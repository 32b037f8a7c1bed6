------------------------------- MODULE Base58 -------------------------------
(***************************************************************************)
(* The characters of a recovery code: base 58 by long multiplication over  *)
(* little-endian digits, as spendNoteBinary.ts does it.  A character is    *)
(* its index in the alphabet, "1" is 0.                                    *)
(***************************************************************************)
EXTENDS Integers, Sequences, SequencesExt

\* digits * factor + carry, in base `base`.
TimesPlus(digits, factor, carry, base) ==
    LET Step(acc, d) == LET c == acc.carry + d * factor
                        IN  [out |-> Append(acc.out, c % base), carry |-> c \div base]
        low == FoldLeft(Step, [out |-> <<>>, carry |-> carry], digits)
        push[c \in Nat] == IF c = 0 THEN <<>> ELSE <<c % base>> \o push[c \div base]
    IN  low.out \o push[low.carry]

Zeros(n) == [i \in 1 .. n |-> 0]
LeadingZeros(s) ==
    CHOOSE n \in 0 .. Len(s) : /\ \A i \in 1 .. n : s[i] = 0
                               /\ n < Len(s) => s[n + 1] # 0

Convert(s, from, to) ==
    LET zeros == LeadingZeros(s)
        digits == FoldLeft(LAMBDA ds, d : TimesPlus(ds, from, d, to), <<0>>,
                           SubSeq(s, zeros + 1, Len(s)))
    IN  IF s = <<>> THEN <<>> ELSE Zeros(zeros) \o Reverse(digits)

Base58Encode(data) == Convert(data, 256, 58)
Base58Decode(text) == Convert(text, 58, 256)

Tricky == {0, 1, 57, 58, 255}
Strings == UNION {[1 .. n -> Tricky] : n \in 1 .. 4}

(* Decoding a code gives the bytes it was made of.  Only a string of zeros  *)
(* gains two, and every code starts with the letters of a format.           *)
ASSUME Base58RoundTrips ==
    \A data \in Strings :
        Base58Decode(Base58Encode(data)) =
            IF \A i \in DOMAIN data : data[i] = 0 THEN data \o <<0, 0>> ELSE data
=============================================================================
