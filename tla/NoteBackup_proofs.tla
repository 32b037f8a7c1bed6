-------------------------- MODULE NoteBackup_proofs --------------------------
(***************************************************************************)
(* Proofs about notes on their way between clients (NoteBackup), for any   *)
(* notes, passphrases, environments, damage and number of moves: no note   *)
(* changes, whoever has the passphrase reads a whole file of a form his    *)
(* command is for, and nobody reads a sealed file without its passphrase   *)
(* or a damaged one at all.                                                *)
(*                                                                         *)
(* The invariant is that a file is either whole, one of the forms a client *)
(* writes of some list of notes, or worth nothing: no way of reading gives *)
(* anything.  Damage turns the first into the second because of one byte.  *)
(* A binary file ends with the hash of its ciphertext, and the only byte   *)
(* of a file that can be taken for the first byte of a hash is the first   *)
(* of that one.  So whatever is read from a damaged file, its checksum     *)
(* starts with that byte, and its ciphertext is the one that was hashed.   *)
(* A ciphertext opens only with the key and nonce it was made with, and a  *)
(* key is derived from one passphrase, salt and set of parameters only.    *)
(* These are all the fields, and they fix every byte of the file: nothing  *)
(* was damaged.  The recovery codes end with a hash of the bytes before    *)
(* it, to which the same argument applies.                                 *)
(***************************************************************************)
EXTENDS NoteBackup, NumberTheorems, FiniteSetTheorems, SequenceTheorems, TLAPS

-----------------------------------------------------------------------------
(* Sequences whose entries are of no common set that has a name. *)

Listed(s) == \E S : s \in Seq(S)

LEMMA ListedIn == ASSUME NEW S, NEW s \in Seq(S) PROVE Listed(s)
BY DEF Listed

LEMMA ListedFacts ==
  ASSUME NEW s, Listed(s)
  PROVE  Len(s) \in Nat /\ DOMAIN s = 1 .. Len(s)
BY DEF Listed

LEMMA Joined ==
  ASSUME NEW s, NEW t, Listed(s), Listed(t)
  PROVE  /\ Listed(s \o t)
         /\ Len(s \o t) = Len(s) + Len(t)
         /\ \A i \in 1 .. Len(s) + Len(t) :
              (s \o t)[i] = IF i <= Len(s) THEN s[i] ELSE t[i - Len(s)]
<1>1. PICK S, T : s \in Seq(S) /\ t \in Seq(T)
  BY DEF Listed
<1> DEFINE U == S \cup T
<1>2. s \in Seq(U)
  BY <1>1, SeqMonotonic
<1>3. t \in Seq(U)
  BY <1>1, SeqMonotonic
<1> QED
  BY <1>2, <1>3, ConcatProperties DEF Listed

LEMMA Alike ==
  ASSUME NEW s, NEW t, Listed(s), Listed(t), Len(s) = Len(t),
         \A i \in 1 .. Len(s) : s[i] = t[i]
  PROVE  s = t
<1>1. PICK S, T : s \in Seq(S) /\ t \in Seq(T)
  BY DEF Listed
<1> DEFINE U == S \cup T
<1>2. s \in Seq(U)
  BY <1>1, SeqMonotonic
<1>3. t \in Seq(U)
  BY <1>1, SeqMonotonic
<1> QED
  BY <1>2, <1>3, SeqEqual

LEMMA Cut ==
  ASSUME NEW s, Listed(s), NEW m \in 1 .. Len(s) + 1, NEW n \in m - 1 .. Len(s)
  PROVE  /\ Listed(SubSeq(s, m, n))
         /\ Len(SubSeq(s, m, n)) = n - m + 1
         /\ \A i \in 1 .. n - m + 1 : SubSeq(s, m, n)[i] = s[m + i - 1]
<1>1. PICK S : s \in Seq(S)
  BY DEF Listed
<1>2. m \in Int /\ n \in Int /\ Len(s) \in Nat
  BY <1>1
<1>3. \A i \in m .. n : s[i] \in S
  BY <1>1, <1>2
<1>4. /\ SubSeq(s, m, n) \in Seq(S)
      /\ Len(SubSeq(s, m, n)) = IF m <= n THEN n - m + 1 ELSE 0
      /\ \A i \in 1 .. n - m + 1 : SubSeq(s, m, n)[i] = s[m + i - 1]
  BY <1>2, <1>3, SubSeqProperties
<1> QED
  BY <1>2, <1>4 DEF Listed

(* A sequence that a part ends, and what is before it. *)
LEMMA CutJoined ==
  ASSUME NEW s, NEW t, Listed(s), Listed(t)
  PROVE  /\ SubSeq(s \o t, 1, Len(s)) = s
         /\ SubSeq(s \o t, Len(s) + 1, Len(s) + Len(t)) = t
<1> DEFINE u == s \o t
<1>1. Len(s) \in Nat /\ Len(t) \in Nat
  BY ListedFacts
<1>2. /\ Listed(u) /\ Len(u) = Len(s) + Len(t)
      /\ \A i \in 1 .. Len(s) + Len(t) : u[i] = IF i <= Len(s) THEN s[i] ELSE t[i - Len(s)]
  BY Joined
<1> HIDE DEF u
<1>3. SubSeq(u, 1, Len(s)) = s
  <2> DEFINE v == SubSeq(u, 1, Len(s))
  <2>1. 1 \in 1 .. Len(u) + 1 /\ Len(s) \in 1 - 1 .. Len(u)
    BY <1>1, <1>2
  <2>2. Listed(v) /\ Len(v) = Len(s) /\ \A i \in 1 .. Len(s) : v[i] = u[1 + i - 1]
    BY <1>1, <1>2, <2>1, Cut
  <2>3. \A i \in 1 .. Len(s) : v[i] = s[i]
    BY <1>1, <1>2, <2>2
  <2> QED
    BY <2>2, <2>3, Alike
<1>4. SubSeq(u, Len(s) + 1, Len(s) + Len(t)) = t
  <2> DEFINE v == SubSeq(u, Len(s) + 1, Len(s) + Len(t))
  <2>1. Len(s) + 1 \in 1 .. Len(u) + 1 /\ Len(s) + Len(t) \in (Len(s) + 1) - 1 .. Len(u)
    BY <1>1, <1>2
  <2>2. Listed(v) /\ Len(v) = Len(t) /\ \A i \in 1 .. Len(t) : v[i] = u[(Len(s) + 1) + i - 1]
    BY <1>1, <1>2, <2>1, Cut
  <2>3. \A i \in 1 .. Len(t) : v[i] = t[i]
    <3> TAKE i \in 1 .. Len(t)
    <3>1. (Len(s) + 1) + i - 1 = Len(s) + i /\ Len(s) + i \in 1 .. Len(s) + Len(t)
          /\ ~(Len(s) + i <= Len(s)) /\ (Len(s) + i) - Len(s) = i
      BY <1>1
    <3> QED
      BY <1>2, <2>2, <3>1
  <2> QED
    BY <2>2, <2>3, Alike
<1> QED
  BY <1>3, <1>4 DEF u

-----------------------------------------------------------------------------
(* Bytes that are derived, and numbers. *)

LEMMA DerivedFacts ==
  ASSUME NEW how, NEW from, NEW n \in Nat
  PROVE  /\ Listed(Derived(how, from, n))
         /\ Len(Derived(how, from, n)) = n
         /\ \A i \in 1 .. n : Derived(how, from, n)[i] =
              [is |-> how, of |-> IF i = 1 THEN from ELSE <<>>, n |-> i]
<1> DEFINE byte(i) == [is |-> how, of |-> IF i = 1 THEN from ELSE <<>>, n |-> i]
           S == {byte(i) : i \in 1 .. n}
           f == [i \in 1 .. n |-> byte(i)]
<1>1. f = Derived(how, from, n)
  BY DEF Derived
<1>2. \A i \in 1 .. n : byte(i) \in S /\ f[i] = byte(i)
  OBVIOUS
<1>3. f \in [1 .. n -> S]
  OBVIOUS
<1> HIDE DEF S
<1>4. f \in Seq(S) /\ Len(f) = n
  <2> HIDE DEF f
  <2> QED
    BY <1>3
<1> QED
  BY <1>1, <1>2, <1>4 DEF Listed

LEMMA U16Facts ==
  ASSUME NEW n
  PROVE  /\ Listed(WriteU16BE(n)) /\ Len(WriteU16BE(n)) = 2
         /\ WriteU16BE(n)[1] = Raw((n \div 256) % 256) /\ WriteU16BE(n)[2] = Raw(n % 256)
<1> DEFINE a == Raw((n \div 256) % 256)
           b == Raw(n % 256)
<1>1. WriteU16BE(n) = <<a, b>>
  BY DEF WriteU16BE
<1> HIDE DEF a, b
<1>2. <<a, b>> \in Seq({a, b}) /\ Len(<<a, b>>) = 2 /\ <<a, b>>[1] = a /\ <<a, b>>[2] = b
  OBVIOUS
<1> QED
  BY <1>1, <1>2 DEF Listed, a, b

LEMMA U32Facts ==
  ASSUME NEW n
  PROVE  /\ Listed(WriteU32BE(n)) /\ Len(WriteU32BE(n)) = 4
         /\ WriteU32BE(n)[1] = Raw(((n \div 65536) \div 256) % 256)
         /\ WriteU32BE(n)[2] = Raw((n \div 65536) % 256)
         /\ WriteU32BE(n)[3] = Raw(((n % 65536) \div 256) % 256)
         /\ WriteU32BE(n)[4] = Raw((n % 65536) % 256)
<1> DEFINE a == WriteU16BE(n \div 65536)
           b == WriteU16BE(n % 65536)
<1>1. WriteU32BE(n) = a \o b
  BY DEF WriteU32BE
<1>2. /\ Listed(a) /\ Len(a) = 2
      /\ a[1] = Raw(((n \div 65536) \div 256) % 256) /\ a[2] = Raw((n \div 65536) % 256)
  BY U16Facts
<1>3. /\ Listed(b) /\ Len(b) = 2
      /\ b[1] = Raw(((n % 65536) \div 256) % 256) /\ b[2] = Raw((n % 65536) % 256)
  BY U16Facts
<1> HIDE DEF a, b
<1>4. Listed(a) /\ Listed(b) /\ Len(a) = 2 /\ Len(b) = 2
  BY <1>2, <1>3
<1>5. /\ Listed(a \o b) /\ Len(a \o b) = 2 + 2
      /\ \A i \in 1 .. 2 + 2 : (a \o b)[i] = IF i <= 2 THEN a[i] ELSE b[i - 2]
  <2>1. /\ Listed(a \o b) /\ Len(a \o b) = Len(a) + Len(b)
        /\ \A i \in 1 .. Len(a) + Len(b) : (a \o b)[i] = IF i <= Len(a) THEN a[i] ELSE b[i - Len(a)]
    BY <1>4, Joined
  <2> QED
    BY <1>4, <2>1
<1>6. (a \o b)[1] = a[1] /\ (a \o b)[2] = a[2] /\ (a \o b)[3] = b[1] /\ (a \o b)[4] = b[2]
  BY <1>5
<1> QED
  BY <1>1, <1>2, <1>3, <1>5, <1>6

(* The bytes of a number of 16 or 32 bits say which it is. *)
LEMMA U16Read ==
  ASSUME NEW n \in Nat, n < 65536
  PROVE  256 * ((n \div 256) % 256) + (n % 256) = n
OBVIOUS

LEMMA U32Read ==
  ASSUME NEW n \in Nat, n \div 65536 < 65536
  PROVE  65536 * (256 * (((n \div 65536) \div 256) % 256) + ((n \div 65536) % 256))
         + (256 * (((n % 65536) \div 256) % 256) + ((n % 65536) % 256)) = n
<1> DEFINE h == n \div 65536
           l == n % 65536
<1>1. h \in Nat /\ l \in Nat /\ h < 65536 /\ l < 65536 /\ n = 65536 * h + l
  OBVIOUS
<1> HIDE DEF h, l
<1>2. 256 * ((h \div 256) % 256) + (h % 256) = h
  BY <1>1, U16Read
<1>3. 256 * ((l \div 256) % 256) + (l % 256) = l
  BY <1>1, U16Read
<1>4. 65536 * (256 * ((h \div 256) % 256) + (h % 256)) + (256 * ((l \div 256) % 256) + (l % 256)) = n
  BY <1>1, <1>2, <1>3
<1> QED
  BY <1>4 DEF h, l

-----------------------------------------------------------------------------
(* The layout of a binary file. *)

HeadOf(e) ==
    Magic \o <<Raw(1)>> \o WriteU16BE(e.argon2.t) \o WriteU32BE(e.argon2.m)
    \o <<Raw(e.argon2.p), Raw(e.argon2.dkLen), Raw(Len(e.salt))>>

\* What the first fourteen bytes are.
Headed(b, e) ==
    /\ SubSeq(b, 1, 4) = Magic
    /\ b[1] = Raw(65) /\ b[2] = Raw(80) /\ b[3] = Raw(78) /\ b[4] = Raw(49)
    /\ b[5] = Raw(1)
    /\ b[6] = WriteU16BE(e.argon2.t)[1] /\ b[7] = WriteU16BE(e.argon2.t)[2]
    /\ b[8] = WriteU32BE(e.argon2.m)[1] /\ b[9] = WriteU32BE(e.argon2.m)[2]
    /\ b[10] = WriteU32BE(e.argon2.m)[3] /\ b[11] = WriteU32BE(e.argon2.m)[4]
    /\ b[12] = Raw(e.argon2.p) /\ b[13] = Raw(e.argon2.dkLen) /\ b[14] = Raw(Len(e.salt))

\* Where the parts end.
AfterSalt(e) == 14 + Len(e.salt)
AfterNonce(e) == 15 + Len(e.salt) + Len(e.nonce)
AfterText(e) == 19 + Len(e.salt) + Len(e.nonce) + Len(e.ciphertext)

Laid(b, e) ==
    /\ Listed(b) /\ Len(b) = AfterText(e) + 32
    /\ Headed(b, e)
    /\ \A i \in 1 .. Len(e.salt) : b[14 + i] = e.salt[i]
    /\ b[AfterSalt(e) + 1] = Raw(Len(e.nonce))
    /\ \A i \in 1 .. Len(e.nonce) : b[AfterSalt(e) + 1 + i] = e.nonce[i]
    /\ \A i \in 1 .. 4 : b[AfterNonce(e) + i] = WriteU32BE(Len(e.ciphertext))[i]
    /\ \A i \in 1 .. Len(e.ciphertext) : b[AfterNonce(e) + 4 + i] = e.ciphertext[i]
    /\ \A i \in 1 .. 32 : b[AfterText(e) + i] = e.checksum[i]

\* The parts are sequences, and the checksum has its length.
Parts(e) ==
    /\ Listed(e.salt) /\ Listed(e.nonce) /\ Listed(e.ciphertext)
    /\ Listed(e.checksum) /\ Len(e.checksum) = 32

LEMMA OneItem == ASSUME NEW x PROVE Listed(<<x>>) /\ Len(<<x>>) = 1 /\ <<x>>[1] = x
<1>1. <<x>> \in Seq({x})
  OBVIOUS
<1> QED
  BY <1>1 DEF Listed

LEMMA ThreeItems ==
  ASSUME NEW x, NEW y, NEW z
  PROVE  /\ Listed(<<x, y, z>>) /\ Len(<<x, y, z>>) = 3
         /\ <<x, y, z>>[1] = x /\ <<x, y, z>>[2] = y /\ <<x, y, z>>[3] = z
<1>1. <<x, y, z>> \in Seq({x, y, z})
  OBVIOUS
<1> QED
  BY <1>1 DEF Listed

LEMMA MagicFacts ==
  /\ Listed(Magic) /\ Len(Magic) = 4
  /\ Magic[1] = Raw(65) /\ Magic[2] = Raw(80) /\ Magic[3] = Raw(78) /\ Magic[4] = Raw(49)
<1>1. Magic \in Seq({Raw(65), Raw(80), Raw(78), Raw(49)})
  BY DEF Magic
<1>2. Listed(Magic)
  BY <1>1 DEF Listed
<1> QED
  BY <1>2 DEF Magic

\* s with t behind it.
Behind(u, s, t) ==
    /\ Listed(u) /\ Len(u) = Len(s) + Len(t)
    /\ \A i \in 1 .. Len(s) : u[i] = s[i]
    /\ \A i \in 1 .. Len(t) : u[Len(s) + i] = t[i]

LEMMA JoinedBehind ==
  ASSUME NEW s, NEW t, Listed(s), Listed(t)
  PROVE  Behind(s \o t, s, t)
<1> DEFINE u == s \o t
<1>1. Len(s) \in Nat /\ Len(t) \in Nat
  BY ListedFacts
<1>2. /\ Listed(u) /\ Len(u) = Len(s) + Len(t)
      /\ \A i \in 1 .. Len(s) + Len(t) : u[i] = IF i <= Len(s) THEN s[i] ELSE t[i - Len(s)]
  BY Joined
<1> HIDE DEF u
<1>3. \A i \in 1 .. Len(s) : u[i] = s[i]
  BY <1>1, <1>2
<1>4. \A i \in 1 .. Len(t) : u[Len(s) + i] = t[i]
  <2> TAKE i \in 1 .. Len(t)
  <2>1. Len(s) + i \in 1 .. Len(s) + Len(t) /\ ~(Len(s) + i <= Len(s)) /\ (Len(s) + i) - Len(s) = i
    BY <1>1
  <2> QED
    BY <1>2, <2>1
<1> QED
  BY <1>2, <1>3, <1>4 DEF Behind, u

\* The first fourteen bytes, with what they begin with.
FourteenOf(h, e) == Listed(h) /\ Len(h) = 14 /\ Headed(h, e)

LEMMA HeadIs == ASSUME NEW e PROVE FourteenOf(HeadOf(e), e)
<1> DEFINE a == Magic
           a2 == <<Raw(1)>>
           c == WriteU16BE(e.argon2.t)
           d == WriteU32BE(e.argon2.m)
           f == <<Raw(e.argon2.p), Raw(e.argon2.dkLen), Raw(Len(e.salt))>>
           s1 == a \o a2
           s2 == s1 \o c
           s3 == s2 \o d
           s4 == s3 \o f
<1>1. HeadOf(e) = s4
  BY DEF HeadOf
<1>2. /\ Listed(a) /\ Len(a) = 4
      /\ a[1] = Raw(65) /\ a[2] = Raw(80) /\ a[3] = Raw(78) /\ a[4] = Raw(49)
  BY MagicFacts
<1>3. Listed(a2) /\ Len(a2) = 1 /\ a2[1] = Raw(1)
  BY OneItem
<1>4. Listed(c) /\ Len(c) = 2
  BY U16Facts
<1>5. Listed(d) /\ Len(d) = 4
  BY U32Facts
<1>6. /\ Listed(f) /\ Len(f) = 3
      /\ f[1] = Raw(e.argon2.p) /\ f[2] = Raw(e.argon2.dkLen) /\ f[3] = Raw(Len(e.salt))
  BY ThreeItems
<1> HIDE DEF a2, c, d, f
<1>7. Behind(s1, a, a2)
  BY <1>2, <1>3, JoinedBehind
<1> HIDE DEF a, s1
<1>7a. Listed(s1) /\ Len(s1) = 5
  BY <1>2, <1>3, <1>7 DEF Behind
<1>8. Behind(s2, s1, c)
  BY <1>4, <1>7a, JoinedBehind
<1> HIDE DEF s2
<1>8a. Listed(s2) /\ Len(s2) = 7
  BY <1>4, <1>7a, <1>8 DEF Behind
<1>9. Behind(s3, s2, d)
  BY <1>5, <1>8a, JoinedBehind
<1> HIDE DEF s3
<1>9a. Listed(s3) /\ Len(s3) = 11
  BY <1>5, <1>8a, <1>9 DEF Behind
<1>10. Behind(s4, s3, f)
  BY <1>6, <1>9a, JoinedBehind
<1> HIDE DEF s4
<1>10a. Listed(s4) /\ Len(s4) = 14
  BY <1>6, <1>9a, <1>10 DEF Behind
<1>11. Listed(s4) /\ SubSeq(s4, 1, 4) = Magic /\ Len(s4) = 14
  <2>1. Len(s1) = 5 /\ Len(s2) = 7 /\ Len(s3) = 11 /\ Len(s4) = 14 /\ Listed(s4)
    BY <1>7a, <1>8a, <1>9a, <1>10a
  <2>2. \A i \in 1 .. 4 : s4[i] = a[i]
    <3> TAKE i \in 1 .. 4
    <3>1. s1[i] = a[i]
      BY <1>2, <1>7 DEF Behind
    <3>2. s2[i] = s1[i]
      BY <1>8, <2>1 DEF Behind
    <3>3. s3[i] = s2[i]
      BY <1>9, <2>1 DEF Behind
    <3>4. s4[i] = s3[i]
      BY <1>10, <2>1 DEF Behind
    <3> QED
      BY <3>1, <3>2, <3>3, <3>4
  <2> DEFINE v == SubSeq(s4, 1, 4)
  <2>3. 1 \in 1 .. Len(s4) + 1 /\ 4 \in 1 - 1 .. Len(s4)
    BY <2>1
  <2>4. Listed(v) /\ Len(v) = 4 - 1 + 1 /\ \A i \in 1 .. 4 - 1 + 1 : v[i] = s4[1 + i - 1]
    BY <2>1, <2>3, Cut
  <2>5. Len(v) = Len(a) /\ \A i \in 1 .. Len(v) : v[i] = a[i]
    BY <1>2, <2>2, <2>4
  <2>6. v = a
    BY <1>2, <2>4, <2>5, Alike
  <2> QED
    BY <2>1, <2>6 DEF a
<1>12. Len(s1) = 5 /\ Len(s2) = 7 /\ Len(s3) = 11
  BY <1>7a, <1>8a, <1>9a
<1>13. s1[1] = a[1] /\ s1[2] = a[2] /\ s1[3] = a[3] /\ s1[4] = a[4] /\ s1[5] = a2[1]
  BY <1>2, <1>3, <1>7 DEF Behind
<1>14. /\ s2[1] = s1[1] /\ s2[2] = s1[2] /\ s2[3] = s1[3] /\ s2[4] = s1[4] /\ s2[5] = s1[5]
       /\ s2[6] = c[1] /\ s2[7] = c[2]
  BY <1>4, <1>8, <1>12 DEF Behind
<1>15. /\ s3[1] = s2[1] /\ s3[2] = s2[2] /\ s3[3] = s2[3] /\ s3[4] = s2[4] /\ s3[5] = s2[5]
       /\ s3[6] = s2[6] /\ s3[7] = s2[7]
       /\ s3[8] = d[1] /\ s3[9] = d[2] /\ s3[10] = d[3] /\ s3[11] = d[4]
  BY <1>5, <1>9, <1>12 DEF Behind
<1>16. /\ s4[1] = s3[1] /\ s4[2] = s3[2] /\ s4[3] = s3[3] /\ s4[4] = s3[4] /\ s4[5] = s3[5]
       /\ s4[6] = s3[6] /\ s4[7] = s3[7] /\ s4[8] = s3[8] /\ s4[9] = s3[9] /\ s4[10] = s3[10]
       /\ s4[11] = s3[11] /\ s4[12] = f[1] /\ s4[13] = f[2] /\ s4[14] = f[3]
  BY <1>6, <1>10, <1>12 DEF Behind
<1>17. Headed(s4, e)
  BY <1>2, <1>3, <1>6, <1>11, <1>13, <1>14, <1>15, <1>16 DEF Headed, c, d
<1> QED
  BY <1>1, <1>11, <1>17 DEF FourteenOf

\* A file is the head and the parts of its envelope, each where it belongs.
LEMMA LaidOut ==
  ASSUME NEW e, Parts(e)
  PROVE  Laid(SealedEnvelopeToBinary(e), e)
<1> DEFINE h == HeadOf(e)
           salt == e.salt
           one == <<Raw(Len(e.nonce))>>
           nonce == e.nonce
           four == WriteU32BE(Len(e.ciphertext))
           ct == e.ciphertext
           cs == e.checksum
           s1 == h \o salt
           s2 == s1 \o one
           s3 == s2 \o nonce
           s4 == s3 \o four
           s5 == s4 \o ct
           s6 == s5 \o cs
<1>1. SealedEnvelopeToBinary(e) = s6
  BY DEF SealedEnvelopeToBinary, HeadOf
<1>2. Listed(h) /\ Len(h) = 14 /\ Headed(h, e)
  BY HeadIs DEF FourteenOf
<1>3. Listed(salt) /\ Listed(nonce) /\ Listed(ct) /\ Listed(cs) /\ Len(cs) = 32
  BY DEF Parts
<1>4. Listed(one) /\ Len(one) = 1 /\ one[1] = Raw(Len(e.nonce))
  BY OneItem
<1>5. Listed(four) /\ Len(four) = 4
  BY U32Facts
<1>6. Len(salt) \in Nat /\ Len(nonce) \in Nat /\ Len(ct) \in Nat
  BY <1>3, ListedFacts
<1> HIDE DEF h, salt, one, nonce, four, ct, cs
<1> DEFINE sn == Len(salt)
           nn == Len(nonce)
           L == Len(ct)
<1>6a. sn \in Nat /\ nn \in Nat /\ L \in Nat
  BY <1>6
<1>7. Behind(s1, h, salt)
  BY <1>2, <1>3, JoinedBehind
<1> HIDE DEF s1
<1>7a. Listed(s1) /\ Len(s1) = 14 + sn
  BY <1>2, <1>7 DEF Behind
<1>8. Behind(s2, s1, one)
  BY <1>4, <1>7a, JoinedBehind
<1> HIDE DEF s2
<1>8a. Listed(s2) /\ Len(s2) = 15 + sn
  BY <1>4, <1>6a, <1>7a, <1>8 DEF Behind
<1>9. Behind(s3, s2, nonce)
  BY <1>3, <1>8a, JoinedBehind
<1> HIDE DEF s3
<1>9a. Listed(s3) /\ Len(s3) = 15 + sn + nn
  BY <1>6a, <1>8a, <1>9 DEF Behind
<1>10. Behind(s4, s3, four)
  BY <1>5, <1>9a, JoinedBehind
<1> HIDE DEF s4
<1>10a. Listed(s4) /\ Len(s4) = 19 + sn + nn
  BY <1>5, <1>6a, <1>9a, <1>10 DEF Behind
<1>11. Behind(s5, s4, ct)
  BY <1>3, <1>10a, JoinedBehind
<1> HIDE DEF s5
<1>11a. Listed(s5) /\ Len(s5) = 19 + sn + nn + L
  BY <1>6a, <1>10a, <1>11 DEF Behind
<1>12. Behind(s6, s5, cs)
  BY <1>3, <1>11a, JoinedBehind
<1> HIDE DEF s6
<1>12a. Listed(s6) /\ Len(s6) = 51 + sn + nn + L
  BY <1>3, <1>6a, <1>11a, <1>12 DEF Behind
<1>13. /\ Len(s1) = 14 + sn /\ Len(s2) = 15 + sn /\ Len(s3) = 15 + sn + nn
       /\ Len(s4) = 19 + sn + nn /\ Len(s5) = 19 + sn + nn + L /\ Len(s6) = 51 + sn + nn + L
  BY <1>7a, <1>8a, <1>9a, <1>10a, <1>11a, <1>12a
<1>14. \A i \in 1 .. 14 + sn : s6[i] = s1[i]
  <2> TAKE i \in 1 .. 14 + sn
  <2>1. /\ i \in 1 .. Len(s1) /\ i \in 1 .. Len(s2) /\ i \in 1 .. Len(s3)
        /\ i \in 1 .. Len(s4) /\ i \in 1 .. Len(s5)
    BY <1>6, <1>13
  <2> QED
    BY <1>8, <1>9, <1>10, <1>11, <1>12, <2>1 DEF Behind
<1>15. \A i \in 1 .. 14 : s6[i] = h[i]
  <2> TAKE i \in 1 .. 14
  <2>1. i \in 1 .. 14 + sn /\ i \in 1 .. Len(h)
    BY <1>2, <1>6
  <2>2. s6[i] = s1[i]
    BY <1>14, <2>1
  <2>3. s1[i] = h[i]
    BY <1>7, <2>1 DEF Behind
  <2> QED
    BY <2>2, <2>3
<1>16. \A i \in 1 .. sn : s6[14 + i] = salt[i]
  <2> TAKE i \in 1 .. sn
  <2>1. 14 + i \in 1 .. 14 + sn /\ s1[14 + i] = salt[i]
    BY <1>2, <1>6, <1>7 DEF Behind
  <2> QED
    BY <1>14, <2>1
<1>17. s6[15 + sn] = one[1]
  <2>1. /\ 15 + sn \in 1 .. Len(s2) /\ 15 + sn \in 1 .. Len(s3)
        /\ 15 + sn \in 1 .. Len(s4) /\ 15 + sn \in 1 .. Len(s5)
    BY <1>6, <1>13
  <2>2. s2[Len(s1) + 1] = one[1] /\ Len(s1) + 1 = 15 + sn
    BY <1>4, <1>6, <1>8, <1>13 DEF Behind
  <2> QED
    BY <1>9, <1>10, <1>11, <1>12, <2>1, <2>2 DEF Behind
<1>18. \A i \in 1 .. nn : s6[15 + sn + i] = nonce[i]
  <2> TAKE i \in 1 .. nn
  <2>1. 15 + sn + i \in 1 .. Len(s3) /\ 15 + sn + i \in 1 .. Len(s4) /\ 15 + sn + i \in 1 .. Len(s5)
    BY <1>6, <1>13
  <2>2. s3[15 + sn + i] = nonce[i]
    BY <1>9, <1>13 DEF Behind
  <2> QED
    BY <1>10, <1>11, <1>12, <2>1, <2>2 DEF Behind
<1>19. \A i \in 1 .. 4 : s6[15 + sn + nn + i] = four[i]
  <2> TAKE i \in 1 .. 4
  <2>1. 15 + sn + nn + i \in 1 .. Len(s4) /\ 15 + sn + nn + i \in 1 .. Len(s5)
    BY <1>6, <1>13
  <2>2. s4[15 + sn + nn + i] = four[i]
    BY <1>5, <1>10, <1>13 DEF Behind
  <2> QED
    BY <1>11, <1>12, <2>1, <2>2 DEF Behind
<1>20. \A i \in 1 .. L : s6[19 + sn + nn + i] = ct[i]
  <2> TAKE i \in 1 .. L
  <2>1. 19 + sn + nn + i \in 1 .. Len(s5)
    BY <1>6, <1>13
  <2>2. s5[19 + sn + nn + i] = ct[i]
    BY <1>11, <1>13 DEF Behind
  <2> QED
    BY <1>12, <2>1, <2>2 DEF Behind
<1>21. \A i \in 1 .. 32 : s6[19 + sn + nn + L + i] = cs[i]
  BY <1>3, <1>12, <1>13 DEF Behind
<1>22. Headed(s6, e)
  <2>1. SubSeq(s6, 1, 4) = SubSeq(h, 1, 4)
    <3> DEFINE v == SubSeq(s6, 1, 4)
               w == SubSeq(h, 1, 4)
    <3>1. 1 \in 1 .. Len(s6) + 1 /\ 4 \in 1 - 1 .. Len(s6) /\ Listed(s6)
      BY <1>6, <1>12, <1>13 DEF Behind
    <3>2. Listed(v) /\ Len(v) = 4 - 1 + 1 /\ \A i \in 1 .. 4 - 1 + 1 : v[i] = s6[1 + i - 1]
      BY <3>1, Cut
    <3>3. 1 \in 1 .. Len(h) + 1 /\ 4 \in 1 - 1 .. Len(h)
      BY <1>2
    <3>4. Listed(w) /\ Len(w) = 4 - 1 + 1 /\ \A i \in 1 .. 4 - 1 + 1 : w[i] = h[1 + i - 1]
      BY <1>2, <3>3, Cut
    <3> HIDE DEF v, w
    <3>5. Len(v) = Len(w) /\ \A i \in 1 .. Len(v) : v[i] = w[i]
      BY <1>15, <3>2, <3>4
    <3>6. v = w
      BY <3>2, <3>4, <3>5, Alike
    <3> QED
      BY <3>6 DEF v, w
  <2>2. /\ s6[1] = h[1] /\ s6[2] = h[2] /\ s6[3] = h[3] /\ s6[4] = h[4] /\ s6[5] = h[5]
        /\ s6[6] = h[6] /\ s6[7] = h[7] /\ s6[8] = h[8] /\ s6[9] = h[9] /\ s6[10] = h[10]
        /\ s6[11] = h[11] /\ s6[12] = h[12] /\ s6[13] = h[13] /\ s6[14] = h[14]
    BY <1>15
  <2> QED
    BY <1>2, <2>1, <2>2 DEF Headed
<1>23. Listed(s6)
  BY <1>12 DEF Behind
<1>24. /\ sn = Len(e.salt) /\ nn = Len(e.nonce) /\ L = Len(e.ciphertext)
       /\ salt = e.salt /\ nonce = e.nonce /\ ct = e.ciphertext /\ cs = e.checksum
  BY DEF salt, nonce, ct, cs
<1>25. /\ AfterSalt(e) = 14 + sn /\ AfterNonce(e) = 15 + sn + nn
       /\ AfterText(e) = 19 + sn + nn + L
  BY <1>24 DEF AfterSalt, AfterNonce, AfterText
<1> HIDE DEF sn, nn, L
<1>26. /\ AfterSalt(e) + 1 = 15 + sn /\ AfterText(e) + 32 = 51 + sn + nn + L
       /\ AfterNonce(e) + 4 = 19 + sn + nn
  BY <1>6, <1>25 DEF sn, nn, L
<1>27. \A i \in 1 .. Len(e.nonce) : s6[AfterSalt(e) + 1 + i] = e.nonce[i]
  BY <1>18, <1>24, <1>26
<1>28. \A i \in 1 .. Len(e.ciphertext) : s6[AfterNonce(e) + 4 + i] = e.ciphertext[i]
  BY <1>20, <1>24, <1>26
<1>29. \A i \in 1 .. 32 : s6[AfterText(e) + i] = e.checksum[i]
  BY <1>21, <1>24, <1>25
<1>30. \A i \in 1 .. 4 : s6[AfterNonce(e) + i] = WriteU32BE(Len(e.ciphertext))[i]
  BY <1>19, <1>25 DEF four
<1>31. s6[AfterSalt(e) + 1] = Raw(Len(e.nonce))
  BY <1>4, <1>17, <1>26
<1>32. \A i \in 1 .. Len(e.salt) : s6[14 + i] = e.salt[i]
  BY <1>16, <1>24
<1>33. Len(s6) = AfterText(e) + 32
  BY <1>13, <1>26 DEF sn, nn, L
<1>34. Laid(s6, e)
  BY <1>22, <1>23, <1>27, <1>28, <1>29, <1>30, <1>31, <1>32, <1>33 DEF Laid
<1> QED
  BY <1>1, <1>34

-----------------------------------------------------------------------------
(* What is read from a binary file. *)

SaltEnd(b) == 14 + b[14].n
NonceEnd(b) == SaltEnd(b) + 1 + b[SaltEnd(b) + 1].n
TextEnd(b) == NonceEnd(b) + 4 + ReadU32BE(b, NonceEnd(b) + 1)
TextOf(b) == SubSeq(b, NonceEnd(b) + 5, TextEnd(b))
ChecksumOf(b) == SubSeq(b, TextEnd(b) + 1, TextEnd(b) + 32)
ParametersOf(b) ==
    [t |-> ReadU16BE(b, 6), m |-> ReadU32BE(b, 8), p |-> b[12].n, dkLen |-> b[13].n]

Readable(b) ==
    /\ Len(b) >= 59 + 32 /\ SubSeq(b, 1, 4) = Magic /\ b[5] = Raw(1)
    /\ SaltEnd(b) < Len(b) /\ NonceEnd(b) + 4 <= Len(b) /\ TextEnd(b) + 32 <= Len(b)
    /\ ChecksumOf(b) = Blake2b(TextOf(b), 32)

EnvelopeOf(b) ==
    [argon2 |-> ParametersOf(b),
     salt |-> SubSeq(b, 15, SaltEnd(b)), nonce |-> SubSeq(b, SaltEnd(b) + 2, NonceEnd(b)),
     ciphertext |-> TextOf(b), checksum |-> ChecksumOf(b)]

\* Both clients read the same.
LEMMA BytesRead ==
  ASSUME NEW b, Listed(b)
  PROVE  /\ BinaryToSealedEnvelope(b) = IF Readable(b) THEN {EnvelopeOf(b)} ELSE {}
         /\ PyBinaryToSealedEnvelope(b) = BinaryToSealedEnvelope(b)
<1>1. Len(b) \in Nat
  BY ListedFacts
<1>2. BinaryToSealedEnvelope(b) = IF Readable(b) /\ IsApnoteBinary(b) THEN {EnvelopeOf(b)} ELSE {}
  BY DEF BinaryToSealedEnvelope, Readable, IsApnoteBinary, EnvelopeOf, ParametersOf, TextOf,
         ChecksumOf, TextEnd, NonceEnd, SaltEnd
<1>3. PyBinaryToSealedEnvelope(b) = IF Readable(b) THEN {EnvelopeOf(b)} ELSE {}
  BY DEF PyBinaryToSealedEnvelope, Readable, EnvelopeOf, ParametersOf, TextOf,
         ChecksumOf, TextEnd, NonceEnd, SaltEnd
<1>4. Readable(b) => IsApnoteBinary(b)
  BY <1>1 DEF Readable, IsApnoteBinary
<1> QED
  BY <1>2, <1>3, <1>4

LEMMA Writers ==
  ASSUME NEW e
  PROVE  PySealedEnvelopeToBinary(e) = SealedEnvelopeToBinary(e)
BY DEF PySealedEnvelopeToBinary, SealedEnvelopeToBinary

\* An envelope whose numbers fit the bytes they are written in.
Numbered(argon) ==
    /\ argon = [t |-> argon.t, m |-> argon.m, p |-> argon.p, dkLen |-> argon.dkLen]
    /\ argon.t \in Nat /\ argon.t < 65536
    /\ argon.m \in Nat /\ argon.m \div 65536 < 65536

Written(e) ==
    /\ e = [argon2 |-> e.argon2, salt |-> e.salt, nonce |-> e.nonce,
            ciphertext |-> e.ciphertext, checksum |-> e.checksum]
    /\ Parts(e) /\ Numbered(e.argon2)
    /\ Len(e.ciphertext) \div 65536 < 65536
    /\ e.checksum = Blake2b(e.ciphertext, 32)

LEMMA Ends ==
  ASSUME NEW e, Parts(e)
  PROVE  \E sn, nn, L \in Nat :
           /\ Len(e.salt) = sn /\ Len(e.nonce) = nn /\ Len(e.ciphertext) = L
           /\ AfterSalt(e) = 14 + sn /\ AfterNonce(e) = 15 + sn + nn
           /\ AfterText(e) = 19 + sn + nn + L
<1> DEFINE sn == Len(e.salt)
           nn == Len(e.nonce)
           L == Len(e.ciphertext)
<1>1. sn \in Nat
  BY ListedFacts DEF Parts
<1>2. nn \in Nat
  BY ListedFacts DEF Parts
<1>3. L \in Nat
  BY ListedFacts DEF Parts
<1>4. /\ AfterSalt(e) = 14 + sn /\ AfterNonce(e) = 15 + sn + nn
      /\ AfterText(e) = 19 + sn + nn + L
  BY DEF AfterSalt, AfterNonce, AfterText
<1>5. Len(e.salt) = sn /\ Len(e.nonce) = nn /\ Len(e.ciphertext) = L
  OBVIOUS
<1> HIDE DEF sn, nn, L
<1> QED
  BY <1>1, <1>2, <1>3, <1>4, <1>5

LEMMA RawNumber == ASSUME NEW n PROVE Raw(n).n = n /\ Raw(n).is = "raw"
BY DEF Raw

LEMMA NumberRead16 ==
  ASSUME NEW n \in Nat, n < 65536, NEW b, NEW i \in Nat,
         b[i] = WriteU16BE(n)[1], b[i + 1] = WriteU16BE(n)[2]
  PROVE  ReadU16BE(b, i) = n
<1>1. b[i].n = (n \div 256) % 256
  BY U16Facts, RawNumber
<1>2. b[i + 1].n = n % 256
  BY U16Facts, RawNumber
<1>3. ReadU16BE(b, i) = 256 * b[i].n + b[i + 1].n
  BY DEF ReadU16BE
<1>4. ReadU16BE(b, i) = 256 * ((n \div 256) % 256) + (n % 256)
  BY <1>1, <1>2, <1>3
<1> QED
  BY <1>4, U16Read

LEMMA NumberRead32 ==
  ASSUME NEW n \in Nat, n \div 65536 < 65536, NEW b, NEW i \in Nat,
         b[i] = WriteU32BE(n)[1], b[i + 1] = WriteU32BE(n)[2],
         b[i + 2] = WriteU32BE(n)[3], b[i + 3] = WriteU32BE(n)[4]
  PROVE  ReadU32BE(b, i) = n
<1> DEFINE h == n \div 65536
           l == n % 65536
<1>1. b[i].n = (h \div 256) % 256
  BY U32Facts, RawNumber
<1>2. b[i + 1].n = h % 256
  BY U32Facts, RawNumber
<1>3. b[i + 2].n = (l \div 256) % 256
  BY U32Facts, RawNumber
<1>4. b[i + 3].n = l % 256
  BY U32Facts, RawNumber
<1>5. i + 2 + 1 = i + 3
  OBVIOUS
<1>6. ReadU32BE(b, i) = 65536 * (256 * b[i].n + b[i + 1].n) + (256 * b[i + 2].n + b[i + 3].n)
  BY <1>5 DEF ReadU32BE, ReadU16BE
<1>7. 65536 * (256 * ((h \div 256) % 256) + (h % 256)) + (256 * ((l \div 256) % 256) + (l % 256)) = n
  BY U32Read
<1> HIDE DEF h, l
<1> QED
  BY <1>1, <1>2, <1>3, <1>4, <1>6, <1>7

\* Reading a sequence out of one that holds it.
LEMMA CutIs ==
  ASSUME NEW b, NEW s, Listed(b), Listed(s), NEW k \in Nat, k + Len(s) <= Len(b),
         \A i \in 1 .. Len(s) : b[k + i] = s[i]
  PROVE  SubSeq(b, k + 1, k + Len(s)) = s
<1> DEFINE v == SubSeq(b, k + 1, k + Len(s))
<1>1. Len(s) \in Nat /\ Len(b) \in Nat
  BY ListedFacts
<1>2. k + 1 \in 1 .. Len(b) + 1 /\ k + Len(s) \in (k + 1) - 1 .. Len(b)
  BY <1>1
<1>3. /\ Listed(v) /\ Len(v) = (k + Len(s)) - (k + 1) + 1
      /\ \A i \in 1 .. (k + Len(s)) - (k + 1) + 1 : v[i] = b[(k + 1) + i - 1]
  BY <1>2, Cut
<1> HIDE DEF v
<1>4. Len(v) = Len(s) /\ \A i \in 1 .. Len(v) : v[i] = b[k + i]
  <2>1. Len(v) = Len(s)
    BY <1>1, <1>3
  <2>2. \A i \in 1 .. Len(v) : (k + 1) + i - 1 = k + i
    BY <1>1, <2>1
  <2> QED
    BY <1>3, <2>1, <2>2
<1>5. v = s
  BY <1>3, <1>4, Alike
<1> QED
  BY <1>5 DEF v

\* The numbers and the parts of a written file are those of the envelope.
ReadBack(b, e) ==
    /\ SaltEnd(b) = AfterSalt(e) /\ NonceEnd(b) = AfterNonce(e) /\ TextEnd(b) = AfterText(e)
    /\ EnvelopeOf(b) = e
    /\ TextOf(b) = e.ciphertext

LEMMA FieldsRead ==
  ASSUME NEW e, Written(e), NEW b, Laid(b, e)
  PROVE  ReadBack(b, e)
<1>1. /\ Listed(e.salt) /\ Listed(e.nonce) /\ Listed(e.ciphertext) /\ Listed(e.checksum)
      /\ Len(e.checksum) = 32
  BY DEF Written, Parts
<1>2. PICK sn, nn, L \in Nat :
        /\ Len(e.salt) = sn /\ Len(e.nonce) = nn /\ Len(e.ciphertext) = L
        /\ AfterSalt(e) = 14 + sn /\ AfterNonce(e) = 15 + sn + nn
        /\ AfterText(e) = 19 + sn + nn + L
  BY Ends DEF Written
<1>3. Listed(b) /\ Len(b) = AfterText(e) + 32
  BY DEF Laid
<1>4. SaltEnd(b) = AfterSalt(e)
  BY RawNumber DEF Laid, Headed, SaltEnd, AfterSalt
<1>5. NonceEnd(b) = AfterNonce(e)
  <2>1. b[AfterSalt(e) + 1].n = Len(e.nonce)
    BY RawNumber DEF Laid
  <2> QED
    BY <1>2, <1>4, <2>1 DEF NonceEnd
<1>6. AfterNonce(e) \in Nat /\ AfterSalt(e) \in Nat /\ AfterText(e) \in Nat
  BY <1>2
<1>7. ReadU32BE(b, AfterNonce(e) + 1) = Len(e.ciphertext)
  <2> DEFINE i == AfterNonce(e) + 1
             n == Len(e.ciphertext)
  <2>1. i \in Nat /\ n \in Nat /\ n \div 65536 < 65536
    BY <1>2, <1>6 DEF Written
  <2>2. \A j \in 1 .. 4 : b[AfterNonce(e) + j] = WriteU32BE(n)[j]
    BY DEF Laid
  <2>3. b[AfterNonce(e) + 1] = WriteU32BE(n)[1] /\ b[AfterNonce(e) + 2] = WriteU32BE(n)[2]
        /\ b[AfterNonce(e) + 3] = WriteU32BE(n)[3] /\ b[AfterNonce(e) + 4] = WriteU32BE(n)[4]
    BY <2>2
  <2>4. i + 1 = AfterNonce(e) + 2 /\ i + 2 = AfterNonce(e) + 3 /\ i + 3 = AfterNonce(e) + 4
    BY <1>6
  <2>5. b[i] = WriteU32BE(n)[1] /\ b[i + 1] = WriteU32BE(n)[2]
        /\ b[i + 2] = WriteU32BE(n)[3] /\ b[i + 3] = WriteU32BE(n)[4]
    BY <2>3, <2>4
  <2> HIDE DEF i, n
  <2>6. ReadU32BE(b, i) = n
    BY <2>1, <2>5, NumberRead32
  <2> QED
    BY <2>6 DEF i, n
<1>8. TextEnd(b) = AfterText(e)
  BY <1>2, <1>5, <1>7 DEF TextEnd
<1>9. SubSeq(b, 15, SaltEnd(b)) = e.salt
  <2>1. 14 + Len(e.salt) <= Len(b) /\ \A i \in 1 .. Len(e.salt) : b[14 + i] = e.salt[i]
    BY <1>2, <1>3 DEF Laid
  <2>2. SubSeq(b, 14 + 1, 14 + Len(e.salt)) = e.salt
    BY <1>1, <1>3, <2>1, CutIs
  <2> QED
    BY <1>2, <1>4, <2>2
<1>10. SubSeq(b, SaltEnd(b) + 2, NonceEnd(b)) = e.nonce
  <2> DEFINE k == AfterSalt(e) + 1
  <2>1. k + Len(e.nonce) = AfterNonce(e) /\ k \in Nat /\ k + 1 = AfterSalt(e) + 2
    BY <1>2
  <2>2. k + Len(e.nonce) <= Len(b)
    BY <1>2, <1>3, <2>1
  <2>3. \A i \in 1 .. Len(e.nonce) : b[k + i] = e.nonce[i]
    BY DEF Laid
  <2> HIDE DEF k
  <2>4. SubSeq(b, k + 1, k + Len(e.nonce)) = e.nonce
    BY <1>1, <1>3, <2>1, <2>2, <2>3, CutIs
  <2> QED
    BY <1>4, <1>5, <2>1, <2>4
<1>11. TextOf(b) = e.ciphertext
  <2> DEFINE k == AfterNonce(e) + 4
  <2>1. k + Len(e.ciphertext) = AfterText(e) /\ k \in Nat /\ k + 1 = AfterNonce(e) + 5
    BY <1>2
  <2>2. k + Len(e.ciphertext) <= Len(b)
    BY <1>3, <1>6, <2>1
  <2>3. \A i \in 1 .. Len(e.ciphertext) : b[k + i] = e.ciphertext[i]
    BY DEF Laid
  <2> HIDE DEF k
  <2>4. SubSeq(b, k + 1, k + Len(e.ciphertext)) = e.ciphertext
    BY <1>1, <1>3, <2>1, <2>2, <2>3, CutIs
  <2> QED
    BY <1>5, <1>8, <2>1, <2>4 DEF TextOf
<1>12. ChecksumOf(b) = e.checksum
  <2>1. AfterText(e) + Len(e.checksum) <= Len(b) /\ AfterText(e) \in Nat
    BY <1>1, <1>3, <1>6
  <2>2. \A i \in 1 .. Len(e.checksum) : b[AfterText(e) + i] = e.checksum[i]
    BY <1>1 DEF Laid
  <2>3. SubSeq(b, AfterText(e) + 1, AfterText(e) + Len(e.checksum)) = e.checksum
    BY <1>1, <1>3, <2>1, <2>2, CutIs
  <2> QED
    BY <1>1, <1>8, <2>3 DEF ChecksumOf
<1>13. ParametersOf(b) = e.argon2
  <2> DEFINE a == e.argon2
  <2>1. /\ a = [t |-> a.t, m |-> a.m, p |-> a.p, dkLen |-> a.dkLen]
        /\ a.t \in Nat /\ a.t < 65536 /\ a.m \in Nat /\ a.m \div 65536 < 65536
    BY DEF Written, Numbered
  <2>2. b[6] = WriteU16BE(a.t)[1] /\ b[6 + 1] = WriteU16BE(a.t)[2]
    BY DEF Laid, Headed
  <2>3. b[8] = WriteU32BE(a.m)[1] /\ b[8 + 1] = WriteU32BE(a.m)[2]
        /\ b[8 + 2] = WriteU32BE(a.m)[3] /\ b[8 + 3] = WriteU32BE(a.m)[4]
    BY DEF Laid, Headed
  <2>4. b[12].n = a.p /\ b[13].n = a.dkLen
    <3>1. b[12] = Raw(a.p) /\ b[13] = Raw(a.dkLen)
      BY DEF Laid, Headed
    <3> QED
      BY <3>1, RawNumber
  <2> HIDE DEF a
  <2>5. ReadU16BE(b, 6) = a.t
    BY <2>1, <2>2, NumberRead16
  <2>6. ReadU32BE(b, 8) = a.m
    BY <2>1, <2>3, NumberRead32
  <2>7. ParametersOf(b) = [t |-> a.t, m |-> a.m, p |-> a.p, dkLen |-> a.dkLen]
    BY <2>4, <2>5, <2>6 DEF ParametersOf
  <2> QED
    BY <2>1, <2>7 DEF a
<1>14. EnvelopeOf(b) = [argon2 |-> e.argon2, salt |-> e.salt, nonce |-> e.nonce,
                        ciphertext |-> e.ciphertext, checksum |-> e.checksum]
  BY <1>9, <1>10, <1>11, <1>12, <1>13 DEF EnvelopeOf
<1>15. EnvelopeOf(b) = e
  BY <1>14 DEF Written
<1> QED
  BY <1>4, <1>5, <1>8, <1>11, <1>15 DEF ReadBack

LEMMA Reparsed ==
  ASSUME NEW e, Written(e)
  PROVE  /\ BinaryToSealedEnvelope(SealedEnvelopeToBinary(e)) \subseteq {e}
         /\ Len(e.salt) + Len(e.nonce) >= 40
              => BinaryToSealedEnvelope(SealedEnvelopeToBinary(e)) = {e}
<1> DEFINE b == SealedEnvelopeToBinary(e)
<1>1. Laid(b, e)
  BY LaidOut DEF Written
<1> HIDE DEF b
<1>2. ReadBack(b, e)
  BY <1>1, FieldsRead
<1>3. Listed(b)
  BY <1>1 DEF Laid
<1>4. BinaryToSealedEnvelope(b) = IF Readable(b) THEN {e} ELSE {}
  BY <1>2, <1>3, BytesRead DEF ReadBack
<1>5. ASSUME Len(e.salt) + Len(e.nonce) >= 40 PROVE Readable(b)
  <2>1. PICK sn, nn, L \in Nat :
          /\ Len(e.salt) = sn /\ Len(e.nonce) = nn /\ Len(e.ciphertext) = L
          /\ AfterSalt(e) = 14 + sn /\ AfterNonce(e) = 15 + sn + nn
          /\ AfterText(e) = 19 + sn + nn + L
    BY Ends DEF Written
  <2>2. Len(b) = AfterText(e) + 32
    BY <1>1 DEF Laid
  <2>3. /\ Len(b) >= 59 + 32 /\ SaltEnd(b) < Len(b)
        /\ NonceEnd(b) + 4 <= Len(b) /\ TextEnd(b) + 32 <= Len(b)
    BY <1>2, <1>5, <2>1, <2>2 DEF ReadBack
  <2>4. SubSeq(b, 1, 4) = Magic /\ b[5] = Raw(1)
    BY <1>1 DEF Laid, Headed
  <2>5. ChecksumOf(b) = Blake2b(TextOf(b), 32)
    <3>1. EnvelopeOf(b).checksum = ChecksumOf(b)
      BY DEF EnvelopeOf
    <3>2. ChecksumOf(b) = e.checksum /\ TextOf(b) = e.ciphertext
      BY <1>2, <3>1 DEF ReadBack
    <3> QED
      BY <3>2 DEF Written
  <2> QED
    BY <2>3, <2>4, <2>5 DEF Readable
<1> QED
  BY <1>4, <1>5 DEF b

-----------------------------------------------------------------------------
(* Sealing notes and opening what is sealed. *)

Salt == RandomBytes("salt", 16)
Nonce == RandomBytes("nonce", 24)
Numbers(argon) == <<Raw(argon.t), Raw(argon.m), Raw(argon.p), Raw(argon.dkLen)>>
KeyFrom(pass, salt, argon) == <<pass>> \o salt \o Numbers(argon)
Key(pass, salt, argon) == Derived("argon2id", KeyFrom(pass, salt, argon), 1)
TextFor(pass, notes) == AeadEncrypt(Key(pass, Salt, ARGON2), Nonce, notes)
EnvelopeFor(pass, notes) ==
    [argon2 |-> ARGON2, salt |-> Salt, nonce |-> Nonce, ciphertext |-> TextFor(pass, notes),
     checksum |-> Blake2b(TextFor(pass, notes), 32)]

LEMMA KeyIs ==
  ASSUME NEW pass, NEW salt, NEW argon
  PROVE  DeriveKey(pass, salt, argon) = IF pass.length < 8 THEN {} ELSE {Key(pass, salt, argon)}
BY DEF DeriveKey, Key, KeyFrom, Numbers

LEMMA Sealing ==
  ASSUME NEW pass, NEW notes
  PROVE  EncryptSpendNotes(pass, notes) = IF pass.length < 8 THEN {} ELSE {EnvelopeFor(pass, notes)}
<1> DEFINE k == Key(pass, Salt, ARGON2)
<1>1. CASE pass.length < 8
  <2>1. DeriveKey(pass, Salt, ARGON2) = {}
    BY <1>1, KeyIs
  <2> QED
    BY <1>1, <2>1 DEF EncryptSpendNotes, Salt
<1>2. CASE ~(pass.length < 8)
  <2>1. DeriveKey(pass, Salt, ARGON2) = {k}
    BY <1>2, KeyIs
  <2> HIDE DEF k
  <2>2. {AeadEncrypt(key, Nonce, notes) : key \in {k}} = {AeadEncrypt(k, Nonce, notes)}
    OBVIOUS
  <2>3. EncryptSpendNotes(pass, notes) =
          {[argon2 |-> ARGON2, salt |-> Salt, nonce |-> Nonce, ciphertext |-> ct,
            checksum |-> Blake2b(ct, 32)] : ct \in {AeadEncrypt(k, Nonce, notes)}}
    BY <2>1, <2>2 DEF EncryptSpendNotes, Salt, Nonce
  <2>4. EnvelopeFor(pass, notes) =
          [argon2 |-> ARGON2, salt |-> Salt, nonce |-> Nonce,
           ciphertext |-> AeadEncrypt(k, Nonce, notes),
           checksum |-> Blake2b(AeadEncrypt(k, Nonce, notes), 32)]
    BY DEF EnvelopeFor, TextFor, k
  <2> QED
    BY <1>2, <2>3, <2>4
<1> QED
  BY <1>1, <1>2

\* u has as many entries as s and t together.
LongAs(u, s, t) == Listed(u) /\ Len(u) = Len(s) + Len(t)

LEMMA JoinedLong == ASSUME NEW s, NEW t, Listed(s), Listed(t) PROVE LongAs(s \o t, s, t)
BY Joined DEF LongAs

\* Two splits of one sequence at one place are the same.
Matched(a, b, c, d) == a = c /\ b = d

LEMMA SplitEqual ==
  ASSUME NEW a, NEW b, NEW c, NEW d, Listed(a), Listed(b), Listed(c), Listed(d),
         a \o b = c \o d, Len(a) = Len(c)
  PROVE  Matched(a, b, c, d)
<1>1. /\ SubSeq(a \o b, 1, Len(a)) = a
      /\ SubSeq(a \o b, Len(a) + 1, Len(a) + Len(b)) = b
  BY CutJoined
<1>2. /\ SubSeq(c \o d, 1, Len(c)) = c
      /\ SubSeq(c \o d, Len(c) + 1, Len(c) + Len(d)) = d
  BY CutJoined
<1>3. Len(a \o b) = Len(a) + Len(b) /\ Len(c \o d) = Len(c) + Len(d)
  BY Joined
<1>4. Len(a) \in Nat /\ Len(b) \in Nat /\ Len(c) \in Nat /\ Len(d) \in Nat
  BY ListedFacts
<1>5. Len(b) = Len(d)
  BY <1>3, <1>4
<1> QED
  BY <1>1, <1>2, <1>5 DEF Matched

LEMMA FourItems ==
  ASSUME NEW w, NEW x, NEW y, NEW z
  PROVE  /\ Listed(<<w, x, y, z>>) /\ Len(<<w, x, y, z>>) = 4
<1>1. <<w, x, y, z>> \in Seq({w, x, y, z})
  OBVIOUS
<1> QED
  BY <1>1 DEF Listed

SameKey(p, s, a, q, t, c) ==
    p = q /\ s = t /\ a.t = c.t /\ a.m = c.m /\ a.p = c.p /\ a.dkLen = c.dkLen

LEMMA KeysDiffer ==
  ASSUME NEW p, NEW s, NEW a, NEW q, NEW t, NEW c, Listed(s), Listed(t),
         KeyFrom(p, s, a) = KeyFrom(q, t, c)
  PROVE  SameKey(p, s, a, q, t, c)
<1> DEFINE p1 == <<p>>
           q1 == <<q>>
           na == Numbers(a)
           nc == Numbers(c)
<1>1. Listed(p1) /\ Len(p1) = 1 /\ p1[1] = p
  BY OneItem
<1>2. Listed(q1) /\ Len(q1) = 1 /\ q1[1] = q
  BY OneItem
<1>3. Listed(na) /\ Len(na) = 4
  BY FourItems DEF Numbers
<1>4. Listed(nc) /\ Len(nc) = 4
  BY FourItems DEF Numbers
<1>5. (p1 \o s) \o na = (q1 \o t) \o nc
  BY DEF KeyFrom
<1> HIDE DEF p1, q1, na, nc
<1>6. LongAs(p1 \o s, p1, s)
  BY <1>1, JoinedLong
<1>7. LongAs(q1 \o t, q1, t)
  BY <1>2, JoinedLong
<1>8. Len(s) \in Nat /\ Len(t) \in Nat
  BY ListedFacts
<1> DEFINE ps == p1 \o s
           qt == q1 \o t
<1>9. Listed(ps) /\ Len(ps) = 1 + Len(s)
  BY <1>1, <1>6 DEF LongAs
<1>10. Listed(qt) /\ Len(qt) = 1 + Len(t)
  BY <1>2, <1>7 DEF LongAs
<1> HIDE DEF ps, qt
<1>11. LongAs(ps \o na, ps, na) /\ LongAs(qt \o nc, qt, nc)
  BY <1>3, <1>4, <1>9, <1>10, JoinedLong
<1>11a. ps \o na = qt \o nc
  BY <1>5 DEF ps, qt
<1>11b. Len(ps) = Len(qt)
  <2>1. Len(ps \o na) = (1 + Len(s)) + 4
    BY <1>3, <1>9, <1>11 DEF LongAs
  <2>2. Len(qt \o nc) = (1 + Len(t)) + 4
    BY <1>4, <1>10, <1>11 DEF LongAs
  <2>3. Len(s) = Len(t)
    BY <1>8, <1>11a, <2>1, <2>2
  <2> QED
    BY <1>9, <1>10, <2>3
<1>11c. Matched(ps, na, qt, nc)
  BY <1>3, <1>4, <1>9, <1>10, <1>11a, <1>11b, SplitEqual
<1>12. p1 \o s = q1 \o t /\ na = nc
  BY <1>11c DEF Matched, ps, qt
<1>13a. Matched(p1, s, q1, t)
  BY <1>1, <1>2, <1>12, SplitEqual
<1>13. p1 = q1 /\ s = t
  BY <1>13a DEF Matched
<1>14. p = q
  BY <1>1, <1>2, <1>13
<1>15. Numbers(a) = Numbers(c)
  BY <1>12 DEF na, nc
<1>16. Raw(a.t) = Raw(c.t) /\ Raw(a.m) = Raw(c.m) /\ Raw(a.p) = Raw(c.p) /\ Raw(a.dkLen) = Raw(c.dkLen)
  BY <1>15 DEF Numbers
<1>17. a.t = c.t /\ a.m = c.m /\ a.p = c.p /\ a.dkLen = c.dkLen
  BY <1>16, RawNumber
<1> QED
  BY <1>13, <1>14, <1>17 DEF SameKey

LEMMA RandomFacts ==
  Listed(Salt) /\ Len(Salt) = 16 /\ Listed(Nonce) /\ Len(Nonce) = 24
<1>1. \A how, from : \A n \in Nat : Listed(Derived(how, from, n)) /\ Len(Derived(how, from, n)) = n
  BY DerivedFacts
<1>2. \A how : \A n \in Nat : Listed(RandomBytes(how, n)) /\ Len(RandomBytes(how, n)) = n
  BY <1>1 DEF RandomBytes
<1> QED
  BY <1>2 DEF Salt, Nonce

LEMMA KeyFacts ==
  ASSUME NEW pass, NEW salt, NEW argon
  PROVE  /\ Listed(Key(pass, salt, argon)) /\ Len(Key(pass, salt, argon)) = 1
         /\ Key(pass, salt, argon)[1].of = KeyFrom(pass, salt, argon)
<1> DEFINE how == "argon2id"
           from == KeyFrom(pass, salt, argon)
           one == 1
           k == Derived(how, from, one)
<1>0. one \in Nat
  OBVIOUS
<1>1. 1 \in 1 .. one /\ one = 1
  OBVIOUS
<1>2. Key(pass, salt, argon) = k
  BY DEF Key
<1> HIDE DEF how, from, one
<1>3. Listed(k) /\ Len(k) = one /\ \A i \in 1 .. one : k[i] =
         [is |-> how, of |-> IF i = 1 THEN from ELSE <<>>, n |-> i]
  BY <1>0, DerivedFacts
<1> HIDE DEF k
<1>4. k[1].of = from
  BY <1>1, <1>3
<1> QED
  BY <1>1, <1>2, <1>3, <1>4 DEF from

\* What a ciphertext is of, and how long it is.
SealedAs(ct, key, nonce, text) ==
    /\ Listed(ct) /\ Len(ct) = Len(text) + 1 /\ ct # <<>>
    /\ ct[1].of = key \o nonce \o text
    /\ ct[1].is = "xchacha20poly1305"

LEMMA SealedFacts ==
  ASSUME NEW key, NEW nonce, NEW text, Listed(text)
  PROVE  SealedAs(AeadEncrypt(key, nonce, text), key, nonce, text)
<1> DEFINE from == key \o nonce \o text
           n == Len(text) + 1
           ct == Derived("xchacha20poly1305", from, n)
<1>1. AeadEncrypt(key, nonce, text) = ct
  BY DEF AeadEncrypt
<1>2. n \in Nat /\ n # 0
  BY ListedFacts
<1> HIDE DEF from, n
<1>3. /\ Listed(ct) /\ Len(ct) = n
      /\ \A i \in 1 .. n : ct[i] =
           [is |-> "xchacha20poly1305", of |-> IF i = 1 THEN from ELSE <<>>, n |-> i]
  BY <1>2, DerivedFacts
<1>4. 1 \in 1 .. n
  BY <1>2
<1> HIDE DEF ct
<1>5. ct[1].of = from /\ ct[1].is = "xchacha20poly1305"
  BY <1>3, <1>4
<1>6. ct # <<>>
  BY <1>2, <1>3
<1> QED
  BY <1>1, <1>3, <1>5, <1>6 DEF SealedAs, from, n

Opens(e, q, x, p, notes) ==
    q = p /\ x = notes /\ e.salt = Salt /\ e.nonce = Nonce
    /\ e.argon2.t = ARGON2.t /\ e.argon2.m = ARGON2.m /\ e.argon2.p = ARGON2.p
    /\ e.argon2.dkLen = ARGON2.dkLen

(* Whoever opens the ciphertext of the notes has the passphrase, the salt,   *)
(* the nonce and the parameters they were sealed with, and reads the notes.  *)
LEMMA Opened ==
  ASSUME NEW e, NEW p, NEW notes, NEW q, NEW x, Listed(notes), Listed(e.salt), Listed(e.nonce),
         e.ciphertext = TextFor(p, notes), x \in Decrypt(e, q)
  PROVE  Opens(e, q, x, p, notes)
<1> DEFINE ct == e.ciphertext
           k == Key(q, e.salt, e.argon2)
           k0 == Key(p, Salt, ARGON2)
           of == ct[1].of
           text == SubSeq(of, Len(e.nonce) + 2, Len(of))
<1>1. /\ Listed(k) /\ Len(k) = 1 /\ k[1].of = KeyFrom(q, e.salt, e.argon2)
      /\ Listed(k0) /\ Len(k0) = 1 /\ k0[1].of = KeyFrom(p, Salt, ARGON2)
  BY KeyFacts
<1>2. SealedAs(ct, k0, Nonce, notes)
  BY SealedFacts DEF TextFor
<1>2a. ct # <<>> /\ of = k0 \o Nonce \o notes
  BY <1>2 DEF SealedAs
<1>3. x \in UNION {AeadDecrypt(key, e.nonce, e.ciphertext) : key \in DeriveKey(q, e.salt, e.argon2)}
  BY DEF Decrypt
<1>4. x \in AeadDecrypt(k, e.nonce, ct)
  BY <1>3, KeyIs
<1> HIDE DEF k, k0
<1>5. Len(e.nonce) = 24 /\ x = text /\ ct = AeadEncrypt(k, e.nonce, x)
  BY <1>4 DEF AeadDecrypt
<1> DEFINE front == k0 \o Nonce
           tip == k \o e.nonce
<1>6. Listed(front) /\ Len(front) = 25
  <2>1. Listed(k0) /\ Listed(Nonce) /\ Len(k0) = 1 /\ Len(Nonce) = 24
    BY <1>1, RandomFacts
  <2>2. LongAs(front, k0, Nonce)
    BY <2>1, JoinedLong
  <2> QED
    BY <2>1, <2>2 DEF LongAs
<1>7. Listed(of) /\ Len(of) = 25 + Len(notes) /\ Len(notes) \in Nat
  <2>1. of = front \o notes
    BY <1>2a
  <2> HIDE DEF front, of
  <2>2. LongAs(front \o notes, front, notes)
    BY <1>6, JoinedLong
  <2> QED
    BY <1>6, <2>1, <2>2, ListedFacts DEF LongAs
<1>8. Listed(x)
  <2> HIDE DEF of
  <2>1. Len(e.nonce) + 2 \in 1 .. Len(of) + 1 /\ Len(of) \in (Len(e.nonce) + 2) - 1 .. Len(of)
    BY <1>5, <1>7
  <2>2. Listed(text)
    BY <1>7, <2>1, Cut
  <2> QED
    BY <1>5, <2>2
<1>9. of = tip \o x
  <2> DEFINE c == AeadEncrypt(k, e.nonce, x)
  <2>1. SealedAs(c, k, e.nonce, x)
    BY <1>8, SealedFacts
  <2>2. c[1].of = k \o e.nonce \o x
    BY <2>1 DEF SealedAs
  <2> HIDE DEF c
  <2>3. ct = c
    BY <1>5 DEF c
  <2> QED
    BY <2>2, <2>3
<1>10. Listed(tip) /\ Len(tip) = 25
  <2>1. Listed(k) /\ Len(k) = 1 /\ Len(e.nonce) = 24
    BY <1>1, <1>5
  <2>2. LongAs(tip, k, e.nonce)
    BY <2>1, JoinedLong
  <2> QED
    BY <2>1, <2>2 DEF LongAs
<1>11. front \o notes = tip \o x
  BY <1>2a, <1>9
<1> HIDE DEF of, text, ct, front, tip
<1>12a. Matched(front, notes, tip, x)
  BY <1>6, <1>8, <1>10, <1>11, SplitEqual
<1>12. front = tip /\ notes = x
  BY <1>12a DEF Matched
<1>13. k0 = k /\ Nonce = e.nonce
  <2>1. Listed(k0) /\ Listed(k) /\ Len(k0) = Len(k) /\ Listed(Nonce)
    BY <1>1, RandomFacts
  <2>2. k0 \o Nonce = k \o e.nonce
    BY <1>12 DEF front, tip
  <2>3. Matched(k0, Nonce, k, e.nonce)
    BY <2>1, <2>2, SplitEqual
  <2> QED
    BY <2>3 DEF Matched
<1>14. KeyFrom(p, Salt, ARGON2) = KeyFrom(q, e.salt, e.argon2)
  BY <1>1, <1>13
<1>15. SameKey(p, Salt, ARGON2, q, e.salt, e.argon2)
  BY <1>14, RandomFacts, KeysDiffer
<1> QED
  BY <1>12, <1>13, <1>15 DEF Opens, SameKey

(***************************************************************************)
(* The envelope encryptSpendNotes makes of notes opens with its passphrase *)
(* and to the notes, and with no other passphrase.                         *)
(***************************************************************************)
THEOREM OpensItself ==
  ASSUME NEW p, NEW notes, Listed(notes), ~(p.length < 8)
  PROVE  /\ Decrypt(EnvelopeFor(p, notes), p) = {notes}
         /\ \A q : q # p => Decrypt(EnvelopeFor(p, notes), q) = {}
<1> DEFINE e == EnvelopeFor(p, notes)
           k == Key(p, Salt, ARGON2)
           ct == TextFor(p, notes)
           of == ct[1].of
<1>1. e.argon2 = ARGON2 /\ e.salt = Salt /\ e.nonce = Nonce /\ e.ciphertext = ct
      /\ e.checksum = Blake2b(ct, 32)
  BY DEF EnvelopeFor
<1>2. Listed(k) /\ Len(k) = 1
  BY KeyFacts
<1>3a. ct = AeadEncrypt(k, Nonce, notes)
  BY DEF TextFor
<1>3b. SealedAs(ct, k, Nonce, notes)
  BY <1>3a, SealedFacts
<1>3. ct # <<>> /\ of = k \o Nonce \o notes /\ ct = AeadEncrypt(k, Nonce, notes)
  BY <1>3a, <1>3b DEF SealedAs
<1> HIDE DEF k, ct
<1> DEFINE front == k \o Nonce
<1>4. Listed(front) /\ Len(front) = 25
  <2>1. Listed(k) /\ Listed(Nonce) /\ Len(k) = 1 /\ Len(Nonce) = 24
    BY <1>2, RandomFacts
  <2>2. LongAs(front, k, Nonce)
    BY <2>1, JoinedLong
  <2> QED
    BY <2>1, <2>2 DEF LongAs
<1>5. Len(of) = 25 + Len(notes) /\ SubSeq(of, 25 + 1, 25 + Len(notes)) = notes
  <2>1. of = front \o notes
    BY <1>3
  <2> HIDE DEF front, of
  <2>2. LongAs(front \o notes, front, notes)
    BY <1>4, JoinedLong
  <2>3. SubSeq(front \o notes, Len(front) + 1, Len(front) + Len(notes)) = notes
    BY <1>4, CutJoined
  <2> QED
    BY <1>4, <2>1, <2>2, <2>3 DEF LongAs
<1> HIDE DEF of
<1>6. SubSeq(of, Len(Nonce) + 2, Len(of)) = notes
  BY <1>5, RandomFacts
<1>7. AeadDecrypt(k, Nonce, ct) = {notes}
  BY <1>3, <1>6, RandomFacts DEF AeadDecrypt, of
<1> HIDE DEF e
<1>8. Decrypt(e, p) = UNION {AeadDecrypt(key, Nonce, ct) : key \in DeriveKey(p, Salt, ARGON2)}
  BY <1>1 DEF Decrypt
<1>9. DeriveKey(p, Salt, ARGON2) = {k}
  BY KeyIs DEF k
<1>10. Decrypt(e, p) = {notes}
  BY <1>7, <1>8, <1>9
<1>11. ASSUME NEW q, q # p PROVE Decrypt(e, q) = {}
  <2> SUFFICES ASSUME NEW x, x \in Decrypt(e, q) PROVE FALSE
    OBVIOUS
  <2>1. Listed(e.salt) /\ Listed(e.nonce) /\ e.ciphertext = TextFor(p, notes)
    BY <1>1, RandomFacts DEF ct
  <2>2. Opens(e, q, x, p, notes)
    BY <2>1, Opened
  <2> QED
    BY <1>11, <2>2 DEF Opens
<1> QED
  BY <1>10, <1>11 DEF e

-----------------------------------------------------------------------------
(* Lists of notes, and the envelopes of them. *)

LEMMA NotesAre ==
  ASSUME NEW notes \in NoteLists
  PROVE  /\ Listed(notes) /\ Len(notes) \in Nat
         /\ \A i \in 1 .. Len(notes) : \E s \in Notes : notes[i] = Note(s)
         /\ notes # <<>> <=> Len(notes) >= 1
<1>1. notes \in Seq({Note(n) : n \in Notes})
  BY DEF NoteLists
<1>2. Listed(notes) /\ Len(notes) \in Nat
  BY <1>1 DEF Listed
<1>3. \A i \in 1 .. Len(notes) : notes[i] \in {Note(n) : n \in Notes}
  BY <1>1
<1>4. notes # <<>> <=> Len(notes) >= 1
  BY <1>1
<1> QED
  BY <1>2, <1>3, <1>4

(* A list without repetitions is no longer than there are notes.             *)
LEMMA NotesFit ==
  ASSUME NEW notes \in NoteLists
  PROVE  (Len(notes) + 1) \div 65536 < 65536
<1> DEFINE T == {Note(n) : n \in Notes}
           D == 1 .. Len(notes)
<1>1. notes \in Seq(T) /\ Len(notes) \in Nat /\ \A i, j \in DOMAIN notes : notes[i] = notes[j] => i = j
  BY DEF NoteLists
<1>2. IsFiniteSet(Notes)
  BY NoteBackupAssumption
<1>3. IsFiniteSet(T) /\ Cardinality(T) <= Cardinality(Notes)
  <2> DEFINE f == [n \in Notes |-> Note(n)]
  <2>1. f \in Surjection(Notes, T)
    BY DEF Surjection
  <2> HIDE DEF f, T
  <2> QED
    BY <1>2, <2>1, FS_Surjection
<1>4. DOMAIN notes = D /\ notes \in [D -> T]
  BY <1>1
<1> HIDE DEF T
<1>5. notes \in Injection(D, T)
  BY <1>1, <1>4 DEF Injection, IsInjective
<1>6. Cardinality(D) <= Cardinality(T)
  BY <1>3, <1>5, FS_Injection
<1>7. 1 \in Int /\ Len(notes) \in Int
  BY <1>1
<1>8. Cardinality(D) = IF 1 > Len(notes) THEN 0 ELSE Len(notes) - 1 + 1
  BY <1>7, FS_Interval
<1>9. Cardinality(D) = Len(notes)
  BY <1>1, <1>8
<1>10. Cardinality(T) \in Nat /\ Cardinality(Notes) \in Nat
  BY <1>2, <1>3, FS_CardinalityType
<1> HIDE DEF D
<1>11. Len(notes) <= Cardinality(Notes)
  BY <1>1, <1>3, <1>6, <1>9, <1>10
<1>12. (Cardinality(Notes) + 1) \div 65536 < 65536
  BY NoteBackupAssumption
<1> QED
  BY <1>1, <1>10, <1>11, <1>12

LEMMA TextFacts ==
  ASSUME NEW p, NEW notes \in NoteLists
  PROVE  /\ Listed(TextFor(p, notes)) /\ Len(TextFor(p, notes)) = Len(notes) + 1
         /\ Len(TextFor(p, notes)) \in Nat /\ Len(TextFor(p, notes)) >= 1
         /\ TextFor(p, notes) # <<>>
         /\ TextFor(p, notes)[1].is = "xchacha20poly1305"
<1> DEFINE ct == TextFor(p, notes)
           k == Key(p, Salt, ARGON2)
<1>1. Listed(notes) /\ Len(notes) \in Nat
  BY NotesAre
<1>2. SealedAs(ct, k, Nonce, notes)
  BY <1>1, SealedFacts DEF TextFor
<1> HIDE DEF ct, k
<1>3. Listed(ct) /\ Len(ct) = Len(notes) + 1 /\ ct # <<>> /\ ct[1].is = "xchacha20poly1305"
  BY <1>2 DEF SealedAs
<1>4. Len(ct) \in Nat /\ Len(ct) >= 1
  BY <1>1, <1>3
<1> QED
  BY <1>3, <1>4 DEF ct

LEMMA HashFacts ==
  ASSUME NEW b
  PROVE  /\ Listed(Blake2b(b, 32)) /\ Len(Blake2b(b, 32)) = 32
         /\ \A i \in 1 .. 32 : Blake2b(b, 32)[i] =
              [is |-> "blake2b", of |-> IF i = 1 THEN b ELSE <<>>, n |-> i]
<1> DEFINE how == "blake2b"
           m == 32
           h == Derived(how, b, m)
<1>1. m \in Nat
  OBVIOUS
<1>2. Blake2b(b, 32) = h
  BY DEF Blake2b
<1>3. m = 32
  OBVIOUS
<1> HIDE DEF m, how
<1>4. Listed(h) /\ Len(h) = m /\ \A i \in 1 .. m : h[i] =
         [is |-> how, of |-> IF i = 1 THEN b ELSE <<>>, n |-> i]
  BY <1>1, DerivedFacts
<1> HIDE DEF h
<1> QED
  BY <1>2, <1>3, <1>4 DEF how

LEMMA ForWritten ==
  ASSUME NEW p, NEW notes \in NoteLists
  PROVE  Written(EnvelopeFor(p, notes))
<1> DEFINE e == EnvelopeFor(p, notes)
           ct == TextFor(p, notes)
<1>1. /\ e = [argon2 |-> ARGON2, salt |-> Salt, nonce |-> Nonce, ciphertext |-> ct,
              checksum |-> Blake2b(ct, 32)]
  BY DEF EnvelopeFor
<1>2. Listed(ct) /\ Len(ct) = Len(notes) + 1
  BY TextFacts
<1>3. Listed(Blake2b(ct, 32)) /\ Len(Blake2b(ct, 32)) = 32
  BY HashFacts
<1> HIDE DEF ct, e
<1>4. e.argon2 = ARGON2 /\ e.salt = Salt /\ e.nonce = Nonce /\ e.ciphertext = ct
      /\ e.checksum = Blake2b(ct, 32)
  BY <1>1
<1>5. Parts(e)
  BY <1>2, <1>3, <1>4, RandomFacts DEF Parts
<1>6. Numbered(ARGON2)
  <2>1. ARGON2 = [t |-> 3, m |-> 65536, p |-> 1, dkLen |-> 32]
    BY DEF ARGON2
  <2>2. ARGON2.t = 3 /\ ARGON2.m = 65536 /\ ARGON2.p = 1 /\ ARGON2.dkLen = 32
    BY <2>1
  <2>3. 65536 \div 65536 < 65536
    OBVIOUS
  <2> QED
    BY <2>1, <2>2, <2>3 DEF Numbered
<1>7. Len(ct) \div 65536 < 65536
  BY <1>2, NotesFit
<1>8. e = [argon2 |-> e.argon2, salt |-> e.salt, nonce |-> e.nonce,
           ciphertext |-> e.ciphertext, checksum |-> e.checksum]
  BY <1>1, <1>4
<1> QED
  BY <1>4, <1>5, <1>6, <1>7, <1>8 DEF Written, e

-----------------------------------------------------------------------------
(* The bytes of a file, one by one. *)

Byte(x) == x = [is |-> x.is, of |-> x.of, n |-> x.n] /\ x.n \in Nat

LEMMA ByteFlips ==
  ASSUME NEW x, Byte(x)
  PROVE  /\ Flip(x) = [is |-> x.is, of |-> x.of, n |-> (x.n + 1) % 256]
         /\ Byte(Flip(x)) /\ Flip(x).n # x.n /\ Flip(x).is = x.is /\ Flip(x).n < 256
         /\ Flip(x).n = (x.n + 1) % 256 /\ Flip(x).of = x.of
<1> DEFINE m == (x.n + 1) % 256
           y == [is |-> x.is, of |-> x.of, n |-> m]
<1>1. x = [is |-> x.is, of |-> x.of, n |-> x.n] /\ x.n \in Nat
  BY DEF Byte
<1>2. "is" \in DOMAIN x
  BY <1>1
<1>3. Flip(x) = [x EXCEPT !.n = (x.n + 1) % 256]
  BY <1>2 DEF Flip
<1>4. m \in Nat /\ m # x.n /\ m < 256
  BY <1>1
<1> HIDE DEF m
<1>5. [x EXCEPT !.n = m] = y
  BY <1>1
<1>6. Flip(x) = y
  BY <1>3, <1>5 DEF m
<1>7. y.is = x.is /\ y.of = x.of /\ y.n = m /\ y = [is |-> y.is, of |-> y.of, n |-> y.n]
  OBVIOUS
<1>8. Byte(y)
  BY <1>4, <1>7 DEF Byte
<1> HIDE DEF y
<1> QED
  BY <1>4, <1>6, <1>7, <1>8 DEF m, y

LEMMA RawByte ==
  ASSUME NEW n \in Nat
  PROVE  Byte(Raw(n)) /\ Raw(n).is = "raw" /\ Raw(n).n = n
<1> DEFINE x == [is |-> "raw", of |-> <<>>, n |-> n]
<1>1. x.is = "raw" /\ x.of = <<>> /\ x.n = n
  OBVIOUS
<1>2. x = [is |-> x.is, of |-> x.of, n |-> x.n]
  BY <1>1
<1>3. Raw(n) = x
  BY DEF Raw
<1> HIDE DEF x
<1> QED
  BY <1>1, <1>2, <1>3 DEF Byte

LEMMA DerivedByte ==
  ASSUME NEW how, NEW from, NEW n \in Nat, NEW i \in 1 .. n, NEW x, x = Derived(how, from, n)[i]
  PROVE  Byte(x) /\ x.is = how /\ x.n = i
<1> DEFINE y == [is |-> how, of |-> IF i = 1 THEN from ELSE <<>>, n |-> i]
<1>1. x = y
  BY DerivedFacts
<1>2. y.is = how /\ y.n = i /\ y = [is |-> y.is, of |-> y.of, n |-> y.n]
  OBVIOUS
<1>3. i \in Nat
  OBVIOUS
<1> HIDE DEF y
<1> QED
  BY <1>1, <1>2, <1>3 DEF Byte

-----------------------------------------------------------------------------
(* Which bytes can be taken for the first of a hash.                         *)

FirstHash(b) == [is |-> "blake2b", of |-> b, n |-> 1]

\* A byte that is no hash's first but of ct.
Fine(x, ct) ==
    Byte(x) /\ (x.is = "blake2b" => x.n \in 1 .. 32 /\ (x.n = 1 => x.of = ct))

LEMMA FineHashes ==
  ASSUME NEW x, NEW ct, Fine(x, ct), NEW b, x = FirstHash(b) \/ Flip(x) = FirstHash(b)
  PROVE  b = ct
<1> DEFINE h == FirstHash(b)
<1>1. h.is = "blake2b" /\ h.of = b /\ h.n = 1
  BY DEF FirstHash
<1>2. Byte(x)
  BY DEF Fine
<1> HIDE DEF h
<1>3. CASE x = h
  BY <1>1, <1>3 DEF Fine
<1>4. CASE Flip(x) = h
  <2>1. x.is = "blake2b" /\ (x.n + 1) % 256 = 1
    BY <1>1, <1>2, <1>4, ByteFlips
  <2>2. x.n \in 1 .. 32
    BY <2>1 DEF Fine
  <2> QED
    BY <2>1, <2>2
<1> QED
  BY <1>3, <1>4 DEF h

LEMMA RawFine ==
  ASSUME NEW n \in Nat, NEW ct PROVE Fine(Raw(n), ct)
BY RawByte DEF Fine

LEMMA DerivedFine ==
  ASSUME NEW how, NEW from, NEW n \in Nat, NEW i \in 1 .. n, NEW x, x = Derived(how, from, n)[i],
         NEW ct, how # "blake2b"
  PROVE  Fine(x, ct)
BY DerivedByte DEF Fine

LEMMA HashFine ==
  ASSUME NEW ct, NEW i \in 1 .. 32, NEW x, x = Blake2b(ct, 32)[i] PROVE Fine(x, ct)
<1> DEFINE y == [is |-> "blake2b", of |-> IF i = 1 THEN ct ELSE <<>>, n |-> i]
<1>1. x = y
  BY HashFacts
<1>2. y.is = "blake2b" /\ y.n = i /\ y = [is |-> y.is, of |-> y.of, n |-> y.n] /\ (i = 1 => y.of = ct)
  OBVIOUS
<1>3. i \in Nat
  OBVIOUS
<1> HIDE DEF y
<1> QED
  BY <1>1, <1>2, <1>3 DEF Fine, Byte

-----------------------------------------------------------------------------
(* The binary file of sealed notes, byte by byte.                            *)

\* A raw byte.
Plain(x) == Byte(x) /\ x.is = "raw" /\ x.n < 256

FileOf(p, notes) == SealedEnvelopeToBinary(EnvelopeFor(p, notes))

\* b is the file with ciphertext ct, of L bytes.
FileFacts(b, ct, L) ==
    /\ L \in Nat /\ L >= 1 /\ Len(ct) = L /\ L \div 65536 < 65536
    /\ Listed(ct) /\ Listed(b) /\ Len(b) = 91 + L
    /\ \A i \in 1 .. 14 : Plain(b[i])
    /\ \A i \in 1 .. 91 + L : Fine(b[i], ct)

LEMMA U16Plain ==
  ASSUME NEW n \in Nat PROVE Plain(WriteU16BE(n)[1]) /\ Plain(WriteU16BE(n)[2])
<1> DEFINE a == (n \div 256) % 256
           b == n % 256
<1>1. a \in Nat /\ b \in Nat /\ a < 256 /\ b < 256
  OBVIOUS
<1>2. WriteU16BE(n)[1] = Raw(a) /\ WriteU16BE(n)[2] = Raw(b)
  BY U16Facts
<1> HIDE DEF a, b
<1> QED
  BY <1>1, <1>2, RawByte DEF Plain

LEMMA U32Plain ==
  ASSUME NEW n \in Nat
  PROVE  /\ Plain(WriteU32BE(n)[1]) /\ Plain(WriteU32BE(n)[2])
         /\ Plain(WriteU32BE(n)[3]) /\ Plain(WriteU32BE(n)[4])
<1> DEFINE h == n \div 65536
           l == n % 65536
           a == (h \div 256) % 256
           b == h % 256
           c == (l \div 256) % 256
           d == l % 256
<1>1. h \in Nat /\ l \in Nat
  OBVIOUS
<1>2. a \in Nat /\ b \in Nat /\ c \in Nat /\ d \in Nat /\ a < 256 /\ b < 256 /\ c < 256 /\ d < 256
  <2> HIDE DEF h, l
  <2> QED
    BY <1>1
<1>3. /\ WriteU32BE(n)[1] = Raw(a) /\ WriteU32BE(n)[2] = Raw(b)
      /\ WriteU32BE(n)[3] = Raw(c) /\ WriteU32BE(n)[4] = Raw(d)
  BY U32Facts
<1> HIDE DEF a, b, c, d
<1> QED
  BY <1>2, <1>3, RawByte DEF Plain

LEMMA PlainFine == ASSUME NEW x, NEW ct, Plain(x) PROVE Fine(x, ct)
BY DEF Plain, Fine

LEMMA PlainRaw == ASSUME NEW n \in Nat, n < 256 PROVE Plain(Raw(n))
BY RawByte DEF Plain

LEMMA FileIs ==
  ASSUME NEW p, NEW notes \in NoteLists
  PROVE  FileFacts(FileOf(p, notes), TextFor(p, notes), Len(notes) + 1)
<1> DEFINE e == EnvelopeFor(p, notes)
           b == FileOf(p, notes)
           ct == TextFor(p, notes)
           L == Len(notes) + 1
<1>1. /\ Listed(ct) /\ Len(ct) = L /\ L \in Nat /\ L >= 1 /\ L \div 65536 < 65536
  BY TextFacts, NotesAre, NotesFit
<1>2. Laid(b, e)
  <2>1. Written(e)
    BY ForWritten
  <2>2. b = SealedEnvelopeToBinary(e)
    BY DEF FileOf
  <2> HIDE DEF e, b
  <2>3. Parts(e)
    BY <2>1 DEF Written
  <2> QED
    BY <2>2, <2>3, LaidOut
<1>3. e.argon2 = ARGON2 /\ e.salt = Salt /\ e.nonce = Nonce /\ e.ciphertext = ct
      /\ e.checksum = Blake2b(ct, 32)
  BY DEF EnvelopeFor
<1>4. Len(Salt) = 16 /\ Len(Nonce) = 24
  BY RandomFacts
<1>5. ARGON2.t = 3 /\ ARGON2.m = 65536 /\ ARGON2.p = 1 /\ ARGON2.dkLen = 32
  BY DEF ARGON2
<1> HIDE DEF e, b, L, ct
<1>6. AfterSalt(e) = 30 /\ AfterNonce(e) = 55 /\ AfterText(e) = 59 + L
  BY <1>1, <1>3, <1>4 DEF AfterSalt, AfterNonce, AfterText
<1>7. Listed(b) /\ Len(b) = 91 + L
  BY <1>1, <1>2, <1>6 DEF Laid
<1>7a. Len(e.ciphertext) = L
  BY <1>1, <1>3
<1>7b. \A i \in 1 .. 4 : b[AfterNonce(e) + i] = WriteU32BE(Len(e.ciphertext))[i]
  BY <1>2 DEF Laid
<1>7c. \A i \in 1 .. Len(e.ciphertext) : b[AfterNonce(e) + 4 + i] = e.ciphertext[i]
  BY <1>2 DEF Laid
<1>8. \A i \in 1 .. 14 : Plain(b[i])
  <2>1. Headed(b, e)
    BY <1>2 DEF Laid
  <2>2. /\ b[6] = WriteU16BE(3)[1] /\ b[7] = WriteU16BE(3)[2]
        /\ b[8] = WriteU32BE(65536)[1] /\ b[9] = WriteU32BE(65536)[2]
        /\ b[10] = WriteU32BE(65536)[3] /\ b[11] = WriteU32BE(65536)[4]
    BY <1>3, <1>5, <2>1 DEF Headed
  <2>3. b[12] = Raw(1) /\ b[13] = Raw(32) /\ b[14] = Raw(16)
    <3>1. b[12] = Raw(e.argon2.p) /\ b[13] = Raw(e.argon2.dkLen) /\ b[14] = Raw(Len(e.salt))
      BY <2>1 DEF Headed
    <3>2. e.argon2.p = 1 /\ e.argon2.dkLen = 32 /\ Len(e.salt) = 16
      BY <1>3, <1>4, <1>5
    <3> QED
      BY <3>1, <3>2
  <2>4. b[1] = Raw(65) /\ b[2] = Raw(80) /\ b[3] = Raw(78) /\ b[4] = Raw(49) /\ b[5] = Raw(1)
    BY <2>1 DEF Headed
  <2>5. Plain(b[6]) /\ Plain(b[7]) /\ Plain(b[8]) /\ Plain(b[9]) /\ Plain(b[10]) /\ Plain(b[11])
    BY <2>2, U16Plain, U32Plain
  <2>6. /\ Plain(b[1]) /\ Plain(b[2]) /\ Plain(b[3]) /\ Plain(b[4]) /\ Plain(b[5])
        /\ Plain(b[12]) /\ Plain(b[13]) /\ Plain(b[14])
    BY <2>3, <2>4, PlainRaw
  <2> TAKE i \in 1 .. 14
  <2>7. \/ i = 1 \/ i = 2 \/ i = 3 \/ i = 4 \/ i = 5 \/ i = 6 \/ i = 7
        \/ i = 8 \/ i = 9 \/ i = 10 \/ i = 11 \/ i = 12 \/ i = 13 \/ i = 14
    OBVIOUS
  <2> QED
    BY <2>5, <2>6, <2>7
<1>9. \A i \in 1 .. 16 : Fine(b[14 + i], ct)
  <2> TAKE i \in 1 .. 16
  <2>1. b[14 + i] = Salt[i]
    BY <1>2, <1>3, <1>4 DEF Laid
  <2> DEFINE how == "salt"
             m == 16
             from == <<>>
             s == Derived(how, from, m)
  <2>2. Salt = s /\ how # "blake2b"
    BY DEF Salt, RandomBytes
  <2>3. m \in Nat /\ i \in 1 .. m
    OBVIOUS
  <2> HIDE DEF how, m, from
  <2> QED
    BY <2>1, <2>2, <2>3, DerivedFine
<1>10. \A i \in 1 .. 24 : Fine(b[31 + i], ct)
  <2> TAKE i \in 1 .. 24
  <2>1. b[30 + 1 + i] = Nonce[i]
    BY <1>2, <1>3, <1>4, <1>6 DEF Laid
  <2>1a. 30 + 1 + i = 31 + i
    OBVIOUS
  <2> DEFINE how == "nonce"
             m == 24
             from == <<>>
             s == Derived(how, from, m)
  <2>2. Nonce = s /\ how # "blake2b"
    BY DEF Nonce, RandomBytes
  <2>3. m \in Nat /\ i \in 1 .. m
    OBVIOUS
  <2> HIDE DEF how, m, from
  <2> QED
    BY <2>1, <2>1a, <2>2, <2>3, DerivedFine
<1>11. Plain(b[31])
  <2>1. b[31] = Raw(24)
    BY <1>2, <1>3, <1>4, <1>6 DEF Laid
  <2> QED
    BY <2>1, PlainRaw
<1>12. \A i \in 1 .. 4 : Plain(b[55 + i])
  <2>1. \A i \in 1 .. 4 : b[55 + i] = WriteU32BE(L)[i]
    BY <1>6, <1>7a, <1>7b
  <2> QED
    BY <1>1, <2>1, U32Plain
<1>13. \A i \in 1 .. L : Fine(b[59 + i], ct)
  <2> TAKE i \in 1 .. L
  <2>1. b[55 + 4 + i] = ct[i] /\ 55 + 4 + i = 59 + i
    BY <1>3, <1>6, <1>7a, <1>7c
  <2> DEFINE how == "xchacha20poly1305"
             from == Key(p, Salt, ARGON2) \o Nonce \o notes
  <2>2. ct = Derived(how, from, L) /\ how # "blake2b"
    BY DEF ct, L, TextFor, AeadEncrypt
  <2> HIDE DEF how, from
  <2>3. L \in Nat
    BY <1>1
  <2>4. b[59 + i] = Derived(how, from, L)[i]
    BY <2>1, <2>2
  <2> QED
    BY <2>2, <2>3, <2>4, DerivedFine
<1>14. \A i \in 1 .. 32 : Fine(b[59 + L + i], ct)
  <2> TAKE i \in 1 .. 32
  <2>1. b[59 + L + i] = Blake2b(ct, 32)[i]
    BY <1>2, <1>3, <1>6 DEF Laid
  <2> QED
    BY <2>1, HashFine
<1>15. \A i \in 1 .. 91 + L : Fine(b[i], ct)
  <2> TAKE i \in 1 .. 91 + L
  <2>1. CASE i \in 1 .. 14
    BY <1>8, <2>1, PlainFine
  <2>2. CASE i \in 15 .. 30
    <3>1. i - 14 \in 1 .. 16 /\ 14 + (i - 14) = i
      BY <2>2
    <3> QED
      BY <1>9, <3>1
  <2>3. CASE i = 31
    BY <1>11, <2>3, PlainFine
  <2>4. CASE i \in 32 .. 55
    <3>1. i - 31 \in 1 .. 24 /\ 31 + (i - 31) = i
      BY <2>4
    <3> QED
      BY <1>10, <3>1
  <2>5. CASE i \in 56 .. 59
    <3>1. i - 55 \in 1 .. 4 /\ 55 + (i - 55) = i
      BY <2>5
    <3> QED
      BY <1>12, <3>1, PlainFine
  <2>6. CASE i \in 60 .. 59 + L
    <3>1. i - 59 \in 1 .. L /\ 59 + (i - 59) = i
      BY <1>1, <2>6
    <3> QED
      BY <1>13, <3>1
  <2>7. CASE i \in 60 + L .. 91 + L
    <3>1. i - (59 + L) \in 1 .. 32 /\ 59 + L + (i - (59 + L)) = i
      BY <1>1, <2>7
    <3> QED
      BY <1>14, <3>1
  <2> QED
    BY <1>1, <2>1, <2>2, <2>3, <2>4, <2>5, <2>6, <2>7
<1>16. FileFacts(b, ct, L)
  BY <1>1, <1>7, <1>8, <1>15 DEF FileFacts
<1> QED
  BY <1>16 DEF b, ct, L

-----------------------------------------------------------------------------
(* What damage does to a sequence: an entry is flipped, or some are lost     *)
(* and the others are where they were or one place before it.                *)

FlippedAt(t, s, i) ==
    /\ Len(t) = Len(s) /\ t[i] = Flip(s[i])
    /\ \A j \in 1 .. Len(s) : j # i => t[j] = s[j]
Shortened(t, s) ==
    /\ Len(t) < Len(s)
    /\ \A j \in 1 .. Len(t) : t[j] = s[j] \/ t[j] = s[j + 1]
Damaged(t, s) ==
    Listed(t) /\ ((\E i \in 1 .. Len(s) : FlippedAt(t, s, i)) \/ Shortened(t, s))

LEMMA DamagedIs ==
  ASSUME NEW s, Listed(s), NEW i \in DOMAIN s,
         NEW t \in {[s EXCEPT ![i] = Flip(@)], RemoveAt(s, i), SubSeq(s, 1, i - 1)}
  PROVE  Damaged(t, s)
<1>1. Len(s) \in Nat /\ i \in 1 .. Len(s) /\ DOMAIN s = 1 .. Len(s)
  BY ListedFacts
<1>2. CASE t = [s EXCEPT ![i] = Flip(@)]
  <2>1. PICK S : s \in Seq(S)
    BY DEF Listed
  <2> DEFINE x == Flip(s[i])
             U == S \cup {x}
  <2>2. t = [s EXCEPT ![i] = x]
    BY <1>2
  <2> HIDE DEF x
  <2>3. s \in [1 .. Len(s) -> U] /\ x \in U
    BY <2>1
  <2>4. t \in [1 .. Len(s) -> U]
    BY <1>1, <2>2, <2>3
  <2>5. t \in Seq(U) /\ Len(t) = Len(s)
    BY <1>1, <2>4
  <2>6. t[i] = x /\ \A j \in 1 .. Len(s) : j # i => t[j] = s[j]
    BY <1>1, <2>2
  <2>7. Listed(t)
    BY <2>5 DEF Listed
  <2>8. FlippedAt(t, s, i)
    BY <2>5, <2>6 DEF FlippedAt, x
  <2> QED
    BY <1>1, <2>7, <2>8 DEF Damaged
<1> DEFINE u == SubSeq(s, 1, i - 1)
<1>3. Listed(u) /\ Len(u) = i - 1 /\ \A j \in 1 .. i - 1 : u[j] = s[j]
  <2>1. 1 \in 1 .. Len(s) + 1 /\ i - 1 \in 1 - 1 .. Len(s)
    BY <1>1
  <2>2. Listed(u) /\ Len(u) = (i - 1) - 1 + 1 /\ \A j \in 1 .. (i - 1) - 1 + 1 : u[j] = s[1 + j - 1]
    BY <2>1, Cut
  <2>3. (i - 1) - 1 + 1 = i - 1 /\ \A j \in 1 .. i - 1 : 1 + j - 1 = j
    BY <1>1
  <2> HIDE DEF u
  <2> QED
    BY <2>2, <2>3
<1>4. CASE t = u
  <2>1. t = u
    BY <1>4
  <2> HIDE DEF u
  <2>2. Listed(t) /\ Len(t) < Len(s) /\ \A j \in 1 .. Len(t) : t[j] = s[j]
    BY <1>1, <1>3, <2>1
  <2> QED
    BY <2>2 DEF Damaged, Shortened
<1>5. CASE t = RemoveAt(s, i)
  <2> DEFINE v == SubSeq(s, i + 1, Len(s))
  <2>1. t = u \o v
    BY <1>5 DEF RemoveAt
  <2>2. Listed(v) /\ Len(v) = Len(s) - i /\ \A j \in 1 .. Len(s) - i : v[j] = s[i + j]
    <3>1. i + 1 \in 1 .. Len(s) + 1 /\ Len(s) \in (i + 1) - 1 .. Len(s)
      BY <1>1
    <3>2. /\ Listed(v) /\ Len(v) = Len(s) - (i + 1) + 1
          /\ \A j \in 1 .. Len(s) - (i + 1) + 1 : v[j] = s[(i + 1) + j - 1]
      BY <3>1, Cut
    <3>3. Len(s) - (i + 1) + 1 = Len(s) - i /\ \A j \in 1 .. Len(s) - i : (i + 1) + j - 1 = i + j
      BY <1>1
    <3> HIDE DEF v
    <3> QED
      BY <3>2, <3>3
  <2> HIDE DEF u, v
  <2>3. Behind(t, u, v)
    BY <1>3, <2>1, <2>2, JoinedBehind
  <2>4. Listed(t) /\ Len(t) = Len(s) - 1
    BY <1>1, <1>3, <2>2, <2>3 DEF Behind
  <2>5. ASSUME NEW j \in 1 .. Len(t) PROVE t[j] = s[j] \/ t[j] = s[j + 1]
    <3>1. CASE j \in 1 .. i - 1
      BY <1>3, <2>3, <3>1 DEF Behind
    <3>2. CASE j \in i .. Len(s) - 1
      <4> DEFINE k == j - (i - 1)
      <4>1. k \in 1 .. Len(s) - i /\ (i - 1) + k = j /\ i + k = j + 1
        BY <1>1, <3>2
      <4> HIDE DEF k
      <4>2. t[(i - 1) + k] = v[k]
        BY <1>3, <2>2, <2>3, <4>1 DEF Behind
      <4>3. v[k] = s[i + k]
        BY <2>2, <4>1
      <4> QED
        BY <4>1, <4>2, <4>3
    <3> QED
      BY <1>1, <2>4, <3>1, <3>2
  <2>6. Len(t) < Len(s)
    BY <1>1, <2>4
  <2> QED
    BY <2>4, <2>5, <2>6 DEF Damaged, Shortened
<1> QED
  BY <1>2, <1>4, <1>5

\* Where the entries of what is damaged come from.
LEMMA ComesFrom ==
  ASSUME NEW t, NEW s, Listed(s), Damaged(t, s), NEW j \in 1 .. Len(t)
  PROVE  \E k \in 1 .. Len(s) : k \in {j, j + 1} /\ (t[j] = s[k] \/ t[j] = Flip(s[k]))
<1>1. Len(s) \in Nat /\ Len(t) \in Nat
  BY ListedFacts DEF Damaged
<1>2. CASE \E i \in 1 .. Len(s) : FlippedAt(t, s, i)
  <2>1. PICK i \in 1 .. Len(s) : FlippedAt(t, s, i)
    BY <1>2
  <2>2. j \in 1 .. Len(s) /\ (t[j] = s[j] \/ t[j] = Flip(s[j]))
    BY <2>1 DEF FlippedAt
  <2> QED
    BY <2>2
<1>3. CASE Shortened(t, s)
  <2>1. j \in 1 .. Len(s) /\ j + 1 \in 1 .. Len(s) /\ (t[j] = s[j] \/ t[j] = s[j + 1])
    BY <1>1, <1>3 DEF Shortened
  <2> QED
    BY <2>1
<1> QED
  BY <1>2, <1>3 DEF Damaged

-----------------------------------------------------------------------------
(* What is read from a damaged binary file.                                  *)

LEMMA FlipFine ==
  ASSUME NEW x, NEW ct, Fine(x, ct), NEW y, y = x \/ y = Flip(x)
  PROVE  Byte(y) /\ (\A b : y = FirstHash(b) => b = ct) /\ (Plain(x) => Plain(y))
<1>1. Byte(x)
  BY DEF Fine
<1>2. Byte(y)
  BY <1>1, ByteFlips
<1>3. ASSUME NEW b, y = FirstHash(b) PROVE b = ct
  <2>1. x = FirstHash(b) \/ Flip(x) = FirstHash(b)
    BY <1>3
  <2> QED
    BY <2>1, FineHashes
<1>4. Plain(x) => Plain(y)
  BY <1>1, ByteFlips DEF Plain
<1> QED
  BY <1>2, <1>3, <1>4

\* Every entry is a byte, the first are plain, and one is a hash's first only of ct.
Scanned(t, ct) ==
    /\ \A j \in 1 .. Len(t) : Byte(t[j]) /\ \A x : t[j] = FirstHash(x) => x = ct
    /\ \A j \in 1 .. Len(t) : j <= 13 => Plain(t[j])

LEMMA ScannedIs ==
  ASSUME NEW b, NEW ct, NEW L, FileFacts(b, ct, L), NEW t, Damaged(t, b)
  PROVE  Scanned(t, ct)
<1>1. /\ Listed(b) /\ Len(b) = 91 + L /\ L \in Nat
      /\ \A i \in 1 .. 14 : Plain(b[i])
      /\ \A i \in 1 .. 91 + L : Fine(b[i], ct)
  BY DEF FileFacts
<1>2. Len(t) \in Nat
  BY ListedFacts DEF Damaged
<1>3. ASSUME NEW j \in 1 .. Len(t)
      PROVE  /\ Byte(t[j]) /\ \A x : t[j] = FirstHash(x) => x = ct
             /\ j <= 13 => Plain(t[j])
  <2>1. PICK k \in 1 .. Len(b) : k \in {j, j + 1} /\ (t[j] = b[k] \/ t[j] = Flip(b[k]))
    BY <1>1, ComesFrom
  <2>2. Fine(b[k], ct)
    BY <1>1
  <2>3. j <= 13 => Plain(b[k])
    <3>1. j <= 13 => k \in 1 .. 14
      BY <1>1, <1>2, <2>1
    <3> QED
      BY <1>1, <3>1
  <2> QED
    BY <2>1, <2>2, <2>3, FlipFine
<1> QED
  BY <1>3 DEF Scanned

\* Where the parts of a readable file are.
Placed(t, s, n, c) ==
    /\ s \in Nat /\ n \in Nat /\ c \in Nat
    /\ SaltEnd(t) = s /\ NonceEnd(t) = n /\ TextEnd(t) = c
    /\ 14 <= s /\ s + 1 <= n /\ n + 4 <= c /\ c + 32 <= Len(t)
    /\ s = 14 + t[14].n /\ n = s + 1 + t[s + 1].n
    /\ c = n + 4 + ReadU32BE(t, n + 1)
    /\ t[14].n \in Nat /\ t[s + 1].n \in Nat /\ ReadU32BE(t, n + 1) \in Nat

LEMMA PlacedIs ==
  ASSUME NEW t, Listed(t), NEW ct, Scanned(t, ct), Readable(t)
  PROVE  \E s, n, c : Placed(t, s, n, c)
<1> DEFINE s == SaltEnd(t)
           n == NonceEnd(t)
           c == TextEnd(t)
<1>1. Len(t) \in Nat
  BY ListedFacts
<1>2. Len(t) >= 91 /\ s < Len(t) /\ n + 4 <= Len(t) /\ c + 32 <= Len(t)
  BY DEF Readable
<1>3. \A j \in 1 .. Len(t) : t[j].n \in Nat
  BY DEF Scanned, Byte
<1>4. s = 14 + t[14].n /\ n = s + 1 + t[s + 1].n /\ c = n + 4 + ReadU32BE(t, n + 1)
  BY DEF SaltEnd, NonceEnd, TextEnd
<1> HIDE DEF s, n, c
<1>5. s \in Nat /\ 14 <= s /\ t[14].n \in Nat
  <2>1. 14 \in 1 .. Len(t)
    BY <1>1, <1>2
  <2>2. t[14].n \in Nat
    BY <1>3, <2>1
  <2> QED
    BY <1>4, <2>2
<1>6. n \in Nat /\ s + 1 <= n /\ t[s + 1].n \in Nat
  <2>1. s + 1 \in 1 .. Len(t)
    BY <1>1, <1>2, <1>5
  <2>2. t[s + 1].n \in Nat
    BY <1>3, <2>1
  <2> QED
    BY <1>4, <1>5, <2>2
<1>7. ReadU32BE(t, n + 1) \in Nat
  <2>1. /\ t[n + 1].n \in Nat /\ t[n + 1 + 1].n \in Nat
        /\ t[n + 1 + 2].n \in Nat /\ t[n + 1 + 2 + 1].n \in Nat
    BY <1>1, <1>2, <1>3, <1>6
  <2> QED
    BY <2>1 DEF ReadU32BE, ReadU16BE
<1>8. c \in Nat /\ n + 4 <= c
  BY <1>4, <1>6, <1>7
<1>9. Placed(t, s, n, c)
  BY <1>2, <1>4, <1>5, <1>6, <1>7, <1>8 DEF Placed, s, n, c
<1> QED
  BY <1>9

\* The parts that are read.
Fields(t, e, s, n, c) ==
    /\ Listed(e.salt) /\ Len(e.salt) = s - 14
    /\ \A i \in 1 .. s - 14 : e.salt[i] = t[14 + i]
    /\ Listed(e.nonce) /\ Len(e.nonce) = n - (s + 1)
    /\ \A i \in 1 .. n - (s + 1) : e.nonce[i] = t[(s + 1) + i]
    /\ Listed(e.ciphertext) /\ Len(e.ciphertext) = c - (n + 4)
    /\ \A i \in 1 .. c - (n + 4) : e.ciphertext[i] = t[(n + 4) + i]
    /\ Listed(e.checksum) /\ Len(e.checksum) = 32
    /\ \A i \in 1 .. 32 : e.checksum[i] = t[c + i]

\* v is what t has from behind a to z.
From(v, t, a, z) == Listed(v) /\ Len(v) = z - a /\ \A i \in 1 .. z - a : v[i] = t[a + i]

LEMMA CutAfter ==
  ASSUME NEW t, Listed(t), NEW a \in Nat, NEW z \in Nat, a <= z, z <= Len(t),
         NEW v, v = SubSeq(t, a + 1, z)
  PROVE  From(v, t, a, z)
<1>1. Len(t) \in Nat
  BY ListedFacts
<1>2. a + 1 \in 1 .. Len(t) + 1 /\ z \in (a + 1) - 1 .. Len(t)
  BY <1>1
<1>3. /\ Listed(v) /\ Len(v) = z - (a + 1) + 1
      /\ \A i \in 1 .. z - (a + 1) + 1 : v[i] = t[(a + 1) + i - 1]
  BY <1>2, Cut
<1>4. z - (a + 1) + 1 = z - a /\ \A i \in 1 .. z - a : (a + 1) + i - 1 = a + i
  OBVIOUS
<1> QED
  BY <1>3, <1>4 DEF From

LEMMA PiecesAre ==
  ASSUME NEW t, Listed(t), NEW s, NEW n, NEW c, Placed(t, s, n, c)
  PROVE  Fields(t, EnvelopeOf(t), s, n, c)
<1> DEFINE e == EnvelopeOf(t)
<1>1. /\ s \in Nat /\ n \in Nat /\ c \in Nat /\ Len(t) \in Nat
      /\ 14 <= s /\ s + 1 <= n /\ n + 4 <= c /\ c + 32 <= Len(t)
  BY ListedFacts DEF Placed
<1>2. SaltEnd(t) = s /\ NonceEnd(t) = n /\ TextEnd(t) = c
  BY DEF Placed
<1>3. /\ e.salt = SubSeq(t, 15, s) /\ e.nonce = SubSeq(t, s + 2, n)
      /\ e.ciphertext = SubSeq(t, n + 5, c) /\ e.checksum = SubSeq(t, c + 1, c + 32)
  BY <1>2 DEF EnvelopeOf, TextOf, ChecksumOf
<1> HIDE DEF e
<1>4. From(e.salt, t, 14, s)
  <2> DEFINE a == 14
             z == s
             v == e.salt
  <2>1. a \in Nat /\ z \in Nat /\ a <= z /\ z <= Len(t)
    BY <1>1
  <2>2. a \in Nat
    BY <2>1
  <2>3. z \in Nat
    BY <2>1
  <2>4. v = SubSeq(t, a + 1, z)
    <3>1. a + 1 = 15
      BY <1>1
    <3> QED
      BY <1>3, <3>1
  <2> HIDE DEF a, z, v
  <2>5. From(v, t, a, z)
    BY <2>1, <2>2, <2>3, <2>4, CutAfter
  <2> QED
    BY <2>5 DEF a, z, v
<1>5. From(e.nonce, t, s + 1, n)
  <2> DEFINE a == s + 1
             z == n
             v == e.nonce
  <2>1. a \in Nat /\ z \in Nat /\ a <= z /\ z <= Len(t)
    BY <1>1
  <2>2. a \in Nat
    BY <2>1
  <2>3. z \in Nat
    BY <2>1
  <2>4. v = SubSeq(t, a + 1, z)
    <3>1. a + 1 = s + 2
      BY <1>1
    <3> QED
      BY <1>3, <3>1
  <2> HIDE DEF a, z, v
  <2>5. From(v, t, a, z)
    BY <2>1, <2>2, <2>3, <2>4, CutAfter
  <2> QED
    BY <2>5 DEF a, z, v
<1>6. From(e.ciphertext, t, n + 4, c)
  <2> DEFINE a == n + 4
             z == c
             v == e.ciphertext
  <2>1. a \in Nat /\ z \in Nat /\ a <= z /\ z <= Len(t)
    BY <1>1
  <2>2. a \in Nat
    BY <2>1
  <2>3. z \in Nat
    BY <2>1
  <2>4. v = SubSeq(t, a + 1, z)
    <3>1. a + 1 = n + 5
      BY <1>1
    <3> QED
      BY <1>3, <3>1
  <2> HIDE DEF a, z, v
  <2>5. From(v, t, a, z)
    BY <2>1, <2>2, <2>3, <2>4, CutAfter
  <2> QED
    BY <2>5 DEF a, z, v
<1>7. From(e.checksum, t, c, c + 32)
  <2> DEFINE a == c
             z == c + 32
             v == e.checksum
  <2>1. a \in Nat /\ z \in Nat /\ a <= z /\ z <= Len(t)
    BY <1>1
  <2>2. a \in Nat
    BY <2>1
  <2>3. z \in Nat
    BY <2>1
  <2>4. v = SubSeq(t, a + 1, z)
    <3>1. a + 1 = c + 1
      BY <1>1
    <3> QED
      BY <1>3, <3>1
  <2> HIDE DEF a, z, v
  <2>5. From(v, t, a, z)
    BY <2>1, <2>2, <2>3, <2>4, CutAfter
  <2> QED
    BY <2>5 DEF a, z, v
<1>8. (c + 32) - c = 32
  BY <1>1
<1> QED
  BY <1>4, <1>5, <1>6, <1>7, <1>8 DEF Fields, From, e

(* What is read of a damaged file is laid out as if it had been written, and *)
(* is of the ciphertext the file was made with.                              *)
LEMMA DamagedWritten ==
  ASSUME NEW b, NEW ct, NEW L, FileFacts(b, ct, L), NEW t, Damaged(t, b), Readable(t)
  PROVE  Written(EnvelopeOf(t)) /\ EnvelopeOf(t).ciphertext = ct
<1> DEFINE e == EnvelopeOf(t)
<1>1. Scanned(t, ct)
  BY ScannedIs
<1>2. Listed(t) /\ Len(t) \in Nat
  BY ListedFacts DEF Damaged
<1>3. PICK s, n, c : Placed(t, s, n, c)
  BY <1>1, <1>2, PlacedIs
<1>4. Fields(t, e, s, n, c)
  BY <1>2, <1>3, PiecesAre
<1>5. e = [argon2 |-> ParametersOf(t), salt |-> SubSeq(t, 15, SaltEnd(t)),
           nonce |-> SubSeq(t, SaltEnd(t) + 2, NonceEnd(t)),
           ciphertext |-> TextOf(t), checksum |-> ChecksumOf(t)]
  BY DEF EnvelopeOf
<1>6. ChecksumOf(t) = Blake2b(TextOf(t), 32) /\ Len(t) >= 59 + 32
  BY DEF Readable
<1>7. e.argon2 = ParametersOf(t) /\ e.ciphertext = TextOf(t) /\ e.checksum = ChecksumOf(t)
  BY <1>5
<1>8. e = [argon2 |-> e.argon2, salt |-> e.salt, nonce |-> e.nonce,
           ciphertext |-> e.ciphertext, checksum |-> e.checksum]
  BY <1>5
<1> HIDE DEF e
<1>9. e.ciphertext = ct
  <2>1. e.checksum = Blake2b(e.ciphertext, 32)
    BY <1>6, <1>7
  <2>2. e.checksum[1] = t[c + 1]
    BY <1>4 DEF Fields
  <2>3. c + 1 \in 1 .. Len(t)
    <3>1. c \in Nat /\ c + 32 <= Len(t)
      BY <1>3 DEF Placed
    <3> QED
      BY <1>2, <3>1
  <2>4. Blake2b(e.ciphertext, 32)[1] = FirstHash(e.ciphertext)
    <3>1. 1 \in 1 .. 32
      OBVIOUS
    <3>2. Blake2b(e.ciphertext, 32)[1] = [is |-> "blake2b", of |-> IF 1 = 1 THEN e.ciphertext ELSE <<>>, n |-> 1]
      BY <3>1, HashFacts
    <3> QED
      BY <3>2 DEF FirstHash
  <2>5. t[c + 1] = FirstHash(e.ciphertext)
    BY <2>1, <2>2, <2>4
  <2> QED
    BY <1>1, <2>3, <2>5 DEF Scanned
<1>10. Numbered(e.argon2)
  <2>1. \A j \in 6 .. 13 : t[j].n \in Nat /\ t[j].n < 256
    <3> TAKE j \in 6 .. 13
    <3>1. j \in 1 .. Len(t) /\ j <= 13
      BY <1>2, <1>6
    <3>2. Plain(t[j])
      BY <1>1, <3>1 DEF Scanned
    <3> QED
      BY <3>2 DEF Plain, Byte
  <2> DEFINE h == ReadU16BE(t, 8)
             l == ReadU16BE(t, 10)
             m == ReadU32BE(t, 8)
             u == ReadU16BE(t, 6)
  <2>2. h = 256 * t[8].n + t[9].n /\ l = 256 * t[10].n + t[11].n /\ u = 256 * t[6].n + t[7].n
    BY DEF ReadU16BE
  <2>3. m = 65536 * h + l
    BY DEF ReadU32BE
  <2> HIDE DEF h, l, m, u
  <2>4. h \in Nat /\ h < 65536 /\ l \in Nat /\ l < 65536 /\ u \in Nat /\ u < 65536
    BY <2>1, <2>2
  <2>5. m \in Nat /\ m \div 65536 < 65536
    BY <2>3, <2>4
  <2> DEFINE a == [t |-> u, m |-> m, p |-> t[12].n, dkLen |-> t[13].n]
  <2>6. e.argon2 = a
    BY <1>7 DEF ParametersOf, u, m
  <2>7. a.t = u /\ a.m = m /\ a = [t |-> a.t, m |-> a.m, p |-> a.p, dkLen |-> a.dkLen]
    OBVIOUS
  <2> HIDE DEF a
  <2> QED
    BY <2>4, <2>5, <2>6, <2>7 DEF Numbered
<1>11. Parts(e)
  BY <1>4 DEF Fields, Parts
<1>12. Len(e.ciphertext) \div 65536 < 65536
  BY <1>9 DEF FileFacts
<1>13. e.checksum = Blake2b(e.ciphertext, 32)
  BY <1>6, <1>7
<1> QED
  BY <1>8, <1>9, <1>10, <1>11, <1>12, <1>13 DEF Written, e

-----------------------------------------------------------------------------
(* Nobody opens what is read of a damaged file.                              *)

\* Where the file of a ciphertext has what.
FileMap(b, ct, L) ==
    /\ \A j \in 1 .. 4 : b[j] = Magic[j]
    /\ b[5] = Raw(1)
    /\ ReadU16BE(b, 6) = ARGON2.t /\ ReadU32BE(b, 8) = ARGON2.m
    /\ b[12].n = ARGON2.p /\ b[13].n = ARGON2.dkLen
    /\ b[14].n = 16 /\ b[31].n = 24
    /\ \A j \in 1 .. 16 : b[14 + j] = Salt[j]
    /\ \A j \in 1 .. 24 : b[31 + j] = Nonce[j]
    /\ ReadU32BE(b, 56) = L
    /\ \A j \in 1 .. L : b[59 + j] = ct[j]
    /\ \A j \in 1 .. 32 : b[59 + L + j] = Blake2b(ct, 32)[j]

\* Bytes that are read as the same are the same.
LEMMA MapFixes ==
  ASSUME NEW ct, NEW L \in Nat, NEW b, FileMap(b, ct, L), NEW t, FileMap(t, ct, L),
         \A j \in 1 .. 91 + L : b[j].n \in Nat /\ t[j].n \in Nat,
         NEW i \in 1 .. 91 + L, \A j \in 1 .. 91 + L : j # i => t[j] = b[j]
  PROVE  t[i].n = b[i].n
<1>1. \A j \in 1 .. 91 : b[j].n \in Nat /\ t[j].n \in Nat /\ (j # i => t[j].n = b[j].n)
  OBVIOUS
<1>2. CASE i \in 1 .. 5 \/ i \in 12 .. 14 \/ i = 31
  <2>1. i = 1 \/ i = 2 \/ i = 3 \/ i = 4 \/ i = 5 \/ i = 12 \/ i = 13 \/ i = 14 \/ i = 31
    BY <1>2
  <2>2. \A j \in 1 .. 4 : b[j] = t[j]
    BY DEF FileMap
  <2>3. b[5] = t[5] /\ b[12].n = t[12].n /\ b[13].n = t[13].n /\ b[14].n = t[14].n /\ b[31].n = t[31].n
    BY DEF FileMap
  <2> QED
    BY <2>1, <2>2, <2>3
<1>3. CASE i \in 6 .. 7
  <2>1. ReadU16BE(b, 6) = ReadU16BE(t, 6)
    BY DEF FileMap
  <2>2. 256 * b[6].n + b[7].n = 256 * t[6].n + t[7].n
    BY <2>1 DEF ReadU16BE
  <2>3. b[6].n \in Nat /\ b[7].n \in Nat /\ t[6].n \in Nat /\ t[7].n \in Nat
    BY <1>1
  <2>4. (i # 6 => t[6].n = b[6].n) /\ (i # 7 => t[7].n = b[7].n)
    BY <1>1
  <2>5. CASE i = 6
    BY <2>2, <2>3, <2>4, <2>5
  <2>6. CASE i = 7
    BY <2>2, <2>3, <2>4, <2>6
  <2> QED
    BY <1>3, <2>5, <2>6
<1>4. ASSUME NEW k \in 1 .. 88, ReadU32BE(b, k) = ReadU32BE(t, k), i \in k .. k + 3
      PROVE  t[i].n = b[i].n
  <2> DEFINE w == b[k].n
             x == b[k + 1].n
             y == b[k + 2].n
             z == b[k + 3].n
             w1 == t[k].n
             x1 == t[k + 1].n
             y1 == t[k + 2].n
             z1 == t[k + 3].n
  <2>1. /\ w \in Nat /\ x \in Nat /\ y \in Nat /\ z \in Nat
        /\ w1 \in Nat /\ x1 \in Nat /\ y1 \in Nat /\ z1 \in Nat
    <3>1. k \in 1 .. 91 /\ k + 1 \in 1 .. 91 /\ k + 2 \in 1 .. 91 /\ k + 3 \in 1 .. 91
      OBVIOUS
    <3> QED
      BY <1>1, <3>1
  <2>2. /\ (i # k => w1 = w) /\ (i # k + 1 => x1 = x) /\ (i # k + 2 => y1 = y)
        /\ (i # k + 3 => z1 = z)
    <3>1. k \in 1 .. 91 /\ k + 1 \in 1 .. 91 /\ k + 2 \in 1 .. 91 /\ k + 3 \in 1 .. 91
      OBVIOUS
    <3> QED
      BY <1>1, <3>1
  <2>3. k + 2 + 1 = k + 3
    OBVIOUS
  <2>4. 65536 * (256 * w + x) + (256 * y + z) = 65536 * (256 * w1 + x1) + (256 * y1 + z1)
    BY <1>4, <2>3 DEF ReadU32BE, ReadU16BE
  <2>5. i = k \/ i = k + 1 \/ i = k + 2 \/ i = k + 3
    <3>1. k \in Int /\ i \in Int /\ k <= i /\ i <= k + 3
      BY <1>4
    <3> QED
      BY <3>1
  <2>6. /\ (i = k => t[i].n = w1 /\ b[i].n = w) /\ (i = k + 1 => t[i].n = x1 /\ b[i].n = x)
        /\ (i = k + 2 => t[i].n = y1 /\ b[i].n = y) /\ (i = k + 3 => t[i].n = z1 /\ b[i].n = z)
    OBVIOUS
  <2>7. k \in Nat /\ i \in Nat
    OBVIOUS
  <2> HIDE DEF w, x, y, z, w1, x1, y1, z1
  <2>8. w = w1 /\ x = x1 /\ y = y1 /\ z = z1
    <3>1. CASE i = k
      <4>1. x1 = x /\ y1 = y /\ z1 = z
        BY <2>2, <2>7, <3>1
      <4> QED
        BY <2>1, <2>4, <4>1
    <3>2. CASE i = k + 1
      <4>1. w1 = w /\ y1 = y /\ z1 = z
        BY <2>2, <2>7, <3>2
      <4> QED
        BY <2>1, <2>4, <4>1
    <3>3. CASE i = k + 2
      <4>1. w1 = w /\ x1 = x /\ z1 = z
        BY <2>2, <2>7, <3>3
      <4> QED
        BY <2>1, <2>4, <4>1
    <3>4. CASE i = k + 3
      <4>1. w1 = w /\ x1 = x /\ y1 = y
        BY <2>2, <2>7, <3>4
      <4> QED
        BY <2>1, <2>4, <4>1
    <3> QED
      BY <2>5, <3>1, <3>2, <3>3, <3>4
  <2> QED
    BY <2>5, <2>6, <2>8
<1>5. CASE i \in 8 .. 11
  <2>1. ReadU32BE(b, 8) = ReadU32BE(t, 8)
    BY DEF FileMap
  <2> QED
    BY <1>4, <1>5, <2>1
<1>6. CASE i \in 56 .. 59
  <2>1. ReadU32BE(b, 56) = ReadU32BE(t, 56)
    BY DEF FileMap
  <2> QED
    BY <1>4, <1>6, <2>1
<1>7. CASE i \in 15 .. 30
  <2>1. i - 14 \in 1 .. 16 /\ 14 + (i - 14) = i
    BY <1>7
  <2>2. b[14 + (i - 14)] = Salt[i - 14] /\ t[14 + (i - 14)] = Salt[i - 14]
    BY <2>1 DEF FileMap
  <2> QED
    BY <2>1, <2>2
<1>8. CASE i \in 32 .. 55
  <2>1. i - 31 \in 1 .. 24 /\ 31 + (i - 31) = i
    BY <1>8
  <2>2. b[31 + (i - 31)] = Nonce[i - 31] /\ t[31 + (i - 31)] = Nonce[i - 31]
    BY <2>1 DEF FileMap
  <2> QED
    BY <2>1, <2>2
<1>9. CASE i \in 60 .. 59 + L
  <2>1. i - 59 \in 1 .. L /\ 59 + (i - 59) = i
    BY <1>9
  <2>2. b[59 + (i - 59)] = ct[i - 59] /\ t[59 + (i - 59)] = ct[i - 59]
    BY <2>1 DEF FileMap
  <2> QED
    BY <2>1, <2>2
<1>10. CASE i \in 60 + L .. 91 + L
  <2> DEFINE k == i - (59 + L)
  <2>1. k \in 1 .. 32 /\ 59 + L + k = i
    BY <1>10
  <2> HIDE DEF k
  <2>2. b[59 + L + k] = Blake2b(ct, 32)[k] /\ t[59 + L + k] = Blake2b(ct, 32)[k]
    BY <2>1 DEF FileMap
  <2> QED
    BY <2>1, <2>2
<1> QED
  BY <1>2, <1>3, <1>5, <1>6, <1>7, <1>8, <1>9, <1>10

\* A readable file of an envelope with Salt, Nonce and the parameters.
LEMMA Mapped ==
  ASSUME NEW t, Listed(t), NEW s, NEW n, NEW c, Placed(t, s, n, c), Readable(t),
         NEW ct, Listed(ct), NEW L \in Nat, Len(ct) = L, NEW e, e = EnvelopeOf(t),
         e.ciphertext = ct, e.salt = Salt, e.nonce = Nonce,
         e.argon2.t = ARGON2.t, e.argon2.m = ARGON2.m, e.argon2.p = ARGON2.p,
         e.argon2.dkLen = ARGON2.dkLen
  PROVE  FileMap(t, ct, L) /\ Len(t) >= 91 + L
<1>1. Fields(t, e, s, n, c)
  BY PiecesAre
<1>2. /\ s \in Nat /\ n \in Nat /\ c \in Nat /\ Len(t) \in Nat /\ c + 32 <= Len(t)
      /\ 14 <= s /\ s + 1 <= n /\ n + 4 <= c
  BY ListedFacts DEF Placed
<1>2a. s = 14 + t[14].n /\ n = s + 1 + t[s + 1].n /\ c = n + 4 + ReadU32BE(t, n + 1)
  BY DEF Placed
<1>3. s - 14 = 16 /\ n - (s + 1) = 24 /\ c - (n + 4) = L
  <2>1. Len(Salt) = 16 /\ Len(Nonce) = 24
    BY RandomFacts
  <2>2. Len(e.salt) = s - 14
    BY <1>1 DEF Fields
  <2>3. Len(e.nonce) = n - (s + 1)
    BY <1>1 DEF Fields
  <2>4. Len(e.ciphertext) = c - (n + 4)
    BY <1>1 DEF Fields
  <2>5. Len(e.salt) = 16 /\ Len(e.nonce) = 24 /\ Len(e.ciphertext) = L
    BY <2>1
  <2> QED
    BY <2>2, <2>3, <2>4, <2>5
<1>5. s = 30 /\ n = 55 /\ c = 59 + L
  BY <1>2, <1>3
<1>6. Len(t) >= 91 + L
  BY <1>2, <1>5
<1>7. \A j \in 1 .. 16 : t[14 + j] = Salt[j]
  <2>1. \A j \in 1 .. s - 14 : e.salt[j] = t[14 + j]
    BY <1>1 DEF Fields
  <2>2. s - 14 = 16
    BY <1>5
  <2> QED
    BY <2>1, <2>2
<1>8. \A j \in 1 .. 24 : t[31 + j] = Nonce[j]
  <2>1. \A j \in 1 .. n - (s + 1) : e.nonce[j] = t[(s + 1) + j]
    BY <1>1 DEF Fields
  <2>2. n - (s + 1) = 24 /\ s + 1 = 31
    BY <1>5
  <2> QED
    BY <2>1, <2>2
<1>9. \A j \in 1 .. L : t[59 + j] = ct[j]
  <2>1. \A j \in 1 .. c - (n + 4) : e.ciphertext[j] = t[(n + 4) + j]
    BY <1>1 DEF Fields
  <2>2. c - (n + 4) = L /\ n + 4 = 59
    BY <1>5
  <2> QED
    BY <2>1, <2>2
<1>10. \A j \in 1 .. 32 : t[59 + L + j] = Blake2b(ct, 32)[j]
  <2>1. \A j \in 1 .. 32 : e.checksum[j] = t[c + j]
    BY <1>1 DEF Fields
  <2>2. e.checksum = Blake2b(e.ciphertext, 32)
    <3>1. EnvelopeOf(t).checksum = ChecksumOf(t) /\ EnvelopeOf(t).ciphertext = TextOf(t)
      BY DEF EnvelopeOf
    <3> QED
      BY <3>1 DEF Readable
  <2> QED
    BY <1>5, <2>1, <2>2
<1>11. t[14].n = 16 /\ t[31].n = 24 /\ ReadU32BE(t, 56) = L
  <2>1. 30 + 1 = 31 /\ 55 + 1 = 56
    OBVIOUS
  <2>2. 30 = 14 + t[14].n /\ 55 = 30 + 1 + t[31].n /\ 59 + L = 55 + 4 + ReadU32BE(t, 56)
    BY <1>2a, <1>5, <2>1
  <2>3. t[14].n \in Int /\ t[31].n \in Int /\ ReadU32BE(t, 56) \in Int
    <3>1. t[14].n \in Nat /\ t[s + 1].n \in Nat /\ ReadU32BE(t, n + 1) \in Nat
      BY DEF Placed
    <3> QED
      BY <1>5, <2>1, <3>1
  <2> QED
    BY <2>2, <2>3
<1>12. \A j \in 1 .. 4 : t[j] = Magic[j]
  <2> DEFINE v == SubSeq(t, 1, 4)
  <2>1. v = Magic
    BY DEF Readable
  <2>2. 1 \in 1 .. Len(t) + 1 /\ 4 \in 1 - 1 .. Len(t)
    BY <1>2, <1>6
  <2>3. \A j \in 1 .. 4 - 1 + 1 : v[j] = t[1 + j - 1]
    BY <2>2, Cut
  <2> HIDE DEF v
  <2>4. \A j \in 1 .. 4 : v[j] = t[j]
    BY <2>3
  <2> QED
    BY <2>1, <2>4
<1>13. t[5] = Raw(1)
  BY DEF Readable
<1>14. ReadU16BE(t, 6) = ARGON2.t /\ ReadU32BE(t, 8) = ARGON2.m
       /\ t[12].n = ARGON2.p /\ t[13].n = ARGON2.dkLen
  <2>1. e.argon2 = ParametersOf(t)
    BY DEF EnvelopeOf
  <2>2. e.argon2.t = ReadU16BE(t, 6) /\ e.argon2.m = ReadU32BE(t, 8)
        /\ e.argon2.p = t[12].n /\ e.argon2.dkLen = t[13].n
    BY <2>1 DEF ParametersOf
  <2> QED
    BY <2>2
<1> QED
  BY <1>6, <1>7, <1>8, <1>9, <1>10, <1>11, <1>12, <1>13, <1>14 DEF FileMap

\* What a damaged file of sealed notes is worth.
Dead(e) == Written(e) /\ \A q : Decrypt(e, q) = {}

LEMMA FileRead ==
  ASSUME NEW p, NEW notes \in NoteLists
  PROVE  LET b == FileOf(p, notes)
         IN  Listed(b) /\ Readable(b) /\ EnvelopeOf(b) = EnvelopeFor(p, notes)
<1> DEFINE b == FileOf(p, notes)
           e == EnvelopeFor(p, notes)
<1>1. Written(e)
  BY ForWritten
<1>2. Len(e.salt) + Len(e.nonce) >= 40
  <2>1. e.salt = Salt /\ e.nonce = Nonce
    BY DEF EnvelopeFor
  <2> HIDE DEF e
  <2> QED
    BY <2>1, RandomFacts
<1>3. b = SealedEnvelopeToBinary(e)
  BY DEF FileOf
<1>3a. Listed(b)
  BY FileIs DEF FileFacts
<1> HIDE DEF b, e
<1>4. BinaryToSealedEnvelope(b) = {e}
  BY <1>1, <1>2, <1>3, Reparsed
<1>5. BinaryToSealedEnvelope(b) = IF Readable(b) THEN {EnvelopeOf(b)} ELSE {}
  BY <1>3a, BytesRead
<1>6. Readable(b) /\ EnvelopeOf(b) = e
  BY <1>4, <1>5
<1> QED
  BY <1>3a, <1>6 DEF b, e

LEMMA FileScanned ==
  ASSUME NEW b, NEW ct, NEW L, FileFacts(b, ct, L) PROVE Scanned(b, ct)
<1>1. /\ Len(b) = 91 + L /\ L \in Nat
      /\ \A i \in 1 .. 14 : Plain(b[i])
      /\ \A i \in 1 .. 91 + L : Fine(b[i], ct)
  BY DEF FileFacts
<1>2. ASSUME NEW j \in 1 .. Len(b)
      PROVE  /\ Byte(b[j]) /\ \A x : b[j] = FirstHash(x) => x = ct
             /\ j <= 13 => Plain(b[j])
  <2>1. Fine(b[j], ct) /\ (j <= 13 => j \in 1 .. 14)
    BY <1>1
  <2> QED
    BY <1>1, <2>1, FlipFine
<1> QED
  BY <1>2 DEF Scanned

LEMMA FileMapped ==
  ASSUME NEW p, NEW notes \in NoteLists
  PROVE  FileMap(FileOf(p, notes), TextFor(p, notes), Len(notes) + 1)
<1> DEFINE b == FileOf(p, notes)
           e == EnvelopeFor(p, notes)
           ct == TextFor(p, notes)
           L == Len(notes) + 1
<1>1. FileFacts(b, ct, L)
  BY FileIs
<1>2. Listed(b) /\ Readable(b) /\ e = EnvelopeOf(b)
  BY FileRead
<1>3. /\ e.argon2 = ARGON2 /\ e.salt = Salt /\ e.nonce = Nonce /\ e.ciphertext = ct
  BY DEF EnvelopeFor
<1>4. Listed(ct) /\ Len(ct) = L /\ L \in Nat
  BY <1>1 DEF FileFacts
<1> HIDE DEF b, e, ct, L
<1>5. Scanned(b, ct)
  BY <1>1, FileScanned
<1>6. PICK s, n, c : Placed(b, s, n, c)
  BY <1>2, <1>5, PlacedIs
<1>7. L \in Nat
  BY <1>4
<1>8. /\ e.argon2.t = ARGON2.t /\ e.argon2.m = ARGON2.m /\ e.argon2.p = ARGON2.p
      /\ e.argon2.dkLen = ARGON2.dkLen
  BY <1>3
<1>9. FileMap(b, ct, L)
  BY <1>2, <1>3, <1>4, <1>6, <1>7, <1>8, Mapped
<1> QED
  BY <1>9 DEF b, ct, L

(***************************************************************************)
(* Whatever byte of the binary file of sealed notes is changed or lost,    *)
(* and however much of it is cut off: what is still read of it no          *)
(* passphrase decrypts.                                                    *)
(***************************************************************************)
THEOREM DamagedDead ==
  ASSUME NEW p, NEW notes \in NoteLists, NEW t, Damaged(t, FileOf(p, notes)), Readable(t)
  PROVE  Dead(EnvelopeOf(t))
<1> DEFINE b == FileOf(p, notes)
           e == EnvelopeOf(t)
           ct == TextFor(p, notes)
           L == Len(notes) + 1
<1>1. FileFacts(b, ct, L)
  BY FileIs
<1>2. FileMap(b, ct, L)
  BY FileMapped
<1>2a. Listed(notes)
  BY NotesAre
<1>2b. Damaged(t, b)
  OBVIOUS
<1> HIDE DEF b, L
<1>3. Written(e) /\ e.ciphertext = ct
  BY <1>1, <1>2b, DamagedWritten
<1>4. ASSUME NEW q, NEW x \in Decrypt(e, q) PROVE FALSE
  <2>1. Listed(e.salt) /\ Listed(e.nonce)
    BY <1>3 DEF Written, Parts
  <2>2. Opens(e, q, x, p, notes)
    BY <1>2a, <1>3, <1>4, <2>1, Opened
  <2> HIDE DEF e, ct
  <2>2a. e = EnvelopeOf(t)
    BY DEF e
  <2>3. Scanned(t, ct)
    BY <1>1, <1>2b, ScannedIs
  <2>4. Listed(t)
    BY <1>2b DEF Damaged
  <2>5. PICK s, n, c : Placed(t, s, n, c)
    BY <2>3, <2>4, PlacedIs
  <2>6. e.salt = Salt /\ e.nonce = Nonce
        /\ e.argon2.t = ARGON2.t /\ e.argon2.m = ARGON2.m /\ e.argon2.p = ARGON2.p
        /\ e.argon2.dkLen = ARGON2.dkLen
    BY <2>2 DEF Opens
  <2>7. Listed(ct) /\ Len(ct) = L /\ L \in Nat
    BY <1>1 DEF FileFacts
  <2>7a. L \in Nat
    BY <2>7
  <2>8. FileMap(t, ct, L) /\ Len(t) >= 91 + L
    BY <1>3, <2>2a, <2>4, <2>5, <2>6, <2>7, <2>7a, Mapped
  <2>9. Len(b) = 91 + L
    BY <1>1 DEF FileFacts
  <2>10. Len(t) \in Nat
    BY <2>4, ListedFacts
  <2>11. PICK i \in 1 .. Len(b) : FlippedAt(t, b, i)
    BY <1>2b, <2>7a, <2>8, <2>9, <2>10 DEF Damaged, Shortened
  <2>12. Len(t) = 91 + L /\ t[i] = Flip(b[i]) /\ i \in 1 .. 91 + L
         /\ \A j \in 1 .. 91 + L : j # i => t[j] = b[j]
    BY <2>9, <2>11 DEF FlippedAt
  <2>13. \A j \in 1 .. 91 + L : b[j].n \in Nat
    BY <1>1 DEF FileFacts, Fine, Byte
  <2>14. \A j \in 1 .. 91 + L : t[j].n \in Nat
    BY <2>3, <2>12 DEF Scanned, Byte
  <2>15. t[i].n = b[i].n
    BY <1>2, <2>7a, <2>8, <2>12, <2>13, <2>14, MapFixes
  <2>16. Byte(b[i])
    BY <1>1, <2>12 DEF FileFacts, Fine
  <2> QED
    BY <2>12, <2>15, <2>16, ByteFlips
<1> QED
  BY <1>3, <1>4 DEF Dead

-----------------------------------------------------------------------------
(* Recovery codes.                                                           *)

Check(b) == SubSeq(Blake2b(b, 32), 1, 4)
BytesCoded(t) == SubSeq(t, 1, Len(t) - 4)
Checked(t) == ~(Len(t) < 5) /\ t = BytesCoded(t) \o Check(BytesCoded(t))

LEMMA CheckFacts ==
  ASSUME NEW b
  PROVE  /\ Listed(Check(b)) /\ Len(Check(b)) = 4
         /\ \A i \in 1 .. 4 : Check(b)[i] = Blake2b(b, 32)[i]
         /\ Check(b)[1] = FirstHash(b)
<1> DEFINE h == Blake2b(b, 32)
           v == Check(b)
           z == 4
           a == 0
<1>1. Listed(h) /\ Len(h) = 32
  BY HashFacts
<1>2. h[1] = FirstHash(b)
  <2>1. 1 \in 1 .. 32
    OBVIOUS
  <2>2. h[1] = [is |-> "blake2b", of |-> IF 1 = 1 THEN b ELSE <<>>, n |-> 1]
    BY <2>1, HashFacts
  <2> QED
    BY <2>2 DEF FirstHash
<1>3. v = SubSeq(h, a + 1, z) /\ a \in Nat /\ z \in Nat /\ a <= z /\ z = 4 /\ a = 0
  BY DEF Check
<1>4. a \in Nat
  OBVIOUS
<1>5. z \in Nat
  OBVIOUS
<1> HIDE DEF h, v, z, a
<1>6. a <= z /\ z <= Len(h)
  BY <1>1, <1>3
<1>7. From(v, h, a, z)
  BY <1>1, <1>3, <1>4, <1>5, <1>6, CutAfter
<1>8. Listed(v) /\ Len(v) = 4 /\ \A i \in 1 .. 4 : v[i] = h[i]
  BY <1>3, <1>7 DEF From
<1>9. v[1] = FirstHash(b)
  BY <1>2, <1>8
<1> QED
  BY <1>8, <1>9 DEF h, v

LEMMA FrontFacts ==
  ASSUME NEW t, Listed(t), Len(t) >= 5
  PROVE  /\ Listed(BytesCoded(t)) /\ Len(BytesCoded(t)) = Len(t) - 4
         /\ \A i \in 1 .. Len(t) - 4 : BytesCoded(t)[i] = t[i]
<1>1. Len(t) \in Nat
  BY ListedFacts
<1>2. 1 \in 1 .. Len(t) + 1 /\ Len(t) - 4 \in 1 - 1 .. Len(t)
  BY <1>1
<1> DEFINE v == BytesCoded(t)
<1>3. /\ Listed(v) /\ Len(v) = (Len(t) - 4) - 1 + 1
      /\ \A i \in 1 .. (Len(t) - 4) - 1 + 1 : v[i] = t[1 + i - 1]
  BY <1>2, Cut DEF BytesCoded
<1>4. (Len(t) - 4) - 1 + 1 = Len(t) - 4 /\ \A i \in 1 .. Len(t) - 4 : 1 + i - 1 = i
  BY <1>1
<1> HIDE DEF v
<1>5. Listed(v) /\ Len(v) = Len(t) - 4 /\ \A i \in 1 .. Len(t) - 4 : v[i] = t[i]
  BY <1>3, <1>4
<1> QED
  BY <1>5 DEF v

\* A code is read as what is before its check, if it is that.
LEMMA CodesRead ==
  ASSUME NEW prefix, NEW code
  PROVE  /\ PrefixedRecoveryCodeToBytes(code, prefix) \subseteq {BytesCoded(code.bytes)}
         /\ PrefixedRecoveryCodeToBytes(code, prefix) # {} => code.as = prefix /\ Checked(code.bytes)
         /\ code = [as |-> prefix, bytes |-> code.bytes] /\ Checked(code.bytes)
              => PrefixedRecoveryCodeToBytes(code, prefix) = {BytesCoded(code.bytes)}
<1> DEFINE t == code.bytes
           f == BytesCoded(t)
           again == BytesToPrefixedRecoveryCode(f, prefix)
<1>1. PrefixedRecoveryCodeToBytes(code, prefix) =
        IF code.as # prefix \/ Len(t) < 5 THEN {}
        ELSE {x \in {f} : code = BytesToPrefixedRecoveryCode(x, prefix)}
  BY DEF PrefixedRecoveryCodeToBytes, BytesCoded
<1>2. again = [as |-> prefix, bytes |-> f \o Check(f)]
  BY DEF BytesToPrefixedRecoveryCode, Check
<1>3. PrefixedRecoveryCodeToBytes(code, prefix) =
        IF code.as # prefix \/ Len(t) < 5 \/ code # again THEN {} ELSE {f}
  <2> HIDE DEF t, f
  <2> QED
    BY <1>1
<1>4. ASSUME code = again, ~(Len(t) < 5) PROVE Checked(t)
  <2>1. t = f \o Check(f)
    BY <1>2, <1>4
  <2> QED
    BY <1>4, <2>1 DEF Checked
<1>5. ASSUME code = [as |-> prefix, bytes |-> t], Checked(t)
      PROVE  code.as = prefix /\ ~(Len(t) < 5) /\ code = again
  <2>1. t = f \o Check(f) /\ ~(Len(t) < 5)
    BY <1>5 DEF Checked
  <2>2. code.as = prefix
    BY <1>5
  <2> HIDE DEF f
  <2>3. code = again
    BY <1>2, <1>5, <2>1
  <2> QED
    BY <2>1, <2>2, <2>3
<1> HIDE DEF t, f, again
<1>6. PrefixedRecoveryCodeToBytes(code, prefix) \subseteq {f}
  BY <1>3
<1>7. PrefixedRecoveryCodeToBytes(code, prefix) # {} => code.as = prefix /\ Checked(t)
  BY <1>3, <1>4
<1>8. code = [as |-> prefix, bytes |-> t] /\ Checked(t)
        => PrefixedRecoveryCodeToBytes(code, prefix) = {f}
  BY <1>3, <1>5
<1> QED
  BY <1>6, <1>7, <1>8 DEF t, f

LEMMA Split4 ==
  ASSUME NEW t, Listed(t), ~(Len(t) < 5)
  PROVE  t = BytesCoded(t) \o SubSeq(t, Len(t) - 3, Len(t))
<1> DEFINE f == BytesCoded(t)
           z == Len(t)
           a == z - 4
           v == SubSeq(t, z - 3, z)
<1>1. z \in Nat
  BY ListedFacts
<1>2. Listed(f) /\ Len(f) = z - 4 /\ \A i \in 1 .. z - 4 : f[i] = t[i]
  BY <1>1, FrontFacts
<1>3. z >= 5 /\ a \in Nat /\ a + 1 = z - 3 /\ a <= z /\ z - a = 4
  BY <1>1
<1>4. a \in Nat
  BY <1>3
<1>4a. Len(t) = z
  OBVIOUS
<1>5. v = SubSeq(t, a + 1, z)
  BY <1>3
<1> HIDE DEF f, z, v, a
<1>5a. a <= z
  BY <1>3
<1>5b. z <= Len(t)
  BY <1>1, <1>4a
<1>6. From(v, t, a, z)
  BY <1>1, <1>4, <1>5, <1>5a, <1>5b, CutAfter
<1>7. Listed(v) /\ Len(v) = 4 /\ \A i \in 1 .. 4 : v[i] = t[a + i]
  BY <1>3, <1>6 DEF From
<1>8. Behind(f \o v, f, v)
  BY <1>2, <1>7, JoinedBehind
<1> DEFINE u == f \o v
<1>9. /\ Listed(u) /\ Len(u) = Len(f) + Len(v)
      /\ \A i \in 1 .. Len(f) : u[i] = f[i]
      /\ \A i \in 1 .. Len(v) : u[Len(f) + i] = v[i]
  BY <1>8 DEF Behind
<1> HIDE DEF u
<1>10. Len(f) = a
  BY <1>2 DEF a
<1>10a. \A i \in 1 .. 4 : u[a + i] = v[i]
  <2>1. Len(v) = 4
    BY <1>7
  <2> QED
    BY <1>4, <1>9, <1>10, <2>1
<1>11. Len(u) = Len(t)
  BY <1>1, <1>3, <1>4a, <1>7, <1>9, <1>10
<1>12. \A i \in 1 .. Len(u) : u[i] = t[i]
  <2> TAKE i \in 1 .. Len(u)
  <2>1. CASE i \in 1 .. a
    BY <1>2, <1>9, <1>10, <2>1 DEF a
  <2>2. CASE i \in a + 1 .. z
    <3> DEFINE j == i - a
    <3>1. j \in 1 .. 4 /\ a + j = i
      BY <1>1, <1>3, <2>2
    <3> HIDE DEF j
    <3>2. u[a + j] = v[j] /\ v[j] = t[a + j]
      BY <1>7, <1>10a, <3>1
    <3> QED
      BY <3>1, <3>2
  <2> QED
    BY <1>1, <1>3, <1>4a, <1>11, <2>1, <2>2
<1>13. u = t
  BY <1>9, <1>11, <1>12, Alike
<1> QED
  BY <1>13 DEF u, f, v, z

\* The Python client refuses what the others refuse.
LEMMA PyCodesRead ==
  ASSUME NEW code, Listed(code.bytes)
  PROVE  /\ PyRecoveryCodeToBinary(code) \subseteq {BytesCoded(code.bytes)}
         /\ PyRecoveryCodeToBinary(code) # {} => code.as = "AP1" /\ Checked(code.bytes)
<1> DEFINE t == code.bytes
           f == BytesCoded(t)
           last == SubSeq(t, Len(t) - 3, Len(t))
<1>1. PyRecoveryCodeToBinary(code) =
        IF code.as # "AP1" \/ Len(t) < 5 THEN {}
        ELSE IF last = Check(f) /\ PyBinaryToSealedEnvelope(f) # {} THEN {f} ELSE {}
  BY DEF PyRecoveryCodeToBinary, BytesCoded, Check
<1>2. ~(Len(t) < 5) => t = f \o last
  BY Split4
<1> HIDE DEF t, f, last
<1>3. PyRecoveryCodeToBinary(code) \subseteq {f}
  BY <1>1
<1>4. PyRecoveryCodeToBinary(code) # {} => code.as = "AP1" /\ ~(Len(t) < 5) /\ t = f \o Check(f)
  BY <1>1, <1>2
<1>5. PyRecoveryCodeToBinary(code) # {} => code.as = "AP1" /\ Checked(t)
  BY <1>4 DEF Checked, f
<1> QED
  BY <1>3, <1>5 DEF t, f

\* The code of b.
Coded(b) == b \o Check(b)

LEMMA CodeRead ==
  ASSUME NEW b, Listed(b), Len(b) >= 1
  PROVE  Listed(Coded(b)) /\ Checked(Coded(b)) /\ BytesCoded(Coded(b)) = b
<1> DEFINE k == Check(b)
           t == b \o k
<1>1. Listed(k) /\ Len(k) = 4
  BY CheckFacts
<1>2. Len(b) \in Nat
  BY ListedFacts
<1> HIDE DEF k
<1>3. LongAs(t, b, k)
  BY <1>1, JoinedLong
<1>4. SubSeq(t, 1, Len(b)) = b
  BY <1>1, CutJoined
<1> HIDE DEF t
<1>5. Listed(t) /\ Len(t) = Len(b) + 4
  BY <1>1, <1>3 DEF LongAs
<1>6. Len(t) - 4 = Len(b) /\ ~(Len(t) < 5)
  BY <1>2, <1>5
<1>7. BytesCoded(t) = b
  BY <1>4, <1>6 DEF BytesCoded
<1>8. t = Coded(b)
  BY DEF t, k, Coded
<1>9. Checked(t)
  BY <1>6, <1>7, <1>8 DEF Checked, Coded
<1> QED
  BY <1>5, <1>7, <1>8, <1>9

(* A code of which something was changed or lost is not taken, unless what   *)
(* it is of has an entry that passes for a hash.                             *)
LEMMA CodeDamaged ==
  ASSUME NEW b, Listed(b), Len(b) >= 1, NEW t, Damaged(t, Coded(b)), Checked(t),
         \A k \in 1 .. Len(b) : /\ b[k] # FirstHash(BytesCoded(t)) /\ Flip(b[k]) # FirstHash(BytesCoded(t))
                                /\ Flip(b[k]) # b[k]
  PROVE  FALSE
<1> DEFINE s == Coded(b)
           h == Check(b)
           f == BytesCoded(t)
           g == Check(f)
<1>0. Len(b) \in Nat /\ Listed(t) /\ Len(t) \in Nat
  BY ListedFacts DEF Damaged
<1>1. Listed(h) /\ Len(h) = 4 /\ \A i \in 1 .. 4 : h[i] = Blake2b(b, 32)[i]
  BY CheckFacts
<1>2. Behind(s, b, h)
  BY <1>1, JoinedBehind DEF Coded
<1>3. Listed(g) /\ Len(g) = 4 /\ g[1] = FirstHash(f)
  BY CheckFacts
<1>4. ~(Len(t) < 5) /\ t = f \o g
  BY DEF Checked
<1>5. Len(t) >= 5
  BY <1>0, <1>4
<1>6. Listed(f) /\ Len(f) = Len(t) - 4
  BY <1>0, <1>5, FrontFacts
<1>6a. Damaged(t, s)
  OBVIOUS
<1>6b. \A k \in 1 .. Len(b) : b[k] # FirstHash(f) /\ Flip(b[k]) # FirstHash(f) /\ Flip(b[k]) # b[k]
  OBVIOUS
<1>6c. s = b \o h
  BY DEF Coded
<1> HIDE DEF s, h, f, g
<1>7. Behind(t, f, g)
  BY <1>3, <1>4, <1>6, JoinedBehind
<1>8. t[Len(f) + 1] = FirstHash(f) /\ Len(f) + 1 \in 1 .. Len(t)
  BY <1>0, <1>3, <1>5, <1>6, <1>7 DEF Behind
<1>9. /\ Listed(s) /\ Len(s) = Len(b) + 4 /\ \A i \in 1 .. Len(b) : s[i] = b[i]
      /\ \A i \in 1 .. 4 : s[Len(b) + i] = h[i]
  BY <1>1, <1>2 DEF Behind
<1>10. PICK k \in 1 .. Len(s) : t[Len(f) + 1] = s[k] \/ t[Len(f) + 1] = Flip(s[k])
  <2> DEFINE j == Len(f) + 1
  <2>1. j \in 1 .. Len(t)
    BY <1>8
  <2>2. Listed(s)
    BY <1>9
  <2> HIDE DEF j
  <2>3. \E k \in 1 .. Len(s) : k \in {j, j + 1} /\ (t[j] = s[k] \/ t[j] = Flip(s[k]))
    BY <1>6a, <2>1, <2>2, ComesFrom
  <2> QED
    BY <2>3 DEF j
<1>11. k \notin 1 .. Len(b)
  BY <1>6b, <1>8, <1>9, <1>10
<1>12. ASSUME NEW i \in 1 .. Len(s), i \notin 1 .. Len(b) PROVE Fine(s[i], b)
  <2> DEFINE j == i - Len(b)
  <2>1. j \in 1 .. 4 /\ Len(b) + j = i
    BY <1>0, <1>9, <1>12
  <2>2. j \in 1 .. 32
    BY <2>1
  <2> HIDE DEF j
  <2>3. s[i] = Blake2b(b, 32)[j]
    BY <1>1, <1>9, <2>1
  <2> QED
    BY <2>2, <2>3, HashFine
<1>13. f = b
  <2>1. Fine(s[k], b)
    BY <1>11, <1>12
  <2>2. s[k] = FirstHash(f) \/ Flip(s[k]) = FirstHash(f)
    BY <1>8, <1>10
  <2> QED
    BY <2>1, <2>2, FineHashes
<1>14. t = s
  BY <1>4, <1>6c, <1>13 DEF g, h
<1>15. PICK i \in 1 .. Len(s) : FlippedAt(t, s, i)
  BY <1>0, <1>6a, <1>14 DEF Damaged, Shortened
<1>16. s[i] = Flip(s[i])
  BY <1>14, <1>15 DEF FlippedAt
<1>17. i \notin 1 .. Len(b)
  BY <1>6b, <1>9, <1>16
<1>18. Byte(s[i])
  BY <1>12, <1>17 DEF Fine
<1> QED
  BY <1>16, <1>18, ByteFlips

LEMMA SealedCodeDamaged ==
  ASSUME NEW p, NEW notes \in NoteLists, NEW t, Damaged(t, Coded(FileOf(p, notes))), Checked(t)
  PROVE  FALSE
<1> DEFINE b == FileOf(p, notes)
           s == Coded(b)
           ct == TextFor(p, notes)
           L == Len(notes) + 1
           f == BytesCoded(t)
<1>1. FileFacts(b, ct, L)
  BY FileIs
<1>2. Damaged(t, s) /\ s = Coded(b)
  OBVIOUS
<1>2a. ct[1].is = "xchacha20poly1305"
  BY TextFacts
<1> HIDE DEF b, s, ct, L
<1>3. Listed(b) /\ Len(b) = 91 + L /\ L \in Nat /\ \A i \in 1 .. 14 : Plain(b[i])
  BY <1>1 DEF FileFacts
<1>4. Listed(t) /\ Len(t) \in Nat /\ Len(t) >= 5
  BY <1>2, ListedFacts DEF Damaged, Checked
<1>5. f[1] = t[1]
  <2>1. \A i \in 1 .. Len(t) - 4 : f[i] = t[i]
    BY <1>4, FrontFacts
  <2> HIDE DEF f
  <2>2. 1 \in 1 .. Len(t) - 4
    BY <1>4
  <2> QED
    BY <2>1, <2>2
<1>6. t[1].is = "raw"
  <2> DEFINE h == Check(b)
  <2>1. Listed(h) /\ Len(h) = 4
    BY CheckFacts
  <2> HIDE DEF h
  <2>2. Behind(s, b, h)
    BY <1>2, <1>3, <2>1, JoinedBehind DEF Coded, h
  <2>3. Listed(s) /\ \A i \in 1 .. Len(b) : s[i] = b[i]
    BY <2>2 DEF Behind
  <2> DEFINE j == 1
  <2>4. j \in 1 .. Len(t) /\ j = 1
    BY <1>4
  <2> HIDE DEF j
  <2>5. PICK k \in 1 .. Len(s) : k \in {j, j + 1} /\ (t[j] = s[k] \/ t[j] = Flip(s[k]))
    BY <1>2, <2>3, <2>4, ComesFrom
  <2>6. k \in 1 .. 14 /\ k \in 1 .. Len(b)
    BY <1>3, <2>4, <2>5
  <2>7. Plain(s[k])
    BY <1>3, <2>3, <2>6
  <2> QED
    BY <2>4, <2>5, <2>7, ByteFlips DEF Plain
<1>7. ASSUME NEW k \in 1 .. Len(b)
      PROVE  b[k] # FirstHash(f) /\ Flip(b[k]) # FirstHash(f) /\ Flip(b[k]) # b[k]
  <2>1. Fine(b[k], ct)
    BY <1>1, <1>3 DEF FileFacts
  <2>2. ct # f
    BY <1>2a, <1>5, <1>6
  <2> HIDE DEF f
  <2>3. b[k] # FirstHash(f) /\ Flip(b[k]) # FirstHash(f)
    BY <2>1, <2>2, FineHashes
  <2> QED
    BY <2>1, <2>3, ByteFlips DEF Fine
<1>8. Len(b) >= 1
  BY <1>3
<1> QED
  BY <1>2, <1>3, <1>7, <1>8, CodeDamaged DEF s

LEMMA NoteItem ==
  ASSUME NEW s \in Notes, NEW x, x = Note(s)
  PROVE  /\ "secrets" \in DOMAIN x /\ x.secrets = s
         /\ Flip(x) = Note(Altered) /\ Flip(x) # x
         /\ \A b : x # FirstHash(b) /\ Flip(x) # FirstHash(b)
<1>1. \A z : DOMAIN Note(z) = {"secrets"} /\ Note(z).secrets = z
  BY DEF Note
<1>2. DOMAIN x = {"secrets"} /\ x.secrets = s
  BY <1>1
<1>3. Flip(x) = Note(Altered)
  BY <1>2 DEF Flip
<1>4. Altered # s
  BY NoteBackupAssumption
<1>5. Flip(x) # x
  BY <1>1, <1>2, <1>3, <1>4
<1>6. \A b : "is" \in DOMAIN FirstHash(b)
  BY DEF FirstHash
<1>7. \A b, z : Note(z) # FirstHash(b)
  BY <1>1, <1>6
<1> QED
  BY <1>2, <1>3, <1>5, <1>7

LEMMA PlainCodeDamaged ==
  ASSUME NEW notes \in NoteLists, notes # <<>>, NEW t, Damaged(t, Coded(notes)), Checked(t)
  PROVE  FALSE
<1> DEFINE f == BytesCoded(t)
<1>1. Listed(notes) /\ Len(notes) >= 1
  BY NotesAre
<1> HIDE DEF f
<1>2. ASSUME NEW k \in 1 .. Len(notes)
      PROVE  notes[k] # FirstHash(f) /\ Flip(notes[k]) # FirstHash(f) /\ Flip(notes[k]) # notes[k]
  <2>1. PICK s \in Notes : notes[k] = Note(s)
    BY NotesAre
  <2> QED
    BY <2>1, NoteItem
<1> QED
  BY <1>1, <1>2, CodeDamaged DEF f

-----------------------------------------------------------------------------
(* The files there are: whole ones, and damaged ones.                        *)

Code(prefix, b) == [as |-> prefix, bytes |-> Coded(b)]

ClearFile(f, notes) == notes # <<>> /\ f \in {Code("AP1P", notes), Pack(notes)}
SealedFile(f, p, notes) ==
    /\ ~(p.length < 8)
    /\ \/ f = Backup(EnvelopeFor(p, notes))
       \/ /\ notes # <<>>
          /\ f \in {Sealed(EnvelopeFor(p, notes)), Binary(FileOf(p, notes)),
                    Code("AP1", FileOf(p, notes))}
WholeOf(f, p, notes) == (p = NoPass /\ ClearFile(f, notes)) \/ SealedFile(f, p, notes)
Whole(f, p) == \E notes \in NoteLists : WholeOf(f, p, notes)

DeadFile(b) == Listed(b) /\ (Readable(b) => Dead(EnvelopeOf(b)))
Unreadable(f) ==
    /\ f = [as |-> f.as, bytes |-> f.bytes]
    /\ \/ f.as = "bytes" /\ DeadFile(f.bytes)
       \/ f.as = "AP1" /\ Listed(f.bytes) /\ (Checked(f.bytes) => DeadFile(BytesCoded(f.bytes)))
       \/ f.as = "AP1P" /\ ~Checked(f.bytes)
       \/ f.as = "sealed-json" /\ Dead(f.bytes[1])

FileSound ==
    \/ file = NoFile /\ ~made.damaged
    \/ Whole(file, made.pass) /\ ~made.damaged
    \/ Unreadable(file) /\ made.damaged

LEMMA FileForms ==
  /\ \A e : Sealed(e).as = "sealed-json" /\ Sealed(e).bytes[1] = e
            /\ Sealed(e) = [as |-> "sealed-json", bytes |-> Sealed(e).bytes]
  /\ \A e : Backup(e).as = "apbackup" /\ Backup(e).bytes[1] = e
  /\ \A n : Pack(n).as = "pack-json" /\ Pack(n).bytes = n
  /\ \A b : Binary(b).as = "bytes" /\ Binary(b).bytes = b
            /\ Binary(b) = [as |-> "bytes", bytes |-> b]
  /\ \A b, x : Code(x, b).as = x /\ Code(x, b).bytes = Coded(b)
               /\ Code(x, b) = [as |-> x, bytes |-> Coded(b)]
  /\ NoFile.as = "none"
BY DEF Sealed, Backup, Pack, Binary, Code, NoFile

-----------------------------------------------------------------------------
(* What the ways of reading give.                                            *)

\* Only files of its form give a way of reading anything.
LEMMA OnlyItsForm ==
  ASSUME NEW q
  PROVE  /\ file.as # "bytes" => FromBinary(q) = {}
         /\ file.as # "AP1" => FromSealedCode(q) = {}
         /\ file.as # "AP1P" => FromPlainCode = {}
         /\ file.as \notin {"sealed-json", "pack-json"} => FromJson(q) = {}
         /\ file.as # "apbackup" => DecryptBackup(q) = {}
<1>1. file.as # "bytes" => FromBinary(q) = {}
  BY DEF FromBinary
<1>2. file.as # "AP1" => FromSealedCode(q) = {}
  <2>1. ASSUME file.as # "AP1" PROVE PrefixedRecoveryCodeToBytes(file, "AP1") = {}
    BY <2>1 DEF PrefixedRecoveryCodeToBytes
  <2> QED
    BY <2>1 DEF FromSealedCode, RecoveryCodeToSealedEnvelope
<1>3. file.as # "AP1P" => FromPlainCode = {}
  <2>1. ASSUME file.as # "AP1P" PROVE PrefixedRecoveryCodeToBytes(file, "AP1P") = {}
    BY <2>1 DEF PrefixedRecoveryCodeToBytes
  <2> QED
    BY <2>1 DEF FromPlainCode
<1>4. file.as \notin {"sealed-json", "pack-json"} => FromJson(q) = {}
  BY DEF FromJson
<1>5. file.as # "apbackup" => DecryptBackup(q) = {}
  BY DEF DecryptBackup
<1> QED
  BY <1>1, <1>2, <1>3, <1>4, <1>5

LEMMA DeadGive ==
  ASSUME Unreadable(file), NEW q
  PROVE  /\ FromBinary(q) = {} /\ FromSealedCode(q) = {} /\ FromPlainCode = {}
         /\ FromJson(q) = {} /\ DecryptBackup(q) = {}
<1>1. \A e : Dead(e) => DecryptSpendNotes(e, q) = {}
  BY DEF Dead, DecryptSpendNotes
<1>2. ASSUME NEW b, DeadFile(b), NEW e \in BinaryToSealedEnvelope(b) PROVE Dead(e)
  BY <1>2, BytesRead DEF DeadFile
<1>3. FromBinary(q) = {}
  <2>1. CASE file.as = "bytes"
    <3>1. DeadFile(file.bytes)
      BY <2>1 DEF Unreadable
    <3>2. \A e \in BinaryToSealedEnvelope(file.bytes) : DecryptSpendNotes(e, q) = {}
      BY <1>1, <1>2, <3>1
    <3> QED
      BY <3>2 DEF FromBinary
  <2> QED
    BY <2>1, OnlyItsForm
<1>4. FromSealedCode(q) = {}
  <2>1. CASE file.as = "AP1"
    <3> DEFINE P == PrefixedRecoveryCodeToBytes(file, "AP1")
    <3>1. Checked(file.bytes) => DeadFile(BytesCoded(file.bytes))
      BY <2>1 DEF Unreadable
    <3>2. P \subseteq {BytesCoded(file.bytes)} /\ (P # {} => Checked(file.bytes))
      BY CodesRead
    <3> HIDE DEF P
    <3>3. \A b \in P : DeadFile(b)
      BY <3>1, <3>2
    <3>4. \A b \in P : \A e \in BinaryToSealedEnvelope(b) : DecryptSpendNotes(e, q) = {}
      BY <1>1, <1>2, <3>3
    <3>5. \A e \in RecoveryCodeToSealedEnvelope(file) : DecryptSpendNotes(e, q) = {}
      BY <3>4 DEF RecoveryCodeToSealedEnvelope, P
    <3> QED
      BY <3>5 DEF FromSealedCode
  <2> QED
    BY <2>1, OnlyItsForm
<1>5. FromPlainCode = {}
  <2>1. CASE file.as = "AP1P"
    <3>1. ~Checked(file.bytes)
      BY <2>1 DEF Unreadable
    <3>2. PrefixedRecoveryCodeToBytes(file, "AP1P") = {}
      BY <3>1, CodesRead
    <3> QED
      BY <3>2 DEF FromPlainCode
  <2> QED
    BY <2>1, OnlyItsForm
<1>6. FromJson(q) = {}
  <2>1. CASE file.as = "sealed-json"
    <3>1. DecryptSpendNotes(file.bytes[1], q) = {}
      BY <1>1, <2>1 DEF Unreadable
    <3> QED
      BY <2>1, <3>1 DEF FromJson
  <2>2. CASE file.as # "sealed-json"
    <3>1. file.as \notin {"sealed-json", "pack-json"}
      BY <2>2 DEF Unreadable
    <3> QED
      BY <3>1, OnlyItsForm
  <2> QED
    BY <2>1, <2>2
<1>7. DecryptBackup(q) = {}
  <2>1. file.as # "apbackup"
    BY DEF Unreadable
  <2> QED
    BY <2>1, OnlyItsForm
<1> QED
  BY <1>3, <1>4, <1>5, <1>6, <1>7

\* What a way of reading for some forms gives of a whole file.
Gives(got, q, p, notes, forms) ==
    /\ got \subseteq {notes}
    /\ got # {} => p \in {NoPass, q}
    /\ p \in {NoPass, q} /\ file.as \in forms => got # {}

LEMMA PassDiffers == ASSUME NEW p, ~(p.length < 8) PROVE p # NoPass
<1>1. NoPass.length = 0
  BY DEF NoPass
<1> QED
  BY <1>1

LEMMA SealedGive ==
  ASSUME NEW p, ~(p.length < 8), NEW notes \in NoteLists, NEW q
  PROVE  /\ Decrypt(EnvelopeFor(p, notes), q) = IF q = p THEN {notes} ELSE {}
         /\ notes # <<>> => DecryptSpendNotes(EnvelopeFor(p, notes), q) = IF q = p THEN {notes} ELSE {}
<1>1. Listed(notes)
  BY NotesAre
<1>2. Decrypt(EnvelopeFor(p, notes), q) = IF q = p THEN {notes} ELSE {}
  BY <1>1, OpensItself
<1> QED
  BY <1>2 DEF DecryptSpendNotes

LEMMA WholeGive ==
  ASSUME NEW p, NEW notes \in NoteLists, WholeOf(file, p, notes), NEW q
  PROVE  /\ Gives(FromBinary(q), q, p, notes, {"bytes"})
         /\ Gives(FromSealedCode(q), q, p, notes, {"AP1"})
         /\ Gives(FromPlainCode, q, p, notes, {"AP1P"})
         /\ Gives(FromJson(q), q, p, notes, {"sealed-json", "pack-json"})
         /\ Gives(DecryptBackup(q), q, p, notes, {"apbackup"})
<1> DEFINE e == EnvelopeFor(p, notes)
           b == FileOf(p, notes)
<1>0. ASSUME ~(p.length < 8) PROVE p # NoPass
  BY <1>0, PassDiffers
<1>1. ASSUME ~(p.length < 8)
      PROVE  /\ Decrypt(e, q) = IF q = p THEN {notes} ELSE {}
             /\ notes # <<>> => DecryptSpendNotes(e, q) = IF q = p THEN {notes} ELSE {}
  BY <1>1, SealedGive
<1>2. Listed(b) /\ BinaryToSealedEnvelope(b) = {e}
  BY FileRead, BytesRead
<1>3. Len(b) >= 1
  BY FileIs DEF FileFacts
<1>4. Listed(notes) /\ (notes # <<>> => Len(notes) >= 1)
  BY NotesAre
<1> HIDE DEF e, b
<1>5. CASE p = NoPass /\ notes # <<>> /\ file = Code("AP1P", notes)
  <2>1. file.as = "AP1P" /\ file = [as |-> "AP1P", bytes |-> file.bytes] /\ file.bytes = Coded(notes)
    BY <1>5, FileForms
  <2>2. Checked(file.bytes) /\ BytesCoded(file.bytes) = notes
    BY <1>4, <1>5, <2>1, CodeRead
  <2>3. PrefixedRecoveryCodeToBytes(file, "AP1P") = {notes}
    BY <2>1, <2>2, CodesRead
  <2>4. IsText(notes)
    <3>1. ASSUME NEW i \in DOMAIN notes PROVE "secrets" \in DOMAIN notes[i]
      <4>1. i \in 1 .. Len(notes)
        BY <1>4, ListedFacts
      <4>2. PICK s \in Notes : notes[i] = Note(s)
        BY <4>1, NotesAre
      <4> QED
        BY <4>2, NoteItem
    <3> QED
      BY <1>5, <3>1 DEF IsText
  <2>5. FromPlainCode = {notes}
    BY <2>3, <2>4 DEF FromPlainCode
  <2> QED
    BY <1>5, <2>1, <2>5, OnlyItsForm DEF Gives
<1>6. CASE p = NoPass /\ notes # <<>> /\ file = Pack(notes)
  <2>1. file.as = "pack-json" /\ file.bytes = notes
    BY <1>6, FileForms
  <2>2. FromJson(q) = {notes}
    BY <2>1 DEF FromJson
  <2> QED
    BY <1>6, <2>1, <2>2, OnlyItsForm DEF Gives
<1>7. CASE ~(p.length < 8) /\ file = Backup(e)
  <2>1. file.as = "apbackup" /\ file.bytes[1] = e
    BY <1>7, FileForms
  <2>2. DecryptBackup(q) = IF q = p THEN {notes} ELSE {}
    BY <1>1, <1>7, <2>1 DEF DecryptBackup
  <2> QED
    BY <1>0, <1>7, <2>1, <2>2, OnlyItsForm DEF Gives
<1>8. CASE ~(p.length < 8) /\ notes # <<>> /\ file = Sealed(e)
  <2>1. file.as = "sealed-json" /\ file.bytes[1] = e
    BY <1>8, FileForms
  <2>2. FromJson(q) = IF q = p THEN {notes} ELSE {}
    BY <1>1, <1>8, <2>1 DEF FromJson
  <2> QED
    BY <1>0, <1>8, <2>1, <2>2, OnlyItsForm DEF Gives
<1>9. CASE ~(p.length < 8) /\ notes # <<>> /\ file = Binary(b)
  <2>1. file.as = "bytes" /\ file.bytes = b
    BY <1>9, FileForms
  <2>2. FromBinary(q) = DecryptSpendNotes(e, q)
    BY <1>2, <2>1 DEF FromBinary
  <2>3. FromBinary(q) = IF q = p THEN {notes} ELSE {}
    BY <1>1, <1>9, <2>2
  <2> QED
    BY <1>0, <1>9, <2>1, <2>3, OnlyItsForm DEF Gives
<1>10. CASE ~(p.length < 8) /\ notes # <<>> /\ file = Code("AP1", b)
  <2>1. file.as = "AP1" /\ file = [as |-> "AP1", bytes |-> file.bytes] /\ file.bytes = Coded(b)
    BY <1>10, FileForms
  <2>2. Checked(file.bytes) /\ BytesCoded(file.bytes) = b
    BY <1>2, <1>3, <2>1, CodeRead
  <2>3. PrefixedRecoveryCodeToBytes(file, "AP1") = {b}
    BY <2>1, <2>2, CodesRead
  <2>4. RecoveryCodeToSealedEnvelope(file) = {e}
    BY <1>2, <2>3 DEF RecoveryCodeToSealedEnvelope
  <2>5. FromSealedCode(q) = DecryptSpendNotes(e, q)
    BY <2>4 DEF FromSealedCode
  <2>6. FromSealedCode(q) = IF q = p THEN {notes} ELSE {}
    BY <1>1, <1>10, <2>5
  <2> QED
    BY <1>0, <1>10, <2>1, <2>6, OnlyItsForm DEF Gives
<1> QED
  BY <1>5, <1>6, <1>7, <1>8, <1>9, <1>10 DEF WholeOf, ClearFile, SealedFile, e, b

-----------------------------------------------------------------------------
(* Merging adds the notes that are new, each once.                           *)

Note1(old, x) == IF Contains(old, x) THEN old ELSE Append(old, x)

LEMMA OneMore ==
  ASSUME NEW old \in NoteLists, NEW s \in Notes PROVE Note1(old, Note(s)) \in NoteLists
<1> DEFINE T == {Note(n) : n \in Notes}
           x == Note(s)
           new == Append(old, x)
<1>1. old \in Seq(T) /\ \A i, j \in DOMAIN old : old[i] = old[j] => i = j
  BY DEF NoteLists
<1>2. x \in T
  OBVIOUS
<1>3. NoteLists = {z \in Seq(T) : \A i, j \in DOMAIN z : z[i] = z[j] => i = j}
  BY DEF NoteLists
<1> HIDE DEF T, x
<1>4. CASE ~Contains(old, x)
  <2>1. /\ new \in Seq(T) /\ Len(new) = Len(old) + 1 /\ Len(old) \in Nat
        /\ \A i \in 1 .. Len(old) : new[i] = old[i]
        /\ new[Len(old) + 1] = x
    BY <1>1, <1>2
  <2>2. \A i \in 1 .. Len(old) : old[i] # x
    BY <1>4 DEF Contains
  <2>3. DOMAIN old = 1 .. Len(old) /\ DOMAIN new = 1 .. Len(old) + 1
    BY <1>1, <2>1
  <2> HIDE DEF new
  <2>4. \A i, j \in 1 .. Len(old) + 1 : new[i] = new[j] => i = j
    <3> TAKE i, j \in 1 .. Len(old) + 1
    <3>1. (i \in 1 .. Len(old) \/ i = Len(old) + 1) /\ (j \in 1 .. Len(old) \/ j = Len(old) + 1)
      BY <2>1
    <3> QED
      BY <1>1, <2>1, <2>2, <2>3, <3>1
  <2> QED
    BY <1>3, <1>4, <2>1, <2>3, <2>4 DEF Note1, new, x
<1>5. CASE Contains(old, x)
  BY <1>5 DEF Note1, x
<1> QED
  BY <1>4, <1>5

LEMMA MergedListed ==
  ASSUME NEW old \in NoteLists, NEW new \in NoteLists PROVE Merged(old, new) \in NoteLists
<1> DEFINE N == Len(new)
           G == [x \in NoteLists \X Nat |-> IF x[2] \in 1 .. N THEN Note1(x[1], new[x[2]]) ELSE x[1]]
           Fits(f) == f = [i \in 0 .. N |-> IF i = 0 THEN old
                                            ELSE IF Contains(f[i - 1], new[i]) THEN f[i - 1]
                                                 ELSE Append(f[i - 1], new[i])]
           F == CHOOSE f : Fits(f)
<1>1. N \in Nat /\ \A i \in 1 .. N : \E s \in Notes : new[i] = Note(s)
  BY NotesAre
<1>2. G \in [NoteLists \X Nat -> NoteLists]
  <2>1. ASSUME NEW l \in NoteLists, NEW i \in 1 .. N PROVE Note1(l, new[i]) \in NoteLists
    BY <1>1, OneMore
  <2> QED
    BY <2>1
<1>3. N \in Nat
  BY <1>1
<1>4. \E f \in [0 .. N -> NoteLists] : Unfolds(f, N, old, G)
  <2> HIDE DEF G, N
  <2> QED
    BY <1>2, <1>3, RecursionUpto
<1>5. PICK f \in [0 .. N -> NoteLists] : Unfolds(f, N, old, G)
  BY <1>4
<1>6. ASSUME NEW i \in 1 .. N PROVE G[<<f[i - 1], i>>] = Note1(f[i - 1], new[i])
  <2>1. i - 1 \in 0 .. N /\ i \in Nat
    BY <1>3
  <2>2. f[i - 1] \in NoteLists
    BY <1>5, <2>1
  <2>3. <<f[i - 1], i>> \in NoteLists \X Nat /\ <<f[i - 1], i>>[1] = f[i - 1] /\ <<f[i - 1], i>>[2] = i
    BY <2>1, <2>2
  <2> QED
    BY <2>3
<1>7. Fits(f)
  <2> DEFINE h == [i \in 0 .. N |-> IF i = 0 THEN old
                                     ELSE IF Contains(f[i - 1], new[i]) THEN f[i - 1]
                                          ELSE Append(f[i - 1], new[i])]
  <2>1. f = [i \in 0 .. N |-> IF i = 0 THEN old ELSE G[<<f[i - 1], i>>]]
    BY <1>5 DEF Unfolds
  <2> HIDE DEF G
  <2>2. ASSUME NEW i \in 0 .. N
        PROVE  f[i] = IF i = 0 THEN old
                      ELSE IF Contains(f[i - 1], new[i]) THEN f[i - 1] ELSE Append(f[i - 1], new[i])
    <3>1. i = 0 \/ i \in 1 .. N
      BY <1>3
    <3>2. f[i] = IF i = 0 THEN old ELSE G[<<f[i - 1], i>>]
      BY <2>1
    <3> QED
      BY <1>6, <3>1, <3>2 DEF Note1
  <2>3. f = h
    BY <1>5, <2>2
  <2> QED
    BY <2>3
<1>8. Fits(F)
  <2> HIDE DEF Fits
  <2> QED
    BY <1>7
<1> HIDE DEF F
<1>9. \A i \in 0 .. N : F[i] = IF i = 0 THEN old
                               ELSE IF Contains(F[i - 1], new[i]) THEN F[i - 1]
                                    ELSE Append(F[i - 1], new[i])
  <2> DEFINE h == [i \in 0 .. N |-> IF i = 0 THEN old
                                     ELSE IF Contains(F[i - 1], new[i]) THEN F[i - 1]
                                          ELSE Append(F[i - 1], new[i])]
  <2>1. \A i \in 0 .. N : h[i] = IF i = 0 THEN old
                                 ELSE IF Contains(F[i - 1], new[i]) THEN F[i - 1]
                                      ELSE Append(F[i - 1], new[i])
    OBVIOUS
  <2>2. F = h
    BY <1>8
  <2> QED
    BY ONLY <2>1, <2>2
<1>10. \A i \in 0 .. N : F[i] \in NoteLists
  <2> DEFINE S == {i \in Nat : i \in 0 .. N => F[i] \in NoteLists}
  <2>1. 0 \in S
    BY <1>3, <1>9
  <2>2. ASSUME NEW i \in S PROVE i + 1 \in S
    <3>1. i \in Nat /\ (i \in 0 .. N => F[i] \in NoteLists)
      BY <2>2
    <3>2. ASSUME i + 1 \in 0 .. N PROVE F[i + 1] \in NoteLists
      <4>1. i \in 0 .. N /\ (i + 1) - 1 = i /\ i + 1 # 0 /\ i + 1 \in 1 .. N
        BY <1>3, <3>1, <3>2
      <4>2. F[i + 1] = IF Contains(F[i], new[i + 1]) THEN F[i] ELSE Append(F[i], new[i + 1])
        BY <1>9, <3>2, <4>1
      <4>3. F[i] \in NoteLists
        BY <3>1, <4>1
      <4>4. PICK s \in Notes : new[i + 1] = Note(s)
        BY <1>1, <4>1
      <4>5. F[i + 1] = Note1(F[i], Note(s))
        BY <4>2, <4>4 DEF Note1
      <4> QED
        BY <4>3, <4>5, OneMore
    <3> QED
      BY <3>1, <3>2
  <2> HIDE DEF S
  <2>3. \A i \in Nat : i \in S
    BY <2>1, <2>2, SetInduction
  <2> QED
    BY <1>3, <2>3 DEF S
<1>11. N \in 0 .. N
  BY <1>3
<1>12. F[N] \in NoteLists
  BY <1>10, <1>11
<1>13. Merged(old, new) = F[N]
  BY DEF Merged, F
<1> QED
  BY <1>12, <1>13

-----------------------------------------------------------------------------
(* The invariant.                                                            *)

StoreSound == store \in [Clients -> NoteLists]

ReadingSound ==
    /\ reading.result = "read" => /\ ~made.damaged
                                  /\ made.pass \in {NoPass, reading.pass}
    /\ /\ reading.result = "refused" /\ ~made.damaged
       /\ reading.pass # NoPass /\ made.pass \in {NoPass, reading.pass}
       => file.as \notin Forms[reading.command]

MadeSound == made = [pass |-> made.pass, damaged |-> made.damaged] /\ made.damaged \in BOOLEAN

BackupInv == StoreSound /\ MadeSound /\ FileSound /\ ReadingSound

LEMMA NothingListed == <<>> \in NoteLists
BY DEF NoteLists

LEMMA Unread == reading = NotRead => ReadingSound
<1>1. NotRead.result = "none"
  BY DEF NotRead
<1> QED
  BY <1>1 DEF ReadingSound

LEMMA InitSound == BackupInit => BackupInv
<1> SUFFICES ASSUME BackupInit PROVE BackupInv
  OBVIOUS
<1>1. StoreSound
  BY NoteBackupAssumption DEF BackupInit, StoreSound
<1>2. MadeSound
  BY DEF BackupInit, MadeSound
<1>3. FileSound
  BY DEF BackupInit, FileSound
<1>4. ReadingSound
  BY Unread DEF BackupInit
<1> QED
  BY <1>1, <1>2, <1>3, <1>4 DEF BackupInv

-----------------------------------------------------------------------------
(* Writing.                                                                  *)

LEMMA WriteSound ==
  ASSUME NEW f, NEW pass, Whole(f, pass), Write(f, pass)
  PROVE  MadeSound' /\ FileSound' /\ ReadingSound'
<1>1. /\ file' = f /\ made' = [pass |-> pass, damaged |-> FALSE] /\ reading' = NotRead
  BY DEF Write
<1>2. made'.pass = pass /\ made'.damaged = FALSE
  BY <1>1
<1>3. MadeSound'
  BY <1>1, <1>2 DEF MadeSound
<1>4. FileSound'
  <2>1. Whole(file', made'.pass)
    BY <1>1, <1>2
  <2>2. Whole(file, made.pass)'
    BY <2>1 DEF Whole
  <2> QED
    BY <1>2, <2>2 DEF FileSound
<1>5. ReadingSound'
  <2>1. reading'.result = "none"
    BY <1>1 DEF NotRead
  <2> QED
    BY <2>1 DEF ReadingSound
<1> QED
  BY <1>3, <1>4, <1>5

\* The files a client may write of the notes it has.
LEMMA SealedWhole ==
  ASSUME NEW notes \in NoteLists, NEW pass, NEW e \in EncryptSpendNotes(pass, notes)
  PROVE  /\ Whole(Backup(e), pass)
         /\ notes # <<>> =>
              /\ Whole(Sealed(e), pass) /\ Whole(SealedEnvelopeToRecoveryCode(e), pass)
              /\ Whole(Binary(SealedEnvelopeToBinary(e)), pass)
<1>1. ~(pass.length < 8) /\ e = EnvelopeFor(pass, notes)
  BY Sealing
<1>2. SealedEnvelopeToBinary(e) = FileOf(pass, notes)
  BY <1>1 DEF FileOf
<1>3. SealedEnvelopeToRecoveryCode(e) = Code("AP1", FileOf(pass, notes))
  BY <1>2 DEF SealedEnvelopeToRecoveryCode, BytesToPrefixedRecoveryCode, Code, Coded, Check
<1>4. SealedFile(Backup(e), pass, notes)
  BY <1>1 DEF SealedFile
<1>5. ASSUME notes # <<>>
      PROVE  /\ SealedFile(Sealed(e), pass, notes)
             /\ SealedFile(SealedEnvelopeToRecoveryCode(e), pass, notes)
             /\ SealedFile(Binary(SealedEnvelopeToBinary(e)), pass, notes)
  BY <1>1, <1>2, <1>3, <1>5 DEF SealedFile
<1> QED
  BY <1>4, <1>5 DEF Whole, WholeOf

LEMMA ClearWhole ==
  ASSUME NEW notes \in NoteLists, notes # <<>>,
         NEW f \in {BytesToPrefixedRecoveryCode(notes, "AP1P"), Pack(notes)}
  PROVE  Whole(f, NoPass)
<1>1. BytesToPrefixedRecoveryCode(notes, "AP1P") = Code("AP1P", notes)
  BY DEF BytesToPrefixedRecoveryCode, Code, Coded, Check
<1>2. ClearFile(f, notes)
  BY <1>1 DEF ClearFile
<1> QED
  BY <1>2 DEF Whole, WholeOf

LEMMA StoresList == ASSUME StoreSound, NEW c \in Clients PROVE store[c] \in NoteLists
BY DEF StoreSound

LEMMA Owners == ASSUME NEW who PROVE StoreOf(who) \in Clients
BY DEF StoreOf, Clients

LEMMA StoreStays == StoreSound /\ UNCHANGED store => StoreSound'
BY DEF StoreSound

LEMMA CreateSound ==
  ASSUME BackupInv, NEW pass, CreateSealedBackupArtifacts(pass) PROVE BackupInv'
<1> DEFINE notes == store["web"]
<1>1. notes \in NoteLists
  BY StoresList DEF BackupInv, Clients
<1>2. notes # <<>> /\ UNCHANGED store
  BY DEF CreateSealedBackupArtifacts
<1>3. StoreSound'
  BY <1>2, StoreStays DEF BackupInv
<1>4. MadeSound' /\ FileSound' /\ ReadingSound'
  <2>1. CASE pass = NoPass
    <3>1. PICK f \in {BytesToPrefixedRecoveryCode(notes, "AP1P"), Pack(notes)} : Write(f, pass)
      BY <2>1 DEF CreateSealedBackupArtifacts
    <3>2. PICK n : n = notes
      OBVIOUS
    <3>3. Whole(f, NoPass)
      BY <1>1, <1>2, ClearWhole
    <3> QED
      BY <2>1, <3>1, <3>3, WriteSound
  <2>2. CASE pass # NoPass
    <3>1. PICK e \in EncryptSpendNotes(pass, notes) :
            \E f \in {SealedEnvelopeToRecoveryCode(e), Binary(SealedEnvelopeToBinary(e))} : Write(f, pass)
      BY <2>2 DEF CreateSealedBackupArtifacts
    <3>2. PICK f \in {SealedEnvelopeToRecoveryCode(e), Binary(SealedEnvelopeToBinary(e))} : Write(f, pass)
      BY <3>1
    <3>3. Whole(f, pass)
      BY <1>1, <1>2, SealedWhole
    <3> QED
      BY <3>2, <3>3, WriteSound
  <2> QED
    BY <2>1, <2>2
<1> QED
  BY <1>3, <1>4 DEF BackupInv

LEMMA NoteExportSound ==
  ASSUME BackupInv, NEW who, NEW flags, NEW typed, NoteExport(who, flags, typed) PROVE BackupInv'
<1> DEFINE notes == store["cli"]
<1>1. notes \in NoteLists
  BY StoresList DEF BackupInv, Clients
<1>2. notes # <<>> /\ UNCHANGED store
  BY DEF NoteExport
<1>3. PICK pass \in Reaching(who, flags, typed) : \E e \in EncryptSpendNotes(pass, notes) :
        \E f \in {Sealed(e), SealedEnvelopeToRecoveryCode(e), Binary(SealedEnvelopeToBinary(e))} :
          Write(f, pass)
  BY DEF NoteExport
<1>4. PICK e \in EncryptSpendNotes(pass, notes) :
        \E f \in {Sealed(e), SealedEnvelopeToRecoveryCode(e), Binary(SealedEnvelopeToBinary(e))} :
          Write(f, pass)
  BY <1>3
<1>5. PICK f \in {Sealed(e), SealedEnvelopeToRecoveryCode(e), Binary(SealedEnvelopeToBinary(e))} :
        Write(f, pass)
  BY <1>4
<1>6. Whole(f, pass)
  BY <1>1, <1>2, SealedWhole
<1>7. MadeSound' /\ FileSound' /\ ReadingSound'
  BY <1>5, <1>6, WriteSound
<1>8. StoreSound'
  BY <1>2, StoreStays DEF BackupInv
<1> QED
  BY <1>7, <1>8 DEF BackupInv

LEMMA LockVaultSound ==
  ASSUME BackupInv, NEW typed, LockVault(typed) PROVE BackupInv'
<1> DEFINE notes == store["web"]
<1>1. notes \in NoteLists
  BY StoresList DEF BackupInv, Clients
<1>2. store' = [store EXCEPT !["web"] = <<>>]
  BY DEF LockVault
<1>3. PICK e \in EncryptSpendNotes(typed, notes) : Write(Backup(e), typed)
  BY DEF LockVault
<1>4. Whole(Backup(e), typed)
  BY <1>1, SealedWhole
<1>5. MadeSound' /\ FileSound' /\ ReadingSound'
  BY <1>3, <1>4, WriteSound
<1>6. StoreSound'
  BY <1>2, NothingListed DEF BackupInv, StoreSound
<1> QED
  BY <1>5, <1>6 DEF BackupInv

LEMMA BackupExportSound ==
  ASSUME BackupInv, NEW who, NEW flags, NEW typed, BackupExport(who, flags, typed) PROVE BackupInv'
<1> DEFINE notes == store[StoreOf(who)]
<1>1. notes \in NoteLists
  BY StoresList, Owners DEF BackupInv
<1>2. UNCHANGED store
  BY DEF BackupExport
<1>3. PICK pass \in Reaching(who, flags, typed) :
        \E e \in EncryptSpendNotes(pass, notes) : Write(Backup(e), pass)
  BY DEF BackupExport
<1>4. PICK e \in EncryptSpendNotes(pass, notes) : Write(Backup(e), pass)
  BY <1>3
<1>5. Whole(Backup(e), pass)
  BY <1>1, SealedWhole
<1>6. MadeSound' /\ FileSound' /\ ReadingSound'
  BY <1>4, <1>5, WriteSound
<1>7. StoreSound'
  BY <1>2, StoreStays DEF BackupInv
<1> QED
  BY <1>6, <1>7 DEF BackupInv

-----------------------------------------------------------------------------
(* Recoding and damage.                                                      *)

LEMMA Recoded ==
  ASSUME NEW damaged, NEW pass, NEW f, NEW g,
         \/ Whole(f, pass) /\ ~damaged
         \/ Unreadable(f) /\ damaged,
         \/ f.as = "sealed-json" /\ g = Binary(PySealedEnvelopeToBinary(f.bytes[1]))
         \/ \E b \in PyRecoveryCodeToBinary(f) : g = Binary(b)
         \/ f.as = "bytes" /\ g = PyBinaryToRecoveryCode(f.bytes)
         \/ f.as = "bytes" /\ \E e \in PyBinaryToSealedEnvelope(f.bytes) : g = Sealed(e)
  PROVE  (Whole(g, pass) /\ ~damaged) \/ (Unreadable(g) /\ damaged)
<1>1. \A b : PyBinaryToRecoveryCode(b) = Code("AP1", b)
  BY DEF PyBinaryToRecoveryCode, Code, Coded, Check
<1>2. CASE Whole(f, pass) /\ ~damaged
  <2>1. PICK notes \in NoteLists : WholeOf(f, pass, notes)
    BY <1>2 DEF Whole
  <2> DEFINE e0 == EnvelopeFor(pass, notes)
             b0 == FileOf(pass, notes)
  <2>2. SealedEnvelopeToBinary(e0) = b0
    BY DEF FileOf
  <2>3. Listed(b0) /\ PyBinaryToSealedEnvelope(b0) = {e0}
    BY FileRead, BytesRead
  <2>4. Len(b0) >= 1
    BY FileIs DEF FileFacts
  <2> HIDE DEF e0, b0
  <2>5. ASSUME notes # <<>>, SealedFile(f, pass, notes),
               g \in {Sealed(e0), Binary(b0), Code("AP1", b0)}
        PROVE  Whole(g, pass)
    <3>1. SealedFile(g, pass, notes)
      BY <2>5 DEF SealedFile, e0, b0
    <3> QED
      BY <3>1 DEF Whole, WholeOf
  <2>6. CASE f.as = "sealed-json" /\ g = Binary(PySealedEnvelopeToBinary(f.bytes[1]))
    <3>1. notes # <<>> /\ SealedFile(f, pass, notes) /\ f = Sealed(e0)
      BY <2>1, <2>6, FileForms DEF WholeOf, ClearFile, SealedFile, e0
    <3>2. g = Binary(b0)
      BY <2>2, <2>6, <3>1, FileForms, Writers
    <3> QED
      BY <1>2, <2>5, <3>1, <3>2
  <2>7. CASE \E b \in PyRecoveryCodeToBinary(f) : g = Binary(b)
    <3>1. PICK b \in PyRecoveryCodeToBinary(f) : g = Binary(b)
      BY <2>7
    <3>2. f.as = "AP1"
      BY <3>1 DEF PyRecoveryCodeToBinary
    <3>3. notes # <<>> /\ SealedFile(f, pass, notes) /\ f = Code("AP1", b0)
      BY <2>1, <3>2, FileForms DEF WholeOf, ClearFile, SealedFile, b0
    <3>4. f.bytes = Coded(b0) /\ Listed(f.bytes) /\ BytesCoded(f.bytes) = b0
      BY <2>3, <2>4, <3>3, FileForms, CodeRead
    <3>5. b = b0
      BY <3>1, <3>4, PyCodesRead
    <3> QED
      BY <1>2, <2>5, <3>1, <3>3, <3>5
  <2>8. CASE f.as = "bytes" /\ g = PyBinaryToRecoveryCode(f.bytes)
    <3>1. notes # <<>> /\ SealedFile(f, pass, notes) /\ f = Binary(b0)
      BY <2>1, <2>8, FileForms DEF WholeOf, ClearFile, SealedFile, b0
    <3>2. g = Code("AP1", b0)
      BY <1>1, <2>8, <3>1, FileForms
    <3> QED
      BY <1>2, <2>5, <3>1, <3>2
  <2>9. CASE f.as = "bytes" /\ \E e \in PyBinaryToSealedEnvelope(f.bytes) : g = Sealed(e)
    <3>1. notes # <<>> /\ SealedFile(f, pass, notes) /\ f = Binary(b0)
      BY <2>1, <2>9, FileForms DEF WholeOf, ClearFile, SealedFile, b0
    <3>2. g = Sealed(e0)
      BY <2>3, <2>9, <3>1, FileForms
    <3> QED
      BY <1>2, <2>5, <3>1, <3>2
  <2> QED
    BY <2>6, <2>7, <2>8, <2>9
<1>3. CASE Unreadable(f) /\ damaged
  <2>1. ASSUME NEW b, DeadFile(b), g = Binary(b) PROVE Unreadable(g)
    BY <2>1, FileForms DEF Unreadable
  <2>2. CASE f.as = "sealed-json" /\ g = Binary(PySealedEnvelopeToBinary(f.bytes[1]))
    <3> DEFINE e == f.bytes[1]
               b == SealedEnvelopeToBinary(e)
    <3>1. Dead(e)
      BY <1>3, <2>2 DEF Unreadable
    <3>2. g = Binary(b)
      BY <2>2, Writers
    <3> HIDE DEF e
    <3>3. Written(e) /\ Parts(e)
      BY <3>1 DEF Dead, Written
    <3>4. Laid(b, e)
      BY <3>3, LaidOut
    <3> HIDE DEF b
    <3>5. Listed(b) /\ EnvelopeOf(b) = e
      BY <3>3, <3>4, FieldsRead DEF ReadBack, Laid
    <3>6. DeadFile(b)
      BY <3>1, <3>5 DEF DeadFile
    <3> QED
      BY <1>3, <2>1, <3>2, <3>6
  <2>3. CASE \E b \in PyRecoveryCodeToBinary(f) : g = Binary(b)
    <3>1. PICK b \in PyRecoveryCodeToBinary(f) : g = Binary(b)
      BY <2>3
    <3>2. f.as = "AP1"
      BY <3>1 DEF PyRecoveryCodeToBinary
    <3>3. Listed(f.bytes) /\ (Checked(f.bytes) => DeadFile(BytesCoded(f.bytes)))
      BY <1>3, <3>2 DEF Unreadable
    <3>4. b = BytesCoded(f.bytes) /\ Checked(f.bytes)
      BY <3>1, <3>3, PyCodesRead
    <3> QED
      BY <1>3, <2>1, <3>1, <3>3, <3>4
  <2>4. CASE f.as = "bytes" /\ g = PyBinaryToRecoveryCode(f.bytes)
    <3> DEFINE b == f.bytes
               c == Coded(b)
    <3>1. DeadFile(b)
      BY <1>3, <2>4 DEF Unreadable
    <3>2. g = Code("AP1", b)
      BY <1>1, <2>4
    <3> HIDE DEF b
    <3>3. Listed(b) /\ Len(b) \in Nat
      BY <3>1, ListedFacts DEF DeadFile
    <3>4. Listed(Check(b)) /\ Len(Check(b)) = 4
      BY CheckFacts
    <3>5. LongAs(c, b, Check(b))
      BY <3>3, <3>4, JoinedLong DEF Coded
    <3>6. Listed(c) /\ Len(c) = Len(b) + 4
      BY <3>4, <3>5 DEF LongAs
    <3>7. Checked(c) => Len(b) >= 1
      <4> HIDE DEF c
      <4> QED
        BY <3>3, <3>6 DEF Checked
    <3>8. Len(b) >= 1 => BytesCoded(c) = b
      BY <3>3, CodeRead
    <3>9. Checked(c) => DeadFile(BytesCoded(c))
      BY <3>1, <3>7, <3>8
    <3> HIDE DEF c
    <3>10. g = [as |-> "AP1", bytes |-> c] /\ g.as = "AP1" /\ g.bytes = c
      BY <3>2, FileForms DEF c
    <3>11. Unreadable(g)
      BY <3>6, <3>9, <3>10 DEF Unreadable
    <3> QED
      BY <1>3, <3>11
  <2>5. CASE f.as = "bytes" /\ \E e \in PyBinaryToSealedEnvelope(f.bytes) : g = Sealed(e)
    <3>1. PICK e \in PyBinaryToSealedEnvelope(f.bytes) : g = Sealed(e)
      BY <2>5
    <3>2. DeadFile(f.bytes)
      BY <1>3, <2>5 DEF Unreadable
    <3>3. Dead(e)
      BY <3>1, <3>2, BytesRead DEF DeadFile
    <3>4. Unreadable(g)
      BY <3>1, <3>3, FileForms DEF Unreadable
    <3> QED
      BY <1>3, <3>4
  <2> QED
    BY <2>2, <2>3, <2>4, <2>5
<1> QED
  BY <1>2, <1>3

LEMMA RecodeSound == ASSUME BackupInv, PyRecode PROVE BackupInv'
<1> DEFINE f == file
           g == file'
<1>1. UNCHANGED <<store, made>> /\ reading' = NotRead
  BY DEF PyRecode
<1>2. \/ f.as = "sealed-json" /\ g = Binary(PySealedEnvelopeToBinary(f.bytes[1]))
      \/ \E b \in PyRecoveryCodeToBinary(f) : g = Binary(b)
      \/ f.as = "bytes" /\ g = PyBinaryToRecoveryCode(f.bytes)
      \/ f.as = "bytes" /\ \E e \in PyBinaryToSealedEnvelope(f.bytes) : g = Sealed(e)
  BY DEF PyRecode
<1>3. f # NoFile
  BY <1>2, FileForms DEF PyRecoveryCodeToBinary
<1>4. \/ Whole(f, made.pass) /\ ~made.damaged
      \/ Unreadable(f) /\ made.damaged
  BY <1>3 DEF BackupInv, FileSound
<1>5. PICK pass, damaged : pass = made.pass /\ damaged = made.damaged
  OBVIOUS
<1>6. PICK x : x = f
  OBVIOUS
<1>7. PICK y : y = g
  OBVIOUS
<1>8. (Whole(y, pass) /\ ~damaged) \/ (Unreadable(y) /\ damaged)
  BY <1>2, <1>4, <1>5, <1>6, <1>7, Recoded
<1>9. file' = y /\ made'.pass = pass /\ made'.damaged = damaged
  BY <1>1, <1>5, <1>7
<1>10. FileSound'
  BY <1>8, <1>9 DEF FileSound, Whole, Unreadable
<1>11. StoreSound' /\ MadeSound'
  BY <1>1 DEF BackupInv, StoreSound, MadeSound
<1>12. ReadingSound'
  <2>1. reading'.result = "none"
    BY <1>1 DEF NotRead
  <2> QED
    BY <2>1 DEF ReadingSound
<1> QED
  BY <1>10, <1>11, <1>12 DEF BackupInv

LEMMA Damages ==
  ASSUME NEW f, NEW pass, Whole(f, pass), f.as \in {"bytes", "AP1", "AP1P"}, NEW i \in DOMAIN f.bytes,
         NEW t \in {[f.bytes EXCEPT ![i] = Flip(@)], RemoveAt(f.bytes, i), SubSeq(f.bytes, 1, i - 1)},
         NEW g, g = [f EXCEPT !.bytes = t]
  PROVE  Unreadable(g)
<1>1. PICK notes \in NoteLists : WholeOf(f, pass, notes)
  BY DEF Whole
<1> DEFINE b == FileOf(pass, notes)
           s == f.bytes
<1>2. Listed(b)
  BY FileRead
<1>2a. Len(b) >= 1
  BY FileIs DEF FileFacts
<1>3. \/ f = Binary(b)
      \/ f = Code("AP1", b)
      \/ f = Code("AP1P", notes) /\ notes # <<>>
  BY <1>1, FileForms DEF WholeOf, ClearFile, SealedFile
<1>4. Listed(notes) /\ (notes # <<>> => Len(notes) >= 1)
  BY NotesAre
<1> HIDE DEF b
<1>5. Listed(s)
  BY <1>2, <1>2a, <1>3, <1>4, FileForms, CodeRead
<1>6. Damaged(t, s)
  <2> HIDE DEF s
  <2>1. i \in DOMAIN s /\ t \in {[s EXCEPT ![i] = Flip(@)], RemoveAt(s, i), SubSeq(s, 1, i - 1)}
    BY DEF s
  <2> QED
    BY <1>5, <2>1, DamagedIs
<1>7. Listed(t)
  BY <1>6 DEF Damaged
<1>8. f = [as |-> f.as, bytes |-> f.bytes]
  BY <1>3, FileForms
<1> HIDE DEF s
<1>9. g = [as |-> f.as, bytes |-> t]
  BY <1>8
<1>10. g.as = f.as /\ g.bytes = t /\ g = [as |-> g.as, bytes |-> g.bytes]
  BY <1>9
<1>11. CASE f = Binary(b)
  <2>1. s = b /\ f.as = "bytes"
    BY <1>11, FileForms DEF s
  <2>2. DeadFile(t)
    BY <1>6, <1>7, <2>1, DamagedDead DEF DeadFile, b
  <2> QED
    BY <1>10, <2>1, <2>2 DEF Unreadable
<1>12. CASE f = Code("AP1", b)
  <2>1. s = Coded(b) /\ f.as = "AP1"
    BY <1>12, FileForms DEF s
  <2>2. ~Checked(t)
    BY <1>6, <2>1, SealedCodeDamaged DEF b
  <2> QED
    BY <1>7, <1>10, <2>1, <2>2 DEF Unreadable
<1>13. CASE f = Code("AP1P", notes) /\ notes # <<>>
  <2>1. s = Coded(notes) /\ f.as = "AP1P"
    BY <1>13, FileForms DEF s
  <2>2. ~Checked(t)
    BY <1>6, <1>13, <2>1, PlainCodeDamaged
  <2> QED
    BY <1>10, <2>1, <2>2 DEF Unreadable
<1> QED
  BY <1>3, <1>11, <1>12, <1>13

LEMMA DamageSound == ASSUME BackupInv, Damage PROVE BackupInv'
<1>1. file.as \in {"bytes", "AP1", "AP1P"} /\ ~made.damaged /\ reading' = NotRead /\ UNCHANGED store
  BY DEF Damage
<1>2. made' = [made EXCEPT !.damaged = TRUE]
  BY DEF Damage
<1>3. PICK i \in DOMAIN file.bytes :
        \E t \in {[file.bytes EXCEPT ![i] = Flip(@)], RemoveAt(file.bytes, i),
                  SubSeq(file.bytes, 1, i - 1)} : file' = [file EXCEPT !.bytes = t]
  BY DEF Damage
<1>4. PICK t \in {[file.bytes EXCEPT ![i] = Flip(@)], RemoveAt(file.bytes, i),
                  SubSeq(file.bytes, 1, i - 1)} : file' = [file EXCEPT !.bytes = t]
  BY <1>3
<1>5. PICK f, pass : f = file /\ pass = made.pass
  OBVIOUS
<1>6. Whole(f, pass)
  BY <1>1, <1>5, FileForms DEF BackupInv, FileSound
<1>7. PICK g : g = file'
  OBVIOUS
<1>8. Unreadable(g)
  <2>1. g = [f EXCEPT !.bytes = t] /\ i \in DOMAIN f.bytes /\ f.as \in {"bytes", "AP1", "AP1P"}
        /\ t \in {[f.bytes EXCEPT ![i] = Flip(@)], RemoveAt(f.bytes, i), SubSeq(f.bytes, 1, i - 1)}
    BY <1>1, <1>4, <1>5, <1>7
  <2> QED
    BY <1>6, <2>1, Damages
<1>9. made'.damaged = TRUE /\ MadeSound'
  BY <1>2 DEF BackupInv, MadeSound
<1>10. FileSound'
  BY <1>7, <1>8, <1>9 DEF FileSound, Unreadable
<1>11. StoreSound'
  BY <1>1 DEF BackupInv, StoreSound
<1>12. ReadingSound'
  <2>1. reading'.result = "none"
    BY <1>1 DEF NotRead
  <2> QED
    BY <2>1 DEF ReadingSound
<1> QED
  BY <1>9, <1>10, <1>11, <1>12 DEF BackupInv

-----------------------------------------------------------------------------
(* Reading.                                                                  *)

\* What a command finds in the file there is under a passphrase.
Finds(got, q, command) ==
    /\ \E notes \in NoteLists : got \subseteq {notes}
    /\ got # {} => ~made.damaged /\ made.pass \in {NoPass, q}
    /\ ~made.damaged /\ made.pass \in {NoPass, q} /\ file.as \in Forms[command] => got # {}

LEMMA Commands ==
  ASSUME BackupInv, file # NoFile, NEW q
  PROVE  /\ Finds(ParseImportedNoteFile(q), q, "file") /\ Finds(ParseRecoveryCode(q), q, "code")
         /\ Finds(NotesInFile(q), q, "import") /\ Finds(FromSealedCode(q), q, "recovery")
         /\ Finds(DecryptBackup(q), q, "backup")
<1> DEFINE B == FromBinary(q)
           C == FromSealedCode(q)
           P == FromPlainCode
           J == FromJson(q)
           D == DecryptBackup(q)
<1>1. /\ ParseImportedNoteFile(q) = B \cup C \cup P \cup J /\ ParseRecoveryCode(q) = P \cup C
      /\ NotesInFile(q) = B \cup C \cup J
  BY DEF ParseImportedNoteFile, ParseRecoveryCode, NotesInFile
<1>2. /\ Forms["file"] = {"bytes", "AP1", "AP1P", "sealed-json", "pack-json"}
      /\ Forms["code"] = {"AP1", "AP1P"}
      /\ Forms["import"] = {"bytes", "AP1", "sealed-json", "pack-json"}
      /\ Forms["recovery"] = {"AP1"} /\ Forms["backup"] = {"apbackup"}
  BY DEF Forms
<1>3. CASE Unreadable(file) /\ made.damaged
  <2>1. B = {} /\ C = {} /\ P = {} /\ J = {} /\ D = {}
    BY <1>3, DeadGive
  <2> QED
    BY <1>1, <1>3, <2>1, NothingListed DEF Finds
<1>4. CASE Whole(file, made.pass) /\ ~made.damaged
  <2>1. PICK notes \in NoteLists : WholeOf(file, made.pass, notes)
    BY <1>4 DEF Whole
  <2>2. PICK p : p = made.pass
    OBVIOUS
  <2>3. /\ Gives(B, q, p, notes, {"bytes"}) /\ Gives(C, q, p, notes, {"AP1"})
        /\ Gives(P, q, p, notes, {"AP1P"}) /\ Gives(J, q, p, notes, {"sealed-json", "pack-json"})
        /\ Gives(D, q, p, notes, {"apbackup"})
    BY <2>1, <2>2, WholeGive
  <2> HIDE DEF B, C, P, J, D
  <2>4. ASSUME NEW got, got \subseteq {notes}, got # {} => p \in {NoPass, q}, NEW command,
               p \in {NoPass, q} /\ file.as \in Forms[command] => got # {}
        PROVE  Finds(got, q, command)
    BY <1>4, <2>2, <2>4 DEF Finds
  <2>5. Finds(B \cup C \cup P \cup J, q, "file")
    <3>1. B \cup C \cup P \cup J \subseteq {notes}
      BY <2>3 DEF Gives
    <3>2. B \cup C \cup P \cup J # {} => p \in {NoPass, q}
      BY <2>3 DEF Gives
    <3>3. p \in {NoPass, q} /\ file.as \in Forms["file"] => B \cup C \cup P \cup J # {}
      BY <1>2, <2>3 DEF Gives
    <3> QED
      BY <1>4, <2>2, <3>1, <3>2, <3>3 DEF Finds
  <2>6. Finds(P \cup C, q, "code")
    <3>1. P \cup C \subseteq {notes} /\ (P \cup C # {} => p \in {NoPass, q})
      BY <2>3 DEF Gives
    <3>2. p \in {NoPass, q} /\ file.as \in Forms["code"] => P \cup C # {}
      BY <1>2, <2>3 DEF Gives
    <3> QED
      BY <1>4, <2>2, <3>1, <3>2 DEF Finds
  <2>7. Finds(B \cup C \cup J, q, "import")
    <3>1. B \cup C \cup J \subseteq {notes} /\ (B \cup C \cup J # {} => p \in {NoPass, q})
      BY <2>3 DEF Gives
    <3>2. p \in {NoPass, q} /\ file.as \in Forms["import"] => B \cup C \cup J # {}
      BY <1>2, <2>3 DEF Gives
    <3> QED
      BY <1>4, <2>2, <3>1, <3>2 DEF Finds
  <2>8. Finds(C, q, "recovery") /\ Finds(D, q, "backup")
    BY <1>2, <1>4, <2>2, <2>3 DEF Gives, Finds
  <2> QED
    BY <1>1, <2>5, <2>6, <2>7, <2>8 DEF B, C, P, J, D
<1> QED
  BY <1>3, <1>4 DEF BackupInv, FileSound

LEMMA ReadSound ==
  ASSUME BackupInv, NEW command, NEW who, NEW flags, NEW passes, NEW got, NEW replaces \in BOOLEAN,
         Read(command, who, flags, passes, got, replaces),
         \/ passes = {} /\ got = {}
         \/ \E q : passes = {q} /\ Finds(got, q, command)
  PROVE  BackupInv'
<1>1. /\ UNCHANGED <<file, made>>
      /\ reading' = [command |-> command, who |-> who, flags |-> flags,
                     pass |-> IF passes = {} THEN NoPass ELSE CHOOSE p \in passes : TRUE,
                     result |-> IF got = {} THEN "refused" ELSE "read"]
      /\ store' = IF got = {} THEN store
                  ELSE LET new == CHOOSE notes \in got : TRUE
                       IN  [store EXCEPT ![StoreOf(who)] = IF replaces THEN new ELSE Merged(@, new)]
  BY DEF Read
<1>2. StoreSound'
  <2>1. CASE got = {}
    <3>1. UNCHANGED store
      BY <1>1, <2>1
    <3> QED
      BY <3>1, StoreStays DEF BackupInv
  <2>2. CASE got # {}
    <3>1. PICK notes \in NoteLists : got \subseteq {notes}
      BY <2>2 DEF Finds
    <3>2. got = {notes}
      BY <2>2, <3>1
    <3>3. (CHOOSE n \in got : TRUE) = notes
      BY <3>2
    <3> DEFINE c == StoreOf(who)
               old == store[c]
               now == IF replaces THEN notes ELSE Merged(old, notes)
    <3>4. c \in Clients
      BY Owners
    <3>5. store' = [store EXCEPT ![c] = IF replaces THEN notes ELSE Merged(@, notes)]
      BY <1>1, <2>2, <3>3
    <3> HIDE DEF c
    <3>6. store \in [Clients -> NoteLists]
      BY DEF BackupInv, StoreSound
    <3>7. store' = [store EXCEPT ![c] = now]
      BY <3>5
    <3>8. old \in NoteLists
      BY <3>4, <3>6
    <3>9. now \in NoteLists
      BY <3>1, <3>8, MergedListed
    <3> HIDE DEF now
    <3> QED
      BY <3>4, <3>6, <3>7, <3>9 DEF StoreSound
  <2> QED
    BY <2>1, <2>2
<1>3. MadeSound' /\ FileSound'
  BY <1>1 DEF BackupInv, MadeSound, FileSound, Whole, Unreadable
<1>4. /\ reading'.command = command
      /\ reading'.pass = (IF passes = {} THEN NoPass ELSE CHOOSE p \in passes : TRUE)
      /\ reading'.result = IF got = {} THEN "refused" ELSE "read"
  BY <1>1
<1>5. ReadingSound'
  <2>1. CASE passes = {} /\ got = {}
    BY <1>4, <2>1 DEF ReadingSound
  <2>2. CASE \E q : passes = {q} /\ Finds(got, q, command)
    <3>1. PICK q : passes = {q} /\ Finds(got, q, command)
      BY <2>2
    <3>2. reading'.pass = q
      <4>1. (CHOOSE p \in {q} : TRUE) = q
        OBVIOUS
      <4> QED
        BY <1>4, <3>1, <4>1
    <3>3. made' = made /\ file' = file
      BY <1>1
    <3>4. CASE got = {}
      <4>1. reading'.result = "refused"
        BY <1>4, <3>4
      <4> QED
        BY <1>4, <3>1, <3>2, <3>3, <3>4, <4>1 DEF Finds, ReadingSound
    <3>5. CASE got # {}
      <4>1. reading'.result = "read"
        BY <1>4, <3>5
      <4> QED
        BY <1>4, <3>1, <3>2, <3>3, <3>5, <4>1 DEF Finds, ReadingSound
    <3> QED
      BY <3>4, <3>5
  <2> QED
    BY <2>1, <2>2
<1> QED
  BY <1>2, <1>3, <1>5 DEF BackupInv

\* At most one passphrase reaches a command of a client without a window.
LEMMA AtMostOne ==
  ASSUME NEW who \in {"cli", "python"}, NEW flags, NEW typed
  PROVE  Reaching(who, flags, typed) = {} \/ \E q : Reaching(who, flags, typed) = {q}
<1>1. ASSUME NEW f, NEW p
      PROVE  /\ ResolveBackupPassphrase(f, p) = {} \/ \E q : ResolveBackupPassphrase(f, p) = {q}
             /\ BackupPassphrase(f, p) = {} \/ \E q : BackupPassphrase(f, p) = {q}
  <2> DEFINE x == IF f = {} THEN env ELSE p
  <2>1. {x} \ {NoPass} = {} \/ {x} \ {NoPass} = {x}
    OBVIOUS
  <2> QED
    BY <2>1 DEF ResolveBackupPassphrase, BackupPassphrase
<1>2. RunJsCli(flags, typed) = {} \/ \E q : RunJsCli(flags, typed) = {q}
  <2>1. CASE BackupPassphrase(flags, typed) = {}
    BY <2>1 DEF RunJsCli
  <2>2. CASE \E p : BackupPassphrase(flags, typed) = {p}
    <3>1. PICK p : BackupPassphrase(flags, typed) = {p}
      BY <2>2
    <3>2. RunJsCli(flags, typed) = ResolveBackupPassphrase({"typed"}, p)
      BY <3>1 DEF RunJsCli
    <3> QED
      BY <1>1, <3>2
  <2> QED
    BY <1>1, <2>1, <2>2
<1> QED
  BY <1>1, <1>2 DEF Reaching

-----------------------------------------------------------------------------
(* Every step keeps the invariant.                                           *)

LEMMA WebReadSound ==
  ASSUME BackupInv, NEW pass, WebImport(pass) \/ WebImportCode(pass) \/ WebImportBackup(pass)
  PROVE  BackupInv'
<1>1. file # NoFile
  BY DEF WebImport, WebImportCode, WebImportBackup, Read
<1>2. CASE WebImport(pass)
  <2>1. PICK got : got = ParseImportedNoteFile(pass)
    OBVIOUS
  <2>2. Read("file", "web", {}, {pass}, got, FALSE)
    BY <1>2, <2>1 DEF WebImport
  <2>3. Finds(got, pass, "file")
    BY <1>1, <2>1, Commands
  <2> QED
    BY <2>2, <2>3, ReadSound
<1>3. CASE WebImportCode(pass)
  <2>1. PICK got : got = ParseRecoveryCode(pass)
    OBVIOUS
  <2>2. Read("code", "web", {}, {pass}, got, FALSE)
    BY <1>3, <2>1 DEF WebImportCode
  <2>3. Finds(got, pass, "code")
    BY <1>1, <2>1, Commands
  <2> QED
    BY <2>2, <2>3, ReadSound
<1>4. CASE WebImportBackup(pass)
  <2>1. PICK got : got = DecryptBackup(pass)
    OBVIOUS
  <2>2. Read("backup", "web", {}, {pass}, got, TRUE)
    BY <1>4, <2>1 DEF WebImportBackup
  <2>3. Finds(got, pass, "backup")
    BY <1>1, <2>1, Commands
  <2> QED
    BY <2>2, <2>3, ReadSound
<1> QED
  BY <1>2, <1>3, <1>4

\* A command reads with the one passphrase that reaches it, or with none.
LEMMA CommandReadSound ==
  ASSUME BackupInv, NEW command, NEW who \in {"cli", "python"}, NEW flags, NEW typed,
         NEW replaces \in BOOLEAN, NEW passes, passes = Reaching(who, flags, typed), NEW got,
         passes = {} => got = {}, \A q : passes = {q} => Finds(got, q, command),
         Read(command, who, flags, passes, got, replaces)
  PROVE  BackupInv'
<1>1. \/ passes = {} /\ got = {}
     \/ \E q : passes = {q} /\ Finds(got, q, command)
  BY AtMostOne
<1> QED
  BY <1>1, ReadSound

LEMMA NoteImportSound ==
  ASSUME BackupInv, NEW who \in {"cli", "python"}, NEW flags, NEW typed, NoteImport(who, flags, typed)
  PROVE  BackupInv'
<1> DEFINE how == "import"
<1>1. PICK passes : passes = Reaching(who, flags, typed)
  OBVIOUS
<1>2. PICK merge \in BOOLEAN :
        Read(how, who, flags, passes, UNION {NotesInFile(p) : p \in passes}, ~merge)
  BY <1>1 DEF NoteImport
<1>3. PICK got : got = UNION {NotesInFile(p) : p \in passes}
  OBVIOUS
<1>0. how = "import"
  BY DEF how
<1> HIDE DEF how
<1>4. file # NoFile
  BY <1>2 DEF Read
<1>5. passes = {} => got = {}
  BY <1>3
<1>6. ASSUME NEW q, passes = {q} PROVE Finds(got, q, how)
  <2>1. got = NotesInFile(q)
    BY <1>3, <1>6
  <2> QED
    BY <1>0, <1>4, <2>1, Commands
<1>7. PICK replaces \in BOOLEAN : Read(how, who, flags, passes, got, replaces)
  BY <1>2, <1>3
<1>8. \A q : passes = {q} => Finds(got, q, how)
  BY <1>6
<1> QED
  BY <1>1, <1>5, <1>7, <1>8, CommandReadSound

LEMMA NoteImportRecoverySound ==
  ASSUME BackupInv, NEW who \in {"cli", "python"}, NEW flags, NEW typed,
         NoteImportRecovery(who, flags, typed)
  PROVE  BackupInv'
<1> DEFINE how == "recovery"
<1>1. PICK passes : passes = Reaching(who, flags, typed)
  OBVIOUS
<1>2. PICK merge \in BOOLEAN :
        Read(how, who, flags, passes, UNION {FromSealedCode(p) : p \in passes}, ~merge)
  BY <1>1 DEF NoteImportRecovery
<1>3. PICK got : got = UNION {FromSealedCode(p) : p \in passes}
  OBVIOUS
<1>0. how = "recovery"
  BY DEF how
<1> HIDE DEF how
<1>4. file # NoFile
  BY <1>2 DEF Read
<1>5. passes = {} => got = {}
  BY <1>3
<1>6. ASSUME NEW q, passes = {q} PROVE Finds(got, q, how)
  <2>1. got = FromSealedCode(q)
    BY <1>3, <1>6
  <2> QED
    BY <1>0, <1>4, <2>1, Commands
<1>7. PICK replaces \in BOOLEAN : Read(how, who, flags, passes, got, replaces)
  BY <1>2, <1>3
<1>8. \A q : passes = {q} => Finds(got, q, how)
  BY <1>6
<1> QED
  BY <1>1, <1>5, <1>7, <1>8, CommandReadSound

LEMMA BackupImportSound ==
  ASSUME BackupInv, NEW who \in {"cli", "python"}, NEW flags, NEW typed, BackupImport(who, flags, typed)
  PROVE  BackupInv'
<1> DEFINE how == "backup"
<1>1. PICK passes : passes = Reaching(who, flags, typed)
  OBVIOUS
<1>2. PICK merge \in BOOLEAN :
        Read(how, who, flags, passes, UNION {DecryptBackup(p) : p \in passes}, ~merge)
  BY <1>1 DEF BackupImport
<1>3. PICK got : got = UNION {DecryptBackup(p) : p \in passes}
  OBVIOUS
<1>0. how = "backup"
  BY DEF how
<1> HIDE DEF how
<1>4. file # NoFile
  BY <1>2 DEF Read
<1>5. passes = {} => got = {}
  BY <1>3
<1>6. ASSUME NEW q, passes = {q} PROVE Finds(got, q, how)
  <2>1. got = DecryptBackup(q)
    BY <1>3, <1>6
  <2> QED
    BY <1>0, <1>4, <2>1, Commands
<1>7. PICK replaces \in BOOLEAN : Read(how, who, flags, passes, got, replaces)
  BY <1>2, <1>3
<1>8. \A q : passes = {q} => Finds(got, q, how)
  BY <1>6
<1> QED
  BY <1>1, <1>5, <1>7, <1>8, CommandReadSound

LEMMA NextSound == BackupInv /\ [BackupNext]_backupVars => BackupInv'
<1> SUFFICES ASSUME BackupInv, [BackupNext]_backupVars PROVE BackupInv'
  OBVIOUS
<1>1. CASE UNCHANGED backupVars
  BY <1>1 DEF backupVars, BackupInv, StoreSound, MadeSound, ReadingSound, FileSound, Whole, Unreadable
<1>2. CASE BackupNext
  <2>1. ASSUME NEW typed, LockVault(typed) PROVE BackupInv'
    BY <2>1, LockVaultSound
  <2>2. ASSUME NEW typed, WebImport(typed) \/ WebImportCode(typed) \/ WebImportBackup(typed)
        PROVE  BackupInv'
    BY <2>2, WebReadSound
  <2>3. ASSUME NEW who, NEW flags, NEW typed, BackupExport(who, flags, typed) PROVE BackupInv'
    BY <2>3, BackupExportSound
  <2>4. ASSUME NEW who, NEW flags, NEW typed, NoteExport(who, flags, typed) PROVE BackupInv'
    BY <2>4, NoteExportSound
  <2>5. ASSUME NEW who \in {"cli", "python"}, NEW flags, NEW typed,
               \/ NoteImport(who, flags, typed) \/ NoteImportRecovery(who, flags, typed)
               \/ BackupImport(who, flags, typed)
        PROVE  BackupInv'
    BY <2>5, NoteImportSound, NoteImportRecoverySound, BackupImportSound
  <2>6. ASSUME NEW pass, CreateSealedBackupArtifacts(pass) PROVE BackupInv'
    BY <2>6, CreateSound
  <2>7. CASE PyRecode
    BY <2>7, RecodeSound
  <2>8. CASE Damage
    BY <2>8, DamageSound
  <2> QED
    BY <1>2, <2>1, <2>2, <2>3, <2>4, <2>5, <2>6, <2>7, <2>8 DEF BackupNext
<1> QED
  BY <1>1, <1>2

LEMMA SoundSurvives == BackupInv => NotesSurvive
<1> SUFFICES ASSUME BackupInv PROVE NotesSurvive
  OBVIOUS
<1>1. ASSUME NEW c \in Clients, NEW i \in DOMAIN store[c] PROVE store[c][i].secrets \in Notes
  <2>1. PICK notes \in NoteLists : notes = store[c]
    BY StoresList DEF BackupInv
  <2>2. i \in 1 .. Len(notes)
    BY <2>1, NotesAre, ListedFacts
  <2>3. PICK s \in Notes : notes[i] = Note(s)
    BY <2>1, <2>2, NotesAre
  <2> QED
    BY <2>1, <2>3, NoteItem
<1> QED
  BY <1>1 DEF NotesSurvive, BackupInv, ReadingSound

(***************************************************************************)
(* In every behaviour no note changes on its way through the clients, and  *)
(* a file is read by those who have its passphrase and a command for its   *)
(* form, by them always, and never when it was damaged.                    *)
(***************************************************************************)
THEOREM NotesDoSurvive == BackupSpec => []NotesSurvive
<1>1. BackupSpec => []BackupInv
  BY InitSound, NextSound, PTL DEF BackupSpec
<1> QED
  BY <1>1, SoundSurvives, PTL
=============================================================================
