--------------------------- MODULE NumberTheorems ---------------------------
(***************************************************************************)
(* Facts that the proofs share: a least natural number, induction over a   *)
(* set of numbers and recursion by a function (none has an operator for a  *)
(* parameter, so that the provers can use them), the entries of a          *)
(* concatenation, facts about % that a ring buffer rests on (positions     *)
(* less than one turn apart have different slots, positions one turn apart *)
(* share one), and sums of a function over a finite set.                   *)
(***************************************************************************)
EXTENDS Integers, Sequences, FiniteSets, FiniteSetTheorems, TLAPS, WellFoundedInduction

(* A set of naturals that is not empty has a least element. *)
LEMMA LeastNatural ==
  ASSUME NEW T, T \subseteq Nat, T # {}
  PROVE  \E x \in T : \A y \in T : x <= y
<1> DEFINE R == OpToRel(<, Nat)
<1>1. \E x \in T : \A y \in T : ~(<<y, x>> \in R)
  BY NatLessThanWellFounded, WFMin
<1>2. PICK x \in T : \A y \in T : ~(<<y, x>> \in R)
  BY <1>1
<1>3. \A y \in T : y < x => <<y, x>> \in R
  BY DEF OpToRel
<1>4. x \in Nat /\ \A y \in T : y \in Nat
  OBVIOUS
<1>. HIDE DEF R
<1>5. ASSUME NEW y \in T PROVE x <= y
  <2>1. ~(y < x)
    BY <1>2, <1>3
  <2>. QED
    BY <2>1, <1>4
<1>. QED
  BY <1>5

(* A set that holds 0, and n + 1 with n, holds every natural number. *)
LEMMA SetInduction ==
  ASSUME NEW S, 0 \in S, \A n \in Nat : n \in S => n + 1 \in S
  PROVE  Nat \subseteq S
<1> SUFFICES ASSUME Nat \ S # {} PROVE FALSE
  OBVIOUS
<1>1. PICK x \in Nat \ S : \A y \in Nat \ S : x <= y
  BY LeastNatural
<1>2. x # 0 /\ x - 1 \in Nat /\ x - 1 \in S
  BY <1>1
<1>. QED
  BY <1>1, <1>2

(* There is a function that starts with b and goes on by G: what a recursive   *)
(* definition over the naturals chooses exists.                                *)
Iterates(f, X, b, G) ==
    f \in [Nat -> X] /\ f[0] = b /\ \A n \in Nat : f[n + 1] = G[<<f[n], n + 1>>]

(* A function defined by recursion on the naturals exists. *)
LEMMA RecursionOnNat ==
  ASSUME NEW X, NEW b \in X, NEW G \in [X \X Nat -> X]
  PROVE  \E f : Iterates(f, X, b, G)
<1> DEFINE Upto(n, g) == /\ g \in [0 .. n -> X] /\ g[0] = b
                         /\ \A m \in 1 .. n : g[m] = G[<<g[m - 1], m>>]
<1>1. \A n \in Nat : \E g : Upto(n, g)
  <2> DEFINE S == {n \in Nat : \E g : Upto(n, g)}
  <2>1. 0 \in S
    <3> DEFINE g == [m \in 0 .. 0 |-> b]
    <3>1. Upto(0, g)
      OBVIOUS
    <3>. QED
      BY <3>1
  <2>2. ASSUME NEW n \in Nat, n \in S PROVE n + 1 \in S
    <3>1. PICK g : Upto(n, g)
      BY <2>2
    <3> DEFINE h == [m \in 0 .. n + 1 |-> IF m = n + 1 THEN G[<<g[n], n + 1>>] ELSE g[m]]
    <3>2. g[n] \in X /\ G[<<g[n], n + 1>>] \in X
      BY <3>1
    <3>3. \A m \in 0 .. n : h[m] = g[m]
      OBVIOUS
    <3>4. h \in [0 .. n + 1 -> X] /\ h[0] = b /\ h[n + 1] = G[<<h[n], n + 1>>]
      <4>1. h[n + 1] = G[<<g[n], n + 1>>] /\ h[n] = g[n] /\ h[0] = g[0]
        OBVIOUS
      <4>2. \A m \in 0 .. n + 1 : h[m] \in X
        BY <3>1, <3>2
      <4>3. h = [m \in 0 .. n + 1 |-> h[m]]
        OBVIOUS
      <4> HIDE DEF h
      <4>. QED
        BY <3>1, <4>1, <4>2, <4>3
    <3>5. ASSUME NEW m \in 1 .. n + 1 PROVE h[m] = G[<<h[m - 1], m>>]
      <4>1. CASE m = n + 1
        BY <4>1, <3>4
      <4>2. CASE m # n + 1
        <5>1. m \in 1 .. n /\ m - 1 \in 0 .. n /\ m \in 0 .. n
          BY <4>2
        <5>2. h[m] = g[m] /\ h[m - 1] = g[m - 1]
          BY <5>1, <3>3
        <5>. QED
          BY <5>1, <5>2, <3>1
      <4>. QED
        BY <4>1, <4>2
    <3> HIDE DEF h
    <3>6. Upto(n + 1, h)
      BY <3>4, <3>5
    <3>. QED
      BY <3>6
  <2> HIDE DEF S
  <2>3. Nat \subseteq S
    BY <2>1, <2>2, SetInduction
  <2>. QED
    BY <2>3 DEF S
<1>2. ASSUME NEW n \in Nat, NEW k \in 0 .. n, NEW g, NEW h, Upto(n, g), Upto(k, h)
      PROVE  \A m \in 0 .. k : g[m] = h[m]
  <2> DEFINE S == {m \in Nat : m \in 0 .. k => g[m] = h[m]}
  <2>1. 0 \in S
    BY <1>2
  <2>2. ASSUME NEW m \in Nat, m \in S PROVE m + 1 \in S
    <3>1. SUFFICES ASSUME m + 1 \in 0 .. k PROVE g[m + 1] = h[m + 1]
      OBVIOUS
    <3>2. m + 1 \in 1 .. k /\ m + 1 \in 1 .. n /\ m \in 0 .. k /\ (m + 1) - 1 = m
      BY <3>1
    <3>3. g[m] = h[m]
      BY <2>2, <3>2
    <3>. QED
      BY <1>2, <3>2, <3>3
  <2> HIDE DEF S
  <2>3. Nat \subseteq S
    BY <2>1, <2>2, SetInduction
  <2>. QED
    BY <2>3 DEF S
<1> DEFINE part == [n \in Nat |-> CHOOSE g : Upto(n, g)]
           f == [n \in Nat |-> part[n][n]]
<1>3. \A n \in Nat : Upto(n, part[n])
  BY <1>1
<1> HIDE DEF part
<1>4. \A n \in Nat : f[n] \in X
  BY <1>3
<1>5. f[0] = b
  BY <1>3
<1>6. ASSUME NEW n \in Nat PROVE f[n + 1] = G[<<f[n], n + 1>>]
  <2>1. Upto(n, part[n]) /\ Upto(n + 1, part[n + 1])
    BY <1>3
  <2>2. part[n + 1][n] = part[n][n]
    <3>1. n \in 0 .. n + 1 /\ n \in 0 .. n
      OBVIOUS
    <3> HIDE DEF Upto
    <3>. QED
      BY <2>1, <3>1, <1>2
  <2>3. n + 1 \in 1 .. n + 1 /\ (n + 1) - 1 = n
    OBVIOUS
  <2>4. part[n + 1][n + 1] = G[<<part[n + 1][n], n + 1>>]
    BY <2>1, <2>3
  <2>. QED
    BY <2>2, <2>4
<1>7. f \in [Nat -> X]
  BY <1>4
<1> HIDE DEF f
<1>. QED
  BY <1>5, <1>6, <1>7 DEF Iterates

(* A function that starts with b and goes on by G up to a bound, as a recursive *)
(* definition of it says.                                                       *)
Unfolds(f, N, b, G) == f = [n \in 0 .. N |-> IF n = 0 THEN b ELSE G[<<f[n - 1], n>>]]

(* Such a function exists.                                                      *)
LEMMA RecursionUpto ==
  ASSUME NEW N \in Nat, NEW X, NEW b \in X, NEW G \in [X \X Nat -> X]
  PROVE  \E f \in [0 .. N -> X] : Unfolds(f, N, b, G)
<1>1. PICK g : Iterates(g, X, b, G)
  BY RecursionOnNat
<1> DEFINE f == [n \in 0 .. N |-> g[n]]
           h == [n \in 0 .. N |-> IF n = 0 THEN b ELSE G[<<f[n - 1], n>>]]
<1>2. ASSUME NEW n \in 0 .. N PROVE g[n] = (IF n = 0 THEN b ELSE G[<<f[n - 1], n>>]) /\ g[n] \in X
  <2>1. g[n] \in X /\ g[0] = b
    BY <1>1 DEF Iterates
  <2>2. CASE n # 0
    <3>1. n - 1 \in Nat /\ n - 1 \in 0 .. N /\ (n - 1) + 1 = n
      BY <2>2
    <3>2. g[n] = G[<<g[n - 1], n>>]
      BY <3>1, <1>1 DEF Iterates
    <3> QED
      BY <2>1, <2>2, <3>1, <3>2
  <2> QED
    BY <2>1, <2>2
<1>3. f = h
  BY <1>2
<1>4. f \in [0 .. N -> X]
  BY <1>2
<1>5. Unfolds(f, N, b, G)
  <2> HIDE DEF f
  <2> QED
    BY <1>3 DEF Unfolds
<1> HIDE DEF f
<1> QED
  BY <1>4, <1>5

(* Concatenation, by its entries.                                               *)
LEMMA ConcatIs ==
  ASSUME NEW S, NEW s \in Seq(S), NEW t \in Seq(S)
  PROVE  /\ s \o t \in Seq(S) /\ Len(s \o t) = Len(s) + Len(t)
         /\ \A i \in 1 .. Len(s) : (s \o t)[i] = s[i]
         /\ \A i \in 1 .. Len(t) : (s \o t)[Len(s) + i] = t[i]
OBVIOUS

(* A remainder is a slot. *)
LEMMA ModRange ==
  ASSUME NEW N \in Nat \ {0}, NEW a \in Nat
  PROVE  a % N \in 0 .. N - 1
OBVIOUS

(* A position is a number of whole turns and a slot. *)
LEMMA ModParts ==
  ASSUME NEW N \in Nat \ {0}, NEW a \in Nat
  PROVE  a \div N \in Int /\ a % N \in 0 .. N - 1 /\ a = N * (a \div N) + (a % N)
OBVIOUS

(* Two positions less than one turn apart never share a slot. *)
LEMMA ModApart ==
  ASSUME NEW N \in Nat \ {0}, NEW a \in Nat, NEW b \in Nat, a < b, b - a < N
  PROVE  a % N # b % N
<1> SUFFICES ASSUME a % N = b % N PROVE FALSE
  OBVIOUS
<1> DEFINE p == a \div N
<1> DEFINE q == b \div N
<1>1. p \in Int /\ q \in Int
  OBVIOUS
<1>2. a = (N * p) + (a % N) /\ b = (N * q) + (b % N)
  OBVIOUS
<1> HIDE DEF p, q
<1>3. b - a = N * (q - p)
  BY <1>1, <1>2
<1>4. q - p >= 1
  BY <1>1, <1>3
<1>5. N * (q - p) >= N
  BY <1>1, <1>4
<1> QED
  BY <1>3, <1>5

(* A position and the one a turn before it share a slot. *)
LEMMA ModTurn ==
  ASSUME NEW N \in Nat \ {0}, NEW a \in Nat, a >= N
  PROVE  (a - N) % N = a % N
<1> DEFINE p == (a - N) \div N
<1> DEFINE q == a \div N
<1> DEFINE r == (a - N) % N
<1> DEFINE s == a % N
<1>1. p \in Int /\ q \in Int
  OBVIOUS
<1>2. a - N = (N * p) + r /\ a = (N * q) + s
  OBVIOUS
<1>3. r \in 0 .. N - 1 /\ s \in 0 .. N - 1
  OBVIOUS
<1> HIDE DEF p, q, r, s
<1>4. s - r = N * (p + 1 - q)
  BY <1>1, <1>2, <1>3
<1>5. p + 1 - q = 0
  <2>1. CASE p + 1 - q >= 1
    <3>1. N * (p + 1 - q) >= N
      BY <1>1, <2>1
    <3> QED
      BY <1>3, <1>4, <3>1
  <2>2. CASE p + 1 - q <= 0 - 1
    <3>1. N * (p + 1 - q) <= 0 - N
      BY <1>1, <2>2
    <3> QED
      BY <1>3, <1>4, <3>1
  <2> QED
    BY <1>1, <2>1, <2>2
<1>6. s = r
  BY <1>3, <1>4, <1>5
<1> QED
  BY <1>6 DEF r, s

(* Adding whole turns to a position leaves its slot. *)
LEMMA ModTurns ==
  ASSUME NEW N \in Nat \ {0}, NEW a \in Int, NEW n \in Int
  PROVE  (a + N * n) % N = a % N
<1> DEFINE b == a + N * n
<1> DEFINE p == a \div N
<1> DEFINE q == b \div N
<1> DEFINE r == a % N
<1> DEFINE s == b % N
<1>0. N * n \in Int /\ b \in Int
  OBVIOUS
<1>1. p \in Int /\ q \in Int
  BY <1>0
<1>2. a = (N * p) + r /\ b = (N * q) + s
  BY <1>0
<1>3. r \in 0 .. N - 1 /\ s \in 0 .. N - 1
  BY <1>0
<1>b. b = a + N * n
  OBVIOUS
<1> HIDE DEF b, p, q, r, s
<1>4. s - r = N * (p + n - q)
  BY <1>1, <1>2, <1>3, <1>b
<1>5. p + n - q = 0
  <2>1. CASE p + n - q >= 1
    <3>1. N * (p + n - q) >= N
      BY <1>1, <2>1
    <3> QED
      BY <1>3, <1>4, <3>1
  <2>2. CASE p + n - q <= 0 - 1
    <3>1. N * (p + n - q) <= 0 - N
      BY <1>1, <2>2
    <3> QED
      BY <1>3, <1>4, <3>1
  <2> QED
    BY <1>1, <2>1, <2>2
<1>6. s = r
  BY <1>3, <1>4, <1>5
<1> QED
  BY <1>6 DEF b, r, s

(* Reducing a position first does not change the slot a distance further on. *)
LEMMA ModAhead ==
  ASSUME NEW N \in Nat \ {0}, NEW a \in Nat, NEW b \in Nat
  PROVE  ((a % N) + b) % N = (a + b) % N
<1> DEFINE p == a \div N
<1> DEFINE x == (a % N) + b
<1>1. p \in Int /\ x \in Int
  OBVIOUS
<1>2. a + b = x + N * p
  OBVIOUS
<1> HIDE DEF p, x
<1>3. (x + N * p) % N = x % N
  BY <1>1, ModTurns
<1> QED
  BY <1>2, <1>3 DEF x

-----------------------------------------------------------------------------
(* Sums over finite sets. *)

(* A family of subsets of a finite set is complete when it has the empty set    *)
(* and every set whose subsets with one element less it has.                    *)
LEMMA ShrinkInduction ==
  ASSUME NEW S, IsFiniteSet(S), NEW P, {} \in P,
         \A T \in SUBSET S : T # {} /\ (\A x \in T : T \ {x} \in P) => T \in P
  PROVE  \A T \in SUBSET S : T \in P
<1> DEFINE N == {n \in Nat : \A T \in SUBSET S : Cardinality(T) = n => T \in P}
<1>1. \A T \in SUBSET S : IsFiniteSet(T) /\ Cardinality(T) \in Nat
  BY FS_Subset, FS_CardinalityType
<1>2. 0 \in N
  BY <1>1, FS_EmptySet
<1>3. ASSUME NEW n \in Nat, n \in N PROVE n + 1 \in N
  <2> SUFFICES ASSUME NEW T \in SUBSET S, Cardinality(T) = n + 1 PROVE T \in P
    BY <1>3
  <2>0. Cardinality({}) = 0
    BY FS_EmptySet
  <2>1. T # {}
    <3> SUFFICES ASSUME T = {} PROVE FALSE
      OBVIOUS
    <3>1. Cardinality(T) = Cardinality({})
      OBVIOUS
    <3> QED
      BY <2>0, <3>1
  <2>2. ASSUME NEW x \in T PROVE T \ {x} \in P
    BY <1>1, <1>3, FS_RemoveElement
  <2> QED
    BY <2>1, <2>2
<1>4. Nat \subseteq N
  <2> HIDE DEF N
  <2> QED
    BY <1>2, <1>3, SetInduction
<1> QED
  BY <1>1, <1>4

(* The sums of a function over the subsets of a set, one element at a time.     *)
AnyOf(T) == CHOOSE x \in T : TRUE
Sums(g, f, S) ==
  g = [T \in SUBSET S |-> IF T = {} THEN 0 ELSE f[AnyOf(T)] + g[T \ {AnyOf(T)}]]

(* A set that is not empty has the element it picks. *)
LEMMA AnyOfIn ==
  ASSUME NEW T, T # {} PROVE AnyOf(T) \in T
BY DEF AnyOf

(* What the sums are at one set. *)
LEMMA SumsAt ==
  ASSUME NEW g, NEW f, NEW S, Sums(g, f, S), NEW T \in SUBSET S
  PROVE  g[T] = IF T = {} THEN 0 ELSE f[AnyOf(T)] + g[T \ {AnyOf(T)}]
<1> DEFINE h == [R \in SUBSET S |-> IF R = {} THEN 0 ELSE f[AnyOf(R)] + g[R \ {AnyOf(R)}]]
<1>1. g = h
  BY DEF Sums
<1>2. g[T] = h[T]
  BY ONLY <1>1
<1> QED
  BY <1>2

(* The sums over the subsets of a finite set exist. *)
LEMMA SumsExist ==
  ASSUME NEW S, IsFiniteSet(S), NEW f
  PROVE  \E g : Sums(g, f, S)
<1> DEFINE Next(g) == [T \in SUBSET S |-> IF T = {} THEN 0 ELSE f[AnyOf(T)] + g[T \ {AnyOf(T)}]]
<1> DEFINE Upto(n, g) == \A T \in SUBSET S : Cardinality(T) <= n => g[T] = Next(g)[T]
<1> DEFINE N == {n \in Nat : \E g : Upto(n, g)}
<1>1. \A T \in SUBSET S : IsFiniteSet(T) /\ Cardinality(T) \in Nat
  BY FS_Subset, FS_CardinalityType
<1>2. 0 \in N
  <2> DEFINE g == [T \in SUBSET S |-> 0]
  <2>1. \A T \in SUBSET S : Cardinality(T) <= 0 => T = {}
    BY <1>1, FS_EmptySet
  <2>2. Upto(0, g)
    BY <2>1
  <2> QED
    BY <2>2
<1>3. ASSUME NEW n \in Nat, n \in N PROVE n + 1 \in N
  <2>1. PICK g : Upto(n, g)
    BY <1>3
  <2> DEFINE h == Next(g)
  <2>2. ASSUME NEW T \in SUBSET S, Cardinality(T) <= n + 1
        PROVE  h[T] = Next(h)[T]
    <3>1. CASE T = {}
      BY <3>1
    <3>2. CASE T # {}
      <4> DEFINE x == AnyOf(T)
      <4> DEFINE U == T \ {x}
      <4>1. x \in T
        BY <3>2, AnyOfIn
      <4> HIDE DEF x
      <4>2. U \in SUBSET S /\ Cardinality(U) <= n
        BY <1>1, <2>2, <4>1, FS_RemoveElement
      <4>3. g[U] = h[U]
        BY <2>1, <4>2
      <4>4. h[T] = f[x] + g[U] /\ Next(h)[T] = f[x] + h[U]
        BY <3>2 DEF x
      <4> QED
        BY <4>3, <4>4
    <3> QED
      BY <3>1, <3>2
  <2>3. Upto(n + 1, h)
    <3> HIDE DEF Next, h
    <3> QED
      BY <2>2
  <2> HIDE DEF Upto, h
  <2> QED
    BY <2>3
<1>4. Nat \subseteq N
  <2> HIDE DEF N
  <2> QED
    BY <1>2, <1>3, SetInduction
<1>5. PICK g : Upto(Cardinality(S), g)
  BY <1>1, <1>4
<1> DEFINE h == Next(g)
<1>6. \A T \in SUBSET S : g[T] = h[T]
  BY <1>1, <1>5, FS_Subset
<1>7. ASSUME NEW T \in SUBSET S
      PROVE  h[T] = IF T = {} THEN 0 ELSE f[AnyOf(T)] + h[T \ {AnyOf(T)}]
  BY <1>6
<1>8. h = Next(h)
  <2>1. Next(h) = [T \in SUBSET S |-> IF T = {} THEN 0 ELSE f[AnyOf(T)] + h[T \ {AnyOf(T)}]]
    OBVIOUS
  <2>2. h = [T \in SUBSET S |-> h[T]]
    OBVIOUS
  <2> HIDE DEF h
  <2> QED
    BY <1>7, <2>1, <2>2
<1> HIDE DEF h
<1> QED
  BY <1>8 DEF Sums

(* Sums of integers are integers. *)
LEMMA SumsTyped ==
  ASSUME NEW S, IsFiniteSet(S), NEW f, NEW g, Sums(g, f, S), \A x \in S : f[x] \in Int
  PROVE  \A T \in SUBSET S : g[T] \in Int
<1> DEFINE P == {T \in SUBSET S : g[T] \in Int}
<1>1. {} \in P
  BY SumsAt
<1>2. ASSUME NEW T \in SUBSET S, T # {}, \A x \in T : T \ {x} \in P PROVE T \in P
  <2> DEFINE y == AnyOf(T)
  <2>1. g[T] = f[y] + g[T \ {y}]
    BY <1>2, SumsAt
  <2>2. y \in T
    BY <1>2, AnyOfIn
  <2> HIDE DEF y
  <2>3. T \ {y} \in P /\ f[y] \in Int
    BY <1>2, <2>2
  <2> QED
    BY <2>1, <2>3
<1>3. \A T \in SUBSET S : T \in P
  <2> HIDE DEF P
  <2> QED
    BY <1>1, <1>2, ShrinkInduction
<1> QED
  BY <1>3

(* In whatever order elements are taken, one more adds its own value. *)
LEMMA SumsAdd ==
  ASSUME NEW S, IsFiniteSet(S), NEW f, NEW g, Sums(g, f, S), \A x \in S : f[x] \in Int
  PROVE  \A T \in SUBSET S : \A x \in S \ T : g[T \union {x}] = f[x] + g[T]
<1> DEFINE P == {T \in SUBSET S : \A x \in S \ T : g[T \union {x}] = f[x] + g[T]}
<1>1. {} \in P
  <2> SUFFICES ASSUME NEW x \in S PROVE g[{x}] = f[x] + g[{}]
    OBVIOUS
  <2>1. AnyOf({x}) = x
    BY AnyOfIn
  <2>2. {x} \in SUBSET S /\ {x} # {}
    OBVIOUS
  <2>4. g[{x}] = f[AnyOf({x})] + g[{x} \ {AnyOf({x})}]
    BY <2>2, SumsAt
  <2>3. {x} \ {x} = {}
    OBVIOUS
  <2> QED
    BY <2>1, <2>3, <2>4
<1>2. ASSUME NEW T \in SUBSET S, T # {}, \A x \in T : T \ {x} \in P PROVE T \in P
  <2> SUFFICES ASSUME NEW x \in S \ T PROVE g[T \union {x}] = f[x] + g[T]
    OBVIOUS
  <2> DEFINE U == T \union {x}
  <2> DEFINE y == AnyOf(U)
  <2>1. y \in U /\ U \in SUBSET S /\ g[U] = f[y] + g[U \ {y}]
    <3>1. U # {} /\ U \in SUBSET S
      OBVIOUS
    <3> HIDE DEF U
    <3> QED
      BY <3>1, SumsAt, AnyOfIn
  <2> HIDE DEF y
  <2>2. CASE y = x
    <3>1. U \ {y} = T
      BY <2>2
    <3> QED
      BY <2>1, <2>2, <3>1
  <2>3. CASE y # x
    <3> DEFINE R == T \ {y}
    <3>1. y \in T /\ R \in P /\ x \in S \ R /\ y \in S \ R
      BY <1>2, <2>1, <2>3
    <3>2. U \ {y} = R \union {x} /\ T = R \union {y}
      BY <2>3, <3>1
    <3>3. g[U \ {y}] = f[x] + g[R] /\ g[T] = f[y] + g[R]
      BY <3>1, <3>2
    <3>4. g[R] \in Int /\ f[x] \in Int /\ f[y] \in Int
      BY <3>1, SumsTyped
    <3> QED
      BY <2>1, <3>3, <3>4
  <2> QED
    BY <2>2, <2>3
<1>3. \A T \in SUBSET S : T \in P
  <2> HIDE DEF P
  <2> QED
    BY <1>1, <1>2, ShrinkInduction
<1> QED
  BY <1>3

(* Sums depend on the values at the elements only. *)
LEMMA SumsAgree ==
  ASSUME NEW S, IsFiniteSet(S), NEW R, NEW f, NEW e, NEW g, NEW h,
         Sums(g, f, S), Sums(h, e, R), S \subseteq R, \A x \in S : f[x] = e[x]
  PROVE  \A T \in SUBSET S : g[T] = h[T]
<1> DEFINE P == {T \in SUBSET S : g[T] = h[T]}
<1>1. {} \in P
  BY SumsAt
<1>2. ASSUME NEW T \in SUBSET S, T # {}, \A x \in T : T \ {x} \in P PROVE T \in P
  <2> DEFINE y == AnyOf(T)
  <2>1. y \in T
    BY <1>2, AnyOfIn
  <2>2. g[T] = f[y] + g[T \ {y}]
    BY <1>2, SumsAt
  <2>3. h[T] = e[y] + h[T \ {y}]
    BY <1>2, SumsAt
  <2> HIDE DEF y
  <2> QED
    BY <1>2, <2>1, <2>2, <2>3
<1>3. \A T \in SUBSET S : T \in P
  <2> HIDE DEF P
  <2> QED
    BY <1>1, <1>2, ShrinkInduction
<1> QED
  BY <1>3

(* The sum of a function over a set. *)
SumOver(f, S) == (CHOOSE g : Sums(g, f, S))[S]

(* The sum is what any family of sums says of the set. *)
LEMMA SumIs ==
  ASSUME NEW S, IsFiniteSet(S), NEW R, IsFiniteSet(R), S \subseteq R,
         NEW f, NEW e, NEW h, Sums(h, e, R), \A x \in S : f[x] = e[x]
  PROVE  SumOver(f, S) = h[S]
<1> DEFINE g == CHOOSE g : Sums(g, f, S)
<1>1. Sums(g, f, S)
  BY SumsExist
<1> HIDE DEF g
<1>2. g[S] = h[S]
  BY <1>1, SumsAgree
<1> QED
  BY <1>2 DEF SumOver, g

(* Nothing sums to nothing. *)
LEMMA SumEmpty == ASSUME NEW f PROVE SumOver(f, {}) = 0
<1>1. PICK g : Sums(g, f, {})
  BY SumsExist, FS_EmptySet
<1> QED
  BY <1>1, SumIs, SumsAt, FS_EmptySet

(* A sum of integers is an integer. *)
LEMMA SumTyped ==
  ASSUME NEW S, IsFiniteSet(S), NEW f, \A x \in S : f[x] \in Int
  PROVE  SumOver(f, S) \in Int
<1>1. PICK g : Sums(g, f, S)
  BY SumsExist
<1> QED
  BY <1>1, SumIs, SumsTyped

(* Two functions that agree have one sum. *)
LEMMA SumSame ==
  ASSUME NEW S, IsFiniteSet(S), NEW f, NEW e, \A x \in S : f[x] = e[x]
  PROVE  SumOver(f, S) = SumOver(e, S)
<1>1. PICK g : Sums(g, e, S)
  BY SumsExist
<1> QED
  BY <1>1, SumIs

(* One more element adds its value. *)
LEMMA SumAdd ==
  ASSUME NEW S, IsFiniteSet(S), NEW x, x \notin S, NEW f,
         \A y \in S \union {x} : f[y] \in Int
  PROVE  SumOver(f, S \union {x}) = SumOver(f, S) + f[x]
<1> DEFINE R == S \union {x}
<1>1. IsFiniteSet(R)
  BY FS_AddElement
<1>2. PICK g : Sums(g, f, R)
  BY <1>1, SumsExist
<1>3. SumOver(f, R) = g[R] /\ SumOver(f, S) = g[S]
  BY <1>1, <1>2, SumIs
<1>4. g[R] = f[x] + g[S] /\ g[S] \in Int
  BY <1>1, <1>2, SumsAdd, SumsTyped
<1> QED
  BY <1>3, <1>4

(* One element less takes its value away. *)
LEMMA SumRemove ==
  ASSUME NEW S, IsFiniteSet(S), NEW x \in S, NEW f, \A y \in S : f[y] \in Int
  PROVE  SumOver(f, S \ {x}) = SumOver(f, S) - f[x]
<1> DEFINE R == S \ {x}
<1>1. IsFiniteSet(R) /\ x \notin R /\ S = R \union {x}
  BY FS_RemoveElement
<1> HIDE DEF R
<1>2. SumOver(f, S) = SumOver(f, R) + f[x]
  BY <1>1, SumAdd
<1>3. SumOver(f, R) \in Int
  BY <1>1, SumTyped
<1> QED
  BY <1>2, <1>3 DEF R

(* A sum over two sets that share nothing. *)
LEMMA SumUnion ==
  ASSUME NEW S, IsFiniteSet(S), NEW R, IsFiniteSet(R), S \intersect R = {},
         NEW f, \A x \in S \union R : f[x] \in Int
  PROVE  SumOver(f, S \union R) = SumOver(f, S) + SumOver(f, R)
<1> DEFINE P == {T \in SUBSET S : SumOver(f, T \union R) = SumOver(f, T) + SumOver(f, R)}
<1>0. SumOver(f, R) \in Int
  BY SumTyped
<1>1. {} \in P
  BY <1>0, SumEmpty
<1>2. ASSUME NEW T \in SUBSET S, T # {}, \A x \in T : T \ {x} \in P PROVE T \in P
  <2>1. PICK x \in T : TRUE
    BY <1>2
  <2> DEFINE U == T \ {x}
  <2>2. /\ U \in P /\ U \in SUBSET S /\ x \notin U \union R /\ x \notin U
    BY <1>2
  <2>9. SumOver(f, T \union R) = SumOver(f, (U \union R) \union {x})
    <3>1. T \union R = (U \union R) \union {x}
      BY <2>1
    <3> QED
      BY ONLY <3>1
  <2>10. SumOver(f, T) = SumOver(f, U \union {x})
    <3>1. T = U \union {x}
      BY <2>1
    <3> QED
      BY ONLY <3>1
  <2>11. f[x] \in Int
    BY <2>1
  <2>3. IsFiniteSet(U) /\ IsFiniteSet(U \union R)
    BY <2>2, FS_Subset, FS_Union
  <2>4. SumOver(f, (U \union R) \union {x}) = SumOver(f, U \union R) + f[x]
    BY <2>2, <2>3, SumAdd
  <2>5. SumOver(f, U \union {x}) = SumOver(f, U) + f[x]
    BY <2>2, <2>3, SumAdd
  <2>6. SumOver(f, U) \in Int
    BY <2>2, <2>3, SumTyped
  <2>7. SumOver(f, U \union R) = SumOver(f, U) + SumOver(f, R)
    BY <2>2
  <2> HIDE DEF U
  <2>8. SumOver(f, T \union R) = SumOver(f, T) + SumOver(f, R)
    BY <1>0, <2>4, <2>5, <2>6, <2>7, <2>9, <2>10, <2>11
  <2> QED
    BY <2>8
<1>3. \A T \in SUBSET S : T \in P
  <2> HIDE DEF P
  <2> QED
    BY <1>1, <1>2, ShrinkInduction
<1> QED
  BY <1>3

(* A sum over a set without some of its members. *)
LEMMA SumDifference ==
  ASSUME NEW S, IsFiniteSet(S), NEW R, R \subseteq S, NEW f, \A x \in S : f[x] \in Int
  PROVE  SumOver(f, S \ R) = SumOver(f, S) - SumOver(f, R)
<1>1. IsFiniteSet(R) /\ IsFiniteSet(S \ R)
  BY FS_Subset
<1>2. SumOver(f, (S \ R) \union R) = SumOver(f, S \ R) + SumOver(f, R)
  BY <1>1, SumUnion
<1>3. (S \ R) \union R = S
  OBVIOUS
<1>4. SumOver(f, S) = SumOver(f, S \ R) + SumOver(f, R)
  BY <1>2, <1>3
<1>5. SumOver(f, S) \in Int /\ SumOver(f, S \ R) \in Int /\ SumOver(f, R) \in Int
  BY <1>1, SumTyped
<1> QED
  BY <1>4, <1>5

(* A sum of naturals is natural, and no less than any of its parts. *)
LEMMA SumNat ==
  ASSUME NEW S, IsFiniteSet(S), NEW f, \A x \in S : f[x] \in Nat
  PROVE  SumOver(f, S) \in Nat
<1> DEFINE P == {T \in SUBSET S : SumOver(f, T) \in Nat}
<1>1. {} \in P
  BY SumEmpty
<1>2. ASSUME NEW T \in SUBSET S, T # {}, \A x \in T : T \ {x} \in P PROVE T \in P
  <2>1. PICK x \in T : TRUE
    BY <1>2
  <2> DEFINE U == T \ {x}
  <2>2. U \in P /\ x \notin U /\ T = U \union {x} /\ IsFiniteSet(U)
    BY <1>2, FS_Subset
  <2>3. \A y \in U \union {x} : f[y] \in Int
    BY <2>2
  <2>4. SumOver(f, U \union {x}) = SumOver(f, U) + f[x]
    BY <2>2, <2>3, SumAdd
  <2> HIDE DEF U
  <2> QED
    BY <2>2, <2>4
<1>3. \A T \in SUBSET S : T \in P
  <2> HIDE DEF P
  <2> QED
    BY <1>1, <1>2, ShrinkInduction
<1> QED
  BY <1>3

(* No part is greater than a sum of naturals. *)
LEMMA SumBounds ==
  ASSUME NEW S, IsFiniteSet(S), NEW f, \A y \in S : f[y] \in Nat, NEW x \in S
  PROVE  f[x] <= SumOver(f, S)
<1>1. SumOver(f, S \ {x}) = SumOver(f, S) - f[x]
  BY SumRemove
<1>2. SumOver(f, S \ {x}) \in Nat /\ SumOver(f, S) \in Nat
  BY SumNat, FS_RemoveElement
<1> QED
  BY <1>1, <1>2
=============================================================================
