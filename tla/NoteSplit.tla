------------------------------ MODULE NoteSplit ------------------------------
(***************************************************************************)
(* Dividing a total into notes (sdk-core noteSplit.ts, noteDistribute.ts   *)
(* and the same functions of the Python client).  A plan is the sequence   *)
(* of the values of its notes; the one that is refused is empty.           *)
(***************************************************************************)
EXTENDS DepositAmount, Sequences

CONSTANT MAX_PARTS   \* 32 in the code

ASSUME NoteSplitAssumption == MAX_PARTS \in Nat /\ MAX_PARTS >= 2

Refused == <<>>

(* The sums of the first parts of a plan, and the sum of all of them. *)
SumsOf(parts) ==
  LET sum[i \in 0 .. Len(parts)] == IF i = 0 THEN 0 ELSE sum[i - 1] + parts[i]
  IN  sum
Total(parts) == SumsOf(parts)[Len(parts)]

(* Uneven weights: 1, 2, 4, ... *)
Weight[i \in Nat] == IF i <= 1 THEN 1 ELSE 2 * Weight[i - 1]
WeightSum[n \in Nat] == IF n = 0 THEN 0 ELSE WeightSum[n - 1] + Weight[n]

Share(value, n, i) == (value * Weight[i]) \div WeightSum[n]

(* Mutant of Piece: every part is at least one, and nothing is kept back. *)
PieceUnbounded(value, allocated, n, i) ==
  IF Share(value, n, i) < 1 THEN 1 ELSE Share(value, n, i)

(* At least one, and no more than leaves one for each part to come. *)
Piece(value, allocated, n, i) ==
  LET share == IF Share(value, n, i) < 1 THEN 1 ELSE Share(value, n, i)
      most == value - allocated - (n - i)
  IN  IF share > most THEN most ELSE share

(* What the parts but the last are given, one after the other. *)
Allocated(value, n) ==
  LET sum[i \in 0 .. n - 1] ==
        IF i = 0 THEN 0 ELSE sum[i - 1] + Piece(value, sum[i - 1], n, i)
  IN  sum

(* The last part takes what is left. *)
Pieces(value, n) ==
  LET before(i) == Allocated(value, n)[i - 1]
  IN  [i \in 1 .. n |-> IF i = n THEN value - before(i)
                                 ELSE Piece(value, before(i), n, i)]

SuggestNoteSplit(value, n) ==
  LET parts == Pieces(value, n)
  IN  IF n \notin 2..MAX_PARTS \/ value < n \/ \E i \in DOMAIN parts : parts[i] <= 0
        THEN Refused
        ELSE parts

(* parseAmountList. *)
AmountsTaken(amounts) ==
  /\ Len(amounts) \in 1..MAX_PARTS
  /\ \A i \in DOMAIN amounts : amounts[i] > 0

Change(total, amounts) == total - Total(amounts)

(* The amounts asked for and, if anything is left, a note for the change. *)
CustomDistribution(total, amounts) ==
  IF ~AmountsTaken(amounts) \/ Change(total, amounts) < 0 THEN Refused
  ELSE IF Change(total, amounts) = 0 THEN amounts
  ELSE Append(amounts, Change(total, amounts))

(* The notes that are made of a plan; the change may be left out. *)
NotesOf(total, amounts, withChange) ==
  LET plan == CustomDistribution(total, amounts)
  IN  IF withChange \/ plan = Refused THEN plan ELSE amounts

(* A suggestion goes through the same plan as amounts that were typed. *)
NotesOfSuggestion(total, n) == NotesOf(total, SuggestNoteSplit(total, n), TRUE)

-----------------------------------------------------------------------------
(* A plan for the note that is quoted: its notes add up to it, each is worth *)
(* something, and their deposits cost no more than one deposit of it.        *)
Divided(parts) ==
  /\ parts # Refused
  /\ Total(parts) = net
  /\ \A i \in DOMAIN parts : parts[i] > 0
  /\ Total([i \in DOMAIN parts |-> DepositGrossFromNet(parts[i], ppm)]) <= gross

(* However a total is divided, by the suggested split or by hand, the notes  *)
(* add up to it, each is worth something, and depositing them one by one     *)
(* costs no more than depositing the total: each part's fee rounds down.     *)
(* A total that is large enough for its parts is never refused, and a        *)
(* suggestion is not changed on its way to the notes.                        *)
SplitCostsNoMore ==
  status = "quoted" =>
    /\ \A n \in 2..MAX_PARTS :
          n <= net => /\ Divided(SuggestNoteSplit(net, n))
                      /\ NotesOfSuggestion(net, n) = SuggestNoteSplit(net, n)
    /\ \A a \in 1..net : Divided(NotesOf(net, <<a>>, TRUE))
    /\ \A a, b \in 1..MAX_PARTS : a + b <= net =>
          /\ Divided(NotesOf(net, <<a, b>>, TRUE))
          /\ Total(NotesOf(net, <<a, b>>, FALSE)) = a + b
=============================================================================
