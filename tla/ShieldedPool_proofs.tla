------------------------ MODULE ShieldedPool_proofs ------------------------
(***************************************************************************)
(* Proofs about ShieldedPool for every value of its constants: any tree    *)
(* size and ring size, any fees, any set of notes and any depth of nested  *)
(* calls.                                                                  *)
(*                                                                         *)
(* Inv is a predicate of one storage, Sound, required of the current       *)
(* storage and of every storage a call in progress may revert to.  That    *)
(* makes a revert the easy case and leaves the forward steps, each of      *)
(* which is an operator on storages with a lemma of its own.  BooksInv     *)
(* adds what each call in progress still owes.  LedgerInv adds what the    *)
(* notes are worth and how each call builds on the one around it; from it  *)
(* follow the properties that sum over notes or over calls, and that the   *)
(* pool implements NoteLedger.                                             *)
(***************************************************************************)
EXTENDS ShieldedPool, NumberTheorems, SequenceTheorems, TLAPS

(***************************************************************************)
(* The ring after the roots 0 .. size: the last ones occur once, each in   *)
(* the slot its own number selects, and the others do not occur.           *)
(***************************************************************************)
HoldsLatest(ring, size) ==
  /\ size <= TreeCapacity
  /\ ring.total = size + 1
  /\ \A root \in TreeRoots :
       ring.occurrences[root]
         = IF root <= size /\ root > size - ROOT_HISTORY_SIZE THEN 1 ELSE 0
  /\ \A root \in TreeRoots :
       root <= size /\ root > size - ROOT_HISTORY_SIZE
         => ring.slots[Ring!SlotOf(root)] = root

RingHoldsLatest(s) == HoldsLatest(s.ring, Len(s.leaves))

(* The only word that opens leaf i. *)
WordAt(s, i) == [index |-> i, commitment |-> s.leaves[i + 1], alias |-> FALSE]

(* A leaf is spent at most once, and its word is then on record: the word  *)
(* that a second spend would have to present.                              *)
SpendsRecorded(s) ==
  \A i \in LeafIndices :
    /\ s.timesSpent[i] <= 1
    /\ s.timesSpent[i] > 0 => i < Len(s.leaves) /\ WordAt(s, i) \in s.nullifierSpent

Sound(s) ==
  /\ s \in PoolStates
  /\ RingHoldsLatest(s)
  /\ SpendsRecorded(s)

(* A call can be undone, owes no more than its amount, and comes to an     *)
(* insert only if it carries a commitment.                                 *)
SoundFrame(frame) ==
  /\ Sound(frame.undo)
  /\ frame.fee <= frame.amount
  /\ frame.op = "deposit" => frame.note \in Commitments
  /\ frame.phase = "insert" => frame.op = "deposit"

Inv ==
  /\ Sound(pool)
  /\ stack \in Seq(Frames)
  /\ \A k \in 1 .. Len(stack) : SoundFrame(stack[k])

(* The two storages differ in funds and counters only. *)
SameNotes(s, t) ==
  /\ t.leaves = s.leaves
  /\ t.ring = s.ring
  /\ t.nullifierSpent = s.nullifierSpent
  /\ t.timesSpent = s.timesSpent

(* Slots of the ring: in range, shared after one turn and not before. *)
LEMMA SlotFacts ==
  /\ \A k \in Nat : Ring!SlotOf(k) \in Ring!Slots
  /\ \A j, k \in Nat :
       j < k /\ k - j < ROOT_HISTORY_SIZE => Ring!SlotOf(j) # Ring!SlotOf(k)
  /\ \A k \in Nat :
       k >= ROOT_HISTORY_SIZE => Ring!SlotOf(k - ROOT_HISTORY_SIZE) = Ring!SlotOf(k)
<1>1. ROOT_HISTORY_SIZE \in Nat \ {0}
  BY PoolAssumption
<1>2. ASSUME NEW k \in Nat PROVE Ring!SlotOf(k) \in Ring!Slots
  BY <1>1, ModRange DEF Ring!SlotOf, Ring!Slots
<1>3. ASSUME NEW j \in Nat, NEW k \in Nat, j < k, k - j < ROOT_HISTORY_SIZE
      PROVE  Ring!SlotOf(j) # Ring!SlotOf(k)
  BY <1>1, <1>3, ModApart DEF Ring!SlotOf
<1>4. ASSUME NEW k \in Nat, k >= ROOT_HISTORY_SIZE
      PROVE  Ring!SlotOf(k - ROOT_HISTORY_SIZE) = Ring!SlotOf(k)
  BY <1>1, <1>4, ModTurn DEF Ring!SlotOf
<1> QED
  BY <1>2, <1>3, <1>4

(* Recording a root keeps the ring's shape. *)
LEMMA RingTyped ==
  ASSUME NEW ring \in Ring!Rings, NEW root \in TreeRoots
  PROVE  Ring!RecordRoot(ring, root) \in Ring!Rings
<1>1. Ring!SlotOf(ring.total) \in Ring!Slots
  BY SlotFacts DEF Ring!Rings
<1> QED
  BY <1>1 DEF Ring!RecordRoot, Ring!Rings, Ring!Release, Ring!Evicts

(* The parts of the storage that Insert changes and leaves. *)
LEMMA InsertFields ==
  ASSUME NEW s \in PoolStates, NEW c \in Commitments
  PROVE  /\ Insert(s, c).leaves = Append(s.leaves, c)
         /\ Insert(s, c).ring = Ring!RecordRoot(s.ring, Len(s.leaves) + 1)
         /\ Insert(s, c).nullifierSpent = s.nullifierSpent
         /\ Insert(s, c).timesSpent = s.timesSpent
BY DEF Insert, PoolStates

(* Insert keeps the storage's shape while the tree has room. *)
LEMMA InsertTyped ==
  ASSUME NEW s \in PoolStates, NEW c \in Commitments, ~TreeFull(s)
  PROVE  Insert(s, c) \in PoolStates
<1>1. Len(s.leaves) + 1 \in TreeRoots
  BY PoolAssumption DEF PoolStates, TreeFull, TreeRoots
<1>2. Ring!RecordRoot(s.ring, Len(s.leaves) + 1) \in Ring!Rings
  BY <1>1, RingTyped DEF PoolStates
<1>3. Append(s.leaves, c) \in Seq(Commitments)
  BY DEF PoolStates
<1>4. s.noteValue + c.value \in Int
  BY DEF PoolStates, Commitments
<1> QED
  BY <1>2, <1>3, <1>4 DEF Insert, PoolStates

(* _recordRoot evicts exactly the root that leaves the window. *)
LEMMA RingAdvances ==
  ASSUME NEW ring \in Ring!Rings, NEW size \in Nat, size < TreeCapacity,
         HoldsLatest(ring, size)
  PROVE  HoldsLatest(Ring!RecordRoot(ring, size + 1), size + 1)
<1> DEFINE N == ROOT_HISTORY_SIZE
<1> DEFINE n == size + 1
<1> DEFINE slot == Ring!SlotOf(n)
<1> DEFINE after == Ring!RecordRoot(ring, n)
<1> DEFINE before == ring.occurrences
<1>1. /\ N \in Nat \ {0}
      /\ n \in Nat
      /\ n \in TreeRoots
      /\ n <= TreeCapacity
      /\ ring.total = n
      /\ TreeCapacity \in Nat
      /\ TreeRoots = 0 .. TreeCapacity
  BY PoolAssumption DEF TreeRoots, HoldsLatest
<1>2. slot \in Ring!Slots
  BY <1>1, SlotFacts
<1>3. /\ after.total = n + 1
      /\ after.slots = [ring.slots EXCEPT ![slot] = n]
  BY <1>1 DEF Ring!RecordRoot
<1>4. ASSUME NEW root \in TreeRoots, root <= n, root > n - N
      PROVE  after.slots[Ring!SlotOf(root)] = root
  <2>1. root \in Nat /\ Ring!SlotOf(root) \in Ring!Slots
    BY <1>1, SlotFacts
  <2>2. CASE root = n
    BY <1>2, <1>3, <2>2 DEF Ring!Rings
  <2>3. CASE root < n
    <3>1. Ring!SlotOf(root) # slot
      BY <1>1, <1>4, <2>1, <2>3, SlotFacts
    <3>2. ring.slots[Ring!SlotOf(root)] = root
      BY <1>1, <1>4, <2>3 DEF HoldsLatest
    <3> QED
      BY <1>2, <1>3, <2>1, <3>1, <3>2 DEF Ring!Rings
  <2> QED
    BY <1>1, <1>4, <2>2, <2>3
<1>5. before \in [TreeRoots -> Int]
  BY DEF Ring!Rings
<1>6. \A r \in TreeRoots : before[r] = IF r <= n - 1 /\ r > n - 1 - N THEN 1 ELSE 0
  BY <1>1 DEF HoldsLatest
<1>7. ASSUME NEW root \in TreeRoots
      PROVE  after.occurrences[root]
               = IF root <= n /\ root > n - N THEN 1 ELSE 0
  <2>1. CASE n >= N
    <3>1. n - N \in TreeRoots /\ n - N <= size /\ n - N > size - N
      BY <1>1, <2>1
    <3>2. ring.slots[slot] = n - N
      BY <1>1, <2>1, <3>1, SlotFacts DEF HoldsLatest
    <3>3. after.occurrences
            = [[before EXCEPT ![n - N] = @ - 1] EXCEPT ![n] = @ + 1]
      BY <1>1, <2>1, <3>2 DEF Ring!RecordRoot, Ring!Evicts, Ring!Release
    <3>4. before[n] = 0 /\ before[n - N] = 1 /\ n - N # n
      BY <1>1, <1>6, <2>1, <3>1
    <3> HIDE DEF after, before
    <3>5. CASE root = n
      BY <1>1, <1>5, <3>1, <3>3, <3>4, <3>5
    <3>6. CASE root = n - N
      BY <1>1, <1>5, <3>1, <3>3, <3>4, <3>6
    <3>7. CASE root # n /\ root # n - N
      <4>1. after.occurrences[root] = before[root]
        BY <1>5, <3>3, <3>7
      <4> QED
        BY <1>1, <1>6, <2>1, <3>7, <4>1
    <3> QED
      BY <3>5, <3>6, <3>7
  <2>2. CASE n < N
    <3>1. after.occurrences = [before EXCEPT ![n] = @ + 1]
      BY <1>1, <2>2 DEF Ring!RecordRoot, Ring!Evicts
    <3> HIDE DEF after, before
    <3> QED
      BY <1>1, <1>5, <1>6, <2>2, <3>1
  <2> QED
    BY <1>1, <2>1, <2>2
<1>8. HoldsLatest(after, n)
  <2> HIDE DEF after
  <2> QED
    BY <1>1, <1>3, <1>4, <1>7 DEF HoldsLatest
<1> QED
  BY <1>8

(* A fee below the denominator never exceeds the amount it is taken from. *)
LEMMA FeeBound ==
  ASSUME NEW amount \in Nat, NEW ppm \in 0 .. FEE_DENOMINATOR - 1
  PROVE  Fee(amount, ppm) \in 0 .. amount
<1> DEFINE D == FEE_DENOMINATOR
<1> DEFINE x == amount * ppm
<1> DEFINE q == x \div D
<1>1. D \in Nat \ {0} /\ ppm \in Nat /\ ppm < D
  BY PoolAssumption
<1>2. x \in Nat
  BY <1>1
<1>3. x = (D * q) + (x % D) /\ x % D \in 0 .. D - 1 /\ q \in Int
  <2> HIDE DEF x
  <2> QED
    BY <1>1, <1>2
<1>4. x <= D * amount
  BY <1>1
<1> HIDE DEF x, q, D
<1>5. q >= 0
  <2> SUFFICES ASSUME q <= 0 - 1 PROVE FALSE
    BY <1>3
  <2>1. D * q <= 0 - D
    BY <1>1, <1>3
  <2> QED
    BY <1>1, <1>2, <1>3, <2>1
<1>6. q <= amount
  <2> SUFFICES ASSUME q >= amount + 1 PROVE FALSE
    BY <1>3
  <2>1. D * q >= D * (amount + 1)
    BY <1>1, <1>3
  <2>2. D * (amount + 1) = (D * amount) + D
    BY <1>1
  <2> QED
    BY <1>1, <1>2, <1>3, <1>4, <2>1, <2>2
<1> QED
  BY <1>3, <1>5, <1>6 DEF Fee, q, x, D

(* Moving funds does not touch what Sound speaks of. *)
LEMMA MoveSound ==
  ASSUME NEW s, NEW t \in PoolStates, Sound(s), SameNotes(s, t)
  PROVE  Sound(t)
BY DEF Sound, SameNotes, RingHoldsLatest, SpendsRecorded, WordAt

(* An insert records its root and disturbs no earlier leaf. *)
LEMMA InsertSound ==
  ASSUME NEW s, NEW c \in Commitments, Sound(s), ~TreeFull(s)
  PROVE  Sound(Insert(s, c))
<1> DEFINE t == Insert(s, c)
<1> DEFINE size == Len(s.leaves)
<1>1. s \in PoolStates /\ t \in PoolStates
  BY InsertTyped DEF Sound
<1>2. /\ t.leaves = Append(s.leaves, c)
      /\ t.ring = Ring!RecordRoot(s.ring, size + 1)
      /\ t.nullifierSpent = s.nullifierSpent
      /\ t.timesSpent = s.timesSpent
  BY <1>1, InsertFields
<1>3. s.leaves \in Seq(Commitments) /\ size \in Nat /\ s.ring \in Ring!Rings
  BY <1>1 DEF PoolStates
<1>4. Len(t.leaves) = size + 1
  BY <1>2, <1>3
<1>5. RingHoldsLatest(t)
  <2>1. size < TreeCapacity
    BY <1>3, PoolAssumption DEF TreeFull
  <2>2. HoldsLatest(s.ring, size)
    BY DEF Sound, RingHoldsLatest
  <2> QED
    BY <1>2, <1>3, <1>4, <2>1, <2>2, RingAdvances DEF RingHoldsLatest
<1>6. ASSUME NEW i \in LeafIndices, i < size
      PROVE  WordAt(t, i) = WordAt(s, i)
  <2>1. t.leaves[i + 1] = s.leaves[i + 1]
    BY <1>2, <1>3, <1>6, PoolAssumption DEF LeafIndices
  <2> QED
    BY <2>1 DEF WordAt
<1>7. SpendsRecorded(t)
  <2> HIDE DEF t, size
  <2>1. ASSUME NEW i \in LeafIndices
        PROVE  /\ t.timesSpent[i] <= 1
               /\ t.timesSpent[i] > 0 => i < Len(t.leaves) /\ WordAt(t, i) \in t.nullifierSpent
    <3>1. i \in Int
      BY PoolAssumption DEF LeafIndices
    <3>2. /\ s.timesSpent[i] <= 1
          /\ s.timesSpent[i] > 0 => i < size /\ WordAt(s, i) \in s.nullifierSpent
      BY DEF Sound, SpendsRecorded, size
    <3> QED
      BY <1>2, <1>3, <1>4, <1>6, <3>1, <3>2
  <2> QED
    BY <2>1 DEF SpendsRecorded
<1> QED
  BY <1>1, <1>5, <1>7 DEF Sound

(* Spending a leaf whose word is not on record is its first spend. *)
LEMMA MarkSpentSound ==
  ASSUME NEW s, NEW root \in TreeRoots, NEW i \in Nat, NEW c, NEW alias \in BOOLEAN,
         NEW word, word = [index |-> i, commitment |-> c, alias |-> alias],
         Sound(s), Opens(s, root, word), word \notin s.nullifierSpent
  PROVE  /\ Sound(MarkSpent(s, word))
         /\ MarkSpent(s, word).leaves = s.leaves
         /\ MarkSpent(s, word).nullifierSpent = s.nullifierSpent \union {word}
<1> DEFINE t == MarkSpent(s, word)
<1>1. s \in PoolStates /\ s.leaves \in Seq(Commitments) /\ Len(s.leaves) \in Nat
  BY DEF Sound, PoolStates
<1>2. /\ i \in LeafIndices
      /\ i < Len(s.leaves)
      /\ c = s.leaves[i + 1]
      /\ alias = FALSE
  BY <1>1, PoolAssumption DEF Opens, InField, TreeRoots, LeafIndices
<1>3. c \in Commitments
  BY <1>1, <1>2 DEF LeafIndices
<1>4. word \in Nullifiers
  BY <1>2, <1>3 DEF Nullifiers
<1>5. s.timesSpent[i] = 0
  <2>1. word = WordAt(s, i)
    BY <1>2 DEF WordAt
  <2>2. s.timesSpent[i] \in Nat
    BY <1>1, <1>2 DEF PoolStates
  <2> QED
    BY <1>2, <2>1, <2>2 DEF Sound, SpendsRecorded
<1>6. /\ t.leaves = s.leaves
      /\ t.ring = s.ring
      /\ t.nullifierSpent = s.nullifierSpent \union {word}
      /\ t.timesSpent = [s.timesSpent EXCEPT ![i] = @ + 1]
  BY <1>1 DEF MarkSpent, PoolStates
<1>7. t \in PoolStates
  <2>1. s.noteValue - c.value \in Int
    BY <1>1, <1>3 DEF PoolStates, Commitments
  <2>2. s.nullifierSpent \union {word} \in SUBSET Nullifiers
    BY <1>1, <1>4 DEF PoolStates
  <2>3. [s.timesSpent EXCEPT ![i] = @ + 1] \in [LeafIndices -> Nat]
    BY <1>1, <1>2 DEF PoolStates
  <2> QED
    BY <1>1, <2>1, <2>2, <2>3 DEF MarkSpent, PoolStates
<1>8. SpendsRecorded(t)
  <2> HIDE DEF t
  <2>1. ASSUME NEW j \in LeafIndices, j # i
        PROVE  t.timesSpent[j] = s.timesSpent[j]
    BY <1>1, <1>6, <2>1 DEF PoolStates
  <2>2. t.timesSpent[i] = 1
    BY <1>1, <1>2, <1>5, <1>6 DEF PoolStates
  <2>3. WordAt(t, i) = word
    BY <1>2, <1>6 DEF WordAt
  <2>4. \A j \in LeafIndices : WordAt(t, j) = WordAt(s, j)
    BY <1>6 DEF WordAt
  <2>5. ASSUME NEW j \in LeafIndices
        PROVE  /\ t.timesSpent[j] <= 1
               /\ t.timesSpent[j] > 0 =>
                    j < Len(t.leaves) /\ WordAt(t, j) \in t.nullifierSpent
    <3>1. CASE j = i
      BY <1>2, <1>6, <2>2, <2>3, <3>1
    <3>2. CASE j # i
      BY <1>6, <2>1, <2>4, <3>2 DEF Sound, SpendsRecorded
    <3> QED
      BY <3>1, <3>2
  <2> QED
    BY <2>5 DEF SpendsRecorded
<1> QED
  BY <1>6, <1>7, <1>8 DEF Sound, RingHoldsLatest

-----------------------------------------------------------------------------

(* The innermost call is a sound frame. *)
LEMMA TopTyped ==
  ASSUME Inv, stack # <<>>
  PROVE  /\ Len(stack) \in 1 .. Len(stack)
         /\ Top \in Frames
         /\ SoundFrame(Top)
         /\ Sound(Top.undo)
         /\ Top.fee <= Top.amount
<1>1. Len(stack) \in Nat /\ Len(stack) # 0
  BY DEF Inv
<1>2. Len(stack) \in 1 .. Len(stack)
  BY <1>1
<1> QED
  BY <1>2 DEF Inv, Top, SoundFrame

(* A call that starts: its frame keeps a sound storage to revert to. *)
LEMMA PushInv ==
  ASSUME Inv, Sound(pool)', NEW frame \in Frames, SoundFrame(frame), Enter(frame)
  PROVE  Inv'
<1>1. stack \in Seq(Frames) /\ stack' = Append(stack, frame)
  BY DEF Inv, Enter
<1>2. stack' \in Seq(Frames) /\ Len(stack') = Len(stack) + 1 /\ Len(stack) \in Nat
  BY <1>1
<1>3. ASSUME NEW k \in 1 .. Len(stack')
      PROVE  SoundFrame(stack'[k])
  <2>1. CASE k = Len(stack')
    <3>1. stack'[k] = frame
      BY <1>1, <1>2, <2>1
    <3> QED
      BY <3>1 DEF Inv
  <2>2. CASE k # Len(stack')
    <3>1. k \in 1 .. Len(stack) /\ stack'[k] = stack[k]
      BY <1>1, <1>2, <2>2
    <3> QED
      BY <3>1 DEF Inv
  <2> QED
    BY <2>1, <2>2
<1> QED
  BY <1>2, <1>3 DEF Inv, Sound, SoundFrame

(* The stack without its innermost call. *)
LEMMA LeaveFacts ==
  ASSUME Inv, stack # <<>>, Leave
  PROVE  /\ stack' \in Seq(Frames)
         /\ Len(stack) \in Nat /\ Len(stack) >= 1
         /\ Len(stack') = Len(stack) - 1
         /\ \A k \in 1 .. Len(stack) - 1 : stack'[k] = stack[k]
<1> DEFINE n == Len(stack) - 1
<1>1. /\ stack \in Seq(Frames)
      /\ Len(stack) \in Nat
      /\ Len(stack) >= 1
      /\ stack' = SubSeq(stack, 1, Len(stack) - 1)
  BY DEF Inv, Leave
<1>2. \A k \in 1 .. Len(stack) - 1 : stack[k] \in Frames
  BY <1>1
<1>3. n \in Int /\ 1 \in Int
  BY <1>1
<1> HIDE DEF n
<1>4. \A i \in 1 .. n : stack[i] \in Frames
  BY <1>2 DEF n
<1>5. /\ SubSeq(stack, 1, n) \in Seq(Frames)
      /\ Len(SubSeq(stack, 1, n)) = IF 1 <= n THEN n - 1 + 1 ELSE 0
      /\ \A i \in 1 .. n - 1 + 1 : SubSeq(stack, 1, n)[i] = stack[1 + i - 1]
  BY <1>3, <1>4, SubSeqProperties
<1>6. stack' = SubSeq(stack, 1, n) /\ n >= 0
  BY <1>1 DEF n
<1>7. Len(stack') = n
  BY <1>3, <1>5, <1>6
<1>8. ASSUME NEW k \in 1 .. n PROVE stack'[k] = stack[k]
  <2>1. k \in 1 .. n - 1 + 1 /\ 1 + k - 1 = k
    BY <1>3
  <2> QED
    BY <1>5, <1>6, <2>1
<1> QED
  BY <1>1, <1>5, <1>6, <1>7, <1>8 DEF n

(* A call that ends. *)
LEMMA PopInv ==
  ASSUME Inv, Sound(pool)', stack # <<>>, Leave
  PROVE  Inv'
<1>1. ASSUME NEW k \in 1 .. Len(stack')
      PROVE  k \in 1 .. Len(stack) /\ stack'[k] = stack[k]
  BY LeaveFacts
<1> QED
  BY <1>1, LeaveFacts DEF Inv, Sound, SoundFrame

(* A call that goes on to its next phase. *)
LEMMA ContinueInv ==
  ASSUME Inv, Sound(pool)', stack # <<>>, NEW phase \in Phases, Continue(phase),
         phase = "insert" => Top.op = "deposit"
  PROVE  Inv'
<1> DEFINE n == Len(stack)
<1>1. /\ stack \in Seq(Frames)
      /\ n \in 1 .. n
      /\ stack[n] \in Frames
      /\ stack' = [stack EXCEPT ![n] = [stack[n] EXCEPT !.phase = phase]]
  BY TopTyped DEF Inv, Top, Continue
<1>2. [stack[n] EXCEPT !.phase = phase] \in Frames
  BY <1>1 DEF Frames
<1>3. stack' \in Seq(Frames) /\ Len(stack') = n
  BY <1>1, <1>2
<1>4. ASSUME NEW k \in 1 .. Len(stack') PROVE SoundFrame(stack'[k])
  <2>1. SoundFrame(stack[k]) /\ k \in 1 .. n
    BY <1>3 DEF Inv
  <2>2. CASE k = n
    <3>1. stack'[k] = [stack[n] EXCEPT !.phase = phase]
      BY <1>1, <2>2
    <3> QED
      BY <1>1, <2>1, <2>2, <3>1 DEF SoundFrame, Frames, Top
  <2>3. CASE k # n
    BY <1>1, <2>1, <2>3
  <2> QED
    BY <2>2, <2>3
<1> QED
  BY <1>3, <1>4 DEF Inv, Sound, SoundFrame

(* Assets received, or paid when the balance covers them. *)
LEMMA CreditSound ==
  ASSUME NEW s, Sound(s), NEW amount \in Int, AssetBalance(s) + amount >= 0
  PROVE  Sound(Credit(s, amount))
<1>1. s \in PoolStates
  BY DEF Sound
<1>2. Credit(s, amount) \in PoolStates
  <2>1. CASE Native
    <3>1. s.ether + amount \in Nat
      BY <1>1, <2>1 DEF AssetBalance, PoolStates
    <3> QED
      BY <1>1, <2>1, <3>1 DEF Credit, PoolStates
  <2>2. CASE ~Native
    <3>1. s.tokens + amount \in Nat
      BY <1>1, <2>2 DEF AssetBalance, PoolStates
    <3> QED
      BY <1>1, <2>2, <3>1 DEF Credit, PoolStates
  <2> QED
    BY <2>1, <2>2
<1>3. SameNotes(s, Credit(s, amount))
  BY <1>1 DEF Credit, SameNotes, PoolStates
<1> QED
  BY <1>2, <1>3, MoveSound

(* The counters are nobody's business but their own. *)
LEMMA CountSound ==
  ASSUME NEW s, Sound(s), NEW x \in Nat
  PROVE  /\ Sound([s EXCEPT !.totalDeposited = @ + x])
         /\ Sound([s EXCEPT !.totalWithdrawn = @ + x])
         /\ Sound([s EXCEPT !.totalFeesCollected = @ + x])
<1>1. s \in PoolStates
  BY DEF Sound
<1>2. /\ s.totalDeposited + x \in Nat
      /\ s.totalWithdrawn + x \in Nat
      /\ s.totalFeesCollected + x \in Nat
  BY <1>1 DEF PoolStates
<1>3. Sound([s EXCEPT !.totalDeposited = @ + x])
  <2> DEFINE t == [s EXCEPT !.totalDeposited = @ + x]
  <2>1. t \in PoolStates
    BY <1>1, <1>2 DEF PoolStates
  <2>2. SameNotes(s, t)
    BY <1>1 DEF PoolStates, SameNotes
  <2> QED
    BY <2>1, <2>2, MoveSound
<1>4. Sound([s EXCEPT !.totalWithdrawn = @ + x])
  <2> DEFINE t == [s EXCEPT !.totalWithdrawn = @ + x]
  <2>1. t \in PoolStates
    BY <1>1, <1>2 DEF PoolStates
  <2>2. SameNotes(s, t)
    BY <1>1 DEF PoolStates, SameNotes
  <2> QED
    BY <2>1, <2>2, MoveSound
<1>5. Sound([s EXCEPT !.totalFeesCollected = @ + x])
  <2> DEFINE t == [s EXCEPT !.totalFeesCollected = @ + x]
  <2>1. t \in PoolStates
    BY <1>1, <1>2 DEF PoolStates
  <2>2. SameNotes(s, t)
    BY <1>1 DEF PoolStates, SameNotes
  <2> QED
    BY <2>1, <2>2, MoveSound
<1> QED
  BY <1>3, <1>4, <1>5

(* The constructor's storage is sound. *)
LEMMA InitInv == Init => Inv
<1> SUFFICES ASSUME Init PROVE Inv
  OBVIOUS
<1> DEFINE ring == Ring!RecordRoot(Ring!EmptyRing, 0)
<1>1. 0 \in TreeRoots /\ TreeRoots = 0 .. TreeCapacity /\ TreeCapacity \in Nat
      /\ ROOT_HISTORY_SIZE \in Nat \ {0}
  BY PoolAssumption DEF TreeRoots
<1>2. Ring!EmptyRing \in Ring!Rings
  BY DEF Ring!EmptyRing, Ring!Rings, Ring!Slots
<1>3. ring \in Ring!Rings
  BY <1>1, <1>2, RingTyped
<1>4. HoldsLatest(ring, 0)
  <2>1. Ring!SlotOf(0) \in Ring!Slots
    BY SlotFacts
  <2>2. ~Ring!Evicts(Ring!EmptyRing)
    BY <1>1 DEF Ring!Evicts, Ring!EmptyRing
  <2>3. /\ ring.total = 1
        /\ ring.slots = [[t \in Ring!Slots |-> 0 - 1] EXCEPT ![Ring!SlotOf(0)] = 0]
        /\ ring.occurrences = [[r \in TreeRoots |-> 0] EXCEPT ![0] = @ + 1]
    BY <2>2 DEF Ring!RecordRoot, Ring!EmptyRing
  <2> HIDE DEF ring
  <2> QED
    BY <1>1, <2>1, <2>3 DEF HoldsLatest
<1>5. EmptyPool \in PoolStates
  <2> HIDE DEF ring
  <2>1. EmptyPool.ring = ring
    BY DEF EmptyPool, ring
  <2>2. [i \in LeafIndices |-> 0] \in [LeafIndices -> Nat]
    OBVIOUS
  <2> QED
    BY <1>3, <2>1, <2>2 DEF EmptyPool, PoolStates
<1>6. RingHoldsLatest(EmptyPool)
  BY <1>4 DEF RingHoldsLatest, EmptyPool
<1>7. SpendsRecorded(EmptyPool)
  BY DEF SpendsRecorded, EmptyPool
<1>8. Sound(pool)
  BY <1>5, <1>6, <1>7 DEF Sound, Init
<1> QED
  BY <1>8 DEF Init, Inv

(* deposit(), up to its fee. *)
LEMMA DepositInv ==
  ASSUME Inv, NEW amount \in Amounts, NEW c \in Outputs, Deposit(amount, c)
  PROVE  Inv'
<1> DEFINE fee == Fee(amount, depositFeePpm)
<1> DEFINE frame == [op |-> "deposit", phase |-> "fee", amount |-> amount,
                     fee |-> fee, note |-> c, recipient |-> "other",
                     undo |-> pool]
<1>1. amount \in Nat /\ c \in Commitments
  BY PoolAssumption DEF Outputs, Commitments
<1>2. fee \in Nat /\ fee <= amount
  <2> HIDE DEF fee
  <2>1. fee \in 0 .. amount
    BY <1>1, FeeBound, PoolAssumption DEF fee
  <2> QED
    BY <1>1, <2>1
<1>3. pool \in PoolStates /\ Sound(pool)
  BY DEF Inv, Sound
<1>4. Sound(pool)'
  <2>1. AssetBalance(pool) + amount >= 0
    BY <1>1, <1>3 DEF AssetBalance, PoolStates
  <2>2. Sound(Credit(pool, amount)) /\ pool' = Credit(pool, amount)
    BY <1>1, <1>3, <2>1, CreditSound DEF Deposit
  <2> QED
    BY <2>2 DEF Sound
<1> HIDE DEF fee
<1>5. frame \in Frames /\ SoundFrame(frame)
  BY <1>1, <1>2, <1>3 DEF Frames, Phases, CalleePhases, SoundFrame
<1>6. Enter(frame)
  BY DEF Deposit, fee
<1> QED
  BY <1>2, <1>4, <1>5, <1>6, PushInv

(* deposit(), its insert. *)
LEMMA InsertDepositInv ==
  ASSUME Inv, InsertDeposit
  PROVE  Inv'
<1> DEFINE inserted == Insert(pool, Top.note)
<1>1. stack # <<>> /\ Top.phase = "insert" /\ ~TreeFull(pool) /\ Leave
  BY DEF InsertDeposit, Running
<1>2. Top.note \in Commitments /\ Top.amount \in Nat /\ Sound(pool)
  BY <1>1, TopTyped DEF Inv, SoundFrame, Frames
<1>3. Sound(inserted)
  BY <1>1, <1>2, InsertSound
<1>4. pool' = [inserted EXCEPT !.totalDeposited = @ + Top.amount]
  BY DEF InsertDeposit
<1>5. Sound(pool)'
  <2> HIDE DEF inserted
  <2> QED
    BY <1>2, <1>3, <1>4, CountSound DEF Sound
<1> QED
  BY <1>1, <1>5, PopInv

(* What the three withdrawals have in common once the storage is updated. *)
LEMMA StartPayingInv ==
  ASSUME Inv, NEW updated, Sound(updated), NEW amount \in Amounts,
         NEW fee \in 0 .. amount, NEW recipient \in Recipients,
         StartPaying(updated, amount, fee, recipient)
  PROVE  Inv'
<1> DEFINE frame == [op |-> "withdraw", phase |-> "fee", amount |-> amount,
                     fee |-> fee, note |-> NoNote, recipient |-> recipient,
                     undo |-> pool]
<1>1. amount \in Nat /\ fee \in Nat /\ fee <= amount /\ recipient \in {"pool", "other"}
  BY PoolAssumption
<1>2. pool \in PoolStates /\ Sound(pool)
  BY DEF Inv, Sound
<1>3. frame \in Frames /\ SoundFrame(frame)
  BY <1>1, <1>2 DEF Frames, Phases, CalleePhases, SoundFrame
<1>4. Sound(pool)' /\ Enter(frame)
  BY DEF StartPaying, Sound
<1> QED
  BY <1>3, <1>4, PushInv

(* A word that passed the checks is marked without harm. *)
LEMMA SpendSound ==
  ASSUME NEW s, Sound(s), s.leaves = pool.leaves, Inv,
         NEW word \in Offered, NEW root \in TreeRoots, Opens(s, root, word),
         word \notin s.nullifierSpent
  PROVE  /\ Sound(MarkSpent(s, word))
         /\ MarkSpent(s, word).leaves = s.leaves
         /\ MarkSpent(s, word).nullifierSpent = s.nullifierSpent \union {word}
<1>1. PICK i \in DOMAIN pool.leaves, a \in BOOLEAN :
        word = [index |-> i - 1, commitment |-> pool.leaves[i], alias |-> a]
  BY DEF Offered
<1>2. i - 1 \in Nat
  BY DEF Inv, Sound, PoolStates
<1> QED
  BY <1>1, <1>2, MarkSpentSound

(* withdraw1(), up to its fee. *)
LEMMA Withdraw1Inv ==
  ASSUME Inv, NEW word \in Offered, NEW root \in TreeRoots, NEW amount \in Amounts,
         NEW fee \in 0 .. amount, NEW recipient \in Recipients,
         Withdraw1(root, word, amount, fee, recipient)
  PROVE  Inv'
<1>1. Sound(pool) /\ Opens(pool, root, word) /\ word \notin pool.nullifierSpent
  BY DEF Inv, Withdraw1, Withdraw1Proof, Admissible
<1>2. Sound(MarkSpent(pool, word))
  BY <1>1, SpendSound
<1>3. StartPaying(MarkSpent(pool, word), amount, fee, recipient)
  BY DEF Withdraw1
<1> QED
  BY <1>2, <1>3, StartPayingInv

(* withdraw(): the second word is not the first, so both are unspent. *)
LEMMA WithdrawInv ==
  ASSUME Inv, NEW word1 \in Offered, NEW word2 \in Offered, NEW root \in TreeRoots,
         NEW amount \in Amounts, NEW fee \in 0 .. amount,
         NEW recipient \in Recipients,
         Withdraw(root, word1, word2, amount, fee, recipient)
  PROVE  Inv'
<1> DEFINE once == MarkSpent(pool, word1)
<1> DEFINE twice == MarkSpent(once, word2)
<1>1. /\ Sound(pool)
      /\ Opens(pool, root, word1) /\ word1 \notin pool.nullifierSpent
      /\ Opens(pool, root, word2) /\ word2 \notin pool.nullifierSpent
      /\ word1 # word2
  BY DEF Inv, Withdraw, Withdraw2Proof, Admissible
<1>2. /\ Sound(once)
      /\ once.leaves = pool.leaves
      /\ once.nullifierSpent = pool.nullifierSpent \union {word1}
  BY <1>1, SpendSound
<1>3. StartPaying(twice, amount, fee, recipient)
  BY DEF Withdraw
<1> HIDE DEF once
<1>4. Opens(once, root, word2) /\ word2 \notin once.nullifierSpent
  BY <1>1, <1>2 DEF Opens
<1>5. Sound(twice)
  BY <1>2, <1>4, SpendSound
<1> HIDE DEF twice
<1> QED
  BY <1>3, <1>5, StartPayingInv

(* withdrawPartial1(): the nullifier is marked, then the change inserted. *)
LEMMA WithdrawPartial1Inv ==
  ASSUME Inv, NEW word \in Offered, NEW root \in TreeRoots, NEW amount \in Amounts,
         NEW fee \in 0 .. amount, NEW out \in Outputs,
         NEW recipient \in Recipients,
         WithdrawPartial1(root, word, amount, fee, out, recipient)
  PROVE  Inv'
<1> DEFINE spent == MarkSpent(pool, word)
<1> DEFINE updated == Insert(spent, out)
<1>1. /\ Sound(pool) /\ Opens(pool, root, word) /\ ~TreeFull(pool)
      /\ word \notin pool.nullifierSpent
  BY DEF Inv, WithdrawPartial1, WithdrawPartialProof, Admissible
<1>2. Sound(spent) /\ spent.leaves = pool.leaves
  BY <1>1, SpendSound
<1>3. StartPaying(updated, amount, fee, recipient)
  BY DEF WithdrawPartial1
<1>4. out \in Commitments
  BY PoolAssumption DEF Outputs, Commitments
<1> HIDE DEF spent
<1>5. ~TreeFull(spent)
  BY <1>1, <1>2 DEF TreeFull
<1>6. Sound(updated)
  BY <1>2, <1>4, <1>5, InsertSound
<1> HIDE DEF updated
<1> QED
  BY <1>3, <1>6, StartPayingInv

-----------------------------------------------------------------------------
(* The steps of a handler that pays. *)

(* Only a deposit goes from its fee to an insert. *)
LEMMA AfterFeePhase ==
  ASSUME Inv, stack # <<>>
  PROVE  AfterFee \in Phases /\ (AfterFee = "insert" => Top.op = "deposit")
BY TopTyped DEF AfterFee, Phases, Frames

(* _payFee, with and without a call, and its return. *)
LEMMA PayFeeInv ==
  ASSUME Inv, PayNoFee \/ PayFee \/ FeeReturns
  PROVE  Inv'
<1>1. stack # <<>> /\ Sound(pool)
  BY DEF PayNoFee, PayFee, FeeReturns, Running, Inv
<1>2. CASE PayNoFee \/ FeeReturns
  <2>1. Sound(pool)' /\ Continue(AfterFee)
    BY <1>1, <1>2 DEF PayNoFee, FeeReturns, Sound
  <2> QED
    BY <1>1, <2>1, AfterFeePhase, ContinueInv
<1>3. CASE PayFee
  <2> DEFINE phase == IF Native THEN "inFee" ELSE AfterFee
  <2> DEFINE paid == Debit(pool, Top.fee)
  <2>1. Top.fee \in Nat /\ AssetBalance(pool) \in Nat
    BY <1>1, TopTyped DEF Frames, AssetBalance, Sound, PoolStates
  <2>2. 0 - Top.fee \in Int /\ AssetBalance(pool) + (0 - Top.fee) >= 0
    BY <1>3, <2>1 DEF PayFee
  <2>3. Sound(paid)
    BY <1>1, <2>2, CreditSound DEF Debit
  <2>4. pool' = [paid EXCEPT !.totalFeesCollected = @ + Top.fee]
    BY <1>3 DEF PayFee
  <2> HIDE DEF paid
  <2>5. Sound(pool)'
    BY <2>1, <2>3, <2>4, CountSound DEF Sound
  <2>6. phase \in Phases /\ (phase = "insert" => Top.op = "deposit")
    BY <1>1, AfterFeePhase DEF Phases, CalleePhases
  <2>7. Continue(phase)
    BY <1>3 DEF PayFee
  <2> HIDE DEF phase
  <2> QED
    BY <1>1, <2>5, <2>6, <2>7, ContinueInv
<1> QED
  BY <1>2, <1>3

(* ETH and reserve, tokens and surplus: what they hold is nobody else's. *)
LEMMA FundsSound ==
  ASSUME NEW s, Sound(s), NEW ether \in Nat, NEW reserve \in Nat,
         NEW surplus \in Nat
  PROVE  /\ Sound([s EXCEPT !.ether = ether, !.gasReserveEth = reserve])
         /\ Sound([s EXCEPT !.gasReserveEth = reserve])
         /\ Sound([s EXCEPT !.ether = ether])
         /\ Sound([s EXCEPT !.surplus = surplus])
<1>1. s \in PoolStates
  BY DEF Sound
<1>2. Sound([s EXCEPT !.gasReserveEth = reserve])
  <2> DEFINE t == [s EXCEPT !.gasReserveEth = reserve]
  <2>1. t \in PoolStates
    BY <1>1 DEF PoolStates
  <2>2. SameNotes(s, t)
    BY <1>1 DEF PoolStates, SameNotes
  <2> QED
    BY <2>1, <2>2, MoveSound
<1>3. Sound([s EXCEPT !.ether = ether])
  <2> DEFINE t == [s EXCEPT !.ether = ether]
  <2>1. t \in PoolStates
    BY <1>1 DEF PoolStates
  <2>2. SameNotes(s, t)
    BY <1>1 DEF PoolStates, SameNotes
  <2> QED
    BY <2>1, <2>2, MoveSound
<1>4. Sound([s EXCEPT !.surplus = surplus])
  <2> DEFINE t == [s EXCEPT !.surplus = surplus]
  <2>1. t \in PoolStates
    BY <1>1 DEF PoolStates
  <2>2. SameNotes(s, t)
    BY <1>1 DEF PoolStates, SameNotes
  <2> QED
    BY <2>1, <2>2, MoveSound
<1>5. Sound([s EXCEPT !.ether = ether, !.gasReserveEth = reserve])
  <2> DEFINE t == [s EXCEPT !.ether = ether, !.gasReserveEth = reserve]
  <2>1. t \in PoolStates
    BY <1>1 DEF PoolStates
  <2>2. SameNotes(s, t)
    BY <1>1 DEF PoolStates, SameNotes
  <2> QED
    BY <2>1, <2>2, MoveSound
<1> QED
  BY <1>2, <1>3, <1>4, <1>5

(* The payout, with and without a call, to others and to the pool. *)
LEMMA PayoutInv ==
  ASSUME Inv, PayNothing \/ PayRecipient \/ PayPool \/ PayoutReturns
  PROVE  Inv'
<1>1. stack # <<>> /\ Sound(pool) /\ pool \in PoolStates
  BY DEF PayNothing, PayRecipient, PayPool, PayoutReturns, Running, Inv, Sound
<1>2. Top.amount \in Nat /\ Payout \in Nat
  BY <1>1, TopTyped DEF Frames, Payout
<1>3. Sound(Withdrawn) /\ AssetBalance(Withdrawn) = AssetBalance(pool)
  <2>1. Sound(Withdrawn)
    BY <1>1, <1>2, CountSound DEF Withdrawn
  <2>2. AssetBalance(Withdrawn) = AssetBalance(pool)
    BY <1>1 DEF Withdrawn, AssetBalance, PoolStates
  <2> QED
    BY <2>1, <2>2
<1>4. Withdrawn \in PoolStates
  BY <1>3 DEF Sound
<1>5. {"rebate", "inPayout"} \subseteq Phases
  BY DEF Phases, CalleePhases
<1>6. CASE PayNothing \/ PayoutReturns
  <2>1. Sound(pool)'
    BY <1>1, <1>3, <1>6 DEF PayNothing, PayoutReturns, Sound
  <2>2. Continue("rebate")
    BY <1>6 DEF PayNothing, PayoutReturns
  <2> QED
    BY <1>1, <1>5, <2>1, <2>2, ContinueInv
<1>7. CASE PayRecipient
  <2> DEFINE phase == IF Native THEN "inPayout" ELSE "rebate"
  <2>1. 0 - Payout \in Int /\ AssetBalance(Withdrawn) + (0 - Payout) >= 0
    <3>1. AssetBalance(pool) \in Nat /\ AssetBalance(pool) >= Payout
      BY <1>1, <1>7 DEF PayRecipient, AssetBalance, PoolStates
    <3> QED
      BY <1>2, <1>3, <3>1
  <2>2. Sound(Debit(Withdrawn, Payout))
    BY <1>3, <2>1, CreditSound DEF Debit
  <2>3. Sound(pool)' /\ Continue(phase)
    BY <1>7, <2>2 DEF PayRecipient, Sound
  <2>4. phase \in Phases /\ phase # "insert"
    BY <1>5
  <2> HIDE DEF phase
  <2> QED
    BY <1>1, <2>3, <2>4, ContinueInv
<1>8. CASE PayPool
  <2> DEFINE w == Withdrawn
  <2>1. w \in PoolStates /\ Sound(w)
    BY <1>3, <1>4
  <2>2. pool' = IF Native THEN [w EXCEPT !.gasReserveEth = @ + Payout]
                          ELSE [w EXCEPT !.surplus = @ + Payout]
    BY <1>8 DEF PayPool
  <2> HIDE DEF w
  <2>3. w.gasReserveEth + Payout \in Nat /\ w.surplus + Payout \in Nat
        /\ w.ether \in Nat
    BY <1>2, <2>1 DEF PoolStates
  <2>4. Sound(pool)'
    BY <2>1, <2>2, <2>3, FundsSound DEF Sound
  <2>5. Continue("rebate")
    BY <1>8 DEF PayPool
  <2> QED
    BY <1>1, <1>5, <2>4, <2>5, ContinueInv
<1> QED
  BY <1>6, <1>7, <1>8

(* The rebate's call: what it reverts to is the storage just before it. *)
LEMMA PayRebateInv ==
  ASSUME Inv, PayRebate
  PROVE  Inv'
<1> DEFINE n == Len(stack)
<1> DEFINE reserved == [pool EXCEPT !.gasReserveEth = @ - gasRebateWei]
<1> DEFINE paid == [reserved EXCEPT !.ether = @ - gasRebateWei]
<1> DEFINE frame == [stack[n] EXCEPT !.phase = "inRebate", !.undo = reserved]
<1>1. /\ stack # <<>>
      /\ Sound(pool)
      /\ pool \in PoolStates
      /\ stack \in Seq(Frames)
      /\ pool' = paid
      /\ stack' = [stack EXCEPT ![n] = frame]
  BY DEF PayRebate, Running, Inv, Sound
<1>2. n \in 1 .. n /\ stack[n] \in Frames /\ SoundFrame(stack[n])
  BY <1>1, TopTyped DEF Top
<1>3. pool.gasReserveEth - gasRebateWei \in Nat /\ pool.ether - gasRebateWei \in Nat
  <2>1. pool.gasReserveEth >= gasRebateWei /\ pool.ether >= gasRebateWei
    BY DEF PayRebate, CanRebate
  <2>2. pool.gasReserveEth \in Nat /\ pool.ether \in Nat /\ gasRebateWei \in Nat
    BY <1>1, PoolAssumption DEF PoolStates
  <2> QED
    BY <2>1, <2>2
<1>4. Sound(reserved)
  BY <1>1, <1>3, FundsSound
<1>5. Sound(paid)
  <2>1. reserved.ether = pool.ether
    BY <1>1 DEF PoolStates
  <2> HIDE DEF reserved
  <2> QED
    BY <1>3, <1>4, <2>1, FundsSound
<1>6. frame \in Frames /\ SoundFrame(frame)
  <2>1. reserved \in PoolStates
    BY <1>4 DEF Sound
  <2> HIDE DEF reserved
  <2> QED
    BY <1>2, <1>4, <2>1 DEF Frames, SoundFrame, Phases, CalleePhases
<1> HIDE DEF frame, paid
<1>7. stack' \in Seq(Frames) /\ Len(stack') = n
  BY <1>1, <1>2, <1>6
<1>8. ASSUME NEW k \in 1 .. Len(stack') PROVE SoundFrame(stack'[k])
  <2>1. SoundFrame(stack[k]) /\ k \in 1 .. n
    BY <1>7 DEF Inv
  <2> QED
    BY <1>1, <1>2, <1>6, <2>1
<1>9. Sound(pool)'
  BY <1>1, <1>5 DEF Sound
<1> QED
  BY <1>7, <1>8, <1>9 DEF Inv, Sound, SoundFrame

(* The innermost call ends: its rebate is settled, or it fails. *)
LEMMA EndInv ==
  ASSUME Inv, SkipRebate \/ RebateReturns \/ Revert \/ RebateFails
  PROVE  Inv'
<1>1. stack # <<>> /\ Leave /\ Sound(pool)
  BY DEF SkipRebate, RebateReturns, Revert, RebateFails, Running, Inv
<1>2. Top \in Frames /\ Sound(Top.undo)
  BY <1>1, TopTyped
<1>3. Sound(OnFailure(Top))
  <2> DEFINE u == Top.undo
  <2>1. u \in PoolStates
    BY <1>2 DEF Sound
  <2> HIDE DEF u
  <2>2. u.gasReserveEth + gasRebateWei \in Nat /\ u.ether \in Nat
    BY <2>1, PoolAssumption DEF PoolStates
  <2>3. OnFailure(Top) = IF Top.phase = "inRebate"
                           THEN [u EXCEPT !.gasReserveEth = @ + gasRebateWei]
                           ELSE u
    BY DEF OnFailure, u
  <2>4. Sound(u)
    BY <1>2 DEF u
  <2>5. Sound([u EXCEPT !.gasReserveEth = @ + gasRebateWei])
    BY <2>2, <2>4, FundsSound
  <2> QED
    BY <2>3, <2>4, <2>5
<1>4. pool' = pool \/ pool' = OnFailure(Top)
  BY DEF SkipRebate, RebateReturns, Revert, RebateFails
<1>5. Sound(pool)'
  BY <1>1, <1>3, <1>4 DEF Sound
<1> QED
  BY <1>1, <1>5, PopInv

(* Funding of the reserve and unsolicited assets. *)
LEMMA ReceiveInv ==
  ASSUME Inv, NEW value \in Amounts, FundGasReserve(value) \/ ReceiveUnsolicited(value)
  PROVE  Inv'
<1>1. Sound(pool) /\ pool \in PoolStates /\ value \in Nat
  BY PoolAssumption DEF Inv, Sound
<1>2. pool.ether + value \in Nat /\ pool.gasReserveEth + value \in Nat
      /\ pool.surplus + value \in Nat
  BY <1>1 DEF PoolStates
<1>3. CASE FundGasReserve(value)
  <2>1. pool' = [pool EXCEPT !.ether = @ + value, !.gasReserveEth = @ + value]
    BY <1>3 DEF FundGasReserve
  <2>2. Sound([pool EXCEPT !.ether = @ + value, !.gasReserveEth = @ + value])
    BY <1>1, <1>2, FundsSound
  <2>3. Sound(pool)' /\ UNCHANGED stack
    BY <1>3, <2>1, <2>2 DEF Sound, FundGasReserve
  <2> QED
    BY <2>3 DEF Inv, Sound, SoundFrame
<1>4. CASE ReceiveUnsolicited(value)
  <2> DEFINE t == Credit(pool, value)
  <2>1. AssetBalance(pool) + value >= 0
    BY <1>1 DEF AssetBalance, PoolStates
  <2>2. Sound(t) /\ t.surplus = pool.surplus
    BY <1>1, <2>1, CreditSound DEF Credit, PoolStates
  <2>3. pool' = [t EXCEPT !.surplus = @ + value] /\ UNCHANGED stack
    BY <1>4 DEF ReceiveUnsolicited
  <2> HIDE DEF t
  <2>4. t.ether \in Nat
    BY <2>2 DEF Sound, PoolStates
  <2>5. Sound(pool)'
    BY <1>2, <2>2, <2>3, <2>4, FundsSound DEF Sound
  <2> QED
    BY <2>3, <2>5 DEF Inv, Sound, SoundFrame
<1> QED
  BY <1>3, <1>4

(* Every step of the pool preserves the invariant. *)
LEMMA StepInv == Inv /\ [Next]_vars => Inv'
<1> SUFFICES ASSUME Inv, [Next]_vars PROVE Inv'
  OBVIOUS
<1>1. CASE UNCHANGED vars
  BY <1>1 DEF vars, Inv, Sound, SoundFrame
<1>2. CASE Next
  <2>1. CASE Calls
    <3>1. ASSUME NEW amount \in Amounts, NEW c \in Outputs, Deposit(amount, c)
          PROVE  Inv'
      BY <3>1, DepositInv
    <3>2. ASSUME Withdrawals PROVE Inv'
      BY <3>2, Withdraw1Inv, WithdrawInv, WithdrawPartial1Inv DEF Withdrawals
    <3>3. ASSUME NEW value \in Amounts,
                 FundGasReserve(value) \/ ReceiveUnsolicited(value)
          PROVE  Inv'
      BY <3>3, ReceiveInv
    <3> QED
      BY <2>1, <3>1, <3>2, <3>3 DEF Calls
  <2>2. CASE Handlers
    BY <2>2, PayFeeInv, InsertDepositInv, PayoutInv, PayRebateInv, EndInv
       DEF Handlers
  <2>3. CASE Callees
    BY <2>3, PayFeeInv, PayoutInv, EndInv DEF Callees
  <2> QED
    BY <1>2, <2>1, <2>2, <2>3 DEF Next
<1> QED
  BY <1>1, <1>2

(* The invariant holds in every reachable state. *)
THEOREM Invariance == Spec => []Inv
BY InitInv, StepInv, PTL DEF Spec

-----------------------------------------------------------------------------

(***************************************************************************)
(* Storage and call stack keep their shape: in particular the balances,    *)
(* the gas reserve and the counters of ShieldedPool.sol never go below     *)
(* zero, in any nesting of calls.                                          *)
(***************************************************************************)
THEOREM TypeCorrect == Spec => []TypeOK
<1>1. Inv => TypeOK
  BY DEF Inv, Sound, TypeOK
<1> QED
  BY <1>1, Invariance, PTL

(***************************************************************************)
(* No leaf is ever spent twice, whatever the withdrawals are proved        *)
(* against and from wherever they are called.                              *)
(***************************************************************************)
THEOREM NoDoubleSpend == Spec => []NoLeafSpentTwice
<1>1. Inv => NoLeafSpentTwice
  BY DEF Inv, Sound, SpendsRecorded, NoLeafSpentTwice
<1> QED
  BY <1>1, Invariance, PTL

(***************************************************************************)
(* isKnownRoot() accepts exactly the roots of the last ROOT_HISTORY_SIZE   *)
(* tree sizes, also after calls that recorded roots were undone.           *)
(***************************************************************************)
THEOREM LatestRootsKnown == Spec => []KnownRootsAreTheLatest
<1>1. Inv => KnownRootsAreTheLatest
  BY DEF Inv, Sound, RingHoldsLatest, HoldsLatest, KnownRootsAreTheLatest,
         Ring!IsKnownRoot
<1> QED
  BY <1>1, Invariance, PTL

-----------------------------------------------------------------------------
(* The books balance for every depth of nested calls.  Each step of a handler   *)
(* moves the excess of the storage by exactly what it moves the debt of its     *)
(* call, so the innermost equation of BooksBalance is kept and the others are   *)
(* untouched.                                                                   *)

(* A deposit in progress carries the note of its net amount. *)
NetNotes ==
  \A k \in 1 .. Len(stack) :
    stack[k].op = "deposit" => stack[k].note.value = stack[k].amount - stack[k].fee

BooksInv == Inv /\ NetNotes /\ BooksBalance

-----------------------------------------------------------------------------
(* What the operators on storages do to the excess. *)

(* The excess of a storage may be negative: a note with nothing behind it. *)
LEMMA ExcessTyped ==
  ASSUME NEW s \in PoolStates
  PROVE  Excess(s) \in Int
BY DEF Excess, Held, AssetBalance, PoolStates

(* Assets received add to the excess, assets paid take from it. *)
LEMMA CreditExcess ==
  ASSUME NEW s \in PoolStates, NEW amount \in Int
  PROVE  Excess(Credit(s, amount)) = Excess(s) + amount
<1>1. CASE Native
  BY <1>1 DEF Credit, Excess, Held, AssetBalance, PoolStates
<1>2. CASE ~Native
  BY <1>2 DEF Credit, Excess, Held, AssetBalance, PoolStates
<1> QED
  BY <1>1, <1>2

(* A new note takes its value from the excess. *)
LEMMA InsertExcess ==
  ASSUME NEW s \in PoolStates, NEW c \in Commitments
  PROVE  Excess(Insert(s, c)) = Excess(s) - c.value
<1>1. c.value \in Int
  BY DEF Commitments
<1>2. /\ Insert(s, c).ether = s.ether
      /\ Insert(s, c).tokens = s.tokens
      /\ Insert(s, c).gasReserveEth = s.gasReserveEth
      /\ Insert(s, c).surplus = s.surplus
      /\ Insert(s, c).noteValue = s.noteValue + c.value
  BY DEF Insert, PoolStates
<1> QED
  BY <1>1, <1>2 DEF Excess, Held, AssetBalance, PoolStates

(* A note spent gives its value back to the excess. *)
LEMMA MarkSpentExcess ==
  ASSUME NEW s \in PoolStates, NEW word, word.commitment.value \in Int
  PROVE  Excess(MarkSpent(s, word)) = Excess(s) + word.commitment.value
<1>1. /\ MarkSpent(s, word).ether = s.ether
      /\ MarkSpent(s, word).tokens = s.tokens
      /\ MarkSpent(s, word).gasReserveEth = s.gasReserveEth
      /\ MarkSpent(s, word).surplus = s.surplus
      /\ MarkSpent(s, word).noteValue = s.noteValue - word.commitment.value
  BY DEF MarkSpent, PoolStates
<1> QED
  BY <1>1 DEF Excess, Held, AssetBalance, PoolStates

(* The public counters are not part of the books. *)
LEMMA CountExcess ==
  ASSUME NEW s \in PoolStates, NEW x \in Nat
  PROVE  /\ Excess([s EXCEPT !.totalDeposited = @ + x]) = Excess(s)
         /\ Excess([s EXCEPT !.totalWithdrawn = @ + x]) = Excess(s)
         /\ Excess([s EXCEPT !.totalFeesCollected = @ + x]) = Excess(s)
<1>1. Excess([s EXCEPT !.totalDeposited = @ + x]) = Excess(s)
  BY DEF Excess, Held, AssetBalance, PoolStates
<1>2. Excess([s EXCEPT !.totalWithdrawn = @ + x]) = Excess(s)
  BY DEF Excess, Held, AssetBalance, PoolStates
<1>3. Excess([s EXCEPT !.totalFeesCollected = @ + x]) = Excess(s)
  BY DEF Excess, Held, AssetBalance, PoolStates
<1> QED
  BY <1>1, <1>2, <1>3

-----------------------------------------------------------------------------
(* How the equations follow the stack. *)

(* A call starts with the debt by which it raised the excess. *)
LEMMA PushBalanced ==
  ASSUME NEW s, NEW t, NEW calls \in Seq(Frames), NEW frame \in Frames,
         Balanced(s, calls),
         Excess(OnFailure(frame)) = Excess(s),
         Excess(t) = Excess(OnFailure(frame)) + InFlight(frame)
  PROVE  Balanced(t, Append(calls, frame))
<1> DEFINE n == Len(calls)
<1> DEFINE more == Append(calls, frame)
<1>1. /\ n \in Nat
      /\ Len(more) = n + 1
      /\ more[n + 1] = frame
      /\ \A k \in 1 .. n : more[k] = calls[k]
  OBVIOUS
<1> HIDE DEF more
<1>2. ASSUME NEW k \in 0 .. n + 1
      PROVE  Excess(IF k = n + 1 THEN t ELSE OnFailure(more[k + 1]))
               = IF k = 0 THEN 0 ELSE Excess(OnFailure(more[k])) + InFlight(more[k])
  <2>1. CASE k = n + 1
    BY <1>1, <2>1
  <2>2. CASE k = n
    BY <1>1, <2>2 DEF Balanced
  <2>3. CASE k < n
    <3>1. more[k + 1] = calls[k + 1] /\ (k # 0 => more[k] = calls[k])
      BY <1>1, <2>3
    <3> QED
      BY <1>1, <2>3, <3>1 DEF Balanced
  <2> QED
    BY <1>1, <2>1, <2>2, <2>3
<1>3. Balanced(t, more)
  BY <1>1, <1>2 DEF Balanced
<1> QED
  BY <1>3 DEF more

(* A call ends as if it had failed: with no debt left, or undone. *)
LEMMA PopBalanced ==
  ASSUME NEW s, NEW t, NEW calls \in Seq(Frames), calls # <<>>, Balanced(s, calls),
         NEW rest, Len(rest) = Len(calls) - 1,
         \A k \in 1 .. Len(rest) : rest[k] = calls[k],
         Excess(t) = Excess(OnFailure(calls[Len(calls)]))
  PROVE  Balanced(t, rest)
<1> DEFINE m == Len(rest)
<1>1. m \in Nat /\ Len(calls) = m + 1
  OBVIOUS
<1>2. ASSUME NEW k \in 0 .. m
      PROVE  Excess(IF k = m THEN t ELSE OnFailure(rest[k + 1]))
               = IF k = 0 THEN 0 ELSE Excess(OnFailure(rest[k])) + InFlight(rest[k])
  <2>1. Excess(OnFailure(calls[k + 1]))
          = IF k = 0 THEN 0 ELSE Excess(OnFailure(calls[k])) + InFlight(calls[k])
    BY <1>1 DEF Balanced
  <2>2. k # 0 => rest[k] = calls[k]
    BY <1>1
  <2>3. k # m => rest[k + 1] = calls[k + 1]
    BY <1>1
  <2> QED
    BY <1>1, <2>1, <2>2, <2>3
<1> QED
  BY <1>2 DEF Balanced

(* The innermost call goes on, with what it reverts to at the same excess. *)
LEMMA StayBalanced ==
  ASSUME NEW s, NEW t, NEW calls \in Seq(Frames), calls # <<>>, Balanced(s, calls),
         NEW frame \in Frames,
         Excess(OnFailure(frame)) = Excess(OnFailure(calls[Len(calls)])),
         Excess(t) = Excess(OnFailure(frame)) + InFlight(frame)
  PROVE  Balanced(t, [calls EXCEPT ![Len(calls)] = frame])
<1> DEFINE n == Len(calls)
<1> DEFINE moved == [calls EXCEPT ![n] = frame]
<1>1. /\ n \in Nat /\ n >= 1
      /\ Len(moved) = n
      /\ moved[n] = frame
      /\ \A k \in 1 .. n - 1 : moved[k] = calls[k]
  OBVIOUS
<1> HIDE DEF moved
<1>2. ASSUME NEW k \in 0 .. n
      PROVE  Excess(IF k = n THEN t ELSE OnFailure(moved[k + 1]))
               = IF k = 0 THEN 0 ELSE Excess(OnFailure(moved[k])) + InFlight(moved[k])
  <2>1. CASE k = n
    BY <1>1, <2>1
  <2>2. CASE k < n
    <3>1. Excess(OnFailure(calls[k + 1]))
            = IF k = 0 THEN 0 ELSE Excess(OnFailure(calls[k])) + InFlight(calls[k])
      BY <1>1, <2>2 DEF Balanced
    <3>2. k # 0 => moved[k] = calls[k]
      BY <1>1, <2>2
    <3>3. Excess(OnFailure(moved[k + 1])) = Excess(OnFailure(calls[k + 1]))
      <4>1. CASE k + 1 = n
        BY <1>1, <4>1
      <4>2. CASE k + 1 # n
        BY <1>1, <2>2, <4>2
      <4> QED
        BY <4>1, <4>2
    <3> QED
      BY <1>1, <2>2, <3>1, <3>2, <3>3
  <2> QED
    BY <1>1, <2>1, <2>2
<1>3. Balanced(t, moved)
  BY <1>1, <1>2 DEF Balanced
<1> QED
  BY <1>3 DEF moved

-----------------------------------------------------------------------------
(* The three ways a step changes the stack, with what BooksInv also says. *)

(* An entry point. *)
LEMMA PushBooks ==
  ASSUME BooksInv, Inv', NEW frame \in Frames, Enter(frame),
         frame.undo = pool, frame.phase = "fee",
         Excess(pool') = Excess(pool) + frame.amount,
         frame.op = "deposit" => frame.note.value = frame.amount - frame.fee
  PROVE  BooksInv'
<1>1. stack \in Seq(Frames) /\ stack' = Append(stack, frame) /\ Balanced(pool, stack)
  BY DEF BooksInv, BooksBalance, Inv, Enter
<1>2. OnFailure(frame) = pool /\ InFlight(frame) = frame.amount
  BY DEF OnFailure, InFlight
<1>3. BooksBalance'
  BY <1>1, <1>2, PushBalanced DEF BooksBalance, Balanced
<1>4. NetNotes'
  BY <1>1 DEF BooksInv, NetNotes
<1> QED
  BY <1>3, <1>4 DEF BooksInv

(* The end of a call. *)
LEMMA PopBooks ==
  ASSUME BooksInv, Inv', stack # <<>>, Leave, Excess(pool') = Excess(OnFailure(Top))
  PROVE  BooksInv'
<1>1. stack \in Seq(Frames) /\ Balanced(pool, stack)
  BY DEF BooksInv, BooksBalance, Inv
<1>2. /\ Len(stack) \in Nat /\ Len(stack) >= 1
      /\ Len(stack') = Len(stack) - 1
      /\ \A k \in 1 .. Len(stack) - 1 : stack'[k] = stack[k]
  BY LeaveFacts DEF BooksInv
<1>3. BooksBalance'
  BY <1>1, <1>2, PopBalanced DEF BooksBalance, Balanced, Top
<1>4. NetNotes'
  BY <1>2 DEF BooksInv, NetNotes
<1> QED
  BY <1>3, <1>4 DEF BooksInv

(* The call goes on, and has paid what its debt went down by. *)
LEMMA ContinueBooks ==
  ASSUME BooksInv, Inv', stack # <<>>, NEW phase \in Phases, Continue(phase),
         phase # "inRebate", Top.phase # "inRebate",
         Excess(pool') - Excess(pool)
           = InFlight([Top EXCEPT !.phase = phase]) - InFlight(Top),
         pool' \in PoolStates
  PROVE  BooksInv'
<1> DEFINE frame == [Top EXCEPT !.phase = phase]
<1> DEFINE n == Len(stack)
<1>1. /\ stack \in Seq(Frames)
      /\ n \in 1 .. n
      /\ Balanced(pool, stack)
      /\ stack' = [stack EXCEPT ![n] = frame]
      /\ Top \in Frames
      /\ Top = stack[n]
  BY TopTyped DEF BooksInv, BooksBalance, Inv, Continue, Top
<1>2. /\ frame \in Frames
      /\ frame.undo = Top.undo
      /\ frame.phase = phase
      /\ frame.op = Top.op
      /\ frame.note = Top.note
      /\ frame.amount = Top.amount
      /\ frame.fee = Top.fee
  BY <1>1 DEF Frames
<1> HIDE DEF frame
<1>3. OnFailure(frame) = OnFailure(Top) /\ OnFailure(Top) \in PoolStates
  BY <1>1, <1>2 DEF OnFailure, Frames
<1>4. Excess(pool) = Excess(OnFailure(Top)) + InFlight(Top)
  BY <1>1 DEF Balanced
<1>5. /\ Excess(pool) \in Int /\ Excess(pool') \in Int
      /\ Excess(OnFailure(Top)) \in Int
      /\ InFlight(Top) \in Int /\ InFlight(frame) \in Int
  <2>1. pool \in PoolStates
    BY DEF BooksInv, Inv, Sound
  <2>2. InFlight(Top) \in Int /\ InFlight(frame) \in Int
    BY <1>1, <1>2 DEF InFlight, Frames, Phases, CalleePhases
  <2> QED
    BY <1>3, <2>1, <2>2, ExcessTyped
<1>6. Excess(pool') = Excess(OnFailure(frame)) + InFlight(frame)
  BY <1>3, <1>4, <1>5 DEF frame
<1>7. BooksBalance'
  BY <1>1, <1>2, <1>3, <1>6, StayBalanced DEF BooksBalance, Balanced
<1>8. NetNotes'
  BY <1>1, <1>2 DEF BooksInv, NetNotes
<1> QED
  BY <1>7, <1>8 DEF BooksInv

-----------------------------------------------------------------------------
(* The entry points. *)

(* deposit(): what is pulled is owed to the fee and to the note. *)
LEMMA DepositBooks ==
  ASSUME BooksInv, NEW amount \in Amounts, NEW c \in Outputs, Deposit(amount, c)
  PROVE  BooksInv'
<1> DEFINE fee == Fee(amount, depositFeePpm)
<1> DEFINE frame == [op |-> "deposit", phase |-> "fee", amount |-> amount,
                     fee |-> fee, note |-> c, recipient |-> "other",
                     undo |-> pool]
<1>1. amount \in Nat /\ c \in Commitments
  BY PoolAssumption DEF Outputs, Commitments
<1>2. fee \in Nat
  <2> HIDE DEF fee
  <2>1. fee \in 0 .. amount
    BY <1>1, FeeBound, PoolAssumption DEF fee
  <2> QED
    BY <1>1, <2>1
<1>3. pool \in PoolStates
  BY DEF BooksInv, Inv, Sound
<1>4. Excess(pool') = Excess(pool) + amount
  BY <1>1, <1>3, CreditExcess DEF Deposit
<1>5. Inv'
  BY DepositInv DEF BooksInv
<1>6. c.value = amount - fee /\ Enter(frame)
  BY DEF Deposit, DepositProof
<1> HIDE DEF fee
<1>7. frame \in Frames
  BY <1>1, <1>2, <1>3 DEF Frames, Phases, CalleePhases
<1> QED
  BY <1>4, <1>5, <1>6, <1>7, PushBooks

(* A withdrawal owes the notes it spends, less the change it inserts. *)
LEMMA StartPayingBooks ==
  ASSUME BooksInv, Inv', NEW updated, NEW amount \in Amounts,
         NEW fee \in 0 .. amount, NEW recipient \in Recipients,
         StartPaying(updated, amount, fee, recipient),
         Excess(updated) = Excess(pool) + amount
  PROVE  BooksInv'
<1> DEFINE frame == [op |-> "withdraw", phase |-> "fee", amount |-> amount,
                     fee |-> fee, note |-> NoNote, recipient |-> recipient,
                     undo |-> pool]
<1>1. amount \in Nat /\ fee \in Nat /\ recipient \in {"pool", "other"}
  BY PoolAssumption
<1>2. pool \in PoolStates
  BY DEF BooksInv, Inv, Sound
<1>3. frame \in Frames
  BY <1>1, <1>2 DEF Frames, Phases, CalleePhases
<1>4. Excess(pool') = Excess(pool) + amount /\ Enter(frame)
  BY DEF StartPaying
<1> QED
  BY <1>3, <1>4, PushBooks

(* The commitment in a word on offer is one of the tree's. *)
LEMMA OfferedValue ==
  ASSUME Inv, NEW word \in Offered
  PROVE  word.commitment.value \in Nat
<1>1. PICK i \in DOMAIN pool.leaves, a \in BOOLEAN :
        word = [index |-> i - 1, commitment |-> pool.leaves[i], alias |-> a]
  BY DEF Offered
<1>2. pool.leaves \in Seq(Commitments)
  BY DEF Inv, Sound, PoolStates
<1>3. pool.leaves[i] \in Commitments
  BY <1>2
<1> QED
  BY <1>1, <1>3 DEF Commitments

(* withdraw1(): the note is worth the amount. *)
LEMMA Withdraw1Books ==
  ASSUME BooksInv, NEW word \in Offered, NEW root \in TreeRoots,
         NEW amount \in Amounts, NEW fee \in 0 .. amount,
         NEW recipient \in Recipients,
         Withdraw1(root, word, amount, fee, recipient)
  PROVE  BooksInv'
<1>1. Inv /\ Inv' /\ pool \in PoolStates
  BY Withdraw1Inv DEF BooksInv, Inv, Sound
<1>2. word.commitment.value = amount /\ word.commitment.value \in Int
  BY <1>1, OfferedValue DEF Withdraw1, Withdraw1Proof
<1>3. Excess(MarkSpent(pool, word)) = Excess(pool) + amount
  BY <1>1, <1>2, MarkSpentExcess
<1>4. StartPaying(MarkSpent(pool, word), amount, fee, recipient)
  BY DEF Withdraw1
<1> QED
  BY <1>1, <1>3, <1>4, StartPayingBooks

(* withdraw(): the two notes together are. *)
LEMMA WithdrawBooks ==
  ASSUME BooksInv, NEW word1 \in Offered, NEW word2 \in Offered,
         NEW root \in TreeRoots, NEW amount \in Amounts, NEW fee \in 0 .. amount,
         NEW recipient \in Recipients,
         Withdraw(root, word1, word2, amount, fee, recipient)
  PROVE  BooksInv'
<1> DEFINE once == MarkSpent(pool, word1)
<1> DEFINE twice == MarkSpent(once, word2)
<1>1. Inv /\ Inv' /\ pool \in PoolStates /\ Sound(pool)
  BY WithdrawInv DEF BooksInv, Inv, Sound
<1>2. /\ Opens(pool, root, word1) /\ word1 \notin pool.nullifierSpent
      /\ word1.commitment.value + word2.commitment.value = amount
      /\ word1.commitment.value \in Nat
      /\ word2.commitment.value \in Nat
  BY <1>1, OfferedValue DEF Withdraw, Withdraw2Proof, Admissible
<1>3. once \in PoolStates
  <2>1. Sound(once)
    BY <1>1, <1>2, SpendSound
  <2> QED
    BY <2>1 DEF Sound
<1>4. Excess(once) = Excess(pool) + word1.commitment.value
  BY <1>1, <1>2, MarkSpentExcess
<1>5. StartPaying(twice, amount, fee, recipient)
  BY DEF Withdraw
<1> HIDE DEF once
<1>6. Excess(twice) = Excess(once) + word2.commitment.value
  BY <1>2, <1>3, MarkSpentExcess
<1> HIDE DEF twice
<1>7. Excess(twice) = Excess(pool) + amount
  BY <1>1, <1>2, <1>4, <1>6, ExcessTyped
<1> QED
  BY <1>1, <1>5, <1>7, StartPayingBooks

(* withdrawPartial1(): the note less its change is. *)
LEMMA WithdrawPartial1Books ==
  ASSUME BooksInv, NEW word \in Offered, NEW root \in TreeRoots,
         NEW amount \in Amounts, NEW fee \in 0 .. amount,
         NEW out \in Outputs, NEW recipient \in Recipients,
         WithdrawPartial1(root, word, amount, fee, out, recipient)
  PROVE  BooksInv'
<1> DEFINE spent == MarkSpent(pool, word)
<1> DEFINE updated == Insert(spent, out)
<1>1. Inv /\ Inv' /\ pool \in PoolStates /\ Sound(pool)
  BY WithdrawPartial1Inv DEF BooksInv, Inv, Sound
<1>2. /\ Opens(pool, root, word) /\ word \notin pool.nullifierSpent
      /\ word.commitment.value = amount + out.value
      /\ word.commitment.value \in Nat
      /\ amount \in Nat /\ out \in Commitments /\ out.value \in Nat
  BY <1>1, OfferedValue, PoolAssumption
     DEF WithdrawPartial1, WithdrawPartialProof, Admissible, Outputs, Commitments
<1>3. spent \in PoolStates
  <2>1. Sound(spent)
    BY <1>1, <1>2, SpendSound
  <2> QED
    BY <2>1 DEF Sound
<1>4. Excess(spent) = Excess(pool) + word.commitment.value
  BY <1>1, <1>2, MarkSpentExcess
<1>5. StartPaying(updated, amount, fee, recipient)
  BY DEF WithdrawPartial1
<1> HIDE DEF spent
<1>6. Excess(updated) = Excess(spent) - out.value
  BY <1>2, <1>3, InsertExcess
<1> HIDE DEF updated
<1>7. Excess(updated) = Excess(pool) + amount
  BY <1>1, <1>2, <1>4, <1>6, ExcessTyped
<1> QED
  BY <1>1, <1>5, <1>7, StartPayingBooks

(* Assets received, or paid when the balance covers them, keep the shape. *)
LEMMA CreditTyped ==
  ASSUME NEW s \in PoolStates, NEW amount \in Int, AssetBalance(s) + amount >= 0
  PROVE  Credit(s, amount) \in PoolStates
<1>1. CASE Native
  <2>1. s.ether + amount \in Nat
    BY <1>1 DEF AssetBalance, PoolStates
  <2> QED
    BY <1>1, <2>1 DEF Credit, PoolStates
<1>2. CASE ~Native
  <2>1. s.tokens + amount \in Nat
    BY <1>2 DEF AssetBalance, PoolStates
  <2> QED
    BY <1>2, <2>1 DEF Credit, PoolStates
<1> QED
  BY <1>1, <1>2

(* Funds for the reserve and unsolicited assets are outside the books. *)
LEMMA ReceiveBooks ==
  ASSUME BooksInv, NEW value \in Amounts,
         FundGasReserve(value) \/ ReceiveUnsolicited(value)
  PROVE  BooksInv'
<1>1. Inv' /\ pool \in PoolStates /\ value \in Nat /\ UNCHANGED stack
  BY ReceiveInv, PoolAssumption
     DEF BooksInv, Inv, Sound, FundGasReserve, ReceiveUnsolicited
<1>2. pool' \in PoolStates
  BY <1>1 DEF Inv, Sound
<1>3. Excess(pool') = Excess(pool)
  <2>1. CASE FundGasReserve(value)
    BY <1>1, <2>1 DEF FundGasReserve, Excess, Held, AssetBalance, PoolStates
  <2>2. CASE ReceiveUnsolicited(value)
    <3> DEFINE t == Credit(pool, value)
    <3>1. pool' = [t EXCEPT !.surplus = @ + value]
      BY <2>2 DEF ReceiveUnsolicited
    <3>2. Excess(t) = Excess(pool) + value
      BY <1>1, CreditExcess
    <3>3. t \in PoolStates
      <4>1. AssetBalance(pool) + value >= 0
        BY <1>1 DEF AssetBalance, PoolStates
      <4> QED
        BY <1>1, <4>1, CreditTyped
    <3>4. Excess(pool) \in Int
      BY <1>1, ExcessTyped
    <3> HIDE DEF t
    <3>5. Excess(pool') = Excess(t) - value
      <4>1. /\ pool'.ether = t.ether /\ pool'.tokens = t.tokens
            /\ pool'.gasReserveEth = t.gasReserveEth
            /\ pool'.noteValue = t.noteValue
            /\ pool'.surplus = t.surplus + value
        BY <3>1, <3>3 DEF PoolStates
      <4>2. /\ t.ether \in Nat /\ t.tokens \in Nat /\ t.gasReserveEth \in Nat
            /\ t.noteValue \in Int /\ t.surplus \in Nat /\ value \in Nat
        BY <1>1, <3>3 DEF PoolStates
      <4> QED
        BY <4>1, <4>2 DEF Excess, Held, AssetBalance
    <3> QED
      BY <1>1, <3>2, <3>4, <3>5
  <2> QED
    BY <2>1, <2>2
<1>4. Balanced(pool, stack)
  BY DEF BooksInv, BooksBalance
<1>5. BooksBalance'
  BY <1>1, <1>3, <1>4 DEF BooksBalance, Balanced
<1>6. NetNotes'
  BY <1>1 DEF BooksInv, NetNotes
<1> QED
  BY <1>1, <1>5, <1>6 DEF BooksInv

-----------------------------------------------------------------------------
(* The steps of a handler. *)

(* What a handler knows when it runs. *)
LEMMA RunningFacts ==
  ASSUME BooksInv, stack # <<>>
  PROVE  /\ Inv /\ pool \in PoolStates /\ Top \in Frames
         /\ Excess(pool) \in Int
         /\ Excess(OnFailure(Top)) \in Int
         /\ Excess(pool) = Excess(OnFailure(Top)) + InFlight(Top)
         /\ Top.op = "deposit" => Top.note.value = Top.amount - Top.fee
<1>1. Inv /\ pool \in PoolStates
  BY DEF BooksInv, Inv, Sound
<1>2. Top \in Frames /\ Len(stack) \in 1 .. Len(stack)
  BY <1>1, TopTyped
<1>3. Excess(pool) = Excess(OnFailure(Top)) + InFlight(Top)
  BY <1>2 DEF BooksInv, BooksBalance, Balanced, Top
<1>4. OnFailure(Top) \in PoolStates
  <2> DEFINE u == Top.undo
  <2>1. gasRebateWei \in Nat /\ u \in PoolStates
    BY <1>2, PoolAssumption DEF Frames
  <2>2. OnFailure(Top) = IF Top.phase = "inRebate"
                           THEN [u EXCEPT !.gasReserveEth = @ + gasRebateWei]
                           ELSE u
    BY DEF OnFailure
  <2> HIDE DEF u
  <2>3. u.gasReserveEth + gasRebateWei \in Nat
    BY <2>1 DEF PoolStates
  <2>4. [u EXCEPT !.gasReserveEth = @ + gasRebateWei] \in PoolStates
    BY <2>1, <2>3 DEF PoolStates
  <2> QED
    BY <2>1, <2>2, <2>4
<1>5. Top.op = "deposit" => Top.note.value = Top.amount - Top.fee
  BY <1>2 DEF BooksInv, NetNotes, Top
<1> QED
  BY <1>1, <1>2, <1>3, <1>4, <1>5, ExcessTyped

(* _payFee pays the fee's share of the debt. *)
LEMMA PayFeeBooks ==
  ASSUME BooksInv, PayNoFee \/ PayFee \/ FeeReturns
  PROVE  BooksInv'
<1>1. stack # <<>> /\ Top.phase \in {"fee", "inFee"}
  BY DEF PayNoFee, PayFee, FeeReturns, Running
<1>2. /\ Inv' /\ Inv /\ pool' \in PoolStates
      /\ pool \in PoolStates /\ Top \in Frames /\ Excess(pool) \in Int
  BY <1>1, PayFeeInv, RunningFacts DEF Inv, Sound
<1>3. Top.amount \in Nat /\ Top.fee \in Nat /\ AfterFee \in {"insert", "payout"}
  BY <1>2 DEF Frames, AfterFee
<1>4. \A phase \in Phases :
        [Top EXCEPT !.phase = phase].phase = phase
        /\ [Top EXCEPT !.phase = phase].amount = Top.amount
        /\ [Top EXCEPT !.phase = phase].fee = Top.fee
  BY <1>2 DEF Frames
<1>5. \A phase \in {"insert", "payout", "inFee"} :
        phase \in Phases
        /\ InFlight([Top EXCEPT !.phase = phase]) = Top.amount - Top.fee
  BY <1>4 DEF InFlight, Phases, CalleePhases
<1>6. CASE PayNoFee
  <2>1. InFlight(Top) = Top.amount - Top.fee
    BY <1>3, <1>6 DEF PayNoFee, Running, InFlight
  <2>2. Continue(AfterFee) /\ pool' = pool
    BY <1>6 DEF PayNoFee
  <2>3. Excess(pool') - Excess(pool)
          = InFlight([Top EXCEPT !.phase = AfterFee]) - InFlight(Top)
    BY <1>2, <1>3, <1>5, <2>1, <2>2
  <2> QED
    BY <1>1, <1>2, <1>3, <1>5, <2>2, <2>3, ContinueBooks
<1>7. CASE FeeReturns
  <2>1. InFlight(Top) = Top.amount - Top.fee
    BY <1>7 DEF FeeReturns, Running, InFlight
  <2>2. Continue(AfterFee) /\ pool' = pool
    BY <1>7 DEF FeeReturns
  <2>3. Excess(pool') - Excess(pool)
          = InFlight([Top EXCEPT !.phase = AfterFee]) - InFlight(Top)
    BY <1>2, <1>3, <1>5, <2>1, <2>2
  <2> QED
    BY <1>1, <1>2, <1>3, <1>5, <2>2, <2>3, ContinueBooks
<1>8. CASE PayFee
  <2> DEFINE phase == IF Native THEN "inFee" ELSE AfterFee
  <2> DEFINE paid == Debit(pool, Top.fee)
  <2>1. InFlight(Top) = Top.amount
    BY <1>8 DEF PayFee, Running, InFlight
  <2>2. Continue(phase) /\ pool' = [paid EXCEPT !.totalFeesCollected = @ + Top.fee]
    BY <1>8 DEF PayFee
  <2>3. Excess(paid) = Excess(pool) + (0 - Top.fee)
    BY <1>2, <1>3, CreditExcess DEF Debit
  <2>4. paid \in PoolStates
    <3>1. AssetBalance(pool) \in Nat /\ AssetBalance(pool) >= Top.fee
      BY <1>2, <1>8 DEF PayFee, AssetBalance, PoolStates
    <3>2. 0 - Top.fee \in Int /\ AssetBalance(pool) + (0 - Top.fee) >= 0
      BY <1>3, <3>1
    <3> QED
      BY <1>2, <3>2, CreditTyped DEF Debit
  <2> HIDE DEF paid
  <2>5. Excess(pool') = Excess(paid)
    BY <1>3, <2>2, <2>4, CountExcess
  <2>6. phase \in {"insert", "payout", "inFee"} /\ phase # "inRebate"
    BY <1>3
  <2> HIDE DEF phase
  <2>7. phase \in Phases
        /\ InFlight([Top EXCEPT !.phase = phase]) = Top.amount - Top.fee
    BY <1>5, <2>6
  <2>8. Excess(pool') - Excess(pool)
          = InFlight([Top EXCEPT !.phase = phase]) - InFlight(Top)
    BY <1>2, <1>3, <2>1, <2>3, <2>5, <2>7
  <2> QED
    BY <1>1, <1>2, <2>2, <2>6, <2>7, <2>8, ContinueBooks
<1> QED
  BY <1>6, <1>7, <1>8

(* The payout settles the rest of the debt. *)
LEMMA PayoutBooks ==
  ASSUME BooksInv, PayNothing \/ PayRecipient \/ PayPool \/ PayoutReturns
  PROVE  BooksInv'
<1>1. stack # <<>> /\ Top.phase \in {"payout", "inPayout"}
  BY DEF PayNothing, PayRecipient, PayPool, PayoutReturns, Running
<1>2. /\ Inv' /\ Inv /\ pool' \in PoolStates
      /\ pool \in PoolStates /\ Top \in Frames /\ Excess(pool) \in Int
  BY <1>1, PayoutInv, RunningFacts DEF Inv, Sound
<1>3. Top.amount \in Nat /\ Payout \in Nat
  BY <1>1, <1>2, TopTyped DEF Frames, Payout
<1>4. /\ {"rebate", "inPayout"} \subseteq Phases
      /\ \A phase \in {"rebate", "inPayout"} :
           InFlight([Top EXCEPT !.phase = phase]) = 0
  <2>1. \A phase \in Phases : [Top EXCEPT !.phase = phase].phase = phase
    BY <1>2 DEF Frames
  <2> QED
    BY <2>1 DEF InFlight, Phases, CalleePhases
<1>5. Top.phase = "payout" => InFlight(Top) = Payout
  BY DEF InFlight, Payout
<1>6. Withdrawn \in PoolStates /\ Excess(Withdrawn) = Excess(pool)
  <2>1. Sound(pool)
    BY <1>2 DEF Inv
  <2>2. Sound(Withdrawn)
    BY <1>3, <2>1, CountSound DEF Withdrawn
  <2>3. Excess(Withdrawn) = Excess(pool)
    BY <1>2, <1>3, CountExcess DEF Withdrawn
  <2> QED
    BY <2>2, <2>3 DEF Sound
<1>7. CASE PayoutReturns
  <2>1. InFlight(Top) = 0 /\ Continue("rebate") /\ pool' = pool
    BY <1>7 DEF PayoutReturns, Running, InFlight
  <2>2. Excess(pool') - Excess(pool)
          = InFlight([Top EXCEPT !.phase = "rebate"]) - InFlight(Top)
    BY <1>2, <1>4, <2>1
  <2> QED
    BY <1>1, <1>2, <1>4, <2>1, <2>2, ContinueBooks
<1>8. CASE PayNothing
  <2>1. InFlight(Top) = 0 /\ Continue("rebate") /\ pool' = Withdrawn
    BY <1>5, <1>8 DEF PayNothing, Running
  <2>2. Excess(pool') - Excess(pool)
          = InFlight([Top EXCEPT !.phase = "rebate"]) - InFlight(Top)
    BY <1>2, <1>4, <1>6, <2>1
  <2> QED
    BY <1>1, <1>2, <1>4, <2>1, <2>2, ContinueBooks
<1>9. CASE PayRecipient
  <2> DEFINE phase == IF Native THEN "inPayout" ELSE "rebate"
  <2>1. Continue(phase) /\ pool' = Debit(Withdrawn, Payout) /\ InFlight(Top) = Payout
    BY <1>5, <1>9 DEF PayRecipient, Running
  <2>2. Excess(pool') = Excess(Withdrawn) + (0 - Payout)
    BY <1>3, <1>6, <2>1, CreditExcess DEF Debit
  <2>3. phase \in {"rebate", "inPayout"} /\ phase # "inRebate"
    OBVIOUS
  <2> HIDE DEF phase
  <2>4. Excess(pool') - Excess(pool)
          = InFlight([Top EXCEPT !.phase = phase]) - InFlight(Top)
    BY <1>2, <1>3, <1>4, <1>6, <2>1, <2>2, <2>3
  <2> QED
    BY <1>1, <1>2, <1>4, <2>1, <2>3, <2>4, ContinueBooks
<1>10. CASE PayPool
  <2> DEFINE w == Withdrawn
  <2>1. /\ Continue("rebate") /\ InFlight(Top) = Payout
        /\ pool' = IF Native THEN [w EXCEPT !.gasReserveEth = @ + Payout]
                             ELSE [w EXCEPT !.surplus = @ + Payout]
    BY <1>5, <1>10 DEF PayPool, Running
  <2>2. w \in PoolStates /\ Excess(w) = Excess(pool)
    BY <1>6
  <2> HIDE DEF w
  <2>3. /\ pool'.ether = w.ether /\ pool'.tokens = w.tokens
        /\ pool'.noteValue = w.noteValue
        /\ Native => /\ pool'.gasReserveEth = w.gasReserveEth + Payout
                     /\ pool'.surplus = w.surplus
        /\ ~Native => pool'.surplus = w.surplus + Payout
    BY <2>1, <2>2 DEF PoolStates
  <2>4. Excess(pool') = Excess(w) - Payout
    BY <1>3, <2>2, <2>3 DEF Excess, Held, AssetBalance, PoolStates
  <2>5. Excess(pool') - Excess(pool)
          = InFlight([Top EXCEPT !.phase = "rebate"]) - InFlight(Top)
    BY <1>2, <1>3, <1>4, <2>1, <2>2, <2>4
  <2> QED
    BY <1>1, <1>2, <1>4, <2>1, <2>5, ContinueBooks
<1> QED
  BY <1>7, <1>8, <1>9, <1>10

(* deposit(), its insert: the net amount becomes the note. *)
LEMMA InsertDepositBooks ==
  ASSUME BooksInv, InsertDeposit
  PROVE  BooksInv'
<1> DEFINE inserted == Insert(pool, Top.note)
<1>1. stack # <<>> /\ Top.phase = "insert" /\ ~TreeFull(pool) /\ Leave
  BY DEF InsertDeposit, Running
<1>2. /\ Inv' /\ Inv /\ pool \in PoolStates
      /\ Excess(pool) = Excess(OnFailure(Top)) + InFlight(Top)
      /\ Excess(OnFailure(Top)) \in Int
      /\ Top.amount \in Nat /\ Top.fee \in Nat
  BY <1>1, InsertDepositInv, RunningFacts DEF Frames
<1>3. Top.note \in Commitments /\ Top.note.value = Top.amount - Top.fee
  BY <1>1, TopTyped, RunningFacts DEF SoundFrame, BooksInv
<1>4. inserted \in PoolStates /\ Excess(inserted) = Excess(pool) - Top.note.value
  BY <1>1, <1>2, <1>3, InsertTyped, InsertExcess
<1>5. InFlight(Top) = Top.amount - Top.fee
  BY <1>1 DEF InFlight
<1>6. pool' = [inserted EXCEPT !.totalDeposited = @ + Top.amount]
  BY DEF InsertDeposit
<1> HIDE DEF inserted
<1>7. Excess(pool') = Excess(inserted)
  BY <1>2, <1>4, <1>6, CountExcess
<1>8. Excess(pool') = Excess(OnFailure(Top))
  BY <1>2, <1>3, <1>4, <1>5, <1>7
<1> QED
  BY <1>1, <1>2, <1>8, PopBooks

(* The rebate is paid from the reserve, on success and on failure. *)
LEMMA PayRebateBooks ==
  ASSUME BooksInv, PayRebate
  PROVE  BooksInv'
<1> DEFINE n == Len(stack)
<1> DEFINE reserved == [pool EXCEPT !.gasReserveEth = @ - gasRebateWei]
<1> DEFINE frame == [stack[n] EXCEPT !.phase = "inRebate", !.undo = reserved]
<1>1. /\ stack # <<>> /\ Top.phase = "rebate"
      /\ pool' = [reserved EXCEPT !.ether = @ - gasRebateWei]
      /\ stack' = [stack EXCEPT ![n] = frame]
      /\ pool.gasReserveEth >= gasRebateWei
  BY DEF PayRebate, Running, CanRebate
<1>2. /\ Inv' /\ Inv /\ pool \in PoolStates
      /\ Top \in Frames /\ stack \in Seq(Frames) /\ gasRebateWei \in Nat
      /\ Excess(pool) = Excess(OnFailure(Top)) + InFlight(Top)
      /\ Excess(OnFailure(Top)) \in Int
  BY <1>1, PayRebateInv, RunningFacts, PoolAssumption DEF Inv
<1>3. n \in 1 .. n /\ stack[n] = Top
  BY <1>1, <1>2, TopTyped DEF Top
<1>4. /\ reserved.gasReserveEth = pool.gasReserveEth - gasRebateWei
      /\ reserved.ether = pool.ether /\ reserved.tokens = pool.tokens
      /\ reserved.surplus = pool.surplus /\ reserved.noteValue = pool.noteValue
      /\ reserved \in PoolStates
  <2>1. pool.gasReserveEth - gasRebateWei \in Nat
    BY <1>1, <1>2 DEF PoolStates
  <2> QED
    BY <1>2, <2>1 DEF PoolStates
<1> HIDE DEF reserved
<1>5. /\ frame \in Frames /\ frame.undo = reserved /\ frame.phase = "inRebate"
      /\ frame.op = Top.op /\ frame.note = Top.note
      /\ frame.amount = Top.amount /\ frame.fee = Top.fee
  BY <1>2, <1>3, <1>4 DEF Frames, Phases, CalleePhases
<1> HIDE DEF frame
<1>6. Excess(OnFailure(frame)) = Excess(pool)
  <2>1. OnFailure(frame) = [reserved EXCEPT !.gasReserveEth = @ + gasRebateWei]
    BY <1>5 DEF OnFailure
  <2> QED
    BY <1>2, <1>4, <2>1 DEF Excess, Held, AssetBalance, PoolStates
<1>7. InFlight(Top) = 0 /\ InFlight(frame) = 0
  BY <1>1, <1>5 DEF InFlight
<1>8. Excess(pool') = Excess(pool)
  <2>1. /\ pool'.ether = pool.ether - gasRebateWei
        /\ pool'.tokens = pool.tokens
        /\ pool'.gasReserveEth = pool.gasReserveEth - gasRebateWei
        /\ pool'.surplus = pool.surplus /\ pool'.noteValue = pool.noteValue
    BY <1>1, <1>4 DEF PoolStates
  <2> QED
    BY <1>2, <2>1 DEF Excess, Held, AssetBalance, PoolStates
<1>9. Balanced(pool, stack)
  BY DEF BooksInv, BooksBalance
<1>10. BooksBalance'
  BY <1>1, <1>2, <1>3, <1>5, <1>6, <1>7, <1>8, <1>9, StayBalanced
     DEF BooksBalance, Balanced
<1>11. NetNotes'
  BY <1>1, <1>2, <1>3, <1>5 DEF BooksInv, NetNotes
<1> QED
  BY <1>2, <1>10, <1>11 DEF BooksInv

(* The call ends with nothing owed, or as if it had not been made. *)
LEMMA EndBooks ==
  ASSUME BooksInv, SkipRebate \/ RebateReturns \/ Revert \/ RebateFails
  PROVE  BooksInv'
<1>1. stack # <<>> /\ Leave
  BY DEF SkipRebate, RebateReturns, Revert, RebateFails, Running
<1>2. /\ Inv' /\ Inv
      /\ Excess(pool) = Excess(OnFailure(Top)) + InFlight(Top)
      /\ Excess(OnFailure(Top)) \in Int
  BY <1>1, EndInv, RunningFacts DEF BooksInv
<1>3. CASE SkipRebate \/ RebateReturns
  <2>1. pool' = pool /\ InFlight(Top) = 0
    BY <1>3 DEF SkipRebate, RebateReturns, Running, InFlight
  <2>2. Excess(pool') = Excess(OnFailure(Top))
    BY <1>2, <2>1
  <2> QED
    BY <1>1, <1>2, <2>2, PopBooks
<1>4. CASE Revert \/ RebateFails
  <2>1. pool' = OnFailure(Top)
    BY <1>4 DEF Revert, RebateFails
  <2> QED
    BY <1>1, <1>2, <2>1, PopBooks
<1> QED
  BY <1>3, <1>4

-----------------------------------------------------------------------------

(* The constructor's books are empty. *)
LEMMA InitBooks == Init => BooksInv
<1> SUFFICES ASSUME Init PROVE BooksInv
  OBVIOUS
<1>1. Inv
  BY InitInv
<1>2. stack = <<>> /\ pool = EmptyPool /\ Len(stack) = 0
  BY DEF Init
<1>3. Excess(pool) = 0
  BY <1>2 DEF EmptyPool, Excess, Held, AssetBalance
<1>4. BooksBalance
  BY <1>2, <1>3 DEF BooksBalance, Balanced
<1>5. NetNotes
  BY <1>2 DEF NetNotes
<1> QED
  BY <1>1, <1>4, <1>5 DEF BooksInv

(* Every step of the pool keeps the books. *)
LEMMA StepBooks == BooksInv /\ [Next]_vars => BooksInv'
<1> SUFFICES ASSUME BooksInv, [Next]_vars PROVE BooksInv'
  OBVIOUS
<1>1. CASE UNCHANGED vars
  <2>1. Inv'
    BY <1>1, StepInv DEF BooksInv
  <2> QED
    BY <1>1, <2>1 DEF vars, BooksInv, BooksBalance, Balanced, NetNotes
<1>2. CASE Next
  <2>1. CASE Calls
    <3>1. ASSUME NEW amount \in Amounts, NEW c \in Outputs, Deposit(amount, c)
          PROVE  BooksInv'
      BY <3>1, DepositBooks
    <3>2. ASSUME Withdrawals PROVE BooksInv'
      BY <3>2, Withdraw1Books, WithdrawBooks, WithdrawPartial1Books DEF Withdrawals
    <3>3. ASSUME NEW value \in Amounts,
                 FundGasReserve(value) \/ ReceiveUnsolicited(value)
          PROVE  BooksInv'
      BY <3>3, ReceiveBooks
    <3> QED
      BY <2>1, <3>1, <3>2, <3>3 DEF Calls
  <2>2. CASE Handlers
    BY <2>2, PayFeeBooks, InsertDepositBooks, PayoutBooks, PayRebateBooks, EndBooks
       DEF Handlers
  <2>3. CASE Callees
    BY <2>3, PayFeeBooks, PayoutBooks, EndBooks DEF Callees
  <2> QED
    BY <1>2, <2>1, <2>2, <2>3 DEF Next
<1> QED
  BY <1>1, <1>2

(***************************************************************************)
(* ShieldedPool.sol holds, beyond the value of the notes not yet spent,    *)
(* exactly what the calls in progress still owe, and without any call      *)
(* nothing more and nothing less: in any nesting of calls, whichever of    *)
(* them fail, and whoever the payouts name.                                *)
(***************************************************************************)
THEOREM BooksAreBalanced == Spec => []BooksBalance
<1>1. Spec => []BooksInv
  BY InitBooks, StepBooks, PTL DEF Spec
<1>2. BooksInv => BooksBalance
  BY DEF BooksInv
<1> QED
  BY <1>1, <1>2, PTL

-----------------------------------------------------------------------------
(* What the notes are worth, and what inserting or spending one does to it. *)

(* What the tree's notes are worth, leaf by leaf. *)
Values(s) == [i \in DOMAIN s.leaves |-> s.leaves[i].value]

(* Every note is worth something; a word on record is that of a leaf; and the   *)
(* running value of the notes is that of those not spent.                       *)
Noted(s) ==
  /\ \A i \in DOMAIN s.leaves : s.leaves[i].value > 0
  /\ \A word \in s.nullifierSpent : word.index < Len(s.leaves)
  /\ s.noteValue = UnspentValue(s)

(* The tree's leaves are commitments with natural values. *)
LEMMA LeafFacts ==
  ASSUME NEW s \in PoolStates
  PROVE  /\ s.leaves \in Seq(Commitments) /\ Len(s.leaves) \in Nat
         /\ DOMAIN s.leaves = 1 .. Len(s.leaves)
         /\ \A i \in DOMAIN s.leaves : s.leaves[i] \in Commitments /\ s.leaves[i].value \in Nat
         /\ \A i \in DOMAIN s.leaves : Values(s)[i] = s.leaves[i].value
         /\ IsFiniteSet(DOMAIN s.leaves)
<1>1. s.leaves \in Seq(Commitments)
  BY DEF PoolStates
<1>2. Len(s.leaves) \in Nat /\ DOMAIN s.leaves = 1 .. Len(s.leaves)
  BY <1>1
<1>3. \A i \in DOMAIN s.leaves : s.leaves[i] \in Commitments
  BY <1>1
<1>4. \A c \in Commitments : c.value \in Nat
  BY DEF Commitments
<1>5. IsFiniteSet(DOMAIN s.leaves)
  BY <1>2, FS_Interval
<1> QED
  BY <1>1, <1>2, <1>3, <1>4, <1>5 DEF Values

(* A sum of values of leaves, as TLC computes it. *)
LEMMA LeafSum ==
  ASSUME NEW s \in PoolStates, NEW U, U \subseteq DOMAIN s.leaves
  PROVE  /\ IsFiniteSet(U)
         /\ MapThenSumSet(LAMBDA i : s.leaves[i].value, U) = SumOver(Values(s), U)
         /\ SumOver(Values(s), U) \in Nat
<1> DEFINE f == Values(s)
<1>1. IsFiniteSet(U) /\ \A i \in U : f[i] \in Nat /\ f[i] = s.leaves[i].value
  BY LeafFacts, FS_Subset
<1> HIDE DEF f
<1> DEFINE R(g) == g = [T \in SUBSET U |-> IF T = {} THEN 0
                          ELSE s.leaves[CHOOSE x \in T : TRUE].value + g[T \ {CHOOSE x \in T : TRUE}]]
<1>2. \A g : Sums(g, f, U) <=> R(g)
  <2> SUFFICES ASSUME NEW g PROVE Sums(g, f, U) <=> R(g)
    OBVIOUS
  <2>1. \A T \in SUBSET U : T # {} => f[CHOOSE x \in T : TRUE] = s.leaves[CHOOSE x \in T : TRUE].value
    BY <1>1
  <2> QED
    BY <2>1 DEF Sums, AnyOf
<1>3. MapThenSumSet(LAMBDA i : s.leaves[i].value, U) = (CHOOSE g : R(g))[U]
  BY DEF MapThenSumSet, MapThenFoldSet
<1>4. PICK g : Sums(g, f, U)
  BY <1>1, SumsExist
<1>5. R(CHOOSE h : R(h))
  <2>1. R(g)
    BY <1>2, <1>4
  <2> HIDE DEF R
  <2> QED
    BY <2>1
<1>6. Sums(CHOOSE h : R(h), f, U)
  <2> HIDE DEF R
  <2> QED
    BY <1>2, <1>5
<1> DEFINE c == CHOOSE h : R(h)
<1> HIDE DEF R, c
<1>7. SumOver(f, U) = c[U]
  BY <1>1, <1>6, SumIs DEF c
<1>8. SumOver(f, U) \in Nat
  BY <1>1, SumNat
<1> QED
  BY <1>1, <1>3, <1>7, <1>8 DEF c, f

(* The value of the unspent notes is a sum of the leaves' values. *)
LEMMA UnspentSum ==
  ASSUME NEW s \in PoolStates
  PROVE  /\ UnspentValue(s) = SumOver(Values(s), Unspent(s))
         /\ UnspentValue(s) \in Nat
         /\ IsFiniteSet(Unspent(s))
         /\ Unspent(s) \subseteq DOMAIN s.leaves
<1>1. Unspent(s) \subseteq DOMAIN s.leaves
  BY DEF Unspent
<1> QED
  BY <1>1, LeafSum DEF UnspentValue

(* Funds and counters are not notes. *)
LEMMA MoveNoted ==
  ASSUME NEW s, NEW t, Noted(s),
         t.leaves = s.leaves, t.nullifierSpent = s.nullifierSpent, t.noteValue = s.noteValue
  PROVE  Noted(t)
<1>1. Unspent(t) = Unspent(s)
  BY DEF Unspent, WordOf
<1>2. UnspentValue(t) = UnspentValue(s)
  BY <1>1 DEF UnspentValue
<1> QED
  BY <1>2 DEF Noted

(* An insert adds the note's value to the notes. *)
LEMMA InsertNoted ==
  ASSUME NEW s \in PoolStates, NEW c \in Commitments, Noted(s), c.value > 0,
         Insert(s, c) \in PoolStates
  PROVE  Noted(Insert(s, c))
<1> DEFINE t == Insert(s, c)
<1> DEFINE n == Len(s.leaves)
<1>1. /\ t.leaves = Append(s.leaves, c) /\ t.nullifierSpent = s.nullifierSpent
      /\ t.noteValue = s.noteValue + c.value
  BY DEF Insert, PoolStates
<1>2. /\ n \in Nat /\ DOMAIN s.leaves = 1 .. n /\ Len(t.leaves) = n + 1
      /\ DOMAIN t.leaves = 1 .. n + 1 /\ t.leaves[n + 1] = c
      /\ \A i \in 1 .. n : t.leaves[i] = s.leaves[i]
  BY <1>1, LeafFacts
<1>3. t \in PoolStates /\ c.value \in Nat
  BY DEF Commitments
<1> HIDE DEF t, n
<1>4. \A i \in 1 .. n : WordOf(t, i) = WordOf(s, i)
  BY <1>2 DEF WordOf
<1>5. WordOf(t, n + 1) \notin t.nullifierSpent
  <2>1. WordOf(t, n + 1).index = n
    BY <1>2 DEF WordOf
  <2> QED
    BY <1>1, <1>2, <2>1 DEF Noted, n
<1>6. Unspent(t) = Unspent(s) \union {n + 1}
  BY <1>1, <1>2, <1>4, <1>5 DEF Unspent
<1>7. IsFiniteSet(Unspent(s)) /\ n + 1 \notin Unspent(s) /\ Unspent(s) \subseteq 1 .. n
  <2>1. IsFiniteSet(Unspent(s)) /\ Unspent(s) \subseteq 1 .. n
    BY <1>2, UnspentSum
  <2>2. n + 1 \notin 1 .. n
    BY <1>2
  <2> QED
    BY <2>1, <2>2
<1>8. \A i \in 1 .. n : Values(t)[i] = Values(s)[i]
  <2>1. ASSUME NEW i \in 1 .. n PROVE Values(t)[i] = Values(s)[i]
    <3>1. i \in DOMAIN t.leaves /\ i \in DOMAIN s.leaves /\ t.leaves[i] = s.leaves[i]
      BY <1>2, <2>1
    <3> QED
      BY <3>1 DEF Values
  <2> QED
    BY <2>1
<1>9. Values(t)[n + 1] = c.value /\ \A i \in 1 .. n + 1 : Values(t)[i] \in Int
  <2>1. Values(t)[n + 1] = c.value
    BY <1>2 DEF Values
  <2>2. \A i \in DOMAIN t.leaves : Values(t)[i] \in Int
    BY <1>3, LeafFacts
  <2> QED
    BY <1>2, <2>1, <2>2
<1>10. SumOver(Values(t), Unspent(s) \union {n + 1}) = SumOver(Values(t), Unspent(s)) + c.value
  <2>1. \A i \in Unspent(s) \union {n + 1} : Values(t)[i] \in Int
    BY <1>2, <1>7, <1>9
  <2>2. SumOver(Values(t), Unspent(s) \union {n + 1})
          = SumOver(Values(t), Unspent(s)) + Values(t)[n + 1]
    BY <1>7, <2>1, SumAdd
  <2> QED
    BY <1>9, <2>2
<1>11. SumOver(Values(t), Unspent(s)) = SumOver(Values(s), Unspent(s))
  BY <1>7, <1>8, SumSame
<1>12. UnspentValue(t) = UnspentValue(s) + c.value
  BY <1>3, <1>6, <1>10, <1>11, UnspentSum
<1>13. \A i \in DOMAIN t.leaves : t.leaves[i].value > 0
  BY <1>2 DEF Noted
<1>14. \A word \in t.nullifierSpent : word.index < Len(t.leaves)
  <2> SUFFICES ASSUME NEW word \in s.nullifierSpent PROVE word.index < n + 1
    BY <1>1, <1>2
  <2>1. word \in Nullifiers /\ word.index < n
    BY DEF PoolStates, Noted, n
  <2>3. word.index \in Int
    BY <2>1, PoolAssumption DEF Nullifiers, LeafIndices
  <2> QED
    BY <1>2, <2>1, <2>3
<1> QED
  BY <1>1, <1>12, <1>13, <1>14 DEF Noted, t

(* Spending a leaf that has not been spent takes its value. *)
LEMMA MarkSpentNoted ==
  ASSUME NEW s \in PoolStates, Noted(s), NEW i \in Unspent(s),
         NEW word, word = WordOf(s, i), MarkSpent(s, word) \in PoolStates
  PROVE  Noted(MarkSpent(s, word))
<1> DEFINE t == MarkSpent(s, word)
<1>1. /\ t.leaves = s.leaves /\ t.nullifierSpent = s.nullifierSpent \union {word}
      /\ t.noteValue = s.noteValue - s.leaves[i].value
  BY DEF MarkSpent, PoolStates, WordOf
<1>2. t \in PoolStates
  OBVIOUS
<1> HIDE DEF t
<1>3. /\ i \in DOMAIN s.leaves /\ DOMAIN s.leaves = 1 .. Len(s.leaves)
      /\ Len(s.leaves) \in Nat
  BY LeafFacts DEF Unspent
<1>4. \A j \in DOMAIN s.leaves : WordOf(t, j) = WordOf(s, j) /\ (j # i => WordOf(s, j) # word)
  <2> SUFFICES ASSUME NEW j \in DOMAIN s.leaves
               PROVE  WordOf(t, j) = WordOf(s, j) /\ (j # i => WordOf(s, j) # word)
    OBVIOUS
  <2>1. WordOf(s, j).index = j - 1 /\ word.index = i - 1
    BY DEF WordOf
  <2> QED
    BY <1>1, <1>3, <2>1 DEF WordOf
<1>5. Unspent(t) = Unspent(s) \ {i}
  BY <1>1, <1>3, <1>4 DEF Unspent
<1>6. Values(t) = Values(s)
  BY <1>1 DEF Values
<1>7. IsFiniteSet(Unspent(s)) /\ \A j \in Unspent(s) : Values(s)[j] \in Int
  BY LeafFacts, UnspentSum
<1>8. SumOver(Values(s), Unspent(s) \ {i}) = SumOver(Values(s), Unspent(s)) - Values(s)[i]
  BY <1>7, SumRemove
<1>9. Values(s)[i] = s.leaves[i].value
  BY <1>3, LeafFacts
<1>10. UnspentValue(t) = UnspentValue(s) - s.leaves[i].value
  BY <1>2, <1>5, <1>6, <1>8, <1>9, UnspentSum
<1>11. \A w \in t.nullifierSpent : w.index < Len(t.leaves)
  <2>1. word.index = i - 1
    BY DEF WordOf
  <2> QED
    BY <1>1, <1>3, <2>1 DEF Noted
<1> QED
  BY <1>1, <1>10, <1>11 DEF Noted, t

-----------------------------------------------------------------------------
(* How calls that succeed build on one another. *)

(* What the public counters say was deposited, not withdrawn and is in no note. *)
Gap(s) == s.totalDeposited - s.totalWithdrawn - s.noteValue

(* Notes are only added, and only spent. *)
Extends(s, t) ==
  /\ Len(s.leaves) <= Len(t.leaves)
  /\ \A i \in DOMAIN s.leaves : t.leaves[i] = s.leaves[i]
  /\ s.nullifierSpent \subseteq t.nullifierSpent

(* From s to t the gap grew by `due` and by deposit fees, which are a part of   *)
(* the fees counted beyond `paid`.                                              *)
Follows(s, t, due, paid) ==
  /\ Extends(s, t)
  /\ Gap(t) - Gap(s) - due >= 0
  /\ Gap(t) - Gap(s) - due <= t.totalFeesCollected - s.totalFeesCollected - paid

(* The amount whose notes a withdrawal has spent and not yet counted.           *)
Awaiting(frame) ==
  IF \/ frame.op = "withdraw" /\ frame.phase \in {"fee", "inFee"}
     \/ frame.phase = "payout"
    THEN frame.amount ELSE 0

(* The fee a deposit has counted and not yet taken from its amount.             *)
Prepaid(frame) ==
  IF \/ frame.op = "deposit" /\ frame.phase = "inFee"
     \/ frame.phase = "insert"
    THEN frame.fee ELSE 0

Link(s, t, frame) == Follows(s, t, Awaiting(frame), Prepaid(frame))

(* Each call starts from a storage the one around it led to, and the outermost  *)
(* from one the empty pool led to.                                              *)
Reconciled(s, calls) ==
  /\ Follows(EmptyPool, IF calls = <<>> THEN s ELSE OnFailure(calls[1]), 0, 0)
  /\ \A k \in 1 .. Len(calls) :
       Link(OnFailure(calls[k]),
            IF k = Len(calls) THEN s ELSE OnFailure(calls[k + 1]), calls[k])

(* The reserve of a token pool is all its ether covers; that of an ETH pool is  *)
(* accounted for by the books.                                                  *)
Reserved(s) == ~Native => s.ether >= s.gasReserveEth

Whole(s) == Noted(s) /\ Reserved(s)

WholeCalls(calls) ==
  \A k \in 1 .. Len(calls) :
    /\ Whole(OnFailure(calls[k]))
    /\ calls[k].op = "deposit" => calls[k].note.value > 0

LedgerInv ==
  /\ BooksInv
  /\ Whole(pool)
  /\ WholeCalls(stack)
  /\ Reconciled(pool, stack)

(* A step that keeps the ledger, and that only adds to what was committed.      *)
LedgerStep == LedgerInv' /\ Extends(Committed, Committed')

(* A storage and the one a failed call leaves have the storage's shape. *)
LEMMA OnFailureTyped ==
  ASSUME NEW frame \in Frames
  PROVE  /\ OnFailure(frame) \in PoolStates
         /\ Awaiting(frame) \in Nat /\ Prepaid(frame) \in Nat
<1> DEFINE u == frame.undo
<1>1. gasRebateWei \in Nat /\ u \in PoolStates
  BY PoolAssumption DEF Frames
<1>2. OnFailure(frame) = IF frame.phase = "inRebate"
                           THEN [u EXCEPT !.gasReserveEth = @ + gasRebateWei]
                           ELSE u
  BY DEF OnFailure
<1>3. Awaiting(frame) \in Nat /\ Prepaid(frame) \in Nat
  BY DEF Frames, Awaiting, Prepaid
<1> HIDE DEF u
<1>4. u.gasReserveEth + gasRebateWei \in Nat
  BY <1>1 DEF PoolStates
<1>5. [u EXCEPT !.gasReserveEth = @ + gasRebateWei] \in PoolStates
  BY <1>1, <1>4 DEF PoolStates
<1> QED
  BY <1>1, <1>2, <1>3, <1>5

(* The constructor's storage has a storage's shape. *)
LEMMA EmptyTyped == EmptyPool \in PoolStates
<1> DEFINE ring == Ring!RecordRoot(Ring!EmptyRing, 0)
<1>1. 0 \in TreeRoots
  BY PoolAssumption DEF TreeRoots
<1>2. Ring!EmptyRing \in Ring!Rings
  BY DEF Ring!EmptyRing, Ring!Rings, Ring!Slots
<1>3. ring \in Ring!Rings
  BY <1>1, <1>2, RingTyped
<1> HIDE DEF ring
<1>4. EmptyPool.ring = ring
  BY DEF EmptyPool, ring
<1>5. [i \in LeafIndices |-> 0] \in [LeafIndices -> Nat]
  OBVIOUS
<1> QED
  BY <1>3, <1>4, <1>5 DEF EmptyPool, PoolStates

(* A gap is an integer and the fees counted a natural number. *)
LEMMA GapTyped ==
  ASSUME NEW s \in PoolStates
  PROVE  Gap(s) \in Int /\ s.totalFeesCollected \in Nat
BY DEF Gap, PoolStates

(* A storage follows itself, and one that has moved by what is said. *)
LEMMA FollowsExactly ==
  ASSUME NEW s \in PoolStates, NEW t \in PoolStates, Extends(s, t),
         NEW due \in Int, NEW paid \in Int, Gap(t) = Gap(s) + due,
         t.totalFeesCollected = s.totalFeesCollected + paid
  PROVE  Follows(s, t, due, paid)
<1>1. Gap(s) \in Int /\ s.totalFeesCollected \in Nat
  BY GapTyped
<1> QED
  BY <1>1 DEF Follows

(* Adding to what was added to. *)
LEMMA ExtendsThen ==
  ASSUME NEW s \in PoolStates, NEW t \in PoolStates, NEW u \in PoolStates,
         Extends(s, t), Extends(t, u)
  PROVE  Extends(s, u)
<1>1. /\ Len(s.leaves) \in Nat /\ Len(t.leaves) \in Nat /\ Len(u.leaves) \in Nat
      /\ DOMAIN s.leaves = 1 .. Len(s.leaves) /\ DOMAIN t.leaves = 1 .. Len(t.leaves)
  BY LeafFacts
<1>2. Len(s.leaves) <= Len(u.leaves)
  BY <1>1 DEF Extends
<1>3. \A i \in DOMAIN s.leaves : u.leaves[i] = s.leaves[i]
  BY <1>1 DEF Extends
<1> QED
  BY <1>2, <1>3 DEF Extends

(* Debts and fees of one stretch after another add up. *)
LEMMA FollowsThen ==
  ASSUME NEW s \in PoolStates, NEW t \in PoolStates, NEW u \in PoolStates,
         NEW d \in Int, NEW p \in Int, NEW e \in Int, NEW q \in Int,
         Follows(s, t, d, p), Follows(t, u, e, q)
  PROVE  Follows(s, u, d + e, p + q)
<1>1. Extends(s, u)
  BY ExtendsThen DEF Follows
<1>2. /\ Gap(s) \in Int /\ Gap(t) \in Int /\ Gap(u) \in Int
      /\ s.totalFeesCollected \in Int /\ t.totalFeesCollected \in Int
      /\ u.totalFeesCollected \in Int
  BY GapTyped
<1> QED
  BY <1>1, <1>2 DEF Follows

(* A debt that is not paid counts as gap, and a fee paid as a fee. *)
LEMMA FollowsLoosely ==
  ASSUME NEW s \in PoolStates, NEW t \in PoolStates,
         NEW d \in Int, NEW p \in Int, NEW e \in Int, NEW q \in Int,
         Follows(s, t, d, p), e <= d, q - e <= p - d
  PROVE  Follows(s, t, e, q)
<1>1. /\ Gap(s) \in Int /\ Gap(t) \in Int
      /\ s.totalFeesCollected \in Int /\ t.totalFeesCollected \in Int
  BY GapTyped
<1> QED
  BY <1>1 DEF Follows

(* The same notes, spent and unspent. *)
LEMMA SameExtends ==
  ASSUME NEW s \in PoolStates, NEW t,
         t.leaves = s.leaves, t.nullifierSpent = s.nullifierSpent
  PROVE  Extends(s, t)
<1>1. Len(s.leaves) \in Nat
  BY LeafFacts
<1> QED
  BY <1>1 DEF Extends

-----------------------------------------------------------------------------
(* How the links follow the stack. *)

(* The stack `more` is that of `calls` with one more call. *)
Pushed(calls, frame, more) ==
  /\ Len(more) = Len(calls) + 1 /\ more # <<>> /\ more[Len(calls) + 1] = frame
  /\ \A k \in 1 .. Len(calls) : more[k] = calls[k]

(* A call that starts hangs one more link on the chain. *)
LEMMA PushReconciled ==
  ASSUME NEW s \in PoolStates, NEW t \in PoolStates, NEW calls \in Seq(Frames),
         NEW frame \in Frames, Reconciled(s, calls),
         OnFailure(frame) = s, Link(s, t, frame),
         NEW more, Pushed(calls, frame, more)
  PROVE  Reconciled(t, more)
<1> DEFINE n == Len(calls)
<1>1. /\ n \in Nat
      /\ Len(more) = n + 1
      /\ more[n + 1] = frame
      /\ \A k \in 1 .. n : more[k] = calls[k]
      /\ more # <<>>
      /\ calls = <<>> <=> n = 0
  BY DEF Pushed
<1> HIDE DEF n
<1>2. OnFailure(more[1]) = IF calls = <<>> THEN s ELSE OnFailure(calls[1])
  <2>1. CASE n = 0
    BY <1>1, <2>1
  <2>2. CASE n # 0
    BY <1>1, <2>2
  <2> QED
    BY <2>1, <2>2
<1>3. ASSUME NEW k \in 1 .. n + 1
      PROVE  Link(OnFailure(more[k]),
                  IF k = n + 1 THEN t ELSE OnFailure(more[k + 1]), more[k])
  <2>1. CASE k = n + 1
    BY <1>1, <2>1
  <2>2. CASE k # n + 1
    <3>1. k \in 1 .. n /\ more[k] = calls[k]
      BY <1>1, <2>2
    <3>2. OnFailure(more[k + 1]) = IF k = n THEN s ELSE OnFailure(calls[k + 1])
      <4>1. CASE k = n
        BY <1>1, <4>1
      <4>2. CASE k # n
        BY <1>1, <3>1, <4>2
      <4> QED
        BY <4>1, <4>2
    <3> QED
      BY <2>2, <3>1, <3>2 DEF Reconciled, n
  <2> QED
    BY <2>1, <2>2
<1> QED
  BY <1>1, <1>2, <1>3 DEF Reconciled

(* What the current storage leads to, the calls in progress lead to. *)
LEMMA KeepReconciled ==
  ASSUME NEW s \in PoolStates, NEW t \in PoolStates, NEW calls \in Seq(Frames),
         Reconciled(s, calls), Follows(s, t, 0, 0)
  PROVE  Reconciled(t, calls)
<1> DEFINE n == Len(calls)
<1>1. n \in Nat /\ (calls = <<>> <=> n = 0) /\ \A k \in 1 .. n : calls[k] \in Frames
  OBVIOUS
<1>2. ASSUME calls = <<>> PROVE Follows(EmptyPool, t, 0, 0)
  <2>1. Follows(EmptyPool, s, 0, 0)
    BY <1>2 DEF Reconciled
  <2>2. Follows(EmptyPool, t, 0 + 0, 0 + 0)
    BY <2>1, EmptyTyped, FollowsThen
  <2> QED
    BY <2>2
<1>3. ASSUME n # 0 PROVE Link(OnFailure(calls[n]), t, calls[n])
  <2> DEFINE frame == calls[n]
  <2>1. frame \in Frames /\ Link(OnFailure(frame), s, frame)
    BY <1>1, <1>3 DEF Reconciled
  <2> HIDE DEF frame
  <2>2. /\ OnFailure(frame) \in PoolStates
        /\ Awaiting(frame) \in Int /\ Prepaid(frame) \in Int
    BY <2>1, OnFailureTyped
  <2>3. Follows(OnFailure(frame), t, Awaiting(frame) + 0, Prepaid(frame) + 0)
    BY <2>1, <2>2, FollowsThen DEF Link
  <2>4. Link(OnFailure(frame), t, frame)
    BY <2>2, <2>3 DEF Link
  <2> QED
    BY <2>4 DEF frame
<1> QED
  BY <1>1, <1>2, <1>3 DEF Reconciled

(* The innermost call is dropped, as if it had not been made. *)
LEMMA DropReconciled ==
  ASSUME NEW s, NEW calls \in Seq(Frames), calls # <<>>, Reconciled(s, calls),
         NEW rest, Len(rest) = Len(calls) - 1,
         rest = <<>> <=> Len(rest) = 0,
         \A k \in 1 .. Len(rest) : rest[k] = calls[k]
  PROVE  Reconciled(OnFailure(calls[Len(calls)]), rest)
<1> DEFINE m == Len(rest)
<1> DEFINE t == OnFailure(calls[Len(calls)])
<1>1. m \in Nat /\ Len(calls) = m + 1
  OBVIOUS
<1>2. Follows(EmptyPool, IF rest = <<>> THEN t ELSE OnFailure(rest[1]), 0, 0)
  <2>1. Follows(EmptyPool, OnFailure(calls[1]), 0, 0)
    BY DEF Reconciled
  <2>2. CASE m = 0
    BY <1>1, <2>1, <2>2
  <2>3. CASE m # 0
    <3>1. rest[1] = calls[1] /\ rest # <<>>
      BY <1>1, <2>3
    <3> QED
      BY <2>1, <3>1
  <2> QED
    BY <2>2, <2>3
<1>3. ASSUME NEW k \in 1 .. m
      PROVE  Link(OnFailure(rest[k]), IF k = m THEN t ELSE OnFailure(rest[k + 1]), rest[k])
  <2>1. Link(OnFailure(calls[k]), OnFailure(calls[k + 1]), calls[k])
    BY <1>1 DEF Reconciled
  <2>2. rest[k] = calls[k] /\ (k # m => rest[k + 1] = calls[k + 1])
    BY <1>1
  <2> QED
    BY <1>1, <2>1, <2>2
<1> QED
  BY <1>2, <1>3 DEF Reconciled

-----------------------------------------------------------------------------

(* The ways a step changes the stack. *)

(* The parts of the invariant. *)
LEMMA LedgerFacts ==
  ASSUME LedgerInv
  PROVE  /\ BooksInv /\ Inv /\ pool \in PoolStates /\ stack \in Seq(Frames)
         /\ Len(stack) \in Nat
         /\ Whole(pool) /\ WholeCalls(stack) /\ Reconciled(pool, stack)
BY DEF LedgerInv, BooksInv, Inv, Sound

(* What is committed has a storage's shape. *)
LEMMA CommittedTyped ==
  ASSUME LedgerInv
  PROVE  Committed \in PoolStates
<1>1. stack # <<>> => stack[1] \in Frames
  BY LedgerFacts
<1> QED
  BY <1>1, LedgerFacts, OnFailureTyped DEF Committed

(* A step of the storage alone. *)
LEMMA KeepLedger ==
  ASSUME LedgerInv, BooksInv', pool' \in PoolStates, UNCHANGED stack,
         Whole(pool'), Follows(pool, pool', 0, 0)
  PROVE  LedgerStep
<1>1. Reconciled(pool', stack)
  BY LedgerFacts, KeepReconciled
<1>2. Reconciled(pool', stack') /\ WholeCalls(stack')
  BY <1>1, LedgerFacts
<1>3. Extends(Committed, Committed')
  <2>1. CASE stack = <<>>
    BY <2>1 DEF Committed, Follows
  <2>2. CASE stack # <<>>
    <3>1. Committed' = Committed
      BY <2>2 DEF Committed
    <3> QED
      BY <3>1, CommittedTyped, SameExtends
  <2> QED
    BY <2>1, <2>2
<1> QED
  BY <1>2, <1>3 DEF LedgerInv, LedgerStep

(* An entry point. *)
LEMMA PushLedger ==
  ASSUME LedgerInv, BooksInv', pool' \in PoolStates,
         NEW frame \in Frames, Enter(frame), frame.undo = pool, frame.phase = "fee",
         frame.op = "deposit" => frame.note.value > 0,
         Whole(pool'), Follows(pool, pool', Awaiting(frame), 0)
  PROVE  LedgerStep
<1>1. stack' = Append(stack, frame) /\ OnFailure(frame) = pool /\ Prepaid(frame) = 0
  BY DEF Enter, OnFailure, Prepaid
<1>2. Reconciled(pool', stack')
  <2>1. Link(pool, pool', frame)
    BY <1>1 DEF Link
  <2>2. Pushed(stack, frame, stack')
    BY <1>1, LedgerFacts DEF Pushed
  <2> QED
    BY <1>1, <2>1, <2>2, LedgerFacts, PushReconciled
<1>3. WholeCalls(stack')
  BY <1>1, LedgerFacts DEF WholeCalls
<1>4. Extends(Committed, Committed')
  <2>1. stack' # <<>> /\ stack'[1] = IF stack = <<>> THEN frame ELSE stack[1]
    BY <1>1, LedgerFacts
  <2>2. Committed' = Committed
    BY <1>1, <2>1 DEF Committed
  <2> QED
    BY <2>2, CommittedTyped, SameExtends
<1> QED
  BY <1>2, <1>3, <1>4 DEF LedgerInv, LedgerStep

(* The end of a call that leaves what its failure would, or more. *)
LEMMA PopLedger ==
  ASSUME LedgerInv, BooksInv', pool' \in PoolStates, stack # <<>>, Leave,
         Whole(pool'), Follows(OnFailure(Top), pool', 0, 0)
  PROVE  LedgerStep
<1>1. /\ stack' \in Seq(Frames) /\ Len(stack) \in Nat /\ Len(stack) >= 1
      /\ Len(stack') = Len(stack) - 1
      /\ \A k \in 1 .. Len(stack') : stack'[k] = stack[k]
      /\ stack' = <<>> <=> Len(stack') = 0
  BY LedgerFacts, LeaveFacts
<1>2. Reconciled(OnFailure(Top), stack')
  BY <1>1, LedgerFacts, DropReconciled DEF Top
<1>3. OnFailure(Top) \in PoolStates
  BY LedgerFacts, TopTyped, OnFailureTyped
<1>4. Reconciled(pool', stack')
  BY <1>1, <1>2, <1>3, KeepReconciled
<1>5. WholeCalls(stack')
  BY <1>1, LedgerFacts DEF WholeCalls
<1>6. Extends(Committed, Committed')
  <2>1. CASE Len(stack) = 1
    <3>1. stack' = <<>> /\ stack[1] = Top
      BY <1>1, <2>1 DEF Top
    <3> QED
      BY <3>1 DEF Committed, Follows
  <2>2. CASE Len(stack) # 1
    <3>1. stack' # <<>> /\ stack'[1] = stack[1]
      BY <1>1, <2>2
    <3>2. Committed' = Committed
      BY <3>1 DEF Committed
    <3> QED
      BY <3>2, CommittedTyped, SameExtends
  <2> QED
    BY <2>1, <2>2
<1> QED
  BY <1>4, <1>5, <1>6 DEF LedgerInv, LedgerStep

(* The calls around the innermost one. *)
LEMMA AllButLast ==
  ASSUME NEW calls \in Seq(Frames), calls # <<>>
  PROVE  \E rest \in Seq(Frames) :
           /\ Len(rest) = Len(calls) - 1
           /\ rest = <<>> <=> Len(rest) = 0
           /\ \A k \in 1 .. Len(rest) : rest[k] = calls[k]
<1> DEFINE m == Len(calls) - 1
<1> DEFINE rest == [k \in 1 .. m |-> calls[k]]
<1>1. m \in Nat /\ \A k \in 1 .. m : calls[k] \in Frames
  OBVIOUS
<1> HIDE DEF m
<1>2. rest \in Seq(Frames) /\ Len(rest) = m
  BY <1>1
<1>3. rest = <<>> <=> m = 0
  BY <1>1, <1>2
<1>4. \A k \in 1 .. m : rest[k] = calls[k]
  OBVIOUS
<1> HIDE DEF rest
<1> QED
  BY <1>1, <1>2, <1>3, <1>4 DEF m

(* The innermost call goes on, and what its failure leaves stays or is what it  *)
(* has reached.                                                                 *)
LEMMA StayLedger ==
  ASSUME LedgerInv, BooksInv', pool' \in PoolStates, stack # <<>>,
         NEW frame \in Frames, stack' = [stack EXCEPT ![Len(stack)] = frame],
         Follows(OnFailure(Top), OnFailure(frame), 0, 0), Whole(OnFailure(frame)),
         frame.op = Top.op, frame.note = Top.note,
         Whole(pool'), Link(OnFailure(frame), pool', frame)
  PROVE  LedgerStep
<1> DEFINE n == Len(stack)
<1>1. /\ stack \in Seq(Frames) /\ n \in Nat /\ n >= 1 /\ n \in 1 .. n
      /\ Top \in Frames /\ Top = stack[n]
  BY LedgerFacts, TopTyped DEF Top
<1>2. PICK rest \in Seq(Frames) :
        /\ Len(rest) = n - 1
        /\ rest = <<>> <=> Len(rest) = 0
        /\ \A k \in 1 .. Len(rest) : rest[k] = stack[k]
  BY <1>1, AllButLast
<1>8. Pushed(rest, frame, stack')
  BY <1>1, <1>2 DEF Pushed
<1>3. Reconciled(OnFailure(Top), rest)
  BY <1>1, <1>2, LedgerFacts, DropReconciled
<1>4. OnFailure(Top) \in PoolStates /\ OnFailure(frame) \in PoolStates
  BY <1>1, OnFailureTyped
<1>5. Reconciled(OnFailure(frame), rest)
  BY <1>2, <1>3, <1>4, KeepReconciled
<1>6. Reconciled(pool', stack')
  BY <1>2, <1>4, <1>5, <1>8, PushReconciled
<1>7. WholeCalls(stack')
  <2> SUFFICES ASSUME NEW k \in 1 .. n
               PROVE  /\ Whole(OnFailure(stack'[k]))
                      /\ stack'[k].op = "deposit" => stack'[k].note.value > 0
    BY <1>1 DEF WholeCalls
  <2>1. /\ Whole(OnFailure(stack[k]))
        /\ stack[k].op = "deposit" => stack[k].note.value > 0
    BY LedgerFacts DEF WholeCalls
  <2>2. CASE k = n
    <3>1. stack'[k] = frame /\ stack[k] = Top
      BY <1>1, <2>2
    <3> QED
      BY <2>1, <3>1
  <2>3. CASE k # n
    BY <1>1, <2>1, <2>3
  <2> QED
    BY <2>2, <2>3
<1>9. Extends(Committed, Committed')
  <2>1. CASE n = 1
    <3>1. stack' # <<>> /\ stack'[1] = frame /\ stack[1] = Top
      BY <1>1, <2>1
    <3> QED
      BY <3>1 DEF Committed, Follows
  <2>2. CASE n # 1
    <3>1. stack' # <<>> /\ stack'[1] = stack[1]
      BY <1>1, <2>2
    <3>2. Committed' = Committed
      BY <3>1 DEF Committed
    <3> QED
      BY <3>2, CommittedTyped, SameExtends
  <2> QED
    BY <2>1, <2>2
<1> QED
  BY <1>6, <1>7, <1>9 DEF LedgerInv, LedgerStep

(* The call goes on to a phase that leaves it with the same storage to fail to. *)
LEMMA ContinueLedger ==
  ASSUME LedgerInv, BooksInv', pool' \in PoolStates, stack # <<>>,
         NEW phase \in Phases, Continue(phase),
         phase # "inRebate", Top.phase # "inRebate",
         NEW due \in Int, NEW paid \in Int,
         Follows(pool, pool', due, paid),
         Awaiting([Top EXCEPT !.phase = phase]) = Awaiting(Top) + due,
         Prepaid([Top EXCEPT !.phase = phase]) <= Prepaid(Top) + paid,
         Whole(pool')
  PROVE  LedgerStep
<1> DEFINE frame == [Top EXCEPT !.phase = phase]
<1> DEFINE u == OnFailure(Top)
<1>1. /\ Top \in Frames /\ Len(stack) \in 1 .. Len(stack)
      /\ u \in PoolStates /\ pool \in PoolStates
      /\ Awaiting(Top) \in Int /\ Prepaid(Top) \in Int
      /\ stack' = [stack EXCEPT ![Len(stack)] = frame]
  BY LedgerFacts, TopTyped, OnFailureTyped DEF Continue, Top
<1>2. /\ frame \in Frames /\ frame.undo = Top.undo /\ frame.phase = phase
      /\ frame.op = Top.op /\ frame.note = Top.note
  BY <1>1 DEF Frames
<1>3. /\ Awaiting(frame) = Awaiting(Top) + due
      /\ Prepaid(frame) <= Prepaid(Top) + paid
  OBVIOUS
<1> HIDE DEF frame
<1>4. OnFailure(frame) = u
  BY <1>2 DEF OnFailure
<1> HIDE DEF u
<1>5. Link(u, pool, Top) /\ Whole(u)
  <2>1. Len(stack) = Len(stack) /\ Top = stack[Len(stack)]
    BY DEF Top
  <2> QED
    BY <1>1, <2>1, LedgerFacts DEF Reconciled, WholeCalls, u
<1>6. Follows(u, pool', Awaiting(Top) + due, Prepaid(Top) + paid)
  BY <1>1, <1>5, FollowsThen DEF Link
<1>7. Awaiting(frame) \in Int /\ Prepaid(frame) \in Int
  BY <1>2, OnFailureTyped
<1>8. Link(u, pool', frame)
  <2> DEFINE d == Awaiting(Top) + due
  <2> DEFINE p == Prepaid(Top) + paid
  <2>1. /\ d \in Int /\ p \in Int /\ Awaiting(frame) = d
        /\ Prepaid(frame) - Awaiting(frame) <= p - d
    BY <1>1, <1>3, <1>7
  <2>2. Follows(u, pool', d, p)
    BY <1>6
  <2> HIDE DEF d, p
  <2>3. Awaiting(frame) <= d
    BY <2>1
  <2> QED
    BY <1>1, <1>7, <2>1, <2>2, <2>3, FollowsLoosely DEF Link
<1>9. Follows(u, u, 0, 0)
  <2>1. Extends(u, u) /\ Gap(u) = Gap(u) + 0
        /\ u.totalFeesCollected = u.totalFeesCollected + 0
    BY <1>1, SameExtends, GapTyped
  <2> QED
    BY <1>1, <2>1, FollowsExactly
<1> QED
  BY <1>1, <1>2, <1>4, <1>5, <1>8, <1>9, StayLedger DEF u

-----------------------------------------------------------------------------
(* The operators on storages, and the calls that receive and spend. *)

(* A fee below the denominator leaves something of the amount. *)
LEMMA FeeBelow ==
  ASSUME NEW amount \in Nat, amount # 0, NEW ppm \in 0 .. FEE_DENOMINATOR - 1
  PROVE  amount - Fee(amount, ppm) > 0
<1> DEFINE D == FEE_DENOMINATOR
<1> DEFINE x == amount * ppm
<1> DEFINE q == x \div D
<1>1. D \in Nat \ {0} /\ ppm \in Nat /\ ppm < D
  BY PoolAssumption
<1>2. x \in Nat /\ x < D * amount
  <2>1. x \in Nat
    BY <1>1
  <2>2. x <= (D - 1) * amount /\ (D - 1) * amount = (D * amount) - amount
    BY <1>1
  <2> QED
    BY <1>1, <2>1, <2>2
<1>3. x = (D * q) + (x % D) /\ x % D \in 0 .. D - 1 /\ q \in Int
  <2> HIDE DEF x
  <2> QED
    BY <1>1, <1>2
<1> HIDE DEF x, q, D
<1>4. q < amount
  <2> SUFFICES ASSUME q >= amount PROVE FALSE
    BY <1>3
  <2>1. D * q >= D * amount
    BY <1>1, <1>3
  <2> QED
    BY <1>1, <1>2, <1>3, <2>1
<1> QED
  BY <1>3, <1>4 DEF Fee, q, x, D

(* What a step does to the gap and the fees when it moves no note. *)
LEMMA MoveWhole ==
  ASSUME NEW s \in PoolStates, NEW t, Whole(s), Reserved(t),
         t.leaves = s.leaves, t.nullifierSpent = s.nullifierSpent, t.noteValue = s.noteValue
  PROVE  Whole(t) /\ Extends(s, t)
BY MoveNoted, SameExtends DEF Whole

(* The counters are integers. *)
LEMMA CountersTyped ==
  ASSUME NEW s \in PoolStates
  PROVE  s.totalDeposited \in Int /\ s.totalWithdrawn \in Int /\ s.noteValue \in Int
BY DEF PoolStates

(* The storage after a step has a storage's shape. *)
LEMMA NextTyped ==
  ASSUME BooksInv'
  PROVE  pool' \in PoolStates
BY DEF BooksInv, Inv, Sound

(* Assets that come or go are neither notes nor counted. *)
LEMMA CreditWhole ==
  ASSUME NEW s \in PoolStates, NEW amount, Whole(s)
  PROVE  /\ Whole(Credit(s, amount)) /\ Extends(s, Credit(s, amount))
         /\ Gap(Credit(s, amount)) = Gap(s)
         /\ Credit(s, amount).totalFeesCollected = s.totalFeesCollected
<1> DEFINE t == Credit(s, amount)
<1>1. /\ t.leaves = s.leaves /\ t.nullifierSpent = s.nullifierSpent
      /\ t.noteValue = s.noteValue /\ t.totalDeposited = s.totalDeposited
      /\ t.totalWithdrawn = s.totalWithdrawn
      /\ t.totalFeesCollected = s.totalFeesCollected
      /\ t.gasReserveEth = s.gasReserveEth /\ (~Native => t.ether = s.ether)
  BY DEF Credit, PoolStates
<1> HIDE DEF t
<1>2. Reserved(t)
  BY <1>1 DEF Whole, Reserved
<1> QED
  BY <1>1, <1>2, MoveWhole DEF Gap, t

(* deposit(): nothing is counted before the fee. *)
LEMMA DepositLedger ==
  ASSUME LedgerInv, BooksInv', NEW amount \in Amounts, NEW c \in Outputs,
         Deposit(amount, c)
  PROVE  LedgerStep
<1> DEFINE fee == Fee(amount, depositFeePpm)
<1> DEFINE frame == [op |-> "deposit", phase |-> "fee", amount |-> amount,
                     fee |-> fee, note |-> c, recipient |-> "other",
                     undo |-> pool]
<1>1. amount \in Nat /\ c \in Commitments
  BY PoolAssumption DEF Outputs, Commitments
<1>2. fee \in Nat /\ amount - fee > 0
  <2>1. fee \in 0 .. amount /\ amount # 0
    BY <1>1, FeeBound, PoolAssumption DEF Deposit
  <2> QED
    BY <1>1, <2>1, FeeBelow, PoolAssumption
<1>3. pool \in PoolStates /\ pool' \in PoolStates
  BY LedgerFacts, NextTyped
<1>4. Follows(pool, pool', 0, 0) /\ Whole(pool')
  <2>1. pool' = Credit(pool, amount)
    BY DEF Deposit
  <2>2. /\ Whole(pool') /\ Extends(pool, pool') /\ Gap(pool') = Gap(pool)
        /\ pool'.totalFeesCollected = pool.totalFeesCollected
    BY <1>3, <2>1, CreditWhole, LedgerFacts
  <2>3. Gap(pool') = Gap(pool) + 0 /\ pool'.totalFeesCollected = pool.totalFeesCollected + 0
    BY <1>3, <2>2, GapTyped
  <2> QED
    BY <1>3, <2>2, <2>3, FollowsExactly
<1>5. c.value = amount - fee /\ Enter(frame)
  BY DEF Deposit, DepositProof
<1> HIDE DEF fee
<1>6. frame \in Frames /\ Awaiting(frame) = 0
  BY <1>1, <1>2, <1>3 DEF Frames, Phases, CalleePhases, Awaiting
<1> QED
  BY <1>2, <1>3, <1>4, <1>5, <1>6, PushLedger

(* A withdrawal awaits the amount whose notes it has spent. *)
LEMMA StartPayingLedger ==
  ASSUME LedgerInv, BooksInv', NEW updated, NEW amount \in Amounts,
         NEW fee \in 0 .. amount, NEW recipient \in Recipients,
         StartPaying(updated, amount, fee, recipient),
         Whole(updated), Follows(pool, updated, amount, 0)
  PROVE  LedgerStep
<1> DEFINE frame == [op |-> "withdraw", phase |-> "fee", amount |-> amount,
                     fee |-> fee, note |-> NoNote, recipient |-> recipient,
                     undo |-> pool]
<1>1. amount \in Nat /\ fee \in Nat /\ recipient \in {"pool", "other"}
  BY PoolAssumption
<1>2. pool \in PoolStates /\ pool' \in PoolStates
  BY LedgerFacts, NextTyped
<1>3. frame \in Frames /\ Awaiting(frame) = amount
  BY <1>1, <1>2 DEF Frames, Phases, CalleePhases, Awaiting
<1>4. pool' = updated /\ Enter(frame)
  BY DEF StartPaying
<1> QED
  BY <1>2, <1>3, <1>4, PushLedger

(* A note that is spent leaves its value to the gap. *)
LEMMA SpendWhole ==
  ASSUME Inv, NEW s, Sound(s), Whole(s), s.leaves = pool.leaves,
         NEW word \in Offered, NEW root \in TreeRoots, Opens(s, root, word),
         word \notin s.nullifierSpent
  PROVE  LET t == MarkSpent(s, word)
         IN  /\ s \in PoolStates /\ t \in PoolStates /\ Whole(t)
             /\ Follows(s, t, word.commitment.value, 0)
<1> DEFINE t == MarkSpent(s, word)
<1>1. s \in PoolStates /\ t \in PoolStates
  BY SpendSound DEF Sound
<1>2. PICK i \in DOMAIN pool.leaves, a \in BOOLEAN :
        word = [index |-> i - 1, commitment |-> pool.leaves[i], alias |-> a]
  BY DEF Offered
<1>3. a = FALSE
  BY <1>2 DEF Opens, InField
<1>4. word = WordOf(s, i) /\ i \in Unspent(s)
  BY <1>2, <1>3 DEF WordOf, Unspent
<1>5. Noted(t)
  BY <1>1, <1>4, MarkSpentNoted DEF Whole
<1>6. /\ t.leaves = s.leaves /\ t.nullifierSpent = s.nullifierSpent \union {word}
      /\ t.noteValue = s.noteValue - word.commitment.value
      /\ t.totalDeposited = s.totalDeposited /\ t.totalWithdrawn = s.totalWithdrawn
      /\ t.totalFeesCollected = s.totalFeesCollected
      /\ t.ether = s.ether /\ t.gasReserveEth = s.gasReserveEth
  BY <1>1 DEF MarkSpent, PoolStates
<1>7. word.commitment.value \in Int
  BY OfferedValue
<1> HIDE DEF t
<1>8. Reserved(t) /\ Extends(s, t)
  <2>1. Len(s.leaves) \in Nat
    BY <1>1, LeafFacts
  <2> QED
    BY <1>6, <2>1 DEF Reserved, Whole, Extends
<1>9. Gap(t) = Gap(s) + word.commitment.value
  BY <1>1, <1>6, <1>7, CountersTyped DEF Gap
<1>10. t.totalFeesCollected = s.totalFeesCollected + 0
  BY <1>1, <1>6, GapTyped
<1>11. Follows(s, t, word.commitment.value, 0)
  BY <1>1, <1>7, <1>8, <1>9, <1>10, FollowsExactly
<1> QED
  BY <1>1, <1>5, <1>8, <1>11 DEF Whole, t

(* A note that is inserted takes its value from the gap. *)
LEMMA InsertWhole ==
  ASSUME NEW s \in PoolStates, Whole(s), NEW c \in Commitments, c.value > 0,
         Insert(s, c) \in PoolStates
  PROVE  LET t == Insert(s, c)
         IN  Whole(t) /\ Follows(s, t, 0 - c.value, 0)
<1> DEFINE t == Insert(s, c)
<1>1. Noted(t) /\ t \in PoolStates
  BY InsertNoted DEF Whole
<1>2. /\ t.leaves = Append(s.leaves, c) /\ t.nullifierSpent = s.nullifierSpent
      /\ t.noteValue = s.noteValue + c.value
      /\ t.totalDeposited = s.totalDeposited /\ t.totalWithdrawn = s.totalWithdrawn
      /\ t.totalFeesCollected = s.totalFeesCollected
      /\ t.ether = s.ether /\ t.gasReserveEth = s.gasReserveEth
  BY DEF Insert, PoolStates
<1>3. c.value \in Int
  BY DEF Commitments
<1> HIDE DEF t
<1>4. Reserved(t) /\ Extends(s, t)
  BY <1>2, LeafFacts DEF Reserved, Whole, Extends
<1>5. Gap(t) = Gap(s) + (0 - c.value)
  BY <1>2, <1>3, CountersTyped DEF Gap
<1>6. t.totalFeesCollected = s.totalFeesCollected + 0 /\ 0 - c.value \in Int
  BY <1>2, <1>3, GapTyped
<1>7. Follows(s, t, 0 - c.value, 0)
  BY <1>1, <1>4, <1>5, <1>6, FollowsExactly
<1> QED
  BY <1>1, <1>4, <1>7 DEF Whole, t

(* withdraw1(). *)
LEMMA Withdraw1Ledger ==
  ASSUME LedgerInv, BooksInv', NEW word \in Offered, NEW root \in TreeRoots,
         NEW amount \in Amounts, NEW fee \in 0 .. amount,
         NEW recipient \in Recipients,
         Withdraw1(root, word, amount, fee, recipient)
  PROVE  LedgerStep
<1>1. /\ Inv /\ Sound(pool) /\ Whole(pool)
      /\ Opens(pool, root, word) /\ word \notin pool.nullifierSpent
      /\ word.commitment.value = amount
      /\ StartPaying(MarkSpent(pool, word), amount, fee, recipient)
  BY LedgerFacts DEF Inv, Withdraw1, Withdraw1Proof, Admissible
<1>2. Whole(MarkSpent(pool, word)) /\ Follows(pool, MarkSpent(pool, word), amount, 0)
  BY <1>1, SpendWhole
<1> QED
  BY <1>1, <1>2, StartPayingLedger

(* withdraw(): two notes, two leaves. *)
LEMMA WithdrawLedger ==
  ASSUME LedgerInv, BooksInv', NEW word1 \in Offered, NEW word2 \in Offered,
         NEW root \in TreeRoots, NEW amount \in Amounts, NEW fee \in 0 .. amount,
         NEW recipient \in Recipients,
         Withdraw(root, word1, word2, amount, fee, recipient)
  PROVE  LedgerStep
<1> DEFINE once == MarkSpent(pool, word1)
<1> DEFINE twice == MarkSpent(once, word2)
<1> DEFINE v1 == word1.commitment.value
<1> DEFINE v2 == word2.commitment.value
<1>1. /\ Inv /\ Sound(pool) /\ Whole(pool)
      /\ Opens(pool, root, word1) /\ word1 \notin pool.nullifierSpent
      /\ Opens(pool, root, word2) /\ word2 \notin pool.nullifierSpent
      /\ word1 # word2 /\ v1 + v2 = amount /\ v1 \in Int /\ v2 \in Int
      /\ StartPaying(twice, amount, fee, recipient)
  BY LedgerFacts, OfferedValue DEF Inv, Withdraw, Withdraw2Proof, Admissible
<1>2. /\ Sound(once) /\ once.leaves = pool.leaves
      /\ once.nullifierSpent = pool.nullifierSpent \union {word1}
  BY <1>1, SpendSound
<1>3. /\ pool \in PoolStates /\ once \in PoolStates /\ Whole(once)
      /\ Follows(pool, once, v1, 0)
  BY <1>1, SpendWhole
<1> HIDE DEF once
<1>4. Opens(once, root, word2) /\ word2 \notin once.nullifierSpent
  BY <1>1, <1>2 DEF Opens
<1>5. twice \in PoolStates /\ Whole(twice) /\ Follows(once, twice, v2, 0)
  BY <1>1, <1>2, <1>3, <1>4, SpendWhole
<1> HIDE DEF twice, v1, v2
<1>6. Follows(pool, twice, v1 + v2, 0 + 0)
  BY <1>1, <1>3, <1>5, FollowsThen
<1>7. Follows(pool, twice, amount, 0)
  BY <1>1, <1>6
<1> QED
  BY <1>1, <1>5, <1>7, StartPayingLedger

(* withdrawPartial1(): the note less its change. *)
LEMMA WithdrawPartial1Ledger ==
  ASSUME LedgerInv, BooksInv', NEW word \in Offered, NEW root \in TreeRoots,
         NEW amount \in Amounts, NEW fee \in 0 .. amount,
         NEW out \in Outputs, NEW recipient \in Recipients,
         WithdrawPartial1(root, word, amount, fee, out, recipient)
  PROVE  LedgerStep
<1> DEFINE spent == MarkSpent(pool, word)
<1> DEFINE updated == Insert(spent, out)
<1> DEFINE v == word.commitment.value
<1>1. /\ Inv /\ Sound(pool) /\ Whole(pool)
      /\ Opens(pool, root, word) /\ word \notin pool.nullifierSpent
      /\ ~TreeFull(pool) /\ v = amount + out.value /\ out.value > 0 /\ v \in Int
      /\ StartPaying(updated, amount, fee, recipient)
  BY LedgerFacts, OfferedValue DEF Inv, WithdrawPartial1, WithdrawPartialProof, Admissible
<1>2. out \in Commitments /\ out.value \in Int /\ amount \in Int
  <2>1. out \in Commitments /\ amount \in Nat
    BY PoolAssumption DEF Outputs, Commitments
  <2> QED
    BY <2>1 DEF Commitments
<1>3. spent.leaves = pool.leaves
  BY <1>1, SpendSound
<1>4. /\ pool \in PoolStates /\ spent \in PoolStates /\ Whole(spent)
      /\ Follows(pool, spent, v, 0)
  BY <1>1, SpendWhole
<1> HIDE DEF spent
<1>5. updated \in PoolStates
  BY <1>1, <1>2, <1>3, <1>4, InsertTyped DEF TreeFull
<1>6. Whole(updated) /\ Follows(spent, updated, 0 - out.value, 0)
  BY <1>1, <1>2, <1>4, <1>5, InsertWhole
<1> HIDE DEF updated, v
<1>7. 0 - out.value \in Int
  BY <1>2
<1>8. Follows(pool, updated, v + (0 - out.value), 0 + 0)
  BY <1>1, <1>4, <1>5, <1>6, <1>7, FollowsThen
<1>9. v + (0 - out.value) = amount
  BY <1>1, <1>2
<1>10. Follows(pool, updated, amount, 0)
  BY <1>8, <1>9
<1> QED
  BY <1>1, <1>6, <1>10, StartPayingLedger

(* What is counted when the storage moves no note and no gap. *)
LEMMA CountWhole ==
  ASSUME NEW s \in PoolStates, Whole(s), NEW x \in Nat
  PROVE  /\ LET t == [s EXCEPT !.totalDeposited = @ + x]
            IN  t \in PoolStates /\ Whole(t) /\ Follows(s, t, x, 0)
         /\ LET t == [s EXCEPT !.totalWithdrawn = @ + x]
            IN  t \in PoolStates /\ Whole(t) /\ Follows(s, t, 0 - x, 0)
         /\ LET t == [s EXCEPT !.totalFeesCollected = @ + x]
            IN  t \in PoolStates /\ Whole(t) /\ Follows(s, t, 0, x)
<1>0. /\ s.totalDeposited \in Nat /\ s.totalWithdrawn \in Nat
      /\ s.totalFeesCollected \in Nat /\ s.noteValue \in Int
  BY DEF PoolStates
<1>1. LET t == [s EXCEPT !.totalDeposited = @ + x]
      IN  t \in PoolStates /\ Whole(t) /\ Follows(s, t, x, 0)
  <2> DEFINE t == [s EXCEPT !.totalDeposited = @ + x]
  <2>0. s.totalDeposited + x \in Nat
    BY <1>0
  <2>5. t \in PoolStates
    BY <2>0 DEF PoolStates
  <2>1. /\ t.leaves = s.leaves /\ t.nullifierSpent = s.nullifierSpent
        /\ t.noteValue = s.noteValue /\ t.totalWithdrawn = s.totalWithdrawn
        /\ t.totalFeesCollected = s.totalFeesCollected
        /\ t.totalDeposited = s.totalDeposited + x
        /\ t.ether = s.ether /\ t.gasReserveEth = s.gasReserveEth
    BY DEF PoolStates
  <2> HIDE DEF t
  <2>2. Whole(t) /\ Extends(s, t)
    BY <2>1, MoveWhole DEF Whole, Reserved
  <2>3. Gap(t) = Gap(s) + x /\ t.totalFeesCollected = s.totalFeesCollected + 0
    BY <1>0, <2>1 DEF Gap
  <2>4. Follows(s, t, x, 0)
    BY <2>1, <2>2, <2>3, <2>5, FollowsExactly
  <2> QED
    BY <2>2, <2>4, <2>5 DEF t
<1>2. LET t == [s EXCEPT !.totalWithdrawn = @ + x]
      IN  t \in PoolStates /\ Whole(t) /\ Follows(s, t, 0 - x, 0)
  <2> DEFINE t == [s EXCEPT !.totalWithdrawn = @ + x]
  <2>0. s.totalWithdrawn + x \in Nat
    BY <1>0
  <2>5. t \in PoolStates
    BY <2>0 DEF PoolStates
  <2>1. /\ t.leaves = s.leaves /\ t.nullifierSpent = s.nullifierSpent
        /\ t.noteValue = s.noteValue /\ t.totalDeposited = s.totalDeposited
        /\ t.totalFeesCollected = s.totalFeesCollected
        /\ t.totalWithdrawn = s.totalWithdrawn + x
        /\ t.ether = s.ether /\ t.gasReserveEth = s.gasReserveEth
    BY DEF PoolStates
  <2> HIDE DEF t
  <2>2. Whole(t) /\ Extends(s, t)
    BY <2>1, MoveWhole DEF Whole, Reserved
  <2>3. Gap(t) = Gap(s) + (0 - x) /\ t.totalFeesCollected = s.totalFeesCollected + 0
    BY <1>0, <2>1 DEF Gap
  <2>4. Follows(s, t, 0 - x, 0)
    <3>1. 0 - x \in Int
      OBVIOUS
    <3> QED
      BY <2>1, <2>2, <2>3, <2>5, <3>1, FollowsExactly
  <2> QED
    BY <2>2, <2>4, <2>5 DEF t
<1>3. LET t == [s EXCEPT !.totalFeesCollected = @ + x]
      IN  t \in PoolStates /\ Whole(t) /\ Follows(s, t, 0, x)
  <2> DEFINE t == [s EXCEPT !.totalFeesCollected = @ + x]
  <2>0. s.totalFeesCollected + x \in Nat
    BY <1>0
  <2>5. t \in PoolStates
    BY <2>0 DEF PoolStates
  <2>1. /\ t.leaves = s.leaves /\ t.nullifierSpent = s.nullifierSpent
        /\ t.noteValue = s.noteValue /\ t.totalDeposited = s.totalDeposited
        /\ t.totalWithdrawn = s.totalWithdrawn
        /\ t.totalFeesCollected = s.totalFeesCollected + x
        /\ t.ether = s.ether /\ t.gasReserveEth = s.gasReserveEth
    BY DEF PoolStates
  <2> HIDE DEF t
  <2>2. Whole(t) /\ Extends(s, t)
    BY <2>1, MoveWhole DEF Whole, Reserved
  <2>3. Gap(t) = Gap(s) + 0
    BY <1>0, <2>1 DEF Gap
  <2>4. Follows(s, t, 0, x)
    BY <2>1, <2>2, <2>3, <2>5, FollowsExactly
  <2> QED
    BY <2>2, <2>4, <2>5 DEF t
<1> QED
  BY <1>1, <1>2, <1>3

(* A storage follows itself. *)
LEMMA FollowsItself ==
  ASSUME NEW s \in PoolStates PROVE Follows(s, s, 0, 0)
<1>1. /\ Extends(s, s) /\ Gap(s) = Gap(s) + 0
      /\ s.totalFeesCollected = s.totalFeesCollected + 0
  BY SameExtends, GapTyped
<1> QED
  BY <1>1, FollowsExactly

(* The innermost call, and how far the storage follows what it started from. *)
LEMMA TopLedger ==
  ASSUME LedgerInv, stack # <<>>
  PROVE  /\ Top \in Frames /\ Len(stack) \in 1 .. Len(stack)
         /\ OnFailure(Top) \in PoolStates /\ Whole(OnFailure(Top))
         /\ Link(OnFailure(Top), pool, Top)
         /\ Top.amount \in Nat /\ Top.fee \in Nat
         /\ Awaiting(Top) \in Nat /\ Prepaid(Top) \in Nat
         /\ Top.op = "deposit" => Top.note.value > 0
         /\ AfterFee = IF Top.op = "deposit" THEN "insert" ELSE "payout"
<1>1. Top \in Frames /\ Len(stack) \in 1 .. Len(stack) /\ Top = stack[Len(stack)]
  BY LedgerFacts, TopTyped DEF Top
<1>2. Link(OnFailure(Top), pool, Top)
  BY <1>1, LedgerFacts DEF Reconciled
<1>3. Whole(OnFailure(Top)) /\ (Top.op = "deposit" => Top.note.value > 0)
  BY <1>1, LedgerFacts DEF WholeCalls
<1> QED
  BY <1>1, <1>2, <1>3, OnFailureTyped DEF Frames, AfterFee

(* What the innermost call would await and have prepaid in its next phase. *)
LEMMA NextPhase ==
  ASSUME NEW frame \in Frames, NEW phase \in Phases
  PROVE  LET next == [frame EXCEPT !.phase = phase]
         IN  /\ Awaiting(next) = IF \/ frame.op = "withdraw" /\ phase \in {"fee", "inFee"}
                                    \/ phase = "payout"
                                   THEN frame.amount ELSE 0
             /\ Prepaid(next) = IF \/ frame.op = "deposit" /\ phase = "inFee"
                                   \/ phase = "insert"
                                  THEN frame.fee ELSE 0
<1> DEFINE next == [frame EXCEPT !.phase = phase]
<1>1. /\ next.op = frame.op /\ next.phase = phase
      /\ next.amount = frame.amount /\ next.fee = frame.fee
  BY DEF Frames
<1> HIDE DEF next
<1>2. /\ Awaiting(next) = IF \/ frame.op = "withdraw" /\ phase \in {"fee", "inFee"}
                             \/ phase = "payout"
                            THEN frame.amount ELSE 0
      /\ Prepaid(next) = IF \/ frame.op = "deposit" /\ phase = "inFee"
                            \/ phase = "insert"
                           THEN frame.fee ELSE 0
  BY <1>1 DEF Awaiting, Prepaid
<1> QED
  BY <1>2 DEF next

(* _payFee: a withdrawal goes on awaiting its amount, a deposit has prepaid. *)
LEMMA PayFeeLedger ==
  ASSUME LedgerInv, BooksInv', PayNoFee \/ PayFee \/ FeeReturns
  PROVE  LedgerStep
<1>1. stack # <<>> /\ Top.phase \in {"fee", "inFee"}
  BY DEF PayNoFee, PayFee, FeeReturns, Running
<1>2. /\ Top \in Frames /\ Top.amount \in Nat /\ Top.fee \in Nat
      /\ Top.op \in {"deposit", "withdraw"}
      /\ AfterFee = IF Top.op = "deposit" THEN "insert" ELSE "payout"
  BY <1>1, TopLedger DEF Frames
<1>3. pool \in PoolStates /\ Whole(pool) /\ pool' \in PoolStates
  BY LedgerFacts, NextTyped
<1>4. {"inFee", "insert", "payout"} \subseteq Phases
  BY DEF Phases, CalleePhases
<1>5. Awaiting(Top) = IF Top.op = "withdraw" THEN Top.amount ELSE 0
  BY <1>1, <1>2 DEF Awaiting
<1>6. \A phase \in {"inFee", AfterFee} :
        /\ phase \in Phases /\ phase # "inRebate"
        /\ Awaiting([Top EXCEPT !.phase = phase]) = Awaiting(Top) + 0
        /\ Prepaid([Top EXCEPT !.phase = phase])
             = IF Top.op = "deposit" THEN Top.fee ELSE 0
  <2> SUFFICES ASSUME NEW phase \in {"inFee", AfterFee}
               PROVE  /\ phase \in Phases /\ phase # "inRebate"
                      /\ Awaiting([Top EXCEPT !.phase = phase]) = Awaiting(Top) + 0
                      /\ Prepaid([Top EXCEPT !.phase = phase])
                           = IF Top.op = "deposit" THEN Top.fee ELSE 0
    OBVIOUS
  <2>1. phase \in Phases /\ phase # "inRebate"
    BY <1>2, <1>4
  <2>2. \/ phase = "inFee"
        \/ phase = "insert" /\ Top.op = "deposit"
        \/ phase = "payout" /\ Top.op = "withdraw"
    BY <1>2
  <2>3. /\ Awaiting([Top EXCEPT !.phase = phase])
             = IF \/ Top.op = "withdraw" /\ phase \in {"fee", "inFee"}
                  \/ phase = "payout"
                 THEN Top.amount ELSE 0
        /\ Prepaid([Top EXCEPT !.phase = phase])
             = IF \/ Top.op = "deposit" /\ phase = "inFee"
                  \/ phase = "insert"
                 THEN Top.fee ELSE 0
    BY <1>2, <2>1, NextPhase
  <2>4. Awaiting(Top) \in Int
    BY <1>2, <1>5
  <2> QED
    BY <1>2, <1>5, <2>1, <2>2, <2>3, <2>4
<1>7. CASE PayNoFee \/ FeeReturns
  <2>1. Continue(AfterFee) /\ pool' = pool
    BY <1>7 DEF PayNoFee, FeeReturns
  <2>2. Prepaid([Top EXCEPT !.phase = AfterFee]) <= Prepaid(Top) + 0
    <3>1. Prepaid(Top) \in Nat
      BY <1>1, TopLedger
    <3>2. CASE PayNoFee
      <4>1. Top.fee = 0
        BY <3>2 DEF PayNoFee
      <4> QED
        BY <1>6, <3>1, <4>1
    <3>3. CASE FeeReturns
      <4>1. Prepaid(Top) = IF Top.op = "deposit" THEN Top.fee ELSE 0
        BY <3>3 DEF FeeReturns, Running, Prepaid
      <4> QED
        BY <1>2, <1>6, <4>1
    <3> QED
      BY <1>7, <3>2, <3>3
  <2>3. Follows(pool, pool', 0, 0) /\ Whole(pool')
    BY <1>3, <2>1, FollowsItself
  <2>4. 0 \in Int /\ Top.phase # "inRebate"
    BY <1>1
  <2>5. /\ AfterFee \in Phases /\ AfterFee # "inRebate"
        /\ Awaiting([Top EXCEPT !.phase = AfterFee]) = Awaiting(Top) + 0
    BY <1>6
  <2> QED
    BY <1>1, <1>3, <2>1, <2>2, <2>3, <2>4, <2>5, ContinueLedger
<1>8. CASE PayFee
  <2> DEFINE phase == IF Native THEN "inFee" ELSE AfterFee
  <2> DEFINE paid == Debit(pool, Top.fee)
  <2>1. Continue(phase) /\ pool' = [paid EXCEPT !.totalFeesCollected = @ + Top.fee]
    BY <1>8 DEF PayFee
  <2>2. phase \in {"inFee", AfterFee}
    OBVIOUS
  <2>3. paid \in PoolStates
    <3>1. AssetBalance(pool) \in Nat /\ AssetBalance(pool) >= Top.fee
      BY <1>3, <1>8 DEF PayFee, AssetBalance, PoolStates
    <3>2. 0 - Top.fee \in Int /\ AssetBalance(pool) + (0 - Top.fee) >= 0
      BY <1>2, <3>1
    <3> QED
      BY <1>3, <3>2, CreditTyped DEF Debit
  <2>4. Whole(paid) /\ Follows(pool, paid, 0, 0)
    <3>1. /\ Whole(paid) /\ Extends(pool, paid) /\ Gap(paid) = Gap(pool)
          /\ paid.totalFeesCollected = pool.totalFeesCollected
      BY <1>3, CreditWhole DEF Debit
    <3> HIDE DEF paid
    <3>2. /\ Gap(paid) = Gap(pool) + 0
          /\ paid.totalFeesCollected = pool.totalFeesCollected + 0
      BY <1>3, <3>1, GapTyped
    <3> QED
      BY <1>3, <2>3, <3>1, <3>2, FollowsExactly
  <2> HIDE DEF paid
  <2>5. Whole(pool') /\ Follows(paid, pool', 0, Top.fee)
    BY <1>2, <2>1, <2>3, <2>4, CountWhole
  <2>6. Follows(pool, pool', 0, Top.fee)
    <3>1. Follows(pool, pool', 0 + 0, 0 + Top.fee)
      BY <1>2, <1>3, <2>3, <2>4, <2>5, FollowsThen
    <3> QED
      BY <1>2, <3>1
  <2>7. /\ phase \in Phases /\ phase # "inRebate"
        /\ Awaiting([Top EXCEPT !.phase = phase]) = Awaiting(Top) + 0
        /\ Prepaid([Top EXCEPT !.phase = phase])
             = IF Top.op = "deposit" THEN Top.fee ELSE 0
    BY <1>6, <2>2
  <2> HIDE DEF phase
  <2>8. Prepaid([Top EXCEPT !.phase = phase]) <= Prepaid(Top) + Top.fee
    <3>1. Prepaid(Top) \in Nat
      BY <1>1, TopLedger
    <3> QED
      BY <1>2, <2>7, <3>1
  <2>9. 0 \in Int /\ Top.fee \in Int /\ Top.phase # "inRebate"
    BY <1>1, <1>2
  <2> QED
    BY <1>1, <1>3, <2>1, <2>5, <2>6, <2>7, <2>8, <2>9, ContinueLedger
<1> QED
  BY <1>7, <1>8

(* The payout counts the amount the withdrawal has awaited. *)
LEMMA PayoutLedger ==
  ASSUME LedgerInv, BooksInv', PayNothing \/ PayRecipient \/ PayPool \/ PayoutReturns
  PROVE  LedgerStep
<1>1. stack # <<>> /\ Top.phase \in {"payout", "inPayout"} /\ Top.phase # "inRebate"
  BY DEF PayNothing, PayRecipient, PayPool, PayoutReturns, Running
<1>2. /\ Top \in Frames /\ Top.amount \in Nat /\ Prepaid(Top) \in Nat
      /\ Payout \in Nat
  BY <1>1, TopLedger, LedgerFacts, TopTyped DEF Payout
<1>3. pool \in PoolStates /\ Whole(pool) /\ pool' \in PoolStates
  BY LedgerFacts, NextTyped
<1>4. \A phase \in {"rebate", "inPayout"} :
        /\ phase \in Phases /\ phase # "inRebate"
        /\ Awaiting([Top EXCEPT !.phase = phase]) = 0
        /\ Prepaid([Top EXCEPT !.phase = phase]) = 0
  BY <1>2, NextPhase DEF Phases, CalleePhases
<1>5. CASE PayoutReturns
  <2>1. /\ Awaiting(Top) = 0 /\ Continue("rebate") /\ pool' = pool
    BY <1>5 DEF PayoutReturns, Running, Awaiting
  <2>2. /\ Awaiting([Top EXCEPT !.phase = "rebate"]) = Awaiting(Top) + 0
        /\ Prepaid([Top EXCEPT !.phase = "rebate"]) <= Prepaid(Top) + 0
    BY <1>2, <1>4, <2>1
  <2>3. Follows(pool, pool', 0, 0) /\ Whole(pool') /\ 0 \in Int
    BY <1>3, <2>1, FollowsItself
  <2>4. "rebate" \in Phases
    BY <1>4
  <2> QED
    BY <1>1, <1>3, <2>1, <2>2, <2>3, <2>4, ContinueLedger
<1>6. CASE PayNothing \/ PayRecipient \/ PayPool
  <2> DEFINE phase == IF PayRecipient /\ Native THEN "inPayout" ELSE "rebate"
  <2> DEFINE w == Withdrawn
  <2> DEFINE due == 0 - Top.amount
  <2>1. Awaiting(Top) = Top.amount
    BY <1>6 DEF PayNothing, PayRecipient, PayPool, Running, Awaiting
  <2>2. w \in PoolStates /\ Whole(w) /\ Follows(pool, w, due, 0)
    BY <1>2, <1>3, CountWhole DEF Withdrawn
  <2>3. due \in Int
    BY <1>2
  <2> HIDE DEF due
  <2>4. Whole(pool') /\ Follows(w, pool', 0, 0)
    <3>1. CASE PayNothing
      <4>1. pool' = w
        BY <3>1 DEF PayNothing
      <4> QED
        BY <2>2, <4>1, FollowsItself
    <3>2. CASE PayRecipient
      <4>1. pool' = Credit(w, 0 - Payout)
        BY <3>2 DEF PayRecipient, Debit
      <4> HIDE DEF w
      <4>2. /\ Whole(pool') /\ Extends(w, pool') /\ Gap(pool') = Gap(w)
            /\ pool'.totalFeesCollected = w.totalFeesCollected
        BY <2>2, <4>1, CreditWhole
      <4>3. /\ Gap(pool') = Gap(w) + 0
            /\ pool'.totalFeesCollected = w.totalFeesCollected + 0
        BY <2>2, <4>2, GapTyped
      <4> QED
        BY <1>3, <2>2, <4>2, <4>3, FollowsExactly
    <3>3. CASE PayPool
      <4>1. pool' = IF Native THEN [w EXCEPT !.gasReserveEth = @ + Payout]
                              ELSE [w EXCEPT !.surplus = @ + Payout]
        BY <3>3 DEF PayPool
      <4> HIDE DEF w
      <4>2. /\ pool'.leaves = w.leaves /\ pool'.nullifierSpent = w.nullifierSpent
            /\ pool'.noteValue = w.noteValue /\ pool'.totalDeposited = w.totalDeposited
            /\ pool'.totalWithdrawn = w.totalWithdrawn
            /\ pool'.totalFeesCollected = w.totalFeesCollected
            /\ pool'.ether = w.ether
            /\ ~Native => pool'.gasReserveEth = w.gasReserveEth
        BY <2>2, <4>1 DEF PoolStates
      <4>3. Whole(pool') /\ Extends(w, pool')
        BY <2>2, <4>2, MoveWhole DEF Whole, Reserved
      <4>4. /\ Gap(pool') = Gap(w) + 0
            /\ pool'.totalFeesCollected = w.totalFeesCollected + 0
        BY <2>2, <4>2, GapTyped DEF Gap
      <4> QED
        BY <1>3, <2>2, <4>3, <4>4, FollowsExactly
    <3> QED
      BY <1>6, <3>1, <3>2, <3>3
  <2> HIDE DEF w
  <2>5. Follows(pool, pool', due, 0)
    <3>1. Follows(pool, pool', due + 0, 0 + 0)
      BY <1>3, <2>2, <2>3, <2>4, FollowsThen
    <3> QED
      BY <2>3, <3>1
  <2>6. Continue(phase)
    <3>1. PayNothing \/ PayPool => Continue("rebate") /\ ~PayRecipient
      BY <1>2 DEF PayNothing, PayPool, PayRecipient
    <3>2. PayRecipient => Continue(IF Native THEN "inPayout" ELSE "rebate")
      BY DEF PayRecipient
    <3> QED
      BY <1>6, <3>1, <3>2
  <2>7. phase \in {"rebate", "inPayout"}
    OBVIOUS
  <2> HIDE DEF phase
  <2>8. /\ phase \in Phases /\ phase # "inRebate"
        /\ Awaiting([Top EXCEPT !.phase = phase]) = Awaiting(Top) + due
        /\ Prepaid([Top EXCEPT !.phase = phase]) <= Prepaid(Top) + 0
    <3>1. Awaiting(Top) + due = 0
      BY <1>2, <2>1 DEF due
    <3>2. Prepaid(Top) + 0 >= 0
      BY <1>2
    <3> QED
      BY <1>4, <2>7, <3>1, <3>2
  <2> QED
    BY <1>1, <1>3, <2>3, <2>4, <2>5, <2>6, <2>8, ContinueLedger
<1> QED
  BY <1>5, <1>6

(* deposit(), its insert: the fee is what the gap is left with. *)
LEMMA InsertDepositLedger ==
  ASSUME LedgerInv, BooksInv', InsertDeposit
  PROVE  LedgerStep
<1> DEFINE inserted == Insert(pool, Top.note)
<1> DEFINE u == OnFailure(Top)
<1>1. stack # <<>> /\ Top.phase = "insert" /\ ~TreeFull(pool) /\ Leave
  BY DEF InsertDeposit, Running
<1>2. /\ Inv /\ pool \in PoolStates /\ Whole(pool) /\ pool' \in PoolStates
  BY LedgerFacts, NextTyped
<1>3. /\ u \in PoolStates /\ Link(u, pool, Top)
      /\ Top.amount \in Nat /\ Top.fee \in Nat
  BY <1>1, TopLedger
<1>4. /\ Top.note \in Commitments /\ Top.note.value = Top.amount - Top.fee
      /\ Top.note.value > 0
  <2>1. Top.op = "deposit"
    BY <1>1, <1>2, TopTyped DEF SoundFrame
  <2> QED
    BY <1>1, <1>2, <2>1, TopTyped, TopLedger, RunningFacts, LedgerFacts DEF SoundFrame
<1>5. inserted \in PoolStates
  BY <1>1, <1>2, <1>4, InsertTyped
<1>6. Whole(inserted) /\ Follows(pool, inserted, 0 - Top.note.value, 0)
  BY <1>2, <1>4, <1>5, InsertWhole
<1>7. pool' = [inserted EXCEPT !.totalDeposited = @ + Top.amount]
  BY DEF InsertDeposit
<1> HIDE DEF inserted
<1>8. Whole(pool') /\ Follows(inserted, pool', Top.amount, 0)
  BY <1>3, <1>5, <1>6, <1>7, CountWhole
<1>9. Awaiting(Top) = 0 /\ Prepaid(Top) = Top.fee
  BY <1>1 DEF Awaiting, Prepaid
<1> HIDE DEF u
<1>10. Follows(u, pool, 0, Top.fee)
  BY <1>3, <1>9 DEF Link
<1>11. 0 - Top.note.value \in Int
  BY <1>3, <1>4
<1>12. Follows(pool, pool', (0 - Top.note.value) + Top.amount, 0 + 0)
  BY <1>2, <1>3, <1>5, <1>6, <1>8, <1>11, FollowsThen
<1>13. Follows(pool, pool', Top.fee, 0)
  <2>1. (0 - Top.note.value) + Top.amount = Top.fee
    BY <1>3, <1>4
  <2> QED
    BY <1>12, <2>1
<1>14. Follows(u, pool', 0 + Top.fee, Top.fee + 0)
  BY <1>2, <1>3, <1>10, <1>13, FollowsThen
<1>15. Follows(u, pool', 0, 0)
  <2>1. Follows(u, pool', Top.fee, Top.fee) /\ 0 <= Top.fee /\ 0 - 0 <= Top.fee - Top.fee
    BY <1>3, <1>14
  <2> QED
    BY <1>2, <1>3, <2>1, FollowsLoosely
<1> QED
  BY <1>1, <1>2, <1>8, <1>15, PopLedger DEF u

(* The rebate's call: what it fails to is the storage the payout left. *)
LEMMA PayRebateLedger ==
  ASSUME LedgerInv, BooksInv', PayRebate
  PROVE  LedgerStep
<1> DEFINE n == Len(stack)
<1> DEFINE reserved == [pool EXCEPT !.gasReserveEth = @ - gasRebateWei]
<1> DEFINE frame == [stack[n] EXCEPT !.phase = "inRebate", !.undo = reserved]
<1>1. /\ stack # <<>> /\ Top.phase = "rebate"
      /\ pool' = [reserved EXCEPT !.ether = @ - gasRebateWei]
      /\ stack' = [stack EXCEPT ![n] = frame]
      /\ pool.gasReserveEth >= gasRebateWei /\ pool.ether >= gasRebateWei
  BY DEF PayRebate, Running, CanRebate
<1>2. /\ pool \in PoolStates /\ Whole(pool) /\ pool' \in PoolStates
      /\ gasRebateWei \in Nat
      /\ pool.gasReserveEth \in Nat /\ pool.ether \in Nat
      /\ Top \in Frames /\ OnFailure(Top) \in PoolStates
      /\ Link(OnFailure(Top), pool, Top)
  BY <1>1, LedgerFacts, NextTyped, TopLedger, PoolAssumption DEF PoolStates
<1>3. stack[n] = Top
  BY DEF Top
<1>4. reserved \in PoolStates
  <2>1. pool.gasReserveEth - gasRebateWei \in Nat
    BY <1>1, <1>2
  <2> QED
    BY <1>2, <2>1 DEF PoolStates
<1>5. /\ reserved.leaves = pool.leaves /\ reserved.nullifierSpent = pool.nullifierSpent
      /\ reserved.noteValue = pool.noteValue
      /\ reserved.totalDeposited = pool.totalDeposited
      /\ reserved.totalWithdrawn = pool.totalWithdrawn
      /\ reserved.totalFeesCollected = pool.totalFeesCollected
      /\ reserved.ether = pool.ether
      /\ reserved.gasReserveEth = pool.gasReserveEth - gasRebateWei
  BY <1>2 DEF PoolStates
<1>6. [reserved EXCEPT !.gasReserveEth = @ + gasRebateWei] = pool
  <2>1. reserved.gasReserveEth + gasRebateWei = pool.gasReserveEth
    BY <1>2, <1>5
  <2>2. reserved = [pool EXCEPT !.gasReserveEth = reserved.gasReserveEth]
    BY <1>2 DEF PoolStates
  <2> HIDE DEF reserved
  <2>3. [reserved EXCEPT !.gasReserveEth = pool.gasReserveEth] = pool
    BY <1>2, <2>2 DEF PoolStates
  <2> QED
    BY <2>1, <2>3
<1> HIDE DEF reserved
<1>7. /\ frame \in Frames /\ frame.undo = reserved /\ frame.phase = "inRebate"
      /\ frame.op = Top.op /\ frame.note = Top.note
  BY <1>2, <1>3, <1>4 DEF Frames, Phases, CalleePhases
<1> HIDE DEF frame
<1>8. OnFailure(frame) = pool /\ Awaiting(frame) = 0 /\ Prepaid(frame) = 0
  BY <1>6, <1>7 DEF OnFailure, Awaiting, Prepaid
<1>9. Follows(OnFailure(Top), pool, 0, 0)
  <2>1. Awaiting(Top) = 0 /\ Prepaid(Top) = 0
    BY <1>1 DEF Awaiting, Prepaid
  <2> QED
    BY <1>2, <2>1 DEF Link
<1>10. /\ pool'.leaves = pool.leaves /\ pool'.nullifierSpent = pool.nullifierSpent
       /\ pool'.noteValue = pool.noteValue
       /\ pool'.totalDeposited = pool.totalDeposited
       /\ pool'.totalWithdrawn = pool.totalWithdrawn
       /\ pool'.totalFeesCollected = pool.totalFeesCollected
       /\ pool'.ether = pool.ether - gasRebateWei
       /\ pool'.gasReserveEth = pool.gasReserveEth - gasRebateWei
  BY <1>1, <1>4, <1>5 DEF PoolStates
<1>11. Whole(pool') /\ Extends(pool, pool')
  <2>1. Reserved(pool')
    BY <1>2, <1>10 DEF Whole, Reserved
  <2> QED
    BY <1>2, <1>10, <2>1, MoveWhole
<1>12. Follows(pool, pool', 0, 0)
  <2>1. /\ Gap(pool') = Gap(pool) + 0
        /\ pool'.totalFeesCollected = pool.totalFeesCollected + 0
    BY <1>2, <1>10, GapTyped DEF Gap
  <2> QED
    BY <1>2, <1>11, <2>1, FollowsExactly
<1>13. Link(OnFailure(frame), pool', frame)
  BY <1>8, <1>12 DEF Link
<1> QED
  BY <1>1, <1>2, <1>7, <1>8, <1>9, <1>11, <1>13, StayLedger

(* The end of a call. *)
LEMMA EndLedger ==
  ASSUME LedgerInv, BooksInv', SkipRebate \/ RebateReturns \/ Revert \/ RebateFails
  PROVE  LedgerStep
<1>1. stack # <<>> /\ Leave
  BY DEF SkipRebate, RebateReturns, Revert, RebateFails, Running
<1>2. /\ pool' \in PoolStates /\ Whole(pool)
      /\ OnFailure(Top) \in PoolStates /\ Whole(OnFailure(Top))
      /\ Link(OnFailure(Top), pool, Top)
  BY <1>1, LedgerFacts, NextTyped, TopLedger
<1>3. CASE SkipRebate \/ RebateReturns
  <2>1. pool' = pool /\ Awaiting(Top) = 0 /\ Prepaid(Top) = 0
    BY <1>3 DEF SkipRebate, RebateReturns, Running, Awaiting, Prepaid
  <2>2. Follows(OnFailure(Top), pool', 0, 0) /\ Whole(pool')
    BY <1>2, <2>1 DEF Link
  <2> QED
    BY <1>1, <1>2, <2>2, PopLedger
<1>4. CASE Revert \/ RebateFails
  <2>1. pool' = OnFailure(Top)
    BY <1>4 DEF Revert, RebateFails
  <2>2. Follows(OnFailure(Top), pool', 0, 0) /\ Whole(pool')
    BY <1>2, <2>1, FollowsItself
  <2> QED
    BY <1>1, <1>2, <2>2, PopLedger
<1> QED
  BY <1>3, <1>4

(* Funding and unsolicited assets. *)
LEMMA ReceiveLedger ==
  ASSUME LedgerInv, BooksInv', NEW value \in Amounts,
         FundGasReserve(value) \/ ReceiveUnsolicited(value)
  PROVE  LedgerStep
<1>1. /\ pool \in PoolStates /\ pool' \in PoolStates /\ Whole(pool) /\ value \in Nat
      /\ UNCHANGED stack
  BY LedgerFacts, NextTyped, PoolAssumption DEF FundGasReserve, ReceiveUnsolicited
<1>2. /\ pool'.leaves = pool.leaves /\ pool'.nullifierSpent = pool.nullifierSpent
      /\ pool'.noteValue = pool.noteValue
      /\ pool'.totalDeposited = pool.totalDeposited
      /\ pool'.totalWithdrawn = pool.totalWithdrawn
      /\ pool'.totalFeesCollected = pool.totalFeesCollected
      /\ ~Native => pool'.ether - pool'.gasReserveEth = pool.ether - pool.gasReserveEth
  <2>1. CASE FundGasReserve(value)
    <3>1. pool' = [pool EXCEPT !.ether = @ + value, !.gasReserveEth = @ + value]
      BY <2>1 DEF FundGasReserve
    <3>2. /\ pool'.leaves = pool.leaves /\ pool'.nullifierSpent = pool.nullifierSpent
          /\ pool'.noteValue = pool.noteValue
          /\ pool'.totalDeposited = pool.totalDeposited
          /\ pool'.totalWithdrawn = pool.totalWithdrawn
          /\ pool'.totalFeesCollected = pool.totalFeesCollected
      BY <1>1, <3>1 DEF PoolStates
    <3>3. /\ pool'.ether = pool.ether + value
          /\ pool'.gasReserveEth = pool.gasReserveEth + value
      BY <1>1, <3>1 DEF PoolStates
    <3>4. pool.ether \in Nat /\ pool.gasReserveEth \in Nat
      BY <1>1 DEF PoolStates
    <3>5. pool'.ether - pool'.gasReserveEth = pool.ether - pool.gasReserveEth
      BY <1>1, <3>3, <3>4
    <3> QED
      BY <3>2, <3>5
  <2>2. CASE ReceiveUnsolicited(value)
    BY <1>1, <2>2 DEF ReceiveUnsolicited, Credit, PoolStates
  <2> QED
    BY <2>1, <2>2
<1>3. Whole(pool') /\ Extends(pool, pool')
  <2>1. /\ pool.ether \in Nat /\ pool.gasReserveEth \in Nat
        /\ pool'.ether \in Nat /\ pool'.gasReserveEth \in Nat
    BY <1>1 DEF PoolStates
  <2>2. Reserved(pool')
    BY <1>1, <1>2, <2>1 DEF Whole, Reserved
  <2> QED
    BY <1>1, <1>2, <2>2, MoveWhole
<1>4. Follows(pool, pool', 0, 0)
  <2>1. /\ Gap(pool') = Gap(pool) + 0
        /\ pool'.totalFeesCollected = pool.totalFeesCollected + 0
    BY <1>1, <1>2, GapTyped DEF Gap
  <2> QED
    BY <1>1, <1>3, <2>1, FollowsExactly
<1> QED
  BY <1>1, <1>3, <1>4, KeepLedger

(* The empty pool has no notes and nothing to account for. *)
LEMMA InitLedger == Init => LedgerInv
<1> SUFFICES ASSUME Init PROVE LedgerInv
  OBVIOUS
<1>1. BooksInv /\ stack = <<>> /\ pool = EmptyPool /\ Len(stack) = 0
  BY InitBooks DEF Init
<1>2. EmptyPool \in PoolStates
  BY EmptyTyped
<1>3. Whole(EmptyPool)
  <2>1. /\ DOMAIN EmptyPool.leaves = {} /\ EmptyPool.nullifierSpent = {}
        /\ EmptyPool.noteValue = 0 /\ EmptyPool.ether = 0 /\ EmptyPool.gasReserveEth = 0
    BY DEF EmptyPool
  <2>2. UnspentValue(EmptyPool) = 0
    <3>1. Unspent(EmptyPool) = {}
      BY <2>1 DEF Unspent
    <3> QED
      BY <1>2, <3>1, UnspentSum, SumEmpty
  <2> QED
    BY <2>1, <2>2 DEF Whole, Noted, Reserved
<1>4. Follows(EmptyPool, EmptyPool, 0, 0)
  BY <1>2, FollowsItself
<1> QED
  BY <1>1, <1>3, <1>4 DEF LedgerInv, WholeCalls, Reconciled

(* Every step of the pool keeps the ledger. *)
LEMMA StepLedger == LedgerInv /\ [Next]_vars => LedgerStep
<1> SUFFICES ASSUME LedgerInv, [Next]_vars PROVE LedgerStep
  OBVIOUS
<1>1. BooksInv'
  BY LedgerFacts, StepBooks
<1>2. CASE UNCHANGED vars
  <2>1. LedgerInv' /\ Committed' = Committed
    BY <1>1, <1>2 DEF vars, LedgerInv, Committed
  <2> QED
    BY <2>1, CommittedTyped, SameExtends DEF LedgerStep
<1>3. CASE Next
  <2>1. CASE Calls
    <3>1. ASSUME NEW amount \in Amounts, NEW c \in Outputs, Deposit(amount, c)
          PROVE  LedgerStep
      BY <1>1, <3>1, DepositLedger
    <3>2. ASSUME Withdrawals PROVE LedgerStep
      BY <1>1, <3>2, Withdraw1Ledger, WithdrawLedger, WithdrawPartial1Ledger
         DEF Withdrawals
    <3>3. ASSUME NEW value \in Amounts,
                 FundGasReserve(value) \/ ReceiveUnsolicited(value)
          PROVE  LedgerStep
      BY <1>1, <3>3, ReceiveLedger
    <3> QED
      BY <2>1, <3>1, <3>2, <3>3 DEF Calls
  <2>2. CASE Handlers
    BY <1>1, <2>2, PayFeeLedger, InsertDepositLedger, PayoutLedger, PayRebateLedger,
       EndLedger DEF Handlers
  <2>3. CASE Callees
    BY <1>1, <2>3, PayFeeLedger, PayoutLedger, EndLedger DEF Callees
  <2> QED
    BY <1>3, <2>1, <2>2, <2>3 DEF Next
<1> QED
  BY <1>2, <1>3

(* The ledger is kept in every reachable state. *)
THEOREM LedgerKept == Spec => []LedgerInv
<1>1. LedgerInv /\ [Next]_vars => LedgerInv'
  BY StepLedger DEF LedgerStep
<1> QED
  BY <1>1, InitLedger, PTL DEF Spec

-----------------------------------------------------------------------------
(* What the ledger's invariant implies. *)

(***************************************************************************)
(* Between transactions what was deposited, and neither withdrawn nor left *)
(* in an unspent note, is a part of the fees ShieldedPool.sol counted.     *)
(***************************************************************************)
THEOREM CountersExplainNotes == Spec => []CountersReconcile
<1>1. LedgerInv => CountersReconcile
  <2> SUFFICES ASSUME LedgerInv, stack = <<>>
               PROVE  pool.totalDeposited - pool.totalWithdrawn - UnspentValue(pool)
                        \in 0 .. pool.totalFeesCollected
    BY DEF CountersReconcile
  <2>1. Follows(EmptyPool, pool, 0, 0)
    BY LedgerFacts DEF Reconciled
  <2>2. Gap(EmptyPool) = 0 /\ EmptyPool.totalFeesCollected = 0
    BY DEF Gap, EmptyPool
  <2>3. Gap(pool) \in Int /\ pool.totalFeesCollected \in Nat
    BY LedgerFacts, GapTyped
  <2>4. Gap(pool) \in 0 .. pool.totalFeesCollected
    BY <2>1, <2>2, <2>3 DEF Follows
  <2>5. pool.noteValue = UnspentValue(pool)
    BY LedgerFacts DEF Whole, Noted
  <2> QED
    BY <2>4, <2>5 DEF Gap
<1> QED
  BY <1>1, LedgerKept, PTL

(* What a call in progress still owes is a natural number. *)
LEMMA InFlightTyped ==
  ASSUME NEW frame \in Frames, frame.fee <= frame.amount
  PROVE  InFlight(frame) \in Nat
<1>1. /\ frame.amount \in Nat /\ frame.fee \in Nat
      /\ frame.phase \in {"fee", "inFee", "insert", "payout", "inPayout", "rebate", "inRebate"}
  BY DEF Frames, Phases, CalleePhases
<1> QED
  BY <1>1 DEF InFlight

(* What every call in progress would leave behind has nothing missing.          *)
LEMMA NothingMissing ==
  ASSUME LedgerInv
  PROVE  /\ Excess(pool) \in Nat
         /\ stack # <<>> => Excess(OnFailure(Top)) \in Nat
<1> DEFINE n == Len(stack)
<1> DEFINE At(k) == IF k = n THEN pool ELSE OnFailure(stack[k + 1])
<1> DEFINE S == {k \in Nat : k <= n => Excess(At(k)) \in Nat}
<1>1. /\ Inv /\ Balanced(pool, stack) /\ n \in Nat
      /\ \A k \in 1 .. n : stack[k] \in Frames /\ SoundFrame(stack[k])
  BY LedgerFacts DEF BooksInv, BooksBalance, Inv
<1>2. \A k \in 1 .. n : InFlight(stack[k]) \in Nat
  BY <1>1, InFlightTyped DEF SoundFrame
<1>3. \A k \in 0 .. n : Excess(At(k))
        = IF k = 0 THEN 0 ELSE Excess(OnFailure(stack[k])) + InFlight(stack[k])
  BY <1>1 DEF Balanced
<1>4. 0 \in S
  BY <1>1, <1>3
<1>5. ASSUME NEW k \in Nat, k \in S PROVE k + 1 \in S
  <2> SUFFICES ASSUME k + 1 <= n PROVE Excess(At(k + 1)) \in Nat
    OBVIOUS
  <2>1. k + 1 \in 1 .. n /\ k + 1 \in 0 .. n /\ k # n /\ k + 1 # 0
    BY <1>1
  <2>2. Excess(At(k)) \in Nat /\ At(k) = OnFailure(stack[k + 1])
    BY <1>1, <1>5, <2>1
  <2>3. Excess(At(k + 1)) = Excess(OnFailure(stack[k + 1])) + InFlight(stack[k + 1])
    BY <1>3, <2>1
  <2>4. InFlight(stack[k + 1]) \in Nat
    BY <1>2, <2>1
  <2> HIDE DEF At, n
  <2> QED
    BY <2>2, <2>3, <2>4
<1>6. Nat \subseteq S
  <2> HIDE DEF S
  <2> QED
    BY <1>4, <1>5, SetInduction
<1>7. \A k \in 0 .. n : Excess(At(k)) \in Nat
  BY <1>1, <1>6
<1>8. At(n) = pool /\ n \in 0 .. n
  BY <1>1
<1>9. ASSUME stack # <<>> PROVE Excess(OnFailure(Top)) \in Nat
  <2>1. n - 1 \in 0 .. n /\ At(n - 1) = OnFailure(Top)
    BY <1>1, <1>9 DEF Top
  <2> HIDE DEF At
  <2> QED
    BY <1>7, <2>1
<1> HIDE DEF At
<1> QED
  BY <1>7, <1>8, <1>9

(* The parts of what a storage holds. *)
LEMMA HeldParts ==
  ASSUME LedgerInv
  PROVE  /\ AssetBalance(pool) = Excess(pool) + pool.noteValue + pool.surplus
                                   + (IF Native THEN pool.gasReserveEth ELSE 0)
         /\ AssetBalance(pool) \in Nat /\ Excess(pool) \in Nat /\ pool.noteValue \in Nat
         /\ pool.surplus \in Nat /\ pool.gasReserveEth \in Nat /\ pool.ether \in Nat
         /\ pool.noteValue = UnspentValue(pool)
         /\ Native => AssetBalance(pool) = pool.ether
         /\ ~Native => AssetBalance(pool) = pool.tokens
         /\ ~Native => pool.ether >= pool.gasReserveEth
<1>1. /\ pool.ether \in Nat /\ pool.tokens \in Nat
      /\ pool.surplus \in Nat /\ pool.gasReserveEth \in Nat
  BY LedgerFacts DEF PoolStates
<1>2. pool.noteValue = UnspentValue(pool) /\ UnspentValue(pool) \in Nat
  BY LedgerFacts, UnspentSum DEF Whole, Noted
<1>3. Excess(pool) \in Nat
  BY NothingMissing
<1>4. ~Native => pool.ether >= pool.gasReserveEth
  BY LedgerFacts DEF Whole, Reserved
<1> QED
  BY <1>1, <1>2, <1>3, <1>4 DEF Excess, Held, AssetBalance

(***************************************************************************)
(* ShieldedPool.sol checks its liquidity once, before the first external   *)
(* call of a withdrawal; whatever the calls nested in it did, the balance  *)
(* covers the fee, the payout and the rebate that are left to pay.         *)
(***************************************************************************)
THEOREM PaymentsCovered == Spec => []NeverShort
<1>1. LedgerInv => NeverShort
  <2> SUFFICES ASSUME LedgerInv PROVE NeverShort
    OBVIOUS
  <2>1. ASSUME stack # <<>> PROVE AssetBalance(pool) >= InFlight(Top) /\ InFlight(Top) \in Nat
    <3>1. Excess(pool) = Excess(OnFailure(Top)) + InFlight(Top)
      BY <2>1, LedgerFacts, RunningFacts
    <3>2. Excess(OnFailure(Top)) \in Nat /\ InFlight(Top) \in Nat
      BY <2>1, LedgerFacts, NothingMissing, TopTyped, InFlightTyped
    <3> QED
      BY <3>1, <3>2, HeldParts
  <2>2. ASSUME Running("fee") PROVE AssetBalance(pool) >= Top.amount
    BY <2>1, <2>2 DEF Running, InFlight
  <2>3. ASSUME Running("payout") PROVE AssetBalance(pool) >= Payout
    BY <2>1, <2>3 DEF Running, InFlight, Payout
  <2>4. ASSUME CanRebate PROVE pool.ether >= gasRebateWei
    <3>1. pool.gasReserveEth >= gasRebateWei /\ gasRebateWei \in Nat
      BY <2>4, PoolAssumption DEF CanRebate
    <3>2. pool.ether >= pool.gasReserveEth
      BY HeldParts
    <3> QED
      BY <3>1, <3>2, HeldParts
  <2> QED
    BY <2>2, <2>3, <2>4 DEF NeverShort
<1> QED
  BY <1>1, LedgerKept, PTL

(***************************************************************************)
(* Every unspent note can be redeemed in full, whenever the pool can be    *)
(* called: ShieldedPool.sol knows a root that commits to it, its nullifier *)
(* is free and the liquidity check passes.                                 *)
(***************************************************************************)
THEOREM NotesRedeemable == Spec => []EveryNoteRedeemable
<1>1. LedgerInv => EveryNoteRedeemable
  <2> SUFFICES ASSUME LedgerInv, NEW i \in Unspent(pool)
               PROVE  LET word   == WordOf(pool, i)
                          amount == word.commitment.value
                          fee    == Fee(amount, withdrawFeePpm)
                      IN  InRange(amount) =>
                            \E root \in TreeRoots :
                              /\ Admissible(pool, root, {word}, amount, fee)
                              /\ Withdraw1Proof(pool, root, word, amount, fee)
                              /\ SpendableAssetBalance(MarkSpent(pool, word)) >= amount
    BY DEF EveryNoteRedeemable
  <2> DEFINE word == WordOf(pool, i)
  <2> DEFINE amount == word.commitment.value
  <2> DEFINE fee == Fee(amount, withdrawFeePpm)
  <2> DEFINE root == Len(pool.leaves)
  <2>1. /\ i \in DOMAIN pool.leaves /\ word \notin pool.nullifierSpent
        /\ DOMAIN pool.leaves = 1 .. root /\ root \in Nat
        /\ pool \in PoolStates /\ Inv
    BY LedgerFacts, LeafFacts DEF Unspent
  <2>2. amount \in Nat /\ amount > 0 /\ word.commitment = pool.leaves[i] /\ word.index = i - 1
    BY <2>1, LedgerFacts, LeafFacts DEF WordOf, Whole, Noted
  <2>3. root \in TreeRoots /\ Ring!IsKnownRoot(pool.ring, root)
    <3>1. HoldsLatest(pool.ring, root) /\ ROOT_HISTORY_SIZE \in Nat \ {0}
      BY <2>1, PoolAssumption DEF Inv, Sound, RingHoldsLatest
    <3>2. root \in TreeRoots
      BY <2>1, <3>1, PoolAssumption DEF HoldsLatest, TreeRoots
    <3>3. pool.ring.occurrences[root] = 1
      BY <2>1, <3>1, <3>2 DEF HoldsLatest
    <3> QED
      BY <3>2, <3>3 DEF Ring!IsKnownRoot
  <2>4. fee \in 0 .. amount
    <3> HIDE DEF amount
    <3> QED
      BY <2>2, FeeBound, PoolAssumption
  <2>5. Opens(pool, root, word)
    <3>1. word.index < root /\ pool.leaves[word.index + 1] = pool.leaves[i]
      BY <2>1, <2>2
    <3>2. InField(word)
      BY DEF InField, WordOf
    <3> QED
      BY <2>1, <2>2, <3>1, <3>2 DEF Opens
  <2>6. pool.noteValue >= amount
    <3>1. /\ i \in Unspent(pool) /\ IsFiniteSet(Unspent(pool))
          /\ \A j \in Unspent(pool) : Values(pool)[j] \in Nat
      BY <2>1, LeafFacts, UnspentSum
    <3>2. Values(pool)[i] <= SumOver(Values(pool), Unspent(pool))
      BY <3>1, SumBounds
    <3>3. Values(pool)[i] = amount
      BY <2>1, <2>2, LeafFacts
    <3> QED
      BY <2>1, <3>2, <3>3, HeldParts, UnspentSum
  <2>7. SpendableAssetBalance(MarkSpent(pool, word)) >= amount
    <3> DEFINE t == MarkSpent(pool, word)
    <3>1. t.ether = pool.ether /\ t.tokens = pool.tokens
          /\ t.gasReserveEth = pool.gasReserveEth
      BY <2>1 DEF MarkSpent, PoolStates
    <3> HIDE DEF t, amount, word
    <3>2. CASE Native
      <4>1. pool.ether >= amount + pool.gasReserveEth
        BY <2>2, <2>6, <3>2, HeldParts
      <4>2. t.ether > t.gasReserveEth /\ t.ether - t.gasReserveEth >= amount
        BY <2>2, <3>1, <4>1, HeldParts
      <4>3. ~(t.ether <= t.gasReserveEth)
        BY <3>1, <4>2, HeldParts
      <4> QED
        BY <3>2, <4>2, <4>3 DEF SpendableAssetBalance, t
    <3>3. CASE ~Native
      <4>1. pool.tokens >= amount
        BY <2>2, <2>6, <3>3, HeldParts
      <4> QED
        BY <3>1, <3>3, <4>1 DEF SpendableAssetBalance, t
    <3> QED
      BY <3>2, <3>3
  <2>8. /\ amount # 0 /\ fee <= amount /\ fee >= fee
        /\ {word} \intersect pool.nullifierSpent = {}
    <3> HIDE DEF amount, fee, word
    <3> QED
      BY <2>1, <2>2, <2>4
  <2>9. Admissible(pool, root, {word}, amount, fee)
    BY <2>3, <2>8 DEF Admissible
  <2>10. InRange(amount) => Withdraw1Proof(pool, root, word, amount, fee)
    BY <2>5, <2>8 DEF Withdraw1Proof
  <2> HIDE DEF word, amount, fee, root
  <2>11. InRange(amount) =>
           \E r \in TreeRoots :
             /\ Admissible(pool, r, {word}, amount, fee)
             /\ Withdraw1Proof(pool, r, word, amount, fee)
             /\ SpendableAssetBalance(MarkSpent(pool, word)) >= amount
    BY <2>3, <2>7, <2>9, <2>10
  <2> QED
    BY <2>11 DEF word, amount, fee
<1> QED
  BY <1>1, LedgerKept, PTL

(* What the calls in progress owe, call by call. *)
Debts == [i \in DOMAIN stack |-> InFlight(stack[i])]

(* The sum of the debts, as TLC computes it. *)
LEMMA DebtSum ==
  ASSUME LedgerInv
  PROVE  /\ DOMAIN stack = 1 .. Len(stack) /\ IsFiniteSet(DOMAIN stack)
         /\ \A i \in DOMAIN stack : Debts[i] = InFlight(stack[i]) /\ Debts[i] \in Nat
         /\ MapThenSumSet(LAMBDA i : InFlight(stack[i]), DOMAIN stack)
              = SumOver(Debts, DOMAIN stack)
<1> DEFINE U == DOMAIN stack
<1> DEFINE f == Debts
<1>1. U = 1 .. Len(stack) /\ Len(stack) \in Nat /\ IsFiniteSet(U)
  BY LedgerFacts, FS_Interval
<1>2. \A i \in U : stack[i] \in Frames /\ SoundFrame(stack[i])
  BY <1>1, LedgerFacts DEF Inv
<1>3. \A i \in U : f[i] = InFlight(stack[i]) /\ f[i] \in Nat
  BY <1>2, InFlightTyped DEF Debts, SoundFrame
<1> HIDE DEF f, U
<1> DEFINE R(g) == g = [T \in SUBSET U |-> IF T = {} THEN 0
                          ELSE InFlight(stack[CHOOSE x \in T : TRUE]) + g[T \ {CHOOSE x \in T : TRUE}]]
<1>4. \A g : Sums(g, f, U) <=> R(g)
  <2> SUFFICES ASSUME NEW g PROVE Sums(g, f, U) <=> R(g)
    OBVIOUS
  <2>1. \A T \in SUBSET U : T # {} => f[CHOOSE x \in T : TRUE] = InFlight(stack[CHOOSE x \in T : TRUE])
    BY <1>3
  <2> QED
    BY <2>1 DEF Sums, AnyOf
<1>5. MapThenSumSet(LAMBDA i : InFlight(stack[i]), U) = (CHOOSE g : R(g))[U]
  BY DEF MapThenSumSet, MapThenFoldSet
<1>6. PICK g : Sums(g, f, U)
  BY <1>1, SumsExist
<1>7. R(CHOOSE h : R(h))
  <2>1. R(g)
    BY <1>4, <1>6
  <2> HIDE DEF R
  <2> QED
    BY <2>1
<1>8. Sums(CHOOSE h : R(h), f, U)
  <2> HIDE DEF R
  <2> QED
    BY <1>4, <1>7
<1> DEFINE c == CHOOSE h : R(h)
<1> HIDE DEF R, c
<1>9. SumOver(f, U) = c[U]
  BY <1>1, <1>8, SumIs DEF c
<1> QED
  BY <1>1, <1>3, <1>5, <1>9 DEF c, f, U

(* The equations of the books add up to the sum of the debts. *)
LEMMA BooksAddUp ==
  ASSUME LedgerInv
  PROVE  Excess(pool) = SumOver(Debts, DOMAIN stack)
<1> DEFINE n == Len(stack)
<1> DEFINE At(k) == IF k = n THEN pool ELSE OnFailure(stack[k + 1])
<1> DEFINE f == Debts
<1> DEFINE S == {k \in Nat : k <= n => Excess(At(k)) = SumOver(f, 1 .. k)}
<1>0. DOMAIN stack = 1 .. n
  BY DebtSum
<1>1. n \in Nat /\ Balanced(pool, stack)
  BY LedgerFacts DEF BooksInv, BooksBalance
<1>7. \A k \in 1 .. n : f[k] = InFlight(stack[k]) /\ f[k] \in Nat
  BY <1>0, DebtSum
<1>2. \A k \in 0 .. n : Excess(At(k))
        = IF k = 0 THEN 0 ELSE Excess(OnFailure(stack[k])) + InFlight(stack[k])
  BY <1>1 DEF Balanced
<1> HIDE DEF f, n
<1>3. 0 \in S
  <2>1. 1 .. 0 = {}
    OBVIOUS
  <2>2. SumOver(f, 1 .. 0) = 0
    BY <2>1, SumEmpty
  <2>3. Excess(At(0)) = 0
    BY <1>1, <1>2
  <2> HIDE DEF At
  <2> QED
    BY <2>2, <2>3
<1>4. ASSUME NEW k \in Nat, k \in S PROVE k + 1 \in S
  <2> SUFFICES ASSUME k + 1 <= n PROVE Excess(At(k + 1)) = SumOver(f, 1 .. k + 1)
    OBVIOUS
  <2>1. k + 1 \in 1 .. n /\ k + 1 \in 0 .. n /\ k # n /\ k + 1 # 0
    BY <1>1
  <2>2. Excess(OnFailure(stack[k + 1])) = SumOver(f, 1 .. k)
    BY <1>1, <1>4, <2>1
  <2>3. Excess(At(k + 1)) = Excess(OnFailure(stack[k + 1])) + f[k + 1]
    BY <1>1, <1>2, <1>7, <2>1
  <2>8. \A y \in (1 .. k) \union {k + 1} : f[y] \in Int
    BY <1>1, <1>7, <2>1
  <2>4. IsFiniteSet(1 .. k) /\ k + 1 \notin 1 .. k
    BY FS_Interval
  <2>5. SumOver(f, (1 .. k) \union {k + 1}) = SumOver(f, 1 .. k) + f[k + 1]
    BY <2>4, <2>8, SumAdd
  <2>6. (1 .. k) \union {k + 1} = 1 .. k + 1
    OBVIOUS
  <2>7. SumOver(f, (1 .. k) \union {k + 1}) = SumOver(f, 1 .. k + 1)
    BY ONLY <2>6
  <2> HIDE DEF At
  <2> QED
    BY <2>2, <2>3, <2>5, <2>7
<1>5. Nat \subseteq S
  <2> HIDE DEF S
  <2> QED
    BY <1>3, <1>4, SetInduction
<1>6. Excess(pool) = SumOver(f, 1 .. n)
  BY <1>1, <1>5
<1> QED
  BY <1>0, <1>6 DEF f

(***************************************************************************)
(* ShieldedPool.sol holds exactly the value of the unspent notes plus what *)
(* the calls in progress still owe, in any nesting of calls.               *)
(***************************************************************************)
THEOREM SolventThroughout == Spec => []HoldsWhatItOwes
<1>1. LedgerInv => HoldsWhatItOwes
  <2> SUFFICES ASSUME LedgerInv PROVE HoldsWhatItOwes
    OBVIOUS
  <2>1. Excess(pool) = MapThenSumSet(LAMBDA i : InFlight(stack[i]), DOMAIN stack)
    BY BooksAddUp, DebtSum
  <2>2. pool.noteValue = UnspentValue(pool) /\ UnspentValue(pool) \in Int /\ Held(pool) \in Int
    BY LedgerFacts, UnspentSum, HeldParts DEF Held
  <2>3. Held(pool) = UnspentValue(pool) + Excess(pool)
    BY <2>2 DEF Excess
  <2> QED
    BY <2>1, <2>2, <2>3 DEF HoldsWhatItOwes
<1> QED
  BY <1>1, LedgerKept, PTL

-----------------------------------------------------------------------------
(* The refinement. *)

(* A storage with no call in progress: it holds what its notes are worth. *)
Settled(s) ==
  /\ s \in PoolStates
  /\ Len(s.leaves) <= TreeCapacity
  /\ Held(s) = UnspentValue(s)

(* What is committed is settled, in any nesting of calls. *)
LEMMA CommittedSettled == LedgerInv => Settled(Committed)
<1> SUFFICES ASSUME LedgerInv PROVE Settled(Committed)
  OBVIOUS
<1> DEFINE c == Committed
<1>1. c \in PoolStates
  BY CommittedTyped
<1>2. c.leaves = IF stack = <<>> THEN pool.leaves ELSE stack[1].undo.leaves
  <2>1. stack # <<>> => stack[1] \in Frames
    BY LedgerFacts
  <2>2. stack # <<>> => stack[1].undo \in PoolStates
    BY <2>1 DEF Frames
  <2> QED
    BY <2>2 DEF Committed, OnFailure, PoolStates
<1>3. Len(c.leaves) <= TreeCapacity
  <2>1. Sound(pool) /\ \A k \in 1 .. Len(stack) : Sound(stack[k].undo)
    BY LedgerFacts DEF Inv, SoundFrame
  <2>2. stack # <<>> => Sound(stack[1].undo)
    BY <2>1, LedgerFacts
  <2> QED
    BY <1>2, <2>1, <2>2 DEF Sound, RingHoldsLatest, HoldsLatest
<1>4. Whole(c)
  <2>1. stack # <<>> => Whole(OnFailure(stack[1]))
    BY LedgerFacts DEF WholeCalls
  <2> QED
    BY <2>1, LedgerFacts DEF Committed
<1>5. Excess(c) = 0
  <2>1. Balanced(pool, stack) /\ Len(stack) \in Nat
    BY LedgerFacts DEF BooksInv, BooksBalance
  <2>2. Excess(IF 0 = Len(stack) THEN pool ELSE OnFailure(stack[0 + 1])) = 0
    BY <2>1 DEF Balanced
  <2>3. stack = <<>> <=> 0 = Len(stack)
    BY LedgerFacts
  <2> QED
    BY <2>2, <2>3 DEF Committed
<1> HIDE DEF c
<1>6. c.noteValue = UnspentValue(c) /\ UnspentValue(c) \in Nat
  BY <1>1, <1>4, UnspentSum DEF Whole, Noted
<1>7. Held(c) \in Int
  BY <1>1, PoolAssumption DEF Held, AssetBalance, PoolStates
<1>8. Held(c) = UnspentValue(c)
  BY <1>5, <1>6, <1>7 DEF Excess
<1>9. Settled(c)
  BY <1>1, <1>3, <1>8 DEF Settled
<1> QED
  BY <1>9 DEF c

(* A word names its leaf, whatever was inserted after it. *)
LEMMA SameWords ==
  ASSUME NEW s \in PoolStates, NEW t \in PoolStates, Extends(s, t)
  PROVE  /\ DOMAIN s.leaves \subseteq DOMAIN t.leaves
         /\ \A i \in DOMAIN s.leaves : Values(t)[i] = Values(s)[i]
         /\ DOMAIN s.leaves \ Unspent(s) \subseteq DOMAIN t.leaves \ Unspent(t)
<1>1. DOMAIN s.leaves \subseteq DOMAIN t.leaves
  BY LeafFacts DEF Extends
<1>2. \A i \in DOMAIN s.leaves : WordOf(t, i) = WordOf(s, i)
  BY DEF Extends, WordOf
<1>3. \A i \in DOMAIN s.leaves : Values(t)[i] = Values(s)[i]
  BY <1>1, LeafFacts DEF Extends
<1>4. DOMAIN s.leaves \ Unspent(s) \subseteq DOMAIN t.leaves \ Unspent(t)
  BY <1>1, <1>2 DEF Unspent, Extends
<1> QED
  BY <1>1, <1>3, <1>4

(* The vault changes by the notes minted less those redeemed. *)
LEMMA VaultFollows ==
  ASSUME NEW s, NEW t, Settled(s), Settled(t), Extends(s, t)
  PROVE  Held(t) = Held(s)
           + SumOver(Values(t), DOMAIN t.leaves \ DOMAIN s.leaves)
           - SumOver(Values(t), (DOMAIN t.leaves \ Unspent(t)) \ (DOMAIN s.leaves \ Unspent(s)))
<1> DEFINE D == DOMAIN s.leaves
<1> DEFINE E == DOMAIN t.leaves
<1> DEFINE U == Unspent(s)
<1> DEFINE V == Unspent(t)
<1> DEFINE f == Values(t)
<1>1. /\ s \in PoolStates /\ t \in PoolStates
      /\ Held(s) = UnspentValue(s) /\ Held(t) = UnspentValue(t)
  BY DEF Settled
<1>2. /\ D \subseteq E /\ D \ U \subseteq E \ V
      /\ \A i \in D : f[i] = Values(s)[i]
  BY <1>1, SameWords
<1>3. /\ IsFiniteSet(D) /\ IsFiniteSet(E) /\ U \subseteq D /\ V \subseteq E
      /\ \A i \in E : f[i] \in Int
  BY <1>1, LeafFacts, UnspentSum
<1>4. Held(s) = SumOver(Values(s), U) /\ Held(t) = SumOver(f, V)
  BY <1>1, UnspentSum
<1>5. SumOver(f, U) = SumOver(Values(s), U)
  <2>1. IsFiniteSet(U) /\ \A i \in U : f[i] = Values(s)[i]
    BY <1>2, <1>3, FS_Subset
  <2> HIDE DEF f, U
  <2> QED
    BY <2>1, SumSame
<1> HIDE DEF D, E, U, V, f
<1>6. /\ SumOver(f, D \ U) = SumOver(f, D) - SumOver(f, U)
      /\ SumOver(f, E \ V) = SumOver(f, E) - SumOver(f, V)
      /\ SumOver(f, E \ D) = SumOver(f, E) - SumOver(f, D)
      /\ SumOver(f, (E \ V) \ (D \ U)) = SumOver(f, E \ V) - SumOver(f, D \ U)
  <2>1. IsFiniteSet(E \ V) /\ \A i \in E \ V : f[i] \in Int
    BY <1>3, FS_Subset
  <2>2. \A i \in D : f[i] \in Int
    BY <1>2, <1>3
  <2> QED
    BY <1>2, <1>3, <2>1, <2>2, SumDifference
<1>7. /\ SumOver(f, D) \in Int /\ SumOver(f, E) \in Int
      /\ SumOver(f, U) \in Int /\ SumOver(f, V) \in Int
  BY <1>2, <1>3, SumTyped, FS_Subset
<1>8. Held(t) = Held(s) + SumOver(f, E \ D) - SumOver(f, (E \ V) \ (D \ U))
  BY <1>4, <1>5, <1>6, <1>7
<1> QED
  BY <1>8 DEF D, E, U, V, f

(* What the ledger adds up is the sum of the leaves' values. *)
LEMMA LedgerValue ==
  ASSUME NEW s \in PoolStates, NEW U, U \subseteq DOMAIN s.leaves
  PROVE  Ledger!ValueOf(s.leaves, U) = SumOver(Values(s), U)
<1>1. MapThenSumSet(LAMBDA i : s.leaves[i].value, U) = SumOver(Values(s), U)
  BY LeafSum
<1>2. Ledger!ValueOf(s.leaves, U) = MapThenSumSet(LAMBDA i : s.leaves[i].value, U)
  BY DEF Ledger!ValueOf, Ledger!MapThenSumSet, Ledger!MapThenFoldSet,
         MapThenSumSet, MapThenFoldSet
<1> QED
  BY <1>1, <1>2

(* A longer list of leaves has the shorter one as a prefix. *)
LEMMA LedgerPrefix ==
  ASSUME NEW s \in PoolStates, NEW t \in PoolStates, Extends(s, t)
  PROVE  Ledger!IsPrefix(s.leaves, t.leaves)
<1>1. Len(s.leaves) <= Len(t.leaves)
  BY DEF Extends
<1>2. SubSeq(s.leaves, 1, Len(s.leaves)) = SubSeq(t.leaves, 1, Len(s.leaves))
  <2>1. \A i \in 1 .. Len(s.leaves) : t.leaves[i] = s.leaves[i]
    BY LeafFacts DEF Extends
  <2>2. s.leaves \in Seq(Commitments) /\ t.leaves \in Seq(Commitments)
    BY LeafFacts
  <2> QED
    BY <1>1, <2>1, <2>2
<1> QED
  BY <1>1, <1>2 DEF Ledger!IsPrefix

(***************************************************************************)
(* With callbacks, nested calls and reverts ShieldedPool.sol still is an   *)
(* atomic ledger: what its transactions commit implements NoteLedger.      *)
(***************************************************************************)
THEOREM PoolIsLedger == Spec => ImplementsNoteLedger
<1>1. Init => Ledger!Init
  <2> SUFFICES ASSUME Init PROVE Ledger!Init
    OBVIOUS
  <2>1. Committed = EmptyPool /\ LedgerInv
    BY InitLedger DEF Init, Committed
  <2>2. EmptyPool.leaves = <<>> /\ DOMAIN EmptyPool.leaves = {}
    BY DEF EmptyPool
  <2>3. Held(EmptyPool) = UnspentValue(EmptyPool)
    BY <2>1, CommittedSettled DEF Settled
  <2>4. UnspentValue(EmptyPool) = 0
    <3>1. Unspent(EmptyPool) = {}
      BY <2>2 DEF Unspent
    <3> QED
      BY <3>1, EmptyTyped, UnspentSum, SumEmpty
  <2> QED
    BY <2>1, <2>2, <2>3, <2>4 DEF Ledger!Init
<1>2. LedgerInv' => Settled(Committed)'
  BY CommittedSettled, PTL
<1>3. LedgerInv /\ [Next]_vars => [Ledger!Commit]_(Ledger!vars)
  <2> SUFFICES ASSUME LedgerInv, [Next]_vars PROVE Ledger!Commit
    OBVIOUS
  <2>1. LedgerInv' /\ Extends(Committed, Committed')
    BY StepLedger DEF LedgerStep
  <2>2. Settled(Committed) /\ Settled(Committed')
    BY <1>2, <2>1, CommittedSettled
  <2> DEFINE P(s, t) ==
        /\ Ledger!IsPrefix(s.leaves, t.leaves)
        /\ Len(t.leaves) <= TreeCapacity
        /\ DOMAIN s.leaves \ Unspent(s) \subseteq DOMAIN t.leaves \ Unspent(t)
        /\ DOMAIN t.leaves \ Unspent(t) \subseteq DOMAIN t.leaves
        /\ Held(t) = Held(s)
             + Ledger!ValueOf(t.leaves, DOMAIN t.leaves \ DOMAIN s.leaves)
             - Ledger!ValueOf(t.leaves, (DOMAIN t.leaves \ Unspent(t))
                                          \ (DOMAIN s.leaves \ Unspent(s)))
  <2>3. ASSUME NEW s, NEW t, Settled(s), Settled(t), Extends(s, t) PROVE P(s, t)
    <3>1. s \in PoolStates /\ t \in PoolStates /\ Len(t.leaves) <= TreeCapacity
      BY <2>3 DEF Settled
    <3>2. Ledger!IsPrefix(s.leaves, t.leaves)
      BY <2>3, <3>1, LedgerPrefix
    <3>3. DOMAIN s.leaves \ Unspent(s) \subseteq DOMAIN t.leaves \ Unspent(t)
      BY <2>3, <3>1, SameWords
    <3>4. /\ Ledger!ValueOf(t.leaves, DOMAIN t.leaves \ DOMAIN s.leaves)
               = SumOver(Values(t), DOMAIN t.leaves \ DOMAIN s.leaves)
          /\ Ledger!ValueOf(t.leaves, (DOMAIN t.leaves \ Unspent(t))
                                        \ (DOMAIN s.leaves \ Unspent(s)))
               = SumOver(Values(t), (DOMAIN t.leaves \ Unspent(t))
                                        \ (DOMAIN s.leaves \ Unspent(s)))
      BY <3>1, LedgerValue
    <3>5. Held(t) = Held(s)
           + SumOver(Values(t), DOMAIN t.leaves \ DOMAIN s.leaves)
           - SumOver(Values(t), (DOMAIN t.leaves \ Unspent(t)) \ (DOMAIN s.leaves \ Unspent(s)))
      BY <2>3, VaultFollows
    <3> QED
      BY <3>1, <3>2, <3>3, <3>4, <3>5
  <2>4. P(Committed, Committed')
    <3> HIDE DEF P
    <3> QED
      BY <2>1, <2>2, <2>3
  <2> QED
    BY <2>4 DEF Ledger!Commit, Unspent, WordOf
<1>4. Spec => Ledger!Spec
  BY <1>1, <1>3, InitLedger, LedgerKept, PTL DEF Spec, Ledger!Spec
<1> QED
  BY <1>4 DEF ImplementsNoteLedger
=============================================================================
