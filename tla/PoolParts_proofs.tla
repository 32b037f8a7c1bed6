-------------------------- MODULE PoolParts_proofs --------------------------
(***************************************************************************)
(* Proofs about parts of the pool and of its clients.  RootHistory, for a  *)
(* ring of any size, any set of roots and any number of records, roots     *)
(* recorded again while retained included: the counters count, the lookups *)
(* agree with the list of everything recorded, and the ring implements     *)
(* RecentRoots.  DepositAmount: the client's inversion of the deposit fee  *)
(* is exact for every fee rate, denominator and value.  NoteSplit: however *)
(* a note is divided the parts add up to it and cost no more to deposit,   *)
(* for any number of parts and any amounts.  MerkleTree, for any set of    *)
(* leaves and any depth: the root computed leaf by leaf is the root of the *)
(* list, every leaf's path satisfies the circuit and no other leaf's does, *)
(* and no two sizes of the tree have the same root.  Calldata, for any     *)
(* proofs and any notes: the transaction a client makes of a proof decodes *)
(* to that proof, and all the clients make the same one.                   *)
(***************************************************************************)
EXTENDS RootHistory, NoteSplit, MerkleTree, Calldata, NumberTheorems,
        FiniteSetTheorems, SequenceTheorems, TLAPS

N == ROOT_HISTORY_SIZE

(* Each of the last N records is in the slot its number selects. *)
HoldsRecords ==
  \A k \in 1 .. Len(recorded) :
    k > Len(recorded) - N => ring.slots[SlotOf(k - 1)] = recorded[k]

Inv == HistoryTypeOK /\ HoldsRecords /\ OccurrencesCountSlots

-----------------------------------------------------------------------------
(* What one record does. *)

(* A number's slot is a slot, and below the size its own. *)
LEMMA SlotFacts ==
  ASSUME NEW n \in Nat
  PROVE  SlotOf(n) \in Slots /\ (n < N => SlotOf(n) = n)
<1>1. N \in Nat \ {0}
  BY RingSizeAssumption DEF N
<1>2. n % N \in 0 .. N - 1
  BY <1>1, ModRange
<1>3. n < N => n % N = n
  BY <1>1
<1> QED
  BY <1>2, <1>3 DEF SlotOf, Slots, N

(* The counters with the root of the overwritten slot released. *)
Kept == IF Evicts(ring) THEN Release(ring.occurrences, ring.slots[SlotOf(ring.total)])
                        ELSE ring.occurrences

(* What recording a root assigns. *)
LEMMA RecordFields ==
  ASSUME NEW root \in Roots, Record(root)
  PROVE  /\ ring'.slots = [ring.slots EXCEPT ![SlotOf(ring.total)] = root]
         /\ ring'.occurrences = [Kept EXCEPT ![root] = @ + 1]
         /\ ring'.total = ring.total + 1
         /\ recorded' = Append(recorded, root)
BY DEF Record, RecordRoot, Kept

(* The list of what was recorded grows by the root. *)
LEMMA RecordedAfter ==
  ASSUME Inv, NEW root \in Roots, Record(root)
  PROVE  /\ recorded' \in Seq(Roots)
         /\ Len(recorded') = ring.total + 1
         /\ recorded'[ring.total + 1] = root
         /\ \A k \in 1 .. ring.total : recorded'[k] = recorded[k]
<1>1. recorded \in Seq(Roots) /\ ring.total = Len(recorded)
  BY DEF Inv, HistoryTypeOK
<1>2. recorded' = Append(recorded, root)
  BY RecordFields
<1>3. /\ Append(recorded, root) \in Seq(Roots)
      /\ Len(Append(recorded, root)) = Len(recorded) + 1
      /\ \A k \in 1 .. Len(recorded) :
           Append(recorded, root)[k] = recorded[k]
      /\ Append(recorded, root)[Len(recorded) + 1] = root
  BY <1>1, AppendProperties
<1> QED
  BY <1>1, <1>2, <1>3

(* The slot a record writes belongs to the record N before it, if any. *)
LEMMA Overwritten ==
  ASSUME Inv, Evicts(ring)
  PROVE  ring.slots[SlotOf(ring.total)] \in Roots
<1> DEFINE k == ring.total - N + 1
<1>1. N \in Nat \ {0} /\ ring.total \in Nat /\ ring.total >= N
  BY RingSizeAssumption DEF N, Evicts, Inv, HistoryTypeOK, Rings
<1>2. k \in 1 .. Len(recorded) /\ k > Len(recorded) - N
  BY <1>1 DEF Inv, HistoryTypeOK
<1>3. ring.slots[SlotOf(k - 1)] = recorded[k]
  BY <1>2 DEF Inv, HoldsRecords
<1>4. SlotOf(k - 1) = SlotOf(ring.total)
  <2>1. (ring.total - N) % N = ring.total % N
    BY <1>1, ModTurn
  <2>2. k - 1 = ring.total - N
    BY <1>1
  <2> QED
    BY <2>1, <2>2 DEF SlotOf, N
<1>5. recorded[k] \in Roots
  BY <1>2 DEF Inv, HistoryTypeOK
<1> QED
  BY <1>3, <1>4, <1>5

(* Recording keeps the types. *)
LEMMA RecordTyped ==
  ASSUME Inv, NEW root \in Roots, Record(root)
  PROVE  HistoryTypeOK'
<1> DEFINE slot == SlotOf(ring.total)
<1>1. /\ ring.total \in Nat /\ slot \in Slots
      /\ ring.slots \in [Slots -> Roots \union {NoRoot}]
      /\ ring.occurrences \in [Roots -> Int]
      /\ recorded \in Seq(Roots) /\ ring.total = Len(recorded)
  BY SlotFacts DEF Inv, HistoryTypeOK, Rings
<1>2. Kept \in [Roots -> Int]
  <2>1. CASE Evicts(ring)
    <3>1. ring.slots[slot] \in Roots
      BY <2>1, Overwritten
    <3> QED
      BY <1>1, <2>1, <3>1 DEF Kept, Release
  <2>2. CASE ~Evicts(ring)
    BY <1>1, <2>2 DEF Kept
  <2> QED
    BY <2>1, <2>2
<1>3. ring' = [slots       |-> [ring.slots EXCEPT ![slot] = root],
               occurrences |-> [Kept EXCEPT ![root] = @ + 1],
               total       |-> ring.total + 1]
  BY DEF Record, RecordRoot, Kept
<1>4. ring' \in Rings
  BY <1>1, <1>2, <1>3 DEF Rings
<1>5. recorded' \in Seq(Roots) /\ ring'.total = Len(recorded')
  BY <1>3, RecordedAfter
<1> QED
  BY <1>4, <1>5 DEF HistoryTypeOK

(* Recording keeps each of the latest roots in its slot. *)
LEMMA RecordHolds ==
  ASSUME Inv, NEW root \in Roots, Record(root)
  PROVE  HoldsRecords'
<1>1. N \in Nat \ {0} /\ ring.total \in Nat /\ Len(recorded) = ring.total
  BY RingSizeAssumption DEF N, Inv, HistoryTypeOK, Rings
<1>2. /\ recorded \in Seq(Roots)
      /\ ring.slots \in [Slots -> Roots \union {NoRoot}]
  BY DEF Inv, HistoryTypeOK, Rings
<1>3. ring'.slots = [ring.slots EXCEPT ![SlotOf(ring.total)] = root]
  BY RecordFields
<1> SUFFICES ASSUME NEW k \in 1 .. Len(recorded'), k > Len(recorded') - N
             PROVE  ring'.slots[SlotOf(k - 1)] = recorded'[k]
  BY DEF HoldsRecords, N, SlotOf
<1>0. k \in 1 .. ring.total + 1 /\ k > ring.total + 1 - N
  <2>1. Len(recorded') = ring.total + 1
    BY RecordedAfter
  <2> QED
    BY <1>1, <2>1
<1>4. CASE k = ring.total + 1
  <2>1. recorded'[k] = root
    BY <1>4, RecordedAfter
  <2>2. k - 1 = ring.total
    BY <1>1, <1>4
  <2> QED
    BY <1>1, <1>2, <1>3, <2>1, <2>2, SlotFacts
<1>5. CASE k # ring.total + 1
  <2>1. k \in 1 .. Len(recorded) /\ k > Len(recorded) - N
    BY <1>0, <1>1, <1>5
  <2>2. recorded'[k] = recorded[k]
    BY <1>1, <2>1, RecordedAfter
  <2>3. SlotOf(k - 1) # SlotOf(ring.total)
    <3>1. k - 1 \in Nat /\ k - 1 < ring.total /\ ring.total - (k - 1) < N
      BY <1>0, <1>1, <1>5, <2>1
    <3>2. (k - 1) % N # ring.total % N
      BY <1>1, <3>1, ModApart
    <3> QED
      BY <3>2 DEF SlotOf, N
  <2>4. ring'.slots[SlotOf(k - 1)] = ring.slots[SlotOf(k - 1)]
    <3>1. k - 1 \in Nat
      BY <1>1
    <3>2. SlotOf(k - 1) \in Slots
      BY <3>1, SlotFacts
    <3> QED
      BY <1>2, <1>3, <2>3, <3>2
  <2>5. ring.slots[SlotOf(k - 1)] = recorded[k]
    BY <2>1 DEF Inv, HoldsRecords
  <2> QED
    BY <2>2, <2>4, <2>5
<1> QED
  BY <1>4, <1>5

-----------------------------------------------------------------------------
(* The counters. *)

(* The written slot stops holding what it held and holds the new root. *)
LEMMA HoldingAfter ==
  ASSUME Inv, NEW root \in Roots, Record(root), NEW r \in Roots
  PROVE  SlotsHolding(r)'
           = (SlotsHolding(r) \ {SlotOf(ring.total)})
               \union (IF r = root THEN {SlotOf(ring.total)} ELSE {})
<1> DEFINE slot == SlotOf(ring.total)
<1>1. N \in Nat \ {0} /\ ring.total \in Nat
  BY RingSizeAssumption DEF N, Inv, HistoryTypeOK, Rings
<1>2. ring.slots \in [Slots -> Roots \union {NoRoot}] /\ slot \in Slots
  BY <1>1, SlotFacts DEF Inv, HistoryTypeOK, Rings
<1>3. slot <= ring.total
  BY <1>1, <1>2, SlotFacts DEF Slots, N
<1>4. ring.total < N => slot = ring.total
  BY <1>1, SlotFacts
<1>5. \A s \in Slots : s # slot => (s < ring.total + 1 <=> s < ring.total)
  BY <1>1, <1>4 DEF Slots, N
<1>6. SlotsHolding(r)'
        = {s \in Slots : s < ring.total + 1 /\ ring'.slots[s] = r}
  BY RecordFields DEF SlotsHolding
<1>7. \A s \in Slots :
        ring'.slots[s] = IF s = slot THEN root ELSE ring.slots[s]
  BY <1>2, RecordFields
<1>8. slot < ring.total + 1
  BY <1>1, <1>2, <1>3 DEF Slots, N
<1> HIDE DEF slot
<1> QED
  BY <1>2, <1>5, <1>6, <1>7, <1>8 DEF SlotsHolding, slot

(* A root is in finitely many slots. *)
LEMMA HoldingFinite == \A r : IsFiniteSet(SlotsHolding(r))
<1> TAKE r
<1>1. IsFiniteSet(Slots)
  BY RingSizeAssumption, FS_Interval DEF Slots
<1>2. SlotsHolding(r) \in SUBSET Slots
  BY DEF SlotsHolding
<1> QED
  BY <1>1, <1>2, FS_Subset

(* The root that is released is the one the slot holds, if it is written. *)
LEMMA KeptCounts ==
  ASSUME Inv, NEW r \in Roots
  PROVE  Kept[r] = Cardinality(SlotsHolding(r) \ {SlotOf(ring.total)})
<1> DEFINE slot == SlotOf(ring.total)
<1>1. N \in Nat \ {0} /\ ring.total \in Nat
  BY RingSizeAssumption DEF N, Inv, HistoryTypeOK, Rings
<1>2. ring.occurrences \in [Roots -> Int] /\ slot \in Slots
  BY <1>1, SlotFacts DEF Inv, HistoryTypeOK, Rings
<1>3. ring.occurrences[r] = Cardinality(SlotsHolding(r))
  BY DEF Inv, OccurrencesCountSlots
<1>4. Cardinality(SlotsHolding(r) \ {slot})
        = IF slot \in SlotsHolding(r) THEN Cardinality(SlotsHolding(r)) - 1
                                      ELSE Cardinality(SlotsHolding(r))
  BY HoldingFinite, FS_RemoveElement
<1>5. CASE Evicts(ring)
  <2>1. slot < ring.total
    BY <1>1, <1>2, <1>5 DEF Slots, N, Evicts
  <2>2. slot \in SlotsHolding(r) <=> ring.slots[slot] = r
    BY <1>2, <2>1 DEF SlotsHolding
  <2>3. ring.slots[slot] \in Roots
    BY <1>5, Overwritten
  <2>4. Kept[r] = IF ring.slots[slot] = r THEN ring.occurrences[r] - 1
                                          ELSE ring.occurrences[r]
    BY <1>2, <1>5, <2>3 DEF Kept, Release
  <2> QED
    BY <1>3, <1>4, <2>2, <2>4
<1>6. CASE ~Evicts(ring)
  <2>1. ring.total < N
    BY <1>1, <1>6 DEF Evicts, N
  <2>2. slot = ring.total
    BY <1>1, <2>1, SlotFacts
  <2>3. slot \notin SlotsHolding(r)
    BY <1>1, <2>2 DEF SlotsHolding
  <2> QED
    BY <1>3, <1>4, <1>6, <2>3 DEF Kept
<1> QED
  BY <1>5, <1>6

(* Recording keeps the counts of occurrences right. *)
LEMMA RecordCounts ==
  ASSUME Inv, NEW root \in Roots, Record(root)
  PROVE  OccurrencesCountSlots'
<1> DEFINE slot == SlotOf(ring.total)
<1> SUFFICES ASSUME NEW r \in Roots
             PROVE  ring'.occurrences[r] = Cardinality(SlotsHolding(r)')
  BY DEF OccurrencesCountSlots
<1> DEFINE rest == SlotsHolding(r) \ {slot}
<1>1. IsFiniteSet(rest)
  BY HoldingFinite, FS_RemoveElement
<1>2. Kept[r] = Cardinality(rest)
  BY KeptCounts
<1>3. Kept[r] \in Int
  BY <1>1, <1>2, FS_CardinalityType
<1>4. ring'.occurrences[r] = IF r = root THEN Kept[r] + 1 ELSE Kept[r]
  <2>1. Kept \in [Roots -> Int]
    <3>1. ring.occurrences \in [Roots -> Int]
      BY DEF Inv, HistoryTypeOK, Rings
    <3>2. CASE Evicts(ring)
      <4>1. ring.slots[SlotOf(ring.total)] \in Roots
        BY <3>2, Overwritten
      <4> QED
        BY <3>1, <3>2, <4>1 DEF Kept, Release
    <3>3. CASE ~Evicts(ring)
      BY <3>1, <3>3 DEF Kept
    <3> QED
      BY <3>2, <3>3
  <2> QED
    BY <2>1, RecordFields
<1>5. SlotsHolding(r)' = rest \union (IF r = root THEN {slot} ELSE {})
  BY HoldingAfter
<1>6. CASE r = root
  <2>1. Cardinality(rest \union {slot}) = Cardinality(rest) + 1
    <3>1. slot \notin rest
      OBVIOUS
    <3> HIDE DEF rest, slot
    <3> QED
      BY <1>1, <3>1, FS_AddElement
  <2> QED
    BY <1>2, <1>4, <1>5, <1>6, <2>1
<1>7. CASE r # root
  <2>1. SlotsHolding(r)' = rest
    BY <1>5, <1>7
  <2> QED
    BY <1>2, <1>4, <1>7, <2>1
<1> QED
  BY <1>6, <1>7

-----------------------------------------------------------------------------
(* The invariant. *)

(* The empty ring satisfies the invariant. *)
LEMMA InitInv == HistoryInit => Inv
<1> SUFFICES ASSUME HistoryInit PROVE Inv
  OBVIOUS
<1>1. /\ ring.total = 0 /\ recorded = <<>> /\ Len(recorded) = 0
      /\ ring.occurrences = [r \in Roots |-> 0]
  BY DEF HistoryInit, EmptyRing
<1>2. HistoryTypeOK
  BY DEF HistoryInit, EmptyRing, HistoryTypeOK, Rings
<1>3. HoldsRecords
  BY <1>1 DEF HoldsRecords
<1>4. OccurrencesCountSlots
  <2> SUFFICES ASSUME NEW r \in Roots PROVE Cardinality(SlotsHolding(r)) = 0
    BY <1>1 DEF OccurrencesCountSlots
  <2>1. SlotsHolding(r) = {}
    BY <1>1, RingSizeAssumption DEF SlotsHolding, Slots
  <2> QED
    BY <2>1, FS_EmptySet
<1> QED
  BY <1>2, <1>3, <1>4 DEF Inv

(* Recording keeps the invariant. *)
LEMMA StepInv == Inv /\ [HistoryNext]_historyVars => Inv'
<1> SUFFICES ASSUME Inv, [HistoryNext]_historyVars PROVE Inv'
  OBVIOUS
<1>1. ASSUME NEW root \in Roots, Record(root) PROVE Inv'
  BY <1>1, RecordTyped, RecordHolds, RecordCounts DEF Inv
<1>2. CASE UNCHANGED historyVars
  BY <1>2 DEF historyVars, Inv, HistoryTypeOK, HoldsRecords, OccurrencesCountSlots, SlotsHolding
<1> QED
  BY <1>1, <1>2 DEF HistoryNext

(* RootHistoryLib's ring keeps its invariant, for every ring size and set of roots. *)
THEOREM Invariance == HistorySpec => []Inv
<1>1. QED
  BY InitInv, StepInv, PTL DEF HistorySpec

(***************************************************************************)
(* The counter of every root is the number of slots that hold it, so the   *)
(* unchecked decrement of _recordRoot never wraps.                         *)
(***************************************************************************)
THEOREM CountersCount == HistorySpec => []OccurrencesCountSlots
<1>1. Inv => OccurrencesCountSlots
  BY DEF Inv
<1> QED
  BY <1>1, Invariance, PTL
-----------------------------------------------------------------------------
(* The lookups, read off the invariant. *)

(* Types and sizes, read off the invariant. *)
LEMMA Sizes ==
  ASSUME Inv
  PROVE  /\ N \in Nat \ {0} /\ ring.total \in Nat
         /\ recorded \in Seq(Roots) /\ Len(recorded) = ring.total
         /\ RootHistoryLength(ring) = IF ring.total < N THEN ring.total ELSE N
BY RingSizeAssumption DEF N, Inv, HistoryTypeOK, Rings, RootHistoryLength

(* Every written slot is the slot of a record that is still retained. *)
LEMMA SlotHasRecord ==
  ASSUME Inv, NEW s \in Slots, s < ring.total
  PROVE  \E k \in Retained : SlotOf(k - 1) = s
<1>1. N \in Nat \ {0} /\ ring.total \in Nat /\ Len(recorded) = ring.total
  BY Sizes
<1>2. s \in Nat /\ s < N
  BY <1>1 DEF Slots, N
<1>3. s % N = s
  BY <1>2, SlotFacts DEF SlotOf, N
<1> DEFINE d == ring.total - 1 - s
           q == d \div N
           r == d % N
           k == ring.total - r
<1>4. d \in Nat
  BY <1>1, <1>2
<1>5. q \in Int /\ r \in 0 .. N - 1 /\ d = N * q + r
  <2> HIDE DEF d
  <2> QED
    BY <1>1, <1>4, ModParts
<1>6. r <= d
  BY <1>1, <1>4
<1>d. d = ring.total - 1 - s
  OBVIOUS
<1> HIDE DEF d, q, r
<1>7. k - 1 = s + N * q
  BY <1>1, <1>2, <1>5, <1>d
<1>8. (k - 1) % N = s
  <2>0. N \in Nat \ {0} /\ s \in Int /\ q \in Int
    BY <1>1, <1>2, <1>5
  <2>1. (s + N * q) % N = s % N
    BY <2>0, ModTurns, Zenon
  <2> QED
    BY <1>3, <1>7, <2>1
<1>9. k \in 1 .. Len(recorded) /\ k > Len(recorded) - N
  BY <1>1, <1>2, <1>5, <1>6, <1>d
<1> QED
  BY <1>8, <1>9 DEF Retained, SlotOf, N

(* The slot of a retained record is written. *)
LEMMA RecordHasSlot ==
  ASSUME Inv, NEW k \in Retained
  PROVE  /\ SlotOf(k - 1) \in Slots /\ SlotOf(k - 1) < ring.total
         /\ ring.slots[SlotOf(k - 1)] = recorded[k]
<1>1. N \in Nat \ {0} /\ ring.total \in Nat /\ Len(recorded) = ring.total
  BY Sizes
<1>2. k \in 1 .. Len(recorded) /\ k > Len(recorded) - N
  BY DEF Retained, N
<1>3. k - 1 \in Nat /\ k - 1 < ring.total
  BY <1>1, <1>2
<1>4. SlotOf(k - 1) \in Slots /\ (k - 1 < N => SlotOf(k - 1) = k - 1)
  BY <1>3, SlotFacts
<1>5. SlotOf(k - 1) < ring.total
  BY <1>1, <1>3, <1>4 DEF Slots, N
<1> QED
  BY <1>2, <1>4, <1>5 DEF Inv, HoldsRecords

(* A root is known exactly while it is among the latest. *)
LEMMA InvKnown == Inv => KnownExactlyWhenRetained
<1> SUFFICES ASSUME Inv, NEW root \in Roots
             PROVE  IsKnownRoot(ring, root)
                      <=> \E k \in Retained : recorded[k] = root
  BY DEF KnownExactlyWhenRetained
<1>1. IsKnownRoot(ring, root) <=> SlotsHolding(root) # {}
  <2>1. ring.occurrences[root] = Cardinality(SlotsHolding(root))
    BY DEF Inv, OccurrencesCountSlots
  <2>2. Cardinality(SlotsHolding(root)) = 0 <=> SlotsHolding(root) = {}
    BY HoldingFinite, FS_EmptySet
  <2> QED
    BY <2>1, <2>2 DEF IsKnownRoot
<1>2. ASSUME NEW k \in Retained, recorded[k] = root
      PROVE  SlotsHolding(root) # {}
  BY <1>2, RecordHasSlot DEF SlotsHolding
<1>3. ASSUME NEW s \in SlotsHolding(root)
      PROVE  \E k \in Retained : recorded[k] = root
  <2>1. s \in Slots /\ s < ring.total /\ ring.slots[s] = root
    BY DEF SlotsHolding
  <2>2. PICK k \in Retained : SlotOf(k - 1) = s
    BY <2>1, SlotHasRecord
  <2> QED
    BY <2>1, <2>2, RecordHasSlot
<1> QED
  BY <1>1, <1>2, <1>3

(* The ring is read back oldest first. *)
LEMMA InvHistory == Inv => HistoryOldestFirst
<1> SUFFICES ASSUME Inv, NEW index \in 0 .. RootHistoryLength(ring) - 1
             PROVE  RootHistoryAt(ring, index)
                      = recorded[Len(recorded) - RootHistoryLength(ring) + 1 + index]
  BY DEF HistoryOldestFirst
<1> DEFINE len == RootHistoryLength(ring)
           k   == ring.total - len + 1 + index
<1>1. /\ N \in Nat \ {0} /\ ring.total \in Nat /\ Len(recorded) = ring.total
      /\ len = IF ring.total < N THEN ring.total ELSE N
  BY Sizes
<1>2. index \in Nat /\ index < len
  BY <1>1
<1> HIDE DEF len
<1>3. k \in 1 .. Len(recorded) /\ k > Len(recorded) - N
  BY <1>1, <1>2
<1>4. ring.slots[SlotOf(k - 1)] = recorded[k]
  BY <1>3 DEF Inv, HoldsRecords
<1>5. (OldestSlot(ring) + index) % N = SlotOf(k - 1)
  <2>1. CASE ring.total <= N
    <3>1. OldestSlot(ring) = 0 /\ k - 1 = index
      BY <1>1, <1>2, <2>1 DEF OldestSlot, N
    <3> QED
      BY <1>2, <3>1 DEF SlotOf, N
  <2>2. CASE ring.total > N
    <3>1. OldestSlot(ring) = ring.total % N
      BY <1>1, <2>2 DEF OldestSlot, SlotOf, N
    <3>2. ((ring.total % N) + index) % N = (ring.total + index) % N
      BY <1>1, <1>2, ModAhead
    <3>3. ring.total + index \in Nat /\ ring.total + index >= N
      BY <1>1, <1>2, <2>2
    <3>4. ((ring.total + index) - N) % N = (ring.total + index) % N
      BY <1>1, <3>3, ModTurn
    <3>5. (ring.total + index) - N = k - 1
      BY <1>1, <1>2, <2>2
    <3> QED
      BY <3>1, <3>2, <3>4, <3>5 DEF SlotOf, N
  <2> QED
    BY <1>1, <2>1, <2>2
<1> QED
  BY <1>1, <1>4, <1>5 DEF RootHistoryAt, N, len

(***************************************************************************)
(* A root is known exactly when one of the last SIZE records is that root. *)
(***************************************************************************)
THEOREM KnownAreRetained == HistorySpec => []KnownExactlyWhenRetained
BY InvKnown, Invariance, PTL

(***************************************************************************)
(* The history reads from the oldest retained root to the newest, across   *)
(* the point where the ring wraps.                                         *)
(***************************************************************************)
THEOREM HistoryInOrder == HistorySpec => []HistoryOldestFirst
BY InvHistory, Invariance, PTL

-----------------------------------------------------------------------------
(* The ring implements the window of recent roots. *)

(* The window is the tail of everything recorded. *)
WindowIsTail ==
  /\ Window \in Seq(Roots)
  /\ Len(Window) = RootHistoryLength(ring)
  /\ \A i \in 1 .. RootHistoryLength(ring) :
       Window[i] = recorded[ring.total - RootHistoryLength(ring) + i]

(* What is read back is the tail of what was recorded. *)
LEMMA WindowRead == Inv => WindowIsTail
<1> SUFFICES ASSUME Inv PROVE WindowIsTail
  OBVIOUS
<1> DEFINE len == RootHistoryLength(ring)
<1>1. /\ ring.total \in Nat /\ recorded \in Seq(Roots)
      /\ Len(recorded) = ring.total /\ len \in Nat /\ len <= ring.total
  BY Sizes
<1>2. \A i \in 1 .. len :
        RootHistoryAt(ring, i - 1) = recorded[ring.total - len + i]
  <2> SUFFICES ASSUME NEW i \in 1 .. len
               PROVE  RootHistoryAt(ring, i - 1) = recorded[ring.total - len + i]
    OBVIOUS
  <2>1. i - 1 \in 0 .. len - 1
    BY <1>1
  <2>2. RootHistoryAt(ring, i - 1) = recorded[Len(recorded) - len + 1 + (i - 1)]
    BY <2>1, InvHistory DEF HistoryOldestFirst
  <2>3. Len(recorded) - len + 1 + (i - 1) = ring.total - len + i
    BY <1>1
  <2> QED
    BY <2>2, <2>3
<1>3. Window = [i \in 1 .. len |-> RootHistoryAt(ring, i - 1)]
  BY DEF Window
<1>4. \A i \in 1 .. len : ring.total - len + i \in 1 .. Len(recorded)
  BY <1>1
<1> HIDE DEF len
<1>5. \A i \in 1 .. len : Window[i] = recorded[ring.total - len + i]
  BY <1>2, <1>3
<1>6. \A i \in 1 .. len : Window[i] \in Roots
  BY <1>1, <1>4, <1>5, ElementOfSeq
<1>7. Window \in [1 .. len -> Roots]
  BY <1>3, <1>6
<1>8. Window \in Seq(Roots) /\ Len(Window) = len
  BY <1>1, <1>7, SeqDef
<1> QED
  BY <1>5, <1>8 DEF len, WindowIsTail
(* Recording in the ring is recording in the window. *)
LEMMA WindowRecorded ==
  ASSUME Inv, WindowIsTail, WindowIsTail', NEW root \in Roots, Record(root)
  PROVE  Window' = Abstract!LastN(Append(Window, root), N)
<1> DEFINE len   == RootHistoryLength(ring)
           lenp  == RootHistoryLength(ring')
           added == Append(Window, root)
           last  == Abstract!LastN(added, N)
<1>1. /\ N \in Nat \ {0} /\ ring.total \in Nat
      /\ len = IF ring.total < N THEN ring.total ELSE N
  BY Sizes
<1>2. ring'.total = ring.total + 1
  BY RecordFields
<1>3. lenp = IF ring.total + 1 < N THEN ring.total + 1 ELSE N
  BY <1>2 DEF RootHistoryLength, N
<1>4. /\ Window \in Seq(Roots) /\ Len(Window) = len
      /\ \A i \in 1 .. len : Window[i] = recorded[ring.total - len + i]
  BY DEF WindowIsTail
<1>5. /\ Window' \in Seq(Roots) /\ Len(Window') = lenp
      /\ \A i \in 1 .. lenp : Window'[i] = recorded'[ring'.total - lenp + i]
  BY DEF WindowIsTail
<1>6. /\ added \in Seq(Roots) /\ Len(added) = len + 1
      /\ \A i \in 1 .. len : added[i] = Window[i]
      /\ added[len + 1] = root
  BY <1>4, AppendProperties
<1>7. /\ recorded'[ring.total + 1] = root
      /\ \A k \in 1 .. ring.total : recorded'[k] = recorded[k]
  BY RecordedAfter
<1> HIDE DEF len, lenp, added
<1>8. \A i \in 1 .. len + 1 : added[i] = recorded'[ring.total - len + i]
  <2> SUFFICES ASSUME NEW i \in 1 .. len + 1
               PROVE  added[i] = recorded'[ring.total - len + i]
    OBVIOUS
  <2>1. CASE i = len + 1
    <3>1. ring.total - len + i = ring.total + 1
      BY <1>1, <2>1
    <3> QED
      BY <1>6, <1>7, <2>1, <3>1
  <2>2. CASE i # len + 1
    <3>1. i \in 1 .. len /\ ring.total - len + i \in 1 .. ring.total
      BY <1>1, <2>2
    <3> QED
      BY <1>4, <1>6, <1>7, <3>1
  <2> QED
    BY <2>1, <2>2
<1>9. CASE len < N
  <2>1. last = added
    BY <1>1, <1>6, <1>9 DEF Abstract!LastN
  <2>2. lenp = len + 1 /\ ring.total - len = 0
    BY <1>1, <1>3, <1>9
  <2>3. \A i \in 1 .. lenp : Window'[i] = added[i]
    <3> SUFFICES ASSUME NEW i \in 1 .. lenp PROVE Window'[i] = added[i]
      OBVIOUS
    <3>1. i \in 1 .. len + 1
      BY <2>2
    <3>2. ring'.total - lenp + i = ring.total - len + i
      BY <1>1, <1>2, <2>2, <3>1
    <3> QED
      BY <1>5, <1>8, <3>1, <3>2
  <2> HIDE DEF last
  <2>4. Len(Window') = Len(added)
    BY <1>5, <1>6, <2>2
  <2>5. Window' = added
    BY <1>5, <1>6, <2>3, <2>4, SeqEqual
  <2> QED
    BY <2>1, <2>5 DEF last, added
<1>10. CASE len = N
  <2>1. last = SubSeq(added, 2, N + 1)
    BY <1>1, <1>6, <1>10 DEF Abstract!LastN
  <2>2. lenp = N
    BY <1>1, <1>3, <1>10
  <2>3. \A i \in 2 .. N + 1 : added[i] \in Roots
    BY <1>1, <1>6, <1>10, ElementOfSeq
  <2>4. /\ SubSeq(added, 2, N + 1) \in Seq(Roots)
        /\ Len(SubSeq(added, 2, N + 1)) = N
        /\ \A i \in 1 .. N : SubSeq(added, 2, N + 1)[i] = added[i + 1]
    <3>1. 2 \in Int /\ N + 1 \in Int /\ 2 <= N + 1 /\ (N + 1) - 2 + 1 = N
      BY <1>1
    <3>2. /\ SubSeq(added, 2, N + 1) \in Seq(Roots)
          /\ Len(SubSeq(added, 2, N + 1)) = (N + 1) - 2 + 1
          /\ \A i \in 1 .. (N + 1) - 2 + 1 :
               SubSeq(added, 2, N + 1)[i] = added[2 + i - 1]
      BY <2>3, <3>1, SubSeqProperties
    <3>3. \A i \in 1 .. N : 2 + i - 1 = i + 1
      BY <1>1
    <3> QED
      BY <3>1, <3>2, <3>3
  <2>5. \A i \in 1 .. N : Window'[i] = added[i + 1]
    <3> SUFFICES ASSUME NEW i \in 1 .. N PROVE Window'[i] = added[i + 1]
      OBVIOUS
    <3>1. Window'[i] = recorded'[ring.total + 1 - N + i]
      <4>1. ring'.total - lenp + i = ring.total + 1 - N + i
        BY <1>1, <1>2, <2>2
      <4> QED
        BY <1>5, <2>2, <4>1
    <3>2. i + 1 \in 1 .. len + 1
      BY <1>1, <1>10
    <3>3. added[i + 1] = recorded'[ring.total - len + (i + 1)]
      BY <1>8, <3>2
    <3>4. ring.total - len + (i + 1) = ring.total + 1 - N + i
      BY <1>1, <1>10
    <3> QED
      BY <3>1, <3>3, <3>4
  <2> HIDE DEF last
  <2>6. Len(Window') = Len(SubSeq(added, 2, N + 1))
    BY <1>5, <2>2, <2>4
  <2>7. Window' = SubSeq(added, 2, N + 1)
    BY <1>1, <1>5, <2>2, <2>4, <2>5, <2>6, SeqEqual
  <2> QED
    BY <2>1, <2>7 DEF last, added
<1> QED
  BY <1>1, <1>9, <1>10

(* The known roots are those of the window. *)
KnownIsWindow ==
  {root \in Roots : IsKnownRoot(ring, root)}
    = {Window[i] : i \in DOMAIN Window}

(* The known roots are exactly those read back. *)
LEMMA KnownRead == Inv => KnownIsWindow
<1> SUFFICES ASSUME Inv PROVE KnownIsWindow
  OBVIOUS
<1>0. WindowIsTail /\ KnownExactlyWhenRetained
  BY WindowRead, InvKnown
<1> DEFINE len == RootHistoryLength(ring)
<1>1. /\ N \in Nat \ {0} /\ ring.total \in Nat /\ Len(recorded) = ring.total
      /\ recorded \in Seq(Roots)
      /\ len = IF ring.total < N THEN ring.total ELSE N
  BY Sizes
<1>2. /\ DOMAIN Window = 1 .. len
      /\ \A i \in 1 .. len : Window[i] = recorded[ring.total - len + i]
  BY <1>0 DEF WindowIsTail, Window
<1> HIDE DEF len
<1>3. ASSUME NEW i \in 1 .. len
      PROVE  ring.total - len + i \in Retained
  BY <1>1 DEF Retained, N
<1>4. ASSUME NEW k \in Retained
      PROVE  k - (ring.total - len) \in 1 .. len
  BY <1>1 DEF Retained, N
<1>5. ASSUME NEW root \in Roots, IsKnownRoot(ring, root)
      PROVE  \E i \in DOMAIN Window : root = Window[i]
  <2>1. PICK k \in Retained : recorded[k] = root
    BY <1>0, <1>5 DEF KnownExactlyWhenRetained
  <2> DEFINE i == k - (ring.total - len)
  <2>2. i \in 1 .. len /\ ring.total - len + i = k
    BY <1>1, <1>4 DEF Retained
  <2> HIDE DEF i
  <2> QED
    BY <1>2, <2>1, <2>2
<1>6. ASSUME NEW i \in DOMAIN Window
      PROVE  Window[i] \in Roots /\ IsKnownRoot(ring, Window[i])
  <2>1. i \in 1 .. len /\ Window[i] = recorded[ring.total - len + i]
    BY <1>2
  <2>2. ring.total - len + i \in Retained
    BY <1>3, <2>1
  <2>3. recorded[ring.total - len + i] \in Roots
    BY <1>1, <2>2, ElementOfSeq DEF Retained
  <2> QED
    BY <1>0, <2>1, <2>2, <2>3 DEF KnownExactlyWhenRetained
<1> QED
  BY <1>5, <1>6 DEF KnownIsWindow

(***************************************************************************)
(* Read through rootHistoryAt and isKnownRoot, the ring of the contract    *)
(* implements the plain window of recent roots.                            *)
(***************************************************************************)
THEOREM Refinement == HistorySpec => ImplementsRecentRoots
<1> DEFINE Good == Inv /\ WindowIsTail /\ KnownIsWindow
<1>1. Inv => Good
  BY WindowRead, KnownRead
<1>2. HistoryInit => Abstract!Init
  <2> SUFFICES ASSUME HistoryInit PROVE Abstract!Init
    OBVIOUS
  <2>1. ring.total = 0 /\ \A r \in Roots : ring.occurrences[r] = 0
    BY DEF HistoryInit, EmptyRing
  <2>2. RootHistoryLength(ring) = 0
    BY <2>1, RingSizeAssumption DEF RootHistoryLength
  <2>3. Window = <<>>
    BY <2>2 DEF Window
  <2> QED
    BY <2>1, <2>3 DEF Abstract!Init, IsKnownRoot
<1>3. Good /\ Good' /\ [HistoryNext]_historyVars => [Abstract!Next]_Abstract!vars
  <2> SUFFICES ASSUME Good, Good', [HistoryNext]_historyVars
               PROVE  [Abstract!Next]_Abstract!vars
    OBVIOUS
  <2>1. ASSUME NEW root \in Roots, Record(root) PROVE Abstract!Record(root)
    <3>1. Window' = Abstract!LastN(Append(Window, root), N)
      BY <2>1, WindowRecorded
    <3>2. {r \in Roots : IsKnownRoot(ring, r)}' = {Window[i] : i \in DOMAIN Window}'
      BY DEF KnownIsWindow
    <3> QED
      BY <3>1, <3>2 DEF Abstract!Record, N
  <2>2. CASE UNCHANGED historyVars
    BY <2>2 DEF historyVars, Abstract!vars, Window, RootHistoryLength, RootHistoryAt,
                OldestSlot, IsKnownRoot
  <2> QED
    BY <2>1, <2>2 DEF HistoryNext, Abstract!Next
<1> HIDE DEF Good
<1> QED
  BY <1>1, <1>2, <1>3, Invariance, PTL DEF HistorySpec, ImplementsRecentRoots, Abstract!Spec

-----------------------------------------------------------------------------
(* The deposit fee and its inversion.                                          *)

(* What integer division means, without \div. *)
LEMMA DivRange ==
  ASSUME NEW a \in Nat, NEW b \in Nat \ {0}
  PROVE  /\ a \div b \in Nat
         /\ (a \div b) * b <= a
         /\ a < (a \div b) * b + b
<1> DEFINE q == a \div b
<1> DEFINE r == a % b
<1>1. q \in Int /\ r \in 0 .. b - 1
  OBVIOUS
<1>2. a = b * q + r
  OBVIOUS
<1> HIDE DEF q, r
<1>3. b * q = q * b
  BY <1>1
<1>4. q >= 0
  <2> SUFFICES ASSUME q <= 0 - 1 PROVE FALSE
    BY <1>1
  <2>1. b * q <= 0 - b
    BY <1>1
  <2> QED
    BY <1>1, <1>2, <2>1
<1>5. q \in Nat /\ q * b <= a /\ a < q * b + b
  BY <1>1, <1>2, <1>3, <1>4
<1> QED
  BY <1>5 DEF q

(* A larger factor, a larger product. *)
LEMMA TimesMonotone ==
  ASSUME NEW x \in Int, NEW y \in Int, x <= y, NEW k \in Nat
  PROVE  x * k <= y * k
OBVIOUS

(* The net of an amount is the retained share of it, rounded up. *)
LEMMA NetBounds ==
  ASSUME NEW rate \in FeeRates, NEW amount \in Nat
  PROVE  LET n == DepositNetFromGross(amount, rate)
             kept == amount * (FEE_DENOMINATOR - rate)
         IN  /\ n \in Nat
             /\ kept <= n * FEE_DENOMINATOR
             /\ n * FEE_DENOMINATOR < kept + FEE_DENOMINATOR
             /\ n <= amount
<1> DEFINE D == FEE_DENOMINATOR
<1> DEFINE f == (amount * rate) \div D
<1>1. D \in Nat \ {0} /\ rate \in Nat /\ rate < D /\ amount * rate \in Nat
  BY DepositFeeAssumption, DepositAmountAssumption DEF FeeRates
<1>2. f \in Nat /\ f * D <= amount * rate /\ amount * rate < f * D + D
  BY <1>1, DivRange
<1>3. DepositNetFromGross(amount, rate) = amount - f
  BY DEF DepositNetFromGross, FeeFromPpm
<1> HIDE DEF f, D
<1>4. (amount - f) * D = amount * D - f * D
  BY <1>1, <1>2
<1>5. amount * (D - rate) = amount * D - amount * rate
  BY <1>1
<1>6. f <= amount
  <2> SUFFICES ASSUME f >= amount + 1 PROVE FALSE
    BY <1>2
  <2>1. (amount + 1) * D <= f * D
    BY <1>1, <1>2, TimesMonotone
  <2>2. amount * rate <= amount * D
    BY <1>1
  <2>3. (amount + 1) * D = amount * D + D
    BY <1>1
  <2> QED
    BY <1>1, <1>2, <2>1, <2>2, <2>3
<1>7. /\ amount - f \in Nat
      /\ amount * (D - rate) <= (amount - f) * D
      /\ (amount - f) * D < amount * (D - rate) + D
  BY <1>1, <1>2, <1>4, <1>5, <1>6
<1> QED
  BY <1>2, <1>3, <1>7 DEF D

(* The client's inverse leaves the value exactly, and nothing below it does. *)
LEMMA InverseExact ==
  ASSUME NEW rate \in FeeRates, NEW value \in Nat \ {0}
  PROVE  LET amount == InverseFee(value, rate)
         IN  /\ amount \in Nat \ {0}
             /\ DepositNetFromGross(amount, rate) = value
             /\ \A less \in 0 .. amount - 1 :
                  DepositNetFromGross(less, rate) # value
             /\ amount <= value * FEE_DENOMINATOR
<1> DEFINE D == FEE_DENOMINATOR
<1> DEFINE r == D - rate
<1> DEFINE below == D * (value - 1)
<1> DEFINE q == below \div r
<1>1. D \in Nat \ {0} /\ r \in Nat \ {0} /\ r <= D /\ below \in Nat
  BY DepositFeeAssumption, DepositAmountAssumption DEF FeeRates
<1>2. q \in Nat /\ q * r <= below /\ below < q * r + r
  BY <1>1, DivRange
<1>3. InverseFee(value, rate) = q + 1
  BY DEF InverseFee
<1>4. below = value * D - D /\ value * D \in Nat
  BY <1>1
<1>5. ASSUME NEW amount \in Nat
      PROVE  LET n == DepositNetFromGross(amount, rate)
             IN n \in Nat /\ amount * r <= n * D /\ n * D < amount * r + D
  BY NetBounds
<1> HIDE DEF D, r, below, q
<1>6. (q + 1) * r = q * r + r
  BY <1>1, <1>2
<1>7. ASSUME NEW n \in Nat, n < value
      PROVE  n * D <= value * D - D
  <2>1. n * D <= (value - 1) * D
    BY <1>1, <1>7, TimesMonotone
  <2> QED
    BY <1>1, <2>1
<1>8. ASSUME NEW n \in Nat, n > value
      PROVE  value * D + D <= n * D
  <2>1. (value + 1) * D <= n * D
    BY <1>1, <1>8, TimesMonotone
  <2> QED
    BY <1>1, <2>1
<1>9. DepositNetFromGross(q + 1, rate) = value
  <2> DEFINE n == DepositNetFromGross(q + 1, rate)
  <2>1. n \in Nat /\ (q + 1) * r <= n * D /\ n * D < (q + 1) * r + D
    BY <1>2, <1>5
  <2> HIDE DEF n
  <2>2. q * r \in Nat /\ n * D \in Nat
    BY <1>1, <1>2, <2>1
  <2>3. ~(n < value)
    BY <1>1, <1>2, <1>4, <1>6, <1>7, <2>1, <2>2
  <2>4. ~(n > value)
    BY <1>1, <1>2, <1>4, <1>6, <1>8, <2>1, <2>2
  <2>5. n = value
    BY <2>1, <2>3, <2>4
  <2> QED
    BY <2>5 DEF n
<1>10. ASSUME NEW less \in 0 .. q
       PROVE  DepositNetFromGross(less, rate) # value
  <2> DEFINE n == DepositNetFromGross(less, rate)
  <2>1. n \in Nat /\ n * D < less * r + D
    BY <1>2, <1>5
  <2>2. less * r <= q * r
    BY <1>1, <1>2, TimesMonotone
  <2> HIDE DEF n
  <2>3. n # value
    BY <1>1, <1>2, <1>4, <2>1, <2>2
  <2> QED
    BY <2>3 DEF n
<1>11. q + 1 <= value * D
  <2>1. q <= q * r
    BY <1>1, <1>2
  <2> QED
    BY <1>1, <1>2, <1>4, <2>1
<1> QED
  BY <1>2, <1>3, <1>9, <1>10, <1>11 DEF D

-----------------------------------------------------------------------------
(* A quote is the client's answer, and it says what the client throws on. *)
QuoteInv ==
  /\ TypeOK
  /\ status = "quoted" => gross = DepositGrossFromNet(net, ppm)
  /\ SmallestGross
  /\ ThrowsOnlyWhenImpossible
  /\ NoteIsAccepted

(* A note within the circuits' range fits uint256, its fee product included. *)
LEMMA NoteFits ==
  ASSUME NEW rate \in FeeRates, NEW value \in 1 .. AmountLimit - 1,
         NEW amount \in Nat, amount <= value * FEE_DENOMINATOR
  PROVE  amount <= UINT256_MAX /\ amount * rate <= UINT256_MAX
<1> DEFINE D == FEE_DENOMINATOR
<1>1. /\ D \in Nat \ {0} /\ rate \in Nat /\ rate <= D /\ AmountLimit \in Nat
      /\ UINT256_MAX \in Nat /\ AmountLimit * D * D <= UINT256_MAX
  BY DepositFeeAssumption, DepositAmountAssumption DEF FeeRates
<1> HIDE DEF D
<1>2. value * D <= AmountLimit * D
  BY <1>1, TimesMonotone
<1>3. amount <= AmountLimit * D /\ AmountLimit * D \in Nat
  BY <1>1, <1>2 DEF D
<1>4. amount * D <= AmountLimit * D * D
  BY <1>1, <1>3, TimesMonotone
<1>5. amount * rate <= amount * D /\ amount <= amount * D /\ amount * rate \in Nat
  BY <1>1
<1> QED
  BY <1>1, <1>4, <1>5

(* Preparing a deposit. *)
LEMMA QuoteKeeps ==
  ASSUME QuoteInv, NEW value \in Uint256, Quote(value)
  PROVE  QuoteInv'
<1> DEFINE amount == DepositGrossFromNet(value, ppm)
<1>1. /\ ppm' = ppm /\ ppm \in FeeRates /\ net' = value /\ gross' = amount
      /\ status' = Outcome(value, ppm) /\ value \in Nat
  BY DepositFeeAssumption, DepositAmountAssumption DEF Quote, QuoteInv, TypeOK, Uint256
<1>2. /\ amount \in Nat
      /\ DepositNetFromGross(amount, ppm) = value
      /\ \A less \in 0 .. amount - 1 : DepositNetFromGross(less, ppm) # value
      /\ amount <= value * FEE_DENOMINATOR
  <2>1. CASE value = 0
    <3>1. amount = 0
      BY <2>1 DEF DepositGrossFromNet
    <3>2. DepositNetFromGross(0, ppm) = 0
      <4>1. DepositNetFromGross(0, ppm) \in Nat /\ DepositNetFromGross(0, ppm) <= 0
        BY <1>1, NetBounds
      <4> QED
        BY <4>1
    <3> QED
      BY <2>1, <3>1, <3>2, DepositFeeAssumption, DepositAmountAssumption
  <2>2. CASE value # 0
    <3>1. amount = InverseFee(value, ppm)
      BY <2>2 DEF DepositGrossFromNet
    <3> QED
      BY <1>1, <2>2, <3>1, InverseExact
  <2> QED
    BY <2>1, <2>2
<1> HIDE DEF amount
<1>3. status' = IF amount > UINT256_MAX THEN "tooLarge" ELSE "quoted"
  BY <1>1, <1>2 DEF Outcome, amount
<1>4. TypeOK'
  BY <1>1, <1>2, <1>3 DEF TypeOK, Statuses, Thrown
<1>5. (status = "quoted" => gross = DepositGrossFromNet(net, ppm))'
  BY <1>1 DEF amount
<1>6. SmallestGross'
  BY <1>1, <1>2 DEF SmallestGross
<1>7. ThrowsOnlyWhenImpossible'
  <2>1. ASSUME status' \in Thrown, NEW other \in Uint256
        PROVE  DepositNetFromGross(other, ppm) # value
    <3>1. amount > UINT256_MAX
      BY <1>3, <2>1 DEF Thrown
    <3>2. other \in 0 .. amount - 1
      BY <1>2, <3>1, DepositFeeAssumption, DepositAmountAssumption DEF Uint256
    <3> QED
      BY <1>2, <3>2
  <2> QED
    BY <1>1, <2>1 DEF ThrowsOnlyWhenImpossible
<1>8. NoteIsAccepted'
  <2> SUFFICES ASSUME value \in 1 .. AmountLimit - 1
               PROVE  status' \notin Thrown \union {"reverted"}
    BY <1>1 DEF NoteIsAccepted
  <2>1. amount <= UINT256_MAX
    BY <1>1, <1>2, NoteFits
  <2> QED
    BY <1>2, <1>3, <2>1, DepositFeeAssumption, DepositAmountAssumption DEF Thrown
<1> QED
  BY <1>4, <1>5, <1>6, <1>7, <1>8 DEF QuoteInv

(* Executing it. *)
LEMMA SubmitKeeps ==
  ASSUME QuoteInv, Submit
  PROVE  QuoteInv'
<1>1. /\ ppm' = ppm /\ net' = net /\ gross' = gross
      /\ status = "quoted" /\ status' \in {"accepted", "reverted"}
      /\ ppm \in FeeRates /\ net \in Nat /\ gross \in Nat
  BY DepositFeeAssumption, DepositAmountAssumption DEF Submit, QuoteInv, TypeOK, Uint256
<1>2. TypeOK'
  BY <1>1 DEF QuoteInv, TypeOK, Statuses
<1>3. SmallestGross' /\ ThrowsOnlyWhenImpossible'
  BY <1>1 DEF SmallestGross, ThrowsOnlyWhenImpossible, Thrown
<1>4. ASSUME net \in 1 .. AmountLimit - 1
      PROVE  status' = "accepted"
  <2>1. gross = InverseFee(net, ppm)
    BY <1>1, <1>4 DEF QuoteInv, DepositGrossFromNet
  <2>2. /\ gross # 0 /\ gross <= net * FEE_DENOMINATOR
        /\ DepositNetFromGross(gross, ppm) = net
    BY <1>1, <1>4, <2>1, InverseExact
  <2>3. gross * ppm <= UINT256_MAX
    BY <1>1, <1>4, <2>2, NoteFits
  <2>4. ~Panics(gross)
    BY <1>1, <2>3, DepositFeeAssumption, DepositAmountAssumption DEF Panics, FeeRates
  <2>5. PoolNet(gross) = net
    BY <2>2 DEF PoolNet, DepositNetFromGross, FeeFromPpm
  <2> QED
    BY <2>2, <2>4, <2>5 DEF Submit
<1>5. NoteIsAccepted'
  BY <1>1, <1>4 DEF NoteIsAccepted, Thrown
<1> QED
  BY <1>1, <1>2, <1>3, <1>5 DEF QuoteInv

(* The three facts about a quote hold in every reachable state. *)
THEOREM QuotesAreRight == Spec => []QuoteInv
<1>1. Init => QuoteInv
  BY DepositFeeAssumption, DepositAmountAssumption
     DEF Init, QuoteInv, TypeOK, Uint256, Statuses, SmallestGross, Thrown,
         ThrowsOnlyWhenImpossible, NoteIsAccepted
<1>2. QuoteInv /\ [Next]_vars => QuoteInv'
  <2> SUFFICES ASSUME QuoteInv, [Next]_vars PROVE QuoteInv'
    OBVIOUS
  <2>1. CASE UNCHANGED vars
    BY <2>1 DEF vars, QuoteInv, TypeOK, SmallestGross,
                ThrowsOnlyWhenImpossible, NoteIsAccepted
  <2>2. CASE Next
    BY <2>2, QuoteKeeps, SubmitKeeps DEF Next
  <2> QED
    BY <2>1, <2>2
<1> QED
  BY <1>1, <1>2, PTL DEF Spec

(***************************************************************************)
(* depositGrossFromNet() returns the smallest amount that leaves the note's *)
(* value, for every denominator, fee rate and value.                       *)
(***************************************************************************)
THEOREM GrossIsSmallest == Spec => []SmallestGross
BY QuotesAreRight, PTL DEF QuoteInv

(***************************************************************************)
(* depositGrossFromNet() throws only when no uint256 amount would do.      *)
(***************************************************************************)
THEOREM ThrowsRightly == Spec => []ThrowsOnlyWhenImpossible
BY QuotesAreRight, PTL DEF QuoteInv

(***************************************************************************)
(* deposit() accepts every note within the circuits' range at the amount   *)
(* the client quotes: neither overflow nor another rounding refuses it.    *)
(***************************************************************************)
THEOREM NotesAreAccepted == Spec => []NoteIsAccepted
BY QuotesAreRight, PTL DEF QuoteInv

(***************************************************************************)
(* Both hold together: what the runs check under one name.                 *)
(***************************************************************************)
THEOREM QuotesAreExact == Spec => []QuoteIsExact
BY QuotesAreRight, PTL DEF QuoteInv, QuoteIsExact

(***************************************************************************)
(* Dividing a value in two never raises what its deposits cost together,   *)
(* at any fee rate: the reason why a split may be suggested to anybody.    *)
(***************************************************************************)
THEOREM TwoCostNoMore ==
  ASSUME NEW rate \in FeeRates, NEW a \in Nat \ {0}, NEW b \in Nat \ {0}
  PROVE  InverseFee(a, rate) + InverseFee(b, rate) <= InverseFee(a + b, rate)
<1> DEFINE D == FEE_DENOMINATOR
<1> DEFINE k == D - rate
<1> DEFINE p == (D * (a - 1)) \div k
<1> DEFINE q == (D * (b - 1)) \div k
<1> DEFINE s == (D * (a + b - 1)) \div k
<1>1. D \in Nat \ {0} /\ k \in Nat \ {0} /\ k <= D
  BY DepositFeeAssumption, DepositAmountAssumption DEF FeeRates
<1>2. /\ D * (a - 1) \in Nat
      /\ D * (b - 1) \in Nat
      /\ D * (a + b - 1) \in Nat
      /\ D * (a + b - 1) = D * (a - 1) + D * (b - 1) + D
  BY <1>1
<1>3. /\ p \in Nat /\ p * k <= D * (a - 1)
      /\ q \in Nat /\ q * k <= D * (b - 1)
      /\ s \in Nat /\ D * (a + b - 1) < s * k + k
  BY <1>1, <1>2, DivRange
<1>4. /\ InverseFee(a, rate) = p + 1
      /\ InverseFee(b, rate) = q + 1
      /\ InverseFee(a + b, rate) = s + 1
  BY DEF InverseFee
<1> HIDE DEF D, k, p, q, s
<1>5. (p + q + 1) * k = p * k + q * k + k
  BY <1>1, <1>3
<1>6. (p + q + 1) * k < (s + 1) * k
  <2>1. (s + 1) * k = s * k + k
    BY <1>1, <1>3
  <2> QED
    BY <1>1, <1>2, <1>3, <1>5, <2>1
<1>7. p + q + 1 <= s
  <2> SUFFICES ASSUME s + 1 <= p + q + 1 PROVE FALSE
    BY <1>3
  <2>1. (s + 1) * k <= (p + q + 1) * k
    BY <1>1, <1>3, TimesMonotone
  <2> QED
    BY <1>1, <1>3, <1>6, <2>1
<1> QED
  BY <1>3, <1>4, <1>7

-----------------------------------------------------------------------------
(* Dividing a note.                                                            *)

(* The sums of a plan, one part after the other. *)
LEMMA SumsOfAt ==
  ASSUME NEW parts \in Seq(Int)
  PROVE  /\ \A i \in 0 .. Len(parts) : SumsOf(parts)[i] \in Int
         /\ SumsOf(parts)[0] = 0
         /\ \A i \in 1 .. Len(parts) : SumsOf(parts)[i] = SumsOf(parts)[i - 1] + parts[i]
<1> DEFINE M == Len(parts)
           G == [p \in Int \X Nat |-> IF p[2] \in 1 .. M THEN p[1] + parts[p[2]] ELSE 0]
           Fits(f) == f = [i \in 0 .. M |-> IF i = 0 THEN 0 ELSE f[i - 1] + parts[i]]
<1>1. M \in Nat /\ 0 \in Int /\ \A i \in 1 .. M : parts[i] \in Int
  OBVIOUS
<1>2. G \in [Int \X Nat -> Int]
  BY <1>1
<1>3. PICK f \in [0 .. M -> Int] : Unfolds(f, M, 0, G)
  <2> HIDE DEF G, M
  <2> QED
    BY <1>1, <1>2, RecursionUpto
<1>4. ASSUME NEW i \in 1 .. M PROVE G[<<f[i - 1], i>>] = f[i - 1] + parts[i]
  <2>1. i - 1 \in 0 .. M /\ i \in Nat
    BY <1>1
  <2>2. f[i - 1] \in Int
    BY <1>3, <2>1
  <2> QED
    BY <2>1, <2>2
<1>5. Fits(f)
  <2> DEFINE h == [i \in 0 .. M |-> IF i = 0 THEN 0 ELSE f[i - 1] + parts[i]]
  <2>1. \A i \in 0 .. M : i # 0 => i \in 1 .. M
    BY <1>1
  <2> HIDE DEF G, M
  <2>2. f = h
    BY <1>3, <1>4, <2>1 DEF Unfolds
  <2> QED
    BY <2>2
<1>6. Fits(SumsOf(parts))
  <2> SUFFICES Fits(CHOOSE g : Fits(g))
    BY DEF SumsOf
  <2> HIDE DEF Fits
  <2> QED
    BY <1>5
<1> DEFINE s == SumsOf(parts)
<1> HIDE DEF s
<1>7. s = [i \in 0 .. M |-> IF i = 0 THEN 0 ELSE s[i - 1] + parts[i]]
  BY <1>6 DEF s
<1>8. \A i \in 0 .. M : s[i] = IF i = 0 THEN 0 ELSE s[i - 1] + parts[i]
  <2> DEFINE h == [i \in 0 .. M |-> IF i = 0 THEN 0 ELSE s[i - 1] + parts[i]]
  <2>1. \A i \in 0 .. M : h[i] = IF i = 0 THEN 0 ELSE s[i - 1] + parts[i]
    OBVIOUS
  <2>2. s = h
    BY <1>7
  <2> QED
    BY ONLY <2>1, <2>2
<1>9. \A i \in 0 .. M : s[i] \in Int
  <2> DEFINE S == {i \in Nat : i \in 0 .. M => s[i] \in Int}
  <2>1. 0 \in S
    BY <1>1, <1>8
  <2>2. ASSUME NEW i \in Nat, i \in S PROVE i + 1 \in S
    <3>1. i + 1 \in 0 .. M => i \in 0 .. M /\ i + 1 \in 1 .. M /\ (i + 1) - 1 = i /\ i + 1 # 0
      BY <1>1
    <3>2. ASSUME i + 1 \in 0 .. M PROVE s[i + 1] \in Int
      <4>1. i \in 0 .. M /\ i + 1 \in 1 .. M /\ i + 1 # 0 /\ (i + 1) - 1 = i
        BY <3>1, <3>2
      <4>2. s[i] \in Int
        BY <2>2, <4>1
      <4>3. parts[i + 1] \in Int
        BY <1>1, <4>1
      <4> HIDE DEF M
      <4>4. s[i + 1] = s[i] + parts[i + 1]
        BY <1>8, <3>2, <4>1
      <4> QED
        BY <4>2, <4>3, <4>4
    <3>3. i + 1 \in Nat
      OBVIOUS
    <3> HIDE DEF M, s
    <3> QED
      BY <3>2, <3>3
  <2> HIDE DEF S
  <2>3. Nat \subseteq S
    BY <2>1, <2>2, SetInduction
  <2> QED
    BY <2>3 DEF S
<1> QED
  <2>1. 0 \in 0 .. M /\ \A i \in 1 .. M : i \in 0 .. M /\ i # 0
    BY <1>1
  <2> HIDE DEF M
  <2>2. s[0] = 0 /\ \A i \in 1 .. M : s[i] = s[i - 1] + parts[i]
    BY <1>8, <2>1
  <2> QED
    BY <1>9, <2>2 DEF s, M

(* The sums of a longer plan begin with those of the shorter one. *)
LEMMA SumsOfAppend ==
  ASSUME NEW parts \in Seq(Int), NEW x \in Int
  PROVE  \A i \in 0 .. Len(parts) : SumsOf(Append(parts, x))[i] = SumsOf(parts)[i]
<1> DEFINE more == Append(parts, x)
           M == Len(parts)
           S == {i \in Nat : i \in 0 .. M => SumsOf(more)[i] = SumsOf(parts)[i]}
<1>1. more \in Seq(Int) /\ Len(more) = M + 1 /\ M \in Nat /\ \A i \in 1 .. M : more[i] = parts[i]
  OBVIOUS
<1> HIDE DEF more
<1>2. 0 \in S
  BY <1>1, SumsOfAt
<1>3. ASSUME NEW i \in Nat, i \in S PROVE i + 1 \in S
  <2>1. SUFFICES ASSUME i + 1 \in 0 .. M PROVE SumsOf(more)[i + 1] = SumsOf(parts)[i + 1]
    OBVIOUS
  <2>2. i + 1 \in 1 .. M /\ i + 1 \in 1 .. Len(more) /\ i \in 0 .. M /\ (i + 1) - 1 = i
    BY <1>1, <2>1
  <2>3. SumsOf(more)[i + 1] = SumsOf(more)[i] + more[i + 1]
    BY <1>1, <2>2, SumsOfAt
  <2>4. SumsOf(parts)[i + 1] = SumsOf(parts)[i] + parts[i + 1]
    BY <2>2, SumsOfAt
  <2> QED
    BY <1>1, <1>3, <2>2, <2>3, <2>4
<1> HIDE DEF S
<1>4. Nat \subseteq S
  BY <1>2, <1>3, SetInduction
<1> QED
  BY <1>4 DEF S, more

(* One more part adds its value to the total. *)
LEMMA TotalAppend ==
  ASSUME NEW parts \in Seq(Int), NEW x \in Int
  PROVE  Total(parts) \in Int /\ Total(Append(parts, x)) = Total(parts) + x
<1> DEFINE more == Append(parts, x)
           M == Len(parts)
<1>1. /\ more \in Seq(Int) /\ Len(more) = M + 1 /\ M \in Nat /\ more[M + 1] = x
      /\ M + 1 \in 1 .. M + 1 /\ (M + 1) - 1 = M /\ M \in 0 .. M
  OBVIOUS
<1>2. SumsOf(more)[M] = SumsOf(parts)[M]
  BY <1>1, SumsOfAppend
<1> HIDE DEF more
<1>3. SumsOf(more)[M + 1] = SumsOf(more)[(M + 1) - 1] + more[M + 1]
  BY <1>1, SumsOfAt
<1>4. SumsOf(parts)[M] \in Int
  BY <1>1, SumsOfAt
<1> QED
  BY <1>1, <1>2, <1>3, <1>4 DEF Total, more

(* The totals of plans of one and of two parts. *)
LEMMA SmallTotals ==
  ASSUME NEW a \in Int, NEW b \in Int
  PROVE  Total(<<>>) = 0 /\ Total(<<a>>) = a /\ Total(<<a, b>>) = a + b
<1>1. ASSUME NEW parts \in Seq(Int), Len(parts) = 0 PROVE Total(parts) = 0
  BY <1>1, SumsOfAt DEF Total
<1>2. ASSUME NEW parts \in Seq(Int), Len(parts) = 1 PROVE Total(parts) = parts[1]
  <2>1. /\ SumsOf(parts)[1] = SumsOf(parts)[1 - 1] + parts[1] /\ SumsOf(parts)[0] = 0
        /\ parts[1] \in Int /\ 1 - 1 = 0
    BY <1>2, SumsOfAt
  <2> QED
    BY <1>2, <2>1 DEF Total
<1>3. ASSUME NEW parts \in Seq(Int), Len(parts) = 2 PROVE Total(parts) = parts[1] + parts[2]
  <2>1. 1 \in 1 .. Len(parts) /\ 2 \in 1 .. Len(parts) /\ 1 - 1 = 0 /\ 2 - 1 = 1
    BY <1>3
  <2>2. SumsOf(parts)[1] = SumsOf(parts)[0] + parts[1] /\ SumsOf(parts)[0] = 0
    BY <2>1, SumsOfAt
  <2>3. SumsOf(parts)[2] = SumsOf(parts)[1] + parts[2]
    BY <2>1, SumsOfAt
  <2>4. parts[1] \in Int /\ parts[2] \in Int
    BY <2>1
  <2> QED
    BY <1>3, <2>2, <2>3, <2>4 DEF Total
<1>4. /\ <<>> \in Seq(Int) /\ Len(<<>>) = 0
      /\ <<a>> \in Seq(Int) /\ Len(<<a>>) = 1 /\ <<a>>[1] = a
      /\ <<a, b>> \in Seq(Int) /\ Len(<<a, b>>) = 2 /\ <<a, b>>[1] = a /\ <<a, b>>[2] = b
  OBVIOUS
<1> QED
  BY <1>1, <1>2, <1>3, <1>4

(* What the deposits of the parts cost together is no more than one deposit of *)
(* their total costs, whatever the parts.                                      *)
THEOREM PartsCostNoMore ==
  ASSUME NEW rate \in FeeRates, NEW parts \in Seq(Nat \ {0}), parts # <<>>
  PROVE  /\ Total(parts) \in Nat \ {0}
         /\ Total([i \in DOMAIN parts |-> DepositGrossFromNet(parts[i], rate)])
              <= DepositGrossFromNet(Total(parts), rate)
<1> DEFINE M == Len(parts)
           costs == [i \in DOMAIN parts |-> DepositGrossFromNet(parts[i], rate)]
           S == {i \in Nat : i + 1 \in 1 .. M =>
                   /\ SumsOf(parts)[i + 1] \in Nat \ {0}
                   /\ SumsOf(costs)[i + 1] <= InverseFee(SumsOf(parts)[i + 1], rate)}
<1>1. /\ M \in Nat \ {0} /\ DOMAIN parts = 1 .. M /\ parts \in Seq(Int)
      /\ \A i \in 1 .. M : parts[i] \in Nat \ {0}
  OBVIOUS
<1>2. \A i \in 1 .. M : costs[i] = InverseFee(parts[i], rate) /\ costs[i] \in Nat
  <2> TAKE i \in 1 .. M
  <2>1. parts[i] \in Nat \ {0}
    BY <1>1
  <2>2. InverseFee(parts[i], rate) \in Nat
    BY <2>1, InverseExact
  <2>3. costs[i] = DepositGrossFromNet(parts[i], rate)
    BY <1>1
  <2> QED
    BY <2>1, <2>2, <2>3 DEF DepositGrossFromNet
<1>3. costs \in Seq(Int) /\ Len(costs) = M
  BY <1>1, <1>2
<1> HIDE DEF costs
<1>4. 0 \in S
  <2>1. 1 \in 1 .. M /\ 0 + 1 = 1 /\ 1 - 1 = 0
    BY <1>1
  <2>2. SumsOf(parts)[1] = SumsOf(parts)[0] + parts[1] /\ SumsOf(parts)[0] = 0
    BY <1>1, <2>1, SumsOfAt
  <2>3. SumsOf(costs)[1] = SumsOf(costs)[0] + costs[1] /\ SumsOf(costs)[0] = 0
    BY <1>3, <2>1, SumsOfAt
  <2>4. SumsOf(parts)[1] = parts[1] /\ SumsOf(costs)[1] = costs[1] /\ parts[1] \in Nat \ {0}
    BY <1>1, <1>2, <2>1, <2>2, <2>3
  <2> QED
    BY <1>2, <2>1, <2>4
<1>5. ASSUME NEW i \in Nat, i \in S PROVE i + 1 \in S
  <2> DEFINE k == i + 2
             a == SumsOf(parts)[i + 1]
             b == parts[k]
  <2>1. SUFFICES ASSUME k \in 1 .. M
                 PROVE  /\ SumsOf(parts)[k] \in Nat \ {0}
                        /\ SumsOf(costs)[k] <= InverseFee(SumsOf(parts)[k], rate)
    <3>1. (i + 1) + 1 = k /\ i + 1 \in Nat
      OBVIOUS
    <3> QED
      BY <3>1
  <2>2. k - 1 = i + 1 /\ i + 1 \in 1 .. M
    BY <1>1, <2>1
  <2>3. a \in Nat \ {0} /\ SumsOf(costs)[i + 1] <= InverseFee(a, rate) /\ b \in Nat \ {0}
    BY <1>1, <1>5, <2>1, <2>2
  <2>4. SumsOf(parts)[k] = a + b
    BY <1>1, <2>1, <2>2, SumsOfAt
  <2>5. SumsOf(costs)[k] = SumsOf(costs)[i + 1] + InverseFee(b, rate)
    BY <1>2, <1>3, <2>1, <2>2, SumsOfAt
  <2>6. SumsOf(costs)[i + 1] \in Int
    BY <1>3, <2>2, SumsOfAt
  <2> HIDE DEF a, b, k
  <2>7. InverseFee(a, rate) \in Nat /\ InverseFee(b, rate) \in Nat /\ InverseFee(a + b, rate) \in Nat
    <3>1. a + b \in Nat \ {0}
      BY <2>3
    <3> QED
      BY <2>3, <3>1, InverseExact
  <2>8. InverseFee(a, rate) + InverseFee(b, rate) <= InverseFee(a + b, rate)
    BY <2>3, TwoCostNoMore
  <2>9. SumsOf(costs)[k] <= InverseFee(a + b, rate)
    BY <2>3, <2>5, <2>6, <2>7, <2>8
  <2> QED
    BY <2>3, <2>4, <2>9
<1>6. M - 1 \in S
  <2> HIDE DEF S
  <2>1. Nat \subseteq S
    BY <1>4, <1>5, SetInduction
  <2> QED
    BY <1>1, <2>1
<1>7. /\ SumsOf(parts)[M] \in Nat \ {0}
      /\ SumsOf(costs)[M] <= InverseFee(SumsOf(parts)[M], rate)
  <2>1. (M - 1) + 1 = M /\ M \in 1 .. M
    BY <1>1
  <2> QED
    BY <1>6, <2>1
<1> QED
  BY <1>3, <1>7 DEF Total, DepositGrossFromNet, costs

-----------------------------------------------------------------------------
(* The weights are positive, and so is their sum. *)
LEMMA WeightsPositive ==
  /\ \A i \in Nat : Weight[i] \in Nat \ {0}
  /\ \A n \in Nat \ {0} : WeightSum[n] \in Nat \ {0}
<1>1. \A i \in Nat : Weight[i] = IF i <= 1 THEN 1 ELSE 2 * Weight[i - 1]
  <2> DEFINE G == [p \in (Nat \ {0}) \X Nat |-> IF p[2] <= 1 THEN 1 ELSE 2 * p[1]]
             Fits(f) == f = [i \in Nat |-> IF i <= 1 THEN 1 ELSE 2 * f[i - 1]]
  <2>1. G \in [(Nat \ {0}) \X Nat -> Nat \ {0}] /\ 1 \in Nat \ {0}
    OBVIOUS
  <2>2. PICK f : Iterates(f, Nat \ {0}, 1, G)
    <3> HIDE DEF G
    <3> QED
      BY <2>1, RecursionOnNat
  <2>3. Fits(f)
    <3>1. f \in [Nat -> Nat \ {0}] /\ f[0] = 1 /\ \A n \in Nat : f[n + 1] = G[<<f[n], n + 1>>]
      BY <2>2 DEF Iterates
    <3>2. ASSUME NEW i \in Nat PROVE f[i] = IF i <= 1 THEN 1 ELSE 2 * f[i - 1]
      <4>1. CASE i # 0
        <5>1. i - 1 \in Nat /\ (i - 1) + 1 = i
          BY <4>1
        <5>2. f[i] = G[<<f[i - 1], i>>] /\ f[i - 1] \in Nat \ {0}
          BY <3>1, <5>1
        <5> QED
          BY <5>1, <5>2
      <4> QED
        BY <3>1, <4>1
    <3> DEFINE h == [i \in Nat |-> IF i <= 1 THEN 1 ELSE 2 * f[i - 1]]
    <3>3. f = h
      BY <3>1, <3>2
    <3> QED
      BY <3>3
  <2>4. Fits(Weight)
    <3> SUFFICES Fits(CHOOSE g : Fits(g))
      BY DEF Weight
    <3> HIDE DEF Fits
    <3> QED
      BY <2>3
  <2> DEFINE h == [i \in Nat |-> IF i <= 1 THEN 1 ELSE 2 * Weight[i - 1]]
  <2>5. Weight = h
    BY <2>4
  <2>6. \A i \in Nat : h[i] = IF i <= 1 THEN 1 ELSE 2 * Weight[i - 1]
    OBVIOUS
  <2> HIDE DEF h
  <2> QED
    BY <2>5, <2>6
<1>2. \A i \in Nat : Weight[i] \in Nat \ {0}
  <2> DEFINE S == {i \in Nat : Weight[i] \in Nat \ {0}}
  <2>1. 0 \in S
    BY <1>1
  <2>2. ASSUME NEW i \in Nat, i \in S PROVE i + 1 \in S
    <3>1. i + 1 \in Nat /\ (i + 1) - 1 = i
      OBVIOUS
    <3>2. Weight[i + 1] = IF i + 1 <= 1 THEN 1 ELSE 2 * Weight[i]
      BY <1>1, <3>1
    <3>3. Weight[i] \in Nat \ {0}
      BY <2>2
    <3> QED
      BY <3>1, <3>2, <3>3
  <2> HIDE DEF S
  <2>3. Nat \subseteq S
    BY <2>1, <2>2, SetInduction
  <2> QED
    BY <2>3 DEF S
<1>3. \A n \in Nat : WeightSum[n] = IF n = 0 THEN 0 ELSE WeightSum[n - 1] + Weight[n]
  <2> DEFINE G == [p \in Nat \X Nat |-> p[1] + Weight[p[2]]]
             Fits(f) == f = [n \in Nat |-> IF n = 0 THEN 0 ELSE f[n - 1] + Weight[n]]
  <2>1. G \in [Nat \X Nat -> Nat] /\ 0 \in Nat
    BY <1>2
  <2>2. PICK f : Iterates(f, Nat, 0, G)
    <3> HIDE DEF G
    <3> QED
      BY <2>1, RecursionOnNat
  <2>3. Fits(f)
    <3>1. f \in [Nat -> Nat] /\ f[0] = 0 /\ \A n \in Nat : f[n + 1] = G[<<f[n], n + 1>>]
      BY <2>2 DEF Iterates
    <3>2. ASSUME NEW n \in Nat PROVE f[n] = IF n = 0 THEN 0 ELSE f[n - 1] + Weight[n]
      <4>1. CASE n # 0
        <5>1. n - 1 \in Nat /\ (n - 1) + 1 = n
          BY <4>1
        <5>2. f[n] = G[<<f[n - 1], n>>] /\ f[n - 1] \in Nat
          BY <3>1, <5>1
        <5> QED
          BY <4>1, <5>1, <5>2
      <4> QED
        BY <3>1, <4>1
    <3> DEFINE h == [n \in Nat |-> IF n = 0 THEN 0 ELSE f[n - 1] + Weight[n]]
    <3>3. f = h
      BY <3>1, <3>2
    <3> QED
      BY <3>3
  <2>4. Fits(WeightSum)
    <3> SUFFICES Fits(CHOOSE g : Fits(g))
      BY DEF WeightSum
    <3> HIDE DEF Fits
    <3> QED
      BY <2>3
  <2> DEFINE h == [n \in Nat |-> IF n = 0 THEN 0 ELSE WeightSum[n - 1] + Weight[n]]
  <2>5. WeightSum = h
    BY <2>4
  <2>6. \A n \in Nat : h[n] = IF n = 0 THEN 0 ELSE WeightSum[n - 1] + Weight[n]
    OBVIOUS
  <2> HIDE DEF h
  <2> QED
    BY <2>5, <2>6
<1>4. \A n \in Nat : WeightSum[n] \in Nat /\ (n # 0 => WeightSum[n] # 0)
  <2> DEFINE S == {n \in Nat : WeightSum[n] \in Nat /\ (n # 0 => WeightSum[n] # 0)}
  <2>1. 0 \in S
    BY <1>3
  <2>2. ASSUME NEW n \in Nat, n \in S PROVE n + 1 \in S
    <3>1. n + 1 \in Nat /\ (n + 1) - 1 = n /\ n + 1 # 0
      OBVIOUS
    <3>2. WeightSum[n + 1] = WeightSum[n] + Weight[n + 1]
      BY <1>3, <3>1
    <3>3. WeightSum[n] \in Nat /\ Weight[n + 1] \in Nat \ {0}
      BY <1>2, <2>2, <3>1
    <3> QED
      BY <3>1, <3>2, <3>3
  <2> HIDE DEF S
  <2>3. Nat \subseteq S
    BY <2>1, <2>2, SetInduction
  <2> QED
    BY <2>3 DEF S
<1> QED
  BY <1>2, <1>4

(* A part is at least one, and leaves at least one for each part to come. *)
LEMMA PieceBounds ==
  ASSUME NEW value \in Nat, NEW n \in Nat \ {0}, NEW i \in 1 .. n, NEW given \in Nat,
         given <= value - (n - (i - 1))
  PROVE  Piece(value, given, n, i) \in 1 .. value - given - (n - i)
<1> DEFINE share == Share(value, n, i)
           most == value - given - (n - i)
<1>1. share \in Nat
  <2>1. value * Weight[i] \in Nat /\ WeightSum[n] \in Nat \ {0}
    <3>1. i \in Nat
      OBVIOUS
    <3>2. Weight[i] \in Nat
      BY <3>1, WeightsPositive
    <3>3. WeightSum[n] \in Nat \ {0}
      BY WeightsPositive
    <3> QED
      BY <3>2, <3>3
  <2> QED
    BY <2>1, DivRange DEF Share
<1>2. most \in Int /\ most >= 1
  OBVIOUS
<1> HIDE DEF share, most
<1>3. Piece(value, given, n, i) = LET s == IF share < 1 THEN 1 ELSE share
                                  IN  IF s > most THEN most ELSE s
  BY DEF Piece, share, most
<1>4. Piece(value, given, n, i) \in 1 .. most
  BY <1>1, <1>2, <1>3
<1> QED
  BY <1>4 DEF most

(* What the first parts are given is computed one part after the other, leaves *)
(* enough for the others, and grows by a positive part each time.              *)
LEMMA AllocatedAt ==
  ASSUME NEW value \in Nat, NEW n \in Nat \ {0}, n <= value
  PROVE  /\ Allocated(value, n)[0] = 0
         /\ \A i \in 0 .. n - 1 : Allocated(value, n)[i] \in 0 .. value - (n - i)
         /\ \A i \in 1 .. n - 1 :
              /\ Allocated(value, n)[i] =
                   Allocated(value, n)[i - 1] + Piece(value, Allocated(value, n)[i - 1], n, i)
              /\ Piece(value, Allocated(value, n)[i - 1], n, i) \in Nat \ {0}
<1> DEFINE M == n - 1
           Part(p) == Piece(value, p[1], n, p[2])
           G == [p \in Int \X Nat |-> p[1] + Part(p)]
           Fits(f) == f = [i \in 0 .. M |-> IF i = 0 THEN 0
                                            ELSE f[i - 1] + Piece(value, f[i - 1], n, i)]
<1>1. M \in Nat /\ 0 \in Int
  OBVIOUS
<1>2. G \in [Int \X Nat -> Int]
  <2>1. ASSUME NEW p \in Int \X Nat PROVE p[1] + Part(p) \in Int
    <3>1. p[1] \in Int /\ p[2] \in Nat
      OBVIOUS
    <3>2. Share(value, n, p[2]) \in Int
      <4>1. value * Weight[p[2]] \in Nat
        <5>1. Weight[p[2]] \in Nat
          BY <3>1, WeightsPositive
        <5> QED
          BY <5>1
      <4>2. WeightSum[n] \in Nat \ {0}
        BY WeightsPositive
      <4> QED
        BY <4>1, <4>2, DivRange DEF Share
    <3>3. Part(p) \in Int
      BY <3>1, <3>2 DEF Piece
    <3> HIDE DEF Part
    <3> QED
      BY <3>1, <3>3
  <2> HIDE DEF Part
  <2> QED
    BY <2>1
<1>3. PICK f \in [0 .. M -> Int] : Unfolds(f, M, 0, G)
  <2> HIDE DEF G, M
  <2> QED
    BY <1>1, <1>2, RecursionUpto
<1>4. ASSUME NEW i \in 1 .. M PROVE G[<<f[i - 1], i>>] = f[i - 1] + Piece(value, f[i - 1], n, i)
  <2>1. i - 1 \in 0 .. M /\ i \in Nat
    BY <1>1
  <2>2. f[i - 1] \in Int
    BY <1>3, <2>1
  <2>3. <<f[i - 1], i>> \in Int \X Nat /\ <<f[i - 1], i>>[1] = f[i - 1] /\ <<f[i - 1], i>>[2] = i
    BY <2>1, <2>2
  <2> QED
    BY <2>3
<1>5. Fits(f)
  <2> DEFINE h == [i \in 0 .. M |-> IF i = 0 THEN 0 ELSE f[i - 1] + Piece(value, f[i - 1], n, i)]
  <2>1. \A i \in 0 .. M : i # 0 => i \in 1 .. M
    BY <1>1
  <2> HIDE DEF G, M
  <2>2. f = h
    BY <1>3, <1>4, <2>1 DEF Unfolds
  <2> QED
    BY <2>2
<1>6. Fits(Allocated(value, n))
  <2> SUFFICES Fits(CHOOSE g : Fits(g))
    BY DEF Allocated
  <2> HIDE DEF Fits
  <2> QED
    BY <1>5
<1> DEFINE s == Allocated(value, n)
<1> HIDE DEF s
<1>7. \A i \in 0 .. M : s[i] = IF i = 0 THEN 0 ELSE s[i - 1] + Piece(value, s[i - 1], n, i)
  <2> DEFINE h == [i \in 0 .. M |-> IF i = 0 THEN 0 ELSE s[i - 1] + Piece(value, s[i - 1], n, i)]
  <2>1. \A i \in 0 .. M : h[i] = IF i = 0 THEN 0 ELSE s[i - 1] + Piece(value, s[i - 1], n, i)
    OBVIOUS
  <2>2. s = h
    BY <1>6 DEF s
  <2> QED
    BY ONLY <2>1, <2>2
<1>8. ASSUME NEW i \in 1 .. M, s[i - 1] \in 0 .. value - (n - (i - 1))
      PROVE  /\ s[i] = s[i - 1] + Piece(value, s[i - 1], n, i)
             /\ Piece(value, s[i - 1], n, i) \in Nat \ {0}
             /\ s[i] \in 0 .. value - (n - i)
  <2> DEFINE a == s[i - 1]
             piece == Piece(value, s[i - 1], n, i)
  <2>1. i \in 0 .. M /\ i # 0 /\ i \in 1 .. n
    OBVIOUS
  <2>2. s[i] = a + piece
    BY <1>7, <2>1
  <2>3. a \in Nat /\ a <= value - (n - (i - 1))
    BY <1>8
  <2>4. piece \in 1 .. value - a - (n - i)
    <3> HIDE DEF a
    <3> QED
      BY <2>1, <2>3, PieceBounds DEF a
  <2> HIDE DEF a, piece
  <2>5. piece \in Nat \ {0} /\ a + piece \in 0 .. value - (n - i)
    BY <2>3, <2>4
  <2> QED
    BY <2>2, <2>5 DEF a, piece
<1>9. \A i \in 0 .. M : s[i] \in 0 .. value - (n - i)
  <2> DEFINE S == {i \in Nat : i \in 0 .. M => s[i] \in 0 .. value - (n - i)}
  <2>1. 0 \in S
    <3>1. s[0] = 0
      BY <1>1, <1>7
    <3> QED
      BY <3>1
  <2>2. ASSUME NEW i \in Nat, i \in S PROVE i + 1 \in S
    <3>1. SUFFICES ASSUME i + 1 \in 0 .. M PROVE s[i + 1] \in 0 .. value - (n - (i + 1))
      OBVIOUS
    <3>2. i + 1 \in 1 .. M /\ (i + 1) - 1 = i /\ i \in 0 .. M
      BY <3>1
    <3>3. s[(i + 1) - 1] \in 0 .. value - (n - ((i + 1) - 1))
      BY <2>2, <3>2
    <3> HIDE DEF M
    <3> QED
      BY <1>8, <3>2, <3>3
  <2> HIDE DEF S
  <2>3. Nat \subseteq S
    BY <2>1, <2>2, SetInduction
  <2> QED
    BY <2>3 DEF S
<1>10. ASSUME NEW i \in 1 .. M
       PROVE  /\ s[i] = s[i - 1] + Piece(value, s[i - 1], n, i)
              /\ Piece(value, s[i - 1], n, i) \in Nat \ {0}
  <2>1. i - 1 \in 0 .. M
    OBVIOUS
  <2>2. s[i - 1] \in 0 .. value - (n - (i - 1))
    BY <1>9, <2>1
  <2> QED
    BY <1>8, <2>2
<1>11. s[0] = 0
  BY <1>1, <1>7
<1> QED
  BY <1>9, <1>10, <1>11 DEF s

(* The parts of a suggestion are positive and add up to the value. *)
THEOREM SuggestionAddsUp ==
  ASSUME NEW value \in Nat, NEW n \in 2 .. MAX_PARTS, n <= value
  PROVE  LET parts == SuggestNoteSplit(value, n)
         IN  parts \in Seq(Nat \ {0}) /\ Len(parts) = n /\ Total(parts) = value
<1> DEFINE parts == Pieces(value, n)
           given == Allocated(value, n)
<1>0. n \in Nat \ {0} /\ 2 <= n /\ n <= MAX_PARTS
  BY NoteSplitAssumption
<1>1. /\ given[0] = 0
      /\ \A i \in 0 .. n - 1 : given[i] \in 0 .. value - (n - i)
      /\ \A i \in 1 .. n - 1 :
           /\ given[i] = given[i - 1] + Piece(value, given[i - 1], n, i)
           /\ Piece(value, given[i - 1], n, i) \in Nat \ {0}
  <2> HIDE DEF given
  <2> QED
    BY <1>0, AllocatedAt DEF given
<1> HIDE DEF given
<1>2. parts = [i \in 1 .. n |-> IF i = n THEN value - given[i - 1]
                                ELSE Piece(value, given[i - 1], n, i)]
  BY DEF Pieces, given
<1> HIDE DEF parts
<1>3. ASSUME NEW i \in 1 .. n - 1 PROVE parts[i] = given[i] - given[i - 1] /\ parts[i] \in Nat \ {0}
  <2>1. i \in 1 .. n /\ i # n /\ i \in 0 .. n - 1 /\ i - 1 \in 0 .. n - 1
    BY <1>0
  <2>2. parts[i] = Piece(value, given[i - 1], n, i)
    BY <1>2, <2>1
  <2>3. given[i] \in Int /\ given[i - 1] \in Int
    BY <1>1, <2>1
  <2>4. given[i] = given[i - 1] + parts[i] /\ parts[i] \in Nat \ {0}
    BY <1>1, <2>2
  <2> QED
    BY <2>3, <2>4
<1>4. parts[n] = value - given[n - 1] /\ parts[n] \in Nat \ {0}
  <2>1. n \in 1 .. n /\ n - 1 \in 0 .. n - 1
    BY <1>0
  <2>2. given[n - 1] \in 0 .. value - (n - (n - 1))
    BY <1>1, <2>1
  <2>3. parts[n] = value - given[n - 1]
    BY <1>2, <2>1
  <2> QED
    BY <1>0, <2>2, <2>3
<1>5. \A i \in 1 .. n : parts[i] \in Nat \ {0}
  <2> TAKE i \in 1 .. n
  <2>1. i = n \/ i \in 1 .. n - 1
    BY <1>0
  <2> QED
    BY <2>1, <1>3, <1>4
<1>6. parts \in Seq(Nat \ {0}) /\ parts \in Seq(Int) /\ Len(parts) = n /\ DOMAIN parts = 1 .. n
  BY <1>0, <1>2, <1>5
<1>7. SuggestNoteSplit(value, n) = parts
  <2>1. ~ \E i \in DOMAIN parts : parts[i] <= 0
    BY <1>5, <1>6
  <2> QED
    BY <2>1, <1>0 DEF SuggestNoteSplit, parts
<1>8. \A i \in 0 .. n - 1 : SumsOf(parts)[i] = given[i]
  <2> DEFINE S == {i \in Nat : i \in 0 .. n - 1 => SumsOf(parts)[i] = given[i]}
  <2>1. 0 \in S
    BY <1>1, <1>6, SumsOfAt
  <2>2. ASSUME NEW i \in Nat, i \in S PROVE i + 1 \in S
    <3>1. SUFFICES ASSUME i + 1 \in 0 .. n - 1 PROVE SumsOf(parts)[i + 1] = given[i + 1]
      OBVIOUS
    <3>2. i + 1 \in 1 .. n /\ i + 1 \in 1 .. n - 1 /\ (i + 1) - 1 = i /\ i \in 0 .. n - 1
      BY <1>0, <3>1
    <3>3. SumsOf(parts)[i + 1] = SumsOf(parts)[i] + parts[i + 1]
      BY <1>6, <3>2, SumsOfAt
    <3>4. SumsOf(parts)[i] = given[i] /\ parts[i + 1] = given[i + 1] - given[i]
      BY <1>3, <2>2, <3>2
    <3>5. given[i] \in Int /\ given[i + 1] \in Int
      BY <1>1, <3>1, <3>2
    <3> QED
      BY <3>3, <3>4, <3>5
  <2> HIDE DEF S
  <2>3. Nat \subseteq S
    BY <2>1, <2>2, SetInduction
  <2> QED
    BY <2>3 DEF S
<1>9. Total(parts) = value
  <2>1. n \in 1 .. n /\ n - 1 \in 0 .. n - 1
    BY <1>0
  <2>2. SumsOf(parts)[n] = SumsOf(parts)[n - 1] + parts[n]
    BY <1>6, <2>1, SumsOfAt
  <2>3. given[n - 1] \in Int
    BY <1>1, <2>1
  <2>4. SumsOf(parts)[n] = given[n - 1] + (value - given[n - 1])
    BY <1>4, <1>8, <2>1, <2>2
  <2> QED
    BY <1>6, <2>3, <2>4 DEF Total
<1> QED
  BY <1>6, <1>7, <1>9

(* A plan of positive parts whose total is the note divides it.                *)
LEMMA DividesWell ==
  ASSUME QuoteInv, status = "quoted", NEW parts \in Seq(Nat \ {0}), parts # <<>>,
         Total(parts) = net
  PROVE  Divided(parts)
<1>1. ppm \in FeeRates /\ gross = DepositGrossFromNet(net, ppm)
  BY DEF QuoteInv, TypeOK
<1>2. Total([i \in DOMAIN parts |-> DepositGrossFromNet(parts[i], ppm)]) <= gross
  BY <1>1, PartsCostNoMore
<1>3. \A i \in DOMAIN parts : parts[i] > 0
  OBVIOUS
<1> QED
  BY <1>2, <1>3 DEF Divided, Refused

(* Amounts that are typed, and the change.                                      *)
THEOREM TypedAmountsAddUp ==
  ASSUME NEW total \in Nat \ {0}, NEW amounts \in Seq(Nat \ {0}),
         Len(amounts) \in 1 .. MAX_PARTS, Total(amounts) <= total
  PROVE  LET notes == NotesOf(total, amounts, TRUE)
         IN  /\ notes \in Seq(Nat \ {0}) /\ notes # <<>> /\ Total(notes) = total
             /\ Total(amounts) = total => notes = amounts
             /\ NotesOf(total, amounts, FALSE) = amounts
<1> DEFINE change == Change(total, amounts)
           notes == NotesOf(total, amounts, TRUE)
<1>1. amounts \in Seq(Int) /\ AmountsTaken(amounts) /\ amounts # Refused
  BY DEF AmountsTaken, Refused
<1>2. Total(amounts) \in Int /\ Total(Append(amounts, change)) = Total(amounts) + change
  <2>1. \A x \in Int : Total(amounts) \in Int /\ Total(Append(amounts, x)) = Total(amounts) + x
    BY <1>1, TotalAppend
  <2>2. Total(amounts) \in Int
    BY <2>1
  <2>3. change \in Int
    BY <2>2 DEF Change
  <2> HIDE DEF change
  <2> QED
    BY <2>1, <2>2, <2>3
<1>3. change \in Nat /\ change = total - Total(amounts)
  BY <1>2 DEF Change
<1>4. Append(amounts, change) # Refused
  BY <1>1 DEF Refused
<1>5. CASE change = 0
  <2>1. CustomDistribution(total, amounts) = amounts
    BY <1>1, <1>5 DEF CustomDistribution
  <2>2. notes = amounts /\ NotesOf(total, amounts, FALSE) = amounts
    BY <2>1, <1>1 DEF NotesOf
  <2>3. Total(amounts) = total
    BY <1>2, <1>3, <1>5
  <2> HIDE DEF notes
  <2> QED
    BY <1>1, <2>2, <2>3 DEF notes, Refused
<1>6. CASE change # 0
  <2>1. ~(change < 0)
    BY <1>3
  <2>2. CustomDistribution(total, amounts) = Append(amounts, change)
    BY <1>1, <1>6, <2>1 DEF CustomDistribution
  <2>3. notes = Append(amounts, change) /\ NotesOf(total, amounts, FALSE) = amounts
    BY <2>2, <1>4 DEF NotesOf
  <2>4. Total(Append(amounts, change)) = total /\ Total(amounts) # total
    BY <1>2, <1>3, <1>6
  <2> HIDE DEF change, notes
  <2>5. Append(amounts, change) \in Seq(Nat \ {0}) /\ Append(amounts, change) # <<>>
    BY <1>3, <1>6
  <2> QED
    BY <2>3, <2>4, <2>5 DEF notes
<1> QED
  BY <1>5, <1>6

(* A suggestion goes to the notes as it is.                                     *)
LEMMA SuggestionIsKept ==
  ASSUME NEW value \in Nat, NEW n \in 2 .. MAX_PARTS, n <= value
  PROVE  NotesOfSuggestion(value, n) = SuggestNoteSplit(value, n)
<1> DEFINE parts == SuggestNoteSplit(value, n)
<1>1. parts \in Seq(Nat \ {0}) /\ Len(parts) = n /\ Total(parts) = value
  BY SuggestionAddsUp
<1> HIDE DEF parts
<1>2. value \in Nat \ {0} /\ Len(parts) \in 1 .. MAX_PARTS /\ Total(parts) <= value
  BY <1>1, NoteSplitAssumption
<1>3. NotesOf(value, parts, TRUE) = parts
  BY <1>1, <1>2, TypedAmountsAddUp
<1> QED
  BY <1>3 DEF NotesOfSuggestion, parts

LEMMA InvSplit == QuoteInv => SplitCostsNoMore
<1> SUFFICES ASSUME QuoteInv, status = "quoted"
             PROVE  /\ \A n \in 2..MAX_PARTS :
                         n <= net => /\ Divided(SuggestNoteSplit(net, n))
                                     /\ NotesOfSuggestion(net, n) = SuggestNoteSplit(net, n)
                    /\ \A a \in 1..net : Divided(NotesOf(net, <<a>>, TRUE))
                    /\ \A a, b \in 1..MAX_PARTS : a + b <= net =>
                          /\ Divided(NotesOf(net, <<a, b>>, TRUE))
                          /\ Total(NotesOf(net, <<a, b>>, FALSE)) = a + b
  BY DEF SplitCostsNoMore
<1>0. net \in Nat
  BY DepositFeeAssumption, DepositAmountAssumption DEF QuoteInv, TypeOK, Uint256
<1>1. ASSUME NEW n \in 2 .. MAX_PARTS, n <= net
      PROVE  /\ Divided(SuggestNoteSplit(net, n))
             /\ NotesOfSuggestion(net, n) = SuggestNoteSplit(net, n)
  <2> DEFINE parts == SuggestNoteSplit(net, n)
  <2>1. parts \in Seq(Nat \ {0}) /\ Len(parts) = n /\ Total(parts) = net
    BY <1>0, <1>1, SuggestionAddsUp
  <2>2. NotesOfSuggestion(net, n) = parts
    BY <1>0, <1>1, SuggestionIsKept
  <2> HIDE DEF parts
  <2>3. parts # <<>>
    BY <2>1
  <2>4. Divided(parts)
    BY <2>1, <2>3, DividesWell
  <2> QED
    BY <2>2, <2>4 DEF parts
<1>2. ASSUME NEW amounts \in Seq(Nat \ {0}), Len(amounts) \in 1 .. MAX_PARTS,
             Total(amounts) \in Nat \ {0}, Total(amounts) <= net
      PROVE  Divided(NotesOf(net, amounts, TRUE)) /\ NotesOf(net, amounts, FALSE) = amounts
  <2> DEFINE notes == NotesOf(net, amounts, TRUE)
  <2>1. net \in Nat \ {0}
    BY <1>0, <1>2
  <2>2. /\ notes \in Seq(Nat \ {0}) /\ notes # <<>> /\ Total(notes) = net
        /\ NotesOf(net, amounts, FALSE) = amounts
    BY <1>2, <2>1, TypedAmountsAddUp
  <2> HIDE DEF notes
  <2>3. Divided(notes)
    BY <2>2, DividesWell
  <2> QED
    BY <2>2, <2>3 DEF notes
<1>3. ASSUME NEW a \in 1 .. net PROVE Divided(NotesOf(net, <<a>>, TRUE))
  <2> DEFINE amounts == <<a>>
  <2>1. amounts \in Seq(Nat \ {0}) /\ Len(amounts) \in 1 .. MAX_PARTS
    BY <1>0, NoteSplitAssumption
  <2>2. Total(amounts) = a /\ a \in Nat \ {0} /\ a <= net
    <3>1. a \in Int /\ a \in Nat \ {0} /\ a <= net
      BY <1>0
    <3>2. Total(<<a>>) = a
      BY <3>1, SmallTotals
    <3> QED
      BY <3>1, <3>2
  <2> HIDE DEF amounts
  <2> QED
    BY <1>2, <2>1, <2>2 DEF amounts
<1>4. ASSUME NEW a \in 1 .. MAX_PARTS, NEW b \in 1 .. MAX_PARTS, a + b <= net
      PROVE  /\ Divided(NotesOf(net, <<a, b>>, TRUE))
             /\ Total(NotesOf(net, <<a, b>>, FALSE)) = a + b
  <2> DEFINE amounts == <<a, b>>
  <2>0. a \in Nat \ {0} /\ b \in Nat \ {0}
    BY NoteSplitAssumption
  <2>1. amounts \in Seq(Nat \ {0}) /\ Len(amounts) \in 1 .. MAX_PARTS
    BY <2>0, NoteSplitAssumption
  <2>2. Total(amounts) = a + b /\ a + b \in Nat \ {0}
    <3>1. a \in Int /\ b \in Int /\ a + b \in Nat \ {0}
      BY <2>0
    <3>2. Total(<<a, b>>) = a + b
      BY <3>1, SmallTotals
    <3> QED
      BY <3>1, <3>2
  <2> HIDE DEF amounts
  <2>3. Divided(NotesOf(net, amounts, TRUE)) /\ NotesOf(net, amounts, FALSE) = amounts
    BY <1>2, <1>4, <2>1, <2>2
  <2> QED
    BY <2>2, <2>3 DEF amounts
<1> QED
  BY <1>1, <1>3, <1>4

(* However the note that is quoted is divided, by a suggested split or by hand,  *)
(* its parts add up to it and cost no more to deposit, at every fee rate.        *)
THEOREM SplitsCostNoMore == Spec => []SplitCostsNoMore
BY QuotesAreRight, InvSplit, PTL

-----------------------------------------------------------------------------
(* The tree: the recursive functions it is made of, step by step. *)

(* Half of a number, and half of the next one. *)
LEMMA Halves ==
  ASSUME NEW n \in Nat
  PROVE  /\ n \div 2 \in Nat /\ n % 2 \in {0, 1}
         /\ n = 2 * (n \div 2) + (n % 2)
         /\ (n + 1) \div 2 \in Nat
         /\ (n + 1) \div 2 = (n \div 2) + (n % 2)
OBVIOUS

(* The hashes of empty subtrees. *)
LEMMA ZerosAt ==
  /\ zeros[0] = ZeroLeaf
  /\ \A level \in 1 .. MAX_DEPTH : zeros[level] = Hash(zeros[level - 1], zeros[level - 1])
<1> DEFINE Turn(g, level) ==
      IF level = 0 THEN ZeroLeaf ELSE Hash(g[level - 1], g[level - 1])
<1> DEFINE Whole(g) == g = [level \in 0 .. MAX_DEPTH |-> Turn(g, level)]
<1> DEFINE S == {n \in Nat : \E g : \A level \in 0 .. n : g[level] = Turn(g, level)}
<1>1. 0 \in S
  <2> DEFINE g == [level \in {0} |-> ZeroLeaf]
  <2>1. \A level \in 0 .. 0 : g[level] = Turn(g, level)
    OBVIOUS
  <2>2. \E f : \A level \in 0 .. 0 : f[level] = Turn(f, level)
    <3> HIDE DEF g, Turn
    <3> QED
      BY <2>1
  <2> QED
    BY <2>2
<1>2. ASSUME NEW n \in Nat, n \in S PROVE n + 1 \in S
  <2>1. PICK g : \A level \in 0 .. n : g[level] = Turn(g, level)
    BY <1>2
  <2> DEFINE h == [level \in 0 .. n + 1 |-> IF level <= n THEN g[level] ELSE Hash(g[n], g[n])]
  <2>2. \A level \in 0 .. n + 1 : h[level] = Turn(h, level)
    BY <2>1
  <2>3. \E f : \A level \in 0 .. n + 1 : f[level] = Turn(f, level)
    <3> HIDE DEF h, Turn
    <3> QED
      BY <2>2
  <2> QED
    BY <2>3
<1>3. Nat \subseteq S
  <2> HIDE DEF S
  <2> QED
    BY <1>1, <1>2, SetInduction
<1>4. \E g : Whole(g)
  <2>1. PICK g : \A level \in 0 .. MAX_DEPTH : g[level] = Turn(g, level)
    BY <1>3, MerkleAssumption
  <2> DEFINE h == [level \in 0 .. MAX_DEPTH |-> g[level]]
  <2>2. \A level \in 0 .. MAX_DEPTH : h[level] = Turn(h, level)
    BY <2>1, MerkleAssumption
  <2>3. h = [level \in 0 .. MAX_DEPTH |-> Turn(h, level)]
    BY <2>2
  <2> QED
    BY <2>3
<1>5. Whole(zeros)
  BY <1>4 DEF zeros
<1> HIDE DEF Turn
<1>6. \A level \in 0 .. MAX_DEPTH : zeros[level] = Turn(zeros, level)
  BY <1>5
<1> QED
  BY <1>6, MerkleAssumption DEF Turn

(* A shift doubles. *)
LEMMA ShiftedAt ==
  /\ shifted[0] = 1
  /\ \A n \in Nat : shifted[n + 1] = 2 * shifted[n]
  /\ \A n \in Nat : shifted[n] \in Nat \ {0}
<1> DEFINE G == [x \in Nat \X Nat |-> 2 * x[1]]
<1> DEFINE R(f) == f = [bits \in Nat |-> IF bits = 0 THEN 1 ELSE 2 * f[bits - 1]]
<1>1. G \in [Nat \X Nat -> Nat] /\ \A x, m \in Nat : G[<<x, m>>] = 2 * x
  OBVIOUS
<1> HIDE DEF G
<1>2. PICK f : Iterates(f, Nat, 1, G)
  BY <1>1, RecursionOnNat
<1>3. R(f)
  <2>0. f \in [Nat -> Nat] /\ f[0] = 1 /\ \A n \in Nat : f[n + 1] = G[<<f[n], n + 1>>]
    BY <1>2 DEF Iterates
  <2>1. f \in [Nat -> Nat] /\ f[0] = 1 /\ \A n \in Nat : f[n + 1] = 2 * f[n]
    <3>1. ASSUME NEW n \in Nat PROVE f[n + 1] = 2 * f[n]
      <4>1. f[n] \in Nat /\ n + 1 \in Nat
        BY <2>0
      <4>2. G[<<f[n], n + 1>>] = 2 * f[n]
        BY <1>1, <4>1
      <4> QED
        BY <2>0, <4>2
    <3> QED
      BY <2>0, <3>1
  <2>2. \A bits \in Nat : bits # 0 => bits - 1 \in Nat /\ f[(bits - 1) + 1] = 2 * f[bits - 1]
    BY <2>1
  <2>3. \A bits \in Nat : bits # 0 => f[bits] = 2 * f[bits - 1]
    BY <2>2
  <2> QED
    BY <2>1, <2>3
<1>4. R(shifted)
  BY <1>3 DEF shifted
<1>5. /\ shifted[0] = 1
      /\ \A n \in Nat : shifted[n + 1] = 2 * shifted[n]
  BY <1>4
<1> DEFINE S == {n \in Nat : shifted[n] \in Nat \ {0}}
<1>6. 0 \in S
  BY <1>5
<1>7. ASSUME NEW n \in Nat, n \in S PROVE n + 1 \in S
  BY <1>5, <1>7
<1>8. Nat \subseteq S
  <2> HIDE DEF S
  <2> QED
    BY <1>6, <1>7, SetInduction
<1> QED
  BY <1>5, <1>8

(* The ancestors of a leaf, level by level. *)
LEMMA AncestorsAt ==
  ASSUME NEW index \in Nat
  PROVE  /\ Ancestors(index)[0] = index
         /\ \A level \in 1 .. MAX_DEPTH :
              Ancestors(index)[level] = Ancestors(index)[level - 1] \div 2
         /\ \A level \in 0 .. MAX_DEPTH : Ancestors(index)[level] \in Nat
<1> DEFINE G == [x \in Nat \X Nat |-> x[1] \div 2]
<1> DEFINE R(f) == f = [level \in 0 .. MAX_DEPTH |->
                          IF level = 0 THEN index ELSE f[level - 1] \div 2]
<1>1. G \in [Nat \X Nat -> Nat] /\ \A x, m \in Nat : G[<<x, m>>] = x \div 2
  OBVIOUS
<1> HIDE DEF G
<1>2. PICK f : Iterates(f, Nat, index, G)
  BY <1>1, RecursionOnNat
<1> DEFINE h == [level \in 0 .. MAX_DEPTH |-> f[level]]
<1>3. R(h)
  <2>0. f \in [Nat -> Nat] /\ f[0] = index /\ \A n \in Nat : f[n + 1] = G[<<f[n], n + 1>>]
    BY <1>2 DEF Iterates
  <2>1. f \in [Nat -> Nat] /\ f[0] = index /\ \A n \in Nat : f[n + 1] = f[n] \div 2
    <3>1. ASSUME NEW n \in Nat PROVE f[n + 1] = f[n] \div 2
      <4>1. f[n] \in Nat /\ n + 1 \in Nat
        BY <2>0
      <4>2. G[<<f[n], n + 1>>] = f[n] \div 2
        BY <1>1, <4>1
      <4> QED
        BY <2>0, <4>2
    <3> QED
      BY <2>0, <3>1
  <2>2. \A n \in Nat : n # 0 => n - 1 \in Nat /\ f[(n - 1) + 1] = f[n - 1] \div 2
    BY <2>1
  <2>3. \A n \in Nat : n # 0 => f[n] = f[n - 1] \div 2
    BY <2>2
  <2>4. \A level \in 0 .. MAX_DEPTH :
          h[level] = IF level = 0 THEN index ELSE h[level - 1] \div 2
    BY <2>1, <2>3, MerkleAssumption
  <2> QED
    BY <2>4
<1> DEFINE a == Ancestors(index)
<1>4. R(a)
  BY <1>3 DEF Ancestors
<1> HIDE DEF a
<1>5. /\ a[0] = index
      /\ \A level \in 1 .. MAX_DEPTH : a[level] = a[level - 1] \div 2
  BY <1>4, MerkleAssumption
<1> DEFINE S == {n \in Nat : n <= MAX_DEPTH => a[n] \in Nat}
<1>6. 0 \in S
  BY <1>5
<1>7. ASSUME NEW n \in Nat, n \in S PROVE n + 1 \in S
  <2> SUFFICES ASSUME n + 1 <= MAX_DEPTH PROVE a[n + 1] \in Nat
    OBVIOUS
  <2>1. a[n] \in Nat /\ n + 1 \in 1 .. MAX_DEPTH
    BY <1>7, MerkleAssumption
  <2>2. a[n + 1] = a[n] \div 2
    BY <1>5, <2>1
  <2> QED
    BY <2>1, <2>2
<1>8. Nat \subseteq S
  <2> HIDE DEF S
  <2> QED
    BY <1>6, <1>7, SetInduction
<1>9. \A level \in 0 .. MAX_DEPTH : a[level] \in Nat
  BY <1>8
<1> QED
  BY <1>5, <1>9 DEF a

(* The client's layers, level by level. *)
LEMMA LayersAt ==
  ASSUME NEW list, NEW depth \in Nat
  PROVE  /\ Layers(list, depth)[0] = list
         /\ \A level \in 1 .. depth :
              Layers(list, depth)[level] = NextLayer(Layers(list, depth)[level - 1], level - 1)
<1> DEFINE Turn(g, level) ==
      IF level = 0 THEN list ELSE NextLayer(g[level - 1], level - 1)
<1> DEFINE Whole(g) == g = [level \in 0 .. depth |-> Turn(g, level)]
<1> DEFINE S == {n \in Nat : \E g : \A level \in 0 .. n : g[level] = Turn(g, level)}
<1>1. 0 \in S
  <2> DEFINE g == [level \in {0} |-> list]
  <2>1. \A level \in 0 .. 0 : g[level] = Turn(g, level)
    OBVIOUS
  <2>2. \E f : \A level \in 0 .. 0 : f[level] = Turn(f, level)
    <3> HIDE DEF g, Turn
    <3> QED
      BY <2>1
  <2> QED
    BY <2>2
<1>2. ASSUME NEW n \in Nat, n \in S PROVE n + 1 \in S
  <2>1. PICK g : \A level \in 0 .. n : g[level] = Turn(g, level)
    BY <1>2
  <2> DEFINE h == [level \in 0 .. n + 1 |-> IF level <= n THEN g[level] ELSE NextLayer(g[n], n)]
  <2>2. \A level \in 0 .. n + 1 : h[level] = Turn(h, level)
    BY <2>1
  <2>3. \E f : \A level \in 0 .. n + 1 : f[level] = Turn(f, level)
    <3> HIDE DEF h, Turn
    <3> QED
      BY <2>2
  <2> QED
    BY <2>3
<1>3. Nat \subseteq S
  <2> HIDE DEF S
  <2> QED
    BY <1>1, <1>2, SetInduction
<1>4. \E g : Whole(g)
  <2>1. PICK g : \A level \in 0 .. depth : g[level] = Turn(g, level)
    BY <1>3
  <2> DEFINE h == [level \in 0 .. depth |-> g[level]]
  <2>2. \A level \in 0 .. depth : h[level] = Turn(h, level)
    BY <2>1
  <2>3. h = [level \in 0 .. depth |-> Turn(h, level)]
    BY <2>2
  <2> QED
    BY <2>3
<1> DEFINE L == Layers(list, depth)
<1>5. Whole(L)
  BY <1>4 DEF Layers
<1> HIDE DEF L, Turn
<1>6. \A level \in 0 .. depth : L[level] = Turn(L, level)
  BY <1>5
<1> QED
  BY <1>6 DEF Turn, L

-----------------------------------------------------------------------------
(* The client's layers as a tree of nodes. *)

(* The node at a position of a level, the empty ones included. *)
NodeAt(list, depth, level, position) ==
  NodeOr(Layers(list, depth)[level], position, zeros[level])

(* A layer is as long as its nodes above the last leaf say. *)
LEMMA LayerLength ==
  ASSUME NEW S, NEW list \in Seq(S), NEW depth \in 0 .. MAX_DEPTH, NEW level \in 0 .. depth
  PROVE  /\ Len(Layers(list, depth)[level]) \in Nat
         /\ list # <<>> =>
              Len(Layers(list, depth)[level]) = Ancestors(Len(list) - 1)[level] + 1
<1> DEFINE L == Layers(list, depth)
<1> DEFINE P == {n \in Nat : n <= depth =>
      /\ Len(L[n]) \in Nat
      /\ list # <<>> => Len(L[n]) = Ancestors(Len(list) - 1)[n] + 1}
<1>0. depth \in Nat /\ depth <= MAX_DEPTH /\ MAX_DEPTH \in Nat
  BY MerkleAssumption
<1>1. 0 \in P
  <2>1. L[0] = list /\ Len(list) \in Nat
    BY <1>0, LayersAt
  <2>2. list # <<>> => Len(list) - 1 \in Nat
    BY <2>1
  <2>3. list # <<>> => Ancestors(Len(list) - 1)[0] = Len(list) - 1
    BY <2>2, AncestorsAt
  <2> HIDE DEF L
  <2> QED
    BY <2>1, <2>3
<1>2. ASSUME NEW n \in Nat, n \in P PROVE n + 1 \in P
  <2> SUFFICES ASSUME n + 1 <= depth
               PROVE  /\ Len(L[n + 1]) \in Nat
                      /\ list # <<>> => Len(L[n + 1]) = Ancestors(Len(list) - 1)[n + 1] + 1
    OBVIOUS
  <2>1. L[n + 1] = NextLayer(L[n], n)
    <3>1. n + 1 \in 1 .. depth /\ (n + 1) - 1 = n
      BY <1>0
    <3>2. L[n + 1] = NextLayer(L[(n + 1) - 1], (n + 1) - 1)
      BY <1>0, <3>1, LayersAt
    <3> QED
      BY <3>1, <3>2
  <2>2. /\ Len(L[n]) \in Nat
        /\ list # <<>> => Len(L[n]) = Ancestors(Len(list) - 1)[n] + 1
    BY <1>2, <1>0
  <2> HIDE DEF L
  <2>3. Len(L[n + 1]) = (Len(L[n]) + 1) \div 2
    <3>1. (Len(L[n]) + 1) \div 2 \in Nat
      BY <2>2, Halves
    <3> QED
      BY <2>1, <3>1 DEF NextLayer
  <2>4. ASSUME list # <<>> PROVE Len(L[n + 1]) = Ancestors(Len(list) - 1)[n + 1] + 1
    <3> DEFINE a == Ancestors(Len(list) - 1)
    <3>1. Len(list) - 1 \in Nat /\ n + 1 \in 1 .. MAX_DEPTH /\ n \in 0 .. MAX_DEPTH
          /\ (n + 1) - 1 = n
      BY <2>4, <1>0
    <3>2. a[n + 1] = a[(n + 1) - 1] \div 2 /\ a[n] \in Nat
      BY <3>1, AncestorsAt
    <3>3. a[n + 1] = a[n] \div 2
      BY <3>1, <3>2
    <3>4. Len(L[n]) = a[n] + 1
      BY <2>2, <2>4
    <3> HIDE DEF a
    <3>5. Len(L[n + 1]) = (a[n] + 2) \div 2
      BY <2>3, <3>2, <3>4
    <3>6. (a[n] + 2) \div 2 = (a[n] \div 2) + 1
      BY <3>2
    <3>7. Len(L[n + 1]) = a[n + 1] + 1
      BY <3>3, <3>5, <3>6
    <3> QED
      BY <3>7 DEF a
  <2>5. Len(L[n + 1]) \in Nat
    BY <2>2, <2>3, Halves
  <2> QED
    BY <2>4, <2>5
<1>3. Nat \subseteq P
  <2> HIDE DEF P
  <2> QED
    BY <1>1, <1>2, SetInduction
<1> HIDE DEF L
<1>4. /\ Len(L[level]) \in Nat
      /\ list # <<>> => Len(L[level]) = Ancestors(Len(list) - 1)[level] + 1
  <2>1. level \in Nat /\ level <= depth /\ level \in P
    BY <1>0, <1>3
  <2> QED
    BY <2>1
<1> QED
  BY <1>4 DEF L

(* A node is the hash of the two below it, empty subtrees included. *)
LEMMA NodeHashes ==
  ASSUME NEW S, NEW list \in Seq(S), NEW depth \in 0 .. MAX_DEPTH, NEW level \in 1 .. depth,
         NEW p \in Nat
  PROVE  NodeAt(list, depth, level, p)
           = Hash(NodeAt(list, depth, level - 1, 2 * p), NodeAt(list, depth, level - 1, 2 * p + 1))
<1> DEFINE below == Layers(list, depth)[level - 1]
<1> DEFINE layer == Layers(list, depth)[level]
<1>1. /\ depth \in Nat /\ level \in 1 .. MAX_DEPTH /\ level - 1 \in 0 .. depth
      /\ MAX_DEPTH \in Nat
  BY MerkleAssumption
<1>2. layer = NextLayer(below, level - 1)
  BY <1>1, LayersAt
<1>3. Len(below) \in Nat
  BY <1>1, LayerLength
<1>4. zeros[level] = Hash(zeros[level - 1], zeros[level - 1])
  BY <1>1, ZerosAt
<1> DEFINE z == zeros[level - 1]
<1> HIDE DEF below, layer, z
<1>5. NodeOr(layer, p, zeros[level]) = Hash(NodeOr(below, 2 * p, z), NodeOr(below, 2 * p + 1, z))
  <2> DEFINE n == (Len(below) + 1) \div 2
  <2>1. n \in Nat /\ 2 * n >= Len(below) /\ 2 * n <= Len(below) + 1
    BY <1>3
  <2>2. /\ Len(layer) = n
        /\ \A i \in 1 .. n : layer[i] = Hash(below[2*i - 1], NodeOr(below, 2*i - 1, z))
    <3>1. layer = [i \in 1 .. n |-> Hash(below[2*i - 1], NodeOr(below, 2*i - 1, z))]
      BY <1>2 DEF NextLayer, z
    <3> HIDE DEF n
    <3> QED
      BY <2>1, <3>1
  <2> HIDE DEF n
  <2>3. CASE p < n
    <3>1. 2 * p < Len(below) /\ 2 * (p + 1) - 1 = 2 * p + 1
          /\ p + 1 \in 1 .. n
      BY <1>3, <2>1, <2>3
    <3>2. layer[p + 1] = Hash(below[2 * p + 1], NodeOr(below, 2 * p + 1, z))
      BY <2>2, <3>1
    <3> QED
      BY <2>2, <2>3, <3>1, <3>2 DEF NodeOr
  <2>4. CASE ~(p < n)
    <3>1. ~(2 * p < Len(below)) /\ ~(2 * p + 1 < Len(below))
      BY <1>3, <2>1, <2>4
    <3> QED
      BY <1>4, <2>2, <2>4, <3>1 DEF NodeOr, z
  <2> QED
    BY <2>3, <2>4
<1> QED
  BY <1>5 DEF NodeAt, below, layer, z

(* The root the client computes is the node at the top. *)
LEMMA ClientRootIsTop ==
  ASSUME NEW list, NEW depth
  PROVE  ClientRoot(list, depth) = NodeAt(list, depth, depth, 0)
BY DEF ClientRoot, NodeAt

(* At the bottom are the leaves. *)
LEMMA NodeIsLeaf ==
  ASSUME NEW list, NEW depth \in 0 .. MAX_DEPTH, NEW p
  PROVE  NodeAt(list, depth, 0, p) = NodeOr(list, p, ZeroLeaf)
<1>1. depth \in Nat
  BY MerkleAssumption
<1> QED
  BY <1>1, LayersAt, ZerosAt DEF NodeAt

(* A leaf within the width of the tree is below its root. *)
LEMMA TopAncestor ==
  ASSUME NEW depth \in 0 .. MAX_DEPTH, NEW index \in Nat, index < Width(depth)
  PROVE  Ancestors(index)[depth] = 0
<1> DEFINE a == Ancestors(index)
<1> DEFINE P == {n \in Nat : n <= depth => a[n] < shifted[depth - n]}
<1>0. depth \in Nat /\ depth <= MAX_DEPTH /\ MAX_DEPTH \in Nat /\ WordBits \in Nat
  BY MerkleAssumption
<1>1. index < shifted[depth]
  <2>1. shifted[depth] \in Nat /\ shifted[WordBits] \in Nat \ {0}
    BY <1>0, ShiftedAt
  <2>2. shifted[depth] % shifted[WordBits] <= shifted[depth]
    <3>1. ASSUME NEW x \in Nat, NEW y \in Nat \ {0} PROVE x % y <= x
      <4>1. CASE x < y
        BY <4>1
      <4>2. CASE ~(x < y)
        <5>1. x % y \in 0 .. y - 1
          BY ModRange
        <5> QED
          BY <4>2, <5>1
      <4> QED
        BY <4>1, <4>2
    <3> QED
      BY <2>1, <3>1
  <2>3. shifted[depth] % shifted[WordBits] \in Int
    BY <2>1
  <2> QED
    BY <2>1, <2>2, <2>3 DEF Width
<1>2. a[0] = index /\ \A n \in 0 .. MAX_DEPTH : a[n] \in Nat
  BY AncestorsAt
<1>3. \A n \in 1 .. MAX_DEPTH : a[n] = a[n - 1] \div 2
  BY AncestorsAt
<1> HIDE DEF a
<1>4. 0 \in P
  BY <1>0, <1>1, <1>2
<1>5. ASSUME NEW n \in Nat, n \in P PROVE n + 1 \in P
  <2> SUFFICES ASSUME n + 1 <= depth PROVE a[n + 1] < shifted[depth - (n + 1)]
    OBVIOUS
  <2> DEFINE m == depth - (n + 1)
  <2>1. m \in Nat /\ m + 1 = depth - n /\ n \in 0 .. MAX_DEPTH /\ n + 1 \in 1 .. MAX_DEPTH
        /\ (n + 1) - 1 = n
    BY <1>0
  <2>2. a[n] < shifted[m + 1] /\ a[n] \in Nat
    BY <1>2, <1>5, <2>1
  <2>3. a[n + 1] = a[n] \div 2
    BY <1>3, <2>1
  <2> HIDE DEF m
  <2>4. shifted[m + 1] = 2 * shifted[m] /\ shifted[m] \in Nat
    BY <2>1, ShiftedAt
  <2>5. a[n + 1] < shifted[m]
    BY <2>2, <2>3, <2>4
  <2> QED
    BY <2>5 DEF m
<1>6. Nat \subseteq P
  <2> HIDE DEF P
  <2> QED
    BY <1>4, <1>5, SetInduction
<1>7. a[depth] < shifted[0] /\ a[depth] \in Nat
  <2>1. depth \in P /\ depth - depth = 0
    BY <1>0, <1>6
  <2> QED
    BY <1>0, <1>2, <2>1
<1>8. a[depth] = 0
  BY <1>7, ShiftedAt
<1> QED
  BY <1>8 DEF a

-----------------------------------------------------------------------------
(* What an insert changes. *)

(* Everything to the right of the last leaf is empty. *)
LEMMA RightEmpty ==
  ASSUME NEW S, NEW list \in Seq(S), list # <<>>, NEW depth \in 0 .. MAX_DEPTH,
         NEW level \in 0 .. depth, NEW p \in Nat, p > Ancestors(Len(list) - 1)[level]
  PROVE  NodeAt(list, depth, level, p) = zeros[level]
<1>1. Len(list) - 1 \in Nat /\ level \in 0 .. MAX_DEPTH
  BY MerkleAssumption
<1>2. Ancestors(Len(list) - 1)[level] \in Nat
  BY <1>1, AncestorsAt
<1>3. Len(Layers(list, depth)[level]) = Ancestors(Len(list) - 1)[level] + 1
  BY LayerLength
<1> QED
  BY <1>2, <1>3 DEF NodeAt, NodeOr

(* A new leaf leaves everything to its left alone. *)
LEMMA LeftKept ==
  ASSUME NEW S, NEW list \in Seq(S), NEW leaf \in S, NEW depth \in 0 .. MAX_DEPTH,
         NEW level \in 0 .. depth, NEW p \in Nat, p < Ancestors(Len(list))[level]
  PROVE  NodeAt(Append(list, leaf), depth, level, p) = NodeAt(list, depth, level, p)
<1> DEFINE new == Append(list, leaf)
<1> DEFINE a == Ancestors(Len(list))
<1> DEFINE P == {n \in Nat : n <= depth =>
      \A q \in Nat : q < a[n] => NodeAt(new, depth, n, q) = NodeAt(list, depth, n, q)}
<1>0. /\ depth \in Nat /\ depth <= MAX_DEPTH /\ MAX_DEPTH \in Nat /\ Len(list) \in Nat
      /\ new \in Seq(S) /\ Len(new) = Len(list) + 1
      /\ \A i \in 1 .. Len(list) : new[i] = list[i]
  BY MerkleAssumption
<1>1. /\ a[0] = Len(list) /\ \A n \in 0 .. MAX_DEPTH : a[n] \in Nat
      /\ \A n \in 1 .. MAX_DEPTH : a[n] = a[n - 1] \div 2
  BY <1>0, AncestorsAt
<1> HIDE DEF a, new
<1>2. 0 \in P
  <2>1. ASSUME NEW q \in Nat, q < a[0]
        PROVE  NodeAt(new, depth, 0, q) = NodeAt(list, depth, 0, q)
    <3>1. NodeOr(new, q, ZeroLeaf) = NodeOr(list, q, ZeroLeaf)
      BY <1>0, <1>1, <2>1 DEF NodeOr
    <3> QED
      BY <3>1, NodeIsLeaf
  <2> QED
    BY <2>1
<1>3. ASSUME NEW n \in Nat, n \in P PROVE n + 1 \in P
  <2> SUFFICES ASSUME n + 1 <= depth, NEW q \in Nat, q < a[n + 1]
               PROVE  NodeAt(new, depth, n + 1, q) = NodeAt(list, depth, n + 1, q)
    OBVIOUS
  <2>1. n + 1 \in 1 .. depth /\ n + 1 \in 1 .. MAX_DEPTH /\ (n + 1) - 1 = n /\ n \in 0 .. MAX_DEPTH
    BY <1>0
  <2>2. a[n + 1] = a[n] \div 2 /\ a[n] \in Nat
    <3>1. a[n + 1] = a[(n + 1) - 1] \div 2
      BY <1>1, <2>1
    <3> QED
      BY <1>1, <2>1, <3>1
  <2>3. 2 * q \in Nat /\ 2 * q + 1 \in Nat /\ 2 * q < a[n] /\ 2 * q + 1 < a[n]
    BY <2>2
  <2>4. /\ NodeAt(new, depth, n, 2 * q) = NodeAt(list, depth, n, 2 * q)
        /\ NodeAt(new, depth, n, 2 * q + 1) = NodeAt(list, depth, n, 2 * q + 1)
    BY <1>0, <1>3, <2>1, <2>3
  <2>5. NodeAt(new, depth, n + 1, q)
          = Hash(NodeAt(new, depth, (n + 1) - 1, 2 * q), NodeAt(new, depth, (n + 1) - 1, 2 * q + 1))
    BY <1>0, <2>1, NodeHashes
  <2>6. NodeAt(list, depth, n + 1, q)
          = Hash(NodeAt(list, depth, (n + 1) - 1, 2 * q), NodeAt(list, depth, (n + 1) - 1, 2 * q + 1))
    BY <1>0, <2>1, NodeHashes
  <2> QED
    BY <2>1, <2>4, <2>5, <2>6
<1>4. Nat \subseteq P
  <2> HIDE DEF P
  <2> QED
    BY <1>2, <1>3, SetInduction
<1>5. NodeAt(new, depth, level, p) = NodeAt(list, depth, level, p)
  <2>1. level \in P /\ level <= depth
    BY <1>0, <1>4
  <2> QED
    BY <2>1 DEF a
<1> QED
  BY <1>5 DEF new

(* The next leaf has the same ancestor at a level, or the one beside it. *)
LEMMA NextAncestor ==
  ASSUME NEW index \in Nat, NEW level \in 0 .. MAX_DEPTH
  PROVE  \/ Ancestors(index + 1)[level] = Ancestors(index)[level]
         \/ Ancestors(index + 1)[level] = Ancestors(index)[level] + 1
<1> DEFINE a == Ancestors(index)
<1> DEFINE b == Ancestors(index + 1)
<1> DEFINE P == {n \in Nat : n <= MAX_DEPTH => b[n] = a[n] \/ b[n] = a[n] + 1}
<1>1. /\ a[0] = index /\ \A n \in 0 .. MAX_DEPTH : a[n] \in Nat
      /\ \A n \in 1 .. MAX_DEPTH : a[n] = a[n - 1] \div 2
  BY AncestorsAt
<1>2. /\ b[0] = index + 1 /\ \A n \in 1 .. MAX_DEPTH : b[n] = b[n - 1] \div 2
  BY AncestorsAt
<1> HIDE DEF a, b
<1>3. 0 \in P
  BY <1>1, <1>2
<1>4. ASSUME NEW n \in Nat, n \in P PROVE n + 1 \in P
  <2> SUFFICES ASSUME n + 1 <= MAX_DEPTH PROVE b[n + 1] = a[n + 1] \/ b[n + 1] = a[n + 1] + 1
    OBVIOUS
  <2>1. n + 1 \in 1 .. MAX_DEPTH /\ (n + 1) - 1 = n /\ n \in 0 .. MAX_DEPTH
    BY MerkleAssumption
  <2>2. a[n + 1] = a[n] \div 2 /\ b[n + 1] = b[n] \div 2 /\ a[n] \in Nat
    <3>1. a[n + 1] = a[(n + 1) - 1] \div 2 /\ b[n + 1] = b[(n + 1) - 1] \div 2
      BY <1>1, <1>2, <2>1
    <3> QED
      BY <1>1, <2>1, <3>1
  <2>3. b[n] = a[n] \/ b[n] = a[n] + 1
    BY <1>4, <2>1, MerkleAssumption
  <2> QED
    BY <2>2, <2>3, Halves
<1>5. Nat \subseteq P
  <2> HIDE DEF P
  <2> QED
    BY <1>3, <1>4, SetInduction
<1>6. b[level] = a[level] \/ b[level] = a[level] + 1
  <2>1. level \in P /\ level <= MAX_DEPTH
    BY <1>5, MerkleAssumption
  <2> QED
    BY <2>1
<1> QED
  BY <1>6 DEF a, b

(* insert()'s loop, turn by turn. *)
Climbs(climb, filled, index, leaf, depth) ==
  /\ climb[0] = [hash |-> leaf, filled |-> filled]
  /\ \A level \in 1 .. depth : climb[level] = ClimbStep(climb[level - 1], index, level - 1)

LEMMA InsertClimbs ==
  ASSUME NEW t, t.depth \in Nat, NEW leaf
  PROVE  \E climb :
           /\ Climbs(climb, t.filledSubtrees, t.nextIndex, leaf, t.depth)
           /\ InsertLeaf(t, leaf) = [t EXCEPT !.root           = climb[t.depth].hash,
                                              !.filledSubtrees = climb[t.depth].filled,
                                              !.nextIndex      = @ + 1]
<1> DEFINE depth == t.depth
<1> DEFINE Turn(g, level) ==
      IF level = 0 THEN [hash |-> leaf, filled |-> t.filledSubtrees]
                   ELSE ClimbStep(g[level - 1], t.nextIndex, level - 1)
<1> DEFINE Whole(g) == g = [level \in 0 .. t.depth |-> Turn(g, level)]
<1> DEFINE S == {n \in Nat : \E g : \A level \in 0 .. n : g[level] = Turn(g, level)}
<1>1. 0 \in S
  <2> DEFINE g == [level \in {0} |-> [hash |-> leaf, filled |-> t.filledSubtrees]]
  <2>1. \A level \in 0 .. 0 : g[level] = Turn(g, level)
    OBVIOUS
  <2>2. \E f : \A level \in 0 .. 0 : f[level] = Turn(f, level)
    <3> HIDE DEF g, Turn
    <3> QED
      BY <2>1
  <2> QED
    BY <2>2
<1>2. ASSUME NEW n \in Nat, n \in S PROVE n + 1 \in S
  <2>1. PICK g : \A level \in 0 .. n : g[level] = Turn(g, level)
    BY <1>2
  <2> DEFINE h == [level \in 0 .. n + 1 |->
                     IF level <= n THEN g[level] ELSE ClimbStep(g[n], t.nextIndex, n)]
  <2>2. \A level \in 0 .. n + 1 : h[level] = Turn(h, level)
    BY <2>1
  <2>3. \E f : \A level \in 0 .. n + 1 : f[level] = Turn(f, level)
    <3> HIDE DEF h, Turn
    <3> QED
      BY <2>2
  <2> QED
    BY <2>3
<1>3. Nat \subseteq S
  <2> HIDE DEF S
  <2> QED
    BY <1>1, <1>2, SetInduction
<1>4. \E g : Whole(g)
  <2>1. PICK g : \A level \in 0 .. depth : g[level] = Turn(g, level)
    BY <1>3
  <2> DEFINE h == [level \in 0 .. depth |-> g[level]]
  <2>2. \A level \in 0 .. depth : h[level] = Turn(h, level)
    BY <2>1
  <2>3. h = [level \in 0 .. depth |-> Turn(h, level)]
    BY <2>2
  <2> QED
    BY <2>3
<1> DEFINE c == CHOOSE g : Whole(g)
<1>5. Whole(c)
  <2> HIDE DEF Whole
  <2> QED
    BY <1>4
<1>6. InsertLeaf(t, leaf) = [t EXCEPT !.root           = c[t.depth].hash,
                                      !.filledSubtrees = c[t.depth].filled,
                                      !.nextIndex      = @ + 1]
  BY DEF InsertLeaf
<1> HIDE DEF c, Turn
<1>7. \A level \in 0 .. depth : c[level] = Turn(c, level)
  BY <1>5
<1>8. Climbs(c, t.filledSubtrees, t.nextIndex, leaf, t.depth)
  BY <1>7 DEF Turn, Climbs
<1> QED
  BY <1>6, <1>8

-----------------------------------------------------------------------------
(* The contract's climb. *)

(* Where the next leaf will need a left sibling, the contract remembers it.     *)
Remembers(filled, list, depth) ==
  \A level \in 0 .. depth - 1 :
    Bit(Len(list), level) = 1 =>
      filled[level] = NodeAt(list, depth, level, Ancestors(Len(list))[level] - 1)

(* What a climb has written to filledSubtrees below a level.                    *)
Written(filled, new, index, depth, level) ==
  [k \in 0 .. depth - 1 |->
     IF k < level /\ Bit(index, k) = 0
       THEN NodeAt(new, depth, k, Ancestors(index)[k]) ELSE filled[k]]

(* The climb passes the nodes above the new leaf, as the client sees them. *)
LEMMA ClimbRight ==
  ASSUME NEW S, NEW list \in Seq(S), NEW leaf \in S, NEW depth \in 0 .. MAX_DEPTH,
         NEW filled, filled = [k \in 0 .. depth - 1 |-> filled[k]],
         Remembers(filled, list, depth),
         NEW climb, Climbs(climb, filled, Len(list), leaf, depth)
  PROVE  climb[depth] =
           [hash   |-> NodeAt(Append(list, leaf), depth, depth, Ancestors(Len(list))[depth]),
            filled |-> Written(filled, Append(list, leaf), Len(list), depth, depth)]
<1> DEFINE new == Append(list, leaf)
<1> DEFINE n == Len(list)
<1> DEFINE a == Ancestors(n)
<1> DEFINE At(m) == [hash   |-> NodeAt(new, depth, m, a[m]),
                     filled |-> Written(filled, new, n, depth, m)]
<1> DEFINE P == {m \in Nat : m <= depth => climb[m] = At(m)}
<1>0. /\ depth \in Nat /\ depth <= MAX_DEPTH /\ MAX_DEPTH \in Nat /\ n \in Nat
      /\ new \in Seq(S) /\ Len(new) = n + 1 /\ new[n + 1] = leaf /\ new # <<>>
      /\ Len(new) - 1 = n
  <2>1. depth \in Nat /\ depth <= MAX_DEPTH /\ MAX_DEPTH \in Nat /\ n \in Nat
    BY MerkleAssumption
  <2>2. new \in Seq(S) /\ Len(new) = n + 1 /\ new[n + 1] = leaf
    OBVIOUS
  <2>3. new # <<>>
    BY <2>1, <2>2
  <2> HIDE DEF new, n
  <2> QED
    BY <2>1, <2>2, <2>3
<1>1. /\ a[0] = n /\ \A m \in 0 .. MAX_DEPTH : a[m] \in Nat
      /\ \A m \in 1 .. MAX_DEPTH : a[m] = a[m - 1] \div 2
  BY <1>0, AncestorsAt
<1>2. \A m \in 0 .. depth : \A p \in Nat : p > a[m] => NodeAt(new, depth, m, p) = zeros[m]
  BY <1>0, RightEmpty
<1>3. \A m \in 0 .. depth : \A p \in Nat :
        p < a[m] => NodeAt(new, depth, m, p) = NodeAt(list, depth, m, p)
  BY LeftKept
<1>4. \A m \in 1 .. depth : \A p \in Nat :
        NodeAt(new, depth, m, p)
          = Hash(NodeAt(new, depth, m - 1, 2 * p), NodeAt(new, depth, m - 1, 2 * p + 1))
  BY <1>0, NodeHashes
<1>5. \A m \in 0 .. depth - 1 : a[m] % 2 = 1 => filled[m] = NodeAt(list, depth, m, a[m] - 1)
  BY DEF Remembers, Bit
<1>6. /\ climb[0] = [hash |-> leaf, filled |-> filled]
      /\ \A m \in 1 .. depth : climb[m] = ClimbStep(climb[m - 1], n, m - 1)
  BY DEF Climbs
<1>7. NodeAt(new, depth, 0, n) = leaf
  <2>1. NodeAt(new, depth, 0, n) = NodeOr(new, n, ZeroLeaf)
    BY NodeIsLeaf
  <2> QED
    BY <1>0, <2>1 DEF NodeOr
<1>8. \A m : Bit(n, m) = a[m] % 2
  BY DEF Bit
<1> HIDE DEF new, n, a
<1>9. 0 \in P
  <2>1. Written(filled, new, n, depth, 0) = filled
    BY DEF Written
  <2>2. At(0) = climb[0]
    BY <1>1, <1>6, <1>7, <2>1
  <2> QED
    BY <2>2
<1>10. ASSUME NEW m \in Nat, m \in P PROVE m + 1 \in P
  <2> SUFFICES ASSUME m + 1 <= depth PROVE climb[m + 1] = At(m + 1)
    OBVIOUS
  <2>1. /\ m + 1 \in 1 .. depth /\ m + 1 \in 1 .. MAX_DEPTH /\ (m + 1) - 1 = m
        /\ m \in 0 .. MAX_DEPTH /\ m \in 0 .. depth - 1 /\ m \in 0 .. depth
    BY <1>0
  <2>2. climb[m] = At(m)
    BY <1>0, <1>10, <2>1
  <2>3. climb[m + 1] = ClimbStep(At(m), n, m)
    BY <1>6, <2>1, <2>2
  <2>4. a[m] \in Nat /\ a[m + 1] = a[m] \div 2
    <3>1. a[m + 1] = a[(m + 1) - 1] \div 2
      BY <1>1, <2>1
    <3> QED
      BY <1>1, <2>1, <3>1
  <2>5. a[m + 1] \in Nat /\ a[m] % 2 \in {0, 1} /\ a[m] = 2 * a[m + 1] + (a[m] % 2)
    BY <2>4, Halves
  <2>6. NodeAt(new, depth, m + 1, a[m + 1])
          = Hash(NodeAt(new, depth, m, 2 * a[m + 1]), NodeAt(new, depth, m, 2 * a[m + 1] + 1))
    <3>1. NodeAt(new, depth, m + 1, a[m + 1])
            = Hash(NodeAt(new, depth, (m + 1) - 1, 2 * a[m + 1]),
                   NodeAt(new, depth, (m + 1) - 1, 2 * a[m + 1] + 1))
      BY <1>4, <2>1, <2>5
    <3> QED
      BY <2>1, <3>1
  <2> DEFINE w == Written(filled, new, n, depth, m)
  <2> DEFINE v == Written(filled, new, n, depth, m + 1)
  <2> DEFINE h == NodeAt(new, depth, m, a[m])
  <2>7. /\ w = [k \in 0 .. depth - 1 |-> IF k < m /\ a[k] % 2 = 0
                                           THEN NodeAt(new, depth, k, a[k]) ELSE filled[k]]
        /\ v = [k \in 0 .. depth - 1 |-> IF k < m + 1 /\ a[k] % 2 = 0
                                           THEN NodeAt(new, depth, k, a[k]) ELSE filled[k]]
    BY <1>8 DEF Written, a
  <2>8. At(m) = [hash |-> h, filled |-> w]
    OBVIOUS
  <2>9. At(m + 1) = [hash |-> NodeAt(new, depth, m + 1, a[m + 1]), filled |-> v]
    OBVIOUS
  <2> HIDE DEF w, v, At
  <2>10. CASE a[m] % 2 = 0
    <3>1. a[m] = 2 * a[m + 1]
      BY <2>5, <2>10
    <3>2. NodeAt(new, depth, m, 2 * a[m + 1] + 1) = zeros[m]
      <4>1. 2 * a[m + 1] + 1 \in Nat /\ 2 * a[m + 1] + 1 > a[m]
        BY <2>5, <3>1
      <4> QED
        BY <1>2, <2>1, <4>1
    <3>3. NodeAt(new, depth, m + 1, a[m + 1]) = Hash(h, zeros[m])
      BY <2>6, <3>1, <3>2
    <3>4. [w EXCEPT ![m] = h] = v
      <4>1. \A k \in 0 .. depth - 1 : k < m + 1 <=> k < m \/ k = m
        BY <1>0, <2>1
      <4>2. [w EXCEPT ![m] = h] = [k \in 0 .. depth - 1 |-> IF k = m THEN h ELSE w[k]]
        BY <2>7
      <4>3. \A k \in 0 .. depth - 1 : v[k] = IF k = m THEN h ELSE w[k]
        BY <2>7, <2>10, <4>1
      <4>4. v = [k \in 0 .. depth - 1 |-> v[k]]
        BY <2>7
      <4> HIDE DEF h
      <4> QED
        BY <4>2, <4>3, <4>4
    <3>5. ClimbStep(At(m), n, m) = [hash |-> Hash(h, zeros[m]), filled |-> [w EXCEPT ![m] = h]]
      <4> HIDE DEF h
      <4> QED
        BY <1>8, <2>8, <2>10 DEF ClimbStep
    <3> QED
      BY <2>3, <2>9, <3>3, <3>4, <3>5
  <2>11. CASE a[m] % 2 = 1
    <3>1. a[m] = 2 * a[m + 1] + 1 /\ a[m] - 1 = 2 * a[m + 1]
      BY <2>5, <2>11
    <3>2. w[m] = NodeAt(new, depth, m, 2 * a[m + 1])
      <4>1. w[m] = filled[m]
        BY <2>1, <2>7
      <4>2. filled[m] = NodeAt(list, depth, m, 2 * a[m + 1])
        BY <1>5, <2>1, <2>11, <3>1
      <4>3. 2 * a[m + 1] \in Nat /\ 2 * a[m + 1] < a[m]
        BY <2>5, <3>1
      <4> QED
        BY <1>3, <2>1, <4>1, <4>2, <4>3
    <3>3. NodeAt(new, depth, m + 1, a[m + 1]) = Hash(w[m], h)
      BY <2>6, <3>1, <3>2
    <3>4. w = v
      <4>1. \A k \in 0 .. depth - 1 : k < m + 1 <=> k < m \/ k = m
        BY <1>0, <2>1
      <4> QED
        BY <2>1, <2>7, <2>11, <4>1
    <3>5. ClimbStep(At(m), n, m) = [hash |-> Hash(w[m], h), filled |-> w]
      <4> HIDE DEF h
      <4> QED
        BY <1>8, <2>8, <2>11 DEF ClimbStep
    <3> QED
      BY <2>3, <2>9, <3>3, <3>4, <3>5
  <2> QED
    BY <2>5, <2>10, <2>11
<1>11. Nat \subseteq P
  <2> HIDE DEF P
  <2> QED
    BY <1>9, <1>10, SetInduction
<1>12. climb[depth] = At(depth)
  BY <1>0, <1>11
<1> QED
  BY <1>12 DEF new, n, a

(* What the contract remembers after an insert is right for the next one. *)
LEMMA WrittenRemembers ==
  ASSUME NEW S, NEW list \in Seq(S), NEW leaf \in S, NEW depth \in 0 .. MAX_DEPTH,
         NEW filled, Remembers(filled, list, depth)
  PROVE  Remembers(Written(filled, Append(list, leaf), Len(list), depth, depth),
                   Append(list, leaf), depth)
<1> DEFINE new == Append(list, leaf)
<1> DEFINE n == Len(list)
<1> DEFINE a == Ancestors(n)
<1> DEFINE b == Ancestors(n + 1)
<1> DEFINE w == Written(filled, new, n, depth, depth)
<1>0. depth \in Nat /\ depth <= MAX_DEPTH /\ MAX_DEPTH \in Nat /\ n \in Nat /\ Len(new) = n + 1
  BY MerkleAssumption
<1> SUFFICES ASSUME NEW m \in 0 .. depth - 1, b[m] % 2 = 1
             PROVE  w[m] = NodeAt(new, depth, m, b[m] - 1)
  BY <1>0 DEF Remembers, Bit
<1>1. m \in 0 .. MAX_DEPTH /\ m \in 0 .. depth /\ m < depth
  BY <1>0
<1>2. a[m] \in Nat /\ (b[m] = a[m] \/ b[m] = a[m] + 1)
  BY <1>0, <1>1, AncestorsAt, NextAncestor
<1>3. w[m] = IF a[m] % 2 = 0 THEN NodeAt(new, depth, m, a[m]) ELSE filled[m]
  BY <1>1 DEF Written, Bit
<1>4. a[m] % 2 = 1 => filled[m] = NodeAt(list, depth, m, a[m] - 1)
  BY DEF Remembers, Bit
<1>5. \A p \in Nat : p < a[m] => NodeAt(new, depth, m, p) = NodeAt(list, depth, m, p)
  BY <1>1, LeftKept
<1> HIDE DEF new, n, a, b, w
<1>6. CASE b[m] = a[m]
  <2>1. a[m] % 2 = 1 /\ a[m] - 1 \in Nat /\ a[m] - 1 < a[m]
    <3>1. a[m] # 0
      BY <1>6
    <3> QED
      BY <1>2, <1>6, <3>1
  <2>2. ~(a[m] % 2 = 0)
    BY <2>1
  <2>3. NodeAt(new, depth, m, a[m] - 1) = NodeAt(list, depth, m, a[m] - 1)
    BY <1>5, <2>1
  <2> QED
    BY <1>3, <1>4, <1>6, <2>1, <2>2, <2>3
<1>7. CASE b[m] = a[m] + 1
  <2>1. a[m] % 2 = 0 /\ b[m] - 1 = a[m]
    BY <1>2, <1>7
  <2> QED
    BY <1>3, <2>1
<1> QED
  BY <1>2, <1>6, <1>7

-----------------------------------------------------------------------------
(***************************************************************************)
(* The contract's root is the client's, and filledSubtrees has the left    *)
(* siblings that the next leaf will need.                                  *)
(***************************************************************************)
TreeInv ==
  /\ leaves \in Seq(Leaves)
  /\ tree.depth \in 1 .. MAX_DEPTH
  /\ tree = [depth |-> tree.depth, nextIndex |-> Len(leaves), root |-> tree.root,
             filledSubtrees |-> [level \in 0 .. tree.depth - 1 |-> tree.filledSubtrees[level]]]
  /\ Len(leaves) <= Width(tree.depth)
  /\ tree.root = NodeAt(leaves, tree.depth, tree.depth, 0)
  /\ Remembers(tree.filledSubtrees, leaves, tree.depth)

(* With no leaf every node is that of an empty subtree. *)
LEMMA EmptyNodes ==
  ASSUME NEW depth \in 0 .. MAX_DEPTH, NEW level \in 0 .. depth, NEW p \in Nat
  PROVE  NodeAt(<<>>, depth, level, p) = zeros[level]
<1> DEFINE P == {n \in Nat : n <= depth => \A q \in Nat : NodeAt(<<>>, depth, n, q) = zeros[n]}
<1>0. depth \in Nat /\ depth <= MAX_DEPTH /\ MAX_DEPTH \in Nat /\ <<>> \in Seq(Leaves)
  BY MerkleAssumption
<1>1. 0 \in P
  <2>1. ASSUME NEW q \in Nat PROVE NodeAt(<<>>, depth, 0, q) = zeros[0]
    <3>1. NodeAt(<<>>, depth, 0, q) = NodeOr(<<>>, q, ZeroLeaf)
      BY NodeIsLeaf
    <3> QED
      BY <3>1, ZerosAt DEF NodeOr
  <2> QED
    BY <2>1
<1>2. ASSUME NEW n \in Nat, n \in P PROVE n + 1 \in P
  <2> SUFFICES ASSUME n + 1 <= depth, NEW q \in Nat
               PROVE  NodeAt(<<>>, depth, n + 1, q) = zeros[n + 1]
    OBVIOUS
  <2>1. n + 1 \in 1 .. depth /\ n + 1 \in 1 .. MAX_DEPTH /\ (n + 1) - 1 = n /\ n <= depth
        /\ 2 * q \in Nat /\ 2 * q + 1 \in Nat
    BY <1>0
  <2>2. NodeAt(<<>>, depth, n, 2 * q) = zeros[n] /\ NodeAt(<<>>, depth, n, 2 * q + 1) = zeros[n]
    BY <1>2, <2>1
  <2>3. NodeAt(<<>>, depth, n + 1, q)
          = Hash(NodeAt(<<>>, depth, (n + 1) - 1, 2 * q), NodeAt(<<>>, depth, (n + 1) - 1, 2 * q + 1))
    BY <1>0, <2>1, NodeHashes
  <2>4. zeros[n + 1] = Hash(zeros[(n + 1) - 1], zeros[(n + 1) - 1])
    BY <2>1, ZerosAt
  <2> QED
    BY <2>1, <2>2, <2>3, <2>4
<1>3. Nat \subseteq P
  <2> HIDE DEF P
  <2> QED
    BY <1>1, <1>2, SetInduction
<1>4. level \in P /\ level <= depth
  BY <1>0, <1>3
<1> QED
  BY <1>4

(* initialize() sets up the tree of no leaves. *)
LEMMA InitTree == TreeInit => TreeInv
<1> SUFFICES ASSUME NEW depth \in 1 .. MAX_DEPTH, tree = Initialize(depth), leaves = <<>>
             PROVE  TreeInv
  BY DEF TreeInit
<1>1. /\ tree.depth = depth /\ tree.nextIndex = 0 /\ tree.root = zeros[depth]
      /\ tree.filledSubtrees = [level \in 0 .. depth - 1 |-> zeros[level]]
      /\ tree = [depth |-> depth, nextIndex |-> 0, root |-> zeros[depth],
                 filledSubtrees |-> [level \in 0 .. depth - 1 |-> zeros[level]]]
  BY DEF Initialize
<1>2. depth \in Nat /\ depth \in 0 .. MAX_DEPTH /\ depth <= MAX_DEPTH /\ depth \in 0 .. depth
  BY MerkleAssumption
<1>3. leaves \in Seq(Leaves) /\ Len(leaves) = 0
  OBVIOUS
<1>4. Len(leaves) <= Width(depth)
  <2>1. shifted[depth] \in Nat /\ shifted[WordBits] \in Nat \ {0}
    BY <1>2, MerkleAssumption, ShiftedAt
  <2>2. Width(depth) \in 0 .. shifted[WordBits] - 1
    BY <2>1, ModRange DEF Width
  <2>3. \A x, y \in Int : x \in 0 .. y - 1 => 0 <= x
    OBVIOUS
  <2>4. 0 <= Width(depth)
    <3>1. Width(depth) \in Int
      BY <2>2
    <3> QED
      BY <2>1, <2>2, <2>3, <3>1
  <2> QED
    BY <1>3, <2>4
<1>5. tree.root = NodeAt(leaves, depth, depth, 0)
  BY <1>1, <1>2, EmptyNodes
<1>6. Remembers(tree.filledSubtrees, leaves, depth)
  <2> SUFFICES ASSUME NEW level \in 0 .. depth - 1, Bit(0, level) = 1 PROVE FALSE
    BY <1>3 DEF Remembers
  <2> DEFINE a == Ancestors(0)
  <2> DEFINE P == {n \in Nat : n <= MAX_DEPTH => a[n] = 0}
  <2>1. a[0] = 0 /\ \A n \in 1 .. MAX_DEPTH : a[n] = a[n - 1] \div 2
    BY AncestorsAt
  <2> HIDE DEF a
  <2>2. 0 \in P
    BY <2>1
  <2>3. ASSUME NEW n \in Nat, n \in P PROVE n + 1 \in P
    <3> SUFFICES ASSUME n + 1 <= MAX_DEPTH PROVE a[n + 1] = 0
      OBVIOUS
    <3>1. n + 1 \in 1 .. MAX_DEPTH /\ (n + 1) - 1 = n /\ a[n] = 0
      BY <2>3, MerkleAssumption
    <3>2. a[n + 1] = a[(n + 1) - 1] \div 2
      BY <2>1, <3>1
    <3> QED
      BY <3>1, <3>2
  <2>4. Nat \subseteq P
    <3> HIDE DEF P
    <3> QED
      BY <2>2, <2>3, SetInduction
  <2>5. a[level] = 0
    <3>0. level \in Nat /\ level <= MAX_DEPTH
      BY <1>2, MerkleAssumption
    <3>1. level \in P
      BY <2>4, <3>0
    <3> QED
      BY <3>0, <3>1
  <2> QED
    BY <2>5 DEF Bit, a
<1> QED
  BY <1>1, <1>3, <1>4, <1>5, <1>6 DEF TreeInv

(* An insert keeps the contract's root and the client's together. *)
LEMMA InsertTree ==
  ASSUME TreeInv, NEW leaf \in Leaves, Insert(leaf)
  PROVE  TreeInv'
<1>0. PICK climb :
        /\ Climbs(climb, tree.filledSubtrees, tree.nextIndex, leaf, tree.depth)
        /\ InsertLeaf(tree, leaf) = [tree EXCEPT !.root           = climb[tree.depth].hash,
                                                 !.filledSubtrees = climb[tree.depth].filled,
                                                 !.nextIndex      = @ + 1]
  <2>1. tree.depth \in Nat
    BY MerkleAssumption DEF TreeInv
  <2> QED
    BY <2>1, InsertClimbs
<1> DEFINE d == tree.depth
<1> DEFINE filled == tree.filledSubtrees
<1> DEFINE new == Append(leaves, leaf)
<1> DEFINE w == Written(filled, new, Len(leaves), d, d)
<1> DEFINE r == NodeAt(new, d, d, 0)
<1>1. /\ leaves \in Seq(Leaves) /\ Len(leaves) \in Nat /\ d \in 1 .. MAX_DEPTH
      /\ tree = [depth |-> d, nextIndex |-> Len(leaves), root |-> tree.root,
                 filledSubtrees |-> [level \in 0 .. d - 1 |-> filled[level]]]
      /\ Remembers(filled, leaves, d)
  BY DEF TreeInv
<1>2. /\ tree.nextIndex = Len(leaves)
      /\ filled = [level \in 0 .. d - 1 |-> filled[level]]
  BY <1>1
<1>3. d \in Nat /\ d \in 0 .. MAX_DEPTH
  BY <1>1, MerkleAssumption
<1>4. /\ Climbs(climb, filled, Len(leaves), leaf, d)
      /\ InsertLeaf(tree, leaf) = [tree EXCEPT !.root           = climb[d].hash,
                                               !.filledSubtrees = climb[d].filled,
                                               !.nextIndex      = @ + 1]
  BY <1>0, <1>2
<1>5. Width(d) \in Int /\ Len(leaves) < Width(d)
  <2>1. shifted[d] \in Nat /\ shifted[WordBits] \in Nat \ {0}
    BY <1>3, MerkleAssumption, ShiftedAt
  <2>2. Width(d) \in Int
    BY <2>1, ModRange DEF Width
  <2>3. ~(Len(leaves) >= Width(d))
    BY <1>2 DEF Insert, TreeFull
  <2> QED
    BY <1>1, <2>2, <2>3
<1>6. Ancestors(Len(leaves))[d] = 0
  BY <1>1, <1>3, <1>5, TopAncestor
<1>7. climb[d] = [hash |-> r, filled |-> w]
  <2>1. climb[d] = [hash |-> NodeAt(new, d, d, Ancestors(Len(leaves))[d]), filled |-> w]
    BY <1>1, <1>2, <1>3, <1>4, ClimbRight
  <2> QED
    BY <1>6, <2>1
<1>8. tree' = [depth |-> d, nextIndex |-> Len(leaves) + 1, root |-> r, filledSubtrees |-> w]
  <2>1. tree' = [tree EXCEPT !.root = r, !.filledSubtrees = w, !.nextIndex = @ + 1]
    BY <1>4, <1>7 DEF Insert
  <2>2. tree = [depth |-> d, nextIndex |-> Len(leaves), root |-> tree.root,
                filledSubtrees |-> filled]
    BY <1>1, <1>2
  <2>3. PICK x : x = tree
    OBVIOUS
  <2>4. x = [depth |-> x.depth, nextIndex |-> x.nextIndex, root |-> x.root,
             filledSubtrees |-> x.filledSubtrees]
    BY <2>2, <2>3
  <2>5. x.depth = d /\ x.nextIndex = Len(leaves)
    BY <2>3, <1>2
  <2>6. tree' = [x EXCEPT !.root = r, !.filledSubtrees = w, !.nextIndex = @ + 1]
    BY <2>1, <2>3
  <2> HIDE DEF r, w, d, filled
  <2> DEFINE x1 == [x EXCEPT !.root = r]
  <2> DEFINE x2 == [x1 EXCEPT !.filledSubtrees = w]
  <2> DEFINE x3 == [x2 EXCEPT !.nextIndex = x.nextIndex + 1]
  <2>7. [x EXCEPT !.root = r, !.filledSubtrees = w, !.nextIndex = @ + 1] = x3
    BY Zenon
  <2>8. x1 = [depth |-> x.depth, nextIndex |-> x.nextIndex, root |-> r,
              filledSubtrees |-> x.filledSubtrees]
    BY ONLY <2>4
  <2> HIDE DEF x1
  <2>9. x2 = [depth |-> x.depth, nextIndex |-> x.nextIndex, root |-> r, filledSubtrees |-> w]
    BY ONLY <2>8
  <2> HIDE DEF x2
  <2>10. x3 = [depth |-> x.depth, nextIndex |-> x.nextIndex + 1, root |-> r, filledSubtrees |-> w]
    BY ONLY <2>9
  <2> HIDE DEF x3
  <2> QED
    BY ONLY <2>5, <2>6, <2>7, <2>10
<1>9. leaves' = new /\ new \in Seq(Leaves) /\ Len(new) = Len(leaves) + 1
  BY <1>1 DEF Insert
<1>10. Remembers(w, new, d)
  BY <1>1, <1>3, WrittenRemembers
<1>11. w = [level \in 0 .. d - 1 |-> w[level]]
  BY DEF Written
<1>12. Len(new) <= Width(d)
  BY <1>1, <1>5, <1>9
<1> HIDE DEF d, filled, new, w
<1>13. /\ tree'.depth = d /\ tree'.root = r /\ tree'.filledSubtrees = w
       /\ tree' = [depth |-> d, nextIndex |-> Len(new), root |-> r,
                   filledSubtrees |-> [level \in 0 .. d - 1 |-> w[level]]]
  BY <1>8, <1>9, <1>11
<1> QED
  BY <1>1, <1>9, <1>10, <1>12, <1>13 DEF TreeInv

(* The two trees stay together, whatever is inserted, up to a full tree. *)
THEOREM TreesAgree == TreeSpec => []TreeInv
<1>1. TreeInv /\ [TreeNext]_treeVars => TreeInv'
  <2> SUFFICES ASSUME TreeInv, [TreeNext]_treeVars PROVE TreeInv'
    OBVIOUS
  <2>1. CASE TreeNext
    BY <2>1, InsertTree DEF TreeNext
  <2>2. CASE UNCHANGED treeVars
    BY <2>2 DEF TreeInv, treeVars
  <2> QED
    BY <2>1, <2>2
<1> QED
  BY <1>1, InitTree, PTL DEF TreeSpec

(***************************************************************************)
(* The root IncrementalMerkleTree.sol computed leaf by leaf is the root    *)
(* that merkle.ts computes from the list, for every depth and list.        *)
(***************************************************************************)
THEOREM RootIsRebuilt == TreeSpec => []ClientRebuildsRoot
<1>1. TreeInv => ClientRebuildsRoot
  BY ClientRootIsTop DEF TreeInv, ClientRebuildsRoot
<1> QED
  BY <1>1, TreesAgree, PTL

-----------------------------------------------------------------------------
(* Paths. *)

(* A node is the fold of its child above a leaf and that child's sibling. *)
LEMMA NodeFolds ==
  ASSUME NEW S, NEW list \in Seq(S), NEW depth \in 0 .. MAX_DEPTH, NEW index \in Nat,
         NEW level \in 0 .. depth - 1
  PROVE  /\ Bit(index, level) \in {0, 1}
         /\ NodeAt(list, depth, level + 1, Ancestors(index)[level + 1])
              = Fold(NodeAt(list, depth, level, Ancestors(index)[level]),
                     NodeAt(list, depth, level, Sibling(Ancestors(index)[level])),
                     Bit(index, level))
<1> DEFINE a == Ancestors(index)
<1>1. /\ depth \in Nat /\ depth <= MAX_DEPTH /\ MAX_DEPTH \in Nat
      /\ level + 1 \in 1 .. MAX_DEPTH /\ level + 1 \in 1 .. depth
      /\ level \in 0 .. MAX_DEPTH /\ (level + 1) - 1 = level
  BY MerkleAssumption
<1>2. a[level] \in Nat /\ a[level + 1] = a[level] \div 2
  <2>1. a[level] \in Nat
    BY <1>1, AncestorsAt
  <2>2. a[level + 1] = a[(level + 1) - 1] \div 2
    BY <1>1, AncestorsAt
  <2> HIDE DEF a
  <2> QED
    BY <1>1, <2>1, <2>2
<1>3. Bit(index, level) = a[level] % 2
  BY DEF Bit
<1> HIDE DEF a
<1>4. a[level + 1] \in Nat /\ a[level] % 2 \in {0, 1} /\ a[level] = 2 * a[level + 1] + (a[level] % 2)
  BY <1>2, Halves
<1>5. NodeAt(list, depth, level + 1, a[level + 1])
        = Hash(NodeAt(list, depth, level, 2 * a[level + 1]),
               NodeAt(list, depth, level, 2 * a[level + 1] + 1))
  <2>1. NodeAt(list, depth, level + 1, a[level + 1])
          = Hash(NodeAt(list, depth, (level + 1) - 1, 2 * a[level + 1]),
                 NodeAt(list, depth, (level + 1) - 1, 2 * a[level + 1] + 1))
    BY <1>1, <1>4, NodeHashes
  <2> QED
    BY <1>1, <2>1
<1>6. NodeAt(list, depth, level + 1, a[level + 1])
        = Fold(NodeAt(list, depth, level, a[level]),
               NodeAt(list, depth, level, Sibling(a[level])), a[level] % 2)
  <2>1. CASE a[level] % 2 = 0
    <3>1. a[level] = 2 * a[level + 1] /\ Sibling(a[level]) = 2 * a[level + 1] + 1
      BY <1>4, <2>1 DEF Sibling
    <3>2. NodeAt(list, depth, level, a[level]) = NodeAt(list, depth, level, 2 * a[level + 1])
      BY ONLY <3>1
    <3>3. NodeAt(list, depth, level, Sibling(a[level]))
            = NodeAt(list, depth, level, 2 * a[level + 1] + 1)
      BY ONLY <3>1
    <3> QED
      BY <1>5, <2>1, <3>2, <3>3 DEF Fold
  <2>2. CASE a[level] % 2 = 1
    <3>1. a[level] = 2 * a[level + 1] + 1 /\ Sibling(a[level]) = 2 * a[level + 1]
      BY <1>4, <2>2 DEF Sibling
    <3>2. NodeAt(list, depth, level, a[level]) = NodeAt(list, depth, level, 2 * a[level + 1] + 1)
      BY ONLY <3>1
    <3>3. NodeAt(list, depth, level, Sibling(a[level]))
            = NodeAt(list, depth, level, 2 * a[level + 1])
      BY ONLY <3>1
    <3> QED
      BY <1>5, <2>2, <3>2, <3>3 DEF Fold
  <2> QED
    BY <1>4, <2>1, <2>2
<1> QED
  BY <1>3, <1>4, <1>6 DEF a

(* Two folds at the same bit are equal only if what was folded is. *)
LEMMA FoldInjective ==
  ASSUME NEW c, NEW d, NEW s, NEW t, NEW bit, Fold(c, s, bit) = Fold(d, t, bit)
  PROVE  c = d
BY DEF Fold, Hash

(* The circuit's hashes, level by level. *)
Folds(hashes, leaf, elements, index, depth) ==
  /\ hashes[0] = leaf
  /\ \A level \in 0 .. depth - 1 :
       hashes[level + 1] = Fold(hashes[level], elements[level], Bit(index, level))

LEMMA PathFolds ==
  ASSUME NEW leaf, NEW elements, NEW index, NEW depth \in Nat
  PROVE  \E hashes : /\ Folds(hashes, leaf, elements, index, depth)
                     /\ PathRoot(leaf, elements, index, depth) = hashes[depth]
<1> DEFINE Turn(g, level) ==
      IF level = 0 THEN leaf
      ELSE Fold(g[level - 1], elements[level - 1], Bit(index, level - 1))
<1> DEFINE Whole(g) == g = [level \in 0 .. depth |-> Turn(g, level)]
<1> DEFINE S == {n \in Nat : \E g : \A level \in 0 .. n : g[level] = Turn(g, level)}
<1>1. 0 \in S
  <2> DEFINE g == [level \in {0} |-> leaf]
  <2>1. \A level \in 0 .. 0 : g[level] = Turn(g, level)
    OBVIOUS
  <2>2. \E f : \A level \in 0 .. 0 : f[level] = Turn(f, level)
    <3> HIDE DEF g, Turn
    <3> QED
      BY <2>1
  <2> QED
    BY <2>2
<1>2. ASSUME NEW n \in Nat, n \in S PROVE n + 1 \in S
  <2>1. PICK g : \A level \in 0 .. n : g[level] = Turn(g, level)
    BY <1>2
  <2> DEFINE h == [level \in 0 .. n + 1 |->
                     IF level <= n THEN g[level]
                                   ELSE Fold(g[n], elements[n], Bit(index, n))]
  <2>2. \A level \in 0 .. n + 1 : h[level] = Turn(h, level)
    BY <2>1
  <2>3. \E f : \A level \in 0 .. n + 1 : f[level] = Turn(f, level)
    <3> HIDE DEF h, Turn
    <3> QED
      BY <2>2
  <2> QED
    BY <2>3
<1>3. Nat \subseteq S
  <2> HIDE DEF S
  <2> QED
    BY <1>1, <1>2, SetInduction
<1>4. \E g : Whole(g)
  <2>1. PICK g : \A level \in 0 .. depth : g[level] = Turn(g, level)
    BY <1>3
  <2> DEFINE h == [level \in 0 .. depth |-> g[level]]
  <2>2. \A level \in 0 .. depth : h[level] = Turn(h, level)
    BY <2>1
  <2>3. h = [level \in 0 .. depth |-> Turn(h, level)]
    BY <2>2
  <2> QED
    BY <2>3
<1> DEFINE c == CHOOSE g : Whole(g)
<1>5. Whole(c)
  <2> HIDE DEF Whole
  <2> QED
    BY <1>4
<1>6. PathRoot(leaf, elements, index, depth) = c[depth]
  BY DEF PathRoot
<1> HIDE DEF c, Turn
<1>7. \A level \in 0 .. depth : c[level] = Turn(c, level)
  BY <1>5
<1>8. \A level \in 0 .. depth - 1 :
        /\ level + 1 \in 0 .. depth /\ level + 1 # 0 /\ (level + 1) - 1 = level
  OBVIOUS
<1>9. Folds(c, leaf, elements, index, depth)
  <2>1. c[0] = leaf
    BY <1>7 DEF Turn
  <2>2. ASSUME NEW level \in 0 .. depth - 1
        PROVE  c[level + 1] = Fold(c[level], elements[level], Bit(index, level))
    <3>1. c[level + 1] = Turn(c, level + 1)
      BY <1>7, <1>8
    <3>2. Turn(c, level + 1)
            = Fold(c[(level + 1) - 1], elements[(level + 1) - 1], Bit(index, (level + 1) - 1))
      BY <1>8 DEF Turn
    <3> QED
      BY <1>8, <3>1, <3>2
  <2> QED
    BY <2>1, <2>2 DEF Folds
<1> QED
  BY <1>6, <1>9

(* A path that starts on a node's siblings stays on the nodes above it. *)
LEMMA PathOfLeaf ==
  ASSUME NEW S, NEW list \in Seq(S), NEW depth \in 0 .. MAX_DEPTH, NEW index \in Nat
  PROVE  PathRoot(NodeAt(list, depth, 0, index), PathElements(list, index, depth), index, depth)
           = NodeAt(list, depth, depth, Ancestors(index)[depth])
<1> DEFINE a == Ancestors(index)
<1> DEFINE e == PathElements(list, index, depth)
<1>0. depth \in Nat /\ depth <= MAX_DEPTH /\ MAX_DEPTH \in Nat
  BY MerkleAssumption
<1>1. PICK hashes :
        /\ Folds(hashes, NodeAt(list, depth, 0, index), e, index, depth)
        /\ PathRoot(NodeAt(list, depth, 0, index), e, index, depth) = hashes[depth]
  BY <1>0, PathFolds
<1>2. a[0] = index
  BY AncestorsAt
<1>3. \A level \in 0 .. depth - 1 : e[level] = NodeAt(list, depth, level, Sibling(a[level]))
  BY DEF PathElements, NodeAt
<1>4. \A level \in 0 .. depth - 1 :
        NodeAt(list, depth, level + 1, a[level + 1])
          = Fold(NodeAt(list, depth, level, a[level]),
                 NodeAt(list, depth, level, Sibling(a[level])), Bit(index, level))
  BY NodeFolds
<1> HIDE DEF a, e
<1> DEFINE P == {n \in Nat : n <= depth => hashes[n] = NodeAt(list, depth, n, a[n])}
<1>5. 0 \in P
  BY <1>1, <1>2 DEF Folds
<1>6. ASSUME NEW n \in Nat, n \in P PROVE n + 1 \in P
  <2> SUFFICES ASSUME n + 1 <= depth PROVE hashes[n + 1] = NodeAt(list, depth, n + 1, a[n + 1])
    OBVIOUS
  <2>1. n \in 0 .. depth - 1 /\ hashes[n] = NodeAt(list, depth, n, a[n])
    BY <1>0, <1>6
  <2>2. hashes[n + 1] = Fold(hashes[n], e[n], Bit(index, n))
    BY <1>1, <2>1 DEF Folds
  <2> QED
    BY <1>3, <1>4, <2>1, <2>2
<1>7. Nat \subseteq P
  <2> HIDE DEF P
  <2> QED
    BY <1>5, <1>6, SetInduction
<1>8. hashes[depth] = NodeAt(list, depth, depth, a[depth])
  BY <1>0, <1>7
<1> QED
  BY <1>1, <1>8 DEF a, e

(* A path of any siblings that ends on the root started on the leaf at its  *)
(* index.                                                                   *)
LEMMA PathStart ==
  ASSUME NEW S, NEW list \in Seq(S), NEW depth \in 0 .. MAX_DEPTH, NEW index \in Nat,
         NEW leaf, NEW elements,
         PathRoot(leaf, elements, index, depth) = NodeAt(list, depth, depth, Ancestors(index)[depth])
  PROVE  leaf = NodeAt(list, depth, 0, index)
<1> DEFINE a == Ancestors(index)
<1> DEFINE sibling == [level \in 0 .. depth - 1 |-> NodeAt(list, depth, level, Sibling(a[level]))]
<1>0. depth \in Nat /\ depth <= MAX_DEPTH /\ MAX_DEPTH \in Nat
  BY MerkleAssumption
<1>1. PICK hashes : /\ Folds(hashes, leaf, elements, index, depth)
                    /\ PathRoot(leaf, elements, index, depth) = hashes[depth]
  BY <1>0, PathFolds
<1>2. a[0] = index /\ hashes[depth] = NodeAt(list, depth, depth, a[depth])
  BY <1>1, AncestorsAt
<1>3. \A level \in 0 .. depth - 1 :
        NodeAt(list, depth, level + 1, a[level + 1])
          = Fold(NodeAt(list, depth, level, a[level]), sibling[level], Bit(index, level))
  BY NodeFolds
<1> HIDE DEF a, sibling
<1> DEFINE P == {n \in Nat : n <= depth =>
                   hashes[depth - n] = NodeAt(list, depth, depth - n, a[depth - n])}
<1>4. 0 \in P
  <2>1. depth - 0 = depth
    BY <1>0
  <2> QED
    BY <1>2, <2>1
<1>5. ASSUME NEW n \in Nat, n \in P PROVE n + 1 \in P
  <2> DEFINE m == depth - (n + 1)
  <2> SUFFICES ASSUME n + 1 <= depth PROVE hashes[m] = NodeAt(list, depth, m, a[m])
    OBVIOUS
  <2>1. m \in 0 .. depth - 1 /\ m + 1 = depth - n /\ n <= depth
    BY <1>0
  <2>2. hashes[m + 1] = NodeAt(list, depth, m + 1, a[m + 1])
    <3>1. hashes[depth - n] = NodeAt(list, depth, depth - n, a[depth - n])
      BY <1>5, <2>1
    <3> HIDE DEF m
    <3> QED
      BY <2>1, <3>1
  <2> HIDE DEF m
  <2>3. hashes[m + 1] = Fold(hashes[m], elements[m], Bit(index, m))
    BY <1>1, <2>1 DEF Folds
  <2>4. Fold(hashes[m], elements[m], Bit(index, m))
          = Fold(NodeAt(list, depth, m, a[m]), sibling[m], Bit(index, m))
    BY <1>3, <2>1, <2>2, <2>3
  <2> QED
    BY <2>4, FoldInjective
<1>6. Nat \subseteq P
  <2> HIDE DEF P
  <2> QED
    BY <1>4, <1>5, SetInduction
<1>7. hashes[0] = NodeAt(list, depth, 0, a[0])
  <2>1. depth \in P /\ depth <= depth /\ depth - depth = 0
    BY <1>0, <1>6
  <2> QED
    BY <2>1
<1> QED
  BY <1>1, <1>2, <1>7 DEF Folds

(* What TreeInv says of an index among the leaves. *)
LEMMA IndexUnderRoot ==
  ASSUME TreeInv, NEW index \in Indices(leaves)
  PROVE  /\ index \in Nat /\ index < Len(leaves)
         /\ tree.depth \in 0 .. MAX_DEPTH
         /\ leaves \in Seq(Leaves)
         /\ leaves[index + 1] \in Leaves
         /\ NodeAt(leaves, tree.depth, 0, index) = leaves[index + 1]
         /\ NodeAt(leaves, tree.depth, tree.depth, Ancestors(index)[tree.depth]) = tree.root
<1> DEFINE d == tree.depth
<1>1. /\ leaves \in Seq(Leaves) /\ Len(leaves) \in Nat /\ d \in 1 .. MAX_DEPTH
      /\ Len(leaves) <= Width(d) /\ tree.root = NodeAt(leaves, d, d, 0)
  BY DEF TreeInv
<1>2. index \in Nat /\ index < Len(leaves) /\ index + 1 \in 1 .. Len(leaves)
  BY <1>1 DEF Indices
<1>3. d \in 0 .. MAX_DEPTH /\ d \in Nat
  BY <1>1, MerkleAssumption
<1>4. Ancestors(index)[d] = 0
  <2>1. Width(d) \in Int
    <3>1. shifted[d] \in Nat /\ shifted[WordBits] \in Nat \ {0}
      BY <1>3, MerkleAssumption, ShiftedAt
    <3> QED
      BY <3>1, ModRange DEF Width
  <2>2. index < Width(d)
    BY <1>1, <1>2, <2>1
  <2> QED
    BY <1>2, <1>3, <2>2, TopAncestor
<1>5. NodeAt(leaves, d, 0, index) = leaves[index + 1]
  BY <1>2, <1>3, NodeIsLeaf DEF NodeOr
<1>6. leaves[index + 1] \in Leaves
  BY <1>1, <1>2
<1> QED
  BY <1>1, <1>2, <1>3, <1>4, <1>5, <1>6

(***************************************************************************)
(* getMerklePath's path of any leaf satisfies MerklePoseidon against the   *)
(* root the pool has, for every depth and list.                            *)
(***************************************************************************)
THEOREM WitnessesVerify == TreeSpec => []WitnessVerifies
<1>1. TreeInv => WitnessVerifies
  <2> SUFFICES ASSUME TreeInv, NEW index \in Indices(leaves)
               PROVE  PathRoot(leaves[index + 1], PathElements(leaves, index, tree.depth),
                               index, tree.depth) = tree.root
    BY DEF WitnessVerifies
  <2>1. PathRoot(NodeAt(leaves, tree.depth, 0, index), PathElements(leaves, index, tree.depth),
                 index, tree.depth)
          = NodeAt(leaves, tree.depth, tree.depth, Ancestors(index)[tree.depth])
    BY IndexUnderRoot, PathOfLeaf
  <2> QED
    BY <2>1, IndexUnderRoot
<1> QED
  BY <1>1, TreesAgree, PTL

(***************************************************************************)
(* MerklePoseidon opens nothing but the leaf that is at the index whose    *)
(* bits it folds, whatever path it is given.                               *)
(***************************************************************************)
THEOREM OneLeafPerIndex == TreeSpec => []OpensOnlyWhereItIs
<1>1. TreeInv => OpensOnlyWhereItIs
  <2> SUFFICES ASSUME TreeInv, NEW from \in Indices(leaves), NEW index \in Indices(leaves),
                      NEW leaf \in Leaves,
                      PathRoot(leaf, PathElements(leaves, from, tree.depth), index, tree.depth)
                        = tree.root
               PROVE  leaf = leaves[index + 1]
    BY DEF OpensOnlyWhereItIs
  <2>1. leaf = NodeAt(leaves, tree.depth, 0, index)
    BY IndexUnderRoot, PathStart
  <2> QED
    BY <2>1, IndexUnderRoot
<1> QED
  BY <1>1, TreesAgree, PTL

(***************************************************************************)
(* The root of fewer leaves is never the root the pool has now.            *)
(***************************************************************************)
THEOREM RootsNamePrefixes == TreeSpec => []RootNamesPrefix
<1>1. TreeInv => RootNamesPrefix
  <2> SUFFICES ASSUME TreeInv, NEW m \in Indices(leaves),
                      ClientRoot(SubSeq(leaves, 1, m), tree.depth) = tree.root
               PROVE  FALSE
    BY DEF RootNamesPrefix, Indices
  <2> DEFINE d == tree.depth
  <2> DEFINE list == SubSeq(leaves, 1, m)
  <2>1. /\ m \in Nat /\ m < Len(leaves) /\ d \in 0 .. MAX_DEPTH /\ leaves \in Seq(Leaves)
        /\ leaves[m + 1] \in Leaves /\ NodeAt(leaves, d, 0, m) = leaves[m + 1]
        /\ NodeAt(leaves, d, d, Ancestors(m)[d]) = tree.root
    BY IndexUnderRoot
  <2>2. list \in Seq(Leaves) /\ Len(list) = m
    BY <2>1
  <2>3. NodeAt(list, d, d, Ancestors(m)[d]) = tree.root
    <3>1. tree.root = NodeAt(leaves, d, d, 0) /\ d \in 1 .. MAX_DEPTH /\ Len(leaves) <= Width(d)
      BY DEF TreeInv
    <3>2. Width(d) \in Int
      <4>1. d \in Nat
        BY <3>1, MerkleAssumption
      <4>2. shifted[d] \in Nat /\ shifted[WordBits] \in Nat \ {0}
        BY <4>1, MerkleAssumption, ShiftedAt
      <4> QED
        BY <4>2, ModRange DEF Width
    <3>3. Ancestors(m)[d] = 0
      <4>1. m < Width(d)
        BY <2>1, <3>1, <3>2
      <4> QED
        BY <2>1, <4>1, TopAncestor
    <3> QED
      BY <3>3, ClientRootIsTop
  <2>4. PathRoot(NodeAt(list, d, 0, m), PathElements(list, m, d), m, d)
          = NodeAt(list, d, d, Ancestors(m)[d])
    BY <2>1, <2>2, PathOfLeaf
  <2>5. NodeAt(list, d, 0, m) = NodeAt(leaves, d, 0, m)
    BY <2>1, <2>3, <2>4, PathStart
  <2>6. NodeAt(list, d, 0, m) = ZeroLeaf
    <3>1. NodeAt(list, d, 0, m) = NodeOr(list, m, ZeroLeaf)
      BY <2>1, NodeIsLeaf
    <3> QED
      BY <2>1, <2>2, <3>1 DEF NodeOr
  <2> QED
    BY <2>1, <2>5, <2>6, MerkleAssumption
<1> QED
  BY <1>1, TreesAgree, PTL

-----------------------------------------------------------------------------
(* A part of the data is at a place. *)
Holds(w, at, ws) ==
  /\ at + Len(ws) <= Len(w)
  /\ \A i \in 1 .. Len(ws) : w[at + i] = ws[i]

LEMMA CatHolds ==
  ASSUME NEW u \in Seq(Nat), NEW v \in Seq(Nat)
  PROVE  /\ u \o v \in Seq(Nat) /\ Len(u \o v) = Len(u) + Len(v)
         /\ \A i \in 1 .. Len(u) : (u \o v)[i] = u[i]
         /\ Holds(u \o v, Len(u), v)
<1>1. u \o v \in Seq(Nat) /\ Len(u \o v) = Len(u) + Len(v)
  OBVIOUS
<1>2. \A i \in 1 .. Len(u) : (u \o v)[i] = u[i]
  OBVIOUS
<1>3. \A i \in 1 .. Len(v) : (u \o v)[Len(u) + i] = v[i]
  OBVIOUS
<1>4. Len(u) + Len(v) <= Len(u \o v)
  OBVIOUS
<1> QED
  BY <1>1, <1>2, <1>3, <1>4 DEF Holds

LEMMA HoldsOn ==
  ASSUME NEW u \in Seq(Nat), NEW v \in Seq(Nat), NEW x \in Seq(Nat), NEW at \in Nat,
         Holds(u, at, x)
  PROVE  Holds(u \o v, at, x)
<1> DEFINE w == u \o v
<1>1. Len(w) = Len(u) + Len(v) /\ \A i \in 1 .. Len(u) : w[i] = u[i]
  BY CatHolds
<1>2. at + Len(x) <= Len(u) /\ \A i \in 1 .. Len(x) : u[at + i] = x[i]
  BY DEF Holds
<1>3. Len(u) \in Nat /\ Len(v) \in Nat /\ Len(x) \in Nat
  OBVIOUS
<1> HIDE DEF w
<1>4. at + Len(x) <= Len(w)
  BY <1>1, <1>2, <1>3
<1>5. ASSUME NEW i \in 1 .. Len(x) PROVE w[at + i] = x[i]
  <2>1. at + i \in 1 .. Len(u)
    BY <1>2, <1>3
  <2> QED
    BY <1>1, <1>2, <2>1
<1> QED
  BY <1>4, <1>5 DEF Holds, w

HeadEntry == [tail : 0 .. 3, word : Nat]

(* What a word of the head becomes. *)
HeadWord(entry, h, a, b) ==
  CASE entry.tail = 0 -> entry.word
    [] entry.tail = 1 -> 32 * h
    [] entry.tail = 2 -> 32 * (h + a)
    [] entry.tail = 3 -> 32 * (h + a + b)

(* The data are a head and three tails after it. *)
LaidAs(w, h, head, r, s, t) ==
  /\ w \in Seq(Nat)
  /\ Len(w) = h + Len(r) + Len(s) + Len(t)
  /\ \A k \in 1 .. h : w[k] = HeadWord(head[k], h, Len(r), Len(s))
  /\ Holds(w, h, r)
  /\ Holds(w, h + Len(r), s)
  /\ Holds(w, h + Len(r) + Len(s), t)

LEMMA LaidOut ==
  ASSUME NEW h \in Nat, NEW head \in [1 .. h -> HeadEntry],
         NEW r \in Seq(Nat), NEW s \in Seq(Nat), NEW t \in Seq(Nat)
  PROVE  LaidAs(Lay(h, head, r, s, t), h, head, r, s, t)
<1> DEFINE W(k) == HeadWord(head[k], h, Len(r), Len(s))
           words == [k \in 1 .. h |-> W(k)]
           w == Lay(h, head, r, s, t)
           u == words \o r
           v == u \o s
<1>1. DOMAIN head = 1 .. h /\ Len(r) \in Nat /\ Len(s) \in Nat /\ Len(t) \in Nat
  OBVIOUS
<1>2. ASSUME NEW k \in 1 .. h PROVE W(k) \in Nat
  <2>1. head[k] \in HeadEntry
    BY <1>1
  <2>2. head[k].tail \in 0 .. 3 /\ head[k].word \in Nat
    BY <2>1 DEF HeadEntry
  <2> QED
    BY <1>1, <2>2 DEF HeadWord
<1>3. w = v \o t
  BY <1>1 DEF Lay, HeadWord
<1> HIDE DEF W, w
<1>4. words \in Seq(Nat) /\ Len(words) = h /\ \A k \in 1 .. h : words[k] = W(k)
  BY <1>2
<1> HIDE DEF words
<1>5. u \in Seq(Nat) /\ Len(u) = h + Len(r) /\ (\A k \in 1 .. h : u[k] = words[k]) /\ Holds(u, h, r)
  <2>1. words \in Seq(Nat)
    BY <1>4
  <2>2. /\ u \in Seq(Nat) /\ Len(u) = Len(words) + Len(r)
        /\ \A i \in 1 .. Len(words) : u[i] = words[i]
        /\ Holds(u, Len(words), r)
    BY <2>1, CatHolds
  <2> QED
    BY <1>4, <2>2
<1> HIDE DEF u
<1>6. /\ v \in Seq(Nat) /\ Len(v) = h + Len(r) + Len(s) /\ Holds(v, h + Len(r), s)
      /\ \A k \in 1 .. Len(u) : v[k] = u[k]
  <2>1. u \in Seq(Nat)
    BY <1>5
  <2>2. v \in Seq(Nat) /\ Len(v) = Len(u) + Len(s) /\ Holds(v, Len(u), s)
        /\ \A i \in 1 .. Len(u) : v[i] = u[i]
    BY <2>1, CatHolds
  <2> QED
    BY <1>5, <2>2
<1>7. Holds(v, h, r)
  BY <1>5, HoldsOn
<1> HIDE DEF v
<1>8. /\ w \in Seq(Nat) /\ Len(w) = h + Len(r) + Len(s) + Len(t) /\ Holds(w, h + Len(r) + Len(s), t)
      /\ \A k \in 1 .. Len(v) : w[k] = v[k]
  <2>1. v \in Seq(Nat)
    BY <1>6
  <2>2. v \o t \in Seq(Nat) /\ Len(v \o t) = Len(v) + Len(t) /\ Holds(v \o t, Len(v), t)
        /\ \A i \in 1 .. Len(v) : (v \o t)[i] = v[i]
    BY <2>1, CatHolds
  <2> QED
    BY <1>3, <1>6, <2>2
<1>9. Holds(w, h, r)
  BY <1>3, <1>6, <1>7, HoldsOn
<1>10. Holds(w, h + Len(r), s)
  <2>1. h + Len(r) \in Nat
    BY <1>1
  <2> QED
    BY <1>3, <1>6, <2>1, HoldsOn
<1>11. ASSUME NEW k \in 1 .. h PROVE w[k] = W(k)
  <2>1. k \in 1 .. Len(u) /\ k \in 1 .. Len(v)
    BY <1>1, <1>5, <1>6
  <2> QED
    BY <1>4, <1>5, <1>6, <1>8, <2>1
<1> QED
  BY <1>8, <1>9, <1>10, <1>11 DEF w, W, LaidAs

(* A tail is decoded from where its offset points to. *)
LEMMA WordsDecoded ==
  ASSUME NEW w \in Seq(Nat), NEW at \in Nat, NEW ws \in Seq(Nat), Holds(w, at, ws)
  PROVE  WordsAt(w, 32 * at, Len(ws)) = ws
<1> DEFINE n == Len(ws)
<1>1. n \in Nat /\ Len(w) \in Nat /\ at + n <= Len(w) /\ \A i \in 1 .. n : w[at + i] = ws[i]
  <2>1. n \in Nat /\ Len(w) \in Nat
    OBVIOUS
  <2> QED
    BY <2>1 DEF Holds
<1>2. ASSUME NEW i \in 1 .. n PROVE WordAt(w, 32 * at + 32 * (i - 1)) = ws[i]
  <2> DEFINE byte == 32 * at + 32 * (i - 1)
  <2>1. byte = 32 * (at + i - 1) /\ at + i - 1 \in Nat
    BY <1>1
  <2>2. byte % 32 = 0 /\ byte \div 32 = at + i - 1 /\ byte >= 0
    BY <2>1
  <2>3. at + i - 1 < Len(w) /\ (at + i - 1) + 1 = at + i
    BY <1>1
  <2> HIDE DEF byte
  <2>4. WordAt(w, byte) = w[at + i]
    BY <2>2, <2>3 DEF WordAt
  <2> QED
    BY <1>1, <2>4 DEF byte
<1>3. n \in 0 .. Len(w)
  BY <1>1
<1>4. WordsAt(w, 32 * at, n) = [i \in 1 .. n |-> ws[i]]
  BY <1>2, <1>3 DEF WordsAt
<1>5. ws = [i \in 1 .. n |-> ws[i]]
  OBVIOUS
<1> QED
  BY <1>4, <1>5

LEMMA WordDecoded ==
  ASSUME NEW w \in Seq(Nat), NEW at \in Nat, at < Len(w)
  PROVE  WordAt(w, 32 * at) = w[at + 1]
<1>1. (32 * at) % 32 = 0 /\ (32 * at) \div 32 = at /\ 32 * at >= 0
  OBVIOUS
<1> QED
  BY <1>1 DEF WordAt

LEMMA TailDecoded ==
  ASSUME NEW w \in Seq(Nat), NEW k \in Nat, NEW at \in Nat, NEW ws \in Seq(Nat), NEW n \in Nat,
         k < Len(w), w[k + 1] = 32 * at, Holds(w, at, <<n>> \o ws)
  PROVE  /\ n = Len(ws) => ArrayAt(w, k) = ws
         /\ n = 32 * Len(ws) => BytesAt(w, k) = ws
<1> DEFINE tail == <<n>> \o ws
<1>1. tail \in Seq(Nat) /\ Len(tail) = Len(ws) + 1 /\ tail[1] = n /\ Len(ws) \in Nat
      /\ \A i \in 1 .. Len(ws) : tail[i + 1] = ws[i]
  <2> DEFINE one == <<n>>
  <2>1. one \in Seq(Nat) /\ Len(one) = 1 /\ one[1] = n /\ Len(ws) \in Nat
    OBVIOUS
  <2> HIDE DEF one
  <2>2. one \o ws \in Seq(Nat) /\ Len(one \o ws) = Len(one) + Len(ws)
        /\ (\A i \in 1 .. Len(one) : (one \o ws)[i] = one[i]) /\ Holds(one \o ws, Len(one), ws)
    BY <2>1, CatHolds
  <2>3. one \o ws = tail
    BY DEF one
  <2> HIDE DEF tail
  <2>4. \A i \in 1 .. Len(ws) : tail[1 + i] = ws[i]
    BY <2>1, <2>2, <2>3 DEF Holds
  <2>5. Len(tail) = Len(ws) + 1 /\ tail[1] = n
    BY <2>1, <2>2, <2>3
  <2>6. \A i \in 1 .. Len(ws) : 1 + i = i + 1
    OBVIOUS
  <2> QED
    BY <2>1, <2>2, <2>3, <2>4, <2>5, <2>6
<1> HIDE DEF tail
<1>2. at + (Len(ws) + 1) <= Len(w) /\ (\A i \in 1 .. Len(ws) + 1 : w[at + i] = tail[i]) /\ Len(w) \in Nat
  BY <1>1 DEF Holds, tail
<1>3. WordAt(w, 32 * k) = 32 * at
  BY WordDecoded
<1>4. WordAt(w, 32 * at) = n
  <2>1. at < Len(w) /\ w[at + 1] = tail[1]
    BY <1>1, <1>2
  <2>2. WordAt(w, 32 * at) = w[at + 1]
    BY <2>1, WordDecoded
  <2> QED
    BY <1>1, <2>1, <2>2
<1>5. Holds(w, at + 1, ws)
  <2>1. (at + 1) + Len(ws) <= Len(w)
    BY <1>1, <1>2
  <2>2. ASSUME NEW i \in 1 .. Len(ws) PROVE w[(at + 1) + i] = ws[i]
    <3>1. i + 1 \in 1 .. Len(ws) + 1 /\ at + (i + 1) = (at + 1) + i
      BY <1>1
    <3> QED
      BY <1>1, <1>2, <3>1
  <2> QED
    BY <2>1, <2>2 DEF Holds
<1>6. WordsAt(w, 32 * (at + 1), Len(ws)) = ws
  BY <1>5, WordsDecoded
<1>7. 32 * (at + 1) = 32 * at + 32
  OBVIOUS
<1>8. WordsAt(w, 32 * at + 32, Len(ws)) = ws
  BY <1>6, <1>7
<1>9. n = 32 * Len(ws) => n \div 32 = Len(ws)
  BY <1>1
<1> QED
  BY <1>3, <1>4, <1>8, <1>9 DEF ArrayAt, BytesAt

LEMMA PairSeq ==
  ASSUME NEW p \in Nat \X Nat
  PROVE  p \in Seq(Nat) /\ Len(p) = 2
<1>1. p = <<p[1], p[2]>> /\ p[1] \in Nat /\ p[2] \in Nat
  OBVIOUS
<1>2. <<p[1], p[2]>> \in Seq(Nat) /\ Len(<<p[1], p[2]>>) = 2
  BY <1>1
<1> QED
  BY <1>1, <1>2

LEMMA BlobFacts ==
  ASSUME NEW a, ProofWords(a)
  PROVE  EncodeProofBlob(a) \in Seq(Nat) /\ Len(EncodeProofBlob(a)) = 8
<1> DEFINE x == a.proofA
           y == a.proofB[1]
           z == a.proofB[2]
           u == a.proofC
<1>1. x \in Nat \X Nat /\ y \in Nat \X Nat /\ z \in Nat \X Nat /\ u \in Nat \X Nat
  BY DEF ProofWords
<1>2. EncodeProofBlob(a) = x \o y \o z \o u
  BY DEF EncodeProofBlob
<1> HIDE DEF x, y, z, u
<1>3. x \in Seq(Nat) /\ y \in Seq(Nat) /\ z \in Seq(Nat) /\ u \in Seq(Nat)
  BY <1>1, PairSeq
<1>4. Len(x) = 2 /\ Len(y) = 2 /\ Len(z) = 2 /\ Len(u) = 2
  BY <1>1, PairSeq
<1> DEFINE xy == x \o y
           xyz == xy \o z
<1>7. xy \in Seq(Nat) /\ Len(xy) = Len(x) + Len(y)
  BY <1>3, CatHolds
<1> HIDE DEF xy
<1>8. xyz \in Seq(Nat) /\ Len(xyz) = Len(xy) + Len(z)
  BY <1>3, <1>7, CatHolds
<1> HIDE DEF xyz
<1>9. xyz \o u \in Seq(Nat) /\ Len(xyz \o u) = Len(xyz) + Len(u)
  BY <1>3, <1>8, CatHolds
<1>10. xyz \o u \in Seq(Nat) /\ Len(xyz \o u) = 8
  BY <1>4, <1>7, <1>8, <1>9
<1> QED
  BY <1>2, <1>10 DEF xy, xyz

LEMMA HeadEntries ==
  /\ \A v \in Nat : Word(v) \in HeadEntry /\ Word(v).tail = 0 /\ Word(v).word = v
  /\ \A i \in 0 .. 3 : OffsetOf(i) \in HeadEntry /\ OffsetOf(i).tail = i
BY DEF Word, OffsetOf, HeadEntry

LEMMA Prefixed ==
  ASSUME NEW ws \in Seq(Nat)
  PROVE  /\ EncodeArray(ws) \in Seq(Nat) /\ Len(EncodeArray(ws)) = Len(ws) + 1
         /\ EncodeBytes(ws) \in Seq(Nat) /\ Len(EncodeBytes(ws)) = Len(ws) + 1
<1>1. Len(ws) \in Nat /\ 32 * Len(ws) \in Nat
  OBVIOUS
<1>2. ASSUME NEW n \in Nat PROVE <<n>> \o ws \in Seq(Nat) /\ Len(<<n>> \o ws) = Len(ws) + 1
  OBVIOUS
<1> QED
  BY <1>1, <1>2 DEF EncodeArray, EncodeBytes

(* The deposit call, as the pool decodes it. *)
LEMMA DepositDecoded ==
  ASSUME NEW a, ProofWords(a), a.amount \in Nat, a.tierCode \in Nat,
         NEW c \in Nat, a.newCommitments = <<c>>
  PROVE  LET w == EncodeDepositCalldata(a).words
         IN  /\ w[1] = a.amount
             /\ ArrayAt(w, 1) = <<c>>
             /\ BytesAt(w, 3) = EncodeProofBlob(a)
<1> DEFINE head == <<Word(a.amount), OffsetOf(1), Word(a.tierCode), OffsetOf(2)>>
           cs == <<c>>
           blob == EncodeProofBlob(a)
           r == EncodeArray(cs)
           s == EncodeBytes(blob)
           none == <<>>
           w == Lay(4, head, r, s, none)
<1>1. w = EncodeDepositCalldata(a).words
  BY DEF EncodeDepositCalldata, Calls
<1>2. /\ head \in [1 .. 4 -> HeadEntry]
      /\ head[1] = Word(a.amount) /\ head[2] = OffsetOf(1) /\ head[4] = OffsetOf(2)
  <2>1. Word(a.amount) \in HeadEntry /\ OffsetOf(1) \in HeadEntry /\ Word(a.tierCode) \in HeadEntry
        /\ OffsetOf(2) \in HeadEntry
    BY HeadEntries
  <2> QED
    BY <2>1
<1>3. blob \in Seq(Nat) /\ Len(blob) = 8
  BY BlobFacts
<1>4. cs \in Seq(Nat) /\ Len(cs) = 1 /\ none \in Seq(Nat) /\ Len(none) = 0
  OBVIOUS
<1> HIDE DEF head, cs, blob, none
<1>t1. head \in [1 .. 4 -> HeadEntry]
  BY <1>2
<1>t2. blob \in Seq(Nat)
  BY <1>3
<1>t3. cs \in Seq(Nat)
  BY <1>4
<1>t4. none \in Seq(Nat)
  BY <1>4
<1>5. r \in Seq(Nat) /\ Len(r) = 2 /\ s \in Seq(Nat) /\ Len(s) = 9
  <2>1. r \in Seq(Nat) /\ Len(r) = Len(cs) + 1
    BY <1>t3, Prefixed
  <2>2. s \in Seq(Nat) /\ Len(s) = Len(blob) + 1
    BY <1>t2, Prefixed
  <2> QED
    BY <1>3, <1>4, <2>1, <2>2
<1>t5. r \in Seq(Nat)
  BY <1>5
<1>t6. s \in Seq(Nat)
  BY <1>5
<1>6. r = <<1>> \o cs /\ s = <<256>> \o blob
  BY <1>3, <1>4 DEF EncodeArray, EncodeBytes
<1> HIDE DEF r, s
<1>7. /\ w \in Seq(Nat) /\ Len(w) = 4 + Len(r) + Len(s) + Len(none)
      /\ \A k \in 1 .. 4 : w[k] = HeadWord(head[k], 4, Len(r), Len(s))
      /\ Holds(w, 4, r) /\ Holds(w, 4 + Len(r), s)
  <2>1. LaidAs(w, 4, head, r, s, none)
    <3>1. 4 \in Nat
      OBVIOUS
    <3> QED
      BY <3>1, <1>t1, <1>t4, <1>t5, <1>t6, LaidOut
  <2> QED
    BY <2>1 DEF LaidAs
<1> HIDE DEF w
<1>t7. w \in Seq(Nat)
  BY <1>7
<1>8. Len(w) = 15 /\ Holds(w, 4, <<1>> \o cs) /\ Holds(w, 6, <<256>> \o blob)
  BY <1>4, <1>5, <1>6, <1>7
<1>9. w[1] = a.amount /\ w[1 + 1] = 32 * 4 /\ w[3 + 1] = 32 * 6
  <2>1. head[1].tail = 0 /\ head[1].word = a.amount /\ head[2].tail = 1 /\ head[4].tail = 2
    BY <1>2, HeadEntries
  <2>2. w[1] = HeadWord(head[1], 4, 2, 9) /\ w[2] = HeadWord(head[2], 4, 2, 9) /\ w[4] = HeadWord(head[4], 4, 2, 9)
    BY <1>5, <1>7
  <2> QED
    BY <2>1, <2>2 DEF HeadWord
<1>10. ArrayAt(w, 1) = cs
  <2>1. 1 < Len(w) /\ 1 = Len(cs)
    BY <1>4, <1>8
  <2>2. w[1 + 1] = 32 * 4 /\ Holds(w, 4, <<1>> \o cs)
    BY <1>8, <1>9
  <2>3. 1 \in Nat /\ 4 \in Nat
    OBVIOUS
  <2> HIDE DEF r, s
  <2> QED
    BY <1>t3, <1>t7, <2>1, <2>2, <2>3, TailDecoded
<1>11. BytesAt(w, 3) = blob
  <2>1. 3 < Len(w) /\ 256 = 32 * Len(blob)
    BY <1>3, <1>8
  <2>2. w[3 + 1] = 32 * 6 /\ Holds(w, 6, <<256>> \o blob)
    BY <1>8, <1>9
  <2>3. 3 \in Nat /\ 6 \in Nat /\ 256 \in Nat
    OBVIOUS
  <2> QED
    BY <1>t2, <1>t7, <2>1, <2>2, <2>3, TailDecoded
<1> QED
  BY <1>1, <1>9, <1>10, <1>11 DEF cs, blob

(* A withdrawal call, in its head of six words or of seven. *)
LEMMA WithdrawalDecoded ==
  ASSUME NEW a, ProofWords(a), a.nullifiers \in Seq(Nat), a.withdrawFee \in Nat,
         NEW h \in {6, 7}, NEW head \in [1 .. h -> HeadEntry],
         head[1].tail = 1, head[3].tail = 2, head[h].tail = 3
  PROVE  LET w == LayWithdraw(h, head, a)
         IN  /\ BytesAt(w, 0) = EncodeProofBlob(a)
             /\ ArrayAt(w, 2) = a.nullifiers
             /\ BytesAt(w, h - 1) = <<a.withdrawFee>>
             /\ \A k \in 1 .. h : head[k].tail = 0 => w[k] = head[k].word
<1> DEFINE blob == EncodeProofBlob(a)
           ns == a.nullifiers
           fee == <<a.withdrawFee>>
           r == EncodeBytes(blob)
           s == EncodeArray(ns)
           t == EncodeBytes(fee)
           w == Lay(h, head, r, s, t)
<1>1. w = LayWithdraw(h, head, a)
  BY DEF LayWithdraw
<1>2. blob \in Seq(Nat) /\ Len(blob) = 8
  BY BlobFacts
<1>3. fee \in Seq(Nat) /\ Len(fee) = 1 /\ ns \in Seq(Nat) /\ Len(ns) \in Nat /\ h \in Nat
  OBVIOUS
<1> HIDE DEF blob, ns, fee
<1>t1. h \in Nat
  BY <1>3
<1>t2. blob \in Seq(Nat)
  BY <1>2
<1>t3. ns \in Seq(Nat)
  BY <1>3
<1>t4. fee \in Seq(Nat)
  BY <1>3
<1>4. r \in Seq(Nat) /\ Len(r) = 9 /\ s \in Seq(Nat) /\ Len(s) = Len(ns) + 1 /\ t \in Seq(Nat) /\ Len(t) = 2
  <2>1. r \in Seq(Nat) /\ Len(r) = Len(blob) + 1
    BY <1>t2, Prefixed
  <2>2. s \in Seq(Nat) /\ Len(s) = Len(ns) + 1
    BY <1>t3, Prefixed
  <2>3. t \in Seq(Nat) /\ Len(t) = Len(fee) + 1
    BY <1>t4, Prefixed
  <2> QED
    BY <1>2, <1>3, <2>1, <2>2, <2>3
<1>5. r = <<256>> \o blob /\ s = <<Len(ns)>> \o ns /\ t = <<32>> \o fee
  BY <1>2, <1>3 DEF EncodeArray, EncodeBytes
<1> HIDE DEF r, s, t
<1>t5. r \in Seq(Nat)
  BY <1>4
<1>t6. s \in Seq(Nat)
  BY <1>4
<1>t7. t \in Seq(Nat)
  BY <1>4
<1>6. /\ w \in Seq(Nat) /\ Len(w) = h + Len(r) + Len(s) + Len(t)
      /\ \A k \in 1 .. h : w[k] = HeadWord(head[k], h, Len(r), Len(s))
      /\ Holds(w, h, r) /\ Holds(w, h + Len(r), s) /\ Holds(w, h + Len(r) + Len(s), t)
  <2>1. LaidAs(w, h, head, r, s, t)
    BY <1>t1, <1>t5, <1>t6, <1>t7, LaidOut
  <2> QED
    BY <2>1 DEF LaidAs
<1> HIDE DEF w
<1>t8. w \in Seq(Nat)
  BY <1>6
<1> DEFINE at2 == h + 9
           at3 == h + 9 + (Len(ns) + 1)
<1>7. Holds(w, h, <<256>> \o blob) /\ Holds(w, at2, <<Len(ns)>> \o ns) /\ Holds(w, at3, <<32>> \o fee)
  BY <1>4, <1>5, <1>6
<1>l. Len(w) = h + 9 + (Len(ns) + 1) + 2
  BY <1>4, <1>6
<1>8. at2 \in Nat /\ at3 \in Nat /\ 7 < Len(w) /\ h - 1 \in Nat /\ h - 1 < Len(w) /\ (h - 1) + 1 = h
  BY <1>3, <1>l
<1>9. w[0 + 1] = 32 * h /\ w[2 + 1] = 32 * at2 /\ w[(h - 1) + 1] = 32 * at3
  <2>1. w[1] = HeadWord(head[1], h, 9, Len(ns) + 1) /\ w[3] = HeadWord(head[3], h, 9, Len(ns) + 1)
        /\ w[h] = HeadWord(head[h], h, 9, Len(ns) + 1)
    <3>1. 1 \in 1 .. h /\ 3 \in 1 .. h /\ h \in 1 .. h
      OBVIOUS
    <3>2. \A k \in 1 .. h : w[k] = HeadWord(head[k], h, 9, Len(ns) + 1)
      BY <1>4, <1>6
    <3> QED
      BY <3>1, <3>2
  <2>2. w[1] = 32 * h /\ w[3] = 32 * at2 /\ w[h] = 32 * at3
    BY <2>1 DEF HeadWord
  <2> QED
    BY <1>8, <2>2
<1> HIDE DEF at2, at3
<1>10. BytesAt(w, 0) = blob
  <2>1. 0 < Len(w) /\ 0 \in Nat /\ 256 \in Nat /\ 256 = 32 * Len(blob)
    BY <1>2, <1>8
  <2> QED
    BY <1>t1, <1>t2, <1>t8, <1>7, <1>9, <2>1, TailDecoded
<1>11. ArrayAt(w, 2) = ns
  <2>1. 2 < Len(w) /\ 2 \in Nat
    BY <1>8
  <2> QED
    BY <1>t3, <1>t8, <1>3, <1>7, <1>8, <1>9, <2>1, TailDecoded
<1>12. BytesAt(w, h - 1) = fee
  <2>1. 32 = 32 * Len(fee) /\ 32 \in Nat
    BY <1>3
  <2>2. h - 1 < Len(w) /\ w[(h - 1) + 1] = 32 * at3 /\ Holds(w, at3, <<32>> \o fee)
    BY <1>7, <1>8, <1>9
  <2>3. h - 1 \in Nat /\ at3 \in Nat
    BY <1>8
  <2> QED
    BY <1>t4, <1>t8, <2>1, <2>2, <2>3, TailDecoded
<1>13. ASSUME NEW k \in 1 .. h, head[k].tail = 0 PROVE w[k] = head[k].word
  <2>1. w[k] = HeadWord(head[k], h, Len(r), Len(s))
    BY <1>6
  <2> QED
    BY <1>13, <2>1 DEF HeadWord
<1> QED
  BY <1>1, <1>10, <1>11, <1>12, <1>13 DEF blob, ns, fee

(* An attestation's call: the proof is in the head. *)
LEMMA PostDecoded ==
  ASSUME NEW a, ProofWords(a), a.publicSignals \in Seq(Nat), NEW function
  PROVE  LET w == EncodePostGroth16WithPublics(function, a).words
         IN  WordsAt(w, 0, 8) = EncodeProofBlob(a) /\ ArrayAt(w, 8) = a.publicSignals
<1> DEFINE blob == EncodeProofBlob(a)
           ps == a.publicSignals
           head == [i \in 1 .. 9 |-> IF i = 9 THEN OffsetOf(1) ELSE Word(blob[i])]
           none == <<>>
           r == EncodeArray(ps)
           w == Lay(9, head, r, none, none)
<1>1. w = EncodePostGroth16WithPublics(function, a).words
  BY DEF EncodePostGroth16WithPublics, Calls
<1>2. blob \in Seq(Nat) /\ Len(blob) = 8 /\ \A i \in 1 .. 8 : blob[i] \in Nat
  <2>1. blob \in Seq(Nat)
    BY BlobFacts
  <2>2. Len(blob) = 8
    BY BlobFacts
  <2> HIDE DEF blob
  <2>3. ASSUME NEW i \in 1 .. 8 PROVE blob[i] \in Nat
    <3>1. i \in 1 .. Len(blob)
      BY <2>2
    <3> QED
      BY <2>1, <3>1, ElementOfSeq
  <2> QED
    BY <2>1, <2>2, <2>3
<1>3. none \in Seq(Nat) /\ Len(none) = 0 /\ ps \in Seq(Nat) /\ Len(ps) \in Nat
  OBVIOUS
<1> HIDE DEF blob, ps, none
<1>4. head \in [1 .. 9 -> HeadEntry] /\ head[9].tail = 1
      /\ \A i \in 1 .. 8 : head[i].tail = 0 /\ head[i].word = blob[i]
  <2>1. OffsetOf(1) \in HeadEntry /\ OffsetOf(1).tail = 1
        /\ \A i \in 1 .. 8 : Word(blob[i]) \in HeadEntry /\ Word(blob[i]).tail = 0
                             /\ Word(blob[i]).word = blob[i]
    <3>1. 1 \in 0 .. 3
      OBVIOUS
    <3> QED
      BY <1>2, <3>1, HeadEntries
  <2> DEFINE H(i) == IF i = 9 THEN OffsetOf(1) ELSE Word(blob[i])
  <2>2. \A i \in 1 .. 9 : H(i) \in HeadEntry
    BY <2>1
  <2>3. head = [i \in 1 .. 9 |-> H(i)]
    OBVIOUS
  <2>4. H(9).tail = 1 /\ \A i \in 1 .. 8 : H(i).tail = 0 /\ H(i).word = blob[i]
    BY <2>1
  <2> HIDE DEF H, head
  <2> QED
    BY <2>2, <2>3, <2>4
<1>5. r \in Seq(Nat) /\ Len(r) = Len(ps) + 1 /\ r = <<Len(ps)>> \o ps
  BY <1>3, Prefixed DEF EncodeArray
<1> HIDE DEF head, r
<1>t1. head \in [1 .. 9 -> HeadEntry]
  BY <1>4
<1>t2. r \in Seq(Nat)
  BY <1>5
<1>t3. none \in Seq(Nat)
  BY <1>3
<1>t4. ps \in Seq(Nat)
  BY <1>3
<1>t5. blob \in Seq(Nat)
  BY <1>2
<1>6. /\ w \in Seq(Nat) /\ Len(w) = 9 + Len(r) + Len(none) + Len(none)
      /\ \A k \in 1 .. 9 : w[k] = HeadWord(head[k], 9, Len(r), Len(none))
      /\ Holds(w, 9, r)
  <2>1. LaidAs(w, 9, head, r, none, none)
    <3>1. 9 \in Nat
      OBVIOUS
    <3> QED
      BY <3>1, <1>t1, <1>t2, <1>t3, LaidOut
  <2> QED
    BY <2>1 DEF LaidAs
<1> HIDE DEF w
<1>t6. w \in Seq(Nat)
  BY <1>6
<1>7. Len(w) = Len(ps) + 10 /\ w[8 + 1] = 32 * 9 /\ \A i \in 1 .. 8 : w[i] = blob[i]
  <2>1. Len(w) = Len(ps) + 10
    BY <1>3, <1>5, <1>6
  <2>2. ASSUME NEW i \in 1 .. 8 PROVE w[i] = blob[i]
    <3>1. i \in 1 .. 9
      OBVIOUS
    <3>2. w[i] = HeadWord(head[i], 9, Len(r), Len(none))
      BY <1>6, <3>1
    <3> QED
      BY <1>4, <3>2 DEF HeadWord
  <2>3. w[9] = 32 * 9
    <3>1. 9 \in 1 .. 9
      OBVIOUS
    <3>2. w[9] = HeadWord(head[9], 9, Len(r), Len(none))
      BY <1>6, <3>1
    <3> QED
      BY <1>4, <3>2 DEF HeadWord
  <2> QED
    BY <2>1, <2>2, <2>3
<1>8. WordsAt(w, 0, 8) = blob
  <2>1. Holds(w, 0, blob)
    BY <1>2, <1>3, <1>7 DEF Holds
  <2>2. WordsAt(w, 32 * 0, Len(blob)) = blob
    BY <1>t5, <1>t6, <2>1, WordsDecoded
  <2> QED
    BY <1>2, <2>2
<1>9. ArrayAt(w, 8) = ps
  <2>1. 8 < Len(w) /\ 8 \in Nat /\ 9 \in Nat
    BY <1>3, <1>7
  <2> QED
    BY <1>t4, <1>t6, <1>3, <1>5, <1>6, <1>7, <2>1, TailDecoded
<1> QED
  BY <1>1, <1>8, <1>9 DEF blob, ps

LEMMA GrossExact ==
  ASSUME NEW rate \in FeeRates, NEW value \in Nat
  PROVE  /\ DepositGrossFromNet(value, rate) \in Nat
         /\ DepositNetFromGross(DepositGrossFromNet(value, rate), rate) = value
<1>1. CASE value = 0
  <2>1. 0 * rate = 0 /\ 0 \div FEE_DENOMINATOR = 0
    BY DepositFeeAssumption DEF FeeRates
  <2> QED
    BY <1>1, <2>1 DEF DepositGrossFromNet, DepositNetFromGross, FeeFromPpm
<1>2. CASE value # 0
  BY <1>2, InverseExact DEF DepositGrossFromNet
<1> QED
  BY <1>1, <1>2

-----------------------------------------------------------------------------
(* What the files and the transactions are made from. *)

BuiltDeposit(c) ==
  \E note \in NoteFiles :
    /\ proof.publicSignals[1] = note.commitment /\ proof.publicSignals[2] = note.value
    /\ c = [function |-> "deposit", args |-> DepositArgs(proof, note)]

BuiltWithdraw(c) ==
  /\ "nullifiers" \in DOMAIN proof /\ Len(proof.nullifiers) = 2
  /\ c = [function |-> "withdraw", args |-> WithdrawArgs(proof)]

BuiltWithdraw1(c) ==
  /\ "nullifiers" \in DOMAIN proof /\ Len(proof.nullifiers) = 1
  /\ c = [function |-> "withdraw1", args |-> WithdrawArgs(proof)]

BuiltPartial(c) ==
  /\ "outCommitment" \in DOMAIN proof
  /\ c = [function |-> "withdrawPartial1", args |-> PartialArgs(proof)]

BuiltPost(c) ==
  /\ proof.circuit \in Attestations
  /\ c = [function |-> IF proof.circuit = "value_bound_dev" THEN "postValueBoundProof"
                       ELSE "postOwnershipProof",
          args |-> PostArgs(proof)]

Built(c) ==
  BuiltDeposit(c) \/ BuiltWithdraw(c) \/ BuiltWithdraw1(c) \/ BuiltPartial(c) \/ BuiltPost(c)

Carries(tx) ==
  \/ /\ Asks(tx) = Asked(proof.circuit, EncodeProofBlob(proof), proof.publicSignals)
     /\ tx.value = IF native /\ tx.data.function = "deposit" THEN tx.data.words[1] ELSE 0
  \/ proof.circuit = "withdraw_partial" /\ tx.data.function = "withdraw1"
  \/ proof.circuit \in Attestations /\ tx.data.function = "deposit"

CallInv ==
  /\ proof \in ProofFiles
  /\ call = NoCall \/ Built(call)
  /\ CallsCarryTheProof

(* What the file of a withdrawal has. *)
LEMMA WithdrawalFields ==
  ASSUME NEW p, ProofFile(p), p.circuit \in Withdrawals
  PROVE  /\ ProofWords(p)
         /\ p.nullifiers \in Seq(Nat)
         /\ Len(p.nullifiers) = IF p.circuit = "withdraw" THEN 2 ELSE 1
         /\ p.merkleRoot \in Nat /\ p.recipient \in Nat
         /\ p.withdrawAmount \in Nat /\ p.withdrawFee \in Nat
         /\ p.circuit = "withdraw_partial" => p.outCommitment \in Nat
<1>1. ProofWords(p)
  BY DEF ProofFile
<1>2. {p.merkleRoot, p.recipient, p.withdrawAmount, p.withdrawFee} \subseteq Nat
  BY DEF ProofFile
<1>3. p.circuit = "withdraw_partial" => p.outCommitment \in Nat
  BY DEF ProofFile
<1> DEFINE n == IF p.circuit = "withdraw" THEN 2 ELSE 1
<1>4. p.nullifiers \in [1 .. n -> Nat] /\ n \in Nat
  BY DEF ProofFile
<1> HIDE DEF n
<1>5. p.nullifiers \in Seq(Nat) /\ Len(p.nullifiers) = n
  BY <1>4
<1> QED
  BY <1>1, <1>2, <1>3, <1>5 DEF n

(* The signals of a withdrawal begin with its root. *)
LEMMA SignalsStart ==
  ASSUME NEW r \in Nat, NEW ns \in Seq(Nat), NEW x \in Nat, NEW y \in Nat, NEW z \in Nat,
         NEW rest \in Seq(Nat)
  PROVE  (<<r>> \o ns \o <<x, y, z>> \o rest)[1] = r
<1> DEFINE one == <<r>>
           three == <<x, y, z>>
           p == one \o ns
           q == p \o three
<1>1. one \in Seq(Nat)
  OBVIOUS
<1>2. Len(one) = 1 /\ one[1] = r
  OBVIOUS
<1>3. three \in Seq(Nat)
  OBVIOUS
<1> HIDE DEF one, three
<1>4. p \in Seq(Nat) /\ Len(p) = Len(one) + Len(ns) /\ \A i \in 1 .. Len(one) : p[i] = one[i]
  BY <1>1, CatHolds
<1> HIDE DEF p
<1>5. p \in Seq(Nat)
  BY <1>4
<1>6. q \in Seq(Nat) /\ Len(q) = Len(p) + Len(three) /\ \A i \in 1 .. Len(p) : q[i] = p[i]
  BY <1>3, <1>5, CatHolds
<1> HIDE DEF q
<1>7. q \in Seq(Nat)
  BY <1>6
<1>8. \A i \in 1 .. Len(q) : (q \o rest)[i] = q[i]
  BY <1>7, CatHolds
<1>9. Len(ns) \in Nat /\ Len(three) \in Nat
  BY <1>3
<1>10. 1 \in 1 .. Len(one) /\ 1 \in 1 .. Len(p) /\ 1 \in 1 .. Len(q)
  BY <1>2, <1>4, <1>6, <1>9
<1> QED
  BY <1>2, <1>4, <1>6, <1>8, <1>10 DEF q, p, one, three

LEMMA PairJoins ==
  ASSUME NEW x \in Nat, NEW y \in Nat
  PROVE  <<x>> \o <<y>> = <<x, y>>
<1> DEFINE p == <<x>>
           q == <<y>>
           r == <<x, y>>
<1>1. p \in Seq(Nat) /\ q \in Seq(Nat) /\ r \in Seq(Nat)
  OBVIOUS
<1>2. Len(p) = 1 /\ Len(q) = 1 /\ Len(r) = 2 /\ p[1] = x /\ q[1] = y /\ r[1] = x /\ r[2] = y
  OBVIOUS
<1> HIDE DEF p, q, r
<1>3. /\ p \o q \in Seq(Nat) /\ Len(p \o q) = Len(p) + Len(q)
      /\ \A i \in 1 .. Len(p) : (p \o q)[i] = p[i]
      /\ Holds(p \o q, Len(p), q)
  BY <1>1, CatHolds
<1>4. (p \o q)[1] = r[1] /\ (p \o q)[2] = r[2] /\ Len(p \o q) = Len(r)
  BY <1>2, <1>3 DEF Holds
<1>5. \A i \in 1 .. Len(p \o q) : (p \o q)[i] = r[i]
  BY <1>2, <1>4
<1>6. p \o q \in Seq(Nat)
  BY <1>3
<1> QED
  BY <1>1, <1>4, <1>5, <1>6, SeqEqual DEF p, q, r

LEMMA DepositCarries ==
  ASSUME proof \in ProofFiles, NEW note \in NoteFiles,
         proof.publicSignals[1] = note.commitment, proof.publicSignals[2] = note.value,
         NEW args, args = DepositArgs(proof, note),
         NEW value, value = (IF native THEN args.amount ELSE 0)
  PROVE  Carries([data |-> EncodeDepositCalldata(args), value |-> value])
<1> DEFINE tx == [data |-> EncodeDepositCalldata(args), value |-> value]
           w == EncodeDepositCalldata(args).words
           paid == DepositGrossFromNet(note.value, depositFeePpm)
<1>1. ProofFile(proof) /\ note.commitment \in Nat /\ note.value \in Nat /\ depositFeePpm \in FeeRates
  BY CalldataAssumption
<1>2. proof.circuit \notin Withdrawals
  <2> SUFFICES ASSUME proof.circuit \in Withdrawals PROVE FALSE
    OBVIOUS
  <2>1. proof.merkleRoot # note.commitment
    BY CalldataAssumption
  <2> DEFINE ns == proof.nullifiers
             x == proof.recipient
             y == proof.withdrawAmount
             z == proof.withdrawFee
             rest == IF proof.circuit = "withdraw_partial" THEN <<proof.outCommitment>> ELSE <<>>
  <2>2. proof.merkleRoot \in Nat /\ ns \in Seq(Nat) /\ x \in Nat /\ y \in Nat /\ z \in Nat
    BY <1>1, WithdrawalFields
  <2>3. rest \in Seq(Nat)
    <3>1. proof.circuit = "withdraw_partial" => <<proof.outCommitment>> \in Seq(Nat)
      <4>1. proof.circuit = "withdraw_partial" => proof.outCommitment \in Nat
        BY <1>1, WithdrawalFields
      <4> QED
        BY <4>1
    <3>2. <<>> \in Seq(Nat)
      OBVIOUS
    <3> QED
      BY <3>1, <3>2
  <2>4. proof.publicSignals = <<proof.merkleRoot>> \o ns \o <<x, y, z>> \o rest
    BY <1>1 DEF ProofFile
  <2> HIDE DEF ns, x, y, z, rest
  <2> QED
    BY <2>1, <2>2, <2>3, <2>4, SignalsStart
<1>3. /\ ProofWords(args) /\ args.amount = paid /\ args.tierCode = 0
      /\ args.newCommitments = <<note.commitment>> /\ EncodeProofBlob(args) = EncodeProofBlob(proof)
  BY <1>1 DEF ProofFile, ProofWords, DepositArgs, EncodeProofBlob
<1>4. paid \in Nat /\ DepositNetFromGross(paid, depositFeePpm) = note.value
  BY <1>1, GrossExact
<1> HIDE DEF paid
<1>5. w[1] = paid /\ ArrayAt(w, 1) = <<note.commitment>> /\ BytesAt(w, 3) = EncodeProofBlob(proof)
  <2>1. args.amount \in Nat /\ args.tierCode \in Nat
    BY <1>3, <1>4
  <2> QED
    BY <1>1, <1>3, <2>1, DepositDecoded
<1>6. tx.data.function = "deposit" /\ tx.data.words = w /\ tx.value = value
  BY DEF EncodeDepositCalldata, Calls
<1> HIDE DEF w
<1>7. Asks(tx) = Asked("deposit", EncodeProofBlob(proof), <<note.commitment, note.value>>)
  <2>1. w[1] - (w[1] * depositFeePpm) \div FEE_DENOMINATOR = note.value
    BY <1>4, <1>5 DEF DepositNetFromGross, FeeFromPpm
  <2>2. Asks(tx) = PoolAsks(tx)
    BY <1>6 DEF Asks, Posts
  <2>3. PoolAsks(tx) = Asked("deposit", BytesAt(w, 3), ArrayAt(w, 1) \o <<note.value>>)
    BY <1>6, <2>1 DEF PoolAsks
  <2>4. <<note.commitment>> \o <<note.value>> = <<note.commitment, note.value>>
    BY <1>1, PairJoins
  <2> QED
    BY <1>5, <2>2, <2>3, <2>4
<1>8. CASE proof.circuit = "deposit"
  <2>1. proof.publicSignals = <<note.commitment, note.value>>
    BY <1>1, <1>8 DEF ProofFile
  <2>2. tx.value = IF native /\ tx.data.function = "deposit" THEN tx.data.words[1] ELSE 0
    BY <1>3, <1>5, <1>6
  <2> QED
    BY <1>7, <1>8, <2>1, <2>2 DEF Carries
<1>9. CASE proof.circuit \in Attestations
  BY <1>6, <1>9 DEF Carries
<1> QED
  BY <1>1, <1>2, <1>8, <1>9 DEF ProofFile

(* The fee that comes with a withdrawal joins its other signals. *)
LEMMA SignalsJoin ==
  ASSUME NEW p \in Seq(Nat), NEW x \in Nat, NEW y \in Nat, NEW z \in Nat
  PROVE  (p \o <<x, y>>) \o <<z>> = p \o <<x, y, z>>
<1> DEFINE two == <<x, y>>
           one == <<z>>
           three == <<x, y, z>>
           u == p \o two
           s == u \o one
           t == p \o three
<1>1. two \in Seq(Nat) /\ one \in Seq(Nat) /\ three \in Seq(Nat)
  OBVIOUS
<1>2. /\ Len(two) = 2 /\ Len(one) = 1 /\ Len(three) = 3
      /\ two[1] = x /\ two[2] = y /\ one[1] = z
      /\ three[1] = x /\ three[2] = y /\ three[3] = z
  OBVIOUS
<1> HIDE DEF two, one, three
<1>3. u \in Seq(Nat) /\ Len(u) = Len(p) + Len(two) /\ (\A i \in 1 .. Len(p) : u[i] = p[i])
      /\ Holds(u, Len(p), two)
  BY <1>1, CatHolds
<1>4. t \in Seq(Nat) /\ Len(t) = Len(p) + Len(three) /\ (\A i \in 1 .. Len(p) : t[i] = p[i])
      /\ Holds(t, Len(p), three)
  BY <1>1, CatHolds
<1> HIDE DEF u, t
<1>5. u \in Seq(Nat)
  BY <1>3
<1>6. s \in Seq(Nat) /\ Len(s) = Len(u) + Len(one) /\ (\A i \in 1 .. Len(u) : s[i] = u[i])
      /\ Holds(s, Len(u), one)
  BY <1>1, <1>5, CatHolds
<1> HIDE DEF s
<1>7. Len(p) \in Nat
  OBVIOUS
<1>8. Len(s) = Len(p) + 3 /\ Len(t) = Len(p) + 3
  BY <1>2, <1>3, <1>4, <1>6, <1>7
<1>9. ASSUME NEW i \in 1 .. Len(s) PROVE s[i] = t[i]
  <2>1. CASE i <= Len(p)
    <3>1. i \in 1 .. Len(p) /\ i \in 1 .. Len(u)
      BY <1>2, <1>3, <1>7, <1>8, <2>1
    <3> QED
      BY <1>3, <1>4, <1>6, <3>1
  <2>2. u[Len(p) + 1] = x /\ u[Len(p) + 2] = y /\ t[Len(p) + 1] = x /\ t[Len(p) + 2] = y
        /\ t[Len(p) + 3] = z
    BY <1>2, <1>3, <1>4 DEF Holds
  <2>3. CASE i = Len(p) + 1 \/ i = Len(p) + 2
    <3>1. i \in 1 .. Len(u)
      BY <1>2, <1>3, <1>7, <2>3
    <3> QED
      BY <1>6, <2>2, <2>3, <3>1
  <2>4. CASE i = Len(p) + 3
    <3>1. s[Len(u) + 1] = z
      BY <1>2, <1>6 DEF Holds
    <3>2. Len(u) + 1 = Len(p) + 3
      BY <1>2, <1>3, <1>7
    <3> QED
      BY <2>2, <2>4, <3>1, <3>2
  <2> QED
    BY <1>7, <1>8, <2>1, <2>3, <2>4
<1>10. s \in Seq(Nat)
  BY <1>6
<1>11. t \in Seq(Nat)
  BY <1>4
<1> QED
  BY <1>8, <1>9, <1>10, <1>11, SeqEqual DEF s, u, t, two, one, three

HeadOf6(a) == <<OffsetOf(1), Word(a.merkleRoot), OffsetOf(2), Word(a.recipient), Word(a.amount), OffsetOf(3)>>
HeadOf7(a) == <<OffsetOf(1), Word(a.merkleRoot), OffsetOf(2), Word(a.recipient), Word(a.amount),
                Word(a.outCommitment), OffsetOf(3)>>

LEMMA SixDecoded ==
  ASSUME NEW a, ProofWords(a), a.nullifiers \in Seq(Nat), a.withdrawFee \in Nat,
         a.merkleRoot \in Nat, a.recipient \in Nat, a.amount \in Nat
  PROVE  LET w == LayWithdraw(6, HeadOf6(a), a)
         IN  /\ BytesAt(w, 0) = EncodeProofBlob(a)
             /\ ArrayAt(w, 2) = a.nullifiers
             /\ BytesAt(w, 5) = <<a.withdrawFee>>
             /\ w[2] = a.merkleRoot /\ w[4] = a.recipient /\ w[5] = a.amount
<1> DEFINE head == HeadOf6(a)
           w == LayWithdraw(6, head, a)
<1>1. /\ head \in [1 .. 6 -> HeadEntry]
      /\ head[1].tail = 1 /\ head[3].tail = 2 /\ head[6].tail = 3
      /\ head[2].tail = 0 /\ head[2].word = a.merkleRoot
      /\ head[4].tail = 0 /\ head[4].word = a.recipient
      /\ head[5].tail = 0 /\ head[5].word = a.amount
  BY HeadEntries DEF HeadOf6
<1> HIDE DEF head
<1>2. head \in [1 .. 6 -> HeadEntry]
  BY <1>1
<1>3. 6 \in {6, 7}
  OBVIOUS
<1>4. /\ BytesAt(w, 0) = EncodeProofBlob(a) /\ ArrayAt(w, 2) = a.nullifiers
      /\ BytesAt(w, 6 - 1) = <<a.withdrawFee>>
      /\ \A k \in 1 .. 6 : head[k].tail = 0 => w[k] = head[k].word
  BY <1>1, <1>2, <1>3, WithdrawalDecoded
<1> HIDE DEF w
<1> QED
  BY <1>1, <1>4 DEF w, head

LEMMA SevenDecoded ==
  ASSUME NEW a, ProofWords(a), a.nullifiers \in Seq(Nat), a.withdrawFee \in Nat,
         a.merkleRoot \in Nat, a.recipient \in Nat, a.amount \in Nat, a.outCommitment \in Nat
  PROVE  LET w == LayWithdraw(7, HeadOf7(a), a)
         IN  /\ BytesAt(w, 0) = EncodeProofBlob(a)
             /\ ArrayAt(w, 2) = a.nullifiers
             /\ BytesAt(w, 6) = <<a.withdrawFee>>
             /\ w[2] = a.merkleRoot /\ w[4] = a.recipient /\ w[5] = a.amount
             /\ w[6] = a.outCommitment
<1> DEFINE head == HeadOf7(a)
           w == LayWithdraw(7, head, a)
<1>1. /\ head \in [1 .. 7 -> HeadEntry]
      /\ head[1].tail = 1 /\ head[3].tail = 2 /\ head[7].tail = 3
      /\ head[2].tail = 0 /\ head[2].word = a.merkleRoot
      /\ head[4].tail = 0 /\ head[4].word = a.recipient
      /\ head[5].tail = 0 /\ head[5].word = a.amount
      /\ head[6].tail = 0 /\ head[6].word = a.outCommitment
  BY HeadEntries DEF HeadOf7
<1> HIDE DEF head
<1>2. head \in [1 .. 7 -> HeadEntry]
  BY <1>1
<1>3. 7 \in {6, 7}
  OBVIOUS
<1>4. /\ BytesAt(w, 0) = EncodeProofBlob(a) /\ ArrayAt(w, 2) = a.nullifiers
      /\ BytesAt(w, 7 - 1) = <<a.withdrawFee>>
      /\ \A k \in 1 .. 7 : head[k].tail = 0 => w[k] = head[k].word
  BY <1>1, <1>2, <1>3, WithdrawalDecoded
<1> HIDE DEF w
<1> QED
  BY <1>1, <1>4 DEF w, head

(* What the pool asks about a withdrawal in either shape. *)
LEMMA WithdrawArgsFacts ==
  ASSUME NEW p, ProofFile(p), p.circuit \in Withdrawals, NEW a, a \in {WithdrawArgs(p), PartialArgs(p)}
  PROVE  /\ ProofWords(a) /\ a.nullifiers \in Seq(Nat) /\ a.withdrawFee \in Nat
         /\ a.merkleRoot \in Nat /\ a.recipient \in Nat /\ a.amount \in Nat
         /\ EncodeProofBlob(a) = EncodeProofBlob(p)
         /\ a.merkleRoot = p.merkleRoot /\ a.recipient = p.recipient /\ a.amount = p.withdrawAmount
         /\ a.nullifiers = p.nullifiers /\ a.withdrawFee = p.withdrawFee
<1>1. /\ a.proofA = p.proofA /\ a.proofB = p.proofB /\ a.proofC = p.proofC
      /\ a.merkleRoot = p.merkleRoot /\ a.recipient = p.recipient /\ a.amount = p.withdrawAmount
      /\ a.nullifiers = p.nullifiers /\ a.withdrawFee = p.withdrawFee
  BY DEF WithdrawArgs, PartialArgs
<1>2. ProofWords(a) /\ EncodeProofBlob(a) = EncodeProofBlob(p)
  <2>1. ProofWords(p)
    BY WithdrawalFields
  <2> QED
    BY <1>1, <2>1 DEF ProofWords, EncodeProofBlob
<1> QED
  BY <1>1, <1>2, WithdrawalFields

(* The signals of a withdrawal, and of a partial one. *)
LEMMA SignalsOf ==
  ASSUME NEW p, ProofFile(p), p.circuit \in Withdrawals
  PROVE  LET common == <<p.merkleRoot>> \o p.nullifiers \o <<p.recipient, p.withdrawAmount>>
                         \o <<p.withdrawFee>>
         IN  p.publicSignals = IF p.circuit = "withdraw_partial" THEN common \o <<p.outCommitment>>
                               ELSE common
<1> DEFINE ns == p.nullifiers
           q == <<p.merkleRoot>> \o ns
           three == <<p.recipient, p.withdrawAmount, p.withdrawFee>>
<1>1. p.merkleRoot \in Nat /\ ns \in Seq(Nat) /\ p.recipient \in Nat /\ p.withdrawAmount \in Nat
      /\ p.withdrawFee \in Nat
  BY WithdrawalFields
<1>2. p.publicSignals = q \o three \o IF p.circuit = "withdraw_partial" THEN <<p.outCommitment>> ELSE <<>>
  BY DEF ProofFile
<1>3. q \in Seq(Nat)
  <2> DEFINE one == <<p.merkleRoot>>
  <2>1. one \in Seq(Nat)
    BY <1>1
  <2> HIDE DEF one, ns
  <2>2. one \o ns \in Seq(Nat)
    BY <1>1, <2>1, CatHolds
  <2> QED
    BY <2>2 DEF one, ns
<1>4. three \in Seq(Nat)
  BY <1>1
<1> HIDE DEF q
<1>5. (q \o <<p.recipient, p.withdrawAmount>>) \o <<p.withdrawFee>> = q \o three
  BY <1>1, <1>3, SignalsJoin
<1>6. q \o three \in Seq(Nat)
  <2> HIDE DEF three
  <2> QED
    BY <1>3, <1>4, CatHolds
<1>7. (q \o three) \o <<>> = q \o three
  BY <1>6, ConcatEmptySeq
<1> HIDE DEF three
<1>8. CASE p.circuit = "withdraw_partial"
  BY <1>2, <1>5, <1>8 DEF q, ns
<1>9. CASE p.circuit # "withdraw_partial"
  BY <1>2, <1>5, <1>7, <1>9 DEF q, ns
<1> QED
  BY <1>8, <1>9

LEMMA WithdrawCarries ==
  ASSUME proof \in ProofFiles, proof.circuit \in Withdrawals,
         NEW function \in {"withdraw", "withdraw1"},
         function = "withdraw" => proof.circuit = "withdraw",
         function = "withdraw1" => proof.circuit # "withdraw"
  PROVE  Carries([data |-> Calls(function, LayWithdraw(6, HeadOf6(WithdrawArgs(proof)), WithdrawArgs(proof))),
                  value |-> 0])
<1> DEFINE a == WithdrawArgs(proof)
           w == LayWithdraw(6, HeadOf6(a), a)
           tx == [data |-> Calls(function, w), value |-> 0]
<1>1. ProofFile(proof)
  BY CalldataAssumption
<1>2. /\ ProofWords(a) /\ a.nullifiers \in Seq(Nat) /\ a.withdrawFee \in Nat
      /\ a.merkleRoot \in Nat /\ a.recipient \in Nat /\ a.amount \in Nat
      /\ EncodeProofBlob(a) = EncodeProofBlob(proof)
      /\ a.merkleRoot = proof.merkleRoot /\ a.recipient = proof.recipient
      /\ a.amount = proof.withdrawAmount
      /\ a.nullifiers = proof.nullifiers /\ a.withdrawFee = proof.withdrawFee
  <2>1. a \in {WithdrawArgs(proof), PartialArgs(proof)}
    OBVIOUS
  <2> QED
    BY <1>1, <2>1, WithdrawArgsFacts
<1> HIDE DEF a
<1>3. /\ BytesAt(w, 0) = EncodeProofBlob(proof) /\ ArrayAt(w, 2) = proof.nullifiers
      /\ BytesAt(w, 5) = <<proof.withdrawFee>>
      /\ w[2] = proof.merkleRoot /\ w[4] = proof.recipient /\ w[5] = proof.withdrawAmount
  BY <1>2, SixDecoded
<1> HIDE DEF w
<1>4. tx.data.function = function /\ tx.data.words = w /\ tx.value = 0
  BY DEF Calls
<1> HIDE DEF tx
<1>5. ASSUME proof.circuit = "withdraw_partial" PROVE Carries(tx)
  <2>1. function = "withdraw1"
    BY <1>5
  <2> QED
    BY <1>4, <1>5, <2>1 DEF Carries
<1>6. ASSUME proof.circuit # "withdraw_partial" PROVE Carries(tx)
  <2>1. proof.circuit = IF function = "withdraw" THEN "withdraw" ELSE "withdraw_1in"
    BY <1>6 DEF Withdrawals
  <2>2. proof.publicSignals = <<proof.merkleRoot>> \o proof.nullifiers
                                \o <<proof.recipient, proof.withdrawAmount>> \o <<proof.withdrawFee>>
    BY <1>1, <1>6, SignalsOf
  <2>3. Asks(tx) = PoolAsks(tx)
    BY <1>4 DEF Asks, Posts
  <2>4. PoolAsks(tx) = Asked(proof.circuit, BytesAt(w, 0),
                             <<w[2]>> \o ArrayAt(w, 2) \o <<w[4], w[5]>> \o BytesAt(w, 5))
    BY <1>4, <2>1 DEF PoolAsks
  <2> QED
    BY <1>3, <1>4, <2>2, <2>3, <2>4 DEF Carries
<1> QED
  BY <1>5, <1>6 DEF a, w, tx

LEMMA PartialCarries ==
  ASSUME proof \in ProofFiles, proof.circuit = "withdraw_partial"
  PROVE  Carries([data |-> EncodeWithdrawPartial1Calldata(PartialArgs(proof)), value |-> 0])
<1> DEFINE a == PartialArgs(proof)
           w == LayWithdraw(7, HeadOf7(a), a)
           tx == [data |-> EncodeWithdrawPartial1Calldata(a), value |-> 0]
<1>1. ProofFile(proof) /\ proof.circuit \in Withdrawals
  BY CalldataAssumption DEF Withdrawals
<1>2. /\ ProofWords(a) /\ a.nullifiers \in Seq(Nat) /\ a.withdrawFee \in Nat
      /\ a.merkleRoot \in Nat /\ a.recipient \in Nat /\ a.amount \in Nat
      /\ EncodeProofBlob(a) = EncodeProofBlob(proof)
      /\ a.merkleRoot = proof.merkleRoot /\ a.recipient = proof.recipient
      /\ a.amount = proof.withdrawAmount
      /\ a.nullifiers = proof.nullifiers /\ a.withdrawFee = proof.withdrawFee
  <2>1. a \in {WithdrawArgs(proof), PartialArgs(proof)}
    OBVIOUS
  <2> QED
    BY <1>1, <2>1, WithdrawArgsFacts
<1>3. a.outCommitment = proof.outCommitment /\ proof.outCommitment \in Nat
  BY <1>1, WithdrawalFields DEF PartialArgs
<1>4. tx.data.function = "withdrawPartial1" /\ tx.data.words = w /\ tx.value = 0
  BY DEF Calls, EncodeWithdrawPartial1Calldata, HeadOf7
<1> HIDE DEF a
<1>5. /\ BytesAt(w, 0) = EncodeProofBlob(proof) /\ ArrayAt(w, 2) = proof.nullifiers
      /\ BytesAt(w, 6) = <<proof.withdrawFee>>
      /\ w[2] = proof.merkleRoot /\ w[4] = proof.recipient /\ w[5] = proof.withdrawAmount
      /\ w[6] = proof.outCommitment
  BY <1>2, <1>3, SevenDecoded
<1> HIDE DEF w, tx
<1>6. proof.publicSignals = <<proof.merkleRoot>> \o proof.nullifiers
                              \o <<proof.recipient, proof.withdrawAmount>> \o <<proof.withdrawFee>>
                              \o <<proof.outCommitment>>
  BY <1>1, SignalsOf
<1>7. Asks(tx) = PoolAsks(tx)
  BY <1>4 DEF Asks, Posts
<1>8. PoolAsks(tx) = Asked("withdraw_partial", BytesAt(w, 0),
                           <<w[2]>> \o ArrayAt(w, 2) \o <<w[4], w[5]>> \o BytesAt(w, 6) \o <<w[6]>>)
  BY <1>4 DEF PoolAsks
<1> QED
  BY <1>4, <1>5, <1>6, <1>7, <1>8 DEF Carries, tx, a

LEMMA PostCarries ==
  ASSUME proof \in ProofFiles, proof.circuit \in Attestations,
         NEW function, function = (IF proof.circuit = "value_bound_dev" THEN "postValueBoundProof"
                                   ELSE "postOwnershipProof")
  PROVE  Carries([data |-> EncodePostGroth16WithPublics(function, PostArgs(proof)), value |-> 0])
<1> DEFINE a == PostArgs(proof)
           w == EncodePostGroth16WithPublics(function, a).words
           tx == [data |-> EncodePostGroth16WithPublics(function, a), value |-> 0]
<1>1. ProofFile(proof)
  BY CalldataAssumption
<1>2. ProofWords(a) /\ a.publicSignals = proof.publicSignals /\ proof.publicSignals \in Seq(Nat)
      /\ EncodeProofBlob(a) = EncodeProofBlob(proof)
  BY <1>1 DEF ProofFile, ProofWords, PostArgs, EncodeProofBlob
<1> HIDE DEF a
<1>3. WordsAt(w, 0, 8) = EncodeProofBlob(proof) /\ ArrayAt(w, 8) = proof.publicSignals
  BY <1>2, PostDecoded
<1>4. tx.data.function = function /\ tx.data.words = w /\ tx.value = 0
  BY DEF EncodePostGroth16WithPublics, Calls
<1> HIDE DEF w, tx
<1>5. function \in Posts /\ function # "deposit"
      /\ proof.circuit = (IF function = "postValueBoundProof" THEN "value_bound_dev" ELSE "ownership_dev")
  BY DEF Posts, Attestations
<1>6. Asks(tx) = Asked(proof.circuit, WordsAt(w, 0, 8), ArrayAt(w, 8))
  BY <1>4, <1>5 DEF Asks, AnchorAsks
<1> QED
  BY <1>3, <1>4, <1>5, <1>6 DEF Carries, tx, a

(* The three encoders of a function are the same. *)
LEMMA SameEncoders ==
  ASSUME NEW a
  PROVE  /\ PyEncodeDeposit(a) = EncodeDepositCalldata(a)
         /\ WebEncodeDeposit(a) = EncodeDepositCalldata(a)
         /\ EncodeWithdrawCalldata(a) = Calls("withdraw", LayWithdraw(6, HeadOf6(a), a))
         /\ PyEncodeWithdraw(a) = Calls("withdraw", LayWithdraw(6, HeadOf6(a), a))
         /\ WebEncodeWithdraw(a) = Calls("withdraw", LayWithdraw(6, HeadOf6(a), a))
         /\ EncodeWithdraw1Calldata(a) = Calls("withdraw1", LayWithdraw(6, HeadOf6(a), a))
         /\ PyEncodeWithdraw1(a) = Calls("withdraw1", LayWithdraw(6, HeadOf6(a), a))
         /\ WebEncodeWithdraw1(a) = Calls("withdraw1", LayWithdraw(6, HeadOf6(a), a))
         /\ PyEncodeWithdrawPartial1(a) = EncodeWithdrawPartial1Calldata(a)
         /\ WebEncodeWithdrawPartial1(a) = EncodeWithdrawPartial1Calldata(a)
         /\ \A function : WebEncodePost(function, a) = EncodePostGroth16WithPublics(function, a)
BY DEF PyEncodeDeposit, WebEncodeDeposit, EncodeDepositCalldata, EncodeWithdrawCalldata, PyEncodeWithdraw,
       WebEncodeWithdraw, EncodeWithdraw1Calldata, PyEncodeWithdraw1, WebEncodeWithdraw1,
       PyEncodeWithdrawPartial1, WebEncodeWithdrawPartial1, EncodeWithdrawPartial1Calldata,
       WebEncodePost, EncodePostGroth16WithPublics, HeadOf6

(* A call file that encodes is of one of the five kinds. *)
LEMMA SentCarries ==
  ASSUME CallInv, Encodable(call)
  PROVE  /\ Carries([data |-> EncodeCallFromBuildJson(call), value |-> ValueOf(call)])
         /\ PyEncodable(call) =>
              Carries([data |-> PyEncodeCallFromBuildJson(call), value |-> ValueOf(call)])
<1>1. Built(call) /\ proof \in ProofFiles
  BY DEF CallInv, Encodable, NoCall
<1>2. ProofFile(proof)
  BY <1>1, CalldataAssumption
<1>3. CASE BuiltDeposit(call)
  <2>1. PICK note \in NoteFiles :
          /\ proof.publicSignals[1] = note.commitment /\ proof.publicSignals[2] = note.value
          /\ call = [function |-> "deposit", args |-> DepositArgs(proof, note)]
    BY <1>3 DEF BuiltDeposit
  <2>2. call.function = "deposit" /\ call.args = DepositArgs(proof, note)
        /\ ValueOf(call) = (IF native THEN call.args.amount ELSE 0)
    BY <2>1 DEF ValueOf
  <2>3. Carries([data |-> EncodeDepositCalldata(call.args), value |-> ValueOf(call)])
    BY <1>1, <2>1, <2>2, DepositCarries
  <2>4. EncodeCallFromBuildJson(call) = EncodeDepositCalldata(call.args)
        /\ PyEncodeCallFromBuildJson(call) = EncodeDepositCalldata(call.args)
    BY <2>2, SameEncoders DEF EncodeCallFromBuildJson, PyEncodeCallFromBuildJson
  <2> QED
    BY <2>3, <2>4
<1>4. ASSUME NEW function \in {"withdraw", "withdraw1"}, call.function = function,
             call.args = WithdrawArgs(proof), "nullifiers" \in DOMAIN proof,
             Len(proof.nullifiers) = IF function = "withdraw" THEN 2 ELSE 1
      PROVE  /\ Carries([data |-> EncodeCallFromBuildJson(call), value |-> ValueOf(call)])
             /\ Carries([data |-> PyEncodeCallFromBuildJson(call), value |-> ValueOf(call)])
  <2>1. proof.circuit \in Withdrawals
    BY <1>2, <1>4 DEF ProofFile
  <2>2. Len(proof.nullifiers) = IF proof.circuit = "withdraw" THEN 2 ELSE 1
    BY <1>2, <2>1, WithdrawalFields
  <2>3. (function = "withdraw" => proof.circuit = "withdraw")
        /\ (function = "withdraw1" => proof.circuit # "withdraw")
    BY <1>4, <2>2
  <2>4. Carries([data |-> Calls(function, LayWithdraw(6, HeadOf6(WithdrawArgs(proof)), WithdrawArgs(proof))),
                 value |-> 0])
    BY <1>1, <2>1, <2>3, WithdrawCarries
  <2>5. ValueOf(call) = 0
    BY <1>4 DEF ValueOf
  <2>6. EncodeCallFromBuildJson(call) = Calls(function, LayWithdraw(6, HeadOf6(call.args), call.args))
    BY <1>4, SameEncoders DEF EncodeCallFromBuildJson
  <2>7. PyEncodeCallFromBuildJson(call) = Calls(function, LayWithdraw(6, HeadOf6(call.args), call.args))
    BY <1>4, SameEncoders DEF PyEncodeCallFromBuildJson
  <2> QED
    BY <1>4, <2>4, <2>5, <2>6, <2>7
<1>5. CASE BuiltWithdraw(call)
  <2>1. call.function = "withdraw" /\ call.args = WithdrawArgs(proof) /\ "nullifiers" \in DOMAIN proof
        /\ Len(proof.nullifiers) = 2
    BY <1>5 DEF BuiltWithdraw
  <2> QED
    BY <1>4, <2>1
<1>6. CASE BuiltWithdraw1(call)
  <2>1. call.function = "withdraw1" /\ call.args = WithdrawArgs(proof) /\ "nullifiers" \in DOMAIN proof
        /\ Len(proof.nullifiers) = 1
    BY <1>6 DEF BuiltWithdraw1
  <2> QED
    BY <1>4, <2>1
<1>7. CASE BuiltPartial(call)
  <2>1. call.function = "withdrawPartial1" /\ call.args = PartialArgs(proof) /\ "outCommitment" \in DOMAIN proof
    BY <1>7 DEF BuiltPartial
  <2>2. proof.circuit = "withdraw_partial"
    BY <1>2, <2>1 DEF ProofFile
  <2>3. ValueOf(call) = 0
    BY <2>1 DEF ValueOf
  <2>4. EncodeCallFromBuildJson(call) = EncodeWithdrawPartial1Calldata(call.args)
        /\ PyEncodeCallFromBuildJson(call) = EncodeWithdrawPartial1Calldata(call.args)
    BY <2>1, SameEncoders DEF EncodeCallFromBuildJson, PyEncodeCallFromBuildJson
  <2> QED
    BY <1>1, <2>1, <2>2, <2>3, <2>4, PartialCarries
<1>8. CASE BuiltPost(call)
  <2> DEFINE function == IF proof.circuit = "value_bound_dev" THEN "postValueBoundProof"
                         ELSE "postOwnershipProof"
  <2>1. proof.circuit \in Attestations /\ call.function = function /\ call.args = PostArgs(proof)
    BY <1>8 DEF BuiltPost
  <2>2. ValueOf(call) = 0 /\ ~PyEncodable(call)
        /\ EncodeCallFromBuildJson(call) = EncodePostGroth16WithPublics(function, call.args)
    BY <2>1 DEF ValueOf, PyEncodable, EncodeCallFromBuildJson
  <2> QED
    BY <1>1, <2>1, <2>2, PostCarries
<1> QED
  BY <1>1, <1>3, <1>5, <1>6, <1>7, <1>8 DEF Built

LEMMA CallStep == CallInv /\ [CallNext]_callVars => CallInv'
<1> SUFFICES ASSUME CallInv, [CallNext]_callVars PROVE CallInv'
  OBVIOUS
<1> DEFINE Good(c) == proof' = proof /\ native' = native /\ sent' = sent /\ call' = c
           Sent(tx) == proof' = proof /\ native' = native /\ call' = call /\ sent' = sent \cup {tx}
<1>1. proof \in ProofFiles /\ (call = NoCall \/ Built(call)) /\ \A tx \in sent : Carries(tx)
  BY DEF CallInv, CallsCarryTheProof, Carries
<1>2. ProofFile(proof)
  BY <1>1, CalldataAssumption
<1>3. ASSUME NEW c, Good(c), Built(c) PROVE CallInv'
  <2>1. proof' = proof /\ native' = native /\ sent' = sent /\ call' = c
    BY <1>3
  <2>2. (proof \in ProofFiles)' /\ CallsCarryTheProof'
    BY <2>1 DEF CallInv, CallsCarryTheProof
  <2>3. Built(c)'
    BY <1>3, <2>1 DEF Built, BuiltDeposit, BuiltWithdraw, BuiltWithdraw1, BuiltPartial, BuiltPost,
                      DepositArgs, WithdrawArgs, PartialArgs, PostArgs
  <2>4. Built(call)'
    BY <2>1, <2>3
  <2> QED
    BY <2>2, <2>4 DEF CallInv
<1>4. ASSUME NEW tx, Sent(tx), Carries(tx) PROVE CallInv'
  <2>1. proof' = proof /\ native' = native /\ call' = call /\ sent' = sent \cup {tx}
    BY <1>4
  <2>2. (proof \in ProofFiles)' /\ (call = NoCall \/ Built(call))'
    BY <1>1, <2>1 DEF Built, BuiltDeposit, BuiltWithdraw, BuiltWithdraw1, BuiltPartial, BuiltPost,
                      DepositArgs, WithdrawArgs, PartialArgs, PostArgs
  <2>3. \A u \in sent' : Carries(u)'
    BY <1>1, <1>4, <2>1 DEF Carries
  <2>4. CallsCarryTheProof'
    BY <2>3 DEF CallsCarryTheProof, Carries
  <2> QED
    BY <2>2, <2>4 DEF CallInv
<1> HIDE DEF Good, Sent
<1>5. ASSUME NEW note \in NoteFiles, BuildDeposit(note) PROVE CallInv'
  <2> DEFINE c == [function |-> "deposit", args |-> DepositArgs(proof, note)]
  <2>1. Good(c) /\ BuiltDeposit(c)
    BY <1>5 DEF BuildDeposit, BuiltDeposit, File, Good
  <2> QED
    BY <1>3, <2>1 DEF Built
<1>6. ASSUME NEW note \in NoteFiles, WebDeposit(note) PROVE CallInv'
  <2> DEFINE a == DepositArgs(proof, note)
             c == [function |-> "deposit", args |-> a]
             tx == [data |-> EncodeDepositCalldata(a), value |-> ValueOf(c)]
  <2>1. proof.publicSignals = <<note.commitment, note.value>> /\ Sent(tx)
    BY <1>6, SameEncoders DEF WebDeposit, Send, Sent
  <2>2. proof.publicSignals[1] = note.commitment /\ proof.publicSignals[2] = note.value
    BY <2>1
  <2>3. ValueOf(c) = (IF native THEN a.amount ELSE 0)
    BY DEF ValueOf
  <2>4. Carries(tx)
    BY <1>1, <2>2, <2>3, DepositCarries
  <2> QED
    BY <1>4, <2>1, <2>4
<1>7. CASE BuildWithdraw
  <2> DEFINE c == [function |-> "withdraw", args |-> WithdrawArgs(proof)]
  <2>1. Good(c) /\ BuiltWithdraw(c)
    BY <1>7 DEF BuildWithdraw, BuiltWithdraw, File, Good
  <2> QED
    BY <1>3, <2>1 DEF Built
<1>8. CASE BuildWithdraw1
  <2> DEFINE c == [function |-> "withdraw1", args |-> WithdrawArgs(proof)]
  <2>1. Good(c) /\ BuiltWithdraw1(c)
    BY <1>8 DEF BuildWithdraw1, BuiltWithdraw1, File, Good
  <2> QED
    BY <1>3, <2>1 DEF Built
<1>9. CASE BuildWithdrawPartial
  <2> DEFINE c == [function |-> "withdrawPartial1", args |-> PartialArgs(proof)]
  <2>1. Good(c) /\ BuiltPartial(c)
    <3>1. Good(c)
      BY <1>9 DEF BuildWithdrawPartial, File, Good
    <3>2. BuiltPartial(c)
      BY <1>9, Zenon DEF BuildWithdrawPartial, BuiltPartial
    <3> QED
      BY <3>1, <3>2
  <2> QED
    BY <1>3, <2>1 DEF Built
<1>10. CASE AnchorBuild
  <2> DEFINE c == [function |-> IF proof.circuit = "value_bound_dev" THEN "postValueBoundProof"
                                ELSE "postOwnershipProof",
                   args |-> PostArgs(proof)]
  <2>1. Good(c) /\ BuiltPost(c)
    BY <1>10 DEF AnchorBuild, BuiltPost, File, Good
  <2> QED
    BY <1>3, <2>1 DEF Built
<1>11. CASE PyBuild
  BY <1>5, <1>7, <1>8, <1>9, <1>11 DEF PyBuild
<1>12. CASE SendCall
  <2> DEFINE tx == [data |-> EncodeCallFromBuildJson(call), value |-> ValueOf(call)]
  <2>1. Encodable(call) /\ Sent(tx)
    BY <1>12 DEF SendCall, Send, Sent
  <2>2. Carries(tx)
    BY <2>1, SentCarries
  <2> QED
    BY <1>4, <2>1, <2>2
<1>13. CASE PySendCall
  <2> DEFINE tx == [data |-> PyEncodeCallFromBuildJson(call), value |-> ValueOf(call)]
  <2>1. PyEncodable(call) /\ Encodable(call) /\ Sent(tx)
    BY <1>13 DEF PySendCall, PyEncodable, Send, Sent
  <2>2. Carries(tx)
    BY <2>1, SentCarries
  <2> QED
    BY <1>4, <2>1, <2>2
<1>14. CASE WebWithdraw
  <2> DEFINE a == WithdrawArgs(proof)
             W(function) == [data |-> Calls(function, LayWithdraw(6, HeadOf6(a), a)), value |-> 0]
             P == [data |-> EncodeWithdrawPartial1Calldata(PartialArgs(proof)), value |-> 0]
  <2>1. \/ proof.circuit = "withdraw" /\ Sent(W("withdraw"))
        \/ proof.circuit = "withdraw_1in" /\ Sent(W("withdraw1"))
        \/ proof.circuit = "withdraw_partial" /\ Sent(P)
    BY <1>14, SameEncoders DEF WebWithdraw, Send, Sent
  <2>2. CASE proof.circuit = "withdraw" /\ Sent(W("withdraw"))
    <3>1. Carries(W("withdraw"))
      BY <1>1, <2>2, WithdrawCarries DEF Withdrawals
    <3> QED
      BY <1>4, <2>2, <3>1
  <2>3. CASE proof.circuit = "withdraw_1in" /\ Sent(W("withdraw1"))
    <3>1. Carries(W("withdraw1"))
      BY <1>1, <2>3, WithdrawCarries DEF Withdrawals
    <3> QED
      BY <1>4, <2>3, <3>1
  <2>4. CASE proof.circuit = "withdraw_partial" /\ Sent(P)
    <3>1. Carries(P)
      BY <1>1, <2>4, PartialCarries
    <3> QED
      BY <1>4, <2>4, <3>1
  <2> QED
    BY <2>1, <2>2, <2>3, <2>4
<1>15. CASE WebPost
  <2> DEFINE function == IF proof.circuit = "value_bound_dev" THEN "postValueBoundProof"
                         ELSE "postOwnershipProof"
             tx == [data |-> EncodePostGroth16WithPublics(function, PostArgs(proof)), value |-> 0]
  <2>1. proof.circuit \in Attestations /\ Sent(tx)
    BY <1>15, SameEncoders DEF WebPost, Send, Sent, Attestations
  <2>2. Carries(tx)
    BY <1>1, <2>1, PostCarries
  <2> QED
    BY <1>4, <2>1, <2>2
<1>16. CASE UNCHANGED callVars
  <2>1. proof' = proof /\ native' = native /\ call' = call /\ sent' = sent
    BY <1>16 DEF callVars
  <2>2. (proof \in ProofFiles)' /\ (call = NoCall \/ Built(call))'
    BY <1>1, <2>1 DEF Built, BuiltDeposit, BuiltWithdraw, BuiltWithdraw1, BuiltPartial, BuiltPost,
                      DepositArgs, WithdrawArgs, PartialArgs, PostArgs
  <2>3. CallsCarryTheProof'
    BY <1>1, <2>1 DEF CallsCarryTheProof, Carries
  <2> QED
    BY <2>2, <2>3 DEF CallInv
<1> QED
  BY <1>5, <1>6, <1>7, <1>8, <1>9, <1>10, <1>11, <1>12, <1>13, <1>14, <1>15, <1>16 DEF CallNext

THEOREM CallsCarry == CallSpec => []CallsCarryTheProof
<1>1. CallInit => CallInv
  BY DEF CallInit, CallInv, CallsCarryTheProof
<1>2. CallInv => CallsCarryTheProof
  BY DEF CallInv
<1> QED
  BY <1>1, <1>2, CallStep, PTL DEF CallSpec

-----------------------------------------------------------------------------
(* A pool of a token.                                                        *)

VARIABLES tokenPool, tokenStack

Token == INSTANCE ShieldedPool_proofs
           WITH Native <- FALSE, ROOT_HISTORY_SIZE <- 2, TreeCapacity <- 2,
                FEE_DENOMINATOR <- 3, depositFeePpm <- 1, withdrawFeePpm <- 1,
                gasRebateWei <- 1, AmountLimit <- 4, Notes <- {"n1"}, NoNote <- "none",
                Amounts <- 0 .. 3, Recipients <- {"other", "pool"},
                MaxNesting <- 2, MaxGasReserve <- 1, MaxSurplus <- 1,
                pool <- tokenPool, stack <- tokenStack

(* The token pool holds exactly the tokens of its unspent notes and of the   *)
(* calls in progress, with reentrancy from the relayer's ETH rebate only.    *)
TokensAreWhatIsOwed == Token!HoldsWhatItOwes

(***************************************************************************)
(* That pool is an instance of the one of which SolventThroughout is       *)
(* proved, for every asset and any values of the constants.                *)
(***************************************************************************)
THEOREM TokenPoolSolvent == Token!Spec => []TokensAreWhatIsOwed
<1>1. Token!PoolAssumption
  BY DEF Token!PoolAssumption
<1>2. Token!Spec => []Token!HoldsWhatItOwes
  BY <1>1, Token!SolventThroughout, PTL
<1> QED
  BY <1>2 DEF TokensAreWhatIsOwed
=============================================================================
