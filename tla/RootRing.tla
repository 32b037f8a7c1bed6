------------------------------ MODULE RootRing ------------------------------
(***************************************************************************)
(* The ring of recent Merkle roots that ShieldedPool.sol keeps in          *)
(* _rootHistory, _knownRootOccurrences and rootHistoryTotalRecorded, as    *)
(* operators on one record, so that RootHistory can study the ring alone   *)
(* and ShieldedPool can keep one inside its storage.                       *)
(*                                                                         *)
(* occurrences ranges over Int although the contract counts in uint256:    *)
(* the decrement is `unchecked`, so that it never goes below zero is       *)
(* something to show (see RootHistory), not to assume.                     *)
(***************************************************************************)
EXTENDS Integers

CONSTANTS
  ROOT_HISTORY_SIZE,  \* the number of slots, 64 in the contract
  Roots,              \* the Merkle roots that may be recorded
  NoRoot              \* what an unwritten slot holds, bytes32(0)

ASSUME RingSizeAssumption == ROOT_HISTORY_SIZE \in Nat \ {0}
ASSUME NoRootAssumption   == NoRoot \notin Roots

Slots == 0 .. ROOT_HISTORY_SIZE - 1

Rings == [slots       : [Slots -> Roots \union {NoRoot}],
          occurrences : [Roots -> Int],
          total       : Nat]

EmptyRing == [slots       |-> [s \in Slots |-> NoRoot],
              occurrences |-> [r \in Roots |-> 0],
              total       |-> 0]

(* Mutant of SlotOf: the slot of the next record. *)
SlotOfNext(total) == (total + 1) % ROOT_HISTORY_SIZE

SlotOf(total) == total % ROOT_HISTORY_SIZE

(* Mutant of Evicts: off by one when the ring becomes full. *)
EvictsLate(ring) == ring.total > ROOT_HISTORY_SIZE

(* From the SIZE-th record on, every record overwrites a slot in use. *)
Evicts(ring) == ring.total >= ROOT_HISTORY_SIZE

Release(occurrences, root) == [occurrences EXCEPT ![root] = @ - 1]

(* _recordRoot: release the root the slot held, if any, then write the slot. *)
RecordRoot(ring, root) ==
  LET slot == SlotOf(ring.total)
      kept == IF Evicts(ring)
                THEN Release(ring.occurrences, ring.slots[slot])
                ELSE ring.occurrences
  IN  [slots       |-> [ring.slots EXCEPT ![slot] = root],
       occurrences |-> [kept EXCEPT ![root] = @ + 1],
       total       |-> ring.total + 1]

IsKnownRoot(ring, root) == ring.occurrences[root] # 0

RootHistoryLength(ring) ==
  IF ring.total < ROOT_HISTORY_SIZE THEN ring.total ELSE ROOT_HISTORY_SIZE

OldestSlot(ring) ==
  IF ring.total <= ROOT_HISTORY_SIZE THEN 0 ELSE SlotOf(ring.total)

(* The retained root of a given age, for index < RootHistoryLength(ring);  *)
(* 0 is the oldest.                                                        *)
RootHistoryAt(ring, index) ==
  ring.slots[(OldestSlot(ring) + index) % ROOT_HISTORY_SIZE]
=============================================================================
