---------------------------- MODULE RootHistory -----------------------------
(***************************************************************************)
(* The root history of ShieldedPool.sol on its own: roots are recorded in  *)
(* any order and any number of times, as the contract's counter of         *)
(* occurrences provides for, and the two lookups are compared with the     *)
(* plain list of everything recorded.                                      *)
(***************************************************************************)
EXTENDS RootRing, Sequences, FiniteSets

CONSTANT MaxRecords  \* bound of the model: records per behaviour

VARIABLES
  ring,     \* the contract's storage
  recorded  \* every root recorded so far, oldest first (history variable)

historyVars == <<ring, recorded>>

HistoryInit ==
  /\ ring = EmptyRing
  /\ recorded = <<>>

Record(root) ==
  /\ ring.total < MaxRecords
  /\ ring' = RecordRoot(ring, root)
  /\ recorded' = Append(recorded, root)

HistoryNext == \E root \in Roots : Record(root)

HistorySpec == HistoryInit /\ [][HistoryNext]_historyVars

-----------------------------------------------------------------------------

(* The ring has the shape of the contract's storage and counts the records. *)
HistoryTypeOK ==
  /\ ring \in Rings
  /\ recorded \in Seq(Roots)
  /\ ring.total = Len(recorded)

SlotsHolding(root) ==
  {s \in Slots : s < ring.total /\ ring.slots[s] = root}

(***************************************************************************)
(* The counter of a root is the number of written slots that hold it, for  *)
(* roots recorded again while retained too.  In particular the unchecked   *)
(* decrement in _recordRoot never wraps.                                   *)
(***************************************************************************)
OccurrencesCountSlots ==
  \A root \in Roots : ring.occurrences[root] = Cardinality(SlotsHolding(root))

(* The indices of the records that a window of SIZE records still retains. *)
Retained ==
  {k \in 1 .. Len(recorded) : k > Len(recorded) - ROOT_HISTORY_SIZE}

(***************************************************************************)
(* isKnownRoot accepts a root exactly when one of the last SIZE records is *)
(* that root: a withdrawal is never refused a root that is recent enough,  *)
(* nor granted one that was evicted.                                       *)
(***************************************************************************)
KnownExactlyWhenRetained ==
  \A root \in Roots :
    IsKnownRoot(ring, root) <=> \E k \in Retained : recorded[k] = root

(***************************************************************************)
(* rootHistoryAt lists the retained roots from the oldest to the newest,   *)
(* across the point where the ring wraps.                                  *)
(***************************************************************************)
HistoryOldestFirst ==
  \A index \in 0 .. RootHistoryLength(ring) - 1 :
    RootHistoryAt(ring, index)
      = recorded[Len(recorded) - RootHistoryLength(ring) + 1 + index]

(***************************************************************************)
(* The ring implements the abstract window: read through rootHistoryAt and *)
(* isKnownRoot, it behaves as RecentRoots.                                 *)
(***************************************************************************)
Window == [i \in 1 .. RootHistoryLength(ring) |-> RootHistoryAt(ring, i - 1)]

Abstract == INSTANCE RecentRoots
              WITH window <- Window,
                   known  <- {root \in Roots : IsKnownRoot(ring, root)}

ImplementsRecentRoots == Abstract!Spec
=============================================================================
