----------------------------- MODULE NoteLedger -----------------------------
(***************************************************************************)
(* What a shielded pool promises the holders of its notes, with no calls,  *)
(* proofs, roots or nullifiers: a list of notes that only grows, the set   *)
(* of those redeemed, which only grows too, and a vault that at every      *)
(* commit changes by exactly what was minted less what was redeemed.       *)
(***************************************************************************)
EXTENDS Integers, Sequences, FiniteSets, SequencesExt

CONSTANT Capacity  \* how many notes the ledger can ever list

VARIABLES
  notes,     \* every note minted, in order: records with a value
  redeemed,  \* the indices of the notes redeemed
  vault      \* the value held for the others

vars == <<notes, redeemed, vault>>

TypeOK ==
  /\ Len(notes) <= Capacity
  /\ redeemed \subseteq DOMAIN notes
  /\ vault \in Nat

ValueOf(list, indices) == MapThenSumSet(LAMBDA i : list[i].value, indices)

Init ==
  /\ notes = <<>>
  /\ redeemed = {}
  /\ vault = 0

(* One transaction: any number of notes minted and redeemed together.  A   *)
(* note may be minted and redeemed by the same transaction, none twice.    *)
Commit ==
  /\ IsPrefix(notes, notes')
  /\ Len(notes') <= Capacity
  /\ redeemed \subseteq redeemed'
  /\ redeemed' \subseteq DOMAIN notes'
  /\ vault' = vault + ValueOf(notes', DOMAIN notes' \ DOMAIN notes)
                    - ValueOf(notes', redeemed' \ redeemed)

Spec == Init /\ [][Commit]_vars
=============================================================================
