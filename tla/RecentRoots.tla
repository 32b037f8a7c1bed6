---------------------------- MODULE RecentRoots -----------------------------
(***************************************************************************)
(* What a root history promises to the pool and to its clients, with no    *)
(* ring: the last ROOT_HISTORY_SIZE recorded roots, oldest first, and a    *)
(* root is known exactly when it is one of them.                           *)
(***************************************************************************)
EXTENDS Naturals, Sequences

CONSTANTS ROOT_HISTORY_SIZE, Roots

VARIABLES
  window,  \* the retained roots, oldest first
  known    \* the roots a withdrawal may be proved against

vars == <<window, known>>

TypeOK ==
  /\ window \in Seq(Roots)
  /\ known \subseteq Roots

Init ==
  /\ window = <<>>
  /\ known = {}

LastN(s, n) == IF Len(s) <= n THEN s ELSE SubSeq(s, Len(s) - n + 1, Len(s))

Record(root) ==
  /\ window' = LastN(Append(window, root), ROOT_HISTORY_SIZE)
  /\ known' = {window'[i] : i \in DOMAIN window'}

Next == \E root \in Roots : Record(root)

Spec == Init /\ [][Next]_vars
=============================================================================
