---------------------------- MODULE MCOperations ----------------------------
(***************************************************************************)
(* Four parts that share no state, checked in one run: the deployment      *)
(* (DeployMainnet), the registry of attestations (AttestationAnchor), the  *)
(* key ceremony (Ceremony) and the files that disclose notes (Disclosure). *)
(* A behaviour is one of them, which `part` says.                          *)
(***************************************************************************)
EXTENDS DeployMainnet, AttestationAnchor, Ceremony, Disclosure

VARIABLE part

allVars == <<vars, anchorVars, keysVars, disclosureVars, part>>

DeployPart == part = "deploy" /\ Next /\ UNCHANGED <<anchorVars, keysVars, disclosureVars, part>>
AnchorPart == part = "anchor" /\ AnchorNext /\ UNCHANGED <<vars, keysVars, disclosureVars, part>>
KeyPart == part = "keys" /\ KeysNext /\ UNCHANGED <<vars, anchorVars, disclosureVars, part>>
PaperPart == part = "paper" /\ DisclosureNext /\ UNCHANGED <<vars, anchorVars, keysVars, part>>

OperationsInit ==
  /\ Init /\ AnchorInit /\ KeysInit /\ DisclosureInit
  /\ \/ part = "deploy"
     \/ part \in {"anchor", "keys", "paper"} /\ ~outlive
  /\ part # "paper" => "incoming" \in topic.kinds

OperationsNext == DeployPart \/ AnchorPart \/ KeyPart \/ PaperPart

OperationsSpec == OperationsInit /\ [][OperationsNext]_allVars

-----------------------------------------------------------------------------
(* Values. *)

\* a deployment of the script's shape: one circuit, two assets
OneCircuit == <<"deposit">>
TwoAssets  == <<"eth", "dai">>

\* one of the two proof kinds has a proof file that verifies
Verifies == {<<"value_bound_dev", "claim">>}

\* two of the four circuits whose keys the ceremony makes
TwoCircuits == <<"deposit", "withdraw">>

\* Two notes; five groups of kinds of files are about each other.  What is
\* typed: the claims of the notes, and of one another leaf and another value;
\* of proofs what is true of one note, and things that are not.
Worths == [n \in {"n1", "n2"} |-> IF n = "n1" THEN 3 ELSE 0]
Places == [n \in {"n1", "n2"} |-> IF n = "n1" THEN 0 ELSE 1]
OfN1(worth, leaf) == [c |-> "n1", worth |-> worth, leaf |-> leaf]
ClaimsOfBoth ==
    {OfN1(3, 0), OfN1(3, -1), OfN1(3, 1), OfN1(0, 0), [c |-> "n2", worth |-> 0, leaf |-> 1]}
SignalsTyped ==
    {[c |-> "n1", worth |-> 3], [c |-> "n2", worth |-> 3],
     [c |-> "n1", threshold |-> 3], [c |-> "n1", threshold |-> 4],
     [c |-> "n2", threshold |-> 3]}
Group(kinds, notes, claims, room) ==
    [kinds |-> kinds, notes |-> notes, claims |-> claims, room |-> room]
TopicsOfFiles ==
    {Group({"reveal", "incoming"}, {"n1"}, ClaimsOfBoth, 6),
     Group({"viewkey", "reveal", "stub"}, {"n1", "n2"}, ClaimsOfBoth, 3),
     Group({"view", "receipt", "viewkey"}, {"n1", "n2"},
           {OfN1(3, 0), OfN1(3, -1), [c |-> "n2", worth |-> 0, leaf |-> 1]}, 4),
     Group({"receipt", "viewkey"}, {"n1"}, {OfN1(3, 1), OfN1(0, 0)}, 5),
     Group({"ownership", "bound"}, {"n1", "n2"}, {}, 3)}

\* What the proofs about Ceremony and Disclosure assume of their constants.
ASSUME KeyNames == CircuitsNamed
ASSUME PaperNames == NamesApart
=============================================================================
