---------------------------- MODULE MCCliWallet ----------------------------
(* Ways of using the command line client and the Python client, small       *)
(* enough to explore: what is typed, how many commands run at a time, how   *)
(* many leaves there may be.  Where "python" is typed both clients are used.*)
EXTENDS PythonClient

CONSTANT x   \* a commitment of somebody else

Use(cmds, together, room, careful) ==
    [cmds |-> cmds, together |-> together, leaves |-> room, others |-> {},
     apart |-> careful, merge |-> careful, own |-> careful]

\* Partial withdrawals, whose change notes go to files of their own.
Changing ==
    [Use({"create", "deposit", "fetch", "bind", "partial", "import", "export"}, 1, 2, TRUE)
        EXCEPT !.others = {x}]
\* Notes handed over while their deposits are under way.
Sending == Use({"create", "deposit", "deliver", "accept"}, 1, 3, TRUE)
\* Two notes spent at once.
Merging == Use({"split", "deposit", "withdraw", "fetch"}, 1, 3, TRUE)
\* Commands that overlap a scan while a note is deposited and spent.
Overlapping ==
    Use({"create", "deposit", "withdraw1", "fetch", "scan", "deliver"}, 1, 1, FALSE)
\* Notes handed over, restored and replaced, in any order.
Handing == Use({"distribute", "deliver", "accept", "mailbox", "backup", "restore"}, 2, 0, FALSE)
\* The public state kept by hand.
ByHand == [Use({"create", "deposit", "append", "bind", "init"}, 1, 3, TRUE) EXCEPT !.others = {x}]
\* The two clients, one command at a time, from the note to its mark.
InTurn == Use({"python", "create", "deposit", "withdraw1", "fetch", "scan", "bind"}, 1, 1, TRUE)
\* Two notes of which one is spent in part, or both at once.
Spending ==
    Use({"python", "split", "create", "deposit", "withdraw", "partial", "fetch"}, 1, 2, TRUE)
\* Commands of both clients that overlap.
SideBySide == Use({"python", "split", "scan", "deliver"}, 2, 0, FALSE)
PyHanding == Use({"python", "distribute", "deliver", "accept", "mailbox"}, 1, 0, FALSE)
PyByHand ==
    [Use({"python", "create", "deposit", "append", "bind", "init"}, 1, 2, TRUE)
        EXCEPT !.others = {x}]

CliSymmetry == Permutations(Slots) \cup Permutations(Notes)
CliUses == {Changing, Sending, Merging, Overlapping, Handing, ByHand,
            InTurn, Spending, SideBySide, PyHanding, PyByHand}
HandUses == {ByHand}
=============================================================================
