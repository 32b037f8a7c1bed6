---------------------------- MODULE PythonClient ----------------------------
(* The Python client, packages/python-client, at work on the files of the   *)
(* command line client, and next to it.  It reads and writes the note store *)
(* and the public state itself, and has ap.mjs do what needs a proof, a     *)
(* sealed file or calldata (js_bridge.run_js_cli): those commands are the   *)
(* steps of CliWallet, under the names this client gives its files.         *)
EXTENDS CliWallet

Py(cmd) == Typed("python") /\ Typed(cmd)

\* A nullifier names a commitment at a leaf.
PyIsNullifierSpent(c, leaf) == <<c, leaf>> \in spent

-----------------------------------------------------------------------------
(* Notes.                                                                   *)

PyNoteCreate == Py("create") /\ \E c \in Notes : AddNotes(<<c>>)

\* One command writes several notes, each by a read and a write of its own.
PyParts(s, count) ==
    /\ Starts(s, "python") /\ Apart
    /\ Len(notes) + count <= MaxNotes
    /\ jobs' = [jobs EXCEPT ![s] = [cmd |-> "parts", left |-> count]]
    /\ UNCHANGED <<use, made, files, state, docs, chain>>

PyNoteSuggestSplit(s) == Py("split") /\ PyParts(s, 2)

\* A note for the amount asked for, and one for the change if there is any.
PyNoteDistribute(s) == Py("distribute") /\ \E count \in 1..2 : PyParts(s, count)

\* create_note draws secrets nobody has.
PyFreshNotes == {Record(c, NoLeaf) : c \in Notes \ made}

PyAppendNote(s) ==
    LET job == jobs[s] IN
    /\ job.cmd = "parts" /\ Len(notes) < MaxNotes
    /\ \E note \in PyFreshNotes :
          /\ made' = made \cup {note.c}
          /\ notes' = Append(notes, note)
    /\ jobs' = [jobs EXCEPT ![s] = IF job.left = 1 THEN Idle ELSE [job EXCEPT !.left = @ - 1]]
    /\ UNCHANGED <<use, changes, sealed, backup, apnote, state, docs, chain>>

\* Unless told otherwise every note goes to one file, incoming.apsealed.
PyNoteDeliver(i, remove) == Py("deliver") /\ DeliverAs(0, i, remove)

PyNoteAccept(s) ==
    Typed("python") /\ \E e \in sealed, source \in Sources : NoteAccept(s, e, source)
PyNoteMailboxScan(s) ==
    /\ Typed("python")
    /\ \E envelopes \in SetToSeqs(sealed), source \in Sources :
          NoteMailboxScan(s, envelopes, source)

-----------------------------------------------------------------------------
(* The scan and the public state.                                           *)

\* fetch_public_pool_snapshot asks for each leaf the anchor counted.
PySnapshot(count) == [i \in 1..count |-> leaves[i]]

PyFindCommitmentIndex(commitments, c) ==
    LET at == {i \in DOMAIN commitments : commitments[i] = c}
    IN  IF at = {} THEN NoLeaf ELSE Min(at)

PyNoteScan(s, source) ==
    /\ Py("scan") /\ Starts(s, "scan") /\ Apart
    /\ source # "none"
    /\ jobs' = [jobs EXCEPT ![s] =
         StoreJob("pyscan", source, notes, [i \in DOMAIN notes |-> i])]
    /\ UNCHANGED <<use, made, files, state, docs, chain>>

PyScanState(s) ==
    LET job == jobs[s] IN
    /\ job.cmd = "pyscan" /\ job.snap = NoDoc
    /\ jobs' = [jobs EXCEPT ![s].snap =
                  IF job.source = "state" THEN state ELSE PySnapshot(Len(leaves))]
    /\ UNCHANGED <<use, made, files, state, docs, chain>>

\* A note that is marked or has no leaf is passed over.
PyScanNote(s) ==
    LET job == jobs[s]
        i == Head(job.todo)
        note == job.mem[i]
        leaf == IF note.leaf # NoLeaf THEN note.leaf
                ELSE PyFindCommitmentIndex(job.snap, note.c)
        hint == IF PyIsNullifierSpent(note.c, leaf) THEN "spent" ELSE "unspent"
    IN  /\ job.cmd = "pyscan" /\ job.snap # NoDoc /\ job.todo # <<>>
        /\ jobs' = [jobs EXCEPT
             ![s].todo = Tail(job.todo),
             ![s].mem[i] = IF note.hint = "spent" \/ leaf = NoLeaf THEN note
                           ELSE [note EXCEPT !.hint = hint, !.leaf = leaf]]
        /\ UNCHANGED <<use, made, files, state, docs, chain>>

PyStateInit == Typed("python") /\ StateInit

\* As in ap.mjs the state is written before the note is compared with it.
PyStateAppend(c, i) == Typed("python") /\ StateAppend(c, i)

PyStateFetch(s) ==
    /\ Py("fetch") /\ Starts(s, "fetch")
    /\ jobs' = [jobs EXCEPT ![s] = [cmd |-> "pyfetch", anchor |-> leaves]]
    /\ UNCHANGED <<use, made, files, state, docs, chain>>

PyWriteState(s) ==
    LET job == jobs[s] IN
    /\ job.cmd = "pyfetch"
    /\ PySnapshot(Len(job.anchor)) = job.anchor
    /\ state' = PySnapshot(Len(job.anchor))
    /\ jobs' = [jobs EXCEPT ![s] = Idle]
    /\ UNCHANGED <<use, made, files, docs, chain>>

PyStateBindNote(i) ==
    LET leaf == PyFindCommitmentIndex(state, notes[i].c) IN
    /\ Py("bind") /\ Apart
    /\ leaf # NoLeaf
    /\ notes' = [notes EXCEPT ![i].leaf = leaf]
    /\ UNCHANGED <<use, made, changes, sealed, backup, apnote, state, docs, chain, jobs>>

-----------------------------------------------------------------------------
(* Proofs, calls and transactions.  Transfers are refused.                  *)

PyProveDeposit(s, i) == Typed("python") /\ ProveDeposit(s, i)
PyProveWithdraw1(s, i) == Typed("python") /\ ProveWithdraw1(s, i)
PyProveWithdraw(s, i, j) == Typed("python") /\ ProveWithdraw(s, i, j)
PyProveWithdrawPartial(s, i, change) == Typed("python") /\ ProveWithdrawPartial(s, i, change)
PyBuild(kind) == Typed("python") /\ Build(kind)

\* A transaction that reverts or times out ends the command; it may still land.
PySendCall(kind) == Typed("python") /\ SendCall(kind)

-----------------------------------------------------------------------------

PyAtOnce ==
    \/ PyNoteCreate
    \/ \E i \in DOMAIN notes : \E remove \in BOOLEAN : PyNoteDeliver(i, remove)
    \/ PyStateInit
    \/ \E c \in Range(leaves) \ Range(state), i \in 1..MaxNotes : PyStateAppend(c, i)
    \/ \E i \in DOMAIN notes : PyStateBindNote(i)
    \/ \E kind \in Kinds : PyBuild(kind) \/ PySendCall(kind)

PyJob(s) ==
    \/ PyNoteSuggestSplit(s) \/ PyNoteDistribute(s) \/ PyAppendNote(s)
    \/ PyNoteAccept(s) \/ PyNoteMailboxScan(s)
    \/ \E source \in Sources : PyNoteScan(s, source)
    \/ PyScanState(s) \/ PyScanNote(s)
    \/ PyStateFetch(s) \/ PyWriteState(s)
    \/ \E i \in DOMAIN notes :
          \/ PyProveDeposit(s, i)
          \/ PyProveWithdraw1(s, i)
          \/ \E j \in DOMAIN notes : PyProveWithdraw(s, i, j)
          \/ \E change \in Notes : PyProveWithdrawPartial(s, i, change)

PyNext == PyAtOnce \/ \E s \in Slots : PyJob(s)

BothNext == Next \/ PyNext
BothSpec == Init /\ [][BothNext]_vars
=============================================================================
