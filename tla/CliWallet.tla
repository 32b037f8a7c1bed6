----------------------------- MODULE CliWallet -----------------------------
(* The command line client, packages/cli/bin/ap.mjs.  Every command is a    *)
(* process of its own that works on files: the note store (notes.json), the *)
(* public state, proofs, call files, sealed envelopes, backups.  A command  *)
(* that waits for the network or for a proof between reading and writing a  *)
(* file is a job of several steps here; one that does not is a single step. *)
(* A file that does not exist reads as the empty one, which every command   *)
(* that needs its content refuses as well.  A commitment stands for its     *)
(* note's secrets, the sequence of commitments of a state for its root.     *)
(* Values, fees and amounts are left out: createNote draws fresh secrets,   *)
(* so a commitment belongs to one note.                                     *)
EXTENDS Naturals, Sequences, FiniteSets, SequencesExt

CONSTANTS Notes,      \* commitments this client may create
          Slots,      \* commands that may run at the same time
          Uses,       \* the ways of using the client that are explored
          MaxNotes,   \* bound: records in the note store
          NoLeaf, NoDoc

\* Others draw secrets of their own.
ASSUME CliAssumption ==
    NoDoc \notin Notes /\ \A u \in Uses : u.others \cap Notes = {}

VARIABLES
    use,      \* which commands are typed, how carefully, and the bounds; fixed
    made,     \* commitments created so far
    notes,    \* notes.json: records in order
    changes,  \* change note files
    sealed,   \* incoming_note_*.apsealed
    backup,   \* backup.apbackup: records
    apnote,   \* note.apnote: records
    state,    \* public_state.json: its commitments
    proofs,   \* proof file of each kind
    calls,    \* call file of each kind
    leaves, spent, pending,   \* the pool, and what was sent to it
    jobs      \* what each running command has in memory

files == <<notes, changes, sealed, backup, apnote>>
docs == <<proofs, calls>>
chain == <<leaves, spent, pending>>
vars == <<use, made, files, state, docs, chain, jobs>>

Kinds == {"deposit", "withdraw1", "withdraw", "partial"}
Record(c, leaf) == [c |-> c, leaf |-> leaf, hint |-> "unspent"]
Commitments(records) == {records[i].c : i \in DOMAIN records}
File(name, c, leaf) == [name |-> name, c |-> c, leaf |-> leaf]

\* Writing a file replaces what was there under that name.
Written(dir, file) == {f \in dir : f.name # file.name} \cup {file}

\* Mutant of LeafOf: the leaf that came last, as after an append.
LeafOfLatest(commitments, c) ==
    IF c \in Range(commitments) THEN Len(commitments) ELSE NoLeaf

\* findCommitmentIndex: the first leaf, counted from 1, or none.
LeafOf(commitments, c) ==
    IF c \in Range(commitments)
    THEN CHOOSE i \in DOMAIN commitments :
            /\ commitments[i] = c
            /\ \A j \in 1..(i - 1) : commitments[j] # c
    ELSE NoLeaf

Known(record, commitments) ==
    IF record.leaf # NoLeaf THEN record.leaf ELSE LeafOf(commitments, record.c)

Idle == [cmd |-> "none"]
Busy(s) == jobs[s] # Idle
Rewriters == {"accept", "mailbox", "scan", "pyscan"}   \* read the store first, write it last
StoreJobs == Rewriters \cup {"parts"}

\* A use that keeps commands apart starts none that rewrites the note store
\* while another one is still to write it.
Apart == use.apart => \A s \in Slots : jobs[s].cmd \notin StoreJobs
Typed(cmd) == cmd \in use.cmds
Starts(s, cmd) ==
    /\ Typed(cmd) /\ ~Busy(s)
    /\ Cardinality({t \in Slots : Busy(t)}) < use.together

Init ==
    /\ use \in Uses
    /\ made = {} /\ notes = <<>> /\ changes = {} /\ sealed = {}
    /\ backup = <<>> /\ apnote = <<>> /\ state = <<>>
    /\ proofs = [k \in Kinds |-> NoDoc] /\ calls = [k \in Kinds |-> NoDoc]
    /\ leaves = <<>> /\ spent = {} /\ pending = {}
    /\ jobs = [s \in Slots |-> Idle]

-----------------------------------------------------------------------------
(* Notes.                                                                   *)

AddNotes(new) ==
    /\ Apart
    /\ \A i, j \in DOMAIN new : new[i] \notin made /\ (new[i] = new[j] => i = j)
    /\ Len(notes) + Len(new) <= MaxNotes
    /\ made' = made \cup Range(new)
    /\ notes' = notes \o [i \in DOMAIN new |-> Record(new[i], NoLeaf)]
    /\ UNCHANGED <<use, changes, sealed, backup, apnote, state, docs, chain, jobs>>

NoteCreate == Typed("create") /\ \E c \in Notes : AddNotes(<<c>>)
NoteSuggestSplit == Typed("split") /\ \E c, d \in Notes : AddNotes(<<c, d>>)
NoteDistribute ==
    /\ Typed("distribute")
    /\ \E part, change \in Notes : AddNotes(<<part>>) \/ AddNotes(<<part, change>>)

\* The envelope is written before the record leaves the store.
DeliverAs(name, i, remove) ==
    LET note == notes[i] IN
    /\ Apart
    /\ note.hint # "spent"
    /\ sealed' = Written(sealed, File(IF use.own THEN note.c ELSE name, note.c, note.leaf))
    /\ notes' = IF remove THEN RemoveAt(notes, i) ELSE notes
    /\ UNCHANGED <<use, made, changes, backup, apnote, state, docs, chain, jobs>>

NoteDeliver(i, remove) == Typed("deliver") /\ DeliverAs(i, i, remove)

StoreJob(cmd, source, mem, todo) ==
    [cmd |-> cmd, source |-> source, mem |-> mem, todo |-> todo, snap |-> NoDoc]
Sources == {"state", "rpc", "none"}

NoteAccept(s, envelope, source) ==
    LET at == {i \in DOMAIN notes : notes[i].c = envelope.c}
        store == IF at # {} THEN notes
                 ELSE Append(notes, Record(envelope.c, envelope.leaf))
        index == CHOOSE i \in DOMAIN store : store[i].c = envelope.c
    IN  /\ Starts(s, "accept") /\ Apart
        /\ Len(store) <= MaxNotes
        /\ jobs' = [jobs EXCEPT ![s] =
             StoreJob("accept", source, store, IF source = "none" THEN <<>> ELSE <<index>>)]
        /\ UNCHANGED <<use, made, files, state, docs, chain>>

\* Mutant of Merged: what was taken a moment ago is not known yet.
MergedTwice(store, imported) ==
    store \o SelectSeq(imported, LAMBDA r : r.c \notin Commitments(store))

\* The imported records one after the other, those the store has left out.
Merged(store, imported) ==
    LET upTo[n \in 0..Len(imported)] ==
            IF n = 0 THEN store
            ELSE IF imported[n].c \in Commitments(upTo[n - 1]) THEN upTo[n - 1]
            ELSE Append(upTo[n - 1], imported[n])
    IN  upTo[Len(imported)]

\* scanIncomingMailbox: one envelope of each commitment the store lacks, in
\* the order of the directory.
Accepted(envelopes) ==
    Merged(notes, [i \in DOMAIN envelopes |-> Record(envelopes[i].c, envelopes[i].leaf)])

NoteMailboxScan(s, envelopes, source) ==
    LET store == Accepted(envelopes)
        new == [i \in 1..(Len(store) - Len(notes)) |-> Len(notes) + i]
    IN  /\ Starts(s, "mailbox") /\ Apart
        /\ new # <<>> /\ Len(store) <= MaxNotes
        /\ jobs' = [jobs EXCEPT ![s] =
             StoreJob("mailbox", source, store, IF source = "none" THEN <<>> ELSE new)]
        /\ UNCHANGED <<use, made, files, state, docs, chain>>

\* tryBindLeafForCommitment, for the next imported note.
BindLeaf(s) ==
    LET job == jobs[s]
        i == Head(job.todo)
        leaf == LeafOf(IF job.source = "state" THEN state ELSE leaves, job.mem[i].c)
    IN  /\ job.cmd \in {"accept", "mailbox"} /\ job.todo # <<>>
        /\ jobs' = [jobs EXCEPT
             ![s].todo = Tail(job.todo),
             ![s].mem[i].leaf = IF leaf # NoLeaf THEN leaf ELSE job.mem[i].leaf]
        /\ UNCHANGED <<use, made, files, state, docs, chain>>

NoteScan(s, source) ==
    /\ Starts(s, "scan") /\ Apart
    /\ source # "none"
    /\ jobs' = [jobs EXCEPT ![s] =
         StoreJob("scan", source, notes, [i \in DOMAIN notes |-> i])]
    /\ UNCHANGED <<use, made, files, state, docs, chain>>

ScanState(s) ==
    LET job == jobs[s] IN
    /\ job.cmd = "scan" /\ job.snap = NoDoc
    /\ jobs' = [jobs EXCEPT ![s].snap = IF job.source = "state" THEN state ELSE leaves]
    /\ UNCHANGED <<use, made, files, state, docs, chain>>

\* One note of the scan: a spent mark stays, a stored leaf is believed.
Scanned(record, snap) ==
    LET leaf == Known(record, snap) IN
    IF record.hint = "spent" \/ leaf = NoLeaf THEN record
    ELSE [record EXCEPT !.leaf = leaf,
                        !.hint = IF <<record.c, leaf>> \in spent THEN "spent" ELSE "unspent"]

ScanNote(s) ==
    LET job == jobs[s]
        i == Head(job.todo)
    IN  /\ job.cmd = "scan" /\ job.snap # NoDoc /\ job.todo # <<>>
        /\ jobs' = [jobs EXCEPT ![s].todo = Tail(job.todo),
                                ![s].mem[i] = Scanned(job.mem[i], job.snap)]
        /\ UNCHANGED <<use, made, files, state, docs, chain>>

\* Mutant of Rewritten: the marks alone go into the store as it is now.
RewrittenByIndex(job) ==
    [i \in DOMAIN notes |-> IF i \in DOMAIN job.mem
                            THEN [notes[i] EXCEPT !.hint = job.mem[i].hint] ELSE notes[i]]

\* The command writes the whole store as it read and changed it.
Rewritten(job) == job.mem

WriteStore(s) ==
    LET job == jobs[s] IN
    /\ job.cmd \in Rewriters /\ job.todo = <<>>
    /\ notes' = Rewritten(job)
    /\ jobs' = [jobs EXCEPT ![s] = Idle]
    /\ UNCHANGED <<use, made, changes, sealed, backup, apnote, state, docs, chain>>

-----------------------------------------------------------------------------
(* Backups.  The sealed spend notes carry no leaf and no mark.              *)

BackupExport ==
    /\ Typed("backup")
    /\ backup' = notes
    /\ UNCHANGED <<use, made, notes, changes, sealed, apnote, state, docs, chain, jobs>>

Minimal(records) == [i \in DOMAIN records |-> Record(records[i].c, NoLeaf)]

NoteExport(selected) ==
    /\ Typed("export") /\ selected # <<>>
    /\ apnote' = Minimal(selected)
    /\ UNCHANGED <<use, made, notes, changes, sealed, backup, state, docs, chain, jobs>>

\* Without --merge the imported records replace the store.
Import(imported, merge) ==
    LET store == IF merge THEN Merged(notes, imported) ELSE imported IN
    /\ Apart /\ (use.merge => merge)
    /\ Len(store) <= MaxNotes
    /\ notes' = store
    /\ UNCHANGED <<use, made, changes, sealed, backup, apnote, state, docs, chain, jobs>>

BackupImport(merge) == Typed("restore") /\ backup # <<>> /\ Import(backup, merge)
NoteImport(merge) ==
    /\ Typed("import")
    /\ \/ apnote # <<>> /\ Import(apnote, merge)
       \/ \E f \in changes : Import(<<Record(f.c, NoLeaf)>>, merge)

-----------------------------------------------------------------------------
(* The public state.                                                        *)

StateInit ==
    /\ Typed("init")
    /\ state' = <<>>
    /\ UNCHANGED <<use, made, files, docs, chain, jobs>>

\* The state is written whether or not the note turns out to be another one.
StateAppend(c, i) ==
    /\ Typed("append") /\ Apart
    /\ Len(state) < use.leaves
    /\ state' = Append(state, c)
    /\ notes' = IF i \in DOMAIN notes /\ notes[i].c = c
                THEN [notes EXCEPT ![i].leaf = Len(state) + 1] ELSE notes
    /\ UNCHANGED <<use, made, changes, sealed, backup, apnote, docs, chain, jobs>>

\* The anchor is read first, the leaves it counts one by one afterwards.
StateFetch(s) ==
    /\ Starts(s, "fetch")
    /\ jobs' = [jobs EXCEPT ![s] = [cmd |-> "fetch", anchor |-> leaves]]
    /\ UNCHANGED <<use, made, files, state, docs, chain>>

Fetched(anchor) == SubSeq(leaves, 1, Len(anchor))

WriteState(s) ==
    LET job == jobs[s] IN
    /\ job.cmd = "fetch"
    /\ Fetched(job.anchor) = job.anchor
    /\ state' = Fetched(job.anchor)
    /\ jobs' = [jobs EXCEPT ![s] = Idle]
    /\ UNCHANGED <<use, made, files, docs, chain>>

StateBindNote(i) ==
    /\ Typed("bind") /\ Apart
    /\ LeafOf(state, notes[i].c) # NoLeaf
    /\ notes' = [notes EXCEPT ![i].leaf = LeafOf(state, notes[i].c)]
    /\ UNCHANGED <<use, made, changes, sealed, backup, apnote, state, docs, chain, jobs>>

-----------------------------------------------------------------------------
(* Proofs, calls and transactions.                                          *)

Doc(ins, out) == [ins |-> ins, root |-> state, out |-> out]

\* resolveWitness: the record's leaf, or the first one, must hold the note.
Witnessed(record) ==
    LET leaf == Known(record, state) IN
    /\ record.hint # "spent"
    /\ leaf \in DOMAIN state /\ state[leaf] = record.c
Input(record) == <<record.c, Known(record, state)>>

Prove(s, kind, doc) ==
    /\ Starts(s, kind)
    /\ jobs' = [jobs EXCEPT ![s] =
         [cmd |-> "prove", kind |-> kind, doc |-> doc, saved |-> kind # "partial"]]
    /\ UNCHANGED <<use, files, state, docs, chain>>

ProveDeposit(s, i) ==
    /\ notes[i].hint # "spent"
    /\ Prove(s, "deposit", [ins |-> <<>>, root |-> <<>>, out |-> notes[i].c])
    /\ UNCHANGED made

ProveWithdraw1(s, i) ==
    /\ Witnessed(notes[i])
    /\ Prove(s, "withdraw1", Doc(<<Input(notes[i])>>, NoDoc))
    /\ UNCHANGED made

ProveWithdraw(s, i, j) ==
    /\ i # j
    /\ Witnessed(notes[i]) /\ Witnessed(notes[j])
    /\ Prove(s, "withdraw", Doc(<<Input(notes[i]), Input(notes[j])>>, NoDoc))
    /\ UNCHANGED made

ProveWithdrawPartial(s, i, change) ==
    /\ change \notin made
    /\ Witnessed(notes[i])
    /\ Prove(s, "partial", Doc(<<Input(notes[i])>>, change))
    /\ made' = made \cup {change}

\* The change note is on disk before the proof that creates it.
WriteChange(s) ==
    LET job == jobs[s] IN
    /\ job.cmd = "prove" /\ ~job.saved
    /\ changes' = Written(changes, File(IF use.own THEN job.doc.out ELSE 0, job.doc.out, NoLeaf))
    /\ jobs' = [jobs EXCEPT ![s].saved = TRUE]
    /\ UNCHANGED <<use, made, notes, sealed, backup, apnote, state, docs, chain>>

\* Mutant of MayWriteProof: the proof may come first.
MayWriteProofFirst(job) == job.cmd = "prove"

MayWriteProof(job) == job.cmd = "prove" /\ job.saved

WriteProof(s) ==
    LET job == jobs[s] IN
    /\ MayWriteProof(job)
    /\ proofs' = [proofs EXCEPT ![job.kind] = job.doc]
    /\ jobs' = [jobs EXCEPT ![s] = Idle]
    /\ UNCHANGED <<use, made, files, state, calls, chain>>

\* A deposit proof must bind the selected note; the others are taken as read.
Build(kind) ==
    /\ proofs[kind] # NoDoc
    /\ kind = "deposit" => proofs[kind].out \in Commitments(notes)
    /\ calls' = [calls EXCEPT ![kind] = proofs[kind]]
    /\ UNCHANGED <<use, made, files, state, proofs, chain, jobs>>

\* Waiting for the receipt, or giving up on it, changes no file.
SendCall(kind) ==
    /\ calls[kind] # NoDoc
    /\ pending' = pending \cup {calls[kind]}
    /\ UNCHANGED <<use, made, files, state, docs, leaves, spent, jobs>>

\* The process ends early: an error, a signal, a crash.
Stop(s) ==
    /\ Busy(s)
    /\ jobs' = [jobs EXCEPT ![s] = Idle]
    /\ UNCHANGED <<use, made, files, state, docs, chain>>

-----------------------------------------------------------------------------
(* The pool, as the client meets it.  A call that reverts, or is never      *)
(* included, stays among the pending ones: nothing here waits for it.       *)

Valid(call) ==
    /\ IsPrefix(call.root, leaves)
    /\ Range(call.ins) \cap spent = {}
    /\ Cardinality(Range(call.ins)) = Len(call.ins)

Mine(call) ==
    /\ Valid(call)
    /\ call.out # NoDoc => Len(leaves) < use.leaves
    /\ leaves' = IF call.out = NoDoc THEN leaves ELSE Append(leaves, call.out)
    /\ spent' = spent \cup Range(call.ins)
    /\ pending' = pending \ {call}
    /\ UNCHANGED <<use, made, files, state, docs, jobs>>

OthersDeposit(c) ==
    /\ Len(leaves) < use.leaves /\ c \notin Range(leaves)
    /\ leaves' = Append(leaves, c)
    /\ UNCHANGED <<use, made, files, state, docs, spent, pending, jobs>>

-----------------------------------------------------------------------------

AtOnce ==
    \/ NoteCreate \/ NoteSuggestSplit \/ NoteDistribute
    \/ \E i \in DOMAIN notes : \E remove \in BOOLEAN : NoteDeliver(i, remove)
    \/ BackupExport \/ NoteExport(notes)
    \/ \E i \in DOMAIN notes : NoteExport(<<notes[i]>>)
    \/ \E merge \in BOOLEAN : BackupImport(merge) \/ NoteImport(merge)
    \/ StateInit
    \/ \E i \in DOMAIN notes : StateBindNote(i)
    \/ \E c \in Range(leaves) \ Range(state), i \in 1..MaxNotes : StateAppend(c, i)
    \/ \E kind \in Kinds : Build(kind) \/ SendCall(kind)

Job(s) ==
    \/ \E e \in sealed, source \in Sources : NoteAccept(s, e, source)
    \/ \E envelopes \in SetToSeqs(sealed), source \in Sources :
          NoteMailboxScan(s, envelopes, source)
    \/ \E source \in Sources : NoteScan(s, source)
    \/ BindLeaf(s) \/ ScanState(s) \/ ScanNote(s) \/ WriteStore(s)
    \/ StateFetch(s) \/ WriteState(s)
    \/ \E i \in DOMAIN notes :
          \/ ProveDeposit(s, i)
          \/ ProveWithdraw1(s, i)
          \/ \E j \in DOMAIN notes : ProveWithdraw(s, i, j)
          \/ \E change \in Notes : ProveWithdrawPartial(s, i, change)
    \/ WriteChange(s) \/ WriteProof(s)
    \/ Stop(s)

Pool == (\E call \in pending : Mine(call)) \/ \E c \in use.others : OthersDeposit(c)

Next == AtOnce \/ (\E s \in Slots : Job(s)) \/ Pool
Spec == Init /\ [][Next]_vars

-----------------------------------------------------------------------------
(* A record that is marked spent has its nullifier in the pool, whatever    *)
(* commands overlap, stop or rewrite an old store.                          *)
SpentIsSpent ==
    \A i \in DOMAIN notes : notes[i].hint = "spent" => <<notes[i].c, notes[i].leaf>> \in spent

(* The store never has one commitment twice: a merge of two records would   *)
(* reveal one nullifier twice and the pool would refuse it.                 *)
NotesDistinct == Cardinality(Commitments(notes)) = Len(notes)

(* A stored leaf index is where the pool has the note.                      *)
LeafIndexIsTheLeaf ==
    \A i \in DOMAIN notes :
        notes[i].leaf # NoLeaf =>
            notes[i].leaf \in DOMAIN leaves /\ leaves[notes[i].leaf] = notes[i].c

(* Whoever fetches the public state, and never appends to it by hand, has a *)
(* prefix of the pool's leaves on disk, and leaf indices that agree with it.*)
FetchedAgrees ==
    "append" \notin use.cmds => IsPrefix(state, leaves) /\ LeafIndexIsTheLeaf

(* A note this client put, or may still put, into the pool has its secrets  *)
(* in some file, wherever a command is stopped, as long as store-rewriting  *)
(* commands do not overlap, imports merge and output names differ.          *)
SecretsOnDisk ==
    Commitments(notes) \cup Commitments(backup) \cup Commitments(apnote)
      \cup {f.c : f \in changes \cup sealed}
Documents == {proofs[k] : k \in Kinds} \cup {calls[k] : k \in Kinds} \cup pending
Careful == use.apart /\ use.merge /\ use.own
SecretsKept ==
    Careful => \A c \in made :
        c \in Range(leaves) \cup {d.out : d \in Documents \ {NoDoc}} => c \in SecretsOnDisk
=============================================================================
