----------------------------- MODULE LiveScripts -----------------------------
(***************************************************************************)
(* The scripts that drive the command line client through the life of      *)
(* notes on a test network (packages/cli/scripts/sepolia-*.mjs and         *)
(* local-e2e-smoke.mjs).  A script is a program: a sequence of commands on *)
(* the files of its work directory, each a child process that has its      *)
(* effect and succeeds, or throws and ends the script.  Scripts are        *)
(* stopped anywhere, and run again on what the last run left.              *)
(*                                                                         *)
(* Values, recipients and fees are left out, and so is the ring of roots,  *)
(* which is longer than any script.  Indices count from 1.                 *)
(***************************************************************************)
EXTENDS Naturals, Sequences, SequencesExt, TLC

CONSTANTS TARGET_LEAVES,  \* the leaves that the script grow fills its pool up to
          MaxScripts,     \* bound: how many scripts are started in a directory
          MaxStrangers    \* bound: deposits of others

VARIABLES lab,      \* work directory, depth of pools and keys, Windows; fixed
          run,      \* the script that runs, what it has to do, and how the last ended
          dir,      \* the files of the work directory
          pools,    \* [asset -> the leaves of its pool, and those spent]
          created,  \* the notes made so far; their commitments are 1 .. created
          paid,     \* ghost: the wallets that money was sent to
          started   \* scripts started

labVars == <<lab, run, dir, pools, created, paid, started>>

Suites == [final |-> {"final", "continue"}, battery |-> {"battery", "grow"},
           harness |-> {"harness"}, part2 |-> {"part2"}, unlink |-> {"unlink"},
           smoke |-> {"smoke"}]
Assets == {"eth", "dai", "lusd"}
Unbound == 0     \* a record without leafIndex
Stranger == 0    \* any commitment of others
Stopped == [script |-> "", todo |-> <<>>, ended |-> "", tripped |-> FALSE, breached |-> FALSE]
EmptyDir == [stores |-> <<>>, states |-> <<>>, proofs |-> <<>>, calls |-> <<>>,
             wallets |-> <<>>]
EmptyPools == [a \in Assets |-> [leaves |-> <<>>, spent |-> {}]]

\* The depth a script names when it fetches a pool's state.
NamedDepth == IF lab.suite \in {"harness", "part2", "unlink"} THEN 4 ELSE 20

Put(f, name, content) == (name :> content) @@ f

-----------------------------------------------------------------------------
(* Commands. *)

Create(f) == <<[op |-> "create", store |-> f]>>
RemoveFile(f) == <<[op |-> "remove", store |-> f]>>
\* Keys are written to a file, then wallets of a file are paid.
Wallets(made, funded) ==
  <<[op |-> "wallets", wallets |-> made], [op |-> "fund", wallets |-> funded]>>

SendDoc(asset, doc, to) == [op |-> "send", asset |-> asset, doc |-> doc, to |-> to]
Replay(asset, doc) == <<[op |-> "replay", asset |-> asset, doc |-> doc]>>

ProveDeposit(f, i, doc) ==
  << [op |-> "proveDeposit", store |-> f, at |-> <<i>>, doc |-> doc],
     [op |-> "buildDeposit", store |-> f, at |-> <<i>>, doc |-> doc] >>
DepositNative(asset, f, i) == ProveDeposit(f, i, <<f, i>>) \o <<SendDoc(asset, <<f, i>>, "")>>

Fetch(asset, state) == <<[op |-> "fetch", asset |-> asset, state |-> state]>>
Bind(state, f, i) == <<[op |-> "bind", state |-> state, store |-> f, at |-> <<i>>]>>
FetchBind(asset, state, f, i) == Fetch(asset, state) \o Bind(state, f, i)

\* prove withdraw-1-dev or withdraw-dev, build and send; the index 0 is the last.
Spend(asset, state, f, at, doc, to) ==
  << [op |-> "prove", store |-> f, at |-> at, state |-> state, doc |-> doc, change |-> ""],
     [op |-> "build", doc |-> doc], SendDoc(asset, doc, to) >>

\* prove withdraw-partial-dev writes the change note, then the proof.
SpendPart(asset, state, f, doc, change, to) ==
  << [op |-> "change", store |-> f, at |-> <<1>>, state |-> state, doc |-> doc,
      change |-> change],
     [op |-> "prove", store |-> f, at |-> <<1>>, state |-> state, doc |-> doc,
      change |-> change],
     [op |-> "build", doc |-> doc], SendDoc(asset, doc, to) >>

\* The script itself adds the first note of a file to a store, or makes it one.
MergeInto(f, from, marked) ==
  <<[op |-> "merge", store |-> f, from |-> from, marked |-> marked]>>
CopyTo(f, from) == <<[op |-> "copy", store |-> f, from |-> from]>>

ForEach(n, Steps(_)) == FlattenSeq([i \in 1 .. n |-> Steps(i)])

\* Commands whose failure is caught: it ends the loop, which is the last.
Caught(steps) == [i \in DOMAIN steps |-> ("caught" :> TRUE) @@ steps[i]]

-----------------------------------------------------------------------------
(* sepolia-final-validation.mjs, and the script that continues it. *)

HarnessCycle ==
  Create("h_notes") \o DepositNative("eth", "h_notes", 1)
    \o FetchBind("eth", "h_state", "h_notes", 1)
    \o Spend("eth", "h_state", "h_notes", <<1>>, <<"h_w1", 1>>, "")
    \o Replay("eth", <<"h_w1", 1>>)

\* A deposit that is built for an attempt with the wrong msg.value; cast is
\* given no calldata, for the call file has none, so nothing is sent.
WrongValue == Create("h_bad_notes") \o ProveDeposit("h_bad_notes", 1, <<"h_bad_notes", 1>>)

PartialCycle ==
  Create("p_notes") \o DepositNative("eth", "p_notes", 1)
    \o FetchBind("eth", "p_state", "p_notes", 1)
    \o SpendPart("eth", "p_state", "p_notes", <<"p_partial", 1>>, "p_change_note", "")

ChangeCycle ==
  MergeInto("p_notes", "p_change_note", {}) \o FetchBind("eth", "p_state2", "p_notes", 0)
    \o Spend("eth", "p_state2", "p_notes", <<0>>, <<"p_change_w1", 1>>, "")

MergeCycle ==
  Create("m_notes") \o Create("m_notes")
    \o DepositNative("eth", "m_notes", 1) \o DepositNative("eth", "m_notes", 2)
    \o FetchBind("eth", "m_state", "m_notes", 1) \o FetchBind("eth", "m_state", "m_notes", 2)
    \o Spend("eth", "m_state", "m_notes", <<1, 2>>, <<"m_withdraw", 1>>, "")

UnlinkCycle ==
  Create("a_notes") \o DepositNative("eth", "a_notes", 1)
    \o FetchBind("eth", "a_state", "a_notes", 1)
    \o Spend("eth", "a_state", "a_notes", <<1>>, <<"a_w1", 1>>, "")

Cohort(n) ==
  ForEach(n, LAMBDA i : Create("cohort_notes"))
    \o Caught(ForEach(n, LAMBDA i : DepositNative("eth", "cohort_notes", i)))

Final == HarnessCycle \o WrongValue \o PartialCycle \o ChangeCycle \o MergeCycle
           \o UnlinkCycle \o Cohort(6)

\* The script that continues does the same by code of its own, with less at the end.
ContinuePartial == PartialCycle \o ChangeCycle
ContinueCohort == Cohort(4)
Continue == ContinuePartial \o MergeCycle \o UnlinkCycle \o ContinueCohort

-----------------------------------------------------------------------------
(* sepolia-live-battery.mjs and sepolia-grow-anonymity.mjs: pools of three   *)
(* assets, wallets of their own, and sends by wallet or by the relayer.      *)

DepositEth(f) ==
  Create(f) \o DepositNative("eth", f, 1) \o FetchBind("eth", "eth_state", f, 1)

EthUnlink ==
  DepositEth("eth_unlink")
    \o Spend("eth", "eth_state", "eth_unlink", <<1>>, <<"eth_unlink_wd", 1>>, "wallets")

EthSilent ==
  DepositEth("eth_silent")
    \o Spend("eth", "eth_state", "eth_silent", <<1>>, <<"eth_silent_wd", 1>>, "wallets")

EthPartial ==
  DepositEth("eth_partial")
    \o SpendPart("eth", "eth_state", "eth_partial", <<"eth_partial_wd", 1>>, "eth_change",
                 "wallets")
    \o CopyTo("eth_change_notes", "eth_change")
    \o FetchBind("eth", "eth_state", "eth_change_notes", 1)
    \o Spend("eth", "eth_state", "eth_change_notes", <<1>>, <<"eth_change_wd", 1>>, "wallets")

EthMerge ==
  Create("eth_merge") \o Create("eth_merge")
    \o DepositNative("eth", "eth_merge", 1) \o DepositNative("eth", "eth_merge", 2)
    \o FetchBind("eth", "eth_state", "eth_merge", 1) \o Bind("eth_state", "eth_merge", 2)
    \o Spend("eth", "eth_state", "eth_merge", <<1, 2>>, <<"eth_merge_wd", 1>>, "wallets")

TokenCycle(asset, state) ==
  Create(asset) \o DepositNative(asset, asset, 1) \o FetchBind(asset, state, asset, 1)
    \o Spend(asset, state, asset, <<1>>, <<asset, 0>>, "wallets")
LusdSilent == TokenCycle("lusd", "lusd_state")

EthSame ==
  DepositEth("eth_same")
    \o Spend("eth", "eth_state", "eth_same", <<1>>, <<"eth_same_wd", 1>>, "wallets")

Battery == Wallets("wallets", "wallets") \o EthUnlink \o EthSilent \o EthPartial \o EthMerge
             \o TokenCycle("dai", "dai_state") \o LusdSilent \o EthSame

GrowDeposit(i) ==
  Create("eth_grow") \o DepositNative("eth", "eth_grow", i)
    \o FetchBind("eth", "eth_state", "eth_grow", i)

SilentOut(i, doc) ==
  Spend("eth", "eth_state", "eth_grow", <<i>>, <<doc, 1>>, "recipients") \o Fetch("eth", "eth_state")

\* `needed` deposits of one amount and one of another; four and that one leave.
Grow(needed) ==
  Wallets("recipients", "wallets") \o RemoveFile("eth_grow") \o ForEach(needed, GrowDeposit)
    \o GrowDeposit(needed + 1)
    \o SilentOut(1, "silent_s1") \o SilentOut(2, "silent_s2") \o SilentOut(3, "silent_s3")
    \o SilentOut(needed + 1, "silent_odd")
    \o Spend("eth", "eth_state", "eth_grow", <<4>>, <<"wallet_s5", 1>>, "recipients")

-----------------------------------------------------------------------------
(* The earlier harnesses, and the smoke test on a chain of its own. *)

Harness ==
  Create("notes") \o DepositNative("eth", "notes", 1) \o FetchBind("eth", "public_state", "notes", 1)
    \o Spend("eth", "public_state", "notes", <<1>>, <<"withdraw1", 1>>, "")
    \o Replay("eth", <<"withdraw1", 1>>)

PartialThenChange ==
  RemoveFile("notes") \o Create("notes") \o DepositNative("eth", "notes", 1)
    \o FetchBind("eth", "public_state", "notes", 1)
    \o SpendPart("eth", "public_state", "notes", <<"partial", 1>>, "change_note", "")
    \o MergeInto("notes", "change_note", {1}) \o FetchBind("eth", "public_state", "notes", 2)
    \o Spend("eth", "public_state", "notes", <<2>>, <<"change_withdraw", 1>>, "")
    \o Replay("eth", <<"partial", 1>>)

TwoNotes ==
  RemoveFile("notes") \o Create("notes") \o Create("notes_tmp")
    \o MergeInto("notes", "notes_tmp", {})
    \o DepositNative("eth", "notes", 1) \o DepositNative("eth", "notes", 2)
    \o FetchBind("eth", "public_state", "notes", 1)
    \o FetchBind("eth", "public_state", "notes", 2)
    \o Spend("eth", "public_state", "notes", <<1, 2>>, <<"withdraw2", 1>>, "")

WrongDeposit ==
  RemoveFile("notes") \o Create("notes") \o ProveDeposit("notes", 1, <<"bad_deposit", 1>>)

Part2 == PartialThenChange \o TwoNotes \o WrongDeposit

Unlink ==
  Create("notes") \o DepositNative("eth", "notes", 1)
    \o FetchBind("eth", "public_state", "notes", 1)
    \o Spend("eth", "public_state", "notes", <<1>>, <<"withdraw", 1>>, "")
    \o Replay("eth", <<"withdraw", 1>>)

\* A work directory and a pool of its own each time.
Smoke ==
  <<[op |-> "renew"]>> \o Create("notes") \o DepositNative("dai", "notes", 1)
    \o FetchBind("dai", "public_state", "notes", 1)
    \o <<[op |-> "scan", asset |-> "dai", store |-> "notes"]>>
    \o Spend("dai", "public_state", "notes", <<1>>, <<"withdraw1", 1>>, "")
    \o <<[op |-> "scan", asset |-> "dai", store |-> "notes"], [op |-> "count", store |-> "notes"]>>

\* `grow` reads the number of leaves as it starts.
Needed == TARGET_LEAVES - Len(pools["eth"].leaves)
Program(s) ==
  CASE s = "final" -> Final
    [] s = "continue" -> Continue
    [] s = "battery" -> Battery
    [] s = "grow" -> Grow(Needed)
    [] s = "harness" -> Harness
    [] s = "part2" -> Part2
    [] s = "unlink" -> Unlink
    [] s = "smoke" -> Smoke

-----------------------------------------------------------------------------
(* What a command needs, and what it does. *)

Running == run.todo # <<>>
Cmd == Head(run.todo)
Chosen == [j \in DOMAIN Cmd.at |->
             IF Cmd.at[j] = 0 THEN Last(dir.stores[Cmd.store]) ELSE dir.stores[Cmd.store][Cmd.at[j]]]
FirstIndex(seq, c) == SelectInSeq(seq, LAMBDA x : x = c)    \* findCommitmentIndex

HasFile(name) == name \in DOMAIN dir.stores
HasRecords ==
  /\ HasFile(Cmd.store)
  /\ \A j \in DOMAIN Cmd.at : Cmd.at[j] <= Len(dir.stores[Cmd.store])
HasLiveRecords == HasRecords /\ \A j \in DOMAIN Chosen : ~Chosen[j].spent

\* The state holds each record, where the record says or where it is found first.
Place(record) ==
  IF record.leaf # Unbound THEN record.leaf ELSE FirstIndex(dir.states[Cmd.state], record.c)
HasPlacedRecords ==
  /\ HasLiveRecords
  /\ Cmd.state \in DOMAIN dir.states
  /\ \A j \in DOMAIN Chosen : LET state == dir.states[Cmd.state] IN
       Place(Chosen[j]) \in DOMAIN state /\ state[Place(Chosen[j])] = Chosen[j].c

\* Mutant of PoolTakes: what is spent may be spent again.
PoolTakesAgain(asset, call) == IsInjective(call.spends)

PoolTakes(asset, call) == IsInjective(call.spends) /\ ToSet(call.spends) \cap pools[asset].spent = {}

Works ==
  CASE Cmd.op = "proveDeposit" -> HasLiveRecords
    [] Cmd.op = "buildDeposit" ->
         HasRecords /\ Cmd.doc \in DOMAIN dir.proofs
           /\ dir.proofs[Cmd.doc].out = <<Chosen[1].c>>
    [] Cmd.op = "build" -> Cmd.doc \in DOMAIN dir.proofs
    [] Cmd.op = "send" ->
         Cmd.doc \in DOMAIN dir.calls /\ PoolTakes(Cmd.asset, dir.calls[Cmd.doc])
    [] Cmd.op = "fetch" -> NamedDepth = lab.depth
    [] Cmd.op = "bind" ->
         HasRecords /\ Cmd.state \in DOMAIN dir.states
           /\ FirstIndex(dir.states[Cmd.state], Chosen[1].c) # 0
    [] Cmd.op \in {"change", "prove"} -> HasPlacedRecords
    [] Cmd.op \in {"merge", "copy"} ->
         HasFile(Cmd.from) /\ (Cmd.op = "merge" => HasFile(Cmd.store))
    [] Cmd.op = "scan" -> HasFile(Cmd.store)
    [] Cmd.op = "count" ->
         LET store == dir.stores[Cmd.store] IN \A i \in DOMAIN store : store[i].spent
    [] OTHER -> TRUE

Perform(op) == Running /\ Cmd.op = op /\ Works /\ run' = [run EXCEPT !.todo = Tail(@)]

WriteFile(kind, name, content) == dir' = [dir EXCEPT ![kind] = Put(@, name, content)]
Fresh(c) == [c |-> c, leaf |-> Unbound, spent |-> FALSE]

\* note create: a new note is added to the file, which need not be there.
NoteCreate ==
  /\ Perform("create")
  /\ created' = created + 1
  /\ WriteFile("stores", Cmd.store,
               (IF HasFile(Cmd.store) THEN dir.stores[Cmd.store] ELSE <<>>) \o <<Fresh(created')>>)
  /\ UNCHANGED <<lab, pools, paid, started>>

RemoveStore ==
  /\ Perform("remove")
  /\ dir' = [dir EXCEPT !.stores = Restrict(@, DOMAIN @ \ {Cmd.store})]
  /\ UNCHANGED <<lab, pools, created, paid, started>>

WriteKeys ==
  /\ Perform("wallets")
  /\ WriteFile("wallets", Cmd.wallets, started)
  /\ UNCHANGED <<lab, pools, created, paid, started>>

PayTo(w) == paid' = IF w = "" THEN paid ELSE paid \cup {<<w, dir.wallets[w]>>}

Fund ==
  /\ Perform("fund")
  /\ PayTo(Cmd.wallets)
  /\ UNCHANGED <<lab, dir, pools, created, started>>

ProveDepositDev ==
  /\ Perform("proveDeposit")
  /\ WriteFile("proofs", Cmd.doc, [spends |-> <<>>, out |-> <<Chosen[1].c>>])
  /\ UNCHANGED <<lab, pools, created, paid, started>>

Build ==
  /\ Perform("buildDeposit") \/ Perform("build")
  /\ WriteFile("calls", Cmd.doc, dir.proofs[Cmd.doc])
  /\ UNCHANGED <<lab, pools, created, paid, started>>

Applied(pool, call) ==
  [leaves |-> pool.leaves \o call.out, spent |-> pool.spent \cup ToSet(call.spends)]

SendToPool ==
  /\ Perform("send")
  /\ pools' = [pools EXCEPT ![Cmd.asset] = Applied(@, dir.calls[Cmd.doc])]
  /\ PayTo(Cmd.to)
  /\ UNCHANGED <<lab, dir, created, started>>

\* The same call again: whatever it answers, the script goes on.
ReplayToPool ==
  /\ Running /\ Cmd.op = "replay"
  /\ LET taken == PoolTakes(Cmd.asset, dir.calls[Cmd.doc]) IN
     /\ run' = [run EXCEPT !.todo = Tail(@), !.breached = @ \/ taken]
     /\ pools' = IF taken THEN [pools EXCEPT ![Cmd.asset] = Applied(@, dir.calls[Cmd.doc])]
                 ELSE pools
  /\ UNCHANGED <<lab, dir, created, paid, started>>

StateFetch ==
  /\ Perform("fetch")
  /\ WriteFile("states", Cmd.state, pools[Cmd.asset].leaves)
  /\ UNCHANGED <<lab, pools, created, paid, started>>

StateBindNote ==
  /\ Perform("bind")
  /\ LET store == dir.stores[Cmd.store]
         i == IF Cmd.at[1] = 0 THEN Len(store) ELSE Cmd.at[1]
     IN WriteFile("stores", Cmd.store,
              [store EXCEPT ![i].leaf = FirstIndex(dir.states[Cmd.state], store[i].c)])
  /\ UNCHANGED <<lab, pools, created, paid, started>>

\* prove withdraw-partial-dev makes the change note anew, over an earlier one.
WriteChange ==
  /\ Perform("change")
  /\ created' = created + 1
  /\ WriteFile("stores", Cmd.change, <<Fresh(created')>>)
  /\ UNCHANGED <<lab, pools, paid, started>>

\* Mutant of ProveWithdraw: the change of the proof is not the note that was written.
ProveWithdrawAnew ==
  /\ Perform("prove")
  /\ created' = created + 1
  /\ WriteFile("proofs", Cmd.doc,
               [spends |-> [j \in DOMAIN Chosen |-> Place(Chosen[j])],
                out |-> IF Cmd.change = "" THEN <<>> ELSE <<created'>>])
  /\ UNCHANGED <<lab, pools, paid, started>>

ProveWithdraw ==
  /\ Perform("prove")
  /\ WriteFile("proofs", Cmd.doc,
               [spends |-> [j \in DOMAIN Chosen |-> Place(Chosen[j])],
                out |-> IF Cmd.change = "" THEN <<>> ELSE <<dir.stores[Cmd.change][1].c>>])
  /\ UNCHANGED <<lab, pools, created, paid, started>>

MergeNote ==
  /\ Perform("merge")
  /\ LET store == dir.stores[Cmd.store] IN
     WriteFile("stores", Cmd.store,
           [i \in DOMAIN store |-> [store[i] EXCEPT !.spent = @ \/ i \in Cmd.marked]]
             \o <<dir.stores[Cmd.from][1]>>)
  /\ UNCHANGED <<lab, pools, created, paid, started>>

CopyNote ==
  /\ Perform("copy")
  /\ WriteFile("stores", Cmd.store, <<dir.stores[Cmd.from][1]>>)
  /\ UNCHANGED <<lab, pools, created, paid, started>>

\* note scan marks the bound notes that the pool has spent.
NoteScan ==
  /\ Perform("scan")
  /\ LET store == dir.stores[Cmd.store] IN
     WriteFile("stores", Cmd.store,
           [i \in DOMAIN store |->
              [store[i] EXCEPT !.spent = @ \/ store[i].leaf \in pools[Cmd.asset].spent]])
  /\ UNCHANGED <<lab, pools, created, paid, started>>

CountSpent == Perform("count") /\ UNCHANGED <<lab, dir, pools, created, paid, started>>

Renew ==
  /\ Perform("renew")
  /\ dir' = EmptyDir /\ pools' = EmptyPools
  /\ UNCHANGED <<lab, created, paid, started>>

-----------------------------------------------------------------------------
(* How a script starts and ends. *)

\* A command that cannot work throws; in a loop that catches it, the loop ends.
Trip ==
  /\ Running /\ ~Works
  /\ run' = [Stopped EXCEPT !.tripped = TRUE, !.breached = run.breached]
  /\ UNCHANGED <<lab, dir, pools, created, paid, started>>

End ==
  /\ run.script # "" /\ ~Running
  /\ run' = [Stopped EXCEPT !.ended = run.script, !.breached = run.breached]
  /\ UNCHANGED <<lab, dir, pools, created, paid, started>>

\* A script is stopped, or a command fails for a reason of its own.
Interrupt ==
  /\ Running /\ run' = [Stopped EXCEPT !.breached = run.breached]
  /\ UNCHANGED <<lab, dir, pools, created, paid, started>>

\* On Windows a child that was aborted passes for one that worked when the file
\* it was to write is there, from whenever.
HasOut ==
  CASE Cmd.op = "create" -> HasFile(Cmd.store)
    [] Cmd.op \in {"proveDeposit", "change", "prove"} -> Cmd.doc \in DOMAIN dir.proofs
    [] Cmd.op \in {"buildDeposit", "build"} -> Cmd.doc \in DOMAIN dir.calls
    [] Cmd.op = "fetch" -> Cmd.state \in DOMAIN dir.states
    [] OTHER -> FALSE
Abort ==
  /\ lab.windows /\ Running /\ HasOut
  /\ run' = [run EXCEPT !.todo = Tail(IF Cmd.op = "change" THEN Tail(@) ELSE @)]
  /\ UNCHANGED <<lab, dir, pools, created, paid, started>>

\* Somebody starts a script as it is meant: in a directory of its own, but for
\* `continue` after a `final` that failed before it deposited there, for `grow`
\* after the battery, and for the smoke test, which clears everything.
AsMeant(s) ==
  CASE s = "continue" ->
         /\ HasFile("h_notes") /\ ~HasFile("m_notes")
         /\ HasFile("p_notes") => \A r \in Range(dir.stores["p_notes"]) :
                                    ~Contains(pools["eth"].leaves, r.c)
    [] s = "grow" -> run.ended = "battery" /\ Needed >= 4
    [] s = "smoke" -> TRUE
    [] OTHER -> dir = EmptyDir

StartScript(s) ==
  /\ run.script = "" /\ started < MaxScripts
  /\ AsMeant(s)
  /\ started' = started + 1
  /\ run' = [Stopped EXCEPT !.script = s, !.todo = Program(s)]
  /\ UNCHANGED <<lab, dir, pools, created, paid>>

\* Somebody else deposits; the smoke test has its chain to itself.
StrangerDeposit ==
  /\ lab.suite # "smoke"
  /\ Cardinality({k \in DOMAIN pools["eth"].leaves : pools["eth"].leaves[k] = Stranger})
       < MaxStrangers
  /\ pools' = [pools EXCEPT !["eth"].leaves = Append(@, Stranger)]
  /\ UNCHANGED <<lab, run, dir, created, paid, started>>

LabInit ==
  /\ lab \in [suite : DOMAIN Suites, depth : {4, 20}, windows : BOOLEAN]
  /\ run = Stopped /\ dir = EmptyDir /\ pools = EmptyPools
  /\ created = 0 /\ paid = {} /\ started = 0

LabNext ==
  \/ NoteCreate \/ RemoveStore \/ WriteKeys \/ Fund \/ ProveDepositDev \/ Build \/ SendToPool
  \/ ReplayToPool \/ StateFetch \/ StateBindNote \/ WriteChange \/ ProveWithdraw
  \/ MergeNote \/ CopyNote \/ NoteScan \/ CountSpent \/ Renew
  \/ Trip \/ End \/ Interrupt \/ Abort \/ StrangerDeposit
  \/ \E s \in Suites[lab.suite] : StartScript(s)

-----------------------------------------------------------------------------
(* Properties. *)

\* A script may be stopped anywhere, and what it has deposited and not yet spent
\* can still be spent from the files in its directory: a live record of the
\* commitment, which is unbound or bound to that leaf, the only one with it.  The
\* keys of every wallet it has paid are there too.  (sepolia-*.mjs)  Not so for
\* part2 on Windows: it names the files of its second deposit as those of its
\* first, and where `build` is aborted it sends the first again.
MoneyStaysReachable == ~(lab.suite = "part2" /\ lab.windows) =>
  /\ \A a \in Assets : LET pool == pools[a] IN
       \A k \in DOMAIN pool.leaves \ pool.spent : pool.leaves[k] # Stranger =>
         /\ FirstIndex(pool.leaves, pool.leaves[k]) = k
         /\ \E f \in DOMAIN dir.stores : \E r \in Range(dir.stores[f]) :
              r.c = pool.leaves[k] /\ ~r.spent /\ r.leaf \in {Unbound, k}
  /\ \A p \in paid : dir.wallets[p[1]] = p[2]

\* Without a failure from outside, every command of a script works on what the
\* ones before it left, whatever others deposit meanwhile, and no call is taken
\* a second time, provided that the pools have the depth the script names.
WorksUnlessDisturbed ==
  ~run.breached /\ (run.tripped => lab.windows \/ NamedDepth # lab.depth)
=============================================================================
