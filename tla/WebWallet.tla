----------------------------- MODULE WebWallet -----------------------------
(***************************************************************************)
(* One browser tab of the web wallet (apps/web/src) against the pools it   *)
(* reads and pays into.  A click starts a JOB, an async handler of         *)
(* App.tsx: what the handler's closure captured is kept in the job, every  *)
(* await is a boundary between two actions, and what it writes back it     *)
(* writes to the tab as it then is.  While a job runs the buttons are      *)
(* disabled (busy); selecting notes and typing into the form are not.      *)
(*                                                                         *)
(* The pools are seen as the wallet sees them: leaves, spent nullifiers, a *)
(* window of known roots, and transactions that may be mined late, revert  *)
(* or never be mined.  A nullifier is the pair of a commitment and the     *)
(* leaf index it was opened at.                                            *)
(***************************************************************************)
EXTENDS Integers, Sequences, FiniteSetsExt, Functions

CONSTANTS NoPool,       \* "no poolAddress recorded"
          Uses,         \* the ways a tab is used, see below
          RootWindow    \* how many leaves back a root stays known

\* WithdrawMode of the withdraw page
ASSUME ModesAssumption == \A u \in Uses : u.modes \subseteq {"full", "partial", "merge2"}

VARIABLES use,                                 \* how this tab is used
          away,          \* the browser's wallet is on another network
          leaves, nulls, txs,                  \* the pools and the mempool
          codes, vault,                        \* what exists outside the tab
          notes, sel, spend, pool, mode, form, bundle,   \* the tab
          restarts,      \* sessions thrown away so far
          job

\* a use: the commitments the wallet may ever create, the pools of the network, the destinations and partial amounts typed,
\* the withdraw modes ("full", "partial", "merge2"), how withdrawals are sent
\* ("wallet", "relayer"), whether .apbackup files are used, how many leaves a
\* public RPC may be behind, whether the browser's wallet changes its network,
\* and bounds on transactions and sessions
Notes       == use.notes
Pools       == use.pools
Dests       == use.dests
Amounts     == use.amounts
Modes       == use.modes
Routes      == use.routes
WithVault   == use.vault
Lag         == use.lag
Roams       == use.roams
MaxTx       == use.maxTx
MaxRestarts == use.maxRestarts

chain == <<leaves, nulls, txs>>
env   == <<use, away>>
kept  == <<env, codes, vault, restarts>>
ui    == <<sel, spend, pool, mode, form>>
vars  == <<env, leaves, nulls, txs, codes, vault, notes, sel, spend, pool,
           mode, form, bundle, restarts, job>>

NoLeaf == -1
Idle   == [op |-> "idle", at |-> "idle"]
NoProof == [mode |-> "none"]
Forms  == [dest : Dests, amount : Amounts]

----------------------------------------------------------------------------
(* Notes and what a scan makes of them. *)

FreshRecord(c, p) == [c |-> c, leaf |-> NoLeaf, pool |-> p, spent |-> FALSE]

\* the note is deposited in pool p, as far as the tab knows
BoundTo(n, p) == n.leaf # NoLeaf /\ n.pool \in {p, NoPool}

\* first position of c in the leaves read, as a 0-based leaf index
LeafOf(c, ls) ==
    LET at == {i \in 1..Len(ls) : ls[i] = c}
    IN  IF at = {} THEN NoLeaf ELSE Min(at) - 1

\* Bug: the pool is recorded also for a note that was not found in it.
BindAlwaysAttributed(n, ls, p) ==
    LET i == LeafOf(n.c, ls)
    IN  IF i # NoLeaf THEN [n EXCEPT !.leaf = i, !.pool = p]
        ELSE IF n.pool \in {p, NoPool} THEN [n EXCEPT !.leaf = NoLeaf]
        ELSE [n EXCEPT !.pool = p]

Bind(n, ls, p) ==
    LET i == LeafOf(n.c, ls)
    IN  IF i # NoLeaf THEN [n EXCEPT !.leaf = i, !.pool = p]
        ELSE IF n.pool \in {p, NoPool} THEN [n EXCEPT !.leaf = NoLeaf]
        ELSE n

BindAll(ns, ls, p) == [k \in DOMAIN ns |-> Bind(ns[k], ls, p)]

\* a note marked spent stays marked; the others are asked for by nullifier
Scanned(ns, ls, p, spentOnes) ==
    [k \in DOMAIN ns |->
        LET n == Bind(ns[k], ls, p)
        IN  IF n.spent \/ n.leaf = NoLeaf THEN n
            ELSE [n EXCEPT !.spent = <<n.c, n.leaf>> \in spentOnes]]

MarkSpent(ns, idx) ==
    [k \in DOMAIN ns |-> IF k \in idx THEN [ns[k] EXCEPT !.spent = TRUE] ELSE ns[k]]

\* public RPC endpoints may be behind: a read sees a recent prefix
Views(p) == {SubSeq(leaves[p], 1, k) :
                k \in {j \in 0..Len(leaves[p]) : j >= Len(leaves[p]) - Lag}}

\* effects that run after every change of the notes: a selected note that is
\* spent or gone is replaced by the first one that is not spent, and spent or
\* missing notes leave the merge selection
Unspent(ns) == {k \in DOMAIN ns : ~ns[k].spent}

BoundUnspent == {k \in Unspent(notes) : BoundTo(notes[k], pool)}
HasTwoSpendInputs == Len(spend) = 2 /\ Range(spend) \subseteq Unspent(notes)
IndexOf(ns, c) == Min({k \in DOMAIN ns : ns[k].c = c})

RepairedSel(ns, s) ==
    IF s \in Unspent(ns) \/ Unspent(ns) = {} THEN s
    ELSE Min(Unspent(ns))

\* a merge selection, which has two entries at most, without those not in S
Kept(s, S) ==
    CASE Range(s) \subseteq S   -> s
      [] Range(s) \cap S = {}   -> <<>>
      [] OTHER                 -> <<CHOOSE k \in Range(s) \cap S : TRUE>>

SetNotes(ns, s) ==
    /\ notes' = ns
    /\ sel' = RepairedSel(ns, s)
    /\ spend' = Kept(spend, Unspent(ns))

----------------------------------------------------------------------------
(* The pools. *)

RootKnown(p, root) == Len(leaves[p]) - root <= RootWindow

Valid(t) == t.kind = "deposit"
            \/ (RootKnown(t.pool, t.root) /\ t.ins \cap nulls[t.pool] = {})

\* eth_sendTransaction names no network: it goes where the wallet is by then
Tx(kind, root, ins, out, to) ==
    [kind |-> kind, pool |-> job.pool, root |-> root, ins |-> ins, out |-> out, to |-> to,
     status |-> "pending", astray |-> away /\ job.op # "silent"]

Submit(t) == txs' = Append(txs, t)

\* what is left to know of a transaction that is no longer pending
Settle(k, status) == txs' = [txs EXCEPT ![k] = [status |-> status]]

\* there is no pool at this address on another network: the call succeeds there
MineAstray(k) ==
    /\ txs[k].status = "pending" /\ txs[k].astray
    /\ Settle(k, "mined")
    /\ UNCHANGED <<leaves, nulls, kept, notes, ui, bundle, job>>

Mine(k) ==
    LET t == txs[k]
    IN  /\ t.status = "pending" /\ ~t.astray
        /\ Settle(k, IF Valid(t) THEN "mined" ELSE "failed")
        /\ leaves' = IF Valid(t) THEN [leaves EXCEPT ![t.pool] = @ \o t.out] ELSE leaves
        /\ nulls' = IF Valid(t) THEN [nulls EXCEPT ![t.pool] = @ \cup t.ins] ELSE nulls
        /\ UNCHANGED <<kept, notes, ui, bundle, job>>

\* evicted from every mempool: the transaction is never mined
Drop(k) == /\ txs[k].status = "pending"
           /\ Settle(k, "failed")
           /\ UNCHANGED <<leaves, nulls, kept, notes, ui, bundle, job>>

\* the user changes the network in the browser's wallet, at any time
ChangeNetwork == /\ Roams /\ away' = ~away
                 /\ UNCHANGED <<use, chain, codes, vault, restarts, notes, ui, bundle, job>>

----------------------------------------------------------------------------
(* Selections, the form, and leaving the page. *)

SelectNote(k) ==
    /\ k \in Unspent(notes) /\ sel' = k
    /\ UNCHANGED <<chain, kept, notes, spend, pool, mode, form, bundle, job>>

SamePair(a, b) == Len(a) = 2 /\ Len(b) = 2 /\ (a = b \/ a = <<b[2], b[1]>>)

\* a third selection is cut off
ToggleSpend(k) ==
    LET next == CASE k \in Range(spend) -> Kept(spend, Range(spend) \ {k})
                  [] k \notin Range(spend) /\ Len(spend) < 2 -> Append(spend, k)
                  [] OTHER -> spend
    IN  /\ mode = "merge2" /\ k \in BoundUnspent
        /\ spend' = next
        /\ bundle' = IF bundle.mode = "merge2" /\ SamePair(next, bundle.idx)
                     THEN bundle ELSE NoProof
        /\ UNCHANGED <<chain, kept, notes, sel, pool, mode, form, job>>

\* the withdraw page selects two notes by itself when none is selected
AutoSelectPair ==
    /\ spend = <<>>
    /\ \E i, j \in BoundUnspent :
          /\ i < j /\ \A k \in BoundUnspent : k = i \/ k >= j
          /\ spend' = <<i, j>>
    /\ UNCHANGED <<chain, kept, notes, sel, pool, mode, form, bundle, job>>

TypeForm(f) ==
    /\ f # form /\ form' = f
    /\ UNCHANGED <<chain, kept, notes, sel, spend, pool, mode, bundle, job>>

SwitchMode(m) ==
    /\ job = Idle /\ m # mode
    /\ mode' = m /\ bundle' = NoProof /\ spend' = <<>>
    /\ UNCHANGED <<chain, kept, notes, sel, pool, form, job>>

SwitchPool(p) ==
    /\ job = Idle /\ p # pool
    /\ pool' = p /\ bundle' = NoProof /\ spend' = <<>>
    /\ UNCHANGED <<chain, kept, notes, sel, mode, form, job>>

\* nothing of a session survives the tab
Reload ==
    /\ notes # <<>> /\ restarts < MaxRestarts /\ restarts' = restarts + 1
    /\ notes' = <<>> /\ sel' = 1 /\ spend' = <<>> /\ bundle' = NoProof /\ job' = Idle
    /\ UNCHANGED <<env, chain, codes, vault, pool, mode, form>>

ClearTab ==
    /\ job = Idle /\ notes # <<>>
    /\ restarts < MaxRestarts /\ restarts' = restarts + 1
    /\ notes' = <<>> /\ spend' = <<>> /\ bundle' = NoProof
    /\ UNCHANGED <<env, chain, codes, vault, sel, pool, mode, form, job>>

----------------------------------------------------------------------------
(* Jobs. *)

\* a commitment nobody has kept: a change note whose proof was abandoned before
\* its code was shown stands for a new random one
Unused == Notes \ codes

Start(j) == job = Idle /\ job' = j
Finish == job' = Idle

\* a cancelled dialog, a failed read, proof or request: the handler ends and
\* reports, and keeps what it already wrote
Fail ==
    /\ job.at \in {"admit", "leaves", "nullifiers", "prove", "confirm", "rebind",
                   "save", "root", "send"}
    /\ Finish
    /\ UNCHANGED <<chain, kept, notes, ui, bundle>>

\* create a note: its code is shown before the note enters the session
BeginCreate(c) ==
    /\ c \in Unused
    /\ bundle.mode = "partial" => c \notin Range(bundle.out)
    /\ Start([op |-> "create", at |-> "admit", c |-> c, pool |-> pool,
              end |-> Len(notes) + 1])
    /\ UNCHANGED <<chain, kept, notes, ui, bundle>>

AdmitAfterSave ==
    /\ job.at = "admit"
    /\ codes' = codes \cup {job.c}
    /\ SetNotes(Append(notes, FreshRecord(job.c, job.pool)), job.end)
    /\ Finish
    /\ UNCHANGED <<env, chain, vault, pool, mode, form, bundle, restarts>>

\* restore one Recovery Code: append what is not there, then scan
BeginImport(c) ==
    /\ c \in codes
    /\ Start([op |-> "import", at |-> "leaves", pool |-> pool, c |-> c, ls |-> <<>>,
              end |-> Len(notes) + 1,
              notes |-> IF \E k \in DOMAIN notes : notes[k].c = c THEN notes
                        ELSE Append(notes, FreshRecord(c, NoPool))])
    /\ UNCHANGED <<chain, kept, notes, ui, bundle>>

BeginSync ==
    /\ Start([op |-> "sync", at |-> "leaves", pool |-> pool, notes |-> notes, ls |-> <<>>])
    /\ UNCHANGED <<chain, kept, notes, ui, bundle>>

ExportVault ==
    /\ WithVault /\ job = Idle /\ notes # <<>>
    /\ vault' = [k \in DOMAIN notes |-> [notes[k] EXCEPT !.pool = NoPool]]
    /\ codes' = codes \cup {notes[k].c : k \in DOMAIN notes}
    /\ UNCHANGED <<env, chain, notes, ui, bundle, restarts, job>>

\* the vault file replaces the session; proofs in memory are left as they are
ImportVault ==
    /\ WithVault /\ job = Idle /\ vault # <<>>
    /\ SetNotes(vault, sel)
    /\ UNCHANGED <<chain, kept, pool, mode, form, bundle, job>>

\* scanNullifiersAgainstPool: the leaves first, the nullifiers later
ReadLeaves ==
    /\ job.at = "leaves"
    /\ \E ls \in Views(job.pool) :
          job' = [job EXCEPT !.at = "nullifiers", !.ls = ls]
    /\ UNCHANGED <<chain, kept, notes, ui, bundle>>

ScanResult == Scanned(job.notes, job.ls, job.pool, nulls[job.pool])

FinishScan ==
    /\ job.at = "nullifiers" /\ job.op \in {"sync", "import"}
    /\ SetNotes(ScanResult,
                IF job.op = "sync" THEN sel
                ELSE LET k == IndexOf(ScanResult, job.c)
                     IN  IF ScanResult[k].leaf # NoLeaf THEN k ELSE job.end)
    /\ Finish
    /\ UNCHANGED <<chain, kept, pool, mode, form, bundle>>

----------------------------------------------------------------------------
(* Deposits. *)

MayDeposit(n) == /\ ~n.spent
                 /\ ~BoundTo(n, pool)
                 /\ n.leaf = NoLeaf \/ n.pool \in {pool, NoPool}

BeginDeposit(k) ==
    /\ ~away /\ k \in DOMAIN notes /\ MayDeposit(notes[k])
    /\ Start([op |-> "deposit", at |-> "confirm", idx |-> k, c |-> notes[k].c,
              pool |-> pool, tx |-> 0])
    /\ UNCHANGED <<chain, kept, notes, ui, bundle>>

\* confirmed, proved, approved: the deposit goes to the wallet
SendDeposit ==
    /\ job.at = "confirm" /\ Len(txs) < MaxTx
    /\ Submit(Tx("deposit", 0, {}, <<job.c>>, NoPool))
    /\ job' = [job EXCEPT !.at = "receipt", !.tx = Len(txs) + 1]
    /\ UNCHANGED <<leaves, nulls, kept, notes, ui, bundle>>

Receipt(status) == job.at = "receipt" /\ txs[job.tx].status = status

ConfirmDeposit ==
    /\ job.op = "deposit" /\ Receipt("mined")
    /\ job' = [job EXCEPT !.at = "rebind"]
    /\ UNCHANGED <<chain, kept, notes, ui, bundle>>

\* no receipt, or a reverted one: look for the commitment in the pool
DepositUnconfirmed ==
    /\ job.op = "deposit" /\ job.at = "receipt"
    /\ \E ls \in Views(job.pool) :
          job' = IF LeafOf(job.c, ls) # NoLeaf THEN [job EXCEPT !.at = "rebind"] ELSE Idle
    /\ UNCHANGED <<chain, kept, notes, ui, bundle>>

RebindDeposited ==
    /\ job.op = "deposit" /\ job.at = "rebind"
    /\ \E ls \in Views(job.pool) :
        LET after   == [BindAll(notes, ls, job.pool) EXCEPT ![job.idx].pool = job.pool]
            unbound == {k \in Unspent(after) : ~BoundTo(after[k], job.pool)}
        IN  \E saved \in IF BoundTo(after[job.idx], job.pool) THEN BOOLEAN ELSE {FALSE} :
              /\ SetNotes(after, IF saved /\ unbound # {} THEN Min(unbound)
                                 ELSE IndexOf(after, job.c))
              /\ codes' = IF saved THEN codes \cup {job.c} ELSE codes
    /\ Finish
    /\ UNCHANGED <<env, chain, vault, pool, mode, form, bundle, restarts>>

----------------------------------------------------------------------------
(* Withdrawals. *)

Inputs == IF mode = "merge2" THEN spend ELSE <<sel>>

\* Bug: equal commitments are not told apart.
TwoSpendableByIndex == HasTwoSpendInputs /\ Range(spend) \subseteq BoundUnspent

\* two notes for a merge: both bound here and not the same note twice
TwoSpendable ==
    /\ HasTwoSpendInputs /\ Range(spend) \subseteq BoundUnspent
    /\ notes[spend[1]].c # notes[spend[2]].c

BeginWithdraw(op) ==
    /\ notes # <<>>
    /\ IF mode = "merge2" THEN TwoSpendable ELSE BoundUnspent # {}
    /\ op = "silent" => bundle.mode = mode
    /\ Start([op |-> op, at |-> "leaves", pool |-> pool, notes |-> notes, ls |-> <<>>,
              mode |-> mode, idx |-> Inputs, form |-> form, bundle |-> bundle])
    /\ UNCHANGED <<chain, kept, notes, ui, bundle>>

\* assertSelectedNotesUnspentOnChain: the scan is kept even when it refuses
FinishCheck ==
    /\ job.at = "nullifiers" /\ job.op \in {"prove", "silent"}
    /\ SetNotes(ScanResult, sel)
    /\ LET ok == \A k \in Range(job.idx) :
                    /\ k \in DOMAIN ScanResult /\ ~ScanResult[k].spent
                    /\ job.mode # "merge2" => BoundTo(ScanResult[k], job.pool)
       IN  job' = IF ok THEN [job EXCEPT !.at = "prove", !.notes = ScanResult, !.ls = <<>>]
                   ELSE Idle
    /\ UNCHANGED <<chain, kept, pool, mode, form, bundle>>

\* Bug: a proof is reused without comparing the destination.
ReusableAnyDest(b) ==
    /\ b.mode = job.mode /\ b.tip
    /\ b.idx = job.idx \/ SamePair(b.idx, job.idx)
    /\ job.mode = "partial" => b.form.amount = job.form.amount

\* silent send reuses a proof only for the same notes, destination, amount
\* and with the relayer's tip in it
Reusable(b) ==
    /\ b.mode = job.mode /\ b.tip
    /\ b.idx = job.idx \/ SamePair(b.idx, job.idx)
    /\ b.form.dest = job.form.dest
    /\ job.mode = "partial" => b.form.amount = job.form.amount

\* the prover reads the pool again and opens each note at its first leaf
Proof(ls, out) ==
    [mode |-> job.mode, idx |-> job.idx, root |-> Len(ls), out |-> out,
     ins |-> {<<job.notes[k].c, LeafOf(job.notes[k].c, ls)>> : k \in Range(job.idx)},
     form |-> job.form, tip |-> job.op = "silent"]

\* a merge proof records where it opened its two notes
Opened(ls) ==
    [k \in DOMAIN notes |-> IF k \in Range(job.idx)
                            THEN [notes[k] EXCEPT !.leaf = LeafOf(job.notes[k].c, ls)]
                            ELSE notes[k]]

Prove ==
    /\ job.at = "prove"
    /\ ~(job.op = "silent" /\ Reusable(job.bundle))
    /\ \E ls \in Views(job.pool) :
        /\ \A k \in Range(job.idx) : LeafOf(job.notes[k].c, ls) # NoLeaf
        /\ \E out \in IF job.mode = "partial" THEN {<<c>> : c \in Unused} ELSE {<<>>} :
             /\ IF job.op = "silent"
                THEN /\ job' = [job EXCEPT !.at = "save", !.notes = <<>>,
                                           !.bundle = Proof(ls, out)]
                     /\ UNCHANGED bundle
                     /\ UNCHANGED notes
                ELSE /\ bundle' = Proof(ls, out)
                     /\ notes' = IF job.mode = "merge2" THEN Opened(ls) ELSE notes
                     /\ Finish
    /\ UNCHANGED <<chain, kept, ui>>

ReuseProof ==
    /\ job.at = "prove" /\ job.op = "silent" /\ Reusable(job.bundle)
    /\ job' = [job EXCEPT !.at = "save", !.notes = <<>>]
    /\ UNCHANGED <<chain, kept, notes, ui, bundle>>

\* "Send via wallet": the selections are captured as they are now, the proof
\* is whatever proof of this mode is in memory
BeginWalletSend ==
    /\ ~away /\ bundle.mode = mode /\ notes # <<>>
    /\ Start([op |-> "wallet", at |-> "save", pool |-> pool, mode |-> mode,
              idx |-> Inputs, form |-> form, bundle |-> bundle])
    /\ UNCHANGED <<chain, kept, notes, ui, bundle>>

\* Bug: the change note's code is left for later.
SaveChangeSkipped ==
    /\ job.at = "save"
    /\ bundle' = job.bundle
    /\ job' = [job EXCEPT !.at = "root"]
    /\ UNCHANGED <<chain, kept, notes, ui>>

\* a partial withdrawal shows the change note's code before it is sent
SaveChange ==
    /\ job.at = "save"
    /\ codes' = codes \cup Range(job.bundle.out)
    /\ bundle' = job.bundle
    /\ job' = [job EXCEPT !.at = "root"]
    /\ UNCHANGED <<env, chain, vault, notes, ui, restarts>>

CheckRoot ==
    /\ job.at = "root" /\ RootKnown(job.pool, job.bundle.root)
    /\ job' = [job EXCEPT !.at = "send"]
    /\ UNCHANGED <<chain, kept, notes, ui, bundle>>

Withdrawal == Tx("withdraw", job.bundle.root, job.bundle.ins, job.bundle.out,
                 job.bundle.form.dest)

\* the relayer simulates before it pays; its answer may be lost on the way
SendWithdraw ==
    /\ job.at = "send" /\ Len(txs) < MaxTx
    /\ job.op = "silent" => job.bundle.tip /\ Valid(Withdrawal)
    /\ Submit(Withdrawal)
    /\ \/ job' = [op |-> job.op, at |-> "receipt", pool |-> job.pool, mode |-> job.mode,
                  idx |-> job.idx, out |-> job.bundle.out, tx |-> Len(txs) + 1]
       \/ job.op = "silent" /\ Finish
    /\ UNCHANGED <<leaves, nulls, kept, notes, ui, bundle>>

\* Bug: the wait for a receipt never gives up.
WithdrawUnconfirmedForever ==
    /\ job.op \in {"silent", "wallet"} /\ Receipt("failed")
    /\ Finish
    /\ UNCHANGED <<chain, kept, notes, ui, bundle>>

\* timed out or reverted: reported as a failure, nothing is written
WithdrawUnconfirmed ==
    /\ job.op \in {"silent", "wallet"} /\ job.at = "receipt"
    /\ Finish
    /\ UNCHANGED <<chain, kept, notes, ui, bundle>>

\* finalizeWithdrawSuccess: the captured selection is marked spent, the change
\* note enters the session
FinalizeWithdraw ==
    /\ job.op \in {"silent", "wallet"} /\ Receipt("mined") /\ job.idx # <<>>
    /\ notes' = MarkSpent(notes, Range(job.idx))
                  \o [k \in DOMAIN job.out |-> FreshRecord(job.out[k], job.pool)]
    /\ sel' = RepairedSel(notes', sel)
    /\ spend' = IF job.mode = "merge2" THEN <<>>
                ELSE Kept(spend, Unspent(notes'))
    /\ bundle' = NoProof
    /\ job' = IF job.mode = "partial" THEN [job EXCEPT !.at = "rebind"] ELSE Idle
    /\ UNCHANGED <<chain, kept, pool, mode, form>>

RebindChange ==
    /\ job.op \in {"silent", "wallet"} /\ job.at = "rebind"
    /\ \E ls \in Views(job.pool) :
          SetNotes(BindAll(notes, ls, job.pool), IndexOf(notes, job.out[1]))
    /\ Finish
    /\ UNCHANGED <<chain, kept, pool, mode, form, bundle>>

----------------------------------------------------------------------------
Init ==
    /\ use \in Uses /\ away = FALSE
    /\ leaves = [p \in Pools |-> <<>>] /\ nulls = [p \in Pools |-> {}] /\ txs = <<>>
    /\ codes = {} /\ vault = <<>> /\ restarts = 0
    /\ notes = <<>> /\ sel = 1 /\ spend = <<>> /\ bundle = NoProof /\ job = Idle
    /\ pool \in Pools /\ mode \in Modes /\ form \in Forms

\* what a running job does next
JobStep ==
    \/ AdmitAfterSave \/ ReadLeaves \/ FinishScan \/ Fail
    \/ SendDeposit \/ ConfirmDeposit \/ DepositUnconfirmed \/ RebindDeposited
    \/ FinishCheck \/ Prove \/ ReuseProof \/ SaveChange \/ CheckRoot
    \/ SendWithdraw \/ WithdrawUnconfirmed \/ FinalizeWithdraw \/ RebindChange

Click ==
    \/ \E c \in Notes : BeginCreate(c) \/ BeginImport(c)
    \/ \E k \in DOMAIN notes : BeginDeposit(k)
    \/ BeginSync \/ ExportVault \/ ImportVault \/ BeginWithdraw("prove")
    \/ "relayer" \in Routes /\ BeginWithdraw("silent")
    \/ "wallet" \in Routes /\ BeginWalletSend
    \/ ClearTab
    \/ \E m \in Modes : SwitchMode(m)
    \/ \E p \in Pools : SwitchPool(p)

WhileBusy ==
    \/ \E k \in DOMAIN notes : SelectNote(k) \/ ToggleSpend(k)
    \/ \E f \in Forms : TypeForm(f)
    \/ AutoSelectPair \/ Reload

Chain == \E k \in DOMAIN txs : Mine(k) \/ Drop(k) \/ MineAstray(k)

Next == JobStep \/ Click \/ WhileBusy \/ Chain \/ ChangeNetwork

Spec == Init /\ [][Next]_vars

\* every await of a handler ends: requests and receipts time out, and the user
\* answers or closes a dialog
FairSpec == Spec /\ WF_vars(JobStep)

----------------------------------------------------------------------------
(* Properties. *)

\* A note the tab shows as spent has a spent nullifier in some pool: what can
\* still be spent is never hidden (finalizeWithdrawSuccess marks by index).
ShownSpentIsSpent ==
    \A k \in DOMAIN notes : notes[k].spent =>
        \E p \in Pools : \E nf \in nulls[p] : nf[1] = notes[k].c

\* Every commitment that money was sent to, deposits and change, has been shown
\* to the user as a Recovery Code, so closing the tab at any moment loses
\* nothing (admitNotesAfterMandatorySave, saveChangeNoteOrCancel).
CoveredByCode ==
    /\ \A p \in Pools : Range(leaves[p]) \subseteq codes
    /\ \A k \in DOMAIN txs : txs[k].status = "pending" => Range(txs[k].out) \subseteq codes

\* A leaf index recorded for a pool is where the note lies in that pool, even
\* after syncing with another pool (bindNotesToPublicState).
BoundWhereItLies ==
    \A k \in DOMAIN notes :
        LET n == notes[k]
        IN  n.leaf # NoLeaf /\ n.pool # NoPool =>
              /\ n.leaf + 1 \in DOMAIN leaves[n.pool]
              /\ leaves[n.pool][n.leaf + 1] = n.c

\* A merge spends two different notes, though a session can hold the same note
\* twice: a change note imported from its code, then appended again by a retry.
MergesDistinctNotes ==
    bundle.mode = "merge2" => Cardinality({nf[1] : nf \in bundle.ins}) = 2

\* A withdrawal that was sent pays the destination that was on the form when
\* Send was clicked (recipientMatchesProof).
PaysTypedDestination ==
    [][Len(txs') > Len(txs) /\ txs'[Len(txs')].kind = "withdraw"
         => txs'[Len(txs')].to = job.form.dest]_vars

\* The buttons come back: whatever the chain, the relayer or the RPC do, a job
\* that started ends (waitReceipt gives up, every handler clears busy).
BusyEnds == (job # Idle) ~> (job = Idle)

\* What the tab has the wallet send goes to the network whose pools it shows:
\* it compared the two when the button was clicked (assertWalletNetworkOk).
SendsToOwnNetwork ==
    \A k \in DOMAIN txs : txs[k].status = "pending" => ~txs[k].astray

\* A note that the tab counts as ready to deposit is not already in the pool, so
\* no note is deposited twice.
DepositedOnce ==
    \A p \in Pools : \A i, j \in DOMAIN leaves[p] :
        leaves[p][i] = leaves[p][j] => i = j
=============================================================================
