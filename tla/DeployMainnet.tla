--------------------------- MODULE DeployMainnet ---------------------------
(***************************************************************************)
(* packages/contracts/scripts/deploy-mainnet-ceremony.mjs: twelve creation *)
(* transactions from one fresh deployer, an address recorded after each,   *)
(* reruns that skip what is recorded, and the registries written at the    *)
(* end.  forge and cast are external: they send, wait for a receipt, and   *)
(* may fail before or after the node has the transaction.  The process may *)
(* be stopped between any two of its steps.                                *)
(*                                                                         *)
(* A creation's address is a function of the deployer's nonce, so it is    *)
(* the creation's position on the chain, 1, 2, ...; 0 is no address.  All  *)
(* endpoints show one chain; only their mempools differ.                   *)
(***************************************************************************)
EXTENDS Integers, Sequences, Functions

CONSTANTS Circuits,     \* deposit, withdraw, withdraw1, withdrawPartial
          Assets,       \* eth, dai, lusd
          Fees,         \* fee recipients the operator may configure
          Endpoints,    \* length of the RPC list
          MaxSends, MaxRuns   \* bounds on transactions and on runs of the script

ASSUME DeployAssumption ==
    /\ Circuits \in Seq(STRING) /\ Assets \in Seq(STRING)
    /\ Fees # {} /\ {Endpoints, MaxSends, MaxRuns} \subseteq Nat \ {0}

Poseidon   == <<"poseidon", "">>
Raw(c)     == <<"raw", c>>
Adapter(c) == <<"adapter", c>>
Pool(a)    == <<"pool", a>>

\* for each circuit the raw verifier and then its adapter
CircuitSteps == [i \in 1 .. 2 * Len(Circuits) |->
                    IF i % 2 = 1 THEN Raw(Circuits[(i + 1) \div 2])
                                 ELSE Adapter(Circuits[i \div 2])]
PoolPlan == [i \in DOMAIN Assets |-> Pool(Assets[i])]
Plan  == <<Poseidon>> \o CircuitSteps \o PoolPlan
Steps == Range(Plan)
Verifiers == {s \in Steps : s[1] \in {"raw", "adapter"}}
PoolSteps == {s \in Steps : s[1] = "pool"}
Files == <<"registry", "webRegistry">>

\* the earlier steps whose addresses a step's constructor takes
Needs(s) == CASE s[1] = "adapter" -> {Raw(s[2])}
              [] s[1] = "pool" -> {Poseidon} \cup {Adapter(c) : c \in Range(Circuits)}
              [] OTHER -> {}

VARIABLES chain,        \* creations of the deployer, in nonce order
          pending,      \* creations in some mempool, with their nonces
          recorded,     \* progress.json: the address of each step
          recordedFee,  \* progress.json: the fee recipient, or "none"
          published,    \* the registries: the addresses each lists, or none
          open,         \* the registries with clientsUnlocked true
          script,       \* the running script
          outlive,      \* whether a transaction may stay pending when its sender
                        \* gave up
          sends, runs   \* how many transactions and runs there were

vars == <<chain, pending, recorded, recordedFee, published, open, script, outlive, sends, runs>>
listed == <<published, open>>
saved == <<recorded, recordedFee, listed>>
net  == <<chain, pending, sends>>

Idle == [pc |-> "idle", i |-> 1, before |-> 0, nonce |-> 0, tries |-> 0, fee |-> "none"]
Nothing == [s \in Steps |-> 0]
Nonce == Len(chain)
HasCode(a) == 0 < a /\ a <= Len(chain)
Step == Plan[script.i]
Goto(pc) == script' = [script EXCEPT !.pc = pc]
Throw == script' = Idle

\* A pool takes the fee recipient besides the addresses of other steps.
Creation(s) == [step |-> s, args |-> [n \in Needs(s) |-> recorded[n]],
                fee |-> IF s \in PoolSteps THEN script.fee ELSE "none"]

----------------------------------------------------------------------------
(* The script. *)

\* what the operator configured, whether all of it is there, and whether an
\* endpoint answers for a chain with the tokens and a gas price below the cap
Deployer == "deployer"
Configs == [fee : Fees, broadcast : BOOLEAN, complete : BOOLEAN, fit : BOOLEAN]

Preflight(c) ==
    /\ c.complete /\ c.fit /\ c.fee # Deployer
    /\ "registry" \notin open

\* refused when the progress is for another fee recipient, or when the deployer
\* has sent but nothing was recorded
Resumable(fee) ==
    /\ recordedFee \in {"none", fee}
    /\ Nonce = 0 \/ \E s \in Steps : recorded[s] # 0

Start ==
    /\ script.pc = "idle" /\ runs < MaxRuns /\ runs' = runs + 1
    /\ \E c \in Configs :
          IF Preflight(c) /\ c.broadcast /\ Resumable(c.fee)
          THEN /\ script' = [Idle EXCEPT !.pc = "reuse", !.fee = c.fee]
               /\ recordedFee' = c.fee
          ELSE UNCHANGED <<script, recordedFee>>
    /\ UNCHANGED <<outlive, recorded, listed, net>>

\* on to the next step; before the pools the verifiers must be distinct
Advance ==
    LET next == script.i + 1
        distinct == \A v, w \in Verifiers : v # w => recorded'[v] # recorded'[w]
    IN  script' = IF next > Len(Plan)
                  THEN [script EXCEPT !.pc = "write", !.i = 1]
                  ELSE IF Plan[next] = Pool(Assets[1]) /\ ~distinct THEN Idle
                  ELSE [script EXCEPT !.pc = "reuse", !.i = next, !.tries = 0]

Remember(a) == recorded' = [recorded EXCEPT ![Step] = a] /\ Advance

Reuse ==
    /\ script.pc = "reuse" /\ recorded' = recorded
    /\ \/ HasCode(recorded[Step]) /\ Advance
       \/ ~HasCode(recorded[Step]) /\ Goto(IF script.i = 1 THEN "send" ELSE "nonce")
    /\ UNCHANGED <<outlive, recordedFee, listed, net, runs>>

\* the next endpoint of the list, or the last error
NextEndpoint ==
    script' = IF script.tries + 1 < Endpoints
              THEN [script EXCEPT !.pc = "nonce", !.tries = @ + 1] ELSE Idle

ReadNonce ==
    /\ script.pc = "nonce"
    /\ \/ script' = [script EXCEPT !.pc = "code", !.before = Nonce]
       \/ NextEndpoint
    /\ UNCHANGED <<outlive, saved, net, runs>>

\* the address the next creation would get: code there is taken for this step's
Recover ==
    /\ script.pc = "code"
    /\ IF HasCode(script.before + 1)
       THEN Remember(script.before + 1)
       ELSE Goto("send") /\ recorded' = recorded
    /\ UNCHANGED <<outlive, recordedFee, listed, net, runs>>

\* forge (cast for Poseidon) reads the nonce again, signs and sends
Send ==
    /\ script.pc = "send" /\ sends < MaxSends /\ sends' = sends + 1
    /\ pending' = pending \cup {[nonce |-> Nonce, create |-> Creation(Step)]}
    /\ script' = [script EXCEPT !.pc = "wait", !.nonce = Nonce]
    /\ UNCHANGED <<outlive, saved, chain, runs>>

\* the endpoint fails or refuses; for Poseidon that ends the run
SendFails ==
    /\ script.pc = "send"
    /\ IF script.i = 1 THEN Throw ELSE \E pc \in {"flake", "fatal"} : Goto(pc)
    /\ UNCHANGED <<outlive, saved, net, runs>>

Settled == outlive \/ pending = {}

\* forge prints the address it deployed to
Deployed ==
    /\ script.pc = "wait" /\ Nonce > script.nonce
    /\ chain[script.nonce + 1] = Creation(Step)
    /\ Remember(script.nonce + 1)
    /\ UNCHANGED <<outlive, recordedFee, listed, net, runs>>

\* the wait for the receipt fails, whatever became of the transaction
WaitFails ==
    /\ script.pc = "wait" /\ Settled
    /\ IF script.i = 1 THEN Throw ELSE \E pc \in {"flake", "fatal"} : Goto(pc)
    /\ UNCHANGED <<outlive, saved, net, runs>>

\* Bug: a nonce that has moved is taken for the deployment of this step at the
\* latest address, not at the predicted one.
AfterFailureLatest ==
    /\ script.pc \in {"flake", "fatal"}
    /\ IF Nonce >= script.before
       THEN Remember(script.before + 1)
       ELSE recorded' = recorded /\ NextEndpoint
    /\ UNCHANGED <<outlive, recordedFee, listed, net, runs>>

\* did it land after all?  nonce and code are read one after the other, and both
\* only grow; one that cannot be read counts as a failure, whatever landed
AfterFailure ==
    /\ script.pc \in {"flake", "fatal"}
    /\ \/ /\ Nonce > script.before /\ HasCode(script.before + 1)
          /\ Remember(script.before + 1)
       \/ /\ recorded' = recorded
          /\ IF script.pc = "flake" THEN NextEndpoint ELSE Throw
    /\ UNCHANGED <<outlive, recordedFee, listed, net, runs>>

\* A registry written anew is locked.
ApplyRegistry(f) ==
    /\ published' = [published EXCEPT ![f] = recorded]
    /\ open' = open \ {f}

\* registry and web registry, one file after the other
Write ==
    /\ script.pc = "write"
    /\ ApplyRegistry(Files[script.i])
    /\ script' = IF script.i = Len(Files) THEN Idle ELSE [script EXCEPT !.i = @ + 1]
    /\ UNCHANGED <<outlive, recorded, recordedFee, net, runs>>

Crash ==
    /\ script.pc # "idle" /\ Settled /\ Throw
    /\ UNCHANGED <<outlive, saved, net, runs>>

----------------------------------------------------------------------------
(* Opening the clients. *)

\* every address is there
IsDeployed(f) == \A s \in PoolSteps \cup Verifiers \cup {Poseidon} : published[f][s] # 0

\* Bug: only the fee recipients are compared.
AssertFees ==
    /\ IsDeployed("registry")
    /\ \A s \in PoolSteps : chain[published["registry"][s]].fee = recordedFee

\* assert-mainnet-pools: each pool answers with its asset and the fee recipient.
\* (That clientsUnlocked is still false is the one error left.)
AssertPools ==
    /\ IsDeployed("registry")
    /\ \A s \in PoolSteps :
          LET c == chain[published["registry"][s]]
          IN  c.step = s /\ c.fee = recordedFee

\* the operator sets clientsUnlocked in a registry that was written
Unlock(f) ==
    /\ f \notin open /\ published[f] # Nothing /\ AssertPools
    /\ open' = open \cup {f}
    /\ UNCHANGED <<outlive, recorded, recordedFee, published, script, net, runs>>

\* what a client asks of a registry before it sends
IsLive(f) == f \in open /\ \A s \in PoolSteps : published[f][s] # 0

----------------------------------------------------------------------------
(* The network. *)

Mine ==
    /\ \E t \in pending :
          /\ t.nonce = Nonce
          /\ chain' = Append(chain, t.create)
          /\ pending' = {u \in pending : u.nonce > t.nonce}
    /\ UNCHANGED <<outlive, saved, script, sends, runs>>

Drop == /\ \E t \in pending : pending' = pending \ {t}
        /\ UNCHANGED <<outlive, saved, script, chain, sends, runs>>

Init ==
    /\ chain = <<>> /\ pending = {} /\ recorded = Nothing /\ recordedFee = "none"
    /\ published = [f \in Range(Files) |-> Nothing]
    /\ open = {} /\ script = Idle /\ outlive \in BOOLEAN /\ sends = 0 /\ runs = 0

Next == Start \/ Reuse \/ ReadNonce \/ Recover \/ Send \/ SendFails \/ Deployed
        \/ WaitFails \/ AfterFailure \/ Write \/ Crash \/ Mine \/ Drop
        \/ \E f \in Range(Files) : Unlock(f)

Spec == Init /\ [][Next]_vars

----------------------------------------------------------------------------
\* Whatever failed and however often the script was stopped and run again, the
\* address recorded for a step is that of the step's own contract.
OwnContract ==
    \A s \in Steps : HasCode(recorded[s]) => chain[recorded[s]].step = s

\* So it is as long as no creation is mined after its sender gave up on it: a
\* predicted address is recorded without comparing the code that is there.
OwnContractOnceSettled == ~outlive => OwnContract

\* What the clients take as live works: whatever was mined late, each pool it
\* lists is the pool of its asset and calls the contracts listed with it
\* (assert-mainnet-pools, and runs refused while the registry is unlocked).
LiveIsWired ==
    \A f \in Range(Files), s \in PoolSteps : IsLive(f) =>
        LET c == chain[published[f][s]]
        IN  c.step = s /\ \A n \in Needs(s) : c.args[n] = published[f][n]
=============================================================================
