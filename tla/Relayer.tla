------------------------------ MODULE Relayer ------------------------------
(***************************************************************************)
(* The relayer's HTTP handler (packages/relayer/src/server.mjs 187-347 and *)
(* allowlist.mjs) between the clients that post withdrawals to it and the  *)
(* chain.  Each request runs in its own async handler; a handler yields at *)
(* every await, so requests interleave between validation, simulation and  *)
(* broadcast, and the chain moves in between.                              *)
(*                                                                         *)
(* The pool is what the relayer can see of it: leaves, a window of known   *)
(* roots, spent nullifiers, and whether the accounts a withdrawal pays     *)
(* take the payment.  viem and the node are external: sending may fail     *)
(* before or after the transaction reached the node, and the gas limit is  *)
(* an estimate on a block the node chooses.                                *)
(***************************************************************************)
EXTENDS Integers, Sequences, FiniteSets

CONSTANTS Requests,     \* HTTP requests, one handler each
          Bodies,       \* what clients may post
          Pools,        \* ShieldedPools of this relayer's network
          Registry,     \* addresses below "pools" in the network's registry
          ChainId,      \* chain id in the registry
          Selectors,    \* withdraw, withdraw1, withdrawPartial1
          PoolPpm,      \* each pool's own withdraw fee; old pools are listed too
          RelayerPpm,   \* the relayer's copy of that rate
          ClientPpm,    \* the client's copy
          Denominator,
          Extras,       \* what a client's silent proof may add to the floor
          RootWindow,   \* how many leaves back a root stays known
          TreeCapacity, \* how many leaves a pool takes
          Payees,       \* accounts that withdrawals pay
          Contracts,    \* those with code, which may refuse ETH
          FeeRecipient

Share(amount, ppm) == (amount * ppm) \div Denominator

PoolFloor(p, amount) == Share(amount, PoolPpm[p])
RelayerFloor(amount) == Share(amount, RelayerPpm)
ClientFloor(amount)  == Share(amount, ClientPpm)

Body == [chain : Nat, to : Registry \cup Pools \cup {"elsewhere"}, sel : STRING,
         amount : Nat, fee : Nat, nf : STRING, root : Nat, proof : BOOLEAN,
         payee : Payees, extra : {"none", "secret"}]

ASSUME RelayerAssumption ==
    /\ Pools \subseteq Registry
    /\ Bodies \subseteq Body
    /\ Denominator \in Nat \ {0}
    /\ PoolPpm \in [Pools -> Nat] /\ {RelayerPpm, ClientPpm} \subseteq Nat
    /\ Extras \subseteq Nat \ {0}

ASSUME RelayerWindow ==
    /\ RootWindow \in Nat /\ TreeCapacity \in Nat \ {0} /\ Bodies # {}
    /\ Contracts \subseteq Payees /\ FeeRecipient \in Payees
    /\ Pools \cap Payees = {}

VARIABLES at,           \* per request: where its handler is, or how it answered
          body,         \* per request: what was posted
          leaves,       \* number of leaves of each pool
          spent,        \* spent nullifiers of each pool
          mempool,      \* requests whose transaction is pending
          mined,        \* per request: "no", "success" or "reverted"
          refusing,     \* contracts that refuse a payment as things stand
          since         \* history, per request: what changed since it was
                        \* simulated, of the payees and the tree it touches

vars  == <<at, body, leaves, spent, mempool, mined, refusing, since>>
chain == <<leaves, spent, mempool, mined, refusing>>

\* answers: 200 with a hash, 400, 500
Answers == {"ok", "refused", "failed"}
Open(r) == at[r] \in {"read", "simulate", "send", "lost"}
Advance(r, to) == at' = [at EXCEPT ![r] = to]

----------------------------------------------------------------------------
(* What the relayer checks by itself. *)

\* fields named for secrets, the chain, the target, the selector
ValidateRelayRequest(b) ==
    /\ b.extra # "secret"
    /\ b.chain = ChainId
    /\ b.to \in Registry
    /\ b.sel \in Selectors

SilentFeeCoversRelayer(b) == b.fee > RelayerFloor(b.amount)

\* what a client builds for Silent send, and when it reuses a proof
SilentFee(amount, tip) == ClientFloor(amount) + tip
HasSilentRelayerTip(fee, amount) == fee > ClientFloor(amount)

\* the accounts a withdrawal pays; nobody is paid nothing
Paid(b) == (IF b.fee > 0 THEN {FeeRecipient} ELSE {})
           \cup (IF b.fee < b.amount THEN {b.payee} ELSE {})

Grows(b) == b.to \in Pools /\ b.sel = "withdrawPartial1"

\* the pool, asked in its present state; an address without code takes anything
WouldSucceed(b) ==
    b.to \in Pools =>
       /\ b.proof
       /\ b.root <= leaves[b.to] /\ leaves[b.to] - b.root <= RootWindow
       /\ b.nf \notin spent[b.to]
       /\ PoolFloor(b.to, b.amount) <= b.fee /\ b.fee <= b.amount
       /\ Grows(b) => leaves[b.to] < TreeCapacity
       /\ Paid(b) \cap refusing = {}

\* what the gas of a withdrawal depends on beside its calldata: a contract's
\* code or an emptied token balance at the other end, the slots of the tree
Touches(b) ==
    IF b.to \notin Pools THEN {}
    ELSE Paid(b) \cup (IF Grows(b) THEN {b.to} ELSE {})

----------------------------------------------------------------------------
(* The handler. *)

PostRelay(r, b) ==
    /\ at[r] = "free" /\ Advance(r, "read")
    /\ body' = [body EXCEPT ![r] = b]
    /\ UNCHANGED <<chain, since>>

\* the body arrived: everything up to the first await of handleRelay
Validate(r) ==
    /\ at[r] = "read"
    /\ IF ValidateRelayRequest(body[r]) /\ SilentFeeCoversRelayer(body[r])
       THEN Advance(r, "simulate") ELSE Advance(r, "refused")
    /\ UNCHANGED <<body, chain, since>>

\* the body is too large, is no JSON, or the client hung up
ReadFails(r) ==
    /\ at[r] = "read" /\ Advance(r, "failed")
    /\ UNCHANGED <<body, chain, since>>

\* Bug: the transaction is sent without a simulation.
SimulateNothing(r) ==
    /\ at[r] = "simulate" /\ Advance(r, "send")
    /\ UNCHANGED <<body, chain, since>>

\* the call succeeds now, or it or its endpoint fails
Simulate(r) ==
    /\ at[r] = "simulate"
    /\ \/ WouldSucceed(body[r]) /\ Advance(r, "send")
       \/ Advance(r, "refused")
    /\ UNCHANGED <<body, chain, since>>

InFlight(r) == at[r] = "send" \/ r \in mempool
Changed(what) ==
    since' = [r \in Requests |->
                 IF InFlight(r) THEN since[r] \cup ({what} \cap Touches(body[r]))
                 ELSE since[r]]

\* the node has the transaction, and the client its hash
Send(r) ==
    /\ at[r] = "send" /\ Advance(r, "ok")
    /\ mempool' = mempool \cup {r}
    /\ UNCHANGED <<body, leaves, spent, mined, refusing, since>>

\* Bug: only an error of validation is answered.
SendThrowsUnanswered(r) ==
    /\ at[r] = "send" /\ Advance(r, "lost")
    /\ mempool' \in {mempool, mempool \cup {r}}
    /\ UNCHANGED <<body, leaves, spent, mined, refusing, since>>

\* sending throws: no funds, a nonce taken by another request, a lost reply;
\* in the last case the node has the transaction all the same
SendThrows(r) ==
    /\ at[r] = "send" /\ Advance(r, "refused")
    /\ mempool' \in {mempool, mempool \cup {r}}
    /\ UNCHANGED <<body, leaves, spent, mined, refusing, since>>

----------------------------------------------------------------------------
(* The chain. *)

Insert(p) == leaves' = [leaves EXCEPT ![p] = @ + 1] /\ Changed(p)

\* what a withdrawal that succeeds does to its pool
TakesEffect(b) ==
    /\ spent' = IF b.to \in Pools THEN [spent EXCEPT ![b.to] = @ \cup {b.nf}] ELSE spent
    /\ IF Grows(b) THEN Insert(b.to) ELSE UNCHANGED <<leaves, since>>

\* the limit was estimated before what the transaction touches changed
MayRunOutOfGas(r) == since[r] # {}

Mine(r) ==
    /\ r \in mempool /\ mempool' = mempool \ {r}
    /\ \/ /\ WouldSucceed(body[r]) /\ TakesEffect(body[r])
          /\ mined' = [mined EXCEPT ![r] = "success"]
       \/ /\ ~WouldSucceed(body[r]) \/ MayRunOutOfGas(r)
          /\ mined' = [mined EXCEPT ![r] = "reverted"]
          /\ UNCHANGED <<spent, leaves, since>>
    /\ UNCHANGED <<at, body, refusing>>

\* other people's deposits, and the same withdrawal sent from a wallet
Deposit(p) == /\ leaves[p] < TreeCapacity /\ Insert(p)
              /\ UNCHANGED <<at, body, spent, mempool, mined, refusing>>

SpendElsewhere(b) ==
    /\ b.to \in Pools /\ WouldSucceed(b) /\ TakesEffect(b)
    /\ UNCHANGED <<at, body, mempool, mined, refusing>>

\* a contract changes its mind, or an account spends the last of its tokens
PayeeChanges(a) ==
    /\ refusing' \in {refusing, refusing \cup ({a} \cap Contracts), refusing \ {a}}
    /\ Changed(a)
    /\ UNCHANGED <<at, body, leaves, spent, mempool, mined>>

Init ==
    /\ at = [r \in Requests |-> "free"] /\ body \in [Requests -> {CHOOSE b \in Bodies : TRUE}]
    /\ leaves = [p \in Pools |-> 1] /\ spent = [p \in Pools |-> {}]
    /\ mempool = {} /\ mined = [r \in Requests |-> "no"]
    /\ refusing = {} /\ since = [r \in Requests |-> {}]

Handler(r) == Validate(r) \/ ReadFails(r) \/ Simulate(r) \/ Send(r) \/ SendThrows(r)

Next ==
    \/ \E r \in Requests : Handler(r) \/ Mine(r) \/ \E b \in Bodies : PostRelay(r, b)
    \/ \E p \in Pools : Deposit(p)
    \/ \E b \in Bodies : SpendElsewhere(b)
    \/ \E a \in Payees : PayeeChanges(a)

Spec == Init /\ [][Next]_vars

\* the event loop runs every handler on, and every await settles
FairSpec == Spec /\ \A r \in Requests : WF_vars(Handler(r))

----------------------------------------------------------------------------
(* Properties. *)

Sent     == mempool \cup {r \in Requests : mined[r] # "no"}
Reverted == {r \in Requests : mined[r] = "reverted"}

\* The relayer pays for a failed withdrawal only when something happened after
\* its simulation at server.mjs:273 that no simulation can exclude: the
\* nullifier was spent, the root pushed out, the tree filled or moved on from
\* where the gas was estimated, or an account to be paid changed its mind.
\* Never for what the relayer could have seen: a proof that does not verify, a
\* fee below the floor the pool counts by its own rate, a payee that refuses.
RevertsOnlyWhenOvertaken ==
    \A r \in Reverted :
        LET b == body[r]
        IN  /\ b.proof /\ PoolFloor(b.to, b.amount) <= b.fee /\ b.fee <= b.amount
            /\ \/ b.nf \in spent[b.to]
               \/ leaves[b.to] - b.root > RootWindow
               \/ since[r] # {}

\* Client and relayer agree on the tip: a fee a client builds for Silent send,
\* or finds good enough to reuse a proof, is never refused for being too low.
ClientTipIsTaken ==
    \A r \in Requests : at[r] = "read" =>
        LET b == body[r]
        IN  /\ HasSilentRelayerTip(b.fee, b.amount) => SilentFeeCoversRelayer(b)
            /\ \A t \in Extras :
                  SilentFeeCoversRelayer([b EXCEPT !.fee = SilentFee(b.amount, t)])

\* Every request is answered, whatever validation, node and chain do.
EveryRequestAnswered == \A r \in Requests : Open(r) ~> at[r] \in Answers

\* "Accepts only { chainId, to, data } for allowlisted pools": what is broadcast
\* is addressed to a ShieldedPool.
RelaysOnlyToPools == \A r \in Sent : body[r].to \in Pools
=============================================================================
