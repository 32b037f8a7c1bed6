# AnonGate: models and proofs

This directory specifies AnonGate in TLA+: the shielded pool contract with its
Merkle tree and root history, the parts of the circuits and clients that have to
agree with them, the web wallet, the command line and Python clients, the
relayer, the attestation registry, the key ceremony, the mainnet deployment and
the scripts that validate a live deployment. TLC checks the modules on small
instances; TLAPS proves the safety properties of all passing runs for every value
of the constants, except the two about those scripts. What eventually happens, in
the web wallet and in and around the relayer, is only model-checked.

Paths below are relative to the root of the repository, with `contracts/` for
`packages/contracts/src/`, `sdk/` for `packages/sdk-core/src/`, `circuits/` for
`packages/circuits/src/`, `web/` for `apps/web/src/`, `ap.mjs` for
`packages/cli/bin/ap.mjs`, `scripts/` for `packages/cli/scripts/` and `python/`
for `packages/python-client/absolute_privacy/`.

Contents: [the system](#the-system), [hard behaviours](#hard-behaviours),
[modules](#the-modules), [the pool](#shieldedpool-and-the-code),
[web wallet](#webwallet-and-the-code), [file clients](#cliwallet-pythonclient-and-the-code),
[formats](#calldata-notebackup-disclosure-and-the-code),
[relayer](#relayer-and-the-code), [deployment and ceremony](#deploymainnet-ceremony-and-the-code),
[live scripts](#livescripts-and-the-code),
[runs](#the-runs), [bounds](#bounds-and-why-they-are-enough),
[fairness](#fairness), [proofs](#proofs), [disagreements found](#disagreements-found),
[what is not modelled](#what-is-not-modelled), [plan](#plan).

## The system

A user turns assets into *notes*: a note is a commitment
`Poseidon(value, keys, blinding)`, a leaf of the pool's Merkle tree. To withdraw
the user proves, in zero knowledge, to know a note under a recent root of that
tree, and publishes the note's *nullifier*, which the pool accepts once.

| component | state it keeps | operations | what makes it correct |
|---|---|---|---|
| **ShieldedPool** (`contracts/ShieldedPool.sol`) | tree, ring of recorded roots with occurrence counts, spent nullifiers, gas reserve, counters, and its ETH and token balances | `deposit`, `withdraw1`, `withdraw` (two notes), `withdrawPartial1` (change note), `receive`/`fundGasReserve`, views | no note is spent twice; the pool holds what it owes; every unspent note stays redeemable; the roots known are the recent ones; a call that fails leaves no trace |
| **IncrementalMerkleTree** (`contracts/lib/`) | next index, root, the left siblings of the last path | `initialize`, `insert` | its root is that of the full tree over the same leaves |
| **Circuits** (`circuits/*.circom`) | none | relations of deposit, withdraw, withdraw1, withdrawPartial, ownership, value bound | a proof opens one leaf at one index, and that index determines the nullifier |
| **Ceremony verifiers** (`contracts/verifiers/ceremony/`) | keys | `verifyProof` | every public input is a reduced field element, so a nullifier has one accepted word |
| **Attestation anchors** (`contracts/*AttestationAnchor.sol`) | digest -> poster, kind, time | `postAttestation`, `postValueBoundProof`, `postOwnershipProof` | the first post stands; what a client anchored can be found again |
| **sdk-core** (`sdk/`) | none of its own; documents | rebuild the tree, make a path, invert the deposit fee, split notes, encode and seal notes, disclose them | the client's root, path and amounts are the pool's; notes survive their files; secrets reach only recipients |
| **Relayer** (`packages/relayer/`) | requests in flight, gas funds; two processes with their own env files | check, simulate and broadcast a withdrawal | it pays only for reverts that its simulation could not have shown; it answers every request; the launcher leaves no network unserved |
| **Web wallet** (`web/App.tsx` and helpers) | one tab: notes with a status and a leaf index, selections, a form, proofs in memory | create, restore, sync, deposit, prove, send by wallet or relayer, vault files | no money goes to a note whose code the user never saw; marks and leaf indices are true; buttons come back |
| **Command line client** (`packages/cli`), **Python client** (`packages/python-client`) | note store, public state, proofs, call files, envelopes, backups | one process for each command, on shared files | the same, though commands overlap or stop |
| **Mainnet deployment** (`packages/contracts/scripts`) | progress file, two registries, the deployer's nonce | twelve creations, resumed after failures; checks; opening the clients | what clients take as live is wired as recorded |
| **Ceremony tooling** (`packages/circuits/scripts`) | kit, archive of rounds, final keys, manifest | start, accept, finalize, pin, export, pin code hashes | contributions build on each other; files that match the manifest are of one key |
| **Live validation scripts** (`scripts/sepolia-*.mjs`, `local-e2e-smoke.mjs`) | the files of a work directory; pools and wallets on a network | sequences of commands of the command line client, through the life of notes | money that was deposited or paid to a fresh wallet stays reachable from the directory, wherever a script stops; its commands work |

How they interact. A client calls `deposit` directly; a withdrawal goes to the
pool from the user's account or from the relayer's. The pool calls the verifier
and the Poseidon contract (pure), the token (ERC-20 pools), and, when it pays
native ETH, the accounts it pays: the fee recipient, the recipient of the
withdrawal, and the sender, in this order. Those accounts run code of their own
in the middle of the pool's handler and may call the pool again. Clients follow
the pool through its public state: leaves, root, spent nullifiers. The Python
client reads and writes the files of the command line client and runs it for
whatever needs a proof or a seal. The ceremony's keys go into the verifiers that
the deployment creates; the deployment's registry is what relayer and clients
take the pools' addresses from.

## Hard behaviours

- **Callbacks.** The pool has no reentrancy guard. Each of its three native
  payments hands control to another account in the middle of a handler; what
  nested calls did is undone when an outer one reverts, but a refused *rebate*
  reverts nothing except itself.
- **Sharing.** User principal and rebate reserve are one ETH balance. The
  liquidity check is made once, before up to three payments.
- **The ring.** Roots are evicted by count with an unchecked decrement, one slot
  per record modulo the size; a root may occur in several slots.
- **Limits.** A full tree; fees that round to zero; amounts beyond the circuits'
  128 bits; shifts of 32-bit words at the greatest depths.
- **Three computations of one tree**: incremental in Solidity, layer by layer in
  TypeScript, path folding in Circom. **Three encoders** of one call and **three
  readers** of one note file, in two languages, laid out by hand.
- **Awaits in the wallet.** A handler works with what its closure captured while
  selections, form, list and the browser's network move on; receipts time out
  while the transaction lives on.
- **Processes on shared files.** Commands read a file, ask the network, write the
  file over what others wrote; each may stop between two writes.
- **Requests in flight.** The relayer simulates, then sends; the pool, the payees and
  what the gas was estimated on move in between, a reply may be lost after the node
  has the transaction. Three parties compute one fee floor, each with its own rate.
- **Shared keys.** The tag of a view package or receipt is made and checked with the
  same key: whoever may check one can make one.
- **Stopped scripts.** Deployment and ceremony stop between an effect and its
  record and are run again; creations are mined late, endpoints differ. The live
  scripts stop between a deposit and the spending of its note, and one continues
  where another ended.

`PROJECT.json` lists each hazard with the line where it bites and the properties
that would catch it. One has no property in a run: the network of the browser's
wallet ([below](#disagreements-found)).

## The modules

| module | models | uses |
|---|---|---|
| `RootRing` | the ring of roots as pure operators on a record: `RecordRoot`, `IsKnownRoot`, `RootHistoryAt` | |
| `RecentRoots` | abstract: a sliding window of roots | |
| `RootHistory` | `RootRing` as a state machine of its own, which records arbitrary roots, repeated ones too, and implements `RecentRoots` | `RootRing` |
| `MerkleTree` | `IncrementalMerkleTree.insert`, the client's `buildMerkleTree`/`getMerklePath`, the circuit's path check | |
| `NoteLedger` | abstract: an atomic ledger of notes and a vault | |
| `ShieldedPool` | the pool contract with callbacks and reverts; implements `NoteLedger` | `RootRing`, `NoteLedger` |
| `DepositAmount` | the client's inversion of the deposit fee against the pool's arithmetic | `NoteSplit` |
| `DepositFee` | the arithmetic of the deposit fee and its inversion | |
| `NoteSplit` | how a total is divided into notes, suggested or by hand | `DepositFee` |
| `AttestationAnchor` | the registry with the client's two digests and its lookup | |
| `WebWallet` | one tab of the web wallet with the pools and the mempool | |
| `CliWallet` | the commands of the command line client as processes on files | |
| `PythonClient` | the Python client's own commands, beside those of `CliWallet` | `CliWallet` |
| `Calldata` | proof file, call file, transaction: three encoders and the contract's decoding | `DepositAmount` |
| `NoteBackup` | notes sealed, encoded, recoded, damaged and read by three clients | |
| `Base58` | the characters of a recovery code | |
| `Disclosure` | view packages, receipts, proofs, reveals and sealed notes, passed on and combined | |
| `Relayer` | concurrent `POST /v1/relay` requests against pools that others use | |
| `RelayerBoot` | env files, networks, ports and RPC at start, and `start-both.mjs` | |
| `DeployMainnet` | preflight, the resumable broadcast, registries, `assert-mainnet-pools`, opening | |
| `Ceremony` | rounds, beacon, pins, export, code hashes, as commands of several writes | |
| `LiveScripts` | the live validation scripts as programs of commands, stopped anywhere | |
| `NumberTheorems` | lemmas: induction, recursive functions, sums over finite sets, remainders | |
| `ShieldedPool_proofs` | proofs about the pool | `ShieldedPool` |
| `PoolParts_proofs` | proofs about the ring, the tree, deposit quotes and splits, transactions, and a pool of a token | `RootHistory`, `MerkleTree`, `DepositAmount`, `Calldata`, `ShieldedPool` |
| `NoteBackup_proofs` | proofs about note files | `NoteBackup` |
| `WebWallet_proofs`, `CliWallet_proofs`, `DeployMainnet_proofs` | proofs | `WebWallet`; `PythonClient` (both file clients); `DeployMainnet` |
| `Operations_proofs` | proofs | `Relayer`, `Ceremony`, `Disclosure`, `AttestationAnchor` |
| `MC*` | instances | |

`MCPoolParts` puts seven machines that share no state into one run (`quote`,
`ring`, `tree`, `token`, `wire`, `note`, `script`), `MCOperations` four (`deploy`,
`anchor`, `keys`, `paper`), `MCRelayer` two (`relay`, `boot`): the variable `part` is chosen at the start, and only
the actions of that part are enabled, so the states are the sum and not the
product of the parts.

Other variables that never change select an environment at the start: `use` in
`WebWallet` and `CliWallet` (which operations are used, how carefully, and the
bounds), `topic` in `Disclosure`, `proof` and `native` in `Calldata`, `env` in
`NoteBackup` (the passphrase variable), `outlive` in `DeployMainnet` (whether a
creation may be mined after its sender gave up on it), `lab` in `LiveScripts` (the
scripts of the work directory, the depth of pools and keys, whether it is Windows).

Definitions introduced by a comment "Mutant of X" or "Bug:" are wrong versions
of the code. No specification uses them: they record which plausible mistake each
property catches.

`buildMerkleTree` throws on a list longer than `1 << depth` before it computes
anything. In `MerkleTree` that check is the predicate `Rebuildable` and the
computation is `ClientRoot`: the first is what fails at the depths of
`MerkleClientWidth`, the second is what `ClientRebuildsRoot` compares.

`MerkleTree` justifies the main abstraction of `ShieldedPool`, where a root is
*the number of leaves it commits to*: `RootNamesPrefix` says that two different
states of one growing tree have different roots, `OpensOnlyWhereItIs` that a path
against such a root opens a leaf only at its own index. The ring is the same
operators (`RootRing`) in `RootHistory` and in `ShieldedPool`. The wallet modules
see the pool through `RootKnown`, nullifiers and appended leaves, which is what
`ShieldedPool` promises (`KnownRootsAreTheLatest`, `NoLeafSpentTwice`).

## ShieldedPool and the code

`pool` is the contract's storage and balances, one record, so that a revert is
one assignment. Its fields have the names of the Solidity variables; `leaves`
stands for the tree and the `commitments` mapping. Three fields are history,
which no action's guard reads: `noteValue` and `timesSpent` describe notes,
`surplus` is what arrived outside `deposit()` (tokens sent to the contract,
forced ETH). `surplus` is also bounded by `MaxSurplus` in the action that raises
it. `stack` is the calls in progress, innermost last; a frame keeps the
call's parameters, the place it has reached (`phase`) and the storage it reverts
to (`undo`).

A handler is one action up to its first payment and one for each piece between
two payments. Everything the handler does before it gives control away is in the
action:

| phase | code that runs next | actions |
|---|---|---|
| (entry) | checks, proof, marks, change insert, liquidity check | `Deposit`, `Withdraw1`, `Withdraw`, `WithdrawPartial1` |
| `fee` | `_payFee` | `PayNoFee`, `PayFee` |
| `inFee` | the fee recipient's code | any entry, `FeeReturns`, `Revert` |
| `insert` | `deposit` after the fee: insert, record root, count | `InsertDeposit`, `Revert` (TreeFull) |
| `payout` | `_payAsset(recipient, amount - fee)` | `PayNothing`, `PayRecipient`, `PayPool`, `Revert` |
| `inPayout` | the recipient's code | any entry, `PayoutReturns`, `Revert` |
| `rebate` | `_maybeRebateRelayer` | `SkipRebate`, `PayRebate` |
| `inRebate` | the sender's code | any entry, `RebateReturns`, `RebateFails` |

A revert before any external call leaves no trace, so its condition is a guard.
Later ones are the action `Revert`: the callee refuses, the balance does not
cover the payment, or the tree is full. ERC-20 pools give away control only in
the rebate: `asset` is an ordinary token without callbacks.

Data. A commitment is an identity with its value (Poseidon binds both; the same
commitment may be deposited twice). A nullifier is `Poseidon(key, commitment,
index)`, modelled as the pair of leaf index and commitment, as a 256-bit word
that may also be written as the same field element plus the modulus (`alias`); the verifier's
`checkField` (`InField`) is what rules the second word out. A proof is the
relation its circuit enforces, with a
prover who knows every note: nothing here depends on who holds which key. The
checks of `tierCode`, array lengths, zero addresses, the field check of the
recipient and events have no effect on state other than a revert at entry and
are left out.

`AssetBalance - gasReserveEth - surplus` (`Held`) is what the users' notes are
backed by. A withdrawal to the pool's own address re-enters `receive()`, which
files the payout under the gas reserve (`PayPool`).

## WebWallet and the code

A click starts a `job`, an async handler of `App.tsx`. A job has the place it
waits at (`at`) and what its closure captured; every await is a boundary between
two actions, and what a handler writes back it writes to the tab as it then is.
While a job runs the buttons are disabled (`Start` needs `job = Idle`), except
that notes may be selected and the form typed into, the withdraw page selects a
pair by itself, the tab may be closed, and the browser's wallet may change its
network.

| job | places it waits at | actions |
|---|---|---|
| create | the code is shown | `BeginCreate`, `AdmitAfterSave` |
| import, sync, vault | reads of leaves, then of nullifiers | `BeginImport`, `BeginSync`, `ImportVault`, `ReadLeaves`, `FinishScan` |
| deposit | dialogs, proof, approval; receipt; reading the pool | `BeginDeposit`, `SendDeposit`, `ConfirmDeposit`, `DepositUnconfirmed`, `RebindDeposited` |
| prove | scan of the inputs, proof | `BeginWithdraw("prove")`, `FinishCheck`, `Prove` |
| silent send | the same or a proof in memory; the relayer; receipt; reading the pool | `BeginWithdraw("silent")`, `FinishCheck`, `Prove` or `ReuseProof`, `SaveChange`, `CheckRoot`, `SendWithdraw`, `WithdrawUnconfirmed`, `FinalizeWithdraw`, `RebindChange` |
| wallet send | the same, from a proof in memory | `BeginWalletSend`, `SaveChange`, ... |

`Fail` ends a job wherever it waits for something that may fail or a dialog that
may be closed. Reads come from public endpoints that may be a few leaves behind
(`Views`). Transactions are mined late, revert, or are never mined (`Mine`,
`Drop`); `eth_sendTransaction` names no network, so one sent while the wallet is
elsewhere is included there and does nothing to a pool (`MineAstray`). Values are
left out: a partial withdrawal has one of two amounts only where the form's
amount matters to the reuse of a proof. `ToggleSpend` keeps the first two notes
selected, as `slice(0, 2)` does.

## CliWallet, PythonClient and the code

The state is the files: note store, change notes, sealed envelopes, backups,
public state, proofs, call files. A command that neither asks the network nor
proves between reading and writing is one step (`AtOnce`); the others are jobs of
several (`NoteScan`, `NoteAccept`, `NoteMailboxScan`, `StateFetch`, the provers),
which hold in memory what they read and may be stopped (`Stop`). A record is a
commitment, a leaf index and the hint; a nullifier is a commitment at a leaf; the
sequence of commitments of a state stands for its root. A missing file reads as
the empty one, which commands that need its content refuse as well.

`PythonClient` adds the Python client's own reading and writing: it creates
notes one append at a time, fetches the state (the anchor first, then the
leaves up to it, which it compares before it writes), scans, and leaves proofs, seals and calldata to
`ap.mjs`, whose steps it reuses under its own file names.

A way of using the clients (`Uses`) says which commands are typed, how many run
together, and three cares: `apart`, commands that rewrite the store do not
overlap; `merge`, imports merge instead of replacing; `own`, output files have
names of their own. `SecretsKept` is promised to careful users only: without them
the code loses notes, by design of its file names and its last-write-wins store.

## Calldata, NoteBackup, Disclosure and the code

`Calldata`: from a proof file to the words of a transaction. The builders of the
command line client (with what they compare first), the encoders of all three
clients with their literal head sizes, the contract's decoder, and what the
verifier is then asked. A word is a number, a selector a name, some values of the
instance look like lengths or offsets so that words in the wrong place are taken
for something. The export by snarkjs is taken as the proof's words.

`NoteBackup`: the binary layout of sealed and plain notes byte by byte, written
by TypeScript and by Python, the codes around it, JSON envelopes, vault backups,
passphrases and their sources. Derived bytes are free terms that name what they
come from, so sealing and checksums are injective and nothing else is assumed of
them. A byte may be changed or the file cut (`Spots`). `Base58` is checked apart:
an assumption decodes what it encodes for sample strings, and shows the one
exception, a string of zeros alone, which gains two (no code is one).

`Disclosure`: what the holder of a note tells others. Every file is a record
whose tags, seals and proofs are terms only their inputs produce. Who can read a
secret is computed from the files a party has (`Reads`, `Unseals`): it is in the
clear, or sealed under a passphrase the party was told, or to the public key of
which it has the private one. Files are passed on, changed in the clear (another
leaf or value, the claim of another file, the name of another kind, the printed
claim or the signals of a proof) and combined. Secrets in the clear are passed on
only by the holder, private keys by nobody.

The tags of view packages and receipts are hashes under the view key
(`viewKey.ts:69-95`), which is what verifying them takes. So a party that has a view
key, from the holder, from another party, or derived from secrets it may read
(`DeriveKey`), makes packages with it over any claim (`Pack`), and these verify.
`packed` is history: who made packages with the view key of which note; no guard
reads it. `Reported` is what the verifying commands print. For packages that is the
claim they checked. For a Groth16 file it is two things: the signals the proof was
verified with, and the file's own `claim`, which nothing compares with them
(`ap.mjs:1660-1683`, `1787-1812`). `VerifiedIsStated` speaks of each accordingly: a
package that verifies has the holder's own claim of that very note, from a file of
that kind, *unless* somebody else made packages with that key; the signals of a
proof are true whatever is printed beside them. It promises nothing about the
printed claim of a proof.

## Relayer and the code

A request is at `read`, `simulate` or `send`, the awaits of `handleRelay`;
everything between two of them is one action (`Validate`, `Simulate`, `Send`),
with the failures of each (`ReadFails`, `SendThrows`; after the last the node may
have the transaction all the same). Pools have leaves and nullifiers, and others
deposit and withdraw at any time (`Deposit`, `SpendElsewhere`). An address without
code answers any call with success, as the EVM does.

`WouldSucceed` is the pool's answer to a call in its present state: proof, root,
nullifier, the bounds of the fee, room for the change note of `withdrawPartial1`,
and that nobody who is paid refuses. The same operator answers the simulation and
decides what happens when the transaction is mined, on two different states. The
three fee rules have a rate each: the pool's (`PoolFloor`, one for each pool, since
obsolete pools stay in the registry), the relayer's copy (`RelayerFloor`) and the
client's (`ClientFloor`).

A simulated transaction may revert when mined because its nullifier was spent, its
root was pushed out of the ring, a contract it pays has come to refuse, or the tree
it grows was filled in between. It may also run out of gas, the limit being an
estimate on an earlier state (`MayRunOutOfGas`): what it uses depends on the code at
the other end of a payment, a token balance that is no longer empty or became so,
and the slots its leaf goes to. `since` records which of these changed after the
simulation. `RevertsOnlyWhenOvertaken` says that nothing else makes the relayer pay
for a revert, in particular neither a bad proof nor a fee outside the bounds of the
pool it was sent to, although the relayer checks it by a rate of its own.

Left out of `WouldSucceed`: the liquidity check and uncovered payments, which the
pool excludes (`NeverShort`, `HoldsWhatItOwes`); payees that call the pool again,
which `ShieldedPool` has; the rebate, whose failure reverts nothing. Only contracts
refuse ETH; the tokens are ordinary ones.

`RelayerBoot` is what `server.mjs` does before it listens, and `start-both.mjs`. An
environment is a function from names of variables to values. The env file comes
from `--env-file`, `RELAYER_ENV_FILE`, `RELAYER_NETWORK` or the files there are
(`EnvFile`); what it sets, be it to nothing, hides the shell's (`Env`); network,
port, endpoint and key follow, with every early exit (`Starts`). A port that is
taken ends a process too. `LaunchedServesBoth`: when a child of the launcher stops,
for any of these reasons or later, the launcher does not run on with its network
unserved. A child that goes on alone after the launcher ended is allowed, as in the
code, which does not kill it.

## DeployMainnet, Ceremony and the code

`DeployMainnet`: `Start` is preflight and the checks of a resumed run, `Reuse`,
`ReadNonce`, `Recover`, `Send`, `SendFails`, `Deployed`, `WaitFails`,
`AfterFailure` (which looks for the contract, finds nothing, or cannot look because
the endpoint fails again, and then sends once more or gives up) one creation with
its retries over the endpoints, `Write` the
registry files one after the other, `Crash` an end anywhere, `Unlock(f)` the
operator who sets `clientsUnlocked` after `assert-mainnet-pools.mjs` found nothing
else to object to. An address is the nonce it is created with. `forge` and `cast`
are external. Abstractions: the endpoints show one chain and differ in what is
pending; writing the progress file is atomic; gas, balance and configuration are
one condition of preflight; the comparison with Sepolia's addresses is left out.
`LiveIsWired` compares the constructor
arguments of what is opened with the addresses that are listed; that the address
listed as an adapter is one, and not a raw verifier, is `OwnContractOnceSettled`.
A Poseidon contract that landed without a record is refused for ever by the nonce
check, as in the code.

`Ceremony`: every command is a list of writes (`job.todo`) that `Write` makes one
by one and `Stop` cuts off. A proving key is its contributors and its beacon;
verification key, verifier source and deployed code are that key. Assumed: the
coordinator runs one command at a time, hands the kit to one contributor at a
time after the command that made it ended, starts only before the first hand-out;
contributors send their folder when their script is done; one file is written
atomically. The instance has two of the four circuits.

## LiveScripts and the code

A script is a *program*: a sequence of steps such as `[op |-> "prove", store |->
"p_notes", at |-> <<1>>, state |-> "p_state", ...]`, assembled from the cycles of
the source (`PartialCycle`, `MergeCycle`, ...). Each step is a child process, or a
file that the script itself rewrites. `run.todo` is what the running script has
still to do; `Works` says whether the next command succeeds on the files as they
are, and one action for each kind of command says what it does to files, pools
and wallets. A step is addressed as in the source: a file name, a position in it
(0 for the last), a directory or label for proofs and calls.

`Trip` is a command that throws (in the cohort's loop the exception is caught and
ends the loop, which is the last part), `Interrupt` a script stopped anywhere, also
between the two writes of a partial withdrawal, `End` its end. `Abort` is what
`run` of these scripts does on Windows: a child that was aborted passes for one
that succeeded when the file named by `--out` is there, from whenever. Others
deposit between any two steps (`StrangerDeposit`). `AsMeant` says how scripts are
started: in an empty directory, except for the one that continues
`sepolia-final-validation.mjs` after it failed, the one that grows the anonymity
set after the battery, and the smoke test, which clears everything.

Left out: values, fees, recipients' addresses, waiting, the ring of roots (longer
than any script), reports, balances, and starting a script again in a used
directory, which overwrites its files (see [below](#disagreements-found)).

## The runs

| run | module | question | result |
|---|---|---|---|
| `PoolReentrancy` | `ShieldedPool` | a native pool with three calls nested in each other's payments: no leaf is spent twice (`NoLeafSpentTwice`), the books balance in total (`HoldsWhatItOwes`) and call by call (`BooksBalance`), every payment is covered (`NeverShort`), the counters explain the notes (`CountersReconcile`), and the pool implements the atomic ledger (`ImplementsNoteLedger`) | holds, 419,334 states |
| `PoolRoots` | `ShieldedPool` | a tree that fills past the ring, payouts to the pool itself, forced ETH: `EveryNoteRedeemable`, `KnownRootsAreTheLatest` | holds, 158,352 states |
| `PoolParts` | `MCPoolParts` | seven machines. The ring implements a sliding window (`ImplementsRecentRoots`); pool, client and circuit compute one tree (`ClientRebuildsRoot`, `WitnessVerifies`, `OpensOnlyWhereItIs`, `RootNamesPrefix`); the quoted deposit is the smallest exact one and accepted (`QuoteIsExact`), a split costs no more (`SplitCostsNoMore`); a token pool holds its tokens (`TokensAreWhatIsOwed`); transactions carry the proof (`CallsCarryTheProof`); notes survive their files (`NotesSurvive`); wherever a live script is stopped, its money stays reachable (`MoneyStaysReachable`), and undisturbed its commands work (`WorksUnlessDisturbed`) | holds, 177,255 states |
| `Wallet` | `MCWebWallet` | a tab used in three ways: merges of two notes (`MergesDistinctNotes`), codes shown before money moves (`CoveredByCode`), true leaf indices (`BoundWhereItLies`), the typed destination is paid (`PaysTypedDestination`), every job ends (`BusyEnds`) | holds, 134,422 states |
| `Relayer` | `MCRelayer` | two machines. Two requests in flight while the pools and the payees change: a relayed transaction reverts only for what happened after its simulation (`RevertsOnlyWhenOvertaken`), each request is answered (`EveryRequestAnswered`). Relayers being started: the launcher leaves no network unserved (`LaunchedServesBoth`) | holds, 515,212 states |
| `Operations` | `MCOperations` | four machines. The deployment records own contracts (`OwnContractOnceSettled`) and opens only wired pools (`LiveIsWired`); contributions build on each other (`RoundsBuildOn`), archives are final (`ArchiveStays`), matching files are of one key (`VerifiedKeysAgree`); secrets reach only recipients (`SecretsReachOnlyRecipients`), and what is reported as verified was stated by the holder, or by one who has the key, or is true (`VerifiedIsStated`) | holds, 783,468 states |
| `Cli` | `MCCliWallet` | both command line clients on one set of files, used in eleven ways: true marks (`SpentIsSpent`), no note twice (`NotesDistinct`), fetched state and leaf indices that agree with the pool (`FetchedAgrees`), no secret lost (`SecretsKept`) | holds, 644,818 states |
| `AnchorUnverified` | `MCOperations` | the verifying contract posts only verified digests | violated |
| `WalletSelection` | `MCWebWallet` | the note a wallet withdrawal marks spent is the one it spent | violated |
| `DeployLateCreation` | `MCDeployMainnet` | a recorded address holds the contract of its step, also when creations are mined late | violated |
| `RelayerTargets` | `MCRelayer` | the relayer broadcasts to pools only | violated |
| `BackupEnv` | `MCNoteBackup` | the Python client takes its passphrase from the environment | violated |

The property of the registry in `MCOperations`, `AnchoredStaysAttested`, and
`ClientTipIsTaken` of the relayer are not in a run: `Anchored` and, for equal rates, `TipsAgree`
prove them.

Nine more configurations are kept beside these runs. Each checks one property the
code does not have, for a disagreement that is listed [below](#disagreements-found)
and not among the findings of `PROJECT.json`: `MerkleDeepest`,
`MerkleClientWidth`, `AnchorLookup`, `CliByHand`, `RelayerRpc`,
`WalletDestination`, `WalletRedeposit`, `WalletNetwork`, `CeremonyVerify`.

Refinement to `NoteLedger`. A pool in the middle of nested calls is mapped to the
storage of its *outermost* transaction as of its start, or, once only the rebate
of that transaction is left, to what it will leave at least (`Committed`). Every
intermediate step is then a stutter, and a transaction commits in one step, in
which any number of notes appear and are redeemed and the vault moves by exactly
the difference.

## Bounds, and why they are enough

The bounds are the ones of the model checking. The theorems below have none of
them: they hold for every value of the constants.

- `ShieldedPool`: `MaxNesting` 3 (native), 2 (tokens), 1 (`PoolRoots`). Three
  nested calls let a withdrawal be entered from a payment that was itself entered
  from one, with independent outcomes. `TreeCapacity` 2 or 3 with
  `ROOT_HISTORY_SIZE` 2: a tree that fills up and, in `PoolRoots`, evicted roots.
  `Amounts` 0..3 with a fee rate of one third in and out: fees round to nothing
  and to something, zero is refused, two notes are withdrawn together, partial
  withdrawals leave change. `AmountLimit` 4, or 3 in `PoolRoots`, where a note of
  3 is one that the circuits refuse. `gasRebateWei` 1, `MaxGasReserve` 1,
  `MaxSurplus` 0 or 1: a reserve for one rebate and not two; `MaxGasReserve`
  bounds direct funding only. One identity in `Notes`: the value tells notes
  apart, and two deposits of one value are one commitment at two leaves, which is
  the harder case.
- `RootHistory`: 7 records in a ring of 3 with all repetitions of three roots.
- `MerkleTree`: two leaf values, depths 1 to 3, from empty to full; `WordBits` 5
  stands for 32. The violated configurations take the depth to the word width,
  where the code's own constants meet.
- `DepositAmount`, `NoteSplit`: all rates of a denominator of 7, all values of a
  word of 300, `AmountLimit` 6 and `MAX_PARTS` 8.
- `Calldata`: files of every circuit, with signals that look like lengths and
  offsets. `NoteBackup`: two hops between clients, three passphrases of which one
  is too short, damage at every field of the binary layout.
- `WebWallet`: `maxTx` 2 or 3 transactions, `maxRestarts` 0 or 1 reloads, one or
  two notes, pools and destinations per use; `RootWindow` 1, so that a root goes
  stale after one leaf.
- `CliWallet`: two notes, two leaves or three, one command at a time or two
  (`together`), for each of the eleven uses of `MCCliWallet`; symmetric in notes
  and slots.
- `Relayer`: two requests, which are what it takes for one to overtake the other; a
  pool with the relayer's rate and an obsolete one with a higher rate (2 and 3 of
  5); `RootWindow` 1 and `TreeCapacity` 3, so that roots go stale after two leaves
  and trees fill; two payees, one a contract; bodies at, below and above each
  floor, with and without a valid proof, of each kind, and what validation refuses.
- `RelayerBoot`: every set of the three env files with every choice of five
  contents (the two templates, one without a key, a bare key, a port of one's own),
  six shells, two processes started by hand beside the launcher's two.
- `Operations`: one circuit and two assets of the deployment (Poseidon, raw
  verifier, adapter, two pools: each kind of step), two endpoints, two runs, ten
  sends; two posters and three times; two circuits, two contributors, three rounds
  and seven commands; two notes, a payer and an auditor, in five groups of kinds of
  files that can be mistaken for each other or combined, with three to six files
  each (`room`): keys, packages of both kinds, changed claims of the same note and
  those of the other.

- `LiveScripts`: the programs in full length, except that the anonymity set grows to
  `TARGET_LEAVES` 12 instead of 32, after a battery that has put seven leaves
  there: `grow` makes four or five notes of one amount and one of another, of which
  it spends the first four and the last; more would be the same steps again.
  `MaxScripts` 2: a script and the one that continues it. `MaxStrangers` 1: one
  deposit of somebody else, between any two steps, moves every later index.

Where a run ends because the bounds admit no further step, the end is not a
deadlock of the system: nobody has to call a pool, type a command or click. For
that reason the configurations say `CHECK_DEADLOCK FALSE`. What stands in for
deadlock freedom is `EveryNoteRedeemable` in the pool, and `BusyEnds` and
`EveryRequestAnswered` in the clients.

## Fairness

The contracts act only when called, and no account is obliged to call them or to
return from a callback (a callee that does not return runs out of gas, which is
`Revert`), so `ShieldedPool` has no fairness; what a user is promised, that the
withdrawal is *possible*, is the invariant `EveryNoteRedeemable`.

- `WebWallet`: `WF_vars(JobStep)`. The event loop resumes a handler whose promise
  has settled; requests settle, since `fetch` and RPC calls answer or fail;
  `waitReceipt` gives up after its time; a dialog is answered or closed (`Fail`).
  Nothing is assumed of transactions: they may stay pending for ever.
- `Relayer`: `WF_vars(Handler(r))` for each request, for the same reasons: Node
  runs every callback, and provider calls resolve or reject.
- `RelayerBoot`: `WF_bootVars(Boot(c))` for the launcher's two children and
  `WF_bootVars(LauncherGone)`. A spawned process runs its script, which listens or
  exits without asking anyone, and Node delivers the `exit` event of a child. Nobody
  has to start the launcher, and no process has to stay up.

The other modules have safety properties only: commands and scripts may stop at
any step.

## Proofs

Eight modules hold theorems; `PROJECT.json` lists the ones a reader should know.
The assumptions are the named `ASSUME`s of the component modules, which TLC
evaluates in each run, and, where a theorem needs more, a hypothesis in its
statement. In outline:

**`NumberTheorems`**: induction over a set of numbers (`SetInduction`) and its
consequences: recursive functions exist (`RecursionOnNat`), sums over finite sets
are what they should be (`SumAdd`, `SumUnion`, `SumDifference`, ...), and the
remainder arithmetic of rings (`ModApart`, `ModTurn`). With these, recursive
functions and sums can be reasoned about without a theorem that takes an operator.

**`ShieldedPool_proofs`**, from `PoolAssumption`, for every nesting depth, tree,
ring and fee. Three invariants, each containing the one before.

- `Inv` states one predicate, `Sound`, of the current storage *and of the storage
  every call in progress may revert to*; a revert is then the easy case. `Sound`
  is typing, `RingHoldsLatest` (each of the last roots is in the slot its number
  selects and occurs once; this keeps an eviction from releasing the wrong root)
  and `SpendsRecorded` (a leaf is spent at most once, and the only word that opens
  it is then on record). It gives `TypeCorrect`, `NoDoubleSpend`,
  `LatestRootsKnown`.
- `BooksInv` adds what the calls owe. The excess of a storage over its notes
  differs, between what one call reverts to and what the next one does, by exactly
  what the first still owes (`BooksAreBalanced`). The failed rebate is where this
  is tight: its frame reverts to a storage with the reserve already reduced, and
  only `OnFailure`, which puts it back, saves the equations below.
- `LedgerInv` adds what the notes are worth: every storage is `Whole` (the history
  field `noteValue` is the sum over unspent leaves, no nullifier is of a leaf that
  is not there, no note is worthless), and each storage `Follows` from the one the
  call around it started with, the gap between the public counters and the notes
  having grown by what is awaited and by deposit fees. Adding up the links gives
  `CountersExplainNotes`, `PaymentsCovered`, `NotesRedeemable` and
  `SolventThroughout`. `PoolIsLedger` proves the refinement of `NoteLedger`, step
  by step: every step leaves what is committed or extends it (notes only added,
  nullifiers only added), and the vault moves with it.

**`PoolParts_proofs`**, five machines and an instance.

- `RootHistory`, for any ring size and any roots, repeated while retained too:
  `CountersCount` (occurrence counts are the numbers of slots), `KnownAreRetained`,
  `HistoryInOrder`, and `Refinement` of `RecentRoots`. The invariant is that the
  last records are in the slots their numbers select.
- `DepositAmount`, from `DepositAmountAssumption` (in particular that
  `AmountLimit` times the denominator squared fits the word, as 2^128 * 10^12 fits
  256 bits): the quote is exact, the smallest, thrown for only when there is none,
  and accepted (`QuotesAreExact` and its parts). The net of `g` is the retained
  share of `g` rounded up, and the client's formula the least `g` for which that
  exceeds `v - 1`.
- `MerkleTree`, for any leaves and depths, from `MerkleAssumption` (a commitment
  is not the zero of an empty leaf). `NodeAt` is the client's node at a place of
  the tree, empty subtrees included; a node is the hash of the two below it
  (`NodeHashes`), an appended leaf leaves what is left of its path (`LeftKept`)
  and finds nothing on its right (`RightEmpty`). The invariant `TreeInv` says that
  the contract's root is the client's and that `filledSubtrees` has the left
  siblings the *next* leaf will need (`Remembers`): a stale slot would show some
  inserts later. An insert climbs past exactly the nodes of the client's tree
  (`ClimbRight`) and writes what the next one needs (`WrittenRemembers`). Hence
  `RootIsRebuilt`. `WitnessesVerify`, `OneLeafPerIndex` and `RootsNamePrefixes`
  follow by going up or down a path, the hash being injective; the last is what
  lets `ShieldedPool` take a root for the number of its leaves. The circuit part
  is proved for *any* siblings (`PathStart`), more than the run enumerates.
- `NoteSplit`, for any number of parts: `SplitsCostNoMore`. `SuggestionAddsUp`: each
  of `suggestNoteSplit`'s pieces is positive, though the last takes what rounding
  left, and none exceeds what is left; `TypedAmountsAddUp`: typed amounts and the
  change add up or the split is refused. `PartsCostNoMore` is an induction with
  `TwoCostNoMore` as its step: two notes cost no more than one of their sum.
- `Calldata`: `CallsCarry`. An encoder lays a head of known length, then tails that
  the head's offsets name; the lemmas say which word of the flattened sequence is
  at which place, one for each layout and the decoder. `CalldataAssumption` is about
  proof files: a withdrawal's root is no commitment of a stored note, which is how
  a builder tells a deposit's file from others.
- `TokenPoolSolvent` is `SolventThroughout` of `ShieldedPool_proofs`, of an instance
  with `Native` false.

**`WebWallet_proofs`**, for any notes, pools, destinations, transactions and uses:
`RecordedLeavesLie`, `MoneyIsCovered`, `MergeSpendsTwo`, `PaidAsTyped`. `IInv` says
what each job holds at each of its awaits (`Creating`, `Depositing`, `Scanning`,
`Proving`, `Sending`): lists that were sound when captured, leaves that are a
prefix of the pool's, a proof whose change has been shown before it is sent.
`PaidAsTyped` has the hypothesis that a use which sends from the wallet types one
destination; without it the property is false (`WalletDestination`).

**`CliWallet_proofs`**, for `BothSpec`, both clients on the same files, any number
of commands at a time: `MarksAreTrue`, `StoreHasNoteOnce`, `FetchedStateAgrees`,
`SecretsStayOnDisk`. `CliInv` accounts for each file and for what each running
command has in memory; for careful users, at most one command rewrites the store
and it writes what it read and more (`OneRewrites`). The hypothesis
`ByHandOrScanned`: no use types both `append` and `scan`. It was found by the
proof: appending by hand moves the leaf of a record already marked spent, and
`SpentIsSpent` then fails.

**`DeployMainnet_proofs`**, for any circuits, assets, endpoints and runs:
`RecordedIsOwn`, under the condition that no creation is still pending when its
sender stops waiting for it (`~outlive`, a part of the property; `OneAtATime` says how
the nonce, the pending transaction and the place of the script are then related).
What follows when one is, `DeployLateCreation` shows. And
`LiveClientsAreWired`, whatever outlives it, since what is opened was checked
(`OpenIsChecked`) and whatever was sent took the recorded addresses
(`AllTakeRecorded`).

**`NoteBackup_proofs`**, for any notes, passphrases, environments, damage and number
of moves: `NotesDoSurvive`. `BackupInv` says that there is no file, or one that is
`Whole`, a form some client writes of a list of notes, or, once it was damaged, one
that is `Unreadable` for every passphrase. Damage turns the first into the second
because of one byte (`DamagedDead`): a binary file ends with the hash of its
ciphertext, and only the first byte of that hash can be taken for the first byte of
one. So what is still read of a damaged file has the ciphertext that was hashed,
which opens only with its key, nonce and parameters, and these fix every byte of the
file. A whole file opens with its passphrase and no other (`OpensItself`).
`NoteBackupAssumption`: altered secrets are those of no note, a list of notes is no
longer than the 32-bit length field counts, and the notes a client starts with
differ.

**`Operations_proofs`**: the relayer (`LosesGasOnlyWhenOvertaken`), for any number of
requests, bodies, pools, payees and rates. `SoundSinceSimulated`: from the simulation
on, the proof and the bounds of the fee are settled. `SameAsSimulated`: as long as
nothing it touches changed, there is room for its leaf and its payees accept.
`TipsAgree` has the hypothesis that client and relayer have the same rate; the two copies are in different packages (`web/fees.ts:7`,
`server.mjs:144`), and nothing but equal constants makes them agree.
The ceremony (`RoundsDoBuildOn`, `MatchedKeysAgree`,
`ArchiveDoesStay`), for any circuits, contributors and interruptions. `KeysInv`:
archived keys are prefixes of what the contributor at work started from, the kit
in the making is of the last round, and pins printed or filled in are of one key.
Disclosure (`SecretsWereGiven`, `ReportsAreStated`), for any notes, parties and
kinds: `DisclosureInv` accounts for every file a party has: private keys at home,
seals made by the holder, secrets in the clear meant for who has them, every tag
made by the holder over his claim or by one who has the key and is in `packed`, every
proof over true signals. Anchors (`Anchored`). Their hypotheses `CircuitsNamed` (there is a
circuit and a round, and nobody is called `nobody`) and `NamesApart` (parties,
notes and markers have different names, values and thresholds are numbers) are
facts about names; `MCOperations` has TLC evaluate both.

Only model-checked are two kinds of properties. Liveness, `BusyEnds`,
`EveryRequestAnswered` and `LaunchedServesBoth`: fairness and `ENABLED` are out of the prover's reach. And
`MoneyStaysReachable` and `WorksUnlessDisturbed` of `LiveScripts`: these are about
eight fixed programs without parameters that matter, of which TLC visits every
state; a proof would be an enumeration of their steps. What recursive definitions
of the libraries compute (`FlattenSeq`, `FoldFunction`) no theorem needs: the modules
that are proved about use recursive functions of their own, about which
`RecursionOnNat` speaks.

## Disagreements found

Findings, each shown by a violated run:

- `AnchorUnverified`: `contracts/VerifyingAttestationAnchor.sol:8` says digests are
  posted only after a verified proof; the inherited `postAttestation` files any
  digest under any kind.
- `WalletSelection`: sending by wallet marks the note selected at the click, not
  the one the proof spends (`web/App.tsx:2462`).
- `DeployLateCreation`: a step sent twice leaves a transaction that lands when the
  next step looks at the nonce, and its contract is recorded as the next step's
  (`deploy-mainnet-ceremony.mjs:258`). `assert-mainnet-pools.mjs` asks
  every pool for its asset before clients are opened, so `LiveIsWired` holds all
  the same.
- `RelayerTargets`: the allowlist takes every address below `pools`, the assets and
  the zero address among them (`packages/relayer/src/allowlist.mjs:65`).
- `BackupEnv`: with `AP_BACKUP_PASSPHRASE` set, every export and import of the
  Python client is refused by the `ap.mjs` it runs (`python/js_bridge.py:40`).

With a configuration beside the runs:

- `MerkleDeepest`: at depth 32, which `initialize` accepts, `uint32(1) << 32` is 0
  and the tree takes no leaf. `MerkleClientWidth`: at depth 31 `1 << depth` is
  negative in JavaScript and the client refuses an empty list. No deployment uses
  these depths.
- `AnchorLookup`: `anchor-lookup --file` always computes the bulletin digest, so a
  proof anchored with `--mode verifying` is reported as not posted (`ap.mjs:1981`).
- `RelayerRpc`: the endpoint is `RELAYER_RPC`, else `MAINNET_RPC`, else `SEPOLIA_RPC`,
  whatever the network (`server.mjs:123`). With `MAINNET_RPC` in the shell the Sepolia
  relayer, whose template sets `SEPOLIA_RPC` only, talks to mainnet, although
  `server.mjs:83` says "File wins for this process — no cross-network bleed".
- `WalletDestination`: sending by wallet pays the destination that was proved, not
  the one on the form; the relayer's route compares the two.
- `WalletRedeposit`: a note whose deposit was not confirmed in time can be deposited
  again.
- `WalletNetwork`: the wallet's network is compared at the click only, and
  `eth_sendTransaction` names none. Ether sent to the pool's address on another
  network is lost. This is the one hazard without a property in a run.
- `CliByHand`: `state append` out of order gives notes a leaf where the pool has
  another.
- `CeremonyVerify`: the manifest's template has `ceremony:verify` run before the
  verifiers are deployed; it asks for the code hashes of the deployment and fails.

Seen while modelling, without a property: `verifiers/ceremony/README.md:13-15`
speaks of pinned code hashes, while the deployment script reads no manifest;
`CeremonyDeployGuard` is not used; `verify-deployment` compares the
chain's code with hashes that were copied from the chain; encoders for a `transfer` remain that the pool
has no entry for; the clients refuse value bounds from 2^64 on, the circuit takes
128 bits (`ap.mjs:1687-1707`); the verifying commands print the file's own `claim`
of an ownership or value-bound proof beside a result that depends on its
`publicSignals` only (`ap.mjs:1660-1683`, `1787-1812`), so a reader must take what was
proved from the signals; such a file is also taken by
`build deposit`; `python/deposit_amount.py` is in basis points and unused; the
Python client reads `--amounts "1 2"` as 12 and delivers to `incoming.apsealed` by
default; the network guard lets any known mainnet chain pass once unlocked;
preflight looks at one of the two registries.

Of the live scripts, seen likewise: `sepolia-final-validation-continue.mjs` deposits
the partial cycle's note once more when the first run had deposited it, which its
header does not exclude, and one of the two leaves then cannot be spent by the
client, which takes the first with that commitment; it also reports the harness
cycle as completed in the first run without looking. The wrong-value attempt of
`sepolia-final-validation.mjs` sends nothing, for the call file has no calldata
field, and passes since any failure counts as a rejection; so it does for the double
spends. The two Sepolia harnesses and the unlink script name depth 4 and stop at
their first fetch from a pool of depth 20. On Windows, when `build` of part2's second
deposit is aborted, the files of the first are sent again (`MoneyStaysReachable`
leaves that script on Windows out). A script run again in a used directory takes
the first record of the note file for the new one, and overwrites
`p_change_note.json`, the battery's wallets and the notes of `grow`.

## What is not modelled

- `ShieldedPool`: the token rebate (`reserveFeeBalance` is never credited, so it
  never pays), `withdrawOpsFees` (always reverts, nothing is credited),
  `claimRewards` (always reverts), events, timestamps. Gas only as a callee's
  freedom to fail. Tokens with callbacks, transfer fees or rebasing: not excluded
  by the constructor, not offered by the documentation.
- Cryptography: hashes are free constructors, proofs are sound and complete for
  their relations, seals open with their key only.
- Web wallet: the app's own network switch (its selector is disabled while a job
  runs), the Sepolia mint, handlers without a button, privacy warnings, rendering.
- Clients: status and timing commands, privacy reports. Values fit a word
  (`padUint256` has no bound). Builders look at the number of nullifiers and
  signals, not at the circuit's name, and are modelled so. A JSON backup in the
  clear has no checksum, so damage to one is outside `NotesSurvive`; the CLI and
  Python read no AP1P codes; a QR picture is its code; Python recodes without
  validating and posts nothing.
- Losses by file names, which `SecretsKept` excludes by its three cares: the
  default `change_note.json` is overwritten, so is `incoming_note_<i>.apsealed`,
  overlapping `scan` and `accept` lose created notes. Also outside: a mark `spent`
  stays after a chain reorganisation (`scanNullifiers.ts:67`), `state append`
  writes before it refuses.
- Deployment and ceremony: gas, balances, `forge`, `cast` and `snarkjs` themselves.
- Live scripts: their reports and balances, and starting them again in a used directory.
- Development and locally trusted verifiers, the `transfer` circuit, mocks, tests,
  vendored code.

## Plan

The order was: the pool with its ring and tree; amounts; the wallet and the
relayer; the file clients and their formats; deployment and ceremony; the live
scripts; then a theorem for each safety property that has parameters. What is left:

1. `WalletNetwork` as a property of a careful user who stays on one network, the
   one hazard without a property in a run.
2. Live scripts started again in a used directory, as a way of using them of its
   own beside `AsMeant`.
