------------------------------ MODULE Calldata ------------------------------
(***************************************************************************)
(* From a proof to the transaction that carries it.  The command line      *)
(* client builds a call file from a proof file and sends it; the Python    *)
(* client sends the same call file with an encoder of its own; the web     *)
(* wallet encodes the proof it has in memory with a third.  The contract   *)
(* decodes by the ABI and lets the verifier see the public inputs it       *)
(* assembled.  A word is a number below UINT256_MAX + 1, a proof eight     *)
(* words, a selector the name of its function.                             *)
(***************************************************************************)
EXTENDS DepositFee, Sequences

CONSTANTS ProofFiles,       \* what the provers wrote; see ProofFile below
          NoteFiles,        \* [commitment, value] of the notes in the store
          depositFeePpm     \* the pool's fee on deposits

Withdrawals == {"withdraw", "withdraw_1in", "withdraw_partial"}
Attestations == {"value_bound_dev", "ownership_dev"}

\* A proof file has the words snarkjs exports for Solidity, the public signals
\* in the order of the circuit, and of a withdrawal the same values by name.
ProofWords(p) ==
    /\ p.proofA \in Nat \X Nat /\ p.proofC \in Nat \X Nat
    /\ p.proofB \in (Nat \X Nat) \X (Nat \X Nat)

ProofFile(p) ==
    /\ ProofWords(p)
    /\ p.circuit \in {"deposit"} \cup Withdrawals \cup Attestations
    /\ p.circuit = "deposit" => p.publicSignals \in Nat \X Nat
    /\ p.circuit \in Attestations => p.publicSignals \in Seq(Nat)
    /\ "nullifiers" \in DOMAIN p <=> p.circuit \in Withdrawals
    /\ "outCommitment" \in DOMAIN p <=> p.circuit = "withdraw_partial"
    /\ p.circuit \in Withdrawals =>
          /\ p.nullifiers \in [1 .. IF p.circuit = "withdraw" THEN 2 ELSE 1 -> Nat]
          /\ {p.merkleRoot, p.recipient, p.withdrawAmount, p.withdrawFee} \subseteq Nat
          /\ p.circuit = "withdraw_partial" => p.outCommitment \in Nat
          /\ p.publicSignals =
               <<p.merkleRoot>> \o p.nullifiers \o <<p.recipient, p.withdrawAmount, p.withdrawFee>>
               \o IF p.circuit = "withdraw_partial" THEN <<p.outCommitment>> ELSE <<>>

\* Hashes of different things: a root is no note's commitment.
ASSUME CalldataAssumption ==
    /\ depositFeePpm \in FeeRates
    /\ \A p \in ProofFiles : ProofFile(p)
    /\ \A note \in NoteFiles : note.commitment \in Nat /\ note.value \in Nat
    /\ \A p \in ProofFiles : p.circuit \in Withdrawals =>
          \A note \in NoteFiles : p.merkleRoot # note.commitment

VARIABLES proof,   \* the proof file; fixed
          native,  \* the pool's asset is ETH; fixed
          call,    \* the call file, or NoCall
          sent     \* the transactions

callVars == <<proof, native, call, sent>>

NoCall == [function |-> "none", args |-> <<>>]

-----------------------------------------------------------------------------
(* Layout.  A head entry is a word, or the offset of one of the tails that  *)
(* follow the head; the functions name the size of their head themselves.   *)

Word(w) == [tail |-> 0, word |-> w]
OffsetOf(i) == [tail |-> i, word |-> 0]

Lay(headWords, head, first, second, third) ==
    [k \in DOMAIN head |->
        CASE head[k].tail = 0 -> head[k].word
          [] head[k].tail = 1 -> 32 * headWords
          [] head[k].tail = 2 -> 32 * (headWords + Len(first))
          [] head[k].tail = 3 -> 32 * (headWords + Len(first) + Len(second))]
    \o first \o second \o third

EncodeArray(ws) == <<Len(ws)>> \o ws
EncodeBytes(ws) == <<32 * Len(ws)>> \o ws

EncodeProofBlob(a) == a.proofA \o a.proofB[1] \o a.proofB[2] \o a.proofC

Calls(function, words) == [function |-> function, words |-> words]

-----------------------------------------------------------------------------
(* packages/cli/lib/abiEncode.mjs *)

EncodeDepositCalldata(a) ==
    Calls("deposit",
          Lay(4, <<Word(a.amount), OffsetOf(1), Word(a.tierCode), OffsetOf(2)>>,
              EncodeArray(a.newCommitments), EncodeBytes(EncodeProofBlob(a)), <<>>))

LayWithdraw(headWords, head, a) ==
    Lay(headWords, head, EncodeBytes(EncodeProofBlob(a)), EncodeArray(a.nullifiers),
        EncodeBytes(<<a.withdrawFee>>))

EncodeWithdrawCalldata(a) ==
    Calls("withdraw",
          LayWithdraw(6, <<OffsetOf(1), Word(a.merkleRoot), OffsetOf(2), Word(a.recipient),
                           Word(a.amount), OffsetOf(3)>>, a))

EncodeWithdraw1Calldata(a) ==
    Calls("withdraw1",
          LayWithdraw(6, <<OffsetOf(1), Word(a.merkleRoot), OffsetOf(2), Word(a.recipient),
                           Word(a.amount), OffsetOf(3)>>, a))

EncodeWithdrawPartial1Calldata(a) ==
    Calls("withdrawPartial1",
          LayWithdraw(7, <<OffsetOf(1), Word(a.merkleRoot), OffsetOf(2), Word(a.recipient),
                           Word(a.amount), Word(a.outCommitment), OffsetOf(3)>>, a))

\* postValueBoundProof and postOwnershipProof: the proof is in the head.
EncodePostGroth16WithPublics(function, a) ==
    Calls(function,
          Lay(9, [i \in 1 .. 9 |-> IF i = 9 THEN OffsetOf(1) ELSE Word(EncodeProofBlob(a)[i])],
              EncodeArray(a.publicSignals), <<>>, <<>>))

\* Arrays of another length throw; so does a function that is not known.
Encodable(c) ==
    \/ c.function = "deposit" /\ Len(c.args.newCommitments) = 1
    \/ c.function = "withdraw" /\ Len(c.args.nullifiers) = 2
    \/ c.function \in {"withdraw1", "withdrawPartial1"} /\ Len(c.args.nullifiers) = 1
    \/ c.function \in {"postValueBoundProof", "postOwnershipProof"}

EncodeCallFromBuildJson(c) ==
    CASE c.function = "deposit" -> EncodeDepositCalldata(c.args)
      [] c.function = "withdraw" -> EncodeWithdrawCalldata(c.args)
      [] c.function = "withdraw1" -> EncodeWithdraw1Calldata(c.args)
      [] c.function = "withdrawPartial1" -> EncodeWithdrawPartial1Calldata(c.args)
      [] OTHER -> EncodePostGroth16WithPublics(c.function, c.args)

-----------------------------------------------------------------------------
(* python-client abi_encode.py: no posts. *)

PyEncodeDeposit(a) ==
    Calls("deposit",
          Lay(4, <<Word(a.amount), OffsetOf(1), Word(a.tierCode), OffsetOf(2)>>,
              EncodeArray(a.newCommitments), EncodeBytes(EncodeProofBlob(a)), <<>>))

PyEncodeWithdraw(a) ==
    Calls("withdraw",
          LayWithdraw(6, <<OffsetOf(1), Word(a.merkleRoot), OffsetOf(2), Word(a.recipient),
                           Word(a.amount), OffsetOf(3)>>, a))

PyEncodeWithdraw1(a) ==
    Calls("withdraw1",
          LayWithdraw(6, <<OffsetOf(1), Word(a.merkleRoot), OffsetOf(2), Word(a.recipient),
                           Word(a.amount), OffsetOf(3)>>, a))

\* Mutant of PyEncodeWithdrawPartial1: the head of withdraw1.
PyEncodeWithdrawPartial1Of6(a) ==
    Calls("withdrawPartial1",
          LayWithdraw(6, <<OffsetOf(1), Word(a.merkleRoot), OffsetOf(2), Word(a.recipient),
                           Word(a.amount), Word(a.outCommitment), OffsetOf(3)>>, a))

PyEncodeWithdrawPartial1(a) ==
    Calls("withdrawPartial1",
          LayWithdraw(7, <<OffsetOf(1), Word(a.merkleRoot), OffsetOf(2), Word(a.recipient),
                           Word(a.amount), Word(a.outCommitment), OffsetOf(3)>>, a))

PyEncodable(c) ==
    /\ c.function \in {"deposit", "withdraw", "withdraw1", "withdrawPartial1"}
    /\ Encodable(c)

PyEncodeCallFromBuildJson(c) ==
    CASE c.function = "deposit" -> PyEncodeDeposit(c.args)
      [] c.function = "withdraw" -> PyEncodeWithdraw(c.args)
      [] c.function = "withdraw1" -> PyEncodeWithdraw1(c.args)
      [] OTHER -> PyEncodeWithdrawPartial1(c.args)

-----------------------------------------------------------------------------
(* apps/web/src/abi.ts *)

WebEncodeDeposit(a) ==
    Calls("deposit",
          Lay(4, <<Word(a.amount), OffsetOf(1), Word(a.tierCode), OffsetOf(2)>>,
              EncodeArray(a.newCommitments), EncodeBytes(EncodeProofBlob(a)), <<>>))

WebEncodeWithdraw(a) ==
    Calls("withdraw",
          LayWithdraw(6, <<OffsetOf(1), Word(a.merkleRoot), OffsetOf(2), Word(a.recipient),
                           Word(a.amount), OffsetOf(3)>>, a))

WebEncodeWithdraw1(a) ==
    Calls("withdraw1",
          LayWithdraw(6, <<OffsetOf(1), Word(a.merkleRoot), OffsetOf(2), Word(a.recipient),
                           Word(a.amount), OffsetOf(3)>>, a))

WebEncodeWithdrawPartial1(a) ==
    Calls("withdrawPartial1",
          LayWithdraw(7, <<OffsetOf(1), Word(a.merkleRoot), OffsetOf(2), Word(a.recipient),
                           Word(a.amount), Word(a.outCommitment), OffsetOf(3)>>, a))

WebEncodePost(function, a) ==
    Calls(function,
          Lay(9, [i \in 1 .. 9 |-> IF i = 9 THEN OffsetOf(1) ELSE Word(EncodeProofBlob(a)[i])],
              EncodeArray(a.publicSignals), <<>>, <<>>))

-----------------------------------------------------------------------------
(* Call files. *)

WithdrawArgs(p) ==
    [proofA |-> p.proofA, proofB |-> p.proofB, proofC |-> p.proofC,
     merkleRoot |-> p.merkleRoot, nullifiers |-> p.nullifiers, recipient |-> p.recipient,
     amount |-> p.withdrawAmount, withdrawFee |-> p.withdrawFee]

PartialArgs(p) ==
    [proofA |-> p.proofA, proofB |-> p.proofB, proofC |-> p.proofC,
     merkleRoot |-> p.merkleRoot, nullifiers |-> p.nullifiers, recipient |-> p.recipient,
     amount |-> p.withdrawAmount, withdrawFee |-> p.withdrawFee,
     outCommitment |-> p.outCommitment]

PostArgs(p) ==
    [proofA |-> p.proofA, proofB |-> p.proofB, proofC |-> p.proofC,
     publicSignals |-> p.publicSignals]

File(function, args) ==
    /\ call' = [function |-> function, args |-> args]
    /\ UNCHANGED <<proof, native, sent>>

DepositArgs(p, note) ==
    [proofA |-> p.proofA, proofB |-> p.proofB, proofC |-> p.proofC,
     amount |-> DepositGrossFromNet(note.value, depositFeePpm),
     newCommitments |-> <<note.commitment>>, tierCode |-> 0]

\* The signals must be the note's; whose circuit they are is not asked.
BuildDeposit(note) ==
    /\ proof.publicSignals[1] = note.commitment
    /\ proof.publicSignals[2] = note.value
    /\ File("deposit", DepositArgs(proof, note))

\* The builders look at the number of nullifiers, not at the circuit.
BuildWithdraw ==
    /\ "nullifiers" \in DOMAIN proof /\ Len(proof.nullifiers) = 2
    /\ File("withdraw", WithdrawArgs(proof))
BuildWithdraw1 ==
    /\ "nullifiers" \in DOMAIN proof /\ Len(proof.nullifiers) = 1
    /\ File("withdraw1", WithdrawArgs(proof))
BuildWithdrawPartial ==
    /\ "nullifiers" \in DOMAIN proof /\ Len(proof.nullifiers) = 1
    /\ "outCommitment" \in DOMAIN proof
    /\ File("withdrawPartial1", PartialArgs(proof))

AnchorBuild ==
    /\ proof.circuit \in Attestations
    /\ File(IF proof.circuit = "value_bound_dev" THEN "postValueBoundProof"
            ELSE "postOwnershipProof",
            PostArgs(proof))

PyBuild ==
    (\E note \in NoteFiles : BuildDeposit(note))
    \/ BuildWithdraw \/ BuildWithdraw1 \/ BuildWithdrawPartial

-----------------------------------------------------------------------------
(* Sending. *)

Send(tx) == sent' = sent \cup {tx} /\ UNCHANGED <<proof, native, call>>

\* The ether that goes with it, when the user named the asset.
ValueOf(c) == IF native /\ c.function = "deposit" THEN c.args.amount ELSE 0

SendCall ==
    /\ Encodable(call)
    /\ Send([data |-> EncodeCallFromBuildJson(call), value |-> ValueOf(call)])

PySendCall ==
    /\ PyEncodable(call)
    /\ Send([data |-> PyEncodeCallFromBuildJson(call), value |-> ValueOf(call)])

\* The wallet made the proof for this note a moment ago.
WebDeposit(note) ==
    LET c == [function |-> "deposit", args |-> DepositArgs(proof, note)]
    IN  /\ proof.circuit = "deposit" /\ proof.publicSignals = <<note.commitment, note.value>>
        /\ Send([data |-> WebEncodeDeposit(c.args), value |-> ValueOf(c)])

\* There is one bundle in memory for each mode.
WebWithdraw ==
    LET a == WithdrawArgs(proof)
    IN  \/ proof.circuit = "withdraw" /\ Send([data |-> WebEncodeWithdraw(a), value |-> 0])
        \/ proof.circuit = "withdraw_1in" /\ Send([data |-> WebEncodeWithdraw1(a), value |-> 0])
        \/ /\ proof.circuit = "withdraw_partial"
           /\ Send([data |-> WebEncodeWithdrawPartial1(PartialArgs(proof)), value |-> 0])

WebPost ==
    \/ /\ proof.circuit = "value_bound_dev"
       /\ Send([data |-> WebEncodePost("postValueBoundProof", PostArgs(proof)), value |-> 0])
    \/ /\ proof.circuit = "ownership_dev"
       /\ Send([data |-> WebEncodePost("postOwnershipProof", PostArgs(proof)), value |-> 0])

-----------------------------------------------------------------------------
(* The contracts.  A read past the data reverts, as a word no value equals. *)

Nothing == -1

WordAt(ws, byte) ==
    IF byte % 32 = 0 /\ byte \div 32 < Len(ws) /\ byte >= 0 THEN ws[byte \div 32 + 1] ELSE Nothing
WordsAt(ws, byte, n) ==
    IF n \in 0 .. Len(ws) THEN [i \in 1 .. n |-> WordAt(ws, byte + 32 * (i - 1))] ELSE <<Nothing>>
ArrayAt(ws, k) == LET off == WordAt(ws, 32 * k) IN WordsAt(ws, off + 32, WordAt(ws, off))
BytesAt(ws, k) == LET off == WordAt(ws, 32 * k) IN WordsAt(ws, off + 32, WordAt(ws, off) \div 32)

\* What the verifier of a function is asked: a proof and public inputs.
Asked(circuit, blob, publics) == [circuit |-> circuit, proof |-> blob, publics |-> publics]

PoolAsks(tx) ==
    LET w == tx.data.words
        blob == BytesAt(w, 0)
        nullifiers == ArrayAt(w, 2)
        common == <<w[2]>> \o nullifiers \o <<w[4], w[5]>>
    IN  CASE tx.data.function = "deposit" ->
               Asked("deposit", BytesAt(w, 3),
                     ArrayAt(w, 1) \o <<w[1] - (w[1] * depositFeePpm) \div FEE_DENOMINATOR>>)
          [] tx.data.function = "withdraw" ->
               Asked("withdraw", blob, common \o BytesAt(w, 5))
          [] tx.data.function = "withdraw1" ->
               Asked("withdraw_1in", blob, common \o BytesAt(w, 5))
          [] OTHER ->
               Asked("withdraw_partial", blob, common \o BytesAt(w, 6) \o <<w[6]>>)

AnchorAsks(tx) ==
    LET w == tx.data.words
    IN  Asked(IF tx.data.function = "postValueBoundProof" THEN "value_bound_dev" ELSE "ownership_dev",
              WordsAt(w, 0, 8), ArrayAt(w, 8))

Posts == {"postValueBoundProof", "postOwnershipProof"}
Asks(tx) == IF tx.data.function \in Posts THEN AnchorAsks(tx) ELSE PoolAsks(tx)

-----------------------------------------------------------------------------

CallInit ==
    /\ proof \in ProofFiles
    /\ native \in BOOLEAN
    /\ call = NoCall
    /\ sent = {}

CallNext ==
    \/ \E note \in NoteFiles : BuildDeposit(note) \/ WebDeposit(note)
    \/ BuildWithdraw \/ BuildWithdraw1 \/ BuildWithdrawPartial \/ AnchorBuild
    \/ PyBuild
    \/ SendCall \/ PySendCall
    \/ WebWithdraw \/ WebPost

CallSpec == CallInit /\ [][CallNext]_callVars

-----------------------------------------------------------------------------
(* Whichever client built and sent it, a transaction asks the verifier for  *)
(* exactly the proof and the public signals of the proof file: the offsets, *)
(* the order of the words and the fee agree with what the contract decodes. *)
(* Only a partial withdrawal built with the command for a full one, or a    *)
(* deposit built from a proof made for an attestation of the note, asks     *)
(* another verifier, which refuses it.  A deposit of ETH carries its gross amount.            *)
CallsCarryTheProof ==
    \A tx \in sent :
        \/ /\ Asks(tx) = Asked(proof.circuit, EncodeProofBlob(proof), proof.publicSignals)
           /\ tx.value = IF native /\ tx.data.function = "deposit" THEN tx.data.words[1] ELSE 0
        \/ proof.circuit = "withdraw_partial" /\ tx.data.function = "withdraw1"
        \/ proof.circuit \in Attestations /\ tx.data.function = "deposit"
=============================================================================
