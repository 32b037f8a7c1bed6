----------------------------- MODULE MCPoolParts -----------------------------
(***************************************************************************)
(* Seven machines checked in one run: the ring of recent roots               *)
(* (RootHistory), the tree of leaves (MerkleTree), the quoting of a        *)
(* deposit (DepositAmount), a pool of a token (ShieldedPool; its runs of   *)
(* their own are about native ETH), the transactions made from proofs      *)
(* (Calldata), notes on their way between clients (NoteBackup) and the     *)
(* scripts that drive a client (LiveScripts).  They share no state here,   *)
(* so a behaviour exercises one of them, which `part` says; the            *)
(* composition of ring and tree in the pool is in module ShieldedPool.     *)
(* All but the last two, and the pool of a token, come by way of the       *)
(* module of the proofs about them.                                        *)
(***************************************************************************)
EXTENDS PoolParts_proofs, Base58, NoteBackup, LiveScripts, TLC

VARIABLE part

\* Proof files of every circuit.  Some values look like lengths or offsets.
Groth == [proofA |-> <<701, 702>>, proofB |-> <<<<703, 704>>, <<705, 706>>>>,
          proofC |-> <<707, 708>>]
Withdrawal(circuit, nullifiers, amount, fee) ==
  Groth @@ [circuit |-> circuit, merkleRoot |-> 501, nullifiers |-> nullifiers,
            recipient |-> 601, withdrawAmount |-> amount, withdrawFee |-> fee]
Signals(circuit, nullifiers, amount, fee) ==
  [publicSignals |-> <<501>> \o nullifiers \o <<601, amount, fee>>]
    @@ Withdrawal(circuit, nullifiers, amount, fee)
DepositValues == {0, 1, 2, 5, 64}
Proofs ==
  {Signals("withdraw", <<301, n>>, a, f) : n \in {302, 64}, a \in {5, 96}, f \in {0, 1}}
  \cup {Signals("withdraw_1in", <<301>>, a, f) : a \in {5, 96}, f \in {0, 1}}
  \cup {[outCommitment |-> 401, publicSignals |-> <<501, 301, 601, a, f, 401>>]
          @@ Withdrawal("withdraw_partial", <<301>>, a, f) : a \in {5, 96}, f \in {0, 1}}
  \cup {Groth @@ [circuit |-> "deposit", publicSignals |-> <<c, v>>] :
          c \in {201, 202}, v \in DepositValues}
  \cup {Groth @@ [circuit |-> k, publicSignals |-> <<201, 2, 64, 5>>] :
          k \in {"value_bound_dev", "ownership_dev"}}

StoredNotes == [commitment : {201, 202}, value : DepositValues]

\* One environment names a passphrase.  The spots are the fields of a binary
\* file: magic, version, parameters, lengths, salt, nonce, ciphertext, checksum.
First == [word |-> "first", length |-> 8]
OneNote(n) == <<[secrets |-> n]>>
MCStarts == {[web |-> OneNote("n1"), cli |-> OneNote("n2")]}
MCPassphrases == {First, [word |-> "second", length |-> 12], [word |-> "short", length |-> 7]}
MCEnvironments == {[word |-> "", length |-> 0], First}

tokenVars == <<tokenPool, tokenStack>>
allVars == <<vars, historyVars, treeVars, tokenVars, callVars, backupVars, labVars, part>>

QuotePart ==
  part = "quote" /\ Next /\ UNCHANGED <<historyVars, treeVars, tokenVars, callVars, backupVars, labVars, part>>
RingPart ==
  part = "ring" /\ HistoryNext /\ UNCHANGED <<vars, treeVars, tokenVars, callVars, backupVars, labVars, part>>
TreePart ==
  part = "tree" /\ TreeNext /\ UNCHANGED <<vars, historyVars, tokenVars, callVars, backupVars, labVars, part>>
TokenPart ==
  part = "token" /\ Token!Next /\ UNCHANGED <<vars, historyVars, treeVars, callVars, backupVars, labVars, part>>
WirePart ==
  part = "wire" /\ CallNext
  /\ UNCHANGED <<vars, historyVars, treeVars, tokenVars, backupVars, labVars, part>>
NotePart ==
  part = "note" /\ BackupNext
  /\ UNCHANGED <<vars, historyVars, treeVars, tokenVars, callVars, labVars, part>>
ScriptPart ==
  part = "script" /\ LabNext
  /\ UNCHANGED <<vars, historyVars, treeVars, tokenVars, callVars, backupVars, part>>

AllInit ==
  /\ Init /\ HistoryInit /\ TreeInit /\ Token!Init /\ CallInit /\ BackupInit /\ LabInit
  /\ \/ part = "quote" /\ tree.depth = 1
     \/ part \in {"ring", "token", "wire", "note", "script"} /\ tree.depth = 1 /\ ppm = 0
     \/ part = "tree" /\ ppm = 0
  /\ part # "wire" => native /\ proof.publicSignals = <<201, 0>>
  /\ part # "note" => env = First
  /\ part # "script" => lab = [suite |-> "final", depth |-> 20, windows |-> FALSE]

AllNext == QuotePart \/ RingPart \/ TreePart \/ TokenPart \/ WirePart \/ NotePart \/ ScriptPart

AllSpec == AllInit /\ [][AllNext]_allVars
=============================================================================
