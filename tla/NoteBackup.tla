----------------------------- MODULE NoteBackup -----------------------------
(***************************************************************************)
(* Notes on their way from one client to another: sealed under a           *)
(* passphrase or not, as a binary file, a recovery code, JSON or a vault   *)
(* backup, written and read by the web wallet, the command line client and *)
(* the Python client, which recodes files itself and hands the rest to the *)
(* command line client.  A file may be damaged on its way.                 *)
(*                                                                         *)
(* Cryptography is free terms: a derived byte is a record that says what   *)
(* it was derived from, so no two inputs ever give the same byte.  The     *)
(* layout of a file is its real one.  Base 58 is a bijection on the        *)
(* strings that occur (module Base58), so a code is its bytes.             *)
(***************************************************************************)
EXTENDS Integers, Sequences, FiniteSets, SequencesExt

CONSTANTS Notes,        \* the secrets of the notes there are
          Starts,       \* what the clients may have at first: [client -> notes]
          Passphrases,  \* [word, length]
          Environments, \* what AP_BACKUP_PASSPHRASE may be, NoPass where unset
          Spots,        \* bound: the places where a file may be damaged
          MaxHops       \* bound: how often notes are exported

VARIABLES store,   \* [client -> its notes, a sequence]
          env,     \* AP_BACKUP_PASSPHRASE, or NoPass; fixed
          file,    \* the file on its way, or NoFile
          made,    \* ghost: its passphrase, and whether it was damaged
          reading, \* the last attempt to read it
          hops

backupVars == <<store, env, file, made, reading, hops>>

Clients == {"web", "cli"}    \* the Python client uses the store of "cli"
NoPass == [word |-> "", length |-> 0]
NoFile == [as |-> "none", bytes |-> <<>>]
NotRead == [command |-> "none", who |-> "nobody", flags |-> {}, pass |-> NoPass,
            result |-> "none"]

Note(s) == [secrets |-> s]
Altered == "altered"         \* secrets nobody has

\* What a store holds: notes, none of them twice.
NoteLists == {s \in Seq({Note(n) : n \in Notes}) :
                \A i, j \in DOMAIN s : s[i] = s[j] => i = j}

\* Fewer notes than bytes that a length of 32 bits counts.
ASSUME NoteBackupAssumption ==
    /\ Altered \notin Notes
    /\ IsFiniteSet(Notes) /\ (Cardinality(Notes) + 1) \div 65536 < 65536
    /\ Starts \subseteq [Clients -> NoteLists]

-----------------------------------------------------------------------------
(* Bytes. *)

Raw(n) == [is |-> "raw", of |-> <<>>, n |-> n]
\* n bytes that come from something; the first of them says from what.
Derived(how, from, n) ==
    [i \in 1 .. n |-> [is |-> how, of |-> IF i = 1 THEN from ELSE <<>>, n |-> i]]
RandomBytes(name, n) == Derived(name, <<>>, n)
Blake2b(bytes, n) == Derived("blake2b", bytes, n)

WriteU16BE(n) == <<Raw((n \div 256) % 256), Raw(n % 256)>>
WriteU32BE(n) == WriteU16BE(n \div 65536) \o WriteU16BE(n % 65536)
ReadU16BE(b, i) == 256 * b[i].n + b[i + 1].n
ReadU32BE(b, i) == 65536 * ReadU16BE(b, i) + ReadU16BE(b, i + 2)

-----------------------------------------------------------------------------
(* backup.ts: argon2id and XChaCha20-Poly1305 around the JSON of the notes. *)

ARGON2 == [t |-> 3, m |-> 64 * 1024, p |-> 1, dkLen |-> 32]

DeriveKey(pass, salt, argon) ==
    IF pass.length < 8 THEN {}
    ELSE {Derived("argon2id",
                  <<pass>> \o salt \o <<Raw(argon.t), Raw(argon.m), Raw(argon.p), Raw(argon.dkLen)>>, 1)}

AeadEncrypt(key, nonce, text) ==
    Derived("xchacha20poly1305", key \o nonce \o text, Len(text) + 1)
AeadDecrypt(key, nonce, ct) ==
    IF ct = <<>> \/ Len(nonce) # 24 THEN {}
    ELSE LET of == ct[1].of
             text == SubSeq(of, Len(nonce) + 2, Len(of))
         IN  {x \in {text} : ct = AeadEncrypt(key, nonce, x)}

\* The envelopes there are under a passphrase: one, or none if it is short.
EncryptSpendNotes(pass, notes) ==
    LET salt == RandomBytes("salt", 16)
        nonce == RandomBytes("nonce", 24)
    IN  {[argon2 |-> ARGON2, salt |-> salt, nonce |-> nonce, ciphertext |-> ct,
          checksum |-> Blake2b(ct, 32)] :
            ct \in {AeadEncrypt(key, nonce, notes) : key \in DeriveKey(pass, salt, ARGON2)}}

Decrypt(e, pass) ==
    IF e.checksum # Blake2b(e.ciphertext, 32) THEN {}
    ELSE UNION {AeadDecrypt(key, e.nonce, e.ciphertext) :
                  key \in DeriveKey(pass, e.salt, e.argon2)}
DecryptSpendNotes(e, pass) == Decrypt(e, pass) \ {<<>>}

-----------------------------------------------------------------------------
(* spendNoteBinary.ts *)

Magic == <<Raw(65), Raw(80), Raw(78), Raw(49)>>
IsApnoteBinary(b) == Len(b) >= 4 /\ SubSeq(b, 1, 4) = Magic

SealedEnvelopeToBinary(e) ==
    Magic \o <<Raw(1)>> \o WriteU16BE(e.argon2.t) \o WriteU32BE(e.argon2.m)
    \o <<Raw(e.argon2.p), Raw(e.argon2.dkLen), Raw(Len(e.salt))>> \o e.salt
    \o <<Raw(Len(e.nonce))>> \o e.nonce
    \o WriteU32BE(Len(e.ciphertext)) \o e.ciphertext \o e.checksum

\* A read past the end is a refusal, as in the code one way or another.
BinaryToSealedEnvelope(b) ==
    LET saltEnd == 14 + b[14].n
        nonceEnd == saltEnd + 1 + b[saltEnd + 1].n
        ctEnd == nonceEnd + 4 + ReadU32BE(b, nonceEnd + 1)
        ct == SubSeq(b, nonceEnd + 5, ctEnd)
        checksum == SubSeq(b, ctEnd + 1, ctEnd + 32)
    IN  IF /\ Len(b) >= 59 + 32 /\ IsApnoteBinary(b) /\ b[5] = Raw(1)
           /\ saltEnd < Len(b) /\ nonceEnd + 4 <= Len(b) /\ ctEnd + 32 <= Len(b)
           /\ checksum = Blake2b(ct, 32)
        THEN {[argon2 |-> [t |-> ReadU16BE(b, 6), m |-> ReadU32BE(b, 8),
                           p |-> b[12].n, dkLen |-> b[13].n],
               salt |-> SubSeq(b, 15, saltEnd), nonce |-> SubSeq(b, saltEnd + 2, nonceEnd),
               ciphertext |-> ct, checksum |-> checksum]}
        ELSE {}

\* "AP1" for sealed notes, "AP1P" for notes in the clear.
BytesToPrefixedRecoveryCode(bytes, prefix) ==
    [as |-> prefix, bytes |-> bytes \o SubSeq(Blake2b(bytes, 32), 1, 4)]

\* Mutant of PrefixedRecoveryCodeToBytes: a typing error is not noticed.
PrefixedRecoveryCodeToBytesUnchecked(code, prefix) ==
    IF code.as # prefix \/ Len(code.bytes) < 5 THEN {}
    ELSE {SubSeq(code.bytes, 1, Len(code.bytes) - 4)}

PrefixedRecoveryCodeToBytes(code, prefix) ==
    IF code.as # prefix \/ Len(code.bytes) < 5 THEN {}
    ELSE LET payload == SubSeq(code.bytes, 1, Len(code.bytes) - 4)
         IN  {x \in {payload} : code = BytesToPrefixedRecoveryCode(x, prefix)}

RecoveryCodeToSealedEnvelope(code) ==
    UNION {BinaryToSealedEnvelope(b) : b \in PrefixedRecoveryCodeToBytes(code, "AP1")}

-----------------------------------------------------------------------------
(* spend_note_backup.py: the same layouts once more. *)

PySealedEnvelopeToBinary(e) ==
    Magic \o <<Raw(1)>> \o WriteU16BE(e.argon2.t) \o WriteU32BE(e.argon2.m)
    \o <<Raw(e.argon2.p), Raw(e.argon2.dkLen), Raw(Len(e.salt))>> \o e.salt
    \o <<Raw(Len(e.nonce))>> \o e.nonce
    \o WriteU32BE(Len(e.ciphertext)) \o e.ciphertext \o e.checksum

PyBinaryToSealedEnvelope(b) ==
    LET saltEnd == 14 + b[14].n
        nonceEnd == saltEnd + 1 + b[saltEnd + 1].n
        ctEnd == nonceEnd + 4 + ReadU32BE(b, nonceEnd + 1)
        ct == SubSeq(b, nonceEnd + 5, ctEnd)
        checksum == SubSeq(b, ctEnd + 1, ctEnd + 32)
    IN  IF /\ Len(b) >= 59 + 32 /\ SubSeq(b, 1, 4) = Magic /\ b[5] = Raw(1)
           /\ saltEnd < Len(b) /\ nonceEnd + 4 <= Len(b) /\ ctEnd + 32 <= Len(b)
           /\ checksum = Blake2b(ct, 32)
        THEN {[argon2 |-> [t |-> ReadU16BE(b, 6), m |-> ReadU32BE(b, 8),
                           p |-> b[12].n, dkLen |-> b[13].n],
               salt |-> SubSeq(b, 15, saltEnd), nonce |-> SubSeq(b, saltEnd + 2, nonceEnd),
               ciphertext |-> ct, checksum |-> checksum]}
        ELSE {}

PyBinaryToRecoveryCode(b) == [as |-> "AP1", bytes |-> b \o SubSeq(Blake2b(b, 32), 1, 4)]

PyRecoveryCodeToBinary(code) ==
    IF code.as # "AP1" \/ Len(code.bytes) < 5 THEN {}
    ELSE LET b == SubSeq(code.bytes, 1, Len(code.bytes) - 4)
         IN  IF SubSeq(code.bytes, Len(code.bytes) - 3, Len(code.bytes)) = SubSeq(Blake2b(b, 32), 1, 4)
                /\ PyBinaryToSealedEnvelope(b) # {}
             THEN {b} ELSE {}

-----------------------------------------------------------------------------
(* Passphrases.  The command line client wants exactly one source; the      *)
(* Python client chooses one of its own and passes the passphrase on by     *)
(* standard input, to a process that inherits its environment.  The flag    *)
(* "typed" stands for --passphrase-stdin and for --passphrase.              *)

Sources(flags) == flags \cup (IF env = NoPass THEN {} ELSE {"env"})

ResolveBackupPassphrase(flags, typed) ==
    IF Cardinality(Sources(flags)) # 1 THEN {}
    ELSE {IF flags = {} THEN env ELSE typed} \ {NoPass}

BackupPassphrase(flags, typed) ==
    IF Cardinality(Sources(flags)) # 1 THEN {}
    ELSE {IF flags = {} THEN env ELSE typed} \ {NoPass}

RunJsCli(flags, typed) ==
    UNION {ResolveBackupPassphrase({"typed"}, p) : p \in BackupPassphrase(flags, typed)}

\* What reaches the command that does the work.
Reaching(who, flags, typed) ==
    CASE who = "web" -> {typed}
      [] who = "cli" -> ResolveBackupPassphrase(flags, typed)
      [] who = "python" -> RunJsCli(flags, typed)

StoreOf(who) == IF who = "web" THEN "web" ELSE "cli"

-----------------------------------------------------------------------------
(* Writing. *)

\* JSON is not layed out here: a document is its bytes' worth in fields.
Sealed(e) == [as |-> "sealed-json", bytes |-> <<e>>]
Pack(notes) == [as |-> "pack-json", bytes |-> notes]
Backup(e) == [as |-> "apbackup", bytes |-> <<e>>]
Binary(b) == [as |-> "bytes", bytes |-> b]
SealedEnvelopeToRecoveryCode(e) == BytesToPrefixedRecoveryCode(SealedEnvelopeToBinary(e), "AP1")

Write(f, pass) ==
    /\ hops < MaxHops
    /\ file = NoFile \/ reading.result = "read"   \* a file nobody reads is no file
    /\ file' = f
    /\ made' = [pass |-> pass, damaged |-> FALSE]
    /\ hops' = hops + 1
    /\ reading' = NotRead
    /\ UNCHANGED env

\* Without a password the wallet makes a code or a file in the clear.
CreateSealedBackupArtifacts(pass) ==
    LET notes == store["web"]
    IN  /\ notes # <<>>
        /\ IF pass = NoPass
           THEN \E f \in {BytesToPrefixedRecoveryCode(notes, "AP1P"), Pack(notes)} : Write(f, pass)
           ELSE \E e \in EncryptSpendNotes(pass, notes) :
                  \E f \in {SealedEnvelopeToRecoveryCode(e), Binary(SealedEnvelopeToBinary(e))} :
                    Write(f, pass)
        /\ UNCHANGED store

NoteExport(who, flags, typed) ==
    /\ store["cli"] # <<>>
    /\ \E pass \in Reaching(who, flags, typed) : \E e \in EncryptSpendNotes(pass, store["cli"]) :
         \E f \in {Sealed(e), SealedEnvelopeToRecoveryCode(e), Binary(SealedEnvelopeToBinary(e))} :
           Write(f, pass)
    /\ UNCHANGED store

\* Locking the vault empties the tab.
LockVault(typed) ==
    /\ store["web"] # <<>>
    /\ \E e \in EncryptSpendNotes(typed, store["web"]) : Write(Backup(e), typed)
    /\ store' = [store EXCEPT !["web"] = <<>>]

BackupExport(who, flags, typed) ==
    /\ who = "web" => store["web"] # <<>>
    /\ \E pass \in Reaching(who, flags, typed) :
         \E e \in EncryptSpendNotes(pass, store[StoreOf(who)]) : Write(Backup(e), pass)
    /\ UNCHANGED store

\* The Python client turns one form of a sealed file into another.
PyRecode ==
    /\ \/ file.as = "sealed-json" /\ file' = Binary(PySealedEnvelopeToBinary(file.bytes[1]))
       \/ \E b \in PyRecoveryCodeToBinary(file) : file' = Binary(b)
       \/ file.as = "bytes" /\ file' = PyBinaryToRecoveryCode(file.bytes)
       \/ /\ file.as = "bytes"
          /\ \E e \in PyBinaryToSealedEnvelope(file.bytes) : file' = Sealed(e)
    /\ reading' = NotRead
    /\ UNCHANGED <<store, env, made, hops>>

-----------------------------------------------------------------------------
(* On the way: a byte of a file, or a part of a code, is changed or lost.   *)
(* What is not protected at all, a file in the clear, stays whole here.     *)

Flip(x) == IF "is" \in DOMAIN x THEN [x EXCEPT !.n = (@ + 1) % 256] ELSE Note(Altered)

Damage ==
    /\ file.as \in {"bytes", "AP1", "AP1P"} /\ ~made.damaged /\ hops = 1
    /\ \E i \in DOMAIN file.bytes \cap Spots :
         \E bytes \in {[file.bytes EXCEPT ![i] = Flip(@)], RemoveAt(file.bytes, i),
                       SubSeq(file.bytes, 1, i - 1)} :
           file' = [file EXCEPT !.bytes = bytes]
    /\ made' = [made EXCEPT !.damaged = TRUE]
    /\ reading' = NotRead
    /\ UNCHANGED <<store, env, hops>>

-----------------------------------------------------------------------------
(* Reading. *)

IsText(bytes) == bytes # <<>> /\ \A i \in DOMAIN bytes : "secrets" \in DOMAIN bytes[i]

\* The notes a file of each form gives under a passphrase: at most one list.
FromBinary(pass) ==
    UNION {DecryptSpendNotes(e, pass) :
             e \in IF file.as = "bytes" THEN BinaryToSealedEnvelope(file.bytes) ELSE {}}
FromSealedCode(pass) ==
    UNION {DecryptSpendNotes(e, pass) : e \in RecoveryCodeToSealedEnvelope(file)}
FromPlainCode == {b \in PrefixedRecoveryCodeToBytes(file, "AP1P") : IsText(b)}
FromJson(pass) ==
    CASE file.as = "sealed-json" -> DecryptSpendNotes(file.bytes[1], pass)
      [] file.as = "pack-json" -> {file.bytes}
      [] OTHER -> {}
DecryptBackup(pass) == IF file.as = "apbackup" THEN Decrypt(file.bytes[1], pass) ELSE {}

ParseImportedNoteFile(pass) ==
    FromBinary(pass) \cup FromSealedCode(pass) \cup FromPlainCode \cup FromJson(pass)
ParseRecoveryCode(pass) == FromPlainCode \cup FromSealedCode(pass)

\* The file forms of cmdNoteImport: no code in the clear.
NotesInFile(pass) == FromBinary(pass) \cup FromSealedCode(pass) \cup FromJson(pass)

Merged(old, new) ==
    LET F[i \in 0 .. Len(new)] ==
          IF i = 0 THEN old
          ELSE IF Contains(F[i - 1], new[i]) THEN F[i - 1] ELSE Append(F[i - 1], new[i])
    IN  F[Len(new)]

Read(command, who, flags, passes, got, replaces) ==
    /\ file # NoFile /\ reading = NotRead
    /\ reading' = [command |-> command, who |-> who, flags |-> flags,
                   pass |-> IF passes = {} THEN NoPass ELSE CHOOSE p \in passes : TRUE,
                   result |-> IF got = {} THEN "refused" ELSE "read"]
    /\ store' = IF got = {} THEN store
                ELSE LET new == CHOOSE notes \in got : TRUE
                     IN  [store EXCEPT ![StoreOf(who)] = IF replaces THEN new ELSE Merged(@, new)]
    /\ UNCHANGED <<env, file, made, hops>>

\* The wallet adds; a password is asked only where the file needs one.
WebImport(pass) == Read("file", "web", {}, {pass}, ParseImportedNoteFile(pass), FALSE)
WebImportCode(pass) == Read("code", "web", {}, {pass}, ParseRecoveryCode(pass), FALSE)

\* A vault file takes the place of the notes in the tab.
WebImportBackup(pass) == Read("backup", "web", {}, {pass}, DecryptBackup(pass), TRUE)

\* mergeImportedSpendNotes and backup import: merged, or in place of the file.
NoteImport(who, flags, typed) ==
    LET passes == Reaching(who, flags, typed)
    IN  \E merge \in BOOLEAN :
          Read("import", who, flags, passes, UNION {NotesInFile(p) : p \in passes}, ~merge)

NoteImportRecovery(who, flags, typed) ==
    LET passes == Reaching(who, flags, typed)
    IN  \E merge \in BOOLEAN :
          Read("recovery", who, flags, passes, UNION {FromSealedCode(p) : p \in passes}, ~merge)

BackupImport(who, flags, typed) ==
    LET passes == Reaching(who, flags, typed)
    IN  \E merge \in BOOLEAN :
          Read("backup", who, flags, passes, UNION {DecryptBackup(p) : p \in passes}, ~merge)

-----------------------------------------------------------------------------

BackupInit ==
    /\ store \in Starts
    /\ env \in Environments
    /\ file = NoFile /\ made = [pass |-> NoPass, damaged |-> FALSE]
    /\ reading = NotRead
    /\ hops = 0

BackupNext ==
    \/ \E typed \in Passphrases :
         \/ LockVault(typed)
         \/ WebImport(typed) \/ WebImportCode(typed) \/ WebImportBackup(typed)
         \/ BackupExport("web", {}, typed)
         \/ \E who \in {"cli", "python"} : \E flags \in {{}, {"typed"}} :
              \/ NoteExport(who, flags, typed) \/ BackupExport(who, flags, typed)
              \/ NoteImport(who, flags, typed) \/ NoteImportRecovery(who, flags, typed)
              \/ BackupImport(who, flags, typed)
    \/ \E pass \in Passphrases \cup {NoPass} : CreateSealedBackupArtifacts(pass)
    \/ PyRecode
    \/ Damage

BackupSpec == BackupInit /\ [][BackupNext]_backupVars

-----------------------------------------------------------------------------

\* The forms of file each way of reading is for.
Forms == [file |-> {"bytes", "AP1", "AP1P", "sealed-json", "pack-json"},
          code |-> {"AP1", "AP1P"},
          import |-> {"bytes", "AP1", "sealed-json", "pack-json"},
          recovery |-> {"AP1"},
          backup |-> {"apbackup"}]

(* No note changes on its way through the clients.  Nobody reads a damaged  *)
(* file, or a sealed one without its passphrase; whoever has the passphrase *)
(* reads a whole file of a form his command is for.                         *)
NotesSurvive ==
    /\ \A c \in Clients : \A i \in DOMAIN store[c] : store[c][i].secrets \in Notes
    /\ reading.result = "read" => /\ ~made.damaged
                                  /\ made.pass \in {NoPass, reading.pass}
    /\ /\ reading.result = "refused" /\ ~made.damaged
       /\ reading.pass # NoPass /\ made.pass \in {NoPass, reading.pass}
       => file.as \notin Forms[reading.command]

(* packages/python-client/README.md:37: "Prefer --passphrase-stdin or       *)
(* AP_BACKUP_PASSPHRASE over a passphrase on the command line."  A command  *)
(* of the Python client takes the passphrase from the environment.          *)
PassphraseFromEnv ==
    /\ reading.result = "refused" /\ ~made.damaged
    /\ reading.who = "python" /\ reading.flags = {} /\ made.pass = env /\ env # NoPass
    => file.as \notin Forms[reading.command]
=============================================================================
