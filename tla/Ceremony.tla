------------------------------ MODULE Ceremony ------------------------------
(***************************************************************************)
(* The key ceremony and the release of its keys: packages/circuits/scripts *)
(* ceremony_*.mjs and hash_ceremony_artifacts.mjs, contributor-kit, and    *)
(* pin-mainnet-codehashes.mjs of packages/contracts.  A coordinator runs   *)
(* one command at a time; each may fail or be stopped between two of its   *)
(* writes.  Contributors work on copies of the kit, one after the other.   *)
(*                                                                         *)
(* A proving key is what went into it: its contributors in order and the   *)
(* beacon.  A verification key, a verifier source and a deployed verifier  *)
(* are determined by the proving key they come from and are written as     *)
(* that key; so are SHA-256 and code hashes, which have no collisions.     *)
(* snarkjs is external.                                                    *)
(***************************************************************************)
EXTENDS Integers, SequencesExt, FiniteSetsExt

CONSTANTS CircuitNames,   \* deposit, withdraw, withdraw_1in, withdraw_partial
          People,     \* contributors
          Beacons,    \* public beacon values
          MaxRounds, MaxJobs   \* bounds on round folders and on commands

Names == Range(CircuitNames)

\* There are circuits, and no contributor has the name of nobody.
CircuitsNamed ==
    /\ CircuitNames \in Seq(STRING) \ {<<>>}
    /\ "nobody" \notin People /\ MaxRounds \in Nat \ {0}

Fresh == [by |-> <<>>, beacon |-> "none"]       \* newZKey
Absent == [by |-> <<>>, beacon |-> "absent"]    \* no such file
LocalTrusted == [by |-> <<"local">>, beacon |-> "none"]

\* Bug: everyone contributes to the first key.
ContributedAnew(key, p) == [key EXCEPT !.by = <<p>>]
Contributed(key, p) == [key EXCEPT !.by = Append(@, p)]
Beaconed(key, b) == [key EXCEPT !.beacon = b]

\* Files by folder, round and circuit.  "chain" is what the deployment has
\* created so far, "registry" what pools.mainnet.json names.
File(folder, c) == <<folder, 0, c>>
Round(r, c) == <<"round", r, c>>
Folders == {"start", "kit", "final", "vkey", "sol", "chain", "registry"}
Paths == Folders \X {0} \X Names \cup {"round"} \X (0 .. MaxRounds) \X Names

VARIABLES disk,      \* the content of each file
          rounds,    \* how many round folders there are
          turn,      \* who has the contributor kit
          kit, out,  \* that person's copy of the kit, and their out folder
          kitReady,  \* the last start or accept ran to its end
          job,       \* writes the running command has yet to make
          printed,   \* the last report of --print-pins
          manifest,  \* manifest.expected.json: pins and runtime code hashes
          jobs       \* how many commands were run

keysVars == <<disk, rounds, turn, kit, out, kitReady, job, printed, manifest, jobs>>

All(folder) == [c \in Names |-> disk[File(folder, c)]]
Missing == [c \in Names |-> Absent]
Complete(keys) == \A c \in Names : keys[c] # Absent

\* the circuits a command gets through before the first one that is not ok
Through(ok) ==
    LET bad == {i \in DOMAIN CircuitNames : CircuitNames[i] \notin ok}
    IN  SubSeq(CircuitNames, 1, IF bad = {} THEN Len(CircuitNames) ELSE Min(bad) - 1)

\* A write gives some files their content; a loop over circuits makes so many
\* for each.
Put(path, key) == [f \in {path} |-> key]
NoFiles == [f \in {} |-> Absent]
Loop(over, many, writes) ==
    [k \in 1 .. many * Len(over) |->
        writes[over[((k - 1) \div many) + 1]][((k - 1) % many) + 1]]

Command(writes, readies) ==
    /\ job.todo = <<>> /\ jobs < MaxJobs /\ jobs' = jobs + 1
    /\ job' = [todo |-> writes, readies |-> readies]

----------------------------------------------------------------------------
(* Phase 2. *)

\* ceremony_start_phase2: keys without contributions, and the first kit
StartWrites == [c \in Names |-> <<Put(File("start", c), Absent), Put(File("start", c), Fresh),
                                  Put(File("kit", c), Fresh)>>]

StartPhase2 ==
    /\ turn = "nobody"
    /\ Command(Loop(CircuitNames, 3, StartWrites), TRUE)
    /\ rounds' = (IF rounds = 0 THEN 1 ELSE rounds) /\ kitReady' = FALSE
    /\ UNCHANGED <<disk, turn, kit, out, printed, manifest>>

\* The coordinator gives the kit to the next contributor once the last command
\* that writes to it has ended.
HandOut(p) ==
    /\ job.todo = <<>> /\ kitReady
    /\ turn' = p /\ kit' = All("kit") /\ out' = Missing /\ kitReady' = FALSE
    /\ UNCHANGED <<disk, rounds, job, printed, manifest, jobs>>

\* contribute.mjs, from the first file to DONE: nothing is sent before
Contribute ==
    /\ turn # "nobody" /\ Complete(kit) /\ out = Missing
    /\ out' = [c \in Names |-> Contributed(kit[c], turn)]
    /\ UNCHANGED <<disk, rounds, turn, kit, kitReady, job, printed, manifest, jobs>>

\* Bug: the highest folder is used again.
NextRoundLast == IF rounds = 0 THEN 0 ELSE rounds - 1
NextRound == rounds

\* ceremony_accept_contribution: archive, and install as the next kit
Accept ==
    LET r == NextRound
        AcceptWrites == [c \in Names |-> <<Put(Round(r, c), out[c]), Put(File("kit", c), out[c])>>]
    IN  /\ Complete(out) /\ r < MaxRounds
        /\ Command(Loop(CircuitNames, 2, AcceptWrites), TRUE)
        /\ rounds' = r + 1 /\ kitReady' = FALSE
        /\ UNCHANGED <<disk, turn, kit, out, printed, manifest>>

\* ceremony_finalize_phase2 from any round folder.  Round 0's files have other
\* names, and a folder may lack some.
Finalize ==
    /\ \E r \in 0 .. rounds - 1, b \in Beacons :
         LET FinalWrites == [c \in Names |->
                 LET key == Beaconed(disk[Round(r, c)], b)
                 IN  <<Put(File("final", c), Absent), Put(File("final", c), key),
                       Put(File("vkey", c), key)>>]
             has == {c \in Names : disk[Round(r, c)] # Absent}
         IN  Command(Loop(Through(has), 3, FinalWrites), FALSE)
    /\ UNCHANGED <<disk, rounds, turn, kit, out, kitReady, printed, manifest>>

----------------------------------------------------------------------------
(* The release. *)

Finals == All("final")
Vkeys  == All("vkey")
Sols   == All("sol")

\* Bug: the verification key is not compared with the proving key.
VkeyOfAny(c) == TRUE
VkeyOf(c) == Vkeys[c] = Finals[c]

\* ceremony_export_final_verifiers --print-pins
PrintPins ==
    /\ Complete(Finals) /\ Complete(Vkeys) /\ \A c \in Names : VkeyOf(c)
    /\ Command(<<>>, FALSE)
    /\ printed' = [c \in Names |-> [zkey |-> Finals[c], vkey |-> Vkeys[c],
                                    sol |-> Finals[c]]]
    /\ UNCHANGED <<disk, rounds, turn, kit, out, kitReady, manifest>>

NoPins == [c \in Names |-> [zkey |-> Absent, vkey |-> Absent, sol |-> Absent]]

\* The coordinator copies the report into the manifest and has it signed.
FillManifest ==
    /\ job.todo = <<>> /\ printed \notin {NoPins, manifest.pins}
    /\ manifest' = [manifest EXCEPT !.pins = printed]
    /\ UNCHANGED <<disk, rounds, turn, kit, out, kitReady, job, printed, jobs>>

\* validateCeremonyManifest, without and with the runtime code hashes
Valid == manifest.pins # NoPins
ValidWithHashes == Valid /\ Complete(manifest.hashes)

Pinned(c) == manifest.pins[c].zkey = Finals[c] /\ manifest.pins[c].vkey = Vkeys[c]

\* ceremony_export_final_verifiers: source by source, each checked first
ExportVerifiers ==
    LET ok == {c \in Names : Pinned(c) /\ VkeyOf(c) /\ manifest.pins[c].sol = Finals[c]}
        Installs == [c \in Names |-> <<Put(File("sol", c), Finals[c])>>]
    IN  /\ Complete(Finals) /\ Complete(Vkeys) /\ Valid
        /\ Command(Loop(Through(ok), 1, Installs), FALSE)
        /\ UNCHANGED <<disk, rounds, turn, kit, out, kitReady, printed, manifest>>

\* deploy-mainnet-ceremony: resumed, or begun anew with a fresh deployer; the
\* verifiers one by one, then the registry
Deploy ==
    \E done \in {All("chain"), Missing} :
        LET Left(c) == done[c] = Absent
            Creates == [c \in Names |->
                <<IF Left(c) THEN Put(File("chain", c), Sols[c]) ELSE NoFiles>>]
            Made(c) == IF Left(c) THEN Sols[c] ELSE done[c]
            Publish == [f \in {"registry"} \X {0} \X Names |-> Made(f[3])]
        IN  /\ Complete(Sols)
            /\ Command(Loop(CircuitNames, 1, Creates) \o <<Publish>>, FALSE)
            /\ disk' = [f \in Paths |-> IF f[1] = "chain" THEN done[f[3]] ELSE disk[f]]
            /\ UNCHANGED <<rounds, turn, kit, out, kitReady, printed, manifest>>

\* pin-mainnet-codehashes: the code that is on the chain, into any manifest
PinHashes ==
    /\ Complete(All("registry")) /\ Command(<<>>, FALSE)
    /\ manifest' = [manifest EXCEPT !.hashes = All("registry")]
    /\ UNCHANGED <<disk, rounds, turn, kit, out, kitReady, printed>>

----------------------------------------------------------------------------
WriteNext ==
    /\ job.todo # <<>>
    /\ disk' = [f \in Paths |-> IF f \in DOMAIN Head(job.todo) THEN Head(job.todo)[f] ELSE disk[f]]
    /\ job' = [job EXCEPT !.todo = Tail(@)]
    /\ kitReady' = ((job.readies /\ Len(job.todo) = 1) \/ kitReady)
    /\ UNCHANGED <<rounds, turn, kit, out, printed, manifest, jobs>>

Stop ==
    /\ job.todo # <<>> /\ job' = [job EXCEPT !.todo = <<>>]
    /\ UNCHANGED <<disk, rounds, turn, kit, out, kitReady, printed, manifest, jobs>>

KeysInit ==
    /\ disk = [f \in Paths |-> Absent] /\ rounds = 0
    /\ turn = "nobody" /\ kit = Missing /\ out = Missing /\ kitReady = FALSE
    /\ job = [todo |-> <<>>, readies |-> FALSE]
    /\ printed = NoPins /\ manifest = [pins |-> NoPins, hashes |-> Missing]
    /\ jobs = 0

KeysNext ==
    \/ StartPhase2 \/ (\E p \in People : HandOut(p)) \/ Contribute \/ Accept
    \/ Finalize \/ PrintPins \/ FillManifest \/ ExportVerifiers \/ Deploy \/ PinHashes
    \/ WriteNext \/ Stop

KeysSpec == KeysInit /\ [][KeysNext]_keysVars

----------------------------------------------------------------------------
\* verifyPinnedArtifacts: the files are the pinned ones.
ArtifactsMatch ==
    Valid /\ \A c \in Names : Pinned(c) /\ manifest.pins[c].sol = Sols[c]

\* hash_ceremony_artifacts --expect, which is ceremony:verify
CeremonyVerified == ValidWithHashes /\ ArtifactsMatch

\* resolve_proving_keys: the key with which clients prove
Resolved(c) == IF Finals[c] # Absent /\ Vkeys[c] # Absent THEN Finals[c]
               ELSE LocalTrusted

\* When the files match the manifest, then for every circuit the key clients
\* prove with, the one they check with and the verifier source are of one key,
\* whatever was interrupted, finalized again or exported from another round.
VerifiedKeysAgree ==
    ArtifactsMatch => \A c \in Names : Resolved(c) = Vkeys[c] /\ Resolved(c) = Sols[c]

\* Every archived key contains all contributions archived in earlier rounds,
\* though an acceptance may stop between archive and kit and be repeated.
RoundsBuildOn ==
    \A r, s \in 0 .. MaxRounds : r < s =>
        \A c \in Names :
            disk[Round(s, c)] # Absent =>
                IsPrefix(disk[Round(r, c)].by, disk[Round(s, c)].by)

\* A transcript is not rewritten: a key archived in a round stays there.
ArchiveStays ==
    [][\A r \in 0 .. MaxRounds, c \in Names :
          disk[Round(r, c)] # Absent =>
              disk'[Round(r, c)] = disk[Round(r, c)]]_keysVars

\* "Fill every hash, run ceremony:verify, deploy raw verifiers and adapters, then
\* pin both deployed runtime codehashes" (manifest.expected.template.json): when
\* the files match a filled manifest, verify passes before there is a deployment.
\* It asks for the code hashes and does not.
VerifiesBeforeDeployment ==
    ArtifactsMatch /\ All("chain") = Missing => CeremonyVerified
=============================================================================
