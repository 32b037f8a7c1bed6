-------------------------- MODULE Operations_proofs --------------------------
(***************************************************************************)
(* Four parts that share no state.  For any circuits, people, beacons and  *)
(* number of rounds and commands: the archive and the keys of the ceremony *)
(* (Ceremony).  For any notes, parties and kinds of files: what the files  *)
(* a holder hands out let others read and report as verified (Disclosure). *)
(* For any accounts, claims and provable proofs: what the client anchored  *)
(* stays attested (AttestationAnchor).  For any number of concurrent       *)
(* requests, any bodies, rates, payees and pools: what the relayer may     *)
(* lose gas on and what its clients read (Relayer).                        *)
(***************************************************************************)
EXTENDS Ceremony, Disclosure, AttestationAnchor, Relayer,
        NumberTheorems, TLAPS

(***************************************************************************)
(* The key ceremony, for any circuits, people, beacons and number of       *)
(* rounds and commands, each of which may stop between two writes.         *)
(***************************************************************************)

(* A proving key.                                                          *)
ZKeys == [by : Seq(People), beacon : Beacons \union {"none", "absent"}]
KeyTable == [Names -> ZKeys]

(* A write gives some files their content.                                 *)
AnyWrite == UNION {[D -> ZKeys] : D \in SUBSET Paths}

(* A round's key is written by an acceptance only, into the last round, from *)
(* the out folder; and so is the kit's once a contributor has had it.      *)
WriteOK(w) ==
  /\ \A f \in DOMAIN w : f[1] \in {"round", "kit"} => job.readies
  /\ \A f \in DOMAIN w : f[1] = "round" =>
        f[2] = rounds - 1 /\ w[f] = out[f[3]] /\ disk[f] \in {Absent, out[f[3]]}
        /\ turn # "nobody" /\ Complete(out)
  /\ \A f \in DOMAIN w : f[1] = "kit" /\ turn # "nobody" =>
        w[f] = out[f[3]] /\ Complete(out)

KeysTyped ==
  /\ disk \in [Paths -> ZKeys]
  /\ rounds \in 0 .. MaxRounds
  /\ kit \in KeyTable /\ out \in KeyTable
  /\ kitReady \in BOOLEAN /\ turn \in People \union {"nobody"}
  /\ job \in [todo : Seq(AnyWrite), readies : BOOLEAN]
  /\ DOMAIN manifest = {"pins", "hashes"}

JobOK == \A k \in 1 .. Len(job.todo) : WriteOK(job.todo[k])

(* A report is of one key for each circuit.                                *)
PinsAgree(pins) ==
  pins = NoPins \/
    \A c \in Names : pins[c].zkey = pins[c].vkey /\ pins[c].zkey = pins[c].sol
                     /\ pins[c].zkey # Absent

(* While a command that will ready the kit runs, each of the kit's files is *)
(* the contributor's or is yet to be written.                              *)
KitInTheMaking ==
  job.readies /\ job.todo # <<>> =>
    /\ ~kitReady
    /\ turn # "nobody" =>
         /\ Complete(out)
         /\ \A c \in Names :
              \/ disk[File("kit", c)] = out[c]
              \/ \E k \in 1 .. Len(job.todo) : File("kit", c) \in DOMAIN job.todo[k]

(* What the next contribution is made on, or was.                          *)
Base(c) == IF out[c] = Absent THEN kit[c] ELSE out[c]

(* Nothing is archived before the kit was handed out; what is archived is   *)
(* contained in what the contributor has, in the kit when it is ready, and *)
(* in what is archived later.                                              *)
Archive ==
  /\ turn = "nobody" =>
        /\ out = Missing /\ kit = Missing
        /\ \A r \in 0 .. MaxRounds, c \in Names : disk[Round(r, c)] = Absent
  /\ out = Missing \/ Complete(out)
  /\ \A r \in 0 .. MaxRounds, c \in Names : r >= rounds => disk[Round(r, c)] = Absent
  /\ \A r \in 0 .. MaxRounds, c \in Names :
       /\ IsPrefix(disk[Round(r, c)].by, Base(c).by)
       /\ kitReady => IsPrefix(disk[Round(r, c)].by, disk[File("kit", c)].by)

KeysInv ==
  /\ KeysTyped /\ JobOK /\ PinsAgree(printed) /\ PinsAgree(manifest.pins)
  /\ KitInTheMaking /\ Archive /\ RoundsBuildOn

(* Prefixes of what contributors signed.                                   *)
LEMMA PrefixSelf == ASSUME NEW S, NEW s \in Seq(S) PROVE IsPrefix(s, s)
BY DEF IsPrefix

(* The empty list is a prefix of all.                                     *)
LEMMA PrefixNone == ASSUME NEW S, NEW s \in Seq(S) PROVE IsPrefix(<<>>, s)
BY DEF IsPrefix

(* A prefix stays one when a contributor signs.                            *)
LEMMA PrefixAppend ==
  ASSUME NEW S, NEW s \in Seq(S), NEW t \in Seq(S), NEW x \in S, IsPrefix(s, t)
  PROVE  IsPrefix(s, Append(t, x))
<1>1. Len(s) <= Len(t) /\ SubSeq(s, 1, Len(s)) = SubSeq(t, 1, Len(s))
  BY DEF IsPrefix
<1>2. Len(s) <= Len(Append(t, x))
  BY <1>1
<1>3. SubSeq(Append(t, x), 1, Len(s)) = SubSeq(t, 1, Len(s))
  BY <1>1
<1> QED
  BY <1>1, <1>2, <1>3 DEF IsPrefix

(* The circuits are named, and there is one.                               *)
LEMMA NamesAre ==
  ASSUME CircuitsNamed
  PROVE  /\ CircuitNames \in Seq(Names) /\ Len(CircuitNames) \in Nat \ {0}
         /\ \A i \in 1 .. Len(CircuitNames) : CircuitNames[i] \in Names
         /\ \A c \in Names : \E i \in 1 .. Len(CircuitNames) : CircuitNames[i] = c
         /\ Names # {}
<1>1. Names = {CircuitNames[i] : i \in DOMAIN CircuitNames}
  BY DEF Names, Range
<1>2. /\ CircuitNames \in Seq(STRING) /\ Len(CircuitNames) \in Nat \ {0}
      /\ DOMAIN CircuitNames = 1 .. Len(CircuitNames)
  BY DEF CircuitsNamed
<1>3. \A i \in 1 .. Len(CircuitNames) : CircuitNames[i] \in Names
  BY <1>1, <1>2
<1>4. CircuitNames \in Seq(Names)
  BY <1>2, <1>3
<1>5. \A c \in Names : \E i \in 1 .. Len(CircuitNames) : CircuitNames[i] = c
  BY <1>1, <1>2
<1>6. Names # {}
  BY <1>2, <1>3
<1> QED
  BY <1>2, <1>3, <1>4, <1>5, <1>6

(* Whatever a command finds in order, it takes a prefix of the circuits.   *)
LEMMA ThroughIs ==
  ASSUME CircuitsNamed, NEW ok
  PROVE  Through(ok) \in Seq(Names)
<1> DEFINE bad == {i \in DOMAIN CircuitNames : CircuitNames[i] \notin ok}
<1> DEFINE m == IF bad = {} THEN Len(CircuitNames) ELSE Min(bad) - 1
<1>1. CircuitNames \in Seq(Names) /\ Len(CircuitNames) \in Nat
  BY NamesAre
<1>2. bad \subseteq 1 .. Len(CircuitNames)
  BY <1>1
<1>3. bad # {} => Min(bad) \in bad
  <2> SUFFICES ASSUME bad # {} PROVE Min(bad) \in bad
    OBVIOUS
  <2>1. bad \subseteq Nat
    BY <1>1, <1>2
  <2> HIDE DEF bad
  <2>2. \E x \in bad : \A y \in bad : x <= y
    BY <2>1, LeastNatural
  <2> QED
    BY <2>2 DEF Min
<1> HIDE DEF bad
<1>4. m \in 0 .. Len(CircuitNames)
  <2>1. CASE bad = {}
    BY <1>1, <2>1
  <2>2. CASE bad # {}
    <3>1. PICK x \in 1 .. Len(CircuitNames) : x = Min(bad)
      BY <1>2, <1>3, <2>2
    <3>2. m = x - 1
      BY <2>2, <3>1
    <3> QED
      BY <1>1, <3>1, <3>2
  <2> QED
    BY <2>1, <2>2
<1> HIDE DEF m
<1>5. SubSeq(CircuitNames, 1, m) \in Seq(Names)
  BY <1>1, <1>4
<1> QED
  BY <1>5 DEF Through, m, bad

(* A loop makes the writes of its circuits.                                *)
LEMMA LoopIs ==
  ASSUME NEW over \in Seq(Names), NEW many \in {1, 2, 3},
         NEW writes \in [Names -> [1 .. many -> AnyWrite]]
  PROVE  /\ Loop(over, many, writes) \in Seq(AnyWrite)
         /\ Len(Loop(over, many, writes)) = many * Len(over)
         /\ \A k \in 1 .. many * Len(over) : \E c \in Names, j \in 1 .. many :
              Loop(over, many, writes)[k] = writes[c][j]
<1> DEFINE n == many * Len(over)
<1>1. n \in Nat /\ Len(over) \in Nat
  OBVIOUS
<1>2. ASSUME NEW k \in 1 .. n
      PROVE  ((k - 1) \div many) + 1 \in 1 .. Len(over) /\ ((k - 1) % many) + 1 \in 1 .. many
  <2>1. CASE many = 1
    BY <1>1, <2>1
  <2>2. CASE many = 2
    BY <1>1, <2>2
  <2>3. CASE many = 3
    BY <1>1, <2>3
  <2> QED
    BY <2>1, <2>2, <2>3
<1> DEFINE w(k) == writes[over[((k - 1) \div many) + 1]][((k - 1) % many) + 1]
<1>3. ASSUME NEW k \in 1 .. n
      PROVE  \E c \in Names, j \in 1 .. many : w(k) = writes[c][j]
  <2> DEFINE i == ((k - 1) \div many) + 1
  <2> DEFINE j == ((k - 1) % many) + 1
  <2>1. i \in 1 .. Len(over) /\ j \in 1 .. many
    BY <1>2
  <2> HIDE DEF i, j
  <2>2. over[i] \in Names /\ writes[over[i]][j] = writes[over[i]][j]
    BY <2>1
  <2>3. \E c \in Names, jj \in 1 .. many : writes[over[i]][j] = writes[c][jj]
    BY <2>1, <2>2
  <2> QED
    BY <2>3 DEF i, j
<1>4. \A k \in 1 .. n : w(k) \in AnyWrite
  BY <1>3
<1>5. Loop(over, many, writes) = [k \in 1 .. n |-> w(k)]
  BY DEF Loop
<1> HIDE DEF w, n
<1>6. [k \in 1 .. n |-> w(k)] \in Seq(AnyWrite) /\ Len([k \in 1 .. n |-> w(k)]) = n
  BY <1>1, <1>4
<1>7. \A k \in 1 .. n : \E c \in Names, j \in 1 .. many : Loop(over, many, writes)[k] = writes[c][j]
  BY <1>3, <1>5
<1> QED
  BY <1>5, <1>6, <1>7 DEF n

(* In a loop of two writes for each circuit, the second one is there.      *)
LEMMA SecondWrites ==
  ASSUME CircuitsNamed, NEW writes \in [Names -> [1 .. 2 -> AnyWrite]], NEW c \in Names
  PROVE  \E k \in 1 .. 2 * Len(CircuitNames) : Loop(CircuitNames, 2, writes)[k] = writes[c][2]
<1>1. PICK i \in 1 .. Len(CircuitNames) : CircuitNames[i] = c
  BY NamesAre
<1>2. Len(CircuitNames) \in Nat /\ i \in Nat /\ 2 * i \in 1 .. 2 * Len(CircuitNames)
  BY <1>1, NamesAre
<1>3. ((2 * i - 1) \div 2) + 1 = i /\ ((2 * i - 1) % 2) + 1 = 2
  BY <1>2
<1>4. Loop(CircuitNames, 2, writes)[2 * i] = writes[c][2]
  BY <1>1, <1>2, <1>3 DEF Loop
<1> QED
  BY <1>2, <1>4

(* One file is written.                                                    *)
LEMMA PutIs ==
  ASSUME NEW f \in Paths, NEW key \in ZKeys
  PROVE  Put(f, key) \in AnyWrite /\ DOMAIN Put(f, key) = {f} /\ Put(f, key)[f] = key
<1>1. Put(f, key) \in [{f} -> ZKeys] /\ {f} \in SUBSET Paths
  BY DEF Put
<1> QED
  BY <1>1 DEF AnyWrite, Put

(* For a circuit that is deployed nothing is written.                      *)
LEMMA NoFilesIs == NoFiles \in AnyWrite /\ DOMAIN NoFiles = {}
<1>1. NoFiles \in [{} -> ZKeys] /\ {} \in SUBSET Paths
  BY DEF NoFiles
<1> QED
  BY <1>1 DEF AnyWrite, NoFiles

(* Where the files are.                                                    *)
LEMMA PathsAre ==
  /\ \A folder \in Folders, c \in Names :
       File(folder, c) \in Paths /\ File(folder, c)[1] = folder /\ File(folder, c)[3] = c
       /\ folder \notin {"round"}
  /\ \A r \in 0 .. MaxRounds, c \in Names :
       /\ Round(r, c) \in Paths /\ Round(r, c)[1] = "round" /\ Round(r, c)[2] = r
       /\ Round(r, c)[3] = c
  /\ \A f \in Paths : f[1] = "round" => f[2] \in 0 .. MaxRounds /\ f = Round(f[2], f[3]) /\ f[3] \in Names
  /\ \A f \in Paths : f[1] # "round" => f[1] \in Folders /\ f = File(f[1], f[3]) /\ f[3] \in Names
BY DEF Paths, Folders, File, Round

(* The keys the ceremony starts from.                                      *)
LEMMA KeysAre ==
  /\ Absent \in ZKeys /\ Fresh \in ZKeys /\ Absent.by = <<>>
  /\ Missing \in KeyTable
  /\ \A key \in ZKeys : key.by \in Seq(People) /\ IsPrefix(Absent.by, key.by) /\ IsPrefix(key.by, key.by)
<1>1. Absent \in ZKeys /\ Fresh \in ZKeys /\ Absent.by = <<>>
  <2>1. <<>> \in Seq(People)
    OBVIOUS
  <2> QED
    BY <2>1 DEF Absent, Fresh, ZKeys
<1>2. Missing \in KeyTable
  BY <1>1 DEF Missing, KeyTable
<1>3. \A key \in ZKeys : key.by \in Seq(People)
  BY DEF ZKeys
<1> QED
  BY <1>1, <1>2, <1>3, PrefixSelf, PrefixNone

-----------------------------------------------------------------------------
(* A step that leaves rounds and kit alone.                                *)
LEMMA ArchiveKept ==
  ASSUME Archive, RoundsBuildOn, UNCHANGED <<rounds, turn, kit, out>>,
         kitReady' => kitReady,
         \A r \in 0 .. MaxRounds, c \in Names : disk'[Round(r, c)] = disk[Round(r, c)],
         \A c \in Names : disk'[File("kit", c)] = disk[File("kit", c)]
  PROVE  Archive' /\ RoundsBuildOn'
<1>1. /\ rounds' = rounds /\ turn' = turn /\ kit' = kit /\ out' = out
  OBVIOUS
<1>2. \A c \in Names : Base(c)' = Base(c)
  BY <1>1 DEF Base
<1>3. Archive'
  BY <1>1, <1>2 DEF Archive, Complete, Missing
<1>4. RoundsBuildOn'
  BY DEF RoundsBuildOn
<1> QED
  BY <1>3, <1>4

(* A command that writes neither rounds nor kit.                           *)
LEMMA QuietCommand ==
  ASSUME KeysInv, NEW writes \in Seq(AnyWrite),
         job' = [todo |-> writes, readies |-> FALSE],
         \A k \in 1 .. Len(writes) : \A f \in DOMAIN writes[k] : f[1] \notin {"round", "kit"},
         disk' \in [Paths -> ZKeys],
         \A f \in Paths : f[1] \in {"round", "kit"} => disk'[f] = disk[f],
         UNCHANGED <<rounds, turn, kit, out, kitReady>>,
         PinsAgree(printed'), PinsAgree(manifest'.pins), DOMAIN manifest' = DOMAIN manifest
  PROVE  KeysInv'
<1>1. \A r \in 0 .. MaxRounds, c \in Names : disk'[Round(r, c)] = disk[Round(r, c)]
  BY PathsAre
<1>2. \A c \in Names : disk'[File("kit", c)] = disk[File("kit", c)]
  <2>1. "kit" \in Folders
    BY DEF Folders
  <2> QED
    BY <2>1, PathsAre
<1>3. Archive' /\ RoundsBuildOn'
  BY <1>1, <1>2, ArchiveKept DEF KeysInv
<1>4. KeysTyped'
  BY DEF KeysInv, KeysTyped, AnyWrite, ZKeys, KeyTable
<1>5. JobOK'
  <2>1. job'.todo = writes
    OBVIOUS
  <2> QED
    BY <2>1 DEF JobOK, WriteOK
<1>6. KitInTheMaking'
  BY DEF KitInTheMaking
<1>7. PinsAgree(printed)' /\ PinsAgree(manifest.pins)'
  BY DEF PinsAgree
<1> QED
  BY <1>3, <1>4, <1>5, <1>6, <1>7 DEF KeysInv

(* Every write of a loop is one of its circuits' writes.                   *)
LEMMA LoopQuiet ==
  ASSUME NEW over \in Seq(Names), NEW many \in {1, 2, 3},
         NEW writes \in [Names -> [1 .. many -> AnyWrite]],
         \A c \in Names, j \in 1 .. many :
            \A f \in DOMAIN writes[c][j] : f[1] \notin {"round", "kit"}
  PROVE  /\ Loop(over, many, writes) \in Seq(AnyWrite)
         /\ \A k \in 1 .. Len(Loop(over, many, writes)) :
              \A f \in DOMAIN Loop(over, many, writes)[k] : f[1] \notin {"round", "kit"}
<1>1. /\ Loop(over, many, writes) \in Seq(AnyWrite)
      /\ Len(Loop(over, many, writes)) = many * Len(over)
      /\ \A k \in 1 .. many * Len(over) : \E c \in Names, j \in 1 .. many :
           Loop(over, many, writes)[k] = writes[c][j]
  BY LoopIs
<1> DEFINE s == Loop(over, many, writes)
<1> HIDE DEF s
<1>2. ASSUME NEW k \in 1 .. Len(s), NEW f \in DOMAIN s[k]
      PROVE  f[1] \notin {"round", "kit"}
  BY <1>1 DEF s
<1> QED
  BY <1>1, <1>2 DEF s

(* What a command of the coordinator needs and leaves.                     *)
LEMMA CommandIs ==
  ASSUME NEW writes, NEW readies, Command(writes, readies)
  PROVE  job.todo = <<>> /\ job' = [todo |-> writes, readies |-> readies]
BY DEF Command

(* Finalizing writes the final keys of the circuits it gets through.       *)
LEMMA FinalizeStep ==
  ASSUME CircuitsNamed, KeysInv, Finalize
  PROVE  KeysInv'
<1> DEFINE FinalWrites(r, b) ==
      [c \in Names |->
         LET key == Beaconed(disk[Round(r, c)], b)
         IN  <<Put(File("final", c), Absent), Put(File("final", c), key),
               Put(File("vkey", c), key)>>]
<1> DEFINE has(r) == {c \in Names : disk[Round(r, c)] # Absent}
<1>1. PICK r \in 0 .. rounds - 1, b \in Beacons :
        Command(Loop(Through(has(r)), 3, FinalWrites(r, b)), FALSE)
  BY DEF Finalize
<1>2. Through(has(r)) \in Seq(Names)
  BY ThroughIs
<1>3. r \in 0 .. MaxRounds
  BY DEF KeysInv, KeysTyped, CircuitsNamed
<1>4. \A c \in Names : Beaconed(disk[Round(r, c)], b) \in ZKeys
  <2> SUFFICES ASSUME NEW c \in Names PROVE Beaconed(disk[Round(r, c)], b) \in ZKeys
    OBVIOUS
  <2>1. PICK key \in ZKeys : key = disk[Round(r, c)]
    BY <1>3, PathsAre DEF KeysInv, KeysTyped
  <2>2. [key EXCEPT !.beacon = b] \in ZKeys
    BY <2>1 DEF ZKeys
  <2> QED
    BY <2>1, <2>2 DEF Beaconed
<1> DEFINE key(c) == Beaconed(disk[Round(r, c)], b)
<1> DEFINE w == FinalWrites(r, b)
<1>5. ASSUME NEW c \in Names
      PROVE  /\ w[c] \in [1 .. 3 -> AnyWrite]
             /\ \A j \in 1 .. 3 : \A f \in DOMAIN w[c][j] : f[1] \notin {"round", "kit"}
  <2>1. w[c] = <<Put(File("final", c), Absent), Put(File("final", c), key(c)),
                 Put(File("vkey", c), key(c))>>
    OBVIOUS
  <2>2. key(c) \in ZKeys /\ Absent \in ZKeys
    BY <1>4, KeysAre
  <2> HIDE DEF w, key
  <2>3. /\ File("final", c) \in Paths /\ File("vkey", c) \in Paths
        /\ File("final", c)[1] = "final" /\ File("vkey", c)[1] = "vkey"
    BY PathsAre DEF Folders
  <2>4. /\ Put(File("final", c), Absent) \in AnyWrite
        /\ Put(File("final", c), key(c)) \in AnyWrite
        /\ Put(File("vkey", c), key(c)) \in AnyWrite
        /\ DOMAIN Put(File("final", c), Absent) = {File("final", c)}
        /\ DOMAIN Put(File("final", c), key(c)) = {File("final", c)}
        /\ DOMAIN Put(File("vkey", c), key(c)) = {File("vkey", c)}
    BY <2>2, <2>3, PutIs
  <2> QED
    BY <2>1, <2>3, <2>4
<1>6. w \in [Names -> [1 .. 3 -> AnyWrite]]
  <2>1. w = [c \in Names |-> w[c]]
    OBVIOUS
  <2> HIDE DEF w
  <2> QED
    BY <1>5, <2>1
<1>7. Command(Loop(Through(has(r)), 3, w), FALSE)
  BY <1>1
<1> HIDE DEF w
<1> DEFINE s == Loop(Through(has(r)), 3, w)
<1>8. /\ s \in Seq(AnyWrite)
      /\ \A k \in 1 .. Len(s) : \A f \in DOMAIN s[k] : f[1] \notin {"round", "kit"}
  BY <1>2, <1>5, <1>6, LoopQuiet
<1>9. job' = [todo |-> s, readies |-> FALSE]
  BY <1>7, CommandIs
<1> HIDE DEF s, has
<1>10. UNCHANGED <<disk, rounds, turn, kit, out, kitReady, printed, manifest>>
  BY DEF Finalize
<1> QED
  BY <1>8, <1>9, <1>10, QuietCommand DEF KeysInv, KeysTyped

(* A report is printed of verification keys that are the final keys' own.  *)
LEMMA PrintPinsStep ==
  ASSUME CircuitsNamed, KeysInv, PrintPins
  PROVE  KeysInv'
<1>1. /\ Complete(Finals) /\ Complete(Vkeys) /\ \A c \in Names : VkeyOf(c)
      /\ Command(<<>>, FALSE)
      /\ printed' = [c \in Names |-> [zkey |-> Finals[c], vkey |-> Vkeys[c], sol |-> Finals[c]]]
      /\ UNCHANGED <<disk, rounds, turn, kit, out, kitReady, manifest>>
  BY DEF PrintPins
<1>2. \A c \in Names : Vkeys[c] = Finals[c] /\ Finals[c] # Absent
  BY <1>1 DEF VkeyOf, Complete
<1>3. PinsAgree(printed')
  BY <1>1, <1>2 DEF PinsAgree
<1>4. job' = [todo |-> <<>>, readies |-> FALSE]
  BY <1>1, CommandIs
<1>5. <<>> \in Seq(AnyWrite)
  OBVIOUS
<1>6. \A k \in 1 .. Len(<<>>) : \A f \in DOMAIN <<>>[k] : f[1] \notin {"round", "kit"}
  OBVIOUS
<1> QED
  BY <1>1, <1>3, <1>4, <1>5, <1>6, QuietCommand DEF KeysInv, KeysTyped

(* The manifest takes a report as a whole.                                 *)
LEMMA FillManifestStep ==
  ASSUME CircuitsNamed, KeysInv, FillManifest
  PROVE  KeysInv'
<1>1. /\ manifest' = [manifest EXCEPT !.pins = printed]
      /\ UNCHANGED <<disk, rounds, turn, kit, out, kitReady, job, printed>>
  BY DEF FillManifest
<1>2. PinsAgree(manifest'.pins) /\ DOMAIN manifest' = DOMAIN manifest
  BY <1>1 DEF KeysInv, KeysTyped
<1>3. PinsAgree(printed)' /\ PinsAgree(manifest.pins)'
  BY <1>1, <1>2 DEF KeysInv, PinsAgree
<1>4. KeysTyped' /\ JobOK' /\ KitInTheMaking'
  BY <1>1 DEF KeysInv, KeysTyped, JobOK, WriteOK, KitInTheMaking, Complete, KeyTable, ZKeys,
              AnyWrite
<1>5. Archive' /\ RoundsBuildOn'
  BY <1>1, ArchiveKept DEF KeysInv
<1> QED
  BY <1>3, <1>4, <1>5 DEF KeysInv

(* The verifier sources are installed from the first that is pinned on.    *)
LEMMA VerifiersStep ==
  ASSUME CircuitsNamed, KeysInv, ExportVerifiers
  PROVE  KeysInv'
<1> DEFINE ok == {c \in Names : Pinned(c) /\ VkeyOf(c) /\ manifest.pins[c].sol = Finals[c]}
<1> DEFINE w == [c \in Names |-> <<Put(File("sol", c), Finals[c])>>]
<1>1. /\ Command(Loop(Through(ok), 1, w), FALSE)
      /\ UNCHANGED <<disk, rounds, turn, kit, out, kitReady, printed, manifest>>
  BY DEF ExportVerifiers
<1>2. Through(ok) \in Seq(Names)
  BY ThroughIs
<1>3. ASSUME NEW c \in Names
      PROVE  /\ w[c] \in [1 .. 1 -> AnyWrite]
             /\ \A j \in 1 .. 1 : \A f \in DOMAIN w[c][j] : f[1] \notin {"round", "kit"}
  <2>1. w[c] = <<Put(File("sol", c), Finals[c])>>
    OBVIOUS
  <2>2. /\ File("sol", c) \in Paths /\ File("sol", c)[1] = "sol"
        /\ File("final", c) \in Paths
    BY PathsAre DEF Folders
  <2>3. Finals[c] \in ZKeys
    BY <2>2 DEF Finals, All, KeysInv, KeysTyped
  <2>4. /\ Put(File("sol", c), Finals[c]) \in AnyWrite
        /\ DOMAIN Put(File("sol", c), Finals[c]) = {File("sol", c)}
    BY <2>2, <2>3, PutIs
  <2> HIDE DEF w
  <2> QED
    BY <2>1, <2>2, <2>4
<1>4. w \in [Names -> [1 .. 1 -> AnyWrite]]
  <2>1. w = [c \in Names |-> w[c]]
    OBVIOUS
  <2> HIDE DEF w
  <2> QED
    BY <1>3, <2>1
<1> HIDE DEF w, ok
<1> DEFINE s == Loop(Through(ok), 1, w)
<1>5. /\ s \in Seq(AnyWrite)
      /\ \A k \in 1 .. Len(s) : \A f \in DOMAIN s[k] : f[1] \notin {"round", "kit"}
  BY <1>2, <1>3, <1>4, LoopQuiet
<1>6. job' = [todo |-> s, readies |-> FALSE]
  BY <1>1, CommandIs
<1> HIDE DEF s
<1> QED
  BY <1>1, <1>5, <1>6, QuietCommand DEF KeysInv, KeysTyped

(* A deployment writes the chain, circuit by circuit, then the registry.   *)
LEMMA DeployKeysStep ==
  ASSUME CircuitsNamed, KeysInv, Deploy
  PROVE  KeysInv'
<1> DEFINE w(done) == [c \in Names |->
              <<IF done[c] = Absent THEN Put(File("chain", c), Sols[c]) ELSE NoFiles>>]
<1> DEFINE Publish(done) == [f \in {"registry"} \X {0} \X Names |->
                               IF done[f[3]] = Absent THEN Sols[f[3]] ELSE done[f[3]]]
<1>1. PICK done \in {All("chain"), Missing} :
        /\ Command(Loop(CircuitNames, 1, w(done)) \o <<Publish(done)>>, FALSE)
        /\ disk' = [f \in Paths |-> IF f[1] = "chain" THEN done[f[3]] ELSE disk[f]]
        /\ UNCHANGED <<rounds, turn, kit, out, kitReady, printed, manifest>>
  BY DEF Deploy
<1>2. \A folder \in Folders, c \in Names :
         File(folder, c) \in Paths /\ File(folder, c)[1] = folder /\ File(folder, c)[3] = c
  BY PathsAre
<1>3. /\ All("chain") \in KeyTable /\ Sols \in KeyTable
  BY <1>2 DEF All, Sols, KeysInv, KeysTyped, KeyTable, Folders
<1>4. done \in KeyTable
  BY <1>1, <1>3, KeysAre
<1>5. \A c \in Names : done[c] \in ZKeys /\ Sols[c] \in ZKeys
  BY <1>3, <1>4 DEF KeyTable
<1>6. disk' \in [Paths -> ZKeys]
  <2>1. \A f \in Paths : f[1] = "chain" => f[3] \in Names
    BY PathsAre
  <2> QED
    BY <1>1, <1>5, <2>1 DEF KeysInv, KeysTyped
<1>7. \A f \in Paths : f[1] \in {"round", "kit"} => disk'[f] = disk[f]
  BY <1>1
<1> DEFINE v == w(done)
<1>8. ASSUME NEW c \in Names
      PROVE  /\ v[c] \in [1 .. 1 -> AnyWrite]
             /\ \A j \in 1 .. 1 : \A f \in DOMAIN v[c][j] : f[1] \notin {"round", "kit"}
  <2> DEFINE x == IF done[c] = Absent THEN Put(File("chain", c), Sols[c]) ELSE NoFiles
  <2>1. v[c] = <<x>>
    OBVIOUS
  <2>2. File("chain", c) \in Paths /\ File("chain", c)[1] = "chain"
    BY <1>2 DEF Folders
  <2>3. /\ Put(File("chain", c), Sols[c]) \in AnyWrite
        /\ DOMAIN Put(File("chain", c), Sols[c]) = {File("chain", c)}
    BY <1>5, <2>2, PutIs
  <2>4. x \in AnyWrite /\ \A f \in DOMAIN x : f[1] \notin {"round", "kit"}
    BY <2>2, <2>3, NoFilesIs
  <2> HIDE DEF v, x
  <2> QED
    BY <2>1, <2>4
<1>9. v \in [Names -> [1 .. 1 -> AnyWrite]]
  <2>1. v = [c \in Names |-> v[c]]
    OBVIOUS
  <2> HIDE DEF v
  <2> QED
    BY <1>8, <2>1
<1> DEFINE p == Publish(done)
<1>10. p \in AnyWrite /\ \A f \in DOMAIN p : f[1] \notin {"round", "kit"}
  <2> DEFINE D == {"registry"} \X {0} \X Names
  <2>1. D \subseteq Paths
    BY DEF Paths, Folders
  <2>2. \A f \in D : f[3] \in Names /\ f[1] = "registry"
    OBVIOUS
  <2>3. p \in [D -> ZKeys]
    BY <1>5, <2>2
  <2> HIDE DEF p, D
  <2>4. DOMAIN p = D
    BY <2>3
  <2> QED
    BY <2>1, <2>2, <2>3, <2>4 DEF AnyWrite
<1>11. job' = [todo |-> Loop(CircuitNames, 1, v) \o <<p>>, readies |-> FALSE]
  BY <1>1, CommandIs
<1> HIDE DEF v, p, w, Publish
<1> DEFINE s == Loop(CircuitNames, 1, v)
<1>12. /\ s \in Seq(AnyWrite)
       /\ \A k \in 1 .. Len(s) : \A f \in DOMAIN s[k] : f[1] \notin {"round", "kit"}
  BY <1>8, <1>9, NamesAre, LoopQuiet
<1>13. job' = [todo |-> s \o <<p>>, readies |-> FALSE]
  BY <1>11
<1> HIDE DEF s
<1>14. <<p>> \in Seq(AnyWrite) /\ Len(<<p>>) = 1 /\ <<p>>[1] = p
  BY <1>10
<1>15. /\ s \o <<p>> \in Seq(AnyWrite) /\ Len(s \o <<p>>) = Len(s) + 1
       /\ \A i \in 1 .. Len(s) : (s \o <<p>>)[i] = s[i]
       /\ (s \o <<p>>)[Len(s) + 1] = p
  BY <1>12, <1>14, ConcatIs
<1> DEFINE t == s \o <<p>>
<1>16. /\ t \in Seq(AnyWrite) /\ Len(t) = Len(s) + 1 /\ Len(s) \in Nat
       /\ \A i \in 1 .. Len(s) : t[i] = s[i]
       /\ t[Len(s) + 1] = p
       /\ job' = [todo |-> t, readies |-> FALSE]
  BY <1>12, <1>13, <1>15
<1> HIDE DEF t
<1>17. \A k \in 1 .. Len(t) : \A f \in DOMAIN t[k] : f[1] \notin {"round", "kit"}
  <2> SUFFICES ASSUME NEW k \in 1 .. Len(t), NEW f \in DOMAIN t[k]
               PROVE  f[1] \notin {"round", "kit"}
    OBVIOUS
  <2>1. CASE k \in 1 .. Len(s)
    BY <1>12, <1>16, <2>1
  <2>2. CASE k = Len(s) + 1
    BY <1>10, <1>16, <2>2
  <2> QED
    BY <1>16, <2>1, <2>2
<1>18. /\ rounds' = rounds /\ turn' = turn /\ kit' = kit /\ out' = out /\ kitReady' = kitReady
       /\ PinsAgree(printed') /\ PinsAgree(manifest'.pins) /\ DOMAIN manifest' = DOMAIN manifest
  BY <1>1 DEF KeysInv
<1> QED
  BY <1>6, <1>7, <1>16, <1>17, <1>18, QuietCommand

(* Code hashes are pinned beside the pins.                                 *)
LEMMA PinHashesStep ==
  ASSUME CircuitsNamed, KeysInv, PinHashes
  PROVE  KeysInv'
<1>1. /\ Command(<<>>, FALSE)
      /\ manifest' = [manifest EXCEPT !.hashes = All("registry")]
      /\ UNCHANGED <<disk, rounds, turn, kit, out, kitReady, printed>>
  BY DEF PinHashes
<1>2. manifest'.pins = manifest.pins /\ DOMAIN manifest' = DOMAIN manifest
  BY <1>1 DEF KeysInv, KeysTyped
<1>3. job' = [todo |-> <<>>, readies |-> FALSE]
  BY <1>1, CommandIs
<1>4. <<>> \in Seq(AnyWrite)
  OBVIOUS
<1>5. \A k \in 1 .. Len(<<>>) : \A f \in DOMAIN <<>>[k] : f[1] \notin {"round", "kit"}
  OBVIOUS
<1> QED
  BY <1>1, <1>2, <1>3, <1>4, <1>5, QuietCommand DEF KeysInv, KeysTyped

(* A stopped command leaves what it wrote; the kit is not ready then.      *)
LEMMA StopStep ==
  ASSUME CircuitsNamed, KeysInv, Stop
  PROVE  KeysInv'
<1>1. /\ job' = [job EXCEPT !.todo = <<>>]
      /\ UNCHANGED <<disk, rounds, turn, kit, out, kitReady, printed, manifest>>
  BY DEF Stop
<1>2. job'.todo = <<>> /\ job' \in [todo : Seq(AnyWrite), readies : BOOLEAN]
  <2>1. <<>> \in Seq(AnyWrite)
    OBVIOUS
  <2> QED
    BY <1>1, <2>1 DEF KeysInv, KeysTyped
<1>3. KeysTyped' /\ JobOK' /\ KitInTheMaking'
  BY <1>1, <1>2 DEF KeysInv, KeysTyped, JobOK, KitInTheMaking, KeyTable, ZKeys, AnyWrite
<1>4. Archive' /\ RoundsBuildOn'
  BY <1>1, ArchiveKept DEF KeysInv
<1>5. PinsAgree(printed)' /\ PinsAgree(manifest.pins)'
  BY <1>1 DEF KeysInv, PinsAgree
<1> QED
  BY <1>3, <1>4, <1>5 DEF KeysInv

-----------------------------------------------------------------------------
(* The first round folder and kit are made before anyone has had the kit.  *)
LEMMA StartStep ==
  ASSUME CircuitsNamed, KeysInv, StartPhase2
  PROVE  KeysInv'
<1>1. /\ turn = "nobody" /\ Command(Loop(CircuitNames, 3, StartWrites), TRUE)
      /\ rounds' = (IF rounds = 0 THEN 1 ELSE rounds) /\ kitReady' = FALSE
      /\ UNCHANGED <<disk, turn, kit, out, printed, manifest>>
  BY DEF StartPhase2
<1> DEFINE w == StartWrites
<1>2. ASSUME NEW c \in Names
      PROVE  /\ w[c] \in [1 .. 3 -> AnyWrite]
             /\ \A j \in 1 .. 3 : \A f \in DOMAIN w[c][j] : f[1] # "round"
  <2>1. w[c] = <<Put(File("start", c), Absent), Put(File("start", c), Fresh),
                 Put(File("kit", c), Fresh)>>
    BY DEF StartWrites
  <2>2. Fresh \in ZKeys /\ Absent \in ZKeys
    BY KeysAre
  <2> HIDE DEF w
  <2>3. /\ File("start", c) \in Paths /\ File("kit", c) \in Paths
        /\ File("start", c)[1] = "start" /\ File("kit", c)[1] = "kit"
    BY PathsAre DEF Folders
  <2>4. /\ Put(File("start", c), Absent) \in AnyWrite
        /\ Put(File("start", c), Fresh) \in AnyWrite
        /\ Put(File("kit", c), Fresh) \in AnyWrite
        /\ DOMAIN Put(File("start", c), Absent) = {File("start", c)}
        /\ DOMAIN Put(File("start", c), Fresh) = {File("start", c)}
        /\ DOMAIN Put(File("kit", c), Fresh) = {File("kit", c)}
    BY <2>2, <2>3, PutIs
  <2> QED
    BY <2>1, <2>3, <2>4
<1>3. w \in [Names -> [1 .. 3 -> AnyWrite]]
  <2>1. w = [c \in Names |-> w[c]]
    BY DEF StartWrites
  <2> HIDE DEF w
  <2> QED
    BY <1>2, <2>1
<1> HIDE DEF w
<1> DEFINE s == Loop(CircuitNames, 3, w)
<1>4. /\ s \in Seq(AnyWrite) /\ Len(s) = 3 * Len(CircuitNames)
      /\ \A k \in 1 .. 3 * Len(CircuitNames) : \E c \in Names, j \in 1 .. 3 : s[k] = w[c][j]
  BY <1>3, NamesAre, LoopIs
<1>5. job' = [todo |-> s, readies |-> TRUE]
  BY <1>1, CommandIs DEF w
<1> HIDE DEF s
<1>6. \A k \in 1 .. Len(s) : \A f \in DOMAIN s[k] : f[1] # "round"
  BY <1>2, <1>4
<1>7. KeysTyped'
  <2>1. rounds' \in 0 .. MaxRounds
    BY <1>1 DEF KeysInv, KeysTyped, CircuitsNamed
  <2>2. job' \in [todo : Seq(AnyWrite), readies : BOOLEAN]
    BY <1>4, <1>5
  <2> QED
    BY <1>1, <2>1, <2>2 DEF KeysInv, KeysTyped
<1>8. JobOK'
  <2>1. job'.todo = s /\ job'.readies
    BY <1>5
  <2> QED
    BY <1>1, <1>6, <2>1 DEF JobOK, WriteOK
<1>9. KitInTheMaking'
  BY <1>1 DEF KitInTheMaking
<1>10. Archive' /\ RoundsBuildOn'
  <2>1. \A r \in 0 .. MaxRounds, c \in Names : disk[Round(r, c)] = Absent
    BY <1>1 DEF KeysInv, Archive
  <2>2. \A c \in Names : Base(c)' = Base(c)
    BY <1>1 DEF Base
  <2>3. Archive'
    BY <1>1, <2>1, <2>2 DEF KeysInv, Archive, Complete, Missing
  <2> QED
    BY <1>1, <2>3 DEF KeysInv, RoundsBuildOn
<1>11. PinsAgree(printed)' /\ PinsAgree(manifest.pins)'
  BY <1>1 DEF KeysInv, PinsAgree
<1> QED
  BY <1>7, <1>8, <1>9, <1>10, <1>11 DEF KeysInv

(* A kit that is ready contains all there is.                              *)
LEMMA HandOutStep ==
  ASSUME CircuitsNamed, KeysInv, NEW p \in People, HandOut(p)
  PROVE  KeysInv'
<1>1. /\ job.todo = <<>> /\ kitReady
      /\ turn' = p /\ kit' = All("kit") /\ out' = Missing /\ kitReady' = FALSE
      /\ UNCHANGED <<disk, rounds, job, printed, manifest>>
  BY DEF HandOut
<1>2. p # "nobody"
  BY DEF CircuitsNamed
<1>3. \A c \in Names : File("kit", c) \in Paths
  BY PathsAre DEF Folders
<1>4. kit' \in KeyTable /\ \A c \in Names : kit'[c] = disk[File("kit", c)]
  BY <1>1, <1>3 DEF All, KeyTable, KeysInv, KeysTyped
<1>5. KeysTyped'
  <2>1. out' \in KeyTable
    BY <1>1, KeysAre
  <2>2. job' = job /\ disk' = disk /\ rounds' = rounds /\ kitReady' = FALSE /\ manifest' = manifest
    BY <1>1
  <2>3. turn' \in People
    BY <1>1
  <2> QED
    BY <1>4, <2>1, <2>2, <2>3 DEF KeysInv, KeysTyped
<1>6. JobOK' /\ KitInTheMaking'
  BY <1>1 DEF JobOK, KitInTheMaking
<1>7. \A c \in Names : Base(c)' = disk[File("kit", c)]
  BY <1>1, <1>4 DEF Base, Missing
<1>8. Archive'
  <2>1. /\ disk' = disk /\ rounds' = rounds /\ turn' # "nobody" /\ out' = Missing /\ kitReady' = FALSE
    BY <1>1, <1>2
  <2>2. \A r \in 0 .. MaxRounds, c \in Names : r >= rounds => disk[Round(r, c)] = Absent
    BY DEF KeysInv, Archive
  <2>3. \A r \in 0 .. MaxRounds, c \in Names :
          IsPrefix(disk[Round(r, c)].by, disk[File("kit", c)].by)
    BY <1>1 DEF KeysInv, Archive
  <2>4. \A r \in 0 .. MaxRounds, c \in Names : r >= rounds' => disk'[Round(r, c)] = Absent
    BY <2>1, <2>2
  <2>5. \A r \in 0 .. MaxRounds, c \in Names : IsPrefix(disk'[Round(r, c)].by, Base(c)'.by)
    BY <1>7, <2>1, <2>3
  <2> QED
    BY <2>1, <2>4, <2>5 DEF Archive, Missing
<1>9. RoundsBuildOn'
  BY <1>1 DEF KeysInv, RoundsBuildOn
<1>10. PinsAgree(printed)' /\ PinsAgree(manifest.pins)'
  BY <1>1 DEF KeysInv, PinsAgree
<1> QED
  BY <1>5, <1>6, <1>8, <1>9, <1>10 DEF KeysInv

(* Nothing is in both states at once: an out folder that is complete is    *)
(* not missing.                                                            *)
LEMMA CompleteIsThere == CircuitsNamed => ~Complete(Missing)
<1> SUFFICES ASSUME CircuitsNamed PROVE ~Complete(Missing)
  OBVIOUS
<1>1. PICK c : c \in Names
  BY NamesAre
<1> QED
  BY <1>1 DEF Complete, Missing

(* A contribution is made on the kit that was handed out, while no command  *)
(* writes to the kit or to a round.                                        *)
LEMMA ContributeStep ==
  ASSUME CircuitsNamed, KeysInv, Contribute
  PROVE  KeysInv'
<1>1. /\ turn # "nobody" /\ Complete(kit) /\ out = Missing
      /\ out' = [c \in Names |-> Contributed(kit[c], turn)]
      /\ UNCHANGED <<disk, rounds, turn, kit, kitReady, job, printed, manifest>>
  BY DEF Contribute
<1>2. turn \in People
  BY <1>1 DEF KeysInv, KeysTyped
<1>3. ASSUME NEW c \in Names
      PROVE  /\ out'[c] \in ZKeys /\ out'[c].by = Append(kit[c].by, turn) /\ out'[c] # Absent
             /\ kit[c].by \in Seq(People)
  <2>1. PICK key \in ZKeys : key = kit[c]
    BY DEF KeysInv, KeysTyped, KeyTable
  <2>2. key.by \in Seq(People) /\ Append(key.by, turn) \in Seq(People)
    BY <1>2, <2>1, KeysAre
  <2>3. Append(key.by, turn) # <<>>
    BY <2>2
  <2>4. out'[c] = [key EXCEPT !.by = Append(key.by, turn)]
    BY <1>1, <2>1 DEF Contributed
  <2>5. [key EXCEPT !.by = Append(key.by, turn)] \in ZKeys
    BY <2>1, <2>2 DEF ZKeys
  <2>6. [key EXCEPT !.by = Append(key.by, turn)].by = Append(key.by, turn)
    BY <2>1 DEF ZKeys
  <2>7. Absent.by = <<>>
    BY KeysAre
  <2> QED
    BY <2>1, <2>2, <2>3, <2>4, <2>5, <2>6, <2>7
<1>4. out' \in KeyTable /\ Complete(out)'
  <2>1. out' \in KeyTable
    BY <1>1, <1>3 DEF KeyTable
  <2> QED
    BY <1>3, <2>1 DEF Complete
<1>5. ~Complete(out)
  BY <1>1, CompleteIsThere
<1>6. KeysTyped'
  <2>1. /\ job' = job /\ disk' = disk /\ rounds' = rounds /\ kitReady' = kitReady
        /\ manifest' = manifest /\ kit' = kit /\ turn' = turn
    BY <1>1
  <2> QED
    BY <1>4, <2>1 DEF KeysInv, KeysTyped, KeyTable, ZKeys, AnyWrite
<1>7. JobOK'
  <2>1. \A k \in 1 .. Len(job.todo) : \A f \in DOMAIN job.todo[k] : f[1] \notin {"round", "kit"}
    BY <1>1, <1>5 DEF KeysInv, JobOK, WriteOK
  <2> QED
    BY <1>1, <2>1 DEF JobOK, WriteOK
<1>8. KitInTheMaking'
  <2>1. ~(job.readies /\ job.todo # <<>>)
    BY <1>1, <1>5 DEF KeysInv, KitInTheMaking
  <2> QED
    BY <1>1, <2>1 DEF KitInTheMaking
<1>9. Archive'
  <2>1. /\ disk' = disk /\ rounds' = rounds /\ turn' # "nobody" /\ kitReady' = kitReady
    BY <1>1
  <2>2. ASSUME NEW r \in 0 .. MaxRounds, NEW c \in Names
        PROVE  /\ IsPrefix(disk[Round(r, c)].by, out'[c].by)
               /\ Base(c)' = out'[c]
    <3>1. Base(c) = kit[c]
      BY <1>1 DEF Base, Missing
    <3>2. IsPrefix(disk[Round(r, c)].by, kit[c].by)
      BY <3>1 DEF KeysInv, Archive
    <3>3. disk[Round(r, c)].by \in Seq(People)
      BY PathsAre, KeysAre DEF KeysInv, KeysTyped
    <3>4. Base(c)' = out'[c]
      BY <1>3 DEF Base
    <3> QED
      BY <1>2, <1>3, <3>2, <3>3, <3>4, PrefixAppend
  <2>3. \A r \in 0 .. MaxRounds, c \in Names :
          /\ r >= rounds => disk[Round(r, c)] = Absent
          /\ kitReady => IsPrefix(disk[Round(r, c)].by, disk[File("kit", c)].by)
    BY DEF KeysInv, Archive
  <2>4. \A r \in 0 .. MaxRounds, c \in Names :
          /\ r >= rounds' => disk'[Round(r, c)] = Absent
          /\ IsPrefix(disk'[Round(r, c)].by, Base(c)'.by)
          /\ kitReady' => IsPrefix(disk'[Round(r, c)].by, disk'[File("kit", c)].by)
    BY <2>1, <2>2, <2>3
  <2> QED
    BY <1>4, <2>1, <2>4 DEF Archive
<1>10. RoundsBuildOn'
  BY <1>1 DEF KeysInv, RoundsBuildOn
<1>11. PinsAgree(printed)' /\ PinsAgree(manifest.pins)'
  BY <1>1 DEF KeysInv, PinsAgree
<1> QED
  BY <1>6, <1>7, <1>8, <1>9, <1>10, <1>11 DEF KeysInv

(* A contribution is archived in a new round and becomes the kit.          *)
LEMMA AcceptStep ==
  ASSUME CircuitsNamed, KeysInv, Accept
  PROVE  KeysInv'
<1> DEFINE w == [c \in Names |-> <<Put(Round(rounds, c), out[c]), Put(File("kit", c), out[c])>>]
<1>1. /\ Complete(out) /\ rounds < MaxRounds
      /\ Command(Loop(CircuitNames, 2, w), TRUE)
      /\ rounds' = rounds + 1 /\ kitReady' = FALSE
      /\ UNCHANGED <<disk, turn, kit, out, printed, manifest>>
  BY DEF Accept, NextRound
<1>2. rounds \in 0 .. MaxRounds /\ rounds' \in 0 .. MaxRounds
  BY <1>1 DEF KeysInv, KeysTyped, CircuitsNamed
<1>3. turn # "nobody"
  BY <1>1, CompleteIsThere DEF KeysInv, Archive
<1>4. \A c \in Names : /\ out[c] \in ZKeys /\ out[c] # Absent
                       /\ disk[Round(rounds, c)] = Absent
  BY <1>1, <1>2 DEF KeysInv, KeysTyped, KeyTable, Complete, Archive
<1>5. \A c \in Names :
        /\ Round(rounds, c) \in Paths /\ Round(rounds, c)[1] = "round"
        /\ Round(rounds, c)[2] = rounds /\ Round(rounds, c)[3] = c
        /\ File("kit", c) \in Paths /\ File("kit", c)[1] = "kit" /\ File("kit", c)[3] = c
  BY <1>2, PathsAre DEF Folders
<1>6. ASSUME NEW c \in Names
      PROVE  /\ w[c] \in [1 .. 2 -> AnyWrite]
             /\ w[c][1] = Put(Round(rounds, c), out[c]) /\ w[c][2] = Put(File("kit", c), out[c])
             /\ DOMAIN w[c][1] = {Round(rounds, c)} /\ w[c][1][Round(rounds, c)] = out[c]
             /\ DOMAIN w[c][2] = {File("kit", c)} /\ w[c][2][File("kit", c)] = out[c]
  <2>1. w[c] = <<Put(Round(rounds, c), out[c]), Put(File("kit", c), out[c])>>
    OBVIOUS
  <2>2. /\ Put(Round(rounds, c), out[c]) \in AnyWrite
        /\ DOMAIN Put(Round(rounds, c), out[c]) = {Round(rounds, c)}
        /\ Put(Round(rounds, c), out[c])[Round(rounds, c)] = out[c]
    BY <1>4, <1>5, PutIs
  <2>3. /\ Put(File("kit", c), out[c]) \in AnyWrite
        /\ DOMAIN Put(File("kit", c), out[c]) = {File("kit", c)}
        /\ Put(File("kit", c), out[c])[File("kit", c)] = out[c]
    BY <1>4, <1>5, PutIs
  <2> HIDE DEF w
  <2> QED
    BY <2>1, <2>2, <2>3
<1>7. w \in [Names -> [1 .. 2 -> AnyWrite]]
  <2>1. w = [c \in Names |-> w[c]]
    OBVIOUS
  <2> HIDE DEF w
  <2> QED
    BY <1>6, <2>1
<1> HIDE DEF w
<1> DEFINE s == Loop(CircuitNames, 2, w)
<1>8. /\ s \in Seq(AnyWrite) /\ Len(s) = 2 * Len(CircuitNames)
      /\ \A k \in 1 .. 2 * Len(CircuitNames) : \E c \in Names, j \in 1 .. 2 : s[k] = w[c][j]
  BY <1>7, NamesAre, LoopIs
<1>9. \A c \in Names : \E k \in 1 .. 2 * Len(CircuitNames) : s[k] = w[c][2]
  BY <1>7, SecondWrites
<1>10. job' = [todo |-> s, readies |-> TRUE]
  BY <1>1, CommandIs
<1> HIDE DEF s
<1>11. /\ job'.todo = s /\ job'.readies
       /\ disk' = disk /\ turn' = turn /\ kit' = kit /\ out' = out
       /\ printed' = printed /\ manifest' = manifest /\ rounds' - 1 = rounds
  BY <1>1, <1>2, <1>10
<1>12. KeysTyped'
  <2>1. job' \in [todo : Seq(AnyWrite), readies : BOOLEAN]
    BY <1>8, <1>10
  <2> QED
    BY <1>1, <1>2, <1>11, <2>1 DEF KeysInv, KeysTyped
<1>13. Complete(out)'
  BY <1>1, <1>11 DEF Complete
<1>14. JobOK'
  <2>1. ASSUME NEW k \in 1 .. Len(s), NEW f \in DOMAIN s[k]
        PROVE  /\ s[k][f] = out[f[3]]
               /\ f[1] = "round" => f[2] = rounds /\ disk[f] = Absent
    <3>1. PICK c \in Names, j \in 1 .. 2 : s[k] = w[c][j]
      BY <1>8
    <3>2. \/ f = Round(rounds, c) /\ s[k][f] = out[c]
          \/ f = File("kit", c) /\ s[k][f] = out[c]
      BY <1>6, <3>1
    <3> QED
      BY <1>4, <1>5, <3>2
  <2>2. PICK todo : todo = s
    OBVIOUS
  <2> SUFFICES ASSUME NEW k \in 1 .. Len(todo) PROVE WriteOK(todo[k])'
    BY <1>11, <2>2 DEF JobOK, WriteOK
  <2>3. PICK v : v = todo[k]
    OBVIOUS
  <2>4. \A f \in DOMAIN v :
          /\ v[f] = out'[f[3]]
          /\ f[1] = "round" => f[2] = rounds' - 1 /\ disk'[f] = Absent
    BY <1>11, <2>1, <2>2, <2>3
  <2>5. turn' # "nobody" /\ job'.readies
    BY <1>3, <1>11
  <2>6. WriteOK(v)'
    BY <1>13, <2>4, <2>5 DEF WriteOK
  <2> QED
    BY <2>3, <2>6
<1>15. KitInTheMaking'
  <2>1. \A c \in Names : \E k \in 1 .. Len(job'.todo) : File("kit", c) \in DOMAIN job'.todo[k]
    BY <1>6, <1>8, <1>9, <1>11
  <2> QED
    BY <1>1, <1>13, <2>1 DEF KitInTheMaking
<1>16. Archive'
  <2>1. \A c \in Names : Base(c)' = Base(c)
    BY <1>11 DEF Base
  <2>2. /\ \A r \in 0 .. MaxRounds, c \in Names : r >= rounds' => disk'[Round(r, c)] = Absent
        /\ \A r \in 0 .. MaxRounds, c \in Names : IsPrefix(disk'[Round(r, c)].by, Base(c)'.by)
    BY <1>2, <1>11, <2>1 DEF KeysInv, Archive
  <2>3. turn' # "nobody" /\ kitReady' = FALSE
    BY <1>1, <1>3
  <2> QED
    BY <1>13, <2>2, <2>3 DEF Archive
<1>17. RoundsBuildOn'
  BY <1>11 DEF KeysInv, RoundsBuildOn
<1>18. PinsAgree(printed)' /\ PinsAgree(manifest.pins)'
  BY <1>11 DEF KeysInv, PinsAgree
<1> QED
  BY <1>12, <1>14, <1>15, <1>16, <1>17, <1>18 DEF KeysInv

-----------------------------------------------------------------------------
(* The next write of the running command.                                  *)

(* What was written is there, and the rest of the files are as they were.  *)
LEMMA WriteIs ==
  ASSUME KeysInv, WriteNext
  PROVE  /\ job.todo[1] \in AnyWrite /\ WriteOK(job.todo[1]) /\ Len(job.todo) \in Nat \ {0}
         /\ disk' \in [Paths -> ZKeys]
         /\ \A f \in DOMAIN job.todo[1] : f \in Paths /\ disk'[f] = job.todo[1][f]
         /\ \A f \in Paths : f \notin DOMAIN job.todo[1] => disk'[f] = disk[f]
         /\ job'.todo \in Seq(AnyWrite) /\ Len(job'.todo) = Len(job.todo) - 1
         /\ \A k \in 1 .. Len(job'.todo) : job'.todo[k] = job.todo[k + 1]
         /\ job'.readies = job.readies /\ job' \in [todo : Seq(AnyWrite), readies : BOOLEAN]
<1> DEFINE w == Head(job.todo)
<1>1. /\ job.todo # <<>>
      /\ disk' = [f \in Paths |-> IF f \in DOMAIN w THEN w[f] ELSE disk[f]]
      /\ job' = [job EXCEPT !.todo = Tail(job.todo)]
  BY DEF WriteNext
<1>2. job \in [todo : Seq(AnyWrite), readies : BOOLEAN] /\ disk \in [Paths -> ZKeys]
  BY DEF KeysInv, KeysTyped
<1>3. PICK todo \in Seq(AnyWrite) : todo = job.todo
  BY <1>2
<1>4. /\ w = todo[1] /\ w \in AnyWrite /\ Len(todo) \in Nat \ {0}
      /\ Tail(todo) \in Seq(AnyWrite) /\ Len(Tail(todo)) = Len(todo) - 1
      /\ \A k \in 1 .. Len(Tail(todo)) : Tail(todo)[k] = todo[k + 1]
  BY <1>1, <1>3
<1>5. job'.todo = Tail(todo) /\ job'.readies = job.readies
      /\ job' \in [todo : Seq(AnyWrite), readies : BOOLEAN]
  BY <1>1, <1>2, <1>3, <1>4
<1>6. WriteOK(todo[1])
  BY <1>3, <1>4 DEF KeysInv, JobOK
<1>7. \A f \in DOMAIN w : f \in Paths /\ w[f] \in ZKeys
  BY <1>4 DEF AnyWrite
<1> HIDE DEF w
<1>8. /\ disk' \in [Paths -> ZKeys]
      /\ \A f \in DOMAIN w : f \in Paths /\ disk'[f] = w[f]
      /\ \A f \in Paths : f \notin DOMAIN w => disk'[f] = disk[f]
  BY <1>1, <1>2, <1>7
<1> QED
  BY <1>3, <1>4, <1>5, <1>6, <1>8

(* A round's key, once there, is written again only as it is.              *)
LEMMA RoundStays ==
  ASSUME CircuitsNamed, KeysInv, WriteNext, NEW r \in 0 .. MaxRounds, NEW c \in Names
  PROVE  \/ disk'[Round(r, c)] = disk[Round(r, c)]
         \/ /\ r = rounds - 1 /\ disk[Round(r, c)] = Absent /\ disk'[Round(r, c)] = out[c]
            /\ out[c] # Absent /\ turn # "nobody" /\ job.readies
<1> DEFINE f == Round(r, c)
<1>1. f \in Paths /\ f[1] = "round" /\ f[2] = r /\ f[3] = c
  BY PathsAre
<1> HIDE DEF f
<1>2. CASE f \notin DOMAIN job.todo[1]
  BY <1>1, <1>2, WriteIs DEF f
<1>3. CASE f \in DOMAIN job.todo[1]
  <2>1. /\ disk'[f] = job.todo[1][f] /\ WriteOK(job.todo[1])
    BY <1>3, WriteIs
  <2>2. /\ job.readies /\ r = rounds - 1 /\ job.todo[1][f] = out[c]
        /\ disk[f] \in {Absent, out[c]} /\ turn # "nobody" /\ Complete(out)
    BY <1>1, <1>3, <2>1 DEF WriteOK
  <2>3. out[c] # Absent
    BY <2>2 DEF Complete
  <2> QED
    BY <2>1, <2>2, <2>3 DEF f
<1> QED
  BY <1>2, <1>3

(* The kit is written by what will ready it.                               *)
LEMMA KitWrites ==
  ASSUME CircuitsNamed, KeysInv, WriteNext, NEW c \in Names
  PROVE  \/ disk'[File("kit", c)] = disk[File("kit", c)] /\ File("kit", c) \notin DOMAIN job.todo[1]
         \/ job.readies /\ (turn # "nobody" => disk'[File("kit", c)] = out[c])
<1> DEFINE f == File("kit", c)
<1>1. f \in Paths /\ f[1] = "kit" /\ f[3] = c
  BY PathsAre DEF Folders
<1> HIDE DEF f
<1>2. CASE f \notin DOMAIN job.todo[1]
  BY <1>1, <1>2, WriteIs DEF f
<1>3. CASE f \in DOMAIN job.todo[1]
  <2>1. /\ disk'[f] = job.todo[1][f] /\ WriteOK(job.todo[1])
    BY <1>3, WriteIs
  <2> QED
    BY <1>1, <1>3, <2>1 DEF WriteOK, f
<1> QED
  BY <1>2, <1>3

(* When the last write of an acceptance is done, the kit is the            *)
(* contributor's.                                                          *)
LEMMA KitMade ==
  ASSUME CircuitsNamed, KeysInv, WriteNext, job.readies, turn # "nobody", NEW c \in Names
  PROVE  \/ disk'[File("kit", c)] = out[c]
         \/ \E k \in 1 .. Len(job'.todo) : File("kit", c) \in DOMAIN job'.todo[k]
<1>1. job.todo # <<>>
  BY DEF WriteNext
<1>2. CASE disk[File("kit", c)] = out[c]
  BY <1>2, KitWrites
<1>3. ASSUME NEW k \in 1 .. Len(job.todo), File("kit", c) \in DOMAIN job.todo[k]
      PROVE  \/ disk'[File("kit", c)] = out[c]
             \/ \E j \in 1 .. Len(job'.todo) : File("kit", c) \in DOMAIN job'.todo[j]
  <2>1. CASE k = 1
    BY <1>3, <2>1, KitWrites
  <2>2. CASE k # 1
    <3>1. k - 1 \in 1 .. Len(job'.todo) /\ job'.todo[k - 1] = job.todo[(k - 1) + 1]
      BY <2>2, WriteIs
    <3>2. (k - 1) + 1 = k
      OBVIOUS
    <3> QED
      BY <1>3, <3>1, <3>2
  <2> QED
    BY <2>1, <2>2
<1> QED
  BY <1>1, <1>2, <1>3 DEF KeysInv, KitInTheMaking

(* One write keeps archive, kit and the rest of the job in order.          *)
LEMMA WriteStep ==
  ASSUME CircuitsNamed, KeysInv, WriteNext
  PROVE  KeysInv'
<1>1. /\ kitReady' = ((job.readies /\ Len(job.todo) = 1) \/ kitReady)
      /\ rounds' = rounds /\ turn' = turn /\ kit' = kit /\ out' = out
      /\ printed' = printed /\ manifest' = manifest /\ job.todo # <<>>
  BY DEF WriteNext
<1>2. /\ disk' \in [Paths -> ZKeys]
      /\ Len(job'.todo) = Len(job.todo) - 1 /\ Len(job.todo) \in Nat \ {0}
      /\ \A k \in 1 .. Len(job'.todo) : job'.todo[k] = job.todo[k + 1]
      /\ job'.readies = job.readies
      /\ job' \in [todo : Seq(AnyWrite), readies : BOOLEAN]
      /\ job'.todo \in Seq(AnyWrite)
  BY WriteIs
<1>3. KeysTyped'
  <2>1. kitReady' \in BOOLEAN
    BY <1>1 DEF KeysInv, KeysTyped
  <2> QED
    BY <1>1, <1>2, <2>1 DEF KeysInv, KeysTyped
<1>4. \A f \in Paths : f[1] = "round" => disk'[f] \in {disk[f], out[f[3]]}
  <2> SUFFICES ASSUME NEW f \in Paths, f[1] = "round" PROVE disk'[f] \in {disk[f], out[f[3]]}
    OBVIOUS
  <2>1. f[2] \in 0 .. MaxRounds /\ f = Round(f[2], f[3]) /\ f[3] \in Names
    BY PathsAre
  <2> QED
    BY <2>1, RoundStays
<1>5. JobOK'
  <2>0. PICK todo : todo = job'.todo
    OBVIOUS
  <2> SUFFICES ASSUME NEW k \in 1 .. Len(todo) PROVE WriteOK(todo[k])'
    BY <2>0 DEF JobOK, WriteOK
  <2>1. k + 1 \in 1 .. Len(job.todo) /\ todo[k] = job.todo[k + 1]
    BY <1>2, <2>0
  <2>2. PICK w : w = todo[k]
    OBVIOUS
  <2>3. WriteOK(w)
    <3>1. WriteOK(job.todo[k + 1])
      BY <2>1 DEF KeysInv, JobOK
    <3>2. job.todo[k + 1] = w
      BY <2>1, <2>2
    <3> QED
      BY <3>1, <3>2
  <2>4. w \in AnyWrite
    <3>1. job.todo \in Seq(AnyWrite)
      BY DEF KeysInv, KeysTyped
    <3> QED
      BY <2>1, <2>2, <3>1
  <2>5. \A f \in DOMAIN w : f \in Paths
    BY <2>4 DEF AnyWrite
  <2>6. WriteOK(w)'
    BY <1>1, <1>2, <1>4, <2>3, <2>5 DEF WriteOK, Complete
  <2> QED
    BY <2>2, <2>6
<1>6. KitInTheMaking'
  <2> SUFFICES ASSUME job'.readies, job'.todo # <<>>
               PROVE  /\ ~kitReady'
                      /\ turn' # "nobody" =>
                           /\ Complete(out)'
                           /\ \A c \in Names :
                                \/ disk'[File("kit", c)] = out'[c]
                                \/ \E k \in 1 .. Len(job'.todo) : File("kit", c) \in DOMAIN job'.todo[k]
    BY DEF KitInTheMaking
  <2>1. Len(job.todo) # 1
    BY <1>2
  <2>2. job.readies /\ ~kitReady
    BY <1>1, <1>2 DEF KeysInv, KitInTheMaking
  <2>3. turn # "nobody" => Complete(out)
    BY <1>1, <2>2 DEF KeysInv, KitInTheMaking
  <2>4. turn # "nobody" => Complete(out)'
    BY <1>1, <2>3 DEF Complete
  <2> QED
    BY <1>1, <2>1, <2>2, <2>4, KitMade
<1>7. Archive'
  <2>1. \A c \in Names : Base(c)' = Base(c)
    BY <1>1 DEF Base
  <2>2. \A r \in 0 .. MaxRounds, c \in Names : turn = "nobody" => disk'[Round(r, c)] = Absent
    BY RoundStays DEF KeysInv, Archive
  <2>3. \A r \in 0 .. MaxRounds, c \in Names : r >= rounds => disk'[Round(r, c)] = Absent
    BY RoundStays DEF KeysInv, Archive, KeysTyped
  <2>4. ASSUME NEW r \in 0 .. MaxRounds, NEW c \in Names
        PROVE  IsPrefix(disk'[Round(r, c)].by, Base(c).by)
    <3>1. CASE disk'[Round(r, c)] = disk[Round(r, c)]
      BY <3>1 DEF KeysInv, Archive
    <3>2. CASE disk'[Round(r, c)] = out[c] /\ out[c] # Absent
      <4>1. out[c] \in ZKeys /\ Base(c) = out[c]
        BY <3>2 DEF Base, KeysInv, KeysTyped, KeyTable
      <4> QED
        BY <3>2, <4>1, KeysAre
    <3> QED
      BY <3>1, <3>2, RoundStays
  <2>5. ASSUME NEW r \in 0 .. MaxRounds, NEW c \in Names, kitReady'
        PROVE  IsPrefix(disk'[Round(r, c)].by, disk'[File("kit", c)].by)
    <3>1. CASE ~job.readies
      <4>1. kitReady
        BY <1>1, <2>5, <3>1
      <4>2. disk'[Round(r, c)] = disk[Round(r, c)]
        BY <3>1, RoundStays
      <4>3. disk'[File("kit", c)] = disk[File("kit", c)]
        BY <3>1, KitWrites
      <4>4. IsPrefix(disk[Round(r, c)].by, disk[File("kit", c)].by)
        BY <4>1 DEF KeysInv, Archive
      <4> QED
        BY <4>2, <4>3, <4>4
    <3>2. CASE job.readies
      <4>1. ~kitReady /\ Len(job.todo) = 1
        BY <1>1, <2>5, <3>2 DEF KeysInv, KitInTheMaking
      <4>2. CASE turn = "nobody"
        <5>1. disk'[Round(r, c)] = Absent
          BY <2>2, <4>2
        <5>2. disk'[File("kit", c)] \in ZKeys
          BY <1>2, PathsAre DEF Folders
        <5> QED
          BY <5>1, <5>2, KeysAre
      <4>3. CASE turn # "nobody"
        <5>1. \A k \in 1 .. Len(job'.todo) : FALSE
          BY <1>2, <4>1
        <5>2. disk'[File("kit", c)] = out[c]
          BY <3>2, <4>3, <5>1, KitMade
        <5>3. Complete(out)
          BY <1>1, <3>2, <4>3 DEF KeysInv, KitInTheMaking
        <5>4. Base(c) = out[c]
          BY <5>3 DEF Base, Complete
        <5> QED
          BY <2>4, <5>2, <5>4
      <4> QED
        BY <4>2, <4>3
    <3> QED
      BY <3>1, <3>2
  <2>6. /\ turn = "nobody" => out = Missing /\ kit = Missing
        /\ out = Missing \/ Complete(out)
    BY DEF KeysInv, Archive
  <2>7. /\ turn' = "nobody" => out' = Missing /\ kit' = Missing
        /\ out' = Missing \/ Complete(out)'
    BY <1>1, <2>6 DEF Complete, Missing
  <2>8. \A r \in 0 .. MaxRounds, c \in Names :
          /\ turn' = "nobody" => disk'[Round(r, c)] = Absent
          /\ r >= rounds' => disk'[Round(r, c)] = Absent
          /\ IsPrefix(disk'[Round(r, c)].by, Base(c)'.by)
          /\ kitReady' => IsPrefix(disk'[Round(r, c)].by, disk'[File("kit", c)].by)
    BY <1>1, <2>1, <2>2, <2>3, <2>4, <2>5
  <2> QED
    BY <2>7, <2>8 DEF Archive
<1>8. RoundsBuildOn'
  <2> SUFFICES ASSUME NEW r \in 0 .. MaxRounds, NEW s \in 0 .. MaxRounds, r < s,
                      NEW c \in Names, disk'[Round(s, c)] # Absent
               PROVE  IsPrefix(disk'[Round(r, c)].by, disk'[Round(s, c)].by)
    BY DEF RoundsBuildOn
  <2>1. rounds \in Nat
    BY DEF KeysInv, KeysTyped
  <2>2. CASE disk'[Round(s, c)] = disk[Round(s, c)]
    <3>1. s < rounds
      BY <2>1, <2>2 DEF KeysInv, Archive
    <3>2. disk'[Round(r, c)] = disk[Round(r, c)]
      BY <2>1, <3>1, RoundStays
    <3> QED
      BY <2>2, <3>2 DEF KeysInv, RoundsBuildOn
  <2>3. CASE s = rounds - 1 /\ disk'[Round(s, c)] = out[c] /\ out[c] # Absent
    <3>1. disk'[Round(r, c)] = disk[Round(r, c)]
      BY <2>1, <2>3, RoundStays
    <3>2. IsPrefix(disk[Round(r, c)].by, Base(c).by)
      BY DEF KeysInv, Archive
    <3> QED
      BY <2>3, <3>1, <3>2 DEF Base
  <2> QED
    BY <2>2, <2>3, RoundStays
<1>9. PinsAgree(printed)' /\ PinsAgree(manifest.pins)'
  BY <1>1 DEF KeysInv, PinsAgree
<1> QED
  BY <1>3, <1>5, <1>6, <1>7, <1>8, <1>9 DEF KeysInv

-----------------------------------------------------------------------------

(* An empty ceremony folder.                                               *)
LEMMA InitKeys == CircuitsNamed /\ KeysInit => KeysInv
<1> SUFFICES ASSUME CircuitsNamed, KeysInit PROVE KeysInv
  OBVIOUS
<1>1. /\ disk = [f \in Paths |-> Absent] /\ rounds = 0
      /\ turn = "nobody" /\ kit = Missing /\ out = Missing /\ kitReady = FALSE
      /\ job = [todo |-> <<>>, readies |-> FALSE]
      /\ printed = NoPins /\ manifest = [pins |-> NoPins, hashes |-> Missing]
  BY DEF KeysInit
<1>2. /\ Absent \in ZKeys /\ Missing \in KeyTable /\ Absent.by = <<>>
      /\ IsPrefix(Absent.by, Absent.by)
  BY KeysAre
<1>3. <<>> \in Seq(AnyWrite) /\ Len(<<>>) = 0
  OBVIOUS
<1>4. KeysTyped
  <2>1. rounds \in 0 .. MaxRounds
    BY <1>1 DEF CircuitsNamed
  <2>2. job \in [todo : Seq(AnyWrite), readies : BOOLEAN]
    BY <1>1, <1>3
  <2>3. disk \in [Paths -> ZKeys] /\ DOMAIN manifest = {"pins", "hashes"}
    BY <1>1, <1>2
  <2> QED
    BY <1>1, <1>2, <2>1, <2>2, <2>3 DEF KeysTyped
<1>5. JobOK /\ KitInTheMaking
  BY <1>1, <1>3 DEF JobOK, KitInTheMaking
<1>6. \A r \in 0 .. MaxRounds, c \in Names : disk[Round(r, c)] = Absent
  BY <1>1, PathsAre
<1>7. \A c \in Names : Base(c) = Absent
  BY <1>1 DEF Base, Missing
<1>8. Archive /\ RoundsBuildOn
  BY <1>1, <1>2, <1>6, <1>7 DEF Archive, RoundsBuildOn
<1>9. PinsAgree(printed) /\ PinsAgree(manifest.pins)
  BY <1>1 DEF PinsAgree
<1> QED
  BY <1>4, <1>5, <1>8, <1>9 DEF KeysInv

(* Every command, write and hand-over keeps the ceremony in order.         *)
LEMMA NextKeys == CircuitsNamed /\ KeysInv /\ [KeysNext]_keysVars => KeysInv'
<1> SUFFICES ASSUME CircuitsNamed, KeysInv, [KeysNext]_keysVars PROVE KeysInv'
  OBVIOUS
<1>1. CASE UNCHANGED keysVars
  <2>1. /\ disk' = disk /\ rounds' = rounds /\ turn' = turn /\ kit' = kit /\ out' = out
        /\ kitReady' = kitReady /\ job' = job /\ printed' = printed /\ manifest' = manifest
    BY <1>1 DEF keysVars
  <2>2. KeysTyped' /\ JobOK' /\ KitInTheMaking'
    BY <2>1 DEF KeysInv, KeysTyped, JobOK, WriteOK, KitInTheMaking, Complete
  <2>3. Archive' /\ RoundsBuildOn'
    BY <2>1, ArchiveKept DEF KeysInv
  <2>4. PinsAgree(printed)' /\ PinsAgree(manifest.pins)'
    BY <2>1 DEF KeysInv, PinsAgree
  <2> QED
    BY <2>2, <2>3, <2>4 DEF KeysInv
<1> QED
  BY <1>1, StartStep, HandOutStep, ContributeStep, AcceptStep, FinalizeStep, PrintPinsStep,
     FillManifestStep, VerifiersStep, DeployKeysStep, PinHashesStep, WriteStep, StopStep
  DEF KeysNext

(* The ceremony is in order throughout.                                    *)
THEOREM CeremonyInOrder == CircuitsNamed => (KeysSpec => []KeysInv)
<1> SUFFICES ASSUME CircuitsNamed PROVE KeysSpec => []KeysInv
  OBVIOUS
<1>1. KeysInit => KeysInv
  BY InitKeys
<1>2. KeysInv /\ [KeysNext]_keysVars => KeysInv'
  BY NextKeys
<1> QED
  BY <1>1, <1>2, PTL DEF KeysSpec

(***************************************************************************)
(* Every archived key contains the contributions archived before, however  *)
(* often an acceptance stops between archive and kit and is run again      *)
(* (ceremony_accept_contribution).                                         *)
(***************************************************************************)
THEOREM RoundsDoBuildOn == CircuitsNamed => (KeysSpec => []RoundsBuildOn)
<1> SUFFICES ASSUME CircuitsNamed PROVE KeysSpec => []RoundsBuildOn
  OBVIOUS
<1>1. KeysInv => RoundsBuildOn
  BY DEF KeysInv
<1> QED
  BY <1>1, CeremonyInOrder, PTL

(***************************************************************************)
(* Files that match a manifest are of one key for each circuit: the one    *)
(* clients prove with, the one they check with and the verifier source     *)
(* (ceremony_export_final_verifiers, resolve_proving_keys).                *)
(***************************************************************************)
THEOREM MatchedKeysAgree == CircuitsNamed => (KeysSpec => []VerifiedKeysAgree)
<1> SUFFICES ASSUME CircuitsNamed PROVE KeysSpec => []VerifiedKeysAgree
  OBVIOUS
<1>1. KeysInv => VerifiedKeysAgree
  <2> SUFFICES ASSUME KeysInv, ArtifactsMatch, NEW c \in Names
               PROVE  Resolved(c) = Vkeys[c] /\ Resolved(c) = Sols[c]
    BY DEF VerifiedKeysAgree
  <2>1. /\ manifest.pins # NoPins
        /\ manifest.pins[c].zkey = Finals[c] /\ manifest.pins[c].vkey = Vkeys[c]
        /\ manifest.pins[c].sol = Sols[c]
    BY DEF ArtifactsMatch, Valid, Pinned
  <2>2. /\ manifest.pins[c].zkey = manifest.pins[c].vkey
        /\ manifest.pins[c].zkey = manifest.pins[c].sol
        /\ manifest.pins[c].zkey # Absent
    BY <2>1 DEF KeysInv, PinsAgree
  <2> QED
    BY <2>1, <2>2 DEF Resolved
<1> QED
  BY <1>1, CeremonyInOrder, PTL

(* No command rewrites the archive.                                        *)
LEMMA ArchiveStep ==
  ASSUME CircuitsNamed, KeysInv, KeysNext, NEW r \in 0 .. MaxRounds, NEW c \in Names,
         disk[Round(r, c)] # Absent
  PROVE  disk'[Round(r, c)] = disk[Round(r, c)]
<1>1. CASE WriteNext
  BY <1>1, RoundStays
<1>2. CASE Deploy
  <2>1. Round(r, c) \in Paths /\ Round(r, c)[1] = "round"
    BY PathsAre
  <2> QED
    BY <1>2, <2>1 DEF Deploy
<1>3. CASE ~WriteNext /\ ~Deploy
  BY <1>3 DEF KeysNext, StartPhase2, HandOut, Contribute, Accept, Finalize, PrintPins,
              FillManifest, ExportVerifiers, PinHashes, Stop
<1> QED
  BY <1>1, <1>2, <1>3

(***************************************************************************)
(* What is archived in a round stays there (ceremony_accept_contribution   *)
(* takes the next free round).                                             *)
(***************************************************************************)
THEOREM ArchiveDoesStay == CircuitsNamed => (KeysSpec => ArchiveStays)
<1> SUFFICES ASSUME CircuitsNamed PROVE KeysSpec => ArchiveStays
  OBVIOUS
<1>1. KeysInv /\ [KeysNext]_keysVars =>
        [\A r \in 0 .. MaxRounds, c \in Names :
            disk[Round(r, c)] # Absent => disk'[Round(r, c)] = disk[Round(r, c)]]_keysVars
  BY ArchiveStep
<1> QED
  BY <1>1, CeremonyInOrder, PTL DEF KeysSpec, ArchiveStays

-----------------------------------------------------------------------------
(* The files that disclose notes. *)

(* What a file says of a note, by kind of file.                            *)
FileClaims == [c : Notes, worth : Nat, leaf : Int]
Seals == {Plain, Passphrase} \union Others
Tags == {ViewTag(DeriveViewKey(n), claim) : n \in Notes, claim \in FileClaims}
        \union {ReceiptTag(DeriveViewKey(n), claim) : n \in Notes, claim \in FileClaims}
NoteFiles == [kind : {"stub", "reveal", "incoming"}, claim : FileClaims,
              of : {"nobody"} \union Notes, seal : Seals]
TaggedFiles == [kind : {"view", "receipt"}, claim : FileClaims, of : {"nobody"},
                seal : {Plain}, tag : Tags]
ViewKeyFiles == [kind : {"viewkey"}, key : {DeriveViewKey(n) : n \in Notes},
                 of : {"nobody"}, seal : {Plain}]
AddressFiles == [kind : {"address"}, of : {"nobody"}, public : Others, seal : {Plain}]
KeypairFiles == [kind : {"keypair"}, of : Others, seal : {Plain}]
Signals == [c : Notes, worth : Nat] \union [c : Notes, threshold : Nat]
OwnershipProofs == {Proof("ownership", [c |-> n, worth |-> Worth[n]]) : n \in Notes}
BoundProofs == {Proof("bound", s) :
                  s \in {x \in [c : Notes, threshold : Nat] : Worth[x.c] >= x.threshold}}
ProofFiles == [kind : {"ownership", "bound"}, of : {"nobody"}, seal : {Plain},
               printed : Signals, signals : Signals, proof : OwnershipProofs \union BoundProofs]
AnyFile == NoteFiles \union TaggedFiles \union ViewKeyFiles \union AddressFiles
        \union KeypairFiles \union ProofFiles

FilesTyped ==
  /\ topic \in Topics
  /\ leafOf \in [Notes -> Int]
  /\ told \subseteq Others
  /\ packed \subseteq Others \X Notes
  /\ files \in [Parties -> SUBSET AnyFile]

(* A tag the holder computed with the note's own key, over the claim that   *)
(* is in the file and holds.                                               *)
Honest(f) ==
  /\ Holds(f.claim)
  /\ \/ f.kind = "view" /\ f.tag = ViewTag(DeriveViewKey(f.claim.c), f.claim)
     \/ f.kind = "receipt" /\ f.tag = ReceiptTag(DeriveViewKey(f.claim.c), f.claim)

(* A tag of one of the parties that make packages with a key they have.     *)
OfPacker(tag) ==
  \E by \in packed : \E claim \in FileClaims :
    \/ tag = ViewTag(DeriveViewKey(by[2]), claim)
    \/ tag = ReceiptTag(DeriveViewKey(by[2]), claim)

(* A private key stays with its party; a sealed secret was sealed by the   *)
(* holder; one in the clear was meant for the party that has it; a tag was *)
(* computed by the holder, or by a party that has the key.                 *)
KeyAtHome(p, f) == f.of \in Others => f.of = p
SealedByHolder(p, f) ==
  f.of \in Notes /\ f.seal # Plain =>
    \E g \in files[Holder] : g.of = f.of /\ g.seal = f.seal
PlainWasMeant(p, f) ==
  p \in Others /\ f.of \in Notes /\ f.seal = Plain =>
    \E g \in files[Holder] : g.of = f.of /\ MeantFor(g, p)
TagIsHolders(f) ==
  f \in TaggedFiles =>
    \/ \E g \in files[Holder] : g \in TaggedFiles /\ Honest(g) /\ g.tag = f.tag
    \/ OfPacker(f.tag)

Accounted(p, f) ==
  KeyAtHome(p, f) /\ SealedByHolder(p, f) /\ PlainWasMeant(p, f) /\ TagIsHolders(f)

(* Who makes packages has the key, and keeps it.                            *)
PackersHaveKeys == \A by \in packed : ViewKeyFile(by[2]) \in files[by[1]]

DisclosureInv ==
  FilesTyped /\ PackersHaveKeys /\ \A p \in Parties : \A f \in files[p] : Accounted(p, f)

-----------------------------------------------------------------------------
(* What a party has is typed, and the holder is a party.                    *)
LEMMA PartiesHave ==
  ASSUME FilesTyped
  PROVE  /\ Holder \in Parties /\ Others \subseteq Parties
         /\ \A p \in Parties : files[p] \subseteq AnyFile
BY DEF FilesTyped, Parties

(* Every file has a kind, an owner of its secret and a seal.                *)
LEMMA FileHas ==
  ASSUME NEW f \in AnyFile
  PROVE  f.of \in {"nobody"} \union Notes \union Others /\ f.seal \in Seals
BY DEF AnyFile, NoteFiles, TaggedFiles, ViewKeyFiles, AddressFiles, KeypairFiles,
       ProofFiles, Seals

(* What the store learnt of a leaf stays true.                              *)
LeavesStay ==
  leafOf' \in [Notes -> Int] /\ \A n \in Notes : leafOf[n] # NoLeaf => leafOf'[n] = leafOf[n]

(* What is accounted for stays so while the holder's files, the leaves, the *)
(* circle that knows the passphrase and that of the packers grow.           *)
LEMMA AccountedStays ==
  ASSUME FilesTyped, NEW p, NEW f, Accounted(p, f), LeavesStay,
         files[Holder] \subseteq files'[Holder], told \subseteq told', packed \subseteq packed'
  PROVE  Accounted(p, f)'
<1>1. KeyAtHome(p, f)'
  BY DEF Accounted, KeyAtHome
<1>2. SealedByHolder(p, f)'
  BY DEF Accounted, SealedByHolder
<1>3. PlainWasMeant(p, f)'
  BY DEF Accounted, PlainWasMeant, MeantFor
<1>4. ASSUME NEW g \in TaggedFiles, Honest(g)
      PROVE  Honest(g)'
  <2>1. g.claim.c \in Notes
    BY DEF TaggedFiles, FileClaims
  <2>2. Holds(g.claim)'
    BY <1>4, <2>1 DEF Honest, Holds, LeavesStay, FilesTyped
  <2> QED
    BY <1>4, <2>2 DEF Honest
<1>5. TaggedFiles' = TaggedFiles
  BY DEF TaggedFiles, FileClaims, Tags, ViewTag, ReceiptTag, DeriveViewKey
<1>6. OfPacker(f.tag) => OfPacker(f.tag)'
  BY DEF OfPacker, FileClaims
<1>7. TagIsHolders(f)'
  BY <1>4, <1>5, <1>6 DEF Accounted, TagIsHolders
<1> QED
  BY <1>1, <1>2, <1>3, <1>7 DEF Accounted

(* A step that only adds accounted files keeps the invariant.               *)
LEMMA FilesMove ==
  ASSUME DisclosureInv, topic' = topic, LeavesStay,
         told \subseteq told', told' \subseteq Others,
         packed \subseteq packed', packed' \subseteq Others \X Notes, PackersHaveKeys',
         files' \in [Parties -> SUBSET AnyFile], files[Holder] \subseteq files'[Holder],
         \A q \in Parties : \A f \in files'[q] : f \in files[q] \/ Accounted(q, f)'
  PROVE  DisclosureInv'
<1>1. FilesTyped'
  BY DEF DisclosureInv, FilesTyped, LeavesStay, AnyFile, NoteFiles, TaggedFiles, ViewKeyFiles,
         AddressFiles, KeypairFiles, ProofFiles, FileClaims, Seals, Tags, Parties, Signals,
         OwnershipProofs, BoundProofs, Proof, ViewTag, ReceiptTag, DeriveViewKey
<1>2. ASSUME NEW q \in Parties, NEW f \in files'[q]
      PROVE  Accounted(q, f)'
  <2>1. CASE f \in files[q]
    <3>1. Accounted(q, f) /\ FilesTyped
      BY <2>1 DEF DisclosureInv
    <3> QED
      BY <3>1, AccountedStays
  <2> QED
    BY <1>2, <2>1
<1>3. \A q \in Parties' : \A f \in files'[q] : Accounted(q, f)'
  BY <1>2 DEF Parties
<1> QED
  BY <1>1, <1>3 DEF DisclosureInv

(* What Save writes.                                                        *)
LEMMA Saved ==
  ASSUME FilesTyped, NEW p \in Parties, NEW new \in SUBSET AnyFile, Save(p, new)
  PROVE  /\ files' \in [Parties -> SUBSET AnyFile]
         /\ files'[p] = files[p] \union new
         /\ \A q \in Parties : q # p => files'[q] = files[q]
<1>1. files' = [files EXCEPT ![p] = files[p] \union new]
  BY DEF Save
<1>2. files \in [Parties -> SUBSET AnyFile]
  BY DEF FilesTyped
<1> QED
  BY <1>1, <1>2

(* The party that saves files it can account for.                           *)
LEMMA SaveStep ==
  ASSUME DisclosureInv, NEW p \in Parties, NEW new \in SUBSET AnyFile, Save(p, new),
         UNCHANGED <<topic, leafOf, told, packed>>,
         \A f \in new : Accounted(p, f)'
  PROVE  DisclosureInv'
<1>1. FilesTyped
  BY DEF DisclosureInv
<1>2. /\ files' \in [Parties -> SUBSET AnyFile]
      /\ files'[p] = files[p] \union new
      /\ \A q \in Parties : q # p => files'[q] = files[q]
  BY <1>1, Saved
<1>3. files[Holder] \subseteq files'[Holder]
  BY <1>1, <1>2, PartiesHave
<1>4. \A q \in Parties : \A f \in files'[q] : f \in files[q] \/ Accounted(q, f)'
  BY <1>2
<1>5. /\ topic' = topic /\ LeavesStay
      /\ told \subseteq told' /\ told' \subseteq Others
      /\ packed \subseteq packed' /\ packed' \subseteq Others \X Notes
  BY <1>1 DEF FilesTyped, LeavesStay
<1>6. PackersHaveKeys'
  BY <1>1, <1>2 DEF DisclosureInv, FilesTyped, PackersHaveKeys, Parties, ViewKeyFile, DeriveViewKey
<1> QED
  BY <1>2, <1>3, <1>4, <1>5, <1>6, FilesMove

-----------------------------------------------------------------------------
(* What the holder writes.                                                  *)

(* The holder's own file accounts for itself, if its tag is honest.         *)
LEMMA ExportStep ==
  ASSUME NamesApart, DisclosureInv, NEW f \in AnyFile, f.of \notin Others,
         f \in TaggedFiles => Honest(f), Export(f)
  PROVE  DisclosureInv'
<1>1. FilesTyped /\ Holder \in Parties /\ Holder \notin Others
  BY PartiesHave DEF DisclosureInv, NamesApart
<1>2. Save(Holder, {f}) /\ UNCHANGED <<topic, leafOf, told, packed>>
  BY DEF Export
<1>3. {f} \in SUBSET AnyFile
  OBVIOUS
<1>4. f \in files'[Holder]
  BY <1>1, <1>2, <1>3, Saved
<1>5. Accounted(Holder, f)'
  <2>1. KeyAtHome(Holder, f)'
    BY DEF KeyAtHome
  <2>2. SealedByHolder(Holder, f)'
    BY <1>4 DEF SealedByHolder
  <2>3. PlainWasMeant(Holder, f)'
    BY <1>1 DEF PlainWasMeant
  <2>4. TagIsHolders(f)'
    BY <1>2, <1>4 DEF TagIsHolders, Honest, Holds, TaggedFiles, FileClaims, Tags, ViewTag,
                      ReceiptTag, DeriveViewKey
  <2> QED
    BY <2>1, <2>2, <2>3, <2>4 DEF Accounted
<1> QED
  BY <1>1, <1>2, <1>3, <1>5, SaveStep

(* The claim a file makes has a note, its value and a leaf, and holds.      *)
LEMMA ClaimTyped ==
  ASSUME NamesApart, FilesTyped, NEW n \in Notes
  PROVE  Claim(n) \in FileClaims /\ Holds(Claim(n)) /\ Claim(n).c = n
<1>1. Worth[n] \in Nat /\ leafOf[n] \in Int
  BY DEF NamesApart, FilesTyped
<1> QED
  BY <1>1 DEF Claim, FileClaims, Holds

(* The files of the holder are typed, and the tags among them honest.       *)
LEMMA StubTyped ==
  ASSUME NamesApart, FilesTyped, NEW n \in Notes,
         NEW f \in {StubFile(n), Reveal(n), Incoming(n)}
  PROVE  /\ f \in NoteFiles /\ f.seal = Plain
         /\ [f EXCEPT !.seal = Passphrase] \in NoteFiles
         /\ \A p \in Others : [f EXCEPT !.seal = p] \in NoteFiles
<1>1. Claim(n) \in FileClaims
  BY ClaimTyped
<1>2. f \in NoteFiles /\ f.seal = Plain
  BY <1>1 DEF StubFile, Reveal, Incoming, NoteFiles, Seals
<1>3. ASSUME NEW s \in Seals PROVE [f EXCEPT !.seal = s] \in NoteFiles
  BY <1>2, <1>3 DEF NoteFiles
<1> QED
  BY <1>2, <1>3 DEF Seals

(* A note's file is none of the tagged ones, and hides no party's key.      *)
LEMMA NoteFileIs ==
  ASSUME NamesApart, NEW f \in NoteFiles
  PROVE  f \in AnyFile /\ f \notin TaggedFiles /\ f.of \notin Others
BY DEF NamesApart, NoteFiles, TaggedFiles, AnyFile

(* What the holder exports is typed and honest.                             *)
LEMMA TagsTyped ==
  ASSUME NamesApart, FilesTyped, NEW n \in Notes,
         NEW f \in {ViewFile(n), ReceiptFile(n)}
  PROVE  f \in TaggedFiles /\ f \in AnyFile /\ f.of \notin Others /\ Honest(f)
<1>1. Claim(n) \in FileClaims /\ Holds(Claim(n)) /\ Claim(n).c = n
  BY ClaimTyped
<1>2. /\ ViewTag(DeriveViewKey(n), Claim(n)) \in Tags
      /\ ReceiptTag(DeriveViewKey(n), Claim(n)) \in Tags
  BY <1>1 DEF Tags
<1> HIDE DEF Tags
<1>3. CASE f = ViewFile(n)
  <2>1. f = [kind |-> "view", claim |-> Claim(n), of |-> "nobody", seal |-> Plain,
             tag |-> ViewTag(DeriveViewKey(n), Claim(n))]
    BY <1>3 DEF ViewFile, ViewPackage
  <2>2. f \in TaggedFiles
    BY <1>1, <1>2, <2>1 DEF TaggedFiles
  <2>3. Honest(f)
    BY <1>1, <2>1 DEF Honest
  <2> QED
    BY <2>1, <2>2, <2>3 DEF AnyFile, NamesApart
<1>4. CASE f = ReceiptFile(n)
  <2>1. f = [kind |-> "receipt", claim |-> Claim(n), of |-> "nobody", seal |-> Plain,
             tag |-> ReceiptTag(DeriveViewKey(n), Claim(n))]
    BY <1>4 DEF ReceiptFile, ReceiptPackage
  <2>2. f \in TaggedFiles
    BY <1>1, <1>2, <2>1 DEF TaggedFiles
  <2>3. Honest(f)
    BY <1>1, <2>1 DEF Honest
  <2> QED
    BY <2>1, <2>2, <2>3 DEF AnyFile, NamesApart
<1> QED
  BY <1>3, <1>4

(* The other files say nothing that needs an account.                       *)
LEMMA OthersTyped ==
  ASSUME NamesApart, NEW n \in Notes, NEW threshold \in Nat,
         NEW f \in {ViewKeyFile(n), OwnershipProof(n)}
                   \union {BoundProof(n, t) : t \in {u \in {threshold} : Worth[n] >= u}}
  PROVE  f \in AnyFile /\ f \notin TaggedFiles /\ f.of \notin Others
<1>1. CASE f = ViewKeyFile(n)
  BY <1>1 DEF ViewKeyFile, ViewKeyFiles, AnyFile, TaggedFiles, NamesApart
<1>2. CASE f = OwnershipProof(n)
  <2>1. [c |-> n, worth |-> Worth[n]] \in Signals
    BY DEF Signals, NamesApart
  <2> QED
    BY <1>2, <2>1 DEF OwnershipProof, ProofFile, ProofFiles, OwnershipProofs, AnyFile,
                      TaggedFiles, NamesApart
<1>3. CASE f = BoundProof(n, threshold) /\ Worth[n] >= threshold
  <2>1. [c |-> n, threshold |-> threshold]
          \in {s \in [c : Notes, threshold : Nat] : Worth[s.c] >= s.threshold}
    BY <1>3
  <2>2. [c |-> n, threshold |-> threshold] \in Signals
    BY DEF Signals
  <2> QED
    BY <1>3, <2>1, <2>2 DEF BoundProof, ProofFile, ProofFiles, BoundProofs, AnyFile,
                            TaggedFiles, NamesApart
<1> QED
  BY <1>1, <1>2, <1>3

(* Where the holder may seal to: a party whose public key he has.           *)
LEMMA KeysAreParties ==
  ASSUME NamesApart, FilesTyped, NEW p \in Parties, NEW key \in RecipientKeys(p)
  PROVE  key \in Others
<1>1. PICK f \in files[p] : key \in PublicKeyIn(f)
  BY DEF RecipientKeys
<1>2. f \in AnyFile
  BY <1>1, PartiesHave
<1>3. CASE f.kind = "address"
  <2>1. f \in AddressFiles
    BY <1>2, <1>3 DEF AnyFile, NoteFiles, TaggedFiles, ViewKeyFiles, AddressFiles, KeypairFiles,
                      ProofFiles
  <2> QED
    BY <1>1, <1>3, <2>1 DEF PublicKeyIn, AddressFiles
<1>4. CASE f.kind = "keypair"
  <2>1. f \in KeypairFiles
    BY <1>2, <1>4 DEF AnyFile, NoteFiles, TaggedFiles, ViewKeyFiles, AddressFiles, KeypairFiles,
                      ProofFiles
  <2> QED
    BY <1>1, <1>4, <2>1 DEF PublicKeyIn, KeypairFiles
<1>5. CASE f.kind \notin {"address", "keypair"}
  BY <1>1, <1>5 DEF PublicKeyIn
<1> QED
  BY <1>3, <1>4, <1>5

(* A file of a note, in the clear or sealed, by either client.              *)
LEMMA NoteExport ==
  ASSUME NamesApart, DisclosureInv, NEW f \in NoteFiles, Export(f)
  PROVE  DisclosureInv'
BY NoteFileIs, ExportStep

(* A reveal or an incoming note.                                            *)
LEMMA SealedExport ==
  ASSUME NamesApart, DisclosureInv, NEW n \in Notes,
         NEW f \in {StubFile(n), Reveal(n), Incoming(n)},
         \/ Export(f)
         \/ Export(SealWithPassphrase(f))
         \/ \E p \in RecipientKeys(Holder) : Export(SealToRecipient(f, p))
  PROVE  DisclosureInv'
<1>1. FilesTyped /\ Holder \in Parties
  BY PartiesHave DEF DisclosureInv
<1>2. /\ f \in NoteFiles
      /\ SealWithPassphrase(f) \in NoteFiles
      /\ \A p \in Others : SealToRecipient(f, p) \in NoteFiles
  BY <1>1, StubTyped DEF SealWithPassphrase, SealToRecipient
<1>3. \A p \in RecipientKeys(Holder) : p \in Others
  BY <1>1, KeysAreParties
<1> QED
  BY <1>2, <1>3, NoteExport

(* A proof of a value bound is written only when the bound is true.         *)
LEMMA ProofExport ==
  ASSUME NamesApart, DisclosureInv, NEW n \in Notes,
         \/ NoteViewKey(n) \/ ProveOwnership(n)
         \/ \E threshold \in Thresholds : ProveValueBound(n, threshold)
  PROVE  DisclosureInv'
<1>1. CASE NoteViewKey(n)
  <2>1. ViewKeyFile(n) \in AnyFile /\ ViewKeyFile(n) \notin TaggedFiles
        /\ ViewKeyFile(n).of \notin Others
    BY OthersTyped
  <2> QED
    BY <1>1, <2>1, ExportStep DEF NoteViewKey
<1>2. CASE ProveOwnership(n)
  <2>1. OwnershipProof(n) \in AnyFile /\ OwnershipProof(n) \notin TaggedFiles
        /\ OwnershipProof(n).of \notin Others
    BY OthersTyped
  <2> QED
    BY <1>2, <2>1, ExportStep DEF ProveOwnership
<1>3. ASSUME NEW threshold \in Thresholds, ProveValueBound(n, threshold)
      PROVE  DisclosureInv'
  <2>1. threshold \in Nat /\ Worth[n] >= threshold /\ Export(BoundProof(n, threshold))
    BY <1>3 DEF NamesApart, ProveValueBound
  <2>2. BoundProof(n, threshold)
          \in {BoundProof(n, t) : t \in {u \in {threshold} : Worth[n] >= u}}
    BY <2>1
  <2>3. BoundProof(n, threshold) \in AnyFile /\ BoundProof(n, threshold) \notin TaggedFiles
        /\ BoundProof(n, threshold).of \notin Others
    BY <2>1, <2>2, OthersTyped
  <2> QED
    BY <2>1, <2>3, ExportStep
<1> QED
  BY <1>1, <1>2, <1>3

(* Every command of the holder, and of the Python client, keeps the account. *)
LEMMA HolderStepInv ==
  ASSUME NamesApart, DisclosureInv, HolderStep
  PROVE  DisclosureInv'
<1>1. FilesTyped /\ topic.notes \subseteq Notes
  BY DEF DisclosureInv, FilesTyped, NamesApart
<1>2. PICK n \in Notes :
        \/ BindNote(n)
        \/ NoteViewKey(n) \/ ExportStub(n) \/ ExportView(n) \/ ExportReceipt(n)
        \/ ExportReveal(n) \/ NoteDeliver(n)
        \/ PyDisclosureExport(n) \/ PyDisclosureProve(n)
        \/ ProveOwnership(n)
        \/ \E threshold \in Thresholds : ProveValueBound(n, threshold)
  BY <1>1 DEF HolderStep
<1>3. CASE BindNote(n)
  <2>1. /\ topic' = topic /\ files' = files /\ told' = told /\ packed' = packed
        /\ leafOf[n] = NoLeaf /\ leafOf' = [leafOf EXCEPT ![n] = Place[n]]
    BY <1>3 DEF BindNote
  <2>2. Place[n] \in Int
    BY DEF NamesApart
  <2>3. LeavesStay
    BY <1>1, <2>1, <2>2 DEF FilesTyped, LeavesStay
  <2>4. /\ files' \in [Parties -> SUBSET AnyFile] /\ files[Holder] \subseteq files'[Holder]
        /\ told \subseteq told' /\ told' \subseteq Others
        /\ packed \subseteq packed' /\ packed' \subseteq Others \X Notes
        /\ PackersHaveKeys'
        /\ \A q \in Parties : \A f \in files'[q] : f \in files[q]
    BY <1>1, <2>1 DEF DisclosureInv, FilesTyped, PackersHaveKeys, ViewKeyFile, DeriveViewKey
  <2> QED
    BY <2>1, <2>3, <2>4, FilesMove
<1>4. CASE ExportStub(n) \/ Export(PyStub(n))
  BY <1>4, SealedExport DEF ExportStub, PyStub, StubFile
<1>5. CASE ExportView(n) \/ ExportReceipt(n)
  BY <1>1, <1>5, TagsTyped, ExportStep DEF ExportView, ExportReceipt
<1>6. CASE ExportReveal(n) \/ Export(PyReveal(n))
  BY <1>6, SealedExport DEF ExportReveal, PyReveal, Reveal
<1>7. CASE NoteDeliver(n)
  BY <1>7, SealedExport DEF NoteDeliver
<1>8. CASE \/ NoteViewKey(n) \/ ProveOwnership(n) \/ PyDisclosureProve(n)
           \/ \E threshold \in Thresholds : ProveValueBound(n, threshold)
  BY <1>8, ProofExport DEF PyDisclosureProve
<1>9. CASE PyDisclosureExport(n)
  BY <1>4, <1>5, <1>6, <1>9 DEF PyDisclosureExport
<1> QED
  BY <1>2, <1>3, <1>4, <1>5, <1>6, <1>7, <1>8, <1>9

-----------------------------------------------------------------------------
(* What the others do with the files they have.                             *)

(* A key pair is made where it stays; its address holds no secret.          *)
LEMMA KeygenStep ==
  ASSUME NamesApart, DisclosureInv, NEW p \in Others,
         DisclosureKeygen(p) \/ NotePaymentAddress(p)
  PROVE  DisclosureInv'
<1>1. FilesTyped /\ p \in Parties
  BY PartiesHave DEF DisclosureInv
<1>2. ASSUME NEW key \in Others
      PROVE  /\ PaymentAddress(key) \in AnyFile
             /\ Accounted(p, PaymentAddress(key))'
  <2>1. PaymentAddress(key) = [kind |-> "address", of |-> "nobody", public |-> key, seal |-> Plain]
    BY DEF PaymentAddress
  <2>2. PaymentAddress(key) \in AddressFiles
    BY <2>1 DEF AddressFiles
  <2>3. PaymentAddress(key).of \notin Others /\ PaymentAddress(key).of \notin Notes
        /\ PaymentAddress(key) \notin TaggedFiles
    BY <2>1 DEF NamesApart, TaggedFiles
  <2> DEFINE f == PaymentAddress(key)
  <2>4. f.of \notin Others /\ f.of \notin Notes /\ f \notin TaggedFiles
    BY <2>3
  <2> HIDE DEF f
  <2>5. /\ KeyAtHome(p, f)' /\ SealedByHolder(p, f)' /\ PlainWasMeant(p, f)'
        /\ TagIsHolders(f)'
    BY <2>4 DEF KeyAtHome, SealedByHolder, PlainWasMeant, TagIsHolders, f, PaymentAddress, TaggedFiles, FileClaims, Tags, ViewTag,
                ReceiptTag, DeriveViewKey
  <2> QED
    BY <2>2, <2>5 DEF AnyFile, Accounted, f, PaymentAddress
<1>3. /\ Keypair(p) \in AnyFile
      /\ Accounted(p, Keypair(p))'
  <2>1. Keypair(p) = [kind |-> "keypair", of |-> p, seal |-> Plain]
    BY DEF Keypair
  <2>2. Keypair(p) \in KeypairFiles
    BY <2>1 DEF KeypairFiles
  <2>3. Keypair(p).of = p /\ Keypair(p).of \notin Notes /\ Keypair(p) \notin TaggedFiles
    BY <2>1 DEF NamesApart, TaggedFiles
  <2> QED
    BY <2>2, <2>3 DEF AnyFile, Accounted, KeyAtHome, SealedByHolder, PlainWasMeant,
                      TagIsHolders, Keypair, TaggedFiles, FileClaims, Tags, ViewTag,
                      ReceiptTag, DeriveViewKey
<1>4. CASE DisclosureKeygen(p)
  <2>1. Save(p, {Keypair(p), PaymentAddress(p)}) /\ UNCHANGED <<topic, leafOf, told, packed>>
    BY <1>4 DEF DisclosureKeygen
  <2>2. {Keypair(p), PaymentAddress(p)} \in SUBSET AnyFile
    BY <1>2, <1>3
  <2>3. \A f \in {Keypair(p), PaymentAddress(p)} : Accounted(p, f)'
    BY <1>2, <1>3
  <2> QED
    BY <1>1, <2>1, <2>2, <2>3, SaveStep
<1>5. CASE NotePaymentAddress(p)
  <2>1. PICK key \in RecipientKeys(p) :
          Save(p, {PaymentAddress(key)}) /\ UNCHANGED <<topic, leafOf, told, packed>>
    BY <1>5 DEF NotePaymentAddress
  <2>2. key \in Others
    BY <1>1, KeysAreParties
  <2>3. {PaymentAddress(key)} \in SUBSET AnyFile
    BY <1>2, <2>2
  <2>4. \A f \in {PaymentAddress(key)} : Accounted(p, f)'
    BY <1>2, <2>2
  <2> QED
    BY <1>1, <2>1, <2>3, <2>4, SaveStep
<1> QED
  BY <1>4, <1>5

(* Who is told the passphrase can read more, and has no other file.         *)
LEMMA TellStep ==
  ASSUME NamesApart, DisclosureInv, NEW p \in Others, Tell(p)
  PROVE  DisclosureInv'
<1>1. /\ topic' = topic /\ leafOf' = leafOf /\ files' = files
      /\ told' = told \union {p} /\ packed' = packed
  BY DEF Tell
<1>2. FilesTyped
  BY DEF DisclosureInv
<1>3. /\ files' \in [Parties -> SUBSET AnyFile] /\ files[Holder] \subseteq files'[Holder]
      /\ told \subseteq told' /\ told' \subseteq Others /\ LeavesStay
      /\ packed \subseteq packed' /\ packed' \subseteq Others \X Notes /\ PackersHaveKeys'
      /\ \A q \in Parties : \A f \in files'[q] : f \in files[q]
  BY <1>1, <1>2 DEF DisclosureInv, FilesTyped, LeavesStay, PackersHaveKeys, ViewKeyFile,
                    DeriveViewKey
<1> QED
  BY <1>1, <1>3, FilesMove

(* A view key derived from the secrets hides no private key.                *)
LEMMA DeriveKeyStep ==
  ASSUME NamesApart, DisclosureInv, NEW p \in Others, NEW n \in Notes, DeriveKey(p, n)
  PROVE  DisclosureInv'
<1>1. FilesTyped /\ p \in Parties
  BY PartiesHave DEF DisclosureInv
<1>2. Save(p, {ViewKeyFile(n)}) /\ UNCHANGED <<topic, leafOf, told, packed>>
  BY DEF DeriveKey
<1>3. PICK f : f = ViewKeyFile(n)
  OBVIOUS
<1>4. f \in AnyFile /\ f \notin TaggedFiles /\ f.of = "nobody"
  BY <1>3 DEF ViewKeyFile, ViewKeyFiles, AnyFile, TaggedFiles
<1>5. TaggedFiles' = TaggedFiles
  BY DEF TaggedFiles, FileClaims, Tags, ViewTag, ReceiptTag, DeriveViewKey
<1>6. Accounted(p, f)'
  BY <1>4, <1>5 DEF NamesApart, Accounted, KeyAtHome, SealedByHolder, PlainWasMeant, TagIsHolders
<1>7. {f} \in SUBSET AnyFile /\ Save(p, {f}) /\ \A g \in {f} : Accounted(p, g)'
  BY <1>2, <1>3, <1>4, <1>6
<1> QED
  BY <1>1, <1>2, <1>7, SaveStep

(* A package of one's own is one of a party that has the key.               *)
LEMMA PackStep ==
  ASSUME NamesApart, DisclosureInv, NEW p \in Others, NEW n \in Notes, Pack(p, n)
  PROVE  DisclosureInv'
<1>1. FilesTyped /\ p \in Parties /\ Holder \in Parties
  BY PartiesHave DEF DisclosureInv
<1>2. PICK claim \in FileClaims :
        \/ Save(p, {ViewPackage(claim, ViewTag(DeriveViewKey(n), claim))})
        \/ Save(p, {ReceiptPackage(claim, ReceiptTag(DeriveViewKey(n), claim))})
  BY <1>1 DEF Pack, FilesTyped, NamesApart, FileClaims
<1>3. PICK tag \in Tags, f \in TaggedFiles :
        /\ Save(p, {f}) /\ f.tag = tag /\ f.of = "nobody"
        /\ \/ tag = ViewTag(DeriveViewKey(n), claim)
           \/ tag = ReceiptTag(DeriveViewKey(n), claim)
  <2>1. /\ ViewTag(DeriveViewKey(n), claim) \in Tags
        /\ ReceiptTag(DeriveViewKey(n), claim) \in Tags
    BY DEF Tags
  <2> HIDE DEF Tags
  <2>2. \A tag \in Tags : /\ ViewPackage(claim, tag) \in TaggedFiles
                          /\ ReceiptPackage(claim, tag) \in TaggedFiles
    BY DEF ViewPackage, ReceiptPackage, TaggedFiles
  <2>3. \A tag : /\ ViewPackage(claim, tag).tag = tag /\ ViewPackage(claim, tag).of = "nobody"
                 /\ ReceiptPackage(claim, tag).tag = tag
                 /\ ReceiptPackage(claim, tag).of = "nobody"
    BY DEF ViewPackage, ReceiptPackage
  <2> QED
    BY <1>2, <2>1, <2>2, <2>3
<1>4. f \in AnyFile /\ {f} \in SUBSET AnyFile
  BY DEF AnyFile
<1>5. /\ files' \in [Parties -> SUBSET AnyFile]
      /\ files'[p] = files[p] \union {f}
      /\ \A q \in Parties : q # p => files'[q] = files[q]
  BY <1>1, <1>3, <1>4, Saved
<1>6. /\ ViewKeyFile(n) \in files[p] /\ packed' = packed \union {<<p, n>>}
      /\ topic' = topic /\ leafOf' = leafOf /\ told' = told
  BY DEF Pack
<1>7. PackersHaveKeys'
  <2> SUFFICES ASSUME NEW by \in packed' PROVE ViewKeyFile(by[2]) \in files'[by[1]]
    BY DEF PackersHaveKeys, ViewKeyFile, DeriveViewKey
  <2>1. CASE by = <<p, n>>
    BY <1>5, <1>6, <2>1
  <2>2. CASE by \in packed
    <3>1. by[1] \in Parties
      BY <1>1, <2>2 DEF FilesTyped, Parties
    <3>2. ViewKeyFile(by[2]) \in files[by[1]]
      BY <2>2 DEF DisclosureInv, PackersHaveKeys
    <3> QED
      BY <1>5, <3>1, <3>2
  <2> QED
    BY <1>6, <2>1, <2>2
<1>8. OfPacker(f.tag)'
  <2>1. <<p, n>> \in packed' /\ <<p, n>>[2] = n
    BY <1>6
  <2>2. FileClaims' = FileClaims
    BY DEF FileClaims
  <2> QED
    BY <1>3, <2>1, <2>2 DEF OfPacker, ViewTag, ReceiptTag, DeriveViewKey
<1>9. Accounted(p, f)'
  BY <1>3, <1>8 DEF NamesApart, Accounted, KeyAtHome, SealedByHolder, PlainWasMeant, TagIsHolders
<1>10. /\ LeavesStay /\ told \subseteq told' /\ told' \subseteq Others
       /\ packed \subseteq packed' /\ packed' \subseteq Others \X Notes
  BY <1>1, <1>6 DEF FilesTyped, LeavesStay
<1>11. /\ files[Holder] \subseteq files'[Holder]
       /\ \A q \in Parties : \A g \in files'[q] : g \in files[q] \/ Accounted(q, g)'
  BY <1>1, <1>5, <1>9
<1> QED
  BY <1>5, <1>6, <1>7, <1>10, <1>11, FilesMove

(* A private key of a party is used by that party only.                     *)
LEMMA UnsealedByOwn ==
  ASSUME NamesApart, DisclosureInv, NEW p \in Others, NEW f \in files[p],
         f.seal # Plain, f.of \in Notes, Unseals(p, f)
  PROVE  \E g \in files[Holder] : g.of = f.of /\ MeantFor(g, p)
<1>1. p \in Parties /\ p # Holder
  BY DEF NamesApart, Parties
<1>2. PICK g \in files[Holder] : g.of = f.of /\ g.seal = f.seal
  BY <1>1 DEF DisclosureInv, Accounted, SealedByHolder
<1>3. CASE UnsealWithPassphrase(p, f)
  BY <1>1, <1>2, <1>3 DEF UnsealWithPassphrase, MeantFor
<1>4. CASE UnsealWithRecipient(p, f)
  <2>1. PICK k \in files[p] : k.of = f.seal /\ f.seal \in Others
    BY <1>4 DEF UnsealWithRecipient, PrivateKeys
  <2>2. k.of = p
    BY <1>1, <2>1 DEF DisclosureInv, Accounted, KeyAtHome
  <2> QED
    BY <1>2, <2>1, <2>2 DEF MeantFor
<1> QED
  BY <1>3, <1>4 DEF Unseals

(* What a party opens, it was meant to read.                                *)
LEMMA OpenStep ==
  ASSUME NamesApart, DisclosureInv, NEW p \in Others, NEW f \in files[p],
         DisclosureOpen(p, f)
  PROVE  DisclosureInv'
<1>1. FilesTyped /\ p \in Parties /\ p # Holder /\ Holder \in Parties
  BY PartiesHave DEF DisclosureInv, NamesApart
<1>2. f \in AnyFile /\ f.kind = "reveal"
  BY <1>1, PartiesHave DEF DisclosureOpen
<1>3. f \in NoteFiles
  BY <1>2 DEF AnyFile, NoteFiles, TaggedFiles, ViewKeyFiles, AddressFiles, KeypairFiles,
              ProofFiles
<1>4. f.seal # Plain /\ Unseals(p, f)
  BY DEF DisclosureOpen, Unseals, UnsealWithPassphrase, UnsealWithRecipient, NamesApart, Plain,
         Passphrase
<1> DEFINE open == [f EXCEPT !.seal = Plain]
<1>5. open \in NoteFiles /\ open.of = f.of
  BY <1>3 DEF NoteFiles, Seals
<1>6. Save(p, {open}) /\ UNCHANGED <<topic, leafOf, told, packed>>
  BY DEF DisclosureOpen
<1>7. open.seal = Plain
  BY <1>3 DEF NoteFiles
<1> HIDE DEF open
<1>8. open \in AnyFile /\ open \notin TaggedFiles /\ open.of \notin Others
  BY <1>5, NoteFileIs
<1>9. {open} \in SUBSET AnyFile
  BY <1>8
<1>10. files'[Holder] = files[Holder] /\ told' = told
  BY <1>1, <1>6, <1>9, Saved
<1>11. open.of \in Notes => \E g \in files[Holder] : g.of = open.of /\ MeantFor(g, p)
  BY <1>4, <1>5, UnsealedByOwn
<1>12. PICK file : file = open
  OBVIOUS
<1>13. Accounted(p, file)'
  BY <1>7, <1>8, <1>10, <1>11, <1>12
     DEF Accounted, KeyAtHome, SealedByHolder, PlainWasMeant, TagIsHolders, MeantFor, TaggedFiles,
         FileClaims, Tags, ViewTag, ReceiptTag, DeriveViewKey
<1>14. {file} \in SUBSET AnyFile /\ Save(p, {file}) /\ \A g \in {file} : Accounted(p, g)'
  BY <1>6, <1>9, <1>12, <1>13
<1> QED
  BY <1>1, <1>6, <1>14, SaveStep

(* A changed file keeps whose secret it holds, its seal and its tag, and    *)
(* none is a view key.                                                      *)
LEMMA RetypedIs ==
  ASSUME NamesApart, FilesTyped, NEW p \in Parties, NEW f \in files[p], Retype(p, f)
  PROVE  /\ \A n : f # ViewKeyFile(n)
         /\ \E new \in AnyFile :
              /\ Replace(p, f, new) /\ new.of = f.of /\ new.seal = f.seal
              /\ new \in TaggedFiles => f \in TaggedFiles /\ new.tag = f.tag
<1>1. f \in AnyFile
  BY PartiesHave
<1>2. /\ \A claim \in topic.claims : claim \in FileClaims
      /\ TypedSignals \subseteq Signals
  BY DEF NamesApart, FilesTyped, FileClaims, Signals
<1>3. CASE "claim" \in DOMAIN f /\ \E claim \in topic.claims :
             Replace(p, f, [f EXCEPT !.claim = claim])
  <2>1. PICK claim \in FileClaims : Replace(p, f, [f EXCEPT !.claim = claim])
    BY <1>2, <1>3
  <2>2. f \in NoteFiles \union TaggedFiles
    BY <1>1, <1>3 DEF AnyFile, NoteFiles, TaggedFiles, ViewKeyFiles, AddressFiles,
                      KeypairFiles, ProofFiles
  <2> DEFINE new == [f EXCEPT !.claim = claim]
  <2>3. CASE f \in NoteFiles
    <3>1. new \in NoteFiles /\ new.of = f.of /\ new.seal = f.seal
      BY <2>3 DEF NoteFiles
    <3>2. new \notin TaggedFiles /\ \A n : f # ViewKeyFile(n)
      BY <2>3 DEF NoteFiles, TaggedFiles, ViewKeyFile
    <3> QED
      BY <2>1, <3>1, <3>2 DEF AnyFile
  <2>4. CASE f \in TaggedFiles
    <3>1. new \in TaggedFiles /\ new.of = f.of /\ new.seal = f.seal /\ new.tag = f.tag
      BY <2>4 DEF TaggedFiles
    <3>2. \A n : f # ViewKeyFile(n)
      BY <2>4 DEF TaggedFiles, ViewKeyFile
    <3> QED
      BY <2>1, <2>4, <3>1, <3>2 DEF AnyFile
  <2> QED
    BY <2>2, <2>3, <2>4
<1>4. CASE "tag" \in DOMAIN f /\ \E kind \in {"view", "receipt"} :
             Replace(p, f, [f EXCEPT !.kind = kind])
  <2>1. PICK kind \in {"view", "receipt"} : Replace(p, f, [f EXCEPT !.kind = kind])
    BY <1>4
  <2>2. f \in TaggedFiles
    BY <1>1, <1>4 DEF AnyFile, NoteFiles, TaggedFiles, ViewKeyFiles, AddressFiles,
                      KeypairFiles, ProofFiles
  <2> DEFINE new == [f EXCEPT !.kind = kind]
  <2>3. new \in TaggedFiles /\ new.of = f.of /\ new.seal = f.seal /\ new.tag = f.tag
    BY <2>2 DEF TaggedFiles
  <2>4. \A n : f # ViewKeyFile(n)
    BY <2>2 DEF TaggedFiles, ViewKeyFile
  <2> QED
    BY <2>1, <2>2, <2>3, <2>4 DEF AnyFile
<1>5. CASE "proof" \in DOMAIN f /\ \E says \in TypedSignals :
             \/ Replace(p, f, [f EXCEPT !.printed = says])
             \/ Replace(p, f, [f EXCEPT !.signals = says])
  <2>1. PICK says \in Signals : \/ Replace(p, f, [f EXCEPT !.printed = says])
                               \/ Replace(p, f, [f EXCEPT !.signals = says])
    BY <1>2, <1>5
  <2>2. f \in ProofFiles
    BY <1>1, <1>5 DEF AnyFile, NoteFiles, TaggedFiles, ViewKeyFiles, AddressFiles,
                      KeypairFiles, ProofFiles
  <2>3. ASSUME NEW new \in {[f EXCEPT !.printed = says], [f EXCEPT !.signals = says]}
        PROVE  new \in ProofFiles /\ new.of = f.of /\ new.seal = f.seal
    BY <2>2, <2>3 DEF ProofFiles
  <2>4. (\A new \in ProofFiles : new \notin TaggedFiles) /\ \A n : f # ViewKeyFile(n)
    BY <2>2 DEF ProofFiles, TaggedFiles, ViewKeyFile
  <2> QED
    BY <2>1, <2>3, <2>4 DEF AnyFile
<1> QED
  BY <1>3, <1>4, <1>5 DEF Retype

(* A changed file needs no other account than the one it was made from.     *)
LEMMA RetypeStep ==
  ASSUME NamesApart, DisclosureInv, NEW p \in Others, NEW f \in files[p], Retype(p, f)
  PROVE  DisclosureInv'
<1>1. FilesTyped /\ p \in Parties /\ p # Holder /\ Holder \in Parties
  BY PartiesHave DEF DisclosureInv, NamesApart
<1>2. PICK new \in AnyFile :
        /\ files' = [files EXCEPT ![p] = (files[p] \ {f}) \union {new}]
        /\ new.of = f.of /\ new.seal = f.seal
        /\ new \in TaggedFiles => f \in TaggedFiles /\ new.tag = f.tag
  BY <1>1, RetypedIs DEF Replace
<1>3. \A n : f # ViewKeyFile(n)
  BY <1>1, RetypedIs
<1>4. topic' = topic /\ leafOf' = leafOf /\ told' = told /\ packed' = packed
  BY DEF Retype
<1>5. files \in [Parties -> SUBSET AnyFile] /\ files[p] \subseteq AnyFile
  BY <1>1, PartiesHave DEF FilesTyped
<1>6. /\ files' \in [Parties -> SUBSET AnyFile]
      /\ files'[Holder] = files[Holder]
      /\ \A q \in Parties : \A g \in files[q] : g \in files'[q] \/ g = f
      /\ \A q \in Parties : \A g \in files'[q] : g \in files[q] \/ (q = p /\ g = new)
  BY <1>1, <1>2, <1>5
<1>7. Accounted(p, f)
  BY <1>1 DEF DisclosureInv
<1>8. Accounted(p, new)
  <2>1. KeyAtHome(p, new) /\ SealedByHolder(p, new) /\ PlainWasMeant(p, new)
    BY <1>2, <1>7 DEF Accounted, KeyAtHome, SealedByHolder, PlainWasMeant
  <2>2. TagIsHolders(new)
    BY <1>2, <1>7 DEF Accounted, TagIsHolders
  <2> QED
    BY <2>1, <2>2 DEF Accounted
<1>9. /\ files[Holder] \subseteq files'[Holder] /\ told \subseteq told' /\ told' \subseteq Others
      /\ packed \subseteq packed' /\ packed' \subseteq Others \X Notes /\ LeavesStay
  BY <1>1, <1>4, <1>6 DEF FilesTyped, LeavesStay
<1>10. Accounted(p, new)'
  BY <1>1, <1>8, <1>9, AccountedStays
<1>11. PackersHaveKeys'
  BY <1>1, <1>3, <1>4, <1>6 DEF DisclosureInv, FilesTyped, PackersHaveKeys, Parties, ViewKeyFile,
                               DeriveViewKey
<1> QED
  BY <1>4, <1>6, <1>9, <1>10, <1>11, FilesMove

(* What is passed on is no private key, and no secret in the clear except   *)
(* by the holder.                                                           *)
LEMMA GiveStep ==
  ASSUME NamesApart, DisclosureInv, NEW p \in Parties, NEW f \in files[p],
         NEW q \in Parties, Give(p, f, q)
  PROVE  DisclosureInv'
<1>1. FilesTyped /\ Holder \in Parties /\ f \in AnyFile
  BY PartiesHave DEF DisclosureInv
<1>2. /\ f.kind # "keypair" /\ (Secret(f) => p = Holder) /\ Save(q, {f})
      /\ UNCHANGED <<topic, leafOf, told, packed>>
  BY DEF Give
<1>3. f.of \notin Others
  BY <1>1, <1>2 DEF AnyFile, NoteFiles, TaggedFiles, ViewKeyFiles, AddressFiles, KeypairFiles,
                    ProofFiles, NamesApart
<1>4. Accounted(p, f)
  BY DEF DisclosureInv
<1>5. Accounted(q, f)
  <2>1. KeyAtHome(q, f)
    BY <1>3 DEF KeyAtHome
  <2>2. SealedByHolder(q, f)
    BY <1>4 DEF Accounted, SealedByHolder
  <2>3. PlainWasMeant(q, f)
    <3>1. CASE f.of \in Notes /\ f.seal = Plain
      BY <1>2, <3>1 DEF Secret, PlainWasMeant, MeantFor
    <3>2. CASE ~(f.of \in Notes /\ f.seal = Plain)
      BY <3>2 DEF PlainWasMeant
    <3> QED
      BY <3>1, <3>2
  <2>4. TagIsHolders(f)
    BY <1>4 DEF Accounted, TagIsHolders
  <2> QED
    BY <2>1, <2>2, <2>3, <2>4 DEF Accounted
<1>6. {f} \in SUBSET AnyFile
  BY <1>1
<1>7. /\ files[Holder] \subseteq files'[Holder] /\ told \subseteq told' /\ packed \subseteq packed'
      /\ LeavesStay
  BY <1>1, <1>2, <1>6, Saved DEF FilesTyped, LeavesStay
<1>8. \A g \in {f} : Accounted(q, g)'
  BY <1>1, <1>5, <1>7, AccountedStays
<1> QED
  BY <1>2, <1>6, <1>8, SaveStep

-----------------------------------------------------------------------------

(* Nobody has a file at the start.                                          *)
LEMMA InitDisclosure == NamesApart /\ DisclosureInit => DisclosureInv
<1> SUFFICES ASSUME NamesApart, DisclosureInit PROVE DisclosureInv
  OBVIOUS
<1>1. FilesTyped
  BY DEF DisclosureInit, FilesTyped, NoLeaf
<1>2. \A p \in Parties : files[p] = {}
  BY DEF DisclosureInit
<1>3. PackersHaveKeys
  BY DEF DisclosureInit, PackersHaveKeys
<1> QED
  BY <1>1, <1>2, <1>3 DEF DisclosureInv

(* One step of anyone keeps the account.                                    *)
LEMMA NextDisclosure == NamesApart /\ DisclosureInv /\ [DisclosureNext]_disclosureVars => DisclosureInv'
<1> SUFFICES ASSUME NamesApart, DisclosureInv, [DisclosureNext]_disclosureVars PROVE DisclosureInv'
  OBVIOUS
<1>1. CASE HolderStep
  BY <1>1, HolderStepInv
<1>2. ASSUME NEW p \in Others, PartyStep(p)
      PROVE  DisclosureInv'
  <2>1. topic.notes \subseteq Notes
    BY DEF DisclosureInv, FilesTyped, NamesApart
  <2> QED
    BY <1>2, <2>1, KeygenStep, TellStep, DeriveKeyStep, PackStep, OpenStep, RetypeStep
       DEF PartyStep, PyDisclosureOpen
<1>3. CASE Pass
  BY <1>3, GiveStep DEF Pass
<1>4. CASE UNCHANGED disclosureVars
  <2>1. topic' = topic /\ leafOf' = leafOf /\ files' = files /\ told' = told /\ packed' = packed
    BY <1>4 DEF disclosureVars
  <2>2. FilesTyped
    BY DEF DisclosureInv
  <2>3. /\ files' \in [Parties -> SUBSET AnyFile] /\ files[Holder] \subseteq files'[Holder]
        /\ told \subseteq told' /\ told' \subseteq Others /\ LeavesStay
        /\ packed \subseteq packed' /\ packed' \subseteq Others \X Notes /\ PackersHaveKeys'
        /\ \A q \in Parties : \A f \in files'[q] : f \in files[q]
    BY <2>1, <2>2 DEF DisclosureInv, FilesTyped, LeavesStay, PackersHaveKeys, ViewKeyFile,
                      DeriveViewKey
  <2> QED
    BY <2>1, <2>3, FilesMove
<1> QED
  BY <1>1, <1>2, <1>3, <1>4 DEF DisclosureNext

(* The account holds throughout.                                            *)
THEOREM FilesAreAccounted == NamesApart => (DisclosureSpec => []DisclosureInv)
<1> SUFFICES ASSUME NamesApart PROVE DisclosureSpec => []DisclosureInv
  OBVIOUS
<1>1. DisclosureInit => DisclosureInv
  BY InitDisclosure
<1>2. DisclosureInv /\ [DisclosureNext]_disclosureVars => DisclosureInv'
  BY NextDisclosure
<1> QED
  BY <1>1, <1>2, PTL DEF DisclosureSpec

(***************************************************************************)
(* Whoever can read the secrets of a note was given them by the holder: in *)
(* the clear, under a passphrase he was told, or sealed to his key, however *)
(* many parties pass on and combine what files (sealOwnershipDisclosure,   *)
(* sealIncomingNote and the keys they use).                                *)
(***************************************************************************)
THEOREM SecretsWereGiven == NamesApart => (DisclosureSpec => []SecretsReachOnlyRecipients)
<1> SUFFICES ASSUME NamesApart PROVE DisclosureSpec => []SecretsReachOnlyRecipients
  OBVIOUS
<1>1. DisclosureInv => SecretsReachOnlyRecipients
  <2> SUFFICES ASSUME DisclosureInv, NEW p \in Others, NEW n \in Notes, Reads(p, n)
               PROVE  \E g \in files[Holder] : g.of = n /\ MeantFor(g, p)
    BY DEF SecretsReachOnlyRecipients
  <2>1. PICK f \in files[p] : f.of = n /\ Unseals(p, f)
    BY DEF Reads
  <2>2. CASE f.seal = Plain
    BY <2>1, <2>2 DEF DisclosureInv, Accounted, PlainWasMeant, Parties
  <2>3. CASE f.seal # Plain
    BY <2>1, <2>3, UnsealedByOwn
  <2> QED
    BY <2>2, <2>3
<1> QED
  BY <1>1, FilesAreAccounted, PTL

(* A tag names the key and the claim it was computed over, and the kind of  *)
(* package.                                                                 *)
LEMMA TagsNameClaims ==
  ASSUME NEW m, NEW n, NEW a \in FileClaims, NEW b \in FileClaims
  PROVE  /\ ViewTag(m, a) = ViewTag(n, b) => m = n /\ a = b
         /\ ReceiptTag(m, a) = ReceiptTag(n, b) => m = n /\ a = b
         /\ ViewTag(m, a) # ReceiptTag(n, b)
<1>1. a.c = b.c /\ a.worth = b.worth /\ a.leaf = b.leaf => a = b
  BY DEF FileClaims
<1> QED
  BY <1>1 DEF ViewTag, ReceiptTag

(* A package that verifies repeats one of the holder's, about the note the  *)
(* key is of, or has the tag of a party that has the key.                   *)
LEMMA PackageIsHolders ==
  ASSUME NamesApart, DisclosureInv, NEW p \in Others, NEW f \in files[p], NEW key \in files[p],
         VerifyView(f, key) \/ VerifyPaymentReceipt(f, key)
  PROVE  \/ /\ Holds(f.claim) /\ key.key = DeriveViewKey(f.claim.c)
            /\ \E g \in files[Holder] : g.kind = f.kind /\ g.claim = f.claim
         \/ PackedWith(key.key)
<1>1. FilesTyped /\ p \in Parties
  BY PartiesHave DEF DisclosureInv
<1>2. f \in AnyFile /\ f.kind \in {"view", "receipt"}
  BY <1>1, PartiesHave DEF VerifyView, VerifyPaymentReceipt
<1>3. f \in TaggedFiles
  BY <1>2 DEF AnyFile, NoteFiles, TaggedFiles, ViewKeyFiles, AddressFiles, KeypairFiles,
              ProofFiles
<1>4. \/ f.kind = "view" /\ f.tag = ViewTag(key.key, f.claim)
      \/ f.kind = "receipt" /\ f.tag = ReceiptTag(key.key, f.claim)
  BY DEF VerifyView, VerifyPaymentReceipt
<1>5. f.claim \in FileClaims
  BY <1>3 DEF TaggedFiles
<1>6. CASE OfPacker(f.tag)
  <2>1. PICK by \in packed, claim \in FileClaims :
          \/ f.tag = ViewTag(DeriveViewKey(by[2]), claim)
          \/ f.tag = ReceiptTag(DeriveViewKey(by[2]), claim)
    BY <1>6 DEF OfPacker
  <2>2. key.key = DeriveViewKey(by[2])
    BY <1>4, <1>5, <2>1, TagsNameClaims
  <2> QED
    BY <2>2 DEF DisclosureInv, PackersHaveKeys, PackedWith
<1>7. ASSUME NEW g \in files[Holder], g \in TaggedFiles, Honest(g), g.tag = f.tag
      PROVE  /\ Holds(f.claim) /\ key.key = DeriveViewKey(f.claim.c)
             /\ g.kind = f.kind /\ g.claim = f.claim
  <2>1. g.claim \in FileClaims
    BY <1>7 DEF TaggedFiles
  <2> QED
    BY <1>4, <1>5, <1>7, <2>1, TagsNameClaims DEF Honest
<1> QED
  BY <1>1, <1>3, <1>6, <1>7 DEF DisclosureInv, Accounted, TagIsHolders

(* A proof that verifies has signals its circuit holds for.                 *)
LEMMA ProofIsTrue ==
  ASSUME NamesApart, DisclosureInv, NEW p \in Others, NEW f \in files[p]
  PROVE  /\ VerifyOwnership(f) => f.signals.worth = Worth[f.signals.c]
         /\ VerifyValueBound(f) => Worth[f.signals.c] >= f.signals.threshold
<1>1. f \in AnyFile
  BY PartiesHave DEF DisclosureInv, Parties
<1>2. SUFFICES ASSUME "proof" \in DOMAIN f PROVE
         /\ VerifyOwnership(f) => f.signals.worth = Worth[f.signals.c]
         /\ VerifyValueBound(f) => Worth[f.signals.c] >= f.signals.threshold
  BY DEF VerifyOwnership, VerifyValueBound
<1>3. f \in ProofFiles
  BY <1>1, <1>2 DEF AnyFile, NoteFiles, TaggedFiles, ViewKeyFiles, AddressFiles, KeypairFiles,
              ProofFiles
<1>4. f.proof \in OwnershipProofs \union BoundProofs
  BY <1>3 DEF ProofFiles
<1>5. ASSUME VerifyOwnership(f) PROVE f.signals.worth = Worth[f.signals.c]
  <2>1. f.proof = <<"ownership", f.signals>>
    BY <1>5 DEF VerifyOwnership, Proof
  <2>2. \E n \in Notes : f.signals = [c |-> n, worth |-> Worth[n]]
    BY <1>4, <2>1 DEF OwnershipProofs, BoundProofs, Proof
  <2> QED
    BY <2>2
<1>6. ASSUME VerifyValueBound(f) PROVE Worth[f.signals.c] >= f.signals.threshold
  <2>1. f.proof = <<"bound", f.signals>>
    BY <1>6 DEF VerifyValueBound, Proof
  <2>2. f.signals \in {x \in [c : Notes, threshold : Nat] : Worth[x.c] >= x.threshold}
    BY <1>4, <2>1 DEF OwnershipProofs, BoundProofs, Proof
  <2> QED
    BY <2>2
<1> QED
  BY <1>5, <1>6

(***************************************************************************)
(* Whose word a report of a command is, whatever the others changed in the *)
(* files they had: a package that verifies with a view key is true of the  *)
(* key's note and the holder's own, unless somebody who was given the key  *)
(* made packages with it (verifyOwnershipViewPackage and                   *)
(* verifyPaymentReceiptPackage); a revealed note has its value; a proof    *)
(* says with its signals what is true, and nothing about what is printed.  *)
(***************************************************************************)
THEOREM ReportsAreStated == NamesApart => (DisclosureSpec => []VerifiedIsStated)
<1> SUFFICES ASSUME NamesApart PROVE DisclosureSpec => []VerifiedIsStated
  OBVIOUS
<1>1. DisclosureInv => VerifiedIsStated
  <2> DEFINE Right(r) ==
        CASE r.kind \in {"view", "receipt"} -> Said(r) \/ PackedWith(r.key)
          [] r.kind \in {"reveal", "incoming"} -> r.says.worth = Worth[r.says.c]
          [] r.kind = "ownership" -> r.signals.worth = Worth[r.signals.c]
          [] r.kind = "bound" -> Worth[r.signals.c] >= r.signals.threshold
  <2> SUFFICES ASSUME DisclosureInv, NEW p \in Others, NEW r \in Reported(p)
               PROVE  Right(r)
    BY DEF VerifiedIsStated
  <2>1. ASSUME NEW f \in files[p], NEW kind \in {"reveal", "incoming"},
               r = ReportedOfReveal(kind, f),
               DisclosureVerify(p, f) \/ PyDisclosureVerify(p, f) \/ OpenIncoming(p, f)
        PROVE  Right(r)
    <3>1. f.claim.worth = Worth[f.claim.c]
      BY <2>1 DEF DisclosureVerify, PyDisclosureVerify, OpenIncoming,
                  VerifyOwnershipDisclosure, PyVerifyOwnershipDisclosure
    <3>2. r.kind \in {"reveal", "incoming"} /\ r.says = f.claim
      BY <2>1 DEF ReportedOfReveal
    <3> QED
      BY <3>1, <3>2
  <2>2. ASSUME NEW f \in files[p], NEW key \in files[p], NEW kind \in {"view", "receipt"},
               r = ReportedOfTag(kind, f, key), kind = f.kind,
               VerifyView(f, key) \/ VerifyPaymentReceipt(f, key)
        PROVE  Right(r)
    <3>1. r.kind = f.kind /\ r.kind \in {"view", "receipt"} /\ r.says = f.claim /\ r.key = key.key
      BY <2>2 DEF ReportedOfTag
    <3>2. Said(r) \/ PackedWith(r.key)
      BY <2>2, <3>1, PackageIsHolders DEF Said
    <3> QED
      BY <3>1, <3>2
  <2>3. ASSUME NEW f \in files[p], r = ReportedOfProof("ownership", f), VerifyOwnership(f)
        PROVE  Right(r)
    <3>1. r.kind = "ownership" /\ r.signals = f.signals
      BY <2>3 DEF ReportedOfProof
    <3> QED
      BY <2>3, <3>1, ProofIsTrue
  <2>4. ASSUME NEW f \in files[p], r = ReportedOfProof("bound", f), VerifyValueBound(f)
        PROVE  Right(r)
    <3>1. r.kind = "bound" /\ r.signals = f.signals
      BY <2>4 DEF ReportedOfProof
    <3> QED
      BY <2>4, <3>1, ProofIsTrue
  <2> HIDE DEF Right
  <2>5. \A f, key : VerifyView(f, key) => f.kind = "view"
    BY DEF VerifyView
  <2>6. \A f, key : VerifyPaymentReceipt(f, key) => f.kind = "receipt"
    BY DEF VerifyPaymentReceipt
  <2> QED
    BY <2>1, <2>2, <2>3, <2>4, <2>5, <2>6 DEF Reported
<1> QED
  BY <1>1, FilesAreAccounted, PTL

-----------------------------------------------------------------------------
(* The registry of attestations. *)

(* A record is written with the block's time, which is never zero, and the *)
(* client anchors digests of proofs only.                                  *)
AnchorTyped ==
  /\ now \in Nat \ {0}
  /\ anchored \subseteq Digests
  /\ DOMAIN attestations = Digests \union {ZeroDigest}

AnchorInv == AnchorTyped /\ AnchoredStaysAttested

(* The two digests of a proof are digests, and name it. *)
LEMMA DigestsTyped ==
  ASSUME NEW proof \in Proofs
  PROVE  /\ TextDigest(proof) \in Digests /\ TextDigest(proof).proof = proof
         /\ AbiDigest(proof) \in Digests /\ AbiDigest(proof).proof = proof
BY DEF TextDigest, AbiDigest, Digests

(* A digest is written once: what was posted before keeps its record. *)
LEMMA PostKeeps ==
  ASSUME AnchorTyped, NEW poster, NEW kind, NEW digest \in Digests \union {ZeroDigest},
         Post(poster, kind, digest)
  PROVE  /\ DOMAIN attestations' = Digests \union {ZeroDigest}
         /\ \A d \in Digests : Posted(d) => attestations'[d] = attestations[d]
         /\ attestations'[digest].postedAt # 0
         /\ attestations'[digest].kind = kind
<1> DEFINE record == [poster |-> poster, kind |-> kind, postedAt |-> now]
<1>1. attestations' = [attestations EXCEPT ![digest] = record] /\ ~Posted(digest)
  BY DEF Post, WriteRecord
<1>2. record.postedAt = now /\ record.kind = kind
  OBVIOUS
<1> HIDE DEF record
<1>3. attestations'[digest] = record
  BY <1>1 DEF AnchorTyped
<1>4. \A d \in Digests : d # digest => attestations'[d] = attestations[d]
  BY <1>1 DEF AnchorTyped
<1> QED
  BY <1>1, <1>2, <1>3, <1>4 DEF AnchorTyped

(* Whoever posts what, what the client anchored keeps its record. *)
LEMMA PostAnchorInv ==
  ASSUME AnchorInv, NEW poster, NEW kind, NEW digest \in Digests \union {ZeroDigest},
         Post(poster, kind, digest), UNCHANGED now,
         \/ UNCHANGED anchored
         \/ /\ digest \in Digests /\ kind = digest.proof[1]
            /\ anchored' = anchored \union {digest}
  PROVE  AnchorInv'
<1>1. AnchorTyped
  BY DEF AnchorInv
<1>2. /\ DOMAIN attestations' = Digests \union {ZeroDigest}
      /\ \A d \in Digests : Posted(d) => attestations'[d] = attestations[d]
      /\ attestations'[digest].postedAt # 0
      /\ attestations'[digest].kind = kind
  BY <1>1, PostKeeps
<1>3. AnchorTyped'
  BY <1>1, <1>2 DEF AnchorTyped
<1>4. ASSUME NEW d \in anchored
      PROVE  attestations'[d].postedAt # 0 /\ attestations'[d].kind = d.proof[1]
  <2>1. d \in Digests /\ Posted(d) /\ attestations[d].kind = d.proof[1]
    BY DEF AnchorInv, AnchorTyped, AnchoredStaysAttested
  <2>2. attestations'[d] = attestations[d]
    BY <1>2, <2>1
  <2> QED
    BY <2>1, <2>2 DEF Posted
<1>5. ASSUME NEW d \in anchored'
      PROVE  attestations'[d].postedAt # 0 /\ attestations'[d].kind = d.proof[1]
  <2>1. CASE d \in anchored
    BY <1>4, <2>1
  <2>2. CASE d \notin anchored
    BY <1>2, <2>2
  <2> QED
    BY <2>1, <2>2
<1> QED
  BY <1>3, <1>5 DEF AnchorInv, AnchoredStaysAttested, Posted

(* The registry starts empty. *)
LEMMA InitAnchorInv == AnchorInit => AnchorInv
BY DEF AnchorInit, AnchorInv, AnchorTyped, AnchoredStaysAttested

(* Every entry point of the registry keeps what is anchored. *)
LEMMA StepAnchorInv == AnchorInv /\ [AnchorNext]_anchorVars => AnchorInv'
<1> SUFFICES ASSUME AnchorInv, [AnchorNext]_anchorVars PROVE AnchorInv'
  OBVIOUS
<1>1. ASSUME NEW poster \in Posters, NEW proof \in Proofs,
             AnchorBulletin(poster, proof)
      PROVE  AnchorInv'
  <2>1. /\ Post(poster, proof[1], TextDigest(proof)) /\ UNCHANGED now
        /\ anchored' = anchored \union {TextDigest(proof)}
    BY <1>1 DEF AnchorBulletin
  <2> QED
    BY <2>1, DigestsTyped, PostAnchorInv
<1>2. ASSUME NEW poster \in Posters, NEW proof \in Proofs,
             AnchorVerifying(poster, proof)
      PROVE  AnchorInv'
  <2>1. /\ Post(poster, proof[1], AbiDigest(proof)) /\ UNCHANGED now
        /\ anchored' = anchored \union {AbiDigest(proof)}
    BY <1>2 DEF AnchorVerifying, PostProof
  <2> QED
    BY <2>1, DigestsTyped, PostAnchorInv
<1>3. ASSUME NEW poster \in Posters, NEW kind \in Kinds,
             NEW digest \in Digests \union {ZeroDigest},
             PostAttestation(poster, kind, digest)
      PROVE  AnchorInv'
  BY <1>3, PostAnchorInv DEF PostAttestation
<1>4. CASE NextBlock
  BY <1>4 DEF NextBlock, AnchorInv, AnchorTyped, AnchoredStaysAttested, Posted
<1>5. CASE UNCHANGED anchorVars
  BY <1>5 DEF anchorVars, AnchorInv, AnchorTyped, AnchoredStaysAttested, Posted
<1> QED
  BY <1>1, <1>2, <1>3, <1>4, <1>5 DEF AnchorNext

(***************************************************************************)
(* Nothing anybody posts before or after can take an anchored digest away  *)
(* or change the kind it is attested under.                                *)
(***************************************************************************)
THEOREM Anchored == AnchorSpec => []AnchoredStaysAttested
<1>1. AnchorInv => AnchoredStaysAttested
  BY DEF AnchorInv
<1> QED
  BY <1>1, InitAnchorInv, StepAnchorInv, PTL DEF AnchorSpec

-----------------------------------------------------------------------------
(***************************************************************************)
(* The relayer.                                                            *)
(***************************************************************************)

Steps == {"free", "read", "simulate", "send", "ok", "refused", "failed"}

\* The shape of the state.
TypeInv ==
    /\ at \in [Requests -> Steps]
    /\ body \in [Requests -> Body]
    /\ leaves \in [Pools -> Nat]
    /\ spent \in [Pools -> SUBSET STRING]
    /\ mempool \in SUBSET Requests
    /\ mined \in [Requests -> {"no", "success", "reverted"}]
    /\ refusing \in SUBSET Contracts
    /\ since \in [Requests -> SUBSET (Payees \cup Pools)]

\* Until it sends, a handler has no transaction.
UnsentBefore ==
    \A r \in Requests : at[r] \in {"free", "read", "simulate", "send"} => r \notin Sent

\* What changed is recorded only once a transaction to a pool was simulated.
SinceSimulated ==
    \A r \in Requests : since[r] # {} =>
        at[r] \notin {"free", "read", "simulate"} /\ body[r].to \in Pools

\* From the simulation on, what does not depend on the chain is settled.
SoundSinceSimulated ==
    \A r \in Requests : (at[r] = "send" \/ r \in Sent) /\ body[r].to \in Pools =>
        /\ body[r].proof
        /\ PoolFloor(body[r].to, body[r].amount) <= body[r].fee
        /\ body[r].fee <= body[r].amount
        /\ body[r].root <= leaves[body[r].to]

\* As long as nothing such a transaction touches has changed, its payees still take
\* the payment and the tree still has room.
SameAsSimulated ==
    \A r \in Requests : InFlight(r) /\ body[r].to \in Pools /\ since[r] = {} =>
        /\ Grows(body[r]) => leaves[body[r].to] < TreeCapacity
        /\ Paid(body[r]) \cap refusing = {}

\* Something overtook the transaction since its simulation.
Overtaken(r) ==
    /\ body[r].to \in Pools
    /\ \/ body[r].nf \in spent[body[r].to]
       \/ leaves[body[r].to] - body[r].root > RootWindow
       \/ since[r] # {}

RevertedOvertaken == \A r \in Reverted : Overtaken(r)

IInv == /\ TypeInv /\ UnsentBefore /\ SinceSimulated /\ SoundSinceSimulated
        /\ SameAsSimulated /\ RevertedOvertaken

\* How pools and payees move: pools grow, and of what a transaction in flight
\* touches nothing changes unrecorded.
WorldMoves ==
    /\ leaves' \in [Pools -> Nat] /\ spent' \in [Pools -> SUBSET STRING]
    /\ refusing' \in SUBSET Contracts
    /\ since' \in [Requests -> SUBSET (Payees \cup Pools)]
    /\ \A p \in Pools : spent[p] \subseteq spent'[p] /\ leaves[p] <= leaves'[p]
    /\ \A r \in Requests :
          /\ since[r] \subseteq since'[r]
          /\ since'[r] # since[r] => InFlight(r) /\ body[r].to \in Pools
          /\ InFlight(r) /\ body[r].to \in Pools /\ since'[r] = {} =>
                /\ Grows(body[r]) => leaves'[body[r].to] = leaves[body[r].to]
                /\ Paid(body[r]) \cap refusing' = Paid(body[r]) \cap refusing

----------------------------------------------------------------------------
\* The relayer starts with nothing sent.
LEMMA InitIInv == Init => IInv
<1> SUFFICES ASSUME Init PROVE IInv
  OBVIOUS
<1>1. TypeInv
  <2>1. (CHOOSE b \in Bodies : TRUE) \in Body
    BY RelayerAssumption, RelayerWindow
  <2> QED
    BY <2>1 DEF Init, TypeInv, Steps
<1>2. Sent = {} /\ Reverted = {}
  BY DEF Init, Sent, Reverted
<1>3. \A r \in Requests : at[r] = "free" /\ since[r] = {} /\ ~InFlight(r)
  BY DEF Init, InFlight
<1> QED
  BY <1>1, <1>2, <1>3 DEF IInv, UnsentBefore, SinceSimulated, SoundSinceSimulated,
     SameAsSimulated, RevertedOvertaken

----------------------------------------------------------------------------
\* A step of a handler that sends nothing leaves the chain and what was sent.
LEMMA QuietStep ==
    ASSUME IInv, NEW r \in Requests, NEW to \in Steps,
           at[r] \in {"read", "simulate"}, to \notin {"free", "read"},
           Advance(r, to), UNCHANGED <<body, chain, since>>,
           to = "send" => WouldSucceed(body[r])
    PROVE  IInv'
<1>1. /\ at' = [at EXCEPT ![r] = to] /\ body' = body /\ leaves' = leaves
      /\ spent' = spent /\ mempool' = mempool /\ mined' = mined
      /\ refusing' = refusing /\ since' = since
  BY DEF Advance, chain
<1>2. Sent' = Sent /\ Reverted' = Reverted
  BY <1>1 DEF Sent, Reverted
<1>3. /\ at'[r] = to /\ \A s \in Requests : s # r => at'[s] = at[s]
      /\ r \notin Sent /\ since[r] = {}
  BY <1>1 DEF IInv, TypeInv, UnsentBefore, SinceSimulated
<1>4. \A s \in Requests : s # r => InFlight(s)' = InFlight(s)
  BY <1>1, <1>3 DEF InFlight
<1>5. TypeInv'
  BY <1>1 DEF IInv, TypeInv
<1>6. UnsentBefore'
  BY <1>1, <1>2, <1>3 DEF IInv, UnsentBefore
<1>7. SinceSimulated'
  BY <1>1, <1>2, <1>3 DEF IInv, SinceSimulated
<1>8. CASE to = "send" /\ body[r].to \in Pools
  <2>1. /\ body[r].proof /\ PoolFloor(body[r].to, body[r].amount) <= body[r].fee
        /\ body[r].fee <= body[r].amount /\ body[r].root <= leaves[body[r].to]
        /\ Grows(body[r]) => leaves[body[r].to] < TreeCapacity
        /\ Paid(body[r]) \cap refusing = {}
    BY <1>8 DEF WouldSucceed
  <2>2. SoundSinceSimulated'
    BY <1>1, <1>2, <1>3, <2>1 DEF IInv, SoundSinceSimulated, PoolFloor, Share
  <2>3. SameAsSimulated'
    BY <1>1, <1>3, <1>4, <2>1 DEF IInv, SameAsSimulated, Grows, Paid
  <2>4. RevertedOvertaken'
    BY <1>1, <1>2 DEF IInv, RevertedOvertaken, Overtaken
  <2> QED
    BY <1>5, <1>6, <1>7, <2>2, <2>3, <2>4 DEF IInv
<1>9. CASE ~(to = "send" /\ body[r].to \in Pools)
  <2>1. SoundSinceSimulated'
    BY <1>1, <1>2, <1>3, <1>9 DEF IInv, SoundSinceSimulated, PoolFloor, Share
  <2>2. r \notin mempool
    BY <1>3 DEF Sent
  <2>3. SameAsSimulated'
    BY <1>1, <1>3, <1>4, <1>9, <2>2 DEF IInv, SameAsSimulated, Grows, Paid, InFlight
  <2>4. RevertedOvertaken'
    BY <1>1, <1>2 DEF IInv, RevertedOvertaken, Overtaken
  <2> QED
    BY <1>5, <1>6, <1>7, <2>1, <2>3, <2>4 DEF IInv
<1> QED
  BY <1>8, <1>9

\* A transaction reaches the node only from a handler that simulated it.
LEMMA SendStep ==
    ASSUME IInv, NEW r \in Requests, Send(r) \/ SendThrows(r)
    PROVE  IInv'
<1>1. /\ at[r] = "send" /\ body' = body /\ leaves' = leaves /\ spent' = spent
      /\ mined' = mined /\ refusing' = refusing /\ since' = since
      /\ \E to \in {"ok", "refused"} : at' = [at EXCEPT ![r] = to]
      /\ mempool' \in {mempool, mempool \cup {r}}
  BY DEF Send, SendThrows, Advance
<1>2. /\ Sent' \in SUBSET (Sent \cup {r}) /\ Sent \subseteq Sent' /\ Reverted' = Reverted
  BY <1>1 DEF Sent, Reverted
<1>3. /\ at'[r] \in {"ok", "refused"}
      /\ \A s \in Requests : s # r => at'[s] = at[s]
  BY <1>1 DEF IInv, TypeInv
<1>4. \A s \in Requests : InFlight(s)' => InFlight(s)
  BY <1>1, <1>3 DEF InFlight
<1>5. TypeInv'
  BY <1>1 DEF IInv, TypeInv, Steps
<1>6. UnsentBefore'
  BY <1>2, <1>3 DEF IInv, UnsentBefore
<1>7. SoundSinceSimulated'
  BY <1>1, <1>2, <1>3 DEF IInv, SoundSinceSimulated, PoolFloor, Share
<1>8. SameAsSimulated'
  BY <1>1, <1>4 DEF IInv, SameAsSimulated, Grows, Paid
<1>9. RevertedOvertaken'
  BY <1>1, <1>2 DEF IInv, RevertedOvertaken, Overtaken
<1>10. SinceSimulated'
  BY <1>1, <1>3 DEF IInv, SinceSimulated
<1> QED
  BY <1>5, <1>6, <1>7, <1>8, <1>9, <1>10 DEF IInv

----------------------------------------------------------------------------
\* A new leaf is recorded for every transaction in flight that inserts one.
LEMMA InsertMoves ==
    ASSUME TypeInv, NEW p \in Pools, Insert(p), refusing' = refusing,
           spent' \in [Pools -> SUBSET STRING],
           \A q \in Pools : spent[q] \subseteq spent'[q]
    PROVE  WorldMoves
<1>1. /\ leaves' = [leaves EXCEPT ![p] = @ + 1]
      /\ since' = [r \in Requests |->
                    IF InFlight(r) THEN since[r] \cup ({p} \cap Touches(body[r]))
                    ELSE since[r]]
  BY DEF Insert, Changed
<1>2. leaves' \in [Pools -> Nat] /\ \A q \in Pools : leaves[q] <= leaves'[q]
  BY <1>1 DEF TypeInv
<1>3. since' \in [Requests -> SUBSET (Payees \cup Pools)]
  BY <1>1 DEF TypeInv
<1>4. ASSUME NEW r \in Requests
      PROVE  /\ since[r] \subseteq since'[r]
             /\ since'[r] # since[r] => InFlight(r) /\ body[r].to \in Pools
             /\ InFlight(r) /\ body[r].to \in Pools /\ since'[r] = {} /\ Grows(body[r])
                   => leaves'[body[r].to] = leaves[body[r].to]
  <2>1. since[r] \subseteq since'[r]
    BY <1>1
  <2>2. since'[r] # since[r] => InFlight(r) /\ body[r].to \in Pools
    BY <1>1 DEF Touches
  <2>3. ASSUME InFlight(r), body[r].to \in Pools, since'[r] = {}, Grows(body[r])
        PROVE  leaves'[body[r].to] = leaves[body[r].to]
    <3>1. body[r].to \in Touches(body[r])
      BY <2>3 DEF Touches
    <3>2. body[r].to # p
      BY <1>1, <2>3, <3>1
    <3> QED
      BY <1>1, <2>3, <3>2 DEF TypeInv
  <2> QED
    BY <2>1, <2>2, <2>3
<1> QED
  BY <1>2, <1>3, <1>4 DEF WorldMoves, TypeInv

\* Pools and payees may also stand still.
LEMMA StillMoves ==
    ASSUME TypeInv, UNCHANGED <<leaves, refusing, since>>,
           spent' \in [Pools -> SUBSET STRING],
           \A q \in Pools : spent[q] \subseteq spent'[q]
    PROVE  WorldMoves
BY DEF WorldMoves, TypeInv

\* A withdrawal that succeeds spends its nullifier and may insert a leaf.
LEMMA EffectMoves ==
    ASSUME TypeInv, NEW b \in Body, TakesEffect(b), refusing' = refusing
    PROVE  WorldMoves
<1>1. spent' \in [Pools -> SUBSET STRING] /\ \A q \in Pools : spent[q] \subseteq spent'[q]
  <2>1. b.nf \in STRING
    BY DEF Body
  <2> QED
    BY <2>1 DEF TypeInv, TakesEffect
<1>2. CASE Grows(b)
  <2>1. b.to \in Pools /\ Insert(b.to)
    BY <1>2 DEF Grows, TakesEffect
  <2> QED
    BY <1>1, <2>1, InsertMoves
<1>3. CASE ~Grows(b)
  BY <1>1, <1>3, StillMoves DEF TakesEffect
<1> QED
  BY <1>2, <1>3

\* A payee that changes is recorded for every transaction that pays it.
LEMMA PayeeMoves ==
    ASSUME TypeInv, NEW a \in Payees, PayeeChanges(a)
    PROVE  WorldMoves
<1>1. /\ refusing' \in {refusing, refusing \cup ({a} \cap Contracts), refusing \ {a}}
      /\ since' = [r \in Requests |->
                    IF InFlight(r) THEN since[r] \cup ({a} \cap Touches(body[r]))
                    ELSE since[r]]
      /\ leaves' = leaves /\ spent' = spent
  BY DEF PayeeChanges, Changed
<1>2. refusing' \in SUBSET Contracts /\ since' \in [Requests -> SUBSET (Payees \cup Pools)]
  BY <1>1 DEF TypeInv
<1>3. ASSUME NEW r \in Requests
      PROVE  /\ since[r] \subseteq since'[r]
             /\ since'[r] # since[r] => InFlight(r) /\ body[r].to \in Pools
             /\ InFlight(r) /\ body[r].to \in Pools /\ since'[r] = {} =>
                   Paid(body[r]) \cap refusing' = Paid(body[r]) \cap refusing
  <2>1. since[r] \subseteq since'[r]
    BY <1>1
  <2>2. since'[r] # since[r] => InFlight(r) /\ body[r].to \in Pools
    BY <1>1 DEF Touches
  <2>3. ASSUME InFlight(r), body[r].to \in Pools, since'[r] = {}
        PROVE  Paid(body[r]) \cap refusing' = Paid(body[r]) \cap refusing
    <3>1. Paid(body[r]) \subseteq Touches(body[r])
      BY <2>3 DEF Touches
    <3>2. a \notin Paid(body[r])
      BY <1>1, <2>3, <3>1
    <3> QED
      BY <1>1, <3>2
  <2> QED
    BY <2>1, <2>2, <2>3
<1> QED
  BY <1>1, <1>2, <1>3 DEF WorldMoves, TypeInv

\* What overtook a transaction stays, however pools and payees move.
LEMMA OvertakenStays ==
    ASSUME TypeInv, WorldMoves, body' = body, NEW r \in Requests, Overtaken(r)
    PROVE  Overtaken(r)'
<1> DEFINE p == body[r].to
<1>1. p \in Pools /\ (body[r].nf \in spent[p] \/ leaves[p] - body[r].root > RootWindow
                       \/ since[r] # {})
  BY DEF Overtaken
<1>2. body[r].root \in Nat /\ leaves[p] \in Nat /\ leaves'[p] \in Nat /\ RootWindow \in Nat
  BY <1>1, RelayerWindow DEF TypeInv, Body, WorldMoves
<1>3. spent[p] \subseteq spent'[p] /\ leaves[p] <= leaves'[p] /\ since[r] \subseteq since'[r]
  BY <1>1 DEF WorldMoves
<1> HIDE DEF p
<1>4. leaves[p] - body[r].root > RootWindow => leaves'[p] - body[r].root > RootWindow
  BY <1>2, <1>3
<1>5. body[r].nf \in spent'[p] \/ leaves'[p] - body[r].root > RootWindow \/ since'[r] # {}
  BY <1>1, <1>3, <1>4
<1> QED
  BY <1>1, <1>5 DEF p, Overtaken

\* Whatever moves in pools and payees, the invariant stays, provided that what
\* is mined and reverts was overtaken.
LEMMA WorldStep ==
    ASSUME IInv, WorldMoves, UNCHANGED <<at, body>>, Sent' = Sent,
           mempool' \subseteq mempool, mined' \in [Requests -> {"no", "success", "reverted"}],
           \A r \in Reverted' : r \in Reverted \/ Overtaken(r)
    PROVE  IInv'
<1>1. TypeInv'
  BY DEF IInv, TypeInv, WorldMoves
<1>2. UnsentBefore'
  BY DEF IInv, UnsentBefore
<1>3. SinceSimulated'
  <2> SUFFICES ASSUME NEW r \in Requests, since'[r] # {}
               PROVE  at[r] \notin {"free", "read", "simulate"} /\ body[r].to \in Pools
    BY DEF SinceSimulated
  <2>1. CASE since[r] # {}
    BY <2>1 DEF IInv, SinceSimulated
  <2>2. CASE since'[r] # since[r]
    <3>1. InFlight(r) /\ body[r].to \in Pools
      BY <2>2 DEF WorldMoves
    <3> QED
      BY <3>1 DEF InFlight, Sent, IInv, UnsentBefore
  <2> QED
    BY <2>1, <2>2
<1>4. SoundSinceSimulated'
  <2> SUFFICES ASSUME NEW r \in Requests, at[r] = "send" \/ r \in Sent, body[r].to \in Pools
               PROVE  /\ body[r].proof
                      /\ PoolFloor(body[r].to, body[r].amount) <= body[r].fee
                      /\ body[r].fee <= body[r].amount
                      /\ body[r].root <= leaves'[body[r].to]
    BY DEF SoundSinceSimulated, PoolFloor, Share
  <2>1. /\ body[r].proof
        /\ PoolFloor(body[r].to, body[r].amount) <= body[r].fee
        /\ body[r].fee <= body[r].amount
        /\ body[r].root <= leaves[body[r].to]
    BY DEF IInv, SoundSinceSimulated
  <2>2. body[r].root \in Nat /\ leaves[body[r].to] \in Nat /\ leaves'[body[r].to] \in Nat
        /\ leaves[body[r].to] <= leaves'[body[r].to]
    BY DEF IInv, TypeInv, Body, WorldMoves
  <2>3. body[r].root <= leaves'[body[r].to]
    BY <2>1, <2>2
  <2> QED
    BY <2>1, <2>3
<1>5. SameAsSimulated'
  <2> SUFFICES ASSUME NEW r \in Requests, InFlight(r)', body[r].to \in Pools, since'[r] = {}
               PROVE  /\ Grows(body[r]) => leaves'[body[r].to] < TreeCapacity
                      /\ Paid(body[r]) \cap refusing' = {}
    BY DEF SameAsSimulated, Grows, Paid
  <2>1. InFlight(r)
    BY DEF InFlight
  <2>2. since[r] = {}
    BY DEF WorldMoves
  <2> QED
    BY <2>1, <2>2 DEF IInv, SameAsSimulated, WorldMoves
<1>6. RevertedOvertaken'
  <2> SUFFICES ASSUME NEW r \in Reverted' PROVE Overtaken(r)'
    BY DEF RevertedOvertaken
  <2>1. r \in Requests /\ Overtaken(r)
    BY DEF Reverted, IInv, RevertedOvertaken
  <2> QED
    BY <2>1, OvertakenStays DEF IInv
<1> QED
  BY <1>1, <1>2, <1>3, <1>4, <1>5, <1>6 DEF IInv

\* Mining settles a transaction; when it reverts, something overtook it.
LEMMA MineStep == ASSUME IInv, NEW r \in Requests, Mine(r) PROVE IInv'
<1>1. /\ r \in mempool /\ mempool' = mempool \ {r} /\ UNCHANGED <<at, body>>
      /\ refusing' = refusing
  BY DEF Mine
<1>2. \E how \in {"success", "reverted"} : mined' = [mined EXCEPT ![r] = how]
  BY DEF Mine
<1>3. Sent' = Sent
  BY <1>1, <1>2 DEF Sent, IInv, TypeInv
<1>4. WorldMoves
  <2>1. CASE UNCHANGED <<spent, leaves, since>>
    BY <1>1, <2>1, StillMoves DEF IInv, TypeInv
  <2>2. CASE TakesEffect(body[r])
    <3>1. body[r] \in Body
      BY DEF IInv, TypeInv
    <3> QED
      BY <1>1, <2>2, <3>1, EffectMoves DEF IInv
  <2> QED
    BY <2>1, <2>2 DEF Mine
<1>5. ASSUME NEW s \in Reverted', s \notin Reverted PROVE Overtaken(s)
  <2>1. s = r /\ (~WouldSucceed(body[r]) \/ MayRunOutOfGas(r))
    BY <1>5 DEF Mine, Reverted, IInv, TypeInv
  <2>2. r \in Sent /\ InFlight(r)
    BY <1>1 DEF Sent, InFlight
  <2>3. CASE MayRunOutOfGas(r)
    BY <2>1, <2>3 DEF MayRunOutOfGas, Overtaken, IInv, SinceSimulated
  <2>4. CASE ~WouldSucceed(body[r])
    <3> DEFINE b == body[r]
               p == body[r].to
    <3>1. p \in Pools
      BY <2>4 DEF WouldSucceed
    <3>2. b.proof /\ PoolFloor(p, b.amount) <= b.fee /\ b.fee <= b.amount /\ b.root <= leaves[p]
      BY <2>2, <3>1 DEF IInv, SoundSinceSimulated
    <3>3. \/ ~(leaves[p] - b.root <= RootWindow)
          \/ b.nf \in spent[p]
          \/ Grows(b) /\ ~(leaves[p] < TreeCapacity)
          \/ Paid(b) \cap refusing # {}
      BY <2>4, <3>1, <3>2 DEF WouldSucceed
    <3>4. leaves[p] \in Nat /\ b.root \in Nat /\ RootWindow \in Nat
      BY <3>1, RelayerWindow DEF IInv, TypeInv, Body
    <3>5. ~(leaves[p] - b.root <= RootWindow) => leaves[p] - b.root > RootWindow
      BY <3>4
    <3>6. (Grows(b) /\ ~(leaves[p] < TreeCapacity)) \/ Paid(b) \cap refusing # {}
            => since[r] # {}
      BY <2>2, <3>1 DEF IInv, SameAsSimulated
    <3> QED
      BY <2>1, <3>1, <3>3, <3>5, <3>6 DEF Overtaken
  <2> QED
    BY <2>1, <2>3, <2>4
<1>6. mined' \in [Requests -> {"no", "success", "reverted"}]
  BY <1>2 DEF IInv, TypeInv
<1> QED
  BY <1>1, <1>3, <1>4, <1>5, <1>6, WorldStep

\* What happens to pools and payees without the relayer.
LEMMA OthersStep ==
    ASSUME IInv,
           \/ \E p \in Pools : Deposit(p)
           \/ \E b \in Bodies : SpendElsewhere(b)
           \/ \E a \in Payees : PayeeChanges(a)
    PROVE  IInv'
<1>1. at' = at /\ body' = body /\ mempool' = mempool /\ mined' = mined
  BY DEF Deposit, SpendElsewhere, PayeeChanges
<1>2. Sent' = Sent /\ Reverted' = Reverted
  BY <1>1 DEF Sent, Reverted
<1>3. WorldMoves
  <2>1. CASE \E p \in Pools : Deposit(p)
    BY <2>1, InsertMoves DEF Deposit, IInv, TypeInv
  <2>2. CASE \E b \in Bodies : SpendElsewhere(b)
    <3>1. PICK b \in Bodies : TakesEffect(b) /\ refusing' = refusing
      BY <2>2 DEF SpendElsewhere
    <3>2. b \in Body
      BY RelayerAssumption
    <3> QED
      BY <3>1, <3>2, EffectMoves DEF IInv
  <2>3. CASE \E a \in Payees : PayeeChanges(a)
    BY <2>3, PayeeMoves DEF IInv
  <2> QED
    BY <2>1, <2>2, <2>3
<1>4. mined' \in [Requests -> {"no", "success", "reverted"}]
  BY <1>1 DEF IInv, TypeInv
<1> QED
  BY <1>1, <1>2, <1>3, <1>4, WorldStep

\* A posted body replaces that of a request nothing was sent for.
LEMMA PostStep ==
    ASSUME IInv, NEW r \in Requests, NEW b \in Bodies, PostRelay(r, b)
    PROVE  IInv'
<1>1. /\ at[r] = "free" /\ at' = [at EXCEPT ![r] = "read"]
      /\ body' = [body EXCEPT ![r] = b]
      /\ leaves' = leaves /\ spent' = spent /\ mempool' = mempool /\ mined' = mined
      /\ refusing' = refusing /\ since' = since
  BY DEF PostRelay, Advance, chain
<1>2. Sent' = Sent /\ Reverted' = Reverted /\ Reverted \subseteq Sent
  BY <1>1 DEF Sent, Reverted
<1>3. r \notin Sent /\ since[r] = {}
  BY <1>1 DEF IInv, UnsentBefore, SinceSimulated
<1>4. TypeInv'
  BY <1>1, RelayerAssumption DEF IInv, TypeInv, Steps
<1>5. \A s \in Requests : s # r => at'[s] = at[s] /\ body'[s] = body[s]
  BY <1>1 DEF IInv, TypeInv
<1>6. at'[r] = "read"
  BY <1>1 DEF IInv, TypeInv
<1>7. UnsentBefore' /\ SinceSimulated' /\ SoundSinceSimulated'
  BY <1>1, <1>2, <1>3, <1>5, <1>6 DEF IInv, UnsentBefore, SinceSimulated,
     SoundSinceSimulated, PoolFloor, Share
<1>8. SameAsSimulated'
  <2>1. \A s \in Requests : InFlight(s)' => s # r /\ InFlight(s)
    BY <1>1, <1>3, <1>5, <1>6 DEF InFlight, Sent
  <2> QED
    BY <1>1, <1>5, <2>1 DEF IInv, SameAsSimulated, Grows, Paid
<1>9. RevertedOvertaken'
  <2>1. \A s \in Reverted : s \in Requests /\ s # r
    BY <1>2, <1>3 DEF Reverted
  <2> QED
    BY <1>1, <1>2, <1>5, <2>1 DEF IInv, RevertedOvertaken, Overtaken
<1> QED
  BY <1>4, <1>7, <1>8, <1>9 DEF IInv

\* Every step of relayer, clients and chain keeps the invariant.
LEMMA NextIInv == IInv /\ [Next]_vars => IInv'
<1> SUFFICES ASSUME IInv, [Next]_vars PROVE IInv'
  OBVIOUS
<1>1. ASSUME NEW r \in Requests, Handler(r) PROVE IInv'
  <2>1. CASE Validate(r)
    <3>1. /\ at[r] = "read" /\ UNCHANGED <<body, chain, since>>
          /\ Advance(r, "refused") \/ Advance(r, "simulate")
      BY <2>1 DEF Validate
    <3> QED
      BY <3>1, QuietStep DEF Steps
  <2>2. CASE ReadFails(r)
    BY <2>2, QuietStep DEF ReadFails, Steps
  <2>3. CASE Simulate(r)
    <3>1. /\ at[r] = "simulate" /\ UNCHANGED <<body, chain, since>>
          /\ Advance(r, "refused") \/ (WouldSucceed(body[r]) /\ Advance(r, "send"))
      BY <2>3 DEF Simulate
    <3> QED
      BY <3>1, QuietStep DEF Steps
  <2>4. CASE Send(r) \/ SendThrows(r)
    BY <2>4, SendStep
  <2> QED
    BY <1>1, <2>1, <2>2, <2>3, <2>4 DEF Handler
<1>2. CASE UNCHANGED vars
  <2>1. /\ UNCHANGED <<at, body, mempool, mined>> /\ UNCHANGED <<leaves, refusing, since>>
        /\ spent' = spent
    BY <1>2 DEF vars
  <2>2. Sent' = Sent /\ Reverted' = Reverted
    BY <2>1 DEF Sent, Reverted
  <2>3. WorldMoves
    BY <2>1, StillMoves DEF IInv, TypeInv
  <2> QED
    BY <2>1, <2>2, <2>3, WorldStep DEF IInv, TypeInv
<1> QED
  BY <1>1, <1>2, MineStep, PostStep, OthersStep DEF Next

\* The invariant holds throughout.
THEOREM Invariance == Spec => []IInv
<1> QED
  BY InitIInv, NextIInv, PTL DEF Spec

\* Whatever the bodies, rates and payees and however many requests are in
\* flight, a relayed withdrawal that reverts was overtaken after its simulation:
\* by its nullifier's spending, by its root's eviction, or by a change of its
\* payees or of the tree it inserts into (server.mjs:273-283).
THEOREM LosesGasOnlyWhenOvertaken == Spec => []RevertsOnlyWhenOvertaken
<1>1. IInv => RevertsOnlyWhenOvertaken
  <2> SUFFICES ASSUME IInv, NEW r \in Reverted
               PROVE  /\ body[r].proof
                      /\ PoolFloor(body[r].to, body[r].amount) <= body[r].fee
                      /\ body[r].fee <= body[r].amount
                      /\ \/ body[r].nf \in spent[body[r].to]
                         \/ leaves[body[r].to] - body[r].root > RootWindow
                         \/ since[r] # {}
    BY DEF RevertsOnlyWhenOvertaken
  <2>1. r \in Requests /\ r \in Sent
    BY DEF Reverted, Sent
  <2>2. Overtaken(r)
    BY DEF IInv, RevertedOvertaken
  <2> QED
    BY <2>1, <2>2 DEF IInv, Overtaken, SoundSinceSimulated
<1> QED
  BY <1>1, Invariance, PTL

\* The floor a client counts is a whole number.
LEMMA ClientFloorIsWhole == ASSUME NEW amount \in Nat PROVE ClientFloor(amount) \in Int
<1>1. amount * ClientPpm \in Int
  BY RelayerAssumption
<1>2. Denominator \in Nat /\ Denominator > 0
  BY RelayerAssumption
<1> DEFINE product == amount * ClientPpm
<1>3. product \in Int
  BY <1>1
<1> HIDE DEF product
<1>4. product \div Denominator \in Int
  BY <1>2, <1>3
<1> QED
  BY <1>4 DEF ClientFloor, Share, product

\* As long as the rates written into sdk-core and into server.mjs are the same,
\* client and relayer count the tip alike: a fee a client builds for Silent
\* send, with any extra, and one it finds good enough to reuse a proof, is
\* above the relayer's floor for every amount.
THEOREM TipsAgree == ClientPpm = RelayerPpm => (Spec => []ClientTipIsTaken)
<1> SUFFICES ASSUME ClientPpm = RelayerPpm PROVE Spec => []ClientTipIsTaken
  OBVIOUS
<1>1. IInv => ClientTipIsTaken
  <2> SUFFICES ASSUME IInv, NEW r \in Requests
               PROVE  /\ HasSilentRelayerTip(body[r].fee, body[r].amount)
                           => SilentFeeCoversRelayer(body[r])
                      /\ \A t \in Extras :
                           SilentFeeCoversRelayer([body[r] EXCEPT !.fee = SilentFee(body[r].amount, t)])
    BY DEF ClientTipIsTaken
  <2>1. PICK b \in Body : b = body[r]
    BY DEF IInv, TypeInv
  <2>2. b.amount \in Nat /\ ClientFloor(b.amount) = RelayerFloor(b.amount)
    BY DEF Body, ClientFloor, RelayerFloor
  <2>3. HasSilentRelayerTip(b.fee, b.amount) => SilentFeeCoversRelayer(b)
    BY <2>2 DEF HasSilentRelayerTip, SilentFeeCoversRelayer
  <2>4. ASSUME NEW t \in Extras
        PROVE  SilentFeeCoversRelayer([b EXCEPT !.fee = SilentFee(b.amount, t)])
    <3>1. t \in Nat /\ t > 0
      BY RelayerAssumption
    <3>2. ClientFloor(b.amount) \in Int
      BY <2>2, ClientFloorIsWhole
    <3>3. SilentFee(b.amount, t) > RelayerFloor(b.amount)
      BY <2>2, <3>1, <3>2 DEF SilentFee
    <3>4. /\ [b EXCEPT !.fee = SilentFee(b.amount, t)].fee = SilentFee(b.amount, t)
          /\ [b EXCEPT !.fee = SilentFee(b.amount, t)].amount = b.amount
      BY DEF Body
    <3> QED
      BY <3>3, <3>4 DEF SilentFeeCoversRelayer
  <2> QED
    BY <2>1, <2>3, <2>4
<1> QED
  BY <1>1, Invariance, PTL
=============================================================================
