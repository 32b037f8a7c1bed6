-------------------------- MODULE WebWallet_proofs --------------------------
(***************************************************************************)
(* What holds of every web wallet, whatever notes, pools, destinations and *)
(* ways of use the constants allow: a recorded leaf is where the note      *)
(* lies, every commitment money went to is covered by a shown code, and a  *)
(* merge spends two different notes; and what a silent withdrawal pays.    *)
(***************************************************************************)
EXTENDS WebWallet, NumberTheorems, FiniteSetTheorems, TLAPS

NoteRecs == [c : Notes, leaf : Int, pool : Pools \cup {NoPool}, spent : BOOLEAN]

Txs == [kind : {"deposit", "withdraw"}, pool : Pools, root : Int,
        ins : SUBSET (Notes \X Int), out : Seq(Notes), to : Dests \cup {NoPool},
        status : {"pending"}, astray : BOOLEAN]
       \cup [status : {"mined", "failed"}]

TypeOK ==
    /\ use \in Uses /\ away \in BOOLEAN
    /\ leaves \in [Pools -> Seq(Notes)]
    /\ codes \subseteq Notes
    /\ txs \in Seq(Txs)
    /\ vault \in Seq(NoteRecs) /\ notes \in Seq(NoteRecs)
    /\ spend \in Seq(Nat) /\ Len(spend) <= 2
    /\ pool \in Pools /\ mode \in Modes /\ form \in Forms

\* the leaf recorded in n is where n lies in the pools' leaves L
Lies(n, L) ==
    n.leaf # NoLeaf /\ n.pool # NoPool =>
        n.leaf + 1 \in DOMAIN L[n.pool] /\ L[n.pool][n.leaf + 1] = n.c

\* notes that were shown as codes C, each recorded where it lies
Sound(ns, L, C) == \A k \in DOMAIN ns : ns[k].c \in C /\ Lies(ns[k], L)

PrefixOf(ls, full) ==
    /\ ls \in Seq(Notes) /\ Len(ls) <= Len(full)
    /\ \A i \in 1..Len(ls) : ls[i] = full[i]

Distinct(ins) == Cardinality({nf[1] : nf \in ins}) = 2

ProofOK(b) ==
    b.mode # "none" =>
        /\ b.root \in Int /\ b.ins \in SUBSET (Notes \X Int)
        /\ b.out \in Seq(Notes) /\ b.form \in Forms
        /\ b.mode = "merge2" => Distinct(b.ins)

\* two different notes that are bound in the pool, or in none
PairOK(ns, idx, p) ==
    /\ idx \in Seq(Nat) /\ Len(idx) = 2
    /\ idx[1] \in DOMAIN ns /\ idx[2] \in DOMAIN ns
    /\ ns[idx[1]].c # ns[idx[2]].c
    /\ ns[idx[1]].pool \in {p, NoPool} /\ ns[idx[2]].pool \in {p, NoPool}

JobAt ==
    /\ job.op \in {"idle", "create", "import", "sync", "deposit", "prove", "silent", "wallet"}
    /\ job.op = "idle" => job = Idle
    /\ {"op", "at"} \subseteq DOMAIN job

Creating ==
    job.op = "create" => job.at = "admit" /\ job.c \in Notes /\ job.pool \in Pools

\* the note that is deposited is the one that was clicked, and it is in no other pool
Depositing ==
    job.op = "deposit" =>
        /\ job.at \in {"confirm", "receipt", "rebind"} /\ "tx" \in DOMAIN job
        /\ job.pool \in Pools /\ job.c \in codes
        /\ job.idx \in DOMAIN notes /\ notes[job.idx].c = job.c
        /\ notes[job.idx].leaf = NoLeaf \/ notes[job.idx].pool \in {job.pool, NoPool}

Scans == {"leaves", "nullifiers", "prove"}
Sends == {"save", "root", "send"}

\* a scan works on a copy of the notes; a withdrawal still holds it when it proves
Scanning ==
    job.op \in {"import", "sync", "prove", "silent"} /\ job.at \notin Sends \cup {"receipt", "rebind"} =>
        /\ job.at \in Scans /\ {"ls", "notes"} \subseteq DOMAIN job
        /\ job.pool \in Pools /\ job.notes \in Seq(NoteRecs) /\ Sound(job.notes, leaves, codes)
        /\ job.at = "nullifiers" => PrefixOf(job.ls, leaves[job.pool])
        /\ job.at = "prove" => job.op \in {"prove", "silent"} /\ notes = job.notes

Proving ==
    job.op \in {"prove", "silent"} /\ job.at \in Scans =>
        /\ {"bundle"} \subseteq DOMAIN job
        /\ job.mode \in Modes /\ job.form \in Forms /\ ProofOK(job.bundle)
        /\ job.mode = "merge2" => PairOK(job.notes, job.idx, job.pool)

\* what is sent is what was proved; its change has been shown before it is sent
Sending ==
    /\ job.op \in {"import", "sync"} => job.at \in {"leaves", "nullifiers"}
    /\ job.op = "prove" => job.at \in Scans
    /\ job.op = "silent" => job.at \in Scans \cup Sends \cup {"receipt", "rebind"}
    /\ job.op = "wallet" => job.at \in Sends \cup {"receipt", "rebind"}
    /\ job.op \in {"silent", "wallet"} /\ job.at \in Sends =>
        /\ job.pool \in Pools /\ job.mode \in Modes /\ job.form \in Forms
        /\ job.bundle.mode = job.mode /\ ProofOK(job.bundle)
        /\ job.op = "silent" => job.bundle.form.dest = job.form.dest
        /\ job.at # "save" => Range(job.bundle.out) \subseteq codes
    /\ job.op \in {"silent", "wallet"} /\ job.at \in {"receipt", "rebind"} =>
        /\ job.pool \in Pools /\ job.out \in Seq(Notes) /\ Range(job.out) \subseteq codes

IInv ==
    /\ TypeOK
    /\ Sound(notes, leaves, codes) /\ \A k \in DOMAIN vault : vault[k].c \in codes /\ vault[k].pool = NoPool
    /\ CoveredByCode /\ ProofOK(bundle)
    /\ JobAt /\ Creating /\ Depositing /\ Scanning /\ Proving /\ Sending

----------------------------------------------------------------------------
(* Operators. *)

(* Min finds the first of some positions. *)
LEMMA MinIsLeast ==
  ASSUME NEW S, S \subseteq Nat, S # {}
  PROVE  Min(S) \in S
<1>1. \E x \in S : \A y \in S : x <= y
  BY LeastNatural
<1>. QED
  BY <1>1 DEF Min

(* A leaf index that was looked up is where the commitment is in what was read. *)
LEMMA LeafFound ==
  ASSUME NEW S, NEW ls \in Seq(S), NEW c
  PROVE  LET i == LeafOf(c, ls)
         IN  /\ i \in Int
             /\ i # NoLeaf => i \in Nat /\ i + 1 \in 1..Len(ls) /\ ls[i + 1] = c
<1> DEFINE at == {i \in 1..Len(ls) : ls[i] = c}
<1>1. CASE at = {}
  BY <1>1 DEF LeafOf, NoLeaf
<1>2. CASE at # {}
  <2>1. Min(at) \in at
    BY <1>2, MinIsLeast
  <2>2. LeafOf(c, ls) = Min(at) - 1
    BY <1>2 DEF LeafOf
  <2>. QED
    BY <2>1, <2>2
<1>. QED
  BY <1>1, <1>2

(* What an endpoint that lags behind shows is a prefix of the pool's leaves. *)
LEMMA ViewIsPrefix ==
  ASSUME TypeOK, NEW p \in Pools, NEW ls \in Views(p)
  PROVE  PrefixOf(ls, leaves[p])
<1>1. leaves[p] \in Seq(Notes)
  BY DEF TypeOK
<1>2. PICK k \in 0..Len(leaves[p]) : ls = SubSeq(leaves[p], 1, k)
  BY DEF Views
<1>. QED
  BY <1>1, <1>2 DEF PrefixOf

(* Binding a note to what was read of a pool records it where it lies. *)
LEMMA BindSound ==
  ASSUME TypeOK, NEW p \in Pools, NEW ls, PrefixOf(ls, leaves[p]), NEW n \in NoteRecs, Lies(n, leaves)
  PROVE  /\ Bind(n, ls, p) \in NoteRecs /\ Lies(Bind(n, ls, p), leaves)
         /\ Bind(n, ls, p).c = n.c /\ Bind(n, ls, p).spent = n.spent
         /\ Bind(n, ls, p).pool \in {n.pool, p}
         /\ n.leaf = NoLeaf \/ n.pool \in {p, NoPool} =>
              Bind(n, ls, p).leaf = NoLeaf \/ Bind(n, ls, p).pool = p
<1> DEFINE i == LeafOf(n.c, ls)
<1>1. /\ i \in Int
      /\ i # NoLeaf => i \in Nat /\ i + 1 \in 1..Len(ls) /\ ls[i + 1] = n.c
  BY LeafFound DEF PrefixOf
<1>2. leaves[p] \in Seq(Notes) /\ Len(ls) \in Nat
  BY DEF TypeOK, PrefixOf
<1>3. i # NoLeaf => i + 1 \in DOMAIN leaves[p] /\ leaves[p][i + 1] = n.c
  BY <1>1, <1>2 DEF PrefixOf
<1>4. Bind(n, ls, p) = IF i # NoLeaf THEN [n EXCEPT !.leaf = i, !.pool = p]
                       ELSE IF n.pool \in {p, NoPool} THEN [n EXCEPT !.leaf = NoLeaf]
                       ELSE n
  BY DEF Bind
<1> HIDE DEF i
<1>. QED
  BY <1>1, <1>3, <1>4 DEF NoteRecs, Lies, NoLeaf

(* Marking what the pool says is spent changes nothing else of a note. *)
LEMMA BindAllSound ==
  ASSUME TypeOK, NEW p \in Pools, NEW ls, PrefixOf(ls, leaves[p]), NEW ns \in Seq(NoteRecs), Sound(ns, leaves, codes)
  PROVE  /\ BindAll(ns, ls, p) \in Seq(NoteRecs) /\ Sound(BindAll(ns, ls, p), leaves, codes)
         /\ DOMAIN BindAll(ns, ls, p) = DOMAIN ns
         /\ \A k \in DOMAIN ns :
              /\ BindAll(ns, ls, p)[k].c = ns[k].c
              /\ ns[k].leaf = NoLeaf \/ ns[k].pool \in {p, NoPool} =>
                   BindAll(ns, ls, p)[k].leaf = NoLeaf \/ BindAll(ns, ls, p)[k].pool = p
<1>1. \A k \in DOMAIN ns : ns[k] \in NoteRecs /\ Lies(ns[k], leaves)
  BY DEF Sound
<1>. QED
  BY <1>1, BindSound DEF BindAll, Sound

(* A scan that read a prefix of the leaves binds notes to where they lie. *)
LEMMA ScannedSound ==
  ASSUME TypeOK, NEW p \in Pools, NEW ls, PrefixOf(ls, leaves[p]), NEW ns \in Seq(NoteRecs), Sound(ns, leaves, codes),
         NEW nfs
  PROVE  /\ Scanned(ns, ls, p, nfs) \in Seq(NoteRecs) /\ Sound(Scanned(ns, ls, p, nfs), leaves, codes)
         /\ DOMAIN Scanned(ns, ls, p, nfs) = DOMAIN ns
         /\ \A k \in DOMAIN ns :
              /\ Scanned(ns, ls, p, nfs)[k].c = ns[k].c
              /\ Scanned(ns, ls, p, nfs)[k].pool \in {ns[k].pool, p}
<1> DEFINE r == Scanned(ns, ls, p, nfs)
<1>1. \A k \in DOMAIN ns : ns[k] \in NoteRecs /\ Lies(ns[k], leaves) /\ ns[k].c \in codes
  BY DEF Sound
<1>2. DOMAIN r = DOMAIN ns
  BY DEF Scanned
<1>3. ASSUME NEW k \in DOMAIN ns
      PROVE  /\ r[k] \in NoteRecs /\ Lies(r[k], leaves) /\ r[k].c = ns[k].c
             /\ r[k].pool \in {ns[k].pool, p}
  <2> DEFINE b == Bind(ns[k], ls, p)
  <2>1. /\ b \in NoteRecs /\ Lies(b, leaves) /\ b.c = ns[k].c
        /\ b.pool \in {ns[k].pool, p}
    BY <1>1, BindSound
  <2>2. r[k] = IF b.spent \/ b.leaf = NoLeaf THEN b
               ELSE [b EXCEPT !.spent = <<b.c, b.leaf>> \in nfs]
    BY DEF Scanned
  <2> DEFINE v == <<b.c, b.leaf>> \in nfs
  <2>3. v \in BOOLEAN
    OBVIOUS
  <2>4. r[k] = b \/ r[k] = [b EXCEPT !.spent = v]
    BY <2>2
  <2> HIDE DEF b, r, v
  <2>5. ASSUME r[k] = [b EXCEPT !.spent = v]
        PROVE  r[k] \in NoteRecs /\ r[k].c = b.c /\ r[k].leaf = b.leaf /\ r[k].pool = b.pool
    BY <2>1, <2>3, <2>5 DEF NoteRecs
  <2>. QED
    BY <2>1, <2>4, <2>5 DEF Lies
<1>4. ns \in Seq(NoteRecs) /\ DOMAIN ns = 1..Len(ns) /\ Len(ns) \in Nat
  OBVIOUS
<1>5. r \in Seq(NoteRecs)
  <2> DEFINE g(k) == LET n == Bind(ns[k], ls, p)
                     IN  IF n.spent \/ n.leaf = NoLeaf THEN n
                         ELSE [n EXCEPT !.spent = <<n.c, n.leaf>> \in nfs]
  <2>1. r = [k \in DOMAIN ns |-> g(k)]
    BY DEF Scanned
  <2> HIDE DEF r, g
  <2>2. \A k \in DOMAIN ns : g(k) \in NoteRecs
    BY <2>1, <1>3
  <2>. QED
    BY <2>1, <2>2, <1>4
<1>. HIDE DEF r
<1>6. Sound(r, leaves, codes)
  BY <1>1, <1>2, <1>3 DEF Sound
<1>. QED
  BY <1>2, <1>3, <1>5, <1>6 DEF r

(* A note that is added keeps a session sound, and so do codes that are shown *)
(* and leaves that are added to a pool.                                       *)
LEMMA SoundAppend ==
  ASSUME NEW ns \in Seq(NoteRecs), NEW L, NEW C, Sound(ns, L, C),
         NEW r \in NoteRecs, r.c \in C, Lies(r, L)
  PROVE  Append(ns, r) \in Seq(NoteRecs) /\ Sound(Append(ns, r), L, C)
<1>1. Append(ns, r) \in Seq(NoteRecs)
  OBVIOUS
<1>2. \A k \in DOMAIN Append(ns, r) :
         Append(ns, r)[k] = r \/ (k \in DOMAIN ns /\ Append(ns, r)[k] = ns[k])
  OBVIOUS
<1>. QED
  BY <1>1, <1>2 DEF Sound

(* More codes shown do no harm. *)
LEMMA SoundGrows ==
  ASSUME NEW ns, NEW L, NEW C, NEW D, Sound(ns, L, C), C \subseteq D
  PROVE  Sound(ns, L, D)
BY DEF Sound

(* Leaves are only added, so bound notes stay where they lie. *)
LEMMA SoundAsLeavesGrow ==
  ASSUME NEW S, NEW P, NEW L \in [P -> Seq(S)], NEW M \in [P -> Seq(S)],
         \A p \in P : /\ Len(L[p]) <= Len(M[p])
                      /\ \A i \in 1..Len(L[p]) : M[p][i] = L[p][i],
         NEW ns, NEW C, \A k \in DOMAIN ns : ns[k].pool \in P \cup {NoPool},
         Sound(ns, L, C)
  PROVE  Sound(ns, M, C)
<1>1. \A p \in P : DOMAIN L[p] = 1..Len(L[p]) /\ DOMAIN M[p] = 1..Len(M[p])
                  /\ Len(L[p]) \in Nat /\ Len(M[p]) \in Nat
  OBVIOUS
<1>2. \A p \in P : \A j \in DOMAIN L[p] : j \in DOMAIN M[p] /\ M[p][j] = L[p][j]
  BY <1>1
<1>. QED
  BY <1>2 DEF Sound, Lies

(* A selection that is repaired stays a selection. *)
LEMMA KeptType ==
  ASSUME NEW s \in Seq(Nat), Len(s) <= 2, NEW S
  PROVE  Kept(s, S) \in Seq(Nat) /\ Len(Kept(s, S)) <= 2
<1>1. Range(s) \subseteq Nat
  BY DEF Range
<1>2. CASE Range(s) \subseteq S
  BY <1>2 DEF Kept
<1>3. CASE ~(Range(s) \subseteq S) /\ Range(s) \cap S = {}
  BY <1>3 DEF Kept
<1>4. CASE ~(Range(s) \subseteq S) /\ Range(s) \cap S # {}
  <2>1. (CHOOSE k \in Range(s) \cap S : TRUE) \in Nat
    BY <1>1, <1>4
  <2>. QED
    BY <1>4, <2>1 DEF Kept
<1>. QED
  BY <1>2, <1>3, <1>4

(* The way a tab is used does not change, nor do the sets it is made of. *)
LEMMA UseFixed ==
  ASSUME use' = use
  PROVE  /\ Notes' = Notes /\ Pools' = Pools /\ Modes' = Modes /\ Forms' = Forms
         /\ NoteRecs' = NoteRecs /\ Txs' = Txs
BY DEF Notes, Pools, Modes, Forms, NoteRecs, Txs, Dests, Amounts

(* Selecting notes, typing, switching and changing networks leave the notes, *)
(* the proofs and the job as they are. *)
LEMMA QuietStep ==
  ASSUME IInv, use' = use, UNCHANGED <<chain, codes, vault, notes, job>>,
         away' \in BOOLEAN, spend' \in Seq(Nat), Len(spend') <= 2,
         pool' \in Pools, mode' \in Modes, form' \in Forms,
         bundle' \in {bundle, NoProof}
  PROVE  IInv'
<1>1. TypeOK'
  BY UseFixed DEF IInv, TypeOK, chain
<1>2. ProofOK(bundle)'
  BY UseFixed DEF IInv, ProofOK, NoProof
<1>3. /\ Sound(notes, leaves, codes)'
      /\ (\A k \in DOMAIN vault : vault[k].c \in codes /\ vault[k].pool = NoPool)'
      /\ CoveredByCode'
  BY UseFixed DEF IInv, CoveredByCode, chain
<1>4. JobAt' /\ Creating' /\ Depositing'
  BY UseFixed DEF IInv, JobAt, Creating, Depositing
<1>5. Scanning'
  BY UseFixed DEF IInv, Scanning, chain, PrefixOf
<1>6. Proving' /\ Sending'
  BY UseFixed DEF IInv, Proving, Sending, ProofOK, PairOK
<1>. QED
  BY <1>1, <1>2, <1>3, <1>4, <1>5, <1>6 DEF IInv

(* What the user selects and types. *)
LEMMA SelectionStep ==
  ASSUME IInv,
         \/ \E k \in DOMAIN notes : SelectNote(k) \/ ToggleSpend(k)
         \/ \E f \in Forms : TypeForm(f)
         \/ \E m \in Modes : SwitchMode(m)
         \/ \E p \in Pools : SwitchPool(p)
         \/ AutoSelectPair \/ ChangeNetwork
  PROVE  IInv'
<1> USE DEF kept, env, chain, ui
<1>0. TypeOK /\ DOMAIN notes \subseteq Nat
  BY DEF IInv, TypeOK
<1>1. ASSUME NEW k \in DOMAIN notes, SelectNote(k) PROVE IInv'
  BY <1>0, <1>1, QuietStep DEF TypeOK, SelectNote
<1>2. ASSUME NEW k \in DOMAIN notes, ToggleSpend(k) PROVE IInv'
  <2> DEFINE S == Range(spend) \ {k}
  <2>1. Kept(spend, S) \in Seq(Nat) /\ Len(Kept(spend, S)) <= 2
    BY <1>0, KeptType DEF TypeOK
  <2>2. /\ spend \in Seq(Nat) /\ Len(spend) <= 2
        /\ Len(spend) < 2 => Append(spend, k) \in Seq(Nat) /\ Len(Append(spend, k)) <= 2
    BY <1>0 DEF TypeOK
  <2>3. \/ spend' \in {Kept(spend, S), spend}
        \/ Len(spend) < 2 /\ spend' = Append(spend, k)
    BY <1>2 DEF ToggleSpend
  <2>4. spend' \in Seq(Nat) /\ Len(spend') <= 2
    BY <2>1, <2>2, <2>3
  <2>. QED
    BY <1>0, <1>2, <2>4, QuietStep DEF TypeOK, ToggleSpend
<1>3. ASSUME NEW f \in Forms, TypeForm(f) PROVE IInv'
  <2>1. form' \in Forms
    BY <1>3, UseFixed DEF TypeForm
  <2>. QED
    BY <1>0, <1>3, <2>1, QuietStep DEF TypeOK, TypeForm
<1>4. ASSUME NEW m \in Modes, SwitchMode(m) PROVE IInv'
  BY <1>0, <1>4, QuietStep DEF TypeOK, SwitchMode
<1>5. ASSUME NEW p \in Pools, SwitchPool(p) PROVE IInv'
  BY <1>0, <1>5, QuietStep DEF TypeOK, SwitchPool
<1>6. ASSUME AutoSelectPair PROVE IInv'
  <2>1. PICK i \in BoundUnspent, j \in BoundUnspent : spend' = <<i, j>>
    BY <1>6 DEF AutoSelectPair
  <2>2. i \in Nat /\ j \in Nat
    BY <1>0 DEF BoundUnspent, Unspent
  <2>3. spend' \in Seq(Nat) /\ Len(spend') <= 2
    BY <2>1, <2>2
  <2>. QED
    BY <1>0, <1>6, <2>3, QuietStep DEF TypeOK, AutoSelectPair
<1>7. ASSUME ChangeNetwork PROVE IInv'
  BY <1>0, <1>7, QuietStep DEF TypeOK, ChangeNetwork
<1>. QED
  BY <1>1, <1>2, <1>3, <1>4, <1>5, <1>6, <1>7

(* A step that only moves the job on. *)
LEMMA JobOnlyStep ==
  ASSUME IInv, UNCHANGED <<chain, kept, notes, ui>>, ProofOK(bundle'),
         JobAt', Creating', Depositing', Scanning', Proving', Sending'
  PROVE  IInv'
<1> USE DEF kept, env, chain, ui
<1>1. TypeOK'
  BY UseFixed DEF IInv, TypeOK
<1>2. ProofOK(bundle)'
  BY UseFixed DEF ProofOK
<1>3. /\ Sound(notes, leaves, codes)'
      /\ (\A k \in DOMAIN vault : vault[k].c \in codes /\ vault[k].pool = NoPool)'
      /\ CoveredByCode'
  BY UseFixed DEF IInv, CoveredByCode
<1>. QED
  BY <1>1, <1>2, <1>3 DEF IInv

(* A job that ended asks for nothing. *)
LEMMA IdleJob ==
  ASSUME job' = Idle
  PROVE  JobAt' /\ Creating' /\ Depositing' /\ Scanning' /\ Proving' /\ Sending'
BY DEF Idle, JobAt, Creating, Depositing, Scanning, Proving, Sending

(* A click that starts a job. *)
LEMMA BeginStep ==
  ASSUME IInv,
         \/ \E c \in Notes : BeginCreate(c) \/ BeginImport(c)
         \/ \E k \in DOMAIN notes : BeginDeposit(k)
         \/ BeginSync \/ BeginWithdraw("prove") \/ BeginWithdraw("silent")
         \/ BeginWalletSend
  PROVE  IInv'
<1> USE DEF kept, env, chain, ui
<1>0. /\ TypeOK /\ DOMAIN notes \subseteq Nat /\ ProofOK(bundle)
      /\ Sound(notes, leaves, codes)
  BY DEF IInv, TypeOK
<1>1. ASSUME NEW c \in Notes, BeginCreate(c) PROVE IInv'
  <2>1. JobAt' /\ Creating' /\ Depositing' /\ Scanning' /\ Proving' /\ Sending'
    BY <1>0, <1>1, UseFixed DEF BeginCreate, Start, TypeOK,
       JobAt, Creating, Depositing, Scanning, Proving, Sending
  <2>. QED
    BY <1>0, <1>1, <2>1, JobOnlyStep DEF BeginCreate
<1>2. ASSUME NEW c \in Notes, BeginImport(c) PROVE IInv'
  <2> DEFINE r == FreshRecord(c, NoPool)
  <2> DEFINE ns == IF \E k \in DOMAIN notes : notes[k].c = c THEN notes ELSE Append(notes, r)
  <2>1. r \in NoteRecs /\ r.c = c /\ r.leaf = NoLeaf
    BY DEF FreshRecord, NoteRecs, NoLeaf
  <2>2. c \in codes
    BY <1>2 DEF BeginImport
  <2> HIDE DEF r
  <2>a. Lies(r, leaves)
    BY <2>1 DEF Lies
  <2>b. Append(notes, r) \in Seq(NoteRecs) /\ Sound(Append(notes, r), leaves, codes)
    BY <1>0, <2>1, <2>2, <2>a, SoundAppend DEF TypeOK
  <2>3. ns \in Seq(NoteRecs) /\ Sound(ns, leaves, codes)
    BY <1>0, <2>b DEF TypeOK
  <2>4. /\ job'.op = "import" /\ job'.at = "leaves" /\ job'.pool = pool /\ job'.notes = ns
        /\ DOMAIN job' = {"op", "at", "pool", "c", "ls", "end", "notes"}
    BY <1>2 DEF BeginImport, Start, r
  <2> HIDE DEF ns
  <2>5. JobAt' /\ Creating' /\ Depositing' /\ Scanning' /\ Proving' /\ Sending'
    BY <1>0, <1>2, <2>3, <2>4, UseFixed DEF BeginImport, TypeOK,
       JobAt, Creating, Depositing, Scanning, Proving, Sending, Scans, Sends
  <2>. QED
    BY <1>0, <1>2, <2>5, JobOnlyStep DEF BeginImport
<1>3. ASSUME NEW k \in DOMAIN notes, BeginDeposit(k) PROVE IInv'
  <2>1. JobAt' /\ Creating' /\ Depositing' /\ Scanning' /\ Proving' /\ Sending'
    BY <1>0, <1>3, UseFixed DEF BeginDeposit, Start, MayDeposit, TypeOK, Sound,
       JobAt, Creating, Depositing, Scanning, Proving, Sending
  <2>. QED
    BY <1>0, <1>3, <2>1, JobOnlyStep DEF BeginDeposit
<1>4. ASSUME BeginSync PROVE IInv'
  <2>1. JobAt' /\ Creating' /\ Depositing' /\ Scanning' /\ Proving' /\ Sending'
    BY <1>0, <1>4, UseFixed DEF BeginSync, Start, TypeOK,
       JobAt, Creating, Depositing, Scanning, Proving, Sending, Scans, Sends
  <2>. QED
    BY <1>0, <1>4, <2>1, JobOnlyStep DEF BeginSync
<1>5. ASSUME NEW op \in {"prove", "silent"}, BeginWithdraw(op) PROVE IInv'
  <2>1. /\ job'.op = op /\ job'.at = "leaves" /\ job'.pool = pool /\ job'.notes = notes
        /\ job'.mode = mode /\ job'.form = form /\ job'.bundle = bundle /\ job'.idx = Inputs
        /\ DOMAIN job' = {"op", "at", "pool", "notes", "ls", "mode", "idx", "form", "bundle"}
    BY <1>5 DEF BeginWithdraw, Start
  <2>2. ASSUME mode = "merge2" PROVE PairOK(notes, Inputs, pool)
    <3>1. Inputs = spend /\ TwoSpendable
      BY <1>5, <2>2 DEF BeginWithdraw, Inputs
    <3>2. /\ Len(spend) = 2 /\ spend[1] \in BoundUnspent /\ spend[2] \in BoundUnspent
          /\ notes[spend[1]].c # notes[spend[2]].c
      BY <1>0, <3>1 DEF TwoSpendable, HasTwoSpendInputs, Range, TypeOK
    <3>. QED
      BY <1>0, <3>1, <3>2 DEF PairOK, BoundUnspent, Unspent, BoundTo, TypeOK
  <2>3. UNCHANGED <<chain, kept, notes, ui, bundle>>
    BY <1>5 DEF BeginWithdraw
  <2>4. JobAt' /\ Creating' /\ Depositing' /\ Scanning' /\ Sending'
    BY <1>0, <2>1, <2>3, UseFixed DEF TypeOK, JobAt, Creating, Depositing, Scanning, Sending, Scans, Sends
  <2>5. Proving'
    BY <1>0, <2>1, <2>2, <2>3, UseFixed DEF TypeOK, Proving, ProofOK, PairOK
  <2>. QED
    BY <1>0, <2>3, <2>4, <2>5, JobOnlyStep
<1>6. ASSUME BeginWalletSend PROVE IInv'
  <2>1. /\ job'.op = "wallet" /\ job'.at = "save" /\ job'.pool = pool
        /\ job'.mode = mode /\ job'.form = form /\ job'.bundle = bundle /\ bundle.mode = mode
        /\ DOMAIN job' = {"op", "at", "pool", "mode", "idx", "form", "bundle"}
    BY <1>6 DEF BeginWalletSend, Start
  <2>2. UNCHANGED <<chain, kept, notes, ui, bundle>>
    BY <1>6 DEF BeginWalletSend
  <2>3. JobAt' /\ Creating' /\ Depositing' /\ Scanning' /\ Proving'
    BY <2>1 DEF JobAt, Creating, Depositing, Scanning, Proving
  <2>4. Sending'
    BY <1>0, <2>1, <2>2, UseFixed DEF TypeOK, Sending, Sends, ProofOK
  <2>. QED
    BY <1>0, <2>2, <2>3, <2>4, JobOnlyStep
<1>. QED
  BY <1>1, <1>2, <1>3, <1>4, <1>5, <1>6

(* A transaction that is mined, dropped or sent to another network. *)
LEMMA ChainStep ==
  ASSUME IInv, NEW k \in DOMAIN txs, Mine(k) \/ Drop(k) \/ MineAstray(k)
  PROVE  IInv'
<1> USE DEF kept, env, ui
<1>0. /\ TypeOK /\ CoveredByCode /\ JobAt
      /\ UNCHANGED <<kept, notes, ui, bundle, job>>
  BY DEF IInv, Mine, Drop, MineAstray
<1>a. txs \in Seq(Txs)
  BY <1>0 DEF TypeOK
<1>b. txs[k].status = "pending"
  BY DEF Mine, Drop, MineAstray
<1>1. txs[k].status = "pending" /\ k \in 1..Len(txs) /\ txs[k] \in Txs
  BY <1>a, <1>b
<1>2. txs[k].pool \in Pools /\ txs[k].out \in Seq(Notes) /\ Range(txs[k].out) \subseteq codes
  BY <1>0, <1>1 DEF Txs, CoveredByCode
<1>3. PICK st \in {"mined", "failed"} : txs' = [txs EXCEPT ![k] = [status |-> st]]
  BY DEF Mine, Drop, MineAstray, Settle
<1>4. [status |-> st] \in Txs
  BY DEF Txs
<1>5. txs' \in Seq(Txs)
  BY <1>0, <1>1, <1>3, <1>4 DEF TypeOK
<1>6. leaves' = leaves \/ leaves' = [leaves EXCEPT ![txs[k].pool] = @ \o txs[k].out]
  BY DEF Mine, Drop, MineAstray
<1>7. /\ leaves' \in [Pools -> Seq(Notes)]
      /\ \A p \in Pools : /\ Len(leaves[p]) <= Len(leaves'[p])
                          /\ \A i \in 1..Len(leaves[p]) : leaves'[p][i] = leaves[p][i]
                          /\ Range(leaves[p]) \subseteq codes => Range(leaves'[p]) \subseteq codes
  <2>1. CASE leaves' = leaves
    BY <1>0, <2>1 DEF TypeOK
  <2>2. CASE leaves' = [leaves EXCEPT ![txs[k].pool] = @ \o txs[k].out]
    <3>1. leaves' \in [Pools -> Seq(Notes)]
      BY <1>0, <1>2, <2>2 DEF TypeOK
    <3>2. ASSUME NEW p \in Pools
          PROVE  /\ Len(leaves[p]) <= Len(leaves'[p])
                 /\ \A i \in 1..Len(leaves[p]) : leaves'[p][i] = leaves[p][i]
                 /\ Range(leaves[p]) \subseteq codes => Range(leaves'[p]) \subseteq codes
      <4>1. CASE p = txs[k].pool
        <5> DEFINE a == leaves[p]
        <5> DEFINE b == txs[k].out
        <5>1. a \in Seq(Notes) /\ b \in Seq(Notes) /\ leaves'[p] = a \o b
          BY <1>0, <1>2, <2>2, <4>1 DEF TypeOK
        <5>2. Range(b) \subseteq codes
          BY <1>2
        <5> HIDE DEF a, b
        <5>3. /\ Len(a) <= Len(a \o b)
              /\ \A i \in 1..Len(a) : (a \o b)[i] = a[i]
              /\ \A i \in DOMAIN (a \o b) :
                   \/ i \in DOMAIN a
                   \/ i - Len(a) \in DOMAIN b /\ (a \o b)[i] = b[i - Len(a)]
              /\ DOMAIN a = 1..Len(a)
          BY <5>1
        <5>4. Range(a) \subseteq codes => Range(a \o b) \subseteq codes
          BY <5>1, <5>2, <5>3 DEF Range
        <5>. QED
          BY <5>1, <5>3, <5>4 DEF a
      <4>2. CASE p # txs[k].pool
        BY <1>0, <2>2, <4>2 DEF TypeOK
      <4>. QED
        BY <4>1, <4>2
    <3>. QED
      BY <3>1, <3>2
  <2>. QED
    BY <1>6, <2>1, <2>2
<1>8. TypeOK'
  BY <1>0, <1>5, <1>7, UseFixed DEF TypeOK
<1>9. CoveredByCode'
  BY <1>0, <1>1, <1>3, <1>7, UseFixed DEF CoveredByCode, TypeOK
<1>10. ASSUME NEW ns \in Seq(NoteRecs), Sound(ns, leaves, codes)
       PROVE  Sound(ns, leaves', codes)
  <2>0. \A j \in DOMAIN ns : ns[j] \in NoteRecs
    OBVIOUS
  <2>1. \A j \in DOMAIN ns : ns[j].pool \in Pools \cup {NoPool}
    BY <2>0 DEF NoteRecs
  <2>. QED
    BY <1>0, <1>7, <1>10, <2>1, SoundAsLeavesGrow DEF TypeOK
<1>11. Sound(notes, leaves, codes)'
  BY <1>0, <1>10 DEF IInv, TypeOK
<1>12. (\A j \in DOMAIN vault : vault[j].c \in codes /\ vault[j].pool = NoPool)' /\ ProofOK(bundle)'
  BY <1>0, UseFixed DEF IInv, ProofOK
<1>13. JobAt' /\ Creating' /\ Depositing' /\ Proving' /\ Sending'
  BY <1>0, UseFixed DEF IInv, JobAt, Creating, Depositing, Proving, Sending, ProofOK, PairOK
<1>14. Scanning'
  <2>1. \A p \in Pools : Len(leaves[p]) \in Nat /\ Len(leaves'[p]) \in Nat
    BY <1>0, <1>7 DEF TypeOK
  <2>2. ASSUME NEW p \in Pools, NEW ls, PrefixOf(ls, leaves[p]) PROVE PrefixOf(ls, leaves[p])'
    <3>1. Len(ls) \in Nat /\ Len(ls) <= Len(leaves[p])
      BY <2>2 DEF PrefixOf
    <3>2. 1..Len(ls) \subseteq 1..Len(leaves[p])
      BY <3>1, <2>1
    <3>. QED
      BY <1>0, <1>7, <2>1, <2>2, <3>1, <3>2, UseFixed DEF PrefixOf
  <2>. QED
    BY <1>0, <1>10, <2>2, UseFixed DEF IInv, Scanning, PrefixOf
<1>. QED
  BY <1>8, <1>9, <1>11, <1>12, <1>13, <1>14 DEF IInv

(* A step that writes notes back, shows codes or keeps a proof. *)
LEMMA NotesStep ==
  ASSUME IInv, UNCHANGED <<env, chain, vault, pool, mode, form>>,
         codes \subseteq codes', codes' \subseteq Notes,
         notes' \in Seq(NoteRecs), Sound(notes', leaves, codes'),
         spend' \in Seq(Nat), Len(spend') <= 2, ProofOK(bundle'),
         JobAt', Creating', Depositing', Scanning', Proving', Sending'
  PROVE  IInv'
<1> USE DEF env, chain
<1>1. TypeOK'
  BY UseFixed DEF IInv, TypeOK
<1>2. ProofOK(bundle)'
  BY UseFixed DEF ProofOK
<1>3. /\ Sound(notes, leaves, codes)'
      /\ (\A k \in DOMAIN vault : vault[k].c \in codes /\ vault[k].pool = NoPool)'
      /\ CoveredByCode'
  BY UseFixed DEF IInv, CoveredByCode
<1>. QED
  BY <1>1, <1>2, <1>3 DEF IInv

(* Replacing the list of notes keeps at most two selected. *)
LEMMA SetNotesKeeps ==
  ASSUME TypeOK, NEW ns, NEW s, SetNotes(ns, s)
  PROVE  notes' = ns /\ spend' \in Seq(Nat) /\ Len(spend') <= 2
<1>1. spend \in Seq(Nat) /\ Len(spend) <= 2
  BY DEF TypeOK
<1>2. Kept(spend, Unspent(ns)) \in Seq(Nat) /\ Len(Kept(spend, Unspent(ns))) <= 2
  BY <1>1, KeptType
<1>. QED
  BY <1>2 DEF SetNotes

(* Backups, restores, reloads and clearing the tab. *)
LEMMA SessionStep ==
  ASSUME IInv, ExportVault \/ ImportVault \/ Reload \/ ClearTab
  PROVE  IInv'
<1> USE DEF kept, env, chain, ui
<1>0. /\ TypeOK /\ Sound(notes, leaves, codes) /\ ProofOK(bundle) /\ ProofOK(NoProof)
      /\ \A k \in DOMAIN vault : vault[k].c \in codes /\ vault[k].pool = NoPool
  BY DEF IInv, ProofOK, NoProof
<1>1. ASSUME Reload \/ ClearTab PROVE IInv'
  <2>1. /\ notes' = <<>> /\ spend' = <<>> /\ bundle' = NoProof /\ job' = Idle
        /\ UNCHANGED <<env, chain, vault, codes, pool, mode, form>>
    BY <1>1 DEF Reload, ClearTab
  <2>2. Sound(<<>>, leaves, codes)
    BY DEF Sound
  <2>. QED
    BY <1>0, <2>1, <2>2, IdleJob, NotesStep DEF TypeOK
<1>2. ASSUME ImportVault PROVE IInv'
  <2>1. /\ SetNotes(vault, sel) /\ job = Idle /\ job' = job
        /\ UNCHANGED <<kept, chain, pool, mode, form, bundle>>
    BY <1>2 DEF ImportVault
  <2>2. Sound(vault, leaves, codes)
    BY <1>0 DEF Sound, Lies
  <2>. QED
    BY <1>0, <2>1, <2>2, SetNotesKeeps, IdleJob, NotesStep DEF TypeOK
<1>3. ASSUME ExportVault PROVE IInv'
  <2>1. /\ job = Idle /\ job' = Idle
        /\ UNCHANGED <<env, chain, notes, ui, bundle>>
        /\ vault' = [k \in DOMAIN notes |-> [notes[k] EXCEPT !.pool = NoPool]]
        /\ codes' = codes \cup {notes[k].c : k \in DOMAIN notes}
    BY <1>3 DEF ExportVault
  <2>2. notes \in Seq(NoteRecs) /\ \A k \in DOMAIN notes : notes[k] \in NoteRecs
    BY <1>0 DEF TypeOK
  <2>3. \A k \in DOMAIN notes : /\ [notes[k] EXCEPT !.pool = NoPool] \in NoteRecs
                                /\ [notes[k] EXCEPT !.pool = NoPool].c = notes[k].c
                                /\ [notes[k] EXCEPT !.pool = NoPool].pool = NoPool
                                /\ notes[k].c \in Notes
    BY <2>2 DEF NoteRecs
  <2>4. vault' \in Seq(NoteRecs)
    BY <2>1, <2>2, <2>3
  <2>5. codes' \subseteq Notes /\ codes \subseteq codes'
    BY <1>0, <2>1, <2>3 DEF TypeOK
  <2>6. TypeOK'
    BY <1>0, <2>1, <2>4, <2>5, UseFixed DEF TypeOK
  <2>7. Sound(notes, leaves, codes)'
    BY <1>0, <2>1, <2>5, SoundGrows
  <2>a. DOMAIN vault' = DOMAIN notes
    BY <2>1
  <2>b. \A k \in DOMAIN notes : vault'[k] = [notes[k] EXCEPT !.pool = NoPool]
    BY <2>1
  <2>c. \A k \in DOMAIN notes : notes[k].c \in codes'
    BY <2>1
  <2>8. (\A k \in DOMAIN vault : vault[k].c \in codes /\ vault[k].pool = NoPool)'
    BY <2>a, <2>b, <2>c, <2>3
  <2>9. CoveredByCode' /\ ProofOK(bundle)'
    BY <1>0, <2>1, <2>5, UseFixed DEF IInv, CoveredByCode, ProofOK
  <2>. QED
    BY <2>1, <2>6, <2>7, <2>8, <2>9, IdleJob DEF IInv
<1>. QED
  BY <1>1, <1>2, <1>3

(* A created note enters the session with its code shown. *)
LEMMA CreateStep ==
  ASSUME IInv, AdmitAfterSave
  PROVE  IInv'
<1> USE DEF kept, env, chain, ui
<1> DEFINE r == FreshRecord(job.c, job.pool)
<1>0. /\ TypeOK /\ Sound(notes, leaves, codes) /\ ProofOK(bundle)
      /\ job.c \in Notes /\ job.pool \in Pools
  BY DEF IInv, AdmitAfterSave, JobAt, Idle, Creating, Depositing, Scanning, Sending, Scans, Sends
<1>1. r \in NoteRecs /\ r.c = job.c /\ r.leaf = NoLeaf
  BY <1>0 DEF FreshRecord, NoteRecs, NoLeaf
<1>2. /\ codes' = codes \cup {job.c} /\ SetNotes(Append(notes, r), job.end) /\ job' = Idle
      /\ UNCHANGED <<env, chain, vault, pool, mode, form, bundle>>
  BY DEF AdmitAfterSave, Finish
<1> HIDE DEF r
<1>3. Lies(r, leaves) /\ r.c \in codes'
  BY <1>1, <1>2 DEF Lies
<1>4. codes' \subseteq Notes /\ codes \subseteq codes'
  BY <1>0, <1>2 DEF TypeOK
<1>5. Append(notes, r) \in Seq(NoteRecs) /\ Sound(Append(notes, r), leaves, codes')
  BY <1>0, <1>1, <1>3, <1>4, SoundGrows, SoundAppend DEF TypeOK
<1>. QED
  BY <1>0, <1>2, <1>4, <1>5, SetNotesKeeps, IdleJob, NotesStep

(* Reading the leaves, and the scan that follows. *)
LEMMA ReadStep ==
  ASSUME IInv, ReadLeaves
  PROVE  IInv'
<1> USE DEF kept, env, chain, ui
<1>0. TypeOK /\ ProofOK(bundle) /\ JobAt /\ Creating /\ Depositing /\ Scanning /\ Proving /\ Sending
  BY DEF IInv
<1>1. PICK ls \in Views(job.pool) : job' = [job EXCEPT !.at = "nullifiers", !.ls = ls]
  BY DEF ReadLeaves
<1>2. /\ job.at = "leaves" /\ UNCHANGED <<chain, kept, notes, ui, bundle>>
  BY DEF ReadLeaves
<1>3. job.op \in {"import", "sync", "prove", "silent"}
  BY <1>0, <1>2 DEF JobAt, Idle, Creating, Depositing, Sending, Sends
<1>4. /\ {"ls", "notes", "op", "at"} \subseteq DOMAIN job
      /\ job.pool \in Pools /\ job.notes \in Seq(NoteRecs) /\ Sound(job.notes, leaves, codes)
  BY <1>0, <1>2, <1>3 DEF Scanning, Sends, JobAt
<1>5. PrefixOf(ls, leaves[job.pool])
  BY <1>0, <1>4, ViewIsPrefix
<1>6. /\ job'.op = job.op /\ job'.at = "nullifiers" /\ job'.ls = ls /\ job'.notes = job.notes
      /\ job'.pool = job.pool /\ job'.mode = job.mode /\ job'.form = job.form
      /\ job'.bundle = job.bundle /\ job'.idx = job.idx /\ DOMAIN job' = DOMAIN job
  BY <1>1, <1>4
<1>7. JobAt' /\ Creating' /\ Depositing' /\ Sending'
  BY <1>3, <1>4, <1>6 DEF JobAt, Creating, Depositing, Sending, Scans, Sends
<1>8. Scanning'
  BY <1>2, <1>3, <1>4, <1>5, <1>6, UseFixed DEF Scanning, PrefixOf, Scans
<1>9. Proving'
  BY <1>0, <1>2, <1>3, <1>6, UseFixed DEF Proving, Scans, ProofOK, PairOK
<1>. QED
  BY <1>0, <1>2, <1>7, <1>8, <1>9, JobOnlyStep

(* The scan's result is what the notes it read are in the pool it read. *)
LEMMA ScanSound ==
  ASSUME IInv, job.at = "nullifiers"
  PROVE  /\ job.op \in {"import", "sync", "prove", "silent"} /\ job.pool \in Pools
         /\ {"op", "at", "ls", "notes"} \subseteq DOMAIN job
         /\ ScanResult \in Seq(NoteRecs) /\ Sound(ScanResult, leaves, codes)
         /\ DOMAIN ScanResult = DOMAIN job.notes
         /\ \A k \in DOMAIN job.notes :
              /\ ScanResult[k].c = job.notes[k].c
              /\ ScanResult[k].pool \in {job.notes[k].pool, job.pool}
<1>0. TypeOK /\ JobAt /\ Creating /\ Depositing /\ Scanning /\ Sending
  BY DEF IInv
<1>1. job.op \in {"import", "sync", "prove", "silent"}
  BY <1>0 DEF JobAt, Idle, Creating, Depositing, Sending, Sends
<1>2. /\ job.pool \in Pools /\ job.notes \in Seq(NoteRecs) /\ Sound(job.notes, leaves, codes)
      /\ PrefixOf(job.ls, leaves[job.pool]) /\ {"op", "at", "ls", "notes"} \subseteq DOMAIN job
  BY <1>0, <1>1 DEF Scanning, Sends, JobAt
<1>. QED
  BY <1>0, <1>1, <1>2, ScannedSound DEF ScanResult

(* A scan or a check ends. *)
LEMMA ScanStep ==
  ASSUME IInv, FinishScan \/ FinishCheck
  PROVE  IInv'
<1> USE DEF kept, env, chain, ui
<1>0. TypeOK /\ ProofOK(bundle) /\ JobAt /\ Proving /\ job.at = "nullifiers"
  BY DEF IInv, FinishScan, FinishCheck
<1>1. /\ ScanResult \in Seq(NoteRecs) /\ Sound(ScanResult, leaves, codes)
      /\ DOMAIN ScanResult = DOMAIN job.notes /\ job.pool \in Pools
      /\ {"op", "at", "ls", "notes"} \subseteq DOMAIN job
      /\ \A k \in DOMAIN job.notes :
           /\ ScanResult[k].c = job.notes[k].c
           /\ ScanResult[k].pool \in {job.notes[k].pool, job.pool}
  BY <1>0, ScanSound
<1>2. PICK s : SetNotes(ScanResult, s)
  BY DEF FinishScan, FinishCheck
<1>3. UNCHANGED <<chain, kept, pool, mode, form, bundle>>
  BY DEF FinishScan, FinishCheck
<1>4. notes' = ScanResult /\ spend' \in Seq(Nat) /\ Len(spend') <= 2
  BY <1>0, <1>2, SetNotesKeeps
<1>5. CASE job' = Idle
  BY <1>0, <1>1, <1>3, <1>4, <1>5, IdleJob, NotesStep DEF TypeOK
<1>6. CASE job' # Idle
  <2>1. /\ job.op \in {"prove", "silent"}
        /\ job' = [job EXCEPT !.at = "prove", !.notes = ScanResult, !.ls = <<>>]
    BY <1>6 DEF FinishScan, FinishCheck, Finish
  <2>2. /\ job'.op = job.op /\ job'.at = "prove" /\ job'.notes = ScanResult
        /\ job'.pool = job.pool /\ job'.mode = job.mode /\ job'.form = job.form
        /\ job'.bundle = job.bundle /\ job'.idx = job.idx /\ DOMAIN job' = DOMAIN job
    BY <1>1, <2>1
  <2>3. JobAt' /\ Creating' /\ Depositing' /\ Sending'
    BY <1>1, <2>1, <2>2 DEF JobAt, Creating, Depositing, Sending, Scans, Sends
  <2>4. Scanning'
    BY <1>1, <1>3, <1>4, <2>1, <2>2, UseFixed DEF Scanning, Scans
  <2>5. job.mode = "merge2" => PairOK(ScanResult, job.idx, job.pool)
    BY <1>0, <1>1, <2>1 DEF Proving, Scans, PairOK
  <2>6. Proving'
    BY <1>0, <1>3, <2>1, <2>2, <2>5, UseFixed DEF Proving, Scans, ProofOK, PairOK
  <2>. QED
    BY <1>0, <1>1, <1>3, <1>4, <2>3, <2>4, <2>6, NotesStep DEF TypeOK
<1>. QED
  BY <1>5, <1>6

(* A job that fails, and the answers a handler waits for. *)
LEMMA EndStep ==
  ASSUME IInv, Fail \/ WithdrawUnconfirmed
  PROVE  IInv'
<1>1. job' = Idle /\ UNCHANGED <<chain, kept, notes, ui, bundle>>
  BY DEF Fail, WithdrawUnconfirmed, Finish
<1>2. ProofOK(bundle')
  BY <1>1 DEF IInv
<1>. QED
  BY <1>1, <1>2, IdleJob, JobOnlyStep

(* A transaction the wallet or the relayer submits pays out to known notes. *)
LEMMA SubmitStep ==
  ASSUME IInv, NEW t \in Txs, Range(t.out) \subseteq codes, txs' = Append(txs, t),
         UNCHANGED <<leaves, nulls, kept, notes, ui, bundle>>,
         JobAt', Creating', Depositing', Scanning', Proving', Sending'
  PROVE  IInv'
<1> USE DEF kept, env, chain, ui
<1>0. TypeOK /\ CoveredByCode /\ txs \in Seq(Txs)
  BY DEF IInv, TypeOK
<1>1. TypeOK'
  BY <1>0, UseFixed DEF TypeOK
<1>2. ProofOK(bundle)'
  BY UseFixed DEF IInv, ProofOK
<1>3. \A k \in DOMAIN txs' : txs'[k] = t \/ (k \in DOMAIN txs /\ txs'[k] = txs[k])
  BY <1>0
<1>4. CoveredByCode'
  BY <1>0, <1>3, UseFixed DEF CoveredByCode
<1>5. /\ Sound(notes, leaves, codes)'
      /\ (\A k \in DOMAIN vault : vault[k].c \in codes /\ vault[k].pool = NoPool)'
  BY DEF IInv
<1>. QED
  BY <1>1, <1>2, <1>4, <1>5 DEF IInv

(* The steps of a deposit. *)
LEMMA DepositStep ==
  ASSUME IInv, SendDeposit \/ ConfirmDeposit \/ DepositUnconfirmed \/ RebindDeposited
  PROVE  IInv'
<1> USE DEF kept, env, chain, ui
<1>0. TypeOK /\ ProofOK(bundle) /\ JobAt /\ Depositing /\ Sound(notes, leaves, codes)
  BY DEF IInv
<1>1. job.op = "deposit"
  <2>1. JobAt /\ Creating /\ Sending
    BY DEF IInv
  <2>2. job.at = "confirm" => job.op = "deposit"
    BY <2>1 DEF JobAt, Idle, Creating, Sending, Scans, Sends
  <2>. QED
    BY <2>2 DEF SendDeposit, ConfirmDeposit, DepositUnconfirmed, RebindDeposited
<1>2. /\ {"op", "at", "tx"} \subseteq DOMAIN job
      /\ job.pool \in Pools /\ job.c \in codes
      /\ job.idx \in DOMAIN notes /\ notes[job.idx].c = job.c
      /\ notes[job.idx].leaf = NoLeaf \/ notes[job.idx].pool \in {job.pool, NoPool}
  BY <1>0, <1>1 DEF Depositing, JobAt
<1>3. ASSUME UNCHANGED <<kept, notes>>, NEW a \in {"receipt", "rebind"},
             job'.op = job.op, job'.at = a, job'.pool = job.pool, job'.c = job.c,
             job'.idx = job.idx, DOMAIN job' = DOMAIN job
      PROVE  JobAt' /\ Creating' /\ Depositing' /\ Scanning' /\ Proving' /\ Sending'
  BY <1>1, <1>2, <1>3, UseFixed DEF JobAt, Creating, Depositing, Scanning, Proving, Sending
<1>4. ASSUME SendDeposit PROVE IInv'
  <2> DEFINE t == Tx("deposit", 0, {}, <<job.c>>, NoPool)
  <2>1. /\ txs' = Append(txs, t) /\ UNCHANGED <<leaves, nulls, kept, notes, ui, bundle>>
        /\ job' = [job EXCEPT !.at = "receipt", !.tx = Len(txs) + 1]
    BY <1>4 DEF SendDeposit, Submit
  <2>2. job.c \in Notes
    BY <1>0, <1>2 DEF TypeOK
  <2>3. t \in Txs /\ t.out = <<job.c>>
    BY <1>2, <2>2 DEF Tx, Txs
  <2> HIDE DEF t
  <2>4. Range(t.out) \subseteq codes
    BY <1>2, <2>3 DEF Range
  <2>5. /\ job'.op = job.op /\ job'.at = "receipt" /\ job'.pool = job.pool /\ job'.c = job.c
        /\ job'.idx = job.idx /\ DOMAIN job' = DOMAIN job
    BY <1>2, <2>1
  <2>. QED
    BY <1>3, <2>1, <2>3, <2>4, <2>5, SubmitStep
<1>5. ASSUME ConfirmDeposit \/ DepositUnconfirmed PROVE IInv'
  <2>1. /\ UNCHANGED <<chain, kept, notes, ui, bundle>>
        /\ job' = [job EXCEPT !.at = "rebind"] \/ job' = Idle
    BY <1>5 DEF ConfirmDeposit, DepositUnconfirmed
  <2>2. CASE job' = Idle
    BY <1>0, <2>1, <2>2, IdleJob, JobOnlyStep
  <2>3. CASE job' = [job EXCEPT !.at = "rebind"]
    <3>1. /\ job'.op = job.op /\ job'.at = "rebind" /\ job'.pool = job.pool /\ job'.c = job.c
          /\ job'.idx = job.idx /\ DOMAIN job' = DOMAIN job
      BY <1>2, <2>3
    <3>. QED
      BY <1>0, <1>3, <2>1, <3>1, JobOnlyStep
  <2>. QED
    BY <2>1, <2>2, <2>3
<1>6. ASSUME RebindDeposited PROVE IInv'
  <2>1. PICK ls \in Views(job.pool) :
          \E s : SetNotes([BindAll(notes, ls, job.pool) EXCEPT ![job.idx].pool = job.pool], s)
    BY <1>6 DEF RebindDeposited
  <2> DEFINE b == BindAll(notes, ls, job.pool)
  <2> DEFINE after == [b EXCEPT ![job.idx].pool = job.pool]
  <2>2. PICK s : SetNotes(after, s)
    BY <2>1
  <2>3. /\ job' = Idle /\ UNCHANGED <<env, chain, vault, pool, mode, form, bundle>>
        /\ codes' \in {codes, codes \cup {job.c}}
    BY <1>6 DEF RebindDeposited, Finish
  <2>4. codes' = codes
    BY <1>2, <2>3
  <2>5. PrefixOf(ls, leaves[job.pool])
    BY <1>0, <1>2, ViewIsPrefix
  <2>6. /\ b \in Seq(NoteRecs) /\ Sound(b, leaves, codes) /\ DOMAIN b = DOMAIN notes
        /\ b[job.idx].leaf = NoLeaf \/ b[job.idx].pool = job.pool
    BY <1>0, <1>2, <2>5, BindAllSound DEF TypeOK
  <2> HIDE DEF b
  <2> DEFINE n == [b[job.idx] EXCEPT !.pool = job.pool]
  <2>7. b[job.idx] \in NoteRecs /\ b[job.idx].c \in codes /\ Lies(b[job.idx], leaves)
    BY <1>2, <2>6 DEF Sound
  <2>10. n \in NoteRecs /\ n.c = b[job.idx].c /\ n.leaf = b[job.idx].leaf /\ n.pool = job.pool
    BY <1>2, <2>7 DEF NoteRecs
  <2>11. Lies(n, leaves)
    BY <2>6, <2>7, <2>10 DEF Lies
  <2>8. after = [b EXCEPT ![job.idx] = n]
    OBVIOUS
  <2>. HIDE DEF n
  <2>12. after \in Seq(NoteRecs) /\ Sound(after, leaves, codes)
    BY <1>2, <2>6, <2>7, <2>8, <2>10, <2>11 DEF Sound
  <2>. HIDE DEF after
  <2>. QED
    BY <1>0, <2>2, <2>3, <2>4, <2>12, SetNotesKeeps, IdleJob, NotesStep DEF TypeOK
<1>. QED
  BY <1>4, <1>5, <1>6

(* Two different things are two. *)
LEMMA PairHasTwo ==
  ASSUME NEW x, NEW y, x # y
  PROVE  Cardinality({x, y}) = 2
<1>1. Cardinality({x}) = 1 /\ IsFiniteSet({x})
  BY FS_Singleton
<1>2. y \notin {x} /\ {x, y} = {x} \cup {y}
  OBVIOUS
<1>3. Cardinality({x} \cup {y}) = Cardinality({x}) + 1
  BY <1>1, <1>2, FS_AddElement
<1>. QED
  BY <1>1, <1>2, <1>3

(* What the prover makes of the captured notes is a proof, and a merge of two *)
(* different ones.                                                            *)
LEMMA ProofIsOK ==
  ASSUME IInv, job.at = "prove", NEW ls, PrefixOf(ls, leaves[job.pool]), NEW out \in Seq(Notes),
         \A k \in Range(job.idx) : LeafOf(job.notes[k].c, ls) # NoLeaf
  PROVE  ProofOK(Proof(ls, out)) /\ Proof(ls, out).mode = job.mode /\ Proof(ls, out).out = out
         /\ Proof(ls, out).form = job.form
<1> DEFINE b == Proof(ls, out)
<1>0. /\ TypeOK /\ JobAt /\ Creating /\ Depositing /\ Scanning /\ Proving /\ Sending
  BY DEF IInv
<1>1. job.op \in {"prove", "silent"}
  BY <1>0 DEF JobAt, Idle, Creating, Depositing, Sending, Sends
<1>2. job.mode \in Modes /\ job.form \in Forms
      /\ (job.mode = "merge2" => PairOK(job.notes, job.idx, job.pool))
  BY <1>0, <1>1 DEF Proving, Scans
<1>3. ls \in Seq(Notes) /\ Len(ls) \in Nat
  BY DEF PrefixOf
<1>4. \A k \in Range(job.idx) : job.notes[k].c \in Notes /\ LeafOf(job.notes[k].c, ls) \in Int
  <2> SUFFICES ASSUME NEW k \in Range(job.idx)
               PROVE  job.notes[k].c \in Notes /\ LeafOf(job.notes[k].c, ls) \in Int
    OBVIOUS
  <2> DEFINE i == LeafOf(job.notes[k].c, ls)
  <2>1. i \in Int /\ i # NoLeaf
    BY <1>3, LeafFound
  <2>2. i + 1 \in 1..Len(ls) /\ ls[i + 1] = job.notes[k].c
    BY <1>3, <2>1, LeafFound
  <2>. QED
    BY <1>3, <2>1, <2>2
<1>5. /\ b.mode = job.mode /\ b.out = out /\ b.form = job.form /\ b.root = Len(ls)
      /\ b.ins = {<<job.notes[k].c, LeafOf(job.notes[k].c, ls)>> : k \in Range(job.idx)}
  BY DEF Proof
<1> HIDE DEF b
<1>6. b.ins \in SUBSET (Notes \X Int)
  BY <1>4, <1>5
<1>7. ASSUME b.mode = "merge2" PROVE Distinct(b.ins)
  <2> DEFINE x == job.notes[job.idx[1]].c
  <2> DEFINE y == job.notes[job.idx[2]].c
  <2>1. Range(job.idx) = {job.idx[1], job.idx[2]} /\ x # y
    BY <1>2, <1>5, <1>7 DEF PairOK, Range
  <2> DEFINE l(k) == LeafOf(job.notes[k].c, ls)
  <2>2. b.ins = {<<job.notes[k].c, l(k)>> : k \in {job.idx[1], job.idx[2]}}
    BY <1>5, <2>1
  <2> HIDE DEF l
  <2>3. b.ins = {<<x, l(job.idx[1])>>, <<y, l(job.idx[2])>>}
    BY <2>2
  <2> HIDE DEF x, y
  <2>4. {nf[1] : nf \in b.ins} = {x, y}
    BY <2>3
  <2>5. x # y
    BY <2>1 DEF x, y
  <2>6. Cardinality({x, y}) = 2
    BY <2>5, PairHasTwo
  <2>. QED
    BY <2>4, <2>6 DEF Distinct
<1>8. ProofOK(b)
  BY <1>2, <1>3, <1>5, <1>6, <1>7 DEF ProofOK
<1>. QED
  BY <1>5, <1>8 DEF b

(* A merge proof records where it opened its notes, in the pool they are bound in. *)
LEMMA OpenedSound ==
  ASSUME IInv, job.at = "prove", job.mode = "merge2", NEW ls, PrefixOf(ls, leaves[job.pool])
  PROVE  Opened(ls) \in Seq(NoteRecs) /\ Sound(Opened(ls), leaves, codes)
<1>0. /\ TypeOK /\ JobAt /\ Creating /\ Depositing /\ Scanning /\ Proving /\ Sending
  BY DEF IInv
<1>1. job.op \in {"prove", "silent"}
  BY <1>0 DEF JobAt, Idle, Creating, Depositing, Sending, Sends
<1>2. /\ notes = job.notes /\ notes \in Seq(NoteRecs) /\ Sound(notes, leaves, codes)
      /\ job.pool \in Pools /\ PairOK(notes, job.idx, job.pool)
  BY <1>0, <1>1 DEF Proving, Scanning, Scans, Sends
<1>3. \A k \in Range(job.idx) : notes[k].pool \in {job.pool, NoPool}
  BY <1>2 DEF PairOK, Range
<1>4. ls \in Seq(Notes) /\ leaves[job.pool] \in Seq(Notes)
  BY <1>0, <1>2 DEF PrefixOf, TypeOK
<1> DEFINE i(k) == LeafOf(notes[k].c, ls)
<1> DEFINE g(k) == [notes[k] EXCEPT !.leaf = i(k)]
<1>5. ASSUME NEW k \in DOMAIN notes, notes[k].pool \in {job.pool, NoPool}
      PROVE  g(k) \in NoteRecs /\ g(k).c = notes[k].c /\ Lies(g(k), leaves)
  <2>1. /\ i(k) \in Int
        /\ i(k) # NoLeaf => i(k) \in Nat /\ i(k) + 1 \in 1..Len(ls) /\ ls[i(k) + 1] = notes[k].c
    BY <1>4, LeafFound
  <2>2. i(k) # NoLeaf => /\ i(k) + 1 \in DOMAIN leaves[job.pool]
                         /\ leaves[job.pool][i(k) + 1] = notes[k].c
    BY <1>4, <2>1 DEF PrefixOf
  <2>3. notes[k] \in NoteRecs
    BY <1>2
  <2> HIDE DEF i
  <2>. QED
    BY <1>5, <2>1, <2>2, <2>3 DEF NoteRecs, Lies
<1> DEFINE o(k) == IF k \in Range(job.idx) THEN g(k) ELSE notes[k]
<1>6. Opened(ls) = [k \in DOMAIN notes |-> o(k)]
  BY <1>2 DEF Opened
<1>7. \A k \in DOMAIN notes : notes[k] \in NoteRecs /\ notes[k].c \in codes /\ Lies(notes[k], leaves)
  BY <1>2 DEF Sound
<1> HIDE DEF g
<1>8. \A k \in DOMAIN notes : o(k) \in NoteRecs /\ o(k).c \in codes /\ Lies(o(k), leaves)
  BY <1>3, <1>5, <1>7
<1> HIDE DEF o
<1>9. Opened(ls) \in Seq(NoteRecs) /\ DOMAIN Opened(ls) = DOMAIN notes
      /\ \A k \in DOMAIN notes : Opened(ls)[k] = o(k)
  BY <1>2, <1>6, <1>8
<1>. QED
  BY <1>8, <1>9 DEF Sound

(* A proof is made or used again. *)
LEMMA ProveStep ==
  ASSUME IInv, Prove \/ ReuseProof
  PROVE  IInv'
<1> USE DEF kept, env, chain, ui
<1>0. /\ TypeOK /\ JobAt /\ Creating /\ Depositing /\ Scanning /\ Proving /\ Sending
      /\ ProofOK(bundle) /\ Sound(notes, leaves, codes) /\ job.at = "prove"
  BY DEF IInv, Prove, ReuseProof
<1>1. job.op \in {"prove", "silent"}
  BY <1>0 DEF JobAt, Idle, Creating, Depositing, Sending, Sends
<1>2. /\ {"op", "at", "notes", "bundle"} \subseteq DOMAIN job
      /\ job.pool \in Pools /\ job.mode \in Modes /\ job.form \in Forms
      /\ ProofOK(job.bundle) /\ job.mode # "none"
  BY <1>0, <1>1, ModesAssumption DEF JobAt, Scanning, Proving, Scans, Sends, Modes, TypeOK
<1>3. ASSUME UNCHANGED <<chain, kept, notes, ui, bundle>>, NEW b, ProofOK(b), b.mode = job.mode,
             job.op = "silent", b.form.dest = job.form.dest,
             job' = [job EXCEPT !.at = "save", !.notes = <<>>, !.bundle = b]
      PROVE  IInv'
  <2>1. /\ job'.op = "silent" /\ job'.at = "save" /\ job'.pool = job.pool
        /\ job'.mode = job.mode /\ job'.form = job.form
        /\ job'.bundle = b /\ DOMAIN job' = DOMAIN job
    BY <1>2, <1>3
  <2>2. JobAt' /\ Creating' /\ Depositing' /\ Scanning' /\ Proving'
    BY <1>2, <2>1 DEF JobAt, Creating, Depositing, Scanning, Proving, Scans, Sends
  <2>3. Sending'
    BY <1>2, <1>3, <2>1, UseFixed DEF Sending, Scans, Sends, ProofOK
  <2>. QED
    BY <1>0, <1>3, <2>2, <2>3, JobOnlyStep
<1>4. ASSUME ReuseProof PROVE IInv'
  <2>1. /\ job.op = "silent" /\ Reusable(job.bundle)
        /\ job' = [job EXCEPT !.at = "save", !.notes = <<>>]
        /\ UNCHANGED <<chain, kept, notes, ui, bundle>>
    BY <1>4 DEF ReuseProof
  <2>2. job' = [job EXCEPT !.at = "save", !.notes = <<>>, !.bundle = job.bundle]
    BY <1>2, <2>1
  <2>3. job.bundle.mode = job.mode /\ job.bundle.form.dest = job.form.dest
    BY <2>1 DEF Reusable
  <2>. QED
    BY <1>2, <1>3, <2>1, <2>2, <2>3
<1>5. ASSUME Prove PROVE IInv'
  <2>1. PICK ls \in Views(job.pool) :
          /\ \A k \in Range(job.idx) : LeafOf(job.notes[k].c, ls) # NoLeaf
          /\ \E out \in IF job.mode = "partial" THEN {<<c>> : c \in Unused} ELSE {<<>>} :
               IF job.op = "silent"
               THEN /\ job' = [job EXCEPT !.at = "save", !.notes = <<>>, !.bundle = Proof(ls, out)]
                    /\ UNCHANGED <<bundle, notes>>
               ELSE /\ bundle' = Proof(ls, out)
                    /\ notes' = IF job.mode = "merge2" THEN Opened(ls) ELSE notes
                    /\ job' = Idle
    BY <1>5 DEF Prove, Finish
  <2>2. PICK out \in Seq(Notes) :
               IF job.op = "silent"
               THEN /\ job' = [job EXCEPT !.at = "save", !.notes = <<>>, !.bundle = Proof(ls, out)]
                    /\ UNCHANGED <<bundle, notes>>
               ELSE /\ bundle' = Proof(ls, out)
                    /\ notes' = IF job.mode = "merge2" THEN Opened(ls) ELSE notes
                    /\ job' = Idle
    <3>1. \A c \in Unused : <<c>> \in Seq(Notes)
      BY DEF Unused
    <3>2. <<>> \in Seq(Notes)
      OBVIOUS
    <3>. QED
      BY <2>1, <3>1, <3>2
  <2>3. UNCHANGED <<chain, kept, ui>>
    BY <1>5 DEF Prove
  <2>4. PrefixOf(ls, leaves[job.pool])
    BY <1>0, <1>2, ViewIsPrefix
  <2>5. /\ ProofOK(Proof(ls, out)) /\ Proof(ls, out).mode = job.mode
        /\ Proof(ls, out).form = job.form
    BY <1>0, <2>1, <2>4, ProofIsOK
  <2>6. CASE job.op = "silent"
    BY <1>3, <2>2, <2>3, <2>5, <2>6
  <2>7. CASE job.op # "silent"
    <3>1. bundle' = Proof(ls, out) /\ job' = Idle
          /\ notes' = IF job.mode = "merge2" THEN Opened(ls) ELSE notes
      BY <2>2, <2>7
    <3>2. notes' \in Seq(NoteRecs) /\ Sound(notes', leaves, codes)
      BY <1>0, <2>4, <3>1, OpenedSound DEF TypeOK
    <3>. QED
      BY <1>0, <2>3, <2>5, <3>1, <3>2, IdleJob, NotesStep DEF TypeOK
  <2>. QED
    BY <2>6, <2>7
<1>. QED
  BY <1>4, <1>5

(* The change is shown, the root is checked, and the withdrawal is sent. *)
LEMMA SendStep ==
  ASSUME IInv, SaveChange \/ CheckRoot \/ SendWithdraw
  PROVE  IInv'
<1> USE DEF kept, env, chain, ui
<1>0. /\ TypeOK /\ JobAt /\ Creating /\ Depositing /\ Scanning /\ Proving /\ Sending
      /\ ProofOK(bundle) /\ Sound(notes, leaves, codes) /\ job.at \in Sends
  BY DEF IInv, SaveChange, CheckRoot, SendWithdraw, Sends
<1>1. job.op \in {"silent", "wallet"}
  BY <1>0 DEF JobAt, Idle, Creating, Depositing, Sending, Sends, Scans
<1>2. /\ {"op", "at"} \subseteq DOMAIN job /\ job.pool \in Pools /\ job.mode \in Modes
      /\ job.form \in Forms /\ job.bundle.mode = job.mode /\ ProofOK(job.bundle) /\ job.mode # "none"
      /\ job.op = "silent" => job.bundle.form.dest = job.form.dest
      /\ job.at # "save" => Range(job.bundle.out) \subseteq codes
  BY <1>0, <1>1, ModesAssumption DEF JobAt, Sending, Modes, TypeOK
<1>3. job.bundle.out \in Seq(Notes) /\ Range(job.bundle.out) \subseteq Notes
  BY <1>2 DEF ProofOK, Range
<1>4. ASSUME NEW a \in {"root", "send"}, job' = [job EXCEPT !.at = a], codes \subseteq codes',
             Range(job.bundle.out) \subseteq codes', use' = use
      PROVE  JobAt' /\ Creating' /\ Depositing' /\ Scanning' /\ Proving' /\ Sending'
  <2>1. /\ job'.op = job.op /\ job'.at = a /\ job'.pool = job.pool /\ job'.mode = job.mode
        /\ job'.form = job.form /\ job'.bundle = job.bundle /\ DOMAIN job' = DOMAIN job
    BY <1>2, <1>4
  <2>2. JobAt' /\ Creating' /\ Depositing' /\ Scanning' /\ Proving'
    BY <1>1, <1>2, <2>1 DEF JobAt, Creating, Depositing, Scanning, Proving, Scans, Sends
  <2>3. Sending'
    BY <1>1, <1>2, <1>4, <2>1, UseFixed DEF Sending, Scans, Sends, ProofOK
  <2>. QED
    BY <2>2, <2>3
<1>5. ASSUME SaveChange PROVE IInv'
  <2>1. /\ codes' = codes \cup Range(job.bundle.out) /\ bundle' = job.bundle
        /\ job' = [job EXCEPT !.at = "root"] /\ UNCHANGED <<env, chain, vault, notes, ui>>
    BY <1>5 DEF SaveChange
  <2>2. codes \subseteq codes' /\ codes' \subseteq Notes
    BY <1>0, <1>3, <2>1 DEF TypeOK
  <2>3. Sound(notes, leaves, codes')
    BY <1>0, <2>2, SoundGrows
  <2>4. JobAt' /\ Creating' /\ Depositing' /\ Scanning' /\ Proving' /\ Sending'
    BY <1>4, <2>1
  <2>. QED
    BY <1>0, <1>2, <2>1, <2>2, <2>3, <2>4, NotesStep DEF TypeOK
<1>6. ASSUME CheckRoot PROVE IInv'
  <2>1. /\ job' = [job EXCEPT !.at = "send"] /\ UNCHANGED <<chain, kept, notes, ui, bundle>>
        /\ Range(job.bundle.out) \subseteq codes
    BY <1>2, <1>6 DEF CheckRoot
  <2>. QED
    BY <1>0, <1>4, <2>1, JobOnlyStep
<1>7. ASSUME SendWithdraw PROVE IInv'
  <2>1. /\ job.at = "send" /\ txs' = Append(txs, Withdrawal)
        /\ UNCHANGED <<leaves, nulls, kept, notes, ui, bundle>>
        /\ \/ job' = [op |-> job.op, at |-> "receipt", pool |-> job.pool, mode |-> job.mode,
                      idx |-> job.idx, out |-> job.bundle.out, tx |-> Len(txs) + 1]
           \/ job' = Idle
    BY <1>7 DEF SendWithdraw, Submit, Finish
  <2>2. /\ job.bundle.root \in Int /\ job.bundle.ins \in SUBSET (Notes \X Int)
        /\ job.bundle.form.dest \in Dests
    BY <1>2 DEF ProofOK, Forms
  <2>3. Withdrawal \in Txs /\ Withdrawal.out = job.bundle.out
    BY <1>2, <1>3, <2>2 DEF Withdrawal, Tx, Txs
  <2>4. JobAt' /\ Creating' /\ Depositing' /\ Scanning' /\ Proving' /\ Sending'
    <3>1. CASE job' = Idle
      BY <3>1, IdleJob
    <3>2. CASE job' = [op |-> job.op, at |-> "receipt", pool |-> job.pool, mode |-> job.mode,
                       idx |-> job.idx, out |-> job.bundle.out, tx |-> Len(txs) + 1]
      <4>1. /\ job'.op = job.op /\ job'.at = "receipt" /\ job'.pool = job.pool
            /\ job'.out = job.bundle.out /\ {"op", "at"} \subseteq DOMAIN job'
        BY <3>2
      <4>2. JobAt' /\ Creating' /\ Depositing' /\ Scanning' /\ Proving'
        BY <1>1, <4>1 DEF JobAt, Creating, Depositing, Scanning, Proving, Scans, Sends
      <4>3. Sending'
        BY <1>1, <1>2, <1>3, <2>1, <4>1, UseFixed DEF Sending, Scans, Sends
      <4>. QED
        BY <4>2, <4>3
    <3>. QED
      BY <2>1, <3>1, <3>2
  <2>. QED
    BY <1>2, <2>1, <2>3, <2>4, SubmitStep
<1>. QED
  BY <1>5, <1>6, <1>7

(* A finished withdrawal marks its notes and takes its change, which was shown. *)
LEMMA FinalizeStep ==
  ASSUME IInv, FinalizeWithdraw \/ RebindChange
  PROVE  IInv'
<1> USE DEF kept, env, chain, ui
<1>0. /\ TypeOK /\ JobAt /\ Creating /\ Depositing /\ Scanning /\ Proving /\ Sending
      /\ ProofOK(bundle) /\ ProofOK(NoProof) /\ Sound(notes, leaves, codes)
      /\ job.op \in {"silent", "wallet"} /\ job.at \in {"receipt", "rebind"}
  BY DEF IInv, FinalizeWithdraw, RebindChange, Receipt, ProofOK, NoProof
<1>1. /\ {"op", "at"} \subseteq DOMAIN job /\ job.pool \in Pools
      /\ job.out \in Seq(Notes) /\ Range(job.out) \subseteq codes
  BY <1>0 DEF JobAt, Sending
<1>2. ASSUME RebindChange PROVE IInv'
  <2>1. PICK ls \in Views(job.pool) :
          SetNotes(BindAll(notes, ls, job.pool), IndexOf(notes, job.out[1]))
    BY <1>2 DEF RebindChange
  <2>2. job' = Idle /\ UNCHANGED <<chain, kept, pool, mode, form, bundle>>
    BY <1>2 DEF RebindChange, Finish
  <2>3. PrefixOf(ls, leaves[job.pool])
    BY <1>0, <1>1, ViewIsPrefix
  <2>4. /\ BindAll(notes, ls, job.pool) \in Seq(NoteRecs)
        /\ Sound(BindAll(notes, ls, job.pool), leaves, codes)
    BY <1>0, <1>1, <2>3, BindAllSound DEF TypeOK
  <2>. QED
    BY <1>0, <2>1, <2>2, <2>4, SetNotesKeeps, IdleJob, NotesStep DEF TypeOK
<1>3. ASSUME FinalizeWithdraw PROVE IInv'
  <2> DEFINE a == MarkSpent(notes, Range(job.idx))
  <2> DEFINE b == [k \in DOMAIN job.out |-> FreshRecord(job.out[k], job.pool)]
  <2>1. /\ notes' = a \o b /\ bundle' = NoProof
        /\ UNCHANGED <<chain, kept, pool, mode, form>>
        /\ spend' = <<>> \/ spend' = Kept(spend, Unspent(notes'))
        /\ job' = [job EXCEPT !.at = "rebind"] \/ job' = Idle
    BY <1>3 DEF FinalizeWithdraw
  <2>2. notes \in Seq(NoteRecs) /\ \A k \in DOMAIN notes : notes[k] \in NoteRecs
    BY <1>0 DEF TypeOK
  <2>3. \A k \in DOMAIN notes :
           LET n == IF k \in Range(job.idx) THEN [notes[k] EXCEPT !.spent = TRUE] ELSE notes[k]
           IN  /\ n \in NoteRecs /\ n.c = notes[k].c /\ n.leaf = notes[k].leaf
               /\ n.pool = notes[k].pool
    BY <2>2 DEF NoteRecs
  <2>4. /\ a \in Seq(NoteRecs) /\ DOMAIN a = DOMAIN notes
        /\ \A k \in DOMAIN notes : /\ a[k].c = notes[k].c /\ a[k].leaf = notes[k].leaf
                                  /\ a[k].pool = notes[k].pool
    BY <2>2, <2>3 DEF MarkSpent
  <2>5. Sound(a, leaves, codes)
    BY <1>0, <2>4 DEF Sound, Lies
  <2>6. \A k \in DOMAIN job.out : /\ FreshRecord(job.out[k], job.pool) \in NoteRecs
                                  /\ FreshRecord(job.out[k], job.pool).c \in codes
                                  /\ FreshRecord(job.out[k], job.pool).leaf = NoLeaf
    BY <1>1 DEF FreshRecord, NoteRecs, NoLeaf, Range
  <2>7. b \in Seq(NoteRecs) /\ Sound(b, leaves, codes)
    BY <1>1, <2>6 DEF Sound, Lies
  <2> HIDE DEF a, b
  <2>8. /\ a \o b \in Seq(NoteRecs)
        /\ \A k \in DOMAIN (a \o b) :
             \/ k \in DOMAIN a /\ (a \o b)[k] = a[k]
             \/ k - Len(a) \in DOMAIN b /\ (a \o b)[k] = b[k - Len(a)]
    BY <2>4, <2>7
  <2>9. Sound(a \o b, leaves, codes)
    BY <2>5, <2>7, <2>8 DEF Sound
  <2>a. spend \in Seq(Nat) /\ Len(spend) <= 2
    BY <1>0 DEF TypeOK
  <2>b. Kept(spend, Unspent(notes')) \in Seq(Nat) /\ Len(Kept(spend, Unspent(notes'))) <= 2
    BY <2>a, KeptType
  <2>10. spend' \in Seq(Nat) /\ Len(spend') <= 2
    <3>1. <<>> \in Seq(Nat) /\ Len(<<>>) <= 2
      OBVIOUS
    <3>. QED
      BY <2>1, <2>b, <3>1
  <2>11. JobAt' /\ Creating' /\ Depositing' /\ Scanning' /\ Proving' /\ Sending'
    <3>1. CASE job' = Idle
      BY <3>1, IdleJob
    <3>2. CASE job' = [job EXCEPT !.at = "rebind"]
      <4>1. /\ job'.op = job.op /\ job'.at = "rebind" /\ job'.pool = job.pool
            /\ job'.out = job.out /\ DOMAIN job' = DOMAIN job
        BY <1>1, <3>2
      <4>. QED
        BY <1>0, <1>1, <2>1, <4>1, UseFixed
           DEF JobAt, Creating, Depositing, Scanning, Proving, Sending, Scans, Sends
    <3>. QED
      BY <2>1, <3>1, <3>2
  <2>. QED
    BY <1>0, <2>1, <2>8, <2>9, <2>10, <2>11, NotesStep DEF TypeOK
<1>. QED
  BY <1>2, <1>3

----------------------------------------------------------------------------
(* Theorems. *)

(* A new tab satisfies the invariant. *)
LEMMA InitIInv == Init => IInv
<1> SUFFICES ASSUME Init PROVE IInv
  OBVIOUS
<1>a. use \in Uses /\ away \in BOOLEAN /\ codes \subseteq Notes
      /\ pool \in Pools /\ mode \in Modes /\ form \in Forms
  BY DEF Init
<1>b. leaves \in [Pools -> Seq(Notes)]
  BY DEF Init
<1>c. txs \in Seq(Txs) /\ vault \in Seq(NoteRecs) /\ notes \in Seq(NoteRecs)
  BY DEF Init
<1>d. spend \in Seq(Nat) /\ Len(spend) <= 2
  BY DEF Init
<1>1. TypeOK
  BY <1>a, <1>b, <1>c, <1>d DEF TypeOK
<1>2. ProofOK(bundle)
  BY DEF Init, ProofOK, NoProof
<1>3. /\ Sound(notes, leaves, codes) /\ CoveredByCode
      /\ \A k \in DOMAIN vault : vault[k].c \in codes /\ vault[k].pool = NoPool
  BY DEF Init, Sound, CoveredByCode, Range
<1>4. JobAt /\ Creating /\ Depositing /\ Scanning /\ Proving /\ Sending
  BY DEF Init, Idle, JobAt, Creating, Depositing, Scanning, Proving, Sending
<1>. QED
  BY <1>1, <1>2, <1>3, <1>4 DEF IInv

(* Every step of the wallet and the chain keeps it. *)
LEMMA NextIInv == IInv /\ [Next]_vars => IInv'
<1> SUFFICES ASSUME IInv, [Next]_vars PROVE IInv'
  OBVIOUS
<1>1. ASSUME UNCHANGED vars PROVE IInv'
  BY <1>1, QuietStep DEF vars, env, chain, IInv, TypeOK
<1>2. ASSUME JobStep PROVE IInv'
  BY <1>2, CreateStep, ReadStep, ScanStep, EndStep, DepositStep, ProveStep, SendStep, FinalizeStep
     DEF JobStep
<1>3. ASSUME Click PROVE IInv'
  BY <1>3, BeginStep, SessionStep, SelectionStep DEF Click
<1>4. ASSUME WhileBusy PROVE IInv'
  BY <1>4, SelectionStep, SessionStep DEF WhileBusy
<1>5. ASSUME Chain PROVE IInv'
  BY <1>5, ChainStep DEF Chain
<1>6. ASSUME ChangeNetwork PROVE IInv'
  BY <1>6, SelectionStep
<1>. QED
  BY <1>1, <1>2, <1>3, <1>4, <1>5, <1>6 DEF Next

(* Every reachable state of a tab is sound: what each job captured still fits the *)
(* pools, the codes and the session it will write to.                             *)
THEOREM WalletInvariant == Spec => []IInv
BY InitIInv, NextIInv, PTL DEF Spec

(* A leaf index recorded for a pool is where the note lies in that pool, whatever *)
(* pools were scanned, however far the endpoints were behind.                     *)
THEOREM RecordedLeavesLie == Spec => []BoundWhereItLies
<1>1. IInv => BoundWhereItLies
  BY DEF IInv, Sound, Lies, BoundWhereItLies
<1>. QED
  BY <1>1, WalletInvariant, PTL

(* No commitment receives money before its Recovery Code has been shown. *)
THEOREM MoneyIsCovered == Spec => []CoveredByCode
<1>1. IInv => CoveredByCode
  BY DEF IInv
<1>. QED
  BY <1>1, WalletInvariant, PTL

(* A merge proof spends two different notes. *)
THEOREM MergeSpendsTwo == Spec => []MergesDistinctNotes
<1>1. IInv => MergesDistinctNotes
  BY DEF IInv, ProofOK, Distinct, MergesDistinctNotes
<1>. QED
  BY <1>1, WalletInvariant, PTL

(* Only a send adds a transaction. *)
LEMMA OnlySendsSend ==
  ASSUME IInv, [Next]_vars, Len(txs') > Len(txs)
  PROVE  SendDeposit \/ SendWithdraw
<1> USE DEF kept, env, chain, ui
<1>1. txs \in Seq(Txs) /\ Len(txs) \in Nat
  BY DEF IInv, TypeOK
<1>2. txs' # txs
  BY <1>1
<1>3. ASSUME NEW k \in DOMAIN txs, Mine(k) \/ Drop(k) \/ MineAstray(k) PROVE FALSE
  <2>1. PICK st : txs' = [txs EXCEPT ![k] = [status |-> st]]
    BY <1>3 DEF Mine, Drop, MineAstray, Settle
  <2>2. [status |-> st] \in {[status |-> st]} /\ txs \in Seq(Txs \cup {[status |-> st]})
    BY <1>1
  <2>3. Len(txs') = Len(txs)
    BY <2>1, <2>2
  <2>. QED
    BY <1>1, <2>3
<1>4. ASSUME WhileBusy \/ Click \/ ChangeNetwork PROVE FALSE
  BY <1>2, <1>4 DEF WhileBusy, Click, ChangeNetwork, SelectNote, ToggleSpend, TypeForm,
     AutoSelectPair, Reload, BeginCreate, BeginImport, BeginDeposit, BeginSync, ExportVault,
     ImportVault, BeginWithdraw, BeginWalletSend, ClearTab, SwitchMode, SwitchPool
<1>5. ASSUME JobStep, ~SendDeposit, ~SendWithdraw PROVE FALSE
  BY <1>2, <1>5 DEF JobStep, AdmitAfterSave, ReadLeaves, FinishScan, Fail, ConfirmDeposit,
     DepositUnconfirmed, RebindDeposited, FinishCheck, Prove, ReuseProof, SaveChange, CheckRoot,
     WithdrawUnconfirmed, FinalizeWithdraw, RebindChange
<1>. QED
  BY <1>2, <1>3, <1>4, <1>5 DEF Next, Chain, vars

(* How the user behaves is fixed throughout. *)
LEMMA UseStays ==
  ASSUME [Next]_vars
  PROVE  use' = use
BY DEF Next, vars, env, kept, chain, ui, JobStep, Click, WhileBusy, Chain, ChangeNetwork,
   Mine, Drop, MineAstray, SelectNote, ToggleSpend, TypeForm,
   AutoSelectPair, Reload, BeginCreate, BeginImport, BeginDeposit, BeginSync, ExportVault,
   ImportVault, BeginWithdraw, BeginWalletSend, ClearTab, SwitchMode, SwitchPool,
   AdmitAfterSave, ReadLeaves, FinishScan, Fail, ConfirmDeposit, SendDeposit, SendWithdraw,
   DepositUnconfirmed, RebindDeposited, FinishCheck, Prove, ReuseProof, SaveChange, CheckRoot,
   WithdrawUnconfirmed, FinalizeWithdraw, RebindChange

(* A job that sends from the browser's wallet begins as one. *)
LEMMA OpStays ==
  ASSUME IInv, [Next]_vars
  PROVE  job' = job \/ job'.op = job.op \/ job' = Idle \/ job'.op # "wallet" \/ "wallet" \in Routes
<1> USE DEF Start, Finish
<1>1. {"op", "at"} \subseteq DOMAIN job
  BY DEF IInv, JobAt
<1>2. ASSUME JobStep PROVE job' = job \/ job'.op = job.op \/ job' = Idle
  <2>1. ASSUME AdmitAfterSave \/ FinishScan \/ Fail \/ RebindDeposited \/ WithdrawUnconfirmed
               \/ RebindChange
        PROVE  job' = Idle
    BY <2>1 DEF AdmitAfterSave, FinishScan, Fail, RebindDeposited, WithdrawUnconfirmed, RebindChange
  <2>2. ASSUME ReadLeaves \/ ConfirmDeposit \/ SendDeposit \/ DepositUnconfirmed \/ FinishCheck
               \/ SaveChange \/ CheckRoot \/ FinalizeWithdraw
        PROVE  job'.op = job.op \/ job' = Idle
    BY <1>1, <2>2 DEF ReadLeaves, ConfirmDeposit, SendDeposit, DepositUnconfirmed, FinishCheck,
       SaveChange, CheckRoot, FinalizeWithdraw
  <2>3. ASSUME Prove \/ ReuseProof \/ SendWithdraw
        PROVE  job'.op = job.op \/ job' = Idle
    <3>1. ASSUME Prove
          PROVE  job' = Idle \/ \E b : job' = [job EXCEPT !.at = "save", !.notes = <<>>, !.bundle = b]
      <4>1. CASE job.op = "silent"
        BY <3>1, <4>1 DEF Prove
      <4>2. CASE job.op # "silent"
        BY <3>1, <4>2 DEF Prove
      <4>. QED
        BY <4>1, <4>2
    <3>2. ASSUME ReuseProof PROVE job'.op = job.op
      BY <1>1, <3>2 DEF ReuseProof
    <3>3. ASSUME SendWithdraw PROVE job'.op = job.op \/ job' = Idle
      BY <3>3 DEF SendWithdraw
    <3>. QED
      BY <1>1, <2>3, <3>1, <3>2, <3>3
  <2>. QED
    BY <1>2, <2>1, <2>2, <2>3 DEF JobStep
<1>3. ASSUME Click PROVE job' = job \/ job' = Idle \/ job'.op # "wallet" \/ "wallet" \in Routes
  BY <1>3 DEF Click, BeginCreate, BeginImport, BeginDeposit, BeginSync, ExportVault,
     ImportVault, BeginWithdraw, ClearTab, SwitchMode, SwitchPool
<1>4. ASSUME WhileBusy PROVE job' = job \/ job' = Idle
  BY <1>4 DEF WhileBusy, SelectNote, ToggleSpend, TypeForm, AutoSelectPair, Reload
<1>5. ASSUME Chain \/ ChangeNetwork \/ UNCHANGED vars PROVE job' = job
  BY <1>5 DEF Chain, Mine, Drop, MineAstray, ChangeNetwork, vars
<1>. QED
  BY <1>2, <1>3, <1>4, <1>5 DEF Next

(* A withdrawal pays the destination that was on the form when Send was clicked: *)
(* a silent send does not reuse a proof for another one.  A wallet send does not  *)
(* compare the two, so that it is only safe where there is one destination.       *)
THEOREM PaidAsTyped ==
  ASSUME \A u \in Uses : "wallet" \in u.routes => \A d, e \in u.dests : d = e
  PROVE  Spec => PaysTypedDestination
<1> DEFINE Allowed == use \in Uses /\ (job.op = "wallet" => "wallet" \in Routes)
<1> DEFINE Pays == Len(txs') > Len(txs) /\ txs'[Len(txs')].kind = "withdraw"
                     => txs'[Len(txs')].to = job.form.dest
<1>1. Init => Allowed
  BY DEF Init, Idle
<1>2. Allowed /\ IInv /\ [Next]_vars => Allowed'
  <2> SUFFICES ASSUME Allowed, IInv, [Next]_vars PROVE Allowed'
    OBVIOUS
  <2>1. use' = use /\ Routes' = Routes
    BY UseStays DEF Routes
  <2>2. job'.op = "wallet" => job.op = "wallet" \/ "wallet" \in Routes
    BY OpStays DEF Idle
  <2>. QED
    BY <2>1, <2>2
<1>3. Allowed /\ IInv /\ [Next]_vars => [Pays]_vars
  <2> SUFFICES ASSUME Allowed, IInv, [Next]_vars, Len(txs') > Len(txs),
                      txs'[Len(txs')].kind = "withdraw"
               PROVE  txs'[Len(txs')].to = job.form.dest
    OBVIOUS
  <2>1. txs \in Seq(Txs) /\ JobAt /\ Creating /\ Depositing /\ Scanning /\ Sending
    BY DEF IInv, TypeOK
  <2>2. ASSUME SendDeposit PROVE FALSE
    <3>1. PICK t : txs' = Append(txs, t) /\ t.kind = "deposit"
      BY <2>2 DEF SendDeposit, Submit, Tx
    <3>2. txs \in Seq(Txs \cup {t})
      BY <2>1
    <3>3. txs'[Len(txs')] = t
      BY <3>1, <3>2
    <3>. QED
      BY <3>1, <3>3
  <2>3. ASSUME SendWithdraw PROVE txs'[Len(txs')].to = job.form.dest
    <3>1. txs' = Append(txs, Withdrawal) /\ Withdrawal.to = job.bundle.form.dest /\ job.at = "send"
      BY <2>3 DEF SendWithdraw, Submit, Withdrawal, Tx
    <3>2. job.op \in {"silent", "wallet"}
      BY <2>1, <3>1 DEF JobAt, Idle, Creating, Depositing, Sending, Scans, Sends
    <3>3. job.op = "silent" => job.bundle.form.dest = job.form.dest
      BY <2>1, <3>1 DEF Sending, Sends
    <3>4. ASSUME job.op = "wallet" PROVE job.bundle.form.dest = job.form.dest
      <4>1. job.form \in Forms /\ job.bundle.form \in Forms
        BY <2>1, <3>1, <3>4, ModesAssumption DEF Sending, Sends, ProofOK, Modes
      <4>2. job.form.dest \in Dests /\ job.bundle.form.dest \in Dests
        BY <4>1 DEF Forms
      <4>. QED
        BY <3>4, <4>2 DEF Routes, Dests
    <3>5. job.bundle.form.dest = job.form.dest
      BY <3>2, <3>3, <3>4
    <3>6. txs \in Seq(Txs \cup {Withdrawal})
      BY <2>1
    <3> HIDE DEF Withdrawal
    <3>7. txs'[Len(txs')] = Withdrawal
      BY <3>1, <3>6
    <3>. QED
      BY <3>1, <3>5, <3>7
  <2>. QED
    BY <2>2, <2>3, OnlySendsSend
<1>. QED
  BY <1>1, <1>2, <1>3, WalletInvariant, PTL DEF Spec, PaysTypedDestination
=============================================================================
