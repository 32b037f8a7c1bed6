-------------------------- MODULE CliWallet_proofs --------------------------
(***************************************************************************)
(* Proofs about the files the command line client and the Python client    *)
(* share, for any commitments, any number of commands at a time, any note  *)
(* store and any ways of use: the specification is BothSpec, in which both *)
(* clients work on the same files.                                         *)
(***************************************************************************)
EXTENDS PythonClient, NumberTheorems, FiniteSetTheorems, TLAPS

(* Marks are found by scanning; a state kept by hand says where leaves are said *)
(* to be.  A use types one or the other.                                        *)
ByHandOrScanned == \A u \in Uses : ~({"append", "scan"} \subseteq u.cmds)

Fetches == "append" \notin use.cmds

Leaf == Nat \cup {NoLeaf}
Everybodys == Notes \cup UNION {u.others : u \in Uses}
Records == [c : Notes, leaf : Leaf, hint : {"unspent", "spent"}]
FileRecords == [name : Notes \cup Nat, c : Notes, leaf : Leaf]
Docs == [ins : Seq(Notes \X Leaf), root : Seq(Everybodys), out : Notes \cup {NoDoc}]

(* The first leaf of a commitment, which is where a fetched state finds it.     *)
FirstLeaf(c, leaf) ==
    /\ leaf \in DOMAIN leaves /\ leaves[leaf] = c
    /\ \A j \in 1 .. leaf - 1 : leaves[j] # c

(* A record, wherever it is kept, is of a note this client made, at its leaf,   *)
(* and marked only when the pool has its nullifier.                             *)
Told(c, leaf) == c \in made /\ (Fetches /\ leaf # NoLeaf => FirstLeaf(c, leaf))
Good(r) ==
    /\ Told(r.c, r.leaf)
    /\ r.hint = "spent" => "scan" \in use.cmds /\ r.leaf # NoLeaf /\ <<r.c, r.leaf>> \in spent
Once(store) == \A i, j \in DOMAIN store : store[i].c = store[j].c => i = j
Sound(store) ==
    /\ store \in Seq(Records) /\ Once(store)
    /\ \A i \in DOMAIN store : Good(store[i])
FileOK(f) == f \in FileRecords /\ Told(f.c, f.leaf) /\ (use.own => f.name = f.c)

(* What a command fetched, or has of a fetched state, is a prefix of the pool.  *)
Prefix(s, t) ==
    /\ s \in Seq(Everybodys) /\ t \in Seq(Everybodys) /\ Len(s) <= Len(t)
    /\ \A i \in 1 .. Len(s) : s[i] = t[i]
Snapshot(s) == s \in Seq(Everybodys) /\ (Fetches => Prefix(s, leaves))

(* The files in which the secrets of a note stay, once they are there.          *)
Durable == Commitments(notes) \cup {f.c : f \in changes \cup sealed}
OutDurable(d) == Careful => {d.out} \cap Notes \subseteq Durable
DocOK(d) == d # NoDoc => d \in Docs /\ OutDurable(d)

(* What a running command has in memory.                                        *)
JobOK(j) ==
    \/ j = Idle
    \/ /\ j \in [cmd : Rewriters, source : Sources, mem : Seq(Records), todo : Seq(Nat),
                 snap : Seq(Everybodys) \cup {NoDoc}]
       /\ Sound(j.mem) /\ \A k \in DOMAIN j.todo : j.todo[k] \in DOMAIN j.mem
       /\ j.snap # NoDoc => Snapshot(j.snap)
       /\ j.cmd \in {"scan", "pyscan"} => "scan" \in use.cmds
    \/ j \in [cmd : {"parts"}, left : Nat \ {0}]
    \/ /\ j \in [cmd : {"fetch", "pyfetch"}, anchor : Seq(Everybodys)]
       /\ Prefix(j.anchor, leaves)
    \/ /\ j \in [cmd : {"prove"}, kind : Kinds, doc : Docs, saved : BOOLEAN]
       /\ IF j.saved THEN OutDurable(j.doc) ELSE j.doc.out \in made

(* One command at a time rewrites the store of a careful user, and it writes    *)
(* what it read and more.                                                       *)
OneRewrites ==
    use.apart =>
       /\ \A s, t \in Slots :
             jobs[s].cmd \in StoreJobs /\ jobs[t].cmd \in StoreJobs => s = t
       /\ \A s \in Slots :
             jobs[s].cmd \in Rewriters => Commitments(notes) \subseteq Commitments(jobs[s].mem)

WorldOK ==
    /\ use \in Uses /\ made \subseteq Notes /\ leaves \in Seq(Everybodys)
    /\ Careful => Range(leaves) \cap Notes \subseteq Durable
StoresOK ==
    /\ Sound(notes) /\ Sound(backup) /\ Sound(apnote)
    /\ IsFiniteSet(sealed) /\ \A f \in changes \cup sealed : FileOK(f)
DocsOK ==
    /\ proofs \in [Kinds -> Docs \cup {NoDoc}] /\ calls \in [Kinds -> Docs \cup {NoDoc}]
    /\ \A k \in Kinds : DocOK(proofs[k]) /\ DocOK(calls[k])
    /\ \A d \in pending : d # NoDoc /\ DocOK(d)
JobsOK == DOMAIN jobs = Slots /\ \A s \in Slots : JobOK(jobs[s])

CliInv ==
    WorldOK /\ StoresOK /\ Snapshot(state) /\ DocsOK /\ JobsOK /\ OneRewrites

-----------------------------------------------------------------------------
(* Sequences of records.                                                       *)

(* What occurs in a sequence has a first place there.                           *)
LEMMA FirstIndex ==
  ASSUME NEW t \in Seq(Everybodys), NEW c, c \in Range(t)
  PROVE  \E i \in DOMAIN t : t[i] = c /\ \A j \in 1 .. i - 1 : t[j] # c
<1> DEFINE at == {i \in DOMAIN t : t[i] = c}
<1>1. at \subseteq Nat /\ at # {} /\ DOMAIN t = 1 .. Len(t) /\ Len(t) \in Nat
  BY DEF Range
<1>2. PICK i \in at : \A j \in at : i <= j
  BY <1>1, LeastNatural
<1>3. ASSUME NEW j \in 1 .. i - 1 PROVE t[j] # c
  <2>1. i \in 1 .. Len(t)
    BY <1>1
  <2>2. j \in 1 .. Len(t) /\ ~(i <= j)
    BY <1>1, <2>1
  <2>. QED
    BY <1>1, <1>2, <2>2
<1>. QED
  BY <1>2, <1>3

(* findCommitmentIndex of either client finds the first leaf, or none.         *)
LEMMA LeafOfIsFirst ==
  ASSUME NEW t \in Seq(Everybodys), NEW c, LeafOf(t, c) # NoLeaf
  PROVE  /\ LeafOf(t, c) \in DOMAIN t /\ t[LeafOf(t, c)] = c
         /\ \A j \in 1 .. LeafOf(t, c) - 1 : t[j] # c
<1>1. c \in Range(t)
  BY DEF LeafOf
<1>2. \E i \in DOMAIN t : t[i] = c /\ \A j \in 1 .. i - 1 : t[j] # c
  BY <1>1, FirstIndex
<1>3. LeafOf(t, c) = CHOOSE i \in DOMAIN t : t[i] = c /\ \A j \in 1 .. i - 1 : t[j] # c
  BY <1>1 DEF LeafOf
<1>. QED
  BY <1>2, <1>3

(* find_commitment_index of the Python client finds the first leaf, or none.    *)
LEMMA PyFindsFirst ==
  ASSUME NEW t \in Seq(Everybodys), NEW c, PyFindCommitmentIndex(t, c) # NoLeaf
  PROVE  /\ PyFindCommitmentIndex(t, c) \in DOMAIN t /\ t[PyFindCommitmentIndex(t, c)] = c
         /\ \A j \in 1 .. PyFindCommitmentIndex(t, c) - 1 : t[j] # c
<1> DEFINE at == {i \in DOMAIN t : t[i] = c}
<1>1. at # {} /\ PyFindCommitmentIndex(t, c) = Min(at)
  BY DEF PyFindCommitmentIndex
<1>2. at \subseteq Nat /\ DOMAIN t = 1 .. Len(t) /\ Len(t) \in Nat
  OBVIOUS
<1>3. \E i \in at : \A j \in at : i <= j
  BY <1>1, <1>2, LeastNatural
<1> DEFINE i == Min(at)
<1>4. i \in at /\ \A j \in at : i <= j
  BY <1>3 DEF Min
<1> HIDE DEF i
<1>5. i \in 1 .. Len(t) /\ t[i] = c
  BY <1>2, <1>4
<1>6. ASSUME NEW j \in 1 .. i - 1 PROVE t[j] # c
  <2>1. j \in 1 .. Len(t) /\ ~(i <= j)
    BY <1>2, <1>5
  <2>. QED
    BY <1>2, <1>4, <2>1
<1>. QED
  BY <1>1, <1>2, <1>5, <1>6 DEF i

(* The first leaf in a prefix of the pool is the first in the pool.            *)
LEMMA FirstInPrefix ==
  ASSUME NEW t, Prefix(t, leaves), NEW c, NEW i, i \in DOMAIN t, t[i] = c,
         \A j \in 1 .. i - 1 : t[j] # c
  PROVE  FirstLeaf(c, i)
<1>1. /\ i \in 1 .. Len(t) /\ DOMAIN leaves = 1 .. Len(leaves)
      /\ Len(t) \in Nat /\ Len(leaves) \in Nat /\ Len(t) <= Len(leaves)
  BY DEF Prefix
<1>2. i \in DOMAIN leaves /\ leaves[i] = c
  BY <1>1 DEF Prefix
<1>3. \A j \in 1 .. i - 1 : leaves[j] = t[j]
  BY <1>1 DEF Prefix
<1>. QED
  BY <1>2, <1>3 DEF FirstLeaf

(* A commitment has one first leaf.                                             *)
LEMMA FirstLeafIsOne ==
  ASSUME leaves \in Seq(Everybodys), NEW c, NEW i, NEW j, FirstLeaf(c, i), FirstLeaf(c, j)
  PROVE  i = j
<1>1. i \in Nat /\ j \in Nat /\ i # 0 /\ j # 0
  BY DEF FirstLeaf
<1>2. ~(i < j) /\ ~(j < i)
  BY <1>1 DEF FirstLeaf
<1>. QED
  BY <1>1, <1>2

(* A leaf that was found is where the note is.                                 *)
LEMMA FoundLeaf ==
  ASSUME NEW t, Snapshot(t), NEW c \in made, LeafOf(t, c) # NoLeaf
  PROVE  LeafOf(t, c) \in Nat /\ Told(c, LeafOf(t, c))
<1>1. t \in Seq(Everybodys)
  BY DEF Snapshot
<1>2. /\ LeafOf(t, c) \in DOMAIN t /\ t[LeafOf(t, c)] = c
      /\ \A j \in 1 .. LeafOf(t, c) - 1 : t[j] # c
  BY <1>1, LeafOfIsFirst
<1>3. LeafOf(t, c) \in Nat
  BY <1>1, <1>2
<1>4. Fetches => FirstLeaf(c, LeafOf(t, c))
  BY <1>2, FirstInPrefix DEF Snapshot
<1>. QED
  BY <1>3, <1>4 DEF Told

(* The same of a leaf the Python client found.                                  *)
LEMMA PyFoundLeaf ==
  ASSUME NEW t, Snapshot(t), NEW c \in made, PyFindCommitmentIndex(t, c) # NoLeaf
  PROVE  PyFindCommitmentIndex(t, c) \in Nat /\ Told(c, PyFindCommitmentIndex(t, c))
<1>1. t \in Seq(Everybodys)
  BY DEF Snapshot
<1>2. /\ PyFindCommitmentIndex(t, c) \in DOMAIN t /\ t[PyFindCommitmentIndex(t, c)] = c
      /\ \A j \in 1 .. PyFindCommitmentIndex(t, c) - 1 : t[j] # c
  BY <1>1, PyFindsFirst
<1>3. PyFindCommitmentIndex(t, c) \in Nat
  BY <1>1, <1>2
<1>4. Fetches => FirstLeaf(c, PyFindCommitmentIndex(t, c))
  BY <1>2, FirstInPrefix DEF Snapshot
<1>. QED
  BY <1>3, <1>4 DEF Told

(* A new record has its commitment and its leaf, and no mark.                   *)
LEMMA RecordIs ==
  ASSUME NEW c \in Notes, NEW leaf \in Leaf
  PROVE  /\ Record(c, leaf) \in Records /\ Record(c, leaf).c = c
         /\ Record(c, leaf).leaf = leaf /\ Record(c, leaf).hint = "unspent"
BY DEF Record, Records

(* An empty store, or a file that is not there, is sound.                       *)
LEMMA EmptyIsSound == Sound(<<>>)
<1>1. <<>> \in Seq(Records) /\ DOMAIN <<>> = {}
  OBVIOUS
<1>. QED
  BY <1>1 DEF Sound, Once

(* A record of a note the store has not yet, put at its end.                    *)
LEMMA AppendSound ==
  ASSUME NEW store, Sound(store), NEW r \in Records, Good(r), r.c \notin Commitments(store)
  PROVE  /\ Sound(Append(store, r))
         /\ Commitments(Append(store, r)) = Commitments(store) \cup {r.c}
<1> DEFINE new == Append(store, r)
           n == Len(store)
<1>1. /\ store \in Seq(Records) /\ n \in Nat /\ new \in Seq(Records) /\ Len(new) = n + 1
      /\ \A i \in 1 .. n : new[i] = store[i]
      /\ new[n + 1] = r /\ DOMAIN store = 1 .. n /\ DOMAIN new = 1 .. n + 1
  BY DEF Sound
<1> HIDE DEF new, n
<1>2. \A i \in 1 .. n + 1 : i \in 1 .. n \/ i = n + 1
  BY <1>1
<1>3. \A i \in 1 .. n : store[i].c # r.c
  BY <1>1 DEF Commitments
<1>4. Once(new)
  <2> SUFFICES ASSUME NEW i \in 1 .. n + 1, NEW j \in 1 .. n + 1, new[i].c = new[j].c
      PROVE i = j
    BY <1>1 DEF Once
  <2>. QED
    BY <1>1, <1>2, <1>3 DEF Sound, Once
<1>5. \A i \in DOMAIN new : Good(new[i])
  BY <1>1, <1>2 DEF Sound
<1>6. Commitments(new) = Commitments(store) \cup {r.c}
  <2>1. 1 .. n + 1 = 1 .. n \cup {n + 1}
    BY <1>1
  <2>. QED
    BY <1>1, <2>1 DEF Commitments
<1>. QED
  BY <1>1, <1>4, <1>5, <1>6 DEF Sound, new

(* A record replaced by one of the same note.                                  *)
LEMMA ReplaceSound ==
  ASSUME NEW store, Sound(store), NEW i \in DOMAIN store, NEW r \in Records, Good(r),
         r.c = store[i].c
  PROVE  /\ Sound([store EXCEPT ![i] = r])
         /\ Commitments([store EXCEPT ![i] = r]) = Commitments(store)
<1> DEFINE new == [store EXCEPT ![i] = r]
<1>1. store \in Seq(Records) /\ Once(store)
  BY DEF Sound
<1>2. /\ new \in Seq(Records) /\ DOMAIN new = DOMAIN store
      /\ \A k \in DOMAIN store : new[k] = IF k = i THEN r ELSE store[k]
  BY <1>1
<1> HIDE DEF new
<1>3. \A k \in DOMAIN store : new[k].c = store[k].c
  BY <1>2
<1>4. Sound(new)
  BY <1>1, <1>2, <1>3 DEF Sound, Once
<1>5. Commitments(new) = Commitments(store)
  BY <1>2, <1>3 DEF Commitments
<1>. QED
  BY <1>4, <1>5 DEF new

(* The store without one record.                                               *)
LEMMA RemoveSound ==
  ASSUME NEW store, Sound(store), NEW i \in DOMAIN store
  PROVE  /\ Sound(RemoveAt(store, i))
         /\ Commitments(store) \subseteq Commitments(RemoveAt(store, i)) \cup {store[i].c}
         /\ Commitments(RemoveAt(store, i)) \subseteq Commitments(store)
<1> DEFINE new == RemoveAt(store, i)
           n == Len(store)
           front == SubSeq(store, 1, i - 1)
           back == SubSeq(store, i + 1, n)
           from(k) == IF k < i THEN k ELSE k + 1
<1>1. store \in Seq(Records) /\ n \in Nat /\ i \in 1 .. n /\ DOMAIN store = 1 .. n
  BY DEF Sound
<1>2. /\ front \in Seq(Records) /\ Len(front) = i - 1
      /\ \A k \in 1 .. i - 1 : front[k] = store[k]
  BY <1>1
<1>3. /\ back \in Seq(Records) /\ Len(back) = n - i
      /\ \A k \in 1 .. n - i : back[k] = store[i + k]
  BY <1>1
<1>4. new = front \o back
  BY DEF RemoveAt
<1> HIDE DEF front, back, new
<1>12. \A m \in 1 .. Len(back) : new[Len(front) + m] = back[m]
  <2>1. front \in Seq(Records) /\ back \in Seq(Records)
    BY <1>2, <1>3
  <2>. QED
    BY ONLY <1>4, <2>1, ConcatIs
<1>13. \A m \in 1 .. Len(front) : new[m] = front[m]
  <2>1. front \in Seq(Records) /\ back \in Seq(Records)
    BY <1>2, <1>3
  <2>. QED
    BY ONLY <1>4, <2>1, ConcatIs
<1>5. new \in Seq(Records) /\ Len(new) = n - 1 /\ DOMAIN new = 1 .. n - 1
  <2>1. Len(new) = Len(front) + Len(back) /\ new \in Seq(Records)
    BY ONLY <1>2, <1>3, <1>4, ConcatIs
  <2>. QED
    BY <1>1, <1>2, <1>3, <2>1
<1>6. ASSUME NEW k \in 1 .. n - 1 PROVE new[k] = store[from(k)] /\ from(k) \in 1 .. n
  <2>1. CASE k < i
    <3>1. k \in 1 .. i - 1 /\ k \in 1 .. Len(front)
      BY <1>1, <1>2, <2>1
    <3>2. new[k] = front[k]
      BY ONLY <1>13, <3>1
    <3>. QED
      BY <1>1, <1>2, <2>1, <3>1, <3>2
  <2>2. CASE ~(k < i)
    <3>1. /\ k - (i - 1) \in 1 .. n - i /\ k = Len(front) + (k - (i - 1))
          /\ i + (k - (i - 1)) = k + 1
      BY <1>1, <1>2, <2>2
    <3>3. k - (i - 1) \in 1 .. Len(back)
      BY <1>3, <3>1
    <3>2. new[Len(front) + (k - (i - 1))] = back[k - (i - 1)]
      BY ONLY <1>12, <3>3
    <3>4. new[k] = store[k + 1]
      BY <1>3, <3>1, <3>2
    <3>. QED
      BY <1>1, <2>2, <3>4
  <2>. QED
    BY <2>1, <2>2
<1>7. \A k, m \in 1 .. n - 1 : from(k) = from(m) => k = m
  BY <1>1
<1>8. \A k \in 1 .. n : k # i => \E m \in 1 .. n - 1 : from(m) = k
  <2> SUFFICES ASSUME NEW k \in 1 .. n, k # i PROVE \E m \in 1 .. n - 1 : from(m) = k
    OBVIOUS
  <2>1. CASE k < i
    BY <1>1, <2>1
  <2>2. CASE k > i
    <3>1. k - 1 \in 1 .. n - 1 /\ from(k - 1) = k
      BY <1>1, <2>2
    <3>. QED
      BY <3>1
  <2>. QED
    BY <1>1, <2>1, <2>2
<1> HIDE DEF from, n
<1>9. Sound(new)
  BY <1>1, <1>5, <1>6, <1>7 DEF Sound, Once
<1>10. Commitments(store) \subseteq Commitments(new) \cup {store[i].c}
  <2> SUFFICES ASSUME NEW k \in 1 .. n, k # i PROVE store[k].c \in Commitments(new)
    BY <1>1 DEF Commitments
  <2>1. PICK m \in 1 .. n - 1 : from(m) = k
    BY <1>8
  <2>2. new[m] = store[k]
    BY <1>6, <2>1
  <2>. QED
    BY <1>5, <2>1, <2>2 DEF Commitments
<1>11. Commitments(new) \subseteq Commitments(store)
  BY <1>1, <1>5, <1>6 DEF Commitments
<1>. QED
  BY <1>9, <1>10, <1>11 DEF new

(* Records taken one after the other, those the store has left out.            *)
LEMMA MergedSound ==
  ASSUME NEW store, Sound(store), NEW imported \in Seq(Records),
         \A i \in DOMAIN imported : Good(imported[i])
  PROVE  /\ Sound(Merged(store, imported))
         /\ Commitments(store) \subseteq Commitments(Merged(store, imported))
<1> DEFINE X == Seq(Records)
           Taken(s, r) == IF r.c \in Commitments(s) THEN s ELSE Append(s, r)
           n == Len(imported)
           G == [p \in X \X Nat |-> IF p[2] \in 1 .. n THEN Taken(p[1], imported[p[2]]) ELSE p[1]]
           IsFold(f) == f = [k \in 0 .. n |-> IF k = 0 THEN store
                                ELSE IF imported[k].c \in Commitments(f[k - 1]) THEN f[k - 1]
                                ELSE Append(f[k - 1], imported[k])]
           upTo == CHOOSE f : IsFold(f)
<1>1. n \in Nat /\ DOMAIN imported = 1 .. n /\ store \in X /\ \A i \in 1 .. n : imported[i] \in Records
  BY DEF Sound
<1>2. Merged(store, imported) = upTo[n]
  BY DEF Merged
<1>3. \E f : IsFold(f)
  <2>1. G \in [X \X Nat -> X]
    <3> SUFFICES ASSUME NEW p \in X \X Nat
        PROVE (IF p[2] \in 1 .. n THEN Taken(p[1], imported[p[2]]) ELSE p[1]) \in X
      OBVIOUS
    <3>1. p[1] \in X
      OBVIOUS
    <3>2. \A r \in Records : Taken(p[1], r) \in X
      BY <3>1
    <3>. QED
      BY <1>1, <3>1, <3>2
  <2>2. \A s \in X, k \in 1 .. n : G[<<s, k>>] = Taken(s, imported[k])
    BY <1>1
  <2>0. store \in X
    BY <1>1
  <2> HIDE DEF X, G
  <2>8. PICK f : Iterates(f, X, store, G)
    BY ONLY <2>0, <2>1, RecursionOnNat
  <2>3. f \in [Nat -> X] /\ f[0] = store /\ \A k \in Nat : f[k + 1] = G[<<f[k], k + 1>>]
    BY <2>8 DEF Iterates
  <2>4. ASSUME NEW k \in 1 .. n PROVE f[k] = Taken(f[k - 1], imported[k])
    <3>1. k - 1 \in Nat /\ (k - 1) + 1 = k
      BY <1>1
    <3>2. f[k] = G[<<f[k - 1], k>>] /\ f[k - 1] \in X
      BY <2>3, <3>1
    <3>. QED
      BY <2>2, <3>2
  <2> DEFINE g == [k \in 0 .. n |-> f[k]]
  <2>5. ASSUME NEW k \in 0 .. n
        PROVE  g[k] = IF k = 0 THEN store
                      ELSE IF imported[k].c \in Commitments(g[k - 1]) THEN g[k - 1]
                      ELSE Append(g[k - 1], imported[k])
    <3>1. CASE k = 0
      BY <3>1, <2>3
    <3>2. CASE k # 0
      <4>1. k \in 1 .. n /\ k - 1 \in 0 .. n
        BY <1>1, <3>2
      <4>. QED
        BY <3>2, <4>1, <2>4
    <3>. QED
      BY <3>1, <3>2
  <2>6. DOMAIN g = 0 .. n /\ g = [k \in 0 .. n |-> g[k]]
    OBVIOUS
  <2> HIDE DEF g, n
  <2>7. IsFold(g)
    BY <2>5, <2>6
  <2>. QED
    BY <2>7
<1>4. IsFold(upTo)
  BY <1>3
<1> HIDE DEF upTo
<1> DEFINE S == {k \in Nat : k \in 0 .. n => /\ Sound(upTo[k])
                                             /\ Commitments(store) \subseteq Commitments(upTo[k])}
<1>5. 0 \in S
  BY <1>1, <1>4
<1>6. ASSUME NEW k \in Nat, k \in S PROVE k + 1 \in S
  <2>1. SUFFICES ASSUME k + 1 \in 0 .. n
                 PROVE  /\ Sound(upTo[k + 1])
                        /\ Commitments(store) \subseteq Commitments(upTo[k + 1])
    OBVIOUS
  <2>2. k \in 0 .. n /\ k + 1 \in 1 .. n /\ (k + 1) - 1 = k /\ k + 1 # 0
    BY <1>1, <2>1
  <2>3. Sound(upTo[k]) /\ Commitments(store) \subseteq Commitments(upTo[k])
    BY <1>6, <2>2
  <2>4. upTo[k + 1] = IF imported[k + 1].c \in Commitments(upTo[k]) THEN upTo[k]
                      ELSE Append(upTo[k], imported[k + 1])
    BY <1>4, <2>1, <2>2
  <2>5. imported[k + 1] \in Records /\ Good(imported[k + 1])
    BY <1>1, <2>2
  <2>. QED
    BY <2>3, <2>4, <2>5, AppendSound
<1> HIDE DEF S
<1>7. Nat \subseteq S
  BY <1>5, <1>6, SetInduction
<1>. QED
  BY <1>1, <1>2, <1>7 DEF S

-----------------------------------------------------------------------------
(* What was true of a record, a file, a document or a running command stays     *)
(* true while notes are made, leaves are appended, nullifiers are spent and no  *)
(* careful user loses a secret.                                                 *)
Grows ==
    /\ use' = use /\ made \subseteq made' /\ Prefix(leaves, leaves') /\ spent \subseteq spent'
    /\ Careful => Durable \subseteq Durable'

(* A sequence is a prefix of itself.                                            *)
LEMMA PrefixOfItself == ASSUME NEW t \in Seq(Everybodys) PROVE Prefix(t, t)
BY DEF Prefix

(* A prefix of a prefix is a prefix.                                            *)
LEMMA PrefixOfPrefix ==
  ASSUME NEW r, NEW s, NEW t, Prefix(r, s), Prefix(s, t)
  PROVE  Prefix(r, t)
BY DEF Prefix

(* A note stays made, and its first leaf stays the first.                       *)
LEMMA ToldStays ==
  ASSUME Grows, NEW c, NEW leaf, Told(c, leaf)
  PROVE  Told(c, leaf)'
<1>1. ASSUME FirstLeaf(c, leaf) PROVE FirstLeaf(c, leaf)'
  <2>1. /\ leaf \in 1 .. Len(leaves) /\ Len(leaves) \in Nat /\ Len(leaves') \in Nat
        /\ Len(leaves) <= Len(leaves') /\ DOMAIN leaves' = 1 .. Len(leaves')
    BY <1>1 DEF Grows, Prefix, FirstLeaf
  <2>2. leaf \in 1 .. Len(leaves')
    BY <2>1
  <2>3. \A j \in 1 .. leaf : leaves'[j] = leaves[j]
    <3>1. \A j \in 1 .. leaf : j \in 1 .. Len(leaves)
      BY <2>1
    <3>. QED
      BY <3>1 DEF Grows, Prefix
  <2>4. \A j \in 1 .. leaf - 1 : j \in 1 .. leaf
    BY <2>1
  <2>5. leaf \in 1 .. leaf
    BY <2>1
  <2>. QED
    BY <2>1, <2>2, <2>3, <2>4, <2>5, <1>1 DEF FirstLeaf
<1>. QED
  BY <1>1 DEF Told, Grows, Fetches

(* A record stays true.                                                         *)
LEMMA GoodStays ==
  ASSUME Grows, NEW r, Good(r)
  PROVE  Good(r)'
BY ToldStays DEF Good, Grows

(* A store stays sound.                                                         *)
LEMMA SoundStays ==
  ASSUME Grows, NEW store, Sound(store)
  PROVE  Sound(store)'
BY GoodStays DEF Sound, Once

(* A sealed or change file stays as good as it was.                             *)
LEMMA FileStays ==
  ASSUME Grows, NEW f, FileOK(f)
  PROVE  FileOK(f)'
BY ToldStays DEF FileOK, Grows

(* What was fetched stays a prefix of the pool.                                 *)
LEMMA SnapshotStays ==
  ASSUME Grows, NEW t, Snapshot(t)
  PROVE  Snapshot(t)'
<1>1. Prefix(t, leaves) => Prefix(t, leaves')
  BY PrefixOfPrefix DEF Grows
<1>. QED
  BY <1>1 DEF Snapshot, Grows, Fetches

(* A document's new note stays on disk.                                         *)
LEMMA OutStays ==
  ASSUME Grows, NEW d, OutDurable(d)
  PROVE  OutDurable(d)'
BY DEF OutDurable, Grows, Careful

(* A document stays as good as it was.                                          *)
LEMMA DocStays ==
  ASSUME Grows, NEW d, DocOK(d)
  PROVE  DocOK(d)'
BY OutStays DEF DocOK

(* So does what a running command holds.                                        *)
LEMMA JobStays ==
  ASSUME Grows, NEW j, JobOK(j)
  PROVE  JobOK(j)'
<1>1. Prefix(j.anchor, leaves) => Prefix(j.anchor, leaves')
  BY PrefixOfPrefix DEF Grows
<1>2. Sound(j.mem) => Sound(j.mem)'
  BY SoundStays
<1>3. Snapshot(j.snap) => Snapshot(j.snap)'
  BY SnapshotStays
<1>4. OutDurable(j.doc) => OutDurable(j.doc)'
  BY OutStays
<1>. QED
  BY <1>1, <1>2, <1>3, <1>4 DEF JobOK, Grows

(* No leaf and no nullifier is new.                                            *)
LEMMA QuietPool ==
  ASSUME CliInv, use' = use, made \subseteq made', made' \subseteq Notes,
         leaves' = leaves, spent' = spent, Careful => Durable \subseteq Durable'
  PROVE  Grows /\ WorldOK'
<1>1. Prefix(leaves, leaves')
  BY PrefixOfItself DEF CliInv, WorldOK
<1>. QED
  BY <1>1 DEF Grows, CliInv, WorldOK, Careful

(* The durable secrets are those of the store, change and sealed files.         *)
LEMMA SameFiles == ASSUME UNCHANGED <<notes, changes, sealed>> PROVE Durable' = Durable
BY DEF Durable, Commitments

(* What a step leaves alone.                                                   *)
LEMMA Kept ==
  ASSUME CliInv, Grows
  PROVE  /\ notes' = notes => Sound(notes)'
         /\ backup' = backup => Sound(backup)'
         /\ apnote' = apnote => Sound(apnote)'
         /\ UNCHANGED <<changes, sealed>> =>
               IsFiniteSet(sealed)' /\ \A f \in changes' \cup sealed' : FileOK(f)'
         /\ UNCHANGED files => StoresOK'
         /\ state' = state => Snapshot(state)'
         /\ UNCHANGED <<docs, pending>> => DocsOK'
         /\ jobs' = jobs => JobsOK'
         /\ \A s \in Slots : \A j : jobs' = [jobs EXCEPT ![s] = j] /\ JobOK(j)' => JobsOK'
         /\ UNCHANGED <<notes, jobs>> => OneRewrites'
<1>1. /\ notes' = notes => Sound(notes)'
      /\ backup' = backup => Sound(backup)'
      /\ apnote' = apnote => Sound(apnote)'
  BY SoundStays DEF CliInv, StoresOK
<1>2. ASSUME UNCHANGED <<changes, sealed>>
      PROVE  IsFiniteSet(sealed)' /\ \A f \in changes' \cup sealed' : FileOK(f)'
  BY <1>2, FileStays DEF CliInv, StoresOK
<1>3. UNCHANGED files => StoresOK'
  BY <1>1, <1>2 DEF StoresOK, files
<1>4. state' = state => Snapshot(state)'
  BY SnapshotStays DEF CliInv
<1>5. UNCHANGED <<docs, pending>> => DocsOK'
  BY DocStays DEF CliInv, DocsOK, docs
<1>6. jobs' = jobs => JobsOK'
  BY JobStays DEF CliInv, JobsOK
<1>7. ASSUME NEW s \in Slots, NEW j, jobs' = [jobs EXCEPT ![s] = j], JobOK(j)' PROVE JobsOK'
  <2>1. /\ DOMAIN jobs' = Slots
        /\ \A t \in Slots : jobs'[t] = IF t = s THEN j ELSE jobs[t]
    BY <1>7 DEF CliInv, JobsOK
  <2>2. ASSUME NEW t \in Slots PROVE JobOK(jobs[t])'
    <3>1. CASE t = s
      <4>1. jobs'[t] = j
        BY <2>1, <3>1
      <4>. QED
        BY <1>7, <4>1
    <3>2. CASE t # s
      <4>1. PICK k : k = jobs[t]
        OBVIOUS
      <4>2. JobOK(k)
        BY <4>1 DEF CliInv, JobsOK
      <4>3. JobOK(k)'
        BY <4>2, JobStays
      <4>4. jobs'[t] = k
        BY <2>1, <3>2, <4>1
      <4>. QED
        BY <4>3, <4>4
    <3>. QED
      BY <3>1, <3>2
  <2>. QED
    BY <2>1, <2>2 DEF JobsOK
<1>8. UNCHANGED <<notes, jobs>> => OneRewrites'
  BY DEF CliInv, OneRewrites, Grows
<1>. QED
  BY <1>1, <1>2, <1>3, <1>4, <1>5, <1>6, <1>7, <1>8


-----------------------------------------------------------------------------
(* Steps, by what they change.                                                 *)

(* A command that rewrites the store holds a sound one.                         *)
LEMMA StoreJobIs ==
  ASSUME NEW j, JobOK(j), j.cmd \in Rewriters
  PROVE  /\ j \in [cmd : Rewriters, source : Sources, mem : Seq(Records), todo : Seq(Nat),
                   snap : Seq(Everybodys) \cup {NoDoc}]
         /\ Sound(j.mem) /\ \A k \in DOMAIN j.todo : j.todo[k] \in DOMAIN j.mem
         /\ j.snap # NoDoc => Snapshot(j.snap)
         /\ j.cmd \in {"scan", "pyscan"} => "scan" \in use.cmds
BY DEF JobOK, Idle, Rewriters

(* A command that is one step and changes the note store, alone.               *)
LEMMA StoreStep ==
  ASSUME CliInv, Apart, use' = use, made \subseteq made', made' \subseteq Notes,
         UNCHANGED <<backup, apnote, docs, chain, jobs>>,
         Careful => Durable \subseteq Durable',
         Sound(notes)', Snapshot(state)', IsFiniteSet(sealed)',
         \A f \in changes' \cup sealed' : FileOK(f)'
  PROVE  CliInv'
<1>1. leaves' = leaves /\ spent' = spent /\ pending' = pending
  BY DEF chain
<1>2. Grows /\ WorldOK'
  BY <1>1, QuietPool
<1>3. Sound(backup)' /\ Sound(apnote)' /\ DocsOK' /\ JobsOK'
  BY <1>1, <1>2, Kept
<1>4. OneRewrites'
  BY DEF Apart, OneRewrites, StoreJobs
<1>. QED
  BY <1>2, <1>3, <1>4 DEF CliInv, StoresOK

(* A step of a command that changes nothing but what the command holds.        *)
LEMMA JobStep ==
  ASSUME CliInv, use' = use, made \subseteq made', made' \subseteq Notes,
         UNCHANGED <<files, state, docs, chain>>,
         NEW s \in Slots, NEW j, jobs' = [jobs EXCEPT ![s] = j], JobOK(j) \/ JobOK(j)',
         use.apart /\ j.cmd \in StoreJobs =>
            \A t \in Slots : t # s => jobs[t].cmd \notin StoreJobs,
         use.apart /\ j.cmd \in Rewriters => Commitments(notes) \subseteq Commitments(j.mem)
  PROVE  CliInv'
<1>1. /\ leaves' = leaves /\ spent' = spent /\ pending' = pending
      /\ UNCHANGED <<notes, changes, sealed>>
  BY DEF chain, files
<1>2. Durable' = Durable
  BY <1>1, SameFiles
<1>3. Grows /\ WorldOK'
  BY <1>1, <1>2, QuietPool
<1>4. JobOK(j)'
  BY <1>3, JobStays
<1>5. StoresOK' /\ Snapshot(state)' /\ DocsOK' /\ JobsOK'
  BY <1>1, <1>3, <1>4, Kept
<1>6. OneRewrites'
  <2>1. DOMAIN jobs = Slots
    BY DEF CliInv, JobsOK
  <2>2. \A t \in Slots : jobs'[t] = IF t = s THEN j ELSE jobs[t]
    BY <2>1
  <2>3. use.apart =>
          /\ \A t, u \in Slots :
               jobs[t].cmd \in StoreJobs /\ jobs[u].cmd \in StoreJobs => t = u
          /\ \A t \in Slots :
               jobs[t].cmd \in Rewriters => Commitments(notes) \subseteq Commitments(jobs[t].mem)
    BY DEF CliInv, OneRewrites
  <2>4. Commitments(notes') = Commitments(notes)
    BY <1>1
  <2> SUFFICES ASSUME use.apart
      PROVE  /\ \A t, u \in Slots :
                  jobs'[t].cmd \in StoreJobs /\ jobs'[u].cmd \in StoreJobs => t = u
             /\ \A t \in Slots :
                  jobs'[t].cmd \in Rewriters => Commitments(notes) \subseteq Commitments(jobs'[t].mem)
    BY <2>4 DEF OneRewrites
  <2>5. \A t, u \in Slots : jobs'[t].cmd \in StoreJobs /\ jobs'[u].cmd \in StoreJobs => t = u
    BY <2>2, <2>3
  <2>6. \A t \in Slots :
          jobs'[t].cmd \in Rewriters => Commitments(notes) \subseteq Commitments(jobs'[t].mem)
    BY <2>2, <2>3
  <2>. QED
    BY <2>5, <2>6
<1>. QED
  BY <1>3, <1>5, <1>6 DEF CliInv

(* A command that ends leaves the others as they were.                         *)
LEMMA EndedRewrites ==
  ASSUME CliInv, use' = use, notes' = notes, NEW s \in Slots, jobs' = [jobs EXCEPT ![s] = Idle]
  PROVE  OneRewrites'
<1>1. \A t \in Slots : jobs'[t] = IF t = s THEN Idle ELSE jobs[t]
  BY DEF CliInv, JobsOK
<1>2. Idle.cmd \notin StoreJobs /\ Idle.cmd \notin Rewriters
  BY DEF Idle, StoreJobs, Rewriters
<1>3. Commitments(notes') = Commitments(notes)
  OBVIOUS
<1> SUFFICES ASSUME use.apart
    PROVE  /\ \A t, u \in Slots :
                jobs'[t].cmd \in StoreJobs /\ jobs'[u].cmd \in StoreJobs => t = u
           /\ \A t \in Slots :
                jobs'[t].cmd \in Rewriters => Commitments(notes) \subseteq Commitments(jobs'[t].mem)
  BY <1>3 DEF OneRewrites
<1>4. /\ \A t, u \in Slots :
            jobs[t].cmd \in StoreJobs /\ jobs[u].cmd \in StoreJobs => t = u
      /\ \A t \in Slots :
            jobs[t].cmd \in Rewriters => Commitments(notes) \subseteq Commitments(jobs[t].mem)
  BY DEF CliInv, OneRewrites
<1>. QED
  BY <1>1, <1>2, <1>4

(* A free slot holds nothing.                                                   *)
LEMMA IdleOK == JobOK(Idle)
BY DEF JobOK

-----------------------------------------------------------------------------
(* The commands on notes.                                                      *)

(* New notes come after the others.                                            *)
Joined(all, store, more) ==
    /\ all \in Seq(Records) /\ Once(all)
    /\ Commitments(all) = Commitments(store) \cup Commitments(more)
    /\ \A i \in DOMAIN all : \/ i \in DOMAIN store /\ all[i] = store[i]
                             \/ \E k \in DOMAIN more : all[i] = more[k]

(* Two sequences of records without a note in common, one after the other.      *)
LEMMA JoinOnce ==
  ASSUME NEW store \in Seq(Records), Once(store), NEW more \in Seq(Records), Once(more),
         Commitments(store) \cap Commitments(more) = {},
         NEW all, all = store \o more
  PROVE  Joined(all, store, more)
<1>1. PICK n \in Nat : n = Len(store)
  OBVIOUS
<1>2. PICK m \in Nat : m = Len(more)
  OBVIOUS
<1>3. DOMAIN store = 1 .. n /\ DOMAIN more = 1 .. m
  BY <1>1, <1>2
<1>4. all \in Seq(Records) /\ Len(all) = n + m
  BY ONLY <1>1, <1>2, store \in Seq(Records), more \in Seq(Records), all = store \o more, ConcatIs
<1>5. \A k \in 1 .. n : all[k] = store[k]
  BY ONLY <1>1, <1>2, store \in Seq(Records), more \in Seq(Records), all = store \o more, ConcatIs
<1>6. \A k \in 1 .. m : all[n + k] = more[k]
  BY ONLY <1>1, <1>2, store \in Seq(Records), more \in Seq(Records), all = store \o more, ConcatIs
<1>7. DOMAIN all = 1 .. n + m
  BY ONLY <1>1, <1>2, <1>4
<1>8. ASSUME NEW i \in 1 .. n + m
      PROVE  i \in 1 .. n \/ \E k \in 1 .. m : i = n + k
  <2>1. i \notin 1 .. n => i - n \in 1 .. m /\ i = n + (i - n)
    BY ONLY n \in Nat, m \in Nat, i \in 1 .. n + m
  <2>. QED
    BY <2>1
<1>9. \A i \in 1 .. n + m : \/ i \in 1 .. n /\ all[i] = store[i]
                            \/ \E k \in 1 .. m : i = n + k /\ all[i] = more[k]
  BY ONLY <1>5, <1>6, <1>8
<1>10. /\ \A k \in 1 .. n : store[k].c \in Commitments(store)
       /\ \A k \in 1 .. m : more[k].c \in Commitments(more)
  BY ONLY <1>3 DEF Commitments
<1>11. Once(all)
  <2> SUFFICES ASSUME NEW i \in 1 .. n + m, NEW j \in 1 .. n + m, all[i].c = all[j].c
      PROVE i = j
    BY <1>7 DEF Once
  <2>1. CASE i \in 1 .. n /\ all[i] = store[i]
    <3>1. CASE j \in 1 .. n /\ all[j] = store[j]
      BY ONLY <1>3, <2>1, <3>1, Once(store), all[i].c = all[j].c DEF Once
    <3>2. ASSUME NEW k \in 1 .. m, j = n + k, all[j] = more[k] PROVE FALSE
      BY ONLY <1>10, <2>1, <3>2, all[i].c = all[j].c, Commitments(store) \cap Commitments(more) = {}
    <3>. QED
      BY ONLY <1>9, <3>1, <3>2, j \in 1 .. n + m
  <2>2. ASSUME NEW k \in 1 .. m, i = n + k, all[i] = more[k] PROVE i = j
    <3>1. CASE j \in 1 .. n /\ all[j] = store[j]
      BY ONLY <1>10, <2>2, <3>1, all[i].c = all[j].c, Commitments(store) \cap Commitments(more) = {}
    <3>2. ASSUME NEW h \in 1 .. m, j = n + h, all[j] = more[h] PROVE i = j
      BY ONLY <1>3, <2>2, <3>2, Once(more), all[i].c = all[j].c DEF Once
    <3>. QED
      BY ONLY <1>9, <3>1, <3>2, j \in 1 .. n + m
  <2>. QED
    BY ONLY <1>9, <2>1, <2>2, i \in 1 .. n + m
<1>12. \A k \in 1 .. n : k \in 1 .. n + m
  BY ONLY n \in Nat, m \in Nat
<1>13. \A k \in 1 .. m : n + k \in 1 .. n + m
  BY ONLY n \in Nat, m \in Nat
<1>14. Commitments(all) \subseteq Commitments(store) \cup Commitments(more)
  <2>1. \A i \in 1 .. n + m : all[i].c \in Commitments(store) \cup Commitments(more)
    BY ONLY <1>9, <1>10
  <2>. QED
    BY ONLY <1>7, <2>1 DEF Commitments
<1>15. Commitments(store) \subseteq Commitments(all)
  BY ONLY <1>3, <1>5, <1>7, <1>12 DEF Commitments
<1>16. Commitments(more) \subseteq Commitments(all)
  BY ONLY <1>3, <1>6, <1>7, <1>13 DEF Commitments
<1>17. \A i \in DOMAIN all : \/ i \in DOMAIN store /\ all[i] = store[i]
                             \/ \E k \in DOMAIN more : all[i] = more[k]
  BY ONLY <1>3, <1>7, <1>9
<1>18. Commitments(all) = Commitments(store) \cup Commitments(more)
  BY ONLY <1>14, <1>15, <1>16
<1>. QED
  BY ONLY <1>4, <1>11, <1>17, <1>18 DEF Joined

(* Records of distinct new notes.                                               *)
LEMMA NewRecords ==
  ASSUME NEW new \in Seq(Notes), \A i, j \in DOMAIN new : new[i] = new[j] => i = j,
         NEW more, more = [i \in DOMAIN new |-> Record(new[i], NoLeaf)]
  PROVE  more \in Seq(Records) /\ Once(more) /\ Commitments(more) = Range(new)
<1>1. PICK m \in Nat : m = Len(new)
  OBVIOUS
<1>2. DOMAIN new = 1 .. m /\ \A k \in 1 .. m : new[k] \in Notes
  BY <1>1
<1>3. ASSUME NEW k \in 1 .. m
      PROVE Record(new[k], NoLeaf) \in Records /\ Record(new[k], NoLeaf).c = new[k]
  BY ONLY <1>2 DEF Record, Records, Leaf
<1>4. more = [k \in 1 .. m |-> Record(new[k], NoLeaf)]
  BY <1>2
<1>5. more \in Seq(Records)
  BY ONLY <1>3, <1>4, m \in Nat
<1>6. DOMAIN more = 1 .. m /\ \A k \in 1 .. m : more[k].c = new[k]
  BY ONLY <1>3, <1>4
<1>7. Once(more)
  BY <1>2, <1>6 DEF Once
<1>8. Commitments(more) = Range(new)
  BY ONLY <1>2, <1>6 DEF Commitments, Range
<1>. QED
  BY <1>5, <1>7, <1>8

Added(all, store, new) ==
    /\ all \in Seq(Records) /\ Once(all)
    /\ Commitments(all) = Commitments(store) \cup Range(new)
    /\ \A i \in DOMAIN all : \/ i \in DOMAIN store /\ all[i] = store[i]
                             \/ \E k \in DOMAIN new : all[i] = Record(new[k], NoLeaf)

(* The store with records of new notes at its end.                              *)
LEMMA NewNotesSound ==
  ASSUME NEW store, Sound(store), NEW new, new \in Seq(Notes),
         \A i, j \in DOMAIN new : new[i] \notin Commitments(store) /\ (new[i] = new[j] => i = j),
         NEW all, all = store \o [i \in DOMAIN new |-> Record(new[i], NoLeaf)]
  PROVE  Added(all, store, new)
<1>1. PICK more : more = [i \in DOMAIN new |-> Record(new[i], NoLeaf)]
  OBVIOUS
<1>2. more \in Seq(Records) /\ Once(more) /\ Commitments(more) = Range(new)
  BY <1>1, NewRecords
<1>3. store \in Seq(Records) /\ Once(store) /\ all = store \o more
  BY <1>1 DEF Sound
<1>4. Commitments(store) \cap Commitments(more) = {}
  BY <1>2 DEF Range
<1>5. /\ all \in Seq(Records) /\ Once(all)
      /\ Commitments(all) = Commitments(store) \cup Commitments(more)
      /\ \A i \in DOMAIN all : \/ i \in DOMAIN store /\ all[i] = store[i]
                               \/ \E k \in DOMAIN more : all[i] = more[k]
  <2>1. Joined(all, store, more)
    BY ONLY <1>2, <1>3, <1>4, JoinOnce
  <2>. QED
    BY ONLY <2>1 DEF Joined
<1>6. DOMAIN more = DOMAIN new /\ \A k \in DOMAIN new : more[k] = Record(new[k], NoLeaf)
  BY ONLY <1>1
<1>. QED
  BY ONLY <1>2, <1>5, <1>6 DEF Added

(* note create, note suggest-split and note distribute.                        *)
LEMMA AddNotesStep ==
  ASSUME CliInv, NEW new, new \in Seq(Notes), AddNotes(new)
  PROVE  CliInv'
<1> DEFINE more == [i \in DOMAIN new |-> Record(new[i], NoLeaf)]
<1>1. /\ Apart /\ use' = use /\ made' = made \cup Range(new) /\ notes' = notes \o more
      /\ UNCHANGED <<backup, apnote, docs, chain, jobs, changes, sealed, state>>
      /\ \A i, j \in DOMAIN new : new[i] \notin made /\ (new[i] = new[j] => i = j)
  BY DEF AddNotes
<1>2. Sound(notes) /\ Commitments(notes) \subseteq made
  BY DEF CliInv, StoresOK, Sound, Good, Told, Commitments
<1>3. /\ notes' \in Seq(Records) /\ Once(notes')
      /\ Commitments(notes') = Commitments(notes) \cup Range(new)
      /\ \A i \in DOMAIN notes' :
            \/ i \in DOMAIN notes /\ notes'[i] = notes[i]
            \/ \E k \in DOMAIN new : notes'[i] = Record(new[k], NoLeaf)
  <2>1. \A i, j \in DOMAIN new :
           new[i] \notin Commitments(notes) /\ (new[i] = new[j] => i = j)
    BY <1>1, <1>2
  <2>2. PICK all : all = notes'
    OBVIOUS
  <2>3. all = notes \o [i \in DOMAIN new |-> Record(new[i], NoLeaf)]
    BY <1>1, <2>2
  <2>4. Added(all, notes, new)
    BY ONLY <1>2, <2>1, <2>3, NewNotesSound, new \in Seq(Notes)
  <2>. QED
    BY <2>2, <2>4 DEF Added
<1>4. made \subseteq made' /\ made' \subseteq Notes
  <2>1. Range(new) \subseteq Notes
    BY DEF Range
  <2>. QED
    BY <1>1, <2>1 DEF CliInv, WorldOK
<1>5. Durable \subseteq Durable'
  <2>1. Durable' = Commitments(notes') \cup {f.c : f \in changes' \cup sealed'}
    BY DEF Durable, Commitments
  <2>. QED
    BY <1>1, <1>3, <2>1 DEF Durable
<1>6. leaves' = leaves /\ spent' = spent
  BY <1>1 DEF chain
<1>7. Grows /\ WorldOK'
  BY <1>1, <1>4, <1>5, <1>6, QuietPool
<1>8. Sound(notes)'
  <2>1. PICK store : store = notes'
    OBVIOUS
  <2>2. ASSUME NEW i \in DOMAIN store PROVE Good(store[i])'
    <3>1. CASE i \in DOMAIN notes /\ store[i] = notes[i]
      <4>1. Good(store[i])
        BY <1>2, <3>1 DEF Sound
      <4>. QED
        BY <1>7, <4>1, GoodStays
    <3>2. CASE \E k \in DOMAIN new : store[i] = Record(new[k], NoLeaf)
      <4>1. PICK k \in DOMAIN new : store[i] = Record(new[k], NoLeaf)
        BY <3>2
      <4>2. new[k] \in Notes /\ new[k] \in Range(new)
        BY DEF Range
      <4>3. store[i].c = new[k] /\ store[i].leaf = NoLeaf /\ store[i].hint # "spent"
        BY <4>1 DEF Record
      <4>. QED
        BY <1>1, <4>2, <4>3 DEF Good, Told
    <3>. QED
      BY <1>3, <2>1, <3>1, <3>2
  <2>3. Sound(store)'
    BY <1>3, <2>1, <2>2 DEF Sound, Once
  <2>. QED
    BY <2>1, <2>3
<1>9. /\ Snapshot(state)' /\ IsFiniteSet(sealed)'
      /\ \A f \in changes' \cup sealed' : FileOK(f)'
  BY <1>1, <1>7, Kept
<1>. QED
  BY <1>1, <1>4, <1>5, <1>8, <1>9, StoreStep

(* note deliver: the envelope is on disk before the record goes.               *)
LEMMA DeliverStep ==
  ASSUME CliInv, NEW name \in Notes \cup Nat, NEW i \in DOMAIN notes, NEW remove,
         DeliverAs(name, i, remove)
  PROVE  CliInv'
<1>1. PICK note : note = notes[i]
  OBVIOUS
<1>2. PICK file : file = File(IF use.own THEN note.c ELSE name, note.c, note.leaf)
  OBVIOUS
<1>3. /\ Apart /\ use' = use /\ sealed' = Written(sealed, file)
      /\ notes' = IF remove THEN RemoveAt(notes, i) ELSE notes
      /\ UNCHANGED <<made, changes, backup, apnote, state, docs, chain, jobs>>
  BY <1>1, <1>2 DEF DeliverAs
<1>4. /\ Sound(notes) /\ note \in Records /\ Good(note)
      /\ IsFiniteSet(sealed) /\ \A f \in changes \cup sealed : FileOK(f)
  BY <1>1 DEF CliInv, StoresOK, Sound
<1>5. FileOK(file) /\ file.c = note.c
  BY <1>2, <1>4 DEF File, FileOK, FileRecords, Records, Good
<1>6. IsFiniteSet(sealed')
  <2>1. IsFiniteSet({f \in sealed : f.name # file.name})
    BY <1>4, FS_Subset
  <2>. QED
    BY <1>3, <2>1, FS_AddElement DEF Written
<1>7. \A f \in changes' \cup sealed' : FileOK(f)
  BY <1>3, <1>4, <1>5 DEF Written
<1>8. PICK store : store = notes'
  OBVIOUS
<1>9. Sound(store) /\ Commitments(notes) \subseteq Commitments(store) \cup {note.c}
  <2>1. CASE remove
    BY <1>1, <1>3, <1>4, <1>8, <2>1, RemoveSound
  <2>2. CASE ~remove
    BY <1>3, <1>4, <1>8, <2>2
  <2>. QED
    BY <2>1, <2>2
<1>10. Careful => Durable \subseteq Durable'
  <2> SUFFICES ASSUME use.own PROVE Durable \subseteq Durable'
    BY DEF Careful
  <2>1. file.name = note.c
    BY <1>2 DEF File
  <2>2. \A f \in sealed : f.c # note.c => f.name # file.name
    BY <1>4, <2>1 DEF FileOK
  <2>3. {f.c : f \in changes \cup sealed} \subseteq {f.c : f \in changes' \cup sealed'}
    <3>1. \A f \in sealed : \E g \in sealed' : g.c = f.c
      BY <1>3, <1>5, <2>2 DEF Written
    <3>. QED
      BY <1>3, <3>1
  <2>4. note.c \in {f.c : f \in changes' \cup sealed'}
    BY <1>3, <1>5 DEF Written
  <2>5. Commitments(notes') = Commitments(store)
    BY <1>8
  <2>. QED
    BY <1>9, <2>3, <2>4, <2>5 DEF Durable, Commitments
<1>11. Grows
  BY <1>3, <1>10, QuietPool DEF CliInv, WorldOK, chain
<1>12. /\ Sound(notes)' /\ Snapshot(state)'
       /\ \A f \in changes' \cup sealed' : FileOK(f)'
  BY <1>3, <1>7, <1>8, <1>9, <1>11, SoundStays, FileStays, Kept
<1>13. made \subseteq made' /\ made' \subseteq Notes
  BY <1>3 DEF CliInv, WorldOK
<1>. QED
  BY <1>3, <1>6, <1>10, <1>12, <1>13, StoreStep

(* The imported records are those of a file.                                   *)
LEMMA ImportStep ==
  ASSUME CliInv, NEW imported, Sound(imported), NEW merge \in BOOLEAN, Import(imported, merge)
  PROVE  CliInv'
<1>1. /\ Apart /\ use' = use /\ (use.merge => merge)
      /\ notes' = IF merge THEN Merged(notes, imported) ELSE imported
      /\ UNCHANGED <<made, changes, sealed, backup, apnote, state, docs, chain, jobs>>
  BY DEF Import
<1>2. Sound(notes)
  BY DEF CliInv, StoresOK
<1>3. PICK store : store = notes'
  OBVIOUS
<1>4. Sound(store) /\ (merge => Commitments(notes) \subseteq Commitments(store))
  <2>1. CASE merge
    <3>1. store = Merged(notes, imported)
      BY <1>1, <1>3, <2>1
    <3>2. imported \in Seq(Records) /\ \A i \in DOMAIN imported : Good(imported[i])
      BY DEF Sound
    <3>. QED
      BY <1>2, <3>1, <3>2, MergedSound
  <2>2. CASE ~merge
    BY <1>1, <1>3, <2>2
  <2>. QED
    BY <2>1, <2>2
<1>5. Careful => Durable \subseteq Durable'
  <2>1. Commitments(notes') = Commitments(store)
    BY <1>3
  <2>. QED
    BY <1>1, <1>4, <2>1 DEF Careful, Durable, Commitments
<1>6. Grows
  BY <1>1, <1>5, QuietPool DEF CliInv, WorldOK, chain
<1>7. /\ Sound(notes)' /\ Snapshot(state)' /\ IsFiniteSet(sealed)'
      /\ \A f \in changes' \cup sealed' : FileOK(f)'
  BY <1>1, <1>3, <1>4, <1>6, SoundStays, Kept
<1>8. made \subseteq made' /\ made' \subseteq Notes
  BY <1>1 DEF CliInv, WorldOK
<1>. QED
  BY <1>1, <1>5, <1>7, <1>8, StoreStep

(* A leaf written into a record of the store; the state may be another one.    *)
LEMMA LeafStep ==
  ASSUME CliInv, Apart, NEW i \in DOMAIN notes, NEW leaf \in Nat,
         Good([notes[i] EXCEPT !.leaf = leaf]),
         use' = use, notes' = [notes EXCEPT ![i].leaf = leaf], Snapshot(state)',
         UNCHANGED <<made, changes, sealed, backup, apnote, docs, chain, jobs>>
  PROVE  CliInv'
<1>1. PICK r : r = [notes[i] EXCEPT !.leaf = leaf]
  OBVIOUS
<1>2. Sound(notes)
  BY DEF CliInv, StoresOK
<1>3. r \in Records /\ r.c = notes[i].c /\ Good(r)
  <2>1. notes[i] \in Records
    BY <1>2 DEF Sound
  <2>. QED
    BY <1>1, <2>1 DEF Records, Leaf
<1>4. PICK store : store = notes'
  OBVIOUS
<1>5. store = [notes EXCEPT ![i] = r]
  BY <1>1, <1>4
<1>6. Sound(store) /\ Commitments(store) = Commitments(notes)
  BY <1>2, <1>3, <1>5, ReplaceSound
<1>7. Careful => Durable \subseteq Durable'
  <2>1. Commitments(notes') = Commitments(store)
    BY <1>4
  <2>. QED
    BY <1>6, <2>1 DEF Durable, Commitments
<1>8. Grows
  BY <1>7, QuietPool DEF CliInv, WorldOK, chain
<1>9. /\ Sound(notes)' /\ IsFiniteSet(sealed)'
      /\ \A f \in changes' \cup sealed' : FileOK(f)'
  BY <1>4, <1>6, <1>8, SoundStays, Kept
<1>10. made \subseteq made' /\ made' \subseteq Notes
  BY DEF CliInv, WorldOK
<1>. QED
  BY <1>7, <1>9, <1>10, StoreStep

(* A leaf that is where the note is does not take a mark from its nullifier.   *)
LEMMA Rebound ==
  ASSUME CliInv, ByHandOrScanned, NEW note \in Records, Good(note), NEW leaf \in Nat,
         leaf # NoLeaf, Told(note.c, leaf)
  PROVE  Good([note EXCEPT !.leaf = leaf])
<1>2. PICK r : r = [note EXCEPT !.leaf = leaf]
  OBVIOUS
<1>3. leaves \in Seq(Everybodys) /\ use \in Uses
  BY DEF CliInv, WorldOK
<1>4. r.c = note.c /\ r.leaf = leaf /\ r.hint = note.hint
  BY <1>2 DEF Records
<1>5. note.hint = "spent" => note.leaf = leaf
  <2> SUFFICES ASSUME note.hint = "spent" PROVE note.leaf = leaf
    OBVIOUS
  <2>1. Fetches /\ note.leaf # NoLeaf
    BY <1>3 DEF Good, ByHandOrScanned, Fetches
  <2>2. FirstLeaf(note.c, note.leaf) /\ FirstLeaf(note.c, leaf)
    BY <2>1 DEF Good, Told
  <2>. QED
    BY <1>3, <2>2, FirstLeafIsOne
<1>. QED
  BY <1>2, <1>4, <1>5 DEF Good

(* state bind-note of ap.mjs.                                                   *)
LEMMA BindStep ==
  ASSUME CliInv, ByHandOrScanned, NEW i \in DOMAIN notes, StateBindNote(i)
  PROVE  CliInv'
<1>1. PICK leaf : leaf = LeafOf(state, notes[i].c)
  OBVIOUS
<1>2. /\ Apart /\ leaf # NoLeaf /\ use' = use /\ notes' = [notes EXCEPT ![i].leaf = leaf]
      /\ UNCHANGED <<made, changes, sealed, backup, apnote, state, docs, chain, jobs>>
  BY <1>1 DEF StateBindNote
<1>3. /\ notes[i] \in Records /\ Good(notes[i]) /\ notes[i].c \in made
      /\ Snapshot(state)
  BY DEF CliInv, StoresOK, Sound, Good, Told
<1>4. leaf \in Nat /\ Told(notes[i].c, leaf)
  BY <1>1, <1>2, <1>3, FoundLeaf
<1>5. Good([notes[i] EXCEPT !.leaf = leaf])
  BY <1>2, <1>3, <1>4, Rebound
<1>6. Snapshot(state)'
  BY <1>2, <1>3 DEF Snapshot, Fetches, chain
<1>. QED
  BY <1>2, <1>4, <1>5, <1>6, LeafStep

(* state bind-note of the Python client.                                        *)
LEMMA PyBindStep ==
  ASSUME CliInv, ByHandOrScanned, NEW i \in DOMAIN notes, PyStateBindNote(i)
  PROVE  CliInv'
<1>1. PICK leaf : leaf = PyFindCommitmentIndex(state, notes[i].c)
  OBVIOUS
<1>2. /\ Apart /\ leaf # NoLeaf /\ use' = use /\ notes' = [notes EXCEPT ![i].leaf = leaf]
      /\ UNCHANGED <<made, changes, sealed, backup, apnote, state, docs, chain, jobs>>
  BY <1>1 DEF PyStateBindNote
<1>3. /\ notes[i] \in Records /\ Good(notes[i]) /\ notes[i].c \in made
      /\ Snapshot(state)
  BY DEF CliInv, StoresOK, Sound, Good, Told
<1>4. leaf \in Nat /\ Told(notes[i].c, leaf)
  BY <1>1, <1>2, <1>3, PyFoundLeaf
<1>5. Good([notes[i] EXCEPT !.leaf = leaf])
  BY <1>2, <1>3, <1>4, Rebound
<1>6. Snapshot(state)'
  BY <1>2, <1>3 DEF Snapshot, Fetches, chain
<1>. QED
  BY <1>2, <1>4, <1>5, <1>6, LeafStep

(* What is appended by hand is a leaf of the pool, and may be out of place.    *)
LEMMA AppendStep ==
  ASSUME CliInv, ByHandOrScanned, NEW c \in Range(leaves), NEW i, StateAppend(c, i)
  PROVE  CliInv'
<1>1. /\ Apart /\ use' = use /\ state' = Append(state, c)
      /\ notes' = IF i \in DOMAIN notes /\ notes[i].c = c
                  THEN [notes EXCEPT ![i].leaf = Len(state) + 1] ELSE notes
      /\ UNCHANGED <<made, changes, sealed, backup, apnote, docs, chain, jobs>>
      /\ ~Fetches
  BY DEF StateAppend, Typed, Fetches
<1>2. state \in Seq(Everybodys) /\ c \in Everybodys /\ Len(state) + 1 \in Nat
  <2>1. leaves \in Seq(Everybodys) /\ state \in Seq(Everybodys)
    BY DEF CliInv, WorldOK, Snapshot
  <2>2. Range(leaves) \subseteq Everybodys
    BY <2>1 DEF Range
  <2>. QED
    BY <2>1, <2>2
<1>3. Snapshot(state)'
  <2>1. state' \in Seq(Everybodys)
    BY <1>1, <1>2
  <2>. QED
    BY <1>1, <2>1 DEF Snapshot, Fetches
<1>4. CASE i \in DOMAIN notes /\ notes[i].c = c
  <2>1. PICK note : note = notes[i]
    OBVIOUS
  <2>2. PICK leaf \in Nat : leaf = Len(state) + 1
    BY <1>2
  <2>3. PICK r : r = [note EXCEPT !.leaf = leaf]
    OBVIOUS
  <2>4. note \in Records /\ Good(note) /\ use \in Uses
    BY <1>4, <2>1 DEF CliInv, StoresOK, Sound, WorldOK
  <2>5. r.c = note.c /\ r.leaf = leaf /\ r.hint = note.hint
    BY <2>3, <2>4 DEF Records
  <2>6. Good(r)
    BY <1>1, <2>4, <2>5 DEF Good, Told, Fetches, ByHandOrScanned
  <2>7. Good([notes[i] EXCEPT !.leaf = leaf]) /\ notes' = [notes EXCEPT ![i].leaf = leaf]
    BY <1>1, <1>4, <2>1, <2>2, <2>3, <2>6
  <2>. QED
    BY <1>1, <1>3, <1>4, <2>2, <2>7, LeafStep
<1>5. CASE ~(i \in DOMAIN notes /\ notes[i].c = c)
  <2>1. UNCHANGED <<made, notes, changes, sealed, backup, apnote, docs, chain, jobs>>
    BY <1>1, <1>5
  <2>2. Durable' = Durable
    BY <2>1, SameFiles
  <2>3. made \subseteq made' /\ made' \subseteq Notes
    BY <2>1 DEF CliInv, WorldOK
  <2>4. Grows
    BY <1>1, <2>1, <2>2, <2>3, QuietPool DEF chain
  <2>5. /\ Sound(notes)' /\ IsFiniteSet(sealed)'
        /\ \A f \in changes' \cup sealed' : FileOK(f)'
    BY <2>1, <2>4, Kept
  <2>. QED
    BY <1>1, <1>3, <2>1, <2>2, <2>3, <2>5, StoreStep
<1>. QED
  BY <1>4, <1>5

-----------------------------------------------------------------------------
(* Backups, the state, calls and transactions.                                 *)

(* A step that writes a backup, a state or a call file.                         *)
LEMMA OtherFileStep ==
  ASSUME CliInv, UNCHANGED <<use, made, notes, changes, sealed, leaves, spent, jobs>>,
         Sound(backup)', Sound(apnote)', Snapshot(state)', DocsOK'
  PROVE  CliInv'
<1>1. Durable' = Durable
  BY SameFiles
<1>2. Grows /\ WorldOK'
  BY <1>1, QuietPool DEF CliInv, WorldOK
<1>3. /\ Sound(notes)' /\ IsFiniteSet(sealed)' /\ JobsOK' /\ OneRewrites'
      /\ \A f \in changes' \cup sealed' : FileOK(f)'
  BY <1>2, Kept
<1>. QED
  BY <1>2, <1>3 DEF CliInv, StoresOK

(* A step that adds no note and leaves the pool alone loses nothing.            *)
LEMMA QuietGrows ==
  ASSUME CliInv, UNCHANGED <<use, made, notes, changes, sealed, leaves, spent>>
  PROVE  Grows
<1>1. Durable' = Durable
  BY SameFiles
<1>. QED
  BY <1>1, QuietPool DEF CliInv, WorldOK

(* backup export.                                                               *)
LEMMA BackupStep == ASSUME CliInv, BackupExport PROVE CliInv'
<1>1. /\ backup' = notes
      /\ UNCHANGED <<use, made, notes, changes, sealed, apnote, state, docs, chain, jobs>>
  BY DEF BackupExport
<1>2. UNCHANGED <<leaves, spent, pending>>
  BY <1>1 DEF chain
<1>3. Grows
  BY <1>1, <1>2, QuietGrows
<1>4. Sound(backup)'
  <2>1. PICK store : store = notes
    OBVIOUS
  <2>2. Sound(store)
    BY <2>1 DEF CliInv, StoresOK
  <2>3. Sound(store)'
    BY <1>3, <2>2, SoundStays
  <2>. QED
    BY <1>1, <2>1, <2>3
<1>. QED
  BY <1>1, <1>2, <1>3, <1>4, Kept, OtherFileStep

(* Sealed spend notes have no leaf and no mark.                                *)
LEMMA MinimalSound ==
  ASSUME CliInv, NEW store, Sound(store)
  PROVE  Sound(Minimal(store))
<1>1. PICK all : all = Minimal(store)
  OBVIOUS
<1>2. PICK n \in Nat : n = Len(store)
  BY DEF Sound
<1>3. DOMAIN store = 1 .. n /\ \A i \in 1 .. n : store[i] \in Records /\ Good(store[i])
  BY <1>2 DEF Sound
<1>4. all = [i \in 1 .. n |-> Record(store[i].c, NoLeaf)]
  BY <1>1, <1>3 DEF Minimal
<1>5. ASSUME NEW i \in 1 .. n
      PROVE  /\ all[i] \in Records /\ all[i].c = store[i].c /\ all[i].leaf = NoLeaf
             /\ all[i].hint = "unspent"
  <2>1. store[i].c \in Notes
    BY <1>3 DEF Records
  <2>2. all[i] = Record(store[i].c, NoLeaf) /\ NoLeaf \in Leaf
    BY <1>4 DEF Leaf
  <2>. QED
    BY <2>1, <2>2, RecordIs
<1>6. all \in Seq(Records) /\ DOMAIN all = 1 .. n
  <2>1. all = [i \in 1 .. n |-> all[i]]
    BY <1>4
  <2>. QED
    BY <1>5, <2>1
<1>7. \A i \in 1 .. n : Good(all[i])
  BY <1>3, <1>5 DEF Good, Told
<1>8. Once(all)
  BY <1>3, <1>5, <1>6 DEF Sound, Once
<1>. QED
  BY <1>1, <1>6, <1>7, <1>8 DEF Sound

(* note export.                                                                 *)
LEMMA ExportStep ==
  ASSUME CliInv, NEW selected, Sound(selected), NoteExport(selected)
  PROVE  CliInv'
<1>1. /\ apnote' = Minimal(selected)
      /\ UNCHANGED <<use, made, notes, changes, sealed, backup, state, docs, chain, jobs>>
  BY DEF NoteExport
<1>2. UNCHANGED <<leaves, spent, pending>>
  BY <1>1 DEF chain
<1>3. Grows
  BY <1>1, <1>2, QuietGrows
<1>4. Sound(apnote)'
  <2>1. PICK store : store = Minimal(selected)
    OBVIOUS
  <2>2. Sound(store)
    BY <2>1, MinimalSound
  <2>3. Sound(store)'
    BY <1>3, <2>2, SoundStays
  <2>. QED
    BY <1>1, <2>1, <2>3
<1>. QED
  BY <1>1, <1>2, <1>3, <1>4, Kept, OtherFileStep

(* state init.                                                                  *)
LEMMA StateInitStep == ASSUME CliInv, StateInit PROVE CliInv'
<1>1. state' = <<>> /\ UNCHANGED <<use, made, files, docs, chain, jobs>>
  BY DEF StateInit
<1>2. UNCHANGED <<notes, changes, sealed, backup, apnote, leaves, spent, pending>>
  BY <1>1 DEF chain, files
<1>3. Grows
  BY <1>1, <1>2, QuietGrows
<1>4. Snapshot(state)'
  <2>1. leaves \in Seq(Everybodys) /\ <<>> \in Seq(Everybodys) /\ Len(<<>>) = 0
    BY DEF CliInv, WorldOK
  <2>2. Prefix(<<>>, leaves)
    BY <2>1 DEF Prefix
  <2>. QED
    BY <1>1, <1>2, <2>1, <2>2 DEF Snapshot
<1>. QED
  BY <1>1, <1>2, <1>3, <1>4, Kept, OtherFileStep

(* build.                                                                       *)
LEMMA BuildStep == ASSUME CliInv, NEW kind \in Kinds, Build(kind) PROVE CliInv'
<1>1. /\ calls' = [calls EXCEPT ![kind] = proofs[kind]]
      /\ UNCHANGED <<use, made, files, state, proofs, chain, jobs>>
  BY DEF Build
<1>2. UNCHANGED <<notes, changes, sealed, backup, apnote, leaves, spent, pending>>
  BY <1>1 DEF chain, files
<1>3. Grows
  BY <1>1, <1>2, QuietGrows
<1>4. DocsOK'
  <2>1. calls' \in [Kinds -> Docs \cup {NoDoc}] /\ proofs' \in [Kinds -> Docs \cup {NoDoc}]
    BY <1>1 DEF CliInv, DocsOK
  <2>2. ASSUME NEW k \in Kinds PROVE DocOK(proofs[k])' /\ DocOK(calls[k])'
    <3>1. PICK p : p = proofs[k]
      OBVIOUS
    <3>2. PICK c : c = calls'[k]
      OBVIOUS
    <3>3. DocOK(p) /\ DocOK(c)
      BY <1>1, <3>1, <3>2 DEF CliInv, DocsOK
    <3>4. DocOK(p)' /\ DocOK(c)'
      BY <1>3, <3>3, DocStays
    <3>. QED
      BY <1>1, <3>1, <3>2, <3>4
  <2>3. \A d \in pending' : d # NoDoc /\ DocOK(d)'
    BY <1>2, <1>3, DocStays DEF CliInv, DocsOK
  <2>. QED
    BY <2>1, <2>2, <2>3 DEF DocsOK, Docs
<1>. QED
  BY <1>1, <1>2, <1>3, <1>4, Kept, OtherFileStep

(* tx send.                                                                     *)
LEMMA SendStep == ASSUME CliInv, NEW kind \in Kinds, SendCall(kind) PROVE CliInv'
<1>1. /\ pending' = pending \cup {calls[kind]} /\ calls[kind] # NoDoc
      /\ UNCHANGED <<use, made, files, state, docs, leaves, spent, jobs>>
  BY DEF SendCall
<1>2. UNCHANGED <<notes, changes, sealed, backup, apnote, proofs, calls>>
  BY <1>1 DEF docs, files
<1>3. Grows
  BY <1>1, <1>2, QuietGrows
<1>4. \A d \in pending' : d # NoDoc /\ DocOK(d)
  BY <1>1 DEF CliInv, DocsOK
<1>5. DocsOK'
  <2>1. \A d \in pending' : d # NoDoc /\ DocOK(d)'
    BY <1>3, <1>4, DocStays
  <2>2. ASSUME NEW k \in Kinds PROVE DocOK(proofs[k])' /\ DocOK(calls[k])'
    <3>1. PICK p : p = proofs[k]
      OBVIOUS
    <3>2. PICK c : c = calls[k]
      OBVIOUS
    <3>3. DocOK(p) /\ DocOK(c)
      BY <3>1, <3>2 DEF CliInv, DocsOK
    <3>4. DocOK(p)' /\ DocOK(c)'
      BY <1>3, <3>3, DocStays
    <3>. QED
      BY <1>2, <3>1, <3>2, <3>4
  <2>3. (proofs \in [Kinds -> Docs \cup {NoDoc}])' /\ (calls \in [Kinds -> Docs \cup {NoDoc}])'
    BY <1>2 DEF CliInv, DocsOK, Docs
  <2>. QED
    BY <2>1, <2>2, <2>3 DEF DocsOK
<1>. QED
  BY <1>1, <1>2, <1>3, <1>5, Kept, OtherFileStep

-----------------------------------------------------------------------------
(* The steps of a running command.                                             *)

(* What a command that rewrites the store starts with.                          *)
LEMMA StoreJobOK ==
  ASSUME NEW cmd \in Rewriters, cmd \in {"scan", "pyscan"} => "scan" \in use.cmds,
         NEW source \in Sources, NEW store, Sound(store),
         NEW todo \in Seq(Nat), \A k \in DOMAIN todo : todo[k] \in DOMAIN store
  PROVE  /\ JobOK(StoreJob(cmd, source, store, todo))
         /\ StoreJob(cmd, source, store, todo).cmd = cmd
         /\ StoreJob(cmd, source, store, todo).mem = store
<1>1. store \in Seq(Records)
  BY DEF Sound
<1>2. PICK j : j = StoreJob(cmd, source, store, todo)
  OBVIOUS
<1>3. /\ j \in [cmd : Rewriters, source : Sources, mem : Seq(Records), todo : Seq(Nat),
               snap : Seq(Everybodys) \cup {NoDoc}]
      /\ j.cmd = cmd /\ j.mem = store /\ j.todo = todo /\ j.snap = NoDoc
  BY <1>1, <1>2 DEF StoreJob
<1>. QED
  BY <1>2, <1>3 DEF JobOK

(* Such a command starts, alone if the user keeps commands apart.               *)
LEMMA StartsStep ==
  ASSUME CliInv, Apart, NEW s \in Slots, NEW cmd \in Rewriters, NEW source \in Sources,
         cmd \in {"scan", "pyscan"} => "scan" \in use.cmds,
         NEW store, Sound(store), Commitments(notes) \subseteq Commitments(store),
         NEW todo \in Seq(Nat), \A k \in DOMAIN todo : todo[k] \in DOMAIN store,
         jobs' = [jobs EXCEPT ![s] = StoreJob(cmd, source, store, todo)],
         UNCHANGED <<use, made, files, state, docs, chain>>
  PROVE  CliInv'
<1>1. PICK j : j = StoreJob(cmd, source, store, todo)
  OBVIOUS
<1>2. JobOK(j) /\ j.cmd = cmd /\ j.mem = store
  BY <1>1, StoreJobOK
<1>3. jobs' = [jobs EXCEPT ![s] = j]
  BY <1>1
<1>4. made \subseteq made' /\ made' \subseteq Notes
  BY DEF CliInv, WorldOK
<1>. QED
  BY <1>2, <1>3, <1>4, JobStep DEF Apart

(* note accept: a note the store has is bound again, another one is added.      *)
LEMMA AcceptStep ==
  ASSUME CliInv, NEW s \in Slots, NEW e \in sealed, NEW source \in Sources,
         NoteAccept(s, e, source)
  PROVE  CliInv'
<1> DEFINE at == {i \in DOMAIN notes : notes[i].c = e.c}
<1>1. PICK r : r = Record(e.c, e.leaf)
  OBVIOUS
<1>2. PICK store : store = IF at # {} THEN notes ELSE Append(notes, r)
  OBVIOUS
<1>3. PICK index : index = CHOOSE i \in DOMAIN store : store[i].c = e.c
  OBVIOUS
<1>4. PICK todo : todo = IF source = "none" THEN <<>> ELSE <<index>>
  OBVIOUS
<1>5. /\ Apart /\ UNCHANGED <<use, made, files, state, docs, chain>>
      /\ jobs' = [jobs EXCEPT ![s] = StoreJob("accept", source, store, todo)]
  BY <1>1, <1>2, <1>3, <1>4 DEF NoteAccept
<1>6. /\ Sound(notes) /\ r \in Records /\ r.c = e.c /\ Good(r)
  <2>1. Sound(notes) /\ e \in FileRecords /\ Told(e.c, e.leaf)
    BY DEF CliInv, StoresOK, FileOK
  <2>2. e.c \in Notes /\ e.leaf \in Leaf
    BY <2>1 DEF FileRecords
  <2>. QED
    BY <1>1, <2>1, <2>2, RecordIs DEF Good
<1>7. /\ Sound(store) /\ Commitments(notes) \subseteq Commitments(store)
      /\ e.c \in Commitments(store)
  <2>1. CASE at # {}
    BY <1>2, <1>6, <2>1 DEF Commitments
  <2>2. CASE at = {}
    <3>1. e.c \notin Commitments(notes)
      BY <2>2 DEF Commitments
    <3>. QED
      BY <1>2, <1>6, <2>2, <3>1, AppendSound
  <2>. QED
    BY <2>1, <2>2
<1>8. index \in DOMAIN store
  <2>1. \E i \in DOMAIN store : store[i].c = e.c
    BY <1>7 DEF Commitments
  <2>. QED
    BY <1>3, <2>1
<1>9. todo \in Seq(Nat) /\ \A k \in DOMAIN todo : todo[k] \in DOMAIN store
  <2>1. index \in Nat
    BY <1>7, <1>8 DEF Sound
  <2>2. CASE source = "none"
    BY <1>4, <2>2
  <2>3. CASE source # "none"
    <3>1. todo = <<index>>
      BY <1>4, <2>3
    <3>. QED
      BY <1>8, <2>1, <3>1
  <2>. QED
    BY <2>2, <2>3
<1>10. "accept" \in Rewriters
  BY DEF Rewriters
<1>. QED
  BY <1>5, <1>7, <1>9, <1>10, StartsStep

(* note mailbox-scan: the envelopes are taken one after the other.              *)
LEMMA MailboxStep ==
  ASSUME CliInv, NEW s \in Slots, NEW envelopes \in SetToSeqs(sealed), NEW source \in Sources,
         NoteMailboxScan(s, envelopes, source)
  PROVE  CliInv'
<1>1. PICK imported : imported = [i \in DOMAIN envelopes |-> Record(envelopes[i].c, envelopes[i].leaf)]
  OBVIOUS
<1>2. PICK store : store = Merged(notes, imported)
  OBVIOUS
<1>3. PICK new : new = [i \in 1 .. (Len(store) - Len(notes)) |-> Len(notes) + i]
  OBVIOUS
<1>4. PICK todo : todo = IF source = "none" THEN <<>> ELSE new
  OBVIOUS
<1>5. /\ Apart /\ UNCHANGED <<use, made, files, state, docs, chain>>
      /\ jobs' = [jobs EXCEPT ![s] = StoreJob("mailbox", source, store, todo)]
  BY <1>1, <1>2, <1>3, <1>4 DEF NoteMailboxScan, Accepted
<1>6. /\ Sound(notes) /\ IsFiniteSet(sealed)
      /\ \A f \in sealed : f.c \in Notes /\ f.leaf \in Leaf /\ Told(f.c, f.leaf)
  BY DEF CliInv, StoresOK, FileOK, FileRecords
<1>7. PICK n \in Nat : n = Cardinality(sealed)
  BY <1>6, FS_CardinalityType
<1>8. DOMAIN envelopes = 1 .. n /\ \A i \in 1 .. n : envelopes[i] \in sealed
  BY <1>7 DEF SetToSeqs
<1>9. ASSUME NEW i \in 1 .. n PROVE imported[i] \in Records /\ Good(imported[i])
  <2>1. envelopes[i].c \in Notes /\ envelopes[i].leaf \in Leaf /\ Told(envelopes[i].c, envelopes[i].leaf)
    BY <1>6, <1>8
  <2>2. imported[i] = Record(envelopes[i].c, envelopes[i].leaf)
    BY <1>1, <1>8
  <2>. QED
    BY <2>1, <2>2, RecordIs DEF Good
<1>10. imported \in Seq(Records) /\ DOMAIN imported = 1 .. n
  <2>1. imported = [i \in 1 .. n |-> imported[i]]
    BY <1>1, <1>8
  <2>. QED
    BY <1>9, <2>1
<1>11. Sound(store) /\ Commitments(notes) \subseteq Commitments(store)
  BY <1>2, <1>6, <1>9, <1>10, MergedSound
<1>12. todo \in Seq(Nat) /\ \A k \in DOMAIN todo : todo[k] \in DOMAIN store
  <2>1. PICK a \in Nat : a = Len(notes)
    BY <1>6 DEF Sound
  <2>2. PICK b \in Nat : b = Len(store) /\ DOMAIN store = 1 .. b
    BY <1>11 DEF Sound
  <2>3. new = [i \in 1 .. (b - a) |-> a + i]
    BY <1>3, <2>1, <2>2
  <2>4. \A i \in 1 .. (b - a) : a + i \in Nat /\ a + i \in 1 .. b
    BY <2>1, <2>2
  <2>5. new \in Seq(Nat) /\ \A k \in DOMAIN new : new[k] \in DOMAIN store
    <3>1. CASE b >= a
      <4>1. b - a \in Nat
        BY <3>1
      <4>. QED
        BY <2>2, <2>3, <2>4, <4>1
    <3>2. CASE ~(b >= a)
      <4>1. 1 .. (b - a) = 1 .. 0
        BY <3>2
      <4>. QED
        BY <2>3, <4>1
    <3>. QED
      BY <3>1, <3>2
  <2>6. <<>> \in Seq(Nat) /\ DOMAIN <<>> = {}
    OBVIOUS
  <2>. QED
    BY <1>4, <2>5, <2>6
<1>13. "mailbox" \in Rewriters
  BY DEF Rewriters
<1>. QED
  BY <1>5, <1>11, <1>12, <1>13, StartsStep

(* note scan of either client starts from the store as it is.                   *)
LEMMA ScanStep ==
  ASSUME CliInv, NEW s \in Slots, NEW source \in Sources,
         NoteScan(s, source) \/ PyNoteScan(s, source)
  PROVE  CliInv'
<1>1. PICK todo : todo = [i \in DOMAIN notes |-> i]
  OBVIOUS
<1>2. /\ Apart /\ UNCHANGED <<use, made, files, state, docs, chain>>
      /\ \/ jobs' = [jobs EXCEPT ![s] = StoreJob("scan", source, notes, todo)]
         \/ jobs' = [jobs EXCEPT ![s] = StoreJob("pyscan", source, notes, todo)]
      /\ "scan" \in use.cmds
  BY <1>1 DEF NoteScan, PyNoteScan, Starts, Typed
<1>3. PICK store : store = notes
  OBVIOUS
<1>4. Sound(store) /\ Commitments(notes) \subseteq Commitments(store)
  BY <1>3 DEF CliInv, StoresOK
<1>5. todo \in Seq(Nat) /\ \A k \in DOMAIN todo : todo[k] \in DOMAIN store
  <2>1. PICK n \in Nat : n = Len(store) /\ DOMAIN store = 1 .. n
    BY <1>4 DEF Sound
  <2>2. todo = [i \in 1 .. n |-> i]
    BY <1>1, <1>3, <2>1
  <2>. QED
    BY <2>1, <2>2
<1>6. "scan" \in Rewriters /\ "pyscan" \in Rewriters
  BY DEF Rewriters
<1>. QED
  BY <1>2, <1>3, <1>4, <1>5, <1>6, StartsStep

(* A command that rewrites the store goes on, with the same notes.             *)
LEMMA GoesOn ==
  ASSUME CliInv, NEW s \in Slots, jobs[s].cmd \in Rewriters, NEW j, JobOK(j),
         j.cmd = jobs[s].cmd, Commitments(j.mem) = Commitments(jobs[s].mem),
         jobs' = [jobs EXCEPT ![s] = j], UNCHANGED <<use, made, files, state, docs, chain>>
  PROVE  CliInv'
<1>1. made \subseteq made' /\ made' \subseteq Notes
  BY DEF CliInv, WorldOK
<1>2. use.apart => /\ \A t \in Slots : t # s => jobs[t].cmd \notin StoreJobs
                   /\ Commitments(notes) \subseteq Commitments(j.mem)
  BY DEF CliInv, OneRewrites, StoreJobs
<1>. QED
  BY <1>1, <1>2, JobStep

(* The state or the pool, as a command reads it.                               *)
LEMMA ReadsSnapshot ==
  ASSUME CliInv
  PROVE  Snapshot(state) /\ Snapshot(leaves) /\ PySnapshot(Len(leaves)) = leaves
<1>1. leaves \in Seq(Everybodys)
  BY DEF CliInv, WorldOK
<1>2. PySnapshot(Len(leaves)) = leaves
  BY <1>1 DEF PySnapshot
<1>. QED
  BY <1>1, <1>2, PrefixOfItself DEF CliInv, Snapshot

(* A record of a command's memory takes a leaf that is where the note is.      *)
MemMoves(s, r) ==
    jobs' = [jobs EXCEPT ![s] =
      [jobs[s] EXCEPT !.todo = Tail(jobs[s].todo),
                      !.mem = [jobs[s].mem EXCEPT ![Head(jobs[s].todo)] = r]]]

(* The command moves on to its next note.                                       *)
LEMMA MemStep ==
  ASSUME CliInv, NEW s \in Slots, jobs[s].cmd \in Rewriters, jobs[s].todo # <<>>,
         NEW r \in Records, Good(r), r.c = jobs[s].mem[Head(jobs[s].todo)].c,
         MemMoves(s, r), UNCHANGED <<use, made, files, state, docs, chain>>
  PROVE  CliInv'
<1>12. PICK k : k = jobs[s]
  OBVIOUS
<1>13. PICK i : i = Head(k.todo)
  OBVIOUS
<1>14. PICK j : j = [k EXCEPT !.todo = Tail(k.todo), !.mem = [k.mem EXCEPT ![i] = r]]
  OBVIOUS
<1>15. /\ k.cmd \in Rewriters /\ k.todo # <<>> /\ r.c = k.mem[i].c
       /\ jobs' = [jobs EXCEPT ![s] = j]
  BY ONLY <1>12, <1>13, <1>14, MemMoves(s, r), jobs[s].cmd \in Rewriters, jobs[s].todo # <<>>,
          r.c = jobs[s].mem[Head(jobs[s].todo)].c DEF MemMoves
<1>1. JobOK(k)
  BY <1>12 DEF CliInv, JobsOK
<1>2. /\ k \in [cmd : Rewriters, source : Sources, mem : Seq(Records), todo : Seq(Nat),
                snap : Seq(Everybodys) \cup {NoDoc}]
      /\ Sound(k.mem) /\ \A n \in DOMAIN k.todo : k.todo[n] \in DOMAIN k.mem
      /\ k.snap # NoDoc => Snapshot(k.snap)
      /\ k.cmd \in {"scan", "pyscan"} => "scan" \in use.cmds
  BY <1>1, <1>15, StoreJobIs
<1>3. PICK rest : rest = Tail(k.todo)
  OBVIOUS
<1>4. PICK mem : mem = [k.mem EXCEPT ![i] = r]
  OBVIOUS
<1>5. PICK todo \in Seq(Nat) : todo = k.todo
  BY <1>2
<1>6. i \in DOMAIN k.mem /\ rest \in Seq(Nat) /\ \A n \in DOMAIN rest : rest[n] \in DOMAIN k.mem
  <2>1. i = todo[1] /\ 1 \in DOMAIN todo
    BY <1>5, <1>13, <1>15
  <2>2. rest \in Seq(Nat) /\ \A n \in DOMAIN rest : n + 1 \in DOMAIN todo /\ rest[n] = todo[n + 1]
    BY <1>3, <1>5, <1>15
  <2>. QED
    BY <1>2, <1>5, <2>1, <2>2
<1>7. Sound(mem) /\ Commitments(mem) = Commitments(k.mem)
  BY <1>2, <1>4, <1>6, <1>15, ReplaceSound
<1>8. mem \in Seq(Records) /\ DOMAIN mem = DOMAIN k.mem
  BY <1>4, <1>7 DEF Sound
<1>9. j = [k EXCEPT !.todo = rest, !.mem = mem]
  BY <1>3, <1>4, <1>14
<1>10. /\ j \in [cmd : Rewriters, source : Sources, mem : Seq(Records), todo : Seq(Nat),
                 snap : Seq(Everybodys) \cup {NoDoc}]
       /\ j.cmd = k.cmd /\ j.mem = mem /\ j.todo = rest /\ j.snap = k.snap
  BY ONLY <1>2, <1>6, <1>8, <1>9
<1>11. JobOK(j)
  BY <1>2, <1>6, <1>7, <1>8, <1>10 DEF JobOK
<1>. QED
  BY <1>7, <1>10, <1>11, <1>12, <1>15, GoesOn

(* tryBindLeafForCommitment: a note already in the store may be bound again.   *)
LEMMA BindLeafStep ==
  ASSUME CliInv, ByHandOrScanned, NEW s \in Slots, BindLeaf(s)
  PROVE  CliInv'
<1>1. PICK k : k = jobs[s]
  OBVIOUS
<1>2. PICK i : i = Head(k.todo)
  OBVIOUS
<1>3. PICK note : note = k.mem[i]
  OBVIOUS
<1>4. PICK snap : snap = IF k.source = "state" THEN state ELSE leaves
  OBVIOUS
<1>5. PICK leaf : leaf = LeafOf(snap, note.c)
  OBVIOUS
<1>6. PICK r : r = [note EXCEPT !.leaf = IF leaf # NoLeaf THEN leaf ELSE note.leaf]
  OBVIOUS
<1>7. PICK j : j = [k EXCEPT !.todo = Tail(k.todo), !.mem = [k.mem EXCEPT ![i] = r]]
  OBVIOUS
<1>8. /\ k.cmd \in {"accept", "mailbox"} /\ k.todo # <<>>
      /\ UNCHANGED <<use, made, files, state, docs, chain>>
      /\ jobs' = [jobs EXCEPT ![s].todo = Tail(k.todo),
                  ![s].mem[i].leaf = IF leaf # NoLeaf THEN leaf ELSE note.leaf]
  BY <1>1, <1>2, <1>3, <1>4, <1>5 DEF BindLeaf
<1>9. k.cmd \in Rewriters /\ DOMAIN jobs = Slots /\ JobOK(k)
  BY <1>1, <1>8 DEF Rewriters, CliInv, JobsOK
<1>10. /\ k \in [cmd : Rewriters, source : Sources, mem : Seq(Records), todo : Seq(Nat),
                 snap : Seq(Everybodys) \cup {NoDoc}]
       /\ Sound(k.mem) /\ \A n \in DOMAIN k.todo : k.todo[n] \in DOMAIN k.mem
  BY <1>9, StoreJobIs
<1>11. i \in DOMAIN k.mem
  <2>1. PICK todo \in Seq(Nat) : todo = k.todo
    BY <1>10
  <2>2. i = todo[1] /\ 1 \in DOMAIN todo
    BY <1>2, <1>8, <2>1
  <2>. QED
    BY <1>10, <2>1, <2>2
<1>12. note \in Records /\ Good(note)
  BY <1>3, <1>10, <1>11 DEF Sound
<1>13. jobs' = [jobs EXCEPT ![s] = j]
  BY ONLY <1>1, <1>3, <1>6, <1>7, <1>8, <1>9, <1>10, <1>11, s \in Slots
<1>14. r \in Records /\ r.c = note.c /\ Good(r)
  <2>1. CASE leaf # NoLeaf
    <3>1. Snapshot(snap) /\ note.c \in made
      BY <1>4, <1>12, ReadsSnapshot DEF Good, Told
    <3>2. leaf \in Nat /\ Told(note.c, leaf)
      BY <1>5, <2>1, <3>1, FoundLeaf
    <3>3. r = [note EXCEPT !.leaf = leaf]
      BY <1>6, <2>1
    <3>. QED
      BY <1>12, <2>1, <3>2, <3>3, Rebound DEF Records, Leaf
  <2>2. CASE leaf = NoLeaf
    <3>1. r = note
      BY <1>6, <1>12, <2>2 DEF Records
    <3>. QED
      BY <1>12, <3>1
  <2>. QED
    BY <2>1, <2>2
<1>15. MemMoves(s, r)
  BY ONLY <1>1, <1>2, <1>7, <1>13 DEF MemMoves
<1>. QED
  BY <1>1, <1>2, <1>3, <1>8, <1>9, <1>14, <1>15, MemStep

(* The scan reads the state file or the pool.                                   *)
LEMMA ScanStateStep ==
  ASSUME CliInv, NEW s \in Slots, ScanState(s) \/ PyScanState(s)
  PROVE  CliInv'
<1>1. PICK k : k = jobs[s]
  OBVIOUS
<1>2. PICK snap : snap = IF k.source = "state" THEN state ELSE leaves
  OBVIOUS
<1>3. PICK j : j = [k EXCEPT !.snap = snap]
  OBVIOUS
<1>4. /\ k.cmd \in {"scan", "pyscan"} /\ UNCHANGED <<use, made, files, state, docs, chain>>
      /\ jobs' = [jobs EXCEPT ![s].snap = snap]
  BY <1>1, <1>2, ReadsSnapshot DEF ScanState, PyScanState
<1>5. k.cmd \in Rewriters /\ DOMAIN jobs = Slots /\ JobOK(k) /\ Snapshot(snap)
  BY <1>1, <1>2, <1>4, ReadsSnapshot DEF Rewriters, CliInv, JobsOK
<1>6. /\ k \in [cmd : Rewriters, source : Sources, mem : Seq(Records), todo : Seq(Nat),
                snap : Seq(Everybodys) \cup {NoDoc}]
      /\ Sound(k.mem) /\ \A n \in DOMAIN k.todo : k.todo[n] \in DOMAIN k.mem
      /\ k.cmd \in {"scan", "pyscan"} => "scan" \in use.cmds
  BY <1>5, StoreJobIs
<1>7. jobs' = [jobs EXCEPT ![s] = j]
  BY ONLY <1>1, <1>3, <1>4, <1>5, s \in Slots
<1>8. snap \in Seq(Everybodys)
  BY <1>5 DEF Snapshot
<1>9. /\ j \in [cmd : Rewriters, source : Sources, mem : Seq(Records), todo : Seq(Nat),
                snap : Seq(Everybodys) \cup {NoDoc}]
      /\ j.cmd = k.cmd /\ j.mem = k.mem /\ j.todo = k.todo /\ j.snap = snap
  BY ONLY <1>3, <1>6, <1>8
<1>10. JobOK(j)
  BY <1>5, <1>6, <1>9 DEF JobOK
<1>. QED
  BY <1>1, <1>4, <1>5, <1>7, <1>9, <1>10, GoesOn

(* One note of a scan: an unspent record learns its leaf and its mark.         *)
MarkedAs(r, note, leaf) ==
    r = [note EXCEPT !.leaf = leaf,
                     !.hint = IF <<note.c, leaf>> \in spent THEN "spent" ELSE "unspent"]

(* A record gets the mark its nullifier has in the pool.                        *)
LEMMA Marked ==
  ASSUME CliInv, NEW note \in Records, Good(note), note.hint # "spent",
         NEW leaf \in Nat, leaf # NoLeaf, Told(note.c, leaf), "scan" \in use.cmds,
         NEW r, MarkedAs(r, note, leaf)
  PROVE  r \in Records /\ r.c = note.c /\ Good(r)
<1>1. PICK hint : hint = IF <<note.c, leaf>> \in spent THEN "spent" ELSE "unspent"
  OBVIOUS
<1>2. r = [note EXCEPT !.leaf = leaf, !.hint = hint]
  BY <1>1 DEF MarkedAs
<1>3. r \in Records /\ r.c = note.c /\ r.leaf = leaf /\ r.hint = hint
  BY <1>1, <1>2 DEF Records, Leaf
<1>. QED
  BY <1>1, <1>3 DEF Good

(* What both scans have at hand.                                               *)
LEMMA ScanHas ==
  ASSUME CliInv, NEW s \in Slots, jobs[s].cmd \in {"scan", "pyscan"}, jobs[s].todo # <<>>
  PROVE  /\ jobs[s].cmd \in Rewriters /\ DOMAIN jobs = Slots /\ "scan" \in use.cmds
         /\ jobs[s].mem \in Seq(Records) /\ jobs[s].todo \in Seq(Nat)
         /\ jobs[s] \in [cmd : Rewriters, source : Sources, mem : Seq(Records), todo : Seq(Nat),
                         snap : Seq(Everybodys) \cup {NoDoc}]
         /\ Head(jobs[s].todo) \in DOMAIN jobs[s].mem
         /\ jobs[s].mem[Head(jobs[s].todo)] \in Records
         /\ Good(jobs[s].mem[Head(jobs[s].todo)])
         /\ jobs[s].snap # NoDoc => Snapshot(jobs[s].snap)
<1>1. PICK k : k = jobs[s]
  OBVIOUS
<1>2. k.cmd \in Rewriters /\ DOMAIN jobs = Slots /\ JobOK(k)
  BY <1>1 DEF Rewriters, CliInv, JobsOK
<1>3. /\ k \in [cmd : Rewriters, source : Sources, mem : Seq(Records), todo : Seq(Nat),
                snap : Seq(Everybodys) \cup {NoDoc}]
      /\ Sound(k.mem) /\ \A n \in DOMAIN k.todo : k.todo[n] \in DOMAIN k.mem
      /\ k.snap # NoDoc => Snapshot(k.snap)
      /\ k.cmd \in {"scan", "pyscan"} => "scan" \in use.cmds
  BY <1>2, StoreJobIs
<1>4. PICK todo \in Seq(Nat) : todo = k.todo
  BY <1>3
<1>5. Head(todo) = todo[1] /\ 1 \in DOMAIN todo
  BY <1>1, <1>4
<1>6. Head(k.todo) \in DOMAIN k.mem
  BY <1>3, <1>4, <1>5
<1>. QED
  BY <1>1, <1>2, <1>3, <1>6 DEF Sound

(* One note of a scan by ap.mjs.                                                *)
LEMMA ScanNoteStep ==
  ASSUME CliInv, NEW s \in Slots, ScanNote(s)
  PROVE  CliInv'
<1>1. PICK k : k = jobs[s]
  OBVIOUS
<1>2. PICK i : i = Head(k.todo)
  OBVIOUS
<1>3. PICK note : note = k.mem[i]
  OBVIOUS
<1>4. PICK r : r = Scanned(note, k.snap)
  OBVIOUS
<1>5. /\ k.cmd = "scan" /\ k.snap # NoDoc /\ k.todo # <<>>
      /\ jobs' = [jobs EXCEPT ![s].todo = Tail(k.todo), ![s].mem[i] = r]
      /\ UNCHANGED <<use, made, files, state, docs, chain>>
  BY <1>1, <1>2, <1>3, <1>4 DEF ScanNote
<1>6. /\ k.cmd \in Rewriters /\ DOMAIN jobs = Slots /\ "scan" \in use.cmds
      /\ k \in [cmd : Rewriters, source : Sources, mem : Seq(Records), todo : Seq(Nat),
                snap : Seq(Everybodys) \cup {NoDoc}]
      /\ i \in DOMAIN k.mem /\ note \in Records /\ Good(note) /\ Snapshot(k.snap)
  BY <1>1, <1>2, <1>3, <1>5, ScanHas
<1>7. MemMoves(s, r)
  BY ONLY <1>1, <1>2, <1>5, <1>6, s \in Slots DEF MemMoves
<1>8. r \in Records /\ r.c = note.c /\ Good(r)
  <2>1. PICK leaf : leaf = Known(note, k.snap)
    OBVIOUS
  <2>2. CASE note.hint = "spent" \/ leaf = NoLeaf
    BY <1>4, <1>6, <2>1, <2>2 DEF Scanned
  <2>3. CASE note.hint # "spent" /\ leaf # NoLeaf
    <3>1. PICK hint : hint = IF <<note.c, leaf>> \in spent THEN "spent" ELSE "unspent"
      OBVIOUS
    <3>2. r = [note EXCEPT !.leaf = leaf, !.hint = hint]
      BY <1>4, <2>1, <2>3, <3>1 DEF Scanned
    <3>3. leaf \in Nat /\ Told(note.c, leaf)
      <4>1. CASE note.leaf # NoLeaf
        BY <1>6, <2>1, <4>1 DEF Known, Good, Records, Leaf
      <4>2. CASE note.leaf = NoLeaf
        <5>1. leaf = LeafOf(k.snap, note.c)
          BY <2>1, <4>2 DEF Known
        <5>. QED
          BY <1>6, <2>3, <5>1, FoundLeaf DEF Good, Told
      <4>. QED
        BY <4>1, <4>2
    <3>. QED
      BY <1>6, <2>3, <3>1, <3>2, <3>3, Marked DEF MarkedAs
  <2>. QED
    BY <2>2, <2>3
<1>. QED
  BY <1>1, <1>2, <1>3, <1>5, <1>6, <1>7, <1>8, MemStep

(* One note of a scan by the Python client.                                     *)
LEMMA PyScanNoteStep ==
  ASSUME CliInv, NEW s \in Slots, PyScanNote(s)
  PROVE  CliInv'
<1>1. PICK k : k = jobs[s]
  OBVIOUS
<1>2. PICK i : i = Head(k.todo)
  OBVIOUS
<1>3. PICK note : note = k.mem[i]
  OBVIOUS
<1>4. PICK leaf : leaf = IF note.leaf # NoLeaf THEN note.leaf
                         ELSE PyFindCommitmentIndex(k.snap, note.c)
  OBVIOUS
<1>5. PICK hint : hint = IF <<note.c, leaf>> \in spent THEN "spent" ELSE "unspent"
  OBVIOUS
<1>6. PICK r : r = IF note.hint = "spent" \/ leaf = NoLeaf THEN note
                   ELSE [note EXCEPT !.hint = hint, !.leaf = leaf]
  OBVIOUS
<1>7. /\ k.cmd = "pyscan" /\ k.snap # NoDoc /\ k.todo # <<>>
      /\ jobs' = [jobs EXCEPT ![s].todo = Tail(k.todo), ![s].mem[i] = r]
      /\ UNCHANGED <<use, made, files, state, docs, chain>>
  BY <1>1, <1>2, <1>3, <1>4, <1>5, <1>6 DEF PyScanNote, PyIsNullifierSpent
<1>8. /\ k.cmd \in Rewriters /\ DOMAIN jobs = Slots /\ "scan" \in use.cmds
      /\ k \in [cmd : Rewriters, source : Sources, mem : Seq(Records), todo : Seq(Nat),
                snap : Seq(Everybodys) \cup {NoDoc}]
      /\ i \in DOMAIN k.mem /\ note \in Records /\ Good(note) /\ Snapshot(k.snap)
  BY <1>1, <1>2, <1>3, <1>7, ScanHas
<1>9. MemMoves(s, r)
  BY ONLY <1>1, <1>2, <1>7, <1>8, s \in Slots DEF MemMoves
<1>10. r \in Records /\ r.c = note.c /\ Good(r)
  <2>1. CASE note.hint = "spent" \/ leaf = NoLeaf
    BY <1>6, <1>8, <2>1
  <2>2. CASE note.hint # "spent" /\ leaf # NoLeaf
    <3>1. r = [note EXCEPT !.leaf = leaf, !.hint = hint]
      BY <1>6, <1>8, <2>2 DEF Records
    <3>2. leaf \in Nat /\ Told(note.c, leaf)
      <4>1. CASE note.leaf # NoLeaf
        BY <1>4, <1>8, <4>1 DEF Good, Records, Leaf
      <4>2. CASE note.leaf = NoLeaf
        <5>1. leaf = PyFindCommitmentIndex(k.snap, note.c)
          BY <1>4, <4>2
        <5>. QED
          BY <1>8, <2>2, <5>1, PyFoundLeaf DEF Good, Told
      <4>. QED
        BY <4>1, <4>2
    <3>. QED
      BY <1>5, <1>8, <2>2, <3>1, <3>2, Marked DEF MarkedAs
  <2>. QED
    BY <2>1, <2>2
<1>. QED
  BY <1>1, <1>2, <1>3, <1>7, <1>8, <1>9, <1>10, MemStep

(* The command writes what it read and changed, which is the whole store.      *)
LEMMA WriteStoreStep ==
  ASSUME CliInv, NEW s \in Slots, WriteStore(s)
  PROVE  CliInv'
<1>1. PICK k : k = jobs[s]
  OBVIOUS
<1>2. /\ k.cmd \in Rewriters /\ notes' = k.mem /\ jobs' = [jobs EXCEPT ![s] = Idle]
      /\ UNCHANGED <<use, made, changes, sealed, backup, apnote, state, docs, chain>>
  BY <1>1 DEF WriteStore, Rewritten
<1>3. Sound(k.mem) /\ DOMAIN jobs = Slots
  BY <1>1, <1>2, StoreJobIs DEF CliInv, JobsOK
<1>4. use.apart => /\ Commitments(notes) \subseteq Commitments(k.mem)
                   /\ \A t \in Slots : t # s => jobs[t].cmd \notin StoreJobs
  BY <1>1, <1>2 DEF CliInv, OneRewrites, StoreJobs
<1>5. Careful => Durable \subseteq Durable'
  <2>1. Commitments(notes') = Commitments(k.mem)
    BY <1>2
  <2>. QED
    BY <1>2, <1>4, <2>1 DEF Careful, Durable, Commitments
<1>6. UNCHANGED <<leaves, spent, pending, changes, sealed>>
  BY <1>2 DEF chain
<1>7. made \subseteq made' /\ made' \subseteq Notes
  BY <1>2 DEF CliInv, WorldOK
<1>8. Grows /\ WorldOK'
  BY <1>2, <1>5, <1>6, <1>7, QuietPool
<1>9. Sound(notes)'
  BY <1>2, <1>3, <1>8, SoundStays
<1>10. JobOK(Idle)'
  BY IdleOK, <1>8, JobStays
<1>11. /\ Sound(backup)' /\ Sound(apnote)' /\ Snapshot(state)' /\ DocsOK' /\ JobsOK'
       /\ IsFiniteSet(sealed)' /\ \A f \in changes' \cup sealed' : FileOK(f)'
  BY <1>2, <1>6, <1>8, <1>10, Kept
<1>12. OneRewrites'
  <2>1. \A t \in Slots : jobs'[t] = IF t = s THEN Idle ELSE jobs[t]
    BY <1>2, <1>3
  <2>2. Idle.cmd \notin StoreJobs /\ Rewriters \subseteq StoreJobs
    BY DEF Idle, StoreJobs, Rewriters
  <2>3. use.apart => \A t \in Slots : jobs'[t].cmd \notin StoreJobs
    BY <1>4, <2>1, <2>2
  <2>. QED
    BY <1>2, <2>2, <2>3 DEF OneRewrites
<1>. QED
  BY <1>8, <1>9, <1>11, <1>12 DEF CliInv, StoresOK

(* state fetch of either client reads the anchor.                               *)
LEMMA FetchStep ==
  ASSUME CliInv, NEW s \in Slots, StateFetch(s) \/ PyStateFetch(s)
  PROVE  CliInv'
<1>1. PICK cmd \in {"fetch", "pyfetch"} :
         /\ jobs' = [jobs EXCEPT ![s] = [cmd |-> cmd, anchor |-> leaves]]
         /\ UNCHANGED <<use, made, files, state, docs, chain>>
  BY DEF StateFetch, PyStateFetch
<1>2. PICK anchor : anchor = leaves
  OBVIOUS
<1>3. PICK j : j = [cmd |-> cmd, anchor |-> anchor]
  OBVIOUS
<1>4. anchor \in Seq(Everybodys) /\ Prefix(anchor, leaves)
  BY <1>2, PrefixOfItself DEF CliInv, WorldOK
<1>5. JobOK(j) /\ j.cmd = cmd
  BY <1>3, <1>4 DEF JobOK
<1>6. j.cmd \notin StoreJobs /\ j.cmd \notin Rewriters
  BY <1>5 DEF StoreJobs, Rewriters
<1>7. made \subseteq made' /\ made' \subseteq Notes /\ jobs' = [jobs EXCEPT ![s] = j]
  BY <1>1, <1>2, <1>3 DEF CliInv, WorldOK
<1>. QED
  BY <1>1, <1>5, <1>6, <1>7, JobStep

(* A command ends, and leaves a state or a document.                           *)
LEMMA EndStep ==
  ASSUME CliInv, NEW s \in Slots, jobs' = [jobs EXCEPT ![s] = Idle],
         UNCHANGED <<use, made, files, leaves, spent>>, Snapshot(state)', DocsOK'
  PROVE  CliInv'
<1>1. UNCHANGED <<notes, changes, sealed>>
  BY DEF files
<1>2. Durable' = Durable
  BY <1>1, SameFiles
<1>3. Grows /\ WorldOK'
  BY <1>2, QuietPool DEF CliInv, WorldOK
<1>4. JobOK(Idle)'
  BY IdleOK, <1>3, JobStays
<1>5. StoresOK' /\ JobsOK'
  BY <1>3, <1>4, Kept
<1>6. OneRewrites'
  BY <1>1, EndedRewrites
<1>. QED
  BY <1>3, <1>5, <1>6 DEF CliInv

(* A step that changes no file of notes and no pool loses nothing.              *)
LEMMA FilesGrow ==
  ASSUME CliInv, UNCHANGED <<use, made, files, leaves, spent>>
  PROVE  Grows
BY QuietGrows DEF files

(* What was fetched is what the anchor counted, or nothing is written.         *)
LEMMA WriteStateStep ==
  ASSUME CliInv, NEW s \in Slots, WriteState(s) \/ PyWriteState(s)
  PROVE  CliInv'
<1>1. PICK k : k = jobs[s]
  OBVIOUS
<1>2. /\ k.cmd \in {"fetch", "pyfetch"} /\ state' = k.anchor
      /\ jobs' = [jobs EXCEPT ![s] = Idle] /\ UNCHANGED <<use, made, files, docs, chain>>
  BY <1>1 DEF WriteState, PyWriteState
<1>3. JobOK(k)
  BY <1>1 DEF CliInv, JobsOK
<1>4. k.anchor \in Seq(Everybodys) /\ Prefix(k.anchor, leaves)
  BY <1>2, <1>3 DEF JobOK, Idle, Rewriters
<1>5. UNCHANGED <<leaves, spent, pending>>
  BY <1>2 DEF chain
<1>6. Grows
  BY <1>2, <1>5, FilesGrow
<1>7. Snapshot(k.anchor)
  BY <1>4 DEF Snapshot
<1>8. Snapshot(state)'
  BY <1>2, <1>6, <1>7, SnapshotStays
<1>. QED
  BY <1>2, <1>5, <1>6, <1>8, Kept, EndStep

(* A command stops, and nothing it held is on disk.                             *)
LEMMA StopStep ==
  ASSUME CliInv, NEW s \in Slots, Stop(s)
  PROVE  CliInv'
<1>1. /\ jobs' = [jobs EXCEPT ![s] = Idle] /\ UNCHANGED <<use, made, files, state, docs, chain>>
  BY DEF Stop
<1>2. UNCHANGED <<leaves, spent, pending>>
  BY <1>1 DEF chain
<1>3. Grows
  BY <1>1, <1>2, FilesGrow
<1>. QED
  BY <1>1, <1>2, <1>3, Kept, EndStep

(* A proof is written once its change note is.                                  *)
LEMMA WriteProofStep ==
  ASSUME CliInv, NEW s \in Slots, WriteProof(s)
  PROVE  CliInv'
<1>1. PICK k : k = jobs[s]
  OBVIOUS
<1>2. PICK doc : doc = k.doc
  OBVIOUS
<1>3. /\ k.cmd = "prove" /\ k.saved /\ proofs' = [proofs EXCEPT ![k.kind] = doc]
      /\ jobs' = [jobs EXCEPT ![s] = Idle]
      /\ UNCHANGED <<use, made, files, state, calls, chain>>
  BY <1>1, <1>2 DEF WriteProof, MayWriteProof
<1>4. JobOK(k)
  BY <1>1 DEF CliInv, JobsOK
<1>5. doc \in Docs /\ OutDurable(doc) /\ k.kind \in Kinds
  BY <1>2, <1>3, <1>4 DEF JobOK, Idle, Rewriters
<1>6. UNCHANGED <<leaves, spent, pending>>
  BY <1>3 DEF chain
<1>7. Grows
  BY <1>3, <1>6, FilesGrow
<1>8. DocOK(doc)'
  BY <1>5, <1>7, DocStays DEF DocOK
<1>9. DocsOK'
  <2>1. proofs' \in [Kinds -> Docs \cup {NoDoc}] /\ calls' \in [Kinds -> Docs \cup {NoDoc}]
    BY <1>3, <1>5 DEF CliInv, DocsOK
  <2>2. ASSUME NEW n \in Kinds PROVE DocOK(proofs[n])' /\ DocOK(calls[n])'
    <3>1. PICK c : c = calls[n]
      OBVIOUS
    <3>2. PICK p : p = proofs[n]
      OBVIOUS
    <3>3. DocOK(c) /\ DocOK(p)
      BY <3>1, <3>2 DEF CliInv, DocsOK
    <3>4. DocOK(c)' /\ DocOK(p)'
      BY <1>7, <3>3, DocStays
    <3>5. proofs'[n] = doc \/ proofs'[n] = p
      BY <1>3, <3>2 DEF CliInv, DocsOK
    <3>. QED
      BY <1>3, <1>8, <3>1, <3>4, <3>5
  <2>3. \A d \in pending' : d # NoDoc /\ DocOK(d)'
    BY <1>6, <1>7, DocStays DEF CliInv, DocsOK
  <2>. QED
    BY <2>1, <2>2, <2>3 DEF DocsOK, Docs
<1>10. Snapshot(state)'
  BY <1>3, <1>7, Kept
<1>. QED
  BY <1>3, <1>6, <1>9, <1>10, EndStep

(* A proof starts.                                                             *)
LEMMA ProveStep ==
  ASSUME CliInv, NEW s \in Slots, NEW kind \in Kinds, NEW doc \in Docs, Prove(s, kind, doc),
         made \subseteq made', made' \subseteq Notes,
         IF kind # "partial" THEN OutDurable(doc) ELSE doc.out \in made'
  PROVE  CliInv'
<1>1. PICK j : j = [cmd |-> "prove", kind |-> kind, doc |-> doc, saved |-> kind # "partial"]
  OBVIOUS
<1>2. /\ jobs' = [jobs EXCEPT ![s] = j] /\ UNCHANGED <<use, files, state, docs, chain>>
  BY <1>1 DEF Prove
<1>3. (kind # "partial") \in BOOLEAN
  OBVIOUS
<1>4. /\ j \in [cmd : {"prove"}, kind : Kinds, doc : Docs, saved : BOOLEAN]
      /\ j.cmd = "prove" /\ j.doc = doc /\ j.saved = (kind # "partial")
  BY <1>1, <1>3
<1>5. UNCHANGED <<notes, changes, sealed, leaves, spent>>
  BY <1>2 DEF files, chain
<1>6. Grows
  BY <1>2, <1>5, SameFiles, QuietPool
<1>7. JobOK(j)'
  <2>1. CASE kind # "partial"
    <3>1. OutDurable(doc)'
      BY <1>6, <2>1, OutStays
    <3>. QED
      BY <1>4, <2>1, <3>1 DEF JobOK, Docs
  <2>2. CASE kind = "partial"
    BY <1>4, <2>2 DEF JobOK, Docs
  <2>. QED
    BY <2>1, <2>2
<1>8. j.cmd \notin StoreJobs /\ j.cmd \notin Rewriters
  BY <1>4 DEF StoreJobs, Rewriters
<1>. QED
  BY <1>2, <1>7, <1>8, JobStep

(* A witness is a note at a leaf.                                               *)
LEMMA InputIs ==
  ASSUME CliInv, NEW i \in DOMAIN notes, Witnessed(notes[i])
  PROVE  Input(notes[i]) \in Notes \X Leaf
<1>1. notes[i] \in Records /\ state \in Seq(Everybodys)
  BY DEF CliInv, StoresOK, Sound, Snapshot
<1>2. notes[i].c \in Notes /\ Known(notes[i], state) \in Nat
  BY <1>1 DEF Witnessed, Records
<1>. QED
  BY <1>2 DEF Input, Leaf

(* A proof is started; only a change note is new.                               *)
LEMMA ProofStarts ==
  ASSUME CliInv, NEW s \in Slots, NEW i \in DOMAIN notes,
         \/ ProveDeposit(s, i)
         \/ ProveWithdraw1(s, i)
         \/ \E j \in DOMAIN notes : ProveWithdraw(s, i, j)
         \/ \E change \in Notes : ProveWithdrawPartial(s, i, change)
  PROVE  CliInv'
<1>1. /\ made \subseteq Notes /\ state \in Seq(Everybodys) /\ notes[i].c \in Notes
      /\ notes[i].c \in Durable
  <2>1. made \subseteq Notes /\ state \in Seq(Everybodys) /\ notes[i] \in Records
    BY DEF CliInv, WorldOK, StoresOK, Sound, Snapshot
  <2>. QED
    BY <2>1 DEF Records, Durable, Commitments
<1>2. OutDurable([ins |-> <<>>, root |-> <<>>, out |-> notes[i].c])
  BY <1>1 DEF OutDurable
<1>3. ASSUME NEW ins PROVE OutDurable(Doc(ins, NoDoc))
  BY CliAssumption DEF OutDurable, Doc
<1>4. /\ {"deposit", "withdraw1", "withdraw", "partial"} = Kinds
  BY DEF Kinds
<1>5. CASE ProveDeposit(s, i)
  <2>1. PICK doc : doc = [ins |-> <<>>, root |-> <<>>, out |-> notes[i].c]
    OBVIOUS
  <2>2. <<>> \in Seq(Notes \X Leaf) /\ <<>> \in Seq(Everybodys)
    OBVIOUS
  <2>3. doc \in Docs /\ OutDurable(doc) /\ Prove(s, "deposit", doc) /\ made' = made
    BY <1>1, <1>2, <1>5, <2>1, <2>2 DEF ProveDeposit, Docs
  <2>. QED
    BY <1>1, <1>4, <2>3, ProveStep
<1>6. CASE ProveWithdraw1(s, i)
  <2>1. PICK doc : doc = Doc(<<Input(notes[i])>>, NoDoc)
    OBVIOUS
  <2>2. Input(notes[i]) \in Notes \X Leaf
    BY <1>6, InputIs DEF ProveWithdraw1
  <2>3. doc \in Docs
    BY <1>1, <2>1, <2>2 DEF Doc, Docs
  <2>4. OutDurable(doc) /\ Prove(s, "withdraw1", doc) /\ made' = made
    BY <1>3, <1>6, <2>1 DEF ProveWithdraw1
  <2>. QED
    BY <1>1, <1>4, <2>3, <2>4, ProveStep
<1>7. CASE \E j \in DOMAIN notes : ProveWithdraw(s, i, j)
  <2>1. PICK j \in DOMAIN notes : ProveWithdraw(s, i, j)
    BY <1>7
  <2>2. PICK doc : doc = Doc(<<Input(notes[i]), Input(notes[j])>>, NoDoc)
    OBVIOUS
  <2>3. Input(notes[i]) \in Notes \X Leaf /\ Input(notes[j]) \in Notes \X Leaf
    BY <2>1, InputIs DEF ProveWithdraw
  <2>4. doc \in Docs
    BY <1>1, <2>2, <2>3 DEF Doc, Docs
  <2>5. OutDurable(doc) /\ Prove(s, "withdraw", doc) /\ made' = made
    BY <1>3, <2>1, <2>2 DEF ProveWithdraw
  <2>. QED
    BY <1>1, <1>4, <2>4, <2>5, ProveStep
<1>8. CASE \E change \in Notes : ProveWithdrawPartial(s, i, change)
  <2>1. PICK change \in Notes : ProveWithdrawPartial(s, i, change)
    BY <1>8
  <2>2. PICK doc : doc = Doc(<<Input(notes[i])>>, change)
    OBVIOUS
  <2>3. Input(notes[i]) \in Notes \X Leaf
    BY <2>1, InputIs DEF ProveWithdrawPartial
  <2>4. doc \in Docs /\ doc.out = change
    BY <1>1, <2>2, <2>3 DEF Doc, Docs
  <2>5. Prove(s, "partial", doc) /\ made' = made \cup {change}
    BY <2>1, <2>2 DEF ProveWithdrawPartial
  <2>. QED
    BY <1>1, <1>4, <2>4, <2>5, ProveStep
<1>. QED
  BY <1>5, <1>6, <1>7, <1>8

(* The change note is on disk before its proof is.                             *)
LEMMA WriteChangeStep ==
  ASSUME CliInv, NEW s \in Slots, WriteChange(s)
  PROVE  CliInv'
<1>1. PICK k : k = jobs[s]
  OBVIOUS
<1>2. PICK out : out = k.doc.out
  OBVIOUS
<1>3. PICK file : file = File(IF use.own THEN out ELSE 0, out, NoLeaf)
  OBVIOUS
<1>4. PICK j : j = [k EXCEPT !.saved = TRUE]
  OBVIOUS
<1>5. /\ k.cmd = "prove" /\ ~k.saved /\ changes' = Written(changes, file)
      /\ jobs' = [jobs EXCEPT ![s].saved = TRUE]
      /\ UNCHANGED <<use, made, notes, sealed, backup, apnote, state, docs, chain>>
  BY <1>1, <1>2, <1>3 DEF WriteChange
<1>6. JobOK(k) /\ DOMAIN jobs = Slots
  BY <1>1 DEF CliInv, JobsOK
<1>7. /\ k \in [cmd : {"prove"}, kind : Kinds, doc : Docs, saved : BOOLEAN]
      /\ k.doc.out \in made
  BY <1>5, <1>6 DEF JobOK, Idle, Rewriters
<1>8. out \in made /\ out \in Notes /\ made' \subseteq Notes
  BY <1>2, <1>5, <1>7 DEF CliInv, WorldOK
<1>9. FileOK(file) /\ file.c = out /\ (use.own => file.name = out)
  BY <1>3, <1>8 DEF File, FileOK, FileRecords, Leaf, Told
<1>10. \A f \in changes' \cup sealed' : FileOK(f)
  BY <1>5, <1>9 DEF Written, CliInv, StoresOK
<1>11. file \in changes'
  BY <1>5 DEF Written
<1>12. Careful => Durable \subseteq Durable'
  <2> SUFFICES ASSUME use.own PROVE Durable \subseteq Durable'
    BY DEF Careful
  <2>1. \A f \in changes : f.c # out => f \in changes'
    BY <1>5, <1>9 DEF Written, FileOK, CliInv, StoresOK
  <2>2. \A f \in changes \cup sealed : \E g \in changes' \cup sealed' : g.c = f.c
    BY <1>5, <1>9, <1>11, <2>1
  <2>3. Commitments(notes') = Commitments(notes)
    BY <1>5
  <2>. QED
    BY <2>2, <2>3 DEF Durable, Commitments
<1>13. UNCHANGED <<leaves, spent, pending>>
  BY <1>5 DEF chain
<1>14. Grows /\ WorldOK'
  BY <1>5, <1>8, <1>12, <1>13, QuietPool
<1>15. jobs' = [jobs EXCEPT ![s] = j]
  BY ONLY <1>1, <1>4, <1>5, <1>6, s \in Slots
<1>16. /\ j \in [cmd : {"prove"}, kind : Kinds, doc : Docs, saved : BOOLEAN]
       /\ j.saved /\ j.doc = k.doc /\ j.cmd = "prove"
  BY ONLY <1>4, <1>7
<1>17. OutDurable(j.doc)'
  <2>1. out \in Durable'
    BY <1>9, <1>11 DEF Durable
  <2>2. j.doc.out = out
    BY <1>2, <1>16
  <2>. QED
    BY <2>1, <2>2 DEF OutDurable
<1>18. JobOK(j)'
  BY <1>16, <1>17 DEF JobOK, Docs
<1>19. \A f \in changes' \cup sealed' : FileOK(f)'
  BY <1>10, <1>14, FileStays
<1>20. /\ Sound(notes)' /\ Sound(backup)' /\ Sound(apnote)' /\ Snapshot(state)' /\ DocsOK'
       /\ JobsOK'
  BY <1>5, <1>13, <1>14, <1>15, <1>18, Kept
<1>21. IsFiniteSet(sealed)'
  BY <1>5 DEF CliInv, StoresOK
<1>22. OneRewrites'
  <2>1. \A t \in Slots : jobs'[t] = IF t = s THEN j ELSE jobs[t]
    BY <1>6, <1>15
  <2>2. j.cmd \notin StoreJobs /\ j.cmd \notin Rewriters
    BY <1>16 DEF StoreJobs, Rewriters
  <2>3. Commitments(notes') = Commitments(notes)
    BY <1>5
  <2> SUFFICES ASSUME use.apart
      PROVE  /\ \A t, u \in Slots :
                  jobs'[t].cmd \in StoreJobs /\ jobs'[u].cmd \in StoreJobs => t = u
             /\ \A t \in Slots :
                  jobs'[t].cmd \in Rewriters => Commitments(notes) \subseteq Commitments(jobs'[t].mem)
    BY <1>5, <2>3 DEF OneRewrites
  <2>4. /\ \A t, u \in Slots :
              jobs[t].cmd \in StoreJobs /\ jobs[u].cmd \in StoreJobs => t = u
        /\ \A t \in Slots :
              jobs[t].cmd \in Rewriters => Commitments(notes) \subseteq Commitments(jobs[t].mem)
    BY DEF CliInv, OneRewrites
  <2>. QED
    BY <2>1, <2>2, <2>4
<1>. QED
  BY <1>14, <1>19, <1>20, <1>21, <1>22 DEF CliInv, StoresOK

(* One command of the Python client writes several notes, one by one.          *)
LEMMA PartsStep ==
  ASSUME CliInv, NEW s \in Slots, NEW count \in 1 .. 2, PyParts(s, count)
  PROVE  CliInv'
<1>1. PICK j : j = [cmd |-> "parts", left |-> count]
  OBVIOUS
<1>2. /\ Apart /\ jobs' = [jobs EXCEPT ![s] = j]
      /\ UNCHANGED <<use, made, files, state, docs, chain>>
  BY <1>1 DEF PyParts
<1>3. JobOK(j) /\ j.cmd = "parts"
  BY <1>1 DEF JobOK
<1>4. made \subseteq made' /\ made' \subseteq Notes /\ j.cmd \notin Rewriters
  BY <1>2, <1>3 DEF CliInv, WorldOK, Rewriters
<1>. QED
  BY <1>2, <1>3, <1>4, JobStep DEF Apart

(* One note of several, by a read and a write of its own.                       *)
LEMMA PyAppendNoteStep ==
  ASSUME CliInv, NEW s \in Slots, PyAppendNote(s)
  PROVE  CliInv'
<1>1. PICK k : k = jobs[s]
  OBVIOUS
<1>2. PICK c \in Notes \ made :
         /\ made' = made \cup {c} /\ notes' = Append(notes, Record(c, NoLeaf))
         /\ k.cmd = "parts"
         /\ jobs' = [jobs EXCEPT ![s] = IF k.left = 1 THEN Idle ELSE [k EXCEPT !.left = @ - 1]]
         /\ UNCHANGED <<use, changes, sealed, backup, apnote, state, docs, chain>>
  <2>1. PICK note \in PyFreshNotes :
           /\ made' = made \cup {note.c} /\ notes' = Append(notes, note)
           /\ k.cmd = "parts"
           /\ jobs' = [jobs EXCEPT ![s] = IF k.left = 1 THEN Idle ELSE [k EXCEPT !.left = @ - 1]]
           /\ UNCHANGED <<use, changes, sealed, backup, apnote, state, docs, chain>>
    BY <1>1 DEF PyAppendNote
  <2>2. PICK c \in Notes \ made : note = Record(c, NoLeaf)
    BY DEF PyFreshNotes
  <2>3. note.c = c
    BY <2>2 DEF Record
  <2>. QED
    BY <2>1, <2>2, <2>3
<1>3. PICK r : r = Record(c, NoLeaf)
  OBVIOUS
<1>4. /\ r \in Records /\ r.c = c /\ r.leaf = NoLeaf /\ r.hint = "unspent"
  BY <1>3, RecordIs DEF Leaf
<1>5. PICK j : j = IF k.left = 1 THEN Idle ELSE [k EXCEPT !.left = k.left - 1]
  OBVIOUS
<1>6. jobs' = [jobs EXCEPT ![s] = j] /\ JobOK(k) /\ DOMAIN jobs = Slots
  BY <1>1, <1>2, <1>5 DEF CliInv, JobsOK
<1>7. k \in [cmd : {"parts"}, left : Nat \ {0}]
  BY <1>2, <1>6 DEF JobOK, Idle, Rewriters
<1>8. JobOK(j) /\ j.cmd \notin Rewriters
  <2>1. CASE k.left = 1
    BY <1>5, <2>1, IdleOK DEF Idle, Rewriters
  <2>2. CASE k.left # 1
    <3>1. k.left - 1 \in Nat \ {0}
      BY <1>7, <2>2
    <3>2. j \in [cmd : {"parts"}, left : Nat \ {0}]
      BY <1>5, <1>7, <2>2, <3>1
    <3>. QED
      BY <3>2 DEF JobOK, Rewriters
  <2>. QED
    BY <2>1, <2>2
<1>9. /\ Sound(notes) /\ c \notin Commitments(notes) /\ made' \subseteq Notes /\ made \subseteq made'
  <2>1. Sound(notes) /\ Commitments(notes) \subseteq made
    BY DEF CliInv, StoresOK, Sound, Good, Told, Commitments
  <2>. QED
    BY <1>2, <2>1 DEF CliInv, WorldOK
<1>10. UNCHANGED <<leaves, spent, pending>>
  BY <1>2 DEF chain
<1>11. PICK store : store = notes'
  OBVIOUS
<1>12. Sound(notes)' /\ Commitments(notes') = Commitments(notes) \cup {c} /\ Grows /\ WorldOK'
  <2>1. PICK old : old = notes
    OBVIOUS
  <2>2. store = Append(old, r)
    BY <1>2, <1>3, <1>11, <2>1
  <2>3. old \in Seq(Records) /\ Once(old) /\ \A i \in DOMAIN old : Good(old[i])
    BY <1>9, <2>1 DEF Sound
  <2>4. PICK n \in Nat : n = Len(old) /\ DOMAIN old = 1 .. n
    BY <2>3
  <2>5. /\ store \in Seq(Records) /\ DOMAIN store = 1 .. n + 1 /\ store[n + 1] = r
        /\ \A i \in 1 .. n : store[i] = old[i]
    BY ONLY <1>4, <2>2, <2>3, <2>4
  <2>6. \A i \in 1 .. n + 1 : i \in 1 .. n \/ i = n + 1
    BY <2>4
  <2>7. Commitments(store) = Commitments(old) \cup {c}
    <3>1. \A i \in 1 .. n : i \in 1 .. n + 1
      BY <2>4
    <3>2. n + 1 \in 1 .. n + 1
      BY <2>4
    <3>. QED
      BY <1>4, <2>4, <2>5, <2>6, <3>1, <3>2 DEF Commitments
  <2>8. Durable \subseteq Durable'
    BY <1>2, <1>11, <2>1, <2>7 DEF Durable, Commitments
  <2>9. Grows /\ WorldOK'
    BY <1>2, <1>9, <1>10, <2>8, QuietPool
  <2>10. \A i \in 1 .. n : old[i].c # c
    BY <1>9, <2>1, <2>4 DEF Commitments
  <2>11. Once(store)
    <3> SUFFICES ASSUME NEW i \in 1 .. n + 1, NEW m \in 1 .. n + 1, store[i].c = store[m].c
        PROVE i = m
      BY <2>5 DEF Once
    <3>. QED
      BY <1>4, <2>3, <2>4, <2>5, <2>6, <2>10 DEF Once
  <2>12. \A i \in 1 .. n : Good(old[i])'
    BY <2>3, <2>4, <2>9, GoodStays
  <2>13. Good(r)'
    BY <1>2, <1>4 DEF Good, Told
  <2>14. \A i \in DOMAIN store : Good(store[i])'
    BY <2>5, <2>6, <2>12, <2>13
  <2>15. Sound(store)'
    BY <2>5, <2>11, <2>14 DEF Sound, Once, Records
  <2>. QED
    BY <1>11, <2>1, <2>7, <2>9, <2>15
<1>13. JobOK(j)'
  BY <1>8, <1>12, JobStays
<1>14. /\ Sound(backup)' /\ Sound(apnote)' /\ Snapshot(state)' /\ DocsOK' /\ JobsOK'
       /\ IsFiniteSet(sealed)' /\ \A f \in changes' \cup sealed' : FileOK(f)'
  BY <1>2, <1>6, <1>10, <1>12, <1>13, Kept
<1>15. OneRewrites'
  <2>1. \A t \in Slots : jobs'[t] = IF t = s THEN j ELSE jobs[t]
    BY <1>6
  <2>2. k.cmd \in StoreJobs /\ Rewriters \subseteq StoreJobs
    BY <1>2 DEF StoreJobs
  <2>3. use.apart => \A t \in Slots : t # s => jobs[t].cmd \notin StoreJobs
    BY <1>1, <2>2 DEF CliInv, OneRewrites
  <2> SUFFICES ASSUME use.apart
      PROVE  /\ \A t, u \in Slots :
                  jobs'[t].cmd \in StoreJobs /\ jobs'[u].cmd \in StoreJobs => t = u
             /\ \A t \in Slots : jobs'[t].cmd \notin Rewriters
    BY <1>2 DEF OneRewrites
  <2>. QED
    BY <1>8, <2>1, <2>2, <2>3
<1>. QED
  BY <1>12, <1>14, <1>15 DEF CliInv, StoresOK

-----------------------------------------------------------------------------
(* The pool.                                                                   *)

(* A sequence with one more at its end.                                         *)
LEMMA AppendPrefix ==
  ASSUME NEW t \in Seq(Everybodys), NEW c \in Everybodys
  PROVE  /\ Append(t, c) \in Seq(Everybodys) /\ Prefix(t, Append(t, c))
         /\ Range(Append(t, c)) = Range(t) \cup {c}
<1>1. PICK n \in Nat : n = Len(t) /\ DOMAIN t = 1 .. n
  OBVIOUS
<1>2. PICK new : new = Append(t, c)
  OBVIOUS
<1>3. /\ new \in Seq(Everybodys) /\ Len(new) = n + 1 /\ DOMAIN new = 1 .. n + 1
      /\ new[n + 1] = c /\ \A i \in 1 .. n : new[i] = t[i]
  BY <1>1, <1>2
<1>4. Prefix(t, new)
  BY <1>1, <1>3 DEF Prefix
<1>5. Range(new) = Range(t) \cup {c}
  <2>1. \A i \in 1 .. n + 1 : i \in 1 .. n \/ i = n + 1
    BY <1>1
  <2>2. n + 1 \in 1 .. n + 1 /\ \A i \in 1 .. n : i \in 1 .. n + 1
    BY <1>1
  <2>. QED
    BY <1>1, <1>3, <2>1, <2>2 DEF Range
<1>. QED
  BY <1>2, <1>3, <1>4, <1>5

(* A leaf or a nullifier comes into the pool; the files stay.                  *)
LEMMA PoolStep ==
  ASSUME CliInv, UNCHANGED <<use, made, files, state, docs, jobs>>,
         spent \subseteq spent', pending' \subseteq pending,
         Prefix(leaves, leaves'), Careful => Range(leaves') \cap Notes \subseteq Durable
  PROVE  CliInv'
<1>1. UNCHANGED <<notes, changes, sealed, backup, apnote, proofs, calls>>
  BY DEF files, docs
<1>2. Durable' = Durable
  BY <1>1, SameFiles
<1>3. Grows
  BY <1>2 DEF Grows
<1>4. WorldOK'
  <2>1. Careful => Range(leaves') \cap Notes \subseteq Durable'
    BY <1>2
  <2>2. leaves' \in Seq(Everybodys)
    BY DEF Prefix
  <2>. QED
    BY <2>1, <2>2 DEF CliInv, WorldOK, Careful, Everybodys
<1>5. StoresOK' /\ Snapshot(state)' /\ JobsOK' /\ OneRewrites'
  BY <1>1, <1>3, Kept
<1>6. DocsOK'
  <2>1. ASSUME NEW k \in Kinds PROVE DocOK(proofs[k])' /\ DocOK(calls[k])'
    <3>1. PICK c : c = calls[k]
      OBVIOUS
    <3>2. PICK p : p = proofs[k]
      OBVIOUS
    <3>3. DocOK(c) /\ DocOK(p)
      BY <3>1, <3>2 DEF CliInv, DocsOK
    <3>4. DocOK(c)' /\ DocOK(p)'
      BY <1>3, <3>3, DocStays
    <3>. QED
      BY <1>1, <3>1, <3>2, <3>4
  <2>2. \A d \in pending' : d # NoDoc /\ DocOK(d)'
    BY <1>3, DocStays DEF CliInv, DocsOK
  <2>3. (proofs \in [Kinds -> Docs \cup {NoDoc}])' /\ (calls \in [Kinds -> Docs \cup {NoDoc}])'
    BY <1>1 DEF CliInv, DocsOK, Docs
  <2>. QED
    BY <2>1, <2>2, <2>3 DEF DocsOK
<1>. QED
  BY <1>4, <1>5, <1>6 DEF CliInv

(* A call of this client is mined; its new note is on disk.                     *)
LEMMA MineStep ==
  ASSUME CliInv, NEW call \in pending, Mine(call)
  PROVE  CliInv'
<1>1. /\ leaves' = IF call.out = NoDoc THEN leaves ELSE Append(leaves, call.out)
      /\ spent' = spent \cup Range(call.ins) /\ pending' = pending \ {call}
      /\ UNCHANGED <<use, made, files, state, docs, jobs>>
  BY DEF Mine
<1>2. /\ leaves \in Seq(Everybodys) /\ call \in Docs /\ OutDurable(call)
      /\ Careful => Range(leaves) \cap Notes \subseteq Durable
  BY DEF CliInv, WorldOK, DocsOK, DocOK
<1>3. call.out \in Notes \cup {NoDoc}
  BY <1>2 DEF Docs
<1>4. Prefix(leaves, leaves') /\ (Careful => Range(leaves') \cap Notes \subseteq Durable)
  <2>1. CASE call.out = NoDoc
    BY <1>1, <1>2, <2>1, PrefixOfItself
  <2>2. CASE call.out # NoDoc
    <3>1. call.out \in Everybodys /\ leaves' = Append(leaves, call.out)
      BY <1>1, <1>3, <2>2 DEF Everybodys
    <3>2. Prefix(leaves, leaves') /\ Range(leaves') = Range(leaves) \cup {call.out}
      BY <1>2, <3>1, AppendPrefix
    <3>. QED
      BY <1>2, <3>2 DEF OutDurable
  <2>. QED
    BY <2>1, <2>2
<1>. QED
  BY <1>1, <1>4, PoolStep

(* Somebody else deposits a note of their own.                                  *)
LEMMA OthersStep ==
  ASSUME CliInv, NEW c \in use.others, OthersDeposit(c)
  PROVE  CliInv'
<1>1. /\ leaves' = Append(leaves, c)
      /\ UNCHANGED <<use, made, files, state, docs, spent, pending, jobs>>
  BY DEF OthersDeposit
<1>2. /\ leaves \in Seq(Everybodys) /\ use \in Uses
      /\ Careful => Range(leaves) \cap Notes \subseteq Durable
  BY DEF CliInv, WorldOK
<1>3. c \in Everybodys /\ c \notin Notes
  BY <1>2, CliAssumption DEF Everybodys
<1>4. Prefix(leaves, leaves') /\ Range(leaves') = Range(leaves) \cup {c}
  BY <1>1, <1>2, <1>3, AppendPrefix
<1>. QED
  BY <1>1, <1>2, <1>3, <1>4, PoolStep

-----------------------------------------------------------------------------
(* Every step of either client, and of the pool.                               *)

(* Before anything is typed.                                                    *)
LEMMA CliInitInv == ASSUME Init PROVE CliInv
<1>1. /\ use \in Uses /\ made = {} /\ notes = <<>> /\ changes = {} /\ sealed = {}
      /\ backup = <<>> /\ apnote = <<>> /\ state = <<>> /\ leaves = <<>> /\ spent = {}
      /\ pending = {} /\ proofs = [k \in Kinds |-> NoDoc] /\ calls = [k \in Kinds |-> NoDoc]
      /\ jobs = [s \in Slots |-> Idle]
  BY DEF Init
<1>2. <<>> \in Seq(Everybodys) /\ Range(<<>>) = {} /\ Prefix(<<>>, <<>>)
  <2>1. <<>> \in Seq(Everybodys) /\ DOMAIN <<>> = {}
    OBVIOUS
  <2>. QED
    BY <2>1, PrefixOfItself DEF Range
<1>3. WorldOK /\ Snapshot(state)
  BY <1>1, <1>2 DEF WorldOK, Snapshot
<1>4. StoresOK
  BY <1>1, EmptyIsSound, FS_EmptySet DEF StoresOK
<1>5. DocsOK
  BY <1>1 DEF DocsOK, DocOK
<1>6. JobsOK
  BY <1>1, IdleOK DEF JobsOK
<1>7. OneRewrites
  BY <1>1 DEF OneRewrites, Idle, StoreJobs, Rewriters
<1>. QED
  BY <1>3, <1>4, <1>5, <1>6, <1>7 DEF CliInv

(* The commands that create notes at once.                                      *)
LEMMA NewNotesStep ==
  ASSUME CliInv, NoteCreate \/ NoteSuggestSplit \/ NoteDistribute \/ PyNoteCreate
  PROVE  CliInv'
<1>1. \E new \in Seq(Notes) : AddNotes(new)
  <2>1. \A c, d \in Notes : <<c>> \in Seq(Notes) /\ <<c, d>> \in Seq(Notes)
    OBVIOUS
  <2>. QED
    BY <2>1 DEF NoteCreate, NoteSuggestSplit, NoteDistribute, PyNoteCreate
<1>. QED
  BY <1>1, AddNotesStep

(* A command that is one step.                                                  *)
LEMMA AtOnceStep ==
  ASSUME CliInv, ByHandOrScanned, AtOnce \/ PyAtOnce
  PROVE  CliInv'
<1>1. CASE NoteCreate \/ NoteSuggestSplit \/ NoteDistribute \/ PyNoteCreate
  BY <1>1, NewNotesStep
<1>2. CASE \E i \in DOMAIN notes : \E remove \in BOOLEAN :
             NoteDeliver(i, remove) \/ PyNoteDeliver(i, remove)
  <2>1. PICK i \in DOMAIN notes, remove \in BOOLEAN :
           DeliverAs(i, i, remove) \/ DeliverAs(0, i, remove)
    BY <1>2 DEF NoteDeliver, PyNoteDeliver
  <2>2. i \in Notes \cup Nat /\ 0 \in Notes \cup Nat
    BY DEF CliInv, StoresOK, Sound
  <2>. QED
    BY <2>1, <2>2, DeliverStep
<1>3. CASE BackupExport
  BY <1>3, BackupStep
<1>4. CASE NoteExport(notes) \/ \E i \in DOMAIN notes : NoteExport(<<notes[i]>>)
  <2>1. Sound(notes)
    BY DEF CliInv, StoresOK
  <2>2. ASSUME NEW i \in DOMAIN notes PROVE Sound(<<notes[i]>>)
    <3>1. notes[i] \in Records /\ Good(notes[i])
      BY <2>1 DEF Sound
    <3>2. <<notes[i]>> \in Seq(Records) /\ DOMAIN <<notes[i]>> = {1} /\ <<notes[i]>>[1] = notes[i]
      BY <3>1
    <3>. QED
      BY <3>1, <3>2 DEF Sound, Once
  <2>. QED
    BY <1>4, <2>1, <2>2, ExportStep
<1>5. CASE \E merge \in BOOLEAN : BackupImport(merge) \/ NoteImport(merge)
  <2>1. PICK merge \in BOOLEAN : BackupImport(merge) \/ NoteImport(merge)
    BY <1>5
  <2>2. Sound(backup) /\ Sound(apnote)
    BY DEF CliInv, StoresOK
  <2>3. ASSUME NEW f \in changes PROVE Sound(<<Record(f.c, NoLeaf)>>)
    <3>1. f.c \in Notes /\ f.c \in made
      BY DEF CliInv, StoresOK, FileOK, FileRecords, Told
    <3>2. PICK r : r = Record(f.c, NoLeaf)
      OBVIOUS
    <3>3. r \in Records /\ r.c = f.c /\ r.leaf = NoLeaf /\ r.hint = "unspent"
      BY <3>1, <3>2, RecordIs DEF Leaf
    <3>4. Good(r)
      BY <3>1, <3>3 DEF Good, Told
    <3>5. <<r>> \in Seq(Records) /\ DOMAIN <<r>> = {1} /\ <<r>>[1] = r
      BY <3>3
    <3>. QED
      BY <3>2, <3>4, <3>5 DEF Sound, Once
  <2>4. \/ Import(backup, merge)
        \/ Import(apnote, merge)
        \/ \E f \in changes : Import(<<Record(f.c, NoLeaf)>>, merge)
    BY <2>1 DEF BackupImport, NoteImport
  <2>. QED
    BY <2>2, <2>3, <2>4, ImportStep
<1>6. CASE StateInit \/ PyStateInit
  BY <1>6, StateInitStep DEF PyStateInit
<1>7. CASE \E i \in DOMAIN notes : StateBindNote(i) \/ PyStateBindNote(i)
  BY <1>7, BindStep, PyBindStep
<1>8. CASE \E c \in Range(leaves) \ Range(state), i \in 1 .. MaxNotes :
             StateAppend(c, i) \/ PyStateAppend(c, i)
  BY <1>8, AppendStep DEF PyStateAppend
<1>9. CASE \E kind \in Kinds : Build(kind) \/ SendCall(kind) \/ PyBuild(kind) \/ PySendCall(kind)
  BY <1>9, BuildStep, SendStep DEF PyBuild, PySendCall
<1>. QED
  BY <1>1, <1>2, <1>3, <1>4, <1>5, <1>6, <1>7, <1>8, <1>9 DEF AtOnce, PyAtOnce

(* A step of a running command.                                                 *)
LEMMA JobsStep ==
  ASSUME CliInv, ByHandOrScanned, NEW s \in Slots, Job(s) \/ PyJob(s)
  PROVE  CliInv'
<1>1. CASE \E e \in sealed, source \in Sources : NoteAccept(s, e, source)
  BY <1>1, AcceptStep
<1>2. CASE \E envelopes \in SetToSeqs(sealed), source \in Sources :
             NoteMailboxScan(s, envelopes, source)
  BY <1>2, MailboxStep
<1>3. CASE \E source \in Sources : NoteScan(s, source) \/ PyNoteScan(s, source)
  BY <1>3, ScanStep
<1>4. CASE BindLeaf(s)
  BY <1>4, BindLeafStep
<1>5. CASE ScanState(s) \/ PyScanState(s)
  BY <1>5, ScanStateStep
<1>6. CASE ScanNote(s) \/ PyScanNote(s)
  BY <1>6, ScanNoteStep, PyScanNoteStep
<1>7. CASE WriteStore(s)
  BY <1>7, WriteStoreStep
<1>8. CASE StateFetch(s) \/ PyStateFetch(s)
  BY <1>8, FetchStep
<1>9. CASE WriteState(s) \/ PyWriteState(s)
  BY <1>9, WriteStateStep
<1>10. CASE \E i \in DOMAIN notes :
               \/ ProveDeposit(s, i)
               \/ ProveWithdraw1(s, i)
               \/ \E j \in DOMAIN notes : ProveWithdraw(s, i, j)
               \/ \E change \in Notes : ProveWithdrawPartial(s, i, change)
  BY <1>10, ProofStarts
<1>11. CASE WriteChange(s) \/ WriteProof(s) \/ Stop(s)
  BY <1>11, WriteChangeStep, WriteProofStep, StopStep
<1>12. CASE PyNoteSuggestSplit(s) \/ PyNoteDistribute(s)
  <2>1. PICK count \in 1 .. 2 : PyParts(s, count)
    BY <1>12 DEF PyNoteSuggestSplit, PyNoteDistribute
  <2>. QED
    BY <2>1, PartsStep
<1>13. CASE PyAppendNote(s)
  BY <1>13, PyAppendNoteStep
<1>14. Job(s) => CliInv'
  BY <1>1, <1>2, <1>3, <1>4, <1>5, <1>6, <1>7, <1>8, <1>9, <1>10, <1>11 DEF Job
<1>15. PyJob(s) => CliInv'
  BY <1>1, <1>2, <1>3, <1>5, <1>6, <1>8, <1>9, <1>10, <1>12, <1>13
     DEF PyJob, PyNoteAccept, PyNoteMailboxScan, PyProveDeposit, PyProveWithdraw1,
         PyProveWithdraw, PyProveWithdrawPartial
<1>. QED
  BY <1>14, <1>15

(* Every step of either client and of the pool keeps the invariant.             *)
LEMMA CliStepInv ==
  ASSUME CliInv, ByHandOrScanned, [BothNext]_vars
  PROVE  CliInv'
<1>1. CASE AtOnce \/ PyAtOnce
  BY <1>1, AtOnceStep
<1>2. CASE \E s \in Slots : Job(s) \/ PyJob(s)
  BY <1>2, JobsStep
<1>3. CASE Pool
  BY <1>3, MineStep, OthersStep DEF Pool
<1>4. CASE UNCHANGED vars
  <2>1. UNCHANGED <<use, made, files, state, docs, pending, leaves, spent, jobs>>
    BY <1>4 DEF vars, chain
  <2>2. Grows
    BY <2>1, FilesGrow
  <2>3. WorldOK'
    BY <2>1, FilesGrow, SameFiles, QuietPool DEF CliInv, WorldOK, files
  <2>4. notes' = notes
    BY <2>1 DEF files
  <2>. QED
    BY <2>1, <2>2, <2>3, <2>4, Kept DEF CliInv
<1>. QED
  BY <1>1, <1>2, <1>3, <1>4 DEF BothNext, Next, PyNext

(* The invariant of the files of both clients.                                 *)
THEOREM CliInvariant == ASSUME ByHandOrScanned PROVE BothSpec => []CliInv
<1>1. Init => CliInv
  BY CliInitInv
<1>2. CliInv /\ [BothNext]_vars => CliInv'
  BY CliStepInv
<1>. QED
  BY <1>1, <1>2, PTL DEF BothSpec

(* A record that is marked spent has its nullifier in the pool, whatever       *)
(* commands of either client overlap, stop, or write an old store.             *)
THEOREM MarksAreTrue == ASSUME ByHandOrScanned PROVE BothSpec => []SpentIsSpent
<1>1. CliInv => SpentIsSpent
  BY DEF CliInv, StoresOK, Sound, Good, SpentIsSpent
<1>. QED
  BY <1>1, CliInvariant, PTL

(* The store never has one commitment twice.                                   *)
THEOREM StoreHasNoteOnce == ASSUME ByHandOrScanned PROVE BothSpec => []NotesDistinct
<1>1. ASSUME CliInv PROVE NotesDistinct
  <2>1. PICK store : store = notes
    OBVIOUS
  <2>2. store \in Seq(Records) /\ Once(store)
    BY <1>1, <2>1 DEF CliInv, StoresOK, Sound
  <2>3. PICK n \in Nat : n = Len(store) /\ DOMAIN store = 1 .. n
    BY <2>2
  <2>4. PICK f : f = [i \in 1 .. n |-> store[i].c]
    OBVIOUS
  <2>5. f \in Bijection(1 .. n, Commitments(store))
    <3>1. f \in [1 .. n -> Commitments(store)]
      BY <2>3, <2>4 DEF Commitments
    <3>2. \A i, j \in 1 .. n : f[i] = f[j] => i = j
      BY <2>2, <2>3, <2>4 DEF Once
    <3>3. \A c \in Commitments(store) : \E i \in 1 .. n : f[i] = c
      BY <2>3, <2>4 DEF Commitments
    <3>. QED
      BY <3>1, <3>2, <3>3 DEF Bijection, Injection, Surjection, IsInjective
  <2>6. IsFiniteSet(1 .. n) /\ Cardinality(1 .. n) = n
    BY FS_Interval
  <2>7. Cardinality(Commitments(store)) = n
    <3>1. ExistsBijection(1 .. n, Commitments(store))
      BY <2>5 DEF ExistsBijection
    <3>. QED
      BY <2>6, <3>1, FS_Bijection
  <2>. QED
    BY <2>1, <2>3, <2>7 DEF NotesDistinct
<1>. QED
  BY <1>1, CliInvariant, PTL

(* Whoever fetches the public state has a prefix of the pool's leaves on disk, *)
(* and leaf indices that agree with it.                                        *)
THEOREM FetchedStateAgrees == ASSUME ByHandOrScanned PROVE BothSpec => []FetchedAgrees
<1>1. ASSUME CliInv, Fetches PROVE IsPrefix(state, leaves) /\ LeafIndexIsTheLeaf
  <2>1. Prefix(state, leaves)
    BY <1>1 DEF CliInv, Snapshot
  <2>2. Len(state) <= Len(leaves) /\ SubSeq(leaves, 1, Len(state)) = state
    BY <2>1 DEF Prefix
  <2>3. IsPrefix(state, leaves)
    BY <2>1, <2>2 DEF IsPrefix, Prefix
  <2>4. LeafIndexIsTheLeaf
    BY <1>1 DEF CliInv, StoresOK, Sound, Good, Told, FirstLeaf, LeafIndexIsTheLeaf
  <2>. QED
    BY <2>3, <2>4
<1>2. CliInv => FetchedAgrees
  BY <1>1 DEF FetchedAgrees, Fetches
<1>. QED
  BY <1>2, CliInvariant, PTL

(* A note a careful user put, or may still put, into the pool has its secrets  *)
(* in some file, wherever a command of either client is stopped.               *)
THEOREM SecretsStayOnDisk == ASSUME ByHandOrScanned PROVE BothSpec => []SecretsKept
<1>1. ASSUME CliInv, Careful, NEW c \in made,
             c \in Range(leaves) \cup {d.out : d \in Documents \ {NoDoc}}
      PROVE  c \in SecretsOnDisk
  <2>1. c \in Notes
    BY <1>1 DEF CliInv, WorldOK
  <2>2. Durable \subseteq SecretsOnDisk
    BY DEF Durable, SecretsOnDisk
  <2>3. CASE c \in Range(leaves)
    BY <1>1, <2>1, <2>2, <2>3 DEF CliInv, WorldOK
  <2>4. CASE c \in {d.out : d \in Documents \ {NoDoc}}
    <3>1. PICK d \in Documents \ {NoDoc} : c = d.out
      BY <2>4
    <3>2. DocOK(d)
      BY <1>1, <3>1 DEF CliInv, DocsOK, Documents
    <3>. QED
      BY <1>1, <2>1, <2>2, <3>1, <3>2 DEF DocOK, OutDurable
  <2>. QED
    BY <1>1, <2>3, <2>4
<1>2. CliInv => SecretsKept
  BY <1>1 DEF SecretsKept
<1>. QED
  BY <1>2, CliInvariant, PTL
=============================================================================
