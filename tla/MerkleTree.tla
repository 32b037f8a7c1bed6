----------------------------- MODULE MerkleTree -----------------------------
(***************************************************************************)
(* The commitment tree in its three implementations: the pool inserts one  *)
(* leaf at a time (IncrementalMerkleTree.sol), the client rebuilds the     *)
(* tree from all the leaves to find a note's path (sdk-core merkle.ts),    *)
(* and the circuit folds that path into a root (merkle_poseidon.circom).   *)
(*                                                                         *)
(* Poseidon(2) is a free constructor: two hashes are equal only if their   *)
(* arguments are, which is what collision resistance gives.  The integers  *)
(* that count leaves keep their width: WordBits is 32 in the code, for     *)
(* Solidity's uint32 and for JavaScript's shifts alike.                    *)
(***************************************************************************)
EXTENDS Integers, Sequences

CONSTANTS
  Leaves,     \* commitments that may be inserted
  ZeroLeaf,   \* zeros[0], an empty leaf
  MAX_DEPTH,  \* the largest depth initialize() accepts, 32 in the code
  WordBits

(* A commitment is a hash, never the zero of an empty leaf. *)
ASSUME MerkleAssumption ==
  /\ MAX_DEPTH \in Nat
  /\ WordBits \in Nat
  /\ ZeroLeaf \notin Leaves

VARIABLES
  tree,    \* the contract's IncrementalMerkleTree.Data
  leaves   \* the leaves inserted so far, as the chain publishes them

treeVars == <<tree, leaves>>

-----------------------------------------------------------------------------

Hash(left, right) == <<left, right>>

zeros[level \in 0 .. MAX_DEPTH] ==
  IF level = 0 THEN ZeroLeaf ELSE Hash(zeros[level - 1], zeros[level - 1])

(* 1 << bits, in unbounded integers. *)
shifted[bits \in Nat] == IF bits = 0 THEN 1 ELSE 2 * shifted[bits - 1]

(* uint32(1) << depth. *)
Width(depth) == shifted[depth] % shifted[WordBits]

(* The positions of the nodes above a leaf, halved from level to level. *)
Ancestors(index) ==
  LET above[level \in 0 .. MAX_DEPTH] ==
        IF level = 0 THEN index ELSE above[level - 1] \div 2
  IN  above

(* Whether the node at a level is a left (0) or a right (1) child. *)
Bit(index, level) == Ancestors(index)[level] % 2

Initialize(depth) ==
  [depth          |-> depth,
   nextIndex      |-> 0,
   root           |-> zeros[depth],
   filledSubtrees |-> [level \in 0 .. depth - 1 |-> zeros[level]]]

TreeFull(t) == t.nextIndex >= Width(t.depth)

(* Mutant of ClimbStep: a left node is hashed but not remembered. *)
ClimbStepForgets(climb, index, level) ==
  IF Bit(index, level) = 0
    THEN [climb EXCEPT !.hash = Hash(@, zeros[level])]
    ELSE [climb EXCEPT !.hash = Hash(climb.filled[level], @)]

(* One turn of insert()'s loop. *)
ClimbStep(climb, index, level) ==
  IF Bit(index, level) = 0
    THEN [hash   |-> Hash(climb.hash, zeros[level]),
          filled |-> [climb.filled EXCEPT ![level] = climb.hash]]
    ELSE [climb EXCEPT !.hash = Hash(climb.filled[level], @)]

InsertLeaf(t, leaf) ==
  LET climb[level \in 0 .. t.depth] ==
        IF level = 0 THEN [hash |-> leaf, filled |-> t.filledSubtrees]
                     ELSE ClimbStep(climb[level - 1], t.nextIndex, level - 1)
  IN  [t EXCEPT !.root           = climb[t.depth].hash,
                !.filledSubtrees = climb[t.depth].filled,
                !.nextIndex      = @ + 1]

TreeInit ==
  /\ \E depth \in 1 .. MAX_DEPTH : tree = Initialize(depth)
  /\ leaves = <<>>

Insert(leaf) ==
  /\ ~TreeFull(tree)
  /\ tree' = InsertLeaf(tree, leaf)
  /\ leaves' = Append(leaves, leaf)

TreeNext == \E leaf \in Leaves : Insert(leaf)

TreeSpec == TreeInit /\ [][TreeNext]_treeVars

-----------------------------------------------------------------------------
(* The client: buildMerkleTree and getMerklePath. *)

(* 1 << depth in JavaScript: the count is taken modulo the word, the       *)
(* result is signed.                                                       *)
JsWidth(depth) ==
  LET count == depth % WordBits
  IN  IF count = WordBits - 1 THEN 0 - shifted[count] ELSE shifted[count]

(* What buildMerkleTree throws on, before it computes anything, when false. *)
Rebuildable(list, depth) == Len(list) <= JsWidth(depth)

NodeOr(layer, position, default) ==
  IF position < Len(layer) THEN layer[position + 1] ELSE default

(* Mutant of NextLayer: an odd last node is paired with itself. *)
NextLayerDoubled(layer, level) ==
  [i \in 1 .. (Len(layer) + 1) \div 2 |->
     Hash(layer[2*i - 1], NodeOr(layer, 2*i - 1, layer[2*i - 1]))]

NextLayer(layer, level) ==
  [i \in 1 .. (Len(layer) + 1) \div 2 |->
     Hash(layer[2*i - 1], NodeOr(layer, 2*i - 1, zeros[level]))]

Layers(list, depth) ==
  LET layers[level \in 0 .. depth] ==
        IF level = 0 THEN list ELSE NextLayer(layers[level - 1], level - 1)
  IN  layers

ClientRoot(list, depth) == NodeOr(Layers(list, depth)[depth], 0, zeros[depth])

(* Mutant of Sibling: the left neighbour at every level. *)
SiblingLeft(position) == IF position = 0 THEN 1 ELSE position - 1

Sibling(position) == IF position % 2 = 0 THEN position + 1 ELSE position - 1

PathElements(list, index, depth) ==
  LET layers == Layers(list, depth)
  IN  [level \in 0 .. depth - 1 |->
         NodeOr(layers[level], Sibling(Ancestors(index)[level]), zeros[level])]

-----------------------------------------------------------------------------
(* The circuit: MerklePoseidon, with the path bits bound to the leaf index *)
(* as the withdrawal circuits bind them.                                   *)

(* Mutant of Fold: the path bits are ignored. *)
FoldUnordered(current, sibling, bit) == Hash(current, sibling)

Fold(current, sibling, bit) ==
  IF bit = 0 THEN Hash(current, sibling) ELSE Hash(sibling, current)

PathRoot(leaf, elements, index, depth) ==
  LET hashes[level \in 0 .. depth] ==
        IF level = 0 THEN leaf
        ELSE Fold(hashes[level - 1], elements[level - 1], Bit(index, level - 1))
  IN  hashes[depth]

-----------------------------------------------------------------------------
(* Properties. *)

Indices(list) == 0 .. Len(list) - 1

(***************************************************************************)
(* The root the pool computed leaf by leaf is the root a client computes   *)
(* from the whole list, at every size from empty to full.                  *)
(***************************************************************************)
ClientRebuildsRoot == ClientRoot(leaves, tree.depth) = tree.root

(***************************************************************************)
(* The path a client extracts for any inserted leaf satisfies the circuit  *)
(* against the pool's current root.                                        *)
(***************************************************************************)
WitnessVerifies ==
  \A index \in Indices(leaves) :
    PathRoot(leaves[index + 1], PathElements(leaves, index, tree.depth),
             index, tree.depth) = tree.root

(***************************************************************************)
(* A path satisfies the circuit only at the index the leaf really has, so  *)
(* that a note has one nullifier: siblings taken from any other place in   *)
(* the tree, combined with any index, open nothing but what is there.      *)
(***************************************************************************)
OpensOnlyWhereItIs ==
  \A from, index \in Indices(leaves), leaf \in Leaves :
    PathRoot(leaf, PathElements(leaves, from, tree.depth), index, tree.depth)
        = tree.root
      => leaf = leaves[index + 1]

(***************************************************************************)
(* Two sizes of the tree never have the same root, so a root stands for    *)
(* the leaves inserted before it: what module ShieldedPool relies on.      *)
(***************************************************************************)
RootNamesPrefix ==
  \A m \in 0 .. Len(leaves) - 1 :
    ClientRoot(SubSeq(leaves, 1, m), tree.depth) # tree.root

(***************************************************************************)
(* A tree takes 2^depth leaves, whatever depth initialize() accepts.       *)
(***************************************************************************)
TakesAllItsLeaves == tree.nextIndex < shifted[tree.depth] => ~TreeFull(tree)

(***************************************************************************)
(* "Matches sdk buildMerkleTree / on-chain incremental tree for the same   *)
(* leaf sequence": the client never refuses a list the pool accepted.      *)
(***************************************************************************)
ClientAcceptsLeaves == Rebuildable(leaves, tree.depth)
=============================================================================
