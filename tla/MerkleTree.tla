------------------------------ MODULE MerkleTree ------------------------------
(***************************************************************************)
(* The constructor and destructor of Merkle_Tree/merkle_tree.cpp.  Of a    *)
(* hash it matters which blocks it was made of, in which order, and how    *)
(* often they were hashed.                                                 *)
(***************************************************************************)
EXTENDS Integers, Sequences

CONSTANT MaxLeaves  \* bound: blocks a tree is made of
ASSUME MerkleTreeAssumption == MaxLeaves \in Nat

VARIABLES
  leaves,  \* how many blocks the constructor was given
  blocks,  \* the nodes of the level below
  nodes,   \* those of the level being made
  l,       \* index of the loop over blocks
  tree     \* where the constructor is, and what became of the tree
treeVars == <<leaves, blocks, nodes, l, tree>>

\* a node: the blocks below it in the order of its hash, and how many leaves a
\* tree of its height has room for
Leaf(i) == [below |-> <<i>>, room |-> 1]
Parent(a, b) ==
  [below |-> a.below \o b.below,
   room |-> 2 * (IF a.room > b.room THEN a.room ELSE b.room)]

TreeInit ==
  /\ leaves \in 0..MaxLeaves /\ blocks = [i \in 1..leaves |-> Leaf(i)]
  /\ nodes = <<>> /\ l = 0 /\ tree = "levels"

\* while (blocks.size() != 1): also with no blocks at all, and then for ever
BeginLevel ==
  /\ tree = "levels" /\ Len(blocks) # 1
  /\ l' = 0 /\ tree' = "pairs"
  /\ UNCHANGED <<leaves, blocks, nodes>>

\* Faulty variant: a block without a neighbour is left out.
CombineDrops ==
  /\ tree = "pairs" /\ l < Len(blocks)
  /\ nodes' = IF l # Len(blocks) - 1
                THEN Append(nodes, Parent(blocks[l + 1], blocks[l + 2])) ELSE nodes
  /\ l' = l + 2
  /\ UNCHANGED <<leaves, blocks, tree>>

\* adjacent blocks are combined, the last of an odd number goes up as it is
Combine ==
  /\ tree = "pairs" /\ l < Len(blocks)
  /\ nodes' = Append(nodes, IF l # Len(blocks) - 1
                              THEN Parent(blocks[l + 1], blocks[l + 2])
                              ELSE blocks[l + 1])
  /\ l' = l + 2
  /\ UNCHANGED <<leaves, blocks, tree>>

EndLevel ==
  /\ tree = "pairs" /\ l >= Len(blocks)
  /\ blocks' = nodes /\ nodes' = <<>> /\ tree' = "levels"
  /\ UNCHANGED <<leaves, l>>

\* root = blocks[0]
SetRoot ==
  /\ tree = "levels" /\ Len(blocks) = 1
  /\ tree' = "built"
  /\ UNCHANGED <<leaves, blocks, nodes, l>>

\* deleteTree deletes NULL, so that nothing is freed, and follows the pointers
\* of the leaves, which Node::Node does not set
Destroy ==
  /\ tree = "built"
  /\ tree' \in {"deleted", "crashed"}
  /\ UNCHANGED <<leaves, blocks, nodes, l>>

TreeNext == BeginLevel \/ Combine \/ EndLevel \/ SetRoot \/ Destroy

TreeSpec == TreeInit /\ [][TreeNext]_treeVars

-----------------------------------------------------------------------------
LeavesFrom(a, b) == [i \in 1..(b - a + 1) |-> a + i - 1]
From(n) == n.below[1]
To(n) == n.below[Len(n.below)]

\* the level being made and the rest of the level below
Level == nodes \o SubSeq(blocks, 1 + (IF tree = "pairs" THEN l ELSE 0), Len(blocks))

\* Every block given to the constructor is below exactly one node of the level
\* being made or of the rest of the level below, in the order given, also when
\* a level has an odd number of nodes; the root is no higher than a tree of
\* that many leaves has to be.
LeavesKept ==
  /\ \A k \in 1..Len(Level) :
       /\ Level[k].below = LeavesFrom(From(Level[k]), To(Level[k]))
       /\ From(Level[k]) = IF k = 1 THEN 1 ELSE To(Level[k - 1]) + 1
       /\ k = Len(Level) => To(Level[k]) = leaves
  /\ leaves > 0 => Level # <<>>
  /\ tree = "built" => blocks[1].room < 2 * leaves

=============================================================================
