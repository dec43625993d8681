------------------------------- MODULE Merkle -------------------------------
(***************************************************************************)
(* The Merkle tree accumulators of headstart/acc/merkle_tree.py: the plain *)
(* one, which the beacon uses, and the sorted one with non-membership      *)
(* witnesses.  Data items are small numbers ordered as Python orders       *)
(* bytes, the padding b"" is 0; the hash is ideal, so a hash is the tagged *)
(* tuple of what was hashed.  Indices of data and of tree start at 0.      *)
(***************************************************************************)
EXTENDS Integers, Sequences, FiniteSets, Functions

CONSTANTS
  Items,     \* data items, numbers above 0
  MaxItems   \* bound: how many items are accumulated

Empty == 0   \* b""

VARIABLES
  kind,      \* "none", or the accumulator in use: "plain" or "sorted"
  X,         \* the data, a sequence
  acc,       \* [data, tree, index_map] of the accumulator
  witness    \* the last witness: of an index of X, or of a value not in X

merkleVars == <<kind, X, acc, witness>>

-----------------------------------------------------------------------------
(* class MerkleTree                                                        *)

HashLeaf(x) == <<"leaf", x>>

HashNode(a, b) == <<"node", a, b>>

\* The least power of two that is at least l, as from_data pads.
PaddedLength(l) == CHOOSE p \in {2^e : e \in 0 .. MaxItems} : p >= l /\ p < 2 * l

Padded(s) == [i \in 0 .. PaddedLength(Len(s)) - 1 |-> IF i < Len(s) THEN s[i + 1] ELSE Empty]

\* compute_tree: an implicit heap with the leaves at its end.
ComputeTree(data) ==
  LET l == Cardinality(DOMAIN data)
      tree[i \in 0 .. 2 * l - 2] ==
        IF i >= l - 1 THEN HashLeaf(data[i - (l - 1)])
        ELSE HashNode(tree[2 * i + 1], tree[2 * i + 2])
  IN  tree

Root(tree) == tree[0]
LenData(tree) == (Cardinality(DOMAIN tree) + 1) \div 2

\* get_proof: the siblings from the leaf up to the root.
GetProof(tree, index) ==
  LET path[cur \in DOMAIN tree] ==
        IF cur = 0 THEN <<>>
        ELSE <<IF cur % 2 = 1 THEN <<"R", tree[cur + 1]>> ELSE <<"L", tree[cur - 1]>>>>
             \o path[(cur - 1) \div 2]
  IN  path[index + LenData(tree) - 1]

\* check_proof
CheckProof(root, x, proof) ==
  LET up[i \in 0 .. Len(proof)] ==
        IF i = 0 THEN HashLeaf(x)
        ELSE IF proof[i][1] = "R" THEN HashNode(up[i - 1], proof[i][2])
        ELSE HashNode(proof[i][2], up[i - 1])
  IN  up[Len(proof)] = root

\* check_present: the same climb, with the siblings taken from the tree.
CheckPresent(tree, index, x) ==
  LET up[cur \in DOMAIN tree, h \in {HashLeaf(x)} \cup Range(tree)] ==
        IF cur = 0 THEN h = Root(tree)
        ELSE LET next == IF cur % 2 = 1 THEN HashNode(h, tree[cur + 1])
                         ELSE HashNode(tree[cur - 1], h)
             IN  next \in Range(tree) /\ up[(cur - 1) \div 2, next]
  IN  up[index + LenData(tree) - 1, HashLeaf(x)]

-----------------------------------------------------------------------------
(* class SortedMerkleTreeAccumulator                                       *)

Indices == 0 .. Len(X) - 1
At(i) == X[i + 1]

\* index_map[i]: the position of X[i] after Python's stable sort.
SortedPosition(i) ==
  Cardinality({j \in Indices : At(j) < At(i) \/ (At(j) = At(i) /\ j < i)})

Sorted == [p \in 1 .. Len(X) |-> At(CHOOSE i \in Indices : SortedPosition(i) = p - 1)]

\* bisect.bisect_left(a, x)
BisectLeft(a, x) ==
  LET search[lo \in 0 .. Cardinality(DOMAIN a), hi \in 0 .. Cardinality(DOMAIN a)] ==
        IF lo >= hi THEN lo
        ELSE LET mid == (lo + hi) \div 2
             IN  IF a[mid] < x THEN search[mid + 1, hi] ELSE search[lo, mid]
  IN  search[0, Cardinality(DOMAIN a)]

None == <<>>

\* Index, value and proof of a neighbour.
Neighbour(i) == <<i, acc.data[i], GetProof(acc.tree, i)>>

\* The index that the sides of a proof spell out, least significant bit first;
\* -1 without a neighbour.
SideIndex(w) ==
  LET bits[i \in 0 .. Len(w[3])] ==
        IF i = 0 THEN 0
        ELSE bits[i - 1] + (IF w[3][i][1] = "L" THEN 2^(i - 1) ELSE 0)
  IN  IF w = None THEN -1 ELSE bits[Len(w[3])]

\* nonmemverify.  int("", 2) is a ValueError: with the empty proof of a tree
\* of one leaf the call ends in an exception and accepts nothing.
NonmemVerify(root, left, right) ==
  LET li == SideIndex(left)
      ri == SideIndex(right)
  IN  /\ \A w \in {left, right} \ {None} : w[3] # <<>>
      /\ left # None => CheckProof(root, left[2], left[3]) /\ li = left[1]
      /\ right # None => CheckProof(root, right[2], right[3]) /\ ri = right[1]
      /\ \/ li + 1 = ri
         \/ ri = 0 /\ li = -1
         \/ left # None /\ li + 1 = 2^Len(left[3]) /\ ri = -1

-----------------------------------------------------------------------------
NoAcc == [data |-> <<>>, tree |-> <<>>, index_map |-> <<>>]
NoWitness == [for |-> "none"]

MerkleInit == kind = "none" /\ X = <<>> /\ acc = NoAcc /\ witness = NoWitness

\* The data a stage collects.
Contribute(x) ==
  /\ kind = "none"
  /\ Len(X) < MaxItems
  /\ X' = Append(X, x)
  /\ UNCHANGED <<kind, acc, witness>>

\* MerkleTreeAccumulator.accumulate
Accumulate ==
  /\ kind = "none" /\ X # <<>>
  /\ kind' = "plain"
  /\ acc' = [data |-> Padded(X), tree |-> ComputeTree(Padded(X)), index_map |-> [i \in Indices |-> i]]
  /\ UNCHANGED <<X, witness>>

\* SortedMerkleTreeAccumulator.accumulate
AccumulateSorted ==
  /\ kind = "none" /\ X # <<>>
  /\ kind' = "sorted"
  /\ acc' = [data |-> Padded(Sorted), tree |-> ComputeTree(Padded(Sorted)),
             index_map |-> [i \in Indices |-> SortedPosition(i)]]
  /\ UNCHANGED <<X, witness>>

\* witgen of either accumulator
Witgen(index) ==
  /\ kind # "none"
  /\ witness' = [for |-> "member", index |-> index, proof |-> GetProof(acc.tree, acc.index_map[index])]
  /\ UNCHANGED <<kind, X, acc>>

\* Mutant of NonmemWitgen: the left neighbour is the item at the index found.
NonmemWitgenSameIndex(x) ==
  /\ kind = "sorted"
  /\ x \notin Range(X)
  /\ LET index == BisectLeft(acc.data, x)
     IN  witness' = [for |-> "nonmember", x |-> x,
           left |-> IF index > 0 /\ index \in DOMAIN acc.data THEN Neighbour(index) ELSE None,
           right |-> IF index \in DOMAIN acc.data THEN Neighbour(index) ELSE None]
  /\ UNCHANGED <<kind, X, acc>>

\* nonmemwitgen
NonmemWitgen(x) ==
  /\ kind = "sorted"
  /\ x \notin Range(X)
  /\ LET index == BisectLeft(acc.data, x)
     IN  witness' = [for |-> "nonmember", x |-> x,
           left |-> IF index > 0 THEN Neighbour(index - 1) ELSE None,
           right |-> IF index \in DOMAIN acc.data THEN Neighbour(index) ELSE None]
  /\ UNCHANGED <<kind, X, acc>>

MerkleNext ==
  \/ \E x \in Items : Contribute(x) \/ NonmemWitgen(x)
  \/ Accumulate
  \/ AccumulateSorted
  \/ \E i \in Indices : Witgen(i)

-----------------------------------------------------------------------------
(* Properties.                                                             *)

\* A membership witness verifies, against the root and against the tree, for
\* its item and for no other value, neither another item nor the padding,
\* whether or not the data were padded or sorted, with equal items too.
MembersVerify ==
  witness.for = "member" =>
    LET item == At(witness.index)
    IN  /\ \A x \in Items \cup {Empty} :
             CheckProof(Root(acc.tree), x, witness.proof) <=> x = item
        /\ CheckPresent(acc.tree, acc.index_map[witness.index], item)

Accepted == NonmemVerify(Root(acc.tree), witness.left, witness.right)

\* A non-membership witness that nonmemwitgen makes is accepted by
\* nonmemverify, at either end of the data and with padding in it, when there
\* are at least two items.  (With one item the proof is empty and nonmemverify
\* raises on int("", 2).)
NonmembersVerify == (witness.for = "nonmember" /\ Len(X) > 1) => Accepted

\* The verifier takes every witness that the tree gives, and a membership
\* witness for its item alone.
TreeWitnessesVerify == MembersVerify /\ NonmembersVerify

\* nonmemwitgen's comments: the index is one "of sorted X" and "now X[index] >
\* x".  So the right neighbour is above x whenever any item of X is.
RightNeighbourAbove ==
  (witness.for = "nonmember" /\ \E i \in Indices : At(i) > witness.x) =>
    witness.right # None /\ witness.right[2] > witness.x

=============================================================================
