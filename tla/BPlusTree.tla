------------------------------ MODULE BPlusTree ------------------------------
(***************************************************************************)
(* The nodes of the B+ tree of src/btree/plus/node.go: inodes of keys and *)
(* children, lnodes of keys with a pointer to the next leaf, and split,    *)
(* which moves a median key into the parent or into a new root.  The tree *)
(* is a sequence of node records (the heap); a node's id is its position,  *)
(* and a split appends the node it allocates.  The recursive insert and    *)
(* find are recursive operators over the heap.                             *)
(*                                                                         *)
(* Not in the repository: btree (the root and nodeSize), keySearch, the    *)
(* Key interface and the iterator.  node.go's uses fix their contract:     *)
(* keySearch returns the index of the first key not before the one sought *)
(* (lines 186-196 append, replace or insert there), and a.Compare(b) is 1 *)
(* when b comes after a, 0 when they are equal (lines 99-103 and 115-120  *)
(* send an equal key right).  Keys are naturals in their natural order.   *)
(* The tree's Insert calls root.insert and then split(tree, nil, root).   *)
(***************************************************************************)
EXTENDS Naturals, Sequences, SequencesExt, FiniteSetsExt

CONSTANTS
    Keys,       \* the keys inserted and looked up
    NodeSize,   \* tree.nodeSize
    NoKey       \* what an iterator over nothing yields

ASSUME /\ Keys \subseteq Nat /\ Keys # {}
       /\ NodeSize \in Nat /\ NodeSize >= 3
       /\ NoKey \notin Keys

Nil == 0

VARIABLES
    tree,       \* the heap: id -> [leaf, keys, kids, ptr]
    root,       \* tree.root
    found       \* the key the iterator of the last find yields first

vars == <<tree, root, found>>

-----------------------------------------------------------------------------
(* The contract of code outside the repository.                            *)

\* keySearch(keys, key) on sorted keys, as a 0-based index.
KeySearch(ks, key) == Len(SelectSeq(ks, LAMBDA x : x < key))

\* Key.Compare.
Compare(a, b) == IF a = b THEN 0 ELSE IF a < b THEN 1 ELSE -1

NewLeaf(ks, p) == [leaf |-> TRUE, keys |-> ks, kids |-> <<>>, ptr |-> p]
NewInode(ks, cs) == [leaf |-> FALSE, keys |-> ks, kids |-> cs, ptr |-> Nil]

-----------------------------------------------------------------------------
(* node.go, with 0-based slice indices i written i+1.                      *)

\* The child inode.insert and inode.find descend to, as a position in kids:
\* the last one past every key, the right one of an equal key.
ChildFor(n, key) ==
    LET i == KeySearch(n.keys, key) IN
    IF i = Len(n.keys) THEN Len(n.kids)
    ELSE IF Compare(n.keys[i + 1], key) \in {0, 1} THEN i + 2 ELSE i + 1

\* lnode.insert: append, replace an equal key (no change), or insert at i.
LeafInsert(H, n, key) ==
    LET ks == H[n].keys
        i == KeySearch(ks, key)
    IN  IF i = Len(ks) THEN [h |-> [H EXCEPT ![n].keys = Append(ks, key)], r |-> TRUE]
        ELSE IF Compare(ks[i + 1], key) = 0
             THEN [h |-> [H EXCEPT ![n].keys[i + 1] = key], r |-> FALSE]
        ELSE [h |-> [H EXCEPT ![n].keys = InsertAt(ks, i + 1, key)], r |-> TRUE]

NeedsSplit(H, n) == Len(H[n].keys) >= NodeSize

\* Mutant: the median stays in the left node.
LeafSplitMedianLeft(H, n) ==
    LET ks == H[n].keys
        i == Len(ks) \div 2
    IN  [h |-> Append([H EXCEPT ![n].keys = SubSeq(ks, i + 2, Len(ks))],
                      NewLeaf(SubSeq(ks, 1, i + 1), n)),
         key |-> ks[i + 1], left |-> Len(H) + 1, right |-> n]

\* lnode.split: the new left node takes keys[:i] and points to n, which
\* keeps keys[i:] (the median among them).
LeafSplit(H, n) ==
    LET ks == H[n].keys
        i == Len(ks) \div 2
    IN  [h |-> Append([H EXCEPT ![n].keys = SubSeq(ks, i + 1, Len(ks))],
                      NewLeaf(SubSeq(ks, 1, i), n)),
         key |-> ks[i + 1], left |-> Len(H) + 1, right |-> n]

\* inode.split: the median moves up; the new left node takes the keys
\* before it and the children up to it (nodes.splitAt(i+1)).
InodeSplit(H, n) ==
    LET ks == H[n].keys
        cs == H[n].kids
        i == Len(ks) \div 2
    IN  [h |-> Append([H EXCEPT ![n].keys = SubSeq(ks, i + 2, Len(ks)),
                                ![n].kids = SubSeq(cs, i + 2, Len(cs))],
                      NewInode(SubSeq(ks, 1, i), SubSeq(cs, 1, i + 1))),
         key |-> ks[i + 1], left |-> Len(H) + 1, right |-> n]

\* Mutant: split never repoints the leaf before left.
SplitNoPointerFix(H, p, c) ==
    IF ~NeedsSplit(H, c) THEN [h |-> H, n |-> p]
    ELSE LET s == IF H[c].leaf THEN LeafSplit(H, c) ELSE InodeSplit(H, c) IN
         IF p = Nil
         THEN [h |-> Append(s.h, NewInode(<<s.key>>, <<s.left, s.right>>)), n |-> Len(s.h) + 1]
         ELSE LET i == KeySearch(s.h[p].keys, s.key)
                  H1 == s.h
              IN  [h |-> [H1 EXCEPT ![p].keys = InsertAt(@, i + 1, s.key),
                                    ![p].kids = InsertAt([@ EXCEPT ![i + 1] = s.left],
                                                         i + 2, s.right)],
                   n |-> p]

\* split(tree, parent, child): the node returned is parent, or a new root.
Split(H, p, c) ==
    IF ~NeedsSplit(H, c) THEN [h |-> H, n |-> p]
    ELSE LET s == IF H[c].leaf THEN LeafSplit(H, c) ELSE InodeSplit(H, c) IN
         IF p = Nil
         THEN [h |-> Append(s.h, NewInode(<<s.key>>, <<s.left, s.right>>)), n |-> Len(s.h) + 1]
         ELSE LET i == KeySearch(s.h[p].keys, s.key)
                  \* the leaf before left in the same parent now points to left
                  H1 == IF s.h[s.left].leaf /\ i > 0
                        THEN [s.h EXCEPT ![s.h[p].kids[i]].ptr = s.left] ELSE s.h
              IN  [h |-> [H1 EXCEPT ![p].keys = InsertAt(@, i + 1, s.key),
                                    ![p].kids = InsertAt([@ EXCEPT ![i + 1] = s.left],
                                                         i + 2, s.right)],
                   n |-> p]

\* node.insert: the result says whether a key was added; an inode splits
\* the child it descended into when that child is full.
RECURSIVE InsertInto(_, _, _)
InsertInto(H, n, key) ==
    IF H[n].leaf THEN LeafInsert(H, n, key)
    ELSE LET c == H[n].kids[ChildFor(H[n], key)]
             res == InsertInto(H, c, key)
         IN  IF res.r /\ NeedsSplit(res.h, c)
             THEN [h |-> Split(res.h, n, c).h, r |-> TRUE]
             ELSE res

\* Mutant: lnode.find without the step to the next leaf.
LeafFindNoPointer(H, n, key) ==
    LET i == KeySearch(H[n].keys, key) IN
    IF i < Len(H[n].keys) THEN <<n, i - 1>> ELSE <<Nil, 0>>

\* lnode.find: the iterator <<node, index>> (index -1 is before the first
\* key); past its last key, the next leaf from its start, or the nil
\* iterator <<Nil, 0>>.
LeafFind(H, n, key) ==
    LET i == KeySearch(H[n].keys, key) IN
    IF i < Len(H[n].keys) THEN <<n, i - 1>>
    ELSE IF H[n].ptr = Nil THEN <<Nil, 0>>
    ELSE <<H[n].ptr, -1>>

\* inode.find: descend as insert does.
RECURSIVE FindFrom(_, _, _)
FindFrom(H, n, key) ==
    IF H[n].leaf THEN LeafFind(H, n, key)
    ELSE FindFrom(H, H[n].kids[ChildFor(H[n], key)], key)

\* The key an iterator's first Next/Value yields.
IterValue(H, it) == IF it[1] = Nil THEN NoKey ELSE H[it[1]].keys[it[2] + 2]

-----------------------------------------------------------------------------
Init ==
    /\ tree = <<NewLeaf(<<>>, Nil)>>
    /\ root = 1
    /\ found = NoKey

Insert(k) ==
    LET r == InsertInto(tree, root, k)
        s == Split(r.h, Nil, root)
    IN  /\ tree' = s.h
        /\ root' = IF s.n = Nil THEN root ELSE s.n
        /\ UNCHANGED found

Find(k) ==
    /\ found' = IterValue(tree, FindFrom(tree, root, k))
    /\ UNCHANGED <<tree, root>>

Next == \E k \in Keys : Insert(k) \/ Find(k)

Spec == Init /\ [][Next]_vars

-----------------------------------------------------------------------------
(* Properties.                                                             *)

\* The leaves under n, left to right.
RECURSIVE Leaves(_, _)
Leaves(H, n) ==
    IF H[n].leaf THEN <<n>>
    ELSE FlattenSeq([j \in 1..Len(H[n].kids) |-> Leaves(H, H[n].kids[j])])

\* The nodes under n, each with the bounds [lo, hi) its parents'
\* separators set on its keys and its height d above the leaves.
RECURSIVE Frames(_, _, _, _, _)
Frames(H, n, lo, hi, d) ==
    LET ks == H[n].keys
        Bound(j, b) == IF j < 1 \/ j > Len(ks) THEN b ELSE ks[j]
    IN  {<<n, lo, hi, d>>} \cup
        UNION {Frames(H, H[n].kids[j], Bound(j - 1, lo), Bound(j, hi), d - 1) :
                 j \in 1..Len(H[n].kids)}

RECURSIVE Height(_, _)
Height(H, n) == IF H[n].leaf THEN 0 ELSE 1 + Height(H, H[n].kids[1])

\* A node's keys are sorted, fewer than nodeSize and within its bounds; it
\* is a leaf exactly at height 0, and an inode has one child more than keys.
NodeOrdered(H, f) ==
    LET ks == H[f[1]].keys IN
    /\ \A j \in 1..Len(ks) : f[2] <= ks[j] /\ ks[j] < f[3]
    /\ \A j \in 1..(Len(ks) - 1) : ks[j] < ks[j + 1]
    /\ Len(ks) < NodeSize
    /\ H[f[1]].leaf <=> f[4] = 0
    /\ ~H[f[1]].leaf => Len(H[f[1]].kids) = Len(ks) + 1

\* After every Insert the tree is a balanced search tree: every leaf is at
\* the same depth, each subtree's keys lie between the separators around
\* it (splits move the right median up), and every node stays below
\* nodeSize keys.
BalancedSearchTree ==
    \A f \in Frames(tree, root, 0, Max(Keys) + 1, Height(tree, root)) : NodeOrdered(tree, f)

\* The leaves' pointers chain the leaves left to right, the last to nil
\* (what lnode.find relies on to step to the next leaf).
LeafChainInOrder ==
    LET ls == Leaves(tree, root) IN
    \A j \in 1..Len(ls) : tree[ls[j]].ptr = IF j = Len(ls) THEN Nil ELSE ls[j + 1]

\* The tree implements OrderedSet: its leaves hold exactly the keys
\* inserted, and find positions on the least key not before the one sought.
Abstract == INSTANCE OrderedSet WITH
    set <- UNION {ToSet(tree[l].keys) : l \in ToSet(Leaves(tree, root))}
RefinesOrderedSet == Abstract!Spec

=============================================================================
