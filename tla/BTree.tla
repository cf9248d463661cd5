------------------------------- MODULE BTree -------------------------------
(***************************************************************************)
(* The B-tree of src/unnamed/part_002: nodes of sorted items and children, *)
(* insert that splits every full node on its way down, and delete that     *)
(* grows every minimal child on its way down by stealing from a sibling or *)
(* merging with one.  The tree has no parent pointers and no node is       *)
(* shared, so a node is a value [items, kids] and the code's in-place      *)
(* updates through *node are updates of that value; an operation of the    *)
(* tree runs to completion (no lock, no goroutine) and is one step.  Go's  *)
(* 0-based indices are kept and written i+1 where a sequence is indexed.   *)
(* Items are IntItem (lines 36-41): naturals, Less is <.                    *)
(***************************************************************************)
EXTENDS Integers, Sequences, SequencesExt, FiniteSetsExt

CONSTANTS
    Keys,       \* the items inserted, deleted and looked up
    Degree,     \* btree.degree
    NoItem,     \* a nil Item
    NoNode,     \* a nil *node (tree.root before the first insert)
    Panic       \* what a call that panicked leaves behind

ASSUME /\ Keys \subseteq Nat /\ Keys # {}
       /\ Degree \in Nat /\ Degree >= 2

VARIABLES
    root,       \* tree.root: a node value or NoNode
    ret         \* what the last call returned, or Panic once one panicked

vars == <<root, ret>>

-----------------------------------------------------------------------------
MinCap == Degree - 1        \* tree.MinCap()
MaxCap == 2 * Degree - 1    \* tree.MaxCap()

Leaf(is) == [items |-> is, kids |-> <<>>]

\* items.find: sort.Search for the first item t is less than; the item
\* before it is t when it is not less than t.  <<index, found>>.
Find(is, t) ==
    LET i == Len(SelectSeq(is, LAMBDA x : ~(t < x))) IN
    IF i > 0 /\ ~(is[i] < t) THEN <<i - 1, TRUE>> ELSE <<i, FALSE>>

\* node.split(mid): items[mid] goes up, the node keeps what is before it
\* and a new node takes what is after it, children split alike.
Split(n, mid) ==
    [up    |-> n.items[mid + 1],
     left  |-> [items |-> SubSeq(n.items, 1, mid),
                kids  |-> IF n.kids = <<>> THEN <<>> ELSE SubSeq(n.kids, 1, mid + 1)],
     right |-> [items |-> SubSeq(n.items, mid + 2, Len(n.items)),
                kids  |-> IF n.kids = <<>> THEN <<>> ELSE SubSeq(n.kids, mid + 2, Len(n.kids))]]

\* maybeSplitChild(ci, maxCap): split the child at ci when it is full.
MaybeSplitChild(n, ci) ==
    LET c == n.kids[ci + 1] IN
    IF Len(c.items) >= MaxCap
    THEN LET s == Split(c, Len(c.items) \div 2) IN
         [node  |-> [items |-> InsertAt(n.items, ci + 1, s.up),
                     kids  |-> InsertAt([n.kids EXCEPT ![ci + 1] = s.left], ci + 2, s.right)],
          split |-> TRUE]
    ELSE [node |-> n, split |-> FALSE]

\* node.insert: the item itself when found, nil once inserted in a leaf;
\* after a split the child to descend to is chosen against the new item.
RECURSIVE Insert(_, _)
Insert(n, item) ==
    LET f == Find(n.items, item) IN
    IF f[2] THEN [node |-> n, out |-> item]
    ELSE IF n.kids = <<>>
    THEN [node |-> [n EXCEPT !.items = InsertAt(@, f[1] + 1, item)], out |-> NoItem]
    ELSE LET s == MaybeSplitChild(n, f[1])
             inTree == s.node.items[f[1] + 1]
         IN  IF s.split /\ ~(item < inTree) /\ ~(inTree < item)
             THEN [node |-> [s.node EXCEPT !.items[f[1] + 1] = item], out |-> inTree]
             ELSE LET i == IF s.split /\ inTree < item THEN f[1] + 1 ELSE f[1]
                      r == Insert(s.node.kids[i + 1], item)
                  IN  [node |-> [s.node EXCEPT !.kids[i + 1] = r.node], out |-> r.out]

-----------------------------------------------------------------------------
(* The rebalancing steps of growChildAndRemove and growChildAndRemoveMax,  *)
(* for the child at 0-based index i of parent p.                            *)

\* Steal the left sibling's last item through the parent (lines 218-229,
\* 176-189).
StealLeft(p, i) ==
    LET l == p.kids[i]
        c == p.kids[i + 1]
        movesKid == l.kids # <<>>
    IN  [p EXCEPT
            !.items[i] = Last(l.items),
            !.kids[i] = [items |-> Front(l.items),
                         kids  |-> IF movesKid THEN Front(l.kids) ELSE l.kids],
            !.kids[i + 1] = [items |-> <<p.items[i]>> \o c.items,
                             kids  |-> IF movesKid THEN <<Last(l.kids)>> \o c.kids ELSE c.kids]]

\* Steal the right sibling's first item through the parent (236-248).
StealRight(p, i) ==
    LET c == p.kids[i + 1]
        r == p.kids[i + 2]
        movesKid == r.kids # <<>>
    IN  [p EXCEPT
            !.items[i + 1] = Head(r.items),
            !.kids[i + 1] = [items |-> Append(c.items, p.items[i + 1]),
                             kids  |-> IF movesKid THEN Append(c.kids, Head(r.kids)) ELSE c.kids],
            !.kids[i + 2] = [items |-> Tail(r.items),
                             kids  |-> IF movesKid THEN Tail(r.kids) ELSE r.kids]]

\* Merge the children at j and j+1 with the item between them; a parent
\* of one item becomes the merged node (*parent = *n).  The children are
\* appended only when the left one has any.
Merge(p, j) ==
    LET l == p.kids[j + 1]
        r == p.kids[j + 2]
        n == [items |-> l.items \o <<p.items[j + 1]>> \o r.items,
              kids  |-> IF l.kids # <<>> THEN l.kids \o r.kids ELSE <<>>]
    IN  IF Len(p.items) = 1 THEN n
        ELSE [items |-> RemoveAt(p.items, j + 1),
              kids  |-> [RemoveAt(p.kids, j + 2) EXCEPT ![j + 1] = n]]

\* Mutant: a sibling of MinCap items counts as one to steal from.
GrowChildStealsMinimal(p, i) ==
    IF i > 0 /\ Len(p.kids[i].items) >= MinCap THEN StealLeft(p, i)
    ELSE IF i < Len(p.kids) - 1 /\ Len(p.kids[i + 2].items) >= MinCap THEN StealRight(p, i)
    ELSE IF i > 0 THEN Merge(p, i - 1)
    ELSE IF i + 1 < Len(p.kids) THEN Merge(p, i)
    ELSE NoNode

\* growChildAndRemove's choice: steal from the left, from the right, merge
\* with the left, merge with the right, or nothing (NoNode, return nil).
GrowChild(p, i) ==
    IF i > 0 /\ Len(p.kids[i].items) > MinCap THEN StealLeft(p, i)
    ELSE IF i < Len(p.kids) - 1 /\ Len(p.kids[i + 2].items) > MinCap THEN StealRight(p, i)
    ELSE IF i > 0 THEN Merge(p, i - 1)
    ELSE IF i + 1 < Len(p.kids) THEN Merge(p, i)
    ELSE NoNode

\* growChildAndRemoveMax: the last child i steals from the left or merges.
GrowLastChild(p, i) ==
    IF Len(p.kids[i].items) > MinCap THEN StealLeft(p, i) ELSE Merge(p, i - 1)

\* node.removeMax: take the largest item of the subtree, growing a
\* minimal last child first.
RECURSIVE RemoveMax(_)
RemoveMax(n) ==
    LET last == Len(n.items) - 1 IN
    IF n.kids = <<>>
    THEN [node |-> [n EXCEPT !.items = Front(@)], out |-> Last(n.items)]
    ELSE IF Len(n.kids[last + 2].items) <= MinCap
    THEN RemoveMax(GrowLastChild(n, last + 1))
    ELSE LET r == RemoveMax(n.kids[last + 2])
         IN  [node |-> [n EXCEPT !.kids[last + 2] = r.node], out |-> r.out]

\* node.remove: grow the child to descend to when it is minimal and start
\* again; a found item of a leaf is removed, one of an inode is replaced by
\* the largest item of the child before it.
RECURSIVE RemoveFrom(_, _)
RemoveFrom(n, item) ==
    LET f == Find(n.items, item)
        i == f[1]
    IN  IF n.kids # <<>> /\ Len(n.kids[i + 1].items) <= MinCap
        THEN LET g == GrowChild(n, i) IN
             IF g = NoNode THEN [node |-> n, out |-> NoItem] ELSE RemoveFrom(g, item)
        ELSE IF f[2] /\ n.kids = <<>>
        THEN [node |-> [n EXCEPT !.items = RemoveAt(@, i + 1)], out |-> n.items[i + 1]]
        ELSE IF f[2]
        THEN LET r == RemoveMax(n.kids[i + 1])
             IN  [node |-> [n EXCEPT !.items[i + 1] = r.out, !.kids[i + 1] = r.node],
                  out  |-> n.items[i + 1]]
        ELSE IF n.kids = <<>> THEN [node |-> n, out |-> NoItem]
        ELSE LET r == RemoveFrom(n.kids[i + 1], item)
             IN  [node |-> [n EXCEPT !.kids[i + 1] = r.node], out |-> r.out]

\* Mutant: get without the descent into the child.
GetFromNoDescent(n, key) ==
    LET f == Find(n.items, key) IN IF f[2] THEN n.items[f[1] + 1] ELSE NoItem

\* node.get.
RECURSIVE GetFrom(_, _)
GetFrom(n, key) ==
    LET f == Find(n.items, key) IN
    IF f[2] THEN n.items[f[1] + 1]
    ELSE IF n.kids # <<>> THEN GetFrom(n.kids[f[1] + 1], key)
    ELSE NoItem

-----------------------------------------------------------------------------
(* The tree's calls.  A panic ends the program: no call follows it.        *)

Init == root = NoNode /\ ret = NoItem

Running == ret # Panic

\* ReplaceOrInsert: an empty tree gets a root of the one item; a full root
\* is split under a new root before the insert.
ReplaceOrInsert(item) ==
    /\ Running
    /\ IF root = NoNode
       THEN root' = Leaf(<<item>>) /\ ret' = NoItem
       ELSE LET r0 == IF Len(root.items) >= MaxCap
                      THEN LET s == Split(root, Len(root.items) \div 2)
                           IN  [items |-> <<s.up>>, kids |-> <<s.left, s.right>>]
                      ELSE root
                r == Insert(r0, item)
            IN  root' = r.node /\ ret' = r.out

\* Delete: tree.root.remove, which dereferences a nil root.
Delete(item) ==
    /\ Running
    /\ IF root = NoNode
       THEN ret' = Panic /\ UNCHANGED root
       ELSE LET r == RemoveFrom(root, item) IN root' = r.node /\ ret' = r.out

Get(key) ==
    /\ Running
    /\ ret' = IF root = NoNode THEN NoItem ELSE GetFrom(root, key)
    /\ UNCHANGED root

Next == \E k \in Keys : ReplaceOrInsert(k) \/ Delete(k) \/ Get(k)

Spec == Init /\ [][Next]_vars


-----------------------------------------------------------------------------
(* Properties.                                                             *)

\* The items of the subtree n.
RECURSIVE ItemsOf(_)
ItemsOf(n) == ToSet(n.items) \cup UNION {ItemsOf(n.kids[j]) : j \in 1..Len(n.kids)}

Contents == IF root = NoNode THEN {} ELSE ItemsOf(root)

\* The nodes under n, each with the open bounds (lo, hi) its parents'
\* items set on its items and its height d above the leaves.
RECURSIVE Frames(_, _, _, _)
Frames(n, lo, hi, d) ==
    LET Bound(j, b) == IF j < 1 \/ j > Len(n.items) THEN b ELSE n.items[j] IN
    {[node |-> n, lo |-> lo, hi |-> hi, d |-> d]} \cup
    UNION {Frames(n.kids[j], Bound(j - 1, lo), Bound(j, hi), d - 1) : j \in 1..Len(n.kids)}

RECURSIVE Height(_)
Height(n) == IF n.kids = <<>> THEN 0 ELSE 1 + Height(n.kids[1])

\* A node's items are sorted and strictly between its bounds; it is a leaf
\* exactly at height 0, an inode has one child more than items, and every
\* node but the root holds between MinCap and MaxCap items.
NodeOK(f, isRoot) ==
    LET is == f.node.items IN
    /\ \A j \in 1..Len(is) : f.lo < is[j] /\ is[j] < f.hi
    /\ \A j \in 1..(Len(is) - 1) : is[j] < is[j + 1]
    /\ (f.node.kids = <<>>) <=> (f.d = 0)
    /\ f.node.kids # <<>> => Len(f.node.kids) = Len(is) + 1
    /\ Len(is) <= MaxCap
    /\ ~isRoot => Len(is) >= MinCap
    /\ isRoot /\ f.node.kids # <<>> => Len(is) >= 1

\* After every ReplaceOrInsert and Delete, whatever steals and merges the
\* deletes chose, the tree is a B-tree: balanced, ordered, and every node
\* but the root between half full and full.
IsBTree ==
    root # NoNode =>
        \A f \in Frames(root, -1, Max(Keys) + 1, Height(root)) :
            NodeOK(f, f.node = root /\ f.d = Height(root))

\* BTree implements KeySet: every call returns what the interface says and
\* leaves the items it says.  A panic ends the program, and the call that
\* panicked is seen as returning nil (the panic is a hazard of its own).
Abstract == INSTANCE KeySet WITH
    set <- Contents, ret <- IF ret = Panic THEN NoItem ELSE ret
RefinesKeySet == Abstract!Spec

=============================================================================
