\* Degree 2 (MaxCap 3, MinCap 1) and ten items: enough for a tree of
\* height two whose deletes steal and merge at both levels, and for a
\* removeMax that must grow the last child of an inode first.
CONSTANTS
    Keys = {1,2,3,4,5,6,7,8,9,10}
    Degree = 2
    NoItem = NoItem
    NoNode = NoNode
    Panic = Panic
SPECIFICATION Spec
INVARIANT IsBTree
PROPERTY RefinesKeySet
CHECK_DEADLOCK FALSE
