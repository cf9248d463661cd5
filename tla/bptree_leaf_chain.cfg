\* Seven keys: a leaf that is the first child of the second inode splits.
CONSTANTS
    Keys = {1, 2, 3, 4, 5, 6, 7}
    NodeSize = 3
    NoKey = NoKey
SPECIFICATION Spec
INVARIANT LeafChainInOrder
