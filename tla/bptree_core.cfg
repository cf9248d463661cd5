\* Six keys inserted in every order, with finds in between; nodeSize 3.
CONSTANTS
    Keys = {1, 2, 3, 4, 5, 6}
    NodeSize = 3
    NoKey = NoKey
SPECIFICATION Spec
INVARIANT BalancedSearchTree LeafChainInOrder
PROPERTY RefinesOrderedSet
