CONSTANTS
    Keys = {0, 1, 4, 5}
    Vals = {v1, v2}
    NoVal = NoVal
    Hints = {0, 1, 2, 3, 5}
    Width = 8
    HashCode <- MCHashCode
    MaxSets = 7
SPECIFICATION Spec
INVARIANT TypeOK FindTerminates
PROPERTY TableSizedByRoundUp RefinesMap
