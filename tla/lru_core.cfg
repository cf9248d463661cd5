\* Two clients, three keys, capacity 3; big (size 4) does not fit at all.
CONSTANTS
    Keys = {k1, k2, k3}
    a = a
    b = b
    big = big
    Items = {a, b, big}
    ItemSize <- MCItemSize
    Cap = 3
    Clients = {c1, c2}
    NoItem = NoItem
    NoClient = NoClient
    PutRemoveLocks = FALSE
    MaxOps = 4
SPECIFICATION Spec
INVARIANT TypeOK CacheConsistent WithinCapacity
PROPERTY RefinesLRU
CHECK_DEADLOCK FALSE
