------------------------------ MODULE LRUCache ------------------------------
(***************************************************************************)
(* LRUCache of src/cache/lru.go.  Every exported method holds the cache's  *)
(* mutex, so Get, BatchGet and Remove are single steps.  Put is split at   *)
(* its Remove of the old entry, each eviction of ensureCapacity's loop    *)
(* and the final store, the states an unlocked Size() can read.  The list *)
(* element of a key is identified with the key (the list holds each key    *)
(* at most once), so keyList is the list of keys, front first.             *)
(*                                                                         *)
(* Put calls the exported Remove (line 65), which locks the mutex Put      *)
(* already holds.  PutRemoveLocks = TRUE models that line as written; with *)
(* FALSE the step runs as the unexported remove, which is what the rest of *)
(* Put (ensureCapacity, record, the size update) is analysed under.        *)
(***************************************************************************)
EXTENDS Naturals, Sequences, SequencesExt, FiniteSetsExt, Functions

CONSTANTS Keys, Items, ItemSize, Cap, Clients, NoItem,
          NoClient,         \* the mutex's holder when it is free
          PutRemoveLocks,   \* TRUE: line 65's Remove takes the mutex again
          MaxOps            \* bound on the operations started

ASSUME /\ \A i \in Items : ItemSize[i] \in Nat \ {0}
       /\ Cap \in Nat
       /\ PutRemoveLocks \in BOOLEAN
       /\ MaxOps \in Nat
       /\ NoClient \notin Clients

NoSnap == <<>>

VARIABLES
    lock,       \* the client holding the cache's sync.Mutex, or NoClient
    pc,         \* pc[c]: "idle", or where client c is inside Put
    arg,        \* arg[c]: the key and item of c's Put
    must,       \* must[c]: ensureCapacity's mustRemove
    items,      \* cache.items: key -> item
    keyList,    \* cache.keyList, front (most recently used) first
    size,       \* cache.size
    got,        \* got[c]: the items c's last Get or BatchGet returned
    snap,       \* items and keyList when the running Put took the lock
    ops         \* operations started

vars == <<lock, pc, arg, must, items, keyList, size, got, snap, ops>>

-----------------------------------------------------------------------------
(* Helpers, named after the unexported methods they model.                 *)

\* Mutant: record forgets MoveToFront for a key already cached.
RecordNoMove(list, k) == IF k \in DOMAIN items THEN list ELSE <<k>> \o list

\* record(key): move an existing key to the front, or push a new one there.
Record(list, k) ==
    IF k \in DOMAIN items THEN <<k>> \o Remove(list, k) ELSE <<k>> \o list

\* Mutant: get returns the key it looked up instead of cached.item.
LookupReturnsKey(ks) ==
    [j \in 1..Len(ks) |-> IF ks[j] \in DOMAIN items THEN ks[j] ELSE NoItem]

\* get(key) folded over a list: the items returned and the new key order.
Lookup(ks) ==
    [j \in 1..Len(ks) |-> IF ks[j] \in DOMAIN items THEN items[ks[j]] ELSE NoItem]
GetAll(list, ks) ==
    FoldLeft(LAMBDA l, k : IF k \in DOMAIN items THEN Record(l, k) ELSE l, list, ks)

\* Mutant: remove forgets keyList.Remove(cached.element).
RemovedKeepsElement(ks) ==
    LET gone == ks \cap DOMAIN items
    IN  /\ items' = Restrict(items, DOMAIN items \ gone)
        /\ size' = size - MapThenSumSet(LAMBDA k : ItemSize[items[k]], gone)
        /\ UNCHANGED keyList

\* remove(key) of the keys ks: drop them from the map, the size and the list.
Removed(ks) ==
    LET gone == ks \cap DOMAIN items
    IN  /\ items' = Restrict(items, DOMAIN items \ gone)
        /\ size' = size - MapThenSumSet(LAMBDA k : ItemSize[items[k]], gone)
        /\ keyList' = SelectSeq(keyList, LAMBDA x : x \notin gone)

\* Mutant: mustRemove one too small, so the loop stops one unit early.
MustRemoveOffByOne(sz, toAdd) == (sz + toAdd) - Cap - 1

\* ensureCapacity's mustRemove for an item of size toAdd.
MustRemove(sz, toAdd) == (sz + toAdd) - Cap

-----------------------------------------------------------------------------
Init ==
    /\ lock = NoClient
    /\ pc = [c \in Clients |-> "idle"]
    /\ arg = [c \in Clients |-> <<>>]
    /\ must = [c \in Clients |-> 0]
    /\ items = [k \in {} |-> NoItem]
    /\ keyList = <<>>
    /\ size = 0
    /\ got = [c \in Clients |-> <<>>]
    /\ snap = NoSnap
    /\ ops = 0

\* A client starts a locked operation only when idle and the mutex is free.
Begin(c) == pc[c] = "idle" /\ lock = NoClient /\ ops < MaxOps

Get(c, k) ==
    /\ Begin(c)
    /\ got' = [got EXCEPT ![c] = Lookup(<<k>>)]
    /\ keyList' = GetAll(keyList, <<k>>)
    /\ ops' = ops + 1
    /\ UNCHANGED <<lock, pc, arg, must, items, size, snap>>

BatchGet(c, ks) ==
    /\ Begin(c)
    /\ got' = [got EXCEPT ![c] = Lookup(ks)]
    /\ keyList' = GetAll(keyList, ks)
    /\ ops' = ops + 1
    /\ UNCHANGED <<lock, pc, arg, must, items, size, snap>>

RemoveKeys(c, ks) ==
    /\ Begin(c)
    /\ Removed(ks)
    /\ ops' = ops + 1
    /\ UNCHANGED <<lock, pc, arg, must, got, snap>>

PutLock(c, k, i) ==
    /\ Begin(c)
    /\ lock' = c
    /\ pc' = [pc EXCEPT ![c] = "remove"]
    /\ arg' = [arg EXCEPT ![c] = <<k, i>>]
    /\ snap' = <<items, keyList>>
    /\ ops' = ops + 1
    /\ UNCHANGED <<must, items, keyList, size, got>>

\* cache.Remove(key), then ensureCapacity's first line.  As written, Remove
\* waits for the mutex its own caller holds.
PutRemove(c) ==
    /\ pc[c] = "remove"
    /\ PutRemoveLocks => lock = NoClient
    /\ Removed({arg[c][1]})
    /\ must' = [must EXCEPT ![c] = MustRemove(size', ItemSize[arg[c][2]])]
    /\ pc' = [pc EXCEPT ![c] = "evict"]
    /\ UNCHANGED <<lock, arg, got, snap, ops>>

\* Mutant: the loop evicts without subtracting the evicted size.
PutEvictNoDecrement(c) ==
    /\ pc[c] = "evict"
    /\ must[c] > 0
    /\ keyList # <<>>
    /\ Removed({Last(keyList)})
    /\ UNCHANGED <<lock, pc, arg, must, got, snap, ops>>

\* One turn of ensureCapacity's loop: evict the key at the back of the list.
PutEvict(c) ==
    /\ pc[c] = "evict"
    /\ must[c] > 0
    /\ keyList # <<>>
    /\ LET k == Last(keyList)
       IN  /\ must' = [must EXCEPT ![c] = must[c] - ItemSize[items[k]]]
           /\ Removed({k})
    /\ UNCHANGED <<lock, pc, arg, got, snap, ops>>

\* keyList.Back() is nil and .Value dereferences it: Put panics, and the
\* deferred Unlock releases the mutex while the panic unwinds.  Package
\* cache recovers nowhere, so the panic ends the program (Crashed).
PutPanic(c) ==
    /\ pc[c] = "evict"
    /\ must[c] > 0
    /\ keyList = <<>>
    /\ lock' = NoClient
    /\ pc' = [pc EXCEPT ![c] = "panicked"]
    /\ snap' = NoSnap
    /\ UNCHANGED <<arg, must, items, keyList, size, got, ops>>

\* The loop is done: record(key), items[key] = cached, size += item.Size().
PutStore(c) ==
    /\ pc[c] = "evict"
    /\ must[c] <= 0
    /\ LET k == arg[c][1]
           i == arg[c][2]
       IN  /\ keyList' = Record(keyList, k)
           /\ items' = items @@ (k :> i)
           /\ size' = size + ItemSize[i]
    /\ lock' = NoClient
    /\ pc' = [pc EXCEPT ![c] = "idle"]
    /\ snap' = NoSnap
    /\ UNCHANGED <<arg, must, got, ops>>

\* A panicking Put has ended the program: no client takes another step.
Crashed == \E c \in Clients : pc[c] = "panicked"

Next ==
    /\ ~Crashed
    /\ \E c \in Clients :
        \/ \E k \in Keys : Get(c, k)
        \/ \E ks \in [1..2 -> Keys] : BatchGet(c, ks)
        \/ \E ks \in SUBSET Keys : ks # {} /\ RemoveKeys(c, ks)
        \/ \E k \in Keys, i \in Items : PutLock(c, k, i)
        \/ PutRemove(c) \/ PutEvict(c) \/ PutPanic(c) \/ PutStore(c)

\* The holder of the mutex is a running goroutine: it keeps taking steps.
Fairness == \A c \in Clients :
    WF_vars(~Crashed /\ (PutRemove(c) \/ PutEvict(c) \/ PutPanic(c) \/ PutStore(c)))

Spec == Init /\ [][Next]_vars /\ Fairness

-----------------------------------------------------------------------------
(* Properties.                                                             *)

TypeOK ==
    /\ lock \in Clients \cup {NoClient}
    /\ pc \in [Clients -> {"idle", "remove", "evict", "panicked"}]
    /\ DOMAIN items \subseteq Keys /\ \A k \in DOMAIN items : items[k] \in Items
    /\ keyList \in Seq(Keys)
    /\ size \in Nat
    /\ got \in [Clients -> Seq(Items \cup {NoItem})]
    /\ ops \in 0..MaxOps

\* The list holds each cached key once, nothing else, and size is the sum
\* of the cached items' sizes.
Consistent(its, list, sz) ==
    /\ IsInjective(list)
    /\ ToSet(list) = DOMAIN its
    /\ sz = MapThenSumSet(LAMBDA k : ItemSize[its[k]], DOMAIN its)

\* Whenever no method holds the mutex, keyList, items and size agree: every
\* path through Put, its evictions and Remove keeps the three in step.
CacheConsistent == lock = NoClient => Consistent(items, keyList, size)

\* Whenever no method holds the mutex, the cached items fit in the
\* capacity: ensureCapacity's mustRemove loop evicts enough before Put
\* stores the new item.
WithinCapacity == lock = NoClient => size <= Cap

\* LRUCache implements LRUSpec: while a Put holds the mutex the cache is
\* seen as it was when Put took it, and Put takes effect when it stores.
LRU == INSTANCE LRUSpec WITH
    store <- IF snap = NoSnap THEN items ELSE snap[1],
    recency <- IF snap = NoSnap THEN keyList ELSE snap[2],
    result <- got
RefinesLRU == LRU!Spec

=============================================================================
