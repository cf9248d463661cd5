# TLA+ models of go-datastructures

This directory holds TLA+ models of the repository's concurrent and
algorithmic components, and the TLC configurations that check them:

* the hierarchical timing wheel (`src/timewheel`, with `TimeWheel` in `src/unnamed/part_004`): `TimingWheel.tla`;
* the LRU cache (`src/cache/lru.go`): `LRUCache.tla`, refining `LRUSpec.tla`;
* the open-addressed hash map (`src/hashmap/hashmap.go`): `HashMap.tla`, refining `MapSpec.tla`;
* the linked-list byte buffer (`src/llb/buffer.go`): `LinkedBuffer.tla`, refining `ByteStream.tla`;
* the B+ tree's nodes (`src/btree/plus/node.go`): `BPlusTree.tla`, refining `OrderedSet.tla`;
* the B-tree (`src/unnamed/part_002`): `BTree.tla`, refining `KeySet.tla`;
* the bitmap array (`src/unnamed/part_008`): `BitmapArray.tla`, refining `BitSet.tla`;
* the netpoll-style `LinkBuffer` (`src/unnamed/part_005`): `LinkBuffer.tla`, refining `LinkStream.tla`.

Each component is used on its own; none calls another, so there is no
composed module. Each `MC_*.tla` module supplies the model values and
definitions its configurations need.

## The system's parts

| Part | Source | State | Operations | Status |
|---|---|---|---|---|
| timer | `src/timewheel/bucket.go` 81-104 | expiration, atomic bucket pointer, list element, task | `Stop` (retry loop over `remove`) | modelled |
| bucket | `src/timewheel/bucket.go` 10-72 | atomic expiration, mutex, `container/list` of timers | `Add`, `SetExpiration`, `remove`, `Flush` | modelled |
| TimeWheel | `src/unnamed/part_004` | tick, size, interval, atomic currentTime, buckets, lazily created overflow wheel (CAS) | `New`, `add`, `addOrRun`, `advanceClock`, `AfterFunc`, `Start`, `Stop` | modelled |
| DelayQueue | not in the repository (spec 4.5) | one entry per bucket, keyed by expiration | `Offer` (insert or reprioritise), `Poll` (sends due buckets on `C`) | modelled from the spec |
| waitGroupWrapper | `src/timewheel/util.go` | WaitGroup | `Wrap` (starts a goroutine), `Done`, `Wait` | modelled, as the two loops of `Start` and `Stop`'s wait |
| LRU cache | `src/cache/lru.go` | map and list under a mutex | Get, BatchGet, Remove, Put with eviction | partly (Put past line 65 under the unexported-remove reading; Size left out) |
| hash map | `src/hashmap/hashmap.go` | open-addressed slots, count | New, Set with rebuild, Get, roundUp | modelled |
| B-tree | `src/unnamed/part_002` | nodes of sorted items and children | ReplaceOrInsert with split, Delete with steal and merge, Get | modelled |
| B+ tree nodes | `src/btree/plus/node.go` | inodes and lnodes with next-leaf pointers | insert, split, find | modelled |
| linked-list byte buffer | `src/llb/buffer.go` | list of byte slices, head, tail, size, bytes | PushFront, PushBack, Read, Discard, Peek, Reset, Len, Buffered, IsEmpty | modelled |
| LinkBuffer | `src/unnamed/part_005` | chain of pooled nodes with head, read, flush and write pointers, atomic length, mallocSize | NewLinkBuffer, Malloc, MallocLen, MallocAck, Flush, WriteBinary, WriteByte, Next, ReadBinary, ReadString, ReadByte, Peek, Skip, Release, Len, Bytes, Close | partly (Slice, WriteBuffer, WriteDirect, Until, GetBytes and book left out) |
| bit arrays | `src/unnamed/part_006`..`part_008` | words of bits | Bitmap and BitmapArray of `part_008`: Set, Clear, Has, Count, Empty, ToNums | partly (`part_006`, `part_007` left out) |
| batcher | `src/batcher/batcher_new_test.go` | batch, lock, channel | Put, Get, Flush, Dispose | not yet (the code sits in a test file) |

### How the timing-wheel parts interact

`Start` launches two goroutines.

* The **poll loop** (`DelayQueue.Poll`) waits until the queue's earliest bucket is due and sends it on `C`.
* The **dispatch loop** receives a bucket. It calls `advanceClock(b.expiration)` to move every level's `currentTime`, then calls `b.Flush(tw.addOrRun)`.

`Flush` holds the bucket's mutex while it goes through the list. For each element it removes the timer and calls `addOrRun`, which either re-adds the timer at a finer level or runs the task in a new goroutine.

Callers run concurrently with both loops:

* `AfterFunc` runs `addOrRun` on a new timer. `add` loads a level's `currentTime` once and decides from it. It then picks a slot, or creates the overflow level by CAS and recurses. Next it calls `bucket.Add` under the bucket's mutex. Finally it calls `SetExpiration`, and `Offer` if the expiration changed, with no lock held.
* `timer.Stop` loops: it reads the timer's bucket and calls the **unexported** `remove` **without the bucket's mutex**.

## The timing wheel

`TimingWheel.tla` is the specification. `MC_TimingWheel.tla` extends it with the state constraint `AddBound`, which bounds how often one timer is re-added.

### Constants

| Constant | Meaning |
|---|---|
| `Tick` | the base tick |
| `WheelSize` | the slots per level |
| `MaxLevels` | the number of levels the model allows |
| `Timers` | model values, one caller each |
| `Expirations` | the absolute expirations a caller may pick |
| `Cancellers` | timers whose caller calls `Stop` after `AfterFunc` returns |
| `CallsStop` | whether a user calls `TimeWheel.Stop` (at any point) |
| `MaxTime` | bounds the clock |

### State

* A bucket is the pair `<<level, slot>>`.
* `levels` is the number of levels created so far. The overflow pointer is modelled as this counter, and the CAS makes it grow by at most one.
* `currentTime[l]` is level `l`'s clock.
* `expiration[b]` is a bucket's expiration, with -1 for unset.
* `timers[b]` is the bucket's list, as a sequence of elements `<<t, n>>`. Here `n` is the timer's add count, so that a stale element (one `Stop` detached from its timer) stays distinct from the timer's current one.
* `bucketOf[t]` and `element[t]` model the timer's atomic bucket pointer and its `element` field.
* `queue` is the DelayQueue, as a function from queued buckets to expirations.
* `polled` is the bucket sent on `C` and not yet received.
* Per-actor program counters split each handler at the points where another actor can act:
  * `dpc`, `flushing`, `cursor` and `reinserting` belong to the dispatch loop and `Flush`.
  * `cpc`, `clevel` and `cread` belong to a caller inside `add`.
  * `sb` holds the bucket `Stop` loaded.
* `runs[t]` counts task launches. `stopped[t]` is `Stop`'s result.
* `wstate` is `TimeWheel.Stop`'s progress: not called, waiting, returned. `ppc` is the poll loop's, and `dpc` has an `exited` value for the dispatch loop. `Init` is the wheel after `New` and `Start`.

### Actions and the code they model

| Action | Code |
|---|---|
| `TimePasses` | the wall clock read by `Poll` |
| `Poll` | DelayQueue.Poll: send a due bucket of least expiration on `C` and drop its entry |
| `DispatchReceive` | `Start`'s `case b := <-tw.queue.C` (`recvd`), which calls `advanceClock(b.expiration)` |
| `DispatchAdvance` | `advanceClock`, one level per step (`alevel`, `aexp`): the load, test (`Advances`) and store of that level's `currentTime`, then the `overflowWheel` load of the next step; when it stops, `Flush`'s `Lock` and `Front` |
| `FlushNext`, `FlushCheck` | `next := e.Next()` (`NextOf`), then `remove`'s load of `t.getBucket()` and its ownership test |
| `FlushListRemove`, `FlushSetNil`, `FlushClearElem` | `remove`'s three writes, one step each: `b.timers.Remove(t.element)` (which panics when a concurrent `Stop` already set `element` to nil; `dpc` becomes `panicked`), `setBucket(nil)`, `element = nil` |
| `FlushReinsert` | `reinsert(t)`: `addOrRun`'s placement (`Placement`), or `Spawn` of the task; for a placement, `b.Add`'s `Lock` and `PushBack`. It is disabled when the target bucket is the one being flushed, because `b.Add` would block on the mutex `Flush` holds. |
| `FlushSetElem`, `FlushSetBucket` | the rest of `b.Add` under the target's mutex: `t.element = elem`, `setBucket(b)`, `Unlock` |
| `FlushSwap`, `FlushOffer` | `add`'s `SetExpiration` (the atomic swap, `Changed`) and, when it changed, `Offer(b, b.Expiration())`, which re-reads the expiration |
| `FlushEnd` | `SetExpiration(-1)` and `Unlock` |
| `AfterFunc`, `CallerAdd`, `CallerOverflow`, `CallerPlace`, `CallerSetExpiration`, `CallerOffer` | `AfterFunc` and `add`, split at the atomic load of `currentTime` (line 122), the overflow CAS (141-151), `bucket.Add` (its mutex, hence `SF`; enabled only for a bucket not in `Held`, the mutexes the dispatch goroutine holds), the swap of `SetExpiration` (135) and `Offer` with its re-read of `b.expiration` (136) |
| `WheelStop`, `PollExit`, `DispatchStop`, `WheelWaitReturns` | `TimeWheel.Stop`'s `close(tw.stop)`; `Poll` returning on the closed stop (from the spec, since DelayQueue is not in the repository), which drops a bucket it was sending on `C`; the dispatch loop's `case <-tw.stop: return`, taken only at the select, which may also pick `C`; `Wait` returning after both `Done`s |
| `StopLoad`, `StopCheck`, `StopRemove`, `StopSetNil`, `StopClearElem`, `StopPanic` | `timer.Stop`'s loop: `getBucket`, then `remove`'s check, then `list.Remove(t.element)`, `setBucket(nil)` and `element = nil` as three steps, since `Stop` holds no lock. `StopPanic` is `list.Remove(nil)` after a concurrent `Flush` cleared `element`. |

A Go panic ends the program: `Crashed` holds once the dispatch loop or a caller is at `panicked`, `Next` is disabled from then on, and every fairness conjunct is guarded by `~Crashed`.

### Timing-wheel runs

All runs use `MaxLevels = 2` and two timers `t1`, `t2`. `CHECK_DEADLOCK FALSE` is set because the model stops at `MaxTime` by design: the real wheel idles forever once no timers are left.

| Run | Expect | Checks | What it shows |
|---|---|---|---|
| `wheel_core` | pass | `TypeOK`, `NoStrandedTimer`, `EveryTimerFires`, `WheelStopReturns` | See below. |
| `wheel_cancel` | pass | `StopReturns` | With `t1` a canceller and `t2` keeping the dispatch loop flushing, `Stop`'s retry loop returns, or the program has crashed, whatever `Flush` does to the timer between its steps. |
| `stale_self_deadlock` | violation | `NoSelfDeadlock` | `Flush` re-adds a timer into the bucket it holds locked, and the dispatch loop blocks forever. |

`wheel_core` is checked with expirations spanning less than one base interval, the regime in which the code is correct. Under callers racing the poll and dispatch loops:

* no timer sits in a bucket that neither the queue, nor `C`, nor a running `Flush` will reach before it is due;
* every non-cancelled timer eventually fires, including those that start on the overflow level and move down, unless the wheel is stopped first;
* `TimeWheel.Stop` returns, whatever the loops were doing when `stop` closed.

`wheel_core` lets the user call `TimeWheel.Stop` at any point, including before, during and after `AfterFunc` calls and `Flush`es. `NoStrandedTimer` is stated for a running wheel, since `Stop` abandons every queued bucket. `AfterFunc` after `Stop` still runs a due task on its own goroutine and places any other timer in a bucket no loop will flush; the code promises nothing for this case, and `EveryTimerFires` names it as its exception. `WheelStopReturns` depends on `Poll` giving up a send on `C` when `stop` closes: the mutant `PollExitWhenIdle`, a `Poll` that returns only while waiting, leaves `Stop` blocked once the dispatch loop has taken the stop case.

The same races also have further effects:
* `Stop` can report true for a task that still runs.
* A `Stop` in `Flush`'s window between remove and re-add can report false for a timer that later fires.
* `Stop` can call `list.Remove(nil)` after a concurrent `Flush` cleared `t.element`. This is the `StopPanic` step, which `wheel_cancel` reaches. `hazards` in `PROJECT.json` records these next to the lines they come from.

The finding in `PROJECT.json` explains the violation against the code line. Further violations were found by TLC in instances of the same model that are not kept as runs. Under `wheel_cancel.cfg` (one canceller), `RunsAtMostOnce` fails: `Stop` loads the bucket `Flush` is emptying, `Flush` re-adds the timer elsewhere, and `Stop`'s `list.Remove` on the old list is a no-op while its `setBucket(nil)` disowns the element left in the new list, which every later `Flush` of that list then runs again. The same instance reaches the dispatch goroutine's `list.Remove(nil)`: `Flush` passes its ownership check, and `Stop` completes its `remove` before `Flush`'s `list.Remove`. With the stale-state bounds, `FiresWithinTick` fails because an overflow level's coarse tick runs a timer early. Those instances are not kept as runs, to leave room for the LinkBuffer. The hazards at `bucket.go:101`, `bucket.go:51` and `part_004:122` record the traces.

### Bounds

* `WheelSize = 3` with `Expirations = {2,3,4}` puts every expiration on both levels as time passes (interval 3 at level 0, 9 at level 1). It exercises the overflow CAS and the re-add from level 1 to level 0.
* The stale-state run uses `WheelSize = 2` and `Expirations = {1,2,3}`, where expirations can reach past one interval from a stale clock.
* `MaxTime = 4..5` covers every expiration plus one tick.
* `AddBound` caps re-adds at `2*MaxLevels+2`. A timer is re-added at most once per level in a correct run, so the cap only cuts off behaviours beyond the ones the code produces.
* Two timers suffice for every race found, because each race involves one caller and the dispatch loop. A third timer took several minutes with liveness checking. `wheel_cancel` has one canceller; with both timers cancellers the run took about seven minutes, and every race of `Stop` involves only one `Stop` and `Flush`.

### Fairness

* `WF` on `TimePasses` (the clock advances), on `Poll` and on the dispatch actions. These are the two goroutines `Start` launches via `Wrap`, and they loop forever.
* `WF` on each caller's and each `Stop`'s steps, since goroutines are scheduled.
* Calling `TimeWheel.Stop` is the user's choice and is not fair. Once `stop` is closed, `PollExit` and `DispatchStop` are steps of the two loops (inside their `WF`), and `WheelWaitReturns` is `WF`.
* `SF` on `CallerPlace`, because `bucket.Add` waits on the bucket's mutex. Go's `sync.Mutex` enters starvation mode after 1ms, so a waiter that is repeatedly enabled eventually gets the lock.

## The LRU cache

`LRUCache.tla` models `src/cache/lru.go` for two concurrent clients. `LRUSpec.tla` is the abstract cache it is checked against.

Every exported method takes the cache's `sync.Mutex`, so `Get`, `BatchGet` and `Remove` are single steps (`Get`, `BatchGet`, `RemoveKeys`). `Put` is split at its removal of the old entry, at each eviction and at its store. These are the points where the mutex matters (line 65) and where an unlocked reader would see a partial `Put`:

| Action | Code |
|---|---|
| `PutLock` | `cache.Lock()` (63) |
| `PutRemove` | `cache.Remove(key)` (65) and `ensureCapacity`'s `mustRemove` (55) |
| `PutEvict` | one turn of the eviction loop: remove `Back()`, subtract its size (56-60) |
| `PutPanic` | `Back()` is nil on an empty list and `.Value` panics (57); the deferred `Unlock` runs while the panic unwinds. Nothing in the package recovers, so the panic ends the program: `Crashed` disables `Next` and the fairness conjuncts. |
| `PutStore` | `record`, `items[key] = cached`, `size += item.Size()`, `Unlock` (68-72) |

State:
* `keyList` is the list of keys, front first. A list element is identified with its key, since the list holds each key at most once.
* `items`, `size` and `lock` are the cache's fields and mutex.
* `pc`, `arg` and `must` are the per-client position inside `Put`.
* `got` is each client's last result.
* `snap` is the cache as `Put` found it when it took the mutex. It is used only by the refinement mapping.

**Line 65 calls the exported `Remove`, which locks the mutex `Put` already holds.** The constant `PutRemoveLocks` chooses how that line is modelled:
* `TRUE` models it as written, and the first `Put` deadlocks, waiting for the mutex its own client holds. Any test that calls `Put` shows this, so no run states it; the hazard at `lru.go:65` records it.
* `FALSE` runs it as the unexported `remove`. The rest of `Put` is checked under that reading.

The file does not compile as given, because `cached` and `Item` are not defined in package `cache`. The model takes `setElementIfNotNil` to store the element that `record` returns, and `Item.Size()` to be a fixed size per item (`ItemSize`).

**Refinement.** `LRU == INSTANCE LRUSpec WITH store <- ..., recency <- ...` maps the cache to `snap` while a `Put` holds the mutex, and to the live fields otherwise. `Put` therefore takes effect at `PutStore`. `LRUSpec!Store` keeps the longest prefix of the recency order that fits beside the new item. An item that cannot fit even alone is never stored, and the panicking `Put` maps to `Drop` of everything it evicted.

| Run | Expect | Checks | What it shows |
|---|---|---|---|
| `lru_core` | pass | `TypeOK`, `CacheConsistent`, `WithinCapacity`, `RefinesLRU` | See below. |

Under `lru_core`, whenever the mutex is free:
* `keyList`, `items` and `size` agree;
* the cache is within its capacity.

The cache implements `LRUSpec`: the eviction order is least-recently-used, counting `Get` and `BatchGet` as uses. `lru_core` includes an item of size 4 beside capacity 3. A `Put` of it empties the cache and then panics at line 57. The run checks that the cache state at the panic is consistent and is what `LRUSpec` allows. That is the state a caller that recovers from the panic would go on to use.

Bounds and fairness:
* Three keys, item sizes 1, 2 and 4, capacity 3, two clients and four operations. These give evictions of one and of two keys, a `Put` replacing a cached key, and a `Put` that cannot fit.
* `Spec` keeps `WF` on the steps of a `Put` that holds the mutex, since the holder is a running goroutine. No run checks a liveness property of the cache under the unexported-`remove` reading, because a `Put` that returns there is not the code's `Put`.
* Clients are not required to start operations.

## The hash map

`HashMap.tla` models `src/hashmap/hashmap.go`. `MapSpec.tla` is the abstract map it is checked against.

The map takes no lock, so `Set` and `Get` are single steps. They are built from operators named after the unexported code:
* `RoundUp`: `roundUp`, as a fold of `x | x >> s`;
* `HashFor` and `Mask`: `hashFor`;
* `Probe` and `Find`: `find`'s linear probe, recursive;
* `SetItem`: `buckets.set`;
* `Rebuild`: `rebuild`, a fold over the old slots into a table of `roundUp(len+1)`;
* `NeedsRebuild`: the load-factor test, `float64(count+1)/float64(len) > 0.65`.

The load-factor test is exact in integers: `20*(count+1) > 13*len`, because no power-of-two `len` makes the two sides equal.

`uint64` arithmetic is kept at `Width = 8` bits. This includes the wrap of `len-1` at an empty table. `HashCode` is `hashcode(k) mod 256` for the keys used, computed from the code's xorshift-multiply. Keys 4 and 5 share a home slot at every table size, so probing and wrap-around happen.

`Get` reports `"panic"` when the probe indexes past the table, and `"spin"` when it would loop forever on a full table.

| Run | Expect | Checks | What it shows |
|---|---|---|---|
| `hash_core` | pass | `TypeOK`, `FindTerminates`, `TableSizedByRoundUp`, `RefinesMap` | See below. |

`hash_core` uses hints 0, 1, 2, 3 and 5 and up to seven `Set`s, so tables of 1 to 16 slots are rebuilt several times. It checks that:
* every table has the length the reference `RefRoundUp` gives;
* the load factor keeps a free slot, so `find` stops;
* every `Get`, through every probe and rebuild, returns the last value `Set` for the key.

`Set` increments `count` on an overwrite, so repeated `Set`s of one key rebuild the table to sizes its keys never need. `TableNoLargerThanNeeded` states the opposite and is kept in `HashMap.tla`, but no run checks it; the hazard is listed.

A hint above 2^63 makes `roundUp` wrap to 0, and the first `Get` on the resulting empty table indexes out of range. This is recorded as a hazard: it needs a hint outside every configuration here.

## The linked-list byte buffer

`LinkedBuffer.tla` models `src/llb/buffer.go`. `ByteStream.tla` is the abstract byte stream it is checked against.

The buffer has no lock, so each exported method is one step. Its loops over `pop` and `pushFront` are recursive operators:

| Operator | Code |
|---|---|
| `ReadLoop` | `Read`'s loop |
| `DiscardLoop` | `Discard`'s loop |
| `PeekFrom` | `Peek`'s loop |
| `Drain` | `Reset`'s loop |

The list is a heap of node ids with `next` and `buf` functions, together with `head`, `tail`, `size` and `bytes`. Bytes are the model values `x` and `y`. A node that leaves the list has its slice returned to `bsPool`, and its fields are cleared (`Release`).

**Refinement.** `Stream == INSTANCE ByteStream WITH content <- Contents, peeked <- FlattenSeq(llb.bs)`. `Contents` is the bytes of the chain, head first.

| Run | Expect | Checks | What it shows |
|---|---|---|---|
| `llb_core` | pass | `WellFormed`, `RefinesStream` | See below. |

The run covers every sequence of pushes at both ends, partial reads, discards (including `n <= 0`), peeks (including `maxBytes <= 0`) and resets. Throughout:
* the chain from `head` ends at `tail` with no node twice;
* no node holds an empty slice;
* `size` and `bytes` count the chain.

The buffer implements a byte stream: `Read` and `Discard` take exactly the front bytes they report, and `Peek` shows a long enough prefix.

Bounds and deadlock:
* Up to 3 bytes are buffered, in at most 3 nodes. Slices are of length 0 to 2, and reads of 0, 1, 2 and 4. These give partial reads of a node, reads across nodes, and requests larger than the buffer.
* Four bytes in four nodes ran past ten minutes.
* The buffer never blocks, and `Ask` is always enabled, so deadlock is checked and never occurs.

## The B+ tree nodes

`BPlusTree.tla` models `src/btree/plus/node.go`. `OrderedSet.tla` is the abstract ordered set it is checked against.

The tree is a heap: a sequence of node records `[leaf, keys, kids, ptr]`, where a node's id is its position. A split appends the node it allocates. `root` is the tree's root and `found` is the key the last find's iterator yields first. The operators are named after the code:

| Operator | Code |
|---|---|
| `ChildFor` | the child an inode descends to (109-121, also 93-104) |
| `LeafInsert` | `lnode.insert` |
| `NeedsSplit` | `needsSplit` |
| `LeafSplit` | `lnode.split` |
| `InodeSplit` | `inode.split`, with `nodes.splitAt` |
| `Split` | `split`, including the repointing of the leaf before the new left node |
| `InsertInto` | `inode.insert`, recursive |
| `LeafFind` | `lnode.find` |
| `FindFrom` | `inode.find`, recursive |

Go's 0-based slice indices are written `i+1`, and `keys.insertAt`/`nodes.insertAt` are `InsertAt` of `SequencesExt`.

Several pieces are not in the repository:
* the `btree` type (its root and `nodeSize`);
* `keySearch`;
* the `Key` interface;
* the iterator.

They are modelled from how `node.go` uses them, and marked `spec_modelled` in the map:
* `keySearch` returns the index of the first key not before the one sought.
* `a.Compare(b)` is 1 when `b` comes after `a`.
* The tree's insert calls `root.insert` and then `split(tree, nil, root)`.
* An iterator's first value is the key after its index.

| Run | Expect | Checks | What it shows |
|---|---|---|---|
| `bptree_core` | pass | `BalancedSearchTree`, `LeafChainInOrder`, `RefinesOrderedSet` | Six keys are inserted in every order, with finds between. Leaf splits, root splits of a leaf and of an inode all happen. The tree stays balanced and ordered, its leaves are chained in order, and find yields the least stored key not before the one sought. |
| `bptree_leaf_chain` | violation | `LeafChainInOrder` | With seven keys, a leaf that is the first child of an inode splits. The last leaf of the inode to its left keeps pointing at the old node, now the right half, so the chain skips the new left half. An iterator that walks the leaves misses its keys. |

`nodeSize` is 3, the smallest value for which `inode.split` does anything. For fewer than 3 keys it returns nils, which is listed as a hazard.

The bug needs a tree of depth three, whose first level has split. Six keys cannot reach that shape, and seven can. With up to eight keys, find still returns the right key: a wrong answer also needs a key that is missing and lies between the stale leaf and the root separator. `bptree_core`'s six keys are thus the largest instance in which the whole node protocol is checked to be correct.

## The B-tree

`BTree.tla` models the B-tree of `src/unnamed/part_002`, and `KeySet.tla` is the contract of its `BTree` interface (lines 43-52). The tree takes no lock, so each call is one step. A node is a record `[items, kids]` and the tree is a nested value: nodes are never shared, so no heap is needed. Go's 0-based indices are kept, and a sequence is indexed at `i + 1`.

| Code | Model |
|---|---|
| `items.find` | `Find`, the count of items not above the key |
| `node.split`, `maybeSplitChild`, `node.insert` | `Split`, `MaybeSplitChild`, `Insert` (recursive) |
| `growChildAndRemove`: steal from the left, steal from the right, merge | `StealLeft`, `StealRight`, `Merge`, chosen by `GrowChild` |
| `growChildAndRemoveMax` and `removeMax` | `GrowLastChild`, `RemoveMax` |
| `node.remove` | `RemoveFrom` (named so because `SequencesExt` defines `Remove`) |
| `node.get` | `GetFrom` |
| `tree.ReplaceOrInsert`, `Delete`, `Get` | the actions, with the root split of `ReplaceOrInsert` |

**`Delete` on an empty tree dereferences the nil root and panics.** The model sets `ret` to `Panic`, and no call runs after it (`Running`). This is why `btree_core` does not check deadlock. The refinement sees the panicking call as returning nil; the panic is listed as a hazard.

| Run | Expect | Checks | What it shows |
|---|---|---|---|
| `btree_core` | pass | `IsBTree`, `RefinesKeySet` | After every call the tree is balanced and ordered, and every node but the root holds `MinCap` to `MaxCap` items. Every call returns what `KeySet` says and leaves the items it says. |

Bounds: degree 2 (`MaxCap` 3, `MinCap` 1) and ten keys, giving 48,500 states. Ten keys are the fewest for which `removeMax` must grow the last child of an inode first (`GrowLastChild`). They also give a tree of height two whose deletes steal and merge at both levels. Eleven keys, and degree 3 with twelve keys, were also checked with the same result.

## The bitmap array

`BitmapArray.tla` models `Bitmap` and `BitmapArray` of `src/unnamed/part_008`, and `BitSet.tla` is what a bit array promises: a set of positions below its capacity. The array takes no lock, so each method is one step.
* A word has `Width` bits instead of 64. The block size and the mask constant follow it.
* `Bitmap.Count`'s six steps are kept, with their masks (`StepMask`) cut to `Width` bits. `BitCount` folds over them.
* `getIndexAndRemainder` is not in the repository. `IndexAndRemainder` is modelled from its use: the block and the bit of a position.
* Every call records `<<call, argument, result>>` in `out`, so the refinement compares results call by call.

| Run | Expect | Checks | What it shows |
|---|---|---|---|
| `bitmap_clear` | violation | `RefinesBitSet` | `BitmapArray.Clear` (line 129) calls `ba.blocks[idx].Clear(bit)`, which returns the cleared word, and drops it. `Set(0)` followed by `Clear(0)` leaves bit 0 set, and `Has(0)` still holds. |

With `Width` 4, a size of 6 (two blocks, one partial) and positions 0, 3, 5 and 8, every branch of `Set` is reached, including the out-of-range error. Even with the cleared word stored, `Clear` leaves `empty` false and `lowest`/`highest` unchanged, so `Empty` would still report a non-empty array; this is listed as a hazard.

## The LinkBuffer

`LinkBuffer.tla` models the `LinkBuffer` of `src/unnamed/part_005`. `LinkStream.tla` is the contract of its `Reader` and `Writer` interfaces (lines 56-230).
* **Writer contract.** Malloc'd and written bytes stay pending (`MallocLen`). `MallocAck(n)` keeps the first `n` of them. `Flush` makes them readable (`Len`).
* **Reader contract.** `Next`, `ReadBinary`, `ReadString`, `ReadByte` and `Skip` consume the oldest readable bytes, `Peek` shows them, and each fails when too few are readable.

**State.** The buffer is one record `b`, with a node heap `nd`, the `pool` of free node ids (the `sync.Pool`), the four pointers `head`, `read`, `flush` and `write`, and `length`, `msize` and `closed`.
* A node is `[mem, len, off, malloc, readonly, next]`:
  * `mem` is its array, with `cap(buf)` entries;
  * `len` is `len(buf)`;
  * `off` and `malloc` are the read and write offsets.
* `newLinkBufferNode` takes the least free id.
* The k-th byte written is the value k, so the refinement sees the order of the bytes.
* `out` records `<<call, argument, result>>` of the last call.

**Steps.** The buffer takes no lock, so each method is one step, and each of its loops is a recursive operator:

| Operator | Code |
|---|---|
| `Growth` | `growth` |
| `AckLoop`, `Discard` | `MallocAck`'s two loops |
| `Submit` | `Flush`'s loop |
| `SkipEmpty`, `ReadLoop` | `isSingleNode`, and the copy loop of `readBinary`/`Next`/`ReadByte` |
| `PeekFrom` | `Peek`'s loop |
| `SkipLoop` | `Skip`'s loop |
| `PassEmpty`, `FreeToRead` | `Release`'s two loops |
| `FreeFrom` | `Close`'s loop |

The caller's fill of the slice `Malloc` returns is folded into `Malloc`.

**Refinement.** `Stream == INSTANCE LinkStream WITH rd <- Readable(b), pend <- Pending(b), closed <- b.closed`. `Readable` is the bytes from `read` to `flush` (`off` to `len` of each node). `Pending` is the bytes from `flush` to `write` (`len` to `malloc`).

**Ending the buffer's use.** `MallocAck(n)` with `n` above the pending bytes walks `write` off the chain and dereferences nil. The model records `Panic`, and the contract states it the same way. No call runs after a panic or after `Close` (`Running`), so deadlock is not checked.

| Run | Expect | Checks | What it shows |
|---|---|---|---|
| `linkbuf_core` | pass | `TypeOK`, `ChainOrdered`, `RefinesLinkStream` | Every sequence of calls keeps the chain from `head` acyclic, with `read`, `flush` and `write` on it in that order and none of its nodes in the pool. Every call returns what `LinkStream` says, and `Len` and `MallocLen` count the chain's bytes. |
| `linkbuf_ack_zero` | violation | `RefinesLinkStream` | `MallocAck(0)` after a `Malloc` into the flush node keeps the allocated byte, and the next `Flush` publishes it. The loop `for ack := n; ack > 0` (line 516) never runs, so `flush.malloc` is not reset. |

**Bounds.** The code's size ratios are kept: `LinkBufferCap` (also `BinaryInplaceThreshold`) is 1 and `pagesize` is 2.
* Writes of 1 to 3 bytes reach all three cases: a write that fits, `growth` linking a new node, and `WriteBinary`'s readonly node for a slice above the threshold.
* The run also covers a write node above a page, for which `Flush` links an empty node.
* Up to 4 bytes are written, and the pool holds 5 nodes (129,842 states, about a minute).
* Acks of 1 and 2 include one past the pending bytes. Reads of 1 to 3 cross node boundaries and exceed the length.
* `CanAllocate` bounds the real, unbounded pool: a method that may take a node runs only while one of the 5 is free.
* `linkbuf_ack_zero` changes only `AckSizes` to `{0}`.

## What is not modelled, and the plan

* **`Start` is taken to have run** before any call, and only once: `AfterFunc` before `Start`, and a second `Start`, are not modelled. A second `Stop` panics on closing a closed channel and is left out.
* **The task's goroutine is left out** (beyond counting runs), and so are millisecond conversions. Expirations are abstract integers on the tick grid.
* **An abstract `TimerService`** (a set of pending timers, each run once at or after its expiration, cancellation returns whether it was pending) is planned. `TimingWheel` would be shown to refine it through `INSTANCE ... WITH` on the configurations where the code is correct.
* **`bsPool` is not modelled.** Its type, `Pool`, is not in the repository. The slices `Peek` returns alias node buffers that go back to the pool, so they may change under the caller once a later push reuses them. This is recorded as a hazard without a property.
* **`LRUCache.Size()` is left out.** It changes nothing: it reads `cache.size` without the mutex while `Put` updates it in two steps (lines 65 and 71). That data race is listed as a hazard. Go's race detector reports it in any concurrent test.
* **`HashMap` is not safe for concurrent use** and takes no lock, so it is modelled for one client.
* **The other components are planned, one module each:**
  * the bit arrays of `part_006` and `part_007`;
  * batcher.
* **Parts of `LinkBuffer` are not modelled.**
  * `Slice` and `Refer`, with the reference counts they raise. Every node's `refer` is 1, so `Release` always frees it.
  * `WriteBuffer`, `Append` and `WriteDirect`, which splice another buffer's nodes or a slice into the chain.
  * `Until`/`indexByte`, `GetBytes`, and the `book`/`bookAck`/`calcMaxSize`/`resetTail` path used by a connection's reader.
  * `WriteString` is `WriteBinary` on a string and adds nothing.
  * The `caches` that `Next` allocates only hold memory.
  * A concurrent reader and writer is not interleaved (see the LinkBuffer section).
* Tests (`*_test.go`, `part_000`, `part_001`, `part_003`, `part_009`) are not modelled; they are used to choose scenarios.
