----------------------------- MODULE TimingWheel -----------------------------
(***************************************************************************)
(* The hierarchical timing wheel of src/timewheel: TimeWheel levels        *)
(* (unnamed/part_004), bucket and timer (timewheel/bucket.go), driven by   *)
(* the poll loop and the dispatch loop started by TimeWheel.Start, and     *)
(* used concurrently by callers of AfterFunc and timer.Stop.               *)
(*                                                                         *)
(* One process per goroutine of the code:                                  *)
(*  - the poll loop: DelayQueue.Poll hands a due bucket to channel C;      *)
(*  - the dispatch loop: advanceClock then bucket.Flush(addOrRun), one     *)
(*    step per statement group of the Flush loop;                          *)
(*  - one caller per timer: AfterFunc walks the levels in `add` (each      *)
(*    level's currentTime is an atomic load that can be stale by the time  *)
(*    the timer is put in its bucket), then, for timers in Cancellers,     *)
(*    the same goroutine calls timer.Stop.                                 *)
(* The DelayQueue itself is not in the repository; it is modelled from the *)
(* contract of spec.md section 4.5: entries keyed by bucket, re-offering   *)
(* reprioritises, Poll delivers a due entry of least expiration.           *)
(***************************************************************************)
EXTENDS Integers, Sequences, FiniteSets, TLC

CONSTANTS
  Tick,         \* tickMs of the base level
  WheelSize,    \* wheelSize: slots per level
  MaxLevels,    \* number of levels the overflow chain may reach
  Timers,       \* timers created by AfterFunc (one caller goroutine each)
  Expirations,  \* absolute expirations now+d a caller may ask for
  Cancellers,   \* timers whose caller calls Stop on the returned handle
  CallsStop,    \* whether a user goroutine calls TimeWheel.Stop
  MaxTime       \* real time stops advancing here

ASSUME Tick \in Nat \ {0} /\ WheelSize \in Nat \ {0} /\ MaxLevels \in Nat \ {0}
ASSUME Cancellers \subseteq Timers /\ CallsStop \in BOOLEAN
ASSUME Expirations \subseteq Nat /\ MaxTime \in Nat

LevelIds == 0 .. MaxLevels - 1

\* tick and interval of level l: newTimeWheel(tw.interval, tw.size, ...)
LevelTick(l) == Tick * (WheelSize ^ l)
Interval(l) == LevelTick(l) * WheelSize

\* Level MaxLevels-1 covers every expiration, so `add` never needs more.
ASSUME \A e \in Expirations : e < Interval(MaxLevels - 1)

Slots == 0 .. WheelSize - 1
Buckets == LevelIds \X Slots
NoBucket == <<-1, -1>>
\* A list element of container/list: the timer it holds and which Add made it.
Elements == Timers \X Nat
NoElem == <<>>

VARIABLES
  now,          \* time.Now().UnixMilli()
  levels,       \* number of levels created: base plus overflowWheel chain
  currentTime,  \* currentTime of each level (atomic)
  expiration,   \* bucket.expiration (atomic), -1 when unset
  timers,       \* bucket.timers, the container/list of each bucket
  queue,        \* DelayQueue: bucket -> expiration it is queued at
  polled,       \* bucket the poll loop is sending on C, or NoBucket
  dpc,          \* dispatch loop: "recv", "advance", "next" (Flush loop head),
                \* "reinsert", "exited"
  recvd,        \* bucket received from C, or NoBucket
  alevel,       \* level advanceClock is at
  aexp,         \* advanceClock's expiration argument at that level
  flushing,     \* bucket whose Flush holds b.mu, or NoBucket
  cursor,       \* Flush's e
  reinserting,  \* timer Flush passes to reinsert
  texp,         \* timer.expiration
  bucketOf,     \* timer.bucket (atomic pointer)
  element,      \* timer.element
  adds,         \* Adds of each timer so far, names its list elements
  runs,         \* tasks started by `go t.task()`
  cpc,          \* caller goroutine of each timer
  clevel,       \* level whose `add` the caller is in
  cread,        \* currentTime the caller loaded at that level
  sb,           \* Stop's loop variable b
  stopped,      \* Stop's named result
  wstate,       \* TimeWheel.Stop: "running" (not called), "wait", "returned"
  ppc,          \* poll loop: "poll", or "exited" once Poll has returned
  rbucket       \* bucket Flush's reinsert is adding the timer to

vars == <<now, levels, currentTime, expiration, timers, queue, polled, dpc,
          recvd, alevel, aexp, flushing, cursor, reinserting, texp, bucketOf,
          element, adds, runs, cpc, clevel, cread, sb, stopped, wstate, ppc,
          rbucket>>

-----------------------------------------------------------------------------
(* Helpers *)

\* Mutant: rounds to the multiple of m strictly below x.
TruncateBelow(x, m) == ((x - 1) \div m) * m

\* truncate(x, m): x - x%m for m > 0
Truncate(x, m) == x - (x % m)

\* virtualID := t.expiration / tw.tick, the bucket tw.buckets[virtualID%size]
VirtualID(e, l) == e \div LevelTick(l)
SlotBucket(e, l) == <<l, VirtualID(e, l) % WheelSize>>
SlotStart(e, l) == VirtualID(e, l) * LevelTick(l)

ListHas(b, e) == \E i \in 1 .. Len(timers[b]) : timers[b][i] = e
ListRemove(s, e) == SelectSeq(s, LAMBDA x : x # e)
\* e.Next(): nil once e has left its list
NextOf(b, e) ==
  LET i == CHOOSE j \in 1 .. Len(timers[b]) : timers[b][j] = e
  IN IF ListHas(b, e) /\ i < Len(timers[b]) THEN timers[b][i + 1] ELSE NoElem

\* Mutant: advanceClock tests expiration > currentTime+tick (off by one).
AdvancesStrict(l, e) == l < levels /\ e > currentTime[l] + LevelTick(l)

\* advanceClock at level l: the level exists (the overflowWheel pointer its
\* parent loaded is non-nil) and the expiration is a full tick ahead.
Advances(l, e) == l < levels /\ e >= currentTime[l] + LevelTick(l)

\* The currentTime `add` sees at level l when it runs without interruption:
\* an overflow level not yet created is built from its parent's time.
RECURSIVE LevelClock(_)
LevelClock(l) ==
  IF l < levels THEN currentTime[l]
  ELSE Truncate(LevelClock(l - 1), LevelTick(l))

\* tw.add(t) from level l: -1 means "not added, run it", otherwise the level
\* whose bucket receives the timer.
RECURSIVE Placement(_, _)
Placement(e, l) ==
  IF e < LevelClock(l) + LevelTick(l) THEN -1
  ELSE IF e < LevelClock(l) + Interval(l) THEN l
  ELSE Placement(e, l + 1)

\* bucket.Add(t) by a caller: PushBack, t.element = elem, t.setBucket(b).
\* Only the caller's own goroutine touches t while it adds, so the three
\* writes are one step.
BucketAdd(t, b) ==
  LET e == <<t, adds[t] + 1>>
  IN /\ timers' = [timers EXCEPT ![b] = Append(@, e)]
     /\ element' = [element EXCEPT ![t] = e]
     /\ bucketOf' = [bucketOf EXCEPT ![t] = b]
     /\ adds' = [adds EXCEPT ![t] = @ + 1]

\* Mutant: SetExpiration's result inverted (Swap(...) == expiration).
ChangedInverted(b, x) == expiration[b] = x

\* b.SetExpiration(x): atomic.SwapInt64 returns the old value; the result
\* is whether it differed from x.
Changed(b, x) == expiration[b] # x

\* tw.queue.Offer(b, x): insert b, or move it to expiration x.
Offer(b, x) ==
  queue' = [c \in DOMAIN queue \cup {b} |-> IF c = b THEN x ELSE queue[c]]

Spawn(t) == runs' = [runs EXCEPT ![t] = @ + 1]

\* What the caller goroutine does once AfterFunc has returned the handle.
Returned(t) == IF t \in Cancellers THEN "stopload" ELSE "done"

-----------------------------------------------------------------------------
Init ==
  /\ now = 0
  /\ levels = 1
  /\ currentTime = [l \in LevelIds |-> 0]
  /\ expiration = [b \in Buckets |-> -1]
  /\ timers = [b \in Buckets |-> <<>>]
  /\ queue = [b \in {} |-> 0]
  /\ polled = NoBucket
  /\ dpc = "recv"
  /\ recvd = NoBucket
  /\ alevel = 0
  /\ aexp = 0
  /\ flushing = NoBucket
  /\ cursor = NoElem
  /\ reinserting = CHOOSE t \in Timers : TRUE
  /\ texp = [t \in Timers |-> -1]
  /\ bucketOf = [t \in Timers |-> NoBucket]
  /\ element = [t \in Timers |-> NoElem]
  /\ adds = [t \in Timers |-> 0]
  /\ runs = [t \in Timers |-> 0]
  /\ cpc = [t \in Timers |-> "idle"]
  /\ clevel = [t \in Timers |-> 0]
  /\ cread = [t \in Timers |-> 0]
  /\ sb = [t \in Timers |-> NoBucket]
  /\ stopped = [t \in Timers |-> FALSE]
  /\ wstate = "running"
  /\ ppc = "poll"
  /\ rbucket = NoBucket

\* Real time passes.
TimePasses ==
  /\ now < MaxTime
  /\ now' = now + 1
  /\ UNCHANGED <<recvd, alevel, aexp, wstate, ppc, levels, currentTime,
                 expiration, timers, queue, polled, dpc, flushing, cursor,
                 reinserting, texp, bucketOf, element, adds, runs, cpc, clevel,
                 cread, sb, stopped, rbucket>>

(***************************************************************************)
(* Poll loop: DelayQueue.Poll(tw.stop, now) pops the due entry of least    *)
(* expiration and sends its bucket on the unbuffered channel C; it blocks  *)
(* on the send until the dispatch loop receives.                           *)
(***************************************************************************)
Poll ==
  /\ ppc = "poll"
  /\ polled = NoBucket
  /\ \E b \in DOMAIN queue :
       /\ queue[b] <= now
       /\ \A c \in DOMAIN queue : queue[b] <= queue[c]
       /\ polled' = b
       /\ queue' = [c \in DOMAIN queue \ {b} |-> queue[c]]
  /\ UNCHANGED <<recvd, alevel, aexp, wstate, ppc, now, levels, currentTime,
                 expiration, timers, dpc, flushing, cursor, reinserting, texp,
                 bucketOf, element, adds, runs, cpc, clevel, cread, sb,
                 stopped, rbucket>>

(***************************************************************************)
(* Dispatch loop (Start, second goroutine).                                *)
(***************************************************************************)

\* case b := <-tw.queue.C: the bucket is taken off C and advanceClock
\* starts at the base level with b.expiration.
DispatchReceive ==
  /\ dpc = "recv"
  /\ polled # NoBucket
  /\ recvd' = polled
  /\ alevel' = 0
  /\ aexp' = expiration[polled]
  /\ polled' = NoBucket
  /\ dpc' = "advance"
  /\ UNCHANGED <<wstate, ppc, now, levels, currentTime, expiration, timers,
                 queue, flushing, cursor, reinserting, texp, bucketOf, element,
                 adds, runs, cpc, clevel, cread, sb, stopped, rbucket>>

\* advanceClock, one level per step: load and store this level's
\* currentTime, then (next step) load overflowWheel and recurse with the
\* truncated time.  When it stops, b.Flush takes b.mu and starts at
\* e := b.timers.Front().
DispatchAdvance ==
  /\ dpc = "advance"
  /\ \/ /\ Advances(alevel, aexp)
        /\ currentTime' = [currentTime EXCEPT ![alevel] = Truncate(aexp, LevelTick(alevel))]
        /\ aexp' = Truncate(aexp, LevelTick(alevel))
        /\ alevel' = alevel + 1
        /\ UNCHANGED <<dpc, flushing, cursor>>
     \/ /\ ~Advances(alevel, aexp)
        /\ flushing' = recvd
        /\ cursor' = IF timers[recvd] = <<>> THEN NoElem ELSE Head(timers[recvd])
        /\ dpc' = "next"
        /\ UNCHANGED <<currentTime, alevel, aexp>>
  /\ UNCHANGED <<recvd, wstate, ppc, now, levels, expiration, timers, queue,
                 polled, reinserting, texp, bucketOf, element, adds, runs, cpc,
                 clevel, cread, sb, stopped, rbucket>>

\* Flush's loop body as the dispatch goroutine runs it, holding b.mu.
\* Stop's remove runs without b.mu, so every access to the list, to
\* t.bucket and to t.element is a step of its own.  DispatchStep(from, to)
\* moves the loop between those steps.
DispatchStep(from, to) == dpc = from /\ dpc' = to

\* next := e.Next(); t := e.Value.(*timer).
FlushNext ==
  /\ cursor # NoElem
  /\ DispatchStep("next", "check")
  /\ cursor' = NextOf(flushing, cursor)
  /\ reinserting' = cursor[1]
  /\ UNCHANGED <<recvd, alevel, aexp, wstate, ppc, now, levels, currentTime,
                 expiration, timers, queue, polled, flushing, texp, bucketOf,
                 element, adds, runs, cpc, clevel, cread, sb, stopped, rbucket>>

\* b.remove(t): if t.getBucket() != b { return false }.  reinsert(t) runs
\* either way.
FlushCheck ==
  /\ dpc = "check"
  /\ dpc' = IF bucketOf[reinserting] = flushing THEN "lremove" ELSE "reinsert"
  /\ UNCHANGED <<recvd, alevel, aexp, wstate, ppc, now, levels, currentTime,
                 expiration, timers, queue, polled, flushing, cursor,
                 reinserting, texp, bucketOf, element, adds, runs, cpc, clevel,
                 cread, sb, stopped, rbucket>>

\* b.timers.Remove(t.element): a no-op for an element of another list, and
\* a nil dereference, which ends the program, when a concurrent Stop has
\* cleared t.element.
FlushListRemove ==
  /\ dpc = "lremove"
  /\ LET t == reinserting IN
     IF element[t] = NoElem
     THEN dpc' = "panicked" /\ UNCHANGED timers
     ELSE /\ dpc' = "setnil"
          /\ timers' = [timers EXCEPT ![flushing] = ListRemove(@, element[t])]
  /\ UNCHANGED <<recvd, alevel, aexp, wstate, ppc, now, levels, currentTime,
                 expiration, queue, polled, flushing, cursor, reinserting, texp,
                 bucketOf, element, adds, runs, cpc, clevel, cread, sb, stopped,
                 rbucket>>

\* t.setBucket(nil), then t.element = nil.
FlushSetNil ==
  /\ DispatchStep("setnil", "clearelem")
  /\ bucketOf' = [bucketOf EXCEPT ![reinserting] = NoBucket]
  /\ UNCHANGED <<recvd, alevel, aexp, wstate, ppc, now, levels, currentTime,
                 expiration, timers, queue, polled, flushing, cursor,
                 reinserting, texp, element, adds, runs, cpc, clevel, cread,
                 sb, stopped, rbucket>>

FlushClearElem ==
  /\ DispatchStep("clearelem", "reinsert")
  /\ element' = [element EXCEPT ![reinserting] = NoElem]
  /\ UNCHANGED <<recvd, alevel, aexp, wstate, ppc, now, levels, currentTime,
                 expiration, timers, queue, polled, flushing, cursor,
                 reinserting, texp, bucketOf, adds, runs, cpc, clevel, cread,
                 sb, stopped, rbucket>>

\* reinsert(t), i.e. tw.addOrRun(t) from inside Flush: add's levels and
\* the overflow CAS (only this goroutine moves the clocks), then either
\* `go t.task()` or b.Add's PushBack.  Adding to the bucket being flushed
\* would block forever on b.mu (sync.Mutex is not reentrant), so that step
\* is not enabled.
FlushReinsert ==
  /\ dpc = "reinsert"
  /\ LET t == reinserting
         lv == Placement(texp[t], 0)
         b == SlotBucket(texp[t], lv)
     IN \/ /\ lv = -1
           /\ Spawn(t)
           /\ dpc' = "next"
           /\ UNCHANGED <<levels, currentTime, timers, adds, rbucket>>
        \/ /\ lv >= 0
           /\ b # flushing
           /\ timers' = [timers EXCEPT ![b] = Append(@, <<t, adds[t] + 1>>)]
           /\ adds' = [adds EXCEPT ![t] = @ + 1]
           /\ rbucket' = b
           /\ levels' = IF levels > lv THEN levels ELSE lv + 1
           /\ currentTime' = [l \in LevelIds |->
                                IF l <= lv THEN LevelClock(l) ELSE currentTime[l]]
           /\ dpc' = "setelem"
           /\ UNCHANGED runs
  /\ UNCHANGED <<recvd, alevel, aexp, wstate, ppc, now, expiration, queue,
                 polled, flushing, cursor, reinserting, texp, bucketOf, element,
                 cpc, clevel, cread, sb, stopped>>

\* b.Add's t.element = elem, then t.setBucket(b), then b.mu.Unlock().
FlushSetElem ==
  /\ DispatchStep("setelem", "setbucket")
  /\ element' = [element EXCEPT ![reinserting] = <<reinserting, adds[reinserting]>>]
  /\ UNCHANGED <<recvd, alevel, aexp, wstate, ppc, now, levels, currentTime,
                 expiration, timers, queue, polled, flushing, cursor,
                 reinserting, texp, bucketOf, adds, runs, cpc, clevel, cread,
                 sb, stopped, rbucket>>

FlushSetBucket ==
  /\ DispatchStep("setbucket", "swap")
  /\ bucketOf' = [bucketOf EXCEPT ![reinserting] = rbucket]
  /\ UNCHANGED <<recvd, alevel, aexp, wstate, ppc, now, levels, currentTime,
                 expiration, timers, queue, polled, flushing, cursor,
                 reinserting, texp, element, adds, runs, cpc, clevel, cread,
                 sb, stopped, rbucket>>

\* if b.SetExpiration(virtualID * tw.tick): the swap, and then (next step)
\* tw.queue.Offer(b, b.expiration), which reads the expiration again.
FlushSwap ==
  /\ dpc = "swap"
  /\ LET x == SlotStart(texp[reinserting], rbucket[1]) IN
     /\ expiration' = [expiration EXCEPT ![rbucket] = x]
     /\ dpc' = IF Changed(rbucket, x) THEN "offer" ELSE "next"
  /\ UNCHANGED <<recvd, alevel, aexp, wstate, ppc, now, levels, currentTime,
                 timers, queue, polled, flushing, cursor, reinserting, texp,
                 bucketOf, element, adds, runs, cpc, clevel, cread, sb, stopped,
                 rbucket>>

FlushOffer ==
  /\ DispatchStep("offer", "next")
  /\ Offer(rbucket, expiration[rbucket])
  /\ UNCHANGED <<recvd, alevel, aexp, wstate, ppc, now, levels, currentTime,
                 expiration, timers, polled, flushing, cursor, reinserting,
                 texp, bucketOf, element, adds, runs, cpc, clevel, cread, sb,
                 stopped, rbucket>>

\* e == nil: b.SetExpiration(-1); b.mu.Unlock(); back to the select.
FlushEnd ==
  /\ dpc = "next"
  /\ cursor = NoElem
  /\ expiration' = [expiration EXCEPT ![flushing] = -1]
  /\ flushing' = NoBucket
  /\ recvd' = NoBucket
  /\ dpc' = "recv"
  /\ UNCHANGED <<alevel, aexp, wstate, ppc, now, levels, currentTime, timers,
                 queue, polled, cursor, reinserting, texp, bucketOf, element,
                 adds, runs, cpc, clevel, cread, sb, stopped, rbucket>>

(***************************************************************************)
(* Callers: AfterFunc(d, f) and then, for Cancellers, Stop.                *)
(***************************************************************************)

\* t := &timer{expiration: now + d}; tw.addOrRun(t) enters add at level 0.
AfterFunc(t) ==
  /\ cpc[t] = "idle"
  /\ \E e \in Expirations :
       texp' = [texp EXCEPT ![t] = e]
  /\ cpc' = [cpc EXCEPT ![t] = "add"]
  /\ clevel' = [clevel EXCEPT ![t] = 0]
  /\ UNCHANGED <<recvd, alevel, aexp, wstate, ppc, now, levels, currentTime,
                 expiration, timers, queue, polled, dpc, flushing, cursor,
                 reinserting, bucketOf, element, adds, runs, cread, sb,
                 stopped, rbucket>>

\* add at level l: currentTime := atomic.LoadInt64(&tw.currentTime) and the
\* three-way decision on it.  Not added: addOrRun runs `go t.task()`.
CallerAdd(t) ==
  /\ cpc[t] = "add"
  /\ LET l == clevel[t]
         c == currentTime[l]
     IN \/ /\ texp[t] < c + LevelTick(l)
           /\ Spawn(t)
           /\ cpc' = [cpc EXCEPT ![t] = Returned(t)]
           /\ UNCHANGED cread
        \/ /\ c + LevelTick(l) <= texp[t]
           /\ texp[t] < c + Interval(l)
           /\ cpc' = [cpc EXCEPT ![t] = "place"]
           /\ UNCHANGED <<recvd, alevel, aexp, wstate, ppc, runs, cread>>
        \/ /\ c + Interval(l) <= texp[t]
           /\ cpc' = [cpc EXCEPT ![t] = "overflow"]
           /\ cread' = [cread EXCEPT ![t] = c]
           /\ UNCHANGED runs
  /\ UNCHANGED <<recvd, alevel, aexp, wstate, ppc, now, levels, currentTime,
                 expiration, timers, queue, polled, dpc, flushing, cursor,
                 reinserting, texp, bucketOf, element, adds, clevel, sb,
                 stopped, rbucket>>

\* Load overflowWheel; if nil, CompareAndSwap in a newTimeWheel whose
\* currentTime is truncate(loaded currentTime, interval); reload; recurse.
CallerOverflow(t) ==
  /\ cpc[t] = "overflow"
  /\ LET l == clevel[t]
     IN /\ levels' = IF levels > l + 1 THEN levels ELSE l + 2
        /\ currentTime' = IF levels > l + 1 THEN currentTime
                          ELSE [currentTime EXCEPT ![l + 1] =
                                  Truncate(cread[t], LevelTick(l + 1))]
        /\ clevel' = [clevel EXCEPT ![t] = l + 1]
  /\ cpc' = [cpc EXCEPT ![t] = "add"]
  /\ UNCHANGED <<recvd, alevel, aexp, wstate, ppc, now, expiration, timers,
                 queue, polled, dpc, flushing, cursor, reinserting, texp,
                 bucketOf, element, adds, runs, cread, sb, stopped, rbucket>>

\* The bucket mutexes the dispatch goroutine holds: the one it flushes, and
\* during reinsert's b.Add the one it adds to.
Held == {flushing} \cup IF dpc \in {"setelem", "setbucket"} THEN {rbucket} ELSE {}

\* b.Add(t) under b.mu: waits while the dispatch goroutine holds b.mu.
CallerPlace(t) ==
  /\ cpc[t] = "place"
  /\ LET b == SlotBucket(texp[t], clevel[t])
     IN /\ b \notin Held
        /\ BucketAdd(t, b)
  /\ cpc' = [cpc EXCEPT ![t] = "setexp"]
  /\ UNCHANGED <<recvd, alevel, aexp, wstate, ppc, now, levels, currentTime,
                 expiration, queue, polled, dpc, flushing, cursor, reinserting,
                 texp, runs, clevel, cread, sb, stopped, rbucket>>

\* if b.SetExpiration(virtualID * tw.tick): the swap ...
CallerSetExpiration(t) ==
  /\ cpc[t] = "setexp"
  /\ LET b == SlotBucket(texp[t], clevel[t])
         x == SlotStart(texp[t], clevel[t])
     IN /\ expiration' = [expiration EXCEPT ![b] = x]
        /\ cpc' = [cpc EXCEPT ![t] = IF Changed(b, x) THEN "offer" ELSE Returned(t)]
  /\ UNCHANGED <<recvd, alevel, aexp, wstate, ppc, now, levels, currentTime,
                 timers, queue, polled, dpc, flushing, cursor, reinserting,
                 texp, bucketOf, element, adds, runs, clevel, cread, sb,
                 stopped, rbucket>>

\* ... then tw.queue.Offer(b, b.expiration), a plain read of the
\* expiration, which a Flush or another add may have changed since.
CallerOffer(t) ==
  /\ cpc[t] = "offer"
  /\ LET b == SlotBucket(texp[t], clevel[t]) IN Offer(b, expiration[b])
  /\ cpc' = [cpc EXCEPT ![t] = Returned(t)]
  /\ UNCHANGED <<recvd, alevel, aexp, wstate, ppc, now, levels, currentTime,
                 expiration, timers, polled, dpc, flushing, cursor, reinserting,
                 texp, bucketOf, element, adds, runs, clevel, cread, sb,
                 stopped, rbucket>>

\* timer.Stop: for b := t.getBucket(); b != nil; b = t.getBucket().
StopLoad(t) ==
  /\ cpc[t] = "stopload"
  /\ \/ /\ bucketOf[t] = NoBucket
        /\ cpc' = [cpc EXCEPT ![t] = "stopped"]
        /\ UNCHANGED sb
     \/ /\ bucketOf[t] # NoBucket
        /\ sb' = [sb EXCEPT ![t] = bucketOf[t]]
        /\ cpc' = [cpc EXCEPT ![t] = "stopcheck"]
  /\ UNCHANGED <<recvd, alevel, aexp, wstate, ppc, now, levels, currentTime,
                 expiration, timers, queue, polled, dpc, flushing, cursor,
                 reinserting, texp, bucketOf, element, adds, runs, clevel,
                 cread, stopped, rbucket>>

\* Mutant: the loop retries remove on the same b without reloading
\* t.getBucket().
StopCheckNoReload(t) ==
  /\ cpc[t] = "stopcheck"
  /\ \/ /\ bucketOf[t] # sb[t]
        /\ stopped' = [stopped EXCEPT ![t] = FALSE]
        /\ UNCHANGED cpc
     \/ /\ bucketOf[t] = sb[t]
        /\ cpc' = [cpc EXCEPT ![t] = "stopremove"]
        /\ UNCHANGED stopped
  /\ UNCHANGED <<recvd, alevel, aexp, wstate, ppc, now, levels, currentTime,
                 expiration, timers, queue, polled, dpc, flushing, cursor,
                 reinserting, texp, bucketOf, element, adds, runs, clevel,
                 cread, sb, rbucket>>

\* stopped = b.remove(t), called without b.mu: first its ownership check.
StopCheck(t) ==
  /\ cpc[t] = "stopcheck"
  /\ \/ /\ bucketOf[t] # sb[t]
        /\ stopped' = [stopped EXCEPT ![t] = FALSE]
        /\ cpc' = [cpc EXCEPT ![t] = "stopload"]
     \/ /\ bucketOf[t] = sb[t]
        /\ cpc' = [cpc EXCEPT ![t] = "stopremove"]
        /\ UNCHANGED stopped
  /\ UNCHANGED <<recvd, alevel, aexp, wstate, ppc, now, levels, currentTime,
                 expiration, timers, queue, polled, dpc, flushing, cursor,
                 reinserting, texp, bucketOf, element, adds, runs, clevel,
                 cread, sb, rbucket>>

\* Then b.timers.Remove(t.element): a no-op when the element is in another
\* list, if e.list == l.
StopRemove(t) ==
  /\ cpc[t] = "stopremove"
  /\ element[t] # NoElem
  /\ timers' = [timers EXCEPT ![sb[t]] = ListRemove(@, element[t])]
  /\ cpc' = [cpc EXCEPT ![t] = "stopsetnil"]
  /\ UNCHANGED <<recvd, alevel, aexp, wstate, ppc, now, levels, currentTime,
                 expiration, queue, polled, dpc, flushing, cursor, reinserting,
                 texp, bucketOf, element, adds, runs, clevel, cread, sb,
                 stopped, rbucket>>

\* t.element was cleared by a concurrent remove: list.Remove(nil)
\* dereferences nil and the program panics.
StopPanic(t) ==
  /\ cpc[t] = "stopremove"
  /\ element[t] = NoElem
  /\ cpc' = [cpc EXCEPT ![t] = "panicked"]
  /\ UNCHANGED <<recvd, alevel, aexp, wstate, ppc, now, levels, currentTime,
                 expiration, timers, queue, polled, dpc, flushing, cursor,
                 reinserting, texp, bucketOf, element, adds, runs, clevel,
                 cread, sb, stopped, rbucket>>

\* t.setBucket(nil) ...
StopSetNil(t) ==
  /\ cpc[t] = "stopsetnil"
  /\ bucketOf' = [bucketOf EXCEPT ![t] = NoBucket]
  /\ cpc' = [cpc EXCEPT ![t] = "stopclear"]
  /\ UNCHANGED <<recvd, alevel, aexp, wstate, ppc, now, levels, currentTime,
                 expiration, timers, queue, polled, dpc, flushing, cursor,
                 reinserting, texp, element, adds, runs, clevel, cread, sb,
                 stopped, rbucket>>

\* ... t.element = nil; return true, and the loop reloads the bucket.
StopClearElem(t) ==
  /\ cpc[t] = "stopclear"
  /\ element' = [element EXCEPT ![t] = NoElem]
  /\ stopped' = [stopped EXCEPT ![t] = TRUE]
  /\ cpc' = [cpc EXCEPT ![t] = "stopload"]
  /\ UNCHANGED <<recvd, alevel, aexp, wstate, ppc, now, levels, currentTime,
                 expiration, timers, queue, polled, dpc, flushing, cursor,
                 reinserting, texp, bucketOf, adds, runs, clevel, cread, sb,
                 rbucket>>

(***************************************************************************)
(* Lifecycle: Start has run (its two goroutines are the loops above), and  *)
(* TimeWheel.Stop closes tw.stop and waits for both loops.                 *)
(***************************************************************************)

\* close(tw.stop), then tw.waitGroup.Wait() blocks.
WheelStop ==
  /\ CallsStop
  /\ wstate = "running"
  /\ wstate' = "wait"
  /\ UNCHANGED <<recvd, alevel, aexp, ppc, now, levels, currentTime, expiration,
                 timers, queue, polled, dpc, flushing, cursor, reinserting,
                 texp, bucketOf, element, adds, runs, cpc, clevel, cread, sb,
                 stopped, rbucket>>

\* Mutant: Poll returns on stop only while it waits for an entry, not while
\* it is blocked sending one on C.
PollExitWhenIdle ==
  /\ ppc = "poll"
  /\ wstate # "running"
  /\ polled = NoBucket
  /\ ppc' = "exited"
  /\ UNCHANGED <<recvd, alevel, aexp, wstate, now, levels, currentTime,
                 expiration, timers, queue, polled, dpc, flushing, cursor,
                 reinserting, texp, bucketOf, element, adds, runs, cpc, clevel,
                 cread, sb, stopped, rbucket>>

\* DelayQueue.Poll returns once stopSignal is closed (spec 4.5), also when
\* it is blocked handing a bucket to C: that bucket is dropped.  The first
\* goroutine of Start then ends (waitGroupWrapper.Wrap's Done).
PollExit ==
  /\ ppc = "poll"
  /\ wstate # "running"
  /\ ppc' = "exited"
  /\ polled' = NoBucket
  /\ UNCHANGED <<recvd, alevel, aexp, wstate, now, levels, currentTime,
                 expiration, timers, queue, dpc, flushing, cursor, reinserting,
                 texp, bucketOf, element, adds, runs, cpc, clevel, cread, sb,
                 stopped, rbucket>>

\* case <-tw.stop: return.  Only the select at the loop head sees it, so a
\* Flush in progress runs to its end; when C is ready too the select may
\* take either case (DispatchReceive stays enabled).
DispatchStop ==
  /\ dpc = "recv"
  /\ wstate # "running"
  /\ dpc' = "exited"
  /\ UNCHANGED <<recvd, alevel, aexp, wstate, ppc, now, levels, currentTime,
                 expiration, timers, queue, polled, flushing, cursor,
                 reinserting, texp, bucketOf, element, adds, runs, cpc, clevel,
                 cread, sb, stopped, rbucket>>

\* waitGroup.Wait() returns once both goroutines are done.
WheelWaitReturns ==
  /\ wstate = "wait"
  /\ ppc = "exited"
  /\ dpc = "exited"
  /\ wstate' = "returned"
  /\ UNCHANGED <<recvd, alevel, aexp, ppc, now, levels, currentTime, expiration,
                 timers, queue, polled, dpc, flushing, cursor, reinserting,
                 texp, bucketOf, element, adds, runs, cpc, clevel, cread, sb,
                 stopped, rbucket>>

-----------------------------------------------------------------------------
\* Some goroutine has panicked: Go ends the program, and nothing runs.
Crashed == dpc = "panicked" \/ \E t \in Timers : cpc[t] = "panicked"

\* The steps of the dispatch goroutine's Flush loop.
FlushSteps ==
  \/ FlushNext \/ FlushCheck \/ FlushListRemove \/ FlushSetNil
  \/ FlushClearElem \/ FlushReinsert \/ FlushSetElem \/ FlushSetBucket
  \/ FlushSwap \/ FlushOffer \/ FlushEnd

\* The steps of timer.Stop.
StopSteps(t) ==
  \/ StopLoad(t) \/ StopCheck(t) \/ StopRemove(t) \/ StopPanic(t)
  \/ StopSetNil(t) \/ StopClearElem(t)

Next ==
  /\ ~Crashed
  /\ \/ TimePasses
     \/ Poll
     \/ DispatchReceive
     \/ DispatchAdvance
     \/ FlushSteps
     \/ WheelStop
     \/ PollExit
     \/ DispatchStop
     \/ WheelWaitReturns
     \/ \E t \in Timers :
          \/ AfterFunc(t)
          \/ CallerAdd(t)
          \/ CallerOverflow(t)
          \/ CallerPlace(t)
          \/ CallerSetExpiration(t)
          \/ CallerOffer(t)
          \/ StopSteps(t)

(***************************************************************************)
(* Fairness.  Real time keeps passing; the two loops of Start and every    *)
(* goroutine inside AfterFunc or Stop are runnable goroutines, so Go's     *)
(* scheduler eventually runs them (weak fairness).  b.Add may wait on b.mu *)
(* that the dispatch loop takes and releases repeatedly; sync.Mutex hands  *)
(* the lock to a waiter starved for over 1ms, so placement is strongly     *)
(* fair.  Calling AfterFunc or TimeWheel.Stop at all is up to the user and *)
(* is not fair; once Stop has closed tw.stop, the loops' exits and Wait's   *)
(* return are steps of runnable goroutines.                                 *)
(***************************************************************************)
Fairness ==
  /\ WF_vars(~Crashed /\ TimePasses)
  /\ WF_vars(~Crashed /\ (Poll \/ PollExit))
  /\ WF_vars(~Crashed /\ (DispatchReceive \/ DispatchAdvance \/ FlushSteps
                          \/ DispatchStop))
  /\ WF_vars(~Crashed /\ WheelWaitReturns)
  /\ \A t \in Timers :
       /\ WF_vars(~Crashed /\ (CallerAdd(t) \/ CallerOverflow(t)
                               \/ CallerSetExpiration(t) \/ CallerOffer(t)))
       /\ SF_vars(~Crashed /\ CallerPlace(t))
       /\ WF_vars(~Crashed /\ StopSteps(t))

Spec == Init /\ [][Next]_vars /\ Fairness

-----------------------------------------------------------------------------
(* Properties *)

TypeOK ==
  /\ now \in 0 .. MaxTime
  /\ levels \in 1 .. MaxLevels
  /\ currentTime \in [LevelIds -> Nat]
  /\ expiration \in [Buckets -> Int]
  /\ timers \in [Buckets -> Seq(Elements)]
  /\ DOMAIN queue \subseteq Buckets /\ \A b \in DOMAIN queue : queue[b] \in Nat \cup {-1}
  /\ polled \in Buckets \cup {NoBucket}
  /\ dpc \in {"recv", "advance", "next", "check", "lremove", "setnil", "clearelem",
             "reinsert", "setelem", "setbucket", "swap", "offer", "exited",
             "panicked"}
  /\ rbucket \in Buckets \cup {NoBucket}
  /\ recvd \in Buckets \cup {NoBucket}
  /\ alevel \in 0 .. MaxLevels
  /\ aexp \in Int
  /\ flushing \in Buckets \cup {NoBucket}
  /\ cursor \in Elements \cup {NoElem}
  /\ reinserting \in Timers
  /\ texp \in [Timers -> Expirations \cup {-1}]
  /\ bucketOf \in [Timers -> Buckets \cup {NoBucket}]
  /\ element \in [Timers -> Elements \cup {NoElem}]
  /\ adds \in [Timers -> Nat]
  /\ runs \in [Timers -> Nat]
  /\ cpc \in [Timers -> {"idle", "add", "overflow", "place", "setexp", "offer",
                         "done", "stopload", "stopcheck", "stopremove",
                         "stopsetnil", "stopclear", "stopped",
                         "panicked"}]
  /\ clevel \in [Timers -> LevelIds]
  /\ cread \in [Timers -> Nat]
  /\ sb \in [Timers -> Buckets \cup {NoBucket}]
  /\ stopped \in [Timers -> BOOLEAN]
  /\ wstate \in {"running", "wait", "returned"}
  /\ ppc \in {"poll", "exited"}

\* A task started by addOrRun (from AfterFunc or from a Flush) never starts
\* before the tick in which it expires: the wheel's clock lags real time,
\* and `t.expiration < currentTime+tw.tick` is the only test.
FiresWithinTick ==
  [][\A t \in Timers : runs'[t] > runs[t] => now > texp[t] - Tick]_vars

\* Every timer held in a bucket list (through its current element) will be
\* flushed no later than it expires: its bucket is queued at or before its
\* expiration, or is being handed over or flushed by the loops, or a caller
\* has just added to it and is about to SetExpiration and Offer it.  This
\* holds while the wheel runs; TimeWheel.Stop abandons every bucket.
Covered(b, x) ==
  \/ b \in DOMAIN queue /\ queue[b] <= x
  \/ polled = b
  \/ recvd = b
  \/ flushing = b
  \/ \E c \in Timers : cpc[c] \in {"setexp", "offer"} /\ SlotBucket(texp[c], clevel[c]) = b
  \/ dpc \in {"setbucket", "swap", "offer"} /\ rbucket = b

NoStrandedTimer ==
  wstate = "running" =>
  \A b \in Buckets : \A i \in 1 .. Len(timers[b]) :
    LET t == timers[b][i][1]
    IN element[t] = timers[b][i] => Covered(b, texp[t])

\* Each task runs at most once (spec: exactly-once execution).
RunsAtMostOnce == \A t \in Timers : runs[t] <= 1

\* Every timer handed to AfterFunc and never stopped eventually runs, unless
\* the wheel is stopped first: TimeWheel.Stop abandons the buckets still
\* queued, and an AfterFunc after Stop places a timer no loop will flush.
EveryTimerFires ==
  \A t \in Timers \ Cancellers : cpc[t] # "idle" ~> (runs[t] > 0 \/ wstate # "running")

\* TimeWheel.Stop returns: once tw.stop is closed both loops exit, whatever
\* the poll loop was sending and the dispatch loop was flushing, and Wait
\* returns.
WheelStopReturns == wstate = "wait" ~> wstate = "returned"


\* timer.Stop's retry loop always returns, against Flush removing and
\* re-adding the timer step by step under it, unless a goroutine's nil
\* list.Remove ends the program first.
StopReturns ==
  \A t \in Cancellers : cpc[t] = "stopload" ~> (cpc[t] = "stopped" \/ Crashed)

\* The dispatch loop never re-adds a flushed timer into the bucket whose
\* lock it holds (which would block it forever).
NoSelfDeadlock ==
  dpc = "reinsert" /\ Placement(texp[reinserting], 0) >= 0
    => SlotBucket(texp[reinserting], Placement(texp[reinserting], 0)) # flushing

=============================================================================
