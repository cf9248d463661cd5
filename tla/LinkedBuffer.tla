---------------------------- MODULE LinkedBuffer ----------------------------
(***************************************************************************)
(* Buffer of src/llb/buffer.go: a singly linked list of byte slices with   *)
(* head and tail pointers, a node count and a byte count.  The buffer has  *)
(* no lock and its methods run to completion, so each exported method is   *)
(* one step; its loop over pop and pushFront is a recursive operator on    *)
(* the buffer's fields.  Nodes are the ids NodeIds; a node that leaves the *)
(* list is garbage, so its fields are cleared when its slice goes back to  *)
(* bsPool (bsPool itself, not in the repository, is left out).  Bytes are  *)
(* the model values Bytes; copy moves them unchanged.                      *)
(***************************************************************************)
EXTENDS Integers, Sequences, SequencesExt, FiniteSetsExt, Functions

CONSTANTS
    Bytes,      \* the byte values written
    NodeIds,    \* the nodes the buffer can hold at once
    MaxBytes,   \* bound on the bytes buffered
    Chunks,     \* the slices PushBack and PushFront are given
    ReadLens,   \* the len(p) of Read
    DiscardLens, \* the n of Discard
    PeekLens    \* the maxBytes of Peek

Nil == 0
ASSUME Nil \notin NodeIds /\ NodeIds \subseteq Nat

VARIABLES
    llb,        \* the Buffer's fields: head, tail, next, buf, size, bytes, bs
    read,       \* the bytes copied into p, if the last call was a Read
    dropped,    \* what the last call, if a Discard, returned
    answer      \* <<Buffered(), IsEmpty()>> if the last call asked

vars == <<llb, read, dropped, answer>>

-----------------------------------------------------------------------------
(* The unexported list operations, as functions of the fields.             *)

\* pop: unlink the head node; the result's .b is the node or Nil.
Pop(L) ==
    IF L.head = Nil THEN [l |-> L, b |-> Nil]
    ELSE LET b == L.head
             h == L.next[b]
         IN  [l |-> [L EXCEPT !.head = h,
                              !.tail = IF h = Nil THEN Nil ELSE L.tail,
                              !.next[b] = Nil,
                              !.size = L.size - 1,
                              !.bytes = L.bytes - Len(L.buf[b])],
              b |-> b]

\* Mutant: pushFront keeps tail when the list was empty.
PushFrontKeepsTail(L, n) ==
    [L EXCEPT !.next[n] = IF L.head = Nil THEN Nil ELSE L.head,
              !.head = n,
              !.size = L.size + 1,
              !.bytes = L.bytes + Len(L.buf[n])]

\* pushFront: link n before the head; an empty list's tail becomes n.
PushFront(L, n) ==
    [L EXCEPT !.next[n] = IF L.head = Nil THEN Nil ELSE L.head,
              !.tail = IF L.head = Nil THEN n ELSE L.tail,
              !.head = n,
              !.size = L.size + 1,
              !.bytes = L.bytes + Len(L.buf[n])]

\* pushBack: link n after the tail; an empty list's head becomes n.
PushBack(L, n) ==
    [L EXCEPT !.head = IF L.tail = Nil THEN n ELSE L.head,
              !.next = IF L.tail = Nil THEN [@ EXCEPT ![n] = Nil]
                       ELSE [@ EXCEPT ![L.tail] = n, ![n] = Nil],
              !.tail = n,
              !.size = L.size + 1,
              !.bytes = L.bytes + Len(L.buf[n])]

\* The nodes from head along next, at most one visit per node.
RECURSIVE ChainFrom(_, _, _)
ChainFrom(L, n, fuel) ==
    IF n = Nil \/ fuel = 0 THEN <<>> ELSE <<n>> \o ChainFrom(L, L.next[n], fuel - 1)
Chain(L) == ChainFrom(L, L.head, Cardinality(NodeIds) + 1)

\* A node for a new slice (&node{buf: bsPool.Get(n)} with p copied in).
NewNode(L, p) ==
    LET n == Min(NodeIds \ ToSet(Chain(L))) IN [l |-> [L EXCEPT !.buf[n] = p], n |-> n]

\* bsPool.Put(b.buf): the node is no longer reachable.
Release(L, b) == [L EXCEPT !.buf[b] = <<>>, !.next[b] = Nil]

\* Mutant: Read returns every popped slice to the pool, even one it read
\* only in part.
RECURSIVE ReadLoopDropsRest(_, _, _)
ReadLoopDropsRest(L, want, got) ==
    LET r == Pop(L) IN
    IF r.b = Nil THEN [l |-> L, got |-> got]
    ELSE LET buf == r.l.buf[r.b]
             m == Min({want - Len(got), Len(buf)})
             got2 == got \o SubSeq(buf, 1, m)
             L2 == Release(r.l, r.b)
         IN  IF Len(got2) = want THEN [l |-> L2, got |-> got2]
             ELSE ReadLoopDropsRest(L2, want, got2)

\* Read's loop: pop, copy what fits into p, push a remainder back, stop when
\* p is full or the list is empty.
RECURSIVE ReadLoop(_, _, _)
ReadLoop(L, want, got) ==
    LET r == Pop(L) IN
    IF r.b = Nil THEN [l |-> L, got |-> got]
    ELSE LET buf == r.l.buf[r.b]
             m == Min({want - Len(got), Len(buf)})
             got2 == got \o SubSeq(buf, 1, m)
             L2 == IF m < Len(buf)
                   THEN PushFront([r.l EXCEPT !.buf[r.b] = SubSeq(buf, m + 1, Len(buf))], r.b)
                   ELSE Release(r.l, r.b)
         IN  IF Len(got2) = want THEN [l |-> L2, got |-> got2] ELSE ReadLoop(L2, want, got2)

\* Discard's loop, counting what it drops.
RECURSIVE DiscardLoop(_, _, _)
DiscardLoop(L, n, discarded) ==
    LET r == Pop(L) IN
    IF n = 0 \/ r.b = Nil THEN [l |-> L, d |-> discarded]
    ELSE LET buf == r.l.buf[r.b] IN
         IF n < Len(buf)
         THEN [l |-> PushFront([r.l EXCEPT !.buf[r.b] = SubSeq(buf, n + 1, Len(buf))], r.b),
               d |-> discarded + n]
         ELSE DiscardLoop(Release(r.l, r.b), n - Len(buf), discarded + Len(buf))

\* Reset's loop: pop every node and return its slice.
RECURSIVE Drain(_)
Drain(L) == LET r == Pop(L) IN IF r.b = Nil THEN L ELSE Drain(Release(r.l, r.b))

\* Peek's loop: the slices from the head until cum >= maxBytes.
RECURSIVE PeekFrom(_, _, _, _)
PeekFrom(L, n, cum, max) ==
    IF n = Nil THEN <<>>
    ELSE IF cum + Len(L.buf[n]) >= max THEN <<L.buf[n]>>
    ELSE <<L.buf[n]>> \o PeekFrom(L, L.next[n], cum + Len(L.buf[n]), max)

-----------------------------------------------------------------------------
\* What the calls return; each call's results replace the last call's.
Returns(r, d, a) == read' = r /\ dropped' = d /\ answer' = a
NoAnswer == <<0, TRUE>>

Init ==
    /\ llb = [head |-> Nil, tail |-> Nil,
              next |-> [n \in NodeIds |-> Nil], buf |-> [n \in NodeIds |-> <<>>],
              size |-> 0, bytes |-> 0, bs |-> <<>>]
    /\ read = <<>>
    /\ dropped = 0
    /\ answer = NoAnswer

\* PushFront(p) and PushBack(p) return at once on an empty p.
Push(p, front) ==
    /\ llb.bytes + Len(p) <= MaxBytes
    /\ llb' = IF p = <<>> THEN llb
              ELSE LET a == NewNode(llb, p)
                   IN  IF front THEN PushFront(a.l, a.n) ELSE PushBack(a.l, a.n)
    /\ Returns(<<>>, 0, NoAnswer)

DoPushFront(p) == Push(p, TRUE)
DoPushBack(p) == Push(p, FALSE)

Read(k) ==
    LET r == ReadLoop(llb, k, <<>>) IN
    /\ llb' = IF k = 0 THEN llb ELSE r.l
    /\ Returns(IF k = 0 THEN <<>> ELSE r.got, 0, NoAnswer)

Discard(k) ==
    LET r == DiscardLoop(llb, k, 0) IN
    /\ llb' = IF k <= 0 THEN llb ELSE r.l
    /\ Returns(<<>>, IF k <= 0 THEN 0 ELSE r.d, NoAnswer)

\* Peek: maxBytes <= 0 means math.MaxInt32; the slices are kept in llb.bs.
Peek(k) ==
    /\ llb' = [llb EXCEPT !.bs = PeekFrom(llb, llb.head, 0, IF k <= 0 THEN 2147483647 ELSE k)]
    /\ Returns(<<>>, 0, NoAnswer)

Reset ==
    /\ llb' = [Drain(llb) EXCEPT !.head = Nil, !.tail = Nil, !.size = 0, !.bytes = 0,
                                 !.bs = <<>>]
    /\ Returns(<<>>, 0, NoAnswer)

\* Buffered() and IsEmpty().
Ask ==
    /\ Returns(<<>>, 0, <<llb.bytes, llb.head = Nil>>)
    /\ UNCHANGED llb

Next ==
    \/ \E p \in Chunks : DoPushFront(p) \/ DoPushBack(p)
    \/ \E k \in ReadLens : Read(k)
    \/ \E k \in DiscardLens : Discard(k)
    \/ \E k \in PeekLens : Peek(k)
    \/ Reset
    \/ Ask

Spec == Init /\ [][Next]_vars

-----------------------------------------------------------------------------
(* Properties.                                                             *)

\* The bytes of the list, head first.
Contents == LET c == Chain(llb) IN FlattenSeq([i \in 1..Len(c) |-> llb.buf[c[i]]])

\* Whatever sequence of pushes, reads, discards and resets ran: the list
\* from head ends in nil at tail with no node twice, head is nil exactly
\* when the list is empty, no node holds an empty slice, and size and bytes
\* (Len() and Buffered()) count its nodes and bytes.
WellFormed ==
    LET c == Chain(llb) IN
    /\ Len(c) <= Cardinality(NodeIds)
    /\ IsInjective(c)
    /\ llb.tail = IF c = <<>> THEN Nil ELSE Last(c)
    /\ c # <<>> => llb.next[Last(c)] = Nil
    /\ \A i \in 1..Len(c) : llb.buf[c[i]] \in Seq(Bytes) \ {<<>>}
    /\ llb.size = Len(c)
    /\ llb.bytes = Len(Contents)

\* Buffer implements ByteStream: Read and Discard consume exactly the front
\* bytes they report, pushes add bytes at the right end, and Peek shows a
\* long enough prefix.
Stream == INSTANCE ByteStream WITH
    content <- Contents, peeked <- FlattenSeq(llb.bs)
RefinesStream == Stream!Spec

=============================================================================
