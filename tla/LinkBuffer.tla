----------------------------- MODULE LinkBuffer -----------------------------
(***************************************************************************)
(* LinkBuffer of src/unnamed/part_005: a chain of linkBufferNodes with     *)
(* four pointers, head (release head) <= read (read head) <= flush (malloc *)
(* head) <= write (malloc tail), an atomic readable length and the         *)
(* mallocSize of unflushed bytes.  Nodes come from and go back to a        *)
(* sync.Pool; the pool is the set of node ids not in use.  A node is a     *)
(* record: mem is its underlying array (cap(buf) entries), len is          *)
(* len(buf), off the read offset, malloc the write offset.                 *)
(*                                                                         *)
(* The buffer is used by one goroutine, so each method is one step, and    *)
(* each loop of a method is a recursive operator.  The caller's part is    *)
(* folded into the writing methods: the slice Malloc returns is filled     *)
(* with the next bytes, as WriteBinary's argument is.  The k-th byte       *)
(* written is the value k.  Refer and the reference counts it raises are   *)
(* only used by Slice, which is not modelled, so every refer is 1 and a    *)
(* node's Release always frees it.  mcache and the Next caches only hold   *)
(* memory and are left out.                                                *)
(***************************************************************************)
EXTENDS Integers, Sequences, SequencesExt, FiniteSets

CONSTANTS
  Nodes,        \* the linkBufferNodes the pool can hand out
  Nil,          \* a nil *linkBufferNode
  NodeCap,      \* LinkBufferCap (block4k), also BinaryInplaceThreshold
  PageSize,     \* pagesize (block8k)
  InitSizes,    \* sizes NewLinkBuffer may be given
  WriteSizes,   \* n of Malloc and len(p) of WriteBinary
  AckSizes,     \* n of MallocAck
  ReadSizes,    \* n of Next, Peek, Skip, ReadBinary and ReadString
  MaxBytes,     \* bytes written over a run
  Ok, Err, Panic

ASSUME Nodes \subseteq Nat /\ Nil \notin Nodes
ASSUME NodeCap \in Nat \ {0} /\ PageSize \in Nat \ {0}
ASSUME InitSizes \cup WriteSizes \cup AckSizes \cup ReadSizes \subseteq Nat
ASSUME MaxBytes \in Nat

VARIABLES
  b,        \* the LinkBuffer and its node heap
  written,  \* bytes written so far
  out       \* <<the last call, its argument, what it returned>>

vars == <<b, written, out>>

-----------------------------------------------------------------------------
(* Nodes *)

\* A released node: buf, origin and next are nil.
Blank == [mem |-> <<>>, len |-> 0, off |-> 0, malloc |-> 0,
          readonly |-> FALSE, next |-> Nil]

Cap(B, x) == Len(B.nd[x].mem)
NodeLen(B, x) == B.nd[x].len - B.nd[x].off         \* linkBufferNode.Len

\* newLinkBufferNode(size): a node from the pool with its offsets reset; a
\* size <= 0 marks it readonly and allocates no buf, a larger one gets a
\* buf of at least LinkBufferCap.
NewNode(B, size) ==
  LET x == CHOOSE x \in B.pool : \A y \in B.pool : x <= y
  IN [b |-> [B EXCEPT !.pool = @ \ {x},
                      !.nd[x].off = 0, !.nd[x].malloc = 0,
                      !.nd[x].readonly = (size <= 0),
                      !.nd[x].mem = IF size <= 0 THEN @
                                    ELSE [i \in 1 .. IF size < NodeCap THEN NodeCap
                                                                    ELSE size |-> 0],
                      !.nd[x].len = IF size <= 0 THEN @ ELSE 0],
      id |-> x]

\* Link a new node after b.write and make it b.write.
Append0(B, r) == [r.b EXCEPT !.nd[B.write].next = r.id, !.write = r.id]

\* linkBufferNode.Release with refer 1: free the buf, nil buf and next,
\* back to the pool.
ReleaseNode(B, x) == [B EXCEPT !.nd[x] = Blank, !.pool = @ \cup {x}]

\* The next n bytes a writer writes.
Labels(n) == [i \in 1 .. n |-> written + i]

-----------------------------------------------------------------------------
(* Writer *)

\* growth: skip readonly nodes and nodes without room for n, and link a
\* new node of size n at the end of the chain.
RECURSIVE Growth(_, _)
Growth(B, n) ==
  LET w == B.write IN
  IF n <= 0 \/ ~(B.nd[w].readonly \/ Cap(B, w) - B.nd[w].malloc < n) THEN B
  ELSE IF B.nd[w].next = Nil THEN Append0(B, NewNode(B, n))
  ELSE Growth([B EXCEPT !.write = B.nd[w].next], n)

\* b.write.Malloc(n), and the caller (or copy) filling the slice.
Fill(B, n) ==
  LET w == B.write
      m == B.nd[w].malloc
  IN [B EXCEPT !.nd[w].malloc = m + n,
               !.nd[w].mem = [i \in DOMAIN B.nd[w].mem |->
                                IF m < i /\ i <= m + n THEN written + (i - m)
                                ELSE B.nd[w].mem[i]]]

MallocOp(B, n) == Fill(Growth([B EXCEPT !.msize = @ + n], n), n)

\* Mutant: the copying branch goes through Malloc, counting n twice.
WriteBinaryCountsTwice(B, n) ==
  LET B1 == [B EXCEPT !.msize = @ + n] IN
  IF n > NodeCap
  THEN LET r == NewNode(B1, 0) IN
       [Append0(B1, r) EXCEPT !.nd[r.id].mem = Labels(n), !.nd[r.id].len = 0,
                              !.nd[r.id].malloc = n]
  ELSE MallocOp(B1, n)

\* WriteBinary: a slice longer than BinaryInplaceThreshold is linked as a
\* readonly node without copying; a shorter one is copied like a Malloc.
WriteBinaryOp(B, n) ==
  LET B1 == [B EXCEPT !.msize = @ + n] IN
  IF n > NodeCap
  THEN LET r == NewNode(B1, 0) IN
       [Append0(B1, r) EXCEPT !.nd[r.id].mem = Labels(n), !.nd[r.id].len = 0,
                              !.nd[r.id].malloc = n]
  ELSE Fill(Growth(B1, n), n)

\* MallocAck's first loop from b.flush; running off the chain leaves
\* b.write nil, and the next iteration dereferences it.
RECURSIVE AckLoop(_, _)
AckLoop(B, ack) ==
  LET w == B.write
      l == B.nd[w].malloc - B.nd[w].len
  IN IF ack <= 0 THEN B
     ELSE IF l >= ack THEN [B EXCEPT !.nd[w].malloc = ack + B.nd[w].len]
     ELSE IF B.nd[w].next = Nil THEN [B EXCEPT !.write = Nil]
     ELSE AckLoop([B EXCEPT !.write = B.nd[w].next], ack - l)

\* "discard the rest": every node after b.write is emptied.
RECURSIVE Discard(_, _)
Discard(B, x) ==
  IF x = Nil THEN B
  ELSE Discard([B EXCEPT !.nd[x].off = 0, !.nd[x].malloc = 0, !.nd[x].len = 0],
               B.nd[x].next)

MallocAckOp(B, n) ==
  LET A == AckLoop([B EXCEPT !.msize = n, !.write = B.flush], n)
  IN IF A.write = Nil THEN A ELSE Discard(A, A.nd[A.write].next)

\* Flush's loop from b.flush to b.write.next: a node's allocated bytes
\* become part of its buf, and their count is added to the length.
RECURSIVE Submit(_, _, _)
Submit(B, x, n) ==
  IF x = B.nd[B.write].next THEN [b |-> B, n |-> n]
  ELSE LET d == B.nd[x].malloc - B.nd[x].len IN
       Submit(IF d > 0 THEN [B EXCEPT !.nd[x].len = B.nd[x].malloc] ELSE B,
              B.nd[x].next, IF d > 0 THEN n + d ELSE n)

\* Mutant: Flush submits the bytes but leaves b.flush where it was.
FlushKeepsFlush(B) ==
  LET B1 == [B EXCEPT !.msize = 0]
      B2 == IF Cap(B1, B1.write) > PageSize THEN Append0(B1, NewNode(B1, 0)) ELSE B1
      s == Submit(B2, B2.flush, 0)
  IN [s.b EXCEPT !.length = @ + s.n]

\* Flush: a tail node larger than a page gets an empty node after it.
FlushOp(B) ==
  LET B1 == [B EXCEPT !.msize = 0]
      B2 == IF Cap(B1, B1.write) > PageSize THEN Append0(B1, NewNode(B1, 0)) ELSE B1
      s == Submit(B2, B2.flush, 0)
  IN [s.b EXCEPT !.flush = s.b.write, !.length = @ + s.n]

-----------------------------------------------------------------------------
(* Reader *)

\* isSingleNode's loop (and ReadByte's): step over empty nodes.
RECURSIVE SkipEmpty(_)
SkipEmpty(B) ==
  IF NodeLen(B, B.read) = 0 THEN SkipEmpty([B EXCEPT !.read = B.nd[B.read].next])
  ELSE B

\* The copy loop of Next and readBinary, node.Next(l) from each node; the
\* single-node case is its first iteration.
RECURSIVE ReadLoop(_, _, _)
ReadLoop(B, ack, p) ==
  LET r == B.read
      l == NodeLen(B, r)
      o == B.nd[r].off
      k == IF l >= ack THEN ack ELSE l
      B1 == [B EXCEPT !.nd[r].off = o + k]
      p1 == p \o SubSeq(B.nd[r].mem, o + 1, o + k)
  IN IF l >= ack THEN [b |-> B1, p |-> p1]
     ELSE ReadLoop([B1 EXCEPT !.read = B.nd[r].next], ack - l, p1)

\* recalLen(-n), isSingleNode, then the copy.
ReadOp(B, n) == ReadLoop(SkipEmpty([B EXCEPT !.length = @ - n]), n, <<>>)

\* Peek's loop over the nodes from b.read, node.Peek changes nothing.
RECURSIVE PeekFrom(_, _, _)
PeekFrom(B, x, ack) ==
  LET l == NodeLen(B, x)
      o == B.nd[x].off
  IN IF l >= ack THEN SubSeq(B.nd[x].mem, o + 1, o + ack)
     ELSE SubSeq(B.nd[x].mem, o + 1, o + l) \o PeekFrom(B, B.nd[x].next, ack - l)

\* Skip's loop: only the last node's offset moves; read passes the others.
RECURSIVE SkipLoop(_, _)
SkipLoop(B, ack) ==
  LET r == B.read IN
  IF NodeLen(B, r) >= ack THEN [B EXCEPT !.nd[r].off = @ + ack]
  ELSE SkipLoop([B EXCEPT !.read = B.nd[r].next], ack - NodeLen(B, r))

\* Release's first loop: read passes empty nodes up to flush.
RECURSIVE PassEmpty(_)
PassEmpty(B) ==
  IF B.read # B.flush /\ NodeLen(B, B.read) = 0
  THEN PassEmpty([B EXCEPT !.read = B.nd[B.read].next])
  ELSE B

\* Mutant: Release frees the nodes up to flush instead of up to read.
RECURSIVE FreeToFlush(_)
FreeToFlush(B) ==
  IF B.head = B.flush THEN B
  ELSE FreeToFlush([ReleaseNode(B, B.head) EXCEPT !.head = B.nd[B.head].next])

\* Release's second loop: every node before read goes back to the pool.
RECURSIVE FreeToRead(_)
FreeToRead(B) ==
  IF B.head = B.read THEN B
  ELSE FreeToRead([ReleaseNode(B, B.head) EXCEPT !.head = B.nd[B.head].next])

ReleaseOp(B) == FreeToRead(PassEmpty(B))

\* Close's loop: every node from head on goes back to the pool.
RECURSIVE FreeFrom(_, _)
FreeFrom(B, x) == IF x = Nil THEN B ELSE FreeFrom(ReleaseNode(B, x), B.nd[x].next)

\* The bytes of the nodes from x to y: the unread ones (off to len) or the
\* allocated, unflushed ones (len to malloc).
RECURSIVE Span(_, _, _, _)
Span(B, x, y, unread) ==
  LET n == B.nd[x]
      here == IF unread THEN SubSeq(n.mem, n.off + 1, n.len)
              ELSE SubSeq(n.mem, n.len + 1, n.malloc)
  IN IF x = y \/ n.next = Nil THEN here ELSE here \o Span(B, n.next, y, unread)

\* The bytes from b.read to b.flush, and those allocated from b.flush on.
Readable(B) == Span(B, B.read, B.flush, TRUE)
Pending(B) == Span(B, B.flush, B.write, FALSE)

\* Bytes: flush's buf alone, or every node's bytes copied into a slice of
\* b.Len() bytes.
BytesOf(B) ==
  IF B.read = B.flush THEN Readable(B)
  ELSE LET all == Readable(B) IN
       SubSeq(all, 1, IF B.length < Len(all) THEN B.length ELSE Len(all))

-----------------------------------------------------------------------------
(* Methods *)

Running == ~b.closed /\ out[3] # Panic

\* The pool still has a node for a method that may need one.
CanAllocate == b.pool # {}

\* NewLinkBuffer(size): one node that is head, read, flush and write.
Init ==
  \E size \in InitSizes :
    LET B0 == [nd |-> [x \in Nodes |-> Blank], pool |-> Nodes, head |-> Nil,
               read |-> Nil, flush |-> Nil, write |-> Nil, length |-> 0,
               msize |-> 0, closed |-> FALSE]
        r == NewNode(B0, size)
    IN /\ b = [r.b EXCEPT !.head = r.id, !.read = r.id, !.flush = r.id, !.write = r.id]
       /\ written = 0
       /\ out = <<"New", "-", Ok>>

\* Malloc(n), and the caller filling the slice it returns.
Malloc(n) ==
  /\ written + n <= MaxBytes /\ CanAllocate
  /\ b' = MallocOp(b, n)
  /\ written' = written + n
  /\ out' = <<"Malloc", n, Ok>>

\* WriteByte: Malloc(1) and dst[0] = p.
WriteByte ==
  /\ written + 1 <= MaxBytes /\ CanAllocate
  /\ b' = MallocOp(b, 1)
  /\ written' = written + 1
  /\ out' = <<"WriteByte", 1, Ok>>

WriteBinary(n) ==
  /\ written + n <= MaxBytes /\ CanAllocate
  /\ b' = WriteBinaryOp(b, n)
  /\ written' = written + n
  /\ out' = <<"WriteBinary", n, Ok>>

MallocAck(n) ==
  /\ LET A == MallocAckOp(b, n) IN
     IF A.write = Nil
     THEN out' = <<"MallocAck", n, Panic>> /\ UNCHANGED b
     ELSE out' = <<"MallocAck", n, Ok>> /\ b' = A
  /\ UNCHANGED written

Flush ==
  /\ CanAllocate
  /\ b' = FlushOp(b)
  /\ out' = <<"Flush", "-", Ok>>
  /\ UNCHANGED written

\* Next, ReadBinary (readBinary) and ReadString, which differ only in
\* where the bytes are copied.
Read(op, n) ==
  /\ IF b.length < n
     THEN out' = <<op, n, Err>> /\ UNCHANGED b
     ELSE LET r == ReadOp(b, n) IN b' = r.b /\ out' = <<op, n, r.p>>
  /\ UNCHANGED written

Peek(n) ==
  /\ IF b.length < n
     THEN out' = <<"Peek", n, Err>> /\ UNCHANGED b
     ELSE LET B1 == SkipEmpty(b) IN
          b' = B1 /\ out' = <<"Peek", n, PeekFrom(B1, B1.read, n)>>
  /\ UNCHANGED written

Skip(n) ==
  /\ IF b.length < n
     THEN out' = <<"Skip", n, Err>> /\ UNCHANGED b
     ELSE b' = SkipLoop([b EXCEPT !.length = @ - n], n) /\ out' = <<"Skip", n, Ok>>
  /\ UNCHANGED written

ReadByte ==
  /\ IF b.length < 1
     THEN out' = <<"ReadByte", "-", Err>> /\ UNCHANGED b
     ELSE LET r == ReadLoop(SkipEmpty([b EXCEPT !.length = @ - 1]), 1, <<>>) IN
          b' = r.b /\ out' = <<"ReadByte", "-", r.p[1]>>
  /\ UNCHANGED written

Release ==
  /\ b' = ReleaseOp(b)
  /\ out' = <<"Release", "-", Ok>>
  /\ UNCHANGED written

\* Len (the atomic length), MallocLen and Bytes change nothing.
Query(op) ==
  /\ out' = <<op, "-", CASE op = "Len" -> b.length
                         [] op = "MallocLen" -> b.msize
                         [] op = "Bytes" -> BytesOf(b)>>
  /\ UNCHANGED <<b, written>>

Close ==
  /\ LET B1 == ReleaseOp([b EXCEPT !.length = 0, !.msize = 0]) IN
     b' = [FreeFrom(B1, B1.head) EXCEPT !.head = Nil, !.read = Nil, !.flush = Nil,
                                         !.write = Nil, !.closed = TRUE]
  /\ out' = <<"Close", "-", Ok>>
  /\ UNCHANGED written

Next ==
  /\ Running
  /\ \/ \E n \in WriteSizes : Malloc(n) \/ WriteBinary(n)
     \/ WriteByte
     \/ \E n \in AckSizes : MallocAck(n)
     \/ Flush
     \/ \E n \in ReadSizes :
          \/ \E op \in {"Next", "ReadBinary", "ReadString"} : Read(op, n)
          \/ Peek(n)
          \/ Skip(n)
     \/ ReadByte
     \/ Release
     \/ \E op \in {"Len", "MallocLen", "Bytes"} : Query(op)
     \/ Close

Spec == Init /\ [][Next]_vars

-----------------------------------------------------------------------------
(* Properties *)

TypeOK ==
  /\ b.pool \subseteq Nodes
  /\ {b.head, b.read, b.flush, b.write} \subseteq Nodes \cup {Nil}
  /\ b.length \in 0 .. MaxBytes
  /\ b.msize \in 0 .. MaxBytes
  /\ written \in 0 .. MaxBytes

\* The nodes from x on, following next (at most one pass over Nodes).
RECURSIVE ChainFrom(_, _)
ChainFrom(x, k) ==
  IF x = Nil \/ k = 0 THEN <<>> ELSE <<x>> \o ChainFrom(b.nd[x].next, k - 1)

\* The chain from head is a list without a cycle that passes read, flush
\* and write in that order, and no node on it is back in the pool: Release,
\* Flush, MallocAck and the reads never recycle a node that is still
\* linked, and never move a pointer past the one after it.
ChainOrdered ==
  ~b.closed =>
    LET c == ChainFrom(b.head, Cardinality(Nodes) + 1)
        Pos(x) == CHOOSE i \in 1 .. Len(c) : c[i] = x
    IN /\ Len(c) = Cardinality(ToSet(c))
       /\ b.nd[c[Len(c)]].next = Nil
       /\ {b.read, b.flush, b.write} \subseteq ToSet(c)
       /\ Pos(b.read) <= Pos(b.flush) /\ Pos(b.flush) <= Pos(b.write)
       /\ ToSet(c) \cap b.pool = {}

\* LinkBuffer implements LinkStream: every call returns what the Reader
\* and Writer interfaces say, the atomic length and mallocSize agree with
\* the bytes the chain holds, and the bytes come out in the order written.
Stream == INSTANCE LinkStream WITH
  rd <- IF b.closed THEN <<>> ELSE Readable(b),
  pend <- IF b.closed THEN <<>> ELSE Pending(b),
  closed <- b.closed
RefinesLinkStream == Stream!Spec

=============================================================================
