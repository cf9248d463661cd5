----------------------------- MODULE LinkStream -----------------------------
(***************************************************************************)
(* What the Reader and Writer interfaces of src/unnamed/part_005 promise   *)
(* (lines 56-230): bytes are first allocated by Malloc or written by       *)
(* WriteBinary and WriteByte, where they stay pending (MallocLen) until    *)
(* Flush makes them readable (Len).  MallocAck(n) keeps the first n        *)
(* pending bytes and discards the rest.  Next, ReadBinary and ReadString   *)
(* return and consume the next n readable bytes, Skip consumes them, Peek  *)
(* returns them without consuming, and each fails when fewer are readable. *)
(* Release and Close give memory back; Close ends the buffer's use.        *)
(* The k-th byte any writer writes is the value k, so every byte is told   *)
(* apart.  LinkBuffer is checked to implement it.                          *)
(***************************************************************************)
EXTENDS Integers, Sequences

CONSTANTS Ok, Err, Panic

VARIABLES
  rd,       \* the readable bytes, oldest first
  pend,     \* the pending bytes, allocated or written but not flushed
  written,  \* bytes written so far: the next byte written is written + 1
  closed,   \* Close has run
  out       \* <<the last call, its argument, what it returned>>

vars == <<rd, pend, written, closed, out>>

\* The next n bytes a writer puts into the buffer.
Labels(n) == [i \in 1 .. n |-> written + i]

Running == ~closed /\ out[3] # Panic

Init ==
  /\ rd = <<>> /\ pend = <<>> /\ written = 0 /\ closed = FALSE
  /\ out = <<"New", "-", Ok>>

\* Malloc(n) and the caller filling the slice, WriteBinary(p), WriteByte.
Write(op, n) ==
  /\ pend' = pend \o Labels(n)
  /\ written' = written + n
  /\ out' = <<op, n, Ok>>
  /\ UNCHANGED <<rd, closed>>

\* MallocAck(n) past the pending bytes is not defined by the contract; the
\* code dereferences a nil node, and the program stops.
MallocAck(n) ==
  /\ IF n <= Len(pend)
     THEN pend' = SubSeq(pend, 1, n) /\ out' = <<"MallocAck", n, Ok>>
     ELSE out' = <<"MallocAck", n, Panic>> /\ UNCHANGED pend
  /\ UNCHANGED <<rd, written, closed>>

Flush ==
  /\ rd' = rd \o pend
  /\ pend' = <<>>
  /\ out' = <<"Flush", "-", Ok>>
  /\ UNCHANGED <<written, closed>>

\* Next, ReadBinary and ReadString (op), and Skip, which returns no bytes.
Read(op, n) ==
  /\ IF n > Len(rd)
     THEN out' = <<op, n, Err>> /\ UNCHANGED rd
     ELSE /\ out' = <<op, n, IF op = "Skip" THEN Ok ELSE SubSeq(rd, 1, n)>>
          /\ rd' = SubSeq(rd, n + 1, Len(rd))
  /\ UNCHANGED <<pend, written, closed>>

ReadByte ==
  /\ IF rd = <<>>
     THEN out' = <<"ReadByte", "-", Err>> /\ UNCHANGED rd
     ELSE out' = <<"ReadByte", "-", Head(rd)>> /\ rd' = Tail(rd)
  /\ UNCHANGED <<pend, written, closed>>

Peek(n) ==
  /\ out' = <<"Peek", n, IF n > Len(rd) THEN Err ELSE SubSeq(rd, 1, n)>>
  /\ UNCHANGED <<rd, pend, written, closed>>

\* Release, and the queries Len, MallocLen and Bytes.
Query(op) ==
  /\ out' = <<op, "-", CASE op = "Len" -> Len(rd)
                         [] op = "MallocLen" -> Len(pend)
                         [] op = "Bytes" -> rd
                         [] op = "Release" -> Ok>>
  /\ UNCHANGED <<rd, pend, written, closed>>

Close ==
  /\ rd' = <<>> /\ pend' = <<>> /\ closed' = TRUE
  /\ out' = <<"Close", "-", Ok>>
  /\ UNCHANGED written

Next ==
  /\ Running
  /\ \/ \E n \in 1 .. 8 :
          \/ \E op \in {"Malloc", "WriteBinary"} : Write(op, n)
          \/ MallocAck(n - 1)
          \/ \E op \in {"Next", "ReadBinary", "ReadString", "Skip"} : Read(op, n)
          \/ Peek(n)
     \/ Write("WriteByte", 1)
     \/ Flush
     \/ ReadByte
     \/ \E op \in {"Len", "MallocLen", "Bytes", "Release"} : Query(op)
     \/ Close

Spec == Init /\ [][Next]_vars

=============================================================================
