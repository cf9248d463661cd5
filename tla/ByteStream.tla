----------------------------- MODULE ByteStream -----------------------------
(***************************************************************************)
(* What a byte buffer promises: a sequence of bytes that PushBack extends, *)
(* PushFront prepends to, and Read and Discard consume from the front, as  *)
(* much as asked for and as there is.  Peek shows a prefix at least as     *)
(* long as asked for (or all there is) without consuming it.  Buffer of    *)
(* src/llb is checked to implement it.                                     *)
(***************************************************************************)
EXTENDS Integers, Sequences, SequencesExt, FiniteSetsExt

CONSTANTS Chunks, ReadLens, PeekLens

VARIABLES
    content,    \* the bytes buffered, front first
    read,       \* the bytes the last call, if a Read, returned
    dropped,    \* how many bytes the last call, if a Discard, dropped
    peeked,     \* the bytes the last Peek showed
    answer      \* <<Buffered(), IsEmpty()>> if the last call asked

vars == <<content, read, dropped, peeked, answer>>

\* What the calls return; each call's results replace the last call's.
Returns(r, d, a) == read' = r /\ dropped' = d /\ answer' = a
NoAnswer == <<0, TRUE>>

Init == content = <<>> /\ read = <<>> /\ dropped = 0 /\ peeked = <<>> /\ answer = NoAnswer

Taken(k) == IF k > 0 THEN Min({k, Len(content)}) ELSE 0

PushBack(p) == content' = content \o p /\ Returns(<<>>, 0, NoAnswer) /\ UNCHANGED peeked

PushFront(p) == content' = p \o content /\ Returns(<<>>, 0, NoAnswer) /\ UNCHANGED peeked

Read(k) ==
    /\ Returns(SubSeq(content, 1, Taken(k)), 0, NoAnswer)
    /\ content' = SubSeq(content, Taken(k) + 1, Len(content))
    /\ UNCHANGED peeked

Discard(k) ==
    /\ Returns(<<>>, Taken(k), NoAnswer)
    /\ content' = SubSeq(content, Taken(k) + 1, Len(content))
    /\ UNCHANGED peeked

Peek(k) ==
    /\ \E l \in (IF k > 0 THEN Min({k, Len(content)}) ELSE Len(content))..Len(content) :
          peeked' = SubSeq(content, 1, l)
    /\ Returns(<<>>, 0, NoAnswer)
    /\ UNCHANGED content

Reset == content' = <<>> /\ peeked' = <<>> /\ Returns(<<>>, 0, NoAnswer)

Ask == Returns(<<>>, 0, <<Len(content), content = <<>>>>) /\ UNCHANGED <<content, peeked>>

Next ==
    \/ \E p \in Chunks : PushBack(p) \/ PushFront(p)
    \/ \E k \in ReadLens : Read(k) \/ Discard(k)
    \/ \E k \in PeekLens : Peek(k)
    \/ Reset
    \/ Ask

Spec == Init /\ [][Next]_vars

=============================================================================
