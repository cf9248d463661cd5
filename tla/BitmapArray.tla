---------------------------- MODULE BitmapArray ----------------------------
(***************************************************************************)
(* Bitmap and BitmapArray of src/unnamed/part_008: a word of bits with     *)
(* Set, Clear, Has and a parallel population count, and an array of such  *)
(* words with the lowest and highest position set and an empty flag.  The *)
(* array takes no lock and each method is one step.  A word is kept at     *)
(* Width bits instead of 64, and the block size s and the mask constant     *)
(* (both 64 in the code) are Width too: Count's six steps are kept as      *)
(* written, with their masks cut to Width bits, so the steps that shift by *)
(* Width or more add nothing, as the last ones do at 64 bits for a word    *)
(* whose upper half is clear.                                               *)
(***************************************************************************)
EXTENDS Naturals, Sequences, SequencesExt, Bitwise

CONSTANTS
    Width,      \* the bits of a Bitmap (64 in the code)
    Sizes,      \* the sizes NewBitmapArray may be given
    Positions,  \* the positions Set, Clear and Has are given
    Ok,         \* a nil error (and what Clear, which returns nothing, gives)
    Err         \* OutOfRangeError

ASSUME Width \in {2, 4, 8}

Word == 2^Width

VARIABLES
    blocks,     \* ba.blocks
    lowest,     \* ba.lowest
    highest,    \* ba.highest
    empty,      \* ba.empty
    out         \* <<the last call, its argument, what it returned>>

vars == <<blocks, lowest, highest, empty, out>>

-----------------------------------------------------------------------------
(* Bitmap, a value type: its methods return a new word.                    *)

BitSetOp(b, pos) == b | 2^pos                       \* Bitmap.Set
BitClear(b, pos) == b & ((Word - 1) - 2^pos)         \* Bitmap.Clear, b & ^(1 << pos)
BitHas(b, pos) == (b & 2^pos) # 0                    \* Bitmap.Has

\* The mask of Count's step that adds neighbouring groups of c bits:
\* 0x5555..., 0x3333..., 0x0F0F... cut to Width bits.
StepMask(c) == FoldLeft(LAMBDA m, p : IF (p \div c) % 2 = 0 THEN m + 2^p ELSE m,
                        0, [i \in 1..Width |-> i - 1])

\* Bitmap.Count: val = (val & mask) + ((val >> c) & mask) for c = 1 .. 32.
BitCount(b) ==
    FoldLeft(LAMBDA v, c : (v & StepMask(c)) + (shiftR(v, c) & StepMask(c)),
             b, <<1, 2, 4, 8, 16, 32>>)

\* getIndexAndRemainder, not in the repository: the block and the bit of a
\* position.
IndexAndRemainder(pos) == <<pos \div Width, pos % Width>>

Capacity == Len(blocks) * Width

\* NewBitmapArray's block count: one more for a partial last block.
NBlocks(size) ==
    LET ir == IndexAndRemainder(size) IN ir[1] + (IF ir[2] > 0 THEN 1 ELSE 0)

-----------------------------------------------------------------------------
\* NewBitmapArray(size): enough blocks for size bits, all clear.
Init ==
    /\ \E size \in Sizes : blocks = [i \in 1..NBlocks(size) |-> 0]
    /\ lowest = 0
    /\ highest = 0
    /\ empty = TRUE
    /\ out = <<"New", "-", Ok>>

\* Set: out of range is an error; the first position set is both lowest and
\* highest, a later one moves one of them.
Set(pos) ==
    IF pos >= Capacity
    THEN out' = <<"Set", pos, Err>> /\ UNCHANGED <<blocks, lowest, highest, empty>>
    ELSE LET ir == IndexAndRemainder(pos) IN
         /\ lowest' = IF empty \/ pos < lowest THEN pos ELSE lowest
         /\ highest' = IF empty \/ (pos >= lowest /\ pos > highest) THEN pos ELSE highest
         /\ empty' = FALSE
         /\ blocks' = [blocks EXCEPT ![ir[1] + 1] = BitSetOp(@, ir[2])]
         /\ out' = <<"Set", pos, Ok>>

\* Clear: ba.blocks[idx].Clear(bit) returns the cleared word, and the
\* statement drops it; out of range it returns at once.  Either way the
\* array is left as it was.
Clear(pos) ==
    /\ out' = <<"Clear", pos, Ok>>
    /\ UNCHANGED <<blocks, lowest, highest, empty>>

Has(pos) ==
    /\ out' = <<"Has", pos, IF pos >= Capacity THEN FALSE
                       ELSE LET ir == IndexAndRemainder(pos) IN BitHas(blocks[ir[1] + 1], ir[2])>>
    /\ UNCHANGED <<blocks, lowest, highest, empty>>

Count ==
    /\ out' = <<"Count", "-", IF empty THEN 0
                         ELSE FoldLeft(LAMBDA n, b : n + BitCount(b), 0, blocks)>>
    /\ UNCHANGED <<blocks, lowest, highest, empty>>

Empty == out' = <<"Empty", "-", empty>> /\ UNCHANGED <<blocks, lowest, highest, empty>>

\* ToNums: each block's set bits, offset by the block's first position.
ToNums ==
    /\ out' = <<"ToNums", "-", FlattenSeq([j \in 1..Len(blocks) |->
                               SelectSeq([i \in 1..Width |-> (j - 1) * Width + (i - 1)],
                                         LAMBDA p : BitHas(blocks[j], p % Width))])>>
    /\ UNCHANGED <<blocks, lowest, highest, empty>>

Next == (\E p \in Positions : Set(p) \/ Clear(p) \/ Has(p)) \/ Count \/ Empty \/ ToNums

Spec == Init /\ [][Next]_vars

-----------------------------------------------------------------------------
(* Properties.                                                             *)

\* The positions whose bits are set.
Bits == {p \in 0..(Capacity - 1) : BitHas(blocks[p \div Width + 1], p % Width)}

\* BitmapArray is a set of positions: after Set(p) Has(p) holds and after
\* Clear(p) it does not, Count is the number set, Empty says whether any
\* is, and ToNums lists them in order.
Abstract == INSTANCE BitSet WITH cap <- Capacity, set <- Bits,
                Capacities <- {NBlocks(size) * Width : size \in Sizes}
RefinesBitSet == Abstract!Spec

=============================================================================
