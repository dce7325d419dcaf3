-------------------------------- MODULE StrBuf --------------------------------
(***************************************************************************)
(* A laure_buf_t (string.h): a growing buffer of bytes that is also kept   *)
(* as a C string, since header names, header values and URLs are read from *)
(* it with strdup.  Memory that malloc and realloc return holds any bytes. *)
(***************************************************************************)
EXTENDS Naturals, Sequences

CONSTANTS
    Bytes,     \* the bytes, 0 among them
    FirstCap,  \* the first capacity: 64
    Pieces,    \* what a call may append
    MaxLen     \* bound: bytes in the buffer

ASSUME ByteAssumption  == 0 \in Bytes
ASSUME CapAssumption   == FirstCap \in Nat \ {0}
ASSUME PieceAssumption == Pieces \subseteq Seq(Bytes)
ASSUME MaxLenAssumption == MaxLen \in Nat

VARIABLES
    cells,  \* the bytes at b->data, as many as b->cap; none if it is NULL
    len,    \* b->len
    peak    \* history: the largest length so far

vars == <<cells, len, peak>>

NUL == 0
cap == Len(cells)

-----------------------------------------------------------------------------
(* The operations. *)

\* laure_buf_append makes room for the bytes and not for the NUL.
Need_NoNul(s) == len + Len(s)

\* The bytes laure_buf_append needs.
Need(s) == len + Len(s) + 1

\* newcap, before the loop.
FirstGuess == IF cap = 0 THEN FirstCap ELSE 2 * cap

\* newcap, which is doubled while it is less than what is needed.
NewCap(c, need) ==
    /\ c >= need
    /\ \/ c = FirstGuess
       \/ \E k \in 1..need : c = FirstGuess * 2 ^ k /\ c \div 2 < need

\* realloc, malloc: the bytes past the old capacity are any.
Resized(c, junk) == [i \in 1..c |-> IF i <= cap THEN cells[i] ELSE junk]

\* The bytes of s and a NUL are written behind those of the buffer.
Written(mem, s) ==
    [i \in 1..Len(mem) |-> IF i \in (len + 1)..(len + Len(s)) THEN s[i - len]
                           ELSE IF i = len + Len(s) + 1 THEN NUL ELSE mem[i]]

\* laure_buf_append.
Fits(s) == s # <<>> /\ Need(s) <= cap

AppendInPlace(s) ==
    /\ Fits(s)
    /\ cells' = Written(cells, s)
    /\ len' = len + Len(s)

AppendGrown(s) ==
    /\ s # <<>> /\ ~Fits(s)
    /\ \E c \in 1..(2 * Need(s) + FirstCap), junk \in Bytes :
          /\ NewCap(c, Need(s))
          /\ cells' = Written(Resized(c, junk), s)
    /\ len' = len + Len(s)

\* ... of nothing, or with no memory to be had.
AppendNothing(s) ==
    /\ ~Fits(s)
    /\ UNCHANGED <<cells, len>>

BufAppend(s) ==
    /\ len + Len(s) <= MaxLen
    /\ AppendInPlace(s) \/ AppendGrown(s) \/ AppendNothing(s)
    /\ peak' = IF len' > peak THEN len' ELSE peak

\* laure_buf_reset that leaves the bytes alone.
Reset_LengthOnly == len' = 0 /\ UNCHANGED cells

\* laure_buf_reset.
Reset ==
    /\ len' = 0
    /\ cells' = IF cells = <<>> THEN <<>> ELSE [cells EXCEPT ![1] = NUL]

BufReset == Reset /\ UNCHANGED peak

\* memmove that skips one of the bytes that stay.
Moved_OffByOne(n) ==
    [i \in 1..cap |-> IF i <= len - n THEN cells[i + n + 1]
                      ELSE IF i = len - n + 1 THEN NUL ELSE cells[i]]

\* memmove, and a NUL behind what is left.
Moved(n) ==
    [i \in 1..cap |-> IF i <= len - n THEN cells[i + n]
                      ELSE IF i = len - n + 1 THEN NUL ELSE cells[i]]

\* laure_buf_consume.
BufConsume(n) ==
    /\ IF n >= len THEN Reset
       ELSE /\ cells' = Moved(n)
            /\ len' = len - n
    /\ UNCHANGED peak

\* laure_buf_free; the buffer is as after laure_buf_init.
BufFree ==
    /\ cells' = <<>> /\ len' = 0
    /\ peak' = 0

-----------------------------------------------------------------------------
(* The specification. *)

Init == cells = <<>> /\ len = 0 /\ peak = 0

Next ==
    \/ \E s \in Pieces : BufAppend(s)
    \/ \E n \in 0..MaxLen : BufConsume(n)
    \/ BufReset \/ BufFree

Spec == Init /\ [][Next]_vars

-----------------------------------------------------------------------------
(* Properties. *)

TypeOK ==
    /\ cells \in Seq(Bytes)
    /\ len \in 0..MaxLen
    /\ peak \in 0..MaxLen

\* There is always room for the bytes and for the NUL behind them, so that no
\* write of laure_buf_append, reset or consume leaves the memory it has.
InBounds == (cells = <<>> /\ len = 0) \/ len < cap

\* The bytes are followed by a NUL after any calls: strdup of a header's value,
\* emptied and filled again for each header, stops at the end of the value.
NulTerminated == cells # <<>> => cells[len + 1] = NUL

\* However it grew, the memory is less than twice what the longest content so
\* far needed, or the first capacity.
CapBounded == cap <= FirstCap \/ cap < 2 * (peak + 1)

\* The inductive invariant.
IInv == TypeOK /\ InBounds /\ NulTerminated /\ CapBounded /\ len <= peak

\* The bytes are those that were appended and not consumed, in order.
Content == SubSeq(cells, 1, len)
Queue == INSTANCE ByteQueue WITH q <- Content
KeepsQueue == Queue!Spec

=============================================================================
