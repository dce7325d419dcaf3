----------------------------- MODULE StrBuf_proofs -----------------------------
(* Proofs about StrBuf: memory safety, termination by a NUL, the bound on the  *)
(* capacity, and that the buffer implements a queue of bytes, for any bytes,   *)
(* first capacity, pieces and bound.                                           *)
EXTENDS StrBuf, SequenceTheorems, TLAPS

LEMMA Twice ==
    ASSUME NEW a \in Nat, NEW b \in Nat, NEW c \in Nat, c < 2 * a, a <= b + 1
    PROVE  c < 2 * (b + 1)
OBVIOUS

(* What an append leaves in memory that is large enough. *)
LEMMA WrittenSafe ==
    ASSUME TypeOK, NEW s \in Pieces, s # <<>>, NEW mem \in Seq(Bytes),
           Need(s) <= Len(mem), cells' = Written(mem, s), len' = len + Len(s),
           len + Len(s) <= MaxLen, peak' = IF len' > peak THEN len' ELSE peak
    PROVE  /\ cells' \in Seq(Bytes) /\ Len(cells') = Len(mem)
           /\ len' \in 0..MaxLen /\ peak' \in 0..MaxLen
           /\ len' < Len(cells') /\ cells'[len' + 1] = NUL
<1>1. /\ Len(mem) \in Nat /\ len \in Nat /\ s \in Seq(Bytes) /\ Len(s) \in Nat
      /\ peak \in Nat /\ MaxLen \in Nat
  BY PieceAssumption, MaxLenAssumption DEF TypeOK
<1>2. \A i \in 1..Len(mem) : cells'[i] \in Bytes
  <2> TAKE i \in 1..Len(mem)
  <2>1. cells'[i] = IF i \in (len + 1)..(len + Len(s)) THEN s[i - len]
                    ELSE IF i = len + Len(s) + 1 THEN NUL ELSE mem[i]
    BY DEF Written
  <2>2. CASE i \in (len + 1)..(len + Len(s))
    <3>1. i - len \in 1..Len(s)
      BY <1>1, <2>2
    <3> QED
      BY <1>1, <2>1, <2>2, <3>1
  <2>3. CASE i \notin (len + 1)..(len + Len(s))
    BY <2>1, <2>3, ByteAssumption DEF NUL
  <2> QED
    BY <2>2, <2>3
<1>3. cells' \in [1..Len(mem) -> Bytes]
  BY <1>2 DEF Written
<1>4. cells' \in Seq(Bytes) /\ Len(cells') = Len(mem)
  BY <1>1, <1>3
<1>5. len' \in 0..MaxLen /\ peak' \in 0..MaxLen /\ len' < Len(mem)
  BY <1>1 DEF TypeOK, Need
<1>6. len + Len(s) + 1 \in 1..Len(mem) /\ len + Len(s) + 1 \notin (len + 1)..(len + Len(s))
  BY <1>1 DEF Need
<1>7. cells'[len + Len(s) + 1] = NUL
  BY <1>6 DEF Written
<1> QED
  BY <1>4, <1>5, <1>7

(* The same of every append. *)
LEMMA AppendSafe ==
    ASSUME IInv, NEW s \in Pieces, BufAppend(s)
    PROVE  IInv'
<1> USE DEF IInv
<1>1. /\ cap \in Nat /\ len \in Nat /\ s \in Seq(Bytes) /\ Len(s) \in Nat
      /\ peak \in Nat /\ MaxLen \in Nat /\ FirstCap \in Nat \ {0}
  BY PieceAssumption, MaxLenAssumption, CapAssumption DEF TypeOK, cap
<1>2. CASE AppendInPlace(s)
  <2>1. /\ cells' \in Seq(Bytes) /\ Len(cells') = Len(cells)
        /\ len' \in 0..MaxLen /\ peak' \in 0..MaxLen
        /\ len' < Len(cells') /\ cells'[len' + 1] = NUL
    BY <1>2, WrittenSafe DEF AppendInPlace, Fits, BufAppend, TypeOK, cap
  <2>2. peak <= peak' /\ len' <= peak'
    BY <1>1, <2>1 DEF BufAppend
  <2>3. CapBounded'
    BY <1>1, <2>1, <2>2 DEF CapBounded, cap
  <2> QED
    BY <2>1, <2>2, <2>3 DEF TypeOK, InBounds, NulTerminated, cap
<1>3. CASE AppendGrown(s)
  <2>1. PICK c \in 1..(2 * Need(s) + FirstCap), junk \in Bytes :
            NewCap(c, Need(s)) /\ cells' = Written(Resized(c, junk), s)
    BY <1>3 DEF AppendGrown
  <2>2. Resized(c, junk) \in Seq(Bytes) /\ Len(Resized(c, junk)) = c
    <3>1. c \in Nat /\ \A i \in 1..c : Resized(c, junk)[i] \in Bytes
      BY <1>1, <2>1 DEF Resized, TypeOK, cap, Need
    <3>2. Resized(c, junk) \in [1..c -> Bytes]
      BY <3>1 DEF Resized
    <3> QED
      BY <3>1, <3>2
  <2>3. s # <<>> /\ Need(s) <= c /\ len' = len + Len(s) /\ Need(s) \in Nat /\ c \in Nat
    BY <1>1, <1>3, <2>1 DEF AppendGrown, NewCap, Need
  <2>4. /\ cells' \in Seq(Bytes) /\ Len(cells') = c
        /\ len' \in 0..MaxLen /\ peak' \in 0..MaxLen
        /\ len' < Len(cells') /\ cells'[len' + 1] = NUL
    BY <2>1, <2>2, <2>3, WrittenSafe DEF BufAppend, TypeOK
  <2>5. peak <= peak' /\ len' <= peak'
    BY <1>1, <2>4 DEF BufAppend
  <2>6. c = FirstGuess \/ c < 2 * Need(s)
    BY <1>1, <2>1, <2>3 DEF NewCap
  <2>7. cap < Need(s)
    BY <1>1, <1>3, <2>3 DEF AppendGrown, Fits
  <2>8. c <= FirstCap \/ c < 2 * Need(s)
    BY <1>1, <2>3, <2>6, <2>7 DEF FirstGuess
  <2>9. Need(s) <= peak' + 1
    BY <1>1, <2>3, <2>4, <2>5 DEF Need
  <2>10. c <= FirstCap \/ c < 2 * (peak' + 1)
    <3>1. peak' \in Nat /\ Need(s) \in Nat /\ c \in Nat
      BY <1>1, <2>3, <2>4
    <3>2. ASSUME c < 2 * Need(s) PROVE c < 2 * (peak' + 1)
      BY <2>9, <3>1, <3>2, Twice
    <3> QED
      BY <2>8, <3>2
  <2>11. CapBounded'
    BY <2>4, <2>10 DEF CapBounded, cap
  <2> QED
    BY <2>4, <2>5, <2>11 DEF TypeOK, InBounds, NulTerminated, cap
<1>4. CASE AppendNothing(s)
  <2>1. peak' = peak
    BY <1>1, <1>4 DEF AppendNothing, BufAppend
  <2> QED
    BY <1>4, <2>1 DEF AppendNothing, TypeOK, InBounds, NulTerminated, CapBounded, cap
<1> QED
  BY <1>2, <1>3, <1>4 DEF BufAppend

(* laure_buf_reset. *)
LEMMA ResetSafe ==
    ASSUME IInv, Reset, peak' = peak
    PROVE  IInv'
<1> USE DEF IInv
<1>1. CASE cells = <<>>
  BY <1>1, MaxLenAssumption DEF Reset, TypeOK, InBounds, NulTerminated, CapBounded, cap
<1>2. CASE cells # <<>>
  <2>1. /\ cells' = [cells EXCEPT ![1] = NUL] /\ len' = 0
    BY <1>2 DEF Reset
  <2>2. Len(cells) \in Nat /\ Len(cells) > 0 /\ NUL \in Bytes
    BY <1>2, ByteAssumption DEF TypeOK, NUL
  <2>3. cells' \in Seq(Bytes) /\ Len(cells') = Len(cells) /\ cells'[1] = NUL
    BY <2>1, <2>2 DEF TypeOK
  <2> QED
    BY <2>1, <2>2, <2>3, MaxLenAssumption DEF TypeOK, InBounds, NulTerminated, CapBounded, cap
<1> QED
  BY <1>1, <1>2

(* laure_buf_consume. *)
LEMMA ConsumeSafe ==
    ASSUME IInv, NEW n \in 0..MaxLen, BufConsume(n)
    PROVE  IInv'
<1> USE DEF IInv
<1>1. CASE n >= len
  BY <1>1, ResetSafe DEF BufConsume
<1>2. CASE ~(n >= len)
  <2>1. cells' = Moved(n) /\ len' = len - n /\ peak' = peak
    BY <1>2 DEF BufConsume
  <2>2. /\ cap \in Nat /\ len \in Nat /\ n \in Nat /\ n < len /\ len < cap
        /\ NUL \in Bytes /\ MaxLen \in Nat /\ peak \in Nat
    BY <1>2, ByteAssumption, MaxLenAssumption DEF TypeOK, InBounds, cap, NUL
  <2>3. cells' \in [1..cap -> Bytes]
    <3>1. \A i \in 1..cap : Moved(n)[i] \in Bytes
      BY <2>2 DEF Moved, TypeOK, cap
    <3> QED
      BY <2>1, <3>1 DEF Moved
  <2>4. cells' \in Seq(Bytes) /\ Len(cells') = cap
    BY <2>2, <2>3
  <2>5. cells'[len' + 1] = NUL
    BY <2>1, <2>2 DEF Moved
  <2> QED
    BY <2>1, <2>2, <2>4, <2>5 DEF TypeOK, InBounds, NulTerminated, CapBounded, cap
<1> QED
  BY <1>1, <1>2

(* The buffer stays inside its memory, which ends its content with a NUL and  *)
(* is less than twice what was ever needed: laure_buf_append, reset, consume   *)
(* and free in any order, whatever malloc returns.                             *)
THEOREM Invariant == Spec => []IInv
<1>1. Init => IInv
  BY MaxLenAssumption, CapAssumption
     DEF Init, IInv, TypeOK, InBounds, NulTerminated, CapBounded, cap
<1>2. IInv /\ [Next]_vars => IInv'
  <2> SUFFICES ASSUME IInv, [Next]_vars PROVE IInv'
    OBVIOUS
  <2>1. CASE \E s \in Pieces : BufAppend(s)
    BY <2>1, AppendSafe
  <2>2. CASE \E n \in 0..MaxLen : BufConsume(n)
    BY <2>2, ConsumeSafe
  <2>3. CASE BufReset
    BY <2>3, ResetSafe DEF BufReset
  <2>4. CASE BufFree
    BY <2>4, MaxLenAssumption, CapAssumption
       DEF BufFree, IInv, TypeOK, InBounds, NulTerminated, CapBounded, cap
  <2>5. CASE UNCHANGED vars
    BY <2>5 DEF vars, IInv, TypeOK, InBounds, NulTerminated, CapBounded, cap
  <2> QED
    BY <2>1, <2>2, <2>3, <2>4, <2>5 DEF Next
<1> QED
  BY <1>1, <1>2, PTL DEF Spec

(* No write leaves the buffer's memory. *)
THEOREM AlwaysInBounds == Spec => []InBounds
BY Invariant, PTL DEF IInv

(* Header names and values are C strings whenever they are read. *)
THEOREM AlwaysTerminated == Spec => []NulTerminated
BY Invariant, PTL DEF IInv

(* The memory is bounded by the longest content. *)
THEOREM AlwaysBounded == Spec => []CapBounded
BY Invariant, PTL DEF IInv

-----------------------------------------------------------------------------
(* The buffer implements the queue. *)

(* The first l bytes of memory c. *)
LEMMA Prefix ==
    ASSUME NEW c \in Seq(Bytes), NEW l \in Nat, l <= Len(c)
    PROVE  /\ SubSeq(c, 1, l) \in Seq(Bytes) /\ Len(SubSeq(c, 1, l)) = l
           /\ \A i \in 1..l : SubSeq(c, 1, l)[i] = c[i]
<1>1. \A i \in 1..l : c[i] \in Bytes
  OBVIOUS
<1>2. /\ SubSeq(c, 1, l) \in Seq(Bytes)
      /\ Len(SubSeq(c, 1, l)) = IF 1 <= l THEN l - 1 + 1 ELSE 0
      /\ \A i \in 1..(l - 1 + 1) : SubSeq(c, 1, l)[i] = c[1 + i - 1]
  BY <1>1, SubSeqProperties
<1> QED
  BY <1>2

LEMMA ContentIs ==
    ASSUME IInv
    PROVE  /\ Content \in Seq(Bytes) /\ Len(Content) = len /\ len \in Nat
           /\ \A i \in 1..len : Content[i] = cells[i]
<1>1. cells \in Seq(Bytes) /\ len \in Nat /\ len <= Len(cells)
  BY DEF IInv, TypeOK, InBounds, cap
<1> QED
  BY <1>1, Prefix DEF Content

LEMMA ContentIsNext ==
    ASSUME IInv'
    PROVE  /\ Content' \in Seq(Bytes) /\ Len(Content') = len' /\ len' \in Nat
           /\ \A i \in 1..len' : Content'[i] = cells'[i]
<1>1. cells' \in Seq(Bytes) /\ len' \in Nat /\ len' <= Len(cells')
  BY DEF IInv, TypeOK, InBounds, cap
<1> QED
  BY <1>1, Prefix DEF Content

(* What was in the buffer stays, and s comes behind it. *)
LEMMA WrittenContent ==
    ASSUME IInv, IInv', NEW s \in Pieces, NEW mem, Len(mem) \in Nat, Need(s) <= Len(mem),
           \A i \in 1..len : mem[i] = cells[i],
           cells' = Written(mem, s), len' = len + Len(s)
    PROVE  Content' = Content \o s
<1>1. /\ s \in Seq(Bytes) /\ Len(s) \in Nat /\ len \in Nat
  BY PieceAssumption, ContentIs
<1>2. /\ Content \o s \in Seq(Bytes) /\ Len(Content \o s) = len + Len(s)
      /\ \A i \in 1..(len + Len(s)) :
            (Content \o s)[i] = IF i <= len THEN Content[i] ELSE s[i - len]
  BY <1>1, ContentIs, ConcatProperties
<1>3. ASSUME NEW i \in 1..len'
      PROVE  Content'[i] = (Content \o s)[i]
  <2>1. i \in 1..Len(mem) /\ i \in 1..(len + Len(s))
    BY <1>1, <1>3 DEF Need
  <2>2. cells'[i] = IF i \in (len + 1)..(len + Len(s)) THEN s[i - len]
                    ELSE IF i = len + Len(s) + 1 THEN NUL ELSE mem[i]
    BY <2>1 DEF Written
  <2>3. CASE i <= len
    <3>1. i \in 1..len /\ i \notin (len + 1)..(len + Len(s)) /\ i # len + Len(s) + 1
      BY <1>1, <2>1, <2>3
    <3>2. Content'[i] = cells[i] /\ (Content \o s)[i] = cells[i]
      BY <1>2, <2>1, <2>2, <2>3, <3>1, ContentIs, ContentIsNext
    <3> QED
      BY <3>2
  <2>4. CASE ~(i <= len)
    <3>1. i \in (len + 1)..(len + Len(s))
      BY <1>1, <2>1, <2>4
    <3> QED
      BY <1>2, <2>1, <2>2, <2>4, <3>1, ContentIsNext
  <2> QED
    BY <2>3, <2>4
<1> QED
  BY <1>2, <1>3, ContentIsNext, SeqEqual

LEMMA AppendRefines ==
    ASSUME IInv, IInv', NEW s \in Pieces, BufAppend(s)
    PROVE  Content' = Content \o s \/ Content' = Content
<1>1. /\ s \in Seq(Bytes) /\ Len(s) \in Nat /\ len \in Nat /\ cells \in Seq(Bytes)
      /\ len <= Len(cells) /\ Len(cells) \in Nat /\ FirstCap \in Nat
  BY PieceAssumption, CapAssumption DEF IInv, TypeOK, InBounds, cap
<1>2. CASE AppendInPlace(s)
  BY <1>1, <1>2, WrittenContent DEF AppendInPlace, Fits, cap
<1>3. CASE AppendGrown(s)
  <2>1. PICK c \in 1..(2 * Need(s) + FirstCap), junk \in Bytes :
            NewCap(c, Need(s)) /\ cells' = Written(Resized(c, junk), s)
    BY <1>3 DEF AppendGrown
  <2>2. c \in Nat /\ Need(s) <= c /\ len' = len + Len(s)
    BY <1>1, <1>3, <2>1 DEF AppendGrown, NewCap, Need
  <2>3. Len(Resized(c, junk)) = c
    BY <2>2 DEF Resized
  <2>4. \A i \in 1..len : Resized(c, junk)[i] = cells[i]
    BY <1>1, <2>2 DEF Resized, cap, Need
  <2> QED
    BY <2>1, <2>2, <2>3, <2>4, WrittenContent
<1>4. CASE AppendNothing(s)
  BY <1>4 DEF AppendNothing, Content
<1> QED
  BY <1>2, <1>3, <1>4 DEF BufAppend

LEMMA EmptyContent ==
    ASSUME IInv', len' = 0
    PROVE  Content' = <<>>
BY ContentIsNext, EmptySeq

LEMMA ConsumeRefines ==
    ASSUME IInv, IInv', NEW n \in 0..MaxLen, BufConsume(n)
    PROVE  \/ Content' = <<>>
           \/ n < Len(Content) /\ Content' = SubSeq(Content, n + 1, Len(Content))
<1>1. /\ len \in Nat /\ n \in Nat /\ cells \in Seq(Bytes) /\ len <= cap /\ cap \in Nat
  BY MaxLenAssumption DEF IInv, TypeOK, InBounds, cap
<1>2. CASE n >= len
  BY <1>2, EmptyContent DEF BufConsume, Reset
<1>3. CASE ~(n >= len)
  <2>1. n < len /\ cells' = Moved(n) /\ len' = len - n
    BY <1>1, <1>3 DEF BufConsume
  <2> DEFINE rest == SubSeq(Content, n + 1, len)
  <2>2. \A i \in (n + 1)..len : Content[i] \in Bytes
    BY <1>1, ContentIs
  <2>3. /\ rest \in Seq(Bytes)
        /\ Len(rest) = len - n
        /\ \A i \in 1..(len - n) : rest[i] = Content[n + i]
    <3>1. /\ rest \in Seq(Bytes)
          /\ Len(rest) = IF n + 1 <= len THEN len - (n + 1) + 1 ELSE 0
          /\ \A i \in 1..(len - (n + 1) + 1) : rest[i] = Content[(n + 1) + i - 1]
      BY <1>1, <2>2, SubSeqProperties
    <3> QED
      BY <1>1, <2>1, <3>1
  <2>4. ASSUME NEW i \in 1..len'
        PROVE  Content'[i] = rest[i]
    <3>1. i \in 1..cap /\ i <= len - n /\ n + i \in 1..len /\ i \in 1..(len - n)
      BY <1>1, <2>1, <2>4
    <3>2. cells'[i] = cells[i + n]
      BY <2>1, <3>1 DEF Moved
    <3> QED
      BY <1>1, <2>3, <3>1, <3>2, ContentIs, ContentIsNext
  <2>5. Content' = rest
    BY <2>1, <2>3, <2>4, ContentIsNext, SeqEqual
  <2> QED
    BY <2>1, <2>5, ContentIs
<1> QED
  BY <1>2, <1>3

(* Whatever calls the code makes, the buffer's content is the bytes that were *)
(* appended and not yet consumed or dropped, in order: ByteQueue.              *)
THEOREM Refinement == Spec => KeepsQueue
<1>1. Init => Queue!Init
  <2> SUFFICES ASSUME Init PROVE Content = <<>>
    BY DEF Queue!Init
  <2> QED
    BY SubSeqEmpty DEF Init, Content
<1>2. IInv /\ IInv' /\ [Next]_vars => [Queue!Next]_Content
  <2> SUFFICES ASSUME IInv, IInv', [Next]_vars PROVE [Queue!Next]_Content
    OBVIOUS
  <2>1. ASSUME NEW s \in Pieces, BufAppend(s) PROVE [Queue!Next]_Content
    BY <2>1, AppendRefines DEF Queue!Next, Queue!Appended
  <2>2. ASSUME NEW n \in 0..MaxLen, BufConsume(n) PROVE [Queue!Next]_Content
    <3>1. CASE Content' = <<>>
      BY <3>1 DEF Queue!Next, Queue!Clear
    <3>2. CASE n < Len(Content) /\ Content' = SubSeq(Content, n + 1, Len(Content))
      <4>1. n \in 0..Len(Content)
        BY <3>2, ContentIs, MaxLenAssumption
      <4> QED
        BY <3>2, <4>1 DEF Queue!Next, Queue!Consume
    <3> QED
      BY <2>2, <3>1, <3>2, ConsumeRefines
  <2>3. CASE BufReset \/ BufFree
    <3>1. Content' = <<>>
      BY <2>3, EmptyContent DEF BufReset, Reset, BufFree
    <3> QED
      BY <3>1 DEF Queue!Next, Queue!Clear
  <2>4. CASE UNCHANGED vars
    BY <2>4 DEF vars, Content
  <2> QED
    BY <2>1, <2>2, <2>3, <2>4 DEF Next
<1> QED
  BY <1>1, <1>2, Invariant, PTL DEF Spec, KeepsQueue, Queue!Spec

=============================================================================
