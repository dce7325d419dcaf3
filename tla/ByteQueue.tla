------------------------------- MODULE ByteQueue -------------------------------
(* What a laure_buf_t promises: a string of bytes that grows at its end and is  *)
(* consumed at its beginning.  An append may fail, and then changes nothing.    *)
EXTENDS Naturals, Sequences

CONSTANT Pieces  \* what an append may add

VARIABLE q

Init == q = <<>>

Appended(s) == q' = q \o s
Consume(n) == n < Len(q) /\ q' = SubSeq(q, n + 1, Len(q))
Clear == q' = <<>>

Next == Clear \/ (\E s \in Pieces : Appended(s)) \/ (\E n \in 0..Len(q) : Consume(n))

Spec == Init /\ [][Next]_q

=============================================================================
