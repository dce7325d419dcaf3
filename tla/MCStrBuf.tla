------------------------------- MODULE MCStrBuf -------------------------------
(* An instance of StrBuf for TLC. *)
EXTENDS StrBuf

MCPieces == UNION {[1..k -> Bytes] : k \in 0..4}

=============================================================================
