----------------------------- MODULE MCLaureLoop -----------------------------
(* Instances of LaureLoop for TLC. *)
EXTENDS LaureLoop, TLC

\* Connections are interchangeable: no operator tells one from another.
Symmetry == Permutations(Conns)

=============================================================================
