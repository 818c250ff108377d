--------------------------- MODULE MCVicomServer ---------------------------
(* Small instances of VicomServer. *)
EXTENDS VicomServer, TLC

\* Any two connections may change places.
Symmetry == Permutations(Conns)
=============================================================================
