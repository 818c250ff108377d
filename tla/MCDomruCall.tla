---------------------------- MODULE MCDomruCall ----------------------------
(* DomruCall for TLC: the callers of the interface are interchangeable, and so *)
(* are the Call-IDs.                                                           *)
EXTENDS DomruCall, TLC

Interchangeable == Permutations(Callers) \cup Permutations(Ids)
=============================================================================
