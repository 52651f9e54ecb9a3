--------------------------- MODULE MCNotePipeline ---------------------------
(***************************************************************************)
(* Instances of NotePipeline for TLC.                                      *)
(***************************************************************************)
EXTENDS NotePipeline, TLC

Symmetry == Permutations(Requests)
=============================================================================
