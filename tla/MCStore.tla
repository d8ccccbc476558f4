------------------------------ MODULE MCStore ------------------------------
(* TLC instances of OxgStore. *)
EXTENDS OxgStore, TLC

\* The stores of a run with several handles are indifferent to their names.
HandleSymmetry == Permutations(Handles)
=============================================================================
