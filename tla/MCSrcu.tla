------------------------------- MODULE MCSrcu -------------------------------
(* Srcu for TLC: readers and updaters are interchangeable.                 *)
EXTENDS Srcu, TLC

Symmetry == Permutations(Readers) \cup Permutations(Updaters)
=============================================================================
