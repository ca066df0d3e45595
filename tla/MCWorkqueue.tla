---------------------------- MODULE MCWorkqueue ----------------------------
(* Symmetry for the safety runs of Workqueue: the workqueues and the       *)
(* clients are interchangeable, as no definition tells them apart.         *)
EXTENDS Workqueue

Symmetry == Permutations(Wqs) \cup Permutations(Clients)
=============================================================================
