------------------------------- MODULE MCSession -------------------------------
(* A host thread and a second one; boot, load, evaluations, prints. *)
EXTENDS Session, TLC

Symmetry == Permutations(Threads)
===============================================================================
