------------------------------ MODULE MCFdTx ------------------------------
(* FdTx on small instances; the configurations give the constants. *)
EXTENDS FdTx, TLC

Symmetry == Permutations(Threads)
=============================================================================
