------------------------------- MODULE MCClosing -------------------------------
(* Closing on small sets.  The properties are invariants, and no thread or batch *)
(* is told from another, so both may be permuted.                               *)
EXTENDS Closing, TLC

Symmetry == Permutations(Threads) \cup Permutations(Batches)
=============================================================================
