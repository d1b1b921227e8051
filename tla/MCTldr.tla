------------------------------- MODULE MCTldr -------------------------------
(* Tldr on small instances.                                                 *)
EXTENDS Tldr, TLC

Symmetric == Permutations(Taps)
=============================================================================
