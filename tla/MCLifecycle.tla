----------------------------- MODULE MCLifecycle ----------------------------
(***************************************************************************)
(* A small instance of Lifecycle for TLC.                                  *)
(***************************************************************************)
EXTENDS Lifecycle, TLC

Symmetry == Permutations(Requests) \cup Permutations(Deciders)
               \cup Permutations(Simulators)
=============================================================================
