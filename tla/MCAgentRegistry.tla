--------------------------- MODULE MCAgentRegistry --------------------------
(***************************************************************************)
(* Small instances of AgentRegistry for TLC.                               *)
(***************************************************************************)
EXTENDS AgentRegistry, TLC

Symmetry == Permutations(Creators)
=============================================================================
