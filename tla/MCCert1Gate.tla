----------------------------- MODULE MCCert1Gate ----------------------------
(***************************************************************************)
(* Small instances of Cert1Gate for TLC.                                   *)
(***************************************************************************)
EXTENDS Cert1Gate, TLC

Symmetry == Permutations(Requests)
=============================================================================
