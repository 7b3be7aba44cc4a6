-------------------------- MODULE MCProposalReview --------------------------
(***************************************************************************)
(* Small instances of ProposalReview for TLC.                              *)
(***************************************************************************)
EXTENDS ProposalReview, TLC

\* Requests only appear as indices and experts only as signatures.
Symmetry == Permutations(Requests) \cup Permutations(Experts)
=============================================================================
