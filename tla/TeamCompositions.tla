-------------------------- MODULE TeamCompositions --------------------------
(***************************************************************************)
(* The promise behind the team_compositions table of one agent type        *)
(* (speckit/shared/INVARIANTS.md, I6; T1.8): a ledger of versions in which *)
(* only the newest version can be reviewed, and only while it is neither   *)
(* approved nor signed; a version that was approved is never touched       *)
(* again, and nothing is ever deleted.  A review may name nobody and give  *)
(* no reason: the ledger records what it was given.                        *)
(* ProposalReview is the service that keeps the table.                     *)
(***************************************************************************)
EXTENDS CompositionRows

VARIABLE rows         \* version number -> row of the table

-----------------------------------------------------------------------------
Init == rows = [v \in {} |-> ProposedRow]

\* A generated proposal becomes the newest version.
Propose(v) == /\ IsNext(rows, v)
              /\ rows' = Insert(rows, v, ProposedRow)

\* The newest version is approved and gets the signature e.
Approve(v, e) ==
    /\ IsNewest(rows, v) /\ Mutable(rows, v)
    /\ rows' = [rows EXCEPT ![v].status = "approved", ![v].expert_signature = e]

\* The newest version is replaced by an edited one that is approved with e.
Supersede(v, e) ==
    /\ IsNewest(rows, v) /\ Mutable(rows, v)
    /\ rows' = Insert([rows EXCEPT ![v].status = "archived"], v + 1, EditedRow(e))

\* The newest version is rejected, with a reason or without one.
Reject(v, reason) ==
    /\ IsNewest(rows, v) /\ Mutable(rows, v)
    /\ rows' = [rows EXCEPT ![v].status = "archived", ![v].rejection_reason = reason]

\* Version numbers are bounded only by what the table holds.
Next == \/ \E v \in {1} \cup {u + 1 : u \in DOMAIN rows} : Propose(v)
        \/ \E v \in DOMAIN rows :
              \/ \E e \in Signatures : Approve(v, e) \/ Supersede(v, e)
              \/ \E reason \in BOOLEAN : Reject(v, reason)

Spec == Init /\ [][Next]_rows
=============================================================================
