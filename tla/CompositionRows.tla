-------------------------- MODULE CompositionRows --------------------------
(***************************************************************************)
(* The rows of the team_compositions table of one agent type, and what the *)
(* queries on it compute.  Topology, agents, contracts and rationale are   *)
(* left out: no statement of the review service looks at them.             *)
(***************************************************************************)
EXTENDS Naturals

CONSTANTS Experts,    \* the people who sign compositions
          NoExpert    \* NULL: in the column, and in the body of a request

ASSUME ExpertAssumption == NoExpert \notin Experts

\* What expert_signature, a nullable column, can hold.
Signatures == Experts \cup {NoExpert}

Statuses == {"proposed", "approved", "archived"}

\* A table maps version numbers to rows.
Row == [status : Statuses,
        expert_signature : Signatures,
        rejection_reason : BOOLEAN]     \* rationale has the key

\* The row that _persist_proposal inserts.
ProposedRow == [status |-> "proposed", expert_signature |-> NoExpert,
                rejection_reason |-> FALSE]

\* The row that edit_proposal inserts, e being whom its request named.
EditedRow(e) == [status |-> "approved", expert_signature |-> e,
                 rejection_reason |-> FALSE]

\* Insert row r with version number v.
Insert(t, v, r) == [u \in DOMAIN t \cup {v} |-> IF u = v THEN r ELSE t[u]]

\* v is the newest version of table t.
IsNewest(t, v) == v \in DOMAIN t /\ \A u \in DOMAIN t : u <= v

\* The version number that follows every version of table t.
IsNext(t, v) == \/ DOMAIN t = {} /\ v = 1
                \/ v > 0 /\ IsNewest(t, v - 1)

\* _require_mutable_latest lets version v be reviewed.
Mutable(t, v) == t[v].status # "approved" /\ t[v].expert_signature = NoExpert
=============================================================================
