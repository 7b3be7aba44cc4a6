------------------------------ MODULE Lifecycle -----------------------------
(***************************************************************************)
(* From a reviewed composition to a certified agent: the composition of    *)
(* ProposalReview, the simulation sessions and Cert1Gate over the tables   *)
(* they share.                                                             *)
(*                                                                         *)
(* A simulation starts on the newest composition when it is approved,      *)
(* keeps the number of that version in memory, and closes with a summary   *)
(* that the gate reads.  Nothing ties the three together but this number:  *)
(* reviews go on while a session runs, and the process can restart.        *)
(* What happens inside a session is SimulationSession's; here a session    *)
(* closes with any number of unresolved violations.                        *)
(***************************************************************************)
EXTENDS ProposalReview

CONSTANTS
    Deciders,       \* calls of the three routes of the gate
    Simulators,     \* sessions that can be in memory at the same time
    MaxSessions,    \* bound on the closed sessions
    MaxViolations   \* bound on a session's unresolved violations

ASSUME LifecycleBounds == MaxSessions \in Nat /\ MaxViolations \in Nat

VARIABLES
    phase, creating, cert_ready, cert_events, sessions, summaries, stage, seen,
    running,        \* _sessions: session -> composition_version, 0 for none
    version_of      \* closed session -> the composition_version of its summary

Gate == INSTANCE Cert1Gate WITH Requests <- Deciders, pc <- stage

review == vars
certification == <<phase, creating, cert_ready, cert_events, sessions, summaries, stage, seen>>
simulation == <<running, version_of>>
allVars == <<review, certification, simulation>>

LInit ==
    /\ Init
    /\ Gate!Init
    /\ running = [s \in Simulators |-> 0]
    /\ version_of = [i \in {} |-> 0]

-----------------------------------------------------------------------------
\* Slip: any composition but an open proposal can be simulated.
StartUnlessProposed(s) ==
    /\ running[s] = 0
    /\ MaxVersion # 0 /\ rows[MaxVersion].status # "proposed"
    /\ running' = [running EXCEPT ![s] = MaxVersion]
    /\ UNCHANGED <<review, certification, version_of>>

\* start_session: the newest composition must be approved.
StartSession(s) ==
    /\ running[s] = 0
    /\ MaxVersion # 0 /\ rows[MaxVersion].status = "approved"
    /\ running' = [running EXCEPT ![s] = MaxVersion]
    /\ UNCHANGED <<review, certification, version_of>>

\* Slip: the session is dropped from memory before its summary is made.
CloseAndForget(s, u) ==
    /\ running[s] # 0
    /\ Gate!CloseSession(u)
    /\ running' = [running EXCEPT ![s] = 0]
    /\ version_of' = [i \in DOMAIN sessions' |->
                         IF i \in DOMAIN sessions THEN version_of[i] ELSE running'[s]]
    /\ UNCHANGED review

\* close_session with u unresolved violations, up to the INSERT of the
\* summary; the summary carries the version the session started with.
Close(s, u) ==
    /\ running[s] # 0
    /\ Gate!CloseSession(u)
    /\ running' = [running EXCEPT ![s] = 0]
    /\ version_of' = [i \in DOMAIN sessions' |->
                         IF i \in DOMAIN sessions THEN version_of[i] ELSE running[s]]
    /\ UNCHANGED review

\* The process dies and starts again: sessions in memory and every request in
\* flight are gone, the tables and Redis stay.
Restart ==
    /\ running' = [s \in Simulators |-> 0]
    /\ pc' = [r \in Requests |-> IF pc[r] \in Pending THEN "error" ELSE pc[r]]
    /\ stage' = [d \in Deciders |-> IF stage[d] \in Gate!Pending THEN "error" ELSE stage[d]]
    /\ UNCHANGED <<rows, locals, phase, creating, cert_ready, cert_events, sessions,
                   summaries, seen, version_of>>

Review == Next /\ UNCHANGED <<certification, simulation>>

Certify ==
    /\ \/ \E d \in Deciders : Gate!Arrive(d) \/ Gate!Run(d)
       \/ Gate!CreateAgent \/ Gate!ScoreReadiness
       \/ \E i \in 1 .. MaxSessions : Gate!InsertSummary(i)
    /\ UNCHANGED <<review, simulation>>

Simulate == \E s \in Simulators :
                StartSession(s) \/ \E u \in 0 .. MaxViolations : Close(s, u)

LNext == Review \/ Certify \/ Simulate \/ Restart

LSpec == LInit /\ [][LNext]_allVars

-----------------------------------------------------------------------------
LTypeOK ==
    /\ TypeOK /\ Gate!TypeOK
    /\ running \in [Simulators -> Nat]
    /\ version_of \in [DOMAIN sessions -> Nat \ {0}]

\* An expert's review approved version v, and its row carries the name that
\* this review gave.  (The name can be null: ApprovedMeansSigned.)
Approved(v) ==
    /\ v \in DOMAIN rows
    /\ \E r \in Requests : Approves(r, v) /\ expert_id[r] = rows[v].expert_signature

\* cert1-status answers "ready" only if a composition that a review approved
\* went through a simulation without unresolved violations, although the
\* composition was read by a session that may be long gone, the summary came
\* later and reviews went on meanwhile.
ReadyOnApprovedComposition ==
    \A d \in Deciders :
        stage[d] = "answered" /\ seen[d].ready /\ seen[d].unresolved = 0 =>
            \E i \in summaries : sessions[i] = 0 /\ Approved(version_of[i])

\* The composition a simulation ran on ceases to be approved in one way only:
\* two reviews of that version were admitted, one approved it and the other
\* archived it (the race that I6 forbids).  A version that an edit inserted
\* was never open to review, so a simulation of it never goes stale.
StaleOnlyByRace ==
    \A i \in DOMAIN sessions :
        rows[version_of[i]].status # "approved" =>
            \E q, r \in Requests :
                /\ latest[q] = version_of[i] /\ op[q] = "approve" /\ pc[q] = "done"
                /\ latest[r] = version_of[i] /\ op[r] \in {"edit", "reject"}
=============================================================================
