------------------------------ MODULE Cert1Gate -----------------------------
(***************************************************************************)
(* The cert1 gate of one agent: cert1_service.py behind api/routes/cert.py,*)
(* with the Redis keys it reads and writes and the Postgres tables it      *)
(* reads (simulation_session_summaries) and writes (cert_events).          *)
(*                                                                         *)
(* A request is a coroutine: it reads Redis without an await and then      *)
(* awaits its Postgres statements, so what it read may be old by the time  *)
(* it acts.  set_agent_phase writes phase and learning rate in one Redis   *)
(* transaction; the rate (0.5 once journeyman) is left out.                *)
(*                                                                         *)
(* The gate finds its agent by the row that create_agent_type inserts, and *)
(* the creation writes or deletes the phase key only after that row is     *)
(* visible: until the creation ends, it is one more writer of the phase.   *)
(***************************************************************************)
EXTENDS Naturals, FiniteSets

CONSTANTS Requests,     \* calls of the three routes
          MaxSessions,  \* bound on the closed simulation sessions
          MaxViolations \* bound on a session's unresolved violations

ASSUME BoundsAssumption == MaxSessions \in Nat /\ MaxViolations \in Nat

VARIABLES
    phase,        \* agent:{name}:phase; a missing key reads "apprentice"
    creating,     \* create_agent_type can still write that key
    cert_ready,   \* agent:{name}:cert_ready
    cert_events,  \* rows of cert_events: [by |-> request, decision |-> ...]
    sessions,     \* closed sessions in the order of closed_at: 1 .. n ->
                  \* violations_unresolved
    summaries,    \* those of them whose row has been inserted
    pc,           \* where each request is
    seen          \* what a status request has read so far

vars == <<phase, creating, cert_ready, cert_events, sessions, summaries, pc, seen>>

gate == <<phase, creating, cert_events>>
simulations == <<sessions, summaries>>

Phases == {"apprentice", "journeyman"}
Decisions == {"approved", "rejected"}
Pending == {"approve", "promote", "reject", "violations", "count"}
Finished == {"done", "conflict", "error"}

NothingSeen == [ready |-> FALSE, unresolved |-> 0, runs |-> 0]

Goto(r, l) == pc' = [pc EXCEPT ![r] = l]

Event(r, d) == [by |-> r, decision |-> d]

Record(r, d) == cert_events' = cert_events \cup {Event(r, d)}

Init ==
    /\ phase = "apprentice"
    /\ creating = TRUE
    /\ cert_ready = FALSE
    /\ cert_events = {}
    /\ sessions = [i \in {} |-> 0]
    /\ summaries = {}
    /\ pc = [r \in Requests |-> "idle"]
    /\ seen = [r \in Requests |-> NothingSeen]

-----------------------------------------------------------------------------
(***************************************************************************)
(* approve_cert1: check the phase, insert the event, set the phase.        *)
(***************************************************************************)
\* Slip: the phase is set before the event is inserted.
PromotingFirst(r) ==
    /\ pc[r] = "idle" /\ phase = "apprentice"
    /\ phase' = "journeyman"
    /\ Goto(r, "approve")
    /\ UNCHANGED <<creating, cert_events, cert_ready, simulations, seen>>

StartApprove(r) ==
    /\ pc[r] = "idle" /\ phase = "apprentice"
    /\ Goto(r, "approve")
    /\ UNCHANGED <<gate, cert_ready, simulations, seen>>

\* Slip: the event is inserted and the promotion forgotten.
ApproveEventOnly(r) ==
    /\ pc[r] = "approve"
    /\ Record(r, "approved")
    /\ Goto(r, "done")
    /\ UNCHANGED <<phase, creating, cert_ready, simulations, seen>>

InsertApproved(r) ==
    /\ pc[r] = "approve"
    /\ Record(r, "approved")
    /\ Goto(r, "promote")
    /\ UNCHANGED <<phase, creating, cert_ready, simulations, seen>>

Promote(r) ==
    /\ pc[r] = "promote"
    /\ phase' = "journeyman"
    /\ Goto(r, "done")
    /\ UNCHANGED <<creating, cert_events, cert_ready, simulations, seen>>

(***************************************************************************)
(* reject_cert1: check the phase, insert the event.                        *)
(***************************************************************************)
StartReject(r) ==
    /\ pc[r] = "idle" /\ phase = "apprentice"
    /\ Goto(r, "reject")
    /\ UNCHANGED <<gate, cert_ready, simulations, seen>>

\* Slip: the phase is written back as it was when it was checked.
RejectRestoringPhase(r) ==
    /\ pc[r] = "reject"
    /\ Record(r, "rejected")
    /\ phase' = "apprentice"
    /\ Goto(r, "done")
    /\ UNCHANGED <<creating, cert_ready, simulations, seen>>

InsertRejected(r) ==
    /\ pc[r] = "reject"
    /\ Record(r, "rejected")
    /\ Goto(r, "done")
    /\ UNCHANGED <<phase, creating, cert_ready, simulations, seen>>

\* AgentNotInPhase: 409 for a decision on an agent that is not an apprentice.
Conflict(r) ==
    /\ pc[r] = "idle" /\ phase # "apprentice"
    /\ Goto(r, "conflict")
    /\ UNCHANGED <<gate, cert_ready, simulations, seen>>

(***************************************************************************)
(* get_cert1_status: Redis first, then the newest summary, then the count. *)
(***************************************************************************)
StartStatus(r) ==
    /\ pc[r] = "idle"
    /\ seen' = [seen EXCEPT ![r].ready = cert_ready]
    /\ Goto(r, "violations")
    /\ UNCHANGED <<gate, cert_ready, simulations>>

Newest == CHOOSE i \in summaries : \A j \in summaries : j <= i

\* Slip: without a simulation there is nothing unresolved.
NoEvidenceNoViolations == IF summaries = {} THEN 0 ELSE sessions[Newest]

\* _latest_simulation_unresolved_violations: the newest by closed_at, and 1
\* when no session has been summarised.
LatestUnresolved == IF summaries = {} THEN 1 ELSE sessions[Newest]

ReadViolations(r) ==
    /\ pc[r] = "violations"
    /\ seen' = [seen EXCEPT ![r].unresolved = LatestUnresolved]
    /\ Goto(r, "count")
    /\ UNCHANGED <<gate, cert_ready, simulations>>

\* _count_simulation_sessions, and the answer.
AnswerStatus(r) ==
    /\ pc[r] = "count"
    /\ seen' = [seen EXCEPT ![r].runs = Cardinality(summaries)]
    /\ Goto(r, "answered")
    /\ UNCHANGED <<gate, cert_ready, simulations>>

\* A statement raises, Redis raises, or the process dies.
RequestFails(r) ==
    /\ pc[r] \in Pending
    /\ Goto(r, "error")
    /\ UNCHANGED <<gate, cert_ready, simulations, seen>>

-----------------------------------------------------------------------------
(***************************************************************************)
(* What the other services do meanwhile: the creation of the agent comes   *)
(* to its end, readiness_scorer stores the flag, simulation sessions       *)
(* close, and their awaited summaries are inserted in any order, or never. *)
(***************************************************************************)
\* create_agent_type sets the phase key, or deletes it to compensate; it is
\* answered, or dies, or the next creation of a freed name does the same.
CreateAgent ==
    /\ creating
    /\ phase' \in {phase, "apprentice"}
    /\ creating' \in BOOLEAN
    /\ UNCHANGED <<cert_ready, cert_events, simulations, pc, seen>>

ScoreReadiness ==
    /\ cert_ready' \in BOOLEAN
    /\ UNCHANGED <<gate, simulations, pc, seen>>

CloseSession(u) ==
    /\ Cardinality(DOMAIN sessions) < MaxSessions
    /\ sessions' = [i \in 1 .. Cardinality(DOMAIN sessions) + 1 |->
                       IF i \in DOMAIN sessions THEN sessions[i] ELSE u]
    /\ UNCHANGED <<gate, cert_ready, summaries, pc, seen>>

\* Slip: the row is inserted first and the session is closed after it.
InsertSummaryFirst(i) ==
    /\ i \notin summaries
    /\ summaries' = summaries \cup {i}
    /\ UNCHANGED <<gate, cert_ready, sessions, pc, seen>>

InsertSummary(i) ==
    /\ i \in DOMAIN sessions \ summaries
    /\ summaries' = summaries \cup {i}
    /\ UNCHANGED <<gate, cert_ready, sessions, pc, seen>>

Arrive(r) == StartApprove(r) \/ StartReject(r) \/ Conflict(r) \/ StartStatus(r)

Run(r) == \/ InsertApproved(r) \/ Promote(r)
          \/ InsertRejected(r)
          \/ ReadViolations(r) \/ AnswerStatus(r)
          \/ RequestFails(r)

Others == \/ CreateAgent
          \/ ScoreReadiness
          \/ \E u \in 0 .. MaxViolations : CloseSession(u)
          \/ \E i \in 1 .. MaxSessions : InsertSummary(i)

Next == (\E r \in Requests : Arrive(r) \/ Run(r)) \/ Others

Spec == Init /\ [][Next]_vars

-----------------------------------------------------------------------------
TypeOK ==
    /\ phase \in Phases /\ creating \in BOOLEAN
    /\ cert_ready \in BOOLEAN
    /\ cert_events \subseteq [by : Requests, decision : Decisions]
    /\ DOMAIN sessions \subseteq 1 .. MaxSessions
    /\ sessions \in [DOMAIN sessions -> 0 .. MaxViolations]
    /\ summaries \subseteq DOMAIN sessions
    /\ pc \in [Requests -> {"idle", "answered"} \cup Pending \cup Finished]
    /\ seen \in [Requests -> [ready : BOOLEAN, unresolved : Nat, runs : Nat]]

\* I2 (speckit/shared/INVARIANTS.md:18): an agent is a journeyman only after
\* an expert's approval is on record, even if the process dies on the way.
JourneymanHasApproval ==
    phase = "journeyman" => \E r \in Requests : Event(r, "approved") \in cert_events

\* An approval on record promotes the agent, unless the request that recorded
\* it is about to or failed: no approval is silently without effect.
ApprovalHasEffect ==
    \A r \in Requests : Event(r, "approved") \in cert_events =>
        phase = "journeyman" \/ pc[r] \in {"promote", "error"}

\* Whatever decisions race or fail, no step breaks this but one: a creation
\* that is still at work when the agent is promoted already.
ApprovalIsCarriedOut ==
    [][ApprovalHasEffect => ApprovalHasEffect' \/ (creating /\ UNCHANGED pc)]_vars

\* The gate is a one-way switch behind a log, whatever decisions race: a late
\* rejection does not take a journeyman back, a request logs one decision at most
\* and for good, and no promotion comes before an approval is on the log.
Switch == INSTANCE Certification WITH Deciders <- Requests
ImplementsCertification == Switch!Spec

\* cert1-status answers "ready" only on evidence: a summarised session without
\* unresolved violations, counted in the same answer although the count is
\* read later than the violations.
ReadyOnEvidence ==
    \A r \in Requests :
        pc[r] = "answered" /\ seen[r].ready /\ seen[r].unresolved = 0 =>
            /\ seen[r].runs > 0
            /\ \E i \in summaries : sessions[i] = 0
=============================================================================
