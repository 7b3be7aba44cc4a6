--------------------------- MODULE Cert1GateProofs --------------------------
(***************************************************************************)
(* Proofs about Cert1Gate, for any number of requests, sessions and        *)
(* violations.  Inv adds to the properties what a request in flight knows: *)
(* the one about to promote has its approval on record, one that has not   *)
(* decided yet has no event in the log, and a status that read no          *)
(* violation read it in a summary that is still there.                     *)
(***************************************************************************)
EXTENDS Cert1Gate, FiniteSetTheorems, WellFoundedInduction, TLAPS

\* Sessions are numbered in the order of closed_at.
SessionsFromOne == \E n \in 0 .. MaxSessions : DOMAIN sessions = 1 .. n

PromoterHasApproval ==
    \A r \in Requests : pc[r] = "promote" => Event(r, "approved") \in cert_events

DecidesOnce ==
    \A r \in Requests : pc[r] \in {"idle", "approve", "reject"} =>
        \A e \in cert_events : e.by # r

CleanSummary == \E i \in summaries : sessions[i] = 0

SeenOnEvidence ==
    \A r \in Requests :
        /\ pc[r] \in {"count", "answered"} /\ seen[r].unresolved = 0 => CleanSummary
        /\ pc[r] = "answered" /\ seen[r].unresolved = 0 => seen[r].runs > 0

Inv == /\ TypeOK
       /\ SessionsFromOne
       /\ PromoterHasApproval
       /\ DecidesOnce
       /\ SeenOnEvidence
       /\ JourneymanHasApproval

-----------------------------------------------------------------------------
\* Summaries are finitely many, and if there are any, one is the newest.
LEMMA NewestExists ==
    ASSUME TypeOK
    PROVE  /\ IsFiniteSet(summaries)
           /\ summaries # {} => Newest \in summaries
<1>1. summaries \subseteq 1 .. MaxSessions  BY DEF TypeOK
<1>2. IsFiniteSet(summaries)
  <2>1. IsFiniteSet(1 .. MaxSessions)  BY FS_Interval, BoundsAssumption
  <2> QED  BY <1>1, <2>1, FS_Subset
<1>3. ASSUME summaries # {}
      PROVE  \E i \in summaries : \A j \in summaries : j <= i
  \* The newest session is the one with the fewest numbers above it.
  <2> DEFINE Above == {k \in Nat : MaxSessions - k \in summaries}
  <2>1. Above \subseteq Nat /\ Above # {}
    <3>1. PICK i \in summaries : TRUE  BY <1>3
    <3>2. i \in 1 .. MaxSessions  BY <1>1
    <3>3. MaxSessions - i \in Nat /\ MaxSessions - (MaxSessions - i) = i
      BY <3>2, BoundsAssumption
    <3> QED  BY <3>1, <3>3
  <2>2. PICK k \in Above : \A m \in Above : ~ (<<m, k>> \in OpToRel(<, Nat))
    BY <2>1, NatLessThanWellFounded, WFMin
  <2>3. \A m \in Above : ~ (m < k)
    BY <2>1, <2>2 DEF OpToRel
  <2>4. MaxSessions - k \in summaries  OBVIOUS
  <2>5. ASSUME NEW j \in summaries PROVE j <= MaxSessions - k
    <3>1. j \in 1 .. MaxSessions  BY <1>1
    <3>2. MaxSessions - j \in Above
      BY <3>1, BoundsAssumption
    <3>3. ~ (MaxSessions - j < k)  BY <2>3, <3>2
    <3> QED  BY <2>1, <3>1, <3>3, BoundsAssumption
  <2> QED  BY <2>4, <2>5
<1> QED  BY <1>2, <1>3 DEF Newest

\* The initial states.
LEMMA InvInit == Init => Inv
<1> SUFFICES ASSUME Init PROVE Inv
  OBVIOUS
<1> USE DEF Init
<1>1. DOMAIN sessions = {}  OBVIOUS
<1>2. TypeOK
  BY <1>1 DEF TypeOK, Phases, NothingSeen, Pending, Finished, Decisions
<1>3. SessionsFromOne
  <2>1. 0 \in 0 .. MaxSessions /\ 1 .. 0 = {}  BY BoundsAssumption
  <2> QED  BY <1>1, <2>1 DEF SessionsFromOne
<1> QED  BY <1>2, <1>3 DEF Inv, PromoterHasApproval, DecidesOnce,
            SeenOnEvidence, JourneymanHasApproval, Event

\* Decisions: the two handlers that write cert_events.
LEMMA DecisionStep ==
    ASSUME Inv, NEW r \in Requests,
           \/ StartApprove(r) \/ InsertApproved(r) \/ Promote(r)
           \/ StartReject(r) \/ InsertRejected(r) \/ Conflict(r)
    PROVE  Inv'
<1> USE DEF Inv, Goto
<1>0. /\ UNCHANGED <<creating, sessions, summaries, seen, cert_ready>>
      /\ \A q \in Requests : pc'[q] \in {"count", "answered"} => pc'[q] = pc[q]
      /\ \E l \in Pending \cup Finished : pc' = [pc EXCEPT ![r] = l]
  BY DEF StartApprove, InsertApproved, Promote, StartReject, InsertRejected,
         Conflict, gate, simulations, TypeOK, Pending, Finished
<1>1. SessionsFromOne' /\ SeenOnEvidence'
  BY <1>0 DEF SessionsFromOne, SeenOnEvidence, CleanSummary
<1>2. /\ cert_events \subseteq cert_events'
      /\ cert_events' \subseteq [by : Requests, decision : Decisions]
      /\ phase' \in Phases
  BY DEF StartApprove, InsertApproved, Promote, StartReject, InsertRejected,
         Conflict, gate, Record, Event, TypeOK, Decisions, Phases
<1>3. TypeOK'  BY <1>0, <1>2 DEF TypeOK
<1>8. DecidesOnce'
  <2>1. pc[r] \in {"idle", "approve", "reject"} =>
           \A e \in cert_events : e.by # r
    BY DEF DecidesOnce
  <2>2. CASE UNCHANGED cert_events
    <3>1. \A q \in Requests : pc'[q] \in {"idle", "approve", "reject"} =>
             pc[q] \in {"idle", "approve", "reject"}
      BY DEF StartApprove, InsertApproved, Promote, StartReject, InsertRejected,
             Conflict, TypeOK
    <3> QED  BY <2>2, <3>1 DEF DecidesOnce
  <2>3. CASE \E d \in Decisions : cert_events' = cert_events \cup {Event(r, d)}
    <3>1. CASE UNCHANGED cert_events  BY <2>2, <3>1
    <3>2. CASE InsertApproved(r) \/ InsertRejected(r)
      BY <2>3, <3>2 DEF InsertApproved, InsertRejected, DecidesOnce, Event, TypeOK
    <3> QED  BY <3>1, <3>2 DEF StartApprove, Promote, StartReject, Conflict, gate
  <2> QED  BY <2>2, <2>3 DEF StartApprove, InsertApproved, Promote, StartReject,
              InsertRejected, Conflict, gate, Record, Decisions
<1>4. CASE StartApprove(r) \/ StartReject(r) \/ Conflict(r)
  <2> USE <1>4 DEF StartApprove, StartReject, Conflict, gate
  <2>1. PromoterHasApproval'  BY DEF PromoterHasApproval, TypeOK
  <2>2. JourneymanHasApproval'  BY DEF JourneymanHasApproval
  <2> QED  BY <1>1, <1>3, <1>8, <2>1, <2>2
<1>5. CASE InsertApproved(r)
  <2> USE <1>5 DEF InsertApproved, Record, Event
  <2>1. PromoterHasApproval'  BY DEF PromoterHasApproval, TypeOK
  <2>2. JourneymanHasApproval'  BY DEF JourneymanHasApproval
  <2> QED  BY <1>1, <1>3, <1>8, <2>1, <2>2
<1>6. CASE Promote(r)
  <2> USE <1>6 DEF Promote
  <2>1. PromoterHasApproval'  BY DEF PromoterHasApproval, TypeOK
  <2>2. JourneymanHasApproval'
    BY DEF JourneymanHasApproval, PromoterHasApproval
  <2> QED  BY <1>1, <1>3, <1>8, <2>1, <2>2
<1>7. CASE InsertRejected(r)
  <2> USE <1>7 DEF InsertRejected, Record, Event
  <2>1. PromoterHasApproval'  BY DEF PromoterHasApproval, TypeOK
  <2>2. JourneymanHasApproval'  BY DEF JourneymanHasApproval
  <2> QED  BY <1>1, <1>3, <1>8, <2>1, <2>2
<1> QED  BY <1>4, <1>5, <1>6, <1>7

\* Status requests and failures leave the tables and Redis alone.
LEMMA StatusStep ==
    ASSUME Inv, NEW r \in Requests,
           StartStatus(r) \/ ReadViolations(r) \/ AnswerStatus(r) \/ RequestFails(r)
    PROVE  Inv'
<1> USE DEF Inv, Goto
<1>0. /\ UNCHANGED <<phase, creating, cert_events, sessions, summaries, cert_ready>>
      /\ \E l \in {"violations", "count", "answered", "error"} :
            pc' = [pc EXCEPT ![r] = l]
      /\ pc[r] \in {"idle", "violations", "count"} \/ pc'[r] = "error"
  BY DEF StartStatus, ReadViolations, AnswerStatus, RequestFails, gate,
         simulations, TypeOK
<1>1. SessionsFromOne' /\ JourneymanHasApproval'
  BY <1>0 DEF SessionsFromOne, JourneymanHasApproval
<1>2. PromoterHasApproval'  BY <1>0 DEF PromoterHasApproval, TypeOK
<1>8. DecidesOnce'  BY <1>0 DEF DecidesOnce, TypeOK
<1>4. CASE StartStatus(r)
  <2> USE <1>4 DEF StartStatus
  <2>1. TypeOK'  BY <1>0 DEF TypeOK, Pending
  <2>2. SeenOnEvidence'
    BY <1>0 DEF SeenOnEvidence, CleanSummary, TypeOK
  <2> QED  BY <1>1, <1>2, <1>8, <2>1, <2>2
<1>5. CASE ReadViolations(r)
  <2> USE <1>5 DEF ReadViolations
  <2>1. LatestUnresolved \in Nat /\ (LatestUnresolved = 0 => CleanSummary)
    BY NewestExists DEF LatestUnresolved, CleanSummary, TypeOK
  <2>2. TypeOK'  BY <1>0, <2>1 DEF TypeOK, Pending
  <2>3. SeenOnEvidence'
    BY <1>0, <2>1 DEF SeenOnEvidence, CleanSummary, TypeOK
  <2> QED  BY <1>1, <1>2, <1>8, <2>2, <2>3
<1>6. CASE AnswerStatus(r)
  <2> USE <1>6 DEF AnswerStatus
  <2>1. Cardinality(summaries) \in Nat
    BY NewestExists, FS_CardinalityType
  <2>2. CleanSummary => Cardinality(summaries) > 0
    BY <2>1, NewestExists, FS_EmptySet DEF CleanSummary
  <2>3. TypeOK'  BY <1>0, <2>1 DEF TypeOK
  <2>4. SeenOnEvidence'
    BY <1>0, <2>1, <2>2 DEF SeenOnEvidence, CleanSummary, TypeOK
  <2> QED  BY <1>1, <1>2, <1>8, <2>3, <2>4
<1>7. CASE RequestFails(r)
  <2> USE <1>7 DEF RequestFails
  <2>1. TypeOK'  BY <1>0 DEF TypeOK, Finished
  <2>2. SeenOnEvidence'
    BY <1>0 DEF SeenOnEvidence, CleanSummary, TypeOK
  <2> QED  BY <1>1, <1>2, <1>8, <2>1, <2>2
<1> QED  BY <1>4, <1>5, <1>6, <1>7

\* The creation of the agent, scores and simulations.
LEMMA OthersStep ==
    ASSUME Inv, Others
    PROVE  Inv'
<1> USE DEF Inv
<1>0. /\ UNCHANGED <<cert_events, pc, seen>>
      /\ phase' \in {phase, "apprentice"} /\ creating' \in BOOLEAN
  BY DEF Others, CreateAgent, ScoreReadiness, CloseSession, InsertSummary, gate, TypeOK
<1>1. PromoterHasApproval' /\ DecidesOnce' /\ JourneymanHasApproval'
  BY <1>0 DEF PromoterHasApproval, DecidesOnce, JourneymanHasApproval
<1>5. CASE CreateAgent
  <2> USE <1>5 DEF CreateAgent, simulations
  <2>1. TypeOK'  BY <1>0 DEF TypeOK, Phases
  <2>2. SessionsFromOne' /\ SeenOnEvidence'
    BY <1>0 DEF SessionsFromOne, SeenOnEvidence, CleanSummary
  <2> QED  BY <1>1, <2>1, <2>2
<1>2. CASE ScoreReadiness
  <2> USE <1>2 DEF ScoreReadiness, simulations
  <2>1. TypeOK'  BY <1>0 DEF TypeOK, Phases
  <2>2. SessionsFromOne' /\ SeenOnEvidence'
    BY <1>0 DEF SessionsFromOne, SeenOnEvidence, CleanSummary
  <2> QED  BY <1>1, <2>1, <2>2
<1>3. ASSUME NEW u \in 0 .. MaxViolations, CloseSession(u)
      PROVE  Inv'
  <2> USE <1>3 DEF CloseSession
  <2>1. PICK n \in 0 .. MaxSessions : DOMAIN sessions = 1 .. n
    BY DEF SessionsFromOne
  <2>2. Cardinality(DOMAIN sessions) = n
    BY <2>1, FS_Interval, BoundsAssumption
  <2>3. n < MaxSessions /\ n + 1 \in 0 .. MaxSessions
    BY <2>2, BoundsAssumption
  <2>4. sessions' = [i \in 1 .. n + 1 |-> IF i \in DOMAIN sessions THEN sessions[i] ELSE u]
    BY <2>2
  <2>5. /\ DOMAIN sessions' = 1 .. n + 1
        /\ \A i \in DOMAIN sessions : sessions'[i] = sessions[i]
        /\ DOMAIN sessions \subseteq DOMAIN sessions'
        /\ DOMAIN sessions' \subseteq 1 .. MaxSessions
    <3>1. DOMAIN sessions' = 1 .. n + 1  BY <2>4
    <3>2. 1 .. n \subseteq 1 .. n + 1 /\ 1 .. n + 1 \subseteq 1 .. MaxSessions
      BY <2>3, BoundsAssumption
    <3> QED  BY <2>1, <2>4, <3>1, <3>2
  <2>6. SessionsFromOne'  BY <2>3, <2>5 DEF SessionsFromOne
  <2>7. sessions' \in [DOMAIN sessions' -> 0 .. MaxViolations]
    <3>1. \A i \in 1 .. n + 1 :
             (IF i \in DOMAIN sessions THEN sessions[i] ELSE u) \in 0 .. MaxViolations
      BY DEF TypeOK
    <3> QED  BY <2>4, <2>5, <3>1
  <2>8. TypeOK'  BY <1>0, <2>5, <2>7 DEF TypeOK, Phases
  <2>9. SeenOnEvidence'
    BY <1>0, <2>5 DEF SeenOnEvidence, CleanSummary, TypeOK
  <2> QED  BY <1>1, <2>6, <2>8, <2>9
<1>4. ASSUME NEW i \in 1 .. MaxSessions, InsertSummary(i)
      PROVE  Inv'
  <2> USE <1>4 DEF InsertSummary
  <2>1. TypeOK'  BY <1>0 DEF TypeOK, Phases
  <2>2. SessionsFromOne'  BY DEF SessionsFromOne
  <2>3. SeenOnEvidence'  BY <1>0 DEF SeenOnEvidence, CleanSummary
  <2> QED  BY <1>1, <2>1, <2>2, <2>3
<1> QED  BY <1>2, <1>3, <1>4, <1>5 DEF Others

\* The invariant is inductive.
LEMMA InvStep == Inv /\ [Next]_vars => Inv'
<1> SUFFICES ASSUME Inv, [Next]_vars PROVE Inv'
  OBVIOUS
<1>1. CASE UNCHANGED vars
  BY <1>1 DEF vars, Inv, TypeOK, SessionsFromOne, PromoterHasApproval, DecidesOnce,
              SeenOnEvidence, CleanSummary, JourneymanHasApproval
<1> QED  BY <1>1, DecisionStep, StatusStep, OthersStep DEF Next, Arrive, Run

-----------------------------------------------------------------------------
\* The invariant holds in every reachable state.
THEOREM Invariance == Spec => []Inv
BY InvInit, InvStep, PTL DEF Spec

\* Every variable keeps its type.
THEOREM TypeCorrect == Spec => []TypeOK
<1>1. Inv => TypeOK  BY DEF Inv
<1> QED  BY <1>1, Invariance, PTL

\* I2: no journeyman without a recorded approval.
THEOREM ApprovalPrecedesPhase == Spec => []JourneymanHasApproval
<1>1. Inv => JourneymanHasApproval  BY DEF Inv
<1> QED  BY <1>1, Invariance, PTL

\* A step that breaks ApprovalHasEffect is one of a creation.
LEMMA EffectStep ==
    ASSUME Inv, [Next]_vars, ApprovalHasEffect
    PROVE  ApprovalHasEffect' \/ (creating /\ UNCHANGED pc)
<1> USE DEF Inv, TypeOK, Goto
<1>1. ASSUME NEW r \in Requests, Arrive(r) \/ Run(r)
      PROVE  ApprovalHasEffect'
  <2>1. CASE InsertApproved(r) \/ InsertRejected(r)
    BY <2>1 DEF InsertApproved, InsertRejected, Record, Event, ApprovalHasEffect
  <2>2. CASE Promote(r)
    BY <2>2 DEF Promote, ApprovalHasEffect
  <2>3. CASE ~ (InsertApproved(r) \/ InsertRejected(r) \/ Promote(r))
    <3>1. UNCHANGED <<phase, cert_events>> /\ (pc[r] = "promote" => pc'[r] = "error")
      BY <1>1, <2>3 DEF Arrive, Run, StartApprove, StartReject, Conflict, StartStatus,
         ReadViolations, AnswerStatus, RequestFails, gate
    <3>2. pc[r] # "error" /\ \A q \in Requests : q # r => pc'[q] = pc[q]
      BY <1>1, <2>3 DEF Arrive, Run, StartApprove, StartReject, Conflict, StartStatus,
         ReadViolations, AnswerStatus, RequestFails, Pending
    <3> QED  BY <3>1, <3>2 DEF ApprovalHasEffect
  <2> QED  BY <2>1, <2>2, <2>3
<1>2. CASE CreateAgent  BY <1>2 DEF CreateAgent
<1>3. CASE (Others /\ ~CreateAgent) \/ UNCHANGED vars
  BY <1>3 DEF Others, ScoreReadiness, CloseSession, InsertSummary, gate, vars,
              ApprovalHasEffect
<1> QED  BY <1>1, <1>2, <1>3 DEF Next

\* A recorded approval promotes, is about to, or its request failed; only a
\* creation that is still at work can take the promotion back.
THEOREM ApprovalTakesEffect == Spec => ApprovalIsCarriedOut
<1>1. Inv /\ [Next]_vars =>
        [ApprovalHasEffect => ApprovalHasEffect' \/ (creating /\ UNCHANGED pc)]_vars
  BY EffectStep
<1> QED  BY <1>1, Invariance, PTL DEF Spec, ApprovalIsCarriedOut

\* A status that says "ready" rests on a clean simulation it has counted.
THEOREM ReadyNeedsEvidence == Spec => []ReadyOnEvidence
<1>1. Inv => ReadyOnEvidence
  BY DEF Inv, SeenOnEvidence, CleanSummary, ReadyOnEvidence
<1> QED  BY <1>1, Invariance, PTL

\* The gate starts as the switch starts.
LEMMA SwitchInit == Init => Switch!Init
BY DEF Init, Switch!Init

\* Arrivals, status requests, failures and other services are stutters of the
\* switch, an INSERT is the decision of a request that had not decided, and a
\* promotion follows the approval on the log.
LEMMA SwitchStep ==
    ASSUME Inv, [Next]_vars
    PROVE  [Switch!Next]_<<phase, creating, cert_events>>
<1>1. ASSUME NEW r \in Requests, InsertApproved(r) \/ InsertRejected(r)
      PROVE  Switch!Decide(r)
  <2>1. \A e \in cert_events : e.by # r
    BY <1>1 DEF Inv, DecidesOnce, InsertApproved, InsertRejected
  <2> QED  BY <1>1, <2>1 DEF InsertApproved, InsertRejected, Record, Event, Switch!Decide
<1>2. ASSUME NEW r \in Requests, Promote(r)
      PROVE  Switch!Promote
  <2>1. Event(r, "approved") \in cert_events
    BY <1>2 DEF Inv, PromoterHasApproval, Promote
  <2> QED  BY <1>2, <2>1 DEF Promote, Event, Switch!Promote
<1>3. ASSUME NEW r \in Requests, Arrive(r) \/ Run(r),
             ~ (InsertApproved(r) \/ InsertRejected(r) \/ Promote(r))
      PROVE  UNCHANGED <<phase, creating, cert_events>>
  BY <1>3 DEF Arrive, Run, StartApprove, StartReject, Conflict, StartStatus,
     ReadViolations, AnswerStatus, RequestFails, gate
<1>4. CASE (Others /\ ~CreateAgent) \/ UNCHANGED vars
  BY <1>4 DEF Others, ScoreReadiness, CloseSession, InsertSummary, gate, vars
<1>5. CASE CreateAgent
  BY <1>5 DEF CreateAgent, Switch!Create, Switch!Next
<1> QED  BY <1>1, <1>2, <1>3, <1>4, <1>5 DEF Next, Switch!Next

\* The gate implements the one-way switch behind a log.
THEOREM Refinement == Spec => ImplementsCertification
<1>1. Inv /\ [Next]_vars => [Switch!Next]_<<phase, creating, cert_events>>
  BY SwitchStep
<1> QED  BY <1>1, SwitchInit, Invariance, PTL
         DEF Spec, ImplementsCertification, Switch!Spec

\* Once the agent is created the switch is never thrown back: no step takes a
\* journeyman back, whatever is in flight.
THEOREM PhaseIsFinal ==
    Spec => [][phase = "journeyman" /\ ~creating
                  => phase' = "journeyman" /\ ~creating']_<<phase, creating, cert_events>>
<1>1. [Switch!Next]_<<phase, creating, cert_events>> =>
          [phase = "journeyman" /\ ~creating
               => phase' = "journeyman" /\ ~creating']_<<phase, creating, cert_events>>
  BY DEF Switch!Next, Switch!Decide, Switch!Promote, Switch!Create
<1> QED  BY <1>1, Refinement, PTL DEF ImplementsCertification, Switch!Spec
=============================================================================
