--------------------------- MODULE LifecycleProofs --------------------------
(***************************************************************************)
(* Proofs about Lifecycle, for any number of requests, sessions and        *)
(* deciders.  The invariants of the two parts are taken from               *)
(* ProposalReviewProofs and Cert1GateProofs; what is added says how the    *)
(* rows got their state, and that sessions hold on to approved versions.   *)
(***************************************************************************)
EXTENDS Lifecycle, ProposalReviewProofs

GateProofs == INSTANCE Cert1GateProofs WITH Requests <- Deciders, pc <- stage

\* Request q was answered that it approved the proposed version v.
Approver(q, v) == latest[q] = v /\ op[q] = "approve" /\ pc[q] = "done"

\* An archived version was archived by an edit or a rejection of it.
Archiver(r, v) == latest[r] = v /\ op[r] \in {"edit", "reject"}

ArchivedByReview ==
    \A v \in DOMAIN rows : rows[v].status = "archived" =>
        \E r \in Requests : Archiver(r, v)

\* A version that a simulation could start on, now or before.
Simulated(v) == /\ v \in DOMAIN rows
                /\ rows[v].status # "proposed"
                /\ \E q \in Requests : Approves(q, v)

\* What sessions ran on, open and closed.
SessionsApproved ==
    /\ running \in [Simulators -> Nat]
    /\ version_of \in [DOMAIN sessions -> Nat \ {0}]
    /\ \A s \in Simulators : running[s] = 0 \/ Simulated(running[s])
    /\ \A i \in DOMAIN sessions : Simulated(version_of[i])

LInv == Inv /\ GateProofs!Inv /\ ArchivedByReview /\ SessionsApproved

-----------------------------------------------------------------------------
(***************************************************************************)
(* Reviews.                                                                *)
(***************************************************************************)
\* Every step of the review leaves an archived version with its archiver.
LEMMA ReviewCauses ==
    ASSUME Inv, ArchivedByReview, [Next]_vars
    PROVE  ArchivedByReview'
<1> USE DEF Inv, TypeOK
<1>1. ASSUME NEW r \in Requests, Arrive(r)
      PROVE  ArchivedByReview'
  <2>1. /\ UNCHANGED rows
        /\ \A q \in Requests : q # r => op'[q] = op[q] /\ latest'[q] = latest[q]
        /\ pc[r] = "idle"
    BY <1>1 DEF Arrive, Admit, Refuse, StartProposal, Goto, locals
  <2>2. \A v : ~Archiver(r, v)
    BY <2>1 DEF Remembered, Archiver
  <2> QED  BY <2>1, <2>2 DEF ArchivedByReview, Archiver
<1>2. ASSUME NEW r \in Requests, ApproveProposal(r) \/ RejectProposal(r)
      PROVE  ArchivedByReview'
  <2>1. /\ latest[r] \in DOMAIN rows /\ DOMAIN rows' = DOMAIN rows
        /\ op[r] = pc[r] /\ UNCHANGED <<op, latest>>
        /\ \A v \in DOMAIN rows : v # latest[r] => rows'[v] = rows[v]
    BY <1>2 DEF ApproveProposal, RejectProposal, Remembered, Reviews, locals
  <2>2. rows'[latest[r]].status = "archived" => Archiver(r, latest[r])
    BY <1>2, <2>1 DEF ApproveProposal, RejectProposal, Row, Archiver
  <2> QED  BY <2>1, <2>2 DEF ArchivedByReview, Archiver
<1>3. ASSUME NEW r \in Requests, EditProposal(r)
      PROVE  ArchivedByReview'
  <2>1. /\ latest[r] \in DOMAIN rows /\ op[r] = "edit"
        /\ latest[r] + 1 \notin DOMAIN rows /\ UNCHANGED <<op, latest>>
        /\ rows' = Insert([rows EXCEPT ![latest[r]].status = "archived"],
                          latest[r] + 1, EditedRow(expert_id[r]))
    BY <1>3 DEF EditProposal, Remembered, Reviews, locals
  <2>2. /\ DOMAIN rows' = DOMAIN rows \cup {latest[r] + 1}
        /\ rows'[latest[r] + 1] = EditedRow(expert_id[r])
        /\ \A v \in DOMAIN rows :
              rows'[v] = [rows EXCEPT ![latest[r]].status = "archived"][v]
    BY <2>1 DEF Insert
  <2>3. \A v \in DOMAIN rows : v # latest[r] => rows'[v] = rows[v]
    BY <2>2
  <2>4. rows'[latest[r] + 1].status # "archived"
    BY <2>2 DEF EditedRow
  <2> QED  BY <2>1, <2>2, <2>3, <2>4 DEF ArchivedByReview, Archiver
<1>4. ASSUME NEW r \in Requests, InsertProposal(r)
      PROVE  ArchivedByReview'
  <2>1. /\ DOMAIN rows' = DOMAIN rows \cup {next_version[r]}
        /\ rows'[next_version[r]].status # "archived"
        /\ \A v \in DOMAIN rows : rows'[v] = rows[v]
        /\ UNCHANGED <<op, latest>>
    BY <1>4 DEF InsertProposal, Insert, ProposedRow, locals
  <2> QED  BY <2>1 DEF ArchivedByReview, Archiver
<1>5. ASSUME NEW r \in Requests,
             \/ EditConflicts(r) \/ GenerateProposal(r) \/ GenerationFails(r)
             \/ InsertConflicts(r) \/ StatementFails(r)
      PROVE  ArchivedByReview'
  BY <1>5 DEF EditConflicts, GenerateProposal, GenerationFails, InsertConflicts,
              StatementFails, locals, ArchivedByReview, Archiver
<1>6. CASE UNCHANGED vars
  BY <1>6 DEF vars, ArchivedByReview, Archiver
<1> QED  BY <1>1, <1>2, <1>3, <1>4, <1>5, <1>6 DEF Next, Run

\* What the review service does to a row leaves its approval behind.
LEMMA SimulatedStays ==
    ASSUME Inv, [Next]_vars, NEW v, Simulated(v)
    PROVE  Simulated(v)'
<1>1. v \in DOMAIN rows' /\ rows'[v].status # "proposed"
  BY KeepStep DEF Simulated, Kept
<1>2. PICK q \in Requests : Approves(q, v)
  BY DEF Simulated
<1>3. pc'[q] = pc[q] /\ op'[q] = op[q] /\ latest'[q] = latest[q]
  <2>1. pc[q] = "done"  BY <1>2 DEF Approves
  <2>2. ASSUME NEW r \in Requests, Arrive(r)
        PROVE  pc'[q] = pc[q] /\ op'[q] = op[q] /\ latest'[q] = latest[q]
    BY <2>1, <2>2 DEF Arrive, Admit, Refuse, StartProposal, Goto, locals, Inv, TypeOK
  <2>3. ASSUME NEW r \in Requests, Run(r)
        PROVE  pc'[q] = pc[q] /\ op'[q] = op[q] /\ latest'[q] = latest[q]
    BY <2>1, <2>3 DEF Run, ApproveProposal, EditProposal, EditConflicts,
       RejectProposal, GenerateProposal, GenerationFails, InsertProposal,
       InsertConflicts, StatementFails, Goto, locals, Inv, TypeOK
  <2>4. CASE UNCHANGED vars  BY <2>4 DEF vars
  <2> QED  BY <2>2, <2>3, <2>4 DEF Next
<1>4. Approves(q, v)'
  BY <1>2, <1>3 DEF Approves
<1> QED  BY <1>1, <1>4 DEF Simulated

\* An approved version was approved by a request, and has its name.
LEMMA SimulatedIsApproved ==
    ASSUME Inv, NEW v, Simulated(v)
    PROVE  Approved(v)
BY DEF Inv, SignatureIsTheApprovers, Simulated, Approved

-----------------------------------------------------------------------------
(***************************************************************************)
(* The composition.                                                        *)
(***************************************************************************)
\* Gate!Def and GateProofs!Def are one definition instantiated twice.
LEMMA SameGateInit == Gate!Init => GateProofs!Init
BY DEF Gate!Init, GateProofs!Init, Gate!NothingSeen, GateProofs!NothingSeen

\* A step of the composed gate is a step of the gate the proofs are about.
LEMMA SameGateStep ==
    ASSUME \/ \E d \in Deciders : Gate!Arrive(d) \/ Gate!Run(d)
           \/ Gate!CreateAgent \/ Gate!ScoreReadiness
           \/ \E u \in 0 .. MaxViolations : Gate!CloseSession(u)
           \/ \E i \in 1 .. MaxSessions : Gate!InsertSummary(i)
    PROVE  GateProofs!Next
<1>1. ASSUME NEW d \in Deciders, Gate!Arrive(d)
      PROVE  GateProofs!Arrive(d)
  BY <1>1 DEF Gate!Arrive, GateProofs!Arrive, Gate!StartApprove, GateProofs!StartApprove,
       Gate!StartReject, GateProofs!StartReject, Gate!Conflict, GateProofs!Conflict,
       Gate!StartStatus, GateProofs!StartStatus, Gate!Goto, GateProofs!Goto,
       Gate!gate, GateProofs!gate, Gate!simulations, GateProofs!simulations
<1>2. ASSUME NEW d \in Deciders, Gate!Run(d)
      PROVE  GateProofs!Run(d)
  <2> USE DEF Gate!Goto, GateProofs!Goto, Gate!gate, GateProofs!gate,
              Gate!simulations, GateProofs!simulations
  <2>1. CASE Gate!InsertApproved(d)
    BY <2>1 DEF Gate!InsertApproved, GateProofs!InsertApproved, GateProofs!Run,
       Gate!Record, GateProofs!Record, Gate!Event, GateProofs!Event
  <2>2. CASE Gate!Promote(d)
    BY <2>2 DEF Gate!Promote, GateProofs!Promote, GateProofs!Run
  <2>3. CASE Gate!InsertRejected(d)
    BY <2>3 DEF Gate!InsertRejected, GateProofs!InsertRejected, GateProofs!Run,
       Gate!Record, GateProofs!Record, Gate!Event, GateProofs!Event
  <2>4. CASE Gate!ReadViolations(d)
    <3>1. Gate!LatestUnresolved = GateProofs!LatestUnresolved
      BY DEF Gate!LatestUnresolved, GateProofs!LatestUnresolved, Gate!Newest,
         GateProofs!Newest
    <3> QED  BY <2>4, <3>1 DEF Gate!ReadViolations, GateProofs!ReadViolations,
                GateProofs!Run
  <2>5. CASE Gate!AnswerStatus(d)
    BY <2>5 DEF Gate!AnswerStatus, GateProofs!AnswerStatus, GateProofs!Run,
       Gate!Cardinality, GateProofs!Cardinality
  <2>6. CASE Gate!RequestFails(d)
    BY <2>6 DEF Gate!RequestFails, GateProofs!RequestFails, GateProofs!Run,
       Gate!Pending, GateProofs!Pending
  <2> QED  BY <1>2, <2>1, <2>2, <2>3, <2>4, <2>5, <2>6 DEF Gate!Run
<1>3. CASE Gate!ScoreReadiness
  BY <1>3 DEF Gate!ScoreReadiness, GateProofs!ScoreReadiness, GateProofs!Next,
       GateProofs!Others, Gate!gate, GateProofs!gate, Gate!simulations, GateProofs!simulations
<1>4. CASE \E u \in 0 .. MaxViolations : Gate!CloseSession(u)
  <2>1. PICK u \in 0 .. MaxViolations : Gate!CloseSession(u)
    BY <1>4
  <2>2. GateProofs!CloseSession(u)
    BY <2>1 DEF Gate!CloseSession, GateProofs!CloseSession, Gate!gate, GateProofs!gate,
       Gate!Cardinality, GateProofs!Cardinality
  <2> QED  BY <2>2 DEF GateProofs!Next, GateProofs!Others
<1>5. CASE \E i \in 1 .. MaxSessions : Gate!InsertSummary(i)
  BY <1>5 DEF Gate!InsertSummary, GateProofs!InsertSummary, GateProofs!Next,
       GateProofs!Others, Gate!gate, GateProofs!gate
<1>6. CASE Gate!CreateAgent
  BY <1>6 DEF Gate!CreateAgent, GateProofs!CreateAgent, GateProofs!Next,
       GateProofs!Others, Gate!simulations, GateProofs!simulations
<1> QED  BY <1>1, <1>2, <1>3, <1>4, <1>5, <1>6 DEF GateProofs!Next

\* The gate's own invariant is inductive in the composition.
LEMMA GateStep ==
    ASSUME GateProofs!Inv, GateProofs!Next \/ UNCHANGED certification
    PROVE  GateProofs!Inv'
<1>1. [GateProofs!Next]_(GateProofs!vars)
  BY DEF certification, GateProofs!vars
<1> QED  BY <1>1, LifecycleBounds, GateProofs!InvStep

\* The invariant of the composition holds initially.
LEMMA InitLInv == LInit => LInv
<1> SUFFICES ASSUME LInit PROVE LInv
  OBVIOUS
<1>1. Inv
  BY InvInit DEF LInit
<1>2. GateProofs!Inv
  BY SameGateInit, LifecycleBounds, GateProofs!InvInit DEF LInit
<1>3. DOMAIN rows = {} /\ DOMAIN sessions = {}
  BY DEF LInit, Init, Gate!Init
<1>4. ArchivedByReview
  BY <1>3 DEF ArchivedByReview
<1>5. SessionsApproved
  BY <1>3 DEF LInit, SessionsApproved
<1> QED  BY <1>1, <1>2, <1>4, <1>5 DEF LInv

\* Reviews keep it, while simulations run on.
LEMMA ReviewStep == ASSUME LInv, Review PROVE LInv'
<1> USE DEF LInv, Review
<1>1. Inv' /\ ArchivedByReview'
  BY InvStep, ReviewCauses
<1>2. GateProofs!Inv'
  BY GateStep
<1>3. SessionsApproved'
  BY SimulatedStays DEF SessionsApproved, simulation, certification
<1> QED  BY <1>1, <1>2, <1>3

\* Steps of the other two parts leave the review service alone.
LEMMA ReviewUntouched ==
    ASSUME LInv, UNCHANGED review
    PROVE  Inv' /\ ArchivedByReview' /\ \A v : Simulated(v)' <=> Simulated(v)
<1> USE DEF LInv, review
<1>1. Inv'
  BY InvStep
<1>2. ArchivedByReview'
  BY ReviewCauses
<1>3. \A v : Simulated(v)' <=> Simulated(v)
  BY DEF vars, Simulated, Approves
<1> QED  BY <1>1, <1>2, <1>3

\* The gate keeps it.
LEMMA CertifyStep == ASSUME LInv, Certify PROVE LInv'
<1> USE DEF LInv, Certify
<1>1. Inv' /\ ArchivedByReview' /\ \A v : Simulated(v)' <=> Simulated(v)
  BY ReviewUntouched
<1>2. GateProofs!Inv'
  BY GateStep, SameGateStep
<1>3. UNCHANGED sessions
  BY DEF Gate!Arrive, Gate!StartApprove, Gate!StartReject, Gate!Conflict, Gate!StartStatus,
         Gate!Run, Gate!InsertApproved, Gate!Promote, Gate!InsertRejected,
         Gate!ReadViolations, Gate!AnswerStatus, Gate!RequestFails,
         Gate!CreateAgent, Gate!ScoreReadiness, Gate!InsertSummary, Gate!simulations
<1>4. SessionsApproved'
  BY <1>1, <1>3 DEF SessionsApproved, simulation
<1> QED  BY <1>1, <1>2, <1>4

\* Only a composition that a review approved is simulated.
LEMMA StartStep == ASSUME LInv, NEW s \in Simulators, StartSession(s) PROVE LInv'
<1> USE DEF LInv, StartSession
<1>1. Inv' /\ ArchivedByReview' /\ \A v : Simulated(v)' <=> Simulated(v)
  BY ReviewUntouched
<1>2. GateProofs!Inv'
  BY GateStep
<1>3. Simulated(MaxVersion) /\ MaxVersion \in Nat
  <2>1. PICK n \in Nat : DOMAIN rows = 1 .. n
    BY DEF Inv, VersionsFromOne, TypeOK
  <2>2. MaxVersion = n
    BY <2>1, MaxOfPrefix
  <2> QED  BY <2>1, <2>2 DEF Inv, SignatureIsTheApprovers, Simulated
<1>4. SessionsApproved'
  BY <1>1, <1>3 DEF SessionsApproved, certification
<1> QED  BY <1>1, <1>2, <1>4

\* A closing session passes its approved version on to its summary.
LEMMA CloseStep ==
    ASSUME LInv, NEW s \in Simulators, NEW u \in 0 .. MaxViolations, Close(s, u)
    PROVE  LInv'
<1> USE DEF LInv, Close
<1>1. Inv' /\ ArchivedByReview' /\ \A v : Simulated(v)' <=> Simulated(v)
  BY ReviewUntouched
<1>2. GateProofs!Inv'
  BY GateStep, SameGateStep
<1>3. running[s] \in Nat \ {0} /\ Simulated(running[s])
  BY DEF SessionsApproved
<1>4. SessionsApproved'
  BY <1>1, <1>3 DEF SessionsApproved
<1> QED  BY <1>1, <1>2, <1>4

\* A restart ends requests; it does not finish, undo or admit one.
LEMMA RestartStep == ASSUME LInv, Restart PROVE LInv'
<1> USE DEF LInv, Restart
<1>0. /\ UNCHANGED <<rows, op, expert_id, reason, latest, next_version>>
      /\ \A r \in Requests : \/ pc'[r] = pc[r] /\ pc[r] \notin Pending
                             \/ pc'[r] = "error" /\ pc[r] \in Pending
      /\ pc' \in [Requests -> {"idle"} \cup Pending \cup Finished]
  <2>1. pc \in [Requests -> {"idle"} \cup Pending \cup Finished]
    BY DEF Inv, TypeOK
  <2>2. pc' = [r \in Requests |-> IF pc[r] \in Pending THEN "error" ELSE pc[r]]
    OBVIOUS
  <2>3. \A r \in Requests : \/ pc'[r] = pc[r] /\ pc[r] \notin Pending
                            \/ pc'[r] = "error" /\ pc[r] \in Pending
    BY <2>2
  <2>4. pc' \in [Requests -> {"idle"} \cup Pending \cup Finished]
    BY <2>1, <2>2, <2>3 DEF Finished
  <2> QED  BY <2>3, <2>4 DEF locals
<1>1. Inv'
  <2>1. TypeOK'  BY <1>0 DEF Inv, TypeOK
  <2>2. Remembered' /\ LatestKnown'
    BY <1>0 DEF Inv, Remembered, LatestKnown, Reviews, Pending
  <2>3. NoSilentDeadEnd'  BY <1>0 DEF Inv, NoSilentDeadEnd
  <2>4. VersionsFromOne' /\ EditedNeverReviewed'
    BY <1>0 DEF Inv, VersionsFromOne, EditedNeverReviewed
  <2>5. EditedVersionStands'
    <3>1. \A v \in DOMAIN rows, q \in Requests :
             ArchivesSilently(q, v) => ArchivesSilently(q, v)'
      BY <1>0 DEF ArchivesSilently, Pending
    <3> QED  BY <1>0, <3>1 DEF Inv, EditedVersionStands
  <2>6. SignatureIsTheApprovers'
    <3>1. \A v \in DOMAIN rows, q \in Requests : Approves(q, v)' <=> Approves(q, v)
      BY <1>0 DEF Approves, Pending
    <3> QED  BY <1>0, <3>1 DEF Inv, SignatureIsTheApprovers
  <2> QED  BY <2>1, <2>2, <2>3, <2>4, <2>5, <2>6 DEF Inv
<1>2. ArchivedByReview'
  BY <1>0 DEF ArchivedByReview, Archiver
<1>3. GateProofs!Inv'
  <2>1. /\ UNCHANGED <<phase, creating, cert_ready, cert_events, sessions, summaries, seen>>
        /\ \A d \in Deciders : \/ stage'[d] = stage[d] /\ stage[d] # "promote"
                               \/ stage'[d] = "error"
        /\ stage' \in [Deciders -> {"idle", "answered"} \cup GateProofs!Pending
                                      \cup GateProofs!Finished]
    BY DEF Gate!Pending, GateProofs!Inv, GateProofs!TypeOK, GateProofs!Pending,
           GateProofs!Finished
  <2>2. GateProofs!TypeOK'
    BY <2>1 DEF GateProofs!Inv, GateProofs!TypeOK
  <2>3. GateProofs!PromoterHasApproval' /\ GateProofs!SeenOnEvidence'
    BY <2>1 DEF GateProofs!Inv, GateProofs!PromoterHasApproval,
                GateProofs!SeenOnEvidence, GateProofs!CleanSummary
  <2>4. GateProofs!JourneymanHasApproval'
    BY <2>1 DEF GateProofs!Inv, GateProofs!JourneymanHasApproval, GateProofs!Event
  <2>5. GateProofs!SessionsFromOne'
    BY <2>1 DEF GateProofs!Inv, GateProofs!SessionsFromOne
  <2>6. GateProofs!DecidesOnce'
    BY <2>1 DEF GateProofs!Inv, GateProofs!DecidesOnce
  <2> QED  BY <2>2, <2>3, <2>4, <2>5, <2>6 DEF GateProofs!Inv
<1>4. SessionsApproved'
  <2>1. \A v : Simulated(v) => Simulated(v)'
    <3>1. \A v, q : q \in Requests /\ Approves(q, v) => Approves(q, v)'
      BY <1>0 DEF Approves, Pending
    <3> QED  BY <1>0, <3>1 DEF Simulated
  <2> QED  BY <2>1 DEF SessionsApproved
<1> QED  BY <1>1, <1>2, <1>3, <1>4

\* The invariant of the composition is inductive.
LEMMA LInvStep == LInv /\ [LNext]_allVars => LInv'
<1> SUFFICES ASSUME LInv, [LNext]_allVars PROVE LInv'
  OBVIOUS
<1>1. CASE UNCHANGED allVars
  <2>1. Inv' /\ ArchivedByReview' /\ \A v : Simulated(v)' <=> Simulated(v)
    BY <1>1, ReviewUntouched DEF allVars
  <2>2. GateProofs!Inv'
    BY <1>1, GateStep DEF LInv, allVars
  <2>3. SessionsApproved'
    BY <1>1, <2>1 DEF LInv, allVars, SessionsApproved, simulation, certification
  <2> QED  BY <2>1, <2>2, <2>3 DEF LInv
<1>2. CASE Simulate
  BY <1>2, StartStep, CloseStep DEF Simulate
<1> QED  BY <1>1, <1>2, ReviewStep, CertifyStep, RestartStep DEF LNext

\* Every reachable state of the composition satisfies its inductive invariant.
THEOREM LInvariance == LSpec => []LInv
BY InitLInv, LInvStep, PTL DEF LSpec

-----------------------------------------------------------------------------
\* Every variable of the three parts keeps its type.
THEOREM LTypeCorrect == LSpec => []LTypeOK
<1>1. GateProofs!TypeOK => Gate!TypeOK
  BY DEF GateProofs!TypeOK, Gate!TypeOK, GateProofs!Phases, Gate!Phases,
         GateProofs!Decisions, Gate!Decisions, GateProofs!Pending, Gate!Pending,
         GateProofs!Finished, Gate!Finished
<1>2. LInv => LTypeOK
  BY <1>1 DEF LInv, LTypeOK, Inv, GateProofs!Inv, SessionsApproved
<1> QED  BY <1>2, LInvariance, PTL

\* An answer "ready" rests on a simulation of a composition that a review
\* approved, with the name that the review gave.
THEOREM ReadinessIsApproved == LSpec => []ReadyOnApprovedComposition
<1>1. LInv => ReadyOnApprovedComposition
  BY SimulatedIsApproved
     DEF LInv, GateProofs!Inv, GateProofs!SeenOnEvidence, GateProofs!CleanSummary,
         GateProofs!TypeOK, SessionsApproved, ReadyOnApprovedComposition
<1> QED  BY <1>1, LInvariance, PTL

\* A simulated composition ceases to be approved only when an approval and
\* another review of the same version raced.
THEOREM StalenessHasACause == LSpec => []StaleOnlyByRace
<1>1. ASSUME LInv, NEW i \in DOMAIN sessions, rows[version_of[i]].status # "approved"
      PROVE  \E q, r \in Requests :
                /\ latest[q] = version_of[i] /\ op[q] = "approve" /\ pc[q] = "done"
                /\ latest[r] = version_of[i] /\ op[r] \in {"edit", "reject"}
  <2> DEFINE v == version_of[i]
  <2>1. v \in DOMAIN rows /\ rows[v].status # "proposed"
    BY <1>1 DEF LInv, SessionsApproved, Simulated
  <2>2. rows[v].status = "archived"
    BY <1>1, <2>1 DEF LInv, Inv, TypeOK, Row, Statuses
  <2>3. PICK r \in Requests : Archiver(r, v)
    BY <1>1, <2>1, <2>2 DEF LInv, ArchivedByReview
  <2>4. PICK q \in Requests : Approves(q, v)
    BY <1>1 DEF LInv, SessionsApproved, Simulated
  <2>5. ~(op[q] = "edit" /\ latest[q] + 1 = v)
    <3>1. ASSUME op[q] = "edit", latest[q] + 1 = v
          PROVE  FALSE
      <4>1. rows[v] = EditedRow(expert_id[q])
        BY <1>1, <2>4, <3>1 DEF LInv, Inv, EditedVersionStands, Approves
      <4> QED  BY <1>1, <4>1 DEF EditedRow
    <3> QED  BY <3>1
  <2>6. Approver(q, v)
    BY <2>4, <2>5 DEF Approver, Approves
  <2> QED  BY <2>3, <2>6 DEF Archiver, Approver
<1>2. LInv => StaleOnlyByRace
  BY <1>1 DEF StaleOnlyByRace
<1> QED  BY <1>2, LInvariance, PTL

\* Phase and log of the composed agent are still a one-way switch behind a log:
\* reviews, simulations and restarts, which cut decisions off, are stutters of it.
THEOREM CertificationComposes == LSpec => GateProofs!ImplementsCertification
<1>1. LInit => GateProofs!Switch!Init
  BY SameGateInit, GateProofs!SwitchInit, LifecycleBounds DEF LInit
<1>2. ASSUME LInv, [LNext]_allVars
      PROVE  [GateProofs!Switch!Next]_<<phase, creating, cert_events>>
  <2>1. ASSUME GateProofs!Next
        PROVE  [GateProofs!Switch!Next]_<<phase, creating, cert_events>>
    <3>1. GateProofs!Inv /\ [GateProofs!Next]_(GateProofs!vars)
      BY <1>2, <2>1 DEF LInv
    <3> QED  BY <3>1, LifecycleBounds, GateProofs!SwitchStep
  <2>2. CASE Certify
    BY <2>1, <2>2, SameGateStep DEF Certify
  <2>3. CASE Simulate
    <3>1. ASSUME NEW s \in Simulators, NEW u \in 0 .. MaxViolations, Close(s, u)
          PROVE  GateProofs!Next
      BY <3>1, SameGateStep DEF Close
    <3> QED  BY <2>1, <2>3, <3>1 DEF Simulate, StartSession, certification
  <2>4. CASE Review \/ Restart \/ UNCHANGED allVars
    BY <2>4 DEF Review, Restart, allVars, certification
  <2> QED  BY <1>2, <2>2, <2>3, <2>4 DEF LNext
<1> QED  BY <1>1, <1>2, LInvariance, PTL
         DEF LSpec, GateProofs!ImplementsCertification, GateProofs!Switch!Spec
=============================================================================
