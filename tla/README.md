# Agent Worx: a verification project

TLA+ specifications of the apprentice phase of Agent Worx (`src/src`), TLC
configurations that check them on small instances, and TLAPS proofs of their
main properties for every size of instance. Line numbers refer to `src/src/…`
unless another path is given; "T1.8" is `src/speckit/phase-1-apprentice/T1.8-*.md`.

## 1. The system

One FastAPI process serves an *agent type* through its apprenticeship:

    create ──► question / answer loop ──► proposal ──► review ──► simulation ──► cert1
    (registry)  (knowledge graph,          (engine)    (approve,   (sessions,     (phase
                 readiness flags)                       edit,       summaries)     journeyman)
                                                        reject)

| component | state it keeps | operations | talks to |
|---|---|---|---|
| agent-type registry `core/agent_type_service.py` | row in `agent_types`, root concepts (Kuzu), three Redis keys | create with compensation, look up | Postgres, Kuzu, Redis |
| answer processor, graph writer, gap detector, readiness scorer, question generator `apprentice/*.py`, `api/routes/apprentice.py` | `Concept` nodes and `RELATES_TO` edges; `readiness_score`, `proposal_ready`, `cert_ready` | ask, answer (write / conflict / follow-up), score | Kuzu, Redis, language model |
| proposal engine `apprentice/proposal_engine.py` | new version in `team_compositions` | cluster, generate, persist | Kuzu, model, Postgres |
| proposal review `apprentice/proposal_review_service.py` | `team_compositions` | approve, edit, reject | Postgres, engine |
| simulation `apprentice/simulation/*.py` | sessions in memory; `AgentRole`, `HANDS_OFF_TO` (Kuzu); `simulation_session_summaries` | start, turn, resolve, close | review (newest version), Kuzu, Postgres |
| cert1 gate `apprentice/cert1_service.py` | `phase` (Redis), `cert_events` | status, approve, reject | Redis, Postgres |
| clients `infra/*.py`, Temporal worker, `api/main.py` | pools, connections, DDL | – | – |

Components interact only through the stores and by direct calls; there are no
queues or background jobs in the program at this commit (the Temporal worker runs
a hello-world workflow, Qdrant and the Redis streams have no caller).

### What executes atomically

* The process is one event loop. A handler runs uninterrupted between two
  `await`s. Only Postgres (asyncpg) is awaited: **Kuzu, Redis and the model are
  called synchronously**, so everything between two Postgres statements is atomic
  with respect to other requests, but not with respect to failures.
* A Postgres statement commits alone, except the two of `edit_proposal`, which
  share a transaction. A Kuzu or Redis call commits alone. Any of them can raise,
  and the process can die between any two of them.
* Simulation sessions exist in memory only; the stores survive a restart.

So a request is a program counter and each action one stretch of code from one
await to the next (`ProposalReview`, `AgentRegistry`, `Cert1Gate`); a handler
that awaits nothing after looking its agent up is one action (`QALoop`, most of
`SimulationSession`), with separate actions for each way it can stop half-way.
`TaskClusters` looks inside one such stretch: its actions are the turns of the loops
of one synchronous function.

### What is hard about it

Check-then-act across an await (reviews, cert decisions, creation); a failing
call in the middle of a multi-store write; a compensation that can fail itself;
sessions that are lost between their graph writes and their summary; two
sessions over one graph; evidence that outlives what it is about; a union-find that
rewrites its pointers while it follows them; arithmetic that decides what is asked next and what is
"ready". `PROJECT.json` lists every such hazard at its line with the properties
that watch it.

## 2. Modules

| module | models | state ↔ code |
|---|---|---|
| `CompositionRows` | the rows of `team_compositions` of one agent type | version → `[status, expert_signature, rejection_reason]` |
| `TeamCompositions` | the **abstract ledger**: only the newest version is reviewed, while it is neither approved nor signed; an approved version is never touched again (I6) | – |
| `ProposalReview` | `proposal_review_service.py`, `_persist_proposal`, PUT `/proposal` | `rows` the table; `pc`, `op`, `expert_id`, `reason`, `latest`, `next_version` the locals of each request |
| `SimulationSession` | `session_manager.py`, `contract_validator.py` | `Compositions` the approved versions; `version` = `composition_version`, `turns` = `turn_history`, `schema` = `_session_agents`, `coord_writes`; `roles`, `handoffs` the graph; `summaries` the table; `closing` the awaited INSERT |
| `AgentRegistry` | `create_agent_type` for all requests for one name, and what other services do to the agent meanwhile | `rows`, `roots`, `keys`, `schema`, `extras` the three stores; `found` = rows that requests of other services hold |
| `AgentName` | the **abstract promises about a name**: taken by one request at a time, given back only by it and before it is answered; an agent that is whole stays whole | `answer`, `whole` are computed from `pc` and the stores |
| `Certification` | the **abstract gate**: a one-way switch behind a log of decisions, one per request, that only the creation of the agent can set back | – |
| `Cert1Gate` | `cert1_service.py` | `phase`, `cert_ready` (Redis), `creating` = `create_agent_type` may still write or delete the phase key, `cert_events`, `summaries` (Postgres), `sessions` the closed sessions in the order of `closed_at`, `seen` what a status request has read |
| `QALoop` | `answer_processor`, `graph_writer`, `gap_detector`, `readiness_scorer`, answer and readiness routes | `concepts`, `edges` the graph; `readiness` the three keys; `response` the last answer |
| `Components` | the **abstract clustering**: classes of concepts that are only joined as wholes, along relations that are no hand-offs | – |
| `TaskClusters` | `_find_clusters`, `_find_cross_cluster_edges` of `proposal_engine.py`, one action per turn of a loop | `parent` the forest; `todo` the rows not yet read; `left`, `right`, `member` the locals of `union`, `find` and the grouping; `groups`, `cluster_of`, `cross_edges` the results |
| `Lifecycle` | `ProposalReview`, the sessions and `Cert1Gate` over the tables they share, with restarts | the variables of both (`stage` is the gate's `pc`), `running` = `composition_version` of the sessions in memory, `version_of` the same of the closed ones |
| `MC*` | instances of these for TLC | |
| `*Proofs` | theorems (`ScoreProofs`: what `QALoopProofs` needs of sums and of the score) | |

Refinements: serially used, `ProposalReview` implements `TeamCompositions`
(`ImplementsLedger`, proved for `SerialSpec`); concurrently it does not, and
`LedgerUnlessOvertaken` says which writes are to blame. `TaskClusters` implements
`Components` (`ImplementsComponents`) with the class of a concept mapped to the root that its
parent pointers lead to. `AgentRegistry` implements `AgentName`
(`ImplementsAgentName`): a request's answer is where it ended, and the agent is whole
when root concepts and keys of the holder of the row are all there. `Cert1Gate`
implements `Certification` (`ImplementsCertification`) with phase and log as they are. `Lifecycle` EXTENDS `ProposalReview` and instantiates
`Cert1Gate`; a session is reduced there to the version it runs on and the number of
violations it closes with, the part of `SimulationSession` that the gate can see. There the sessions read
what the reviews write; in `SimulationSession` the reviews appear as the version that a
session starts on, which is never older than that of a session before it. The operators marked *Slip* are plausible mistakes in the code;
each is the mutant that shows a property can fail (`PROJECT.json`, "mutants").

### Abstractions

* Topology, contracts, rationale texts and ids of a composition are left out: no
  statement of the review looks at them. `rejection_reason` is kept as a Boolean. The body
  of a review is not validated by the code: its `expert_id` is a text (whose name it is is
  not looked at) or null, its `rejection_reason` a text or null. (Values of any other JSON type are refused by
  asyncpg: `StatementFails`.)
  Distinct agents of a composition are assumed to have distinct names.
* What the language model returns is an input: any of a set of extractions, or a
  failure. `TopGaps` is the set of gaps a question may be about, since rows of equal
  priority come in no fixed order; the question itself is not kept.
* The fields of a simulation message are a set (the keys of a dictionary), so the
  violations of a turn are a function from fields to resolutions, and the route's
  index of a violation picks one of the fields. Observations are counted as the
  members of sets.
* The concepts' labels play no part in the clustering; a relation is a hand-off or
  not (`CROSS_CLUSTER_RELATIONS`). `MIN_CLUSTER_SIZE` is a parameter, 8 in the code.
* Confidences are percentages and scores are in units of 0.0001, rounded half up.
  The code uses doubles, and 32-bit floats in Kuzu; rounding errors below these
  units are not modelled. The order of the entities and relations of one answer is
  left open. How often it lists a relation is kept (`times`), with one confidence for
  all its listings; an entity listed twice is as good as listed once with the larger
  confidence. The topics of an agent are taken as distinct labels.
* `Breadth` is the set of concepts within three edges; the code computes it with a
  breadth-first queue that visits each concept at its least depth.
* The learning rate is left out: it is written in one Redis transaction with the phase.
* In `Cert1Gate` closing times are distinct and increase with each close.
* A statement that takes effect and then raises is the action followed by the
  failure of the request; a statement that raises before is `StatementFails`,
  `InsertFails`, `RequestFails`. In `AgentRegistry` both happen to a Redis call. A Kuzu
  statement that raises is taken to have had no effect, there and elsewhere: Kuzu is a
  library in the process, and a statement outside a transaction commits or is rolled
  back. (A `CREATE` that took effect and raised all the same would not be among
  `created_concept_ids`, and its concept would outlive the compensation.)

## 3. Runs

| run | question | result |
|---|---|---|
| `ReviewConcurrent` | what holds of the version ledger however four requests race and fail, whoever they name | passes |
| `ReviewRaceSigned` | does I6 survive concurrent requests? | **violated** |
| `ReviewUnsigned` | is an approved version signed (T1.8:259-265)? | **violated** |
| `Simulation` | pauses, summaries and graph writes of two sessions, on the same or on different versions | passes |
| `SimulationClarify` | are clarifications permanent (T1.9:621)? | **violated** |
| `Registry` | creation over three stores, races, failures, crashes | passes |
| `RegistryPartial` | is there never a partial agent (T1.1:23)? | **violated** |
| `Cert1` | phase, audit trail and evidence of the gate | passes |
| `QALoop` | growth, consistency, scoring and questioning of the graph | passes |
| `QAOrphan` | is an orphan asked about first (T1.3:184)? | **violated** |
| `Clusters` | does the union-find end, on the connected components, in every order of the rows | passes |
| `Lifecycle` | what the evidence of a certification is worth while reviews go on and the process restarts | passes |

### What the properties say

*Review.* Versions have no gap (`VersionsContiguous`). Approval and signature of a
version are always those of one request that was answered so, and nobody else's
(`SignatureIsTheApprovers`); a signature changes only by an approval, and nothing is
deleted or reopened (`HistoryIsKept`). A version that was archived without a reason was
rejected without one or replaced by an edit, whose version is there
(`EditedVersionStands`). The reviewer is left without an open proposal only behind a
pending or failed rejection (`NoSilentDeadEnd`), and a rejection is followed by a new
version or an error (`RejectionLeadsToProposal`). `LedgerUnlessOvertaken` bounds the
damage of finding 1: whatever else races or fails, two generations with the same
MAX(version) included, only the write of a review whose version was reviewed or followed
since it was admitted is no step of the ledger. `SignedRowsFrozen` is I6. None of the
properties of the passing run supposes that a request names an expert or gives a reason.

*Simulation.* `PendingOnlyInLastTurn` is what justifies counting unresolved
violations in the last turn only; `PausedMeansPending` relates the flag shown to
the violations left; `ClarificationTakesEffect` and its exception, prohibited
fields; `SummaryNotUnderstated`, `SummarisedOnce` about the durable record;
`HandoffsWereObserved`, `RolesCoverContract` about the graph after complete and
failed closes: a role's schema holds the whole contract of one version that was
simulated, with whatever was clarified besides. It need not be the newest one.

*Registry.* `CreatedIsComplete`: losers and failures never touch the winner's agent,
although keys and graph are found by name; `FreeNameIsClean`: the row goes last, so a
free name has no left-overs but those of other services that found the agent while it
was removed. `ImplementsAgentName` ties answers, table and stores together over time:
only the request that inserted the row removes it, and only before it is answered; a
request that ends in an error may leave the name taken for good (finding 4), with an
agent behind it that other services may complete but nobody takes apart again.

*Cert1.* `JourneymanHasApproval` is I2 with its audit trail; `ApprovalIsCarriedOut`
its converse up to failures: no step takes the effect of an approval away, except one of
a creation that is still at work; `ReadyOnEvidence` for the status that is read in three
pieces. `ImplementsCertification` is about late decisions: one that checked the phase
before another was made is still logged, once, and never takes a journeyman back.

*Question loop.* `KnowledgeGrows` and `NoContradictionOfHistory`, also after
half-written answers and for relations that one answer repeats; `ScoreIsFresh`;
`NothingToReask`: the low-confidence detector (< 0.4) can find nothing in a graph
written by the loop (≥ 0.6); and
`QuestionsLastUntilReady`: detector and scorer measure different things, yet whoever
is told that no gaps remain is past the threshold of a proposal. (Not past the one of
a certification: a graph in which every concept has two outgoing edges of confidence
0.6 has no gap and the score 0.40 + 0.14 + 0.15 = 0.69 < 0.80, so more answers can
be needed when there is no question left.)

*Clusters.* `ClustersAreComponents` compares the result with connectedness defined by
closed sets, `CrossEdgesAreHandoffs` says which relations the model is shown as
candidate hand-offs (none between two left-overs, since all of them are in
"general"); `Terminates` and `ImplementsComponents` are about the way there.

*Lifecycle.* `ReadyOnApprovedComposition`: a "ready" of cert1-status rests on a
composition that a review approved, in the name that this review gave, across three
services that share only a version number. (In the name of nobody, if the review named
nobody: finding 2.) `StaleOnlyByRace`: what was simulated stays approved except in the
race of finding 1, so that race is the only way to be certified on a composition that
was archived.

### Findings

1. **Signed versions can be changed** (`ReviewRaceSigned`). The check of
   `_require_mutable_latest` and the UPDATE are separated by awaits, and the UPDATE
   does not repeat the check (`apprentice/proposal_review_service.py:42`). Two
   approvals: the second signature replaces the first. Approval and rejection: the
   signed version is archived.
2. **Unsigned approvals** (`ReviewUnsigned`). The body of the PUT is a plain dictionary
   (`api/routes/proposals.py:31`); with `"expert_id": null` a version is approved, or an
   edited one inserted, with a NULL signature (37, 46). `start_session` looks at the
   status only (`session_manager.py:46`), so such a version is simulated and counts as
   evidence for a certification. A racing approval of this kind takes the signature off a
   signed version.
3. **Clarifications are overwritten** (`SimulationClarify`): a session starts from
   the composition, not from the graph, and closing writes its whole schema
   (`session_manager.py:257`).
4. **Partial agents** (`RegistryPartial`): a compensation stops at its first failing
   call, and a crash is never compensated; the name stays taken
   (`agent_type_service.py:89`).
5. **Orphans are asked about last** (`QAOrphan`): breadth 0 makes priority 0
   (`gap_detector.py:121`).

Smaller disagreements, without a run of their own because one line of code decides them:

* The confidence of a hand-off is the ratio of clean *observations*; a turn with n
  violations has n of them (`session_manager.py:288`), while T1.9:407 speaks of
  clean turns over total turns. One clean turn and one turn with two violations
  give 1/3.
* The readiness score falls when an answer adds a concept without a relation
  (`readiness_scorer.py:25`), while T1.6:115 has it increase monotonically.
* `approve_cert1` does not look at `cert_ready`. T1.11:241 agrees with the code;
  `src/speckit/phase-1-apprentice/PHASE.md:58` and `API_CONTRACTS.md:196` ("400 —
  cert_ready is false") do not.
* "No partial agent" (T1.1:23) fails in one more way, which `FreeNameIsClean` is
  worded around: the row is visible from the INSERT on, so an answer or a score
  request that found it before a roll-back can write concepts and flags after it
  (`agent_type_service.py:132`), and the next agent of the name starts with them.
* `start_session` looks at the newest composition only and refuses when that one is
  not approved (`session_manager.py:45`); T1.9:74 speaks of the latest *approved*
  composition. After a new generation, simulations of the approved version are
  refused until the new one is reviewed.
* A session copies the contracts of the newest version, if approved, when it starts
  (`session_manager.py:45-56`). If an older session closes after one that ran on a newer
  version, its schemas replace the newer ones in the graph (257).
* A rejection with `"rejection_reason": null` makes `jsonb_set` NULL, so the version is
  archived and its whole rationale is lost (`proposal_review_service.py:146-154`).
* An agent can be certified as soon as its row is visible. If its creation is then still
  at work, it sets the phase back to apprentice, or deletes it
  (`agent_type_service.py:85-90`), after the approval was logged and carried out.
* An agent whose row is visible and whose concepts are not yet there has no gaps, so its
  first question is answered "no gaps remaining" (`question_generator.py:77`; that an
  empty graph is answered so is tested, `tests/phase_1/test_question_generator.py:75`).
  `QALoop` starts after the creation.

### Bounds

| run | bound | why it is enough |
|---|---|---|
| Review | 4 requests (3 in the violations), 1 expert or nobody (2 experts in `ReviewRaceSigned`) | a race needs two requests and a proposal to race for; the fourth lets a loser continue after a successor appeared. An expert and nobody distinguish whose name stands. |
| Simulation | 2 sessions, 2 versions (1 in the violation) with different agents and schemas, 3 fields, 3 messages; at most 2 turns and 2 clarifications per session (`MaxTurns`, `MaxWrites`), over both 3 turns, and 4 turns and clarifications together (constraint `FewTurns`) | two sessions to overwrite each other, on one version or on two, in either order of closing; a turn with two violations to be resolved in either order; a turn after it; a receiver without contract; a field that is prohibited |
| Registry | 4 requests, 2 topics | winner, loser, and one that comes after a rollback; two topics make a partial list possible; other services' requests are not bounded |
| Cert1 | 4 requests, 2 sessions, ≤ 1 unresolved violation each | two decisions and a status around two summaries in either order, and a creation that ends at any point between them |
| Clusters | 4 concepts, every graph of at most 4 of 16 relations (13 ordinary, one of them from a concept to itself, and 3 hand-offs), clusters from 2 members | paths of three edges make halving move a pointer; both orders of a union, cycles and repeated pairs occur; sizes 1 to 4 lie on both sides of the threshold |
| Lifecycle | 3 reviews, 1 expert, 1 decision, 2 sessions at a time, 2 closed sessions, ≤ 1 violation | a proposal and two reviews of it are the race; two sessions so that a version is simulated before and after it; one status request, since requests of the gate are raced in `Cert1` |
| QALoop | 3 labels, 6 extractions, edge versions ≤ 3 (`MaxVersion`; 2 in the violation), at most 2 upserts of an existing edge (constraint `FewRepetitions`) | every outcome, conflict, repetition (within an answer and by another), self-contradiction and failure point of an answer occurs; a version only counts |

Symmetry is used for the requests of `Cert1`, the sessions of `Simulation`, the
creators of `Registry` and the requests and sessions of `Lifecycle`, never in a run
with a liveness property. The `Review*` and `Registry*` runs have
`CHECK_DEADLOCK FALSE` because requests are finitely many and end, `Clusters` because
the function returns.

### Fairness

Two runs have a liveness property. For `ReviewConcurrent`, `FairSpec` assumes weak
fairness of `Run(r)` for each admitted request: the event loop resumes every coroutine
whose awaited call has returned or raised, and asyncpg and the HTTP client of the
model return or raise. No fairness is assumed of arrivals, nor of success over
failure. For `Clusters`, weak fairness of `Next` says that a synchronous function goes
on executing; which row comes next is left open. The other specifications are safety
only.

## 4. Proofs

TLAPS checks the following for all values of the constants (any number of
requests, experts, topics, labels, answers, concepts, relations, sessions, messages):

| module | theorems | the invariant and why it is needed |
|---|---|---|
| `ProposalReviewProofs` | `TypeCorrect`, `Contiguity`, `EditedVersionsStand`, `SignaturesAreApprovers`, `DeadEndHasACause`, `HistoryKept`, `OnlyOvertakenReviewsBreakTheLedger`; for the serial specification `SerialImplementsLedger`, `SerialFreezesSignedRows` | the properties are not inductive: one must add that versions are exactly 1..n, that a pending review refers to an existing version, that the predecessor of a pending INSERT exists and that no request is ever admitted for a version that an edit made. For the serial specification: the single request in flight still refers to the newest version, which is open to review. |
| `AgentRegistryProofs` | `TypeCorrect`, `CreationCompletes`, `FreeNamesAreClean`, `Refinement`, `BuilderIsAlone` (at most one request is building or has built) | a row belongs to the request that builds, has built or gave up; root concepts exist only beside a row; while no agent is made, keys and other concepts come from services that had found a row, which is there or was rolled back. Without root concepts no agent is whole, so a compensation is a stutter of `AgentName`; others' writes are one too, unless they complete an abandoned agent. |
| `Cert1GateProofs` | `TypeCorrect`, `ApprovalPrecedesPhase`, `ApprovalTakesEffect`, `ReadyNeedsEvidence`, `Refinement`, and from it `PhaseIsFinal` (no journeyman becomes an apprentice again, once the creation is over) | a request about to promote has its event recorded; one that has not decided yet has none; what a status request read of the violations implies a summary that is still there when it counts |
| `QALoopProofs`, `ScoreProofs` | `TypeCorrect`, `QuestionsLast`, `EdgesJoin`, `NoLowConfidence`, `NothingForgotten`, `HistoryNotContradicted`, `FreshlyScored` | every edge has confidence ≥ 60 %, so the contradiction query, which skips edges at or below 50 %, sees all of them. For the types and the score: concepts and relations are finitely many and the topics are concepts. |
| `TaskClustersProofs` | `TypeCorrect`, `ClustersCorrect`, `CrossEdgesCorrect`, `Refinement`, `EveryTurnCounts` | there is a height for every concept that decreases towards its root (so the recursion that defines the root has exactly one solution, and a halving does not change it); every relation already read lies inside one tree; every tree lies inside a component. At the end trees are components. A halving is then a stutter of `Components` and a union a `Join`. |
| `SimulationSessionProofs` | `TypeCorrect`, `NothingPendingBefore`, `PauseIsTruthful`, `ClarificationCounts`, `SummaryIsTruthful`, `OneSummary`, `HandoffsObserved`, `RolesCover` | schemas only grow from the contracts of the version the session started on, and hold every field that was clarified; what a later turn violates was checked against them. A summary is on its way or inserted only for a closed session, never both; resolutions change no total. |
| `LifecycleProofs` | `LTypeCorrect`, `ReadinessIsApproved`, `StalenessHasACause`, `CertificationComposes` | the invariants of `ProposalReviewProofs` and `Cert1GateProofs` (the latter through INSTANCE), and beside them: a running or closed session's version was approved by a request that was answered so (an approval of it, or the edit that made it, after which nobody reviews it); every archived version was read by an edit or a rejection |

They rest on the named assumptions of the modules only (each `ASSUME` of the module
concerned), which TLC evaluates on the instances above. In `QALoop` these say that an
agent has topics, finitely many (the request model refuses an empty list), and that one
answer has finitely many entities and relations. `QuestionsLast` has one more
hypothesis, a proposal threshold of at most 0.69; the default is 0.55, and
`READINESS_PROPOSAL_THRESHOLD` can change it. No greater bound would do: a deployment
that asks for more can run out of questions before a proposal may be made (the graph
with the score 0.69 above).

Two arguments are worth knowing:

* *The score.* It is a recursive sum over sets, which the prover sees as a `CHOOSE`d
  function. `FoldExists` shows by a least counterexample that such a function exists
  for every finite set, `TotalBounds` that the sum lies between the cardinality times
  the least and the greatest summand. When no gap is left every concept has at least two outgoing
  relations, of confidence 0.6 or more; sending each pair (concept, 1 or 2) to one of
  them is an injection into the relations, so there are twice as many relations as
  concepts and each of the score's three parts is bounded from below
  (`ScoreOfConnected`).
* *The end of the union-find.* `EveryTurnCounts` is the safety half of `Terminates`:
  each turn uses up work of the outer loops (`TurnsLeft` falls), or `TurnsLeft` stays,
  the forest stays measurable, and the node that climbs falls by every measure of the
  forest. Both orders are well founded. That the function does go on is fairness.

Only model-checked: `RejectionLeadsToProposal` and `Terminates` itself (liveness is out
of this prover's reach). The five runs that expect a violation are counterexamples and
have nothing to prove. Only proved: what needs one request at a time,
`SerialImplementsLedger` and `SerialFreezesSignedRows`. They are about the steps of
`ReviewConcurrent` without the races, and tell that the races and nothing else are the
cause of finding 1.

## 5. Not modelled

* Prompt texts, JSON parsing, the wording of questions and the removal of known
  concept names from them; that a prompt shows 30 candidate hand-offs and 15 labels of
  a cluster at most. No state depends on them.
* GET routes, which change nothing (except readiness, which is modelled); HTTP status
  codes (the loser of a creation race is answered 500, not the 409 of a taken name,
  `api/routes/agent_types.py:21`).
* The queue of `_count_dependent_concepts`: `Breadth` is the set it computes.
* Qdrant client, Temporal worker (a hello-world workflow), Redis streams, and the
  tables of later phases (`delta_entries`, `shadow_reviews`, escalations): no code uses
  them yet. Pools, connections, DDL: I/O. `api/main.py` and the pydantic types:
  declarations, used as the shapes of the states above.

## 6. Plan

1. *Done*: the six components with state of their own, their composition
   (`Lifecycle`), the clustering; abstract specifications of the ledger, the name, the
   gate and the clustering, and proofs that the modules implement them; proofs of all
   safety properties that TLC checks.
2. An abstract specification of a simulation session (a conversation that pauses, ends
   and leaves one summary), as a step towards 3.
3. `SimulationSession` in place of the counter of violations in `Lifecycle`. The sessions
   do read what reviews change, the newest approved version: today each module has one
   half of it, the versions without the turns (`Lifecycle`) and the turns on versions
   that appear by themselves (`SimulationSession`). Together they are out of TLC's reach
   (1.1 and 0.6 million states apart), so this waits for the abstraction of 2.
