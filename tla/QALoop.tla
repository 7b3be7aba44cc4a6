------------------------------- MODULE QALoop -------------------------------
(***************************************************************************)
(* The Socratic loop of one apprentice: api/routes/apprentice.py, the      *)
(* question generator, the answer processor, the graph writer, the gap     *)
(* detector and the readiness scorer, over the agent's Concept nodes and   *)
(* RELATES_TO edges (Kuzu) and its three readiness keys (Redis).           *)
(*                                                                         *)
(* After looking the agent up, a handler runs to its end without an await  *)
(* (the model, Kuzu and Redis clients are all synchronous), so a handler   *)
(* is one action.  Kuzu and Redis calls can raise, and each commits alone, *)
(* so a failing handler leaves what it had written.                        *)
(*                                                                         *)
(* Confidences are in percent and scores in units of 0.0001.  The order of *)
(* an answer's entities and relations is left open: they are sets, with    *)
(* the number of times each relation is listed.                            *)
(***************************************************************************)
EXTENDS Integers, FiniteSets, FiniteSetsExt

CONSTANTS
    Topics,              \* labels of the root concepts of the agent
    Labels,              \* every label an extraction can mention
    Answers,             \* what the model extracts from an expert's answer
    ProposalThreshold,   \* READINESS_PROPOSAL_THRESHOLD
    Cert1Threshold,      \* READINESS_CERT1_THRESHOLD
    MaxVersion           \* bound on the version of an edge

\* topic_list is not empty (models.py, AgentTypeCreate).
ASSUME LabelsAssumption == Topics \subseteq Labels /\ Topics # {} /\ IsFiniteSet(Topics)

Relation == [source : Labels, target : Labels, relation : STRING]

\* entities: label -> confidence; relations: relation -> confidence; times:
\* relation -> how often the answer lists it, each time with that confidence.
ASSUME AnswersAssumption ==
    \A a \in Answers :
        /\ IsFiniteSet(DOMAIN a.entities) /\ IsFiniteSet(DOMAIN a.relations)
        /\ DOMAIN a.entities \subseteq Labels
        /\ a.entities \in [DOMAIN a.entities -> 0 .. 100]
        /\ \A r \in DOMAIN a.relations : r \in Relation
        /\ a.relations \in [DOMAIN a.relations -> 0 .. 100]
        /\ a.times \in [DOMAIN a.relations -> Nat \ {0}]
        /\ a.confidence \in 0 .. 100
        /\ a.is_ambiguous \in BOOLEAN

ASSUME BoundsAssumption ==
    MaxVersion \in Nat \ {0} /\ ProposalThreshold \in Int /\ Cert1Threshold \in Int

VARIABLES
    concepts,    \* label -> confidence, the Concept nodes
    edges,       \* relation -> [confidence, version], the RELATES_TO edges
    readiness,   \* agent:{name}:readiness_score, proposal_ready, cert_ready
    phase,       \* agent:{name}:phase
    response     \* what the last request was answered

vars == <<concepts, edges, readiness, phase, response>>
graph == <<concepts, edges>>

Responses == {"none", "question", "no_gaps_remaining", "write", "conflict", "follow_up",
              "readiness", "refused", "error"}

Larger(x, y) == IF x > y THEN x ELSE y

-----------------------------------------------------------------------------
(***************************************************************************)
(* gap_detector.                                                           *)
(***************************************************************************)
Outgoing(l) == {r \in DOMAIN edges : r.source = l}
Incoming(l) == {r \in DOMAIN edges : r.target = l}

Targets(S) == {r.target : r \in {e \in DOMAIN edges : e.source \in S}}

\* _count_dependent_concepts: what one to three edges lead to.
Breadth(l) == LET one == Targets({l}) two == Targets(one)
              IN  Cardinality(one \cup two \cup Targets(two))

Orphans == {l \in DOMAIN concepts : Outgoing(l) = {} /\ Incoming(l) = {}}

LowEdges(l) == {r \in Outgoing(l) : edges[r].confidence < 40}

Unexplored == {l \in DOMAIN concepts \ Orphans : Cardinality(Outgoing(l)) < 2}

Gap(l, type, severity, breadth) ==
    [concept |-> l, gap_type |-> type, priority |-> severity * breadth]

\* Slip: concepts without an edge are passed over.
GapsAmongEdges ==
    {Gap(l, "unexplored", 100 - 25 * Cardinality(Outgoing(l)),
         Larger(Breadth(l), 1)) : l \in Unexplored}

Gaps ==
    {Gap(l, "orphan", 100, 0) : l \in Orphans}
    \cup {Gap(l, "low_confidence", 100 - Min({edges[r].confidence : r \in LowEdges(l)}),
              Breadth(l)) : l \in {c \in DOMAIN concepts : LowEdges(c) # {}}}
    \cup {Gap(l, "unexplored", 100 - 25 * Cardinality(Outgoing(l)),
              Larger(Breadth(l), 1)) : l \in Unexplored}

\* generate_question asks about the first gap; which of the gaps of the
\* highest priority comes first depends on the order of the query's rows.
TopGaps == {g \in Gaps : \A h \in Gaps : h.priority <= g.priority}

-----------------------------------------------------------------------------
(***************************************************************************)
(* readiness_scorer: 0.40 coverage + 0.35 density + 0.25 mean confidence,  *)
(* rounded to four places.  Every concept of the loop is in namespace task.*)
(***************************************************************************)
Covered(E) == {r.source : r \in DOMAIN E} \cup {r.target : r \in DOMAIN E}

Score(C, E) ==
    LET n == Cardinality(DOMAIN C)
        e == Cardinality(DOMAIN E)
        confidences == MapThenSumSet(LAMBDA r : E[r].confidence, DOMAIN E)
        \* the score times n * e
        weighted == 4000 * Cardinality(Covered(E)) * e
                    + 700 * Min({e, 5 * n}) * e
                    + 25 * confidences * n
    IN  IF e = 0 THEN 0 ELSE (2 * weighted + n * e) \div (2 * n * e)

Computed(C, E) == LET s == Score(C, E)
                  IN  [score |-> s, proposal_ready |-> s >= ProposalThreshold,
                       cert_ready |-> s >= Cert1Threshold]

-----------------------------------------------------------------------------
(***************************************************************************)
(* answer_processor and graph_writer.                                      *)
(***************************************************************************)
NeedsFollowUp(a) == a.is_ambiguous \/ a.confidence < 50

\* Slip: only an exact repetition is compared with the graph.
NeverContradicts(r) == FALSE

\* _check_contradictions: an edge the graph is sure of joins the same two
\* concepts by another relation.
Contradicts(r) ==
    \E s \in DOMAIN edges :
        /\ s.source = r.source /\ s.target = r.target
        /\ s.relation # r.relation
        /\ edges[s].confidence > 50

Conflicting(a) == \E r \in DOMAIN a.relations : Contradicts(r)

\* Slip: the extraction's own confidence is stored.
AsExtracted(confidence) == confidence

\* _assign_confidence; the route never passes is_followup.
AssignConfidence(confidence) ==
    CASE confidence >= 85 -> 90 [] confidence \in 50 .. 84 -> 80 [] OTHER -> 60

\* _find_or_create_concept for the labels of S.
WithEntities(a, S) ==
    [l \in DOMAIN concepts \cup S |->
        IF l \notin S THEN concepts[l]
        ELSE IF l \in DOMAIN concepts THEN Larger(concepts[l], a.entities[l])
        ELSE a.entities[l]]

\* Slip: a relation is written whether its concepts exist or not.
ResolvedOrNot(C, R) == R

Version(r) == IF r \in DOMAIN edges THEN edges[r].version ELSE 0

\* Relations of R whose two concepts exist; the others are skipped.
Resolved(C, R) == {r \in R : r.source \in DOMAIN C /\ r.target \in DOMAIN C}

\* Slip: an existing edge takes the confidence of the new statement.
UpsertedOverwriting(a, C, n) ==
    [r \in DOMAIN edges \cup Resolved(C, DOMAIN n) |->
        IF r \notin Resolved(C, DOMAIN n) THEN edges[r]
        ELSE [confidence |-> AssignConfidence(a.relations[r]),
              version |-> Version(r) + n[r]]]

\* _upsert_relation for n[r] of the times each relation r is listed, over the
\* concepts C: the first creates the edge if there is none, with version 1,
\* and every other counts the version up.
WithRelations(a, C, n) ==
    [r \in DOMAIN edges \cup Resolved(C, DOMAIN n) |->
        IF r \notin Resolved(C, DOMAIN n) THEN edges[r]
        ELSE LET c == AssignConfidence(a.relations[r])
             IN  [confidence |-> IF r \in DOMAIN edges THEN Larger(edges[r].confidence, c)
                                                      ELSE c,
                  version |-> Version(r) + n[r]]]

\* What was upserted of the relations in R when a write ends early.
Upserts(a, R) == {n \in [R -> 1 .. MaxVersion] : \A r \in R : n[r] <= a.times[r]}

Init ==
    /\ concepts = [l \in Topics |-> 0]
    /\ edges = [r \in {} |-> 0]
    /\ readiness = [score |-> 0, proposal_ready |-> FALSE, cert_ready |-> FALSE]
    /\ phase = "apprentice"
    /\ response = "none"

\* generate_question: the model words a question about a top gap, and is told
\* what not to ask about.  Nothing is stored; the gap comes back with the
\* answer, in the body of its request.
AskQuestion ==
    /\ phase = "apprentice"
    /\ TopGaps # {}
    /\ response' = "question"
    /\ UNCHANGED <<graph, readiness, phase>>

NoGapsRemaining ==
    /\ phase = "apprentice"
    /\ Gaps = {}
    /\ response' = "no_gaps_remaining"
    /\ UNCHANGED <<graph, readiness, phase>>

\* Both answer and question are refused (409) once the phase has changed.
RefuseAnswer ==
    /\ phase # "apprentice"
    /\ response' = "refused"
    /\ UNCHANGED <<graph, readiness, phase>>

\* The model fails: wording a question or follow-up, or extracting.
AnswerFails ==
    /\ phase = "apprentice"
    /\ response' = "error"
    /\ UNCHANGED <<graph, readiness, phase>>

FollowUp(a) ==
    /\ phase = "apprentice"
    /\ NeedsFollowUp(a)
    /\ response' = "follow_up"
    /\ UNCHANGED <<graph, readiness, phase>>

Conflict(a) ==
    /\ phase = "apprentice"
    /\ ~NeedsFollowUp(a) /\ Conflicting(a)
    /\ response' = "conflict"
    /\ UNCHANGED <<graph, readiness, phase>>

Writable(a) ==
    /\ phase = "apprentice"
    /\ ~NeedsFollowUp(a) /\ ~Conflicting(a)
    /\ \A r \in DOMAIN a.relations : Version(r) + a.times[r] <= MaxVersion

\* Slip: the scores are left to the next GET readiness.
WriteUnscored(a) ==
    /\ Writable(a)
    /\ concepts' = WithEntities(a, DOMAIN a.entities)
    /\ edges' = WithRelations(a, concepts', a.times)
    /\ response' = "write"
    /\ UNCHANGED <<readiness, phase>>

\* write_to_graph, then compute_and_store.
Write(a) ==
    /\ Writable(a)
    /\ concepts' = WithEntities(a, DOMAIN a.entities)
    /\ edges' = WithRelations(a, concepts', a.times)
    /\ readiness' = Computed(concepts', edges')
    /\ response' = "write"
    /\ UNCHANGED phase

\* compute_and_store when Redis raises after k of the three keys are set.
Stored(k, C, E) ==
    LET c == Computed(C, E)
    IN  [score |-> c.score,
         proposal_ready |-> IF k = 2 THEN c.proposal_ready ELSE readiness.proposal_ready,
         cert_ready |-> readiness.cert_ready]

WriteFailsInScoring(a, k) ==
    /\ Writable(a)
    /\ concepts' = WithEntities(a, DOMAIN a.entities)
    /\ edges' = WithRelations(a, concepts', a.times)
    /\ readiness' = Stored(k, concepts', edges')
    /\ response' = "error"
    /\ UNCHANGED phase

\* A call raises: some entities are written, or all and some relations.
WriteFailsMidway(a) ==
    /\ Writable(a)
    /\ \E S \in SUBSET DOMAIN a.entities, R \in SUBSET DOMAIN a.relations :
          /\ R # {} => S = DOMAIN a.entities
          /\ concepts' = WithEntities(a, S)
          /\ \E n \in Upserts(a, R) : edges' = WithRelations(a, concepts', n)
    /\ response' = "error"
    /\ UNCHANGED <<readiness, phase>>

\* GET readiness, in any phase.
GetReadiness ==
    /\ readiness' = Computed(concepts, edges)
    /\ response' = "readiness"
    /\ UNCHANGED <<graph, phase>>

StoreFailsMidway(k) ==
    /\ readiness' = Stored(k, concepts, edges)
    /\ response' = "error"
    /\ UNCHANGED <<graph, phase>>

\* approve_cert1 ends the apprenticeship.
Promote ==
    /\ phase = "apprentice"
    /\ phase' = "journeyman"
    /\ UNCHANGED <<graph, readiness, response>>

Answer(a) == \/ FollowUp(a) \/ Conflict(a)
             \/ Write(a) \/ WriteFailsMidway(a)
             \/ \E k \in 1 .. 2 : WriteFailsInScoring(a, k)

Next == \/ AskQuestion \/ NoGapsRemaining
        \/ \E a \in Answers : Answer(a)
        \/ RefuseAnswer \/ AnswerFails
        \/ GetReadiness
        \/ \E k \in 1 .. 2 : StoreFailsMidway(k)
        \/ Promote

Spec == Init /\ [][Next]_vars

-----------------------------------------------------------------------------
\* An edge joins two concepts of the graph, also when the write that made it
\* failed half-way or its relation names concepts its answer did not list.
EdgesJoinConcepts ==
    \A r \in DOMAIN edges : r.source \in DOMAIN concepts /\ r.target \in DOMAIN concepts

\* Scores are counted in ten-thousandths.
MaxScore == 10000

TypeOK ==
    /\ Topics \subseteq DOMAIN concepts /\ DOMAIN concepts \subseteq Labels
    /\ concepts \in [DOMAIN concepts -> 0 .. 100]
    /\ \A r \in DOMAIN edges : r \in Relation
    /\ EdgesJoinConcepts
    /\ edges \in [DOMAIN edges -> [confidence : 0 .. 100, version : 1 .. MaxVersion]]
    /\ readiness \in [score : 0 .. MaxScore, proposal_ready : BOOLEAN, cert_ready : BOOLEAN]
    /\ phase \in {"apprentice", "journeyman"}
    /\ response \in Responses

\* What the apprentice has learned is never forgotten or weakened, and a
\* repeated statement shows in the version of its edge.
KnowledgeGrows ==
    [][/\ \A l \in DOMAIN concepts :
             l \in DOMAIN concepts' /\ concepts[l] <= concepts'[l]
       /\ \A r \in DOMAIN edges :
             /\ r \in DOMAIN edges'
             /\ edges[r].confidence <= edges'[r].confidence
             /\ edges'[r] # edges[r] => edges'[r].version > edges[r].version]_vars

\* No answer, complete or failed half-way, adds a relation that contradicts
\* what the graph held before it, except for what a single answer says twice.
NoContradictionOfHistory ==
    [][\A r \in DOMAIN edges' \ DOMAIN edges :
          \A s \in DOMAIN edges :
             s.source = r.source /\ s.target = r.target => s.relation = r.relation]_vars

\* The detector of low-confidence edges (below 0.4) has nothing to find in a
\* graph the loop has built: the writer stores no confidence below 0.6.
NothingToReask == \A l \in DOMAIN concepts : LowEdges(l) = {}

\* An answer or a score request that was answered has left score and flags
\* as the graph has them; they are stale or torn only behind an error.
ScoreIsFresh ==
    response \in {"write", "readiness"} => readiness = Computed(concepts, edges)

\* Whoever is told that no gaps remain has taught enough for a proposal: the
\* detector keeps asking until the scorer, which counts other things with
\* other weights, is past its first threshold.
QuestionsLastUntilReady ==
    response = "no_gaps_remaining" => Computed(concepts, edges).proposal_ready

\* T1.3:184: a graph with an orphan gets a question about an orphan.  (Does
\* not hold: an orphan has breadth and so priority 0 and is asked last.)
OrphanAskedFirst ==
    Orphans # {} => \A g \in TopGaps : g.concept \in Orphans
=============================================================================
