---------------------------- MODULE QALoopProofs ----------------------------
(***************************************************************************)
(* Proofs about the knowledge graph of QALoop, for every set of labels and *)
(* answers.  Inv adds to the type of the graph that it is finite and that  *)
(* every edge is surer than the threshold of the contradiction check, so   *)
(* that the check sees every edge there is.                                *)
(***************************************************************************)
EXTENDS ScoreProofs

\* The part of TypeOK that is about the graph.
GraphTyped ==
    /\ Topics \subseteq DOMAIN concepts /\ DOMAIN concepts \subseteq Labels
    /\ concepts \in [DOMAIN concepts -> 0 .. 100]
    /\ \A r \in DOMAIN edges : r \in Relation
    /\ edges \in [DOMAIN edges -> [confidence : 0 .. 100, version : 1 .. MaxVersion]]

FiniteGraph == IsFiniteSet(DOMAIN concepts) /\ IsFiniteSet(DOMAIN edges)

EdgesAreSure == \A r \in DOMAIN edges : edges[r].confidence >= 60

Inv == GraphTyped /\ FiniteGraph /\ EdgesJoinConcepts /\ EdgesAreSure

-----------------------------------------------------------------------------
\* The writer only assigns 0.6, 0.8 and 0.9.
LEMMA Assigned ==
    ASSUME NEW c \in 0 .. 100
    PROVE  AssignConfidence(c) \in {60, 80, 90}
BY DEF AssignConfidence

\* The larger of two percentages is one, and bounds both.
LEMMA LargerOf ==
    ASSUME NEW x \in 0 .. 100, NEW y \in 0 .. 100
    PROVE  Larger(x, y) \in 0 .. 100 /\ x <= Larger(x, y) /\ y <= Larger(x, y)
BY DEF Larger

\* The concepts once S was written: labels all, at least as sure as before.
EntitiesIn(C, S) ==
    /\ DOMAIN C = DOMAIN concepts \cup S
    /\ DOMAIN C \subseteq Labels /\ IsFiniteSet(DOMAIN C)
    /\ C \in [DOMAIN C -> 0 .. 100]
    /\ \A l \in DOMAIN concepts : concepts[l] <= C[l]

\* Writing entities adds concepts and strengthens those that are there.
LEMMA EntitiesWritten ==
    ASSUME Inv, NEW a \in Answers, NEW S \in SUBSET DOMAIN a.entities
    PROVE  EntitiesIn(WithEntities(a, S), S)
<1> DEFINE C == WithEntities(a, S)
<1>1. DOMAIN C = DOMAIN concepts \cup S  BY DEF WithEntities
<1>2. DOMAIN C \subseteq Labels
  BY <1>1, AnswersAssumption DEF Inv, GraphTyped
<1>3. \A l \in S : a.entities[l] \in 0 .. 100
  BY AnswersAssumption
<1>4. \A l \in DOMAIN concepts : concepts[l] \in 0 .. 100
  BY DEF Inv, GraphTyped
<1>5. ASSUME NEW l \in DOMAIN concepts \cup S
      PROVE  /\ C[l] \in 0 .. 100
             /\ l \in DOMAIN concepts => concepts[l] <= C[l]
  <2>1. CASE l \notin S
    <3>1. C[l] = concepts[l] /\ l \in DOMAIN concepts  BY <2>1, Zenon DEF WithEntities
    <3> HIDE DEF C
    <3> QED  BY <1>4, <3>1
  <2>2. CASE l \in S /\ l \in DOMAIN concepts
    <3>1. C[l] = Larger(concepts[l], a.entities[l])
      BY <2>2, Zenon DEF WithEntities
    <3>2. concepts[l] \in 0 .. 100 /\ a.entities[l] \in 0 .. 100
      BY <1>3, <1>4, <2>2
    <3>3. /\ Larger(concepts[l], a.entities[l]) \in 0 .. 100
          /\ concepts[l] <= Larger(concepts[l], a.entities[l])
      BY <3>2, LargerOf, Zenon
    <3> HIDE DEF C
    <3> QED  BY <3>1, <3>3
  <2>3. CASE l \in S /\ l \notin DOMAIN concepts
    BY <1>3, <2>3 DEF WithEntities
  <2> QED  BY <2>1, <2>2, <2>3
<1>6. C = [l \in DOMAIN C |-> C[l]]  BY DEF WithEntities
<1>7. C \in [DOMAIN C -> 0 .. 100]  BY <1>1, <1>5, <1>6
<1>8. IsFiniteSet(DOMAIN C)
  <2>1. IsFiniteSet(S)  BY AnswersAssumption, FS_Subset
  <2> QED  BY <1>1, <2>1, FS_Union DEF Inv, FiniteGraph
<1> QED  BY <1>1, <1>2, <1>5, <1>7, <1>8 DEF EntitiesIn

\* E has every edge of the graph, at least as sure, with its changes counted.
Strengthened(E) ==
    /\ DOMAIN edges \subseteq DOMAIN E
    /\ \A r \in DOMAIN edges :
          /\ edges[r].confidence <= E[r].confidence
          /\ E[r] # edges[r] => E[r].version > edges[r].version

\* The edges once R was written beside the concepts C.
RelationsIn(E, C, R) ==
    /\ Strengthened(E)
    /\ \A r \in DOMAIN E \ DOMAIN edges : r \in R
    /\ \A r \in DOMAIN E : /\ r \in Relation
                           /\ r.source \in DOMAIN C /\ r.target \in DOMAIN C
                           /\ E[r].confidence >= 60
    /\ E \in [DOMAIN E -> [confidence : 0 .. 100, version : 1 .. MaxVersion]]
    /\ IsFiniteSet(DOMAIN E)

\* u upserts relations of R, none of them more often than versions can count.
UpsertsOf(u, R) ==
    /\ u \in [R -> Nat \ {0}]
    /\ \A r \in R : Version(r) + u[r] <= MaxVersion

\* Writing relations adds edges between concepts of C, strengthens those that
\* are there and counts their versions up.
LEMMA RelationsWritten ==
    ASSUME Inv, NEW a \in Answers, NEW R \in SUBSET DOMAIN a.relations, NEW C, NEW u,
           DOMAIN concepts \subseteq DOMAIN C, UpsertsOf(u, R)
    PROVE  RelationsIn(WithRelations(a, C, u), C, R)
<1> DEFINE E == WithRelations(a, C, u)
           D == DOMAIN edges \cup Resolved(C, R)
           Edge == [confidence : 0 .. 100, version : 1 .. MaxVersion]
<1>0. DOMAIN u = R /\ \A r \in R : u[r] \in Nat \ {0} /\ Version(r) + u[r] <= MaxVersion
  BY DEF UpsertsOf
<1>1. DOMAIN E = D  BY <1>0 DEF WithRelations
<1>2. \A r \in R : /\ r \in Relation
                   /\ a.relations[r] \in 0 .. 100
                   /\ AssignConfidence(a.relations[r]) \in {60, 80, 90}
  BY AnswersAssumption, Assigned
<1>3. Resolved(C, R) \subseteq R
  BY DEF Resolved
<1>4. \A r \in DOMAIN edges : /\ r \in Relation /\ edges[r] \in Edge
                              /\ r.source \in DOMAIN C /\ r.target \in DOMAIN C
                              /\ edges[r].confidence >= 60
  BY DEF Inv, GraphTyped, EdgesJoinConcepts, EdgesAreSure
<1>5. ASSUME NEW r \in D
      PROVE  /\ r \in Relation
             /\ r.source \in DOMAIN C /\ r.target \in DOMAIN C
             /\ E[r].confidence >= 60
             /\ E[r] \in Edge
             /\ r \in DOMAIN edges =>
                   /\ edges[r].confidence <= E[r].confidence
                   /\ E[r] # edges[r] => E[r].version > edges[r].version
  <2>1. CASE r \notin Resolved(C, R)
    <3>1. E[r] = edges[r] /\ r \in DOMAIN edges
      BY <1>0, <2>1 DEF WithRelations
    <3> QED  BY <1>4, <3>1
  <2>2. CASE r \in Resolved(C, R) /\ r \in DOMAIN edges
    <3> DEFINE n == AssignConfidence(a.relations[r])
    <3>1. E[r] = [confidence |-> Larger(edges[r].confidence, n),
                  version |-> edges[r].version + u[r]]
      BY <1>0, <2>2 DEF WithRelations, Version
    <3>2. n \in 60 .. 90  BY <1>2, <1>3, <2>2
    <3>3. /\ edges[r].confidence \in 60 .. 100
          /\ edges[r].version \in 1 .. MaxVersion
          /\ u[r] \in Nat \ {0} /\ edges[r].version + u[r] <= MaxVersion
      BY <1>0, <1>3, <1>4, <2>2 DEF Version
    <3> HIDE DEF n
    <3>4. /\ Larger(edges[r].confidence, n) \in 60 .. 100
          /\ edges[r].confidence <= Larger(edges[r].confidence, n)
      BY <3>2, <3>3 DEF Larger
    <3>5. E[r] \in Edge  BY <3>1, <3>3, <3>4, BoundsAssumption
    <3>6. edges[r].version + u[r] > edges[r].version  BY <3>3, BoundsAssumption
    <3> QED  BY <1>4, <2>2, <3>1, <3>4, <3>5, <3>6
  <2>3. CASE r \in Resolved(C, R) /\ r \notin DOMAIN edges
    <3> DEFINE n == AssignConfidence(a.relations[r])
    <3>1. E[r] = [confidence |-> n, version |-> 0 + u[r]]
      BY <1>0, <2>3 DEF WithRelations, Version
    <3>2. n \in 60 .. 90  BY <1>2, <1>3, <2>3
    <3>3. r \in Relation /\ r.source \in DOMAIN C /\ r.target \in DOMAIN C
      BY <1>2, <1>3, <2>3 DEF Resolved
    <3>4. 0 + u[r] \in 1 .. MaxVersion
      BY <1>0, <1>3, <2>3, BoundsAssumption DEF Version
    <3> HIDE DEF n
    <3>5. E[r] \in Edge /\ E[r].confidence >= 60  BY <3>1, <3>2, <3>4
    <3> QED  BY <2>3, <3>3, <3>5
  <2> QED  BY <2>1, <2>2, <2>3
<1>6. E = [r \in DOMAIN E |-> E[r]]  BY DEF WithRelations
<1>7. E \in [DOMAIN E -> Edge]  BY <1>1, <1>5, <1>6
<1>8. \A r \in DOMAIN E \ DOMAIN edges : r \in R  BY <1>1, <1>3
<1>9. Strengthened(E)  BY <1>1, <1>5 DEF Strengthened
<1>10. IsFiniteSet(DOMAIN E)
  <2>1. IsFiniteSet(Resolved(C, R))  BY <1>3, AnswersAssumption, FS_Subset
  <2> QED  BY <1>1, <2>1, FS_Union DEF Inv, FiniteGraph
<1> QED  BY <1>1, <1>5, <1>7, <1>8, <1>9, <1>10 DEF RelationsIn

-----------------------------------------------------------------------------
\* A step writes a prefix of some answer, or leaves the graph alone.
Writes(a, S, R) ==
    /\ ~Conflicting(a)
    /\ concepts' = WithEntities(a, S)
    /\ \E u : UpsertsOf(u, R) /\ edges' = WithRelations(a, concepts', u)

\* What such a step leaves behind.
LEMMA Written ==
    ASSUME Inv, NEW a \in Answers, NEW S \in SUBSET DOMAIN a.entities,
           NEW R \in SUBSET DOMAIN a.relations, Writes(a, S, R)
    PROVE  EntitiesIn(concepts', S) /\ RelationsIn(edges', concepts', R)
<1>1. EntitiesIn(concepts', S)
  <2>1. EntitiesIn(WithEntities(a, S), S)  BY EntitiesWritten
  <2> QED  BY <2>1 DEF Writes
<1>2. DOMAIN concepts \subseteq DOMAIN concepts'  BY <1>1 DEF EntitiesIn
<1>3. PICK u : UpsertsOf(u, R) /\ edges' = WithRelations(a, concepts', u)
  BY DEF Writes
<1>4. RelationsIn(WithRelations(a, concepts', u), concepts', R)
  BY <1>2, <1>3, RelationsWritten
<1> QED  BY <1>1, <1>3, <1>4

\* A step leaves the graph alone or writes part of one answer.
LEMMA StepWrites ==
    ASSUME Inv, [Next]_vars
    PROVE  \/ UNCHANGED graph
           \/ \E a \in Answers : \E S \in SUBSET DOMAIN a.entities,
                                    R \in SUBSET DOMAIN a.relations : Writes(a, S, R)
<1>1. CASE UNCHANGED vars  BY <1>1 DEF vars, graph
<1>2. ASSUME NEW a \in Answers, FollowUp(a) \/ Conflict(a)
      PROVE  UNCHANGED graph
  BY <1>2 DEF FollowUp, Conflict, graph
<1>3. ASSUME NEW a \in Answers,
             Write(a) \/ \E k \in 1 .. 2 : WriteFailsInScoring(a, k)
      PROVE  Writes(a, DOMAIN a.entities, DOMAIN a.relations)
  <2>1. UpsertsOf(a.times, DOMAIN a.relations)
    BY <1>3, AnswersAssumption DEF Write, WriteFailsInScoring, Writable, UpsertsOf
  <2> QED  BY <1>3, <2>1 DEF Write, WriteFailsInScoring, Writable, Writes
<1>4. ASSUME NEW a \in Answers, WriteFailsMidway(a)
      PROVE  \E S \in SUBSET DOMAIN a.entities, R \in SUBSET DOMAIN a.relations :
                Writes(a, S, R)
  <2>1. PICK S \in SUBSET DOMAIN a.entities, R \in SUBSET DOMAIN a.relations :
           /\ concepts' = WithEntities(a, S)
           /\ \E u \in Upserts(a, R) : edges' = WithRelations(a, concepts', u)
    BY <1>4 DEF WriteFailsMidway
  <2>2. PICK u \in Upserts(a, R) : edges' = WithRelations(a, concepts', u)
    BY <2>1
  <2>3. UpsertsOf(u, R)
    <3>1. u \in [R -> 1 .. MaxVersion] /\ \A r \in R : u[r] <= a.times[r]
      BY DEF Upserts
    <3>2. \A r \in R : a.times[r] \in Nat /\ Version(r) + a.times[r] <= MaxVersion
      BY <1>4, AnswersAssumption DEF WriteFailsMidway, Writable
    <3>3. \A r \in R : Version(r) \in Nat
      BY DEF Version, Inv, GraphTyped
    <3> QED  BY <3>1, <3>2, <3>3, BoundsAssumption DEF UpsertsOf
  <2> QED  BY <1>4, <2>1, <2>2, <2>3 DEF WriteFailsMidway, Writable, Writes
<1>5. CASE \/ RefuseAnswer \/ AnswerFails \/ GetReadiness \/ Promote
           \/ \E k \in 1 .. 2 : StoreFailsMidway(k)
           \/ AskQuestion \/ NoGapsRemaining
  BY <1>5 DEF AskQuestion, NoGapsRemaining, RefuseAnswer, AnswerFails, GetReadiness, Promote, StoreFailsMidway, graph
<1> QED  BY <1>1, <1>2, <1>3, <1>4, <1>5 DEF Next, Answer

\* The graph of the root concepts satisfies the invariant.
LEMMA InvInit == Init => Inv
BY LabelsAssumption, FS_EmptySet
   DEF Init, Inv, GraphTyped, FiniteGraph, EdgesJoinConcepts, EdgesAreSure

\* The invariant is inductive.
LEMMA InvStep == Inv /\ [Next]_vars => Inv'
<1> SUFFICES ASSUME Inv, [Next]_vars PROVE Inv'
  OBVIOUS
<1>1. CASE UNCHANGED graph
  BY <1>1 DEF graph, Inv, GraphTyped, FiniteGraph, EdgesJoinConcepts, EdgesAreSure
<1>2. ASSUME NEW a \in Answers, NEW S \in SUBSET DOMAIN a.entities,
             NEW R \in SUBSET DOMAIN a.relations, Writes(a, S, R)
      PROVE  Inv'
  <2>1. EntitiesIn(concepts', S) /\ RelationsIn(edges', concepts', R)
    BY <1>2, Written
  <2>2. /\ DOMAIN concepts' \subseteq Labels /\ IsFiniteSet(DOMAIN concepts')
        /\ Topics \subseteq DOMAIN concepts'
        /\ DOMAIN concepts \subseteq DOMAIN concepts'
        /\ concepts' \in [DOMAIN concepts' -> 0 .. 100]
    <3>1. Topics \subseteq DOMAIN concepts  BY DEF Inv, GraphTyped
    <3> QED  BY <2>1, <3>1 DEF EntitiesIn
  <2>3. /\ \A r \in DOMAIN edges' : /\ r \in Relation
                                    /\ r.source \in DOMAIN concepts'
                                    /\ r.target \in DOMAIN concepts'
                                    /\ edges'[r].confidence >= 60
        /\ edges' \in [DOMAIN edges' -> [confidence : 0 .. 100, version : 1 .. MaxVersion]]
        /\ IsFiniteSet(DOMAIN edges')
    BY <2>1 DEF RelationsIn
  <2> QED  BY <2>2, <2>3 DEF Inv, GraphTyped, FiniteGraph, EdgesJoinConcepts, EdgesAreSure
<1> QED  BY <1>1, <1>2, StepWrites

\* The invariant of the graph holds in every reachable state.
THEOREM Invariance == Spec => []Inv
BY InvInit, InvStep, PTL DEF Spec

\* Edges join concepts of the graph, after failed writes too.
THEOREM EdgesJoin == Spec => []EdgesJoinConcepts
<1>1. Inv => EdgesJoinConcepts  BY DEF Inv
<1> QED  BY <1>1, Invariance, PTL

\* No graph that the loop builds has a low-confidence edge to ask about.
THEOREM NoLowConfidence == Spec => []NothingToReask
<1>1. Inv => NothingToReask
  <2> SUFFICES ASSUME Inv, NEW l \in DOMAIN concepts PROVE LowEdges(l) = {}
    BY DEF NothingToReask
  <2>1. ASSUME NEW r \in DOMAIN edges PROVE ~ (edges[r].confidence < 40)
    <3>1. edges[r].confidence \in 0 .. 100 /\ edges[r].confidence >= 60
      BY DEF Inv, GraphTyped, EdgesAreSure
    <3> QED  BY <3>1
  <2> QED  BY <2>1 DEF LowEdges, Outgoing
<1> QED  BY <1>1, Invariance, PTL

\* The three keys have their types, also when only some of them were stored:
\* the score of a graph is a number between 0 and 1 (readiness_scorer).
Scores == 0 .. MaxScore

Readiness == [score : Scores, proposal_ready : BOOLEAN, cert_ready : BOOLEAN]

\* The graphs of the loop can be scored.
GraphScorable == Measured(concepts, edges, 0)

LEMMA GraphsAreScorable == Inv => GraphScorable
BY DEF Inv, GraphTyped, FiniteGraph, EdgesJoinConcepts, Covered, Measured, GraphScorable

\* A score and its comparisons with the two thresholds.
LEMMA Compared ==
    ASSUME NEW n \in Scores, NEW p \in Int, NEW c \in Int
    PROVE  [score |-> n, proposal_ready |-> n >= p, cert_ready |-> n >= c] \in Readiness
<1>1. (n >= p) \in BOOLEAN /\ (n >= c) \in BOOLEAN  OBVIOUS
<1> QED  BY <1>1, Zenon DEF Readiness

\* The keys when the first k of them are from a later result than the rest.
LEMMA Torn ==
    ASSUME NEW k \in 1 .. 2, NEW x \in Readiness, NEW y \in Readiness
    PROVE  [score |-> x.score,
            proposal_ready |-> IF k = 2 THEN x.proposal_ready ELSE y.proposal_ready,
            cert_ready |-> y.cert_ready] \in Readiness
BY DEF Readiness

\* What is computed from such a graph, and what is stored of it.
LEMMA ComputedTyped ==
    ASSUME NEW C, NEW E, Measured(C, E, 0), readiness \in Readiness
    PROVE  /\ Computed(C, E) \in Readiness
           /\ \A k \in 1 .. 2 : Stored(k, C, E) \in Readiness
<1>1. Score(C, E) \in Scores
  BY ScoreBounds DEF Scores
<1>2. Computed(C, E) \in Readiness
  BY <1>1, Compared, BoundsAssumption DEF Computed
<1>3. \A k \in 1 .. 2 : Stored(k, C, E) \in Readiness
  BY <1>2, Torn DEF Stored
<1> QED  BY <1>2, <1>3

\* The parts of TypeOK beside the graph.
RestTyped ==
    /\ readiness \in Readiness
    /\ phase \in {"apprentice", "journeyman"}
    /\ response \in Responses

\* TypeOK of QALoop.
THEOREM TypeCorrect == Spec => []TypeOK
<1>1. Init => RestTyped
  <2>1. 0 \in Scores  BY DEF Scores, MaxScore
  <2> QED  BY <2>1 DEF Init, RestTyped, Readiness, Responses
<1>2. GraphScorable /\ GraphScorable' /\ RestTyped /\ [Next]_vars => RestTyped'
  <2> SUFFICES ASSUME GraphScorable, GraphScorable', RestTyped, [Next]_vars
               PROVE  RestTyped'
    OBVIOUS
  <2>1. Measured(concepts, edges, 0) /\ Measured(concepts', edges', 0)
    BY DEF GraphScorable
  <2>2. CASE UNCHANGED vars
    BY <2>2 DEF vars, RestTyped
  <2>3. CASE \/ AskQuestion \/ NoGapsRemaining \/ RefuseAnswer \/ AnswerFails \/ Promote
    BY <2>3 DEF AskQuestion, NoGapsRemaining, RefuseAnswer, AnswerFails, Promote, RestTyped,
                Responses
  <2>4. CASE GetReadiness \/ \E k \in 1 .. 2 : StoreFailsMidway(k)
    <3>1. readiness' \in Readiness
      BY <2>1, <2>4, ComputedTyped DEF GetReadiness, StoreFailsMidway, RestTyped
    <3>2. UNCHANGED phase /\ response' \in {"readiness", "error"}
      BY <2>4 DEF GetReadiness, StoreFailsMidway
    <3> QED  BY <3>1, <3>2 DEF RestTyped, Responses
  <2>5. ASSUME NEW a \in Answers, FollowUp(a) \/ Conflict(a) \/ WriteFailsMidway(a)
        PROVE  RestTyped'
    BY <2>5 DEF FollowUp, Conflict, WriteFailsMidway, RestTyped, Responses
  <2>6. ASSUME NEW a \in Answers, Write(a) \/ \E k \in 1 .. 2 : WriteFailsInScoring(a, k)
        PROVE  RestTyped'
    <3>1. readiness' \in Readiness
      BY <2>1, <2>6, ComputedTyped DEF Write, WriteFailsInScoring, RestTyped
    <3>2. UNCHANGED phase /\ response' \in {"write", "error"}
      BY <2>6 DEF Write, WriteFailsInScoring
    <3> QED  BY <3>1, <3>2 DEF RestTyped, Responses
  <2> QED  BY <2>2, <2>3, <2>4, <2>5, <2>6 DEF Next, Answer
<1>3. Inv /\ RestTyped => TypeOK
  BY DEF Inv, GraphTyped, RestTyped, Readiness, Scores, TypeOK
<1> QED  BY <1>1, <1>2, <1>3, GraphsAreScorable, Invariance, PTL DEF Spec

\* A graph in which the detector finds no gap is past every threshold up to
\* 0.69 (the default is 0.55), whatever the concepts and relations are.
LEMMA NoGapsMeansReady ==
    ASSUME Inv, Gaps = {}
    PROVE  Score(concepts, edges) >= 6900
<1>1. \A l \in DOMAIN concepts :
         \E q, r \in DOMAIN edges : q # r /\ q.source = l /\ r.source = l
  BY NoGapsMeansExplored DEF Inv, FiniteGraph
<1>2. 2 * Cardinality(DOMAIN concepts) <= Cardinality(DOMAIN edges)
  BY <1>1, TwoEdgesEach DEF Inv, FiniteGraph
<1>3. Covered(edges) = DOMAIN concepts
  <2>1. Covered(edges) \subseteq DOMAIN concepts
    BY DEF Inv, EdgesJoinConcepts, Covered
  <2>2. DOMAIN concepts \subseteq Covered(edges)
    BY <1>1 DEF Covered
  <2> QED  BY <2>1, <2>2
<1>4. \A r \in DOMAIN edges : edges[r].confidence \in 60 .. 100
  BY DEF Inv, GraphTyped, EdgesAreSure
<1>5. DOMAIN concepts # {}
  BY LabelsAssumption DEF Inv, GraphTyped
<1> QED  BY <1>2, <1>3, <1>4, <1>5, ScoreOfConnected DEF Measured, Inv, FiniteGraph

\* A score past the threshold sets the flag.
LEMMA Passed ==
    ASSUME NEW n, NEW p, NEW c, n >= p
    PROVE  [score |-> n, proposal_ready |-> n >= p, cert_ready |-> n >= c].proposal_ready
OBVIOUS

\* Nobody is told that no gaps remain before the agent is ready for a proposal
\* (gap_detector against readiness_scorer), for thresholds up to 0.69.
THEOREM QuestionsLast ==
    ASSUME ProposalThreshold <= 6900
    PROVE  Spec => []QuestionsLastUntilReady
<1>1. Init => QuestionsLastUntilReady
  BY DEF Init, QuestionsLastUntilReady
<1>2. Inv /\ QuestionsLastUntilReady /\ [Next]_vars => QuestionsLastUntilReady'
  <2> SUFFICES ASSUME Inv, QuestionsLastUntilReady, [Next]_vars
               PROVE  QuestionsLastUntilReady'
    OBVIOUS
  <2>1. CASE NoGapsRemaining
    <3>1. Gaps = {} /\ UNCHANGED graph  BY <2>1 DEF NoGapsRemaining
    <3>2. PICK n \in Scores : n = Score(concepts, edges)
      BY GraphsAreScorable, ScoreBounds DEF GraphScorable, Scores
    <3>3. n \in Int /\ n >= 6900
      BY <3>1, <3>2, NoGapsMeansReady DEF Scores
    <3>4. n >= ProposalThreshold
      BY <3>3, BoundsAssumption
    <3>5. Computed(concepts, edges).proposal_ready
      BY <3>2, <3>4, Passed DEF Computed
    <3>6. UNCHANGED <<concepts, edges>>  BY <3>1 DEF graph
    <3> QED  BY <3>5, <3>6 DEF QuestionsLastUntilReady
  <2>2. CASE Promote \/ UNCHANGED vars
    BY <2>2 DEF Promote, QuestionsLastUntilReady, graph, vars
  <2>3. CASE \/ AskQuestion \/ RefuseAnswer \/ AnswerFails \/ GetReadiness
             \/ \E k \in 1 .. 2 : StoreFailsMidway(k)
    BY <2>3 DEF AskQuestion, RefuseAnswer, AnswerFails, GetReadiness, StoreFailsMidway,
                QuestionsLastUntilReady
  <2>4. ASSUME NEW a \in Answers, Answer(a) PROVE QuestionsLastUntilReady'
    BY <2>4 DEF Answer, FollowUp, Conflict, Write, WriteFailsMidway, WriteFailsInScoring,
                QuestionsLastUntilReady
  <2> QED  BY <2>1, <2>2, <2>3, <2>4 DEF Next
<1> QED  BY <1>1, <1>2, Invariance, PTL DEF Spec

\* Whatever fails, a write or a readiness request that was answered leaves the
\* three keys as the graph has them (compute_and_store).
THEOREM FreshlyScored == Spec => []ScoreIsFresh
<1>1. Init => ScoreIsFresh  BY DEF Init, ScoreIsFresh
<1>2. ScoreIsFresh /\ [Next]_vars => ScoreIsFresh'
  <2> SUFFICES ASSUME ScoreIsFresh, [Next]_vars PROVE ScoreIsFresh'
    OBVIOUS
  <2>1. CASE (\E a \in Answers : Write(a)) \/ GetReadiness
    BY <2>1, Zenon DEF Write, GetReadiness, ScoreIsFresh, graph
  <2>2. CASE Promote \/ UNCHANGED vars
    BY <2>2 DEF Promote, ScoreIsFresh, graph, vars
  <2>3. CASE \/ AskQuestion \/ NoGapsRemaining \/ RefuseAnswer \/ AnswerFails
             \/ \E k \in 1 .. 2 : StoreFailsMidway(k)
    BY <2>3 DEF AskQuestion, NoGapsRemaining, RefuseAnswer, AnswerFails, StoreFailsMidway,
                ScoreIsFresh
  <2>4. ASSUME NEW a \in Answers,
               \/ FollowUp(a) \/ Conflict(a) \/ WriteFailsMidway(a)
               \/ \E k \in 1 .. 2 : WriteFailsInScoring(a, k)
        PROVE  ScoreIsFresh'
    BY <2>4 DEF FollowUp, Conflict, WriteFailsMidway, WriteFailsInScoring, ScoreIsFresh
  <2> QED  BY <2>1, <2>2, <2>3, <2>4 DEF Next, Answer
<1> QED  BY <1>1, <1>2, PTL DEF Spec

\* No step forgets or weakens a concept or an edge.
THEOREM NothingForgotten == Spec => KnowledgeGrows
<1> DEFINE Grows ==
      /\ \A l \in DOMAIN concepts : l \in DOMAIN concepts' /\ concepts[l] <= concepts'[l]
      /\ \A r \in DOMAIN edges :
            /\ r \in DOMAIN edges'
            /\ edges[r].confidence <= edges'[r].confidence
            /\ edges'[r] # edges[r] => edges'[r].version > edges[r].version
<1>1. ASSUME Inv, [Next]_vars PROVE Grows
  <2>1. CASE UNCHANGED graph
    <3>1. \A l \in DOMAIN concepts : concepts[l] \in 0 .. 100
      BY <1>1 DEF Inv, GraphTyped
    <3>2. \A r \in DOMAIN edges : edges[r].confidence \in 0 .. 100
      BY <1>1 DEF Inv, GraphTyped
    <3> QED  BY <2>1, <3>1, <3>2 DEF graph
  <2>2. ASSUME NEW a \in Answers, NEW S \in SUBSET DOMAIN a.entities,
               NEW R \in SUBSET DOMAIN a.relations, Writes(a, S, R)
        PROVE  Grows
    <3>1. EntitiesIn(concepts', S) /\ RelationsIn(edges', concepts', R)
      BY <1>1, <2>2, Written
    <3> QED  BY <3>1 DEF EntitiesIn, RelationsIn, Strengthened
  <2> QED  BY <1>1, <2>1, <2>2, StepWrites
<1>2. Inv /\ [Next]_vars => [Grows]_vars  BY <1>1
<1> QED  BY <1>2, Invariance, PTL DEF Spec, KnowledgeGrows

\* No answer contradicts the graph it is written to.
THEOREM HistoryNotContradicted == Spec => NoContradictionOfHistory
<1> DEFINE Agrees ==
      \A r \in DOMAIN edges' \ DOMAIN edges : \A s \in DOMAIN edges :
         s.source = r.source /\ s.target = r.target => s.relation = r.relation
<1>1. ASSUME Inv, [Next]_vars PROVE Agrees
  <2>1. CASE UNCHANGED graph
    BY <2>1 DEF graph
  <2>2. ASSUME NEW a \in Answers, NEW S \in SUBSET DOMAIN a.entities,
               NEW R \in SUBSET DOMAIN a.relations, Writes(a, S, R)
        PROVE  Agrees
    <3> SUFFICES ASSUME NEW r \in DOMAIN edges' \ DOMAIN edges, NEW s \in DOMAIN edges,
                        s.source = r.source, s.target = r.target
                 PROVE  s.relation = r.relation
      OBVIOUS
    <3>1. RelationsIn(edges', concepts', R)  BY <1>1, <2>2, Written
    <3>2. r \in DOMAIN a.relations  BY <3>1 DEF RelationsIn
    <3>3. ~ Contradicts(r)
      BY <2>2, <3>2 DEF Writes, Conflicting
    <3>4. edges[s].confidence > 50
      BY <1>1 DEF Inv, GraphTyped, EdgesAreSure
    <3> QED  BY <3>3, <3>4 DEF Contradicts
  <2> QED  BY <1>1, <2>1, <2>2, StepWrites
<1>2. Inv /\ [Next]_vars => [Agrees]_vars  BY <1>1
<1> QED  BY <1>2, Invariance, PTL DEF Spec, NoContradictionOfHistory
=============================================================================
