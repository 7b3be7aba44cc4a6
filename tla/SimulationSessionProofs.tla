---------------------- MODULE SimulationSessionProofs ----------------------
(***************************************************************************)
(* Proofs about SimulationSession, for any number of sessions, versions of *)
(* the composition, agents, fields and messages.  Inv adds to the          *)
(* properties what they rest on: a clarified field is in the session's     *)
(* schema, schemas only grow from the contracts of the session's own       *)
(* version, and a session whose summary is being inserted is closed and    *)
(* has no row yet.                                                         *)
(***************************************************************************)
EXTENDS SimulationSession, FiniteSetTheorems, SequenceTheorems, TLAPS

UnusedIsEmpty ==
    \A s \in Sessions : status[s] = "unused" => coord_writes[s] = <<>>

SchemaCoversContract ==
    \A s \in Sessions : InMemory(s) =>
        \A a \in Agents(version[s]) : InputSchema(version[s])[a] \subseteq schema[s][a]

ClarifiedInSchema ==
    \A s \in Sessions : \A k \in DOMAIN coord_writes[s] :
        /\ coord_writes[s][k].turn <= Len(turns[s])
        /\ coord_writes[s][k].agent \in Agents(version[s]) =>
              coord_writes[s][k].field \in schema[s][coord_writes[s][k].agent]

ClosingIsClosed ==
    \A s \in Sessions : closing[s] # NoSummary =>
        /\ status[s] = "closed"
        /\ \A d \in summaries : d.session # s

Inv == /\ TypeOK
       /\ UnusedIsEmpty /\ SchemaCoversContract
       /\ PendingOnlyInLastTurn /\ PausedMeansPending
       /\ ClarifiedInSchema /\ ClarificationTakesEffect
       /\ ClosingIsClosed /\ SummarisedOnce /\ SummaryNotUnderstated
       /\ HandoffsWereObserved /\ RolesCoverContract

-----------------------------------------------------------------------------
(***************************************************************************)
(* The operators on one turn.                                              *)
(***************************************************************************)
\* The violations of a turn are a function on some of the fields.
LEMMA ViolationsTyped ==
    ASSUME NEW t \in TurnResult
    PROVE  /\ DOMAIN t.violations \subseteq Fields
           /\ t.violations \in [DOMAIN t.violations -> Resolutions \cup {"pending"}]
           /\ IsFiniteSet(DOMAIN t.violations)
           /\ IsFiniteSet(PendingIn(t))
<1>1. t.violations \in Violations  BY DEF TurnResult
<1>2. PICK D \in SUBSET Fields : t.violations \in [D -> Resolutions \cup {"pending"}]
  BY <1>1 DEF Violations
<1>3. DOMAIN t.violations = D  BY <1>2
<1>4. IsFiniteSet(D)  BY <1>2, FS_Subset, MessagesAssumption
<1>5. PendingIn(t) \subseteq D  BY <1>3 DEF PendingIn
<1>6. IsFiniteSet(PendingIn(t))  BY <1>4, <1>5, FS_Subset
<1> QED  BY <1>2, <1>3, <1>4, <1>6

\* What submit_turn appends: every violation is pending, and the turn is
\* paused if there is one.
LEMMA TurnTyped ==
    ASSUME NEW m \in Messages, NEW v, NEW contract
    PROVE  LET t == Turn(m, ValidateMessage(m, v, contract))
           IN  /\ t \in TurnResult
               /\ t.to = m.to
               /\ \A f \in DOMAIN t.violations : ~Conforms(f, m.to, v, contract)
               /\ t.paused <=> PendingIn(t) # {}
<1> DEFINE vs == ValidateMessage(m, v, contract)
           D == {g \in m.fields : ~Conforms(g, m.to, v, contract)}
           t == Turn(m, vs)
<1>1. vs = [f \in D |-> "pending"]  BY DEF ValidateMessage, NewViolation
<1>2. D \subseteq Fields  BY MessagesAssumption
<1>3. vs \in [D -> Resolutions \cup {"pending"}] /\ DOMAIN vs = D  BY <1>1
<1>4. vs \in Violations  BY <1>2, <1>3 DEF Violations
<1> HIDE DEF vs, D
<1>5. t \in TurnResult
  BY <1>4 DEF Turn, TurnResult, Names
<1>6. t.violations = vs /\ t.to = m.to /\ t.paused = (DOMAIN vs # {})
  BY DEF Turn
<1>7. PendingIn(t) = D
  BY <1>1, <1>3, <1>6 DEF PendingIn
<1>8. \A f \in D : ~Conforms(f, m.to, v, contract)  BY DEF D
<1> QED  BY <1>3, <1>5, <1>6, <1>7, <1>8 DEF vs

\* What resolve_violation makes of the last turn: one violation less is
\* pending, and the pause is what is left of them.
LEMMA ResolvedTyped ==
    ASSUME NEW t \in TurnResult, NEW f \in DOMAIN t.violations, NEW res \in Resolutions
    PROVE  LET u == Resolved(t, f, res)
           IN  /\ u \in TurnResult
               /\ u.from = t.from /\ u.to = t.to
               /\ DOMAIN u.violations = DOMAIN t.violations
               /\ PendingIn(u) \subseteq PendingIn(t)
               /\ u.paused <=> PendingIn(u) # {}
<1> DEFINE D == DOMAIN t.violations
           ws == [t.violations EXCEPT ![f] = res]
           v == [t EXCEPT !.violations[f] = res,
                          !.coord_edge_written = @ \/ res = "clarify_contract"]
           u == Resolved(t, f, res)
<1>1. D \subseteq Fields /\ t.violations \in [D -> Resolutions \cup {"pending"}]
  BY ViolationsTyped
<1>2. ws \in [D -> Resolutions \cup {"pending"}] /\ DOMAIN ws = D
  BY <1>1
<1>3. ws \in Violations  BY <1>1, <1>2 DEF Violations
<1>4. /\ v.violations = ws /\ v.from = t.from /\ v.to = t.to
      /\ v \in TurnResult
  BY <1>3 DEF TurnResult
<1>5. PendingIn(v) \subseteq PendingIn(t)
  <2>1. "pending" \notin Resolutions  BY DEF Resolutions
  <2> SUFFICES ASSUME NEW g \in PendingIn(v) PROVE g \in PendingIn(t)
    OBVIOUS
  <2>2. g \in D /\ ws[g] = "pending"  BY <1>2, <1>4 DEF PendingIn
  <2>3. g # f  BY <1>1, <2>1, <2>2
  <2> QED  BY <1>1, <2>2, <2>3 DEF PendingIn
<1>6. u = [v EXCEPT !.paused = PendingIn(v) # {}]  BY DEF Resolved
<1> HIDE DEF v
<1>7. /\ u.violations = ws /\ u.from = t.from /\ u.to = t.to
      /\ u \in TurnResult
      /\ u.paused = (PendingIn(v) # {})
  BY <1>4, <1>6 DEF TurnResult
<1>8. PendingIn(u) = PendingIn(v)  BY <1>4, <1>7 DEF PendingIn
<1> QED  BY <1>2, <1>5, <1>7, <1>8
-----------------------------------------------------------------------------
(***************************************************************************)
(* The operators on a history of turns.                                    *)
(***************************************************************************)
\* No violation of the last turn is pending if none is counted.
LEMMA NoneUnresolved ==
    ASSUME NEW h \in Seq(TurnResult), Unresolved(h) = 0, NEW i \in DOMAIN h, i = Len(h)
    PROVE  PendingIn(h[i]) = {}
<1>1. h # <<>> /\ h[i] \in TurnResult  BY LenProperties, EmptySeq
<1>2. Cardinality(PendingIn(h[i])) = 0  BY <1>1 DEF Unresolved
<1>3. IsFiniteSet(PendingIn(h[i]))  BY <1>1, ViolationsTyped
<1> QED  BY <1>2, <1>3, FS_EmptySet

\* Observations are finitely many, and no more of them are LEARNED than there
\* are.
LEMMA CleanWithinTotal ==
    ASSUME NEW h \in Seq(TurnResult), NEW p
    PROVE  Total(h, p) \in Nat /\ Clean(h, p) <= Total(h, p)
<1> DEFINE I == TurnsOf(h, p)
           K == {i \in I : Clear(h[i])}
           O == UNION {Observations(h, i) : i \in I}
           L == K \X {"LEARNED"}
           D == DOMAIN h
           F == Fields \cup {"LEARNED"}
           W == D \X F
<1>1. \A i \in I : h[i] \in TurnResult /\ i \in DOMAIN h
  BY LenProperties DEF TurnsOf
<1>2. IsFiniteSet(DOMAIN h)
  BY LenProperties, FS_Interval
<1>3. IsFiniteSet({"LEARNED"}) /\ Cardinality({"LEARNED"}) = 1  BY FS_Singleton
<1>4. IsFiniteSet(W)
  <2>1. IsFiniteSet(F)  BY <1>3, MessagesAssumption, FS_Union
  <2>2. IsFiniteSet(D)  BY <1>2
  <2> HIDE DEF D, F
  <2> QED  BY <2>1, <2>2, FS_Product
<1>5. O \subseteq W
  <2> SUFFICES ASSUME NEW i \in I PROVE Observations(h, i) \subseteq W
    OBVIOUS
  <2>1. DOMAIN h[i].violations \subseteq Fields  BY <1>1, ViolationsTyped
  <2>2. DOMAIN h[i].violations \subseteq F /\ "LEARNED" \in F /\ i \in D  BY <1>1, <2>1
  <2> HIDE DEF D, F
  <2>3. CASE Clear(h[i])
    <3>1. Observations(h, i) = {<<i, "LEARNED">>}  BY <2>3 DEF Observations
    <3> QED  BY <2>2, <3>1
  <2>4. CASE ~Clear(h[i])
    <3>1. Observations(h, i) = {i} \X DOMAIN h[i].violations  BY <2>4 DEF Observations
    <3> QED  BY <2>2, <3>1
  <2> QED  BY <2>3, <2>4
<1>6. L \subseteq O
  <2> SUFFICES ASSUME NEW i \in K PROVE <<i, "LEARNED">> \in O
    OBVIOUS
  <2>1. i \in I /\ Observations(h, i) = {<<i, "LEARNED">>}  BY DEF Observations
  <2> QED  BY <2>1
<1>7. IsFiniteSet(K)
  <2>1. K \subseteq DOMAIN h  BY <1>1
  <2> QED  BY <1>2, <2>1, FS_Subset
<1>8. IsFiniteSet(O) /\ Cardinality(O) \in Nat  BY <1>4, <1>5, FS_Subset, FS_CardinalityType
<1>9. Cardinality(L) <= Cardinality(O)  BY <1>6, <1>8, FS_Subset
<1>10. Cardinality(L) = Cardinality(K) /\ Cardinality(K) \in Nat
  <2>1. Cardinality(K) \in Nat  BY <1>7, FS_CardinalityType
  <2>2. Cardinality(L) = Cardinality(K) * Cardinality({"LEARNED"})
    BY <1>3, <1>7, FS_Product
  <2> QED  BY <1>3, <2>1, <2>2
<1> QED  BY <1>8, <1>9, <1>10 DEF Clean, Total

\* Resolutions change nothing of what a summary says about the past.
LEMMA SameViolationsSameTotals ==
    ASSUME NEW g, NEW h, DOMAIN g = DOMAIN h,
           \A i \in DOMAIN h : DOMAIN g[i].violations = DOMAIN h[i].violations
    PROVE  /\ UNION {Observations(g, i) : i \in DOMAIN g}
                = UNION {Observations(h, i) : i \in DOMAIN h}
           /\ UNION {{i} \X DOMAIN g[i].violations : i \in DOMAIN g}
                = UNION {{i} \X DOMAIN h[i].violations : i \in DOMAIN h}
<1>1. \A i \in DOMAIN h : Observations(g, i) = Observations(h, i)
  BY DEF Observations, Clear
<1>2. {Observations(g, i) : i \in DOMAIN g} = {Observations(h, i) : i \in DOMAIN h}
  BY <1>1
<1>3. {{i} \X DOMAIN g[i].violations : i \in DOMAIN g}
         = {{i} \X DOMAIN h[i].violations : i \in DOMAIN h}
  OBVIOUS
<1> QED  BY <1>2, <1>3

-----------------------------------------------------------------------------
(***************************************************************************)
(* What a close, complete or not, writes to the graph.                     *)
(***************************************************************************)
\* Every agent of a contract in the graph is of some version.
AllAgents == UNION {Agents(v) : v \in Versions}

LEMMA TeamTyped ==
    ASSUME NEW v \in Versions
    PROVE  Len(Team(v)) \in Nat /\ \A i \in 1 .. Len(Team(v)) : Team(v)[i] \in Agents(v)
BY CompositionsAssumption, LenProperties

\* The first k roles take over the session's schemas, which cover the contracts
\* of its version; the others keep theirs.
LEMMA RolesWritten ==
    ASSUME Inv, NEW s \in Sessions, InMemory(s),
           NEW k \in 0 .. Len(Team(version[s])), roles' = WriteRoles(s, k),
           version' = version, \A u \in Sessions : status'[u] = "unused" => status[u] = "unused"
    PROVE  /\ DOMAIN roles \subseteq DOMAIN roles' /\ DOMAIN roles' \subseteq AllAgents
           /\ RolesCoverContract'
<1> DEFINE w == version[s]
           written == {Team(w)[i] : i \in 1 .. k}
<1>0. w \in Versions /\ DOMAIN roles \subseteq AllAgents
  BY DEF Inv, TypeOK, AllAgents
<1>1. written \subseteq Agents(w)  BY <1>0, TeamTyped
<1>2. roles' = [a \in DOMAIN roles \cup written |->
                   IF a \in written THEN schema[s][a] ELSE roles[a]]
  BY DEF WriteRoles
<1>3. Agents(w) \subseteq AllAgents  BY <1>0 DEF AllAgents
<1>4. \A a \in Agents(w) : InputSchema(w)[a] \subseteq schema[s][a]
  BY DEF Inv, SchemaCoversContract
<1>5. status'[s] # "unused" /\ version'[s] = w  BY DEF InMemory
<1> HIDE DEF written, w
<1>6. DOMAIN roles' = DOMAIN roles \cup written  BY <1>2
<1>7. ASSUME NEW a \in DOMAIN roles'
      PROVE  \E u \in Sessions : /\ status'[u] # "unused" /\ a \in Agents(version'[u])
                                 /\ InputSchema(version'[u])[a] \subseteq roles'[a]
  <2>1. CASE a \in written
    <3>1. roles'[a] = schema[s][a] /\ a \in Agents(w)  BY <1>1, <1>2, <1>6, <2>1
    <3>2. InputSchema(w)[a] \subseteq roles'[a]  BY <1>4, <3>1
    <3> QED  BY <1>5, <3>1, <3>2
  <2>2. CASE a \notin written
    <3>1. roles'[a] = roles[a] /\ a \in DOMAIN roles  BY <1>2, <1>6, <2>2
    <3> QED  BY <3>1 DEF Inv, RolesCoverContract
  <2> QED  BY <2>1, <2>2
<1> QED  BY <1>0, <1>1, <1>3, <1>6, <1>7 DEF RolesCoverContract, Agents, Team, InputSchema

\* Edges are written for pairs with a clean turn, between existing roles.
LEMMA HandoffsWritten ==
    ASSUME Inv, NEW s \in Sessions, NEW n, DOMAIN roles \subseteq DOMAIN roles',
           handoffs' = WriteHandoffs(turns[s], n, DOMAIN roles')
    PROVE  HandoffsWereObserved' /\ \A p \in DOMAIN handoffs' : handoffs'[p].total \in Nat
<1> DEFINE h == turns[s]
           due == Learned(h) \cap Pairs(SubSeq(h, 1, n))
           written == {p \in due : p[1] \in DOMAIN roles' /\ p[2] \in DOMAIN roles'}
<1>1. handoffs' = [p \in DOMAIN handoffs \cup written |->
                      IF p \in written THEN Confidence(h, p) ELSE handoffs[p]]
  BY DEF WriteHandoffs
<1>2. \A p \in written : /\ Clean(h, p) > 0
                         /\ p[1] \in DOMAIN roles' /\ p[2] \in DOMAIN roles'
  BY DEF Learned
<1>3. h \in Seq(TurnResult)  BY DEF Inv, TypeOK
<1> HIDE DEF written, h
<1>4. DOMAIN handoffs' = DOMAIN handoffs \cup written  BY <1>1
<1>5. ASSUME NEW p \in DOMAIN handoffs'
      PROVE  /\ p[1] \in DOMAIN roles' /\ p[2] \in DOMAIN roles'
             /\ 0 < handoffs'[p].clean /\ handoffs'[p].clean <= handoffs'[p].total
             /\ handoffs'[p].total \in Nat
  <2>1. CASE p \in written
    <3>1. handoffs'[p] = Confidence(h, p)  BY <1>1, <1>4, <2>1
    <3>2. handoffs'[p].clean = Clean(h, p) /\ handoffs'[p].total = Total(h, p)
      BY <3>1 DEF Confidence
    <3>3. Total(h, p) \in Nat /\ Clean(h, p) <= Total(h, p)  BY <1>3, CleanWithinTotal
    <3> QED  BY <1>2, <2>1, <3>2, <3>3
  <2>2. CASE p \notin written
    <3>1. handoffs'[p] = handoffs[p] /\ p \in DOMAIN handoffs  BY <1>1, <1>4, <2>2
    <3> QED  BY <3>1 DEF Inv, TypeOK, HandoffsWereObserved
  <2> QED  BY <2>1, <2>2
<1> QED  BY <1>5 DEF HandoffsWereObserved
-----------------------------------------------------------------------------
\* The number shown as unresolved is a number.
LEMMA UnresolvedIsNat == ASSUME NEW h \in Seq(TurnResult) PROVE Unresolved(h) \in Nat
<1>1. CASE h = <<>>  BY <1>1 DEF Unresolved
<1>2. CASE h # <<>>
  <2>1. h[Len(h)] \in TurnResult  BY <1>2, EmptySeq, LenProperties
  <2>2. Cardinality(PendingIn(h[Len(h)])) \in Nat
    BY <2>1, ViolationsTyped, FS_CardinalityType
  <2> QED  BY <1>2, <2>2 DEF Unresolved
<1> QED  BY <1>1, <1>2

\* d tells no less than a session with the turns h.
Tells(d, h) ==
    /\ d.violations_total = Cardinality(UNION {{i} \X DOMAIN h[i].violations : i \in DOMAIN h})
    /\ d.observations_captured = Cardinality(UNION {Observations(h, i) : i \in DOMAIN h})
    /\ d.violations_unresolved >= Unresolved(h)

\* SummaryNotUnderstated, before and after a step, without the records.
LEMMA SummaryTells ==
    /\ SummaryNotUnderstated <=>
          \A s \in Sessions : status[s] = "closed" =>
             \A d \in summaries \cup {closing[s]} : d.session = s => Tells(d, turns[s])
    /\ SummaryNotUnderstated' <=>
          \A s \in Sessions : status'[s] = "closed" =>
             \A d \in summaries' \cup {closing'[s]} : d.session = s => Tells(d, turns'[s])
<1>1. \A s : /\ Summary(s).violations_total =
                  Cardinality(UNION {{i} \X DOMAIN turns[s][i].violations : i \in DOMAIN turns[s]})
             /\ Summary(s).observations_captured =
                  Cardinality(UNION {Observations(turns[s], i) : i \in DOMAIN turns[s]})
  BY DEF Summary
<1>2. \A s : /\ Summary(s).violations_total' =
                  Cardinality(UNION {{i} \X DOMAIN turns'[s][i].violations : i \in DOMAIN turns'[s]})
             /\ Summary(s).observations_captured' =
                  Cardinality(UNION {Observations(turns'[s], i) : i \in DOMAIN turns'[s]})
  BY DEF Summary, Observations, Clear
<1>3. \A s : Unresolved(turns[s])' = Unresolved(turns'[s])
  BY DEF Unresolved, PendingIn
<1>4. SummaryNotUnderstated <=>
          \A s \in Sessions : status[s] = "closed" =>
             \A d \in summaries \cup {closing[s]} : d.session = s => Tells(d, turns[s])
  BY <1>1 DEF SummaryNotUnderstated, Tells
<1>5. SummaryNotUnderstated' <=>
          \A s \in Sessions : status'[s] = "closed" =>
             \A d \in summaries' \cup {closing'[s]} : d.session = s => Tells(d, turns'[s])
  BY <1>2, <1>3 DEF SummaryNotUnderstated, Tells
<1> QED  BY <1>4, <1>5

\* The invariant holds initially.
LEMMA InitInv == Init => Inv
<1> SUFFICES ASSUME Init PROVE Inv
  OBVIOUS
<1> USE DEF Init
<1>1. turns \in [Sessions -> Seq(TurnResult)] /\ coord_writes \in [Sessions -> Seq(Write)]
  BY EmptySeq
<1>2. \A s \in Sessions : Len(turns[s]) = 0 /\ Len(coord_writes[s]) = 0
  BY EmptySeq
<1>3. \A s \in Sessions : DOMAIN turns[s] = {} /\ DOMAIN coord_writes[s] = {}
  OBVIOUS
<1>4. TypeOK
  BY <1>1, <1>2, BoundsAssumption DEF TypeOK, InMemory
<1>5. UnusedIsEmpty /\ SchemaCoversContract
  BY DEF UnusedIsEmpty, SchemaCoversContract, InMemory
<1>6. PendingOnlyInLastTurn /\ PausedMeansPending /\ ClarifiedInSchema /\ ClarificationTakesEffect
  BY <1>3 DEF PendingOnlyInLastTurn, PausedMeansPending, ClarifiedInSchema,
              ClarificationTakesEffect
<1>7. ClosingIsClosed /\ SummarisedOnce /\ SummaryNotUnderstated
  BY DEF ClosingIsClosed, SummarisedOnce, SummaryNotUnderstated
<1>8. HandoffsWereObserved /\ RolesCoverContract
  BY DEF HandoffsWereObserved, RolesCoverContract
<1> QED  BY <1>4, <1>5, <1>6, <1>7, <1>8 DEF Inv

\* start_session keeps the invariant: nothing was written for the session.
LEMMA StartKeepsInv ==
    ASSUME Inv, NEW s \in Sessions, NEW v \in Versions, StartSession(s, v)
    PROVE  Inv'
<1>0. TypeOK  BY DEF Inv
<1>1. /\ status[s] = "unused"
      /\ status' = [status EXCEPT ![s] = "active"]
      /\ version' = [version EXCEPT ![s] = v]
      /\ schema' = [schema EXCEPT ![s] = InputSchema(v)]
      /\ UNCHANGED <<turns, coord_writes, closing, summaries, roles, handoffs>>
  BY DEF StartSession, durable
<1>2. /\ status'[s] = "active" /\ version'[s] = v /\ schema'[s] = InputSchema(v)
      /\ \A u \in Sessions : u # s => /\ status'[u] = status[u] /\ version'[u] = version[u]
                                      /\ schema'[u] = schema[u]
  BY <1>0, <1>1 DEF TypeOK
<1>3. coord_writes[s] = <<>>  BY <1>1 DEF Inv, UnusedIsEmpty
<1>4. DOMAIN coord_writes[s] = {}  BY <1>3
<1>5. TypeOK'
  <2>1. status' \in [Sessions -> {"unused", "active", "closed", "lost"}]
    BY <1>0, <1>1 DEF TypeOK
  <2>2. version' \in [Sessions -> Versions \cup {0}] /\ DOMAIN schema' = Sessions
    BY <1>0, <1>1 DEF TypeOK
  <2>3. \A u \in Sessions : status'[u] \in {"active", "closed"} =>
            version'[u] \in Versions /\ schema'[u] \in [Agents(version'[u]) -> SUBSET Fields]
    <3>1. InputSchema(v) \in [Agents(v) -> SUBSET Fields]  BY CompositionsAssumption
    <3>2. \A u \in Sessions \ {s} : status[u] \in {"active", "closed"} =>
             version[u] \in Versions /\ schema[u] \in [Agents(version[u]) -> SUBSET Fields]
      BY <1>0 DEF TypeOK, InMemory
    <3> QED  BY <1>2, <3>1, <3>2
  <2> QED  BY <1>0, <1>1, <2>1, <2>2, <2>3 DEF TypeOK, InMemory, Agents, Team
<1>6. UnusedIsEmpty'
  BY <1>1, <1>2 DEF Inv, UnusedIsEmpty
<1>7. SchemaCoversContract'
  <2>1. \A u \in Sessions : status'[u] \in {"active", "closed"} =>
            \A a \in Agents(version'[u]) : InputSchema(version'[u])[a] \subseteq schema'[u][a]
    BY <1>2 DEF Inv, SchemaCoversContract, InMemory
  <2> QED  BY <2>1 DEF SchemaCoversContract, InMemory, Agents, Team, InputSchema
<1>8. PendingOnlyInLastTurn' /\ PausedMeansPending'
  BY <1>1 DEF Inv, PendingOnlyInLastTurn, PausedMeansPending, PendingIn
<1>9. ClarifiedInSchema'
  <2>1. \A u \in Sessions : \A k \in DOMAIN coord_writes[u] :
          /\ coord_writes[u][k].turn <= Len(turns[u])
          /\ coord_writes[u][k].agent \in Agents(version'[u]) =>
                coord_writes[u][k].field \in schema'[u][coord_writes[u][k].agent]
    BY <1>2, <1>4 DEF Inv, ClarifiedInSchema
  <2> QED  BY <1>1, <2>1 DEF ClarifiedInSchema, Agents, Team
<1>10. ClarificationTakesEffect'
  <2> SUFFICES ASSUME NEW u \in Sessions, NEW k \in DOMAIN coord_writes[u],
                      NEW n \in DOMAIN turns[u],
                      coord_writes[u][k].turn < n,
                      turns[u][n].to = coord_writes[u][k].agent,
                      coord_writes[u][k].field \in DOMAIN turns[u][n].violations,
                      coord_writes[u][k].agent \in Agents(version'[u])
               PROVE  coord_writes[u][k].field \in Prohibited(version'[u])[coord_writes[u][k].agent]
    BY <1>1 DEF ClarificationTakesEffect, Agents, Team, Prohibited
  <2>1. u # s /\ version'[u] = version[u]  BY <1>2, <1>4
  <2> QED  BY <2>1 DEF Inv, ClarificationTakesEffect
<1>11. ClosingIsClosed' /\ SummarisedOnce'
  BY <1>0, <1>1, <1>2 DEF Inv, TypeOK, ClosingIsClosed, SummarisedOnce
<1>12. SummaryNotUnderstated'
  <2>1. \A u \in Sessions : status'[u] = "closed" => status[u] = "closed"
    BY <1>2
  <2> QED  BY <1>1, <2>1, SummaryTells DEF Inv
<1>13. HandoffsWereObserved'
  BY <1>1 DEF Inv, HandoffsWereObserved
<1>14. RolesCoverContract'
  <2>1. \A a \in DOMAIN roles : \E u \in Sessions :
            /\ status'[u] # "unused" /\ a \in Agents(version'[u])
            /\ InputSchema(version'[u])[a] \subseteq roles[a]
    BY <1>1, <1>2 DEF Inv, RolesCoverContract
  <2> QED  BY <1>1, <2>1 DEF RolesCoverContract, Agents, Team, InputSchema
<1> QED  BY <1>5, <1>6, <1>7, <1>8, <1>9, <1>10, <1>11, <1>12, <1>13, <1>14 DEF Inv

\* submit_turn keeps the invariant: the turn before it has nothing pending.
LEMMA SubmitKeepsInv ==
    ASSUME Inv, NEW s \in Sessions, NEW m \in Messages, SubmitTurn(s, m)
    PROVE  Inv'
<1> DEFINE h == turns[s]
           t == Turn(m, ValidateMessage(m, version[s], schema[s]))
           g == Append(h, t)
<1>0. TypeOK  BY DEF Inv
<1>1. /\ status[s] = "active" /\ Unresolved(h) = 0 /\ Len(h) < MaxTurns
      /\ turns' = [turns EXCEPT ![s] = g]
      /\ UNCHANGED <<status, version, schema, coord_writes, closing, summaries, roles, handoffs>>
  BY DEF SubmitTurn, durable
<1>2. h \in Seq(TurnResult) /\ Len(h) \in Nat /\ DOMAIN h = 1 .. Len(h)
  BY <1>0, LenProperties DEF TypeOK
<1>3. /\ t \in TurnResult /\ t.to = m.to
      /\ \A f \in DOMAIN t.violations : ~Conforms(f, m.to, version[s], schema[s])
      /\ t.paused <=> PendingIn(t) # {}
  BY <1>2, TurnTyped
<1> HIDE DEF t, h
<1>4. /\ g \in Seq(TurnResult) /\ Len(g) = Len(h) + 1
      /\ DOMAIN g = 1 .. Len(h) + 1
      /\ \A i \in DOMAIN h : g[i] = h[i]
      /\ g[Len(h) + 1] = t
  BY <1>2, <1>3
<1> HIDE DEF g
<1>5. turns'[s] = g /\ \A u \in Sessions : u # s => turns'[u] = turns[u]
  BY <1>0, <1>1 DEF TypeOK
<1>6. TypeOK'
  <2>1. turns' \in [Sessions -> Seq(TurnResult)]  BY <1>0, <1>1, <1>4 DEF TypeOK
  <2>2. \A u \in Sessions : Len(turns'[u]) <= MaxTurns
    BY <1>0, <1>1, <1>2, <1>4, <1>5, BoundsAssumption DEF TypeOK
  <2> QED  BY <1>0, <1>1, <2>1, <2>2 DEF TypeOK, InMemory
<1>7. UnusedIsEmpty' /\ SchemaCoversContract'
  BY <1>1 DEF Inv, UnusedIsEmpty, SchemaCoversContract, InMemory
<1>8. PendingOnlyInLastTurn'
  <2> SUFFICES ASSUME NEW u \in Sessions, NEW i \in DOMAIN turns'[u], i < Len(turns'[u])
               PROVE  PendingIn(turns'[u][i]) = {}
    BY DEF PendingOnlyInLastTurn, PendingIn
  <2>1. CASE u # s
    BY <1>5, <2>1 DEF Inv, PendingOnlyInLastTurn
  <2>2. CASE u = s /\ i < Len(h)
    <3>1. i \in DOMAIN h /\ turns'[u][i] = turns[s][i]
      BY <1>2, <1>4, <1>5, <2>2 DEF h
    <3> QED  BY <2>2, <3>1 DEF Inv, PendingOnlyInLastTurn, h
  <2>3. CASE u = s /\ ~(i < Len(h))
    <3>1. i = Len(h) /\ i \in DOMAIN h /\ turns'[u][i] = h[i]
      BY <1>2, <1>4, <1>5, <2>3
    <3> QED  BY <1>1, <1>2, <3>1, NoneUnresolved
  <2> QED  BY <2>1, <2>2, <2>3
<1>9. PausedMeansPending'
  <2> SUFFICES ASSUME NEW u \in Sessions, NEW i \in DOMAIN turns'[u]
               PROVE  turns'[u][i].paused <=> PendingIn(turns'[u][i]) # {}
    BY DEF PausedMeansPending, PendingIn
  <2>1. CASE u # s
    BY <1>5, <2>1 DEF Inv, PausedMeansPending
  <2>2. CASE u = s /\ i \in DOMAIN h
    <3>1. turns'[u][i] = turns[s][i]  BY <1>4, <1>5, <2>2 DEF h
    <3> QED  BY <2>2, <3>1 DEF Inv, PausedMeansPending, h
  <2>3. CASE u = s /\ i \notin DOMAIN h
    <3>1. turns'[u][i] = t  BY <1>2, <1>4, <1>5, <2>3
    <3> QED  BY <1>3, <3>1
  <2> QED  BY <2>1, <2>2, <2>3
<1>10. ClarifiedInSchema'
  <2> SUFFICES ASSUME NEW u \in Sessions, NEW k \in DOMAIN coord_writes[u]
               PROVE  /\ coord_writes[u][k].turn <= Len(turns'[u])
                      /\ coord_writes[u][k].agent \in Agents(version[u]) =>
                            coord_writes[u][k].field \in schema[u][coord_writes[u][k].agent]
    BY <1>1 DEF ClarifiedInSchema
  <2>1. coord_writes[u][k].turn \in Nat
    <3>1. coord_writes[u] \in Seq(Write)  BY <1>0 DEF TypeOK
    <3>2. coord_writes[u][k] \in Write  BY <3>1, LenProperties
    <3> QED  BY <3>2, BoundsAssumption DEF Write
  <2>2. coord_writes[u][k].turn <= Len(turns[u])  BY DEF Inv, ClarifiedInSchema
  <2>3. coord_writes[u][k].turn <= Len(turns'[u])
    BY <1>2, <1>4, <1>5, <2>1, <2>2 DEF h
  <2> QED  BY <2>3 DEF Inv, ClarifiedInSchema
<1>11. ClarificationTakesEffect'
  <2> SUFFICES ASSUME NEW u \in Sessions, NEW k \in DOMAIN coord_writes[u],
                      NEW n \in DOMAIN turns'[u],
                      coord_writes[u][k].turn < n,
                      turns'[u][n].to = coord_writes[u][k].agent,
                      coord_writes[u][k].field \in DOMAIN turns'[u][n].violations,
                      coord_writes[u][k].agent \in Agents(version[u])
               PROVE  coord_writes[u][k].field \in
                         Prohibited(version[u])[coord_writes[u][k].agent]
    BY <1>1 DEF ClarificationTakesEffect
  <2>1. CASE u # s
    BY <1>5, <2>1 DEF Inv, ClarificationTakesEffect
  <2>2. CASE u = s /\ n \in DOMAIN h
    <3>1. turns'[u][n] = turns[s][n]  BY <1>4, <1>5, <2>2 DEF h
    <3> QED  BY <2>2, <3>1 DEF Inv, ClarificationTakesEffect, h
  <2>3. CASE u = s /\ n \notin DOMAIN h
    <3>1. turns'[u][n] = t  BY <1>2, <1>4, <1>5, <2>3
    <3>2. coord_writes[u][k].field \in schema[s][coord_writes[u][k].agent]
      BY <2>3 DEF Inv, ClarifiedInSchema
    <3> QED  BY <1>3, <2>3, <3>1, <3>2 DEF Conforms
  <2> QED  BY <2>1, <2>2, <2>3
<1>12. ClosingIsClosed' /\ SummarisedOnce'
  BY <1>1 DEF Inv, ClosingIsClosed, SummarisedOnce
<1>13. SummaryNotUnderstated'
  <2>1. \A u \in Sessions : status[u] = "closed" => turns'[u] = turns[u]
    BY <1>1, <1>5
  <2> QED  BY <1>1, <2>1, SummaryTells DEF Inv
<1>14. HandoffsWereObserved' /\ RolesCoverContract'
  BY <1>1 DEF Inv, HandoffsWereObserved, RolesCoverContract
<1> QED  BY <1>6, <1>7, <1>8, <1>9, <1>10, <1>11, <1>12, <1>13, <1>14 DEF Inv
\* resolve_violation keeps the invariant, in a closed session as well.
LEMMA ResolveKeepsInv ==
    ASSUME Inv, NEW s \in Sessions, NEW f \in Fields, NEW res \in Resolutions,
           ResolveViolation(s, f, res)
    PROVE  Inv'
<1> DEFINE h == turns[s]
           n == Len(h)
           t == h[n]
           r == Resolved(t, f, res)
           g == [h EXCEPT ![n] = r]
           w == [agent |-> t.to, field |-> f, turn |-> n]
<1>0. TypeOK  BY DEF Inv
<1>1. /\ status[s] \in {"active", "closed"}
      /\ n > 0 /\ f \in DOMAIN t.violations
      /\ turns' = [turns EXCEPT ![s] = g]
      /\ UNCHANGED <<status, version, closing, summaries, roles, handoffs>>
  BY DEF ResolveViolation, durable
<1>2. \/ UNCHANGED <<schema, coord_writes>>
      \/ /\ Len(coord_writes[s]) < MaxWrites
         /\ schema' = [schema EXCEPT ![s] = Clarify(@, t.to, f)]
         /\ coord_writes' = [coord_writes EXCEPT ![s] = Append(@, w)]
  BY DEF ResolveViolation
<1>3. h \in Seq(TurnResult) /\ n \in Nat /\ DOMAIN h = 1 .. n /\ n <= MaxTurns
  BY <1>0, LenProperties DEF TypeOK
<1>4. n \in DOMAIN h /\ t \in TurnResult
  BY <1>1, <1>3, LenProperties
<1>5. /\ r \in TurnResult /\ r.to = t.to
      /\ DOMAIN r.violations = DOMAIN t.violations
      /\ PendingIn(r) \subseteq PendingIn(t)
      /\ r.paused <=> PendingIn(r) # {}
  BY <1>1, <1>4, ResolvedTyped
<1> HIDE DEF r, t, n, h
<1>6. /\ g \in Seq(TurnResult) /\ Len(g) = n /\ DOMAIN g = 1 .. n
      /\ g[n] = r
      /\ \A i \in DOMAIN h : i # n => g[i] = h[i]
  BY <1>3, <1>4, <1>5, ExceptSeq, LenProperties DEF n
<1>7. h[n] = t  BY DEF t
<1> HIDE DEF g
<1>8. turns'[s] = g /\ \A u \in Sessions : u # s => turns'[u] = turns[u]
  BY <1>0, <1>1 DEF TypeOK
<1>9. \A u \in Sessions : /\ Len(turns'[u]) = Len(turns[u])
                          /\ DOMAIN turns'[u] = DOMAIN turns[u]
  BY <1>3, <1>6, <1>8 DEF h, n
<1>10. \A u \in Sessions : \A i \in DOMAIN turns[u] :
          /\ turns'[u][i].to = turns[u][i].to
          /\ DOMAIN turns'[u][i].violations = DOMAIN turns[u][i].violations
          /\ PendingIn(turns'[u][i]) \subseteq PendingIn(turns[u][i])
  BY <1>5, <1>6, <1>7, <1>8 DEF h
<1>11. w \in Write
  <2>1. t.to \in Names  BY <1>4 DEF TurnResult
  <2>2. n \in 1 .. MaxTurns  BY <1>1, <1>3, BoundsAssumption
  <2> QED  BY <2>1, <2>2 DEF Write
\* The session's schema only grows, and its writes are those before and w.
<1>12. /\ DOMAIN schema' = Sessions
       /\ \A u \in Sessions : InMemory(u) =>
             /\ schema'[u] \in [Agents(version[u]) -> SUBSET Fields]
             /\ \A a \in Agents(version[u]) : schema[u][a] \subseteq schema'[u][a]
  <2>1. CASE schema' = schema  BY <1>0, <2>1 DEF TypeOK
  <2>2. CASE schema' = [schema EXCEPT ![s] = Clarify(@, t.to, f)]
    <3>1. schema[s] \in [Agents(version[s]) -> SUBSET Fields]
      BY <1>0, <1>1 DEF TypeOK, InMemory
    <3>2. /\ Clarify(schema[s], t.to, f) \in [Agents(version[s]) -> SUBSET Fields]
          /\ \A a \in Agents(version[s]) : schema[s][a] \subseteq Clarify(schema[s], t.to, f)[a]
      BY <3>1 DEF Clarify
    <3> QED  BY <1>0, <2>2, <3>2 DEF TypeOK
  <2> QED  BY <1>2, <2>1, <2>2
<1>13. /\ coord_writes' \in [Sessions -> Seq(Write)]
       /\ \A u \in Sessions : Len(coord_writes'[u]) <= MaxWrites
  <2>1. CASE coord_writes' = coord_writes  BY <1>0, <2>1 DEF TypeOK
  <2>2. CASE /\ Len(coord_writes[s]) < MaxWrites
             /\ coord_writes' = [coord_writes EXCEPT ![s] = Append(@, w)]
    <3>1. coord_writes[s] \in Seq(Write)  BY <1>0 DEF TypeOK
    <3>2. /\ Append(coord_writes[s], w) \in Seq(Write)
          /\ Len(Append(coord_writes[s], w)) <= MaxWrites
      BY <1>11, <2>2, <3>1, LenProperties, BoundsAssumption
    <3> HIDE DEF w
    <3> QED  BY <1>0, <2>2, <3>2 DEF TypeOK
  <2> QED  BY <1>2, <2>1, <2>2
<1>14. ASSUME NEW u \in Sessions, NEW k \in DOMAIN coord_writes'[u]
       PROVE  \/ k \in DOMAIN coord_writes[u] /\ coord_writes'[u][k] = coord_writes[u][k]
              \/ /\ u = s /\ coord_writes'[u][k] = w
                 /\ schema' = [schema EXCEPT ![s] = Clarify(@, t.to, f)]
  <2>1. CASE coord_writes' = coord_writes  BY <2>1
  <2>2. CASE u # s  BY <1>0, <1>2, <2>2 DEF TypeOK
  <2>3. CASE /\ u = s
             /\ schema' = [schema EXCEPT ![s] = Clarify(@, t.to, f)]
             /\ coord_writes' = [coord_writes EXCEPT ![s] = Append(@, w)]
    <3>1. coord_writes[s] \in Seq(Write)  BY <1>0 DEF TypeOK
    <3>2. coord_writes'[u] = Append(coord_writes[s], w)  BY <1>0, <2>3 DEF TypeOK
    <3> HIDE DEF w
    <3>3. \A j \in DOMAIN Append(coord_writes[s], w) :
             \/ j \in DOMAIN coord_writes[s] /\ Append(coord_writes[s], w)[j] = coord_writes[s][j]
             \/ Append(coord_writes[s], w)[j] = w
      BY <1>11, <3>1
    <3> QED  BY <2>3, <3>2, <3>3
  <2> QED  BY <1>2, <2>1, <2>2, <2>3
<1>15. TypeOK'
  <2>1. turns' \in [Sessions -> Seq(TurnResult)]  BY <1>0, <1>1, <1>6 DEF TypeOK
  <2>2. \A u \in Sessions : InMemory(u)' <=> InMemory(u)  BY <1>1 DEF InMemory
  <2> QED  BY <1>0, <1>1, <1>9, <1>12, <1>13, <2>1, <2>2 DEF TypeOK, InMemory
<1>16. UnusedIsEmpty'
  <2>1. \A u \in Sessions : status[u] = "unused" => coord_writes'[u] = coord_writes[u]
    BY <1>0, <1>1, <1>2 DEF TypeOK
  <2> QED  BY <1>1, <2>1 DEF Inv, UnusedIsEmpty
<1>17. SchemaCoversContract'
  <2>1. \A u \in Sessions : status[u] \in {"active", "closed"} =>
            \A a \in Agents(version[u]) : InputSchema(version[u])[a] \subseteq schema'[u][a]
    BY <1>12 DEF Inv, SchemaCoversContract, InMemory
  <2> QED  BY <1>1, <2>1 DEF SchemaCoversContract, InMemory, Agents, Team, InputSchema
<1>18. PendingOnlyInLastTurn'
  BY <1>9, <1>10 DEF Inv, PendingOnlyInLastTurn, PendingIn
<1>19. PausedMeansPending'
  <2> SUFFICES ASSUME NEW u \in Sessions, NEW i \in DOMAIN turns'[u]
               PROVE  turns'[u][i].paused <=> PendingIn(turns'[u][i]) # {}
    BY DEF PausedMeansPending, PendingIn
  <2>1. CASE u = s /\ i = n
    BY <1>5, <1>6, <1>8, <2>1
  <2>2. CASE ~(u = s /\ i = n)
    <3>1. turns'[u][i] = turns[u][i] /\ i \in DOMAIN turns[u]
      BY <1>6, <1>8, <1>9, <2>2 DEF h
    <3> QED  BY <3>1 DEF Inv, PausedMeansPending
  <2> QED  BY <2>1, <2>2
<1>20. ClarifiedInSchema'
  <2> SUFFICES ASSUME NEW u \in Sessions, NEW k \in DOMAIN coord_writes'[u]
               PROVE  /\ coord_writes'[u][k].turn <= Len(turns'[u])
                      /\ coord_writes'[u][k].agent \in Agents(version[u]) =>
                            coord_writes'[u][k].field \in schema'[u][coord_writes'[u][k].agent]
    BY <1>1 DEF ClarifiedInSchema
  <2>1. CASE k \in DOMAIN coord_writes[u] /\ coord_writes'[u][k] = coord_writes[u][k]
    <3>1. CASE u = s
      BY <1>1, <1>9, <1>12, <2>1, <3>1 DEF Inv, ClarifiedInSchema, InMemory
    <3>2. CASE u # s
      <4>1. schema'[u] = schema[u]  BY <1>0, <1>2, <3>2 DEF TypeOK
      <4> QED  BY <1>9, <2>1, <4>1 DEF Inv, ClarifiedInSchema
    <3> QED  BY <3>1, <3>2
  <2>2. CASE /\ u = s /\ coord_writes'[u][k] = w
             /\ schema' = [schema EXCEPT ![s] = Clarify(@, t.to, f)]
    <3>1. coord_writes'[u][k].turn = n /\ n <= Len(turns'[u])  BY <1>3, <1>6, <1>8, <2>2
    <3>2. schema[s] \in [Agents(version[s]) -> SUBSET Fields]
      BY <1>0, <1>1 DEF TypeOK, InMemory
    <3>3. t.to \in Agents(version[s]) => f \in schema'[s][t.to]
      BY <1>0, <2>2, <3>2 DEF Clarify, TypeOK
    <3> QED  BY <2>2, <3>1, <3>3
  <2> QED  BY <1>14, <2>1, <2>2
<1>21. ClarificationTakesEffect'
  <2> SUFFICES ASSUME NEW u \in Sessions, NEW k \in DOMAIN coord_writes'[u],
                      NEW i \in DOMAIN turns'[u],
                      coord_writes'[u][k].turn < i,
                      turns'[u][i].to = coord_writes'[u][k].agent,
                      coord_writes'[u][k].field \in DOMAIN turns'[u][i].violations,
                      coord_writes'[u][k].agent \in Agents(version[u])
               PROVE  coord_writes'[u][k].field \in
                         Prohibited(version[u])[coord_writes'[u][k].agent]
    BY <1>1 DEF ClarificationTakesEffect
  <2>1. CASE k \in DOMAIN coord_writes[u] /\ coord_writes'[u][k] = coord_writes[u][k]
    BY <1>9, <1>10, <2>1 DEF Inv, ClarificationTakesEffect
  <2>2. CASE u = s /\ coord_writes'[u][k] = w
    <3>1. n < i  BY <2>2
    <3>2. i \in 1 .. n  BY <1>6, <1>8, <2>2
    <3> QED  BY <1>3, <3>1, <3>2
  <2> QED  BY <1>14, <2>1, <2>2
<1>22. ClosingIsClosed' /\ SummarisedOnce'
  BY <1>1 DEF Inv, ClosingIsClosed, SummarisedOnce
<1>23. SummaryNotUnderstated'
  <2> SUFFICES ASSUME NEW u \in Sessions, status[u] = "closed",
                      NEW d \in summaries \cup {closing[u]}, d.session = u
               PROVE  Tells(d, turns'[u])
    BY <1>1, SummaryTells
  <2>1. Tells(d, turns[u])  BY SummaryTells DEF Inv
  <2>2. CASE u # s  BY <1>8, <2>1, <2>2
  <2>3. CASE u = s
    <3>1. Unresolved(g) <= Unresolved(h) /\ Unresolved(g) \in Nat /\ Unresolved(h) \in Nat
      <4>1. g # <<>> /\ h # <<>>  BY <1>1, <1>3, <1>6 DEF n
      <4>2. Unresolved(h) = Cardinality(PendingIn(t)) /\ Unresolved(g) = Cardinality(PendingIn(r))
        BY <1>6, <4>1 DEF Unresolved, t, n
      <4>3. Cardinality(PendingIn(r)) <= Cardinality(PendingIn(t))
        BY <1>4, <1>5, ViolationsTyped, FS_Subset
      <4> QED  BY <1>3, <1>6, <4>2, <4>3, UnresolvedIsNat
    <3>2. d.violations_unresolved \in Nat
      <4>1. CASE d \in summaries  BY <1>0, <4>1 DEF TypeOK
      <4>2. CASE d = closing[u]
        <5>1. d # NoSummary  BY SessionsAssumption
        <5> QED  BY <1>0, <4>2, <5>1 DEF TypeOK
      <4> QED  BY <4>1, <4>2
    <3>3. d.violations_unresolved >= Unresolved(h)  BY <2>1, <2>3 DEF Tells, h
    <3>4. d.violations_unresolved >= Unresolved(g)  BY <3>1, <3>2, <3>3
    <3>5. /\ DOMAIN g = DOMAIN h
          /\ \A i \in DOMAIN h : DOMAIN g[i].violations = DOMAIN h[i].violations
      BY <1>3, <1>6, <1>7, <1>5
    <3>6. /\ UNION {Observations(g, i) : i \in DOMAIN g}
                = UNION {Observations(h, i) : i \in DOMAIN h}
          /\ UNION {{i} \X DOMAIN g[i].violations : i \in DOMAIN g}
                = UNION {{i} \X DOMAIN h[i].violations : i \in DOMAIN h}
      BY <3>5, SameViolationsSameTotals
    <3>7. Tells(d, h)  BY <2>1, <2>3 DEF h
    <3>8. d.violations_total = Cardinality(UNION {{i} \X DOMAIN g[i].violations : i \in DOMAIN g})
      BY <3>6, <3>7, Zenon DEF Tells
    <3>9. d.observations_captured = Cardinality(UNION {Observations(g, i) : i \in DOMAIN g})
      BY <3>6, <3>7, Zenon DEF Tells
    <3>10. Tells(d, g)  BY <3>4, <3>8, <3>9, Zenon DEF Tells
    <3> QED  BY <1>8, <2>3, <3>10
  <2> QED  BY <2>2, <2>3
<1>24. HandoffsWereObserved' /\ RolesCoverContract'
  BY <1>1 DEF Inv, HandoffsWereObserved, RolesCoverContract
<1> QED  BY <1>15, <1>16, <1>17, <1>18, <1>19, <1>20, <1>21, <1>22, <1>23, <1>24 DEF Inv
\* A close that gets through keeps the invariant: the session had no summary.
LEMMA CloseKeepsInv ==
    ASSUME Inv, NEW s \in Sessions, CloseSession(s)
    PROVE  Inv'
<1>0. TypeOK  BY DEF Inv
<1>1. /\ status[s] = "active" /\ status' = [status EXCEPT ![s] = "closed"]
      /\ closing' = [closing EXCEPT ![s] = Summary(s)]
      /\ roles' = WriteRoles(s, Len(Team(version[s])))
      /\ handoffs' = WriteHandoffs(turns[s], Len(turns[s]), DOMAIN roles')
      /\ UNCHANGED <<version, turns, schema, coord_writes, summaries>>
  BY DEF CloseSession
<1>2. /\ DOMAIN roles \subseteq DOMAIN roles' /\ DOMAIN roles' \subseteq AllAgents
      /\ RolesCoverContract'
  <2>1. InMemory(s) /\ version[s] \in Versions  BY <1>0, <1>1 DEF InMemory, TypeOK
  <2>2. Len(Team(version[s])) \in 0 .. Len(Team(version[s]))  BY <2>1, TeamTyped
  <2>3. \A u \in Sessions : status'[u] = "unused" => status[u] = "unused"
    BY <1>0, <1>1 DEF TypeOK
  <2> QED  BY <1>1, <2>1, <2>2, <2>3, RolesWritten
<1>3. HandoffsWereObserved' /\ \A p \in DOMAIN handoffs' : handoffs'[p].total \in Nat
  BY <1>1, <1>2, HandoffsWritten
<1>4. /\ Summary(s).session = s
      /\ Summary(s).violations_unresolved = Unresolved(turns[s])
      /\ Unresolved(turns[s]) \in Nat
      /\ Tells(Summary(s), turns[s])
  <2>1. turns[s] \in Seq(TurnResult)  BY <1>0 DEF TypeOK
  <2>2. Unresolved(turns[s]) \in Nat  BY <2>1, UnresolvedIsNat
  <2>3. /\ Summary(s).session = s
        /\ Summary(s).violations_unresolved = Unresolved(turns[s])
        /\ Summary(s).violations_total =
              Cardinality(UNION {{i} \X DOMAIN turns[s][i].violations : i \in DOMAIN turns[s]})
        /\ Summary(s).observations_captured =
              Cardinality(UNION {Observations(turns[s], i) : i \in DOMAIN turns[s]})
    BY DEF Summary
  <2>4. Summary(s).violations_unresolved >= Unresolved(turns[s])  BY <2>2, <2>3
  <2> QED  BY <2>2, <2>3, <2>4, Zenon DEF Tells
<1>5. closing'[s] = Summary(s) /\ \A u \in Sessions : u # s => closing'[u] = closing[u]
  BY <1>0, <1>1 DEF TypeOK
<1>6. status'[s] = "closed" /\ \A u \in Sessions : u # s => status'[u] = status[u]
  BY <1>0, <1>1 DEF TypeOK
<1>7. \A d \in summaries : d.session # s
  BY <1>0, <1>1 DEF Inv, TypeOK, SummarisedOnce
<1>8. TypeOK'
  <2>1. status' \in [Sessions -> {"unused", "active", "closed", "lost"}]
    BY <1>0, <1>1 DEF TypeOK
  <2>2. /\ DOMAIN closing' = Sessions
        /\ \A u \in Sessions : \/ closing'[u] = NoSummary
                               \/ /\ closing'[u].session = u
                                  /\ closing'[u].violations_unresolved \in Nat
    BY <1>0, <1>1, <1>4, <1>5 DEF TypeOK
  <2> QED  BY <1>0, <1>1, <1>2, <1>3, <2>1, <2>2 DEF TypeOK, InMemory, AllAgents
<1>9. UnusedIsEmpty' /\ SchemaCoversContract' /\ ClarifiedInSchema'
  BY <1>1, <1>6 DEF Inv, UnusedIsEmpty, SchemaCoversContract, InMemory, ClarifiedInSchema
<1>10. PendingOnlyInLastTurn' /\ PausedMeansPending' /\ ClarificationTakesEffect'
  BY <1>1 DEF Inv, PendingOnlyInLastTurn, PausedMeansPending, ClarificationTakesEffect
<1>11. ClosingIsClosed'
  BY <1>1, <1>5, <1>6, <1>7 DEF Inv, ClosingIsClosed
<1>12. SummarisedOnce'
  BY <1>0, <1>1, <1>5, <1>6, <1>7 DEF Inv, TypeOK, SummarisedOnce
<1>13. SummaryNotUnderstated'
  <2> SUFFICES ASSUME NEW u \in Sessions, status'[u] = "closed",
                      NEW d \in summaries \cup {closing'[u]}, d.session = u
               PROVE  Tells(d, turns[u])
    BY <1>1, SummaryTells
  <2>1. CASE u # s
    BY <1>5, <1>6, <2>1, SummaryTells DEF Inv
  <2>2. CASE u = s
    BY <1>4, <1>5, <1>7, <2>2
  <2> QED  BY <2>1, <2>2
<1> QED  BY <1>2, <1>3, <1>8, <1>9, <1>10, <1>11, <1>12, <1>13 DEF Inv

\* A close that fails in the graph changes nothing but the graph.
LEMMA CloseFailsKeepsInv ==
    ASSUME Inv, NEW s \in Sessions, CloseFailsMidway(s)
    PROVE  Inv'
<1>0. TypeOK  BY DEF Inv
<1>1. PICK k \in 0 .. Len(Team(version[s])), n \in 0 .. Len(turns[s]) :
         /\ roles' = WriteRoles(s, k)
         /\ handoffs' = WriteHandoffs(turns[s], n, DOMAIN roles')
  BY DEF CloseFailsMidway
<1>a. /\ status[s] = "active"
      /\ UNCHANGED <<status, version, turns, schema, coord_writes, closing, summaries>>
  BY DEF CloseFailsMidway
<1>2. /\ DOMAIN roles \subseteq DOMAIN roles' /\ DOMAIN roles' \subseteq AllAgents
      /\ RolesCoverContract'
  BY <1>1, <1>a, RolesWritten DEF InMemory
<1>3. HandoffsWereObserved' /\ \A p \in DOMAIN handoffs' : handoffs'[p].total \in Nat
  BY <1>1, <1>2, HandoffsWritten
<1>4. TypeOK'  BY <1>0, <1>a, <1>2, <1>3 DEF TypeOK, InMemory, AllAgents
<1>5. UnusedIsEmpty' /\ SchemaCoversContract' /\ ClarifiedInSchema'
  BY <1>a DEF Inv, UnusedIsEmpty, SchemaCoversContract, InMemory, ClarifiedInSchema
<1>6. PendingOnlyInLastTurn' /\ PausedMeansPending' /\ ClarificationTakesEffect'
  BY <1>a DEF Inv, PendingOnlyInLastTurn, PausedMeansPending, ClarificationTakesEffect
<1>7. ClosingIsClosed' /\ SummarisedOnce'
  BY <1>a DEF Inv, ClosingIsClosed, SummarisedOnce
<1>8. SummaryNotUnderstated'
  BY <1>a, SummaryTells DEF Inv
<1> QED  BY <1>2, <1>3, <1>4, <1>5, <1>6, <1>7, <1>8 DEF Inv

\* The INSERT of a summary, whether it succeeds or raises, keeps the invariant.
LEMMA InsertKeepsInv ==
    ASSUME Inv, NEW s \in Sessions, InsertSummary(s) \/ InsertFails(s)
    PROVE  Inv'
<1>0. TypeOK  BY DEF Inv
<1>1. /\ closing[s] # NoSummary /\ closing' = [closing EXCEPT ![s] = NoSummary]
      /\ UNCHANGED <<status, version, turns, schema, coord_writes, roles, handoffs>>
      /\ summaries \subseteq summaries' /\ summaries' \subseteq summaries \cup {closing[s]}
  BY DEF InsertSummary, InsertFails, durable
<1>2. /\ closing[s].session = s /\ closing[s].violations_unresolved \in Nat
      /\ status[s] = "closed" /\ \A d \in summaries : d.session # s
  BY <1>0, <1>1 DEF Inv, TypeOK, ClosingIsClosed
<1>3. closing'[s] = NoSummary /\ \A u \in Sessions : u # s => closing'[u] = closing[u]
  BY <1>0, <1>1 DEF TypeOK
<1>4. TypeOK'
  <2>1. \A d \in summaries' : d.session \in Sessions /\ d.violations_unresolved \in Nat
    BY <1>0, <1>1, <1>2 DEF TypeOK
  <2>2. /\ DOMAIN closing' = Sessions
        /\ \A u \in Sessions : \/ closing'[u] = NoSummary
                               \/ /\ closing'[u].session = u
                                  /\ closing'[u].violations_unresolved \in Nat
    BY <1>0, <1>1, <1>3 DEF TypeOK
  <2> QED  BY <1>0, <1>1, <2>1, <2>2 DEF TypeOK, InMemory
<1>5. UnusedIsEmpty' /\ SchemaCoversContract' /\ ClarifiedInSchema'
  BY <1>1 DEF Inv, UnusedIsEmpty, SchemaCoversContract, InMemory, ClarifiedInSchema
<1>6. PendingOnlyInLastTurn' /\ PausedMeansPending' /\ ClarificationTakesEffect'
  BY <1>1 DEF Inv, PendingOnlyInLastTurn, PausedMeansPending, ClarificationTakesEffect
<1>7. ClosingIsClosed'
  BY <1>0, <1>1, <1>2, <1>3 DEF Inv, TypeOK, ClosingIsClosed
<1>8. SummarisedOnce'
  BY <1>0, <1>1, <1>2, <1>3 DEF Inv, TypeOK, SummarisedOnce
<1>9. SummaryNotUnderstated'
  <2> SUFFICES ASSUME NEW u \in Sessions, status[u] = "closed",
                      NEW d \in summaries' \cup {closing'[u]}, d.session = u
               PROVE  Tells(d, turns[u])
    BY <1>1, SummaryTells
  <2>1. NoSummary.session # u  BY SessionsAssumption
  <2>2. d \in summaries \cup {closing[u]}
    BY <1>1, <1>2, <1>3, <2>1
  <2> QED  BY <2>2, SummaryTells DEF Inv
<1>10. HandoffsWereObserved' /\ RolesCoverContract'
  BY <1>1 DEF Inv, HandoffsWereObserved, RolesCoverContract
<1> QED  BY <1>4, <1>5, <1>6, <1>7, <1>8, <1>9, <1>10 DEF Inv

\* A restart keeps the invariant: what was summarised is summarised once.
LEMMA RestartKeepsInv == ASSUME Inv, Restart PROVE Inv'
<1>0. TypeOK  BY DEF Inv
<1>1. /\ status' = [u \in Sessions |-> IF status[u] = "unused" THEN "unused" ELSE "lost"]
      /\ turns' = [u \in Sessions |-> <<>>]
      /\ schema' = [u \in Sessions |-> NoSchema]
      /\ coord_writes' = [u \in Sessions |-> <<>>]
      /\ closing' = [u \in Sessions |-> NoSummary]
      /\ UNCHANGED <<version, summaries, roles, handoffs>>
  BY DEF Restart, durable
<1>2. turns' \in [Sessions -> Seq(TurnResult)] /\ coord_writes' \in [Sessions -> Seq(Write)]
  BY <1>1, EmptySeq
<1>3. \A u \in Sessions : Len(turns'[u]) = 0 /\ Len(coord_writes'[u]) = 0
  BY <1>1, EmptySeq
<1>4. \A u \in Sessions : DOMAIN turns'[u] = {} /\ DOMAIN coord_writes'[u] = {}
  BY <1>1
<1>5. TypeOK'
  BY <1>0, <1>1, <1>2, <1>3, BoundsAssumption DEF TypeOK, InMemory
<1>6. UnusedIsEmpty' /\ SchemaCoversContract'
  BY <1>1 DEF UnusedIsEmpty, SchemaCoversContract, InMemory
<1>7. PendingOnlyInLastTurn' /\ PausedMeansPending' /\ ClarifiedInSchema' /\ ClarificationTakesEffect'
  BY <1>4 DEF PendingOnlyInLastTurn, PausedMeansPending, ClarifiedInSchema,
              ClarificationTakesEffect
<1>8. ClosingIsClosed'
  BY <1>1 DEF ClosingIsClosed
<1>9. SummarisedOnce'
  BY <1>0, <1>1 DEF Inv, TypeOK, SummarisedOnce
<1>10. SummaryNotUnderstated'
  BY <1>1 DEF SummaryNotUnderstated
<1>11. HandoffsWereObserved' /\ RolesCoverContract'
  BY <1>1 DEF Inv, HandoffsWereObserved, RolesCoverContract
<1> QED  BY <1>5, <1>6, <1>7, <1>8, <1>9, <1>10, <1>11 DEF Inv

-----------------------------------------------------------------------------
\* Every reachable state of the sessions, their summaries and the graph
\* satisfies the inductive invariant.
THEOREM Invariance == Spec => []Inv
<1>1. Inv /\ [Next]_vars => Inv'
  <2> SUFFICES ASSUME Inv, [Next]_vars PROVE Inv'
    OBVIOUS
  <2>1. ASSUME NEW s \in Sessions, NEW v \in Versions, StartSession(s, v) PROVE Inv'
    BY <2>1, StartKeepsInv
  <2>2. ASSUME NEW s \in Sessions, NEW m \in Messages, SubmitTurn(s, m) PROVE Inv'
    BY <2>2, SubmitKeepsInv
  <2>3. ASSUME NEW s \in Sessions, NEW f \in Fields, NEW res \in Resolutions,
               ResolveViolation(s, f, res)
        PROVE  Inv'
    BY <2>3, ResolveKeepsInv
  <2>4. ASSUME NEW s \in Sessions, CloseSession(s) PROVE Inv'
    BY <2>4, CloseKeepsInv
  <2>5. ASSUME NEW s \in Sessions, CloseFailsMidway(s) PROVE Inv'
    BY <2>5, CloseFailsKeepsInv
  <2>6. ASSUME NEW s \in Sessions, InsertSummary(s) \/ InsertFails(s) PROVE Inv'
    BY <2>6, InsertKeepsInv
  <2>7. CASE Restart
    BY <2>7, RestartKeepsInv
  <2>8. CASE UNCHANGED vars
    <3> USE <2>8 DEF vars, Inv
    <3>1. TypeOK' /\ UnusedIsEmpty' /\ SchemaCoversContract'
      BY DEF TypeOK, UnusedIsEmpty, SchemaCoversContract, InMemory
    <3>2. PendingOnlyInLastTurn' /\ PausedMeansPending' /\ ClarifiedInSchema'
      BY DEF PendingOnlyInLastTurn, PausedMeansPending, PendingIn, ClarifiedInSchema
    <3>3. ClarificationTakesEffect'
      BY DEF ClarificationTakesEffect
    <3>4. ClosingIsClosed' /\ SummarisedOnce'
      BY DEF ClosingIsClosed, SummarisedOnce
    <3>5. SummaryNotUnderstated'
      BY SummaryTells
    <3>6. HandoffsWereObserved' /\ RolesCoverContract'
      BY DEF HandoffsWereObserved, RolesCoverContract
    <3> QED  BY <3>1, <3>2, <3>3, <3>4, <3>5, <3>6
  <2> QED  BY <2>1, <2>2, <2>3, <2>4, <2>5, <2>6, <2>7, <2>8 DEF Next
<1> QED  BY InitInv, <1>1, PTL DEF Spec

\* Sessions, summaries and graph keep their types, for any team and messages.
THEOREM TypeCorrect == Spec => []TypeOK
BY Invariance, PTL DEF Inv

\* A turn is never submitted over a pending violation, so that the count over
\* the last turn misses none (_count_unresolved_violations).
THEOREM NothingPendingBefore == Spec => []PendingOnlyInLastTurn
BY Invariance, PTL DEF Inv

\* paused_for_violation of every turn is the truth after every order of
\* resolutions (resolve_violation).
THEOREM PauseIsTruthful == Spec => []PausedMeansPending
BY Invariance, PTL DEF Inv

\* A clarified field violates nothing in the session's later turns unless it
\* is prohibited (apply_resolution, validate_message).
THEOREM ClarificationCounts == Spec => []ClarificationTakesEffect
BY Invariance, PTL DEF Inv

\* The row of a closed session tells all of its turns and violations, also
\* after late resolutions (close_session, resolve_violation).
THEOREM SummaryIsTruthful == Spec => []SummaryNotUnderstated
BY Invariance, PTL DEF Inv

\* No session gets two summaries, whatever fails or restarts (close_session).
THEOREM OneSummary == Spec => []SummarisedOnce
BY Invariance, PTL DEF Inv

\* Every HANDS_OFF_TO edge joins roles and has a conforming message behind it,
\* after complete and failed closes (_write_handoff_edges).
THEOREM HandoffsObserved == Spec => []HandoffsWereObserved
BY Invariance, PTL DEF Inv

\* Every role schema in the graph covers the contract of a version that was
\* simulated, in whatever order sessions of different versions close or fail to
\* close (start_session, _upsert_agent_role).
THEOREM RolesCover == Spec => []RolesCoverContract
BY Invariance, PTL DEF Inv
=============================================================================
