-------------------------- MODULE SimulationSession -------------------------
(***************************************************************************)
(* The simulation of an approved composition: session_manager.py and       *)
(* contract_validator.py behind api/routes/simulations.py, with what they  *)
(* write to the coordination namespace of the knowledge graph (Kuzu) and   *)
(* to simulation_session_summaries (Postgres).                             *)
(*                                                                         *)
(* Turns, resolutions and the graph writes of a close contain no await, so *)
(* each is one action; close_session awaits only the INSERT of its         *)
(* summary.  Sessions live in memory: a restart forgets them and keeps the *)
(* graph and the summaries.                                                *)
(***************************************************************************)
EXTENDS Integers, Sequences, FiniteSets

CONSTANTS
    Sessions,       \* ids handed out by start_session
    Compositions,   \* version -> the composition the experts approved as it
    Fields,         \* names of message fields
    Messages,       \* [from, to, fields]: what an expert may send; the
                    \* fields of a message are the keys of a dictionary
    MaxTurns,       \* bound on the turns of a session
    MaxWrites       \* bound on the clarifications of a session

\* What an approved version says: its agents by name, in their order, and for
\* each the fields its contract declares and those it must not receive.
Versions == DOMAIN Compositions
Team(v) == Compositions[v].agents
Agents(v) == {Team(v)[i] : i \in DOMAIN Team(v)}
InputSchema(v) == Compositions[v].input_schema
Prohibited(v) == Compositions[v].prohibited_fields

ASSUME CompositionsAssumption ==
    /\ Versions \subseteq Nat \ {0}
    /\ \A v \in Versions :
          /\ Team(v) \in Seq(Agents(v))
          /\ InputSchema(v) \in [Agents(v) -> SUBSET Fields]
          /\ Prohibited(v) \in [Agents(v) -> SUBSET Fields]

ASSUME MessagesAssumption ==
    /\ IsFiniteSet(Fields)
    /\ \A m \in Messages : m.fields \subseteq Fields

ASSUME BoundsAssumption == MaxTurns \in Nat /\ MaxWrites \in Nat

VARIABLES
    status,         \* session -> "unused", "active", "closed" or "lost"
    version,        \* session -> composition_version, 0 before it is started
    turns,          \* session -> turn_history
    schema,         \* session -> input_schema of each agent in _session_agents
    coord_writes,   \* session -> coord_namespace_writes
    closing,        \* session -> the summary close_session is inserting
    summaries,      \* rows of simulation_session_summaries
    roles,          \* Kuzu: AgentRole name -> input_schema
    handoffs        \* Kuzu: HANDS_OFF_TO pair -> [clean, total]

vars == <<status, version, turns, schema, coord_writes, closing, summaries, roles,
          handoffs>>

durable == <<summaries, roles, handoffs>>

NoSummary == [session |-> "none"]

NoSchema == [a \in {} |-> {}]

ASSUME SessionsAssumption == NoSummary.session \notin Sessions

Resolutions == {"clarify_contract", "mark_edge_case"}

-----------------------------------------------------------------------------
(***************************************************************************)
(* contract_validator.validate_message: one violation per field that the   *)
(* receiver may not or need not accept.  A receiver without a contract in  *)
(* the session's composition, version v, accepts nothing.  An index into   *)
(* the violations names one of the fields, so they are kept as a function: *)
(* field -> resolution.                                                    *)
(***************************************************************************)
Conforms(f, to, v, contract) ==
    to \in Agents(v) /\ f \notin Prohibited(v)[to] /\ f \in contract[to]

\* Slip: a violation starts without a resolution.
NewViolationUnset == "none"

NewViolation == "pending"

ValidateMessage(m, v, contract) ==
    [f \in {g \in m.fields : ~Conforms(g, m.to, v, contract)} |-> NewViolation]

PendingIn(t) == {f \in DOMAIN t.violations : t.violations[f] = "pending"}

\* _count_unresolved_violations: it looks at the last turn only.
Unresolved(h) == IF h = <<>> THEN 0 ELSE Cardinality(PendingIn(h[Len(h)]))

Clear(t) == DOMAIN t.violations = {}

\* The observations of turn i: one LEARNED, or one for each violation.
Observations(h, i) ==
    IF Clear(h[i]) THEN {<<i, "LEARNED">>} ELSE {i} \X DOMAIN h[i].violations

\* coord_edge_written is the same for all observations of a turn, because all
\* of them involve the same two roles.
Turn(m, vs) == [from |-> m.from, to |-> m.to, violations |-> vs,
                paused |-> DOMAIN vs # {}, coord_edge_written |-> FALSE]

-----------------------------------------------------------------------------
(***************************************************************************)
(* _write_handoff_edges: per pair of roles, LEARNED observations over all  *)
(* observations; a pair without a LEARNED one gets no edge.                *)
(***************************************************************************)
TurnsOf(h, p) == {i \in DOMAIN h : h[i].from = p[1] /\ h[i].to = p[2]}

Clean(h, p) == Cardinality({i \in TurnsOf(h, p) : Clear(h[i])})

Total(h, p) == Cardinality(UNION {Observations(h, i) : i \in TurnsOf(h, p)})

Confidence(h, p) == [clean |-> Clean(h, p), total |-> Total(h, p)]

Pairs(h) == {<<h[i].from, h[i].to>> : i \in DOMAIN h}

\* Slip: the test for a positive confidence is gone.
LearnedOrNot(h) == Pairs(h)

Learned(h) == {p \in Pairs(h) : Clean(h, p) > 0}

\* Pairs are written in the order of their first turns: those that appear in
\* the first n turns.  The edge is created only between role nodes that exist;
\* it is counted in edges_written all the same.
WriteHandoffs(h, n, names) ==
    LET due == Learned(h) \cap Pairs(SubSeq(h, 1, n))
        written == {p \in due : p[1] \in names /\ p[2] \in names}
    IN  [p \in DOMAIN handoffs \cup written |->
            IF p \in written THEN Confidence(h, p) ELSE handoffs[p]]

\* _upsert_agent_role for the first k agents of the session's composition:
\* whatever an earlier session wrote for an agent of that name is replaced.
WriteRoles(s, k) ==
    LET written == {Team(version[s])[i] : i \in 1 .. k}
    IN  [a \in DOMAIN roles \cup written |->
            IF a \in written THEN schema[s][a] ELSE roles[a]]

Summary(s) ==
    [session               |-> s,
     composition_version   |-> version[s],
     coord_edges_written   |-> Len(coord_writes[s]) + Cardinality(Learned(turns[s])),
     observations_captured |-> Cardinality(UNION {Observations(turns[s], i) :
                                                  i \in DOMAIN turns[s]}),
     violations_total      |-> Cardinality(UNION {{i} \X DOMAIN turns[s][i].violations :
                                                  i \in DOMAIN turns[s]}),
     violations_unresolved |-> Unresolved(turns[s])]

-----------------------------------------------------------------------------
Init ==
    /\ status = [s \in Sessions |-> "unused"]
    /\ version = [s \in Sessions |-> 0]
    /\ turns = [s \in Sessions |-> <<>>]
    /\ schema = [s \in Sessions |-> NoSchema]
    /\ coord_writes = [s \in Sessions |-> <<>>]
    /\ closing = [s \in Sessions |-> NoSummary]
    /\ summaries = {}
    /\ roles = [a \in {} |-> {}]
    /\ handoffs = [p \in {} |-> 0]

(***************************************************************************)
(* start_session: copies the contracts of the newest version, v, which     *)
(* must be approved; otherwise the request is refused and nothing changes, *)
(* so the action is one that may always be taken or not.  Reviews go on    *)
(* meanwhile, and only add versions (ProposalReview): v is at least the    *)
(* version of every session before, and open sessions may differ in it.    *)
(***************************************************************************)
StartSession(s, v) ==
    /\ status[s] = "unused"
    /\ \A u \in Sessions : version[u] <= v
    /\ status' = [status EXCEPT ![s] = "active"]
    /\ version' = [version EXCEPT ![s] = v]
    /\ schema' = [schema EXCEPT ![s] = InputSchema(v)]
    /\ UNCHANGED <<turns, coord_writes, closing, durable>>

\* Slip: the pause is not looked at.
SubmitTurnWhilePaused(s, m) ==
    /\ status[s] = "active"
    /\ Len(turns[s]) < MaxTurns
    /\ turns' = [turns EXCEPT ![s] =
                    Append(@, Turn(m, ValidateMessage(m, version[s], schema[s])))]
    /\ UNCHANGED <<status, version, schema, coord_writes, closing, durable>>

\* Slip: the closed session is not looked at.
SubmitTurnAfterClose(s, m) ==
    /\ status[s] \in {"active", "closed"}
    /\ Unresolved(turns[s]) = 0
    /\ Len(turns[s]) < MaxTurns
    /\ turns' = [turns EXCEPT ![s] =
                    Append(@, Turn(m, ValidateMessage(m, version[s], schema[s])))]
    /\ UNCHANGED <<status, version, schema, coord_writes, closing, durable>>

\* submit_turn: refused when the session is closed or paused.
SubmitTurn(s, m) ==
    /\ status[s] = "active"
    /\ Unresolved(turns[s]) = 0          \* else SessionPausedForViolation
    /\ Len(turns[s]) < MaxTurns
    /\ turns' = [turns EXCEPT ![s] =
                    Append(@, Turn(m, ValidateMessage(m, version[s], schema[s])))]
    /\ UNCHANGED <<status, version, schema, coord_writes, closing, durable>>

(***************************************************************************)
(* resolve_violation: the violation by field f of the last turn, in any    *)
(* session that is in memory (closed ones too) and whether or not it was   *)
(* resolved before.                                                        *)
(***************************************************************************)
\* Slip: one resolution lifts the pause of the whole turn.
ResolvedAtOnce(t, f, res) ==
    [t EXCEPT !.violations[f] = res, !.paused = FALSE]

Resolved(t, f, res) ==
    LET u == [t EXCEPT !.violations[f] = res,
                       !.coord_edge_written = @ \/ res = "clarify_contract"]
    IN  [u EXCEPT !.paused = PendingIn(u) # {}]

\* Slip: the clarified field replaces the schema.
ClarifyReplacing(contract, to, f) ==
    [a \in DOMAIN contract |-> IF a = to THEN {f} ELSE contract[a]]

\* Slip: the field is added to a copy that is thrown away.
ClarifyCopy(contract, to, f) == contract

\* apply_resolution: the receiver's contract gains the field.
Clarify(contract, to, f) ==
    [a \in DOMAIN contract |-> IF a = to THEN contract[a] \cup {f} ELSE contract[a]]

ResolveViolation(s, f, res) ==
    LET n == Len(turns[s])
        t == turns[s][n]
    IN  /\ status[s] \in {"active", "closed"}
        /\ n > 0 /\ f \in DOMAIN t.violations
        /\ turns' = [turns EXCEPT ![s] = [@ EXCEPT ![n] = Resolved(t, f, res)]]
        /\ IF res = "clarify_contract"
           THEN /\ Len(coord_writes[s]) < MaxWrites
                /\ schema' = [schema EXCEPT ![s] = Clarify(@, t.to, f)]
                /\ coord_writes' = [coord_writes EXCEPT ![s] =
                        Append(@, [agent |-> t.to, field |-> f, turn |-> n])]
           ELSE UNCHANGED <<schema, coord_writes>>
        /\ UNCHANGED <<status, version, closing, durable>>

(***************************************************************************)
(* close_session up to its await: the graph is written, the summary is     *)
(* computed and the session is closed.                                     *)
(***************************************************************************)
\* Slip: the status is set after the await, so a second close gets through.
CloseAnySession(s) ==
    /\ status[s] \in {"active", "closed"}
    /\ roles' = WriteRoles(s, Len(Team(version[s])))
    /\ handoffs' = WriteHandoffs(turns[s], Len(turns[s]), DOMAIN roles')
    /\ status' = [status EXCEPT ![s] = "closed"]
    /\ closing' = [closing EXCEPT ![s] = Summary(s)]
    /\ UNCHANGED <<version, turns, schema, coord_writes, summaries>>

CloseSession(s) ==
    /\ status[s] = "active"              \* else "already closed"
    /\ roles' = WriteRoles(s, Len(Team(version[s])))
    /\ handoffs' = WriteHandoffs(turns[s], Len(turns[s]), DOMAIN roles')
    /\ status' = [status EXCEPT ![s] = "closed"]
    /\ closing' = [closing EXCEPT ![s] = Summary(s)]
    /\ UNCHANGED <<version, turns, schema, coord_writes, summaries>>

\* Kuzu raises after k roles and, when those are all of them, after the edges
\* of the first n turns are written: the session stays open.
CloseFailsMidway(s) ==
    /\ status[s] = "active"
    /\ \E k \in 0 .. Len(Team(version[s])), n \in 0 .. Len(turns[s]) :
          /\ n > 0 => k = Len(Team(version[s]))
          /\ roles' = WriteRoles(s, k)
          /\ handoffs' = WriteHandoffs(turns[s], n, DOMAIN roles')
    /\ UNCHANGED <<status, version, turns, schema, coord_writes, closing, summaries>>

\* The awaited INSERT of the summary succeeds, or raises.
InsertSummary(s) ==
    /\ closing[s] # NoSummary
    /\ summaries' = summaries \cup {closing[s]}
    /\ closing' = [closing EXCEPT ![s] = NoSummary]
    /\ UNCHANGED <<status, version, turns, schema, coord_writes, roles, handoffs>>

InsertFails(s) ==
    /\ closing[s] # NoSummary
    /\ closing' = [closing EXCEPT ![s] = NoSummary]
    /\ UNCHANGED <<status, version, turns, schema, coord_writes, durable>>

\* The process dies: every session is forgotten, an INSERT may have gone out.
\* (version stays: it tells which composition a lost session ran on.)
Restart ==
    /\ status' = [s \in Sessions |-> IF status[s] = "unused" THEN "unused" ELSE "lost"]
    /\ turns' = [s \in Sessions |-> <<>>]
    /\ schema' = [s \in Sessions |-> NoSchema]
    /\ coord_writes' = [s \in Sessions |-> <<>>]
    /\ closing' = [s \in Sessions |-> NoSummary]
    /\ UNCHANGED <<version, durable>>

Next ==
    \/ \E s \in Sessions :
          \/ \E v \in Versions : StartSession(s, v)
          \/ \E m \in Messages : SubmitTurn(s, m)
          \/ \E f \in Fields, res \in Resolutions : ResolveViolation(s, f, res)
          \/ CloseSession(s)
          \/ CloseFailsMidway(s)
          \/ InsertSummary(s) \/ InsertFails(s)
    \/ Restart

Spec == Init /\ [][Next]_vars

-----------------------------------------------------------------------------
Names == {m.from : m \in Messages} \cup {m.to : m \in Messages}

Violations == UNION {[D -> Resolutions \cup {"pending"}] : D \in SUBSET Fields}

TurnResult == [from : Names, to : Names, violations : Violations,
               paused : BOOLEAN, coord_edge_written : BOOLEAN]

Write == [agent : Names, field : Fields, turn : 1 .. MaxTurns]

InMemory(s) == status[s] \in {"active", "closed"}

TypeOK ==
    /\ status \in [Sessions -> {"unused", "active", "closed", "lost"}]
    /\ turns \in [Sessions -> Seq(TurnResult)]
    /\ coord_writes \in [Sessions -> Seq(Write)]
    /\ \A s \in Sessions : Len(turns[s]) <= MaxTurns /\ Len(coord_writes[s]) <= MaxWrites
    /\ version \in [Sessions -> Versions \cup {0}]
    /\ DOMAIN schema = Sessions
    /\ \A s \in Sessions : InMemory(s) =>
          /\ version[s] \in Versions
          /\ schema[s] \in [Agents(version[s]) -> SUBSET Fields]
    /\ DOMAIN closing = Sessions
    /\ \A s \in Sessions : \/ closing[s] = NoSummary
                           \/ /\ closing[s].session = s
                              /\ closing[s].violations_unresolved \in Nat
    /\ \A d \in summaries : d.session \in Sessions /\ d.violations_unresolved \in Nat
    /\ DOMAIN roles \subseteq UNION {Agents(v) : v \in Versions}
    /\ \A p \in DOMAIN handoffs : handoffs[p].total \in Nat

\* Only the last turn of a session has unresolved violations, so counting
\* there, as the pause and the summary do, misses none.
PendingOnlyInLastTurn ==
    \A s \in Sessions : \A i \in DOMAIN turns[s] :
        i < Len(turns[s]) => PendingIn(turns[s][i]) = {}

\* The pause shown for a turn is the truth: it lasts until the last of the
\* turn's violations is resolved, whatever the order of the resolutions.
PausedMeansPending ==
    \A s \in Sessions : \A i \in DOMAIN turns[s] :
        turns[s][i].paused <=> PendingIn(turns[s][i]) # {}

\* What a session clarified is no violation in its later turns, unless the
\* field is prohibited: the prohibition is checked before the clarification.
ClarificationTakesEffect ==
    \A s \in Sessions : \A k \in DOMAIN coord_writes[s] :
        LET w == coord_writes[s][k]
        IN  \A n \in DOMAIN turns[s] :
               /\ w.turn < n /\ turns[s][n].to = w.agent
               /\ w.field \in DOMAIN turns[s][n].violations
               /\ w.agent \in Agents(version[s])
               => w.field \in Prohibited(version[s])[w.agent]

\* A row of simulation_session_summaries, or one about to be inserted, tells
\* the session as it ended: no turn came after it and no unresolved violation
\* is missing from it.  (Late resolutions may leave it overstating them.)
SummaryNotUnderstated ==
    \A s \in Sessions : status[s] = "closed" =>
        \A d \in summaries \cup {closing[s]} : d.session = s =>
            /\ d.violations_total = Summary(s).violations_total
            /\ d.observations_captured = Summary(s).observations_captured
            /\ d.violations_unresolved >= Unresolved(turns[s])

\* A session has one summary at most, and only after it was closed.
SummarisedOnce ==
    \A d \in summaries :
        /\ status[d.session] \in {"closed", "lost"}
        /\ closing[d.session] = NoSummary
        /\ \A e \in summaries : e.session = d.session => e = d

\* A HANDS_OFF_TO edge joins two known roles and stands for at least one
\* message between them that conformed.
HandoffsWereObserved ==
    \A p \in DOMAIN handoffs :
        /\ p[1] \in DOMAIN roles /\ p[2] \in DOMAIN roles
        /\ 0 < handoffs[p].clean /\ handoffs[p].clean <= handoffs[p].total

\* A schema in the graph covers a whole contract, as approved in a version that
\* was simulated, in whatever order sessions close or fail to close.  (Not the
\* newest contract: the session that closes last may run on an older version.)
RolesCoverContract ==
    \A a \in DOMAIN roles : \E s \in Sessions :
        /\ status[s] # "unused" /\ a \in Agents(version[s])
        /\ InputSchema(version[s])[a] \subseteq roles[a]

\* T1.9:621: a clarification becomes permanent with the AgentRole write of
\* close_session.  (Does not hold: the next session to close overwrites it.)
ClarificationsSurvive ==
    [][\A s \in Sessions : \A k \in DOMAIN coord_writes[s] :
          LET w == coord_writes[s][k]
          IN  status[s] = "closed" /\ w.agent \in DOMAIN roles
                 /\ w.field \in roles[w.agent]
              => w.agent \in DOMAIN roles' /\ w.field \in roles'[w.agent]]_vars
=============================================================================
