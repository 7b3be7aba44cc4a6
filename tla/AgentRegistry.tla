---------------------------- MODULE AgentRegistry ---------------------------
(***************************************************************************)
(* The creation of an agent type over three stores: agent_type_service.py, *)
(* for the requests that ask for one and the same name.                    *)
(*                                                                         *)
(* Postgres statements are awaits.  The graph (Kuzu) and Redis calls of a  *)
(* creation, and the compensation that follows a failed one, run without a *)
(* break on the event loop; each of those calls can raise, and the process *)
(* can die between any two of them.                                        *)
(*                                                                         *)
(* The row is committed first and deleted last, so the other services can  *)
(* find an agent that is being made or removed, and write to it.           *)
(***************************************************************************)
EXTENDS Naturals, FiniteSets

CONSTANTS Creators,      \* POST /agent-types requests for the name
          NumTopics      \* Len(topic_list); the route refuses an empty one

ASSUME TopicsAssumption == NumTopics \in Nat \ {0}

VARIABLES
    pc,          \* where each request is
    rows,        \* whose INSERT into agent_types is there, under the name
    roots,       \* <<c, i>>: the root concept of topic i made by c
    keys,        \* which of the name's Redis keys exist: 1 phase,
                 \* 2 learning_rate, 3 readiness_score
    schema,      \* whether the tables of the name's graph exist
    found,       \* whose row a request of another service has looked up
    extras,      \* what other services left: "concepts" of answers, "flags"
                 \* proposal_ready and cert_ready
    used         \* history: whose agent other services wrote to

stores == <<rows, roots, keys, schema>>
others == <<found, extras, used>>
vars == <<pc, stores, others>>

Topics == 1 .. NumTopics
RedisKeys == 1 .. 3
Extras == {"concepts", "flags"}

Pending == {"insert", "initialize", "delete"}
Finished == {"done", "refused", "rolled_back", "error"}

Goto(c, l) == pc' = [pc EXCEPT ![c] = l]

RootsOf(c, S) == {<<c, i>> : i \in S}

Init ==
    /\ pc = [c \in Creators |-> "idle"]
    /\ rows = {}
    /\ roots = {}
    /\ keys = {}
    /\ schema = FALSE
    /\ found = {} /\ extras = {} /\ used = {}

\* SELECT id FROM agent_types WHERE name = ...
CheckName(c) ==
    /\ pc[c] = "idle"
    /\ Goto(c, IF rows = {} THEN "insert" ELSE "refused")
    /\ UNCHANGED <<stores, others>>

\* Slip: the table has no UNIQUE constraint on the name.
InsertRowUnchecked(c) ==
    /\ pc[c] = "insert"
    /\ rows' = rows \cup {c}
    /\ Goto(c, "initialize")
    /\ UNCHANGED <<roots, keys, schema, others>>

\* INSERT INTO agent_types; agent_types.name is UNIQUE.
InsertRow(c) ==
    /\ pc[c] = "insert"
    /\ rows = {}
    /\ rows' = {c}
    /\ Goto(c, "initialize")
    /\ UNCHANGED <<roots, keys, schema, others>>

\* Slip: the INSERT is inside the try, and its failure is compensated too.
InsertFailsAndCompensates(c) ==
    /\ pc[c] = "insert"
    /\ keys' = {}
    /\ Goto(c, "delete")
    /\ UNCHANGED <<rows, roots, schema, others>>

\* UniqueViolation, or any other error: nothing was done, nothing is undone.
InsertFails(c) ==
    /\ pc[c] = "insert"
    /\ Goto(c, "error")
    /\ UNCHANGED <<stores, others>>

\* Slip: concepts are numbered from 0 in one place and from 1 in another.
InitializeFromZero(c) ==
    /\ pc[c] = "initialize"
    /\ schema' = TRUE
    /\ roots' = roots \cup RootsOf(c, 0 .. NumTopics - 1)
    /\ keys' = RedisKeys
    /\ Goto(c, "done")
    /\ UNCHANGED <<rows, others>>

(***************************************************************************)
(* initialize_schema, one root concept per topic, three Redis keys.        *)
(***************************************************************************)
Initialize(c) ==
    /\ pc[c] = "initialize"
    /\ schema' = TRUE
    /\ roots' = roots \cup RootsOf(c, Topics)
    /\ keys' = RedisKeys
    /\ Goto(c, "done")
    /\ UNCHANGED <<rows, others>>

\* How far the calls of Initialize get: k concepts, then j keys.
Progress == {p \in (0 .. NumTopics) \X (0 .. 3) : p[1] < NumTopics => p[2] = 0}

\* The schema comes before the first concept, and nothing removes it.
SchemaAfter(k) == schema' \in {schema, TRUE} /\ (k > 0 => schema')

(***************************************************************************)
(* A call raises and the except branch compensates: it deletes the keys,   *)
(* then the concepts it made, and only then awaits the DELETE of the row.  *)
(* A Redis SET that raises may have taken effect, the last one too.  Kuzu  *)
(* runs in the process and commits each statement alone: one that raises   *)
(* is taken to have had no effect.                                         *)
(***************************************************************************)
\* Slip: the concepts are left to the next creation.
CompensateKeysOnly(c) ==
    /\ pc[c] = "initialize"
    /\ \E p \in Progress :
          /\ roots' = roots \cup RootsOf(c, 1 .. p[1])
          /\ SchemaAfter(p[1])
    /\ keys' = {}
    /\ Goto(c, "delete")
    /\ UNCHANGED <<rows, others>>

Compensate(c) ==
    /\ pc[c] = "initialize"
    /\ \E p \in Progress :
          /\ roots' = (roots \cup RootsOf(c, 1 .. p[1])) \ RootsOf(c, 1 .. p[1])
          /\ keys' = (keys \cup 1 .. p[2]) \ RedisKeys
          /\ SchemaAfter(p[1])
    /\ Goto(c, "delete")
    /\ UNCHANGED <<rows, others>>

\* A compensating redis_delete or concept DELETE raises as well: the keys
\* after the d-th or the concepts after the e-th stay, and so does the row.
CompensationFails(c) ==
    /\ pc[c] = "initialize"
    /\ \E p \in Progress, d \in 0 .. 3, e \in 0 .. NumTopics :
          /\ d < 3 => e = 0
          /\ d = 3 => e < p[1]
          /\ keys' = (keys \cup 1 .. p[2]) \ (1 .. d)
          /\ roots' = roots \cup RootsOf(c, (e + 1) .. p[1])
          /\ SchemaAfter(p[1])
    /\ Goto(c, "error")
    /\ UNCHANGED <<rows, others>>

\* DELETE FROM agent_types WHERE id = ...; the exception is raised again.
DeleteRow(c) ==
    /\ pc[c] = "delete"
    /\ rows' = rows \ {c}
    /\ Goto(c, "rolled_back")
    /\ UNCHANGED <<roots, keys, schema, others>>

DeleteFails(c) ==
    /\ pc[c] = "delete"
    /\ Goto(c, "error")
    /\ UNCHANGED <<stores, others>>

\* The process dies: at an await, or in the middle of c's initialization.
AllDie == /\ pc' = [c \in Creators |-> IF pc[c] \in Pending THEN "error" ELSE pc[c]]
          /\ found' = {}

Crash ==
    /\ \E c \in Creators : pc[c] \in Pending
    /\ AllDie
    /\ UNCHANGED <<stores, extras, used>>

CrashDuringInitialize(c) ==
    /\ pc[c] = "initialize"
    /\ \E p \in Progress :
          /\ roots' = roots \cup RootsOf(c, 1 .. p[1])
          /\ keys' = keys \cup 1 .. p[2]
          /\ SchemaAfter(p[1])
    /\ AllDie
    /\ UNCHANGED <<rows, extras, used>>

(***************************************************************************)
(* The other services: get_agent_type_by_name finds the row, and after an  *)
(* await (the connection is returned) the handler goes on by the name,     *)
(* whatever has become of the row.                                         *)
(***************************************************************************)
LookUp(c) ==
    /\ c \in rows
    /\ found' = found \cup {c}
    /\ UNCHANGED <<pc, stores, extras, used>>

\* An answer or a score request: concepts, then readiness_score, then flags,
\* as far as its calls get.  Without tables the first query raises.
Use(c) ==
    /\ c \in found /\ schema
    /\ \E E \in SUBSET Extras, K \in SUBSET {3} :
          /\ "flags" \in E => K # {}
          /\ extras' = extras \cup E
          /\ keys' = keys \cup K
    /\ used' = used \cup {c}
    /\ UNCHANGED <<pc, rows, roots, schema, found>>

\* approve_cert1 sets phase and learning_rate; it does not read the graph.
Certify(c) ==
    /\ c \in found
    /\ keys' = keys \cup {1, 2}
    /\ used' = used \cup {c}
    /\ UNCHANGED <<pc, rows, roots, schema, found, extras>>

Create(c) ==
    \/ CheckName(c)
    \/ InsertRow(c) \/ InsertFails(c)
    \/ Initialize(c) \/ Compensate(c) \/ CompensationFails(c)
    \/ DeleteRow(c) \/ DeleteFails(c)

Next == \/ \E c \in Creators : \/ Create(c) \/ CrashDuringInitialize(c)
                                \/ LookUp(c) \/ Use(c) \/ Certify(c)
        \/ Crash

Spec == Init /\ [][Next]_vars

-----------------------------------------------------------------------------
TypeOK ==
    /\ pc \in [Creators -> {"idle"} \cup Pending \cup Finished]
    /\ rows \subseteq Creators
    /\ roots \subseteq Creators \X Topics
    /\ keys \subseteq RedisKeys
    /\ schema \in BOOLEAN
    /\ found \subseteq Creators /\ used \subseteq Creators
    /\ extras \subseteq Extras

\* A creation that succeeded stays complete over all three stores, whatever
\* failed creations of the same name do before or after it.
CreatedIsComplete ==
    \A c \in Creators : pc[c] = "done" =>
        /\ rows = {c}
        /\ roots = RootsOf(c, Topics)
        /\ keys = RedisKeys

\* When the name is free, no root concept of a failed creation is left, since
\* the row goes last; and what else is left in the graph or in Redis was
\* written by other services that had found an agent while it was removed.
FreeNameIsClean ==
    rows = {} => /\ roots = {}
                 /\ \/ keys = {} /\ extras = {}
                    \/ \E c \in used : pc[c] = "rolled_back"

\* However creations of a name race, fail and die, the table, the answers and
\* the three stores together behave as AgentName promises: only the request
\* that inserted the row removes it, before it is answered; and an agent that
\* is whole, created or abandoned, stays whole.
Answer == [c \in Creators |-> IF pc[c] \in Finished THEN pc[c] ELSE "none"]
Whole == \E c \in rows : roots = RootsOf(c, Topics) /\ keys = RedisKeys

Name == INSTANCE AgentName WITH answer <- Answer, whole <- Whole
ImplementsAgentName == Name!Spec

\* T1.1:23: "If any step fails, the whole operation must roll back -- no
\* partial agent type should exist."  (Does not hold.)
NoPartialAgent ==
    (\A c \in Creators : pc[c] \notin Pending) =>
        \/ rows = {}
        \/ \E c \in Creators : pc[c] = "done"
=============================================================================
