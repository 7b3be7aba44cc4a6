------------------------- MODULE AgentRegistryProofs ------------------------
(***************************************************************************)
(* Proofs about AgentRegistry, for every set of requests and every number  *)
(* of topics.  Inv says whose row is there at each point of a creation,    *)
(* and who wrote what the graph and Redis hold when nobody's row is.       *)
(***************************************************************************)
EXTENDS AgentRegistry, TLAPS

\* A request that got past its INSERT owns the only row of the name, and the
\* graph has no root concept until it has initialized it.
RowOwner ==
    \A c \in Creators :
        /\ pc[c] \in {"initialize", "delete", "done"} => rows = {c}
        /\ pc[c] \in {"initialize", "delete"} => roots = {}

\* A row belongs to one request, which is building, has built, or has given up.
RowHolder ==
    \A c \in rows : rows = {c} /\ pc[c] \in {"initialize", "delete", "done", "error"}

\* Of all requests that found the name free, at most one creates the agent,
\* and a second one never touches what the first is building or has built.
OneBuilder ==
    \A c, d \in Creators :
        pc[c] \in {"initialize", "delete", "done"}
            /\ pc[d] \in {"initialize", "delete", "done"} => c = d

NoOrphanedRoots == rows = {} => roots = {}

\* A row that another service has found is there, or it was rolled back.
FoundOrGone == \A c \in found \cup used : c \in rows \/ pc[c] = "rolled_back"

\* While no agent is made, what is in Redis and in the graph besides root
\* concepts comes from other services.
Unmade == rows = {} \/ \E c \in Creators : pc[c] \in {"initialize", "delete"}

WrittenByOthers == /\ extras # {} => used # {}
                   /\ Unmade => keys = {} \/ used # {}

Inv == /\ TypeOK /\ RowOwner /\ RowHolder /\ CreatedIsComplete
       /\ NoOrphanedRoots /\ FoundOrGone /\ WrittenByOthers

\* The two UNIQUE-protected stages exclude each other.
LEMMA InvImpliesOneBuilder == Inv => OneBuilder
BY DEF Inv, RowOwner, OneBuilder

\* Concepts of one request, for a set of topics.
LEMMA RootsTyped ==
    \A c \in Creators : \A S \in SUBSET Topics : RootsOf(c, S) \subseteq Creators \X Topics
BY DEF RootsOf

\* The first keys of a creation are among the three.
LEMMA KeysTyped == \A j \in 0 .. 3 : 1 .. j \subseteq RedisKeys
BY DEF RedisKeys

\* No row, no request under way: the invariant holds initially.
LEMMA InvInit == Init => Inv
BY DEF Init, Inv, TypeOK, RowOwner, RowHolder, CreatedIsComplete, NoOrphanedRoots, FoundOrGone,
       WrittenByOthers, Pending, Finished

\* A request that owns the row is the only one past an INSERT.
LEMMA Owner ==
    ASSUME Inv, NEW c \in Creators, pc[c] \in {"initialize", "delete"}
    PROVE  /\ rows = {c} /\ roots = {}
           /\ \A d \in Creators : d # c =>
                 pc[d] \notin {"initialize", "delete", "done"}
BY DEF Inv, RowOwner

\* A request that changes neither the row nor the stores, and does not become
\* an owner of the row, keeps the invariant.
LEMMA QuietStep ==
    ASSUME Inv, NEW c \in Creators, UNCHANGED <<stores, others>>,
           NEW l \in {"insert", "refused", "error"}, Goto(c, l),
           pc[c] \notin {"done", "rolled_back"},
           l = "error" \/ pc[c] = "idle"
    PROVE  Inv'
<1> USE DEF Inv, Goto, stores, others
<1>1. TypeOK'  BY DEF TypeOK, Pending, Finished
<1>2. RowOwner' /\ CreatedIsComplete' /\ NoOrphanedRoots'
  BY DEF TypeOK, RowOwner, CreatedIsComplete, NoOrphanedRoots
<1>3. FoundOrGone'  BY DEF TypeOK, FoundOrGone
<1>4. WrittenByOthers'  BY DEF TypeOK, WrittenByOthers, Unmade
<1>5. RowHolder'  BY DEF TypeOK, RowHolder
<1> QED  BY <1>1, <1>2, <1>3, <1>4, <1>5

\* Every step of a creation keeps the invariant.
LEMMA CreateStep ==
    ASSUME Inv, NEW c \in Creators, Create(c)
    PROVE  Inv'
<1> USE DEF Inv
<1>1. CASE CheckName(c)
  <2>1. CASE rows = {}  BY <1>1, <2>1, QuietStep DEF CheckName
  <2>2. CASE rows # {}  BY <1>1, <2>2, QuietStep DEF CheckName
  <2> QED  BY <2>1, <2>2
<1>2. CASE InsertRow(c)
  <2> USE <1>2 DEF InsertRow, Goto, others
  <2>1. TypeOK'  BY DEF TypeOK, Pending
  <2>2. roots = {}  BY DEF NoOrphanedRoots
  <2>3. \A d \in Creators : d # c =>
            pc'[d] \notin {"initialize", "delete", "done"}
    BY DEF RowOwner, TypeOK
  <2>4. RowOwner'  BY <2>2, <2>3 DEF RowOwner, TypeOK
  <2>5. CreatedIsComplete'  BY <2>3 DEF CreatedIsComplete, TypeOK
  <2>6. NoOrphanedRoots'  BY DEF NoOrphanedRoots
  <2>7. FoundOrGone'  BY DEF FoundOrGone, TypeOK
  <2>8. WrittenByOthers'  BY DEF WrittenByOthers, Unmade
  <2>9. RowHolder'  BY DEF RowHolder, TypeOK
  <2> QED  BY <2>1, <2>4, <2>5, <2>6, <2>7, <2>8, <2>9
<1>3. CASE InsertFails(c) \/ DeleteFails(c)
  BY <1>3, QuietStep DEF InsertFails, DeleteFails
<1>4. CASE Initialize(c)
  <2> USE <1>4 DEF Initialize, Goto, others
  <2>0. /\ rows = {c} /\ roots = {}
        /\ \A d \in Creators : d # c => pc[d] \notin {"initialize", "delete", "done"}
    BY Owner
  <2>1. TypeOK'  BY RootsTyped DEF TypeOK, Finished
  <2>2. RowOwner'  BY <2>0 DEF RowOwner, TypeOK
  <2>3. CreatedIsComplete'  BY <2>0 DEF CreatedIsComplete, TypeOK
  <2>4. NoOrphanedRoots'  BY <2>0 DEF NoOrphanedRoots
  <2>5. FoundOrGone'  BY <2>0 DEF FoundOrGone, TypeOK
  <2>6. WrittenByOthers'  BY <2>0 DEF WrittenByOthers, Unmade, TypeOK
  <2>7. RowHolder'  BY <2>0 DEF RowHolder, TypeOK
  <2> QED  BY <2>1, <2>2, <2>3, <2>4, <2>5, <2>6, <2>7
<1>5. CASE Compensate(c)
  <2>0. /\ rows = {c} /\ roots = {}
        /\ \A d \in Creators : d # c => pc[d] \notin {"initialize", "delete", "done"}
    BY <1>5, Owner DEF Compensate
  <2>1. /\ pc[c] = "initialize" /\ UNCHANGED <<rows, others>>
        /\ pc' = [pc EXCEPT ![c] = "delete"]
        /\ roots' = {} /\ keys' = {} /\ schema' \in {schema, TRUE}
    <3>1. PICK p \in Progress :
             /\ roots' = (roots \cup RootsOf(c, 1 .. p[1])) \ RootsOf(c, 1 .. p[1])
             /\ keys' = (keys \cup 1 .. p[2]) \ RedisKeys
             /\ SchemaAfter(p[1])
      BY <1>5 DEF Compensate
    <3>2. p[2] \in 0 .. 3  BY <3>1 DEF Progress
    <3>3. keys' = {}  BY <3>1, <3>2, KeysTyped DEF TypeOK
    <3>4. roots' = {} /\ schema' \in {schema, TRUE}  BY <2>0, <3>1 DEF SchemaAfter
    <3> QED  BY <1>5, <3>3, <3>4 DEF Compensate, Goto
  <2>2. TypeOK'  BY <2>1 DEF TypeOK, Pending, others
  <2>3. RowOwner'  BY <2>0, <2>1 DEF RowOwner, TypeOK
  <2>4. CreatedIsComplete'  BY <2>0, <2>1 DEF CreatedIsComplete, TypeOK
  <2>5. NoOrphanedRoots'  BY <2>1 DEF NoOrphanedRoots
  <2>6. FoundOrGone'  BY <2>1 DEF FoundOrGone, TypeOK, others
  <2>7. WrittenByOthers'  BY <2>1 DEF WrittenByOthers, others
  <2>8. RowHolder'  BY <2>0, <2>1 DEF RowHolder, TypeOK
  <2> QED  BY <2>2, <2>3, <2>4, <2>5, <2>6, <2>7, <2>8
<1>6. CASE CompensationFails(c)
  <2>0. /\ rows = {c} /\ roots = {}
        /\ \A d \in Creators : d # c => pc[d] \notin {"initialize", "delete", "done"}
    BY <1>6, Owner DEF CompensationFails
  <2>1. /\ pc[c] = "initialize" /\ UNCHANGED <<rows, others>>
        /\ pc' = [pc EXCEPT ![c] = "error"]
    BY <1>6 DEF CompensationFails, Goto
  <2>2. PICK p \in Progress, d \in 0 .. 3, e \in 0 .. NumTopics :
           /\ keys' = (keys \cup 1 .. p[2]) \ (1 .. d)
           /\ roots' = roots \cup RootsOf(c, (e + 1) .. p[1])
           /\ SchemaAfter(p[1])
    BY <1>6 DEF CompensationFails
  <2>3. p[1] \in 0 .. NumTopics /\ p[2] \in 0 .. 3  BY <2>2 DEF Progress
  <2>4. (e + 1) .. p[1] \in SUBSET Topics  BY <2>2, <2>3, TopicsAssumption DEF Topics
  <2>5. roots' \subseteq Creators \X Topics
    BY <2>2, <2>4, RootsTyped DEF TypeOK
  <2>6. keys' \subseteq RedisKeys
    BY <2>2, <2>3, KeysTyped DEF TypeOK
  <2>7. TypeOK'  BY <2>1, <2>2, <2>5, <2>6 DEF TypeOK, Finished, SchemaAfter, others
  <2>8. RowOwner'  BY <2>0, <2>1 DEF RowOwner, TypeOK
  <2>9. CreatedIsComplete'  BY <2>0, <2>1 DEF CreatedIsComplete, TypeOK
  <2>10. NoOrphanedRoots'  BY <2>0, <2>1 DEF NoOrphanedRoots
  <2>11. FoundOrGone'  BY <2>1 DEF FoundOrGone, TypeOK, others
  <2>12. WrittenByOthers'  BY <2>0, <2>1 DEF WrittenByOthers, Unmade, TypeOK, others
  <2>13. RowHolder'  BY <2>0, <2>1 DEF RowHolder, TypeOK
  <2> QED  BY <2>7, <2>8, <2>9, <2>10, <2>11, <2>12, <2>13
<1>7. CASE DeleteRow(c)
  <2> USE <1>7 DEF DeleteRow, Goto, others
  <2>0. /\ rows = {c} /\ roots = {}
        /\ \A d \in Creators : d # c => pc[d] \notin {"initialize", "delete", "done"}
    BY Owner
  <2>1. TypeOK'  BY DEF TypeOK, Finished
  <2>2. RowOwner'  BY <2>0 DEF RowOwner, TypeOK
  <2>3. CreatedIsComplete'  BY <2>0 DEF CreatedIsComplete, TypeOK
  <2>4. NoOrphanedRoots'  BY <2>0 DEF NoOrphanedRoots
  <2>5. FoundOrGone'  BY <2>0 DEF FoundOrGone, TypeOK
  <2>6. WrittenByOthers'  BY <2>0 DEF WrittenByOthers, Unmade
  <2>7. RowHolder'  BY <2>0 DEF RowHolder, TypeOK
  <2> QED  BY <2>1, <2>2, <2>3, <2>4, <2>5, <2>6, <2>7
<1> QED  BY <1>1, <1>2, <1>3, <1>4, <1>5, <1>6, <1>7 DEF Create

\* A crash turns every request in flight into a failed one.
LEMMA CrashStep ==
    ASSUME Inv, Crash \/ \E c \in Creators : CrashDuringInitialize(c)
    PROVE  Inv'
<1> USE DEF Inv
<1>1. /\ UNCHANGED <<rows, extras, used>> /\ found' = {}
      /\ pc' = [c \in Creators |-> IF pc[c] \in Pending THEN "error" ELSE pc[c]]
  BY DEF Crash, CrashDuringInitialize, AllDie, stores
<1>2. \A c \in Creators : /\ pc'[c] \notin {"initialize", "delete"}
                          /\ pc'[c] = "done" <=> pc[c] = "done"
                          /\ pc[c] = "rolled_back" => pc'[c] = "rolled_back"
  BY <1>1 DEF Pending
<1>3. pc' \in [Creators -> {"idle"} \cup Pending \cup Finished]
  BY <1>1 DEF TypeOK, Finished
<1>4. RowOwner'  BY <1>1, <1>2 DEF RowOwner
<1>5. FoundOrGone'  BY <1>1, <1>2 DEF FoundOrGone, TypeOK
<1>8. RowHolder'  BY <1>1 DEF RowHolder, TypeOK, Pending
<1>6. CASE Crash
  <2>1. UNCHANGED stores  BY <1>6 DEF Crash
  <2>2. TypeOK'  BY <1>1, <1>3, <2>1 DEF TypeOK, stores
  <2>3. CreatedIsComplete' /\ NoOrphanedRoots'
    BY <1>2, <2>1 DEF CreatedIsComplete, NoOrphanedRoots, stores
  <2>4. WrittenByOthers'  BY <1>1, <1>2, <2>1 DEF WrittenByOthers, Unmade, stores
  <2> QED  BY <1>4, <1>5, <1>8, <2>2, <2>3, <2>4
<1>7. ASSUME NEW c \in Creators, CrashDuringInitialize(c)
      PROVE  Inv'
  <2>1. rows = {c} /\ pc[c] = "initialize"
    BY <1>7 DEF CrashDuringInitialize, RowOwner
  <2>2. PICK p \in Progress : /\ roots' = roots \cup RootsOf(c, 1 .. p[1])
                              /\ keys' = keys \cup 1 .. p[2]
                              /\ SchemaAfter(p[1])
    BY <1>7 DEF CrashDuringInitialize
  <2>3. p[1] \in 0 .. NumTopics /\ p[2] \in 0 .. 3  BY <2>2 DEF Progress
  <2>4. 1 .. p[1] \in SUBSET Topics  BY <2>3, TopicsAssumption DEF Topics
  <2>5. TypeOK'
    BY <1>1, <1>3, <2>2, <2>3, <2>4, RootsTyped, KeysTyped DEF TypeOK, SchemaAfter
  <2>6. CreatedIsComplete'
    BY <1>2, <2>1 DEF CreatedIsComplete, RowOwner
  <2>7. NoOrphanedRoots'  BY <1>1, <2>1 DEF NoOrphanedRoots
  <2>8. WrittenByOthers'  BY <1>1, <1>2, <2>1 DEF WrittenByOthers, Unmade
  <2> QED  BY <1>4, <1>5, <1>8, <2>5, <2>6, <2>7, <2>8
<1> QED  BY <1>6, <1>7

\* What other services find and write keeps the invariant.
LEMMA OthersStep ==
    ASSUME Inv, NEW c \in Creators, LookUp(c) \/ Use(c) \/ Certify(c)
    PROVE  Inv'
<1> USE DEF Inv
<1>1. CASE LookUp(c)
  <2> USE <1>1 DEF LookUp, stores
  <2>1. TypeOK'  BY DEF TypeOK
  <2>2. RowOwner' /\ RowHolder' /\ CreatedIsComplete' /\ NoOrphanedRoots'
    BY DEF RowOwner, RowHolder, CreatedIsComplete, NoOrphanedRoots
  <2>3. FoundOrGone' /\ WrittenByOthers'
    BY DEF FoundOrGone, WrittenByOthers, Unmade
  <2> QED  BY <2>1, <2>2, <2>3
<1>2. CASE Use(c) \/ Certify(c)
  <2>1. /\ UNCHANGED <<pc, rows, roots, schema, found>> /\ used' = used \cup {c}
        /\ c \in found
    BY <1>2 DEF Use, Certify
  <2>2. PICK K \in SUBSET RedisKeys : keys' = keys \cup K
    <3>1. CASE Use(c)  BY <3>1 DEF Use, RedisKeys
    <3>2. CASE Certify(c)
      <4>1. {1, 2} \in SUBSET RedisKeys /\ keys' = keys \cup {1, 2}
        BY <3>2 DEF Certify, RedisKeys
      <4> QED  BY <4>1
    <3> QED  BY <1>2, <3>1, <3>2
  <2>3. extras' \subseteq Extras  BY <1>2 DEF Use, Certify, TypeOK
  <2>4. TypeOK'  BY <2>1, <2>2, <2>3 DEF TypeOK
  <2>5. RowOwner' /\ RowHolder' /\ NoOrphanedRoots'
    BY <2>1 DEF RowOwner, RowHolder, NoOrphanedRoots
  <2>6. CreatedIsComplete'  BY <2>1, <2>2 DEF CreatedIsComplete
  <2>7. FoundOrGone' /\ WrittenByOthers'
    BY <2>1 DEF FoundOrGone, WrittenByOthers
  <2> QED  BY <2>4, <2>5, <2>6, <2>7
<1> QED  BY <1>1, <1>2

\* The invariant is inductive.
LEMMA InvStep == Inv /\ [Next]_vars => Inv'
<1> SUFFICES ASSUME Inv, [Next]_vars PROVE Inv'
  OBVIOUS
<1>1. CASE UNCHANGED vars
  BY <1>1 DEF vars, stores, others, Inv, TypeOK, RowOwner, RowHolder, CreatedIsComplete,
              NoOrphanedRoots, FoundOrGone, WrittenByOthers, Unmade
<1> QED  BY <1>1, CreateStep, CrashStep, OthersStep DEF Next

\* The invariant holds in every reachable state, crashes included.
THEOREM Invariance == Spec => []Inv
BY InvInit, InvStep, PTL DEF Spec

\* Every variable keeps its type.
THEOREM TypeCorrect == Spec => []TypeOK
<1>1. Inv => TypeOK  BY DEF Inv
<1> QED  BY <1>1, Invariance, PTL

\* At most one request per name is building the agent or has built it.
THEOREM BuilderIsAlone == Spec => []OneBuilder
BY Invariance, InvImpliesOneBuilder, PTL

\* A successful creation is complete and stays so.
THEOREM CreationCompletes == Spec => []CreatedIsComplete
<1>1. Inv => CreatedIsComplete  BY DEF Inv
<1> QED  BY <1>1, Invariance, PTL

\* What is left under a free name was written by other services to an agent
\* that was rolled back.
THEOREM FreeNamesAreClean == Spec => []FreeNameIsClean
<1>1. Inv => FreeNameIsClean
  BY DEF Inv, FreeNameIsClean, NoOrphanedRoots, FoundOrGone, WrittenByOthers, Unmade
<1> QED  BY <1>1, Invariance, PTL

-----------------------------------------------------------------------------
(***************************************************************************)
(* The refinement of AgentName.  The steps of a creation that nobody is    *)
(* told of are stutters: its check of the name, its compensation, and what *)
(* other services find and write, unless that completes an abandoned agent.*)
(***************************************************************************)
\* What a request is answered when it goes on to l.
LEMMA AnswerStep ==
    ASSUME TypeOK, NEW c \in Creators, NEW l, Goto(c, l), pc[c] \notin Finished
    PROVE  /\ Answer[c] = "none"
           /\ l \notin Finished => UNCHANGED Answer
           /\ l \in Finished => Answer' = [Answer EXCEPT ![c] = l]
BY DEF TypeOK, Goto, Answer

\* A graph without root concepts is not a whole agent.
LEMMA NothingIsWhole == roots = {} => ~Whole
<1>1. 1 \in Topics  BY TopicsAssumption DEF Topics
<1>2. \A c \in rows : <<c, 1>> \in RootsOf(c, Topics)  BY <1>1 DEF RootsOf
<1> QED  BY <1>2 DEF Whole

\* The whole agent of the request that holds the name.
LEMMA WholeOfHolder ==
    ASSUME NEW c \in Creators, rows = {c}
    PROVE  Whole <=> roots = RootsOf(c, Topics) /\ keys = RedisKeys
BY DEF Whole

\* An agent is whole or it is not.
LEMMA WholeOrNot == Whole \in BOOLEAN /\ Whole' \in BOOLEAN
BY DEF Whole

\* A free name starts as such.
LEMMA NameInit == Init => Name!Init
BY DEF Init, Name!Init, Answer, Whole, Finished

\* A request that ends in an error gives up; what it leaves of an agent that
\* was not whole is its own.
LEMMA GivesUp ==
    ASSUME TypeOK, NEW c \in Creators, Goto(c, "error"), pc[c] \notin Finished,
           UNCHANGED rows, UNCHANGED Whole \/ (rows = {c} /\ ~Whole)
    PROVE  Name!Next
<1>1. Answer[c] = "none" /\ Answer' = [Answer EXCEPT ![c] = "error"]
  BY AnswerStep DEF Finished
<1>2. Answer' = [d \in Creators |-> IF d \in {c} THEN "error" ELSE Answer[d]]
  BY <1>1 DEF Answer
<1>3. UNCHANGED Whole \/ (rows \cap {c} # {} /\ Whole' = TRUE)
  <2>1. CASE rows = {c} /\ ~Whole
    <3>1. rows \cap {c} # {}  BY <2>1
    <3>2. CASE Whole'  BY <3>1, <3>2, Zenon
    <3>3. CASE ~Whole'  BY <2>1, <3>3, WholeOrNot, Zenon
    <3> QED  BY <3>2, <3>3
  <2> QED  BY <2>1
<1>4. Name!GiveUp({c})  BY <1>1, <1>2, <1>3 DEF Name!GiveUp
<1> QED  BY <1>4 DEF Name!Next

\* A step of one creation.
LEMMA NameCreate ==
    ASSUME Inv, NEW c \in Creators, Create(c)
    PROVE  Name!Next \/ UNCHANGED <<rows, Answer, Whole>>
<1>0. TypeOK /\ (rows = {} => roots = {})  BY DEF Inv, NoOrphanedRoots
<1>1. CASE CheckName(c)
  <2> USE <1>1 DEF CheckName, stores
  <2>1. UNCHANGED Whole  BY DEF Whole
  <2>2. CASE rows = {}
    BY <1>0, <2>1, <2>2, AnswerStep DEF Finished
  <2>3. CASE rows # {}
    <3>1. Goto(c, "refused") /\ pc[c] \notin Finished  BY <2>3 DEF Finished
    <3>2. Answer[c] = "none" /\ Answer' = [Answer EXCEPT ![c] = "refused"]
      BY <1>0, <3>1, AnswerStep DEF Finished
    <3>3. Name!Refuse(c)  BY <2>1, <2>3, <3>2 DEF Name!Refuse, Name!Answered
    <3> QED  BY <3>3 DEF Name!Next
  <2> QED  BY <2>2, <2>3
<1>2. CASE InsertRow(c)
  <2> USE <1>2 DEF InsertRow
  <2>1. Answer[c] = "none" /\ UNCHANGED Answer
    BY <1>0, AnswerStep DEF Finished
  <2>2. ~Whole /\ ~Whole'
    <3>1. roots = {} /\ roots' = {}  BY <1>0
    <3>2. ~Whole  BY <3>1, NothingIsWhole
    <3>3. rows' = {c} /\ <<c, 1>> \in RootsOf(c, Topics)
      BY TopicsAssumption DEF RootsOf, Topics
    <3> QED  BY <3>1, <3>2, <3>3 DEF Whole
  <2>3. UNCHANGED Whole  BY <2>2, WholeOrNot, Zenon
  <2>4. Name!Take(c)  BY <2>1, <2>3 DEF Name!Take
  <2> QED  BY <2>4 DEF Name!Next
<1>3. CASE InsertFails(c) \/ DeleteFails(c)
  <2> USE <1>3 DEF InsertFails, DeleteFails, stores
  <2>1. UNCHANGED Whole  BY DEF Whole
  <2>2. /\ pc[c] \notin Finished /\ Goto(c, "error")
        /\ rows' = rows
    BY DEF Finished
  <2> QED  BY <1>0, <2>1, <2>2, GivesUp
<1>4. CASE Initialize(c)
  <2> USE <1>4 DEF Initialize
  <2>1. rows = {c} /\ roots = {}  BY Owner
  <2>2. Answer[c] = "none" /\ Answer' = [Answer EXCEPT ![c] = "done"]
    BY <1>0, AnswerStep DEF Finished
  <2>3. Whole'  BY <2>1 DEF Whole
  <2>4. Whole' = TRUE  BY <2>3, Zenon
  <2>5. Name!Succeed(c)  BY <2>1, <2>2, <2>4 DEF Name!Succeed, Name!Answered
  <2> QED  BY <2>5 DEF Name!Next
<1>5. CASE Compensate(c)
  <2>1. rows = {c} /\ roots = {}  BY <1>5, Owner DEF Compensate
  <2>2. UNCHANGED rows /\ roots' = {}  BY <1>5, <2>1 DEF Compensate
  <2>3. ~Whole /\ ~Whole'
    <3>1. ~Whole  BY <2>1, NothingIsWhole
    <3>2. <<c, 1>> \in RootsOf(c, Topics)  BY TopicsAssumption DEF RootsOf, Topics
    <3> QED  BY <2>1, <2>2, <3>1, <3>2 DEF Whole
  <2>4. UNCHANGED Whole  BY <2>3, WholeOrNot, Zenon
  <2>5. UNCHANGED Answer  BY <1>0, <1>5, AnswerStep DEF Compensate, Finished
  <2> QED  BY <2>2, <2>4, <2>5
<1>6. CASE CompensationFails(c)
  <2>1. /\ rows = {c} /\ roots = {} /\ UNCHANGED rows
        /\ pc[c] \notin Finished /\ Goto(c, "error")
    BY <1>6, Owner DEF CompensationFails, Finished
  <2> QED  BY <1>0, <2>1, GivesUp, NothingIsWhole
<1>7. CASE DeleteRow(c)
  <2> USE <1>7 DEF DeleteRow
  <2>1. rows = {c} /\ roots = {}  BY Owner
  <2>2. ~Whole /\ ~Whole'
    <3>1. ~Whole  BY <2>1, NothingIsWhole
    <3>2. rows' = {}  BY <2>1
    <3> QED  BY <3>1, <3>2 DEF Whole
  <2>3. UNCHANGED Whole  BY <2>2, WholeOrNot, Zenon
  <2>4. Answer[c] = "none" /\ Answer' = [Answer EXCEPT ![c] = "rolled_back"]
    BY <1>0, AnswerStep DEF Finished
  <2>5. Name!GiveBack(c)
    BY <2>1, <2>2, <2>3, <2>4 DEF Name!GiveBack, Name!Answered
  <2> QED  BY <2>5 DEF Name!Next
<1> QED  BY <1>1, <1>2, <1>3, <1>4, <1>5, <1>6, <1>7 DEF Create

\* A crash is every pending request giving up.
LEMMA NameCrash ==
    ASSUME Inv, Crash \/ \E c \in Creators : CrashDuringInitialize(c)
    PROVE  Name!Next
<1> DEFINE S == {c \in Creators : pc[c] \in Pending}
<1>1. pc' = [c \in Creators |-> IF pc[c] \in Pending THEN "error" ELSE pc[c]]
  BY DEF Crash, CrashDuringInitialize, AllDie
<1>2. /\ \A c \in S : Answer[c] = "none"
      /\ Answer' = [c \in Creators |-> IF c \in S THEN "error" ELSE Answer[c]]
  BY <1>1 DEF Answer, Pending, Finished
<1>3. UNCHANGED rows  BY DEF Crash, CrashDuringInitialize, stores
<1>4. UNCHANGED Whole \/ (rows \cap S # {} /\ Whole' = TRUE)
  <2>1. CASE Crash  BY <2>1 DEF Crash, stores, Whole
  <2>2. ASSUME NEW c \in Creators, CrashDuringInitialize(c)
        PROVE  rows \cap S # {} /\ ~Whole
    <3>1. pc[c] = "initialize"  BY <2>2 DEF CrashDuringInitialize
    <3>2. rows = {c} /\ roots = {}  BY <3>1, Owner
    <3> QED  BY <3>1, <3>2, NothingIsWhole DEF Pending
  <2>3. CASE \E c \in Creators : CrashDuringInitialize(c)
    <3>1. rows \cap S # {} /\ ~Whole  BY <2>2, <2>3
    <3>2. CASE Whole'  BY <3>1, <3>2, Zenon
    <3>3. CASE ~Whole'  BY <3>1, <3>3, WholeOrNot, Zenon
    <3> QED  BY <3>2, <3>3
  <2> QED  BY <2>1, <2>3
<1> HIDE DEF S
<1>5. Name!GiveUp(S)  BY <1>2, <1>3, <1>4 DEF Name!GiveUp
<1>6. S \in SUBSET Creators  BY DEF S
<1> QED  BY <1>5, <1>6 DEF Name!Next

\* Other services find what is there and can only add to it.
LEMMA NameOthers ==
    ASSUME Inv, NEW c \in Creators, LookUp(c) \/ Use(c) \/ Certify(c)
    PROVE  Name!Next \/ UNCHANGED <<rows, Answer, Whole>>
<1>1. UNCHANGED <<rows, roots, pc>> /\ keys \subseteq keys' /\ keys' \subseteq RedisKeys
  <2>1. keys' = keys \/ keys' = keys \cup {3} \/ keys' = keys \cup {1, 2}
    <3>1. CASE LookUp(c)  BY <3>1 DEF LookUp, stores
    <3>2. CASE Certify(c)  BY <3>2 DEF Certify
    <3>3. CASE Use(c)
      <4>1. PICK K \in SUBSET {3} : keys' = keys \cup K  BY <3>3 DEF Use
      <4>2. K = {} \/ K = {3}  BY <4>1
      <4> QED  BY <4>1, <4>2
    <3> QED  BY <3>1, <3>2, <3>3
  <2>2. keys \subseteq RedisKeys  BY DEF Inv, TypeOK
  <2>3. {3} \subseteq RedisKeys /\ {1, 2} \subseteq RedisKeys  BY DEF RedisKeys
  <2>4. UNCHANGED <<rows, roots, pc>>  BY DEF LookUp, Use, Certify, stores
  <2> QED  BY <2>1, <2>2, <2>3, <2>4
<1>2. UNCHANGED Answer  BY <1>1 DEF Answer
<1>3. CASE Whole
  <2>1. Whole'  BY <1>1, <1>3 DEF Whole
  <2>2. UNCHANGED Whole  BY <1>3, <2>1, WholeOrNot, Zenon
  <2> QED  BY <1>1, <1>2, <2>2
<1>4. CASE ~Whole /\ ~Whole'
  <2>1. UNCHANGED Whole  BY <1>4, WholeOrNot, Zenon
  <2> QED  BY <1>1, <1>2, <2>1
<1>5. CASE ~Whole /\ Whole'
  <2>1. PICK d \in rows : roots = RootsOf(d, Topics)  BY <1>1, <1>5 DEF Whole
  <2>2. /\ d \in Creators /\ rows = {d}
        /\ pc[d] \in {"initialize", "delete", "done", "error"}
    BY <2>1 DEF Inv, TypeOK, RowHolder
  <2>3. pc[d] \notin {"initialize", "delete"}
    <3>1. <<d, 1>> \in RootsOf(d, Topics)  BY TopicsAssumption DEF RootsOf, Topics
    <3> QED  BY <2>1, <2>2, <3>1, Owner
  <2>4. pc[d] # "done"
    BY <1>5, <2>2, WholeOfHolder DEF Inv, CreatedIsComplete
  <2>5. Answer[d] = "error"  BY <2>2, <2>3, <2>4 DEF Answer, Finished
  <2>6. Whole' = TRUE  BY <1>5, Zenon
  <2>7. Name!Complete(d)  BY <1>1, <1>2, <2>2, <2>5, <2>6 DEF Name!Complete
  <2> QED  BY <2>2, <2>7 DEF Name!Next
<1> QED  BY <1>3, <1>4, <1>5

\* The registry implements the promises about a name.
THEOREM Refinement == Spec => ImplementsAgentName
<1>1. Inv /\ [Next]_vars => [Name!Next]_<<rows, Answer, Whole>>
  <2>1. CASE UNCHANGED vars
    BY <2>1 DEF vars, stores, Answer, Whole
  <2> QED  BY <2>1, NameCreate, NameCrash, NameOthers DEF Next
<1> QED  BY <1>1, NameInit, Invariance, PTL DEF Spec, ImplementsAgentName, Name!Spec
=============================================================================
