------------------------ MODULE ProposalReviewProofs ------------------------
(***************************************************************************)
(* Proofs about ProposalReview, for every set of requests and experts.     *)
(*                                                                         *)
(* The concurrent part rests on Inv: versions are exactly 1..n, and what a *)
(* request remembers from an earlier statement is still usable when it     *)
(* issues the next one.  The serial part adds SerialInv: at most one       *)
(* request is in flight, so what it remembers is still the newest version. *)
(***************************************************************************)
EXTENDS ProposalReview, TLAPS

\* The versions are 1..n for some n.
VersionsFromOne == \E n \in {0} \cup DOMAIN rows : DOMAIN rows = 1 .. n

\* What a request in flight read or computed before.
Remembered ==
    \A r \in Requests :
        /\ pc[r] = "idle" => op[r] = "propose"
        /\ pc[r] \in Reviews => op[r] = pc[r] /\ latest[r] \in DOMAIN rows
        /\ pc[r] \in {"generate", "insert"} => op[r] \in {"propose", "reject"}
        /\ pc[r] = "insert" =>
              \/ next_version[r] = 1
              \/ next_version[r] - 1 \in DOMAIN rows

\* A request refers to a version that exists, or, as long as it is idle, to
\* none.
LatestKnown ==
    \A r \in Requests : /\ latest[r] = 0 \/ latest[r] \in DOMAIN rows
                        /\ pc[r] = "idle" => latest[r] = 0

\* A version made by an edit was approved from the start: nobody reviews it.
EditedNeverReviewed ==
    \A r, q \in Requests :
        op[r] = "edit" /\ pc[r] = "done" => latest[q] # latest[r] + 1

Inv == /\ TypeOK
       /\ VersionsFromOne
       /\ Remembered
       /\ LatestKnown
       /\ EditedNeverReviewed
       /\ EditedVersionStands
       /\ SignatureIsTheApprovers
       /\ NoSilentDeadEnd

\* Reviews one at a time: whoever is in flight is alone.
OneInFlight == \A r, s \in Requests :
                  pc[r] \in Pending /\ pc[s] \in Pending => r = s

\* And so what a review read still holds when its statement runs.
StillNewest == \A r \in Requests : pc[r] \in Reviews => ~Overtaken(r)

SerialInv == Inv /\ OneInFlight /\ StillNewest

-----------------------------------------------------------------------------
(***************************************************************************)
(* Lemmas about the operators.                                             *)
(***************************************************************************)
\* SELECT MAX(version) is n on a table of the versions 1..n.
LEMMA MaxOfPrefix ==
    ASSUME NEW n \in Nat, DOMAIN rows = 1 .. n
    PROVE  MaxVersion = n
<1>1. CASE n = 0
  <2>1. DOMAIN rows = {}  BY <1>1
  <2> QED  BY <1>1, <2>1 DEF MaxVersion
<1>2. CASE n # 0
  <2>1. n \in DOMAIN rows /\ \A u \in DOMAIN rows : u <= n  BY <1>2
  <2>2. \A v \in DOMAIN rows : (\A u \in DOMAIN rows : u <= v) => v = n
    BY <2>1
  <2>3. DOMAIN rows # {}  BY <2>1
  <2> QED  BY <2>1, <2>2, <2>3 DEF MaxVersion
<1> QED  BY <1>1, <1>2

\* The rows the service inserts are rows of the table.
LEMMA NewRowsTyped == ProposedRow \in Row /\ \A e \in Signatures : EditedRow(e) \in Row
BY DEF ProposedRow, EditedRow, Row, Statuses, Signatures

-----------------------------------------------------------------------------
(***************************************************************************)
(* The invariant of the concurrent specification.                          *)
(***************************************************************************)
\* The empty table satisfies the invariant.
LEMMA InvInit == Init => Inv
<1> SUFFICES ASSUME Init PROVE Inv
  OBVIOUS
<1>1. DOMAIN rows = {}  BY DEF Init
<1>2. TypeOK
  BY <1>1 DEF Init, TypeOK, Ops, Reviews, Pending, Finished, Signatures
<1>3. VersionsFromOne  BY <1>1 DEF VersionsFromOne
<1>4. Remembered /\ LatestKnown  BY <1>1 DEF Init, Remembered, LatestKnown, Reviews
<1>5. EditedNeverReviewed /\ EditedVersionStands
  BY <1>1 DEF Init, EditedNeverReviewed, EditedVersionStands
<1> QED  BY <1>1, <1>2, <1>3, <1>4, <1>5
         DEF Inv, SignatureIsTheApprovers, NoSilentDeadEnd

\* A step of one request that leaves the table, and what was done to it, alone.
Quietly(r) ==
    /\ UNCHANGED rows
    /\ pc[r] # "done" /\ pc'[r] \notin {"done", "idle"}
    /\ \/ pc[r] = "idle"
       \/ UNCHANGED <<op, expert_id, reason, latest>> /\ pc'[r] # "reject"
    /\ \A q \in Requests : q # r =>
          /\ pc'[q] = pc[q] /\ op'[q] = op[q] /\ latest'[q] = latest[q]
          /\ expert_id'[q] = expert_id[q] /\ reason'[q] = reason[q]

\* It keeps every property of the table except NoSilentDeadEnd, which also
\* looks at the requests in flight.
LEMMA TableUnchanged ==
    ASSUME Inv, NEW r \in Requests, Quietly(r)
    PROVE  VersionsFromOne' /\ EditedVersionStands' /\ SignatureIsTheApprovers'
<1> USE DEF Inv, Quietly
<1>1. VersionsFromOne'  BY DEF VersionsFromOne
<1>2. SignatureIsTheApprovers'
  <2>1. \A v \in DOMAIN rows, q \in Requests : Approves(q, v)' <=> Approves(q, v)
    BY DEF Approves
  <2>2. UNCHANGED rows  OBVIOUS
  <2>3. ASSUME NEW v \in DOMAIN rows,
               \/ rows[v].status = "approved" \/ rows[v].expert_signature # NoExpert
               \/ \E q \in Requests : Approves(q, v)'
        PROVE  \E q \in Requests :
                  Approves(q, v)' /\ expert_id'[q] = rows[v].expert_signature
    <3>1. PICK q \in Requests :
             Approves(q, v) /\ expert_id[q] = rows[v].expert_signature
      BY <2>1, <2>3 DEF SignatureIsTheApprovers
    <3>2. q # r  BY <3>1 DEF Approves
    <3> QED  BY <2>1, <3>1, <3>2
  <2> QED  BY <2>2, <2>3 DEF SignatureIsTheApprovers
<1>3. ASSUME NEW v \in DOMAIN rows, NEW q \in Requests, ArchivesSilently(q, v)
      PROVE  ArchivesSilently(q, v)'
  <2>1. CASE q # r
    BY <1>3, <2>1 DEF ArchivesSilently
  <2>2. CASE q = r
    <3>1. pc[r] # "idle"
      BY <1>3, <2>2 DEF ArchivesSilently, LatestKnown, TypeOK
    <3> QED  BY <1>3, <2>2, <3>1 DEF ArchivesSilently
  <2> QED  BY <2>1, <2>2
<1>4. EditedVersionStands'
  BY <1>3 DEF EditedVersionStands
<1> QED  BY <1>1, <1>2, <1>4

\* A review that is admitted or refused.
LEMMA ArriveStep ==
    ASSUME Inv, NEW r \in Requests, Arrive(r)
    PROVE  Inv'
<1> USE DEF Inv
<1>0. PICK n \in Nat : DOMAIN rows = 1 .. n
  BY DEF VersionsFromOne, TypeOK
<1>1. MaxVersion = n  BY <1>0, MaxOfPrefix
<1>2. ASSUME NEW a \in Reviews, NEW e \in Signatures, NEW why \in BOOLEAN,
             Admit(r, a, e, why)
      PROVE  Inv'
  <2> USE <1>2 DEF Admit, Goto
  <2>1. TypeOK'  BY <1>1 DEF TypeOK, Reviews, Ops, Pending
  <2>2. Remembered' /\ LatestKnown'
    BY <1>0, <1>1 DEF Remembered, LatestKnown, TypeOK, Reviews, Reviewable
  <2>3. NoSilentDeadEnd'  BY DEF NoSilentDeadEnd, TypeOK, Reviews
  <2>4. Quietly(r)  BY DEF Quietly, TypeOK, Reviews
  <2>5. EditedNeverReviewed'
    <3>1. ASSUME NEW s \in Requests, op[s] = "edit", pc[s] = "done"
          PROVE  n # latest[s] + 1
      <4>1. rows[n].status # "approved"  BY <1>1 DEF Reviewable, Mutable
      <4>2. rows[latest[s] + 1].status = "approved"
        <5>1. rows[latest[s] + 1] = EditedRow(expert_id[s])
          BY <3>1 DEF EditedVersionStands
        <5> QED  BY <5>1 DEF EditedRow
      <4> QED  BY <4>1, <4>2
    <3> QED  BY <1>1, <2>4, <3>1 DEF EditedNeverReviewed, Quietly, TypeOK
  <2> QED  BY <2>1, <2>2, <2>3, <2>4, <2>5, TableUnchanged
<1>3. CASE Refuse(r) \/ StartProposal(r)
  <2>1. /\ \E l \in {"refused", "generate"} : pc' = [pc EXCEPT ![r] = l]
        /\ UNCHANGED <<rows, locals>> /\ pc[r] = "idle"
    BY <1>3 DEF Refuse, StartProposal, Goto
  <2>2. TypeOK'  BY <2>1 DEF TypeOK, Finished, Pending, locals
  <2>3. Remembered' /\ LatestKnown'
    BY <2>1 DEF Remembered, LatestKnown, TypeOK, Reviews, locals
  <2>4. NoSilentDeadEnd'  BY <2>1 DEF NoSilentDeadEnd, TypeOK, locals
  <2>5. Quietly(r)  BY <2>1 DEF Quietly, TypeOK, locals
  <2>6. EditedNeverReviewed'
    BY <2>1 DEF EditedNeverReviewed, TypeOK, locals
  <2> QED  BY <2>2, <2>3, <2>4, <2>5, <2>6, TableUnchanged
<1> QED  BY <1>2, <1>3 DEF Arrive, Reviews, Signatures

\* An UPDATE of one existing row keeps the set of versions.
LEMMA UpdateKeepsVersions ==
    ASSUME Inv, DOMAIN rows' = DOMAIN rows
    PROVE  VersionsFromOne'
BY DEF Inv, VersionsFromOne

\* The UPDATEs of approve_proposal and reject_proposal leave the versions that
\* edits made alone.
LEMMA UpdateKeepsEdited ==
    ASSUME Inv, NEW r \in Requests, ApproveProposal(r) \/ RejectProposal(r)
    PROVE  /\ \A s \in Requests : op[s] = "edit" /\ pc'[s] = "done" =>
                 /\ pc[s] = "done" /\ latest[s] + 1 \in DOMAIN rows'
                 /\ rows'[latest[s] + 1] = EditedRow(expert_id[s])
           /\ EditedNeverReviewed'
<1> USE DEF Inv
<1>1. /\ latest[r] \in DOMAIN rows /\ op[r] # "edit"
      /\ DOMAIN rows' = DOMAIN rows
      /\ \A v \in DOMAIN rows : v # latest[r] => rows'[v] = rows[v]
      /\ \A s \in Requests : s # r => pc'[s] = pc[s]
      /\ UNCHANGED locals
  BY DEF Remembered, Reviews, ApproveProposal, RejectProposal, Goto, TypeOK
<1>2. ASSUME NEW s \in Requests, op[s] = "edit", pc'[s] = "done"
      PROVE  /\ pc[s] = "done" /\ latest[s] + 1 \in DOMAIN rows'
             /\ rows'[latest[s] + 1] = EditedRow(expert_id[s])
  <2>1. pc[s] = "done"  BY <1>1, <1>2
  <2>2. latest[r] # latest[s] + 1
    BY <1>2, <2>1 DEF EditedNeverReviewed
  <2> QED  BY <1>1, <1>2, <2>1, <2>2 DEF EditedVersionStands
<1>3. EditedNeverReviewed'
  BY <1>1, <1>2 DEF EditedNeverReviewed, locals
<1> QED  BY <1>2, <1>3

\* approve_proposal's UPDATE.
LEMMA ApproveStep ==
    ASSUME Inv, NEW r \in Requests, ApproveProposal(r)
    PROVE  Inv'
<1> USE DEF Inv, ApproveProposal, Goto, locals
<1>1. /\ latest[r] \in DOMAIN rows /\ op[r] = "approve" /\ pc[r] = "approve"
      /\ DOMAIN rows' = DOMAIN rows
      /\ rows'[latest[r]].status = "approved"
      /\ rows'[latest[r]].expert_signature = expert_id[r]
      /\ \A v \in DOMAIN rows : v # latest[r] => rows'[v] = rows[v]
  BY DEF Remembered, Reviews, TypeOK, Row
<1>2. TypeOK'
  BY <1>1 DEF TypeOK, Row, Statuses, Finished
<1>3. Remembered' /\ LatestKnown'
  BY <1>1 DEF Remembered, LatestKnown, TypeOK, Reviews
<1>4. EditedVersionStands'
  <2>1. \A v \in DOMAIN rows, q \in Requests :
           ArchivesSilently(q, v) => ArchivesSilently(q, v)'
    BY <1>1 DEF ArchivesSilently, TypeOK
  <2>2. \A v \in DOMAIN rows :
           rows'[v].status = "archived" /\ ~rows'[v].rejection_reason =>
               \E q \in Requests : ArchivesSilently(q, v)'
    BY <1>1, <2>1 DEF EditedVersionStands
  <2> QED  BY <1>1, <2>2, UpdateKeepsEdited DEF EditedVersionStands
<1>5. SignatureIsTheApprovers'
  <2>1. \A v \in DOMAIN rows, q \in Requests :
           q # r => (Approves(q, v) <=> Approves(q, v)')
    BY <1>1 DEF Approves, TypeOK
  <2>3. \A v \in DOMAIN rows : ~Approves(r, v) /\ (Approves(r, v)' => v = latest[r])
    BY <1>1 DEF Approves, TypeOK
  <2>2. Approves(r, latest[r])'
    BY <1>1 DEF Approves, TypeOK
  <2> QED  BY <1>1, <2>1, <2>2, <2>3 DEF SignatureIsTheApprovers
<1>6. NoSilentDeadEnd'
  BY <1>1 DEF NoSilentDeadEnd, TypeOK
<1> QED  BY <1>1, <1>2, <1>3, <1>4, <1>5, <1>6, UpdateKeepsVersions, UpdateKeepsEdited

\* edit_proposal's transaction.
LEMMA EditStep ==
    ASSUME Inv, NEW r \in Requests, EditProposal(r)
    PROVE  Inv'
<1> USE DEF Inv
<1> DEFINE v == latest[r]
           archived == [rows EXCEPT ![v].status = "archived"]
           x == EditedRow(expert_id[r])
<1>0. PICK n \in Nat : DOMAIN rows = 1 .. n
  BY DEF VersionsFromOne, TypeOK
<1>1. /\ v \in DOMAIN rows /\ op[r] = "edit" /\ pc[r] = "edit"
      /\ v + 1 \notin DOMAIN rows
      /\ rows' = Insert(archived, v + 1, x)
      /\ pc' = [pc EXCEPT ![r] = "done"]
      /\ UNCHANGED <<op, expert_id, reason, latest, next_version>>
  BY DEF EditProposal, Remembered, Reviews, Goto, locals
<1>2. v = n /\ v \in Nat \ {0}  BY <1>0, <1>1
<1>3. DOMAIN archived = DOMAIN rows /\ archived \in [DOMAIN archived -> Row]
  BY <1>1 DEF TypeOK, Row, Statuses
<1>4. /\ x \in Row /\ x.status = "approved" /\ x.expert_signature = expert_id[r]
  BY NewRowsTyped DEF EditedRow, TypeOK
<1>5. /\ DOMAIN rows' = DOMAIN rows \cup {v + 1}
      /\ rows' \in [DOMAIN rows' -> Row]
      /\ rows'[v + 1] = x
      /\ \A u \in DOMAIN rows : u # v + 1 => rows'[u] = archived[u]
  <2>1. rows' = [u \in DOMAIN rows \cup {v + 1} |->
                   IF u = v + 1 THEN x ELSE archived[u]]
    BY <1>1, <1>3 DEF Insert
  <2>2. \A u \in DOMAIN rows : archived[u] \in Row  BY <1>3
  <2> HIDE DEF v, archived, x
  <2> QED  BY <2>1, <2>2, <1>1, <1>4
<1>6. /\ rows'[v].status = "archived"
      /\ rows'[v].expert_signature = rows[v].expert_signature
      /\ \A u \in DOMAIN rows : u # v => rows'[u] = rows[u]
  <2>1. /\ archived[v].status = "archived"
        /\ archived[v].expert_signature = rows[v].expert_signature
        /\ \A u \in DOMAIN rows : u # v => archived[u] = rows[u]
    BY <1>1 DEF TypeOK, Row
  <2> HIDE DEF v, archived, x
  <2> QED  BY <2>1, <1>1, <1>2, <1>5
<1>q. \A q \in Requests : /\ q # r => pc'[q] = pc[q]
                          /\ latest[q] # v + 1
  BY <1>0, <1>1, <1>2 DEF LatestKnown, TypeOK
<1>s. \A q \in Requests : op[q] = "edit" /\ pc[q] = "done" =>
         latest[q] + 1 \in DOMAIN rows /\ latest[q] # v /\ latest[q] + 1 # v
  BY <1>1 DEF EditedVersionStands, EditedNeverReviewed
<1>w. latest[r] = v /\ v' = v /\ x = EditedRow(expert_id[r])  BY <1>1
<1> HIDE DEF v, archived, x
<1>7. TypeOK'  BY <1>1, <1>2, <1>5 DEF TypeOK, Finished
<1>8. DOMAIN rows' = 1 .. n + 1  BY <1>0, <1>2, <1>5
<1>9. VersionsFromOne'  BY <1>0, <1>8 DEF VersionsFromOne
<1>10. Remembered' /\ LatestKnown'
  BY <1>1, <1>5, <1>w DEF Remembered, LatestKnown, TypeOK, Reviews
<1>11. EditedNeverReviewed'
  <2>1. \A s \in Requests : pc'[s] = "done" /\ s # r => pc[s] = "done"
    BY <1>q
  <2> QED  BY <1>1, <1>q, <1>w, <2>1 DEF EditedNeverReviewed
<1>12. EditedVersionStands'
  <2>1. ArchivesSilently(r, v)'
    BY <1>1, <1>w DEF ArchivesSilently, TypeOK
  <2>2. \A u \in DOMAIN rows, q \in Requests :
           ArchivesSilently(q, u) => ArchivesSilently(q, u)'
    BY <1>1, <1>q DEF ArchivesSilently, TypeOK
  <2>3. ASSUME NEW u \in DOMAIN rows', rows'[u].status = "archived",
               ~rows'[u].rejection_reason
        PROVE  \E q \in Requests : ArchivesSilently(q, u)'
    <3>1. CASE u = v  BY <2>1, <3>1, <1>w DEF ArchivesSilently
    <3>2. CASE u # v
      <4>1. u \in DOMAIN rows /\ rows'[u] = rows[u]
        BY <3>2, <2>3, <1>4, <1>5, <1>6
      <4> QED  BY <4>1, <2>2, <2>3 DEF EditedVersionStands
    <3> QED  BY <3>1, <3>2
  <2>4. ASSUME NEW q \in Requests, op[q] = "edit", pc'[q] = "done"
        PROVE  /\ latest[q] + 1 \in DOMAIN rows'
               /\ rows'[latest[q] + 1] = EditedRow(expert_id[q])
    <3>1. CASE q = r  BY <3>1, <1>5, <1>w
    <3>2. CASE q # r
      <4>1. pc[q] = "done"  BY <2>4, <3>2, <1>q
      <4>2. latest[q] + 1 \in DOMAIN rows /\ latest[q] + 1 # v
        BY <2>4, <4>1, <1>s
      <4> QED  BY <2>4, <4>1, <4>2, <1>5, <1>6 DEF EditedVersionStands
    <3> QED  BY <3>1, <3>2
  <2> QED  BY <1>1, <2>3, <2>4 DEF EditedVersionStands
<1>13. SignatureIsTheApprovers'
  <2>1. Approves(r, v + 1)'
    BY <1>1, <1>w DEF Approves, TypeOK
  <2>2. \A u \in DOMAIN rows, q \in Requests : Approves(q, u) => Approves(q, u)'
    BY <1>1, <1>q DEF Approves
  <2>4. \A u \in DOMAIN rows, q \in Requests :
           Approves(q, u)' => Approves(q, u) \/ u = v + 1
    BY <1>1, <1>q, <1>w DEF Approves
  <2>3. ASSUME NEW u \in DOMAIN rows',
               \/ rows'[u].status = "approved" \/ rows'[u].expert_signature # NoExpert
               \/ \E q \in Requests : Approves(q, u)'
        PROVE  \E q \in Requests :
                  Approves(q, u)' /\ expert_id[q] = rows'[u].expert_signature
    <3>1. CASE u = v + 1
      <4>1. Approves(r, u)'  BY <3>1, <2>1, <1>w DEF Approves
      <4> QED  BY <3>1, <4>1, <1>4, <1>5
    <3>2. CASE u # v + 1
      <4>1. /\ u \in DOMAIN rows
            /\ rows'[u].expert_signature = rows[u].expert_signature
            /\ rows'[u].status = "approved" => rows[u].status = "approved"
        BY <3>2, <1>5, <1>6
      <4>2. PICK q \in Requests : Approves(q, u) /\ expert_id[q] = rows[u].expert_signature
        BY <3>2, <4>1, <2>3, <2>4 DEF SignatureIsTheApprovers
      <4> QED  BY <4>1, <4>2, <2>2
    <3> QED  BY <3>1, <3>2
  <2> QED  BY <1>1, <2>3 DEF SignatureIsTheApprovers
<1>14. NoSilentDeadEnd'
  BY <1>0, <1>2, <1>4, <1>5, <1>8 DEF NoSilentDeadEnd
<1> QED  BY <1>7, <1>9, <1>10, <1>11, <1>12, <1>13, <1>14

\* reject_proposal's UPDATE.
LEMMA RejectStep ==
    ASSUME Inv, NEW r \in Requests, RejectProposal(r)
    PROVE  Inv'
<1> USE DEF Inv, RejectProposal, Goto, locals
<1>1. /\ latest[r] \in DOMAIN rows /\ op[r] = "reject" /\ pc[r] = "reject"
      /\ DOMAIN rows' = DOMAIN rows
      /\ rows'[latest[r]].status = "archived"
      /\ rows'[latest[r]].rejection_reason = reason[r]
      /\ rows'[latest[r]].expert_signature = rows[latest[r]].expert_signature
      /\ \A v \in DOMAIN rows : v # latest[r] => rows'[v] = rows[v]
  BY DEF Remembered, Reviews, TypeOK, Row
<1>2. TypeOK'
  BY <1>1 DEF TypeOK, Row, Statuses, Pending
<1>3. Remembered' /\ LatestKnown'
  BY <1>1 DEF Remembered, LatestKnown, TypeOK, Reviews
<1>4. EditedVersionStands'
  <2>1. \A v \in DOMAIN rows, q \in Requests :
           ArchivesSilently(q, v) => ArchivesSilently(q, v)'
    BY <1>1 DEF ArchivesSilently, TypeOK
  <2>2. ~reason[r] => ArchivesSilently(r, latest[r])'
    BY <1>1 DEF ArchivesSilently, TypeOK
  <2>3. \A v \in DOMAIN rows :
           rows'[v].status = "archived" /\ ~rows'[v].rejection_reason =>
               \E q \in Requests : ArchivesSilently(q, v)'
    BY <1>1, <2>1, <2>2 DEF EditedVersionStands
  <2> QED  BY <1>1, <2>3, UpdateKeepsEdited DEF EditedVersionStands
<1>5. SignatureIsTheApprovers'
  <2>1. \A v \in DOMAIN rows, q \in Requests : Approves(q, v) <=> Approves(q, v)'
    BY <1>1 DEF Approves, TypeOK
  <2> QED  BY <1>1, <2>1 DEF SignatureIsTheApprovers
<1>6. NoSilentDeadEnd'
  BY <1>1 DEF NoSilentDeadEnd, TypeOK
<1> QED  BY <1>1, <1>2, <1>3, <1>4, <1>5, <1>6, UpdateKeepsVersions, UpdateKeepsEdited

\* The INSERT of _persist_proposal.
LEMMA InsertStep ==
    ASSUME Inv, NEW r \in Requests, InsertProposal(r)
    PROVE  Inv'
<1> USE DEF Inv
<1> DEFINE m == next_version[r]
<1>0. PICK n \in Nat : DOMAIN rows = 1 .. n
  BY DEF VersionsFromOne, TypeOK
<1>1. /\ m \notin DOMAIN rows
      /\ rows' = Insert(rows, m, ProposedRow)
      /\ pc[r] = "insert" /\ pc' = [pc EXCEPT ![r] = "done"]
      /\ UNCHANGED <<op, expert_id, reason, latest, next_version>>
  BY DEF InsertProposal, Goto, locals
<1>2. m = n + 1
  <2>1. m \in Nat /\ (m = 1 \/ m - 1 \in 1 .. n) /\ m \notin 1 .. n
    BY <1>0, <1>1 DEF Remembered, TypeOK
  <2> HIDE DEF m
  <2> QED  BY <2>1
<1>3. /\ DOMAIN rows' = DOMAIN rows \cup {m}
      /\ rows' \in [DOMAIN rows' -> Row]
      /\ rows'[m] = ProposedRow
      /\ \A u \in DOMAIN rows : rows'[u] = rows[u]
  BY <1>1, NewRowsTyped DEF Insert, TypeOK
<1>w. m \in Nat \ {0}  BY <1>2
<1>o. op[r] # "edit" /\ op[r] # "approve"
  BY <1>1 DEF Remembered
<1>q. \A q \in Requests : q # r => pc'[q] = pc[q]
  BY <1>1 DEF TypeOK
<1> HIDE DEF m
<1>4. DOMAIN rows' = 1 .. n + 1  BY <1>0, <1>2, <1>3
<1>5. TypeOK'  BY <1>1, <1>3, <1>4 DEF TypeOK, Finished
<1>6. VersionsFromOne'  BY <1>0, <1>4 DEF VersionsFromOne
<1>7. Remembered' /\ LatestKnown'
  BY <1>1, <1>3 DEF Remembered, LatestKnown, TypeOK, Reviews
<1>p. ProposedRow.status = "proposed" /\ ProposedRow.expert_signature = NoExpert
  BY DEF ProposedRow
<1>8. EditedNeverReviewed'
  BY <1>1, <1>o, <1>q DEF EditedNeverReviewed
<1>9. EditedVersionStands'
  <2>1. \A v \in DOMAIN rows, q \in Requests :
           ArchivesSilently(q, v) => ArchivesSilently(q, v)'
    BY <1>1, <1>o, <1>q DEF ArchivesSilently, TypeOK
  <2>2. \A v \in DOMAIN rows' :
           rows'[v].status = "archived" /\ ~rows'[v].rejection_reason =>
               \E q \in Requests : ArchivesSilently(q, v)'
    BY <1>p, <1>3, <2>1 DEF EditedVersionStands
  <2>3. \A q \in Requests : op[q] = "edit" /\ pc'[q] = "done" =>
               /\ latest[q] + 1 \in DOMAIN rows'
               /\ rows'[latest[q] + 1] = EditedRow(expert_id[q])
    BY <1>o, <1>q, <1>3 DEF EditedVersionStands
  <2> QED  BY <1>1, <2>2, <2>3 DEF EditedVersionStands
<1>10. SignatureIsTheApprovers'
  <2>1. \A v \in DOMAIN rows, q \in Requests : Approves(q, v) <=> Approves(q, v)'
    BY <1>1, <1>o, <1>q DEF Approves
  <2>2. ASSUME NEW u, u = m, NEW q \in Requests
        PROVE  ~Approves(q, u)'
    <3>1. ~Approves(q, u)
      BY <2>2, <1>1, <1>w DEF Approves, LatestKnown, EditedVersionStands
    <3> QED  BY <2>2, <3>1, <1>1, <1>o, <1>q DEF Approves
  <2>3. ASSUME NEW u \in DOMAIN rows',
               \/ rows'[u].status = "approved" \/ rows'[u].expert_signature # NoExpert
               \/ \E q \in Requests : Approves(q, u)'
        PROVE  \E q \in Requests :
                  Approves(q, u)' /\ expert_id[q] = rows'[u].expert_signature
    <3>1. u \in DOMAIN rows /\ rows'[u] = rows[u]
      BY <2>2, <2>3, <1>p, <1>3
    <3> QED  BY <3>1, <2>1, <2>3 DEF SignatureIsTheApprovers
  <2> QED  BY <1>1, <2>3 DEF SignatureIsTheApprovers
<1>11. NoSilentDeadEnd'
  BY <1>p, <1>0, <1>2, <1>3, <1>4 DEF NoSilentDeadEnd
<1> QED  BY <1>5, <1>6, <1>7, <1>8, <1>9, <1>10, <1>11

\* Steps of a request in flight that do not write to the table.
LEMMA QuietStep ==
    ASSUME Inv, NEW r \in Requests,
           \/ EditConflicts(r) \/ GenerateProposal(r) \/ GenerationFails(r)
           \/ InsertConflicts(r) \/ StatementFails(r)
    PROVE  Inv'
<1> USE DEF Inv, Goto, locals
<1>1. CASE GenerateProposal(r)
  <2> USE <1>1 DEF GenerateProposal
  <2>0. PICK n \in Nat : DOMAIN rows = 1 .. n
    BY DEF VersionsFromOne, TypeOK
  <2>1. MaxVersion = n  BY <2>0, MaxOfPrefix
  <2>2. TypeOK'  BY <2>1 DEF TypeOK, Pending
  <2>3. Remembered' /\ LatestKnown'
    BY <2>0, <2>1 DEF Remembered, LatestKnown, TypeOK, Reviews
  <2>4. NoSilentDeadEnd'  BY DEF NoSilentDeadEnd, TypeOK
  <2>5. Quietly(r)  BY DEF Quietly, TypeOK
  <2>6. EditedNeverReviewed'  BY DEF EditedNeverReviewed, TypeOK
  <2> QED  BY <2>2, <2>3, <2>4, <2>5, <2>6, TableUnchanged
<1>2. CASE \/ EditConflicts(r) \/ GenerationFails(r)
           \/ InsertConflicts(r) \/ StatementFails(r)
  <2>1. /\ pc' = [pc EXCEPT ![r] = "error"] /\ UNCHANGED <<rows, locals>>
        /\ pc[r] \notin {"done", "idle"}
    BY <1>2 DEF EditConflicts, GenerationFails, InsertConflicts, StatementFails
  <2>2. TypeOK'  BY <2>1 DEF TypeOK, Finished
  <2>3. Remembered' /\ LatestKnown'
    BY <2>1 DEF Remembered, LatestKnown, TypeOK, Reviews
  <2>4. NoSilentDeadEnd'  BY <2>1 DEF NoSilentDeadEnd, TypeOK
  <2>5. Quietly(r)  BY <2>1 DEF Quietly, TypeOK
  <2>6. EditedNeverReviewed'  BY <2>1 DEF EditedNeverReviewed, TypeOK
  <2> QED  BY <2>1, <2>2, <2>3, <2>4, <2>5, <2>6, TableUnchanged
<1> QED  BY <1>1, <1>2

\* Every step of the service keeps the invariant.
LEMMA InvStep == Inv /\ [Next]_vars => Inv'
<1> SUFFICES ASSUME Inv, [Next]_vars PROVE Inv'
  OBVIOUS
<1>1. ASSUME NEW r \in Requests, Arrive(r) PROVE Inv'
  BY <1>1, ArriveStep
<1>2. ASSUME NEW r \in Requests, Run(r) PROVE Inv'
  BY <1>2, ApproveStep, EditStep, RejectStep, InsertStep, QuietStep DEF Run
<1>3. CASE UNCHANGED vars
  BY <1>3 DEF vars, Inv, TypeOK, VersionsFromOne, Remembered, LatestKnown,
              EditedNeverReviewed, EditedVersionStands, ArchivesSilently,
              SignatureIsTheApprovers, Approves, NoSilentDeadEnd
<1> QED  BY <1>1, <1>2, <1>3 DEF Next

\* Versions 1..n have no gap.
LEMMA InvImpliesContiguous == Inv => VersionsContiguous
BY DEF Inv, TypeOK, VersionsFromOne, VersionsContiguous

\* The invariant holds in every reachable state.
THEOREM Invariance == Spec => []Inv
BY InvInit, InvStep, PTL DEF Spec

\* Every variable keeps its type, whatever the interleaving.
THEOREM TypeCorrect == Spec => []TypeOK
<1>1. Inv => TypeOK  BY DEF Inv
<1> QED  BY <1>1, Invariance, PTL

\* The versions of a table have no gap: UNIQUE (agent_type, version) and
\* MAX + 1 are enough, although both versions are computed from stale reads.
THEOREM Contiguity == Spec => []VersionsContiguous
BY Invariance, InvImpliesContiguous, PTL

\* An edit leaves the version it made as it made it, and no version is archived
\* without a reason but by an edit or by a rejection that gave none: the
\* transaction of edit_proposal, under every race.
THEOREM EditedVersionsStand == Spec => []EditedVersionStands
<1>1. Inv => EditedVersionStands  BY DEF Inv
<1> QED  BY <1>1, Invariance, PTL

\* Approved and signed versions carry the name, or the null, that the review
\* which approved them gave.
THEOREM SignaturesAreApprovers == Spec => []SignatureIsTheApprovers
<1>1. Inv => SignatureIsTheApprovers  BY DEF Inv
<1> QED  BY <1>1, Invariance, PTL

\* The newest version is archived only by a rejection that has not ended well.
THEOREM DeadEndHasACause == Spec => []NoSilentDeadEnd
<1>1. Inv => NoSilentDeadEnd  BY DEF Inv
<1> QED  BY <1>1, Invariance, PTL

\* What a step leaves of the history of version v.
Kept(v) ==
    /\ v \in DOMAIN rows'
    /\ rows[v].status # "proposed" => rows'[v].status # "proposed"
    /\ rows'[v].expert_signature # rows[v].expert_signature =>
          \E r \in Requests :
              /\ op[r] = "approve" /\ latest[r] = v
              /\ pc[r] = "approve" /\ pc'[r] = "done"
              /\ expert_id[r] = rows'[v].expert_signature

\* The history of a table is kept: nothing is deleted or reopened, and only an
\* approval changes a signature.
LEMMA KeepStep ==
    ASSUME Inv, [Next]_vars, NEW v \in DOMAIN rows
    PROVE  Kept(v)
<1> USE DEF Inv
<1>0. rows[v] \in Row  BY DEF TypeOK
<1>1. CASE UNCHANGED rows  BY <1>1 DEF Kept
<1>2. ASSUME NEW r \in Requests, ApproveProposal(r)
      PROVE  Kept(v)
  <2>1. /\ latest[r] \in DOMAIN rows /\ op[r] = "approve"
        /\ pc[r] = "approve" /\ pc'[r] = "done"
    BY <1>2 DEF ApproveProposal, Remembered, Reviews, Goto, TypeOK
  <2> QED  BY <1>0, <1>2, <2>1 DEF ApproveProposal, Row, Kept
<1>r. ASSUME NEW r \in Requests, RejectProposal(r)
      PROVE  Kept(v)
  <2>1. latest[r] \in DOMAIN rows  BY <1>r DEF RejectProposal, Remembered, Reviews
  <2> QED  BY <1>0, <1>r, <2>1 DEF RejectProposal, Row, Kept
<1>3. ASSUME NEW r \in Requests, EditProposal(r)
      PROVE  Kept(v)
  <2>1. latest[r] \in DOMAIN rows /\ v # latest[r] + 1
    BY <1>3 DEF EditProposal, Remembered, Reviews
  <2>2. /\ v \in DOMAIN rows'
        /\ rows'[v] = [rows EXCEPT ![latest[r]].status = "archived"][v]
    BY <1>3, <2>1 DEF EditProposal, Insert
  <2> QED  BY <1>0, <2>1, <2>2 DEF Row, Kept
<1>4. ASSUME NEW r \in Requests, InsertProposal(r)
      PROVE  Kept(v)
  BY <1>4 DEF InsertProposal, Insert, Kept
<1>5. CASE \E r \in Requests : Arrive(r)
  BY <1>5, <1>1 DEF Arrive, Admit, Refuse, StartProposal
<1>6. CASE \E r \in Requests : Run(r)
  <2> PICK r \in Requests : Run(r)  BY <1>6
  <2>1. CASE ApproveProposal(r) \/ RejectProposal(r)  BY <2>1, <1>2, <1>r
  <2>2. CASE EditProposal(r)  BY <2>2, <1>3
  <2>3. CASE InsertProposal(r)  BY <2>3, <1>4
  <2>4. CASE \/ EditConflicts(r) \/ GenerateProposal(r) \/ GenerationFails(r)
             \/ InsertConflicts(r) \/ StatementFails(r)
    BY <2>4, <1>1 DEF EditConflicts, GenerateProposal, GenerationFails,
                      InsertConflicts, StatementFails
  <2> QED  BY <2>1, <2>2, <2>3, <2>4 DEF Run
<1>7. CASE UNCHANGED vars  BY <1>7, <1>1 DEF vars
<1> QED  BY <1>5, <1>6, <1>7 DEF Next

\* HistoryIsKept holds of every behaviour, racing reviews included.
THEOREM HistoryKept == Spec => HistoryIsKept
<1>1. Inv /\ [Next]_vars => [\A v \in DOMAIN rows : Kept(v)]_vars
  BY KeepStep
<1> QED  BY <1>1, Invariance, PTL DEF Spec, HistoryIsKept, Kept

-----------------------------------------------------------------------------
(***************************************************************************)
(* The ledger of TeamCompositions.                                         *)
(***************************************************************************)
\* A step of the ledger, or the write of a review that was overtaken.
LedgerOrOvertaken ==
    \/ Ledger!Next
    \/ \E r \in Requests : pc[r] \in Reviews /\ pc'[r] # pc[r] /\ Overtaken(r)

\* Only the write of an overtaken review is no step of the ledger.
LEMMA StepIsLedgerStep ==
    Inv /\ [Next]_vars => [LedgerOrOvertaken]_rows
<1> SUFFICES ASSUME Inv, [Next]_vars, rows' # rows PROVE LedgerOrOvertaken
  OBVIOUS
<1> USE DEF Inv
<1>2. ASSUME NEW r \in Requests, ApproveProposal(r), ~Overtaken(r)
      PROVE  Ledger!Next
  <2>1. /\ latest[r] \in DOMAIN rows /\ expert_id[r] \in Ledger!Signatures
        /\ IsNewest(rows, latest[r]) /\ Mutable(rows, latest[r])
    BY <1>2 DEF ApproveProposal, Remembered, Overtaken, Reviews, TypeOK,
                Signatures, Ledger!Signatures
  <2>2. Ledger!Approve(latest[r], expert_id[r])
    BY <1>2, <2>1 DEF ApproveProposal, Ledger!Approve, Ledger!IsNewest, IsNewest,
                      Ledger!Mutable, Mutable
  <2> QED  BY <2>1, <2>2 DEF Ledger!Next
<1>3. ASSUME NEW r \in Requests, EditProposal(r), ~Overtaken(r)
      PROVE  Ledger!Next
  <2>1. /\ latest[r] \in DOMAIN rows /\ expert_id[r] \in Ledger!Signatures
        /\ IsNewest(rows, latest[r]) /\ Mutable(rows, latest[r])
    BY <1>3 DEF EditProposal, Remembered, Overtaken, Reviews, TypeOK,
                Signatures, Ledger!Signatures
  <2>2. Ledger!Supersede(latest[r], expert_id[r])
    BY <1>3, <2>1 DEF EditProposal, Ledger!Supersede, Ledger!IsNewest, IsNewest,
                      Ledger!Mutable, Mutable, Ledger!Insert, Insert,
                      Ledger!EditedRow, EditedRow
  <2> QED  BY <2>1, <2>2 DEF Ledger!Next
<1>4. ASSUME NEW r \in Requests, RejectProposal(r), ~Overtaken(r)
      PROVE  Ledger!Next
  <2>1. /\ latest[r] \in DOMAIN rows /\ reason[r] \in BOOLEAN
        /\ IsNewest(rows, latest[r]) /\ Mutable(rows, latest[r])
    BY <1>4 DEF RejectProposal, Remembered, Overtaken, Reviews, TypeOK
  <2>2. Ledger!Reject(latest[r], reason[r])
    BY <1>4, <2>1 DEF RejectProposal, Ledger!Reject, Ledger!IsNewest, IsNewest,
                      Ledger!Mutable, Mutable
  <2> QED  BY <2>1, <2>2 DEF Ledger!Next
<1>5. ASSUME NEW r \in Requests, InsertProposal(r)
      PROVE  Ledger!Next
  <2> DEFINE m == next_version[r]
  <2>0. PICK n \in Nat : DOMAIN rows = 1 .. n
    BY DEF VersionsFromOne, TypeOK
  <2>1. m = n + 1 /\ m \in Nat
    <3>1. m \in Nat /\ (m = 1 \/ m - 1 \in 1 .. n) /\ m \notin 1 .. n
      BY <1>5, <2>0 DEF InsertProposal, Remembered, TypeOK
    <3> HIDE DEF m
    <3> QED  BY <3>1
  <2>2. IsNext(rows, m)
    BY <2>0, <2>1 DEF IsNext, IsNewest
  <2>3. Ledger!Propose(m)
    BY <1>5, <2>2 DEF InsertProposal, Ledger!Propose, Ledger!IsNext, IsNext,
                      Ledger!IsNewest, IsNewest, Ledger!Insert, Insert,
                      Ledger!ProposedRow, ProposedRow
  <2>4. m \in {1} \cup {u + 1 : u \in DOMAIN rows}
    <3>1. CASE n = 0  BY <2>1, <3>1
    <3>2. CASE n # 0
      <4>1. n \in DOMAIN rows  BY <2>0, <3>2
      <4> QED  BY <2>1, <4>1
    <3> QED  BY <3>1, <3>2
  <2> QED  BY <2>3, <2>4 DEF Ledger!Next
<1>o. ASSUME NEW r \in Requests, Overtaken(r),
             ApproveProposal(r) \/ EditProposal(r) \/ RejectProposal(r)
      PROVE  LedgerOrOvertaken
  <2>1. pc[r] \in Reviews /\ pc'[r] # pc[r]
    BY <1>o DEF ApproveProposal, EditProposal, RejectProposal, Goto, Reviews, TypeOK
  <2> QED  BY <1>o, <2>1 DEF LedgerOrOvertaken
<1>6. CASE \E r \in Requests : Arrive(r)
  BY <1>6 DEF Arrive, Admit, Refuse, StartProposal
<1>7. CASE \E r \in Requests : Run(r)
  <2> PICK r \in Requests : Run(r)  BY <1>7
  <2>1. ~(\/ EditConflicts(r) \/ GenerateProposal(r) \/ GenerationFails(r)
          \/ InsertConflicts(r) \/ StatementFails(r))
    BY DEF EditConflicts, GenerateProposal, GenerationFails,
           InsertConflicts, StatementFails
  <2>2. CASE Overtaken(r) \/ InsertProposal(r)
    BY <2>1, <2>2, <1>5, <1>o DEF Run, LedgerOrOvertaken
  <2>3. CASE ~Overtaken(r) /\ ~InsertProposal(r)
    BY <2>1, <2>3, <1>2, <1>3, <1>4 DEF Run, LedgerOrOvertaken
  <2> QED  BY <2>2, <2>3
<1>8. ~UNCHANGED vars  BY DEF vars
<1> QED  BY <1>6, <1>7, <1>8 DEF Next

\* Whatever races or fails, every write is a step of the ledger, or it comes
\* from a review that another one overtook between its check and its write.
THEOREM OnlyOvertakenReviewsBreakTheLedger == Spec => LedgerUnlessOvertaken
<1>1. Inv /\ [Next]_vars => [LedgerOrOvertaken]_rows
  BY StepIsLedgerStep
<1> QED  BY <1>1, Invariance, PTL DEF Spec, LedgerUnlessOvertaken, LedgerOrOvertaken

-----------------------------------------------------------------------------
(***************************************************************************)
(* The serial specification.                                               *)
(***************************************************************************)
LEMMA SerialStepIsStep == [SerialNext]_vars => [Next]_vars
BY DEF SerialNext, Next

\* The serial invariant holds initially.
LEMMA SerialInit == Init => SerialInv
<1> SUFFICES ASSUME Init PROVE SerialInv
  OBVIOUS
<1>1. \A r \in Requests : pc[r] = "idle"  BY DEF Init
<1> QED  BY <1>1, InvInit DEF SerialInv, OneInFlight, StillNewest, Pending, Reviews

\* A request arrives at an idle service: what it reads is the newest version.
LEMMA SerialArrive ==
    ASSUME SerialInv, NEW r \in Requests, NoneInFlight, Arrive(r)
    PROVE  OneInFlight' /\ StillNewest'
<1> USE DEF SerialInv, Inv
<1>0. PICK n \in Nat : DOMAIN rows = 1 .. n
  BY DEF VersionsFromOne, TypeOK
<1>1. MaxVersion = n  BY <1>0, MaxOfPrefix
<1>2. /\ UNCHANGED rows
      /\ \A s \in Requests : s # r => pc'[s] = pc[s] /\ pc'[s] \notin Pending
  BY DEF Arrive, Admit, Refuse, StartProposal, Goto, NoneInFlight, TypeOK
<1>3. OneInFlight'  BY <1>2 DEF OneInFlight
<1>5. pc'[r] \in Reviews => latest'[r] = n /\ n # 0 /\ Mutable(rows, n)
  BY <1>1 DEF Arrive, Admit, Refuse, StartProposal, Goto, TypeOK, Reviews, Reviewable
<1>6. StillNewest'
  BY <1>0, <1>2, <1>5 DEF StillNewest, Overtaken, IsNewest, Mutable, Pending, Reviews
<1> QED  BY <1>3, <1>6

\* A step of the only request in flight.
LEMMA SerialRun ==
    ASSUME SerialInv, NEW r \in Requests, Run(r)
    PROVE  OneInFlight' /\ StillNewest'
<1> USE DEF SerialInv, Inv
<1>2. pc[r] \in Pending
  BY DEF Run, ApproveProposal, EditProposal, EditConflicts, RejectProposal,
         GenerateProposal, GenerationFails, InsertProposal, InsertConflicts,
         StatementFails, Pending
<1>3. \A s \in Requests : s # r => pc'[s] = pc[s]
  BY DEF Run, ApproveProposal, EditProposal, EditConflicts, RejectProposal,
         GenerateProposal, GenerationFails, InsertProposal, InsertConflicts,
         StatementFails, Goto, TypeOK
<1>4. \A s \in Requests : s # r => pc'[s] \notin Pending
  BY <1>2, <1>3 DEF OneInFlight
<1>5. OneInFlight'  BY <1>4 DEF OneInFlight
<1>6. pc'[r] \notin Reviews
  BY DEF Run, ApproveProposal, EditProposal, EditConflicts, RejectProposal,
         GenerateProposal, GenerationFails, InsertProposal, InsertConflicts,
         StatementFails, Goto, TypeOK, Reviews
<1>9. StillNewest'
  BY <1>4, <1>6 DEF StillNewest, Pending, Reviews
<1> QED  BY <1>5, <1>9

\* The serial invariant is inductive.
LEMMA SerialStep == SerialInv /\ [SerialNext]_vars => SerialInv'
<1> SUFFICES ASSUME SerialInv, [SerialNext]_vars PROVE SerialInv'
  OBVIOUS
<1>1. Inv'  BY InvStep, SerialStepIsStep DEF SerialInv
<1>2. CASE SerialNext
  BY <1>1, <1>2, SerialArrive, SerialRun DEF SerialNext, SerialInv
<1>3. CASE UNCHANGED vars
  BY <1>1, <1>3 DEF vars, SerialInv, OneInFlight, StillNewest, Overtaken,
                    IsNewest, Mutable
<1> QED  BY <1>2, <1>3

\* One review at a time: nothing a request read is stale when it is used.
THEOREM SerialInvariance == SerialSpec => []SerialInv
BY SerialInit, SerialStep, PTL DEF SerialSpec

\* Nobody is overtaken, so every serial step is a step of the ledger.
LEMMA SerialStepIsLedgerStep ==
    SerialInv /\ [SerialNext]_vars => [Ledger!Next]_rows
<1> SUFFICES ASSUME SerialInv, [SerialNext]_vars PROVE [Ledger!Next]_rows
  OBVIOUS
<1>1. [LedgerOrOvertaken]_rows
  BY SerialStepIsStep, StepIsLedgerStep DEF SerialInv
<1>2. ~\E r \in Requests : pc[r] \in Reviews /\ Overtaken(r)
  BY DEF SerialInv, StillNewest
<1> QED  BY <1>1, <1>2 DEF LedgerOrOvertaken

\* Used serially, the service implements the ledger of TeamCompositions.
THEOREM SerialImplementsLedger == SerialSpec => ImplementsLedger
<1>1. Init => Ledger!Init
  BY DEF Init, Ledger!Init, ProposedRow, Ledger!ProposedRow
<1>2. SerialInv /\ [SerialNext]_vars => [Ledger!Next]_rows
  BY SerialStepIsLedgerStep
<1> QED  BY <1>1, <1>2, SerialInvariance, PTL
         DEF SerialSpec, ImplementsLedger, Ledger!Spec

\* A step of the ledger leaves every approved row as it is.
LEMMA LedgerFreezes ==
    ASSUME TypeOK, [Ledger!Next]_rows,
           NEW v \in DOMAIN rows, rows[v].status = "approved"
    PROVE  v \in DOMAIN rows' /\ rows'[v] = rows[v]
<1>1. v \in Nat /\ DOMAIN rows \subseteq Nat  BY DEF TypeOK
<1>2. ASSUME NEW u \in DOMAIN rows, NEW why, Ledger!Reject(u, why)
      PROVE  v \in DOMAIN rows' /\ rows'[v] = rows[v]
  BY <1>2 DEF Ledger!Reject, Ledger!Mutable
<1>3. ASSUME NEW u \in DOMAIN rows, NEW e, Ledger!Approve(u, e)
      PROVE  v \in DOMAIN rows' /\ rows'[v] = rows[v]
  BY <1>3 DEF Ledger!Approve, Ledger!Mutable
<1>4. ASSUME NEW u \in DOMAIN rows, NEW e, Ledger!Supersede(u, e)
      PROVE  v \in DOMAIN rows' /\ rows'[v] = rows[v]
  <2>1. u # v /\ v # u + 1
    BY <1>1, <1>4 DEF Ledger!Supersede, Ledger!Mutable, Ledger!IsNewest
  <2> QED  BY <1>4, <2>1 DEF Ledger!Supersede, Ledger!Insert
<1>5. ASSUME NEW u, Ledger!Propose(u)
      PROVE  v \in DOMAIN rows' /\ rows'[v] = rows[v]
  <2>1. v # u
    BY <1>1, <1>5 DEF Ledger!Propose, Ledger!IsNext, Ledger!IsNewest
  <2> QED  BY <1>5, <2>1 DEF Ledger!Propose, Ledger!Insert
<1> QED  BY <1>2, <1>3, <1>4, <1>5 DEF Ledger!Next

\* I6 for a service that answers one request at a time.
THEOREM SerialFreezesSignedRows == SerialSpec => SignedRowsFrozen
<1>1. SerialInv /\ [SerialNext]_vars =>
        [\A v \in DOMAIN rows :
            rows[v].status = "approved" /\ rows[v].expert_signature # NoExpert
                => v \in DOMAIN rows' /\ rows'[v] = rows[v]]_vars
  BY SerialStepIsLedgerStep, LedgerFreezes DEF SerialInv, Inv
<1> QED  BY <1>1, SerialInvariance, PTL DEF SerialSpec, SignedRowsFrozen
=============================================================================
