--------------------------- MODULE ProposalReview ---------------------------
(***************************************************************************)
(* The review of proposed team compositions for one agent type:            *)
(* proposal_review_service.py, the persistence half of proposal_engine.py  *)
(* and the PUT handler of api/routes/proposals.py.                         *)
(*                                                                         *)
(* Every HTTP request is a coroutine on one event loop.  It runs without   *)
(* interruption between two awaits, and the awaits that matter are its     *)
(* Postgres statements, so a request is a program counter and each action  *)
(* is one statement with the Python around it.  A statement outside an     *)
(* explicit transaction commits by itself; edit_proposal's two statements  *)
(* share a transaction and are one action.                                 *)
(***************************************************************************)
EXTENDS CompositionRows

CONSTANT Requests      \* review requests and callers of generate_proposal

VARIABLES
    rows,          \* the table: version number -> row
    pc,            \* the statement each request will issue next
    op,            \* what each request was asked to do
    expert_id,     \* body["expert_id"] of an approval or edit
    reason,        \* body["rejection_reason"] is not null
    latest,        \* latest.version as the request read it
    next_version   \* next_version computed by _persist_proposal

locals == <<op, expert_id, reason, latest, next_version>>
vars == <<rows, pc, op, expert_id, reason, latest, next_version>>

Reviews == {"approve", "edit", "reject"}
Ops == Reviews \cup {"propose"}
Pending == {"approve", "edit", "reject", "generate", "insert"}
Finished == {"done", "refused", "error"}

\* ORDER BY version DESC LIMIT 1, and SELECT MAX(version): 0 for no row.
MaxVersion == IF DOMAIN rows = {} THEN 0
              ELSE CHOOSE v \in DOMAIN rows : \A u \in DOMAIN rows : u <= v

\* Slip: the newest version can be reviewed again after it was signed.
AnyLatestReviewable == MaxVersion # 0

\* There is a newest version (else NoProposalFound) and it is neither approved
\* nor signed (else ProposalAlreadyApproved).
Reviewable == MaxVersion # 0 /\ Mutable(rows, MaxVersion)

Goto(r, l) == pc' = [pc EXCEPT ![r] = l]

Init ==
    /\ rows = [v \in {} |-> ProposedRow]
    /\ pc = [r \in Requests |-> "idle"]
    /\ op = [r \in Requests |-> "propose"]
    /\ expert_id = [r \in Requests |-> NoExpert]
    /\ reason = [r \in Requests |-> FALSE]
    /\ latest = [r \in Requests |-> 0]
    /\ next_version = [r \in Requests |-> 0]

-----------------------------------------------------------------------------
(***************************************************************************)
(* A review starts with _require_mutable_latest: it reads the newest       *)
(* version and refuses a missing (404) or an approved or signed one (409). *)
(* The body is a dictionary that nothing validates: expert_id and the      *)
(* rejection reason can be null.  (A body without the key, or with another *)
(* action, is answered before anything is read or written.)                *)
(***************************************************************************)
Admit(r, a, e, why) ==
    /\ pc[r] = "idle"
    /\ Reviewable
    /\ Goto(r, a)
    /\ op' = [op EXCEPT ![r] = a]
    /\ expert_id' = [expert_id EXCEPT ![r] = e]
    /\ reason' = [reason EXCEPT ![r] = why]
    /\ latest' = [latest EXCEPT ![r] = MaxVersion]
    /\ UNCHANGED <<rows, next_version>>

Refuse(r) ==
    /\ pc[r] = "idle"
    /\ ~Reviewable
    /\ Goto(r, "refused")
    /\ UNCHANGED <<rows, locals>>

\* generate_proposal called for itself: no route does, the test-suite does.
StartProposal(r) ==
    /\ pc[r] = "idle"
    /\ Goto(r, "generate")
    /\ UNCHANGED <<rows, locals>>

\* Slip: the signature is left out of the UPDATE.
ApproveUnsigned(r) ==
    /\ pc[r] = "approve"
    /\ rows' = [rows EXCEPT ![latest[r]].status = "approved"]
    /\ Goto(r, "done")
    /\ UNCHANGED locals

\* approve_proposal: the UPDATE names the version read before, and only it.
ApproveProposal(r) ==
    /\ pc[r] = "approve"
    /\ rows' = [rows EXCEPT ![latest[r]].status = "approved",
                            ![latest[r]].expert_signature = expert_id[r]]
    /\ Goto(r, "done")
    /\ UNCHANGED locals

\* Slip: both statements commit by themselves, so a failed INSERT leaves the
\* archived row behind.
EditConflictsAfterArchiving(r) ==
    /\ pc[r] = "edit"
    /\ latest[r] + 1 \in DOMAIN rows
    /\ rows' = [rows EXCEPT ![latest[r]].status = "archived"]
    /\ Goto(r, "error")
    /\ UNCHANGED locals

\* Slip: only the successor is written.
EditWithoutArchiving(r) ==
    /\ pc[r] = "edit"
    /\ latest[r] + 1 \notin DOMAIN rows
    /\ rows' = Insert(rows, latest[r] + 1, EditedRow(expert_id[r]))
    /\ Goto(r, "done")
    /\ UNCHANGED locals

(***************************************************************************)
(* edit_proposal: archive the version read before and insert its           *)
(* successor, in one transaction.  UNIQUE (agent_type, version) aborts the *)
(* transaction when that successor exists.                                 *)
(***************************************************************************)
EditProposal(r) ==
    /\ pc[r] = "edit"
    /\ latest[r] + 1 \notin DOMAIN rows
    /\ rows' = Insert([rows EXCEPT ![latest[r]].status = "archived"],
                      latest[r] + 1, EditedRow(expert_id[r]))
    /\ Goto(r, "done")
    /\ UNCHANGED locals

EditConflicts(r) ==
    /\ pc[r] = "edit"
    /\ latest[r] + 1 \in DOMAIN rows
    /\ Goto(r, "error")
    /\ UNCHANGED <<rows, locals>>

\* Slip: the rejection clears the signature it finds.
RejectAndUnsign(r) ==
    /\ pc[r] = "reject"
    /\ rows' = [rows EXCEPT ![latest[r]].status = "archived",
                            ![latest[r]].expert_signature = NoExpert,
                            ![latest[r]].rejection_reason = reason[r]]
    /\ Goto(r, "generate")
    /\ UNCHANGED locals

\* reject_proposal, first half: archive with the reason; then re-propose.
\* jsonb_set of a null reason is NULL, and so is the rationale after it.
RejectProposal(r) ==
    /\ pc[r] = "reject"
    /\ rows' = [rows EXCEPT ![latest[r]].status = "archived",
                            ![latest[r]].rejection_reason = reason[r]]
    /\ Goto(r, "generate")
    /\ UNCHANGED locals

\* Slip: no "or 0", and the first version becomes 0.
GenerateFromZero(r) ==
    /\ pc[r] = "generate"
    /\ next_version' = [next_version EXCEPT ![r] =
                           IF DOMAIN rows = {} THEN 0 ELSE MaxVersion + 1]
    /\ Goto(r, "insert")
    /\ UNCHANGED <<rows, op, expert_id, reason, latest>>

\* Slip: the version is counted on from the maximum twice.
GenerateSkippingAVersion(r) ==
    /\ pc[r] = "generate"
    /\ next_version' = [next_version EXCEPT ![r] = MaxVersion + 2]
    /\ Goto(r, "insert")
    /\ UNCHANGED <<rows, op, expert_id, reason, latest>>

\* Slip: what a rejection generates is answered and never persisted.
GenerateWithoutPersisting(r) ==
    /\ pc[r] = "generate"
    /\ next_version' = [next_version EXCEPT ![r] = MaxVersion + 1]
    /\ Goto(r, IF op[r] = "reject" THEN "done" ELSE "insert")
    /\ UNCHANGED <<rows, op, expert_id, reason, latest>>

\* generate_proposal up to the SELECT MAX of _persist_proposal.
GenerateProposal(r) ==
    /\ pc[r] = "generate"
    /\ next_version' = [next_version EXCEPT ![r] = MaxVersion + 1]
    /\ Goto(r, "insert")
    /\ UNCHANGED <<rows, op, expert_id, reason, latest>>

\* The model call fails, its answer is not JSON, or a rationale is missing.
GenerationFails(r) ==
    /\ pc[r] = "generate"
    /\ Goto(r, "error")
    /\ UNCHANGED <<rows, locals>>

\* The INSERT of _persist_proposal, in a statement of its own.
InsertProposal(r) ==
    /\ pc[r] = "insert"
    /\ next_version[r] \notin DOMAIN rows
    /\ rows' = Insert(rows, next_version[r], ProposedRow)
    /\ Goto(r, "done")
    /\ UNCHANGED locals

InsertConflicts(r) ==
    /\ pc[r] = "insert"
    /\ next_version[r] \in DOMAIN rows
    /\ Goto(r, "error")
    /\ UNCHANGED <<rows, locals>>

\* The statement raises before it takes effect, or the process dies.
StatementFails(r) ==
    /\ pc[r] \in {"approve", "edit", "reject", "insert"}
    /\ Goto(r, "error")
    /\ UNCHANGED <<rows, locals>>

-----------------------------------------------------------------------------
Arrive(r) == \/ StartProposal(r)
             \/ Refuse(r)
             \/ \E a \in {"approve", "edit"}, e \in Signatures : Admit(r, a, e, FALSE)
             \/ \E why \in BOOLEAN : Admit(r, "reject", NoExpert, why)

Run(r) == \/ ApproveProposal(r)
          \/ EditProposal(r) \/ EditConflicts(r)
          \/ RejectProposal(r)
          \/ GenerateProposal(r) \/ GenerationFails(r)
          \/ InsertProposal(r) \/ InsertConflicts(r)
          \/ StatementFails(r)

Next == \E r \in Requests : Arrive(r) \/ Run(r)

Spec == Init /\ [][Next]_vars

\* The event loop resumes every coroutine whose await has returned or raised.
Fairness == \A r \in Requests : WF_vars(Run(r))

FairSpec == Spec /\ Fairness

(***************************************************************************)
(* The same service when every request is answered before the next one     *)
(* arrives, which is how the test-suite and a single reviewer drive it.    *)
(***************************************************************************)
NoneInFlight == \A r \in Requests : pc[r] \notin Pending

SerialNext == \E r \in Requests : (NoneInFlight /\ Arrive(r)) \/ Run(r)

SerialSpec == Init /\ [][SerialNext]_vars
-----------------------------------------------------------------------------
(***************************************************************************)
(* Properties of every interleaving.                                       *)
(***************************************************************************)
TypeOK ==
    /\ DOMAIN rows \subseteq Nat \ {0}
    /\ rows \in [DOMAIN rows -> Row]
    /\ pc \in [Requests -> {"idle"} \cup Pending \cup Finished]
    /\ op \in [Requests -> Ops]
    /\ expert_id \in [Requests -> Signatures]
    /\ reason \in [Requests -> BOOLEAN]
    /\ latest \in [Requests -> Nat]
    /\ next_version \in [Requests -> Nat]

\* Versions have no gap, whatever the requests that computed them had read:
\* a successor is inserted only after its predecessor (UNIQUE, MAX + 1).
VersionsContiguous == \A v \in DOMAIN rows : v > 1 => v - 1 \in DOMAIN rows

\* Request r was answered that version v is approved.
Approves(r, v) == /\ pc[r] = "done"
                  /\ \/ op[r] = "approve" /\ latest[r] = v
                     \/ op[r] = "edit" /\ latest[r] + 1 = v

\* Request r archived version v and left no reason in its row.
ArchivesSilently(r, v) ==
    /\ latest[r] = v
    /\ \/ op[r] = "reject" /\ ~reason[r] /\ pc[r] # "reject"
       \/ op[r] = "edit" /\ pc[r] = "done"

\* A version archived without a rejection reason was rejected by a request
\* that gave none, or it was replaced by an edit; and the version that an edit
\* made is there, as the edit made it: the transaction of edit_proposal.
EditedVersionStands ==
    /\ \A v \in DOMAIN rows :
          rows[v].status = "archived" /\ ~rows[v].rejection_reason =>
              \E r \in Requests : ArchivesSilently(r, v)
    /\ \A r \in Requests :
          op[r] = "edit" /\ pc[r] = "done" =>
              /\ latest[r] + 1 \in DOMAIN rows
              /\ rows[latest[r] + 1] = EditedRow(expert_id[r])

\* A version is approved or signed only by a request that was answered so, and
\* a version for which a request was answered so carries exactly the name that
\* one of them gave: no signature is lost, mixed up or invented, whatever
\* raced.  (The name can be null: ApprovedMeansSigned.)
SignatureIsTheApprovers ==
    \A v \in DOMAIN rows :
        \/ rows[v].status = "approved" \/ rows[v].expert_signature # NoExpert
        \/ \E r \in Requests : Approves(r, v)
        => \E r \in Requests : /\ Approves(r, v)
                               /\ expert_id[r] = rows[v].expert_signature

\* T1.8:15-16: approve signs, and an edited version is approved and signed.
\* (Does not hold: a request whose expert_id is null approves unsigned.)
ApprovedMeansSigned ==
    \A v \in DOMAIN rows :
        rows[v].status = "approved" => rows[v].expert_signature # NoExpert

\* The newest version is archived only while a rejection of that version is
\* still generating its replacement, or after that rejection failed: a
\* review that succeeds never leaves the reviewer without a proposal.
NoSilentDeadEnd ==
    \A v \in DOMAIN rows :
        v + 1 \notin DOMAIN rows /\ rows[v].status = "archived" =>
            \E r \in Requests : /\ op[r] = "reject" /\ latest[r] = v
                                /\ pc[r] \in {"generate", "insert", "error"}

\* Even when reviews race, no version is deleted, no reviewed version is open
\* again as a proposal, and a signature changes only by an approval of that
\* very version, into the name that the approval gave.
HistoryIsKept ==
    [][\A v \in DOMAIN rows :
          /\ v \in DOMAIN rows'
          /\ rows[v].status # "proposed" => rows'[v].status # "proposed"
          /\ rows'[v].expert_signature # rows[v].expert_signature =>
                \E r \in Requests :
                    /\ op[r] = "approve" /\ latest[r] = v
                    /\ pc[r] = "approve" /\ pc'[r] = "done"
                    /\ expert_id[r] = rows'[v].expert_signature]_vars

\* reject_proposal re-proposes: once a version is archived by a rejection, a
\* newer version appears unless the generation fails.
RejectionLeadsToProposal ==
    \A r \in Requests :
        (op[r] = "reject" /\ pc[r] = "generate")
            ~> (latest[r] + 1 \in DOMAIN rows \/ pc[r] = "error")

-----------------------------------------------------------------------------
Ledger == INSTANCE TeamCompositions

\* The version that request r was admitted for is no longer open to review.
Overtaken(r) == ~(IsNewest(rows, latest[r]) /\ Mutable(rows, latest[r]))

\* Every write is a step of the ledger of TeamCompositions, save the write of
\* a review whose version was reviewed or followed by another one since it was
\* admitted: nothing else that races or fails can break the ledger.
LedgerUnlessOvertaken ==
    [][\/ Ledger!Next
       \/ \E r \in Requests : pc[r] \in Reviews /\ pc'[r] # pc[r] /\ Overtaken(r)]_rows

\* So a serially used service is the ledger.
ImplementsLedger == Ledger!Spec

\* I6 (speckit/shared/INVARIANTS.md:67): a row that is approved and signed is
\* never mutated.  The serial specification has it, the concurrent one does not.
SignedRowsFrozen ==
    [][\A v \in DOMAIN rows :
          rows[v].status = "approved" /\ rows[v].expert_signature # NoExpert
              => v \in DOMAIN rows' /\ rows'[v] = rows[v]]_vars
=============================================================================
