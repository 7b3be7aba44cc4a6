------------------------------ MODULE AgentName -----------------------------
(***************************************************************************)
(* What creating agent types promises about one name (T1.1), whatever      *)
(* requests for it race, fail or are cut off.  The name is taken by one    *)
(* request at a time, and given back only by the request that took it,     *)
(* before it is answered.  An answer is final.  Success means that the     *)
(* whole agent is there, in all stores, and it is never taken apart again. *)
(* A request that gives up may leave the name taken for good, with part of *)
(* an agent behind it.  AgentRegistry implements this.                     *)
(***************************************************************************)

CONSTANTS Creators      \* requests for the name

VARIABLES rows,         \* who has taken the name
          answer,       \* what each request was answered
          whole         \* whether the name has all parts of an agent

Init == /\ rows = {}
        /\ answer = [c \in Creators |-> "none"]
        /\ whole = FALSE

Answered(c, a) == /\ answer[c] = "none"
                  /\ answer' = [answer EXCEPT ![c] = a]

Take(c) ==
    /\ rows = {} /\ answer[c] = "none"
    /\ rows' = {c}
    /\ UNCHANGED <<answer, whole>>

Refuse(c) ==
    /\ rows # {}
    /\ Answered(c, "refused")
    /\ UNCHANGED <<rows, whole>>

Succeed(c) ==
    /\ rows = {c}
    /\ Answered(c, "done")
    /\ whole' = TRUE
    /\ UNCHANGED rows

GiveBack(c) ==
    /\ rows = {c} /\ ~whole
    /\ Answered(c, "rolled_back")
    /\ rows' = {}
    /\ UNCHANGED whole

\* The requests of S end in an error.  If one of them has taken the name, the
\* agent may have been whole already.
GiveUp(S) ==
    /\ \A c \in S : answer[c] = "none"
    /\ answer' = [c \in Creators |-> IF c \in S THEN "error" ELSE answer[c]]
    /\ \/ UNCHANGED whole
       \/ rows \cap S # {} /\ whole' = TRUE
    /\ UNCHANGED rows

\* What was missing of an abandoned agent is written by its users.
Complete(c) ==
    /\ rows = {c} /\ answer[c] = "error"
    /\ whole' = TRUE
    /\ UNCHANGED <<rows, answer>>

Next == \/ \E c \in Creators : \/ Take(c) \/ Refuse(c) \/ Succeed(c)
                               \/ GiveBack(c) \/ Complete(c)
        \/ \E S \in SUBSET Creators : GiveUp(S)

Spec == Init /\ [][Next]_<<rows, answer, whole>>
=============================================================================
