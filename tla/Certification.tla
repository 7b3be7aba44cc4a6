---------------------------- MODULE Certification ---------------------------
(***************************************************************************)
(* What the cert1 gate promises (T1.11, I2): a one-way switch behind a log *)
(* of decisions.  A request decides at most once, a decision on the log    *)
(* stays there and changes no phase, and the switch is thrown only when an *)
(* approval is on the log.  Cert1Gate implements this, although a request  *)
(* reads the phase, writes the log and throws the switch at three          *)
(* different times and can fail in between.  Only the creation of the      *)
(* agent, while it lasts, can throw the switch back.                       *)
(***************************************************************************)

CONSTANTS Deciders      \* calls that may decide

VARIABLES phase,        \* of the agent
          creating,     \* the agent is still being created
          cert_events   \* the log: [by |-> decider, decision |-> ...]

Init == /\ phase = "apprentice"
        /\ creating = TRUE
        /\ cert_events = {}

\* d's decision is logged.
Decide(d) ==
    /\ \A e \in cert_events : e.by # d
    /\ \E c \in {"approved", "rejected"} :
          cert_events' = cert_events \cup {[by |-> d, decision |-> c]}
    /\ UNCHANGED <<phase, creating>>

Promote == /\ \E e \in cert_events : e.decision = "approved"
           /\ phase' = "journeyman"
           /\ UNCHANGED <<creating, cert_events>>

Create == /\ creating
          /\ phase' \in {phase, "apprentice"}
          /\ creating' \in BOOLEAN
          /\ UNCHANGED cert_events

Next == Promote \/ Create \/ \E d \in Deciders : Decide(d)

Spec == Init /\ [][Next]_<<phase, creating, cert_events>>
=============================================================================
