------------------------- MODULE MCSimulationSession ------------------------
(***************************************************************************)
(* Compositions for TLC.  In version 1 "a" hands over to "b", who accepts  *)
(* one field and must never see another; version 2 keeps only "b", and     *)
(* changes what it accepts.  "x" has no contract in either.                *)
(***************************************************************************)
EXTENDS SimulationSession, FiniteSetsExt, TLC

CONSTANTS a, b, x, ok, new, secret

MCFields == {ok, new, secret}

First == [agents |-> <<a, b>>,
          input_schema |-> [n \in {a, b} |-> {ok}],
          prohibited_fields |-> [n \in {a, b} |-> IF n = b THEN {secret} ELSE {}]]

Second == [agents |-> <<b>>,
           input_schema |-> [n \in {b} |-> {new}],
           prohibited_fields |-> [n \in {b} |-> {secret}]]

MCOneVersion == <<First>>
MCTwoVersions == <<First, Second>>

Message(f, t, fields) == [from |-> f, to |-> t, fields |-> fields]

\* A conforming message; two violations, of which one field stays prohibited
\* after its clarification; an unknown receiver.
MCMessages == {Message(a, b, {ok}), Message(a, b, {secret, new}),
               Message(a, x, {ok})}

\* Bounds over all sessions: three turns; four turns and clarifications.
TurnsTaken == MapThenSumSet(LAMBDA s : Len(turns[s]), Sessions)
Clarifications == MapThenSumSet(LAMBDA s : Len(coord_writes[s]), Sessions)

FewTurns == TurnsTaken <= 3 /\ TurnsTaken + Clarifications <= 4

Symmetry == Permutations(Sessions)
=============================================================================
