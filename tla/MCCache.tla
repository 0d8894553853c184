------------------------------ MODULE MCCache -------------------------------
(* The passive turn-state cache for TLC. *)
EXTENDS TurnStateCache

\* A state without and with a plan, a state its plan refuses, a plan alone.
MCAnswers == [state : {"s292"}, plan : {NoPlan}]
               \cup [state : {"s332", "none"}, plan : {"pro"}]

\* One request is retried, the other is not.
MCMaxTries == [q \in RequestIDs |-> IF q = 1 THEN 2 ELSE 1]
=============================================================================
