------------------------- MODULE PrewarmRefinement --------------------------
(***************************************************************************)
(* PrewarmEngine implements VerifiedTickets.  A ticket is the value of a   *)
(* record, a round is the time the record's running flag is on, whether    *)
(* its job is still queued or in a worker's hands, and it is doubted from  *)
(* a revocation or a change of plan on until it ends.                      *)
(***************************************************************************)
EXTENDS PrewarmRequirements

TicketOf(t) == [version |-> t.version, state |-> t.state]

RoundOf(k) ==
    IF ~records[k].running THEN "none" ELSE IF k \in doubted THEN "doubted" ELSE "sound"

TicketTable == [k \in Keys |-> TicketOf(records[k].value)]
RoundTable == [k \in Keys |-> RoundOf(k)]
GivenTable == [q \in RequestIDs |-> carried[q] \ {0}]

Tickets ==
    INSTANCE VerifiedTickets WITH
        plan <- plans, ticket <- TicketTable, round <- RoundTable,
        issued <- version, given <- GivenTable

\* Whatever its workers, its scheduler and the requests interleave to, the engine
\* does only what VerifiedTickets allows: it issues a ticket only from a round that
\* no revocation and no change of plan came after, for the plan the key has at that
\* moment, never issues a version twice, gives a request only its key's current
\* ticket, and neither issues, gives nor begins anything once it is closed.
ImplementsVerifiedTickets == Tickets!Spec
=============================================================================
