-------------------------- MODULE VerifiedTickets ---------------------------
(***************************************************************************)
(* What the prewarm engine promises its requests, without workers, queues, *)
(* epochs, proxies or a scheduler.  Each key has a plan, at most one round *)
(* and at most one ticket.  A ticket is issued by a round that nothing has *)
(* cast doubt on since it began; withdrawing a ticket, or changing a key's *)
(* plan, casts doubt on the round in progress.  A request is given what is *)
(* its key's ticket at that moment, and a version is never issued twice.   *)
(***************************************************************************)
EXTENDS PlanFamilies, Naturals

CONSTANTS Keys, RequestIDs

VARIABLES
    plan,      \* the plan each key is served under, NoPlan for none
    ticket,    \* the ticket of each key, None for none
    round,     \* "none", "sound" or "doubted", per key
    issued,    \* the last version issued
    given,     \* the versions each active request was given
    closed

vars == <<plan, ticket, round, issued, given, closed>>

None == [version |-> 0, state |-> "none"]

Init ==
    /\ plan \in [Keys -> Plans \cup {NoPlan}]
    /\ ticket = [k \in Keys |-> None]
    /\ round = [k \in Keys |-> "none"]
    /\ issued = 0
    /\ given = [q \in RequestIDs |-> {}]
    /\ closed = FALSE

\* Rounds begin for keys that are served and have none.
Begin(K) ==
    /\ ~closed
    /\ \A k \in K : plan[k] # NoPlan /\ round[k] = "none"
    /\ round' = [k \in Keys |-> IF k \in K THEN "sound" ELSE round[k]]
    /\ UNCHANGED <<plan, ticket, issued, given, closed>>

\* A sound round issues a ticket that fits the key's plan.
Issue(k) ==
    /\ ~closed
    /\ round[k] = "sound"
    /\ issued' = issued + 1
    /\ \E s \in StateClasses :
          /\ ValidState(s, plan[k])
          /\ ticket' = [ticket EXCEPT ![k] = [version |-> issued', state |-> s]]
    /\ UNCHANGED <<plan, round, given, closed>>

End(k) ==
    /\ round[k] # "none"
    /\ round' = [round EXCEPT ![k] = "none"]
    /\ UNCHANGED <<plan, ticket, issued, given, closed>>

\* The ticket of k is withdrawn: a round in progress started from what is now in
\* doubt, and where there is none a new one may begin at once.
Withdrawn(k) ==
    /\ ticket[k] # None
    /\ ticket' = [ticket EXCEPT ![k] = None]
    /\ \/ /\ round[k] = "none"
          /\ UNCHANGED round
       \/ /\ round[k] = "none" /\ plan[k] # NoPlan /\ ~closed
          /\ round' = [round EXCEPT ![k] = "sound"]
       \/ /\ round[k] # "none"
          /\ round' = [round EXCEPT ![k] = "doubted"]

Withdraw(k) ==
    /\ Withdrawn(k)
    /\ UNCHANGED <<plan, issued, given, closed>>

\* The keys whose plan changes lose their tickets, and rounds in progress no
\* longer count.
Replan ==
    /\ ~closed
    /\ plan' \in [Keys -> Plans \cup {NoPlan}]
    /\ ticket' = [k \in Keys |-> IF plan'[k] = plan[k] THEN ticket[k] ELSE None]
    /\ round' = [k \in Keys |->
                   IF plan'[k] = plan[k] \/ round[k] = "none" THEN round[k] ELSE "doubted"]
    /\ UNCHANGED <<issued, given, closed>>

\* A request is given the ticket its key has.
Give(q, k) ==
    /\ ~closed
    /\ ticket[k] # None
    /\ given' = [given EXCEPT ![q] = @ \cup {ticket[k].version}]
    /\ UNCHANGED <<plan, ticket, round, issued, closed>>

\* A request completes; its last answer may have withdrawn a ticket.
Complete(q) ==
    /\ given' = [given EXCEPT ![q] = {}]
    /\ UNCHANGED <<ticket, round>> \/ \E k \in Keys : Withdrawn(k)
    /\ UNCHANGED <<plan, issued, closed>>

Close ==
    /\ ~closed
    /\ closed' = TRUE
    /\ UNCHANGED <<plan, ticket, round, issued, given>>

Next ==
    \/ \E K \in SUBSET Keys : Begin(K)
    \/ \E k \in Keys : Issue(k) \/ End(k) \/ Withdraw(k)
    \/ \E q \in RequestIDs : Complete(q) \/ \E k \in Keys : Give(q, k)
    \/ Replan \/ Close

Spec == Init /\ [][Next]_vars
=============================================================================
