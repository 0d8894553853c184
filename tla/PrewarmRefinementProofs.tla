---------------------- MODULE PrewarmRefinementProofs -----------------------
(***************************************************************************)
(* PrewarmEngine implements VerifiedTickets, for every value of the        *)
(* constants: every step of the engine is one of the abstract steps, or    *)
(* leaves the abstract state alone.  The argument needs the fence of the   *)
(* epochs (what publishes was not doubted), the qualification of tickets   *)
(* (what is issued fits its plan) and that no ticket has version 0.        *)
(***************************************************************************)
EXTENDS PrewarmRefinement, PrewarmJobProofs

\* Version 0 stands for a nil ticket only.
Versioned == \A k \in Keys : records[k].value # NoTicket => records[k].value.version # 0

\* A busy worker's job is one from the queue.
BusyHasJob == \A w \in WorkerIDs : Busy(w) => wk[w].job \in Job

RefinementInv == FenceInv /\ TicketInv /\ Versioned /\ BusyHasJob

\* What a step leaves alone in the abstract state.
SameGiven == \A q \in RequestIDs : carried'[q] \ {0} = carried[q] \ {0}

SameTickets == \A k \in Keys : records'[k].value = records[k].value

-----------------------------------------------------------------------------
(* The tables of the abstract state *)

\* Plans and states are the same on both levels.
LEMMA SamePlans ==
    /\ Tickets!NoPlan = NoPlan /\ Tickets!Plans = Plans /\ Tickets!StateClasses = StateClasses
    /\ \A s, p : Tickets!ValidState(s, p) <=> ValidState(s, p)
BY DEF Tickets!NoPlan, NoPlan, Tickets!Plans, Plans, Tickets!StateClasses, StateClasses,
       Tickets!ValidState, ValidState, Tickets!FamilyOf, FamilyOf

\* The tables follow from what they show of each key and request.
LEMMA GivenKept ==
    ASSUME SameGiven
    PROVE  GivenTable' = GivenTable
BY DEF SameGiven, GivenTable

LEMMA TicketsSame ==
    ASSUME SameTickets
    PROVE  TicketTable' = TicketTable
BY DEF SameTickets, TicketTable

LEMMA RoundsSame ==
    ASSUME \A k \in Keys : RoundOf(k)' = RoundOf(k)
    PROVE  RoundTable' = RoundTable
BY DEF RoundTable

\* A ticket is nil in the abstract state exactly if it is in the engine.
LEMMA NoneIsNil ==
    ASSUME TypeOK, Versioned, NEW k \in Keys
    PROVE  TicketTable[k] = Tickets!None <=> records[k].value = NoTicket
<1>1. records[k].value \in Ticket
  BY DEF TypeOK, Record
<1>. QED BY <1>1 DEF Versioned, TicketTable, TicketOf, Tickets!None, NoTicket, Ticket

\* A step that changes nothing of what the abstract state shows is a stutter.
LEMMA Stutters ==
    ASSUME UNCHANGED <<plans, version, closed, doubted>>, SameGiven, SameTickets,
           \A k \in Keys : records'[k].running <=> records[k].running
    PROVE  UNCHANGED Tickets!vars
<1>1. RoundTable' = RoundTable
  <2>1. \A k \in Keys : RoundOf(k)' = RoundOf(k)
    BY DEF RoundOf
  <2>. QED BY <2>1, RoundsSame
<1>. QED BY <1>1, GivenKept, TicketsSame DEF Tickets!vars

-----------------------------------------------------------------------------
(* The abstract steps *)

\* Enqueueing keys that may run is a beginning of their rounds.
LEMMA Begins ==
    ASSUME EpochsFence, UNCHANGED <<plans, version, closed, doubted>>, SameGiven, SameTickets,
           \A k \in Keys : records[k].running => records'[k].running,
           \A k \in Keys : records'[k].running => records[k].running \/ (~closed /\ k \in Managed)
    PROVE  [Tickets!Next]_(Tickets!vars)
<1>. DEFINE K == {k \in Keys : records'[k].running /\ ~records[k].running}
<1>1. CASE K = {}
  BY <1>1, Stutters
<1>2. CASE K # {}
  <2>1. RoundTable' = [k \in Keys |-> IF k \in K THEN "sound" ELSE RoundTable[k]]
    <3>1. ASSUME NEW k \in Keys
          PROVE  RoundOf(k)' = IF k \in K THEN "sound" ELSE RoundOf(k)
      BY DEF RoundOf, EpochsFence
    <3>. HIDE DEF K
    <3>. QED BY <3>1 DEF RoundTable
  <2>2. ~closed /\ \A k \in K : plans[k] # NoPlan /\ RoundTable[k] = "none"
    BY <1>2 DEF Managed, RoundTable, RoundOf
  <2>3. K \in SUBSET Keys
    OBVIOUS
  <2>. HIDE DEF K
  <2>4. TicketTable' = TicketTable /\ GivenTable' = GivenTable
    BY GivenKept, TicketsSame
  <2>5. Tickets!Begin(K)
    BY <2>1, <2>2, <2>4, SamePlans DEF Tickets!Begin
  <2>. QED BY <2>3, <2>5 DEF Tickets!Next
<1>. QED BY <1>1, <1>2

\* enqueueLocked for a record that keeps its ticket.
LEMMA EnqueueBegins ==
    ASSUME TypeOK, EpochsFence, NEW k \in Keys, enqueueLocked(k, records[k]),
           UNCHANGED <<plans, version, closed, doubted>>, SameGiven
    PROVE  [Tickets!Next]_(Tickets!vars)
<1>1. records[k] \in Record
  BY DEF TypeOK
<1>2. PICK x \in {records[k], [records[k] EXCEPT !.running = TRUE]} :
         /\ records' = [records EXCEPT ![k] = x]
         /\ x = records[k] \/ Enqueues(k, records[k])
  BY DEF enqueueLocked
<1>3. \A j \in Keys : records'[j] = IF j = k THEN x ELSE records[j]
  BY <1>2 DEF TypeOK
<1>4. x.value = records[k].value /\ (records[k].running => x.running)
  BY <1>1 DEF Record
<1>5. x.running => records[k].running \/ (~closed /\ k \in Managed)
  BY <1>2 DEF Enqueues, MayRun
<1>. QED BY <1>3, <1>4, <1>5, Begins DEF SameTickets

\* A revocation: the key's ticket is withdrawn, and its round doubted or begun.
LEMMA Withdraws ==
    ASSUME TypeOK, EpochsFence, Versioned, NEW k \in Keys, records[k].value # NoTicket,
           NEW r \in Record, r.value = NoTicket, r.running <=> records[k].running,
           enqueueLocked(k, r), Doubt(k), UNCHANGED <<plans, closed>>
    PROVE  Tickets!Withdrawn(k)
<1>1. PICK x \in {r, [r EXCEPT !.running = TRUE]} :
         /\ records' = [records EXCEPT ![k] = x]
         /\ x = r \/ (x = [r EXCEPT !.running = TRUE] /\ Enqueues(k, r))
  BY DEF enqueueLocked
<1>2. \A j \in Keys : records'[j] = IF j = k THEN x ELSE records[j]
  BY <1>1 DEF TypeOK
<1>3. x.value = NoTicket
  BY <1>1 DEF Record
<1>4. TicketTable' = [TicketTable EXCEPT ![k] = Tickets!None]
  <2>1. TicketOf(NoTicket) = Tickets!None
    BY DEF TicketOf, NoTicket, Tickets!None
  <2>2. \A j \in Keys : TicketOf(records'[j].value)
                          = IF j = k THEN Tickets!None ELSE TicketOf(records[j].value)
    BY <1>2, <1>3, <2>1
  <2>. QED BY <2>2 DEF TicketTable
<1>5. TicketTable[k] # Tickets!None
  BY NoneIsNil
<1>6. \A j \in Keys \ {k} : RoundOf(j)' = RoundOf(j)
  BY <1>2 DEF RoundOf, Doubt
<1>7. CASE records[k].running
  <2>1. x.running /\ k \in doubted'
    BY <1>1, <1>7 DEF Record, Doubt
  <2>2. RoundOf(k)' = "doubted" /\ RoundOf(k) # "none"
    BY <1>2, <1>7, <2>1 DEF RoundOf
  <2>3. RoundTable' = [RoundTable EXCEPT ![k] = "doubted"] /\ RoundTable[k] # "none"
    BY <1>6, <2>2 DEF RoundTable
  <2>. QED BY <1>4, <1>5, <2>3 DEF Tickets!Withdrawn
<1>8. CASE ~records[k].running
  <2>1. k \notin doubted' /\ RoundOf(k) = "none"
    BY <1>8 DEF Doubt, EpochsFence, RoundOf
  <2>2. RoundTable[k] = "none"
    BY <2>1 DEF RoundTable
  <2>3. CASE x.running
    <3>1. Enqueues(k, r)
      BY <1>1, <1>8, <2>3
    <3>2. ~closed /\ plans[k] # NoPlan
      BY <3>1 DEF Enqueues, MayRun, Managed
    <3>3. RoundOf(k)' = "sound"
      BY <1>2, <2>1, <2>3 DEF RoundOf
    <3>4. RoundTable' = [RoundTable EXCEPT ![k] = "sound"]
      BY <1>6, <3>3 DEF RoundTable
    <3>. QED BY <1>4, <1>5, <2>2, <3>2, <3>4, SamePlans DEF Tickets!Withdrawn
  <2>4. CASE ~x.running
    <3>1. RoundOf(k)' = "none"
      BY <1>2, <2>4 DEF RoundOf
    <3>2. RoundTable' = RoundTable
      BY <1>6, <2>1, <3>1, RoundsSame
    <3>. QED BY <1>4, <1>5, <2>2, <3>2 DEF Tickets!Withdrawn
  <2>. QED BY <2>3, <2>4
<1>. QED BY <1>7, <1>8

\* A publication issues a ticket: its round is not doubted and its state fits.
LEMMA Issues ==
    ASSUME RefinementInv, TicketsQualified', NEW w \in WorkerIDs, Publish(w), Current(w)
    PROVE  Tickets!Next
<1>. DEFINE key == wk[w].job.key
<1>1. TypeOK /\ FenceInv /\ JobsTyped /\ TicketInv
  BY JobTypes DEF RefinementInv, TicketInv, FenceInv
<1>2. PICK k \in Keys : k = key
  BY <1>1 DEF Current, TypeOK
<1>3. PICK t : t = NewTicket(w)
  OBVIOUS
<1>4. /\ t.version = version + 1 /\ t.version # 0
      /\ version' = version + 1
      /\ records' = [records EXCEPT ![k].value = t, ![k].cooldown = 0]
  BY <1>1, <1>2, <1>3 DEF Publish, NewTicket, TypeOK
<1>5. records'[k].value = t /\ records'[k].running = records[k].running
  <2>1. records[k] \in Record /\ records'[k] = [records[k] EXCEPT !.value = t, !.cooldown = 0]
    BY <1>1, <1>4 DEF TypeOK
  <2>. QED BY <2>1 DEF Record
<1>6. \A j \in Keys \ {k} : records'[j] = records[j]
  BY <1>1, <1>4 DEF TypeOK
<1>7. t # NoTicket
  BY <1>4 DEF NoTicket
<1>8. ValidState(t.state, plans[k])
  <2>1. plans' = plans
    BY DEF Publish
  <2>2. ValidState(records'[k].value.state, plans'[k])
    BY <1>5, <1>7 DEF TicketsQualified
  <2>. QED BY <1>5, <2>1, <2>2
<1>9. records[k].running /\ k \notin doubted
  <2>1. Fenced(wk[w].job) /\ Busy(w)
    BY <1>1 DEF FenceInv, EpochsFence, Publish, Busy
  <2>2. records[k].epoch = wk[w].job.epoch
    BY <1>2 DEF Current
  <2>. QED BY <1>1, <1>2, <2>1, <2>2 DEF Fenced, JobsTyped
<1>10. RoundTable' = RoundTable /\ RoundTable[k] = "sound"
  <2>1. doubted' = doubted
    BY DEF Publish, history
  <2>2. \A j \in Keys : RoundOf(j)' = RoundOf(j)
    BY <1>5, <1>6, <2>1 DEF RoundOf
  <2>. QED BY <1>9, <2>2, RoundsSame DEF RoundOf, RoundTable
<1>11. TicketTable' = [TicketTable EXCEPT ![k] = [version |-> version + 1, state |-> t.state]]
  BY <1>4, <1>5, <1>6 DEF TicketTable, TicketOf
<1>12. t.state \in Tickets!StateClasses
  BY <1>8, SamePlans DEF ValidState, FamilyOf, StateClasses
<1>13. UNCHANGED <<plans, GivenTable, closed>> /\ ~closed
  <2>1. UNCHANGED <<plans, carried, closed>>
    BY DEF Publish, history, envVars
  <2>. QED BY <2>1, GivenKept DEF SameGiven, Current
<1>14. Tickets!Issue(k)
  BY <1>4, <1>8, <1>10, <1>11, <1>12, <1>13, SamePlans DEF Tickets!Issue
<1>. QED BY <1>14 DEF Tickets!Next

\* A worker's epilogue ends the round; it takes no ticket away.
LEMMA Ends ==
    ASSUME RefinementInv, NEW w \in WorkerIDs, Finish(w)
    PROVE  Tickets!Next
<1>1. TypeOK /\ JobsTyped /\ TicketInv
  BY JobTypes DEF RefinementInv, TicketInv, FenceInv
<1>2. PICK k \in Keys : k = wk[w].job.key /\ records[k].running
  <2>1. Busy(w)
    BY DEF Finish, Busy
  <2>2. wk[w].job.key \in Keys
    BY <2>1 DEF RefinementInv, BusyHasJob, Job
  <2>. QED BY <1>1, <2>1, <2>2 DEF JobsTyped
<1>3. \A j \in Keys : records[j] \in Record
  BY <1>1 DEF TypeOK
<1>4. /\ \A j \in Keys \ {k} : records'[j] = records[j]
      /\ records'[k].value = records[k].value /\ ~records'[k].running
  <2>1. CASE k \in recorded /\ k \in Managed
    <3>1. PICK c : records' = [records EXCEPT ![k].running = FALSE, ![k].cooldown = c]
      BY <1>2, <2>1 DEF Finish
    <3>2. records'[k] = [records[k] EXCEPT !.running = FALSE, !.cooldown = c]
      BY <1>1, <3>1 DEF TypeOK
    <3>. QED BY <1>1, <1>3, <3>1, <3>2 DEF TypeOK, Record
  <2>2. CASE ~(k \in recorded /\ k \in Managed)
    <3>1. records' = [records EXCEPT ![k] = FreshRecord]
      BY <1>2, <2>2 DEF Finish
    <3>2. records[k].value = NoTicket
      BY <1>1, <2>2 DEF TicketInv, TicketsQualified
    <3>. QED BY <1>1, <3>1, <3>2 DEF FreshRecord, TypeOK
  <2>. QED BY <2>1, <2>2
<1>5. UNCHANGED <<plans, version, carried, closed>> /\ doubted' = doubted \ {k}
  BY <1>2 DEF Finish, envVars
<1>6. RoundTable' = [RoundTable EXCEPT ![k] = "none"] /\ RoundTable[k] # "none"
  <2>1. \A j \in Keys : RoundOf(j)' = IF j = k THEN "none" ELSE RoundOf(j)
    BY <1>4, <1>5 DEF RoundOf
  <2>2. RoundOf(k) # "none"
    BY <1>2 DEF RoundOf
  <2>. QED BY <2>1, <2>2 DEF RoundTable
<1>7. TicketTable' = TicketTable /\ GivenTable' = GivenTable
  BY <1>4, <1>5, TicketsSame, GivenKept DEF SameTickets, SameGiven
<1>8. Tickets!End(k)
  BY <1>5, <1>6, <1>7 DEF Tickets!End
<1>. QED BY <1>8 DEF Tickets!Next

\* A worker's step is an abstract step or a stutter.
LEMMA WorkerStepImplements ==
    ASSUME RefinementInv, TicketsQualified', NEW w \in WorkerIDs, WorkerStep(w)
    PROVE  [Tickets!Next]_(Tickets!vars)
<1>1. CASE Publish(w) /\ Current(w)
  BY <1>1, Issues
<1>2. CASE Finish(w)
  BY <1>2, Ends
<1>3. CASE ~Finish(w) /\ ~(Publish(w) /\ Current(w))
  <2>1. UNCHANGED <<plans, records, version, closed, carried, doubted>>
    BY <1>3 DEF WorkerStep, WorkerExit, Take, ReadPlan, StartAttempt, Describe, ChooseProxy,
                StartProbe, ProbeRejected, ProbeFailed, Harvested, Redescribe, Verified,
                Recheck, Publish, keyVars, envVars, history
  <2>. QED BY <2>1, Stutters DEF SameGiven, SameTickets
<1>. QED BY <1>1, <1>2, <1>3

\* A snapshot of the directory replans the keys.
LEMMA Replans ==
    ASSUME TypeOK, EpochsFence, ~closed, NEW snapshot \in Snapshots, applyAccounts(snapshot),
           UNCHANGED <<version, closed, carried>>
    PROVE  Tickets!Next
<1>. DEFINE desired == [k \in Keys |-> IF snapshot[AuthOf(k)] \in Plans
                                       THEN snapshot[AuthOf(k)] ELSE NoPlan]
            changed == {k \in Keys : plans[k] # desired[k]}
            dropped == {k \in changed : desired[k] = NoPlan /\ Droppable(k)}
<1>1. \A k \in Keys : records[k] \in Record
  BY DEF TypeOK
<1>2. PICK new : new = desired
  OBVIOUS
<1>3. plans' = new /\ new \in [Keys -> Plans \cup {NoPlan}]
  BY <1>2 DEF applyAccounts
<1>4. doubted' = doubted \cup {k \in Keys : plans[k] # new[k] /\ records[k].running}
  BY <1>2 DEF applyAccounts
<1>5. ASSUME NEW k \in Keys
      PROVE  /\ TicketOf(records'[k].value)
                  = IF new[k] = plans[k] THEN TicketOf(records[k].value) ELSE Tickets!None
             /\ records'[k].running <=> records[k].running
  <2>1. TicketOf(NoTicket) = Tickets!None
    BY DEF TicketOf, NoTicket, Tickets!None
  <2>2. records'[k] = IF k \in dropped THEN FreshRecord
                      ELSE IF k \in changed
                           THEN [records[k] EXCEPT !.value = NoTicket, !.cooldown = 0,
                                                   !.epoch = epoch + 1]
                           ELSE records[k]
    BY DEF applyAccounts
  <2>3. CASE k \in dropped
    BY <1>2, <2>1, <2>2, <2>3 DEF Droppable, FreshRecord
  <2>4. CASE k \in changed /\ k \notin dropped
    <3>1. records'[k] = [records[k] EXCEPT !.value = NoTicket, !.cooldown = 0,
                                           !.epoch = epoch + 1]
      BY <2>2, <2>4
    <3>2. records'[k].value = NoTicket /\ records'[k].running = records[k].running
      BY <1>1, <3>1 DEF Record
    <3>. QED BY <1>2, <2>1, <2>4, <3>2
  <2>5. CASE k \notin changed
    BY <1>2, <2>2, <2>5
  <2>. QED BY <2>3, <2>4, <2>5
<1>. HIDE DEF desired, changed, dropped
<1>6. TicketTable' = [k \in Keys |-> IF new[k] = plans[k] THEN TicketTable[k] ELSE Tickets!None]
  BY <1>5 DEF TicketTable
<1>7. RoundTable' = [k \in Keys |-> IF new[k] = plans[k] \/ RoundTable[k] = "none"
                                    THEN RoundTable[k] ELSE "doubted"]
  <2>1. ASSUME NEW k \in Keys
        PROVE  RoundOf(k)' = IF new[k] = plans[k] \/ RoundOf(k) = "none"
                             THEN RoundOf(k) ELSE "doubted"
    BY <1>4, <1>5 DEF RoundOf
  <2>. QED BY <2>1 DEF RoundTable
<1>8. GivenTable' = GivenTable
  BY GivenKept DEF SameGiven
<1>9. Tickets!Replan
  BY <1>3, <1>6, <1>7, <1>8, SamePlans DEF Tickets!Replan
<1>. QED BY <1>9 DEF Tickets!Next

\* A step of the scheduler is an abstract step or a stutter.
LEMMA SchedulerStepImplements ==
    ASSUME RefinementInv, SchedulerStep
    PROVE  [Tickets!Next]_(Tickets!vars)
<1>1. TypeOK /\ EpochsFence /\ \A k \in Keys : records[k] \in Record
  BY DEF RefinementInv, TicketInv, FenceInv, TypeOK
<1>2. ASSUME NEW snapshot \in Snapshots, DiscoveryApplied(snapshot), ~closed
      PROVE  Tickets!Next
  BY <1>1, <1>2, Replans DEF DiscoveryApplied, envVars, roundVars
<1>3. CASE Scan
  <2>1. UNCHANGED <<plans, version, closed, carried, doubted>>
    BY <1>3 DEF Scan, envVars, roundVars, history
  <2>2. \A k \in Keys :
           \/ records'[k] = records[k]
           \/ k \in DueKeys /\ records'[k] = [records[k] EXCEPT !.running = TRUE]
    <3>1. CASE DueKeys = {}
      BY <1>3, <3>1 DEF Scan
    <3>2. CASE DueKeys # {}
      <4>1. PICK pick \in Picks(PickCount) :
               records' = [k \in Keys |-> IF Marked(pick, k)
                                          THEN [records[k] EXCEPT !.running = TRUE]
                                          ELSE records[k]]
        BY <1>3, <3>2 DEF Scan
      <4>2. \A k \in Keys : Marked(pick, k) => k \in DueKeys
        BY DEF Marked, Picks
      <4>. QED BY <4>1, <4>2
    <3>. QED BY <3>1, <3>2
  <2>3. \A k \in Keys :
           /\ records'[k].value = records[k].value
           /\ records[k].running => records'[k].running
           /\ records'[k].running => records[k].running \/ k \in DueKeys
    BY <1>1, <2>2 DEF Record
  <2>4. \A k \in DueKeys : ~closed /\ k \in Managed
    BY DEF DueKeys, Due, MayRun
  <2>. QED BY <1>1, <2>1, <2>3, <2>4, Begins DEF SameTickets, SameGiven
<1>4. ASSUME UNCHANGED <<plans, records, version, closed, carried, doubted>>
      PROVE  UNCHANGED Tickets!vars
  BY <1>4, Stutters DEF SameGiven, SameTickets
<1>. QED BY <1>2, <1>3, <1>4
         DEF SchedulerStep, SchedulerExit, BeginSchedule, DiscoveryFailed, DiscoveryApplied,
             keyVars, envVars, roundVars, history

\* Several ways of Bind without a ticket change nothing but the attempts.
LEMMA BindStutters ==
    ASSUME TypeOK, UNCHANGED <<plans, records, version, closed, doubted>>, NEW q \in RequestIDs,
           carried' = carried \/ WithoutTicket(q)
    PROVE  UNCHANGED Tickets!vars
<1>1. SameGiven
  BY DEF SameGiven, WithoutTicket, TypeOK
<1>. QED BY <1>1, Stutters DEF SameTickets

\* Bind without a usable ticket: a round begins, or the stale ticket is withdrawn.
LEMMA Misses ==
    ASSUME RefinementInv, NEW q \in RequestIDs, BindMiss(q), UNCHANGED <<version, closed>>
    PROVE  [Tickets!Next]_(Tickets!vars)
<1>1. TypeOK /\ EpochsFence /\ Versioned
  BY DEF RefinementInv, TicketInv, FenceInv
<1>2. PICK k \in Keys : k = binds[q].key
  BY <1>1 DEF BindMiss, Serves, TypeOK
<1>3. SameGiven /\ plans' = plans
  BY <1>1 DEF BindMiss, SameGiven, WithoutTicket, TypeOK
<1>4. CASE records[k].value = NoTicket
  <2>1. enqueueLocked(k, records[k]) /\ doubted' = doubted
    BY <1>2, <1>4 DEF BindMiss
  <2>. QED BY <1>1, <1>3, <2>1, EnqueueBegins
<1>5. CASE records[k].value # NoTicket
  <2>1. enqueueLocked(k, Revoked(records[k])) /\ Doubt(k)
    BY <1>2, <1>5 DEF BindMiss
  <2>2. records[k] \in Record /\ Revoked(records[k]) \in Record
    BY <1>1, RevokedType DEF TypeOK
  <2>3. /\ Revoked(records[k]).value = NoTicket
        /\ Revoked(records[k]).running <=> records[k].running
    BY <2>2 DEF Revoked, Record
  <2>4. Tickets!Withdrawn(k)
    BY <1>1, <1>3, <1>5, <2>1, <2>2, <2>3, Withdraws
  <2>5. Tickets!Withdraw(k)
    BY <1>3, <2>4, GivenKept DEF Tickets!Withdraw
  <2>. QED BY <2>5 DEF Tickets!Next
<1>. QED BY <1>4, <1>5

\* Bind injects: the request is given its key's ticket.
LEMMA Gives ==
    ASSUME RefinementInv, NEW q \in RequestIDs, BindHit(q), UNCHANGED <<version, closed>>
    PROVE  Tickets!Next
<1>1. TypeOK /\ Versioned
  BY DEF RefinementInv, TicketInv
<1>2. PICK k \in Keys : k = binds[q].key
  BY <1>1 DEF BindHit, Serves, TypeOK
<1>3. ~closed /\ records[k].value # NoTicket /\ UNCHANGED <<plans, records, doubted>>
  BY <1>2 DEF BindHit, Serves, keyVars
<1>4. PICK v : v = records[k].value.version /\ v # 0
  BY <1>1, <1>3 DEF Versioned
<1>5. carried' = [carried EXCEPT ![q] = @ \cup {v}]
  BY <1>2, <1>4 DEF BindHit
<1>6. GivenTable' = [GivenTable EXCEPT ![q] = @ \cup {v}]
  <2>1. \A p \in RequestIDs : carried'[p] = IF p = q THEN carried[q] \cup {v} ELSE carried[p]
    BY <1>1, <1>5 DEF TypeOK
  <2>2. \A p \in RequestIDs : carried'[p] \ {0} = IF p = q THEN (carried[q] \ {0}) \cup {v}
                                                  ELSE carried[p] \ {0}
    BY <1>4, <2>1
  <2>. QED BY <2>2 DEF GivenTable
<1>7. TicketTable[k] # Tickets!None /\ TicketTable[k].version = v
  BY <1>1, <1>3, <1>4, NoneIsNil DEF TicketTable, TicketOf
<1>8. TicketTable' = TicketTable /\ RoundTable' = RoundTable
  BY <1>3 DEF TicketTable, RoundTable, RoundOf
<1>9. Tickets!Give(q, k)
  BY <1>3, <1>6, <1>7, <1>8 DEF Tickets!Give
<1>. QED BY <1>9 DEF Tickets!Next

\* A refuting answer withdraws the ticket, if it was not gone already.
LEMMA Refutes ==
    ASSUME RefinementInv, NEW q \in RequestIDs, NEW v, requests[q] # NoObservation,
           invalidateLocked(q, v), UNCHANGED <<plans, version, closed>>
    PROVE  UNCHANGED <<TicketTable, RoundTable>> \/ \E k \in Keys : Tickets!Withdrawn(k)
<1>1. TypeOK /\ EpochsFence /\ Versioned
  BY DEF RefinementInv, TicketInv, FenceInv
<1>2. PICK k \in Keys : k = requests[q].key
  BY <1>1 DEF TypeOK, Observation
<1>3. CASE Refutable(q)
  <2>. DEFINE r == [Revoked(records[k]) EXCEPT !.cooldown = 0]
  <2>1. records[k].value # NoTicket
    BY <1>2, <1>3 DEF Refutable
  <2>2. records[k] \in Record /\ r \in Record
    BY <1>1, RevokedType DEF TypeOK
  <2>3. r.value = NoTicket /\ (r.running <=> records[k].running)
    BY <2>2 DEF Revoked, Record
  <2>4. enqueueLocked(k, r) /\ Doubt(k)
    BY <1>2, <1>3 DEF invalidateLocked
  <2>. HIDE DEF r
  <2>. QED BY <1>1, <2>1, <2>2, <2>3, <2>4, Withdraws
<1>4. CASE ~Refutable(q)
  BY <1>4 DEF invalidateLocked, TicketTable, RoundTable, RoundOf
<1>. QED BY <1>3, <1>4

\* A step of the request path is an abstract step or a stutter.
LEMMA RequestStepImplements ==
    ASSUME RefinementInv, NEW q \in RequestIDs, RequestStep(q)
    PROVE  [Tickets!Next]_(Tickets!vars)
<1>1. TypeOK
  BY DEF RefinementInv, TicketInv
<1>2. UNCHANGED <<plans, version, closed>>
  BY DEF RequestStep, BindIneligible, BindStart, BindDescribe, BindDecide, BindRefused,
         BindMiss, BindHit, BindDeclined, Headers, ModelMismatch, Complete, roundVars, keyVars,
         envVars
<1>3. CASE BindDecide(q)
  <2>1. CASE BindMiss(q)
    BY <1>2, <2>1, Misses
  <2>2. CASE BindHit(q)
    BY <1>2, <2>2, Gives
  <2>3. ASSUME BindRefused(q) \/ \E callerState \in BOOLEAN : BindDeclined(q, callerState)
        PROVE  UNCHANGED Tickets!vars
    BY <1>1, <1>2, <2>3, BindStutters DEF BindRefused, BindDeclined, keyVars
  <2>. QED BY <1>3, <2>1, <2>2, <2>3 DEF BindDecide
<1>4. ASSUME BindDescribe(q) \/ \E k \in Keys : BindIneligible(q, k) \/ BindStart(q, k)
      PROVE  UNCHANGED Tickets!vars
  BY <1>1, <1>2, <1>4, BindStutters
     DEF BindIneligible, BindStart, BindDescribe, keyVars, history
<1>5. ASSUME NEW v \in carried[q], Headers(q, v) \/ ModelMismatch(q, v)
      PROVE  [Tickets!Next]_(Tickets!vars)
  <2>1. requests[q] # NoObservation /\ invalidateLocked(q, v)
    BY <1>5 DEF Headers, ModelMismatch, Tracked, NoObservation
  <2>2. (UNCHANGED TicketTable /\ UNCHANGED RoundTable) \/ \E k \in Keys : Tickets!Withdrawn(k)
    BY <1>2, <2>1, Refutes
  <2>3. GivenTable' = GivenTable
    BY <1>5, GivenKept DEF Headers, ModelMismatch, SameGiven
  <2>4. CASE \E k \in Keys : Tickets!Withdrawn(k)
    BY <1>2, <2>3, <2>4 DEF Tickets!Withdraw, Tickets!Next
  <2>5. CASE UNCHANGED TicketTable /\ UNCHANGED RoundTable
    BY <1>2, <2>3, <2>5 DEF Tickets!vars
  <2>. QED BY <2>2, <2>4, <2>5
<1>6. ASSUME NEW mismatch \in BOOLEAN, Complete(q, mismatch) PROVE Tickets!Next
  <2>1. GivenTable' = [GivenTable EXCEPT ![q] = {}]
    BY <1>1, <1>6 DEF Complete, GivenTable, TypeOK
  <2>2. UNCHANGED <<TicketTable, RoundTable>> \/ \E k \in Keys : Tickets!Withdrawn(k)
    <3>1. CASE UNCHANGED <<records, doubted>>
      BY <3>1 DEF TicketTable, RoundTable, RoundOf
    <3>2. ASSUME NEW v, invalidateLocked(q, v), requests[q].observing
          PROVE  UNCHANGED <<TicketTable, RoundTable>> \/ \E k \in Keys : Tickets!Withdrawn(k)
      BY <1>2, <3>2, Refutes DEF NoObservation
    <3>. QED BY <1>6, <3>1, <3>2 DEF Complete
  <2>3. Tickets!Complete(q)
    BY <1>2, <2>1, <2>2 DEF Tickets!Complete
  <2>. QED BY <2>3 DEF Tickets!Next
<1>. QED BY <1>3, <1>4, <1>5, <1>6 DEF RequestStep

\* A step of the environment is an abstract step or a stutter.
LEMMA EnvironmentImplements ==
    ASSUME Environment
    PROVE  [Tickets!Next]_(Tickets!vars)
<1>1. UNCHANGED <<plans, records, version, carried, doubted>>
  BY DEF Environment, Close, Tick, IdentityChange, keyVars, roundVars, history
<1>2. TicketTable' = TicketTable /\ RoundTable' = RoundTable /\ GivenTable' = GivenTable
  BY <1>1 DEF TicketTable, RoundTable, RoundOf, GivenTable
<1>3. CASE Close
  BY <1>1, <1>2, <1>3 DEF Close, Tickets!Close, Tickets!Next
<1>4. CASE closed' = closed
  BY <1>1, <1>2, <1>4 DEF Tickets!vars
<1>. QED BY <1>3, <1>4 DEF Environment, Tick, IdentityChange

-----------------------------------------------------------------------------
(* The invariant and the theorem *)

\* Only Publish gives a record a ticket, and it counts versions up from 1.
LEMMA VersionedNext == TypeOK /\ Versioned /\ ValuesKept => Versioned'
BY DEF Versioned, ValuesKept

\* Versions start at 1.
LEMMA PublishVersioned ==
    ASSUME TypeOK, Versioned, NEW w \in WorkerIDs, Publish(w)
    PROVE  Versioned'
<1>1. CASE ~Current(w)
  BY <1>1 DEF Publish, Versioned
<1>2. CASE Current(w)
  <2>1. PICK t : t = NewTicket(w)
    OBVIOUS
  <2>2. t.version # 0
    BY <2>1 DEF NewTicket, TypeOK
  <2>3. records' = [records EXCEPT ![wk[w].job.key].value = t, ![wk[w].job.key].cooldown = 0]
    BY <1>2, <2>1 DEF Publish
  <2>4. ASSUME NEW k \in Keys PROVE records'[k].value \in {records[k].value, t}
    <3>1. records[k] \in Record
      BY DEF TypeOK
    <3>2. \/ records'[k] = records[k]
          \/ records'[k] = [records[k] EXCEPT !.value = t, !.cooldown = 0]
      BY <2>3 DEF TypeOK
    <3>. QED BY <3>1, <3>2 DEF Record
  <2>. QED BY <2>2, <2>4 DEF Versioned
<1>. QED BY <1>1, <1>2

\* A worker takes its job from the queue and keeps it to the end of the round.
LEMMA BusyNext ==
    ASSUME TypeOK, BusyHasJob, NEW w \in WorkerIDs, WorkerStep(w)
    PROVE  BusyHasJob'
<1>1. CASE Take(w)
  <2>1. queue \in Seq(Job) /\ Head(queue) \in Job
    BY <1>1 DEF Take, TypeOK, JobQueue
  <2>2. PICK x : wk' = [wk EXCEPT ![w] = x] /\ x.job \in Job
    <3>. DEFINE y == [IdleWorker EXCEPT !.pc = "plan", !.job = Head(queue)]
    <3>1. y.job = Head(queue)
      BY DEF IdleWorker
    <3>2. wk' = [wk EXCEPT ![w] = y]
      BY <1>1 DEF Take, Becomes
    <3>. QED BY <2>1, <3>1, <3>2
  <2>3. \A v \in WorkerIDs : wk'[v] = wk[v] \/ wk'[v].job \in Job
    BY <2>2 DEF TypeOK
  <2>. QED BY <2>3 DEF BusyHasJob, Busy
<1>2. CASE Finish(w) \/ WorkerExit(w)
  <2>1. PICK x : wk' = [wk EXCEPT ![w] = x] /\ x.pc \in {"idle", "exited"}
    BY <1>2 DEF Finish, WorkerExit, Becomes, Goto, IdleWorker, TypeOK, WorkerState
  <2>2. \A v \in WorkerIDs : wk'[v] = wk[v] \/ wk'[v].pc \in {"idle", "exited"}
    BY <2>1 DEF TypeOK
  <2>. QED BY <2>2 DEF BusyHasJob, Busy
<1>3. CASE ~Take(w) /\ ~Finish(w) /\ ~WorkerExit(w)
  <2>1. Busy(w) /\ JobStays(w)
    BY <1>3, RoundGoesOn
  <2>. QED BY <2>1 DEF JobStays, BusyHasJob, Busy
<1>. QED BY <1>1, <1>2, <1>3

\* The invariant holds at first.
LEMMA RefinementInvInit == Init => RefinementInv
<1>1. Init => Versioned /\ BusyHasJob
  BY DEF Init, Versioned, BusyHasJob, Busy, FreshRecord, IdleWorker
<1>. QED BY <1>1, FenceInvInit, TicketInvInit DEF RefinementInv

\* Every step keeps the invariant.
LEMMA RefinementInvNext == RefinementInv /\ [Next]_vars => RefinementInv'
<1>. SUFFICES ASSUME RefinementInv, [Next]_vars PROVE RefinementInv'
  OBVIOUS
<1>1. FenceInv' /\ TicketInv'
  BY FenceInvNext, TicketInvNext DEF RefinementInv
<1>2. TypeOK /\ JobsInv /\ Versioned /\ BusyHasJob
  BY DEF RefinementInv, TicketInv, FenceInv
<1>3. Versioned'
  <2>1. CASE UNCHANGED vars \/ Environment
    BY <1>2, <2>1 DEF Versioned, vars, keyVars, Environment, Close, Tick, IdentityChange
  <2>2. ASSUME NEW w \in WorkerIDs, WorkerStep(w) PROVE Versioned'
    BY <1>2, <2>2, PublishVersioned, WorkerKeepsValues, VersionedNext
  <2>. QED BY <1>2, <2>1, <2>2, SchedulerKeepsValues, RequestKeepsValues, VersionedNext DEF Next
<1>4. BusyHasJob'
  <2>1. CASE wk' = wk
    BY <1>2, <2>1 DEF BusyHasJob, Busy
  <2>2. (\A w \in WorkerIDs : ~WorkerStep(w)) => wk' = wk
    BY OthersKeepWorkers DEF roundVars
  <2>. QED BY <1>2, <2>1, <2>2, BusyNext
<1>. QED BY <1>1, <1>3, <1>4 DEF RefinementInv

\* The initial states of the engine show initial states of VerifiedTickets.
LEMMA InitImplements == Init => Tickets!Init
<1>. SUFFICES ASSUME Init PROVE Tickets!Init
  OBVIOUS
<1>1. plans \in [Keys -> Plans \cup {NoPlan}]
  BY EngineAssumption DEF Init
<1>2. /\ TicketTable = [k \in Keys |-> Tickets!None]
      /\ RoundTable = [k \in Keys |-> "none"]
      /\ GivenTable = [q \in RequestIDs |-> {}]
  BY DEF Init, TicketTable, TicketOf, RoundTable, RoundOf, GivenTable, FreshRecord, NoTicket,
         Tickets!None
<1>. QED BY <1>1, <1>2, SamePlans DEF Init, Tickets!Init

\* Every step of the engine is an abstract step or a stutter.
LEMMA NextImplements ==
    RefinementInv /\ RefinementInv' /\ [Next]_vars => [Tickets!Next]_(Tickets!vars)
<1>. SUFFICES ASSUME RefinementInv, RefinementInv', [Next]_vars
              PROVE  [Tickets!Next]_(Tickets!vars)
  OBVIOUS
<1>1. TicketsQualified'
  BY DEF RefinementInv, TicketInv
<1>2. CASE UNCHANGED vars
  BY <1>2, Stutters
     DEF vars, keyVars, envVars, roundVars, history, SameGiven, SameTickets
<1>. QED BY <1>1, <1>2, WorkerStepImplements, SchedulerStepImplements, RequestStepImplements,
            EnvironmentImplements DEF Next

\* The engine implements VerifiedTickets, for any accounts, models, workers,
\* requests, proxies and bounds, and whatever the host and the upstream do: what
\* engine.go and discovery.go add to the abstract promise (queue, epochs, probes,
\* observation table, discovery, budget) never lets a step out of it.
THEOREM Implements == Spec => ImplementsVerifiedTickets
<1>. QED BY RefinementInvInit, RefinementInvNext, InitImplements, NextImplements, PTL
         DEF Spec, ImplementsVerifiedTickets, Tickets!Spec
=============================================================================
