------------------------ MODULE PrewarmRequirements -------------------------
(***************************************************************************)
(* What the prewarm engine promises, stated over PrewarmEngine.            *)
(***************************************************************************)
EXTENDS PrewarmEngine

\* The value of every variable has its type.
TypeOK ==
    /\ now \in Nat /\ closed \in BOOLEAN
    /\ ident \in [AuthIDs -> Scopes \cup {NoScope}]
    /\ plans \in [Keys -> Plans \cup {NoPlan}]
    /\ recorded \subseteq Keys /\ records \in [Keys -> Record]
    /\ epoch \in Nat /\ version \in Nat
    /\ queue \in JobQueue
    /\ wk \in [WorkerIDs -> WorkerState]
    /\ pool \in Pool /\ stamps \in Seq(Nat)
    /\ sched \in {"idle", "discover", "scan", "exited"}
    /\ nextDiscovery \in Nat /\ discovered \in BOOLEAN
    /\ owned \subseteq Keys /\ ownsAllModels \in BOOLEAN
    /\ requests \in [RequestIDs -> Observation]
    /\ binds \in [RequestIDs -> BindCall]
    /\ done \subseteq RequestIDs
    /\ carried \in [RequestIDs -> SUBSET Nat]
    /\ blamed \subseteq Nat \X Nat
    /\ doubted \subseteq Keys

-----------------------------------------------------------------------------
(* Jobs *)

Busy(w) == wk[w].pc \notin {"idle", "exited"}

Working(w, k) == Busy(w) /\ wk[w].job.key = k

Queued(i, k) == i \in 1..Len(queue) /\ queue[i].key = k

\* Every recorded key has a plan or a round that is still running, and every
\* key with a plan has a record.
RecordsMatchPlans ==
    /\ Managed \subseteq recorded
    /\ \A k \in recorded \ Managed : records[k].running
    /\ \A k \in Keys \ recorded : records[k] = FreshRecord

\* No key has two jobs, wherever they are.
OneJobPerKey ==
    \A k \in Keys :
        /\ \A i, j \in 1..Len(queue) : Queued(i, k) /\ Queued(j, k) => i = j
        /\ \A v, w \in WorkerIDs : Working(v, k) /\ Working(w, k) => v = w
        /\ \A w \in WorkerIDs, i \in 1..Len(queue) : ~(Working(w, k) /\ Queued(i, k))

\* The running flag of a record is on exactly while a job of its key is queued
\* or in a worker's hands: a flag that stays on starves the key for ever, and
\* one that is off too early lets two rounds of one key spend the budget and
\* overwrite each other.  (engine.go, enqueueLocked and worker; discovery.go
\* keeps the record of a withdrawn key alive for its worker.)
JobsAccounted ==
    /\ RecordsMatchPlans
    /\ OneJobPerKey
    /\ \A k \in Keys :
          records[k].running <=> \/ \E i \in 1..Len(queue) : Queued(i, k)
                                 \/ \E w \in WorkerIDs : Working(w, k)

-----------------------------------------------------------------------------
(* Tickets *)

\* A published ticket was harvested and verified under one and the same account
\* identity, the one it is bound to; its state has the length family of the plan
\* the key has now, and that identity's plan agrees with it, whatever identity
\* and discovery changes raced with its round (engine.go, collect; discovery.go,
\* applyAccounts).
TicketsQualified ==
    \A k \in Keys :
        LET t == records[k].value
        IN  t # NoTicket =>
               /\ k \in Managed /\ k \in recorded
               /\ ValidState(t.state, plans[k])
               /\ t.scope # NoScope
               /\ identityPlanMatches(t.scope, plans[k])
               /\ t.harvestedAs = t.scope /\ t.verifiedAs = t.scope

\* A round that was queued or running when its key's ticket was revoked, or when
\* the key's plan changed, never publishes: only a round started afterwards does
\* (the epoch of a job; engine.go, collect and invalidateLocked).
PublishesFresh ==
    [][\A k \in Keys :
          records'[k].value \notin {records[k].value, NoTicket} => k \notin doubted]_vars

\* A late response of an attempt that carried an older ticket never revokes a
\* newer one, for request IDs younger than PendingTTL (engine.go, the tombstones
\* of Bind and the version test of invalidateLocked).
NoLateBlame == \A b \in blamed : b[2] \in {0, b[1]}

\* The comment on rebinding in Bind taken at its word: once an active request ID
\* is bound again its watchdog is suppressed, so that a response revokes only the
\* ticket its own attempt carried.
BlameOwnTicket == \A b \in blamed : b[1] = b[2]

\* The version of a revoked ticket is never injected again.
RevokedStaysOut ==
    [][\A q \in RequestIDs :
          requests'[q] # NoObservation /\ requests'[q].version # requests[q].version
             => \A b \in blamed : b[1] # requests'[q].version]_vars

\* Once Close has returned from its critical section no ticket is published or
\* injected, no probe is admitted and no job is enqueued (engine.go, Close).
ClosedIsFinal ==
    [][closed =>
          /\ version' = version
          /\ stamps' = stamps
          /\ Len(queue') <= Len(queue)
          /\ \A q \in RequestIDs : carried'[q] \subseteq carried[q] \cup {0}]_vars

-----------------------------------------------------------------------------
(* Shared tables *)

\* The preferred proxy is never one that is backing off, although every worker
\* marks it and other rounds may still be using it (engine.go, markProxy).
GoodProxyUsable ==
    pool.good # NoProxy => pool.failures[pool.good] = 0 /\ pool.cooldown[pool.good] = 0

\* The observation table stays within max_pending, tombstones included.
RequestsBounded == Cardinality(Tracked) <= MaxPending

\* A key once served from verified tickets only is never handed back to passive
\* captures by a later discovery snapshot (engine.go, the comment in Manages).
ManagedForGood ==
    [][\A k \in Keys : discovered /\ Manages(k) => Manages(k)']_vars

-----------------------------------------------------------------------------
(* Liveness *)

\* A round ends, unless the engine closes first and leaves its job in the queue.
RoundsEnd == \A k \in Keys : records[k].running ~> (~records[k].running \/ closed)

\* The key should have a round: it is served, is neither running nor cooling
\* down, and has no ticket or one about to expire.
WantsRound(k) ==
    /\ ~closed /\ k \in Managed
    /\ ~records[k].running /\ records[k].cooldown <= now
    /\ \/ records[k].value = NoTicket
       \/ records[k].value.expires <= now + RefreshBefore

\* A key does not want a round for ever, also when jobs of withdrawn accounts
\* fill the queue: a later schedule enqueues it, or its reason goes away
\* (engine.go, schedule and the default branch of enqueueLocked).
DueKeysServed == \A k \in Keys : WantsRound(k) ~> ~WantsRound(k)

\* Close comes back from waiting: every goroutine it started exits.
CloseCompletes ==
    closed ~> (sched = "exited" /\ \A w \in WorkerIDs : wk[w].pc = "exited")
=============================================================================
