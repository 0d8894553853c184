--------------------------- MODULE PrewarmEngine ----------------------------
(***************************************************************************)
(* The prewarm engine (internal/prewarm/engine.go and discovery.go): a     *)
(* pool of workers acquires a turn-state through a harvest proxy, verifies *)
(* it on the account's own route and publishes it as a ticket; the request *)
(* path injects tickets and revokes one when a response refutes it; a      *)
(* scheduler enqueues due keys and, in automatic mode, refreshes the set   *)
(* of accounts.                                                            *)
(*                                                                         *)
(* One action is one critical section of Engine.mu, one read of the        *)
(* account identity, or one end of a probe; everything else a goroutine    *)
(* does between two of these is local.  The account identities, the        *)
(* upstream and the business traffic belong to the host and change freely. *)
(***************************************************************************)
EXTENDS PlanFamilies, ProxyPool, ProbeBudget, FiniteSets

CONSTANTS
    AuthIDs, Models,        \* accounts and configured models; a key is a pair
    RequestIDs,             \* business request IDs
    WorkerIDs,              \* workers
    Scopes,                 \* identity hashes of one account (the auth ID is part of the hash)
    PlanOf,                 \* the raw plan each identity reports
    AutoAccounts,           \* Config.AutoAccounts()
    ExplicitPlans,          \* key -> configured plan when accounts are explicit
    HasSelectors,           \* automatic mode with a non-empty account list ...
    SelectorIDs,            \* ... and the auth IDs that list names
    MaxAccounts, MaxOwned,  \* maxAccounts; maxAccounts*maxModels
    MaxAttempts,            \* max_attempts
    MaxPending,             \* max_pending
    TTL, RefreshBefore,     \* ttl_seconds, refresh_before_seconds
    PendingTTL,             \* two hours
    DiscoveryInterval, DiscoveryRetry,
    MaxTime                 \* bound: the clock stops here

Keys == AuthIDs \X Models

AuthOf(k) == k[1]

NoKey == <<"", "">>
NoScope == ""    \* a failed description: error or empty scope

ASSUME EngineAssumption ==
    /\ AuthIDs # {} /\ Models # {} /\ NoKey \notin Keys
    /\ IsFiniteSet(AuthIDs) /\ IsFiniteSet(Models)
    /\ NoScope \notin Scopes
    /\ PlanOf \in [Scopes -> RawPlans]
    /\ AutoAccounts \in BOOLEAN /\ HasSelectors \in BOOLEAN
    /\ ExplicitPlans \in [Keys -> Plans \cup {NoPlan}]
    /\ AutoAccounts => ExplicitPlans = [k \in Keys |-> NoPlan]
    /\ SelectorIDs \subseteq AuthIDs
    /\ HasSelectors \/ SelectorIDs = {}
    /\ MaxAccounts \in Nat \ {0} /\ MaxOwned \in Nat \ {0}
    /\ MaxAttempts \in Nat \ {0} /\ MaxPending \in Nat \ {0}
    /\ TTL \in Nat /\ RefreshBefore \in Nat \ {0} /\ RefreshBefore < TTL
    /\ PendingTTL \in Nat \ {0}
    /\ DiscoveryInterval \in Nat \ {0} /\ DiscoveryRetry \in Nat \ {0}
    /\ MaxTime \in Nat

VARIABLES
    now, closed,            \* the clock; Close was called (closed and ctx.Done())
    ident,                  \* the identity the host would describe, per account
    plans,                  \* Engine.plans, NoPlan where the map has no entry
    recorded, records,      \* Engine.records: its domain and its values
    epoch, version,         \* Engine.epoch, Engine.version
    queue,                  \* Engine.queue
    wk,                     \* the workers
    pool, stamps,           \* the proxy pool; the probe budget
    sched,                  \* the scheduler goroutine
    nextDiscovery, discovered, owned, ownsAllModels,
    requests,               \* Engine.requests, NoObservation where absent
    binds,                  \* the Bind call in flight, per request ID
    done,                   \* request IDs whose execution completed
    \* History, read by properties only:
    carried,                \* ticket versions the attempts of a request carry, 0 for none
    blamed,                 \* <<revoked version, version the refuting attempt carried>>
    doubted                 \* keys that lost a ticket or changed plan during their running round

envVars   == <<now, closed, ident>>
keyVars   == <<plans, recorded, records, epoch, queue>>
roundVars == <<wk, pool, stamps, version>>
schedVars == <<sched, nextDiscovery, discovered, owned, ownsAllModels>>
reqVars   == <<requests, binds, done>>
history   == <<carried, blamed, doubted>>
vars == <<envVars, keyVars, roundVars, schedVars, reqVars, history>>

-----------------------------------------------------------------------------
(* Data *)

\* A ticket with the identities its harvest and its verification ran under
\* (the last two fields are history).  Version 0 stands for a nil ticket.
Ticket == [version : Nat, state : StateClasses, scope : Scopes \cup {NoScope},
           expires : Nat,
           harvestedAs : Scopes \cup {NoScope}, verifiedAs : Scopes \cup {NoScope}]

NoTicket == [version |-> 0, state |-> "none", scope |-> NoScope, expires |-> 0,
             harvestedAs |-> NoScope, verifiedAs |-> NoScope]

Record == [value : Ticket, epoch : Nat, running : BOOLEAN, cooldown : Nat]

FreshRecord == [value |-> NoTicket, epoch |-> 0, running |-> FALSE, cooldown |-> 0]

Job == [key : Keys, epoch : Nat]

NoJob == [key |-> NoKey, epoch |-> 0]

\* An entry of Engine.requests.  It observes the response until the request ID
\* is bound again; then it is a tombstone.
NoObservation == [key |-> NoKey, version |-> 0, observing |-> FALSE, created |-> 0]

Observation == [key : Keys, version : Nat, observing : BOOLEAN, created : Nat]
                 \cup {NoObservation}

WorkerPCs == {"idle", "plan", "attempt", "describe", "choose", "reserve", "harvest",
              "redescribe", "reverify", "verify", "recheck", "publish", "finish", "exited"}

WorkerState == [pc : WorkerPCs, job : Job \cup {NoJob}, plan : Plans \cup {NoPlan},
                attempt : Nat, scope : Scopes \cup {NoScope},
                proxy : Proxies \cup {NoProxy}, captured : Nat, state : StateClasses,
                ready : BOOLEAN,
                harvestedAs : Scopes \cup {NoScope}, verifiedAs : Scopes \cup {NoScope}]

IdleWorker == [pc |-> "idle", job |-> NoJob, plan |-> NoPlan, attempt |-> 0,
               scope |-> NoScope, proxy |-> NoProxy, captured |-> 0, state |-> "none",
               ready |-> FALSE, harvestedAs |-> NoScope, verifiedAs |-> NoScope]

NoBind == [pc |-> "none", key |-> NoKey, scope |-> NoScope]

BindCall == [pc : {"describe", "decide"}, key : Keys, scope : Scopes \cup {NoScope}]
              \cup {NoBind}

-----------------------------------------------------------------------------
(* Shared helpers *)

Managed == {k \in Keys : plans[k] # NoPlan}

\* Whether the interceptor must serve k from verified tickets only.
Manages(k) ==
    IF AutoAccounts
    THEN \/ ~HasSelectors
         \/ AuthOf(k) \in SelectorIDs
         \/ ~discovered \/ ownsAllModels
         \/ k \in owned
         \/ k \in Managed
    ELSE k \in Managed

identityPlanMatches(scope, expected) ==
    IF AutoAccounts
    THEN CanonicalPlan(PlanOf[scope]) = expected
    ELSE PlanMatches(PlanOf[scope], expected)

QueueCapacity ==
    IF AutoAccounts
    THEN MaxAccounts * Cardinality(Models)
    ELSE Cardinality({k \in Keys : ExplicitPlans[k] # NoPlan})

\* What the channel of jobs can hold.
JobQueue == {s \in Seq(Job) : Len(s) <= QueueCapacity}

\* bumpEpochLocked: the epoch a record gets, and the engine's own.
BumpedEpoch(r) == (IF epoch < r.epoch THEN r.epoch ELSE epoch) + 1

\* Mutants: the epoch stays, so that a running round may still publish; the
\* value stays, so that the ticket may still be injected.
RevokedSameEpoch(r) == [r EXCEPT !.value = NoTicket]
RevokedKeepsValue(r) == [r EXCEPT !.epoch = BumpedEpoch(r)]

Revoked(r) == [r EXCEPT !.value = NoTicket, !.epoch = BumpedEpoch(r)]

\* A round may start for k, whose record is (or is about to become) r.
MayRun(k, r) == ~closed /\ k \in Managed /\ ~r.running /\ r.cooldown <= now

Enqueues(k, r) == MayRun(k, r) /\ Len(queue) < QueueCapacity

\* enqueueLocked for a recorded key whose record the caller just set to r.
enqueueLocked(k, r) ==
    IF Enqueues(k, r)
    THEN /\ records' = [records EXCEPT ![k] = [r EXCEPT !.running = TRUE]]
         /\ queue' = Append(queue, [key |-> k, epoch |-> r.epoch])
    ELSE /\ records' = [records EXCEPT ![k] = r]
         /\ UNCHANGED queue

\* The round that is running for k, if any, started from what is now refuted.
Doubt(k) == doubted' = IF records[k].running THEN doubted \cup {k} ELSE doubted

-----------------------------------------------------------------------------
(* The workers.  Probe outcomes and identities are the host's choice. *)

\* The key of w's job is no longer served under the job's epoch.
active(w) ==
    LET j == wk[w].job
    IN  /\ ~closed
        /\ j.key \in Managed
        /\ j.key \in recorded
        /\ records[j.key].epoch = j.epoch

Becomes(w, x) == wk' = [wk EXCEPT ![w] = x]

Goto(w, pc) == Becomes(w, [wk[w] EXCEPT !.pc = pc])

\* collect returns; only whether it returned "ready" matters from here on.
Return(w, ready) ==
    Becomes(w, [IdleWorker EXCEPT !.pc = "finish", !.job = wk[w].job, !.ready = ready])

\* The rest of the attempt is dropped and the next one begins.
NextAttempt(w) ==
    Becomes(w, [IdleWorker EXCEPT !.pc = "attempt", !.job = wk[w].job, !.plan = wk[w].plan,
                                  !.attempt = wk[w].attempt + 1])

Blame(w) == pool' = MarkFailure(pool, wk[w].proxy, now)

\* A closed engine has cancelled the context of every call to the host.
Describes(scope, a) == ~closed /\ scope = ident[a] /\ scope # NoScope

WorkerExit(w) ==
    /\ wk[w].pc = "idle" /\ closed
    /\ Goto(w, "exited")
    /\ UNCHANGED <<pool, stamps, version, envVars, keyVars, schedVars, reqVars, history>>

\* select picks either ready case, so a job may still be taken after Close.
Take(w) ==
    /\ wk[w].pc = "idle" /\ queue # <<>>
    /\ Becomes(w, [IdleWorker EXCEPT !.pc = "plan", !.job = Head(queue)])
    /\ queue' = Tail(queue)
    /\ UNCHANGED <<pool, stamps, version, envVars, plans, recorded, records, epoch,
                   schedVars, reqVars, history>>

ReadPlan(w) ==
    /\ wk[w].pc = "plan"
    /\ IF wk[w].job.key \in Managed
       THEN Becomes(w, [wk[w] EXCEPT !.pc = "attempt", !.plan = plans[wk[w].job.key]])
       ELSE Return(w, FALSE)
    /\ UNCHANGED <<pool, stamps, version, envVars, keyVars, schedVars, reqVars, history>>

\* The pause between two attempts takes no step of its own: any action of
\* another process may come between this one and Describe.
StartAttempt(w) ==
    /\ wk[w].pc = "attempt"
    /\ IF wk[w].attempt < MaxAttempts /\ active(w)
       THEN Goto(w, "describe")
       ELSE Return(w, FALSE)
    /\ UNCHANGED <<pool, stamps, version, envVars, keyVars, schedVars, reqVars, history>>

Describe(w) ==
    /\ wk[w].pc = "describe"
    /\ \/ \E s \in Scopes :
             /\ Describes(s, AuthOf(wk[w].job.key))
             /\ identityPlanMatches(s, wk[w].plan)
             /\ Becomes(w, [wk[w] EXCEPT !.pc = "choose", !.scope = s])
       \/ \* unavailable, or of another plan
          Return(w, FALSE)
    /\ UNCHANGED <<pool, stamps, version, envVars, keyVars, schedVars, reqVars, history>>

\* Mutant: the worker waits for a proxy instead of ending the round.
ChooseProxyWaits(w) ==
    /\ wk[w].pc = "choose"
    /\ \E p \in Proxies :
          /\ IsChosen(pool, p, now)
          /\ pool' = AfterChoice(pool, p, now)
          /\ Becomes(w, [wk[w] EXCEPT !.pc = "reserve", !.proxy = p, !.captured = now])
    /\ UNCHANGED <<stamps, version, envVars, keyVars, schedVars, reqVars, history>>

ChooseProxy(w) ==
    /\ wk[w].pc = "choose"
    /\ \E p \in Proxies \cup {NoProxy} :
          /\ IsChosen(pool, p, now)
          /\ pool' = AfterChoice(pool, p, now)
          /\ IF p = NoProxy
             THEN Return(w, FALSE)
             ELSE Becomes(w, [wk[w] EXCEPT !.pc = "reserve", !.proxy = p, !.captured = now])
    /\ UNCHANGED <<stamps, version, envVars, keyVars, schedVars, reqVars, history>>

\* reserveProbe, then the client's first resolution of the identity.  `granted'
\* says whether the budget admitted the probe.
reserveProbe(granted) ==
    IF closed
    THEN ~granted /\ UNCHANGED stamps
    ELSE \E n \in 0 .. Len(stamps) :
            /\ IsExpiredPrefix(stamps, n, now)
            /\ granted = Allowed(Kept(stamps, n))
            /\ stamps' = IF granted THEN Append(Kept(stamps, n), now) ELSE Kept(stamps, n)

\* Mutant: the worker waits for the budget instead of ending the round.
StartProbeWaits(w) ==
    /\ wk[w].pc \in {"reserve", "reverify"}
    /\ reserveProbe(TRUE)
    /\ IF Describes(wk[w].scope, AuthOf(wk[w].job.key))
       THEN /\ Goto(w, IF wk[w].pc = "reserve" THEN "harvest" ELSE "verify")
            /\ UNCHANGED pool
       ELSE NextAttempt(w) /\ Blame(w)
    /\ UNCHANGED <<version, envVars, keyVars, schedVars, reqVars, history>>

\* probe for the harvest (pc "reserve") and the verification (pc "reverify").
\* A probe whose expected scope is no longer current fails before it is sent.
StartProbe(w) ==
    /\ wk[w].pc \in {"reserve", "reverify"}
    /\ \E granted \in BOOLEAN :
          /\ reserveProbe(granted)
          /\ IF ~granted
             THEN Return(w, FALSE) /\ UNCHANGED pool
             ELSE IF Describes(wk[w].scope, AuthOf(wk[w].job.key))
                  THEN /\ Goto(w, IF wk[w].pc = "reserve" THEN "harvest" ELSE "verify")
                       /\ UNCHANGED pool
                  ELSE NextAttempt(w) /\ Blame(w)
    /\ UNCHANGED <<version, envVars, keyVars, schedVars, reqVars, history>>

\* The upstream refuses the account (401, 403, 429): the round ends, and its
\* harvest proxy is charged, also when the account's own route was refused.
ProbeRejected(w) ==
    /\ wk[w].pc \in {"harvest", "verify"}
    /\ Describes(wk[w].scope, AuthOf(wk[w].job.key))
    /\ Return(w, FALSE)
    /\ Blame(w)
    /\ UNCHANGED <<stamps, version, envVars, keyVars, schedVars, reqVars, history>>

\* An error (timeout, transport, identity changed during the probe) or an
\* answer that does not qualify.  A cancelled harvest charges nobody.
ProbeFailed(w) ==
    /\ \/ wk[w].pc = "harvest" /\ closed /\ Return(w, FALSE) /\ UNCHANGED pool
       \/ wk[w].pc = "harvest" /\ ~closed /\ NextAttempt(w) /\ Blame(w)
       \/ wk[w].pc = "verify" /\ NextAttempt(w) /\ Blame(w)
    /\ UNCHANGED <<stamps, version, envVars, keyVars, schedVars, reqVars, history>>

\* The harvest answered with the requested model, a compatible plan and a
\* state of that plan's family, and the identity is still the expected one.
Harvested(w, plan, state) ==
    /\ wk[w].pc = "harvest"
    /\ Describes(wk[w].scope, AuthOf(wk[w].job.key))
    /\ PlanMatches(plan, wk[w].plan) /\ ValidState(state, wk[w].plan)
    /\ Becomes(w, [wk[w] EXCEPT !.pc = "redescribe", !.state = state,
                        !.harvestedAs = wk[w].scope])
    /\ UNCHANGED <<pool, stamps, version, envVars, keyVars, schedVars, reqVars, history>>

\* Mutant: the candidate is carried over to whatever identity is current.
AnyScope(w, s) == TRUE

\* The identity the candidate was harvested under is still the account's.
SameScope(w, s) == s = wk[w].scope

Redescribe(w) ==
    /\ wk[w].pc = "redescribe"
    /\ \/ \E s \in Scopes :
             /\ Describes(s, AuthOf(wk[w].job.key))
             /\ IF SameScope(w, s)
                THEN /\ Becomes(w, [wk[w] EXCEPT !.pc = "reverify", !.scope = s])
                     /\ UNCHANGED pool
                ELSE NextAttempt(w) /\ Blame(w)
       \/ Return(w, FALSE) /\ UNCHANGED pool
    /\ UNCHANGED <<stamps, version, envVars, keyVars, schedVars, reqVars, history>>

\* The candidate was accepted on the account's own route: the requested model,
\* a compatible plan, and no state of the rejected length in the answer.
Verified(w, plan, state) ==
    /\ wk[w].pc = "verify"
    /\ Describes(wk[w].scope, AuthOf(wk[w].job.key))
    /\ PlanMatches(plan, wk[w].plan) /\ state # "s312"
    /\ Becomes(w, [wk[w] EXCEPT !.pc = "recheck", !.verifiedAs = wk[w].scope])
    /\ UNCHANGED <<pool, stamps, version, envVars, keyVars, schedVars, reqVars, history>>

Recheck(w) ==
    /\ wk[w].pc = "recheck"
    /\ \/ \E s \in Scopes :
             /\ Describes(s, AuthOf(wk[w].job.key))
             /\ SameScope(w, s)
             /\ Becomes(w, [wk[w] EXCEPT !.pc = "publish", !.scope = s])
             /\ pool' = MarkSuccess(pool, wk[w].proxy)
       \/ NextAttempt(w) /\ Blame(w)
    /\ UNCHANGED <<stamps, version, envVars, keyVars, schedVars, reqVars, history>>

\* Mutant: a closed engine still publishes.
CurrentWhenClosed(w) ==
    /\ wk[w].job.key \in recorded
    /\ records[wk[w].job.key].epoch = wk[w].job.epoch
    /\ plans[wk[w].job.key] = wk[w].plan
    /\ now < wk[w].captured + TTL

\* The round may still replace the record's ticket.
Current(w) ==
    /\ ~closed
    /\ wk[w].job.key \in recorded
    /\ records[wk[w].job.key].epoch = wk[w].job.epoch
    /\ plans[wk[w].job.key] = wk[w].plan
    /\ now < wk[w].captured + TTL

NewTicket(w) ==
    [version |-> version + 1, state |-> wk[w].state, scope |-> wk[w].scope,
     expires |-> wk[w].captured + TTL,
     harvestedAs |-> wk[w].harvestedAs, verifiedAs |-> wk[w].verifiedAs]

Publish(w) ==
    /\ wk[w].pc = "publish"
    /\ IF Current(w)
       THEN /\ version' = version + 1
            /\ records' = [records EXCEPT ![wk[w].job.key].value = NewTicket(w),
                                          ![wk[w].job.key].cooldown = 0]
            /\ Return(w, TRUE)
       ELSE Return(w, FALSE) /\ UNCHANGED <<version, records>>
    /\ UNCHANGED <<pool, stamps, envVars, plans, recorded, epoch, queue, schedVars,
                   reqVars, history>>

\* The worker's epilogue: a failed round of the current epoch cools its key
\* down, and the record of a key that was withdrawn meanwhile goes away.
Finish(w) ==
    LET k == wk[w].job.key
        r == records[k]
        cools == ~wk[w].ready /\ ~closed /\ r.epoch = wk[w].job.epoch
    IN  /\ wk[w].pc = "finish"
        /\ IF k \in recorded /\ k \in Managed
           THEN /\ records' = [records EXCEPT
                                 ![k].running = FALSE,
                                 ![k].cooldown = IF cools THEN now + Cooldown ELSE @]
                /\ UNCHANGED recorded
           ELSE /\ records' = [records EXCEPT ![k] = FreshRecord]
                /\ recorded' = recorded \ {k}
        /\ Becomes(w, IdleWorker)
        /\ doubted' = doubted \ {k}
        /\ UNCHANGED <<pool, stamps, version, envVars, plans, epoch, queue, schedVars,
                       reqVars, carried, blamed>>

WorkerStep(w) ==
    \/ WorkerExit(w) \/ Take(w) \/ ReadPlan(w) \/ StartAttempt(w) \/ Describe(w)
    \/ ChooseProxy(w) \/ StartProbe(w) \/ ProbeRejected(w) \/ ProbeFailed(w)
    \/ \E plan \in RawPlans, state \in StateClasses : Harvested(w, plan, state)
    \/ Redescribe(w)
    \/ \E plan \in RawPlans, state \in StateClasses : Verified(w, plan, state)
    \/ Recheck(w) \/ Publish(w) \/ Finish(w)

-----------------------------------------------------------------------------
(* The scheduler.  Its ticks are not tied to the model's coarser clock. *)

SchedulerExit ==
    /\ sched = "idle" /\ closed
    /\ sched' = "exited"
    /\ UNCHANGED <<nextDiscovery, discovered, owned, ownsAllModels, envVars, keyVars,
                   roundVars, reqVars, history>>

\* schedule begins: refreshAccounts asks the directory, at most once per interval.
BeginSchedule ==
    /\ sched = "idle"
    /\ IF ~AutoAccounts \/ closed \/ now < nextDiscovery
       THEN sched' = "scan" /\ UNCHANGED nextDiscovery
       ELSE sched' = "discover" /\ nextDiscovery' = now + DiscoveryInterval
    /\ UNCHANGED <<discovered, owned, ownsAllModels, envVars, keyVars, roundVars, reqVars,
                   history>>

\* The directory failed, or listed something applyAccounts refuses.
DiscoveryFailed ==
    /\ sched = "discover"
    /\ sched' = "scan"
    /\ nextDiscovery' = IF closed THEN nextDiscovery ELSE now + DiscoveryRetry
    /\ UNCHANGED <<discovered, owned, ownsAllModels, envVars, keyVars, roundVars, reqVars,
                   history>>

\* A directory listing, restricted to the selected accounts: the plan of each
\* one, NoPlan for one that is disabled or of an unknown plan.
Absent == "absent"

Snapshots ==
    {f \in [AuthIDs -> Plans \cup {NoPlan, Absent}] :
        Cardinality({a \in AuthIDs : f[a] # Absent}) <= MaxAccounts}

\* Mutant: at the bound, ownership starts over.
OwnershipStartsOver(selected) ==
    /\ owned' = IF Cardinality(owned \cup selected) > MaxOwned
                THEN selected ELSE owned \cup selected
    /\ UNCHANGED ownsAllModels

\* Keys once selected stay verified-only; past the bound, every model does.
KeepOwnership(selected) ==
    IF ~HasSelectors \/ ownsAllModels
    THEN UNCHANGED <<owned, ownsAllModels>>
    ELSE IF Cardinality(owned \cup selected) > MaxOwned
         THEN owned' = {} /\ ownsAllModels' = TRUE
         ELSE owned' = owned \cup selected /\ UNCHANGED ownsAllModels

\* Mutant: a withdrawn record goes away under its running worker.
DropsRunning(k) == TRUE

\* No worker needs the record of a withdrawn key.
Droppable(k) == ~records[k].running

\* applyAccounts: a key whose plan changes loses its ticket and gets a new
\* epoch; a withdrawn key loses its record too, unless a round is running, whose
\* worker then removes it.  (The code draws one epoch per changed record, and two
\* when a plan is replaced.  Epochs are only compared with an earlier epoch of the
\* same key, so one for the whole snapshot stands for them.)
applyAccounts(snapshot) ==
    LET desired == [k \in Keys |-> IF snapshot[AuthOf(k)] \in Plans
                                   THEN snapshot[AuthOf(k)] ELSE NoPlan]
        changed == {k \in Keys : plans[k] # desired[k]}
        dropped == {k \in changed : desired[k] = NoPlan /\ Droppable(k)}
    IN  /\ KeepOwnership({k \in Keys : snapshot[AuthOf(k)] # Absent})
        /\ plans' = desired
        /\ recorded' = (recorded \ dropped) \cup {k \in changed : desired[k] # NoPlan}
        /\ records' = [k \in Keys |->
                         IF k \in dropped THEN FreshRecord
                         ELSE IF k \in changed
                              THEN [records[k] EXCEPT !.value = NoTicket, !.cooldown = 0,
                                                      !.epoch = epoch + 1]
                              ELSE records[k]]
        /\ epoch' = IF changed = {} THEN epoch ELSE epoch + 1
        /\ discovered' = TRUE
        /\ doubted' = doubted \cup {k \in changed : records[k].running}

DiscoveryApplied(snapshot) ==
    /\ sched = "discover"
    /\ sched' = "scan"
    /\ IF closed
       THEN UNCHANGED <<keyVars, discovered, owned, ownsAllModels, doubted>>
       ELSE applyAccounts(snapshot) /\ UNCHANGED queue
    /\ UNCHANGED <<nextDiscovery, envVars, roundVars, reqVars, carried, blamed>>

\* Mutant: a ticket about to expire is not refreshed.
DueWhenMissing(k) ==
    k \in recorded /\ records[k].value = NoTicket /\ MayRun(k, records[k])

\* A key without a ticket, or with one about to expire, whose round may start.
Due(k) ==
    /\ k \in recorded
    /\ \/ records[k].value = NoTicket
       \/ records[k].value.expires <= now + RefreshBefore
    /\ MayRun(k, records[k])

DueKeys == {k \in Keys : Due(k)}

\* The sequences of n distinct due keys: map iteration has no fixed order.
Picks(n) == {f \in [1..n -> DueKeys] : \A i, j \in 1..n : f[i] = f[j] => i = j}

PickCount ==
    LET room == QueueCapacity - Len(queue)
    IN  IF Cardinality(DueKeys) < room THEN Cardinality(DueKeys) ELSE room

\* The key was put into the queue; the others' flag is taken back.
Marked(pick, k) == \E i \in 1..PickCount : pick[i] = k

Purged(o) == IF o.created + PendingTTL < now THEN NoObservation ELSE o

\* The rest of schedule, under the lock: purge old observations, then enqueue
\* due keys while the queue has room.  A due key that finds it full waits.
Scan ==
    /\ sched = "scan"
    /\ sched' = "idle"
    /\ requests' = [q \in RequestIDs |-> Purged(requests[q])]
    /\ IF DueKeys = {}
       THEN UNCHANGED <<records, queue>>
       ELSE \E pick \in Picks(PickCount) :
               /\ queue' = queue \o [i \in 1..PickCount |->
                                       [key |-> pick[i], epoch |-> records[pick[i]].epoch]]
               /\ records' = [k \in Keys |->
                                IF Marked(pick, k)
                                THEN [records[k] EXCEPT !.running = TRUE]
                                ELSE records[k]]
    /\ UNCHANGED <<nextDiscovery, discovered, owned, ownsAllModels, envVars, plans, recorded,
                   epoch, roundVars, binds, done, history>>

SchedulerStep ==
    \/ SchedulerExit \/ BeginSchedule \/ DiscoveryFailed
    \/ \E snapshot \in Snapshots : DiscoveryApplied(snapshot)
    \/ Scan

-----------------------------------------------------------------------------
(* The request path: one Bind per attempt of a business request.  The host *)
(* runs the attempts of a request one after the other.                     *)

Tracked == {q \in RequestIDs : requests[q] # NoObservation}

Starts(q) == q \notin done /\ binds[q] = NoBind

\* The attempt goes out without a ticket.
WithoutTicket(q) == carried' = [carried EXCEPT ![q] = @ \cup {0}]

\* The attempt is for a key the engine does not serve: Bind returns before it
\* looks at requests, or (Manages is false) is never called.
BindIneligible(q, k) ==
    /\ Starts(q) /\ k \notin Managed
    /\ WithoutTicket(q)
    /\ UNCHANGED <<envVars, keyVars, roundVars, schedVars, reqVars, blamed, doubted>>

BindStart(q, k) ==
    /\ Starts(q) /\ k \in Managed
    /\ binds' = [binds EXCEPT ![q] = [pc |-> "describe", key |-> k, scope |-> NoScope]]
    /\ UNCHANGED <<requests, done, envVars, keyVars, roundVars, schedVars, history>>

\* Bind describes outside the lock; its context is the host's, not the engine's.
BindDescribe(q) ==
    /\ binds[q].pc = "describe"
    /\ \E s \in {ident[AuthOf(binds[q].key)], NoScope} :
          binds' = [binds EXCEPT ![q].pc = "decide", ![q].scope = s]
    /\ UNCHANGED <<requests, done, envVars, keyVars, roundVars, schedVars, history>>

\* Mutant: the bound is tested one entry late.
RoomForOneMore == Cardinality(Tracked) <= MaxPending

RoomForRequest == Cardinality(Tracked) < MaxPending

\* An observation that already existed becomes a tombstone.
Tombstoned(q) ==
    IF q \in Tracked
    THEN [requests EXCEPT ![q].observing = FALSE, ![q].created = now]
    ELSE requests

\* The described identity no longer supports the ticket, or the ticket expired.
Stale(k, scope) ==
    LET t == records[k].value
    IN  \/ scope = NoScope \/ t.scope # scope
        \/ scope \in Scopes /\ ~identityPlanMatches(scope, plans[k])
        \/ t.expires <= now

\* Mutant: a closed engine still injects.
ServesClosed(k) == k \in Managed /\ k \in recorded

\* Bind goes on: the engine is open and still serves the key.
Serves(k) == ~closed /\ k \in Managed /\ k \in recorded

\* The last critical section of Bind, on its four ways out.
BindRefused(q) ==
    /\ ~Serves(binds[q].key)
    /\ requests' = Tombstoned(q)
    /\ WithoutTicket(q)
    /\ UNCHANGED <<keyVars, doubted>>

BindMiss(q) ==
    LET k == binds[q].key
        r == records[k]
    IN  /\ Serves(k)
        /\ requests' = Tombstoned(q)
        /\ WithoutTicket(q)
        /\ \/ /\ r.value = NoTicket
              /\ enqueueLocked(k, r)
              /\ UNCHANGED <<epoch, doubted>>
           \/ /\ r.value # NoTicket /\ Stale(k, binds[q].scope)
              /\ epoch' = BumpedEpoch(r)
              /\ enqueueLocked(k, Revoked(r))
              /\ Doubt(k)
        /\ UNCHANGED <<plans, recorded>>

\* The caller brought a state of its own, or too many requests are tracked.
BindDeclined(q, callerState) ==
    LET k == binds[q].key
    IN  /\ Serves(k)
        /\ records[k].value # NoTicket /\ ~Stale(k, binds[q].scope)
        /\ callerState \/ ~RoomForRequest
        /\ requests' = Tombstoned(q)
        /\ WithoutTicket(q)
        /\ UNCHANGED <<keyVars, doubted>>

\* The ticket is injected.  Only a request bound for the first time is observed.
BindHit(q) ==
    LET k == binds[q].key
        v == records[k].value.version
    IN  /\ Serves(k)
        /\ records[k].value # NoTicket /\ ~Stale(k, binds[q].scope)
        /\ RoomForRequest
        /\ requests' = [requests EXCEPT ![q] = [key |-> k, version |-> v,
                                                observing |-> q \notin Tracked,
                                                created |-> now]]
        /\ carried' = [carried EXCEPT ![q] = @ \cup {v}]
        /\ UNCHANGED <<keyVars, doubted>>

BindDecide(q) ==
    /\ binds[q].pc = "decide"
    /\ binds' = [binds EXCEPT ![q] = NoBind]
    /\ \/ BindRefused(q) \/ BindMiss(q) \/ BindHit(q)
       \/ \E callerState \in BOOLEAN : BindDeclined(q, callerState)
    /\ UNCHANGED <<done, envVars, roundVars, schedVars, blamed>>

-----------------------------------------------------------------------------
(* The watchdog: what a response of a request says about its ticket.  The  *)
(* callbacks name the request only; v is the version the answering attempt *)
(* carried, which the engine cannot see.                                   *)

\* Mutant: a tombstone still observes.
RefutableTombstone(q) ==
    LET o == requests[q]
    IN  /\ o.key \in recorded
        /\ records[o.key].value # NoTicket
        /\ records[o.key].value.version = o.version

\* The observation may still revoke the record's ticket.
Refutable(q) ==
    LET o == requests[q]
    IN  /\ o.observing
        /\ o.key \in recorded
        /\ records[o.key].value # NoTicket
        /\ records[o.key].value.version = o.version

\* invalidateLocked: the ticket goes, the key's cool-down is lifted, and a new
\* round is enqueued at once when the key may run.
invalidateLocked(q, v) ==
    LET k == requests[q].key
        r == records[k]
    IN  IF Refutable(q)
        THEN /\ epoch' = BumpedEpoch(r)
             /\ enqueueLocked(k, [Revoked(r) EXCEPT !.cooldown = 0])
             /\ Doubt(k)
             /\ blamed' = blamed \cup {<<requests[q].version, v>>}
        ELSE UNCHANGED <<epoch, records, queue, doubted, blamed>>

\* Response headers that refute a ticket of k: a plan that does not match the
\* key's, several state headers ("conflict"), or a state of the rejected length.
RefutingHeaders(k) ==
    {h \in [plan : RawPlans, state : StateClasses \cup {"conflict"}] :
        \/ ~PlanMatches(h.plan, plans[k])
        \/ h.state \in {"s312", "conflict"}}

Headers(q, v) ==
    /\ v \in carried[q]
    /\ q \in Tracked
    /\ RefutingHeaders(requests[q].key) # {}
    /\ invalidateLocked(q, v)
    /\ UNCHANGED <<plans, recorded, envVars, roundVars, schedVars, reqVars, carried>>

\* Chunk and JSON: the completed response names another model.
ModelMismatch(q, v) ==
    /\ v \in carried[q]
    /\ requests[q].observing
    /\ invalidateLocked(q, v)
    /\ UNCHANGED <<plans, recorded, envVars, roundVars, schedVars, reqVars, carried>>

\* The execution completed: an observation is dropped, after a last event may
\* have shown the mismatch; a tombstone stays until schedule purges it.
Complete(q, mismatch) ==
    /\ Starts(q) /\ carried[q] # {}
    /\ done' = done \cup {q}
    /\ carried' = [carried EXCEPT ![q] = {}]
    /\ IF requests[q].observing
       THEN /\ requests' = [requests EXCEPT ![q] = NoObservation]
            /\ IF mismatch
               THEN \E v \in carried[q] : invalidateLocked(q, v)
               ELSE UNCHANGED <<epoch, records, queue, doubted, blamed>>
       ELSE UNCHANGED <<requests, epoch, records, queue, doubted, blamed>>
    /\ UNCHANGED <<binds, plans, recorded, envVars, roundVars, schedVars>>

RequestStep(q) ==
    \/ \E k \in Keys : BindIneligible(q, k) \/ BindStart(q, k)
    \/ BindDescribe(q) \/ BindDecide(q)
    \/ \E v \in carried[q] : Headers(q, v) \/ ModelMismatch(q, v)
    \/ \E mismatch \in BOOLEAN : Complete(q, mismatch)

-----------------------------------------------------------------------------
(* The environment, and Close *)

Close ==
    /\ ~closed
    /\ closed' = TRUE
    /\ UNCHANGED <<now, ident, keyVars, roundVars, schedVars, reqVars, history>>

Tick ==
    /\ now < MaxTime
    /\ now' = now + 1
    /\ UNCHANGED <<closed, ident, keyVars, roundVars, schedVars, reqVars, history>>

\* An account's identity, formal route or plan changes, or it stops resolving.
IdentityChange(a) ==
    /\ \E s \in (Scopes \cup {NoScope}) \ {ident[a]} : ident' = [ident EXCEPT ![a] = s]
    /\ UNCHANGED <<now, closed, keyVars, roundVars, schedVars, reqVars, history>>

Environment == Close \/ Tick \/ \E a \in AuthIDs : IdentityChange(a)

-----------------------------------------------------------------------------
Init ==
    /\ now = 0 /\ closed = FALSE
    /\ ident \in [AuthIDs -> Scopes \cup {NoScope}]
    /\ plans = ExplicitPlans
    /\ recorded = {k \in Keys : ExplicitPlans[k] # NoPlan}
    /\ records = [k \in Keys |-> FreshRecord]
    /\ epoch = 0 /\ version = 0
    /\ queue = <<>>
    /\ wk = [w \in WorkerIDs |-> IdleWorker]
    /\ pool = InitPool /\ stamps = <<>>
    /\ sched = "idle"
    /\ nextDiscovery = 0 /\ discovered = FALSE /\ owned = {} /\ ownsAllModels = FALSE
    /\ requests = [q \in RequestIDs |-> NoObservation]
    /\ binds = [q \in RequestIDs |-> NoBind]
    /\ done = {}
    /\ carried = [q \in RequestIDs |-> {}]
    /\ blamed = {} /\ doubted = {}

Next ==
    \/ \E w \in WorkerIDs : WorkerStep(w)
    \/ SchedulerStep
    \/ \E q \in RequestIDs : RequestStep(q)
    \/ Environment

Spec == Init /\ [][Next]_vars

\* Every worker and the scheduler keep running: a goroutine that can go on does,
\* the ticker keeps ticking, a probe ends by its timeout and, as is assumed of
\* the host, its callbacks return.  With both the closed context and the ticker
\* ready, select does not pick the ticker for ever.
FairSpec ==
    /\ Spec
    /\ \A w \in WorkerIDs : WF_vars(WorkerStep(w))
    /\ WF_vars(SchedulerStep)
    /\ SF_vars(SchedulerExit)
=============================================================================
