--------------------------- MODULE TurnStateCache ---------------------------
(***************************************************************************)
(* The passive turn-state cache (internal/turnstate/cache.go), driven by   *)
(* the plugin's callbacks (interceptor.go).  The after-auth callback binds *)
(* a request ID to the key of its attempt and looks the key's state up;    *)
(* response callbacks store what the upstream answered under the binding   *)
(* of their request ID; completion forgets the binding.                    *)
(*                                                                         *)
(* One action is one critical section of Cache.mu.  A response callback    *)
(* names its request but not its attempt, and may come late: after the     *)
(* next attempt was bound, or after the request completed.                 *)
(***************************************************************************)
EXTENDS PlanFamilies, Integers, FiniteSets

CONSTANTS
    Keys,               \* account/model keys, numbered in the order of cacheKeyLess
    RequestIDs,         \* request IDs, numbered in string order
    VerifiedKeys,       \* keys the prewarm engine manages
    AcceptedClasses,    \* accepted_lengths
    MaxEntries, MaxPendingEntries,
    StateTTL, PendingTTL,   \* one hour, two hours
    Answers,            \* bound: what answers report, [state, plan] with "none" and NoPlan
    MaxTries,           \* bound: attempts of each request
    MaxTime             \* bound: the clock stops here

ASSUME CacheAssumption ==
    /\ Keys \subseteq Nat \ {0} /\ IsFiniteSet(Keys)
    /\ RequestIDs \subseteq Nat /\ IsFiniteSet(RequestIDs)
    /\ VerifiedKeys \subseteq Keys
    /\ AcceptedClasses \subseteq StateClasses
    /\ MaxEntries \in Nat \ {0} /\ MaxPendingEntries \in Nat \ {0}
    /\ StateTTL \in Nat \ {0} /\ PendingTTL \in Nat \ {0}
    /\ Answers \subseteq [state : StateClasses, plan : RawPlans]
    /\ MaxTries \in [RequestIDs -> Nat] /\ MaxTime \in Nat

VARIABLES
    now,
    entries,    \* Cache.entries, NoEntry where absent
    pending,    \* Cache.pending, NoBinding where absent
    tries,      \* attempts of a request so far
    current,    \* the key of its latest one
    looking,    \* requests whose after-auth callback has bound but not looked up
    event,      \* the WebSocket event between its two critical sections, per request
    done,       \* completed requests
    \* History, read by properties only:
    served      \* when the state was captured that the last attempt got, if any

vars == <<now, entries, pending, tries, current, looking, event, done, served>>

NoKey == 0    \* also the key of an attempt without account or model
Never == -1

\* The value of a state is left out: no property tells two of them apart.  The
\* last two fields are history: the request whose answer was stored, and the key
\* of the answered attempt, if that was the request's latest one.
Entry == [at : Nat, req : RequestIDs, tried : Keys \cup {NoKey}, late : BOOLEAN]
NoEntry == [at |-> 0, req |-> 0, tried |-> NoKey, late |-> FALSE]

Binding == [key : Keys, plan : RawPlans, at : Nat]
NoBinding == [key |-> NoKey, plan |-> NoPlan, at |-> 0]

Event == [try : Nat \ {0}, answer : Answers]
NoEvent == [try |-> 0]

-----------------------------------------------------------------------------
(* The cache's helpers; each takes and returns a map. *)

Present(map, absent) == {x \in DOMAIN map : map[x] # absent}

\* Mutant: what reaches its lifetime just now stays.
PurgedOneLate(map, absent, ttl) ==
    [x \in DOMAIN map |-> IF now > map[x].at + ttl THEN absent ELSE map[x]]

\* purgeExpiredLocked for one of the two maps.
Purged(map, absent, ttl) ==
    [x \in DOMAIN map |-> IF now >= map[x].at + ttl THEN absent ELSE map[x]]

Older(map, x, y) == map[x].at < map[y].at \/ (map[x].at = map[y].at /\ x < y)

\* Mutants: room is made one entry late; the newest entry goes.
EvictedOneLate(map, absent, max) ==
    [x \in DOMAIN map |->
       IF Cardinality({y \in Present(map, absent) : Older(map, x, y)}) > max
       THEN absent ELSE map[x]]
EvictedNewest(map, absent, max) ==
    [x \in DOMAIN map |->
       IF Cardinality({y \in Present(map, absent) : Older(map, y, x)}) >= max - 1
       THEN absent ELSE map[x]]

\* evictEntriesLocked and evictPendingLocked: the oldest go until there is
\* room for one more, so that the max - 1 newest stay.
Evicted(map, absent, max) ==
    [x \in DOMAIN map |->
       IF Cardinality({y \in Present(map, absent) : Older(map, x, y)}) >= max - 1
       THEN absent ELSE map[x]]

\* validatePlanAndLength: a known plan demands its length, another any accepted one.
Accepts(state, plan) ==
    IF CanonicalPlan(plan) # NoPlan
    THEN state = FamilyOf(CanonicalPlan(plan))
    ELSE state \in AcceptedClasses \ {"none"}

purgeExpiredLocked ==
    /\ entries' = Purged(entries, NoEntry, StateTTL)
    /\ pending' = Purged(pending, NoBinding, PendingTTL)

-----------------------------------------------------------------------------
(* The request callbacks. *)

\* Mutant: the key is not validated.
PassiveUnchecked == (Keys \cup {NoKey}) \ VerifiedKeys

\* The keys whose states the passive cache captures and serves.
Passive == Keys \ VerifiedKeys

\* The host runs the attempts of a request one after the other.
MayTry(q) == q \notin done /\ q \notin looking /\ tries[q] < MaxTries[q]

NewTry(q, k) ==
    /\ tries' = [tries EXCEPT ![q] = @ + 1]
    /\ current' = [current EXCEPT ![q] = k]
    /\ served' = [served EXCEPT ![q] = Never]

ForgetRequest(q) ==
    /\ pending' = [pending EXCEPT ![q] = NoBinding]
    /\ UNCHANGED entries

\* An attempt without a usable key, or for a verified-only key: the passive
\* cache forgets the request, whose state can only come from a ticket.
TryUncached(q, k) ==
    /\ MayTry(q) /\ k \in VerifiedKeys \cup {NoKey}
    /\ ForgetRequest(q)
    /\ NewTry(q, k)
    /\ UNCHANGED <<now, looking, event, done>>

\* Mutant: the first binding of a request is kept.
BoundOnce(q, k) ==
    LET kept == Purged(pending, NoBinding, PendingTTL)
    IN  IF kept[q] # NoBinding THEN kept
        ELSE [Evicted(kept, NoBinding, MaxPendingEntries) EXCEPT
                ![q] = [key |-> k, plan |-> NoPlan, at |-> now]]

Bound(q, k) ==
    LET kept == Purged(pending, NoBinding, PendingTTL)
        room == IF kept[q] # NoBinding THEN kept
                ELSE Evicted(kept, NoBinding, MaxPendingEntries)
    IN  [room EXCEPT ![q] = [key |-> k, plan |-> NoPlan, at |-> now]]

BindRequest(q, k) ==
    /\ MayTry(q) /\ k \in Passive
    /\ entries' = Purged(entries, NoEntry, StateTTL)
    /\ pending' = Bound(q, k)
    /\ looking' = looking \cup {q}
    /\ NewTry(q, k)
    /\ UNCHANGED <<now, event, done>>

\* The callback goes on with the key it bound, whatever became of the binding.
Lookup(q) ==
    /\ q \in looking
    /\ looking' = looking \ {q}
    /\ purgeExpiredLocked
    /\ LET found == entries'[current[q]]
       IN  served' = [served EXCEPT ![q] = IF found = NoEntry THEN Never ELSE found.at]
    /\ UNCHANGED <<now, event, done, tries, current>>

\* Mutant: completion is noted, the binding stays.
CompleteKeepsBinding(q) ==
    /\ q \notin done /\ q \notin looking /\ tries[q] > 0
    /\ done' = done \cup {q}
    /\ UNCHANGED <<now, entries, pending, looking, event, tries, current, served>>

Complete(q) ==
    /\ q \notin done /\ q \notin looking /\ tries[q] > 0
    /\ ForgetRequest(q)
    /\ done' = done \cup {q}
    /\ UNCHANGED <<now, looking, event, tries, current, served>>

-----------------------------------------------------------------------------
(* The response callbacks, for an answer of the n-th attempt of q. *)

Stored(map, q, n) ==
    LET k == pending[q].key
        room == IF map[k] # NoEntry THEN map ELSE Evicted(map, NoEntry, MaxEntries)
        late == n < tries[q]
    IN  [room EXCEPT ![k] = [at |-> now, req |-> q, late |-> late,
                             tried |-> IF late THEN NoKey ELSE current[q]]]

\* StoreResponseForRequest.  A plan of the answer itself wins over a plan an
\* earlier event of the request reported.
StoreResponse(q, n, a) ==
    LET kept == Purged(entries, NoEntry, StateTTL)
        bound == Purged(pending, NoBinding, PendingTTL)
        known == IF a.plan # NoPlan THEN a.plan ELSE bound[q].plan
    IN  /\ pending' = bound
        /\ entries' = IF bound[q] # NoBinding /\ Accepts(a.state, known)
                      THEN Stored(kept, q, n) ELSE kept

\* InterceptResponse, or InterceptStreamChunk on the stream's headers.
Capture(q, n, a) ==
    /\ n \in 1..tries[q]
    /\ StoreResponse(q, n, a)
    /\ UNCHANGED <<now, looking, event, done, tries, current, served>>

\* ObserveWebSocketResponseEvent: a reported plan is remembered first ...
ObserveEvent(q, n, a) ==
    /\ n \in 1..tries[q] /\ event[q] = NoEvent
    /\ pending' = IF a.plan # NoPlan /\ pending[q] # NoBinding
                  THEN [pending EXCEPT ![q].plan = a.plan] ELSE pending
    /\ event' = IF a.state # "none"
                THEN [event EXCEPT ![q] = [try |-> n, answer |-> a]]
                ELSE event
    /\ UNCHANGED <<now, entries, looking, done, tries, current, served>>

\* ... and a reported state is stored next.
CaptureEvent(q) ==
    /\ event[q] # NoEvent
    /\ StoreResponse(q, event[q].try, event[q].answer)
    /\ event' = [event EXCEPT ![q] = NoEvent]
    /\ UNCHANGED <<now, looking, done, tries, current, served>>

Tick ==
    /\ now < MaxTime
    /\ now' = now + 1
    /\ UNCHANGED <<entries, pending, tries, current, looking, event, done, served>>

-----------------------------------------------------------------------------
Init ==
    /\ now = 0
    /\ entries = [k \in Keys |-> NoEntry]
    /\ pending = [q \in RequestIDs |-> NoBinding]
    /\ looking = {} /\ done = {}
    /\ event = [q \in RequestIDs |-> NoEvent]
    /\ tries = [q \in RequestIDs |-> 0]
    /\ current = [q \in RequestIDs |-> NoKey]
    /\ served = [q \in RequestIDs |-> Never]

Next ==
    \/ Tick
    \/ \E q \in RequestIDs :
          \/ \E k \in Keys \cup {NoKey} : TryUncached(q, k) \/ BindRequest(q, k)
          \/ Lookup(q) \/ Complete(q) \/ CaptureEvent(q)
          \/ \E n \in 1..MaxTries[q], a \in Answers : Capture(q, n, a) \/ ObserveEvent(q, n, a)

Spec == Init /\ [][Next]_vars

-----------------------------------------------------------------------------
(* Properties *)

\* The value of every variable has its type.
TypeOK ==
    /\ now \in Nat
    /\ entries \in [Keys -> Entry \cup {NoEntry}]
    /\ pending \in [RequestIDs -> Binding \cup {NoBinding}]
    /\ looking \subseteq RequestIDs /\ done \subseteq RequestIDs
    /\ event \in [RequestIDs -> Event \cup {NoEvent}]
    /\ tries \in [RequestIDs -> Nat] /\ current \in [RequestIDs -> Keys \cup {NoKey}]
    /\ served \in [RequestIDs -> Nat \cup {Never}]

\* Both maps stay within their configured bounds, whatever expires, is replaced
\* or is bound again in between (cache.go, BindRequest and storeLocked).
CacheBounded ==
    /\ Cardinality(Present(entries, NoEntry)) <= MaxEntries
    /\ Cardinality(Present(pending, NoBinding)) <= MaxPendingEntries

\* A state answered to the current attempt of a request is only ever stored under
\* the key of that attempt, and never when that key is verified-only or unusable,
\* whatever keys the earlier attempts were for (interceptor.go,
\* InterceptRequestAfterAuth; cache.go, BindRequest).
LatestAttemptOwnKey ==
    \A k \in Keys : entries[k] # NoEntry /\ ~entries[k].late => entries[k].tried = k

\* A completed request never populates the cache, also by an answer that was
\* being processed when it completed (README.md; HandleRequestComplete).
CompletedStaysOut ==
    [][\A k \in Keys :
          entries'[k] \notin {entries[k], NoEntry} => entries'[k].req \notin done]_vars

\* A state is served during the fixed lifetime that its capture gave it only
\* (cache.go, Lookup).
FixedLifetime ==
    [][\A q \in RequestIDs :
          served'[q] \notin {served[q], Never} => now < served'[q] + StateTTL]_vars

\* A state that leaves the cache within its lifetime is none of those that were
\* captured after a state that stays (cache.go, evictEntriesLocked).
OldestEvicted ==
    [][\A k, j \in Keys :
          LET evicted == /\ entries[k] # NoEntry /\ entries'[k] = NoEntry
                         /\ now < entries[k].at + StateTTL
              stays == entries[j] # NoEntry /\ entries'[j] = entries[j]
          IN  evicted /\ stays => entries[k].at <= entries[j].at]_vars
=============================================================================
