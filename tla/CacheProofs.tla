---------------------------- MODULE CacheProofs -----------------------------
(***************************************************************************)
(* Proofs about the passive turn-state cache for every value of its        *)
(* constants.  The invariant behind all of them is that a binding belongs  *)
(* to the latest attempt of a request that has not completed.              *)
(***************************************************************************)
EXTENDS TurnStateCache, FiniteSetTheorems, TLAPS

\* A binding is the one of the request's latest attempt, and of no completed request.
BindingsCurrent ==
    \A q \in RequestIDs :
        pending[q] # NoBinding => pending[q].key = current[q] /\ q \notin done

\* A request looks a real key up, and its pending event is of an attempt it made.
CallbacksOfTries ==
    \A q \in RequestIDs :
        /\ q \in looking => current[q] \in Keys
        /\ event[q] # NoEvent => event[q] \in Event /\ event[q].try <= tries[q]

Inv == TypeOK /\ BindingsCurrent /\ CallbacksOfTries /\ LatestAttemptOwnKey

-----------------------------------------------------------------------------
\* Purging and evicting only take entries away.
LEMMA PurgedOnlyRemoves ==
    ASSUME NEW D, NEW S, NEW map \in [D -> S], NEW absent, NEW ttl, NEW max, NEW x \in D
    PROVE  /\ Purged(map, absent, ttl)[x] \in {map[x], absent}
           /\ Evicted(map, absent, max)[x] \in {map[x], absent}
BY DEF Purged, Evicted

\* What a purge leaves is within its lifetime.
LEMMA PurgedAlive ==
    ASSUME NEW map, NEW absent, NEW ttl \in Nat, NEW x \in DOMAIN map,
           map[x].at \in Nat, now \in Nat, Purged(map, absent, ttl)[x] # absent
    PROVE  now < map[x].at + ttl /\ Purged(map, absent, ttl)[x] = map[x]
BY DEF Purged

\* Purging and evicting keep the types of the two maps.
LEMMA MapTypes ==
    ASSUME NEW D, NEW S, NEW absent \in S, NEW map \in [D -> S], NEW ttl, NEW max
    PROVE  /\ Purged(map, absent, ttl) \in [D -> S]
           /\ Evicted(map, absent, max) \in [D -> S]
BY DEF Purged, Evicted

\* A binding after BindRequest is an old one, or the new one of the request.
LEMMA BoundContents ==
    ASSUME TypeOK, NEW q \in RequestIDs, NEW k \in Keys
    PROVE  /\ Bound(q, k) \in [RequestIDs -> Binding \cup {NoBinding}]
           /\ Bound(q, k)[q].key = k
           /\ \A p \in RequestIDs \ {q} : Bound(q, k)[p] \in {pending[p], NoBinding}
<1>. DEFINE kept == Purged(pending, NoBinding, PendingTTL)
            room == IF kept[q] # NoBinding THEN kept
                    ELSE Evicted(kept, NoBinding, MaxPendingEntries)
<1>1. kept \in [RequestIDs -> Binding \cup {NoBinding}]
  BY MapTypes DEF TypeOK
<1>2. room \in [RequestIDs -> Binding \cup {NoBinding}]
  BY <1>1, MapTypes
<1>3. \A p \in RequestIDs : room[p] \in {pending[p], NoBinding}
  <2>1. ASSUME NEW p \in RequestIDs
        PROVE  /\ kept[p] \in {pending[p], NoBinding}
               /\ Evicted(kept, NoBinding, MaxPendingEntries)[p] \in {kept[p], NoBinding}
    BY <1>1, PurgedOnlyRemoves DEF TypeOK
  <2>. QED BY <2>1
<1>4. [key |-> k, plan |-> NoPlan, at |-> now] \in Binding
  BY DEF Binding, TypeOK, RawPlans
<1>5. Bound(q, k) = [room EXCEPT ![q] = [key |-> k, plan |-> NoPlan, at |-> now]]
  BY DEF Bound
<1>. QED BY <1>2, <1>3, <1>4, <1>5

\* What storing an answer of the n-th attempt of q changes.
LEMMA StoreContents ==
    ASSUME Inv, NEW q \in RequestIDs, NEW n \in Nat, n <= tries[q], NEW a,
           StoreResponse(q, n, a)
    PROVE  /\ pending' \in [RequestIDs -> Binding \cup {NoBinding}]
           /\ \A p \in RequestIDs : pending'[p] \in {pending[p], NoBinding}
           /\ entries' \in [Keys -> Entry \cup {NoEntry}]
           /\ \A k \in Keys :
                 \/ entries'[k] \in {entries[k], NoEntry}
                 \/ /\ pending[q] # NoBinding /\ k = pending[q].key
                    /\ entries'[k].req = q
                    /\ ~entries'[k].late => entries'[k].tried = current[q]
<1>. DEFINE kept == Purged(entries, NoEntry, StateTTL)
            bound == Purged(pending, NoBinding, PendingTTL)
<1>1. pending' = bound
  BY DEF StoreResponse
<1>2. bound \in [RequestIDs -> Binding \cup {NoBinding}]
  BY MapTypes DEF Inv, TypeOK
<1>3. \A p \in RequestIDs : bound[p] \in {pending[p], NoBinding}
  BY PurgedOnlyRemoves DEF Inv, TypeOK
<1>4. kept \in [Keys -> Entry \cup {NoEntry}]
  BY MapTypes DEF Inv, TypeOK
<1>5. \A k \in Keys : kept[k] \in {entries[k], NoEntry}
  BY PurgedOnlyRemoves DEF Inv, TypeOK
<1>6. CASE entries' = kept
  BY <1>1, <1>2, <1>3, <1>4, <1>5, <1>6
<1>7. CASE bound[q] # NoBinding /\ entries' = Stored(kept, q, n)
  <2>. DEFINE key == pending[q].key
              room == IF kept[key] # NoEntry THEN kept ELSE Evicted(kept, NoEntry, MaxEntries)
              new == [at |-> now, req |-> q, late |-> n < tries[q],
                      tried |-> IF n < tries[q] THEN NoKey ELSE current[q]]
  <2>1. pending[q] # NoBinding /\ pending[q] \in Binding /\ key \in Keys
    BY <1>3, <1>7 DEF Inv, TypeOK, Binding
  <2>2. room \in [Keys -> Entry \cup {NoEntry}]
    BY <1>4, MapTypes
  <2>3. \A k \in Keys : room[k] \in {entries[k], NoEntry}
    <3>1. ASSUME NEW k \in Keys
          PROVE  Evicted(kept, NoEntry, MaxEntries)[k] \in {kept[k], NoEntry}
      BY <1>4, PurgedOnlyRemoves
    <3>. QED BY <3>1, <1>5
  <2>4. new \in Entry /\ (~new.late => new.tried = current[q]) /\ new.req = q
    <3>1. current[q] \in Keys \cup {NoKey} /\ now \in Nat
      BY DEF Inv, TypeOK
    <3>2. CASE n < tries[q]
      <4>1. new = [at |-> now, req |-> q, late |-> TRUE, tried |-> NoKey]
        BY <3>2
      <4>. QED BY <3>1, <4>1 DEF Entry
    <3>3. CASE ~(n < tries[q])
      <4>1. new = [at |-> now, req |-> q, late |-> FALSE, tried |-> current[q]]
        <5>1. (n < tries[q]) = FALSE
          BY <3>3
        <5>. QED BY <3>3, <5>1
      <4>. QED BY <3>1, <4>1 DEF Entry
    <3>. QED BY <3>2, <3>3
  <2>5. entries' = [room EXCEPT ![key] = new]
    BY <1>7 DEF Stored
  <2>. HIDE DEF key, room, new
  <2>6. entries' \in [Keys -> Entry \cup {NoEntry}]
    BY <2>2, <2>4, <2>5
  <2>7. \A k \in Keys : k # key => entries'[k] = room[k]
    BY <2>2, <2>5
  <2>8. entries'[key] = new
    BY <2>1, <2>2, <2>5
  <2>9. \A k \in Keys : k = key \/ entries'[k] \in {entries[k], NoEntry}
    BY <2>3, <2>7
  <2>10. entries'[key].req = q /\ (~entries'[key].late => entries'[key].tried = current[q])
    BY <2>4, <2>8
  <2>. QED BY <1>1, <1>2, <1>3, <2>1, <2>6, <2>9, <2>10 DEF key
<1>. QED BY <1>6, <1>7 DEF StoreResponse

-----------------------------------------------------------------------------
\* The invariant holds at first.
LEMMA InitInv == Init => Inv
<1>. SUFFICES ASSUME Init PROVE Inv
  OBVIOUS
<1>1. TypeOK
  BY CacheAssumption DEF CacheAssumption, Init, TypeOK
<1>. QED BY <1>1 DEF Init, Inv, BindingsCurrent, CallbacksOfTries, LatestAttemptOwnKey

\* Storing an answer preserves the invariant.
LEMMA StoreInv ==
    ASSUME Inv, NEW q \in RequestIDs, NEW n \in Nat, n <= tries[q], NEW a,
           StoreResponse(q, n, a), event' \in [RequestIDs -> Event \cup {NoEvent}],
           CallbacksOfTries',
           UNCHANGED <<now, looking, done, tries, current, served>>
    PROVE  Inv'
<1>1. TypeOK'
  BY StoreContents DEF Inv, TypeOK
<1>2. BindingsCurrent'
  BY StoreContents DEF Inv, BindingsCurrent
<1>3. LatestAttemptOwnKey'
  BY StoreContents DEF Inv, BindingsCurrent, LatestAttemptOwnKey
<1>. QED BY <1>1, <1>2, <1>3 DEF Inv

\* The request callbacks preserve the invariant.
LEMMA RequestInv ==
    ASSUME Inv, NEW q \in RequestIDs,
           \/ \E k \in Keys \cup {NoKey} : TryUncached(q, k) \/ BindRequest(q, k)
           \/ Lookup(q) \/ Complete(q)
    PROVE  Inv'
<1>1. ASSUME NEW k \in Keys \cup {NoKey}, TryUncached(q, k) PROVE Inv'
  <2>1. TypeOK'
    BY <1>1 DEF Inv, TypeOK, TryUncached, ForgetRequest, NewTry
  <2>2. BindingsCurrent' /\ LatestAttemptOwnKey'
    BY <1>1 DEF Inv, TypeOK, BindingsCurrent, LatestAttemptOwnKey, TryUncached,
                ForgetRequest, NewTry
  <2>3. CallbacksOfTries'
    BY <1>1 DEF Inv, TypeOK, Event, CallbacksOfTries, TryUncached, MayTry, NewTry
  <2>. QED BY <2>1, <2>2, <2>3 DEF Inv
<1>2. ASSUME NEW k \in Keys \cup {NoKey}, BindRequest(q, k) PROVE Inv'
  <2>1. k \in Keys /\ q \notin done
    BY <1>2 DEF BindRequest, Passive, MayTry
  <2>2. entries' \in [Keys -> Entry \cup {NoEntry}]
        /\ \A j \in Keys : entries'[j] \in {entries[j], NoEntry}
    BY <1>2, MapTypes, PurgedOnlyRemoves DEF BindRequest, Inv, TypeOK
  <2>3. TypeOK'
    BY <1>2, <2>1, <2>2, BoundContents DEF Inv, TypeOK, BindRequest, NewTry
  <2>4. LatestAttemptOwnKey'
    BY <2>2 DEF Inv, LatestAttemptOwnKey
  <2>5. BindingsCurrent'
    <3>1. pending' = Bound(q, k) /\ current' = [current EXCEPT ![q] = k] /\ done' = done
      BY <1>2 DEF BindRequest, NewTry
    <3>2. current' \in [RequestIDs -> Keys \cup {NoKey}] /\ current'[q] = k
      BY <3>1 DEF Inv, TypeOK
    <3>. QED BY <2>1, <3>1, <3>2, BoundContents DEF Inv, TypeOK, BindingsCurrent
  <2>6. CallbacksOfTries'
    BY <1>2, <2>1 DEF Inv, TypeOK, Event, CallbacksOfTries, BindRequest, NewTry
  <2>. QED BY <2>3, <2>4, <2>5, <2>6 DEF Inv
<1>3. ASSUME Lookup(q) PROVE Inv'
  <2>1. /\ entries' \in [Keys -> Entry \cup {NoEntry}]
        /\ pending' \in [RequestIDs -> Binding \cup {NoBinding}]
        /\ \A j \in Keys : entries'[j] \in {entries[j], NoEntry}
        /\ \A p \in RequestIDs : pending'[p] \in {pending[p], NoBinding}
    BY <1>3, MapTypes, PurgedOnlyRemoves DEF Lookup, purgeExpiredLocked, Inv, TypeOK
  <2>2. served' \in [RequestIDs -> Nat \cup {Never}]
    <3>1. entries'[current[q]] \in Entry \cup {NoEntry}
      BY <1>3, <2>1 DEF Lookup, Inv, CallbacksOfTries
    <3>2. entries'[current[q]].at \in Nat
      BY <3>1 DEF Entry, NoEntry
    <3>. QED BY <1>3, <3>2 DEF Lookup, Inv, TypeOK
  <2>3. TypeOK'
    BY <1>3, <2>1, <2>2 DEF Lookup, Inv, TypeOK
  <2>4. BindingsCurrent' /\ LatestAttemptOwnKey'
    BY <1>3, <2>1 DEF Lookup, Inv, BindingsCurrent, LatestAttemptOwnKey
  <2>5. CallbacksOfTries'
    BY <1>3 DEF Lookup, Inv, CallbacksOfTries
  <2>. QED BY <2>3, <2>4, <2>5 DEF Inv
<1>4. ASSUME Complete(q) PROVE Inv'
  <2>1. TypeOK'
    BY <1>4 DEF Inv, TypeOK, Complete, ForgetRequest
  <2>2. BindingsCurrent' /\ LatestAttemptOwnKey'
    BY <1>4 DEF Inv, TypeOK, BindingsCurrent, LatestAttemptOwnKey, Complete, ForgetRequest
  <2>3. CallbacksOfTries'
    BY <1>4 DEF Inv, CallbacksOfTries, Complete
  <2>. QED BY <2>1, <2>2, <2>3 DEF Inv
<1>. QED BY <1>1, <1>2, <1>3, <1>4

\* The response callbacks preserve the invariant.
LEMMA ResponseInv ==
    ASSUME Inv, NEW q \in RequestIDs,
           \/ CaptureEvent(q)
           \/ \E n \in 1..MaxTries[q], a \in Answers : Capture(q, n, a) \/ ObserveEvent(q, n, a)
    PROVE  Inv'
<1>1. ASSUME CaptureEvent(q) PROVE Inv'
  <2>1. event[q].try \in Nat /\ event[q].try <= tries[q]
    BY <1>1 DEF CaptureEvent, Inv, CallbacksOfTries, Event
  <2>2. event' = [event EXCEPT ![q] = NoEvent]
        /\ UNCHANGED <<now, looking, done, tries, current, served>>
    BY <1>1 DEF CaptureEvent
  <2>3. event' \in [RequestIDs -> Event \cup {NoEvent}]
    BY <2>2 DEF Inv, TypeOK
  <2>4. CallbacksOfTries'
    BY <2>2 DEF Inv, TypeOK, CallbacksOfTries
  <2>. QED BY <1>1, <2>1, <2>2, <2>3, <2>4, StoreInv DEF CaptureEvent
<1>2. ASSUME NEW n \in 1..MaxTries[q], NEW a \in Answers, Capture(q, n, a) PROVE Inv'
  <2>1. n \in Nat /\ n <= tries[q]
    BY <1>2 DEF Capture, Inv, TypeOK
  <2>2. CallbacksOfTries'
    BY <1>2 DEF Capture, Inv, CallbacksOfTries
  <2>. QED BY <1>2, <2>1, <2>2, StoreInv DEF Capture, Inv, TypeOK
<1>3. ASSUME NEW n \in 1..MaxTries[q], NEW a \in Answers, ObserveEvent(q, n, a) PROVE Inv'
  <2>1. a.plan \in RawPlans /\ n \in Nat \ {0}
    BY <1>3, CacheAssumption DEF CacheAssumption
  <2>2. pending' \in [RequestIDs -> Binding \cup {NoBinding}]
    BY <1>3, <2>1 DEF ObserveEvent, Inv, TypeOK, Binding
  <2>3. event' \in [RequestIDs -> Event \cup {NoEvent}]
    BY <1>3, <2>1 DEF ObserveEvent, Inv, TypeOK, Event
  <2>4. TypeOK'
    BY <1>3, <2>2, <2>3 DEF ObserveEvent, Inv, TypeOK
  <2>5. BindingsCurrent' /\ LatestAttemptOwnKey'
    BY <1>3 DEF ObserveEvent, Inv, TypeOK, Binding, BindingsCurrent, LatestAttemptOwnKey
  <2>6. CallbacksOfTries'
    BY <1>3, <2>1 DEF ObserveEvent, Inv, TypeOK, Event, CallbacksOfTries
  <2>. QED BY <2>4, <2>5, <2>6 DEF Inv
<1>. QED BY <1>1, <1>2, <1>3

\* Every step preserves the invariant.
LEMMA NextInv == Inv /\ [Next]_vars => Inv'
<1>. SUFFICES ASSUME Inv, [Next]_vars PROVE Inv'
  OBVIOUS
<1>1. CASE Tick
  BY <1>1 DEF Tick, Inv, TypeOK, BindingsCurrent, CallbacksOfTries, LatestAttemptOwnKey
<1>2. CASE UNCHANGED vars
  BY <1>2 DEF vars, Inv, TypeOK, BindingsCurrent, CallbacksOfTries, LatestAttemptOwnKey
<1>. QED BY <1>1, <1>2, RequestInv, ResponseInv DEF Next

\* The invariant behind the theorems below.
THEOREM Invariance == Spec => []Inv
BY InitInv, NextInv, PTL DEF Spec

\* Every variable keeps its type (the whole cache).
THEOREM TypeCorrect == Spec => []TypeOK
<1>1. Inv => TypeOK
  BY DEF Inv
<1>. QED BY <1>1, Invariance, PTL

\* For any keys, bounds and lifetimes, a state answered to the latest attempt of
\* a request is stored under that attempt's key only (BindRequest, ForgetRequest
\* and StoreResponseForRequest).
THEOREM LatestAttemptOwnKeyHolds == Spec => []LatestAttemptOwnKey
<1>1. Inv => LatestAttemptOwnKey
  BY DEF Inv
<1>. QED BY <1>1, Invariance, PTL

\* For any keys, bounds and lifetimes, a completed request never populates the
\* cache (HandleRequestComplete).
THEOREM CompletedStaysOutHolds == Spec => CompletedStaysOut
<1>. DEFINE Step == \A k \in Keys :
                      entries'[k] \notin {entries[k], NoEntry} => entries'[k].req \notin done
<1>1. ASSUME Inv, Next PROVE Step
  <2>1. ASSUME NEW q \in RequestIDs, NEW n \in Nat, n <= tries[q], NEW a,
               StoreResponse(q, n, a)
        PROVE  Step
    BY <1>1, <2>1, StoreContents DEF Inv, BindingsCurrent
  <2>2. ASSUME NEW q \in RequestIDs, CaptureEvent(q) PROVE Step
    BY <1>1, <2>1, <2>2 DEF CaptureEvent, Inv, CallbacksOfTries, Event
  <2>3. ASSUME NEW q \in RequestIDs, NEW n \in 1..MaxTries[q], NEW a \in Answers, Capture(q, n, a)
        PROVE  Step
    <3>1. n \in Nat /\ n <= tries[q]
      BY <1>1, <2>3 DEF Capture, Inv, TypeOK
    <3>. QED BY <2>1, <2>3, <3>1 DEF Capture
  <2>4. ASSUME entries' = entries \/ entries' = Purged(entries, NoEntry, StateTTL) PROVE Step
    <3>1. ASSUME NEW k \in Keys
          PROVE  Purged(entries, NoEntry, StateTTL)[k] \in {entries[k], NoEntry}
      BY <1>1, PurgedOnlyRemoves DEF Inv, TypeOK
    <3>. QED BY <2>4, <3>1
  <2>. QED BY <1>1, <2>2, <2>3, <2>4
           DEF Next, Tick, TryUncached, ForgetRequest, BindRequest, Lookup, Complete,
               purgeExpiredLocked, ObserveEvent
<1>2. Inv /\ [Next]_vars => [Step]_vars
  BY <1>1
<1>. QED BY <1>2, Invariance, PTL DEF Spec, CompletedStaysOut

\* For any keys, bounds and lifetimes, a state is served within the lifetime its
\* capture gave it only (Lookup).
THEOREM FixedLifetimeHolds == Spec => FixedLifetime
<1>. DEFINE Step == \A q \in RequestIDs :
                      served'[q] \notin {served[q], Never} => now < served'[q] + StateTTL
<1>1. ASSUME Inv, Next PROVE Step
  <2>1. ASSUME NEW q \in RequestIDs, Lookup(q) PROVE Step
    <3>. DEFINE found == entries'[current[q]]
    <3>1. served' = [served EXCEPT ![q] = IF found = NoEntry THEN Never ELSE found.at]
      BY <2>1 DEF Lookup
    <3>2. entries' = Purged(entries, NoEntry, StateTTL)
      BY <2>1 DEF Lookup, purgeExpiredLocked
    <3>3. found # NoEntry => now < found.at + StateTTL
      <4>1. current[q] \in Keys
        BY <1>1, <2>1 DEF Lookup, Inv, CallbacksOfTries
      <4>2. entries[current[q]].at \in Nat
        BY <1>1, <4>1 DEF Inv, TypeOK, Entry, NoEntry
      <4>. QED BY <1>1, <3>2, <4>1, <4>2, PurgedAlive, CacheAssumption
               DEF CacheAssumption, Inv, TypeOK
    <3>. QED BY <1>1, <3>1, <3>3 DEF Inv, TypeOK
  <2>2. ASSUME NEW q \in RequestIDs,
               served' = served \/ served' = [served EXCEPT ![q] = Never]
        PROVE  Step
    BY <1>1, <2>2 DEF Inv, TypeOK
  <2>. QED BY <1>1, <2>1, <2>2
           DEF Next, Tick, TryUncached, NewTry, BindRequest, Complete, Capture,
               ObserveEvent, CaptureEvent
<1>2. Inv /\ [Next]_vars => [Step]_vars
  BY <1>1
<1>. QED BY <1>2, Invariance, PTL DEF Spec, FixedLifetime

-----------------------------------------------------------------------------
(* The bounds of the two maps *)

\* Room in a map, and the newer ones of an entry, by which eviction decides.
Fits(map, absent, max) == Cardinality(Present(map, absent)) <= max

Newer(map, absent, x) == {y \in Present(map, absent) : Older(map, x, y)}

\* An older entry has more newer ones: the orders of age and of name are total.
LEMMA OlderHasMore ==
    ASSUME NEW D \in SUBSET Nat, IsFiniteSet(D), NEW S, NEW map \in [D -> S], NEW absent,
           \A x \in D : map[x].at \in Nat,
           NEW x \in Present(map, absent), NEW y \in Present(map, absent), Older(map, x, y)
    PROVE  Cardinality(Newer(map, absent, y)) < Cardinality(Newer(map, absent, x))
<1>1. IsFiniteSet(Newer(map, absent, x)) /\ IsFiniteSet(Newer(map, absent, y))
  <2>1. Newer(map, absent, x) \subseteq D /\ Newer(map, absent, y) \subseteq D
    BY DEF Newer, Present
  <2>. QED BY <2>1, FS_Subset
<1>0. \A z \in Present(map, absent) : z \in Nat /\ map[z].at \in Nat
  BY DEF Present
<1>2. Newer(map, absent, y) \subseteq Newer(map, absent, x)
  BY <1>0 DEF Newer, Older
<1>3. y \in Newer(map, absent, x) /\ y \notin Newer(map, absent, y)
  BY DEF Newer, Present, Older
<1>4. /\ Cardinality(Newer(map, absent, y)) <= Cardinality(Newer(map, absent, x))
      /\ Cardinality(Newer(map, absent, y)) # Cardinality(Newer(map, absent, x))
  BY <1>1, <1>2, <1>3, FS_Subset
<1>. QED BY <1>1, <1>4, FS_CardinalityType

\* Eviction leaves room for one more: the number of newer ones tells what stays
\* apart, and is below max - 1.
LEMMA EvictedRoom ==
    ASSUME NEW D \in SUBSET Nat, IsFiniteSet(D), NEW S, NEW map \in [D -> S], NEW absent,
           \A x \in D : map[x].at \in Nat, NEW max \in Nat \ {0}
    PROVE  Fits(Evicted(map, absent, max), absent, max - 1)
<1>. DEFINE P == Present(Evicted(map, absent, max), absent)
            rank == [x \in P |-> Cardinality(Newer(map, absent, x))]
<1>2. \A x : Cardinality(Newer(map, absent, x)) \in Nat
  <2>1. ASSUME NEW x PROVE IsFiniteSet(Newer(map, absent, x))
    <3>1. Newer(map, absent, x) \subseteq D
      BY DEF Newer, Present
    <3>. QED BY <3>1, FS_Subset
  <2>. QED BY <2>1, FS_CardinalityType
<1>1. ASSUME NEW x \in P
      PROVE  x \in D /\ x \in Present(map, absent)
             /\ Cardinality(Newer(map, absent, x)) < max - 1
  <2>1. x \in D /\ Evicted(map, absent, max)[x] # absent
    BY DEF Present, Evicted
  <2>2. Evicted(map, absent, max)[x] = IF Cardinality(Newer(map, absent, x)) >= max - 1
                                       THEN absent ELSE map[x]
    BY <2>1 DEF Evicted, Newer
  <2>. QED BY <1>2, <2>1, <2>2 DEF Present
<1>. HIDE DEF P
<1>3. rank \in [P -> 0..(max - 2)]
  BY <1>1, <1>2
<1>4. ASSUME NEW x \in P, NEW y \in P, rank[x] = rank[y] PROVE x = y
  <2>1. Cardinality(Newer(map, absent, x)) = Cardinality(Newer(map, absent, y))
    BY <1>4
  <2>2. ~Older(map, x, y) /\ ~Older(map, y, x)
    <3>1. x \in Present(map, absent) /\ y \in Present(map, absent)
      BY <1>1
    <3>2. ASSUME Older(map, x, y) PROVE FALSE
      <4>1. Cardinality(Newer(map, absent, y)) < Cardinality(Newer(map, absent, x))
        BY <3>1, <3>2, OlderHasMore
      <4>. QED BY <1>2, <2>1, <4>1
    <3>3. ASSUME Older(map, y, x) PROVE FALSE
      <4>1. Cardinality(Newer(map, absent, x)) < Cardinality(Newer(map, absent, y))
        BY <3>1, <3>3, OlderHasMore
      <4>. QED BY <1>2, <2>1, <4>1
    <3>. QED BY <3>2, <3>3
  <2>3. x \in Nat /\ y \in Nat /\ map[x].at \in Nat /\ map[y].at \in Nat
    BY <1>1
  <2>. QED BY <2>2, <2>3 DEF Older
<1>5. IsFiniteSet(0..(max - 2)) /\ Cardinality(0..(max - 2)) = max - 1
  BY FS_Interval
<1>6. rank \in Injection(P, 0..(max - 2))
  BY <1>3, <1>4 DEF Injection, IsInjective
<1>7. Cardinality(P) <= max - 1
  BY <1>5, <1>6, FS_Injection
<1>. QED BY <1>7 DEF Fits, P

\* A map with no more entries than one that fits.
LEMMA FewerFit ==
    ASSUME NEW map, NEW new, NEW absent, NEW max \in Nat, IsFiniteSet(Present(map, absent)),
           Present(new, absent) \subseteq Present(map, absent), Fits(map, absent, max)
    PROVE  Fits(new, absent, max)
<1>1. /\ IsFiniteSet(Present(new, absent))
      /\ Cardinality(Present(new, absent)) <= Cardinality(Present(map, absent))
  BY FS_Subset
<1>. QED BY <1>1, FS_CardinalityType DEF Fits

\* One more entry in a map that has room for it.
LEMMA OneMoreFits ==
    ASSUME NEW D, NEW S, NEW map \in [D -> S], NEW absent, NEW max \in Nat \ {0}, NEW x, NEW e,
           IsFiniteSet(D), Fits(map, absent, max - 1)
    PROVE  Fits([map EXCEPT ![x] = e], absent, max)
<1>. DEFINE old == Present(map, absent)
            new == Present([map EXCEPT ![x] = e], absent)
<1>1. IsFiniteSet(old)
  <2>1. old \subseteq D
    BY DEF Present
  <2>. QED BY <2>1, FS_Subset
<1>2. new \subseteq old \cup {x}
  BY DEF Present
<1>. HIDE DEF old, new
<1>3. IsFiniteSet(old \cup {x}) /\ Cardinality(old \cup {x}) <= Cardinality(old) + 1
  <2>1. Cardinality(old) \in Nat
    BY <1>1, FS_CardinalityType
  <2>2. /\ IsFiniteSet(old \cup {x})
        /\ Cardinality(old \cup {x}) = IF x \in old THEN Cardinality(old)
                                                    ELSE Cardinality(old) + 1
    BY <1>1, FS_AddElement, Zenon
  <2>. QED BY <2>1, <2>2
<1>4. IsFiniteSet(new) /\ Cardinality(new) <= Cardinality(old \cup {x})
  BY <1>2, <1>3, FS_Subset
<1>5. Cardinality(new) \in Nat /\ Cardinality(old \cup {x}) \in Nat /\ Cardinality(old) \in Nat
  BY <1>1, <1>3, <1>4, FS_CardinalityType
<1>. QED BY <1>3, <1>4, <1>5 DEF Fits, old, new

\* An entry that is replaced takes no room, another one gets it by eviction.
LEMMA PutFits ==
    ASSUME NEW D \in SUBSET Nat, IsFiniteSet(D), NEW S, NEW map \in [D -> S], NEW absent,
           \A x \in D : map[x].at \in Nat, NEW max \in Nat \ {0}, NEW k \in D, NEW e,
           Fits(map, absent, max)
    PROVE  Fits([(IF map[k] # absent THEN map ELSE Evicted(map, absent, max)) EXCEPT ![k] = e],
                absent, max)
<1>1. CASE map[k] # absent
  <2>1. Present([map EXCEPT ![k] = e], absent) \subseteq Present(map, absent)
    BY <1>1 DEF Present
  <2>2. IsFiniteSet(Present(map, absent))
    <3>1. Present(map, absent) \subseteq D
      BY DEF Present
    <3>. QED BY <3>1, FS_Subset
  <2>. QED BY <1>1, <2>1, <2>2, FewerFit
<1>2. CASE map[k] = absent
  <2>1. Evicted(map, absent, max) \in [D -> S \cup {absent}]
    BY DEF Evicted
  <2>. QED BY <1>2, <2>1, EvictedRoom, OneMoreFits
<1>. QED BY <1>1, <1>2

\* What both maps have: finitely many keys, ordered by age.
LEMMA MapsAged ==
    ASSUME TypeOK
    PROVE  /\ IsFiniteSet(Keys) /\ Keys \in SUBSET Nat
           /\ IsFiniteSet(RequestIDs) /\ RequestIDs \in SUBSET Nat
           /\ entries \in [Keys -> Entry \cup {NoEntry}]
           /\ pending \in [RequestIDs -> Binding \cup {NoBinding}]
           /\ \A e \in Entry \cup {NoEntry} : e.at \in Nat
           /\ \A b \in Binding \cup {NoBinding} : b.at \in Nat
           /\ IsFiniteSet(Present(entries, NoEntry))
           /\ IsFiniteSet(Present(pending, NoBinding))
<1>1. Present(entries, NoEntry) \subseteq Keys /\ Present(pending, NoBinding) \subseteq RequestIDs
  BY DEF Present, TypeOK
<1>2. IsFiniteSet(Keys) /\ IsFiniteSet(RequestIDs)
  BY CacheAssumption
<1>3. IsFiniteSet(Present(entries, NoEntry)) /\ IsFiniteSet(Present(pending, NoBinding))
  BY <1>1, <1>2, FS_Subset
<1>4. ASSUME NEW e \in Entry \cup {NoEntry} PROVE e.at \in Nat
  BY DEF Entry, NoEntry
<1>5. ASSUME NEW b \in Binding \cup {NoBinding} PROVE b.at \in Nat
  BY DEF Binding, NoBinding
<1>6. Keys \in SUBSET Nat /\ RequestIDs \in SUBSET Nat
  BY CacheAssumption
<1>7. /\ entries \in [Keys -> Entry \cup {NoEntry}]
      /\ pending \in [RequestIDs -> Binding \cup {NoBinding}]
  BY DEF TypeOK
<1>. QED BY <1>2, <1>3, <1>4, <1>5, <1>6, <1>7

\* A purged map still fits.
LEMMA PurgedFits ==
    ASSUME TypeOK, CacheBounded
    PROVE  /\ Fits(Purged(entries, NoEntry, StateTTL), NoEntry, MaxEntries)
           /\ Fits(Purged(pending, NoBinding, PendingTTL), NoBinding, MaxPendingEntries)
<1>1. Present(Purged(entries, NoEntry, StateTTL), NoEntry) \subseteq Present(entries, NoEntry)
  BY DEF Present, Purged
<1>2. Present(Purged(pending, NoBinding, PendingTTL), NoBinding) \subseteq Present(pending, NoBinding)
  BY DEF Present, Purged
<1>3. Fits(entries, NoEntry, MaxEntries) /\ Fits(pending, NoBinding, MaxPendingEntries)
  BY DEF CacheBounded, Fits
<1>. QED BY <1>1, <1>2, <1>3, MapsAged, FewerFit, CacheAssumption

\* Binding a request keeps the bound of pending.
LEMMA BoundFits ==
    ASSUME TypeOK, CacheBounded, NEW q \in RequestIDs, NEW k
    PROVE  Fits(Bound(q, k), NoBinding, MaxPendingEntries)
<1>. DEFINE kept == Purged(pending, NoBinding, PendingTTL)
            new == [key |-> k, plan |-> NoPlan, at |-> now]
<1>1. kept \in [RequestIDs -> Binding \cup {NoBinding}]
  BY MapsAged, MapTypes
<1>2. \A x \in RequestIDs : kept[x].at \in Nat
  BY <1>1, MapsAged
<1>3. Fits(kept, NoBinding, MaxPendingEntries)
  BY PurgedFits
<1>4. Bound(q, k) = [(IF kept[q] # NoBinding THEN kept
                      ELSE Evicted(kept, NoBinding, MaxPendingEntries)) EXCEPT ![q] = new]
  BY DEF Bound
<1>. HIDE DEF kept, new
<1>5. MaxPendingEntries \in Nat \ {0} /\ IsFiniteSet(RequestIDs) /\ RequestIDs \in SUBSET Nat
  BY CacheAssumption
<1>6. ASSUME NEW map, map = kept, NEW e
      PROVE  Fits([(IF map[q] # NoBinding THEN map
                    ELSE Evicted(map, NoBinding, MaxPendingEntries)) EXCEPT ![q] = e],
                  NoBinding, MaxPendingEntries)
  <2>1. /\ map \in [RequestIDs -> Binding \cup {NoBinding}]
        /\ \A x \in RequestIDs : map[x].at \in Nat
        /\ Fits(map, NoBinding, MaxPendingEntries)
    BY <1>1, <1>2, <1>3, <1>6
  <2>. QED BY <1>5, <2>1, PutFits
<1>. QED BY <1>4, <1>6

\* Storing an answer keeps the bounds.
LEMMA StoreFits ==
    ASSUME TypeOK, CacheBounded, NEW q \in RequestIDs, NEW n, NEW a, StoreResponse(q, n, a)
    PROVE  CacheBounded'
<1>. DEFINE kept == Purged(entries, NoEntry, StateTTL)
            bound == Purged(pending, NoBinding, PendingTTL)
            key == pending[q].key
<1>1. Fits(kept, NoEntry, MaxEntries) /\ Fits(bound, NoBinding, MaxPendingEntries)
  BY PurgedFits
<1>2. kept \in [Keys -> Entry \cup {NoEntry}]
  BY MapsAged, MapTypes
<1>3. \A x \in Keys : kept[x].at \in Nat
  BY <1>2, MapsAged
<1>4. pending' = bound
  BY DEF StoreResponse
<1>5. CASE entries' = kept
  BY <1>1, <1>4, <1>5 DEF CacheBounded, Fits
<1>6. CASE bound[q] # NoBinding /\ entries' = Stored(kept, q, n)
  <2>1. key \in Keys
    <3>1. bound[q] \in {pending[q], NoBinding}
      BY MapsAged, PurgedOnlyRemoves
    <3>. QED BY <1>6, <3>1, MapsAged DEF Binding
  <2>2. PICK e : entries' = [(IF kept[key] # NoEntry THEN kept
                              ELSE Evicted(kept, NoEntry, MaxEntries)) EXCEPT ![key] = e]
    BY <1>6 DEF Stored
  <2>3. MaxEntries \in Nat \ {0} /\ IsFiniteSet(Keys) /\ Keys \in SUBSET Nat
    BY CacheAssumption
  <2>. HIDE DEF kept, key
  <2>4. Fits(entries', NoEntry, MaxEntries)
    BY <1>1, <1>2, <1>3, <2>1, <2>2, <2>3, PutFits
  <2>. QED BY <1>1, <1>4, <2>4 DEF CacheBounded, Fits
<1>. QED BY <1>5, <1>6 DEF StoreResponse

\* Every step keeps the bounds.
LEMMA BoundedNext == TypeOK /\ CacheBounded /\ [Next]_vars => CacheBounded'
<1>. SUFFICES ASSUME TypeOK, CacheBounded, [Next]_vars PROVE CacheBounded'
  OBVIOUS
<1>1. Fits(entries, NoEntry, MaxEntries) /\ Fits(pending, NoBinding, MaxPendingEntries)
  BY DEF CacheBounded, Fits
<1>2. ASSUME NEW q \in RequestIDs, ForgetRequest(q) PROVE CacheBounded'
  <2>1. Present(pending', NoBinding) \subseteq Present(pending, NoBinding)
    BY <1>2 DEF ForgetRequest, Present, TypeOK
  <2>2. Fits(pending', NoBinding, MaxPendingEntries)
    BY <1>1, <2>1, MapsAged, FewerFit, CacheAssumption
  <2>. QED BY <1>1, <1>2, <2>2 DEF ForgetRequest, CacheBounded, Fits
<1>3. ASSUME NEW q \in RequestIDs, NEW k, BindRequest(q, k) PROVE CacheBounded'
  BY <1>3, PurgedFits, BoundFits DEF BindRequest, CacheBounded, Fits
<1>4. ASSUME purgeExpiredLocked PROVE CacheBounded'
  BY <1>4, PurgedFits DEF purgeExpiredLocked, CacheBounded, Fits
<1>5. ASSUME NEW q \in RequestIDs, NEW n, NEW a, ObserveEvent(q, n, a) PROVE CacheBounded'
  <2>1. Present(pending', NoBinding) \subseteq Present(pending, NoBinding)
    BY <1>5 DEF ObserveEvent, Present, TypeOK
  <2>2. Fits(pending', NoBinding, MaxPendingEntries)
    BY <1>1, <2>1, MapsAged, FewerFit, CacheAssumption
  <2>. QED BY <1>1, <1>5, <2>2 DEF ObserveEvent, CacheBounded, Fits
<1>6. ASSUME UNCHANGED <<entries, pending>> PROVE CacheBounded'
  BY <1>6 DEF CacheBounded
<1>. QED BY <1>2, <1>3, <1>4, <1>5, <1>6, StoreFits
         DEF Next, Tick, TryUncached, Lookup, Complete, Capture, CaptureEvent, vars

\* For any bounds, keys and requests: both maps stay within their bounds, since
\* the number of newer entries tells apart what eviction leaves (BindRequest,
\* storeLocked, evictEntriesLocked and evictPendingLocked).
THEOREM CacheBoundedHolds == Spec => []CacheBounded
<1>1. Init => CacheBounded
  <2>. SUFFICES ASSUME Init PROVE CacheBounded
    OBVIOUS
  <2>1. Present(entries, NoEntry) = {} /\ Present(pending, NoBinding) = {}
    BY DEF Init, Present
  <2>. QED BY <2>1, FS_EmptySet, CacheAssumption DEF CacheBounded
<1>. QED BY <1>1, BoundedNext, TypeCorrect, PTL DEF Spec
-----------------------------------------------------------------------------
(* What eviction chooses *)

\* Nothing that eviction takes away is newer than something it leaves.
EvictsOldest(map, absent, max) ==
    \A k, j \in DOMAIN map :
        /\ map[k] # absent /\ Evicted(map, absent, max)[k] = absent
        /\ Evicted(map, absent, max)[j] # absent
        => map[k].at <= map[j].at

\* Eviction keeps an entry only if it keeps every one that is newer.
LEMMA EvictionByAge ==
    ASSUME NEW D \in SUBSET Nat, IsFiniteSet(D), NEW S, NEW map \in [D -> S], NEW absent,
           \A x \in D : map[x].at \in Nat, NEW max \in Nat \ {0}
    PROVE  EvictsOldest(map, absent, max)
<1>. SUFFICES ASSUME NEW k \in D, NEW j \in D, map[k] # absent,
                     Evicted(map, absent, max)[k] = absent,
                     Evicted(map, absent, max)[j] # absent
              PROVE  map[k].at <= map[j].at
  BY DEF EvictsOldest
<1>1. \A x : Cardinality(Newer(map, absent, x)) \in Nat
  <2>1. ASSUME NEW x PROVE IsFiniteSet(Newer(map, absent, x))
    <3>1. Newer(map, absent, x) \subseteq D
      BY DEF Newer, Present
    <3>. QED BY <3>1, FS_Subset
  <2>. QED BY <2>1, FS_CardinalityType
<1>2. \A x \in D : Evicted(map, absent, max)[x] =
                     IF Cardinality(Newer(map, absent, x)) >= max - 1 THEN absent ELSE map[x]
  BY DEF Evicted, Newer
<1>3. /\ Cardinality(Newer(map, absent, k)) >= max - 1
      /\ ~(Cardinality(Newer(map, absent, j)) >= max - 1)
  BY <1>2
<1>4. k \in Present(map, absent) /\ j \in Present(map, absent)
  BY <1>2, <1>3 DEF Present
<1>5. ~Older(map, j, k)
  <2>1. ASSUME Older(map, j, k) PROVE FALSE
    <3>1. Cardinality(Newer(map, absent, k)) < Cardinality(Newer(map, absent, j))
      BY <1>4, <2>1, OlderHasMore
    <3>. QED BY <1>1, <1>3, <3>1
  <2>. QED BY <2>1
<1>. QED BY <1>5 DEF Older

\* Storing an answer drops, of the entries within their lifetime, the oldest only.
LEMMA StoreDropsOldest ==
    ASSUME Inv, NEW q \in RequestIDs, NEW n \in Nat, NEW a, StoreResponse(q, n, a),
           NEW k \in Keys, NEW j \in Keys,
           entries[k] # NoEntry, entries'[k] = NoEntry, now < entries[k].at + StateTTL,
           entries[j] # NoEntry, entries'[j] = entries[j]
    PROVE  entries[k].at <= entries[j].at
<1>. DEFINE kept == Purged(entries, NoEntry, StateTTL)
            bound == Purged(pending, NoBinding, PendingTTL)
            key == pending[q].key
            room == IF kept[key] # NoEntry THEN kept ELSE Evicted(kept, NoEntry, MaxEntries)
            new == [at |-> now, req |-> q, late |-> n < tries[q],
                    tried |-> IF n < tries[q] THEN NoKey ELSE current[q]]
<1>1. now \in Nat /\ StateTTL \in Nat \ {0} /\ (\A x \in Keys : entries[x].at \in Nat)
  BY MapsAged, CacheAssumption DEF Inv, TypeOK
<1>2. kept \in [Keys -> Entry \cup {NoEntry}] /\ \A x \in Keys : kept[x].at \in Nat
  <2>1. kept \in [Keys -> Entry \cup {NoEntry}]
    BY MapsAged, MapTypes DEF Inv
  <2>2. \A x \in Keys : kept[x] \in Entry \cup {NoEntry}
    BY <2>1
  <2>. HIDE DEF kept
  <2>. QED BY <2>1, <2>2, MapsAged DEF Inv
<1>3. \A x \in Keys : kept[x] = IF now >= entries[x].at + StateTTL THEN NoEntry ELSE entries[x]
  BY MapsAged DEF Purged, Inv
<1>4. kept[k] = entries[k]
  BY <1>1, <1>3
<1>5. bound[q] # NoBinding /\ entries' = Stored(kept, q, n)
  BY <1>4 DEF StoreResponse
<1>6. entries' = [room EXCEPT ![key] = new]
  BY <1>5 DEF Stored
<1>7. /\ pending[q] # NoBinding /\ key \in Keys /\ key = current[q] /\ key # NoKey
  <2>1. bound[q] \in {pending[q], NoBinding}
    BY MapsAged, PurgedOnlyRemoves DEF Inv
  <2>2. pending[q] # NoBinding /\ key \in Keys /\ key = current[q]
    BY <1>5, <2>1, MapsAged DEF Inv, BindingsCurrent, Binding
  <2>. QED BY <2>2, CacheAssumption DEF NoKey
<1>8. new # NoEntry /\ new.at = now
  <2>1. CASE n < tries[q]
    <3>1. new.late
      BY <2>1
    <3>. QED BY <3>1 DEF NoEntry
  <2>2. CASE ~(n < tries[q])
    <3>1. new.tried # NoKey
      BY <1>7, <2>2
    <3>. QED BY <3>1 DEF NoEntry
  <2>. QED BY <2>1, <2>2
<1>9. room \in [Keys -> Entry \cup {NoEntry}]
  BY <1>2, MapTypes
<1>. HIDE DEF new
<1>10. entries'[key] = new /\ \A x \in Keys \ {key} : entries'[x] = room[x]
  BY <1>6, <1>7, <1>9
<1>11. k # key /\ room[k] = NoEntry
  BY <1>8, <1>10
<1>12. kept[key] = NoEntry /\ room = Evicted(kept, NoEntry, MaxEntries)
  BY <1>4, <1>11
<1>13. j # key
  <2>1. ASSUME j = key PROVE FALSE
    <3>1. entries[j].at = now /\ kept[j] = NoEntry
      BY <1>8, <1>10, <1>12, <2>1
    <3>. QED BY <1>1, <1>3, <3>1
  <2>. QED BY <2>1
<1>14. room[j] # NoEntry /\ kept[j] = entries[j]
  <2>1. room[j] = entries[j]
    BY <1>10, <1>13
  <2>2. room[j] \in {kept[j], NoEntry}
    BY <1>2, <1>12, PurgedOnlyRemoves
  <2>. QED BY <2>1, <2>2
<1>15. MaxEntries \in Nat \ {0} /\ IsFiniteSet(Keys) /\ Keys \in SUBSET Nat
  BY CacheAssumption
<1>. HIDE DEF kept, room
<1>16. ASSUME NEW map, map = kept PROVE map[k].at <= map[j].at
  <2>1. /\ map \in [Keys -> Entry \cup {NoEntry}] /\ \A x \in Keys : map[x].at \in Nat
        /\ map[k] # NoEntry /\ Evicted(map, NoEntry, MaxEntries)[k] = NoEntry
        /\ Evicted(map, NoEntry, MaxEntries)[j] # NoEntry
    BY <1>2, <1>4, <1>11, <1>12, <1>14, <1>16
  <2>2. EvictsOldest(map, NoEntry, MaxEntries)
    BY <1>15, <2>1, EvictionByAge
  <2>. QED BY <2>1, <2>2 DEF EvictsOldest
<1>. QED BY <1>4, <1>14, <1>16

\* For any keys, bounds and lifetimes: a state that leaves the cache within its
\* lifetime was captured no later than any state that stays (storeLocked,
\* evictEntriesLocked).
THEOREM OldestEvictedHolds == Spec => OldestEvicted
<1>. DEFINE Step == \A k, j \in Keys :
                      LET evicted == /\ entries[k] # NoEntry /\ entries'[k] = NoEntry
                                     /\ now < entries[k].at + StateTTL
                          stays == entries[j] # NoEntry /\ entries'[j] = entries[j]
                      IN  evicted /\ stays => entries[k].at <= entries[j].at
<1>1. ASSUME Inv, Next PROVE Step
  <2>1. ASSUME NEW q \in RequestIDs, NEW n \in Nat, NEW a, StoreResponse(q, n, a)
        PROVE  Step
    BY <1>1, <2>1, StoreDropsOldest
  <2>2. ASSUME NEW q \in RequestIDs, CaptureEvent(q) PROVE Step
    BY <1>1, <2>1, <2>2 DEF CaptureEvent, Inv, CallbacksOfTries, Event
  <2>3. ASSUME NEW q \in RequestIDs, NEW n \in 1..MaxTries[q], NEW a \in Answers, Capture(q, n, a)
        PROVE  Step
    <3>1. n \in Nat
      BY <2>3
    <3>. QED BY <2>1, <2>3, <3>1 DEF Capture
  <2>4. ASSUME entries' = entries \/ entries' = Purged(entries, NoEntry, StateTTL) PROVE Step
    <3>1. now \in Nat /\ StateTTL \in Nat /\ \A k \in Keys : entries[k].at \in Nat
      BY <1>1, MapsAged, CacheAssumption DEF Inv, TypeOK
    <3>2. ASSUME NEW k \in Keys, entries[k] # NoEntry, entries'[k] = NoEntry
          PROVE  ~(now < entries[k].at + StateTTL)
      BY <1>1, <2>4, <3>1, <3>2, MapsAged DEF Inv, Purged
    <3>. QED BY <3>2
  <2>. QED BY <1>1, <2>2, <2>3, <2>4
           DEF Next, Tick, TryUncached, ForgetRequest, BindRequest, Lookup, Complete,
               purgeExpiredLocked, ObserveEvent
<1>2. Inv /\ [Next]_vars => [Step]_vars
  BY <1>1
<1>. QED BY <1>2, Invariance, PTL DEF Spec, OldestEvicted
=============================================================================
