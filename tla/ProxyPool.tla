----------------------------- MODULE ProxyPool ------------------------------
(***************************************************************************)
(* The harvest proxy pool of the prewarm engine: round-robin over proxies  *)
(* that are not cooling down, with one preferred proxy that every worker   *)
(* uses until a failure is charged to it (engine.go, chooseProxyLocked and *)
(* markProxy).  The operators work on one pool record, which the engine    *)
(* only reads and writes under its lock.                                   *)
(***************************************************************************)
EXTENDS Integers

CONSTANTS NumProxies,   \* the configured proxies, indexed from 0
          Cooldown,     \* cooldown_seconds; also caps a proxy's back-off
          BackoffUnit   \* the back-off added per consecutive failure (a minute)

ASSUME PoolAssumption ==
    /\ NumProxies \in Nat \ {0}
    /\ Cooldown \in Nat \ {0}
    /\ BackoffUnit \in Nat \ {0}

Proxies == 0 .. NumProxies - 1

NoProxy == -1

Pool == [next     : Proxies,
         good     : Proxies \cup {NoProxy},
         failures : [Proxies -> Nat],
         cooldown : [Proxies -> Nat]]

InitPool == [next |-> 0, good |-> NoProxy,
             failures |-> [p \in Proxies |-> 0],
             cooldown |-> [p \in Proxies |-> 0]]

Cooling(pool, p, now) == now < pool.cooldown[p]

\* The preferred proxy is forgotten once it is cooling down.
DropCooling(pool, now) ==
    IF pool.good # NoProxy /\ Cooling(pool, pool.good, now)
    THEN [pool EXCEPT !.good = NoProxy]
    ELSE pool

\* How far p is from the rotation pointer.
Distance(pool, p) == (p - pool.next) % NumProxies

\* p is what a choice returns: the preferred proxy, else the first one at or
\* after the rotation pointer that is not cooling down, else NoProxy.
IsChosen(pool, p, now) ==
    LET current == DropCooling(pool, now)
    IN  IF current.good # NoProxy
        THEN p = current.good
        ELSE \/ /\ p \in Proxies
                /\ ~Cooling(pool, p, now)
                /\ \A q \in Proxies : ~Cooling(pool, q, now)
                                        => Distance(pool, p) <= Distance(pool, q)
             \/ /\ p = NoProxy
                /\ \A q \in Proxies : Cooling(pool, q, now)

\* Mutant: the pointer runs off the end of the list.
AfterChoiceNoWrap(pool, p, now) ==
    IF pool.good # NoProxy \/ p = NoProxy THEN pool ELSE [pool EXCEPT !.next = p + 1]

\* The pool after p was chosen: only the rotation moves its pointer.
AfterChoice(pool, p, now) ==
    LET current == DropCooling(pool, now)
    IN  IF current.good # NoProxy \/ p = NoProxy
        THEN current
        ELSE [current EXCEPT !.next = (p + 1) % NumProxies]

\* A verified ticket makes its proxy the preferred one and clears its record.
MarkSuccess(pool, p) ==
    [pool EXCEPT !.good = p, !.failures[p] = 0, !.cooldown[p] = 0]

Backoff(failures) ==
    IF failures * BackoffUnit > Cooldown THEN Cooldown ELSE failures * BackoffUnit

\* Mutant: the preferred proxy stays preferred while it backs off.
MarkFailureKeepsGood(pool, p, now) ==
    [pool EXCEPT !.failures[p] = @ + 1,
                 !.cooldown[p] = now + Backoff(pool.failures[p] + 1)]

\* A failed round is charged to its harvest proxy.
MarkFailure(pool, p, now) ==
    [pool EXCEPT !.failures[p] = @ + 1,
                 !.cooldown[p] = now + Backoff(pool.failures[p] + 1),
                 !.good = IF @ = p THEN NoProxy ELSE @]
=============================================================================
