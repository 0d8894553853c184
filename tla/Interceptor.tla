---------------------------- MODULE Interceptor -----------------------------
(***************************************************************************)
(* The callbacks of one plugin (internal/turnstate/interceptor.go) over    *)
(* its two stores: the passive cache and the prewarm engine.  The          *)
(* after-auth callback sends an attempt down one of two paths, a response  *)
(* callback tells both stores of an answer, and completion ends the        *)
(* request in both.                                                        *)
(*                                                                         *)
(* Each store has a lock of its own and no callback holds both: one action *)
(* is one call into one store.  The engine is here what VerifiedTickets    *)
(* lets it do to tickets and what its request path does with them; the     *)
(* cache is here one captured state per key, without ages and plans (see   *)
(* PrewarmEngine and TurnStateCache for the stores themselves).  Requests  *)
(* are younger than two hours, and an attempt in another format, which     *)
(* touches neither store and whose answers show nothing, is left out.      *)
(***************************************************************************)
EXTENDS PlanFamilies, Naturals, Sequences

CONSTANTS
    Keys, RequestIDs,
    AccountPlans,               \* bound: the plans of accounts
    EventPlans, AnswerPlans,    \* bounds: the plans that events and headers report
    MaxTries,                   \* bound: attempts of one request
    MaxVersions                 \* bound: tickets published

NoKey == "none"

ASSUME InterceptorAssumption ==
    /\ NoKey \notin Keys
    /\ AccountPlans \subseteq Plans
    /\ EventPlans \subseteq RawPlans /\ AnswerPlans \subseteq RawPlans
    /\ MaxTries \in Nat /\ MaxVersions \in Nat

VARIABLES
    \* the engine
    discovered, owned,  \* a directory was applied; the keys it ever selected
    plans, tickets,     \* the plan and the ticket of each key (a version, 0 for none)
    issued,             \* the last version published
    requests,           \* Engine.requests, NoObservation where absent
    \* the passive cache
    entries,            \* what each key has captured (see Origins)
    pending,            \* the key each request is bound to, NoKey for none
    \* the callbacks
    tries,              \* the attempts of each request
    asking,             \* where the after-auth callback of its last attempt is
    answer,             \* the response callback in flight, per request
    completing, done,   \* requests in their completion callback, and past it
    \* History, read by properties only:
    blamed,             \* <<revoked version, version of the attempt answered last>>
    refuted             \* <<version, evidence>> that a response callback has reported

engineVars == <<discovered, owned, plans, tickets, issued, requests>>
cacheVars  == <<entries, pending>>
callVars   == <<tries, asking, answer, completing, done>>
history    == <<blamed, refuted>>
vars == <<engineVars, cacheVars, callVars, history>>

\* Whose answer a captured state is: an earlier attempt's, or the latest one's
\* on the passive or on the verified path.
Origins == {"empty", "late", "passive", "verified"}

\* What an attempt went out with.
Given == {"nothing", "captured", "ticket"}

Attempt == [key : Keys \cup {NoKey}, managed : BOOLEAN, given : Given, version : Nat]

NoObservation == [key |-> NoKey, version |-> 0, observing |-> FALSE]

Observation == [key : Keys, version : Nat, observing : BOOLEAN] \cup {NoObservation}

Kinds == {"http", "init", "chunk", "event"}

\* What an answer shows.  "good" is one state of an accepted length, "bad" one
\* of the rejected length or several states; mismatch is the verdict on the body.
Answer == [pc : {"headers", "body", "capture"}, kind : Kinds, try : Nat \ {0},
           plan : RawPlans, state : {"none", "good", "bad"}, mismatch : BOOLEAN]

NoAnswer == [pc |-> "none"]

-----------------------------------------------------------------------------
(* The engine, apart from its requests. *)

\* In automatic mode with account filters every configured key is verified-only
\* until a first directory says which accounts the filters select.
Manages(k) == ~discovered \/ k \in owned

\* A directory is applied: keys that it selects stay owned, with a plan or
\* without; a key whose plan changes loses its ticket.
Discover ==
    /\ discovered' = TRUE
    /\ plans' \in [Keys -> AccountPlans \cup {NoPlan}]
    /\ \E selected \in SUBSET Keys :
          /\ {k \in Keys : plans'[k] # NoPlan} \subseteq selected
          /\ owned' = owned \cup selected
    /\ tickets' = [k \in Keys |-> IF plans'[k] = plans[k] THEN tickets[k] ELSE 0]
    /\ UNCHANGED <<issued, requests, cacheVars, callVars, history>>

\* Mutant: the version is not counted.
PublishUncounted(k) ==
    /\ plans[k] # NoPlan /\ issued < MaxVersions
    /\ tickets' = [tickets EXCEPT ![k] = issued + 1]
    /\ UNCHANGED <<discovered, owned, plans, issued, requests, cacheVars, callVars, history>>

\* A round publishes a ticket.
Publish(k) ==
    /\ plans[k] # NoPlan /\ issued < MaxVersions
    /\ issued' = issued + 1
    /\ tickets' = [tickets EXCEPT ![k] = issued']
    /\ UNCHANGED <<discovered, owned, plans, requests, cacheVars, callVars, history>>

-----------------------------------------------------------------------------
(* The after-auth callback. *)

Latest(q) == tries[q][Len(tries[q])]

\* The host runs the attempts of a request one after the other.
MayTry(q) ==
    /\ asking[q] = "none" /\ q \notin completing \cup done
    /\ Len(tries[q]) < MaxTries

Begins(q, k, managed) ==
    tries' = [tries EXCEPT ![q] = Append(@, [key |-> k, managed |-> managed,
                                             given |-> "nothing", version |-> 0])]

Goes(q, pc) == asking' = [asking EXCEPT ![q] = pc]

\* The attempt goes out with what the callback found.
Gives(q, given, version) ==
    tries' = [tries EXCEPT ![q][Len(tries[q])].given = given,
                           ![q][Len(tries[q])].version = version]

ForgetRequest(q) == pending' = [pending EXCEPT ![q] = NoKey]

\* No request ID, account or model: the cache forgets, the engine is not told.
TryUnkeyed(q) ==
    /\ MayTry(q)
    /\ Begins(q, NoKey, FALSE)
    /\ ForgetRequest(q)
    /\ UNCHANGED <<entries, asking, answer, completing, done, engineVars, history>>

AskManages(q, k) ==
    /\ MayTry(q)
    /\ Begins(q, k, Manages(k))
    /\ Goes(q, IF Manages(k) THEN "forget" ELSE "bind")
    /\ UNCHANGED <<answer, completing, done, engineVars, cacheVars, history>>

\* Mutant: the binding of an earlier attempt stays.
ForgetsNothing(q) ==
    /\ asking[q] = "forget"
    /\ Goes(q, "eligible")
    /\ UNCHANGED <<cacheVars, tries, answer, completing, done, engineVars, history>>

\* The verified path leaves the passive cache first ...
Forget(q) ==
    /\ asking[q] = "forget"
    /\ ForgetRequest(q)
    /\ Goes(q, "eligible")
    /\ UNCHANGED <<entries, tries, answer, completing, done, engineVars, history>>

\* ... and enters Bind, which returns at once for a key it does not serve.
BindEligible(q) ==
    LET k == Latest(q).key
    IN  /\ asking[q] = "eligible"
        /\ Goes(q, IF Manages(k) /\ plans[k] # NoPlan THEN "decide" ELSE "none")
        /\ UNCHANGED <<tries, answer, completing, done, engineVars, cacheVars, history>>

Tombstoned(q) ==
    IF requests[q] = NoObservation THEN requests
    ELSE [requests EXCEPT ![q].observing = FALSE]

\* The last section of Bind, after the account was described: there is no ticket,
\* the description refutes it, or something else (a state of the caller's own, a
\* full table) speaks against it; or the ticket is injected.
BindDecide(q) ==
    LET k == Latest(q).key
    IN  /\ asking[q] = "decide"
        /\ Goes(q, "none")
        /\ \/ /\ requests' = Tombstoned(q)
              /\ tickets' \in {tickets, [tickets EXCEPT ![k] = 0]}
              /\ UNCHANGED tries
           \/ /\ tickets[k] # 0
              /\ requests' = [requests EXCEPT ![q] =
                                [key |-> k, version |-> tickets[k],
                                 observing |-> requests[q] = NoObservation]]
              /\ Gives(q, "ticket", tickets[k])
              /\ UNCHANGED tickets
        /\ UNCHANGED <<discovered, owned, plans, issued, cacheVars, answer, completing, done,
                       history>>

\* The passive path: bind, then look up.
BindRequest(q) ==
    /\ asking[q] = "bind"
    /\ pending' = [pending EXCEPT ![q] = Latest(q).key]
    /\ Goes(q, "lookup")
    /\ UNCHANGED <<entries, tries, answer, completing, done, engineVars, history>>

Lookup(q) ==
    /\ asking[q] = "lookup"
    /\ Goes(q, "none")
    /\ IF entries[Latest(q).key] = "empty" THEN UNCHANGED tries ELSE Gives(q, "captured", 0)
    /\ UNCHANGED <<answer, completing, done, engineVars, cacheVars, history>>

\* A state or a binding expires or gives way to another one.
Expire ==
    /\ \/ /\ \E k \in Keys : entries' = [entries EXCEPT ![k] = "empty"]
          /\ UNCHANGED pending
       \/ /\ \E q \in RequestIDs : ForgetRequest(q)
          /\ UNCHANGED entries
    /\ UNCHANGED <<engineVars, callVars, history>>

-----------------------------------------------------------------------------
(* The response callbacks.  They name their request, not their attempt. *)

\* The answers that a callback of each kind reports.
AnswersOf(kind) ==
    [pc : {IF kind = "chunk" THEN "body" ELSE "headers"}, kind : {kind}, try : 1..MaxTries,
     plan : CASE kind = "event" -> EventPlans [] kind = "chunk" -> {NoPlan}
              [] OTHER -> AnswerPlans,
     state : IF kind = "chunk" THEN {"none"} ELSE {"none", "good", "bad"},
     mismatch : IF kind = "init" THEN {FALSE} ELSE BOOLEAN]

\* InterceptResponse, InterceptStreamChunk on the headers and on a chunk, and
\* ObserveWebSocketResponseEvent begin.  An answer may come late.
Respond(q, r) ==
    /\ answer[q] = NoAnswer
    /\ \/ r.try < Len(tries[q])
       \/ r.try = Len(tries[q]) /\ asking[q] = "none"
    /\ answer' = [answer EXCEPT ![q] = r]
    /\ UNCHANGED <<tries, asking, completing, done, engineVars, cacheVars, history>>

\* invalidateLocked, on what the n-th attempt of q answered.
Invalidate(q, n) ==
    LET o == requests[q]
    IN  IF o.observing /\ tickets[o.key] = o.version
        THEN /\ tickets' = [tickets EXCEPT ![o.key] = 0]
             /\ blamed' = IF n = Len(tries[q])
                          THEN blamed \cup {<<o.version, tries[q][n].version>>} ELSE blamed
        ELSE UNCHANGED <<tickets, blamed>>

\* The callback for a WebSocket event hands the engine the event's state only.
HeaderPlan(r) == IF r.kind = "event" THEN NoPlan ELSE r.plan

\* Mutant: the engine is not given the body of a whole response or an event.
AfterHeadersNothing(r) == "capture"

AfterHeaders(r) == IF r.kind = "init" THEN "capture" ELSE "body"

Headers(q) ==
    LET r == answer[q]
        refutes == \/ ~PlanMatches(HeaderPlan(r), plans[requests[q].key])
                   \/ r.state = "bad"
    IN  /\ r.pc = "headers"
        /\ IF requests[q] # NoObservation /\ refutes
           THEN Invalidate(q, r.try)
           ELSE UNCHANGED <<tickets, blamed>>
        /\ answer' = [answer EXCEPT ![q].pc = AfterHeaders(r)]
        /\ UNCHANGED <<discovered, owned, plans, issued, requests, cacheVars, tries, asking,
                       completing, done, refuted>>

\* The request has had one attempt, which goes on, with a ticket.
Watched(q) ==
    /\ Len(tries[q]) = 1 /\ asking[q] = "none" /\ q \notin completing \cup done
    /\ tries[q][1].given = "ticket"

\* What a whole response callback showed against the ticket of a watched request.
Report(q) ==
    LET r == answer[q]
        v == tries[q][1].version
        planRefutes == ~PlanMatches(r.plan, plans[tries[q][1].key])
        seen == \/ r.mismatch \/ r.state = "bad"
                \/ planRefutes /\ r.kind # "event"
    IN  refuted' = refuted \cup (IF Watched(q) /\ seen THEN {<<v, "seen">>} ELSE {})
                           \cup (IF Watched(q) /\ planRefutes /\ r.kind = "event"
                                 THEN {<<v, "event plan">>} ELSE {})

\* JSON or Chunk: the completed response names another model.
Body(q) ==
    LET r == answer[q]
    IN  /\ r.pc = "body"
        /\ IF r.mismatch THEN Invalidate(q, r.try) ELSE UNCHANGED <<tickets, blamed>>
        /\ IF r.kind = "chunk"
           THEN answer' = [answer EXCEPT ![q] = NoAnswer] /\ Report(q)
           ELSE answer' = [answer EXCEPT ![q].pc = "capture"] /\ UNCHANGED refuted
        /\ UNCHANGED <<discovered, owned, plans, issued, requests, cacheVars, tries, asking,
                       completing, done>>

Origin(q, n) ==
    IF n < Len(tries[q]) THEN "late"
    ELSE IF tries[q][n].managed THEN "verified" ELSE "passive"

\* capture or captureWebSocket: the cache may store the state under the key the
\* request is bound to now.
Capture(q) ==
    LET r == answer[q]
    IN  /\ r.pc = "capture"
        /\ entries' \in {entries} \cup
              (IF r.state = "good" /\ pending[q] # NoKey
               THEN {[entries EXCEPT ![pending[q]] = Origin(q, r.try)]} ELSE {})
        /\ answer' = [answer EXCEPT ![q] = NoAnswer]
        /\ Report(q)
        /\ UNCHANGED <<engineVars, pending, tries, asking, completing, done, blamed>>

-----------------------------------------------------------------------------
(* HandleRequestComplete: the cache forgets the request, then the engine. *)

CompleteCache(q) ==
    /\ asking[q] = "none" /\ tries[q] # <<>> /\ q \notin completing \cup done
    /\ ForgetRequest(q)
    /\ completing' = completing \cup {q}
    /\ UNCHANGED <<entries, tries, asking, answer, done, engineVars, history>>

\* Mutant: the last bytes are looked at, the observation stays.
DroppedNever(q) == requests

\* A tombstone stays until it is two hours old.
Dropped(q) == IF requests[q].observing
              THEN [requests EXCEPT ![q] = NoObservation] ELSE requests

\* What the observer still holds may be a completed response of another model.
CompleteEngine(q, mismatch) ==
    /\ q \in completing
    /\ completing' = completing \ {q} /\ done' = done \cup {q}
    /\ requests' = Dropped(q)
    /\ IF mismatch THEN Invalidate(q, Len(tries[q])) ELSE UNCHANGED <<tickets, blamed>>
    /\ UNCHANGED <<discovered, owned, plans, issued, cacheVars, tries, asking, answer, refuted>>

-----------------------------------------------------------------------------
Init ==
    /\ discovered = FALSE /\ owned = {}
    /\ plans = [k \in Keys |-> NoPlan]
    /\ tickets = [k \in Keys |-> 0] /\ issued = 0
    /\ requests = [q \in RequestIDs |-> NoObservation]
    /\ entries = [k \in Keys |-> "empty"]
    /\ pending = [q \in RequestIDs |-> NoKey]
    /\ tries = [q \in RequestIDs |-> <<>>]
    /\ asking = [q \in RequestIDs |-> "none"]
    /\ answer = [q \in RequestIDs |-> NoAnswer]
    /\ completing = {} /\ done = {}
    /\ blamed = {} /\ refuted = {}

Next ==
    \/ Discover \/ Expire
    \/ \E k \in Keys : Publish(k)
    \/ \E q \in RequestIDs :
          \/ \E k \in Keys : AskManages(q, k)
          \/ TryUnkeyed(q) \/ Forget(q) \/ BindEligible(q) \/ BindDecide(q)
          \/ BindRequest(q) \/ Lookup(q)
          \/ \E kind \in Kinds : \E r \in AnswersOf(kind) : Respond(q, r)
          \/ Headers(q) \/ Body(q) \/ Capture(q)
          \/ CompleteCache(q) \/ \E mismatch \in BOOLEAN : CompleteEngine(q, mismatch)

Spec == Init /\ [][Next]_vars

-----------------------------------------------------------------------------
(* Properties *)

\* The value of every variable has its type.
TypeOK ==
    /\ discovered \in BOOLEAN /\ owned \subseteq Keys
    /\ plans \in [Keys -> Plans \cup {NoPlan}]
    /\ tickets \in [Keys -> 0..issued] /\ issued \in Nat
    /\ requests \in [RequestIDs -> Observation]
    /\ entries \in [Keys -> Origins]
    /\ pending \in [RequestIDs -> Keys \cup {NoKey}]
    /\ tries \in [RequestIDs -> Seq(Attempt)]
    /\ asking \in [RequestIDs -> {"none", "forget", "eligible", "decide", "bind", "lookup"}]
    /\ answer \in [RequestIDs -> Answer \cup {NoAnswer}]
    /\ completing \subseteq RequestIDs /\ done \subseteq RequestIDs

\* The two paths do not mix: an attempt that was verified-only when it began
\* goes out with a ticket or with nothing, and what it answers is not captured,
\* even if an earlier attempt of its request was on the passive path and keys
\* become verified-only in between (interceptor.go, InterceptRequestAfterAuth:
\* "verified tickets exclusively, never passive captures").
VerifiedOnly ==
    /\ \A k \in Keys : entries[k] # "verified"
    /\ \A q \in RequestIDs : \A n \in 1..Len(tries[q]) :
          tries[q][n].managed => tries[q][n].given # "captured"

\* What a response visibly shows against the ticket its request carries revokes
\* that ticket by the time the callback returns, whichever callback reports it
\* (interceptor.go, InterceptResponse, InterceptStreamChunk and
\* ObserveWebSocketResponseEvent; engine.go, Headers, JSON and Chunk).
RefutationsRevoke == \A k \in Keys : <<tickets[k], "seen">> \notin refuted

\* A completed request is bound and observed nowhere any more, whatever response
\* callbacks ran beside its completion (HandleRequestComplete).
CompletedLeavesNothing ==
    \A q \in done : pending[q] = NoKey /\ ~requests[q].observing

\* README.md taken at its word: a known plan mismatch revokes the ticket, also
\* when a WebSocket event reports it (ObserveWebSocketResponseEvent).
EventPlansRevoke == \A k \in Keys : <<tickets[k], "event plan">> \notin refuted

\* docs/proxy-pool-design.md taken at its word: the watchdog of a request that is
\* bound again is suppressed, also when its next attempt goes down the passive
\* path (InterceptRequestAfterAuth), so that the answer of a request's latest
\* attempt revokes only the ticket injected into that attempt.
ReboundSuppressed == \A b \in blamed : b[1] = b[2]
=============================================================================
