------------------------- MODULE InterceptorProofs --------------------------
(***************************************************************************)
(* Proofs about Interceptor, for any keys, requests and bounds: the two    *)
(* paths do not mix, completion leaves nothing behind, and what a response *)
(* callback visibly shows against a ticket revokes it.  The inductive      *)
(* invariant follows each callback: what its last call into one store has  *)
(* established when the call into the other store comes.                   *)
(***************************************************************************)
EXTENDS Interceptor, TLAPS

\* Where a request stands in its callbacks.
CallOrdered(q) ==
    /\ asking[q] # "none" => /\ tries[q] # <<>>
                             /\ Latest(q).key \in Keys /\ Latest(q).given = "nothing"
                             /\ q \notin completing \cup done
    /\ asking[q] \in {"forget", "eligible", "decide"} => Latest(q).managed
    /\ asking[q] \in {"bind", "lookup"} => ~Latest(q).managed
    /\ answer[q] # NoAnswer => /\ answer[q].try <= Len(tries[q])
                               /\ answer[q].try = Len(tries[q]) => asking[q] = "none"

CallsOrdered == \A q \in RequestIDs : CallOrdered(q)

\* The passive binding of a request is its latest attempt's, on the passive path.
BindingPassive(q) ==
    /\ tries[q] # <<>> /\ Latest(q).managed /\ asking[q] # "forget" => pending[q] = NoKey
    /\ q \in completing \cup done => pending[q] = NoKey
    /\ q \in done => ~requests[q].observing

BindingsPassive == \A q \in RequestIDs : BindingPassive(q)

\* A version belongs to one key and is published once.
VersionsUnique ==
    /\ \A q \in RequestIDs : \A n \in 1..Len(tries[q]) :
          tries[q][n].given = "ticket" =>
             /\ tries[q][n].version \in 1..issued
             /\ \A k \in Keys \ {tries[q][n].key} : tickets[k] # tries[q][n].version
    /\ \A k, j \in Keys : tickets[k] = tickets[j] /\ tickets[k] # 0 => k = j
    /\ \A x \in refuted : x[1] \in 1..issued

\* A request with one attempt is observed if that attempt was given a ticket.
WatchedObserved ==
    \A q \in RequestIDs :
        /\ tries[q] = <<>> => requests[q] = NoObservation
        /\ Len(tries[q]) = 1 /\ tries[q][1].given # "ticket" => requests[q] = NoObservation
        /\ Watched(q) => requests[q] = [key |-> tries[q][1].key, observing |-> TRUE,
                                        version |-> tries[q][1].version]

\* What the callbacks of each kind can report.
AnswerShaped(q) ==
    LET r == answer[q]
    IN  r # NoAnswer =>
          /\ r.kind = "chunk" => r.pc = "body" /\ r.plan = NoPlan /\ r.state = "none"
          /\ r.kind = "init" => ~r.mismatch

AnswersShaped == \A q \in RequestIDs : AnswerShaped(q)

\* What the engine has heard of the answer in flight.
Heard(q) ==
    LET r == answer[q]
    IN  \/ r.pc = "body" /\ r.kind # "chunk"
           /\ (r.state = "bad" \/ ~PlanMatches(HeaderPlan(r), plans[tries[q][1].key]))
        \/ r.pc = "capture"
           /\ (r.state = "bad" \/ r.mismatch
               \/ ~PlanMatches(HeaderPlan(r), plans[tries[q][1].key]))

HeardRevokes ==
    \A q \in RequestIDs :
        answer[q] # NoAnswer /\ Watched(q) /\ Heard(q)
           => tickets[tries[q][1].key] # tries[q][1].version

IInv ==
    /\ TypeOK
    /\ CallsOrdered /\ BindingsPassive /\ VerifiedOnly
    /\ AnswersShaped
    /\ VersionsUnique /\ WatchedObserved /\ HeardRevokes /\ RefutationsRevoke

-----------------------------------------------------------------------------
(* The attempts of a request *)

LEMMA AttemptTypes ==
    ASSUME TypeOK, NEW q \in RequestIDs
    PROVE  /\ Len(tries[q]) \in Nat
           /\ tries[q] # <<>> <=> Len(tries[q]) >= 1
           /\ \A n \in 1..Len(tries[q]) : tries[q][n] \in Attempt
           /\ tries[q] # <<>> => Latest(q) \in Attempt
<1>1. tries[q] \in Seq(Attempt)
  BY DEF TypeOK
<1>. QED BY <1>1 DEF Latest

\* A new attempt is the latest one and changes no other.
LEMMA BeginsFacts ==
    ASSUME TypeOK, NEW q \in RequestIDs, NEW k \in Keys \cup {NoKey}, NEW b \in BOOLEAN,
           Begins(q, k, b)
    PROVE  /\ tries' \in [RequestIDs -> Seq(Attempt)]
           /\ \A p \in RequestIDs \ {q} : tries'[p] = tries[p]
           /\ Len(tries'[q]) = Len(tries[q]) + 1
           /\ \A n \in 1..Len(tries[q]) : tries'[q][n] = tries[q][n]
           /\ tries'[q][Len(tries[q]) + 1] =
                  [key |-> k, managed |-> b, given |-> "nothing", version |-> 0]
<1>. DEFINE a == [key |-> k, managed |-> b, given |-> "nothing", version |-> 0]
<1>1. tries \in [RequestIDs -> Seq(Attempt)]
  BY DEF TypeOK
<1>2. a \in Attempt
  BY DEF Attempt, Given
<1>3. tries' = [tries EXCEPT ![q] = Append(tries[q], a)]
  BY DEF Begins
<1>. HIDE DEF a
<1>4. /\ Append(tries[q], a) \in Seq(Attempt)
      /\ Len(Append(tries[q], a)) = Len(tries[q]) + 1
      /\ \A n \in 1..Len(tries[q]) : Append(tries[q], a)[n] = tries[q][n]
      /\ Append(tries[q], a)[Len(tries[q]) + 1] = a
  BY <1>1, <1>2
<1>5. /\ tries'[q] = Append(tries[q], a)
      /\ \A p \in RequestIDs \ {q} : tries'[p] = tries[p]
      /\ tries' \in [RequestIDs -> Seq(Attempt)]
  BY <1>1, <1>3, <1>4
<1>6. /\ Len(tries'[q]) = Len(tries[q]) + 1
      /\ \A n \in 1..Len(tries[q]) : tries'[q][n] = tries[q][n]
      /\ tries'[q][Len(tries[q]) + 1] = a
  BY <1>4, <1>5
<1>. QED BY <1>5, <1>6 DEF a

\* The latest attempt gets what the callback found, and no other changes.
LEMMA GivesFacts ==
    ASSUME TypeOK, NEW q \in RequestIDs, tries[q] # <<>>, NEW g \in Given, NEW v \in Nat,
           Gives(q, g, v)
    PROVE  /\ tries' \in [RequestIDs -> Seq(Attempt)]
           /\ \A p \in RequestIDs \ {q} : tries'[p] = tries[p]
           /\ Len(tries'[q]) = Len(tries[q])
           /\ \A n \in 1..(Len(tries[q]) - 1) : tries'[q][n] = tries[q][n]
           /\ LET a == tries'[q][Len(tries[q])]
              IN  /\ a.key = Latest(q).key /\ (a.managed <=> Latest(q).managed)
                  /\ a.given = g /\ a.version = v
<1>. DEFINE len == Len(tries[q])
            a == [Latest(q) EXCEPT !.given = g, !.version = v]
<1>1. tries \in [RequestIDs -> Seq(Attempt)] /\ tries[q] \in Seq(Attempt)
  BY DEF TypeOK
<1>2. len \in Nat /\ len >= 1 /\ Latest(q) \in Attempt
  BY AttemptTypes
<1>3. a \in Attempt
  BY <1>2 DEF Attempt
<1>4. tries' = [tries EXCEPT ![q] = [tries[q] EXCEPT ![len] = a]]
  <2>1. tries' = [tries EXCEPT ![q] = [tries[q] EXCEPT
                     ![len] = [[tries[q][len] EXCEPT !.given = g] EXCEPT !.version = v]]]
    BY <1>1, <1>2 DEF Gives
  <2>. QED BY <2>1 DEF Latest
<1>0. /\ a.key = Latest(q).key /\ (a.managed <=> Latest(q).managed)
      /\ a.given = g /\ a.version = v
  BY <1>2 DEF Attempt
<1>. HIDE DEF a
<1>5. /\ [tries[q] EXCEPT ![len] = a] \in Seq(Attempt)
      /\ Len([tries[q] EXCEPT ![len] = a]) = len
      /\ \A n \in 1..(len - 1) : [tries[q] EXCEPT ![len] = a][n] = tries[q][n]
      /\ [tries[q] EXCEPT ![len] = a][len] = a
  BY <1>1, <1>2, <1>3
<1>6. /\ tries'[q] = [tries[q] EXCEPT ![len] = a]
      /\ \A p \in RequestIDs \ {q} : tries'[p] = tries[p]
      /\ tries' \in [RequestIDs -> Seq(Attempt)]
  BY <1>1, <1>4, <1>5
<1>. QED BY <1>0, <1>5, <1>6

\* The same, of the latest attempt.
LEMMA BeginsLatest ==
    ASSUME TypeOK, NEW q \in RequestIDs, NEW k \in Keys \cup {NoKey}, NEW b \in BOOLEAN,
           Begins(q, k, b)
    PROVE  /\ Latest(q)'.key = k /\ Latest(q)'.given = "nothing" /\ (Latest(q)'.managed <=> b)
           /\ tries'[q] # <<>>
<1>1. /\ Len(tries'[q]) = Len(tries[q]) + 1 /\ Len(tries[q]) \in Nat
      /\ tries'[q][Len(tries[q]) + 1] =
            [key |-> k, managed |-> b, given |-> "nothing", version |-> 0]
  BY BeginsFacts, AttemptTypes
<1>2. Latest(q)' = [key |-> k, managed |-> b, given |-> "nothing", version |-> 0]
  BY <1>1 DEF Latest
<1>3. tries'[q] # <<>>
  BY <1>1
<1>. QED BY <1>2, <1>3

LEMMA GivesLatest ==
    ASSUME TypeOK, NEW q \in RequestIDs, tries[q] # <<>>, NEW g \in Given, NEW v \in Nat,
           Gives(q, g, v)
    PROVE  /\ Len(tries'[q]) = Len(tries[q]) /\ tries'[q] # <<>>
           /\ Latest(q)'.key = Latest(q).key /\ (Latest(q)'.managed <=> Latest(q).managed)
           /\ Latest(q)'.given = g /\ Latest(q)'.version = v
<1>1. Len(tries'[q]) = Len(tries[q]) /\ Len(tries[q]) >= 1
  BY GivesFacts, AttemptTypes
<1>2. tries'[q] # <<>>
  BY <1>1
<1>3. Latest(q)' = tries'[q][Len(tries[q])]
  BY <1>1 DEF Latest
<1>4. /\ Latest(q)'.key = Latest(q).key /\ (Latest(q)'.managed <=> Latest(q).managed)
      /\ Latest(q)'.given = g /\ Latest(q)'.version = v
  BY <1>3, GivesFacts
<1>. QED BY <1>1, <1>2, <1>4

-----------------------------------------------------------------------------
(* Types *)

\* The answers that callbacks report are answers, of the shape of their kind.
LEMMA AnswersTyped ==
    ASSUME NEW kind \in Kinds, NEW r \in AnswersOf(kind)
    PROVE  /\ r \in Answer /\ r # NoAnswer
           /\ r.kind = "chunk" => r.pc = "body" /\ r.plan = NoPlan /\ r.state = "none"
           /\ r.kind = "init" => ~r.mismatch
           /\ r.kind # "chunk" => r.pc = "headers"
<1>1. NoPlan \in RawPlans /\ EventPlans \subseteq RawPlans /\ AnswerPlans \subseteq RawPlans
  BY InterceptorAssumption DEF RawPlans
<1>2. MaxTries \in Nat
  BY InterceptorAssumption
<1>3. CASE kind = "chunk"
  <2>1. r \in [pc : {"body"}, kind : {"chunk"}, try : 1..MaxTries, plan : {NoPlan},
               state : {"none"}, mismatch : BOOLEAN]
    BY <1>3 DEF AnswersOf
  <2>2. r \in Answer
    BY <1>1, <1>2, <2>1 DEF Answer, Kinds
  <2>. QED BY <1>3, <2>1, <2>2 DEF NoAnswer
<1>4. CASE kind = "event"
  <2>1. r \in [pc : {"headers"}, kind : {"event"}, try : 1..MaxTries, plan : EventPlans,
               state : {"none", "good", "bad"}, mismatch : BOOLEAN]
    BY <1>4 DEF AnswersOf
  <2>2. r \in Answer
    BY <1>1, <1>2, <2>1 DEF Answer, Kinds
  <2>. QED BY <1>4, <2>1, <2>2 DEF NoAnswer
<1>5. CASE kind = "init"
  <2>1. r \in [pc : {"headers"}, kind : {"init"}, try : 1..MaxTries, plan : AnswerPlans,
               state : {"none", "good", "bad"}, mismatch : {FALSE}]
    BY <1>5 DEF AnswersOf
  <2>2. r.mismatch = FALSE /\ r.kind = "init" /\ r.pc = "headers"
    BY <2>1
  <2>3. r \in [pc : {"headers"}, kind : {"init"}, try : 1..MaxTries, plan : AnswerPlans,
               state : {"none", "good", "bad"}, mismatch : BOOLEAN]
    BY <2>1, {FALSE} \subseteq BOOLEAN
  <2>4. r \in Answer
    BY <1>1, <1>2, <2>3 DEF Answer, Kinds
  <2>. QED BY <1>5, <2>2, <2>4 DEF NoAnswer
<1>6. CASE kind = "http"
  <2>1. r \in [pc : {"headers"}, kind : {"http"}, try : 1..MaxTries, plan : AnswerPlans,
               state : {"none", "good", "bad"}, mismatch : BOOLEAN]
    BY <1>6 DEF AnswersOf
  <2>2. r \in Answer
    BY <1>1, <1>2, <2>1 DEF Answer, Kinds
  <2>. QED BY <1>6, <2>1, <2>2 DEF NoAnswer
<1>. QED BY <1>3, <1>4, <1>5, <1>6 DEF Kinds

\* Revoking keeps the types.
LEMMA RevokedType ==
    ASSUME TypeOK, NEW k
    PROVE  [tickets EXCEPT ![k] = 0] \in [Keys -> 0..issued]
<1>1. tickets \in [Keys -> 0..issued] /\ 0 \in 0..issued
  BY DEF TypeOK
<1>. QED BY <1>1

LEMMA InvalidateType ==
    ASSUME TypeOK, NEW q, NEW n, Invalidate(q, n)
    PROVE  tickets' \in [Keys -> 0..issued]
<1>1. tickets \in [Keys -> 0..issued] /\ issued \in Nat
  BY DEF TypeOK
<1>2. tickets' = tickets \/ \E k : tickets' = [tickets EXCEPT ![k] = 0]
  BY DEF Invalidate
<1>. QED BY <1>1, <1>2

LEMMA TypeNext == TypeOK /\ CallsOrdered /\ [Next]_vars => TypeOK'
<1>. SUFFICES ASSUME TypeOK, CallsOrdered, [Next]_vars PROVE TypeOK'
  OBVIOUS
<1>. USE DEF TypeOK
<1>1. ASSUME Discover PROVE TypeOK'
  <2>1. plans' \in [Keys -> Plans \cup {NoPlan}]
    BY <1>1, InterceptorAssumption DEF Discover
  <2>2. tickets' \in [Keys -> 0..issued]
    BY <1>1 DEF Discover
  <2>. QED BY <1>1, <2>1, <2>2 DEF Discover, cacheVars, callVars, history
<1>2. ASSUME Expire PROVE TypeOK'
  BY <1>2 DEF Expire, ForgetRequest, Origins, engineVars, callVars, history
<1>3. ASSUME NEW k \in Keys, Publish(k) PROVE TypeOK'
  <2>1. issued' = issued + 1 /\ issued' \in Nat
    BY <1>3 DEF Publish
  <2>2. tickets' \in [Keys -> 0..issued']
    BY <1>3, <2>1 DEF Publish
  <2>. QED BY <1>3, <2>1, <2>2 DEF Publish, cacheVars, callVars, history
<1>4. ASSUME NEW q \in RequestIDs, NEW k \in Keys, AskManages(q, k) PROVE TypeOK'
  <2>1. Manages(k) \in BOOLEAN
    BY DEF Manages
  <2>2. tries' \in [RequestIDs -> Seq(Attempt)]
    BY <1>4, <2>1, BeginsFacts DEF AskManages
  <2>. QED BY <1>4, <2>2 DEF AskManages, Goes, engineVars, cacheVars, history
<1>5. ASSUME NEW q \in RequestIDs, TryUnkeyed(q) PROVE TypeOK'
  <2>1. tries' \in [RequestIDs -> Seq(Attempt)]
    BY <1>5, BeginsFacts DEF TryUnkeyed
  <2>. QED BY <1>5, <2>1 DEF TryUnkeyed, ForgetRequest, engineVars, history
<1>6. ASSUME NEW q \in RequestIDs, Forget(q) PROVE TypeOK'
  BY <1>6 DEF Forget, Goes, ForgetRequest, engineVars, history
<1>7. ASSUME NEW q \in RequestIDs, BindEligible(q) PROVE TypeOK'
  BY <1>7 DEF BindEligible, Goes, engineVars, cacheVars, history
<1>8. ASSUME NEW q \in RequestIDs, BindDecide(q) PROVE TypeOK'
  <2>. DEFINE k == Latest(q).key
  <2>1. tries[q] # <<>> /\ k \in Keys
    BY <1>8 DEF BindDecide, CallsOrdered, CallOrdered
  <2>2. asking' \in [RequestIDs -> {"none", "forget", "eligible", "decide", "bind", "lookup"}]
    BY <1>8 DEF BindDecide, Goes
  <2>3. CASE /\ requests' = Tombstoned(q)
             /\ tickets' \in {tickets, [tickets EXCEPT ![k] = 0]}
             /\ UNCHANGED tries
    <3>1. requests' \in [RequestIDs -> Observation]
      <4>1. requests[q] \in Observation
        OBVIOUS
      <4>2. requests[q] # NoObservation => [requests[q] EXCEPT !.observing = FALSE] \in Observation
        BY <4>1 DEF Observation
      <4>3. \/ requests' = requests
            \/ /\ requests[q] # NoObservation
               /\ requests' = [requests EXCEPT ![q] = [requests[q] EXCEPT !.observing = FALSE]]
        BY <2>3 DEF Tombstoned
      <4>. HIDE DEF Observation
      <4>. QED BY <4>2, <4>3
    <3>2. tickets' \in [Keys -> 0..issued]
      <4>. HIDE DEF k
      <4>1. [tickets EXCEPT ![k] = 0] \in [Keys -> 0..issued]
        BY RevokedType
      <4>. QED BY <2>3, <4>1
    <3>. QED BY <1>8, <2>2, <2>3, <3>1, <3>2 DEF BindDecide, cacheVars
  <2>4. CASE /\ tickets[k] # 0
             /\ requests' = [requests EXCEPT ![q] =
                               [key |-> k, version |-> tickets[k],
                                observing |-> requests[q] = NoObservation]]
             /\ Gives(q, "ticket", tickets[k])
             /\ UNCHANGED tickets
    <3>1. tickets[k] \in Nat
      BY <2>1
    <3>2. tries' \in [RequestIDs -> Seq(Attempt)]
      BY <2>1, <2>4, <3>1, GivesFacts DEF Given
    <3>3. requests' \in [RequestIDs -> Observation]
      BY <2>1, <2>4, <3>1 DEF Observation
    <3>. QED BY <1>8, <2>2, <2>4, <3>2, <3>3 DEF BindDecide, cacheVars
  <2>. QED BY <1>8, <2>3, <2>4 DEF BindDecide
<1>9. ASSUME NEW q \in RequestIDs, BindRequest(q) PROVE TypeOK'
  BY <1>9 DEF BindRequest, Goes, CallsOrdered, CallOrdered, engineVars, history
<1>10. ASSUME NEW q \in RequestIDs, Lookup(q) PROVE TypeOK'
  <2>1. tries' \in [RequestIDs -> Seq(Attempt)]
    BY <1>10, GivesFacts DEF Lookup, CallsOrdered, CallOrdered, Given
  <2>. QED BY <1>10, <2>1 DEF Lookup, Goes, engineVars, cacheVars, history
<1>11. ASSUME NEW q \in RequestIDs, NEW kind \in Kinds, NEW r \in AnswersOf(kind), Respond(q, r)
       PROVE TypeOK'
  BY <1>11, AnswersTyped DEF Respond, engineVars, cacheVars, history
<1>12. ASSUME NEW q \in RequestIDs, Headers(q) PROVE TypeOK'
  <2>1. tickets' \in [Keys -> 0..issued]
    BY <1>12, InvalidateType DEF Headers
  <2>2. answer[q] \in Answer
    BY <1>12 DEF Headers, NoAnswer
  <2>3. AfterHeaders(answer[q]) \in {"body", "capture"}
    BY DEF AfterHeaders
  <2>4. answer' \in [RequestIDs -> Answer \cup {NoAnswer}]
    BY <1>12, <2>2, <2>3 DEF Headers, Answer
  <2>. QED BY <1>12, <2>1, <2>4 DEF Headers, cacheVars
<1>13. ASSUME NEW q \in RequestIDs, Body(q) PROVE TypeOK'
  <2>1. tickets' \in [Keys -> 0..issued]
    BY <1>13, InvalidateType DEF Body
  <2>2. answer[q] \in Answer
    BY <1>13 DEF Body, NoAnswer
  <2>3. answer' \in [RequestIDs -> Answer \cup {NoAnswer}]
    <3>1. [answer[q] EXCEPT !.pc = "capture"] \in Answer
      BY <2>2 DEF Answer
    <3>2. \/ answer' = [answer EXCEPT ![q] = NoAnswer]
          \/ answer' = [answer EXCEPT ![q] = [answer[q] EXCEPT !.pc = "capture"]]
      BY <1>13 DEF Body
    <3>. QED BY <3>1, <3>2
  <2>. QED BY <1>13, <2>1, <2>3 DEF Body, cacheVars
<1>14. ASSUME NEW q \in RequestIDs, Capture(q) PROVE TypeOK'
  <2>1. Origin(q, answer[q].try) \in Origins
    BY DEF Origin, Origins
  <2>2. entries' \in [Keys -> Origins]
    BY <1>14, <2>1 DEF Capture
  <2>. QED BY <1>14, <2>2 DEF Capture, engineVars
<1>15. ASSUME NEW q \in RequestIDs, CompleteCache(q) PROVE TypeOK'
  BY <1>15 DEF CompleteCache, ForgetRequest, engineVars, history
<1>16. ASSUME NEW q \in RequestIDs, NEW mismatch, CompleteEngine(q, mismatch) PROVE TypeOK'
  <2>1. tickets' \in [Keys -> 0..issued]
    BY <1>16, InvalidateType DEF CompleteEngine
  <2>2. requests' \in [RequestIDs -> Observation]
    BY <1>16 DEF CompleteEngine, Dropped, Observation
  <2>. QED BY <1>16, <2>1, <2>2 DEF CompleteEngine, cacheVars
<1>17. ASSUME UNCHANGED vars PROVE TypeOK'
  BY <1>17 DEF vars, engineVars, cacheVars, callVars, history
<1>. QED BY <1>1, <1>2, <1>3, <1>4, <1>5, <1>6, <1>7, <1>8, <1>9, <1>10, <1>11, <1>12, <1>13,
            <1>14, <1>15, <1>16, <1>17 DEF Next

-----------------------------------------------------------------------------
(* The order of the callbacks *)

\* What leaves the calls of a request alone.
CallSame(q) ==
    /\ tries'[q] = tries[q] /\ asking'[q] = asking[q] /\ answer'[q] = answer[q]
    /\ q \in completing' <=> q \in completing
    /\ q \in done' <=> q \in done
    /\ requests'[q] = requests[q]
    /\ pending'[q] \in {pending[q], NoKey}

\* Every step is about one request's calls at most.
LEMMA OtherCallsSame ==
    ASSUME TypeOK, CallsOrdered, [Next]_vars
    PROVE  \/ \A p \in RequestIDs : CallSame(p)
           \/ \E q \in RequestIDs :
                 /\ \A p \in RequestIDs \ {q} : CallSame(p)
                 /\ \/ \E k \in Keys : AskManages(q, k)
                    \/ TryUnkeyed(q) \/ Forget(q) \/ BindEligible(q) \/ BindDecide(q)
                    \/ BindRequest(q) \/ Lookup(q)
                    \/ \E kind \in Kinds : \E r \in AnswersOf(kind) : Respond(q, r)
                    \/ Headers(q) \/ Body(q) \/ Capture(q)
                    \/ CompleteCache(q) \/ \E mismatch \in BOOLEAN : CompleteEngine(q, mismatch)
<1>0. /\ asking \in [RequestIDs -> {"none", "forget", "eligible", "decide", "bind", "lookup"}]
      /\ answer \in [RequestIDs -> Answer \cup {NoAnswer}]
      /\ tries \in [RequestIDs -> Seq(Attempt)]
      /\ pending \in [RequestIDs -> Keys \cup {NoKey}]
      /\ requests \in [RequestIDs -> Observation]
  BY DEF TypeOK
<1>. DEFINE Others(q) == \A p \in RequestIDs \ {q} : CallSame(p)
<1>1. ASSUME NEW q \in RequestIDs, NEW k \in Keys, AskManages(q, k) PROVE Others(q)
  BY <1>0, <1>1 DEF AskManages, Begins, Goes, CallSame, engineVars, cacheVars
<1>2. ASSUME NEW q \in RequestIDs, TryUnkeyed(q) PROVE Others(q)
  BY <1>0, <1>2 DEF TryUnkeyed, Begins, ForgetRequest, CallSame, engineVars
<1>3. ASSUME NEW q \in RequestIDs, Forget(q) \/ BindEligible(q) \/ BindRequest(q) PROVE Others(q)
  BY <1>0, <1>3 DEF Forget, BindEligible, BindRequest, ForgetRequest, Goes, CallSame,
                    engineVars, cacheVars
<1>4. ASSUME NEW q \in RequestIDs, BindDecide(q) PROVE Others(q)
  <2>1. \A p \in RequestIDs \ {q} : requests'[p] = requests[p]
    BY <1>0, <1>4 DEF BindDecide, Tombstoned
  <2>2. \A p \in RequestIDs \ {q} : tries'[p] = tries[p] /\ asking'[p] = asking[p]
    BY <1>0, <1>4 DEF BindDecide, Gives, Goes
  <2>. QED BY <1>4, <2>1, <2>2 DEF BindDecide, CallSame, cacheVars
<1>5. ASSUME NEW q \in RequestIDs, Lookup(q) PROVE Others(q)
  BY <1>0, <1>5 DEF Lookup, Gives, Goes, CallSame, engineVars, cacheVars
<1>6. ASSUME NEW q \in RequestIDs, NEW r, Respond(q, r) PROVE Others(q)
  BY <1>0, <1>6 DEF Respond, CallSame, engineVars, cacheVars
<1>7. ASSUME NEW q \in RequestIDs, Headers(q) \/ Body(q) \/ Capture(q) PROVE Others(q)
  BY <1>0, <1>7 DEF Headers, Body, Capture, CallSame, engineVars, cacheVars
<1>8. ASSUME NEW q \in RequestIDs, CompleteCache(q) PROVE Others(q)
  BY <1>0, <1>8 DEF CompleteCache, ForgetRequest, CallSame, engineVars
<1>9. ASSUME NEW q \in RequestIDs, NEW mismatch, CompleteEngine(q, mismatch) PROVE Others(q)
  BY <1>0, <1>9 DEF CompleteEngine, Dropped, CallSame, cacheVars
<1>10. ASSUME Discover \/ Expire \/ (\E k \in Keys : Publish(k)) \/ UNCHANGED vars,
              NEW p \in RequestIDs
       PROVE  CallSame(p)
  BY <1>0, <1>10 DEF Discover, Expire, ForgetRequest, Publish, CallSame, vars, engineVars,
                     callVars, cacheVars
<1>. HIDE DEF Others
<1>11. CASE Next
  BY <1>1, <1>2, <1>3, <1>4, <1>5, <1>6, <1>7, <1>8, <1>9, <1>10, <1>11 DEF Next, Others
<1>. QED BY <1>10, <1>11

LEMMA CallsNext == TypeOK /\ CallsOrdered /\ [Next]_vars => CallsOrdered'
<1>. SUFFICES ASSUME TypeOK, CallsOrdered, [Next]_vars, NEW p \in RequestIDs
              PROVE  CallOrdered(p)'
  BY DEF CallsOrdered
<1>0. /\ CallOrdered(p)
      /\ asking \in [RequestIDs -> {"none", "forget", "eligible", "decide", "bind", "lookup"}]
      /\ answer \in [RequestIDs -> Answer \cup {NoAnswer}]
      /\ answer[p] # NoAnswer => answer[p].try \in Nat
  BY DEF CallsOrdered, TypeOK, Answer
<1>1. ASSUME CallSame(p) PROVE CallOrdered(p)'
  BY <1>0, <1>1 DEF CallSame, CallOrdered, Latest
<1>2. ASSUME NEW k \in Keys, AskManages(p, k) PROVE CallOrdered(p)'
  <2>1. /\ Latest(p)' = [key |-> k, managed |-> Manages(k), given |-> "nothing", version |-> 0]
        /\ Len(tries'[p]) = Len(tries[p]) + 1 /\ Len(tries[p]) \in Nat
        /\ tries'[p] # <<>>
    <3>1. Manages(k) \in BOOLEAN
      BY DEF Manages
    <3>. QED BY <1>2, <3>1, BeginsFacts, AttemptTypes DEF AskManages, Latest
  <2>2. /\ asking'[p] = IF Manages(k) THEN "forget" ELSE "bind"
        /\ answer'[p] = answer[p] /\ p \notin completing' \cup done'
    BY <1>0, <1>2 DEF AskManages, Goes, MayTry
  <2>. QED BY <1>0, <2>1, <2>2 DEF CallOrdered
<1>3. ASSUME TryUnkeyed(p) PROVE CallOrdered(p)'
  <2>1. Len(tries'[p]) = Len(tries[p]) + 1 /\ Len(tries[p]) \in Nat
    BY <1>3, BeginsFacts, AttemptTypes DEF TryUnkeyed
  <2>2. asking'[p] = "none" /\ answer'[p] = answer[p]
    BY <1>3 DEF TryUnkeyed, MayTry
  <2>. QED BY <1>0, <2>1, <2>2 DEF CallOrdered
<1>4. ASSUME Forget(p) \/ BindEligible(p) \/ BindRequest(p) PROVE CallOrdered(p)'
  <2>1. /\ tries' = tries /\ answer' = answer /\ completing' = completing /\ done' = done
        /\ asking[p] # "none"
        /\ \/ asking[p] = "forget" /\ asking'[p] = "eligible"
           \/ asking[p] = "eligible" /\ asking'[p] \in {"decide", "none"}
           \/ asking[p] = "bind" /\ asking'[p] = "lookup"
    BY <1>0, <1>4 DEF Forget, BindEligible, BindRequest, Goes
  <2>. QED BY <1>0, <2>1 DEF CallOrdered, Latest
<1>5. ASSUME BindDecide(p) \/ Lookup(p) PROVE CallOrdered(p)'
  <2>1. /\ asking'[p] = "none" /\ answer' = answer
        /\ asking[p] # "none"
    BY <1>0, <1>5 DEF BindDecide, Lookup, Goes
  <2>2. Len(tries'[p]) = Len(tries[p])
    <3>1. tickets[Latest(p).key] \in Nat
      BY <1>0, <2>1 DEF TypeOK, CallOrdered
    <3>2. UNCHANGED tries \/ \E g \in Given, v \in Nat : Gives(p, g, v)
      BY <1>5, <3>1 DEF BindDecide, Lookup, Given
    <3>. QED BY <1>0, <2>1, <3>2, GivesFacts DEF CallOrdered
  <2>. QED BY <1>0, <2>1, <2>2 DEF CallOrdered
<1>6. ASSUME NEW kind \in Kinds, NEW r \in AnswersOf(kind), Respond(p, r) PROVE CallOrdered(p)'
  <2>1. /\ tries' = tries /\ asking' = asking /\ completing' = completing /\ done' = done
        /\ answer'[p] = r /\ r.try <= Len(tries[p])
        /\ r.try = Len(tries[p]) => asking[p] = "none"
    <3>1. r.try \in Nat /\ Len(tries[p]) \in Nat
      BY AnswersTyped, AttemptTypes DEF Answer
    <3>. QED BY <1>0, <1>6, <3>1 DEF Respond
  <2>. QED BY <1>0, <2>1 DEF CallOrdered, Latest
<1>7. ASSUME Headers(p) \/ Body(p) \/ Capture(p) PROVE CallOrdered(p)'
  <2>1. /\ tries' = tries /\ asking' = asking /\ completing' = completing /\ done' = done
        /\ answer[p] # NoAnswer
        /\ answer'[p] # NoAnswer => answer'[p].try = answer[p].try
    <3>1. /\ tries' = tries /\ asking' = asking /\ completing' = completing /\ done' = done
          /\ answer[p].pc # "none"
      BY <1>7 DEF Headers, Body, Capture
    <3>2. answer' = [answer EXCEPT ![p] = NoAnswer]
             \/ \E pc : answer' = [answer EXCEPT ![p] = [answer[p] EXCEPT !.pc = pc]]
      BY <1>7 DEF Headers, Body, Capture
    <3>3. answer[p] # NoAnswer /\ answer[p] \in Answer
      BY <1>0, <3>1 DEF NoAnswer
    <3>4. \A pc : [answer[p] EXCEPT !.pc = pc].try = answer[p].try
      BY <3>3 DEF Answer
    <3>5. answer'[p] = NoAnswer \/ \E pc : answer'[p] = [answer[p] EXCEPT !.pc = pc]
      BY <1>0, <3>2
    <3>. QED BY <3>1, <3>3, <3>4, <3>5
  <2>. QED BY <1>0, <2>1 DEF CallOrdered, Latest
<1>8. ASSUME NEW mismatch, CompleteCache(p) \/ CompleteEngine(p, mismatch) PROVE CallOrdered(p)'
  <2>1. /\ tries' = tries /\ asking' = asking /\ answer' = answer
        /\ asking[p] = "none"
    BY <1>0, <1>8 DEF CompleteCache, CompleteEngine, CallOrdered
  <2>. QED BY <1>0, <2>1 DEF CallOrdered
<1>. QED BY <1>1, <1>2, <1>3, <1>4, <1>5, <1>6, <1>7, <1>8, OtherCallsSame

-----------------------------------------------------------------------------
(* The two paths *)

LEMMA BindingsNext ==
    TypeOK /\ CallsOrdered /\ BindingsPassive /\ [Next]_vars => BindingsPassive'
<1>. SUFFICES ASSUME TypeOK, CallsOrdered, BindingsPassive, [Next]_vars, NEW p \in RequestIDs
              PROVE  BindingPassive(p)'
  BY DEF BindingsPassive
<1>0. /\ CallOrdered(p) /\ BindingPassive(p)
      /\ asking \in [RequestIDs -> {"none", "forget", "eligible", "decide", "bind", "lookup"}]
      /\ pending \in [RequestIDs -> Keys \cup {NoKey}]
      /\ requests \in [RequestIDs -> Observation]
  BY DEF CallsOrdered, BindingsPassive, TypeOK
<1>1. ASSUME CallSame(p) PROVE BindingPassive(p)'
  BY <1>0, <1>1 DEF CallSame, BindingPassive, Latest
<1>2. ASSUME NEW k \in Keys, AskManages(p, k) PROVE BindingPassive(p)'
  <2>1. Latest(p)'.managed <=> Manages(k)
    <3>1. Manages(k) \in BOOLEAN
      BY DEF Manages
    <3>2. Begins(p, k, Manages(k))
      BY <1>2 DEF AskManages
    <3>. QED BY <3>1, <3>2, BeginsLatest
  <2>2. /\ asking'[p] = IF Manages(k) THEN "forget" ELSE "bind"
        /\ p \notin completing' \cup done'
    BY <1>0, <1>2 DEF AskManages, Goes, MayTry
  <2>. QED BY <2>1, <2>2 DEF BindingPassive
<1>3. ASSUME TryUnkeyed(p) \/ Forget(p) \/ CompleteCache(p) PROVE BindingPassive(p)'
  <2>1. pending'[p] = NoKey /\ requests' = requests /\ done' = done
    BY <1>0, <1>3 DEF TryUnkeyed, Forget, CompleteCache, ForgetRequest, engineVars
  <2>. QED BY <1>0, <2>1 DEF BindingPassive
<1>4. ASSUME BindEligible(p) \/ BindDecide(p) \/ Lookup(p) PROVE BindingPassive(p)'
  <2>1. /\ asking[p] \in {"eligible", "decide", "lookup"}
        /\ pending' = pending /\ completing' = completing /\ done' = done
    BY <1>4 DEF BindEligible, BindDecide, Lookup, cacheVars
  <2>2. p \notin done
    BY <1>0, <2>1 DEF CallOrdered
  <2>3. (Latest(p)'.managed <=> Latest(p).managed) /\ tries[p] # <<>>
    <3>1. tries[p] # <<>> /\ Latest(p).key \in Keys
      BY <1>0, <2>1 DEF CallOrdered
    <3>2. tickets[Latest(p).key] \in Nat
      BY <3>1 DEF TypeOK
    <3>3. UNCHANGED tries \/ \E g \in Given, v \in Nat : Gives(p, g, v)
      BY <1>4, <3>2 DEF BindEligible, BindDecide, Lookup, Given
    <3>4. CASE UNCHANGED tries
      BY <3>1, <3>4 DEF Latest
    <3>5. ASSUME NEW g \in Given, NEW v \in Nat, Gives(p, g, v)
          PROVE  Latest(p)'.managed <=> Latest(p).managed
      BY <3>1, <3>5, GivesLatest
    <3>. QED BY <3>1, <3>3, <3>4, <3>5
  <2>. QED BY <1>0, <2>1, <2>2, <2>3 DEF BindingPassive
<1>5. ASSUME BindRequest(p) PROVE BindingPassive(p)'
  <2>1. /\ tries' = tries /\ completing' = completing /\ done' = done
        /\ ~Latest(p).managed /\ p \notin completing \cup done
    BY <1>0, <1>5 DEF BindRequest, CallOrdered
  <2>. QED BY <2>1 DEF BindingPassive, Latest
<1>6. ASSUME (\E r : Respond(p, r)) \/ Headers(p) \/ Body(p) \/ Capture(p) PROVE BindingPassive(p)'
  <2>1. UNCHANGED <<tries, asking, completing, done, pending, requests>>
    BY <1>6 DEF Respond, Headers, Body, Capture, engineVars, cacheVars
  <2>. QED BY <1>0, <2>1 DEF BindingPassive, Latest
<1>7. ASSUME NEW mismatch, CompleteEngine(p, mismatch) PROVE BindingPassive(p)'
  <2>1. /\ UNCHANGED <<tries, asking, pending>>
        /\ p \in completing
        /\ requests' = Dropped(p)
    BY <1>7 DEF CompleteEngine, cacheVars
  <2>2. ~requests'[p].observing
    BY <1>0, <2>1 DEF Dropped, NoObservation
  <2>. QED BY <1>0, <2>1, <2>2 DEF BindingPassive, Latest
<1>. QED BY <1>1, <1>2, <1>3, <1>4, <1>5, <1>6, <1>7, OtherCallsSame

LEMMA VerifiedNext ==
    TypeOK /\ CallsOrdered /\ BindingsPassive /\ VerifiedOnly /\ [Next]_vars => VerifiedOnly'
<1>. SUFFICES ASSUME TypeOK, CallsOrdered, BindingsPassive, VerifiedOnly, [Next]_vars
              PROVE  VerifiedOnly'
  OBVIOUS
<1>1. ASSUME NEW k \in Keys PROVE entries'[k] # "verified"
  <2>1. CASE \E q \in RequestIDs : Capture(q)
    <3>1. PICK q \in RequestIDs : Capture(q)
      BY <2>1
    <3>2. /\ answer[q].pc = "capture" /\ answer[q] \in Answer /\ answer[q] # NoAnswer
          /\ answer[q].try <= Len(tries[q])
          /\ answer[q].try = Len(tries[q]) => asking[q] = "none"
          /\ answer[q].try \in Nat \ {0} /\ Len(tries[q]) \in Nat
      <4>1. answer[q].pc = "capture"
        BY <3>1 DEF Capture
      <4>2. answer[q] # NoAnswer /\ answer[q] \in Answer
        BY <4>1 DEF TypeOK, NoAnswer
      <4>. QED BY <4>1, <4>2, AttemptTypes DEF CallsOrdered, CallOrdered, Answer
    <3>3. pending[q] # NoKey => Origin(q, answer[q].try) # "verified"
      <4>1. tries[q] # <<>>
        BY <3>2, AttemptTypes
      <4>. QED BY <3>2, <4>1 DEF Origin, BindingsPassive, BindingPassive, Latest
    <3>4. \/ entries' = entries
          \/ /\ pending[q] # NoKey
             /\ entries' = [entries EXCEPT ![pending[q]] = Origin(q, answer[q].try)]
      BY <3>1 DEF Capture
    <3>. QED BY <3>3, <3>4 DEF VerifiedOnly, TypeOK
  <2>2. CASE Expire
    BY <2>2 DEF Expire, VerifiedOnly, TypeOK
  <2>3. CASE UNCHANGED entries
    BY <2>3 DEF VerifiedOnly
  <2>. QED BY <2>1, <2>2, <2>3
           DEF Next, vars, Discover, Publish, AskManages, TryUnkeyed, Forget, BindEligible,
               BindDecide, BindRequest, Lookup, Respond, Headers, Body, CompleteCache,
               CompleteEngine, cacheVars
<1>2. ASSUME NEW p \in RequestIDs, NEW n \in 1..Len(tries'[p]),
             tries'[p][n].managed, tries'[p][n].given = "captured"
      PROVE  FALSE
  <2>1. /\ Len(tries[p]) \in Nat /\ n \in Nat
        /\ n \in 1..Len(tries[p]) => tries[p][n] \in Attempt
        /\ n \in 1..Len(tries[p]) /\ tries[p][n].managed => tries[p][n].given # "captured"
    BY AttemptTypes DEF VerifiedOnly
  <2>2. CASE tries'[p] = tries[p]
    BY <1>2, <2>1, <2>2
  <2>3. CASE (\E k \in Keys : AskManages(p, k)) \/ TryUnkeyed(p)
    <3>1. PICK k \in Keys \cup {NoKey}, b \in BOOLEAN : Begins(p, k, b)
      BY <2>3 DEF AskManages, TryUnkeyed, Manages
    <3>2. Len(tries'[p]) = Len(tries[p]) + 1
      BY <3>1, BeginsFacts
    <3>3. CASE n = Len(tries[p]) + 1
      <4>1. Latest(p)'.given = "nothing"
        BY <3>1, BeginsLatest
      <4>. QED BY <1>2, <3>2, <3>3, <4>1 DEF Latest
    <3>4. CASE n # Len(tries[p]) + 1
      <4>1. n \in 1..Len(tries[p])
        BY <2>1, <3>2, <3>4
      <4>2. tries'[p][n] = tries[p][n]
        BY <3>1, <4>1, BeginsFacts
      <4>. QED BY <1>2, <2>1, <4>1, <4>2
    <3>. QED BY <3>3, <3>4
  <2>4. CASE BindDecide(p) \/ Lookup(p)
    <3>1. asking[p] \in {"decide", "lookup"}
      BY <2>4 DEF BindDecide, Lookup
    <3>2. /\ tries[p] # <<>> /\ Latest(p) \in Attempt /\ Latest(p).key \in Keys
          /\ asking[p] = "lookup" => ~Latest(p).managed
      BY <3>1, AttemptTypes DEF CallsOrdered, CallOrdered
    <3>3. tickets[Latest(p).key] \in Nat
      BY <3>2 DEF TypeOK
    <3>4. \/ tries' = tries
          \/ \E g \in Given, v \in Nat : /\ Gives(p, g, v)
                                         /\ g = "captured" => asking[p] = "lookup"
      BY <2>4, <3>3 DEF BindDecide, Lookup, Given
    <3>5. CASE \E g \in Given, v \in Nat : /\ Gives(p, g, v)
                                           /\ g = "captured" => asking[p] = "lookup"
      <4>0. PICK g \in Given, v \in Nat : /\ Gives(p, g, v)
                                          /\ g = "captured" => asking[p] = "lookup"
        BY <3>5
      <4>1. /\ Len(tries'[p]) = Len(tries[p])
            /\ Latest(p)'.given = g /\ (Latest(p)'.managed <=> Latest(p).managed)
        BY <3>2, <4>0, GivesLatest
      <4>3. CASE n = Len(tries[p])
        BY <1>2, <3>2, <4>0, <4>1, <4>3 DEF Latest
      <4>4. CASE n # Len(tries[p])
        <5>1. n \in 1..(Len(tries[p]) - 1)
          BY <2>1, <4>1, <4>4
        <5>2. tries'[p][n] = tries[p][n]
          BY <3>2, <4>0, <5>1, GivesFacts
        <5>. QED BY <1>2, <2>1, <5>1, <5>2
      <4>. QED BY <4>3, <4>4
    <3>6. CASE tries' = tries
      BY <2>2, <3>6
    <3>. QED BY <3>4, <3>5, <3>6
  <2>5. \/ CallSame(p)
        \/ (\E k \in Keys : AskManages(p, k)) \/ TryUnkeyed(p) \/ BindDecide(p) \/ Lookup(p)
        \/ UNCHANGED tries
    BY OtherCallsSame DEF Forget, BindEligible, BindRequest, Respond, Headers, Body, Capture,
                          CompleteCache, CompleteEngine
  <2>. QED BY <2>2, <2>3, <2>4, <2>5 DEF CallSame
<1>. QED BY <1>1, <1>2 DEF VerifiedOnly

-----------------------------------------------------------------------------
(* Tickets and the attempts that carry them *)

\* A ticket is revoked, or one key gets the next version.
LEMMA TicketsMove ==
    ASSUME TypeOK, CallsOrdered, [Next]_vars
    PROVE  \/ issued' = issued /\ \A k \in Keys : tickets'[k] \in {tickets[k], 0}
           \/ \E j \in Keys : /\ issued' = issued + 1 /\ tickets'[j] = issued'
                              /\ \A k \in Keys \ {j} : tickets'[k] = tickets[k]
<1>0. tickets \in [Keys -> 0..issued]
  BY DEF TypeOK
<1>1. ASSUME NEW k \in Keys, Publish(k)
      PROVE  \E j \in Keys : /\ issued' = issued + 1 /\ tickets'[j] = issued'
                             /\ \A i \in Keys \ {j} : tickets'[i] = tickets[i]
  BY <1>0, <1>1 DEF Publish
<1>2. ASSUME Discover PROVE issued' = issued /\ \A k \in Keys : tickets'[k] \in {tickets[k], 0}
  BY <1>0, <1>2 DEF Discover
<1>3. ASSUME NEW q, NEW n, Invalidate(q, n)
      PROVE  \A k \in Keys : tickets'[k] \in {tickets[k], 0}
  BY <1>0, <1>3 DEF Invalidate
<1>4. ASSUME NEW q \in RequestIDs,
             BindDecide(q) \/ Headers(q) \/ Body(q)
                \/ \E mismatch \in BOOLEAN : CompleteEngine(q, mismatch)
      PROVE  issued' = issued /\ \A k \in Keys : tickets'[k] \in {tickets[k], 0}
  <2>1. CASE BindDecide(q)
    BY <1>0, <2>1 DEF BindDecide
  <2>2. CASE Headers(q) \/ Body(q)
    BY <1>3, <2>2 DEF Headers, Body
  <2>3. CASE \E mismatch \in BOOLEAN : CompleteEngine(q, mismatch)
    BY <1>3, <2>3 DEF CompleteEngine
  <2>. QED BY <1>4, <2>1, <2>2, <2>3
<1>5. CASE UNCHANGED <<tickets, issued>>
  BY <1>5
<1>. QED BY <1>1, <1>2, <1>4, <1>5
         DEF Next, vars, Expire, AskManages, TryUnkeyed, Forget, BindEligible, BindRequest,
             Lookup, Respond, Capture, CompleteCache, engineVars

\* A revoked version does not come back.
LEMMA StaysRevoked ==
    ASSUME TypeOK, CallsOrdered, [Next]_vars, NEW k \in Keys, NEW v \in 1..issued,
           tickets[k] # v
    PROVE  tickets'[k] # v
<1>1. issued \in Nat
  BY DEF TypeOK
<1>. QED BY <1>1, TicketsMove

\* An attempt that was given a ticket was given it before, or gets the ticket of
\* its key now.
LEMMA TicketGiven ==
    ASSUME TypeOK, CallsOrdered, [Next]_vars, NEW p \in RequestIDs,
           NEW n \in 1..Len(tries'[p]), tries'[p][n].given = "ticket"
    PROVE  \/ n \in 1..Len(tries[p]) /\ tries'[p][n] = tries[p][n]
           \/ LET a == tries'[p][n]
              IN  /\ a.key \in Keys /\ a.version = tickets[a.key] /\ a.version # 0
                  /\ tickets' = tickets /\ issued' = issued
<1>1. Len(tries[p]) \in Nat /\ n \in Nat
  BY AttemptTypes
<1>2. CASE tries'[p] = tries[p]
  BY <1>2
<1>3. CASE (\E k \in Keys : AskManages(p, k)) \/ TryUnkeyed(p)
  <2>1. PICK k \in Keys \cup {NoKey}, b \in BOOLEAN : Begins(p, k, b)
    BY <1>3 DEF AskManages, TryUnkeyed, Manages
  <2>2. Len(tries'[p]) = Len(tries[p]) + 1 /\ Latest(p)'.given = "nothing"
    <3>1. Len(tries'[p]) = Len(tries[p]) + 1
      BY <2>1, BeginsFacts
    <3>2. Latest(p)'.given = "nothing"
      BY <2>1, BeginsLatest
    <3>. QED BY <3>1, <3>2
  <2>3. n # Len(tries'[p])
    BY <2>2 DEF Latest
  <2>4. n \in 1..Len(tries[p])
    BY <1>1, <2>2, <2>3
  <2>. QED BY <2>1, <2>4, BeginsFacts
<1>4. CASE BindDecide(p) \/ Lookup(p)
  <2>1. asking[p] \in {"decide", "lookup"}
    BY <1>4 DEF BindDecide, Lookup
  <2>2. tries[p] # <<>> /\ Latest(p).key \in Keys
    BY <2>1 DEF CallsOrdered, CallOrdered
  <2>3. tickets[Latest(p).key] \in Nat
    BY <2>2 DEF TypeOK
  <2>4. CASE tries' = tries
    BY <2>4
  <2>5. CASE \E g \in Given, v \in Nat :
                Gives(p, g, v) /\ (g = "ticket" => /\ v = tickets[Latest(p).key] /\ v # 0
                                                   /\ tickets' = tickets /\ issued' = issued)
    <3>1. PICK g \in Given, v \in Nat :
                Gives(p, g, v) /\ (g = "ticket" => /\ v = tickets[Latest(p).key] /\ v # 0
                                                   /\ tickets' = tickets /\ issued' = issued)
      BY <2>5
    <3>2. /\ Len(tries'[p]) = Len(tries[p])
          /\ Latest(p)'.given = g /\ Latest(p)'.key = Latest(p).key /\ Latest(p)'.version = v
      BY <2>2, <3>1, GivesLatest
    <3>3. CASE n = Len(tries[p])
      BY <2>2, <3>1, <3>2, <3>3 DEF Latest
    <3>4. CASE n # Len(tries[p])
      <4>1. n \in 1..(Len(tries[p]) - 1) /\ n \in 1..Len(tries[p])
        BY <1>1, <3>2, <3>4
      <4>. QED BY <2>2, <3>1, <4>1, GivesFacts
    <3>. QED BY <3>3, <3>4
  <2>. QED BY <1>4, <2>3, <2>4, <2>5 DEF BindDecide, Lookup, Given
<1>5. \/ CallSame(p)
      \/ (\E k \in Keys : AskManages(p, k)) \/ TryUnkeyed(p) \/ BindDecide(p) \/ Lookup(p)
      \/ UNCHANGED tries
  BY OtherCallsSame DEF Forget, BindEligible, BindRequest, Respond, Headers, Body, Capture,
                        CompleteCache, CompleteEngine
<1>. QED BY <1>2, <1>3, <1>4, <1>5 DEF CallSame

\* What is noted as refuted was noted before, or is a watched request's version.
LEMMA Noted ==
    ASSUME [Next]_vars, NEW x \in refuted'
    PROVE  \/ x \in refuted
           \/ \E q \in RequestIDs : Watched(q) /\ x[1] = tries[q][1].version
<1>1. ASSUME NEW q \in RequestIDs, Report(q)
      PROVE  x \in refuted \/ (Watched(q) /\ x[1] = tries[q][1].version)
  <2>. DEFINE v == tries[q][1].version
  <2>1. \/ x \in refuted
        \/ Watched(q) /\ (x = <<v, "seen">> \/ x = <<v, "event plan">>)
    BY <1>1 DEF Report
  <2>2. <<v, "seen">>[1] = v /\ <<v, "event plan">>[1] = v
    OBVIOUS
  <2>. HIDE DEF v
  <2>3. x \in refuted \/ (Watched(q) /\ x[1] = v)
    BY <2>1, <2>2
  <2>. QED BY <2>3 DEF v
<1>2. UNCHANGED refuted \/ \E q \in RequestIDs : Report(q)
  BY DEF Next, vars, Discover, Expire, Publish, AskManages, TryUnkeyed, Forget, BindEligible,
         BindDecide, BindRequest, Lookup, Respond, Headers, Body, Capture, CompleteCache,
         CompleteEngine, history
<1>. QED BY <1>1, <1>2

LEMMA VersionsNext ==
    TypeOK /\ CallsOrdered /\ VersionsUnique /\ [Next]_vars => VersionsUnique'
<1>. SUFFICES ASSUME TypeOK, CallsOrdered, VersionsUnique, [Next]_vars PROVE VersionsUnique'
  OBVIOUS
<1>0. issued \in Nat /\ tickets \in [Keys -> 0..issued] /\ issued' \in {issued, issued + 1}
  BY TicketsMove DEF TypeOK
<1>1. ASSUME NEW p \in RequestIDs, NEW n \in 1..Len(tries'[p]), tries'[p][n].given = "ticket"
      PROVE  /\ tries'[p][n].version \in 1..issued'
             /\ \A k \in Keys \ {tries'[p][n].key} : tickets'[k] # tries'[p][n].version
  <2>1. CASE n \in 1..Len(tries[p]) /\ tries'[p][n] = tries[p][n]
    <3>1. /\ tries'[p][n].version \in 1..issued
          /\ \A k \in Keys \ {tries'[p][n].key} : tickets[k] # tries'[p][n].version
      BY <1>1, <2>1 DEF VersionsUnique
    <3>. QED BY <1>0, <3>1, StaysRevoked
  <2>2. CASE LET a == tries'[p][n]
             IN  /\ a.key \in Keys /\ a.version = tickets[a.key] /\ a.version # 0
                 /\ tickets' = tickets /\ issued' = issued
    BY <1>0, <2>2 DEF VersionsUnique
  <2>. QED BY <1>1, <2>1, <2>2, TicketGiven
<1>2. ASSUME NEW k \in Keys, NEW j \in Keys, tickets'[k] = tickets'[j], tickets'[k] # 0
      PROVE  k = j
  BY <1>0, <1>2, TicketsMove DEF VersionsUnique
<1>3. ASSUME NEW x \in refuted' PROVE x[1] \in 1..issued'
  <2>1. CASE x \in refuted
    BY <1>0, <2>1 DEF VersionsUnique
  <2>2. ASSUME NEW q \in RequestIDs, Watched(q), x[1] = tries[q][1].version
        PROVE  x[1] \in 1..issued'
    BY <1>0, <2>2 DEF VersionsUnique, Watched
  <2>. QED BY <2>1, <2>2, Noted
<1>. QED BY <1>1, <1>2, <1>3 DEF VersionsUnique

-----------------------------------------------------------------------------
(* Requests that are watched *)

LEMMA WatchedNext ==
    TypeOK /\ CallsOrdered /\ WatchedObserved /\ [Next]_vars => WatchedObserved'
<1>. SUFFICES ASSUME TypeOK, CallsOrdered, WatchedObserved, [Next]_vars, NEW p \in RequestIDs
              PROVE  /\ tries'[p] = <<>> => requests'[p] = NoObservation
                     /\ Len(tries'[p]) = 1 /\ tries'[p][1].given # "ticket"
                           => requests'[p] = NoObservation
                     /\ Watched(p)' => requests'[p] = [key |-> tries'[p][1].key,
                                                       observing |-> TRUE,
                                                       version |-> tries'[p][1].version]
  BY DEF WatchedObserved
<1>0. /\ CallOrdered(p)
      /\ asking \in [RequestIDs -> {"none", "forget", "eligible", "decide", "bind", "lookup"}]
      /\ requests \in [RequestIDs -> Observation]
      /\ tries[p] = <<>> => requests[p] = NoObservation
      /\ Len(tries[p]) = 1 /\ tries[p][1].given # "ticket" => requests[p] = NoObservation
      /\ Watched(p) => requests[p] = [key |-> tries[p][1].key, observing |-> TRUE,
                                      version |-> tries[p][1].version]
      /\ Len(tries[p]) \in Nat /\ (tries[p] # <<>> <=> Len(tries[p]) >= 1)
  BY AttemptTypes DEF CallsOrdered, TypeOK, WatchedObserved
<1>1. CASE CallSame(p)
  BY <1>0, <1>1 DEF CallSame, Watched
<1>2. CASE (\E k \in Keys : AskManages(p, k)) \/ TryUnkeyed(p)
  <2>1. PICK k \in Keys \cup {NoKey}, b \in BOOLEAN : Begins(p, k, b)
    BY <1>2 DEF AskManages, TryUnkeyed, Manages
  <2>2. /\ Len(tries'[p]) = Len(tries[p]) + 1 /\ tries'[p] # <<>>
        /\ tries'[p][Len(tries'[p])].given = "nothing"
    BY <2>1, BeginsFacts, BeginsLatest DEF Latest
  <2>3. requests'[p] = requests[p]
    BY <1>2 DEF AskManages, TryUnkeyed, engineVars
  <2>4. Len(tries'[p]) = 1 => tries[p] = <<>> /\ tries'[p][1].given = "nothing"
    BY <1>0, <2>2
  <2>. QED BY <1>0, <2>2, <2>3, <2>4 DEF Watched
<1>3. CASE Forget(p) \/ BindEligible(p) \/ BindRequest(p)
  <2>1. UNCHANGED <<tries, requests>> /\ asking[p] # "none"
    BY <1>3 DEF Forget, BindEligible, BindRequest, engineVars
  <2>2. Len(tries[p]) = 1 => tries[p][1].given = "nothing"
    BY <1>0, <2>1 DEF CallOrdered, Latest
  <2>. QED BY <1>0, <2>1, <2>2 DEF Watched
<1>4. CASE BindDecide(p)
  <2>. DEFINE k == Latest(p).key
  <2>1. /\ tries[p] # <<>> /\ k \in Keys /\ tickets[k] \in Nat
        /\ Len(tries[p]) = 1 => tries[p][1].given = "nothing" /\ requests[p] = NoObservation
    <3>1. tries[p] # <<>> /\ k \in Keys /\ Latest(p).given = "nothing"
      BY <1>0, <1>4 DEF BindDecide, CallOrdered
    <3>2. tickets[k] \in Nat
      BY <3>1 DEF TypeOK
    <3>3. Len(tries[p]) = 1 => tries[p][1].given = "nothing"
      BY <3>1 DEF Latest
    <3>. QED BY <1>0, <3>1, <3>2, <3>3
  <2>2. CASE requests' = Tombstoned(p) /\ UNCHANGED tries
    BY <1>0, <2>1, <2>2 DEF Tombstoned, Watched
  <2>3. CASE /\ requests' = [requests EXCEPT ![p] =
                               [key |-> k, version |-> tickets[k],
                                observing |-> requests[p] = NoObservation]]
             /\ Gives(p, "ticket", tickets[k])
    <3>1. /\ Len(tries'[p]) = Len(tries[p]) /\ tries'[p] # <<>>
          /\ Latest(p)'.given = "ticket" /\ Latest(p)'.key = k /\ Latest(p)'.version = tickets[k]
      BY <2>1, <2>3, GivesLatest DEF Given
    <3>2. requests'[p] = [key |-> k, version |-> tickets[k],
                          observing |-> requests[p] = NoObservation]
      BY <1>0, <2>3
    <3>3. Len(tries'[p]) = 1
             => /\ tries'[p][1].given = "ticket" /\ tries'[p][1].key = k
                /\ tries'[p][1].version = tickets[k] /\ requests[p] = NoObservation
      BY <2>1, <3>1 DEF Latest
    <3>. QED BY <3>1, <3>2, <3>3 DEF Watched
  <2>. QED BY <1>4, <2>2, <2>3 DEF BindDecide
<1>5. CASE Lookup(p)
  <2>1. /\ tries[p] # <<>> /\ requests' = requests
        /\ Len(tries[p]) = 1 => tries[p][1].given = "nothing"
    BY <1>0, <1>5 DEF Lookup, CallOrdered, engineVars, Latest
  <2>2. CASE UNCHANGED tries
    BY <1>0, <2>1, <2>2 DEF Watched
  <2>3. CASE Gives(p, "captured", 0)
    <3>1. /\ Len(tries'[p]) = Len(tries[p]) /\ tries'[p] # <<>>
          /\ Latest(p)'.given = "captured"
      BY <2>1, <2>3, GivesLatest DEF Given
    <3>2. Len(tries'[p]) = 1 => tries'[p][1].given = "captured"
      BY <3>1 DEF Latest
    <3>. QED BY <1>0, <2>1, <3>1, <3>2 DEF Watched
  <2>. QED BY <1>5, <2>2, <2>3 DEF Lookup
<1>6. CASE (\E r : Respond(p, r)) \/ Headers(p) \/ Body(p) \/ Capture(p) \/ CompleteCache(p)
  <2>1. /\ UNCHANGED <<tries, requests, asking>>
        /\ p \in completing \cup done => p \in completing' \cup done'
    BY <1>6 DEF Respond, Headers, Body, Capture, CompleteCache, engineVars
  <2>. QED BY <1>0, <2>1 DEF Watched
<1>7. CASE \E mismatch \in BOOLEAN : CompleteEngine(p, mismatch)
  <2>1. UNCHANGED tries /\ p \in done' /\ requests' = Dropped(p)
    BY <1>7 DEF CompleteEngine
  <2>2. requests[p] = NoObservation => requests' = requests
    BY <2>1 DEF Dropped, NoObservation
  <2>. QED BY <1>0, <2>1, <2>2 DEF Watched
<1>. QED BY <1>1, <1>2, <1>3, <1>4, <1>5, <1>6, <1>7, OtherCallsSame

LEMMA AnswersNext == TypeOK /\ CallsOrdered /\ AnswersShaped /\ [Next]_vars => AnswersShaped'
<1>. SUFFICES ASSUME TypeOK, CallsOrdered, AnswersShaped, [Next]_vars, NEW p \in RequestIDs
              PROVE  AnswerShaped(p)'
  BY DEF AnswersShaped
<1>0. AnswerShaped(p) /\ answer \in [RequestIDs -> Answer \cup {NoAnswer}]
  BY DEF AnswersShaped, TypeOK
<1>1. CASE answer'[p] = answer[p]
  BY <1>0, <1>1 DEF AnswerShaped
<1>2. ASSUME NEW kind \in Kinds, NEW r \in AnswersOf(kind), Respond(p, r)
      PROVE  AnswerShaped(p)'
  BY <1>0, <1>2, AnswersTyped DEF Respond, AnswerShaped
<1>3. CASE Headers(p) \/ Body(p)
  <2>1. /\ answer[p].pc # "none"
        /\ answer[p].pc = "headers" \/ answer[p].kind # "chunk" \/ answer'[p] = NoAnswer
    BY <1>0, <1>3 DEF Headers, Body
  <2>2. answer[p] # NoAnswer /\ answer[p] \in Answer
    BY <1>0, <2>1 DEF NoAnswer
  <2>3. answer'[p] = NoAnswer \/ \E pc : answer'[p] = [answer[p] EXCEPT !.pc = pc]
    BY <1>0, <1>3 DEF Headers, Body
  <2>4. \A pc : LET r == [answer[p] EXCEPT !.pc = pc]
                IN  /\ r.kind = answer[p].kind
                    /\ r.mismatch <=> answer[p].mismatch
    BY <2>2 DEF Answer
  <2>5. CASE answer'[p] = NoAnswer
    BY <2>5 DEF AnswerShaped
  <2>6. CASE answer'[p] # NoAnswer
    <3>1. /\ answer'[p].kind = answer[p].kind /\ answer'[p].kind # "chunk"
          /\ answer'[p].mismatch <=> answer[p].mismatch
      BY <1>0, <2>1, <2>2, <2>3, <2>4, <2>6 DEF AnswerShaped
    <3>. QED BY <1>0, <2>2, <3>1 DEF AnswerShaped
  <2>. QED BY <2>5, <2>6
<1>4. CASE Capture(p)
  BY <1>0, <1>4 DEF Capture, AnswerShaped
<1>. QED BY <1>1, <1>2, <1>3, <1>4, OtherCallsSame
         DEF CallSame, AskManages, TryUnkeyed, Forget, BindEligible, BindDecide, BindRequest,
             Lookup, CompleteCache, CompleteEngine

-----------------------------------------------------------------------------
(* What a watched request's answer has told the engine *)

\* For a watched request, invalidating its observation revokes its ticket.
LEMMA InvalidateRevokes ==
    ASSUME TypeOK, WatchedObserved, VersionsUnique, NEW q \in RequestIDs, Watched(q),
           tries[q][1].key \in Keys, NEW n, Invalidate(q, n)
    PROVE  tickets'[tries[q][1].key] # tries[q][1].version
<1>0. requests[q] = [key |-> tries[q][1].key, observing |-> TRUE,
                     version |-> tries[q][1].version]
  BY DEF WatchedObserved
<1>1. /\ requests[q].key = tries[q][1].key /\ requests[q].observing
      /\ requests[q].version = tries[q][1].version
  BY <1>0
<1>2. tickets \in [Keys -> 0..issued] /\ tries[q][1].version \in 1..issued /\ issued \in Nat
  BY DEF TypeOK, VersionsUnique, Watched
<1>. QED BY <1>1, <1>2 DEF Invalidate

\* The key and the version of a watched request.
LEMMA WatchedFacts ==
    ASSUME TypeOK, WatchedObserved, VersionsUnique, NEW q \in RequestIDs, Watched(q)
    PROVE  /\ tries[q][1].key \in Keys /\ tries[q][1].version \in 1..issued
           /\ requests[q] # NoObservation /\ requests[q].key = tries[q][1].key
           /\ \A k \in Keys \ {tries[q][1].key} : tickets[k] # tries[q][1].version
<1>1. requests[q] = [key |-> tries[q][1].key, observing |-> TRUE,
                     version |-> tries[q][1].version]
  BY DEF WatchedObserved
<1>2. requests[q] \in Observation
  BY DEF TypeOK
<1>3. requests[q] # NoObservation
  BY <1>1 DEF NoObservation
<1>4. requests[q].key \in Keys
  BY <1>2, <1>3 DEF Observation
<1>5. /\ tries[q][1].version \in 1..issued
      /\ \A k \in Keys \ {tries[q][1].key} : tickets[k] # tries[q][1].version
  BY DEF VersionsUnique, Watched
<1>. QED BY <1>1, <1>3, <1>4, <1>5

LEMMA HeardNext == IInv /\ [Next]_vars => HeardRevokes'
<1>. SUFFICES ASSUME IInv, [Next]_vars, NEW p \in RequestIDs,
                     answer'[p] # NoAnswer, Watched(p)', Heard(p)'
              PROVE  tickets'[tries'[p][1].key] # tries'[p][1].version
  BY DEF HeardRevokes
<1>0. /\ TypeOK /\ CallsOrdered /\ AnswersShaped /\ VersionsUnique /\ WatchedObserved
      /\ CallOrdered(p) /\ AnswerShaped(p)
      /\ answer[p] # NoAnswer /\ Watched(p) /\ Heard(p)
           => tickets[tries[p][1].key] # tries[p][1].version
      /\ asking \in [RequestIDs -> {"none", "forget", "eligible", "decide", "bind", "lookup"}]
      /\ answer \in [RequestIDs -> Answer \cup {NoAnswer}]
      /\ Len(tries[p]) \in Nat
  BY AttemptTypes DEF IInv, CallsOrdered, AnswersShaped, HeardRevokes, TypeOK
<1>1. ASSUME answer[p] # NoAnswer, Watched(p), Heard(p), tries'[p] = tries[p]
      PROVE  tickets'[tries'[p][1].key] # tries'[p][1].version
  BY <1>0, <1>1, WatchedFacts, StaysRevoked
<1>2. CASE CallSame(p)
  <2>1. /\ tries'[p] = tries[p] /\ answer'[p] = answer[p] /\ Watched(p)
    BY <1>2 DEF CallSame, Watched
  <2>2. CASE Heard(p)
    BY <1>1, <2>1, <2>2
  <2>3. CASE ~Heard(p)
    <3>1. plans'[tries[p][1].key] # plans[tries[p][1].key]
      BY <2>1, <2>3 DEF Heard
    <3>2. Discover
      BY <3>1 DEF Next, vars, Expire, Publish, AskManages, TryUnkeyed, Forget, BindEligible,
             BindDecide, BindRequest, Lookup, Respond, Headers, Body, Capture, CompleteCache,
             CompleteEngine, engineVars
    <3>3. tries[p][1].key \in Keys /\ tries[p][1].version \in 1..issued /\ issued \in Nat
      BY <1>0, <2>1, WatchedFacts DEF TypeOK
    <3>4. tickets'[tries[p][1].key] = 0
      BY <3>1, <3>2, <3>3 DEF Discover
    <3>. QED BY <2>1, <3>3, <3>4
  <2>. QED BY <2>2, <2>3
<1>3. CASE (\E k \in Keys : AskManages(p, k)) \/ TryUnkeyed(p)
  <2>1. PICK k \in Keys \cup {NoKey}, b \in BOOLEAN : Begins(p, k, b)
    BY <1>3 DEF AskManages, TryUnkeyed, Manages
  <2>2. tries'[p][Len(tries'[p])].given = "nothing"
    BY <1>0, <2>1, BeginsLatest DEF Latest
  <2>. QED BY <2>2 DEF Watched
<1>4. CASE Forget(p) \/ BindEligible(p) \/ BindDecide(p) \/ BindRequest(p) \/ Lookup(p)
  <2>1. answer' = answer /\ asking[p] # "none" /\ tries[p] # <<>>
    BY <1>0, <1>4 DEF Forget, BindEligible, BindDecide, BindRequest, Lookup, CallOrdered
  <2>2. answer[p].try <= Len(tries[p]) /\ answer[p].try # Len(tries[p]) /\ answer[p].try \in Nat \ {0}
    BY <1>0, <2>1 DEF CallOrdered, Answer
  <2>3. Len(tries'[p]) = Len(tries[p])
    <3>1. tickets[Latest(p).key] \in Nat
      BY <1>0, <2>1 DEF TypeOK, CallOrdered
    <3>2. UNCHANGED tries \/ \E g \in Given, v \in Nat : Gives(p, g, v)
      BY <1>4, <3>1 DEF Forget, BindEligible, BindDecide, BindRequest, Lookup, Given
    <3>. QED BY <1>0, <2>1, <3>2, GivesLatest
  <2>4. Len(tries'[p]) = 1
    BY DEF Watched
  <2>5. answer[p].try <= 1 /\ answer[p].try # 1
    BY <2>2, <2>3, <2>4
  <2>. QED BY <2>2, <2>5
<1>5. ASSUME NEW kind \in Kinds, NEW r \in AnswersOf(kind), Respond(p, r)
      PROVE  FALSE
  <2>1. answer'[p] = r
    BY <1>0, <1>5 DEF Respond
  <2>2. /\ r.kind = "chunk" => r.pc = "body"
        /\ r.kind # "chunk" => r.pc = "headers"
    BY AnswersTyped
  <2>. QED BY <2>1, <2>2 DEF Heard
<1>6. CASE Headers(p) \/ Body(p)
  <2>1. /\ tries' = tries /\ plans' = plans /\ Watched(p)
        /\ answer[p].pc \in {"headers", "body"}
        /\ answer'[p] # NoAnswer
    BY <1>6 DEF Headers, Body, Watched
  <2>2. answer[p] # NoAnswer /\ answer[p] \in Answer
    BY <1>0, <2>1 DEF NoAnswer
  <2>3. PICK pc : /\ answer'[p] = [answer[p] EXCEPT !.pc = pc]
                  /\ Headers(p) => pc = AfterHeaders(answer[p])
                  /\ Body(p) => pc = "capture" /\ answer[p].kind # "chunk"
    BY <1>0, <1>6, <2>1, <2>2 DEF Headers, Body
  <2>4. /\ answer'[p].kind = answer[p].kind /\ answer'[p].plan = answer[p].plan
        /\ answer'[p].state = answer[p].state /\ (answer'[p].mismatch <=> answer[p].mismatch)
        /\ answer'[p].pc = pc
    BY <2>2, <2>3 DEF Answer
  <2>5. HeaderPlan(answer[p])' = HeaderPlan(answer[p])
    BY <2>4 DEF HeaderPlan
  <2>6. /\ tries[p][1].key \in Keys /\ tries[p][1].version \in 1..issued
        /\ requests[p] # NoObservation /\ requests[p].key = tries[p][1].key
    BY <1>0, <2>1, WatchedFacts
  <2>7. CASE Headers(p)
    <3>1. answer[p].pc = "headers" /\ answer[p].kind # "chunk"
      BY <1>0, <2>2, <2>7 DEF Headers, AnswerShaped
    <3>2. pc = "capture" => ~answer[p].mismatch
      BY <1>0, <2>2, <2>3, <2>7 DEF AfterHeaders, AnswerShaped
    <3>3. \/ ~PlanMatches(HeaderPlan(answer[p]), plans[tries[p][1].key])
          \/ answer[p].state = "bad"
      BY <2>1, <2>4, <2>5, <3>2 DEF Heard
    <3>4. Invalidate(p, answer[p].try)
      BY <2>6, <2>7, <3>3 DEF Headers
    <3>. QED BY <1>0, <2>1, <2>6, <3>4, InvalidateRevokes
  <2>8. CASE Body(p)
    <3>1. /\ pc = "capture" /\ answer[p].kind # "chunk" /\ answer[p].pc = "body"
      BY <2>3, <2>8 DEF Body
    <3>2. CASE answer[p].mismatch
      BY <1>0, <2>1, <2>6, <2>8, <3>2, InvalidateRevokes DEF Body
    <3>3. CASE ~answer[p].mismatch
      <4>1. Heard(p)
        BY <2>1, <2>4, <2>5, <3>1, <3>3 DEF Heard
      <4>. QED BY <1>1, <2>1, <2>2, <4>1
    <3>. QED BY <3>2, <3>3
  <2>. QED BY <1>6, <2>7, <2>8
<1>7. CASE Capture(p)
  BY <1>0, <1>7 DEF Capture
<1>8. CASE CompleteCache(p) \/ \E mismatch \in BOOLEAN : CompleteEngine(p, mismatch)
  BY <1>8 DEF CompleteCache, CompleteEngine, Watched
<1>. QED BY <1>2, <1>3, <1>4, <1>5, <1>6, <1>7, <1>8, <1>0, OtherCallsSame

LEMMA RefutationsNext == IInv /\ [Next]_vars => RefutationsRevoke'
<1>. SUFFICES ASSUME IInv, [Next]_vars, NEW k \in Keys, <<tickets'[k], "seen">> \in refuted'
              PROVE  FALSE
  BY DEF RefutationsRevoke
<1>0. /\ TypeOK /\ CallsOrdered /\ AnswersShaped /\ VersionsUnique /\ WatchedObserved
      /\ HeardRevokes /\ RefutationsRevoke
      /\ issued \in Nat /\ tickets \in [Keys -> 0..issued]
  BY DEF IInv, TypeOK
<1>1. CASE <<tickets'[k], "seen">> \in refuted
  <2>1. tickets'[k] \in 1..issued
    BY <1>0, <1>1 DEF VersionsUnique
  <2>2. tickets'[k] = tickets[k]
    BY <1>0, <2>1, TicketsMove
  <2>. QED BY <1>0, <1>1, <2>2 DEF RefutationsRevoke
<1>2. CASE <<tickets'[k], "seen">> \notin refuted
  <2>1. PICK q \in RequestIDs : Report(q) /\ ((Body(q) /\ answer[q].kind = "chunk") \/ Capture(q))
    BY <1>2
       DEF Next, vars, Discover, Expire, Publish, AskManages, TryUnkeyed, Forget, BindEligible,
           BindDecide, BindRequest, Lookup, Respond, Headers, Body, Capture, CompleteCache,
           CompleteEngine, history
  <2>. DEFINE r == answer[q]
              v == tries[q][1].version
              own == tries[q][1].key
              refutes == ~PlanMatches(r.plan, plans[own])
  <2>2. /\ Watched(q) /\ tickets'[k] = v
        /\ r.mismatch \/ r.state = "bad" \/ (refutes /\ r.kind # "event")
    BY <1>2, <2>1 DEF Report
  <2>3. own \in Keys /\ v \in 1..issued /\ \A j \in Keys \ {own} : tickets[j] # v
    BY <1>0, <2>2, WatchedFacts
  <2>4. r.pc \in {"body", "capture"} /\ r # NoAnswer
    BY <2>1 DEF Body, Capture, NoAnswer
  <2>5. tickets'[own] # v
    <3>1. CASE Body(q) /\ r.kind = "chunk"
      <4>1. r.plan = NoPlan /\ r.state = "none"
        BY <1>0, <2>4, <3>1 DEF AnswersShaped, AnswerShaped
      <4>2. r.mismatch
        BY <2>2, <4>1 DEF PlanMatches
      <4>. QED BY <1>0, <2>2, <2>3, <3>1, <4>2, InvalidateRevokes DEF Body
    <3>2. CASE Capture(q)
      <4>1. r.kind # "event" => HeaderPlan(r) = r.plan
        BY DEF HeaderPlan
      <4>2. Heard(q)
        BY <2>2, <3>2, <4>1 DEF Heard, Capture
      <4>3. tickets[own] # v
        BY <1>0, <2>2, <2>4, <4>2 DEF HeardRevokes
      <4>. QED BY <1>0, <2>3, <4>3, StaysRevoked
    <3>. QED BY <2>1, <3>1, <3>2
  <2>6. \A j \in Keys : tickets'[j] # v
    BY <1>0, <2>3, <2>5, StaysRevoked
  <2>. QED BY <2>2, <2>6
<1>. QED BY <1>1, <1>2

-----------------------------------------------------------------------------
(* The theorems *)

LEMMA InitInv == Init => IInv
<1>. SUFFICES ASSUME Init PROVE IInv
  OBVIOUS
<1>1. \A q \in RequestIDs : /\ tries[q] = <<>> /\ asking[q] = "none" /\ answer[q] = NoAnswer
                            /\ requests[q] = NoObservation /\ pending[q] = NoKey
  BY DEF Init
<1>2. TypeOK
  <2>1. requests \in [RequestIDs -> Observation]
    <3>1. NoObservation \in Observation
      BY DEF Observation
    <3>2. requests = [q \in RequestIDs |-> NoObservation]
      BY DEF Init
    <3>. QED BY <3>1, <3>2
  <2>2. /\ tries \in [RequestIDs -> Seq(Attempt)]
        /\ answer \in [RequestIDs -> Answer \cup {NoAnswer}]
        /\ pending \in [RequestIDs -> Keys \cup {NoKey}]
        /\ asking \in [RequestIDs -> {"none", "forget", "eligible", "decide", "bind", "lookup"}]
    BY DEF Init
  <2>3. /\ plans \in [Keys -> Plans \cup {NoPlan}]
        /\ tickets \in [Keys -> 0..issued] /\ issued \in Nat
        /\ entries \in [Keys -> Origins]
    BY DEF Init, Origins
  <2>4. discovered \in BOOLEAN /\ owned \subseteq Keys
        /\ completing \subseteq RequestIDs /\ done \subseteq RequestIDs
    BY DEF Init
  <2>. QED BY <2>1, <2>2, <2>3, <2>4 DEF TypeOK
<1>3. CallsOrdered /\ BindingsPassive /\ AnswersShaped
  BY <1>1 DEF Init, CallsOrdered, CallOrdered, BindingsPassive, BindingPassive, AnswersShaped,
              AnswerShaped
<1>4. VerifiedOnly /\ RefutationsRevoke
  BY <1>1 DEF Init, VerifiedOnly, RefutationsRevoke
<1>5. VersionsUnique /\ WatchedObserved /\ HeardRevokes
  BY <1>1 DEF Init, VersionsUnique, WatchedObserved, HeardRevokes, Watched
<1>. QED BY <1>2, <1>3, <1>4, <1>5 DEF IInv

LEMMA Invariance == Spec => []IInv
<1>1. Init => IInv
  BY InitInv
<1>2. IInv /\ [Next]_vars => IInv'
  <2>. SUFFICES ASSUME IInv, [Next]_vars PROVE IInv'
    OBVIOUS
  <2>1. TypeOK' /\ CallsOrdered'
    BY TypeNext, CallsNext DEF IInv
  <2>2. BindingsPassive' /\ VerifiedOnly'
    BY BindingsNext, VerifiedNext DEF IInv
  <2>3. AnswersShaped' /\ VersionsUnique' /\ WatchedObserved'
    BY AnswersNext, VersionsNext, WatchedNext DEF IInv
  <2>4. HeardRevokes' /\ RefutationsRevoke'
    BY HeardNext, RefutationsNext
  <2>. QED BY <2>1, <2>2, <2>3, <2>4 DEF IInv
<1>. QED BY <1>1, <1>2, PTL DEF Spec

\* The value of every variable has its type, whatever callbacks run beside each
\* other (interceptor.go).
THEOREM TypeCorrect == Spec => []TypeOK
<1>1. IInv => TypeOK
  BY DEF IInv
<1>. QED BY <1>1, Invariance, PTL

\* No attempt that was verified-only when it began goes out with a captured state,
\* and nothing it answers is captured (interceptor.go, InterceptRequestAfterAuth
\* and the capture of the response callbacks).
THEOREM VerifiedOnlyHolds == Spec => []VerifiedOnly
<1>1. IInv => VerifiedOnly
  BY DEF IInv
<1>. QED BY <1>1, Invariance, PTL

\* Completion leaves a request neither bound nor observed (interceptor.go,
\* HandleRequestComplete).
THEOREM CompletedLeavesNothingHolds == Spec => []CompletedLeavesNothing
<1>1. IInv => CompletedLeavesNothing
  <2>. SUFFICES ASSUME BindingsPassive, NEW q \in done
                PROVE  q \in RequestIDs => pending[q] = NoKey /\ ~requests[q].observing
    BY DEF IInv, TypeOK, CompletedLeavesNothing
  <2>1. q \in RequestIDs => BindingPassive(q)
    BY DEF BindingsPassive
  <2>. QED BY <2>1 DEF BindingPassive
<1>. QED BY <1>1, Invariance, PTL

\* What a response callback visibly shows against the ticket of a watched request
\* has revoked it when the callback returns (interceptor.go, the response
\* callbacks; engine.go, Headers, JSON and Chunk).
THEOREM RefutationsRevokeHolds == Spec => []RefutationsRevoke
<1>1. IInv => RefutationsRevoke
  BY DEF IInv
<1>. QED BY <1>1, Invariance, PTL
=============================================================================
