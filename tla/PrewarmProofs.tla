---------------------------- MODULE PrewarmProofs ---------------------------
(***************************************************************************)
(* Proofs about the prewarm engine for every value of its constants.       *)
(***************************************************************************)
EXTENDS PrewarmRequirements, FiniteSetTheorems, SequenceTheorems, TLAPS

\* The rotation wraps around within the configured proxies.
LEMMA ProxiesType == \A p \in Nat : p % NumProxies \in Proxies
BY PoolAssumption DEF PoolAssumption, Proxies

\* Choosing a proxy (chooseProxyLocked) leaves a well-formed pool.
LEMMA ChoiceType ==
    ASSUME NEW x \in Pool, NEW p \in Proxies \cup {NoProxy}, NEW t \in Nat
    PROVE  AfterChoice(x, p, t) \in Pool
<1>1. p \in Proxies => (p + 1) % NumProxies \in Proxies
  BY ProxiesType DEF Proxies
<1>2. DropCooling(x, t) \in Pool
  BY DEF DropCooling, Pool
<1>. QED BY <1>1, <1>2 DEF AfterChoice, Pool

\* Marking a failure (markProxy) leaves a well-formed pool.
LEMMA FailureType ==
    ASSUME NEW x \in Pool, NEW p \in Proxies \cup {NoProxy}, NEW t \in Nat
    PROVE  MarkFailure(x, p, t) \in Pool
<1>1. \A n \in Nat : Backoff(n) \in Nat
  BY PoolAssumption DEF PoolAssumption, Backoff
<1>2. CASE p \in Proxies
  <2>1. x.failures[p] + 1 \in Nat /\ t + Backoff(x.failures[p] + 1) \in Nat
    BY <1>1, <1>2 DEF Pool
  <2>2. /\ [x.failures EXCEPT ![p] = x.failures[p] + 1] \in [Proxies -> Nat]
        /\ [x.cooldown EXCEPT ![p] = t + Backoff(x.failures[p] + 1)] \in [Proxies -> Nat]
    BY <1>2, <2>1 DEF Pool
  <2>. QED BY <2>2 DEF MarkFailure, Pool
<1>3. CASE p \notin Proxies
  <2>1. /\ [x.failures EXCEPT ![p] = x.failures[p] + 1] = x.failures
        /\ [x.cooldown EXCEPT ![p] = t + Backoff(x.failures[p] + 1)] = x.cooldown
    BY <1>3 DEF Pool
  <2>. QED BY <2>1 DEF MarkFailure, Pool
<1>. QED BY <1>2, <1>3

\* Marking a success (markProxy) leaves a well-formed pool.
LEMMA SuccessType ==
    ASSUME NEW x \in Pool, NEW p \in Proxies \cup {NoProxy}
    PROVE  MarkSuccess(x, p) \in Pool
BY DEF MarkSuccess, Pool

\* What the budget keeps of its stamps is a sequence of times.
LEMMA KeptType ==
    ASSUME NEW s \in Seq(Nat), NEW n \in 0..Len(s)
    PROVE  Kept(s, n) \in Seq(Nat)
BY SubSeqProperties DEF Kept

\* There are finitely many keys, so that the due ones can be counted.
LEMMA KeysFinite == IsFiniteSet(Keys)
BY FS_Product, EngineAssumption DEF EngineAssumption, Keys

\* The idle worker is a worker state.
LEMMA IdleType == IdleWorker \in WorkerState
BY DEF WorkerState, IdleWorker, WorkerPCs, StateClasses

\* Giving a worker a well-formed state keeps the type of the workers.
LEMMA WorkerType ==
    ASSUME TypeOK, NEW w \in WorkerIDs, NEW x \in WorkerState, Becomes(w, x)
    PROVE  wk' \in [WorkerIDs -> WorkerState]
BY DEF TypeOK, Becomes

\* The channel's capacity is a number.
LEMMA CapacityType == QueueCapacity \in Nat
<1>1. IsFiniteSet({k \in Keys : ExplicitPlans[k] # NoPlan}) /\ IsFiniteSet(Models)
  BY KeysFinite, FS_Subset, EngineAssumption DEF EngineAssumption
<1>2. Cardinality(Models) \in Nat /\ Cardinality({k \in Keys : ExplicitPlans[k] # NoPlan}) \in Nat
  BY <1>1, FS_CardinalityType
<1>. QED BY <1>2, EngineAssumption DEF EngineAssumption, QueueCapacity

\* A scan picks a number of keys that fits into the channel.
LEMMA PickCountType ==
    ASSUME TypeOK
    PROVE  /\ PickCount \in Nat /\ Len(queue) \in Nat
           /\ Len(queue) + PickCount <= QueueCapacity
<1>1. IsFiniteSet(DueKeys)
  BY KeysFinite, FS_Subset DEF DueKeys
<1>2. Cardinality(DueKeys) \in Nat
  BY <1>1, FS_CardinalityType
<1>3. Len(queue) \in Nat /\ Len(queue) <= QueueCapacity
  BY LenProperties DEF TypeOK, JobQueue
<1>. QED BY <1>2, <1>3, CapacityType DEF PickCount

\* Every field update that a round makes gives a well-formed worker state.
LEMMA WorkerUpdates ==
    ASSUME NEW x \in WorkerState
    PROVE  /\ \A pc \in WorkerPCs : [x EXCEPT !.pc = pc] \in WorkerState
           /\ \A p \in Plans : [x EXCEPT !.pc = "attempt", !.plan = p] \in WorkerState
           /\ \A s \in Scopes :
                 /\ [x EXCEPT !.pc = "choose", !.scope = s] \in WorkerState
                 /\ [x EXCEPT !.pc = "reverify", !.scope = s] \in WorkerState
                 /\ [x EXCEPT !.pc = "publish", !.scope = s] \in WorkerState
           /\ \A p \in Proxies, t \in Nat :
                 [x EXCEPT !.pc = "reserve", !.proxy = p, !.captured = t] \in WorkerState
           /\ \A c \in StateClasses, s \in Scopes \cup {NoScope} :
                 /\ [x EXCEPT !.pc = "redescribe", !.state = c, !.harvestedAs = s]
                       \in WorkerState
                 /\ [x EXCEPT !.pc = "recheck", !.verifiedAs = s] \in WorkerState
<1>1. \A pc \in WorkerPCs : [x EXCEPT !.pc = pc] \in WorkerState
  BY DEF WorkerState
<1>2. \A p \in Plans : [x EXCEPT !.pc = "attempt", !.plan = p] \in WorkerState
  BY DEF WorkerState, WorkerPCs
<1>3. \A s \in Scopes : [x EXCEPT !.pc = "choose", !.scope = s] \in WorkerState
  BY DEF WorkerState, WorkerPCs
<1>4. \A s \in Scopes : /\ [x EXCEPT !.pc = "reverify", !.scope = s] \in WorkerState
                        /\ [x EXCEPT !.pc = "publish", !.scope = s] \in WorkerState
  BY DEF WorkerState, WorkerPCs
<1>5. \A p \in Proxies, t \in Nat :
         [x EXCEPT !.pc = "reserve", !.proxy = p, !.captured = t] \in WorkerState
  BY DEF WorkerState, WorkerPCs
<1>6. \A c \in StateClasses, s \in Scopes \cup {NoScope} :
         [x EXCEPT !.pc = "redescribe", !.state = c, !.harvestedAs = s] \in WorkerState
  BY DEF WorkerState, WorkerPCs
<1>7. \A s \in Scopes \cup {NoScope} :
         [x EXCEPT !.pc = "recheck", !.verifiedAs = s] \in WorkerState
  BY DEF WorkerState, WorkerPCs
<1>. QED BY <1>1, <1>2, <1>3, <1>4, <1>5, <1>6, <1>7

\* A return from collect keeps the type of the workers.
LEMMA ReturnType ==
    ASSUME TypeOK, NEW w \in WorkerIDs, NEW b \in BOOLEAN, Return(w, b)
    PROVE  wk' \in [WorkerIDs -> WorkerState]
<1>1. wk[w].job \in Job \cup {NoJob}
  BY DEF TypeOK, WorkerState
<1>2. [IdleWorker EXCEPT !.pc = "finish", !.job = wk[w].job, !.ready = b] \in WorkerState
  BY <1>1, IdleType DEF WorkerState, WorkerPCs
<1>. QED BY <1>2, WorkerType DEF Return

\* The start of a new attempt keeps the type of the workers.
LEMMA NextAttemptType ==
    ASSUME TypeOK, NEW w \in WorkerIDs, NextAttempt(w)
    PROVE  wk' \in [WorkerIDs -> WorkerState]
<1>1. /\ wk[w].job \in Job \cup {NoJob}
      /\ wk[w].plan \in Plans \cup {NoPlan}
      /\ wk[w].attempt + 1 \in Nat
  BY DEF TypeOK, WorkerState
<1>2. [IdleWorker EXCEPT !.pc = "attempt", !.job = wk[w].job, !.plan = wk[w].plan,
                         !.attempt = wk[w].attempt + 1] \in WorkerState
  BY <1>1, IdleType DEF WorkerState, WorkerPCs
<1>. QED BY <1>2, WorkerType DEF NextAttempt

\* Moving a worker's control keeps the type of the workers.
LEMMA GotoType ==
    ASSUME TypeOK, NEW w \in WorkerIDs, NEW pc \in WorkerPCs, Goto(w, pc)
    PROVE  wk' \in [WorkerIDs -> WorkerState]
<1>1. [wk[w] EXCEPT !.pc = pc] \in WorkerState
  BY WorkerUpdates DEF TypeOK
<1>. QED BY <1>1, WorkerType DEF Goto

\* Blaming a worker's proxy keeps the type of the pool.
LEMMA BlameType ==
    ASSUME TypeOK, NEW w \in WorkerIDs, Blame(w)
    PROVE  pool' \in Pool
<1>1. wk[w].proxy \in Proxies \cup {NoProxy}
  BY DEF TypeOK, WorkerState
<1>. QED BY <1>1, FailureType DEF Blame, TypeOK

\* enqueueLocked keeps the types of records and queue, and its length bound.
LEMMA EnqueueType ==
    ASSUME TypeOK, NEW k \in Keys, NEW r \in Record, enqueueLocked(k, r)
    PROVE  records' \in [Keys -> Record] /\ queue' \in JobQueue
<1>1. [key |-> k, epoch |-> r.epoch] \in Job /\ [r EXCEPT !.running = TRUE] \in Record
  BY DEF Record, Job
<1>2. CASE Enqueues(k, r)
  <2>1. records' = [records EXCEPT ![k] = [r EXCEPT !.running = TRUE]]
    BY <1>2 DEF enqueueLocked
  <2>2. queue' = Append(queue, [key |-> k, epoch |-> r.epoch])
    BY <1>2 DEF enqueueLocked
  <2>3. records' \in [Keys -> Record]
    BY <1>1, <2>1 DEF TypeOK
  <2>4. queue' \in JobQueue
    <3>1. Len(queue) + 1 <= QueueCapacity
      BY <1>2, CapacityType, LenProperties DEF Enqueues, TypeOK, JobQueue
    <3>. QED BY <1>1, <2>2, <3>1, AppendProperties DEF TypeOK, JobQueue
  <2>. QED BY <2>3, <2>4
<1>3. CASE ~Enqueues(k, r)
  BY <1>1, <1>3 DEF TypeOK, enqueueLocked
<1>. QED BY <1>2, <1>3

-----------------------------------------------------------------------------
(* Type correctness of the worker's steps: only wk, pool, stamps, version, *)
(* and at the ends of a round the queue, the records and doubted change.   *)

RoundType == wk' \in [WorkerIDs -> WorkerState] /\ pool' \in Pool

\* A worker's step that touches only the worker, the pool and the budget.
LEMMA RoundStepType ==
    ASSUME TypeOK, RoundType, stamps' \in Seq(Nat),
           UNCHANGED <<version, envVars, keyVars, schedVars, reqVars, history>>
    PROVE  TypeOK'
BY DEF TypeOK, RoundType, envVars, keyVars, schedVars, reqVars, history

\* The steps of a worker that touch nothing but the worker.
LEMMA PlainRoundSteps ==
    ASSUME TypeOK, NEW w \in WorkerIDs,
           WorkerExit(w) \/ ReadPlan(w) \/ StartAttempt(w) \/ Describe(w)
    PROVE  TypeOK'
<1>1. pool' \in Pool /\ stamps' \in Seq(Nat)
  BY DEF TypeOK, WorkerExit, ReadPlan, StartAttempt, Describe
<1>2. ASSUME WorkerExit(w) PROVE RoundType
  BY <1>1, <1>2, GotoType DEF RoundType, WorkerExit, WorkerPCs
<1>3. ASSUME ReadPlan(w) PROVE RoundType
  <2>1. wk[w] \in WorkerState /\ (wk[w].job.key \in Managed => plans[wk[w].job.key] \in Plans)
    BY DEF TypeOK, Managed
  <2>2. wk[w].job.key \in Managed
          => [wk[w] EXCEPT !.pc = "attempt", !.plan = plans[wk[w].job.key]] \in WorkerState
    BY <2>1, WorkerUpdates
  <2>. QED BY <1>1, <1>3, <2>2, WorkerType, ReturnType DEF RoundType, ReadPlan
<1>4. ASSUME StartAttempt(w) PROVE RoundType
  BY <1>1, <1>4, GotoType, ReturnType DEF RoundType, StartAttempt, WorkerPCs
<1>5. ASSUME Describe(w) PROVE RoundType
  <2>1. \A s \in Scopes : [wk[w] EXCEPT !.pc = "choose", !.scope = s] \in WorkerState
    BY WorkerUpdates DEF TypeOK
  <2>. QED BY <1>1, <1>5, <2>1, WorkerType, ReturnType DEF RoundType, Describe
<1>. QED BY <1>1, <1>2, <1>3, <1>4, <1>5, RoundStepType
         DEF WorkerExit, ReadPlan, StartAttempt, Describe

\* The choice of a proxy keeps the types.
LEMMA ChooseProxyType ==
    ASSUME TypeOK, NEW w \in WorkerIDs, ChooseProxy(w)
    PROVE  TypeOK'
<1>1. PICK p \in Proxies \cup {NoProxy} :
        /\ pool' = AfterChoice(pool, p, now)
        /\ IF p = NoProxy
           THEN Return(w, FALSE)
           ELSE Becomes(w, [wk[w] EXCEPT !.pc = "reserve", !.proxy = p, !.captured = now])
  BY DEF ChooseProxy
<1>2. pool' \in Pool
  BY <1>1, ChoiceType DEF TypeOK
<1>3. p # NoProxy
        => [wk[w] EXCEPT !.pc = "reserve", !.proxy = p, !.captured = now] \in WorkerState
  BY WorkerUpdates DEF TypeOK
<1>4. RoundType
  BY <1>1, <1>2, <1>3, WorkerType, ReturnType DEF RoundType
<1>. QED BY <1>4, RoundStepType DEF ChooseProxy, TypeOK

\* A reservation keeps the type of the budget.
LEMMA ReserveType ==
    ASSUME TypeOK, NEW granted \in BOOLEAN, reserveProbe(granted)
    PROVE  stamps' \in Seq(Nat)
<1>1. \A n \in 0..Len(stamps) : Kept(stamps, n) \in Seq(Nat)
  BY KeptType DEF TypeOK
<1>2. CASE closed
  BY <1>2 DEF reserveProbe, TypeOK
<1>3. CASE ~closed
  <2>1. PICK n \in 0..Len(stamps) :
           stamps' = IF granted THEN Append(Kept(stamps, n), now) ELSE Kept(stamps, n)
    BY <1>3 DEF reserveProbe
  <2>. QED BY <1>1, <2>1, AppendProperties DEF TypeOK
<1>. QED BY <1>2, <1>3

\* The start and the unsuccessful ends of a probe keep the types.
LEMMA ProbeSteps ==
    ASSUME TypeOK, NEW w \in WorkerIDs,
           StartProbe(w) \/ ProbeRejected(w) \/ ProbeFailed(w)
    PROVE  TypeOK'
<1>1. stamps' \in Seq(Nat)
  BY ReserveType DEF TypeOK, StartProbe, ProbeRejected, ProbeFailed
<1>2. pool' \in Pool
  BY BlameType DEF TypeOK, StartProbe, ProbeRejected, ProbeFailed
<1>3. wk' \in [WorkerIDs -> WorkerState]
  BY ReturnType, NextAttemptType, GotoType
     DEF StartProbe, ProbeRejected, ProbeFailed, WorkerPCs
<1>. QED BY <1>1, <1>2, <1>3, RoundStepType
         DEF RoundType, StartProbe, ProbeRejected, ProbeFailed

\* The successful ends of a probe and the identity checks keep the types.
LEMMA AnswerSteps ==
    ASSUME TypeOK, NEW w \in WorkerIDs, NEW plan \in RawPlans, NEW state \in StateClasses,
           Harvested(w, plan, state) \/ Verified(w, plan, state) \/ Redescribe(w) \/ Recheck(w)
    PROVE  TypeOK'
<1>1. stamps' \in Seq(Nat)
  BY DEF TypeOK, Harvested, Verified, Redescribe, Recheck
<1>2. pool' \in Pool
  <2>1. wk[w].proxy \in Proxies \cup {NoProxy}
    BY DEF TypeOK, WorkerState
  <2>. QED BY <2>1, BlameType, SuccessType DEF TypeOK, Harvested, Verified, Redescribe, Recheck
<1>3. wk[w] \in WorkerState /\ wk[w].scope \in Scopes \cup {NoScope}
  BY DEF TypeOK, WorkerState
<1>4. wk' \in [WorkerIDs -> WorkerState]
  BY <1>3, WorkerUpdates, WorkerType, ReturnType, NextAttemptType
     DEF Harvested, Verified, Redescribe, Recheck
<1>. QED BY <1>1, <1>2, <1>4, RoundStepType
         DEF RoundType, Harvested, Verified, Redescribe, Recheck

\* Taking a job keeps the types.
LEMMA TakeType ==
    ASSUME TypeOK, NEW w \in WorkerIDs, Take(w)
    PROVE  TypeOK'
<1>1. Head(queue) \in Job /\ queue' \in JobQueue
  <2>1. queue \in Seq(Job) /\ queue # <<>> /\ Len(queue) <= QueueCapacity
    BY DEF TypeOK, JobQueue, Take
  <2>. QED BY <2>1, CapacityType, HeadTailProperties, LenProperties DEF JobQueue, Take
<1>2. [IdleWorker EXCEPT !.pc = "plan", !.job = Head(queue)] \in WorkerState
  BY <1>1, IdleType DEF WorkerState, WorkerPCs
<1>3. wk' \in [WorkerIDs -> WorkerState]
  BY <1>2, WorkerType DEF Take
<1>. QED BY <1>1, <1>3 DEF Take, TypeOK, envVars, schedVars, reqVars, history

\* Publishing a ticket, or declining to, keeps the types.
LEMMA PublishType ==
    ASSUME TypeOK, NEW w \in WorkerIDs, Publish(w)
    PROVE  TypeOK'
<1>1. wk' \in [WorkerIDs -> WorkerState]
  BY ReturnType DEF Publish
<1>2. version' \in Nat
  <2>1. version' = version + 1 \/ version' = version
    BY DEF Publish
  <2>. QED BY <2>1 DEF TypeOK
<1>3. records' \in [Keys -> Record]
  <2>1. CASE Current(w)
    <3>1. NewTicket(w) \in Ticket
      BY EngineAssumption DEF EngineAssumption, TypeOK, NewTicket, WorkerState, Ticket
    <3>2. wk[w].job.key \in Keys
      BY <2>1 DEF Current, TypeOK
    <3>3. [records[wk[w].job.key] EXCEPT !.value = NewTicket(w), !.cooldown = 0] \in Record
      <4>1. \A r \in Record, t \in Ticket : [r EXCEPT !.value = t, !.cooldown = 0] \in Record
        BY DEF Record
      <4>2. records[wk[w].job.key] \in Record
        BY <3>2 DEF TypeOK
      <4>. QED BY <3>1, <4>1, <4>2
    <3>4. records' = [records EXCEPT ![wk[w].job.key].value = NewTicket(w),
                                     ![wk[w].job.key].cooldown = 0]
      BY <2>1 DEF Publish
    <3>. QED BY <3>2, <3>3, <3>4 DEF TypeOK
  <2>2. CASE ~Current(w)
    BY <2>2 DEF Publish, TypeOK
  <2>. QED BY <2>1, <2>2
<1>. QED BY <1>1, <1>2, <1>3 DEF Publish, TypeOK, envVars, schedVars, reqVars, history

\* A new record and the absent ticket are well formed.
LEMMA FreshType == FreshRecord \in Record /\ NoTicket \in Ticket
BY DEF FreshRecord, NoTicket, Record, Ticket, StateClasses

\* The epilogue of a round keeps the types.
LEMMA FinishType ==
    ASSUME TypeOK, NEW w \in WorkerIDs, Finish(w)
    PROVE  TypeOK'
<1>. DEFINE k == wk[w].job.key
            cools == ~wk[w].ready /\ ~closed /\ records[k].epoch = wk[w].job.epoch
<1>1. wk' \in [WorkerIDs -> WorkerState]
  BY IdleType, WorkerType DEF Finish
<1>2. records' \in [Keys -> Record] /\ recorded' \subseteq Keys
  <2>1. CASE k \in recorded /\ k \in Managed
    <3>1. k \in Keys /\ records[k] \in Record
      BY <2>1 DEF TypeOK
    <3>2. now + Cooldown \in Nat
      BY PoolAssumption DEF PoolAssumption, TypeOK
    <3>3. [records[k] EXCEPT !.running = FALSE,
                             !.cooldown = IF cools THEN now + Cooldown ELSE @] \in Record
      BY <3>1, <3>2 DEF Record
    <3>4. records' = [records EXCEPT ![k].running = FALSE,
                                     ![k].cooldown = IF cools THEN now + Cooldown ELSE @]
      BY <2>1 DEF Finish
    <3>. QED BY <2>1, <3>1, <3>3, <3>4 DEF TypeOK, Finish
  <2>2. CASE ~(k \in recorded /\ k \in Managed)
    BY <2>2, FreshType DEF Finish, TypeOK
  <2>. QED BY <2>1, <2>2
<1>. QED BY <1>1, <1>2 DEF Finish, TypeOK, envVars, schedVars, reqVars

\* Every step of a worker keeps the types.
LEMMA WorkerStepType ==
    ASSUME TypeOK, NEW w \in WorkerIDs, WorkerStep(w)
    PROVE  TypeOK'
<1>1. ASSUME WorkerExit(w) \/ ReadPlan(w) \/ StartAttempt(w) \/ Describe(w) PROVE TypeOK'
  BY <1>1, PlainRoundSteps
<1>2. ASSUME ChooseProxy(w) \/ Take(w) \/ Publish(w) \/ Finish(w) PROVE TypeOK'
  BY <1>2, ChooseProxyType, TakeType, PublishType, FinishType
<1>3. ASSUME StartProbe(w) \/ ProbeRejected(w) \/ ProbeFailed(w) PROVE TypeOK'
  BY <1>3, ProbeSteps
<1>4. ASSUME \/ Redescribe(w) \/ Recheck(w)
             \/ \E plan \in RawPlans, state \in StateClasses :
                   Harvested(w, plan, state) \/ Verified(w, plan, state)
      PROVE TypeOK'
  <2>1. NoPlan \in RawPlans /\ "none" \in StateClasses
    BY DEF RawPlans, StateClasses
  <2>. QED BY <1>4, <2>1, AnswerSteps
<1>. QED BY <1>1, <1>2, <1>3, <1>4 DEF WorkerStep

-----------------------------------------------------------------------------
(* Type correctness of the scheduler's steps. *)

\* A discovery snapshot keeps the types of what it touches.
LEMMA ApplyType ==
    ASSUME TypeOK, NEW snapshot \in Snapshots, applyAccounts(snapshot)
    PROVE  /\ plans' \in [Keys -> Plans \cup {NoPlan}]
           /\ recorded' \subseteq Keys /\ records' \in [Keys -> Record]
           /\ epoch' \in Nat /\ discovered' \in BOOLEAN
           /\ owned' \subseteq Keys /\ ownsAllModels' \in BOOLEAN
           /\ doubted' \subseteq Keys
<1>. DEFINE desired == [k \in Keys |-> IF snapshot[AuthOf(k)] \in Plans
                                       THEN snapshot[AuthOf(k)] ELSE NoPlan]
            changed == {k \in Keys : plans[k] # desired[k]}
            dropped == {k \in changed : desired[k] = NoPlan /\ Droppable(k)}
            selected == {k \in Keys : snapshot[AuthOf(k)] # Absent}
<1>1. plans' \in [Keys -> Plans \cup {NoPlan}]
  BY DEF applyAccounts
<1>2. recorded' \subseteq Keys /\ doubted' \subseteq Keys
  BY DEF applyAccounts, TypeOK
<1>3. records' \in [Keys -> Record]
  <2>1. \A k \in Keys : [records[k] EXCEPT !.value = NoTicket, !.cooldown = 0,
                                           !.epoch = epoch + 1] \in Record
    <3>1. epoch + 1 \in Nat /\ \A k \in Keys : records[k] \in Record
      BY DEF TypeOK
    <3>. QED BY <3>1, FreshType DEF Record
  <2>2. records' = [k \in Keys |->
                      IF k \in dropped THEN FreshRecord
                      ELSE IF k \in changed
                           THEN [records[k] EXCEPT !.value = NoTicket, !.cooldown = 0,
                                                   !.epoch = epoch + 1]
                           ELSE records[k]]
    BY DEF applyAccounts
  <2>. QED BY <2>1, <2>2, FreshType DEF TypeOK
<1>4. epoch' \in Nat
  <2>1. epoch' = epoch \/ epoch' = epoch + 1
    BY DEF applyAccounts
  <2>. QED BY <2>1 DEF TypeOK
<1>5. owned' \subseteq Keys /\ ownsAllModels' \in BOOLEAN
  <2>1. KeepOwnership(selected) /\ selected \subseteq Keys
    BY DEF applyAccounts
  <2>. QED BY <2>1 DEF KeepOwnership, TypeOK
<1>. QED BY <1>1, <1>2, <1>3, <1>4, <1>5 DEF applyAccounts

\* The steps of refreshAccounts keep the types.
LEMMA DiscoveryType ==
    ASSUME TypeOK, SchedulerExit \/ BeginSchedule \/ DiscoveryFailed
                   \/ \E snapshot \in Snapshots : DiscoveryApplied(snapshot)
    PROVE  TypeOK'
<1>1. ASSUME SchedulerExit \/ BeginSchedule \/ DiscoveryFailed PROVE TypeOK'
  <2>1. now + DiscoveryInterval \in Nat /\ now + DiscoveryRetry \in Nat
    BY EngineAssumption DEF EngineAssumption, TypeOK
  <2>. QED BY <1>1, <2>1 DEF SchedulerExit, BeginSchedule, DiscoveryFailed, TypeOK,
                             envVars, keyVars, roundVars, reqVars, history
<1>2. ASSUME NEW snapshot \in Snapshots, DiscoveryApplied(snapshot) PROVE TypeOK'
  <2>1. CASE closed
    BY <1>2, <2>1 DEF DiscoveryApplied, TypeOK, envVars, keyVars, roundVars, reqVars
  <2>2. CASE ~closed
    <3>1. applyAccounts(snapshot)
      BY <1>2, <2>2 DEF DiscoveryApplied
    <3>. QED BY <1>2, <2>2, <3>1, ApplyType DEF DiscoveryApplied, TypeOK, envVars, roundVars, reqVars
  <2>. QED BY <2>1, <2>2
<1>. QED BY <1>1, <1>2

\* The scan of schedule keeps the types; the queue does not outgrow its capacity.
LEMMA ScanType ==
    ASSUME TypeOK, Scan
    PROVE  TypeOK'
<1>1. requests' \in [RequestIDs -> Observation]
  <2>1. NoObservation \in Observation
    BY DEF Observation
  <2>. QED BY <2>1 DEF Scan, Purged, TypeOK
<1>2. queue' \in JobQueue /\ records' \in [Keys -> Record]
  <2>1. CASE DueKeys = {}
    BY <2>1 DEF Scan, TypeOK
  <2>2. CASE DueKeys # {}
    <3>1. PICK pick \in Picks(PickCount) :
            /\ queue' = queue \o [i \in 1..PickCount |->
                                    [key |-> pick[i], epoch |-> records[pick[i]].epoch]]
            /\ records' = [k \in Keys |->
                             IF Marked(pick, k)
                             THEN [records[k] EXCEPT !.running = TRUE]
                             ELSE records[k]]
      BY <2>2 DEF Scan
    <3>2. /\ PickCount \in Nat /\ Len(queue) \in Nat
          /\ Len(queue) + PickCount <= QueueCapacity
      BY PickCountType
    <3>3. [i \in 1..PickCount |-> [key |-> pick[i], epoch |-> records[pick[i]].epoch]]
            \in Seq(Job)
      <4>1. \A i \in 1..PickCount : [key |-> pick[i], epoch |-> records[pick[i]].epoch] \in Job
        BY DEF Picks, DueKeys, TypeOK, Record, Job
      <4>. QED BY <3>2, <4>1
    <3>4. \A k \in Keys : [records[k] EXCEPT !.running = TRUE] \in Record
      BY DEF TypeOK, Record
    <3>5. queue' \in JobQueue
      <4>1. queue \in Seq(Job)
        BY DEF TypeOK, JobQueue
      <4>2. Len([i \in 1..PickCount |->
                   [key |-> pick[i], epoch |-> records[pick[i]].epoch]]) = PickCount
        BY <3>2
      <4>. QED BY <3>1, <3>2, <3>3, <4>1, <4>2, ConcatProperties DEF JobQueue
    <3>. QED BY <3>1, <3>4, <3>5 DEF TypeOK
  <2>. QED BY <2>1, <2>2
<1>. QED BY <1>1, <1>2 DEF Scan, TypeOK, envVars, roundVars, history

\* Every step of the scheduler keeps the types.
LEMMA SchedulerStepType ==
    ASSUME TypeOK, SchedulerStep
    PROVE  TypeOK'
BY DiscoveryType, ScanType DEF SchedulerStep

-----------------------------------------------------------------------------
(* Type correctness of the request path. *)

\* Making a tombstone keeps the type of the observations.
LEMMA TombstoneType ==
    ASSUME TypeOK, NEW q \in RequestIDs
    PROVE  Tombstoned(q) \in [RequestIDs -> Observation]
<1>1. ASSUME q \in Tracked
      PROVE  [requests[q] EXCEPT !.observing = FALSE, !.created = now] \in Observation
  BY <1>1 DEF TypeOK, Observation, Tracked
<1>2. ASSUME q \in Tracked
      PROVE  [requests EXCEPT ![q].observing = FALSE, ![q].created = now]
               \in [RequestIDs -> Observation]
  BY <1>1, <1>2 DEF TypeOK
<1>. QED BY <1>2 DEF Tombstoned, TypeOK

\* A revoked record is a record, with a numeric epoch.
LEMMA RevokedType ==
    ASSUME TypeOK, NEW k \in Keys
    PROVE  /\ BumpedEpoch(records[k]) \in Nat
           /\ Revoked(records[k]) \in Record
           /\ [Revoked(records[k]) EXCEPT !.cooldown = 0] \in Record
<1>1. records[k] \in Record /\ epoch \in Nat
  BY DEF TypeOK
<1>2. BumpedEpoch(records[k]) \in Nat
  BY <1>1 DEF BumpedEpoch, Record
<1>3. Revoked(records[k]) \in Record
  BY <1>1, <1>2, FreshType DEF Revoked, Record
<1>. QED BY <1>2, <1>3 DEF Record

\* Sending an attempt without a ticket keeps the type of the history.
LEMMA WithoutTicketType ==
    ASSUME TypeOK, NEW q \in RequestIDs, WithoutTicket(q)
    PROVE  carried' \in [RequestIDs -> SUBSET Nat]
BY DEF TypeOK, WithoutTicket

\* The steps of Bind before its last critical section keep the types.
LEMMA BindType ==
    ASSUME TypeOK, NEW q \in RequestIDs, NEW k \in Keys,
           BindIneligible(q, k) \/ BindStart(q, k) \/ BindDescribe(q)
    PROVE  TypeOK'
<1>1. binds' \in [RequestIDs -> BindCall]
  <2>1. [pc |-> "describe", key |-> k, scope |-> NoScope] \in BindCall
    BY DEF BindCall
  <2>2. ASSUME binds[q].pc = "describe"
        PROVE  \A s \in {ident[AuthOf(binds[q].key)], NoScope} :
                  [binds[q] EXCEPT !.pc = "decide", !.scope = s] \in BindCall
    <3>1. binds[q] \in [pc : {"describe", "decide"}, key : Keys, scope : Scopes \cup {NoScope}]
      BY <2>2 DEF TypeOK, BindCall, NoBind
    <3>2. AuthOf(binds[q].key) \in AuthIDs
      BY <3>1 DEF Keys, AuthOf
    <3>. QED BY <3>1, <3>2 DEF TypeOK, BindCall
  <2>. QED BY <2>1, <2>2 DEF BindIneligible, BindStart, BindDescribe, TypeOK, reqVars
<1>2. carried' \in [RequestIDs -> SUBSET Nat]
  BY WithoutTicketType DEF BindIneligible, BindStart, BindDescribe, TypeOK, history
<1>. QED BY <1>1, <1>2 DEF BindIneligible, BindStart, BindDescribe, TypeOK, reqVars,
                           envVars, keyVars, roundVars, schedVars, history

\* The last critical section of Bind keeps the types, on all its ways out.
LEMMA DecideType ==
    ASSUME TypeOK, NEW q \in RequestIDs, BindDecide(q)
    PROVE  TypeOK'
<1>. DEFINE k == binds[q].key
<1>1. k \in Keys
  BY DEF BindDecide, TypeOK, BindCall, NoBind
<1>2. binds' \in [RequestIDs -> BindCall]
  BY DEF BindDecide, TypeOK, BindCall
<1>3. ASSUME BindRefused(q) \/ \E c \in BOOLEAN : BindDeclined(q, c) PROVE TypeOK'
  <2>1. requests' \in [RequestIDs -> Observation] /\ carried' \in [RequestIDs -> SUBSET Nat]
    BY <1>3, TombstoneType, WithoutTicketType DEF BindRefused, BindDeclined
  <2>. QED BY <1>2, <1>3, <2>1 DEF BindDecide, BindRefused, BindDeclined, TypeOK, envVars,
                                   keyVars, roundVars, schedVars
<1>4. ASSUME BindMiss(q) PROVE TypeOK'
  <2>1. requests' \in [RequestIDs -> Observation] /\ carried' \in [RequestIDs -> SUBSET Nat]
    BY <1>4, TombstoneType, WithoutTicketType DEF BindMiss
  <2>2. \/ enqueueLocked(k, records[k]) /\ UNCHANGED <<epoch, doubted>>
        \/ /\ epoch' = BumpedEpoch(records[k])
           /\ enqueueLocked(k, Revoked(records[k]))
           /\ Doubt(k)
    BY <1>4 DEF BindMiss
  <2>3. records' \in [Keys -> Record] /\ queue' \in JobQueue
    BY <1>1, <2>2, EnqueueType, RevokedType DEF TypeOK
  <2>4. epoch' \in Nat /\ doubted' \subseteq Keys
    BY <1>1, <2>2, RevokedType DEF Doubt, TypeOK
  <2>. QED BY <1>2, <1>4, <2>1, <2>3, <2>4 DEF BindDecide, BindMiss, TypeOK, envVars,
                                               roundVars, schedVars
<1>5. ASSUME BindHit(q) PROVE TypeOK'
  <2>1. records[k].value.version \in Nat
    BY <1>1 DEF TypeOK, Record, Ticket
  <2>2. [key |-> k, version |-> records[k].value.version, observing |-> q \notin Tracked,
         created |-> now] \in Observation
    BY <1>1, <2>1 DEF Observation, TypeOK
  <2>3. requests' \in [RequestIDs -> Observation]
    BY <1>5, <2>2 DEF BindHit, TypeOK
  <2>4. carried' \in [RequestIDs -> SUBSET Nat]
    BY <1>5, <2>1 DEF BindHit, TypeOK
  <2>. QED BY <1>2, <1>5, <2>3, <2>4 DEF BindDecide, BindHit, TypeOK, envVars, keyVars,
                                         roundVars, schedVars
<1>. QED BY <1>3, <1>4, <1>5 DEF BindDecide

\* invalidateLocked keeps the types of what it touches.
LEMMA InvalidateType ==
    ASSUME TypeOK, NEW q \in RequestIDs, requests[q] # NoObservation, NEW v \in Nat,
           invalidateLocked(q, v)
    PROVE  /\ epoch' \in Nat /\ records' \in [Keys -> Record] /\ queue' \in JobQueue
           /\ doubted' \subseteq Keys /\ blamed' \subseteq Nat \X Nat
<1>1. requests[q].key \in Keys /\ requests[q].version \in Nat
  BY DEF TypeOK, Observation
<1>2. CASE Refutable(q)
  <2>1. /\ epoch' = BumpedEpoch(records[requests[q].key])
        /\ enqueueLocked(requests[q].key,
                         [Revoked(records[requests[q].key]) EXCEPT !.cooldown = 0])
        /\ Doubt(requests[q].key)
        /\ blamed' = blamed \cup {<<requests[q].version, v>>}
    BY <1>2 DEF invalidateLocked
  <2>2. epoch' \in Nat /\ records' \in [Keys -> Record] /\ queue' \in JobQueue
    BY <1>1, <2>1, RevokedType, EnqueueType
  <2>. QED BY <1>1, <2>1, <2>2 DEF Doubt, TypeOK
<1>3. CASE ~Refutable(q)
  BY <1>3 DEF invalidateLocked, TypeOK
<1>. QED BY <1>2, <1>3

\* The response callbacks keep the types.
LEMMA ResponseType ==
    ASSUME TypeOK, NEW q \in RequestIDs, NEW v \in carried[q],
           Headers(q, v) \/ ModelMismatch(q, v)
    PROVE  TypeOK'
<1>1. v \in Nat
  BY DEF TypeOK
<1>2. requests[q] # NoObservation /\ invalidateLocked(q, v)
  BY DEF Headers, ModelMismatch, Tracked, NoObservation
<1>3. /\ epoch' \in Nat /\ records' \in [Keys -> Record] /\ queue' \in JobQueue
      /\ doubted' \subseteq Keys /\ blamed' \subseteq Nat \X Nat
  BY <1>1, <1>2, InvalidateType
<1>. QED BY <1>3 DEF Headers, ModelMismatch, TypeOK, envVars, roundVars, schedVars, reqVars

\* The completion of a request keeps the types.
LEMMA CompleteType ==
    ASSUME TypeOK, NEW q \in RequestIDs, NEW mismatch \in BOOLEAN, Complete(q, mismatch)
    PROVE  TypeOK'
<1>1. /\ epoch' \in Nat /\ records' \in [Keys -> Record] /\ queue' \in JobQueue
      /\ doubted' \subseteq Keys /\ blamed' \subseteq Nat \X Nat
  <2>1. CASE requests[q].observing /\ mismatch
    <3>1. PICK v \in carried[q] : invalidateLocked(q, v)
      BY <2>1 DEF Complete
    <3>2. requests[q] # NoObservation /\ v \in Nat
      BY <2>1 DEF NoObservation, TypeOK
    <3>. QED BY <3>1, <3>2, InvalidateType
  <2>2. CASE ~(requests[q].observing /\ mismatch)
    BY <2>2 DEF Complete, TypeOK
  <2>. QED BY <2>1, <2>2
<1>2. requests' \in [RequestIDs -> Observation]
  BY DEF Complete, TypeOK, Observation
<1>3. carried' \in [RequestIDs -> SUBSET Nat] /\ done' \subseteq RequestIDs
  BY DEF Complete, TypeOK
<1>. QED BY <1>1, <1>2, <1>3 DEF Complete, TypeOK, envVars, roundVars, schedVars

\* Every step of the request path keeps the types.
LEMMA RequestStepType ==
    ASSUME TypeOK, NEW q \in RequestIDs, RequestStep(q)
    PROVE  TypeOK'
<1>1. ASSUME NEW k \in Keys, BindIneligible(q, k) \/ BindStart(q, k) PROVE TypeOK'
  BY <1>1, BindType
<1>2. ASSUME BindDescribe(q) PROVE TypeOK'
  <2>1. \E k : k \in Keys
    <3>1. PICK a \in AuthIDs, m \in Models : TRUE
      BY EngineAssumption DEF EngineAssumption
    <3>2. <<a, m>> \in Keys
      BY DEF Keys
    <3>. QED BY <3>2
  <2>. QED BY <1>2, <2>1, BindType
<1>3. ASSUME BindDecide(q) PROVE TypeOK'
  BY <1>3, DecideType
<1>4. ASSUME NEW v \in carried[q], Headers(q, v) \/ ModelMismatch(q, v) PROVE TypeOK'
  BY <1>4, ResponseType
<1>5. ASSUME NEW mismatch \in BOOLEAN, Complete(q, mismatch) PROVE TypeOK'
  BY <1>5, CompleteType
<1>. QED BY <1>1, <1>2, <1>3, <1>4, <1>5 DEF RequestStep

\* Close, the clock and the changes of identities keep the types.
LEMMA EnvironmentType ==
    ASSUME TypeOK, Environment
    PROVE  TypeOK'
<1>1. now' \in Nat /\ closed' \in BOOLEAN /\ ident' \in [AuthIDs -> Scopes \cup {NoScope}]
  <2>1. ASSUME Close PROVE UNCHANGED <<now, ident>> /\ closed' \in BOOLEAN
    BY <2>1 DEF Close
  <2>2. ASSUME Tick PROVE UNCHANGED <<closed, ident>> /\ now' \in Nat
    BY <2>2 DEF Tick, TypeOK
  <2>3. ASSUME NEW a \in AuthIDs, IdentityChange(a)
        PROVE  UNCHANGED <<now, closed>> /\ ident' \in [AuthIDs -> Scopes \cup {NoScope}]
    <3>1. PICK s \in Scopes \cup {NoScope} : ident' = [ident EXCEPT ![a] = s]
      BY <2>3 DEF IdentityChange
    <3>. QED BY <2>3, <3>1 DEF IdentityChange, TypeOK
  <2>. QED BY <2>1, <2>2, <2>3 DEF Environment, TypeOK
<1>2. UNCHANGED <<keyVars, roundVars, schedVars, reqVars, history>>
  BY DEF Environment, Close, Tick, IdentityChange
<1>. QED BY <1>1, <1>2 DEF TypeOK, keyVars, roundVars, schedVars, reqVars, history

-----------------------------------------------------------------------------
\* The initial values have their types.
LEMMA InitType == Init => TypeOK
<1>. SUFFICES ASSUME Init PROVE TypeOK
  OBVIOUS
<1>1. InitPool \in Pool
  BY PoolAssumption DEF PoolAssumption, InitPool, Pool, Proxies
<1>2. NoObservation \in Observation /\ NoBind \in BindCall
  BY DEF Observation, BindCall
<1>3. <<>> \in JobQueue /\ <<>> \in Seq(Nat)
  BY CapacityType DEF JobQueue
<1>. QED BY <1>1, <1>2, <1>3, FreshType, IdleType, EngineAssumption
         DEF EngineAssumption, Init, TypeOK

\* Every step keeps every variable's type.
LEMMA NextType == TypeOK /\ [Next]_vars => TypeOK'
<1>. SUFFICES ASSUME TypeOK, [Next]_vars PROVE TypeOK'
  OBVIOUS
<1>1. CASE Next
  BY <1>1, WorkerStepType, SchedulerStepType, RequestStepType, EnvironmentType DEF Next
<1>2. CASE UNCHANGED vars
  BY <1>2 DEF vars, TypeOK, envVars, keyVars, roundVars, schedVars, reqVars, history
<1>. QED BY <1>1, <1>2

\* Only a worker's own step changes what it holds.
LEMMA OthersKeepWorkers ==
    ASSUME [Next]_vars, \A w \in WorkerIDs : ~WorkerStep(w)
    PROVE  UNCHANGED roundVars
<1>1. CASE SchedulerStep
  BY <1>1 DEF SchedulerStep, SchedulerExit, BeginSchedule, DiscoveryFailed,
              DiscoveryApplied, Scan
<1>2. ASSUME NEW q \in RequestIDs, RequestStep(q) PROVE UNCHANGED roundVars
  BY <1>2 DEF RequestStep, BindIneligible, BindStart, BindDescribe, BindDecide, Headers,
              ModelMismatch, Complete
<1>3. CASE Environment
  BY <1>3 DEF Environment, Close, Tick, IdentityChange
<1>4. CASE UNCHANGED vars
  BY <1>4 DEF vars
<1>. QED BY <1>1, <1>2, <1>3, <1>4 DEF Next

\* Every variable keeps its type, whatever the constants (the whole engine).
THEOREM TypeCorrect == Spec => []TypeOK
BY NextType, InitType, PTL DEF Spec

-----------------------------------------------------------------------------
(* What a published ticket guarantees.  TicketsQualified is not inductive: *)
(* what makes it hold is what a worker has established by the time it      *)
(* publishes (WorkersQualified), which no other process can undo because   *)
(* it is kept in the worker's own state.                                   *)

\* From its first description on, a round works for one identity of its plan.
Bound(x) ==
    x.pc \in {"choose", "reserve", "harvest", "redescribe", "reverify", "verify",
              "recheck", "publish"}
      => x.scope \in Scopes /\ identityPlanMatches(x.scope, x.plan)

\* From the harvest on it holds a candidate of that plan, from that identity.
HasCandidate(x) ==
    x.pc \in {"redescribe", "reverify", "verify", "recheck", "publish"}
      => ValidState(x.state, x.plan) /\ x.harvestedAs = x.scope

\* After the verification, the candidate was accepted under that identity too.
HasVerified(x) == x.pc \in {"recheck", "publish"} => x.verifiedAs = x.scope

Qualified(x) == Bound(x) /\ HasCandidate(x) /\ HasVerified(x)

WorkersQualified == \A w \in WorkerIDs : Qualified(wk[w])

TicketInv == TypeOK /\ WorkersQualified /\ TicketsQualified

TicketOK(k) ==
    LET t == records[k].value
    IN  t # NoTicket =>
           /\ k \in Managed /\ k \in recorded
           /\ ValidState(t.state, plans[k])
           /\ t.scope # NoScope
           /\ identityPlanMatches(t.scope, plans[k])
           /\ t.harvestedAs = t.scope /\ t.verifiedAs = t.scope

-----------------------------------------------------------------------------
\* A step of one worker keeps all of them qualified if it leaves that one so.
LEMMA BecomesQualified ==
    ASSUME TypeOK, WorkersQualified, NEW w \in WorkerIDs, NEW x, Qualified(x), Becomes(w, x)
    PROVE  WorkersQualified'
<1>1. wk' = [wk EXCEPT ![w] = x] /\ wk \in [WorkerIDs -> WorkerState]
  BY DEF Becomes, TypeOK
<1>2. \A v \in WorkerIDs : wk'[v] = x \/ wk'[v] = wk[v]
  BY <1>1
<1>3. \A v \in WorkerIDs : Qualified(wk'[v])
  BY <1>2 DEF WorkersQualified
<1>. QED BY <1>3 DEF WorkersQualified, Qualified, Bound, HasCandidate, HasVerified,
                      identityPlanMatches

\* A worker that holds nothing, or ends its round or attempt, is qualified.
LEMMA EndsQualified ==
    ASSUME TypeOK, WorkersQualified, NEW w \in WorkerIDs,
           \/ NextAttempt(w) \/ \E b \in BOOLEAN : Return(w, b)
    PROVE  WorkersQualified'
<1>1. wk[w] \in WorkerState
  BY DEF TypeOK
<1>2. CASE NextAttempt(w)
  BY <1>2, BecomesQualified
     DEF NextAttempt, Qualified, Bound, HasCandidate, HasVerified, IdleWorker
<1>3. ASSUME NEW b \in BOOLEAN, Return(w, b) PROVE WorkersQualified'
  BY <1>3, BecomesQualified
     DEF Return, Qualified, Bound, HasCandidate, HasVerified, IdleWorker
<1>. QED BY <1>2, <1>3

\* Every step of a worker leaves it qualified.
LEMMA WorkerStepQualified ==
    ASSUME TypeOK, WorkersQualified, NEW w \in WorkerIDs, WorkerStep(w)
    PROVE  WorkersQualified'
<1>. DEFINE x == wk[w]
<1>1. x \in WorkerState /\ Qualified(x)
  BY DEF TypeOK, WorkersQualified
<1>2. CASE WorkerExit(w) \/ Take(w) \/ ReadPlan(w) \/ StartAttempt(w)
  BY <1>1, <1>2, BecomesQualified, EndsQualified
     DEF WorkerExit, Take, ReadPlan, StartAttempt, Goto, Qualified, Bound, HasCandidate,
         HasVerified, IdleWorker, WorkerState
<1>3. CASE Describe(w)
  BY <1>1, <1>3, BecomesQualified, EndsQualified
     DEF Describe, Qualified, Bound, HasCandidate, HasVerified, WorkerState
<1>4. CASE ChooseProxy(w)
  BY <1>1, <1>4, BecomesQualified, EndsQualified
     DEF ChooseProxy, Qualified, Bound, HasCandidate, HasVerified, WorkerState
<1>5. CASE StartProbe(w)
  BY <1>1, <1>5, BecomesQualified, EndsQualified
     DEF StartProbe, Goto, Qualified, Bound, HasCandidate, HasVerified, WorkerState
<1>6. CASE ProbeRejected(w) \/ ProbeFailed(w)
  BY <1>6, EndsQualified DEF ProbeRejected, ProbeFailed
<1>7. CASE Redescribe(w)
  BY <1>1, <1>7, BecomesQualified, EndsQualified
     DEF Redescribe, SameScope, Qualified, Bound, HasCandidate, HasVerified, WorkerState
<1>8. CASE Recheck(w)
  BY <1>1, <1>8, BecomesQualified, EndsQualified
     DEF Recheck, SameScope, Qualified, Bound, HasCandidate, HasVerified, WorkerState
<1>9. ASSUME NEW plan \in RawPlans, NEW state \in StateClasses,
             Harvested(w, plan, state) \/ Verified(w, plan, state)
      PROVE  WorkersQualified'
  BY <1>1, <1>9, BecomesQualified
     DEF Harvested, Verified, Qualified, Bound, HasCandidate, HasVerified, WorkerState
<1>10. CASE Publish(w) \/ Finish(w)
  BY <1>10, EndsQualified, BecomesQualified
     DEF Publish, Finish, Qualified, Bound, HasCandidate, HasVerified, IdleWorker
<1>. QED BY <1>2, <1>3, <1>4, <1>5, <1>6, <1>7, <1>8, <1>9, <1>10 DEF WorkerStep

-----------------------------------------------------------------------------
\* A record keeps its qualification as long as its value, its key's plan and its
\* membership stay; a record without a value needs none.
LEMMA TicketsKept ==
    ASSUME TicketsQualified,
           \A k \in Keys : \/ records'[k].value = NoTicket
                           \/ /\ records'[k].value = records[k].value
                              /\ plans'[k] = plans[k] /\ (k \in recorded => k \in recorded')
    PROVE  TicketsQualified'
BY DEF TicketsQualified, Managed, identityPlanMatches

\* Enqueueing a record keeps its value.
LEMMA EnqueueKeepsTickets ==
    ASSUME TypeOK, TicketsQualified, NEW k \in Keys, NEW r \in Record, enqueueLocked(k, r),
           r.value \in {records[k].value, NoTicket}, UNCHANGED <<plans, recorded>>
    PROVE  TicketsQualified'
<1>1. \A j \in Keys : records'[j].value = IF j = k THEN r.value ELSE records[j].value
  BY DEF enqueueLocked, TypeOK, Record
<1>. QED BY <1>1, TicketsKept

\* A publication qualifies, since its worker does.
LEMMA PublishQualified ==
    ASSUME TypeOK, WorkersQualified, TicketsQualified, NEW w \in WorkerIDs, Publish(w)
    PROVE  TicketsQualified'
<1>1. CASE ~Current(w)
  BY <1>1, TicketsKept DEF Publish
<1>2. CASE Current(w)
  <2>1. PICK k \in Keys : k = wk[w].job.key /\ k \in recorded /\ plans[k] = wk[w].plan
    BY <1>2 DEF Current, TypeOK
  <2>2. /\ wk[w].scope \in Scopes /\ identityPlanMatches(wk[w].scope, plans[k])
        /\ ValidState(wk[w].state, plans[k])
        /\ wk[w].harvestedAs = wk[w].scope /\ wk[w].verifiedAs = wk[w].scope
    BY <2>1 DEF Publish, WorkersQualified, Qualified, Bound, HasCandidate, HasVerified
  <2>3. k \in Managed /\ wk[w].scope # NoScope
    BY <2>1, <2>2, EngineAssumption DEF Managed, ValidState, Plans, NoPlan, EngineAssumption
  <2>4. /\ plans' = plans /\ recorded' = recorded
        /\ records' = [records EXCEPT ![k].value = NewTicket(w), ![k].cooldown = 0]
    BY <1>2, <2>1 DEF Publish
  <2>5. /\ records'[k].value = NewTicket(w)
        /\ \A j \in Keys \ {k} : records'[j] = records[j]
    BY <2>1, <2>4 DEF TypeOK, Record
  <2>6. ASSUME NEW j \in Keys, j # k PROVE TicketOK(j)'
    BY <2>4, <2>5, <2>6 DEF TicketsQualified, TicketOK, Managed, identityPlanMatches
  <2>7. TicketOK(k)'
    <3>1. /\ NewTicket(w).state = wk[w].state /\ NewTicket(w).scope = wk[w].scope
          /\ NewTicket(w).harvestedAs = wk[w].harvestedAs
          /\ NewTicket(w).verifiedAs = wk[w].verifiedAs
      BY DEF NewTicket
    <3>2. k \in Managed' /\ k \in recorded' /\ plans'[k] = plans[k]
      BY <2>1, <2>3, <2>4 DEF Managed
    <3>3. ASSUME NEW t, t = records'[k].value
          PROVE  /\ ValidState(t.state, plans[k]) /\ t.scope # NoScope
                 /\ identityPlanMatches(t.scope, plans[k])
                 /\ t.harvestedAs = t.scope /\ t.verifiedAs = t.scope
      BY <2>2, <2>3, <2>5, <3>1, <3>3
    <3>. QED BY <3>2, <3>3 DEF TicketOK, identityPlanMatches
  <2>. QED BY <2>6, <2>7 DEF TicketsQualified, TicketOK
<1>. QED BY <1>1, <1>2

\* The end of a round changes no value that stays.
LEMMA FinishQualified ==
    ASSUME TypeOK, TicketsQualified, NEW w \in WorkerIDs, Finish(w)
    PROVE  TicketsQualified'
<1>. DEFINE k == wk[w].job.key
<1>1. CASE k \in recorded /\ k \in Managed
  <2>1. /\ \A j \in Keys : records'[j].value = records[j].value
        /\ UNCHANGED <<plans, recorded>>
    <3>1. UNCHANGED <<plans, recorded>> /\ \E c : records' = [records EXCEPT ![k].running = FALSE,
                                                                          ![k].cooldown = c]
      BY <1>1 DEF Finish
    <3>2. \A j \in Keys : records[j] \in Record
      BY DEF TypeOK
    <3>. QED BY <3>1, <3>2 DEF TypeOK, Record
  <2>. QED BY <2>1, TicketsKept
<1>2. CASE ~(k \in recorded /\ k \in Managed)
  <2>1. /\ records' = [records EXCEPT ![k] = FreshRecord]
        /\ plans' = plans /\ recorded' = recorded \ {k}
    BY <1>2 DEF Finish
  <2>. QED BY <2>1, TicketsKept DEF TypeOK, FreshRecord
<1>. QED BY <1>1, <1>2

\* A snapshot takes the value of every key whose plan it changes.
LEMMA ApplyQualified ==
    ASSUME TypeOK, TicketsQualified, NEW snapshot \in Snapshots, applyAccounts(snapshot)
    PROVE  TicketsQualified'
<1>. DEFINE desired == [k \in Keys |-> IF snapshot[AuthOf(k)] \in Plans
                                       THEN snapshot[AuthOf(k)] ELSE NoPlan]
            changed == {k \in Keys : plans[k] # desired[k]}
            dropped == {k \in changed : desired[k] = NoPlan /\ Droppable(k)}
<1>1. /\ plans' = desired
      /\ recorded' = (recorded \ dropped) \cup {k \in changed : desired[k] # NoPlan}
      /\ records' = [k \in Keys |->
                       IF k \in dropped THEN FreshRecord
                       ELSE IF k \in changed
                            THEN [records[k] EXCEPT !.value = NoTicket, !.cooldown = 0,
                                                    !.epoch = epoch + 1]
                            ELSE records[k]]
  BY DEF applyAccounts
<1>2. \A k \in changed : records'[k].value = NoTicket
  BY <1>1 DEF TypeOK, Record, FreshRecord
<1>3. \A k \in Keys \ changed : /\ records'[k].value = records[k].value
                                /\ plans'[k] = plans[k] /\ (k \in recorded => k \in recorded')
  BY <1>1
<1>. QED BY <1>2, <1>3, TicketsKept

\* A refutation takes a value away and gives none.
LEMMA InvalidateQualified ==
    ASSUME TypeOK, TicketsQualified, NEW q \in RequestIDs, requests[q] # NoObservation,
           NEW v, invalidateLocked(q, v), UNCHANGED <<plans, recorded>>
    PROVE  TicketsQualified'
<1>. DEFINE k == requests[q].key
<1>1. k \in Keys
  BY DEF TypeOK, Observation
<1>2. [Revoked(records[k]) EXCEPT !.cooldown = 0] \in Record
  BY <1>1, RevokedType
<1>3. [Revoked(records[k]) EXCEPT !.cooldown = 0].value = NoTicket
  BY <1>1 DEF Revoked, TypeOK, Record
<1>4. CASE Refutable(q)
  BY <1>1, <1>2, <1>3, <1>4, EnqueueKeepsTickets DEF invalidateLocked
<1>5. CASE ~Refutable(q)
  BY <1>5, TicketsKept DEF invalidateLocked
<1>. QED BY <1>4, <1>5

\* A Bind only ever takes a value away.
LEMMA BindQualified ==
    ASSUME TypeOK, TicketsQualified, NEW q \in RequestIDs, BindDecide(q)
    PROVE  TicketsQualified'
<1>. DEFINE k == binds[q].key
<1>1. k \in Keys
  BY DEF BindDecide, TypeOK, BindCall, NoBind
<1>2. CASE BindRefused(q) \/ BindHit(q) \/ \E c \in BOOLEAN : BindDeclined(q, c)
  BY <1>2, TicketsKept DEF BindRefused, BindHit, BindDeclined, keyVars
<1>3. CASE BindMiss(q)
  <2>1. records[k] \in Record /\ Revoked(records[k]) \in Record
    BY <1>1, RevokedType DEF TypeOK
  <2>2. Revoked(records[k]).value = NoTicket
    BY <2>1 DEF Revoked, Record
  <2>. QED BY <1>1, <1>3, <2>1, <2>2, EnqueueKeepsTickets DEF BindMiss
<1>. QED BY <1>2, <1>3 DEF BindDecide

-----------------------------------------------------------------------------
\* A worker's step keeps every ticket qualified.
LEMMA WorkerStepTickets ==
    ASSUME TypeOK, WorkersQualified, TicketsQualified, NEW w \in WorkerIDs, WorkerStep(w)
    PROVE  TicketsQualified'
<1>1. CASE Publish(w)
  BY <1>1, PublishQualified
<1>2. CASE Finish(w)
  BY <1>2, FinishQualified
<1>3. CASE UNCHANGED <<plans, recorded, records>>
  BY <1>3, TicketsKept
<1>. QED BY <1>1, <1>2, <1>3
         DEF WorkerStep, WorkerExit, Take, ReadPlan, StartAttempt, Describe, ChooseProxy,
             StartProbe, ProbeRejected, ProbeFailed, Harvested, Redescribe, Verified, Recheck,
             keyVars

\* So does a step of the scheduler.
LEMMA SchedulerStepTickets ==
    ASSUME TypeOK, TicketsQualified, SchedulerStep
    PROVE  TicketsQualified'
<1>1. ASSUME NEW snapshot \in Snapshots, DiscoveryApplied(snapshot) PROVE TicketsQualified'
  <2>1. CASE closed
    BY <1>1, <2>1, TicketsKept DEF DiscoveryApplied, keyVars
  <2>2. CASE ~closed
    BY <1>1, <2>2, ApplyQualified DEF DiscoveryApplied
  <2>. QED BY <2>1, <2>2
<1>2. CASE Scan
  <2>1. /\ \A k \in Keys : records'[k].value = records[k].value
        /\ UNCHANGED <<plans, recorded>>
    <3>1. /\ UNCHANGED <<plans, recorded>>
          /\ \/ records' = records
             \/ \E pick : records' = [k \in Keys |-> IF Marked(pick, k)
                                                    THEN [records[k] EXCEPT !.running = TRUE]
                                                    ELSE records[k]]
      BY <1>2 DEF Scan
    <3>2. \A j \in Keys : records[j] \in Record
      BY DEF TypeOK
    <3>. QED BY <3>1, <3>2 DEF Record
  <2>. QED BY <2>1, TicketsKept
<1>3. CASE UNCHANGED <<plans, recorded, records>>
  BY <1>3, TicketsKept
<1>. QED BY <1>1, <1>2, <1>3
         DEF SchedulerStep, SchedulerExit, BeginSchedule, DiscoveryFailed, keyVars

\* So does a step of the request path.
LEMMA RequestStepTickets ==
    ASSUME TypeOK, TicketsQualified, NEW q \in RequestIDs, RequestStep(q)
    PROVE  TicketsQualified'
<1>1. CASE BindDecide(q)
  BY <1>1, BindQualified
<1>2. ASSUME NEW v \in carried[q], Headers(q, v) \/ ModelMismatch(q, v) PROVE TicketsQualified'
  <2>1. requests[q] # NoObservation
    BY <1>2 DEF Headers, ModelMismatch, Tracked, NoObservation
  <2>. QED BY <1>2, <2>1, InvalidateQualified DEF Headers, ModelMismatch
<1>3. ASSUME NEW mismatch \in BOOLEAN, Complete(q, mismatch) PROVE TicketsQualified'
  <2>1. requests[q].observing => requests[q] # NoObservation
    BY DEF NoObservation
  <2>2. UNCHANGED <<plans, recorded>>
        /\ (records' = records \/ \E v \in carried[q] : requests[q].observing /\ invalidateLocked(q, v))
    BY <1>3 DEF Complete
  <2>. QED BY <2>1, <2>2, InvalidateQualified, TicketsKept
<1>4. CASE UNCHANGED <<plans, recorded, records>>
  BY <1>4, TicketsKept
<1>. QED BY <1>1, <1>2, <1>3, <1>4
         DEF RequestStep, BindIneligible, BindStart, BindDescribe, keyVars

\* The invariant holds at first.
LEMMA TicketInvInit == Init => TicketInv
<1>. SUFFICES ASSUME Init PROVE TicketInv
  OBVIOUS
<1>1. TypeOK
  BY InitType
<1>2. WorkersQualified
  BY DEF Init, WorkersQualified, Qualified, Bound, HasCandidate, HasVerified, IdleWorker
<1>3. TicketsQualified
  BY DEF Init, TicketsQualified, FreshRecord
<1>. QED BY <1>1, <1>2, <1>3 DEF TicketInv

\* Every step keeps the invariant.
LEMMA TicketInvNext == TicketInv /\ [Next]_vars => TicketInv'
<1>. SUFFICES ASSUME TicketInv, [Next]_vars PROVE TicketInv'
  OBVIOUS
<1>1. TypeOK'
  BY NextType DEF TicketInv
<1>2. WorkersQualified'
  <2>1. ASSUME NEW w \in WorkerIDs, WorkerStep(w) PROVE WorkersQualified'
    BY <2>1, WorkerStepQualified DEF TicketInv
  <2>2. CASE wk' = wk
    BY <2>2 DEF TicketInv, WorkersQualified, Qualified, Bound, HasCandidate, HasVerified,
                identityPlanMatches
  <2>. QED BY <2>1, <2>2, OthersKeepWorkers DEF roundVars
<1>3. TicketsQualified'
  <2>1. CASE UNCHANGED <<plans, recorded, records>>
    BY <2>1, TicketsKept DEF TicketInv
  <2>2. CASE Environment
    BY <2>1, <2>2 DEF Environment, Close, Tick, IdentityChange, keyVars
  <2>3. CASE UNCHANGED vars
    BY <2>1, <2>3 DEF vars, keyVars
  <2>. QED BY <2>2, <2>3, WorkerStepTickets, SchedulerStepTickets, RequestStepTickets
           DEF TicketInv, Next
<1>. QED BY <1>1, <1>2, <1>3 DEF TicketInv

\* For any accounts, models, workers and bounds: a published ticket was harvested
\* and verified under the one identity it is bound to, and fits the key's plan
\* (collect, applyAccounts, invalidateLocked).
THEOREM TicketsQualifiedHolds == Spec => []TicketsQualified
<1>1. TicketInv => TicketsQualified
  BY DEF TicketInv
<1>. QED BY <1>1, TicketInvInit, TicketInvNext, PTL DEF Spec

-----------------------------------------------------------------------------
(* The proxy a ticket came through *)

\* The pool operators keep the preferred proxy usable.
LEMMA PoolKeepsGood ==
    ASSUME NEW x \in Pool, NEW p \in Proxies \cup {NoProxy}, NEW t \in Nat,
           x.good # NoProxy => x.failures[x.good] = 0 /\ x.cooldown[x.good] = 0,
           NEW y \in {AfterChoice(x, p, t), MarkSuccess(x, p), MarkFailure(x, p, t)}
    PROVE  y.good # NoProxy => y.failures[y.good] = 0 /\ y.cooldown[y.good] = 0
<1>1. CASE y = AfterChoice(x, p, t)
  BY <1>1 DEF AfterChoice, DropCooling, Pool
<1>2. CASE y = MarkSuccess(x, p)
  BY <1>2 DEF MarkSuccess, Pool, NoProxy
<1>3. CASE y = MarkFailure(x, p, t)
  <2>1. y.good # NoProxy => y.good = x.good /\ y.good # p
    BY <1>3 DEF MarkFailure, Pool
  <2>2. \A g \in Proxies \ {p} : y.failures[g] = x.failures[g] /\ y.cooldown[g] = x.cooldown[g]
    BY <1>3 DEF MarkFailure, Pool
  <2>. QED BY <2>1, <2>2 DEF Pool
<1>. QED BY <1>1, <1>2, <1>3

\* The pool changes by one of its three operators only.
LEMMA PoolStep ==
    ASSUME TypeOK, [Next]_vars
    PROVE  \/ pool' = pool
           \/ \E p \in Proxies \cup {NoProxy} :
                 pool' \in {AfterChoice(pool, p, now), MarkSuccess(pool, p),
                            MarkFailure(pool, p, now)}
<1>1. ASSUME NEW w \in WorkerIDs, WorkerStep(w)
      PROVE  \/ pool' = pool
             \/ \E p \in Proxies \cup {NoProxy} :
                   pool' \in {AfterChoice(pool, p, now), MarkSuccess(pool, p),
                              MarkFailure(pool, p, now)}
  <2>1. wk[w].proxy \in Proxies \cup {NoProxy}
    BY DEF TypeOK, WorkerState
  <2>2. \/ pool' = pool \/ Blame(w) \/ pool' = MarkSuccess(pool, wk[w].proxy)
        \/ \E p \in Proxies \cup {NoProxy} : pool' = AfterChoice(pool, p, now)
    BY <1>1 DEF WorkerStep, WorkerExit, Take, ReadPlan, StartAttempt, Describe, ChooseProxy,
                StartProbe, ProbeRejected, ProbeFailed, Harvested, Redescribe, Verified,
                Recheck, Publish, Finish
  <2>. QED BY <2>1, <2>2 DEF Blame
<1>2. (\A w \in WorkerIDs : ~WorkerStep(w)) => pool' = pool
  BY OthersKeepWorkers DEF roundVars
<1>. QED BY <1>1, <1>2

\* For any number of proxies and workers: the preferred proxy is never one that
\* failed since its last success (chooseProxyLocked, markProxy).
THEOREM GoodProxyUsableHolds == Spec => []GoodProxyUsable
<1>. DEFINE Inv == TypeOK /\ GoodProxyUsable
<1>1. Init => Inv
  BY InitType DEF Init, InitPool, GoodProxyUsable
<1>2. Inv /\ [Next]_vars => Inv'
  <2>. SUFFICES ASSUME Inv, [Next]_vars PROVE GoodProxyUsable' /\ TypeOK'
    OBVIOUS
  <2>1. GoodProxyUsable'
    BY PoolStep, PoolKeepsGood DEF GoodProxyUsable, TypeOK
  <2>. QED BY <2>1, NextType
<1>. QED BY <1>1, <1>2, PTL DEF Spec
=============================================================================
