-------------------------- MODULE PrewarmJobProofs --------------------------
(***************************************************************************)
(* The jobs and the tables of the engine, for every value of the           *)
(* constants.  Of the jobs: the running flags account for them             *)
(* (JobsAccounted), their epochs fence off the rounds that started from    *)
(* refuted data (PublishesFresh), and none of their effects comes after    *)
(* Close (ClosedIsFinal).  Of the tables of requests and of owned keys:    *)
(* the observations stay within max_pending (RequestsBounded), no revoked  *)
(* version is injected again (RevokedStaysOut), no late response revokes   *)
(* another attempt's ticket (NoLateBlame) and no key goes back to passive  *)
(* captures (ManagedForGood).                                              *)
(***************************************************************************)
EXTENDS PrewarmProofs

HasJob(k) ==
    \/ \E i \in 1..Len(queue) : Queued(i, k)
    \/ \E w \in WorkerIDs : Working(w, k)

\* The part of JobsAccounted that speaks of jobs.
FlagsCount == OneJobPerKey /\ \A k \in Keys : records[k].running <=> HasJob(k)

JobsInv == TypeOK /\ RecordsMatchPlans /\ FlagsCount

-----------------------------------------------------------------------------
\* A step that moves no job and turns no flag.
LEMMA SameJobs ==
    ASSUME FlagsCount, queue' = queue,
           \A w \in WorkerIDs, k \in Keys : Working(w, k)' <=> Working(w, k),
           \A k \in Keys : records'[k].running <=> records[k].running
    PROVE  FlagsCount'
BY DEF FlagsCount, OneJobPerKey, HasJob, Queued

\* Jobs of distinct keys that have none are put into the queue.
LEMMA MoreJobs ==
    ASSUME FlagsCount, wk' = wk, Len(queue) \in Nat,
           NEW n \in Nat, NEW pick \in [1..n -> Keys],
           \A i, j \in 1..n : pick[i] = pick[j] => i = j,
           \A i \in 1..n : ~records[pick[i]].running,
           Len(queue') = Len(queue) + n,
           \A i \in 1..Len(queue) : queue'[i] = queue[i],
           \A i \in 1..n : queue'[Len(queue) + i].key = pick[i],
           \A k \in Keys : records'[k].running
                             <=> records[k].running \/ \E i \in 1..n : pick[i] = k
    PROVE  FlagsCount'
<1>1. \A w \in WorkerIDs, k \in Keys : Working(w, k)' <=> Working(w, k)
  BY DEF Working, Busy
<1>2. ASSUME NEW i \in 1..Len(queue'), i \notin 1..Len(queue)
      PROVE  i - Len(queue) \in 1..n /\ i = Len(queue) + (i - Len(queue))
  BY <1>2
<1>3. \A i \in 1..Len(queue'), k \in Keys :
         Queued(i, k)' <=> \/ Queued(i, k)
                           \/ i \notin 1..Len(queue) /\ k = pick[i - Len(queue)]
  BY <1>2 DEF Queued
<1>4. \A k \in Keys : (\E i \in 1..Len(queue') : Queued(i, k)')
                        <=> \/ \E i \in 1..Len(queue) : Queued(i, k)
                            \/ \E i \in 1..n : pick[i] = k
  <2>1. \A j \in 1..n : Len(queue) + j \in 1..Len(queue') /\ Len(queue) + j \notin 1..Len(queue)
                        /\ (Len(queue) + j) - Len(queue) = j
    OBVIOUS
  <2>2. \A i \in 1..Len(queue) : i \in 1..Len(queue')
    OBVIOUS
  <2>3. ASSUME NEW k \in Keys, NEW j \in 1..n, pick[j] = k
        PROVE  \E i \in 1..Len(queue') : Queued(i, k)'
    BY <2>1, <2>3, <1>3
  <2>4. ASSUME NEW k \in Keys, NEW i \in 1..Len(queue'), Queued(i, k)'
        PROVE  \/ \E j \in 1..Len(queue) : Queued(j, k)
               \/ \E j \in 1..n : pick[j] = k
    <3>1. CASE Queued(i, k)
      BY <3>1 DEF Queued
    <3>2. CASE i \notin 1..Len(queue) /\ k = pick[i - Len(queue)]
      BY <1>2, <3>2
    <3>. QED BY <2>4, <1>3, <3>1, <3>2
  <2>. QED BY <2>2, <2>3, <2>4, <1>3 DEF Queued
<1>5. \A k \in Keys : records'[k].running <=> HasJob(k)'
  BY <1>1, <1>4 DEF FlagsCount, HasJob
<1>6. ASSUME NEW k \in Keys, NEW i \in 1..Len(queue'), NEW j \in 1..Len(queue'),
             Queued(i, k)', Queued(j, k)'
      PROVE  i = j
  <2>1. CASE i \in 1..Len(queue) /\ j \in 1..Len(queue)
    BY <2>1, <1>3, <1>6 DEF FlagsCount, OneJobPerKey
  <2>2. CASE i \notin 1..Len(queue) /\ j \notin 1..Len(queue)
    BY <2>2, <1>2, <1>3, <1>6 DEF Queued
  <2>3. ASSUME NEW a \in 1..Len(queue), NEW b \in 1..Len(queue') \ 1..Len(queue),
               Queued(a, k)', Queued(b, k)'
        PROVE  FALSE
    <3>1. Queued(a, k)
      BY <2>3, <1>3
    <3>2. b - Len(queue) \in 1..n /\ pick[b - Len(queue)] = k
      BY <2>3, <1>2, <1>3 DEF Queued
    <3>. QED BY <3>1, <3>2 DEF FlagsCount, HasJob
  <2>. QED BY <2>1, <2>2, <2>3, <1>6
<1>7. ASSUME NEW k \in Keys, NEW w \in WorkerIDs, NEW i \in 1..Len(queue'),
             Working(w, k)', Queued(i, k)'
      PROVE  FALSE
  <2>1. Working(w, k)
    BY <1>1, <1>7
  <2>2. CASE i \in 1..Len(queue)
    BY <2>1, <2>2, <1>3, <1>7 DEF FlagsCount, OneJobPerKey
  <2>3. CASE i \notin 1..Len(queue)
    <3>1. i - Len(queue) \in 1..n /\ pick[i - Len(queue)] = k
      BY <2>3, <1>2, <1>3, <1>7 DEF Queued
    <3>. QED BY <2>1, <3>1 DEF FlagsCount, HasJob
  <2>. QED BY <2>2, <2>3
<1>8. OneJobPerKey'
  BY <1>1, <1>6, <1>7 DEF FlagsCount, OneJobPerKey
<1>. QED BY <1>5, <1>8 DEF FlagsCount

\* One job of a key that has none is put into the queue.
LEMMA OneMoreJob ==
    ASSUME FlagsCount, wk' = wk, Len(queue) \in Nat, NEW k \in Keys, ~records[k].running,
           Len(queue') = Len(queue) + 1,
           \A i \in 1..Len(queue) : queue'[i] = queue[i],
           queue'[Len(queue) + 1].key = k,
           records'[k].running, \A j \in Keys : j # k => records'[j] = records[j]
    PROVE  FlagsCount'
<1>1. PICK n \in Nat : n = 1
  OBVIOUS
<1>2. PICK pick \in [1..n -> Keys] : pick = [i \in 1..n |-> k]
  OBVIOUS
<1>3. /\ \A i, j \in 1..n : pick[i] = pick[j] => i = j
      /\ \A i \in 1..n : ~records[pick[i]].running
      /\ \A i \in 1..n : queue'[Len(queue) + i].key = pick[i]
      /\ Len(queue') = Len(queue) + n
  BY <1>1, <1>2
<1>4. \A j \in Keys : records'[j].running
                        <=> records[j].running \/ \E i \in 1..n : pick[i] = j
  BY <1>1, <1>2
<1>. QED BY <1>3, <1>4, MoreJobs

\* The head of the queue goes to an idle worker.
LEMMA TakenJob ==
    ASSUME TypeOK, FlagsCount, NEW w \in WorkerIDs, Take(w)
    PROVE  FlagsCount'
<1>1. /\ queue \in Seq(Job) /\ queue # <<>> /\ Len(queue) \in Nat \ {0}
      /\ Len(queue') = Len(queue) - 1
      /\ \A i \in 1..Len(queue') : queue'[i] = queue[i + 1]
      /\ Head(queue) = queue[1]
  BY HeadTailProperties, LenProperties, EmptySeq DEF Take, TypeOK, JobQueue
<1>2. \A i \in 1..Len(queue'), k \in Keys : Queued(i, k)' <=> Queued(i + 1, k)
  BY <1>1 DEF Queued
<1>3. /\ \A k \in Keys : ~Working(w, k) /\ (Working(w, k)' <=> Queued(1, k))
      /\ \A v \in WorkerIDs \ {w}, k \in Keys : Working(v, k)' <=> Working(v, k)
  BY <1>1 DEF Take, Becomes, Working, Busy, Queued, TypeOK, IdleWorker
<1>4. \A k \in Keys : HasJob(k)' <=> HasJob(k)
  <2>1. \A i \in 1..Len(queue) : i = 1 \/ (i - 1 \in 1..Len(queue') /\ (i - 1) + 1 = i)
    BY <1>1
  <2>2. \A i \in 1..Len(queue') : i + 1 \in 1..Len(queue)
    BY <1>1
  <2>3. 1 \in 1..Len(queue)
    BY <1>1
  <2>4. ASSUME NEW k \in Keys, HasJob(k)' PROVE HasJob(k)
    BY <2>2, <2>3, <2>4, <1>2, <1>3 DEF HasJob
  <2>5. ASSUME NEW k \in Keys, HasJob(k) PROVE HasJob(k)'
    <3>1. CASE \E v \in WorkerIDs : Working(v, k)
      BY <3>1, <1>3 DEF HasJob
    <3>2. ASSUME NEW i \in 1..Len(queue), Queued(i, k) PROVE HasJob(k)'
      <4>1. CASE i = 1
        BY <3>2, <4>1, <1>3 DEF HasJob
      <4>2. CASE i # 1
        <5>1. i - 1 \in 1..Len(queue') /\ Queued(i - 1, k)'
          BY <2>1, <3>2, <4>2, <1>2
        <5>. QED BY <5>1 DEF HasJob
      <4>. QED BY <4>1, <4>2
    <3>. QED BY <2>5, <3>1, <3>2 DEF HasJob
  <2>. QED BY <2>4, <2>5
<1>5. OneJobPerKey'
  <2>1. \A i \in 1..Len(queue') : i + 1 \in 1..Len(queue) /\ i + 1 # 1 /\ i \in Nat
    BY <1>1
  <2>2. 1 \in 1..Len(queue)
    BY <1>1
  <2>3. ASSUME NEW k \in Keys, NEW i \in 1..Len(queue'), NEW j \in 1..Len(queue'),
               Queued(i, k)', Queued(j, k)'
        PROVE  i = j
    <3>1. i + 1 = j + 1
      BY <2>1, <2>3, <1>2 DEF FlagsCount, OneJobPerKey
    <3>. QED BY <2>1, <3>1
  <2>4. ASSUME NEW k \in Keys, NEW u \in WorkerIDs, NEW v \in WorkerIDs,
               Working(u, k)', Working(v, k)'
        PROVE  u = v
    BY <2>2, <2>4, <1>3 DEF FlagsCount, OneJobPerKey
  <2>5. ASSUME NEW k \in Keys, NEW v \in WorkerIDs, NEW i \in 1..Len(queue'),
               Working(v, k)', Queued(i, k)'
        PROVE  FALSE
    BY <2>1, <2>2, <2>5, <1>2, <1>3 DEF FlagsCount, OneJobPerKey
  <2>. QED BY <2>3, <2>4, <2>5 DEF OneJobPerKey
<1>6. records' = records
  BY DEF Take
<1>. QED BY <1>4, <1>5, <1>6 DEF FlagsCount

\* A round ends: its key's flag goes off, and the other jobs stay.
LEMMA FinishedJob ==
    ASSUME TypeOK, FlagsCount, NEW w \in WorkerIDs, Finish(w)
    PROVE  FlagsCount'
<1>. DEFINE key == wk[w].job.key
<1>1. queue' = queue /\ wk' = [wk EXCEPT ![w] = IdleWorker] /\ wk[w].pc = "finish"
  BY DEF Finish, Becomes
<1>2. /\ \A k \in Keys : ~Working(w, k)' /\ (Working(w, k) <=> k = key)
      /\ \A v \in WorkerIDs \ {w}, k \in Keys : Working(v, k)' <=> Working(v, k)
  BY <1>1 DEF Working, Busy, TypeOK, IdleWorker
<1>3. \A k \in Keys : IF k = key THEN records'[k].running = FALSE ELSE records'[k] = records[k]
  <2>1. \/ \E c : records' = [records EXCEPT ![key].running = FALSE, ![key].cooldown = c]
        \/ records' = [records EXCEPT ![key] = FreshRecord]
    BY DEF Finish
  <2>2. \A k \in Keys : records[k] \in Record
    BY DEF TypeOK
  <2>3. ASSUME NEW c, records' = [records EXCEPT ![key].running = FALSE, ![key].cooldown = c],
               NEW k \in Keys
        PROVE  IF k = key THEN records'[k].running = FALSE ELSE records'[k] = records[k]
    <3>1. records'[k] = IF k = key THEN [records[k] EXCEPT !.running = FALSE, !.cooldown = c]
                                   ELSE records[k]
      BY <2>3 DEF TypeOK
    <3>. QED BY <2>2, <3>1 DEF Record
  <2>4. CASE records' = [records EXCEPT ![key] = FreshRecord]
    BY <2>4 DEF TypeOK, FreshRecord
  <2>. QED BY <2>1, <2>3, <2>4
<1>4. OneJobPerKey'
  BY <1>1, <1>2 DEF FlagsCount, OneJobPerKey, Queued
<1>5. \A k \in Keys : k # key => (HasJob(k)' <=> HasJob(k))
  BY <1>1, <1>2 DEF HasJob, Queued
<1>6. ASSUME NEW k \in Keys, k = key PROVE ~HasJob(k)'
  <2>1. Working(w, k)
    BY <1>2, <1>6
  <2>2. \A i \in 1..Len(queue) : ~Queued(i, k)
    BY <2>1 DEF FlagsCount, OneJobPerKey
  <2>3. \A v \in WorkerIDs : ~Working(v, k)'
    BY <1>2, <2>1 DEF FlagsCount, OneJobPerKey
  <2>. QED BY <1>1, <2>2, <2>3 DEF HasJob, Queued
<1>7. ASSUME NEW k \in Keys PROVE records'[k].running <=> HasJob(k)'
  BY <1>3, <1>5, <1>6 DEF FlagsCount
<1>. QED BY <1>4, <1>7 DEF FlagsCount

-----------------------------------------------------------------------------
\* A record is enqueued at most once, and only while no round of its key runs.
LEMMA EnqueueCounts ==
    ASSUME TypeOK, FlagsCount, NEW k \in Keys, NEW r \in Record,
           r.running <=> records[k].running, enqueueLocked(k, r), wk' = wk
    PROVE  FlagsCount'
<1>1. Len(queue) \in Nat /\ queue \in Seq(Job) /\ r.epoch \in Nat
  BY LenProperties DEF TypeOK, JobQueue, Record
<1>2. CASE Enqueues(k, r)
  <2>. DEFINE job == [key |-> k, epoch |-> r.epoch]
  <2>1. /\ records' = [records EXCEPT ![k] = [r EXCEPT !.running = TRUE]]
        /\ queue' = Append(queue, job) /\ ~records[k].running
    BY <1>2 DEF enqueueLocked, Enqueues, MayRun
  <2>2. job \in Job
    BY <1>1 DEF Job
  <2>3. /\ Len(queue') = Len(queue) + 1
        /\ \A i \in 1..Len(queue) : queue'[i] = queue[i]
        /\ queue'[Len(queue) + 1].key = k
    BY <1>1, <2>1, <2>2, AppendProperties
  <2>4. /\ records'[k].running = TRUE
        /\ \A j \in Keys : j # k => records'[j] = records[j]
    BY <2>1 DEF TypeOK, Record
  <2>. QED BY <1>1, <2>1, <2>3, <2>4, OneMoreJob
<1>3. CASE ~Enqueues(k, r)
  <2>1. records' = [records EXCEPT ![k] = r] /\ queue' = queue
    BY <1>3 DEF enqueueLocked
  <2>2. \A j \in Keys : records'[j].running <=> records[j].running
    BY <2>1 DEF TypeOK
  <2>3. \A w \in WorkerIDs, j \in Keys : Working(w, j)' <=> Working(w, j)
    BY DEF Working, Busy
  <2>. QED BY <2>1, <2>2, <2>3, SameJobs
<1>. QED BY <1>2, <1>3

\* A scan enqueues distinct keys without a round.
LEMMA ScanCounts ==
    ASSUME TypeOK, FlagsCount, Scan
    PROVE  FlagsCount'
<1>1. wk' = wk
  BY DEF Scan, roundVars
<1>2. CASE DueKeys = {}
  BY <1>1, <1>2, SameJobs DEF Scan, Working, Busy
<1>3. CASE DueKeys # {}
  <2>1. PICK pick \in Picks(PickCount) :
          /\ queue' = queue \o [i \in 1..PickCount |->
                                  [key |-> pick[i], epoch |-> records[pick[i]].epoch]]
          /\ records' = [k \in Keys |->
                           IF Marked(pick, k)
                           THEN [records[k] EXCEPT !.running = TRUE]
                           ELSE records[k]]
    BY <1>3 DEF Scan
  <2>. DEFINE new == [i \in 1..PickCount |->
                        [key |-> pick[i], epoch |-> records[pick[i]].epoch]]
  <2>2. PickCount \in Nat /\ Len(queue) \in Nat
    BY PickCountType
  <2>3. /\ pick \in [1..PickCount -> Keys]
        /\ \A i, j \in 1..PickCount : pick[i] = pick[j] => i = j
        /\ \A i \in 1..PickCount : ~records[pick[i]].running
    BY DEF Picks, DueKeys, Due, MayRun
  <2>4. new \in Seq(Job) /\ Len(new) = PickCount
    <3>1. \A i \in 1..PickCount : [key |-> pick[i], epoch |-> records[pick[i]].epoch] \in Job
      BY <2>3 DEF TypeOK, Record, Job
    <3>. QED BY <2>2, <3>1
  <2>5. /\ Len(queue') = Len(queue) + PickCount
        /\ \A i \in 1..Len(queue) : queue'[i] = queue[i]
        /\ \A i \in 1..PickCount : queue'[Len(queue) + i] = new[i]
    <3>1. queue \in Seq(Job)
      BY DEF TypeOK, JobQueue
    <3>. HIDE DEF new
    <3>. QED BY <2>1, <2>2, <2>4, <3>1, ConcatProperties DEF new
  <2>6. \A i \in 1..PickCount : queue'[Len(queue) + i].key = pick[i]
    <3>1. \A i \in 1..PickCount : new[i].key = pick[i]
      OBVIOUS
    <3>. HIDE DEF new
    <3>. QED BY <2>5, <3>1
  <2>7. \A k \in Keys : IF \E i \in 1..PickCount : pick[i] = k
                        THEN records'[k].running = TRUE ELSE records'[k] = records[k]
    BY <2>1 DEF Marked, TypeOK, Record
  <2>8. \A k \in Keys : records'[k].running
                          <=> records[k].running \/ \E i \in 1..PickCount : pick[i] = k
    BY <2>7
  <2>. HIDE DEF new
  <2>9. Len(queue') = Len(queue) + PickCount /\ \A i \in 1..Len(queue) : queue'[i] = queue[i]
    BY <2>5
  <2>. QED BY <1>1, <2>2, <2>3, <2>6, <2>8, <2>9, MoreJobs, SMTT(60)
<1>. QED BY <1>2, <1>3

-----------------------------------------------------------------------------
\* Records match plans as long as neither map changes and no flag goes off.
LEMMA MatchKept ==
    ASSUME TypeOK, RecordsMatchPlans, UNCHANGED <<plans, recorded>>,
           \A k \in Keys : records[k].running => records'[k].running,
           \A k \in Keys \ recorded : records'[k] = records[k]
    PROVE  RecordsMatchPlans'
BY DEF TypeOK, RecordsMatchPlans, Managed

\* Enqueueing a recorded key keeps the invariant.
LEMMA EnqueueInv ==
    ASSUME TypeOK, RecordsMatchPlans, FlagsCount, NEW k \in recorded, NEW r \in Record,
           r.running <=> records[k].running, enqueueLocked(k, r),
           UNCHANGED <<wk, plans, recorded>>
    PROVE  RecordsMatchPlans' /\ FlagsCount'
<1>1. k \in Keys
  BY DEF TypeOK
<1>2. FlagsCount'
  BY <1>1, EnqueueCounts
<1>3. /\ records[k].running => records'[k].running
      /\ \A j \in Keys : j # k => records'[j] = records[j]
  BY <1>1 DEF enqueueLocked, TypeOK, Record
<1>. QED BY <1>2, <1>3, MatchKept

\* The worker goes on with the job it has, and no other worker moves.
JobStays(w) ==
    /\ wk'[w].pc \notin {"idle", "exited"} /\ wk'[w].job = wk[w].job
    /\ \A v \in WorkerIDs \ {w} : wk'[v] = wk[v]

\* A step to a busy state with the same job keeps the job.
LEMMA JobKept ==
    ASSUME TypeOK, NEW w \in WorkerIDs, NEW x, Becomes(w, x),
           x.pc \notin {"idle", "exited"}, x.job = wk[w].job
    PROVE  JobStays(w)
BY DEF TypeOK, Becomes, JobStays

\* Between taking a job and finishing it a worker only goes on with it.
LEMMA RoundGoesOn ==
    ASSUME TypeOK, NEW w \in WorkerIDs, WorkerStep(w), ~Take(w), ~Finish(w)
    PROVE  WorkerExit(w) \/ (Busy(w) /\ JobStays(w))
<1>. SUFFICES ASSUME ~WorkerExit(w) PROVE Busy(w) /\ JobStays(w)
  OBVIOUS
<1>0. wk[w] \in WorkerState
  BY DEF TypeOK
<1>1. Busy(w)
  BY DEF WorkerStep, ReadPlan, StartAttempt, Describe, ChooseProxy, StartProbe, ProbeRejected,
         ProbeFailed, Harvested, Redescribe, Verified, Recheck, Publish, Busy
<1>2. ASSUME NextAttempt(w) PROVE JobStays(w)
  BY <1>2, JobKept DEF NextAttempt, IdleWorker
<1>3. ASSUME NEW b, Return(w, b) PROVE JobStays(w)
  BY <1>3, JobKept DEF Return, IdleWorker
<1>4. ASSUME NEW pc \in {"describe", "harvest", "verify"}, Goto(w, pc) PROVE JobStays(w)
  BY <1>0, <1>4, JobKept DEF Goto, WorkerState
<1>5. ASSUME ReadPlan(w) PROVE JobStays(w)
  BY <1>0, <1>3, <1>5, JobKept DEF ReadPlan, WorkerState
<1>6. ASSUME Describe(w) PROVE JobStays(w)
  BY <1>0, <1>3, <1>6, JobKept DEF Describe, WorkerState
<1>7. ASSUME ChooseProxy(w) PROVE JobStays(w)
  BY <1>0, <1>3, <1>7, JobKept DEF ChooseProxy, WorkerState
<1>8. ASSUME NEW plan, NEW state, Harvested(w, plan, state) \/ Verified(w, plan, state)
      PROVE  JobStays(w)
  BY <1>0, <1>8, JobKept DEF Harvested, Verified, WorkerState
<1>9. ASSUME Redescribe(w) PROVE JobStays(w)
  BY <1>0, <1>2, <1>3, <1>9, JobKept DEF Redescribe, WorkerState
<1>10. ASSUME Recheck(w) PROVE JobStays(w)
  BY <1>0, <1>2, <1>10, JobKept DEF Recheck, WorkerState
<1>11. ASSUME StartAttempt(w) \/ StartProbe(w) \/ ProbeRejected(w) \/ ProbeFailed(w)
       PROVE  JobStays(w)
  BY <1>2, <1>3, <1>4, <1>11 DEF StartAttempt, StartProbe, ProbeRejected, ProbeFailed
<1>12. ASSUME Publish(w) PROVE JobStays(w)
  BY <1>3, <1>12 DEF Publish
<1>. QED BY <1>1, <1>5, <1>6, <1>7, <1>8, <1>9, <1>10, <1>11, <1>12 DEF WorkerStep

\* A worker's step keeps the invariant.
LEMMA WorkerStepJobs ==
    ASSUME TypeOK, RecordsMatchPlans, FlagsCount, NEW w \in WorkerIDs, WorkerStep(w)
    PROVE  RecordsMatchPlans' /\ FlagsCount'
<1>1. CASE Take(w)
  BY <1>1, TakenJob, MatchKept DEF Take
<1>2. CASE Finish(w)
  <2>. DEFINE key == wk[w].job.key
  <2>1. \A k \in Keys : records[k] \in Record
    BY DEF TypeOK
  <2>2. CASE key \in recorded /\ key \in Managed
    <3>1. /\ UNCHANGED <<plans, recorded>>
          /\ \A k \in Keys : k # key => records'[k] = records[k]
      BY <1>2, <2>2 DEF Finish, TypeOK
    <3>. QED BY <1>2, <2>2, <3>1, FinishedJob DEF RecordsMatchPlans, Managed, TypeOK
  <2>3. CASE ~(key \in recorded /\ key \in Managed)
    <3>1. /\ plans' = plans /\ recorded' = recorded \ {key}
          /\ records' = [records EXCEPT ![key] = FreshRecord]
      BY <1>2, <2>3 DEF Finish
    <3>2. key \notin Managed
      BY <2>3 DEF RecordsMatchPlans
    <3>. QED BY <1>2, <3>1, <3>2, FinishedJob DEF RecordsMatchPlans, Managed, TypeOK
  <2>. QED BY <2>2, <2>3
<1>3. CASE Publish(w)
  <2>1. \A k \in Keys : records[k] \in Record
    BY DEF TypeOK
  <2>2. UNCHANGED <<plans, recorded, queue>>
        /\ \/ records' = records
           \/ /\ wk[w].job.key \in recorded
              /\ records' = [records EXCEPT ![wk[w].job.key].value = NewTicket(w),
                                            ![wk[w].job.key].cooldown = 0]
    BY <1>3 DEF Publish, Current
  <2>3. /\ \A k \in Keys : records'[k].running <=> records[k].running
        /\ \A k \in Keys \ recorded : records'[k] = records[k]
    <3>1. CASE records' = records
      BY <3>1
    <3>2. ASSUME NEW t, wk[w].job.key \in recorded,
                 records' = [records EXCEPT ![wk[w].job.key].value = t,
                                            ![wk[w].job.key].cooldown = 0],
                 NEW k \in Keys
          PROVE  /\ records'[k].running <=> records[k].running
                 /\ k \notin recorded => records'[k] = records[k]
      <4>1. records'[k] = IF k = wk[w].job.key
                          THEN [records[k] EXCEPT !.value = t, !.cooldown = 0] ELSE records[k]
        BY <3>2 DEF TypeOK
      <4>2. CASE k = wk[w].job.key
        <5>1. records'[k] = [records[k] EXCEPT !.value = t, !.cooldown = 0]
          BY <4>1, <4>2
        <5>2. records'[k].running = records[k].running
          BY <2>1, <5>1 DEF Record
        <5>. QED BY <3>2, <4>2, <5>2
      <4>3. CASE k # wk[w].job.key
        BY <4>1, <4>3
      <4>. QED BY <4>2, <4>3
    <3>. QED BY <2>2, <3>1, <3>2
  <2>4. \A v \in WorkerIDs, k \in Keys : Working(v, k)' <=> Working(v, k)
    <3>1. Busy(w) /\ JobStays(w)
      BY <1>3, RoundGoesOn DEF Publish, Take, Finish, WorkerExit
    <3>. QED BY <3>1 DEF JobStays, Working, Busy
  <2>. QED BY <2>2, <2>3, <2>4, SameJobs, MatchKept
<1>4. CASE UNCHANGED <<plans, recorded, records, queue>> /\ ~Take(w) /\ ~Publish(w) /\ ~Finish(w)
  <2>1. wk[w] \in WorkerState
    BY DEF TypeOK
  <2>2. WorkerExit(w) \/ (Busy(w) /\ JobStays(w))
    BY <1>4, RoundGoesOn
  <2>3. \A v \in WorkerIDs, k \in Keys : Working(v, k)' <=> Working(v, k)
    <3>1. CASE WorkerExit(w)
      BY <3>1 DEF WorkerExit, Goto, Becomes, Working, Busy, TypeOK, WorkerState
    <3>2. CASE ~WorkerExit(w)
      BY <2>2, <3>2 DEF JobStays, Working, Busy
    <3>. QED BY <3>1, <3>2
  <2>. QED BY <1>4, <2>3, SameJobs, MatchKept
<1>. QED BY <1>1, <1>2, <1>3, <1>4
         DEF WorkerStep, WorkerExit, ReadPlan, StartAttempt, Describe, ChooseProxy, StartProbe,
             ProbeRejected, ProbeFailed, Harvested, Redescribe, Verified, Recheck, keyVars

\* A snapshot turns no flag: it keeps the record of a running round, and drops
\* only records without one.
LEMMA ApplyJobs ==
    ASSUME TypeOK, RecordsMatchPlans, FlagsCount, NEW snapshot \in Snapshots,
           applyAccounts(snapshot), UNCHANGED <<queue, wk>>
    PROVE  RecordsMatchPlans' /\ FlagsCount'
<1>. DEFINE desired == [k \in Keys |-> IF snapshot[AuthOf(k)] \in Plans
                                       THEN snapshot[AuthOf(k)] ELSE NoPlan]
            changed == {k \in Keys : plans[k] # desired[k]}
            dropped == {k \in changed : desired[k] = NoPlan /\ Droppable(k)}
            emptied(k) == [records[k] EXCEPT !.value = NoTicket, !.cooldown = 0,
                                             !.epoch = epoch + 1]
<1>1. /\ plans' = desired
      /\ recorded' = (recorded \ dropped) \cup {k \in changed : desired[k] # NoPlan}
      /\ records' = [k \in Keys |-> IF k \in dropped THEN FreshRecord
                                    ELSE IF k \in changed THEN emptied(k) ELSE records[k]]
  BY DEF applyAccounts
<1>2. \A k \in Keys : emptied(k).running = records[k].running
  <2>1. \A k \in Keys : records[k] \in Record
    BY DEF TypeOK
  <2>. QED BY <2>1 DEF Record
<1>3. \A k \in dropped : ~records[k].running /\ ~FreshRecord.running
  BY DEF Droppable, FreshRecord
<1>. HIDE DEF emptied
<1>4. \A k \in Keys : records'[k].running <=> records[k].running
  BY <1>1, <1>2, <1>3
<1>5. FlagsCount'
  BY <1>4, SameJobs DEF Working, Busy
<1>6. RecordsMatchPlans'
  <2>1. Managed' = {k \in Keys : desired[k] # NoPlan}
    BY <1>1 DEF Managed
  <2>2. Managed' \subseteq recorded'
    <3>1. ASSUME NEW k \in Keys, desired[k] # NoPlan PROVE k \in recorded'
      <4>1. CASE k \in changed
        BY <1>1, <3>1, <4>1
      <4>2. CASE k \notin changed
        <5>1. k \in Managed
          BY <3>1, <4>2 DEF Managed
        <5>. QED BY <1>1, <4>2, <5>1 DEF RecordsMatchPlans
      <4>. QED BY <4>1, <4>2
    <3>. QED BY <2>1, <3>1
  <2>3. ASSUME NEW k \in Keys, k \in recorded', desired[k] = NoPlan PROVE records'[k].running
    <3>1. k \in recorded /\ k \notin dropped
      BY <1>1, <2>3
    <3>2. CASE k \in changed
      BY <1>4, <2>3, <3>1, <3>2 DEF Droppable
    <3>3. CASE k \notin changed
      <4>1. k \notin Managed
        BY <2>3, <3>3 DEF Managed
      <4>. QED BY <1>4, <3>1, <4>1 DEF RecordsMatchPlans
    <3>. QED BY <3>2, <3>3
  <2>4. ASSUME NEW k \in Keys, k \notin recorded' PROVE records'[k] = FreshRecord
    <3>1. CASE k \in dropped
      BY <1>1, <3>1
    <3>2. CASE k \notin dropped
      <4>1. k \notin recorded
        BY <1>1, <2>4, <3>2
      <4>2. k \notin changed
        BY <1>1, <2>4, <4>1 DEF RecordsMatchPlans, Managed
      <4>. QED BY <1>1, <4>1, <4>2, <3>2 DEF RecordsMatchPlans
    <3>. QED BY <3>1, <3>2
  <2>5. recorded' \subseteq Keys
    BY <1>1 DEF TypeOK
  <2>. QED BY <2>1, <2>2, <2>3, <2>4, <2>5 DEF RecordsMatchPlans
<1>. QED BY <1>5, <1>6

\* A step of the scheduler keeps the invariant.
LEMMA SchedulerStepJobs ==
    ASSUME TypeOK, RecordsMatchPlans, FlagsCount, SchedulerStep
    PROVE  RecordsMatchPlans' /\ FlagsCount'
<1>1. ASSUME NEW snapshot \in Snapshots, DiscoveryApplied(snapshot), ~closed
      PROVE  RecordsMatchPlans' /\ FlagsCount'
  BY <1>1, ApplyJobs DEF DiscoveryApplied, roundVars
<1>2. ASSUME Scan PROVE RecordsMatchPlans' /\ FlagsCount'
  <2>1. \A k \in Keys : records[k] \in Record
    BY DEF TypeOK
  <2>2. UNCHANGED <<plans, recorded>>
        /\ \A k \in Keys : \/ records'[k] = records[k]
                           \/ k \in DueKeys /\ records'[k] = [records[k] EXCEPT !.running = TRUE]
    <3>1. CASE DueKeys = {}
      BY <1>2, <3>1 DEF Scan
    <3>2. CASE DueKeys # {}
      <4>1. PICK pick \in Picks(PickCount) :
              records' = [k \in Keys |-> IF Marked(pick, k)
                                         THEN [records[k] EXCEPT !.running = TRUE]
                                         ELSE records[k]]
        BY <1>2, <3>2 DEF Scan
      <4>2. \A k \in Keys : Marked(pick, k) => k \in DueKeys
        BY DEF Marked, Picks
      <4>. QED BY <1>2, <4>1, <4>2 DEF Scan
    <3>. QED BY <3>1, <3>2
  <2>3. /\ \A k \in Keys : records[k].running => records'[k].running
        /\ \A k \in Keys \ recorded : records'[k] = records[k]
    BY <2>1, <2>2 DEF DueKeys, Due, Record
  <2>. QED BY <1>2, <2>2, <2>3, ScanCounts, MatchKept
<1>3. ASSUME UNCHANGED <<plans, recorded, records, queue, wk>>
      PROVE  RecordsMatchPlans' /\ FlagsCount'
  BY <1>3, SameJobs, MatchKept DEF Working, Busy
<1>. QED BY <1>1, <1>2, <1>3
         DEF SchedulerStep, SchedulerExit, BeginSchedule, DiscoveryFailed, DiscoveryApplied,
             keyVars, roundVars

\* A refutation keeps the invariant.
LEMMA InvalidateJobs ==
    ASSUME TypeOK, RecordsMatchPlans, FlagsCount, NEW q \in RequestIDs, NEW v,
           requests[q] # NoObservation, invalidateLocked(q, v),
           UNCHANGED <<wk, plans, recorded>>
    PROVE  RecordsMatchPlans' /\ FlagsCount'
<1>. DEFINE k == requests[q].key
            r == [Revoked(records[k]) EXCEPT !.cooldown = 0]
<1>1. k \in Keys
  BY DEF TypeOK, Observation
<1>2. r \in Record
  BY <1>1, RevokedType
<1>3. r.running = records[k].running
  BY <1>1 DEF Revoked, TypeOK, Record
<1>4. CASE Refutable(q)
  BY <1>2, <1>3, <1>4, EnqueueInv DEF invalidateLocked, Refutable
<1>5. CASE ~Refutable(q)
  BY <1>5, SameJobs, MatchKept DEF invalidateLocked, Working, Busy
<1>. QED BY <1>4, <1>5

\* A step of the request path keeps the invariant.
LEMMA RequestStepJobs ==
    ASSUME TypeOK, RecordsMatchPlans, FlagsCount, NEW q \in RequestIDs, RequestStep(q)
    PROVE  RecordsMatchPlans' /\ FlagsCount'
<1>1. wk' = wk /\ UNCHANGED <<plans, recorded>>
  BY DEF RequestStep, BindIneligible, BindStart, BindDescribe, BindDecide, BindRefused,
         BindMiss, BindHit, BindDeclined, Headers, ModelMismatch, Complete, roundVars, keyVars
<1>2. ASSUME BindMiss(q), BindDecide(q) PROVE RecordsMatchPlans' /\ FlagsCount'
  <2>. DEFINE k == binds[q].key
  <2>1. k \in recorded /\ k \in Keys
    BY <1>2 DEF BindMiss, Serves, TypeOK
  <2>2. /\ records[k] \in Record /\ Revoked(records[k]) \in Record
        /\ Revoked(records[k]).running = records[k].running
    BY <2>1, RevokedType DEF TypeOK, Revoked, Record
  <2>. QED BY <1>1, <1>2, <2>1, <2>2, EnqueueInv DEF BindMiss
<1>3. ASSUME NEW v, invalidateLocked(q, v), requests[q] # NoObservation
      PROVE  RecordsMatchPlans' /\ FlagsCount'
  BY <1>1, <1>3, InvalidateJobs
<1>4. ASSUME UNCHANGED <<records, queue>> PROVE RecordsMatchPlans' /\ FlagsCount'
  BY <1>1, <1>4, SameJobs, MatchKept DEF Working, Busy
<1>5. requests[q].observing \/ q \in Tracked => requests[q] # NoObservation
  BY DEF NoObservation, Tracked
<1>. QED BY <1>2, <1>3, <1>4, <1>5
         DEF RequestStep, BindIneligible, BindStart, BindDescribe, BindDecide, BindRefused,
             BindHit, BindDeclined, Headers, ModelMismatch, Complete, keyVars

\* The invariant holds at first.
LEMMA JobsInvInit == Init => JobsInv
<1>. SUFFICES ASSUME Init PROVE JobsInv
  OBVIOUS
<1>1. RecordsMatchPlans
  BY DEF Init, RecordsMatchPlans, Managed
<1>2. Len(queue) = 0
  BY EmptySeq DEF Init
<1>3. FlagsCount
  BY <1>2 DEF Init, FlagsCount, OneJobPerKey, HasJob, Queued, Working, Busy, IdleWorker,
              FreshRecord
<1>. QED BY <1>1, <1>3, InitType DEF JobsInv

\* Every step keeps the invariant.
LEMMA JobsInvNext == JobsInv /\ [Next]_vars => JobsInv'
<1>. SUFFICES ASSUME JobsInv, [Next]_vars PROVE JobsInv'
  OBVIOUS
<1>1. CASE UNCHANGED vars \/ Environment
  <2>1. UNCHANGED <<plans, recorded, records, queue, wk>>
    BY <1>1 DEF vars, keyVars, roundVars, Environment, Close, Tick, IdentityChange
  <2>. QED BY <2>1, NextType, SameJobs, MatchKept DEF JobsInv, Working, Busy
<1>. QED BY <1>1, NextType, WorkerStepJobs, SchedulerStepJobs, RequestStepJobs DEF JobsInv, Next

\* For any accounts, models, workers and queue: a record's running flag is on
\* exactly while one job of its key is queued or in a worker's hands
\* (enqueueLocked, schedule, worker, applyAccounts).
THEOREM JobsAccountedHolds == Spec => []JobsAccounted
<1>1. JobsInv => JobsAccounted
  BY DEF JobsInv, FlagsCount, JobsAccounted, HasJob
<1>. QED BY <1>1, JobsInvInit, JobsInvNext, PTL DEF Spec

-----------------------------------------------------------------------------
(* Epochs *)

\* The job is not ahead of its record, and behind it if its round is doubted.
Fenced(j) ==
    j.key \in Keys => /\ j.epoch <= records[j.key].epoch
                      /\ j.key \in doubted => j.epoch < records[j.key].epoch

\* What makes PublishesFresh hold: a doubted round's epoch is out of date.
EpochsFence ==
    /\ \A k \in Keys : records[k].epoch <= epoch
    /\ \A k \in doubted : records[k].running
    /\ \A i \in 1..Len(queue) : Fenced(queue[i])
    /\ \A w \in WorkerIDs : Busy(w) => Fenced(wk[w].job)

FenceInv == JobsInv /\ EpochsFence

JobsTyped ==
    /\ \A i \in 1..Len(queue) :
          queue[i].epoch \in Nat /\ queue[i].key \in Keys /\ records[queue[i].key].running
    /\ \A w \in WorkerIDs :
          /\ wk[w].job.epoch \in Nat
          /\ Busy(w) /\ wk[w].job.key \in Keys => records[wk[w].job.key].running
    /\ \A k \in Keys : records[k].epoch \in Nat

\* The epochs of jobs and records are numbers, and the keys of jobs run.
LEMMA JobTypes == JobsInv => JobsTyped
<1>. SUFFICES ASSUME JobsInv PROVE JobsTyped
  OBVIOUS
<1>1. queue \in Seq(Job) /\ \A w \in WorkerIDs : wk[w].job \in Job \cup {NoJob}
  BY DEF JobsInv, TypeOK, JobQueue, WorkerState
<1>2. \A i \in 1..Len(queue) : queue[i] \in Job
  BY <1>1, ElementOfSeq
<1>3. \A i \in 1..Len(queue) : records[queue[i].key].running
  BY <1>2 DEF JobsInv, FlagsCount, HasJob, Queued, Job
<1>4. \A w \in WorkerIDs : Busy(w) /\ wk[w].job.key \in Keys => records[wk[w].job.key].running
  BY DEF JobsInv, FlagsCount, HasJob, Working
<1>. QED BY <1>1, <1>2, <1>3, <1>4 DEF JobsTyped, Job, NoJob, JobsInv, TypeOK, Record

\* A step that raises the epoch of every round it doubts, lowers that of no
\* running round, and enqueues fenced jobs only.
LEMMA FenceKept ==
    ASSUME JobsInv, JobsInv', EpochsFence,
           \A i \in 1..Len(queue') :
              \/ Fenced(queue[i])'
              \/ \E j \in 1..Len(queue) : queue'[i] = queue[j],
           \A w \in WorkerIDs : Busy(w)' => \/ Busy(w) /\ wk'[w].job = wk[w].job
                                            \/ \E j \in 1..Len(queue) : wk'[w].job = queue[j],
           \A k \in Keys : records'[k].epoch <= epoch',
           \A k \in Keys : records'[k].running => records'[k].epoch >= records[k].epoch,
           \A k \in doubted' : records'[k].running,
           \A k \in Keys : k \in doubted' /\ k \notin doubted
                             => records'[k].epoch > records[k].epoch
    PROVE  EpochsFence'
<1>1. \A k \in Keys : records[k].epoch \in Nat /\ records'[k].epoch \in Nat
  BY DEF JobsInv, TypeOK, Record
<1>2. ASSUME NEW e \in Nat, NEW k, k \in Keys => records'[k].running,
             k \in Keys => /\ e <= records[k].epoch
                           /\ k \in doubted => e < records[k].epoch
      PROVE  k \in Keys => /\ e <= records'[k].epoch
                           /\ k \in doubted' => e < records'[k].epoch
  BY <1>1, <1>2
<1>3. JobsTyped /\ JobsTyped'
  BY JobTypes, PTL
<1>4. \A i \in 1..Len(queue') : Fenced(queue[i])'
  <2>1. ASSUME NEW i \in 1..Len(queue'), NEW j \in 1..Len(queue), queue'[i] = queue[j]
        PROVE  Fenced(queue[i])'
    BY <1>2, <1>3, <2>1 DEF Fenced, EpochsFence, JobsTyped
  <2>. QED BY <2>1
<1>5. ASSUME NEW w \in WorkerIDs, Busy(w)' PROVE Fenced(wk[w].job)'
  <2>1. ASSUME Busy(w), wk'[w].job = wk[w].job PROVE Fenced(wk[w].job)'
    BY <1>2, <1>3, <1>5, <2>1 DEF Fenced, EpochsFence, JobsTyped
  <2>2. ASSUME NEW j \in 1..Len(queue), wk'[w].job = queue[j] PROVE Fenced(wk[w].job)'
    BY <1>2, <1>3, <1>5, <2>2 DEF Fenced, EpochsFence, JobsTyped
  <2>. QED BY <1>5, <2>1, <2>2
<1>. QED BY <1>4, <1>5 DEF EpochsFence

\* A record is enqueued under its current epoch; it is doubted when that epoch
\* was raised under a running round.
LEMMA EnqueueFence ==
    ASSUME JobsInv, JobsInv', EpochsFence, NEW k \in Keys, NEW r \in Record,
           r.running <=> records[k].running, enqueueLocked(k, r), wk' = wk,
           epoch' \in Nat, epoch <= epoch', r.epoch <= epoch',
           \/ r.epoch = records[k].epoch /\ doubted' = doubted
           \/ r.epoch > records[k].epoch /\ Doubt(k)
    PROVE  EpochsFence'
<1>1. JobsTyped /\ TypeOK
  BY JobTypes DEF JobsInv
<1>2. /\ records'[k].epoch = r.epoch /\ (r.running => records'[k].running)
      /\ \A j \in Keys : j # k => records'[j] = records[j]
  BY <1>1 DEF enqueueLocked, TypeOK, Record
<1>3. \A j \in Keys : records'[j].epoch <= epoch'
  BY <1>1, <1>2 DEF EpochsFence, JobsTyped, TypeOK
<1>4. \A j \in Keys : records'[j].epoch >= records[j].epoch
  BY <1>1, <1>2 DEF JobsTyped, Record
<1>5. doubted' \subseteq Keys /\ (\A j \in doubted' : records'[j].running)
      /\ \A j \in Keys : j \in doubted' /\ j \notin doubted
                           => records'[j].epoch > records[j].epoch
  BY <1>1, <1>2 DEF Doubt, EpochsFence, TypeOK
<1>6. \A i \in 1..Len(queue') : Fenced(queue[i])' \/ \E j \in 1..Len(queue) : queue'[i] = queue[j]
  <2>1. CASE queue' = queue
    BY <2>1
  <2>2. CASE queue' # queue
    <3>1. /\ queue' = Append(queue, [key |-> k, epoch |-> r.epoch])
          /\ ~records[k].running /\ ~r.running
      BY <2>2 DEF enqueueLocked, Enqueues, MayRun
    <3>2. k \notin doubted'
      BY <3>1 DEF EpochsFence, Doubt
    <3>3. queue \in Seq(Job) /\ [key |-> k, epoch |-> r.epoch] \in Job
      BY <1>1 DEF TypeOK, JobQueue, Job, Record
    <3>4. /\ Len(queue) \in Nat /\ Len(queue') = Len(queue) + 1
          /\ \A i \in 1..Len(queue) : queue'[i] = queue[i]
          /\ queue'[Len(queue) + 1] = [key |-> k, epoch |-> r.epoch]
      BY <3>1, <3>3, AppendProperties, LenProperties
    <3>5. \A i \in 1..Len(queue') : i \in 1..Len(queue) \/ i = Len(queue) + 1
      BY <3>4
    <3>6. ASSUME NEW i, i = Len(queue) + 1 PROVE Fenced(queue[i])'
      BY <1>1, <1>2, <3>2, <3>4, <3>6 DEF Fenced, Record
    <3>. QED BY <3>4, <3>5, <3>6
  <2>. QED BY <2>1, <2>2
<1>7. \A w \in WorkerIDs : Busy(w)' => Busy(w) /\ wk'[w].job = wk[w].job
  BY DEF Busy
<1>. QED BY <1>3, <1>4, <1>5, <1>6, <1>7, FenceKept

\* A worker's step keeps the fence.
LEMMA WorkerStepFence ==
    ASSUME JobsInv, JobsInv', EpochsFence, NEW w \in WorkerIDs, WorkerStep(w)
    PROVE  EpochsFence'
<1>. USE DEF JobsInv
<1>1. TypeOK /\ JobsTyped /\ \A k \in Keys : records[k] \in Record
  BY JobTypes DEF TypeOK
<1>2. \A v \in WorkerIDs \ {w} : wk'[v] = wk[v]
  <2>1. \E x : Becomes(w, x)
    BY DEF WorkerStep, WorkerExit, Take, ReadPlan, StartAttempt, Describe, ChooseProxy,
           StartProbe, ProbeRejected, ProbeFailed, Harvested, Redescribe, Verified, Recheck,
           Publish, Finish, Goto, Return, NextAttempt
  <2>. QED BY <1>1, <2>1 DEF Becomes, TypeOK
<1>3. CASE Take(w)
  <2>1. /\ queue \in Seq(Job) /\ queue # <<>> /\ Len(queue) \in Nat \ {0}
        /\ Len(queue') = Len(queue) - 1
        /\ \A i \in 1..Len(queue') : queue'[i] = queue[i + 1]
        /\ Head(queue) = queue[1]
    BY <1>3, <1>1, HeadTailProperties, LenProperties, EmptySeq DEF Take, TypeOK, JobQueue
  <2>2. \A i \in 1..Len(queue') : \E j \in 1..Len(queue) : queue'[i] = queue[j]
    BY <2>1
  <2>3. wk'[w].job = queue[1] /\ 1 \in 1..Len(queue)
    BY <1>1, <1>3, <2>1 DEF Take, Becomes, TypeOK, IdleWorker
  <2>4. \A v \in WorkerIDs : Busy(v)' => \/ Busy(v) /\ wk'[v].job = wk[v].job
                                         \/ \E j \in 1..Len(queue) : wk'[v].job = queue[j]
    BY <1>2, <2>3 DEF Busy
  <2>5. UNCHANGED <<records, epoch, doubted>>
    BY <1>3 DEF Take, history
  <2>. QED BY <1>1, <2>2, <2>4, <2>5, FenceKept DEF EpochsFence, JobsTyped
<1>4. CASE Finish(w)
  <2>. DEFINE key == wk[w].job.key
  <2>1. UNCHANGED <<queue, epoch>> /\ doubted' = doubted \ {key} /\ wk' = [wk EXCEPT ![w] = IdleWorker]
    BY <1>4 DEF Finish, Becomes
  <2>2. \A v \in WorkerIDs : Busy(v)' => Busy(v) /\ wk'[v].job = wk[v].job
    BY <1>1, <1>2, <2>1 DEF Busy, TypeOK, IdleWorker
  <2>3. \A k \in Keys : k # key => records'[k] = records[k]
    BY <1>1, <1>4 DEF Finish, TypeOK
  <2>4. ASSUME NEW k \in Keys, k = key
        PROVE  ~records'[k].running /\ records'[k].epoch \in {0, records[k].epoch}
    <3>1. CASE key \in recorded /\ key \in Managed
      <4>1. PICK c \in Nat : records' = [records EXCEPT ![key].running = FALSE, ![key].cooldown = c]
        <5>1. \A b \in BOOLEAN : (IF b THEN now + Cooldown ELSE records[key].cooldown) \in Nat
          BY <1>1, <2>4, PoolAssumption DEF TypeOK, Record
        <5>. QED BY <1>4, <3>1, <5>1 DEF Finish
      <4>2. records'[k] = [records[k] EXCEPT !.running = FALSE, !.cooldown = c]
        BY <1>1, <2>4, <4>1 DEF TypeOK
      <4>3. records'[k].epoch = records[k].epoch /\ records'[k].running = FALSE
        BY <1>1, <4>2 DEF Record
      <4>. QED BY <4>3
    <3>2. CASE ~(key \in recorded /\ key \in Managed)
      BY <1>1, <1>4, <2>4, <3>2 DEF Finish, TypeOK, FreshRecord
    <3>. QED BY <3>1, <3>2
  <2>5. 0 <= epoch
    BY <1>1 DEF TypeOK
  <2>6. \A k \in Keys : records'[k].epoch <= epoch'
    BY <2>1, <2>3, <2>4, <2>5 DEF EpochsFence
  <2>7. \A k \in Keys : records'[k].running => records'[k].epoch >= records[k].epoch
    BY <1>1, <2>3, <2>4 DEF JobsTyped
  <2>8. \A k \in doubted' : records'[k].running
    BY <1>1, <2>1, <2>3 DEF EpochsFence, TypeOK
  <2>. QED BY <2>1, <2>2, <2>6, <2>7, <2>8, FenceKept
<1>5. CASE ~Take(w) /\ ~Finish(w)
  <2>1. UNCHANGED <<queue, epoch, doubted>>
    BY <1>5 DEF WorkerStep, WorkerExit, ReadPlan, StartAttempt, Describe, ChooseProxy,
                StartProbe, ProbeRejected, ProbeFailed, Harvested, Redescribe, Verified,
                Recheck, Publish, keyVars, history
  <2>2. \A k \in Keys : /\ records'[k].epoch = records[k].epoch
                        /\ records[k].running => records'[k].running
    <3>1. CASE records' = records
      BY <3>1
    <3>2. ASSUME NEW t, records' = [records EXCEPT ![wk[w].job.key].value = t,
                                                   ![wk[w].job.key].cooldown = 0],
                 NEW k \in Keys
          PROVE  records'[k].epoch = records[k].epoch /\ records'[k].running = records[k].running
      <4>1. records'[k] = records[k] \/ records'[k] = [records[k] EXCEPT !.value = t, !.cooldown = 0]
        BY <1>1, <3>2 DEF TypeOK
      <4>. QED BY <1>1, <4>1 DEF Record
    <3>. QED BY <1>5, <3>1, <3>2
             DEF WorkerStep, WorkerExit, ReadPlan, StartAttempt, Describe, ChooseProxy,
                 StartProbe, ProbeRejected, ProbeFailed, Harvested, Redescribe, Verified,
                 Recheck, Publish, keyVars
  <2>3. \A v \in WorkerIDs : Busy(v)' => Busy(v) /\ wk'[v].job = wk[v].job
    <3>1. WorkerExit(w) \/ (Busy(w) /\ JobStays(w))
      BY <1>1, <1>5, RoundGoesOn
    <3>2. ASSUME WorkerExit(w) PROVE ~Busy(w)'
      <4>1. wk[w] \in WorkerState /\ wk' = [wk EXCEPT ![w] = [wk[w] EXCEPT !.pc = "exited"]]
        BY <1>1, <3>2 DEF WorkerExit, Goto, Becomes, TypeOK
      <4>2. wk'[w] = [wk[w] EXCEPT !.pc = "exited"]
        BY <1>1, <4>1 DEF TypeOK
      <4>. QED BY <4>1, <4>2 DEF Busy, WorkerState
    <3>. QED BY <1>2, <3>1, <3>2 DEF Busy, JobStays
  <2>4. \A k \in Keys : records'[k].epoch <= epoch'
    BY <2>1, <2>2 DEF EpochsFence
  <2>5. \A k \in Keys : records'[k].running => records'[k].epoch >= records[k].epoch
    BY <1>1, <2>2 DEF JobsTyped
  <2>6. \A k \in doubted' : records'[k].running
    BY <1>1, <2>1, <2>2 DEF EpochsFence, TypeOK
  <2>7. doubted' = doubted /\ \A i \in 1..Len(queue') : \E j \in 1..Len(queue) : queue'[i] = queue[j]
    BY <2>1
  <2>. QED BY <2>3, <2>4, <2>5, <2>6, <2>7, FenceKept
<1>. QED BY <1>3, <1>4, <1>5

\* A discovery snapshot raises the epoch of every round whose key it changes.
LEMMA ApplyFence ==
    ASSUME JobsInv, JobsInv', EpochsFence, NEW snapshot \in Snapshots,
           applyAccounts(snapshot), UNCHANGED <<queue, wk>>
    PROVE  EpochsFence'
<1>1. TypeOK /\ JobsTyped /\ (\A k \in Keys : records[k] \in Record) /\ epoch \in Nat
  BY JobTypes DEF TypeOK, JobsInv
<1>2. PICK changed \in SUBSET Keys, dropped \in SUBSET Keys :
        /\ \A k \in dropped : ~records[k].running
        /\ records' = [k \in Keys |->
                         IF k \in dropped THEN FreshRecord
                         ELSE IF k \in changed
                              THEN [records[k] EXCEPT !.value = NoTicket, !.cooldown = 0,
                                                      !.epoch = epoch + 1]
                              ELSE records[k]]
        /\ epoch' = IF changed = {} THEN epoch ELSE epoch + 1
        /\ doubted' = doubted \cup {k \in changed : records[k].running}
        /\ dropped \subseteq changed
  <2>. DEFINE desired == [k \in Keys |-> IF snapshot[AuthOf(k)] \in Plans
                                         THEN snapshot[AuthOf(k)] ELSE NoPlan]
              changed == {k \in Keys : plans[k] # desired[k]}
              dropped == {k \in changed : desired[k] = NoPlan /\ Droppable(k)}
  <2>1. changed \in SUBSET Keys /\ dropped \in SUBSET Keys /\ dropped \subseteq changed
    OBVIOUS
  <2>2. \A k \in dropped : ~records[k].running
    BY DEF Droppable
  <2>. QED BY <2>1, <2>2 DEF applyAccounts
<1>3. \A k \in dropped : records'[k].epoch = 0 /\ ~records[k].running /\ ~records'[k].running
  BY <1>2 DEF FreshRecord
<1>4. \A k \in changed \ dropped : /\ records'[k].epoch = epoch + 1
                                   /\ records'[k].running = records[k].running
  <2>1. ASSUME NEW k \in changed \ dropped
        PROVE  records'[k] = [records[k] EXCEPT !.value = NoTicket, !.cooldown = 0,
                                                !.epoch = epoch + 1]
    BY <1>2
  <2>. QED BY <1>1, <2>1 DEF Record
<1>5. \A k \in Keys \ changed : records'[k] = records[k]
  BY <1>2
<1>6. epoch' \in Nat /\ epoch <= epoch' /\ (changed # {} => epoch' = epoch + 1)
  <2>1. CASE changed = {}
    BY <1>1, <1>2, <2>1
  <2>2. CASE changed # {}
    <3>1. epoch' = epoch + 1
      BY <1>2, <2>2, Zenon
    <3>. QED BY <1>1, <3>1
  <2>. QED BY <2>1, <2>2
<1>7. \A k \in Keys : records[k].epoch <= epoch /\ records[k].epoch \in Nat
  BY <1>1 DEF EpochsFence, JobsTyped
<1>8. \A k \in Keys : k \in dropped \/ k \in changed \ dropped \/ k \in Keys \ changed
  BY <1>2
<1>9. \A k \in Keys : records'[k].epoch <= epoch'
  BY <1>1, <1>3, <1>4, <1>5, <1>6, <1>7, <1>8
<1>10. \A k \in Keys : records'[k].running => records'[k].epoch >= records[k].epoch
  BY <1>1, <1>3, <1>4, <1>5, <1>7, <1>8
<1>11. \A k \in doubted' : k \in Keys /\ records[k].running
  BY <1>1, <1>2 DEF EpochsFence, TypeOK
<1>12. \A k \in doubted' : records'[k].running
  BY <1>3, <1>4, <1>5, <1>8, <1>11
<1>13. ASSUME NEW k \in Keys, k \in doubted', k \notin doubted
       PROVE  records'[k].epoch > records[k].epoch
  <2>1. k \in changed /\ k \notin dropped
    BY <1>2, <1>3, <1>13
  <2>. QED BY <1>1, <1>4, <1>7, <2>1
<1>14. \A i \in 1..Len(queue') : \E j \in 1..Len(queue) : queue'[i] = queue[j]
  OBVIOUS
<1>15. \A w \in WorkerIDs : Busy(w)' => Busy(w) /\ wk'[w].job = wk[w].job
  BY DEF Busy
<1>. QED BY <1>9, <1>10, <1>12, <1>13, <1>14, <1>15, FenceKept

\* A job the scheduler enqueues carries its record's current epoch, and the key
\* had no running round that could be doubted.
LEMMA ScanFence ==
    ASSUME JobsInv, JobsInv', EpochsFence, Scan
    PROVE  EpochsFence'
<1>1. TypeOK /\ JobsTyped /\ \A k \in Keys : records[k] \in Record
  BY JobTypes DEF TypeOK, JobsInv
<1>2. UNCHANGED <<epoch, doubted, wk>>
  BY DEF Scan, history, roundVars
<1>3. \A k \in Keys : /\ records'[k].epoch = records[k].epoch
                      /\ records[k].running => records'[k].running
  <2>1. CASE DueKeys = {}
    BY <2>1 DEF Scan
  <2>2. CASE DueKeys # {}
    <3>1. \A k \in Keys : \/ records'[k] = records[k]
                           \/ records'[k] = [records[k] EXCEPT !.running = TRUE]
      BY <2>2 DEF Scan
    <3>. QED BY <1>1, <3>1 DEF Record
  <2>. QED BY <2>1, <2>2
<1>4. \A i \in 1..Len(queue') : Fenced(queue[i])' \/ \E j \in 1..Len(queue) : queue'[i] = queue[j]
  <2>1. CASE DueKeys = {}
    BY <2>1 DEF Scan
  <2>2. CASE DueKeys # {}
    <3>1. PICK pick \in Picks(PickCount) :
            queue' = queue \o [i \in 1..PickCount |->
                                 [key |-> pick[i], epoch |-> records[pick[i]].epoch]]
      BY <2>2 DEF Scan
    <3>. DEFINE more == [i \in 1..PickCount |->
                           [key |-> pick[i], epoch |-> records[pick[i]].epoch]]
    <3>2. PickCount \in Nat /\ queue \in Seq(Job)
      BY <1>1, PickCountType DEF TypeOK, JobQueue
    <3>3. \A i \in 1..PickCount : pick[i] \in DueKeys
      BY DEF Picks
    <3>4. \A k \in DueKeys : k \in Keys /\ ~records[k].running
      BY DEF DueKeys, Due, MayRun
    <3>5. more \in Seq(Job) /\ Len(more) = PickCount
      <4>1. \A i \in 1..PickCount : more[i] \in Job
        BY <1>1, <3>3, <3>4 DEF Job, JobsTyped
      <4>. QED BY <3>2, <4>1
    <3>6. /\ Len(queue') = Len(queue) + Len(more) /\ Len(queue) \in Nat
          /\ \A i \in 1..Len(queue') : queue'[i] = IF i <= Len(queue) THEN queue[i]
                                                   ELSE more[i - Len(queue)]
      BY <3>1, <3>2, <3>5, ConcatProperties, LenProperties
    <3>7. \A j \in 1..PickCount : more[j] = [key |-> pick[j], epoch |-> records[pick[j]].epoch]
      OBVIOUS
    <3>. HIDE DEF more
    <3>8. ASSUME NEW i \in 1..Len(queue'), ~(i <= Len(queue)) PROVE Fenced(queue[i])'
      <4>1. i - Len(queue) \in 1..PickCount
        BY <3>2, <3>5, <3>6, <3>8
      <4>2. PICK k \in DueKeys : queue'[i] = [key |-> k, epoch |-> records[k].epoch]
        BY <3>3, <3>6, <3>7, <3>8, <4>1
      <4>3. k \in Keys /\ k \notin doubted' /\ records[k].epoch \in Nat
        BY <1>1, <1>2, <3>4 DEF EpochsFence, JobsTyped
      <4>. QED BY <1>3, <4>2, <4>3 DEF Fenced
    <3>9. ASSUME NEW i \in 1..Len(queue'), i <= Len(queue)
          PROVE  \E j \in 1..Len(queue) : queue'[i] = queue[j]
      BY <3>6, <3>9
    <3>. QED BY <3>8, <3>9
  <2>. QED BY <2>1, <2>2
<1>5. \A k \in Keys : records'[k].epoch <= epoch'
  BY <1>2, <1>3 DEF EpochsFence
<1>6. \A k \in Keys : records'[k].running => records'[k].epoch >= records[k].epoch
  BY <1>1, <1>3 DEF JobsTyped
<1>7. \A k \in doubted' : records'[k].running
  BY <1>1, <1>2, <1>3 DEF EpochsFence, TypeOK
<1>8. \A w \in WorkerIDs : Busy(w)' => Busy(w) /\ wk'[w].job = wk[w].job
  BY <1>2 DEF Busy
<1>. QED BY <1>2, <1>4, <1>5, <1>6, <1>7, <1>8, FenceKept

\* A step that touches neither jobs nor records keeps the fence.
LEMMA FenceUntouched ==
    ASSUME EpochsFence, UNCHANGED <<records, epoch, queue, wk, doubted>>
    PROVE  EpochsFence'
BY DEF EpochsFence, Fenced, Busy

\* A step of the scheduler keeps the fence.
LEMMA SchedulerStepFence ==
    ASSUME JobsInv, JobsInv', EpochsFence, SchedulerStep
    PROVE  EpochsFence'
<1>1. ASSUME NEW snapshot \in Snapshots, DiscoveryApplied(snapshot), ~closed
      PROVE  EpochsFence'
  BY <1>1, ApplyFence DEF DiscoveryApplied, roundVars
<1>2. ASSUME UNCHANGED <<records, epoch, queue, wk, doubted>> PROVE EpochsFence'
  BY <1>2, FenceUntouched
<1>. QED BY <1>1, <1>2, ScanFence
         DEF SchedulerStep, SchedulerExit, BeginSchedule, DiscoveryFailed, DiscoveryApplied,
             keyVars, roundVars, history

\* A raised epoch is above the engine's and the record's.
LEMMA BumpedAbove ==
    ASSUME TypeOK, NEW k \in Keys
    PROVE  /\ BumpedEpoch(records[k]) \in Nat
           /\ epoch < BumpedEpoch(records[k]) /\ records[k].epoch < BumpedEpoch(records[k])
BY DEF TypeOK, Record, BumpedEpoch

\* A step of the request path keeps the fence.
LEMMA RequestStepFence ==
    ASSUME JobsInv, JobsInv', EpochsFence, NEW q \in RequestIDs, RequestStep(q)
    PROVE  EpochsFence'
<1>1. TypeOK /\ (\A k \in Keys : records[k] \in Record) /\ epoch \in Nat
  BY DEF TypeOK, JobsInv
<1>2. wk' = wk
  BY DEF RequestStep, BindIneligible, BindStart, BindDescribe, BindDecide, BindRefused,
         BindMiss, BindHit, BindDeclined, Headers, ModelMismatch, Complete, roundVars
<1>3. ASSUME NEW k \in Keys, enqueueLocked(k, records[k]), UNCHANGED <<epoch, doubted>>
      PROVE  EpochsFence'
  BY <1>1, <1>2, <1>3, EnqueueFence DEF EpochsFence
<1>4. ASSUME NEW k \in Keys, NEW r \in Record, enqueueLocked(k, r), Doubt(k),
             r.running <=> records[k].running, epoch' = BumpedEpoch(records[k]),
             r.epoch = BumpedEpoch(records[k])
      PROVE  EpochsFence'
  BY <1>1, <1>2, <1>4, BumpedAbove, EnqueueFence
<1>5. ASSUME BindMiss(q), BindDecide(q) PROVE EpochsFence'
  <2>1. PICK k \in Keys : k = binds[q].key
    BY <1>5 DEF BindMiss, Serves, JobsInv, RecordsMatchPlans, TypeOK
  <2>2. /\ Revoked(records[k]) \in Record
        /\ Revoked(records[k]).running = records[k].running
        /\ Revoked(records[k]).epoch = BumpedEpoch(records[k])
    BY <1>1, RevokedType DEF Revoked, Record
  <2>. QED BY <1>3, <1>4, <1>5, <2>1, <2>2 DEF BindMiss
<1>6. ASSUME NEW v, invalidateLocked(q, v), requests[q] # NoObservation PROVE EpochsFence'
  <2>1. PICK k \in Keys : k = requests[q].key
    BY <1>1, <1>6 DEF TypeOK, Observation
  <2>. DEFINE r == [Revoked(records[k]) EXCEPT !.cooldown = 0]
  <2>2. r \in Record
    BY <1>1, RevokedType
  <2>3. r.running = records[k].running /\ r.epoch = BumpedEpoch(records[k])
    BY <1>1 DEF Revoked, Record
  <2>. QED BY <1>2, <1>4, <1>6, <2>1, <2>2, <2>3, FenceUntouched DEF invalidateLocked
<1>7. ASSUME UNCHANGED <<records, epoch, queue, doubted>> PROVE EpochsFence'
  BY <1>2, <1>7, FenceUntouched
<1>8. requests[q].observing \/ q \in Tracked => requests[q] # NoObservation
  BY DEF NoObservation, Tracked
<1>. QED BY <1>5, <1>6, <1>7, <1>8
         DEF RequestStep, BindIneligible, BindStart, BindDescribe, BindDecide, BindRefused,
             BindHit, BindDeclined, Headers, ModelMismatch, Complete, keyVars, history

\* The fence holds at first.
LEMMA FenceInvInit == Init => FenceInv
<1>. SUFFICES ASSUME Init PROVE FenceInv
  OBVIOUS
<1>1. Len(queue) = 0
  BY EmptySeq DEF Init
<1>. QED BY <1>1, JobsInvInit
         DEF Init, FenceInv, EpochsFence, Busy, IdleWorker, FreshRecord

\* Every step keeps the fence.
LEMMA FenceInvNext == FenceInv /\ [Next]_vars => FenceInv'
<1>. SUFFICES ASSUME FenceInv, [Next]_vars PROVE FenceInv'
  OBVIOUS
<1>1. JobsInv /\ JobsInv' /\ EpochsFence
  BY JobsInvNext DEF FenceInv
<1>2. CASE UNCHANGED vars \/ Environment
  <2>1. UNCHANGED <<records, epoch, queue, wk, doubted>>
    BY <1>2 DEF vars, keyVars, roundVars, history, Environment, Close, Tick, IdentityChange
  <2>. QED BY <1>1, <2>1, FenceUntouched DEF FenceInv
<1>. QED BY <1>1, <1>2, WorkerStepFence, SchedulerStepFence, RequestStepFence DEF FenceInv, Next

ValuesKept == \A k \in Keys : records'[k].value \in {records[k].value, NoTicket}

\* What is enqueued is the record as it was, or without its ticket.
LEMMA EnqueueKeepsValues ==
    ASSUME TypeOK, NEW k \in Keys, NEW r \in Record, enqueueLocked(k, r),
           r.value \in {records[k].value, NoTicket}
    PROVE  ValuesKept
<1>1. PICK x \in {r, [r EXCEPT !.running = TRUE]} : records' = [records EXCEPT ![k] = x]
  BY DEF enqueueLocked
<1>2. x.value = r.value
  BY DEF Record
<1>3. \A j \in Keys : records'[j] = IF j = k THEN x ELSE records[j]
  BY <1>1 DEF TypeOK
<1>. QED BY <1>2, <1>3 DEF ValuesKept

\* Only Publish gives a key a new ticket: workers.
LEMMA WorkerKeepsValues ==
    ASSUME TypeOK, NEW w \in WorkerIDs, WorkerStep(w), ~Publish(w)
    PROVE  ValuesKept
<1>1. \A k \in Keys : records[k] \in Record
  BY DEF TypeOK
<1>2. ASSUME Finish(w) PROVE ValuesKept
  <2>. DEFINE key == wk[w].job.key
  <2>1. ASSUME NEW k \in Keys, k # key PROVE records'[k] = records[k]
    BY <1>2, <2>1 DEF Finish, TypeOK
  <2>2. ASSUME NEW k \in Keys, k = key, NEW c,
               records' = [records EXCEPT ![key].running = FALSE, ![key].cooldown = c]
        PROVE  records'[k].value = records[k].value
    <3>1. records'[k] = [records[k] EXCEPT !.running = FALSE, !.cooldown = c]
      BY <2>2 DEF TypeOK
    <3>. QED BY <1>1, <3>1 DEF Record
  <2>3. ASSUME NEW k \in Keys, k = key, records' = [records EXCEPT ![key] = FreshRecord]
        PROVE  records'[k].value = NoTicket
    BY <2>3 DEF TypeOK, FreshRecord
  <2>. QED BY <1>2, <2>1, <2>2, <2>3 DEF Finish, ValuesKept
<1>3. ASSUME ~Finish(w) PROVE records' = records
  BY <1>3 DEF WorkerStep, WorkerExit, Take, ReadPlan, StartAttempt, Describe, ChooseProxy,
              StartProbe, ProbeRejected, ProbeFailed, Harvested, Redescribe, Verified, Recheck,
              keyVars
<1>. QED BY <1>2, <1>3 DEF ValuesKept

\* Only Publish gives a key a new ticket: the scheduler.
LEMMA SchedulerKeepsValues ==
    ASSUME TypeOK, SchedulerStep
    PROVE  ValuesKept
<1>1. \A k \in Keys : records[k] \in Record
  BY DEF TypeOK
<1>2. ASSUME NEW snapshot \in Snapshots, applyAccounts(snapshot) PROVE ValuesKept
  <2>1. \A k \in Keys :
           \/ records'[k] = FreshRecord
           \/ records'[k] = [records[k] EXCEPT !.value = NoTicket, !.cooldown = 0,
                                              !.epoch = epoch + 1]
           \/ records'[k] = records[k]
    BY <1>2 DEF applyAccounts
  <2>2. ASSUME NEW k \in Keys, records'[k] = FreshRecord PROVE records'[k].value = NoTicket
    BY <2>2 DEF FreshRecord
  <2>3. ASSUME NEW k \in Keys,
               records'[k] = [records[k] EXCEPT !.value = NoTicket, !.cooldown = 0,
                                                !.epoch = epoch + 1]
        PROVE  records'[k].value = NoTicket
    BY <1>1, <2>3 DEF Record
  <2>. QED BY <2>1, <2>2, <2>3 DEF ValuesKept
<1>3. ASSUME Scan PROVE ValuesKept
  <2>1. \A k \in Keys : \/ records'[k] = records[k]
                         \/ records'[k] = [records[k] EXCEPT !.running = TRUE]
    BY <1>3 DEF Scan
  <2>. QED BY <1>1, <2>1 DEF ValuesKept, Record
<1>. QED BY <1>2, <1>3
         DEF SchedulerStep, SchedulerExit, BeginSchedule, DiscoveryFailed, DiscoveryApplied,
             keyVars, ValuesKept

\* Only Publish gives a key a new ticket: the request path.
LEMMA RequestKeepsValues ==
    ASSUME JobsInv, NEW q \in RequestIDs, RequestStep(q)
    PROVE  ValuesKept
<1>1. TypeOK /\ \A k \in Keys : records[k] \in Record
  BY DEF TypeOK, JobsInv
<1>2. ASSUME BindMiss(q) PROVE ValuesKept
  <2>1. PICK k \in Keys : k = binds[q].key
    BY <1>2 DEF BindMiss, Serves, JobsInv, RecordsMatchPlans, TypeOK
  <2>2. Revoked(records[k]) \in Record /\ Revoked(records[k]).value = NoTicket
    BY <1>1, RevokedType DEF Revoked, Record
  <2>. QED BY <1>1, <1>2, <2>1, <2>2, EnqueueKeepsValues DEF BindMiss
<1>3. ASSUME NEW v, invalidateLocked(q, v), requests[q] # NoObservation PROVE ValuesKept
  <2>1. PICK k \in Keys : k = requests[q].key
    BY <1>1, <1>3 DEF TypeOK, Observation
  <2>. DEFINE r == [Revoked(records[k]) EXCEPT !.cooldown = 0]
  <2>2. r \in Record
    BY <1>1, RevokedType
  <2>3. r.value = NoTicket
    BY <1>1 DEF Revoked, Record
  <2>. QED BY <1>1, <1>3, <2>1, <2>2, <2>3, EnqueueKeepsValues DEF invalidateLocked, ValuesKept
<1>4. requests[q].observing \/ q \in Tracked => requests[q] # NoObservation
  BY DEF NoObservation, Tracked
<1>. QED BY <1>2, <1>3, <1>4
         DEF RequestStep, BindIneligible, BindStart, BindDescribe, BindDecide, BindRefused,
             BindHit, BindDeclined, Headers, ModelMismatch, Complete, keyVars, ValuesKept

\* What Publish publishes belongs to a job that no refutation has overtaken.
LEMMA PublishFenced ==
    ASSUME FenceInv, NEW w \in WorkerIDs, Publish(w), NEW k \in Keys,
           records'[k].value \notin {records[k].value, NoTicket}
    PROVE  k \notin doubted
<1>1. JobsTyped /\ TypeOK
  BY JobTypes DEF FenceInv, JobsInv
<1>2. Current(w) /\ k = wk[w].job.key
  BY <1>1 DEF Publish, TypeOK
<1>3. records[k].epoch = wk[w].job.epoch /\ Busy(w)
  BY <1>2 DEF Current, Publish, Busy
<1>4. Fenced(wk[w].job)
  BY <1>3 DEF FenceInv, EpochsFence
<1>. QED BY <1>1, <1>2, <1>3, <1>4 DEF Fenced, JobsTyped

\* For any interleaving of rounds, revocations and discoveries: a round that was
\* queued or running when its key lost a ticket or changed its plan does not
\* publish (the epoch test of collect against invalidateLocked and applyAccounts).
THEOREM PublishesFreshHolds == Spec => PublishesFresh
<1>1. FenceInv /\ [Next]_vars
        => [\A k \in Keys : records'[k].value \notin {records[k].value, NoTicket}
                              => k \notin doubted]_vars
  <2>. SUFFICES ASSUME FenceInv, [Next]_vars, NEW k \in Keys,
                       records'[k].value \notin {records[k].value, NoTicket}
                PROVE  k \notin doubted
    OBVIOUS
  <2>1. ~ValuesKept /\ records' # records
    BY DEF ValuesKept
  <2>2. ~Environment /\ ~UNCHANGED vars
    BY <2>1 DEF Environment, Close, Tick, IdentityChange, vars, keyVars
  <2>. QED BY <2>1, <2>2, WorkerKeepsValues, SchedulerKeepsValues, RequestKeepsValues,
              PublishFenced DEF Next, FenceInv, JobsInv
<1>. QED BY <1>1, FenceInvInit, FenceInvNext, PTL DEF Spec, PublishesFresh

-----------------------------------------------------------------------------
(* Close *)

\* With the engine closed enqueueLocked leaves the queue alone.
LEMMA ClosedEnqueue ==
    ASSUME closed, NEW k, NEW r, enqueueLocked(k, r)
    PROVE  queue' = queue
BY DEF enqueueLocked, Enqueues, MayRun

\* Once Close has set the flag, whatever the workers, the scheduler and the
\* requests still do: nothing is published, injected, probed or enqueued (the
\* closed tests of collect, Bind, reserveProbe and enqueueLocked).
THEOREM ClosedIsFinalHolds == Spec => ClosedIsFinal
<1>. DEFINE Quiet == /\ version' = version
                    /\ stamps' = stamps
                    /\ Len(queue') <= Len(queue)
                    /\ \A q \in RequestIDs : carried'[q] \subseteq carried[q] \cup {0}
<1>1. ASSUME TypeOK, closed, NEW w \in WorkerIDs, WorkerStep(w) PROVE Quiet
  <2>0. queue \in Seq(Job) /\ Len(queue) \in Nat
    BY <1>1 DEF TypeOK, JobQueue
  <2>1. version' = version /\ carried' = carried
    BY <1>1 DEF WorkerStep, WorkerExit, Take, ReadPlan, StartAttempt, Describe, ChooseProxy,
                StartProbe, ProbeRejected, ProbeFailed, Harvested, Redescribe, Verified,
                Recheck, Publish, Finish, Current, history
  <2>2. stamps' = stamps
    BY <1>1 DEF WorkerStep, WorkerExit, Take, ReadPlan, StartAttempt, Describe, ChooseProxy,
                StartProbe, reserveProbe, ProbeRejected, ProbeFailed, Harvested, Redescribe,
                Verified, Recheck, Publish, Finish
  <2>3. ASSUME Take(w) PROVE Len(queue') <= Len(queue)
    <3>1. Len(queue') = Len(queue) - 1
      BY <2>0, <2>3, HeadTailProperties, EmptySeq DEF Take
    <3>. QED BY <2>0, <3>1
  <2>4. ASSUME ~Take(w) PROVE queue' = queue
    BY <1>1, <2>4 DEF WorkerStep, WorkerExit, ReadPlan, StartAttempt, Describe, ChooseProxy,
                StartProbe, ProbeRejected, ProbeFailed, Harvested, Redescribe, Verified,
                Recheck, Publish, Finish, keyVars
  <2>. QED BY <2>0, <2>1, <2>2, <2>3, <2>4
<1>2. ASSUME TypeOK, closed, UNCHANGED <<version, stamps, queue>>,
             \A q \in RequestIDs : carried'[q] \subseteq carried[q] \cup {0}
      PROVE  Quiet
  BY <1>2 DEF TypeOK, JobQueue
<1>3. ASSUME TypeOK, closed, SchedulerStep PROVE Quiet
  <2>1. UNCHANGED <<version, stamps, carried>>
    BY <1>3 DEF SchedulerStep, SchedulerExit, BeginSchedule, DiscoveryFailed, DiscoveryApplied,
                Scan, roundVars, history
  <2>2. DueKeys = {}
    BY <1>3 DEF DueKeys, Due, MayRun
  <2>3. queue' = queue
    BY <1>3, <2>2 DEF SchedulerStep, SchedulerExit, BeginSchedule, DiscoveryFailed,
                      DiscoveryApplied, Scan, keyVars
  <2>. QED BY <1>2, <1>3, <2>1, <2>3
<1>4. ASSUME TypeOK, closed, NEW q \in RequestIDs, RequestStep(q) PROVE Quiet
  <2>1. UNCHANGED <<version, stamps>>
    BY <1>4 DEF RequestStep, BindIneligible, BindStart, BindDescribe, BindDecide, Headers,
                ModelMismatch, Complete, roundVars
  <2>2. ~BindMiss(q) /\ ~BindHit(q) /\ \A c \in BOOLEAN : ~BindDeclined(q, c)
    BY <1>4 DEF BindMiss, BindHit, BindDeclined, Serves
  <2>3. queue' = queue
    BY <1>4, <2>2, ClosedEnqueue
       DEF RequestStep, BindIneligible, BindStart, BindDescribe, BindDecide, BindRefused,
           Headers, ModelMismatch, Complete, invalidateLocked, keyVars
  <2>4. \/ carried' = carried
        \/ carried' = [carried EXCEPT ![q] = @ \cup {0}]
        \/ carried' = [carried EXCEPT ![q] = {}]
    BY <1>4, <2>2 DEF RequestStep, BindIneligible, BindStart, BindDescribe, BindDecide,
                      BindRefused, WithoutTicket, Headers, ModelMismatch, Complete, history
  <2>5. \A p \in RequestIDs : carried'[p] \subseteq carried[p] \cup {0}
    BY <1>4, <2>4 DEF TypeOK
  <2>. QED BY <1>2, <1>4, <2>1, <2>3, <2>5
<1>5. ASSUME TypeOK, closed, Environment \/ UNCHANGED vars PROVE Quiet
  <2>1. UNCHANGED <<version, stamps, queue, carried>>
    BY <1>5 DEF Environment, Close, Tick, IdentityChange, vars, keyVars, roundVars, history
  <2>. QED BY <1>2, <1>5, <2>1
<1>6. TypeOK /\ [Next]_vars => [closed => Quiet]_vars
  BY <1>1, <1>3, <1>4, <1>5 DEF Next
<1>. QED BY <1>6, InitType, NextType, PTL DEF Spec, ClosedIsFinal

-----------------------------------------------------------------------------
(* The observation table *)

BoundedInv == IsFiniteSet(Tracked) /\ RequestsBounded

\* With no more requests tracked than before the bound is kept.
LEMMA FewerTracked ==
    ASSUME BoundedInv, Tracked' \subseteq Tracked
    PROVE  BoundedInv'
<1>1. IsFiniteSet(Tracked') /\ Cardinality(Tracked') <= Cardinality(Tracked)
  BY FS_Subset DEF BoundedInv
<1>2. Cardinality(Tracked') \in Nat /\ Cardinality(Tracked) \in Nat /\ MaxPending \in Nat
  BY <1>1, FS_CardinalityType, EngineAssumption DEF BoundedInv
<1>. QED BY <1>1, <1>2 DEF BoundedInv, RequestsBounded

\* A hit tracks one more request, if there was room for it.
LEMMA HitTracks ==
    ASSUME TypeOK, BoundedInv, NEW q \in RequestIDs, BindHit(q)
    PROVE  BoundedInv'
<1>1. Cardinality(Tracked) < MaxPending /\ Cardinality(Tracked) \in Nat /\ MaxPending \in Nat
  BY FS_CardinalityType, EngineAssumption DEF BindHit, RoomForRequest, BoundedInv
<1>2. IsFiniteSet(Tracked \cup {q}) /\ Cardinality(Tracked \cup {q}) <= Cardinality(Tracked) + 1
  BY <1>1, FS_AddElement DEF BoundedInv
<1>3. Tracked' \subseteq Tracked \cup {q}
  <2>1. PICK o : requests' = [requests EXCEPT ![q] = o]
    BY DEF BindHit
  <2>. QED BY <2>1 DEF Tracked, TypeOK
<1>4. IsFiniteSet(Tracked') /\ Cardinality(Tracked') <= Cardinality(Tracked) + 1
  <2>1. IsFiniteSet(Tracked') /\ Cardinality(Tracked') <= Cardinality(Tracked \cup {q})
    BY <1>2, <1>3, FS_Subset
  <2>2. Cardinality(Tracked') \in Nat /\ Cardinality(Tracked \cup {q}) \in Nat
    BY <1>2, <2>1, FS_CardinalityType
  <2>. QED BY <1>1, <1>2, <2>1, <2>2
<1>5. Cardinality(Tracked') \in Nat
  BY <1>4, FS_CardinalityType
<1>. QED BY <1>1, <1>4, <1>5 DEF BoundedInv, RequestsBounded

\* A tombstone takes the place of the observation it was.
LEMMA TombstoneTracked ==
    ASSUME TypeOK, NEW q \in RequestIDs, requests' = Tombstoned(q)
    PROVE  Tracked' \subseteq Tracked
<1>1. CASE q \in Tracked
  BY <1>1 DEF Tombstoned, Tracked, TypeOK
<1>2. CASE q \notin Tracked
  BY <1>2 DEF Tombstoned, Tracked
<1>. QED BY <1>1, <1>2

\* Workers leave the table alone.
LEMMA WorkersLeaveRequests ==
    ASSUME NEW w \in WorkerIDs, WorkerStep(w)
    PROVE  requests' = requests
BY DEF WorkerStep, WorkerExit, Take, ReadPlan, StartAttempt, Describe, ChooseProxy, StartProbe,
       ProbeRejected, ProbeFailed, Harvested, Redescribe, Verified, Recheck, Publish, Finish,
       reqVars

\* Only a hit adds to the table.
LEMMA OthersTrackNoMore ==
    ASSUME TypeOK, [Next]_vars, \A q \in RequestIDs : ~BindHit(q)
    PROVE  Tracked' \subseteq Tracked
<1>1. ASSUME NEW q \in RequestIDs, RequestStep(q) PROVE Tracked' \subseteq Tracked
  <2>1. \/ requests' = requests
        \/ requests' = Tombstoned(q)
        \/ requests' = [requests EXCEPT ![q] = NoObservation]
    BY <1>1 DEF RequestStep, BindIneligible, BindStart, BindDescribe, BindDecide, BindRefused,
                BindMiss, BindDeclined, Headers, ModelMismatch, Complete, reqVars
  <2>2. CASE requests' = [requests EXCEPT ![q] = NoObservation]
    BY <2>2 DEF Tracked, TypeOK
  <2>. QED BY <2>1, <2>2, TombstoneTracked DEF Tracked
<1>2. ASSUME SchedulerStep PROVE Tracked' \subseteq Tracked
  <2>1. CASE Scan
    BY <2>1 DEF Scan, Tracked, Purged
  <2>2. CASE ~Scan
    BY <1>2, <2>2 DEF SchedulerStep, SchedulerExit, BeginSchedule, DiscoveryFailed,
                      DiscoveryApplied, Tracked, reqVars
  <2>. QED BY <2>1, <2>2
<1>3. ASSUME NEW w \in WorkerIDs, WorkerStep(w) PROVE requests' = requests
  BY <1>3, WorkersLeaveRequests
<1>4. ASSUME Environment \/ UNCHANGED vars PROVE requests' = requests
  BY <1>4 DEF Environment, Close, Tick, IdentityChange, vars, reqVars
<1>. QED BY <1>1, <1>2, <1>3, <1>4 DEF Next, Tracked

\* For any max_pending and any number of requests, rebinds, purges and
\* completions, the observation table never outgrows its bound (Bind's test and
\* the tombstones that keep their entry).
THEOREM RequestsBoundedHolds == Spec => []RequestsBounded
<1>1. Init => BoundedInv
  <2>. SUFFICES ASSUME Init PROVE BoundedInv
    OBVIOUS
  <2>1. Tracked = {}
    BY DEF Init, Tracked
  <2>. QED BY <2>1, FS_EmptySet, EngineAssumption DEF BoundedInv, RequestsBounded
<1>2. TypeOK /\ BoundedInv /\ [Next]_vars => BoundedInv'
  BY HitTracks, FewerTracked, OthersTrackNoMore
<1>3. BoundedInv => RequestsBounded
  BY DEF BoundedInv
<1>. QED BY <1>1, <1>2, <1>3, TypeCorrect, PTL DEF Spec

-----------------------------------------------------------------------------
(* Ownership *)

\* In automatic mode only a snapshot of the directory gives a key a plan, and it
\* takes ownership of it.
OwnershipInv ==
    /\ sched = "discover" => AutoAccounts
    /\ AutoAccounts /\ HasSelectors => ownsAllModels \/ Managed \subseteq owned

\* What was verified-only by ownership stays so.
LEMMA OwnershipKept ==
    ASSUME NEW selected, KeepOwnership(selected)
    PROVE  \A k : ownsAllModels \/ k \in owned => ownsAllModels' \/ k \in owned'
BY DEF KeepOwnership

\* A snapshot takes ownership of every key it gives a plan.
LEMMA ApplyOwns ==
    ASSUME NEW snapshot \in Snapshots, applyAccounts(snapshot)
    PROVE  HasSelectors => ownsAllModels' \/ Managed' \subseteq owned'
<1>. DEFINE selected == {k \in Keys : snapshot[AuthOf(k)] # Absent}
<1>1. Managed' \subseteq selected
  BY DEF applyAccounts, Managed, Plans, NoPlan, Absent
<1>2. KeepOwnership(selected)
  BY DEF applyAccounts
<1>. QED BY <1>1, <1>2 DEF KeepOwnership

\* Only a snapshot changes plans or ownership.
LEMMA OthersKeepOwnership ==
    ASSUME [Next]_vars, \A snapshot \in Snapshots : ~DiscoveryApplied(snapshot)
    PROVE  /\ UNCHANGED <<plans, discovered, owned, ownsAllModels>>
           /\ sched' = "discover" => sched = "discover" \/ AutoAccounts
<1>1. ASSUME NEW q \in RequestIDs, RequestStep(q)
      PROVE  UNCHANGED <<plans, discovered, owned, ownsAllModels, sched>>
  BY <1>1 DEF RequestStep, BindIneligible, BindStart, BindDescribe, BindDecide, BindRefused,
              BindMiss, BindHit, BindDeclined, Headers, ModelMismatch, Complete, keyVars,
              schedVars
<1>2. ASSUME NEW w \in WorkerIDs, WorkerStep(w)
      PROVE  UNCHANGED <<plans, discovered, owned, ownsAllModels, sched>>
  BY <1>2 DEF WorkerStep, WorkerExit, Take, ReadPlan, StartAttempt, Describe, ChooseProxy,
              StartProbe, ProbeRejected, ProbeFailed, Harvested, Redescribe, Verified, Recheck,
              Publish, Finish, keyVars, schedVars
<1>3. ASSUME SchedulerStep
      PROVE  /\ UNCHANGED <<plans, discovered, owned, ownsAllModels>>
             /\ sched' = "discover" => AutoAccounts
  BY <1>3 DEF SchedulerStep, SchedulerExit, BeginSchedule, DiscoveryFailed, Scan, keyVars
<1>4. ASSUME Environment \/ UNCHANGED vars
      PROVE  UNCHANGED <<plans, discovered, owned, ownsAllModels, sched>>
  BY <1>4 DEF Environment, Close, Tick, IdentityChange, vars, keyVars, schedVars
<1>. QED BY <1>1, <1>2, <1>3, <1>4 DEF Next

\* Every step keeps the ownership.
LEMMA OwnershipNext == OwnershipInv /\ [Next]_vars => OwnershipInv'
<1>. SUFFICES ASSUME OwnershipInv, [Next]_vars PROVE OwnershipInv'
  OBVIOUS
<1>1. ASSUME NEW snapshot \in Snapshots, DiscoveryApplied(snapshot) PROVE OwnershipInv'
  <2>1. sched' = "scan"
    BY <1>1 DEF DiscoveryApplied
  <2>2. CASE closed
    BY <1>1, <2>1, <2>2 DEF DiscoveryApplied, OwnershipInv, keyVars, Managed
  <2>3. CASE ~closed
    BY <1>1, <2>1, <2>3, ApplyOwns DEF DiscoveryApplied, OwnershipInv
  <2>. QED BY <2>2, <2>3
<1>2. ASSUME \A snapshot \in Snapshots : ~DiscoveryApplied(snapshot) PROVE OwnershipInv'
  BY <1>2, OthersKeepOwnership DEF OwnershipInv, Managed
<1>. QED BY <1>1, <1>2

\* For any sequence of directory snapshots (accounts removed, disabled, listed
\* again, more keys than the bound of the ownership table): a key that was served
\* from verified tickets only stays so (Manages, applyAccounts).
THEOREM ManagedForGoodHolds == Spec => ManagedForGood
<1>1. Init => OwnershipInv
  BY EngineAssumption DEF Init, OwnershipInv, Managed
<1>2. OwnershipInv /\ [Next]_vars
        => [\A k \in Keys : discovered /\ Manages(k) => Manages(k)']_vars
  <2>. SUFFICES ASSUME OwnershipInv, [Next]_vars, NEW k \in Keys, discovered, Manages(k)
                PROVE  Manages(k)'
    OBVIOUS
  <2>1. ASSUME NEW snapshot \in Snapshots, DiscoveryApplied(snapshot) PROVE Manages(k)'
    <3>1. CASE closed
      BY <2>1, <3>1 DEF DiscoveryApplied, Manages, keyVars, Managed
    <3>2. CASE ~closed
      <4>1. AutoAccounts
        BY <2>1 DEF DiscoveryApplied, OwnershipInv
      <4>2. CASE HasSelectors /\ AuthOf(k) \notin SelectorIDs
        <5>1. ownsAllModels \/ k \in owned
          BY <4>1, <4>2 DEF Manages, OwnershipInv
        <5>2. ownsAllModels' \/ k \in owned'
          BY <2>1, <3>2, <5>1, OwnershipKept DEF DiscoveryApplied, applyAccounts
        <5>. QED BY <4>1, <5>2 DEF Manages
      <4>. QED BY <4>1, <4>2 DEF Manages
    <3>. QED BY <3>1, <3>2
  <2>2. ASSUME \A snapshot \in Snapshots : ~DiscoveryApplied(snapshot) PROVE Manages(k)'
    <3>1. UNCHANGED <<plans, discovered, owned, ownsAllModels>>
      BY <2>2, OthersKeepOwnership
    <3>. QED BY <3>1 DEF Manages, Managed
  <2>. QED BY <2>1, <2>2
<1>. QED BY <1>1, <1>2, OwnershipNext, PTL DEF Spec, ManagedForGood

-----------------------------------------------------------------------------
(* Versions *)

Version(k) == records[k].value.version

\* Versions are drawn once: a ticket has one that no other ticket has, and a
\* revoked one is in no record any more.
VersionsUnique ==
    /\ \A k \in Keys : Version(k) <= version
    /\ \A k \in Keys : records[k].value # NoTicket => Version(k) # 0
    /\ \A j, k \in Keys : Version(j) = Version(k) /\ Version(k) # 0 => j = k
    /\ \A b \in blamed : b[1] \in 1..version /\ \A k \in Keys : Version(k) # b[1]

VersionInv == JobsInv /\ VersionsUnique

\* Tickets that stay or go keep versions unique, if what was revoked is gone.
LEMMA UniqueKept ==
    ASSUME TypeOK, VersionsUnique, ValuesKept, version' = version,
           \A b \in blamed' \ blamed : b[1] \in 1..version
                                       /\ \A k \in Keys : records'[k].value.version # b[1]
    PROVE  VersionsUnique'
<1>1. /\ \A k \in Keys : Version(k) \in Nat
      /\ version \in Nat
  BY DEF Version, TypeOK, Record, Ticket
<1>2. \A k \in Keys : \/ records'[k].value = records[k].value
                      \/ records'[k].value = NoTicket
  BY DEF ValuesKept
<1>3. NoTicket.version = 0
  BY DEF NoTicket
<1>4. ASSUME NEW b \in blamed'
      PROVE  b[1] \in 1..version /\ \A k \in Keys : records'[k].value.version # b[1]
  BY <1>1, <1>2, <1>3, <1>4 DEF VersionsUnique, Version
<1>. QED BY <1>1, <1>2, <1>3, <1>4 DEF VersionsUnique, Version

\* A publication draws the next version.
LEMMA PublishUnique ==
    ASSUME TypeOK, VersionsUnique, NEW w \in WorkerIDs, Publish(w)
    PROVE  VersionsUnique'
<1>1. version \in Nat /\ blamed' = blamed
  BY DEF TypeOK, Publish, history
<1>2. CASE ~Current(w)
  BY <1>1, <1>2 DEF Publish, VersionsUnique, Version
<1>3. CASE Current(w)
  <2>1. PICK t : t = NewTicket(w)
    OBVIOUS
  <2>2. PICK k \in Keys : k = wk[w].job.key
    BY <1>3 DEF Current, TypeOK
  <2>3. /\ version' = version + 1
        /\ records' = [records EXCEPT ![k].value = t, ![k].cooldown = 0]
    BY <1>3, <2>1, <2>2 DEF Publish
  <2>4. records'[k].value = t /\ \A j \in Keys \ {k} : records'[j] = records[j]
    <3>1. records[k] \in Record /\ records'[k] = [records[k] EXCEPT !.value = t, !.cooldown = 0]
      BY <2>3 DEF TypeOK
    <3>2. records'[k].value = t
      BY <3>1 DEF Record
    <3>. QED BY <2>3, <3>2 DEF TypeOK
  <2>5. \A j \in Keys : Version(j) \in Nat
    BY DEF Version, TypeOK, Record, Ticket
  <2>6. \A j \in Keys : /\ Version(j)' = IF j = k THEN version + 1 ELSE Version(j)
                        /\ j # k => records'[j].value = records[j].value
    BY <2>1, <2>4 DEF Version, NewTicket
  <2>7. \A j \in Keys : Version(j) <= version
    BY DEF VersionsUnique
  <2>8. /\ \A j \in Keys : Version(j)' <= version + 1
        /\ \A j \in Keys : records'[j].value # NoTicket => Version(j)' # 0
    BY <1>1, <2>5, <2>6, <2>7 DEF VersionsUnique
  <2>9. \A i, j \in Keys : Version(i)' = Version(j)' /\ Version(j)' # 0 => i = j
    BY <1>1, <2>5, <2>6, <2>7 DEF VersionsUnique
  <2>10. \A b \in blamed : b[1] \in 1..version + 1 /\ \A j \in Keys : Version(j)' # b[1]
    BY <1>1, <2>5, <2>6 DEF VersionsUnique
  <2>. QED BY <1>1, <2>3, <2>8, <2>9, <2>10 DEF VersionsUnique
<1>. QED BY <1>2, <1>3

\* A revocation removes the revoked version from the only record that has it.
LEMMA InvalidateUnique ==
    ASSUME TypeOK, VersionsUnique, ValuesKept, NEW q \in RequestIDs, NEW v,
           requests[q] # NoObservation, invalidateLocked(q, v), version' = version
    PROVE  VersionsUnique'
<1>1. CASE ~Refutable(q)
  BY <1>1, UniqueKept DEF invalidateLocked
<1>2. CASE Refutable(q)
  <2>1. PICK k \in Keys : k = requests[q].key
    BY DEF TypeOK, Observation
  <2>2. requests[q].version = Version(k) /\ Version(k) # 0 /\ Version(k) \in Nat
    BY <1>2, <2>1 DEF Refutable, VersionsUnique, Version, TypeOK, Record, Ticket
  <2>3. records'[k].value = NoTicket
    <3>. DEFINE r == [Revoked(records[k]) EXCEPT !.cooldown = 0]
    <3>1. r \in Record /\ r.value = NoTicket
      BY RevokedType DEF TypeOK, Revoked, Record
    <3>2. enqueueLocked(k, r)
      BY <1>2, <2>1 DEF invalidateLocked
    <3>3. PICK x \in {r, [r EXCEPT !.running = TRUE]} : records' = [records EXCEPT ![k] = x]
      BY <3>2 DEF enqueueLocked
    <3>4. x.value = NoTicket
      BY <3>1, <3>3 DEF Record
    <3>. QED BY <3>3, <3>4 DEF TypeOK
  <2>4. \A j \in Keys : records'[j].value.version # Version(k)
    <3>1. \A j \in Keys : records'[j].value \in {records[j].value, NoTicket}
      BY DEF ValuesKept
    <3>2. NoTicket.version = 0
      BY DEF NoTicket
    <3>. QED BY <2>2, <2>3, <3>1, <3>2 DEF VersionsUnique, Version
  <2>5. blamed' = blamed \cup {<<Version(k), v>>}
    BY <1>2, <2>2 DEF invalidateLocked
  <2>6. Version(k) \in 1..version
    BY <2>2 DEF VersionsUnique, TypeOK
  <2>. QED BY <2>4, <2>5, <2>6, UniqueKept
<1>. QED BY <1>1, <1>2

\* Every step keeps versions unique.
LEMMA VersionNext == VersionInv /\ [Next]_vars => VersionInv'
<1>. SUFFICES ASSUME VersionInv, [Next]_vars PROVE VersionInv'
  OBVIOUS
<1>1. JobsInv' /\ JobsInv /\ TypeOK /\ VersionsUnique
  BY JobsInvNext DEF VersionInv, JobsInv
<1>2. ASSUME NEW w \in WorkerIDs, WorkerStep(w) PROVE VersionsUnique'
  <2>1. CASE ~Publish(w)
    <3>1. version' = version /\ blamed' = blamed
      BY <1>2, <2>1 DEF WorkerStep, WorkerExit, Take, ReadPlan, StartAttempt, Describe,
                        ChooseProxy, StartProbe, ProbeRejected, ProbeFailed, Harvested,
                        Redescribe, Verified, Recheck, Finish, history
    <3>. QED BY <1>1, <1>2, <2>1, <3>1, WorkerKeepsValues, UniqueKept
  <2>. QED BY <1>1, <2>1, PublishUnique
<1>3. ASSUME SchedulerStep PROVE VersionsUnique'
  <2>1. version' = version /\ blamed' = blamed
    BY <1>3 DEF SchedulerStep, SchedulerExit, BeginSchedule, DiscoveryFailed, DiscoveryApplied,
                Scan, roundVars, history
  <2>. QED BY <1>1, <1>3, <2>1, SchedulerKeepsValues, UniqueKept
<1>4. ASSUME NEW q \in RequestIDs, RequestStep(q) PROVE VersionsUnique'
  <2>1. version' = version /\ ValuesKept
    BY <1>1, <1>4, RequestKeepsValues
       DEF RequestStep, BindIneligible, BindStart, BindDescribe, BindDecide, Headers,
           ModelMismatch, Complete, roundVars
  <2>2. requests[q].observing \/ q \in Tracked => requests[q] # NoObservation
    BY DEF NoObservation, Tracked
  <2>3. blamed' = blamed \/ \E v : requests[q] # NoObservation /\ invalidateLocked(q, v)
    BY <1>4, <2>2 DEF RequestStep, BindIneligible, BindStart, BindDescribe, BindDecide, Headers,
           ModelMismatch, Complete, history
  <2>4. CASE blamed' = blamed
    BY <1>1, <2>1, <2>4, UniqueKept
  <2>. QED BY <1>1, <2>1, <2>3, <2>4, InvalidateUnique
<1>5. ASSUME Environment \/ UNCHANGED vars PROVE VersionsUnique'
  <2>1. UNCHANGED <<version, blamed, records>>
    BY <1>5 DEF Environment, Close, Tick, IdentityChange, vars, keyVars, roundVars, history
  <2>. QED BY <1>1, <2>1 DEF VersionsUnique, Version
<1>. QED BY <1>1, <1>2, <1>3, <1>4, <1>5 DEF Next, VersionInv

\* For any interleaving of binds, revocations and publications: a version that a
\* response refuted is never injected again, by a Bind that was under way neither
\* (Bind reads the record under the lock that invalidateLocked held).
THEOREM RevokedStaysOutHolds == Spec => RevokedStaysOut
<1>1. Init => VersionInv
  <2>1. Init => VersionsUnique
    BY DEF Init, VersionsUnique, Version, FreshRecord, NoTicket
  <2>. QED BY <2>1, JobsInvInit DEF VersionInv
<1>2. VersionInv /\ [Next]_vars
        => [\A q \in RequestIDs :
              requests'[q] # NoObservation /\ requests'[q].version # requests[q].version
                 => \A b \in blamed : b[1] # requests'[q].version]_vars
  <2>. SUFFICES ASSUME VersionInv, [Next]_vars, NEW q \in RequestIDs, NEW b \in blamed,
                       requests'[q] # NoObservation,
                       requests'[q].version # requests[q].version
                PROVE  b[1] # requests'[q].version
    OBVIOUS
  <2>1. TypeOK
    BY DEF VersionInv, JobsInv
  <2>2. CASE BindHit(q)
    <3>1. PICK k \in Keys : k = binds[q].key
      BY <2>1, <2>2 DEF BindHit, Serves, TypeOK
    <3>2. requests'[q].version = Version(k)
      BY <2>1, <2>2, <3>1 DEF BindHit, TypeOK, Version
    <3>. QED BY <3>2 DEF VersionInv, VersionsUnique
  <2>3. CASE ~BindHit(q)
    <3>1. requests'[q] = requests[q] \/ requests'[q] = NoObservation
          \/ (q \in Tracked /\ requests'[q] = [requests[q] EXCEPT !.observing = FALSE,
                                                                  !.created = now])
      <4>1. ASSUME NEW p \in RequestIDs, RequestStep(p), p # q PROVE requests'[q] = requests[q]
        BY <2>1, <4>1
           DEF RequestStep, BindIneligible, BindStart, BindDescribe, BindDecide, BindRefused,
               BindMiss, BindHit, BindDeclined, Headers, ModelMismatch, Complete, reqVars,
               Tombstoned, TypeOK
      <4>2. ASSUME RequestStep(q)
            PROVE  \/ requests' = requests
                   \/ requests' = Tombstoned(q)
                   \/ requests' = [requests EXCEPT ![q] = NoObservation]
        BY <2>3, <4>2
           DEF RequestStep, BindIneligible, BindStart, BindDescribe, BindDecide, BindRefused,
               BindMiss, BindDeclined, Headers, ModelMismatch, Complete, reqVars
      <4>3. ASSUME SchedulerStep PROVE requests'[q] \in {requests[q], NoObservation}
        BY <4>3 DEF SchedulerStep, SchedulerExit, BeginSchedule, DiscoveryFailed,
                    DiscoveryApplied, Scan, Purged, reqVars
      <4>4. ASSUME Environment \/ UNCHANGED vars \/ \E w \in WorkerIDs : WorkerStep(w)
            PROVE  requests' = requests
        BY <4>4, WorkersLeaveRequests DEF Environment, Close, Tick, IdentityChange, vars, reqVars
      <4>5. requests' = Tombstoned(q)
              => requests'[q] = requests[q]
                 \/ (q \in Tracked /\ requests'[q] = [requests[q] EXCEPT !.observing = FALSE,
                                                                         !.created = now])
        BY <2>1 DEF Tombstoned, TypeOK
      <4>. QED BY <2>1, <4>1, <4>2, <4>3, <4>4, <4>5 DEF Next, TypeOK
    <3>2. requests[q] # NoObservation => requests[q] \in [key : Keys, version : Nat,
                                                    observing : BOOLEAN, created : Nat]
      BY <2>1 DEF TypeOK, Observation
    <3>. QED BY <3>1, <3>2 DEF Tracked
  <2>. QED BY <2>2, <2>3
<1>. QED BY <1>1, <1>2, VersionNext, PTL DEF Spec, RevokedStaysOut

-----------------------------------------------------------------------------
(* What a late response can refute *)

\* While a request has no observation its attempts carried no ticket, and while
\* it is observed they carried none but the observation's.  Both fail once an
\* observation is dropped under a request that goes on.
Watched(q) ==
    /\ q \notin Tracked => carried[q] \subseteq {0}
    /\ requests[q].observing => carried[q] \subseteq {0, requests[q].version}

BlameInv == NoLateBlame /\ \A q \in RequestIDs : Watched(q)

\* No request that has begun an attempt and has not completed loses its
\* observation: schedule purges none of them, because each one completes within
\* two hours of its last Bind.
KeepsActive ==
    \A q \in RequestIDs :
        requests[q] # NoObservation /\ requests'[q] = NoObservation => carried'[q] = {}

\* A request that neither starts an attempt nor changes its observation, except
\* for dropping it when it is not active, stays watched.
LEMMA WatchedKept ==
    ASSUME NEW q \in RequestIDs, Watched(q), KeepsActive, carried'[q] \in {carried[q], {}},
           requests'[q] \in {requests[q], NoObservation}
    PROVE  Watched(q)'
<1>1. ~NoObservation.observing
  BY DEF NoObservation
<1>. QED BY <1>1 DEF Watched, KeepsActive, Tracked

\* A tombstone is an entry that observes nothing.
LEMMA TombstoneStays ==
    ASSUME TypeOK, NEW q \in Tracked, requests' = Tombstoned(q)
    PROVE  q \in Tracked' /\ ~requests'[q].observing
<1>1. requests'[q] = [requests[q] EXCEPT !.observing = FALSE, !.created = now]
  BY DEF Tombstoned, Tracked, TypeOK
<1>2. requests[q] \in [key : Keys, version : Nat, observing : BOOLEAN, created : Nat]
  BY DEF Tracked, TypeOK, Observation
<1>3. ~requests'[q].observing /\ requests'[q].key \in Keys
  BY <1>1, <1>2
<1>. QED BY <1>3, EngineAssumption DEF Tracked, NoObservation, EngineAssumption

\* An attempt without a ticket keeps the request watched; its observation stays,
\* or becomes a tombstone.
LEMMA WithoutTicketWatched ==
    ASSUME TypeOK, NEW q \in RequestIDs, Watched(q), WithoutTicket(q),
           requests' = requests \/ requests' = Tombstoned(q)
    PROVE  Watched(q)'
<1>1. carried'[q] = carried[q] \cup {0}
  BY DEF WithoutTicket, TypeOK
<1>2. CASE requests' = requests
  BY <1>1, <1>2 DEF Watched, Tracked
<1>3. CASE requests' = Tombstoned(q) /\ q \in Tracked
  BY <1>3, TombstoneStays DEF Watched
<1>4. CASE requests' = Tombstoned(q) /\ q \notin Tracked
  BY <1>1, <1>4 DEF Tombstoned, Watched, Tracked
<1>. QED BY <1>2, <1>3, <1>4

\* An injected ticket is observed only by a request whose attempts carried none.
LEMMA HitWatched ==
    ASSUME TypeOK, NEW q \in RequestIDs, Watched(q), BindHit(q)
    PROVE  Watched(q)'
<1>1. PICK k \in Keys : k = binds[q].key
  BY DEF BindHit, Serves, TypeOK
<1>2. PICK v : v = records[k].value.version
  OBVIOUS
<1>3. PICK b \in BOOLEAN : b = (q \notin Tracked)
  OBVIOUS
<1>4. /\ requests'[q] = [key |-> k, version |-> v, observing |-> b, created |-> now]
      /\ carried'[q] = carried[q] \cup {v}
  BY <1>1, <1>2, <1>3 DEF BindHit, TypeOK
<1>5. q \in Tracked'
  BY <1>1, <1>4, EngineAssumption DEF Tracked, NoObservation, EngineAssumption
<1>6. CASE q \in Tracked
  <2>1. ~b
    BY <1>3, <1>6
  <2>2. ~requests'[q].observing
    BY <1>4, <2>1
  <2>. QED BY <1>5, <2>2 DEF Watched
<1>7. CASE q \notin Tracked
  <2>1. carried'[q] \subseteq {0, v} /\ requests'[q].version = v
    BY <1>4, <1>7 DEF Watched
  <2>. QED BY <1>5, <2>1 DEF Watched
<1>. QED BY <1>6, <1>7

\* A revocation blames the ticket of a watched attempt, or of one without a ticket.
LEMMA BlameWatched ==
    ASSUME NoLateBlame, NEW q \in RequestIDs, Watched(q), NEW v \in carried[q],
           invalidateLocked(q, v)
    PROVE  NoLateBlame'
<1>1. CASE Refutable(q)
  <2>1. v \in {0, requests[q].version}
    BY <1>1 DEF Refutable, Watched
  <2>2. blamed' = blamed \cup {<<requests[q].version, v>>}
    BY <1>1 DEF invalidateLocked
  <2>. QED BY <2>1, <2>2 DEF NoLateBlame
<1>2. CASE ~Refutable(q)
  BY <1>2 DEF invalidateLocked, NoLateBlame
<1>. QED BY <1>1, <1>2

\* A step of one request leaves the others alone.
LEMMA RequestsApart ==
    ASSUME TypeOK, NEW q \in RequestIDs, RequestStep(q)
    PROVE  \A p \in RequestIDs \ {q} : requests'[p] = requests[p] /\ carried'[p] = carried[p]
BY DEF RequestStep, BindIneligible, BindStart, BindDescribe, BindDecide, BindRefused, BindMiss,
       BindHit, BindDeclined, WithoutTicket, Tombstoned, Headers, ModelMismatch, Complete,
       reqVars, history, TypeOK

\* A step of the request path keeps its own request watched.
LEMMA RequestWatched ==
    ASSUME TypeOK, NEW q \in RequestIDs, Watched(q), KeepsActive, RequestStep(q)
    PROVE  Watched(q)'
<1>1. ASSUME NEW k \in Keys, BindIneligible(q, k) PROVE Watched(q)'
  BY <1>1, WithoutTicketWatched DEF BindIneligible, reqVars
<1>2. CASE BindDecide(q)
  <2>1. CASE BindHit(q)
    BY <2>1, HitWatched
  <2>2. CASE ~BindHit(q)
    BY <1>2, <2>2, WithoutTicketWatched DEF BindDecide, BindRefused, BindMiss, BindDeclined
  <2>. QED BY <2>1, <2>2
<1>3. ASSUME NEW mismatch \in BOOLEAN, Complete(q, mismatch) PROVE Watched(q)'
  <2>1. carried'[q] = {}
    BY <1>3 DEF Complete, TypeOK
  <2>. QED BY <2>1 DEF Watched
<1>4. CASE carried' = carried /\ requests' = requests
  BY <1>4, WatchedKept
<1>. QED BY <1>1, <1>2, <1>3, <1>4
         DEF RequestStep, BindStart, BindDescribe, Headers, ModelMismatch, reqVars, history

\* Whatever a step of the request path blames was watched.
LEMMA RequestBlames ==
    ASSUME NoLateBlame, NEW q \in RequestIDs, Watched(q), RequestStep(q)
    PROVE  NoLateBlame'
<1>1. \/ blamed' = blamed
      \/ \E v \in carried[q] : invalidateLocked(q, v)
  BY DEF RequestStep, BindIneligible, BindStart, BindDescribe, BindDecide, Headers,
         ModelMismatch, Complete, history
<1>2. blamed' = blamed => NoLateBlame'
  BY DEF NoLateBlame
<1>. QED BY <1>1, <1>2, BlameWatched

\* Only requests start attempts and blame; besides them only a scan changes what
\* is observed, and it only drops observations.
LEMMA OthersBlameNobody ==
    ASSUME [Next]_vars, \A q \in RequestIDs : ~RequestStep(q)
    PROVE  /\ UNCHANGED <<carried, blamed>>
           /\ \/ requests' = requests
              \/ Scan /\ requests' = [q \in RequestIDs |-> Purged(requests[q])]
<1>1. CASE SchedulerStep
  <2>1. CASE Scan
    BY <2>1 DEF Scan, history
  <2>2. CASE ~Scan
    BY <1>1, <2>2 DEF SchedulerStep, SchedulerExit, BeginSchedule, DiscoveryFailed,
                      DiscoveryApplied, reqVars, history
  <2>. QED BY <2>1, <2>2
<1>2. ASSUME NEW w \in WorkerIDs, WorkerStep(w)
      PROVE  UNCHANGED <<carried, blamed, requests>>
  <2>1. UNCHANGED <<carried, blamed>>
    BY <1>2 DEF WorkerStep, WorkerExit, Take, ReadPlan, StartAttempt, Describe, ChooseProxy,
                StartProbe, ProbeRejected, ProbeFailed, Harvested, Redescribe, Verified,
                Recheck, Publish, Finish, history
  <2>. QED BY <1>2, <2>1, WorkersLeaveRequests
<1>3. CASE Environment \/ UNCHANGED vars
  BY <1>3 DEF Environment, Close, Tick, IdentityChange, vars, reqVars, history
<1>. QED BY <1>1, <1>2, <1>3 DEF Next

\* A step that keeps the observations of active requests keeps the invariant.
LEMMA BlameNext == TypeOK /\ BlameInv /\ [Next]_vars /\ KeepsActive => BlameInv'
<1>. SUFFICES ASSUME TypeOK, BlameInv, [Next]_vars, KeepsActive PROVE BlameInv'
  OBVIOUS
<1>1. ASSUME NEW q \in RequestIDs, RequestStep(q) PROVE BlameInv'
  <2>1. NoLateBlame'
    BY <1>1, RequestBlames DEF BlameInv
  <2>2. ASSUME NEW p \in RequestIDs PROVE Watched(p)'
    BY <1>1, <2>2, RequestWatched, RequestsApart, WatchedKept DEF BlameInv
  <2>. QED BY <2>1, <2>2 DEF BlameInv
<1>2. ASSUME \A q \in RequestIDs : ~RequestStep(q) PROVE BlameInv'
  <2>1. UNCHANGED <<carried, blamed>>
        /\ \A q \in RequestIDs : requests'[q] \in {requests[q], NoObservation}
    BY <1>2, OthersBlameNobody DEF Purged
  <2>. QED BY <2>1, WatchedKept DEF BlameInv, NoLateBlame
<1>. QED BY <1>1, <1>2

\* At first nobody has begun an attempt.
LEMMA BlameInit == Init => BlameInv
BY DEF Init, BlameInv, NoLateBlame, Watched, NoObservation, Tracked

\* Requests that complete before their observation is purged: whatever attempts
\* they made, in whatever order responses and binds came, a response revokes a
\* ticket only if its own attempt carried that ticket or none (the tombstones of
\* Bind and the version test of invalidateLocked).
THEOREM NoLateBlameHolds == Spec /\ [][KeepsActive]_vars => []NoLateBlame
<1>1. TypeOK /\ BlameInv /\ [Next]_vars /\ [KeepsActive]_vars => BlameInv'
  <2>1. UNCHANGED vars => KeepsActive
    BY DEF vars, reqVars, KeepsActive
  <2>. QED BY <2>1, BlameNext
<1>2. BlameInv => NoLateBlame
  BY DEF BlameInv
<1>. QED BY <1>1, <1>2, BlameInit, TypeCorrect, PTL DEF Spec

\* Only a purge drops the observation of an active request.
LEMMA RequestsKeepActive ==
    ASSUME TypeOK, NEW q \in RequestIDs, RequestStep(q)
    PROVE  KeepsActive
<1>1. SUFFICES ASSUME q \in Tracked, requests'[q] = NoObservation PROVE carried'[q] = {}
  BY RequestsApart DEF KeepsActive, Tracked
<1>2. ~BindHit(q)
  <2>. SUFFICES ASSUME BindHit(q) PROVE FALSE
    OBVIOUS
  <2>1. binds[q].key \in Keys /\ requests'[q].key = binds[q].key
    BY DEF BindHit, Serves, TypeOK
  <2>. QED BY <1>1, <2>1, EngineAssumption DEF NoObservation, EngineAssumption
<1>3. requests' # requests /\ requests' # Tombstoned(q)
  BY <1>1, TombstoneStays DEF Tracked
<1>4. \E mismatch \in BOOLEAN : Complete(q, mismatch)
  BY <1>2, <1>3 DEF RequestStep, BindIneligible, BindStart, BindDescribe, BindDecide,
                    BindRefused, BindMiss, BindDeclined, Headers, ModelMismatch, reqVars
<1>. QED BY <1>4 DEF Complete, TypeOK

\* An engine younger than PendingTTL purges nothing.
LEMMA NothingPurged == TypeOK /\ [Next]_vars /\ now <= PendingTTL => KeepsActive
<1>. SUFFICES ASSUME TypeOK, [Next]_vars, now <= PendingTTL PROVE KeepsActive
  OBVIOUS
<1>1. CASE \E q \in RequestIDs : RequestStep(q)
  BY <1>1, RequestsKeepActive
<1>2. CASE \A q \in RequestIDs : ~RequestStep(q)
  <2>1. ASSUME NEW q \in RequestIDs PROVE Purged(requests[q]) = requests[q]
    <3>1. requests[q].created \in Nat
      BY DEF TypeOK, Observation, NoObservation
    <3>. QED BY <3>1, EngineAssumption DEF Purged, TypeOK, EngineAssumption
  <2>2. \A q \in RequestIDs : requests'[q] = requests[q]
    BY <1>2, <2>1, OthersBlameNobody
  <2>. QED BY <2>2 DEF KeepsActive
<1>. QED BY <1>1, <1>2

\* Time does not run backwards.
LEMMA TimeGoesOn == TypeOK /\ [Next]_vars => now' \in {now, now + 1}
<1>. SUFFICES ASSUME TypeOK, [Next]_vars PROVE now' \in {now, now + 1}
  OBVIOUS
<1>1. ASSUME NEW w \in WorkerIDs, WorkerStep(w) PROVE now' = now
  BY <1>1 DEF WorkerStep, WorkerExit, Take, ReadPlan, StartAttempt, Describe, ChooseProxy,
              StartProbe, ProbeRejected, ProbeFailed, Harvested, Redescribe, Verified,
              Recheck, Publish, Finish, envVars
<1>2. CASE SchedulerStep
  BY <1>2 DEF SchedulerStep, SchedulerExit, BeginSchedule, DiscoveryFailed, DiscoveryApplied,
              Scan, envVars
<1>3. ASSUME NEW q \in RequestIDs, RequestStep(q) PROVE now' = now
  BY <1>3 DEF RequestStep, BindIneligible, BindStart, BindDescribe, BindDecide, Headers,
              ModelMismatch, Complete, envVars
<1>4. CASE Environment \/ UNCHANGED vars
  BY <1>4 DEF Environment, Close, Tick, IdentityChange, vars, envVars
<1>. QED BY <1>1, <1>2, <1>3, <1>4 DEF Next

\* Nobody has to be trusted to complete in time during the first PendingTTL of an
\* engine: up to then no late response revokes a newer ticket.
THEOREM NoLateBlameEarly == Spec => [](now <= PendingTTL => NoLateBlame)
<1>. DEFINE Early == now <= PendingTTL => BlameInv
<1>1. Init => Early
  BY BlameInit
<1>2. TypeOK /\ Early /\ [Next]_vars => Early'
  <2>. SUFFICES ASSUME TypeOK, Early, [Next]_vars, now' <= PendingTTL PROVE BlameInv'
    OBVIOUS
  <2>1. now <= PendingTTL
    BY TimeGoesOn, EngineAssumption DEF TypeOK, EngineAssumption
  <2>. QED BY <2>1, NothingPurged, BlameNext
<1>3. Early => (now <= PendingTTL => NoLateBlame)
  BY DEF BlameInv
<1>. QED BY <1>1, <1>2, <1>3, TypeCorrect, PTL DEF Spec
=============================================================================
