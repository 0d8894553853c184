--------------------------- MODULE RuntimeProofs ----------------------------
(***************************************************************************)
(* Proofs about the plugin's runtime, for any number of callers, callbacks *)
(* and goroutines.  The invariant says where each lifecycle call stands,   *)
(* and which engines may therefore have goroutines.                        *)
(***************************************************************************)
EXTENDS PluginRuntime, FiniteSetTheorems, TLAPS

\* The call got lifecycleMu and has not returned.
Inside(l) == calls[l].pc \notin {"idle", "lock"}

\* lifecycleMu is a mutex.
OwnerInv == \A l \in Callers : Inside(l) <=> owner = l

\* Plugin g is published and not started yet; it is being replaced.
Starting(g) == \E l \in Callers : calls[l].pc \in {"close", "join", "start"} /\ calls[l].serial = g
Replaced(g) == \E l \in Callers : calls[l].pc \in {"close", "join"} /\ calls[l].old = g

\* Plugin g was not published yet.
Fresh(g) ==
    /\ g # published /\ g \notin closed /\ ~Replaced(g) /\ config[g] = NoConfig
    /\ \A t \in Threads : threads[g][t] = "unborn"

\* A call that has not published yet has a number of its own.
Unpublished(l) == calls[l].pc \in {"lock", "publish"}

SerialsInv ==
    /\ \A g \in Serials : g > made => Fresh(g)
    /\ \A l \in Callers : Unpublished(l) => calls[l].serial <= made
    /\ \A l \in Callers, g \in Serials : Unpublished(l) /\ calls[l].serial = g => Fresh(g)
    /\ \A l, m \in Callers :
          Unpublished(l) /\ Unpublished(m) /\ l # m => calls[l].serial # calls[m].serial

\* What holds where a call stands.
Stage(l) ==
    LET c == calls[l]
    IN  /\ c.op # "configure" => c.config = NoConfig
        /\ c.op # "init" => c.host = NoHost
        /\ c.pc = "publish" => c.op # "init"
        /\ c.pc \in {"close", "join"} => c.op # "init" /\ c.old # c.serial
        /\ c.pc \in {"close", "join", "start"} =>
              c.serial = published /\ config[published] = c.config
        /\ c.pc = "close" => c.old \notin closed
        /\ c.pc = "join" => c.old \in closed
        /\ c.pc = "start" => c.op = "configure"
        /\ c.pc = "drain" => c.op \in {"init", "shutdown"}
        /\ c.pc = "drain" /\ c.op = "shutdown" => config[published] = NoConfig
        /\ Inside(l) /\ c.op = "shutdown" => stopped
        /\ Inside(l) /\ c.op \in {"init", "configure"} => ~stopped

StageInv == \A l \in Callers : Stage(l)

EnginesInv ==
    /\ published \notin closed
    /\ \A g \in Serials :
          /\ Lives(g) => g = published \/ Replaced(g)
          /\ g # published /\ HasEngine(g) => g \in closed \/ Replaced(g)
          /\ ~HasEngine(g) \/ Starting(g) => \A t \in Threads : threads[g][t] = "unborn"
          /\ HasEngine(g) /\ g \notin closed /\ ~Starting(g) => \A t \in Threads : Living(g, t)

GateInv ==
    /\ open <=> api # NoHost
    /\ InHost => open
    /\ ShutdownFinal

Inv == TypeOK /\ OwnerInv /\ SerialsInv /\ StageInv /\ EnginesInv /\ GateInv

-----------------------------------------------------------------------------
(* Types *)

\* A call's record has its type.
LEMMA CallType ==
    ASSUME TypeOK, NEW l \in Callers
    PROVE  /\ calls[l] \in Call
           /\ calls[l].pc \in CallPCs /\ calls[l].op \in Ops
           /\ calls[l].serial \in Serials /\ calls[l].old \in Serials
           /\ calls[l].host \in Hosts \cup {NoHost}
           /\ calls[l].config \in Configs \cup {NoConfig}
BY DEF TypeOK, Call

\* The record of a caller without a call has its type.
LEMMA IdleCallType == IdleCall \in Call
BY RuntimeAssumption DEF IdleCall, Call, CallPCs, Ops, Serials

\* The initial values have their types.
LEMMA TypeInit == Init => TypeOK
<1>. SUFFICES ASSUME Init PROVE TypeOK
  OBVIOUS
<1>1. calls \in [Callers -> Call]
  BY IdleCallType DEF Init
<1>2. foreground \in [Callbacks -> Foreground]
  BY RuntimeAssumption DEF Init, IdleForeground, Foreground, Serials
<1>3. threads \in [Serials -> [Threads -> ThreadPCs]]
  BY DEF Init, ThreadPCs
<1>4. stamps \in Seq(Times) /\ admitted \in Seq(Times)
  BY DEF Init
<1>5. now \in Times /\ made \in Serials /\ published \in Serials
  BY RuntimeAssumption DEF Init, Serials, Times
<1>. QED BY <1>1, <1>2, <1>3, <1>4, <1>5 DEF Init, TypeOK

\* A lifecycle step keeps the types.
LEMMA LifecycleType ==
    ASSUME TypeOK, NEW l \in Callers, Arrives(l) \/ LifecycleStep(l)
    PROVE  TypeOK'
<1>. USE CallType, IdleCallType
<1>1. ASSUME NEW op \in Ops, NEW host \in Hosts \cup {NoHost},
             NEW cfg \in Configs \cup {NoConfig}, Arrive(l, op, host, cfg)
      PROVE  TypeOK'
  <2>1. made + 1 \in Serials
    BY <1>1, RuntimeAssumption DEF Arrive, TypeOK, Serials
  <2>2. [pc |-> "lock", op |-> op, host |-> host, config |-> cfg, serial |-> made + 1, old |-> 0]
          \in Call
    BY <2>1, RuntimeAssumption DEF Call, CallPCs, Serials
  <2>3. calls' \in [Callers -> Call]
    BY <1>1, <2>2 DEF Arrive, TypeOK
  <2>. QED BY <1>1, <2>1, <2>3 DEF Arrive, TypeOK, gateVars, pluginVars, budgetVars
<1>2. CASE Arrives(l)
  BY <1>1, <1>2 DEF Arrives, Ops
<1>3. ASSUME NEW op, NEW pc \in CallPCs, Acquire(l, op, pc), stopped' \in BOOLEAN PROVE TypeOK'
  <2>1. calls' \in [Callers -> Call]
    BY <1>3 DEF Acquire, Goto, TypeOK, Call
  <2>. QED BY <1>3, <2>1 DEF Acquire, TypeOK, gateVars, pluginVars, budgetVars
<1>4. CASE InitHost(l) \/ Configure(l) \/ Quiesce(l) \/ Shutdown(l)
  <2>1. stopped' \in BOOLEAN
    BY <1>4 DEF InitHost, Configure, Quiesce, Shutdown, TypeOK
  <2>. QED BY <1>3, <1>4, <2>1 DEF InitHost, Configure, Quiesce, Shutdown, CallPCs
<1>5. CASE RejectConfigure(l)
  BY <1>5 DEF RejectConfigure, Return, TypeOK, gateVars, pluginVars, budgetVars
<1>6. CASE Publish(l)
  <2>1. calls' \in [Callers -> Call]
    <3>1. [calls[l] EXCEPT !.pc = "close", !.old = published] \in Call
      BY DEF TypeOK, Call, CallPCs
    <3>2. calls' = [calls EXCEPT ![l] = [calls[l] EXCEPT !.pc = "close", !.old = published]]
      BY <1>6 DEF Publish, TypeOK
    <3>. QED BY <3>1, <3>2 DEF TypeOK
  <2>. QED BY <1>6, <2>1 DEF Publish, NextBudget, TypeOK, gateVars
<1>7. CASE CloseOld(l)
  <2>1. calls' \in [Callers -> Call]
    <3>1. [calls[l] EXCEPT !.pc = "join"] \in Call
      BY DEF Call, CallPCs
    <3>. QED BY <1>7, <3>1 DEF CloseOld, Goto, TypeOK
  <2>. QED BY <1>7, <2>1 DEF CloseOld, TypeOK, gateVars, budgetVars
<1>8. CASE Join(l)
  <2>1. calls' \in [Callers -> Call] /\ owner' \in Callers \cup {NoCaller}
    <3>1. ASSUME NEW pc \in CallPCs, Goto(l, pc), UNCHANGED owner
          PROVE  calls' \in [Callers -> Call] /\ owner' \in Callers \cup {NoCaller}
      BY <3>1 DEF Goto, TypeOK, Call
    <3>2. CASE calls[l].op \in {"configure", "shutdown"}
      BY <1>8, <3>1, <3>2 DEF Join, CallPCs
    <3>3. CASE calls[l].op = "quiesce"
      BY <1>8, <3>3 DEF Join, Return, TypeOK
    <3>. QED BY <1>8, <3>2, <3>3 DEF Join
  <2>. QED BY <1>8, <2>1 DEF Join, TypeOK, gateVars, pluginVars, budgetVars
<1>9. CASE Start(l)
  <2>1. threads' \in [Serials -> [Threads -> ThreadPCs]]
    BY <1>9 DEF Start, TypeOK, ThreadPCs
  <2>. QED BY <1>9, <2>1 DEF Start, Return, TypeOK, gateVars, pluginVars, budgetVars
<1>10. CASE Drain(l)
  BY <1>10 DEF Drain, Return, TypeOK, pluginVars, budgetVars
<1>. QED BY <1>2, <1>4, <1>5, <1>6, <1>7, <1>8, <1>9, <1>10 DEF LifecycleStep

\* An engine's goroutine only moves itself.
LEMMA ThreadMoves ==
    ASSUME TypeOK, NEW g \in Serials, NEW t \in Threads, ThreadStep(g, t)
    PROVE  /\ \E pc \in ThreadPCs \ {"unborn"} : threads' = [threads EXCEPT ![g][t] = pc]
           /\ Living(g, t)
           /\ threads'[g][t] = "host" => open
           /\ threads'[g][t] = "exited" => g \in closed
           /\ UNCHANGED <<gateVars, callVars, pluginVars, foreground, budgetVars>>
BY DEF ThreadStep, ThreadCalls, ThreadPasses, ThreadReturns, ThreadExits, ThreadGoto, ThreadPCs,
       Living, TypeOK

\* A step of an engine's goroutine keeps the types.
LEMMA ThreadType ==
    ASSUME TypeOK, NEW g \in Serials, NEW t \in Threads, ThreadStep(g, t) \/ Reserve(g, t)
    PROVE  TypeOK'
<1>1. CASE ThreadStep(g, t)
  <2>1. threads' \in [Serials -> [Threads -> ThreadPCs]]
    <3>1. PICK pc \in ThreadPCs : threads' = [threads EXCEPT ![g][t] = pc]
      BY <1>1, ThreadMoves
    <3>. QED BY <3>1 DEF TypeOK
  <2>. QED BY <1>1, <2>1, ThreadMoves
        DEF TypeOK, gateVars, callVars, pluginVars, budgetVars
<1>2. CASE Reserve(g, t)
  <2>1. stamps' \in Seq(Times)
    <3>1. PICK n \in 0 .. Len(stamps) : stamps' = Append(SubSeq(stamps, n + 1, Len(stamps)), now)
      BY <1>2 DEF Reserve, Budget!Kept
    <3>. QED BY <3>1 DEF TypeOK
  <2>2. admitted' \in Seq(Times)
    BY <1>2 DEF Reserve, TypeOK
  <2>3. UNCHANGED <<gateVars, callVars, pluginVars, threads, foreground, now>>
    BY <1>2 DEF Reserve
  <2>4. UNCHANGED <<gateVars, callVars, pluginVars, threads, foreground, now>> =>
          /\ api' = api /\ open' = open /\ stopped' = stopped /\ owner' = owner
          /\ calls' = calls /\ made' = made /\ published' = published /\ config' = config
          /\ closed' = closed /\ threads' = threads /\ foreground' = foreground /\ now' = now
    BY DEF gateVars, callVars, pluginVars
  <2>. QED BY <2>1, <2>2, <2>3, <2>4 DEF TypeOK
<1>. QED BY <1>1, <1>2

\* A step of a foreground callback keeps the types.
LEMMA CallbackType ==
    ASSUME TypeOK, NEW f \in Callbacks, Dispatch(f) \/ CallbackStep(f)
    PROVE  TypeOK'
<1>1. foreground' \in [Callbacks -> Foreground]
  <2>. DEFINE PCs == {"idle", "run", "await", "host"}
  <2>1. /\ foreground \in [Callbacks -> Foreground] /\ published \in Serials
        /\ MaxHostCalls \in Nat /\ 0 \in Serials
    BY RuntimeAssumption DEF TypeOK, Serials
  <2>2. /\ foreground[f].pc \in PCs /\ foreground[f].plugin \in Serials
        /\ foreground[f].left \in 0..MaxHostCalls
    BY <2>1 DEF Foreground
  <2>3. \A pc \in PCs, g \in Serials, n \in 0..MaxHostCalls :
           [pc |-> pc, plugin |-> g, left |-> n] \in Foreground
    BY DEF Foreground
  <2>4. ASSUME NEW pc \in PCs, NEW n \in 0..MaxHostCalls,
               foreground' = [foreground EXCEPT ![f].pc = pc, ![f].left = n]
        PROVE  foreground' \in [Callbacks -> Foreground]
    BY <2>1, <2>4 DEF Foreground
  <2>5. ASSUME NEW pc \in PCs, foreground' = [foreground EXCEPT ![f].pc = pc]
        PROVE  foreground' \in [Callbacks -> Foreground]
    BY <2>1, <2>5 DEF Foreground
  <2>6. CASE Dispatch(f)
    <3>1. [pc |-> "run", plugin |-> published, left |-> MaxHostCalls] \in Foreground
      BY <2>1, <2>3
    <3>. QED BY <2>1, <2>6, <3>1 DEF Dispatch
  <2>7. CASE CallbackCalls(f)
    <3>1. foreground[f].left - 1 \in 0..MaxHostCalls
      BY <2>1, <2>2, <2>7 DEF CallbackCalls
    <3>2. foreground' = [foreground EXCEPT ![f].pc = "await",
                                           ![f].left = foreground[f].left - 1]
      BY <2>7 DEF CallbackCalls
    <3>. QED BY <2>4, <3>1, <3>2
  <2>8. CASE CallbackPasses(f)
    BY <2>5, <2>8 DEF CallbackPasses, ForegroundGoto
  <2>9. CASE CallbackReturns(f)
    BY <2>5, <2>9 DEF CallbackReturns, ForegroundGoto
  <2>10. CASE CallbackEnds(f)
    <3>1. IdleForeground \in Foreground
      BY <2>1, <2>3 DEF IdleForeground
    <3>. QED BY <2>1, <2>10, <3>1 DEF CallbackEnds
  <2>. QED BY <2>6, <2>7, <2>8, <2>9, <2>10 DEF CallbackStep
<1>2. UNCHANGED <<gateVars, callVars, pluginVars, threads, budgetVars>>
  BY DEF Dispatch, CallbackStep, CallbackCalls, CallbackPasses, CallbackReturns, CallbackEnds
<1>. QED BY <1>1, <1>2 DEF TypeOK, gateVars, callVars, pluginVars, budgetVars

\* The clock keeps the types.
LEMMA TickType == TypeOK /\ Tick => TypeOK'
BY RuntimeAssumption DEF TypeOK, Tick, Times, gateVars, callVars, pluginVars

\* Every step keeps the types.
LEMMA NextType == TypeOK /\ [Next]_vars => TypeOK'
<1>. SUFFICES ASSUME TypeOK, [Next]_vars PROVE TypeOK'
  OBVIOUS
<1>1. CASE UNCHANGED vars
  BY <1>1 DEF vars, TypeOK, gateVars, callVars, pluginVars, budgetVars
<1>. QED BY <1>1, LifecycleType, ThreadType, CallbackType, TickType DEF Next

-----------------------------------------------------------------------------
(* The invariant holds initially and is kept by every lifecycle step. *)

\* The invariant holds before the first call.
LEMMA InvInit == Init => Inv
<1>. SUFFICES ASSUME Init PROVE Inv
  OBVIOUS
<1>1. TypeOK
  BY TypeInit
<1>2. OwnerInv
  BY RuntimeAssumption DEF Init, OwnerInv, Inside, IdleCall
<1>3. SerialsInv
  BY RuntimeAssumption DEF Init, SerialsInv, Fresh, Replaced, Unpublished, IdleCall, Serials
<1>4. StageInv
  BY DEF Init, StageInv, Stage, Inside, IdleCall
<1>5. \A g \in Serials : ~Lives(g) /\ ~HasEngine(g)
  BY DEF Init, Lives, Living, HasEngine
<1>6. EnginesInv
  BY <1>5 DEF Init, EnginesInv
<1>7. GateInv
  BY DEF Init, GateInv, ShutdownFinal, Down, InHost, IdleForeground
<1>. QED BY <1>1, <1>2, <1>3, <1>4, <1>6, <1>7 DEF Inv

\* The invariant without the types.
Rest == OwnerInv /\ SerialsInv /\ StageInv /\ EnginesInv /\ GateInv

\* A call that arrives gets a fresh serial number and touches no plugin.
LEMMA ArriveInv ==
    ASSUME Inv, NEW l \in Callers, Arrives(l)
    PROVE  Rest'
<1>1. PICK op \in Ops, host \in Hosts \cup {NoHost}, cfg \in Configs \cup {NoConfig} :
         /\ Arrive(l, op, host, cfg)
         /\ op # "configure" => cfg = NoConfig
         /\ op # "init" => host = NoHost
  BY DEF Arrives, Ops
<1>2. /\ calls[l].pc = "idle" /\ made' = made + 1 /\ made < MaxCalls
      /\ calls' \in [Callers -> Call]
      /\ calls'[l].pc = "lock" /\ calls'[l].op = op /\ calls'[l].host = host
      /\ calls'[l].config = cfg /\ calls'[l].serial = made + 1
      /\ \A m \in Callers \ {l} : calls'[m] = calls[m]
      /\ UNCHANGED <<api, open, stopped, owner, published, config, closed, threads, foreground>>
  BY <1>1, LifecycleType DEF Arrive, Inv, TypeOK, gateVars, pluginVars, budgetVars
<1>3. OwnerInv'
  BY <1>2 DEF Inv, OwnerInv, Inside
<1>4. \A g \in Serials : Fresh(g)' <=> Fresh(g)
  BY <1>2 DEF Fresh, Replaced
<1>5. SerialsInv'
  <2>1. made + 1 \in Serials /\ Fresh(made + 1)
    BY <1>2, RuntimeAssumption DEF Inv, SerialsInv, TypeOK, Serials
  <2>2. \A m \in Callers : Unpublished(m)' =>
           \/ m = l
           \/ Unpublished(m) /\ calls[m].serial <= made /\ calls'[m] = calls[m]
    BY <1>2 DEF Inv, SerialsInv, Unpublished
  <2>3. made \in Nat /\ \A m \in Callers : calls[m].serial \in Serials /\ calls[m].serial \in Nat
    BY CallType DEF Inv, TypeOK, Serials
  <2>4. \A g \in Serials : g > made' => Fresh(g)'
    BY <1>2, <1>4, <2>3 DEF Inv, SerialsInv, Serials
  <2>5. \A m \in Callers : Unpublished(m)' => calls'[m].serial <= made'
    BY <1>2, <2>2, <2>3 DEF Inv, SerialsInv
  <2>6. \A m \in Callers, g \in Serials :
           Unpublished(m)' /\ calls'[m].serial = g => Fresh(g)'
    BY <1>2, <1>4, <2>1, <2>2 DEF Inv, SerialsInv
  <2>7. \A m, n \in Callers : Unpublished(m)' /\ Unpublished(n)' /\ m # n =>
           calls'[m].serial # calls'[n].serial
    BY <1>2, <2>2, <2>3 DEF Inv, SerialsInv
  <2>. QED BY <2>4, <2>5, <2>6, <2>7 DEF SerialsInv
<1>6. StageInv'
  BY <1>1, <1>2 DEF Inv, StageInv, Stage, Inside
<1>7. EnginesInv'
  BY <1>2 DEF Inv, EnginesInv, Lives, Living, HasEngine, Starting, Replaced
<1>8. GateInv'
  <2>1. Down' => Down
    BY <1>2 DEF Down
  <2>. QED BY <1>2, <2>1 DEF Inv, GateInv, ShutdownFinal, InHost, Lives, Living, HasEngine
<1>. QED BY <1>3, <1>5, <1>6, <1>7, <1>8 DEF Rest

\* The steps that only move one call inside its critical section.
Moves(l, pc) ==
    /\ calls' \in [Callers -> Call]
    /\ calls'[l].pc = pc
    /\ calls'[l].op = calls[l].op /\ calls'[l].host = calls[l].host
    /\ calls'[l].config = calls[l].config /\ calls'[l].serial = calls[l].serial
    /\ \A m \in Callers \ {l} : calls'[m] = calls[m]

\* Getting lifecycleMu keeps the invariant: nobody else is inside.
LEMMA AcquireInv ==
    ASSUME Inv, NEW l \in Callers, InitHost(l) \/ Configure(l) \/ Quiesce(l) \/ Shutdown(l)
    PROVE  Rest'
<1>1. PICK pc \in {"publish", "drain"} :
         /\ Moves(l, pc) /\ calls[l].pc = "lock" /\ owner = NoCaller /\ owner' = l
         /\ pc = "drain" => calls[l].op = "init"
         /\ pc = "publish" => calls[l].op # "init"
         /\ calls[l].op \in {"init", "configure"} => ~stopped'
         /\ calls[l].op = "shutdown" => stopped'
         /\ calls[l].op \in {"configure", "quiesce"} => stopped' = stopped
         /\ UNCHANGED <<made, api, open, published, config, closed, threads, foreground>>
  <2>1. TypeOK'
    BY LifecycleType DEF LifecycleStep, Inv
  <2>2. ASSUME NEW op \in Ops, NEW pc, Acquire(l, op, pc)
        PROVE  /\ Moves(l, pc) /\ calls[l].pc = "lock" /\ owner = NoCaller /\ owner' = l
               /\ calls[l].op = op
               /\ UNCHANGED <<made, api, open, published, config, closed, threads, foreground>>
    BY <2>1, <2>2 DEF Acquire, Goto, Moves, Inv, TypeOK, Call, gateVars, pluginVars
  <2>3. CASE InitHost(l)
    BY <2>2, <2>3 DEF InitHost, Ops
  <2>4. CASE Configure(l)
    BY <2>2, <2>4 DEF Configure, Ops
  <2>5. CASE Quiesce(l)
    BY <2>2, <2>5 DEF Quiesce, Ops
  <2>6. CASE Shutdown(l)
    BY <2>2, <2>6 DEF Shutdown, Ops
  <2>. QED BY <2>3, <2>4, <2>5, <2>6
<1>2. \A m \in Callers : calls[m].pc \in {"idle", "lock"}
  BY <1>1, RuntimeAssumption DEF Inv, OwnerInv, Inside
<1>3. OwnerInv'
  BY <1>1, <1>2 DEF OwnerInv, Inside, Moves
<1>4. SerialsInv'
  <2>1. \A m \in Callers : Unpublished(m)' => Unpublished(m) /\ calls'[m].serial = calls[m].serial
    BY <1>1 DEF Unpublished, Moves
  <2>2. \A g \in Serials : Fresh(g)' <=> Fresh(g)
    BY <1>1, <1>2 DEF Fresh, Replaced, Moves
  <2>3. \A m \in Callers : calls[m].serial \in Serials
    BY CallType DEF Inv
  <2>. QED BY <1>1, <2>1, <2>2, <2>3 DEF Inv, SerialsInv
<1>5. StageInv'
  BY <1>1, <1>2 DEF Inv, StageInv, Stage, Inside, Moves
<1>6. EnginesInv'
  BY <1>1, <1>2 DEF Inv, EnginesInv, Lives, Living, HasEngine, Starting, Replaced, Moves
<1>7. GateInv'
  <2>1. Down' => Down
    <3>1. calls[l].op \in Ops
      BY CallType DEF Inv
    <3>2. Down' => calls[l].op # "shutdown" /\ stopped
      BY <1>1, <3>1 DEF Down, Moves, Ops
    <3>. QED BY <1>2, <3>2 DEF Down
  <2>. QED BY <1>1, <2>1 DEF Inv, GateInv, ShutdownFinal, InHost, Lives, Living, HasEngine
<1>. QED BY <1>3, <1>4, <1>5, <1>6, <1>7 DEF Rest

\* What a return does to the calls: lifecycleMu is free again.
Returns(l) ==
    /\ owner = l /\ owner' = NoCaller
    /\ calls' \in [Callers -> Call]
    /\ calls'[l] = IdleCall
    /\ \A m \in Callers \ {l} : calls'[m] = calls[m] /\ calls[m].pc \in {"idle", "lock"}

\* Only lifecycleMu's holder is beyond the lock.
LEMMA Alone ==
    ASSUME Inv, NEW l \in Callers, Inside(l)
    PROVE  owner = l /\ \A m \in Callers \ {l} : calls[m].pc \in {"idle", "lock"}
BY DEF Inv, OwnerInv, Inside

\* Return leaves the caller idle and the mutex free.
LEMMA ReturnReturns ==
    ASSUME Inv, NEW l \in Callers, Inside(l), Return(l)
    PROVE  Returns(l)
BY Alone, IdleCallType DEF Return, Returns, Inv, TypeOK

\* A refused configuration keeps the invariant: it changes nothing.
LEMMA RejectInv ==
    ASSUME Inv, NEW l \in Callers, RejectConfigure(l)
    PROVE  Rest'
<1>1. /\ owner = NoCaller /\ owner' = NoCaller /\ calls[l].pc = "lock"
      /\ calls'[l] = IdleCall /\ \A m \in Callers \ {l} : calls'[m] = calls[m]
      /\ UNCHANGED <<stopped, made, api, open, published, config, closed, threads, foreground>>
  BY DEF RejectConfigure, Return, Inv, TypeOK, gateVars, pluginVars
<1>2. \A m \in Callers : calls[m].pc \in {"idle", "lock"}
  BY <1>1, RuntimeAssumption DEF Inv, OwnerInv, Inside
<1>3. OwnerInv'
  BY <1>1, <1>2, RuntimeAssumption DEF OwnerInv, Inside, IdleCall
<1>4. SerialsInv'
  <2>1. \A m \in Callers : Unpublished(m)' => m # l /\ Unpublished(m)
    BY <1>1 DEF Unpublished, IdleCall
  <2>2. \A g \in Serials : Fresh(g)' <=> Fresh(g)
    BY <1>1, <1>2 DEF Fresh, Replaced, IdleCall
  <2>. QED BY <1>1, <2>1, <2>2 DEF Inv, SerialsInv
<1>5. StageInv'
  BY <1>1, <1>2 DEF Inv, StageInv, Stage, Inside, IdleCall
<1>6. EnginesInv'
  BY <1>1, <1>2 DEF Inv, EnginesInv, Lives, Living, HasEngine, Starting, Replaced, IdleCall
<1>7. GateInv'
  <2>1. Down' => Down
    BY <1>1, <1>2 DEF Down
  <2>. QED BY <1>1, <2>1 DEF Inv, GateInv, ShutdownFinal, InHost, Lives, Living, HasEngine
<1>. QED BY <1>3, <1>4, <1>5, <1>6, <1>7 DEF Rest

\* Publishing keeps the invariant: the old plugin is noted for its Close.
LEMMA PublishInv ==
    ASSUME Inv, NEW l \in Callers, Publish(l)
    PROVE  Rest'
<1>0. PICK s \in Serials, o \in Serials : s = calls[l].serial /\ o = published
  BY CallType DEF Inv, TypeOK
<1>1. /\ calls[l].pc = "publish" /\ published' = s
      /\ config' = [config EXCEPT ![s] = calls[l].config]
      /\ Moves(l, "close") /\ calls'[l].old = o
      /\ UNCHANGED <<closed, stopped, owner, made, api, open, threads, foreground>>
  <2>1. TypeOK'
    BY LifecycleType DEF LifecycleStep, Inv
  <2>. QED BY <1>0, <2>1 DEF Publish, Moves, Inv, TypeOK, Call, gateVars
<1>2. /\ owner = l /\ \A m \in Callers \ {l} : calls[m].pc \in {"idle", "lock"}
  BY <1>1, Alone DEF Inside
<1>3. Fresh(s) /\ s <= made
  BY <1>0, <1>1, CallType DEF Inv, SerialsInv, Unpublished
<1>4. /\ \A g \in Serials \ {s} : config'[g] = config[g]
      /\ config'[s] = calls[l].config
  BY <1>1, <1>3 DEF Inv, TypeOK
<1>5. o # s /\ o \notin closed
  BY <1>0, <1>3 DEF Inv, TypeOK, Fresh, EnginesInv
<1>6. OwnerInv'
  BY <1>1, <1>2 DEF Inv, OwnerInv, Inside, Moves
<1>7. SerialsInv'
  <2>1. \A m \in Callers : Unpublished(m)' => m # l /\ Unpublished(m) /\ calls'[m] = calls[m]
    BY <1>1 DEF Unpublished, Moves
  <2>2. \A g \in Serials \ {s} : Fresh(g) => Fresh(g)'
    BY <1>0, <1>1, <1>2, <1>3, <1>4 DEF Fresh, Replaced, Moves
  <2>3. \A m \in Callers : Unpublished(m) /\ m # l => calls[m].serial # s
    BY <1>0, <1>1 DEF Inv, SerialsInv, Unpublished
  <2>4. \A g \in Serials : g > made => g # s
    BY <1>3 DEF Inv, TypeOK, Serials
  <2>. QED BY <1>1, <2>1, <2>2, <2>3, <2>4 DEF Inv, SerialsInv
<1>8. StageInv'
  <2>1. Stage(l)'
    <3>1. Stage(l)
      BY DEF Inv, StageInv
    <3>. QED BY <1>0, <1>1, <1>4, <1>5, <3>1 DEF Stage, Moves, Inside
  <2>2. ASSUME NEW m \in Callers, m # l PROVE Stage(m)'
    <3>1. Stage(m) /\ calls'[m] = calls[m] /\ calls[m].pc \in {"idle", "lock"}
      BY <1>1, <1>2, <2>2 DEF Inv, StageInv, Moves
    <3>. QED BY <3>1 DEF Stage, Inside
  <2>. QED BY <2>1, <2>2 DEF StageInv
<1>9. EnginesInv'
  <2>1. published' \notin closed'
    BY <1>1, <1>3 DEF Fresh
  <2>2. \A g \in Serials : (Starting(g)' <=> g = s) /\ ~Starting(g) /\ ~Replaced(g)
    BY <1>0, <1>1, <1>2 DEF Starting, Replaced, Moves
  <2>3. Replaced(o)'
    BY <1>1 DEF Replaced, Moves
  <2>4. ASSUME NEW g \in Serials
        PROVE  /\ Lives(g)' => g = published' \/ Replaced(g)'
               /\ g # published' /\ HasEngine(g)' => g \in closed' \/ Replaced(g)'
               /\ ~HasEngine(g)' \/ Starting(g)' => \A t \in Threads : threads'[g][t] = "unborn"
               /\ HasEngine(g)' /\ g \notin closed' /\ ~Starting(g)' =>
                     \A t \in Threads : Living(g, t)'
    <3>1. CASE g = s
      BY <1>1, <1>3, <2>2, <3>1 DEF Fresh, Lives, Living
    <3>2. CASE g # s
      <4>1. (HasEngine(g)' <=> HasEngine(g)) /\ (Lives(g)' <=> Lives(g))
            /\ \A t \in Threads : Living(g, t)' <=> Living(g, t)
        BY <1>1, <1>4, <3>2 DEF HasEngine, Lives, Living
      <4>. QED BY <1>0, <1>1, <2>2, <2>3, <3>2, <4>1 DEF Inv, EnginesInv
    <3>. QED BY <3>1, <3>2
  <2>. QED BY <2>1, <2>4 DEF EnginesInv
<1>10. GateInv'
  <2>1. Down' => Down /\ calls[l].op # "shutdown"
    BY <1>1, <1>2 DEF Down, Moves
  <2>2. Down => calls[l].op = "quiesce"
    BY <1>1, <2>1, CallType DEF Down, Inv, StageInv, Stage, Inside, Ops
  <2>3. Down' => ~HasEngine(s)'
    BY <1>4, <2>1, <2>2 DEF Inv, StageInv, Stage, HasEngine
  <2>4. \A g \in Serials : Lives(g)' <=> Lives(g)
    BY <1>1 DEF Lives, Living
  <2>5. InHost' <=> InHost
    BY <1>1 DEF InHost
  <2>6. (~HasEngine(published))' <=> ~HasEngine(s)'
    BY <1>1 DEF HasEngine
  <2>. QED BY <1>1, <2>1, <2>3, <2>4, <2>5, <2>6 DEF Inv, GateInv, ShutdownFinal
<1>. QED BY <1>6, <1>7, <1>8, <1>9, <1>10 DEF Rest

\* Closing the old plugin keeps the invariant: the published one is another.
LEMMA CloseInv ==
    ASSUME Inv, NEW l \in Callers, CloseOld(l)
    PROVE  Rest'
<1>0. PICK o \in Serials, s \in Serials : o = calls[l].old /\ s = calls[l].serial
  BY CallType DEF Inv
<1>1. /\ calls[l].pc = "close" /\ Moves(l, "join") /\ calls'[l].old = o
      /\ closed' = closed \cup {o}
      /\ UNCHANGED <<stopped, owner, made, api, open, published, config, threads, foreground>>
  <2>1. TypeOK'
    BY LifecycleType DEF LifecycleStep, Inv
  <2>. QED BY <1>0, <2>1 DEF CloseOld, Goto, Moves, Inv, TypeOK, Call, gateVars
<1>2. /\ owner = l /\ \A m \in Callers \ {l} : calls[m].pc \in {"idle", "lock"}
  BY <1>1, Alone DEF Inside
<1>3. /\ s = published /\ o # s /\ calls[l].op # "init" /\ config[published] = calls[l].config
  BY <1>0, <1>1 DEF Inv, StageInv, Stage
<1>4. OwnerInv'
  BY <1>1, <1>2 DEF Inv, OwnerInv, Inside, Moves
<1>5. \A g \in Serials : (Starting(g)' <=> g = s) /\ (Replaced(g)' <=> g = o)
                        /\ (Starting(g) <=> g = s) /\ (Replaced(g) <=> g = o)
  BY <1>0, <1>1, <1>2 DEF Starting, Replaced, Moves
<1>6. SerialsInv'
  <2>1. \A g \in Serials : Fresh(g) => Fresh(g)'
    BY <1>1, <1>5 DEF Fresh
  <2>2. \A m \in Callers : Unpublished(m)' => Unpublished(m) /\ calls'[m] = calls[m]
    BY <1>1 DEF Unpublished, Moves
  <2>. QED BY <1>1, <2>1, <2>2 DEF Inv, SerialsInv
<1>7. StageInv'
  <2>1. Stage(l)'
    <3>1. Stage(l)
      BY DEF Inv, StageInv
    <3>. QED BY <1>0, <1>1, <3>1 DEF Stage, Moves, Inside
  <2>2. ASSUME NEW m \in Callers, m # l PROVE Stage(m)'
    <3>1. Stage(m) /\ calls'[m] = calls[m] /\ calls[m].pc \in {"idle", "lock"}
      BY <1>1, <1>2, <2>2 DEF Inv, StageInv, Moves
    <3>. QED BY <3>1 DEF Stage, Inside
  <2>. QED BY <2>1, <2>2 DEF StageInv
<1>8. EnginesInv'
  <2>1. published' \notin closed'
    BY <1>1, <1>3 DEF Inv, EnginesInv
  <2>2. \A g \in Serials : (HasEngine(g)' <=> HasEngine(g)) /\ (Lives(g)' <=> Lives(g))
            /\ \A t \in Threads : Living(g, t)' <=> Living(g, t)
    BY <1>1 DEF HasEngine, Lives, Living
  <2>. QED BY <1>1, <1>5, <2>1, <2>2 DEF Inv, EnginesInv
<1>9. GateInv'
  <2>1. Down' => Down
    BY <1>1, <1>2 DEF Down, Moves
  <2>2. \A g \in Serials : (Lives(g)' <=> Lives(g)) /\ (HasEngine(g)' <=> HasEngine(g))
    BY <1>1 DEF Lives, Living, HasEngine
  <2>3. HasEngine(published)' <=> HasEngine(published)
    BY <1>1 DEF HasEngine
  <2>. QED BY <1>1, <2>1, <2>2, <2>3 DEF Inv, GateInv, ShutdownFinal, InHost
<1>. QED BY <1>4, <1>6, <1>7, <1>8, <1>9 DEF Rest

\* A call that joined the old engine finds no goroutine of any engine.
LEMMA NobodyLives ==
    ASSUME Inv, NEW l \in Callers, calls[l].pc \in {"join", "start"},
           calls[l].pc = "join" => ~Lives(calls[l].old)
    PROVE  \A g \in Serials : ~Lives(g)
<1>1. \A m \in Callers \ {l} : calls[m].pc \in {"idle", "lock"}
  BY Alone DEF Inside
<1>2. calls[l].serial = published /\ published \in Serials
  BY DEF Inv, StageInv, Stage, TypeOK
<1>3. Starting(published)
  BY <1>2 DEF Starting
<1>4. ~Lives(published)
  BY <1>2, <1>3 DEF Inv, EnginesInv, Lives, Living
<1>5. \A g \in Serials : Replaced(g) => ~Lives(g)
  BY <1>1 DEF Replaced
<1>. QED BY <1>4, <1>5 DEF Inv, EnginesInv

\* The end of Close's wait keeps the invariant: no goroutine is left.
LEMMA JoinInv ==
    ASSUME Inv, NEW l \in Callers, Join(l)
    PROVE  Rest'
<1>0. PICK o \in Serials, s \in Serials : o = calls[l].old /\ s = calls[l].serial
  BY CallType DEF Inv
<1>1. /\ calls[l].pc = "join" /\ ~Lives(o)
      /\ calls' \in [Callers -> Call]
      /\ UNCHANGED <<stopped, made, api, open, published, config, closed, threads, foreground>>
  <2>1. TypeOK'
    BY LifecycleType DEF LifecycleStep, Inv
  <2>. QED BY <1>0, <2>1 DEF Join, Joined, TypeOK, gateVars, pluginVars
<1>2. /\ owner = l /\ \A m \in Callers \ {l} : calls[m].pc \in {"idle", "lock"}
  BY <1>1, Alone DEF Inside
<1>3. \/ Moves(l, "start") /\ owner' = owner /\ calls[l].op = "configure"
      \/ Moves(l, "drain") /\ owner' = owner /\ calls[l].op = "shutdown"
      \/ Returns(l) /\ calls[l].op = "quiesce"
  <2>1. CASE calls[l].op = "quiesce" /\ Return(l)
    BY <1>1, <2>1, ReturnReturns DEF Inside
  <2>2. ASSUME NEW pc, Goto(l, pc) PROVE Moves(l, pc)
    BY <1>1, <2>2 DEF Goto, Moves, Inv, TypeOK, Call
  <2>. QED BY <2>1, <2>2 DEF Join
<1>4. \A g \in Serials : ~Lives(g)
  BY <1>0, <1>1, NobodyLives
<1>5. /\ s = published /\ o \in closed /\ o # s /\ config[published] = calls[l].config
      /\ \A g \in Serials : (Starting(g) <=> g = s) /\ (Replaced(g) <=> g = o)
  BY <1>0, <1>1, <1>2 DEF Inv, StageInv, Stage, Starting, Replaced
<1>6. OwnerInv'
  BY <1>2, <1>3, RuntimeAssumption DEF OwnerInv, Inside, Moves, Returns, IdleCall
<1>7. \A m \in Callers \ {l} : calls'[m] = calls[m]
  BY <1>3 DEF Moves, Returns
<1>8. SerialsInv'
  <2>1. \A g \in Serials : Fresh(g) => Fresh(g)'
    <3>1. \A g \in Serials : ~Replaced(g)'
      BY <1>2, <1>3, <1>7 DEF Replaced, Moves, Returns, IdleCall
    <3>. QED BY <1>1, <3>1 DEF Fresh
  <2>2. \A m \in Callers : Unpublished(m)' => Unpublished(m) /\ calls'[m] = calls[m]
    BY <1>3 DEF Unpublished, Moves, Returns, IdleCall
  <2>. QED BY <1>1, <2>1, <2>2 DEF Inv, SerialsInv
<1>9. StageInv'
  <2>1. Stage(l)'
    <3>1. Stage(l)
      BY DEF Inv, StageInv
    <3>2. CASE Moves(l, "start") /\ calls[l].op = "configure"
      BY <1>0, <1>1, <1>5, <3>1, <3>2 DEF Stage, Moves, Inside
    <3>3. CASE Moves(l, "drain") /\ calls[l].op = "shutdown"
      BY <1>0, <1>1, <1>5, <3>1, <3>3 DEF Stage, Moves, Inside
    <3>4. CASE Returns(l)
      BY <3>4 DEF Stage, Returns, IdleCall, Inside
    <3>. QED BY <1>3, <3>2, <3>3, <3>4
  <2>2. ASSUME NEW m \in Callers, m # l PROVE Stage(m)'
    <3>1. Stage(m) /\ calls'[m] = calls[m] /\ calls[m].pc \in {"idle", "lock"}
      BY <1>2, <1>7, <2>2 DEF Inv, StageInv
    <3>. QED BY <3>1 DEF Stage, Inside
  <2>. QED BY <2>1, <2>2 DEF StageInv
<1>10. \A g \in Serials : /\ (HasEngine(g)' <=> HasEngine(g)) /\ (Lives(g)' <=> Lives(g))
                         /\ \A t \in Threads : Living(g, t)' <=> Living(g, t)
  BY <1>1 DEF HasEngine, Lives, Living
<1>11. EnginesInv'
  <2>1. calls[l].op # "configure" => ~HasEngine(s)
    BY <1>0, <1>5 DEF Inv, StageInv, Stage, HasEngine
  <2>2. \A g \in Serials : Starting(g)' => g = s
    BY <1>0, <1>2, <1>3, <1>7 DEF Starting, Moves, Returns, IdleCall
  <2>3. ~Starting(s)' => calls[l].op # "configure"
    BY <1>0, <1>3 DEF Starting, Moves
  <2>. QED BY <1>1, <1>4, <1>5, <1>10, <2>1, <2>2, <2>3 DEF Inv, EnginesInv
<1>12. GateInv'
  <2>1. Down' => Down
    BY <1>1, <1>2, <1>3, <1>7 DEF Down, Moves, Returns, IdleCall
  <2>2. HasEngine(published)' <=> HasEngine(published)
    BY <1>1 DEF HasEngine
  <2>. QED BY <1>1, <1>10, <2>1, <2>2 DEF Inv, GateInv, ShutdownFinal, InHost
<1>. QED BY <1>6, <1>8, <1>9, <1>11, <1>12 DEF Rest

\* Starting the published engine keeps the invariant: it is the only one.
LEMMA StartInv ==
    ASSUME Inv, NEW l \in Callers, Start(l)
    PROVE  Rest'
<1>0. PICK s \in Serials : s = calls[l].serial
  BY CallType DEF Inv
<1>1. /\ calls[l].pc = "start" /\ Returns(l)
      /\ threads' = IF HasEngine(s) THEN [threads EXCEPT ![s] = [t \in Threads |-> "run"]]
                    ELSE threads
      /\ UNCHANGED <<stopped, made, api, open, published, config, closed, foreground>>
  BY <1>0, ReturnReturns DEF Start, Inside, gateVars, pluginVars
<1>2. s = published /\ \A m \in Callers \ {l} : calls[m].pc \in {"idle", "lock"}
  BY <1>0, <1>1, Alone DEF Inside, Inv, StageInv, Stage
<1>3. /\ \A g \in Serials \ {s} : threads'[g] = threads[g]
      /\ \A t \in Threads : threads'[s][t] = IF HasEngine(s) THEN "run" ELSE threads[s][t]
  BY <1>1 DEF Inv, TypeOK
<1>4. \A g \in Serials : ~Lives(g) /\ (Starting(g) <=> g = s) /\ ~Replaced(g)
  BY <1>0, <1>1, <1>2, NobodyLives DEF Starting, Replaced
<1>5. \A g \in Serials : ~Starting(g)' /\ ~Replaced(g)'
  BY <1>1, <1>2 DEF Starting, Replaced, Returns, IdleCall
<1>6. \A g \in Serials : HasEngine(g)' <=> HasEngine(g)
  BY <1>1 DEF HasEngine
<1>7. OwnerInv'
  BY <1>1, <1>2, RuntimeAssumption DEF OwnerInv, Inside, Returns, IdleCall
<1>8. SerialsInv'
  <2>1. \A g \in Serials : Fresh(g) => Fresh(g)'
    BY <1>1, <1>2, <1>3, <1>5 DEF Fresh
  <2>2. \A m \in Callers : Unpublished(m)' => Unpublished(m) /\ calls'[m] = calls[m]
    BY <1>1 DEF Unpublished, Returns, IdleCall
  <2>. QED BY <1>1, <2>1, <2>2 DEF Inv, SerialsInv
<1>9. StageInv'
  BY <1>1 DEF Inv, StageInv, Stage, Inside, Returns, IdleCall
<1>10. EnginesInv'
  <2>1. UNCHANGED <<published, closed>> /\ published = s /\ s \notin closed
    BY <1>1, <1>2 DEF Inv, EnginesInv
  <2>2. ASSUME NEW g \in Serials, g # s, HasEngine(g) PROVE g \in closed
    BY <1>4, <2>1, <2>2 DEF Inv, EnginesInv
  <2>3. ASSUME NEW g \in Serials, g # s PROVE ~Lives(g)'
    BY <1>3, <1>4, <2>3 DEF Lives, Living
  <2>4. ASSUME NEW g \in Serials, ~HasEngine(g) PROVE \A t \in Threads : threads'[g][t] = "unborn"
    <3>1. \A t \in Threads : threads[g][t] = "unborn"
      BY <2>4 DEF Inv, EnginesInv
    <3>. QED BY <1>3, <2>4, <3>1
  <2>5. HasEngine(s) => \A t \in Threads : Living(s, t)'
    BY <1>3 DEF Living
  <2>. QED BY <1>5, <1>6, <2>1, <2>2, <2>3, <2>4, <2>5 DEF EnginesInv
<1>11. GateInv'
  <2>1. ~Down'
    <3>1. ~stopped
      BY <1>1 DEF Inv, StageInv, Stage, Inside
    <3>. QED BY <1>1, <3>1 DEF Down
  <2>2. InHost' => InHost
    <3>1. foreground' = foreground
      BY <1>1
    <3>2. \A g \in Serials, t \in Threads : threads'[g][t] = "host" => threads[g][t] = "host"
      BY <1>3
    <3>. QED BY <3>1, <3>2 DEF InHost
  <2>3. UNCHANGED <<api, open>>
    BY <1>1
  <2>4. ShutdownFinal'
    BY <2>1 DEF ShutdownFinal
  <2>5. InHost' => open'
    BY <2>2, <2>3 DEF Inv, GateInv
  <2>. QED BY <2>3, <2>4, <2>5 DEF Inv, GateInv
<1>. QED BY <1>7, <1>8, <1>9, <1>10, <1>11 DEF Rest

\* Draining the gate keeps the invariant: nobody is inside the host.
LEMMA DrainInv ==
    ASSUME Inv, NEW l \in Callers, Drain(l)
    PROVE  Rest'
<1>1. /\ calls[l].pc = "drain" /\ Returns(l) /\ ~InHost
      /\ api' = calls[l].host /\ open' = (calls[l].host # NoHost)
      /\ UNCHANGED <<stopped, made, published, config, closed, threads, foreground>>
  BY ReturnReturns DEF Drain, Drained, Inside, pluginVars
<1>2. \A m \in Callers \ {l} : calls[m].pc \in {"idle", "lock"}
  BY <1>1, Alone DEF Inside
<1>3. \A g \in Serials : ~Starting(g) /\ ~Replaced(g) /\ ~Starting(g)' /\ ~Replaced(g)'
  BY <1>1, <1>2 DEF Starting, Replaced, Returns, IdleCall
<1>4. \A g \in Serials : /\ (HasEngine(g)' <=> HasEngine(g)) /\ (Lives(g)' <=> Lives(g))
                        /\ \A t \in Threads : Living(g, t)' <=> Living(g, t)
  BY <1>1 DEF HasEngine, Lives, Living
<1>5. OwnerInv'
  BY <1>1, <1>2, RuntimeAssumption DEF OwnerInv, Inside, Returns, IdleCall
<1>6. SerialsInv'
  <2>1. \A g \in Serials : Fresh(g) => Fresh(g)'
    BY <1>1, <1>3 DEF Fresh
  <2>2. \A m \in Callers : Unpublished(m)' => Unpublished(m) /\ calls'[m] = calls[m]
    BY <1>1 DEF Unpublished, Returns, IdleCall
  <2>. QED BY <1>1, <2>1, <2>2 DEF Inv, SerialsInv
<1>7. StageInv'
  BY <1>1, <1>2 DEF Inv, StageInv, Stage, Inside, Returns, IdleCall
<1>8. EnginesInv'
  BY <1>1, <1>3, <1>4 DEF Inv, EnginesInv
<1>9. GateInv'
  <2>1. Stage(l) /\ calls[l].op \in {"init", "shutdown"}
    BY <1>1 DEF Inv, StageInv, Stage
  <2>2. CASE calls[l].op = "init"
    <3>1. ~Down'
      BY <1>1, <2>1, <2>2 DEF Stage, Inside, Down
    <3>2. ShutdownFinal'
      BY <3>1 DEF ShutdownFinal
    <3>3. ~InHost'
      BY <1>1 DEF InHost
    <3>. QED BY <1>1, <3>2, <3>3 DEF GateInv
  <2>3. CASE calls[l].op = "shutdown"
    <3>1. config[published] = NoConfig /\ calls[l].host = NoHost
      BY <1>1, <2>1, <2>3 DEF Stage
    <3>2. ~HasEngine(published) /\ ~HasEngine(published)'
      BY <1>1, <3>1 DEF HasEngine
    <3>3. ~Lives(published)
      BY <3>2 DEF Inv, EnginesInv, TypeOK, Lives, Living
    <3>4. \A g \in Serials : ~Lives(g)
      BY <1>3, <3>3 DEF Inv, EnginesInv
    <3>5. ~InHost'
      BY <1>1 DEF InHost
    <3>6. api' = NoHost /\ open' = FALSE
      BY <1>1, <3>1
    <3>. QED BY <1>4, <3>2, <3>4, <3>5, <3>6 DEF GateInv, ShutdownFinal
  <2>. QED BY <2>1, <2>2, <2>3
<1>. QED BY <1>5, <1>6, <1>7, <1>8, <1>9 DEF Rest

\* The same for a step of an engine's goroutine ...
LEMMA ThreadInv ==
    ASSUME Inv, NEW g \in Serials, NEW t \in Threads, ThreadStep(g, t)
    PROVE  Rest'
<1>1. PICK pc \in ThreadPCs \ {"unborn"} : threads' = [threads EXCEPT ![g][t] = pc]
  BY ThreadMoves DEF Inv
<1>2. /\ threads'[g][t] = pc /\ Living(g, t)
      /\ pc = "host" => open
      /\ pc = "exited" => g \in closed
      /\ UNCHANGED <<api, open, stopped, owner, calls, made, published, config, closed, foreground>>
  BY <1>1, ThreadMoves DEF Inv, TypeOK, gateVars, callVars, pluginVars
<1>3. /\ \A h \in Serials \ {g} : threads'[h] = threads[h]
      /\ \A u \in Threads \ {t} : threads'[g][u] = threads[g][u]
  BY <1>1 DEF Inv, TypeOK
<1>4. \A h \in Serials : /\ (Starting(h)' <=> Starting(h)) /\ (Replaced(h)' <=> Replaced(h))
                        /\ (HasEngine(h)' <=> HasEngine(h))
  BY <1>2 DEF Starting, Replaced, HasEngine
<1>5. HasEngine(g) /\ ~Starting(g) /\ ~Fresh(g) /\ Lives(g)
  BY <1>2 DEF Inv, EnginesInv, Living, Fresh, Lives
<1>6. OwnerInv'
  BY <1>2 DEF Inv, OwnerInv, Inside
<1>7. SerialsInv'
  <2>1. \A h \in Serials : Fresh(h) => Fresh(h)'
    BY <1>2, <1>3, <1>4, <1>5 DEF Fresh
  <2>2. \A m \in Callers : Unpublished(m)' <=> Unpublished(m)
    BY <1>2 DEF Unpublished
  <2>. QED BY <1>2, <2>1, <2>2 DEF Inv, SerialsInv
<1>8. StageInv'
  BY <1>2 DEF Inv, StageInv, Stage, Inside
<1>9. EnginesInv'
  <2>1. \A h \in Serials \ {g} : (Lives(h)' <=> Lives(h)) /\
                                \A u \in Threads : Living(h, u)' <=> Living(h, u)
    BY <1>3 DEF Lives, Living
  <2>2. \A u \in Threads \ {t} : Living(g, u)' <=> Living(g, u)
    BY <1>3 DEF Living
  <2>3. g \notin closed => Living(g, t)'
    BY <1>2 DEF Living, ThreadPCs
  <2>. QED BY <1>2, <1>3, <1>4, <1>5, <2>1, <2>2, <2>3 DEF Inv, EnginesInv
<1>10. GateInv'
  <2>1. ~Down
    BY <1>5 DEF Inv, GateInv, ShutdownFinal
  <2>2. ~Down'
    BY <1>2, <2>1 DEF Down
  <2>3. InHost' => InHost \/ open
    BY <1>2, <1>3 DEF InHost
  <2>4. ShutdownFinal'
    BY <2>2 DEF ShutdownFinal
  <2>. QED BY <1>2, <2>3, <2>4 DEF Inv, GateInv
<1>. QED BY <1>6, <1>7, <1>8, <1>9, <1>10 DEF Rest

\* ... and of a foreground callback, of a probe's admission and of the clock.
LEMMA OtherInv ==
    ASSUME Inv, UNCHANGED <<api, open, callVars, pluginVars, threads>>, InHost' => InHost \/ open
    PROVE  Rest'
<1>1. UNCHANGED <<stopped, owner, calls, made, published, config, closed>>
  BY DEF callVars, pluginVars
<1>2. \A g \in Serials : /\ (HasEngine(g)' <=> HasEngine(g)) /\ (Lives(g)' <=> Lives(g))
                        /\ (Starting(g)' <=> Starting(g)) /\ (Replaced(g)' <=> Replaced(g))
                        /\ \A t \in Threads : Living(g, t)' <=> Living(g, t)
  BY <1>1 DEF HasEngine, Lives, Living, Starting, Replaced
<1>3. OwnerInv'
  BY <1>1 DEF Inv, OwnerInv, Inside
<1>4. SerialsInv'
  BY <1>1, <1>2 DEF Inv, SerialsInv, Fresh, Unpublished
<1>5. StageInv'
  BY <1>1 DEF Inv, StageInv, Stage, Inside
<1>6. EnginesInv'
  BY <1>1, <1>2 DEF Inv, EnginesInv
<1>7. GateInv'
  <2>1. Down' <=> Down
    BY <1>1 DEF Down
  <2>2. HasEngine(published)' <=> HasEngine(published)
    BY <1>1 DEF HasEngine
  <2>3. Down => ~open
    BY DEF Inv, GateInv, ShutdownFinal
  <2>. QED BY <1>2, <2>1, <2>2, <2>3 DEF Inv, GateInv, ShutdownFinal
<1>. QED BY <1>3, <1>4, <1>5, <1>6, <1>7 DEF Rest

\* A foreground callback's step keeps the invariant.
LEMMA CallbackInv ==
    ASSUME Inv, NEW f \in Callbacks, Dispatch(f) \/ CallbackStep(f)
    PROVE  Rest'
<1>1. /\ UNCHANGED <<api, open, callVars, pluginVars, threads>>
      /\ \A e \in Callbacks \ {f} : foreground'[e] = foreground[e]
      /\ foreground'[f].pc = "host" => open
  <2>1. CASE Dispatch(f)
    BY <2>1 DEF Dispatch, Inv, TypeOK, gateVars
  <2>2. CASE CallbackCalls(f)
    BY <2>2 DEF CallbackCalls, Inv, TypeOK, Foreground, gateVars
  <2>3. CASE CallbackPasses(f)
    BY <2>3 DEF CallbackPasses, ForegroundGoto, Inv, TypeOK, Foreground, gateVars
  <2>4. CASE CallbackReturns(f)
    BY <2>4 DEF CallbackReturns, ForegroundGoto, Inv, TypeOK, Foreground, gateVars
  <2>5. CASE CallbackEnds(f)
    BY <2>5 DEF CallbackEnds, IdleForeground, Inv, TypeOK, Foreground, gateVars
  <2>. QED BY <2>1, <2>2, <2>3, <2>4, <2>5 DEF CallbackStep
<1>2. InHost' => InHost \/ open
  BY <1>1 DEF InHost
<1>. QED BY <1>1, <1>2, OtherInv

\* Every step keeps the invariant.
LEMMA InvNext == Inv /\ [Next]_vars => Inv'
<1>. SUFFICES ASSUME Inv, [Next]_vars PROVE Rest'
  BY NextType DEF Inv, Rest
<1>1. CASE UNCHANGED vars
  BY <1>1, OtherInv DEF vars, gateVars, InHost
<1>2. ASSUME NEW l \in Callers, Arrives(l) \/ LifecycleStep(l) PROVE Rest'
  BY <1>2, ArriveInv, AcquireInv, RejectInv, PublishInv, CloseInv, JoinInv, StartInv, DrainInv
     DEF LifecycleStep
<1>3. ASSUME NEW g \in Serials, NEW t \in Threads, ThreadStep(g, t) \/ Reserve(g, t) PROVE Rest'
  <2>1. CASE Reserve(g, t)
    BY <2>1, OtherInv DEF Reserve, gateVars, InHost
  <2>. QED BY <1>3, <2>1, ThreadInv
<1>4. CASE Tick
  BY <1>4, OtherInv DEF Tick, gateVars, InHost
<1>. QED BY <1>1, <1>2, <1>3, <1>4, CallbackInv DEF Next

-----------------------------------------------------------------------------
(* The theorems. *)

\* Every reachable state satisfies the invariant.
THEOREM Invariance == Spec => []Inv
<1>. QED BY InvInit, InvNext, PTL DEF Spec

\* In every reachable state every variable has its type, whatever lifecycle calls
\* the host makes.
THEOREM TypeCorrect == Spec => []TypeOK
<1>1. Inv => TypeOK
  BY DEF Inv
<1>. QED BY <1>1, Invariance, PTL

\* The goroutines of two engines never run at the same time: a plugin that was
\* replaced has goroutines only while its replacer waits for them, and the
\* replacer has not started its own engine then.
THEOREM OneEngineLivesHolds == Spec => []OneEngineLives
<1>1. Inv => OneEngineLives
  <2>. SUFFICES ASSUME Inv, NEW g \in Serials, NEW h \in Serials, Lives(g), Lives(h)
                PROVE  g = h
    BY DEF OneEngineLives
  <2>1. /\ g = published \/ Replaced(g)
        /\ h = published \/ Replaced(h)
    BY DEF Inv, EnginesInv
  <2>2. \A l, m \in Callers : Inside(l) /\ Inside(m) => l = m
    BY Alone DEF Inside
  <2>3. Replaced(g) /\ Replaced(h) => g = h
    BY <2>2 DEF Replaced, Inside
  <2>4. (\E e \in Serials : Replaced(e)) => ~Lives(published)
    <3>. SUFFICES ASSUME NEW l \in Callers, calls[l].pc \in {"close", "join"}
                  PROVE  ~Lives(published)
      BY DEF Replaced
    <3>1. published \in Serials /\ Starting(published)
      BY DEF Inv, StageInv, Stage, TypeOK, Starting
    <3>. QED BY <3>1 DEF Inv, EnginesInv, Lives, Living
  <2>. QED BY <2>1, <2>3, <2>4
<1>. QED BY <1>1, Invariance, PTL

\* Between two lifecycle calls the published engine runs with all its goroutines,
\* and every earlier engine is closed and has none left.
THEOREM LifecycleSettledHolds == Spec => []LifecycleSettled
<1>1. Inv => LifecycleSettled
  <2>. SUFFICES ASSUME Inv, owner = NoCaller
                PROVE  /\ \A t \in Threads : Living(published, t) <=> HasEngine(published)
                       /\ \A g \in Serials \ {published} :
                             ~Lives(g) /\ (HasEngine(g) => g \in closed)
    BY DEF LifecycleSettled
  <2>1. \A l \in Callers : ~Inside(l)
    BY RuntimeAssumption DEF Inv, OwnerInv
  <2>2. \A g \in Serials : ~Starting(g) /\ ~Replaced(g)
    BY <2>1 DEF Inside, Starting, Replaced
  <2>3. published \in Serials /\ published \notin closed
    BY DEF Inv, TypeOK, EnginesInv
  <2>4. HasEngine(published) => \A t \in Threads : Living(published, t)
    BY <2>2, <2>3 DEF Inv, EnginesInv
  <2>5. ~HasEngine(published) => \A t \in Threads : ~Living(published, t)
    BY <2>3 DEF Inv, EnginesInv, Living
  <2>6. \A g \in Serials \ {published} : ~Lives(g) /\ (HasEngine(g) => g \in closed)
    BY <2>2 DEF Inv, EnginesInv
  <2>. QED BY <2>4, <2>5, <2>6
<1>. QED BY <1>1, Invariance, PTL

\* A foreground callback is never handed a closed plugin.
THEOREM NeverServesClosedHolds == Spec => []NeverServesClosed
<1>1. Inv => NeverServesClosed
  BY DEF Inv, EnginesInv, NeverServesClosed
<1>. QED BY <1>1, Invariance, PTL

\* Once shutdown returned nothing of the plugin runs or is inside the host, until
\* the next init.
THEOREM ShutdownFinalHolds == Spec => []ShutdownFinal
<1>1. Inv => ShutdownFinal
  BY DEF Inv, GateInv
<1>. QED BY <1>1, Invariance, PTL

\* The host's API is not changed while a goroutine is inside the host: only the
\* gate's writer changes it, after the readers are gone.
THEOREM HostStableHolds == Spec => HostStable
<1>1. Inv /\ [Next]_vars => [InHost => api # NoHost /\ api' = api]_vars
  <2>. SUFFICES ASSUME Inv, Next, InHost PROVE api # NoHost /\ api' = api
    BY DEF vars, gateVars, InHost
  <2>1. api # NoHost
    BY DEF Inv, GateInv
  <2>2. ASSUME NEW l \in Callers, Arrives(l) \/ LifecycleStep(l) PROVE api' = api
    <3>1. ~Drain(l)
      BY DEF Drain, Drained
    <3>2. CASE Arrives(l) \/ InitHost(l) \/ Configure(l) \/ Quiesce(l) \/ Shutdown(l)
      BY <3>2 DEF Arrives, Arrive, InitHost, Configure, Quiesce, Shutdown, Acquire, gateVars
    <3>3. CASE RejectConfigure(l) \/ Publish(l) \/ CloseOld(l) \/ Join(l) \/ Start(l)
      BY <3>3 DEF RejectConfigure, Publish, CloseOld, Join, Start, gateVars
    <3>. QED BY <2>2, <3>1, <3>2, <3>3 DEF LifecycleStep
  <2>3. ASSUME NEW g \in Serials, NEW t \in Threads, ThreadStep(g, t) \/ Reserve(g, t)
        PROVE  api' = api
    BY <2>3, ThreadMoves DEF Reserve, gateVars, Inv
  <2>4. ASSUME NEW f \in Callbacks, Dispatch(f) \/ CallbackStep(f) PROVE api' = api
    BY <2>4 DEF Dispatch, CallbackStep, CallbackCalls, CallbackPasses, CallbackReturns,
                CallbackEnds, gateVars
  <2>5. Tick => api' = api
    BY DEF Tick, gateVars
  <2>. QED BY <2>1, <2>2, <2>3, <2>4, <2>5 DEF Next
<1>. QED BY <1>1, Invariance, PTL DEF Spec, HostStable
-----------------------------------------------------------------------------
(* The probe budget *)

\* The clock's values are natural numbers.
LEMMA TimesNat == \A time \in Times : time \in Nat
BY RuntimeAssumption DEF Times

\* The list ends the history, and what it does not hold of the history was made an
\* hour before `time' or earlier.
Remembers(list, history, time) ==
    LET dropped == Len(history) - Len(list)
    IN  /\ Len(list) <= Len(history)
        /\ \A i \in 1..Len(list) : list[i] = history[dropped + i]
        /\ \A i \in 1..dropped : history[i] + BudgetWindow <= time

\* The shared list remembers the admissions of all engines.
BudgetHistory == Remembers(stamps, admitted, now)

\* Taking expired times off the front of the list leaves what has to be remembered.
LEMMA DropRemembers ==
    ASSUME NEW list \in Seq(Times), NEW history \in Seq(Times), NEW time \in Times,
           Remembers(list, history, time), NEW n \in 0 .. Len(list),
           \A i \in 1..n : list[i] + BudgetWindow <= time
    PROVE  /\ SubSeq(list, n + 1, Len(list)) \in Seq(Times)
           /\ Len(SubSeq(list, n + 1, Len(list))) = Len(list) - n
           /\ Remembers(SubSeq(list, n + 1, Len(list)), history, time)
<1>. DEFINE kept == SubSeq(list, n + 1, Len(list))
            dropped == Len(history) - Len(list)
<1>1. kept \in Seq(Times) /\ Len(kept) = Len(list) - n
  OBVIOUS
<1>2. \A i \in 1..(Len(list) - n) : kept[i] = list[n + i]
  OBVIOUS
<1>. HIDE DEF kept
<1>3. /\ dropped \in Nat /\ Len(history) - Len(kept) = dropped + n
      /\ Len(kept) <= Len(history)
  BY <1>1 DEF Remembers
<1>4. ASSUME NEW i \in 1..Len(kept) PROVE kept[i] = history[(dropped + n) + i]
  <2>1. n + i \in 1..Len(list) /\ kept[i] = list[n + i] /\ dropped + (n + i) = (dropped + n) + i
    BY <1>1, <1>2, <1>3
  <2>. QED BY <2>1 DEF Remembers
<1>5. ASSUME NEW i \in 1..(dropped + n) PROVE history[i] + BudgetWindow <= time
  <2>1. CASE i <= dropped
    BY <1>3, <2>1 DEF Remembers
  <2>2. CASE i > dropped
    <3>1. i - dropped \in 1..n /\ i - dropped \in 1..Len(list) /\ dropped + (i - dropped) = i
      BY <1>3, <2>2
    <3>2. list[i - dropped] = history[i]
      BY <3>1 DEF Remembers
    <3>. QED BY <3>1, <3>2
  <2>. QED BY <1>3, <2>1, <2>2
<1>6. Remembers(kept, history, time)
  BY <1>3, <1>4, <1>5 DEF Remembers
<1>. QED BY <1>1, <1>6 DEF kept

\* Appending one admission to both keeps their relation.
LEMMA AppendRemembers ==
    ASSUME NEW list \in Seq(Times), NEW history \in Seq(Times), NEW time \in Times,
           Remembers(list, history, time)
    PROVE  Remembers(Append(list, time), Append(history, time), time)
<1>. DEFINE dropped == Len(history) - Len(list)
            l == Append(list, time)
            h == Append(history, time)
<1>1. /\ Len(l) = Len(list) + 1 /\ \A i \in 1..Len(list) : l[i] = list[i]
      /\ l[Len(list) + 1] = time
  OBVIOUS
<1>2. /\ Len(h) = Len(history) + 1 /\ \A i \in 1..Len(history) : h[i] = history[i]
      /\ h[Len(history) + 1] = time
  OBVIOUS
<1>. HIDE DEF l, h
<1>3. dropped \in Nat /\ Len(h) - Len(l) = dropped /\ Len(l) <= Len(h)
  BY <1>1, <1>2 DEF Remembers
<1>4. ASSUME NEW i \in 1..Len(l) PROVE l[i] = h[dropped + i]
  <2>1. CASE i \in 1..Len(list)
    <3>1. dropped + i \in 1..Len(history) /\ list[i] = history[dropped + i]
      BY <1>3, <2>1 DEF Remembers
    <3>. QED BY <1>1, <1>2, <2>1, <3>1
  <2>2. CASE i = Len(list) + 1
    <3>1. dropped + i = Len(history) + 1
      BY <1>3, <2>2
    <3>. QED BY <1>1, <1>2, <2>2, <3>1
  <2>. QED BY <1>1, <2>1, <2>2
<1>5. ASSUME NEW i \in 1..dropped PROVE h[i] + BudgetWindow <= time
  <2>1. i \in 1..Len(history)
    BY <1>3
  <2>. QED BY <1>2, <2>1 DEF Remembers
<1>6. Remembers(l, h, time)
  BY <1>3, <1>4, <1>5 DEF Remembers
<1>. QED BY <1>6 DEF l, h

\* What Reserve reads, and what it makes of the list and of the history.
LEMMA ReserveEffect ==
    ASSUME TypeOK, NEW g \in Serials, NEW t \in Threads, Reserve(g, t)
    PROVE  /\ now' = now /\ admitted' = Append(admitted, now)
           /\ \E n \in 0 .. Len(stamps) :
                 /\ \A i \in 1..n : stamps[i] + BudgetWindow <= now
                 /\ Len(stamps) - n < ProbeLimit[config[g]]
                 /\ stamps' = Append(SubSeq(stamps, n + 1, Len(stamps)), now)
<1>1. PICK n \in 0 .. Len(stamps) :
         /\ \A i \in 1..n : stamps[i] + BudgetWindow <= now
         /\ Len(SubSeq(stamps, n + 1, Len(stamps))) < ProbeLimit[config[g]]
         /\ stamps' = Append(SubSeq(stamps, n + 1, Len(stamps)), now)
  BY DEF Reserve, Budget!IsExpiredPrefix, Budget!Allowed, Budget!Kept
<1>2. Len(SubSeq(stamps, n + 1, Len(stamps))) = Len(stamps) - n
  BY DEF TypeOK
<1>. QED BY <1>1, <1>2 DEF Reserve

\* An admission leaves the list with what it must remember, and within the limit.
LEMMA ReserveRemembers ==
    ASSUME TypeOK, BudgetHistory, NEW g \in Serials, NEW t \in Threads, Reserve(g, t)
    PROVE  /\ BudgetHistory'
           /\ \E n \in 0 .. Len(stamps) : /\ Len(stamps) - n < ProbeLimit[config[g]]
                                          /\ Len(stamps') = Len(stamps) - n + 1
<1>1. PICK n \in 0 .. Len(stamps) :
         /\ \A i \in 1..n : stamps[i] + BudgetWindow <= now
         /\ Len(stamps) - n < ProbeLimit[config[g]]
         /\ stamps' = Append(SubSeq(stamps, n + 1, Len(stamps)), now)
  BY ReserveEffect
<1>. DEFINE kept == SubSeq(stamps, n + 1, Len(stamps))
<1>2. now' = now /\ admitted' = Append(admitted, now)
  BY ReserveEffect
<1>3. stamps \in Seq(Times) /\ admitted \in Seq(Times) /\ now \in Times
  BY DEF TypeOK
<1>4. kept \in Seq(Times) /\ Len(kept) = Len(stamps) - n /\ Remembers(kept, admitted, now)
  BY <1>1, <1>3, DropRemembers DEF BudgetHistory
<1>5. stamps' = Append(kept, now)
  BY <1>1
<1>. HIDE DEF kept
<1>6. Remembers(Append(kept, now), Append(admitted, now), now)
  BY <1>3, <1>4, AppendRemembers
<1>7. BudgetHistory'
  BY <1>2, <1>5, <1>6 DEF BudgetHistory
<1>8. Len(stamps') = Len(stamps) - n + 1
  BY <1>3, <1>4, <1>5
<1>. QED BY <1>1, <1>7, <1>8

\* The list keeps being the latest part of the history, whatever engine draws on it.
LEMMA HistoryNext == TypeOK /\ BudgetHistory /\ [Next]_vars => BudgetHistory'
<1>. SUFFICES ASSUME TypeOK, BudgetHistory, [Next]_vars PROVE BudgetHistory'
  OBVIOUS
<1>1. ASSUME UNCHANGED budgetVars PROVE BudgetHistory'
  BY <1>1 DEF budgetVars, BudgetHistory, Remembers
<1>2. ASSUME NEW l \in Callers, Arrives(l) \/ LifecycleStep(l) PROVE UNCHANGED budgetVars
  BY <1>2 DEF Arrives, Arrive, LifecycleStep, InitHost, Configure, RejectConfigure, Quiesce,
              Shutdown, Acquire, Publish, NextBudget, CloseOld, Join, Start, Drain, budgetVars
<1>3. ASSUME NEW g \in Serials, NEW t \in Threads, ThreadStep(g, t) PROVE UNCHANGED budgetVars
  BY <1>3 DEF ThreadStep, ThreadCalls, ThreadPasses, ThreadReturns, ThreadExits
<1>4. ASSUME NEW g \in Serials, NEW t \in Threads, Reserve(g, t) PROVE BudgetHistory'
  BY <1>4, ReserveRemembers
<1>5. ASSUME NEW f \in Callbacks, Dispatch(f) \/ CallbackStep(f) PROVE UNCHANGED budgetVars
  BY <1>5 DEF Dispatch, CallbackStep, CallbackCalls, CallbackPasses, CallbackReturns,
              CallbackEnds
<1>6. CASE Tick
  <2>1. /\ now' = now + 1 /\ stamps' = stamps /\ admitted' = admitted
    BY <1>6 DEF Tick
  <2>2. /\ stamps \in Seq(Times) /\ admitted \in Seq(Times) /\ now \in Nat
        /\ BudgetWindow \in Nat
    BY RuntimeAssumption, TimesNat DEF TypeOK
  <2>3. \A i \in 1..(Len(admitted) - Len(stamps)) : admitted[i] \in Nat
    <3>1. Len(stamps) \in Nat /\ Len(admitted) \in Nat
      BY <2>2
    <3>2. \A i \in 1..(Len(admitted) - Len(stamps)) : i \in 1..Len(admitted)
      BY <3>1
    <3>. QED BY <2>2, <3>2, TimesNat
  <2>. QED BY <2>1, <2>2, <2>3 DEF BudgetHistory, Remembers
<1>. QED BY <1>1, <1>2, <1>3, <1>4, <1>5, <1>6 DEF Next, vars

\* An admission within the last hour is still in the list.
LEMMA RecentListed ==
    ASSUME NEW times \in Seq(Times), NEW kept \in Nat, kept <= Len(times),
           now \in Times, BudgetWindow \in Nat,
           \A i \in 1..(Len(times) - kept) : times[i] + BudgetWindow <= now
    PROVE  Recent(times) \in Nat /\ Recent(times) <= kept
<1>. DEFINE recent == {i \in DOMAIN times : times[i] + BudgetWindow > now}
            last == (Len(times) - kept + 1)..Len(times)
<1>1. recent \subseteq last
  <2>. SUFFICES ASSUME NEW i \in recent PROVE i \in last
    OBVIOUS
  <2>1. i \in 1..Len(times) /\ times[i] + BudgetWindow > now
    OBVIOUS
  <2>2. times[i] \in Nat /\ now \in Nat
    BY <2>1, TimesNat
  <2>3. ~(i <= Len(times) - kept)
    BY <2>1, <2>2
  <2>. QED BY <2>1, <2>3
<1>2. IsFiniteSet(last) /\ Cardinality(last) = kept
  BY FS_Interval
<1>. HIDE DEF recent, last
<1>3. IsFiniteSet(recent) /\ Cardinality(recent) <= Cardinality(last)
  BY <1>1, <1>2, FS_Subset
<1>. QED BY <1>2, <1>3, FS_CardinalityType DEF Recent, recent

\* For any limits and any number of engines and reconfigurations: no probe is
\* admitted beyond the limit of its engine, counting the probes of all engines in
\* the last hour (reserveProbe; the next engine takes the budget over).
THEOREM BudgetSharedHolds == Spec => BudgetShared
<1>. DEFINE Step == \A g \in Serials, t \in Threads :
                      Reserve(g, t) => Recent(admitted') <= ProbeLimit[config[g]]
<1>1. Init => BudgetHistory
  BY RuntimeAssumption DEF Init, BudgetHistory, Remembers
<1>2. ASSUME Inv, BudgetHistory PROVE Step
  <2>. SUFFICES ASSUME NEW g \in Serials, NEW t \in Threads, Reserve(g, t)
                PROVE  Recent(admitted') <= ProbeLimit[config[g]]
    OBVIOUS
  <2>1. TypeOK /\ now' = now /\ admitted' = Append(admitted, now)
    BY <1>2, ReserveEffect DEF Inv
  <2>2. PICK n \in 0 .. Len(stamps) : /\ Len(stamps) - n < ProbeLimit[config[g]]
                                      /\ Len(stamps') = Len(stamps) - n + 1
    BY <1>2, <2>1, ReserveRemembers
  <2>3. /\ Len(stamps') <= Len(admitted')
        /\ \A i \in 1..(Len(admitted') - Len(stamps')) : admitted'[i] + BudgetWindow <= now
    BY <1>2, <2>1, ReserveRemembers DEF BudgetHistory, Remembers
  <2>4. /\ now \in Times /\ BudgetWindow \in Nat /\ admitted' \in Seq(Times)
        /\ Len(stamps) \in Nat /\ Len(stamps') \in Nat
    BY <2>1, <2>2, RuntimeAssumption DEF TypeOK
  <2>5. Recent(admitted') \in Nat /\ Recent(admitted') <= Len(stamps')
    BY <2>3, <2>4, RecentListed
  <2>6. ProbeLimit[config[g]] \in Nat
    <3>1. HasEngine(g)
      BY <1>2 DEF Inv, EnginesInv, Reserve
    <3>. QED BY <2>1, <3>1, RuntimeAssumption DEF HasEngine, TypeOK
  <2>. QED BY <2>2, <2>4, <2>5, <2>6
<1>3. Inv /\ BudgetHistory /\ [Next]_vars => [Step]_vars
  BY <1>2
<1>. QED BY <1>1, <1>3, HistoryNext, Invariance, TypeCorrect, PTL DEF Spec, BudgetShared
=============================================================================
