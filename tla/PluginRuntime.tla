--------------------------- MODULE PluginRuntime ----------------------------
(***************************************************************************)
(* The native plugin's runtime (cmd/plugin/main.go): lifecycle calls       *)
(* replace the current plugin and its prewarm engine while the goroutines  *)
(* of the old engine and foreground callbacks are running, and all of      *)
(* these call back into the host through one gate.                         *)
(*                                                                         *)
(* One action is one critical section of lifecycleMu's holder, of          *)
(* runtime.mu or of the gate, or one goroutine's step between two of them. *)
(* A plugin and its engine are named by the serial number of the call that *)
(* built them; the initial plugin is number 0.                             *)
(***************************************************************************)
EXTENDS Integers, Sequences, FiniteSets

CONSTANTS
    Callers,            \* host goroutines that make lifecycle calls
    Callbacks,          \* host goroutines that make foreground calls
    Threads,            \* the goroutines of one engine: workers and scheduler
    Hosts,              \* host APIs an init may pass
    Configs,            \* valid configurations ...
    ProbeLimit,         \* ... and their max_probes_per_hour, 0 if prewarming is disabled
    BudgetWindow,       \* an hour
    MaxHostCalls,       \* host calls one foreground callback makes at most
    MaxCalls, MaxTime   \* bounds: lifecycle calls, and the clock

NoHost == ""
NoCaller == ""
NoConfig == ""

ASSUME RuntimeAssumption ==
    /\ NoCaller \notin Callers /\ NoHost \notin Hosts /\ NoConfig \notin Configs
    /\ ProbeLimit \in [Configs -> Nat]
    /\ BudgetWindow \in Nat \ {0}
    /\ MaxHostCalls \in Nat /\ MaxCalls \in Nat /\ MaxTime \in Nat

Serials == 0..MaxCalls
Times == 0..MaxTime

VARIABLES
    api, open,          \* stored_host; hostCallbacksOpen
    stopped, owner,     \* runtimeStopped; who holds lifecycleMu
    calls, made,        \* the lifecycle calls in flight, and how many were made
    published,          \* runtime.plugin
    config,             \* the configuration of each plugin, NoConfig for an empty one
    closed,             \* the plugins whose Close was called
    threads,            \* the goroutines of each plugin's engine
    foreground,         \* the foreground callbacks in flight
    now, stamps,        \* the clock; sharedProbeBudget.timestamps
    admitted            \* history: when probes were admitted, by whatever engine

gateVars  == <<api, open>>
callVars  == <<stopped, owner, calls, made>>
pluginVars == <<published, config, closed>>
budgetVars == <<now, stamps, admitted>>
vars == <<gateVars, callVars, pluginVars, threads, foreground, budgetVars>>

-----------------------------------------------------------------------------
(* Data *)

Ops == {"init", "configure", "quiesce", "shutdown"}

\* Where a lifecycle call stands.
CallPCs == {"idle", "lock", "publish", "close", "join", "start", "drain"}

Call == [pc : CallPCs, op : Ops, host : Hosts \cup {NoHost},
         config : Configs \cup {NoConfig}, serial : Serials, old : Serials]

IdleCall == [pc |-> "idle", op |-> "quiesce", host |-> NoHost, config |-> NoConfig,
             serial |-> 0, old |-> 0]

\* A goroutine waits at the gate ("await") or is inside the host ("host").
ThreadPCs == {"unborn", "run", "await", "host", "exited"}

Foreground == [pc : {"idle", "run", "await", "host"}, plugin : Serials, left : 0..MaxHostCalls]

IdleForeground == [pc |-> "idle", plugin |-> 0, left |-> 0]

-----------------------------------------------------------------------------
(* Helpers *)

Goto(l, pc) == calls' = [calls EXCEPT ![l].pc = pc]

\* The call returns; the deferred Unlock releases lifecycleMu.
Return(l) ==
    /\ calls' = [calls EXCEPT ![l] = IdleCall]
    /\ owner' = NoCaller

Living(g, t) == threads[g][t] \in {"run", "await", "host"}

Lives(g) == \E t \in Threads : Living(g, t)

\* Someone is inside the host, holding hostCallbackGate for reading.
InHost ==
    \/ \E g \in Serials, t \in Threads : threads[g][t] = "host"
    \/ \E f \in Callbacks : foreground[f].pc = "host"

\* A writer waits for the gate: RWMutex lets no new reader in.
WriterWaits == \E l \in Callers : calls[l].pc = "drain"

-----------------------------------------------------------------------------
(* Lifecycle calls *)

\* The host calls init, register or reconfigure, quiesce or shutdown.
Arrive(l, op, host, cfg) ==
    /\ calls[l].pc = "idle" /\ made < MaxCalls
    /\ made' = made + 1
    /\ calls' = [calls EXCEPT ![l] = [pc |-> "lock", op |-> op, host |-> host, config |-> cfg,
                                      serial |-> made + 1, old |-> 0]]
    /\ UNCHANGED <<stopped, owner, gateVars, pluginVars, threads, foreground, budgetVars>>

Arrives(l) ==
    \/ \E host \in Hosts \cup {NoHost} : Arrive(l, "init", host, NoConfig)
    \/ \E cfg \in Configs : Arrive(l, "configure", NoHost, cfg)
    \/ \E op \in {"quiesce", "shutdown"} : Arrive(l, op, NoHost, NoConfig)

Acquire(l, op, pc) ==
    /\ calls[l].pc = "lock" /\ calls[l].op = op /\ owner = NoCaller
    /\ owner' = l
    /\ Goto(l, pc)
    /\ UNCHANGED <<made, gateVars, pluginVars, threads, foreground, budgetVars>>

InitHost(l) == Acquire(l, "init", "drain") /\ stopped' = FALSE

\* Mutant: a runtime that was shut down is configured again.
ConfigureStopped(l) == Acquire(l, "configure", "publish") /\ UNCHANGED stopped

\* Mutant: the old plugin is closed before the next one is published.
ConfigureClosesFirst(l) ==
    /\ ~stopped
    /\ calls[l].pc = "lock" /\ calls[l].op = "configure" /\ owner = NoCaller
    /\ owner' = l
    /\ Goto(l, "publish")
    /\ closed' = closed \cup {published}
    /\ UNCHANGED <<stopped, made, gateVars, published, config, threads, foreground, budgetVars>>

Configure(l) == ~stopped /\ Acquire(l, "configure", "publish") /\ UNCHANGED stopped

\* The runtime is shut down, or the request is invalid in one of many ways.
\* Nothing was changed yet.
RejectConfigure(l) ==
    /\ calls[l].pc = "lock" /\ calls[l].op = "configure" /\ owner = NoCaller
    /\ Return(l)
    /\ UNCHANGED <<made, stopped, gateVars, pluginVars, threads, foreground, budgetVars>>

Quiesce(l) == Acquire(l, "quiesce", "publish") /\ UNCHANGED stopped

Shutdown(l) == Acquire(l, "shutdown", "publish") /\ stopped' = TRUE

\* Mutant: every engine has a budget of its own.
FreshBudget == <<>>

\* The next engine draws from the budget of its predecessors.
NextBudget == stamps

\* Under runtime.mu: the next plugin takes the place of the old one.
Publish(l) ==
    /\ calls[l].pc = "publish"
    /\ published' = calls[l].serial
    /\ config' = [config EXCEPT ![calls[l].serial] = calls[l].config]
    /\ calls' = [calls EXCEPT ![l].pc = "close", ![l].old = published]
    /\ stamps' = NextBudget
    /\ UNCHANGED <<closed, stopped, owner, made, gateVars, threads, foreground, now, admitted>>

\* Engine.Close of the old plugin, up to its wait.
CloseOld(l) ==
    /\ calls[l].pc = "close"
    /\ closed' = closed \cup {calls[l].old}
    /\ Goto(l, "join")
    /\ UNCHANGED <<published, config, stopped, owner, made, gateVars, threads, foreground,
                   budgetVars>>

HasEngine(g) == config[g] # NoConfig /\ ProbeLimit[config[g]] > 0

\* Mutant: Close does not wait when another engine takes over.
JoinedUnlessReplaced(g) == Lives(g) => HasEngine(published)

\* Close's WaitGroup: every goroutine of the old engine is gone.
Joined(g) == ~Lives(g)

\* Close came back.
Join(l) ==
    /\ calls[l].pc = "join" /\ Joined(calls[l].old)
    /\ \/ calls[l].op = "configure" /\ Goto(l, "start") /\ UNCHANGED owner
       \/ calls[l].op = "shutdown" /\ Goto(l, "drain") /\ UNCHANGED owner
       \/ calls[l].op = "quiesce" /\ Return(l)
    /\ UNCHANGED <<stopped, made, gateVars, pluginVars, threads, foreground, budgetVars>>

\* Mutant: an engine that takes over from another one is not started.
StartsFirstOnly(l) ==
    /\ calls[l].pc = "start"
    /\ threads' = IF HasEngine(calls[l].serial) /\ ~HasEngine(calls[l].old)
                  THEN [threads EXCEPT ![calls[l].serial] = [t \in Threads |-> "run"]]
                  ELSE threads
    /\ Return(l)
    /\ UNCHANGED <<stopped, made, gateVars, pluginVars, foreground, budgetVars>>

\* Engine.Start of the next plugin, if it prewarms, and the return.
Start(l) ==
    /\ calls[l].pc = "start"
    /\ threads' = IF HasEngine(calls[l].serial)
                  THEN [threads EXCEPT ![calls[l].serial] = [t \in Threads |-> "run"]]
                  ELSE threads
    /\ Return(l)
    /\ UNCHANGED <<stopped, made, gateVars, pluginVars, foreground, budgetVars>>

\* Mutant: the gate is not locked.
Undrained == TRUE

\* hostCallbackGate.Lock returns: the readers are gone.
Drained == ~InHost

\* init stores the host's API, shutdown clears it; then the call returns.
Drain(l) ==
    /\ calls[l].pc = "drain" /\ Drained
    /\ api' = calls[l].host
    /\ open' = (calls[l].host # NoHost)
    /\ Return(l)
    /\ UNCHANGED <<stopped, made, pluginVars, threads, foreground, budgetVars>>

LifecycleStep(l) ==
    \/ InitHost(l) \/ Configure(l) \/ RejectConfigure(l) \/ Quiesce(l) \/ Shutdown(l)
    \/ Publish(l) \/ CloseOld(l) \/ Join(l) \/ Start(l) \/ Drain(l)

-----------------------------------------------------------------------------
(* An engine's goroutines.  Their rounds are PrewarmEngine's; here they call *)
(* the host, spend the budget, and exit.                                     *)

ThreadGoto(g, t, pc) == threads' = [threads EXCEPT ![g][t] = pc]

\* The last test of the engine's context before a host call: from here on the
\* goroutine enters the host also if the engine is closed meanwhile.
ThreadCalls(g, t) ==
    /\ threads[g][t] = "run" /\ g \notin closed
    /\ ThreadGoto(g, t, "await")
    /\ UNCHANGED <<gateVars, callVars, pluginVars, foreground, budgetVars>>

\* Mutant: a goroutine waits until the host can be called.
ThreadWaits(g, t) ==
    /\ threads[g][t] = "await" /\ ~WriterWaits /\ open
    /\ ThreadGoto(g, t, "host")
    /\ UNCHANGED <<gateVars, callVars, pluginVars, foreground, budgetVars>>

\* callHost: RLock, then either the host or an error.
ThreadPasses(g, t) ==
    /\ threads[g][t] = "await" /\ ~WriterWaits
    /\ ThreadGoto(g, t, IF open THEN "host" ELSE "run")
    /\ UNCHANGED <<gateVars, callVars, pluginVars, foreground, budgetVars>>

ThreadReturns(g, t) ==
    /\ threads[g][t] = "host"
    /\ ThreadGoto(g, t, "run")
    /\ UNCHANGED <<gateVars, callVars, pluginVars, foreground, budgetVars>>

ThreadExits(g, t) ==
    /\ threads[g][t] = "run" /\ g \in closed
    /\ ThreadGoto(g, t, "exited")
    /\ UNCHANGED <<gateVars, callVars, pluginVars, foreground, budgetVars>>

Budget(limit) == INSTANCE ProbeBudget WITH MaxProbesPerHour <- limit

\* reserveProbe, when it admits the probe.
Reserve(g, t) ==
    /\ threads[g][t] = "run" /\ g \notin closed
    /\ \E n \in 0 .. Len(stamps) :
          LET B == ProbeLimit[config[g]]
          IN  /\ Budget(B)!IsExpiredPrefix(stamps, n, now)
              /\ Budget(B)!Allowed(Budget(B)!Kept(stamps, n))
              /\ stamps' = Append(Budget(B)!Kept(stamps, n), now)
    /\ admitted' = Append(admitted, now)
    /\ UNCHANGED <<gateVars, callVars, pluginVars, threads, foreground, now>>

ThreadStep(g, t) ==
    ThreadCalls(g, t) \/ ThreadPasses(g, t) \/ ThreadReturns(g, t) \/ ThreadExits(g, t)

-----------------------------------------------------------------------------
(* Foreground callbacks: the interceptors, which look the plugin up once. *)

ForegroundGoto(f, pc) == foreground' = [foreground EXCEPT ![f].pc = pc]

\* handleMethod: currentPlugin() under runtime.mu.
Dispatch(f) ==
    /\ foreground[f].pc = "idle"
    /\ foreground' = [foreground EXCEPT ![f] = [pc |-> "run", plugin |-> published,
                                                left |-> MaxHostCalls]]
    /\ UNCHANGED <<gateVars, callVars, pluginVars, threads, budgetVars>>

\* Mutant: the callback calls the host once too often.
CallbackCallsOn(f) ==
    /\ foreground[f].pc = "run"
    /\ foreground' = [foreground EXCEPT ![f].pc = "await", ![f].left = @ - 1]
    /\ UNCHANGED <<gateVars, callVars, pluginVars, threads, budgetVars>>

\* The callback logs, or Bind describes the account.
CallbackCalls(f) ==
    /\ foreground[f].pc = "run" /\ foreground[f].left > 0
    /\ foreground' = [foreground EXCEPT ![f].pc = "await", ![f].left = @ - 1]
    /\ UNCHANGED <<gateVars, callVars, pluginVars, threads, budgetVars>>

CallbackPasses(f) ==
    /\ foreground[f].pc = "await" /\ ~WriterWaits
    /\ ForegroundGoto(f, IF open THEN "host" ELSE "run")
    /\ UNCHANGED <<gateVars, callVars, pluginVars, threads, budgetVars>>

CallbackReturns(f) ==
    /\ foreground[f].pc = "host"
    /\ ForegroundGoto(f, "run")
    /\ UNCHANGED <<gateVars, callVars, pluginVars, threads, budgetVars>>

CallbackEnds(f) ==
    /\ foreground[f].pc = "run"
    /\ foreground' = [foreground EXCEPT ![f] = IdleForeground]
    /\ UNCHANGED <<gateVars, callVars, pluginVars, threads, budgetVars>>

CallbackStep(f) ==
    CallbackCalls(f) \/ CallbackPasses(f) \/ CallbackReturns(f) \/ CallbackEnds(f)

-----------------------------------------------------------------------------
Tick ==
    /\ now < MaxTime
    /\ now' = now + 1
    /\ UNCHANGED <<stamps, admitted, gateVars, callVars, pluginVars, threads, foreground>>

Init ==
    /\ api = NoHost /\ open = FALSE
    /\ stopped = FALSE /\ owner = NoCaller
    /\ calls = [l \in Callers |-> IdleCall] /\ made = 0
    /\ published = 0
    /\ config = [g \in Serials |-> NoConfig]
    /\ closed = {}
    /\ threads = [g \in Serials |-> [t \in Threads |-> "unborn"]]
    /\ foreground = [f \in Callbacks |-> IdleForeground]
    /\ now = 0 /\ stamps = <<>> /\ admitted = <<>>

Next ==
    \/ \E l \in Callers : Arrives(l) \/ LifecycleStep(l)
    \/ \E g \in Serials, t \in Threads : ThreadStep(g, t) \/ Reserve(g, t)
    \/ \E f \in Callbacks : Dispatch(f) \/ CallbackStep(f)
    \/ Tick

Spec == Init /\ [][Next]_vars

\* Goroutines that can run do, a callback into the host returns, and Go's
\* mutexes hand over in turn.  The host need not make any call.
FairSpec ==
    /\ Spec
    /\ \A l \in Callers : WF_vars(LifecycleStep(l))
    /\ \A g \in Serials, t \in Threads : WF_vars(ThreadStep(g, t))
    /\ \A f \in Callbacks : WF_vars(CallbackStep(f))

-----------------------------------------------------------------------------
(* Properties *)

\* The value of every variable has its type.
TypeOK ==
    /\ api \in Hosts \cup {NoHost} /\ open \in BOOLEAN
    /\ stopped \in BOOLEAN /\ owner \in Callers \cup {NoCaller}
    /\ calls \in [Callers -> Call] /\ made \in Serials
    /\ published \in Serials
    /\ config \in [Serials -> Configs \cup {NoConfig}]
    /\ closed \subseteq Serials
    /\ threads \in [Serials -> [Threads -> ThreadPCs]]
    /\ foreground \in [Callbacks -> Foreground]
    /\ now \in Times /\ stamps \in Seq(Times)
    /\ admitted \in Seq(Times)

\* The goroutines of two engines never run at the same time, however the
\* lifecycle calls overlap: the old engine is joined before the next one starts
\* (main.go, configure; engine.go, Close).
OneEngineLives == \A g, h \in Serials : Lives(g) /\ Lives(h) => g = h

\* When no lifecycle call is under way, the published plugin is open and its
\* engine, if it has one, runs with all its goroutines; every plugin it replaced
\* is closed and none of their goroutines is left (main.go, configure and
\* resetRuntimeLocked).
LifecycleSettled ==
    owner = NoCaller =>
        /\ \A t \in Threads : Living(published, t) <=> HasEngine(published)
        /\ \A g \in Serials \ {published} :
              ~Lives(g) /\ (HasEngine(g) => g \in closed)

\* A callback that arrives in the middle of a replacement is never given a
\* plugin that is closed already, because the next one is published first
\* (main.go, configure and resetRuntimeLocked).
NeverServesClosed == published \notin closed

\* The host's API is neither cleared nor replaced while a goroutine is inside
\* the host, where it may still use it to free the answer (main.go, callHost and
\* the two writers of hostCallbackGate).
HostStable == [][InHost => api # NoHost /\ api' = api]_vars

\* The last shutdown returned and no init began since.
Down == stopped /\ \A l \in Callers : calls[l].op = "shutdown" => calls[l].pc \in {"idle", "lock"}

\* From shutdown's return until the next init, whatever else the host calls: no
\* goroutine of any engine runs, nobody is inside the host, and no engine is
\* published (main.go, cliproxyPluginShutdown; the native image may be unloaded).
ShutdownFinal ==
    Down => /\ \A g \in Serials : ~Lives(g)
            /\ ~InHost /\ api = NoHost
            /\ ~HasEngine(published)

\* How many of these probes were admitted within the last hour.
Recent(times) == Cardinality({i \in DOMAIN times : times[i] + BudgetWindow > now})

\* An engine's probe is only admitted if all engines together stay within its own
\* limit in the last hour, so that a reconfiguration grants nothing (budget.go,
\* Budget survives Engine replacement).
BudgetShared ==
    [][\A g \in Serials, t \in Threads :
          Reserve(g, t) => Recent(admitted') <= ProbeLimit[config[g]]]_vars

\* Every call of the host returns: a lifecycle call is not waiting for goroutines
\* that wait for the gate, nor for another call, and a foreground callback does not
\* wait for a gate that is never given back (main.go, the order of Close and the
\* gate in the lifecycle calls, and callHost).
CallsReturn ==
    /\ \A l \in Callers : calls[l].pc # "idle" ~> calls[l].pc = "idle"
    /\ \A f \in Callbacks : foreground[f].pc # "idle" ~> foreground[f].pc = "idle"
=============================================================================
