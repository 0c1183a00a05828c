------------------------------ MODULE Lifecycle ------------------------------
(***************************************************************************)
(* The lifespan of one process that hosts several agents: the order in     *)
(* which components start and stop, what becomes of a component that fails *)
(* to start, the tasks that retry it while the process serves, the latches *)
(* that keep an agent out of service, and the health polls that decide for *)
(* the agents that are not latched (app_builder.py, health_cache.py,       *)
(* namespace_supervisor.py, readiness_policy.py, actuator_api.py).         *)
(***************************************************************************)
EXTENDS Naturals, FiniteSets, Sequences

CONSTANTS
    Names,        \* the namespaces this process serves, the root among them
    Root,         \* the namespace of shared components, which gates everything
    Critical,     \* the agents the deployment does not run without
    Order,        \* the components as they are started, by kind
    NameOf,       \* the namespace of each component
    KindOf,       \* the kind of each component, numbered in start order
    Consumes,     \* the components whose start makes their agent consume
    Policies,     \* the readiness policies the deployment may choose
    MaxFaults,    \* bound: failed starts and failed transports
    MaxFlips      \* bound: changes of what the health checks find

Comps == {Order[i] : i \in 1..Len(Order)}

(* What the build gives the process: every component started once, and the  *)
(* one that makes an agent consume as the last of it -- its transport is    *)
(* started after all the other kinds, and an agent has one transport.       *)
Parameters ==
    /\ Order \in Seq(Comps) /\ NameOf \in [Comps -> Names] /\ Consumes \subseteq Comps
    /\ \A i, j \in 1..Len(Order) : Order[i] = Order[j] => i = j
    /\ \A i, j \in 1..Len(Order) : Order[i] \in Consumes /\ NameOf[Order[j]] = NameOf[Order[i]] => j <= i
    /\ MaxFaults \in Nat /\ MaxFlips \in Nat

(* Who may be inside a health poll: the interval job, the lifespan, the    *)
(* recovery of an agent, and a client that reports a transport failure.    *)
Timer == "timer"
Main == "main"
Fatal == "fatal"
Pollers == {Timer, Main, Fatal} \union Names

VARIABLES
    policy,    \* readiness_policy
    phase,     \* starting, serving, ending (recovery is being cancelled), stopping, stopped, crashed
    at,        \* the lifespan's place in Order
    comp,      \* [Comps -> {"new", "started", "failed", "stopped"}]
    pending,   \* _failed_startups: for each agent what is still to be started, in order
    task,      \* _recovery_tasks: "none", "asleep", "starting", "marking", "released", "over"
    cancelled, \* the recovery tasks have been cancelled
    forced,    \* _forced_down: the agents latched out of service
    fatal,     \* the agents whose transport failed for good
    up,        \* _up: whom the supervisor lets consume; a transition pauses or resumes
    health,    \* what the checks of each agent find: "ok", "partly" (not its consumption), "bad"
    poll,      \* [Pollers -> {"idle", "asked", "seen"}]: a poll, and whether it has its verdict
    verdict,   \* [Pollers -> SUBSET Names]: whom the poll of each found fit to consume
    ready,     \* the cached answer of the readiness probe
    notLive,   \* the agents that hold the liveness probe down
    term,      \* SIGTERM has been raised
    faults, flips

vars == <<policy, phase, at, comp, pending, task, cancelled, forced, fatal, up, health, poll,
          verdict, ready, notLive, term, faults, flips>>

health_vars == <<health, flips, verdict>>
probe_vars == <<ready, notLive, term>>

TypeOK ==
    /\ policy \in Policies
    /\ phase \in {"starting", "serving", "ending", "stopping", "stopped", "crashed"}
    /\ at \in 1..Len(Order) + 1
    /\ comp \in [Comps -> {"new", "started", "failed", "stopped"}]
    /\ pending \in [Names -> Seq(Comps)]
    /\ task \in [Names -> {"none", "asleep", "starting", "marking", "released", "over"}]
    /\ cancelled \in BOOLEAN /\ ready \in BOOLEAN /\ term \in BOOLEAN
    /\ forced \subseteq Names /\ fatal \subseteq Names /\ notLive \subseteq Names
    /\ up \in [Names -> BOOLEAN]
    /\ health \in [Names -> {"ok", "partly", "bad"}]
    /\ poll \in [Pollers -> {"idle", "asked", "seen"}]
    /\ verdict \in [Pollers -> SUBSET Names]
    /\ faults \in 0..MaxFaults /\ flips \in 0..MaxFlips

Init ==
    /\ policy \in Policies
    /\ phase = "starting" /\ at = 1
    /\ comp = [c \in Comps |-> "new"]
    /\ pending = [n \in Names |-> <<>>]
    /\ task = [n \in Names |-> "none"]
    /\ cancelled = FALSE
    /\ forced = {} /\ fatal = {} /\ notLive = {}
    /\ up = [n \in Names |-> TRUE]
    /\ health = [n \in Names |-> "ok"]
    /\ poll = [w \in Pollers |-> "idle"]
    /\ verdict = [w \in Pollers |-> {}]
    /\ ready = TRUE /\ term = FALSE
    /\ faults = 0 /\ flips = 0

Gating(n) == n = Root \/ n \in Critical

-----------------------------------------------------------------------------
(* mark_down: the latch and the transition to down are one step, as nothing *)
(* is awaited before the pause; the refresh it ends with is asked for by w. *)
MarkDown(n, w) ==
    /\ forced' = forced \union {n}
    /\ up' = [up EXCEPT ![n] = FALSE]
    /\ poll' = [poll EXCEPT ![w] = "asked"]

-----------------------------------------------------------------------------
(* The lifespan before the yield. *)
StartOk ==
    /\ phase = "starting" /\ at <= Len(Order) /\ poll[Main] = "idle"
    /\ comp' = [comp EXCEPT ![Order[at]] = "started"]
    /\ at' = at + 1
    /\ UNCHANGED <<policy, phase, pending, task, cancelled, forced, fatal, up, poll, faults>>
    /\ UNCHANGED probe_vars /\ UNCHANGED health_vars

(* A start that fails for a cause no retry can fix, or in the root or a     *)
(* critical agent, ends the process; nothing that has started is stopped.   *)
StartFails(deterministic) ==
    LET c == Order[at]
        n == NameOf[c] IN
    /\ phase = "starting" /\ at <= Len(Order) /\ poll[Main] = "idle"
    /\ faults < MaxFaults
    /\ faults' = faults + 1
    /\ comp' = [comp EXCEPT ![c] = "failed"]
    /\ \/ /\ deterministic \/ Gating(n)
          /\ phase' = "crashed"
          /\ UNCHANGED <<at, pending, forced, up, poll>>
       \/ /\ ~deterministic /\ ~Gating(n)
          /\ pending' = [pending EXCEPT ![n] = Append(@, c)]
          /\ MarkDown(n, Main)
          /\ at' = at + 1
          /\ UNCHANGED phase
    /\ UNCHANGED <<policy, task, cancelled, fatal>>
    /\ UNCHANGED probe_vars /\ UNCHANGED health_vars

(* The process serves, and each agent that failed has a task of its own. *)
Serve ==
    /\ phase = "starting" /\ at > Len(Order) /\ poll[Main] = "idle"
    /\ phase' = "serving"
    /\ task' = [n \in Names |-> IF pending[n] # <<>> THEN "asleep" ELSE "none"]
    /\ UNCHANGED <<policy, at, comp, pending, cancelled, forced, fatal, up, poll, faults>>
    /\ UNCHANGED probe_vars /\ UNCHANGED health_vars

-----------------------------------------------------------------------------
(* _recover_agent. *)
Running(n) == ~cancelled /\ task[n] \notin {"none", "over"}

RetryDue(n) ==
    /\ Running(n) /\ task[n] = "asleep"
    /\ task' = [task EXCEPT ![n] = "starting"]
    /\ UNCHANGED <<policy, phase, at, comp, pending, cancelled, forced, fatal, up, poll, faults>>
    /\ UNCHANGED probe_vars /\ UNCHANGED health_vars

\* Mutant of RetryOk: the latch goes with the first component that starts.
RetryReleasesAtOnce(n) ==
    /\ Running(n) /\ task[n] = "starting"
    /\ comp' = [comp EXCEPT ![Head(pending[n])] = "started"]
    /\ pending' = [pending EXCEPT ![n] = Tail(@)]
    /\ task' = [task EXCEPT ![n] = IF Len(pending[n]) = 1 THEN "released" ELSE "marking"]
    /\ forced' = forced \ {n}
    /\ poll' = [poll EXCEPT ![n] = "asked"]
    /\ UNCHANGED <<policy, phase, at, cancelled, fatal, up, faults>>
    /\ UNCHANGED probe_vars /\ UNCHANGED health_vars

(* The head of the list starts; with the last one the latch is released,    *)
(* and a refresh lets the health checks decide.                             *)
RetryOk(n) ==
    /\ Running(n) /\ task[n] = "starting"
    /\ comp' = [comp EXCEPT ![Head(pending[n])] = "started"]
    /\ pending' = [pending EXCEPT ![n] = Tail(@)]
    /\ \/ /\ Len(pending[n]) > 1
          /\ UNCHANGED <<task, forced, poll>>
       \/ /\ Len(pending[n]) = 1
          /\ task' = [task EXCEPT ![n] = "released"]
          /\ forced' = forced \ {n}
          /\ poll' = [poll EXCEPT ![n] = "asked"]
    /\ UNCHANGED <<policy, phase, at, cancelled, fatal, up, faults>>
    /\ UNCHANGED probe_vars /\ UNCHANGED health_vars

(* It fails again: the ones after it wait for the next attempt with it. *)
RetryFails(n) ==
    /\ Running(n) /\ task[n] = "starting" /\ faults < MaxFaults
    /\ faults' = faults + 1
    /\ task' = [task EXCEPT ![n] = "marking"]
    /\ MarkDown(n, n)
    /\ UNCHANGED <<policy, phase, at, comp, pending, cancelled, fatal>>
    /\ UNCHANGED probe_vars /\ UNCHANGED health_vars

\* Mutant of Refreshed: one attempt, as if the inner loop were the only one.
RefreshedGivesUp(n) ==
    /\ Running(n) /\ poll[n] = "idle" /\ task[n] \in {"marking", "released"}
    /\ task' = [task EXCEPT ![n] = "over"]
    /\ UNCHANGED <<policy, phase, at, comp, pending, cancelled, forced, fatal, up, poll, faults>>
    /\ UNCHANGED probe_vars /\ UNCHANGED health_vars

(* The refresh has come back: to the next attempt, or the task is over. *)
Refreshed(n) ==
    /\ Running(n) /\ poll[n] = "idle"
    /\ \/ task[n] = "marking" /\ task' = [task EXCEPT ![n] = "asleep"]
       \/ task[n] = "released" /\ task' = [task EXCEPT ![n] = "over"]
    /\ UNCHANGED <<policy, phase, at, comp, pending, cancelled, forced, fatal, up, poll, faults>>
    /\ UNCHANGED probe_vars /\ UNCHANGED health_vars

Recover(n) == RetryDue(n) \/ RetryOk(n) \/ RetryFails(n) \/ Refreshed(n)

-----------------------------------------------------------------------------
(* A client whose component has started reports that its transport cannot   *)
(* run: the process is shut down for the root and for a critical agent, any *)
(* other is latched down, and what no retry can fix fails the liveness too. *)
TransportFatal(n, deterministic) ==
    /\ phase \in {"starting", "serving"} /\ faults < MaxFaults
    /\ \E c \in Consumes : NameOf[c] = n /\ comp[c] = "started"
    /\ faults' = faults + 1
    /\ fatal' = fatal \union {n}
    /\ notLive' = IF deterministic THEN notLive \union {n} ELSE notLive
    /\ \/ /\ Gating(n)
          /\ term' = TRUE
          /\ UNCHANGED <<forced, up, poll>>
       \/ /\ ~Gating(n) /\ poll[Fatal] = "idle"
          /\ MarkDown(n, Fatal)
          /\ UNCHANGED term
    /\ UNCHANGED <<policy, phase, at, comp, pending, task, cancelled, ready>>
    /\ UNCHANGED health_vars

(* What the checks find changes under the process. *)
HealthChanges(n) ==
    /\ phase \in {"starting", "serving"} /\ flips < MaxFlips
    /\ flips' = flips + 1
    /\ \E h \in {"ok", "partly", "bad"} : h # health[n] /\ health' = [health EXCEPT ![n] = h]
    /\ UNCHANGED <<policy, phase, at, comp, pending, task, cancelled, forced, fatal, up, poll, verdict, faults>>
    /\ UNCHANGED probe_vars

-----------------------------------------------------------------------------
\* Mutant of IsReady: the policy decides for a latched agent too.
IsReadyByPolicy(p, status, latched) ==
    LET agents == Names \ {Root} IN
    /\ status[Root]
    /\ \/ agents = {}
       \/ p = "all" /\ \A n \in agents : status[n]
       \/ p = "critical" /\ \A n \in agents \intersect Critical : status[n]
       \/ p = "any" /\ \E n \in agents : status[n]

(* is_ready: whom the policy lets take the pod out of service. A latched    *)
(* agent and the root do so under every policy.                             *)
IsReady(p, status, latched) ==
    LET agents == Names \ {Root} IN
    /\ latched = {}
    /\ status[Root]
    /\ \/ agents = {}
       \/ p = "all" /\ \A n \in agents : status[n]
       \/ p = "critical" /\ \A n \in agents \intersect Critical : status[n]
       \/ p = "any" /\ \E n \in agents : status[n]

(* _aggregate_by_agent: whom the readiness counts up, and whom the          *)
(* supervisor may let consume.                                              *)
Status == [n \in Names |-> health[n] = "ok" /\ n \notin forced]
FitToConsume == {n \in Names : health[n] # "bad" /\ n \notin forced}

(* The interval job of the cache asks for a poll, until the actuator stops. *)
PollDue ==
    /\ phase \notin {"stopped", "crashed"} /\ poll[Timer] = "idle"
    /\ poll' = [poll EXCEPT ![Timer] = "asked"]
    /\ UNCHANGED <<policy, phase, at, comp, pending, task, cancelled, forced, fatal, up, faults>>
    /\ UNCHANGED probe_vars /\ UNCHANGED health_vars

(* _run_health_checks under the lock: the checks, the aggregate and the new *)
(* answer of the probe.                                                     *)
Aggregate(w) ==
    /\ phase \notin {"stopped", "crashed"} /\ poll[w] = "asked"
    /\ ready' = IsReady(policy, Status, forced)
    /\ poll' = [poll EXCEPT ![w] = "seen"]
    /\ verdict' = [verdict EXCEPT ![w] = FitToConsume]
    /\ UNCHANGED <<policy, phase, at, comp, pending, task, cancelled, forced, fatal, up, faults>>
    /\ UNCHANGED <<notLive, term, health, flips>>

(* observe, after the lock is released: the verdict may have been overtaken *)
(* by a latch, which is read again.                                         *)
Observe(w) ==
    /\ phase \notin {"stopped", "crashed"} /\ poll[w] = "seen"
    /\ up' = [n \in Names |-> n \in verdict[w] \ forced]
    /\ poll' = [poll EXCEPT ![w] = "idle"]
    /\ verdict' = [verdict EXCEPT ![w] = {}]
    /\ UNCHANGED <<policy, phase, at, comp, pending, task, cancelled, forced, fatal, faults>>
    /\ UNCHANGED probe_vars /\ UNCHANGED <<health, flips>>

Polls == PollDue \/ \E w \in Pollers : Aggregate(w) \/ Observe(w)

-----------------------------------------------------------------------------
(* The deployment ends the process. *)
Terminate ==
    /\ phase = "serving" /\ ~term
    /\ term' = TRUE
    /\ UNCHANGED <<policy, phase, at, comp, pending, task, cancelled, forced, fatal, up, poll, faults, ready, notLive>>
    /\ UNCHANGED health_vars

\* Mutant of CancelRecovery: the components are stopped while the tasks still retry.
CancelForgotten ==
    /\ phase = "serving" /\ term
    /\ phase' = "stopping"
    /\ UNCHANGED <<policy, at, comp, pending, task, cancelled, forced, fatal, up, poll, faults>>
    /\ UNCHANGED probe_vars /\ UNCHANGED health_vars

(* _stop_startup_recovery, first of all: the tasks are cancelled, and each  *)
(* ends at the await it is in.                                              *)
CancelRecovery ==
    /\ phase = "serving" /\ term
    /\ phase' = "ending"
    /\ cancelled' = TRUE
    /\ UNCHANGED <<policy, at, comp, pending, task, forced, fatal, up, poll, faults>>
    /\ UNCHANGED probe_vars /\ UNCHANGED health_vars

RecoveryEnds(n) ==
    /\ cancelled /\ task[n] \notin {"none", "over"}
    /\ task' = [task EXCEPT ![n] = "over"]
    /\ poll' = [poll EXCEPT ![n] = "idle"]
    /\ verdict' = [verdict EXCEPT ![n] = {}]
    /\ UNCHANGED <<policy, phase, at, comp, pending, cancelled, forced, fatal, up, faults>>
    /\ UNCHANGED probe_vars /\ UNCHANGED <<health, flips>>

StartStopping ==
    /\ phase = "ending"
    /\ \A n \in Names : task[n] \in {"none", "over"}
    /\ phase' = "stopping"
    /\ UNCHANGED <<policy, at, comp, pending, task, cancelled, forced, fatal, up, poll, faults>>
    /\ UNCHANGED probe_vars /\ UNCHANGED health_vars

(* Every component is stopped, whether or not it started and whether or not *)
(* another's stop raised, the kinds in the reverse of their start order.    *)
Stop(c) ==
    /\ phase = "stopping" /\ comp[c] # "stopped"
    /\ \A d \in Comps : KindOf[d] > KindOf[c] => comp[d] = "stopped"
    /\ comp' = [comp EXCEPT ![c] = "stopped"]
    /\ UNCHANGED <<policy, phase, at, pending, task, cancelled, forced, fatal, up, poll, faults>>
    /\ UNCHANGED probe_vars /\ UNCHANGED health_vars

(* The actuator last: no poll runs after it. *)
Stopped ==
    /\ phase = "stopping" /\ \A c \in Comps : comp[c] = "stopped"
    /\ phase' = "stopped"
    /\ UNCHANGED <<policy, at, comp, pending, task, cancelled, forced, fatal, up, poll, faults>>
    /\ UNCHANGED probe_vars /\ UNCHANGED health_vars

Shutdown ==
    \/ CancelRecovery \/ StartStopping \/ Stopped
    \/ \E n \in Names : RecoveryEnds(n)
    \/ \E c \in Comps : Stop(c)

-----------------------------------------------------------------------------
Next ==
    \/ StartOk \/ \E d \in BOOLEAN : StartFails(d)
    \/ Serve
    \/ \E n \in Names : Recover(n)
    \/ \E n \in Names, d \in BOOLEAN : TransportFatal(n, d)
    \/ \E n \in Names : HealthChanges(n)
    \/ Polls
    \/ Terminate \/ Shutdown

Spec == Init /\ [][Next]_vars

(* The event loop runs an agent's recovery task and the polls it makes;     *)
(* nothing else is assumed: neither the timer's polls nor the shutdown.     *)
Fairness ==
    \A n \in Names : WF_vars(Recover(n)) /\ WF_vars(Aggregate(n) \/ Observe(n))

-----------------------------------------------------------------------------
(* An agent consumes only when every one of its components has started: a   *)
(* component that failed keeps its agent from being handed events, however  *)
(* often the rest of it starts, is polled and is retried.                   *)
Consuming(n) ==
    /\ up[n] /\ phase \in {"starting", "serving"}
    /\ \E c \in Consumes : NameOf[c] = n /\ comp[c] = "started"

ConsumesWhenStarted ==
    \A n \in Names : Consuming(n) => \A c \in Comps : NameOf[c] = n => comp[c] = "started"

(* What the shutdown has stopped is never started again: the recovery tasks *)
(* have ended before the first component is stopped.                        *)
StoppedForGood == [][\A c \in Comps : comp[c] = "stopped" => comp'[c] = "stopped"]_vars

(* An agent that failed to start is back in service without a restart once  *)
(* its components start, unless its checks fail or its transport is gone.   *)
AgentsRecover ==
    \A n \in Names :
        (phase = "serving" /\ pending[n] # <<>>)
            ~> (phase # "serving" \/ up[n] \/ health[n] = "bad" \/ n \in fatal)
=============================================================================
