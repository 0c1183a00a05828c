----------------------------- MODULE Consumption -----------------------------
(***************************************************************************)
(* How one agent's NATS client starts, stops and restarts consuming on its *)
(* default connection: clients/io/nats_client.py, driven by the health     *)
(* polls and the namespace supervisor of io/api/actuators/health.          *)
(*                                                                         *)
(* Tasks of one event loop interleave at their awaits.  A task is one of   *)
(* the Observers (a health poll that hands its verdict to the supervisor,  *)
(* or a failure that marks the agent down, with the pause or resume it     *)
(* leads to), the connect-and-subscribe Loop, and the RetryTasks of failed *)
(* resumes.  The broker's connection events come at any time.              *)
(*                                                                         *)
(* Named connections are not part of this module: the agent has none.      *)
(***************************************************************************)
EXTENDS Naturals, FiniteSets

CONSTANTS
    Topics,     \* the subjects the agent consumes
    Observers,  \* polls, refreshes and mark_down calls that may overlap
    RetryTasks, \* background resume retries that may be alive at a time
    Loop,       \* the connect-and-subscribe task
    NoOne,
    Unlimited,  \* the default of event_client_max_retries, -1
    Retries,    \* the values of event_client_max_retries that are set
    MaxFaults,  \* bound on how many faults happen
    MaxSubs     \* bound on the subscriptions counted per topic

FaultKinds == {"connect", "disconnect", "close", "subscribe", "fatal", "check", "latch", "shutdown"}

ASSUME DistinctTasks ==
    /\ Observers \cap RetryTasks = {} /\ Loop \notin Observers \cup RetryTasks
    /\ NoOne \notin Observers \cup RetryTasks \cup {Loop}
ASSUME Bounds ==
    /\ Retries \subseteq Nat \cup {Unlimited} /\ Unlimited \notin Nat
    /\ MaxFaults \in Nat /\ MaxSubs \in Nat \ {0}

VARIABLES
    conn,       \* _nats_client: absent, connected, reconnecting, or closed for good
    flag,       \* the client's flags, and two settings that never change: jetstream, retries
    subs,       \* _subscriptions: how many live ones there are on each topic
    task,       \* where each task has got to, and the topics it still has to subscribe
    attempts,   \* failed attempts of the loop
    current,    \* _resume_retry
    lock,       \* the pause that holds _change_lock
    rechecking, \* _on_reconnected awaits _ensure_broker_state
    fatal,      \* a fatal error on its way to _on_transport_fatal: "none", "pending", "handled"
    sup,        \* the supervisor: what it last recorded, its latch, and the startup recovery that releases it
    other,      \* the agent's health checks other than this client pass
    closer,     \* close(): "no", "draining" or "done"
    faults      \* how many faults there were, which kinds happen, and which observers there are;
                \* and wiped, for the properties: the loop's drop took what a resume had subscribed

client == <<conn, flag, subs, attempts, current, lock, rechecking, fatal>>
vars == <<client, task, sup, other, closer, faults>>

Tasks == Observers \cup RetryTasks \cup {Loop}
Steps == {"off", "connecting", "subscribing", "broken", "dropping", "sleeping", "locking",
          "healthy", "unhealthy", "cancelled", "draining", "settling", "to pause", "to resume"}

TypeOK ==
    /\ conn \in {"none", "up", "down", "dead"}
    /\ flag \in [managed : BOOLEAN, paused : BOOLEAN, ready : BOOLEAN,
                 closing : BOOLEAN, orphaned : BOOLEAN, refused : BOOLEAN,
                 jetstream : BOOLEAN, retries : Retries]
    /\ subs \in [Topics -> 0..MaxSubs]
    /\ task \in [Tasks -> [at : Steps, todo : SUBSET Topics]]
    /\ attempts \in Nat /\ (flag.retries # Unlimited => attempts <= flag.retries)
    /\ current \in RetryTasks \cup {NoOne}
    /\ lock \in Observers \cup {NoOne}
    /\ rechecking \in BOOLEAN /\ fatal \in {"none", "pending", "handled"}
    /\ sup \in [up : BOOLEAN, forced : {"no", "startup", "fatal"}, recovery : {"none", "running", "done"}]
    /\ other \in BOOLEAN
    /\ closer \in {"no", "draining", "done"}
    /\ faults \in [count : 0..MaxFaults, kinds : SUBSET FaultKinds, observers : SUBSET Observers,
                  wiped : BOOLEAN]

-----------------------------------------------------------------------------
(* Helpers.                                                                *)

At(step) == [at |-> step, todo |-> {}]
Subscribing == [at |-> "subscribing", todo |-> Topics]
NoSubs == [t \in Topics |-> 0]

Is(x, step) == task[x].at = step
Goes(x, step) == task' = [task EXCEPT ![x] = At(step)]

\* The observer can start a poll or a mark_down.
Observes(o) == o \in faults.observers /\ Is(o, "off")

\* A fault of this kind happens, and is counted.
Fault(kind) ==
    /\ kind \in faults.kinds /\ faults.count < MaxFaults
    /\ faults' = [faults EXCEPT !.count = @ + 1]

\* _start_retry_task: the tasks tk with the loop running.
LoopStarted(tk) ==
    IF tk[Loop].at = "off" THEN [tk EXCEPT ![Loop] = At("connecting")] ELSE tk

\* _report_fatal: the handler is called for the first fatal error only.
Reported == IF fatal = "none" THEN "pending" ELSE fatal

\* Topics can be subscribed: Core NATS does so while nats-py reconnects, too.
Reachable == conn = "up" \/ (conn = "down" /\ ~flag.jetstream)

\* Mutant of ClientHealthy: a paused client is unhealthy, as its subscriptions are not ready.
ClientHealthyUnlessPaused == ~flag.refused /\ conn = "up" /\ (~flag.managed \/ flag.ready)

\* The client's own check (health_check), and the verdict of a poll on the agent.
\* A client whose server once refused JetStream stays unhealthy (_jetstream_mismatch).
ClientHealthy ==
    ~flag.refused /\ conn = "up" /\ (flag.paused \/ ~flag.managed \/ flag.ready)
AgentHealthy == ClientHealthy /\ other /\ sup.forced = "no"

-----------------------------------------------------------------------------
(* The broker and the rest of the process.                                 *)

Init ==
    /\ conn = "none"
    /\ flag \in [managed : {FALSE}, paused : {FALSE}, ready : {FALSE}, closing : {FALSE},
                 orphaned : {FALSE}, refused : {FALSE}, jetstream : BOOLEAN, retries : Retries]
    /\ subs = NoSubs
    /\ task = [x \in Tasks |-> At("off")]
    /\ attempts = 0 /\ current = NoOne /\ lock = NoOne
    /\ rechecking = FALSE /\ fatal = "none"
    /\ sup = [up |-> TRUE, forced |-> "no", recovery |-> "none"]
    /\ other = TRUE /\ closer = "no"
    /\ faults \in [count : {0}, kinds : SUBSET FaultKinds, observers : SUBSET Observers, wiped : {FALSE}]

\* Another health check of the agent starts to fail, or passes again.
CheckFails ==
    /\ other /\ Fault("check") /\ other' = FALSE
    /\ UNCHANGED <<client, task, sup, closer>>
CheckPasses ==
    /\ ~other /\ other' = TRUE
    /\ UNCHANGED <<client, task, sup, closer, faults>>

\* subscribe(): the topics are registered and the loop started, unless paused.
Subscribe ==
    /\ ~flag.managed /\ ~flag.closing
    /\ flag' = [flag EXCEPT !.managed = TRUE, !.ready = FALSE]
    /\ task' = IF flag.paused THEN task ELSE LoopStarted(task)
    /\ UNCHANGED <<conn, subs, attempts, current, lock, rechecking, fatal, sup, other, closer, faults>>

\* _on_disconnected: nats-py starts to reconnect.
Disconnect ==
    /\ conn = "up" /\ Fault("disconnect")
    /\ conn' = "down"
    /\ flag' = [flag EXCEPT !.ready = FALSE]
    /\ UNCHANGED <<subs, attempts, current, lock, rechecking, fatal, task, sup, other, closer>>

\* _on_reconnected: nothing while paused; with JetStream the broker's state is re-checked first.
Reconnect ==
    /\ conn = "down"
    /\ conn' = "up"
    /\ LET acts == flag.managed /\ ~flag.paused IN
       /\ rechecking' = (rechecking \/ (acts /\ flag.jetstream))
       /\ flag' = [flag EXCEPT !.ready = @ \/ (acts /\ ~flag.jetstream)]
    /\ UNCHANGED <<subs, attempts, current, lock, fatal, task, sup, other, closer, faults>>

\* _ensure_broker_state has answered: ready again, or not, or a final refusal.
Rechecked ==
    /\ rechecking /\ rechecking' = FALSE
    /\ \/ /\ flag' = [flag EXCEPT !.ready = TRUE]
          /\ UNCHANGED <<fatal, faults>>
       \/ /\ IF conn = "up" THEN Fault("subscribe") ELSE UNCHANGED faults
          /\ UNCHANGED <<flag, fatal>>
       \/ /\ Fault("fatal") /\ fatal' = Reported
          /\ UNCHANGED flag
    /\ UNCHANGED <<conn, subs, attempts, current, lock, task, sup, other, closer>>

\* _on_closed: nats-py gave up reconnecting, so whatever awaits it fails.
Die ==
    /\ conn = "down" /\ Fault("close")
    /\ conn' = "dead"
    /\ LET broken == [x \in Tasks |-> IF Is(x, "subscribing") THEN At("broken") ELSE task[x]] IN
       IF flag.closing \/ ~flag.managed
       THEN task' = broken /\ UNCHANGED <<flag, subs>>
       ELSE /\ flag' = [flag EXCEPT !.ready = FALSE]
            /\ subs' = NoSubs
            /\ task' = LoopStarted(broken)
    /\ UNCHANGED <<attempts, current, lock, rechecking, fatal, sup, other, closer>>

-----------------------------------------------------------------------------
(* The connect-and-subscribe loop (_start_with_retry), and the resumes of  *)
(* the observers and the retry tasks (_try_resume), which share            *)
(* _subscribe_all and _drop_subscriptions.                                 *)

\* _connect_and_subscribe after the connect and the drop: with no
\* subscriptions left, subscribe -- or leave it to the resume, if paused.
LoopProceeds ==
    task' = [task EXCEPT ![Loop] = IF flag.paused THEN At("off") ELSE Subscribing]

\* Mutant of LoopFails: gives up one attempt too late.
LoopFailsOffByOne ==
    LET gaveUp == flag.retries # Unlimited /\ attempts > flag.retries IN
    /\ flag' = [flag EXCEPT !.ready = FALSE, !.orphaned = @ \/ gaveUp]
    /\ attempts' = IF gaveUp \/ flag.retries = Unlimited THEN 0 ELSE attempts + 1
    /\ Goes(Loop, IF gaveUp THEN "off" ELSE "sleeping")

\* The attempt failed: sleep, or give up and report the agent orphaned.
LoopFails ==
    LET gaveUp == flag.retries # Unlimited /\ attempts + 1 > flag.retries IN
    /\ flag' = [flag EXCEPT !.ready = FALSE, !.orphaned = @ \/ gaveUp]
    /\ attempts' = IF gaveUp \/ flag.retries = Unlimited THEN 0 ELSE attempts + 1
    /\ Goes(Loop, IF gaveUp THEN "off" ELSE "sleeping")

\* _connect_and_subscribe on a client that is there: on to the drop, or past it.
LoopHasClient ==
    IF subs = NoSubs THEN LoopProceeds ELSE Goes(Loop, "dropping")

\* connect(), called by the loop: at once if there is a client, else the broker answers.
LoopConnect ==
    /\ Is(Loop, "connecting")
    /\ conn' = IF conn = "down" THEN conn ELSE "up"
    /\ LoopHasClient
    /\ UNCHANGED <<flag, subs, attempts, current, lock, rechecking, fatal, sup, other, closer, faults>>

\* No connection -- or one whose server has not answered for JetStream.
LoopConnectFails ==
    /\ Is(Loop, "connecting") /\ conn \in {"none", "dead"} /\ Fault("connect")
    /\ conn' \in {conn} \cup (IF flag.jetstream THEN {"up"} ELSE {})
    /\ LoopFails
    /\ UNCHANGED <<subs, current, lock, rechecking, fatal, sup, other, closer>>

\* The server is there and does not offer JetStream to the account: closed, and
\* final like any DeterministicTransportError (_require_jetstream).
LoopRefused ==
    /\ Is(Loop, "connecting") /\ conn \in {"none", "dead"} /\ flag.jetstream /\ Fault("fatal")
    /\ conn' = "none"
    /\ flag' = [flag EXCEPT !.ready = FALSE, !.refused = TRUE]
    /\ fatal' = Reported
    /\ attempts' = 0
    /\ Goes(Loop, "off")
    /\ UNCHANGED <<subs, current, lock, rechecking, sup, other, closer>>

\* The next attempt: with a client there, connect() does not even yield.
LoopWakes ==
    /\ Is(Loop, "sleeping")
    /\ IF conn \in {"none", "dead"} THEN Goes(Loop, "connecting") ELSE LoopHasClient
    /\ UNCHANGED <<client, sup, other, closer, faults>>

\* A DeterministicTransportError while the loop subscribes: final, handed to the fatal handler.
LoopFatal ==
    /\ Is(Loop, "subscribing") /\ Fault("fatal")
    /\ flag' = [flag EXCEPT !.ready = FALSE]
    /\ fatal' = Reported
    /\ attempts' = 0
    /\ Goes(Loop, "off")
    /\ UNCHANGED <<conn, subs, current, lock, rechecking, sup, other, closer>>

\* Where x goes once all its topics are subscribed, and what it does to the flags.
Completed(x) ==
    IF x = Loop
    THEN /\ flag' = [flag EXCEPT !.ready = @ \/ ~flag.paused]
         /\ attempts' = 0
         /\ Goes(Loop, "off")
    ELSE /\ flag' = [flag EXCEPT !.paused = FALSE, !.ready = TRUE, !.orphaned = FALSE]
         /\ Goes(x, IF x \in RetryTasks /\ lock # NoOne THEN "locking" ELSE "off")
         /\ UNCHANGED attempts

\* _subscribe_one: one more topic is subscribed; after the last the task goes on.
SubscribeTopic(x) ==
    /\ Is(x, "subscribing") /\ Reachable
    /\ \E t \in task[x].todo :
        /\ subs' = [subs EXCEPT ![t] = IF @ = MaxSubs THEN @ ELSE @ + 1]
        /\ IF task[x].todo = {t}
           THEN Completed(x)
           ELSE /\ task' = [task EXCEPT ![x].todo = @ \ {t}]
                /\ UNCHANGED <<flag, attempts>>
    /\ UNCHANGED <<conn, current, lock, rechecking, fatal, sup, other, closer, faults>>

\* _try_resume has failed and dropped what it made: paused again, an orphan,
\* and retried in the background; a final error is reported, and retried all
\* the same.  tk: the tasks by then.
ResumeFails(x, tk) ==
    /\ flag' = [flag EXCEPT !.paused = TRUE, !.orphaned = TRUE]
    /\ fatal' \in {fatal} \cup (IF "fatal" \in faults.kinds THEN {Reported} ELSE {})
    /\ IF x \in RetryTasks
       THEN task' = [tk EXCEPT ![x] = At("sleeping")] /\ UNCHANGED current
       ELSE \E r \in RetryTasks :
                /\ tk[r].at = "off"
                /\ task' = [tk EXCEPT ![x] = At("off"), ![r] = At("sleeping")]
                /\ current' = r

\* _subscribe_one raised, because the connection is away or the broker refused.
\* A resume drops its subscriptions; on a client that is gone it has started the loop.
SubscribeFails(x) ==
    /\ \/ Is(x, "broken") /\ UNCHANGED faults
       \/ Is(x, "subscribing") /\ ~Reachable /\ UNCHANGED faults
       \/ Is(x, "subscribing") /\ Reachable /\ Fault("subscribe")
    /\ IF x = Loop
       THEN LoopFails /\ UNCHANGED <<current, fatal>>
       ELSE LET away == conn \in {"none", "dead"} /\ flag.managed /\ ~flag.closing
                tk   == IF away THEN LoopStarted(task) ELSE task IN
            /\ IF subs = NoSubs
               THEN ResumeFails(x, tk)
               ELSE task' = [tk EXCEPT ![x] = At("dropping")] /\ UNCHANGED <<flag, current, fatal>>
            /\ UNCHANGED attempts
    /\ UNCHANGED <<conn, subs, lock, rechecking, sup, other, closer>>

\* A resume has subscribed some of the topics, and not yet all.
HalfResumed == \E x \in Observers \cup RetryTasks : Is(x, "subscribing") /\ task[x].todo # Topics

\* _drop_subscriptions is through: the loop's takes what a resume has made, too.
Dropped(x) ==
    /\ Is(x, "dropping")
    /\ subs' = NoSubs
    /\ IF x = Loop
       THEN /\ LoopProceeds /\ UNCHANGED <<flag, current, fatal>>
            /\ faults' = [faults EXCEPT !.wiped = @ \/ HalfResumed]
       ELSE ResumeFails(x, task) /\ UNCHANGED faults
    /\ UNCHANGED <<conn, attempts, lock, rechecking, sup, other, closer>>

\* _retry_resume wakes up and tries again.
RetryWakes(r) ==
    /\ Is(r, "sleeping")
    /\ task' = [task EXCEPT ![r] = Subscribing]
    /\ UNCHANGED <<client, sup, other, closer, faults>>

\* _retry_resume has the change lock after its success, and nothing to start.
RetryLocks(r) ==
    /\ Is(r, "locking") /\ lock = NoOne
    /\ Goes(r, "off")
    /\ UNCHANGED <<client, sup, other, closer, faults>>
-----------------------------------------------------------------------------
(* An observer: the poll, the supervisor, and the pause or resume it calls. *)

\* The health checks of one poll.  The client's begins with connect(), which
\* only starts the loop -- or connects, before subscribe() and after close().
\* (What is refused to it then, on_startup asks for again.)
Poll(o) ==
    /\ Observes(o)
    /\ LET gone == conn \in {"none", "dead"}
           mine == flag.managed /\ ~flag.closing
           tk   == IF gone /\ mine THEN LoopStarted(task) ELSE task IN
       /\ IF gone /\ ~mine THEN conn' \in {conn, "up"} ELSE UNCHANGED conn
       /\ UNCHANGED <<flag, subs, attempts, current, lock, rechecking, fatal, sup, other, closer, faults>>
       /\ task' = [tk EXCEPT ![o] = At(IF AgentHealthy' THEN "healthy" ELSE "unhealthy")]

\* The change lock is the pause's: drain what the connection delivers.
PauseLocked(o) ==
    IF conn = "none"
    THEN Goes(o, "off") /\ UNCHANGED lock
    ELSE Goes(o, "draining") /\ lock' = o

\* resume_consumption past the change lock: the loop connects, or the resume subscribes.
ResumeBody(o) ==
    task' = IF conn = "none"
            THEN LoopStarted([task EXCEPT ![o] = At("off")])
            ELSE [task EXCEPT ![o] = Subscribing]

\* pause_consumption once no resume is being retried.
PauseBody(o) ==
    IF flag.paused
    THEN Goes(o, "off") /\ UNCHANGED <<flag, lock>>
    ELSE /\ flag' = [flag EXCEPT !.paused = TRUE, !.ready = FALSE]
         /\ IF lock # NoOne
            THEN Goes(o, "to pause") /\ UNCHANGED lock
            ELSE PauseLocked(o)

\* pause_consumption: a retry of a resume is cancelled, and its end awaited.
PauseBegin(o) ==
    /\ current' = NoOne
    /\ IF current # NoOne /\ ~Is(current, "off")
       THEN /\ task' = [task EXCEPT ![current] = At("off"), ![o] = At("cancelled")]
            /\ UNCHANGED <<flag, lock>>
       ELSE PauseBody(o)

\* Mutant of ResumeBegin: asks whether anything is managed before it clears the pause.
ResumeBeginManagedFirst(o) ==
    /\ flag' = [flag EXCEPT !.paused = @ /\ ~flag.managed]
    /\ IF ~flag.paused \/ ~flag.managed
       THEN Goes(o, "off")
       ELSE IF lock # NoOne THEN Goes(o, "to resume") ELSE ResumeBody(o)
    /\ UNCHANGED <<current, lock>>

\* resume_consumption: nothing unless paused, and nothing to subscribe before subscribe().
ResumeBegin(o) ==
    /\ flag' = [flag EXCEPT !.paused = FALSE]
    /\ IF ~flag.paused \/ ~flag.managed
       THEN Goes(o, "off")
       ELSE IF lock # NoOne THEN Goes(o, "to resume") ELSE ResumeBody(o)
    /\ UNCHANGED <<current, lock>>

\* The supervisor records the state, and the latch, and acts on a transition (_set).
Set(o, healthy, forced) ==
    /\ sup' = [sup EXCEPT !.up = healthy, !.forced = forced,
                          !.recovery = IF forced = "startup" /\ @ = "none" THEN "running" ELSE @]
    /\ IF healthy = sup.up
       THEN Goes(o, "off") /\ UNCHANGED <<flag, current, lock>>
       ELSE IF healthy THEN ResumeBegin(o) ELSE PauseBegin(o)
    /\ UNCHANGED <<conn, subs, attempts, rechecking>>

\* observe(): the verdict of the poll, unless the agent has been latched since.
Act(o) ==
    /\ Is(o, "healthy") \/ Is(o, "unhealthy")
    /\ Set(o, Is(o, "healthy") /\ sup.forced = "no", sup.forced)
    /\ UNCHANGED <<fatal, other, closer, faults>>

\* mark_down: a component failed to start -- before the recovery that starts it
\* again -- or the transport met a final error.
MarkDownAtStartup(o) ==
    /\ Observes(o) /\ sup.recovery = "none" /\ Fault("latch")
    /\ Set(o, FALSE, "startup")
    /\ UNCHANGED <<fatal, other, closer>>
MarkDownFatal(o) ==
    /\ Observes(o) /\ fatal = "pending"
    /\ fatal' = "handled"
    /\ Set(o, FALSE, "fatal")
    /\ UNCHANGED <<other, closer, faults>>

\* clear_forced_down: the components have started after all.  The latch is one
\* per agent, so this releases whatever it was set for.
Release ==
    /\ sup.recovery = "running"
    /\ sup' = [sup EXCEPT !.forced = "no", !.recovery = "done"]
    /\ UNCHANGED <<client, task, other, closer, faults>>

\* The cancelled retry has ended, and the pause goes on.
PauseAfterCancel(o) ==
    /\ Is(o, "cancelled")
    /\ PauseBody(o)
    /\ UNCHANGED <<conn, subs, attempts, current, rechecking, fatal, sup, other, closer, faults>>

\* The change lock is free, for the pause or the resume that waits for it.
PauseLocks(o) ==
    /\ Is(o, "to pause") /\ lock = NoOne
    /\ PauseLocked(o)
    /\ UNCHANGED <<conn, flag, subs, attempts, current, rechecking, fatal, sup, other, closer, faults>>
ResumeLocks(o) ==
    /\ Is(o, "to resume") /\ lock = NoOne
    /\ ResumeBody(o)
    /\ UNCHANGED <<client, sup, other, closer, faults>>

\* _drain_subscriptions is through, then _await_inflight.
Drained(o) ==
    /\ Is(o, "draining")
    /\ subs' = NoSubs
    /\ Goes(o, "settling")
    /\ UNCHANGED <<conn, flag, attempts, current, lock, rechecking, fatal, sup, other, closer, faults>>

\* Mutant of PauseEnds: the change lock is kept.
PauseEndsLocked(o) ==
    /\ Is(o, "settling")
    /\ Goes(o, "off")
    /\ UNCHANGED <<conn, flag, subs, attempts, current, lock, rechecking, fatal, sup, other, closer, faults>>

\* The change lock is released, and the pause returns.
PauseEnds(o) ==
    /\ Is(o, "settling")
    /\ lock' = NoOne
    /\ Goes(o, "off")
    /\ UNCHANGED <<conn, flag, subs, attempts, current, rechecking, fatal, sup, other, closer, faults>>

-----------------------------------------------------------------------------
(* Shutdown.  The actuator is shut down after the clients: polls go on.     *)

\* close(): the loop and the resume being retried are cancelled.
Close ==
    /\ closer = "no" /\ Fault("shutdown")
    /\ closer' = "draining"
    /\ flag' = [flag EXCEPT !.closing = TRUE, !.ready = FALSE]
    /\ task' = [x \in Tasks |-> IF x = Loop \/ x = current THEN At("off") ELSE task[x]]
    /\ attempts' = 0 /\ current' = NoOne
    /\ UNCHANGED <<conn, subs, lock, rechecking, fatal, sup, other>>

\* Drained, no run in flight, and the connection closed.
Closed ==
    /\ closer = "draining"
    /\ closer' = "done"
    /\ conn' = "none"
    /\ subs' = IF conn = "none" THEN subs ELSE NoSubs
    /\ task' = [x \in Tasks |-> IF Is(x, "subscribing") THEN At("broken") ELSE task[x]]
    /\ UNCHANGED <<flag, attempts, current, lock, rechecking, fatal, sup, other, faults>>

-----------------------------------------------------------------------------
(* The specification.                                                      *)

LoopSteps == LoopConnect \/ LoopConnectFails \/ LoopRefused \/ LoopWakes \/ LoopFatal
TaskSteps(x) == SubscribeTopic(x) \/ SubscribeFails(x) \/ Dropped(x)
RetrySteps(r) == TaskSteps(r) \/ RetryWakes(r) \/ RetryLocks(r)
CallSteps(o) ==
    \/ TaskSteps(o) \/ Act(o)
    \/ PauseAfterCancel(o) \/ PauseLocks(o) \/ ResumeLocks(o) \/ Drained(o) \/ PauseEnds(o)
ObserverSteps(o) == Poll(o) \/ MarkDownAtStartup(o) \/ MarkDownFatal(o) \/ CallSteps(o)
BrokerSteps == Disconnect \/ Reconnect \/ Rechecked \/ Die
ProcessSteps == CheckFails \/ CheckPasses \/ Subscribe \/ Release \/ Close \/ Closed

Next ==
    \/ BrokerSteps \/ ProcessSteps
    \/ LoopSteps \/ TaskSteps(Loop)
    \/ \E r \in RetryTasks : RetrySteps(r)
    \/ \E o \in Observers : ObserverSteps(o)

Spec == Init /\ [][Next]_vars

\* The event loop runs every ready task, sleeps end, and what a task awaits
\* answers or times out; polls recur (health_check_interval); nats-py reconnects
\* for ever unless it is told to give up; the fault of a check passes, and a
\* component that failed to start is started again until it succeeds.  A fatal
\* error is handled by a task of its own, whatever the polls do: hence SF.
Fairness ==
    /\ WF_vars(LoopConnect \/ LoopWakes) /\ WF_vars(TaskSteps(Loop))
    /\ \A r \in RetryTasks : WF_vars(RetrySteps(r))
    /\ \A o \in Observers : WF_vars(CallSteps(o)) /\ WF_vars(Poll(o))
    /\ SF_vars(\E o \in Observers : MarkDownFatal(o))
    /\ WF_vars(Reconnect) /\ WF_vars(Rechecked) /\ WF_vars(CheckPasses)
    /\ WF_vars(Subscribe) /\ WF_vars(Release) /\ WF_vars(Closed)

FairSpec == Spec /\ Fairness

-----------------------------------------------------------------------------
(* Properties.                                                             *)

\* Nothing is under way, and nothing the client has reported is waiting.
Quiet ==
    /\ \A x \in Tasks : Is(x, "off")
    /\ ~rechecking /\ fatal # "pending" /\ lock = NoOne

\* The loop has used up event_client_max_retries, and the agent is an orphan.
GaveUp == flag.retries # Unlimited /\ flag.orphaned

\* Calls do not overlap: when they do, LatchedStops shows what goes wrong.
OneCall == \A o, p \in faults.observers : o = p

\* The loop's _drop_subscriptions wipes what a resume under way has subscribed, and a
\* final error may be released with a startup latch: what goes wrong then is in the README.
Spared == ~faults.wiped /\ fatal = "none"

\* At rest, an agent that is recorded as up, and has not given up, is subscribed to
\* every topic, whatever its connection is: with only transitions acted on and a
\* paused client reporting healthy, nobody would come to subscribe it
\* (resume_consumption, "nothing would ever call this again").
NeverAbandoned ==
    OneCall /\ Spared /\ Quiet /\ flag.managed /\ ~flag.closing /\ ~GaveUp /\ sup.up
        => \A t \in Topics : subs[t] > 0

\* At rest, an agent that is latched down consumes nothing (pause_consumption,
\* C4), whatever its polls, its resume and the broker did in the meantime.
LatchedStops ==
    Quiet /\ sup.forced # "no" => subs = NoSubs

\* An agent with a final transport error "is marked down, and stays down: unlike
\* a startup failure, this is a deployment error that no retry fixes" (_on_transport_fatal).
FatalStaysDown == fatal = "handled" => sup.forced # "no"

\* Once the faults are over, the agent consumes every topic for good -- unless
\* it was closed, wiped, met a final error, or gave up after event_client_max_retries.
EventuallyConsumes ==
    <>[](\/ ~OneCall \/ flag.closing \/ ~Spared \/ GaveUp
         \/ conn = "up" /\ ~flag.paused /\ \A t \in Topics : subs[t] > 0)

\* Every pause and resume ends, whatever holds the change lock and whichever
\* retry it has to cancel.
CallsEnd == \A o \in Observers : ~Is(o, "off") ~> Is(o, "off")
=============================================================================
