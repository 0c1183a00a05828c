------------------------------ MODULE Sessions ------------------------------
(***************************************************************************)
(* How replicas of one agent take jobs from the sessions service: the      *)
(* event stream with its reconnects and the catch-up that follows each of  *)
(* them, the bounded job tasks, the job's life from the key to the final   *)
(* report, and pause, resume and shutdown                                  *)
(* (io/api/eventing/sessions_bus.py, handler/sessions_job_handler.py).     *)
(*                                                                         *)
(* The service is external: a job is pending, then running, then           *)
(* completed, failed or cancelled; only a pending job can be started, only *)
(* a running one completed or failed, and either of them cancelled; every  *)
(* other request is refused (409).                                         *)
(***************************************************************************)
EXTENDS Naturals, FiniteSets

CONSTANTS
    Jobs,
    Replicas,
    Copies,        \* bound on a replica's notifications of one job that are alive at a time
    Slots,         \* max_concurrent_jobs
    MaxReconnects, \* sse_max_reconnect_attempts
    Faults,        \* the kinds of faults that happen, each at most once
    MaxFaults      \* bound on how many of them happen

Pauses == {"pause", "pause again"}
FaultKinds == {"connect", "drop", "listing", "key", "refused", "call", "stale", "retryable", "timeout",
               "forgotten", "shutdown"} \cup Pauses

ASSUME Sets ==
    /\ Faults \subseteq FaultKinds
    /\ Replicas \cap (Replicas \X Jobs \X Copies) = {}
ASSUME Numbers == Slots \in Nat \ {0} /\ MaxReconnects \in Nat \ {0} /\ MaxFaults \in Nat

VARIABLES
    job,      \* the service's view of each job
    malformed, \* those whose payload the handler will reject
    stream,   \* each replica's stream task; "stopping" is one that was cancelled and has not ended
    attempts, \* how often that task has tried to connect
    wire,     \* the jobs whose notification is on its way over the stream
    catchup,  \* a catch-up waits for the service's listing
    bus,      \* the replica is started, paused, and how far its shutdown has got; and, as a
              \* history, whether its last resume met a stream task that had not ended
    drain,    \* the tasks the shutdown waits for; a replica stands for its catch-up
    task,     \* how far each notification has got, what is to be reported, and whether the key was renewed
    inflight, \* the jobs in the handler's in-flight guard
    seen,     \* the jobs it remembers as finished
    tried,    \* the jobs that some replica has taken up
    faults    \* the kinds of faults that have happened

link == <<stream, attempts, wire, catchup>>
handler == <<inflight, seen>>
vars == <<job, malformed, link, bus, drain, task, handler, tried, faults>>

Tasks == Replicas \X Jobs \X Copies
Final == {"completed", "failed", "cancelled"}
Stages == {"none", "spawned", "queued", "keying", "fetching", "starting", "processing", "finishing", "cancelling"}

TypeOK ==
    /\ job \in [Jobs -> {"none", "pending", "running"} \cup Final]
    /\ malformed \subseteq Jobs
    /\ stream \in [Replicas -> {"off", "connecting", "open", "backoff", "stopping"}]
    /\ attempts \in [Replicas -> 0..MaxReconnects]
    /\ wire \in [Replicas -> SUBSET Jobs] /\ catchup \in [Replicas -> BOOLEAN]
    /\ bus \in [Replicas -> [started : BOOLEAN, paused : BOOLEAN, missed : BOOLEAN,
                             closing : {"no", "stopping", "draining", "done"}]]
    /\ drain \in [Replicas -> SUBSET (Tasks \cup Replicas)]
    /\ task \in [Tasks -> [at : Stages, verdict : {"none"} \cup Final, renewed : BOOLEAN]]
    /\ inflight \in [Replicas -> SUBSET Jobs] /\ seen \in [Replicas -> SUBSET Jobs]
    /\ tried \subseteq Jobs /\ faults \subseteq Faults

-----------------------------------------------------------------------------
(* Helpers.                                                                *)

On(x) == x[1]
JobOf(x) == x[2]
Is(x, stage) == task[x].at = stage
Goes(x, stage) == task' = [task EXCEPT ![x].at = stage]

NoTask == [at |-> "none", verdict |-> "none", renewed |-> FALSE]
Dropped(x) == task' = [task EXCEPT ![x] = NoTask]

\* A fault of this kind happens, for the first time.
Fault(kind) ==
    /\ kind \in Faults \ faults /\ Cardinality(faults) < MaxFaults
    /\ faults' = faults \cup {kind}

\* The job leaves the in-flight guard of the replica's handler.
Discards(x) == inflight' = [inflight EXCEPT ![On(x)] = @ \ {JobOf(x)}]

\* The task of x ends, and with it its claim on the job, if it had one.
Ends(x) ==
    /\ Dropped(x)
    /\ IF task[x].at \in {"fetching", "starting", "processing", "finishing"}
       THEN Discards(x) ELSE UNCHANGED inflight

\* The stages inside the semaphore, and the free places it has.
Held == {"keying", "fetching", "starting", "processing", "finishing", "cancelling"}
SlotFree(r) == Cardinality({x \in Tasks : On(x) = r /\ task[x].at \in Held}) < Slots

\* What is alive of a replica's tracked tasks (_inflight_tasks).
Alive(r) == {x \in Tasks : On(x) = r /\ ~Is(x, "none")} \cup {q \in {r} : catchup[q]}

\* A task for each of the jobs J: _spawn_tracked(_handle_job_notification).
FreeCopies(r, j) == {c \in Copies : Is(<<r, j, c>>, "none")}
Spawned(r, J) ==
    /\ \A j \in J : FreeCopies(r, j) # {}
    /\ LET new == {<<r, j, CHOOSE c \in FreeCopies(r, j) : TRUE>> : j \in J}
       IN  task' = [x \in Tasks |-> IF x \in new THEN [NoTask EXCEPT !.at = "spawned"] ELSE task[x]]

-----------------------------------------------------------------------------
(* The service.                                                            *)

\* A job is created, and pushed to the agents connected.
Create(j) ==
    /\ job[j] = "none"
    /\ job' = [job EXCEPT ![j] = "pending"]
    /\ wire' = [r \in Replicas |-> wire[r] \cup {k \in {j} : stream[r] = "open"}]
    /\ UNCHANGED <<malformed, stream, attempts, catchup, bus, drain, task, handler, tried, faults>>

\* Whether the service grants a report, and the job after it.
Grants(j, verdict) == job[j] = "running" \/ (job[j] = "pending" /\ verdict = "cancelled")
Reported(j, verdict) == job' = [job EXCEPT ![j] = verdict]

\* What the service does with the request a task waits for -- it may have done
\* so, or not, when the answer is lost.
Effect(x) ==
    LET j == JobOf(x) IN
    \/ Is(x, "starting") /\ job[j] = "pending" /\ Reported(j, "running")
    \/ Is(x, "finishing") /\ Grants(j, task[x].verdict) /\ Reported(j, task[x].verdict)
    \/ Is(x, "cancelling") /\ Grants(j, "cancelled") /\ Reported(j, "cancelled")

-----------------------------------------------------------------------------
(* The stream.                                                             *)

\* Mutant of StreamStarted: a stream task that has ended counts as one.
StreamStartedOnce(r) ==
    IF attempts[r] = 0
    THEN stream' = [stream EXCEPT ![r] = "connecting"] /\ attempts' = [attempts EXCEPT ![r] = 1]
    ELSE UNCHANGED <<stream, attempts>>

\* _start_stream: a stream task, unless there is one that has not ended.
StreamStarted(r) ==
    IF stream[r] = "off"
    THEN stream' = [stream EXCEPT ![r] = "connecting"] /\ attempts' = [attempts EXCEPT ![r] = 1]
    ELSE UNCHANGED <<stream, attempts>>

\* _stop_stream: the task is cancelled; the caller waits for it to end.
StreamStops(r) == stream' = [stream EXCEPT ![r] = IF @ = "off" THEN "off" ELSE "stopping"]

\* The stream task has ended.
Stopped(r) ==
    /\ stream[r] = "stopping"
    /\ stream' = [stream EXCEPT ![r] = "off"]
    /\ wire' = [wire EXCEPT ![r] = {}]
    /\ UNCHANGED <<job, malformed, attempts, catchup, bus, drain, task, handler, tried, faults>>

\* Mutant of Connect: only the first connection of a stream is followed by a catch-up.
ConnectCatchesUpOnce(r) ==
    /\ stream[r] = "connecting"
    /\ stream' = [stream EXCEPT ![r] = "open"]
    /\ catchup' = [catchup EXCEPT ![r] = @ \/ attempts[r] = 1]
    /\ UNCHANGED <<job, malformed, attempts, wire, bus, drain, task, handler, tried, faults>>

\* Registered and connected: a catch-up is started, once the stream is open.
Connect(r) ==
    /\ stream[r] = "connecting"
    /\ stream' = [stream EXCEPT ![r] = "open"]
    /\ catchup' = [catchup EXCEPT ![r] = TRUE]
    /\ UNCHANGED <<job, malformed, attempts, wire, bus, drain, task, handler, tried, faults>>

\* The loop of _consume_sse_stream tries again, or has tried often enough.
NextAttempt(r) ==
    IF attempts[r] < MaxReconnects
    THEN stream' = [stream EXCEPT ![r] = "connecting"] /\ attempts' = [attempts EXCEPT ![r] = @ + 1]
    ELSE stream' = [stream EXCEPT ![r] = "off"] /\ UNCHANGED attempts

\* An error is followed by a pause of reconnect_delay.
ConnectFails(r) ==
    /\ stream[r] = "connecting" /\ Fault("connect")
    /\ stream' = [stream EXCEPT ![r] = "backoff"]
    /\ UNCHANGED <<job, malformed, attempts, wire, catchup, bus, drain, task, handler, tried>>

Retry(r) ==
    /\ stream[r] = "backoff"
    /\ NextAttempt(r)
    /\ UNCHANGED <<job, malformed, wire, catchup, bus, drain, task, handler, tried, faults>>

\* The service ends the stream, or the connection breaks; what is on its way is lost.
Drop(r) ==
    /\ stream[r] = "open" /\ Fault("drop")
    /\ wire' = [wire EXCEPT ![r] = {}]
    /\ NextAttempt(r) \/ (stream' = [stream EXCEPT ![r] = "backoff"] /\ UNCHANGED attempts)
    /\ UNCHANGED <<job, malformed, catchup, bus, drain, task, handler, tried>>

\* _dispatch_sse_event.
Receive(r, j) ==
    /\ stream[r] = "open" /\ j \in wire[r]
    /\ wire' = [wire EXCEPT ![r] = @ \ {j}]
    /\ Spawned(r, {j})
    /\ UNCHANGED <<job, malformed, stream, attempts, catchup, bus, drain, handler, tried, faults>>

\* Mutant of CatchUp: it goes on while the agent shuts down.
CatchUpRegardless(r) ==
    /\ catchup[r]
    /\ catchup' = [catchup EXCEPT ![r] = FALSE]
    /\ \/ Spawned(r, {j \in Jobs : job[j] = "pending"}) /\ UNCHANGED faults
       \/ Fault("listing") /\ UNCHANGED task
    /\ UNCHANGED <<job, malformed, stream, attempts, wire, bus, drain, handler, tried>>

\* _run_catch_up: a task for every job that is pending, unless the listing
\* fails or the agent shuts down meanwhile.
CatchUp(r) ==
    /\ catchup[r]
    /\ catchup' = [catchup EXCEPT ![r] = FALSE]
    /\ IF bus[r].closing = "no"
       THEN \/ Spawned(r, {j \in Jobs : job[j] = "pending"}) /\ UNCHANGED faults
            \/ Fault("listing") /\ UNCHANGED task
       ELSE UNCHANGED <<task, faults>>
    /\ UNCHANGED <<job, malformed, stream, attempts, wire, bus, drain, handler, tried>>

-----------------------------------------------------------------------------
(* A job's task.                                                           *)

\* _handle_job_notification: a paused agent leaves the job; otherwise the task
\* takes a place, or waits for one.
Begin(x) ==
    /\ Is(x, "spawned")
    /\ IF bus[On(x)].paused
       THEN Dropped(x) /\ UNCHANGED tried
       ELSE IF SlotFree(On(x))
       THEN Goes(x, "keying") /\ tried' = tried \cup {JobOf(x)}
       ELSE Goes(x, "queued") /\ UNCHANGED tried
    /\ UNCHANGED <<job, malformed, link, bus, drain, handler, faults>>

\* The semaphore's place: the pause flag is not read again.
Enter(x) ==
    /\ Is(x, "queued") /\ SlotFree(On(x))
    /\ Goes(x, "keying")
    /\ tried' = tried \cup {JobOf(x)}
    /\ UNCHANGED <<job, malformed, link, bus, drain, handler, faults>>

\* Mutant of Known: only finished jobs are recognised, not those in flight.
KnownFinished(r, j) == j \in seen[r]

\* Mutant of Known: only jobs in flight are recognised, not the finished ones.
KnownInFlight(r, j) == j \in inflight[r]

\* The handler's guards: the job is being processed, or was.
Known(r, j) == j \in inflight[r] \cup seen[r]

\* The session key is there: the event is dispatched, and the handler takes the
\* job unless it knows it.
GetKey(x) ==
    /\ Is(x, "keying")
    /\ IF Known(On(x), JobOf(x))
       THEN Dropped(x) /\ UNCHANGED inflight
       ELSE Goes(x, "fetching") /\ inflight' = [inflight EXCEPT ![On(x)] = @ \cup {JobOf(x)}]
    /\ UNCHANGED <<job, malformed, link, bus, drain, seen, tried, faults>>

\* No key for now, or another agent has claimed it: the job is left pending --
\* cancelled, if this was the renewal of a stale key and the failure not transient.
KeyFails(x) ==
    /\ Is(x, "keying") /\ Fault("key")
    /\ Dropped(x) \/ (task[x].renewed /\ Goes(x, "cancelling"))
    /\ UNCHANGED <<job, malformed, link, bus, drain, handler, tried>>

\* The key is refused, and obtained when it is asked for again to cancel the job.
KeyRefused(x) ==
    /\ Is(x, "keying") /\ Fault("refused")
    /\ Goes(x, "cancelling")
    /\ UNCHANGED <<job, malformed, link, bus, drain, handler, tried>>

\* get_job_detail, and the validation of its payload.
Fetch(x) ==
    /\ Is(x, "fetching")
    /\ task' = IF JobOf(x) \in malformed
               THEN [task EXCEPT ![x].at = "finishing", ![x].verdict = "cancelled"]
               ELSE [task EXCEPT ![x].at = "starting"]
    /\ UNCHANGED <<job, malformed, link, bus, drain, handler, tried, faults>>

\* A request was refused: the handler gives the job up, and the bus cancels it
\* (_cancel_on_terminal_http_error).
Refused(x) ==
    /\ Goes(x, "cancelling")
    /\ Discards(x)
    /\ UNCHANGED <<job, seen>>

Start(x) ==
    /\ Is(x, "starting")
    /\ IF job[JobOf(x)] = "pending"
       THEN Reported(JobOf(x), "running") /\ Goes(x, "processing") /\ UNCHANGED handler
       ELSE Refused(x)
    /\ UNCHANGED <<malformed, link, bus, drain, tried, faults>>

\* process() and failure_of() have decided what the job comes to.
Process(x) ==
    /\ Is(x, "processing")
    /\ \E verdict \in Final :
        task' = [task EXCEPT ![x].at = "finishing", ![x].verdict = verdict]
    /\ UNCHANGED <<job, malformed, link, bus, drain, handler, tried, faults>>

\* A retryable or critical error of process(): the job is left as it is -- or
\* cancelled, for a critical one after the key was renewed.
ProcessFails(x) ==
    /\ Is(x, "processing") /\ Fault("retryable")
    /\ \/ Ends(x) /\ UNCHANGED <<job, seen>>
       \/ task[x].renewed /\ Refused(x)
    /\ UNCHANGED <<malformed, link, bus, drain, tried>>

\* _complete, _fail and _cancel: reported, and only then remembered as finished.
Finish(x) ==
    /\ Is(x, "finishing")
    /\ IF Grants(JobOf(x), task[x].verdict)
       THEN /\ Reported(JobOf(x), task[x].verdict)
            /\ seen' = [seen EXCEPT ![On(x)] = @ \cup {JobOf(x)}]
            /\ Ends(x)
       ELSE Refused(x)
    /\ UNCHANGED <<malformed, link, bus, drain, tried, faults>>

\* A request is lost, or its answer: the job is left as it is.  The report of a
\* completed or failed job may be repeated first (_terminal_with_retry); that
\* of a cancelled one is not, and fails for good after the key was renewed.
CallFails(x) ==
    /\ task[x].at \in {"fetching", "starting", "finishing", "cancelling"} /\ Fault("call")
    /\ Effect(x) \/ UNCHANGED job
    /\ \/ Ends(x)
       \/ task[x].verdict \in {"completed", "failed"} /\ Is(x, "finishing") /\ UNCHANGED <<task, inflight>>
       \/ task[x].verdict = "cancelled" /\ Is(x, "finishing") /\ task[x].renewed
          /\ Goes(x, "cancelling") /\ Discards(x)
    /\ UNCHANGED <<malformed, link, bus, drain, seen, tried>>

\* Mutant of Forbidden: the job stays in the in-flight guard.
ForbiddenKeepsGuard(x) ==
    /\ task[x].at \in {"keying", "fetching", "starting", "finishing"} /\ Fault("stale")
    /\ task' = [task EXCEPT ![x].at = IF task[x].renewed THEN "cancelling" ELSE "keying", ![x].renewed = TRUE]
    /\ UNCHANGED <<job, malformed, link, bus, drain, handler, tried>>

\* The key is stale (403), or not given out: it is renewed, and the event
\* dispatched once more (_retry_with_fresh_key).
Forbidden(x) ==
    /\ task[x].at \in {"keying", "fetching", "starting", "finishing"} /\ Fault("stale")
    /\ task' = [task EXCEPT ![x].at = IF task[x].renewed THEN "cancelling" ELSE "keying", ![x].renewed = TRUE]
    /\ IF Is(x, "keying") THEN UNCHANGED inflight ELSE Discards(x)
    /\ UNCHANGED <<job, malformed, link, bus, drain, seen, tried>>

\* _cancel_invalid_job, which only logs a refusal.
CancelJob(x) ==
    /\ Is(x, "cancelling")
    /\ Dropped(x)
    /\ IF Grants(JobOf(x), "cancelled") THEN Reported(JobOf(x), "cancelled") ELSE UNCHANGED job
    /\ UNCHANGED <<malformed, link, bus, drain, handler, tried, faults>>

\* job_timeout ends the task, whatever it waits for.
TimesOut(x) ==
    /\ task[x].at \in Held /\ Fault("timeout")
    /\ Ends(x)
    /\ Effect(x) \/ UNCHANGED job
    /\ UNCHANGED <<malformed, link, bus, drain, seen, tried>>

\* RecentJobIds forgets a finished job after a while, and the oldest when there
\* are too many.
Forget(r, j) ==
    /\ j \in seen[r] /\ Fault("forgotten")
    /\ seen' = [seen EXCEPT ![r] = @ \ {j}]
    /\ UNCHANGED <<job, malformed, link, bus, drain, task, inflight, tried>>

-----------------------------------------------------------------------------
(* Startup, pause, resume and shutdown.                                    *)

\* on_startup: a bus that was marked down before leaves its stream closed.
Startup(r) ==
    /\ ~bus[r].started /\ bus[r].closing = "no"
    /\ bus' = [bus EXCEPT ![r].started = TRUE]
    /\ IF bus[r].paused THEN UNCHANGED <<stream, attempts>> ELSE StreamStarted(r)
    /\ UNCHANGED <<job, malformed, wire, catchup, drain, task, handler, tried, faults>>

\* pause_consumption, up to its wait for the stream to stop.
Pause(r) ==
    /\ ~bus[r].paused /\ \E kind \in Pauses : Fault(kind)
    /\ bus' = [bus EXCEPT ![r].paused = TRUE, ![r].missed = FALSE]
    /\ StreamStops(r)
    /\ UNCHANGED <<job, malformed, attempts, wire, catchup, drain, task, handler, tried>>

\* resume_consumption, which may come while the pause still waits for the
\* stream to stop: _start_stream then finds a task that has not ended.
Resume(r) ==
    /\ bus[r].paused
    /\ bus' = [bus EXCEPT ![r].paused = FALSE, ![r].missed = stream[r] = "stopping"]
    /\ IF bus[r].started /\ bus[r].closing = "no" THEN StreamStarted(r) ELSE UNCHANGED <<stream, attempts>>
    /\ UNCHANGED <<job, malformed, wire, catchup, drain, task, handler, tried, faults>>

\* on_shutdown, up to its wait for the stream to stop.
Shutdown(r) ==
    /\ bus[r].started /\ bus[r].closing = "no" /\ Fault("shutdown")
    /\ bus' = [bus EXCEPT ![r].closing = "stopping"]
    /\ StreamStops(r)
    /\ UNCHANGED <<job, malformed, attempts, wire, catchup, drain, task, handler, tried>>

\* _drain_inflight_jobs waits for the tasks there are.
Drain(r) ==
    /\ bus[r].closing = "stopping" /\ stream[r] = "off"
    /\ bus' = [bus EXCEPT ![r].closing = "draining"]
    /\ drain' = [drain EXCEPT ![r] = Alive(r)]
    /\ UNCHANGED <<job, malformed, link, task, handler, tried, faults>>

\* It has waited for job_timeout: the tasks left are cancelled.
DrainTimesOut(r) ==
    /\ bus[r].closing = "draining" /\ drain[r] \cap Alive(r) # {} /\ Fault("timeout")
    /\ task' = [x \in Tasks |-> IF x \in drain[r] THEN NoTask ELSE task[x]]
    /\ catchup' = [catchup EXCEPT ![r] = @ /\ r \notin drain[r]]
    /\ inflight' = [inflight EXCEPT ![r] = @ \ {JobOf(x) : x \in drain[r] \cap Tasks}]
    /\ UNCHANGED <<job, malformed, stream, attempts, wire, bus, drain, seen, tried>>

\* unregister_agent.
Unregister(r) ==
    /\ bus[r].closing = "draining" /\ drain[r] \cap Alive(r) = {}
    /\ bus' = [bus EXCEPT ![r].closing = "done"]
    /\ UNCHANGED <<job, malformed, link, drain, task, handler, tried, faults>>

-----------------------------------------------------------------------------
(* The specification.                                                      *)

Init ==
    /\ job = [j \in Jobs |-> "none"] /\ malformed \in SUBSET Jobs
    /\ stream = [r \in Replicas |-> "off"] /\ attempts = [r \in Replicas |-> 0]
    /\ wire = [r \in Replicas |-> {}] /\ catchup = [r \in Replicas |-> FALSE]
    /\ bus = [r \in Replicas |-> [started |-> FALSE, paused |-> FALSE, missed |-> FALSE, closing |-> "no"]]
    /\ drain = [r \in Replicas |-> {}]
    /\ task = [x \in Tasks |-> NoTask]
    /\ inflight = [r \in Replicas |-> {}] /\ seen = [r \in Replicas |-> {}]
    /\ tried = {} /\ faults = {}

StreamSteps(r) == Stopped(r) \/ Connect(r) \/ ConnectFails(r) \/ Retry(r) \/ Drop(r) \/ \E j \in Jobs : Receive(r, j)
TaskSteps(x) ==
    \/ Begin(x) \/ Enter(x) \/ GetKey(x) \/ KeyFails(x) \/ KeyRefused(x) \/ Fetch(x) \/ Start(x) \/ Process(x)
    \/ ProcessFails(x) \/ Finish(x) \/ CallFails(x) \/ Forbidden(x) \/ CancelJob(x) \/ TimesOut(x)
LifeSteps(r) ==
    Startup(r) \/ Pause(r) \/ Resume(r) \/ Shutdown(r) \/ Drain(r) \/ DrainTimesOut(r) \/ Unregister(r)

Next ==
    \/ \E j \in Jobs : Create(j)
    \/ \E r \in Replicas : StreamSteps(r) \/ CatchUp(r) \/ LifeSteps(r)
    \/ \E x \in Tasks : TaskSteps(x)
    \/ \E r \in Replicas, j \in Jobs : Forget(r, j)

Spec == Init /\ [][Next]_vars

\* The event loop runs its tasks, the service answers (the client's timeouts see
\* to it), handlers return, and a paused agent is resumed in the end.
Fairness ==
    /\ \A r \in Replicas :
        /\ WF_vars(StreamSteps(r)) /\ WF_vars(CatchUp(r)) /\ WF_vars(Startup(r))
        /\ WF_vars(Resume(r)) /\ WF_vars(Drain(r)) /\ WF_vars(Unregister(r))
    /\ \A x \in Tasks : WF_vars(TaskSteps(x))

FairSpec == Spec /\ Fairness

-----------------------------------------------------------------------------
(* Properties.                                                             *)

\* Nobody takes a job away from the replica that works on it: notifications of
\* it may come from the stream and from catch-ups, and any of them that is
\* refused cancels the job (SessionsJobHandler, "per-process idempotency").  Only
\* trouble with the key lets a task that has left the guard cancel it.
WorkUndisturbed ==
    faults \cap {"refused", "stale"} = {} =>
        \A x \in Tasks :
            /\ Is(x, "processing") => job[JobOf(x)] = "running"
            /\ Is(x, "finishing") => job[JobOf(x)] \in {"pending", "running", task[x].verdict}

\* A job is in the in-flight guard exactly while one task -- one only -- is
\* between the guard and its end, however it ends.
GuardHeld ==
    \A r \in Replicas, j \in Jobs :
        Cardinality({c \in Copies : task[<<r, j, c>>].at \in {"fetching", "starting", "processing", "finishing"}})
            = IF j \in inflight[r] THEN 1 ELSE 0

\* A replica does not take up again a job it remembers as finished: it asks for
\* its key at most, for a notification that comes late (RecentJobIds).
FinishedLeftAlone ==
    \A x \in Tasks : JobOf(x) \in seen[On(x)] => task[x].at \notin {"fetching", "starting", "processing", "finishing"}

\* "The registration is never pulled out from under a job that is still reporting
\* results" (on_shutdown): nothing is alive of a replica that has unregistered.
QuietWhenUnregistered == \A r \in Replicas : bus[r].closing = "done" => Alive(r) = {} /\ stream[r] = "off"

\* A bus that is to have its stream: started, not paused, not shutting down.
Serving(r) == bus[r].started /\ ~bus[r].paused /\ bus[r].closing = "no"
GaveUp(r) == attempts[r] = MaxReconnects

\* Over any pauses and resumes, overlapping ones included, a serving bus is
\* without its stream for two reasons only: its last resume came while the pause
\* before still stopped the stream, or the connections have been used up.  What
\* an earlier pause missed, and what an earlier stream used up, the next pause
\* and resume put right (resume_consumption, on_startup).
StreamReopened ==
    \A r \in Replicas : Serving(r) =>
        /\ stream[r] = "off" => bus[r].missed \/ GaveUp(r)
        /\ stream[r] = "stopping" => bus[r].missed

\* Without its stream for one of these reasons, or shutting down.
Left(r) == bus[r].closing # "no" \/ (Serving(r) /\ stream[r] = "off" /\ (bus[r].missed \/ GaveUp(r)))

\* Every job is taken up by some replica, although streams drop and agents
\* pause: what was created meanwhile the next catch-up finds -- unless its
\* listing fails, or no replica is left (_run_catch_up).
EveryJobTried ==
    \A j \in Jobs :
        job[j] = "pending" ~> j \in tried \/ "listing" \in faults \/ \A r \in Replicas : Left(r)
=============================================================================
