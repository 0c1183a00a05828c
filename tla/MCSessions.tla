----------------------------- MODULE MCSessions -----------------------------
(* Sessions on small instances. *)
EXTENDS Sessions

CONSTANTS j1, a, b
-----------------------------------------------------------------------------
(* The violation run's property.                                           *)

\* A replica that is offered a job another one works on stops without harm:
\* refusing to start it is "a benign duplicate-stop" under multi-replica SSE
\* (docs/plans/2026-06-10-sessions-job-handler.md).
DuplicateStopBenign == \A x \in Tasks : Is(x, "processing") => job[JobOf(x)] = "running"

-----------------------------------------------------------------------------
(* What the comments of the code promise and it does not keep, besides.     *)
(* The README says when each of them fails, and how.                        *)

\* "Reopen the job stream once the agent's health checks pass again"
\* (resume_consumption): a serving bus has its stream.
ResumeReopens == \A r \in Replicas : Serving(r) => stream[r] # "off"

\* "A job not yet started is left pending rather than run here" (pause_consumption):
\* no job that waits for a place is taken up while the agent is paused.
PausedTakesUpNothing ==
    [][\A x \in Tasks : Is(x, "queued") /\ bus[On(x)].paused => task'[x].at # "keying"]_vars

\* The bus cancels no job whose result the handler has: a stale key is renewed
\* and the event dispatched once more (_retry_with_fresh_key).
ResultsKept ==
    [][\A x \in Tasks :
        Is(x, "cancelling") /\ task[x].verdict \in {"completed", "failed"} => job'[JobOf(x)] = job[JobOf(x)]]_vars

\* A job that was started comes to an end; one that failed on the way "stays
\* eligible for redelivery" (_terminal_with_retry).
StartedJobsEnd == \A j \in Jobs : job[j] = "running" ~> job[j] \in Final
=============================================================================
