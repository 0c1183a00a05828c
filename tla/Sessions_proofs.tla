--------------------------- MODULE Sessions_proofs ---------------------------
(***************************************************************************)
(* The in-flight guard, the memory of finished jobs, the drain before the  *)
(* registration ends, the stream and the undisturbed work of Sessions, for *)
(* any jobs, replicas, copies and limits and any number of the faults.     *)
(***************************************************************************)
EXTENDS Sessions, FiniteSetTheorems, TLAPS

-----------------------------------------------------------------------------
(* The inductive invariant.                                                *)

Records == [at : Stages, verdict : {"none"} \cup Final, renewed : BOOLEAN]
Guarded == {"fetching", "starting", "processing", "finishing"}
SameJob(x, y) == On(x) = On(y) /\ JobOf(x) = JobOf(y)

\* The guard names the jobs of the tasks in it, and keeps them apart.
Guard ==
    /\ \A x \in Tasks : task[x].at \in Guarded => JobOf(x) \in inflight[On(x)]
    /\ \A x, y \in Tasks : task[x].at \in Guarded /\ task[y].at \in Guarded /\ SameJob(x, y) => x = y
    /\ \A r \in Replicas : \A j \in inflight[r] : \E c \in Copies : task[<<r, j, c>>].at \in Guarded

\* A shutdown that drains has closed the stream, and waits for all there is.
Closing ==
    \A r \in Replicas :
        /\ drain[r] \subseteq {x \in Tasks : On(x) = r} \cup {r}
        /\ bus[r].closing \in {"draining", "done"} => stream[r] = "off" /\ Alive(r) \subseteq drain[r]
        /\ bus[r].closing = "done" => Alive(r) = {}

\* What is to be reported is decided by then.
Decided == \A x \in Tasks : Is(x, "finishing") => task[x].verdict \in Final

IInv ==
    /\ TypeOK
    /\ Decided
    /\ Guard
    /\ FinishedLeftAlone
    /\ Closing

Buses == [started : BOOLEAN, paused : BOOLEAN, missed : BOOLEAN, closing : {"no", "stopping", "draining", "done"}]

\* What a task knows of its job when a single replica works on it.
JobsKnown ==
    /\ \A r \in Replicas : \A j \in wire[r] : job[j] # "none"
    /\ \A x \in Tasks : ~Is(x, "none") => job[JobOf(x)] # "none"
    /\ \A j \in malformed : job[j] \in {"none", "pending", "cancelled"}
    /\ \A x \in Tasks : task[x].at \in {"starting", "processing"} => JobOf(x) \notin malformed
    /\ \A x \in Tasks : Is(x, "finishing") /\ JobOf(x) \in malformed => task[x].verdict = "cancelled"
    /\ "stale" \notin faults => \A x \in Tasks : ~task[x].renewed

\* Has its job running, or reported as it is to be.
Working(x) == Is(x, "processing") \/ (Is(x, "finishing") /\ JobOf(x) \notin malformed)
WorkKept ==
    faults \cap {"refused", "stale"} = {} =>
        /\ \A x \in Tasks : Is(x, "cancelling") => job[JobOf(x)] # "pending"
        /\ \A x \in Tasks : Is(x, "processing") => job[JobOf(x)] = "running"
        /\ \A x \in Tasks : Working(x) => job[JobOf(x)] \in {"running", task[x].verdict}
        /\ \A x, y \in Tasks : Working(x) /\ Is(y, "cancelling") => JobOf(x) # JobOf(y)

-----------------------------------------------------------------------------
(* Lemmas.                                                                 *)

LEMMA TaskType ==
    ASSUME NEW x \in Tasks
    PROVE  /\ On(x) \in Replicas /\ JobOf(x) \in Jobs /\ x[3] \in Copies /\ x = <<On(x), JobOf(x), x[3]>>
           /\ x \notin Replicas
BY Sets DEF Tasks, On, JobOf

LEMMA TaskMade ==
    ASSUME NEW r \in Replicas, NEW j \in Jobs, NEW c \in Copies
    PROVE  <<r, j, c>> \in Tasks /\ On(<<r, j, c>>) = r /\ JobOf(<<r, j, c>>) = j
BY DEF Tasks, On, JobOf

LEMMA NoTaskRecord == NoTask \in Records /\ NoTask.at = "none" /\ NoTask.verdict = "none" /\ ~NoTask.renewed
BY DEF NoTask, Records, Stages

\* What a step of a task is to the guard: it stays inside or outside, enters, or leaves.
Enters(x) ==
    /\ task[x].at = "keying" /\ task'[x].at \in Guarded /\ ~Known(On(x), JobOf(x))
    /\ inflight' = [inflight EXCEPT ![On(x)] = @ \cup {JobOf(x)}] /\ seen' = seen
Leaves(x) ==
    /\ task[x].at \in Guarded /\ task'[x].at \notin Guarded
    /\ inflight' = [inflight EXCEPT ![On(x)] = @ \ {JobOf(x)}]
    /\ seen' = seen \/ seen' = [seen EXCEPT ![On(x)] = @ \cup {JobOf(x)}]
Stays(x) ==
    /\ task'[x].at \in Guarded <=> task[x].at \in Guarded
    /\ UNCHANGED handler

\* A step of a task, one action after the other: which record it updates, and how.
LEMMA TaskIsLocal ==
    ASSUME TypeOK, NEW x \in Tasks, TaskSteps(x)
    PROVE  /\ task[x].at # "none" /\ task' \in [Tasks -> Records]
           /\ \A y \in Tasks \ {x} : task'[y] = task[y]
           /\ Enters(x) \/ Leaves(x) \/ Stays(x)
           /\ UNCHANGED <<malformed, link, bus, drain>>
<1> DEFINE Updates(stage) ==
        \E verdict \in {"none"} \cup Final :
            \/ task' = [task EXCEPT ![x].at = stage]
            \/ task' = [task EXCEPT ![x].at = stage, ![x].verdict = verdict]
            \/ task' = [task EXCEPT ![x].at = stage, ![x].renewed = TRUE]
            \/ task' = [task EXCEPT ![x] = NoTask] /\ stage = "none"
<1>0. task \in [Tasks -> Records] /\ Guarded \subseteq Stages \ {"none", "keying"}
    BY DEF TypeOK, Records, Stages, Guarded
<1>1. ASSUME NEW stage \in Stages, Updates(stage)
      PROVE  task' \in [Tasks -> Records] /\ task'[x].at = stage /\ \A y \in Tasks \ {x} : task'[y] = task[y]
    <2>1. PICK verdict \in {"none"} \cup Final :
            \/ task' = [task EXCEPT ![x].at = stage]
            \/ task' = [task EXCEPT ![x].at = stage, ![x].verdict = verdict]
            \/ task' = [task EXCEPT ![x].at = stage, ![x].renewed = TRUE]
            \/ task' = [task EXCEPT ![x] = NoTask] /\ stage = "none"
        BY <1>1
    <2>2. task \in [Tasks -> Records]
        BY <1>0
    <2> HIDE DEF Updates
    <2> USE DEF Records
    <2>3. CASE task' = [task EXCEPT ![x].at = stage]
        BY <2>2, <2>3
    <2>4. CASE task' = [task EXCEPT ![x].at = stage, ![x].verdict = verdict]
        BY <2>2, <2>4
    <2>5. CASE task' = [task EXCEPT ![x].at = stage, ![x].renewed = TRUE]
        BY <2>2, <2>5
    <2>6. CASE task' = [task EXCEPT ![x] = NoTask] /\ stage = "none"
        BY <2>2, <2>6, NoTaskRecord
    <2> QED BY <2>1, <2>3, <2>4, <2>5, <2>6
<1> HIDE DEF Updates
<1>2. UNCHANGED <<malformed, link, bus, drain>>
    BY DEF TaskSteps, Begin, Enter, GetKey, KeyFails, KeyRefused, Fetch, Start, Process, ProcessFails, Finish,
        CallFails, Forbidden, CancelJob, TimesOut
<1>3. /\ task[x].at # "none"
      /\ \E stage \in Stages :
            /\ Updates(stage)
            /\ \/ /\ task[x].at = "keying" /\ stage \in Guarded /\ ~Known(On(x), JobOf(x))
                  /\ inflight' = [inflight EXCEPT ![On(x)] = @ \cup {JobOf(x)}] /\ seen' = seen
               \/ /\ task[x].at \in Guarded /\ stage \notin Guarded
                  /\ inflight' = [inflight EXCEPT ![On(x)] = @ \ {JobOf(x)}]
                  /\ seen' = seen \/ seen' = [seen EXCEPT ![On(x)] = @ \cup {JobOf(x)}]
               \/ (stage \in Guarded <=> task[x].at \in Guarded) /\ UNCHANGED handler
    <2> USE DEF Updates, Is, Goes, Dropped, Ends, Discards, Stages, Guarded, handler
    <2>1. CASE Begin(x)
        BY <2>1 DEF Begin
    <2>2. CASE Enter(x)
        BY <2>2 DEF Enter
    <2>3. CASE GetKey(x)
        BY <2>3 DEF GetKey
    <2>4. CASE KeyFails(x)
        BY <2>4 DEF KeyFails
    <2>5. CASE KeyRefused(x)
        BY <2>5 DEF KeyRefused
    <2>6. CASE Fetch(x)
        BY <2>6 DEF Fetch, Final
    <2>7. CASE Start(x)
        BY <2>7 DEF Start, Refused
    <2>8. CASE Process(x)
        BY <2>8 DEF Process
    <2>9. CASE ProcessFails(x)
        BY <2>9 DEF ProcessFails, Refused
    <2>10. CASE Finish(x)
        BY <2>10 DEF Finish, Refused
    <2>11. CASE CallFails(x)
        <3>1. CASE Ends(x)
            BY <2>11, <3>1 DEF CallFails
        <3>2. CASE UNCHANGED <<task, inflight>> /\ Is(x, "finishing")
            <4>1. task' = [task EXCEPT ![x].at = "finishing"]
                BY <1>0, <3>2 DEF Records
            <4> QED BY <2>11, <3>2, <4>1 DEF CallFails
        <3>3. CASE Goes(x, "cancelling") /\ Discards(x) /\ Is(x, "finishing")
            BY <2>11, <3>3 DEF CallFails
        <3> QED BY <2>11, <3>1, <3>2, <3>3 DEF CallFails
    <2>12. CASE Forbidden(x)
        BY <2>12 DEF Forbidden
    <2>13. CASE CancelJob(x)
        BY <2>13 DEF CancelJob
    <2>14. CASE TimesOut(x)
        BY <2>14 DEF TimesOut, Held
    <2> QED BY <2>1, <2>2, <2>3, <2>4, <2>5, <2>6, <2>7, <2>8, <2>9, <2>10, <2>11, <2>12, <2>13, <2>14 DEF TaskSteps
<1>4. PICK stage \in Stages :
            /\ Updates(stage)
            /\ \/ /\ task[x].at = "keying" /\ stage \in Guarded /\ ~Known(On(x), JobOf(x))
                  /\ inflight' = [inflight EXCEPT ![On(x)] = @ \cup {JobOf(x)}] /\ seen' = seen
               \/ /\ task[x].at \in Guarded /\ stage \notin Guarded
                  /\ inflight' = [inflight EXCEPT ![On(x)] = @ \ {JobOf(x)}]
                  /\ seen' = seen \/ seen' = [seen EXCEPT ![On(x)] = @ \cup {JobOf(x)}]
               \/ (stage \in Guarded <=> task[x].at \in Guarded) /\ UNCHANGED handler
    BY <1>3
<1>5. task' \in [Tasks -> Records] /\ task'[x].at = stage /\ \A y \in Tasks \ {x} : task'[y] = task[y]
    BY <1>1, <1>4
<1> QED BY <1>2, <1>3, <1>4, <1>5 DEF Enters, Leaves, Stays

\* What a step of a task does to its record and to its job, as far as the
\* invariants can tell.
Ended(x) == task'[x].at \in {"none", "queued", "keying", "fetching"} /\ (job' = job \/ Effect(x))
GivesUp(x) ==
    /\ task'[x].at = "cancelling" /\ (job' = job \/ Effect(x))
    /\ \/ task[x].renewed
       \/ faults' \cap {"refused", "stale"} # {}
       \/ Is(x, "starting") /\ job[JobOf(x)] # "pending" /\ job' = job
       \/ Is(x, "finishing") /\ ~Grants(JobOf(x), task[x].verdict) /\ job' = job
Fetched(x) ==
    /\ Is(x, "fetching") /\ job' = job
    /\ \/ task'[x].at = "finishing" /\ task'[x].verdict = "cancelled" /\ JobOf(x) \in malformed
       \/ task'[x].at = "starting" /\ JobOf(x) \notin malformed
Started(x) ==
    /\ Is(x, "starting") /\ task'[x].at = "processing"
    /\ job[JobOf(x)] = "pending" /\ Reported(JobOf(x), "running")
Processed(x) == Is(x, "processing") /\ task'[x].at = "finishing" /\ task'[x].verdict \in Final /\ job' = job
Repeats(x) == Is(x, "finishing") /\ task'[x] = task[x] /\ (job' = job \/ Effect(x))

LEMMA TaskEffects ==
    ASSUME TypeOK, NEW x \in Tasks, TaskSteps(x)
    PROVE  /\ faults \subseteq faults' /\ faults' \subseteq Faults /\ tried' \subseteq Jobs
           /\ task'[x].renewed => task[x].renewed \/ "stale" \in faults'
           /\ Ended(x) \/ GivesUp(x) \/ Fetched(x) \/ Started(x) \/ Processed(x) \/ Repeats(x)
<1>0. task \in [Tasks -> Records] /\ faults \subseteq Faults /\ tried \subseteq Jobs /\ JobOf(x) \in Jobs
    BY TaskType DEF TypeOK, Records
<1> USE DEF Records, Is, Goes
<1>d. Dropped(x) => task'[x] = NoTask /\ task'[x].at = "none" /\ ~task'[x].renewed
    BY <1>0, NoTaskRecord DEF Dropped
<1>1. CASE Begin(x)
    BY <1>0, <1>d, <1>1 DEF Begin, Ended
<1>2. CASE Enter(x)
    BY <1>0, <1>d, <1>2 DEF Enter, Ended
<1>3. CASE GetKey(x)
    BY <1>0, <1>d, <1>3 DEF GetKey, Ended
<1>4. CASE KeyFails(x)
    BY <1>0, <1>d, <1>4 DEF KeyFails, Fault, Ended, GivesUp
<1>5. CASE KeyRefused(x)
    BY <1>0, <1>d, <1>5 DEF KeyRefused, Fault, GivesUp
<1>6. CASE Fetch(x)
    BY <1>0, <1>d, <1>6 DEF Fetch, Fetched
<1>7. CASE Start(x)
    BY <1>0, <1>d, <1>7 DEF Start, Refused, GivesUp, Started
<1>8. CASE Process(x)
    BY <1>0, <1>d, <1>8 DEF Process, Processed
<1>9. CASE ProcessFails(x)
    BY <1>0, <1>d, <1>9 DEF ProcessFails, Refused, Fault, Ends, Ended, GivesUp
<1>10. CASE Finish(x)
    BY <1>0, <1>d, <1>10 DEF Finish, Refused, Ends, Effect, Ended, GivesUp
<1>11. CASE CallFails(x)
    BY <1>0, <1>d, <1>11 DEF CallFails, Fault, Ends, Ended, GivesUp, Repeats
<1>12. CASE Forbidden(x)
    BY <1>0, <1>d, <1>12 DEF Forbidden, Fault, Ended, GivesUp
<1>13. CASE CancelJob(x)
    BY <1>0, <1>d, <1>13 DEF CancelJob, Effect, Ended
<1>14. CASE TimesOut(x)
    BY <1>0, <1>d, <1>14 DEF TimesOut, Fault, Ends, Ended
<1> QED BY <1>1, <1>2, <1>3, <1>4, <1>5, <1>6, <1>7, <1>8, <1>9, <1>10, <1>11, <1>12, <1>13, <1>14 DEF TaskSteps

\* New tasks take records that were free.
LEMMA SpawnedTasks ==
    ASSUME TypeOK, NEW r \in Replicas, NEW J \in SUBSET Jobs, Spawned(r, J)
    PROVE  /\ task' \in [Tasks -> Records]
           /\ \A x \in Tasks :
                \/ task'[x] = task[x]
                \/ /\ task[x].at = "none" /\ task'[x].at = "spawned" /\ ~task'[x].renewed
                   /\ On(x) = r /\ JobOf(x) \in J
<1> DEFINE fresh == [NoTask EXCEPT !.at = "spawned"]
           new == {<<r, j, CHOOSE c \in FreeCopies(r, j) : TRUE>> : j \in J}
<1>1. fresh \in Records /\ fresh.at = "spawned" /\ ~fresh.renewed
    BY DEF NoTask, Records, Stages
<1>2. \A j \in J : (CHOOSE c \in FreeCopies(r, j) : TRUE) \in FreeCopies(r, j)
    BY DEF Spawned
<1>3. \A x \in new : x \in Tasks /\ task[x].at = "none" /\ On(x) = r /\ JobOf(x) \in J
    <2>1. ASSUME NEW j \in J, NEW c \in FreeCopies(r, j)
          PROVE  <<r, j, c>> \in Tasks /\ task[<<r, j, c>>].at = "none" /\ On(<<r, j, c>>) = r
                 /\ JobOf(<<r, j, c>>) \in J
        BY TaskMade DEF FreeCopies, Is
    <2> QED BY <1>2, <2>1
<1>4. task' = [x \in Tasks |-> IF x \in new THEN fresh ELSE task[x]]
    BY DEF Spawned
<1>5. task \in [Tasks -> Records]
    BY DEF TypeOK, Records
<1> HIDE DEF fresh, new
<1> QED BY <1>1, <1>3, <1>4, <1>5

-----------------------------------------------------------------------------
(* The invariant holds initially, and every step preserves it.             *)

LEMMA InitIInv == Init => IInv
<1> SUFFICES ASSUME Init PROVE IInv
    OBVIOUS
<1>1. TypeOK
    BY Numbers, NoTaskRecord DEF Init, TypeOK, Records, Final
<1>2. \A x \in Tasks : task[x].at = "none"
    BY NoTaskRecord DEF Init
<1>3. Guard /\ FinishedLeftAlone /\ Decided
    BY <1>2 DEF Init, Guard, Guarded, FinishedLeftAlone, Decided, Is
<1>4. Closing
    BY <1>2 DEF Init, Closing, Alive
<1> QED BY <1>1, <1>3, <1>4 DEF IInv

\* The parts a step preserves that leaves every task and the guard as it is, but for new tasks.
LEMMA OnlySpawns ==
    ASSUME IInv, UNCHANGED handler,
           \A x \in Tasks : task'[x] = task[x] \/ (task[x].at = "none" /\ task'[x].at = "spawned")
    PROVE  Guard' /\ FinishedLeftAlone' /\ Decided'
<1>1. \A x \in Tasks :
        /\ task'[x].at \in Guarded <=> task[x].at \in Guarded
        /\ task[x].at \in Guarded => task'[x] = task[x]
    BY DEF Guarded
<1>2. Guard'
    BY <1>1, TaskMade DEF IInv, TypeOK, Guard, handler
<1>3. FinishedLeftAlone'
    BY <1>1 DEF IInv, FinishedLeftAlone, handler, Guarded
<1>4. Decided'
    BY DEF IInv, Decided, Is
<1> QED BY <1>2, <1>3, <1>4

LEMMA TaskStep ==
    ASSUME IInv, NEW x \in Tasks, TaskSteps(x)
    PROVE  IInv'
<1> DEFINE r == On(x)
           j == JobOf(x)
<1>0. /\ TypeOK /\ Guard /\ FinishedLeftAlone /\ Closing /\ Decided
      /\ task[x].at # "none" /\ task' \in [Tasks -> Records]
      /\ \A y \in Tasks \ {x} : task'[y] = task[y]
      /\ Enters(x) \/ Leaves(x) \/ Stays(x)
      /\ UNCHANGED <<malformed, link, bus, drain>>
      /\ r \in Replicas /\ j \in Jobs
    BY TaskIsLocal, TaskType DEF IInv
<1>1. inflight \in [Replicas -> SUBSET Jobs] /\ seen \in [Replicas -> SUBSET Jobs]
    BY <1>0 DEF TypeOK
<1>2. ASSUME Enters(x) PROVE Guard' /\ FinishedLeftAlone'
    <2>1. /\ \A q \in Replicas : inflight'[q] = IF q = r THEN inflight[r] \cup {j} ELSE inflight[q]
          /\ \A y \in Tasks : task[y].at \in Guarded => ~SameJob(x, y)
          /\ task'[x].at \in Guarded /\ task[x].at \notin Guarded /\ seen' = seen /\ j \notin seen[r]
        BY <1>0, <1>1, <1>2 DEF Enters, Known, Guard, SameJob, Guarded
    <2>2. Guard'
        <3>1. \A y \in Tasks : task'[y].at \in Guarded <=> (y = x \/ task[y].at \in Guarded)
            BY <1>0, <2>1
        <3>2. \A y \in Tasks : task'[y].at \in Guarded => JobOf(y) \in inflight'[On(y)]
            BY <1>0, <2>1, <3>1, TaskType DEF Guard
        <3>3. \A y, z \in Tasks : task'[y].at \in Guarded /\ task'[z].at \in Guarded /\ SameJob(y, z) => y = z
            BY <1>0, <2>1, <3>1 DEF Guard, SameJob
        <3>4. \A q \in Replicas : \A i \in inflight'[q] : \E c \in Copies : task'[<<q, i, c>>].at \in Guarded
            <4>1. ASSUME NEW q \in Replicas, NEW i \in inflight'[q]
                  PROVE  \E c \in Copies : task'[<<q, i, c>>].at \in Guarded
                <5>1. CASE q = r /\ i = j
                    BY <1>0, <2>1, <5>1, TaskType
                <5>2. CASE ~(q = r /\ i = j)
                    <6>1. i \in inflight[q] /\ i \in Jobs
                        BY <1>1, <2>1, <4>1, <5>2
                    <6>2. PICK c \in Copies : task[<<q, i, c>>].at \in Guarded
                        BY <1>0, <6>1 DEF Guard
                    <6> QED BY <3>1, <6>1, <6>2, TaskMade
                <5> QED BY <5>1, <5>2
            <4> QED BY <4>1
        <3> QED BY <3>2, <3>3, <3>4 DEF Guard
    <2>3. FinishedLeftAlone'
        BY <1>0, <2>1 DEF FinishedLeftAlone, Guarded
    <2> QED BY <2>2, <2>3
<1>3. ASSUME Leaves(x) PROVE Guard' /\ FinishedLeftAlone'
    <2>1. /\ \A q \in Replicas : inflight'[q] = IF q = r THEN inflight[r] \ {j} ELSE inflight[q]
          /\ \A y \in Tasks : task[y].at \in Guarded /\ SameJob(x, y) => x = y
          /\ task'[x].at \notin Guarded /\ task[x].at \in Guarded
          /\ \A q \in Replicas : seen'[q] \subseteq seen[q] \cup {i \in {j} : q = r}
        BY <1>0, <1>1, <1>3 DEF Leaves, Guard
    <2>2. \A y \in Tasks : task'[y].at \in Guarded <=> (y # x /\ task[y].at \in Guarded)
        BY <1>0, <2>1
    <2>3. \A y \in Tasks : task'[y].at \in Guarded => JobOf(y) \in inflight'[On(y)]
        BY <1>0, <2>1, <2>2, TaskType DEF Guard, SameJob
    <2>4. \A y, z \in Tasks : task'[y].at \in Guarded /\ task'[z].at \in Guarded /\ SameJob(y, z) => y = z
        BY <1>0, <2>2 DEF Guard
    <2>5. \A q \in Replicas : \A i \in inflight'[q] : \E c \in Copies : task'[<<q, i, c>>].at \in Guarded
        <3>1. ASSUME NEW q \in Replicas, NEW i \in inflight'[q]
                  PROVE  \E c \in Copies : task'[<<q, i, c>>].at \in Guarded
            <4>1. i \in inflight[q] /\ i \in Jobs /\ ~(q = r /\ i = j)
                BY <1>1, <2>1
            <4>2. PICK c \in Copies : task[<<q, i, c>>].at \in Guarded
                BY <1>0, <4>1 DEF Guard
            <4>3. <<q, i, c>> \in Tasks /\ <<q, i, c>> # x
                BY <4>1, TaskMade
            <4> QED BY <2>2, <4>2, <4>3
        <3> QED BY <3>1
    <2>6. FinishedLeftAlone'
        <3>1. ASSUME NEW y \in Tasks, JobOf(y) \in seen'[On(y)], task'[y].at \in Guarded PROVE FALSE
            <4>1. y # x /\ task[y].at \in Guarded /\ On(y) \in Replicas
                BY <2>2, <3>1, TaskType
            <4>2. JobOf(y) \notin seen[On(y)]
                BY <1>0, <4>1 DEF FinishedLeftAlone, Guarded
            <4>3. SameJob(x, y)
                BY <2>1, <3>1, <4>1, <4>2 DEF SameJob
            <4> QED BY <2>1, <4>1, <4>3
        <3> QED BY <3>1 DEF FinishedLeftAlone, Guarded
    <2> QED BY <2>3, <2>4, <2>5, <2>6 DEF Guard
<1>4. ASSUME Stays(x) PROVE Guard' /\ FinishedLeftAlone'
    <2>1. inflight' = inflight /\ seen' = seen /\ \A y \in Tasks : task'[y].at \in Guarded <=> task[y].at \in Guarded
        BY <1>0, <1>4 DEF Stays, handler
    <2>2. Guard'
        BY <1>0, <1>1, <2>1, TaskMade DEF Guard
    <2>3. FinishedLeftAlone'
        BY <1>0, <2>1 DEF FinishedLeftAlone, Guarded
    <2> QED BY <2>2, <2>3
<1>5. Closing'
    <2>1. \A q \in Replicas : Alive(q)' \subseteq Alive(q)
        BY <1>0 DEF Alive, Is, link
    <2> QED BY <1>0, <2>1 DEF Closing, link
<1>6. job' \in [Jobs -> {"none", "pending", "running"} \cup Final]
    <2>1. job \in [Jobs -> {"none", "pending", "running"} \cup Final]
        BY <1>0 DEF TypeOK
    <2>2. ASSUME NEW verdict \in {"running"} \cup Final, Reported(j, verdict)
          PROVE  job' \in [Jobs -> {"none", "pending", "running"} \cup Final]
        BY <1>0, <2>1, <2>2 DEF Reported
    <2>3. Effect(x) => \E verdict \in {"running"} \cup Final : Reported(j, verdict)
        BY <1>0 DEF Effect, Decided, Final
    <2>4. job' = job \/ Effect(x) \/ Reported(j, "running")
        BY <1>0, TaskEffects DEF Ended, GivesUp, Fetched, Started, Processed, Repeats
    <2> QED BY <2>1, <2>2, <2>3, <2>4
<1>7. Decided'
    <2>1. ASSUME task'[x].at = "finishing" PROVE task'[x].verdict \in Final
        <3>1. CASE Ended(x)
            BY <2>1, <3>1 DEF Ended
        <3>2. CASE GivesUp(x)
            BY <2>1, <3>2 DEF GivesUp
        <3>3. CASE Fetched(x)
            BY <2>1, <3>3 DEF Fetched, Final
        <3>4. CASE Started(x)
            BY <2>1, <3>4 DEF Started
        <3>5. CASE Processed(x)
            BY <3>5 DEF Processed
        <3>6. CASE Repeats(x)
            BY <1>0, <3>6 DEF Repeats, Decided
        <3> QED BY <1>0, <3>1, <3>2, <3>3, <3>4, <3>5, <3>6, TaskEffects
    <2> QED BY <1>0, <2>1 DEF Decided, Is
<1>8. TypeOK'
    <2>1. inflight' \in [Replicas -> SUBSET Jobs] /\ seen' \in [Replicas -> SUBSET Jobs]
        BY <1>0, <1>1 DEF Enters, Leaves, Stays, handler
    <2>2. tried' \subseteq Jobs /\ faults' \subseteq Faults
        BY <1>0, TaskEffects
    <2> QED BY <1>0, <1>6, <2>1, <2>2 DEF TypeOK, Records, link
<1> QED BY <1>2, <1>3, <1>4, <1>0, <1>5, <1>7, <1>8 DEF IInv

\* A step that leaves the tasks and the guard as they are.
LEMMA TasksKept ==
    ASSUME IInv, UNCHANGED <<task, handler>>
    PROVE  Guard' /\ FinishedLeftAlone' /\ Decided'
BY OnlySpawns

LEMMA CreateStep ==
    ASSUME IInv, NEW j \in Jobs, Create(j)
    PROVE  IInv'
<1>1. TypeOK'
    BY DEF IInv, TypeOK, Create, handler
<1>2. Closing'
    BY DEF IInv, Closing, Alive, Create, Is
<1> QED BY <1>1, <1>2, TasksKept DEF IInv, Create

LEMMA StreamStep ==
    ASSUME IInv, NEW r \in Replicas, StreamSteps(r)
    PROVE  IInv'
<1>0. TypeOK /\ Closing
    BY DEF IInv
<1>1. UNCHANGED <<job, malformed, bus, drain, handler, tried>> /\ faults' \subseteq Faults
    BY <1>0 DEF StreamSteps, Stopped, Connect, ConnectFails, Retry, Drop, Receive, Fault, TypeOK
<1>2. /\ stream[r] # "off" /\ stream' \in [Replicas -> {"off", "connecting", "open", "backoff", "stopping"}]
      /\ \A q \in Replicas \ {r} : stream'[q] = stream[q]
      /\ attempts' \in [Replicas -> 0..MaxReconnects] /\ wire' \in [Replicas -> SUBSET Jobs]
      /\ catchup' \in [Replicas -> BOOLEAN] /\ \A q \in Replicas \ {r} : catchup'[q] = catchup[q]
    <2>0. /\ stream \in [Replicas -> {"off", "connecting", "open", "backoff", "stopping"}]
          /\ attempts \in [Replicas -> 0..MaxReconnects] /\ wire \in [Replicas -> SUBSET Jobs]
          /\ catchup \in [Replicas -> BOOLEAN] /\ MaxReconnects \in Nat
        BY <1>0, Numbers DEF TypeOK
    <2>1. CASE Stopped(r)
        BY <2>0, <2>1 DEF Stopped
    <2>2. CASE Connect(r)
        BY <2>0, <2>2 DEF Connect
    <2>3. CASE ConnectFails(r)
        BY <2>0, <2>3 DEF ConnectFails
    <2>4. CASE Retry(r)
        BY <2>0, <2>4 DEF Retry, NextAttempt
    <2>5. CASE Drop(r)
        BY <2>0, <2>5 DEF Drop, NextAttempt
    <2>6. ASSUME NEW j \in Jobs, Receive(r, j)
          PROVE  /\ stream[r] # "off" /\ UNCHANGED <<stream, attempts, catchup>>
                 /\ wire' \in [Replicas -> SUBSET Jobs]
        BY <2>0, <2>6 DEF Receive
    <2> QED BY <2>0, <2>1, <2>2, <2>3, <2>4, <2>5, <2>6 DEF StreamSteps
<1>3. /\ task' \in [Tasks -> Records]
      /\ \A x \in Tasks : task'[x] = task[x] \/ (task[x].at = "none" /\ task'[x].at = "spawned" /\ On(x) = r)
    <2>1. ASSUME NEW j \in Jobs, Receive(r, j) PROVE Spawned(r, {j})
        BY <2>1 DEF Receive
    <2>2. (\E j \in Jobs : Spawned(r, {j})) \/ task' = task
        BY <2>1 DEF StreamSteps, Stopped, Connect, ConnectFails, Retry, Drop
    <2>3. task \in [Tasks -> Records]
        BY <1>0 DEF TypeOK, Records
    <2>4. ASSUME NEW j \in Jobs, Spawned(r, {j})
          PROVE  /\ task' \in [Tasks -> Records]
                 /\ \A x \in Tasks :
                        task'[x] = task[x] \/ (task[x].at = "none" /\ task'[x].at = "spawned" /\ On(x) = r)
        BY <1>0, <2>4, SpawnedTasks
    <2> QED BY <2>2, <2>3, <2>4
<1>4. TypeOK'
    BY <1>0, <1>1, <1>2, <1>3 DEF TypeOK, Records, handler
<1>5. Closing'
    <2>1. ASSUME NEW q \in Replicas, bus[q].closing \in {"draining", "done"}
          PROVE  stream'[q] = "off" /\ Alive(q)' = Alive(q)
        <3>1. q # r /\ stream'[q] = "off" /\ catchup'[q] = catchup[q]
            BY <1>0, <1>2, <2>1 DEF Closing
        <3>2. \A x \in Tasks : On(x) = q => task'[x] = task[x]
            BY <1>3, <3>1
        <3> QED BY <3>1, <3>2 DEF Alive, Is
    <2> QED BY <1>0, <1>1, <2>1 DEF Closing
<1> QED BY <1>1, <1>3, <1>4, <1>5, OnlySpawns DEF IInv

LEMMA CatchUpStep ==
    ASSUME IInv, NEW r \in Replicas, CatchUp(r)
    PROVE  IInv'
<1>0. TypeOK /\ Closing
    BY DEF IInv
<1>1. /\ UNCHANGED <<job, malformed, stream, attempts, wire, bus, drain, handler, tried>> /\ faults' \subseteq Faults
      /\ catchup' = [catchup EXCEPT ![r] = FALSE]
    BY <1>0 DEF CatchUp, Fault, TypeOK
<1>2. \/ task' = task
      \/ bus[r].closing = "no" /\ Spawned(r, {j \in Jobs : job[j] = "pending"})
    BY DEF CatchUp
<1>3. /\ task' \in [Tasks -> Records]
      /\ \A x \in Tasks :
            \/ task'[x] = task[x]
            \/ task[x].at = "none" /\ task'[x].at = "spawned" /\ On(x) = r /\ bus[r].closing = "no"
    <2>1. task \in [Tasks -> Records]
        BY <1>0 DEF TypeOK, Records
    <2> QED BY <1>0, <1>2, <2>1, SpawnedTasks
<1>4. TypeOK'
    BY <1>0, <1>1, <1>3 DEF TypeOK, Records, handler
<1>5. Closing'
    <2>1. ASSUME NEW q \in Replicas, bus[q].closing # "no"
          PROVE  Alive(q)' \subseteq Alive(q)
        <3>1. catchup'[q] => catchup[q]
            BY <1>0, <1>1 DEF TypeOK
        <3>2. \A x \in Tasks : On(x) = q => task'[x] = task[x]
            BY <1>3, <2>1
        <3> QED BY <3>1, <3>2 DEF Alive, Is
    <2> QED BY <1>0, <1>1, <2>1 DEF Closing
<1> QED BY <1>1, <1>3, <1>4, <1>5, OnlySpawns DEF IInv

\* Startup, pause, resume and the two steps of a shutdown that end nothing.
LEMMA QuietLifeStep ==
    ASSUME IInv, NEW r \in Replicas,
           Startup(r) \/ Pause(r) \/ Resume(r) \/ Shutdown(r) \/ Drain(r) \/ Unregister(r)
    PROVE  IInv'
<1>0. TypeOK /\ Closing
    BY DEF IInv
<1>1. UNCHANGED <<job, malformed, wire, catchup, task, handler, tried>> /\ faults' \subseteq Faults
    BY <1>0 DEF TypeOK, Startup, Pause, Resume, Shutdown, Drain, Unregister, Fault, link
<1>2. /\ stream \in [Replicas -> {"off", "connecting", "open", "backoff", "stopping"}]
      /\ attempts \in [Replicas -> 0..MaxReconnects] /\ MaxReconnects \in Nat /\ MaxReconnects >= 1
      /\ bus \in [Replicas -> Buses]
      /\ drain \in [Replicas -> SUBSET (Tasks \cup Replicas)] /\ Alive(r) \in SUBSET (Tasks \cup Replicas)
    BY <1>0, Numbers DEF TypeOK, Alive, Buses
<1>3. StreamStarted(r) =>
        /\ stream' \in [Replicas -> {"off", "connecting", "open", "backoff", "stopping"}]
        /\ attempts' \in [Replicas -> 0..MaxReconnects]
        /\ \A q \in Replicas \ {r} : stream'[q] = stream[q]
    BY <1>2 DEF StreamStarted
<1>4. StreamStops(r) =>
        /\ stream' \in [Replicas -> {"off", "connecting", "open", "backoff", "stopping"}]
        /\ \A q \in Replicas : stream'[q] = stream[q] \/ (q = r /\ stream[q] # "off")
    BY <1>2 DEF StreamStops
<1>5. bus' \in [Replicas -> Buses] /\ \A q \in Replicas \ {r} : bus'[q] = bus[q]
    <2>1. \/ bus' = [bus EXCEPT ![r].started = TRUE]
          \/ \E b, c \in BOOLEAN : bus' = [bus EXCEPT ![r].paused = b, ![r].missed = c]
          \/ \E c \in {"stopping", "draining", "done"} : bus' = [bus EXCEPT ![r].closing = c]
        BY DEF Startup, Pause, Resume, Shutdown, Drain, Unregister
    <2>2. \A v \in Buses : \A b, c \in BOOLEAN :
            [v EXCEPT !.started = b] \in Buses /\ [v EXCEPT !.paused = b, !.missed = c] \in Buses
        BY DEF Buses
    <2>3. \A v \in Buses : \A c \in {"stopping", "draining", "done"} : [v EXCEPT !.closing = c] \in Buses
        BY DEF Buses
    <2>4. \E v \in Buses : bus' = [bus EXCEPT ![r] = v]
        BY <1>2, <2>1, <2>2, <2>3
    <2> QED BY <1>2, <2>4
<1>6. /\ stream' \in [Replicas -> {"off", "connecting", "open", "backoff", "stopping"}]
      /\ attempts' \in [Replicas -> 0..MaxReconnects]
      /\ \A q \in Replicas \ {r} : stream'[q] = stream[q]
    BY <1>2, <1>3, <1>4 DEF Startup, Pause, Resume, Shutdown, Drain, Unregister, link
<1>7. drain' \in [Replicas -> SUBSET (Tasks \cup Replicas)] /\ \A q \in Replicas \ {r} : drain'[q] = drain[q]
    <2>1. drain' = drain \/ drain' = [drain EXCEPT ![r] = Alive(r)]
        BY DEF Startup, Pause, Resume, Shutdown, Drain, Unregister
    <2> QED BY <1>2, <2>1
<1>8. TypeOK'
    BY <1>0, <1>1, <1>5, <1>6, <1>7 DEF TypeOK, Buses, handler
<1>9. \A q \in Replicas : Alive(q)' = Alive(q)
    BY <1>1 DEF Alive, Is
<1>10. /\ drain'[r] \subseteq {x \in Tasks : On(x) = r} \cup {r}
       /\ bus'[r].closing \in {"draining", "done"} => stream'[r] = "off" /\ Alive(r) \subseteq drain'[r]
       /\ bus'[r].closing = "done" => Alive(r) = {}
    <2>0. /\ drain[r] \subseteq {x \in Tasks : On(x) = r} \cup {r}
          /\ bus[r].closing \in {"draining", "done"} => stream[r] = "off" /\ Alive(r) \subseteq drain[r]
          /\ bus[r].closing = "done" => Alive(r) = {}
        BY <1>0 DEF Closing
    <2>1. CASE Startup(r)
        BY <1>2, <2>0, <2>1 DEF Buses, Startup
    <2>2. CASE Pause(r)
        BY <1>2, <1>4, <2>0, <2>2 DEF Buses, Pause
    <2>3. CASE Resume(r)
        BY <1>2, <2>0, <2>3 DEF Buses, Resume
    <2>4. CASE Shutdown(r)
        BY <1>2, <2>0, <2>4 DEF Buses, Shutdown
    <2>5. CASE Drain(r)
        <3>1. drain'[r] = Alive(r) /\ bus'[r].closing = "draining" /\ stream'[r] = "off"
            BY <1>2, <2>5 DEF Buses, Drain, link
        <3>2. Alive(r) \subseteq {x \in Tasks : On(x) = r} \cup {r}
            BY DEF Alive
        <3> QED BY <3>1, <3>2
    <2>6. CASE Unregister(r)
        BY <1>2, <2>0, <2>6 DEF Buses, Unregister, link
    <2> QED BY <2>1, <2>2, <2>3, <2>4, <2>5, <2>6
<1>11. Closing'
    BY <1>0, <1>5, <1>6, <1>7, <1>9, <1>10 DEF Closing
<1> QED BY <1>1, <1>8, <1>11, TasksKept DEF IInv

\* The tasks a drain gives up are all the replica has: its guard is empty then.
LEMMA DrainTimesOutStep ==
    ASSUME IInv, NEW r \in Replicas, DrainTimesOut(r)
    PROVE  IInv'
<1>0. TypeOK /\ Guard /\ FinishedLeftAlone /\ Closing /\ Decided /\ bus[r].closing = "draining"
    BY DEF IInv, DrainTimesOut
<1>1. UNCHANGED <<job, malformed, stream, attempts, wire, bus, drain, seen, tried>> /\ faults' \subseteq Faults
    BY <1>0 DEF TypeOK, DrainTimesOut, Fault
<1>2. /\ task' \in [Tasks -> Records]
      /\ \A x \in Tasks : task'[x] = IF x \in drain[r] THEN NoTask ELSE task[x]
    <2>1. task \in [Tasks -> Records]
        BY <1>0 DEF TypeOK, Records
    <2> QED BY <2>1, NoTaskRecord DEF DrainTimesOut
<1>3. \A x \in Tasks : task'[x] = task[x] \/ task'[x].at = "none"
    BY <1>2, NoTaskRecord
<1>4. \A x \in Tasks : On(x) = r => task'[x].at = "none"
    <2>1. Alive(r) \subseteq drain[r]
        BY <1>0 DEF Closing
    <2>2. ASSUME NEW x \in Tasks, On(x) = r, x \notin drain[r] PROVE task[x].at = "none"
        BY <2>1, <2>2 DEF Alive, Is
    <2> QED BY <1>2, <2>2, NoTaskRecord
<1>5. \A x \in Tasks : On(x) # r => task'[x] = task[x]
    <2>1. \A x \in Tasks : x \in drain[r] => On(x) = r
        BY <1>0, TaskType DEF Closing
    <2> QED BY <1>2, <2>1
<1>6. /\ inflight' \in [Replicas -> SUBSET Jobs]
      /\ \A q \in Replicas \ {r} : inflight'[q] = inflight[q]
      /\ inflight'[r] = inflight[r] \ {JobOf(x) : x \in drain[r] \cap Tasks}
    BY <1>0 DEF TypeOK, DrainTimesOut
<1>7. inflight'[r] = {}
    <2>1. ASSUME NEW j \in inflight[r] PROVE j \in {JobOf(x) : x \in drain[r] \cap Tasks}
        <3>1. j \in Jobs
            BY <1>0 DEF TypeOK
        <3>2. PICK c \in Copies : task[<<r, j, c>>].at \in Guarded
            BY <1>0 DEF Guard
        <3>3. <<r, j, c>> \in Tasks /\ On(<<r, j, c>>) = r /\ JobOf(<<r, j, c>>) = j
            BY <3>1, TaskMade
        <3>4. task'[<<r, j, c>>].at = "none" /\ task[<<r, j, c>>].at # "none"
            BY <1>4, <3>2, <3>3 DEF Guarded
        <3>5. <<r, j, c>> \in drain[r]
            BY <1>2, <3>3, <3>4
        <3> QED BY <3>3, <3>5
    <2> QED BY <1>6, <2>1
<1>8. Guard'
    <2>1. \A x \in Tasks : task'[x].at \in Guarded => On(x) # r /\ task'[x] = task[x]
        BY <1>4, <1>5 DEF Guarded
    <2>2. \A x \in Tasks : task'[x].at \in Guarded => JobOf(x) \in inflight'[On(x)]
        BY <1>0, <1>6, <2>1, TaskType DEF Guard
    <2>3. \A x, y \in Tasks : task'[x].at \in Guarded /\ task'[y].at \in Guarded /\ SameJob(x, y) => x = y
        BY <1>0, <2>1 DEF Guard
    <2>4. ASSUME NEW q \in Replicas, NEW j \in inflight'[q] PROVE \E c \in Copies : task'[<<q, j, c>>].at \in Guarded
        <3>1. q # r /\ j \in inflight[q] /\ j \in Jobs
            BY <1>6, <1>7, <2>4
        <3>2. PICK c \in Copies : task[<<q, j, c>>].at \in Guarded
            BY <1>0, <3>1 DEF Guard
        <3> QED BY <1>5, <3>1, <3>2, TaskMade
    <2> QED BY <2>2, <2>3, <2>4 DEF Guard
<1>9. FinishedLeftAlone' /\ Decided'
    BY <1>0, <1>1, <1>3 DEF FinishedLeftAlone, Decided, Is
<1>10. /\ catchup' \in [Replicas -> BOOLEAN] /\ \A q \in Replicas : catchup'[q] => catchup[q]
    BY <1>0 DEF TypeOK, DrainTimesOut
<1>11. TypeOK'
    BY <1>0, <1>1, <1>2, <1>6, <1>10 DEF TypeOK, Records
<1>12. Closing'
    <2>1. \A q \in Replicas : Alive(q)' \subseteq Alive(q)
        BY <1>3, <1>10 DEF Alive, Is
    <2> QED BY <1>0, <1>1, <2>1 DEF Closing
<1> QED BY <1>8, <1>9, <1>11, <1>12 DEF IInv

LEMMA NextIInv == IInv /\ [Next]_vars => IInv'
<1> SUFFICES ASSUME IInv, [Next]_vars PROVE IInv'
    OBVIOUS
<1>1. ASSUME NEW j \in Jobs, Create(j) PROVE IInv'
    BY <1>1, CreateStep
<1>2. ASSUME NEW r \in Replicas, StreamSteps(r) PROVE IInv'
    BY <1>2, StreamStep
<1>3. ASSUME NEW r \in Replicas, CatchUp(r) PROVE IInv'
    BY <1>3, CatchUpStep
<1>4. ASSUME NEW r \in Replicas, LifeSteps(r) PROVE IInv'
    BY <1>4, QuietLifeStep, DrainTimesOutStep DEF LifeSteps
<1>5. ASSUME NEW x \in Tasks, TaskSteps(x) PROVE IInv'
    BY <1>5, TaskStep
<1>6. ASSUME NEW r \in Replicas, NEW j \in Jobs, Forget(r, j) PROVE IInv'
    <2>1. UNCHANGED <<job, malformed, link, bus, drain, task, inflight, tried>> /\ faults' \subseteq Faults
        BY <1>6 DEF Forget, Fault, IInv, TypeOK
    <2>2. UNCHANGED <<bus, drain, task, inflight>> /\ UNCHANGED <<stream, catchup>>
        BY <2>1 DEF link
    <2>3. \A q \in Replicas : Alive(q)' = Alive(q)
        BY <2>2 DEF Alive, Is
    <2>4. Closing'
        BY <2>2, <2>3 DEF IInv, Closing
    <2>5. /\ seen' \in [Replicas -> SUBSET Jobs]
          /\ \A q \in Replicas : seen'[q] \subseteq seen[q]
        BY <1>6 DEF Forget, IInv, TypeOK
    <2>6. TypeOK'
        BY <2>1, <2>5 DEF IInv, TypeOK, link
    <2>7. Closing' /\ Guard' /\ Decided'
        BY <2>2, <2>4 DEF IInv, Guard, Decided, Is
    <2>8. FinishedLeftAlone'
        BY <2>1, <2>5, TaskType DEF IInv, FinishedLeftAlone
    <2> QED BY <2>6, <2>7, <2>8 DEF IInv
<1>7. CASE UNCHANGED vars
    <2>1. TypeOK'
        BY <1>7 DEF vars, IInv, TypeOK, link, handler
    <2>2. Closing'
        BY <1>7 DEF vars, IInv, Closing, Alive, Is, link, handler
    <2> QED BY <1>7, <2>1, <2>2, TasksKept DEF IInv, vars
<1> QED BY <1>1, <1>2, <1>3, <1>4, <1>5, <1>6, <1>7 DEF Next

\* The invariant, and what the guard says of cardinalities.
LEMMA Invariance == Spec => []IInv
<1> QED BY InitIInv, NextIInv, PTL DEF Spec

LEMMA OneTaskOfAJob == IInv => GuardHeld
<1> SUFFICES ASSUME IInv, NEW r \in Replicas, NEW j \in Jobs
             PROVE  Cardinality({c \in Copies : task[<<r, j, c>>].at \in Guarded})
                        = IF j \in inflight[r] THEN 1 ELSE 0
    BY DEF GuardHeld, Guarded
<1> DEFINE C == {c \in Copies : task[<<r, j, c>>].at \in Guarded}
<1>1. \A c \in C : j \in inflight[r]
    BY TaskMade DEF IInv, Guard
<1>2. \A c, d \in C : c = d
    <2>1. ASSUME NEW c \in C, NEW d \in C PROVE c = d
        <3>1. SameJob(<<r, j, c>>, <<r, j, d>>)
            BY DEF SameJob, On, JobOf
        <3>2. <<r, j, c>> = <<r, j, d>>
            BY <2>1, <3>1, TaskMade DEF IInv, Guard
        <3> QED BY <3>2
    <2> QED BY <2>1
<1>3. j \in inflight[r] => C # {}
    BY DEF IInv, Guard
<1> HIDE DEF C
<1>4. CASE j \in inflight[r]
    <2>1. PICK c \in C : C = {c}
        BY <1>2, <1>3, <1>4
    <2>2. Cardinality(C) = 1
        BY <2>1, FS_Singleton
    <2> QED BY <1>4, <2>2 DEF C
<1>5. CASE j \notin inflight[r]
    <2>1. Cardinality(C) = 0
        BY <1>1, <1>5, FS_EmptySet
    <2> QED BY <1>5, <2>1 DEF C
<1> QED BY <1>4, <1>5

-----------------------------------------------------------------------------
(* The theorems.                                                           *)

\* Every value stays in its type: no stage, verdict or state of a job that the
\* handler and the service do not know.
THEOREM TypeCorrect == Spec => []TypeOK
<1>1. IInv => TypeOK
    BY DEF IInv
<1> QED BY <1>1, Invariance, PTL

\* Whatever ends a task -- its report, a refusal, a stale key, job_timeout or the
\* drain's timeout -- takes its job out of the in-flight guard, and no two
\* notifications of a job are ever inside it on one replica.
THEOREM GuardIsExact == Spec => []GuardHeld
BY OneTaskOfAJob, Invariance, PTL

\* A job that a replica has reported is never requested by it again.
THEOREM FinishedStaysFinished == Spec => []FinishedLeftAlone
<1>1. IInv => FinishedLeftAlone
    BY DEF IInv
<1> QED BY <1>1, Invariance, PTL

\* The drain waits for everything that is alive, and nothing comes to life while
\* it does: when the agent unregisters, no task, catch-up or stream is left.
THEOREM RegistrationOutlivesJobs == Spec => []QuietWhenUnregistered
<1>1. IInv => QuietWhenUnregistered
    BY DEF IInv, Closing, QuietWhenUnregistered
<1> QED BY <1>1, Invariance, PTL

-----------------------------------------------------------------------------
(* The two ways in which a serving bus comes to be without its stream.       *)

\* It has no stream before it is started.
Unopened == \A r \in Replicas : ~bus[r].started => stream[r] = "off"

StreamInv == IInv /\ Unopened /\ StreamReopened

LEMMA StreamReopenedStep ==
    ASSUME StreamInv, [Next]_vars
    PROVE  StreamInv'
<1>0. /\ IInv' /\ Unopened /\ StreamReopened
      /\ stream \in [Replicas -> {"off", "connecting", "open", "backoff", "stopping"}]
      /\ attempts \in [Replicas -> 0..MaxReconnects] /\ MaxReconnects \in Nat
      /\ bus \in [Replicas -> Buses]
    BY NextIInv, Numbers DEF StreamInv, IInv, TypeOK, Buses
<1> USE DEF Buses, Serving
<1> DEFINE Reopened(r) ==
                /\ ~bus'[r].started => stream'[r] = "off"
                /\ bus'[r].started /\ ~bus'[r].paused /\ bus'[r].closing = "no" =>
                    /\ stream'[r] = "off" => bus'[r].missed \/ attempts'[r] = MaxReconnects
                    /\ stream'[r] = "stopping" => bus'[r].missed
<1>1. ASSUME UNCHANGED <<stream, attempts, bus>> PROVE \A q \in Replicas : Reopened(q)
    BY <1>0, <1>1 DEF Unopened, StreamReopened, GaveUp
<1>2. ASSUME NEW r \in Replicas, NEW q \in Replicas, q # r,
             stream'[q] = stream[q], attempts'[q] = attempts[q], bus'[q] = bus[q]
      PROVE  Reopened(q)
    BY <1>0, <1>2 DEF Unopened, StreamReopened, GaveUp
<1>3. ASSUME NEW r \in Replicas, StreamSteps(r) PROVE \A q \in Replicas : Reopened(q)
    <2>1. bus' = bus
        BY <1>3 DEF StreamSteps, Stopped, Connect, ConnectFails, Retry, Drop, Receive
    <2>2. \A q \in Replicas \ {r} : stream'[q] = stream[q] /\ attempts'[q] = attempts[q]
        BY <1>0, <1>3 DEF StreamSteps, Stopped, Connect, ConnectFails, Retry, Drop, Receive, NextAttempt
    <2>3. Reopened(r)
        <3>0. bus'[r].started
            BY <1>0, <1>3, <2>1 DEF Unopened, StreamSteps, Stopped, Connect, ConnectFails, Retry, Drop, Receive
        <3>1. CASE Stopped(r)
            BY <1>0, <2>1, <3>0, <3>1 DEF Stopped, Unopened, StreamReopened, GaveUp
        <3>2. CASE Connect(r)
            BY <1>0, <2>1, <3>0, <3>2 DEF Connect
        <3>3. CASE ConnectFails(r)
            BY <1>0, <2>1, <3>0, <3>3 DEF ConnectFails
        <3>8. NextAttempt(r) =>
                stream'[r] = "connecting" \/ (stream'[r] = "off" /\ attempts'[r] = MaxReconnects)
            <4>1. attempts[r] \in 0..MaxReconnects
                BY <1>0
            <4>2. CASE attempts[r] < MaxReconnects
                BY <1>0, <4>2 DEF NextAttempt
            <4>3. CASE ~(attempts[r] < MaxReconnects)
                BY <1>0, <4>1, <4>3 DEF NextAttempt
            <4> QED BY <4>2, <4>3
        <3>4. CASE Retry(r)
            BY <3>0, <3>4, <3>8 DEF Retry
        <3>5. CASE Drop(r)
            <4>1. CASE NextAttempt(r)
                BY <3>0, <3>8, <4>1
            <4>2. CASE stream' = [stream EXCEPT ![r] = "backoff"]
                BY <1>0, <3>0, <4>2
            <4> QED BY <3>5, <4>1, <4>2 DEF Drop
        <3>6. CASE \E j \in Jobs : Receive(r, j)
            BY <1>1, <2>1, <3>6 DEF Receive
        <3> QED BY <1>3, <3>1, <3>2, <3>3, <3>4, <3>5, <3>6 DEF StreamSteps
    <2> HIDE DEF Reopened
    <2> QED BY <1>2, <2>1, <2>2, <2>3
<1>4. ASSUME NEW r \in Replicas, LifeSteps(r) PROVE \A q \in Replicas : Reopened(q)
    <2>1. \A q \in Replicas \ {r} : stream'[q] = stream[q] /\ attempts'[q] = attempts[q] /\ bus'[q] = bus[q]
        <3>1. \A q \in Replicas \ {r} : bus'[q] = bus[q]
            BY <1>0, <1>4 DEF LifeSteps, Startup, Pause, Resume, Shutdown, Drain, DrainTimesOut, Unregister
        <3>2. \A q \in Replicas \ {r} : stream'[q] = stream[q] /\ attempts'[q] = attempts[q]
            BY <1>0, <1>4 DEF LifeSteps, Startup, Pause, Resume, Shutdown, Drain, DrainTimesOut, Unregister,
                StreamStarted, StreamStops, link
        <3> QED BY <3>1, <3>2
    <2>2. Reopened(r)
        <3>0. /\ ~bus[r].started => stream[r] = "off"
              /\ bus[r].started /\ ~bus[r].paused /\ bus[r].closing = "no" =>
                /\ stream[r] = "off" => bus[r].missed \/ attempts[r] = MaxReconnects
                /\ stream[r] = "stopping" => bus[r].missed
            BY <1>0 DEF Unopened, StreamReopened, GaveUp
        <3>1. CASE Startup(r)
            <4>1. /\ bus'[r].closing = bus[r].closing /\ bus'[r].paused = bus[r].paused
                  /\ bus'[r].missed = bus[r].missed /\ ~bus[r].started
                BY <1>0, <3>1 DEF Startup
            <4> QED BY <1>0, <3>0, <3>1, <4>1 DEF Startup, StreamStarted
        <3>2. CASE Pause(r)
            <4>1. bus'[r].paused /\ bus'[r].started = bus[r].started /\ (stream[r] = "off" => stream'[r] = "off")
                BY <1>0, <3>2 DEF Pause, StreamStops
            <4> QED BY <3>0, <4>1
        <3>3. CASE Resume(r)
            <4>1. /\ bus'[r].closing = bus[r].closing /\ bus'[r].started = bus[r].started
                  /\ bus'[r].missed <=> stream[r] = "stopping"
                BY <1>0, <3>3 DEF Resume
            <4> QED BY <1>0, <3>0, <3>3, <4>1 DEF Resume, StreamStarted
        <3>4. CASE Shutdown(r)
            <4>1. bus'[r].closing = "stopping" /\ bus'[r].started
                BY <1>0, <3>4 DEF Shutdown
            <4> QED BY <4>1
        <3>5. CASE Drain(r)
            <4>1. bus'[r].closing = "draining" /\ bus'[r].started = bus[r].started /\ stream' = stream
                BY <1>0, <3>5 DEF Drain, link
            <4> QED BY <3>0, <4>1
        <3>6. CASE DrainTimesOut(r)
            BY <1>1, <3>6 DEF DrainTimesOut
        <3>7. CASE Unregister(r)
            <4>1. bus'[r].closing = "done" /\ bus'[r].started = bus[r].started /\ stream' = stream
                BY <1>0, <3>7 DEF Unregister, link
            <4> QED BY <3>0, <4>1
        <3> QED BY <1>4, <3>1, <3>2, <3>3, <3>4, <3>5, <3>6, <3>7 DEF LifeSteps
    <2> HIDE DEF Reopened
    <2> QED BY <1>2, <2>1, <2>2
<1>5. \A q \in Replicas : Reopened(q)
    <2>1. ASSUME NEW j \in Jobs, Create(j) PROVE UNCHANGED <<stream, attempts, bus>>
        BY <2>1 DEF Create
    <2>2. ASSUME NEW r \in Replicas, CatchUp(r) PROVE UNCHANGED <<stream, attempts, bus>>
        BY <2>2 DEF CatchUp
    <2>3. ASSUME NEW x \in Tasks, TaskSteps(x) PROVE UNCHANGED <<stream, attempts, bus>>
        BY <2>3, TaskIsLocal DEF link, StreamInv, IInv
    <2>4. ASSUME NEW r \in Replicas, NEW j \in Jobs, Forget(r, j) PROVE UNCHANGED <<stream, attempts, bus>>
        BY <2>4 DEF Forget, link
    <2>5. UNCHANGED vars => UNCHANGED <<stream, attempts, bus>>
        BY DEF vars, link
    <2> HIDE DEF Reopened
    <2> QED BY <1>1, <1>3, <1>4, <2>1, <2>2, <2>3, <2>4, <2>5 DEF Next
<1>6. Unopened' /\ StreamReopened'
    BY <1>5 DEF Unopened, StreamReopened, GaveUp
<1> QED BY <1>0, <1>6 DEF StreamInv

\* Whatever pauses, resumes -- overlapping or not -- startups and broken streams
\* came before, a serving bus without its stream has missed its last resume or
\* used up its connections; nothing else closes the stream, and neither outlasts
\* the next pause and resume.
THEOREM StreamComesBack == Spec => []StreamReopened
<1>1. Init => StreamInv
    BY InitIInv DEF Init, StreamInv, Unopened, StreamReopened, Serving
<1>2. StreamInv /\ [Next]_vars => StreamInv'
    BY StreamReopenedStep
<1>3. StreamInv => StreamReopened
    BY DEF StreamInv
<1> QED BY <1>1, <1>2, <1>3, PTL DEF Spec

-----------------------------------------------------------------------------
(* A single replica's work is not disturbed by its own other notifications. *)

WorkInv == IInv /\ JobsKnown /\ WorkKept

\* What a step preserves that leaves the jobs as they are and their tasks too,
\* but for new ones and those that are dropped.
LEMMA WorkSettles ==
    ASSUME WorkInv, UNCHANGED <<job, malformed>>, faults \subseteq faults',
           \A r \in Replicas : wire'[r] \subseteq wire[r],
           \A x \in Tasks :
                \/ task'[x] = task[x]
                \/ task'[x].at = "none" /\ ~task'[x].renewed
                \/ task'[x].at = "spawned" /\ ~task'[x].renewed /\ job[JobOf(x)] # "none"
    PROVE  JobsKnown' /\ WorkKept'
<1>1. JobsKnown'
    BY DEF WorkInv, JobsKnown, Is
<1>2. \A x \in Tasks : task'[x] = task[x] \/ task'[x].at \in {"none", "spawned"}
    OBVIOUS
<1>3. faults' \cap {"refused", "stale"} = {} => faults \cap {"refused", "stale"} = {}
    OBVIOUS
<1>4. WorkKept'
    BY <1>2, <1>3 DEF WorkInv, WorkKept, Working, Is
<1> QED BY <1>1, <1>4

LEMMA CreateWork ==
    ASSUME WorkInv, NEW j \in Jobs, Create(j)
    PROVE  JobsKnown' /\ WorkKept'
<1>0. /\ job \in [Jobs -> {"none", "pending", "running"} \cup Final] /\ wire \in [Replicas -> SUBSET Jobs]
      /\ malformed \subseteq Jobs /\ JobsKnown /\ WorkKept
    BY DEF WorkInv, IInv, TypeOK
<1>1. /\ \A k \in Jobs : job'[k] = IF k = j THEN "pending" ELSE job[k]
      /\ job[j] = "none" /\ UNCHANGED <<malformed, task, faults>>
      /\ \A r \in Replicas : wire'[r] \subseteq wire[r] \cup {j}
    BY <1>0 DEF Create
<1>2. \A x \in Tasks : task[x].at # "none" => JobOf(x) # j /\ job'[JobOf(x)] = job[JobOf(x)]
    BY <1>0, <1>1, TaskType DEF JobsKnown, Is
<1>3. JobsKnown'
    <2>1. \A r \in Replicas : \A k \in wire'[r] : job'[k] # "none"
        BY <1>0, <1>1 DEF JobsKnown
    <2>2. \A k \in malformed' : job'[k] \in {"none", "pending", "cancelled"}
        BY <1>0, <1>1 DEF JobsKnown
    <2> QED BY <1>0, <1>1, <1>2, <2>1, <2>2 DEF JobsKnown, Is
<1>4. WorkKept'
    BY <1>0, <1>1, <1>2 DEF WorkKept, Working, Is
<1> QED BY <1>3, <1>4

LEMMA TaskWork ==
    ASSUME \A q, r \in Replicas : q = r, WorkInv, NEW x \in Tasks, TaskSteps(x)
    PROVE  JobsKnown' /\ WorkKept'
<1> DEFINE j == JobOf(x)
<1>0. /\ TypeOK /\ Guard /\ Decided /\ JobsKnown /\ WorkKept
      /\ job \in [Jobs -> {"none", "pending", "running"} \cup Final] /\ j \in Jobs
      /\ task[x].at # "none" /\ task \in [Tasks -> Records] /\ task' \in [Tasks -> Records]
      /\ \A y \in Tasks \ {x} : task'[y] = task[y]
      /\ malformed' = malformed /\ malformed \subseteq Jobs /\ wire' = wire /\ wire \in [Replicas -> SUBSET Jobs]
      /\ faults \subseteq faults' /\ (task'[x].renewed => task[x].renewed \/ "stale" \in faults')
      /\ Ended(x) \/ GivesUp(x) \/ Fetched(x) \/ Started(x) \/ Processed(x) \/ Repeats(x)
    BY TaskIsLocal, TaskEffects, TaskType DEF WorkInv, IInv, TypeOK, Records, link
\* The guard keeps the other notifications of the job out.
<1>1. \A y \in Tasks : task[x].at \in Guarded /\ task[y].at \in Guarded /\ JobOf(y) = j => y = x
    BY <1>0, TaskType DEF Guard, SameJob
\* What the request of x may make of its job.
<1>2. /\ \A k \in Jobs \ {j} : job'[k] = job[k]
      /\ \/ job'[j] = job[j]
         \/ Is(x, "starting") /\ job[j] = "pending" /\ job'[j] = "running"
         \/ Is(x, "finishing") /\ Grants(j, task[x].verdict) /\ job'[j] = task[x].verdict
         \/ Is(x, "cancelling") /\ Grants(j, "cancelled") /\ job'[j] = "cancelled"
    BY <1>0 DEF Effect, Reported, Ended, GivesUp, Fetched, Started, Processed, Repeats
<1>3. job[j] # "none" /\ job'[j] # "none" /\ \A k \in Jobs : job[k] # "none" => job'[k] # "none"
    BY <1>0, <1>2 DEF JobsKnown, Decided, Final, Is
<1>4. JobsKnown'
    <2>1. \A r \in Replicas : \A k \in wire'[r] : job'[k] # "none"
        BY <1>0, <1>3 DEF JobsKnown
    <2>2. \A y \in Tasks : task'[y].at # "none" => job'[JobOf(y)] # "none"
        BY <1>0, <1>3, TaskType DEF JobsKnown, Is
    <2>3. \A k \in malformed' : job'[k] \in {"none", "pending", "cancelled"}
        BY <1>0, <1>2 DEF JobsKnown, Is
    <2>4. task'[x].at \in {"starting", "processing"} => j \notin malformed
        BY <1>0 DEF JobsKnown, Ended, GivesUp, Fetched, Started, Processed, Repeats, Is
    <2>5. task'[x].at = "finishing" /\ j \in malformed => task'[x].verdict = "cancelled"
        BY <1>0 DEF JobsKnown, Ended, GivesUp, Fetched, Started, Processed, Repeats, Is
    <2>6. "stale" \notin faults' => ~task'[x].renewed
        BY <1>0 DEF JobsKnown
    <2> QED BY <1>0, <2>1, <2>2, <2>3, <2>4, <2>5, <2>6 DEF JobsKnown, Is
<1>5. ASSUME faults' \cap {"refused", "stale"} = {}
      PROVE  /\ \A y \in Tasks : task'[y].at = "cancelling" => job'[JobOf(y)] # "pending"
             /\ \A y \in Tasks : task'[y].at = "processing" => job'[JobOf(y)] = "running"
             /\ \A y \in Tasks : Working(y)' => job'[JobOf(y)] \in {"running", task'[y].verdict}
             /\ \A y, z \in Tasks : Working(y)' /\ task'[z].at = "cancelling" => JobOf(y) # JobOf(z)
    <2>0. /\ \A y \in Tasks : task[y].at = "cancelling" => job[JobOf(y)] # "pending"
          /\ \A y \in Tasks : task[y].at = "processing" => job[JobOf(y)] = "running"
          /\ \A y \in Tasks : Working(y) => job[JobOf(y)] \in {"running", task[y].verdict}
          /\ \A y, z \in Tasks : Working(y) /\ task[z].at = "cancelling" => JobOf(y) # JobOf(z)
          /\ ~task[x].renewed
        BY <1>0, <1>5 DEF WorkKept, JobsKnown, Is
    <2>1. \A y \in Tasks : Working(y) => task[y].at \in Guarded
        BY DEF Working, Guarded, Is
    <2>2. \A y \in Tasks \ {x} : Working(y)' <=> Working(y)
        BY <1>0 DEF Working, Is
    \* x itself.
    <2>3. /\ task'[x].at = "cancelling" => job'[j] # "pending"
          /\ task'[x].at = "processing" => job'[j] = "running"
          /\ Working(x)' => job'[j] \in {"running", task'[x].verdict}
        <3>1. CASE Ended(x)
            BY <3>1 DEF Ended, Working, Is
        <3>2. CASE GivesUp(x)
            <4>1. job'[j] # "pending"
                <5>1. CASE Is(x, "starting") /\ job[j] # "pending" /\ job' = job
                    BY <5>1
                <5>2. CASE Is(x, "finishing") /\ ~Grants(j, task[x].verdict) /\ job' = job
                    <6>1. j \in malformed => task[x].verdict = "cancelled"
                        BY <1>0, <5>2 DEF JobsKnown
                    <6>2. j \notin malformed => job[j] \in {"running", task[x].verdict}
                        BY <2>0, <5>2 DEF Working
                    <6> QED BY <1>0, <5>2, <6>1, <6>2 DEF Grants, Decided, Final
                <5> QED BY <1>5, <2>0, <3>2, <5>1, <5>2 DEF GivesUp
            <4> QED BY <3>2, <4>1 DEF GivesUp, Working, Is
        <3>3. CASE Fetched(x)
            BY <1>0, <3>3 DEF Fetched, Working, Is
        <3>4. CASE Started(x)
            BY <1>0, <3>4 DEF Started, Reported, Working, Is
        <3>5. CASE Processed(x)
            BY <2>0, <3>5 DEF Processed, Working, Is
        <3>6. CASE Repeats(x)
            BY <1>0, <1>2, <2>0, <3>6 DEF Repeats, Working, Is
        <3> QED BY <1>0, <3>1, <3>2, <3>3, <3>4, <3>5, <3>6
    \* The others: a task that works on the same job would be x.
    <2>4. ASSUME NEW y \in Tasks, y # x, Working(y) PROVE job'[JobOf(y)] = job[JobOf(y)]
        <3>1. JobOf(y) = j => task[x].at \notin Guarded /\ task[x].at # "cancelling"
            BY <1>1, <2>0, <2>1, <2>4
        <3> QED BY <1>2, <3>1, <2>4, TaskType DEF Guarded, Is
    <2>5. ASSUME NEW y \in Tasks, y # x, task[y].at = "cancelling" PROVE job'[JobOf(y)] # "pending"
        BY <1>0, <1>2, <2>0, <2>5, TaskType DEF Decided, Final, Is
    <2>6. ASSUME NEW y \in Tasks, NEW z \in Tasks, Working(y)', task'[z].at = "cancelling", JobOf(y) = JobOf(z)
          PROVE  FALSE
        <3>1. y # z
            BY <2>6 DEF Working, Is
        <3>2. CASE y = x
            <4>1. task[z].at = "cancelling" /\ job[j] # "pending"
                BY <1>0, <2>0, <2>6, <3>1, <3>2
            <4>2. Working(x)
                BY <1>0, <2>6, <3>2, <4>1
                    DEF Ended, GivesUp, Fetched, Started, Processed, Repeats, Working, JobsKnown, Is
            <4> QED BY <2>0, <2>6, <3>2, <4>1, <4>2
        <3>3. CASE y # x /\ z = x
            <4>1. Working(y)
                BY <2>2, <2>6, <3>3
            <4>2. task[x].at \in Guarded \/ task[x].at = "cancelling"
                BY <1>0, <1>5, <2>0, <2>6, <3>3
                    DEF Ended, GivesUp, Fetched, Started, Processed, Repeats, Guarded, Is
            <4> QED BY <1>1, <2>0, <2>1, <2>6, <3>3, <4>1, <4>2
        <3>4. CASE y # x /\ z # x
            BY <1>0, <2>0, <2>2, <2>6, <3>4
        <3> QED BY <3>2, <3>3, <3>4
    <2>7. \A y \in Tasks : task'[y].at = "cancelling" => job'[JobOf(y)] # "pending"
        BY <1>0, <2>3, <2>5
    <2>8. \A y \in Tasks : task'[y].at = "processing" => job'[JobOf(y)] = "running"
        BY <1>0, <2>0, <2>3, <2>4 DEF Working, Is
    <2>9. \A y \in Tasks : Working(y)' => job'[JobOf(y)] \in {"running", task'[y].verdict}
        BY <1>0, <2>0, <2>2, <2>3, <2>4
    <2> QED BY <2>6, <2>7, <2>8, <2>9
<1> QED BY <1>4, <1>5 DEF WorkKept, Is

LEMMA WorkStep ==
    ASSUME \A q, r \in Replicas : q = r, WorkInv, [Next]_vars
    PROVE  WorkInv'
<1>0. IInv' /\ TypeOK /\ JobsKnown
    BY NextIInv DEF WorkInv, IInv
<1>1. ASSUME NEW j \in Jobs, Create(j) PROVE JobsKnown' /\ WorkKept'
    BY <1>1, CreateWork
<1>2. ASSUME NEW r \in Replicas, StreamSteps(r) PROVE JobsKnown' /\ WorkKept'
    <2>1. UNCHANGED <<job, malformed>> /\ faults \subseteq faults'
        BY <1>2 DEF StreamSteps, Stopped, Connect, ConnectFails, Retry, Drop, Receive, Fault
    <2>2. \A q \in Replicas : wire'[q] \subseteq wire[q]
        <3>1. \/ wire' = wire \/ wire' = [wire EXCEPT ![r] = {}]
              \/ \E j \in Jobs : wire' = [wire EXCEPT ![r] = @ \ {j}]
            BY <1>2 DEF StreamSteps, Stopped, Connect, ConnectFails, Retry, Drop, Receive
        <3>2. wire \in [Replicas -> SUBSET Jobs]
            BY <1>0 DEF TypeOK
        <3> QED BY <3>1, <3>2
    <2>3. ASSUME NEW j \in Jobs, Receive(r, j), NEW x \in Tasks
          PROVE  task'[x] = task[x] \/ (task'[x].at = "spawned" /\ ~task'[x].renewed /\ job[JobOf(x)] # "none")
        <3>1. Spawned(r, {j}) /\ job[j] # "none"
            BY <1>0, <2>3 DEF Receive, JobsKnown
        <3> QED BY <1>0, <3>1, SpawnedTasks
    <2>4. ASSUME NEW x \in Tasks
          PROVE  task'[x] = task[x] \/ (task'[x].at = "spawned" /\ ~task'[x].renewed /\ job[JobOf(x)] # "none")
        BY <1>2, <2>3 DEF StreamSteps, Stopped, Connect, ConnectFails, Retry, Drop
    <2> QED BY <2>1, <2>2, <2>4, WorkSettles
<1>3. ASSUME NEW r \in Replicas, CatchUp(r) PROVE JobsKnown' /\ WorkKept'
    <2>1. UNCHANGED <<job, malformed, wire>> /\ faults \subseteq faults'
        BY <1>3 DEF CatchUp, Fault
    <2>2. task' = task \/ Spawned(r, {j \in Jobs : job[j] = "pending"})
        BY <1>3 DEF CatchUp
    <2>3. ASSUME NEW x \in Tasks
          PROVE  task'[x] = task[x] \/ (task'[x].at = "spawned" /\ ~task'[x].renewed /\ job[JobOf(x)] # "none")
        BY <1>0, <2>2, SpawnedTasks
    <2> QED BY <2>1, <2>3, WorkSettles
<1>4. ASSUME NEW r \in Replicas, LifeSteps(r) PROVE JobsKnown' /\ WorkKept'
    <2>1. UNCHANGED <<job, malformed, wire>> /\ faults \subseteq faults'
        BY <1>4 DEF LifeSteps, Startup, Pause, Resume, Shutdown, Drain, DrainTimesOut, Unregister, Fault, link
    <2>2. task' = task \/ task' = [x \in Tasks |-> IF x \in drain[r] THEN NoTask ELSE task[x]]
        BY <1>4 DEF LifeSteps, Startup, Pause, Resume, Shutdown, Drain, DrainTimesOut, Unregister
    <2>3. \A x \in Tasks : task'[x] = task[x] \/ (task'[x].at = "none" /\ ~task'[x].renewed)
        BY <2>2, NoTaskRecord
    <2> QED BY <2>1, <2>3, WorkSettles
<1>5. ASSUME NEW x \in Tasks, TaskSteps(x) PROVE JobsKnown' /\ WorkKept'
    BY <1>5, TaskWork
<1>6. ASSUME NEW r \in Replicas, NEW j \in Jobs, Forget(r, j) PROVE JobsKnown' /\ WorkKept'
    <2>1. UNCHANGED <<job, malformed, wire, task>> /\ faults \subseteq faults'
        BY <1>6 DEF Forget, Fault, link
    <2> QED BY <2>1, WorkSettles
<1>7. ASSUME UNCHANGED vars PROVE JobsKnown' /\ WorkKept'
    <2>1. UNCHANGED <<job, malformed, wire, task, faults>>
        BY <1>7 DEF vars, link
    <2>2. UNCHANGED <<job, malformed>> /\ faults \subseteq faults' /\ \A r \in Replicas : wire'[r] \subseteq wire[r]
        BY <2>1
    <2>3. \A x \in Tasks : task'[x] = task[x]
        BY <2>1
    <2> QED BY <2>2, <2>3, WorkSettles
<1> QED BY <1>0, <1>1, <1>2, <1>3, <1>4, <1>5, <1>6, <1>7 DEF Next, WorkInv

\* With one replica, as long as the key is neither refused nor stale, the job a
\* task works on stays running until that task reports it: the notifications
\* that come again and again from the stream and from catch-ups find the guard
\* or a refusal, and never cancel it.
THEOREM OwnWorkUndisturbed ==
    ASSUME \A q, r \in Replicas : q = r
    PROVE  Spec => []WorkUndisturbed
<1>1. Init => WorkInv
    <2>1. ASSUME Init PROVE \A x \in Tasks : task[x].at = "none" /\ ~task[x].renewed
        BY <2>1, NoTaskRecord DEF Init
    <2>2. ASSUME Init PROVE JobsKnown
        BY <2>1, <2>2 DEF Init, JobsKnown, Is
    <2>3. ASSUME Init PROVE WorkKept
        BY <2>1, <2>3 DEF WorkKept, Working, Is
    <2> QED BY <2>2, <2>3, InitIInv DEF WorkInv
<1>2. WorkInv /\ [Next]_vars => WorkInv'
    BY WorkStep
<1>3. WorkInv => WorkUndisturbed
    <2>1. ASSUME WorkInv, faults \cap {"refused", "stale"} = {}, NEW x \in Tasks, Is(x, "finishing")
          PROVE  job[JobOf(x)] \in {"pending", "running", task[x].verdict}
        <3>1. CASE JobOf(x) \in malformed
            BY <2>1, <3>1, TaskType DEF WorkInv, JobsKnown, Is
        <3>2. CASE JobOf(x) \notin malformed
            BY <2>1, <3>2 DEF WorkInv, WorkKept, Working
        <3> QED BY <3>1, <3>2
    <2> QED BY <2>1 DEF WorkInv, WorkKept, WorkUndisturbed
<1> QED BY <1>1, <1>2, <1>3, PTL DEF Spec
=============================================================================
