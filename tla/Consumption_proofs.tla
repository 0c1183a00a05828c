-------------------------- MODULE Consumption_proofs --------------------------
(***************************************************************************)
(* Theorems about one agent's default connection, for any topics, settings *)
(* and faults: the type of its state; that an agent recorded as up has     *)
(* somebody to resume it as long as it is paused; and that somebody is at  *)
(* work on what it has not subscribed, unless the loop's drop wiped what a *)
(* resume had made, or there was a final error.                            *)
(***************************************************************************)
EXTENDS Consumption, TLAPS

-----------------------------------------------------------------------------
(* The inductive invariants.                                               *)

Idle == {"off", "healthy", "unhealthy"}
Pausing == {"cancelled", "draining", "settling"}
Resuming == {"subscribing", "broken", "dropping"}
Resumes == Observers \cup RetryTasks

Retried == \E r \in RetryTasks : ~Is(r, "off")

\* Who the one call is, and what the pause flag and the record say of it.
Calls ==
    /\ \A o \in Observers : Is(o, "off") \/ o \in faults.observers
    /\ \A o \in Observers : task[o].at \in Idle \cup Pausing \cup Resuming
    /\ lock # NoOne => Is(lock, "draining") \/ Is(lock, "settling")
    /\ \A o \in Observers : task[o].at \in Pausing => ~sup.up /\ ~Retried /\ (Is(o, "cancelled") \/ flag.paused)
    /\ \A o \in Observers : task[o].at \in Resuming => sup.up /\ ~flag.paused /\ flag.managed /\ ~Retried
    /\ \A r \in RetryTasks : ~Is(r, "off") =>
          /\ r = current /\ sup.up /\ flag.paused /\ flag.managed
          /\ task[r].at \in Resuming \cup {"sleeping"}
    /\ flag.paused /\ sup.up => Retried

\* Until it is closed, with one call at a time.
CallsInv == TypeOK /\ (closer = "no" \/ flag.closing) /\ (flag.closing \/ ~OneCall \/ Calls)

Subscribed == \A t \in Topics : subs[t] > 0
Ahead(x) == \A t \in Topics : t \in task[x].todo \/ subs[t] > 0
Resumed == \E o \in Observers : task[o].at \in Resuming

\* What a resume has subscribed is kept until it is through.
ResumesTended ==
    /\ conn = "none" => ~Retried /\ \A x \in Resumes : task[x].at \notin Resuming
    /\ \A x \in Resumes : Is(x, "subscribing") => Ahead(x)

\* What is not subscribed has the loop at work on it, or the resume of an observer.
LoopTended ==
    /\ conn = "none" => task[Loop].at \notin Resuming
    /\ ~flag.managed => Is(Loop, "off")
    /\ ~flag.paused /\ flag.managed =>
        /\ Is(Loop, "subscribing") => Ahead(Loop) \/ Resumed
        /\ GaveUp \/ Subscribed \/ ~Is(Loop, "off") \/ Resumed

Tended == ResumesTended /\ LoopTended

TendedInv == CallsInv /\ (flag.closing \/ ~OneCall \/ ~Spared \/ Tended)

-----------------------------------------------------------------------------
(* Types.                                                                  *)

Task == [at : Steps, todo : SUBSET Topics]
Flag == [managed : BOOLEAN, paused : BOOLEAN, ready : BOOLEAN, closing : BOOLEAN,
         orphaned : BOOLEAN, refused : BOOLEAN, jetstream : BOOLEAN, retries : Retries]
Supervisor == [up : BOOLEAN, forced : {"no", "startup", "fatal"}, recovery : {"none", "running", "done"}]
Faults == [count : 0..MaxFaults, kinds : SUBSET FaultKinds, observers : SUBSET Observers,
           wiped : BOOLEAN]
Attempts(n, f) == n \in Nat /\ (f.retries # Unlimited => n <= f.retries)

LEMMA TasksDiffer ==
    /\ Loop \in Tasks /\ Observers \subseteq Tasks /\ RetryTasks \subseteq Tasks
    /\ \A o \in Observers : o # Loop /\ o \notin RetryTasks /\ o # NoOne
    /\ \A r \in RetryTasks : r # Loop /\ r \notin Observers /\ r # NoOne
    /\ NoOne \notin Tasks
BY DistinctTasks DEF Tasks

LEMMA Places == \A step \in Steps : At(step) \in Task
BY DEF At, Task, Steps

LEMMA SubscribingType == Subscribing \in Task /\ NoSubs \in [Topics -> 0..MaxSubs]
BY Bounds DEF Subscribing, Task, Steps, NoSubs

\* The loop runs, and nobody else has moved.
LEMMA Started ==
    ASSUME NEW tk \in [Tasks -> Task]
    PROVE  /\ LoopStarted(tk) \in [Tasks -> Task]
           /\ LoopStarted(tk)[Loop].at # "off"
           /\ LoopStarted(tk)[Loop] = IF tk[Loop].at = "off" THEN At("connecting") ELSE tk[Loop]
           /\ \A x \in Tasks : x # Loop => LoopStarted(tk)[x] = tk[x]
<1>1. At("connecting") \in Task /\ At("connecting").at = "connecting"
    BY DEF At, Task, Steps
<1> QED BY <1>1, TasksDiffer DEF LoopStarted

\* One field of the flags, or a few, may change.
LEMMA TypeParts ==
    TypeOK <=> /\ conn \in {"none", "up", "down", "dead"}
               /\ flag \in Flag /\ subs \in [Topics -> 0..MaxSubs] /\ task \in [Tasks -> Task]
               /\ Attempts(attempts, flag)
               /\ current \in RetryTasks \cup {NoOne} /\ lock \in Observers \cup {NoOne}
               /\ rechecking \in BOOLEAN /\ fatal \in {"none", "pending", "handled"}
               /\ sup \in Supervisor /\ other \in BOOLEAN /\ closer \in {"no", "draining", "done"}
               /\ faults \in Faults
BY DEF TypeOK, Flag, Task, Attempts, Supervisor, Faults

\* What the clients' flags become keeps their type, and how many retries there may be.
SameRetries == flag' \in Flag /\ flag'.retries = flag.retries

LEMMA FlagSteps ==
    ASSUME flag \in Flag, NEW a \in BOOLEAN, NEW b \in BOOLEAN, NEW c \in BOOLEAN
    PROVE  /\ flag' = flag => SameRetries
           /\ flag' = [flag EXCEPT !.ready = a] => SameRetries
           /\ flag' = [flag EXCEPT !.paused = a] => SameRetries
           /\ flag' = [flag EXCEPT !.managed = a, !.ready = b] => SameRetries
           /\ flag' = [flag EXCEPT !.ready = a, !.orphaned = b] => SameRetries
           /\ flag' = [flag EXCEPT !.ready = a, !.refused = b] => SameRetries
           /\ flag' = [flag EXCEPT !.paused = a, !.ready = b] => SameRetries
           /\ flag' = [flag EXCEPT !.paused = a, !.orphaned = b] => SameRetries
           /\ flag' = [flag EXCEPT !.closing = a, !.ready = b] => SameRetries
           /\ flag' = [flag EXCEPT !.paused = a, !.ready = b, !.orphaned = c] => SameRetries
BY DEF Flag, SameRetries

LEMMA NoAttempts ==
    ASSUME flag \in Flag, SameRetries
    PROVE  Attempts(0, flag')
<1>1. flag'.retries \in Nat \cup {Unlimited}
    BY Bounds DEF Flag, SameRetries
<1> QED BY <1>1 DEF Attempts

LEMMA FaultSteps ==
    ASSUME faults \in Faults, NEW k, Fault(k)
    PROVE  faults' \in Faults /\ faults'.observers = faults.observers /\ faults'.wiped = faults.wiped
BY Bounds DEF Faults, Fault

\* What is wiped remains so.
LEMMA WipedSteps ==
    ASSUME faults \in Faults, NEW x, Dropped(x)
    PROVE  /\ faults' \in Faults /\ faults'.observers = faults.observers
           /\ faults.wiped => faults'.wiped
           /\ x = Loop /\ HalfResumed => faults'.wiped
<1>1. (faults.wiped \/ HalfResumed) \in BOOLEAN
    OBVIOUS
<1>2. CASE x = Loop
    BY <1>1, <1>2 DEF Dropped, Faults
<1>3. CASE x # Loop
    BY <1>3 DEF Dropped
<1> QED BY <1>2, <1>3

\* One task moves.
LEMMA Goings ==
    ASSUME task \in [Tasks -> Task], NEW x \in Tasks, NEW step \in Steps, Goes(x, step)
    PROVE  /\ task' \in [Tasks -> Task] /\ task'[x] = At(step) /\ task'[x].at = step
           /\ \A y \in Tasks : y # x => task'[y] = task[y]
<1>1. At(step) \in Task /\ At(step).at = step
    BY DEF At, Task
<1> QED BY <1>1 DEF Goes

LEMMA OutsideTypes ==
    ASSUME TypeOK, BrokerSteps \/ ProcessSteps
    PROVE  TypeOK'
<1> USE TasksDiffer
<1>1. /\ flag \in Flag /\ task \in [Tasks -> Task] /\ Attempts(attempts, flag) /\ faults \in Faults
      /\ subs \in [Topics -> 0..MaxSubs] /\ NoSubs \in [Topics -> 0..MaxSubs]
    BY TypeParts, SubscribingType
<1>2. CASE Disconnect \/ Reconnect \/ CheckFails \/ CheckPasses \/ Release
    <2>1. SameRetries
        <3>1. CASE Disconnect
            BY <1>1, <3>1, FlagSteps DEF Disconnect
        <3>2. CASE Reconnect
            <4>1. (flag.ready \/ ((flag.managed /\ ~flag.paused) /\ ~flag.jetstream)) \in BOOLEAN
                OBVIOUS
            <4> QED BY <1>1, <3>2, <4>1, FlagSteps DEF Reconnect
        <3>3. CASE CheckFails \/ CheckPasses \/ Release
            BY <1>1, <3>3, FlagSteps DEF CheckFails, CheckPasses, Release, client
        <3> QED BY <1>2, <3>1, <3>2, <3>3
    <2>2. faults' \in Faults
        BY <1>1, <1>2, FaultSteps DEF Disconnect, Reconnect, CheckFails, CheckPasses, Release
    <2>3. sup' \in Supervisor /\ other' \in BOOLEAN /\ rechecking' \in BOOLEAN /\ conn' \in {"none", "up", "down", "dead"}
        BY <1>2, TypeParts DEF Disconnect, Reconnect, CheckFails, CheckPasses, Release, client, Supervisor
    <2>4. UNCHANGED <<subs, task, attempts, current, lock, fatal, closer>>
        BY <1>2 DEF Disconnect, Reconnect, CheckFails, CheckPasses, Release, client
    <2> QED BY <1>1, <2>1, <2>2, <2>3, <2>4, TypeParts DEF SameRetries, Attempts, TypeOK, Flag, Task, Supervisor, Faults
<1>3. CASE Rechecked
    <2>1. SameRetries
        BY <1>1, <1>3, FlagSteps DEF Rechecked
    <2>2. faults' \in Faults /\ fatal' \in {"none", "pending", "handled"} /\ rechecking' \in BOOLEAN
        BY <1>1, <1>3, TypeParts, FaultSteps DEF Rechecked, Reported
    <2>3. UNCHANGED <<conn, subs, attempts, current, lock, task, sup, other, closer>>
        BY <1>3 DEF Rechecked
    <2> QED BY <1>1, <2>1, <2>2, <2>3, TypeParts DEF SameRetries, Attempts, TypeOK, Flag, Task, Supervisor, Faults
<1>4. CASE Die
    <2> DEFINE broken == [x \in Tasks |-> IF Is(x, "subscribing") THEN At("broken") ELSE task[x]]
    <2>1. broken \in [Tasks -> Task]
        BY <1>1, Places DEF Steps
    <2> HIDE DEF broken
    <2>2. LoopStarted(broken) \in [Tasks -> Task]
        BY <2>1, Started
    <2>3. task' \in [Tasks -> Task] /\ subs' \in [Topics -> 0..MaxSubs] /\ SameRetries
        BY <1>1, <1>4, <2>1, <2>2, FlagSteps DEF Die, broken
    <2>4. faults' \in Faults /\ conn' = "dead" /\ UNCHANGED <<attempts, current, lock, rechecking, fatal, sup, other, closer>>
        BY <1>1, <1>4, FaultSteps DEF Die
    <2> QED BY <1>1, <2>3, <2>4, TypeParts DEF SameRetries, Attempts, TypeOK, Flag, Task, Supervisor, Faults
<1>5. CASE Subscribe
    <2>1. task' \in [Tasks -> Task] /\ SameRetries
        BY <1>1, <1>5, Started, FlagSteps DEF Subscribe
    <2>2. UNCHANGED <<conn, subs, attempts, current, lock, rechecking, fatal, sup, other, closer, faults>>
        BY <1>5 DEF Subscribe
    <2> QED BY <1>1, <2>1, <2>2, TypeParts DEF SameRetries, Attempts, TypeOK, Flag, Task, Supervisor, Faults
<1>6. CASE Close
    <2>1. task' \in [Tasks -> Task]
        BY <1>1, <1>6, Places DEF Close, Steps
    <2>2. SameRetries /\ attempts' = 0 /\ current' = NoOne /\ closer' = "draining"
        BY <1>1, <1>6, FlagSteps DEF Close
    <2>3. Attempts(attempts', flag')
        BY <1>1, <2>2, NoAttempts
    <2>4. faults' \in Faults /\ UNCHANGED <<conn, subs, lock, rechecking, fatal, sup, other>>
        BY <1>1, <1>6, FaultSteps DEF Close
    <2> QED BY <1>1, <2>1, <2>2, <2>3, <2>4, TypeParts DEF SameRetries, Attempts, TypeOK, Flag, Task, Supervisor, Faults
<1>7. CASE Closed
    <2>1. task' \in [Tasks -> Task] /\ subs' \in [Topics -> 0..MaxSubs]
        BY <1>1, <1>7, Places DEF Closed, Steps
    <2>2. /\ conn' = "none" /\ closer' = "done"
          /\ UNCHANGED <<flag, attempts, current, lock, rechecking, fatal, sup, other, faults>>
        BY <1>7 DEF Closed
    <2> QED BY <1>1, <2>1, <2>2, TypeParts DEF SameRetries, Attempts, TypeOK, Flag, Task, Supervisor, Faults
<1> QED BY <1>2, <1>3, <1>4, <1>5, <1>6, <1>7 DEF BrokerSteps, ProcessSteps

LEMMA LoopFailsType ==
    ASSUME flag \in Flag, Attempts(attempts, flag), task \in [Tasks -> Task], LoopFails
    PROVE  SameRetries /\ Attempts(attempts', flag') /\ task' \in [Tasks -> Task]
<1> DEFINE gaveUp == flag.retries # Unlimited /\ attempts + 1 > flag.retries
<1>1. /\ flag' = [flag EXCEPT !.ready = FALSE, !.orphaned = @ \/ gaveUp]
      /\ attempts' = IF gaveUp \/ flag.retries = Unlimited THEN 0 ELSE attempts + 1
      /\ Goes(Loop, IF gaveUp THEN "off" ELSE "sleeping")
    BY DEF LoopFails
<1>2. gaveUp \in BOOLEAN /\ (flag.orphaned \/ gaveUp) \in BOOLEAN
    OBVIOUS
<1>3. flag.retries \in Nat \cup {Unlimited}
    BY Bounds DEF Flag
<1>4. ~(gaveUp \/ flag.retries = Unlimited) => attempts + 1 \in Nat /\ attempts + 1 <= flag.retries
    BY <1>3 DEF Attempts
<1> HIDE DEF gaveUp
<1>5. SameRetries
    BY <1>1, <1>2, FlagSteps
<1>6. Attempts(attempts', flag')
    <2>1. CASE gaveUp \/ flag.retries = Unlimited
        BY <1>1, <1>5, <2>1, NoAttempts
    <2>2. CASE ~(gaveUp \/ flag.retries = Unlimited)
        BY <1>1, <1>4, <1>5, <2>2 DEF Attempts, SameRetries
    <2> QED BY <2>1, <2>2
<1>7. task' \in [Tasks -> Task]
    BY <1>1, Goings, TasksDiffer DEF Steps
<1> QED BY <1>5, <1>6, <1>7

LEMMA LoopProceedsType ==
    ASSUME task \in [Tasks -> Task], LoopProceeds \/ LoopHasClient
    PROVE  task' \in [Tasks -> Task]
<1>1. LoopProceeds => task' \in [Tasks -> Task]
    BY Places, SubscribingType DEF LoopProceeds, Steps
<1>2. Goes(Loop, "dropping") => task' \in [Tasks -> Task]
    BY Goings, TasksDiffer DEF Steps
<1> QED BY <1>1, <1>2 DEF LoopHasClient

LEMMA LoopTypes ==
    ASSUME TypeOK, LoopSteps
    PROVE  TypeOK'
<1>1. /\ flag \in Flag /\ task \in [Tasks -> Task] /\ Attempts(attempts, flag) /\ faults \in Faults
      /\ conn \in {"none", "up", "down", "dead"} /\ fatal \in {"none", "pending", "handled"}
    BY TypeParts
<1>2. SameRetries
    BY <1>1, LoopFailsType, FlagSteps DEF LoopSteps, LoopConnect, LoopConnectFails, LoopRefused, LoopWakes, LoopFatal, client
<1>3. Attempts(attempts', flag')
    <2>1. CASE LoopConnect \/ LoopWakes
        BY <1>1, <2>1 DEF LoopConnect, LoopWakes, client
    <2>2. CASE LoopConnectFails
        BY <1>1, <2>2, LoopFailsType DEF LoopConnectFails
    <2>3. CASE LoopFatal \/ LoopRefused
        BY <1>1, <1>2, <2>3, NoAttempts DEF LoopFatal, LoopRefused
    <2> QED BY <2>1, <2>2, <2>3 DEF LoopSteps
<1>4. task' \in [Tasks -> Task]
    <2>1. CASE LoopConnect
        BY <1>1, <2>1, LoopProceedsType DEF LoopConnect
    <2>2. CASE LoopConnectFails
        BY <1>1, <2>2, LoopFailsType DEF LoopConnectFails
    <2>3. CASE LoopWakes
        <3>1. Goes(Loop, "connecting") => task' \in [Tasks -> Task]
            BY <1>1, Goings, TasksDiffer DEF Steps
        <3> QED BY <1>1, <2>3, <3>1, LoopProceedsType DEF LoopWakes
    <2>4. CASE LoopFatal \/ LoopRefused
        BY <1>1, <2>4, Goings, TasksDiffer DEF LoopFatal, LoopRefused, Steps
    <2> QED BY <2>1, <2>2, <2>3, <2>4 DEF LoopSteps
<1>5. conn' \in {"none", "up", "down", "dead"} /\ fatal' \in {"none", "pending", "handled"}
    BY <1>1 DEF LoopSteps, LoopConnect, LoopConnectFails, LoopRefused, LoopWakes, LoopFatal, client, Reported
<1>6. faults' \in Faults
    BY <1>1, FaultSteps DEF LoopSteps, LoopConnect, LoopConnectFails, LoopRefused, LoopWakes, LoopFatal
<1>7. UNCHANGED <<subs, current, lock, rechecking, sup, other, closer>>
    BY DEF LoopSteps, LoopConnect, LoopConnectFails, LoopRefused, LoopWakes, LoopFatal, client
<1> QED BY <1>2, <1>3, <1>4, <1>5, <1>6, <1>7 DEF TypeOK, Attempts, SameRetries, Flag, Task, Faults

LEMMA ResumeFailsType ==
    ASSUME TypeOK, NEW x \in Resumes, NEW tk \in [Tasks -> Task], ResumeFails(x, tk)
    PROVE  /\ SameRetries /\ task' \in [Tasks -> Task] /\ fatal' \in {"none", "pending", "handled"}
           /\ current' \in RetryTasks \cup {NoOne}
<1>1. flag \in Flag /\ fatal \in {"none", "pending", "handled"} /\ current \in RetryTasks \cup {NoOne}
    BY TypeParts
<1>2. SameRetries /\ fatal' \in {"none", "pending", "handled"}
    BY <1>1, FlagSteps DEF ResumeFails, Reported
<1>3. At("sleeping") \in Task /\ At("off") \in Task
    BY Places DEF Steps
<1>4. task' \in [Tasks -> Task] /\ current' \in RetryTasks \cup {NoOne}
    <2>1. CASE x \in RetryTasks
        BY <1>1, <1>3, <2>1 DEF ResumeFails
    <2>2. CASE x \notin RetryTasks
        BY <1>3, <2>2 DEF ResumeFails
    <2> QED BY <2>1, <2>2
<1> QED BY <1>2, <1>4

LEMMA CompletedType ==
    ASSUME TypeOK, NEW x \in Tasks, Completed(x)
    PROVE  SameRetries /\ task' \in [Tasks -> Task] /\ Attempts(attempts', flag')
<1>1. flag \in Flag /\ task \in [Tasks -> Task] /\ Attempts(attempts, flag) /\ (flag.ready \/ ~flag.paused) \in BOOLEAN
    BY TypeParts
<1>2. SameRetries
    BY <1>1, FlagSteps DEF Completed
<1>3. task' \in [Tasks -> Task]
    <2>1. \A step \in Steps : Goes(x, step) => task' \in [Tasks -> Task]
        BY <1>1, Goings
    <2> QED BY <2>1 DEF Completed, Steps
<1>4. Attempts(attempts', flag')
    <2>1. CASE x = Loop
        BY <1>1, <1>2, <2>1, NoAttempts DEF Completed
    <2>2. CASE x # Loop
        BY <1>1, <1>2, <2>2 DEF Completed, Attempts, SameRetries
    <2> QED BY <2>1, <2>2
<1> QED BY <1>2, <1>3, <1>4

LEMMA TaskTypes ==
    ASSUME TypeOK, NEW x \in Tasks, TaskSteps(x)
    PROVE  TypeOK'
<1>1. /\ flag \in Flag /\ task \in [Tasks -> Task] /\ Attempts(attempts, flag) /\ faults \in Faults
      /\ subs \in [Topics -> 0..MaxSubs] /\ NoSubs \in [Topics -> 0..MaxSubs]
      /\ fatal \in {"none", "pending", "handled"} /\ current \in RetryTasks \cup {NoOne}
    BY TypeParts, SubscribingType
<1>2. x # Loop => x \in Resumes
    BY DEF Tasks, Resumes
<1>3. CASE SubscribeTopic(x)
    <2>1. PICK t \in task[x].todo :
            /\ subs' = [subs EXCEPT ![t] = IF @ = MaxSubs THEN @ ELSE @ + 1]
            /\ IF task[x].todo = {t}
               THEN Completed(x)
               ELSE /\ task' = [task EXCEPT ![x].todo = @ \ {t}]
                    /\ UNCHANGED <<flag, attempts>>
        BY <1>3 DEF SubscribeTopic
    <2>2. subs' \in [Topics -> 0..MaxSubs]
        <3>1. t \in Topics
            BY <1>1, TasksDiffer DEF Task
        <3>2. (IF subs[t] = MaxSubs THEN subs[t] ELSE subs[t] + 1) \in 0..MaxSubs
            BY <1>1, <3>1, Bounds
        <3>3. subs' = [subs EXCEPT ![t] = IF subs[t] = MaxSubs THEN subs[t] ELSE subs[t] + 1]
            BY <2>1
        <3> QED BY <1>1, <3>1, <3>2, <3>3
    <2>3. task[x] \in Task /\ [task[x] EXCEPT !.todo = @ \ {t}] \in Task
        BY <1>1 DEF Task
    <2>4. SameRetries /\ task' \in [Tasks -> Task] /\ Attempts(attempts', flag')
        <3>1. CASE task[x].todo = {t}
            BY <2>1, <3>1, CompletedType
        <3>2. CASE task[x].todo # {t}
            <4>1. task' = [task EXCEPT ![x] = [task[x] EXCEPT !.todo = @ \ {t}]] /\ UNCHANGED <<flag, attempts>>
                BY <2>1, <3>2
            <4> QED BY <1>1, <2>3, <4>1, FlagSteps
        <3> QED BY <3>1, <3>2
    <2>5. UNCHANGED <<conn, current, lock, rechecking, fatal, sup, other, closer, faults>>
        BY <1>3 DEF SubscribeTopic
    <2> QED BY <2>2, <2>4, <2>5 DEF TypeOK, Attempts, SameRetries, Flag, Task
<1>4. CASE SubscribeFails(x)
    <2>1. faults' \in Faults /\ UNCHANGED <<conn, subs, lock, rechecking, sup, other, closer>>
        BY <1>1, <1>4, FaultSteps DEF SubscribeFails
    <2>2. CASE x = Loop
        <3>1. LoopFails /\ UNCHANGED <<current, fatal>>
            BY <1>4, <2>2 DEF SubscribeFails
        <3>2. SameRetries /\ task' \in [Tasks -> Task] /\ Attempts(attempts', flag')
            BY <1>1, <3>1, LoopFailsType
        <3> QED BY <2>1, <3>1, <3>2 DEF TypeOK, Attempts, SameRetries, Flag, Task, Faults
    <2>3. CASE x # Loop
        <3> DEFINE away == conn \in {"none", "dead"} /\ flag.managed /\ ~flag.closing
                   tk == IF away THEN LoopStarted(task) ELSE task
        <3>1. tk \in [Tasks -> Task] /\ x \in Resumes
            BY <1>1, <1>2, <2>3, Started
        <3>2. /\ IF subs = NoSubs
                 THEN ResumeFails(x, tk)
                 ELSE task' = [tk EXCEPT ![x] = At("dropping")] /\ UNCHANGED <<flag, current, fatal>>
              /\ UNCHANGED attempts
            BY <1>4, <2>3 DEF SubscribeFails
        <3> HIDE DEF tk
        <3>3. At("dropping") \in Task
            BY Places DEF Steps
        <3>4. /\ SameRetries /\ task' \in [Tasks -> Task] /\ fatal' \in {"none", "pending", "handled"}
              /\ current' \in RetryTasks \cup {NoOne}
            BY <1>1, <3>1, <3>2, <3>3, ResumeFailsType, FlagSteps
        <3> QED BY <1>1, <2>1, <3>2, <3>4 DEF TypeOK, Attempts, SameRetries, Flag, Task, Faults
    <2> QED BY <2>2, <2>3
<1>5. CASE Dropped(x)
    <2>1. /\ subs' = NoSubs /\ UNCHANGED <<conn, attempts, lock, rechecking, sup, other, closer>>
          /\ faults' \in Faults
        BY <1>1, <1>5, WipedSteps DEF Dropped
    <2>2. /\ SameRetries /\ task' \in [Tasks -> Task] /\ fatal' \in {"none", "pending", "handled"}
          /\ current' \in RetryTasks \cup {NoOne}
        BY <1>1, <1>2, <1>5, LoopProceedsType, ResumeFailsType, FlagSteps DEF Dropped
    <2> QED BY <1>1, <2>1, <2>2 DEF TypeOK, Attempts, SameRetries, Flag, Task, Faults
<1> QED BY <1>3, <1>4, <1>5 DEF TaskSteps

LEMMA RetryTypes ==
    ASSUME TypeOK, NEW r \in RetryTasks, RetryWakes(r) \/ RetryLocks(r)
    PROVE  TypeOK'
<1>1. task \in [Tasks -> Task] /\ r \in Tasks
    BY TypeParts, TasksDiffer
<1>2. task' \in [Tasks -> Task]
    BY <1>1, SubscribingType, Goings DEF RetryWakes, RetryLocks, Steps
<1>3. UNCHANGED <<client, sup, other, closer, faults>>
    BY DEF RetryWakes, RetryLocks
<1> QED BY <1>2, <1>3 DEF TypeOK, Task, client

\* What a call writes.
CallType ==
    /\ SameRetries /\ task' \in [Tasks -> Task] /\ lock' \in Observers \cup {NoOne}
    /\ current' \in RetryTasks \cup {NoOne}

LEMMA PauseTypes ==
    ASSUME TypeOK, NEW o \in Observers,
           \/ PauseBegin(o)
           \/ PauseBody(o) /\ UNCHANGED current
           \/ PauseLocked(o) /\ UNCHANGED <<current, flag>>
    PROVE  CallType
<1>1. /\ flag \in Flag /\ task \in [Tasks -> Task] /\ lock \in Observers \cup {NoOne} /\ o \in Tasks
      /\ current \in RetryTasks \cup {NoOne}
    BY TypeParts, TasksDiffer
<1>2. \A step \in Steps : Goes(o, step) => task' \in [Tasks -> Task]
    BY <1>1, Goings
<1>3. PauseLocked(o) => task' \in [Tasks -> Task] /\ lock' \in Observers \cup {NoOne}
    BY <1>1, <1>2 DEF PauseLocked, Steps
<1>4. PauseBody(o) => SameRetries /\ task' \in [Tasks -> Task] /\ lock' \in Observers \cup {NoOne}
    BY <1>1, <1>2, <1>3, FlagSteps DEF PauseBody, Steps
<1>5. CASE PauseBegin(o)
    <2>1. CASE current # NoOne /\ ~Is(current, "off")
        <3>1. /\ task' = [task EXCEPT ![current] = At("off"), ![o] = At("cancelled")]
              /\ UNCHANGED <<flag, lock>> /\ current' = NoOne
            BY <1>5, <2>1 DEF PauseBegin
        <3>2. At("off") \in Task /\ At("cancelled") \in Task
            BY Places DEF Steps
        <3> QED BY <1>1, <3>1, <3>2, FlagSteps DEF CallType
    <2>2. CASE ~(current # NoOne /\ ~Is(current, "off"))
        BY <1>4, <1>5, <2>2 DEF PauseBegin, CallType
    <2> QED BY <2>1, <2>2
<1> QED BY <1>1, <1>3, <1>4, <1>5, FlagSteps DEF CallType

LEMMA ResumeTypes ==
    ASSUME TypeOK, NEW o \in Observers,
           \/ ResumeBegin(o)
           \/ ResumeBody(o) /\ UNCHANGED <<flag, current, lock>>
    PROVE  CallType
<1>1. /\ flag \in Flag /\ task \in [Tasks -> Task] /\ lock \in Observers \cup {NoOne} /\ o \in Tasks
      /\ current \in RetryTasks \cup {NoOne}
    BY TypeParts, TasksDiffer
<1>2. \A step \in Steps : Goes(o, step) => task' \in [Tasks -> Task]
    BY <1>1, Goings
<1>3. ResumeBody(o) => task' \in [Tasks -> Task]
    <2>1. At("off") \in Task
        BY Places DEF Steps
    <2>2. [task EXCEPT ![o] = At("off")] \in [Tasks -> Task]
        BY <1>1, <2>1
    <2>3. LoopStarted([task EXCEPT ![o] = At("off")]) \in [Tasks -> Task]
        BY <2>2, Started
    <2> QED BY <1>1, <2>3, SubscribingType DEF ResumeBody
<1>4. ResumeBegin(o) => SameRetries /\ task' \in [Tasks -> Task] /\ UNCHANGED <<current, lock>>
    BY <1>1, <1>2, <1>3, FlagSteps DEF ResumeBegin, Steps
<1> QED BY <1>1, <1>3, <1>4, FlagSteps DEF CallType

LEMMA SetTypes ==
    ASSUME TypeOK, NEW o \in Observers, NEW h \in BOOLEAN, NEW f \in {"no", "startup", "fatal"}, Set(o, h, f)
    PROVE  CallType /\ sup' \in Supervisor /\ UNCHANGED <<conn, subs, attempts, rechecking>>
<1>1. /\ flag \in Flag /\ task \in [Tasks -> Task] /\ lock \in Observers \cup {NoOne} /\ o \in Tasks
      /\ current \in RetryTasks \cup {NoOne} /\ sup \in Supervisor
    BY TypeParts, TasksDiffer
<1>2. sup' \in Supervisor
    BY <1>1 DEF Set, Supervisor
<1>3. CASE h = sup.up
    <2>1. Goes(o, "off") /\ UNCHANGED <<flag, current, lock>>
        BY <1>3 DEF Set
    <2>2. task' \in [Tasks -> Task]
        BY <1>1, <2>1, Goings DEF Steps
    <2>3. CallType
        BY <1>1, <2>1, <2>2, FlagSteps DEF CallType
    <2> QED BY <1>2, <2>3 DEF Set
<1>4. CASE h # sup.up
    <2>1. CallType
        <3>1. IF h THEN ResumeBegin(o) ELSE PauseBegin(o)
            BY <1>4 DEF Set
        <3> QED BY <3>1, PauseTypes, ResumeTypes
    <2> QED BY <1>2, <2>1 DEF Set
<1> QED BY <1>3, <1>4

LEMMA ObserverTypes ==
    ASSUME TypeOK, NEW o \in Observers,
           \/ Poll(o) \/ MarkDownAtStartup(o) \/ MarkDownFatal(o) \/ Act(o)
           \/ PauseAfterCancel(o) \/ PauseLocks(o) \/ ResumeLocks(o) \/ Drained(o) \/ PauseEnds(o)
    PROVE  TypeOK'
<1>1. /\ flag \in Flag /\ task \in [Tasks -> Task] /\ lock \in Observers \cup {NoOne} /\ o \in Tasks
      /\ current \in RetryTasks \cup {NoOne} /\ sup \in Supervisor /\ faults \in Faults
      /\ conn \in {"none", "up", "down", "dead"} /\ Attempts(attempts, flag)
      /\ fatal \in {"none", "pending", "handled"} /\ NoSubs \in [Topics -> 0..MaxSubs]
    BY TypeParts, TasksDiffer, SubscribingType
<1>2. \A step \in Steps : Goes(o, step) => task' \in [Tasks -> Task]
    BY <1>1, Goings
<1>3. CASE Poll(o)
    <2> DEFINE gone == conn \in {"none", "dead"}
               mine == flag.managed /\ ~flag.closing
               tk   == IF gone /\ mine THEN LoopStarted(task) ELSE task
    <2>1. tk \in [Tasks -> Task]
        BY <1>1, Started
    <2>2. /\ IF gone /\ ~mine THEN conn' \in {conn, "up"} ELSE UNCHANGED conn
          /\ UNCHANGED <<flag, subs, attempts, current, lock, rechecking, fatal, sup, other, closer, faults>>
          /\ task' = [tk EXCEPT ![o] = At(IF AgentHealthy' THEN "healthy" ELSE "unhealthy")]
        BY <1>3 DEF Poll
    <2> HIDE DEF tk
    <2>3. At(IF AgentHealthy' THEN "healthy" ELSE "unhealthy") \in Task
        BY Places DEF Steps
    <2>4. task' \in [Tasks -> Task] /\ conn' \in {"none", "up", "down", "dead"}
        BY <1>1, <2>1, <2>2, <2>3
    <2> QED BY <2>2, <2>4 DEF TypeOK, Task
<1>4. CASE Act(o) \/ MarkDownAtStartup(o) \/ MarkDownFatal(o)
    <2>1. CallType /\ sup' \in Supervisor /\ UNCHANGED <<conn, subs, attempts, rechecking>>
        <3>1. CASE Act(o)
            <4>1. (Is(o, "healthy") /\ sup.forced = "no") \in BOOLEAN /\ sup.forced \in {"no", "startup", "fatal"}
                BY <1>1 DEF Supervisor
            <4> QED BY <3>1, <4>1, SetTypes DEF Act
        <3>2. CASE MarkDownAtStartup(o) \/ MarkDownFatal(o)
            BY <3>2, SetTypes DEF MarkDownAtStartup, MarkDownFatal
        <3> QED BY <1>4, <3>1, <3>2
    <2>2. /\ faults' \in Faults /\ fatal' \in {"none", "pending", "handled"}
          /\ UNCHANGED <<other, closer>>
        BY <1>1, <1>4, FaultSteps DEF Act, MarkDownAtStartup, MarkDownFatal
    <2> QED BY <1>1, <2>1, <2>2 DEF CallType, TypeOK, Attempts, SameRetries, Flag, Task, Supervisor, Faults
<1>5. CASE PauseAfterCancel(o) \/ PauseLocks(o) \/ ResumeLocks(o)
    <2>1. CallType
        BY <1>5, PauseTypes, ResumeTypes DEF PauseAfterCancel, PauseLocks, ResumeLocks, client
    <2>2. UNCHANGED <<conn, subs, attempts, rechecking, fatal, sup, other, closer, faults>>
        BY <1>5 DEF PauseAfterCancel, PauseLocks, ResumeLocks, client
    <2> QED BY <1>1, <2>1, <2>2 DEF CallType, TypeOK, Attempts, SameRetries, Flag, Task
<1>6. CASE Drained(o) \/ PauseEnds(o)
    <2>1. task' \in [Tasks -> Task] /\ subs' \in [Topics -> 0..MaxSubs] /\ lock' \in Observers \cup {NoOne}
        BY <1>1, <1>2, <1>6 DEF Drained, PauseEnds, Steps, TypeOK
    <2>2. UNCHANGED <<conn, flag, attempts, current, rechecking, fatal, sup, other, closer, faults>>
        BY <1>6 DEF Drained, PauseEnds
    <2> QED BY <2>1, <2>2 DEF TypeOK, Task
<1> QED BY <1>3, <1>4, <1>5, <1>6

LEMMA TypeNext == TypeOK /\ [Next]_vars => TypeOK'
<1> SUFFICES ASSUME TypeOK, [Next]_vars PROVE TypeOK'
    OBVIOUS
<1>1. CASE UNCHANGED vars
    BY <1>1 DEF TypeOK, vars, client
<1>2. CASE Next
    <2>1. CASE BrokerSteps \/ ProcessSteps
        BY <2>1, OutsideTypes
    <2>2. CASE LoopSteps \/ TaskSteps(Loop)
        BY <2>2, LoopTypes, TaskTypes, TasksDiffer
    <2>3. CASE \E r \in RetryTasks : RetrySteps(r)
        BY <2>3, RetryTypes, TaskTypes, TasksDiffer DEF RetrySteps
    <2>4. CASE \E o \in Observers : ObserverSteps(o)
        BY <2>4, ObserverTypes, TaskTypes, TasksDiffer DEF ObserverSteps, CallSteps
    <2> QED BY <1>2, <2>1, <2>2, <2>3, <2>4 DEF Next
<1> QED BY <1>1, <1>2

LEMMA TypeInit == Init => TypeOK
<1> SUFFICES ASSUME Init PROVE TypeOK
    OBVIOUS
<1>1. flag \in Flag /\ attempts = 0 /\ Attempts(attempts, flag)
    <2>1. flag \in Flag
        BY DEF Init, Flag
    <2>2. flag.retries \in Nat \cup {Unlimited}
        BY <2>1, Bounds DEF Flag
    <2> QED BY <2>1, <2>2 DEF Init, Attempts
<1>2. task \in [Tasks -> Task] /\ subs \in [Topics -> 0..MaxSubs]
    BY Places, SubscribingType DEF Init, Steps
<1>3. faults \in Faults /\ sup \in Supervisor
    <2>1. sup \in Supervisor
        BY DEF Init, Supervisor
    <2>2. 0 \in 0..MaxFaults
        BY Bounds
    <2> QED BY <2>1, <2>2 DEF Init, Faults
<1> QED BY <1>1, <1>2, <1>3, TypeParts DEF Init

\* The state keeps its type: the attempts stay within event_client_max_retries.
THEOREM TypeCorrect == Spec => []TypeOK
BY TypeInit, TypeNext, PTL DEF Spec

-----------------------------------------------------------------------------
(* One call at a time: who is at work, and what it leaves.                 *)

\* While one observer is at work, the others are not.
LEMMA Alone ==
    ASSUME OneCall, Calls, NEW o \in Observers, ~Is(o, "off") \/ o \in faults.observers
    PROVE  o \in faults.observers /\ \A p \in Observers : p # o => Is(p, "off")
BY DEF OneCall, Calls

\* A pause has the change lock while it drains, and no other task does.
LEMMA LockFree ==
    ASSUME TypeOK, OneCall, Calls, NEW o \in Observers, o \in faults.observers, lock # NoOne
    PROVE  lock = o /\ task[o].at \in {"draining", "settling"}
BY Alone DEF Calls, TypeOK, Is

\* While a resume is retried, nobody else resumes, and no pause is under way.
LEMMA RetryAlone ==
    ASSUME TypeOK, OneCall, Calls, NEW r \in RetryTasks, ~Is(r, "off")
    PROVE  /\ r = current /\ sup.up /\ flag.paused /\ flag.managed /\ lock = NoOne
           /\ task[r].at \in Resuming \cup {"sleeping"}
           /\ \A s \in RetryTasks : s # r => Is(s, "off")
           /\ \A o \in Observers : task[o].at \in Idle
<1>1. \A o \in Observers : task[o].at \in Idle
    BY DEF Calls, Retried
<1>2. lock = NoOne
    BY <1>1 DEF Calls, TypeOK, Is, Idle
<1> QED BY <1>1, <1>2 DEF Calls

\* While an observer resumes, nobody else does, and no pause is under way.
LEMMA ResumeAlone ==
    ASSUME TypeOK, OneCall, Calls, NEW o \in Observers, task[o].at \in Resuming
    PROVE  /\ sup.up /\ ~flag.paused /\ flag.managed /\ lock = NoOne /\ o \in faults.observers
           /\ \A r \in RetryTasks : Is(r, "off")
           /\ \A p \in Observers : p # o => Is(p, "off")
<1>1. ~Is(o, "off")
    BY DEF Is, Resuming
<1>2. o \in faults.observers /\ \A p \in Observers : p # o => Is(p, "off")
    BY <1>1, Alone
<1>3. lock = NoOne
    BY <1>2, LockFree DEF Resuming
<1> QED BY <1>2, <1>3 DEF Calls, Retried

\* The steps that move no task from one kind of work to another.
Alike(x) ==
    \/ task'[x].at = task[x].at
    \/ task[x].at \in Resuming /\ task'[x].at \in Resuming
    \/ x \in RetryTasks /\ Is(x, "sleeping") /\ task'[x].at \in Resuming
    \/ x \in Observers /\ x \in faults.observers /\ task[x].at \in Idle /\ task'[x].at \in Idle
    \/ x \in Observers /\ Is(x, "draining") /\ task'[x].at = "settling"

SameCalls ==
    /\ UNCHANGED <<lock, current>> /\ sup'.up = sup.up /\ flag'.paused = flag.paused
    /\ flag.managed => flag'.managed
    /\ faults'.observers = faults.observers
    /\ \A x \in Resumes : Alike(x)

LEMMA CallsKept ==
    ASSUME TypeOK, Calls, SameCalls
    PROVE  Calls'
<1> USE TasksDiffer DEF SameCalls, Alike, Resumes, Is
<1>1. \A r \in RetryTasks : Is(r, "off") <=> task'[r].at = "off"
    BY DEF Calls, Resuming
<1>2. Retried' <=> Retried
    BY <1>1 DEF Retried
<1>3. \A o \in Observers : /\ task'[o].at = "off" \/ o \in faults'.observers
                           /\ task'[o].at \in Idle \cup Pausing \cup Resuming
    BY DEF Calls, Idle, Pausing, Resuming
<1>4. lock' # NoOne => Is(lock, "draining")' \/ Is(lock, "settling")'
    BY DEF Calls, TypeOK, Idle, Resuming
<1>5. \A o \in Observers : task'[o].at \in Pausing =>
        ~sup'.up /\ ~Retried' /\ (task'[o].at = "cancelled" \/ flag'.paused)
    BY <1>2 DEF Calls, Idle, Pausing, Resuming
<1>6. \A o \in Observers : task'[o].at \in Resuming => sup'.up /\ ~flag'.paused /\ flag'.managed /\ ~Retried'
    BY <1>2 DEF Calls, Idle, Pausing, Resuming
<1>7. \A r \in RetryTasks : task'[r].at # "off" =>
        /\ r = current' /\ sup'.up /\ flag'.paused /\ flag'.managed
        /\ task'[r].at \in Resuming \cup {"sleeping"}
    BY <1>1 DEF Calls
<1>8. flag'.paused /\ sup'.up => Retried'
    BY <1>2 DEF Calls
<1> QED BY <1>3, <1>4, <1>5, <1>6, <1>7, <1>8 DEF Calls

\* What is kept of the flags and the observers by every call.
CallKeeps(o) ==
    /\ flag'.managed = flag.managed /\ flag'.closing = flag.closing
    /\ flag'.orphaned = flag.orphaned /\ flag'.retries = flag.retries
    /\ \A p \in Observers : p # o => task'[p].at = "off"

\* _set without a transition, with a resume, and with a pause.
Passed(o) == sup'.up = sup.up /\ Goes(o, "off") /\ UNCHANGED <<flag, current, lock>>
Restarts(o) ==
    /\ sup'.up /\ ~sup.up /\ ~flag'.paused /\ UNCHANGED <<current, lock>>
    /\ \A r \in RetryTasks : task'[r].at = "off"
    /\ \/ (~flag.paused \/ ~flag.managed) /\ Goes(o, "off")
       \/ /\ flag.managed /\ conn = "none"
          /\ task'[o] = At("off") /\ task'[Loop].at # "off" /\ task'[Loop].at \in {task[Loop].at, "connecting"}
       \/ flag.managed /\ conn # "none" /\ task' = [task EXCEPT ![o] = Subscribing]
Pauses(o) ==
    /\ ~sup'.up /\ flag'.paused /\ task'[Loop] = task[Loop]
    /\ \A r \in RetryTasks : task'[r].at = "off"
    /\ \/ task'[o].at \in {"off", "cancelled"} /\ lock' = NoOne
       \/ task'[o].at = "draining" /\ lock' = o

LEMMA PauseBodyOutcome ==
    ASSUME TypeOK, NEW o \in Observers, lock = NoOne, PauseBody(o)
    PROVE  /\ flag'.paused /\ \A x \in Tasks : x # o => task'[x] = task[x]
           /\ flag'.managed = flag.managed /\ flag'.closing = flag.closing
           /\ flag'.orphaned = flag.orphaned /\ flag'.retries = flag.retries
           /\ \/ task'[o].at = "off" /\ lock' = NoOne
              \/ task'[o].at = "draining" /\ lock' = o
<1>1. flag \in Flag /\ task \in [Tasks -> Task] /\ o \in Tasks
    BY TypeParts, TasksDiffer
<1>2. \/ Goes(o, "off") /\ lock' = NoOne
      \/ Goes(o, "draining") /\ lock' = o
    BY DEF PauseBody, PauseLocked
<1>3. /\ flag'.paused /\ flag'.managed = flag.managed /\ flag'.closing = flag.closing
      /\ flag'.orphaned = flag.orphaned /\ flag'.retries = flag.retries
    BY <1>1 DEF PauseBody, Flag
<1>4. \A step \in Steps : Goes(o, step) => task'[o].at = step /\ \A x \in Tasks : x # o => task'[x] = task[x]
    BY <1>1, Goings
<1> QED BY <1>2, <1>3, <1>4 DEF Steps

\* The verdict of a poll, or of a failure, reaches the supervisor.
LEMMA SetOutcome ==
    ASSUME TypeOK, OneCall, Calls, NEW o \in Observers, o \in faults.observers, task[o].at \in Idle,
           NEW h \in BOOLEAN, NEW f \in {"no", "startup", "fatal"}, Set(o, h, f)
    PROVE  CallKeeps(o) /\ (Passed(o) \/ Restarts(o) \/ Pauses(o))
<1>1. /\ flag \in Flag /\ task \in [Tasks -> Task] /\ o \in Tasks /\ Loop \in Tasks
      /\ o # Loop /\ o \notin RetryTasks /\ RetryTasks \subseteq Tasks /\ Observers \subseteq Tasks
      /\ Loop \notin Observers /\ Loop \notin RetryTasks /\ \A p \in Observers : p \notin RetryTasks
    BY TypeParts, TasksDiffer
<1>2. lock = NoOne /\ \A p \in Observers : p # o => Is(p, "off")
    BY LockFree, Alone DEF Idle
<1>3. sup'.up = h
    BY TypeParts DEF Set, Supervisor
<1>4. \A step \in Steps : Goes(o, step) => task'[o] = At(step) /\ \A x \in Tasks : x # o => task'[x] = task[x]
    BY <1>1, Goings
<1>5. CASE h = sup.up
    <2>1. Passed(o)
        BY <1>3, <1>5 DEF Set, Passed
    <2>2. CallKeeps(o)
        BY <1>1, <1>2, <1>4, <2>1 DEF Passed, CallKeeps, Steps, Is
    <2> QED BY <2>1, <2>2
<1>6. CASE h # sup.up /\ h
    <2>1. ResumeBegin(o) /\ sup'.up /\ ~sup.up
        BY <1>3, <1>6, TypeParts DEF Set, Supervisor
    <2>2. \A r \in RetryTasks : Is(r, "off")
        BY <2>1 DEF Calls
    <2>3. /\ ~flag'.paused /\ UNCHANGED <<current, lock>>
          /\ flag'.managed = flag.managed /\ flag'.closing = flag.closing
          /\ flag'.orphaned = flag.orphaned /\ flag'.retries = flag.retries
        BY <1>1, <2>1 DEF ResumeBegin, Flag
    <2>4. CASE ~flag.paused \/ ~flag.managed
        <3>1. Goes(o, "off")
            BY <2>1, <2>4 DEF ResumeBegin
        <3>2. \A x \in Tasks : x # o => task'[x] = task[x]
            BY <1>4, <3>1 DEF Steps
        <3> QED BY <1>1, <1>2, <2>1, <2>2, <2>3, <2>4, <3>1, <3>2 DEF CallKeeps, Restarts, Is
    <2>5. CASE flag.paused /\ flag.managed
        <3>1. ResumeBody(o)
            BY <1>2, <2>1, <2>5 DEF ResumeBegin
        <3>2. CASE conn = "none"
            <4> DEFINE tk == [task EXCEPT ![o] = At("off")]
            <4>1. tk \in [Tasks -> Task] /\ tk[o] = At("off") /\ \A x \in Tasks : x # o => tk[x] = task[x]
                BY <1>1, Places DEF Steps
            <4>2. task' = LoopStarted(tk)
                BY <3>1, <3>2 DEF ResumeBody
            <4> HIDE DEF tk
            <4>3. /\ task'[Loop].at # "off" /\ \A x \in Tasks : x # Loop => task'[x] = tk[x]
                  /\ task'[Loop] = IF tk[Loop].at = "off" THEN At("connecting") ELSE tk[Loop]
                BY <4>1, <4>2, Started
            <4>4. task'[Loop].at \in {task[Loop].at, "connecting"}
                BY <1>1, <4>1, <4>3 DEF At
            <4>5. task'[o] = At("off") /\ \A x \in Tasks : x # o /\ x # Loop => task'[x] = task[x]
                BY <1>1, <4>1, <4>3
            <4> QED BY <1>1, <1>2, <2>1, <2>2, <2>3, <2>5, <3>2, <4>3, <4>4, <4>5 DEF CallKeeps, Restarts, Is
        <3>3. CASE conn # "none"
            <4>1. task' = [task EXCEPT ![o] = Subscribing]
                BY <3>1, <3>3 DEF ResumeBody
            <4>2. \A x \in Tasks : x # o => task'[x] = task[x]
                BY <1>1, <4>1
            <4> QED BY <1>1, <1>2, <2>1, <2>2, <2>3, <2>5, <3>3, <4>1, <4>2 DEF CallKeeps, Restarts, Is
        <3> QED BY <3>2, <3>3
    <2> QED BY <1>1, <2>4, <2>5 DEF Flag
<1>7. CASE h # sup.up /\ ~h
    <2>1. PauseBegin(o) /\ ~sup'.up
        BY <1>3, <1>7 DEF Set
    <2>2. CASE current # NoOne /\ ~Is(current, "off")
        <3>1. /\ task' = [task EXCEPT ![current] = At("off"), ![o] = At("cancelled")]
              /\ UNCHANGED <<flag, lock>> /\ current \in RetryTasks
            BY <2>1, <2>2, TypeParts DEF PauseBegin
        <3>2. flag.paused /\ \A r \in RetryTasks : r # current => Is(r, "off")
            BY <2>2, <3>1, RetryAlone
        <3>3. task'[current] = At("off") /\ task'[o] = At("cancelled")
            BY <1>1, <3>1
        <3>4. \A x \in Tasks : x # current /\ x # o => task'[x] = task[x]
            BY <1>1, <3>1
        <3> QED BY <1>1, <1>2, <2>1, <3>1, <3>2, <3>3, <3>4 DEF CallKeeps, Pauses, Is, At
    <2>3. CASE ~(current # NoOne /\ ~Is(current, "off"))
        <3>1. \A r \in RetryTasks : Is(r, "off")
            BY <2>3, RetryAlone, TasksDiffer
        <3>2. PauseBody(o)
            BY <2>1, <2>3 DEF PauseBegin
        <3> QED BY <1>1, <1>2, <2>1, <3>1, <3>2, PauseBodyOutcome DEF CallKeeps, Pauses, Is
    <2> QED BY <2>2, <2>3
<1> QED BY <1>5, <1>6, <1>7

LEMMA CallsAfterSet ==
    ASSUME TypeOK, OneCall, Calls, NEW o \in Observers, o \in faults.observers, task[o].at \in Idle,
           NEW h \in BOOLEAN, NEW f \in {"no", "startup", "fatal"}, Set(o, h, f),
           faults'.observers = faults.observers
    PROVE  Calls'
<1>1. CallKeeps(o) /\ (Passed(o) \/ Restarts(o) \/ Pauses(o))
    BY SetOutcome
<1>2. lock = NoOne
    BY LockFree DEF Idle
<1>3. task \in [Tasks -> Task] /\ o \in Tasks /\ Observers \subseteq Tasks /\ RetryTasks \subseteq Tasks
    BY TypeParts, TasksDiffer
<1>4. CASE Passed(o)
    <2>1. task'[o].at = "off" /\ \A x \in Tasks : x # o => task'[x] = task[x]
        BY <1>3, <1>4, Goings DEF Passed, Steps
    <2>2. SameCalls
        BY <1>3, <1>4, <2>1, TasksDiffer DEF Passed, SameCalls, Resumes, Alike, Idle
    <2> QED BY <2>2, CallsKept
<1>5. CASE Restarts(o)
    <2>1. task'[o].at = "off" \/ (task'[o].at = "subscribing" /\ flag.managed)
        <3>1. Goes(o, "off") => task'[o].at = "off"
            BY <1>3, Goings DEF Steps
        <3>2. task' = [task EXCEPT ![o] = Subscribing] => task'[o].at = "subscribing"
            BY <1>3 DEF Subscribing
        <3> QED BY <1>5, <3>1, <3>2 DEF Restarts, At
    <2>2. ~Retried'
        BY <1>5 DEF Restarts, Retried, Is
    <2> QED BY <1>1, <1>2, <1>5, <2>1, <2>2 DEF Restarts, CallKeeps, Calls, Idle, Pausing, Resuming, Is, Retried
<1>6. CASE Pauses(o)
    <2>1. ~Retried'
        BY <1>6 DEF Pauses, Retried, Is
    <2> QED BY <1>1, <1>6, <2>1, TasksDiffer DEF Pauses, CallKeeps, Calls, Idle, Pausing, Resuming, Is, Retried
<1> QED BY <1>1, <1>4, <1>5, <1>6

\* The failure of a resume: it is retried, or has just dropped nothing yet.
Fails(x) ==
    /\ flag'.paused /\ flag'.managed = flag.managed /\ flag'.closing = flag.closing /\ flag'.retries = flag.retries
    /\ \/ /\ x \in RetryTasks /\ task'[x] = At("sleeping") /\ UNCHANGED current
          /\ \A r \in RetryTasks : r # x => task'[r] = task[r]
       \/ /\ x \in Observers /\ task'[x] = At("off")
          /\ \E r \in RetryTasks : /\ current' = r /\ task'[r] = At("sleeping")
                                   /\ \A s \in RetryTasks : s # r => task'[s] = task[s]
    /\ \A o \in Observers : o # x => task'[o] = task[o]
Drops(x) ==
    /\ task'[x] = At("dropping") /\ UNCHANGED <<flag, current>>
    /\ \A y \in Resumes : y # x => task'[y] = task[y]
LoopAwoken == task'[Loop] = task[Loop] \/ (Is(Loop, "off") /\ task'[Loop] = At("connecting"))

LEMMA ResumeFailsOutcome ==
    ASSUME TypeOK, NEW x \in Resumes, NEW tk \in [Tasks -> Task], ResumeFails(x, tk),
           \A y \in Tasks : y # Loop => tk[y] = task[y]
    PROVE  Fails(x) /\ task'[Loop] = tk[Loop]
<1>1. /\ flag \in Flag /\ x \in Tasks /\ x # Loop /\ Loop \in Tasks
      /\ \A y \in Resumes : y \in Tasks /\ y # Loop
    BY TypeParts, TasksDiffer DEF Resumes
<1>2. flag'.paused /\ flag'.managed = flag.managed /\ flag'.closing = flag.closing /\ flag'.retries = flag.retries
    BY <1>1 DEF ResumeFails, Flag
<1>3. CASE x \in RetryTasks
    <2>1. task' = [tk EXCEPT ![x] = At("sleeping")] /\ UNCHANGED current
        BY <1>3 DEF ResumeFails
    <2>2. task'[x] = At("sleeping") /\ \A y \in Tasks : y # x => task'[y] = tk[y]
        BY <1>1, <2>1
    <2> QED BY <1>1, <1>2, <1>3, <2>1, <2>2, TasksDiffer DEF Fails, Resumes
<1>4. CASE x \in Observers
    <2>1. PICK r \in RetryTasks :
            /\ tk[r].at = "off"
            /\ task' = [tk EXCEPT ![x] = At("off"), ![r] = At("sleeping")]
            /\ current' = r
        BY <1>4, TasksDiffer DEF ResumeFails
    <2>2. /\ task'[x] = At("off") /\ task'[r] = At("sleeping")
          /\ \A y \in Tasks : y # x /\ y # r => task'[y] = tk[y]
        BY <1>1, <1>4, <2>1, TasksDiffer
    <2> QED BY <1>1, <1>2, <1>4, <2>1, <2>2, TasksDiffer DEF Fails, Resumes
<1> QED BY <1>3, <1>4 DEF Resumes

LEMMA SubscribeFailsOutcome ==
    ASSUME TypeOK, NEW x \in Resumes, SubscribeFails(x)
    PROVE  /\ task[x].at \in Resuming /\ (Fails(x) \/ Drops(x)) /\ LoopAwoken
           /\ UNCHANGED <<conn, subs, lock, sup, closer>> /\ faults'.observers = faults.observers
<1> DEFINE away == conn \in {"none", "dead"} /\ flag.managed /\ ~flag.closing
           tk   == IF away THEN LoopStarted(task) ELSE task
<1>1. /\ task \in [Tasks -> Task] /\ faults \in Faults /\ x \in Tasks /\ x # Loop /\ Loop \in Tasks
      /\ \A y \in Resumes : y \in Tasks /\ y # Loop
    BY TypeParts, TasksDiffer DEF Resumes
<1>2. /\ tk \in [Tasks -> Task] /\ \A y \in Tasks : y # Loop => tk[y] = task[y]
      /\ tk[Loop] = task[Loop] \/ (Is(Loop, "off") /\ tk[Loop] = At("connecting"))
    BY <1>1, Started DEF Is
<1>3. IF subs = NoSubs
      THEN ResumeFails(x, tk)
      ELSE task' = [tk EXCEPT ![x] = At("dropping")] /\ UNCHANGED <<flag, current, fatal>>
    BY <1>1 DEF SubscribeFails
<1>4. task[x].at \in Resuming
    BY DEF SubscribeFails, Resuming, Is
<1>5. UNCHANGED <<conn, subs, lock, sup, closer>> /\ faults'.observers = faults.observers
    BY <1>1, FaultSteps DEF SubscribeFails
<1> HIDE DEF tk
<1>6. CASE subs = NoSubs
    <2>1. Fails(x) /\ task'[Loop] = tk[Loop]
        BY <1>2, <1>3, <1>6, ResumeFailsOutcome
    <2> QED BY <1>2, <1>4, <1>5, <2>1 DEF LoopAwoken
<1>7. CASE subs # NoSubs
    <2>1. task'[x] = At("dropping") /\ \A y \in Tasks : y # x => task'[y] = tk[y]
        BY <1>1, <1>2, <1>3, <1>7
    <2> QED BY <1>1, <1>2, <1>3, <1>4, <1>5, <1>7, <2>1 DEF LoopAwoken, Drops
<1> QED BY <1>6, <1>7

LEMMA CallsAfterFailure ==
    ASSUME TypeOK, OneCall, Calls, NEW x \in Resumes, task[x].at \in Resuming, Fails(x),
           lock' = lock, sup'.up = sup.up, faults'.observers = faults.observers
    PROVE  Calls'
<1>1. CASE x \in RetryTasks
    <2>1. /\ x = current /\ sup.up /\ flag.managed /\ lock = NoOne
          /\ \A s \in RetryTasks : s # x => Is(s, "off")
          /\ \A o \in Observers : task[o].at \in Idle
        BY <1>1, RetryAlone DEF Resuming, Is
    <2>2. task'[x].at = "sleeping" /\ \A r \in RetryTasks : r # x => task'[r] = task[r]
        BY <1>1, TasksDiffer DEF Fails, At
    <2>3. \A o \in Observers : task'[o] = task[o]
        BY <1>1, TasksDiffer DEF Fails
    <2>4. Retried' /\ current' = current
        BY <1>1, <2>2, TasksDiffer DEF Retried, Is, Fails
    <2> QED BY <2>1, <2>2, <2>3, <2>4 DEF Calls, Fails, Idle, Pausing, Resuming, Is
<1>2. CASE x \in Observers
    <2>1. /\ sup.up /\ flag.managed /\ lock = NoOne /\ x \in faults.observers
          /\ \A r \in RetryTasks : Is(r, "off")
          /\ \A p \in Observers : p # x => Is(p, "off")
        BY <1>2, ResumeAlone
    <2>2. PICK r \in RetryTasks : /\ current' = r /\ task'[r].at = "sleeping"
                                  /\ \A s \in RetryTasks : s # r => task'[s] = task[s]
        BY <1>2, TasksDiffer DEF Fails, At
    <2>3. task'[x].at = "off" /\ \A p \in Observers : p # x => task'[p] = task[p]
        BY <1>2, TasksDiffer DEF Fails, At
    <2>4. Retried'
        BY <2>2 DEF Retried, Is
    <2> QED BY <2>1, <2>2, <2>3, <2>4 DEF Calls, Fails, Idle, Pausing, Resuming, Is
<1> QED BY <1>1, <1>2 DEF Resumes

\* One more topic is subscribed: by a resume that goes on, or that is through.
GoesOn(x, t) ==
    /\ task'[x] = [task[x] EXCEPT !.todo = @ \ {t}] /\ UNCHANGED flag
Ends(x, t) ==
    /\ task[x].todo = {t} /\ task'[x].at = "off"
    /\ ~flag'.paused /\ flag'.managed = flag.managed /\ flag'.closing = flag.closing /\ flag'.retries = flag.retries
More(t) == subs' = [subs EXCEPT ![t] = IF @ = MaxSubs THEN @ ELSE @ + 1]

LEMMA SubscribeOutcome ==
    ASSUME TypeOK, NEW x \in Resumes, SubscribeTopic(x), x \in RetryTasks => lock = NoOne
    PROVE  /\ Is(x, "subscribing") /\ conn \in {"up", "down"}
           /\ \A y \in Tasks : y # x => task'[y] = task[y]
           /\ UNCHANGED <<conn, current, lock, sup, closer, fatal, faults>>
           /\ \E t \in task[x].todo : More(t) /\ (GoesOn(x, t) \/ Ends(x, t))
<1>1. /\ task \in [Tasks -> Task] /\ flag \in Flag /\ x \in Tasks /\ x # Loop
    BY TypeParts, TasksDiffer DEF Resumes
<1>2. Is(x, "subscribing") /\ conn \in {"up", "down"} /\ UNCHANGED <<conn, current, lock, sup, closer, fatal, faults>>
    BY DEF SubscribeTopic, Reachable
<1>3. PICK t \in task[x].todo :
        /\ More(t)
        /\ IF task[x].todo = {t}
           THEN Completed(x)
           ELSE task' = [task EXCEPT ![x].todo = @ \ {t}] /\ UNCHANGED <<flag, attempts>>
    BY DEF SubscribeTopic, More
<1>4. CASE task[x].todo = {t}
    <2>1. Goes(x, "off")
        BY <1>1, <1>3, <1>4 DEF Completed
    <2>2. task'[x].at = "off" /\ \A y \in Tasks : y # x => task'[y] = task[y]
        BY <1>1, <2>1, Goings DEF Steps
    <2>3. ~flag'.paused /\ flag'.managed = flag.managed /\ flag'.closing = flag.closing /\ flag'.retries = flag.retries
        BY <1>1, <1>3, <1>4 DEF Completed, Flag
    <2> QED BY <1>2, <1>3, <1>4, <2>2, <2>3 DEF Ends
<1>5. CASE task[x].todo # {t}
    <2>1. task' = [task EXCEPT ![x] = [task[x] EXCEPT !.todo = @ \ {t}]] /\ UNCHANGED flag
        BY <1>3, <1>5
    <2>2. task'[x] = [task[x] EXCEPT !.todo = @ \ {t}] /\ \A y \in Tasks : y # x => task'[y] = task[y]
        BY <1>1, <2>1
    <2> QED BY <1>2, <1>3, <2>1, <2>2 DEF GoesOn
<1> QED BY <1>4, <1>5

LEMMA CallsAfterSubscribe ==
    ASSUME TypeOK, OneCall, Calls, NEW x \in Resumes, SubscribeTopic(x)
    PROVE  Calls'
<1>1. Is(x, "subscribing")
    BY DEF SubscribeTopic
<1>2. lock = NoOne /\ \A y \in Resumes : y # x => task[y].at \in Idle
    <2>1. CASE x \in RetryTasks
        BY <1>1, <2>1, RetryAlone DEF Is, Resumes, Idle
    <2>2. CASE x \in Observers
        BY <1>1, <2>2, ResumeAlone DEF Is, Resumes, Idle, Resuming
    <2> QED BY <2>1, <2>2 DEF Resumes
<1>3. PICK t \in task[x].todo : GoesOn(x, t) \/ Ends(x, t)
    BY <1>2, SubscribeOutcome
<1>4. UNCHANGED <<current, lock, sup, faults>> /\ \A y \in Resumes : y # x => task'[y] = task[y]
    BY <1>2, SubscribeOutcome, TasksDiffer DEF Resumes
<1>5. CASE GoesOn(x, t)
    <2>1. task'[x].at = task[x].at
        BY <1>5, TypeParts, TasksDiffer DEF GoesOn, Task, Resumes
    <2> QED BY <1>4, <1>5, <2>1, CallsKept DEF GoesOn, SameCalls, Alike
<1>6. CASE Ends(x, t)
    <2>1. \A r \in RetryTasks : task'[r].at = "off"
        <3>1. CASE x \in RetryTasks
            BY <1>1, <1>4, <1>6, <3>1, RetryAlone DEF Ends, Resumes, Is
        <3>2. CASE x \in Observers
            BY <1>1, <1>4, <1>6, <3>2, ResumeAlone, TasksDiffer DEF Ends, Resumes, Is, Resuming
        <3> QED BY <3>1, <3>2 DEF Resumes
    <2>2. \A o \in Observers : task'[o].at \in Idle /\ (task'[o].at = "off" \/ o \in faults.observers)
        BY <1>2, <1>4, <1>6 DEF Ends, Resumes, Calls, Is, Idle
    <2> QED BY <1>2, <1>4, <1>6, <2>1, <2>2 DEF Ends, Calls, Idle, Pausing, Resuming, Is, Retried
<1> QED BY <1>3, <1>5, <1>6

\* A step of a pause that has cancelled a retry, or that drains.
LEMMA CallsAfterPause ==
    ASSUME TypeOK, OneCall, Calls, NEW o \in Observers, faults' = faults, sup' = sup,
           \/ Is(o, "cancelled") /\ PauseBody(o) /\ UNCHANGED current
           \/ PauseEnds(o)
    PROVE  Calls'
<1>1. task \in [Tasks -> Task] /\ o \in Tasks
    BY TypeParts, TasksDiffer
<1>2. /\ ~Is(o, "off") /\ o \in faults.observers /\ \A p \in Observers : p # o => Is(p, "off")
      /\ ~sup.up /\ \A r \in RetryTasks : Is(r, "off")
    <2>1. task[o].at \in {"cancelled", "settling"}
        BY DEF PauseEnds, Is
    <2>2. ~Is(o, "off") /\ task[o].at \in Pausing
        BY <2>1 DEF Is, Pausing
    <2> QED BY <2>2, Alone DEF Calls, Retried
<1>3. CASE Is(o, "cancelled") /\ PauseBody(o) /\ UNCHANGED current
    <2>1. lock = NoOne
        BY <1>2, <1>3, LockFree DEF Is
    <2>2. /\ flag'.paused /\ \A x \in Tasks : x # o => task'[x] = task[x]
          /\ \/ task'[o].at = "off" /\ lock' = NoOne
             \/ task'[o].at = "draining" /\ lock' = o
        BY <1>3, <2>1, PauseBodyOutcome
    <2>3. \A r \in RetryTasks : Is(r, "off")'
        BY <1>2, <2>2, TasksDiffer DEF Is
    <2>4. \A p \in Observers : p # o => Is(p, "off")'
        BY <1>2, <2>2, TasksDiffer DEF Is
    <2> QED BY <1>2, <2>2, <2>3, <2>4, TasksDiffer DEF Calls, Idle, Pausing, Resuming, Is, Retried
<1>4. CASE PauseEnds(o)
    <2>1. Goes(o, "off") /\ lock' = NoOne /\ UNCHANGED <<flag, current>>
        BY <1>4 DEF PauseEnds
    <2>2. task'[o].at = "off" /\ \A x \in Tasks : x # o => task'[x] = task[x]
        BY <1>1, <2>1, Goings DEF Steps
    <2>3. \A r \in RetryTasks : Is(r, "off")'
        BY <1>2, <2>2, TasksDiffer DEF Is
    <2>4. \A p \in Observers : Is(p, "off")'
        BY <1>2, <2>2, TasksDiffer DEF Is
    <2> QED BY <1>2, <2>1, <2>3, <2>4, TasksDiffer DEF Calls, Idle, Pausing, Resuming, Is, Retried
<1> QED BY <1>3, <1>4

\* The broker, the rest of the process and the loop disturb no call.
LEMMA OutsideCalls ==
    ASSUME TypeOK, Calls, BrokerSteps \/ ProcessSteps \/ LoopSteps \/ TaskSteps(Loop), ~flag'.closing
    PROVE  SameCalls
<1>1. /\ flag \in Flag /\ task \in [Tasks -> Task] /\ faults \in Faults /\ sup \in Supervisor
      /\ Loop \in Tasks /\ \A x \in Resumes : x \in Tasks /\ x # Loop
    BY TypeParts, TasksDiffer DEF Resumes
<1>2. \A step \in Steps : Goes(Loop, step) => \A x \in Resumes : task'[x] = task[x]
    BY <1>1, Goings
<1>3. CASE Disconnect \/ Reconnect \/ Rechecked \/ CheckFails \/ CheckPasses \/ Release
    <2>1. UNCHANGED <<lock, current, task>> /\ flag'.paused = flag.paused /\ flag'.managed = flag.managed
        BY <1>1, <1>3 DEF Disconnect, Reconnect, Rechecked, CheckFails, CheckPasses, Release, client, Flag
    <2>2. sup'.up = sup.up
        BY <1>1, <1>3 DEF Disconnect, Reconnect, Rechecked, CheckFails, CheckPasses, Release, client, Supervisor
    <2>3. faults'.observers = faults.observers
        BY <1>1, <1>3, FaultSteps DEF Disconnect, Reconnect, Rechecked, CheckFails, CheckPasses, Release, client
    <2> QED BY <2>1, <2>2, <2>3 DEF SameCalls, Alike
<1>4. CASE Die
    <2> DEFINE broken == [x \in Tasks |-> IF Is(x, "subscribing") THEN At("broken") ELSE task[x]]
    <2>1. broken \in [Tasks -> Task]
        BY <1>1, Places DEF Steps
    <2>2. \A x \in Tasks : broken[x].at = task[x].at \/ (Is(x, "subscribing") /\ broken[x].at = "broken")
        BY DEF At
    <2>3. task' = broken \/ task' = LoopStarted(broken)
        BY <1>4 DEF Die
    <2> HIDE DEF broken
    <2>4. \A x \in Resumes : task'[x] = broken[x]
        BY <1>1, <2>1, <2>3, Started
    <2>5. \A x \in Resumes : Alike(x)
        BY <1>1, <2>2, <2>4 DEF Alike, Is, Resuming
    <2>6. /\ UNCHANGED <<lock, current, sup>> /\ flag'.paused = flag.paused /\ flag'.managed = flag.managed
          /\ faults'.observers = faults.observers
        BY <1>1, <1>4, FaultSteps DEF Die, Flag
    <2> QED BY <2>5, <2>6 DEF SameCalls
<1>5. CASE Subscribe
    <2>1. \A x \in Resumes : task'[x] = task[x]
        BY <1>1, <1>5, Started DEF Subscribe
    <2>2. UNCHANGED <<lock, current, sup, faults>> /\ flag'.paused = flag.paused /\ flag'.managed
        BY <1>1, <1>5 DEF Subscribe, Flag
    <2> QED BY <2>1, <2>2 DEF SameCalls, Alike
<1>6. CASE Close
    BY <1>1, <1>6 DEF Close, Flag
<1>7. CASE Closed
    <2>1. \A x \in Resumes : Alike(x)
        BY <1>1, <1>7 DEF Closed, Alike, Is, At, Resuming
    <2> QED BY <1>7, <2>1 DEF Closed, SameCalls
<1>8. CASE LoopSteps \/ TaskSteps(Loop)
    <2>1. \A x \in Resumes : task'[x] = task[x]
        <3>1. LoopProceeds \/ LoopHasClient => \A x \in Resumes : task'[x] = task[x]
            BY <1>1, <1>2 DEF LoopProceeds, LoopHasClient, Steps
        <3>2. LoopFails => \A x \in Resumes : task'[x] = task[x]
            BY <1>2 DEF LoopFails, Steps
        <3>3. Completed(Loop) => \A x \in Resumes : task'[x] = task[x]
            BY <1>2 DEF Completed, Steps
        <3>4. SubscribeTopic(Loop) => \A x \in Resumes : task'[x] = task[x]
            BY <1>1, <3>3 DEF SubscribeTopic
        <3>5. LoopSteps => \A x \in Resumes : task'[x] = task[x]
            BY <1>2, <3>1, <3>2 DEF LoopSteps, LoopConnect, LoopConnectFails, LoopRefused, LoopWakes, LoopFatal, Steps
        <3> QED BY <1>8, <3>1, <3>2, <3>4, <3>5 DEF TaskSteps, SubscribeFails, Dropped
    <2>2. UNCHANGED <<lock, current, sup>>
        BY <1>8 DEF LoopSteps, LoopConnect, LoopConnectFails, LoopRefused, LoopWakes, LoopFatal, client,
                    TaskSteps, SubscribeTopic, SubscribeFails, Dropped
    <2>3. faults'.observers = faults.observers
        <3>1. ~Dropped(Loop) => faults'.observers = faults.observers
            BY <1>1, <1>8, FaultSteps DEF LoopSteps, LoopConnect, LoopConnectFails, LoopRefused, LoopWakes, LoopFatal,
                    TaskSteps, SubscribeTopic, SubscribeFails
        <3> QED BY <1>1, <3>1, WipedSteps
    <2>4. flag'.paused = flag.paused /\ flag'.managed = flag.managed
        <3>1. LoopFails => flag'.paused = flag.paused /\ flag'.managed = flag.managed
            BY <1>1 DEF LoopFails, Flag
        <3>2. LoopSteps => flag'.paused = flag.paused /\ flag'.managed = flag.managed
            BY <1>1, <3>1 DEF LoopSteps, LoopConnect, LoopConnectFails, LoopRefused, LoopWakes, LoopFatal, client, Flag
        <3>3. SubscribeTopic(Loop) => flag'.paused = flag.paused /\ flag'.managed = flag.managed
            BY <1>1 DEF SubscribeTopic, Completed, Flag
        <3> QED BY <1>8, <3>1, <3>2, <3>3 DEF TaskSteps, SubscribeFails, Dropped
    <2> QED BY <2>1, <2>2, <2>3, <2>4 DEF SameCalls, Alike
<1> QED BY <1>3, <1>4, <1>5, <1>6, <1>7, <1>8 DEF BrokerSteps, ProcessSteps

LEMMA CallsNext ==
    ASSUME TypeOK, OneCall, Calls, Next, ~flag'.closing
    PROVE  Calls'
<1>1. /\ flag \in Flag /\ task \in [Tasks -> Task] /\ faults \in Faults /\ sup \in Supervisor
      /\ \A x \in Resumes : x \in Tasks /\ x # Loop
    BY TypeParts, TasksDiffer DEF Resumes
<1>2. CASE BrokerSteps \/ ProcessSteps \/ LoopSteps \/ TaskSteps(Loop)
    BY <1>2, OutsideCalls, CallsKept
<1>3. ASSUME NEW x \in Resumes, TaskSteps(x) PROVE Calls'
    <2>1. CASE SubscribeTopic(x)
        BY <2>1, CallsAfterSubscribe
    <2>2. CASE SubscribeFails(x)
        <3>1. /\ task[x].at \in Resuming /\ (Fails(x) \/ Drops(x))
              /\ UNCHANGED <<lock, sup>> /\ faults'.observers = faults.observers
            BY <2>2, SubscribeFailsOutcome
        <3>2. CASE Fails(x)
            BY <3>1, <3>2, CallsAfterFailure
        <3>3. CASE Drops(x)
            <4>1. SameCalls
                BY <3>1, <3>3 DEF Drops, SameCalls, Alike, At, Resuming
            <4> QED BY <4>1, CallsKept
        <3> QED BY <3>1, <3>2, <3>3
    <2>3. CASE Dropped(x)
        <3>1. ResumeFails(x, task) /\ task[x].at \in Resuming /\ UNCHANGED <<lock, sup, faults>>
            BY <1>1, <2>3 DEF Dropped, Is, Resuming
        <3>2. Fails(x)
            BY <1>1, <3>1, ResumeFailsOutcome
        <3> QED BY <3>1, <3>2, CallsAfterFailure
    <2> QED BY <1>3, <2>1, <2>2, <2>3 DEF TaskSteps
<1>4. ASSUME NEW r \in RetryTasks, RetryWakes(r) \/ RetryLocks(r) PROVE Calls'
    <2>1. RetryWakes(r)
        BY <1>4, RetryAlone DEF RetryLocks, Resuming, Is
    <2>2. task'[r].at = "subscribing" /\ \A x \in Tasks : x # r => task'[x] = task[x]
        BY <1>1, <2>1, TasksDiffer DEF RetryWakes, Subscribing
    <2>3. SameCalls
        BY <1>1, <2>1, <2>2 DEF RetryWakes, client, SameCalls, Alike, Resuming
    <2> QED BY <2>3, CallsKept
<1>5. ASSUME NEW o \in Observers, ObserverSteps(o), ~TaskSteps(o) PROVE Calls'
    <2> o \in Tasks /\ o \in Resumes
        BY TasksDiffer DEF Resumes
    <2>1. CASE Poll(o)
        <3> DEFINE tk == IF conn \in {"none", "dead"} /\ flag.managed /\ ~flag.closing THEN LoopStarted(task) ELSE task
        <3>1. tk \in [Tasks -> Task] /\ \A x \in Resumes : tk[x] = task[x]
            BY <1>1, Started
        <3>2. \E at \in {"healthy", "unhealthy"} : task' = [tk EXCEPT ![o] = At(at)]
            BY <2>1 DEF Poll
        <3> HIDE DEF tk
        <3>3. task'[o].at \in {"healthy", "unhealthy"} /\ \A x \in Resumes : x # o => task'[x] = task[x]
            BY <1>1, <3>1, <3>2 DEF At
        <3>4. UNCHANGED <<lock, current, sup, flag, faults>> /\ o \in faults.observers /\ Is(o, "off")
            BY <2>1 DEF Poll, Observes
        <3>5. SameCalls
            BY <3>3, <3>4 DEF SameCalls, Alike, Idle, Is
        <3> QED BY <3>5, CallsKept
    <2>2. CASE MarkDownAtStartup(o) \/ MarkDownFatal(o)
        <3>1. /\ Set(o, FALSE, "startup") \/ Set(o, FALSE, "fatal")
              /\ o \in faults.observers /\ task[o].at \in Idle /\ faults'.observers = faults.observers
            BY <1>1, <2>2, FaultSteps DEF MarkDownAtStartup, MarkDownFatal, Observes, Is, Idle
        <3> QED BY <3>1, CallsAfterSet
    <2>3. CASE Act(o)
        <3>1. /\ Set(o, Is(o, "healthy") /\ sup.forced = "no", sup.forced)
              /\ task[o].at \in Idle /\ ~Is(o, "off") /\ faults' = faults
            BY <2>3 DEF Act, Is, Idle
        <3>2. o \in faults.observers /\ sup.forced \in {"no", "startup", "fatal"}
            BY <1>1, <3>1, Alone DEF Supervisor
        <3> QED BY <3>1, <3>2, CallsAfterSet
    <2>4. CASE PauseAfterCancel(o) \/ PauseEnds(o)
        BY <2>4, CallsAfterPause DEF PauseAfterCancel, PauseEnds
    <2>5. CASE PauseLocks(o) \/ ResumeLocks(o)
        BY <2>5 DEF PauseLocks, ResumeLocks, Calls, Is, Idle, Pausing, Resuming
    <2>6. CASE Drained(o)
        <3>1. task'[o].at = "settling" /\ \A x \in Tasks : x # o => task'[x] = task[x]
            BY <1>1, <2>6, Goings DEF Drained, Steps
        <3>2. SameCalls
            BY <1>1, <2>6, <3>1 DEF Drained, SameCalls, Alike
        <3> QED BY <3>2, CallsKept
    <2> QED BY <1>5, <2>1, <2>2, <2>3, <2>4, <2>5, <2>6 DEF ObserverSteps, CallSteps
<1> QED BY <1>2, <1>3, <1>4, <1>5 DEF Next, RetrySteps, Resumes

\* Nothing takes a shutdown back, and the calls there may be stay the same.
LEMMA NeverReopened ==
    ASSUME TypeOK, [Next]_vars
    PROVE  /\ flag.closing => flag'.closing
           /\ closer' # "no" => closer # "no" \/ flag'.closing
           /\ OneCall' <=> OneCall
           /\ faults.wiped => faults'.wiped
<1>1. flag \in Flag /\ faults \in Faults
    BY TypeParts
<1> DEFINE Remains ==
        /\ flag.closing => flag'.closing
        /\ closer' # "no" => closer # "no" \/ flag'.closing
        /\ faults'.observers = faults.observers
        /\ faults.wiped => faults'.wiped
<1>2. Remains
    <2>1. CASE BrokerSteps \/ ProcessSteps
        <3>1. /\ flag.closing => flag'.closing
              /\ closer' # "no" => closer # "no" \/ flag'.closing
            BY <1>1, <2>1 DEF BrokerSteps, ProcessSteps, Disconnect, Reconnect, Rechecked, Die,
                    CheckFails, CheckPasses, Subscribe, Release, Close, Closed, client, Flag
        <3>2. faults'.observers = faults.observers /\ (faults.wiped => faults'.wiped)
            BY <1>1, <2>1, FaultSteps DEF BrokerSteps, ProcessSteps, Disconnect, Reconnect, Rechecked, Die,
                    CheckFails, CheckPasses, Subscribe, Release, Close, Closed
        <3> QED BY <3>1, <3>2
    <2>2. CASE LoopSteps
        <3>1. /\ flag.closing => flag'.closing
              /\ closer' = closer
            BY <1>1, <2>2 DEF LoopSteps, LoopConnect, LoopConnectFails, LoopRefused, LoopWakes, LoopFatal, LoopFails, client, Flag
        <3>2. faults'.observers = faults.observers /\ (faults.wiped => faults'.wiped)
            BY <1>1, <2>2, FaultSteps DEF LoopSteps, LoopConnect, LoopConnectFails, LoopRefused, LoopWakes, LoopFatal, client
        <3> QED BY <3>1, <3>2
    <2>3. ASSUME NEW x \in Tasks, TaskSteps(x) PROVE Remains
        <3>1. /\ flag.closing => flag'.closing
              /\ closer' = closer
            BY <1>1, <2>3 DEF TaskSteps, SubscribeTopic, SubscribeFails, Dropped, Completed, LoopFails, ResumeFails, Flag
        <3>2. faults'.observers = faults.observers /\ (faults.wiped => faults'.wiped)
            BY <1>1, <2>3, FaultSteps, WipedSteps DEF TaskSteps, SubscribeTopic, SubscribeFails
        <3> QED BY <3>1, <3>2
    <2>4. ASSUME NEW r \in RetryTasks, RetryWakes(r) \/ RetryLocks(r) PROVE Remains
        BY <2>4 DEF RetryWakes, RetryLocks, client
    <2>5. ASSUME NEW o \in Observers, ObserverSteps(o), ~TaskSteps(o) PROVE Remains
        <3>1. /\ flag.closing => flag'.closing
              /\ closer' = closer
            BY <1>1, <2>5 DEF ObserverSteps, CallSteps, Poll, Act, MarkDownAtStartup, MarkDownFatal, PauseAfterCancel,
                    PauseLocks, ResumeLocks, Drained, PauseEnds, Set, PauseBegin, PauseBody, ResumeBegin, client, Flag
        <3>2. faults'.observers = faults.observers /\ (faults.wiped => faults'.wiped)
            BY <1>1, <2>5, FaultSteps DEF ObserverSteps, CallSteps, Poll, Act, MarkDownAtStartup, MarkDownFatal,
                    PauseAfterCancel, PauseLocks, ResumeLocks, Drained, PauseEnds
        <3> QED BY <3>1, <3>2
    <2>6. CASE UNCHANGED vars
        BY <2>6 DEF vars, client
    <2> QED BY <2>1, <2>2, <2>3, <2>4, <2>5, <2>6, TasksDiffer DEF Next, RetrySteps, ObserverSteps, CallSteps
<1> QED BY <1>2 DEF OneCall

LEMMA CallsInvInit == Init => CallsInv
<1> SUFFICES ASSUME Init PROVE CallsInv
    OBVIOUS
<1>1. \A x \in Tasks : Is(x, "off")
    BY DEF Init, Is, At
<1> QED BY <1>1, TypeInit, TasksDiffer DEF Init, CallsInv, Calls, Retried, Idle, Pausing, Resuming, Is

LEMMA CallsInvNext == CallsInv /\ [Next]_vars => CallsInv'
<1> SUFFICES ASSUME CallsInv, [Next]_vars PROVE CallsInv'
    OBVIOUS
<1>1. TypeOK /\ TypeOK'
    BY TypeNext DEF CallsInv
<1>2. closer' = "no" \/ flag'.closing
    BY <1>1, NeverReopened DEF CallsInv
<1>3. ASSUME ~flag'.closing, OneCall' PROVE Calls'
    <2>1. ~flag.closing /\ OneCall /\ Calls
        BY <1>1, <1>3, NeverReopened DEF CallsInv
    <2>2. CASE UNCHANGED vars
        BY <2>1, <2>2 DEF vars, client, Calls, Retried, Is
    <2>3. CASE Next
        BY <1>1, <1>3, <2>1, <2>3, CallsNext
    <2> QED BY <2>2, <2>3
<1> QED BY <1>1, <1>2, <1>3 DEF CallsInv

\* A client of an agent that is recorded as up, and that is paused all the same,
\* has a resume being retried: the record is not asked to resume it again.
PausedIsRetried ==
    OneCall /\ ~flag.closing /\ flag.paused /\ sup.up
        => \E r \in RetryTasks : r = current /\ ~Is(r, "off")

\* The invariant that a pause is never forgotten (resume_consumption, "nothing would
\* ever call this again"): with one call at a time, an agent that is recorded as
\* up but paused has a retry of its resume alive, and that is the one a pause cancels.
THEOREM PauseHeldByRetry == Spec => []PausedIsRetried
<1>1. CallsInv => PausedIsRetried
    BY DEF CallsInv, PausedIsRetried, Calls, Retried
<1> QED BY <1>1, CallsInvInit, CallsInvNext, PTL DEF Spec

-----------------------------------------------------------------------------
(* Somebody is at work on what is not subscribed.                          *)

\* No task begins or ends a resume, or moves on in it.
ResumesRest ==
    \A x \in Resumes :
        \/ task'[x] = task[x]
        \/ x \in Observers /\ task[x].at \notin Resuming /\ task'[x].at \notin Resuming
SubsGrow == \A t \in Topics : subs[t] > 0 => subs'[t] > 0
StillConnected == conn' = "none" => conn = "none"

LEMMA ResumesKept ==
    ASSUME ResumesTended, ResumesRest, StillConnected,
           SubsGrow \/ \A x \in Resumes : Is(x, "subscribing") => task[x].todo = Topics
    PROVE  ResumesTended' /\ (Resumed' <=> Resumed)
<1>1. Retried' <=> Retried
    BY TasksDiffer DEF Retried, ResumesRest, Resumes, Is
<1>2. \A x \in Resumes : task'[x].at \in Resuming <=> task[x].at \in Resuming
    BY DEF ResumesRest
<1>3. Resumed' <=> Resumed
    BY <1>2 DEF Resumed, Resumes
<1>4. \A x \in Resumes : task'[x].at = "subscribing" => Is(x, "subscribing") /\ task'[x] = task[x]
    BY DEF ResumesRest, Resuming, Is
<1>5. \A x \in Resumes : Is(x, "subscribing")' => Ahead(x)'
    BY <1>4 DEF ResumesTended, Ahead, SubsGrow, Is
<1> QED BY <1>1, <1>2, <1>3, <1>5 DEF ResumesTended, StillConnected

LEMMA LoopKept ==
    ASSUME LoopTended, StillConnected, flag'.managed = flag.managed,
           task'[Loop] = task[Loop] \/ (flag.managed /\ task'[Loop].at = "connecting"),
           \/ flag'.paused
           \/ ~flag.paused /\ SubsGrow /\ (Resumed => Resumed') /\ (GaveUp => GaveUp')
    PROVE  LoopTended'
<1>1. ~flag'.paused =>
        /\ Subscribed => Subscribed'
        /\ Resumed => Resumed'
        /\ GaveUp => GaveUp'
        /\ task'[Loop] = task[Loop] /\ Ahead(Loop) => Ahead(Loop)'
    BY DEF Subscribed, SubsGrow, Ahead
<1>2. CASE task'[Loop] = task[Loop]
    BY <1>1, <1>2 DEF LoopTended, StillConnected, Is
<1>3. CASE flag.managed /\ task'[Loop].at = "connecting"
    BY <1>3 DEF LoopTended, Is, Resuming
<1> QED BY <1>2, <1>3

LEMMA MoreGrows ==
    ASSUME TypeOK, NEW t \in Topics, More(t)
    PROVE  SubsGrow /\ subs'[t] > 0
<1>1. subs \in [Topics -> 0..MaxSubs] /\ MaxSubs \in Nat \ {0}
    BY Bounds DEF TypeOK
<1>2. subs'[t] = (IF subs[t] = MaxSubs THEN subs[t] ELSE subs[t] + 1) /\ \A u \in Topics : u # t => subs'[u] = subs[u]
    BY <1>1 DEF More
<1>3. subs'[t] > 0
    BY <1>1, <1>2
<1> QED BY <1>2, <1>3 DEF SubsGrow

\* The broker and the rest of the process: a lost client takes its subscriptions
\* with it, and the loop is started.
LEMMA OutsideTended ==
    ASSUME TypeOK, Tended, closer = "no", BrokerSteps \/ ProcessSteps, ~flag.closing, ~flag'.closing
    PROVE  Tended'
<1>1. /\ flag \in Flag /\ task \in [Tasks -> Task] /\ Loop \in Tasks /\ ResumesTended /\ LoopTended
      /\ \A x \in Resumes : x \in Tasks /\ x # Loop
    BY TypeParts, TasksDiffer DEF Resumes, Tended
<1>2. CASE Disconnect \/ Reconnect \/ Rechecked \/ CheckFails \/ CheckPasses \/ Release
    <2>1. UNCHANGED <<subs, task>> /\ StillConnected
        BY <1>2 DEF Disconnect, Reconnect, Rechecked, CheckFails, CheckPasses, Release, client, StillConnected
    <2>2. /\ flag'.paused = flag.paused /\ flag'.managed = flag.managed
          /\ flag'.orphaned = flag.orphaned /\ flag'.retries = flag.retries
        BY <1>1, <1>2 DEF Disconnect, Reconnect, Rechecked, CheckFails, CheckPasses, Release, client, Flag
    <2>3. ResumesRest /\ SubsGrow /\ (GaveUp => GaveUp')
        BY <2>1, <2>2 DEF ResumesRest, SubsGrow, GaveUp
    <2>4. ResumesTended' /\ (Resumed' <=> Resumed)
        BY <1>1, <2>1, <2>3, ResumesKept
    <2>5. LoopTended'
        <3>1. flag'.paused \/ (~flag.paused /\ SubsGrow /\ (Resumed => Resumed') /\ (GaveUp => GaveUp'))
            BY <1>1, <2>2, <2>3, <2>4 DEF Flag
        <3> QED BY <1>1, <2>1, <2>2, <3>1, LoopKept
    <2> QED BY <2>4, <2>5 DEF Tended
<1>3. CASE Die
    <2> DEFINE broken == [x \in Tasks |-> IF Is(x, "subscribing") THEN At("broken") ELSE task[x]]
    <2>1. broken \in [Tasks -> Task]
        BY <1>1, Places DEF Steps
    <2>2. /\ \A x \in Tasks : broken[x].at # "subscribing"
          /\ Is(Loop, "off") => broken[Loop].at = "off"
        BY <1>1 DEF At, Is
    <2>3. /\ conn' = "dead"
          /\ IF flag.managed
             THEN /\ flag'.managed /\ task' = LoopStarted(broken)
             ELSE task' = broken /\ UNCHANGED <<flag, subs>>
        BY <1>1, <1>3 DEF Die, Flag
    <2> HIDE DEF broken
    <2>4. CASE flag.managed
        <3>1. /\ task'[Loop].at # "off" /\ \A x \in Tasks : task'[x].at # "subscribing"
            BY <1>1, <2>1, <2>2, <2>3, <2>4, Started DEF At
        <3> QED BY <1>1, <2>3, <2>4, <3>1 DEF Tended, ResumesTended, LoopTended, Is
    <2>5. CASE ~flag.managed
        <3>1. task'[Loop].at = "off" /\ \A x \in Tasks : task'[x].at # "subscribing"
            BY <1>1, <2>2, <2>3, <2>5 DEF LoopTended
        <3> QED BY <1>1, <2>3, <2>5, <3>1 DEF Tended, ResumesTended, LoopTended, Is
    <2> QED BY <2>4, <2>5
<1>4. CASE Subscribe
    <2>1. /\ Is(Loop, "off") /\ flag'.managed /\ flag'.paused = flag.paused /\ UNCHANGED <<conn, subs>>
          /\ task' = IF flag.paused THEN task ELSE LoopStarted(task)
        BY <1>1, <1>4 DEF Subscribe, LoopTended, Flag
    <2>2. /\ \A x \in Resumes : task'[x] = task[x]
          /\ IF flag.paused THEN task'[Loop].at = "off" ELSE task'[Loop].at = "connecting"
        BY <1>1, <2>1, Started DEF Is, At
    <2>3. ResumesTended'
        BY <1>1, <2>1, <2>2, ResumesKept DEF ResumesRest, SubsGrow, StillConnected
    <2>4. LoopTended'
        BY <2>1, <2>2 DEF LoopTended, Is, Resuming
    <2> QED BY <2>3, <2>4 DEF Tended
<1>5. CASE Close
    BY <1>1, <1>5 DEF Close, Flag
<1>6. CASE Closed
    BY <1>6 DEF Closed
<1> QED BY <1>2, <1>3, <1>4, <1>5, <1>6 DEF BrokerSteps, ProcessSteps

\* Where the loop is after its step, if it does not give up.
LEMMA LoopMoves ==
    ASSUME TypeOK, conn' # "none", flag.managed, UNCHANGED flag, LoopProceeds \/ Goes(Loop, "dropping")
    PROVE  LoopTended' /\ \A x \in Resumes : task'[x] = task[x]
<1>1. /\ flag \in Flag /\ task \in [Tasks -> Task] /\ Loop \in Tasks
      /\ \A x \in Resumes : x \in Tasks /\ x # Loop
    BY TypeParts, TasksDiffer DEF Resumes
<1>2. CASE LoopProceeds
    <2>1. /\ task'[Loop] = IF flag.paused THEN At("off") ELSE Subscribing
          /\ \A x \in Resumes : task'[x] = task[x]
        BY <1>1, <1>2 DEF LoopProceeds
    <2>2. flag.paused \/ (task'[Loop].at = "subscribing" /\ task'[Loop].todo = Topics)
        BY <2>1 DEF Subscribing
    <2> QED BY <1>1, <2>1, <2>2 DEF LoopTended, Is, Ahead
<1>3. CASE Goes(Loop, "dropping")
    <2>1. task'[Loop].at = "dropping" /\ \A x \in Resumes : task'[x] = task[x]
        BY <1>1, <1>3, Goings DEF Steps
    <2> QED BY <1>1, <2>1 DEF LoopTended, Is
<1> QED BY <1>2, <1>3

LEMMA LoopFailsTended ==
    ASSUME TypeOK, Tended, ~Is(Loop, "off"), LoopFails
    PROVE  LoopTended' /\ \A x \in Resumes : task'[x] = task[x]
<1>1. /\ flag \in Flag /\ task \in [Tasks -> Task] /\ Loop \in Tasks
      /\ \A x \in Resumes : x \in Tasks /\ x # Loop
    BY TypeParts, TasksDiffer DEF Resumes
<1>2. \/ Goes(Loop, "sleeping")
      \/ Goes(Loop, "off") /\ flag'.retries # Unlimited /\ flag'.orphaned
    BY <1>1 DEF LoopFails, Flag
<1>3. flag.managed /\ flag'.managed
    BY <1>1 DEF LoopFails, Flag, Tended, LoopTended
<1>4. \A step \in Steps : Goes(Loop, step) => task'[Loop].at = step /\ \A x \in Resumes : task'[x] = task[x]
    BY <1>1, Goings
<1> QED BY <1>2, <1>3, <1>4 DEF Steps, LoopTended, GaveUp, Is, Resuming

LEMMA LoopStepsTended ==
    ASSUME TypeOK, Tended, LoopSteps \/ TaskSteps(Loop), Spared, Spared'
    PROVE  Tended'
<1>1. /\ flag \in Flag /\ task \in [Tasks -> Task] /\ Loop \in Tasks /\ ResumesTended /\ LoopTended
      /\ \A x \in Resumes : x \in Tasks /\ x # Loop
    BY TypeParts, TasksDiffer DEF Resumes, Tended
<1>2. ASSUME SubsGrow \/ \A x \in Resumes : Is(x, "subscribing") => task[x].todo = Topics, StillConnected,
             \A x \in Resumes : task'[x] = task[x]
      PROVE  ResumesTended' /\ (Resumed' <=> Resumed)
    BY <1>1, <1>2, ResumesKept DEF ResumesRest
<1>3. subs' = subs => SubsGrow
    BY DEF SubsGrow
<1>4. CASE LoopConnect
    <2>1. /\ ~Is(Loop, "off") /\ conn' # "none" /\ UNCHANGED <<flag, subs>>
          /\ LoopProceeds \/ Goes(Loop, "dropping")
        BY <1>4 DEF LoopConnect, LoopHasClient, Is
    <2>2. flag.managed
        BY <1>1, <2>1 DEF LoopTended
    <2>3. LoopTended' /\ \A x \in Resumes : task'[x] = task[x]
        BY <2>1, <2>2, LoopMoves
    <2> QED BY <1>2, <1>3, <2>1, <2>3 DEF Tended, StillConnected
<1>5. CASE LoopConnectFails
    <2>1. ~Is(Loop, "off") /\ LoopFails /\ subs' = subs /\ StillConnected
        BY <1>5 DEF LoopConnectFails, StillConnected, Is
    <2>2. LoopTended' /\ \A x \in Resumes : task'[x] = task[x]
        BY <2>1, LoopFailsTended
    <2> QED BY <1>2, <1>3, <2>1, <2>2 DEF Tended
<1>6. CASE LoopWakes
    <2>1. /\ ~Is(Loop, "off") /\ UNCHANGED <<conn, flag, subs>>
          /\ \/ Goes(Loop, "connecting")
             \/ conn # "none" /\ (LoopProceeds \/ Goes(Loop, "dropping"))
        BY <1>6 DEF LoopWakes, LoopHasClient, client, Is
    <2>2. flag.managed
        BY <1>1, <2>1 DEF LoopTended
    <2>3. LoopTended' /\ \A x \in Resumes : task'[x] = task[x]
        <3>1. CASE Goes(Loop, "connecting")
            <4>1. task'[Loop].at = "connecting" /\ \A x \in Resumes : task'[x] = task[x]
                BY <1>1, <3>1, Goings DEF Steps
            <4> QED BY <2>1, <2>2, <4>1 DEF LoopTended, Is, Resuming
        <3>2. CASE conn # "none" /\ (LoopProceeds \/ Goes(Loop, "dropping"))
            BY <2>1, <2>2, <3>2, LoopMoves
        <3> QED BY <2>1, <3>1, <3>2
    <2> QED BY <1>2, <1>3, <2>1, <2>3 DEF Tended, StillConnected
<1>7. CASE LoopFatal \/ LoopRefused
    BY <1>7 DEF LoopFatal, LoopRefused, Reported, Spared
<1>8. CASE SubscribeTopic(Loop)
    <2>1. Is(Loop, "subscribing") /\ conn # "none" /\ UNCHANGED conn /\ flag.managed
        BY <1>1, <1>8 DEF SubscribeTopic, Reachable, LoopTended, Is
    <2>2. PICK t \in task[Loop].todo :
            /\ More(t)
            /\ IF task[Loop].todo = {t}
               THEN Completed(Loop)
               ELSE task' = [task EXCEPT ![Loop].todo = @ \ {t}] /\ UNCHANGED <<flag, attempts>>
        BY <1>8 DEF SubscribeTopic, More
    <2>3. SubsGrow /\ subs'[t] > 0
        BY <1>1, <2>2, MoreGrows DEF Task
    <2>4. CASE task[Loop].todo = {t}
        <3>1. Goes(Loop, "off") /\ flag'.managed = flag.managed /\ flag'.paused = flag.paused
            BY <1>1, <2>2, <2>4 DEF Completed, Flag
        <3>2. task'[Loop].at = "off" /\ \A x \in Resumes : task'[x] = task[x]
            BY <1>1, <3>1, Goings DEF Steps
        <3>3. ResumesTended' /\ (Resumed' <=> Resumed)
            BY <1>2, <2>1, <2>3, <3>2 DEF StillConnected
        <3>4. Ahead(Loop) => Subscribed'
            BY <2>3, <2>4 DEF Ahead, Subscribed, SubsGrow
        <3>5. LoopTended'
            BY <1>1, <2>1, <3>1, <3>2, <3>3, <3>4 DEF LoopTended, Is, Resuming
        <3> QED BY <3>3, <3>5 DEF Tended
    <2>5. CASE task[Loop].todo # {t}
        <3>1. task' = [task EXCEPT ![Loop] = [task[Loop] EXCEPT !.todo = @ \ {t}]] /\ UNCHANGED flag
            BY <2>2, <2>5
        <3>2. /\ task'[Loop] = [task[Loop] EXCEPT !.todo = @ \ {t}]
              /\ \A x \in Resumes : task'[x] = task[x]
            BY <1>1, <3>1
        <3>3. task'[Loop].at = "subscribing" /\ task'[Loop].todo = task[Loop].todo \ {t}
            BY <1>1, <2>1, <3>2 DEF Task, Is
        <3>4. ResumesTended' /\ (Resumed' <=> Resumed)
            BY <1>2, <2>1, <2>3, <3>2 DEF StillConnected
        <3>5. Ahead(Loop) => Ahead(Loop)'
            BY <2>3, <3>3 DEF Ahead, SubsGrow
        <3>6. LoopTended'
            BY <1>1, <2>1, <3>1, <3>3, <3>4, <3>5 DEF LoopTended, Is
        <3> QED BY <3>4, <3>6 DEF Tended
    <2> QED BY <2>4, <2>5
<1>9. CASE SubscribeFails(Loop)
    <2>1. ~Is(Loop, "off") /\ LoopFails /\ subs' = subs /\ StillConnected
        BY <1>9 DEF SubscribeFails, StillConnected, Is
    <2>2. LoopTended' /\ \A x \in Resumes : task'[x] = task[x]
        BY <2>1, LoopFailsTended
    <2> QED BY <1>2, <1>3, <2>1, <2>2 DEF Tended
<1>10. CASE Dropped(Loop)
    <2>1. Is(Loop, "dropping") /\ LoopProceeds /\ UNCHANGED <<conn, flag>>
        BY <1>10 DEF Dropped
    <2>2. flag.managed /\ conn # "none"
        BY <1>1, <2>1 DEF LoopTended, Is, Resuming
    <2>3. LoopTended' /\ \A x \in Resumes : task'[x] = task[x]
        BY <2>1, <2>2, LoopMoves
    <2>4. \A x \in Resumes : Is(x, "subscribing") => task[x].todo = Topics
        BY <1>10, TypeParts, WipedSteps DEF Spared, HalfResumed, Resumes
    <2> QED BY <1>2, <2>1, <2>3, <2>4 DEF Tended, StillConnected
<1> QED BY <1>4, <1>5, <1>6, <1>7, <1>8, <1>9, <1>10 DEF LoopSteps, TaskSteps

\* A paused client leaves what is not subscribed to the resume.
LEMMA LoopRests ==
    ASSUME Tended, flag'.paused, flag.managed => flag'.managed, flag'.managed => flag.managed,
           StillConnected, LoopAwoken, flag.managed \/ task'[Loop] = task[Loop]
    PROVE  LoopTended'
BY DEF Tended, LoopTended, LoopAwoken, StillConnected, Is, Resuming, At

\* A resume that fails, or drops what it has made.
LEMMA FailureTended ==
    ASSUME TypeOK, Tended, NEW x \in Resumes, task[x].at \in Resuming, flag.managed,
           x \in RetryTasks => flag.paused, UNCHANGED conn, LoopAwoken,
           subs' = subs \/ \A y \in Resumes : ~Is(y, "subscribing"),
           Fails(x) \/ (Drops(x) /\ subs' = subs)
    PROVE  Tended'
<1>1. conn' # "none" /\ ResumesTended /\ LoopTended
    BY DEF Tended, ResumesTended
<1>2. \A y \in Resumes : task'[y].at = "subscribing" => Is(y, "subscribing") /\ task'[y] = task[y]
    <2>1. At("sleeping").at # "subscribing" /\ At("off").at # "subscribing" /\ At("dropping").at # "subscribing"
        BY DEF At
    <2>2. CASE Drops(x)
        BY <2>1, <2>2 DEF Drops, Is
    <2>3. CASE Fails(x) /\ x \in RetryTasks
        BY <2>1, <2>3, TasksDiffer DEF Fails, Resumes, Is
    <2>4. CASE Fails(x) /\ x \in Observers
        BY <2>1, <2>4, TasksDiffer DEF Fails, Resumes, Is
    <2> QED BY <2>2, <2>3, <2>4 DEF Resumes
<1>3. \A y \in Resumes : task'[y].at = "subscribing" => Ahead(y)'
    BY <1>1, <1>2 DEF ResumesTended, Ahead
<1>4. ResumesTended'
    BY <1>1, <1>3 DEF ResumesTended, Is
<1>5. CASE Fails(x)
    <2>1. LoopTended'
        BY <1>1, <1>5, LoopRests DEF Fails, StillConnected
    <2> QED BY <1>4, <2>1 DEF Tended
<1>6. CASE Drops(x) /\ subs' = subs
    <2>1. CASE x \in RetryTasks
        <3>1. LoopTended'
            BY <1>1, <1>6, <2>1, LoopRests DEF Drops, StillConnected
        <3> QED BY <1>4, <3>1 DEF Tended
    <2>2. CASE x \in Observers
        <3>1. Resumed'
            BY <1>6, <2>2 DEF Resumed, Drops, At, Resuming
        <3>2. LoopTended'
            BY <1>1, <1>6, <3>1 DEF LoopTended, Drops, LoopAwoken, At, Is
        <3> QED BY <1>4, <3>2 DEF Tended
    <2> QED BY <2>1, <2>2 DEF Resumes
<1> QED BY <1>5, <1>6

\* A resume has subscribed one more topic.
LEMMA SubscribeTended ==
    ASSUME TypeOK, OneCall, Calls, Tended, NEW x \in Resumes, SubscribeTopic(x)
    PROVE  Tended'
<1>1. /\ task \in [Tasks -> Task] /\ x \in Tasks /\ x # Loop /\ Loop \in Tasks
      /\ \A y \in Resumes : y \in Tasks /\ y # Loop
    BY TypeParts, TasksDiffer DEF Resumes
<1>2. Is(x, "subscribing")
    BY DEF SubscribeTopic
<1>3. flag.managed /\ (x \in RetryTasks => lock = NoOne /\ flag.paused)
    <2>1. CASE x \in RetryTasks
        BY <1>2, <2>1, RetryAlone DEF Is
    <2>2. CASE x \in Observers
        BY <1>2, <2>2, ResumeAlone, TasksDiffer DEF Is, Resuming
    <2> QED BY <2>1, <2>2 DEF Resumes
<1>4. /\ conn \in {"up", "down"} /\ UNCHANGED <<conn, fatal>>
      /\ \A y \in Tasks : y # x => task'[y] = task[y]
    BY <1>3, SubscribeOutcome
<1>5. PICK t \in task[x].todo : More(t) /\ (GoesOn(x, t) \/ Ends(x, t))
    BY <1>3, SubscribeOutcome
<1>6. SubsGrow /\ subs'[t] > 0
    BY <1>1, <1>5, MoreGrows DEF Task
<1>7. Ahead(x)
    BY <1>2 DEF Tended, ResumesTended
<1>8. ASSUME NEW y \in Resumes, y # x, task'[y].at = "subscribing" PROVE Ahead(y)'
    BY <1>1, <1>4, <1>6, <1>8 DEF Tended, ResumesTended, Is, Ahead, SubsGrow
<1>9. CASE GoesOn(x, t)
    <2>1. task'[x].at = "subscribing" /\ task'[x].todo = task[x].todo \ {t} /\ UNCHANGED flag
        BY <1>1, <1>2, <1>9 DEF GoesOn, Task, Is
    <2>2. Ahead(x)'
        BY <1>6, <1>7, <2>1 DEF Ahead, SubsGrow
    <2>3. ResumesTended'
        BY <1>4, <1>8, <2>2 DEF ResumesTended, Is
    <2>4. LoopTended'
        <3>1. CASE x \in RetryTasks
            BY <1>1, <1>3, <1>4, <2>1, <3>1, LoopRests DEF StillConnected, LoopAwoken
        <3>2. CASE x \in Observers
            <4>1. Resumed'
                BY <2>1, <3>2 DEF Resumed, Resuming
            <4> QED BY <1>1, <1>3, <1>4, <2>1, <4>1 DEF LoopTended, Tended, Is
        <3> QED BY <3>1, <3>2 DEF Resumes
    <2> QED BY <2>3, <2>4 DEF Tended
<1>10. CASE Ends(x, t)
    <2>1. Subscribed'
        BY <1>6, <1>7, <1>10 DEF Ends, Ahead, SubsGrow, Subscribed
    <2>2. ResumesTended'
        BY <1>4, <1>8, <1>10 DEF ResumesTended, Ends, Is
    <2>3. LoopTended'
        BY <1>1, <1>3, <1>4, <1>10, <2>1 DEF LoopTended, Ends, Subscribed, Ahead
    <2> QED BY <2>2, <2>3 DEF Tended
<1> QED BY <1>5, <1>9, <1>10

LEMMA TaskTended ==
    ASSUME TypeOK, OneCall, Calls, Tended, NEW x \in Resumes, TaskSteps(x)
    PROVE  Tended'
<1>1. /\ task \in [Tasks -> Task] /\ x \in Tasks /\ x # Loop /\ Loop \in Tasks
      /\ \A y \in Resumes : y \in Tasks /\ y # Loop
    BY TypeParts, TasksDiffer DEF Resumes
<1>2. CASE SubscribeTopic(x)
    BY <1>2, SubscribeTended
<1>3. ASSUME task[x].at \in Resuming
      PROVE  /\ flag.managed /\ (x \in RetryTasks => flag.paused)
             /\ \A y \in Resumes : y # x => task[y].at \in Idle
    <2>1. CASE x \in RetryTasks
        BY <1>3, <2>1, RetryAlone DEF Is, Resumes, Idle, Resuming
    <2>2. CASE x \in Observers
        BY <1>3, <2>2, ResumeAlone, TasksDiffer DEF Is, Resumes, Idle
    <2> QED BY <2>1, <2>2 DEF Resumes
<1>4. CASE SubscribeFails(x)
    <2>1. /\ task[x].at \in Resuming /\ (Fails(x) \/ Drops(x)) /\ LoopAwoken
          /\ UNCHANGED <<conn, subs>>
        BY <1>4, SubscribeFailsOutcome
    <2> QED BY <1>3, <2>1, FailureTended
<1>5. CASE Dropped(x)
    <2>1. ResumeFails(x, task) /\ Is(x, "dropping") /\ task[x].at \in Resuming /\ UNCHANGED conn
        BY <1>1, <1>5 DEF Dropped, Is, Resuming
    <2>2. Fails(x) /\ task'[Loop] = task[Loop]
        BY <1>1, <2>1, ResumeFailsOutcome
    <2>3. \A y \in Resumes : ~Is(y, "subscribing")
        BY <1>3, <2>1 DEF Is, Idle
    <2>4. LoopAwoken
        BY <2>2 DEF LoopAwoken
    <2> QED BY <1>3, <2>1, <2>2, <2>3, <2>4, FailureTended
<1> QED BY <1>2, <1>4, <1>5 DEF TaskSteps

LEMMA RetryTended ==
    ASSUME TypeOK, OneCall, Calls, Tended, NEW r \in RetryTasks, RetryWakes(r) \/ RetryLocks(r)
    PROVE  Tended'
<1>1. RetryWakes(r) /\ flag.paused /\ flag.managed
    BY RetryAlone DEF RetryLocks, RetryWakes, Resuming, Is
<1>2. /\ task'[r] = Subscribing /\ \A x \in Tasks : x # r => task'[x] = task[x]
      /\ UNCHANGED <<conn, flag, subs>>
    BY <1>1, TypeParts, TasksDiffer DEF RetryWakes, client
<1>3. conn # "none"
    BY <1>1 DEF RetryWakes, Tended, ResumesTended, Retried, Is
<1>4. \A x \in Resumes : task'[x].at = "subscribing" => Ahead(x)'
    <2>1. Ahead(r)'
        BY <1>2 DEF Ahead, Subscribing
    <2> QED BY <1>2, <2>1, TasksDiffer DEF Resumes, Tended, ResumesTended, Ahead, Is
<1>5. ResumesTended'
    BY <1>2, <1>3, <1>4 DEF ResumesTended, Is
<1>6. LoopTended'
    BY <1>1, <1>2, <1>3, LoopRests, TasksDiffer DEF StillConnected, LoopAwoken
<1> QED BY <1>5, <1>6 DEF Tended

\* The supervisor acts: a resume has somebody at work at once, and a pause takes it back.
LEMMA SetTended ==
    ASSUME TypeOK, OneCall, Calls, Tended, NEW o \in Observers, o \in faults.observers, task[o].at \in Idle,
           NEW h \in BOOLEAN, NEW f \in {"no", "startup", "fatal"}, Set(o, h, f)
    PROVE  Tended'
<1>1. CallKeeps(o) /\ (Passed(o) \/ Restarts(o) \/ Pauses(o)) /\ UNCHANGED <<conn, subs>>
    BY SetOutcome DEF Set
<1>2. /\ task \in [Tasks -> Task] /\ o \in Tasks /\ o # Loop /\ Loop \in Tasks
      /\ \A y \in Resumes : y \in Tasks /\ y # Loop
    BY TypeParts, TasksDiffer DEF Resumes
<1>3. \A p \in Observers : p # o => Is(p, "off")
    BY Alone
<1>4. Goes(o, "off") => /\ task'[o].at = "off" /\ \A x \in Tasks : x # o => task'[x] = task[x]
    BY <1>2, Goings DEF Steps
<1>5. StillConnected /\ SubsGrow /\ (GaveUp => GaveUp')
    BY <1>1 DEF StillConnected, SubsGrow, GaveUp, CallKeeps
<1>6. ~Resumed
    BY <1>3 DEF Resumed, Resuming, Idle, Is
<1>7. CASE Goes(o, "off") /\ flag'.managed = flag.managed /\ (flag'.paused = flag.paused \/ ~flag.managed)
    <2>1. ResumesRest
        BY <1>2, <1>4, <1>7 DEF ResumesRest, Idle, Resuming
    <2>2. ResumesTended'
        BY <1>5, <2>1, ResumesKept DEF Tended
    <2>3. task'[Loop] = task[Loop]
        BY <1>2, <1>4, <1>7
    <2>4. LoopTended'
        BY <1>1, <1>5, <1>6, <1>7, <2>3 DEF Tended, LoopTended, Subscribed, Ahead, Is, SubsGrow, GaveUp
    <2> QED BY <2>2, <2>4 DEF Tended
<1>8. CASE Passed(o)
    BY <1>7, <1>8 DEF Passed
<1>9. CASE Restarts(o)
    <2>1. ~flag'.paused /\ flag'.managed = flag.managed /\ \A r \in RetryTasks : task'[r].at = "off"
        BY <1>1, <1>9 DEF Restarts, CallKeeps
    <2>2. CASE (~flag.paused \/ ~flag.managed) /\ Goes(o, "off")
        <3>1. flag.paused \in BOOLEAN /\ flag'.paused \in BOOLEAN
            BY <1>1, TypeParts, SetTypes DEF CallType, SameRetries, Flag
        <3> QED BY <1>7, <2>1, <2>2, <3>1
    <2>3. CASE /\ flag.managed /\ conn = "none"
               /\ task'[o] = At("off") /\ task'[Loop].at # "off" /\ task'[Loop].at \in {task[Loop].at, "connecting"}
        <3>1. \A x \in Resumes : task'[x].at = "off"
            BY <1>1, <2>1, <2>3 DEF CallKeeps, Resumes, At
        <3>2. ResumesTended'
            BY <3>1 DEF ResumesTended, Retried, Resuming, Is, Resumes
        <3>3. task'[Loop].at \notin Resuming
            BY <2>3 DEF Tended, LoopTended, Resuming
        <3>4. LoopTended'
            BY <2>1, <2>3, <3>3 DEF LoopTended, Is, Resuming
        <3> QED BY <3>2, <3>4 DEF Tended
    <2>4. CASE flag.managed /\ conn # "none" /\ task' = [task EXCEPT ![o] = Subscribing]
        <3>1. task'[o].at = "subscribing" /\ task'[o].todo = Topics /\ task'[Loop] = task[Loop]
            BY <1>2, <2>4 DEF Subscribing
        <3>2. \A x \in Resumes : x # o => task'[x].at = "off"
            BY <1>1, <2>1 DEF CallKeeps, Resumes
        <3>3. ResumesTended'
            BY <1>1, <2>4, <3>1, <3>2 DEF ResumesTended, Ahead, Is
        <3>4. Resumed'
            BY <3>1 DEF Resumed, Resuming
        <3>5. LoopTended'
            BY <1>1, <2>1, <2>4, <3>1, <3>4 DEF LoopTended, Tended, Is
        <3> QED BY <3>3, <3>5 DEF Tended
    <2> QED BY <1>9, <2>2, <2>3, <2>4 DEF Restarts
<1>10. CASE Pauses(o)
    <2>1. \A x \in Resumes : task'[x].at \in {"off", "cancelled", "draining"}
        BY <1>1, <1>10 DEF Pauses, CallKeeps, Resumes
    <2>2. ResumesTended'
        BY <2>1, <1>10 DEF ResumesTended, Retried, Resuming, Is, Resumes, Pauses
    <2>3. LoopTended'
        BY <1>1, <1>5, <1>10, LoopRests DEF Pauses, CallKeeps, LoopAwoken
    <2> QED BY <2>2, <2>3 DEF Tended
<1> QED BY <1>1, <1>8, <1>9, <1>10

LEMMA ObserverTended ==
    ASSUME TypeOK, OneCall, Calls, Tended, NEW o \in Observers, ObserverSteps(o), ~TaskSteps(o),
           ~flag.closing, Spared
    PROVE  Tended'
<1>1. /\ flag \in Flag /\ task \in [Tasks -> Task] /\ faults \in Faults /\ sup \in Supervisor
      /\ o \in Tasks /\ o # Loop /\ Loop \in Tasks /\ o \in Resumes
      /\ \A y \in Resumes : y \in Tasks /\ y # Loop
    BY TypeParts, TasksDiffer DEF Resumes
<1>2. \A step \in Steps : Goes(o, step) => task'[o].at = step /\ \A x \in Tasks : x # o => task'[x] = task[x]
    BY <1>1, Goings
<1>3. CASE Poll(o)
    <2> DEFINE away == conn \in {"none", "dead"} /\ flag.managed /\ ~flag.closing
               tk   == IF away THEN LoopStarted(task) ELSE task
    <2>1. /\ tk \in [Tasks -> Task] /\ \A x \in Tasks : x # Loop => tk[x] = task[x]
          /\ tk[Loop] = task[Loop] \/ (flag.managed /\ tk[Loop].at = "connecting")
        BY <1>1, Started DEF At
    <2>2. \E at \in {"healthy", "unhealthy"} : task' = [tk EXCEPT ![o] = At(at)]
        BY <1>3 DEF Poll
    <2> HIDE DEF tk
    <2>3. task'[o].at \in {"healthy", "unhealthy"} /\ \A x \in Tasks : x # o => task'[x] = tk[x]
        BY <1>1, <2>1, <2>2 DEF At
    <2>4. /\ UNCHANGED <<flag, subs>> /\ Is(o, "off") /\ StillConnected
        BY <1>3 DEF Poll, Observes, StillConnected
    <2>5. ResumesRest /\ SubsGrow /\ (GaveUp => GaveUp')
        BY <1>1, <2>1, <2>3, <2>4 DEF ResumesRest, Is, Resuming, SubsGrow, GaveUp
    <2>6. ResumesTended' /\ (Resumed' <=> Resumed)
        BY <2>4, <2>5, ResumesKept DEF Tended
    <2>7. LoopTended'
        <3>1. task'[Loop] = task[Loop] \/ (flag.managed /\ task'[Loop].at = "connecting")
            BY <1>1, <2>1, <2>3
        <3>2. flag'.paused \/ (~flag.paused /\ SubsGrow /\ (Resumed => Resumed') /\ (GaveUp => GaveUp'))
            BY <2>4, <2>5, <2>6
        <3> QED BY <2>4, <3>1, <3>2, LoopKept DEF Tended
    <2> QED BY <2>6, <2>7 DEF Tended
<1>4. CASE MarkDownAtStartup(o)
    <2>1. Set(o, FALSE, "startup") /\ o \in faults.observers /\ task[o].at \in Idle
        BY <1>4 DEF MarkDownAtStartup, Observes, Is, Idle
    <2> QED BY <2>1, SetTended
<1>5. CASE MarkDownFatal(o)
    BY <1>5 DEF MarkDownFatal, Spared
<1>6. CASE Act(o)
    <2>1. /\ Set(o, Is(o, "healthy") /\ sup.forced = "no", sup.forced)
          /\ task[o].at \in Idle /\ ~Is(o, "off")
        BY <1>6 DEF Act, Is, Idle
    <2>2. o \in faults.observers /\ sup.forced \in {"no", "startup", "fatal"}
        BY <1>1, <2>1, Alone DEF Supervisor
    <2> QED BY <2>1, <2>2, SetTended
<1>7. CASE PauseAfterCancel(o)
    <2>1. Is(o, "cancelled") /\ PauseBody(o) /\ UNCHANGED <<conn, subs>>
        BY <1>7 DEF PauseAfterCancel
    <2>2. o \in faults.observers /\ lock = NoOne
        BY <2>1, Alone, LockFree DEF Is
    <2>3. /\ flag'.paused /\ flag'.managed = flag.managed /\ \A x \in Tasks : x # o => task'[x] = task[x]
          /\ task'[o].at \in {"off", "draining"}
        BY <2>1, <2>2, PauseBodyOutcome
    <2>4. ResumesRest /\ SubsGrow /\ StillConnected
        BY <1>1, <2>1, <2>3 DEF ResumesRest, Is, Resuming, SubsGrow, StillConnected
    <2>5. ResumesTended'
        BY <2>4, ResumesKept DEF Tended
    <2>6. LoopTended'
        BY <1>1, <2>3, <2>4, LoopRests DEF LoopAwoken
    <2> QED BY <2>5, <2>6 DEF Tended
<1>8. CASE PauseLocks(o) \/ ResumeLocks(o)
    BY <1>8 DEF PauseLocks, ResumeLocks, Calls, Is, Idle, Pausing, Resuming
<1>9. CASE Drained(o)
    <2>1. Is(o, "draining") /\ UNCHANGED <<conn, flag>>
        BY <1>9 DEF Drained
    <2>2. task'[o].at = "settling" /\ \A x \in Tasks : x # o => task'[x] = task[x]
        BY <1>2, <1>9 DEF Drained, Steps
    <2>3. flag.paused /\ ~Retried /\ \A p \in Observers : p # o => Is(p, "off")
        BY <2>1, Alone DEF Calls, Is, Pausing
    <2>4. \A x \in Resumes : ~Is(x, "subscribing")
        BY <2>1, <2>3 DEF Resumes, Retried, Is
    <2>5. ResumesRest /\ StillConnected
        BY <1>1, <2>1, <2>2 DEF ResumesRest, Is, Resuming, StillConnected
    <2>6. ResumesTended'
        BY <2>4, <2>5, ResumesKept DEF Tended
    <2>7. LoopTended'
        BY <1>1, <2>1, <2>2, <2>3, <2>5, LoopRests DEF LoopAwoken
    <2> QED BY <2>6, <2>7 DEF Tended
<1>10. CASE PauseEnds(o)
    <2>1. Is(o, "settling") /\ UNCHANGED <<conn, flag, subs>>
        BY <1>10 DEF PauseEnds
    <2>2. task'[o].at = "off" /\ \A x \in Tasks : x # o => task'[x] = task[x]
        BY <1>2, <1>10 DEF PauseEnds, Steps
    <2>3. ResumesRest /\ SubsGrow /\ StillConnected /\ (GaveUp => GaveUp')
        BY <1>1, <2>1, <2>2 DEF ResumesRest, Is, Resuming, SubsGrow, StillConnected, GaveUp
    <2>4. ResumesTended' /\ (Resumed' <=> Resumed)
        BY <2>3, ResumesKept DEF Tended
    <2>5. LoopTended'
        <3>1. flag'.paused \/ (~flag.paused /\ SubsGrow /\ (Resumed => Resumed') /\ (GaveUp => GaveUp'))
            BY <2>1, <2>3, <2>4
        <3> QED BY <1>1, <2>1, <2>2, <2>3, <3>1, LoopKept DEF Tended
    <2> QED BY <2>4, <2>5 DEF Tended
<1> QED BY <1>3, <1>4, <1>5, <1>6, <1>7, <1>8, <1>9, <1>10 DEF ObserverSteps, CallSteps

\* A final error is never forgotten.
LEMMA FatalRemains ==
    ASSUME TypeOK, [Next]_vars, fatal # "none"
    PROVE  fatal' # "none"
<1>1. Reported # "none"
    BY DEF Reported
<1>2. CASE BrokerSteps \/ ProcessSteps
    BY <1>1, <1>2 DEF BrokerSteps, ProcessSteps, Disconnect, Reconnect, Rechecked, Die,
            CheckFails, CheckPasses, Subscribe, Release, Close, Closed, client
<1>3. CASE LoopSteps
    BY <1>1, <1>3 DEF LoopSteps, LoopConnect, LoopConnectFails, LoopRefused, LoopWakes, LoopFatal, client
<1>4. ASSUME NEW x \in Tasks, TaskSteps(x) PROVE fatal' # "none"
    BY <1>1, <1>4 DEF TaskSteps, SubscribeTopic, SubscribeFails, Dropped, ResumeFails
<1>5. ASSUME NEW r \in RetryTasks, RetryWakes(r) \/ RetryLocks(r) PROVE fatal' # "none"
    BY <1>5 DEF RetryWakes, RetryLocks, client
<1>6. ASSUME NEW o \in Observers, ObserverSteps(o), ~TaskSteps(o) PROVE fatal' # "none"
    BY <1>6 DEF ObserverSteps, CallSteps, Poll, Act, MarkDownAtStartup, MarkDownFatal, PauseAfterCancel,
            PauseLocks, ResumeLocks, Drained, PauseEnds, client
<1>7. CASE UNCHANGED vars
    BY <1>7 DEF vars, client
<1> QED BY <1>2, <1>3, <1>4, <1>5, <1>6, <1>7, TasksDiffer DEF Next, RetrySteps, ObserverSteps, CallSteps

LEMMA TendedInvInit == Init => TendedInv
<1> SUFFICES ASSUME Init PROVE TendedInv
    OBVIOUS
<1>1. \A x \in Tasks : Is(x, "off")
    BY DEF Init, Is, At
<1>2. ~flag.managed
    BY DEF Init
<1>3. Tended
    BY <1>1, <1>2, TasksDiffer DEF Tended, ResumesTended, LoopTended, Retried, Resumes, Resuming, Is
<1> QED BY <1>3, CallsInvInit DEF TendedInv

LEMMA TendedInvNext == TendedInv /\ [Next]_vars => TendedInv'
<1> SUFFICES ASSUME TendedInv, [Next]_vars PROVE TendedInv'
    OBVIOUS
<1>1. CallsInv /\ CallsInv' /\ TypeOK
    BY CallsInvNext DEF TendedInv, CallsInv
<1>2. ASSUME ~flag'.closing, OneCall', Spared' PROVE Tended'
    <2>1. ~flag.closing /\ OneCall /\ Spared /\ Calls /\ Tended /\ closer = "no"
        BY <1>1, <1>2, NeverReopened, FatalRemains DEF TendedInv, CallsInv, Spared
    <2>2. CASE UNCHANGED vars
        BY <2>1, <2>2 DEF vars, client, Tended, ResumesTended, LoopTended, Retried, Resumed, Subscribed, Ahead, GaveUp, Is
    <2>3. CASE BrokerSteps \/ ProcessSteps
        BY <1>1, <1>2, <2>1, <2>3, OutsideTended
    <2>4. CASE LoopSteps \/ TaskSteps(Loop)
        BY <1>1, <1>2, <2>1, <2>4, LoopStepsTended
    <2>5. CASE \E r \in RetryTasks : RetrySteps(r)
        BY <1>1, <2>1, <2>5, RetryTended, TaskTended DEF RetrySteps, Resumes
    <2>6. CASE \E o \in Observers : ObserverSteps(o)
        BY <1>1, <2>1, <2>6, ObserverTended, TaskTended DEF Resumes
    <2> QED BY <2>2, <2>3, <2>4, <2>5, <2>6 DEF Next
<1> QED BY <1>1, <1>2 DEF TendedInv

\* With one call at a time, an agent that is recorded as up is never left without its
\* subscriptions with nobody to come back to it (resume_consumption, "nothing would ever
\* call this again"): the only ways are the loop's drop, which wipes what a resume has
\* subscribed, and a final error.
THEOREM NobodyAbandoned == Spec => []NeverAbandoned
<1>1. TendedInv => NeverAbandoned
    <2> SUFFICES ASSUME TendedInv, Spared, OneCall, Quiet, flag.managed, ~flag.closing, ~GaveUp, sup.up
                 PROVE  Subscribed
        BY DEF NeverAbandoned, Subscribed
    <2>1. Calls /\ Tended
        BY DEF TendedInv, CallsInv
    <2>2. ~Retried /\ ~Resumed /\ Is(Loop, "off")
        BY TasksDiffer DEF Quiet, Retried, Resumed, Resuming, Is
    <2>3. ~flag.paused
        BY <2>1, <2>2 DEF Calls
    <2> QED BY <2>1, <2>2, <2>3 DEF Tended, LoopTended
<1> QED BY <1>1, TendedInvInit, TendedInvNext, PTL DEF Spec
=============================================================================
