-------------------------------- MODULE Ticks --------------------------------
(***************************************************************************)
(* The schedulers of several replicas in in_process mode (scheduler.py):   *)
(* each replica has a timer of its own on a clock of its own, and every    *)
(* tick is claimed under the minute it was scheduled for in a cache all    *)
(* replicas share, so that one of them runs it.                            *)
(* Time is counted in units; MinuteUnits of them make the minute a slot is *)
(* named after, and the crontab fires on every minute.                     *)
(***************************************************************************)
EXTENDS Integers, FiniteSets

CONSTANTS
    Replicas,
    MinuteUnits,   \* units in a minute
    Grace,         \* apscheduler's misfire grace: a run later than this is dropped
    MaxWait,       \* how long a claim may take to be answered
    MaxSkew,       \* how far the clocks of two replicas may be apart
    MaxTime,       \* bound: the latest time modelled
    MaxFaults      \* bound: crashes, and claims the cache does not answer

Parameters == MinuteUnits \in Nat \ {0} /\ {Grace, MaxWait, MaxSkew, MaxTime, MaxFaults} \subseteq Nat

NotArmed == -1

VARIABLES
    now,      \* the cache's time
    skew,     \* [Replicas -> 0..MaxSkew]: how far a replica's clock is ahead
    cursor,   \* _fire_cursor of each replica; NotArmed before on_startup
    timer,    \* the fire time its timer waits for next
    job,      \* [Replicas -> {"none", "claiming", "running"}]: the timer's one instance
    slot,     \* the slot that instance has derived
    expiry,   \* [slots -> the time its claim is forgotten; 0 when there is none]
    runs,     \* how often each slot has been run (history)
    open,     \* the slots for which a claim failed open (history)
    faults

vars == <<now, skew, cursor, timer, job, slot, expiry, runs, open, faults>>

FireTimes == {t \in 0..MaxTime + MaxSkew : t % MinuteUnits = 0}
Local(r) == now + skew[r]

(* The minute a clock shows. *)
MinuteOf(t) == t - (t % MinuteUnits)

(* get_next_fire_time: the first one at or after t, and the first one after t. *)
FireFrom(t) == MinuteOf(t + MinuteUnits - 1)
FireAfter(t) == MinuteOf(t) + MinuteUnits

TypeOK ==
    /\ now \in 0..MaxTime /\ skew \in [Replicas -> 0..MaxSkew]
    /\ cursor \in [Replicas -> Int] /\ timer \in [Replicas -> Int]
    /\ job \in [Replicas -> {"none", "claiming", "running"}]
    /\ slot \in [Replicas -> FireTimes \union {NotArmed}]
    /\ expiry \in [FireTimes -> Nat] /\ runs \in [FireTimes -> Nat]
    /\ open \subseteq FireTimes
    /\ faults \in 0..MaxFaults

Init ==
    /\ now = 0 /\ skew \in [Replicas -> 0..MaxSkew]
    /\ cursor = [r \in Replicas |-> NotArmed] /\ timer = [r \in Replicas |-> NotArmed]
    /\ job = [r \in Replicas |-> "none"] /\ slot = [r \in Replicas |-> NotArmed]
    /\ expiry = [s \in FireTimes |-> 0] /\ runs = [s \in FireTimes |-> 0]
    /\ open = {} /\ faults = 0

(* A claim that took longer than its own lifetime would be granted twice:   *)
(* nothing in the code prevents that but the time a claim really takes.     *)
Elapses ==
    /\ now < MaxTime
    /\ \A r \in Replicas : job[r] = "claiming" => Local(r) < slot[r] + Grace + MaxWait
    /\ now' = now + 1
    /\ UNCHANGED <<skew, cursor, timer, job, slot, expiry, runs, open, faults>>

-----------------------------------------------------------------------------
(* on_startup: the trigger is armed, then the timer is started. *)
Starts(r) ==
    /\ timer[r] = NotArmed
    /\ cursor' = [cursor EXCEPT ![r] = FireFrom(Local(r))]
    /\ timer' = [timer EXCEPT ![r] = FireFrom(Local(r))]
    /\ UNCHANGED <<now, skew, job, slot, expiry, runs, open, faults>>

(* _tick_slot: the latest fire time the cursor reaches, walking over the    *)
(* fire times that passed without a run; the clock before the first one.    *)
TickSlot(r) ==
    IF cursor[r] > Local(r) THEN MinuteOf(Local(r))
    ELSE CHOOSE f \in FireTimes :
            /\ cursor[r] <= f /\ f <= Local(r)
            /\ \A g \in FireTimes : g <= Local(r) => g <= f

(* The timer fires: a run that is too late, or whose predecessor still runs *)
(* (max_instances is one), is dropped; any other derives its slot.          *)
Fires(r) ==
    /\ timer[r] # NotArmed /\ timer[r] <= Local(r)
    /\ timer' = [timer EXCEPT ![r] = FireAfter(@)]
    /\ IF job[r] = "none" /\ Local(r) - timer[r] <= Grace
       THEN /\ job' = [job EXCEPT ![r] = "claiming"]
            /\ slot' = [slot EXCEPT ![r] = TickSlot(r)]
            /\ cursor' = [cursor EXCEPT ![r] = IF @ > Local(r) THEN @ ELSE TickSlot(r)]
       ELSE UNCHANGED <<job, slot, cursor>>
    /\ UNCHANGED <<now, skew, expiry, runs, open, faults>>

-----------------------------------------------------------------------------
\* Mutant of ClaimTtl: the clocks are taken to agree.
TtlOfTheGrace == Grace + MaxWait + 1

(* A claim outlasts the spread of the replicas that fire for one slot: the  *)
(* skew of their clocks, the lateness of their runs and of their claims.    *)
ClaimTtl == MaxSkew + Grace + MaxWait + 1

(* claim, on a cache that sets a key if it is absent: one step. *)
Held(s) == expiry[s] > now

Wins(r) ==
    /\ expiry' = [expiry EXCEPT ![slot[r]] = now + ClaimTtl]
    /\ runs' = [runs EXCEPT ![slot[r]] = @ + 1]
    /\ job' = [job EXCEPT ![r] = "running"]
    /\ UNCHANGED slot

Loses(r) ==
    /\ job' = [job EXCEPT ![r] = "none"]
    /\ slot' = [slot EXCEPT ![r] = NotArmed]
    /\ UNCHANGED <<expiry, runs>>

Claims(r) ==
    /\ job[r] = "claiming"
    /\ IF Held(slot[r]) THEN Loses(r) ELSE Wins(r)
    /\ UNCHANGED <<now, skew, cursor, timer, open, faults>>

(* The cache cannot be reached, and the claim fails open. *)
ClaimFails(r) ==
    /\ job[r] = "claiming" /\ faults < MaxFaults
    /\ faults' = faults + 1
    /\ open' = open \union {slot[r]}
    /\ runs' = [runs EXCEPT ![slot[r]] = @ + 1]
    /\ job' = [job EXCEPT ![r] = "running"]
    /\ UNCHANGED <<now, skew, cursor, timer, slot, expiry>>

TickEnds(r) ==
    /\ job[r] = "running"
    /\ job' = [job EXCEPT ![r] = "none"]
    /\ slot' = [slot EXCEPT ![r] = NotArmed]
    /\ UNCHANGED <<now, skew, cursor, timer, expiry, runs, open, faults>>

(* The process dies, with its timer and its tick; Starts is its restart. *)
Crashes(r) ==
    /\ timer[r] # NotArmed /\ faults < MaxFaults
    /\ faults' = faults + 1
    /\ cursor' = [cursor EXCEPT ![r] = NotArmed]
    /\ timer' = [timer EXCEPT ![r] = NotArmed]
    /\ job' = [job EXCEPT ![r] = "none"]
    /\ slot' = [slot EXCEPT ![r] = NotArmed]
    /\ UNCHANGED <<now, skew, expiry, runs, open>>

Next ==
    \/ Elapses
    \/ \E r \in Replicas : Starts(r) \/ Fires(r) \/ Claims(r) \/ ClaimFails(r) \/ TickEnds(r) \/ Crashes(r)

Spec == Init /\ [][Next]_vars

-----------------------------------------------------------------------------
(* A scheduled time is run by one replica, whoever's clock is ahead, unless *)
(* the cache could not be asked: then every replica may run it.             *)
RunOncePerSlot == \A s \in FireTimes : runs[s] <= 1 \/ s \in open
=============================================================================
