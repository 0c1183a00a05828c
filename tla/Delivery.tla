------------------------------ MODULE Delivery ------------------------------
(***************************************************************************)
(* What becomes of an event that JetStream delivers: the buffer of a       *)
(* replica's subscription, the wait for a run slot, the run with its       *)
(* heartbeat, the deduplication marker the replicas share, the dead        *)
(* letter, and the settlement that tells the broker                        *)
(* (clients/io/nats_client.py from _message_handler on,                    *)
(* handler/handler_chain.py, services/eventing/event_processing_service.py)*)
(*                                                                         *)
(* Every replica has one subscription on the one consumer.  A delivery is  *)
(* an event and the number of the attempt.  The broker is external: it is  *)
(* modelled by what the code relies on, and where the code relies on       *)
(* nothing -- what a settlement of an earlier delivery does -- by both     *)
(* outcomes.                                                               *)
(***************************************************************************)
EXTENDS Naturals, Sequences, FiniteSets

CONSTANTS
    Events,
    Keyed,          \* those the agent deduplicates: idempotency_enabled, with an id and a source
    Replicas,
    NoReplica,
    Slots,          \* runs a replica may have at a time (RunPool)
    MaxDeliver,     \* the attempts the broker's consumer allows
    Configured,     \* nats_max_deliver, which an existing consumer need not have; 0: unset, or -1
    MaxAckPending,  \* nats_max_ack_pending
    Heartbeat,      \* nats_heartbeat_enabled
    Faults,         \* the kinds of faults that happen, each at most once
    MaxFaults       \* bound on how many of them happen

FaultKinds == {"pause", "deadline", "crash", "cancel", "cut", "cache", "lost", "silence"}

ASSUME Sets == Keyed \subseteq Events /\ NoReplica \notin Replicas /\ Faults \subseteq FaultKinds
ASSUME Numbers ==
    /\ Slots \in Nat \ {0} /\ MaxDeliver \in Nat \ {0} /\ MaxAckPending \in Nat \ {0}
    /\ Configured \in Nat /\ Heartbeat \in BOOLEAN /\ MaxFaults \in Nat

VARIABLES
    broker,   \* the consumer's view of each event
    sent,     \* how often it was delivered (num_delivered)
    sub,      \* each replica's subscription; anything but "open" means _consumption_paused
    buffer,   \* the deliveries waiting in it
    run,      \* where each delivery is, on which replica, with what verdict, whether it has reported
              \* in_progress, and whether it claimed the marker
    marker,   \* the events with a marker in the shared cache
    handled,  \* the events some handler has finished
    dead,     \* the events moved to the dead-letter subject, or counted as dropped
    faults    \* the kinds of faults that have happened

consumer == <<broker, sent>>
replica == <<sub, buffer>>
outcome == <<handled, dead>>
vars == <<consumer, replica, run, marker, outcome, faults>>

Deliveries == Events \X (1..MaxDeliver)
Stages == {"none", "buffered", "waiting", "claiming", "running", "releasing", "settling", "terming",
           "over", "killed"}
Verdicts == {"none", "ack", "nak", "term", "back"}

TypeOK ==
    /\ broker \in [Events -> {"ready", "out", "acked", "termed", "spent"}]
    /\ sent \in [Events -> 0..MaxDeliver]
    /\ sub \in [Replicas -> {"open", "pausing", "paused"}]
    /\ buffer \in [Replicas -> Seq(Deliveries)]
    /\ run \in [Deliveries -> [at : Stages, on : Replicas \cup {NoReplica}, verdict : Verdicts,
                               reported : BOOLEAN, claimed : BOOLEAN]]
    /\ \A r \in Replicas : \A i \in DOMAIN buffer[r] :
            run[buffer[r][i]].at = "buffered" /\ run[buffer[r][i]].on = r
    /\ marker \subseteq Keyed /\ handled \subseteq Events /\ dead \subseteq Events
    /\ faults \subseteq Faults

-----------------------------------------------------------------------------
(* Helpers.                                                                *)

Event(d) == d[1]
Attempt(d) == d[2]
Is(d, stage) == run[d].at = stage
Goes(d, stage) == run' = [run EXCEPT ![d].at = stage]
Decides(d, verdict) == run' = [run EXCEPT ![d].at = "settling", ![d].verdict = verdict]

\* A delivery that nobody holds: not made yet, settled, or lost with its process.
Idle(stage) == [at |-> stage, on |-> NoReplica, verdict |-> "none", reported |-> FALSE, claimed |-> FALSE]
Ends(d, stage) == run' = [run EXCEPT ![d] = Idle(stage)]

Fault(kind) ==
    /\ kind \in Faults \ faults /\ Cardinality(faults) < MaxFaults
    /\ faults' = faults \cup {kind}

\* The deliveries on a replica that are in one of these stages.
Held(r, stages) == {d \in Deliveries : run[d].on = r /\ run[d].at \in stages}

\* The runs that hold a slot of a replica, from _acquire_run to _run_finished.
RunStages == {"claiming", "running", "releasing", "settling", "terming"}
Runs(r) == {d \in Held(r, RunStages) : run[d].verdict # "back"}

\* The subscription's one task waits for a slot, or for a delivery it hands back.
Busy(r) == Held(r, {"waiting"}) # {} \/ \E d \in Held(r, RunStages) : run[d].verdict = "back"

\* _keep_alive lives from before the callback until the run has ended, and
\* reports for the first time when a third of ack_wait has passed.
KeptAlive(d) == Heartbeat /\ run[d].at \in {"claiming", "running", "releasing"}
Heartbeating(d) == KeptAlive(d) /\ run[d].reported

\* Mutant of Exhausted: counts from zero.
ExhaustedOffByOne(d) == Configured # 0 /\ Attempt(d) > Configured

\* _deliveries_exhausted: the agent expects no further attempt.
Exhausted(d) == Configured # 0 /\ Attempt(d) >= Configured

\* A delivery that is settled by a dead letter and a term.
GivenUp(d) == run[d].verdict = "term" \/ (run[d].verdict \in {"nak", "back"} /\ Exhausted(d))
-----------------------------------------------------------------------------
(* The broker.                                                             *)

Init ==
    /\ broker = [e \in Events |-> "ready"] /\ sent = [e \in Events |-> 0]
    /\ sub = [r \in Replicas |-> "open"] /\ buffer = [r \in Replicas |-> <<>>]
    /\ run = [d \in Deliveries |-> Idle("none")]
    /\ marker = {} /\ handled = {} /\ dead = {} /\ faults = {}

\* An event is delivered to some replica of the deliver group, within max_ack_pending.
Deliver(e, r) ==
    /\ broker[e] = "ready" /\ sent[e] < MaxDeliver
    /\ sub[r] # "paused"
    /\ Cardinality({x \in Events : broker[x] = "out"}) < MaxAckPending
    /\ broker' = [broker EXCEPT ![e] = "out"]
    /\ sent' = [sent EXCEPT ![e] = @ + 1]
    /\ LET d == <<e, sent[e] + 1>> IN
       /\ buffer' = [buffer EXCEPT ![r] = Append(@, d)]
       /\ run' = [run EXCEPT ![d].at = "buffered", ![d].on = r]
    /\ UNCHANGED <<sub, marker, outcome, faults>>

\* The broker has another attempt for the event, or none: then it stays undelivered.
Redelivers(e) == broker' = [broker EXCEPT ![e] = IF sent[e] < MaxDeliver THEN "ready" ELSE "spent"]

\* ack_wait runs out, heartbeats or not: nothing resets it while the delivery
\* waits in the buffer or for a slot, nor before its run's first report.
AckWait(e) ==
    /\ broker[e] = "out"
    /\ ~Heartbeating(<<e, sent[e]>>)
    /\ Redelivers(e)
    /\ UNCHANGED <<sent, replica, run, marker, outcome, faults>>

\* The heartbeats of a run do not arrive for as long as ack_wait.
Silence(e) ==
    /\ broker[e] = "out"
    /\ Heartbeating(<<e, sent[e]>>) /\ Fault("silence")
    /\ Redelivers(e)
    /\ UNCHANGED <<sent, replica, run, marker, outcome>>

\* What a settlement of d does to the event once it arrives.
Arrives(d) ==
    LET e == Event(d) IN
    CASE run[d].verdict = "ack" -> broker' = [broker EXCEPT ![e] = "acked"]
      [] GivenUp(d)             -> broker' = [broker EXCEPT ![e] = "termed"]
      [] OTHER                  -> Redelivers(e)

-----------------------------------------------------------------------------
(* The subscription of a replica.                                          *)

\* message_handler, for the next delivery in the buffer: while paused it is
\* handed back, else it waits for a slot.
Take(r) ==
    /\ buffer[r] # <<>> /\ ~Busy(r)
    /\ buffer' = [buffer EXCEPT ![r] = Tail(@)]
    /\ IF sub[r] = "open" THEN Goes(Head(buffer[r]), "waiting") ELSE Decides(Head(buffer[r]), "back")
    /\ UNCHANGED <<consumer, sub, marker, outcome, faults>>

\* pause_consumption: the flag first.
Pause(r) ==
    /\ sub[r] = "open" /\ Fault("pause")
    /\ sub' = [sub EXCEPT ![r] = "pausing"]
    /\ UNCHANGED <<consumer, buffer, run, marker, outcome>>

\* _drain_subscriptions: everything buffered has reached the handler.
Drained(r) ==
    /\ sub[r] = "pausing" /\ buffer[r] = <<>> /\ ~Busy(r)
    /\ sub' = [sub EXCEPT ![r] = "paused"]
    /\ UNCHANGED <<consumer, buffer, run, marker, outcome, faults>>

\* Mutant of DrainTimesOut: the buffer of the dropped subscription is read on.
DrainTimesOutKeepsBuffer(r) ==
    /\ sub[r] = "pausing" /\ Fault("deadline")
    /\ sub' = [sub EXCEPT ![r] = "paused"]
    /\ run' = [d \in Deliveries |-> IF d \in Held(r, {"buffered", "waiting"}) THEN Idle("killed") ELSE run[d]]
    /\ UNCHANGED <<consumer, buffer, marker, outcome>>

\* The drain outlives its deadline: what the subscription still has is dropped with it.
DrainTimesOut(r) ==
    /\ sub[r] = "pausing" /\ Fault("deadline")
    /\ sub' = [sub EXCEPT ![r] = "paused"]
    /\ buffer' = [buffer EXCEPT ![r] = <<>>]
    /\ run' = [d \in Deliveries |-> IF d \in Held(r, {"buffered", "waiting"}) THEN Idle("killed") ELSE run[d]]
    /\ UNCHANGED <<consumer, marker, outcome>>

\* A resume has subscribed again.
Resume(r) ==
    /\ sub[r] = "paused"
    /\ sub' = [sub EXCEPT ![r] = "open"]
    /\ UNCHANGED <<consumer, buffer, run, marker, outcome, faults>>

\* The process dies with all it holds, and starts again.
Crash(r) ==
    /\ Fault("crash")
    /\ sub' = [sub EXCEPT ![r] = "open"]
    /\ buffer' = [buffer EXCEPT ![r] = <<>>]
    /\ run' = [d \in Deliveries |-> IF run[d].on = r THEN Idle("killed") ELSE run[d]]
    /\ UNCHANGED <<consumer, marker, outcome>>

-----------------------------------------------------------------------------
(* A run.                                                                  *)

HasSlot(d) == Is(d, "waiting") /\ Cardinality(Runs(run[d].on)) < Slots

\* A slot is free and the run starts: first the marker is claimed, if the event has one.
Start(d) ==
    /\ HasSlot(d)
    /\ Goes(d, IF Event(d) \in Keyed THEN "claiming" ELSE "running")
    /\ UNCHANGED <<consumer, replica, marker, outcome, faults>>

\* The run starts and ends before its heartbeat and its claim: the payload does
\* not parse, or the connection's source rejects it, or fails to say.
Refuse(d) ==
    /\ HasSlot(d)
    /\ \E verdict \in {"term", "nak"} : Decides(d, verdict)
    /\ UNCHANGED <<consumer, replica, marker, outcome, faults>>

\* in_progress for the first time: ack_wait starts anew, and again with each that follows.
Report(d) ==
    /\ KeptAlive(d) /\ ~run[d].reported
    /\ run' = [run EXCEPT ![d].reported = TRUE]
    /\ UNCHANGED <<consumer, replica, marker, outcome, faults>>

\* _claim, atomic in the cache.
Claim(d) ==
    /\ Is(d, "claiming") /\ Event(d) \notin marker
    /\ marker' = marker \cup {Event(d)}
    /\ run' = [run EXCEPT ![d].at = "running", ![d].claimed = TRUE]
    /\ UNCHANGED <<consumer, replica, outcome, faults>>

\* Mutant of Duplicate: the duplicate releases the marker, too.
DuplicateReleases(d) ==
    /\ Is(d, "claiming") /\ Event(d) \in marker
    /\ Decides(d, "ack")
    /\ marker' = marker \ {Event(d)}
    /\ UNCHANGED <<consumer, replica, outcome, faults>>

\* The marker is there: the event is skipped as a duplicate, and acknowledged.
Duplicate(d) ==
    /\ Is(d, "claiming") /\ Event(d) \in marker
    /\ Decides(d, "ack")
    /\ UNCHANGED <<consumer, replica, marker, outcome, faults>>

\* The cache cannot be reached: the claim fails open, and counts as won.
ClaimFailsOpen(d) ==
    /\ Is(d, "claiming") /\ Fault("cache")
    /\ run' = [run EXCEPT ![d].at = "running", ![d].claimed = TRUE]
    /\ UNCHANGED <<consumer, replica, marker, outcome>>

\* The run is cancelled while the cache's thread claims: the claim is made, and
\* the run does not know.  A timeout naks it, a shutdown leaves it.
ClaimCut(d) ==
    /\ Is(d, "claiming") /\ Fault("cut")
    /\ marker' = marker \cup {Event(d)}
    /\ Decides(d, "nak") \/ Ends(d, "killed")
    /\ UNCHANGED <<consumer, replica, outcome>>

\* The handler returned, and its results are published: the marker stays.
Return(d) ==
    /\ Is(d, "running")
    /\ handled' = handled \cup {Event(d)}
    /\ Decides(d, "ack")
    /\ UNCHANGED <<consumer, replica, marker, dead, faults>>

\* Mutant of Fail: the disposition keeps its initial value.
FailAcknowledges(d) ==
    /\ Is(d, "running")
    /\ \E verdict \in {"ack", "term"} :
        run' = [run EXCEPT ![d].at = IF run[d].claimed THEN "releasing" ELSE "settling", ![d].verdict = verdict]
    /\ UNCHANGED <<consumer, replica, marker, outcome, faults>>

\* Mutant of Fail: the marker is released by some other exits only.
FailKeepsMarker(d) ==
    /\ Is(d, "running")
    /\ \E verdict \in {"nak", "term"} :
        run' = [run EXCEPT ![d].at = IF run[d].claimed /\ verdict = "nak" THEN "releasing" ELSE "settling",
                           ![d].verdict = verdict]
    /\ UNCHANGED <<consumer, replica, marker, outcome, faults>>

\* The run failed, or reached nats_handler_timeout: the marker is released first.
Fail(d) ==
    /\ Is(d, "running")
    /\ \E verdict \in {"nak", "term"} :
        run' = [run EXCEPT ![d].at = IF run[d].claimed THEN "releasing" ELSE "settling", ![d].verdict = verdict]
    /\ UNCHANGED <<consumer, replica, marker, outcome, faults>>

\* A shutdown past its deadline cancels the run: it is not settled.
Cancel(d) ==
    /\ Is(d, "running") /\ Fault("cancel")
    /\ IF run[d].claimed THEN Goes(d, "releasing") ELSE Ends(d, "killed")
    /\ UNCHANGED <<consumer, replica, marker, outcome>>

\* release(): the marker of the event is deleted -- or not, if the cache cannot be reached.
Release(d) ==
    /\ Is(d, "releasing")
    /\ IF run[d].verdict = "none"
       THEN Ends(d, "killed")
       ELSE run' = [run EXCEPT ![d].at = "settling", ![d].claimed = FALSE]
    /\ \/ marker' = marker \ {Event(d)} /\ UNCHANGED faults
       \/ UNCHANGED marker /\ Fault("cache")
    /\ UNCHANGED <<consumer, replica, outcome>>

\* _dead_letter: the payload goes to the dead-letter subject, or is counted as dropped.
DeadLetter(d) ==
    /\ Is(d, "settling") /\ GivenUp(d)
    /\ dead' = dead \cup {Event(d)}
    /\ Goes(d, "terming")
    /\ UNCHANGED <<consumer, replica, marker, handled, faults>>

\* _settle: ack, nak or term, which may not arrive.  What one for an earlier
\* delivery does is up to the broker.
Settle(d) ==
    /\ Is(d, "terming") \/ (Is(d, "settling") /\ ~GivenUp(d))
    /\ Ends(d, "over")
    /\ LET e == Event(d)
           open == broker[e] \in {"ready", "out"}
           latest == broker[e] = "out" /\ Attempt(d) = sent[e] IN
       \/ open /\ Arrives(d) /\ UNCHANGED faults
       \/ ~latest /\ UNCHANGED <<broker, faults>>
       \/ Fault("lost") /\ UNCHANGED broker
    /\ UNCHANGED <<sent, replica, marker, outcome>>

-----------------------------------------------------------------------------
(* The specification.                                                      *)

BrokerSteps(e) == AckWait(e) \/ Silence(e) \/ \E r \in Replicas : Deliver(e, r)
SubscriptionSteps(r) == Take(r) \/ Pause(r) \/ Drained(r) \/ DrainTimesOut(r) \/ Resume(r) \/ Crash(r)
RunSteps(d) ==
    \/ Start(d) \/ Refuse(d) \/ Report(d) \/ Claim(d) \/ Duplicate(d) \/ ClaimFailsOpen(d) \/ ClaimCut(d)
    \/ Return(d) \/ Fail(d) \/ Cancel(d) \/ Release(d) \/ DeadLetter(d) \/ Settle(d)

Next ==
    \/ \E e \in Events : BrokerSteps(e)
    \/ \E r \in Replicas : SubscriptionSteps(r)
    \/ \E d \in Deliveries : RunSteps(d)

Spec == Init /\ [][Next]_vars

\* The event loop runs its tasks, handlers return, the broker delivers what it
\* has and ack_wait runs out, and a paused replica is resumed in the end.
Fairness ==
    /\ \A e \in Events : WF_vars(\E r \in Replicas : Deliver(e, r)) /\ WF_vars(AckWait(e))
    /\ \A r \in Replicas : WF_vars(Take(r)) /\ WF_vars(Drained(r)) /\ WF_vars(Resume(r))
    /\ \A d \in Deliveries : WF_vars(RunSteps(d))

FairSpec == Spec /\ Fairness

-----------------------------------------------------------------------------
(* Properties.                                                             *)

Unkeyed == Events \ Keyed
Accounted == handled \cup dead

\* Without deduplication, delivery is at least once: the consumer lets go of an
\* event only if a handler finished it, or it was rejected on the record, or
\* all its attempts were made; and it never just keeps it (_settle).
Promise == INSTANCE AtLeastOnce WITH
    Events <- Unkeyed, MaxTries <- MaxDeliver,
    kept <- {e \in Unkeyed : broker[e] \in {"ready", "out"}},
    accounted <- Accounted \cap Unkeyed,
    tries <- [e \in Unkeyed |-> sent[e]]
ImplementsAtLeastOnce == Promise!Spec

\* The last attempt of an event was in the hands of a process that died or
\* was shut down, or in a subscription that was dropped.
LastAttemptKilled(e) == Is(<<e, MaxDeliver>>, "killed")

\* Without deduplication every event is handled or rejected in the end, unless
\* its last attempt was killed: no other fault loses one without a trace
\* (_dead_letter), as long as the consumer allows the attempts the agent counts to.
EveryEventAccounted ==
    Configured \in 1..MaxDeliver => \A e \in Unkeyed : <>(e \in Accounted \/ LastAttemptKilled(e))

\* Of a deduplicated event no two runs are under way at a time, and none after
\* one has finished, as long as the cache answers (HandlerChain, "two replicas
\* handed the same event at the same instant cannot both win it").
RunsOnce ==
    "cache" \notin faults =>
        \A d, x \in Deliveries :
            Event(d) = Event(x) /\ Event(d) \in Keyed /\ Is(d, "running") =>
                Event(d) \notin handled /\ (Is(x, "running") => x = d)

\* The run that claimed an event's marker is still under way.
OwnerAlive(e) == \E d \in Deliveries : Event(d) = e /\ run[d].claimed /\ run[d].at \in {"running", "releasing"}

\* A marker outlives its run only if the event was handled: "kept only by a
\* delivery that is settled as a success" -- but for a process that dies, a
\* cache that fails and a claim that is cut off.
MarkersReleased ==
    faults \cap {"crash", "cache", "cut"} = {} =>
        \A e \in marker : e \in handled \/ OwnerAlive(e)

\* No event leaves the consumer acknowledged although nobody handled or
\* rejected it, or still may (dedup_redelivery_warning: with the heartbeat on,
\* deduplication loses no event).
NothingLost ==
    \A e \in Events :
        broker[e] = "acked" =>
            \/ e \in Accounted
            \/ \E d \in Deliveries : Event(d) = e /\ run[d].at \notin {"none", "over", "killed"}
=============================================================================
