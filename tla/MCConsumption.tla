---------------------------- MODULE MCConsumption ----------------------------
(* Consumption on small instances: the properties and the runs' initial states. *)
EXTENDS Consumption

CONSTANTS t1, t2, o1, o2, r1, r2, loop, none, unlimited

\* The instances differ in their settings, in the faults that happen, and in
\* whether two calls may overlap.
Faulty(kinds, observers) == faults = [count |-> 0, kinds |-> kinds, observers |-> observers, wiped |-> FALSE]

\* The process starts, with Core NATS or JetStream.
Starting(jetstream, retries) ==
    /\ Init
    /\ flag.jetstream = jetstream /\ flag.retries = retries

\* The agent has been started and consumes: where most of its life begins.
Established(js) ==
    /\ conn = "up"
    /\ flag = [managed |-> TRUE, paused |-> FALSE, ready |-> TRUE, closing |-> FALSE,
               orphaned |-> FALSE, refused |-> FALSE, jetstream |-> js, retries |-> unlimited]
    /\ subs = [t \in Topics |-> 1]
    /\ task = [x \in Tasks |-> At("off")]
    /\ attempts = 0 /\ current = NoOne /\ lock = NoOne
    /\ rechecking = FALSE /\ fatal = "none"
    /\ sup = [up |-> TRUE, forced |-> "no", recovery |-> "none"]
    /\ other = TRUE /\ closer = "no"

\* One call at a time: an established agent, and one whose broker is not there
\* at first or goes away for good, with a loop that gives up, or has no JetStream
\* for it.  Two that overlap.
Instances ==
    \/ /\ Established(TRUE)
       /\ Faulty({"disconnect", "subscribe", "check", "latch", "fatal", "shutdown"}, {o1})
    \/ /\ Starting(FALSE, 1)
       /\ Faulty({"connect", "disconnect", "close", "check", "latch", "fatal", "shutdown"}, {o1})
    \/ /\ Starting(TRUE, unlimited)
       /\ Faulty({"connect", "latch", "fatal"}, {o1})
    \/ /\ Established(TRUE)
       /\ Faulty({"subscribe", "check", "latch"}, {o1, o2})
InstancesSpec == Instances /\ [][Next]_vars /\ Fairness

\* Two calls overlap and no subscription fails; and two latches for two reasons.
LatchSpec == Established(FALSE) /\ Faulty({"check", "latch"}, {o1, o2}) /\ [][Next]_vars
TwoLatchesSpec == Starting(FALSE, unlimited) /\ Faulty({"latch", "fatal"}, {o1}) /\ [][Next]_vars
-----------------------------------------------------------------------------
(* What the comments of the code promise and it does not keep, besides the  *)
(* properties of the violation runs.  The README says on which instance     *)
(* each of them fails, and how.                                             *)

\* "While the agent is paused it [the loop] connects and subscribes nothing" (connect).
LoopSubscribesNothingPaused ==
    [][flag.paused /\ flag'.paused /\ Is(Loop, "subscribing") => \A t \in Topics : subs'[t] <= subs[t]]_vars

\* "Healthy only when connected and all managed subscriptions are active", a
\* paused client aside (health_check).
HealthyMeansSubscribed ==
    ClientHealthy /\ flag.managed /\ ~flag.paused => \A t \in Topics : subs[t] > 0

\* Nor is it abandoned when it was not spared (NeverAbandoned, resume_consumption).
NeverForgotten ==
    OneCall /\ Quiet /\ flag.managed /\ ~flag.closing /\ ~GaveUp /\ sup.up /\ AgentHealthy
        => \A t \in Topics : subs[t] > 0

\* No topic is ever subscribed twice (resume_consumption: "Subscriptions a failed
\* attempt made are dropped first, so a retry never leaves duplicates").
NoDuplicates == \A t \in Topics : subs[t] <= 1

\* An orphan is one no longer once the agent consumes again (_on_orphaned).
OrphanConsumesNothing ==
    Quiet /\ flag.orphaned /\ ~flag.paused /\ sup.up => \E t \in Topics : subs[t] = 0

\* After close() the agent consumes nothing.
ClosedConsumesNothing == closer = "done" => subs = NoSubs
==============================================================================
