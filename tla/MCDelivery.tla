----------------------------- MODULE MCDelivery -----------------------------
(* Delivery on small instances. *)
EXTENDS Delivery

CONSTANTS e1, a, b, nobody
-----------------------------------------------------------------------------
(* What the comments of the code promise and it does not keep, besides the  *)
(* property of the violation run.  The README says when each of them fails. *)

\* "A degraded agent runs nothing (C4)" (message_handler): no run starts while
\* the agent is paused.
PausedStartsNothing ==
    [][\A d \in Deliveries : Is(d, "waiting") /\ sub[run[d].on] # "open" => run'[d].at \notin {"claiming", "running"}]_vars

\* A delivery that a paused agent hands back "redelivers to a healthy replica
\* (N4)" (message_handler): it is not given up.
HandBackRedelivers == \A d \in Deliveries : run[d].verdict = "back" => ~GivenUp(d)

\* "A nak on the delivery the broker will not repeat is turned into a dead letter
\* and a term" (_settle): not where an existing consumer allows fewer attempts than
\* nats_max_deliver, or nats_max_deliver is unset (_max_deliver_of).
NoNakUnrepeated ==
    \A d \in Deliveries : run[d].verdict \in {"nak", "back"} /\ Attempt(d) = MaxDeliver => GivenUp(d)

\* "Every other way out releases" the marker (HandlerChain): a cancellation does,
\* wherever it strikes.
CancellationsRelease ==
    faults \cap {"crash", "cache"} = {} => \A e \in marker : e \in handled \/ OwnerAlive(e)
=============================================================================
