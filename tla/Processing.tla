----------------------------- MODULE Processing -----------------------------
(***************************************************************************)
(* What an agent makes of one event: the handlers its chain offers it to,  *)
(* the results published one by one, and the answer the transport gives    *)
(* the broker (event_processing_service.py, handler_chain.py,              *)
(* event_publishing_service.py, event_handling_base.py, io/eventing/nats)  *)
(*                                                                         *)
(* Several agents receive the event, each on deliveries of its own, and    *)
(* what they publish is read by one consumer that keeps the first event of *)
(* each id, as an agent that deduplicates does.  Crashes, cancellations    *)
(* and failures of the cache are in Delivery.                              *)
(***************************************************************************)
EXTENDS Integers, FiniteSets, Sequences

CONSTANTS
    Agents,
    Handlers,      \* each agent's, in the order declared: priority, types, selects, gives
    Dedup,         \* the agents with idempotency_enabled
    Types,         \* what the event may be: type, inner ("none", or the type of the event it wraps)
    Publishable,   \* result types with a topic of their own
    MaxDeliver,
    MaxFaults      \* bound on the failures

VARIABLES
    event,      \* the event, as it arrives
    named,      \* whether it carries an id and a source
    at,         \* where each agent is with it
    attempt,    \* the deliveries it has had
    place,      \* the next of its candidates, or of the results
    results,    \* the types of the results the run gave
    marker,     \* the agents with a dedup marker for it
    accepted,   \* what the consumer has kept: agent, type, index and the attempt that published it
    issued,     \* the ids it has seen
    answered,   \* the agents with a delivery of it that was acknowledged as done
    faults

vars == <<event, named, at, attempt, place, results, marker, accepted, issued, answered,
          faults>>

IsSequence(s) == s \in Seq({s[i] : i \in DOMAIN s})

(* Handlers are declared in a list, with numbers for priorities, and give lists. *)
Parameters ==
    /\ \A a \in Agents :
          /\ IsSequence(Handlers[a])
          /\ \A i \in DOMAIN Handlers[a] :
                Handlers[a][i].priority \in Int /\ \A r \in Handlers[a][i].gives : IsSequence(r)
    /\ MaxDeliver \in Nat /\ MaxFaults \in Nat

-----------------------------------------------------------------------------
(* Dispatch.                                                               *)

\* An envelope of the sidecar is opened before anything looks at the type.
Kind == IF event.inner = "none" THEN event.type ELSE event.inner

\* Stable: of one priority, in the order declared.
Before(hs, i, j) == hs[i].priority < hs[j].priority \/ (hs[i].priority = hs[j].priority /\ i < j)

\* DispatchIndex: those that declare the type or none at all.
Offered(hs) == {i \in DOMAIN hs : hs[i].types = {} \/ Kind \in hs[i].types}
Candidates(a) ==
    LET hs == Handlers[a]
        rank(i) == Cardinality({j \in Offered(hs) : Before(hs, j, i)}) + 1
    IN  [k \in 1..Cardinality(Offered(hs)) |-> hs[CHOOSE i \in Offered(hs) : rank(i) = k]]

\* Mutant: the agent is left out of the name the id is derived from.
ResultIdOfEvent(a, i) == IF named THEN <<results[a][i], i>> ELSE <<a, results[a][i], i, attempt[a]>>

\* uuid5 over agent, source event, type and position; a random one when the event has no id.
ResultId(a, i) == IF named THEN <<a, results[a][i], i>> ELSE <<a, results[a][i], i, attempt[a]>>

-----------------------------------------------------------------------------
Init ==
    /\ event \in Types /\ named \in BOOLEAN
    /\ at = [a \in Agents |-> "due"] /\ attempt = [a \in Agents |-> 0]
    /\ place = [a \in Agents |-> 1] /\ results = [a \in Agents |-> <<>>]
    /\ marker = {} /\ accepted = {} /\ issued = {} /\ answered = {} /\ faults = 0

Goes(a, s) == at' = [at EXCEPT ![a] = s]
Unchanged == UNCHANGED <<event, named, answered>>
Stays == UNCHANGED <<accepted, issued>>

\* Where the answer leaves the delivery: due again, or settled.
Answers(a, answer) ==
    Goes(a, IF answer # "nak" THEN answer ELSE IF attempt[a] < MaxDeliver THEN "due" ELSE "spent")

\* Acknowledged as done: the marker stays.
Done(a, s) ==
    /\ Goes(a, s) /\ answered' = answered \cup {a}
    /\ UNCHANGED <<event, named, attempt, place, results, marker, faults>> /\ Stays

\* Every way out but success releases the marker of the run that claimed it.
Fails(a, answer) ==
    /\ Answers(a, answer) /\ marker' = marker \ {a}
    /\ UNCHANGED <<attempt, place, results>> /\ Stays /\ Unchanged

(* An envelope that does not hold an event: raised before anything is claimed. *)
Unopened(a) ==
    /\ at[a] = "due" /\ event.inner = "broken"
    /\ attempt' = [attempt EXCEPT ![a] = @ + 1]
    /\ Goes(a, IF attempt'[a] < MaxDeliver THEN "due" ELSE "spent")
    /\ UNCHANGED <<place, results, marker, faults>> /\ Stays /\ Unchanged

(* _process_event: a marker another run left makes it a duplicate, which is acknowledged. *)
Arrives(a) ==
    /\ at[a] = "due" /\ event.inner # "broken"
    /\ attempt' = [attempt EXCEPT ![a] = @ + 1]
    /\ place' = [place EXCEPT ![a] = 1] /\ results' = [results EXCEPT ![a] = <<>>]
    /\ LET deduplicated == a \in Dedup /\ named
       IN  IF deduplicated /\ a \in marker THEN Goes(a, "duplicate") /\ UNCHANGED marker
           ELSE Goes(a, "dispatch") /\ marker' = IF deduplicated THEN marker \cup {a} ELSE marker
    /\ Stays /\ Unchanged /\ UNCHANGED faults

Current(a) == Candidates(a)[place[a]]
Dispatching(a) == at[a] = "dispatch" /\ place[a] <= Len(Candidates(a))

(* _dispatch: a handler that does not select the event, or that gives None, passes it on. *)
Passes(a) ==
    /\ Dispatching(a)
    /\ Kind \notin Current(a).selects \/ <<"pass">> \in Current(a).gives
    /\ place' = [place EXCEPT ![a] = @ + 1]
    /\ UNCHANGED <<at, attempt, results, marker, faults>> /\ Stays /\ Unchanged

(* A skip is an answer: nobody else is offered the event. *)
Skips(a) ==
    /\ Dispatching(a) /\ Kind \in Current(a).selects /\ <<"skip">> \in Current(a).gives
    /\ Done(a, "skipped")

Gives(a) ==
    /\ Dispatching(a) /\ Kind \in Current(a).selects
    /\ \E r \in Current(a).gives \ {<<"pass">>, <<"skip">>} : results' = [results EXCEPT ![a] = r]
    /\ Goes(a, "publish") /\ place' = [place EXCEPT ![a] = 1]
    /\ UNCHANGED <<attempt, marker, faults>> /\ Stays /\ Unchanged

(* The handler raises: retried, unless it says the event is invalid (disposition_for). *)
Raises(a) ==
    /\ Dispatching(a) /\ Kind \in Current(a).selects /\ faults < MaxFaults
    /\ faults' = faults + 1
    /\ \E answer \in {"nak", "term"} : Fails(a, answer)

Unhandled(a) ==
    /\ at[a] = "dispatch" /\ place[a] > Len(Candidates(a))
    /\ Done(a, "unhandled")

(* publish_handler_event: one result; one with no topic, or with the event's own, is left out. *)
Publishes(a) ==
    /\ at[a] = "publish" /\ place[a] <= Len(results[a])
    /\ LET id == ResultId(a, place[a])
           type == results[a][place[a]]
           fresh == type \in Publishable /\ id \notin issued
       IN  /\ accepted' = IF fresh THEN accepted \cup {<<a, type, place[a], attempt[a]>>} ELSE accepted
           /\ issued' = IF fresh THEN issued \cup {id} ELSE issued
    /\ place' = [place EXCEPT ![a] = @ + 1]
    /\ UNCHANGED <<at, attempt, results, marker, faults>> /\ Unchanged

(* A failed publish raises; the event may have reached the stream or not. *)
PublishFails(a) ==
    /\ at[a] = "publish" /\ place[a] <= Len(results[a]) /\ results[a][place[a]] \in Publishable
    /\ faults < MaxFaults /\ faults' = faults + 1
    /\ LET id == ResultId(a, place[a])
       IN  \/ UNCHANGED <<accepted, issued>>
           \/ /\ id \notin issued
              /\ accepted' = accepted \cup {<<a, results[a][place[a]], place[a], attempt[a]>>}
              /\ issued' = issued \cup {id}
    /\ Answers(a, "nak") /\ marker' = marker \ {a}
    /\ UNCHANGED <<attempt, place, results>> /\ Unchanged

Processed(a) ==
    /\ at[a] = "publish" /\ place[a] > Len(results[a])
    /\ Done(a, "processed")

(* The broker does not hear the acknowledgement, and delivers the event again. *)
AckLost(a) ==
    /\ at[a] \in {"processed", "skipped", "unhandled", "duplicate"} /\ attempt[a] < MaxDeliver
    /\ faults < MaxFaults /\ faults' = faults + 1
    /\ Goes(a, "due")
    /\ UNCHANGED <<attempt, place, results, marker>> /\ Stays /\ Unchanged

Next ==
    \E a \in Agents :
        \/ Unopened(a) \/ Arrives(a) \/ Passes(a) \/ Skips(a) \/ Gives(a) \/ Raises(a) \/ Unhandled(a)
        \/ Publishes(a) \/ PublishFails(a) \/ Processed(a) \/ AckLost(a)

Spec == Init /\ [][Next]_vars

-----------------------------------------------------------------------------
\* A delivery that is acknowledged as processed has all its results at a consumer that
\* keeps one event of each id -- no two results are taken for one, of one agent or of
\* two -- and each only once, whatever earlier deliveries had published, when the event
\* has an id; and a delivery taken for a duplicate is one of an event that was answered
\* (publish_handler_event, process_event).
ResultsKeptOnce ==
    /\ \A a \in Agents : at[a] = "processed" =>
          \A i \in DOMAIN results[a] : results[a][i] \in Publishable =>
              \E n \in 1..attempt[a] : <<a, results[a][i], i, n>> \in accepted
    /\ named => \A r, s \in accepted : SubSeq(r, 1, 3) = SubSeq(s, 1, 3) => r = s
    /\ \A a \in Agents :
          /\ at[a] = "duplicate" => a \in answered
          /\ at[a] \in {"due", "term", "spent"} /\ a \in marker => a \in answered
=============================================================================
