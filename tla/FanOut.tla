-------------------------------- MODULE FanOut --------------------------------
(***************************************************************************)
(* One event on a topic of a Dapr sidecar, in a process that hosts several *)
(* agents (dapr.py): a delivery is one request, offered to the agents that *)
(* declared the topic one after the other, and has one answer for all of   *)
(* them.  The sidecar delivers again what is answered RETRY, and what it   *)
(* has waited too long for, while the first request still runs.            *)
(***************************************************************************)
EXTENDS Naturals, Sequences, FiniteSets

CONSTANTS
    Handlers,       \* of all agents, in the order of the registry: the agent, the topics declared
    Topics,         \* those events come on
    Dedup,          \* those whose chain deduplicates
    Publishing,     \* those whose handler's result is an event to publish
    Deliveries,     \* the requests the sidecar makes, numbered
    MaxFlips        \* bound: agents that are paused or resumed

Root == ""
Names == {Root} \union {Handlers[i].ns : i \in DOMAIN Handlers}
Dispositions == {"ack", "nak", "term"}

Parameters == Handlers \in Seq({Handlers[i] : i \in DOMAIN Handlers}) /\ Dedup \subseteq Names

VARIABLES
    topic,     \* the topic of the event
    declarative, \* the subscriptions are declared outside the application
    turn,      \* [Deliveries -> Nat]: 0 before the request, then the place of the agent in turn
    at,        \* [Deliveries -> {"offer", "running", "publishing"}]: where the agent in turn is
    outcomes,  \* [Deliveries -> SUBSET Dispositions]
    claimed,   \* [Deliveries -> BOOLEAN]: the agent in turn has claimed the marker for it
    marker,    \* the agents whose dedup marker is set
    paused,    \* the agents whose clients are paused
    settled,   \* the sidecar has been answered SUCCESS or DROP
    finished,  \* [Names -> Nat]: runs that came to their end, with what they publish (history)
    refused,   \* the agents that have rejected the event for good (history)
    overlapped, \* those that skipped it while another request ran it (history)
    unread,    \* the payload is no CloudEvent
    flips

\* What the sidecar delivers, and how it was told.
given == <<topic, declarative, unread>>

vars == <<given, turn, at, outcomes, claimed, marker, paused, settled, finished, refused, overlapped, flips>>

-----------------------------------------------------------------------------
(* Which agents an event is offered to; some handlers are the places of them. *)

\* Agents, in the order of their first handler among some.
Firsts(some) == {i \in some : \A j \in some : Handlers[j].ns = Handlers[i].ns => i <= j}
AgentsOf(some) ==
    [k \in 1..Cardinality(Firsts(some)) |->
        Handlers[CHOOSE i \in Firsts(some) : Cardinality(Firsts(some) \cap 1..i) = k].ns]

\* _topics_by_agent: those that declare the topic, in the order of what each declares first.
Declaring(t) ==
    AgentsOf({i \in DOMAIN Handlers :
        /\ Handlers[i].topics # {}
        /\ \E j \in DOMAIN Handlers : Handlers[j].ns = Handlers[i].ns /\ t \in Handlers[j].topics})

\* Who declared the topic; when nobody did, who has handlers; when nobody has, the root.
AgentsFor(t) ==
    IF Declaring(t) # <<>> THEN Declaring(t)
    ELSE IF Handlers # <<>> THEN AgentsOf(DOMAIN Handlers) ELSE <<Root>>

\* subscribe: what the sidecar is told to deliver, once for all agents.
Document == IF declarative THEN {} ELSE UNION {Handlers[i].topics : i \in DOMAIN Handlers}

Agents == AgentsFor(topic)

TypeOK ==
    /\ topic \in Topics /\ declarative \in BOOLEAN
    /\ turn \in [Deliveries -> 0..Len(Agents) + 2]
    /\ at \in [Deliveries -> {"offer", "running", "publishing"}]
    /\ outcomes \in [Deliveries -> SUBSET Dispositions] /\ claimed \in [Deliveries -> BOOLEAN]
    /\ marker \subseteq Dedup /\ paused \subseteq Names /\ settled \in BOOLEAN
    /\ finished \in [Names -> Nat]
    /\ refused \subseteq Names /\ overlapped \subseteq Dedup
    /\ unread \in BOOLEAN /\ flips \in 0..MaxFlips

(* The sidecar delivers what the document names, or what was declared to it *)
(* outside the application.                                                *)
Init ==
    /\ declarative \in BOOLEAN
    /\ topic \in {t \in Topics : t \in Document \/ declarative}
    /\ turn = [d \in Deliveries |-> 0]
    /\ at = [d \in Deliveries |-> "offer"]
    /\ outcomes = [d \in Deliveries |-> {}]
    /\ claimed = [d \in Deliveries |-> FALSE]
    /\ marker = {} /\ paused = {} /\ settled = FALSE
    /\ finished = [n \in Names |-> 0] /\ refused = {} /\ overlapped = {}
    /\ unread \in BOOLEAN /\ flips = 0

Answering == Len(Agents) + 1
Answered == Len(Agents) + 2
Agent(d) == Agents[turn[d]]
InTurn(d, place) == turn[d] \in 1..Len(Agents) /\ at[d] = place

(* The clients of an agent are paused and resumed by its health. *)
Pauses(n) ==
    /\ flips < MaxFlips /\ flips' = flips + 1
    /\ paused' = IF n \in paused THEN paused \ {n} ELSE paused \union {n}
    /\ UNCHANGED <<turn, at, outcomes, claimed, marker, settled, finished, refused, overlapped, given>>

-----------------------------------------------------------------------------
(* The sidecar asks first, and again while it has no answer it can stop at. *)
Delivered(d) ==
    /\ turn[d] = 0 /\ ~settled
    /\ \A e \in Deliveries : e < d => turn[e] # 0
    /\ turn' = [turn EXCEPT ![d] = IF unread THEN Answering ELSE 1]
    /\ UNCHANGED <<at, outcomes, claimed, marker, paused, settled, finished, refused, overlapped, given, flips>>

(* The agent in turn is done with the event, and the next one is asked. *)
Concludes(d, outcome) ==
    /\ outcomes' = [outcomes EXCEPT ![d] = @ \union {outcome}]
    /\ turn' = [turn EXCEPT ![d] = @ + 1]
    /\ at' = [at EXCEPT ![d] = "offer"]
    /\ claimed' = [claimed EXCEPT ![d] = FALSE]

(* A paused agent is not offered the event, and has it delivered again. *)
OfferPaused(d) ==
    /\ InTurn(d, "offer") /\ Agent(d) \in paused
    /\ Concludes(d, "nak")
    /\ UNCHANGED <<marker, paused, settled, finished, refused, overlapped, given, flips>>

Runs(d) ==
    /\ InTurn(d, "offer") /\ Agent(d) \notin paused \union marker
    /\ at' = [at EXCEPT ![d] = "running"]
    /\ marker' = marker \union ({Agent(d)} \intersect Dedup)
    /\ claimed' = [claimed EXCEPT ![d] = Agent(d) \in Dedup]
    /\ UNCHANGED <<turn, outcomes, paused, settled, finished, refused, overlapped, given, flips>>

(* Its chain knows the event: it is skipped, and counts as handled. *)
OfferDuplicate(d) ==
    /\ InTurn(d, "offer") /\ Agent(d) \notin paused /\ Agent(d) \in marker
    /\ overlapped' = IF \E e \in Deliveries : claimed[e] /\ Agent(e) = Agent(d)
                     THEN overlapped \union {Agent(d)} ELSE overlapped
    /\ Concludes(d, "ack")
    /\ UNCHANGED <<marker, paused, settled, finished, refused, given, flips>>

(* The chain comes to a result, or finds no handler with work for it. *)
RunEnds(d) ==
    /\ InTurn(d, "running")
    /\ \/ /\ Agent(d) \in Publishing
          /\ at' = [at EXCEPT ![d] = "publishing"]
          /\ UNCHANGED <<turn, outcomes, claimed, finished>>
       \/ /\ Agent(d) \notin Publishing
          /\ finished' = [finished EXCEPT ![Agent(d)] = @ + 1]
          /\ Concludes(d, "ack")
    /\ UNCHANGED <<marker, paused, settled, refused, overlapped, given, flips>>

PublishEnds(d) ==
    /\ InTurn(d, "publishing")
    /\ finished' = [finished EXCEPT ![Agent(d)] = @ + 1]
    /\ Concludes(d, "ack")
    /\ UNCHANGED <<marker, paused, settled, refused, overlapped, given, flips>>

(* The handler or the publisher raises: the marker this delivery claimed is *)
(* deleted, and the error says whether a retry is worth it.                 *)
Raises(d) ==
    /\ InTurn(d, "running") \/ InTurn(d, "publishing")
    /\ marker' = IF claimed[d] THEN marker \ {Agent(d)} ELSE marker
    /\ \/ Concludes(d, "nak") /\ UNCHANGED refused
       \/ /\ at[d] = "running"
          /\ Concludes(d, "term")
          /\ refused' = refused \union {Agent(d)}
    /\ UNCHANGED <<paused, settled, finished, overlapped, given, flips>>

-----------------------------------------------------------------------------
\* Mutant of Combined: whoever has handled the event answers for the others.
AnyAckCounts(d) ==
    IF "ack" \in outcomes[d] THEN "ack"
    ELSE IF "nak" \in outcomes[d] THEN "nak" ELSE "term"

(* combined_disposition: a retry asked for by one is a retry; a rejection   *)
(* is the answer only when nobody handled the event.                        *)
Combined(d) ==
    IF "nak" \in outcomes[d] THEN "nak"
    ELSE IF "ack" \in outcomes[d] \/ outcomes[d] = {} THEN "ack" ELSE "term"

(* What is no CloudEvent is dropped without asking anybody. *)
Answers(d) ==
    /\ turn[d] = Answering
    /\ turn' = [turn EXCEPT ![d] = Answered]
    /\ settled' = (settled \/ unread \/ Combined(d) # "nak")
    /\ UNCHANGED <<at, outcomes, claimed, marker, paused, finished, refused, overlapped, given, flips>>

Next ==
    \/ \E n \in Names : Pauses(n)
    \/ \E d \in Deliveries :
          \/ Delivered(d) \/ OfferPaused(d) \/ Runs(d) \/ OfferDuplicate(d)
          \/ RunEnds(d) \/ PublishEnds(d) \/ Raises(d) \/ Answers(d)

Spec == Init /\ [][Next]_vars

-----------------------------------------------------------------------------
(* The sidecar is told to stop only when every agent that declared the topic *)
(* -- every agent that has handlers, when nobody declared it -- has handled  *)
(* the event or rejected it, in whichever of its deliveries; but for what    *)
(* the code warns of, a duplicate of a run that then failed.  And no agent   *)
(* that deduplicates repeats what it has done because another wants a retry. *)
AnswerCoversAgents ==
    /\ settled /\ ~unread =>
          \A i \in DOMAIN Handlers :
              (\A j \in DOMAIN Handlers : topic \notin Handlers[j].topics) \/ topic \in Handlers[i].topics =>
                  finished[Handlers[i].ns] > 0 \/ Handlers[i].ns \in refused \union overlapped
    /\ \A n \in Dedup : finished[n] <= 1
=============================================================================
