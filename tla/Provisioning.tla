----------------------------- MODULE Provisioning -----------------------------
(***************************************************************************)
(* The JetStream stream several clients share, and their durables on it    *)
(* (nats_client.py): each client looks at the stream before it subscribes, *)
(* creates it or widens it to its own subjects, and creates its durable    *)
(* where there is none.  A look and a write are two requests, and other    *)
(* clients, other replicas and an operator write in between.               *)
(***************************************************************************)
EXTENDS Naturals, FiniteSets

CONSTANTS
    Clients,
    Wanted,        \* [Clients -> the subjects the client needs on the stream]
    Topic,         \* [Clients -> the one it subscribes to]
    Durable,       \* [Clients -> the name of its durable; replicas share one]
    Wider,         \* pairs <<p, s>>: the pattern p captures every subject s does
    OperatorAdds,  \* the subjects an operator may add to the stream
    MaxFaults      \* bound: requests refused or not answered, and reconnects

Subjects == (UNION {Wanted[c] : c \in Clients}) \union OperatorAdds
Durables == {Durable[c] : c \in Clients}
NoFilter == "-"

(* A client subscribes to one of the subjects it needs. *)
Parameters == (\A c \in Clients : Topic[c] \in Wanted[c]) /\ NoFilter \notin Subjects /\ MaxFaults \in Nat

VARIABLES
    stream,     \* the stream exists
    subjects,   \* what it captures
    consumer,   \* [Durables -> the subject each filters; NoFilter when there is none]
    at,         \* [Clients -> the request each client makes next]
    seen,       \* [Clients -> what the stream captured when the client looked]
    fatal,      \* the clients that have reported a final error
    raced,      \* a stream was written that had changed since it was looked at (history)
    unsure,     \* the clients whose widening was not answered (history)
    faults

vars == <<stream, subjects, consumer, at, seen, fatal, raced, unsure, faults>>

Requests == {"look", "create", "lookAgain", "widen", "lookDurable", "addDurable"}

TypeOK ==
    /\ stream \in BOOLEAN /\ subjects \subseteq Subjects
    /\ consumer \in [Durables -> Subjects \union {NoFilter}]
    /\ at \in [Clients -> Requests \union {"waiting", "bound"}]
    /\ seen \in [Clients -> SUBSET Subjects]
    /\ fatal \subseteq Clients /\ unsure \subseteq Clients /\ raced \in BOOLEAN
    /\ faults \in 0..MaxFaults

(* The stream is there when an operator has provisioned it. *)
Init ==
    /\ stream \in BOOLEAN
    /\ subjects \in IF stream THEN {{s} : s \in OperatorAdds} ELSE {{}}
    /\ consumer = [d \in Durables |-> NoFilter]
    /\ at = [c \in Clients |-> "look"]
    /\ seen = [c \in Clients |-> {}]
    /\ fatal = {} /\ raced = FALSE /\ unsure = {}
    /\ faults = 0

Captures(patterns, s) == \E p \in patterns : p = s \/ <<p, s>> \in Wider
Missing(c, patterns) == {s \in Wanted[c] : ~Captures(patterns, s)}
Overlap(patterns) == \E p, q \in patterns : <<p, q>> \in Wider

Asks(c, request) == c \notin fatal /\ at[c] = request
Goes(c, place) == at' = [at EXCEPT ![c] = place]
Fails == faults < MaxFaults /\ faults' = faults + 1

-----------------------------------------------------------------------------
(* _provision_stream. *)
LooksAt(c, next) ==
    /\ seen' = [seen EXCEPT ![c] = subjects]
    /\ Goes(c, IF ~stream THEN next ELSE IF Missing(c, subjects) = {} THEN "lookDurable" ELSE "widen")
    /\ UNCHANGED <<stream, subjects, consumer, fatal, raced, unsure, faults>>

Looks(c) == Asks(c, "look") /\ LooksAt(c, "create")

(* The stream another client has created meanwhile is widened. *)
LooksAgain(c) == Asks(c, "lookAgain") /\ LooksAt(c, "waiting")

Creates(c) ==
    /\ Asks(c, "create")
    /\ stream' = TRUE
    /\ \/ /\ ~stream
          /\ subjects' = Wanted[c]
          /\ Goes(c, "lookDurable")
       \/ /\ stream
          /\ UNCHANGED subjects
          /\ Goes(c, "lookAgain")
    /\ UNCHANGED <<consumer, seen, fatal, raced, unsure, faults>>

\* Mutant of Widened: the client's own subjects replace what it saw.
WidenedToWanted(c) == Wanted[c]

Widened(c) == seen[c] \union Missing(c, seen[c])

Widens(c) ==
    /\ Asks(c, "widen") /\ ~Overlap(Widened(c))
    /\ subjects' = Widened(c)
    /\ raced' = (raced \/ subjects # seen[c])
    /\ Goes(c, "lookDurable")
    /\ UNCHANGED <<stream, consumer, seen, fatal, unsure, faults>>

(* The update is not answered, whether or not it was made: it is logged. *)
WidensUnanswered(c) ==
    /\ Asks(c, "widen") /\ Fails
    /\ unsure' = unsure \union {c}
    /\ \/ /\ ~Overlap(Widened(c))
          /\ subjects' = Widened(c) /\ raced' = (raced \/ subjects # seen[c])
       \/ UNCHANGED <<subjects, raced>>
    /\ Goes(c, "lookDurable")
    /\ UNCHANGED <<stream, consumer, seen, fatal>>

(* The server's refusal is final: subjects that overlap on this stream, or  *)
(* with those of another one.                                               *)
Refused(c) ==
    /\ Asks(c, "create") \/ Asks(c, "widen")
    /\ IF at[c] = "widen" /\ Overlap(Widened(c)) THEN UNCHANGED faults ELSE Fails
    /\ fatal' = fatal \union {c}
    /\ UNCHANGED <<stream, subjects, consumer, at, seen, raced, unsure>>

-----------------------------------------------------------------------------
(* _ensure_consumer. *)
LooksAtDurable(c) ==
    /\ Asks(c, "lookDurable")
    /\ \/ /\ consumer[Durable[c]] = NoFilter
          /\ Goes(c, "addDurable") /\ UNCHANGED fatal
       \/ /\ consumer[Durable[c]] = Topic[c]
          /\ Goes(c, "bound") /\ UNCHANGED fatal
       \/ /\ consumer[Durable[c]] \notin {NoFilter, Topic[c]}
          /\ fatal' = fatal \union {c} /\ UNCHANGED at
    /\ UNCHANGED <<stream, subjects, consumer, seen, raced, unsure, faults>>

(* The server takes a filter the stream captures, and a durable that is     *)
(* there already only for the same subscription; anything else is an error  *)
(* the connection loop retries after.                                       *)
AddsDurable(c) ==
    /\ Asks(c, "addDurable")
    /\ \/ /\ Captures(subjects, Topic[c]) /\ consumer[Durable[c]] \in {NoFilter, Topic[c]}
          /\ consumer' = [consumer EXCEPT ![Durable[c]] = Topic[c]]
          /\ Goes(c, "bound")
       \/ /\ ~Captures(subjects, Topic[c]) \/ consumer[Durable[c]] \notin {NoFilter, Topic[c]}
          /\ Goes(c, "waiting")
          /\ UNCHANGED consumer
    /\ UNCHANGED <<stream, subjects, seen, fatal, raced, unsure, faults>>

(* A request that is not answered fails the attempt, the update aside: it   *)
(* has not reached the server, or the server has made the stream ...        *)
Unanswered(c) ==
    /\ c \notin fatal /\ at[c] \in Requests \ {"widen"} /\ Fails
    /\ Goes(c, "waiting")
    /\ UNCHANGED <<stream, subjects, consumer, seen, fatal, raced, unsure>>

CreatesUnanswered(c) ==
    /\ Asks(c, "create") /\ ~stream /\ Fails
    /\ stream' = TRUE /\ subjects' = Wanted[c]
    /\ Goes(c, "waiting")
    /\ UNCHANGED <<consumer, seen, fatal, raced, unsure>>

(* ... or the durable. *)
AddsUnanswered(c) ==
    /\ Asks(c, "addDurable") /\ Fails
    /\ Captures(subjects, Topic[c]) /\ consumer[Durable[c]] \in {NoFilter, Topic[c]}
    /\ consumer' = [consumer EXCEPT ![Durable[c]] = Topic[c]]
    /\ Goes(c, "waiting")
    /\ UNCHANGED <<stream, subjects, seen, fatal, raced, unsure>>

(* The loop's next attempt; and the look after a reconnect, when the client *)
(* keeps its subscriptions (_ensure_broker_state).                          *)
Retries(c) ==
    /\ c \notin fatal /\ at[c] = "waiting"
    /\ Goes(c, "look")
    /\ unsure' = unsure \ {c}
    /\ UNCHANGED <<stream, subjects, consumer, seen, fatal, raced, faults>>

Reconnects(c) ==
    /\ c \notin fatal /\ at[c] = "bound" /\ Fails
    /\ Goes(c, "look")
    /\ unsure' = unsure \ {c}
    /\ UNCHANGED <<stream, subjects, consumer, seen, fatal, raced>>

(* External: an operator adds a subject, in one request. *)
Operator(s) ==
    /\ stream /\ s \notin subjects /\ ~Overlap(subjects \union {s})
    /\ subjects' = subjects \union {s}
    /\ UNCHANGED <<stream, consumer, at, seen, fatal, raced, unsure, faults>>

Next ==
    \/ \E s \in OperatorAdds : Operator(s)
    \/ \E c \in Clients :
          \/ Looks(c) \/ LooksAgain(c) \/ Creates(c) \/ Widens(c) \/ WidensUnanswered(c) \/ Refused(c)
          \/ LooksAtDurable(c) \/ AddsDurable(c) \/ Unanswered(c) \/ CreatesUnanswered(c)
          \/ AddsUnanswered(c) \/ Retries(c) \/ Reconnects(c)

Spec == Init /\ [][Next]_vars

-----------------------------------------------------------------------------
(* A client that is bound has its subjects on the stream, and a durable of  *)
(* its own: whatever the clients do one after the other, only a write that  *)
(* another one overlapped, or one without an answer, may leave it without.  *)
BoundSubjectsCarried ==
    \A c \in Clients : at[c] = "bound" =>
        /\ consumer[Durable[c]] = Topic[c]
        /\ Missing(c, subjects) = {} \/ raced \/ c \in unsure

(* "Widening is additive -- subjects already on the stream are kept -- so   *)
(* this never removes a subject an operator added." (_provision_stream)     *)
OperatorsSubjectsKept ==
    [][\A s \in OperatorAdds : s \in subjects => s \in subjects']_vars
=============================================================================
