---------------------------- MODULE Events_proofs -----------------------------
(***************************************************************************)
(* What a process does with events, for any values of the constants: what  *)
(* the broker is provisioned with, what becomes of one event, which agents *)
(* a sidecar's event is offered to, and who shares a channel.              *)
(***************************************************************************)
EXTENDS Process, Integers, FunctionTheorems, FiniteSetTheorems, SequenceTheorems, TLAPS

-----------------------------------------------------------------------------
(* Provisioning: a client that is bound has its subjects on the stream and  *)
(* a durable of its own, for any clients, subjects and patterns.            *)

\* Before the stream is there, no client is past the look at it.
NothingBeforeTheStream == ~stream => \A c \in p_Clients : p_at[c] \in {"look", "create", "waiting"}

\* From the look that found its subjects, or the write that added them, on.
Carried ==
    \A c \in p_Clients : p_at[c] \in {"lookDurable", "addDurable", "bound"} =>
        P!Missing(c, subjects) = {} \/ raced \/ c \in unsure

Filtering == \A c \in p_Clients : p_at[c] = "bound" => consumer[Durable[c]] = Topic[c]

BrokerInv == P!TypeOK /\ NothingBeforeTheStream /\ Carried /\ Filtering

\* Subjects that are added take none away.
LEMMA MoreSubjects ==
    ASSUME NEW c, NEW Z, NEW U, Z \subseteq U, P!Missing(c, Z) = {}
    PROVE  P!Missing(c, U) = {}
BY DEF P!Missing, P!Captures

LEMMA WidenedCarries == ASSUME NEW c PROVE P!Missing(c, P!Widened(c)) = {} /\ p_seen[c] \subseteq P!Widened(c)
BY DEF P!Widened, P!Missing, P!Captures

LEMMA OwnSubjects ==
    ASSUME NEW c \in p_Clients
    PROVE  /\ P!Missing(c, Wanted[c]) = {} /\ Wanted[c] \subseteq P!Subjects /\ Durable[c] \in P!Durables
           /\ \A Z : P!Missing(c, Z) \subseteq P!Subjects
BY DEF P!Missing, P!Captures, P!Subjects, P!Durables

LEMMA BrokerInit == P!Parameters /\ P!Init => BrokerInv
<1> SUFFICES ASSUME P!Parameters, P!Init PROVE BrokerInv
    OBVIOUS
<1>1. subjects \subseteq P!Subjects
    <2>1. CASE stream
        BY <2>1 DEF P!Init, P!Subjects
    <2>2. CASE ~stream
        BY <2>2 DEF P!Init
    <2> QED BY <2>1, <2>2
<1>2. P!TypeOK
    <2>1. stream \in BOOLEAN /\ raced = FALSE /\ p_fatal = {} /\ unsure = {} /\ p_faults = 0
        BY DEF P!Init
    <2>. 0 \in 0..p_MaxFaults
        BY DEF P!Parameters
    <2>2. p_at \in [p_Clients -> P!Requests \union {"waiting", "bound"}]
        BY DEF P!Init, P!Requests
    <2>3. consumer \in [P!Durables -> P!Subjects \union {P!NoFilter}] /\ p_seen \in [p_Clients -> SUBSET P!Subjects]
        BY DEF P!Init
    <2> QED BY <1>1, <2>1, <2>2, <2>3 DEF P!TypeOK
<1> QED BY <1>2 DEF P!Init, BrokerInv, NothingBeforeTheStream, Carried, Filtering

\* The looks at the stream and the writes to it.
LEMMA StreamSteps ==
    ASSUME P!Parameters, BrokerInv, NEW c \in p_Clients,
           P!Looks(c) \/ P!LooksAgain(c) \/ P!Creates(c) \/ P!Widens(c) \/ P!WidensUnanswered(c)
           \/ P!CreatesUnanswered(c)
    PROVE  BrokerInv'
<1>0. /\ P!TypeOK /\ NothingBeforeTheStream /\ Carried /\ Filtering
      /\ p_at \in [p_Clients -> P!Requests \union {"waiting", "bound"}] /\ c \notin p_fatal
      /\ p_seen \in [p_Clients -> SUBSET P!Subjects] /\ subjects \subseteq P!Subjects
    BY DEF BrokerInv, P!TypeOK, P!Looks, P!LooksAgain, P!Creates, P!Widens, P!WidensUnanswered, P!CreatesUnanswered, P!Asks
<1>1. UNCHANGED <<consumer, p_fatal>> /\ p_at[c] \in {"look", "lookAgain", "create", "widen"} /\ p_faults' \in 0..p_MaxFaults
    <2>1. p_faults' = p_faults \/ (p_faults < p_MaxFaults /\ p_faults' = p_faults + 1)
        BY DEF P!Looks, P!LooksAgain, P!LooksAt, P!Creates, P!Widens, P!WidensUnanswered, P!CreatesUnanswered, P!Fails
    <2>2. p_faults' \in 0..p_MaxFaults
        BY <1>0, <2>1 DEF P!TypeOK, P!Parameters
    <2> QED BY <2>2 DEF P!Looks, P!LooksAgain, P!LooksAt, P!Creates, P!Widens, P!WidensUnanswered, P!CreatesUnanswered, P!Asks
\* What the step does: where the client goes, and what becomes of the stream.
<1>2. PICK goal \in {"create", "waiting", "lookAgain", "widen", "lookDurable"} : p_at' = [p_at EXCEPT ![c] = goal]
    BY DEF P!Looks, P!LooksAgain, P!LooksAt, P!Creates, P!Widens, P!WidensUnanswered, P!CreatesUnanswered, P!Goes
<1>3. /\ stream' \in BOOLEAN
      /\ stream => stream'
      /\ ~stream' => goal \in {"create", "waiting"}
      /\ goal = "lookDurable" => P!Missing(c, subjects') = {} \/ raced' \/ c \in unsure'
      /\ subjects \subseteq subjects' \/ raced' \/ ~stream
      /\ raced => raced'
      /\ raced' \in BOOLEAN
      /\ unsure \subseteq unsure' /\ unsure' \subseteq p_Clients
      /\ subjects' \subseteq P!Subjects /\ p_seen' \in [p_Clients -> SUBSET P!Subjects]
    <2>1. ASSUME NEW following \in {"create", "waiting"}, P!LooksAt(c, following)
          PROVE  /\ UNCHANGED <<stream, subjects, raced, unsure>>
                 /\ p_seen' \in [p_Clients -> SUBSET P!Subjects]
                 /\ ~stream => goal \in {"create", "waiting"}
                 /\ goal = "lookDurable" => P!Missing(c, subjects) = {}
        <3>1. /\ UNCHANGED <<stream, subjects, raced, unsure>> /\ p_seen' = [p_seen EXCEPT ![c] = subjects]
              /\ p_at' = [p_at EXCEPT ![c] = IF ~stream THEN following
                                         ELSE IF P!Missing(c, subjects) = {} THEN "lookDurable" ELSE "widen"]
            BY <2>1 DEF P!LooksAt, P!Goes
        <3>2. goal = IF ~stream THEN following ELSE IF P!Missing(c, subjects) = {} THEN "lookDurable" ELSE "widen"
            BY <1>0, <1>2, <3>1
        <3> QED BY <1>0, <3>1, <3>2
    <2>2. CASE P!Looks(c) \/ P!LooksAgain(c)
        BY <1>0, <2>1, <2>2 DEF P!Looks, P!LooksAgain, P!TypeOK
    <2>3. CASE P!Creates(c)
        <3>1. /\ stream' = TRUE /\ UNCHANGED <<raced, unsure, p_seen>>
              /\ \/ ~stream /\ subjects' = Wanted[c]
                 \/ subjects' = subjects /\ p_at' = [p_at EXCEPT ![c] = "lookAgain"]
            BY <2>3 DEF P!Creates, P!Goes
        <3>2. subjects' = subjects => goal # "lookDurable" \/ (~stream /\ subjects' = Wanted[c])
            BY <1>0, <1>2, <3>1
        <3> QED BY <1>0, <3>1, <3>2, OwnSubjects DEF P!TypeOK
    <2>4. ASSUME subjects' = P!Widened(c), raced' = (raced \/ subjects # p_seen[c])
          PROVE  /\ P!Missing(c, subjects') = {} /\ subjects' \subseteq P!Subjects
                 /\ subjects \subseteq subjects' \/ raced'
        <3>1. P!Widened(c) \subseteq P!Subjects
            BY <1>0, OwnSubjects DEF P!Widened
        <3> QED BY <2>4, <3>1, WidenedCarries
    <2>5. CASE P!Widens(c)
        <3>1. /\ UNCHANGED <<stream, p_seen, unsure>> /\ subjects' = P!Widened(c)
              /\ raced' = (raced \/ subjects # p_seen[c]) /\ stream
            BY <1>0, <2>5 DEF P!Widens, P!Asks, NothingBeforeTheStream
        <3>2. raced' \in BOOLEAN /\ (raced => raced')
            BY <3>1
        <3> QED BY <1>0, <2>4, <3>1, <3>2 DEF P!TypeOK
    <2>6. CASE P!WidensUnanswered(c)
        <3>1. /\ UNCHANGED <<stream, p_seen>> /\ unsure' = unsure \union {c} /\ stream
              /\ \/ subjects' = P!Widened(c) /\ raced' = (raced \/ subjects # p_seen[c])
                 \/ UNCHANGED <<subjects, raced>>
            BY <1>0, <2>6 DEF P!WidensUnanswered, P!Asks, NothingBeforeTheStream
        <3>2. raced' \in BOOLEAN /\ (raced => raced')
            <4>1. CASE raced' = (raced \/ subjects # p_seen[c])
                BY <4>1
            <4>2. CASE raced' = raced
                BY <1>0, <4>2 DEF P!TypeOK
            <4> QED BY <3>1, <4>1, <4>2
        <3>3. subjects' \subseteq P!Subjects /\ (subjects \subseteq subjects' \/ raced')
            BY <1>0, <2>4, <3>1
        <3>4. unsure \subseteq unsure' /\ unsure' \subseteq p_Clients /\ c \in unsure'
            BY <1>0, <3>1 DEF P!TypeOK
        <3> QED BY <1>0, <3>1, <3>2, <3>3, <3>4 DEF P!TypeOK
    <2>7. CASE P!CreatesUnanswered(c)
        <3>1. /\ stream' = TRUE /\ ~stream /\ UNCHANGED <<raced, unsure, p_seen>> /\ subjects' = Wanted[c]
            BY <2>7 DEF P!CreatesUnanswered
        <3> QED BY <1>0, <3>1, OwnSubjects DEF P!TypeOK
    <2> QED BY <2>2, <2>3, <2>5, <2>6, <2>7
<1>4. \A d \in p_Clients \ {c} : p_at'[d] = p_at[d]
    BY <1>0, <1>2
<1>5. p_at'[c] = goal
    BY <1>0, <1>2
<1>6. P!TypeOK'
    <2>1. p_at' \in [p_Clients -> P!Requests \union {"waiting", "bound"}]
        BY <1>0, <1>2 DEF P!Requests
    <2> QED BY <1>0, <1>1, <1>3, <2>1 DEF P!TypeOK
<1>7. NothingBeforeTheStream' /\ Filtering'
    <2>1. ASSUME NEW d \in p_Clients, ~stream' PROVE p_at'[d] \in {"look", "create", "waiting"}
        BY <1>0, <1>3, <1>4, <1>5, <2>1 DEF NothingBeforeTheStream
    <2>2. ASSUME NEW d \in p_Clients, p_at'[d] = "bound" PROVE consumer'[Durable[d]] = Topic[d]
        BY <1>0, <1>1, <1>4, <1>5, <2>2 DEF Filtering
    <2> QED BY <2>1, <2>2 DEF NothingBeforeTheStream, Filtering
<1>8. Carried'
    <2> SUFFICES ASSUME NEW d \in p_Clients, p_at'[d] \in {"lookDurable", "addDurable", "bound"}
                 PROVE  P!Missing(d, subjects') = {} \/ raced' \/ d \in unsure'
        BY DEF Carried, P!Missing, P!Captures
    <2>1. CASE d = c
        BY <1>3, <1>5, <2>1
    <2>2. CASE d # c
        <3>1. P!Missing(d, subjects) = {} \/ raced \/ d \in unsure
            BY <1>0, <1>4, <2>2 DEF Carried
        <3>2. subjects \subseteq subjects' \/ raced'
            BY <1>0, <1>3, <1>4, <2>2 DEF NothingBeforeTheStream
        <3> QED BY <1>3, <3>1, <3>2, MoreSubjects
    <2> QED BY <2>1, <2>2
<1> QED BY <1>6, <1>7, <1>8 DEF BrokerInv

\* The durable, and the ways out of an attempt.
LEMMA DurableSteps ==
    ASSUME P!Parameters, BrokerInv, NEW c \in p_Clients,
           \/ P!Refused(c) \/ P!LooksAtDurable(c) \/ P!AddsDurable(c) \/ P!Unanswered(c)
           \/ P!AddsUnanswered(c)
           \/ P!Retries(c) \/ P!Reconnects(c)
    PROVE  BrokerInv'
<1>0. /\ P!TypeOK /\ NothingBeforeTheStream /\ Carried /\ Filtering
      /\ p_at \in [p_Clients -> P!Requests \union {"waiting", "bound"}]
      /\ consumer \in [P!Durables -> P!Subjects \union {P!NoFilter}]
      /\ Durable[c] \in P!Durables /\ Topic[c] \in P!Subjects
      /\ \A d \in p_Clients : Topic[d] # P!NoFilter /\ Durable[d] \in P!Durables
    BY DEF BrokerInv, P!TypeOK, P!Parameters, P!Subjects, P!Durables
<1>1. UNCHANGED <<stream, subjects, p_seen, raced>> /\ p_faults' \in 0..p_MaxFaults /\ p_fatal' \subseteq p_Clients
    <2>1. /\ p_faults' = p_faults \/ (p_faults < p_MaxFaults /\ p_faults' = p_faults + 1)
          /\ p_fatal' = p_fatal \/ p_fatal' = p_fatal \union {c}
        BY DEF P!Refused, P!LooksAtDurable, P!AddsDurable, P!Unanswered, P!AddsUnanswered, P!Retries, P!Reconnects, P!Fails
    <2>2. p_faults' \in 0..p_MaxFaults /\ p_fatal' \subseteq p_Clients
        BY <1>0, <2>1 DEF P!TypeOK, P!Parameters
    <2> QED BY <2>2 DEF P!Refused, P!LooksAtDurable, P!AddsDurable, P!Unanswered, P!AddsUnanswered, P!Retries, P!Reconnects
\* The client stays on the way to its durable, or goes back to the look.
<1>2. /\ p_at' \in [p_Clients -> P!Requests \union {"waiting", "bound"}]
      /\ \A d \in p_Clients \ {c} : p_at'[d] = p_at[d]
      /\ \/ unsure' = unsure \ {c} /\ p_at'[c] = "look"
         \/ /\ unsure' = unsure
            /\ \/ p_at'[c] \in {p_at[c], "waiting"}
               \/ /\ p_at[c] \in {"lookDurable", "addDurable"} /\ p_at'[c] \in {"addDurable", "bound"}
      /\ p_at'[c] = "bound" => p_at[c] = "bound" \/ consumer'[Durable[c]] = Topic[c]
    <2>1. CASE P!Refused(c)
        BY <1>0, <2>1 DEF P!Refused
    <2>2. CASE P!LooksAtDurable(c)
        BY <1>0, <2>2 DEF P!LooksAtDurable, P!Asks, P!Goes, P!Requests
    <2>3. CASE P!AddsDurable(c)
        <3>1. /\ p_at[c] = "addDurable" /\ unsure' = unsure
              /\ \/ /\ consumer' = [consumer EXCEPT ![Durable[c]] = Topic[c]]
                    /\ p_at' = [p_at EXCEPT ![c] = "bound"]
                 \/ p_at' = [p_at EXCEPT ![c] = "waiting"]
            BY <2>3 DEF P!AddsDurable, P!Asks, P!Goes
        <3> QED BY <1>0, <3>1 DEF P!Requests
    <2>4. CASE P!Unanswered(c)
        BY <1>0, <2>4 DEF P!Unanswered, P!Goes, P!Requests
    <2>5. CASE P!Retries(c) \/ P!Reconnects(c)
        BY <1>0, <2>5 DEF P!Retries, P!Reconnects, P!Goes, P!Requests
    <2>6. CASE P!AddsUnanswered(c)
        <3>1. p_at' = [p_at EXCEPT ![c] = "waiting"] /\ unsure' = unsure
            BY <2>6 DEF P!AddsUnanswered, P!Goes
        <3> QED BY <1>0, <3>1
    <2> QED BY <2>1, <2>2, <2>3, <2>4, <2>5, <2>6
\* A durable another client has bound is not given another filter.
<1>3. /\ consumer' \in [P!Durables -> P!Subjects \union {P!NoFilter}]
      /\ \A b \in P!Durables : consumer'[b] = consumer[b] \/ consumer[b] = P!NoFilter
    <2>1. \/ consumer' = consumer
          \/ consumer[Durable[c]] \in {P!NoFilter, Topic[c]} /\ consumer' = [consumer EXCEPT ![Durable[c]] = Topic[c]]
        BY DEF P!Refused, P!LooksAtDurable, P!AddsDurable, P!Unanswered, P!AddsUnanswered, P!Retries, P!Reconnects
    <2> QED BY <1>0, <2>1
<1>4. unsure' \subseteq p_Clients /\ \A d \in p_Clients \ {c} : d \in unsure' <=> d \in unsure
    BY <1>0, <1>2 DEF P!TypeOK
<1>5. P!TypeOK'
    BY <1>0, <1>1, <1>2, <1>3, <1>4 DEF P!TypeOK, P!Requests
<1>6. NothingBeforeTheStream'
    BY <1>0, <1>1, <1>2 DEF NothingBeforeTheStream
<1>7. Filtering'
    <2> SUFFICES ASSUME NEW d \in p_Clients, p_at'[d] = "bound" PROVE consumer'[Durable[d]] = Topic[d]
        BY DEF Filtering
    <2>1. p_at[d] = "bound" => consumer'[Durable[d]] = Topic[d]
        BY <1>0, <1>3 DEF Filtering
    <2> QED BY <1>2, <2>1
<1>8. Carried'
    <2> SUFFICES ASSUME NEW d \in p_Clients, p_at'[d] \in {"lookDurable", "addDurable", "bound"}
                 PROVE  P!Missing(d, subjects) = {} \/ raced \/ d \in unsure'
        BY <1>1 DEF Carried, P!Missing, P!Captures
    <2>1. CASE d = c
        BY <1>0, <1>2, <2>1 DEF Carried
    <2>2. CASE d # c
        BY <1>0, <1>2, <1>4, <2>2 DEF Carried
    <2> QED BY <2>1, <2>2
<1> QED BY <1>5, <1>6, <1>7, <1>8 DEF BrokerInv

LEMMA BrokerNext == P!Parameters /\ BrokerInv /\ [P!Next]_(P!vars) => BrokerInv'
<1> SUFFICES ASSUME P!Parameters, BrokerInv, [P!Next]_(P!vars) PROVE BrokerInv'
    OBVIOUS
<1>1. CASE UNCHANGED P!vars
    BY <1>1 DEF P!vars, BrokerInv, P!TypeOK, P!Missing, P!Captures, NothingBeforeTheStream, Carried, Filtering
<1>2. ASSUME NEW s \in OperatorAdds, P!Operator(s) PROVE BrokerInv'
    <2>1. /\ subjects' = subjects \union {s} /\ s \in P!Subjects
          /\ UNCHANGED <<stream, consumer, p_at, p_seen, p_fatal, raced, unsure, p_faults>>
        <3>1. s \in P!Subjects
            BY DEF P!Subjects
        <3> QED BY <1>2, <3>1 DEF P!Operator
    <2>2. P!TypeOK'
        BY <2>1 DEF BrokerInv, P!TypeOK
    <2>3. Carried'
        <3> SUFFICES ASSUME NEW c \in p_Clients, p_at[c] \in {"lookDurable", "addDurable", "bound"}
                     PROVE  P!Missing(c, subjects') = {} \/ raced \/ c \in unsure
            BY <2>1 DEF Carried, P!Missing, P!Captures
        <3>1. subjects \subseteq subjects'
            BY <2>1
        <3> QED BY <3>1, MoreSubjects DEF BrokerInv, Carried
    <2> QED BY <2>1, <2>2, <2>3 DEF BrokerInv, NothingBeforeTheStream, Filtering
<1> QED BY <1>1, <1>2, StreamSteps, DurableSteps DEF P!Next

\* A client that is bound has its subjects on the stream and a durable of its
\* own, but for a write another one overlapped and one without an answer.
LEMMA BoundServed == ASSUME P!Parameters PROVE P!Spec => []P!BoundSubjectsCarried
<1>1. P!Init => BrokerInv
    BY BrokerInit
<1>2. BrokerInv /\ [P!Next]_(P!vars) => BrokerInv'
    BY BrokerNext
<1>3. BrokerInv => P!BoundSubjectsCarried
    BY DEF BrokerInv, Carried, Filtering, P!BoundSubjectsCarried
<1> QED BY <1>1, <1>2, <1>3, PTL DEF P!Spec

\* A behaviour of the process is, for the broker, one of the part.
LEMMA ProvisioningPart == ProcessSpec => P!Spec
<1>1. ProcessInit => P!Init
    BY DEF ProcessInit
<1>2. [ProcessNext]_process_vars => [P!Next]_(P!vars)
    <2> SUFFICES ASSUME ProcessNext \/ UNCHANGED process_vars PROVE P!Next \/ UNCHANGED P!vars
        OBVIOUS
    <2>1. CASE Provisions
        BY <2>1 DEF Provisions, P!Next
    <2>2. CASE UNCHANGED p_vars
        BY <2>2 DEF p_vars, P!vars
    <2>3. ProcessNext => Provisions \/ UNCHANGED p_vars
        BY DEF ProcessNext, Lives, Ticking, Caching, Keying, FanningOut, Provisions, Assembles, Processes, Settles, Joins, About, Only
    <2>4. UNCHANGED process_vars => UNCHANGED p_vars
        BY DEF process_vars
    <2> QED BY <2>1, <2>2, <2>3, <2>4
<1> QED BY <1>1, <1>2, PTL DEF ProcessSpec, P!Spec

\* A client of the process that is bound has its subjects and its durable.
THEOREM BoundIsServed == ProcessSpec => []BoundSubjectsCarried
<1>1. P!Spec => []P!BoundSubjectsCarried
    BY BoundServed, ProvisioningParameters
<1> QED BY <1>1, ProvisioningPart, PTL DEF BoundSubjectsCarried

-----------------------------------------------------------------------------
(* Processing: whom an agent offers an event to, and what becomes of the    *)
(* results, for any agents, handlers, types and numbers of deliveries.      *)

\* What INSTANCE calls the cardinality in that module is the one of FiniteSets.
LEMMA SameCardinality == \A Z : E!Cardinality(Z) = Cardinality(Z)
BY DEF E!Cardinality, Cardinality

Rank(hs, i) == E!Cardinality({j \in E!Offered(hs) : E!Before(hs, j, i)}) + 1

\* The order of the candidates is strict and total.
LEMMA BeforeOrders ==
    ASSUME NEW hs, \A i \in DOMAIN hs : hs[i].priority \in Int, DOMAIN hs \subseteq Int
    PROVE  /\ \A i \in DOMAIN hs : ~E!Before(hs, i, i)
           /\ \A i, j \in DOMAIN hs : i = j \/ E!Before(hs, i, j) \/ E!Before(hs, j, i)
           /\ \A i, j, k \in DOMAIN hs : E!Before(hs, i, j) /\ E!Before(hs, j, k) => E!Before(hs, i, k)
BY DEF E!Before

\* Ranks number the handlers that are offered an event.
LEMMA Ranks ==
    ASSUME NEW hs, E!IsSequence(hs), \A i \in DOMAIN hs : hs[i].priority \in Int
    PROVE  LET n == Cardinality(E!Offered(hs)) IN
           /\ n \in Nat
           /\ \A i \in E!Offered(hs) : Rank(hs, i) \in 1..n
           /\ \A i, j \in E!Offered(hs) : E!Before(hs, i, j) => Rank(hs, i) < Rank(hs, j)
           /\ \A k \in 1..n : \E i \in E!Offered(hs) : Rank(hs, i) = k
<1> DEFINE Z == E!Offered(hs)
           n == Cardinality(Z)
           V(i) == {j \in Z : E!Before(hs, j, i)}
<1>1. Len(hs) \in Nat /\ DOMAIN hs = 1..Len(hs)
    BY DEF E!IsSequence
<1>2. Z \subseteq DOMAIN hs /\ DOMAIN hs \subseteq Int
    BY <1>1 DEF E!Offered
<1>3. IsFiniteSet(Z) /\ n \in Nat
    <2>1. IsFiniteSet(1..Len(hs))
        BY <1>1, FS_Interval
    <2> QED BY <1>1, <1>2, <2>1, FS_Subset, FS_CardinalityType
<1>4. /\ \A i \in Z : ~E!Before(hs, i, i)
      /\ \A i, j \in Z : i = j \/ E!Before(hs, i, j) \/ E!Before(hs, j, i)
      /\ \A i, j, k \in Z : E!Before(hs, i, j) /\ E!Before(hs, j, k) => E!Before(hs, i, k)
    <2> HIDE DEF Z
    <2> QED BY <1>2, BeforeOrders
<1> HIDE DEF Z
<1>5. \A i \in Z : IsFiniteSet(V(i)) /\ Cardinality(V(i)) \in Nat
    BY <1>3, FS_Subset, FS_CardinalityType
<1>6. ASSUME NEW i \in Z PROVE Cardinality(V(i)) < n
    <2>1. V(i) \in SUBSET Z /\ V(i) # Z
        BY <1>4
    <2>2. Cardinality(V(i)) <= n /\ Cardinality(V(i)) # n
        BY <1>3, <2>1, FS_Subset
    <2> QED BY <1>3, <1>5, <2>2
<1>7. ASSUME NEW i \in Z, NEW j \in Z, E!Before(hs, i, j) PROVE Cardinality(V(i)) < Cardinality(V(j))
    <2>1. V(i) \in SUBSET V(j) /\ V(i) # V(j)
        BY <1>4, <1>7
    <2>2. Cardinality(V(i)) <= Cardinality(V(j)) /\ Cardinality(V(i)) # Cardinality(V(j))
        BY <1>5, <2>1, FS_Subset
    <2> QED BY <1>5, <2>2
<1>8. \A i : Rank(hs, i) = Cardinality(V(i)) + 1
    BY SameCardinality DEF Rank, Z
<1> HIDE DEF V, n
<1>9. \A i \in Z : Rank(hs, i) \in 1..n
    BY <1>3, <1>5, <1>6, <1>8
<1>10. \A i, j \in Z : E!Before(hs, i, j) => Rank(hs, i) < Rank(hs, j)
    BY <1>5, <1>7, <1>8
<1>11. \A k \in 1..n : \E i \in Z : Rank(hs, i) = k
    <2> DEFINE f == [i \in Z |-> Rank(hs, i)]
    <2>1. f \in [Z -> 1..n] /\ \A i \in Z : f[i] = Rank(hs, i)
        BY <1>9
    <2>2. \A i, j \in Z : f[i] = f[j] => i = j
        BY <1>3, <1>4, <1>9, <1>10, <2>1
    <2>3. f \in Injection(Z, 1..n)
        BY <2>1, <2>2, Fun_IsInj
    <2>4. IsFiniteSet(1..n) /\ Cardinality(1..n) = n
        BY <1>3, FS_Interval
    <2>5. f \in Surjection(Z, 1..n)
        BY <2>3, <2>4, FS_Injection DEF n
    <2> HIDE DEF f
    <2>6. \A k \in 1..n : \E i \in Z : f[i] = k
        BY <2>5 DEF Surjection
    <2> QED BY <2>1, <2>6
<1> QED BY <1>3, <1>9, <1>10, <1>11 DEF Z, n

\* An event is offered to each handler of an agent that declares its type, or
\* none, once, in the order of the priorities and then of the declarations.
THEOREM OfferedOnceInOrder ==
    ASSUME E!Parameters, NEW a \in e_Agents
    PROVE  \E p \in Bijection(1..Len(E!Candidates(a)), E!Offered(e_Handlers[a])) :
              /\ \A k \in 1..Len(E!Candidates(a)) : E!Candidates(a)[k] = e_Handlers[a][p[k]]
              /\ \A k, l \in 1..Len(E!Candidates(a)) : k < l => E!Before(e_Handlers[a], p[k], p[l])
<1> DEFINE hs == e_Handlers[a]
           Z == E!Offered(hs)
           n == Cardinality(Z)
           p == [k \in 1..n |-> CHOOSE i \in Z : Rank(hs, i) = k]
<1>1. /\ n \in Nat
      /\ \A i \in Z : Rank(hs, i) \in 1..n
      /\ \A i, j \in Z : E!Before(hs, i, j) => Rank(hs, i) < Rank(hs, j)
      /\ \A k \in 1..n : \E i \in Z : Rank(hs, i) = k
    BY Ranks DEF E!Parameters
<1>2. E!Candidates(a) = [k \in 1..n |-> hs[p[k]]]
    <2>0. E!Cardinality(Z) = n
        BY SameCardinality
    <2>1. E!Candidates(a) = [k \in 1..E!Cardinality(Z) |-> hs[CHOOSE i \in Z : Rank(hs, i) = k]]
        BY DEF E!Candidates, Rank
    <2>2. \A k \in 1..n : p[k] = CHOOSE i \in Z : Rank(hs, i) = k
        BY Zenon
    <2> HIDE DEF p, Z, n, hs
    <2> QED BY <2>0, <2>1, <2>2, Zenon
<1>3. Len(E!Candidates(a)) = n /\ \A k \in 1..n : E!Candidates(a)[k] = hs[p[k]]
    BY <1>1, <1>2
<1>4. \A k \in 1..n : p[k] \in Z /\ Rank(hs, p[k]) = k
    BY <1>1
<1>5. \A i, j \in Z : i = j \/ E!Before(hs, i, j) \/ E!Before(hs, j, i)
    <2>1. E!IsSequence(hs) /\ \A i \in DOMAIN hs : hs[i].priority \in Int
        BY DEF E!Parameters
    <2>2. Z \subseteq DOMAIN hs
        BY DEF E!Offered
    <2> HIDE DEF Z, hs
    <2>3. DOMAIN hs \subseteq Int
        BY <2>1 DEF E!IsSequence
    <2> QED BY <2>1, <2>2, <2>3, BeforeOrders
<1> HIDE DEF p, n, Z, hs
<1>6. \A k, l \in 1..n : k < l => E!Before(hs, p[k], p[l])
    <2> SUFFICES ASSUME NEW k \in 1..n, NEW l \in 1..n, k < l PROVE E!Before(hs, p[k], p[l])
        OBVIOUS
    <2>1. p[k] # p[l]
        BY <1>1, <1>4
    <2>2. ~E!Before(hs, p[l], p[k])
        BY <1>1, <1>4
    <2> QED BY <1>4, <1>5, <2>1, <2>2
<1>7. p \in Bijection(1..n, Z)
    <2>1. p \in [1..n -> Z]
        BY <1>4 DEF p
    <2>2. \A k, l \in 1..n : p[k] = p[l] => k = l
        BY <1>4
    <2>3. \A i \in Z : \E k \in 1..n : p[k] = i
        <3> SUFFICES ASSUME NEW i \in Z PROVE p[Rank(hs, i)] = i
            BY <1>1
        <3> DEFINE k == Rank(hs, i)
        <3>1. k \in 1..n /\ Rank(hs, p[k]) = Rank(hs, i) /\ p[k] \in Z
            BY <1>1, <1>4
        <3> HIDE DEF k
        <3>2. ~E!Before(hs, p[k], i) /\ ~E!Before(hs, i, p[k])
            BY <1>1, <3>1
        <3> QED BY <1>5, <3>1, <3>2 DEF k
    <2> QED BY <2>1, <2>2, <2>3, Fun_IsBij
<1> QED BY <1>3, <1>6, <1>7 DEF Z, hs

\* What a run may give, and the place of an agent.
Outcomes == {<<>>} \union UNION {UNION {e_Handlers[a][i].gives : i \in DOMAIN e_Handlers[a]} : a \in e_Agents}
Places == {"due", "dispatch", "publish", "processed", "skipped", "unhandled", "duplicate", "term", "spent"}

ProcessingType ==
    /\ named \in BOOLEAN
    /\ e_at \in [e_Agents -> Places] /\ e_attempt \in [e_Agents -> Nat]
    /\ place \in [e_Agents -> Nat \ {0}] /\ results \in [e_Agents -> Outcomes]
    /\ e_marker \subseteq e_Agents /\ answered \subseteq e_Agents

\* The consumer has seen the ids of what it kept, and no two are alike.
IdOf(r) == IF named THEN <<r[1], r[2], r[3]>> ELSE r
Recorded ==
    /\ \A r \in accepted : r \in e_Agents \X Publishable \X Nat \X Nat /\ r[4] \in 1..e_attempt[r[1]]
    /\ e_issued = {IdOf(r) : r \in accepted}
    /\ \A r, s \in accepted : IdOf(r) = IdOf(s) => r = s

\* What a run has published so far is at the consumer, from this delivery or an
\* earlier one.
KeptOf(a, i) == \E n \in 1..e_attempt[a] : <<a, results[a][i], i, n>> \in accepted
CompleteOf(a) ==
    /\ e_at[a] \in {"dispatch", "publish"} => e_attempt[a] # 0
    /\ e_at[a] \in {"publish", "processed"} =>
          \A i \in DOMAIN results[a] : i < place[a] /\ results[a][i] \in Publishable => KeptOf(a, i)
    /\ e_at[a] = "processed" => place[a] > Len(results[a])

\* A marker nobody answered for belongs to the run that is being made.
AnsweredOf(a) ==
    /\ e_at[a] \in {"processed", "skipped", "unhandled", "duplicate"} => a \in answered
    /\ e_at[a] \in {"due", "term", "spent"} /\ a \in e_marker => a \in answered

ProcessingInv ==
    /\ ProcessingType /\ Recorded
    /\ \A a \in e_Agents : CompleteOf(a) /\ AnsweredOf(a)

LEMMA OutcomesAreSequences ==
    ASSUME E!Parameters, NEW r \in Outcomes
    PROVE  Len(r) \in Nat /\ DOMAIN r = 1..Len(r)
<1>1. CASE r = <<>>
    BY <1>1
<1>2. CASE \E a \in e_Agents : \E i \in DOMAIN e_Handlers[a] : r \in e_Handlers[a][i].gives
    <2>1. E!IsSequence(r)
        BY <1>2 DEF E!Parameters
    <2> QED BY <2>1 DEF E!IsSequence
<1> QED BY <1>1, <1>2 DEF Outcomes

LEMMA ProcessingInit == E!Init => ProcessingInv
<1> SUFFICES ASSUME E!Init PROVE ProcessingInv
    OBVIOUS
<1>1. ProcessingType
    <2>1. results \in [e_Agents -> Outcomes]
        BY DEF E!Init, Outcomes
    <2> QED BY <2>1 DEF E!Init, ProcessingType, Places
<1>2. Recorded
    BY DEF E!Init, Recorded
<1>3. \A a \in e_Agents : CompleteOf(a) /\ AnsweredOf(a)
    BY DEF E!Init, CompleteOf, AnsweredOf
<1> QED BY <1>1, <1>2, <1>3 DEF ProcessingInv

\* A step of one agent: what the consumer keeps only grows, so the other agents
\* are as they were.
LEMMA Elsewhere ==
    ASSUME ProcessingInv, NEW a \in e_Agents, ProcessingType', Recorded',
           \A b \in e_Agents \ {a} :
              /\ e_at'[b] = e_at[b] /\ e_attempt'[b] = e_attempt[b] /\ place'[b] = place[b] /\ results'[b] = results[b]
              /\ b \in e_marker' => b \in e_marker
              /\ b \in answered => b \in answered',
           accepted \subseteq accepted',
           CompleteOf(a)', AnsweredOf(a)'
    PROVE  ProcessingInv'
<1>1. ASSUME NEW b \in e_Agents \ {a} PROVE CompleteOf(b)' /\ AnsweredOf(b)'
    <2>1. CompleteOf(b) /\ AnsweredOf(b)
        BY DEF ProcessingInv
    <2>2. \A i : KeptOf(b, i) => KeptOf(b, i)'
        BY DEF KeptOf
    <2>3. CompleteOf(b)'
        BY <2>1, <2>2 DEF CompleteOf
    <2>4. AnsweredOf(b)'
        BY <2>1 DEF AnsweredOf
    <2> QED BY <2>3, <2>4
<1> QED BY <1>1 DEF ProcessingInv

\* The consumer as it was; a delivery only counts up.
LEMMA SameRecord ==
    ASSUME ProcessingInv, UNCHANGED <<accepted, e_issued, named>>, NEW a \in e_Agents,
           e_attempt' \in [e_Agents -> Nat], \A b \in e_Agents : e_attempt[b] <= e_attempt'[b]
    PROVE  Recorded'
<1>0. Recorded /\ e_attempt \in [e_Agents -> Nat]
    BY DEF ProcessingInv, ProcessingType
<1>1. \A r \in accepted : r \in e_Agents \X Publishable \X Nat \X Nat /\ r[4] \in 1..e_attempt'[r[1]]
    <2> SUFFICES ASSUME NEW r \in accepted PROVE r[4] \in 1..e_attempt'[r[1]]
        BY <1>0 DEF Recorded
    <2>1. r[1] \in e_Agents /\ r[4] \in 1..e_attempt[r[1]]
        BY <1>0 DEF Recorded
    <2> QED BY <1>0, <2>1
<1>2. \A r : IdOf(r)' = IdOf(r)
    BY DEF IdOf
<1> QED BY <1>0, <1>1, <1>2 DEF Recorded

\* One result at the consumer: kept now, or taken for one it has.
LEMMA OneResult ==
    ASSUME ProcessingInv, NEW a \in e_Agents, e_at[a] = "publish",
           NEW i, i = place[a], NEW type, type = results[a][i], type \in Publishable
    PROVE  /\ E!ResultId(a, i) \in e_issued => KeptOf(a, i)
           /\ E!ResultId(a, i) \notin e_issued
                 /\ accepted' = accepted \union {<<a, type, i, e_attempt[a]>>}
                 /\ e_issued' = e_issued \union {E!ResultId(a, i)}
                 /\ UNCHANGED <<named, e_attempt>>
              => Recorded'
<1> DEFINE e == <<a, type, i, e_attempt[a]>>
           id == E!ResultId(a, i)
<1>0. /\ Recorded /\ e_attempt \in [e_Agents -> Nat] /\ e_attempt[a] \in Nat \ {0} /\ i \in Nat
      /\ named \in BOOLEAN
    BY DEF ProcessingInv, ProcessingType, CompleteOf
<1>1. IdOf(e) = id
    BY DEF E!ResultId, IdOf
<1>2. ASSUME id \in e_issued PROVE KeptOf(a, i)
    <2>1. PICK r \in accepted : IdOf(r) = id
        BY <1>0, <1>2 DEF Recorded
    <2>2. r \in e_Agents \X Publishable \X Nat \X Nat /\ r[4] \in 1..e_attempt[r[1]]
        BY <1>0 DEF Recorded
    <2>3. r[1] = a /\ r[2] = type /\ r[3] = i
        <3>1. CASE named
            BY <1>1, <2>1, <3>1 DEF IdOf
        <3>2. CASE ~named
            BY <1>1, <2>1, <3>2 DEF IdOf
        <3> QED BY <3>1, <3>2
    <2>4. r = <<a, type, i, r[4]>>
        BY <2>2, <2>3
    <2> QED BY <2>1, <2>2, <2>3, <2>4 DEF KeptOf
<1>3. ASSUME id \notin e_issued, accepted' = accepted \union {e}, e_issued' = e_issued \union {id},
             UNCHANGED <<named, e_attempt>>
      PROVE  Recorded'
    <2>1. e \in e_Agents \X Publishable \X Nat \X Nat /\ e[4] \in 1..e_attempt[e[1]]
        BY <1>0
    <2>2. \A r : IdOf(r)' = IdOf(r)
        BY <1>3 DEF IdOf
    <2>3. \A r \in accepted : IdOf(r) # IdOf(e)
        BY <1>0, <1>1, <1>3 DEF Recorded
    <2> HIDE DEF e, id
    <2>4. e_issued' = {IdOf(r) : r \in accepted'}
        BY <1>0, <1>1, <1>3 DEF Recorded
    <2>5. \A r, s \in accepted' : IdOf(r) = IdOf(s) => r = s
        BY <1>0, <1>3, <2>3 DEF Recorded
    <2>6. \A r \in accepted' : r \in e_Agents \X Publishable \X Nat \X Nat /\ r[4] \in 1..e_attempt[r[1]]
        BY <1>0, <1>3, <2>1 DEF Recorded
    <2> QED BY <1>3, <2>2, <2>4, <2>5, <2>6 DEF Recorded
<1> QED BY <1>2, <1>3

\* Deliveries that come to nothing, and answers that are lost.
LEMMA FailedSteps ==
    ASSUME ProcessingInv, NEW a \in e_Agents, E!Unopened(a) \/ E!Raises(a) \/ E!AckLost(a)
    PROVE  ProcessingInv'
<1>0. ProcessingType /\ AnsweredOf(a)
    BY DEF ProcessingInv
<1>1. UNCHANGED <<accepted, e_issued, named, answered, place, results>>
    BY DEF E!Unopened, E!Raises, E!AckLost, E!Fails, E!Stays, E!Unchanged
<1>2. PICK s \in {"due", "spent", "term"} : e_at' = [e_at EXCEPT ![a] = s]
    <2>1. CASE E!Unopened(a)
        BY <2>1 DEF E!Unopened, E!Goes
    <2>2. CASE E!Raises(a)
        BY <2>2 DEF E!Raises, E!Fails, E!Answers, E!Goes
    <2>3. CASE E!AckLost(a)
        BY <2>3 DEF E!AckLost, E!Goes
    <2> QED BY <2>1, <2>2, <2>3
<1>3. \/ e_attempt' = [e_attempt EXCEPT ![a] = @ + 1]
      \/ e_attempt' = e_attempt
    BY DEF E!Unopened, E!Raises, E!AckLost, E!Fails
<1>4. \/ e_marker' = e_marker \ {a}
      \/ e_marker' = e_marker /\ e_at[a] \in {"due", "processed", "skipped", "unhandled", "duplicate"}
    BY DEF E!Unopened, E!Raises, E!AckLost, E!Fails
<1>5. /\ e_attempt' \in [e_Agents -> Nat] /\ \A b \in e_Agents : e_attempt[b] <= e_attempt'[b]
      /\ \A b \in e_Agents \ {a} : e_attempt'[b] = e_attempt[b]
    BY <1>0, <1>3 DEF ProcessingType
<1>6. ProcessingType'
    <2>1. e_at' \in [e_Agents -> Places]
        BY <1>0, <1>2 DEF ProcessingType, Places
    <2> QED BY <1>0, <1>1, <1>4, <1>5, <2>1 DEF ProcessingType, Outcomes
<1>7. Recorded'
    BY <1>1, <1>5, SameRecord
<1>8. e_at'[a] \in {"due", "spent", "term"} /\ \A b \in e_Agents \ {a} : e_at'[b] = e_at[b]
    BY <1>0, <1>2 DEF ProcessingType
<1>9. CompleteOf(a)'
    BY <1>8 DEF CompleteOf
<1>10. AnsweredOf(a)'
    BY <1>0, <1>1, <1>4, <1>8 DEF AnsweredOf
<1> QED BY <1>1, <1>4, <1>5, <1>6, <1>7, <1>8, <1>9, <1>10, Elsewhere

\* A delivery is taken up, and its event offered to the handlers.
LEMMA DispatchSteps ==
    ASSUME E!Parameters, ProcessingInv, NEW a \in e_Agents, E!Arrives(a) \/ E!Passes(a) \/ E!Gives(a)
    PROVE  ProcessingInv'
<1>0. /\ ProcessingType /\ CompleteOf(a) /\ AnsweredOf(a)
      /\ e_at \in [e_Agents -> Places] /\ e_attempt \in [e_Agents -> Nat]
      /\ place \in [e_Agents -> Nat \ {0}] /\ results \in [e_Agents -> Outcomes]
    BY DEF ProcessingInv, ProcessingType
<1>1. UNCHANGED <<accepted, e_issued, named, answered>> /\ Outcomes' = Outcomes
    BY DEF E!Arrives, E!Passes, E!Gives, E!Stays, E!Unchanged, Outcomes
<1>2. CASE E!Arrives(a)
    <2>1. /\ e_at[a] = "due" /\ e_attempt' = [e_attempt EXCEPT ![a] = @ + 1]
          /\ place' = [place EXCEPT ![a] = 1] /\ results' = [results EXCEPT ![a] = <<>>]
          /\ \/ a \in e_marker /\ e_at' = [e_at EXCEPT ![a] = "duplicate"] /\ e_marker' = e_marker
             \/ e_at' = [e_at EXCEPT ![a] = "dispatch"] /\ e_marker' \in {e_marker, e_marker \union {a}}
        BY <1>2 DEF E!Arrives, E!Goes
    <2>2. /\ e_attempt' \in [e_Agents -> Nat] /\ \A b \in e_Agents : e_attempt[b] <= e_attempt'[b]
          /\ e_attempt'[a] # 0 /\ \A b \in e_Agents \ {a} : e_attempt'[b] = e_attempt[b]
        BY <1>0, <2>1
    <2>3. /\ place' \in [e_Agents -> Nat \ {0}] /\ results' \in [e_Agents -> Outcomes]
          /\ \A b \in e_Agents \ {a} : place'[b] = place[b] /\ results'[b] = results[b]
        <3>1. <<>> \in Outcomes /\ 1 \in Nat \ {0}
            BY DEF Outcomes
        <3> QED BY <1>0, <2>1, <3>1
    <2>4. /\ e_at' \in [e_Agents -> Places] /\ \A b \in e_Agents \ {a} : e_at'[b] = e_at[b]
          /\ e_at'[a] \in {"duplicate", "dispatch"} /\ (e_at'[a] = "duplicate" => a \in e_marker)
        BY <1>0, <2>1 DEF Places
    <2>5. e_marker' \subseteq e_Agents /\ \A b \in e_Agents \ {a} : b \in e_marker' => b \in e_marker
        BY <1>0, <2>1 DEF ProcessingType
    <2>6. ProcessingType'
        BY <1>0, <1>1, <2>2, <2>3, <2>4, <2>5 DEF ProcessingType
    <2>7. Recorded'
        BY <1>1, <2>2, SameRecord
    <2>8. CompleteOf(a)'
        BY <2>2, <2>4 DEF CompleteOf
    <2>9. AnsweredOf(a)'
        BY <1>0, <1>1, <2>1, <2>4 DEF AnsweredOf
    <2> QED BY <1>1, <2>2, <2>3, <2>4, <2>5, <2>6, <2>7, <2>8, <2>9, Elsewhere
\* The next candidate, or the publishing of what one gave.
<1>3. ASSUME e_at[a] = "dispatch", UNCHANGED <<e_attempt, e_marker>>,
             NEW s \in {"dispatch", "publish"}, e_at' = [e_at EXCEPT ![a] = s],
             NEW k \in Nat \ {0}, place' = [place EXCEPT ![a] = k], s = "publish" => k = 1,
             NEW r \in Outcomes, results' = [results EXCEPT ![a] = r]
      PROVE  ProcessingInv'
    <2>1. /\ place' \in [e_Agents -> Nat \ {0}] /\ results' \in [e_Agents -> Outcomes] /\ e_at' \in [e_Agents -> Places]
          /\ \A b \in e_Agents \ {a} : place'[b] = place[b] /\ results'[b] = results[b] /\ e_at'[b] = e_at[b]
          /\ e_at'[a] = s /\ place'[a] = k
        BY <1>0, <1>3 DEF Places
    <2>2. ProcessingType'
        BY <1>0, <1>1, <1>3, <2>1 DEF ProcessingType
    <2>3. Recorded'
        BY <1>0, <1>1, <1>3, SameRecord
    <2>4. DOMAIN results'[a] = 1..Len(results'[a]) /\ Len(results'[a]) \in Nat
        BY <2>1, OutcomesAreSequences
    <2>5. CompleteOf(a)'
        BY <1>0, <1>3, <2>1, <2>4 DEF CompleteOf
    <2>6. AnsweredOf(a)'
        BY <1>3, <2>1 DEF AnsweredOf
    <2> QED BY <1>1, <1>3, <2>1, <2>2, <2>3, <2>5, <2>6, Elsewhere
<1>4. CASE E!Passes(a)
    <2>1. /\ e_at[a] = "dispatch" /\ place' = [place EXCEPT ![a] = place[a] + 1]
          /\ UNCHANGED <<e_at, e_attempt, results, e_marker>>
        BY <1>4 DEF E!Passes, E!Dispatching
    <2>2. e_at = [e_at EXCEPT ![a] = "dispatch"] /\ results = [results EXCEPT ![a] = results[a]]
          /\ place[a] + 1 \in Nat \ {0} /\ results[a] \in Outcomes
        BY <1>0, <2>1
    <2> QED BY <1>3, <2>1, <2>2
<1>5. CASE E!Gives(a)
    <2>1. /\ e_at[a] = "dispatch" /\ place[a] <= Len(E!Candidates(a)) /\ UNCHANGED <<e_attempt, e_marker>>
          /\ e_at' = [e_at EXCEPT ![a] = "publish"] /\ place' = [place EXCEPT ![a] = 1]
        BY <1>5 DEF E!Gives, E!Dispatching, E!Goes
    <2>2. PICK r \in E!Current(a).gives : results' = [results EXCEPT ![a] = r]
        BY <1>5 DEF E!Gives
    <2>3. \E i \in DOMAIN e_Handlers[a] : E!Current(a) = e_Handlers[a][i]
        <3> DEFINE c == E!Candidates(a)
        <3>1. PICK p \in Bijection(1..Len(c), E!Offered(e_Handlers[a])) :
                  \A k \in 1..Len(c) : c[k] = e_Handlers[a][p[k]]
            BY OfferedOnceInOrder
        <3>2. Len(c) \in Nat
            <4>1. E!Cardinality(E!Offered(e_Handlers[a])) \in Nat
                BY Ranks, SameCardinality DEF E!Parameters
            <4> QED BY <4>1 DEF E!Candidates
        <3> HIDE DEF c
        <3>3. place[a] \in 1..Len(c)
            BY <1>0, <2>1, <3>2 DEF c
        <3>4. p[place[a]] \in E!Offered(e_Handlers[a])
            BY <3>1, <3>3 DEF Bijection, Injection
        <3> QED BY <3>1, <3>3, <3>4 DEF E!Current, E!Offered, c
    <2>4. r \in Outcomes
        BY <2>2, <2>3 DEF Outcomes
    <2>5. 1 \in Nat \ {0} /\ "publish" \in {"dispatch", "publish"}
        OBVIOUS
    <2> QED BY <1>3, <2>1, <2>2, <2>4, <2>5, Zenon
<1> QED BY <1>2, <1>4, <1>5

\* The results, and the acknowledgement.
LEMMA PublishSteps ==
    ASSUME E!Parameters, ProcessingInv, NEW a \in e_Agents, E!Publishes(a) \/ E!PublishFails(a)
    PROVE  ProcessingInv'
<1>i. PICK i : i = place[a]
    OBVIOUS
<1> DEFINE type == results[a][i]
           id == E!ResultId(a, i)
           e == <<a, type, i, e_attempt[a]>>
<1>0. /\ ProcessingType /\ CompleteOf(a) /\ AnsweredOf(a) /\ Recorded
      /\ e_at \in [e_Agents -> Places] /\ e_attempt \in [e_Agents -> Nat]
      /\ place \in [e_Agents -> Nat \ {0}] /\ results \in [e_Agents -> Outcomes]
      /\ i \in Nat \ {0} /\ e_at[a] = "publish" /\ e_attempt[a] \in Nat \ {0}
    BY <1>i DEF ProcessingInv, ProcessingType, CompleteOf, E!Publishes, E!PublishFails
<1>1. UNCHANGED <<named, answered, e_attempt, results>> /\ Outcomes' = Outcomes
    BY DEF E!Publishes, E!PublishFails, E!Unchanged, Outcomes
<1>2. \/ accepted' = accepted /\ e_issued' = e_issued
      \/ /\ type \in Publishable /\ id \notin e_issued
         /\ accepted' = accepted \union {e} /\ e_issued' = e_issued \union {id}
    BY <1>i DEF E!Publishes, E!PublishFails
<1> HIDE DEF id
<1>3. Recorded' /\ accepted \subseteq accepted'
    <2>1. CASE accepted' = accepted /\ e_issued' = e_issued
        BY <1>0, <1>1, <2>1, SameRecord
    <2>2. CASE /\ type \in Publishable /\ id \notin e_issued
               /\ accepted' = accepted \union {e} /\ e_issued' = e_issued \union {id}
        BY <1>i, <1>0, <1>1, <2>2, OneResult DEF id
    <2> QED BY <1>2, <2>1, <2>2
<1>4. \A j : KeptOf(a, j) => KeptOf(a, j)'
    BY <1>1, <1>3 DEF KeptOf
<1>5. CASE E!Publishes(a)
    <2>1. /\ place' = [place EXCEPT ![a] = i + 1] /\ UNCHANGED <<e_at, e_marker>>
          /\ type \in Publishable /\ id \notin e_issued => accepted' = accepted \union {e}
        BY <1>i, <1>5 DEF E!Publishes, id
    <2>2. /\ place' \in [e_Agents -> Nat \ {0}] /\ place'[a] = i + 1
          /\ \A b \in e_Agents \ {a} : place'[b] = place[b]
        BY <1>i, <1>0, <2>1
    <2>3. type \in Publishable => KeptOf(a, i)'
        <3>1. ASSUME type \in Publishable, id \in e_issued PROVE KeptOf(a, i)'
            BY <1>i, <1>0, <1>4, <3>1, OneResult DEF id
        <3>2. ASSUME type \in Publishable, id \notin e_issued PROVE KeptOf(a, i)'
            <4>1. e_attempt[a] \in 1..e_attempt[a] /\ e \in accepted'
                BY <1>0, <2>1, <3>2
            <4> QED BY <1>1, <4>1 DEF KeptOf
        <3> QED BY <3>1, <3>2
    <2>4. DOMAIN results[a] = 1..Len(results[a]) /\ Len(results[a]) \in Nat
        BY <1>0, OutcomesAreSequences
    <2>5. CompleteOf(a)'
        <3> SUFFICES ASSUME NEW j \in DOMAIN results[a], j < i + 1, results[a][j] \in Publishable
                     PROVE  KeptOf(a, j)'
            BY <1>0, <1>1, <2>1, <2>2 DEF CompleteOf
        <3>1. CASE j = i
            BY <2>3, <3>1
        <3>2. CASE j # i
            <4>1. j < i
                BY <1>0, <2>4, <3>2
            <4> QED BY <1>i, <1>0, <1>4, <4>1 DEF CompleteOf
        <3> QED BY <3>1, <3>2
    <2>6. AnsweredOf(a)'
        BY <1>0, <1>1, <2>1 DEF AnsweredOf
    <2>7. ProcessingType'
        BY <1>0, <1>1, <2>1, <2>2 DEF ProcessingType
    <2> QED BY <1>1, <1>3, <2>1, <2>2, <2>5, <2>6, <2>7, Elsewhere
<1>6. CASE E!PublishFails(a)
    <2>1. /\ e_marker' = e_marker \ {a} /\ place' = place
          /\ \E s \in {"due", "spent"} : e_at' = [e_at EXCEPT ![a] = s]
        BY <1>6 DEF E!PublishFails, E!Answers, E!Goes
    <2>2. /\ e_at' \in [e_Agents -> Places] /\ e_at'[a] \in {"due", "spent"}
          /\ \A b \in e_Agents \ {a} : e_at'[b] = e_at[b]
        BY <1>0, <2>1 DEF Places
    <2>3. ProcessingType'
        BY <1>0, <1>1, <2>1, <2>2 DEF ProcessingType
    <2>4. CompleteOf(a)' /\ AnsweredOf(a)'
        BY <2>1, <2>2 DEF CompleteOf, AnsweredOf
    <2> QED BY <1>1, <1>3, <2>1, <2>2, <2>3, <2>4, Elsewhere
<1> QED BY <1>5, <1>6

LEMMA DoneSteps ==
    ASSUME E!Parameters, ProcessingInv, NEW a \in e_Agents, E!Skips(a) \/ E!Unhandled(a) \/ E!Processed(a)
    PROVE  ProcessingInv'
<1>0. /\ ProcessingType /\ CompleteOf(a)
      /\ e_at \in [e_Agents -> Places] /\ e_attempt \in [e_Agents -> Nat]
    BY DEF ProcessingInv, ProcessingType
<1>1. /\ answered' = answered \union {a}
      /\ UNCHANGED <<named, e_attempt, place, results, e_marker, accepted, e_issued>>
      /\ Outcomes' = Outcomes
    BY DEF E!Skips, E!Unhandled, E!Processed, E!Done, E!Stays, Outcomes
<1>2. PICK s \in {"skipped", "unhandled", "processed"} :
         /\ e_at' = [e_at EXCEPT ![a] = s]
         /\ s = "processed" => e_at[a] = "publish" /\ place[a] > Len(results[a])
    BY DEF E!Skips, E!Unhandled, E!Processed, E!Done, E!Goes
<1>3. e_at' \in [e_Agents -> Places] /\ e_at'[a] = s /\ \A b \in e_Agents \ {a} : e_at'[b] = e_at[b]
    BY <1>0, <1>2 DEF Places
<1>4. ProcessingType'
    BY <1>0, <1>1, <1>3 DEF ProcessingType
<1>5. Recorded'
    BY <1>0, <1>1, SameRecord
<1>6. CompleteOf(a)'
    BY <1>0, <1>1, <1>2, <1>3 DEF CompleteOf, KeptOf
<1>7. AnsweredOf(a)'
    BY <1>1, <1>3 DEF AnsweredOf
<1> QED BY <1>1, <1>3, <1>4, <1>5, <1>6, <1>7, Elsewhere

LEMMA ProcessingNext == E!Parameters /\ ProcessingInv /\ [E!Next]_(E!vars) => ProcessingInv'
<1> SUFFICES ASSUME E!Parameters, ProcessingInv, [E!Next]_(E!vars) PROVE ProcessingInv'
    OBVIOUS
<1>1. CASE UNCHANGED E!vars
    <2>1. UNCHANGED <<named, e_at, e_attempt, place, results, e_marker, accepted, e_issued, answered>> /\ Outcomes' = Outcomes
        BY <1>1 DEF E!vars, Outcomes
    <2>2. ProcessingType'
        BY <2>1 DEF ProcessingInv, ProcessingType
    <2>3. Recorded'
        BY <2>1 DEF ProcessingInv, Recorded, IdOf
    <2>4. \A a \in e_Agents : CompleteOf(a)' /\ AnsweredOf(a)'
        BY <2>1 DEF ProcessingInv, CompleteOf, AnsweredOf, KeptOf
    <2> QED BY <2>2, <2>3, <2>4 DEF ProcessingInv
<1> QED BY <1>1, FailedSteps, DispatchSteps, PublishSteps, DoneSteps DEF E!Next

LEMMA ThreeOfFour ==
    ASSUME NEW r, NEW A, NEW B, NEW W, NEW Y, r \in A \X B \X W \X Y
    PROVE  SubSeq(r, 1, 3) = <<r[1], r[2], r[3]>>
<1> DEFINE U == A \union B \union W \union Y
<1>1. \A i \in 1..3 : r[i] \in U
    <2>1. r[1] \in A /\ r[2] \in B /\ r[3] \in W
        OBVIOUS
    <2> QED BY <2>1
<1> HIDE DEF U
<1> DEFINE s == SubSeq(r, 1, 3)
           t == <<r[1], r[2], r[3]>>
<1>2. s \in Seq(U) /\ Len(s) = 3 /\ \A i \in 1..3 : s[i] = r[i]
    BY <1>1, SubSeqProperties
<1>3. t \in Seq(U) /\ Len(t) = 3 /\ \A i \in 1..3 : t[i] = r[i]
    BY <1>1
<1> HIDE DEF s, t
<1>4. s = t
    BY <1>2, <1>3, SeqEqual
<1> QED BY <1>4 DEF s, t

\* What is acknowledged as processed is at the consumer, once, whatever earlier
\* deliveries had published; what is taken for a duplicate was answered.
LEMMA ResultOnce == ASSUME E!Parameters PROVE E!Spec => []E!ResultsKeptOnce
<1>1. E!Init => ProcessingInv
    BY ProcessingInit
<1>2. ProcessingInv /\ [E!Next]_(E!vars) => ProcessingInv'
    BY ProcessingNext
<1>3. ProcessingInv => E!ResultsKeptOnce
    <2> SUFFICES ASSUME ProcessingInv PROVE E!ResultsKeptOnce
        OBVIOUS
    <2>0. Recorded /\ \A a \in e_Agents : CompleteOf(a) /\ AnsweredOf(a)
        BY DEF ProcessingInv
    <2>1. ASSUME NEW a \in e_Agents, e_at[a] = "processed",
                 NEW i \in DOMAIN results[a], results[a][i] \in Publishable
          PROVE  \E n \in 1..e_attempt[a] : <<a, results[a][i], i, n>> \in accepted
        <3>1. i < place[a]
            <4>1. results[a] \in Outcomes /\ place[a] \in Nat
                BY DEF ProcessingInv, ProcessingType
            <4>2. Len(results[a]) \in Nat /\ DOMAIN results[a] = 1..Len(results[a])
                BY <4>1, OutcomesAreSequences
            <4> QED BY <2>0, <2>1, <4>1, <4>2 DEF CompleteOf
        <3> QED BY <2>0, <2>1, <3>1 DEF CompleteOf, KeptOf
    <2>2. ASSUME named, NEW r \in accepted, NEW t \in accepted, SubSeq(r, 1, 3) = SubSeq(t, 1, 3)
          PROVE  r = t
        <3>1. r \in e_Agents \X Publishable \X Nat \X Nat /\ t \in e_Agents \X Publishable \X Nat \X Nat
            BY <2>0 DEF Recorded
        <3>2. IdOf(r) = SubSeq(r, 1, 3) /\ IdOf(t) = SubSeq(t, 1, 3)
            BY <2>2, <3>1, ThreeOfFour DEF IdOf
        <3> QED BY <2>0, <2>2, <3>2 DEF Recorded
    <2>3. \A a \in e_Agents :
             /\ e_at[a] = "duplicate" => a \in answered
             /\ e_at[a] \in {"due", "term", "spent"} /\ a \in e_marker => a \in answered
        BY <2>0 DEF AnsweredOf
    <2> QED BY <2>1, <2>2, <2>3 DEF E!ResultsKeptOnce
<1> QED BY <1>1, <1>2, <1>3, PTL DEF E!Spec

\* A behaviour of the process is, for an event, one of the part.
LEMMA ProcessingPart == ProcessSpec => E!Spec
<1>1. ProcessInit => E!Init
    BY DEF ProcessInit
<1>2. [ProcessNext]_process_vars => [E!Next]_(E!vars)
    <2> SUFFICES ASSUME ProcessNext \/ UNCHANGED process_vars PROVE E!Next \/ UNCHANGED E!vars
        OBVIOUS
    <2>1. CASE Processes
        BY <2>1 DEF Processes, E!Next
    <2>2. CASE UNCHANGED e_vars
        BY <2>2 DEF e_vars, E!vars
    <2>3. ProcessNext => Processes \/ UNCHANGED e_vars
        BY DEF ProcessNext, Lives, Ticking, Caching, Keying, FanningOut, Provisions, Assembles, Processes, Settles, Joins, About, Only
    <2>4. UNCHANGED process_vars => UNCHANGED e_vars
        BY DEF process_vars
    <2> QED BY <2>1, <2>2, <2>3, <2>4
<1> QED BY <1>1, <1>2, PTL DEF ProcessSpec, E!Spec

\* A consumer keeps a result once.
THEOREM KeptOnce == ProcessSpec => []ResultsKeptOnce
<1>1. E!Spec => []E!ResultsKeptOnce
    BY ResultOnce, ProcessingParameters
<1> QED BY <1>1, ProcessingPart, PTL DEF ResultsKeptOnce

-----------------------------------------------------------------------------
(* FanOut: what the sidecar is answered covers every agent of the event,    *)
(* for any agents, handlers, topics and numbers of deliveries.              *)

\* Places are numbered by how many there are up to each.
LEMMA Numbered ==
    ASSUME NEW m \in Nat, NEW Z \in SUBSET (1..m)
    PROVE  /\ F!Cardinality(Z) \in Nat
           /\ \A k \in 1..F!Cardinality(Z) : \E i \in Z : F!Cardinality(Z \cap 1..i) = k
           /\ \A i \in Z : F!Cardinality(Z \cap 1..i) \in 1..F!Cardinality(Z)
           /\ \A i, j \in Z : F!Cardinality(Z \cap 1..i) = F!Cardinality(Z \cap 1..j) => i = j
<1> DEFINE n == Cardinality(Z)
           U(i) == Z \cap 1..i
           f == [i \in Z |-> Cardinality(U(i))]
<1>0. \A X : F!Cardinality(X) = Cardinality(X)
    BY DEF F!Cardinality, Cardinality
<1>1. IsFiniteSet(1..m)
    BY FS_Interval
<1>2. IsFiniteSet(Z) /\ n \in Nat
    BY <1>1, FS_Subset, FS_CardinalityType
<1>3. \A i : IsFiniteSet(U(i)) /\ Cardinality(U(i)) \in Nat /\ Cardinality(U(i)) <= n
    BY <1>2, FS_Subset, FS_CardinalityType
<1>4. ASSUME NEW i \in Z PROVE Cardinality(U(i)) \in 1..n
    <2>1. i \in U(i) /\ U(i) # {}
        OBVIOUS
    <2> HIDE DEF U
    <2>2. Cardinality(U(i)) # 0
        BY <1>3, <2>1, FS_EmptySet
    <2> QED BY <1>2, <1>3, <2>2
<1>5. ASSUME NEW i \in Z, NEW j \in Z, i < j PROVE Cardinality(U(i)) < Cardinality(U(j))
    <2>1. U(i) \in SUBSET U(j) /\ U(i) # U(j)
        BY <1>5
    <2> HIDE DEF U
    <2>2. Cardinality(U(i)) <= Cardinality(U(j)) /\ Cardinality(U(i)) # Cardinality(U(j))
        BY <1>3, <2>1, FS_Subset
    <2> QED BY <1>3, <2>2
<1> HIDE DEF U, n
<1>6. f \in [Z -> 1..n] /\ \A i \in Z : f[i] = Cardinality(U(i))
    BY <1>4
<1>7. \A i, j \in Z : f[i] = f[j] => i = j
    <2> SUFFICES ASSUME NEW i \in Z, NEW j \in Z, i # j PROVE f[i] # f[j]
        OBVIOUS
    <2>1. i \in Int /\ j \in Int
        OBVIOUS
    <2>2. CASE i < j
        BY <1>3, <1>5, <1>6, <2>2
    <2>3. CASE j < i
        BY <1>3, <1>5, <1>6, <2>3
    <2> QED BY <2>1, <2>2, <2>3
<1>8. f \in Surjection(Z, 1..n)
    <2>1. f \in Injection(Z, 1..n)
        BY <1>6, <1>7, Fun_IsInj
    <2>2. IsFiniteSet(1..n) /\ Cardinality(1..n) = n
        BY <1>2, FS_Interval
    <2> QED BY <1>2, <2>1, <2>2, FS_Injection DEF n
<1> HIDE DEF f
<1>9. \A k \in 1..n : \E i \in Z : f[i] = k
    BY <1>8 DEF Surjection
<1>10. /\ F!Cardinality(Z) = n
       /\ \A i \in Z : F!Cardinality(Z \cap 1..i) = f[i]
    BY <1>0, <1>6 DEF n, U
<1>11. \A i \in Z : f[i] \in 1..n
    BY <1>6
<1> QED BY <1>2, <1>7, <1>9, <1>10, <1>11

\* A set of natural numbers has a least one.
LEMMA Least ==
    ASSUME NEW Z \in SUBSET Nat, Z # {}
    PROVE  \E i \in Z : \A j \in Z : i <= j
<1> DEFINE R == OpToRel(<, Nat)
<1>1. IsWellFoundedOn(R, Nat)
    BY NatLessThanWellFounded
<1>2. \A i, j \in Nat : j < i => <<j, i>> \in R
    BY DEF OpToRel
<1> HIDE DEF R
<1>3. \E i \in Z : \A j \in Z : ~(<<j, i>> \in R)
    BY <1>1, WFMin
<1>4. PICK i \in Z : \A j \in Z : ~(<<j, i>> \in R)
    BY <1>3
<1>5. ASSUME NEW j \in Z PROVE i <= j
    <2>1. i \in Nat /\ j \in Nat /\ ~(j < i)
        BY <1>2, <1>4
    <2> QED BY <2>1
<1> QED BY <1>5

\* The agents among some handlers are all of those, and nobody else.
LEMMA AgentsAmong ==
    ASSUME F!Parameters, NEW some \in SUBSET DOMAIN f_Handlers
    PROVE  /\ F!AgentsOf(some) \in Seq({f_Handlers[i].ns : i \in some})
           /\ \A i \in some : \E k \in DOMAIN F!AgentsOf(some) : F!AgentsOf(some)[k] = f_Handlers[i].ns
<1> DEFINE Z == F!Firsts(some)
           n == F!Cardinality(Z)
           W(k) == CHOOSE i \in Z : F!Cardinality(Z \cap 1..i) = k
<1>1. Len(f_Handlers) \in Nat /\ DOMAIN f_Handlers = 1..Len(f_Handlers)
    BY DEF F!Parameters
<1>2. Z \in SUBSET (1..Len(f_Handlers)) /\ Z \subseteq some
    BY <1>1 DEF F!Firsts
<1>3. F!AgentsOf(some) = [k \in 1..n |-> f_Handlers[W(k)].ns]
    BY DEF F!AgentsOf
<1>4. ASSUME NEW i \in some PROVE \E j \in Z : f_Handlers[j].ns = f_Handlers[i].ns
    <2> DEFINE Q == {j \in some : f_Handlers[j].ns = f_Handlers[i].ns}
    <2>1. Q \subseteq 1..Len(f_Handlers) /\ i \in Q
        BY <1>1
    <2>2. Q \in SUBSET Nat /\ Q # {}
        BY <1>1, <2>1
    <2>3. \E j \in Q : \A h \in Q : j <= h
        BY <2>2, Least
    <2> QED BY <2>3 DEF F!Firsts
<1> HIDE DEF Z
<1>5. /\ n \in Nat
      /\ \A k \in 1..n : \E i \in Z : F!Cardinality(Z \cap 1..i) = k
      /\ \A i \in Z : F!Cardinality(Z \cap 1..i) \in 1..n
      /\ \A i, j \in Z : F!Cardinality(Z \cap 1..i) = F!Cardinality(Z \cap 1..j) => i = j
    BY <1>1, <1>2, Numbered
<1>6. \A k \in 1..n : W(k) \in Z /\ F!Cardinality(Z \cap 1..W(k)) = k
    BY <1>5
<1> HIDE DEF W, n
<1>7. F!AgentsOf(some) \in Seq({f_Handlers[i].ns : i \in some})
    <2>1. \A k \in 1..n : f_Handlers[W(k)].ns \in {f_Handlers[i].ns : i \in some}
        BY <1>2, <1>6
    <2> QED BY <1>3, <1>5, <2>1
<1>8. ASSUME NEW i \in some PROVE \E k \in DOMAIN F!AgentsOf(some) : F!AgentsOf(some)[k] = f_Handlers[i].ns
    <2>1. PICK j \in Z : f_Handlers[j].ns = f_Handlers[i].ns
        BY <1>4
    <2> DEFINE k == F!Cardinality(Z \cap 1..j)
    <2>2. k \in 1..n
        BY <1>5, <2>1
    <2>3. W(k) = j
        BY <1>5, <1>6, <2>1, <2>2
    <2> HIDE DEF k
    <2> QED BY <1>3, <2>1, <2>2, <2>3
<1> QED BY <1>7, <1>8

\* Those the topic goes to: all that declare it, or all there are.
LEMMA AgentsCover ==
    ASSUME F!Parameters
    PROVE  /\ F!Agents \in Seq(F!Names)
           /\ \A i \in DOMAIN f_Handlers :
                (\A j \in DOMAIN f_Handlers : topic \notin f_Handlers[j].topics) \/ topic \in f_Handlers[i].topics =>
                    \E k \in DOMAIN F!Agents : F!Agents[k] = f_Handlers[i].ns
<1> DEFINE Y == {i \in DOMAIN f_Handlers :
                    /\ f_Handlers[i].topics # {}
                    /\ \E j \in DOMAIN f_Handlers : f_Handlers[j].ns = f_Handlers[i].ns /\ topic \in f_Handlers[j].topics}
<1>1. F!Declaring(topic) = F!AgentsOf(Y)
    BY DEF F!Declaring
<1>2. \A i \in DOMAIN f_Handlers : topic \in f_Handlers[i].topics => i \in Y
    OBVIOUS
<1>3. (\A j \in DOMAIN f_Handlers : topic \notin f_Handlers[j].topics) => Y = {}
    OBVIOUS
<1>4. Y \in SUBSET DOMAIN f_Handlers
    OBVIOUS
<1> HIDE DEF Y
<1>5. \A some \in SUBSET DOMAIN f_Handlers :
        /\ F!AgentsOf(some) \in Seq({f_Handlers[i].ns : i \in some})
        /\ \A i \in some : \E k \in DOMAIN F!AgentsOf(some) : F!AgentsOf(some)[k] = f_Handlers[i].ns
    BY AgentsAmong
<1>6. ASSUME NEW some \in SUBSET DOMAIN f_Handlers PROVE F!AgentsOf(some) \in Seq(F!Names)
    <2>1. {f_Handlers[i].ns : i \in some} \subseteq F!Names
        BY DEF F!Names
    <2>2. F!AgentsOf(some) \in Seq({f_Handlers[i].ns : i \in some})
        BY <1>5
    <2> QED BY <2>1, <2>2
<1>7. <<F!Root>> \in Seq(F!Names)
    BY DEF F!Names
<1>8. Y = {} => F!AgentsOf(Y) = <<>>
    <2>1. Y = {} => F!AgentsOf(Y) \in Seq({})
        BY <1>4, <1>5
    <2> QED BY <2>1
<1>9. F!Agents \in Seq(F!Names)
    BY <1>1, <1>4, <1>6, <1>7 DEF F!Agents, F!AgentsFor
<1>10. ASSUME NEW i \in DOMAIN f_Handlers, topic \in f_Handlers[i].topics
       PROVE  \E k \in DOMAIN F!Agents : F!Agents[k] = f_Handlers[i].ns
    <2>1. \E k \in DOMAIN F!AgentsOf(Y) : F!AgentsOf(Y)[k] = f_Handlers[i].ns
        BY <1>2, <1>4, <1>5, <1>10
    <2>2. F!AgentsOf(Y) # <<>>
        BY <2>1
    <2> QED BY <1>1, <2>1, <2>2 DEF F!Agents, F!AgentsFor
<1>11. ASSUME NEW i \in DOMAIN f_Handlers, \A j \in DOMAIN f_Handlers : topic \notin f_Handlers[j].topics
       PROVE  \E k \in DOMAIN F!Agents : F!Agents[k] = f_Handlers[i].ns
    <2>1. F!Agents = F!AgentsOf(DOMAIN f_Handlers)
        BY <1>1, <1>3, <1>8, <1>11 DEF F!Agents, F!AgentsFor
    <2> QED BY <1>5, <2>1
<1> QED BY <1>9, <1>10, <1>11

\* The agent has handled the event, or rejected it, or is one the code warns of.
Covered(n) == finished[n] > 0 \/ n \in refused \union overlapped
Working(d) == f_at[d] # "offer"

FanOutType ==
    /\ unread \in BOOLEAN /\ settled \in BOOLEAN
    /\ turn \in [Deliveries -> 0..Len(F!Agents) + 2]
    /\ f_at \in [Deliveries -> {"offer", "running", "publishing"}]
    /\ outcomes \in [Deliveries -> SUBSET F!Dispositions] /\ claimed \in [Deliveries -> BOOLEAN]
    /\ marker \subseteq f_Dedup /\ refused \subseteq F!Names /\ overlapped \subseteq F!Names
    /\ finished \in [F!Names -> Nat]
    /\ \A d \in Deliveries : Working(d) => turn[d] \in 1..Len(F!Agents)

\* Whom a request has been through with is covered, or wants it again.
Followed ==
    /\ \A d \in Deliveries : \A p \in 1..Len(F!Agents) :
          unread \/ p >= turn[d] \/ "nak" \in outcomes[d] \/ Covered(F!Agents[p])
    /\ settled => unread \/ \A p \in 1..Len(F!Agents) : Covered(F!Agents[p])

\* A marker is that of the one request that runs the event for its agent, or of a run that has finished.
Marked ==
    /\ \A d \in Deliveries : claimed[d] =>
          Working(d) /\ F!Agent(d) \in f_Dedup \intersect marker /\ finished[F!Agent(d)] = 0
    /\ \A d \in Deliveries : Working(d) /\ F!Agent(d) \in f_Dedup => claimed[d]
    /\ \A d, e \in Deliveries : claimed[d] /\ claimed[e] /\ F!Agent(d) = F!Agent(e) => d = e
    /\ \A n \in marker : finished[n] > 0 \/ \E d \in Deliveries : claimed[d] /\ F!Agent(d) = n
    /\ \A n \in f_Dedup : finished[n] = 0 \/ (finished[n] = 1 /\ n \in marker)

FanOutInv == FanOutType /\ Followed /\ Marked

LEMMA FanOutInit == F!Parameters /\ F!Init => FanOutInv
<1> SUFFICES ASSUME F!Parameters, F!Init PROVE FanOutInv
    OBVIOUS
<1>1. F!Agents \in Seq(F!Names) /\ Len(F!Agents) \in Nat
    BY AgentsCover
<1>2. FanOutType
    <2>1. /\ unread \in BOOLEAN /\ settled \in BOOLEAN
          /\ marker \subseteq f_Dedup /\ refused \subseteq F!Names /\ overlapped \subseteq F!Names
          /\ finished \in [F!Names -> Nat] /\ claimed \in [Deliveries -> BOOLEAN]
        BY DEF F!Init
    <2>2. /\ turn \in [Deliveries -> 0..Len(F!Agents) + 2] /\ outcomes \in [Deliveries -> SUBSET F!Dispositions]
        BY <1>1 DEF F!Init
    <2>3. f_at \in [Deliveries -> {"offer", "running", "publishing"}] /\ \A d \in Deliveries : ~Working(d)
        BY DEF F!Init, Working
    <2> QED BY <2>1, <2>2, <2>3 DEF FanOutType
<1>3. Followed /\ Marked
    BY <1>1 DEF F!Init, F!Parameters, Followed, Marked, Working
<1> QED BY <1>2, <1>3 DEF FanOutInv

\* Whom the topic goes to does not change.
LEMMA SameAgents ==
    ASSUME F!Parameters, [F!Next]_(F!vars)
    PROVE  /\ F!Agents' = F!Agents /\ unread' = unread
           /\ Len(F!Agents) \in Nat /\ \A p \in 1..Len(F!Agents) : F!Agents[p] \in F!Names
<1>1. topic' = topic /\ unread' = unread
    BY DEF F!Next, F!vars, F!given, F!Pauses, F!Delivered, F!OfferPaused, F!Runs, F!OfferDuplicate, F!RunEnds,
           F!PublishEnds, F!Raises, F!Answers
<1>2. F!Agents' = F!Agents
    BY <1>1 DEF F!Agents
<1> QED BY <1>1, <1>2, AgentsCover

\* A request goes on to the next agent when the one in turn is covered or wants it again.
LEMMA GoesOn ==
    ASSUME F!Parameters, FanOutInv, [F!Next]_(F!vars), NEW d \in Deliveries, turn[d] \in 1..Len(F!Agents),
           NEW o \in F!Dispositions, F!Concludes(d, o), settled' = settled,
           /\ finished' \in [F!Names -> Nat] /\ refused' \subseteq F!Names /\ overlapped' \subseteq F!Names
           /\ marker' \subseteq f_Dedup,
           \A n \in F!Names : Covered(n) => Covered(n)',
           NEW n, n = F!Agent(d), o = "nak" \/ Covered(n)'
    PROVE  /\ FanOutType' /\ Followed'
           /\ claimed' = [claimed EXCEPT ![d] = FALSE]
           /\ ~Working(d)'
           /\ \A e \in Deliveries : e # d =>
                turn'[e] = turn[e] /\ F!Agent(e)' = F!Agent(e) /\ Working(e)' = Working(e)
<1>1. /\ F!Agents' = F!Agents /\ unread' = unread
      /\ Len(F!Agents) \in Nat /\ \A p \in 1..Len(F!Agents) : F!Agents[p] \in F!Names
    BY SameAgents
<1>2. /\ outcomes' = [outcomes EXCEPT ![d] = @ \union {o}] /\ turn' = [turn EXCEPT ![d] = @ + 1]
      /\ f_at' = [f_at EXCEPT ![d] = "offer"] /\ claimed' = [claimed EXCEPT ![d] = FALSE]
    BY DEF F!Concludes
<1>3. FanOutType
    BY DEF FanOutInv
<1>4. \A e \in Deliveries : e # d => turn'[e] = turn[e] /\ f_at'[e] = f_at[e] /\ outcomes'[e] = outcomes[e]
    BY <1>2, <1>3 DEF FanOutType
<1>5. turn'[d] = turn[d] + 1 /\ f_at'[d] = "offer" /\ outcomes'[d] = outcomes[d] \union {o}
    BY <1>2, <1>3 DEF FanOutType
<1>6. FanOutType'
    <2>1. turn' \in [Deliveries -> 0..Len(F!Agents) + 2]
        BY <1>1, <1>2, <1>3 DEF FanOutType
    <2>2. /\ f_at' \in [Deliveries -> {"offer", "running", "publishing"}]
          /\ outcomes' \in [Deliveries -> SUBSET F!Dispositions] /\ claimed' \in [Deliveries -> BOOLEAN]
        BY <1>2, <1>3 DEF FanOutType
    <2>3. \A e \in Deliveries : Working(e)' => turn'[e] \in 1..Len(F!Agents)
        BY <1>3, <1>4, <1>5 DEF FanOutType, Working
    <2> QED BY <1>1, <1>3, <2>1, <2>2, <2>3 DEF FanOutType
<1>7. \A p \in 1..Len(F!Agents) : Covered(F!Agents[p]) => Covered(F!Agents[p])'
    BY <1>1 DEF Covered
<1>8. Followed'
    <2>1. ASSUME NEW e \in Deliveries, NEW p \in 1..Len(F!Agents)
          PROVE  unread \/ p >= turn'[e] \/ "nak" \in outcomes'[e] \/ Covered(F!Agents[p])'
        <3>1. unread \/ p >= turn[e] \/ "nak" \in outcomes[e] \/ Covered(F!Agents[p])
            BY DEF FanOutInv, Followed
        <3>2. CASE e # d
            BY <1>4, <1>7, <3>1, <3>2
        <3>3. CASE e = d
            <4>1. CASE p = turn[d]
                <5>1. F!Agents[p] = n
                    BY <4>1 DEF F!Agent
                <5>2. o = "nak" \/ Covered(F!Agents[p])'
                    BY <1>1, <5>1 DEF Covered
                <5> QED BY <1>5, <3>3, <5>2
            <4>2. CASE p # turn[d]
                BY <1>3, <1>5, <1>7, <3>1, <3>3, <4>2 DEF FanOutType
            <4> QED BY <4>1, <4>2
        <3> QED BY <3>2, <3>3
    <2>2. settled' => unread \/ \A p \in 1..Len(F!Agents) : Covered(F!Agents[p])'
        BY <1>7 DEF FanOutInv, Followed
    <2> QED BY <1>1, <2>1, <2>2 DEF Followed, Covered
<1> QED BY <1>1, <1>2, <1>4, <1>5, <1>6, <1>8 DEF F!Agent, Working

\* A request that ends a run keeps what the others have marked.
LEMMA Unmarked ==
    ASSUME F!Parameters, FanOutInv, [F!Next]_(F!vars), NEW d \in Deliveries, turn[d] \in 1..Len(F!Agents),
           claimed' = [claimed EXCEPT ![d] = FALSE],
           ~Working(d)',
           \A e \in Deliveries : e # d => F!Agent(e)' = F!Agent(e) /\ Working(e)' = Working(e),
           \/ /\ marker' = marker /\ finished' = finished /\ ~claimed[d]
           \/ /\ marker' = marker /\ Working(d)
              /\ finished' = [finished EXCEPT ![F!Agent(d)] = @ + 1]
           \/ /\ marker' = IF claimed[d] THEN marker \ {F!Agent(d)} ELSE marker
              /\ finished' = finished
    PROVE  Marked'
<1> DEFINE n == F!Agent(d)
<1>1. F!Agents' = F!Agents /\ n \in F!Names
    BY SameAgents DEF F!Agent
<1>2. FanOutType /\ Marked
    BY DEF FanOutInv
<1>3. ~claimed'[d] /\ \A e \in Deliveries : e # d => claimed'[e] = claimed[e]
    BY <1>2 DEF FanOutType
<1>4. /\ f_Dedup \subseteq F!Names /\ marker \subseteq f_Dedup /\ finished \in [F!Names -> Nat]
      /\ \A e \in Deliveries : claimed[e] \in BOOLEAN
    BY <1>2 DEF FanOutType, F!Parameters
<1>5. Working(d) /\ n \in f_Dedup => claimed[d] /\ finished[n] = 0 /\ n \in marker
    BY <1>2 DEF Marked
<1>6. ASSUME NEW m \in F!Names, m # n PROVE finished'[m] = finished[m] /\ (m \in marker' <=> m \in marker)
    BY <1>1, <1>4, <1>6
<1>7. ASSUME NEW e \in Deliveries, e # d, claimed[e], F!Agent(e) = n
      PROVE  ~claimed[d] /\ n \in f_Dedup /\ marker' = marker /\ finished' = finished
    <2>1. ~claimed[d] /\ n \in f_Dedup
        BY <1>2, <1>7 DEF Marked
    <2>2. ~Working(d)
        BY <1>5, <2>1
    <2> QED BY <2>1, <2>2
<1>8. \A e \in Deliveries : claimed'[e] =>
          Working(e)' /\ F!Agent(e)' \in f_Dedup \intersect marker' /\ finished'[F!Agent(e)'] = 0
    <2> SUFFICES ASSUME NEW e \in Deliveries, claimed'[e]
                 PROVE  Working(e)' /\ F!Agent(e)' \in f_Dedup \intersect marker' /\ finished'[F!Agent(e)'] = 0
        OBVIOUS
    <2>1. /\ e # d /\ claimed[e] /\ Working(e)' /\ F!Agent(e)' = F!Agent(e)
          /\ F!Agent(e) \in f_Dedup /\ F!Agent(e) \in marker /\ finished[F!Agent(e)] = 0
        BY <1>2, <1>3 DEF Marked
    <2>2. CASE F!Agent(e) = n
        BY <1>7, <2>1, <2>2
    <2>3. CASE F!Agent(e) # n
        BY <1>4, <1>6, <2>1, <2>3
    <2> QED BY <2>2, <2>3
<1>9. \A e \in Deliveries : Working(e)' /\ F!Agent(e)' \in f_Dedup => claimed'[e]
    BY <1>2, <1>3 DEF Marked
<1>10. \A e, f \in Deliveries : claimed'[e] /\ claimed'[f] /\ F!Agent(e)' = F!Agent(f)' => e = f
    BY <1>2, <1>3 DEF Marked
<1>11. \A m \in marker' : finished'[m] > 0 \/ \E e \in Deliveries : claimed'[e] /\ F!Agent(e)' = m
    <2> SUFFICES ASSUME NEW m \in marker'
                 PROVE  finished'[m] > 0 \/ \E e \in Deliveries : claimed'[e] /\ F!Agent(e)' = m
        OBVIOUS
    <2>1. m \in marker /\ m \in F!Names /\ finished[m] \in Nat
        BY <1>4
    <2>2. finished[m] > 0 \/ \E e \in Deliveries : claimed[e] /\ F!Agent(e) = m
        BY <1>2, <2>1 DEF Marked
    <2>3. CASE m # n
        <3>1. \A e \in Deliveries : F!Agent(e) = m => e # d
            BY <2>3
        <3> QED BY <1>3, <1>6, <2>1, <2>2, <2>3, <3>1
    <2>4. CASE m = n
        <3>1. CASE finished' = [finished EXCEPT ![n] = @ + 1]
            BY <1>1, <1>4, <2>1, <2>4, <3>1
        <3>2. CASE finished' = finished /\ ~claimed[d]
            <4>1. \A e \in Deliveries : claimed[e] => e # d
                BY <3>2
            <4> QED BY <1>3, <2>2, <3>2, <4>1
        <3>3. CASE claimed[d] /\ marker' = marker \ {n}
            BY <2>4, <3>3
        <3> QED BY <1>4, <3>1, <3>2, <3>3
    <2> QED BY <2>3, <2>4
<1>12. \A m \in f_Dedup : finished'[m] = 0 \/ (finished'[m] = 1 /\ m \in marker')
    <2> SUFFICES ASSUME NEW m \in f_Dedup PROVE finished'[m] = 0 \/ (finished'[m] = 1 /\ m \in marker')
        OBVIOUS
    <2>1. m \in F!Names /\ (finished[m] = 0 \/ (finished[m] = 1 /\ m \in marker))
        BY <1>2, <1>4 DEF Marked
    <2>2. CASE m # n
        BY <1>6, <2>1, <2>2
    <2>3. CASE m = n
        <3>1. CASE marker' = marker /\ finished' = finished
            BY <2>1, <3>1
        <3>2. CASE marker' = marker /\ Working(d) /\ finished' = [finished EXCEPT ![n] = @ + 1]
            BY <1>4, <1>5, <2>1, <2>3, <3>2
        <3>3. CASE marker' = marker \ {n} /\ finished' = finished /\ claimed[d]
            BY <1>2, <2>3, <3>3 DEF Marked
        <3> QED BY <1>4, <3>1, <3>2, <3>3
    <2> QED BY <2>2, <2>3
<1> QED BY <1>8, <1>9, <1>10, <1>11, <1>12 DEF Marked

\* The steps that take a request to the next agent.
LEMMA ConcludingSteps ==
    ASSUME F!Parameters, FanOutInv, NEW d \in Deliveries,
           F!OfferPaused(d) \/ F!OfferDuplicate(d) \/ F!RunEnds(d) \/ F!PublishEnds(d) \/ F!Raises(d),
           f_at'[d] = "offer"
    PROVE  FanOutInv'
<1>1. [F!Next]_(F!vars)
    BY DEF F!Next
<1>2. FanOutType /\ Marked /\ f_Dedup \subseteq F!Names
    BY DEF FanOutInv, F!Parameters
<1>3. turn[d] \in 1..Len(F!Agents) /\ F!Agent(d) \in F!Names
    BY <1>1, SameAgents DEF F!OfferPaused, F!OfferDuplicate, F!RunEnds, F!PublishEnds, F!Raises, F!InTurn, F!Agent
<1>3a. PICK n \in F!Names : n = F!Agent(d)
    BY <1>3
<1>4. ASSUME NEW o \in F!Dispositions, F!Concludes(d, o), settled' = settled,
             /\ finished' \in [F!Names -> Nat] /\ refused' \subseteq F!Names /\ overlapped' \subseteq F!Names
             /\ marker' \subseteq f_Dedup,
             \A m \in F!Names : Covered(m) => Covered(m)', o = "nak" \/ Covered(n)',
             \/ /\ marker' = marker /\ finished' = finished /\ ~claimed[d]
             \/ /\ marker' = marker /\ Working(d)
                /\ finished' = [finished EXCEPT ![n] = @ + 1]
             \/ /\ marker' = IF claimed[d] THEN marker \ {n} ELSE marker
                /\ finished' = finished
      PROVE  FanOutInv'
    <2>1. /\ FanOutType' /\ Followed'
          /\ claimed' = [claimed EXCEPT ![d] = FALSE]
          /\ ~Working(d)'
          /\ \A e \in Deliveries : e # d =>
               turn'[e] = turn[e] /\ F!Agent(e)' = F!Agent(e) /\ Working(e)' = Working(e)
        BY <1>1, <1>3, <1>4, <1>3a, GoesOn
    <2>2. Marked'
        BY <1>1, <1>3, <1>4, <2>1, <1>3a, Unmarked
    <2> QED BY <2>1, <2>2 DEF FanOutInv
<1>5. ASSUME finished' = [finished EXCEPT ![n] = @ + 1], refused' = refused, overlapped' = overlapped
      PROVE  finished' \in [F!Names -> Nat] /\ Covered(n)' /\ \A m \in F!Names : Covered(m) => Covered(m)'
    <2>1. /\ finished' \in [F!Names -> Nat] /\ finished'[n] = finished[n] + 1 /\ finished[n] \in Nat
          /\ \A m \in F!Names : m # n => finished'[m] = finished[m]
        BY <1>2, <1>3, <1>5 DEF FanOutType
    <2> QED BY <1>5, <2>1 DEF Covered
<1>6. CASE F!OfferPaused(d)
    <2>1. ~claimed[d]
        BY <1>2, <1>6 DEF F!OfferPaused, F!InTurn, Marked, Working
    <2>2. /\ F!Concludes(d, "nak")
          /\ UNCHANGED <<marker, settled, finished, refused, overlapped>>
        BY <1>6 DEF F!OfferPaused
    <2> QED BY <1>2, <1>4, <2>1, <2>2 DEF FanOutType, F!Dispositions, Covered
<1>7. CASE F!OfferDuplicate(d)
    <2>1. ~claimed[d]
        BY <1>2, <1>7 DEF F!OfferDuplicate, F!InTurn, Marked, Working
    <2>2. /\ F!Concludes(d, "ack") /\ n \in marker
          /\ UNCHANGED <<marker, settled, finished, refused>>
          /\ overlapped' = IF \E e \in Deliveries : claimed[e] /\ F!Agent(e) = n
                           THEN overlapped \union {n} ELSE overlapped
        BY <1>7, <1>3a DEF F!OfferDuplicate
    <2>3. overlapped \subseteq overlapped' /\ overlapped' \subseteq F!Names
        BY <1>2, <1>3, <2>2 DEF FanOutType
    <2>4. Covered(n)'
        BY <1>2, <1>3a, <2>2 DEF FanOutType, Marked, Covered
    <2>5. \A m \in F!Names : Covered(m) => Covered(m)'
        BY <2>2, <2>3 DEF Covered
    <2> QED BY <1>2, <1>4, <2>1, <2>2, <2>3, <2>4, <2>5 DEF FanOutType, F!Dispositions
<1>8. CASE F!RunEnds(d) \/ F!PublishEnds(d)
    <2>1. Working(d)
        BY <1>8 DEF F!RunEnds, F!PublishEnds, F!InTurn, Working
    <2>2. /\ F!Concludes(d, "ack") /\ finished' = [finished EXCEPT ![n] = @ + 1]
          /\ UNCHANGED <<marker, settled, refused, overlapped>>
        <3>1. CASE F!RunEnds(d)
            <4>1. f_at' # [f_at EXCEPT ![d] = "publishing"]
                BY <1>2 DEF FanOutType
            <4> QED BY <3>1, <4>1, <1>3a DEF F!RunEnds
        <3>2. CASE F!PublishEnds(d)
            BY <3>2, <1>3a DEF F!PublishEnds
        <3> QED BY <1>8, <3>1, <3>2
    <2> QED BY <1>2, <1>4, <1>5, <2>1, <2>2 DEF FanOutType, F!Dispositions
<1>9. CASE F!Raises(d)
    <2>1. /\ marker' = IF claimed[d] THEN marker \ {n} ELSE marker
          /\ UNCHANGED <<settled, finished, overlapped>>
        BY <1>9, <1>3a DEF F!Raises
    <2>2. PICK o \in {"nak", "term"} :
            F!Concludes(d, o) /\ \/ o = "nak" /\ refused' = refused
                                 \/ o = "term" /\ refused' = refused \union {n}
        BY <1>9, <1>3a DEF F!Raises
    <2>3. o = "nak" \/ Covered(n)'
        BY <2>2 DEF Covered
    <2>4. \A m \in F!Names : Covered(m) => Covered(m)'
        BY <2>1, <2>2 DEF Covered
    <2>5. refused' \subseteq F!Names /\ marker' \subseteq f_Dedup
        BY <1>2, <1>3, <2>1, <2>2 DEF FanOutType
    <2> QED BY <1>2, <1>4, <2>1, <2>2, <2>3, <2>4, <2>5 DEF FanOutType, F!Dispositions
<1> QED BY <1>6, <1>7, <1>8, <1>9

\* A request starts the run of the agent in turn, and claims its marker.
LEMMA RunningSteps ==
    ASSUME F!Parameters, FanOutInv, NEW d \in Deliveries, F!Runs(d)
    PROVE  FanOutInv'
<1> DEFINE n == F!Agent(d)
<1>1. F!Agents' = F!Agents /\ unread' = unread /\ n \in F!Names
    BY SameAgents DEF F!Next, F!Runs, F!InTurn, F!Agent
<1>2. FanOutType /\ Marked /\ Followed /\ f_Dedup \subseteq F!Names
    BY DEF FanOutInv, F!Parameters
<1>3. /\ turn[d] \in 1..Len(F!Agents) /\ f_at[d] = "offer" /\ n \notin marker
      /\ f_at' = [f_at EXCEPT ![d] = "running"]
      /\ marker' = marker \union ({n} \intersect f_Dedup)
      /\ claimed' = [claimed EXCEPT ![d] = n \in f_Dedup]
      /\ UNCHANGED <<turn, outcomes, settled, finished, refused, overlapped>>
    BY DEF F!Runs, F!InTurn
<1>4. \A e \in Deliveries : F!Agent(e)' = F!Agent(e)
    BY <1>1, <1>3 DEF F!Agent
<1> HIDE DEF n
<1>5. \A e \in Deliveries : e # d => f_at'[e] = f_at[e] /\ claimed'[e] = claimed[e] /\ Working(e)' = Working(e)
    BY <1>2, <1>3 DEF FanOutType, Working
<1>6. (claimed'[d] <=> n \in f_Dedup) /\ f_at'[d] = "running" /\ Working(d)' /\ ~claimed[d]
    BY <1>2, <1>3 DEF FanOutType, Working, Marked
<1>7. FanOutType'
    <2>1. /\ f_at' \in [Deliveries -> {"offer", "running", "publishing"}] /\ claimed' \in [Deliveries -> BOOLEAN]
          /\ marker' \subseteq f_Dedup
        BY <1>2, <1>3 DEF FanOutType
    <2>2. \A e \in Deliveries : Working(e)' => turn'[e] \in 1..Len(F!Agents)
        BY <1>2, <1>3, <1>5 DEF FanOutType
    <2> QED BY <1>1, <1>2, <1>3, <2>1, <2>2 DEF FanOutType
<1>8. Followed'
    BY <1>1, <1>2, <1>3 DEF Followed, Covered
<1>9. n \in f_Dedup => finished[n] = 0 /\ \A e \in Deliveries : claimed[e] => F!Agent(e) # n
    BY <1>2, <1>3 DEF Marked
<1>10. Marked'
    <2>1. \A e \in Deliveries : claimed'[e] =>
              Working(e)' /\ F!Agent(e)' \in f_Dedup \intersect marker' /\ finished'[F!Agent(e)'] = 0
        BY <1>2, <1>3, <1>4, <1>5, <1>6, <1>9 DEF Marked, n
    <2>2. \A e \in Deliveries : Working(e)' /\ F!Agent(e)' \in f_Dedup => claimed'[e]
        BY <1>2, <1>4, <1>5, <1>6 DEF Marked, n
    <2>3. \A e, f \in Deliveries : claimed'[e] /\ claimed'[f] /\ F!Agent(e)' = F!Agent(f)' => e = f
        BY <1>2, <1>4, <1>5, <1>6, <1>9 DEF Marked, n
    <2>4. \A m \in marker' : finished'[m] > 0 \/ \E e \in Deliveries : claimed'[e] /\ F!Agent(e)' = m
        <3> SUFFICES ASSUME NEW m \in marker'
                     PROVE  finished'[m] > 0 \/ \E e \in Deliveries : claimed'[e] /\ F!Agent(e)' = m
            OBVIOUS
        <3>1. CASE m = n
            BY <1>3, <1>4, <1>6, <3>1 DEF n
        <3>2. CASE m \in marker
            <4>1. \A e \in Deliveries : claimed[e] => claimed'[e]
                BY <1>5, <1>6
            <4> QED BY <1>2, <1>3, <1>4, <3>2, <4>1 DEF Marked
        <3> QED BY <1>3, <3>1, <3>2
    <2>5. \A m \in f_Dedup : finished'[m] = 0 \/ (finished'[m] = 1 /\ m \in marker')
        BY <1>2, <1>3 DEF Marked
    <2> QED BY <2>1, <2>2, <2>3, <2>4, <2>5 DEF Marked
<1> QED BY <1>7, <1>8, <1>10 DEF FanOutInv

\* The steps that end no run and start none: a request comes, publishes, or is answered.
LEMMA OtherSteps ==
    ASSUME F!Parameters, FanOutInv, NEW d \in Deliveries,
           \/ F!Delivered(d) \/ F!Answers(d)
           \/ F!RunEnds(d) /\ f_at'[d] # "offer"
    PROVE  FanOutInv'
<1>1. /\ F!Agents' = F!Agents /\ unread' = unread
      /\ Len(F!Agents) \in Nat /\ \A p \in 1..Len(F!Agents) : F!Agents[p] \in F!Names
    BY SameAgents DEF F!Next
<1>2. FanOutType /\ Marked /\ Followed /\ f_at \in [Deliveries -> {"offer", "running", "publishing"}]
    BY DEF FanOutInv, FanOutType
<1>3. UNCHANGED <<outcomes, claimed, marker, finished, refused, overlapped>>
    <2>1. CASE F!RunEnds(d) /\ f_at'[d] # "offer"
        <3>1. f_at' # [f_at EXCEPT ![d] = "offer"]
            BY <1>2, <2>1
        <3> QED BY <2>1, <3>1 DEF F!RunEnds, F!Concludes
    <2> QED BY <2>1 DEF F!Delivered, F!Answers
<1>4. \A p \in 1..Len(F!Agents) : Covered(F!Agents[p])' <=> Covered(F!Agents[p])
    BY <1>1, <1>3 DEF Covered
<1>5. CASE F!RunEnds(d) /\ f_at'[d] # "offer"
    <2>1. /\ f_at[d] = "running" /\ turn[d] \in 1..Len(F!Agents) /\ UNCHANGED <<turn, settled>>
          /\ f_at' = [f_at EXCEPT ![d] = "publishing"]
        <3>1. f_at' # [f_at EXCEPT ![d] = "offer"]
            BY <1>2, <1>5
        <3> QED BY <1>5, <3>1 DEF F!RunEnds, F!InTurn, F!Concludes
    <2>2. \A e \in Deliveries : (Working(e)' <=> Working(e)) /\ F!Agent(e)' = F!Agent(e)
        BY <1>1, <1>2, <2>1 DEF Working, F!Agent
    <2>3. f_at' \in [Deliveries -> {"offer", "running", "publishing"}]
        BY <1>2, <2>1
    <2>4. FanOutType'
        BY <1>1, <1>2, <1>3, <2>1, <2>2, <2>3 DEF FanOutType
    <2>5. Followed'
        BY <1>1, <1>2, <1>3, <1>4, <2>1 DEF Followed, Covered
    <2>6. Marked'
        BY <1>2, <1>3, <2>2 DEF Marked
    <2> QED BY <2>4, <2>5, <2>6 DEF FanOutInv
<1>6. CASE F!Delivered(d) \/ F!Answers(d)
    <2>1. turn[d] \notin 1..Len(F!Agents) /\ f_at' = f_at
        BY <1>1, <1>6 DEF F!Delivered, F!Answers, F!Answering
    <2>2. PICK t \in 0..Len(F!Agents) + 2 :
            /\ turn' = [turn EXCEPT ![d] = t]
            /\ unread \/ t = 1 \/ (turn[d] = Len(F!Agents) + 1 /\ t = Len(F!Agents) + 2)
        BY <1>1, <1>6 DEF F!Delivered, F!Answers, F!Answering, F!Answered
    <2>3. ~Working(d) /\ ~claimed[d]
        BY <1>2, <2>1 DEF FanOutType, Marked
    <2>4. /\ \A e \in Deliveries : e # d => turn'[e] = turn[e] /\ F!Agent(e)' = F!Agent(e)
          /\ turn'[d] = t
          /\ \A e \in Deliveries : Working(e)' <=> Working(e)
        BY <1>1, <1>2, <2>1, <2>2 DEF FanOutType, Working, F!Agent
    <2>5. settled' \in BOOLEAN
        BY <1>2, <1>6 DEF F!Delivered, F!Answers, FanOutType
    <2>6. FanOutType'
        <3>1. turn' \in [Deliveries -> 0..Len(F!Agents) + 2]
            BY <1>2, <2>2 DEF FanOutType
        <3>2. \A e \in Deliveries : Working(e)' => turn'[e] \in 1..Len(F!Agents)
            BY <1>2, <2>3, <2>4 DEF FanOutType
        <3> QED BY <1>1, <1>2, <1>3, <2>1, <2>5, <3>1, <3>2 DEF FanOutType
    <2>7. Marked'
        <3>1. \A e \in Deliveries : (claimed'[e] <=> claimed[e]) /\ (claimed[e] \/ Working(e) => e # d)
            BY <1>3, <2>3
        <3> QED BY <1>2, <1>3, <2>4, <3>1 DEF Marked
    <2>8. ASSUME NEW e \in Deliveries, NEW p \in 1..Len(F!Agents)
          PROVE  unread \/ p >= turn'[e] \/ "nak" \in outcomes'[e] \/ Covered(F!Agents[p])'
        <3>1. unread \/ p >= turn[e] \/ "nak" \in outcomes[e] \/ Covered(F!Agents[p])
            BY <1>2 DEF Followed
        <3> QED BY <1>1, <1>3, <1>4, <2>2, <2>4, <3>1
    <2>9. ASSUME settled', ~unread, NEW p \in 1..Len(F!Agents) PROVE Covered(F!Agents[p])'
        <3>1. CASE settled
            BY <1>2, <1>4, <2>9, <3>1 DEF Followed
        <3>2. CASE ~settled
            <4>1. turn[d] = Len(F!Agents) + 1 /\ F!Combined(d) # "nak"
                BY <1>6, <2>9, <3>2 DEF F!Delivered, F!Answers, F!Answering
            <4>2. "nak" \notin outcomes[d] /\ ~(p >= turn[d])
                BY <1>1, <4>1 DEF F!Combined
            <4> QED BY <1>2, <1>4, <2>9, <4>2 DEF Followed
        <3> QED BY <3>1, <3>2
    <2>10. Followed'
        BY <1>1, <2>8, <2>9 DEF Followed, Covered
    <2> QED BY <2>6, <2>7, <2>10 DEF FanOutInv
<1> QED BY <1>5, <1>6

LEMMA FanOutNext == F!Parameters /\ FanOutInv /\ [F!Next]_(F!vars) => FanOutInv'
<1> SUFFICES ASSUME F!Parameters, FanOutInv, [F!Next]_(F!vars) PROVE FanOutInv'
    OBVIOUS
<1>1. CASE F!vars' = F!vars \/ \E n \in F!Names : F!Pauses(n)
    <2>1. UNCHANGED <<turn, f_at, outcomes, claimed, marker, settled, finished, refused, overlapped>>
        BY <1>1 DEF F!vars, F!Pauses
    <2>2. F!Agents' = F!Agents /\ unread' = unread
        BY SameAgents
    <2>3. FanOutType' /\ Followed' /\ Marked'
        BY <2>1, <2>2 DEF FanOutInv, FanOutType, Followed, Marked, Covered, Working, F!Agent
    <2> QED BY <2>3 DEF FanOutInv
<1>2. ASSUME NEW d \in Deliveries,
             \/ F!Delivered(d) \/ F!OfferPaused(d) \/ F!Runs(d) \/ F!OfferDuplicate(d)
             \/ F!RunEnds(d) \/ F!PublishEnds(d) \/ F!Raises(d) \/ F!Answers(d)
      PROVE  FanOutInv'
    <2>1. CASE F!OfferPaused(d) \/ F!OfferDuplicate(d) \/ F!PublishEnds(d) \/ F!Raises(d)
        <3>1. f_at' = [f_at EXCEPT ![d] = "offer"]
            BY <2>1 DEF F!OfferPaused, F!OfferDuplicate, F!PublishEnds, F!Raises, F!Concludes
        <3>2. f_at'[d] = "offer"
            BY <3>1 DEF FanOutInv, FanOutType
        <3> QED BY <2>1, <3>2, ConcludingSteps
    <2>2. CASE F!RunEnds(d)
        BY <2>2, ConcludingSteps, OtherSteps
    <2> QED BY <1>2, <2>1, <2>2, RunningSteps, OtherSteps
<1> QED BY <1>1, <1>2 DEF F!Next

\* The sidecar is told to stop only when every agent of the event has handled or rejected it, but for a
\* duplicate of a run that then failed; and no agent that deduplicates runs it twice to its end.
LEMMA AgentsAnswered == ASSUME F!Parameters PROVE F!Spec => []F!AnswerCoversAgents
<1>1. F!Init => FanOutInv
    BY FanOutInit
<1>2. FanOutInv /\ [F!Next]_(F!vars) => FanOutInv'
    BY FanOutNext
<1>3. FanOutInv => F!AnswerCoversAgents
    <2> SUFFICES ASSUME FanOutInv PROVE F!AnswerCoversAgents
        OBVIOUS
    <2>1. ASSUME settled, ~unread, NEW i \in DOMAIN f_Handlers,
                 (\A j \in DOMAIN f_Handlers : topic \notin f_Handlers[j].topics) \/ topic \in f_Handlers[i].topics
          PROVE  Covered(f_Handlers[i].ns)
        <3>1. PICK k \in DOMAIN F!Agents : F!Agents[k] = f_Handlers[i].ns
            BY <2>1, AgentsCover
        <3>2. DOMAIN F!Agents = 1..Len(F!Agents)
            BY AgentsCover
        <3> QED BY <2>1, <3>1, <3>2 DEF FanOutInv, Followed
    <2>2. \A n \in f_Dedup : finished[n] <= 1
        BY DEF FanOutInv, Marked
    <2> QED BY <2>1, <2>2 DEF F!AnswerCoversAgents, Covered
<1> QED BY <1>1, <1>2, <1>3, PTL DEF F!Spec

\* A behaviour of the process is, for the sidecar, one of the part.
LEMMA FanOutPart == ProcessSpec => F!Spec
<1>1. ProcessInit => F!Init
    BY DEF ProcessInit
<1>2. [ProcessNext]_process_vars => [F!Next]_(F!vars)
    <2> SUFFICES ASSUME ProcessNext \/ UNCHANGED process_vars PROVE F!Next \/ UNCHANGED F!vars
        OBVIOUS
    <2>1. CASE FanningOut
        BY <2>1 DEF FanningOut, F!Next
    <2>2. CASE UNCHANGED f_vars
        BY <2>2 DEF f_vars, F!vars, F!given
    <2>3. ProcessNext => FanningOut \/ UNCHANGED f_vars
        BY DEF ProcessNext, Lives, Ticking, Caching, Keying, FanningOut, Provisions, Assembles, Processes, Settles, Joins, About, Only
    <2>4. UNCHANGED process_vars => UNCHANGED f_vars
        BY DEF process_vars
    <2> QED BY <2>1, <2>2, <2>3, <2>4
<1> QED BY <1>1, <1>2, PTL DEF ProcessSpec, F!Spec

\* The answer the process gives a sidecar covers every agent of the topic.
THEOREM EveryAgentAnswered == ProcessSpec => []AnswerCoversAgents
<1>1. F!Spec => []F!AnswerCoversAgents
    BY AgentsAnswered, FanOutParameters
<1> QED BY <1>1, FanOutPart, PTL DEF AnswerCoversAgents

-----------------------------------------------------------------------------
(* Channels: a channel an agent of a group consumes on is its own, and all  *)
(* of its replicas share it.                                                *)

Characters == STRING \cup {"_", "-", "scheduler", "durable"}
Tokens == Seq(Characters)

LEMMA OfOneOfTwo ==
    ASSUME NEW U, NEW a \in U, NEW b \in U
    PROVE  <<a>> \in Seq(U) /\ Len(<<a>>) = 1 /\ <<a, b>> \in Seq(U) /\ Len(<<a, b>>) = 2
OBVIOUS

\* A token as a consumer's name may hold it.
LEMMA FitTyped == ASSUME NEW token \in Tokens PROVE C!Fit(token) \in Tokens
<1>1. token \in [1..Len(token) -> Characters] /\ Len(token) \in Nat
    BY LenProperties DEF Tokens
<1>2. C!Fit(token) \in [1..Len(token) -> Characters]
    BY <1>1 DEF C!Fit, Characters
<1> QED BY <1>1, <1>2, SeqDef DEF Tokens

\* What is spelt one token further.
LEMMA Further ==
    ASSUME NEW name \in Tokens, NEW token \in Tokens
    PROVE  name \o <<"_">> \o C!Fit(token) \in Tokens
<1>1. <<"_">> \in Tokens
    BY OfOneOfTwo DEF Tokens, Characters
<1>2. name \o <<"_">> \in Tokens
    BY <1>1, ConcatProperties DEF Tokens
<1> QED BY <1>2, FitTyped, ConcatProperties DEF Tokens

\* The subject spelt token by token, as far as n: what SpeltTo is defined to be.
Spells(f, s, n) ==
    /\ f \in [1..n -> Tokens]
    /\ \A i \in 1..n : f[i] = IF i = 1 THEN C!Fit(s[1]) ELSE f[i - 1] \o <<"_">> \o C!Fit(s[i])

LEMMA SpellsOne == ASSUME NEW s \in Seq(Tokens), Len(s) >= 1 PROVE \E f : Spells(f, s, 1)
<1> DEFINE f == [i \in 1..1 |-> C!Fit(s[1])]
<1>1. s[1] \in Tokens
    BY ElementOfSeq
<1>2. C!Fit(s[1]) \in Tokens
    BY <1>1, FitTyped
<1>3. \A i \in 1..1 : i = 1
    OBVIOUS
<1>4. Spells(f, s, 1)
    BY <1>2, <1>3 DEF Spells
<1> QED BY <1>4

LEMMA SpellsNext ==
    ASSUME NEW s \in Seq(Tokens), NEW n \in 1..Len(s), n > 1, NEW f, Spells(f, s, n - 1)
    PROVE  \E g : Spells(g, s, n)
<1> DEFINE last == f[n - 1] \o <<"_">> \o C!Fit(s[n])
           g == [i \in 1..n |-> IF i < n THEN f[i] ELSE last]
<1>1. n \in Nat /\ n - 1 \in 1..(n - 1)
    OBVIOUS
<1>2. f \in [1..(n - 1) -> Tokens] /\ s[n] \in Tokens
    BY ElementOfSeq DEF Spells
<1>3. f[n - 1] \in Tokens
    BY <1>1, <1>2
<1>4. last \in Tokens
    BY <1>2, <1>3, Further
<1> HIDE DEF last
<1>5. g \in [1..n -> Tokens]
    BY <1>1, <1>2, <1>4
<1>6. ASSUME NEW i \in 1..n
      PROVE  g[i] = IF i = 1 THEN C!Fit(s[1]) ELSE g[i - 1] \o <<"_">> \o C!Fit(s[i])
    <2>1. CASE i < n
        <3>1. i \in 1..(n - 1) /\ g[i] = f[i] /\ (i # 1 => i - 1 \in 1..n /\ i - 1 < n)
            BY <1>1, <2>1
        <3>2. i # 1 => g[i - 1] = f[i - 1]
            BY <3>1
        <3>3. f[i] = IF i = 1 THEN C!Fit(s[1]) ELSE f[i - 1] \o <<"_">> \o C!Fit(s[i])
            BY <3>1 DEF Spells
        <3> QED BY <3>1, <3>2, <3>3
    <2>2. CASE i = n
        <3>1. g[n] = last /\ n - 1 \in 1..n /\ n - 1 < n /\ i # 1
            BY <1>1, <2>2
        <3>2. g[n - 1] = f[n - 1]
            BY <3>1
        <3> QED BY <2>2, <3>1, <3>2 DEF last
    <2>3. i < n \/ i = n
        BY <1>1
    <2> QED BY <2>1, <2>2, <2>3
<1> HIDE DEF g
<1>7. Spells(g, s, n)
    BY <1>5, <1>6 DEF Spells
<1> QED BY <1>7

LEMMA SpellsAll == ASSUME NEW s \in Seq(Tokens), s # <<>> PROVE \E f : Spells(f, s, Len(s))
<1> DEFINE bad == {n \in 1..Len(s) : ~ \E f : Spells(f, s, n)}
<1>0. Len(s) \in Nat /\ Len(s) >= 1 /\ Len(s) \in 1..Len(s)
    BY EmptySeq, LenProperties
<1>1. ASSUME bad # {} PROVE FALSE
    <2>1. bad \in SUBSET Nat
        OBVIOUS
    <2>2. PICK n \in bad : \A j \in bad : n <= j
        BY <1>1, <2>1, Least
    <2>3. n \in 1..Len(s) /\ ~ \E f : Spells(f, s, n)
        OBVIOUS
    <2>4. n > 1
        BY <1>0, <2>3, SpellsOne
    <2>5. n - 1 \in 1..Len(s) /\ n - 1 < n
        BY <2>3, <2>4
    <2>6. n - 1 \notin bad
        BY <2>2, <2>5
    <2>7. PICK f : Spells(f, s, n - 1)
        BY <2>5, <2>6
    <2> QED BY <2>3, <2>4, <2>7, SpellsNext
<1> QED BY <1>0, <1>1

\* What a subject is spelt in a consumer's name is a name.
LEMMA SpeltIsAName == ASSUME NEW s \in Seq(Tokens), s # <<>> PROVE C!Spelt(s) \in Tokens
<1> DEFINE n == Len(s)
           step(f) == [i \in 1..n |-> IF i = 1 THEN C!Fit(s[1]) ELSE f[i - 1] \o <<"_">> \o C!Fit(s[i])]
           g == C!SpeltTo(s)
<1>1. g = CHOOSE f : f = [i \in 1..n |-> IF i = 1 THEN C!Fit(s[1]) ELSE f[i - 1] \o <<"_">> \o C!Fit(s[i])]
    BY DEF C!SpeltTo
<1>2. PICK f : Spells(f, s, n)
    BY SpellsAll
<1>3. f = [i \in 1..n |-> IF i = 1 THEN C!Fit(s[1]) ELSE f[i - 1] \o <<"_">> \o C!Fit(s[i])]
    BY <1>2 DEF Spells
<1>4. g = [i \in 1..n |-> IF i = 1 THEN C!Fit(s[1]) ELSE g[i - 1] \o <<"_">> \o C!Fit(s[i])]
    BY <1>1, <1>3
<1> HIDE DEF g
<1>5. \A i \in 1..n : g[i] = IF i = 1 THEN C!Fit(s[1]) ELSE g[i - 1] \o <<"_">> \o C!Fit(s[i])
    BY <1>4
<1> DEFINE bad == {i \in 1..n : g[i] \notin Tokens}
<1>6. n \in Nat /\ n \in 1..n
    BY EmptySeq, LenProperties
<1>7. ASSUME bad # {} PROVE FALSE
    <2>1. bad \in SUBSET Nat
        OBVIOUS
    <2>2. PICK i \in bad : \A j \in bad : i <= j
        BY <1>7, <2>1, Least
    <2>3. i \in 1..n /\ g[i] \notin Tokens
        OBVIOUS
    <2>4. s[1] \in Tokens /\ s[i] \in Tokens
        BY <1>6, <2>3, ElementOfSeq
    <2>5. i # 1
        BY <1>5, <2>3, <2>4, FitTyped
    <2>6. i - 1 \in 1..n /\ i - 1 < i
        BY <1>6, <2>3, <2>5
    <2>7. g[i - 1] \in Tokens
        BY <2>2, <2>6
    <2>8. g[i] = g[i - 1] \o <<"_">> \o C!Fit(s[i])
        BY <1>5, <2>3, <2>5
    <2> QED BY <2>3, <2>4, <2>7, <2>8, Further
<1>8. g[n] \in Tokens
    BY <1>6, <1>7
<1> QED BY <1>8 DEF C!Spelt, g

\* What a configuration is written in.
LEMMA ConfigTyped ==
    ASSUME C!Parameters, NEW c \in C!Configs
    PROVE  /\ c.ns \in Tokens /\ c.process \in Tokens /\ c.durable \in Tokens /\ C!QueueGroup(c) \in Tokens
           /\ \A t \in C!Consumed(c) : t \in Seq(Tokens) /\ t # <<>>
<1>1. /\ c.ns \in Seq(STRING) /\ c.process \in Seq(STRING) /\ c.durable \in Seq(STRING)
      /\ c.topics \subseteq Seq(Seq(STRING)) \ {<<>>} /\ c.jobs \subseteq Seq(STRING)
    BY DEF C!Parameters, C!Written
<1>2. Seq(STRING) \subseteq Tokens
    BY SeqMonotonic DEF Tokens, Characters
<1>3. Seq(Seq(STRING)) \subseteq Seq(Tokens)
    BY <1>2, SeqMonotonic
<1>4. C!QueueGroup(c) \in Tokens
    BY <1>1, <1>2 DEF C!QueueGroup
<1>5. ASSUME NEW tick \in c.jobs PROVE C!TickTopic(c, tick) \in Seq(Tokens) /\ C!TickTopic(c, tick) # <<>>
    <2>1. <<"scheduler">> \in Tokens
        BY OfOneOfTwo DEF Tokens, Characters
    <2>2. tick \in Tokens
        BY <1>1, <1>2
    <2> HIDE DEF Tokens
    <2> DEFINE one == C!QueueGroup(c)
               two == <<"scheduler">>
    <2>3. one \in Tokens /\ two \in Tokens
        BY <1>4, <2>1
    <2> HIDE DEF one, two
    <2>4. <<one, two, tick>> \in Seq(Tokens) /\ Len(<<one, two, tick>>) = 3
        BY <2>2, <2>3
    <2>5. <<one, two, tick>> # <<>>
        BY <2>4
    <2> QED BY <2>4, <2>5 DEF C!TickTopic, one, two
<1>6. ASSUME NEW t \in C!Consumed(c) PROVE t \in Seq(Tokens) /\ t # <<>>
    <2>1. t \in c.topics \/ \E tick \in c.jobs : t = C!TickTopic(c, tick)
        BY DEF C!Consumed, C!Declared
    <2> QED BY <1>1, <1>3, <1>5, <2>1
<1> QED BY <1>1, <1>2, <1>4, <1>6

\* What precedes a subject in the name of its durable.
Prefix(c) == IF c.ns = C!Root THEN <<>> ELSE c.ns \o <<"-">>

LEMMA PrefixTells ==
    ASSUME NEW c, NEW d, c.ns \in Tokens, d.ns \in Tokens
    PROVE  /\ Prefix(c) \in Tokens
           /\ Prefix(c) = Prefix(d) => c.ns = d.ns
<1>1. <<"-">> \in Tokens /\ <<>> \in Tokens /\ Len(<<"-">>) = 1
    <2>1. "-" \in Characters
        BY DEF Characters
    <2>2. <<"-">> \in Tokens
        BY <2>1, OfOneOfTwo DEF Tokens
    <2>3. <<>> \in Tokens
        BY EmptySeq DEF Tokens
    <2>4. Len(<<"-">>) = 1
        OBVIOUS
    <2> QED BY <2>2, <2>3, <2>4
<1> DEFINE dash == <<"-">>
<1>2. dash \in Seq(Characters) /\ dash # <<>> /\ c.ns \in Seq(Characters) /\ d.ns \in Seq(Characters) /\ C!Root = <<>>
    BY <1>1 DEF Tokens, C!Root
<1>3. Prefix(c) = (IF c.ns = <<>> THEN <<>> ELSE c.ns \o dash) /\ Prefix(d) = (IF d.ns = <<>> THEN <<>> ELSE d.ns \o dash)
    BY <1>2 DEF Prefix
<1> HIDE DEF dash
<1>4. c.ns \o dash \in Seq(Characters) /\ c.ns \o dash # <<>> /\ d.ns \o dash # <<>>
    BY <1>2, ConcatProperties, ConcatSimplifications
<1>5. c.ns \o dash = d.ns \o dash => c.ns = d.ns
    BY <1>2, ConcatSimplifications
<1>6. Prefix(c) \in Tokens
    BY <1>1, <1>3, <1>4 DEF Tokens
<1>7. Prefix(c) = Prefix(d) => c.ns = d.ns
    BY <1>3, <1>4, <1>5
<1> QED BY <1>6, <1>7

\* A durable of a subject names the agent of a group that consumes on it.
LEMMA DurableTells ==
    ASSUME C!Parameters, NEW c \in C!Configs, NEW d \in C!Configs, c.js, d.js, c.ns # C!Root \/ d.ns # C!Root,
           NEW t \in C!Consumed(c) \cap C!Consumed(d), C!DurableFor(c, t) = C!DurableFor(d, t)
    PROVE  d.ns = c.ns
<1> SUFFICES ASSUME d.ns # c.ns PROVE FALSE
    OBVIOUS
<1>1. c.durable = C!Unset /\ d.durable = C!Unset
    BY DEF C!Parameters, C!DurablesScoped
<1>2. c.ns \in Tokens /\ d.ns \in Tokens /\ t \in Seq(Tokens) /\ t # <<>>
    BY ConfigTyped
<1> DEFINE name == C!Spelt(t)
           end == <<"-", "durable">>
<1>3. name \in Tokens
    BY <1>2, SpeltIsAName
<1>4. end \in Tokens
    BY OfOneOfTwo DEF Tokens, Characters
<1>5. Prefix(c) \o name \o end = Prefix(d) \o name \o end
    BY <1>1 DEF C!DurableFor, Prefix
<1> HIDE DEF name, end
<1>6. Prefix(c) \in Tokens /\ Prefix(d) \in Tokens
    BY <1>2, PrefixTells
<1>7. Prefix(c) \o name \in Seq(Characters) /\ Prefix(d) \o name \in Seq(Characters)
    BY <1>3, <1>6, ConcatProperties DEF Tokens
<1>8. Prefix(c) \o name = Prefix(d) \o name
    BY <1>4, <1>5, <1>7, ConcatSimplifications DEF Tokens
<1>9. Prefix(c) = Prefix(d)
    BY <1>3, <1>6, <1>8, ConcatSimplifications DEF Tokens
<1> QED BY <1>2, <1>9, PrefixTells

\* The channel a configuration derives for a subject.
Core(c, t) == [by |-> "core", name |-> t, group |-> C!QueueGroup(c)]
OfDurable(c, t) == [by |-> "durable", name |-> C!DurableFor(c, t), group |-> durables[C!DurableFor(c, t)].group]

\* What is consumed is what the configuration derives, and a durable that is joined
\* filters its subject, and stays.
Derived(r, x) ==
    \E t \in C!Consumed(conf[r]) :
        IF conf[r].js
        THEN /\ x = <<t, OfDurable(conf[r], t)>>
             /\ C!DurableFor(conf[r], t) \in DOMAIN durables
             /\ durables[C!DurableFor(conf[r], t)].filter = t
        ELSE x = <<t, Core(conf[r], t)>>

ReplicaInv(r) ==
    /\ c_at[r] = "down" => todo[r] = {} /\ on[r] = {}
    /\ c_at[r] # "down" => conf[r] \in C!Configs
    /\ todo[r] \subseteq C!Consumed(conf[r]) /\ adding[r] \subseteq todo[r]
    /\ adding[r] # {} => conf[r].js
    /\ \A x \in on[r] : Derived(r, x)

ChannelsInv ==
    /\ c_at \in [c_Replicas -> {"down", "connecting", "subscribing", "consuming", "fatal"}]
    /\ DOMAIN conf = c_Replicas /\ DOMAIN todo = c_Replicas /\ DOMAIN adding = c_Replicas /\ DOMAIN on = c_Replicas
    /\ \A r \in c_Replicas : ReplicaInv(r)

LEMMA ChannelsHold == C!Parameters /\ ChannelsInv => C!ChannelsHeld
<1> SUFFICES ASSUME C!Parameters, ChannelsInv, NEW r \in c_Replicas, NEW s \in c_Replicas, NEW x \in on[r], NEW y \in on[s]
             PROVE  /\ x[2] = y[2] /\ conf[r].ns # C!Root => conf[s].ns = conf[r].ns /\ y[1] = x[1]
                    /\ (conf[r].ns # C!Root /\ conf[s].ns = conf[r].ns /\ y[1] = x[1] /\ conf[r].js = conf[s].js) => x[2] = y[2]
                    /\ x[1] \notin conf[r].claimed
    BY DEF C!ChannelsHeld
<1> DEFINE c == conf[r]
           d == conf[s]
<1>1. c \in C!Configs /\ d \in C!Configs
    BY DEF ChannelsInv, ReplicaInv
<1>2. PICK t \in C!Consumed(c) : IF c.js THEN /\ x = <<t, OfDurable(c, t)>>
                                              /\ C!DurableFor(c, t) \in DOMAIN durables
                                              /\ durables[C!DurableFor(c, t)].filter = t
                                         ELSE x = <<t, Core(c, t)>>
    BY DEF ChannelsInv, ReplicaInv, Derived
<1>3. PICK u \in C!Consumed(d) : IF d.js THEN /\ y = <<u, OfDurable(d, u)>>
                                              /\ C!DurableFor(d, u) \in DOMAIN durables
                                              /\ durables[C!DurableFor(d, u)].filter = u
                                         ELSE y = <<u, Core(d, u)>>
    BY DEF ChannelsInv, ReplicaInv, Derived
<1> HIDE DEF c, d
<1>4. x[1] = t /\ y[1] = u
    BY <1>2, <1>3
<1>5. ASSUME x[2] = y[2], c.ns # C!Root PROVE d.ns = c.ns /\ y[1] = x[1]
    <2>1. CASE c.js /\ d.js
        <3>1. C!DurableFor(c, t) = C!DurableFor(d, u)
            BY <1>2, <1>3, <1>5, <2>1 DEF OfDurable
        <3>2. t = u
            BY <1>2, <1>3, <2>1, <3>1
        <3> QED BY <1>1, <1>4, <1>5, <2>1, <3>1, <3>2, DurableTells
    <2>2. CASE ~c.js /\ ~d.js
        <3>1. t = u /\ C!QueueGroup(c) = C!QueueGroup(d)
            BY <1>2, <1>3, <1>5, <2>2 DEF Core
        <3>2. C!QueueGroup(d) = c.ns
            BY <1>5, <3>1 DEF C!QueueGroup
        <3>3. d.ns # C!Root
            BY <1>1, <1>5, <2>2, <3>2 DEF C!Parameters, C!NoAgentsName, C!QueueGroup
        <3>4. d.ns = c.ns
            BY <3>2, <3>3 DEF C!QueueGroup
        <3> QED BY <1>4, <3>1, <3>4
    <2>3. CASE c.js /\ ~d.js
        BY <1>2, <1>3, <1>5, <2>3 DEF OfDurable, Core
    <2>4. CASE ~c.js /\ d.js
        BY <1>2, <1>3, <1>5, <2>4 DEF OfDurable, Core
    <2> QED BY <2>1, <2>2, <2>3, <2>4
<1>6. ASSUME c.ns # C!Root, d.ns = c.ns, y[1] = x[1], c.js = d.js PROVE x[2] = y[2]
    <2>1. t = u
        BY <1>4, <1>6
    <2>2. CASE c.js
        <3>1. d.durable = c.durable
            BY <1>1, <1>6, <2>2 DEF C!Parameters, C!DurablesScoped
        <3>2. C!DurableFor(c, t) = C!DurableFor(d, u)
            BY <1>6, <2>1, <3>1 DEF C!DurableFor
        <3> QED BY <1>2, <1>3, <1>6, <2>2, <3>2 DEF OfDurable
    <2>3. CASE ~c.js
        <3>1. C!QueueGroup(c) = C!QueueGroup(d)
            BY <1>6 DEF C!QueueGroup
        <3> QED BY <1>2, <1>3, <1>6, <2>1, <2>3, <3>1 DEF Core
    <2> QED BY <2>2, <2>3
<1>7. x[1] \notin c.claimed
    BY <1>4 DEF C!Consumed
<1> QED BY <1>5, <1>6, <1>7 DEF c, d

LEMMA ChannelsInit == C!Init => ChannelsInv
<1> SUFFICES ASSUME C!Init PROVE ChannelsInv
    OBVIOUS
<1> QED BY DEF C!Init, ChannelsInv, ReplicaInv

\* A replica's is as it was, while the durables it has joined are.
LEMMA ReplicaKeeps ==
    ASSUME NEW r \in c_Replicas, ReplicaInv(r),
           c_at'[r] = "down" <=> c_at[r] = "down", conf'[r] = conf[r], todo'[r] = todo[r], on'[r] = on[r],
           adding'[r] \subseteq todo[r], adding'[r] # {} => conf[r].js,
           \A n \in DOMAIN durables : n \in DOMAIN durables' /\ durables'[n] = durables[n]
    PROVE  ReplicaInv(r)'
<1>1. ASSUME NEW x \in on[r] PROVE Derived(r, x)'
    <2>1. Derived(r, x)
        BY DEF ReplicaInv
    <2> QED BY <2>1 DEF Derived, OfDurable, Core
<1> QED BY <1>1 DEF ReplicaInv

\* A replica that joins a channel its configuration derives.
LEMMA ReplicaJoins ==
    ASSUME ChannelsInv, NEW r \in c_Replicas, NEW t \in todo[r], c_at[r] = "subscribing", NEW channel, C!Joins(r, t, channel),
           \A n \in DOMAIN durables : n \in DOMAIN durables' /\ durables'[n] = durables[n],
           IF conf[r].js
           THEN /\ channel = OfDurable(conf[r], t)'
                /\ C!DurableFor(conf[r], t) \in DOMAIN durables'
                /\ durables'[C!DurableFor(conf[r], t)].filter = t
           ELSE channel = Core(conf[r], t)
    PROVE  ChannelsInv'
<1>1. /\ on' = [on EXCEPT ![r] = @ \cup {<<t, channel>>}]
      /\ todo' = [todo EXCEPT ![r] = @ \ {t}]
      /\ adding' = [adding EXCEPT ![r] = @ \ {t}]
      /\ c_at' = [c_at EXCEPT ![r] = IF todo[r] = {t} THEN "consuming" ELSE @]
      /\ conf' = conf
    BY DEF C!Joins
<1>2. /\ c_at' \in [c_Replicas -> {"down", "connecting", "subscribing", "consuming", "fatal"}]
      /\ DOMAIN conf' = c_Replicas /\ DOMAIN todo' = c_Replicas /\ DOMAIN adding' = c_Replicas /\ DOMAIN on' = c_Replicas
    BY <1>1 DEF ChannelsInv
<1>3. ASSUME NEW s \in c_Replicas, s # r PROVE ReplicaInv(s)'
    <2>1. /\ ReplicaInv(s) /\ c_at'[s] = c_at[s] /\ conf'[s] = conf[s] /\ todo'[s] = todo[s] /\ on'[s] = on[s]
          /\ adding'[s] = adding[s]
        BY <1>1, <1>3 DEF ChannelsInv
    <2>2. adding[s] \subseteq todo[s] /\ (adding[s] # {} => conf[s].js)
        BY <2>1 DEF ReplicaInv
    <2> QED BY <2>1, <2>2, ReplicaKeeps
<1>4. ReplicaInv(r)'
    <2>1. /\ on'[r] = on[r] \cup {<<t, channel>>} /\ todo'[r] = todo[r] \ {t} /\ adding'[r] = adding[r] \ {t}
          /\ c_at'[r] \in {"subscribing", "consuming"} /\ conf'[r] = conf[r] /\ ReplicaInv(r)
        BY <1>1 DEF ChannelsInv
    <2>2. ASSUME NEW x \in on[r] PROVE Derived(r, x)'
        <3>1. Derived(r, x)
            BY <2>1 DEF ReplicaInv
        <3> QED BY <2>1, <3>1 DEF Derived, OfDurable, Core
    <2>3. Derived(r, <<t, channel>>)'
        <3>1. t \in C!Consumed(conf[r])
            BY <2>1 DEF ReplicaInv
        <3> QED BY <2>1, <3>1 DEF Derived, OfDurable, Core
    <2>4. \A x \in on'[r] : Derived(r, x)'
        BY <2>1, <2>2, <2>3
    <2>5. conf[r] \in C!Configs /\ todo[r] \subseteq C!Consumed(conf[r]) /\ adding[r] \subseteq todo[r] /\ (adding[r] # {} => conf[r].js)
        BY <2>1 DEF ReplicaInv
    <2> QED BY <2>1, <2>4, <2>5 DEF ReplicaInv
<1>5. \A s \in c_Replicas : ReplicaInv(s)'
    BY <1>3, <1>4
<1> QED BY <1>2, <1>5 DEF ChannelsInv

LEMMA ChannelsStep == ASSUME C!Parameters, ChannelsInv, C!Next PROVE ChannelsInv'
<1>0. /\ c_at \in [c_Replicas -> {"down", "connecting", "subscribing", "consuming", "fatal"}]
      /\ DOMAIN conf = c_Replicas /\ DOMAIN todo = c_Replicas /\ DOMAIN adding = c_Replicas /\ DOMAIN on = c_Replicas
      /\ \A s \in c_Replicas : ReplicaInv(s)
    BY DEF ChannelsInv
<1>K. \A s \in c_Replicas : adding[s] \subseteq todo[s] /\ (adding[s] # {} => conf[s].js)
    BY <1>0 DEF ReplicaInv
<1>1. PICK r \in c_Replicas :
        \/ C!Refused(r) \/ C!Starts(r) \/ C!Connects(r) \/ C!ConnectsHalf(r) \/ C!ConnectedAlready(r) \/ C!Stops(r)
        \/ \E t \in todo[r] : C!Listens(r, t) \/ C!Looks(r, t) \/ C!Adds(r, t)
    BY DEF C!Next
<1> DEFINE Same(s) == /\ c_at'[s] = "down" <=> c_at[s] = "down"
                      /\ conf'[s] = conf[s] /\ todo'[s] = todo[s] /\ on'[s] = on[s]
                      /\ adding'[s] \subseteq todo[s] /\ (adding'[s] # {} => conf[s].js)
           Shape == /\ c_at' \in [c_Replicas -> {"down", "connecting", "subscribing", "consuming", "fatal"}]
                    /\ DOMAIN conf' = c_Replicas /\ DOMAIN todo' = c_Replicas /\ DOMAIN adding' = c_Replicas /\ DOMAIN on' = c_Replicas
<1>S. ASSUME NEW s \in c_Replicas, Same(s), durables' = durables PROVE ReplicaInv(s)'
    BY <1>0, <1>S, ReplicaKeeps
<1>A. ASSUME \A s \in c_Replicas : Same(s), durables' = durables, Shape PROVE ChannelsInv'
    BY <1>S, <1>A DEF ChannelsInv
<1>2. CASE C!Refused(r)
    <2>1. \A s \in c_Replicas : Same(s)
        BY <1>K, <1>2 DEF C!Refused
    <2> QED BY <1>0, <1>2, <1>A, <2>1 DEF C!Refused
<1>3. CASE C!Starts(r)
    <2>1. PICK c \in c_Runs[r] :
            /\ conf' = [conf EXCEPT ![r] = c]
            /\ c_at' = [c_at EXCEPT ![r] = "connecting"]
            /\ todo' = [todo EXCEPT ![r] = C!Consumed(c)]
        BY <1>3 DEF C!Starts
    <2>2. /\ c_at[r] = "down" /\ adding' = adding /\ on' = on /\ durables' = durables
          /\ c \in C!Configs
        BY <1>3 DEF C!Starts, C!Configs
    <2>3. on'[r] = {} /\ adding'[r] = {}
        BY <1>0, <2>2 DEF ReplicaInv
    <2>4. ASSUME NEW s \in c_Replicas, s # r PROVE ReplicaInv(s)'
        <3>1. Same(s)
            BY <1>0, <1>K, <2>1, <2>2, <2>4
        <3> QED BY <1>S, <2>2, <3>1
    <2>5. conf'[r] = c /\ c_at'[r] = "connecting" /\ todo'[r] = C!Consumed(c)
        BY <1>0, <2>1
    <2>6. ReplicaInv(r)'
        BY <2>2, <2>3, <2>5 DEF ReplicaInv
    <2>7. Shape
        BY <1>0, <2>1, <2>2
    <2> QED BY <2>4, <2>6, <2>7 DEF ChannelsInv
<1>4. CASE C!Connects(r)
    <2>1. c_at[r] = "connecting" /\ UNCHANGED <<conf, todo, adding, on, durables>>
        BY <1>4 DEF C!Connects
    <2>2. \E a \in {"fatal", "subscribing"} : c_at' = [c_at EXCEPT ![r] = a]
        BY <1>4 DEF C!Connects
    <2>3. Shape /\ \A s \in c_Replicas : Same(s)
        BY <1>0, <1>K, <2>1, <2>2
    <2> QED BY <1>A, <2>1, <2>3
<1>5. CASE C!ConnectsHalf(r)
    <2>1. \A s \in c_Replicas : Same(s)
        BY <1>K, <1>5 DEF C!ConnectsHalf
    <2> QED BY <1>0, <1>5, <1>A, <2>1 DEF C!ConnectsHalf
<1>6. CASE C!ConnectedAlready(r)
    <2>1. c_at[r] = "connecting" /\ c_at' = [c_at EXCEPT ![r] = "subscribing"] /\ UNCHANGED <<conf, todo, adding, on, durables>>
        BY <1>6 DEF C!ConnectedAlready
    <2>3. Shape /\ \A s \in c_Replicas : Same(s)
        BY <1>0, <1>K, <2>1
    <2> QED BY <1>A, <2>1, <2>3
<1>7. CASE C!Stops(r)
    <2>1. /\ c_at' = [c_at EXCEPT ![r] = "down"]
          /\ conf' = [conf EXCEPT ![r] = C!Sample(r)]
          /\ todo' = [todo EXCEPT ![r] = {}]
          /\ adding' = [adding EXCEPT ![r] = {}]
          /\ on' = [on EXCEPT ![r] = {}]
          /\ durables' = durables
        BY <1>7 DEF C!Stops
    <2>2. Shape
        BY <1>0, <2>1
    <2>3. ASSUME NEW s \in c_Replicas, s # r PROVE ReplicaInv(s)'
        <3>1. Same(s)
            BY <1>0, <1>K, <2>1, <2>3
        <3> QED BY <1>S, <2>1, <3>1
    <2>4. c_at'[r] = "down" /\ todo'[r] = {} /\ adding'[r] = {} /\ on'[r] = {}
        BY <1>0, <2>1
    <2>5. ReplicaInv(r)'
        BY <2>4 DEF ReplicaInv
    <2> QED BY <2>2, <2>3, <2>5 DEF ChannelsInv
<1>8. ASSUME NEW t \in todo[r], C!Listens(r, t) PROVE ChannelsInv'
    BY <1>8, ReplicaJoins DEF C!Listens, Core
<1>9. ASSUME NEW t \in todo[r], C!Looks(r, t) PROVE ChannelsInv'
    <2> DEFINE name == C!DurableFor(conf[r], t)
    <2>1. c_at[r] = "subscribing" /\ conf[r].js /\ durables' = durables
        BY <1>9 DEF C!Looks
    <2>2. CASE name \notin DOMAIN durables /\ adding' = [adding EXCEPT ![r] = @ \cup {t}] /\ UNCHANGED <<c_at, conf, todo, on>>
        <3>1. Shape /\ \A s \in c_Replicas : Same(s)
            BY <1>0, <1>K, <2>1, <2>2
        <3> QED BY <1>A, <2>1, <3>1
    <2>3. CASE name \in DOMAIN durables /\ C!Belongs(name, t) /\ C!Joins(r, t, [by |-> "durable", name |-> name, group |-> durables[name].group])
        <3>1. durables[name].filter = t
            BY <2>3 DEF C!Belongs
        <3>2. [by |-> "durable", name |-> name, group |-> durables[name].group] = OfDurable(conf[r], t)'
            BY <2>1, <2>3 DEF OfDurable, C!Joins
        <3> QED BY <2>1, <2>3, <3>1, <3>2, ReplicaJoins
    <2>4. CASE c_at' = [c_at EXCEPT ![r] = "fatal"] /\ UNCHANGED <<conf, todo, adding, on>>
        <3>1. Shape /\ \A s \in c_Replicas : Same(s)
            BY <1>0, <1>K, <2>1, <2>4
        <3> QED BY <1>A, <2>1, <3>1
    <2> QED BY <1>9, <2>2, <2>3, <2>4 DEF C!Looks
<1>10. ASSUME NEW t \in todo[r], C!Adds(r, t) PROVE ChannelsInv'
    <2> DEFINE name == C!DurableFor(conf[r], t)
               wanted == [filter |-> t, group |-> C!QueueGroup(conf[r])]
    <2>1. c_at[r] = "subscribing" /\ conf[r].js
        BY <1>10, <1>K DEF C!Adds
    <2>2. CASE /\ ~(name \in DOMAIN durables /\ durables[name] # wanted)
               /\ durables' = [n \in DOMAIN durables \cup {name} |-> IF n = name THEN wanted ELSE durables[n]]
               /\ C!Joins(r, t, [by |-> "durable", name |-> name, group |-> C!QueueGroup(conf[r])])
        <3>1. \A n \in DOMAIN durables : n \in DOMAIN durables' /\ durables'[n] = durables[n]
            BY <2>2
        <3>2. name \in DOMAIN durables' /\ durables'[name] = wanted
            BY <2>2
        <3>3. conf' = conf
            BY <2>2 DEF C!Joins
        <3>4. [by |-> "durable", name |-> name, group |-> C!QueueGroup(conf[r])] = OfDurable(conf[r], t)'
            BY <3>2, <3>3 DEF OfDurable
        <3> QED BY <2>1, <2>2, <3>1, <3>2, <3>4, ReplicaJoins
    <2>3. CASE adding' = [adding EXCEPT ![r] = @ \ {t}] /\ UNCHANGED <<c_at, conf, todo, on, durables>>
        <3>1. Shape /\ \A s \in c_Replicas : Same(s)
            BY <1>0, <1>K, <2>1, <2>3
        <3> QED BY <1>A, <2>3, <3>1
    <2> QED BY <1>10, <2>2, <2>3 DEF C!Adds
<1> QED BY <1>1, <1>2, <1>3, <1>4, <1>5, <1>6, <1>7, <1>8, <1>9, <1>10

LEMMA ChannelsAlways == ASSUME C!Parameters PROVE C!Spec => []C!ChannelsHeld
<1>1. C!Init => ChannelsInv
    BY ChannelsInit
<1>2. ChannelsInv /\ [C!Next]_(C!vars) => ChannelsInv'
    <2> SUFFICES ASSUME ChannelsInv, [C!Next]_(C!vars) PROVE ChannelsInv'
        OBVIOUS
    <2>1. CASE C!Next
        BY <2>1, ChannelsStep
    <2>2. CASE UNCHANGED C!vars
        BY <2>2 DEF C!vars, ChannelsInv, ReplicaInv, Derived, OfDurable, Core
    <2> QED BY <2>1, <2>2
<1>3. ChannelsInv => C!ChannelsHeld
    BY ChannelsHold
<1> QED BY <1>1, <1>2, <1>3, PTL DEF C!Spec

LEMMA ChannelsPart == ProcessSpec => C!Spec
<1>1. ProcessInit => C!Init
    BY DEF ProcessInit
<1>2. [ProcessNext]_process_vars => [C!Next]_(C!vars)
    <2> SUFFICES ASSUME ProcessNext \/ UNCHANGED process_vars PROVE C!Next \/ UNCHANGED C!vars
        OBVIOUS
    <2>1. CASE Joins
        BY <2>1 DEF Joins, C!Next
    <2>2. CASE UNCHANGED c_vars
        BY <2>2 DEF c_vars, C!vars
    <2>3. ProcessNext => Joins \/ UNCHANGED c_vars
        BY DEF ProcessNext, Lives, Ticking, Caching, Keying, FanningOut, Provisions, Assembles, Processes, Settles, Joins, About, Only
    <2>4. UNCHANGED process_vars => UNCHANGED c_vars
        BY DEF process_vars
    <2> QED BY <2>1, <2>2, <2>3, <2>4
<1> QED BY <1>1, <1>2, PTL DEF ProcessSpec, C!Spec

\* A channel an agent of a group consumes on carries one subject, to no one but its own
\* replicas, who all share it, for any replicas, configurations and durables at the broker
\* before, where a durable that is configured is configured for one agent
\* (_resolve_queue_group, _durable_for, _ensure_consumer).
THEOREM ChannelsAreOnesOwn == ProcessSpec => []ChannelsHeld
<1>1. C!Spec => []C!ChannelsHeld
    BY ChannelsAlways, ChannelsParameters
<1> QED BY <1>1, ChannelsPart, PTL DEF ChannelsHeld
=============================================================================
