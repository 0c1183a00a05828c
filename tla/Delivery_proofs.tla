--------------------------- MODULE Delivery_proofs ---------------------------
(***************************************************************************)
(* Type correctness, single runs and the release of markers of Delivery,   *)
(* and that delivery is at least once, for any events, replicas and        *)
(* limits and for any number of the faults the model has.                  *)
(***************************************************************************)
EXTENDS Delivery, SequenceTheorems, TLAPS

-----------------------------------------------------------------------------
(* The inductive invariant.                                                *)

Records == [at : Stages, on : Replicas \cup {NoReplica}, verdict : Verdicts, reported : BOOLEAN, claimed : BOOLEAN]

\* An attempt that was not made yet is in nobody's hands.
MadeByTheBroker == \A d \in Deliveries : sent[Event(d)] < Attempt(d) => run[d] = Idle("none")

\* No delivery is twice in a buffer.
BufferedOnce ==
    \A r \in Replicas : \A i, j \in DOMAIN buffer[r] : buffer[r][i] = buffer[r][j] => i = j

\* Only runs of deduplicated events claim, and each that is under way has.
ClaimedWhileRunning ==
    \A d \in Deliveries :
        /\ run[d].at \in {"none", "buffered", "waiting"} => ~run[d].claimed
        /\ Is(d, "claiming") => Event(d) \in Keyed
        /\ Is(d, "running") => (run[d].claimed <=> Event(d) \in Keyed)
        /\ Is(d, "releasing") => run[d].claimed /\ Event(d) \in Keyed

\* While the cache answers, the runs of a deduplicated event are kept apart by
\* its marker, and the marker stays once the event is handled.
Owns(d) == Event(d) \in Keyed /\ run[d].at \in {"running", "releasing"}
MarkerExcludes ==
    "cache" \notin faults =>
        /\ \A d \in Deliveries : Owns(d) => Event(d) \in marker \ handled
        /\ \A d, x \in Deliveries : Owns(d) /\ Owns(x) /\ Event(d) = Event(x) => d = x
        /\ handled \cap Keyed \subseteq marker

\* What is settled for good is on the record before it is settled.
SettledOnRecord ==
    \A d \in Deliveries :
        /\ run[d].verdict = "ack" /\ Event(d) \notin Keyed => Event(d) \in handled
        /\ Is(d, "terming") => Event(d) \in dead

IInv ==
    /\ TypeOK
    /\ MadeByTheBroker
    /\ BufferedOnce
    /\ ClaimedWhileRunning
    /\ MarkerExcludes
    /\ MarkersReleased
    /\ SettledOnRecord

-----------------------------------------------------------------------------
(* Lemmas.                                                                 *)

LEMMA DeliveryType ==
    ASSUME NEW d \in Deliveries
    PROVE  Event(d) \in Events /\ Attempt(d) \in 1..MaxDeliver /\ d = <<Event(d), Attempt(d)>>
BY Numbers DEF Deliveries, Event, Attempt

LEMMA IdleRecord ==
    ASSUME NEW stage
    PROVE  /\ Idle(stage).at = stage /\ Idle(stage).on = NoReplica
           /\ ~Idle(stage).claimed /\ Idle(stage).verdict = "none"
BY DEF Idle

\* What the head and the tail of a buffer are.
LEMMA HeadAndTail ==
    ASSUME NEW S, NEW s \in Seq(S), s # <<>>
    PROVE  /\ Tail(s) \in Seq(S)
           /\ Head(s) = s[1] /\ 1 \in DOMAIN s
           /\ \A i \in DOMAIN Tail(s) : i + 1 \in DOMAIN s /\ Tail(s)[i] = s[i + 1] /\ i \in Nat
<1>1. Len(s) \in Nat \ {0} /\ DOMAIN s = 1..Len(s)
    BY EmptySeq
<1> QED BY <1>1, HeadTailProperties

\* What an update of one delivery's record does to the others and to its type.
LEMMA Update ==
    ASSUME NEW f \in [Deliveries -> Records], NEW d \in Deliveries, NEW stage \in Stages,
           NEW verdict \in Verdicts, NEW claim \in BOOLEAN, NEW g,
           \/ g = [f EXCEPT ![d].at = stage]
           \/ g = [f EXCEPT ![d].at = stage, ![d].verdict = verdict]
           \/ g = [f EXCEPT ![d].at = stage, ![d].claimed = claim]
           \/ g = [f EXCEPT ![d] = Idle(stage)]
           \/ g = [f EXCEPT ![d].reported = TRUE] /\ stage = f[d].at
    PROVE  /\ g \in [Deliveries -> Records]
           /\ g[d].at = stage
           /\ \A x \in Deliveries \ {d} : g[x] = f[x]
<1> USE DEF Records
<1>1. CASE g = [f EXCEPT ![d].at = stage]
    BY <1>1
<1>2. CASE g = [f EXCEPT ![d].at = stage, ![d].verdict = verdict]
    BY <1>2
<1>3. CASE g = [f EXCEPT ![d].at = stage, ![d].claimed = claim]
    BY <1>3
<1>4. CASE g = [f EXCEPT ![d] = Idle(stage)]
    BY <1>4 DEF Idle, Verdicts
<1>5. CASE g = [f EXCEPT ![d].reported = TRUE] /\ stage = f[d].at
    BY <1>5
<1> QED BY <1>1, <1>2, <1>3, <1>4, <1>5

\* A run, from the wait for its slot on, touches the record of its own delivery only.
LEMMA RunIsLocal ==
    ASSUME TypeOK, NEW d \in Deliveries, RunSteps(d)
    PROVE  /\ run[d].at \notin {"none", "buffered", "over", "killed"}
           /\ run' \in [Deliveries -> Records]
           /\ run'[d].at \notin {"none", "buffered", "waiting"}
           /\ \A x \in Deliveries \ {d} : run'[x] = run[x]
           /\ UNCHANGED <<sent, sub, buffer>>
<1> DEFINE Past == {"claiming", "running", "releasing", "settling", "terming", "over", "killed"}
<1>0. run \in [Deliveries -> Records] /\ Past \subseteq Stages
    BY DEF TypeOK, Records, Stages
<1>1. /\ run[d].at \notin {"none", "buffered", "over", "killed"}
      /\ UNCHANGED <<sent, sub, buffer>>
      /\ \E stage \in Past, verdict \in Verdicts, claim \in BOOLEAN :
            \/ run' = [run EXCEPT ![d].at = stage]
            \/ run' = [run EXCEPT ![d].at = stage, ![d].verdict = verdict]
            \/ run' = [run EXCEPT ![d].at = stage, ![d].claimed = claim]
            \/ run' = [run EXCEPT ![d] = Idle(stage)]
            \/ run' = [run EXCEPT ![d].reported = TRUE] /\ stage = run[d].at
    <2> USE DEF Verdicts, Is, Goes, Decides, Ends, replica, consumer, outcome
    <2>1. CASE Start(d)
        BY <2>1 DEF Start, HasSlot
    <2>2. CASE Refuse(d)
        BY <2>2 DEF Refuse, HasSlot
    <2>3. CASE Claim(d)
        BY <2>3 DEF Claim
    <2>4. CASE Duplicate(d)
        BY <2>4 DEF Duplicate
    <2>5. CASE ClaimFailsOpen(d)
        BY <2>5 DEF ClaimFailsOpen
    <2>6. CASE ClaimCut(d)
        BY <2>6 DEF ClaimCut
    <2>7. CASE Return(d)
        BY <2>7 DEF Return
    <2>8. CASE Fail(d)
        BY <2>8 DEF Fail
    <2>9. CASE Cancel(d)
        BY <2>9 DEF Cancel
    <2>10. CASE Release(d)
        BY <2>10 DEF Release
    <2>11. CASE DeadLetter(d)
        BY <2>11 DEF DeadLetter
    <2>12. CASE Settle(d)
        BY <2>12 DEF Settle
    <2>13. CASE Report(d)
        BY <2>13 DEF Report, KeptAlive
    <2> QED BY <2>1, <2>2, <2>3, <2>4, <2>5, <2>6, <2>7, <2>8, <2>9, <2>10, <2>11, <2>12, <2>13 DEF RunSteps
<1>2. PICK stage \in Past, verdict \in Verdicts, claim \in BOOLEAN :
            \/ run' = [run EXCEPT ![d].at = stage]
            \/ run' = [run EXCEPT ![d].at = stage, ![d].verdict = verdict]
            \/ run' = [run EXCEPT ![d].at = stage, ![d].claimed = claim]
            \/ run' = [run EXCEPT ![d] = Idle(stage)]
            \/ run' = [run EXCEPT ![d].reported = TRUE] /\ stage = run[d].at
    BY <1>1
<1>3. stage \in Stages /\ stage \notin {"none", "buffered", "waiting"}
    BY <1>0
<1> HIDE DEF Past
<1>4. run' \in [Deliveries -> Records] /\ run'[d].at = stage /\ \A x \in Deliveries \ {d} : run'[x] = run[x]
    BY <1>0, <1>2, <1>3, Update
<1> QED BY <1>1, <1>3, <1>4

-----------------------------------------------------------------------------
(* The invariant holds initially, and every step preserves it.             *)

LEMMA InitIInv == Init => IInv
<1> SUFFICES ASSUME Init PROVE IInv
    OBVIOUS
<1>1. TypeOK
    BY Numbers DEF Init, TypeOK, Idle, Stages, Verdicts
<1>2. MadeByTheBroker /\ ClaimedWhileRunning /\ SettledOnRecord
    BY DEF Init, MadeByTheBroker, ClaimedWhileRunning, SettledOnRecord, Idle, Is
<1>3. BufferedOnce
    BY DEF Init, BufferedOnce
<1>4. MarkerExcludes /\ MarkersReleased
    BY DEF Init, MarkerExcludes, Owns, MarkersReleased, Idle
<1> QED BY <1>1, <1>2, <1>3, <1>4 DEF IInv

\* What a buffer holds, for the steps that follow.
Buffers ==
    /\ buffer \in [Replicas -> Seq(Deliveries)]
    /\ run \in [Deliveries -> Records]
    /\ \A r \in Replicas : \A i \in DOMAIN buffer[r] :
            buffer[r][i] \in Deliveries /\ Is(buffer[r][i], "buffered") /\ run[buffer[r][i]].on = r

LEMMA TypedBuffers == TypeOK => Buffers
BY DEF TypeOK, Buffers, Records, Is

LEMMA TypeOKStep == IInv /\ [Next]_vars => TypeOK'
<1> SUFFICES ASSUME IInv, [Next]_vars PROVE TypeOK'
    OBVIOUS
<1>1. ASSUME NEW d \in Deliveries, RunSteps(d) PROVE TypeOK'
    <2>1. Buffers /\ TypeOK
        BY TypedBuffers DEF IInv
    <2>2. /\ run' \in [Deliveries -> Records] /\ sent' = sent /\ sub' = sub /\ buffer' = buffer
          /\ \A x \in Deliveries : run[x].at = "buffered" => run'[x] = run[x]
        BY <1>1, <2>1, RunIsLocal
    <2>3. \A r \in Replicas : \A i \in DOMAIN buffer'[r] :
              run'[buffer'[r][i]].at = "buffered" /\ run'[buffer'[r][i]].on = r
        BY <2>1, <2>2 DEF Buffers, Is
    <2>4. Event(d) \in Events
        BY DeliveryType
    <2>5. broker' \in [Events -> {"ready", "out", "acked", "termed", "spent"}]
        <3>1. CASE Settle(d)
            <4>1. broker' = broker \/ Arrives(d)
                BY <3>1 DEF Settle
            <4>2. broker \in [Events -> {"ready", "out", "acked", "termed", "spent"}]
                BY <2>1 DEF TypeOK
            <4>3. CASE Arrives(d)
                <5>1. \E b \in {"ready", "acked", "termed", "spent"} : broker' = [broker EXCEPT ![Event(d)] = b]
                    BY <4>3 DEF Arrives, Redelivers
                <5> QED BY <4>2, <5>1
            <4> QED BY <4>1, <4>2, <4>3
        <3>2. CASE ~Settle(d)
            BY <1>1, <2>1, <3>2 DEF TypeOK, RunSteps, Start, Refuse, Report, Claim, Duplicate, ClaimFailsOpen,
                ClaimCut, Return, Fail, Cancel, Release, DeadLetter, consumer
        <3> QED BY <3>1, <3>2
    <2>6. faults' \subseteq Faults
        BY <1>1, <2>1 DEF TypeOK, Fault, RunSteps, Start, Refuse, Report, Claim, Duplicate, ClaimFailsOpen,
            ClaimCut, Return, Fail, Cancel, Release, DeadLetter, Settle
    <2>7. marker' \subseteq Keyed
        BY <1>1, <2>1 DEF TypeOK, IInv, ClaimedWhileRunning, RunSteps, Start, Refuse, Report, Claim, Duplicate,
            ClaimFailsOpen, ClaimCut, Return, Fail, Cancel, Release, DeadLetter, Settle
    <2>8. handled' \subseteq Events /\ dead' \subseteq Events
        BY <1>1, <2>1, <2>4 DEF TypeOK, outcome, RunSteps, Start, Refuse, Report, Claim, Duplicate,
            ClaimFailsOpen, ClaimCut, Return, Fail, Cancel, Release, DeadLetter, Settle
    <2> QED BY <2>1, <2>2, <2>3, <2>5, <2>6, <2>7, <2>8 DEF TypeOK, Records
<1>2. ASSUME NEW e \in Events, NEW r \in Replicas, Deliver(e, r) PROVE TypeOK'
    <2> DEFINE d == <<e, sent[e] + 1>>
    <2>1. Buffers /\ TypeOK
        BY TypedBuffers DEF IInv
    <2>2. d \in Deliveries /\ Event(d) = e /\ Attempt(d) = sent[e] + 1 /\ sent[e] < Attempt(d)
        BY <1>2, <2>1, Numbers DEF Deliver, Deliveries, Event, Attempt, TypeOK
    <2>3. run[d] = Idle("none")
        BY <2>2 DEF IInv, MadeByTheBroker
    <2>4. /\ run' \in [Deliveries -> Records] /\ run'[d].at = "buffered" /\ run'[d].on = r
          /\ \A x \in Deliveries \ {d} : run'[x] = run[x]
        <3>1. run' = [run EXCEPT ![d].at = "buffered", ![d].on = r]
            BY <1>2 DEF Deliver
        <3>2. run \in [Deliveries -> Records]
            BY <2>1 DEF Buffers
        <3> HIDE DEF d
        <3> QED BY <2>2, <3>1, <3>2 DEF Records, Stages
    <2>5. /\ buffer' \in [Replicas -> Seq(Deliveries)]
          /\ \A q \in Replicas : \A i \in DOMAIN buffer'[q] :
                run'[buffer'[q][i]].at = "buffered" /\ run'[buffer'[q][i]].on = q
        <3>1. buffer' = [buffer EXCEPT ![r] = Append(@, d)]
            BY <1>2 DEF Deliver
        <3>2. Append(buffer[r], d) \in Seq(Deliveries)
            BY <2>1, <2>2 DEF Buffers
        <3>3. \A i \in DOMAIN Append(buffer[r], d) :
                  Append(buffer[r], d)[i] = d \/ (i \in DOMAIN buffer[r] /\ Append(buffer[r], d)[i] = buffer[r][i])
            BY <2>1, <2>2, AppendProperties DEF Buffers
        <3>4. \A q \in Replicas : \A i \in DOMAIN buffer[q] :
                  /\ run'[buffer[q][i]].at = "buffered" /\ run'[buffer[q][i]].on = q
            <4>1. run[d].at # "buffered"
                BY <2>3 DEF Idle
            <4> HIDE DEF d
            <4> QED BY <2>1, <2>4, <4>1 DEF Buffers, Is
        <3>5. buffer' \in [Replicas -> Seq(Deliveries)]
            BY <2>1, <3>1, <3>2 DEF Buffers
        <3> HIDE DEF d
        <3> QED BY <2>1, <2>4, <3>1, <3>3, <3>4, <3>5 DEF Buffers
    <2>6. /\ broker' = [broker EXCEPT ![e] = "out"] /\ sent' = [sent EXCEPT ![e] = @ + 1]
          /\ sent[e] + 1 \in 0..MaxDeliver
          /\ UNCHANGED <<sub, marker, handled, dead, faults>>
        BY <1>2, <2>1, Numbers DEF Deliver, TypeOK, outcome
    <2>7. /\ broker' \in [Events -> {"ready", "out", "acked", "termed", "spent"}]
          /\ sent' \in [Events -> 0..MaxDeliver]
        BY <2>1, <2>6 DEF TypeOK
    <2> QED BY <2>1, <2>4, <2>5, <2>6, <2>7 DEF TypeOK, Records
<1>3. ASSUME NEW e \in Events, AckWait(e) \/ Silence(e) PROVE TypeOK'
    BY <1>3 DEF AckWait, Silence, Redelivers, Fault, IInv, TypeOK, replica, outcome
<1>4. ASSUME NEW r \in Replicas, Take(r) PROVE TypeOK'
    <2> DEFINE d == Head(buffer[r])
    <2>1. Buffers /\ TypeOK
        BY TypedBuffers DEF IInv
    <2>2. /\ d = buffer[r][1] /\ 1 \in DOMAIN buffer[r] /\ d \in Deliveries
          /\ Tail(buffer[r]) \in Seq(Deliveries)
          /\ \A i \in DOMAIN Tail(buffer[r]) :
                i \in Nat /\ i + 1 \in DOMAIN buffer[r] /\ Tail(buffer[r])[i] = buffer[r][i + 1]
        BY <1>4, <2>1, HeadAndTail DEF Take, Buffers
    <2>3. /\ run' \in [Deliveries -> Records]
          /\ \A x \in Deliveries \ {d} : run'[x] = run[x]
        <3>1. \E stage \in Stages, verdict \in Verdicts, claim \in BOOLEAN :
                \/ run' = [run EXCEPT ![d].at = stage]
                \/ run' = [run EXCEPT ![d].at = stage, ![d].verdict = verdict]
                \/ run' = [run EXCEPT ![d].at = stage, ![d].claimed = claim]
                \/ run' = [run EXCEPT ![d] = Idle(stage)]
            BY <1>4 DEF Take, Goes, Decides, Stages, Verdicts
        <3>2. run \in [Deliveries -> Records]
            BY <2>1 DEF Buffers
        <3>3. d \in Deliveries
            BY <2>2
        <3> HIDE DEF d
        <3> QED BY <3>1, <3>2, <3>3, Update
    <2>4. \A i \in DOMAIN Tail(buffer[r]) : Tail(buffer[r])[i] # d
        <3>1. \A i \in Nat : i + 1 # 1 <=> i # 0
            OBVIOUS
        <3>2. \A i \in DOMAIN Tail(buffer[r]) : i # 0
            BY <2>2
        <3> QED BY <2>2, <3>1, <3>2 DEF IInv, BufferedOnce
    <2>5. /\ buffer' \in [Replicas -> Seq(Deliveries)]
          /\ \A q \in Replicas : \A i \in DOMAIN buffer'[q] :
                run'[buffer'[q][i]].at = "buffered" /\ run'[buffer'[q][i]].on = q
        <3>1. buffer' = [buffer EXCEPT ![r] = Tail(@)]
            BY <1>4 DEF Take
        <3>2. \A q \in Replicas \ {r} : \A i \in DOMAIN buffer[q] : buffer[q][i] # d
            BY <2>1, <2>2 DEF Buffers
        <3> QED BY <2>1, <2>2, <2>3, <2>4, <3>1, <3>2 DEF Buffers, Is
    <2> QED BY <1>4, <2>1, <2>3, <2>5 DEF Take, TypeOK, Records, outcome, consumer
<1>5. ASSUME NEW r \in Replicas, Pause(r) \/ Drained(r) \/ Resume(r) PROVE TypeOK'
    <2>1. \E s \in {"open", "pausing", "paused"} : sub' = [sub EXCEPT ![r] = s]
        BY <1>5 DEF Pause, Drained, Resume
    <2>2. sub' \in [Replicas -> {"open", "pausing", "paused"}]
        BY <2>1 DEF IInv, TypeOK
    <2>3. faults' \subseteq Faults
        BY <1>5 DEF Pause, Drained, Resume, Fault, IInv, TypeOK
    <2>4. UNCHANGED <<consumer, buffer, run, marker, outcome>>
        BY <1>5 DEF Pause, Drained, Resume
    <2> QED BY <2>2, <2>3, <2>4 DEF IInv, TypeOK, consumer, outcome
<1>6. ASSUME NEW r \in Replicas, DrainTimesOut(r) \/ Crash(r) PROVE TypeOK'
    <2>1. Buffers /\ TypeOK
        BY TypedBuffers DEF IInv
    <2>2. /\ run' \in [Deliveries -> Records]
          /\ \A x \in Deliveries : run[x].on # r => run'[x] = run[x]
        <3>1. Idle("killed") \in Records
            BY DEF Idle, Records, Stages, Verdicts
        <3>2. run \in [Deliveries -> Records]
            BY <2>1 DEF Buffers
        <3>3. CASE DrainTimesOut(r)
            BY <3>1, <3>2, <3>3 DEF DrainTimesOut, Held
        <3>4. CASE Crash(r)
            BY <3>1, <3>2, <3>4 DEF Crash
        <3> QED BY <1>6, <3>3, <3>4
    <2>3. /\ buffer' \in [Replicas -> Seq(Deliveries)]
          /\ \A q \in Replicas : \A i \in DOMAIN buffer'[q] :
                run'[buffer'[q][i]].at = "buffered" /\ run'[buffer'[q][i]].on = q
        <3>1. buffer' = [buffer EXCEPT ![r] = <<>>]
            BY <1>6 DEF DrainTimesOut, Crash
        <3>2. <<>> \in Seq(Deliveries) /\ DOMAIN <<>> = {}
            OBVIOUS
        <3> QED BY <2>1, <2>2, <3>1, <3>2 DEF Buffers, Is
    <2>4. faults' \subseteq Faults
        BY <1>6, <2>1 DEF DrainTimesOut, Crash, Fault, TypeOK
    <2>5. sub' \in [Replicas -> {"open", "pausing", "paused"}]
        BY <1>6, <2>1 DEF DrainTimesOut, Crash, TypeOK
    <2>6. UNCHANGED <<consumer, marker, outcome>>
        BY <1>6 DEF DrainTimesOut, Crash
    <2> QED BY <2>1, <2>2, <2>3, <2>4, <2>5, <2>6 DEF TypeOK, Records, outcome, consumer
<1>7. CASE UNCHANGED vars
    BY <1>7 DEF vars, consumer, replica, outcome, IInv, TypeOK
<1> QED BY <1>1, <1>2, <1>3, <1>4, <1>5, <1>6, <1>7 DEF Next, BrokerSteps, SubscriptionSteps

LEMMA BufferStep == IInv /\ [Next]_vars => MadeByTheBroker' /\ BufferedOnce'
<1> SUFFICES ASSUME IInv, [Next]_vars PROVE MadeByTheBroker' /\ BufferedOnce'
    OBVIOUS
<1>0. TypeOK /\ Buffers /\ MadeByTheBroker /\ BufferedOnce
    BY TypedBuffers DEF IInv
<1>1. ASSUME NEW d \in Deliveries, RunSteps(d) PROVE MadeByTheBroker' /\ BufferedOnce'
    <2>1. /\ run[d].at # "none" /\ sent' = sent /\ buffer' = buffer
          /\ \A x \in Deliveries \ {d} : run'[x] = run[x]
        BY <1>0, <1>1, RunIsLocal
    <2>2. MadeByTheBroker'
        BY <1>0, <2>1, IdleRecord DEF MadeByTheBroker
    <2> QED BY <1>0, <2>1, <2>2 DEF BufferedOnce
<1>2. ASSUME NEW e \in Events, NEW r \in Replicas, Deliver(e, r) PROVE MadeByTheBroker' /\ BufferedOnce'
    <2> DEFINE d == <<e, sent[e] + 1>>
    <2>1. /\ d \in Deliveries /\ Event(d) = e /\ Attempt(d) = sent[e] + 1
          /\ sent \in [Events -> Nat] /\ sent' = [sent EXCEPT ![e] = @ + 1]
          /\ buffer' = [buffer EXCEPT ![r] = Append(@, d)]
        BY <1>0, <1>2, Numbers DEF Deliver, Deliveries, Event, Attempt, TypeOK
    <2>2. run[d] = Idle("none")
        BY <1>0, <2>1 DEF MadeByTheBroker
    <2>3. \A x \in Deliveries \ {d} : run'[x] = run[x]
        BY <1>0, <1>2 DEF Deliver, Buffers
    <2>4. MadeByTheBroker'
        <3>1. ASSUME NEW x \in Deliveries, sent'[Event(x)] < Attempt(x) PROVE sent[Event(x)] < Attempt(x) /\ x # d
            BY <2>1, <3>1, DeliveryType
        <3> QED BY <1>0, <2>3, <3>1 DEF MadeByTheBroker, Idle
    <2>5. BufferedOnce'
        <3> DEFINE s == buffer[r]
                   t == Append(s, d)
        <3>1. s \in Seq(Deliveries) /\ Len(s) \in Nat /\ DOMAIN s = 1..Len(s)
            BY <1>0 DEF Buffers
        <3>2. \A i \in DOMAIN s : s[i] # d
            <4>1. run[d].at # "buffered"
                BY <2>2, IdleRecord
            <4> HIDE DEF d
            <4> QED BY <1>0, <4>1 DEF Buffers, Is
        <3>3. DOMAIN t = 1..(Len(s) + 1) /\ t[Len(s) + 1] = d /\ \A i \in DOMAIN s : t[i] = s[i]
            BY <2>1, <3>1, AppendProperties
        <3>4. \A i, j \in DOMAIN s : s[i] = s[j] => i = j
            BY <1>0 DEF BufferedOnce
        <3>5. \A i, j \in DOMAIN t : t[i] = t[j] => i = j
            <4> HIDE DEF s, t, d
            <4> QED BY <3>1, <3>2, <3>3, <3>4
        <3> HIDE DEF s, t, d
        <3>6. \A q \in Replicas : buffer'[q] = IF q = r THEN t ELSE buffer[q]
            BY <1>0, <2>1 DEF Buffers, s, t
        <3> QED BY <1>0, <3>5, <3>6 DEF BufferedOnce
    <2> QED BY <2>4, <2>5
<1>3. ASSUME NEW r \in Replicas, Take(r) PROVE MadeByTheBroker' /\ BufferedOnce'
    <2> DEFINE d == Head(buffer[r])
    <2>1. /\ d \in Deliveries /\ Is(d, "buffered") /\ sent' = sent
          /\ \A i \in DOMAIN Tail(buffer[r]) :
                i \in Nat /\ i + 1 \in DOMAIN buffer[r] /\ Tail(buffer[r])[i] = buffer[r][i + 1]
          /\ buffer' = [buffer EXCEPT ![r] = Tail(@)]
        BY <1>0, <1>3, HeadAndTail DEF Take, Buffers, consumer
    <2>2. \A x \in Deliveries \ {d} : run'[x] = run[x]
        BY <1>0, <1>3 DEF Take, Goes, Decides, Buffers
    <2>3. \A i, j \in Nat : i + 1 = j + 1 => i = j
        OBVIOUS
    <2>4. BufferedOnce'
        BY <1>0, <2>1, <2>3 DEF BufferedOnce, Buffers
    <2>5. MadeByTheBroker'
        <3> HIDE DEF d
        <3>1. ~(sent[Event(d)] < Attempt(d))
            BY <1>0, <2>1, IdleRecord DEF MadeByTheBroker, Is
        <3> QED BY <1>0, <2>1, <2>2, <3>1 DEF MadeByTheBroker
    <2> QED BY <2>4, <2>5
<1>4. ASSUME NEW r \in Replicas, DrainTimesOut(r) \/ Crash(r) PROVE MadeByTheBroker' /\ BufferedOnce'
    <2>1. /\ \A x \in Deliveries : run[x].on # r => run'[x] = run[x]
          /\ buffer' = [buffer EXCEPT ![r] = <<>>] /\ sent' = sent
        BY <1>4 DEF DrainTimesOut, Crash, Held, consumer
    <2>2. DOMAIN <<>> = {}
        OBVIOUS
    <2>3. BufferedOnce'
        BY <1>0, <2>1, <2>2 DEF BufferedOnce, Buffers
    <2>4. r # NoReplica
        BY Sets
    <2>5. MadeByTheBroker'
        BY <1>0, <2>1, <2>4, IdleRecord DEF MadeByTheBroker
    <2> QED BY <2>3, <2>5
<1>5. CASE UNCHANGED <<sent, buffer, run>>
    BY <1>0, <1>5 DEF MadeByTheBroker, BufferedOnce
<1>6. ASSUME NEW e \in Events, AckWait(e) \/ Silence(e) PROVE UNCHANGED <<sent, buffer, run>>
    BY <1>6 DEF AckWait, Silence, replica
<1>7. ASSUME NEW r \in Replicas, Pause(r) \/ Drained(r) \/ Resume(r) PROVE UNCHANGED <<sent, buffer, run>>
    BY <1>7 DEF Pause, Drained, Resume, consumer
<1>8. CASE UNCHANGED vars
    BY <1>5, <1>8 DEF vars, consumer, replica
<1> QED BY <1>1, <1>2, <1>3, <1>4, <1>5, <1>6, <1>7, <1>8 DEF Next, BrokerSteps, SubscriptionSteps

\* The parts about the marker and the settlement.
Dedup == ClaimedWhileRunning /\ MarkerExcludes /\ MarkersReleased /\ SettledOnRecord

\* Outside the runs nothing is claimed, handled or settled; only a crash ends a run.
LEMMA OutsideRuns ==
    ASSUME IInv,
           \/ \E e \in Events : BrokerSteps(e)
           \/ \E r \in Replicas : SubscriptionSteps(r)
           \/ UNCHANGED vars
    PROVE  /\ marker' = marker /\ handled' = handled /\ dead' = dead /\ faults \subseteq faults'
           /\ \A x \in Deliveries :
                \/ run'[x] = run[x]
                \/ /\ run'[x].at \in {"buffered", "waiting", "settling", "killed"}
                   /\ run'[x].verdict \in {run[x].verdict, "none", "back"}
                   /\ ~run'[x].claimed
                   /\ run[x].at \in {"running", "releasing"} => "crash" \in faults'
<1>0. Buffers /\ TypeOK /\ ClaimedWhileRunning
    BY TypedBuffers DEF IInv
<1>1. ASSUME NEW e \in Events, NEW r \in Replicas, Deliver(e, r)
      PROVE  \A x \in Deliveries :
                run'[x] = run[x] \/ (run'[x].at = "buffered" /\ run'[x].verdict = run[x].verdict
                                        /\ ~run'[x].claimed /\ run[x].at = "none")
    <2> DEFINE d == <<e, sent[e] + 1>>
    <2>1. d \in Deliveries /\ run[d] = Idle("none")
        BY <1>0, <1>1, Numbers DEF Deliver, Deliveries, Event, Attempt, TypeOK, IInv, MadeByTheBroker
    <2>2. run' = [run EXCEPT ![d].at = "buffered", ![d].on = r] /\ run \in [Deliveries -> Records]
        BY <1>0, <1>1 DEF Deliver, Buffers
    <2> HIDE DEF d
    <2> QED BY <2>1, <2>2, IdleRecord DEF Records
<1>2. ASSUME NEW r \in Replicas, Take(r)
      PROVE  \A x \in Deliveries :
                \/ run'[x] = run[x]
                \/ /\ run'[x].at \in {"waiting", "settling"} /\ run'[x].verdict \in {run[x].verdict, "back"}
                   /\ ~run'[x].claimed /\ run[x].at = "buffered"
    <2> DEFINE d == Head(buffer[r])
    <2>1. d \in Deliveries /\ Is(d, "buffered")
        BY <1>0, <1>2, HeadAndTail DEF Take, Buffers
    <2>2. ~run[d].claimed
        BY <1>0, <2>1 DEF ClaimedWhileRunning, Is
    <2>3. run' = [run EXCEPT ![d].at = "waiting"] \/ run' = [run EXCEPT ![d].at = "settling", ![d].verdict = "back"]
        BY <1>2 DEF Take, Goes, Decides
    <2>4. run \in [Deliveries -> Records]
        BY <1>0 DEF Buffers
    <2> HIDE DEF d
    <2> QED BY <2>1, <2>2, <2>3, <2>4 DEF Records, Is
<1>3. ASSUME NEW r \in Replicas, DrainTimesOut(r)
      PROVE  \A x \in Deliveries :
                run'[x] = run[x] \/ (run'[x] = Idle("killed") /\ run[x].at \in {"buffered", "waiting"})
    BY <1>3 DEF DrainTimesOut, Held
<1>4. ASSUME NEW r \in Replicas, Crash(r)
      PROVE  /\ \A x \in Deliveries : run'[x] = run[x] \/ run'[x] = Idle("killed")
             /\ "crash" \in faults'
    BY <1>4 DEF Crash, Fault
<1>5. ASSUME \/ \E e \in Events : AckWait(e) \/ Silence(e)
             \/ \E r \in Replicas : Pause(r) \/ Drained(r) \/ Resume(r)
             \/ UNCHANGED vars
      PROVE  run' = run
    BY <1>5 DEF AckWait, Silence, Pause, Drained, Resume, vars
<1>6. marker' = marker /\ handled' = handled /\ dead' = dead /\ faults \subseteq faults'
    BY DEF BrokerSteps, SubscriptionSteps, vars, outcome, Fault,
        Deliver, AckWait, Silence, Take, Pause, Drained, DrainTimesOut, Resume, Crash
<1> QED BY <1>1, <1>2, <1>3, <1>4, <1>5, <1>6, IdleRecord DEF BrokerSteps, SubscriptionSteps

LEMMA OutsideRunsDedup ==
    ASSUME IInv,
           \/ \E e \in Events : BrokerSteps(e)
           \/ \E r \in Replicas : SubscriptionSteps(r)
           \/ UNCHANGED vars
    PROVE  Dedup'
<1>0. Dedup
    BY DEF IInv, Dedup
<1>1. ClaimedWhileRunning'
    BY <1>0, OutsideRuns DEF Dedup, ClaimedWhileRunning, Is
<1>2. MarkerExcludes'
    BY <1>0, OutsideRuns DEF Dedup, MarkerExcludes, Owns
<1>3. MarkersReleased'
    BY <1>0, OutsideRuns DEF Dedup, MarkersReleased, OwnerAlive
<1>4. SettledOnRecord'
    BY <1>0, OutsideRuns DEF Dedup, SettledOnRecord, Is
<1> QED BY <1>1, <1>2, <1>3, <1>4 DEF Dedup

\* A step of a run, one action after the other.
LEMMA RunDedup ==
    ASSUME IInv, NEW d \in Deliveries, RunSteps(d)
    PROVE  Dedup'
<1>0. /\ TypeOK /\ Dedup /\ run \in [Deliveries -> Records] /\ Event(d) \in Events
      /\ \A x \in Deliveries \ {d} : run'[x] = run[x]
    BY RunIsLocal, DeliveryType DEF IInv, Dedup, TypeOK, Records
<1>1. CASE Start(d)
    <2>1. /\ Is(d, "waiting") /\ run'[d].at = (IF Event(d) \in Keyed THEN "claiming" ELSE "running")
          /\ run'[d].claimed = run[d].claimed /\ run'[d].verdict = run[d].verdict
          /\ marker' = marker /\ handled' = handled /\ dead' = dead /\ faults' = faults
        BY <1>0, <1>1, IdleRecord DEF Start, HasSlot, Is, Goes, Decides, Ends, Records, outcome
    <2>2. ClaimedWhileRunning'
        BY <1>0, <2>1 DEF Dedup, ClaimedWhileRunning, Is
    <2>3. MarkerExcludes'
        BY <1>0, <2>1 DEF Dedup, ClaimedWhileRunning, MarkerExcludes, Owns, Is
    <2>4. MarkersReleased'
        BY <1>0, <2>1 DEF Dedup, ClaimedWhileRunning, MarkerExcludes, Owns, MarkersReleased, OwnerAlive, Is
    <2>5. SettledOnRecord'
        BY <1>0, <2>1 DEF Dedup, ClaimedWhileRunning, SettledOnRecord, Is
    <2> QED BY <2>2, <2>3, <2>4, <2>5 DEF Dedup
<1>2. CASE Refuse(d)
    <2>1. /\ Is(d, "waiting") /\ run'[d].at = "settling" /\ run'[d].verdict \in {"term", "nak"}
          /\ marker' = marker /\ handled' = handled /\ dead' = dead /\ faults' = faults
        BY <1>0, <1>2, IdleRecord DEF Refuse, HasSlot, Is, Goes, Decides, Ends, Records, outcome
    <2>2. ClaimedWhileRunning'
        BY <1>0, <2>1 DEF Dedup, ClaimedWhileRunning, Is
    <2>3. MarkerExcludes'
        BY <1>0, <2>1 DEF Dedup, ClaimedWhileRunning, MarkerExcludes, Owns, Is
    <2>4. MarkersReleased'
        BY <1>0, <2>1 DEF Dedup, ClaimedWhileRunning, MarkerExcludes, Owns, MarkersReleased, OwnerAlive, Is
    <2>5. SettledOnRecord'
        BY <1>0, <2>1 DEF Dedup, ClaimedWhileRunning, SettledOnRecord, Is
    <2> QED BY <2>2, <2>3, <2>4, <2>5 DEF Dedup
<1>3. CASE Claim(d)
    <2>1. /\ Is(d, "claiming") /\ Event(d) \notin marker
          /\ run'[d].at = "running" /\ run'[d].claimed /\ run'[d].verdict = run[d].verdict
          /\ marker' = marker \cup {Event(d)} /\ handled' = handled /\ dead' = dead /\ faults' = faults
        BY <1>0, <1>3, IdleRecord DEF Claim, Is, Goes, Decides, Ends, Records, outcome
    <2>2. ClaimedWhileRunning'
        BY <1>0, <2>1 DEF Dedup, ClaimedWhileRunning, Is
    <2>3. MarkerExcludes'
        BY <1>0, <2>1 DEF Dedup, ClaimedWhileRunning, MarkerExcludes, Owns, Is
    <2>4. MarkersReleased'
        BY <1>0, <2>1 DEF Dedup, ClaimedWhileRunning, MarkerExcludes, Owns, MarkersReleased, OwnerAlive, Is
    <2>5. SettledOnRecord'
        BY <1>0, <2>1 DEF Dedup, ClaimedWhileRunning, SettledOnRecord, Is
    <2> QED BY <2>2, <2>3, <2>4, <2>5 DEF Dedup
<1>4. CASE Duplicate(d)
    <2>1. /\ Is(d, "claiming") /\ run'[d].at = "settling"
          /\ marker' = marker /\ handled' = handled /\ dead' = dead /\ faults' = faults
        BY <1>0, <1>4, IdleRecord DEF Duplicate, Is, Goes, Decides, Ends, Records, outcome
    <2>2. ClaimedWhileRunning'
        BY <1>0, <2>1 DEF Dedup, ClaimedWhileRunning, Is
    <2>3. MarkerExcludes'
        BY <1>0, <2>1 DEF Dedup, ClaimedWhileRunning, MarkerExcludes, Owns, Is
    <2>4. MarkersReleased'
        BY <1>0, <2>1 DEF Dedup, ClaimedWhileRunning, MarkerExcludes, Owns, MarkersReleased, OwnerAlive, Is
    <2>5. SettledOnRecord'
        BY <1>0, <2>1 DEF Dedup, ClaimedWhileRunning, SettledOnRecord, Is
    <2> QED BY <2>2, <2>3, <2>4, <2>5 DEF Dedup
<1>5. CASE ClaimFailsOpen(d)
    <2>1. /\ Is(d, "claiming") /\ run'[d].at = "running" /\ run'[d].claimed /\ run'[d].verdict = run[d].verdict
          /\ marker' = marker /\ handled' = handled /\ dead' = dead /\ "cache" \in faults'
        BY <1>0, <1>5, IdleRecord DEF ClaimFailsOpen, Fault, Is, Goes, Decides, Ends, Records, outcome
    <2>2. ClaimedWhileRunning'
        BY <1>0, <2>1 DEF Dedup, ClaimedWhileRunning, Is
    <2>3. MarkerExcludes'
        BY <1>0, <2>1 DEF Dedup, ClaimedWhileRunning, MarkerExcludes, Owns, Is
    <2>4. MarkersReleased'
        BY <1>0, <2>1 DEF Dedup, ClaimedWhileRunning, MarkerExcludes, Owns, MarkersReleased, OwnerAlive, Is
    <2>5. SettledOnRecord'
        BY <1>0, <2>1 DEF Dedup, ClaimedWhileRunning, SettledOnRecord, Is
    <2> QED BY <2>2, <2>3, <2>4, <2>5 DEF Dedup
<1>6. CASE ClaimCut(d)
    <2>1. /\ Is(d, "claiming") /\ run'[d].at \in {"settling", "killed"} /\ run'[d].verdict \in {"nak", "none"}
          /\ marker' = marker \cup {Event(d)} /\ handled' = handled /\ dead' = dead
          /\ faults \subseteq faults' /\ "cut" \in faults'
        BY <1>0, <1>6, IdleRecord DEF ClaimCut, Fault, Is, Goes, Decides, Ends, Records, outcome
    <2>2. ClaimedWhileRunning'
        BY <1>0, <2>1 DEF Dedup, ClaimedWhileRunning, Is
    <2>3. MarkerExcludes'
        BY <1>0, <2>1 DEF Dedup, ClaimedWhileRunning, MarkerExcludes, Owns, Is
    <2>4. MarkersReleased'
        BY <1>0, <2>1 DEF Dedup, ClaimedWhileRunning, MarkerExcludes, Owns, MarkersReleased, OwnerAlive, Is
    <2>5. SettledOnRecord'
        BY <1>0, <2>1 DEF Dedup, ClaimedWhileRunning, SettledOnRecord, Is
    <2> QED BY <2>2, <2>3, <2>4, <2>5 DEF Dedup
<1>7. CASE Return(d)
    <2>1. /\ Is(d, "running") /\ run'[d].at = "settling"
          /\ marker' = marker /\ handled' = handled \cup {Event(d)} /\ dead' = dead /\ faults' = faults
        BY <1>0, <1>7, IdleRecord DEF Return, Is, Goes, Decides, Ends, Records, outcome
    <2>2. ClaimedWhileRunning'
        BY <1>0, <2>1 DEF Dedup, ClaimedWhileRunning, Is
    <2>3. MarkerExcludes'
        BY <1>0, <2>1 DEF Dedup, ClaimedWhileRunning, MarkerExcludes, Owns, Is
    <2>4. MarkersReleased'
        BY <1>0, <2>1 DEF Dedup, ClaimedWhileRunning, MarkerExcludes, Owns, MarkersReleased, OwnerAlive, Is
    <2>5. SettledOnRecord'
        BY <1>0, <2>1 DEF Dedup, ClaimedWhileRunning, SettledOnRecord, Is
    <2> QED BY <2>2, <2>3, <2>4, <2>5 DEF Dedup
<1>8. CASE Fail(d)
    <2>1. /\ Is(d, "running") /\ run'[d].at = (IF run[d].claimed THEN "releasing" ELSE "settling")
          /\ run'[d].claimed = run[d].claimed /\ run'[d].verdict \in {"nak", "term"}
          /\ marker' = marker /\ handled' = handled /\ dead' = dead /\ faults' = faults
        BY <1>0, <1>8, IdleRecord DEF Fail, Is, Goes, Decides, Ends, Records, outcome
    <2>2. ClaimedWhileRunning'
        BY <1>0, <2>1 DEF Dedup, ClaimedWhileRunning, Is
    <2>3. MarkerExcludes'
        BY <1>0, <2>1 DEF Dedup, ClaimedWhileRunning, MarkerExcludes, Owns, Is
    <2>4. MarkersReleased'
        BY <1>0, <2>1 DEF Dedup, ClaimedWhileRunning, MarkerExcludes, Owns, MarkersReleased, OwnerAlive, Is
    <2>5. SettledOnRecord'
        BY <1>0, <2>1 DEF Dedup, ClaimedWhileRunning, SettledOnRecord, Is
    <2> QED BY <2>2, <2>3, <2>4, <2>5 DEF Dedup
<1>9. CASE Cancel(d)
    <2>1. /\ Is(d, "running") /\ run'[d].at = (IF run[d].claimed THEN "releasing" ELSE "killed")
          /\ (run'[d].claimed <=> run[d].claimed) /\ run'[d].verdict \in {run[d].verdict, "none"}
          /\ marker' = marker /\ handled' = handled /\ dead' = dead /\ faults \subseteq faults'
        <3>1. CASE run[d].claimed
            BY <1>0, <1>9, <3>1 DEF Cancel, Fault, Is, Goes, Records, outcome
        <3>2. CASE ~run[d].claimed
            BY <1>0, <1>9, <3>2, IdleRecord DEF Cancel, Fault, Is, Ends, Records, outcome
        <3> QED BY <3>1, <3>2
    <2>2. ClaimedWhileRunning'
        BY <1>0, <2>1 DEF Dedup, ClaimedWhileRunning, Is
    <2>3. MarkerExcludes'
        BY <1>0, <2>1 DEF Dedup, ClaimedWhileRunning, MarkerExcludes, Owns, Is
    <2>4. MarkersReleased'
        BY <1>0, <2>1 DEF Dedup, ClaimedWhileRunning, MarkerExcludes, Owns, MarkersReleased, OwnerAlive, Is
    <2>5. SettledOnRecord'
        BY <1>0, <2>1 DEF Dedup, ClaimedWhileRunning, SettledOnRecord, Is
    <2> QED BY <2>2, <2>3, <2>4, <2>5 DEF Dedup
<1>10. CASE Release(d)
    <2>1. /\ Is(d, "releasing")
          /\ run'[d].at \in {"settling", "killed"} /\ run'[d].verdict \in {run[d].verdict, "none"}
          /\ marker' = marker \ {Event(d)} \/ (marker' = marker /\ "cache" \in faults')
          /\ handled' = handled /\ dead' = dead /\ faults \subseteq faults'
        BY <1>0, <1>10, IdleRecord DEF Release, Fault, Is, Goes, Decides, Ends, Records, outcome
    <2>2. ClaimedWhileRunning'
        BY <1>0, <2>1 DEF Dedup, ClaimedWhileRunning, Is
    <2>3. MarkerExcludes'
        BY <1>0, <2>1 DEF Dedup, ClaimedWhileRunning, MarkerExcludes, Owns, Is
    <2>4. MarkersReleased'
        BY <1>0, <2>1 DEF Dedup, ClaimedWhileRunning, MarkerExcludes, Owns, MarkersReleased, OwnerAlive, Is
    <2>5. SettledOnRecord'
        BY <1>0, <2>1 DEF Dedup, ClaimedWhileRunning, SettledOnRecord, Is
    <2> QED BY <2>2, <2>3, <2>4, <2>5 DEF Dedup
<1>11. CASE DeadLetter(d)
    <2>1. /\ Is(d, "settling") /\ run'[d].at = "terming" /\ run'[d].verdict = run[d].verdict
          /\ marker' = marker /\ handled' = handled /\ dead' = dead \cup {Event(d)} /\ faults' = faults
        BY <1>0, <1>11, IdleRecord DEF DeadLetter, Is, Goes, Decides, Ends, Records, outcome
    <2>2. ClaimedWhileRunning'
        BY <1>0, <2>1 DEF Dedup, ClaimedWhileRunning, Is
    <2>3. MarkerExcludes'
        BY <1>0, <2>1 DEF Dedup, ClaimedWhileRunning, MarkerExcludes, Owns, Is
    <2>4. MarkersReleased'
        BY <1>0, <2>1 DEF Dedup, ClaimedWhileRunning, MarkerExcludes, Owns, MarkersReleased, OwnerAlive, Is
    <2>5. SettledOnRecord'
        BY <1>0, <2>1 DEF Dedup, ClaimedWhileRunning, SettledOnRecord, Is
    <2> QED BY <2>2, <2>3, <2>4, <2>5 DEF Dedup
<1>12. CASE Settle(d)
    <2>1. /\ run[d].at \in {"settling", "terming"} /\ run'[d].at = "over" /\ run'[d].verdict = "none"
          /\ marker' = marker /\ handled' = handled /\ dead' = dead /\ faults \subseteq faults'
        BY <1>0, <1>12, IdleRecord DEF Settle, Fault, Is, Goes, Decides, Ends, Records, outcome
    <2>2. ClaimedWhileRunning'
        BY <1>0, <2>1 DEF Dedup, ClaimedWhileRunning, Is
    <2>3. MarkerExcludes'
        BY <1>0, <2>1 DEF Dedup, ClaimedWhileRunning, MarkerExcludes, Owns, Is
    <2>4. MarkersReleased'
        BY <1>0, <2>1 DEF Dedup, ClaimedWhileRunning, MarkerExcludes, Owns, MarkersReleased, OwnerAlive, Is
    <2>5. SettledOnRecord'
        BY <1>0, <2>1 DEF Dedup, ClaimedWhileRunning, SettledOnRecord, Is
    <2> QED BY <2>2, <2>3, <2>4, <2>5 DEF Dedup
<1>13. CASE Report(d)
    <2>1. /\ run'[d].at = run[d].at /\ run'[d].claimed = run[d].claimed /\ run'[d].verdict = run[d].verdict
          /\ marker' = marker /\ handled' = handled /\ dead' = dead /\ faults' = faults
        BY <1>0, <1>13 DEF Report, Records, outcome
    <2>2. ClaimedWhileRunning'
        BY <1>0, <2>1 DEF Dedup, ClaimedWhileRunning, Is
    <2>3. MarkerExcludes'
        BY <1>0, <2>1 DEF Dedup, MarkerExcludes, Owns
    <2>4. MarkersReleased'
        BY <1>0, <2>1 DEF Dedup, MarkersReleased, OwnerAlive
    <2>5. SettledOnRecord'
        BY <1>0, <2>1 DEF Dedup, SettledOnRecord, Is
    <2> QED BY <2>2, <2>3, <2>4, <2>5 DEF Dedup
<1> QED BY <1>1, <1>2, <1>3, <1>4, <1>5, <1>6, <1>7, <1>8, <1>9, <1>10, <1>11, <1>12, <1>13 DEF RunSteps

LEMMA NextIInv == IInv /\ [Next]_vars => IInv'
<1> SUFFICES ASSUME IInv, [Next]_vars PROVE IInv'
    OBVIOUS
<1>1. Dedup'
    BY OutsideRunsDedup, RunDedup DEF Next
<1> QED BY <1>1, TypeOKStep, BufferStep DEF IInv, Dedup

LEMMA Invariance == Spec => []IInv
BY InitIInv, NextIInv, PTL DEF Spec

-----------------------------------------------------------------------------
(* The theorems.                                                           *)

\* The state of the deliveries keeps its type: nothing is sent more often than
\* the consumer allows, and what is buffered is in nobody else's hands.
THEOREM TypeCorrect == Spec => []TypeOK
<1>1. IInv => TypeOK
    BY DEF IInv
<1> QED BY <1>1, Invariance, PTL

\* The marker keeps the runs of an event apart, and no run starts once one has
\* finished, as long as the cache answers -- whatever is redelivered when, and
\* however many replicas there are.
THEOREM SingleRun == Spec => []RunsOnce
<1>1. IInv => RunsOnce
    BY DEF IInv, MarkerExcludes, Owns, Is, RunsOnce
<1> QED BY <1>1, Invariance, PTL

\* No marker outlives a run that did not succeed, short of a crash, a cache
\* that fails, or a claim that is cut off.
THEOREM NoMarkerLeft == Spec => []MarkersReleased
<1>1. IInv => MarkersReleased
    BY DEF IInv
<1> QED BY <1>1, Invariance, PTL

-----------------------------------------------------------------------------
(* Without deduplication delivery is at least once.                        *)

\* What the step of Promise is that a step of the consumer amounts to.
Kept == {e \in Unkeyed : broker[e] \in {"ready", "out"}}
OnRecord == Accounted \cap Unkeyed
Tries == [e \in Unkeyed |-> sent[e]]

LEMMA PromiseTry ==
    ASSUME IInv, NEW e \in Events, NEW r \in Replicas, Deliver(e, r)
    PROVE  [Promise!Next]_(Promise!vars)
<1>1. /\ broker[e] = "ready" /\ sent[e] < MaxDeliver
      /\ broker' = [broker EXCEPT ![e] = "out"] /\ sent' = [sent EXCEPT ![e] = @ + 1]
      /\ handled' = handled /\ dead' = dead
    BY DEF Deliver, outcome
<1>2. Kept' = Kept /\ OnRecord' = OnRecord
    BY <1>1 DEF Kept, OnRecord, Accounted, Unkeyed, IInv, TypeOK
<1>3. CASE e \in Unkeyed
    <2>1. e \in Kept /\ Tries[e] < MaxDeliver /\ Tries' = [Tries EXCEPT ![e] = @ + 1]
        BY <1>1, <1>3 DEF Kept, Tries, Unkeyed, IInv, TypeOK
    <2> QED BY <1>2, <1>3, <2>1 DEF Promise!Next, Promise!Try, Kept, OnRecord, Tries
<1>4. CASE e \notin Unkeyed
    <2>1. Tries' = Tries
        BY <1>1, <1>4 DEF Tries, IInv, TypeOK, Unkeyed
    <2> QED BY <1>2, <2>1 DEF Promise!vars, Kept, OnRecord, Tries
<1> QED BY <1>3, <1>4

\* The consumer may let go of an event that is on the record or out of attempts.
LEMMA PromiseLeave ==
    ASSUME IInv, NEW e \in Events, NEW b \in {"ready", "acked", "termed", "spent"},
           broker[e] \in {"ready", "out"},
           broker' = [broker EXCEPT ![e] = b],
           b = "ready" \/ e \in Keyed \/ e \in Accounted \/ sent[e] = MaxDeliver,
           sent' = sent, handled' = handled, dead' = dead
    PROVE  [Promise!Next]_(Promise!vars)
<1>1. OnRecord' = OnRecord /\ Tries' = Tries
    BY DEF OnRecord, Accounted, Tries
<1>2. CASE e \in Kept' \/ e \in Keyed
    <2>1. Kept' = Kept
        BY <1>2 DEF Kept, Unkeyed, IInv, TypeOK
    <2> QED BY <1>1, <2>1 DEF Promise!vars, Kept, OnRecord, Tries
<1>3. CASE e \notin Kept' /\ e \notin Keyed
    <2>1. e \in Unkeyed /\ e \in Kept /\ Kept' = Kept \ {e} /\ (e \in OnRecord \/ Tries[e] = MaxDeliver)
        BY <1>3 DEF Kept, OnRecord, Tries, Unkeyed, IInv, TypeOK
    <2> QED BY <1>1, <2>1 DEF Promise!Next, Promise!Leave, Kept, OnRecord, Tries
<1> QED BY <1>2, <1>3

\* A handler returns, or a dead letter is written, for a delivery that was made.
LEMMA PromiseAccount ==
    ASSUME IInv, NEW d \in Deliveries, ~Is(d, "none"), UNCHANGED consumer,
           handled' \cup dead' = (handled \cup dead) \cup {Event(d)}
    PROVE  [Promise!Next]_(Promise!vars)
<1> DEFINE e == Event(d)
<1>1. Kept' = Kept /\ Tries' = Tries
    BY DEF Kept, Tries, consumer
<1>2. e \in Events /\ sent[e] > 0
    <2>1. e \in Events /\ Attempt(d) \in 1..MaxDeliver /\ sent[e] \in 0..MaxDeliver
        BY DeliveryType DEF IInv, TypeOK
    <2>2. ~(sent[e] < Attempt(d))
        BY IdleRecord DEF IInv, MadeByTheBroker, Is
    <2> QED BY <2>1, <2>2, Numbers
<1> HIDE DEF e
<1>3. CASE e \in Unkeyed
    <2>1. OnRecord' = OnRecord \cup {e} /\ Tries[e] > 0
        BY <1>2, <1>3 DEF OnRecord, Accounted, Tries, e
    <2> QED BY <1>1, <1>3, <2>1 DEF Promise!Next, Promise!Account, Kept, OnRecord, Tries
<1>4. CASE e \notin Unkeyed
    <2>1. OnRecord' = OnRecord
        BY <1>4 DEF OnRecord, Accounted, e
    <2> QED BY <1>1, <2>1 DEF Promise!vars, Kept, OnRecord, Tries
<1> QED BY <1>3, <1>4

LEMMA PromiseStutter ==
    ASSUME UNCHANGED <<consumer, handled, dead>>
    PROVE  [Promise!Next]_(Promise!vars)
<1>1. Kept' = Kept /\ OnRecord' = OnRecord /\ Tries' = Tries
    BY DEF Kept, OnRecord, Tries, Accounted, consumer
<1> QED BY <1>1 DEF Promise!vars, Kept, OnRecord, Tries

LEMMA PromiseInit == Init => Promise!Init
BY Sets DEF Init, Promise!Init, Unkeyed, Accounted

LEMMA PromiseStep == IInv /\ [Next]_vars => [Promise!Next]_(Promise!vars)
<1> SUFFICES ASSUME IInv, [Next]_vars PROVE [Promise!Next]_(Promise!vars)
    OBVIOUS
<1>1. ASSUME NEW e \in Events, NEW r \in Replicas, Deliver(e, r) PROVE [Promise!Next]_(Promise!vars)
    BY <1>1, PromiseTry
<1>2. ASSUME NEW e \in Events, AckWait(e) \/ Silence(e) PROVE [Promise!Next]_(Promise!vars)
    <2> DEFINE b == IF sent[e] < MaxDeliver THEN "ready" ELSE "spent"
    <2>1. /\ broker[e] \in {"ready", "out"} /\ broker' = [broker EXCEPT ![e] = b]
          /\ sent' = sent /\ handled' = handled /\ dead' = dead
        BY <1>2 DEF AckWait, Silence, Redelivers, outcome
    <2>2. b \in {"ready", "spent"} /\ (b = "ready" \/ sent[e] = MaxDeliver)
        BY Numbers DEF IInv, TypeOK
    <2> HIDE DEF b
    <2> QED BY <2>1, <2>2, PromiseLeave
<1>3. ASSUME NEW d \in Deliveries, Settle(d) PROVE [Promise!Next]_(Promise!vars)
    <2> DEFINE e == Event(d)
               b == IF run[d].verdict = "ack" THEN "acked"
                    ELSE IF GivenUp(d) THEN "termed"
                    ELSE IF sent[e] < MaxDeliver THEN "ready" ELSE "spent"
    <2>1. e \in Events /\ sent' = sent /\ handled' = handled /\ dead' = dead
        BY <1>3, DeliveryType DEF Settle, outcome
    <2>2. CASE broker' = broker
        BY <2>1, <2>2, PromiseStutter DEF consumer
    <2>3. CASE broker[e] \in {"ready", "out"} /\ Arrives(d)
        <3>1. ~(run[d].verdict = "ack" /\ GivenUp(d))
            BY DEF GivenUp
        <3>2. broker' = [broker EXCEPT ![e] = b]
            BY <2>3, <3>1 DEF Arrives, Redelivers
        <3>3. b = "acked" => e \in Keyed \/ e \in Accounted
            BY DEF IInv, SettledOnRecord, Accounted
        <3>4. b = "termed" => e \in Accounted
            BY <1>3 DEF Settle, IInv, SettledOnRecord, Accounted
        <3>5. b = "spent" => sent[e] = MaxDeliver
            BY <2>1, Numbers DEF IInv, TypeOK
        <3>6. b \in {"ready", "acked", "termed", "spent"}
            OBVIOUS
        <3> HIDE DEF b, e
        <3> QED BY <2>1, <2>3, <3>2, <3>3, <3>4, <3>5, <3>6, PromiseLeave
    <2> QED BY <1>3, <2>2, <2>3 DEF Settle
<1>4. ASSUME NEW d \in Deliveries, Return(d) \/ DeadLetter(d) PROVE [Promise!Next]_(Promise!vars)
    <2>1. ~Is(d, "none") /\ UNCHANGED consumer /\ handled' \cup dead' = (handled \cup dead) \cup {Event(d)}
        BY <1>4 DEF Return, DeadLetter, Is
    <2> QED BY <2>1, PromiseAccount
<1>5. ASSUME NEW d \in Deliveries, RunSteps(d), ~Settle(d), ~Return(d), ~DeadLetter(d)
      PROVE  UNCHANGED <<consumer, handled, dead>>
    BY <1>5 DEF RunSteps, Start, Refuse, Report, Claim, Duplicate, ClaimFailsOpen, ClaimCut, Fail, Cancel, Release, outcome
<1>6. ASSUME NEW r \in Replicas, SubscriptionSteps(r) PROVE UNCHANGED <<consumer, handled, dead>>
    BY <1>6 DEF SubscriptionSteps, Take, Pause, Drained, DrainTimesOut, Resume, Crash, outcome
<1>7. CASE UNCHANGED vars
    BY <1>7, PromiseStutter DEF vars, outcome
<1> QED BY <1>1, <1>2, <1>3, <1>4, <1>5, <1>6, <1>7, PromiseStutter DEF Next, BrokerSteps

\* Every behaviour is one of AtLeastOnce, its liveness aside: the consumer lets
\* go of an event only once it is on the record, or all its attempts were made.
THEOREM AtLeastOnceDelivery == Spec => Promise!SafetySpec
BY PromiseInit, PromiseStep, Invariance, PTL DEF Spec, Promise!SafetySpec
=============================================================================
