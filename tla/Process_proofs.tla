---------------------------- MODULE Process_proofs ----------------------------
(***************************************************************************)
(* Parts of the process, for any values of their constants: its lifespan,  *)
(* the ticks of its schedulers, the disk cache, the keys of a session, and *)
(* the settings of its agents.                                             *)
(***************************************************************************)
EXTENDS Process, Integers, SequenceTheorems, TLAPS

-----------------------------------------------------------------------------
(* Lifecycle: no agent consumes while one of its components has not started, *)
(* and what the shutdown stops stays stopped, for any agents and components, *)
(* any order of their start and any number of failures.                      *)

\* The lifespan starts the components in their order, and before any recovery.
StartedInOrder ==
    /\ phase = "starting" =>
        /\ \A n \in l_Names : task[n] = "none"
        /\ \A i \in 1..Len(Order) : comp[Order[i]] \in IF i < at THEN {"started", "failed"} ELSE {"new"}
    /\ phase = "serving" => \A c \in L!Comps : comp[c] \in {"started", "failed"}

Listed(c) == \E i \in 1..Len(pending[NameOf[c]]) : pending[NameOf[c]][i] = c

\* What failed to start is still to be started, and until it is, its agent is
\* latched and down.
FailuresListed ==
    /\ phase # "crashed" => \A c \in L!Comps : comp[c] = "failed" => Listed(c)
    /\ \A n \in l_Names : pending[n] # <<>> => n \in forced
    /\ \A n \in forced : ~up[n]
    /\ \A n \in l_Names : task[n] \in {"asleep", "starting", "marking"} => pending[n] # <<>>

\* Nothing is stopped before the recovery tasks have been cancelled.
CancelledFirst ==
    /\ phase \in {"ending", "stopping", "stopped"} => cancelled
    /\ \A c \in L!Comps : comp[c] = "stopped" => phase \in {"stopping", "stopped"}

LifecycleInv == L!TypeOK /\ StartedInOrder /\ FailuresListed /\ CancelledFirst

LEMMA InOrder ==
    ASSUME L!Parameters
    PROVE  /\ Len(Order) \in Nat
           /\ \A i \in 1..Len(Order) : Order[i] \in L!Comps /\ NameOf[Order[i]] \in l_Names
           /\ \A c \in L!Comps : NameOf[c] \in l_Names /\ \E i \in 1..Len(Order) : c = Order[i]
BY DEF L!Parameters, L!Comps

LEMMA LifecycleInit == L!Parameters /\ L!Init => LifecycleInv
<1> SUFFICES ASSUME L!Parameters, L!Init PROVE LifecycleInv
    OBVIOUS
<1>1. L!TypeOK
    <2>1. pending \in [l_Names -> Seq(L!Comps)]
        BY DEF L!Init
    <2>2. at \in 1..Len(Order) + 1
        BY InOrder DEF L!Init
    <2>3. verdict \in [L!Pollers -> SUBSET l_Names] /\ poll \in [L!Pollers -> {"idle", "asked", "seen"}]
        BY DEF L!Init
    <2>4. l_faults \in 0..l_MaxFaults /\ l_flips \in 0..l_MaxFlips
        BY DEF L!Parameters, L!Init
    <2> QED BY <2>1, <2>2, <2>3, <2>4 DEF L!Init, L!TypeOK
<1>2. StartedInOrder
    BY InOrder DEF L!Init, StartedInOrder
<1>3. FailuresListed /\ CancelledFirst
    BY DEF L!Init, FailuresListed, CancelledFirst
<1> QED BY <1>1, <1>2, <1>3 DEF LifecycleInv

\* A latch is set together with the transition to down.
LEMMA MarkedDown ==
    ASSUME L!TypeOK, FailuresListed, NEW n \in l_Names, NEW w \in L!Pollers, L!MarkDown(n, w)
    PROVE  /\ forced' \subseteq l_Names /\ up' \in [l_Names -> BOOLEAN]
           /\ poll' \in [L!Pollers -> {"idle", "asked", "seen"}]
           /\ forced \subseteq forced' /\ n \in forced' /\ \A m \in forced' : ~up'[m]
BY DEF L!TypeOK, FailuresListed, L!MarkDown

\* Components, tasks, lists and the phase as they are: only the latches and the
\* transitions count.
LEMMA PollsPreserve ==
    ASSUME LifecycleInv, UNCHANGED <<phase, at, comp, pending, task, cancelled>>,
           \A n \in l_Names : pending[n] # <<>> => n \in forced',
           \A n \in forced' : ~up'[n]
    PROVE  StartedInOrder' /\ FailuresListed' /\ CancelledFirst'
BY DEF LifecycleInv, StartedInOrder, FailuresListed, Listed, CancelledFirst

\* The lists, when a component is appended to one or a head is taken off.
LEMMA Appended ==
    ASSUME NEW Z, NEW s \in Seq(Z), NEW c \in Z
    PROVE  /\ Append(s, c) \in Seq(Z) /\ Append(s, c) # <<>>
           /\ \E i \in 1..Len(Append(s, c)) : Append(s, c)[i] = c
           /\ \A d : (\E i \in 1..Len(s) : s[i] = d) => \E i \in 1..Len(Append(s, c)) : Append(s, c)[i] = d
<1>1. Len(Append(s, c)) = Len(s) + 1 /\ Len(s) \in Nat /\ Append(s, c) \in Seq(Z)
    OBVIOUS
<1>2. \A i \in 1..Len(s) : Append(s, c)[i] = s[i]
    OBVIOUS
<1>3. Append(s, c)[Len(s) + 1] = c
    OBVIOUS
<1>4. Append(s, c) # <<>>
    BY <1>1
<1>5. ASSUME NEW d, NEW i \in 1..Len(s), s[i] = d PROVE \E j \in 1..Len(Append(s, c)) : Append(s, c)[j] = d
    BY <1>1, <1>2, <1>5
<1> QED BY <1>1, <1>3, <1>4, <1>5

LEMMA TakenOff ==
    ASSUME NEW Z, NEW s \in Seq(Z), s # <<>>
    PROVE  /\ Head(s) \in Z
           /\ Tail(s) \in Seq(Z)
           /\ Len(s) \in Nat \ {0}
           /\ Len(s) = 1 => Tail(s) = <<>>
           /\ Len(s) > 1 => Tail(s) # <<>>
           /\ \A d : d # Head(s) /\ (\E i \in 1..Len(s) : s[i] = d) => \E i \in 1..Len(Tail(s)) : Tail(s)[i] = d
<1>1. Head(s) \in Z /\ Tail(s) \in Seq(Z) /\ Len(Tail(s)) = Len(s) - 1 /\ Len(s) \in Nat \ {0} /\ Head(s) = s[1]
    OBVIOUS
<1>2. \A i \in 1..Len(Tail(s)) : Tail(s)[i] = s[i + 1]
    OBVIOUS
<1>3. (Len(s) = 1 => Tail(s) = <<>>) /\ (Len(s) > 1 => Tail(s) # <<>>)
    <2> DEFINE t == Tail(s)
    <2>1. t \in Seq(Z) /\ Len(t) = Len(s) - 1 /\ Len(s) \in Nat
        BY <1>1
    <2> HIDE DEF t
    <2>2. (Len(t) = 0 => t = <<>>) /\ (Len(t) # 0 => t # <<>>)
        BY <2>1, EmptySeq
    <2>3. (Len(s) = 1 => t = <<>>) /\ (Len(s) > 1 => t # <<>>)
        BY <2>1, <2>2
    <2> QED BY <2>3 DEF t
<1>4. ASSUME NEW d, d # Head(s), NEW i \in 1..Len(s), s[i] = d
      PROVE  \E j \in 1..Len(Tail(s)) : Tail(s)[j] = d
    <2>1. i - 1 \in 1..Len(Tail(s)) /\ Tail(s)[i - 1] = s[i]
        BY <1>1, <1>2, <1>4
    <2> QED BY <1>4, <2>1
<1> QED BY <1>1, <1>3, <1>4

\* The lifespan.
LEMMA StartStep ==
    ASSUME L!Parameters, LifecycleInv, L!StartOk \/ (\E d \in BOOLEAN : L!StartFails(d)) \/ L!Serve
    PROVE  LifecycleInv'
<1> DEFINE c == Order[at]
           n == NameOf[c]
<1>0. /\ L!TypeOK /\ StartedInOrder /\ FailuresListed /\ CancelledFirst /\ phase = "starting"
      /\ at \in Nat \ {0} /\ comp \in [L!Comps -> {"new", "started", "failed", "stopped"}]
      /\ pending \in [l_Names -> Seq(L!Comps)] /\ \A m \in l_Names : task[m] = "none"
    BY InOrder DEF LifecycleInv, L!TypeOK, StartedInOrder, L!StartOk, L!StartFails, L!Serve
<1>1. ASSUME at <= Len(Order)
      PROVE  /\ at \in 1..Len(Order) /\ c \in L!Comps /\ n \in l_Names
             /\ \A i \in 1..Len(Order) : i # at => Order[i] # c
             /\ comp[c] = "new" /\ c = Order[at] /\ n = NameOf[c]
    <2>1. at \in 1..Len(Order)
        BY <1>0, <1>1, InOrder
    <2>2. \A i \in 1..Len(Order) : i # at => Order[i] # Order[at]
        BY <2>1 DEF L!Parameters
    <2>3. comp[Order[at]] \in {"new"}
        BY <1>0, <2>1 DEF StartedInOrder
    <2> QED BY <2>1, <2>2, <2>3, InOrder
<1> HIDE DEF c, n
<1>2. CASE L!StartOk
    <2>1. /\ at <= Len(Order) /\ at' = at + 1 /\ phase' = phase
          /\ UNCHANGED <<policy, pending, task, cancelled, forced, fatal, up, poll, l_faults>>
          /\ UNCHANGED L!probe_vars /\ UNCHANGED L!health_vars
          /\ \A d \in L!Comps : comp'[d] = IF d = c THEN "started" ELSE comp[d]
          /\ comp' \in [L!Comps -> {"new", "started", "failed", "stopped"}]
        BY <1>0, <1>1, <1>2 DEF L!StartOk, c
    <2>2. L!TypeOK'
        BY <1>0, <1>1, <2>1, InOrder DEF L!TypeOK, L!probe_vars, L!health_vars
    <2>3. StartedInOrder'
        <3>1. ASSUME NEW i \in 1..Len(Order)
              PROVE  comp'[Order[i]] \in IF i < at + 1 THEN {"started", "failed"} ELSE {"new"}
            <4>1. CASE i = at
                BY <1>1, <2>1, <4>1
            <4>2. CASE i # at
                BY <1>0, <1>1, <2>1, <4>2, InOrder DEF StartedInOrder
            <4> QED BY <4>1, <4>2
        <3> QED BY <1>0, <2>1, <3>1 DEF StartedInOrder
    <2>4. FailuresListed' /\ CancelledFirst'
        BY <1>0, <2>1 DEF FailuresListed, Listed, CancelledFirst
    <2> QED BY <2>2, <2>3, <2>4 DEF LifecycleInv
<1>3. ASSUME NEW d \in BOOLEAN, L!StartFails(d) PROVE LifecycleInv'
    <2>1. /\ at <= Len(Order) /\ UNCHANGED <<policy, task, cancelled, fatal>>
          /\ UNCHANGED L!probe_vars /\ UNCHANGED L!health_vars /\ l_faults' = l_faults + 1 /\ l_faults < l_MaxFaults
          /\ \A e \in L!Comps : comp'[e] = IF e = c THEN "failed" ELSE comp[e]
          /\ comp' \in [L!Comps -> {"new", "started", "failed", "stopped"}]
        BY <1>0, <1>3 DEF L!StartFails, c
    <2>2. \/ phase' = "crashed" /\ UNCHANGED <<at, pending, forced, up, poll>>
          \/ /\ pending' = [pending EXCEPT ![n] = Append(@, c)] /\ L!MarkDown(n, L!Main)
             /\ at' = at + 1 /\ phase' = phase
        BY <1>3 DEF L!StartFails, c, n
    <2>t. l_faults' \in 0..l_MaxFaults
        BY <1>0, <2>1 DEF L!TypeOK, L!Parameters
    <2>3. CASE phase' = "crashed" /\ UNCHANGED <<at, pending, forced, up, poll>>
        <3>1. L!TypeOK'
            BY <1>0, <2>1, <2>t, <2>3 DEF L!TypeOK, L!probe_vars, L!health_vars
        <3>2. StartedInOrder' /\ FailuresListed' /\ CancelledFirst'
            BY <1>0, <2>1, <2>3 DEF StartedInOrder, FailuresListed, CancelledFirst
        <3> QED BY <3>1, <3>2 DEF LifecycleInv
    <2>4. CASE /\ pending' = [pending EXCEPT ![n] = Append(@, c)] /\ L!MarkDown(n, L!Main)
               /\ at' = at + 1 /\ phase' = phase
        <3>1. /\ Append(pending[n], c) \in Seq(L!Comps) /\ Append(pending[n], c) # <<>>
              /\ \E i \in 1..Len(Append(pending[n], c)) : Append(pending[n], c)[i] = c
              /\ \A e : (\E i \in 1..Len(pending[n]) : pending[n][i] = e)
                            => \E i \in 1..Len(Append(pending[n], c)) : Append(pending[n], c)[i] = e
            <4>1. pending[n] \in Seq(L!Comps) /\ c \in L!Comps
                BY <1>0, <1>1, <2>1
            <4> HIDE DEF LifecycleInv
            <4> QED BY <4>1, Appended
        <3> DEFINE longer == Append(pending[n], c)
        <3>2. /\ pending' \in [l_Names -> Seq(L!Comps)] /\ pending'[n] = longer
              /\ \A m \in l_Names \ {n} : pending'[m] = pending[m]
            BY <1>0, <1>1, <2>1, <2>4, <3>1
        <3> HIDE DEF longer
        <3>3. /\ forced' \subseteq l_Names /\ up' \in [l_Names -> BOOLEAN]
              /\ poll' \in [L!Pollers -> {"idle", "asked", "seen"}]
              /\ forced \subseteq forced' /\ n \in forced' /\ \A m \in forced' : ~up'[m]
            BY <1>0, <1>1, <2>1, <2>4, MarkedDown DEF L!Pollers
        <3>4. L!TypeOK'
            BY <1>0, <2>1, <2>t, <2>4, <3>2, <3>3, InOrder DEF L!TypeOK, L!probe_vars, L!health_vars
        <3>5. StartedInOrder'
            <4>1. ASSUME NEW i \in 1..Len(Order)
                  PROVE  comp'[Order[i]] \in IF i < at + 1 THEN {"started", "failed"} ELSE {"new"}
                <5>1. CASE i = at
                    BY <1>1, <2>1, <5>1
                <5>2. CASE i # at
                    BY <1>0, <1>1, <2>1, <5>2, InOrder DEF StartedInOrder
                <5> QED BY <5>1, <5>2
            <4> QED BY <1>0, <2>1, <2>4, <4>1 DEF StartedInOrder
        <3>6. \A e \in L!Comps : comp'[e] = "failed" => Listed(e)'
            <4>1. ASSUME NEW e \in L!Comps, comp'[e] = "failed", NameOf[e] = n PROVE Listed(e)'
                <5>1. CASE e = c
                    BY <3>1, <3>2, <4>1, <5>1 DEF Listed, longer
                <5>2. CASE e # c
                    <6>1. Listed(e)
                        BY <1>0, <2>1, <4>1, <5>2 DEF FailuresListed
                    <6> QED BY <3>1, <3>2, <4>1, <6>1 DEF Listed, longer
                <5> QED BY <5>1, <5>2
            <4>2. ASSUME NEW e \in L!Comps, comp'[e] = "failed", NameOf[e] # n PROVE Listed(e)'
                <5>1. Listed(e)
                    BY <1>0, <1>1, <2>1, <4>2 DEF FailuresListed
                <5>2. pending'[NameOf[e]] = pending[NameOf[e]]
                    BY <3>2, <4>2, InOrder
                <5> QED BY <5>1, <5>2 DEF Listed
            <4> QED BY <4>1, <4>2
        <3>7. FailuresListed'
            BY <1>0, <2>1, <3>2, <3>3, <3>6 DEF FailuresListed
        <3>8. CancelledFirst'
            BY <1>0, <2>1, <2>4 DEF CancelledFirst
        <3> QED BY <3>4, <3>5, <3>7, <3>8 DEF LifecycleInv
    <2> QED BY <2>2, <2>3, <2>4
<1>4. CASE L!Serve
    <2>1. /\ phase' = "serving" /\ at > Len(Order)
          /\ task' = [m \in l_Names |-> IF pending[m] # <<>> THEN "asleep" ELSE "none"]
          /\ UNCHANGED <<policy, at, comp, pending, cancelled, forced, fatal, up, poll, l_faults>>
          /\ UNCHANGED L!probe_vars /\ UNCHANGED L!health_vars
        BY <1>4 DEF L!Serve
    <2>2. L!TypeOK'
        BY <1>0, <2>1 DEF L!TypeOK, L!probe_vars, L!health_vars
    <2>3. StartedInOrder'
        <3>1. \A d \in L!Comps : comp[d] \in {"started", "failed"}
            BY <1>0, <2>1, InOrder DEF StartedInOrder
        <3> QED BY <2>1, <3>1 DEF StartedInOrder
    <2>4. FailuresListed' /\ CancelledFirst'
        BY <1>0, <2>1 DEF FailuresListed, Listed, CancelledFirst
    <2> QED BY <2>2, <2>3, <2>4 DEF LifecycleInv
<1> QED BY <1>2, <1>3, <1>4

\* The recovery of an agent.
LEMMA RecoverStep ==
    ASSUME L!Parameters, LifecycleInv, NEW n \in l_Names, L!Recover(n)
    PROVE  LifecycleInv'
<1>0. /\ L!TypeOK /\ StartedInOrder /\ FailuresListed /\ CancelledFirst
      /\ comp \in [L!Comps -> {"new", "started", "failed", "stopped"}]
      /\ pending \in [l_Names -> Seq(L!Comps)]
      /\ task \in [l_Names -> {"none", "asleep", "starting", "marking", "released", "over"}]
      /\ n \in L!Pollers /\ forced \subseteq l_Names /\ poll \in [L!Pollers -> {"idle", "asked", "seen"}]
    BY DEF LifecycleInv, L!TypeOK, L!Pollers
<1>1. phase \in {"serving", "crashed"} /\ UNCHANGED <<policy, phase, at, cancelled, fatal>>
      /\ UNCHANGED L!probe_vars /\ UNCHANGED L!health_vars /\ ~cancelled /\ task[n] \notin {"none", "over"}
    <2>1. ~cancelled /\ task[n] \notin {"none", "over"} /\ UNCHANGED <<policy, phase, at, cancelled, fatal>>
          /\ UNCHANGED L!probe_vars /\ UNCHANGED L!health_vars
        BY DEF L!Recover, L!RetryDue, L!RetryOk, L!RetryFails, L!Refreshed, L!Running
    <2> QED BY <1>0, <2>1 DEF L!TypeOK, StartedInOrder, CancelledFirst
\* A step that only moves the task on.
<1>2. ASSUME UNCHANGED <<comp, pending, forced, up, poll, l_faults>>,
             NEW s \in {"asleep", "starting", "over"}, task' = [task EXCEPT ![n] = s],
             s # "over" => pending[n] # <<>>
      PROVE  LifecycleInv'
    <2>1. L!TypeOK'
        BY <1>0, <1>1, <1>2 DEF L!TypeOK, L!probe_vars, L!health_vars
    <2>2. StartedInOrder' /\ CancelledFirst'
        BY <1>0, <1>1, <1>2 DEF StartedInOrder, CancelledFirst
    <2>3. FailuresListed'
        BY <1>0, <1>1, <1>2 DEF FailuresListed, Listed
    <2> QED BY <2>1, <2>2, <2>3 DEF LifecycleInv
<1>3. CASE L!RetryDue(n)
    BY <1>0, <1>2, <1>3 DEF L!RetryDue, FailuresListed
<1>4. CASE L!Refreshed(n)
    <2>1. CASE task[n] = "marking" /\ task' = [task EXCEPT ![n] = "asleep"]
        BY <1>0, <1>2, <1>4, <2>1 DEF L!Refreshed, FailuresListed
    <2>2. CASE task' = [task EXCEPT ![n] = "over"]
        BY <1>2, <1>4, <2>2 DEF L!Refreshed
    <2> QED BY <1>4, <2>1, <2>2 DEF L!Refreshed
<1>5. CASE L!RetryFails(n)
    <2>1. /\ task[n] = "starting" /\ task' = [task EXCEPT ![n] = "marking"] /\ L!MarkDown(n, n)
          /\ l_faults' = l_faults + 1 /\ l_faults < l_MaxFaults /\ UNCHANGED <<comp, pending>>
        BY <1>5 DEF L!RetryFails
    <2>2. /\ forced' \subseteq l_Names /\ up' \in [l_Names -> BOOLEAN]
          /\ poll' \in [L!Pollers -> {"idle", "asked", "seen"}]
          /\ forced \subseteq forced' /\ n \in forced' /\ \A m \in forced' : ~up'[m]
        BY <1>0, <2>1, MarkedDown
    <2>3. L!TypeOK'
        <3>1. l_faults' \in 0..l_MaxFaults
            BY <1>0, <2>1 DEF L!TypeOK, L!Parameters
        <3> QED BY <1>0, <1>1, <2>1, <2>2, <3>1 DEF L!TypeOK, L!probe_vars, L!health_vars
    <2>4. StartedInOrder' /\ CancelledFirst'
        BY <1>0, <1>1, <2>1 DEF StartedInOrder, CancelledFirst
    <2>5. FailuresListed'
        BY <1>0, <1>1, <2>1, <2>2 DEF FailuresListed, Listed
    <2> QED BY <2>3, <2>4, <2>5 DEF LifecycleInv
<1>6. CASE L!RetryOk(n)
    <2> DEFINE h == Head(pending[n])
               rest == Tail(pending[n])
    <2>1. /\ task[n] = "starting" /\ pending[n] # <<>>
          /\ comp' = [comp EXCEPT ![h] = "started"] /\ pending' = [pending EXCEPT ![n] = rest]
          /\ UNCHANGED <<up, l_faults>>
          /\ \/ Len(pending[n]) > 1 /\ UNCHANGED <<task, forced, poll>>
             \/ /\ Len(pending[n]) = 1 /\ task' = [task EXCEPT ![n] = "released"]
                /\ forced' = forced \ {n} /\ poll' = [poll EXCEPT ![n] = "asked"]
        BY <1>0, <1>6 DEF L!RetryOk, FailuresListed
    <2>2. /\ h \in L!Comps
          /\ rest \in Seq(L!Comps)
          /\ Len(pending[n]) \in Nat \ {0}
          /\ Len(pending[n]) = 1 => rest = <<>>
          /\ Len(pending[n]) > 1 => rest # <<>>
          /\ \A d : d # h /\ (\E i \in 1..Len(pending[n]) : pending[n][i] = d) => \E i \in 1..Len(rest) : rest[i] = d
        <3>1. pending[n] \in Seq(L!Comps) /\ pending[n] # <<>>
            BY <1>0, <2>1
        <3> QED BY <3>1, TakenOff
    <2> HIDE DEF h, rest
    <2>3. /\ comp' \in [L!Comps -> {"new", "started", "failed", "stopped"}]
          /\ \A d \in L!Comps : comp'[d] = IF d = h THEN "started" ELSE comp[d]
          /\ pending' \in [l_Names -> Seq(L!Comps)] /\ pending'[n] = rest
          /\ \A m \in l_Names \ {n} : pending'[m] = pending[m]
        BY <1>0, <2>1, <2>2
    <2>4. /\ task' \in [l_Names -> {"none", "asleep", "starting", "marking", "released", "over"}]
          /\ forced' \subseteq l_Names /\ poll' \in [L!Pollers -> {"idle", "asked", "seen"}]
          /\ \A m \in l_Names \ {n} : task'[m] = task[m] /\ (m \in forced' <=> m \in forced)
          /\ task'[n] \in {"asleep", "starting", "marking"} => rest # <<>>
          /\ rest # <<>> => (n \in forced' <=> n \in forced)
          /\ forced' \subseteq forced
        <3>1. CASE Len(pending[n]) > 1 /\ UNCHANGED <<task, forced, poll>>
            <4>1. rest # <<>>
                BY <2>2, <3>1
            <4> QED BY <1>0, <3>1, <4>1
        <3>2. CASE /\ Len(pending[n]) = 1 /\ task' = [task EXCEPT ![n] = "released"]
                   /\ forced' = forced \ {n} /\ poll' = [poll EXCEPT ![n] = "asked"]
            BY <1>0, <2>2, <3>2
        <3> QED BY <2>1, <3>1, <3>2
    <2>5. L!TypeOK'
        BY <1>0, <1>1, <2>1, <2>3, <2>4 DEF L!TypeOK, L!probe_vars, L!health_vars
    <2>6. StartedInOrder' /\ CancelledFirst'
        BY <1>0, <1>1, <2>3, <2>4 DEF StartedInOrder, CancelledFirst
    <2>7. FailuresListed'
        <3>1. ASSUME NEW d \in L!Comps, comp'[d] = "failed", phase' # "crashed" PROVE Listed(d)'
            <4>1. d # h /\ Listed(d)
                BY <1>0, <1>1, <2>3, <3>1 DEF FailuresListed
            <4>2. CASE NameOf[d] = n
                BY <2>2, <2>3, <4>1, <4>2 DEF Listed
            <4>3. CASE NameOf[d] # n
                BY <2>3, <4>1, <4>3, InOrder DEF Listed
            <4> QED BY <4>2, <4>3
        <3>2. \A m \in l_Names : pending'[m] # <<>> => m \in forced'
            BY <1>0, <2>1, <2>3, <2>4 DEF FailuresListed
        <3>3. \A m \in forced' : ~up'[m]
            BY <1>0, <2>1, <2>4 DEF FailuresListed
        <3>4. \A m \in l_Names : task'[m] \in {"asleep", "starting", "marking"} => pending'[m] # <<>>
            BY <1>0, <2>3, <2>4 DEF FailuresListed
        <3> QED BY <3>1, <3>2, <3>3, <3>4 DEF FailuresListed
    <2> QED BY <2>5, <2>6, <2>7 DEF LifecycleInv
<1> QED BY <1>3, <1>4, <1>5, <1>6 DEF L!Recover

\* The health polls: what they find decides for the agents that are not latched.
LEMMA PollsStep == ASSUME LifecycleInv, L!Polls PROVE LifecycleInv'
<1>0. /\ L!TypeOK /\ FailuresListed
      /\ verdict \in [L!Pollers -> SUBSET l_Names] /\ poll \in [L!Pollers -> {"idle", "asked", "seen"}]
      /\ L!Timer \in L!Pollers
    BY DEF LifecycleInv, L!TypeOK, L!Pollers
<1>1. UNCHANGED <<policy, phase, at, comp, pending, task, cancelled, forced, fatal, l_faults, notLive, term,
                  health, l_flips>>
    BY DEF L!Polls, L!PollDue, L!Aggregate, L!Observe, L!probe_vars, L!health_vars
<1>2. /\ ready' \in BOOLEAN /\ up' \in [l_Names -> BOOLEAN] /\ \A n \in forced : ~up'[n]
      /\ verdict' \in [L!Pollers -> SUBSET l_Names] /\ poll' \in [L!Pollers -> {"idle", "asked", "seen"}]
    <2>1. CASE L!PollDue
        <3>1. UNCHANGED <<ready, up, verdict>> /\ poll' = [poll EXCEPT ![L!Timer] = "asked"]
            BY <2>1 DEF L!PollDue, L!probe_vars, L!health_vars
        <3> QED BY <1>0, <3>1 DEF L!TypeOK, FailuresListed
    <2>2. ASSUME NEW w \in L!Pollers, L!Aggregate(w)
          PROVE  /\ ready' \in BOOLEAN /\ up' \in [l_Names -> BOOLEAN] /\ \A n \in forced : ~up'[n]
                 /\ verdict' \in [L!Pollers -> SUBSET l_Names] /\ poll' \in [L!Pollers -> {"idle", "asked", "seen"}]
        <3>1. /\ up' = up /\ poll' = [poll EXCEPT ![w] = "seen"] /\ verdict' = [verdict EXCEPT ![w] = L!FitToConsume]
              /\ ready' = L!IsReady(policy, L!Status, forced)
            BY <2>2 DEF L!Aggregate
        <3>2. L!FitToConsume \subseteq l_Names
            BY DEF L!FitToConsume
        <3>3. L!IsReady(policy, L!Status, forced) \in BOOLEAN
            <4>1. \E b \in BOOLEAN : b <=> L!IsReady(policy, L!Status, forced)
                OBVIOUS
            <4> QED BY DEF L!IsReady
        <3> QED BY <1>0, <3>1, <3>2, <3>3 DEF L!TypeOK, FailuresListed
    <2>3. ASSUME NEW w \in L!Pollers, L!Observe(w)
          PROVE  /\ ready' \in BOOLEAN /\ up' \in [l_Names -> BOOLEAN] /\ \A n \in forced : ~up'[n]
                 /\ verdict' \in [L!Pollers -> SUBSET l_Names] /\ poll' \in [L!Pollers -> {"idle", "asked", "seen"}]
        <3>1. /\ ready' = ready /\ up' = [n \in l_Names |-> n \in verdict[w] \ forced]
              /\ poll' = [poll EXCEPT ![w] = "idle"] /\ verdict' = [verdict EXCEPT ![w] = {}]
            BY <2>3 DEF L!Observe, L!probe_vars
        <3>2. up' \in [l_Names -> BOOLEAN]
            <4>1. \A n \in l_Names : (n \in verdict[w] \ forced) \in BOOLEAN
                OBVIOUS
            <4> QED BY <3>1, <4>1, Zenon
        <3>3. \A n \in forced : ~up'[n]
            <4>1. \A n \in l_Names : up'[n] = (n \in verdict[w] \ forced)
                BY <3>1, Zenon
            <4> QED BY <1>0, <4>1 DEF L!TypeOK
        <3> QED BY <1>0, <3>1, <3>2, <3>3 DEF L!TypeOK
    <2> QED BY <2>1, <2>2, <2>3 DEF L!Polls
<1>3. L!TypeOK'
    BY <1>0, <1>1, <1>2 DEF L!TypeOK
<1>4. \A n \in l_Names : pending[n] # <<>> => n \in forced'
    BY <1>0, <1>1 DEF FailuresListed
<1> QED BY <1>1, <1>2, <1>3, <1>4, PollsPreserve DEF LifecycleInv

\* A transport that fails for good, and what the checks find.
LEMMA FaultsStep ==
    ASSUME L!Parameters, LifecycleInv, NEW n \in l_Names,
           (\E d \in BOOLEAN : L!TransportFatal(n, d)) \/ L!HealthChanges(n)
    PROVE  LifecycleInv'
<1>0. L!TypeOK /\ FailuresListed /\ L!Fatal \in L!Pollers
    BY DEF LifecycleInv, L!Pollers
<1>1. ASSUME NEW d \in BOOLEAN, L!TransportFatal(n, d) PROVE LifecycleInv'
    <2>1. /\ l_faults' = l_faults + 1 /\ l_faults < l_MaxFaults /\ fatal' = fatal \union {n}
          /\ notLive' = IF d THEN notLive \union {n} ELSE notLive
          /\ UNCHANGED <<policy, phase, at, comp, pending, task, cancelled, ready, health, l_flips, verdict>>
        BY <1>1 DEF L!TransportFatal, L!health_vars
    <2>2. \/ term' = TRUE /\ UNCHANGED <<forced, up, poll>>
          \/ L!MarkDown(n, L!Fatal) /\ UNCHANGED term
        BY <1>1 DEF L!TransportFatal
    <2>3. /\ term' \in BOOLEAN /\ forced' \subseteq l_Names /\ up' \in [l_Names -> BOOLEAN]
          /\ poll' \in [L!Pollers -> {"idle", "asked", "seen"}]
          /\ forced \subseteq forced' /\ \A m \in forced' : ~up'[m]
        <3>1. CASE term' = TRUE /\ UNCHANGED <<forced, up, poll>>
            BY <1>0, <3>1 DEF L!TypeOK, FailuresListed
        <3>2. CASE L!MarkDown(n, L!Fatal) /\ UNCHANGED term
            <4>1. term' \in BOOLEAN
                BY <1>0, <3>2 DEF L!TypeOK
            <4> QED BY <1>0, <3>2, <4>1, MarkedDown
        <3> QED BY <2>2, <3>1, <3>2
    <2>4. L!TypeOK'
        <3>1. l_faults' \in 0..l_MaxFaults
            BY <1>0, <2>1 DEF L!TypeOK, L!Parameters
        <3> QED BY <1>0, <2>1, <2>3, <3>1 DEF L!TypeOK
    <2>5. \A m \in l_Names : pending[m] # <<>> => m \in forced'
        BY <1>0, <2>3 DEF FailuresListed
    <2> QED BY <2>1, <2>3, <2>4, <2>5, PollsPreserve DEF LifecycleInv
<1>2. CASE L!HealthChanges(n)
    <2>1. /\ l_flips' = l_flips + 1 /\ l_flips < l_MaxFlips
          /\ \E h \in {"ok", "partly", "bad"} : health' = [health EXCEPT ![n] = h]
          /\ UNCHANGED <<policy, phase, at, comp, pending, task, cancelled, forced, fatal, up, poll, verdict, l_faults,
                         ready, notLive, term>>
        BY <1>2 DEF L!HealthChanges, L!probe_vars
    <2>2. L!TypeOK'
        <3>1. l_flips' \in 0..l_MaxFlips
            BY <1>0, <2>1 DEF L!TypeOK, L!Parameters
        <3> QED BY <1>0, <2>1, <3>1 DEF L!TypeOK
    <2>3. /\ \A m \in l_Names : pending[m] # <<>> => m \in forced'
          /\ \A m \in forced' : ~up'[m]
        BY <1>0, <2>1 DEF FailuresListed
    <2> QED BY <2>1, <2>2, <2>3, PollsPreserve DEF LifecycleInv
<1> QED BY <1>1, <1>2

\* The end of the process.
LEMMA ShutdownStep ==
    ASSUME LifecycleInv, L!Terminate \/ L!Shutdown
    PROVE  LifecycleInv'
<1>0. /\ L!TypeOK /\ StartedInOrder /\ FailuresListed /\ CancelledFirst
      /\ comp \in [L!Comps -> {"new", "started", "failed", "stopped"}]
    BY DEF LifecycleInv, L!TypeOK
<1>1. CASE L!Terminate
    <2>1. /\ term' = TRUE
          /\ UNCHANGED <<policy, phase, at, comp, pending, task, cancelled, forced, fatal, up, poll, l_faults, ready,
                         notLive, health, l_flips, verdict>>
        BY <1>1 DEF L!Terminate, L!health_vars
    <2> QED BY <1>0, <2>1 DEF LifecycleInv, L!TypeOK, StartedInOrder, FailuresListed, Listed, CancelledFirst
<1>2. CASE L!CancelRecovery \/ L!StartStopping \/ L!Stopped
    <2>1. UNCHANGED <<policy, at, comp, pending, task, forced, fatal, up, poll, l_faults, ready, notLive, term,
                      health, l_flips, verdict>>
        BY <1>2 DEF L!CancelRecovery, L!StartStopping, L!Stopped, L!probe_vars, L!health_vars
    <2>2. /\ phase \in {"serving", "ending", "stopping"} /\ phase' \in {"ending", "stopping", "stopped"} /\ cancelled'
          /\ cancelled' \in BOOLEAN
          /\ phase = "stopping" => phase' = "stopped"
        BY <1>0, <1>2 DEF L!CancelRecovery, L!StartStopping, L!Stopped, CancelledFirst, L!TypeOK
    <2>3. L!TypeOK'
        BY <1>0, <2>1, <2>2 DEF L!TypeOK
    <2>4. StartedInOrder' /\ CancelledFirst'
        BY <1>0, <2>1, <2>2 DEF StartedInOrder, CancelledFirst
    <2>5. FailuresListed'
        BY <1>0, <2>1, <2>2 DEF FailuresListed, Listed
    <2> QED BY <2>3, <2>4, <2>5 DEF LifecycleInv
<1>3. ASSUME NEW n \in l_Names, L!RecoveryEnds(n) PROVE LifecycleInv'
    <2>1. /\ task' = [task EXCEPT ![n] = "over"] /\ poll' = [poll EXCEPT ![n] = "idle"]
          /\ verdict' = [verdict EXCEPT ![n] = {}] /\ cancelled /\ task[n] # "none"
          /\ UNCHANGED <<policy, phase, at, comp, pending, cancelled, forced, fatal, up, l_faults, ready, notLive, term,
                         health, l_flips>>
        BY <1>3 DEF L!RecoveryEnds, L!probe_vars
    <2>2. L!TypeOK'
        BY <1>0, <2>1 DEF L!TypeOK
    <2>3. StartedInOrder' /\ CancelledFirst'
        BY <1>0, <2>1 DEF StartedInOrder, CancelledFirst
    <2>4. FailuresListed'
        BY <1>0, <2>1 DEF FailuresListed, Listed, L!TypeOK
    <2> QED BY <2>2, <2>3, <2>4 DEF LifecycleInv
<1>4. ASSUME NEW c \in L!Comps, L!Stop(c) PROVE LifecycleInv'
    <2>1. /\ phase = "stopping" /\ comp' = [comp EXCEPT ![c] = "stopped"]
          /\ UNCHANGED <<policy, phase, at, pending, task, cancelled, forced, fatal, up, poll, l_faults, ready, notLive,
                         term, health, l_flips, verdict>>
        BY <1>4 DEF L!Stop, L!probe_vars, L!health_vars
    <2>2. L!TypeOK'
        BY <1>0, <2>1 DEF L!TypeOK
    <2>3. StartedInOrder' /\ CancelledFirst'
        BY <1>0, <2>1 DEF StartedInOrder, CancelledFirst
    <2>4. FailuresListed'
        BY <1>0, <2>1 DEF FailuresListed, Listed
    <2> QED BY <2>2, <2>3, <2>4 DEF LifecycleInv
<1> QED BY <1>1, <1>2, <1>3, <1>4 DEF L!Shutdown

LEMMA LifecycleNext == L!Parameters /\ LifecycleInv /\ [L!Next]_(L!vars) => LifecycleInv'
<1> SUFFICES ASSUME L!Parameters, LifecycleInv, [L!Next]_(L!vars) PROVE LifecycleInv'
    OBVIOUS
<1>1. CASE UNCHANGED L!vars
    BY <1>1 DEF LifecycleInv, L!vars, L!TypeOK, StartedInOrder, FailuresListed, Listed, CancelledFirst
<1>2. CASE L!StartOk \/ (\E d \in BOOLEAN : L!StartFails(d)) \/ L!Serve
    BY <1>2, StartStep
<1>3. CASE \E n \in l_Names : L!Recover(n)
    BY <1>3, RecoverStep
<1>4. CASE \E n \in l_Names : (\E d \in BOOLEAN : L!TransportFatal(n, d)) \/ L!HealthChanges(n)
    BY <1>4, FaultsStep
<1>5. CASE L!Polls
    BY <1>5, PollsStep
<1>6. CASE L!Terminate \/ L!Shutdown
    BY <1>6, ShutdownStep
<1> QED BY <1>1, <1>2, <1>3, <1>4, <1>5, <1>6 DEF L!Next

LEMMA LifecycleInvariance == ASSUME L!Parameters PROVE L!Spec => []LifecycleInv
<1>1. L!Init => LifecycleInv
    BY LifecycleInit
<1>2. LifecycleInv /\ [L!Next]_(L!vars) => LifecycleInv'
    BY LifecycleNext
<1> QED BY <1>1, <1>2, PTL DEF L!Spec

\* Why an agent that consumes is complete: the component that makes it consume
\* is the last of it to start, and one that failed to start keeps it latched.
LEMMA CompleteWhenConsuming == L!Parameters /\ LifecycleInv => L!ConsumesWhenStarted
<1> SUFFICES ASSUME L!Parameters, LifecycleInv,
                    NEW n \in l_Names, L!Consuming(n),
                    NEW d \in L!Comps, NameOf[d] = n
             PROVE  comp[d] = "started"
    BY DEF L!ConsumesWhenStarted
<1>0. StartedInOrder /\ FailuresListed
    BY DEF LifecycleInv
<1>1. PICK c \in l_Consumes : NameOf[c] = n /\ comp[c] = "started"
    BY DEF L!Consuming
<1>2. PICK i \in 1..Len(Order) : c = Order[i]
    BY InOrder DEF L!Parameters
<1>3. PICK j \in 1..Len(Order) : d = Order[j]
    BY InOrder
<1>4. j <= i
    BY <1>1, <1>2, <1>3 DEF L!Parameters
<1>5. comp[d] \in {"started", "failed"}
    <2>1. CASE phase = "starting"
        <3>1. i < at
            BY <1>0, <1>1, <1>2, <2>1 DEF StartedInOrder
        <3>2. j < at
            BY <1>4, <3>1, InOrder DEF LifecycleInv, L!TypeOK
        <3> QED BY <1>0, <1>3, <2>1, <3>2 DEF StartedInOrder
    <2>2. CASE phase = "serving"
        BY <1>0, <2>2 DEF StartedInOrder
    <2> QED BY <2>1, <2>2 DEF L!Consuming
<1>6. comp[d] # "failed"
    <2> SUFFICES ASSUME comp[d] = "failed" PROVE FALSE
        OBVIOUS
    <2>1. Listed(d)
        BY <1>0 DEF FailuresListed, L!Consuming
    <2>2. pending[n] # <<>>
        BY <2>1 DEF Listed
    <2>3. ~up[n]
        BY <1>0, <2>2 DEF FailuresListed
    <2> QED BY <2>3 DEF L!Consuming
<1> QED BY <1>5, <1>6

\* An agent consumes only while every one of its components has started.
LEMMA StartedWhenConsuming == ASSUME L!Parameters PROVE L!Spec => []L!ConsumesWhenStarted
<1>1. LifecycleInv => L!ConsumesWhenStarted
    BY CompleteWhenConsuming
<1> QED BY <1>1, LifecycleInvariance, PTL

\* What the shutdown has stopped is not started again: no recovery task is
\* left to do it.
LEMMA StoppedStays == ASSUME L!Parameters PROVE L!Spec => L!StoppedForGood
<1> DEFINE Kept == \A c \in L!Comps : comp[c] = "stopped" => comp'[c] = "stopped"
<1>1. LifecycleInv /\ [L!Next]_(L!vars) => [Kept]_(L!vars)
    <2> SUFFICES ASSUME LifecycleInv, L!Next, NEW c \in L!Comps, comp[c] = "stopped" PROVE comp'[c] = "stopped"
        BY DEF L!vars
    <2>1. /\ phase \in {"stopping", "stopped"} /\ cancelled
          /\ comp \in [L!Comps -> {"new", "started", "failed", "stopped"}]
        BY DEF LifecycleInv, L!TypeOK, CancelledFirst
    <2>2. comp' = comp \/ \E d \in L!Comps : comp' = [comp EXCEPT ![d] = "stopped"]
        <3>1. ~(L!StartOk \/ (\E d \in BOOLEAN : L!StartFails(d)) \/ L!Serve)
            BY <2>1 DEF L!StartOk, L!StartFails, L!Serve
        <3>2. \A n \in l_Names : ~L!Recover(n)
            BY <2>1 DEF L!Recover, L!RetryDue, L!RetryOk, L!RetryFails, L!Refreshed, L!Running
        <3>3. \A n \in l_Names : (\E d \in BOOLEAN : L!TransportFatal(n, d)) \/ L!HealthChanges(n) => comp' = comp
            BY DEF L!TransportFatal, L!HealthChanges
        <3>4. L!Polls => comp' = comp
            BY DEF L!Polls, L!PollDue, L!Aggregate, L!Observe
        <3>5. L!Terminate => comp' = comp
            BY DEF L!Terminate
        <3>6. L!Shutdown => comp' = comp \/ \E d \in L!Comps : comp' = [comp EXCEPT ![d] = "stopped"]
            BY DEF L!Shutdown, L!CancelRecovery, L!StartStopping, L!Stopped, L!RecoveryEnds, L!Stop
        <3> QED BY <3>1, <3>2, <3>3, <3>4, <3>5, <3>6 DEF L!Next
    <2> QED BY <2>1, <2>2
<1> QED BY <1>1, LifecycleInvariance, PTL DEF L!Spec, L!StoppedForGood

\* A behaviour of the process is, for its lifespan, one of the part.
LEMMA LifecyclePart == ProcessSpec => L!Spec
<1>1. ProcessInit => L!Init
    BY DEF ProcessInit
<1>2. [ProcessNext]_process_vars => [L!Next]_(L!vars)
    <2> SUFFICES ASSUME ProcessNext \/ UNCHANGED process_vars PROVE L!Next \/ UNCHANGED L!vars
        OBVIOUS
    <2>1. CASE Lives
        BY <2>1 DEF Lives, L!Next, L!Recover, L!Polls, L!Shutdown
    <2>2. CASE UNCHANGED l_vars
        BY <2>2 DEF l_vars, L!vars
    <2>3. ProcessNext => Lives \/ UNCHANGED l_vars
        BY DEF ProcessNext, Lives, Ticking, Caching, Keying, FanningOut, Provisions, Assembles, Processes, Settles, Joins, About, Only
    <2>4. UNCHANGED process_vars => UNCHANGED l_vars
        BY DEF process_vars
    <2> QED BY <2>1, <2>2, <2>3, <2>4
<1> QED BY <1>1, <1>2, PTL DEF ProcessSpec, L!Spec

\* No agent of the process consumes while one of its components has not started.
THEOREM StartsBeforeConsuming == ProcessSpec => []ConsumesWhenStarted
<1>1. L!Spec => []L!ConsumesWhenStarted
    BY StartedWhenConsuming, LifecycleParameters
<1> QED BY <1>1, LifecyclePart, PTL DEF ConsumesWhenStarted

\* What the shutdown of the process stops, nothing starts again.
THEOREM StopIsFinal == ProcessSpec => StoppedForGood
<1>1. L!Spec => L!StoppedForGood
    BY StoppedStays, LifecycleParameters
<1> QED BY <1>1, LifecyclePart, PTL DEF StoppedForGood

-----------------------------------------------------------------------------
(* Ticks: a scheduled time is run once, for any number of replicas, any     *)
(* length of the minute, and any skew, grace and wait the claim allows for. *)

\* A multiple of the minute: a time the crontab names.
FireTime(t) == t \in Nat /\ t % MinuteUnits = 0

OnTheMinute ==
    \A r \in t_Replicas :
        /\ timer[r] = T!NotArmed \/ FireTime(timer[r])
        /\ cursor[r] = T!NotArmed \/ FireTime(cursor[r])

\* A claim is made for a time that has come, and not long after it.
InTime ==
    \A r \in t_Replicas : job[r] = "claiming" =>
        /\ slot[r] \in T!FireTimes
        /\ slot[r] <= T!Local(r)
        /\ T!Local(r) <= slot[r] + Grace + MaxWait

\* The claim of a slot that has been run lasts until no replica asks for it.
ClaimOutlasts ==
    \A s \in T!FireTimes :
        \/ s \in open \/ runs[s] = 0
        \/ runs[s] = 1 /\ expiry[s] >= s + Grace + MaxWait + 1

TicksInv == T!TypeOK /\ OnTheMinute /\ InTime /\ ClaimOutlasts

\* Division by the minute.
LEMMA Division ==
    ASSUME NEW m \in Nat \ {0}, NEW x \in Nat
    PROVE  (x % m) \in 0..m - 1 /\ (x \div m) \in Nat /\ x = m * (x \div m) + (x % m)
OBVIOUS

LEMMA Multiple ==
    ASSUME NEW m \in Nat \ {0}, NEW b \in Nat
    PROVE  (m * b) \in Nat /\ (m * b) % m = 0
<1> DEFINE y == m * b
           q == y \div m
           r == y % m
<1>1. y \in Nat
    OBVIOUS
<1>2. r \in 0..m - 1 /\ q \in Nat /\ y = m * q + r
    BY <1>1, Division
<1>3. m * (b - q) = r
    BY <1>1, <1>2
<1> HIDE DEF q, r
<1>4. b - q = 0
    <2>1. ASSUME b - q >= 1 PROVE FALSE
        <3>1. m * (b - q) >= m
            BY <1>2, <2>1
        <3> QED BY <3>1, <1>2, <1>3
    <2>2. ASSUME b - q <= -1 PROVE FALSE
        <3>1. m * (b - q) <= -m
            BY <1>2, <2>2
        <3> QED BY <3>1, <1>2, <1>3
    <2> QED BY <2>1, <2>2, <1>2
<1>5. r = 0
    BY <1>3, <1>4
<1> QED BY <1>1, <1>5 DEF r

\* The minute a clock shows, and the next one.
LEMMA Minute ==
    ASSUME NEW m \in Nat \ {0}, NEW x \in Nat
    PROVE  /\ (x - (x % m)) \in Nat /\ (x - (x % m)) % m = 0
           /\ ((x - (x % m)) + m) \in Nat /\ ((x - (x % m)) + m) % m = 0
           /\ x - (x % m) <= x
<1> DEFINE b == x \div m
<1>1. b \in Nat /\ x = m * b + (x % m) /\ (x % m) \in Nat
    BY Division
<1>2. x - (x % m) = m * b
    BY <1>1
<1>3. m * b + m = m * (b + 1)
    BY <1>1
<1> HIDE DEF b
<1>4. (m * b) \in Nat /\ (m * b) % m = 0
    BY <1>1, Multiple
<1>5. (m * (b + 1)) \in Nat /\ (m * (b + 1)) % m = 0
    <2>1. b + 1 \in Nat
        BY <1>1
    <2> QED BY <2>1, Multiple
<1>6. x - (x % m) <= x
    BY <1>1
<1> QED BY <1>2, <1>3, <1>4, <1>5, <1>6

\* It is the last of the minutes that have come.
LEMMA LastMinute ==
    ASSUME NEW m \in Nat \ {0}, NEW x \in Nat, NEW t \in Nat, t % m = 0, t <= x
    PROVE  t <= x - (x % m)
<1>1. PICK a \in Nat : t = m * a
    <2> DEFINE q == t \div m
    <2>1. q \in Nat /\ t = m * q + 0
        BY Division
    <2> HIDE DEF q
    <2> QED BY <2>1
<1>2. PICK b \in Nat : x = m * b + (x % m)
    BY Division
<1>3. a <= b
    <2>1. (x % m) \in Nat /\ x % m < m
        BY Division
    <2> QED BY <1>1, <1>2, <2>1
<1>4. m * a <= m * b
    BY <1>3
<1> DEFINE p == m * b
           r == x % m
<1>5. p \in Nat /\ r \in Nat /\ x = p + r /\ t <= p
    BY <1>1, <1>2, <1>4, Division
<1> HIDE DEF p, r
<1>6. t <= x - r
    BY <1>5
<1> QED BY <1>6 DEF r

LEMMA Clock ==
    ASSUME T!Parameters, T!TypeOK, NEW r \in t_Replicas
    PROVE  T!Local(r) \in Nat /\ T!Local(r) <= t_MaxTime + MaxSkew /\ t_now <= T!Local(r) /\ T!Local(r) <= t_now + MaxSkew
BY DEF T!Parameters, T!TypeOK, T!Local

\* What the timer derives, however many fire times passed without a run, is
\* the minute of its clock.
LEMMA Derived ==
    ASSUME T!Parameters, T!TypeOK, OnTheMinute, NEW r \in t_Replicas
    PROVE  T!TickSlot(r) = T!MinuteOf(T!Local(r))
<1> DEFINE l == T!Local(r)
           m == T!MinuteOf(l)
<1>1. l \in Nat /\ l <= t_MaxTime + MaxSkew /\ cursor[r] \in Int /\ MinuteUnits \in Nat \ {0}
      /\ t_MaxTime + MaxSkew \in Nat
    BY Clock DEF T!Parameters, T!TypeOK
<1>2. m \in Nat /\ m % MinuteUnits = 0 /\ m <= l
    BY <1>1, Minute DEF T!MinuteOf
<1>3. m \in T!FireTimes
    BY <1>1, <1>2 DEF T!FireTimes
<1>4. \A t \in T!FireTimes : t <= l => t <= m
    <2> SUFFICES ASSUME NEW t \in T!FireTimes, t <= l PROVE t <= m
        OBVIOUS
    <2>1. t \in Nat /\ t % MinuteUnits = 0
        BY <1>1 DEF T!FireTimes
    <2> QED BY <1>1, <2>1, LastMinute DEF T!MinuteOf
<1>5. T!FireTimes \subseteq Nat
    BY <1>1 DEF T!FireTimes
<1> HIDE DEF l, m
<1>6. ASSUME cursor[r] <= l PROVE cursor[r] <= m
    <2>1. CASE cursor[r] = T!NotArmed
        BY <1>2, <2>1 DEF T!NotArmed
    <2>2. CASE FireTime(cursor[r])
        BY <1>1, <1>6, <2>2, LastMinute DEF FireTime, T!MinuteOf, m
    <2> QED BY <2>1, <2>2 DEF OnTheMinute
<1>7. ASSUME cursor[r] <= l
      PROVE  m = CHOOSE f \in T!FireTimes : /\ cursor[r] <= f /\ f <= l
                                            /\ \A g \in T!FireTimes : g <= l => g <= f
    <2> DEFINE Last(f) == cursor[r] <= f /\ f <= l /\ \A g \in T!FireTimes : g <= l => g <= f
    <2>1. Last(m)
        BY <1>2, <1>4, <1>6, <1>7
    <2>2. \A f \in T!FireTimes : Last(f) => f = m
        BY <1>2, <1>3, <1>4, <1>5
    <2> HIDE DEF Last
    <2>3. m = CHOOSE f \in T!FireTimes : Last(f)
        BY <1>3, <2>1, <2>2
    <2> QED BY <2>3 DEF Last
<1> QED BY <1>1, <1>7 DEF T!TickSlot, l, m

LEMMA TicksInit == T!Parameters /\ T!Init => TicksInv
<1> SUFFICES ASSUME T!Parameters, T!Init PROVE TicksInv
    OBVIOUS
<1>1. T!TypeOK
    BY DEF T!Parameters, T!Init, T!TypeOK, T!NotArmed
<1>2. OnTheMinute /\ InTime /\ ClaimOutlasts
    BY DEF T!Init, OnTheMinute, InTime, ClaimOutlasts
<1> QED BY <1>1, <1>2 DEF TicksInv

\* The timer of a replica is armed, or fires.
LEMMA TimerSteps ==
    ASSUME T!Parameters, TicksInv, NEW r \in t_Replicas, T!Starts(r) \/ T!Fires(r)
    PROVE  TicksInv'
<1> DEFINE l == T!Local(r)
           m == T!MinuteOf(l)
<1>0. /\ T!TypeOK /\ OnTheMinute /\ InTime /\ ClaimOutlasts
      /\ MinuteUnits \in Nat \ {0} /\ Grace \in Nat /\ MaxWait \in Nat /\ t_MaxTime + MaxSkew \in Nat
      /\ timer \in [t_Replicas -> Int] /\ cursor \in [t_Replicas -> Int]
      /\ job \in [t_Replicas -> {"none", "claiming", "running"}]
      /\ slot \in [t_Replicas -> T!FireTimes \union {T!NotArmed}]
    BY DEF TicksInv, T!Parameters, T!TypeOK
<1>1. l \in Nat /\ l <= t_MaxTime + MaxSkew
    BY <1>0, Clock
<1>2. m \in T!FireTimes /\ FireTime(m) /\ m <= l
    <2>1. m \in Nat /\ m % MinuteUnits = 0 /\ m <= l
        BY <1>0, <1>1, Minute DEF T!MinuteOf
    <2> QED BY <1>0, <1>1, <2>1 DEF T!FireTimes, FireTime
<1>3. UNCHANGED <<t_now, skew, expiry, runs, open, t_faults>>
    BY DEF T!Starts, T!Fires
<1>4. ClaimOutlasts' /\ \A q \in t_Replicas : T!Local(q)' = T!Local(q)
    BY <1>0, <1>3 DEF ClaimOutlasts, T!Local, T!FireTimes
<1>5. CASE T!Starts(r)
    <2> DEFINE f == T!FireFrom(l)
    <2>1. FireTime(f) /\ f \in Int
        <3>1. l + MinuteUnits - 1 \in Nat
            BY <1>0, <1>1
        <3> QED BY <1>0, <3>1, Minute DEF T!FireFrom, T!MinuteOf, FireTime
    <2>2. cursor' = [cursor EXCEPT ![r] = f] /\ timer' = [timer EXCEPT ![r] = f] /\ UNCHANGED <<job, slot>>
        BY <1>5 DEF T!Starts
    <2> HIDE DEF f, l, m
    <2>3. T!TypeOK'
        BY <1>0, <1>3, <2>1, <2>2 DEF T!TypeOK, T!FireTimes
    <2>4. OnTheMinute'
        BY <1>0, <2>1, <2>2 DEF OnTheMinute, FireTime
    <2>5. InTime'
        BY <1>0, <1>4, <2>2 DEF InTime, T!FireTimes
    <2> QED BY <1>4, <2>3, <2>4, <2>5 DEF TicksInv
<1>6. CASE T!Fires(r)
    <2> DEFINE after == T!FireAfter(timer[r])
    <2>0. timer[r] # T!NotArmed /\ timer[r] <= l /\ FireTime(timer[r])
        BY <1>0, <1>6 DEF T!Fires, OnTheMinute
    <2>1. FireTime(after) /\ after \in Int
        <3>1. timer[r] \in Nat
            BY <2>0 DEF FireTime
        <3> DEFINE t == timer[r]
        <3>2. after = (t - (t % MinuteUnits)) + MinuteUnits
            BY DEF T!FireAfter, T!MinuteOf
        <3> HIDE DEF after, t
        <3>3. t \in Nat
            BY <3>1 DEF t
        <3>4. /\ ((t - (t % MinuteUnits)) + MinuteUnits) \in Nat
              /\ ((t - (t % MinuteUnits)) + MinuteUnits) % MinuteUnits = 0
            BY <1>0, <3>3, Minute
        <3>5. after \in Nat /\ after % MinuteUnits = 0
            BY <3>2, <3>4, Zenon
        <3> QED BY <3>5 DEF FireTime
    <2>2. timer' = [timer EXCEPT ![r] = after]
        BY <1>6 DEF T!Fires
    <2>3. \/ UNCHANGED <<job, slot, cursor>>
          \/ /\ l - timer[r] <= Grace
             /\ job' = [job EXCEPT ![r] = "claiming"] /\ slot' = [slot EXCEPT ![r] = m]
             /\ \/ cursor' = [cursor EXCEPT ![r] = m]
                \/ cursor' = cursor
        <3>1. T!TickSlot(r) = m
            BY <1>0, Derived
        <3>2. cursor = [cursor EXCEPT ![r] = cursor[r]]
            BY <1>0
        <3> QED BY <1>6, <3>1, <3>2 DEF T!Fires
    <2>4. timer[r] <= m
        <3>1. timer[r] \in Nat /\ timer[r] % MinuteUnits = 0
            BY <2>0 DEF FireTime
        <3> QED BY <1>0, <1>1, <2>0, <3>1, LastMinute DEF T!MinuteOf
    <2> HIDE DEF after, l, m
    <2>5. /\ cursor' \in [t_Replicas -> Int] /\ timer' \in [t_Replicas -> Int]
          /\ job' \in [t_Replicas -> {"none", "claiming", "running"}]
          /\ slot' \in [t_Replicas -> T!FireTimes \union {T!NotArmed}]
          /\ OnTheMinute'
        <3>1. \A q \in t_Replicas : timer'[q] = T!NotArmed \/ FireTime(timer'[q])
            BY <1>0, <2>1, <2>2 DEF OnTheMinute
        <3>2. \A q \in t_Replicas : cursor'[q] = T!NotArmed \/ FireTime(cursor'[q])
            BY <1>0, <1>2, <2>3 DEF OnTheMinute
        <3>3. m \in Int
            BY <1>2 DEF FireTime
        <3>4. OnTheMinute'
            BY <3>1, <3>2 DEF OnTheMinute, FireTime
        <3> QED BY <1>0, <1>2, <2>1, <2>2, <2>3, <3>3, <3>4
    <2>6. T!TypeOK'
        BY <1>0, <1>3, <2>5 DEF T!TypeOK, T!FireTimes, T!NotArmed
    <2>7. InTime'
        <3>1. CASE UNCHANGED <<job, slot, cursor>>
            BY <1>0, <1>4, <3>1 DEF InTime, T!FireTimes
        <3>2. CASE /\ l - timer[r] <= Grace
                   /\ job' = [job EXCEPT ![r] = "claiming"] /\ slot' = [slot EXCEPT ![r] = m]
            <4>1. m <= l /\ l <= m + Grace + MaxWait
                <5>1. m \in Nat /\ timer[r] \in Nat
                    BY <1>2, <2>0 DEF FireTime
                <5> QED BY <1>0, <1>1, <1>2, <2>4, <3>2, <5>1
            <4>2. \A q \in t_Replicas : job'[q] = "claiming" => q = r \/ job[q] = "claiming"
                BY <1>0, <3>2
            <4>3. slot'[r] = m /\ \A q \in t_Replicas \ {r} : slot'[q] = slot[q]
                BY <1>0, <3>2
            <4>4. T!FireTimes' = T!FireTimes
                BY DEF T!FireTimes
            <4>5. T!Local(r) = l
                BY DEF l
            <4> QED BY <1>0, <1>2, <1>4, <4>1, <4>2, <4>3, <4>4, <4>5 DEF InTime
        <3> QED BY <2>3, <3>1, <3>2
    <2> QED BY <1>4, <2>5, <2>6, <2>7 DEF TicksInv
<1> QED BY <1>5, <1>6

\* The claim is answered, or is not, and the tick ends.
LEMMA ClaimSteps ==
    ASSUME T!Parameters, TicksInv, NEW r \in t_Replicas,
           T!Claims(r) \/ T!ClaimFails(r) \/ T!TickEnds(r) \/ T!Crashes(r)
    PROVE  TicksInv'
<1>0. /\ T!TypeOK /\ OnTheMinute /\ InTime /\ ClaimOutlasts
      /\ {Grace, MaxWait, MaxSkew, t_MaxTime, t_MaxFaults} \subseteq Nat
      /\ timer \in [t_Replicas -> Int] /\ cursor \in [t_Replicas -> Int]
      /\ job \in [t_Replicas -> {"none", "claiming", "running"}]
      /\ slot \in [t_Replicas -> T!FireTimes \union {T!NotArmed}]
      /\ expiry \in [T!FireTimes -> Nat] /\ runs \in [T!FireTimes -> Nat] /\ open \subseteq T!FireTimes
      /\ t_now \in Nat /\ t_faults \in 0..t_MaxFaults
    BY DEF TicksInv, T!Parameters, T!TypeOK
<1>1. UNCHANGED <<t_now, skew>> /\ t_faults' \in 0..t_MaxFaults
    <2>1. t_faults' = t_faults \/ (t_faults < t_MaxFaults /\ t_faults' = t_faults + 1)
        BY DEF T!Claims, T!ClaimFails, T!TickEnds, T!Crashes
    <2>2. t_faults' \in 0..t_MaxFaults
        BY <1>0, <2>1
    <2> QED BY <2>2 DEF T!Claims, T!ClaimFails, T!TickEnds, T!Crashes
<1>2. /\ timer' \in [t_Replicas -> Int] /\ cursor' \in [t_Replicas -> Int]
      /\ \A q \in t_Replicas : /\ timer'[q] \in {timer[q], T!NotArmed}
                             /\ cursor'[q] \in {cursor[q], T!NotArmed}
    <2>1. \/ timer' = timer /\ cursor' = cursor
          \/ timer' = [timer EXCEPT ![r] = T!NotArmed] /\ cursor' = [cursor EXCEPT ![r] = T!NotArmed]
        BY DEF T!Claims, T!ClaimFails, T!TickEnds, T!Crashes
    <2> QED BY <1>0, <2>1 DEF T!NotArmed
<1>3. OnTheMinute'
    BY <1>0, <1>2 DEF OnTheMinute, FireTime
<1>4. /\ job' \in [t_Replicas -> {"none", "claiming", "running"}]
      /\ slot' \in [t_Replicas -> T!FireTimes \union {T!NotArmed}]
      /\ \A q \in t_Replicas : job'[q] = "claiming" => job[q] = "claiming" /\ slot'[q] = slot[q]
    <2>1. /\ \/ job' = [job EXCEPT ![r] = "none"]
             \/ job' = [job EXCEPT ![r] = "running"]
          /\ \/ slot' = slot
             \/ slot' = [slot EXCEPT ![r] = T!NotArmed]
        BY DEF T!Claims, T!Wins, T!Loses, T!ClaimFails, T!TickEnds, T!Crashes
    <2> QED BY <1>0, <2>1
<1>5. InTime'
    <2>1. \A q \in t_Replicas : T!Local(q)' = T!Local(q)
        BY <1>1 DEF T!Local
    <2>2. T!FireTimes' = T!FireTimes
        BY DEF T!FireTimes
    <2> QED BY <1>0, <1>4, <2>1, <2>2 DEF InTime
<1> DEFINE t == slot[r]
<1>6. \/ UNCHANGED <<expiry, runs, open>>
      \/ /\ job[r] = "claiming" /\ runs' = [runs EXCEPT ![t] = @ + 1]
         /\ \/ open' = open \union {t} /\ expiry' = expiry
            \/ open' = open /\ expiry[t] <= t_now /\ expiry' = [expiry EXCEPT ![t] = t_now + T!ClaimTtl]
    <2>1. CASE T!Claims(r)
        <3>1. CASE T!Held(slot[r])
            BY <2>1, <3>1 DEF T!Claims, T!Loses
        <3>2. CASE ~T!Held(slot[r])
            <4>1. slot[r] \in T!FireTimes
                BY <1>0, <2>1 DEF T!Claims, InTime
            <4>2. expiry[t] <= t_now
                BY <1>0, <3>2, <4>1 DEF T!Held
            <4> QED BY <2>1, <3>2, <4>2 DEF T!Claims, T!Wins
        <3> QED BY <3>1, <3>2
    <2>2. CASE T!ClaimFails(r)
        BY <2>2 DEF T!ClaimFails
    <2>3. CASE T!TickEnds(r) \/ T!Crashes(r)
        BY <2>3 DEF T!TickEnds, T!Crashes
    <2> QED BY <2>1, <2>2, <2>3
<1>7. ASSUME job[r] = "claiming"
      PROVE  /\ t \in T!FireTimes /\ t \in Nat
             /\ t_now <= t + Grace + MaxWait
             /\ t <= t_now + MaxSkew
    <2>1. t \in T!FireTimes /\ t <= T!Local(r) /\ T!Local(r) <= t + Grace + MaxWait
        BY <1>0, <1>7 DEF InTime
    <2>2. T!Local(r) \in Nat /\ t_now <= T!Local(r) /\ T!Local(r) <= t_now + MaxSkew
        BY <1>0, Clock
    <2>3. t \in Nat
        BY <1>0, <2>1 DEF T!FireTimes
    <2> HIDE DEF t
    <2> QED BY <1>0, <2>1, <2>2, <2>3
<1> HIDE DEF t
<1>8. /\ expiry' \in [T!FireTimes -> Nat] /\ runs' \in [T!FireTimes -> Nat] /\ open' \subseteq T!FireTimes
      /\ ClaimOutlasts'
    <2>0. T!FireTimes' = T!FireTimes
        BY DEF T!FireTimes
    <2>1. CASE UNCHANGED <<expiry, runs, open>>
        BY <1>0, <2>0, <2>1 DEF ClaimOutlasts
    <2>2. CASE /\ job[r] = "claiming" /\ runs' = [runs EXCEPT ![t] = @ + 1]
               /\ open' = open \union {t} /\ expiry' = expiry
        BY <1>0, <1>7, <2>0, <2>2 DEF ClaimOutlasts
    <2>3. CASE /\ job[r] = "claiming" /\ runs' = [runs EXCEPT ![t] = @ + 1]
               /\ open' = open /\ expiry[t] <= t_now /\ expiry' = [expiry EXCEPT ![t] = t_now + T!ClaimTtl]
        <3>1. t \in open \/ runs[t] = 0
            BY <1>0, <1>7, <2>3 DEF ClaimOutlasts
        <3>2. t_now + T!ClaimTtl \in Nat /\ t_now + T!ClaimTtl >= t + Grace + MaxWait + 1
            BY <1>0, <1>7, <2>3 DEF T!ClaimTtl
        <3> DEFINE until == t_now + T!ClaimTtl
        <3>3. expiry' = [expiry EXCEPT ![t] = until] /\ until \in Nat /\ until >= t + Grace + MaxWait + 1
            BY <2>3, <3>2
        <3> HIDE DEF until
        <3>4. expiry' \in [T!FireTimes -> Nat] /\ runs' \in [T!FireTimes -> Nat]
            BY <1>0, <1>7, <2>3, <3>3
        <3>5. ASSUME NEW s \in T!FireTimes
              PROVE  \/ s \in open \/ runs'[s] = 0
                     \/ runs'[s] = 1 /\ expiry'[s] >= s + Grace + MaxWait + 1
            <4>1. CASE s = t
                BY <1>0, <1>7, <2>3, <3>1, <3>3, <4>1
            <4>2. CASE s # t
                BY <1>0, <1>7, <2>3, <3>3, <4>2 DEF ClaimOutlasts
            <4> QED BY <4>1, <4>2
        <3> QED BY <1>0, <2>0, <2>3, <3>4, <3>5 DEF ClaimOutlasts
    <2> QED BY <1>6, <2>1, <2>2, <2>3
<1>9. T!TypeOK'
    <2>1. T!FireTimes' = T!FireTimes
        BY DEF T!FireTimes
    <2> QED BY <1>0, <1>1, <1>2, <1>4, <1>8, <2>1 DEF T!TypeOK, T!NotArmed
<1> QED BY <1>3, <1>5, <1>8, <1>9 DEF TicksInv

LEMMA TicksNext == T!Parameters /\ TicksInv /\ [T!Next]_(T!vars) => TicksInv'
<1> SUFFICES ASSUME T!Parameters, TicksInv, [T!Next]_(T!vars) PROVE TicksInv'
    OBVIOUS
<1>0. T!TypeOK /\ OnTheMinute /\ InTime /\ ClaimOutlasts
    BY DEF TicksInv
<1>1. CASE UNCHANGED T!vars
    BY <1>0, <1>1 DEF T!vars, TicksInv, T!TypeOK, T!FireTimes, T!Local, OnTheMinute, InTime, ClaimOutlasts
<1>2. CASE T!Elapses
    <2>1. /\ t_now' = t_now + 1 /\ t_now < t_MaxTime
          /\ UNCHANGED <<skew, cursor, timer, job, slot, expiry, runs, open, t_faults>>
          /\ \A r \in t_Replicas : job[r] = "claiming" => T!Local(r) < slot[r] + Grace + MaxWait
        BY <1>2 DEF T!Elapses
    <2>2. T!TypeOK'
        BY <1>0, <2>1 DEF T!Parameters, T!TypeOK, T!FireTimes, T!NotArmed
    <2>3. OnTheMinute' /\ ClaimOutlasts'
        BY <1>0, <2>1 DEF OnTheMinute, ClaimOutlasts, T!FireTimes
    <2>4. InTime'
        <3> SUFFICES ASSUME NEW r \in t_Replicas, job[r] = "claiming"
                     PROVE  /\ slot[r] \in T!FireTimes
                            /\ slot[r] <= T!Local(r)'
                            /\ T!Local(r)' <= slot[r] + Grace + MaxWait
            BY <2>1 DEF InTime, T!FireTimes
        <3>1. T!Local(r)' = T!Local(r) + 1
            BY <1>0, <2>1 DEF T!Local, T!TypeOK, T!Parameters
        <3>2. /\ slot[r] \in T!FireTimes /\ slot[r] <= T!Local(r) /\ T!Local(r) < slot[r] + Grace + MaxWait
            BY <1>0, <2>1 DEF InTime
        <3>3. slot[r] \in Nat /\ T!Local(r) \in Nat /\ Grace \in Nat /\ MaxWait \in Nat
            BY <1>0, <3>2, Clock DEF T!FireTimes, T!Parameters
        <3> QED BY <3>1, <3>2, <3>3
    <2> QED BY <2>2, <2>3, <2>4 DEF TicksInv
<1> QED BY <1>1, <1>2, TimerSteps, ClaimSteps DEF T!Next

\* A scheduled time is run by one replica, whoever's clock is ahead, unless the
\* cache could not be asked.
LEMMA OneRun == ASSUME T!Parameters PROVE T!Spec => []T!RunOncePerSlot
<1>1. T!Init => TicksInv
    BY TicksInit
<1>2. TicksInv /\ [T!Next]_(T!vars) => TicksInv'
    BY TicksNext
<1>3. TicksInv => T!RunOncePerSlot
    BY DEF TicksInv, ClaimOutlasts, T!RunOncePerSlot
<1> QED BY <1>1, <1>2, <1>3, PTL DEF T!Spec

\* A behaviour of the process is, for the ticks, one of the part.
LEMMA TicksPart == ProcessSpec => T!Spec
<1>1. ProcessInit => T!Init
    BY DEF ProcessInit
<1>2. [ProcessNext]_process_vars => [T!Next]_(T!vars)
    <2> SUFFICES ASSUME ProcessNext \/ UNCHANGED process_vars PROVE T!Next \/ UNCHANGED T!vars
        OBVIOUS
    <2>1. CASE Ticking
        BY <2>1 DEF Ticking, T!Next
    <2>2. CASE UNCHANGED t_vars
        BY <2>2 DEF t_vars, T!vars
    <2>3. ProcessNext => Ticking \/ UNCHANGED t_vars
        BY DEF ProcessNext, Lives, Ticking, Caching, Keying, FanningOut, Provisions, Assembles, Processes, Settles, Joins, About, Only
    <2>4. UNCHANGED process_vars => UNCHANGED t_vars
        BY DEF process_vars
    <2> QED BY <2>1, <2>2, <2>3, <2>4
<1> QED BY <1>1, <1>2, PTL DEF ProcessSpec, T!Spec

\* A scheduled time is run once.
THEOREM OneRunPerSlot == ProcessSpec => []RunOncePerSlot
<1>1. T!Spec => []T!RunOncePerSlot
    BY OneRun, TicksParameters
<1> QED BY <1>1, TicksPart, PTL DEF RunOncePerSlot

-----------------------------------------------------------------------------
(* DiskCache: it implements the atomic cache, for any threads, keys, times   *)
(* to live and times: what the lock covers is one step to the callers.       *)

Places == {"none", "lock", "first", "second", "third", "done", "raised"}
Inside == {"first", "second", "third", "done", "raised"}
EntryType == [by : Callers \union {Never}, until : Nat \union {Never}]

CacheTypes ==
    /\ d_now \in Nat
    /\ value \in [d_Keys -> Callers \union {Never}]
    /\ expires \in [d_Keys -> Nat \union {Never}]
    /\ lock \in Callers \union {Never}
    /\ d_at \in [Callers -> Places]
    /\ d_seen \in [Callers -> Callers \union {Never, "yes", "no"}]
    /\ call \in [Callers -> D!Calls \union {Never}]
    /\ since \in [Callers -> Nat]
    /\ answer \in [Callers -> Callers \union {Never, "yes", "no"}]
    /\ before \in [d_Keys -> EntryType]

\* Who is past _acquire_lock has the lock; who is not busy has no call.
OneInside ==
    \A c \in Callers :
        /\ d_at[c] \in Inside <=> lock = c
        /\ d_at[c] = "none" <=> call[c] = Never
        /\ since[c] <= d_now

\* The holder of the lock changes no key but its own.
Whole == lock # Never => \A k \in d_Keys \ {D!Key(lock)} : D!Entry(k) = before[k]

\* At some time since the call, what the holder of the lock found there had
\* expired, or was alive if it was there.
ExpiredOnce(c) == \E t \in since[c]..d_now : ~D!Atomic!Alive(before[D!Key(c)], t)
AliveOnce(c) == \E t \in since[c]..d_now : before[D!Key(c)].by = Never \/ D!Atomic!Alive(before[D!Key(c)], t)

\* What the holder of the lock knows, and has done to its key, at each place.
Progress(c) ==
    LET k == D!Key(c)
        found == before[D!Key(c)]
        Is(op, step) == call[c].op = op /\ d_at[c] = step IN
    /\ d_at[c] \in {"second", "third"} => D!Entry(k).until = found.until
    /\ d_at[c] = "second" => call[c].op \in {"get", "exists", "claim", "delete"}
    /\ d_at[c] = "third" => call[c].op \in {"get", "set", "claim"}
    /\ d_at[c] = "first" => D!Entry(k) = found
    /\ Is("get", "second") => D!Entry(k) = found /\ ExpiredOnce(c)
    /\ Is("get", "third") => D!Entry(k) = found /\ AliveOnce(c)
    /\ Is("exists", "second") => D!Entry(k) = found /\ AliveOnce(c)
    /\ Is("set", "third") => value[k] = c /\ d_seen[c] = Never
    /\ Is("claim", "second") => D!Entry(k) = found /\ d_seen[c] = "yes" /\ found.by # Never
    /\ Is("claim", "third") => value[k] = c /\ d_seen[c] = "yes" /\ ExpiredOnce(c)
    /\ Is("delete", "second") => value[k] = Never /\ found.by # Never
    /\ d_at[c] = "done" => \E t \in since[c]..d_now : D!Atomic!Effect(c, t, found, D!Entry(k), d_seen[c])
    /\ d_at[c] = "raised" => \E t \in since[c]..d_now : D!Atomic!SpoiltEffect(c, t, found, D!Entry(k), d_seen[c])

CacheInv ==
    /\ CacheTypes
    /\ OneInside
    /\ Whole
    /\ \A c \in Callers : lock = c => Progress(c)

(* The steps of an operation under the lock.                               *)

LEMMA CallType ==
    ASSUME NEW w \in D!Calls
    PROVE  /\ w.op \in {"set", "claim", "get", "exists", "delete"}
           /\ w.key \in d_Keys
           /\ w.op \in {"set", "claim"} => w.ttl \in Ttls
BY DEF D!Calls

\* What every step of an operation starts from.
LEMMA Holder ==
    ASSUME D!Parameters, CacheInv, NEW c \in Callers, d_at[c] \in Inside
    PROVE  /\ lock = c /\ lock # Never /\ call[c] # Never /\ call[c] \in D!Calls /\ D!Key(c) \in d_Keys
           /\ before[D!Key(c)] \in EntryType
           /\ value[D!Key(c)] \in Callers \union {Never} /\ expires[D!Key(c)] \in Nat \union {Never}
           /\ since[c] \in Nat /\ d_now \in Nat /\ d_now \in since[c]..d_now
           /\ Progress(c)
<1>1. lock = c /\ call[c] # Never /\ since[c] <= d_now /\ Progress(c) /\ c # Never
    BY DEF CacheInv, OneInside, Inside, D!Parameters
<1>2. call[c] \in D!Calls /\ D!Key(c) \in d_Keys /\ since[c] \in Nat /\ d_now \in Nat
    BY <1>1, CallType DEF CacheInv, CacheTypes, D!Key
<1> QED BY <1>1, <1>2 DEF CacheInv, CacheTypes, Whole

\* A step that touches the holder's key only, and leaves it as Progress says, keeps the invariant.
LEMMA UnderTheLock ==
    ASSUME D!Parameters, CacheInv, NEW c \in Callers, d_at[c] \in Inside, D!Same,
           NEW p \in Inside, d_at' = [d_at EXCEPT ![c] = p],
           NEW s \in Callers \union {Never, "yes", "no"}, d_seen' = [d_seen EXCEPT ![c] = s],
           NEW v \in Callers \union {Never}, value' = [value EXCEPT ![D!Key(c)] = v],
           NEW u \in Nat \union {Never}, expires' = [expires EXCEPT ![D!Key(c)] = u],
           Progress(c)'
    PROVE  CacheInv'
<1>1. lock = c /\ lock # Never /\ D!Key(c) \in d_Keys /\ D!Key(c)' = D!Key(c) /\ lock' = lock
    BY Holder DEF D!Same, D!Key
<1>2. CacheTypes'
    <2>1. p \in Places
        BY DEF Places, Inside
    <2> QED BY <1>1, <2>1 DEF D!Same, CacheInv, CacheTypes
<1>3. OneInside'
    <2>1. \A d \in Callers : d_at'[d] = IF d = c THEN p ELSE d_at[d]
        BY DEF CacheInv, CacheTypes
    <2>2. d_at[c] # "none" /\ p # "none"
        BY DEF Inside
    <2> QED BY <1>1, <2>1, <2>2 DEF CacheInv, OneInside, D!Same
<1>4. Whole'
    <2>1. \A k \in d_Keys \ {D!Key(c)} : value'[k] = value[k] /\ expires'[k] = expires[k]
        BY <1>1 DEF CacheInv, CacheTypes
    <2>2. before' = before
        BY DEF D!Same
    <2> QED BY <1>1, <2>1, <2>2 DEF CacheInv, Whole, D!Entry
<1>5. \A d \in Callers : lock' = d => Progress(d)'
    BY <1>1
<1> QED BY <1>2, <1>3, <1>4, <1>5 DEF CacheInv

\* The same for a step that only looks at the entries of its key.
LEMMA OnlyReads ==
    ASSUME D!Parameters, CacheInv, NEW c \in Callers, d_at[c] \in Inside, D!Same, UNCHANGED D!store,
           NEW p \in Inside, d_at' = [d_at EXCEPT ![c] = p],
           NEW s \in Callers \union {Never, "yes", "no"}, d_seen' = [d_seen EXCEPT ![c] = s],
           Progress(c)'
    PROVE  CacheInv'
<1>1. /\ value' = [value EXCEPT ![D!Key(c)] = value[D!Key(c)]] /\ value[D!Key(c)] \in Callers \union {Never}
      /\ expires' = [expires EXCEPT ![D!Key(c)] = expires[D!Key(c)]] /\ expires[D!Key(c)] \in Nat \union {Never}
    BY Holder DEF D!store, CacheInv, CacheTypes
<1> QED BY <1>1, UnderTheLock

\* What a step of the holder leaves as it was.
LEMMA Keeps ==
    ASSUME D!Parameters, CacheInv, NEW c \in Callers, d_at[c] \in Inside, D!Same
    PROVE  /\ D!Key(c)' = D!Key(c) /\ call' = call /\ since' = since /\ d_now' = d_now /\ before' = before /\ lock' = lock
           /\ ExpiredOnce(c)' <=> ExpiredOnce(c)
           /\ AliveOnce(c)' <=> AliveOnce(c)
BY DEF D!Same, D!Key, ExpiredOnce, AliveOnce, D!Atomic!Alive

LEMMA GetKeeps ==
    ASSUME D!Parameters, CacheInv, NEW c \in Callers, D!GetLooksAtExpiry(c) \/ D!GetDeletes(c) \/ D!GetReads(c)
    PROVE  CacheInv'
<1> DEFINE k == D!Key(c)
           found == before[k]
<1>0. d_at[c] \in Inside /\ D!Same /\ call[c].op = "get"
    BY DEF D!GetLooksAtExpiry, D!GetDeletes, D!GetReads, D!Does, Inside
<1>1. /\ k \in d_Keys /\ found \in EntryType /\ d_now \in since[c]..d_now /\ d_seen[c] \in Callers \union {Never, "yes", "no"}
      /\ value[k] \in Callers \union {Never} /\ expires[k] \in Nat \union {Never} /\ d_now \in Nat
      /\ Progress(c)
    BY <1>0, Holder DEF CacheInv, CacheTypes
<1>2. CASE D!GetLooksAtExpiry(c)
    <2> DEFINE p == IF D!Expired(k) THEN "second" ELSE "third"
    <2>1. /\ UNCHANGED D!store /\ p \in Inside /\ d_at' = [d_at EXCEPT ![c] = p] /\ d_seen' = [d_seen EXCEPT ![c] = d_seen[c]]
        BY <1>2 DEF D!GetLooksAtExpiry, D!To, Inside, CacheInv, CacheTypes
    <2>2. D!Entry(k) = found
        BY <1>1, <1>2 DEF Progress, D!GetLooksAtExpiry, D!Does
    <2>3. D!Expired(k) => ExpiredOnce(c)
        BY <1>1, <2>2 DEF D!Expired, ExpiredOnce, D!Atomic!Alive, D!Entry, D!Parameters
    <2>4. ~D!Expired(k) => AliveOnce(c)
        BY <1>1, <2>2 DEF D!Expired, AliveOnce, D!Atomic!Alive, D!Entry
    <2>5. d_at'[c] = p
        BY <2>1 DEF CacheInv, CacheTypes
    <2>6. Progress(c)'
        BY <1>0, <2>1, <2>2, <2>3, <2>4, <2>5, Keeps DEF Progress, D!Entry, D!store
    <2> QED BY <1>0, <1>1, <2>1, <2>6, OnlyReads
<1>3. CASE D!GetDeletes(c)
    <2> DEFINE until == IF value[k] = Never THEN expires[k] ELSE Never
    <2>1. D!Entry(k) = found /\ ExpiredOnce(c)
        BY <1>0, <1>1, <1>3 DEF Progress, D!GetDeletes, D!Does
    <2>2. /\ value' = [value EXCEPT ![k] = Never] /\ expires' = [expires EXCEPT ![k] = until] /\ until \in Nat \union {Never}
          /\ d_at' = [d_at EXCEPT ![c] = "done"] /\ d_seen' = [d_seen EXCEPT ![c] = Never] /\ "done" \in Inside
        BY <1>1, <1>3 DEF D!GetDeletes, D!Answers, D!To, Inside, CacheInv, CacheTypes
    <2>3. d_at'[c] = "done" /\ d_seen'[c] = Never /\ D!Entry(k)' = [by |-> Never, until |-> until]
        BY <1>0, <1>1, <2>2, Keeps DEF CacheInv, CacheTypes, D!Entry
    <2>4. D!Entry(k)' \in {found, D!Atomic!Absent}
        BY <2>1, <2>3 DEF D!Entry, D!Atomic!Absent
    <2>5. PICK t \in since[c]..d_now : ~D!Atomic!Alive(found, t)
        BY <2>1 DEF ExpiredOnce
    <2>6. D!Atomic!Effect(c, t, found, D!Entry(k), d_seen[c])'
        BY <1>0, <2>3, <2>4, <2>5, Keeps DEF D!Atomic!Effect, D!Atomic!Alive, D!Atomic!Absent
    <2>7. Progress(c)'
        BY <1>0, <2>3, <2>5, <2>6, Keeps DEF Progress
    <2> QED BY <1>0, <2>2, <2>7, UnderTheLock
<1>4. CASE D!GetReads(c)
    <2>1. D!Entry(k) = found /\ AliveOnce(c)
        BY <1>0, <1>1, <1>4 DEF Progress, D!GetReads, D!Does
    <2>2. /\ UNCHANGED D!store /\ "done" \in Inside
          /\ d_at' = [d_at EXCEPT ![c] = "done"] /\ d_seen' = [d_seen EXCEPT ![c] = value[k]]
        BY <1>4 DEF D!GetReads, D!Answers, D!To, Inside
    <2>3. d_at'[c] = "done" /\ d_seen'[c] = found.by /\ D!Entry(k)' = found
        BY <1>0, <1>1, <2>1, <2>2, Keeps DEF CacheInv, CacheTypes, D!Entry, D!store
    <2>4. PICK t \in since[c]..d_now : found.by = Never \/ D!Atomic!Alive(found, t)
        BY <2>1 DEF AliveOnce
    <2>5. D!Atomic!Effect(c, t, found, D!Entry(k), d_seen[c])'
        BY <1>0, <2>3, <2>4, Keeps DEF D!Atomic!Effect, D!Atomic!Alive
    <2>6. Progress(c)'
        BY <1>0, <1>1, <2>3, <2>4, <2>5, Keeps DEF Progress
    <2> QED BY <1>0, <1>1, <2>2, <2>6, OnlyReads
<1> QED BY <1>2, <1>3, <1>4

LEMMA ExistsKeeps ==
    ASSUME D!Parameters, CacheInv, NEW c \in Callers, D!ExistsLooksAtExpiry(c) \/ D!ExistsReads(c)
    PROVE  CacheInv'
<1> DEFINE k == D!Key(c)
           found == before[k]
<1>0. d_at[c] \in Inside /\ D!Same /\ call[c].op = "exists" /\ "done" \in Inside
    BY DEF D!ExistsLooksAtExpiry, D!ExistsReads, D!Does, Inside
<1>1. /\ k \in d_Keys /\ found \in EntryType /\ d_now \in since[c]..d_now /\ d_seen[c] \in Callers \union {Never, "yes", "no"}
      /\ value[k] \in Callers \union {Never} /\ expires[k] \in Nat \union {Never} /\ d_now \in Nat
      /\ Progress(c)
    BY <1>0, Holder DEF CacheInv, CacheTypes
<1>2. CASE D!ExistsLooksAtExpiry(c)
    <2>0. UNCHANGED D!store /\ D!Entry(k) = found /\ D!Entry(k)' = found
        BY <1>1, <1>2, <1>0, Keeps DEF Progress, D!ExistsLooksAtExpiry, D!Does, D!Entry, D!store
    <2>1. CASE D!Expired(k)
        <3>1. d_at' = [d_at EXCEPT ![c] = "done"] /\ d_seen' = [d_seen EXCEPT ![c] = "no"]
            BY <1>2, <2>1 DEF D!ExistsLooksAtExpiry, D!Answers, D!To
        <3>2. d_at'[c] = "done" /\ d_seen'[c] = "no"
            BY <3>1 DEF CacheInv, CacheTypes
        <3>3. ~D!Atomic!Alive(found, d_now)
            BY <1>1, <2>0, <2>1 DEF D!Expired, D!Atomic!Alive, D!Entry
        <3>4. D!Atomic!Effect(c, d_now, found, D!Entry(k), d_seen[c])'
            BY <1>0, <2>0, <3>2, <3>3, Keeps DEF D!Atomic!Effect, D!Atomic!Alive, D!Atomic!YesNo
        <3>5. Progress(c)'
            BY <1>0, <1>1, <2>0, <3>2, <3>4, Keeps DEF Progress
        <3> QED BY <1>0, <2>0, <3>1, <3>5, OnlyReads
    <2>2. CASE ~D!Expired(k)
        <3>1. d_at' = [d_at EXCEPT ![c] = "second"] /\ d_seen' = [d_seen EXCEPT ![c] = d_seen[c]] /\ "second" \in Inside
            BY <1>2, <2>2 DEF D!ExistsLooksAtExpiry, D!To, CacheInv, CacheTypes, Inside
        <3>2. d_at'[c] = "second"
            BY <3>1 DEF CacheInv, CacheTypes
        <3>3. AliveOnce(c)
            BY <1>1, <2>0, <2>2 DEF D!Expired, AliveOnce, D!Atomic!Alive, D!Entry
        <3>4. Progress(c)'
            BY <1>0, <2>0, <3>2, <3>3, Keeps DEF Progress
        <3> QED BY <1>0, <1>1, <2>0, <3>1, <3>4, OnlyReads
    <2> QED BY <2>1, <2>2
<1>3. CASE D!ExistsReads(c)
    <2> DEFINE ans == IF value[k] = Never THEN "no" ELSE "yes"
    <2>1. D!Entry(k) = found /\ AliveOnce(c)
        BY <1>0, <1>1, <1>3 DEF Progress, D!ExistsReads, D!Does
    <2>2. UNCHANGED D!store /\ d_at' = [d_at EXCEPT ![c] = "done"] /\ d_seen' = [d_seen EXCEPT ![c] = ans]
        BY <1>3 DEF D!ExistsReads, D!Answers, D!To
    <2>3. d_at'[c] = "done" /\ d_seen'[c] = (IF found.by = Never THEN "no" ELSE "yes") /\ D!Entry(k)' = found
        BY <1>0, <1>1, <2>1, <2>2, Keeps DEF CacheInv, CacheTypes, D!Entry, D!store
    <2>4. PICK t \in since[c]..d_now : found.by = Never \/ D!Atomic!Alive(found, t)
        BY <2>1 DEF AliveOnce
    <2>5. D!Atomic!Effect(c, t, found, D!Entry(k), d_seen[c])'
        BY <1>0, <2>3, <2>4, Keeps DEF D!Atomic!Effect, D!Atomic!Alive, D!Atomic!YesNo
    <2>6. Progress(c)'
        BY <1>0, <1>1, <2>3, <2>4, <2>5, Keeps DEF Progress
    <2> QED BY <1>0, <2>2, <2>6, OnlyReads
<1> QED BY <1>2, <1>3

LEMMA SetKeeps ==
    ASSUME D!Parameters, CacheInv, NEW c \in Callers, D!SetsValue(c)
    PROVE  CacheInv'
<1> DEFINE k == D!Key(c)
           found == before[k]
<1>0. d_at[c] \in Inside /\ D!Same /\ call[c].op = "set" /\ "done" \in Inside
    BY DEF D!SetsValue, D!Does, Inside
<1>1. /\ k \in d_Keys /\ found \in EntryType /\ d_now \in since[c]..d_now /\ d_seen[c] \in Callers \union {Never, "yes", "no"}
      /\ value[k] \in Callers \union {Never} /\ expires[k] \in Nat \union {Never} /\ d_now \in Nat
      /\ Progress(c)
    BY <1>0, Holder DEF CacheInv, CacheTypes
<1>2. /\ value' = [value EXCEPT ![k] = c] /\ expires' = [expires EXCEPT ![k] = expires[k]]
      /\ d_at' = [d_at EXCEPT ![c] = "third"] /\ d_seen' = [d_seen EXCEPT ![c] = Never] /\ "third" \in Inside
    BY DEF D!SetsValue, D!To, Inside, CacheInv, CacheTypes
<1>3. d_at'[c] = "third" /\ d_seen'[c] = Never /\ value'[k] = c /\ D!Entry(k)'.until = found.until
    <2>1. D!Entry(k) = found /\ k' = k
        BY <1>0, <1>1, Keeps DEF Progress, D!SetsValue, D!Does
    <2> QED BY <1>1, <1>2, <2>1 DEF CacheInv, CacheTypes, D!Entry
<1>4. Progress(c)'
    BY <1>0, <1>3, Keeps DEF Progress
<1> QED BY <1>0, <1>1, <1>2, <1>4, UnderTheLock

LEMMA ClaimKeeps ==
    ASSUME D!Parameters, CacheInv, NEW c \in Callers, D!ClaimAdds(c) \/ D!ClaimTakesOver(c)
    PROVE  CacheInv'
<1> DEFINE k == D!Key(c)
           found == before[k]
<1>0. d_at[c] \in Inside /\ D!Same /\ call[c].op = "claim" /\ "done" \in Inside
    BY DEF D!ClaimAdds, D!ClaimTakesOver, D!Does, Inside
<1>1. /\ k \in d_Keys /\ found \in EntryType /\ d_now \in since[c]..d_now /\ d_seen[c] \in Callers \union {Never, "yes", "no"}
      /\ value[k] \in Callers \union {Never} /\ expires[k] \in Nat \union {Never} /\ d_now \in Nat
      /\ Progress(c)
    BY <1>0, Holder DEF CacheInv, CacheTypes
<1>2. expires' = [expires EXCEPT ![k] = expires[k]] /\ {"second", "third"} \subseteq Inside
    BY DEF D!ClaimAdds, D!ClaimTakesOver, CacheInv, CacheTypes, Inside
<1>3. CASE D!ClaimAdds(c)
    <2>0. D!Entry(k) = found /\ d_seen' = [d_seen EXCEPT ![c] = "yes"] /\ d_seen'[c] = "yes"
        BY <1>1, <1>3 DEF Progress, D!ClaimAdds, D!Does, CacheInv, CacheTypes
    <2>1. CASE value[k] = Never
        <3>1. value' = [value EXCEPT ![k] = c] /\ d_at' = [d_at EXCEPT ![c] = "third"]
            BY <1>3, <2>1 DEF D!ClaimAdds, D!To
        <3>2. d_at'[c] = "third" /\ value'[k] = c /\ D!Entry(k)'.until = found.until
            BY <1>0, <1>1, <1>2, <2>0, <3>1, Keeps DEF CacheInv, CacheTypes, D!Entry
        <3>3. ExpiredOnce(c)
            BY <1>1, <2>0, <2>1 DEF ExpiredOnce, D!Atomic!Alive, D!Entry
        <3>4. Progress(c)'
            BY <1>0, <2>0, <3>2, <3>3, Keeps DEF Progress
        <3> QED BY <1>0, <1>1, <1>2, <2>0, <3>1, <3>4, UnderTheLock
    <2>2. CASE value[k] # Never
        <3>1. UNCHANGED D!store /\ d_at' = [d_at EXCEPT ![c] = "second"]
            BY <1>3, <2>2 DEF D!ClaimAdds, D!To, D!store
        <3>2. d_at'[c] = "second" /\ D!Entry(k)' = found /\ found.by # Never
            BY <1>0, <2>0, <2>2, <3>1, Keeps DEF CacheInv, CacheTypes, D!store, D!Entry
        <3>3. Progress(c)'
            BY <1>0, <2>0, <3>2, Keeps DEF Progress
        <3> QED BY <1>0, <1>2, <2>0, <3>1, <3>3, OnlyReads
    <2> QED BY <2>1, <2>2
<1>4. CASE D!ClaimTakesOver(c)
    <2>0. D!Entry(k) = found /\ d_seen[c] = "yes" /\ found.by # Never
        BY <1>0, <1>1, <1>4 DEF Progress, D!ClaimTakesOver, D!Does
    <2>1. CASE D!Expired(k)
        <3>1. /\ value' = [value EXCEPT ![k] = c] /\ d_at' = [d_at EXCEPT ![c] = "third"]
              /\ d_seen' = [d_seen EXCEPT ![c] = d_seen[c]]
            BY <1>4, <2>1 DEF D!ClaimTakesOver, D!To, CacheInv, CacheTypes
        <3>2. d_at'[c] = "third" /\ value'[k] = c /\ d_seen'[c] = "yes" /\ D!Entry(k)'.until = found.until
            BY <1>0, <1>1, <1>2, <2>0, <3>1, Keeps DEF CacheInv, CacheTypes, D!Entry
        <3>3. ExpiredOnce(c)
            BY <1>1, <2>0, <2>1 DEF D!Expired, ExpiredOnce, D!Atomic!Alive, D!Entry
        <3>4. Progress(c)'
            BY <1>0, <3>2, <3>3, Keeps DEF Progress
        <3> QED BY <1>0, <1>1, <1>2, <3>1, <3>4, UnderTheLock
    <2>2. CASE ~D!Expired(k)
        <3>1. /\ UNCHANGED D!store /\ d_at' = [d_at EXCEPT ![c] = "done"] /\ d_seen' = [d_seen EXCEPT ![c] = "no"]
            BY <1>4, <2>2 DEF D!ClaimTakesOver, D!Answers, D!To, D!store
        <3>2. d_at'[c] = "done" /\ d_seen'[c] = "no" /\ D!Entry(k)' = found
            BY <1>0, <2>0, <3>1, Keeps DEF CacheInv, CacheTypes, D!store, D!Entry
        <3>3. D!Atomic!Alive(found, d_now)
            BY <1>1, <2>0, <2>2 DEF D!Expired, D!Atomic!Alive, D!Entry
        <3>4. D!Atomic!Effect(c, d_now, found, D!Entry(k), d_seen[c])'
            BY <1>0, <3>2, <3>3, Keeps DEF D!Atomic!Effect, D!Atomic!Alive
        <3>5. Progress(c)'
            BY <1>0, <1>1, <3>2, <3>4, Keeps DEF Progress
        <3> QED BY <1>0, <3>1, <3>5, OnlyReads
    <2> QED BY <2>1, <2>2
<1> QED BY <1>3, <1>4

\* The last step of a set and of a claim: the expiry is counted from now.
LEMMA WriteKeeps ==
    ASSUME D!Parameters, CacheInv, NEW c \in Callers, D!WritesExpiry(c)
    PROVE  CacheInv'
<1> DEFINE k == D!Key(c)
           found == before[k]
           until == IF call[c].ttl = Never THEN Never ELSE d_now + call[c].ttl
<1>0. d_at[c] \in Inside /\ d_at[c] = "third" /\ D!Same /\ call[c].op \in {"set", "claim"} /\ "done" \in Inside
    BY DEF D!WritesExpiry, Inside
<1>1. /\ k \in d_Keys /\ d_now \in since[c]..d_now /\ d_seen[c] \in Callers \union {Never, "yes", "no"}
      /\ value[k] = c /\ expires[k] \in Nat \union {Never} /\ d_now \in Nat /\ Progress(c) /\ c # Never
      /\ until \in Nat \union {Never}
    <2>1. call[c].ttl \in Nat \union {Never}
        BY <1>0, Holder, CallType DEF D!Parameters
    <2> QED BY <1>0, <2>1, Holder DEF CacheInv, CacheTypes, Progress, D!Parameters
<1>2. /\ value' = [value EXCEPT ![k] = value[k]] /\ expires' = [expires EXCEPT ![k] = until]
      /\ d_at' = [d_at EXCEPT ![c] = "done"] /\ d_seen' = [d_seen EXCEPT ![c] = d_seen[c]]
    BY DEF D!WritesExpiry, D!To, CacheInv, CacheTypes
<1>3. d_at'[c] = "done" /\ d_seen'[c] = d_seen[c] /\ D!Entry(k)' = [by |-> c, until |-> until]
    BY <1>0, <1>1, <1>2, Keeps DEF CacheInv, CacheTypes, D!Entry
<1>4. \A t \in since[c]..d_now : D!Entry(k)' = D!Atomic!Stored(c, call[c].ttl, d_now) /\ d_now \in t..d_now
    BY <1>1, <1>3, Holder, <1>0 DEF D!Atomic!Stored
<1>5. CASE call[c].op = "set"
    <2>1. d_seen[c] = Never
        BY <1>0, <1>1, <1>5 DEF Progress
    <2>2. D!Atomic!Effect(c, d_now, found, D!Entry(k), d_seen[c])'
        BY <1>0, <1>1, <1>3, <1>4, <1>5, <2>1, Keeps DEF D!Atomic!Effect
    <2>3. Progress(c)'
        BY <1>0, <1>1, <1>3, <2>2, Keeps DEF Progress
    <2> QED BY <1>0, <1>1, <1>2, <2>3, UnderTheLock
<1>6. CASE call[c].op = "claim"
    <2>1. d_seen[c] = "yes" /\ ExpiredOnce(c)
        BY <1>0, <1>1, <1>6 DEF Progress
    <2>2. PICK t \in since[c]..d_now : ~D!Atomic!Alive(found, t)
        BY <2>1 DEF ExpiredOnce
    <2>3. D!Atomic!Effect(c, t, found, D!Entry(k), d_seen[c])'
        BY <1>0, <1>3, <1>4, <1>6, <2>1, <2>2, Keeps DEF D!Atomic!Effect, D!Atomic!Alive
    <2>4. Progress(c)'
        BY <1>0, <1>1, <1>3, <2>2, <2>3, Keeps DEF Progress
    <2> QED BY <1>0, <1>1, <1>2, <2>4, UnderTheLock
<1> QED BY <1>0, <1>5, <1>6

LEMMA DeleteKeeps ==
    ASSUME D!Parameters, CacheInv, NEW c \in Callers, D!Deletes(c) \/ D!DeletesExpiry(c)
    PROVE  CacheInv'
<1> DEFINE k == D!Key(c)
           found == before[k]
<1>0. d_at[c] \in Inside /\ D!Same /\ call[c].op = "delete" /\ "done" \in Inside
    BY DEF D!Deletes, D!DeletesExpiry, D!Does, Inside
<1>1. /\ k \in d_Keys /\ found \in EntryType /\ d_now \in since[c]..d_now /\ d_seen[c] \in Callers \union {Never, "yes", "no"}
      /\ value[k] \in Callers \union {Never} /\ expires[k] \in Nat \union {Never} /\ d_now \in Nat
      /\ Progress(c)
    BY <1>0, Holder DEF CacheInv, CacheTypes
<1>2. CASE D!Deletes(c)
    <2>0. D!Entry(k) = found /\ expires' = expires /\ expires' = [expires EXCEPT ![k] = expires[k]]
        BY <1>1, <1>2 DEF Progress, D!Deletes, D!Does, CacheInv, CacheTypes
    <2>1. CASE value[k] = Never
        <3>1. UNCHANGED D!store /\ d_at' = [d_at EXCEPT ![c] = "done"] /\ d_seen' = [d_seen EXCEPT ![c] = "no"]
            BY <1>2, <2>1 DEF D!Deletes, D!Answers, D!To, D!store
        <3>2. d_at'[c] = "done" /\ d_seen'[c] = "no" /\ D!Entry(k)' = found /\ found.by = Never
            BY <1>0, <1>1, <2>0, <2>1, <3>1, Keeps DEF CacheInv, CacheTypes, D!store, D!Entry
        <3>3. D!Atomic!Effect(c, d_now, found, D!Entry(k), d_seen[c])'
            BY <1>0, <3>2, Keeps DEF D!Atomic!Effect, D!Atomic!YesNo, D!Atomic!Absent
        <3>4. Progress(c)'
            BY <1>0, <1>1, <3>2, <3>3, Keeps DEF Progress
        <3> QED BY <1>0, <3>1, <3>4, OnlyReads
    <2>2. CASE value[k] # Never
        <3>1. /\ value' = [value EXCEPT ![k] = Never] /\ d_at' = [d_at EXCEPT ![c] = "second"]
              /\ d_seen' = [d_seen EXCEPT ![c] = d_seen[c]] /\ "second" \in Inside
            BY <1>2, <2>2 DEF D!Deletes, D!To, CacheInv, CacheTypes, Inside
        <3>2. d_at'[c] = "second" /\ value'[k] = Never /\ found.by # Never /\ D!Entry(k)'.until = found.until
            BY <1>0, <1>1, <2>0, <2>2, <3>1, Keeps DEF CacheInv, CacheTypes, D!Entry
        <3>3. Progress(c)'
            BY <1>0, <3>2, Keeps DEF Progress
        <3> QED BY <1>0, <1>1, <2>0, <3>1, <3>3, UnderTheLock
    <2> QED BY <2>1, <2>2
<1>3. CASE D!DeletesExpiry(c)
    <2>0. value[k] = Never /\ found.by # Never
        BY <1>0, <1>1, <1>3 DEF Progress, D!DeletesExpiry, D!Does
    <2>1. /\ value' = [value EXCEPT ![k] = Never] /\ expires' = [expires EXCEPT ![k] = Never]
          /\ d_at' = [d_at EXCEPT ![c] = "done"] /\ d_seen' = [d_seen EXCEPT ![c] = "yes"]
        BY <1>3, <2>0 DEF D!DeletesExpiry, D!Answers, D!To, CacheInv, CacheTypes
    <2>2. d_at'[c] = "done" /\ d_seen'[c] = "yes" /\ D!Entry(k)' = [by |-> Never, until |-> Never]
        BY <1>0, <1>1, <2>1, Keeps DEF CacheInv, CacheTypes, D!Entry
    <2>3. D!Atomic!Effect(c, d_now, found, D!Entry(k), d_seen[c])'
        BY <1>0, <2>0, <2>2, Keeps DEF D!Atomic!Effect, D!Atomic!YesNo, D!Atomic!Absent
    <2>4. Progress(c)'
        BY <1>0, <1>1, <2>2, <2>3, Keeps DEF Progress
    <2> QED BY <1>0, <2>1, <2>4, UnderTheLock
<1> QED BY <1>2, <1>3

\* Where the store raises: whatever is written so far is half of the operation.
LEMMA RaiseKeeps ==
    ASSUME D!Parameters, CacheInv, NEW c \in Callers, D!Raises(c)
    PROVE  CacheInv'
<1> DEFINE k == D!Key(c)
           found == before[k]
           s == D!AnswerWhenRaised(call[c].op)
           half == [found EXCEPT !.by = IF call[c].op \in {"set", "claim"} THEN c ELSE Never]
<1>0. d_at[c] \in Inside /\ d_at[c] \in {"first", "second", "third"} /\ D!Same /\ "raised" \in Inside
    BY DEF D!Raises, Inside
<1>1. /\ k \in d_Keys /\ found \in EntryType /\ d_now \in since[c]..d_now /\ call[c] \in D!Calls
      /\ value[k] \in Callers \union {Never} /\ expires[k] \in Nat \union {Never} /\ Progress(c)
    BY <1>0, Holder DEF CacheInv, CacheTypes
<1>2. call[c].op \in {"set", "claim", "get", "exists", "delete"}
    BY <1>1, CallType
<1>3. s \in Callers \union {Never, "yes", "no"}
    BY <1>2 DEF D!AnswerWhenRaised
<1>4. PICK v \in {value[k], Never} : /\ value' = [value EXCEPT ![k] = v]
                                     /\ v # value[k] => D!Does(c, "get", "second")
    BY <1>1 DEF D!Raises, CacheInv, CacheTypes
<1>5. /\ expires' = [expires EXCEPT ![k] = expires[k]] /\ d_at' = [d_at EXCEPT ![c] = "raised"]
      /\ d_seen' = [d_seen EXCEPT ![c] = s] /\ v \in Callers \union {Never}
    BY <1>1, <1>4 DEF D!Raises, D!To, CacheInv, CacheTypes
<1>6. d_at'[c] = "raised" /\ d_seen'[c] = s /\ D!Entry(k)' = [by |-> v, until |-> expires[k]]
    BY <1>0, <1>1, <1>3, <1>4, <1>5, Keeps DEF CacheInv, CacheTypes, D!Entry
<1>7. \E t \in since[c]..d_now : D!Atomic!SpoiltEffect(c, t, found, D!Entry(k), d_seen[c])'
    <2>1. CASE D!Entry(k)' = found
        <3>1. \A t \in since[c]..d_now : D!Atomic!SpoiltEffect(c, t, found, D!Entry(k), d_seen[c])'
            BY <1>0, <1>2, <1>6, <2>1, Keeps DEF D!Atomic!SpoiltEffect, D!AnswerWhenRaised
        <3> QED BY <1>1, <3>1
    <2>2. CASE D!Entry(k)' = half /\ call[c].op \in {"set", "delete"}
        <3>1. \A t \in since[c]..d_now : D!Atomic!SpoiltEffect(c, t, found, D!Entry(k), d_seen[c])'
            BY <1>0, <1>6, <2>2, Keeps DEF D!Atomic!SpoiltEffect, D!AnswerWhenRaised
        <3> QED BY <1>1, <3>1
    <2>3. CASE D!Entry(k)' = half /\ call[c].op \in {"get", "claim"} /\ ExpiredOnce(c)
        <3>1. PICK t \in since[c]..d_now : ~D!Atomic!Alive(found, t)
            BY <2>3 DEF ExpiredOnce
        <3>2. D!Atomic!SpoiltEffect(c, t, found, D!Entry(k), d_seen[c])'
            BY <1>0, <1>6, <2>3, <3>1, Keeps DEF D!Atomic!SpoiltEffect, D!AnswerWhenRaised, D!Atomic!Alive
        <3> QED BY <3>2
    <2>4. expires[k] = found.until
        BY <1>0, <1>1 DEF Progress, D!Entry
    <2>5. v = found.by => D!Entry(k)' = found
        BY <1>1, <1>6, <2>4 DEF EntryType
    <2>6. v = (IF call[c].op \in {"set", "claim"} THEN c ELSE Never) => D!Entry(k)' = half
        BY <1>1, <1>6, <2>4 DEF EntryType
    <2>7. CASE d_at[c] = "first"
        BY <1>1, <1>4, <2>1, <2>5, <2>7 DEF Progress, D!Entry, D!Does
    <2>8. CASE d_at[c] = "second"
        BY <1>1, <1>4, <2>1, <2>2, <2>3, <2>5, <2>6, <2>8 DEF Progress, D!Entry, D!Does
    <2>9. CASE d_at[c] = "third"
        BY <1>1, <1>4, <2>1, <2>2, <2>3, <2>5, <2>6, <2>9 DEF Progress, D!Entry, D!Does
    <2> QED BY <1>0, <2>7, <2>8, <2>9
<1>8. Progress(c)'
    BY <1>6, <1>7, Keeps, <1>0 DEF Progress
<1> HIDE DEF s
<1> QED BY <1>0, <1>1, <1>3, <1>4, <1>5, <1>8, UnderTheLock

(* The invariant holds initially, and every step preserves it.             *)

LEMMA CacheInit == ASSUME D!Parameters, D!Init PROVE CacheInv
<1>1. CacheTypes
    BY DEF D!Init, CacheTypes, Places, EntryType
<1>2. OneInside
    <2>1. \A c \in Callers : d_at[c] = "none" /\ lock # c /\ call[c] = Never /\ since[c] = 0 /\ d_now = 0
        BY DEF D!Init, D!Parameters
    <2>2. "none" \notin Inside
        BY DEF Inside
    <2>3. \A c \in Callers : d_at[c] \notin Inside /\ since[c] <= d_now
        <3>1. 0 <= 0
            OBVIOUS
        <3> QED BY <2>1, <2>2, <3>1, Zenon
    <2> QED BY <2>1, <2>3 DEF OneInside
<1>3. Whole
    BY DEF D!Init, Whole, D!Entry
<1> QED BY <1>1, <1>2, <1>3 DEF D!Init, CacheInv, D!Parameters

LEMMA ElapsesKeeps == ASSUME D!Parameters, CacheInv, D!Elapses PROVE CacheInv'
<1>1. d_now \in Nat /\ d_now' = d_now + 1 /\ \A c \in Callers : since[c] \in Nat /\ since[c] <= d_now
    BY DEF D!Elapses, CacheInv, CacheTypes, OneInside
<1>2. CacheTypes' /\ OneInside' /\ Whole'
    BY <1>1 DEF D!Elapses, D!store, CacheInv, CacheTypes, OneInside, Whole, D!Entry, D!Key
<1>3. ASSUME NEW c \in Callers, lock' = c PROVE Progress(c)'
    <2>0. /\ UNCHANGED <<value, expires, d_at, d_seen, call, since, before>> /\ Progress(c) /\ D!Key(c)' = D!Key(c)
          /\ D!Entry(D!Key(c))' = D!Entry(D!Key(c))
        BY <1>3 DEF D!Elapses, D!store, CacheInv, D!Key, D!Entry
    <2>1. \A t \in since[c]..d_now : t \in since'[c]..d_now' /\ \A u \in t..d_now : u \in t..d_now'
        BY <1>1, <2>0
    <2>2. (ExpiredOnce(c) => ExpiredOnce(c)') /\ (AliveOnce(c) => AliveOnce(c)')
        BY <2>0, <2>1 DEF ExpiredOnce, AliveOnce, D!Atomic!Alive
    <2>3. ASSUME NEW t \in since[c]..d_now, D!Atomic!Effect(c, t, before[D!Key(c)], D!Entry(D!Key(c)), d_seen[c])
          PROVE  D!Atomic!Effect(c, t, before[D!Key(c)], D!Entry(D!Key(c)), d_seen[c])'
        <3>1. d_at[c] \in Inside /\ call[c] \in D!Calls
            BY <1>3, Holder DEF D!Elapses, CacheInv, OneInside
        <3>2. call[c].op \in {"set", "claim", "get", "exists", "delete"}
            BY <3>1, CallType
        <3> QED BY <2>0, <2>1, <2>3, <3>2 DEF D!Atomic!Effect, D!Atomic!Alive, D!Atomic!YesNo, D!Atomic!Absent, D!Atomic!Stored
    <2>4. ASSUME NEW t \in since[c]..d_now, D!Atomic!SpoiltEffect(c, t, before[D!Key(c)], D!Entry(D!Key(c)), d_seen[c])
          PROVE  D!Atomic!SpoiltEffect(c, t, before[D!Key(c)], D!Entry(D!Key(c)), d_seen[c])'
        BY <2>0, <2>4 DEF D!Atomic!SpoiltEffect, D!Atomic!Alive
    <2> QED BY <2>0, <2>1, <2>2, <2>3, <2>4 DEF Progress
<1> QED BY <1>2, <1>3 DEF CacheInv

LEMMA AsksKeeps == ASSUME D!Parameters, CacheInv, NEW c \in Callers, NEW what \in D!Calls, D!Asks(c, what) PROVE CacheInv'
<1>1. /\ call' = [call EXCEPT ![c] = what] /\ since' = [since EXCEPT ![c] = d_now] /\ d_at' = [d_at EXCEPT ![c] = "lock"]
      /\ UNCHANGED <<d_now, value, expires, lock, d_seen, answer, before>> /\ call[c] = Never
    BY DEF D!Asks, D!store
<1>2. CacheTypes'
    BY <1>1 DEF CacheInv, CacheTypes, Places
<1>3. d_at[c] = "none" /\ what # Never /\ lock # c
    BY <1>1 DEF CacheInv, OneInside, Inside, D!Parameters
<1>4. \A d \in Callers \ {c} : d_at'[d] = d_at[d] /\ call'[d] = call[d] /\ since'[d] = since[d] /\ D!Key(d)' = D!Key(d)
    BY <1>1 DEF CacheInv, CacheTypes, D!Key
<1>5. d_at'[c] = "lock" /\ call'[c] = what /\ since'[c] = d_now
    BY <1>1 DEF CacheInv, CacheTypes
<1>6. OneInside'
    BY <1>1, <1>3, <1>4, <1>5 DEF CacheInv, OneInside, Inside, CacheTypes
<1>7. Whole'
    BY <1>1, <1>3, <1>4 DEF CacheInv, Whole, D!Entry, CacheTypes
<1>8. ASSUME NEW d \in Callers, lock' = d PROVE Progress(d)'
    <2>1. d # c /\ Progress(d)
        BY <1>1, <1>3, <1>8 DEF CacheInv
    <2>2. /\ d_now' = d_now /\ before' = before /\ value' = value /\ expires' = expires
          /\ d_at'[d] = d_at[d] /\ call'[d] = call[d] /\ since'[d] = since[d] /\ d_seen'[d] = d_seen[d]
          /\ D!Key(d)' = D!Key(d)
        BY <1>1, <1>4, <2>1
    <2>3. /\ ExpiredOnce(d)' <=> ExpiredOnce(d)
          /\ AliveOnce(d)' <=> AliveOnce(d)
          /\ D!Entry(D!Key(d))' = D!Entry(D!Key(d))
        BY <2>2 DEF ExpiredOnce, AliveOnce, D!Atomic!Alive, D!Entry
    <2>4. call[d].op \in {"set", "claim", "get", "exists", "delete"}
        <3>1. d_at[d] \in Inside
            BY <1>1, <1>8 DEF CacheInv, OneInside
        <3> QED BY <3>1, Holder, CallType
    <2>5. ASSUME NEW t \in since[d]..d_now, D!Atomic!Effect(d, t, before[D!Key(d)], D!Entry(D!Key(d)), d_seen[d])
          PROVE  D!Atomic!Effect(d, t, before[D!Key(d)], D!Entry(D!Key(d)), d_seen[d])'
        <3> DEFINE found == before[D!Key(d)]
                   left == D!Entry(D!Key(d))
        <3>1. found' = found /\ left' = left /\ call'[d] = call[d] /\ d_seen'[d] = d_seen[d] /\ d_now' = d_now
            BY <2>2, <2>3
        <3>2. D!Atomic!Effect(d, t, found, left, d_seen[d])
            BY <2>5
        <3> HIDE DEF found, left
        <3>3. D!Atomic!Effect(d, t, found, left, d_seen[d])'
            BY <2>4, <3>1, <3>2 DEF D!Atomic!Effect, D!Atomic!Alive, D!Atomic!YesNo, D!Atomic!Absent, D!Atomic!Stored
        <3> QED BY <3>3 DEF found, left
    <2>6. ASSUME NEW t \in since[d]..d_now, D!Atomic!SpoiltEffect(d, t, before[D!Key(d)], D!Entry(D!Key(d)), d_seen[d])
          PROVE  D!Atomic!SpoiltEffect(d, t, before[D!Key(d)], D!Entry(D!Key(d)), d_seen[d])'
        <3> DEFINE found == before[D!Key(d)]
                   left == D!Entry(D!Key(d))
        <3>1. found' = found /\ left' = left /\ call'[d] = call[d] /\ d_seen'[d] = d_seen[d]
            BY <2>2, <2>3
        <3>2. D!Atomic!SpoiltEffect(d, t, found, left, d_seen[d])
            BY <2>6
        <3> HIDE DEF found, left
        <3>3. D!Atomic!SpoiltEffect(d, t, found, left, d_seen[d])'
            BY <3>1, <3>2 DEF D!Atomic!SpoiltEffect, D!Atomic!Alive
        <3> QED BY <3>3 DEF found, left
    <2> QED BY <2>1, <2>2, <2>3, <2>5, <2>6 DEF Progress
<1> QED BY <1>2, <1>6, <1>7, <1>8 DEF CacheInv

LEMMA LocksKeeps == ASSUME D!Parameters, CacheInv, NEW c \in Callers, D!Locks(c) PROVE CacheInv'
<1>1. /\ d_at[c] = "lock" /\ lock = Never /\ lock' = c /\ c # Never
      /\ before' = [k \in d_Keys |-> D!Entry(k)] /\ d_at' = [d_at EXCEPT ![c] = "first"]
      /\ UNCHANGED <<d_now, value, expires, d_seen, call, since, answer>>
    BY DEF D!Locks, D!store, D!Parameters
<1>2. CacheTypes'
    BY <1>1 DEF CacheInv, CacheTypes, D!Entry, EntryType, Places
<1>3. \A d \in Callers : d_at'[d] = IF d = c THEN "first" ELSE d_at[d]
    BY <1>1 DEF CacheInv, CacheTypes
<1>4. OneInside'
    <2>1. \A d \in Callers : d_at[d] \notin Inside
        BY <1>1 DEF CacheInv, OneInside, D!Parameters
    <2>2. \A d \in Callers : d_at'[d] \in Inside <=> lock' = d
        BY <1>1, <1>3, <2>1 DEF Inside
    <2>3. \A d \in Callers : (d_at'[d] = "none" <=> call'[d] = Never) /\ since'[d] <= d_now'
        BY <1>1, <1>3 DEF CacheInv, OneInside
    <2> QED BY <2>2, <2>3 DEF OneInside
<1>5. call[c] # Never /\ call[c] \in D!Calls
    BY <1>1 DEF CacheInv, OneInside, CacheTypes
<1>6. D!Key(c) \in d_Keys /\ D!Key(c)' = D!Key(c)
    BY <1>1, <1>5, CallType DEF D!Key
<1>7. Whole' /\ Progress(c)'
    BY <1>1, <1>3, <1>6 DEF CacheInv, Whole, D!Entry, Progress
<1> QED BY <1>1, <1>2, <1>4, <1>7 DEF CacheInv

LEMMA ReturnsKeeps == ASSUME D!Parameters, CacheInv, NEW c \in Callers, D!Returns(c) PROVE CacheInv'
<1>1. /\ d_at[c] \in {"done", "raised"} /\ lock' = Never /\ answer' = [answer EXCEPT ![c] = d_seen[c]]
      /\ call' = [call EXCEPT ![c] = Never] /\ d_at' = [d_at EXCEPT ![c] = "none"] /\ d_seen' = [d_seen EXCEPT ![c] = Never]
      /\ UNCHANGED <<d_now, value, expires, since, before>>
    BY DEF D!Returns, D!store
<1>2. d_at[c] \in Inside
    BY <1>1 DEF Inside
<1>3. CacheTypes'
    BY <1>1 DEF CacheInv, CacheTypes, Places
<1>4. \A d \in Callers : d_at'[d] = (IF d = c THEN "none" ELSE d_at[d]) /\ call'[d] = (IF d = c THEN Never ELSE call[d])
    BY <1>1 DEF CacheInv, CacheTypes
<1>5. \A d \in Callers : d # c => d_at[d] \notin Inside
    BY <1>2 DEF CacheInv, OneInside
<1>6. OneInside'
    BY <1>1, <1>4, <1>5 DEF CacheInv, OneInside, Inside, D!Parameters
<1>7. Whole'
    BY <1>1 DEF Whole
<1> QED BY <1>1, <1>3, <1>6, <1>7 DEF CacheInv, D!Parameters

LEMMA CacheNext == ASSUME D!Parameters, CacheInv, [D!Next]_(D!vars) PROVE CacheInv'
<1>1. ASSUME NEW c \in Callers, D!Step(c) PROVE CacheInv'
    BY <1>1, GetKeeps, ExistsKeeps, SetKeeps, ClaimKeeps, WriteKeeps, DeleteKeeps, RaiseKeeps DEF D!Step
<1>2. CASE UNCHANGED D!vars
    <2>1. UNCHANGED <<d_now, value, expires, lock, d_at, d_seen, call, since, answer, before>>
        BY <1>2 DEF D!vars, D!store
    <2>2. CacheTypes' /\ OneInside' /\ Whole'
        BY <2>1 DEF CacheInv, CacheTypes, OneInside, Whole, D!Entry, D!Key
    <2>3. ASSUME NEW c \in Callers, lock' = c PROVE Progress(c)'
        <3>1. /\ Progress(c) /\ D!Key(c)' = D!Key(c) /\ D!Entry(D!Key(c))' = D!Entry(D!Key(c))
              /\ ExpiredOnce(c)' <=> ExpiredOnce(c)
              /\ AliveOnce(c)' <=> AliveOnce(c)
            BY <2>1, <2>3 DEF CacheInv, D!Key, D!Entry, ExpiredOnce, AliveOnce, D!Atomic!Alive
        <3>2. call[c].op \in {"set", "claim", "get", "exists", "delete"}
            <4>1. d_at[c] \in Inside
                BY <2>1, <2>3 DEF CacheInv, OneInside
            <4> QED BY <4>1, Holder, CallType
        <3>3. ASSUME NEW t \in since[c]..d_now, D!Atomic!Effect(c, t, before[D!Key(c)], D!Entry(D!Key(c)), d_seen[c])
              PROVE  D!Atomic!Effect(c, t, before[D!Key(c)], D!Entry(D!Key(c)), d_seen[c])'
            BY <2>1, <3>1, <3>2, <3>3 DEF D!Atomic!Effect, D!Atomic!Alive, D!Atomic!YesNo, D!Atomic!Absent, D!Atomic!Stored
        <3>4. ASSUME NEW t \in since[c]..d_now, D!Atomic!SpoiltEffect(c, t, before[D!Key(c)], D!Entry(D!Key(c)), d_seen[c])
              PROVE  D!Atomic!SpoiltEffect(c, t, before[D!Key(c)], D!Entry(D!Key(c)), d_seen[c])'
            BY <2>1, <3>1, <3>4 DEF D!Atomic!SpoiltEffect, D!Atomic!Alive
        <3> QED BY <2>1, <3>1, <3>3, <3>4 DEF Progress
    <2> QED BY <2>1, <2>2, <2>3 DEF CacheInv
<1> QED BY <1>1, <1>2, ElapsesKeeps, AsksKeeps, LocksKeeps, ReturnsKeeps DEF D!Next

(* The refinement.                                                         *)

Entries == IF lock = Never THEN [k \in d_Keys |-> D!Entry(k)] ELSE before

Spoilt == {c \in Callers : d_at[c] = "raised"}

\* Every step is one of the atomic cache or none of it: the operation takes effect when it returns.
LEMMA AtomicStep == ASSUME D!Parameters, CacheInv, [D!Next]_(D!vars) PROVE [D!Atomic!Next]_(D!Atomic!vars)
<1>1. ASSUME NEW c \in Callers, D!Step(c), ~D!Raises(c) PROVE UNCHANGED <<d_now, Entries, call, since, answer, calls, Spoilt>>
    <2>1. d_at[c] \in {"first", "second", "third"} /\ D!Same
        BY <1>1 DEF D!Step, D!Does, D!GetLooksAtExpiry, D!GetDeletes, D!GetReads, D!ExistsLooksAtExpiry, D!ExistsReads,
            D!SetsValue, D!ClaimAdds, D!ClaimTakesOver, D!WritesExpiry, D!Deletes, D!DeletesExpiry
    <2>2. \E p \in {"second", "third", "done"} : d_at' = [d_at EXCEPT ![c] = p]
        BY <1>1 DEF D!Step, D!To, D!Answers, D!GetLooksAtExpiry, D!GetDeletes, D!GetReads, D!ExistsLooksAtExpiry, D!ExistsReads,
            D!SetsValue, D!ClaimAdds, D!ClaimTakesOver, D!WritesExpiry, D!Deletes, D!DeletesExpiry
    <2>3. Spoilt' = Spoilt
        BY <2>1, <2>2 DEF Spoilt, CacheInv, CacheTypes
    <2>4. d_at[c] \in Inside
        BY <2>1 DEF Inside
    <2> QED BY <2>1, <2>3, <2>4, Holder DEF D!Same, Entries
<1>2. ASSUME NEW c \in Callers, D!Raises(c) PROVE D!Atomic!Next
    <2>1. /\ d_at[c] \in {"first", "second", "third"} /\ D!Same /\ call[c] # Never
          /\ d_at' = [d_at EXCEPT ![c] = "raised"] /\ d_at[c] \in Inside
        BY <1>2 DEF D!Raises, D!To, Inside
    <2>2. c \notin Spoilt /\ Spoilt' = Spoilt \union {c}
        BY <2>1 DEF Spoilt, CacheInv, CacheTypes
    <2>3. UNCHANGED <<d_now, Entries, call, since, answer, calls>>
        BY <2>1, Holder DEF D!Same, Entries
    <2>4. D!Atomic!Fails(c)
        BY <2>1, <2>2, <2>3 DEF D!Atomic!Fails, Entries, Spoilt
    <2> QED BY <2>4 DEF D!Atomic!Next
<1>3. ASSUME NEW c \in Callers, D!Locks(c) PROVE UNCHANGED <<d_now, Entries, call, since, answer, calls, Spoilt>>
    <2>1. Spoilt' = Spoilt
        BY <1>3 DEF D!Locks, Spoilt, CacheInv, CacheTypes
    <2> QED BY <1>3, <2>1 DEF D!Locks, Entries, D!store, D!Entry, D!Parameters
<1>4. CASE D!Elapses
    BY <1>4 DEF D!Elapses, D!store, D!Entry, D!Atomic!Next, D!Atomic!Elapses
<1>5. ASSUME NEW c \in Callers, NEW what \in D!Calls, D!Asks(c, what) PROVE D!Atomic!Next
    <2>1. D!Atomic!Calls = D!Calls
        BY DEF D!Calls, D!Atomic!Calls
    <2>2. Spoilt' = Spoilt
        <3>1. d_at[c] = "none" /\ d_at' = [d_at EXCEPT ![c] = "lock"]
            BY <1>5 DEF D!Asks, CacheInv, OneInside
        <3> QED BY <3>1 DEF Spoilt, CacheInv, CacheTypes
    <2>3. D!Atomic!Asks(c, what)
        BY <1>5, <2>2 DEF D!Asks, D!store, D!Entry, D!Atomic!Asks, Spoilt
    <2> QED BY <2>1, <2>3 DEF D!Atomic!Next
<1>6. ASSUME NEW c \in Callers, D!Returns(c) PROVE D!Atomic!Next
    <2> DEFINE k == D!Key(c)
    <2>0. d_at[c] \in {"done", "raised"} /\ d_at[c] \in Inside
        BY <1>6 DEF D!Returns, Inside
    <2>1. /\ lock = c /\ lock # Never /\ lock' = Never /\ call[c] # Never /\ k \in d_Keys /\ k = call[c].key
          /\ answer' = [answer EXCEPT ![c] = d_seen[c]] /\ call' = [call EXCEPT ![c] = Never]
          /\ d_at' = [d_at EXCEPT ![c] = "none"]
          /\ UNCHANGED <<d_now, value, expires, since, calls>>
        BY <1>6, <2>0, Holder DEF D!Returns, D!store, D!Key
    <2>2. Entries = before /\ Entries' = [q \in d_Keys |-> D!Entry(q)] /\ \A q \in d_Keys : D!Entry(q)' = D!Entry(q)
        BY <2>1 DEF Entries, D!Entry
    <2>3. /\ Spoilt' = Spoilt \ {c}
          /\ d_at[c] = "raised" <=> c \in Spoilt
        BY <2>1 DEF Spoilt, CacheInv, CacheTypes
    <2>4. PICK t \in since[c]..d_now :
             IF c \in Spoilt THEN D!Atomic!SpoiltEffect(c, t, before[k], D!Entry(k), d_seen[c])
             ELSE D!Atomic!Effect(c, t, before[k], D!Entry(k), d_seen[c])
        BY <2>0, <2>3, Holder DEF Progress
    <2>5. answer'[c] = d_seen[c] /\ \A d \in Callers : d # c => answer'[d] = answer[d]
        BY <2>1 DEF CacheInv, CacheTypes
    <2>6. IF c \in Spoilt THEN D!Atomic!SpoiltEffect(c, t, Entries[k], Entries'[k], answer'[c])
          ELSE D!Atomic!Effect(c, t, Entries[k], Entries'[k], answer'[c])
        BY <2>1, <2>2, <2>4, <2>5
    <2>7. \A q \in d_Keys : q # k => Entries'[q] = Entries[q]
        BY <2>1, <2>2 DEF CacheInv, Whole
    <2>8. Entries' \in [d_Keys -> D!Atomic!Entries]
        BY <2>2 DEF CacheInv, CacheTypes, D!Entry, D!Atomic!Entries
    <2>9. D!Atomic!Returns(c)
        BY <2>1, <2>3, <2>5, <2>6, <2>7, <2>8 DEF D!Atomic!Returns, Entries, Spoilt
    <2> QED BY <2>9 DEF D!Atomic!Next
<1>7. CASE UNCHANGED D!vars
    BY <1>7 DEF D!vars, D!store, Entries, D!Entry, D!Atomic!vars
<1> QED BY <1>1, <1>2, <1>3, <1>4, <1>5, <1>6, <1>7 DEF D!Next, D!Atomic!vars, Entries, Spoilt

\* The disk cache implements the atomic one: whatever a thread leaves half-done
\* in the store, no other sees, and no claim is won while an entry is alive.
LEMMA AtomicToCallers == ASSUME D!Parameters PROVE D!Spec => D!ImplementsAtomicCache
<1>1. D!Init => CacheInv
    BY CacheInit
<1>2. CacheInv /\ [D!Next]_(D!vars) => CacheInv'
    BY CacheNext
<1>3. D!Init => D!Atomic!Init
    BY DEF D!Init, D!Atomic!Init, D!Entry, D!Atomic!Absent
<1>4. CacheInv /\ [D!Next]_(D!vars) => [D!Atomic!Next]_(D!Atomic!vars)
    BY AtomicStep
<1> QED BY <1>1, <1>2, <1>3, <1>4, PTL DEF D!Spec, D!ImplementsAtomicCache, D!Atomic!Spec

\* A behaviour of the process is, for the cache, one of the part.
LEMMA CachePart == ProcessSpec => D!Spec
<1>1. ProcessInit => D!Init
    BY DEF ProcessInit
<1>2. [ProcessNext]_process_vars => [D!Next]_(D!vars)
    <2> SUFFICES ASSUME ProcessNext \/ UNCHANGED process_vars PROVE D!Next \/ UNCHANGED D!vars
        OBVIOUS
    <2>1. CASE Caching
        BY <2>1 DEF Caching, D!Next, D!Step
    <2>2. CASE UNCHANGED d_vars
        BY <2>2 DEF d_vars, D!vars, D!store
    <2>3. ProcessNext => Caching \/ UNCHANGED d_vars
        BY DEF ProcessNext, Lives, Ticking, Caching, Keying, FanningOut, Provisions, Assembles, Processes, Settles, Joins, About, Only
    <2>4. UNCHANGED process_vars => UNCHANGED d_vars
        BY DEF process_vars
    <2> QED BY <2>1, <2>2, <2>3, <2>4
<1> QED BY <1>1, <1>2, PTL DEF ProcessSpec, D!Spec

\* A thread of the process finds a key and its expiry as one entry.
THEOREM CacheIsAtomic == ProcessSpec => ImplementsAtomicCache
<1>1. D!Spec => D!ImplementsAtomicCache
    BY AtomicToCallers, CacheParameters
<1> QED BY <1>1, CachePart, PTL DEF ImplementsAtomicCache

-----------------------------------------------------------------------------
(* SessionKeys: the retry after a refusal is made with a key that was not   *)
(* replaced before it, for any number of jobs and of keys.                  *)

\* What a retry knows: the key in force when it was refused, and one that the
\* service issued no earlier, or none.
Retrying ==
    \A j \in Jobs : attempt[j] = 2 =>
        /\ refusal[j] \in 0..issued
        /\ source # "env" /\ key[j] # NoKey => key[j] \in K!Keys /\ key[j] >= refusal[j]

KeysInv ==
    /\ K!TypeOK
    /\ \A j \in Jobs : k_at[j] = "new" => attempt[j] = 1
    /\ Retrying

LEMMA KeysInit == K!Parameters /\ K!Init => KeysInv
<1> SUFFICES ASSUME K!Parameters, K!Init PROVE KeysInv
    OBVIOUS
<1>1. K!TypeOK
    BY DEF K!Parameters, K!Init, K!TypeOK, K!Keys, K!Places
<1> QED BY <1>1 DEF K!Init, KeysInv, Retrying

\* A step of a job leaves the others' keys, attempts and places alone.
LEMMA KeysNext == K!Parameters /\ KeysInv /\ [K!Next]_(K!vars) => KeysInv'
<1> SUFFICES ASSUME K!Parameters, KeysInv, [K!Next]_(K!vars) PROVE KeysInv'
    OBVIOUS
<1>0. /\ K!TypeOK /\ Retrying /\ \A j \in Jobs : k_at[j] = "new" => attempt[j] = 1
      /\ MaxKeys \in Nat \ {0} /\ k_MaxFaults \in Nat /\ NoKey \notin Nat
      /\ issued \in 0..MaxKeys - 1 /\ K!Keys = 0..MaxKeys - 1 /\ 0 \in K!Keys /\ K!Keys \subseteq Nat
      /\ cached \in K!Keys \union {NoKey}
      /\ key \in [Jobs -> K!Keys \union {NoKey}] /\ refusal \in [Jobs -> K!Keys \union {NoKey}]
      /\ k_at \in [Jobs -> K!Places] /\ attempt \in [Jobs -> 1..3]
    BY DEF KeysInv, K!Parameters, K!TypeOK, K!Keys
<1>1. CASE UNCHANGED K!vars
    BY <1>0, <1>1 DEF K!vars, KeysInv, K!TypeOK, Retrying, K!Keys
<1>2. CASE K!Rotates \/ K!Lapses
    <2>1. /\ UNCHANGED <<source, k_at, attempt, key, refusal>>
          /\ issued' \in 0..MaxKeys - 1 /\ issued <= issued' /\ cached' \in K!Keys \union {NoKey}
          /\ k_faults' \in 0..k_MaxFaults
        BY <1>0, <1>2 DEF K!Rotates, K!Lapses, K!Fails, K!TypeOK
    <2>2. K!TypeOK'
        BY <1>0, <2>1 DEF K!TypeOK, K!Keys
    <2>3. Retrying'
        BY <1>0, <2>1 DEF Retrying, K!Keys
    <2> QED BY <1>0, <2>1, <2>2, <2>3 DEF KeysInv
<1>3. ASSUME NEW j \in Jobs,
             \/ K!Begins(j) \/ K!Serves(j) \/ K!Stores(j) \/ K!LapsesInHand(j) \/ K!Succeeds(j) \/ K!Refused(j)
             \/ K!GivesUp(j) \/ K!FetchFails(j) \/ K!ClaimConflict(j) \/ K!RunFails(j) \/ K!TimesOut(j)
      PROVE  KeysInv'
    <2>1. UNCHANGED <<source, issued>> /\ k_faults' \in 0..k_MaxFaults
        <3>1. k_faults' = k_faults \/ (k_faults < k_MaxFaults /\ k_faults' = k_faults + 1)
            BY <1>3 DEF K!Begins, K!Serves, K!Stores, K!LapsesInHand, K!Succeeds, K!Refused, K!GivesUp,
               K!FetchFails, K!ClaimConflict, K!RunFails, K!TimesOut, K!Works, K!Ends, K!Fails
        <3>2. k_faults' \in 0..k_MaxFaults
            BY <1>0, <3>1 DEF K!TypeOK
        <3> QED BY <1>3, <3>2 DEF K!Begins, K!Serves, K!Stores, K!LapsesInHand, K!Succeeds, K!Refused, K!GivesUp,
               K!FetchFails, K!ClaimConflict, K!RunFails, K!TimesOut, K!Works, K!Ends
    <2>2. PICK goal \in K!Places \ {"new"} : k_at' = [k_at EXCEPT ![j] = goal]
        BY <1>3 DEF K!Begins, K!Serves, K!Stores, K!LapsesInHand, K!Succeeds, K!Refused, K!GivesUp,
           K!FetchFails, K!ClaimConflict, K!RunFails, K!TimesOut, K!Works, K!Ends, K!Gets, K!Goes, K!Places
    \* Where the key and the attempt come from.
    <2>3. \/ UNCHANGED <<attempt, key, refusal>>
          \/ k_at[j] = "new" /\ UNCHANGED <<attempt, refusal>>
             /\ \E k \in K!Keys \union {NoKey} : key' = [key EXCEPT ![j] = k]
          \/ key' = [key EXCEPT ![j] = issued] /\ UNCHANGED <<attempt, refusal>>
          \/ /\ attempt' = [attempt EXCEPT ![j] = 2] /\ refusal' = [refusal EXCEPT ![j] = issued]
             /\ \E k \in K!Keys \union {NoKey} : key' = [key EXCEPT ![j] = k] /\ (source # "env" => k = NoKey)
          \/ /\ attempt' = [attempt EXCEPT ![j] = 3] /\ UNCHANGED refusal
             /\ \E k \in K!Keys \union {NoKey} : key' = [key EXCEPT ![j] = k]
        <3>1. CASE K!Begins(j)
            BY <1>0, <3>1 DEF K!Begins, K!Gets
        <3>2. CASE K!Serves(j)
            BY <3>2 DEF K!Serves
        <3>3. CASE K!Refused(j)
            BY <1>0, <3>3 DEF K!Refused, K!Gets, K!Invalidated
        <3>4. CASE K!GivesUp(j)
            <4>1. key = [key EXCEPT ![j] = key[j]] /\ key[j] \in K!Keys \union {NoKey}
                BY <1>0
            <4> QED BY <1>0, <3>4, <4>1 DEF K!GivesUp, K!Gets
        <3>5. CASE K!Stores(j) \/ K!LapsesInHand(j) \/ K!Succeeds(j) \/ K!FetchFails(j) \/ K!ClaimConflict(j)
                   \/ K!RunFails(j) \/ K!TimesOut(j)
            BY <3>5 DEF K!Stores, K!LapsesInHand, K!Succeeds, K!FetchFails, K!ClaimConflict, K!RunFails, K!TimesOut,
               K!Ends
        <3> QED BY <1>3, <3>1, <3>2, <3>3, <3>4, <3>5
    <2>4. cached' \in K!Keys \union {NoKey}
        <3>1. cached' \in {cached, NoKey, 0, key[j]}
            BY <1>3 DEF K!Begins, K!Serves, K!Stores, K!LapsesInHand, K!Succeeds, K!Refused, K!GivesUp,
               K!FetchFails, K!ClaimConflict, K!RunFails, K!TimesOut, K!Ends, K!Gets, K!Invalidated
        <3> QED BY <1>0, <3>1
    <2>5. /\ attempt' \in [Jobs -> 1..3] /\ key' \in [Jobs -> K!Keys \union {NoKey}]
          /\ refusal' \in [Jobs -> K!Keys \union {NoKey}]
        BY <1>0, <2>3
    <2>6. K!TypeOK'
        BY <1>0, <2>1, <2>2, <2>4, <2>5 DEF K!TypeOK, K!Keys
    <2>7. \A i \in Jobs : k_at'[i] = "new" => attempt'[i] = 1
        <3>1. \A i \in Jobs \ {j} : k_at'[i] = k_at[i] /\ attempt'[i] = attempt[i]
            BY <1>0, <2>2, <2>3
        <3> QED BY <1>0, <2>2, <3>1
    <2>8. Retrying'
        <3>1. \A i \in Jobs \ {j} : attempt'[i] = attempt[i] /\ key'[i] = key[i] /\ refusal'[i] = refusal[i]
            BY <1>0, <2>3
        <3>2. attempt'[j] = 2 =>
                 /\ refusal'[j] \in 0..issued
                 /\ source # "env" /\ key'[j] # NoKey => key'[j] \in K!Keys /\ key'[j] >= refusal'[j]
            BY <1>0, <2>3 DEF Retrying
        <3> QED BY <1>0, <2>1, <3>1, <3>2 DEF Retrying, K!Keys
    <2> QED BY <2>6, <2>7, <2>8 DEF KeysInv
<1> QED BY <1>1, <1>2, <1>3 DEF K!Next

\* The one retry after a refusal is not made with a key older than the one in
\* force at the refusal, whatever the other jobs cached meanwhile.
LEMMA NewerKey == ASSUME K!Parameters PROVE K!Spec => []K!RetriesWithNewKey
<1>1. K!Init => KeysInv
    BY KeysInit
<1>2. KeysInv /\ [K!Next]_(K!vars) => KeysInv'
    BY KeysNext
<1>3. KeysInv => K!RetriesWithNewKey
    BY DEF KeysInv, Retrying, K!RetriesWithNewKey
<1> QED BY <1>1, <1>2, <1>3, PTL DEF K!Spec

\* A behaviour of the process is, for the key of a session, one of the part.
LEMMA KeysPart == ProcessSpec => K!Spec
<1>1. ProcessInit => K!Init
    BY DEF ProcessInit
<1>2. [ProcessNext]_process_vars => [K!Next]_(K!vars)
    <2> SUFFICES ASSUME ProcessNext \/ UNCHANGED process_vars PROVE K!Next \/ UNCHANGED K!vars
        OBVIOUS
    <2>1. CASE Keying
        BY <2>1 DEF Keying, K!Next
    <2>2. CASE UNCHANGED k_vars
        BY <2>2 DEF k_vars, K!vars
    <2>3. ProcessNext => Keying \/ UNCHANGED k_vars
        BY DEF ProcessNext, Lives, Ticking, Caching, Keying, FanningOut, Provisions, Assembles, Processes, Settles, Joins, About, Only
    <2>4. UNCHANGED process_vars => UNCHANGED k_vars
        BY DEF process_vars
    <2> QED BY <2>1, <2>2, <2>3, <2>4
<1> QED BY <1>1, <1>2, PTL DEF ProcessSpec, K!Spec

\* A retry is made with a key that was not replaced before it.
THEOREM FreshKeyOnRetry == ProcessSpec => []RetriesWithNewKey
<1>1. K!Spec => []K!RetriesWithNewKey
    BY NewerKey, KeysParameters
<1> QED BY <1>1, KeysPart, PTL DEF RetriesWithNewKey

-----------------------------------------------------------------------------
(* Settings: whatever the files say, an agent reads its own values or the   *)
(* process's.                                                               *)

\* Paths, by their keys.
LEMMA UnderKeys ==
    ASSUME NEW p \in Seq(STRING), NEW q \in Seq(STRING)
    PROVE  S!Under(p, q) <=> Len(p) <= Len(q) /\ \A i \in 1..Len(p) : q[i] = p[i]
<1>1. ASSUME Len(p) <= Len(q), \A i \in 1..Len(p) : q[i] = p[i] PROVE SubSeq(q, 1, Len(p)) = p
    <2>1. Len(p) \in Nat /\ Len(q) \in Nat /\ DOMAIN p = 1..Len(p)
        OBVIOUS
    <2>2. SubSeq(q, 1, Len(p)) = [i \in 1..Len(p) |-> q[i]]
        BY <2>1, <1>1
    <2>3. p = [i \in 1..Len(p) |-> p[i]]
        BY <2>1
    <2> QED BY <2>2, <2>3, <1>1
<1>2. ASSUME Len(p) <= Len(q), SubSeq(q, 1, Len(p)) = p PROVE \A i \in 1..Len(p) : q[i] = p[i]
    BY <1>2
<1> QED BY <1>1, <1>2 DEF S!Under

LEMMA OfOne == ASSUME NEW U, NEW a \in U PROVE <<a>> \in Seq(U)
OBVIOUS

\* Under one agent, paths are as its keys are.
LEMMA UnderAgent ==
    ASSUME NEW a \in STRING, NEW b \in STRING, NEW p \in Seq(STRING), NEW q \in Seq(STRING)
    PROVE  /\ S!Under(<<a>> \o p, <<b>> \o q) <=> a = b /\ S!Under(p, q)
           /\ <<a>> \o p = <<b>> \o q <=> a = b /\ p = q
           /\ <<a>> \o p \in Seq(STRING) \ {<<>>} /\ Len(<<a>> \o p) = Len(p) + 1
           /\ (<<a>> \o p)[1] = a /\ \A i \in 1..Len(p) : (<<a>> \o p)[i + 1] = p[i]
<1> DEFINE deep == <<a>> \o p
           other == <<b>> \o q
<1>1. /\ deep \in Seq(STRING) /\ other \in Seq(STRING) /\ Len(deep) = Len(p) + 1 /\ Len(other) = Len(q) + 1
      /\ deep[1] = a /\ other[1] = b
      /\ \A i \in 1..Len(p) : deep[i + 1] = p[i]
      /\ \A i \in 1..Len(q) : other[i + 1] = q[i]
    <2>0. <<a>> \in Seq(STRING) /\ <<b>> \in Seq(STRING)
        BY OfOne
    <2>1. deep \in Seq(STRING) /\ other \in Seq(STRING)
        BY <2>0, ConcatProperties
    <2>2. Len(<<a>>) = 1 /\ Len(<<b>>) = 1 /\ <<a>>[1] = a /\ <<b>>[1] = b
        OBVIOUS
    <2>3. Len(deep) = Len(p) + 1 /\ Len(other) = Len(q) + 1
        BY <2>2
    <2>4. deep[1] = a /\ \A i \in 1..Len(p) : deep[i + 1] = p[i]
        BY <2>2
    <2>5. other[1] = b /\ \A i \in 1..Len(q) : other[i + 1] = q[i]
        BY <2>2
    <2> QED BY <2>1, <2>3, <2>4, <2>5
<1>2. deep # <<>>
    BY <1>1
<1> HIDE DEF deep, other
<1>3. S!Under(deep, other) <=> a = b /\ S!Under(p, q)
    <2>1. ASSUME a = b, S!Under(p, q) PROVE S!Under(deep, other)
        <3>1. Len(p) <= Len(q) /\ \A i \in 1..Len(p) : q[i] = p[i]
            BY <2>1, UnderKeys
        <3>2. ASSUME NEW i \in 1..Len(deep) PROVE other[i] = deep[i]
            <4>1. CASE i = 1
                BY <4>1, <1>1, <2>1
            <4>2. CASE i # 1
                <5>1. i - 1 \in 1..Len(p) /\ i - 1 \in 1..Len(q) /\ (i - 1) + 1 = i
                    BY <4>2, <1>1, <3>1
                <5> QED BY <5>1, <1>1, <3>1
            <4> QED BY <4>1, <4>2
        <3> QED BY <1>1, <3>1, <3>2, UnderKeys
    <2>2. ASSUME S!Under(deep, other) PROVE a = b /\ S!Under(p, q)
        <3>1. Len(deep) <= Len(other) /\ \A i \in 1..Len(deep) : other[i] = deep[i]
            BY <2>2, <1>1, UnderKeys
        <3>0. Len(p) \in Nat /\ Len(q) \in Nat /\ 1 \in 1..Len(deep)
            BY <1>1
        <3>4. a = b
            BY <3>0, <3>1, <1>1
        <3>5. Len(p) + 1 <= Len(q) + 1
            BY <3>1, <1>1
        <3>2. a = b /\ Len(p) <= Len(q)
            BY <3>0, <3>4, <3>5
        <3>3. ASSUME NEW i \in 1..Len(p) PROVE q[i] = p[i]
            <4>1. i + 1 \in 1..Len(deep) /\ i \in 1..Len(q)
                BY <1>1, <3>2
            <4> QED BY <4>1, <3>1, <1>1
        <3> QED BY <3>2, <3>3, UnderKeys
    <2> QED BY <2>1, <2>2
<1>4. ASSUME deep = other PROVE a = b /\ p = q
    <2>0. Len(p) \in Nat /\ Len(q) \in Nat
        OBVIOUS
    <2>3. a = b
        BY <1>1, <1>4
    <2>4. Len(p) + 1 = Len(q) + 1
        BY <1>1, <1>4
    <2>1. a = b /\ Len(p) = Len(q)
        BY <2>0, <2>3, <2>4
    <2>2. \A i \in 1..Len(p) : p[i] = q[i]
        BY <1>1, <1>4, <2>1
    <2> QED BY <2>1, <2>2
<1> QED BY <1>1, <1>2, <1>3, <1>4 DEF deep, other

LEMMA UnderOrder ==
    ASSUME NEW p \in Seq(STRING), NEW q \in Seq(STRING), NEW r \in Seq(STRING)
    PROVE  /\ S!Under(p, p)
           /\ S!Under(p, q) /\ S!Under(q, r) => S!Under(p, r)
           /\ S!Under(p, r) /\ S!Under(q, r) => S!Under(p, q) \/ S!Under(q, p)
           /\ S!Under(p, q) /\ p # <<>> => q # <<>> /\ p[1] = q[1]
           /\ S!Under(p, q) => Len(p) <= Len(q)
<1>0. Len(p) \in Nat /\ Len(q) \in Nat /\ Len(r) \in Nat
    OBVIOUS
<1>1. S!Under(p, p)
    BY UnderKeys, <1>0
<1>2. S!Under(p, q) /\ S!Under(q, r) => S!Under(p, r)
    BY UnderKeys, <1>0
<1>3. S!Under(p, r) /\ S!Under(q, r) => S!Under(p, q) \/ S!Under(q, p)
    <2> SUFFICES ASSUME S!Under(p, r), S!Under(q, r) PROVE S!Under(p, q) \/ S!Under(q, p)
        OBVIOUS
    <2>1. /\ \A i \in 1..Len(p) : r[i] = p[i]
          /\ \A i \in 1..Len(q) : r[i] = q[i]
        BY UnderKeys
    <2>2. CASE Len(p) <= Len(q)
        BY <2>1, <2>2, <1>0, UnderKeys
    <2>3. CASE Len(q) <= Len(p)
        BY <2>1, <2>3, <1>0, UnderKeys
    <2> QED BY <2>2, <2>3, <1>0
<1>4. S!Under(p, q) /\ p # <<>> => q # <<>> /\ p[1] = q[1]
    BY UnderKeys, <1>0
<1> QED BY <1>1, <1>2, <1>3, <1>4, UnderKeys

\* What is in a file, layered.
LEMMA InLayered ==
    ASSUME NEW doc
    PROVE  \A x : x \in S!Layered(doc) <=>
           \/ \E i \in DOMAIN S!Active : S!Active[i] \in DOMAIN doc /\ x \in doc[S!Active[i]] /\ S!From(doc, i, x[1])
           \/ \E s \in DOMAIN doc : S!IsTable(s) /\ S!FromNone(doc, s) /\ \E k \in doc[s] : x = <<s>> \o k
<1>1. \A x : x \in S!Layered(doc) <=> x \in S!InSections(doc) \/ x \in S!InTables(doc)
    BY DEF S!Layered
<1>2. \A x : x \in S!InSections(doc) <=>
           \E i \in DOMAIN S!Active : S!Active[i] \in DOMAIN doc /\ x \in doc[S!Active[i]] /\ S!From(doc, i, x[1])
    BY DEF S!InSections
<1>3. ASSUME NEW x, x \in S!InTables(doc) PROVE \E s \in DOMAIN doc : S!IsTable(s) /\ S!FromNone(doc, s) /\ \E k \in doc[s] : x = <<s>> \o k
    <2>1. PICK s \in {t \in DOMAIN doc : S!IsTable(t) /\ S!FromNone(doc, t)} : x \in {<<s>> \o p : p \in doc[s]}
        BY <1>3 DEF S!InTables
    <2> QED BY <2>1
<1>4. ASSUME NEW s \in DOMAIN doc, S!IsTable(s), S!FromNone(doc, s), NEW k \in doc[s] PROVE <<s>> \o k \in S!InTables(doc)
    <2>1. <<s>> \o k \in {<<s>> \o p : p \in doc[s]}
        OBVIOUS
    <2> QED BY <1>4, <2>1 DEF S!InTables
<1> QED BY <1>1, <1>2, <1>3, <1>4

\* A file, layered, is well formed still: a key comes from one section of it.
LEMMA LayeredFits == ASSUME NEW doc, S!File(doc) PROVE S!WellFormed(S!Layered(doc))
<1> DEFINE act == {j \in DOMAIN S!Active : S!Active[j] \in DOMAIN doc}
           tab == {t \in DOMAIN doc : S!IsTable(t) /\ S!FromNone(doc, t)}
<1>0. /\ \A i \in DOMAIN S!Active : i \in 1..4
      /\ \A s \in DOMAIN doc : s \in STRING /\ doc[s] \subseteq Seq(STRING) \ {<<>>} /\ \A p, q \in doc[s] : S!Under(p, q) => p = q
    BY DEF S!File, S!WellFormed, S!Active
<1>1. \A p : p \in S!Layered(doc) <=>
           \/ \E i \in act : p \in doc[S!Active[i]] /\ S!From(doc, i, p[1])
           \/ \E s \in tab : \E k \in doc[s] : p = <<s>> \o k
    <2>1. \A x : x \in S!Layered(doc) <=>
             \/ \E i \in DOMAIN S!Active : S!Active[i] \in DOMAIN doc /\ x \in doc[S!Active[i]] /\ S!From(doc, i, x[1])
             \/ \E s \in DOMAIN doc : S!IsTable(s) /\ S!FromNone(doc, s) /\ \E k \in doc[s] : x = <<s>> \o k
        BY ONLY InLayered
    <2> TAKE p
    <2>2. \A i : i \in act <=> i \in DOMAIN S!Active /\ S!Active[i] \in DOMAIN doc
        OBVIOUS
    <2>3. \A s : s \in tab <=> s \in DOMAIN doc /\ S!IsTable(s) /\ S!FromNone(doc, s)
        OBVIOUS
    <2> HIDE DEF act, tab
    <2> QED BY ONLY <2>1, <2>2, <2>3
<1> HIDE DEF act, tab
<1>2. ASSUME NEW i \in act, NEW p \in doc[S!Active[i]] PROVE p \in Seq(STRING) \ {<<>>} /\ S!Sets(doc, S!Active[i], p[1])
    BY <1>0 DEF S!Sets, act
<1>3. ASSUME NEW s \in tab, NEW k \in doc[s] PROVE s \in STRING /\ k \in Seq(STRING) /\ <<s>> \o k \in Seq(STRING) \ {<<>>} /\ (<<s>> \o k)[1] = s
    <2>1. s \in STRING /\ k \in Seq(STRING)
        BY <1>0 DEF tab
    <2> QED BY <2>1, UnderAgent
<1>4. ASSUME NEW p \in S!Layered(doc) PROVE p \in Seq(STRING) \ {<<>>}
    <2>1. CASE \E i \in act : p \in doc[S!Active[i]]
        BY <2>1, <1>2
    <2>2. CASE \E s \in tab : \E k \in doc[s] : p = <<s>> \o k
        BY <2>2, <1>3
    <2> QED BY <1>1, <2>1, <2>2
<1>5. ASSUME NEW p \in S!Layered(doc), NEW q \in S!Layered(doc), S!Under(p, q) PROVE p = q
    <2>0. p[1] = q[1]
        BY <1>4, <1>5, UnderOrder
    <2>1. CASE \E i, j \in act : /\ p \in doc[S!Active[i]] /\ S!From(doc, i, p[1])
                                 /\ q \in doc[S!Active[j]] /\ S!From(doc, j, q[1])
        <3>1. PICK i, j \in act : /\ p \in doc[S!Active[i]] /\ S!From(doc, i, p[1])
                                  /\ q \in doc[S!Active[j]] /\ S!From(doc, j, q[1])
            BY <2>1
        <3>2. ~(i < j) /\ ~(j < i)
            BY <2>0, <3>1 DEF S!From, act
        <3>3. i = j
            BY <3>2, <1>0 DEF act
        <3> QED BY <3>1, <3>3, <1>0, <1>5 DEF act
    <2>2. CASE \E i \in act, s \in tab : \E k \in doc[s] :
                  \/ p \in doc[S!Active[i]] /\ q = <<s>> \o k
                  \/ q \in doc[S!Active[i]] /\ p = <<s>> \o k
        <3>1. PICK i \in act, s \in tab : \E k \in doc[s] :
                  \/ p \in doc[S!Active[i]] /\ q = <<s>> \o k
                  \/ q \in doc[S!Active[i]] /\ p = <<s>> \o k
            BY <2>2
        <3>2. p[1] = s /\ q[1] = s
            BY <2>0, <3>1, <1>3
        <3>3. S!Sets(doc, S!Active[i], s)
            BY <3>1, <3>2, <1>2
        <3> QED BY <3>3 DEF S!FromNone, act, tab
    <2>3. CASE \E s, t \in tab : \E k \in doc[s], l \in doc[t] : p = <<s>> \o k /\ q = <<t>> \o l
        <3>1. PICK s, t \in tab : \E k \in doc[s], l \in doc[t] : p = <<s>> \o k /\ q = <<t>> \o l
            BY <2>3
        <3>2. PICK k \in doc[s], l \in doc[t] : p = <<s>> \o k /\ q = <<t>> \o l
            BY <3>1
        <3>3. s = t /\ S!Under(k, l)
            BY <3>2, <1>3, <1>5, UnderAgent
        <3> QED BY <3>2, <3>3, <1>0 DEF tab
    <2>4. \/ \E i \in act : p \in doc[S!Active[i]] /\ S!From(doc, i, p[1])
          \/ \E s \in tab : \E k \in doc[s] : p = <<s>> \o k
        BY <1>1
    <2>5. \/ \E i \in act : q \in doc[S!Active[i]] /\ S!From(doc, i, q[1])
          \/ \E s \in tab : \E k \in doc[s] : q = <<s>> \o k
        BY <1>1
    <2> QED BY <2>1, <2>2, <2>3, <2>4, <2>5
<1> QED BY <1>4, <1>5 DEF S!WellFormed

\* What an agent has of a file, and whether the file has been merged.
Brought(a, f) == S!Kept(S!Layered(S!Document(a, f)))
Merged(a, f) == IF f = "secrets" THEN files[a] # <<"secrets", "fragment">> ELSE files[a] = <<>>
Compares(p, q) == S!Under(p, q) \/ S!Under(q, p)

\* The process's own is as it was; what else is there, an agent has brought; and what an
\* agent has brought is there, or gave way to what was.
SettingsInv ==
    /\ files \in [S!Names -> {<<"secrets", "fragment">>, <<"fragment">>, <<>>}]
    /\ S!WellFormed(S!Paths)
    /\ \A p \in Group : p \in S!Paths /\ tree[p] = <<S!OwnerOf(p), "process">>
    /\ \A p \in S!Paths \ Group : \E a \in S!Names, f \in {"secrets", "fragment"} : \E k \in Brought(a, f) :
          p = <<a>> \o k /\ tree[p] = <<a, f>> /\ Merged(a, f)
    /\ \A a \in S!Names, f \in {"secrets", "fragment"} : Merged(a, f) => \A k \in Brought(a, f) :
          /\ <<a>> \notin Group
          /\ \E q \in S!Paths : Compares(<<a>> \o k, q) /\ (f = "secrets" => tree[q][2] # "fragment")

LEMMA BroughtFits ==
    ASSUME S!Parameters, NEW a \in S!Names, NEW f \in {"secrets", "fragment"}
    PROVE  a \in STRING /\ S!WellFormed(Brought(a, f)) /\ S!WellFormed({<<a>> \o k : k \in Brought(a, f)})
<1>1. a \in STRING
    BY DEF S!Parameters, S!Names
<1>2. S!File(S!Document(a, f))
    BY DEF S!Parameters, S!Document
<1>3. S!WellFormed(Brought(a, f))
    BY <1>2, LayeredFits DEF S!WellFormed, Brought, S!Kept
<1>4. \A k \in Brought(a, f) : k \in Seq(STRING)
    BY <1>3 DEF S!WellFormed
<1>5. S!WellFormed({<<a>> \o k : k \in Brought(a, f)})
    <2>1. \A k \in Brought(a, f) : <<a>> \o k \in Seq(STRING) \ {<<>>}
        BY <1>1, <1>4, UnderAgent
    <2>2. \A k, l \in Brought(a, f) : S!Under(<<a>> \o k, <<a>> \o l) => k = l
        BY <1>1, <1>3, <1>4, UnderAgent DEF S!WellFormed
    <2> QED BY <2>1, <2>2 DEF S!WellFormed
<1> QED BY <1>1, <1>3, <1>5

LEMMA SettingsInit == S!Parameters /\ S!Init => SettingsInv
<1> SUFFICES ASSUME S!Parameters, S!Init PROVE SettingsInv
    OBVIOUS
<1>1. S!Paths = Group /\ \A p \in Group : tree[p] = <<S!OwnerOf(p), "process">>
    BY DEF S!Init, S!Paths
<1>2. files = [a \in S!Names |-> <<"secrets", "fragment">>]
    BY DEF S!Init
<1>3. \A a \in S!Names, f \in {"secrets", "fragment"} : ~Merged(a, f)
    BY <1>2 DEF Merged
<1> QED BY <1>1, <1>2, <1>3 DEF SettingsInv, S!Parameters

Kinds == {"secrets", "fragment"}

\* What one merge does.
LEMMA MergeDoes ==
    ASSUME S!Parameters, SettingsInv, NEW a \in S!Names, S!Merges(a)
    PROVE  \E f \in Kinds :
             /\ ~Merged(a, f) /\ Merged(a, f)' /\ (f = "secrets" => ~Merged(a, "fragment"))
             /\ \A b \in S!Names, g \in Kinds : <<b, g>> # <<a, f>> => (Merged(b, g)' <=> Merged(b, g))
             /\ files' \in [S!Names -> {<<"secrets", "fragment">>, <<"fragment">>, <<>>}]
             /\ <<a>> \notin S!Paths \/ Brought(a, f) = {}
             /\ LET added == {p \in {<<a>> \o k : k \in Brought(a, f)} : ~S!Clashes(p)}
                IN  /\ S!Paths' = S!Paths \cup added
                    /\ \A p \in S!Paths : tree'[p] = tree[p]
                    /\ \A p \in added : p \notin S!Paths => tree'[p] = <<a, f>>
<1>1. /\ files \in [S!Names -> {<<"secrets", "fragment">>, <<"fragment">>, <<>>}] /\ files[a] # <<>>
      /\ files' = [files EXCEPT ![a] = Tail(@)]
    BY DEF SettingsInv, S!Merges
<1>2. PICK f \in Kinds :
        /\ f = Head(files[a])
        /\ \/ files[a] = <<"secrets", "fragment">> /\ f = "secrets" /\ files'[a] = <<"fragment">>
           \/ files[a] = <<"fragment">> /\ f = "fragment" /\ files'[a] = <<>>
    <2>1. files[a] \in {<<"secrets", "fragment">>, <<"fragment">>} /\ files'[a] = Tail(files[a])
        BY <1>1
    <2>2. CASE files[a] = <<"secrets", "fragment">>
        BY <2>1, <2>2 DEF Kinds
    <2>3. CASE files[a] = <<"fragment">>
        BY <2>1, <2>3 DEF Kinds
    <2> QED BY <2>1, <2>2, <2>3
<1> DEFINE added == {p \in {<<a>> \o k : k \in Brought(a, f)} : ~S!Clashes(p)}
<1>3. ~S!MergeRefused(a, S!Layered(S!Document(a, f))) /\ tree' = [p \in S!Paths \cup added |-> IF p \in S!Paths THEN tree[p] ELSE <<a, f>>]
    BY <1>2 DEF S!Merges, Brought
<1>5. <<"fragment">> # <<"secrets", "fragment">> /\ <<>> # <<"secrets", "fragment">> /\ <<"fragment">> # <<>>
    OBVIOUS
<1>6. ~Merged(a, f) /\ Merged(a, f)' /\ (f = "secrets" => ~Merged(a, "fragment"))
    BY <1>2, <1>5 DEF Merged
<1>7. ASSUME NEW b \in S!Names, NEW g \in Kinds, <<b, g>> # <<a, f>> PROVE Merged(b, g)' <=> Merged(b, g)
    <2>1. CASE b # a
        <3>1. files'[b] = files[b]
            BY <1>1, <2>1
        <3> QED BY <3>1 DEF Merged
    <2>2. CASE b = a /\ g # f
        BY <1>2, <1>5, <2>2 DEF Merged, Kinds
    <2> QED BY <1>7, <2>1, <2>2
<1>8. files' \in [S!Names -> {<<"secrets", "fragment">>, <<"fragment">>, <<>>}]
    BY <1>1, <1>2
<1>9. <<a>> \notin S!Paths \/ Brought(a, f) = {}
    BY <1>3 DEF S!MergeRefused, Brought
<1>10. /\ S!Paths' = S!Paths \cup added
       /\ \A p \in S!Paths : tree'[p] = tree[p]
       /\ \A p \in added : p \notin S!Paths => tree'[p] = <<a, f>>
    <2> HIDE DEF added
    <2> QED BY <1>3 DEF S!Paths
<1> QED BY <1>6, <1>7, <1>8, <1>9, <1>10

LEMMA MergeStep == ASSUME S!Parameters, SettingsInv, NEW a \in S!Names, S!Merges(a) PROVE SettingsInv'
<1>1. PICK f \in Kinds :
             /\ ~Merged(a, f) /\ Merged(a, f)' /\ (f = "secrets" => ~Merged(a, "fragment"))
             /\ \A b \in S!Names, g \in Kinds : <<b, g>> # <<a, f>> => (Merged(b, g)' <=> Merged(b, g))
             /\ files' \in [S!Names -> {<<"secrets", "fragment">>, <<"fragment">>, <<>>}]
             /\ <<a>> \notin S!Paths \/ Brought(a, f) = {}
             /\ LET added == {p \in {<<a>> \o k : k \in Brought(a, f)} : ~S!Clashes(p)}
                IN  /\ S!Paths' = S!Paths \cup added
                    /\ \A p \in S!Paths : tree'[p] = tree[p]
                    /\ \A p \in added : p \notin S!Paths => tree'[p] = <<a, f>>
    BY MergeDoes
<1> DEFINE mine == {<<a>> \o k : k \in Brought(a, f)}
           added == {p \in mine : ~S!Clashes(p)}
<1>2. S!Paths' = S!Paths \cup added /\ (\A p \in S!Paths : tree'[p] = tree[p]) /\ \A p \in added : p \notin S!Paths => tree'[p] = <<a, f>>
    BY <1>1
<1>3. S!WellFormed(S!Paths) /\ S!WellFormed(mine) /\ S!WellFormed(Brought(a, f)) /\ a \in STRING
    BY BroughtFits DEF SettingsInv, Kinds
<1>4. /\ \A p \in added : p \in mine /\ (\A q \in S!Paths : ~S!Under(p, q) /\ ~S!Under(q, p))
      /\ \A p \in mine : p \notin added => \E q \in S!Paths : Compares(p, q)
      /\ \A p \in mine : \E k \in Brought(a, f) : p = <<a>> \o k
      /\ \A k \in Brought(a, f) : <<a>> \o k \in mine
    BY DEF S!Clashes, Compares
<1> HIDE DEF added, mine
<1>5. \A p \in added : p \notin S!Paths
    BY <1>3, <1>4, UnderOrder DEF S!WellFormed
<1>6. S!WellFormed(S!Paths')
    BY <1>2, <1>3, <1>4 DEF S!WellFormed
<1>7. \A p \in Group : p \in S!Paths' /\ tree'[p] = <<S!OwnerOf(p), "process">>
    BY <1>2 DEF SettingsInv
<1>8. ASSUME NEW p \in S!Paths', p \notin Group
      PROVE  \E b \in S!Names, g \in Kinds : \E k \in Brought(b, g) : p = <<b>> \o k /\ tree'[p] = <<b, g>> /\ Merged(b, g)'
    <2>1. CASE p \in S!Paths
        <3>1. PICK b \in S!Names, g \in Kinds : \E k \in Brought(b, g) : p = <<b>> \o k /\ tree[p] = <<b, g>> /\ Merged(b, g)
            BY <1>8, <2>1 DEF SettingsInv, Kinds
        <3>2. Merged(b, g)' /\ tree'[p] = tree[p]
            BY <3>1, <1>1, <1>2, <2>1
        <3> QED BY <3>1, <3>2
    <2>2. CASE p \in added
        <3>1. PICK k \in Brought(a, f) : p = <<a>> \o k
            BY <1>4, <2>2
        <3> QED BY <3>1, <1>1, <1>2, <1>5, <2>2
    <2> QED BY <1>2, <1>8, <2>1, <2>2
<1>9. ASSUME NEW b \in S!Names, NEW g \in Kinds, Merged(b, g)', NEW k \in Brought(b, g)
      PROVE  <<b>> \notin Group /\ \E q \in S!Paths' : Compares(<<b>> \o k, q) /\ (g = "secrets" => tree'[q][2] # "fragment")
    <2>1. CASE <<b, g>> # <<a, f>>
        <3>1. Merged(b, g)
            BY <1>1, <1>9, <2>1
        <3>2. <<b>> \notin Group /\ \E q \in S!Paths : Compares(<<b>> \o k, q) /\ (g = "secrets" => tree[q][2] # "fragment")
            BY <3>1 DEF SettingsInv, Kinds
        <3> QED BY <3>2, <1>2
    <2>2. CASE b = a /\ g = f
        <3>0. k \in Seq(STRING) /\ k \in Brought(a, f)
            BY <1>3, <2>2 DEF S!WellFormed
        <3>1. <<a>> \notin Group
            BY <1>1, <2>2 DEF SettingsInv
        <3>2. CASE <<a>> \o k \in added
            <4>1. S!Under(<<a>> \o k, <<a>> \o k)
                BY <1>3, <3>0, UnderAgent, UnderOrder
            <4>2. tree'[<<a>> \o k] = <<a, f>> /\ <<a>> \o k \in S!Paths'
                BY <1>2, <1>5, <3>2
            <4> QED BY <2>2, <3>1, <4>1, <4>2 DEF Compares
        <3>3. CASE <<a>> \o k \notin added
            <4>1. PICK q \in S!Paths : Compares(<<a>> \o k, q)
                BY <1>4, <3>0, <3>3
            <4>2. ASSUME f = "secrets" PROVE tree[q][2] # "fragment"
                <5>1. CASE q \in Group
                    BY <5>1 DEF SettingsInv
                <5>2. CASE q \notin Group
                    <6>1. PICK c \in S!Names, h \in Kinds : \E l \in Brought(c, h) : q = <<c>> \o l /\ tree[q] = <<c, h>> /\ Merged(c, h)
                        BY <5>2 DEF SettingsInv, Kinds
                    <6>2. PICK l \in Brought(c, h) : q = <<c>> \o l
                        BY <6>1
                    <6>3. c \in STRING /\ l \in Seq(STRING)
                        BY <6>2, BroughtFits DEF S!WellFormed, Kinds
                    <6>4. c = a
                        BY <4>1, <6>2, <6>3, <1>3, <3>0, UnderAgent DEF Compares
                    <6> QED BY <6>1, <6>4, <4>2, <1>1 DEF Kinds
                <5> QED BY <5>1, <5>2
            <4> QED BY <2>2, <3>1, <4>1, <4>2, <1>2
        <3> QED BY <3>2, <3>3
    <2> QED BY <2>1, <2>2
<1> QED BY <1>1, <1>6, <1>7, <1>8, <1>9 DEF SettingsInv, Kinds

LEMMA NotOne == \A n \in Nat : n > 1 => n # 1
OBVIOUS

\* What is at a key, and whose it is.
LEMMA InAt == \A asked : \A o : o \in S!At(asked) <=> \E p \in S!Paths : S!Under(asked, p) /\ o = tree[p]
BY DEF S!At

LEMMA PathsFit ==
    ASSUME S!Parameters, SettingsInv
    PROVE  /\ S!Paths \subseteq Seq(STRING) \ {<<>>}
           /\ \A p, q \in S!Paths : S!Under(p, q) => p = q
           /\ \A p \in Group : p \in S!Paths /\ tree[p] = <<S!OwnerOf(p), "process">>
           /\ \A p \in S!Paths \ Group : \E a \in S!Names, f \in Kinds : \E k \in Brought(a, f) :
                 /\ p = <<a>> \o k /\ tree[p] = <<a, f>> /\ k \in Seq(STRING) \ {<<>>} /\ Len(p) > 1 /\ p[1] = a
<1>1. S!WellFormed(S!Paths) /\ \A p \in Group : p \in S!Paths /\ tree[p] = <<S!OwnerOf(p), "process">>
    BY DEF SettingsInv
<1>2. ASSUME NEW p \in S!Paths \ Group
      PROVE  \E a \in S!Names, f \in Kinds : \E k \in Brought(a, f) :
                 /\ p = <<a>> \o k /\ tree[p] = <<a, f>> /\ k \in Seq(STRING) \ {<<>>} /\ Len(p) > 1 /\ p[1] = a
    <2>1. PICK a \in S!Names, f \in Kinds : \E k \in Brought(a, f) : p = <<a>> \o k /\ tree[p] = <<a, f>>
        BY <1>2 DEF SettingsInv, Kinds
    <2>2. PICK k \in Brought(a, f) : p = <<a>> \o k
        BY <2>1
    <2>3. a \in STRING /\ k \in Seq(STRING) \ {<<>>}
        BY BroughtFits DEF S!WellFormed, Kinds
    <2>4. Len(k) \in Nat /\ Len(k) # 0
        BY <2>3
    <2>5. Len(p) = Len(k) + 1 /\ p[1] = a
        BY <2>2, <2>3, UnderAgent
    <2>6. Len(p) > 1
        BY <2>4, <2>5
    <2> QED BY <2>1, <2>2, <2>3, <2>5, <2>6
<1> QED BY <1>1, <1>2 DEF S!WellFormed

\* What is in an agent's section is the agent's; what no agent's section holds is the
\* process's; and a value is all there is at its key.
LEMMA Whose ==
    ASSUME S!Parameters, SettingsInv
    PROVE  /\ \A p \in S!Paths : Len(p) > 1 /\ p[1] \in S!Names => tree[p][1] = p[1]
           /\ \A p \in S!Paths : p[1] \notin S!Names => p \in Group /\ tree[p] = <<"process", "process">>
           /\ \A p \in S!Paths : Len(p) = 1 => p \in Group /\ tree[p] = <<"process", "process">>
           /\ \A asked \in S!Paths : S!At(asked) = {tree[asked]}
<1>1. ASSUME NEW p \in S!Paths, p \in Group
      PROVE  /\ Len(p) > 1 /\ p[1] \in S!Names => tree[p][1] = p[1]
             /\ Len(p) = 1 \/ p[1] \notin S!Names => tree[p] = <<"process", "process">>
    <2>0. Len(p) \in Nat
        BY PathsFit
    <2>1. tree[p] = <<S!OwnerOf(p), "process">>
        BY <1>1, PathsFit
    <2>2. CASE Len(p) > 1 /\ p[1] \in S!Names
        <3>1. S!OwnerOf(p) = p[1]
            BY <2>2 DEF S!OwnerOf
        <3>2. Len(p) # 1
            BY <2>0, <2>2, NotOne
        <3> QED BY <2>1, <2>2, <3>1, <3>2
    <2>3. CASE ~(Len(p) > 1 /\ p[1] \in S!Names)
        <3>1. S!OwnerOf(p) = "process"
            BY <2>3 DEF S!OwnerOf
        <3> QED BY <2>1, <2>3, <3>1
    <2> QED BY <2>2, <2>3
<1>2. ASSUME NEW p \in S!Paths, p \notin Group PROVE Len(p) > 1 /\ Len(p) # 1 /\ p[1] \in S!Names /\ tree[p][1] = p[1]
    <2>1. PICK a \in S!Names, f \in Kinds : \E k \in Brought(a, f) :
             /\ p = <<a>> \o k /\ tree[p] = <<a, f>> /\ k \in Seq(STRING) \ {<<>>} /\ Len(p) > 1 /\ p[1] = a
        BY <1>2, PathsFit
    <2>2. tree[p] = <<a, f>> /\ Len(p) > 1 /\ p[1] = a
        BY <2>1
    <2>4. Len(p) \in Nat
        BY PathsFit
    <2>3. Len(p) # 1
        BY <2>2, <2>4, NotOne
    <2> QED BY <2>2, <2>3
<1>3. ASSUME NEW asked \in S!Paths PROVE S!At(asked) = {tree[asked]}
    <2>1. S!Under(asked, asked) /\ \A p \in S!Paths : S!Under(asked, p) => p = asked
        BY PathsFit, UnderOrder
    <2> QED BY <2>1, InAt
<1>4. ASSUME NEW p \in S!Paths
      PROVE  /\ Len(p) > 1 /\ p[1] \in S!Names => tree[p][1] = p[1]
             /\ p[1] \notin S!Names => p \in Group /\ tree[p] = <<"process", "process">>
             /\ Len(p) = 1 => p \in Group /\ tree[p] = <<"process", "process">>
    <2>1. CASE p \in Group
        BY <2>1, <1>1
    <2>2. CASE p \notin Group
        BY <2>2, <1>2
    <2> QED BY <2>1, <2>2
<1> QED BY <1>3, <1>4

Keys == Seq(STRING) \ {<<>>}

\* The own of an agent, at a key: what its name says, and, but for what the process
\* says, out of its files.
LEMMA OwnAt ==
    ASSUME S!Parameters, SettingsInv, NEW a \in S!Names, NEW asked \in Keys
    PROVE  /\ <<a>> \o asked \in Keys
           /\ \A p \in S!Paths : S!Under(<<a>> \o asked, p) => p \in Keys /\ tree[p][1] = a /\ Len(p) > 1 /\ p[1] = a
<1>1. a \in STRING
    BY DEF S!Parameters, S!Names
<1>2. <<a>> \o asked \in Seq(STRING) \ {<<>>} /\ Len(<<a>> \o asked) = Len(asked) + 1 /\ (<<a>> \o asked)[1] = a
    BY <1>1, UnderAgent DEF Keys
<1>3. ASSUME NEW p \in S!Paths, S!Under(<<a>> \o asked, p)
      PROVE  p \in Keys /\ tree[p][1] = a /\ Len(p) > 1 /\ p[1] = a
    <2>1. p \in Keys /\ p[1] = a /\ Len(<<a>> \o asked) <= Len(p)
        BY <1>2, <1>3, PathsFit, UnderOrder DEF Keys
    <2>2. Len(asked) \in Nat /\ Len(asked) # 0 /\ Len(p) \in Nat
        BY <2>1 DEF Keys
    <2>3. Len(p) > 1
        BY <1>2, <2>1, <2>2
    <2> QED BY <2>1, <2>3, Whose
<1> QED BY <1>2, <1>3 DEF Keys

LEMMA FromFiles ==
    ASSUME S!Parameters, SettingsInv, NEW a \in S!Names, NEW asked \in Keys,
           NEW p \in S!Paths, S!Under(<<a>> \o asked, p), p \notin Group
    PROVE  \E f \in Kinds : \E k \in Brought(a, f) : p = <<a>> \o k /\ tree[p] = <<a, f>> /\ S!Under(asked, k) /\ k \in Keys
<1>1. PICK b \in S!Names, f \in Kinds : \E k \in Brought(b, f) :
         /\ p = <<b>> \o k /\ tree[p] = <<b, f>> /\ k \in Seq(STRING) \ {<<>>} /\ Len(p) > 1 /\ p[1] = b
    BY PathsFit
<1>2. PICK k \in Brought(b, f) : p = <<b>> \o k /\ tree[p] = <<b, f>> /\ k \in Keys /\ p[1] = b
    BY <1>1 DEF Keys
<1>3. b = a /\ a \in STRING
    <2>1. p[1] = a
        BY OwnAt
    <2>2. a \in STRING
        BY DEF S!Parameters, S!Names
    <2> QED BY <2>1, <2>2, <1>2
<1>4. S!Under(asked, k)
    BY <1>2, <1>3, UnderAgent DEF Keys
<1> QED BY <1>2, <1>3, <1>4

\* A view's answer is the agent's own or the process's.
LEMMA ScopedOwners ==
    ASSUME S!Parameters, SettingsInv, NEW a \in S!Names, NEW asked \in Keys, NEW o \in S!Scoped(a, asked)
    PROVE  /\ o \in S!At(<<a>> \o asked) \/ o = <<"process", "process">>
           /\ o[1] \in {a, "process"}
<1>1. CASE S!InScope(a, asked)
    <2>1. o \in S!At(<<a>> \o asked)
        BY <1>1 DEF S!Scoped
    <2>2. PICK p \in S!Paths : S!Under(<<a>> \o asked, p) /\ o = tree[p]
        BY <2>1, InAt
    <2> QED BY <2>1, <2>2, OwnAt DEF Keys
<1>2. CASE ~S!InScope(a, asked)
    <2>1. ~S!Foreign(asked) /\ o \in S!At(asked)
        BY <1>2 DEF S!Scoped
    <2>2. PICK p \in S!Paths : S!Under(asked, p) /\ o = tree[p]
        BY <2>1, InAt
    <2>3. p[1] = asked[1]
        BY <2>2, PathsFit, UnderOrder DEF Keys
    <2>4. CASE asked[1] \notin S!Names
        BY <2>2, <2>3, <2>4, Whose
    <2>5. CASE asked[1] \in S!Names
        <3>1. asked[1] \notin SharedTables
            BY <2>5 DEF S!Parameters
        <3>2. Len(asked) = 1 /\ asked \in S!Paths
            BY <2>1, <2>5, <3>1 DEF S!Foreign
        <3>3. o = tree[asked]
            BY <2>1, <3>2, Whose
        <3> QED BY <3>2, <3>3, Whose
    <2> QED BY <2>4, <2>5
<1> QED BY <1>1, <1>2

\* What describes the process comes from the process.
LEMMA ProcessOnly ==
    ASSUME S!Parameters, SettingsInv, NEW a \in S!Names, NEW asked \in Keys, asked[1] \in ProcessKeys, NEW o \in S!Scoped(a, asked)
    PROVE  o[2] = "process"
<1>1. CASE o \in S!At(<<a>> \o asked)
    <2>1. PICK p \in S!Paths : S!Under(<<a>> \o asked, p) /\ o = tree[p]
        BY <1>1, InAt
    <2>2. ASSUME p \notin Group PROVE FALSE
        <3>1. PICK f \in Kinds : \E k \in Brought(a, f) : p = <<a>> \o k /\ tree[p] = <<a, f>> /\ S!Under(asked, k) /\ k \in Keys
            BY <2>1, <2>2, FromFiles
        <3>2. PICK k \in Brought(a, f) : S!Under(asked, k) /\ k \in Keys
            BY <3>1
        <3>3. k[1] = asked[1]
            BY <3>2, UnderOrder DEF Keys
        <3> QED BY <3>2, <3>3 DEF Brought, S!Kept
    <2>3. tree[p] = <<S!OwnerOf(p), "process">>
        BY <2>2, PathsFit
    <2> QED BY <2>1, <2>3
<1> QED BY <1>1, ScopedOwners

\* The process's word for an agent comes first.
LEMMA ProcessFirst ==
    ASSUME S!Parameters, SettingsInv, NEW a \in S!Names, NEW asked \in Keys, <<a>> \o asked \in Group
    PROVE  S!Scoped(a, asked) = {<<a, "process">>}
<1>1. <<a>> \o asked \in S!Paths /\ tree[<<a>> \o asked] = <<S!OwnerOf(<<a>> \o asked), "process">>
    BY PathsFit
<1>2. S!At(<<a>> \o asked) = {tree[<<a>> \o asked]}
    BY <1>1, Whose
<1>3. S!Under(<<a>> \o asked, <<a>> \o asked)
    BY <1>1, PathsFit, UnderOrder
<1>4. tree[<<a>> \o asked][1] = a
    BY <1>1, <1>3, OwnAt DEF Keys
<1>5. S!At(<<a>> \o asked) = {<<a, "process">>}
    BY <1>1, <1>2, <1>4
<1> QED BY <1>5 DEF S!Scoped, S!InScope

\* Of an agent that has merged its files, its secrets come before its settings.
LEMMA SecretsFirst ==
    ASSUME S!Parameters, SettingsInv, S!Settled, NEW a \in S!Names, NEW asked \in Keys, NEW o \in S!Scoped(a, asked),
           ~S!Has(Group, <<a>> \o asked), asked \in S!Layered(Secrets[a])
    PROVE  o[2] # "fragment"
<1>0. a \in STRING /\ Merged(a, "secrets")
    BY DEF S!Parameters, S!Names, S!Settled, Merged
<1>1. CASE asked[1] \in ProcessKeys
    BY <1>1, ProcessOnly
<1>2. CASE o \notin S!At(<<a>> \o asked)
    BY <1>2, ScopedOwners
<1>3. CASE asked[1] \notin ProcessKeys /\ o \in S!At(<<a>> \o asked)
    <2>1. asked \in Brought(a, "secrets")
        BY <1>3 DEF Brought, S!Document, S!Kept
    <2>2. PICK q \in S!Paths : Compares(<<a>> \o asked, q) /\ tree[q][2] # "fragment"
        BY <1>0, <2>1 DEF SettingsInv
    <2>3. PICK p \in S!Paths : S!Under(<<a>> \o asked, p) /\ o = tree[p]
        BY <1>3, InAt
    <2>4. <<a>> \o asked \in Seq(STRING) /\ q \in Seq(STRING) /\ p \in Seq(STRING)
        BY OwnAt, PathsFit DEF Keys
    <2>5. CASE S!Under(q, <<a>> \o asked)
        <3>1. q = p
            BY <2>3, <2>4, <2>5, UnderOrder, PathsFit
        <3> QED BY <2>2, <2>3, <3>1
    <2>6. CASE S!Under(<<a>> \o asked, q)
        <3>1. q \notin Group
            BY <2>6 DEF S!Has
        <3>2. PICK f \in Kinds : \E k \in Brought(a, f) : q = <<a>> \o k /\ tree[q] = <<a, f>> /\ S!Under(asked, k) /\ k \in Keys
            BY <2>6, <3>1, FromFiles
        <3>3. PICK k \in Brought(a, f) : q = <<a>> \o k /\ tree[q] = <<a, f>> /\ S!Under(asked, k)
            BY <3>2
        <3>4. f = "secrets"
            BY <2>2, <3>3 DEF Kinds
        <3>5. k = asked
            BY <2>1, <3>3, <3>4, BroughtFits DEF S!WellFormed
        <3>6. q = p
            BY <2>3, <3>3, <3>5, PathsFit
        <3> QED BY <2>2, <2>3, <3>6
    <2> QED BY <2>2, <2>5, <2>6 DEF Compares
<1> QED BY <1>1, <1>2, <1>3

\* The process's word, where an agent has none: nothing has changed it.
SharedAt(asked) == {<<S!OwnerOf(p), "process">> : p \in {q \in Group : S!Under(asked, q)}}

LEMMA SharedAsWritten ==
    ASSUME S!Parameters, SettingsInv, NEW asked \in Keys, Len(asked) = 1 \/ asked[1] \in SharedTables, S!OneValue(asked, Group)
    PROVE  (IF S!Foreign(asked) THEN {} ELSE S!At(asked)) = SharedAt(asked)
<1>0. \A q \in Group : q \in S!Paths /\ tree[q] = <<S!OwnerOf(q), "process">>
    BY PathsFit
<1>1. CASE asked \in Group
    <2>1. asked \in S!Paths /\ S!At(asked) = {tree[asked]} /\ tree[asked] = <<S!OwnerOf(asked), "process">>
        BY <1>0, <1>1, Whose
    <2>2. ~S!Foreign(asked)
        BY <2>1 DEF S!Foreign
    <2>3. S!Under(asked, asked) /\ \A q \in Group : S!Under(asked, q) => q = asked
        BY <1>1, UnderOrder DEF S!OneValue, Keys
    <2>4. SharedAt(asked) = {<<S!OwnerOf(asked), "process">>}
        BY <1>1, <2>3 DEF SharedAt
    <2> QED BY <2>1, <2>2, <2>4
<1>2. CASE asked \notin Group
    <2>1. \A q \in Group : ~S!Under(asked, q)
        BY <1>2 DEF S!OneValue
    <2>2. SharedAt(asked) = {}
        BY <2>1 DEF SharedAt
    <2>3. ASSUME ~S!Foreign(asked), NEW o \in S!At(asked) PROVE FALSE
        <3>1. PICK p \in S!Paths : S!Under(asked, p) /\ o = tree[p]
            BY <2>3, InAt
        <3>2. p[1] = asked[1]
            BY <3>1, PathsFit, UnderOrder DEF Keys
        <3>3. p \notin Group
            BY <2>1, <3>1
        <3>4. asked[1] \in S!Names
            BY <3>2, <3>3, Whose
        <3>5. asked[1] \notin SharedTables
            BY <3>4 DEF S!Parameters
        <3>6. Len(asked) = 1 /\ asked \in S!Paths
            BY <2>3, <3>4, <3>5 DEF S!Foreign
        <3> QED BY <3>6, <1>2, Whose
    <2> QED BY <2>2, <2>3
<1> QED BY <1>1, <1>2

\* What an agent has merged of its files under a key that is a value, where the process
\* says nothing of it: one of them says it, the secrets first.
LEMMA MergedValue ==
    ASSUME S!Parameters, SettingsInv, S!Settled, NEW a \in S!Names, NEW asked \in Keys,
           S!OneValue(<<a>> \o asked, Group \ {<<a>>}), \A f \in Kinds : S!OneValue(asked, Brought(a, f)),
           ~S!Has(Group, <<a>> \o asked), NEW g \in Kinds, S!Has(Brought(a, g), asked)
    PROVE  \E f \in Kinds : asked \in Brought(a, f) /\ (g = "secrets" => f = "secrets") /\ S!At(<<a>> \o asked) = {<<a, f>>}
<1>0. a \in STRING /\ asked \in Seq(STRING) /\ Merged(a, g)
    <2>1. a \in STRING
        BY DEF S!Parameters, S!Names
    <2>2. files[a] = <<>>
        BY DEF S!Settled
    <2>3. files[a] # <<"secrets", "fragment">>
        <3> DEFINE both == <<"secrets", "fragment">>
        <3>1. Len(both) = 2 /\ Len(<<>>) = 0
            OBVIOUS
        <3>2. both # <<>>
            BY <3>1
        <3> QED BY <3>2, <2>2
    <2>4. Merged(a, g)
        BY <2>2, <2>3 DEF Merged
    <2> QED BY <2>1, <2>4 DEF Keys
<1>1. asked \in Brought(a, g)
    BY DEF S!Has, S!OneValue
<1>2. <<a>> \notin Group /\ \E q \in S!Paths : Compares(<<a>> \o asked, q) /\ (g = "secrets" => tree[q][2] # "fragment")
    BY <1>0, <1>1 DEF SettingsInv, Kinds
<1>3. PICK q \in S!Paths : Compares(<<a>> \o asked, q) /\ (g = "secrets" => tree[q][2] # "fragment")
    BY <1>2
<1>4. <<a>> \o asked \in Keys /\ q \in Keys
    BY OwnAt, PathsFit DEF Keys
<1>5. q \notin Group
    <2>1. ASSUME q \in Group PROVE FALSE
        <3>1. q = <<a>> \o asked
            BY <1>2, <1>3, <2>1 DEF S!OneValue, Compares
        <3>2. S!Under(q, q)
            BY <1>4, UnderOrder DEF Keys
        <3> QED BY <2>1, <3>1, <3>2 DEF S!Has
    <2> QED BY <2>1
<1>6. PICK b \in S!Names, f \in Kinds : \E k \in Brought(b, f) :
             /\ q = <<b>> \o k /\ tree[q] = <<b, f>> /\ k \in Seq(STRING) \ {<<>>} /\ Len(q) > 1 /\ q[1] = b
    BY <1>5, PathsFit
<1>7. PICK k \in Brought(b, f) : q = <<b>> \o k /\ tree[q] = <<b, f>> /\ k \in Seq(STRING)
    BY <1>6
<1>8. b \in STRING
    BY DEF S!Parameters, S!Names
<1>9. b = a /\ (S!Under(asked, k) \/ S!Under(k, asked))
    BY <1>0, <1>3, <1>7, <1>8, UnderAgent DEF Compares
<1>10. k = asked
    BY <1>7, <1>9 DEF S!OneValue
<1>11. S!At(<<a>> \o asked) = {<<a, f>>}
    BY <1>7, <1>9, <1>10, Whose
<1>12. g = "secrets" => f = "secrets"
    BY <1>3, <1>7 DEF Kinds
<1> QED BY <1>7, <1>9, <1>10, <1>11, <1>12

LEMMA ReadAsValidated ==
    ASSUME S!Parameters, SettingsInv, S!Settled, NEW a \in S!Names, NEW asked \in Validated
    PROVE  S!Read(a, asked) = S!View(a, asked)
<1>0. /\ asked \in Keys /\ a \in STRING /\ S!Read(a, asked) = S!Scoped(a, asked)
      /\ Len(asked) = 1 \/ asked[1] \in SharedTables
      /\ S!OneValue(asked, Group) /\ S!OneValue(<<a>> \o asked, Group \ {<<a>>})
    <2>1. /\ asked \in Keys /\ ~S!Withheld(asked) /\ asked # S!EnvironmentKey
          /\ Len(asked) = 1 \/ asked[1] \in SharedTables
          /\ S!OneValue(asked, Group) /\ S!OneValue(<<a>> \o asked, Group \ {<<a>>})
        BY DEF S!Parameters, Keys
    <2>2. a \in STRING
        BY DEF S!Parameters, S!Names
    <2>3. S!Read(a, asked) = S!Scoped(a, asked)
        BY <2>1 DEF S!Read
    <2> QED BY <2>1, <2>2, <2>3
<1>1. \A f \in Kinds : S!OneValue(asked, Brought(a, f))
    BY DEF S!Parameters, S!OneValue, Brought, S!Kept, S!Document, Kinds
<1>2. (IF S!Foreign(asked) THEN {} ELSE S!At(asked)) = SharedAt(asked)
    BY <1>0, SharedAsWritten
<1>3. /\ S!View(a, asked) = IF S!Has(Group, <<a>> \o asked) THEN {<<a, "process">>}
                            ELSE IF S!Has(Brought(a, "secrets"), asked) THEN {<<a, "secrets">>}
                            ELSE IF S!Has(Brought(a, "fragment"), asked) THEN {<<a, "fragment">>}
                            ELSE SharedAt(asked)
      /\ S!Scoped(a, asked) = IF S!At(<<a>> \o asked) # {} THEN S!At(<<a>> \o asked) ELSE SharedAt(asked)
    <2>1. Brought(a, "secrets") = S!Kept(S!Layered(Secrets[a])) /\ Brought(a, "fragment") = S!Kept(S!Layered(Fragments[a]))
        BY DEF Brought, S!Document
    <2> QED BY <1>2, <2>1 DEF S!View, S!Scoped, S!InScope, SharedAt
<1>4. CASE S!Has(Group, <<a>> \o asked)
    <2>1. PICK p \in Group : S!Under(<<a>> \o asked, p)
        BY <1>4 DEF S!Has
    <2>2. p \in S!Paths /\ Len(p) > 1
        BY <1>0, <2>1, PathsFit, OwnAt
    <2>3. p # <<a>>
        <3>1. Len(<<a>>) = 1 /\ Len(p) \in Nat
            BY <2>2, PathsFit
        <3>2. Len(p) # 1
            BY <2>2, <3>1, NotOne
        <3> QED BY <3>1, <3>2
    <2>4. p = <<a>> \o asked
        BY <1>0, <2>1, <2>3 DEF S!OneValue
    <2> QED BY <1>0, <1>3, <1>4, <2>1, <2>4, ProcessFirst
<1>5. CASE ~S!Has(Group, <<a>> \o asked) /\ S!Has(Brought(a, "secrets"), asked)
    <2>1. \E f \in Kinds : f = "secrets" /\ S!At(<<a>> \o asked) = {<<a, f>>}
        BY <1>0, <1>1, <1>5, MergedValue DEF Kinds
    <2> QED BY <1>0, <1>3, <1>5, <2>1
<1>6. CASE ~S!Has(Group, <<a>> \o asked) /\ ~S!Has(Brought(a, "secrets"), asked) /\ S!Has(Brought(a, "fragment"), asked)
    <2>1. \E f \in Kinds : asked \in Brought(a, f) /\ S!At(<<a>> \o asked) = {<<a, f>>}
        BY <1>0, <1>1, <1>6, MergedValue DEF Kinds
    <2>2. asked \notin Brought(a, "secrets")
        BY <1>0, <1>6, UnderOrder DEF S!Has, Keys
    <2>3. S!At(<<a>> \o asked) = {<<a, "fragment">>}
        BY <2>1, <2>2 DEF Kinds
    <2> QED BY <1>0, <1>3, <1>6, <2>3
<1>7. CASE ~S!Has(Group, <<a>> \o asked) /\ ~S!Has(Brought(a, "secrets"), asked) /\ ~S!Has(Brought(a, "fragment"), asked)
    <2>1. ASSUME NEW o \in S!At(<<a>> \o asked) PROVE FALSE
        <3>1. PICK p \in S!Paths : S!Under(<<a>> \o asked, p) /\ o = tree[p]
            BY <2>1, InAt
        <3>2. p \notin Group
            BY <1>7, <3>1 DEF S!Has
        <3>3. \E f \in Kinds : \E k \in Brought(a, f) : p = <<a>> \o k /\ tree[p] = <<a, f>> /\ S!Under(asked, k) /\ k \in Keys
            BY <1>0, <3>1, <3>2, FromFiles
        <3> QED BY <3>3, <1>7 DEF S!Has, Kinds
    <2>2. S!At(<<a>> \o asked) = {}
        BY <2>1
    <2> QED BY <1>0, <1>3, <1>7, <2>2
<1> QED BY <1>4, <1>5, <1>6, <1>7

LEMMA OfTwo == ASSUME NEW U, NEW a \in U, NEW b \in U PROVE <<a, b>> \in Seq(U) /\ Len(<<a, b>>) = 2
OBVIOUS

\* A key in a table.
LEMMA TableKeys ==
    ASSUME NEW a \in STRING, NEW table \in Keys, NEW k \in STRING, Len(table) # 1
    PROVE  /\ table \o <<k>> \in Keys /\ (table \o <<k>>)[1] = table[1] /\ Len(table \o <<k>>) # 1
           /\ <<a>> \o table \o <<k>> = <<a>> \o (table \o <<k>>)
           /\ S!Under(table, table \o <<k>>) /\ S!Under(<<a>> \o table, <<a>> \o (table \o <<k>>))
<1> DEFINE one == <<k>>
           deep == table \o one
<1>1. table \in Seq(STRING) /\ one \in Seq(STRING) /\ <<a>> \in Seq(STRING) /\ Len(one) = 1 /\ Len(table) \in Nat /\ Len(table) > 0
    <2>1. one \in Seq(STRING) /\ <<a>> \in Seq(STRING)
        BY OfOne
    <2>2. table \in Seq(STRING) /\ Len(table) \in Nat /\ Len(table) > 0
        BY DEF Keys
    <2>3. Len(one) = 1
        OBVIOUS
    <2> QED BY <2>1, <2>2, <2>3
<1> HIDE DEF one
<1>2. /\ deep \in Seq(STRING) /\ Len(deep) = Len(table) + 1
      /\ \A i \in 1..Len(table) + 1 : deep[i] = IF i <= Len(table) THEN table[i] ELSE one[i - Len(table)]
    BY <1>1, ConcatProperties
<1> HIDE DEF deep
<1>3. \A i \in 1..Len(table) : deep[i] = table[i]
    BY <1>1, <1>2
<1>4. Len(deep) \in Nat /\ Len(deep) > 1 /\ deep # <<>> /\ deep[1] = table[1]
    BY <1>1, <1>2, <1>3
<1>5. S!Under(table, deep)
    BY <1>1, <1>2, <1>3, UnderKeys
<1>6. S!Under(<<a>> \o table, <<a>> \o deep)
    BY <1>1, <1>2, <1>5, UnderAgent
<1>7. (<<a>> \o table) \o one = <<a>> \o (table \o one)
    BY <1>1, ConcatAssociative
<1>8. Len(deep) # 1
    BY <1>4, NotOne
<1>9. deep \in Keys
    BY <1>2, <1>4 DEF Keys
<1> QED BY <1>4, <1>5, <1>6, <1>7, <1>8, <1>9 DEF deep, one

\* A table's setting, or the flat one, is the agent's own or the process's.
LEMMA ElseFlatOwners ==
    ASSUME S!Parameters, SettingsInv, NEW a \in S!Names, NEW table \in Keys, Len(table) # 1, NEW k \in STRING,
           NEW o \in S!ElseFlat(a, table, k)
    PROVE  o[1] \in {a, "process"}
<1>0. a \in STRING
    BY DEF S!Parameters, S!Names
<1> DEFINE deep == table \o <<k>>
<1>1. CASE o \in S!InTable(a, table, k)
    <2>0. deep \in Keys /\ <<a>> \o table \o <<k>> = <<a>> \o deep
        BY <1>0, TableKeys
    <2>1. o \in S!At(<<a>> \o deep) \/ o \in S!Scoped(a, deep)
        BY <1>1, <2>0 DEF S!InTable
    <2> HIDE DEF deep
    <2>3. CASE o \in S!At(<<a>> \o deep)
        BY <2>0, <2>3, InAt, OwnAt
    <2>4. CASE o \in S!Scoped(a, deep)
        BY <2>0, <2>4, ScopedOwners
    <2> QED BY <2>1, <2>3, <2>4
<1>2. CASE o \notin S!InTable(a, table, k)
    <2>1. o \in S!Read(a, <<k>>)
        BY <1>2 DEF S!ElseFlat
    <2>2. o = <<"process", "environment">> \/ o \in S!Scoped(a, <<k>>)
        BY <2>1 DEF S!Read
    <2>3. <<k>> \in Keys
        BY OfOne DEF Keys
    <2>4. o \in S!Scoped(a, <<k>>) => o[1] \in {a, "process"}
        BY <2>3, ScopedOwners
    <2> QED BY <2>2, <2>4
<1> QED BY <1>1, <1>2

\* A table of which a view sees nothing says nothing.
LEMMA EmptyTable ==
    ASSUME NEW a \in STRING, NEW table \in Keys, Len(table) # 1, NEW k \in STRING,
           S!Paths \subseteq Seq(STRING), S!Scoped(a, table) = {}
    PROVE  S!InTable(a, table, k) = {}
<1> DEFINE deep == table \o <<k>>
<1>1. /\ deep \in Keys /\ deep[1] = table[1] /\ Len(deep) # 1
      /\ S!Under(table, deep) /\ S!Under(<<a>> \o table, <<a>> \o deep)
    BY TableKeys
<1>2. S!At(<<a>> \o table) = {}
    BY DEF S!Scoped, S!InScope
<1>3. S!InTable(a, table, k) = S!Scoped(a, deep)
    BY <1>2 DEF S!InTable, S!InScope
<1> HIDE DEF deep
<1>4. \A x, y, z \in Seq(STRING) : S!Under(x, y) /\ S!Under(y, z) => S!Under(x, z)
    BY UnderOrder
<1>5. /\ table \in Seq(STRING) /\ deep \in Seq(STRING)
      /\ <<a>> \o table \in Seq(STRING) /\ <<a>> \o deep \in Seq(STRING)
    BY <1>1, UnderAgent DEF Keys
<1>6. S!At(deep) \subseteq S!At(table) /\ S!At(<<a>> \o deep) \subseteq S!At(<<a>> \o table)
    <2>1. \A p \in S!Paths : S!Under(deep, p) => S!Under(table, p)
        BY <1>1, <1>4, <1>5
    <2>2. \A p \in S!Paths : S!Under(<<a>> \o deep, p) => S!Under(<<a>> \o table, p)
        BY <1>1, <1>4, <1>5
    <2>3. S!At(deep) \subseteq S!At(table)
        BY <2>1, InAt
    <2>4. S!At(<<a>> \o deep) \subseteq S!At(<<a>> \o table)
        <3>1. ASSUME NEW o \in S!At(<<a>> \o deep) PROVE o \in S!At(<<a>> \o table)
            <4>1. PICK p \in S!Paths : S!Under(<<a>> \o deep, p) /\ o = tree[p]
                BY <3>1, InAt
            <4>2. S!Under(<<a>> \o table, p)
                BY <2>2, <4>1
            <4> QED BY <4>1, <4>2, InAt
        <3> QED BY <3>1
    <2> QED BY <2>3, <2>4
<1>7. S!Foreign(table) <=> S!Foreign(deep)
    BY <1>1 DEF S!Foreign
<1>8. S!At(<<a>> \o deep) = {}
    BY <1>2, <1>6
<1>9. CASE S!Foreign(table)
    BY <1>3, <1>7, <1>8, <1>9 DEF S!Scoped, S!InScope
<1>10. CASE ~S!Foreign(table)
    <2>1. S!At(table) = {}
        BY <1>2, <1>10 DEF S!Scoped, S!InScope
    <2> QED BY <1>3, <1>6, <1>7, <1>8, <1>10, <2>1 DEF S!Scoped, S!InScope
<1> QED BY <1>9, <1>10

\* A runtime's model and its prompts come from one place.
LEMMA OnePlace ==
    ASSUME S!Parameters, SettingsInv, NEW a \in S!Names, NEW r \in STRING, NEW k \in STRING
    PROVE  /\ \A o \in S!ModelSetting(a, r, k) \cup S!PromptSetting(a, r, k) : o[1] \in {a, "process"}
           /\ S!Scoped(a, <<"runtime", r>>) = {} => S!ModelSetting(a, r, k) = S!PromptSetting(a, r, k)
<1> DEFINE newer == <<"runtimes", r>>
           older == <<"runtime", r>>
<1>0. a \in STRING /\ S!Paths \subseteq Seq(STRING) /\ "runtime" \in STRING /\ "runtimes" \in STRING
    BY DEF S!Parameters, S!Names, SettingsInv, S!WellFormed
<1>1. newer \in Keys /\ older \in Keys /\ Len(newer) # 1 /\ Len(older) # 1
    <2>1. ASSUME NEW t \in STRING PROVE <<t, r>> \in Seq(STRING) /\ Len(<<t, r>>) = 2
        BY OfTwo
    <2>2. ASSUME NEW t \in STRING PROVE <<t, r>> \in Keys /\ Len(<<t, r>>) # 1
        <3> DEFINE table == <<t, r>>
        <3>1. table \in Seq(STRING) /\ Len(table) = 2
            BY <2>1
        <3> HIDE DEF table
        <3>2. Len(table) # 1 /\ table # <<>>
            BY <3>1
        <3>3. table \in Keys /\ Len(table) # 1
            BY <3>1, <3>2 DEF Keys
        <3> QED BY <3>3 DEF table
    <2> QED BY <1>0, <2>2
<1>2. S!ModelSetting(a, r, k) = S!ElseFlat(a, newer, k)
    BY DEF S!ModelSetting
<1>3. S!PromptSetting(a, r, k) = IF S!Scoped(a, newer) # {} THEN S!ElseFlat(a, newer, k) ELSE S!ElseFlat(a, older, k)
    BY DEF S!PromptSetting
<1> HIDE DEF newer, older
<1>4. \A o \in S!ElseFlat(a, newer, k) : o[1] \in {a, "process"}
    BY <1>1, ElseFlatOwners
<1>5. \A o \in S!ElseFlat(a, older, k) : o[1] \in {a, "process"}
    BY <1>1, ElseFlatOwners
<1>6. ASSUME S!Scoped(a, older) = {}, S!Scoped(a, newer) = {}
      PROVE  S!ElseFlat(a, newer, k) = S!ElseFlat(a, older, k)
    <2>1. S!InTable(a, newer, k) = {}
        BY <1>0, <1>1, <1>6, EmptyTable
    <2>2. S!InTable(a, older, k) = {}
        BY <1>0, <1>1, <1>6, EmptyTable
    <2> QED BY <2>1, <2>2 DEF S!ElseFlat
<1>7. S!Scoped(a, older) = {} => S!ModelSetting(a, r, k) = S!PromptSetting(a, r, k)
    BY <1>2, <1>3, <1>6
<1>8. \A o \in S!ModelSetting(a, r, k) \cup S!PromptSetting(a, r, k) : o[1] \in {a, "process"}
    BY <1>2, <1>3, <1>4, <1>5
<1> QED BY <1>7, <1>8 DEF older

\* What is flattened for an agent is its own and the process's.
LEMMA ResolvedOwners ==
    ASSUME S!Parameters, SettingsInv, NEW a \in S!Names, NEW o \in S!Resolved(a)
    PROVE  o[1] \in {a, "process"}
<1>1. PICK p \in S!Paths : ((Len(p) > 1 /\ p[1] = a) \/ p[1] \notin S!Names) /\ o = tree[p]
    BY DEF S!Resolved
<1> QED BY <1>1, Whose

LEMMA SettingsNext == S!Parameters /\ SettingsInv /\ [S!Next]_(S!vars) => SettingsInv'
<1> SUFFICES ASSUME S!Parameters, SettingsInv, [S!Next]_(S!vars) PROVE SettingsInv'
    OBVIOUS
<1>1. CASE S!Next
    BY <1>1, MergeStep DEF S!Next
<1>2. CASE UNCHANGED S!vars
    BY <1>2 DEF S!vars, SettingsInv, S!Paths, Merged
<1> QED BY <1>1, <1>2

LEMMA ReadsOwn == S!Parameters /\ SettingsInv => S!ReadsOwnOrShared
<1> SUFFICES ASSUME S!Parameters, SettingsInv, S!Settled, NEW a \in S!Names
             PROVE  /\ \A asked \in s_Asked : \A o \in S!Read(a, asked) :
                          /\ o[1] \in {a, "process"}
                          /\ asked[1] \in ProcessKeys => o[2] \in {"process", "environment"}
                          /\ (<<a>> \o asked) \in Group /\ asked # S!EnvironmentKey => o = <<a, "process">>
                          /\ ~S!Has(Group, <<a>> \o asked) /\ asked \in S!Layered(Secrets[a]) => o[2] # "fragment"
                    /\ \A asked \in Validated : S!Read(a, asked) = S!View(a, asked)
                    /\ \A b \in Built :
                          /\ \A o \in S!ModelSetting(a, b[1], b[2]) \cup S!PromptSetting(a, b[1], b[2]) : o[1] \in {a, "process"}
                          /\ S!Scoped(a, <<"runtime", b[1]>>) = {} =>
                                S!ModelSetting(a, b[1], b[2]) = S!PromptSetting(a, b[1], b[2])
                    /\ \A o \in S!Resolved(a) : o[1] \in {a, "process"}
    BY DEF S!ReadsOwnOrShared
<1>1. ASSUME NEW asked \in s_Asked, NEW o \in S!Read(a, asked)
      PROVE  /\ o[1] \in {a, "process"}
             /\ asked[1] \in ProcessKeys => o[2] \in {"process", "environment"}
             /\ (<<a>> \o asked) \in Group /\ asked # S!EnvironmentKey => o = <<a, "process">>
             /\ ~S!Has(Group, <<a>> \o asked) /\ asked \in S!Layered(Secrets[a]) => o[2] # "fragment"
    <2>1. asked \in Keys
        BY DEF S!Parameters, Keys
    <2>2. CASE asked = S!EnvironmentKey
        <3>1. o = <<"process", "environment">>
            BY <1>1, <2>2 DEF S!Read
        <3> QED BY <2>2, <3>1
    <2>3. CASE asked # S!EnvironmentKey
        <3>1. o \in S!Scoped(a, asked)
            BY <1>1, <2>3 DEF S!Read
        <3>2. o[1] \in {a, "process"}
            BY <2>1, <3>1, ScopedOwners
        <3>3. asked[1] \in ProcessKeys => o[2] = "process"
            BY <2>1, <3>1, ProcessOnly
        <3>4. (<<a>> \o asked) \in Group => o = <<a, "process">>
            BY <2>1, <3>1, ProcessFirst
        <3>5. ~S!Has(Group, <<a>> \o asked) /\ asked \in S!Layered(Secrets[a]) => o[2] # "fragment"
            BY <2>1, <3>1, SecretsFirst
        <3> QED BY <3>2, <3>3, <3>4, <3>5
    <2> QED BY <2>2, <2>3
<1>2. \A asked \in Validated : S!Read(a, asked) = S!View(a, asked)
    BY ReadAsValidated
<1>3. \A b \in Built : b[1] \in STRING /\ b[2] \in STRING
    BY DEF S!Parameters
<1>4. ASSUME NEW b \in Built
      PROVE  /\ \A o \in S!ModelSetting(a, b[1], b[2]) \cup S!PromptSetting(a, b[1], b[2]) : o[1] \in {a, "process"}
             /\ S!Scoped(a, <<"runtime", b[1]>>) = {} => S!ModelSetting(a, b[1], b[2]) = S!PromptSetting(a, b[1], b[2])
    BY <1>3, OnePlace
<1>5. \A o \in S!Resolved(a) : o[1] \in {a, "process"}
    BY ResolvedOwners
<1> QED BY <1>1, <1>2, <1>4, <1>5

LEMMA OwnAlways == ASSUME S!Parameters PROVE S!Spec => []S!ReadsOwnOrShared
<1>1. S!Init => SettingsInv
    BY SettingsInit
<1>2. SettingsInv /\ [S!Next]_(S!vars) => SettingsInv'
    BY SettingsNext
<1>3. SettingsInv => S!ReadsOwnOrShared
    BY ReadsOwn
<1> QED BY <1>1, <1>2, <1>3, PTL DEF S!Spec

LEMMA SettingsPart == ProcessSpec => S!Spec
<1>1. ProcessInit => S!Init
    BY DEF ProcessInit
<1>2. [ProcessNext]_process_vars => [S!Next]_(S!vars)
    <2> SUFFICES ASSUME ProcessNext \/ UNCHANGED process_vars PROVE S!Next \/ UNCHANGED S!vars
        OBVIOUS
    <2>1. CASE Settles
        BY <2>1 DEF Settles, S!Next
    <2>2. CASE UNCHANGED s_vars
        BY <2>2 DEF s_vars, S!vars
    <2>3. ProcessNext => Settles \/ UNCHANGED s_vars
        BY DEF ProcessNext, Lives, Ticking, Caching, Keying, FanningOut, Provisions, Assembles, Processes, Settles, Joins, About, Only
    <2>4. UNCHANGED process_vars => UNCHANGED s_vars
        BY DEF process_vars
    <2> QED BY <2>1, <2>2, <2>3, <2>4
<1> QED BY <1>1, <1>2, PTL DEF ProcessSpec, S!Spec

\* Whatever the files of the agents say, once they are merged an agent reads its own
\* values or the process's, in the order of who may say what, and what `asbs validate`
\* judged before anything was merged is what it reads (merge_agent_settings, _scoped_get,
\* agent_view).
THEOREM ReadsItsOwn == ProcessSpec => []ReadsOwnOrShared
<1>1. S!Spec => []S!ReadsOwnOrShared
    BY OwnAlways, SettingsParameters
<1> QED BY <1>1, SettingsPart, PTL DEF ReadsOwnOrShared

-----------------------------------------------------------------------------
(* The start of the process is in Assembly_proofs, whose theorems are about *)
(* the specification of that part.                                          *)

\* A behaviour of the process is, for its start, one of Assembly, so that what is
\* proved of the start of a process holds of every process.
THEOREM StartIsAssembly == ProcessSpec => Spec
<1>1. ProcessInit => Init
    BY DEF ProcessInit
<1>2. [ProcessNext]_process_vars => [Next]_vars
    <2> SUFFICES ASSUME ProcessNext \/ UNCHANGED process_vars PROVE Next \/ UNCHANGED vars
        OBVIOUS
    <2>1. CASE Assembles
        BY <2>1 DEF Assembles, Next
    <2>2. CASE UNCHANGED a_vars
        BY <2>2 DEF a_vars, vars
    <2>3. ProcessNext => Assembles \/ UNCHANGED a_vars
        BY DEF ProcessNext, Lives, Ticking, Caching, Keying, FanningOut, Provisions, Assembles, Processes, Settles, Joins, About, Only
    <2>4. UNCHANGED process_vars => UNCHANGED a_vars
        BY DEF process_vars
    <2> QED BY <2>1, <2>2, <2>3, <2>4
<1> QED BY <1>1, <1>2, PTL DEF ProcessSpec, Spec
=============================================================================
