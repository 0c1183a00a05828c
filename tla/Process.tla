------------------------------ MODULE Process -------------------------------
(***************************************************************************)
(* A process and what it talks to, part by part.  The parts share no state *)
(* with one another, so a behaviour is about one of them, chosen once, and *)
(* the others stay where they are.  A constant or a variable that two      *)
(* parts have bears the letter of its part.                                *)
(***************************************************************************)
EXTENDS Validation

CONSTANTS
    Parts,       \* the parts the behaviours are about
    l_Names, l_Root, l_Critical, Order, NameOf, KindOf, l_Consumes, Policies, l_MaxFaults, l_MaxFlips,
    t_Replicas, MinuteUnits, Grace, MaxWait, MaxSkew, t_MaxTime, t_MaxFaults,
    Callers, d_Keys, Never, Ttls, d_MaxTime, MaxCalls,
    Jobs, NoKey, Sources, MaxKeys, k_MaxFaults,
    f_Handlers, f_Topics, f_Dedup, f_Publishing, Deliveries, f_MaxFlips,
    p_Clients, Wanted, Topic, Durable, Wider, OperatorAdds, p_MaxFaults,
    e_Agents, e_Handlers, e_Dedup, Types, Publishable, MaxDeliver, e_MaxFaults,
    s_Agents, Group, Secrets, Fragments, Environment, Environments, ProcessKeys, IdentityKeys, SharedTables,
    s_Asked, Built, Validated,
    c_Replicas, c_Runs, Standing, MaxStarts

VARIABLES
    part,
    policy, phase, at, comp, pending, task, cancelled, forced, fatal, up, health, poll,
    verdict, ready, notLive, term, l_faults, l_flips,
    t_now, skew, cursor, timer, job, slot, expiry, runs, open, t_faults,
    d_now, value, expires, lock, d_at, d_seen, call, since, answer, calls, before,
    source, issued, cached, k_at, attempt, key, refusal, k_faults,
    turn, f_at, outcomes, claimed, marker, paused, settled, finished, refused, overlapped,
    unread, f_flips, topic, declarative,
    stream, subjects, consumer, p_at, p_seen, p_fatal, raced, unsure, p_faults,
    event, named, e_at, e_attempt, place, results, e_marker, accepted, e_issued, answered, e_faults,
    tree, files,
    c_at, link, conf, todo, adding, on, durables, offers, starts

l_vars == <<policy, phase, at, comp, pending, task, cancelled, forced, fatal, up, health, poll,
            verdict, ready, notLive, term, l_faults, l_flips>>
t_vars == <<t_now, skew, cursor, timer, job, slot, expiry, runs, open, t_faults>>
d_vars == <<d_now, value, expires, lock, d_at, d_seen, call, since, answer, calls, before>>
k_vars == <<source, issued, cached, k_at, attempt, key, refusal, k_faults>>
f_vars == <<turn, f_at, outcomes, claimed, marker, paused, settled, finished, refused, overlapped,
            unread, f_flips, topic, declarative>>
p_vars == <<stream, subjects, consumer, p_at, p_seen, p_fatal, raced, unsure, p_faults>>
a_vars == vars
e_vars == <<event, named, e_at, e_attempt, place, results, e_marker, accepted, e_issued, answered, e_faults>>
s_vars == <<tree, files>>
c_vars == <<c_at, link, conf, todo, adding, on, durables, offers, starts>>

-----------------------------------------------------------------------------
(* The parts; the start of the process, Validation, is here as it is.       *)
L == INSTANCE Lifecycle WITH
        Names <- l_Names, Root <- l_Root, Critical <- l_Critical, Consumes <- l_Consumes,
        MaxFaults <- l_MaxFaults, MaxFlips <- l_MaxFlips, faults <- l_faults, flips <- l_flips
T == INSTANCE Ticks WITH
        Replicas <- t_Replicas, MaxTime <- t_MaxTime, MaxFaults <- t_MaxFaults, now <- t_now, faults <- t_faults
D == INSTANCE DiskCache WITH Keys <- d_Keys, MaxTime <- d_MaxTime, now <- d_now, at <- d_at, seen <- d_seen
K == INSTANCE SessionKeys WITH MaxFaults <- k_MaxFaults, at <- k_at, faults <- k_faults
F == INSTANCE FanOut WITH
        Handlers <- f_Handlers, Topics <- f_Topics, Dedup <- f_Dedup, Publishing <- f_Publishing,
        MaxFlips <- f_MaxFlips, at <- f_at, flips <- f_flips
P == INSTANCE Provisioning WITH
        Clients <- p_Clients, MaxFaults <- p_MaxFaults, at <- p_at, seen <- p_seen, fatal <- p_fatal, faults <- p_faults
E == INSTANCE Processing WITH
        Agents <- e_Agents, Handlers <- e_Handlers, Dedup <- e_Dedup, MaxFaults <- e_MaxFaults,
        at <- e_at, attempt <- e_attempt, marker <- e_marker, issued <- e_issued, faults <- e_faults
S == INSTANCE Settings WITH Agents <- s_Agents, Asked <- s_Asked
C == INSTANCE Channels WITH Replicas <- c_Replicas, Runs <- c_Runs, at <- c_at

(* What the theorems about the parts assume of their constants. *)
ASSUME LifecycleParameters == L!Parameters
ASSUME TicksParameters == T!Parameters
ASSUME CacheParameters == D!Parameters
ASSUME KeysParameters == K!Parameters
ASSUME ProvisioningParameters == P!Parameters
ASSUME ProcessingParameters == E!Parameters
ASSUME FanOutParameters == F!Parameters
ASSUME SettingsParameters == S!Parameters
ASSUME ChannelsParameters == C!Parameters

-----------------------------------------------------------------------------
(* A part no behaviour is about begins in one state.                        *)
SomeDeployment == CHOOSE d \in Deployments : TRUE

ProcessInit ==
    /\ part \in Parts
    /\ L!Init /\ (part # "lifecycle" => policy = CHOOSE p \in Policies : TRUE)
    /\ T!Init /\ (part # "ticks" => \A r \in t_Replicas : skew[r] = 0)
    /\ D!Init
    /\ K!Init /\ (part # "keys" => source = CHOOSE s \in Sources : TRUE)
    /\ F!Init /\ (part # "fan_out" => ~unread /\ ~declarative /\ topic = CHOOSE t \in f_Topics : TRUE)
    /\ P!Init /\ (part # "provisioning" => ~stream)
    /\ Init /\ (part # "assembly" => dep = SomeDeployment)
    /\ E!Init /\ (part # "processing" => named /\ event = CHOOSE e \in Types : TRUE)
    /\ S!Init
    /\ C!Init /\ (part # "channels" => durables = (CHOOSE d \in Standing : TRUE) /\ offers)

(* A step of one part leaves the others alone. *)
About(p) == part = p
Only(p) ==
    /\ UNCHANGED part
    /\ IF p = "lifecycle" THEN TRUE ELSE UNCHANGED l_vars
    /\ IF p = "ticks" THEN TRUE ELSE UNCHANGED t_vars
    /\ IF p = "cache" THEN TRUE ELSE UNCHANGED d_vars
    /\ IF p = "keys" THEN TRUE ELSE UNCHANGED k_vars
    /\ IF p = "fan_out" THEN TRUE ELSE UNCHANGED f_vars
    /\ IF p = "provisioning" THEN TRUE ELSE UNCHANGED p_vars
    /\ IF p = "assembly" THEN TRUE ELSE UNCHANGED a_vars
    /\ IF p = "processing" THEN TRUE ELSE UNCHANGED e_vars
    /\ IF p = "settings" THEN TRUE ELSE UNCHANGED s_vars
    /\ IF p = "channels" THEN TRUE ELSE UNCHANGED c_vars

Lives ==
    \/ About("lifecycle") /\ L!StartOk /\ Only("lifecycle")
    \/ About("lifecycle") /\ L!Serve /\ Only("lifecycle")
    \/ About("lifecycle") /\ L!PollDue /\ Only("lifecycle")
    \/ About("lifecycle") /\ L!Terminate /\ Only("lifecycle")
    \/ About("lifecycle") /\ L!CancelRecovery /\ Only("lifecycle")
    \/ About("lifecycle") /\ L!StartStopping /\ Only("lifecycle")
    \/ About("lifecycle") /\ L!Stopped /\ Only("lifecycle")
    \/ \E d \in BOOLEAN :
          \/ About("lifecycle") /\ L!StartFails(d) /\ Only("lifecycle")
    \/ \E n \in l_Names :
          \/ About("lifecycle") /\ L!RetryDue(n) /\ Only("lifecycle")
          \/ About("lifecycle") /\ L!RetryOk(n) /\ Only("lifecycle")
          \/ About("lifecycle") /\ L!RetryFails(n) /\ Only("lifecycle")
          \/ About("lifecycle") /\ L!Refreshed(n) /\ Only("lifecycle")
          \/ About("lifecycle") /\ L!HealthChanges(n) /\ Only("lifecycle")
          \/ About("lifecycle") /\ L!RecoveryEnds(n) /\ Only("lifecycle")
    \/ \E n \in l_Names, d \in BOOLEAN :
          \/ About("lifecycle") /\ L!TransportFatal(n, d) /\ Only("lifecycle")
    \/ \E w \in L!Pollers :
          \/ About("lifecycle") /\ L!Aggregate(w) /\ Only("lifecycle")
          \/ About("lifecycle") /\ L!Observe(w) /\ Only("lifecycle")
    \/ \E c \in L!Comps :
          \/ About("lifecycle") /\ L!Stop(c) /\ Only("lifecycle")

Ticking ==
    \/ About("ticks") /\ T!Elapses /\ Only("ticks")
    \/ \E r \in t_Replicas :
          \/ About("ticks") /\ T!Starts(r) /\ Only("ticks")
          \/ About("ticks") /\ T!Fires(r) /\ Only("ticks")
          \/ About("ticks") /\ T!Claims(r) /\ Only("ticks")
          \/ About("ticks") /\ T!ClaimFails(r) /\ Only("ticks")
          \/ About("ticks") /\ T!TickEnds(r) /\ Only("ticks")
          \/ About("ticks") /\ T!Crashes(r) /\ Only("ticks")

Caching ==
    \/ About("cache") /\ D!Elapses /\ Only("cache")
    \/ \E c \in Callers :
          \/ About("cache") /\ D!Locks(c) /\ Only("cache")
          \/ About("cache") /\ D!GetLooksAtExpiry(c) /\ Only("cache")
          \/ About("cache") /\ D!GetDeletes(c) /\ Only("cache")
          \/ About("cache") /\ D!GetReads(c) /\ Only("cache")
          \/ About("cache") /\ D!ExistsLooksAtExpiry(c) /\ Only("cache")
          \/ About("cache") /\ D!ExistsReads(c) /\ Only("cache")
          \/ About("cache") /\ D!SetsValue(c) /\ Only("cache")
          \/ About("cache") /\ D!ClaimAdds(c) /\ Only("cache")
          \/ About("cache") /\ D!ClaimTakesOver(c) /\ Only("cache")
          \/ About("cache") /\ D!WritesExpiry(c) /\ Only("cache")
          \/ About("cache") /\ D!Deletes(c) /\ Only("cache")
          \/ About("cache") /\ D!DeletesExpiry(c) /\ Only("cache")
          \/ About("cache") /\ D!Raises(c) /\ Only("cache")
          \/ About("cache") /\ D!Returns(c) /\ Only("cache")
    \/ \E c \in Callers, what \in D!Calls :
          \/ About("cache") /\ D!Asks(c, what) /\ Only("cache")

Keying ==
    \/ About("keys") /\ K!Rotates /\ Only("keys")
    \/ About("keys") /\ K!Lapses /\ Only("keys")
    \/ \E j \in Jobs :
          \/ About("keys") /\ K!Begins(j) /\ Only("keys")
          \/ About("keys") /\ K!Serves(j) /\ Only("keys")
          \/ About("keys") /\ K!Stores(j) /\ Only("keys")
          \/ About("keys") /\ K!LapsesInHand(j) /\ Only("keys")
          \/ About("keys") /\ K!Succeeds(j) /\ Only("keys")
          \/ About("keys") /\ K!Refused(j) /\ Only("keys")
          \/ About("keys") /\ K!GivesUp(j) /\ Only("keys")
          \/ About("keys") /\ K!FetchFails(j) /\ Only("keys")
          \/ About("keys") /\ K!ClaimConflict(j) /\ Only("keys")
          \/ About("keys") /\ K!RunFails(j) /\ Only("keys")
          \/ About("keys") /\ K!TimesOut(j) /\ Only("keys")

FanningOut ==
    \/ \E n \in F!Names :
          \/ About("fan_out") /\ F!Pauses(n) /\ Only("fan_out")
    \/ \E d \in Deliveries :
          \/ About("fan_out") /\ F!Delivered(d) /\ Only("fan_out")
          \/ About("fan_out") /\ F!OfferPaused(d) /\ Only("fan_out")
          \/ About("fan_out") /\ F!Runs(d) /\ Only("fan_out")
          \/ About("fan_out") /\ F!OfferDuplicate(d) /\ Only("fan_out")
          \/ About("fan_out") /\ F!RunEnds(d) /\ Only("fan_out")
          \/ About("fan_out") /\ F!PublishEnds(d) /\ Only("fan_out")
          \/ About("fan_out") /\ F!Raises(d) /\ Only("fan_out")
          \/ About("fan_out") /\ F!Answers(d) /\ Only("fan_out")

Provisions ==
    \/ \E s \in OperatorAdds :
          \/ About("provisioning") /\ P!Operator(s) /\ Only("provisioning")
    \/ \E c \in p_Clients :
          \/ About("provisioning") /\ P!Looks(c) /\ Only("provisioning")
          \/ About("provisioning") /\ P!LooksAgain(c) /\ Only("provisioning")
          \/ About("provisioning") /\ P!Creates(c) /\ Only("provisioning")
          \/ About("provisioning") /\ P!Widens(c) /\ Only("provisioning")
          \/ About("provisioning") /\ P!WidensUnanswered(c) /\ Only("provisioning")
          \/ About("provisioning") /\ P!Refused(c) /\ Only("provisioning")
          \/ About("provisioning") /\ P!LooksAtDurable(c) /\ Only("provisioning")
          \/ About("provisioning") /\ P!AddsDurable(c) /\ Only("provisioning")
          \/ About("provisioning") /\ P!Unanswered(c) /\ Only("provisioning")
          \/ About("provisioning") /\ P!CreatesUnanswered(c) /\ Only("provisioning")
          \/ About("provisioning") /\ P!AddsUnanswered(c) /\ Only("provisioning")
          \/ About("provisioning") /\ P!Retries(c) /\ Only("provisioning")
          \/ About("provisioning") /\ P!Reconnects(c) /\ Only("provisioning")

Assembles ==
    \/ About("assembly") /\ ResolveGroup /\ Only("assembly")
    \/ About("assembly") /\ LoadAgent /\ Only("assembly")
    \/ About("assembly") /\ HostAgents /\ Only("assembly")
    \/ About("assembly") /\ ReplayAgent /\ Only("assembly")
    \/ About("assembly") /\ AllReplayed /\ Only("assembly")
    \/ About("assembly") /\ HostRoot /\ Only("assembly")
    \/ About("assembly") /\ Construct /\ Only("assembly")
    \/ About("assembly") /\ RestoreOrder /\ Only("assembly")
    \/ About("assembly") /\ CreateCache /\ Only("assembly")
    \/ About("assembly") /\ CachesDone /\ Only("assembly")
    \/ About("assembly") /\ WireScheduler /\ Only("assembly")
    \/ About("assembly") /\ SchedulersDone /\ Only("assembly")
    \/ About("assembly") /\ WireTransport /\ Only("assembly")
    \/ About("assembly") /\ Mount /\ Only("assembly")
    \/ About("assembly") /\ Startup /\ Only("assembly")

Processes ==
    \E n \in e_Agents :
        \/ About("processing") /\ E!Unopened(n) /\ Only("processing")
        \/ About("processing") /\ E!Arrives(n) /\ Only("processing")
        \/ About("processing") /\ E!Passes(n) /\ Only("processing")
        \/ About("processing") /\ E!Skips(n) /\ Only("processing")
        \/ About("processing") /\ E!Gives(n) /\ Only("processing")
        \/ About("processing") /\ E!Raises(n) /\ Only("processing")
        \/ About("processing") /\ E!Unhandled(n) /\ Only("processing")
        \/ About("processing") /\ E!Publishes(n) /\ Only("processing")
        \/ About("processing") /\ E!PublishFails(n) /\ Only("processing")
        \/ About("processing") /\ E!Processed(n) /\ Only("processing")
        \/ About("processing") /\ E!AckLost(n) /\ Only("processing")

Settles == \E n \in S!Names : About("settings") /\ S!Merges(n) /\ Only("settings")

Joins ==
    \E r \in c_Replicas :
        \/ About("channels") /\ C!Refused(r) /\ Only("channels")
        \/ About("channels") /\ C!Starts(r) /\ Only("channels")
        \/ About("channels") /\ C!Connects(r) /\ Only("channels")
        \/ About("channels") /\ C!ConnectsHalf(r) /\ Only("channels")
        \/ About("channels") /\ C!ConnectedAlready(r) /\ Only("channels")
        \/ About("channels") /\ C!Stops(r) /\ Only("channels")
        \/ \E t \in todo[r] :
              \/ About("channels") /\ C!Listens(r, t) /\ Only("channels")
              \/ About("channels") /\ C!Looks(r, t) /\ Only("channels")
              \/ About("channels") /\ C!Adds(r, t) /\ Only("channels")

ProcessNext == Lives \/ Ticking \/ Caching \/ Keying \/ FanningOut \/ Provisions
        \/ Assembles \/ Processes \/ Settles \/ Joins

process_vars == <<part, l_vars, t_vars, d_vars, k_vars, f_vars, p_vars, a_vars, e_vars, s_vars, c_vars>>

(* L!Fairness, of the steps of this module: the properties of the other     *)
(* parts are about what may never happen.                                   *)
Recovers ==
    \A n \in l_Names :
        /\ WF_process_vars(About("lifecycle") /\ L!Recover(n) /\ Only("lifecycle"))
        /\ WF_process_vars(About("lifecycle") /\ (L!Aggregate(n) \/ L!Observe(n)) /\ Only("lifecycle"))

ProcessSpec == ProcessInit /\ [][ProcessNext]_process_vars /\ Recovers

-----------------------------------------------------------------------------
(* What the modules state; here, in the order of the parts.  What Assembly    *)
(* and Validation state of the start needs no other name.                     *)

\* An agent consumes only when all its components have started (_recover_agent).
ConsumesWhenStarted == L!ConsumesWhenStarted

\* What the shutdown has stopped is never started again (_stop_startup_recovery).
StoppedForGood == L!StoppedForGood

\* An agent that failed to start is in service again without a restart (_recover_agent).
AgentsRecover == L!AgentsRecover

\* A slot is run by one replica unless a claim failed open (_claim_tick_slot).
RunOncePerSlot == T!RunOncePerSlot

\* A key and its expiry are one entry to the callers (CacheService).
ImplementsAtomicCache == D!ImplementsAtomicCache

\* The retry after a 403 is made with a newer key (_retry_with_fresh_key).
RetriesWithNewKey == K!RetriesWithNewKey

\* The answer to the sidecar covers every agent of the topic (dapr._handle).
AnswerCoversAgents == F!AnswerCoversAgents

\* A bound client has its subjects and its durable (_provision_stream).
BoundSubjectsCarried == P!BoundSubjectsCarried

\* "Widening is additive -- subjects already on the stream are kept -- so this never
\* removes a subject an operator added" (_provision_stream).
OperatorsSubjectsKept == P!OperatorsSubjectsKept

\* The results of an event reach a consumer once (publish_handler_event).
ResultsKeptOnce == E!ResultsKeptOnce

\* An agent reads its own values or the process's (merge_agent_settings, _scoped_get).
ReadsOwnOrShared == S!ReadsOwnOrShared

\* A channel at the broker is one agent's, and all its replicas share it (_durable_for).
ChannelsHeld == C!ChannelsHeld
==============================================================================
