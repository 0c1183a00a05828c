------------------------------ MODULE Channels ------------------------------
(***************************************************************************)
(* The channels replicas of several agents consume on at one broker: what  *)
(* an agent derives its queue group, its durables and its subjects from    *)
(* (clients/io/nats_client.py), what it refuses, and how it joins what is  *)
(* at the broker already.  A replica may come back with another            *)
(* configuration, in another process.                                      *)
(*                                                                         *)
(* A subject is a sequence of tokens, a token a sequence of words and      *)
(* separators.  The stream is in Provisioning; the loop that connects, in  *)
(* Consumption; JetStream and queue groups are the broker's, external.     *)
(***************************************************************************)
EXTENDS Naturals, FiniteSets, Sequences

CONSTANTS
    Replicas,
    Runs,       \* [Replicas -> the configurations each may start with]: ns, process, topics, jobs,
                \* js, durable, dead, url, methods, claimed, hybrid, wrong
    Standing,   \* what may be at the broker already: a function from durables to filter and group
    MaxStarts   \* bound on the starts of all replicas

VARIABLES
    at,        \* [Replicas -> what the client of the agent does]
    link,      \* [Replicas -> whether it has an open connection]
    conf,      \* [Replicas -> the configuration it started with]
    todo,      \* [Replicas -> the subjects it has still to subscribe]
    adding,    \* [Replicas -> those whose durable it did not find]
    on,        \* [Replicas -> pairs of a subject and the channel it is consumed on]
    durables,  \* the consumers at the broker: filter and group
    offers,    \* the server offers JetStream to the accounts
    starts

vars == <<at, link, conf, todo, adding, on, durables, offers, starts>>

-----------------------------------------------------------------------------
(* Names and subjects.                                                     *)

Root == <<>>
Unset == <<>>

\* validate_subject_segment: what becomes part of a subject is not repaired.
Legal(token) == \A i \in DOMAIN token : token[i] \notin {" ", "*", ">"}
Plain(subject) == \A i \in DOMAIN subject : Legal(subject[i])

\* Mutant of QueueGroup: the name of the process, which may host others.
QueueGroupOfProcess(c) == c.process

\* _resolve_queue_group: the agent's name, whatever process hosts it.
QueueGroup(c) == IF c.ns # Root THEN c.ns ELSE c.process

\* SchedulerBase._resolve_topic: the tick of a job is an event of the agent's own.
TickTopic(c, job) == <<QueueGroup(c), <<"scheduler">>, job>>

\* NatsEventing._declared_topics, and the tick handlers of its schedulers.
Declared(c) == c.topics \cup {TickTopic(c, job) : job \in c.jobs}

\* _plan_named_bindings: what the connection source claims never comes on the default connection.
Consumed(c) == Declared(c) \ c.claimed

\* _durable_for: what a consumer's name may not hold is replaced, in the subject only.
Fit(token) == [i \in DOMAIN token |-> IF token[i] \in {" ", "*", ">"} THEN "_" ELSE token[i]]
SpeltTo(subject) ==
    LET upto[i \in 1..Len(subject)] == IF i = 1 THEN Fit(subject[1]) ELSE upto[i - 1] \o <<"_">> \o Fit(subject[i])
    IN  upto
Spelt(subject) == SpeltTo(subject)[Len(subject)]
DurableFor(c, subject) ==
    IF c.durable # Unset THEN c.durable
    ELSE (IF c.ns = Root THEN <<>> ELSE c.ns \o <<"-">>) \o Spelt(subject) \o <<"-", "durable">>

\* _subject_matches: what a subscription to the pattern would deliver.
Matches(pattern, subject) ==
    LET wide == Len(pattern) > 0 /\ pattern[Len(pattern)] = <<">">>
        length == IF wide THEN Len(pattern) - 1 ELSE Len(pattern)
    IN  /\ IF wide THEN Len(subject) > length ELSE Len(subject) = length
        /\ \A i \in 1..length : pattern[i] \in {<<"*">>, subject[i]}

\* _resolve_dead_letter_subject
DeadLetter(c) == IF c.dead = Unset THEN <<QueueGroup(c), <<"dead-letter">>>> ELSE c.dead

-----------------------------------------------------------------------------
(* What the deployment sees to, for the agents of its groups.              *)

Configs == UNION {Runs[r] : r \in Replicas}

Written(c) ==
    /\ c.ns \in Seq(STRING) /\ c.process \in Seq(STRING) /\ c.durable \in Seq(STRING)
    /\ c.topics \subseteq Seq(Seq(STRING)) \ {<<>>} /\ c.jobs \subseteq Seq(STRING)

\* A queue group that is configured for a service alone is no agent's name.
NoAgentsName(c, d) == c.ns # Root /\ d.ns = Root /\ ~c.js /\ ~d.js => d.process # c.ns

\* A durable that is configured is the agent's own (the warning of _resolve_durables),
\* and the same wherever the agent runs.
DurablesScoped(c, d) ==
    c.js /\ d.js /\ c.ns # Root =>
        IF d.ns = c.ns THEN d.durable = c.durable
        ELSE c.durable # Unset \/ d.durable # Unset =>
                \A t \in Consumed(c) \cap Consumed(d) : DurableFor(c, t) # DurableFor(d, t)

Parameters ==
    /\ \A c \in Configs : Written(c)
    /\ \A c, d \in Configs : NoAgentsName(c, d) /\ DurablesScoped(c, d)

-----------------------------------------------------------------------------
(* What a configuration is refused for, before anything is connected.      *)

\* on_startup: no broker, several ways to log in, or half of one.
ConnectionUnfit(c) == c.url = "unset" \/ Cardinality(c.methods) > 1 \/ "login" \in c.wrong

\* A value that is no number, limit, delay or switch fails the start, not the loop ...
DeliveryUnfit(c) == "delivery" \in c.wrong
TuningUnfit(c) == "tuning" \in c.wrong

\* ... and what is published, and how, is read by connect().
PublishingUnfit(c) == "publishing" \in c.wrong

GroupUnfit(c) == QueueGroup(c) = <<>> \/ ~Legal(QueueGroup(c))
TicksUnfit(c) == \E job \in c.jobs : ~Legal(job)

\* A subject the source does not claim is consumed on the default connection only if asked for.
Unclaimed(c) == c.claimed # {} /\ ~c.hybrid /\ Consumed(c) # {}

\* _resolve_durables: a durable has one filter.
DurablesClash(c) == \E s, t \in Consumed(c) : s # t /\ DurableFor(c, s) = DurableFor(c, t)

\* A dead letter the agent would get back goes round for ever.
DeadLetterUnfit(c) == ~Plain(DeadLetter(c)) \/ \E t \in Consumed(c) : Matches(t, DeadLetter(c))

Unfit(c) ==
    \/ ConnectionUnfit(c) \/ GroupUnfit(c) \/ TicksUnfit(c) \/ DeliveryUnfit(c) \/ Unclaimed(c)
    \/ c.js /\ (DurablesClash(c) \/ TuningUnfit(c) \/ DeadLetterUnfit(c))

TypeOK ==
    /\ at \in [Replicas -> {"down", "connecting", "subscribing", "consuming", "fatal"}]
    /\ \A r \in Replicas : conf[r] \in Runs[r] /\ todo[r] \subseteq Consumed(conf[r]) /\ adding[r] \subseteq todo[r]
    /\ offers \in BOOLEAN /\ starts \in 0..MaxStarts

-----------------------------------------------------------------------------
\* While it is down, no configuration counts.
Sample(r) == CHOOSE c \in Runs[r] : TRUE

Init ==
    /\ at = [r \in Replicas |-> "down"]
    /\ link = [r \in Replicas |-> FALSE]
    /\ conf = [r \in Replicas |-> Sample(r)]
    /\ todo = [r \in Replicas |-> {}] /\ adding = todo /\ on = todo
    /\ durables \in Standing
    /\ offers \in BOOLEAN
    /\ starts = 0

(* on_startup and subscribe(): what is refused is not run at all. *)
Refused(r) ==
    /\ at[r] = "down" /\ starts < MaxStarts /\ (\E c \in Runs[r] : Unfit(c))
    /\ starts' = starts + 1
    /\ UNCHANGED <<at, link, conf, todo, adding, on, durables, offers>>

Starts(r) ==
    /\ at[r] = "down" /\ starts < MaxStarts
    /\ starts' = starts + 1
    /\ \E c \in Runs[r] :
        /\ ~Unfit(c)
        /\ conf' = [conf EXCEPT ![r] = c]
        /\ at' = [at EXCEPT ![r] = "connecting"]
        /\ todo' = [todo EXCEPT ![r] = Consumed(c)]
    /\ UNCHANGED <<link, adding, on, durables, offers>>

\* _require_jetstream: the account is asked before anything is bound.
NoJetStream(c) == c.js /\ ~offers

(* connect(): where JetStream is asked for and not offered, there is no     *)
(* fallback to Core NATS.                                                   *)
Connects(r) ==
    LET final == NoJetStream(conf[r]) IN
    /\ at[r] = "connecting" /\ ~link[r] /\ ~PublishingUnfit(conf[r])
    /\ at' = [at EXCEPT ![r] = IF final THEN "fatal" ELSE "subscribing"]
    /\ link' = [link EXCEPT ![r] = ~final]
    /\ UNCHANGED <<conf, todo, adding, on, durables, offers, starts>>

(* What connect() does after the connection is open fails -- a value, or an  *)
(* answer that does not come -- and leaves it open: the loop's next attempt  *)
(* finds it, and takes that for done.                                       *)
ConnectsHalf(r) ==
    /\ at[r] = "connecting" /\ ~link[r] /\ (PublishingUnfit(conf[r]) \/ conf[r].js)
    /\ link' = [link EXCEPT ![r] = TRUE]
    /\ UNCHANGED <<at, conf, todo, adding, on, durables, offers, starts>>

ConnectedAlready(r) ==
    /\ at[r] = "connecting" /\ link[r]
    /\ at' = [at EXCEPT ![r] = "subscribing"]
    /\ UNCHANGED <<link, conf, todo, adding, on, durables, offers, starts>>

Joins(r, t, channel) ==
    /\ on' = [on EXCEPT ![r] = @ \cup {<<t, channel>>}]
    /\ todo' = [todo EXCEPT ![r] = @ \ {t}]
    /\ adding' = [adding EXCEPT ![r] = @ \ {t}]
    /\ at' = [at EXCEPT ![r] = IF todo[r] = {t} THEN "consuming" ELSE @]
    /\ UNCHANGED <<link, conf, offers, starts>>

(* _subscribe_one without JetStream. *)
Listens(r, t) ==
    /\ at[r] = "subscribing" /\ t \in todo[r] /\ ~conf[r].js
    /\ Joins(r, t, [by |-> "core", name |-> t, group |-> QueueGroup(conf[r])])
    /\ UNCHANGED durables

\* The consumer of that name is this subscription's.
Belongs(name, t) == durables[name].filter = t

(* _ensure_consumer: a durable that is there is joined as it is, in its own  *)
(* deliver group, unless it filters something else: that is final.           *)
Looks(r, t) ==
    LET name == DurableFor(conf[r], t) IN
    /\ at[r] = "subscribing" /\ t \in todo[r] \ adding[r] /\ conf[r].js /\ offers
    /\ \/ /\ name \notin DOMAIN durables
          /\ adding' = [adding EXCEPT ![r] = @ \cup {t}]
          /\ UNCHANGED <<at, link, conf, todo, on, offers, starts>>
       \/ /\ name \in DOMAIN durables /\ Belongs(name, t)
          /\ Joins(r, t, [by |-> "durable", name |-> name, group |-> durables[name].group])
       \/ /\ name \in DOMAIN durables /\ ~Belongs(name, t)
          /\ at' = [at EXCEPT ![r] = "fatal"]
          /\ UNCHANGED <<link, conf, todo, adding, on, offers, starts>>
    /\ UNCHANGED durables

(* External: the server makes a durable there is not; one that another has   *)
(* made meanwhile it takes as made where it is the same, and refuses where   *)
(* it is not: the attempt fails, and the loop looks again.                   *)
Adds(r, t) ==
    LET name == DurableFor(conf[r], t)
        wanted == [filter |-> t, group |-> QueueGroup(conf[r])]
        refused == name \in DOMAIN durables /\ durables[name] # wanted
    IN  /\ at[r] = "subscribing" /\ t \in adding[r]
        /\ \/ /\ ~refused
              /\ durables' = [n \in DOMAIN durables \cup {name} |-> IF n = name THEN wanted ELSE durables[n]]
              /\ Joins(r, t, [by |-> "durable", name |-> name, group |-> QueueGroup(conf[r])])
           \/ /\ refused
              /\ adding' = [adding EXCEPT ![r] = @ \ {t}]
              /\ UNCHANGED <<at, link, conf, todo, on, durables, offers, starts>>

(* The process ends, at any point; what is at the broker stays. *)
Stops(r) ==
    /\ at[r] # "down"
    /\ at' = [at EXCEPT ![r] = "down"]
    /\ link' = [link EXCEPT ![r] = FALSE]
    /\ conf' = [conf EXCEPT ![r] = Sample(r)]
    /\ todo' = [todo EXCEPT ![r] = {}]
    /\ adding' = [adding EXCEPT ![r] = {}]
    /\ on' = [on EXCEPT ![r] = {}]
    /\ UNCHANGED <<durables, offers, starts>>

Next ==
    \E r \in Replicas :
        \/ Refused(r) \/ Starts(r) \/ Connects(r) \/ ConnectsHalf(r) \/ ConnectedAlready(r) \/ Stops(r)
        \/ \E t \in todo[r] : Listens(r, t) \/ Looks(r, t) \/ Adds(r, t)

Spec == Init /\ [][Next]_vars

-----------------------------------------------------------------------------
Consumes(r, t, channel) == <<t, channel>> \in on[r]

\* What an agent is to the broker is its own and stays with it (spec C1): a channel an
\* agent of a group consumes on carries one subject, to no one but its own replicas;
\* and all of these share it, in whatever processes they run and whoever came first.
\* What a tenant's connection claims is on none (_durable_for, _ensure_consumer).
ChannelsHeld ==
    \A r, s \in Replicas : \A x \in on[r], y \in on[s] :
        /\ x[2] = y[2] /\ conf[r].ns # Root => conf[s].ns = conf[r].ns /\ y[1] = x[1]
        /\ (conf[r].ns # Root /\ conf[s].ns = conf[r].ns /\ y[1] = x[1] /\ conf[r].js = conf[s].js) => x[2] = y[2]
        /\ x[1] \notin conf[r].claimed
=============================================================================
