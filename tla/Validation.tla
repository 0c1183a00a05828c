------------------------------ MODULE Validation ------------------------------
(***************************************************************************)
(* What `asbs validate` finds in the files of a deployment, without        *)
(* running any of it (cli/commands/validate.py, validate_group.py), beside *)
(* the start of that deployment: the two are written apart and are to say  *)
(* the same.  The check is run with the deployment's own variables, its    *)
(* code is laid out as the generator lays it out, and warnings, which      *)
(* promise nothing about the start, are left out.                          *)
(***************************************************************************)
EXTENDS Assembly

(* What is read of an agent's code, or of the root's when it stands alone.  *)
Declares(n, kind) == {d \in Seqs(BuilderOf(n).declares) : d.kind = kind}
HasHandlers(n) == Declares(n, "handler") # {}
HasSchedulers(n) == Declares(n, "scheduler") # {}
DeclaresACache(n) == Declares(n, "cache") # {}

\* Mutant of ConsumesEvents: an agent whose only events are the ticks of its schedulers.
HandlersConsume(n) == HasHandlers(n)

\* consumes_events
ConsumesEvents(n) == HasHandlers(n) \/ (HasSchedulers(n) /\ dep.mode = "event")

-----------------------------------------------------------------------------
(* scheduler_findings *)

ModeUnfit(n) == HasSchedulers(n) /\ dep.mode \notin {"event", "in_process"}
CrontabUnfit(n) == \E d \in Declares(n, "scheduler") : CrontabRefused(d.crontab, dep.mode)
NoTicks(n) == HasSchedulers(n) /\ dep.mode = "event" /\ dep.bus \notin TopicTransports
ZoneUnfit(n) == HasSchedulers(n) /\ dep.mode = "in_process" /\ ~dep.zone

\* dedup_findings: that a cache is declared is read from the text.
DedupUnfit(n) == ConsumesEvents(n) /\ PolicyUnfit(DedupOf(n), DeclaresACache(n))

(* transport_findings *)
OnNats(n) == dep.bus = "nats" /\ (ConsumesEvents(n) \/ n \in dep.publishing \/ "publishing" \in Wrong(n))
UrlMissing(n) == OnNats(n) /\ ~dep.url
HeartbeatUnfit(n) == OnNats(n) /\ "heartbeat" \in Wrong(n)
QueueGroupUnfit(n) == OnNats(n) /\ ConsumesEvents(n) /\ n = Root /\ "identity" \in Wrong(n)
TopicsOf(n) == Cardinality(Declares(n, "handler")) + IF dep.mode = "event" THEN Cardinality(Declares(n, "scheduler")) ELSE 0
DurableShared(n) == OnNats(n) /\ ConsumesEvents(n) /\ dep.js /\ dep.image[n].durable /\ TopicsOf(n) > 1

\* nats_value_findings: whether the values are used or not.
ValuesUnfit(n) == "delivery" \in Wrong(n)

Unfit(n) ==
    \/ ModeUnfit(n) \/ CrontabUnfit(n) \/ (NoTicks(n) /\ dep.bus # "none") \/ ZoneUnfit(n)
    \/ DedupUnfit(n) \/ QueueGroupUnfit(n) \/ HeartbeatUnfit(n)
    \/ DurableShared(n) \/ ValuesUnfit(n)

\* What only the deployment may set is a notice.
Noticed(n) == UrlMissing(n) \/ (NoTicks(n) /\ dep.bus = "none")

-----------------------------------------------------------------------------
(* validate_group: the agents of the image, and the groups of the file.     *)

Agents == DOMAIN dep.image \ {Root}

\* _agent_findings: an entry that is none is not looked into.
MapUnfit == RootsShared(dep) \/ Agents \cap ReservedNames # {}
ModuleUnfit(n) == dep.image[n].module = "absent"
OwnSettingsUnfit(n) == dep.image[n].settings \in {"self_scoped", "taken", "unreadable"}
EntryUnfit(n) == ModuleUnfit(n) \/ Misplaced(n) \/ OwnSettingsUnfit(n)

Several(d) == Cardinality({d.file[i].name : i \in DOMAIN d.file}) > 1
NoGroupNamed(d) == d.group = Unnamed /\ d.agents = <<>>

\* group_findings: when none is named, every group of the file in turn.
Candidates ==
    IF ~NoGroupNamed(dep) THEN {dep}
    ELSE IF Several(dep) THEN {[dep EXCEPT !.group = dep.file[i].name] : i \in DOMAIN dep.file}
    ELSE IF dep.file = <<>> THEN {} ELSE {dep}

\* image_findings, and root_findings for what stands alone; process_findings of both.
Issues ==
    \/ ~dep.debug
    \/ IF dep.standalone THEN Unfit(Root)
       ELSE
         \/ Agents = {} \/ MapUnfit \/ ValuesUnfit(Root)
         \/ \E n \in Agents : EntryUnfit(n) \/ Unfit(n)
         \/ \E d \in Candidates : GroupRefused(d)

Notices ==
    IF dep.standalone THEN Noticed(Root)
    ELSE Candidates = {} \/ \E n \in Agents : Noticed(n)

\* The exit status.
Valid == ~Issues

-----------------------------------------------------------------------------
(* Reasons no file shows ...                                                *)
Unforeseeable == {"import", "declaration", "name", "cache", "check", "route", "redis"}

(* ... and those the files do show, and the check does not look for: several *)
(* groups and none named, publishing without a bus, or by a value that is    *)
(* not a boolean, which it takes for true, values it does not read,          *)
(* the dedup policy of the root's own chain, a cache that has a name, a tick *)
(* that needs the name of the application on another bus than NATS, and the  *)
(* client a group's root publishes through.                                  *)
NotLookedFor ==
    {"publishing", "login", "tuning", "root_dedup"}
    \cup (IF Several(dep) /\ NoGroupNamed(dep) THEN {"group"} ELSE {})
    \cup (IF \E n \in DOMAIN dep.image : DeclaresACache(n) /\ \A d \in Declares(n, "cache") : d.name # Default
          THEN {"dedup"} ELSE {})
    \cup (IF dep.bus # "nats" THEN {"identity"} ELSE {})
    \cup (IF ~dep.standalone /\ Root \in dep.publishing THEN {"url"} ELSE {})

\* "Exit status is 1 when anything would stop the image starting, 0 otherwise"
\* (agent_generator/docs/guides/cli/validate.md): what the check lets pass does not refuse to start for
\* a reason it looks for; and what it reports of an agent the process counts on would
\* have stopped it, unless nothing reads the value.
ValidatorAgrees ==
    /\ stage = "refused" /\ Valid /\ ~Notices => why \in Unforeseeable \cup NotLookedFor
    /\ stage = "serving" => dep.debug
    /\ stage = "serving" =>
          \A n \in IF dep.standalone THEN {Root} ELSE Seqs(hosted) :
              /\ ~ModeUnfit(n) /\ ~CrontabUnfit(n) /\ ~NoTicks(n) /\ ~DedupUnfit(n)
              /\ n # Root => ~OwnSettingsUnfit(n)
              /\ n = Root \/ IsCritical(dep, n) =>
                    /\ ~ZoneUnfit(n) /\ ~QueueGroupUnfit(n) /\ ~DurableShared(n) /\ ~UrlMissing(n)
                    /\ n # Root => ~EntryUnfit(n)
                    /\ ~((ValuesUnfit(n) \/ HeartbeatUnfit(n)) /\ OnNats(n) /\ ConsumesEvents(n))
=============================================================================
