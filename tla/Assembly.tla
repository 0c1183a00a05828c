------------------------------ MODULE Assembly ------------------------------
(***************************************************************************)
(* One start of a process, from what the deployment says to an application *)
(* that serves its agents or a refusal: the group and its agents           *)
(* (group_config.py, agent_group.py, layout.py), the declarations          *)
(* replayed and constructed in their namespaces (app_builder.py), the      *)
(* schedulers and the transports wired, the routes mounted, the services   *)
(* started.  It is one thread, and every way out of it is in `why`.        *)
(***************************************************************************)
EXTENDS Registry

CONSTANTS
    Deployments,   \* what may be deployed: file, group, agents, critical, image, standalone, bus,
                   \* publishing, mode, cache, zone, url, js, dedup, debug
    Builders,      \* the builders of the image: declares, built, configured
    ReservedNames  \* RESERVED_NAMESPACES

VARIABLES
    dep,       \* the deployment
    stage,     \* what the process does
    why,       \* the reason it refuses to start
    specs,     \* the agents the group resolved to
    hosted,    \* the namespaces it hosts
    queue,     \* the declarations, each with its namespace
    next,      \* the next of the specs, of the queue, or of the namespaces
    registry,
    caches,    \* the caches registered: from namespace and name to the service
    checks,    \* the entries of the readiness probe
    feeds      \* what hands events to handlers: transport and namespace

vars == <<dep, stage, why, specs, hosted, queue, next, registry, caches, checks, feeds>>

Unnamed == <<>>
Default == <<"default">>
Seqs(f) == {f[i] : i \in DOMAIN f}

(* What may be deployed.  What a builder declares, it declares by its with_*   *)
(* methods, none of which makes a client; an empty name in a list is dropped.  *)
Name == Seq(STRING)

\* validate_namespace: words of letters and digits.
Namespace == {n \in Name : \A i \in DOMAIN n : n[i] # "."}

Declaration ==
    [kind : {"handler", "service", "agent", "scheduler", "rest_api", "cache", "health_checker"},
     base : Name, name : Name, instance : BOOLEAN, stateful : BOOLEAN, nested : Seq(Name),
     segment : Name, crontab : {"fit", "numbered", "unfit"}]
BuilderSet == [declares : Seq(Declaration), built : BOOLEAN, configured : BOOLEAN]
DedupValue == {"unset", "off", "on", "no_ttl"}
ImageEntry ==
    [builder : DOMAIN Builders, root : STRING, module : {"found", "raises", "absent"}, tidy : BOOLEAN,
     settings : {"fit", "self_scoped", "taken", "unreadable"}, dedup : DedupValue,
     durable : BOOLEAN, wrong : SUBSET {"login", "delivery", "tuning", "identity", "publishing", "heartbeat"}]

GroupFit(d) ==
    /\ d.file \in Seq([name : Name, agents : Seq(Name \ {Unnamed}), critical : SUBSET Name])
    /\ d.group \in Name /\ d.agents \in Seq(Name \ {Unnamed}) /\ d.critical \subseteq Name
ImageFit(d) ==
    /\ DOMAIN d.image \subseteq Name /\ \A n \in DOMAIN d.image : d.image[n] \in ImageEntry
    /\ d.standalone \in BOOLEAN /\ (d.standalone => Root \in DOMAIN d.image)
SettingsFit(d) ==
    /\ d.bus \in {"nats", "dapr", "sessions", "none"} /\ d.publishing \subseteq Name
    /\ d.cache \in {"disk", "redis", "redis_not_installed", "redis_down"} /\ d.dedup \in DedupValue
    /\ {d.zone, d.url, d.js, d.debug} \subseteq BOOLEAN

ASSUME AssemblyParameters ==
    /\ \A b \in DOMAIN Builders : Builders[b] \in BuilderSet
    /\ \A d \in Deployments : GroupFit(d) /\ ImageFit(d) /\ SettingsFit(d)

-----------------------------------------------------------------------------
(* The group, as the file and the environment give it.                     *)

\* AGENTS without GROUP supplies the group; then no file is read.
FileRead(d) == d.file # <<>> /\ ~(d.group = Unnamed /\ d.agents # <<>>)
Chosen(d) == {i \in DOMAIN d.file : d.group \in {Unnamed, d.file[i].name}}
FileUnclear(d) ==
    FileRead(d) /\ \/ Cardinality(Chosen(d)) # 1
                   \/ Cardinality({d.file[i].name : i \in DOMAIN d.file}) < Len(d.file)

Declared(d) == IF FileRead(d) /\ ~FileUnclear(d) THEN d.file[CHOOSE i \in Chosen(d) : TRUE] ELSE [agents |-> <<>>, critical |-> {}]
AgentNames(d) == IF d.agents # <<>> THEN d.agents ELSE Declared(d).agents
CriticalNames(d) == IF d.critical # {} THEN d.critical ELSE Declared(d).critical
IsCritical(d, n) == CriticalNames(d) = {} \/ n \in CriticalNames(d)

CriticalUnknown(d) == ~(CriticalNames(d) \subseteq Seqs(AgentNames(d)))

\* Every agent of the image has a directory of its own, whether the group runs it or not.
RootsShared(d) == \E n, o \in DOMAIN d.image : n # o /\ d.image[n].root = d.image[o].root

NamesUnfit(d) ==
    \/ Cardinality(Seqs(AgentNames(d))) < Len(AgentNames(d))
    \/ \E n \in Seqs(AgentNames(d)) : n \notin Namespace \ ReservedNames \/ (IsCritical(d, n) /\ n \notin DOMAIN d.image)

GroupRefused(d) ==
    \/ FileUnclear(d)
    \/ AgentNames(d) = <<>> \/ CriticalUnknown(d)
    \/ d.image = <<>> \/ RootsShared(d) \/ NamesUnfit(d)

\* A name the image does not have, not critical, is skipped.
Resolved(d) == Picked(AgentNames(d), {i \in DOMAIN AgentNames(d) : AgentNames(d)[i] \in DOMAIN d.image})

-----------------------------------------------------------------------------
Init ==
    /\ dep \in Deployments
    /\ stage = IF dep.standalone THEN "standalone" ELSE "group"
    /\ why = "none" /\ specs = <<>> /\ hosted = <<>> /\ queue = <<>> /\ next = 1
    /\ registry = <<>> /\ caches = <<>> /\ checks = {} /\ feeds = <<>>

Refuses(reason) ==
    /\ stage' = "refused" /\ why' = reason
    /\ UNCHANGED <<dep, specs, hosted, queue, next, registry, caches, checks, feeds>>

Enters(s) == stage' = s /\ next' = 1 /\ UNCHANGED <<dep, why>>

(* GroupConfig.resolve_at. *)
ResolveGroup ==
    /\ stage = "group"
    /\ \/ GroupRefused(dep) /\ Refuses("group")
       \/ /\ ~GroupRefused(dep)
          /\ specs' = Resolved(dep)
          /\ Enters("load") /\ UNCHANGED <<hosted, queue, registry, caches, checks, feeds>>

\* check_agent_layout: settings, secrets or prompts where nothing reads them.
Misplaced(n) == ~dep.image[n].tidy

\* host_agent: an agent is the process's whether it declares anything or not.
Hosts(n) == Append(hosted, n)

(* from_config: an agent whose module does not load, or whose files are in the *)
(* wrong place, is refused when critical and skipped when not.                 *)
LoadAgent ==
    /\ stage = "load" /\ next <= Len(specs)
    /\ LET n == specs[next]
           fit == dep.image[n].module = "found" /\ ~Misplaced(n)
           raises == dep.image[n].module = "raises"
       IN  \/ ~fit /\ IsCritical(dep, n) /\ Refuses(IF raises THEN "import" ELSE "agent")
           \/ /\ fit \/ ~IsCritical(dep, n)
              /\ hosted' = IF fit THEN Hosts(n) ELSE hosted
              /\ next' = next + 1
              /\ UNCHANGED <<dep, stage, why, specs, queue, registry, caches, checks, feeds>>

BuilderOf(n) == Builders[dep.image[n].builder]

\* The values that the view of a namespace reads and cannot use.
Wrong(n) == IF n \in DOMAIN dep.image THEN dep.image[n].wrong ELSE {}
Shared(n) == \E o \in Seqs(hosted) : o # n /\ dep.image[o].builder = dep.image[n].builder

\* refuse_constructed_components: what is passed as an instance has its namespace already.
Constructs(b) == \E d \in Seqs(b.declares) : d.instance

\* is_built, has_config: what is an application already, or brings its own settings.
Settled(b) == b.built \/ b.configured

\* _refuse_what_a_group_cannot_honour, _refuse_state_shared_between_agents
Dishonoured(n) ==
    \/ Settled(BuilderOf(n)) \/ Constructs(BuilderOf(n))
    \/ \E d \in Seqs(BuilderOf(n).declares) : d.stateful /\ Shared(n)

(* assemble: what a group cannot honour is refused before any of it is replayed, *)
(* every declaration in the namespace of its agent.                              *)
(* That no agent is left, which from_config refuses, cannot come from resolve:  *)
(* an agent is critical, or another one is named that is.                       *)
Replayed(b, ns) == [i \in DOMAIN b.declares |-> [ns |-> ns, of |-> b.declares[i]]]

\* merge_agent_settings refuses, critical or not: what it would refuse is in Settings.
SettingsUnfit(n) == dep.image[n].settings # "fit"

HostAgents ==
    /\ stage = "load" /\ next > Len(specs)
    /\ \/ (\E n \in Seqs(hosted) : Dishonoured(n)) /\ Refuses("declaration")
       \/ (\A n \in Seqs(hosted) : ~Dishonoured(n)) /\ (\E n \in Seqs(hosted) : SettingsUnfit(n)) /\ Refuses("settings")
       \/ /\ \A n \in Seqs(hosted) : ~Dishonoured(n) /\ ~SettingsUnfit(n)
          /\ Enters("replay") /\ UNCHANGED <<specs, hosted, queue, registry, caches, checks, feeds>>

ReplayAgent ==
    /\ stage = "replay" /\ next <= Len(hosted)
    /\ queue' = queue \o Replayed(BuilderOf(hosted[next]), hosted[next])
    /\ next' = next + 1
    /\ UNCHANGED <<dep, stage, why, specs, hosted, registry, caches, checks, feeds>>

AllReplayed ==
    /\ stage = "replay" /\ next > Len(hosted)
    /\ Enters("construct") /\ UNCHANGED <<specs, hosted, queue, registry, caches, checks, feeds>>

\* build(config): a declaration that waits for its settings is as one of a group; one that
\* was made with them, as it always was; and none is built twice.
BuildRefused(b) == b.built \/ (~b.configured /\ Constructs(b))

\* A name in use is refused.
Collides(reg, made) ==
    \/ \E i \in DOMAIN made : Taken(reg, KeyOf(made[i]))
    \/ \E i, j \in DOMAIN made : i # j /\ KeyOf(made[i]) = KeyOf(made[j])

(* A standalone application: the root is its namespace, and what it passes as  *)
(* an instance was registered when it was made.                                *)
HostRoot ==
    /\ stage = "standalone"
    /\ LET b == BuilderOf(Root)
           passed == Picked(b.declares, {i \in DOMAIN b.declares : b.declares[i].instance})
           made == [i \in DOMAIN passed |-> Component(passed[i].kind, Root, passed[i].base)]
       IN  \/ Collides(<<>>, made) /\ Refuses("name")
           \/ ~Collides(<<>>, made) /\ BuildRefused(b) /\ Refuses("declaration")
           \/ /\ ~Collides(<<>>, made) /\ ~BuildRefused(b)
              /\ queue' = Replayed(b, Root)
              /\ registry' = made
              /\ Enters("construct") /\ UNCHANGED <<specs, hosted, caches, checks, feeds>>

-----------------------------------------------------------------------------
(* build: the declarations, in order.                                      *)

Constructed(d) == d.kind \notin {"cache", "health_checker"}

\* The name it has in the end.
BaseOf(d) == IF d.name = Unnamed THEN d.base ELSE d.name

\* What constructing it registers, in order: itself, then what its constructor builds.
Makes(d, ns) == IF d.instance THEN <<>> ELSE
    <<Component(d.kind, ns, d.base)>> \o [i \in DOMAIN d.nested |-> Component("service", ns, d.nested[i])]

(* _construct: under its class's name first, and then under the one given. *)
Construct ==
    /\ stage = "construct" /\ next <= Len(queue)
    /\ LET ns == queue[next].ns
           d == queue[next].of
           made == Makes(d, ns)
           reg == registry \o made
           self == Component(d.kind, ns, d.base)
           refused == Collides(registry, made) \/ RenameRefused(reg, self, BaseOf(d))
       IN  \/ Constructed(d) /\ refused /\ Refuses("name")
           \/ /\ ~(Constructed(d) /\ refused)
              /\ registry' = IF Constructed(d) THEN Rename(reg, self, BaseOf(d)) ELSE registry
              /\ next' = next + 1
              /\ UNCHANGED <<dep, stage, why, specs, hosted, queue, caches, checks, feeds>>

HandlersDeclared ==
    LET handlers == Picked(queue, {i \in DOMAIN queue : queue[i].of.kind = "handler"})
    IN  [i \in DOMAIN handlers |-> Component("handler", handlers[i].ns, BaseOf(handlers[i].of))]

(* Mutant: the handlers stay where the renames left them. *)
OrderNotRestored ==
    /\ stage = "construct" /\ next > Len(queue)
    /\ Enters("caches") /\ UNCHANGED <<specs, hosted, queue, registry, caches, checks, feeds>>

(* _restore_declaration_order: a rename had moved its component to the end. *)
RestoreOrder ==
    /\ stage = "construct" /\ next > Len(queue)
    /\ registry' = Reorder(registry, HandlersDeclared)
    /\ Enters("caches") /\ UNCHANGED <<specs, hosted, queue, caches, checks, feeds>>

(* _create_cache and the factory: a named cache registers as cache_<name>,     *)
(* whatever its backend; a Redis service registers before it is known to       *)
(* answer, and the disk service that replaces it registers as well.            *)
CacheBase(backend, name) == IF name = Default THEN <<backend>> ELSE <<"cache">> \o name
Backends == CASE dep.cache = "redis" -> <<"redis">>
              [] dep.cache \in {"disk", "redis_not_installed"} -> <<"disk">>
              [] dep.cache = "redis_down" -> <<"redis", "disk">>

CreateCache ==
    /\ stage = "caches" /\ next <= Len(queue)
    /\ LET ns == queue[next].ns
           d == queue[next].of
           made == [i \in DOMAIN Backends |-> Component(Backends[i], ns, CacheBase(Backends[i], d.name))]
       IN  \/ d.kind = "cache" /\ Collides(registry, made) /\ Refuses("cache")
           \/ /\ d.kind # "cache" \/ ~Collides(registry, made)
              /\ registry' = IF d.kind = "cache" THEN registry \o made ELSE registry
              /\ caches' = IF d.kind = "cache" THEN CacheAdded(caches, ns, d.name, made[Len(made)]) ELSE caches
              /\ next' = next + 1
              /\ UNCHANGED <<dep, stage, why, specs, hosted, queue, checks, feeds>>

CachesDone ==
    /\ stage = "caches" /\ next > Len(queue)
    /\ Enters("schedulers") /\ UNCHANGED <<specs, hosted, queue, registry, caches, checks, feeds>>

-----------------------------------------------------------------------------
(* build: the schedulers, before it is known who consumes, and the transports. *)

TopicTransports == {"dapr", "nats"}
Schedulers == Picked(registry, {i \in DOMAIN registry : registry[i].kind = "scheduler"})
TickOf(s) == Component("handler", s.ns, s.base \o <<"tick">>)

\* validate_crontab: a day by its number is another day to the cron that fires the tick.
CrontabRefused(crontab, mode) == crontab = "unfit" \/ (mode = "event" /\ crontab = "numbered")
CrontabOf(s) == (CHOOSE q \in Seqs(queue) : q.ns = s.ns /\ q.of.kind = "scheduler" /\ BaseOf(q.of) = s.base).of.crontab

\* SchedulerBase._resolve_topic: at the root, the tick's subject is derived from app_name.
Unidentified(s) == s.ns = Root /\ "identity" \in Wrong(Root)

(* SchedulerBase.wire: in event mode its tick is an event, so it has a handler. *)
WireScheduler ==
    /\ stage = "schedulers" /\ next <= Len(Schedulers)
    /\ LET s == Schedulers[next]
           event == dep.mode = "event"
           unfit == \/ dep.mode \notin {"event", "in_process"} \/ CrontabRefused(CrontabOf(s), dep.mode)
                    \/ event /\ dep.bus \notin TopicTransports
           taken == Taken(registry, KeyOf(TickOf(s)))
       IN  \/ unfit /\ Refuses("scheduler")
           \/ ~unfit /\ event /\ Unidentified(s) /\ Refuses("identity")
           \/ ~unfit /\ event /\ ~Unidentified(s) /\ taken /\ Refuses("name")
           \/ /\ ~unfit /\ ~(event /\ (Unidentified(s) \/ taken))
              /\ registry' = IF event THEN Append(registry, TickOf(s)) ELSE registry
              /\ next' = next + 1
              /\ UNCHANGED <<dep, stage, why, specs, hosted, queue, caches, checks, feeds>>

SchedulersDone ==
    /\ stage = "schedulers" /\ next > Len(Schedulers)
    /\ Enters("transports") /\ UNCHANGED <<specs, hosted, queue, registry, caches, checks, feeds>>

Consuming(ns) == OfKind(registry, "handler", ns) # {}
ClientOf(ns) == CASE dep.bus = "nats" -> <<Component("client", ns, <<"nats", "client">>)>>
                  [] dep.bus = "dapr" -> <<Component("client", ns, <<"dapr", "client">>)>>
                  [] dep.bus = "sessions" -> <<Component("service", ns, <<"sessions", "api", "client">>),
                                               Component("service", ns, <<"session", "key", "provider">>)>>
                  [] OTHER -> <<>>

(* _wire_transport, the root first; event_publishing_enabled is a boolean, and *)
(* where it is true there is a bus to publish on.                              *)
WireTransport ==
    /\ stage = "transports" /\ next <= Len(hosted) + 1
    /\ LET ns == (<<Root>> \o hosted)[next]
           publishes == ns \in dep.publishing
           wired == Consuming(ns) \/ publishes
           made == IF wired THEN ClientOf(ns) ELSE <<>>
           nowhere == "publishing" \in Wrong(ns) \/ (publishes /\ dep.bus \notin TopicTransports)
           feeding == (dep.bus = "nats" /\ Consuming(ns)) \/ (dep.bus = "sessions" /\ wired)
       IN  \/ nowhere /\ Refuses("publishing")
           \/ ~nowhere /\ Collides(registry, made) /\ Refuses("name")
           \/ /\ ~nowhere /\ ~Collides(registry, made)
              /\ registry' = registry \o made
              /\ feeds' = IF feeding THEN Append(feeds, [by |-> dep.bus, ns |-> ns]) ELSE feeds
              /\ next' = next + 1
              /\ UNCHANGED <<dep, stage, why, specs, hosted, queue, caches, checks>>

HasHandler == \E c \in Registered(registry) : c.kind = "handler"

\* One processing service for the process, a publishing service for each client.
Services ==
    LET clients == Picked(registry, {i \in DOMAIN registry : registry[i].kind = "client"})
    IN  (IF HasHandler THEN <<Component("service", Root, <<"event", "processing", "service">>)>> ELSE <<>>)
        \o [i \in DOMAIN clients |-> Component("service", clients[i].ns, <<"event", "publishing", "service">>)]

(* The checks of the readiness probe: of every client, of every cache, and    *)
(* what the agents declare.  Named connections are in NamedConnections.       *)
Check(ns, name, of) == [ns |-> ns, name |-> name, of |-> of]
CheckKey(c) == IF c.ns = Root THEN c.name ELSE c.ns \o <<".">> \o c.name
CacheCheck(name) == IF name = Default THEN <<"cache">> ELSE <<"cache", ":">> \o name
BuiltinChecks ==
    {Check(c.ns, c.base, <<c>>) : c \in {x \in Registered(registry) : x.kind = "client"}}
    \cup {Check(e[1], CacheCheck(e[2]), <<caches[e]>>) : e \in DOMAIN caches}
DeclaredChecks ==
    LET declared == Picked(queue, {i \in DOMAIN queue : queue[i].of.kind = "health_checker"})
    IN  [i \in DOMAIN declared |-> Check(declared[i].ns, declared[i].of.name, <<>>)]

\* add_health_providers: an application's check takes the place of a built-in one, and
\* no other.
ChecksRefused ==
    \/ \E b, c \in BuiltinChecks : b # c /\ CheckKey(b) = CheckKey(c)
    \/ \E i, j \in DOMAIN DeclaredChecks : i # j /\ CheckKey(DeclaredChecks[i]) = CheckKey(DeclaredChecks[j])
ChecksAdded ==
    Seqs(DeclaredChecks) \cup {b \in BuiltinChecks : \A i \in DOMAIN DeclaredChecks : CheckKey(DeclaredChecks[i]) # CheckKey(b)}

\* _refuse_reserved_segments: an agent's route may not start with one of the framework's.
Reserved == {<<"nats">>, <<"cache">>, <<"scheduler">>}
RouteRefused == \E q \in Seqs(queue) : q.ns # Root /\ q.of.kind = "rest_api" /\ q.of.segment \in Reserved

(* The end of build; one Dapr endpoint serves the process.                  *)
Mount ==
    /\ stage = "transports" /\ next > Len(hosted) + 1
    /\ LET taken == Collides(registry, Services) IN
       \/ taken /\ Refuses("name")
       \/ ~taken /\ ChecksRefused /\ Refuses("check")
       \/ ~taken /\ ~ChecksRefused /\ RouteRefused /\ Refuses("route")
       \/ /\ ~taken /\ ~ChecksRefused /\ ~RouteRefused
          /\ registry' = registry \o Services
          /\ checks' = ChecksAdded
          /\ feeds' = IF dep.bus = "dapr" /\ HasHandler THEN Append(feeds, [by |-> "dapr", ns |-> Root]) ELSE feeds
          /\ Enters("built") /\ UNCHANGED <<specs, hosted, queue, caches>>

-----------------------------------------------------------------------------
(* The lifespan starts every component.                                     *)

\* What a view of the namespace reads: its own value, else that of the process.
DedupOf(n) == IF n # Root /\ dep.image[n].dedup # "unset" THEN dep.image[n].dedup ELSE dep.dedup

\* resolve_idempotency_policy: with a window, and a cache to claim in.
PolicyUnfit(dedup, cached) == dedup = "no_ttl" \/ (dedup = "on" /\ ~cached)

\* Registry.has_cache: the default one of the agent, and no other agent's, the root's included.
HasCache(n) == Default \in CachesOf(caches, n)

\* EventProcessingService.on_startup: a chain for every agent that has a handler, and the root's.
Chains == {Root} \cup {c.ns : c \in {x \in Registered(registry) : x.kind = "handler"}}
Undeduplicated == IF HasHandler THEN {n \in Chains : PolicyUnfit(DedupOf(n), HasCache(n))} ELSE {}

Clients == {c.ns : c \in {x \in Registered(registry) : x.kind = "client"}}
Feeding(n) == dep.bus = "nats" /\ \E i \in DOMAIN feeds : feeds[i].ns = n

\* What fails where: a Redis, a timer, a client, a subscription, the one service all share, or
\* configure_loop_debug.
StartupFailures ==
    {<<"redis", c.ns>> : c \in {x \in Registered(registry) : x.kind = "redis" /\ dep.cache = "redis_down"}}
    \cup {<<"timezone", c.ns>> : c \in {x \in Seqs(Schedulers) : dep.mode = "in_process" /\ ~dep.zone}}
    \cup {<<"url", n>> : n \in {m \in Clients : dep.bus = "nats" /\ ~dep.url}}
    \cup {<<"login", n>> : n \in {m \in Clients : dep.bus = "nats" /\ "login" \in Wrong(m)}}
    \cup {<<"identity", n>> : n \in {m \in {Root} : Feeding(m) /\ "identity" \in Wrong(m)}}
    \cup {<<"delivery", n>> : n \in {m \in Clients : Feeding(m) /\ "delivery" \in Wrong(m)}}
    \cup {<<"heartbeat", n>> : n \in {m \in Clients : Feeding(m) /\ "heartbeat" \in Wrong(m)}}
    \cup {<<"tuning", n>> : n \in {m \in Clients : Feeding(m) /\ dep.js /\ "tuning" \in Wrong(m)}}
    \cup {<<"durable", n>> : n \in {m \in Clients : Feeding(m) /\ dep.js /\ dep.image[m].durable
                                                    /\ Cardinality(OfKind(registry, "handler", m)) > 1}}
    \cup {<<IF n = Root /\ ~dep.standalone THEN "root_dedup" ELSE "dedup", Root>> : n \in Undeduplicated}
    \cup (IF dep.debug THEN {} ELSE {<<"debug", Root>>})

(* A component of the root or of a critical agent that fails, fails the       *)
(* process; that of another agent marks the agent down.                       *)
Startup ==
    /\ stage = "built"
    /\ LET fatal == {f \in StartupFailures : f[2] = Root \/ IsCritical(dep, f[2])}
       IN  \/ \E f \in fatal : Refuses(f[1])
           \/ fatal = {} /\ Enters("serving") /\ UNCHANGED <<specs, hosted, queue, registry, caches, checks, feeds>>

Next ==
    \/ ResolveGroup \/ LoadAgent \/ HostAgents \/ ReplayAgent \/ AllReplayed \/ HostRoot
    \/ Construct \/ RestoreOrder \/ CreateCache \/ CachesDone
    \/ WireScheduler \/ SchedulersDone \/ WireTransport \/ Mount \/ Startup

Spec == Init /\ [][Next]_vars

-----------------------------------------------------------------------------
(* Properties.                                                             *)

Assembled == stage \in {"built", "serving"}

\* By name: the agent's own component of that name, else the root's, else its own
\* under the full key.
FoundByName(ns) ==
    \A name \in Tails(registry) :
        LET got == Lookup(registry, ns, name)
            called(owner) == {c \in Registered(registry) : c.ns = owner /\ c.base = name}
        IN  /\ \A c \in got : c.ns \in {ns, Root}
            /\ called(ns) # {} => got = called(ns)
            /\ called(ns) = {} /\ called(Root) # {} => got = called(Root)
            /\ \A kind \in {"service", "client"} : \A c \in Single(registry, ns, kind, name) : c.ns \in {ns, Root}

\* A handler that names no runtime runs with its agent's only one (but for a component
\* of the agent's whose name spells the full key of that runtime).
RuntimeFound(ns) ==
    /\ \A name \in {Unnamed} \cup Tails(registry) : \A c \in BoundRuntime(registry, ns, name) : c.ns \in {ns, Root}
    /\ \A c \in Registered(registry) :
          OfKind(registry, "agent", ns) = {c} /\ ~Taken(registry, Qualified(ns, KeyOf(c))) =>
              BoundRuntime(registry, ns, Unnamed) = {c}

\* An agent has the caches it declared; and what it publishes goes by its own client.
StoresAndClient(ns) ==
    /\ {d.of.name : d \in {q \in Seqs(queue) : q.ns = ns /\ q.of.kind = "cache"}} = CachesOf(caches, ns)
    /\ \A other \in Seqs(hosted), name \in UNION {CachesOf(caches, n) : n \in Seqs(hosted)} :
          \A c \in CacheAsked(caches, ns, other, name) : c.ns = ns /\ other = ns
    /\ \A c \in OfKind(registry, "client", ns) :
          Lookup(registry, ns, <<"io", "client", "base">>) = {} => IOClient(registry, ns) = {c}

\* What an agent finds through its view, by whatever name some key ends in, is its own
\* or the root's, and its own first: never a neighbour's (Registry._lookup, get_cache,
\* HandlerChain._bind_runtime).
OwnOrShared == Assembled => \A ns \in Seqs(hosted) : FoundByName(ns) /\ RuntimeFound(ns) /\ StoresAndClient(ns)

\* A process that starts hosts every agent the deployment counts on; each handler of
\* it, those the schedulers add included, gets its events from exactly one transport
\* when a bus is configured; and an agent's own handlers stand in the order it
\* declared them, which is the order of dispatch (build).  Each client, each
\* cache and each check it declares is one entry of the readiness probe, its own.
ServedAsDeclared ==
    Assembled =>
        /\ ~dep.standalone => \A n \in Seqs(AgentNames(dep)) : IsCritical(dep, n) => n \in Seqs(hosted)
        /\ dep.bus # "none" => \A c \in Registered(registry) : c.kind = "handler" =>
              Cardinality({i \in DOMAIN feeds : feeds[i].by = "dapr" \/ feeds[i].ns = c.ns}) = 1
        /\ LET declared == Seqs(HandlersDeclared)
           IN  Picked(registry, {i \in DOMAIN registry : registry[i] \in declared}) = HandlersDeclared
        /\ \A c, k \in checks : CheckKey(c) = CheckKey(k) => c = k
        /\ Seqs(DeclaredChecks) \subseteq checks
        /\ \A b \in BuiltinChecks : \E c \in checks : c.ns = b.ns /\ c.name = b.name

\* "Fall back to DiskCacheService if Redis is unavailable at startup"
\* (CacheConfig.fallback_to_local): it does not keep the process from starting.
FallbackStarts == dep.cache = "redis_down" => stage # "refused"

\* "A view may name its own namespace or the root, and no other"
\* (_effective_namespace): asked for the root's, it does not answer with a neighbour's.
RootMeansRoot ==
    Assembled => \A ns \in Seqs(hosted), name \in Tails(registry) :
        \A c \in AskedBy(registry, ns, Root, name) : c.ns \in {ns, Root}
=============================================================================
