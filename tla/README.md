# Verification of the Blueprint Agents runtime

TLA+ models of the runtime under `src/src/blueprint/agents/`: a Python framework in which one process runs one
agent or a group of agents that consume events (NATS, JetStream, Dapr), jobs (the sessions service), ticks and
REST requests. Everything runs on one asyncio event loop, so the concurrency is that of tasks interleaving at
their `await`s, of a few threads (the caches), of several replicas, and of the broker and the services outside.
Paths below are relative to that directory, those under `docs/` to `src/`, and `asbs` is the command line tool
under `src/src/blueprint/agent_generator/`.

1. [The system](#1-the-system) — its parts, their state, and what makes them correct
2. [The modules](#2-the-modules) — how state and actions correspond to the code
3. [The runs](#3-the-runs) — what each checks, its bounds, the fairness it assumes
4. [The proofs](#4-the-proofs)
5. [Where the code does not do what it says](#5-where-the-code-does-not-do-what-it-says)
6. [The plan](#6-the-plan) — what comes next, and what stays out

How to run: `tlc -config RunPool.cfg MCRunPool` and likewise for the other configurations (the table in
section 3 names the module of each), `tlapm RunPool_proofs.tla` for the proofs. `PROJECT.json` maps every
definition to the lines it models.

## 1. The system

An agent's components live in a registry under the agent's namespace. `AppBuilder` builds them, starts them in
the lifespan of the FastAPI application and shuts them down in reverse order. Events come in through a client
and an event bus, pass `EventProcessingService.process_event`, which hands them to the agent's handler chain
and publishes the results, and the transport settles the delivery by how that ended. Health checks are polled
into a cache; the namespace supervisor acts on each agent's verdict and pauses or resumes what the agent
consumes.

```
 broker ── NATSClient ── NATS bus ─┐                            ┌─ handlers ── runtimes, AI clients
 sidecar ─ Dapr bus ───────────────┼─ EventProcessingService ── HandlerChain ── cache (dedup marker)
 service ─ SessionsBus ────────────┘          │
    timer ─ Scheduler                         └─ EventPublishingService ── client
 HealthCheckCache ── NamespaceSupervisor ── pause / resume ──> NATSClient, SessionsBus, Dapr bus
 AppBuilder: group, settings, registry; startup, latches, recovery, shutdown of all of them
 asbs validate: the same files, before anything runs
```

### While the process serves

**Run pool** (`clients/io/nats_run_pool.py`; module `RunPool`). *State*: for each (agent, connection) pair
whether its guaranteed run is taken and how many runs it has; the process-wide count of extra runs; the number
of registered pairs; a queue of waiting futures. *Operations*: `acquire` (grant at once or wait), its
cancellation, the releaser, `add_pair`, `remove_pair`. *Interaction*: every NATS delivery acquires a slot
before its run. *Hard*: a task cancelled after its future was granted and before it resumed; percentages of a
number of pairs that changes; one wake pass granting several queues under several limits. *Correct when*: no
slot leaks or is freed twice, no call waits that could run, calls of a pair are served in order, no pair
starves another.

**Consumption** (`clients/io/nats_client.py`, `io/api/actuators/health/`, `app_builder.py`; `Consumption`).
*State*: the connection, the subscriptions, the flags managed, paused, ready, closing and orphaned, the
connect-and-subscribe task, the retry of a failed resume, the change lock; the supervisor's record and latch
of the agent; the startup recovery. *Operations*: subscribe, `pause_consumption`, `resume_consumption` and its
retry, the broker's callbacks, `close`; polls, `mark_down`, `clear_forced_down`. *Hard*: a poll's verdict is
acted on after an await; only transitions are acted on; a paused client reports itself healthy, or it would
stay paused; the loop, a resume and a pause all change the subscriptions. *Correct when*: an agent that should
consume does in the end, one that is latched does not, and nobody is left unsubscribed with nobody to come
back to it.

**Named connections** (`nats_client.py` 1051–1414, `nats_connections.py`; `NamedConnections`). *State*: the
bindings, each with its link, loop, subscription, runs and the binding it replaces; the change lock, a
reconcile, a retirement. *Operations*: what a deployment's connection source adds, changes and removes;
reconcile; connect and bind; replace; retire with a grace period, then revoke; pause, resume, close. *Hard*: a
connection changes again before its replacement has bound; nats-py reports a link back before anything is
bound on it; runs outlive their connection. *Correct when*: the newest version of each connection ends up bound,
a connection that was bound stays so while it is replaced, nothing superseded is forgotten, a revoked run
neither settles nor publishes.

**Delivery** (`nats_client.py` from `_message_handler` on, `handler/handler_chain.py`,
`services/eventing/event_processing_service.py`, `services/infrastructure/redis_cache_service.py`;
`Delivery`, `AtLeastOnce`). *State*: the broker's consumer, each replica's buffer, the runs, the shared
deduplication markers, the dead-letter subject. *Operations*: take, start, claim, run, release, dead-letter,
ack, nak or term; pause and drain; crash. *Hard*: redelivery of what is still being worked on, settlements that
are lost or come late, the last attempt, a marker that outlives its run or is given up too early. *Correct
when*: every event is handled at least once or rejected on the record, and with deduplication no two runs of
one event overlap and none is repeated.

**Dispatch and publishing** (`handler_chain.py`, `services/eventing/`; `Processing`). *State*: the index of
handlers by type; the marker. *Operations*: unwrap, offer to the candidates by priority, publish the results
one by one under ids derived from the event, settle. *Hard*: publishing fails half-way and the event is run
again; two agents give results for one event. *Correct when*: a consumer that keeps one event of each id gets
every result once.

**Dapr** (`io/eventing/dapr.py`; `FanOut`). One delivery for all agents of a topic, one answer. *Correct when*:
the answer makes the sidecar come again exactly if some agent wants it again, and a redelivery repeats nothing
a deduplicating agent has done.

**Provisioning and channels** (`nats_client.py` 1423–1701, 2558–2909; `Provisioning`, `Channels`). *State*:
streams, durables and queue groups at the broker, which outlive every process. *Hard*: a stream is read and
written in two requests while others write it; a durable is found under a name that another configuration
derived. *Correct when*: a bound client has its subjects and its durable; a channel is one agent's, all its
replicas share it, whatever processes they run in.

**Sessions** (`io/api/eventing/sessions_bus.py`, `handler/sessions_job_handler.py`; `Sessions`; the keys in
`services/sessions/key_provider.py`, `SessionKeys`). *State*: the stream task and its attempts, the tracked job
tasks behind a semaphore, the in-flight and finished jobs, the pause and shutdown flags; the cached keys; the
service's job statuses. *Operations*: connect, receive, catch up, a job's requests, cancel, time out, pause,
resume, shut down; fetch a key, drop it, retry once. *Hard*: the same job arrives from the stream and from a
catch-up, and on several replicas; keys go stale half-way and while they are fetched; a request takes effect
and its answer is lost; shutdown drains while a catch-up still spawns. *Correct when*: a job is worked on once
and not disturbed, every job is taken up, the guards match the tasks, nothing is alive after the agent is
unregistered, and a retry after a refusal uses a newer key.

**Scheduler** (`io/api/scheduling/scheduler.py`; `Ticks`). *State*: a timer and a cursor per replica, the slot
claimed in the shared cache. *Hard*: clocks differ, ticks come late, a claim may go unanswered. *Correct when*:
one replica runs a slot, while the cache answers.

**Caches** (`services/infrastructure/cache_service.py`; `DiskCache`, `AtomicCache`). *State*: a value and its
expiry as two entries, a lock of threads. *Correct when*: to its callers a key is one entry that appears,
expires and is claimed at one moment.

### When it starts and stops

**Lifecycle and readiness** (`app_builder.py` 1378–1740, `health_cache.py`, `readiness_policy.py`,
`actuator_api.py`; `Lifecycle`). *State*: what has started, what failed and is to be retried, per agent; the
latches; the polls and the cached answer of the probe. *Hard*: a component is retried while polls find the rest
of its agent healthy; the shutdown comes while one is starting. *Correct when*: an agent consumes only when all
of its components run, comes back without a restart, and what has been stopped is not started again.

**Assembly** (`group_config.py`, `agent_group.py`, `layout.py`, `app_builder.py` up to 1100,
`component/registry.py`, `component/namespace.py`; `Registry`, `Assembly`). *State*: the group, the declarations
of each agent, the one registry, the caches, the entries of the readiness probe, what feeds which handlers.
*Hard*: names that spell each other's, two components of a class, renames, instances built before their
neighbours, schedulers wired before transports. *Correct when*: an agent finds its own components or the
root's, never a neighbour's, and what starts serves what was declared, in that order.

**Settings** (`config/config.py`; `Settings`). The files of each agent are merged under its name into the tree of the
process. *Correct when*: an agent reads its own value or the process's, never a neighbour's.

**asbs validate** (`cli/commands/validate.py`, `validate_group.py`; `Validation`). *Correct when*: what it lets
pass starts, and what it reports of an agent the process counts on would have stopped it.

### Not modelled

REST routing and models; telemetry, logging and metrics, which observe and decide nothing; the HTTP and AI
clients and the prompts (pure I/O); the rest of `asbs` (the generator, `create`, `docs`: sequential file output).
What is left out inside the modelled parts is at the end of section 6.

## 2. The modules

| Module | Role |
|---|---|
| `RunPool` | the run pool; `MCRunPool` its instance, `RunPool_proofs` its theorems |
| `Consumption` | one agent's default NATS connection with its supervisor; `MCConsumption` has initial states in mid-life and further properties; `Consumption_proofs` |
| `NamedConnections` | the named connections of an agent and their reconcile; `MCNamedConnections`, `NamedConnections_proofs` |
| `AtLeastOnce` | abstract: what delivery promises of each event |
| `Delivery` | JetStream deliveries on several replicas; instantiates `AtLeastOnce` as `Promise`; `MCDelivery`, `Delivery_proofs` |
| `Sessions` | the sessions bus, its job tasks and the service; `MCSessions`, `Sessions_proofs` |
| `SessionKeys` | the cached key of a session, its jobs, and the service that changes it |
| `Lifecycle` | startup, recovery, latches, polls and shutdown of a process with several agents |
| `Ticks` | the schedulers of several replicas in in_process mode |
| `AtomicCache` | abstract: a cache whose operations happen at one moment each |
| `DiskCache` | the disk cache, access by access; instantiates `AtomicCache` |
| `FanOut` | a Dapr delivery and its agents |
| `Provisioning` | clients that provision one stream, and an operator |
| `Channels` | queue groups, durables and subjects of replicas of agents; `MCChannels` has their configurations |
| `Processing` | an event that several agents dispatch, publish and are given again |
| `Registry` | operators: names, lookups and caches through an agent's view |
| `Assembly` | one start of a process; extends `Registry`; `Assembly_proofs` |
| `Validation` | what `asbs validate` says of it; extends `Assembly`; `MCDeployments` the deployments, `MCAssembly` the two alone |
| `Settings` | the settings tree, merges and views |
| `Process` | the composition of ten of the above: a process, part by part; extends `Validation`, instantiates the others |
| `Process_proofs` | theorems about its lifespan, ticks, disk cache, session keys and settings, and that its start is `Assembly` |
| `Events_proofs` | theorems about its events: provisioning, channels, processing, and a sidecar's delivery |
| `MCProcess` | `Process` on an instance of each part |

Conventions: an action is the code between two awaits of a task (in `DiskCache` one access to the store), with
every call it makes; the places where a task may be suspended are the values of its program counter (`status`
in RunPool, `task[x].at`, `run[d].at`, `at`). Faults come from outside and need not come; a run names the kinds
it has, where there are several, and how many may happen. A definition whose comment begins "Mutant of" or
"Mutant:" is a plausible mistake kept beside the definition it is a mistake of: with it in place, the property
that `PROJECT.json` names for it fails.

**RunPool.** `pool` is the pool's counters with those of the `PairRuns`; `status[r]` is how far the call `r`
of `acquire` is, where "cancelling" and "abandoning" are the two outcomes of a cancellation (the future was
still pending, or already granted); `slot[r]` is its releaser; `waiters` and `before` are the deque as a set
with its order, which keeps the proofs short. `_wake` scans the queue and grants on the way; `Wake` states its
result: the set `G` of granted calls is the one in which each member, given the grants before it, may run.
`acquire` is three actions for its outcomes.

**Consumption.** `Observers` stand for polls and for `mark_down` calls, with the pause or resume they lead to; `Loop`
is `_start_with_retry`; `RetryTasks` are `_retry_resume` tasks, several because a cancelled one may still be
finishing. `subs` counts subscriptions per topic, so that duplicates show. `flag.managed` is `_managed`, `flag.ready`
is `_subscriptions_ready`, and so on. The pause flag is read once before topics are subscribed one by one
(`SubscribeTopic`), as in the code. `LoopRefused` is a server that answers and does not offer JetStream: final, and
since `flag.refused` the client stays unhealthy (`_jetstream_mismatch`). `sup` is the namespace supervisor's record,
its latch and the recovery that releases it, `other` the agent's other health checks. `faults` also records one fact
of the past, for the properties: that a drop of the loop has wiped what a resume under way had subscribed.

**NamedConnections.** `bind[x]` is the x-th `_Binding` ever made: `state` is "made" while only its replacement's loop
knows it, "named" when it is in `_named`; `sub` is "unlisted" between the subscribe and the append to the list, and
`lost` a live subscription the list no longer has. A login that is refused fails the binding, while it opens
(`LoginRefused`) and when its link reconnects (`ReconnectRefused`). `rec`, `retire`, `call` are the three things that
hold the change lock. `given` are the names of which nothing is promised at the moment, because the source has removed
them or the agent was paused.

**Delivery.** A delivery is an event and an attempt number. `run[d]` follows it: buffered, waiting for a slot (the run
pool, here a number of slots), claiming the marker, running, releasing the marker, settling, terming (between the dead
letter and the term), over, or killed with its process. The broker is external and is modelled by what the code relies
on: it redelivers after `ack_wait` unless the latest delivery sends heartbeats, the first a third of `ack_wait` into
the run (`Report`), up to the `max_deliver` of its consumer, while the code counts up to the one it has configured
(`Configured`); an ack of the latest attempt counts, and what one of an older attempt does is left open.

**AtLeastOnce.** `kept`, `accounted`, `tries`; an event leaves the consumer only once accounted for or tried
out, and one that is kept is tried again. `Delivery` implements it, for the events that are not deduplicated,
with `kept` the events the broker holds, `accounted` those handled or dead-lettered and `tries` the broker's
delivery count. (With deduplication it does not, see section 5.)

**Sessions.** `task[x]` for a replica, a job and a copy is one tracked task of `_handle_job_notification`; its stages
are the requests it awaits. `inflight` and `seen` are the handler's two guards. The service is external: pending,
running, final; a request it does not allow is refused with 409. A request may be lost, or take effect and lose its
answer (`CallFails`, `TimesOut`); a job's key may not be had, or be refused when it is asked for (`KeyFails`,
`KeyRefused`); and the handler forgets finished jobs (`RecentJobIds`, by age and by number; `Forget`, at any time).
`drain` is what `_drain_inflight_jobs` has counted. A pause awaits the end of the stream, and a resume may come before
that: `missed` records it. Merged or left out: overlapping catch-ups of one replica are one; the replay cursor; where
the key comes from, which is `SessionKeys`: there keys are numbered as the service issues them, a job's task gets,
uses and is refused one, and `refusal` remembers what the service would have accepted.

**Lifecycle.** `Order` is the order of the start by kind, `at` the lifespan's place in it; `pending` and `task`
are `_failed_startups` and `_recovery_tasks`; `poll[w]` is how far the poll of `w` is, who may be the interval
job, the lifespan, a recovery or a client that reports a fatal error; `verdict` is what it found and acts on
later. Recovery tasks survive until `_stop_startup_recovery` has cancelled and awaited them.

**Ticks.** Time is counted in units of which a few make a minute. `cursor` is `_fire_cursor`, from which a tick
derives the slot it was scheduled for, `expiry` the claims in the shared cache.

**DiskCache, AtomicCache.** `value[k]` and `expires[k]` are the two entries of a key. The refinement maps the
abstract entry to the pair as it was when the lock was taken while an operation is under way (`before`, `Entry`),
so that each operation is one abstract step when it gives the lock back. The store may raise at any access
(`Raises`): what was written stays, and the operation answers as an empty cache would, a claim with "yes".
`AtomicCache` lets an operation fail in that way, without effect or with its half of it (`SpoiltEffect`).

**FanOut.** A delivery has a `turn`, the agent it is offered to, and `outcomes`; `Combined` is
`combined_disposition`. `declarative` says whether the sidecar read the routes from the subscription document or from
a file, which decides what it delivers.

**Provisioning, Channels.** A request and what it changes at the broker are one step; one that gets no answer may have
taken effect (`CreatesUnanswered`, `WidensUnanswered`, `AddsUnanswered`) or not (`Unanswered`). In `Channels` a
subject is a sequence of tokens, a token a sequence of words and separators, as the names that agents derive from
subjects collide or do not by exactly these; a replica may come back with another configuration, in another process,
and finds what it, or another, left at the broker.

**Processing.** `accepted` and `issued` are what a consumer that keeps the first event of an id has kept:
result ids are modelled by what they are derived from (`ResultId`).

**Registry, Assembly, Validation.** A name is a sequence of words, which the code joins by `_`: qualifying is
concatenation, so two agents may spell one key. `Assembly` is sequential: one action per phase or per declaration, and
every way out of it in `why`. `Validation` reads the same deployment `dep`, without starting it; it assumes that the
check runs with the deployment's own variables, that the code is laid out as the generator lays it out (a declaration
is found where it is looked for), and leaves out warnings, which promise nothing of the start. `Wrong(n)` names the
settings of an agent that hold what cannot be used, those of the image itself as the root's; `dep.debug` whether
`event_loop_debug` is a boolean. `Unforeseeable` are reasons no file shows, `NotLookedFor` those that files show and
the check does not look for.

**Settings.** The tree maps paths to where their value came from, so that a reader's answer is whose value it is: the
process's own files first, where they name the agent, then the agent's secrets, its settings, and the process's value.
A view does not give what identifies the deployment, asked for by that very key (`Withheld`), and says of
`app_environment` what the process loaded, whatever is set there. A key may stand for a table, and is then answered
from everything in it.

Modules that meet share no variables. The seams are abstracted on the side that does not own them: the slots of
a replica (RunPool owns the limits, `Delivery` has a number), the pause of a replica (`Consumption` owns when,
`Delivery`, `Sessions` and `FanOut` have it at any time), the key of a session (`SessionKeys` owns it,
`Sessions` has its outcomes), a start that fails (`Consumption` and others own why, `Lifecycle` has the
failure), the stream and the durables (`Provisioning` owns how they come to be, `Channels` whose they are).

## 3. The runs

| Run | Module, configuration | Size | Shows |
|---|---|---|---|
| run_pool | MCRunPool, RunPool.cfg | 2 pairs, 5 calls, 0–2 registered pairs | TypeOK, SlotsAccounted, NoLostWakeup, FifoWithinPair, GrantsWithinLimits, EveryWaiterServed |
| consumption | MCConsumption, Consumption.cfg | four instances: JetStream from an agent that consumes, 6 kinds of fault; Core NATS from the start, one retry, 7 kinds; JetStream from the start, which the server may not offer, 3 kinds; two observers that overlap, 3 kinds; 3 faults each | TypeOK, NeverAbandoned, EventuallyConsumes, CallsEnd |
| connections | MCNamedConnections, NamedConnections.cfg | 2 names, 2 versions, 5 bindings; 5 budgets of changes, faults, pauses and runs | NothingLeftBehind, RevokedOrDone, ReadyDelivers, NewBeforeOld, Converges |
| delivery | MCDelivery, Delivery.cfg | 2 replicas, 3 attempts, 2 faults of 8 kinds; the agent expects the 3 | ImplementsAtLeastOnce, EveryEventAccounted, without deduplication |
| delivery_dedup | MCDelivery, DeliveryDedup.cfg | the same, deduplicated; the agent expects 2 attempts | TypeOK, RunsOnce, MarkersReleased |
| sessions | MCSessions, Sessions.cfg | 1 replica, 3 copies of a job, 2 slots, 2 attempts, 3 faults of 13 kinds | WorkUndisturbed, GuardHeld, FinishedLeftAlone, QuietWhenUnregistered, StreamReopened, EveryJobTried |
| process | MCProcess, Process.cfg | ten parts, below | see below |
| resume_overtakes_pause | MCConsumption, ResumeOvertakesPause.cfg | 2 observers | LatchedStops is violated |
| fatal_released | MCConsumption, FatalReleased.cfg | 1 observer | FatalStaysDown is violated |
| dedup_loses_event | MCDelivery, DedupLosesEvent.cfg | 2 replicas, 2 attempts, no faults | NothingLost is violated |
| widening_loses_subject | MCProcess, WideningLosesSubject.cfg | 3 clients and an operator | OperatorsSubjectsKept is violated |
| redis_fallback | MCAssembly, FallbackStarts.cfg | one deployment | FallbackStarts is violated |

The run `process` chooses in its initial state which part a behaviour is about, and the others stay where they
are. The parts share no state, so nothing is lost by not interleaving them.

| Part | Size | Shows |
|---|---|---|
| Lifecycle | root and one agent, 4 components, 2 faults, 1 change of health | ConsumesWhenStarted, StoppedForGood, AgentsRecover |
| Ticks | 2 replicas, clocks up to 1 unit apart, 2 minutes of 3 units, 1 fault | RunOncePerSlot |
| DiskCache | 2 threads, 1 key, 3 calls, entries that expire at once or never | ImplementsAtomicCache |
| SessionKeys | 2 jobs, 3 keys, 2 faults, 3 sources of keys | RetriesWithNewKey |
| FanOut | 2 agents, 3 topics, 2 deliveries, 1 pause or resume | AnswerCoversAgents |
| Provisioning | 3 clients, 2 of them on one durable, 1 operator's pattern, 1 fault | BoundSubjectsCarried |
| Assembly, Validation | 2246 deployments of 16 builders | OwnOrShared, ServedAsDeclared, ValidatorAgrees |
| Processing | 2 agents, 3 handlers, 2 deliveries, 2 faults | ResultsKeptOnce |
| Settings | 2 agents, 2 files each, 16 keys asked for | ReadsOwnOrShared |
| Channels | 4 replicas of 3 agents with 2 to 7 configurations each, 3 starts | ChannelsHeld |

**Why the bounds are enough.** *RunPool*: pair `a` has a fixed limit of 2, pair `b` 67 % of the registered pairs and
at least 1, the extra limit is 67 % of 0 to 2 pairs, that is 0, 1 or 2: each limit is the one that binds in some
state; three calls of one pair hold a slot, wait and come behind, and two calls of a pair can keep the extra limit
used up for ever, which is the only way to starve. What is more, the invariants of this run are proved for every size
(section 4). *Consumption*: two topics separate "some subscribed" from "all"; two observers are an overlap; one retry
that is cancelled and one that follows it are two retry tasks; three faults give every sequence of a failure, a
failure of its repair, and a latch or a shutdown. *NamedConnections*: two changes make a chain of two replacements,
the longest the code keeps; a change with a fault, with a pause, and a fault with a pause or another fault (a link lost,
and its login refused) meet in every order.
*Delivery*: two replicas and three attempts give a first run, a redelivery beside it and a last attempt; events
interact only through slots and buffers, which the redeliveries of one event already fill. *Sessions*: one replica may
get a job from the stream, from a catch-up and from a second catch-up; two slots let two of its tasks run and a third
wait; two connection attempts let the bus reconnect once and give up after that. Faults of `Delivery` and `Sessions`
happen at most once per kind, and two or three of them in a behaviour. *Lifecycle*: the root, and an agent with a
component of each kind, fail in every place, alone and together. *Ticks*: the second minute is claimed beside late
ticks of the first. *DiskCache*: an operation meets one of the other thread, and a third sees what they left, also
when the store failed one. *Assembly*: each pair of builders, each fault of a file and each backend on each transport,
rather than their product; agent names where one is the beginning of the other, as only these spell each other's keys.
*Channels*: agents on one topic, on topics whose durables get one name, with and without JetStream, in one process and
in several; a replica starts three times, so that what a second leaves meets a third.

What the runs leave out, because the property fails there, is said in section 5: overlapping polls in the
first three instances of `consumption` (one observer). What the properties excuse is in their comments and there,
too: for `consumption`, a drop of the loop that wipes what a resume has made, and final errors (`Spared`); for
`sessions`, a resume that came while the pause before it still stopped the stream (`missed`), until the next one, and
a bus whose connection attempts are used up (`GaveUp`).

**Fairness.** The event loop runs every task that is ready, sleeps end, and what a task awaits answers or
times out: weak fairness of a task's steps. Handlers return, because `nats_handler_timeout` and `job_timeout`
bound them. Polls recur every `health_check_interval`, and nats-py reconnects for ever unless told to stop:
weak fairness of `Poll` and `Reconnect`. A check that fails passes in the end, and recovery retries a
component until it starts: assumptions about the environment, without which an agent rightly stays down. A
fatal transport error is handled by a task of its own: strong fairness of `MarkDownFatal`, since in the model
it needs an observer that polls may keep busy. The broker delivers what it has and `ack_wait` runs out. A
paused replica or bus is resumed in the end (that this is so is what EventuallyConsumes shows). In
`NamedConnections` what happens from outside is bounded, so that it is enough that something goes on: weak
fairness of all steps of the client together. In `process` only the part about Lifecycle has fairness,
that of an agent's recovery task and of the polls it makes (not of the timer, nor of the shutdown); the
properties of the others say what never happens. No fairness is assumed of faults, of new events or of new
jobs, nor that RunPool's callers call again.

Deadlock is checked in `run_pool` and `consumption`, which go on for ever. Elsewhere finitely many events, jobs,
changes or starts are dealt with in the end and nothing is left to do; there the liveness properties rule out
that something is stuck before.

## 4. The proofs

Every theorem holds for any values of the constants that meet the assumptions its module names; the runs show
the same on one instance. The assumptions give the constants their form (bounds are natural numbers, a call
belongs to a pair), and where they say more it is said below. Modules that `Process` instantiates name theirs
`Parameters`; `Process` assumes it of each instance, and TLC evaluates it on those of `MCProcess`. Histories
and bounds are part of the models, so that the theorems are about every execution with up to that many faults
or time units, for every such number.

| Module | Theorems | Property checked as |
|---|---|---|
| `RunPool_proofs` | `TypeCorrect`, `Accounting`, `NoWakeupLost`, `GrantedWithinLimits`, `FirstComeFirstServed` | TypeOK, SlotsAccounted, NoLostWakeup, GrantsWithinLimits, FifoWithinPair |
| `Delivery_proofs` | `TypeCorrect`, `SingleRun`, `NoMarkerLeft`, `AtLeastOnceDelivery` | TypeOK, RunsOnce, MarkersReleased, the safety part of ImplementsAtLeastOnce |
| `Sessions_proofs` | `TypeCorrect`, `GuardIsExact`, `FinishedStaysFinished`, `RegistrationOutlivesJobs`, `StreamComesBack`, `OwnWorkUndisturbed` | (TypeOK), GuardHeld, FinishedLeftAlone, QuietWhenUnregistered, StreamReopened, WorkUndisturbed |
| `NamedConnections_proofs` | `TypeCorrect`, `EachSupersededIsRetiredOnce`, `RetiredRunsAreRevoked`, `ReadyMeansDelivering`, `NoGapBetweenVersions` | (TypeOK), NothingLeftBehind, RevokedOrDone, ReadyDelivers, NewBeforeOld |
| `Consumption_proofs` | `TypeCorrect`, `NobodyAbandoned`, `PauseHeldByRetry` | TypeOK, NeverAbandoned, (none) |
| `Process_proofs` | `StartsBeforeConsuming`, `StopIsFinal`, `OneRunPerSlot`, `CacheIsAtomic`, `FreshKeyOnRetry`, `ReadsItsOwn`, `StartIsAssembly` | ConsumesWhenStarted, StoppedForGood, RunOncePerSlot, ImplementsAtomicCache, RetriesWithNewKey, ReadsOwnOrShared, (none) |
| `Events_proofs` | `BoundIsServed`, `OfferedOnceInOrder`, `KeptOnce`, `EveryAgentAnswered`, `ChannelsAreOnesOwn` | BoundSubjectsCarried, (none), ResultsKeptOnce, AnswerCoversAgents, ChannelsHeld |
| `Assembly_proofs` | `OwnFound`, `ServedOnce`, `ValidatorIsRight` | OwnOrShared, ServedAsDeclared, ValidatorAgrees |

None of the properties is inductive. What each invariant adds, and why:

**RunPool.** `IInv` adds that a call holds a slot exactly from its grant to its release (`Consistent`), that
the queue holds every waiting call and besides only cancelled ones (`Queued`), and that `before` is a strict
total order on the queue (`Ordered`). NoLostWakeup needs `Ordered`: when a call is freed, a call that is still
not granted could only run if none of its predecessors took what was freed, and that the scan considered them
is what the order says. `Accounting` needs `Consistent`, for a slot is handed back by a call that was
cancelled after its grant. Every step that frees something ends in `Wake`, which is also reached from values
that no state holds (the counters after the release, before the scan); so the parts of `IInv` are operators of
a pool, statuses and releasers. `WakePreserves` shows that `Wake` establishes `IInv'` from these parts;
`FreeAndWakePreserves` reduces `Release` and `HandBack` to it, `StartPreserves` covers the two grants without
a queue, and `RemovePair` rests on `ResolveMonotone`: fewer pairs never make a limit larger, so nobody becomes
grantable. `FirstInQueue` finds the first call of a nonempty set of waiters, as strict inclusion of finite
sets is well founded. The two action properties follow from `IInv` and the same lemmas.

**Consumption.** The theorems are about one call at a time (`OneCall`): with calls that overlap, LatchedStops and
NeverAbandoned fail (section 5). `Calls` then says who that call is. A retry of a resume is the one that
`_resume_retry` names, no observer is at work beside it, and the client is paused though the agent is recorded as
up; an observer that pauses has the agent recorded as down and no retry alive; one that resumes has cleared the
pause. Hence an agent that is up but paused has a retry (`PauseHeldByRetry`), and the steps that wait for the
change lock are never reached. `Tended` says who is at work on a topic that is not subscribed. A resume that
subscribes still has it to do (`ResumesTended`), until it is through or drops everything and pauses again. On a
client that is not paused it is the loop or the resume of an observer (`LoopTended`): whatever takes subscriptions
away also starts one of them, or pauses. The one step that breaks this is the loop's drop while a resume is
half-way, which the code does not prevent; `wiped` records it, and NeverAbandoned excuses it, with what follows a
final error. The steps of a call are reduced to their outcomes (`SetOutcome`, `SubscribeOutcome`,
`SubscribeFailsOutcome`), from which both parts follow; those of the broker and the loop disturb no call
(`OutsideCalls`, `CallsKept`).

**Delivery.** What keeps the runs of an event apart is its marker, as long as the cache answers:
`MarkerExcludes` says that a run that has claimed finds the marker set and the event not handled, that there
is one such run, and that a handled event keeps its marker. It rests on `ClaimedWhileRunning` (only runs of
deduplicated events claim, and one under way has), `BufferedOnce` and `MadeByTheBroker`. For the refinement,
`SettledOnRecord` adds that an ack or a term is only decided once the event is handled or dead-lettered;
`PromiseStep` shows action by action that what the consumer does is a step of `AtLeastOnce` or a stutter,
through the lemma `PromiseStutter` for those that touch neither the record nor what is settled. The liveness
part of AtLeastOnce is not among what is proved.

**Sessions.** `Guard` relates a replica's in-flight set to the tasks past it, one per job; `Closing` says what
a shutdown waits for (whatever is alive is in what it drains, and the stream is closed before); `Decided` that
a task that reports has a verdict to report. `StreamComesBack` is about all pauses and resumes, the ones that overlap
included: there the code can lose the stream until the next pause and resume (section 5), and the theorem says that
this, and attempts that are used up, are the only ways. It needs that a bus that has not started has no stream
(`Unopened`). `OwnWorkUndisturbed` assumes one replica: with
several, each cancels what another works on (section 5). `WorkKept` and `JobsKnown` say what the service knows
of a job at each stage of its task, which is more than the guard says, since a task that cancels has left it.

**NamedConnections.** `IInv` is `TypeOK` and, until the client closes, `Open`. `Turns` says who holds the change
lock and what goes on under it: a retirement, a reconcile and a draining pause exclude each other, and a
reconcile that replaces has the retirement of the one it replaces under way. `Loops` ties a binding's loop to
its state; a loop that is about to retire what it replaces has replaced nothing else. `Superseded` is
NothingLeftBehind made inductive: what is superseded is awaited by a pending binding, or queued, or being
retired, and each of these by one only; the cardinalities of the property follow. `OneEach` carries what a
reconcile has read: `rec.current` was looked up under the lock, and stays the one binding of its name that
is not superseded until the name is dealt with, because only reconciles supersede and add, and the retirements
a reconcile waits for are of superseded ones. `pairs`, which the pool's limits count, is exact except inside a
reconcile. `Calls` says what paused and the phases of a resume imply for the subscriptions, which ReadyDelivers
needs. `Untouched` is what NewBeforeOld needs: of a name neither removed nor paused, a loop at work belongs to a
binding that is neither bound nor superseded, and a queued retirement has a bound successor (`Kept`). Most
steps change one binding without touching what it is: `OwnStep` covers those, with `SupersededStays` and
`OneEachStays`; the steps of reconcile and retirement have a lemma each. That
the bound on the bindings ever made stops no reconcile (`Sizes`, `Room`) is a fact about the instances: each change
of the source makes at most one binding.

**Lifecycle.** `Parameters` say that the component that consumes is the last of its namespace. The code makes
it so: the lifespan starts eventing and lifecycle components after all other kinds (`app_builder.py:1672-1714`),
and an agent has one transport (`app_builder.py:1120-1141`). `StartedInOrder` says how far startup has come;
`FailuresListed` that a component that failed is in the list its agent's recovery works through, that the
agent is latched as long as the list is not empty, and down as long as it is latched; `CancelledFirst` that
nothing is stopped before the recovery tasks are cancelled, which is all StopIsFinal needs. An agent consumes
when its consuming component has started and the agent is up; then nothing of it is listed, so nothing failed,
and what comes before in the order has started.

**DiskCache.** The refinement maps the two entries of a key to one, seen only when the lock is free (`before` is what
the holder found). `Whole` says that whatever the holder does is to its own key; `Progress` what it knows at each of
its accesses, in particular that at some moment since its call the entry was alive or had expired: the moment at which
the atomic operation is said to happen. An operation that the store failed leaves at each access what `SpoiltEffect`
allows (`RaiseKeeps`); an expiry may then outlive its value, which is why deleting an absent value changes nothing.

**Ticks.** `ClaimOutlasts`: a slot that has been run has a claim that lasts until no replica asks for it any
more. A replica that asks is late by at most the grace and the wait, on its own clock (`InTime`), and clocks
differ by at most the skew, which the time to live of a claim covers; times are whole minutes (`OnTheMinute`),
by arithmetic on the remainder.

**SessionKeys.** `Retrying`: from its refusal on, a job that retries holds no key, or one at least as new as
the one in force when it was refused (but for a key from the environment, which nothing renews). It holds
because a 403 drops the cached entry before the retry asks for one.

**Provisioning.** `Carried` says from which step on a client can count on its subjects,
`NothingBeforeTheStream` and `Filtering` what it has seen before. The property's own exceptions are those of
the code: a write over another's, and one without an answer.

**Processing.** `Recorded` ties what the consumer accepted to the ids it has seen, `CompleteOf` to how far a
run has published; `AnsweredOf` says that a marker nobody answered for belongs to the run under way.
`OfferedOnceInOrder` is about `Candidates`, which sorts by priority and position: it is in bijection with the
handlers that may be offered the event, and ordered. The proof counts those before each (`Rank`).

**FanOut.** The agents of an event are a sequence without repetition, built from the places of their handlers
(`Numbered`, `AgentsCover`). `Followed`: whom a request has been through with has handled or rejected the event, or
the answer already says "again". `Marked`: a marker is that of the one request that runs the event for its agent,
or of a run that has finished, which is why a deduplicating agent finishes once.

**Assembly.** A start is sequential, and its invariant is one part per stage, each resting on the ones before.
`Hosting`: who is hosted is a list without repetitions of agents of the group, each a namespace other than the
root's, and the critical ones among those looked at so far are on it. `Replaying`: what an agent declares is
replayed whole, in its order, in its namespace. `Registering`: no two components have one key (`KeysDistinct`),
every declaration reached is registered under the name it has in the end (`ClaimsHeld`), and from the restored
order on the handlers stand as declared (`InOrder`; `GrowthKeeps` and `OrderKept` say that what is added later
leaves them so). `Caching`: the caches of an agent are those it declared. *OwnOrShared* follows, though two
agents may spell one key: what is found is registered under a key of this agent's or the root's, and of one key
there is one component (`OwnFirst`). For *ServedAsDeclared*, `Fed` counts transports: every agent of the line from
the root on that consumes has been given one feed when it was reached, and nobody a second one; `Checked` says that
the probe's entries are those `Mount` computed, and what computes them does not change. Keys of checks collide with
nobody else's because no namespace contains the dot that joins it to a name (`Dotted`).

*ValidatorAgrees* compares what `asbs validate` finds in the files with what the start does with the image, so the
invariant also says where everything comes from. `Loaded`: who is hosted was found, in its place, with settings that
fit; `Originated`: a handler or scheduler comes from a declaration, or is the handler of a scheduler's tick; `Timing`:
every scheduler passed its check and has that handler; `Wired`: there is a client for exactly those who consume or
publish, and whether they publish could be read. With these, what the check reads off the files is what is registered
(`ConsumesAsRead`, `TopicsCounted`), and when the process serves, nothing the check takes for fatal can have been
there (`Sound`). For the other direction, every action that refuses has its reason among what the check reports, or
among what it does not look for (`Explained`; a lemma for each: `GroupExplained`, `LoadExplained`, `HostExplained`,
`WireExplained`, `StartupExplained`). Deployments are assumed to have the form of `GroupFit`, `ImageFit` and
`SettingsFit` only: any number of agents and of declarations, any names. `StartIsAssembly` carries the three theorems
to `ProcessSpec`, which the run checks.

**Settings.** `SettingsInv` says what the tree is once files have been merged: what the process's own files set is as
it was; everything else was brought by an agent's file that has been merged, under the agent's name; and what a
merged file brings is there, or gave way to something at, above or below it, which for secrets is no value of the
settings. No path is under another. *ReadsOwnOrShared* is then about views: what is found under an agent's name is
the agent's (`Whose`), and elsewhere the process's unless the key is a neighbour's section, which `Foreign` refuses
(`ScopedOwners`). That `asbs validate` sees what is read needs the other direction of the invariant as well, that
what a file says is in the tree (`MergedValue`). Assumed is that no agent has the name of a shared table (the code
reserves these names), that within a section a value holds nothing else, and that the keys `asbs validate` reads are
values wherever they are set; the other keys may be tables in one file and values in another.

**Channels.** `ChannelsInv`: the channel of a subject is the one its configuration derives, and a durable that is
joined filters that subject and has the deliver group its replicas were told. It holds because nothing at the broker
changes once made, and a durable with another filter is not joined (`Belongs`): thus two agents on one durable would
have one subject, and with the subject the same in both names, what precedes it is too (`DurableTells`). That a
spelt subject is a name at all is a recursion over its tokens, proved by the first token where it would fail
(`SpellsAll`, `SpeltIsAName`). Assumed of a deployment is what the code warns of and cannot see: a durable that is
configured is one agent's, and the same for its replicas (`DurablesScoped`); and a service alone does not take an
agent's name for its queue group on Core NATS (`NoAgentsName`). On JetStream, names may collide as they will.

*Only checked.* Liveness under fairness is out of the prover's reach: EveryWaiterServed, EventuallyConsumes,
CallsEnd, Converges, EveryEventAccounted, EveryJobTried, AgentsRecover and the liveness part of
ImplementsAtLeastOnce. The safety invariants and the action properties of the passing runs are all proved.

## 5. Where the code does not do what it says

Five disagreements have a run that finds them. Others are stated in the modules and fail on the instance given
here (Spec, or the initial state `Established` where it says so); each has been reproduced with TLC. The rest was
seen while modelling and is described only. None is assumed away silently: where a passing run or a property
excludes one, the exclusion is named.

**With a run**

- *A resume overtakes a pause* (`resume_overtakes_pause`, LatchedStops). `_try_resume` clears
  `_consumption_paused` after its await (`nats_client.py:2223`); a `mark_down` that paused and drained the
  client meanwhile is undone, and the latched agent consumes.
- *A final error is released* (`fatal_released`, FatalStaysDown). The latch is one entry per agent: recovery
  of a failed startup component clears it (`namespace_supervisor.py:173`), even if a final transport error was
  latched since, which `app_builder.py:1428` says stays down.
- *Deduplication loses an event* (`dedup_loses_event`, NothingLost). The heartbeat starts with the run, so a
  delivery that waits in a buffer longer than `ack_wait` is redelivered; the redelivery is acknowledged as a
  duplicate of the first run, and when that run fails its nak comes too late. Only a handler that fails is
  needed. `handler_chain.py:240-242` says the heartbeat prevents this.
- *Widening removes an operator's subject* (`widening_loses_subject`, OperatorsSubjectsKept). The stream is read,
  and then written whole (`nats_client.py:2629`); what an operator adds in between is removed, though the docstring
  says widening never does that.
- *The fallback from Redis fails* (`redis_fallback`, FallbackStarts). `RedisCacheService` registers itself in its
  constructor, before the ping of `cache_backend_factory.py:189`; closing it does not take it out of the registry,
  and a named cache then collides with it. The process does not start, although `fallback_to_local` is on.

**Consumption** (`MCConsumption`)

- NoDuplicates: `Established`, Core NATS, one observer, two retry tasks, faults subscribe and check, 3 of
  them. A resume fails and is retried; the retry has subscribed one topic when a poll pauses the agent and
  cancels it without dropping what it made; the next resume subscribes that topic again
  (`nats_client.py:2181`, 2241).
- LoopSubscribesNothingPaused: Spec, one observer, no faults. The loop has read the pause flag and awaits a
  subscribe when the agent is paused; it subscribes the remaining topics (`nats_client.py:1975-1976` promises
  otherwise).
- HealthyMeansSubscribed: `Established`, Core NATS, faults check and disconnect, 2 of them. The reconnect
  callback sets ready while a resume still subscribes (`nats_client.py:3479`, 2434).
- OrphanConsumesNothing: Spec, Core NATS, one retry, faults disconnect, close, subscribe, 4 of them. A
  loop that gives up and is started again by a poll consumes, and nobody reports the agent back
  (`app_builder.py:1464`, `nats_client.py:2517`).
- ClosedConsumesNothing: `Established`, Core NATS, faults check and shutdown. A poll after `close()` asks for
  the client, and since `connect` leaves the matter to the loop only while the client is not closing
  (`nats_client.py:1982`), it connects again by itself; the polls that follow pause and resume the agent, and
  the resume subscribes.
- NeverAbandoned with two observers: `Established`, Core NATS, fault check. A poll pauses the agent while the
  resume of an earlier one is subscribing; the resume completes and clears the flag, so the next poll's resume
  finds nothing to do; then the pause's drain takes the subscriptions, and the agent counts as up and consumes
  nothing.
- NeverForgotten, which is NeverAbandoned without `Spared`, with one observer and two faults. The loop's
  `_drop_subscriptions` (`nats_client.py:2523`) wipes what a resume under way has subscribed; the resume goes on to
  the other topics and clears the pause and the orphan report (2223-2225), and nobody comes back to what was wiped.
  Three ways there, each from Spec: JetStream, faults connect and disconnect (the loop retries beside a background
  resume); Core NATS, faults check and subscribe (the loop connects beside one); Core NATS, one retry, faults connect
  and subscribe (the loop wakes beside the first resume, and then gives up). It fails, too, after a final error that
  was released: Core NATS, faults latch, fatal, disconnect and close, 6 of them. The second final error is not
  reported, for only the first is, and the reconnect sets ready with topics missing. `NobodyAbandoned` (section 4)
  shows that there is no other way, with one call at a time.

**Named connections** (`NamedConnections`; described only)

- A loop that is binding when the agent is paused goes on and binds, and the resume subscribes again: the first
  subscription is on no list any more (`lost`). It may start a run while its link is being closed, after the runs
  have been counted, which RevokedOrDone excuses.
- `resume_consumption` does not ask whether the client is closing, so that a resume after `close()` starts the
  loops again; the properties promise nothing once `flag.closing`.
- A change that is notified while a reconcile is under way whose source raises is lost until the next
  notification: Converges excuses `rec.raised`.
- A login that is refused while a link reconnects fails its binding (`nats_client.py:1180`), and a reconnect that
  succeeds later does not clear that: the binding delivers again and reads as failed until it is bound anew.
- When nats-py reports a link back between a resume's beginning and its re-bind, the binding reads as ready for
  that time: ReadyDelivers excuses a resume under way.

**Delivery** (`MCDelivery`)

- PausedStartsNothing: fault pause. A delivery passes the check of the pause flag, waits for a slot, and
  starts on the paused agent (`nats_client.py:2927`).
- HandBackRedelivers: fault pause. A delivery that a paused agent hands back on its last attempt is
  dead-lettered although nobody ran it (`nats_client.py:2931`, N4).
- NoNakUnrepeated: `MaxDeliver` 2 and `Configured` 3 (or 0), no faults. `_deliveries_exhausted` compares with the
  configured `max_deliver`; a consumer that exists with a smaller one is kept, with a warning (`nats_client.py:2736`),
  and the last attempt's nak is repeated by nobody: no dead letter. EveryEventAccounted is checked where the two agree,
  and the theorems hold of both.
- CancellationsRelease: fault cut. A run cancelled while the cache's thread claims its marker leaves the
  marker with no owner (`handler_chain.py:613`), and the redelivery is acknowledged as a duplicate.
- NothingLost fails on one replica, too, with the faults cut, crash or cache, each of which leaves a marker;
  it holds with lost, silence and cancel alone. An event also vanishes untold when its last attempt dies with
  its process, deduplicated or not: that is the exception in EveryEventAccounted.
- Described only: when an event that two handlers of an agent can take is run again, the one that answers may be
  another than the first time, and its result may get an id that the first one's had (`ResultId` knows the agent,
  the event, the type and the place, not the handler).

**Sessions** (`MCSessions`)

- DuplicateStopBenign: two replicas, no faults. A second replica's start is refused with 409, the bus takes that
  for a non-retryable error (`sessions_bus.py:531`, 627) and cancels the job the first replica works on;
  `docs/plans/2026-06-10-sessions-job-handler.md:20-22` calls the refusal a benign duplicate-stop. One replica is
  enough when the key is refused once between a second notification and its guard, which is why WorkUndisturbed
  excuses "refused" and "stale".
- PausedTakesUpNothing: two copies, one slot, fault pause. A job that waits for the semaphore starts after the
  pause (`sessions_bus.py:463`; the docstring at 110-112 leaves it pending).
- ResultsKept: one copy, fault stale. The final report is refused with 403; the key is renewed and the event
  dispatched again, the start is refused with 409, and the bus cancels the finished job.
- StartedJobsEnd: with fairness and fault timeout or retryable. The job stays running at the service for ever,
  for only pending jobs are listed by a catch-up; `_terminal_with_retry` says it stays eligible for
  redelivery. It holds without faults.
- ResumeReopens: fault pause. A resume that comes while the pause awaits the end of the stream task finds it alive and
  opens nothing (`sessions_bus.py:127`): startup, pause, resume, and the stream ends. The bus counts as resumed and has
  no stream until the next pause and resume. StreamReopened and EveryJobTried excuse this (`missed`), and
  `StreamComesBack` (section 4) shows that it is the only way but for `GaveUp`.
- Described only: a job left pending after a transient failure is retried only by the catch-up of the next
  reconnect; attempts are counted over the life of a stream task and never reset by a connection that worked
  (`sessions_bus.py:252-256`), so `sse_max_reconnect_attempts` ends a stream that merely drops now and then
  (StreamReopened and EveryJobTried excuse such a replica); `SessionsHealthChecker.update_heartbeat`
  (`sessions_health.py:94`) has no caller; an error nobody expects leaves the job pending when the dispatch raises
  it and cancels the job when the retry does, and a claim conflict counts as a failure only on the retry.

**Start of the process** (`Assembly`, `Validation`)

- RootMeansRoot: a view that asks for the root's component of a name is told whatever is registered under the bare
  name, a neighbour's component included, when the neighbour's qualified key spells it (`registry.py:255`, where
  the docstring of `_effective_namespace` says "its own namespace or the root, and no other").
- *What `asbs validate` lets pass and does not start.* "Exit status is 1 when anything would stop the image
  starting, 0 otherwise" (`src/blueprint/agent_generator/docs/guides/cli/validate.md:214`). The root's own
  handler chain always exists and resolves its idempotency policy at startup (`event_processing_service.py:60`,
  81-86): a process-wide `idempotency_enabled` in a group whose agents each declare their cache fails the start, for
  the root has none, and the check says "Valid". `registry.py:735` calls the requirement a per-agent one. In the same
  way the bad policy of one non-critical agent fails the process, where
  `docs/specs/2026-08-28-multi-agent-grouping.md:982` has it run without that agent. A group's root with
  `event_publishing_enabled` gets a NATS client of its own (`app_builder.py:1067-1142`, 1172-1199), which fails
  without `nats_url`; the check looks at the agents' only. An `event_publishing_enabled` that is not a boolean is
  refused (`app_builder.py:1199`), and the check takes it for true (`validate.py:793`). Further reasons the check does
  not look for are the members of `NotLookedFor`. ValidatorAgrees holds with these excepted, by name: it says that the
  list is complete, not that `validate.md` is kept.
- *What it reports and does start.* "would stop this image starting" (`validate_group.py:602`) is also said of agents
  that are not critical or that the group does not run, and of values nothing reads; ValidatorAgrees asks it of the
  agents the process counts on only.
- Described only: registering one class twice, first without a name and then with one, is refused though the message
  advises `name=` (the unnamed one holds the key the second has before its rename); a component of an agent whose
  own name spells the doubled key of the agent's only runtime makes every bind of that runtime fail (RuntimeFound
  excuses it); the root's cache "a.s" and agent a's cache "s" share a store; an agent's check named "cache"
  replaces the framework's check of its cache, and the sessions transport has no readiness entry; the refusal for
  "no agent left" cannot be reached through `resolve`; components that have started are not stopped when a later
  one fails the startup.
- `get_runtime_config` reads the legacy table `runtime.<name>` (`config.py:1190`), `get_ai_config` does not: a
  runtime's prompts and its model may come from different places, which ReadsOwnOrShared excuses where that table
  exists.

**Elsewhere** (described only)

- A call of `connect` over a connection that an earlier call opened before its publish or JetStream checks failed
  returns at once (`nats_client.py:1979`), so the checks (2012) are skipped: `ConnectsHalf` and `ConnectedAlready`
  of `Channels`.
- Two standalone services with a topic in common on one stream derive the same durable `<topic>-durable`, and agents
  with the same configured `nats_durable_name` share it, with a warning only: ChannelsHeld is about agents of groups.
- The lock of the disk cache is one of threads (`cache_service.py:224`), where the documentation of
  `enable_locking` speaks of processes; and a crash between the value and its expiry leaves an entry that never
  expires. Neither is modelled (a store that raises there is, with the same result).

## 6. The plan

The order is that of importance: what decides whether an event is lost, repeated, or run where it should not
be comes first.

**Built so far**, in this order: `RunPool` with its proofs, `Consumption`, `AtLeastOnce` and `Delivery`,
`Sessions`; `NamedConnections`; `Lifecycle`, `Ticks`, `DiskCache` with `AtomicCache`, `SessionKeys`, `FanOut`,
`Provisioning`; `Registry`, `Assembly`, `Validation`, `Processing`, `Settings`, `Channels`.

**Modules that may follow**: the consumers of managed bindings (`_ensure_bound_consumer`) with the control messages
of binding mode; the trigger route of the scheduler; the listings and `clear` of the caches. A module that composes
`Consumption`'s pause with `Delivery`'s buffer is worth its size only for PausedStartsNothing, which fails already
on `Delivery` alone; `Delivery` has a number of slots where the code has the run pool, and the number is what
RunPool's `SlotsAccounted` and `GrantsWithinLimits` promise.

**Not modelled, and why.** Inside the modelled parts: time (timeouts are steps that may come whenever they may, but
for `Ticks` and `DiskCache`), Core NATS deliveries (nothing is settled, so nothing is promised), an unlimited
`max_deliver` (it would only remove the last attempt), control messages of binding mode, the marker's time to live
(`handler_chain.py:192-193` asks for a window that outlasts every redelivery), durables of older releases without a
deliver group, two processes on one cache directory, the times a crontab denotes, the values of the loop's watchdog,
payloads and their decoding, the settings library and the typed configuration models, how FastAPI serves what is
mounted, what a health check does. Outside them: what section 1 lists as not modelled. RootMeansRoot of `Assembly` is
stated and in no run: it fails (section 5).
