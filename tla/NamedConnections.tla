--------------------------- MODULE NamedConnections ---------------------------
(***************************************************************************)
(* The named connections of one agent's NATS client, at run time: what a   *)
(* deployment's connection source adds, changes and removes, and what the  *)
(* client does to follow it (clients/io/nats_client.py).                   *)
(*                                                                         *)
(* Every connection has a binding with a link (a NATS connection of its    *)
(* own), a loop that connects and binds it, and the runs in flight on it.  *)
(* A reconcile compares the bindings with the source: it adds, replaces    *)
(* and retires.  A changed connection is bound anew before the old binding *)
(* is retired, and what still runs on a retired one when its grace period  *)
(* ends is revoked.  Reconciles, retirements, pauses and resumes take turns *)
(* under the change lock; the loops and the broker's callbacks do not.     *)
(*                                                                         *)
(* The default connection, and pauses and resumes that overlap each other, *)
(* are in Consumption; a delivery's way to its settlement is in Delivery.  *)
(***************************************************************************)
EXTENDS Naturals, FiniteSets

CONSTANTS
    Names,       \* of the connections the source may give
    MaxVersion,  \* the source gives a connection in versions 1..MaxVersion: spec and binding compare as one
    MaxBindings, \* bound on the bindings ever made
    Budgets      \* bounds on what happens: the source's changes, the faults of the broker, the source
                 \* and the default connection, pauses, and runs

ASSUME Sizes ==
    /\ IsFiniteSet(Names) /\ MaxVersion \in Nat \ {0} /\ MaxBindings \in Nat
    /\ Budgets \subseteq [changes : Nat, faults : Nat, pauses : Nat, runs : Nat]
    /\ \A b \in Budgets : MaxBindings >= Cardinality(Names) + b.changes

VARIABLES
    source,      \* what the source gives now: a version per name, 0 for none
    maps,        \* the agent maps handler results to topics
    bind,        \* the bindings
    flag,        \* _consumption_paused, _closing, a fatal error was reported
    lock,        \* who holds _change_lock
    rec,         \* the reconcile
    retire,      \* the binding _retire works on, and how far it is
    retirements, \* bindings a replacement's loop has handed over for retirement
    call,        \* the pause or resume under way, and the background retry of a resume
    pairs,       \* the pairs registered with the run pool for named connections
    budget,      \* what may still happen
    given        \* names the source has removed, or all once the agent was paused

vars == <<source, maps, bind, flag, lock, rec, retire, retirements, call, pairs, budget, given>>

Ids == 1..MaxBindings
None == 0

Unmade == [name |-> None, version |-> 0, state |-> "unmade", superseded |-> FALSE, replaces |-> None,
           loop |-> "off", link |-> "none", sub |-> "none", lost |-> FALSE,
           bound |-> FALSE, ready |-> FALSE, failed |-> FALSE, runs |-> 0, revoked |-> FALSE]

Binding ==
    [name : Names \cup {None}, version : 0..MaxVersion,
     state : {"unmade", "made", "named", "gone"},
     superseded : BOOLEAN, replaces : Ids \cup {None},
     loop : {"off", "ready", "opening", "subscribing", "flushing", "sleeping"},
     link : {"none", "up", "down", "closed"},
     sub : {"none", "unlisted", "listed"}, \* its subscription: made, and noted in the list
     lost : BOOLEAN,                       \* a subscription the list no longer knows is alive
     bound : BOOLEAN, ready : BOOLEAN, failed : BOOLEAN,
     runs : 0..1, revoked : BOOLEAN]
Flag == [paused : BOOLEAN, closing : BOOLEAN, fatal : BOOLEAN]
Reconcile ==
    [at : {"off", "locking", "names", "replacing", "removing"}, todo : SUBSET Names,
     current : [Names -> Ids \cup {None}], wanted : [Names -> 0..MaxVersion],
     created : SUBSET Ids, gone : SUBSET Ids, dirty : BOOLEAN, raised : BOOLEAN]
Retirement == [at : {"off", "draining", "waiting", "closing"}, b : Ids \cup {None}, next : Ids \cup {None}]
Call ==
    [at : {"off", "pausing", "draining", "resuming", "trying"}, todo : SUBSET Ids,
     retry : {"off", "sleeping", "locking"}]
Budget == [changes : Nat, faults : Nat, pauses : Nat, runs : Nat]

TypeOK ==
    /\ source \in [Names -> 0..MaxVersion] /\ maps \in BOOLEAN /\ bind \in [Ids -> Binding]
    /\ flag \in Flag /\ lock \in {"free", "reconcile", "retirement", "pause"} /\ rec \in Reconcile
    /\ retire \in Retirement /\ retirements \in SUBSET Ids /\ call \in Call
    /\ pairs \in 0..MaxBindings /\ budget \in Budget /\ given \in SUBSET Names

-----------------------------------------------------------------------------
(* Helpers.                                                                *)

Named == {x \in Ids : bind[x].state = "named"}

\* A subscription on the link still delivers.
Live(x) == bind[x].link = "up" /\ (bind[x].sub # "none" \/ bind[x].lost)

\* A binding is left to be made: never wanting, by Sizes.
Room == \E x \in Ids : bind[x].state = "unmade"
NextId == CHOOSE x \in Ids : bind[x].state = "unmade"

Fault ==
    /\ budget.faults > 0
    /\ budget' = [budget EXCEPT !.faults = @ - 1]
    /\ given' = given

Changes(x, r) == bind' = [bind EXCEPT ![x] = r]

\* _new_named_binding: for name n, as the reconcile read it, in this state.
NewBinding(n, v, state, replaces) ==
    [Unmade EXCEPT !.name = n, !.version = v, !.state = state, !.replaces = replaces]

\* _start_named_links: the bindings b with the loops of the named ones in xs
\* running -- whether or not they are bound already.
LinksStarted(b, xs) ==
    [x \in Ids |-> IF x \in xs /\ b[x].state = "named" /\ b[x].loop = "off"
                   THEN [b[x] EXCEPT !.loop = "ready"] ELSE b[x]]

-----------------------------------------------------------------------------
(* Startup, and the source.                                                *)

\* subscribe(): a binding for every connection there is, its loop started.
\* With results mapped to topics and a connection, the startup is refused.
Init ==
    /\ maps \in BOOLEAN
    /\ \E v \in [Names -> 0..1] :
        /\ maps => \A n \in Names : v[n] = 0
        /\ source = v
        /\ \E id \in [Names -> Ids] :
            /\ \A n, m \in Names : n # m => id[n] # id[m]
            /\ \A n \in Names : id[n] <= Cardinality(Names)
            /\ bind = [x \in Ids |->
                         IF \E n \in Names : id[n] = x /\ v[n] # 0
                         THEN LET n == CHOOSE n \in Names : id[n] = x
                              IN  [NewBinding(n, v[n], "named", None) EXCEPT !.loop = "ready"]
                         ELSE Unmade]
            /\ pairs = Cardinality({n \in Names : v[n] # 0})
    /\ flag = [paused |-> FALSE, closing |-> FALSE, fatal |-> FALSE]
    /\ lock = "free"
    /\ rec = [at |-> "off", todo |-> {}, current |-> [n \in Names |-> None],
              wanted |-> [n \in Names |-> 0], created |-> {}, gone |-> {},
              dirty |-> FALSE, raised |-> FALSE]
    /\ retire = [at |-> "off", b |-> None, next |-> None]
    /\ retirements = {}
    /\ call = [at |-> "off", todo |-> {}, retry |-> "off"]
    /\ budget \in Budgets /\ given = {}

\* Mutant of Scheduled: a change notified while a reconcile runs is forgotten.
ScheduledUnlessRunning ==
    IF flag.closing \/ rec.at # "off" THEN rec ELSE [rec EXCEPT !.at = "locking", !.dirty = FALSE]

\* _schedule_reconcile: one at a time, and once more for a change that comes meanwhile.
Scheduled ==
    IF flag.closing THEN rec
    ELSE IF rec.at = "off" THEN [rec EXCEPT !.at = "locking", !.dirty = FALSE]
    ELSE [rec EXCEPT !.dirty = TRUE]

\* The source gives a connection in another version, not at all, or newly, and notifies.
SourceChanges(n, v) ==
    /\ budget.changes > 0 /\ v # source[n]
    /\ source' = [source EXCEPT ![n] = v]
    /\ budget' = [budget EXCEPT !.changes = @ - 1]
    /\ given' = IF v = 0 THEN given \cup {n} ELSE given
    /\ rec' = Scheduled
    /\ UNCHANGED <<maps, bind, flag, lock, retire, retirements, call, pairs>>

-----------------------------------------------------------------------------
(* The connect-and-bind loop of a binding.                                 *)

\* The loop goes on with an open link: the list of subscriptions is cleared,
\* whether or not one of them is still alive.
Proceeds(r) ==
    IF flag.paused THEN [r EXCEPT !.loop = "off"]
    ELSE [r EXCEPT !.loop = "subscribing", !.sub = "none", !.lost = @ \/ r.sub = "listed"]

\* The next attempt starts.
Attempt(x) ==
    /\ bind[x].loop = "ready"
    /\ LET r == [bind[x] EXCEPT !.bound = FALSE] IN
       Changes(x, IF r.link = "none" THEN [r EXCEPT !.loop = "opening"] ELSE Proceeds(r))
    /\ UNCHANGED <<source, maps, flag, lock, rec, retire, retirements, call, pairs, budget, given>>

Opens(x) ==
    /\ bind[x].loop = "opening"
    /\ Changes(x, Proceeds([bind[x] EXCEPT !.link = "up"]))
    /\ UNCHANGED <<source, maps, flag, lock, rec, retire, retirements, call, pairs, budget, given>>

\* nats.connect fails; or the login is refused, and nats-py keeps trying by itself.
OpenFails(x) ==
    /\ bind[x].loop = "opening" /\ Fault
    /\ Changes(x, [bind[x] EXCEPT !.ready = FALSE, !.loop = "sleeping"])
    /\ UNCHANGED <<source, maps, flag, lock, rec, retire, retirements, call, pairs>>
LoginRefused(x) ==
    /\ bind[x].loop = "opening" /\ ~bind[x].failed /\ Fault
    /\ Changes(x, [bind[x] EXCEPT !.failed = TRUE])
    /\ flag' = [flag EXCEPT !.fatal = TRUE]
    /\ UNCHANGED <<source, maps, lock, rec, retire, retirements, call, pairs>>

\* Mutant of Subscribes: the old binding is retired before the new one has bound.
SubscribesAndHandsOver(x) ==
    /\ bind[x].loop = "subscribing" /\ bind[x].link = "up"
    /\ Changes(x, [bind[x] EXCEPT !.loop = "flushing", !.sub = "unlisted", !.replaces = None])
    /\ retirements' = retirements \cup ({bind[x].replaces} \ {None})
    /\ UNCHANGED <<source, maps, flag, lock, rec, retire, call, pairs, budget, given>>

\* _bind: the subscription is made, and two round trips follow.
Subscribes(x) ==
    /\ bind[x].loop = "subscribing" /\ bind[x].link = "up"
    /\ Changes(x, [bind[x] EXCEPT !.loop = "flushing", !.sub = "unlisted"])
    /\ UNCHANGED <<source, maps, flag, lock, rec, retire, retirements, call, pairs, budget, given>>

\* Bound: ready, and now the old binding is retired.
Binds(x) ==
    /\ bind[x].loop = "flushing" /\ bind[x].link = "up"
    /\ Changes(x, [bind[x] EXCEPT !.sub = "listed", !.bound = TRUE, !.ready = TRUE, !.failed = FALSE,
                                  !.loop = "off", !.replaces = None])
    /\ retirements' = retirements \cup ({bind[x].replaces} \ {None})
    /\ UNCHANGED <<source, maps, flag, lock, rec, retire, call, pairs, budget, given>>

\* A transient error: the subscription just made stays alive, and nobody knows it.
BindFails(x) ==
    /\ bind[x].loop \in {"subscribing", "flushing"} /\ Fault
    /\ Changes(x, [bind[x] EXCEPT !.ready = FALSE, !.loop = "sleeping", !.sub = "none",
                                  !.lost = @ \/ bind[x].sub = "unlisted"])
    /\ UNCHANGED <<source, maps, flag, lock, rec, retire, retirements, call, pairs>>

\* A final one: a grant or a stream's settings that no retry fixes.
BindRefused(x) ==
    /\ bind[x].loop \in {"subscribing", "flushing"} /\ Fault
    /\ Changes(x, [bind[x] EXCEPT !.ready = FALSE, !.failed = TRUE, !.loop = "off", !.sub = "none"])
    /\ flag' = [flag EXCEPT !.fatal = TRUE]
    /\ UNCHANGED <<source, maps, lock, rec, retire, retirements, call, pairs>>

Wakes(x) ==
    /\ bind[x].loop = "sleeping"
    /\ Changes(x, [bind[x] EXCEPT !.loop = "ready"])
    /\ UNCHANGED <<source, maps, flag, lock, rec, retire, retirements, call, pairs, budget, given>>

-----------------------------------------------------------------------------
(* The broker's callbacks, and the runs.                                   *)

Disconnects(x) ==
    /\ bind[x].link = "up" /\ Fault
    /\ Changes(x, [bind[x] EXCEPT !.link = "down", !.ready = FALSE])
    /\ UNCHANGED <<source, maps, flag, lock, rec, retire, retirements, call, pairs>>

\* Mutant of Reconnects: whatever the binding is, it reads as ready again.
ReconnectsReady(x) ==
    /\ bind[x].link = "down"
    /\ Changes(x, [bind[x] EXCEPT !.link = "up", !.ready = TRUE])
    /\ UNCHANGED <<source, maps, flag, lock, rec, retire, retirements, call, pairs, budget, given>>

\* on_reconnected: nats-py has replayed the subscriptions it holds.
Reconnects(x) ==
    /\ bind[x].link = "down"
    /\ Changes(x, [bind[x] EXCEPT
         !.link = "up",
         !.ready = @ \/ (bind[x].state = "named" /\ bind[x].bound /\ ~flag.paused)])
    /\ UNCHANGED <<source, maps, flag, lock, rec, retire, retirements, call, pairs, budget, given>>

\* on_error: the login is refused to a reconnect, and nats-py keeps trying.  A
\* reconnect that succeeds after it leaves the mark; only a bind clears it.
ReconnectRefused(x) ==
    /\ bind[x].link = "down" /\ bind[x].state = "named" /\ ~bind[x].ready /\ ~bind[x].failed /\ Fault
    /\ Changes(x, [bind[x] EXCEPT !.failed = TRUE])
    /\ flag' = [flag EXCEPT !.fatal = TRUE]
    /\ UNCHANGED <<source, maps, lock, rec, retire, retirements, call, pairs>>

\* A delivery is run; while the agent is paused it is handed back instead.
RunStarts(x) ==
    /\ Live(x) /\ bind[x].runs = 0 /\ budget.runs > 0 /\ ~flag.paused
    /\ Changes(x, [bind[x] EXCEPT !.runs = 1])
    /\ budget' = [budget EXCEPT !.runs = @ - 1]
    /\ UNCHANGED <<source, maps, flag, lock, rec, retire, retirements, call, pairs, given>>

RunEnds(x) ==
    /\ bind[x].runs = 1
    /\ Changes(x, [bind[x] EXCEPT !.runs = 0])
    /\ UNCHANGED <<source, maps, flag, lock, rec, retire, retirements, call, pairs, budget, given>>

-----------------------------------------------------------------------------
(* _retire, with the change lock held.                                     *)

\* The loop is cancelled -- a subscription it was making is not in the list --
\* and the binding no longer reads as bound.
Stopped(r) ==
    [r EXCEPT !.loop = "off", !.ready = FALSE, !.bound = FALSE, !.lost = @ \/ r.sub = "unlisted",
              !.sub = IF r.sub = "unlisted" THEN "none" ELSE @]

Retiring(x, next) == [at |-> "draining", b |-> x, next |-> next]
NotRetiring == [at |-> "off", b |-> None, next |-> None]

RetireDrains ==
    /\ retire.at = "draining"
    /\ Changes(retire.b, [bind[retire.b] EXCEPT !.sub = "none"])
    /\ retire' = [retire EXCEPT !.at = "waiting"]
    /\ UNCHANGED <<source, maps, flag, lock, rec, retirements, call, pairs, budget, given>>

\* Mutant of RetireWaits: the grace period ends, and the runs are left alone.
RetireWaitsOnly ==
    /\ retire.at = "waiting"
    /\ retire' = [retire EXCEPT !.at = "closing"]
    /\ UNCHANGED <<source, maps, bind, flag, lock, rec, retirements, call, pairs, budget, given>>

\* Its runs have ended; or the grace period has, and what still runs is revoked.
RetireWaits ==
    /\ retire.at = "waiting"
    /\ Changes(retire.b, [bind[retire.b] EXCEPT !.revoked = bind[retire.b].runs > 0])
    /\ retire' = [retire EXCEPT !.at = "closing"]
    /\ UNCHANGED <<source, maps, flag, lock, rec, retirements, call, pairs, budget, given>>

\* The link is closed and the binding forgotten.  Then the reconcile retires the
\* binding this one was to replace, or adds the one it made, or goes on; a
\* retirement of its own ends.
RetireEnds ==
    /\ retire.at = "closing"
    /\ LET x     == retire.b
           next  == retire.next
           made  == IF rec.at = "replacing" THEN {y \in Ids : bind[y].state = "made"} ELSE {}
           after == [y \in Ids |->
                       IF y = x THEN [bind[x] EXCEPT !.state = "gone", !.link = "closed", !.sub = "none"]
                       ELSE IF y \in made THEN [bind[y] EXCEPT !.state = "named"]
                       ELSE IF y = next THEN Stopped(bind[y])
                       ELSE bind[y]]
       IN /\ bind' = after
          /\ pairs' = Cardinality(Named \ {x})
          /\ retire' = IF next = None THEN NotRetiring ELSE Retiring(next, None)
          /\ lock' = IF lock = "retirement" THEN "free" ELSE lock
          /\ rec' = IF made = {} THEN rec
                    ELSE [rec EXCEPT !.at = "names", !.created = @ \cup made,
                                     !.todo = @ \ {bind[y].name : y \in made}]
    /\ UNCHANGED <<source, maps, flag, retirements, call, budget, given>>

\* _start_retirement: a replaced binding's retirement gets the lock.
RetirementLocks(x) ==
    /\ x \in retirements /\ lock = "free"
    /\ retirements' = retirements \ {x}
    /\ IF bind[x].state = "named"
       THEN /\ lock' = "retirement"
            /\ retire' = Retiring(x, None)
            /\ Changes(x, Stopped(bind[x]))
       ELSE UNCHANGED <<lock, retire, bind>>
    /\ UNCHANGED <<source, maps, flag, rec, call, pairs, budget, given>>

-----------------------------------------------------------------------------
(* _reconcile_loop and _reconcile.                                         *)

\* It has the lock, and reads the source.
ReconcileLocks ==
    /\ rec.at = "locking" /\ lock = "free"
    /\ lock' = "reconcile"
    /\ rec' = [rec EXCEPT
         !.at = "names", !.wanted = source, !.todo = {n \in Names : source[n] # 0}, !.created = {},
         !.current = [n \in Names |->
            IF \E x \in Named : bind[x].name = n /\ ~bind[x].superseded
            THEN CHOOSE x \in Named : bind[x].name = n /\ ~bind[x].superseded
            ELSE None]]
    /\ UNCHANGED <<source, maps, bind, flag, retire, retirements, call, pairs, budget, given>>

\* The source raises: the task ends, and a change notified meanwhile waits for the next.
ReconcileRaises ==
    /\ rec.at = "locking" /\ lock = "free" /\ Fault
    /\ rec' = [rec EXCEPT !.at = "off", !.raised = TRUE]
    /\ UNCHANGED <<source, maps, bind, flag, lock, retire, retirements, call, pairs>>

\* Unchanged; or new, while results are mapped to topics: refused.
Keeps(n) ==
    LET x == rec.current[n] IN
    /\ rec.at = "names" /\ n \in rec.todo
    /\ IF x = None THEN maps ELSE bind[x].version = rec.wanted[n]
    /\ rec' = [rec EXCEPT !.todo = @ \ {n}]
    /\ UNCHANGED <<source, maps, bind, flag, lock, retire, retirements, call, pairs, budget, given>>

Adds(n) ==
    /\ rec.at = "names" /\ n \in rec.todo /\ rec.current[n] = None /\ ~maps /\ Room
    /\ Changes(NextId, NewBinding(n, rec.wanted[n], "named", None))
    /\ rec' = [rec EXCEPT !.todo = @ \ {n}, !.created = @ \cup {NextId}]
    /\ UNCHANGED <<source, maps, flag, lock, retire, retirements, call, pairs, budget, given>>

\* A changed connection that is bound goes on until the new binding is.
Replaces(n) ==
    LET x == rec.current[n] IN
    /\ rec.at = "names" /\ n \in rec.todo /\ x # None /\ Room
    /\ bind[x].version # rec.wanted[n] /\ bind[x].bound
    /\ bind' = [bind EXCEPT ![x].superseded = TRUE,
                            ![NextId] = NewBinding(n, rec.wanted[n], "named", x)]
    /\ rec' = [rec EXCEPT !.todo = @ \ {n}, !.created = @ \cup {NextId}]
    /\ UNCHANGED <<source, maps, flag, lock, retire, retirements, call, pairs, budget, given>>

\* Mutant of Supersedes: the new binding is to replace the one that never bound.
SupersedesChained(n) ==
    LET x == rec.current[n] IN
    /\ rec.at = "names" /\ n \in rec.todo /\ x # None /\ Room
    /\ bind[x].version # rec.wanted[n] /\ ~bind[x].bound
    /\ bind' = [bind EXCEPT
         ![x] = Stopped([bind[x] EXCEPT !.superseded = TRUE]),
         ![NextId] = NewBinding(n, rec.wanted[n], "made", None)]
    /\ rec' = [rec EXCEPT !.at = "replacing"]
    /\ retire' = Retiring(x, None)
    /\ UNCHANGED <<source, maps, flag, lock, retirements, call, pairs, budget, given>>

\* One that never bound is retired at once; what it was to replace passes to the new binding.
Supersedes(n) ==
    LET x == rec.current[n] IN
    /\ rec.at = "names" /\ n \in rec.todo /\ x # None /\ Room
    /\ bind[x].version # rec.wanted[n] /\ ~bind[x].bound
    /\ bind' = [bind EXCEPT
         ![x] = Stopped([bind[x] EXCEPT !.superseded = TRUE, !.replaces = None]),
         ![NextId] = NewBinding(n, rec.wanted[n], "made", bind[x].replaces)]
    /\ rec' = [rec EXCEPT !.at = "replacing"]
    /\ retire' = Retiring(x, None)
    /\ UNCHANGED <<source, maps, flag, lock, retirements, call, pairs, budget, given>>

\* Every wanted connection has been looked at: the loops of the new ones are started.
ReconcileStarts ==
    /\ rec.at = "names" /\ rec.todo = {}
    /\ pairs' = Cardinality(Named)
    /\ bind' = IF flag.paused THEN bind ELSE LinksStarted(bind, rec.created)
    /\ rec' = [rec EXCEPT !.at = "removing",
                 !.gone = {rec.current[n] : n \in {m \in Names : rec.wanted[m] = 0}} \ {None}]
    /\ UNCHANGED <<source, maps, flag, lock, retire, retirements, call, budget, given>>

\* A connection that is gone is retired, and then what it was to replace.
Removes(x) ==
    /\ rec.at = "removing" /\ retire.at = "off" /\ x \in rec.gone
    /\ Changes(x, Stopped([bind[x] EXCEPT !.replaces = None]))
    /\ retire' = Retiring(x, bind[x].replaces)
    /\ rec' = [rec EXCEPT !.gone = @ \ {x}]
    /\ UNCHANGED <<source, maps, flag, lock, retirements, call, pairs, budget, given>>

ReconcileEnds ==
    /\ rec.at = "removing" /\ retire.at = "off" /\ rec.gone = {}
    /\ lock' = "free"
    /\ rec' = [rec EXCEPT !.at = IF rec.dirty THEN "locking" ELSE "off", !.dirty = FALSE, !.created = {}]
    /\ UNCHANGED <<source, maps, bind, flag, retire, retirements, call, pairs, budget, given>>

-----------------------------------------------------------------------------
(* Pause and resume, as far as named connections go, and close.            *)

\* A resume still retried is given up, whether or not there is anything to pause.
PauseBegin ==
    /\ call.at = "off" /\ budget.pauses > 0
    /\ budget' = [budget EXCEPT !.pauses = @ - 1]
    /\ given' = Names
    /\ call' = [call EXCEPT !.retry = "off", !.at = IF flag.paused THEN "off" ELSE "pausing"]
    /\ flag' = [flag EXCEPT !.paused = TRUE]
    /\ UNCHANGED <<source, maps, bind, lock, rec, retire, retirements, pairs>>

PauseLocks ==
    /\ call.at = "pausing" /\ lock = "free"
    /\ lock' = "pause"
    /\ call' = [call EXCEPT !.at = "draining", !.todo = Named]
    /\ UNCHANGED <<source, maps, bind, flag, rec, retire, retirements, pairs, budget, given>>

\* A binding's listed subscription is drained; its loop is not stopped.
PauseDrains(x) ==
    /\ call.at = "draining" /\ x \in call.todo
    /\ Changes(x, [bind[x] EXCEPT !.ready = FALSE, !.sub = IF @ = "listed" THEN "none" ELSE @])
    /\ call' = [call EXCEPT !.todo = @ \ {x}]
    /\ UNCHANGED <<source, maps, flag, lock, rec, retire, retirements, pairs, budget, given>>

PauseEnds ==
    /\ call.at = "draining" /\ call.todo = {}
    /\ lock' = "free"
    /\ call' = [call EXCEPT !.at = "off"]
    /\ UNCHANGED <<source, maps, bind, flag, rec, retire, retirements, pairs, budget, given>>

ResumeBegin ==
    /\ call.at = "off" /\ flag.paused
    /\ flag' = [flag EXCEPT !.paused = FALSE]
    /\ call' = [call EXCEPT !.at = "resuming"]
    /\ UNCHANGED <<source, maps, bind, lock, rec, retire, retirements, pairs, budget, given>>

\* All loops are started; then the default connection's turn comes.
ResumeLocks ==
    /\ call.at = "resuming" /\ lock = "free"
    /\ bind' = LinksStarted(bind, Ids)
    /\ call' = [call EXCEPT !.at = "trying"]
    /\ UNCHANGED <<source, maps, flag, lock, rec, retire, retirements, pairs, budget, given>>

\* It is subscribed; or it is not, the agent counts as paused, and is retried.
ResumeDone ==
    /\ call.at = "trying"
    /\ flag' = [flag EXCEPT !.paused = FALSE]
    /\ call' = [call EXCEPT !.at = "off"]
    /\ UNCHANGED <<source, maps, bind, lock, rec, retire, retirements, pairs, budget, given>>
ResumeFails ==
    /\ call.at = "trying" /\ Fault
    /\ flag' = [flag EXCEPT !.paused = TRUE]
    /\ call' = [call EXCEPT !.at = "off", !.retry = "sleeping"]
    /\ UNCHANGED <<source, maps, bind, lock, rec, retire, retirements, pairs>>

\* The retry subscribes the default connection, and starts the loops again.
RetrySucceeds ==
    /\ call.retry = "sleeping" /\ ~flag.closing
    /\ flag' = [flag EXCEPT !.paused = FALSE]
    /\ call' = [call EXCEPT !.retry = "locking"]
    /\ UNCHANGED <<source, maps, bind, lock, rec, retire, retirements, pairs, budget, given>>
RetryLocks ==
    /\ call.retry = "locking" /\ lock = "free"
    /\ bind' = LinksStarted(bind, Ids)
    /\ call' = [call EXCEPT !.retry = "off"]
    /\ UNCHANGED <<source, maps, flag, lock, rec, retire, retirements, pairs, budget, given>>

\* close(): changes in progress, loops and the retry are cancelled; then
\* everything is drained and every link closed.
Close ==
    /\ ~flag.closing /\ Fault
    /\ flag' = [flag EXCEPT !.closing = TRUE]
    /\ rec' = [rec EXCEPT !.at = "off"]
    /\ retire' = NotRetiring /\ retirements' = {}
    /\ lock' = IF lock \in {"reconcile", "retirement"} THEN "free" ELSE lock
    /\ call' = [call EXCEPT !.retry = "off"]
    /\ bind' = [x \in Ids |->
                  CASE bind[x].state = "named" -> [bind[x] EXCEPT !.loop = "off"]
                    [] bind[x].state = "made"  -> [bind[x] EXCEPT !.state = "gone"]
                    [] OTHER -> bind[x]]
    /\ pairs' = 0
    /\ UNCHANGED <<source, maps>>
Closed ==
    /\ flag.closing /\ \E x \in Named : bind[x].link # "none"
    /\ bind' = [x \in Ids |-> IF x \in Named
                  THEN [bind[x] EXCEPT !.ready = FALSE, !.link = "none", !.sub = "none", !.lost = FALSE]
                  ELSE bind[x]]
    /\ UNCHANGED <<source, maps, flag, lock, rec, retire, retirements, call, pairs, budget, given>>

-----------------------------------------------------------------------------
(* The specification.                                                      *)

LoopSteps(x) == Attempt(x) \/ Opens(x) \/ Subscribes(x) \/ Binds(x) \/ Wakes(x)
LoopFaults(x) == OpenFails(x) \/ LoginRefused(x) \/ BindFails(x) \/ BindRefused(x)
RetireSteps == RetireDrains \/ RetireWaits \/ RetireEnds
ReconcileSteps ==
    \/ \E n \in Names : Keeps(n) \/ Adds(n) \/ Replaces(n) \/ Supersedes(n)
    \/ ReconcileStarts \/ (\E x \in Ids : Removes(x)) \/ ReconcileEnds
PauseSteps == (\E x \in Ids : PauseDrains(x)) \/ PauseEnds
CallSteps == PauseSteps \/ ResumeBegin \/ ResumeDone \/ RetrySucceeds

Next ==
    \/ \E n \in Names, v \in 0..MaxVersion : SourceChanges(n, v)
    \/ \E x \in Ids :
        \/ LoopSteps(x) \/ LoopFaults(x) \/ Disconnects(x) \/ Reconnects(x) \/ ReconnectRefused(x)
        \/ RunStarts(x) \/ RunEnds(x) \/ RetirementLocks(x)
    \/ RetireSteps \/ ReconcileSteps \/ ReconcileLocks \/ ReconcileRaises
    \/ PauseBegin \/ PauseLocks \/ ResumeLocks \/ RetryLocks \/ ResumeFails
    \/ CallSteps \/ Close \/ Closed

Spec == Init /\ [][Next]_vars

\* The event loop runs what is ready, what is awaited answers or times out,
\* nats-py reconnects for ever, asyncio.Lock serves whoever waits, and an agent
\* that was paused is resumed when its checks pass.  What happens from outside is
\* bounded, so that it is enough that something goes on.  Runs need not end.
Progress ==
    \/ \E x \in Ids : LoopSteps(x) \/ Reconnects(x) \/ RetirementLocks(x)
    \/ RetireSteps \/ ReconcileSteps \/ ReconcileLocks
    \/ CallSteps \/ PauseLocks \/ ResumeLocks \/ RetryLocks

Fairness == WF_vars(Progress)

FairSpec == Spec /\ Fairness

-----------------------------------------------------------------------------
(* Properties.                                                             *)

\* A binding that was superseded is not left to deliver for good (M3): as long
\* as it is there, exactly one thing will retire it -- the one newer binding it
\* is to be replaced by, a retirement that waits for the lock, or the one under
\* way.  And a name has one binding that is not superseded.
NothingLeftBehind ==
    flag.closing \/
    /\ \A x \in Named : bind[x].superseded =>
        Cardinality({y \in Ids : bind[y].state \in {"named", "made"} /\ bind[y].replaces = x})
        + Cardinality(retirements \cap {x}) + Cardinality({retire.b, retire.next} \cap {x}) = 1
    /\ \A x, y \in Named :
        bind[x].name = bind[y].name /\ ~bind[x].superseded /\ ~bind[y].superseded => x = y
    /\ lock = "free" => pairs = Cardinality(Named)

\* New before old: a connection that has been bound stays bound, whatever
\* versions of it follow each other, as long as the source does not remove it.
\* (A resume binds all of them again.)
NewBeforeOld ==
    [][\A n \in Names :
        (\E x \in Named : bind[x].name = n /\ bind[x].bound)
        => \/ \E x \in Named : bind'[x].name = n /\ bind'[x].state = "named" /\ bind'[x].bound
           \/ n \in given' \/ flag'.closing]_vars

\* What still runs when its connection has been retired is revoked: it will not
\* settle or publish.  (A subscription nobody knows of may start a run while the
\* link is being closed, after the runs were counted.)
RevokedOrDone ==
    flag.closing \/
    \A x \in Ids : bind[x].state = "gone" /\ bind[x].runs > 0 => bind[x].revoked \/ bind[x].lost

\* While the agent is not paused, a connection that reads as ready delivers
\* (named_connection_states), or a loop or a resume is at work on it.
ReadyDelivers ==
    flag.closing \/ flag.paused \/ call.at = "resuming" \/ call.retry = "locking" \/
    \A x \in Named : bind[x].ready =>
        bind[x].loop # "off" \/ Live(x)

Serves(n) ==
    LET mine == {x \in Named : bind[x].name = n} IN
    IF source[n] = 0 \/ maps THEN mine = {}
    ELSE \E x \in mine : mine = {x} /\ bind[x].version = source[n] /\ bind[x].ready

\* Whatever changes how often and whatever fails meanwhile, the agent ends up
\* with one ready binding for each connection of the source, in its last version,
\* and none for the others -- unless it was closed, the source raised, or the
\* broker gave a final answer.
Converges ==
    <>[](\/ flag.closing \/ rec.raised \/ flag.fatal
         \/ \A n \in Names : Serves(n))
=============================================================================
