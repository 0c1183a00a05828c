------------------------------ MODULE RunPool ------------------------------
(***************************************************************************)
(* The process-wide pool of delivery runs, clients/io/nats_run_pool.py.    *)
(*                                                                         *)
(* Every (agent, connection) pair has one guaranteed run.  A further run   *)
(* of the pair must fit both the pair's limit K and the extra limit of the *)
(* process, and waits in arrival order until it does.  One callback of the *)
(* event loop runs from one await to the next, so acquire up to its await, *)
(* a release with the wake it makes, and the resumption of a waiter are    *)
(* each one action; a task can be cancelled between any two of them.       *)
(*                                                                         *)
(* A run stands for one acquire call of a subscription's task and for the  *)
(* delivery it starts; it may be reused once its slot is free again.       *)
(***************************************************************************)
EXTENDS Integers, FiniteSets

CONSTANTS
    Pairs,      \* the (agent, connection) pairs
    Runs,       \* the acquire calls there can be at a time
    PairOf,     \* the pair each of them is made for
    PairLimit,  \* K of each pair: a RunLimit record
    ExtraLimit, \* the process' limit on runs beyond the guaranteed ones, or NoLimit
    NoLimit,    \* nats_max_extra_runs unset
    MaxPairs    \* bound of the checked instances on the registered pairs

\* A parsed RunLimit: absolute, or a percentage of the pairs with a minimum.
RunLimits ==
    [absolute : Nat] \cup [percent : 1..100, minimum : Nat]

ASSUME FinitelyManyRuns == IsFiniteSet(Runs)
ASSUME PairOfRun == PairOf \in [Runs -> Pairs]
ASSUME LimitsParsed ==
    /\ PairLimit \in [Pairs -> RunLimits]
    /\ ExtraLimit \in RunLimits \cup {NoLimit}
    /\ NoLimit \notin RunLimits
ASSUME PairBound == MaxPairs \in Nat

VARIABLES
    pool,    \* the counters of RunPool, and of PairRuns per pair
    status,  \* where each acquire call, and the run it starts, has got to
    slot,    \* what the call's releaser still frees: "guaranteed", "extra" or "none"
    waiters, \* the calls in the pool's queue
    before   \* for each queued call, the calls that were queued when it came

vars == <<pool, status, slot, waiters, before>>

Statuses == {"idle", "waiting", "cancelling", "granted", "abandoning", "running"}
Pools == [guaranteed_busy : [Pairs -> BOOLEAN], running : [Pairs -> Nat],
          extras_running : Nat, pairs : Nat]

TypeOK ==
    /\ pool \in Pools
    /\ status \in [Runs -> Statuses]
    /\ slot \in [Runs -> {"none", "guaranteed", "extra"}]
    /\ waiters \in SUBSET Runs
    /\ before \in [Runs -> SUBSET Runs]

-----------------------------------------------------------------------------
(* The limits.                                                             *)

\* RunLimit.resolve: what the limit amounts to with n registered pairs.
Resolve(limit, n) ==
    IF "absolute" \in DOMAIN limit
    THEN limit.absolute
    ELSE LET share == (n * limit.percent + 99) \div 100
         IN  IF share < limit.minimum THEN limit.minimum ELSE share

\* Mutant of ExtraRoom: the limit is compared with one run too few.
ExtraRoomOffByOne(inUse, n) ==
    ExtraLimit = NoLimit \/ inUse <= Resolve(ExtraLimit, n)

\* The pool has room for one more extra run next to those in use.
ExtraRoom(inUse, n) ==
    ExtraLimit = NoLimit \/ inUse < Resolve(ExtraLimit, n)

\* The second half of _try: a pair with inPair runs, in a pool with inUse
\* extra runs and n pairs, may start a run beyond its guaranteed one.
MayRunExtra(p, inPair, inUse, n) ==
    inPair < Resolve(PairLimit[p], n) /\ ExtraRoom(inUse, n)

\* _try as a question: r would be granted a slot of pool pl.
MayRun(pl, r) ==
    LET p == PairOf[r] IN
    \/ ~pl.guaranteed_busy[p]
    \/ MayRunExtra(p, pl.running[p], pl.extras_running, pl.pairs)

-----------------------------------------------------------------------------
(* _wake: one pass over the queue in arrival order grants every call that  *)
(* may run, counting what the pass has already granted, and drops the      *)
(* calls whose task was cancelled.  G is the set of calls it grants.       *)

OfPair(S, p) == {r \in S : PairOf[r] = p}

\* Mutant of TakesGuaranteed: the queue is served from its other end.
TakesGuaranteedFromTheRight(pl, G, r) ==
    /\ ~pl.guaranteed_busy[PairOf[r]]
    /\ {q \in G : r \in before[q] /\ PairOf[q] = PairOf[r]} = {}

\* r takes its pair's guaranteed run: it is free and no call ahead took it.
TakesGuaranteed(pl, G, r) ==
    /\ ~pl.guaranteed_busy[PairOf[r]]
    /\ OfPair(G \cap before[r], PairOf[r]) = {}

Extras(pl, G) == {r \in G : ~TakesGuaranteed(pl, G, r)}

\* What the pass grants r, after the calls of G ahead of it.
Grantable(pl, G, r) ==
    LET ahead == G \cap before[r]
        p     == PairOf[r] IN
    \/ TakesGuaranteed(pl, G, r)
    \/ MayRunExtra(p, pl.running[p] + Cardinality(OfPair(ahead, p)),
                   pl.extras_running + Cardinality(Extras(pl, G) \cap ahead), pl.pairs)

\* The pool after the calls in G were granted their slots.
PoolGranting(pl, G) ==
    [guaranteed_busy |-> [p \in Pairs |-> pl.guaranteed_busy[p] \/ OfPair(G, p) # {}],
     running |-> [p \in Pairs |-> pl.running[p] + Cardinality(OfPair(G, p))],
     extras_running |-> pl.extras_running + Cardinality(Extras(pl, G)),
     pairs |-> pl.pairs]

SlotIn(pl, G, r) == IF TakesGuaranteed(pl, G, r) THEN "guaranteed" ELSE "extra"

\* _wake on pool pl, with the statuses st and the releasers sl as they are by then.
Wake(pl, st, sl) ==
    LET live == {r \in waiters : st[r] = "waiting"} IN
    \E G \in SUBSET live :
        /\ G = {r \in live : Grantable(pl, G, r)}
        /\ pool' = PoolGranting(pl, G)
        /\ status' = [r \in Runs |-> IF r \in G THEN "granted" ELSE st[r]]
        /\ slot' = [r \in Runs |-> IF r \in G THEN SlotIn(pl, G, r) ELSE sl[r]]
        /\ waiters' = live \ G
        /\ before' = [r \in Runs |-> IF r \in live \ G THEN before[r] \cap (live \ G) ELSE {}]

\* The pool once the releaser of r has given its slot back.
PoolFreeing(r) ==
    LET p == PairOf[r] IN
    [guaranteed_busy |-> [pool.guaranteed_busy EXCEPT ![p] = @ /\ slot[r] # "guaranteed"],
     running |-> [pool.running EXCEPT ![p] = @ - 1],
     extras_running |-> pool.extras_running - (IF slot[r] = "extra" THEN 1 ELSE 0),
     pairs |-> pool.pairs]

\* Mutant of FreeAndWake: the slot is freed and nobody is woken.
FreeOnly(r) ==
    /\ slot[r] # "none"
    /\ pool' = PoolFreeing(r)
    /\ status' = [status EXCEPT ![r] = "idle"]
    /\ slot' = [slot EXCEPT ![r] = "none"]
    /\ UNCHANGED <<waiters, before>>

\* release(): free the slot of r once, then wake; the call is over.
FreeAndWake(r) ==
    /\ slot[r] # "none"
    /\ Wake(PoolFreeing(r), [status EXCEPT ![r] = "idle"], [slot EXCEPT ![r] = "none"])

-----------------------------------------------------------------------------
(* The operations.                                                         *)

Init ==
    /\ pool = [guaranteed_busy |-> [p \in Pairs |-> FALSE],
               running |-> [p \in Pairs |-> 0], extras_running |-> 0, pairs |-> 0]
    /\ status = [r \in Runs |-> "idle"]
    /\ slot = [r \in Runs |-> "none"]
    /\ waiters = {}
    /\ before = [r \in Runs |-> {}]

\* add_pair: a client starts to consume for a pair.
AddPair ==
    /\ pool.pairs < MaxPairs
    /\ Wake([pool EXCEPT !.pairs = @ + 1], status, slot)

\* Mutant of RemovePair: the count may go below zero.
RemovePairUnclamped ==
    /\ pool' = [pool EXCEPT !.pairs = @ - 1]
    /\ UNCHANGED <<status, slot, waiters, before>>

\* remove_pair: a client stops to consume for a pair.  Nobody is woken.
RemovePair ==
    /\ pool' = [pool EXCEPT !.pairs = IF @ = 0 THEN 0 ELSE @ - 1]
    /\ UNCHANGED <<status, slot, waiters, before>>

\* The pool once pair p has started one more run, of the given kind.
PoolTaking(p, kind) ==
    [guaranteed_busy |-> [pool.guaranteed_busy EXCEPT ![p] = @ \/ kind = "guaranteed"],
     running |-> [pool.running EXCEPT ![p] = @ + 1],
     extras_running |-> pool.extras_running + (IF kind = "extra" THEN 1 ELSE 0),
     pairs |-> pool.pairs]

Start(r, kind) ==
    /\ pool' = PoolTaking(PairOf[r], kind)
    /\ status' = [status EXCEPT ![r] = "running"]
    /\ slot' = [slot EXCEPT ![r] = kind]
    /\ UNCHANGED <<waiters, before>>

\* acquire, when _try grants the guaranteed run.
AcquireGuaranteed(r) ==
    /\ status[r] = "idle"
    /\ ~pool.guaranteed_busy[PairOf[r]]
    /\ Start(r, "guaranteed")

\* acquire, when _try grants a run of the pool.
AcquireExtra(r) ==
    /\ status[r] = "idle"
    /\ pool.guaranteed_busy[PairOf[r]]
    /\ MayRun(pool, r)
    /\ Start(r, "extra")

\* acquire, when _try grants nothing: the call joins the queue and awaits.
AcquireQueued(r) ==
    /\ status[r] = "idle"
    /\ ~MayRun(pool, r)
    /\ status' = [status EXCEPT ![r] = "waiting"]
    /\ waiters' = waiters \cup {r}
    /\ before' = [before EXCEPT ![r] = waiters]
    /\ UNCHANGED <<pool, slot>>

\* The task of a granted call resumes and starts its run.
Resume(r) ==
    /\ status[r] = "granted"
    /\ status' = [status EXCEPT ![r] = "running"]
    /\ UNCHANGED <<pool, slot, waiters, before>>

\* The task that awaits in acquire is cancelled: its future is, unless a
\* release has already set its result, and the task resumes later on.
Cancel(r) ==
    /\ status[r] \in {"waiting", "granted"}
    /\ status' = [status EXCEPT ![r] = IF @ = "waiting" THEN "cancelling" ELSE "abandoning"]
    /\ UNCHANGED <<pool, slot, waiters, before>>

\* acquire's except block, for a call that was cancelled in the queue.
Unqueue(r) ==
    /\ status[r] = "cancelling"
    /\ status' = [status EXCEPT ![r] = "idle"]
    /\ waiters' = waiters \ {r}
    /\ before' = [q \in Runs |-> IF q = r THEN {} ELSE before[q] \ {r}]
    /\ UNCHANGED <<pool, slot>>

\* Mutant of HandBack: a call granted while being cancelled keeps its slot counted.
HandBackNothing(r) ==
    /\ status[r] = "abandoning"
    /\ status' = [status EXCEPT ![r] = "idle"]
    /\ slot' = [slot EXCEPT ![r] = "none"]
    /\ UNCHANGED <<pool, waiters, before>>

\* acquire's except block, for a call granted while being cancelled.
HandBack(r) ==
    /\ status[r] = "abandoning"
    /\ FreeAndWake(r)

\* The run has ended and its done callback frees the slot.
Release(r) ==
    /\ status[r] = "running"
    /\ FreeAndWake(r)

Next ==
    \/ AddPair
    \/ RemovePair
    \/ \E r \in Runs :
        \/ AcquireGuaranteed(r)
        \/ AcquireExtra(r)
        \/ AcquireQueued(r)
        \/ Resume(r)
        \/ Cancel(r)
        \/ Unqueue(r)
        \/ HandBack(r)
        \/ Release(r)

Spec == Init /\ [][Next]_vars

\* The event loop runs every ready task, and every run ends: the client
\* bounds a handler by nats_handler_timeout, and by revoking the connection.
Fairness ==
    \A r \in Runs : WF_vars(Resume(r) \/ Unqueue(r) \/ HandBack(r) \/ Release(r))

FairSpec == Spec /\ Fairness

-----------------------------------------------------------------------------
(* What the pool promises.                                                 *)

Holders(p) == {r \in Runs : slot[r] # "none" /\ PairOf[r] = p}
ExtraHolders == {r \in Runs : slot[r] = "extra"}
GuaranteedHolders(p) == {r \in Holders(p) : slot[r] = "guaranteed"}

\* No slot leaks and none is freed twice, whatever is cancelled when: the
\* counters of the pool and of every pair (PairRuns) count exactly the calls that hold a slot.
SlotsAccounted ==
    /\ pool.extras_running = Cardinality(ExtraHolders)
    /\ \A p \in Pairs :
        /\ pool.running[p] = Cardinality(Holders(p))
        /\ pool.guaranteed_busy[p] <=> GuaranteedHolders(p) # {}
        /\ \A r, q \in GuaranteedHolders(p) : r = q

\* No lost wakeup: whenever the loop is between two callbacks, no call is left in
\* the queue that _try would grant (a release, a pair added, a cancelled waiter included).
NoLostWakeup ==
    \A r \in waiters : status[r] = "waiting" => ~MayRun(pool, r)

\* A step that grants slots beyond the guaranteed ones leaves the pool and the
\* pairs it granted within their limits, as they resolve at that moment: a
\* percentage that has shrunk is never granted against.
GrantsWithinLimits ==
    [][\A r \in Runs :
        (slot'[r] = "extra" /\ slot[r] # "extra") =>
            /\ pool'.running[PairOf[r]] <= Resolve(PairLimit[PairOf[r]], pool'.pairs)
            /\ ExtraLimit # NoLimit => pool'.extras_running <= Resolve(ExtraLimit, pool'.pairs)]_vars

\* First come, first served within a pair: a call that gets a slot leaves no
\* call of its pair waiting that came before it, whether it was woken or new.
FifoWithinPair ==
    [][\A r, q \in Runs :
        /\ slot[r] = "none" /\ slot'[r] # "none" /\ PairOf[q] = PairOf[r]
        /\ q \in waiters /\ status[q] = "waiting"
        /\ r \in waiters => q \in before[r]
        => q \notin waiters']_vars

\* A call that waits is granted a slot in the end, or cancelled: the pairs that
\* keep the extra limit used up cannot starve the others of their guaranteed run.
Served(r) == status[r] = "waiting" ~> status[r] # "waiting"

=============================================================================
