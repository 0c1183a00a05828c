--------------------------- MODULE RunPool_proofs ---------------------------
(***************************************************************************)
(* Type correctness, slot accounting and the absence of lost wakeups of    *)
(* RunPool, for any set of pairs, any finite set of calls and any limits.  *)
(***************************************************************************)
EXTENDS RunPool, FiniteSetTheorems, WellFoundedInduction, TLAPS

-----------------------------------------------------------------------------
(* The inductive invariant, its parts stated for any pool, statuses and    *)
(* releasers, because _wake starts from values no state holds.             *)

Releasers == [Runs -> {"none", "guaranteed", "extra"}]

HoldersIn(sl, p) == {r \in Runs : sl[r] # "none" /\ PairOf[r] = p}
ExtrasIn(sl) == {r \in Runs : sl[r] = "extra"}

\* The counters of pl count the releasers of sl that still have a slot to free.
Accounted(pl, sl) ==
    /\ pl.extras_running = Cardinality(ExtrasIn(sl))
    /\ \A p \in Pairs : pl.running[p] = Cardinality(HoldersIn(sl, p))
    /\ \A p \in Pairs : pl.guaranteed_busy[p] <=> \E r \in HoldersIn(sl, p) : sl[r] = "guaranteed"
    /\ \A r, q \in Runs :
        sl[r] = "guaranteed" /\ sl[q] = "guaranteed" /\ PairOf[r] = PairOf[q] => r = q

\* A call holds a slot from its grant to its release.
Consistent(st, sl) ==
    \A r \in Runs : sl[r] # "none" <=> st[r] \in {"granted", "abandoning", "running"}

\* The queue holds every waiting call, and besides only cancelled ones.
Queued(st) ==
    \A r \in Runs :
        /\ st[r] = "waiting" => r \in waiters
        /\ r \in waiters => st[r] \in {"waiting", "cancelling"}

\* before is a strict total order on the queue.
Ordered ==
    /\ \A r \in Runs : before[r] \subseteq waiters /\ r \notin before[r]
    /\ \A r \in Runs : r \notin waiters => before[r] = {}
    /\ \A r, q \in waiters : r = q \/ r \in before[q] \/ q \in before[r]
    /\ \A r, q \in Runs : q \in before[r] => before[q] \subseteq before[r]

IInv ==
    /\ TypeOK
    /\ Accounted(pool, slot)
    /\ Consistent(status, slot)
    /\ Queued(status)
    /\ Ordered
    /\ NoLostWakeup

-----------------------------------------------------------------------------
(* Lemmas.                                                                 *)

\* A limit resolves to a natural number.
LEMMA ResolveNat ==
    ASSUME NEW limit \in RunLimits, NEW n \in Nat
    PROVE  Resolve(limit, n) \in Nat
<1>1. CASE limit \in [absolute : Nat]
    BY <1>1 DEF Resolve
<1>2. CASE limit \in [percent : 1..100, minimum : Nat]
    <2>1. "absolute" \notin DOMAIN limit /\ limit.minimum \in Nat /\ limit.percent \in Nat
        BY <1>2
    <2>2. n * limit.percent \in Nat
        BY <2>1
    <2> QED BY <2>1, <2>2 DEF Resolve
<1> QED BY <1>1, <1>2 DEF RunLimits

\* With fewer registered pairs no limit resolves to more.
LEMMA ResolveMonotone ==
    ASSUME NEW limit \in RunLimits, NEW m \in Nat, NEW n \in Nat, m <= n
    PROVE  Resolve(limit, m) <= Resolve(limit, n)
<1>1. CASE limit \in [absolute : Nat]
    BY <1>1 DEF Resolve
<1>2. CASE limit \in [percent : 1..100, minimum : Nat]
    <2> DEFINE c == limit.percent
    <2>1. "absolute" \notin DOMAIN limit /\ limit.minimum \in Nat /\ c \in Nat
        BY <1>2
    <2> HIDE DEF c
    <2>2. m * c \in Nat /\ n * c \in Nat /\ (n - m) * c >= 0
        BY <2>1
    <2>3. (n - m) * c = n * c - m * c
        BY <2>1
    <2>4. (m * c + 99) \div 100 <= (n * c + 99) \div 100
        BY <2>2, <2>3
    <2> QED BY <2>1, <2>2, <2>4 DEF Resolve, c
<1> QED BY <1>1, <1>2 DEF RunLimits

\* Any set of queued calls has a first one.
LEMMA FirstInQueue ==
    ASSUME TypeOK, Ordered, NEW S \in SUBSET waiters, S # {}
    PROVE  \E r \in S : S \cap before[r] = {}
<1> DEFINE R == StrictSubsetOrdering(Runs)
           T == {before[r] : r \in S}
<1>1. IsWellFoundedOn(R, FiniteSubsetsOf(Runs))
    BY FS_StrictSubsetOrderingWellFounded
<1>2. T \subseteq FiniteSubsetsOf(Runs) /\ T # {}
    BY FS_Subset, FinitelyManyRuns DEF TypeOK, FiniteSubsetsOf
<1> HIDE DEF R, T
<1>3. PICK m \in T : \A y \in T : ~(<<y, m>> \in R)
    BY <1>1, <1>2, WFMin
<1>4. PICK r \in S : m = before[r]
    BY DEF T
<1>5. ASSUME NEW q \in S \cap before[r] PROVE FALSE
    <2>1. q \in Runs /\ r \in Runs
        BY <1>5 DEF TypeOK
    <2>2. before[q] \subseteq before[r] /\ q \notin before[q]
        BY <1>5, <2>1 DEF Ordered
    <2>3. <<before[q], before[r]>> \in R
        BY <1>5, <2>1, <2>2 DEF R, StrictSubsetOrdering, TypeOK
    <2> QED BY <1>3, <1>4, <1>5, <2>3 DEF T
<1> QED BY <1>5

\* ... and a last one.
LEMMA LastInQueue ==
    ASSUME TypeOK, Ordered, NEW S \in SUBSET waiters, S # {}
    PROVE  \E r \in S : S \subseteq before[r] \cup {r}
<1> DEFINE R == StrictSubsetOrdering(Runs)
           Rest(r) == waiters \ before[r]
           T == {Rest(r) : r \in S}
<1>1. IsWellFoundedOn(R, FiniteSubsetsOf(Runs))
    BY FS_StrictSubsetOrderingWellFounded
<1>2. T \subseteq FiniteSubsetsOf(Runs) /\ T # {}
    <2>1. \A r \in S : Rest(r) \subseteq Runs /\ IsFiniteSet(Rest(r))
        BY FS_Subset, FinitelyManyRuns DEF TypeOK
    <2> HIDE DEF Rest
    <2> QED BY <2>1 DEF FiniteSubsetsOf, T
<1> HIDE DEF R, T
<1>3. PICK m \in T : \A y \in T : ~(<<y, m>> \in R)
    BY <1>1, <1>2, WFMin
<1>4. PICK r \in S : m = Rest(r)
    BY DEF T
<1>5. ASSUME NEW q \in S, q \notin before[r], q # r PROVE FALSE
    <2>1. q \in waiters /\ r \in waiters /\ q \in Runs /\ r \in Runs
        BY <1>5 DEF TypeOK
    <2>2. r \in before[q] /\ before[r] \subseteq before[q]
        BY <1>5, <2>1 DEF Ordered
    <2>3. Rest(q) \subseteq Rest(r) /\ Rest(q) # Rest(r) /\ Rest(q) \in SUBSET Runs /\ Rest(r) \in SUBSET Runs
        BY <1>5, <2>1, <2>2 DEF Ordered, TypeOK
    <2>4. <<Rest(q), Rest(r)>> \in R
        BY <2>3 DEF R, StrictSubsetOrdering
    <2> QED BY <1>3, <1>4, <1>5, <2>4 DEF T
<1> QED BY <1>5

\* Counting calls: disjoint sets add up, a subset never counts more.
LEMMA CountDisjoint ==
    ASSUME NEW S \in SUBSET Runs, NEW T \in SUBSET Runs, S \cap T = {}
    PROVE  /\ Cardinality(S) \in Nat
           /\ Cardinality(S \cup T) = Cardinality(S) + Cardinality(T)
<1>1. IsFiniteSet(S) /\ IsFiniteSet(T)
    BY FinitelyManyRuns, FS_Subset
<1>2. Cardinality(S) \in Nat /\ Cardinality(T) \in Nat /\ Cardinality(S \cap T) = 0
    BY <1>1, FS_CardinalityType, FS_EmptySet
<1>3. Cardinality(S \cup T) = Cardinality(S) + Cardinality(T) - Cardinality(S \cap T)
    BY <1>1, FS_Union
<1> QED BY <1>2, <1>3

LEMMA CountSubset ==
    ASSUME NEW S \in SUBSET Runs, NEW T \in SUBSET S
    PROVE  /\ Cardinality(S) \in Nat
           /\ Cardinality(T) \in Nat
           /\ Cardinality(T) <= Cardinality(S)
BY FinitelyManyRuns, FS_Subset, FS_CardinalityType

\* _wake re-establishes the whole invariant from any pool whose counters
\* match the releasers, and leaves no call in the queue that may run.
LEMMA WakePreserves ==
    ASSUME TypeOK, Ordered,
           NEW pl \in Pools, NEW st \in [Runs -> Statuses], NEW sl \in Releasers,
           Accounted(pl, sl), Consistent(st, sl), Queued(st),
           Wake(pl, st, sl)
    PROVE  IInv'
<1> DEFINE live == {r \in waiters : st[r] = "waiting"}
<1>1. PICK G \in SUBSET live :
        /\ G = {r \in live : Grantable(pl, G, r)}
        /\ pool' = PoolGranting(pl, G)
        /\ status' = [r \in Runs |-> IF r \in G THEN "granted" ELSE st[r]]
        /\ slot' = [r \in Runs |-> IF r \in G THEN SlotIn(pl, G, r) ELSE sl[r]]
        /\ waiters' = live \ G
        /\ before' = [r \in Runs |-> IF r \in live \ G THEN before[r] \cap (live \ G) ELSE {}]
    BY Zenon DEF Wake
<1>2. G \subseteq live /\ live \subseteq waiters /\ live \subseteq Runs /\ G \subseteq Runs
    BY <1>1 DEF TypeOK
<1>3. \A r \in G : st[r] = "waiting" /\ sl[r] = "none"
    BY <1>2 DEF Consistent
<1>4. \A p \in Pairs : OfPair(G, p) \in SUBSET Runs /\ Cardinality(OfPair(G, p)) \in Nat
    BY <1>2, CountSubset DEF OfPair
<1>5. Extras(pl, G) \in SUBSET G /\ Cardinality(Extras(pl, G)) \in Nat
    BY <1>2, CountSubset DEF Extras
<1> HIDE DEF live
<1>6. TypeOK'
    <2>1. pool' \in Pools
        BY <1>1, <1>4, <1>5 DEF PoolGranting, Pools
    <2>2. status' \in [Runs -> Statuses]
        BY <1>1 DEF Statuses
    <2>3. slot' \in [Runs -> {"none", "guaranteed", "extra"}]
        BY <1>1 DEF SlotIn, Releasers
    <2>4. waiters' \in SUBSET Runs /\ before' \in [Runs -> SUBSET Runs]
        BY <1>1, <1>2
    <2> QED BY <2>1, <2>2, <2>3, <2>4 DEF TypeOK
<1>7. Accounted(pool, slot)'
    <2>1. pool'.extras_running = Cardinality(ExtrasIn(slot'))
        <3>1. ExtrasIn(slot') = ExtrasIn(sl) \cup Extras(pl, G)
            BY <1>1, <1>2, <1>3 DEF ExtrasIn, Extras, SlotIn, Releasers
        <3>2. ExtrasIn(sl) \cap Extras(pl, G) = {} /\ ExtrasIn(sl) \in SUBSET Runs /\ Extras(pl, G) \in SUBSET Runs
            BY <1>2, <1>3, <1>5 DEF ExtrasIn
        <3>3. pl.extras_running = Cardinality(ExtrasIn(sl))
            BY DEF Accounted
        <3>4. pool'.extras_running = pl.extras_running + Cardinality(Extras(pl, G))
            BY <1>1 DEF PoolGranting
        <3> QED BY <3>1, <3>2, <3>3, <3>4, CountDisjoint
    <2>2. ASSUME NEW p \in Pairs PROVE pool'.running[p] = Cardinality(HoldersIn(slot', p))
        <3>1. HoldersIn(slot', p) = HoldersIn(sl, p) \cup OfPair(G, p)
            BY <1>1, <1>2, <1>3 DEF HoldersIn, OfPair, SlotIn, Releasers
        <3>2. HoldersIn(sl, p) \cap OfPair(G, p) = {} /\ HoldersIn(sl, p) \in SUBSET Runs
            BY <1>2, <1>3 DEF HoldersIn, OfPair
        <3>3. pl.running[p] = Cardinality(HoldersIn(sl, p))
            BY DEF Accounted
        <3>4. pool'.running[p] = pl.running[p] + Cardinality(OfPair(G, p))
            BY <1>1 DEF PoolGranting
        <3> QED BY <1>4, <3>1, <3>2, <3>3, <3>4, CountDisjoint
    <2>3. ASSUME NEW r \in G, NEW q \in G, PairOf[r] = PairOf[q],
                 TakesGuaranteed(pl, G, r), TakesGuaranteed(pl, G, q)
          PROVE  r = q
        <3>1. r \in waiters /\ q \in waiters
            BY <1>2
        <3>2. q \notin before[r] /\ r \notin before[q]
            BY <2>3 DEF TakesGuaranteed, OfPair
        <3> QED BY <3>1, <3>2 DEF Ordered
    <2>4. ASSUME NEW r \in Runs, NEW q \in Runs, PairOf[r] = PairOf[q],
                 slot'[r] = "guaranteed", slot'[q] = "guaranteed"
          PROVE  r = q
        <3>1. \A x \in Runs : slot'[x] = "guaranteed" =>
                  (x \in G /\ TakesGuaranteed(pl, G, x)) \/ (x \notin G /\ sl[x] = "guaranteed")
            BY <1>1 DEF SlotIn
        <3>2. \A x, y \in Runs :
                  x \in G /\ TakesGuaranteed(pl, G, x) /\ sl[y] = "guaranteed" => PairOf[x] # PairOf[y]
            BY PairOfRun DEF TakesGuaranteed, Accounted, HoldersIn
        <3> QED BY <2>3, <2>4, <3>1, <3>2 DEF Accounted
    <2>5. ASSUME NEW p \in Pairs
          PROVE  pool'.guaranteed_busy[p] <=> \E r \in HoldersIn(slot', p) : slot'[r] = "guaranteed"
        <3>1. pool'.guaranteed_busy[p] <=> pl.guaranteed_busy[p] \/ OfPair(G, p) # {}
            BY <1>1 DEF PoolGranting
        <3>2. ASSUME pl.guaranteed_busy[p]
              PROVE  \E r \in HoldersIn(slot', p) : slot'[r] = "guaranteed"
            <4>1. PICK r \in HoldersIn(sl, p) : sl[r] = "guaranteed"
                BY <3>2 DEF Accounted
            <4>2. r \in Runs /\ r \notin G /\ PairOf[r] = p
                BY <1>3, <4>1 DEF HoldersIn
            <4>3. slot'[r] = "guaranteed"
                BY <1>1, <4>1, <4>2
            <4> QED BY <4>2, <4>3 DEF HoldersIn
        <3>3. ASSUME OfPair(G, p) # {}, ~pl.guaranteed_busy[p]
              PROVE  \E r \in HoldersIn(slot', p) : slot'[r] = "guaranteed"
            <4>1. OfPair(G, p) \in SUBSET waiters
                BY <1>2 DEF OfPair
            <4>2. PICK r \in OfPair(G, p) : OfPair(G, p) \cap before[r] = {}
                BY <3>3, <4>1, FirstInQueue
            <4>3. r \in G /\ PairOf[r] = p /\ TakesGuaranteed(pl, G, r)
                BY <3>3, <4>2 DEF OfPair, TakesGuaranteed
            <4>4. slot'[r] = "guaranteed"
                BY <1>1, <1>2, <4>3 DEF SlotIn
            <4> QED BY <1>2, <4>3, <4>4 DEF HoldersIn
        <3>4. ASSUME NEW r \in HoldersIn(slot', p), slot'[r] = "guaranteed"
              PROVE  pl.guaranteed_busy[p] \/ OfPair(G, p) # {}
            <4>1. CASE r \in G
                BY <4>1 DEF HoldersIn, OfPair
            <4>2. CASE r \notin G
                BY <1>1, <3>4, <4>2 DEF HoldersIn, Accounted
            <4> QED BY <4>1, <4>2
        <3> QED BY <3>1, <3>2, <3>3, <3>4
    <2> QED BY <2>1, <2>2, <2>4, <2>5 DEF Accounted
<1>8. Consistent(status, slot)'
    BY <1>1 DEF Consistent, SlotIn
<1>9. Queued(status)'
    BY <1>1, <1>2 DEF Queued, live
<1>10. Ordered'
    BY <1>1, <1>2 DEF Ordered, TypeOK
<1>11. NoLostWakeup'
    <2> SUFFICES ASSUME NEW r \in live \ G, MayRun(pool, r)'
                 PROVE  FALSE
        BY <1>1 DEF NoLostWakeup
    <2> DEFINE p == PairOf[r]
               ahead == G \cap before[r]
    <2>1. p \in Pairs /\ ~Grantable(pl, G, r) /\ r \in Runs
        BY <1>1, <1>2, PairOfRun
    <2>2. CASE ~pool'.guaranteed_busy[p]
        <3>1. ~pl.guaranteed_busy[p] /\ OfPair(G, p) = {}
            BY <1>1, <2>1, <2>2 DEF PoolGranting
        <3> QED BY <2>1, <3>1 DEF Grantable, TakesGuaranteed, OfPair
    <2>3. CASE MayRunExtra(p, pool'.running[p], pool'.extras_running, pool'.pairs)
        <3>1. /\ pl.running[p] \in Nat /\ pl.extras_running \in Nat
              /\ Resolve(PairLimit[p], pl.pairs) \in Nat
              /\ ExtraLimit # NoLimit => Resolve(ExtraLimit, pl.pairs) \in Nat
            BY <2>1, ResolveNat, LimitsParsed DEF Pools
        <3>2. OfPair(ahead, p) \in SUBSET OfPair(G, p) /\ Extras(pl, G) \cap ahead \in SUBSET Extras(pl, G)
            BY DEF OfPair
        <3>3. /\ Cardinality(OfPair(ahead, p)) \in Nat
              /\ Cardinality(OfPair(ahead, p)) <= Cardinality(OfPair(G, p))
              /\ Cardinality(Extras(pl, G) \cap ahead) \in Nat
              /\ Cardinality(Extras(pl, G) \cap ahead) <= Cardinality(Extras(pl, G))
            BY <1>2, <1>4, <1>5, <2>1, <3>2, CountSubset
        <3>4. /\ pool'.running[p] = pl.running[p] + Cardinality(OfPair(G, p))
              /\ pool'.extras_running = pl.extras_running + Cardinality(Extras(pl, G))
              /\ pool'.pairs = pl.pairs
            BY <1>1, <2>1 DEF PoolGranting
        <3>5. MayRunExtra(p, pl.running[p] + Cardinality(OfPair(ahead, p)),
                          pl.extras_running + Cardinality(Extras(pl, G) \cap ahead), pl.pairs)
            BY <1>4, <1>5, <2>1, <2>3, <3>1, <3>3, <3>4 DEF MayRunExtra, ExtraRoom
        <3> QED BY <2>1, <3>5 DEF Grantable
    <2> QED BY <2>2, <2>3 DEF MayRun
<1> QED BY <1>6, <1>7, <1>8, <1>9, <1>10, <1>11 DEF IInv

\* A release, and the hand-back of a cancelled call: the freed slot is
\* counted out before the wake starts.
LEMMA FreedSlot ==
    ASSUME IInv, NEW r \in Runs, slot[r] # "none"
    PROVE  /\ PoolFreeing(r) \in Pools
           /\ [status EXCEPT ![r] = "idle"] \in [Runs -> Statuses]
           /\ [slot EXCEPT ![r] = "none"] \in Releasers
           /\ Accounted(PoolFreeing(r), [slot EXCEPT ![r] = "none"])
           /\ Consistent([status EXCEPT ![r] = "idle"], [slot EXCEPT ![r] = "none"])
           /\ Queued([status EXCEPT ![r] = "idle"])
<1> DEFINE pl == PoolFreeing(r)
           st == [status EXCEPT ![r] = "idle"]
           sl == [slot EXCEPT ![r] = "none"]
           p  == PairOf[r]
<1>1. slot[r] # "none"
    OBVIOUS
<1>2. /\ p \in Pairs /\ st \in [Runs -> Statuses] /\ sl \in Releasers
      /\ slot \in Releasers /\ pool \in Pools
    BY PairOfRun DEF IInv, TypeOK, Statuses, Releasers
<1>3. st[r] = "idle" /\ sl[r] = "none" /\ \A q \in Runs \ {r} : st[q] = status[q] /\ sl[q] = slot[q]
    BY <1>2 DEF IInv, TypeOK
<1>4. \A q \in Pairs : pl.running[q] = IF q = p THEN pool.running[q] - 1 ELSE pool.running[q]
    BY <1>2 DEF PoolFreeing, Pools
<1>5. pl.extras_running = IF slot[r] = "extra" THEN pool.extras_running - 1 ELSE pool.extras_running
    BY <1>2 DEF PoolFreeing, Pools
<1>6. \A q \in Pairs : pl.guaranteed_busy[q] <=> pool.guaranteed_busy[q] /\ ~(q = p /\ slot[r] = "guaranteed")
    <2>1. pl.guaranteed_busy = [pool.guaranteed_busy EXCEPT ![p] = @ /\ slot[r] # "guaranteed"]
        BY <1>2 DEF PoolFreeing, Pools
    <2> QED BY <1>2, <2>1 DEF Pools
<1>7. Cardinality(ExtrasIn(sl)) = pl.extras_running /\ pl.extras_running \in Nat
    <2>1. ExtrasIn(sl) = ExtrasIn(slot) \ {r} /\ ExtrasIn(slot) \in SUBSET Runs
        BY <1>3 DEF ExtrasIn
    <2>2. Cardinality(ExtrasIn(sl)) = IF r \in ExtrasIn(slot) THEN Cardinality(ExtrasIn(slot)) - 1
                                                              ELSE Cardinality(ExtrasIn(slot))
        BY <2>1, FinitelyManyRuns, FS_Subset, FS_RemoveElement
    <2>3. Cardinality(ExtrasIn(sl)) \in Nat
        BY <2>1, CountSubset
    <2> QED BY <1>5, <2>2, <2>3 DEF IInv, Accounted, ExtrasIn
<1>8. ASSUME NEW q \in Pairs
      PROVE  Cardinality(HoldersIn(sl, q)) = pl.running[q] /\ pl.running[q] \in Nat
    <2>1. HoldersIn(sl, q) = HoldersIn(slot, q) \ {r} /\ HoldersIn(slot, q) \in SUBSET Runs
        BY <1>3 DEF HoldersIn
    <2>2. Cardinality(HoldersIn(sl, q)) = IF r \in HoldersIn(slot, q) THEN Cardinality(HoldersIn(slot, q)) - 1
                                                                      ELSE Cardinality(HoldersIn(slot, q))
        BY <2>1, FinitelyManyRuns, FS_Subset, FS_RemoveElement
    <2>3. Cardinality(HoldersIn(sl, q)) \in Nat
        BY <2>1, CountSubset
    <2>4. r \in HoldersIn(slot, q) <=> q = p
        BY <1>1 DEF HoldersIn
    <2> QED BY <1>4, <2>2, <2>3, <2>4 DEF IInv, Accounted
<1>9. pl \in Pools
    <2>1. pl.pairs = pool.pairs /\ pl = [guaranteed_busy |-> pl.guaranteed_busy, running |-> pl.running,
                                         extras_running |-> pl.extras_running, pairs |-> pl.pairs]
        BY DEF PoolFreeing
    <2>2. pl.running \in [Pairs -> Nat]
        <3>1. pl.running = [pool.running EXCEPT ![p] = @ - 1]
            BY <1>2 DEF PoolFreeing, Pools
        <3> QED BY <1>2, <1>8, <3>1 DEF Pools
    <2>3. pl.guaranteed_busy \in [Pairs -> BOOLEAN]
        BY <1>2 DEF PoolFreeing, Pools
    <2> HIDE DEF pl
    <2> QED BY <1>2, <1>7, <2>1, <2>2, <2>3 DEF Pools
<1>10. Accounted(pl, sl)
    <2>1. ASSUME NEW q \in Pairs
          PROVE  pl.guaranteed_busy[q] <=> \E x \in HoldersIn(sl, q) : sl[x] = "guaranteed"
        <3>1. pool.guaranteed_busy[q] <=> \E x \in HoldersIn(slot, q) : slot[x] = "guaranteed"
            BY DEF IInv, Accounted
        <3>2. \A x, y \in Runs : slot[x] = "guaranteed" /\ slot[y] = "guaranteed" /\ PairOf[x] = PairOf[y] => x = y
            BY DEF IInv, Accounted
        <3>3. \A x \in HoldersIn(sl, q) : x \in HoldersIn(slot, q) /\ sl[x] = slot[x] /\ x # r
            BY <1>3 DEF HoldersIn
        <3>4. \A x \in HoldersIn(slot, q) \ {r} : x \in HoldersIn(sl, q) /\ sl[x] = slot[x]
            BY <1>3 DEF HoldersIn
        <3> HIDE DEF pl, sl
        <3>5. CASE q = p /\ slot[r] = "guaranteed"
            BY <1>6, <3>2, <3>3, <3>5 DEF HoldersIn
        <3>6. CASE q # p \/ slot[r] # "guaranteed"
            BY <1>6, <3>1, <3>3, <3>4, <3>6 DEF HoldersIn
        <3> QED BY <3>5, <3>6
    <2>2. \A x, y \in Runs : sl[x] = "guaranteed" /\ sl[y] = "guaranteed" /\ PairOf[x] = PairOf[y] => x = y
        BY <1>3 DEF IInv, Accounted
    <2> HIDE DEF pl, sl
    <2> QED BY <1>7, <1>8, <2>1, <2>2 DEF Accounted
<1>11. Consistent(st, sl) /\ Queued(st)
    BY <1>1, <1>3 DEF IInv, Consistent, Queued
<1> HIDE DEF pl, st, sl
<1> QED BY <1>2, <1>9, <1>10, <1>11 DEF pl, st, sl

LEMMA FreeAndWakePreserves ==
    ASSUME IInv, NEW r \in Runs, FreeAndWake(r)
    PROVE  IInv'
<1> DEFINE pl == PoolFreeing(r)
           st == [status EXCEPT ![r] = "idle"]
           sl == [slot EXCEPT ![r] = "none"]
<1>1. slot[r] # "none" /\ Wake(pl, st, sl)
    BY DEF FreeAndWake
<1>2. /\ pl \in Pools /\ st \in [Runs -> Statuses] /\ sl \in Releasers
      /\ Accounted(pl, sl) /\ Consistent(st, sl) /\ Queued(st)
    BY <1>1, FreedSlot
<1> HIDE DEF pl, st, sl
<1> QED BY <1>1, <1>2, WakePreserves DEF IInv

\* The pool records are what they are made of.
LEMMA PoolRecord ==
    ASSUME NEW g \in [Pairs -> BOOLEAN], NEW n \in [Pairs -> Nat], NEW x \in Nat, NEW m \in Nat
    PROVE  [guaranteed_busy |-> g, running |-> n, extras_running |-> x, pairs |-> m] \in Pools
BY DEF Pools

\* acquire that is granted at once counts the slot it hands out, and takes
\* no room that a waiter could have used.
LEMMA StartPreserves ==
    ASSUME IInv, NEW r \in Runs, status[r] = "idle", MayRun(pool, r),
           NEW kind \in {"guaranteed", "extra"}, Start(r, kind),
           kind = "guaranteed" <=> ~pool.guaranteed_busy[PairOf[r]]
    PROVE  IInv'
<1> DEFINE busy == pool.guaranteed_busy
           p    == PairOf[r]
<1>1. p \in Pairs /\ slot[r] = "none" /\ r \notin waiters
    BY PairOfRun DEF IInv, Consistent, Queued
<1>2. /\ busy \in [Pairs -> BOOLEAN] /\ pool.running \in [Pairs -> Nat]
      /\ pool.extras_running \in Nat /\ pool.pairs \in Nat
    BY DEF IInv, TypeOK, Pools
<1>3. /\ pool'.guaranteed_busy = [busy EXCEPT ![p] = @ \/ kind = "guaranteed"]
      /\ pool'.running = [pool.running EXCEPT ![p] = @ + 1]
      /\ pool'.extras_running = pool.extras_running + (IF kind = "extra" THEN 1 ELSE 0)
      /\ pool'.pairs = pool.pairs
    BY DEF Start, PoolTaking
<1>4. slot'[r] = kind /\ \A q \in Runs \ {r} : slot'[q] = slot[q]
    BY DEF Start, IInv, TypeOK
<1>5. TypeOK'
    <2>1. pool'.guaranteed_busy \in [Pairs -> BOOLEAN]
        <3>1. (busy[p] \/ kind = "guaranteed") \in BOOLEAN
            OBVIOUS
        <3> QED BY <1>2, <1>3, <3>1
    <2>2. pool'.running \in [Pairs -> Nat]
        <3>1. pool.running[p] + 1 \in Nat
            BY <1>1, <1>2
        <3> QED BY <1>1, <1>2, <1>3, <3>1
    <2>3. pool' = [guaranteed_busy |-> pool'.guaranteed_busy, running |-> pool'.running,
                   extras_running |-> pool'.extras_running, pairs |-> pool'.pairs]
        BY DEF Start, PoolTaking
    <2>4. pool' \in Pools
        <3>1. pool'.extras_running \in Nat /\ pool'.pairs \in Nat
            BY <1>2, <1>3
        <3> QED BY <2>1, <2>2, <2>3, <3>1, PoolRecord, Zenon
    <2>5. status' \in [Runs -> Statuses] /\ slot' \in [Runs -> {"none", "guaranteed", "extra"}]
        BY DEF Start, IInv, TypeOK, Statuses
    <2> QED BY <2>4, <2>5 DEF Start, IInv, TypeOK
<1>6. Consistent(status, slot)' /\ Queued(status)' /\ Ordered'
    BY <1>1 DEF Start, IInv, TypeOK, Consistent, Queued, Ordered
<1>7. Cardinality(ExtrasIn(slot')) = pool'.extras_running
    <2>1. ExtrasIn(slot) \in SUBSET Runs /\ IsFiniteSet(ExtrasIn(slot)) /\ r \notin ExtrasIn(slot)
        BY <1>1, FinitelyManyRuns, FS_Subset DEF ExtrasIn
    <2>2. pool.extras_running = Cardinality(ExtrasIn(slot))
        BY DEF IInv, Accounted
    <2>3. CASE kind = "extra"
        <3>1. ExtrasIn(slot') = ExtrasIn(slot) \cup {r}
            BY <1>4, <2>3 DEF ExtrasIn
        <3>2. Cardinality(ExtrasIn(slot')) = Cardinality(ExtrasIn(slot)) + 1
            BY <2>1, <3>1, FS_AddElement
        <3> QED BY <1>3, <2>2, <2>3, <3>2
    <2>4. CASE kind = "guaranteed"
        <3>1. ExtrasIn(slot') = ExtrasIn(slot)
            BY <1>1, <1>4, <2>4 DEF ExtrasIn
        <3> QED BY <1>2, <1>3, <2>2, <2>4, <3>1
    <2> QED BY <2>3, <2>4
<1>8. ASSUME NEW q \in Pairs PROVE Cardinality(HoldersIn(slot', q)) = pool'.running[q]
    <2>1. HoldersIn(slot, q) \in SUBSET Runs /\ IsFiniteSet(HoldersIn(slot, q)) /\ r \notin HoldersIn(slot, q)
        BY <1>1, FinitelyManyRuns, FS_Subset DEF HoldersIn
    <2>2. pool.running[q] = Cardinality(HoldersIn(slot, q))
        BY DEF IInv, Accounted
    <2>3. CASE q = p
        <3>1. HoldersIn(slot', q) = HoldersIn(slot, q) \cup {r}
            BY <1>4, <2>3 DEF HoldersIn
        <3>2. Cardinality(HoldersIn(slot', q)) = Cardinality(HoldersIn(slot, q)) + 1
            BY <2>1, <3>1, FS_AddElement
        <3> QED BY <1>2, <1>3, <2>2, <2>3, <3>2
    <2>4. CASE q # p
        <3>1. HoldersIn(slot', q) = HoldersIn(slot, q)
            BY <1>4, <2>4 DEF HoldersIn
        <3> QED BY <1>2, <1>3, <2>2, <2>4, <3>1
    <2> QED BY <2>3, <2>4
<1>9. Accounted(pool, slot)'
    <2>1. ASSUME NEW q \in Pairs
          PROVE  pool'.guaranteed_busy[q] <=> \E x \in HoldersIn(slot', q) : slot'[x] = "guaranteed"
        <3>1. busy[q] <=> \E x \in HoldersIn(slot, q) : slot[x] = "guaranteed"
            BY DEF IInv, Accounted
        <3>2. pool'.guaranteed_busy[q] <=> busy[q] \/ (q = p /\ kind = "guaranteed")
            BY <1>1, <1>2, <1>3
        <3> QED BY <1>1, <1>4, <3>1, <3>2 DEF HoldersIn
    <2>2. \A x, y \in Runs :
            slot'[x] = "guaranteed" /\ slot'[y] = "guaranteed" /\ PairOf[x] = PairOf[y] => x = y
        <3>1. \A x \in Runs : slot[x] = "guaranteed" => busy[PairOf[x]]
            BY PairOfRun DEF IInv, Accounted, HoldersIn
        <3>2. \A x, y \in Runs : slot[x] = "guaranteed" /\ slot[y] = "guaranteed" /\ PairOf[x] = PairOf[y] => x = y
            BY DEF IInv, Accounted
        <3> QED BY <1>4, <3>1, <3>2
    <2> QED BY <1>7, <1>8, <2>1, <2>2 DEF Accounted
<1>10. NoLostWakeup'
    <2> SUFFICES ASSUME NEW q \in waiters, status[q] = "waiting", MayRun(pool, q)'
                 PROVE  FALSE
        BY <1>1 DEF Start, NoLostWakeup, IInv, TypeOK
    <2> DEFINE s == PairOf[q]
    <2>1. ~MayRun(pool, q) /\ s \in Pairs
        BY PairOfRun DEF IInv, NoLostWakeup, TypeOK
    <2>2. /\ Resolve(PairLimit[s], pool.pairs) \in Nat
          /\ ExtraLimit # NoLimit => Resolve(ExtraLimit, pool.pairs) \in Nat
        BY <1>2, <2>1, ResolveNat, LimitsParsed
    <2>3. pool.running[s] \in Nat /\ pool'.running[s] \in Nat /\ pool.running[s] <= pool'.running[s]
        BY <1>1, <1>2, <1>3, <2>1
    <2>4. busy[s] => pool'.guaranteed_busy[s]
        BY <1>1, <1>2, <1>3, <2>1
    <2>5. pool.extras_running <= pool'.extras_running /\ pool'.extras_running \in Nat
        BY <1>2, <1>3
    <2> QED BY <1>2, <1>3, <2>1, <2>2, <2>3, <2>4, <2>5 DEF MayRun, MayRunExtra, ExtraRoom
<1> QED BY <1>5, <1>6, <1>9, <1>10 DEF IInv

-----------------------------------------------------------------------------
(* The theorems.                                                           *)

\* Every state of the pool satisfies the inductive invariant.
LEMMA InitIInv == Init => IInv
<1> SUFFICES ASSUME Init PROVE IInv
    OBVIOUS
<1>1. TypeOK
    BY DEF Init, TypeOK, Pools, Statuses
<1>2. ExtrasIn(slot) = {} /\ \A p \in Pairs : HoldersIn(slot, p) = {}
    BY DEF Init, ExtrasIn, HoldersIn
<1>3. Accounted(pool, slot)
    BY <1>2, FS_EmptySet DEF Init, Accounted
<1> QED BY <1>1, <1>3 DEF Init, IInv, Consistent, Queued, Ordered, NoLostWakeup

LEMMA NextIInv == IInv /\ [Next]_vars => IInv'
<1> SUFFICES ASSUME IInv, [Next]_vars PROVE IInv'
    OBVIOUS
<1> USE DEF IInv
<1>1. CASE AddPair
    <2> DEFINE pl == [pool EXCEPT !.pairs = @ + 1]
    <2>1. pl \in Pools /\ Accounted(pl, slot)
        BY DEF TypeOK, Pools, Accounted
    <2>2. Wake(pl, status, slot) /\ slot \in Releasers /\ status \in [Runs -> Statuses]
        BY <1>1 DEF AddPair, TypeOK, Releasers
    <2> HIDE DEF pl
    <2> QED BY <2>1, <2>2, WakePreserves
<1>2. CASE RemovePair
    <2>1. /\ TypeOK' /\ pool'.pairs \in Nat /\ pool'.pairs <= pool.pairs
          /\ pool'.running = pool.running /\ pool'.extras_running = pool.extras_running
          /\ pool'.guaranteed_busy = pool.guaranteed_busy
        BY <1>2 DEF RemovePair, TypeOK, Pools
    <2>2. Accounted(pool, slot)' /\ Consistent(status, slot)' /\ Queued(status)' /\ Ordered'
        BY <1>2, <2>1 DEF RemovePair, Accounted, Consistent, Queued, Ordered
    <2>3. NoLostWakeup'
        <3> SUFFICES ASSUME NEW r \in waiters, status[r] = "waiting", MayRun(pool, r)'
                     PROVE  MayRun(pool, r)
            BY <1>2 DEF RemovePair, NoLostWakeup
        <3> DEFINE p == PairOf[r]
        <3>1. p \in Pairs /\ pool \in Pools
            BY PairOfRun DEF TypeOK
        <3>2. \A limit \in RunLimits :
                /\ Resolve(limit, pool'.pairs) \in Nat /\ Resolve(limit, pool.pairs) \in Nat
                /\ Resolve(limit, pool'.pairs) <= Resolve(limit, pool.pairs)
            BY <2>1, <3>1, ResolveNat, ResolveMonotone DEF Pools
        <3>3. /\ pool.running[p] \in Nat /\ pool.extras_running \in Nat /\ PairLimit[p] \in RunLimits
              /\ ExtraLimit # NoLimit => ExtraLimit \in RunLimits
            BY <3>1, LimitsParsed DEF Pools
        <3>4. CASE ~pool'.guaranteed_busy[p]
            BY <2>1, <3>4 DEF MayRun
        <3>5. CASE MayRunExtra(p, pool'.running[p], pool'.extras_running, pool'.pairs)
            <4>1. MayRunExtra(p, pool.running[p], pool.extras_running, pool.pairs)
                BY <2>1, <3>2, <3>3, <3>5 DEF MayRunExtra, ExtraRoom
            <4> QED BY <4>1 DEF MayRun
        <3> QED BY <3>4, <3>5 DEF MayRun
    <2> QED BY <2>1, <2>2, <2>3
<1>3. ASSUME NEW r \in Runs, AcquireGuaranteed(r) PROVE IInv'
    BY <1>3, StartPreserves DEF AcquireGuaranteed, MayRun
<1>4. ASSUME NEW r \in Runs, AcquireExtra(r) PROVE IInv'
    BY <1>4, StartPreserves DEF AcquireExtra
<1>5. ASSUME NEW r \in Runs, AcquireQueued(r) PROVE IInv'
    <2>1. r \notin waiters /\ \A q \in Runs : r \notin before[q]
        BY <1>5 DEF AcquireQueued, Queued, Ordered
    <2>2. Ordered'
        BY <1>5, <2>1 DEF AcquireQueued, Ordered, TypeOK
    <2> QED BY <1>5, <2>1, <2>2 DEF AcquireQueued, TypeOK, Statuses, Accounted, Consistent, Queued,
                                    NoLostWakeup, MayRun, HoldersIn, ExtrasIn
<1>6. ASSUME NEW r \in Runs, Resume(r) \/ Cancel(r) PROVE IInv'
    <2>1. /\ UNCHANGED <<pool, slot, waiters, before>>
          /\ \A q \in Runs \ {r} : status'[q] = status[q]
          /\ \/ status[r] = "waiting" /\ status'[r] = "cancelling"
             \/ status[r] = "granted" /\ status'[r] \in {"running", "abandoning"}
          /\ status' \in [Runs -> Statuses]
        BY <1>6 DEF Resume, Cancel, TypeOK, Statuses
    <2> QED BY <2>1 DEF TypeOK, Accounted, Consistent, Queued, Ordered, NoLostWakeup, MayRun
<1>7. ASSUME NEW r \in Runs, Unqueue(r) PROVE IInv'
    <2>1. UNCHANGED <<pool, slot>> /\ waiters' = waiters \ {r} /\ TypeOK'
        BY <1>7 DEF Unqueue, TypeOK, Statuses
    <2>2. Accounted(pool, slot)' /\ Consistent(status, slot)' /\ Queued(status)' /\ NoLostWakeup'
        BY <1>7, <2>1 DEF Unqueue, TypeOK, Accounted, Consistent, Queued, NoLostWakeup, MayRun
    <2>3. Ordered'
        BY <1>7, <2>1 DEF Unqueue, Ordered, TypeOK
    <2> QED BY <2>1, <2>2, <2>3
<1>8. ASSUME NEW r \in Runs, HandBack(r) \/ Release(r) PROVE IInv'
    BY <1>8, FreeAndWakePreserves DEF HandBack, Release
<1>9. CASE UNCHANGED vars
    BY <1>9 DEF vars, TypeOK, Accounted, Consistent, Queued, Ordered, NoLostWakeup, MayRun
<1> QED BY <1>1, <1>2, <1>3, <1>4, <1>5, <1>6, <1>7, <1>8, <1>9 DEF Next

LEMMA Invariance == Spec => []IInv
BY InitIInv, NextIInv, PTL DEF Spec

\* The state of the pool keeps its type: in particular no counter goes below zero.
THEOREM TypeCorrect == Spec => []TypeOK
<1>1. IInv => TypeOK
    BY DEF IInv
<1> QED BY <1>1, Invariance, PTL

\* No slot of the pool is leaked or freed twice, whatever is cancelled when.
THEOREM Accounting == Spec => []SlotsAccounted
<1>1. IInv => SlotsAccounted
    BY DEF IInv, SlotsAccounted, Accounted, Holders, ExtraHolders, GuaranteedHolders, HoldersIn, ExtrasIn
<1> QED BY <1>1, Invariance, PTL

\* No call stays in the queue that could run.
THEOREM NoWakeupLost == Spec => []NoLostWakeup
<1>1. IInv => NoLostWakeup
    BY DEF IInv
<1> QED BY <1>1, Invariance, PTL

-----------------------------------------------------------------------------
(* What a step grants.                                                     *)

\* One pass of _wake over the queue grants extra runs within the limits, and to
\* no call that has another of its pair waiting before it.
LEMMA WakeGrants ==
    ASSUME TypeOK, Ordered,
           NEW pl \in Pools, NEW st \in [Runs -> Statuses], NEW sl \in Releasers,
           Wake(pl, st, sl)
    PROVE  /\ \A r \in Runs :
                slot'[r] = "extra" /\ sl[r] # "extra" =>
                    /\ pool'.running[PairOf[r]] <= Resolve(PairLimit[PairOf[r]], pool'.pairs)
                    /\ ExtraLimit # NoLimit => pool'.extras_running <= Resolve(ExtraLimit, pool'.pairs)
           /\ \A r, q \in Runs :
                /\ sl[r] = "none" /\ slot'[r] # "none" /\ PairOf[q] = PairOf[r]
                /\ q \in waiters /\ st[q] = "waiting" /\ q \in before[r]
                => q \notin waiters'
           /\ \A r \in Runs : sl[r] = "none" /\ slot'[r] # "none" => r \in waiters
<1> DEFINE live == {r \in waiters : st[r] = "waiting"}
<1>1. PICK G \in SUBSET live :
        /\ G = {r \in live : Grantable(pl, G, r)}
        /\ pool' = PoolGranting(pl, G)
        /\ slot' = [r \in Runs |-> IF r \in G THEN SlotIn(pl, G, r) ELSE sl[r]]
        /\ waiters' = live \ G
    BY Zenon DEF Wake
<1>2. G \subseteq live /\ live \subseteq waiters /\ G \subseteq Runs
    BY <1>1 DEF TypeOK
<1>3. \A r \in Runs : r \in G <=> r \in live /\ Grantable(pl, G, r)
    BY <1>1, <1>2
<1>q. \A q \in Runs : q \in waiters /\ st[q] = "waiting" <=> q \in live
    OBVIOUS
<1> HIDE DEF live
<1>4. \A S \in SUBSET G : S \in SUBSET Runs /\ Cardinality(S) \in Nat
    BY <1>2, CountSubset
\* The counters that a call of the pass is compared with: those of the calls ahead.
<1>5. ASSUME NEW r \in G
      PROVE  /\ PairOf[r] \in Pairs
             /\ pl.running[PairOf[r]] \in Nat /\ pl.extras_running \in Nat
             /\ Resolve(PairLimit[PairOf[r]], pl.pairs) \in Nat
             /\ ExtraLimit # NoLimit => Resolve(ExtraLimit, pl.pairs) \in Nat
    BY <1>2, PairOfRun, ResolveNat, LimitsParsed DEF Pools
<1>6. ASSUME NEW r \in Runs, slot'[r] = "extra", sl[r] # "extra"
      PROVE  r \in G /\ ~TakesGuaranteed(pl, G, r)
    BY <1>1, <1>6 DEF SlotIn
<1>7. ASSUME NEW r \in G, ~TakesGuaranteed(pl, G, r)
      PROVE  pool'.running[PairOf[r]] <= Resolve(PairLimit[PairOf[r]], pool'.pairs)
    <2> DEFINE p == PairOf[r]
               S == OfPair(G, p)
    <2>1. S \in SUBSET waiters /\ S \in SUBSET G /\ r \in S
        BY <1>2 DEF OfPair
    <2>2. PICK l \in S : S \subseteq before[l] \cup {l}
        BY <2>1, LastInQueue
    <2>3. l \in G /\ PairOf[l] = p /\ l \notin before[l]
        BY <1>2, <2>2 DEF OfPair, Ordered
    <2>4. OfPair(G \cap before[l], p) = S \ {l}
        BY <2>2, <2>3 DEF OfPair
    <2>5. ~TakesGuaranteed(pl, G, l)
        <3>1. SUFFICES ASSUME TakesGuaranteed(pl, G, l) PROVE FALSE
            OBVIOUS
        <3>2. S \ {l} = {}
            BY <2>3, <2>4, <3>1 DEF TakesGuaranteed
        <3>3. l = r
            BY <2>1, <3>2
        <3> QED BY <1>7, <3>1, <3>3
    <2>6. pl.running[p] + Cardinality(S \ {l}) < Resolve(PairLimit[p], pl.pairs)
        BY <1>2, <1>3, <2>3, <2>4, <2>5 DEF Grantable, MayRunExtra
    <2>7. Cardinality(S) = Cardinality(S \ {l}) + 1 /\ Cardinality(S \ {l}) \in Nat
        <3>1. IsFiniteSet(S)
            BY <1>2, <2>1, FinitelyManyRuns, FS_Subset
        <3>2. Cardinality(S \ {l}) = Cardinality(S) - 1 /\ Cardinality(S) \in Nat /\ Cardinality(S \ {l}) \in Nat
            BY <1>4, <2>1, <2>2, <3>1, FS_RemoveElement
        <3> QED BY <3>2
    <2>8. pool'.running[p] = pl.running[p] + Cardinality(S) /\ pool'.pairs = pl.pairs
        BY <1>1, <1>5 DEF PoolGranting
    <2> HIDE DEF S
    <2> QED BY <1>5, <2>6, <2>7, <2>8
<1>8. ASSUME NEW r \in G, ~TakesGuaranteed(pl, G, r), ExtraLimit # NoLimit
      PROVE  pool'.extras_running <= Resolve(ExtraLimit, pool'.pairs)
    <2> DEFINE S == Extras(pl, G)
    <2>1. S \in SUBSET waiters /\ S \in SUBSET G /\ r \in S
        BY <1>2, <1>8 DEF Extras
    <2>2. PICK l \in S : S \subseteq before[l] \cup {l}
        BY <2>1, LastInQueue
    <2>3. l \in G /\ ~TakesGuaranteed(pl, G, l) /\ l \notin before[l]
        BY <1>2, <2>2 DEF Extras, Ordered
    <2>4. S \cap (G \cap before[l]) = S \ {l}
        BY <2>1, <2>2, <2>3
    <2>5. pl.extras_running + Cardinality(S \ {l}) < Resolve(ExtraLimit, pl.pairs)
        BY <1>2, <1>3, <1>8, <2>3, <2>4 DEF Grantable, MayRunExtra, ExtraRoom
    <2>6. Cardinality(S) = Cardinality(S \ {l}) + 1 /\ Cardinality(S \ {l}) \in Nat
        <3>1. IsFiniteSet(S)
            BY <1>2, <2>1, FinitelyManyRuns, FS_Subset
        <3>2. Cardinality(S \ {l}) = Cardinality(S) - 1 /\ Cardinality(S) \in Nat /\ Cardinality(S \ {l}) \in Nat
            BY <1>4, <2>1, <2>2, <3>1, FS_RemoveElement
        <3> QED BY <3>2
    <2>7. pool'.extras_running = pl.extras_running + Cardinality(S) /\ pool'.pairs = pl.pairs
        BY <1>1 DEF PoolGranting
    <2> HIDE DEF S
    <2> QED BY <1>5, <1>8, <2>5, <2>6, <2>7
\* A call of the same pair that waits before a granted one may run, too.
<1>9. ASSUME NEW r \in G, NEW q \in live, q \in before[r], PairOf[q] = PairOf[r]
      PROVE  q \in G
    <2> DEFINE p == PairOf[r]
    <2>1. before[q] \subseteq before[r] /\ r \in Runs /\ q \in Runs
        BY <1>2, <1>9 DEF Ordered, TypeOK
    <2>2. Grantable(pl, G, r)
        BY <1>3, <2>1
    <2>3. CASE TakesGuaranteed(pl, G, r)
        <3>1. TakesGuaranteed(pl, G, q)
            BY <1>9, <2>1, <2>3 DEF TakesGuaranteed, OfPair
        <3> QED BY <1>3, <2>1, <3>1 DEF Grantable
    <2>4. CASE ~TakesGuaranteed(pl, G, r)
        <3> DEFINE inPair(x) == OfPair(G \cap before[x], p)
                   extras(x) == Extras(pl, G) \cap (G \cap before[x])
        <3>1. /\ inPair(q) \in SUBSET inPair(r) /\ inPair(r) \in SUBSET Runs
              /\ extras(q) \in SUBSET extras(r) /\ extras(r) \in SUBSET Runs
            BY <1>2, <2>1 DEF OfPair
        <3>2. /\ Cardinality(inPair(q)) \in Nat /\ Cardinality(inPair(r)) \in Nat
              /\ Cardinality(inPair(q)) <= Cardinality(inPair(r))
              /\ Cardinality(extras(q)) \in Nat /\ Cardinality(extras(r)) \in Nat
              /\ Cardinality(extras(q)) <= Cardinality(extras(r))
            BY <3>1, CountSubset
        <3>3. MayRunExtra(p, pl.running[p] + Cardinality(inPair(r)),
                          pl.extras_running + Cardinality(extras(r)), pl.pairs)
            BY <2>2, <2>4 DEF Grantable
        <3> HIDE DEF inPair, extras
        <3>4. MayRunExtra(p, pl.running[p] + Cardinality(inPair(q)),
                          pl.extras_running + Cardinality(extras(q)), pl.pairs)
            BY <1>5, <3>2, <3>3 DEF MayRunExtra, ExtraRoom
        <3> QED BY <1>3, <1>9, <2>1, <3>4 DEF Grantable, inPair, extras
    <2> QED BY <2>3, <2>4
<1>10. ASSUME NEW r \in Runs, sl[r] = "none", slot'[r] # "none" PROVE r \in G
    BY <1>1, <1>10
<1> QED BY <1>1, <1>2, <1>q, <1>6, <1>7, <1>8, <1>9, <1>10

\* Which steps hand out slots: a pass of _wake, or an acquire that is granted at once.
LEMMA StepsThatGrant ==
    ASSUME IInv, Next
    PROVE  \/ slot' = slot
           \/ \E r \in Runs : AcquireGuaranteed(r) \/ AcquireExtra(r)
           \/ \E pl \in Pools, st \in [Runs -> Statuses], sl \in Releasers :
                /\ Wake(pl, st, sl)
                /\ \A r \in Runs : status[r] = "waiting" => st[r] = "waiting"
                /\ \A r \in Runs : sl[r] = slot[r] \/ (slot[r] # "none" /\ sl[r] = "none" /\ r \notin waiters)
<1>1. CASE AddPair
    <2> DEFINE pl == [pool EXCEPT !.pairs = @ + 1]
    <2>1. pl \in Pools /\ slot \in Releasers /\ status \in [Runs -> Statuses] /\ Wake(pl, status, slot)
        BY <1>1 DEF IInv, TypeOK, Pools, Releasers, AddPair
    <2> HIDE DEF pl
    <2> QED BY <2>1
<1>2. ASSUME NEW r \in Runs, FreeAndWake(r)
      PROVE  \E pl \in Pools, st \in [Runs -> Statuses], sl \in Releasers :
                /\ Wake(pl, st, sl)
                /\ \A q \in Runs : status[q] = "waiting" => st[q] = "waiting"
                /\ \A q \in Runs : sl[q] = slot[q] \/ (slot[q] # "none" /\ sl[q] = "none" /\ q \notin waiters)
    <2> DEFINE pl == PoolFreeing(r)
               st == [status EXCEPT ![r] = "idle"]
               sl == [slot EXCEPT ![r] = "none"]
    <2>1. slot[r] # "none" /\ Wake(pl, st, sl)
        BY <1>2 DEF FreeAndWake
    <2>2. pl \in Pools /\ st \in [Runs -> Statuses] /\ sl \in Releasers
        BY <2>1, FreedSlot
    <2>3. status[r] \in {"granted", "abandoning", "running"} /\ r \notin waiters
        BY <2>1 DEF IInv, Consistent, Queued
    <2>4. \A q \in Runs : status[q] = "waiting" => st[q] = "waiting"
        BY <2>3 DEF IInv, TypeOK
    <2>5. \A q \in Runs : sl[q] = slot[q] \/ (slot[q] # "none" /\ sl[q] = "none" /\ q \notin waiters)
        BY <2>1, <2>3 DEF IInv, TypeOK
    <2> HIDE DEF pl, st, sl
    <2> QED BY <2>1, <2>2, <2>4, <2>5
<1>3. RemovePair => slot' = slot
    BY DEF RemovePair
<1>4. ASSUME NEW r \in Runs,
             \/ AcquireGuaranteed(r) \/ AcquireExtra(r) \/ AcquireQueued(r)
             \/ Resume(r) \/ Cancel(r) \/ Unqueue(r) \/ HandBack(r) \/ Release(r)
      PROVE  slot' = slot \/ AcquireGuaranteed(r) \/ AcquireExtra(r) \/ FreeAndWake(r)
    BY <1>4 DEF AcquireQueued, Resume, Cancel, Unqueue, HandBack, Release
<1> QED BY <1>1, <1>2, <1>3, <1>4 DEF Next

\* An acquire that is granted at once leaves the counters within the limits, too,
\* and finds no call of its pair in the queue.
LEMMA AcquireGrants ==
    ASSUME IInv, NEW r \in Runs, AcquireGuaranteed(r) \/ AcquireExtra(r)
    PROVE  /\ \A q \in Runs : q \in waiters /\ status[q] = "waiting" => PairOf[q] # PairOf[r]
           /\ \A q \in Runs \ {r} : slot'[q] = slot[q]
           /\ slot'[r] = "extra" =>
                /\ pool'.running[PairOf[r]] <= Resolve(PairLimit[PairOf[r]], pool'.pairs)
                /\ ExtraLimit # NoLimit => pool'.extras_running <= Resolve(ExtraLimit, pool'.pairs)
<1>1. MayRun(pool, r)
    BY DEF AcquireGuaranteed, AcquireExtra, MayRun
<1>2. \A q \in Runs : q \in waiters /\ status[q] = "waiting" => PairOf[q] # PairOf[r]
    BY <1>1 DEF IInv, NoLostWakeup, MayRun
<1>3. \A q \in Runs \ {r} : slot'[q] = slot[q]
    BY DEF AcquireGuaranteed, AcquireExtra, Start, IInv, TypeOK
<1>4. ASSUME slot'[r] = "extra"
      PROVE  /\ pool'.running[PairOf[r]] <= Resolve(PairLimit[PairOf[r]], pool'.pairs)
             /\ ExtraLimit # NoLimit => pool'.extras_running <= Resolve(ExtraLimit, pool'.pairs)
    <2> DEFINE p == PairOf[r]
    <2>1. p \in Pairs /\ pool \in Pools
        BY PairOfRun DEF IInv, TypeOK
    <2>2. AcquireExtra(r) /\ Start(r, "extra")
        BY <1>4 DEF AcquireGuaranteed, AcquireExtra, Start, IInv, TypeOK
    <2>3. MayRunExtra(p, pool.running[p], pool.extras_running, pool.pairs)
        BY <1>1, <2>2 DEF AcquireExtra, MayRun
    <2>4. /\ pool'.running[p] = pool.running[p] + 1
          /\ pool'.extras_running = pool.extras_running + 1 /\ pool'.pairs = pool.pairs
        BY <2>1, <2>2 DEF Start, PoolTaking, Pools
    <2>5. /\ pool.running[p] \in Nat /\ pool.extras_running \in Nat
          /\ Resolve(PairLimit[p], pool.pairs) \in Nat
          /\ ExtraLimit # NoLimit => Resolve(ExtraLimit, pool.pairs) \in Nat
        BY <2>1, ResolveNat, LimitsParsed DEF Pools
    <2> QED BY <2>3, <2>4, <2>5 DEF MayRunExtra, ExtraRoom
<1> QED BY <1>2, <1>3, <1>4

\* A step that grants an extra run leaves its pair and the pool within their
\* limits, as they resolve at that moment (_try, _wake).
THEOREM GrantedWithinLimits == Spec => GrantsWithinLimits
<1> DEFINE A == \A r \in Runs :
                    (slot'[r] = "extra" /\ slot[r] # "extra") =>
                        /\ pool'.running[PairOf[r]] <= Resolve(PairLimit[PairOf[r]], pool'.pairs)
                        /\ ExtraLimit # NoLimit => pool'.extras_running <= Resolve(ExtraLimit, pool'.pairs)
<1>1. ASSUME IInv, Next PROVE A
    <2>1. CASE slot' = slot
        BY <2>1
    <2>2. ASSUME NEW r \in Runs, AcquireGuaranteed(r) \/ AcquireExtra(r) PROVE A
        BY <1>1, <2>2, AcquireGrants
    <2>3. ASSUME NEW pl \in Pools, NEW st \in [Runs -> Statuses], NEW sl \in Releasers, Wake(pl, st, sl),
                 \A r \in Runs : sl[r] = slot[r] \/ (slot[r] # "none" /\ sl[r] = "none" /\ r \notin waiters)
          PROVE  A
        BY <1>1, <2>3, WakeGrants DEF IInv
    <2> HIDE DEF A
    <2> QED BY <1>1, <2>1, <2>2, <2>3, StepsThatGrant
<1>2. IInv /\ [Next]_vars => [A]_vars
    BY <1>1
<1> QED BY <1>2, Invariance, PTL DEF Spec, GrantsWithinLimits

\* A call that is granted a slot leaves no call of its pair waiting that came
\* before it: neither a pass of _wake nor an acquire lets one overtake another.
THEOREM FirstComeFirstServed == Spec => FifoWithinPair
<1> DEFINE A == \A r, q \in Runs :
                    /\ slot[r] = "none" /\ slot'[r] # "none" /\ PairOf[q] = PairOf[r]
                    /\ q \in waiters /\ status[q] = "waiting"
                    /\ r \in waiters => q \in before[r]
                    => q \notin waiters'
<1>1. ASSUME IInv, Next PROVE A
    <2>1. CASE slot' = slot
        BY <2>1
    <2>2. ASSUME NEW r \in Runs, AcquireGuaranteed(r) \/ AcquireExtra(r) PROVE A
        BY <1>1, <2>2, AcquireGrants
    <2>3. ASSUME NEW pl \in Pools, NEW st \in [Runs -> Statuses], NEW sl \in Releasers, Wake(pl, st, sl),
                 \A r \in Runs : status[r] = "waiting" => st[r] = "waiting",
                 \A r \in Runs : sl[r] = slot[r] \/ (slot[r] # "none" /\ sl[r] = "none" /\ r \notin waiters)
          PROVE  A
        BY <1>1, <2>3, WakeGrants DEF IInv
    <2> HIDE DEF A
    <2> QED BY <1>1, <2>1, <2>2, <2>3, StepsThatGrant
<1>2. IInv /\ [Next]_vars => [A]_vars
    BY <1>1
<1> QED BY <1>2, Invariance, PTL DEF Spec, FifoWithinPair
=============================================================================
