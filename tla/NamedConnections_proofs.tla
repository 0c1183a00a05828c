----------------------- MODULE NamedConnections_proofs -----------------------
(***************************************************************************)
(* Theorems about the named connections of an agent, for any names,        *)
(* versions and bounds: what a reconcile supersedes is retired, new before *)
(* old; what still runs on a retired connection is revoked; and what reads *)
(* as ready delivers.  All of it until the client is closed.               *)
(***************************************************************************)
EXTENDS NamedConnections, FunctionTheorems, FiniteSetTheorems, TLAPS

-----------------------------------------------------------------------------
(* The inductive invariant.                                                *)

Pending == {"named", "made"}
Active == {"names", "replacing", "removing"}
Comparing == {"names", "replacing"}
Retired(x) == retire.at # "off" /\ (x = retire.b \/ x = retire.next)

\* Who holds the change lock, and what goes on under it.
Turns ==
    /\ lock = "reconcile" <=> rec.at \in Active
    /\ lock = "pause" <=> call.at = "draining"
    /\ lock = "retirement" => retire.at # "off" /\ retire.next = None
    /\ retire.at # "off" => lock = "retirement" \/ rec.at \in {"replacing", "removing"}
    /\ rec.at = "replacing" => retire.at # "off" /\ retire.next = None /\ bind[retire.b].superseded
    /\ rec.at = "replacing" <=> \E y \in Ids : bind[y].state = "made"

\* A loop is that of a binding in use; what is bound has replaced what it was to.
Loops ==
    \A x \in Ids :
        /\ bind[x].state \in Pending => bind[x].name \in Names
        /\ bind[x].loop # "off" => bind[x].state = "named" /\ x # retire.b
        /\ bind[x].loop \notin {"off", "ready"} => ~bind[x].bound
        /\ bind[x].state = "made" => ~bind[x].bound /\ ~bind[x].ready /\ ~bind[x].superseded
        /\ bind[x].state \in Pending /\ (bind[x].superseded \/ bind[x].bound) => bind[x].replaces = None
        /\ bind[x].ready => bind[x].link = "up"

\* What is being retired.
Leaving ==
    /\ retire.at = "off" <=> retire.b = None
    /\ retire.at # "off" =>
        LET r == bind[retire.b] IN
        /\ r.state = "named" /\ ~r.bound /\ ~r.ready /\ r.replaces = None
        /\ retire.at \in {"waiting", "closing"} => r.sub = "none"
        /\ retire.at = "closing" /\ r.runs > 0 => r.revoked \/ r.lost
    /\ retire.next # None =>
        /\ retire.at # "off" /\ retire.next # retire.b
        /\ bind[retire.next].state = "named" /\ bind[retire.next].superseded
    /\ \A x \in Ids : bind[x].state = "gone" =>
        bind[x].link = "closed" /\ (bind[x].runs > 0 => bind[x].revoked \/ bind[x].lost)

\* What is superseded awaits its retirement, in one place only.
Awaited(x) == \E y \in Ids : bind[y].state \in Pending /\ bind[y].replaces = x
Superseded ==
    /\ \A x \in Ids : bind[x].state = "named" /\ bind[x].superseded =>
        Awaited(x) \/ x \in retirements \/ Retired(x)
    /\ \A y \in Ids : bind[y].state \in Pending /\ bind[y].replaces # None =>
        LET x == bind[y].replaces IN
        /\ bind[x].state = "named" /\ bind[x].superseded /\ bind[x].name = bind[y].name
        /\ x \notin retirements /\ ~Retired(x)
    /\ \A y, z \in Ids :
        bind[y].state \in Pending /\ bind[z].state \in Pending
        /\ bind[y].replaces # None /\ bind[y].replaces = bind[z].replaces => y = z
    /\ \A x \in retirements : bind[x].state = "named" /\ bind[x].superseded /\ ~Retired(x)

\* A name's one binding that is not superseded, as a reconcile found it.
Newest(x) == bind[x].state = "named" /\ ~bind[x].superseded
Compared(n) == n \in rec.todo \/ rec.wanted[n] = 0
OneEach ==
    /\ \A x, y \in Ids : Newest(x) /\ Newest(y) /\ bind[x].name = bind[y].name => x = y
    /\ \A y \in Ids : bind[y].state = "made" =>
        /\ bind[y].name \in rec.todo
        /\ \A x \in Ids : Newest(x) => bind[x].name # bind[y].name
        /\ \A z \in Ids : bind[z].state = "made" => y = z
    /\ rec.at \in Comparing => \A n \in rec.todo : rec.wanted[n] # 0
    /\ rec.at \in Comparing => \A n \in Names : Compared(n) =>
        \/ \E y \in Ids : bind[y].state = "made" /\ bind[y].name = n
        \/ rec.current[n] = None /\ \A x \in Ids : Newest(x) => bind[x].name # n
        \/ rec.current[n] # None /\ Newest(rec.current[n]) /\ bind[rec.current[n]].name = n
    /\ rec.at = "removing" => \A x \in rec.gone : Newest(x) /\ x # retire.b
    /\ lock \in {"free", "pause", "retirement"} \/ rec.at = "removing" => pairs = Cardinality(Named)

\* Pauses and resumes.
Calls ==
    /\ call.at \in {"resuming", "trying"} \/ call.retry = "locking" => ~flag.paused
    /\ call.at \in {"pausing", "draining"} => flag.paused /\ call.retry = "off"
    /\ flag.paused \/ call.at # "off" \/ call.retry # "off" => given = Names
    /\ \/ flag.paused \/ call.at = "resuming" \/ call.retry = "locking"
       \/ \A x \in Named : (bind[x].ready \/ bind[x].bound) /\ bind[x].loop = "off" =>
             bind[x].sub # "none" \/ bind[x].lost

\* What is at work for a name that neither a removal nor a pause has touched.
Kept(y, n) ==
    /\ bind[y].state = "named" /\ bind[y].name = n /\ bind[y].bound
    /\ y \notin retirements /\ ~Retired(y)
Untouched ==
    /\ \A x \in Ids : bind[x].state = "named" /\ bind[x].name \notin given /\ bind[x].loop # "off" =>
        ~bind[x].bound /\ ~bind[x].superseded
    /\ rec.at \in Comparing =>
        /\ \A y \in rec.created : Newest(y) /\ bind[y].loop = "off" /\ ~bind[y].bound
        /\ \A n \in rec.todo : rec.current[n] \notin rec.created
        /\ \A n \in rec.todo : source[n] = 0 => n \in given
        /\ \A n \in Names : rec.wanted[n] = 0 /\ rec.current[n] # None => n \in given
    /\ rec.at = "removing" => \A x \in rec.gone : bind[x].name \in given
    /\ retire.next # None => bind[retire.next].name \in given
    /\ \A x \in Ids : bind[x].state \in Pending /\ source[bind[x].name] = 0 => bind[x].name \in given
    /\ \A x \in retirements : bind[x].name \in given \/ \E y \in Ids : Kept(y, bind[x].name)

Open == Turns /\ Loops /\ Leaving /\ Superseded /\ OneEach /\ Calls /\ Untouched
IInv == TypeOK /\ (flag.closing \/ Open)

-----------------------------------------------------------------------------
(* Steps of one binding that leave what it is, and everybody else, alone.   *)

Alike(r, s) == r.state = s.state /\ r.name = s.name /\ r.superseded = s.superseded /\ r.replaces = s.replaces

\* What is said of the bindings as they are kept, and not of their links.
LEMMA SupersededStays ==
    ASSUME TypeOK, Superseded, \A y \in Ids : Alike(bind[y], bind'[y]), retirements' = retirements,
           retire'.b = retire.b, retire'.next = retire.next, retire'.at = "off" <=> retire.at = "off"
    PROVE  Superseded'
<1>0. \A y \in Ids : bind[y].replaces \in Ids \union {None}
    BY DEF TypeOK, Binding
<1>1. \A y \in Ids : /\ bind'[y].state = bind[y].state /\ bind'[y].name = bind[y].name
                     /\ bind'[y].superseded = bind[y].superseded /\ bind'[y].replaces = bind[y].replaces
    BY DEF Alike
<1>2. \A x : Awaited(x)' <=> Awaited(x)
    BY <1>1 DEF Awaited
<1>3. \A x : Retired(x)' <=> Retired(x)
    BY DEF Retired
<1>4. \A x \in Ids : bind'[x].state = "named" /\ bind'[x].superseded =>
            Awaited(x)' \/ x \in retirements' \/ Retired(x)'
    BY <1>1, <1>2, <1>3 DEF Superseded
<1>5. ASSUME NEW y \in Ids, bind'[y].state \in Pending, bind'[y].replaces # None,
             NEW x, x = bind'[y].replaces
      PROVE  /\ bind'[x].state = "named" /\ bind'[x].superseded /\ bind'[x].name = bind'[y].name
             /\ x \notin retirements' /\ ~Retired(x)'
    <2>1. x \in Ids /\ bind[y].state \in Pending /\ x = bind[y].replaces /\ x # None
        BY <1>0, <1>1, <1>5
    <2>2. bind[x].state = "named" /\ bind[x].superseded /\ bind[x].name = bind[y].name
          /\ x \notin retirements /\ ~Retired(x)
        BY <2>1 DEF Superseded
    <2> QED BY <1>1, <1>3, <2>1, <2>2
<1>6. \A y, z \in Ids :
            bind'[y].state \in Pending /\ bind'[z].state \in Pending
            /\ bind'[y].replaces # None /\ bind'[y].replaces = bind'[z].replaces => y = z
    BY <1>1 DEF Superseded
<1>7. \A x \in retirements' : bind'[x].state = "named" /\ bind'[x].superseded /\ ~Retired(x)'
    BY <1>1, <1>3 DEF Superseded, TypeOK
<1> QED BY <1>4, <1>5, <1>6, <1>7 DEF Superseded

LEMMA OneEachStays ==
    ASSUME TypeOK, OneEach, UNCHANGED <<lock, rec, pairs>>, retire'.b = retire.b,
           \A y \in Ids : bind'[y].state = bind[y].state /\ bind'[y].name = bind[y].name
                          /\ bind'[y].superseded = bind[y].superseded
    PROVE  OneEach'
<1>0. rec.gone \subseteq Ids /\ rec.todo \subseteq Names /\ \A n \in Names : rec.current[n] \in Ids \union {None}
    BY DEF TypeOK, Reconcile
<1>1. \A y \in Ids : bind'[y].state = bind[y].state /\ bind'[y].name = bind[y].name
    OBVIOUS
<1>2. \A x \in Ids : Newest(x)' <=> Newest(x)
    BY DEF Newest
<1>3. Named' = Named
    BY <1>1 DEF Named
<1>4. \A x, y \in Ids : Newest(x)' /\ Newest(y)' /\ bind'[x].name = bind'[y].name => x = y
    BY <1>1, <1>2 DEF OneEach
<1>5. \A y \in Ids : bind'[y].state = "made" =>
        /\ bind'[y].name \in rec'.todo
        /\ \A x \in Ids : Newest(x)' => bind'[x].name # bind'[y].name
        /\ \A z \in Ids : bind'[z].state = "made" => y = z
    BY <1>1, <1>2 DEF OneEach
<1>6. rec'.at \in Comparing => \A n \in rec'.todo : rec'.wanted[n] # 0
    BY DEF OneEach
<1>7. rec'.at \in Comparing => \A n \in Names : Compared(n)' =>
        \/ \E y \in Ids : bind'[y].state = "made" /\ bind'[y].name = n
        \/ rec'.current[n] = None /\ \A x \in Ids : Newest(x)' => bind'[x].name # n
        \/ rec'.current[n] # None /\ Newest(rec.current[n])' /\ bind'[rec'.current[n]].name = n
    BY <1>0, <1>1, <1>2 DEF OneEach, Compared
<1>8. rec'.at = "removing" => \A x \in rec'.gone : Newest(x)' /\ x # retire'.b
    BY <1>0, <1>2 DEF OneEach
<1>9. lock' \in {"free", "pause", "retirement"} \/ rec'.at = "removing" => pairs' = Cardinality(Named')
    BY <1>3 DEF OneEach
<1> QED BY <1>4, <1>5, <1>6, <1>7, <1>8, <1>9 DEF OneEach

\* What such a step may make of binding x.
Own(x, r) ==
    /\ Alike(bind[x], r)
    /\ bind[x].loop = "off" => r.loop = "off" /\ r.bound = bind[x].bound
    /\ r.bound => bind[x].bound
    /\ r.loop \notin {"off", "ready"} => ~r.bound
    /\ r.ready => r.link = "up" /\ (bind[x].ready \/ (r.state = "named" /\ x # retire.b))
    /\ \/ flag.paused \/ call.at = "resuming" \/ call.retry = "locking"
       \/ r.state = "named" /\ (r.ready \/ r.bound) /\ r.loop = "off" => r.sub # "none" \/ r.lost
    /\ x = retire.b =>
        /\ retire'.at \in {"waiting", "closing"} => r.sub = "none"
        /\ retire'.at = "closing" /\ r.runs > 0 => r.revoked \/ r.lost
    /\ r.state = "gone" => r.link = "closed" /\ (r.runs > 0 => r.revoked \/ r.lost)

Aside(x) ==
    /\ UNCHANGED <<source, maps, lock, rec, retirements, pairs, given>>
    /\ flag' \in Flag /\ flag'.paused = flag.paused /\ flag'.closing = flag.closing
    /\ call' \in Call /\ call'.at = call.at /\ call'.retry = call.retry
    /\ retire' \in Retirement /\ retire'.b = retire.b /\ retire'.next = retire.next
    /\ retire'.at = "off" <=> retire.at = "off"
    /\ retire' = retire \/ x = retire.b
    /\ budget' \in Budget

LEMMA OwnStep ==
    ASSUME IInv, NEW x \in Ids, NEW r \in Binding, bind' = [bind EXCEPT ![x] = r], Aside(x),
           flag.closing \/ Own(x, r)
    PROVE  IInv'
<1>0. /\ bind \in [Ids -> Binding] /\ bind' \in [Ids -> Binding] /\ bind'[x] = r
      /\ \A y \in Ids : y # x => bind'[y] = bind[y]
    BY DEF IInv, TypeOK
<1>1. TypeOK'
    BY <1>0 DEF IInv, TypeOK, Aside
<1>2. CASE flag.closing
    BY <1>1, <1>2 DEF IInv, Aside
<1>3. CASE ~flag.closing
    <2>0. Open /\ Own(x, r)
        BY <1>3 DEF IInv
    <2>1. \A y \in Ids : Alike(bind[y], bind'[y])
        BY <1>0, <2>0 DEF Alike, Own
    <2>2. /\ UNCHANGED <<source, maps, lock, rec, retirements, pairs, given>>
          /\ flag'.paused = flag.paused /\ call'.at = call.at /\ call'.retry = call.retry
          /\ retire'.b = retire.b /\ retire'.next = retire.next
          /\ retire'.at = "off" <=> retire.at = "off"
        BY DEF Aside
    <2>3. Turns'
        BY <2>0, <2>1, <2>2 DEF Open, Turns, Alike
    <2>4. Superseded'
        BY <2>0, <2>1, <2>2, SupersededStays DEF IInv, Open
    <2>5. Named' = Named
        BY <2>1 DEF Named, Alike
    <2>6. OneEach'
        BY <2>0, <2>1, <2>2, OneEachStays DEF IInv, Open, Alike
    <2>7. Loops'
        BY <1>0, <2>0, <2>1, <2>2 DEF Open, Loops, Own, Alike
    <2>8. Leaving'
        BY <1>0, <2>0, <2>1, <2>2 DEF Open, Leaving, Own, Alike, Aside
    <2>9. Calls'
        BY <1>0, <2>0, <2>1, <2>2, <2>5 DEF Open, Calls, Own, Alike, Named
    <2>10. Untouched'
        BY <1>0, <2>0, <2>1, <2>2 DEF Open, Untouched, Own, Alike, Newest, Kept, Retired
    <2> QED BY <1>1, <2>3, <2>4, <2>6, <2>7, <2>8, <2>9, <2>10 DEF IInv, Open
<1> QED BY <1>2, <1>3

LEMMA Spends ==
    ASSUME IInv, Fault
    PROVE  budget' \in Budget /\ given' = given
<1>1. budget \in Budget /\ budget.faults \in Nat \ {0}
    BY DEF IInv, TypeOK, Budget, Fault
<1>2. [budget EXCEPT !.faults = budget.faults - 1] \in Budget
    BY <1>1 DEF Budget
<1> QED BY <1>2 DEF Fault

LEMMA LoopGoesOn ==
    ASSUME IInv, NEW x \in Ids, LoopSteps(x) \/ LoopFaults(x), ~Binds(x)
    PROVE  IInv'
<1>0. bind \in [Ids -> Binding] /\ bind[x] \in Binding /\ flag \in Flag /\ call \in Call /\ retire \in Retirement
      /\ budget \in Budget
    BY DEF IInv, TypeOK
<1> DEFINE Becomes(r) == r \in Binding /\ bind' = [bind EXCEPT ![x] = r] /\ (flag.closing \/ Own(x, r))
<1>1. ASSUME NEW r \in Binding, bind' = [bind EXCEPT ![x] = r], Alike(bind[x], r),
             bind[x].loop # "off", r.bound => bind[x].bound,
             r.loop \notin {"off", "ready"} => ~r.bound,
             r.ready => bind[x].ready /\ r.link = "up",
             \/ flag.paused
             \/ r.loop = "off" => ~r.ready /\ ~r.bound
      PROVE  flag.closing \/ Own(x, r)
    <2> SUFFICES ASSUME ~flag.closing PROVE Own(x, r)
        OBVIOUS
    <2>1. Loops /\ Leaving
        BY DEF IInv, Open
    <2>2. x # retire.b /\ r.state = "named"
        BY <1>1, <2>1 DEF Loops, Alike
    <2> QED BY <1>1, <2>2 DEF Own
<1>2. bind[x].ready => bind[x].link = "up" \/ flag.closing
    BY DEF IInv, Open, Loops
<1>3. bind[x].loop \notin {"off", "ready"} => ~bind[x].bound \/ flag.closing
    BY DEF IInv, Open, Loops
<1>4. CASE Attempt(x)
    <2> DEFINE s == [bind[x] EXCEPT !.bound = FALSE]
               opening == [s EXCEPT !.loop = "opening"]
               off == [s EXCEPT !.loop = "off"]
               on == [s EXCEPT !.loop = "subscribing", !.sub = "none", !.lost = @ \/ s.sub = "listed"]
    <2>1. Aside(x)
        BY <1>0, <1>4 DEF Aside, Attempt
    <2>2. CASE bind[x].link = "none"
        <3>1. opening \in Binding /\ Alike(bind[x], opening) /\ ~opening.bound /\ opening.loop = "opening"
              /\ opening.ready = bind[x].ready /\ opening.link = bind[x].link
            BY <1>0 DEF Binding, Alike
        <3>2. s.link = "none"
            BY <1>0, <2>2 DEF Binding
        <3>3. bind' = [bind EXCEPT ![x] = opening] /\ bind[x].loop # "off"
            BY <1>4, <3>2 DEF Attempt, Changes
        <3> HIDE DEF opening
        <3> QED BY <1>1, <1>2, <2>1, <3>1, <3>3, OwnStep
    <2>3. CASE bind[x].link # "none" /\ flag.paused
        <3>1. off \in Binding /\ Alike(bind[x], off) /\ ~off.bound /\ off.loop = "off"
              /\ off.ready = bind[x].ready /\ off.link = bind[x].link
            BY <1>0 DEF Binding, Alike
        <3>2. bind' = [bind EXCEPT ![x] = off] /\ bind[x].loop # "off"
            BY <1>4, <2>3 DEF Attempt, Changes, Proceeds
        <3> HIDE DEF off
        <3> QED BY <1>1, <1>2, <2>1, <2>3, <3>1, <3>2, OwnStep
    <2>4. CASE bind[x].link # "none" /\ ~flag.paused
        <3>1. on \in Binding /\ Alike(bind[x], on) /\ ~on.bound /\ on.loop = "subscribing"
              /\ on.ready = bind[x].ready /\ on.link = bind[x].link
            BY <1>0 DEF Binding, Alike
        <3>2. bind' = [bind EXCEPT ![x] = on] /\ bind[x].loop # "off"
            BY <1>4, <2>4 DEF Attempt, Changes, Proceeds
        <3> HIDE DEF on
        <3> QED BY <1>1, <1>2, <2>1, <3>1, <3>2, OwnStep
    <2> QED BY <2>2, <2>3, <2>4
<1>5. CASE Opens(x)
    <2> DEFINE s == [bind[x] EXCEPT !.link = "up"]
               off == [s EXCEPT !.loop = "off"]
               on == [s EXCEPT !.loop = "subscribing", !.sub = "none", !.lost = @ \/ s.sub = "listed"]
    <2>1. Aside(x)
        BY <1>0, <1>5 DEF Aside, Opens
    <2>2. CASE flag.paused
        <3>1. off \in Binding /\ Alike(bind[x], off) /\ off.loop = "off"
              /\ off.bound = bind[x].bound /\ off.ready = bind[x].ready /\ off.link = "up"
            BY <1>0 DEF Binding, Alike
        <3>2. bind' = [bind EXCEPT ![x] = off] /\ bind[x].loop # "off"
            BY <1>5, <2>2 DEF Opens, Changes, Proceeds
        <3> HIDE DEF off
        <3> QED BY <1>1, <2>1, <2>2, <3>1, <3>2, OwnStep
    <2>3. CASE ~flag.paused
        <3>1. on \in Binding /\ Alike(bind[x], on) /\ on.loop = "subscribing"
              /\ on.bound = bind[x].bound /\ on.ready = bind[x].ready /\ on.link = "up"
            BY <1>0 DEF Binding, Alike
        <3>2. bind' = [bind EXCEPT ![x] = on] /\ bind[x].loop = "opening"
            BY <1>5, <2>3 DEF Opens, Changes, Proceeds
        <3> HIDE DEF on
        <3> QED BY <1>1, <1>3, <2>1, <3>1, <3>2, OwnStep
    <2> QED BY <2>2, <2>3
<1>6. CASE OpenFails(x)
    <2> DEFINE r == [bind[x] EXCEPT !.ready = FALSE, !.loop = "sleeping"]
    <2>1. r \in Binding /\ Alike(bind[x], r) /\ r.loop = "sleeping" /\ ~r.ready /\ r.bound = bind[x].bound
        BY <1>0 DEF Binding, Alike
    <2>2. bind' = [bind EXCEPT ![x] = r] /\ bind[x].loop # "off"
        BY <1>6 DEF OpenFails, Changes
    <2>3. Aside(x)
        BY <1>0, <1>6, Spends DEF Aside, OpenFails, Flag
    <2> HIDE DEF r
    <2> QED BY <1>1, <1>2, <1>3, <1>6, <2>1, <2>2, <2>3, OwnStep DEF OpenFails
<1>7. CASE LoginRefused(x)
    <2> DEFINE r == [bind[x] EXCEPT !.failed = TRUE]
    <2>1. r \in Binding /\ Alike(bind[x], r) /\ r.loop = bind[x].loop /\ r.ready = bind[x].ready
          /\ r.link = bind[x].link /\ r.bound = bind[x].bound
        BY <1>0 DEF Binding, Alike
    <2>2. bind' = [bind EXCEPT ![x] = r] /\ bind[x].loop # "off"
        BY <1>7 DEF LoginRefused, Changes
    <2>3. Aside(x)
        BY <1>0, <1>7, Spends DEF Aside, LoginRefused, Flag
    <2> HIDE DEF r
    <2> QED BY <1>1, <1>2, <1>3, <1>7, <2>1, <2>2, <2>3, OwnStep DEF LoginRefused
<1>8. CASE Subscribes(x)
    <2> DEFINE r == [bind[x] EXCEPT !.loop = "flushing", !.sub = "unlisted"]
    <2>1. r \in Binding /\ Alike(bind[x], r) /\ r.loop = "flushing" /\ r.ready = bind[x].ready
          /\ r.link = bind[x].link /\ r.bound = bind[x].bound
        BY <1>0 DEF Binding, Alike
    <2>2. bind' = [bind EXCEPT ![x] = r] /\ bind[x].loop # "off"
        BY <1>8 DEF Subscribes, Changes
    <2>3. Aside(x)
        BY <1>0, <1>8 DEF Aside, Subscribes, Flag
    <2> HIDE DEF r
    <2> QED BY <1>1, <1>2, <1>3, <1>8, <2>1, <2>2, <2>3, OwnStep DEF Subscribes
<1>9. CASE BindFails(x)
    <2> DEFINE r == [bind[x] EXCEPT !.ready = FALSE, !.loop = "sleeping", !.sub = "none",
                                   !.lost = @ \/ bind[x].sub = "unlisted"]
    <2>1. r \in Binding /\ Alike(bind[x], r) /\ r.loop = "sleeping" /\ ~r.ready /\ r.bound = bind[x].bound
        BY <1>0 DEF Binding, Alike
    <2>2. bind' = [bind EXCEPT ![x] = r] /\ bind[x].loop # "off"
        BY <1>9 DEF BindFails, Changes
    <2>3. Aside(x)
        BY <1>0, <1>9, Spends DEF Aside, BindFails, Flag
    <2> HIDE DEF r
    <2> QED BY <1>1, <1>2, <1>3, <1>9, <2>1, <2>2, <2>3, OwnStep DEF BindFails
<1>10. CASE BindRefused(x)
    <2> DEFINE r == [bind[x] EXCEPT !.ready = FALSE, !.failed = TRUE, !.loop = "off", !.sub = "none"]
    <2>1. r \in Binding /\ Alike(bind[x], r) /\ r.loop = "off" /\ ~r.ready /\ r.bound = bind[x].bound
        BY <1>0 DEF Binding, Alike
    <2>2. bind' = [bind EXCEPT ![x] = r] /\ bind[x].loop # "off"
        BY <1>10 DEF BindRefused, Changes
    <2>3. Aside(x)
        BY <1>0, <1>10, Spends DEF Aside, BindRefused, Flag
    <2> HIDE DEF r
    <2> QED BY <1>1, <1>2, <1>3, <1>10, <2>1, <2>2, <2>3, OwnStep DEF BindRefused
<1>11. CASE Wakes(x)
    <2> DEFINE r == [bind[x] EXCEPT !.loop = "ready"]
    <2>1. r \in Binding /\ Alike(bind[x], r) /\ r.loop = "ready" /\ r.ready = bind[x].ready
          /\ r.link = bind[x].link /\ r.bound = bind[x].bound
        BY <1>0 DEF Binding, Alike
    <2>2. bind' = [bind EXCEPT ![x] = r] /\ bind[x].loop # "off"
        BY <1>11 DEF Wakes, Changes
    <2>3. Aside(x)
        BY <1>0, <1>11 DEF Aside, Wakes, Flag
    <2> HIDE DEF r
    <2> QED BY <1>1, <1>2, <1>3, <1>11, <2>1, <2>2, <2>3, OwnStep DEF Wakes
<1> QED BY <1>4, <1>5, <1>6, <1>7, <1>8, <1>9, <1>10, <1>11 DEF LoopSteps, LoopFaults

\* The broker's callbacks, the runs, a pause and a retirement: what they change besides.
LEMMA OthersGoOn ==
    ASSUME IInv, NEW x \in Ids,
           \/ Disconnects(x) \/ Reconnects(x) \/ ReconnectRefused(x)
           \/ RunStarts(x) \/ RunEnds(x) \/ PauseDrains(x)
           \/ (RetireDrains \/ RetireWaits) /\ x = retire.b
    PROVE  IInv'
<1>0. bind \in [Ids -> Binding] /\ bind[x] \in Binding /\ flag \in Flag /\ call \in Call /\ retire \in Retirement
      /\ budget \in Budget
    BY DEF IInv, TypeOK
<1>1. ASSUME ~flag.closing
      PROVE  /\ Turns /\ Calls
             /\ bind[x].loop \notin {"off", "ready"} => ~bind[x].bound
             /\ bind[x].ready => bind[x].link = "up"
             /\ bind[x].state \in Pending /\ (bind[x].superseded \/ bind[x].bound) => bind[x].replaces = None
             /\ x = retire.b /\ retire.at # "off" =>
                    /\ ~bind[x].bound /\ ~bind[x].ready /\ bind[x].state = "named"
                    /\ retire.at \in {"waiting", "closing"} => bind[x].sub = "none"
                    /\ retire.at = "closing" /\ bind[x].runs > 0 => bind[x].revoked \/ bind[x].lost
             /\ bind[x].state = "gone" =>
                    bind[x].link = "closed" /\ (bind[x].runs > 0 => bind[x].revoked \/ bind[x].lost)
             /\ \/ flag.paused \/ call.at = "resuming" \/ call.retry = "locking"
                \/ bind[x].state = "named" /\ (bind[x].ready \/ bind[x].bound) /\ bind[x].loop = "off" =>
                      bind[x].sub # "none" \/ bind[x].lost
             /\ retire.b = x => retire.at # "off"
    BY <1>1, <1>0 DEF IInv, Open, Loops, Leaving, Calls, Named, Ids, None
<1>2. CASE Disconnects(x)
    <2> DEFINE r == [bind[x] EXCEPT !.link = "down", !.ready = FALSE]
    <2>1. r \in Binding /\ Alike(bind[x], r) /\ r.loop = bind[x].loop /\ r.bound = bind[x].bound
          /\ r.link = "down" /\ ~r.ready /\ r.sub = bind[x].sub /\ r.lost = bind[x].lost
          /\ r.runs = bind[x].runs /\ r.revoked = bind[x].revoked
        BY <1>0 DEF Binding, Alike
    <2>2. bind' = [bind EXCEPT ![x] = r] /\ retire' = retire /\ bind[x].link = "up"
        BY <1>0, <1>2 DEF Disconnects, Changes, Live, Fault
    <2>3. Aside(x)
        BY <1>0, <1>2, Spends DEF Aside, Disconnects
    <2> HIDE DEF r
    <2>4. ASSUME ~flag.closing PROVE Own(x, r)
        <3> USE <1>1, <2>1, <2>2, <2>4 DEF Alike
        <3>1. r.loop \notin {"off", "ready"} => ~r.bound
            OBVIOUS
        <3>2. r.ready => r.link = "up" /\ (bind[x].ready \/ (r.state = "named" /\ x # retire.b))
            OBVIOUS
        <3>3. \/ flag.paused \/ call.at = "resuming" \/ call.retry = "locking"
              \/ r.state = "named" /\ (r.ready \/ r.bound) /\ r.loop = "off" => r.sub # "none" \/ r.lost
            OBVIOUS
        <3>4. x = retire.b =>
                /\ retire'.at \in {"waiting", "closing"} => r.sub = "none"
                /\ retire'.at = "closing" /\ r.runs > 0 => r.revoked \/ r.lost
            BY <1>0
        <3>5. r.state = "gone" => r.link = "closed" /\ (r.runs > 0 => r.revoked \/ r.lost)
            BY <1>0
        <3> QED BY <3>1, <3>2, <3>3, <3>4, <3>5 DEF Own
    <2> QED BY <2>1, <2>2, <2>3, <2>4, OwnStep
<1>3. CASE Reconnects(x)
    <2> DEFINE r == [bind[x] EXCEPT !.link = "up",
                    !.ready = @ \/ (bind[x].state = "named" /\ bind[x].bound /\ ~flag.paused)]
    <2>1. r \in Binding /\ Alike(bind[x], r) /\ r.loop = bind[x].loop /\ r.bound = bind[x].bound
          /\ r.link = "up" /\ r.sub = bind[x].sub /\ r.lost = bind[x].lost /\ r.runs = bind[x].runs
          /\ r.revoked = bind[x].revoked
          /\ (r.ready <=> bind[x].ready \/ (bind[x].state = "named" /\ bind[x].bound /\ ~flag.paused))
        BY <1>0 DEF Binding, Alike
    <2>2. bind' = [bind EXCEPT ![x] = r] /\ retire' = retire /\ bind[x].link = "down"
        BY <1>0, <1>3 DEF Reconnects, Changes, Live, Fault
    <2>3. Aside(x)
        BY <1>0, <1>3 DEF Aside, Reconnects
    <2> HIDE DEF r
    <2>4. ASSUME ~flag.closing PROVE Own(x, r)
        <3> USE <1>1, <2>1, <2>2, <2>4 DEF Alike
        <3>1. r.loop \notin {"off", "ready"} => ~r.bound
            OBVIOUS
        <3>2. r.ready => r.link = "up" /\ (bind[x].ready \/ (r.state = "named" /\ x # retire.b))
            OBVIOUS
        <3>3. \/ flag.paused \/ call.at = "resuming" \/ call.retry = "locking"
              \/ r.state = "named" /\ (r.ready \/ r.bound) /\ r.loop = "off" => r.sub # "none" \/ r.lost
            OBVIOUS
        <3>4. x = retire.b =>
                /\ retire'.at \in {"waiting", "closing"} => r.sub = "none"
                /\ retire'.at = "closing" /\ r.runs > 0 => r.revoked \/ r.lost
            BY <1>0
        <3>5. r.state = "gone" => r.link = "closed" /\ (r.runs > 0 => r.revoked \/ r.lost)
            BY <1>0
        <3> QED BY <3>1, <3>2, <3>3, <3>4, <3>5 DEF Own
    <2> QED BY <2>1, <2>2, <2>3, <2>4, OwnStep
<1>4. CASE RunStarts(x)
    <2> DEFINE r == [bind[x] EXCEPT !.runs = 1]
    <2>1. r \in Binding /\ Alike(bind[x], r) /\ r.loop = bind[x].loop /\ r.bound = bind[x].bound
          /\ r.runs = 1 /\ r.link = bind[x].link /\ r.ready = bind[x].ready /\ r.sub = bind[x].sub
          /\ r.lost = bind[x].lost /\ r.revoked = bind[x].revoked
        BY <1>0 DEF Binding, Alike
    <2>2. bind' = [bind EXCEPT ![x] = r] /\ retire' = retire /\ bind[x].link = "up"
          /\ (bind[x].sub # "none" \/ bind[x].lost)
        BY <1>0, <1>4 DEF RunStarts, Changes, Live, Fault
    <2>6. budget' \in Budget
        <3>1. budget.runs \in Nat \ {0} /\ budget' = [budget EXCEPT !.runs = budget.runs - 1]
            BY <1>0, <1>4 DEF Budget, RunStarts
        <3>2. [budget EXCEPT !.runs = budget.runs - 1] \in Budget
            BY <1>0, <3>1 DEF Budget
        <3> QED BY <3>1, <3>2
    <2>3. Aside(x)
        BY <1>0, <1>4, <2>6 DEF Aside, RunStarts
    <2> HIDE DEF r
    <2>4. ASSUME ~flag.closing PROVE Own(x, r)
        <3> USE <1>1, <2>1, <2>2, <2>4 DEF Alike
        <3>1. r.loop \notin {"off", "ready"} => ~r.bound
            OBVIOUS
        <3>2. r.ready => r.link = "up" /\ (bind[x].ready \/ (r.state = "named" /\ x # retire.b))
            OBVIOUS
        <3>3. \/ flag.paused \/ call.at = "resuming" \/ call.retry = "locking"
              \/ r.state = "named" /\ (r.ready \/ r.bound) /\ r.loop = "off" => r.sub # "none" \/ r.lost
            OBVIOUS
        <3>4. x = retire.b =>
                /\ retire'.at \in {"waiting", "closing"} => r.sub = "none"
                /\ retire'.at = "closing" /\ r.runs > 0 => r.revoked \/ r.lost
            BY <1>0
        <3>5. r.state = "gone" => r.link = "closed" /\ (r.runs > 0 => r.revoked \/ r.lost)
            BY <1>0
        <3> QED BY <3>1, <3>2, <3>3, <3>4, <3>5 DEF Own
    <2> QED BY <2>1, <2>2, <2>3, <2>4, OwnStep
<1>5. CASE RunEnds(x)
    <2> DEFINE r == [bind[x] EXCEPT !.runs = 0]
    <2>1. r \in Binding /\ Alike(bind[x], r) /\ r.loop = bind[x].loop /\ r.bound = bind[x].bound
          /\ r.runs = 0 /\ r.link = bind[x].link /\ r.ready = bind[x].ready /\ r.sub = bind[x].sub
          /\ r.lost = bind[x].lost /\ r.revoked = bind[x].revoked
        BY <1>0 DEF Binding, Alike
    <2>2. bind' = [bind EXCEPT ![x] = r] /\ retire' = retire
        BY <1>0, <1>5 DEF RunEnds, Changes, Live, Fault
    <2>3. Aside(x)
        BY <1>0, <1>5 DEF Aside, RunEnds
    <2> HIDE DEF r
    <2>4. ASSUME ~flag.closing PROVE Own(x, r)
        <3> USE <1>1, <2>1, <2>2, <2>4 DEF Alike
        <3>1. r.loop \notin {"off", "ready"} => ~r.bound
            OBVIOUS
        <3>2. r.ready => r.link = "up" /\ (bind[x].ready \/ (r.state = "named" /\ x # retire.b))
            OBVIOUS
        <3>3. \/ flag.paused \/ call.at = "resuming" \/ call.retry = "locking"
              \/ r.state = "named" /\ (r.ready \/ r.bound) /\ r.loop = "off" => r.sub # "none" \/ r.lost
            OBVIOUS
        <3>4. x = retire.b =>
                /\ retire'.at \in {"waiting", "closing"} => r.sub = "none"
                /\ retire'.at = "closing" /\ r.runs > 0 => r.revoked \/ r.lost
            BY <1>0
        <3>5. r.state = "gone" => r.link = "closed" /\ (r.runs > 0 => r.revoked \/ r.lost)
            BY <1>0
        <3> QED BY <3>1, <3>2, <3>3, <3>4, <3>5 DEF Own
    <2> QED BY <2>1, <2>2, <2>3, <2>4, OwnStep
<1>6. CASE PauseDrains(x)
    <2> DEFINE r == [bind[x] EXCEPT !.ready = FALSE, !.sub = IF @ = "listed" THEN "none" ELSE @]
    <2>1. r \in Binding /\ Alike(bind[x], r) /\ r.loop = bind[x].loop /\ r.bound = bind[x].bound
          /\ ~r.ready /\ r.sub \in {bind[x].sub, "none"} /\ r.link = bind[x].link /\ r.lost = bind[x].lost
          /\ r.runs = bind[x].runs /\ r.revoked = bind[x].revoked
        BY <1>0 DEF Binding, Alike
    <2>2. bind' = [bind EXCEPT ![x] = r] /\ retire' = retire /\ call.at = "draining"
        BY <1>0, <1>6 DEF PauseDrains, Changes, Live, Fault
    <2>3. Aside(x)
        BY <1>0, <1>6 DEF Aside, PauseDrains, Call
    <2> HIDE DEF r
    <2>4. ASSUME ~flag.closing PROVE Own(x, r)
        <3> USE <1>1, <2>1, <2>2, <2>4 DEF Alike
        <3>1. r.loop \notin {"off", "ready"} => ~r.bound
            OBVIOUS
        <3>2. r.ready => r.link = "up" /\ (bind[x].ready \/ (r.state = "named" /\ x # retire.b))
            OBVIOUS
        <3>3. \/ flag.paused \/ call.at = "resuming" \/ call.retry = "locking"
              \/ r.state = "named" /\ (r.ready \/ r.bound) /\ r.loop = "off" => r.sub # "none" \/ r.lost
            BY DEF Calls
        <3>4. x = retire.b =>
                /\ retire'.at \in {"waiting", "closing"} => r.sub = "none"
                /\ retire'.at = "closing" /\ r.runs > 0 => r.revoked \/ r.lost
            BY <1>0
        <3>5. r.state = "gone" => r.link = "closed" /\ (r.runs > 0 => r.revoked \/ r.lost)
            BY <1>0
        <3> QED BY <3>1, <3>2, <3>3, <3>4, <3>5 DEF Own
    <2> QED BY <2>1, <2>2, <2>3, <2>4, OwnStep
<1>7. CASE RetireDrains /\ x = retire.b
    <2> DEFINE r == [bind[x] EXCEPT !.sub = "none"]
    <2>1. r \in Binding /\ Alike(bind[x], r) /\ r.loop = bind[x].loop /\ r.bound = bind[x].bound
          /\ r.sub = "none" /\ r.link = bind[x].link /\ r.ready = bind[x].ready /\ r.lost = bind[x].lost
          /\ r.runs = bind[x].runs /\ r.revoked = bind[x].revoked
        BY <1>0 DEF Binding, Alike
    <2>2. bind' = [bind EXCEPT ![x] = r] /\ retire' = [retire EXCEPT !.at = "waiting"] /\ x = retire.b
          /\ retire'.at = "waiting" /\ retire.at = "draining"
        BY <1>0, <1>7 DEF RetireDrains, Changes, Live, Fault, Retirement
    <2>3. Aside(x)
        BY <1>0, <1>7 DEF Aside, RetireDrains, Retirement
    <2> HIDE DEF r
    <2>4. ASSUME ~flag.closing PROVE Own(x, r)
        <3> USE <1>1, <2>1, <2>2, <2>4 DEF Alike
        <3>1. r.loop \notin {"off", "ready"} => ~r.bound
            OBVIOUS
        <3>2. r.ready => r.link = "up" /\ (bind[x].ready \/ (r.state = "named" /\ x # retire.b))
            OBVIOUS
        <3>3. \/ flag.paused \/ call.at = "resuming" \/ call.retry = "locking"
              \/ r.state = "named" /\ (r.ready \/ r.bound) /\ r.loop = "off" => r.sub # "none" \/ r.lost
            OBVIOUS
        <3>4. x = retire.b =>
                /\ retire'.at \in {"waiting", "closing"} => r.sub = "none"
                /\ retire'.at = "closing" /\ r.runs > 0 => r.revoked \/ r.lost
            BY <1>0
        <3>5. r.state = "gone" => r.link = "closed" /\ (r.runs > 0 => r.revoked \/ r.lost)
            BY <1>0
        <3> QED BY <3>1, <3>2, <3>3, <3>4, <3>5 DEF Own
    <2> QED BY <2>1, <2>2, <2>3, <2>4, OwnStep
<1>8. CASE RetireWaits /\ x = retire.b
    <2> DEFINE r == [bind[x] EXCEPT !.revoked = bind[x].runs > 0]
    <2>1. r \in Binding /\ Alike(bind[x], r) /\ r.loop = bind[x].loop /\ r.bound = bind[x].bound
          /\ (r.revoked <=> bind[x].runs > 0) /\ r.link = bind[x].link /\ r.ready = bind[x].ready
          /\ r.lost = bind[x].lost /\ r.runs = bind[x].runs /\ r.sub = bind[x].sub
        BY <1>0, (bind[x].runs > 0) \in BOOLEAN DEF Binding, Alike
    <2>2. bind' = [bind EXCEPT ![x] = r] /\ retire' = [retire EXCEPT !.at = "closing"] /\ x = retire.b
          /\ retire'.at = "closing" /\ retire.at = "waiting"
        BY <1>0, <1>8 DEF RetireWaits, Changes, Live, Fault, Retirement
    <2>3. Aside(x)
        BY <1>0, <1>8 DEF Aside, RetireWaits, Retirement
    <2> HIDE DEF r
    <2>4. ASSUME ~flag.closing PROVE Own(x, r)
        <3> USE <1>1, <2>1, <2>2, <2>4 DEF Alike
        <3>1. r.loop \notin {"off", "ready"} => ~r.bound
            OBVIOUS
        <3>2. r.ready => r.link = "up" /\ (bind[x].ready \/ (r.state = "named" /\ x # retire.b))
            OBVIOUS
        <3>3. \/ flag.paused \/ call.at = "resuming" \/ call.retry = "locking"
              \/ r.state = "named" /\ (r.ready \/ r.bound) /\ r.loop = "off" => r.sub # "none" \/ r.lost
            OBVIOUS
        <3>4. x = retire.b =>
                /\ retire'.at \in {"waiting", "closing"} => r.sub = "none"
                /\ retire'.at = "closing" /\ r.runs > 0 => r.revoked \/ r.lost
            BY <1>0
        <3>5. r.state = "gone" => r.link = "closed" /\ (r.runs > 0 => r.revoked \/ r.lost)
            BY <1>0
        <3> QED BY <3>1, <3>2, <3>3, <3>4, <3>5 DEF Own
    <2> QED BY <2>1, <2>2, <2>3, <2>4, OwnStep
<1>9. CASE ReconnectRefused(x)
    <2> DEFINE r == [bind[x] EXCEPT !.failed = TRUE]
    <2>1. r \in Binding /\ Alike(bind[x], r) /\ r.loop = bind[x].loop /\ r.bound = bind[x].bound
          /\ r.link = bind[x].link /\ r.ready = bind[x].ready /\ r.sub = bind[x].sub /\ r.lost = bind[x].lost
          /\ r.runs = bind[x].runs /\ r.revoked = bind[x].revoked
        BY <1>0 DEF Binding, Alike
    <2>2. bind' = [bind EXCEPT ![x] = r] /\ retire' = retire /\ ~bind[x].ready /\ bind[x].link = "down"
        BY <1>0, <1>9 DEF ReconnectRefused, Changes, Live, Fault
    <2>3. Aside(x)
        BY <1>0, <1>9, Spends DEF Aside, ReconnectRefused, Flag
    <2> HIDE DEF r
    <2>4. ASSUME ~flag.closing PROVE Own(x, r)
        <3> USE <1>1, <2>1, <2>2, <2>4 DEF Alike
        <3>1. r.loop \notin {"off", "ready"} => ~r.bound
            OBVIOUS
        <3>2. r.ready => r.link = "up" /\ (bind[x].ready \/ (r.state = "named" /\ x # retire.b))
            OBVIOUS
        <3>3. \/ flag.paused \/ call.at = "resuming" \/ call.retry = "locking"
              \/ r.state = "named" /\ (r.ready \/ r.bound) /\ r.loop = "off" => r.sub # "none" \/ r.lost
            OBVIOUS
        <3>4. x = retire.b =>
                /\ retire'.at \in {"waiting", "closing"} => r.sub = "none"
                /\ retire'.at = "closing" /\ r.runs > 0 => r.revoked \/ r.lost
            BY <1>0
        <3>5. r.state = "gone" => r.link = "closed" /\ (r.runs > 0 => r.revoked \/ r.lost)
            BY <1>0
        <3> QED BY <3>1, <3>2, <3>3, <3>4, <3>5 DEF Own
    <2> QED BY <2>1, <2>2, <2>3, <2>4, OwnStep
<1> QED BY <1>2, <1>3, <1>4, <1>5, <1>6, <1>7, <1>8, <1>9

-----------------------------------------------------------------------------
(* Steps that leave the bindings, and what is at work on them, alone.       *)

LEMMA BindingsStay ==
    ASSUME IInv, TypeOK', UNCHANGED <<source, bind, rec, retire, retirements, pairs>>, given \subseteq given',
           flag.closing => flag'.closing,
           ~flag'.closing => Turns' /\ Calls',
           lock' \in {"free", "pause", "retirement"} => lock \in {"free", "pause", "retirement"}
    PROVE  IInv'
<1> SUFFICES ASSUME ~flag'.closing, Open PROVE Open'
    BY DEF IInv
<1>1. Loops' /\ Leaving' /\ Superseded'
    BY DEF Open, Loops, Leaving, Superseded, Awaited, Retired
<1>2. OneEach'
    <2>1. Named' = Named
        BY DEF Named
    <2> QED BY <2>1 DEF Open, OneEach, Newest, Compared
<1>3. Untouched'
    BY DEF Open, Untouched, Newest, Kept, Retired
<1> QED BY <1>1, <1>2, <1>3 DEF Open

LEMMA CallsGoOn ==
    ASSUME IInv,
           \/ PauseBegin \/ PauseLocks \/ PauseEnds \/ ResumeBegin \/ ResumeDone \/ ResumeFails \/ RetrySucceeds
    PROVE  IInv'
<1>0. TypeOK /\ call \in Call /\ flag \in Flag /\ budget \in Budget
    BY DEF IInv, TypeOK
<1>1. UNCHANGED <<source, maps, bind, rec, retire, retirements, pairs>> /\ flag'.closing = flag.closing
    BY <1>0 DEF PauseBegin, PauseLocks, PauseEnds, ResumeBegin, ResumeDone, ResumeFails, RetrySucceeds, Flag
<1>2. given' = given \/ given' = Names
    BY Spends DEF PauseBegin, PauseLocks, PauseEnds, ResumeBegin, ResumeDone, ResumeFails, RetrySucceeds
<1>3. call' \in Call /\ flag' \in Flag
    <2>1. Named \subseteq Ids
        BY DEF Named
    <2> QED BY <1>0, <2>1 DEF PauseBegin, PauseLocks, PauseEnds, ResumeBegin, ResumeDone, ResumeFails,
               RetrySucceeds, Flag, Call
<1>4. budget' \in Budget
    <2>1. ASSUME PauseBegin PROVE budget' \in Budget
        <3>1. budget.pauses \in Nat \ {0} /\ budget' = [budget EXCEPT !.pauses = budget.pauses - 1]
            BY <1>0, <2>1 DEF Budget, PauseBegin
        <3>2. [budget EXCEPT !.pauses = budget.pauses - 1] \in Budget
            BY <1>0, <3>1 DEF Budget
        <3> QED BY <3>1, <3>2
    <2> QED BY <1>0, <2>1, Spends DEF PauseLocks, PauseEnds, ResumeBegin, ResumeDone, ResumeFails, RetrySucceeds
<1>5. lock' \in {lock, "free", "pause"} /\ (lock' # lock => lock \in {"free", "pause"} \/ flag.closing)
    BY DEF IInv, Open, Turns, PauseBegin, PauseLocks, PauseEnds, ResumeBegin, ResumeDone, ResumeFails, RetrySucceeds
<1>6. TypeOK'
    BY <1>0, <1>1, <1>2, <1>3, <1>4, <1>5 DEF TypeOK
<1>7. ASSUME ~flag'.closing PROVE Turns' /\ Calls'
    <2>0. Turns /\ Calls /\ Named' = Named
        BY <1>1, <1>7 DEF IInv, Open, Named
    \* The pause flag, and how far the call and the retry are.
    <2>1. CASE PauseBegin
        <3>1. flag'.paused /\ call'.retry = "off" /\ call'.at \in {"off", "pausing"} /\ call.at = "off"
              /\ given' = Names /\ lock' = lock
            BY <1>0, <2>1 DEF PauseBegin, Flag, Call
        <3> QED BY <1>1, <2>0, <3>1 DEF Turns, Calls
    <2>2. CASE PauseLocks
        <3>1. flag' = flag /\ call'.retry = call.retry /\ call'.at = "draining" /\ call.at = "pausing"
              /\ given' = given /\ lock' = "pause" /\ lock = "free"
            BY <1>0, <2>2 DEF PauseLocks, Flag, Call
        <3> QED BY <1>1, <2>0, <3>1 DEF Turns, Calls
    <2>3. CASE PauseEnds
        <3>1. flag' = flag /\ call'.retry = call.retry /\ call'.at = "off" /\ call.at = "draining"
              /\ given' = given /\ lock' = "free"
            BY <1>0, <2>3 DEF PauseEnds, Flag, Call
        <3> QED BY <1>1, <2>0, <3>1 DEF Turns, Calls
    <2>4. CASE ResumeBegin
        <3>1. ~flag'.paused /\ flag.paused /\ call'.retry = call.retry /\ call'.at = "resuming" /\ call.at = "off"
              /\ given' = given /\ lock' = lock
            BY <1>0, <2>4 DEF ResumeBegin, Flag, Call
        <3> QED BY <1>1, <2>0, <3>1 DEF Turns, Calls
    <2>5. CASE ResumeDone
        <3>1. ~flag'.paused /\ call'.retry = call.retry /\ call'.at = "off" /\ call.at = "trying"
              /\ given' = given /\ lock' = lock
            BY <1>0, <2>5 DEF ResumeDone, Flag, Call
        <3> QED BY <1>1, <2>0, <3>1 DEF Turns, Calls
    <2>6. CASE ResumeFails
        <3>1. flag'.paused /\ call'.retry = "sleeping" /\ call'.at = "off" /\ call.at = "trying"
              /\ given' = given /\ lock' = lock
            BY <1>0, <2>6, Spends DEF ResumeFails, Flag, Call
        <3> QED BY <1>1, <2>0, <3>1 DEF Turns, Calls
    <2>7. CASE RetrySucceeds
        <3>1. ~flag'.paused /\ call'.retry = "locking" /\ call.retry = "sleeping" /\ call'.at = call.at
              /\ given' = given /\ lock' = lock
            BY <1>0, <2>7 DEF RetrySucceeds, Flag, Call
        <3> QED BY <1>1, <2>0, <3>1 DEF Turns, Calls
    <2> QED BY <2>1, <2>2, <2>3, <2>4, <2>5, <2>6, <2>7
<1>8. given \subseteq given'
    BY <1>0, <1>2 DEF TypeOK
<1>9. lock' \in {"free", "pause", "retirement"} => lock \in {"free", "pause", "retirement"} \/ flag.closing
    BY <1>5
<1>10. CASE flag.closing
    BY <1>1, <1>6, <1>10 DEF IInv
<1>11. CASE ~flag.closing
    BY <1>1, <1>6, <1>7, <1>8, <1>9, <1>11, BindingsStay
<1> QED BY <1>10, <1>11

\* What the source's changes and the quiet steps of a reconcile leave as it is.
LEMMA OnlyTheReconcile ==
    ASSUME IInv, ~flag.closing, UNCHANGED <<bind, flag, retire, retirements, call, pairs>>,
           given \subseteq given', given' \subseteq Names,
           TypeOK', Turns', OneEach', Untouched'
    PROVE  IInv'
<1>1. Loops' /\ Leaving' /\ Superseded'
    BY DEF IInv, Open, Loops, Leaving, Superseded, Awaited, Retired
<1>2. Calls'
    BY DEF IInv, Open, Calls, Named
<1> QED BY <1>1, <1>2 DEF IInv, Open

LEMMA SourceStep ==
    ASSUME IInv, NEW n \in Names, NEW v \in 0..MaxVersion, SourceChanges(n, v)
    PROVE  IInv'
<1>0. TypeOK /\ source \in [Names -> 0..MaxVersion] /\ budget \in Budget /\ rec \in Reconcile
      /\ given \subseteq Names
    BY DEF IInv, TypeOK
<1>1. UNCHANGED <<maps, bind, flag, lock, retire, retirements, call, pairs>>
    BY DEF SourceChanges
<1>2. /\ rec'.at = rec.at \/ (rec.at = "off" /\ rec'.at = "locking")
      /\ rec'.todo = rec.todo /\ rec'.current = rec.current /\ rec'.wanted = rec.wanted
      /\ rec'.created = rec.created /\ rec'.gone = rec.gone /\ rec' \in Reconcile
    BY <1>0 DEF SourceChanges, Scheduled, Reconcile
<1>3. source' \in [Names -> 0..MaxVersion] /\ (v # 0 => source'[n] # 0) /\ (v = 0 => n \in given')
      /\ \A m \in Names \ {n} : source'[m] = source[m]
    BY <1>0 DEF SourceChanges
<1>4. given \subseteq given' /\ given' \subseteq Names
    BY <1>0 DEF SourceChanges
<1>5. budget' \in Budget
    <2>1. budget.changes \in Nat \ {0} /\ budget' = [budget EXCEPT !.changes = budget.changes - 1]
        BY <1>0 DEF Budget, SourceChanges
    <2>2. [budget EXCEPT !.changes = budget.changes - 1] \in Budget
        BY <1>0, <2>1 DEF Budget
    <2> QED BY <2>1, <2>2
<1>6. TypeOK'
    BY <1>0, <1>1, <1>2, <1>3, <1>4, <1>5 DEF TypeOK
<1>7. CASE flag.closing
    BY <1>1, <1>6, <1>7 DEF IInv
<1>8. CASE ~flag.closing
    <2>0. Open
        BY <1>8 DEF IInv
    <2>1. Turns'
        BY <1>1, <1>2, <2>0 DEF Open, Turns, Active
    <2>2. OneEach'
        <3>1. Named' = Named
            BY <1>1 DEF Named
        <3> QED BY <1>1, <1>2, <2>0, <3>1 DEF Open, OneEach, Newest, Compared, Comparing
    <2>3. Untouched'
        <3> USE <1>1, <1>2, <1>3, <1>4, <2>0 DEF Open
        <3>1. \A m \in Names : source'[m] = 0 => source[m] = 0 \/ m \in given'
            OBVIOUS
        <3>2. \A x \in Ids : bind[x].state \in Pending => bind[x].name \in Names
            BY DEF Loops
        <3> QED BY <1>0, <3>1, <3>2 DEF Untouched, Newest, Kept, Retired, Comparing, Reconcile
    <2> QED BY <1>1, <1>4, <1>6, <1>8, <2>1, <2>2, <2>3, OnlyTheReconcile
<1> QED BY <1>7, <1>8

LEMMA ReconcileLocksStep == ASSUME IInv, ReconcileLocks PROVE IInv'
<1>0. TypeOK /\ rec \in Reconcile /\ source \in [Names -> 0..MaxVersion] /\ given \subseteq Names
    BY DEF IInv, TypeOK
<1>1. /\ UNCHANGED <<source, maps, bind, flag, retire, retirements, call, pairs, budget, given>>
      /\ lock = "free" /\ lock' = "reconcile" /\ rec.at = "locking"
    BY DEF ReconcileLocks
<1> DEFINE found == [n \in Names |->
                        IF \E x \in Named : bind[x].name = n /\ ~bind[x].superseded
                        THEN CHOOSE x \in Named : bind[x].name = n /\ ~bind[x].superseded
                        ELSE None]
<1>2. found \in [Names -> Ids \cup {None}]
    BY DEF Named
<1>3. \A n \in Names :
        \/ found[n] = None /\ \A x \in Ids : Newest(x) => bind[x].name # n
        \/ found[n] \in Ids /\ Newest(found[n]) /\ bind[found[n]].name = n
    BY DEF Named, Newest
<1> HIDE DEF found
<1>4. /\ rec'.at = "names" /\ rec'.wanted = source /\ rec'.todo = {n \in Names : source[n] # 0}
      /\ rec'.created = {} /\ rec'.current = found /\ rec' \in Reconcile
    BY <1>0, <1>2 DEF ReconcileLocks, Reconcile, found
<1>5. TypeOK'
    BY <1>0, <1>1, <1>4 DEF TypeOK
<1>6. CASE flag.closing
    BY <1>1, <1>5, <1>6 DEF IInv
<1>7. CASE ~flag.closing
    <2>0. Open
        BY <1>7 DEF IInv
    <2>1. Turns' /\ ~\E y \in Ids : bind[y].state = "made"
        BY <1>1, <1>4, <2>0 DEF Open, Turns, Active
    <2>2. OneEach'
        BY <1>1, <1>3, <1>4, <2>0, <2>1 DEF Open, OneEach, Newest, Compared, Comparing, None, Ids
    <2>3. Untouched'
        BY <1>1, <1>3, <1>4, <2>0, <2>1 DEF Open, Untouched, Newest, Kept, Retired, Comparing, Pending
    <2> QED BY <1>0, <1>1, <1>5, <1>7, <2>1, <2>2, <2>3, OnlyTheReconcile
<1> QED BY <1>6, <1>7

LEMMA ReconcileGoesOn ==
    ASSUME IInv, ReconcileRaises \/ ReconcileEnds \/ \E n \in Names : Keeps(n)
    PROVE  IInv'
<1>0. TypeOK /\ rec \in Reconcile /\ given \subseteq Names
    BY DEF IInv, TypeOK
<1>1. UNCHANGED <<source, maps, bind, flag, retire, retirements, call, pairs, given>> /\ budget' \in Budget
    BY <1>0, Spends DEF TypeOK, ReconcileRaises, ReconcileEnds, Keeps
<1>2. /\ rec' \in Reconcile /\ rec'.todo \subseteq rec.todo /\ rec'.wanted = rec.wanted
      /\ rec'.current = rec.current
      /\ \/ rec.at = "locking" /\ rec'.at = "off" /\ lock = "free" /\ lock' = "free"
         \/ rec.at = "removing" /\ rec'.at \in {"off", "locking"} /\ lock' = "free" /\ retire.at = "off"
         \/ rec.at = "names" /\ rec'.at = "names" /\ lock' = lock /\ rec'.created = rec.created
    <2>1. CASE ReconcileRaises
        BY <1>0, <2>1 DEF ReconcileRaises, Reconcile
    <2>2. CASE ReconcileEnds
        BY <1>0, <2>2 DEF ReconcileEnds, Reconcile
    <2>3. CASE \E n \in Names : Keeps(n)
        BY <1>0, <2>3 DEF Keeps, Reconcile
    <2> QED BY <2>1, <2>2, <2>3
<1>3. TypeOK'
    BY <1>0, <1>1, <1>2 DEF TypeOK
<1>4. CASE flag.closing
    BY <1>1, <1>3, <1>4 DEF IInv
<1>5. CASE ~flag.closing
    <2>0. Open
        BY <1>5 DEF IInv
    <2>1. Turns' /\ (rec.at # "replacing" => ~\E y \in Ids : bind[y].state = "made")
        BY <1>1, <1>2, <2>0 DEF Open, Turns, Active
    <2>2. OneEach'
        <3>1. Named' = Named
            BY <1>1 DEF Named
        <3> QED BY <1>1, <1>2, <2>0, <2>1, <3>1 DEF Open, OneEach, Newest, Compared, Comparing
    <2>3. Untouched'
        BY <1>1, <1>2, <2>0, <2>1 DEF Open, Untouched, Newest, Kept, Retired, Comparing
    <2> QED BY <1>0, <1>1, <1>3, <1>5, <2>1, <2>2, <2>3, OnlyTheReconcile
<1> QED BY <1>4, <1>5

-----------------------------------------------------------------------------
(* Steps that start loops.                                                 *)

\* A binding but for its loop.
Alone(r, s) ==
    /\ r.bound = s.bound /\ r.ready = s.ready /\ r.link = s.link /\ r.sub = s.sub /\ r.lost = s.lost
    /\ r.runs = s.runs /\ r.revoked = s.revoked

LEMMA LinksStartedAre ==
    ASSUME bind \in [Ids -> Binding], NEW xs, NEW b, b = LinksStarted(bind, xs)
    PROVE  /\ b \in [Ids -> Binding]
           /\ \A x \in Ids : Alike(bind[x], b[x]) /\ Alone(bind[x], b[x])
           /\ \A x \in Ids :
                \/ b[x].loop = bind[x].loop
                \/ bind[x].loop = "off" /\ b[x].loop = "ready" /\ bind[x].state = "named" /\ x \in xs
           /\ \A x \in Ids : x \in xs /\ bind[x].state = "named" => b[x].loop # "off"
<1>1. ASSUME NEW x \in Ids
      PROVE  /\ b[x] \in Binding /\ Alike(bind[x], b[x]) /\ Alone(bind[x], b[x])
             /\ \/ b[x].loop = bind[x].loop
                \/ bind[x].loop = "off" /\ b[x].loop = "ready" /\ bind[x].state = "named" /\ x \in xs
             /\ x \in xs /\ bind[x].state = "named" => b[x].loop # "off"
    <2> DEFINE r == [bind[x] EXCEPT !.loop = "ready"]
    <2>1. bind[x] \in Binding /\ r \in Binding /\ Alike(bind[x], r) /\ Alone(bind[x], r) /\ r.loop = "ready"
        BY DEF Binding, Alike, Alone
    <2>2. b[x] = IF x \in xs /\ bind[x].state = "named" /\ bind[x].loop = "off" THEN r ELSE bind[x]
        BY DEF LinksStarted
    <2> HIDE DEF r
    <2> QED BY <2>1, <2>2 DEF Alike, Alone
<1>2. b = [x \in Ids |-> b[x]]
    BY DEF LinksStarted
<1> QED BY <1>1, <1>2

\* What starting loops keeps, when nothing is being retired.
LEMMA LoopsStart ==
    ASSUME IInv, ~flag.closing, retire.at = "off", NEW xs, bind' = LinksStarted(bind, xs),
           UNCHANGED <<flag, lock, retire, retirements, given>>
    PROVE  /\ Loops' /\ Leaving' /\ Superseded' /\ Named' = Named
           /\ \A x \in Ids : Alike(bind[x], bind'[x]) /\ Alone(bind[x], bind'[x])
           /\ \A x \in Ids :
                \/ bind'[x].loop = bind[x].loop
                \/ bind[x].loop = "off" /\ bind'[x].loop = "ready" /\ bind[x].state = "named" /\ x \in xs
           /\ \A x \in Ids : x \in xs /\ bind[x].state = "named" => bind'[x].loop # "off"
           /\ bind' \in [Ids -> Binding]
<1>0. Open /\ bind \in [Ids -> Binding]
    BY DEF IInv, TypeOK
<1>1. /\ bind' \in [Ids -> Binding]
      /\ \A x \in Ids : Alike(bind[x], bind'[x]) /\ Alone(bind[x], bind'[x])
      /\ \A x \in Ids :
                \/ bind'[x].loop = bind[x].loop
                \/ bind[x].loop = "off" /\ bind'[x].loop = "ready" /\ bind[x].state = "named" /\ x \in xs
      /\ \A x \in Ids : x \in xs /\ bind[x].state = "named" => bind'[x].loop # "off"
    BY <1>0, LinksStartedAre
<1>2. Loops'
    BY <1>0, <1>1 DEF Open, Loops, Leaving, Alike, Alone, None, Ids
<1>3. Leaving'
    BY <1>0, <1>1 DEF Open, Leaving, Alike, Alone
<1>4. Superseded'
    <2>1. \A x \in Ids : Alike(bind[x], bind'[x])
        BY <1>1
    <2> QED BY <1>0, <2>1, SupersededStays DEF IInv, Open
<1>5. Named' = Named
    BY <1>1 DEF Named, Alike
<1> QED BY <1>1, <1>2, <1>3, <1>4, <1>5

LEMMA ResumeStep == ASSUME IInv, ResumeLocks \/ RetryLocks PROVE IInv'
<1>0. TypeOK /\ call \in Call /\ bind \in [Ids -> Binding]
    BY DEF IInv, TypeOK
<1>1. /\ UNCHANGED <<source, maps, flag, lock, rec, retire, retirements, pairs, budget, given>>
      /\ bind' = LinksStarted(bind, Ids) /\ lock = "free"
    BY DEF ResumeLocks, RetryLocks
<1>2. /\ call' \in Call
      /\ \/ call.at = "resuming" /\ call'.at = "trying" /\ call'.retry = call.retry
         \/ call.retry = "locking" /\ call'.at = call.at /\ call'.retry = "off"
    BY <1>0 DEF ResumeLocks, RetryLocks, Call
<1>3. TypeOK'
    BY <1>0, <1>1, <1>2, LinksStartedAre DEF TypeOK
<1>4. CASE flag.closing
    BY <1>1, <1>3, <1>4 DEF IInv
<1>5. CASE ~flag.closing
    <2>0. Open
        BY <1>5 DEF IInv
    <2>1. retire.at = "off" /\ rec.at \notin Active
        BY <1>1, <2>0 DEF Open, Turns, Active
    <2>2. /\ Loops' /\ Leaving' /\ Superseded' /\ Named' = Named
          /\ \A x \in Ids : Alike(bind[x], bind'[x]) /\ Alone(bind[x], bind'[x])
          /\ \A x \in Ids : bind[x].state = "named" => bind'[x].loop # "off"
        BY <1>1, <1>5, <2>1, LoopsStart
    <2>3. Turns'
        BY <1>1, <1>2, <2>0, <2>1, <2>2 DEF Open, Turns, Active, Alike
    <2>4. OneEach'
        <3>1. \A x \in Ids : Alike(bind[x], bind'[x])
            BY <2>2
        <3>2. UNCHANGED <<rec, retire, pairs>>
            BY <1>1
        <3>3. lock' = lock
            BY <1>1
        <3> QED BY <2>0, <3>1, <3>2, <3>3, OneEachStays DEF IInv, Open, Alike
    <2>5. Calls'
        BY <1>1, <1>2, <2>0, <2>2 DEF Open, Calls, Named
    <2>6. Untouched'
        <3>1. given = Names
            BY <1>2, <2>0 DEF Open, Calls
        <3>2. \A x \in Ids : bind'[x].state \in Pending => bind'[x].name \in Names
            BY <2>2 DEF Loops
        <3>3. retire'.next = None /\ rec'.at \notin Comparing /\ rec'.at # "removing" /\ retirements' = retirements
            BY <1>1, <2>0, <2>1 DEF Open, Leaving, Active, Comparing
        <3>4. \A x \in retirements : bind'[x].name \in Names
            BY <1>0, <1>1, <2>2, <3>2 DEF Superseded, Pending, TypeOK
        <3> QED BY <1>1, <3>1, <3>2, <3>3, <3>4 DEF Untouched, Pending
    <2> QED BY <1>3, <2>2, <2>3, <2>4, <2>5, <2>6 DEF IInv, Open
<1> QED BY <1>4, <1>5

LEMMA ReconcileStartsStep == ASSUME IInv, ReconcileStarts PROVE IInv'
<1>0. TypeOK /\ rec \in Reconcile /\ bind \in [Ids -> Binding] /\ Named \subseteq Ids /\ retirements \subseteq Ids
    BY DEF IInv, TypeOK, Named
<1>1. /\ UNCHANGED <<source, maps, flag, lock, retire, retirements, call, budget, given>>
      /\ pairs' = Cardinality(Named) /\ rec.at = "names" /\ rec.todo = {}
      /\ \/ flag.paused /\ bind' = bind
         \/ ~flag.paused /\ bind' = LinksStarted(bind, rec.created)
    BY DEF ReconcileStarts
<1>2. /\ rec'.at = "removing" /\ rec'.created = rec.created /\ rec' \in Reconcile
      /\ rec'.gone = {rec.current[n] : n \in {m \in Names : rec.wanted[m] = 0}} \ {None}
    <2> DEFINE gone == {rec.current[n] : n \in {m \in Names : rec.wanted[m] = 0}} \ {None}
    <2>1. gone \in SUBSET Ids
        BY <1>0 DEF Reconcile
    <2>2. rec' = [rec EXCEPT !.at = "removing", !.gone = gone]
        BY DEF ReconcileStarts
    <2> HIDE DEF gone
    <2>3. rec'.at = "removing" /\ rec'.created = rec.created /\ rec' \in Reconcile /\ rec'.gone = gone
        BY <1>0, <2>1, <2>2 DEF Reconcile
    <2> QED BY <2>3 DEF gone
<1>3. pairs' \in 0..MaxBindings
    <2>1. MaxBindings \in Nat /\ IsFiniteSet(Ids) /\ Cardinality(Ids) = MaxBindings
        BY Sizes, FS_Interval DEF Ids
    <2> QED BY <1>0, <1>1, <2>1, FS_Subset, FS_CardinalityType
<1>4. TypeOK'
    BY <1>0, <1>1, <1>2, <1>3, LinksStartedAre DEF TypeOK
<1>5. CASE flag.closing
    BY <1>1, <1>4, <1>5 DEF IInv
<1>6. CASE ~flag.closing
    <2>0. Open
        BY <1>6 DEF IInv
    <2>1. retire.at = "off" /\ retire.next = None /\ lock = "reconcile" /\ ~\E y \in Ids : bind[y].state = "made"
        BY <1>1, <2>0 DEF Open, Turns, Leaving, Active
    <2>2. /\ Loops' /\ Leaving' /\ Superseded' /\ Named' = Named
          /\ \A x \in Ids : Alike(bind[x], bind'[x]) /\ Alone(bind[x], bind'[x])
          /\ \A x \in Ids :
                \/ bind'[x].loop = bind[x].loop
                \/ bind[x].loop = "off" /\ bind'[x].loop = "ready" /\ bind[x].state = "named" /\ x \in rec.created
        <3>1. CASE flag.paused
            BY <1>1, <2>0, <3>1 DEF Open, Loops, Leaving, Superseded, Awaited, Retired, Named, Alike, Alone
        <3>2. CASE ~flag.paused
            BY <1>1, <1>6, <2>1, <3>2, LoopsStart
        <3> QED BY <3>1, <3>2
    <2>3. Turns'
        BY <1>1, <1>2, <2>0, <2>1, <2>2 DEF Open, Turns, Alike, Active
    <2>4. \A x \in rec'.gone : Newest(x) /\ x # retire.b /\ bind[x].name \in given
        <3> SUFFICES ASSUME NEW n \in Names, rec.wanted[n] = 0, rec.current[n] # None
                     PROVE  Newest(rec.current[n]) /\ bind[rec.current[n]].name \in given
                           /\ rec.current[n] # retire.b
            BY <1>2
        <3>1. Newest(rec.current[n]) /\ bind[rec.current[n]].name = n
            BY <1>1, <2>0, <2>1 DEF Open, OneEach, Comparing, Compared
        <3>2. n \in given
            BY <1>1, <2>0 DEF Open, Untouched, Comparing
        <3>3. retire.b = None
            BY <2>0, <2>1 DEF Open, Leaving
        <3> QED BY <3>1, <3>2, <3>3
    <2>5. rec'.gone \subseteq Ids
        BY <1>2 DEF Reconcile
    <2>6. OneEach'
        <3>1. \A x \in Ids : Newest(x)' <=> Newest(x)
            BY <2>2 DEF Newest, Alike
        <3>2. \A x, y \in Ids : Newest(x)' /\ Newest(y)' /\ bind'[x].name = bind'[y].name => x = y
            BY <2>0, <2>2, <3>1 DEF Open, OneEach, Alike
        <3>3. ~\E y \in Ids : bind'[y].state = "made"
            BY <2>1, <2>2 DEF Alike
        <3>4. \A x \in rec'.gone : Newest(x)' /\ x # retire'.b
            BY <1>1, <2>4, <2>5, <3>1
        <3> QED BY <1>1, <1>2, <2>2, <3>2, <3>3, <3>4 DEF OneEach, Comparing
    <2>7. Calls'
        BY <1>1, <2>0, <2>2 DEF Open, Calls, Alike, Alone, Named
    <2>8. Untouched'
        <3>1. \A x \in Ids : bind'[x].state = "named" /\ bind'[x].name \notin given /\ bind'[x].loop # "off" =>
                 ~bind'[x].bound /\ ~bind'[x].superseded
            BY <1>1, <2>0, <2>2 DEF Open, Untouched, Alike, Alone, Comparing, Newest
        <3>2. \A x \in rec'.gone : bind'[x].name \in given
            BY <2>2, <2>4, <2>5 DEF Alike
        <3>3. \A x \in Ids : bind'[x].state \in Pending /\ source[bind'[x].name] = 0 => bind'[x].name \in given
            BY <2>0, <2>2 DEF Open, Untouched, Alike
        <3>4. \A x \in retirements : bind'[x].name \in given \/ \E y \in Ids : Kept(y, bind[x].name)'
            <4>1. \A y \in Ids : \A n \in Names \union {None} : Kept(y, n)' <=> Kept(y, n)
                BY <1>1, <2>2 DEF Kept, Alike, Alone, Retired
            <4>2. \A x \in retirements : bind'[x].name = bind[x].name /\ bind[x].name \in Names \union {None}
                BY <1>0, <2>2 DEF Alike, Binding
            <4>3. \A x \in retirements : bind[x].name \in given \/ \E y \in Ids : Kept(y, bind[x].name)
                BY <2>0 DEF Open, Untouched
            <4> QED BY <1>0, <4>1, <4>2, <4>3 DEF Kept
        <3> QED BY <1>1, <1>2, <2>1, <3>1, <3>2, <3>3, <3>4 DEF Untouched, Comparing
    <2> QED BY <1>4, <2>2, <2>3, <2>6, <2>7, <2>8 DEF IInv, Open
<1> QED BY <1>5, <1>6

-----------------------------------------------------------------------------
(* Steps that bind, replace and retire.                                    *)

\* What is known when a step of a reconcile or a retirement is taken.
LEMMA Known ==
    ASSUME IInv
    PROVE  /\ bind \in [Ids -> Binding] /\ rec \in Reconcile /\ retire \in Retirement /\ retirements \subseteq Ids
           /\ rec.todo \subseteq Names /\ rec.gone \subseteq Ids /\ rec.created \subseteq Ids
           /\ rec.wanted \in [Names -> 0..MaxVersion] /\ rec.current \in [Names -> Ids \union {None}]
           /\ \A x \in Ids : bind[x].replaces \in Ids \union {None} /\ bind[x].name \in Names \union {None}
           /\ retire.b \in Ids \union {None} /\ retire.next \in Ids \union {None}
           /\ None \notin Ids
           /\ ~flag.closing => Open
<1>1. bind \in [Ids -> Binding] /\ rec \in Reconcile /\ retire \in Retirement /\ retirements \subseteq Ids
    BY DEF IInv, TypeOK
<1>2. /\ rec.todo \subseteq Names /\ rec.gone \subseteq Ids /\ rec.created \subseteq Ids
      /\ rec.wanted \in [Names -> 0..MaxVersion] /\ rec.current \in [Names -> Ids \union {None}]
    BY <1>1 DEF Reconcile
<1>3. \A x \in Ids : bind[x].replaces \in Ids \union {None} /\ bind[x].name \in Names \union {None}
    BY <1>1 DEF Binding
<1>4. retire.b \in Ids \union {None} /\ retire.next \in Ids \union {None}
    BY <1>1 DEF Retirement
<1>5. None \notin Ids
    BY DEF None, Ids
<1>6. ~flag.closing => Open
    BY DEF IInv
<1> QED BY <1>1, <1>2, <1>3, <1>4, <1>5, <1>6

LEMMA PairsCounted ==
    ASSUME NEW S \in SUBSET Ids
    PROVE  Cardinality(S) \in 0..MaxBindings
<1>1. MaxBindings \in Nat /\ IsFiniteSet(Ids) /\ Cardinality(Ids) = MaxBindings
    BY Sizes, FS_Interval DEF Ids
<1> QED BY <1>1, FS_Subset, FS_CardinalityType

LEMMA StoppedIs ==
    ASSUME NEW r \in Binding
    PROVE  /\ Stopped(r) \in Binding /\ Alike(r, Stopped(r))
           /\ Stopped(r).loop = "off" /\ ~Stopped(r).ready /\ ~Stopped(r).bound /\ Stopped(r).link = r.link
           /\ Stopped(r).runs = r.runs /\ Stopped(r).revoked = r.revoked /\ (r.lost => Stopped(r).lost)
<1> DEFINE made == [r EXCEPT !.loop = "off", !.ready = FALSE, !.bound = FALSE, !.lost = TRUE, !.sub = "none"]
           other == [r EXCEPT !.loop = "off", !.ready = FALSE, !.bound = FALSE]
<1>1. made \in Binding /\ Alike(r, made) /\ made.loop = "off" /\ ~made.ready /\ ~made.bound
      /\ made.lost /\ made.sub = "none" /\ made.link = r.link /\ made.runs = r.runs /\ made.revoked = r.revoked
    BY DEF Binding, Alike
<1>2. other \in Binding /\ Alike(r, other) /\ other.loop = "off" /\ ~other.ready /\ ~other.bound
      /\ other.lost = r.lost /\ other.sub = r.sub
      /\ other.link = r.link /\ other.runs = r.runs /\ other.revoked = r.revoked
    BY DEF Binding, Alike
<1>3. CASE r.sub = "unlisted"
    <2>1. Stopped(r) = made
        BY <1>3 DEF Stopped, Binding
    <2> HIDE DEF made
    <2> QED BY <1>1, <2>1
<1>4. CASE r.sub # "unlisted"
    <2>1. Stopped(r) = other
        <3>1. r.lost \in BOOLEAN /\ (r.lost \/ r.sub = "unlisted") = r.lost
            BY <1>4 DEF Binding
        <3>2. [r EXCEPT !.loop = "off", !.ready = FALSE, !.bound = FALSE, !.lost = r.lost, !.sub = r.sub] = other
            BY DEF Binding
        <3> QED BY <1>4, <3>1, <3>2 DEF Stopped
    <2> HIDE DEF other
    <2> QED BY <1>2, <2>1
<1> QED BY <1>3, <1>4

LEMMA BindsStep == ASSUME IInv, NEW x \in Ids, Binds(x) PROVE IInv'
<1> DEFINE r == [bind[x] EXCEPT !.sub = "listed", !.bound = TRUE, !.ready = TRUE, !.failed = FALSE,
                                !.loop = "off", !.replaces = None]
           old == bind[x].replaces
<1>0. /\ bind \in [Ids -> Binding] /\ bind[x] \in Binding /\ old \in Ids \union {None} /\ None \notin Ids
      /\ retirements \subseteq Ids /\ \A y \in Ids : bind[y].replaces \in Ids \union {None}
    BY Known
<1>1. /\ r \in Binding /\ r.sub = "listed" /\ r.bound /\ r.ready /\ r.loop = "off" /\ r.replaces = None
      /\ r.state = bind[x].state /\ r.name = bind[x].name /\ r.superseded = bind[x].superseded
      /\ r.link = bind[x].link /\ r.runs = bind[x].runs /\ r.revoked = bind[x].revoked /\ r.lost = bind[x].lost
    BY <1>0 DEF Binding, None
<1>2. bind' = [bind EXCEPT ![x] = r] /\ bind[x].loop = "flushing" /\ bind[x].link = "up"
      /\ retirements' = retirements \union ({old} \ {None})
      /\ UNCHANGED <<source, maps, flag, lock, rec, retire, call, pairs, budget, given>>
    BY DEF Binds, Changes
<1> HIDE DEF r, old
<1>3. bind' \in [Ids -> Binding] /\ bind'[x] = r /\ \A y \in Ids \ {x} : bind'[y] = bind[y]
    BY <1>0, <1>1, <1>2
<1>4. TypeOK'
    BY <1>0, <1>2, <1>3 DEF IInv, TypeOK
<1>5. CASE flag.closing
    BY <1>2, <1>4, <1>5 DEF IInv
<1>6. CASE ~flag.closing
    <2>0. Open
        BY <1>6 DEF IInv
    <2>1. /\ bind[x].state = "named" /\ x # retire.b /\ ~bind[x].bound
          /\ \A y \in Ids : bind'[y].state = bind[y].state /\ bind'[y].name = bind[y].name
          /\ \A y \in Ids : bind'[y].superseded = bind[y].superseded
          /\ \A y \in Ids : bind'[y].replaces = IF y = x THEN None ELSE bind[y].replaces
        BY <1>1, <1>2, <1>3, <2>0 DEF Open, Loops
    <2>2. Turns'
        BY <1>2, <2>0, <2>1 DEF Open, Turns, Leaving
    <2>3. Loops'
        BY <1>1, <1>2, <1>3, <2>0, <2>1 DEF Open, Loops
    <2>4. Leaving'
        BY <1>1, <1>2, <1>3, <2>0, <2>1 DEF Open, Leaving
    <2>5. old # None => /\ bind[old].state = "named" /\ bind[old].superseded /\ bind[old].name = bind[x].name
                        /\ old \in Ids /\ old \notin retirements /\ ~Retired(old)
        BY <1>0, <2>0, <2>1 DEF Open, Superseded, old, Pending
    <2>6. Superseded'
        <3>1. \A y \in Ids : bind'[y].state = "named" /\ bind'[y].superseded =>
                Awaited(y)' \/ y \in retirements' \/ Retired(y)'
            <4> SUFFICES ASSUME NEW y \in Ids, bind[y].state = "named", bind[y].superseded
                         PROVE  Awaited(y)' \/ y \in retirements' \/ Retired(y)'
                BY <2>1
            <4>1. CASE Awaited(y)
                <5>1. PICK z \in Ids : bind[z].state \in Pending /\ bind[z].replaces = y
                    BY <4>1 DEF Awaited
                <5>2. CASE z = x
                    BY <1>0, <1>2, <5>1, <5>2 DEF old
                <5>3. CASE z # x
                    BY <2>1, <5>1, <5>3 DEF Awaited
                <5> QED BY <5>2, <5>3
            <4>2. CASE y \in retirements \/ Retired(y)
                BY <1>2, <4>2 DEF Retired
            <4> QED BY <2>0, <4>1, <4>2 DEF Open, Superseded
        <3>2. ASSUME NEW y \in Ids, bind'[y].state \in Pending, bind'[y].replaces # None,
                     NEW t, t = bind'[y].replaces
              PROVE  /\ bind'[t].state = "named" /\ bind'[t].superseded /\ bind'[t].name = bind'[y].name
                     /\ t \notin retirements' /\ ~Retired(t)'
            <4>1. y # x /\ t = bind[y].replaces /\ bind[y].state \in Pending /\ t # None /\ t \in Ids
                BY <1>0, <2>1, <3>2
            <4>2. bind[t].state = "named" /\ bind[t].superseded /\ bind[t].name = bind[y].name
                  /\ t \notin retirements /\ ~Retired(t)
                BY <2>0, <4>1 DEF Open, Superseded
            <4>3. t # old
                BY <2>0, <2>1, <4>1 DEF Open, Superseded, old, Pending
            <4> QED BY <1>2, <2>1, <4>1, <4>2, <4>3 DEF Retired
        <3>3. \A y, z \in Ids :
                bind'[y].state \in Pending /\ bind'[z].state \in Pending
                /\ bind'[y].replaces # None /\ bind'[y].replaces = bind'[z].replaces => y = z
            BY <2>0, <2>1 DEF Open, Superseded
        <3>4. \A y \in retirements' : bind'[y].state = "named" /\ bind'[y].superseded /\ ~Retired(y)'
            <4>1. \A y \in retirements : bind[y].state = "named" /\ bind[y].superseded /\ ~Retired(y) /\ y \in Ids
                BY <1>0, <2>0 DEF Open, Superseded
            <4> QED BY <1>2, <2>1, <2>5, <4>1 DEF Retired
        <3> QED BY <3>1, <3>2, <3>3, <3>4 DEF Superseded
    <2>7. OneEach'
        <3>1. UNCHANGED <<lock, rec, pairs>> /\ retire'.b = retire.b
            BY <1>2
        <3> QED BY <2>0, <2>1, <3>1, OneEachStays DEF IInv, Open
    <2>8. Calls'
        BY <1>1, <1>2, <1>3, <2>0, <2>1 DEF Open, Calls, Named
    <2>9. Untouched'
        <3>1. \A y \in Ids : Newest(y)' <=> Newest(y)
            BY <2>1 DEF Newest
        <3>2. \A y \in Ids : bind'[y].state = "named" /\ bind'[y].name \notin given /\ bind'[y].loop # "off" =>
                ~bind'[y].bound /\ ~bind'[y].superseded
            BY <1>1, <1>3, <2>0 DEF Open, Untouched
        <3>3. rec.at \in Comparing => x \notin rec.created
            BY <1>2, <2>0 DEF Open, Untouched
        <3>4. rec.at \in Comparing => \A y \in rec.created : Newest(y)' /\ bind'[y].loop = "off" /\ ~bind'[y].bound
            BY <1>3, <2>0, <3>1, <3>3, Known DEF Open, Untouched
        <3>5. ASSUME NEW t \in retirements', bind'[t].name \notin given
              PROVE  \E y \in Ids : Kept(y, bind[t].name)'
            <4>0. t \in Ids /\ bind[t].name \notin given
                BY <1>0, <1>2, <2>1, <2>5, <3>5
            <4>1. CASE bind[t].name = bind[x].name
                <5>1. ~bind[x].superseded
                    BY <1>2, <2>0, <2>1, <4>0, <4>1 DEF Open, Untouched
                <5>2. x \notin retirements /\ x # old /\ x # retire.next
                    BY <1>0, <2>0, <2>5, <5>1 DEF Open, Superseded, Leaving
                <5> QED BY <1>1, <1>2, <1>3, <2>1, <4>1, <5>2 DEF Kept, Retired
            <4>2. CASE bind[t].name # bind[x].name
                <5>1. t \in retirements
                    BY <1>2, <2>5, <4>2
                <5>2. PICK y \in Ids : Kept(y, bind[t].name)
                    BY <2>0, <4>0, <5>1 DEF Open, Untouched
                <5>3. y # x /\ y # old
                    BY <1>0, <2>5, <4>2, <5>2 DEF Kept
                <5>4. bind'[y] = bind[y] /\ bind'[t].name = bind[t].name
                    BY <1>3, <2>1, <4>0, <5>3
                <5>5. y \notin retirements' /\ ~Retired(y)'
                    BY <1>2, <5>2, <5>3 DEF Kept, Retired
                <5> QED BY <5>2, <5>4, <5>5 DEF Kept
            <4> QED BY <4>1, <4>2
        <3>6. \A t \in retirements' : bind'[t].name \in given \/ \E y \in Ids : Kept(y, bind[t].name)'
            BY <3>5
        <3>7. \A y \in Ids : bind'[y].state \in Pending /\ source[bind'[y].name] = 0 => bind'[y].name \in given
            BY <2>0, <2>1 DEF Open, Untouched
        <3>8. (rec.at = "removing" => \A y \in rec.gone : bind'[y].name \in given)
              /\ (retire.next # None => bind'[retire.next].name \in given)
            BY <2>0, <2>1, Known DEF Open, Untouched
        <3> QED BY <1>2, <2>0, <3>2, <3>4, <3>6, <3>7, <3>8 DEF Open, Untouched
    <2> QED BY <1>4, <2>2, <2>3, <2>4, <2>6, <2>7, <2>8, <2>9 DEF IInv, Open
<1> QED BY <1>5, <1>6

LEMMA RetirementLocksStep == ASSUME IInv, NEW x \in Ids, RetirementLocks(x) PROVE IInv'
<1> DEFINE r == Stopped(bind[x])
<1>0. /\ bind \in [Ids -> Binding] /\ bind[x] \in Binding /\ None \notin Ids /\ retirements \subseteq Ids
      /\ \A y \in Ids : bind[y].replaces \in Ids \union {None} /\ bind[y].name \in Names \union {None}
    BY Known
<1>1. /\ r \in Binding /\ r.loop = "off" /\ ~r.ready /\ ~r.bound /\ r.link = bind[x].link
      /\ r.state = bind[x].state /\ r.name = bind[x].name /\ r.superseded = bind[x].superseded
      /\ r.replaces = bind[x].replaces
    BY <1>0, StoppedIs DEF Alike
<1>2. /\ x \in retirements /\ lock = "free" /\ retirements' = retirements \ {x}
      /\ UNCHANGED <<source, maps, flag, rec, call, pairs, budget, given>>
      /\ \/ bind[x].state = "named" /\ lock' = "retirement" /\ retire' = Retiring(x, None)
            /\ bind' = [bind EXCEPT ![x] = r]
         \/ bind[x].state # "named" /\ UNCHANGED <<lock, retire, bind>>
    BY DEF RetirementLocks, Changes
<1> HIDE DEF r
<1>3. Retiring(x, None) \in Retirement
    BY DEF Retiring, Retirement
<1>4. TypeOK'
    BY <1>0, <1>1, <1>2, <1>3 DEF IInv, TypeOK
<1>5. CASE flag.closing
    BY <1>2, <1>4, <1>5 DEF IInv
<1>6. CASE ~flag.closing
    <2>0. Open
        BY <1>6 DEF IInv
    <2>1. /\ bind[x].state = "named" /\ bind[x].superseded /\ bind[x].replaces = None
          /\ retire.at = "off" /\ retire.b = None /\ rec.at \notin Active /\ call.at # "draining"
        BY <1>2, <2>0 DEF Open, Superseded, Turns, Leaving, Loops, Pending, Active
    <2>2. /\ bind' \in [Ids -> Binding] /\ bind'[x] = r /\ \A y \in Ids \ {x} : bind'[y] = bind[y]
          /\ retire'.at = "draining" /\ retire'.b = x /\ retire'.next = None /\ lock' = "retirement"
        BY <1>0, <1>1, <1>2, <2>1 DEF Retiring
    <2>3. \A y \in Ids : /\ bind'[y].state = bind[y].state /\ bind'[y].name = bind[y].name
                         /\ bind'[y].superseded = bind[y].superseded /\ bind'[y].replaces = bind[y].replaces
        BY <1>1, <2>2
    <2>4. \A y : Retired(y)' <=> y = x \/ y = None
        BY <2>2 DEF Retired
    <2>5. Turns'
        BY <1>2, <2>0, <2>1, <2>2, <2>3 DEF Open, Turns, Active
    <2>6. Loops'
        BY <1>1, <2>0, <2>2, <2>3 DEF Open, Loops
    <2>7. Leaving'
        BY <1>0, <1>1, <2>0, <2>1, <2>2, <2>3 DEF Open, Leaving
    <2>8. Superseded'
        <3>1. \A y : Awaited(y)' <=> Awaited(y)
            BY <2>3 DEF Awaited
        <3>2. \A y \in Ids : bind'[y].state = "named" /\ bind'[y].superseded =>
                Awaited(y)' \/ y \in retirements' \/ Retired(y)'
            BY <1>2, <2>0, <2>1, <2>3, <2>4, <3>1 DEF Open, Superseded, Retired
        <3>3. ASSUME NEW y \in Ids, bind'[y].state \in Pending, bind'[y].replaces # None,
                     NEW t, t = bind'[y].replaces
              PROVE  /\ bind'[t].state = "named" /\ bind'[t].superseded /\ bind'[t].name = bind'[y].name
                     /\ t \notin retirements' /\ ~Retired(t)'
            <4>1. t = bind[y].replaces /\ bind[y].state \in Pending /\ t # None /\ t \in Ids
                BY <1>0, <2>3, <3>3
            <4>2. bind[t].state = "named" /\ bind[t].superseded /\ bind[t].name = bind[y].name
                  /\ t \notin retirements
                BY <2>0, <4>1 DEF Open, Superseded
            <4> QED BY <1>2, <2>3, <2>4, <4>1, <4>2
        <3>4. \A y, z \in Ids :
                bind'[y].state \in Pending /\ bind'[z].state \in Pending
                /\ bind'[y].replaces # None /\ bind'[y].replaces = bind'[z].replaces => y = z
            BY <2>0, <2>3 DEF Open, Superseded
        <3>5. \A y \in retirements' : bind'[y].state = "named" /\ bind'[y].superseded /\ ~Retired(y)'
            BY <1>0, <1>2, <2>0, <2>3, <2>4 DEF Open, Superseded
        <3> QED BY <3>2, <3>3, <3>4, <3>5 DEF Superseded
    <2>9. OneEach'
        <3>1. Named' = Named
            BY <2>3 DEF Named
        <3>2. \A y \in Ids : Newest(y)' <=> Newest(y)
            BY <2>3 DEF Newest
        <3>3. rec.at \notin Comparing /\ rec.at # "removing"
            BY <2>1 DEF Active, Comparing
        <3> QED BY <1>2, <2>0, <2>3, <3>1, <3>2, <3>3 DEF Open, OneEach
    <2>10. Calls'
        BY <1>1, <1>2, <2>0, <2>2, <2>3 DEF Open, Calls, Named
    <2>11. Untouched'
        <3>1. \A y \in Ids : bind'[y].state = "named" /\ bind'[y].name \notin given /\ bind'[y].loop # "off" =>
                ~bind'[y].bound /\ ~bind'[y].superseded
            BY <1>1, <2>0, <2>2, <2>3 DEF Open, Untouched
        <3>2. rec.at \notin Comparing /\ rec.at # "removing"
            BY <2>1 DEF Active, Comparing
        <3>3. \A y \in Ids : bind'[y].state \in Pending /\ source[bind'[y].name] = 0 => bind'[y].name \in given
            BY <2>0, <2>3 DEF Open, Untouched
        <3>4. ASSUME NEW t \in retirements', bind'[t].name \notin given
              PROVE  \E y \in Ids : Kept(y, bind[t].name)'
            <4>1. t \in retirements /\ t \in Ids /\ bind'[t].name = bind[t].name
                BY <1>0, <1>2, <2>3, <3>4
            <4>2. PICK y \in Ids : Kept(y, bind[t].name)
                BY <2>0, <3>4, <4>1 DEF Open, Untouched
            <4>3. y # x /\ y # None
                BY <1>0, <1>2, <4>2 DEF Kept
            <4>4. bind'[y] = bind[y] /\ y \notin retirements' /\ ~Retired(y)'
                BY <1>2, <2>2, <2>4, <4>2, <4>3 DEF Kept
            <4> QED BY <4>1, <4>2, <4>4 DEF Kept
        <3> QED BY <1>2, <2>2, <3>1, <3>2, <3>3, <3>4 DEF Untouched
    <2> QED BY <1>4, <2>5, <2>6, <2>7, <2>8, <2>9, <2>10, <2>11 DEF IInv, Open
<1> QED BY <1>5, <1>6

LEMMA RemovesStep == ASSUME IInv, NEW x \in Ids, Removes(x) PROVE IInv'
<1> DEFINE s == [bind[x] EXCEPT !.replaces = None]
           r == Stopped(s)
           next == bind[x].replaces
<1>0. /\ bind \in [Ids -> Binding] /\ bind[x] \in Binding /\ None \notin Ids /\ retirements \subseteq Ids
      /\ \A y \in Ids : bind[y].replaces \in Ids \union {None} /\ bind[y].name \in Names \union {None}
      /\ rec \in Reconcile
    BY Known
<1>1. s \in Binding /\ s.replaces = None /\ s.state = bind[x].state /\ s.name = bind[x].name
      /\ s.superseded = bind[x].superseded
    BY <1>0 DEF Binding
<1>2. /\ UNCHANGED <<source, maps, flag, lock, retirements, call, pairs, budget, given>>
      /\ bind' = [bind EXCEPT ![x] = r] /\ retire' = Retiring(x, next) /\ rec' = [rec EXCEPT !.gone = @ \ {x}]
      /\ rec.at = "removing" /\ retire.at = "off" /\ x \in rec.gone
    BY DEF Removes, Changes
<1> HIDE DEF s
<1>3. /\ r \in Binding /\ r.loop = "off" /\ ~r.ready /\ ~r.bound
      /\ r.state = bind[x].state /\ r.name = bind[x].name /\ r.superseded = bind[x].superseded
      /\ r.replaces = None
    BY <1>1, StoppedIs DEF Alike
<1> HIDE DEF r, next
<1>4. /\ bind' \in [Ids -> Binding] /\ bind'[x] = r /\ \A y \in Ids \ {x} : bind'[y] = bind[y]
      /\ retire'.at = "draining" /\ retire'.b = x /\ retire'.next = next
      /\ retire' \in Retirement
    BY <1>0, <1>2, <1>3 DEF Retiring, Retirement, next
<1>5. rec' \in Reconcile /\ rec'.at = "removing" /\ rec'.gone = rec.gone \ {x}
    BY <1>0, <1>2 DEF Reconcile
<1>6. TypeOK'
    BY <1>2, <1>4, <1>5 DEF IInv, TypeOK
<1>7. CASE flag.closing
    BY <1>2, <1>6, <1>7 DEF IInv
<1>8. CASE ~flag.closing
    <2>0. Open
        BY <1>8 DEF IInv
    <2>1. /\ Newest(x) /\ bind[x].name \in given /\ bind[x].state = "named" /\ ~bind[x].superseded
          /\ lock = "reconcile" /\ call.at # "draining" /\ ~\E y \in Ids : bind[y].state = "made"
        BY <1>2, <2>0 DEF Open, OneEach, Untouched, Newest, Turns, Active
    <2>2. next # None => /\ bind[next].state = "named" /\ bind[next].superseded /\ bind[next].name = bind[x].name
                         /\ next \in Ids /\ next \notin retirements /\ next # x
        BY <1>0, <2>0, <2>1 DEF Open, Superseded, next, Pending
    <2>3. /\ \A y \in Ids : bind'[y].state = bind[y].state /\ bind'[y].name = bind[y].name
          /\ \A y \in Ids : bind'[y].superseded = bind[y].superseded
          /\ \A y \in Ids : bind'[y].replaces = IF y = x THEN None ELSE bind[y].replaces
        BY <1>3, <1>4
    <2>4. \A y : Retired(y)' <=> y = x \/ y = next
        BY <1>4 DEF Retired
    <2>5. Turns'
        BY <1>2, <1>4, <1>5, <2>1, <2>3 DEF Turns, Active
    <2>6. Loops'
        BY <1>3, <1>4, <2>0, <2>3 DEF Open, Loops
    <2>7. Leaving'
        BY <1>0, <1>3, <1>4, <2>0, <2>1, <2>2, <2>3 DEF Open, Leaving
    <2>8. Superseded'
        <3>1. \A y \in Ids : bind'[y].state = "named" /\ bind'[y].superseded =>
                Awaited(y)' \/ y \in retirements' \/ Retired(y)'
            <4> SUFFICES ASSUME NEW y \in Ids, bind[y].state = "named", bind[y].superseded
                         PROVE  Awaited(y)' \/ y \in retirements' \/ Retired(y)'
                BY <2>3
            <4>1. CASE Awaited(y)
                <5>1. PICK z \in Ids : bind[z].state \in Pending /\ bind[z].replaces = y
                    BY <4>1 DEF Awaited
                <5>2. CASE z = x
                    BY <2>4, <5>1, <5>2 DEF next
                <5>3. CASE z # x
                    BY <2>3, <5>1, <5>3 DEF Awaited
                <5> QED BY <5>2, <5>3
            <4>2. CASE y \in retirements
                BY <1>2, <4>2
            <4> QED BY <1>2, <2>0, <4>1, <4>2 DEF Open, Superseded, Retired
        <3>2. ASSUME NEW y \in Ids, bind'[y].state \in Pending, bind'[y].replaces # None,
                     NEW t, t = bind'[y].replaces
              PROVE  /\ bind'[t].state = "named" /\ bind'[t].superseded /\ bind'[t].name = bind'[y].name
                     /\ t \notin retirements' /\ ~Retired(t)'
            <4>1. y # x /\ t = bind[y].replaces /\ bind[y].state \in Pending /\ t # None /\ t \in Ids
                BY <1>0, <2>3, <3>2
            <4>2. bind[t].state = "named" /\ bind[t].superseded /\ bind[t].name = bind[y].name
                  /\ t \notin retirements
                BY <2>0, <4>1 DEF Open, Superseded
            <4>3. t # next
                BY <2>0, <2>1, <4>1 DEF Open, Superseded, next, Pending
            <4>4. t # x
                BY <2>1, <4>2
            <4> QED BY <1>2, <2>3, <2>4, <4>1, <4>2, <4>3, <4>4
        <3>3. \A y, z \in Ids :
                bind'[y].state \in Pending /\ bind'[z].state \in Pending
                /\ bind'[y].replaces # None /\ bind'[y].replaces = bind'[z].replaces => y = z
            BY <2>0, <2>3 DEF Open, Superseded
        <3>4. \A y \in retirements' : bind'[y].state = "named" /\ bind'[y].superseded /\ ~Retired(y)'
            BY <1>0, <1>2, <2>0, <2>1, <2>2, <2>3, <2>4 DEF Open, Superseded
        <3> QED BY <3>1, <3>2, <3>3, <3>4 DEF Superseded
    <2>9. OneEach'
        <3>1. Named' = Named
            BY <2>3 DEF Named
        <3>2. \A y \in Ids : Newest(y)' <=> Newest(y)
            BY <2>3 DEF Newest
        <3>3. \A y, z \in Ids : Newest(y)' /\ Newest(z)' /\ bind'[y].name = bind'[z].name => y = z
            BY <2>0, <2>3, <3>2 DEF Open, OneEach
        <3>4. \A y \in rec'.gone : Newest(y)' /\ y # retire'.b
            BY <1>2, <1>4, <1>5, <2>0, <3>2, Known DEF Open, OneEach
        <3>5. pairs' = Cardinality(Named')
            BY <1>2, <2>0, <3>1 DEF Open, OneEach
        <3> QED BY <1>5, <2>1, <2>3, <3>3, <3>4, <3>5 DEF OneEach, Comparing
    <2>10. Calls'
        BY <1>2, <1>3, <1>4, <2>0, <2>3 DEF Open, Calls, Named
    <2>11. Untouched'
        <3>1. \A y \in Ids : bind'[y].state = "named" /\ bind'[y].name \notin given /\ bind'[y].loop # "off" =>
                ~bind'[y].bound /\ ~bind'[y].superseded
            BY <1>3, <1>4, <2>0, <2>3 DEF Open, Untouched
        <3>2. \A y \in rec'.gone : bind'[y].name \in given
            BY <1>2, <1>5, <2>0, <2>3, Known DEF Open, Untouched
        <3>3. \A y \in Ids : bind'[y].state \in Pending /\ source[bind'[y].name] = 0 => bind'[y].name \in given
            BY <2>0, <2>3 DEF Open, Untouched
        <3>4. retire'.next # None => bind'[retire'.next].name \in given
            BY <1>4, <2>1, <2>2, <2>3
        <3>5. ASSUME NEW t \in retirements', bind'[t].name \notin given
              PROVE  \E y \in Ids : Kept(y, bind[t].name)'
            <4>1. t \in retirements /\ t \in Ids /\ bind'[t].name = bind[t].name
                BY <1>0, <1>2, <2>3, <3>5
            <4>2. PICK y \in Ids : Kept(y, bind[t].name)
                BY <2>0, <3>5, <4>1 DEF Open, Untouched
            <4>3. y # x /\ y # next
                BY <1>0, <2>1, <2>2, <3>5, <4>1, <4>2 DEF Kept
            <4>4. bind'[y] = bind[y] /\ y \notin retirements' /\ ~Retired(y)'
                BY <1>2, <1>4, <2>4, <4>2, <4>3 DEF Kept
            <4> QED BY <4>1, <4>2, <4>4 DEF Kept
        <3> QED BY <1>2, <1>5, <3>1, <3>2, <3>3, <3>4, <3>5 DEF Untouched, Comparing
    <2> QED BY <1>6, <2>5, <2>6, <2>7, <2>8, <2>9, <2>10, <2>11 DEF IInv, Open
<1> QED BY <1>7, <1>8

\* The binding a reconcile makes: whose id is new, and what it is.
LEMMA NewIs ==
    ASSUME IInv, Room, NEW n \in Names, NEW v \in 0..MaxVersion, NEW st \in {"named", "made"},
           NEW o \in Ids \union {None}, NEW i, i = NextId, NEW r, r = NewBinding(n, v, st, o)
    PROVE  /\ i \in Ids /\ bind[i].state = "unmade"
           /\ r \in Binding /\ r.name = n /\ r.state = st /\ ~r.superseded /\ r.replaces = o
           /\ r.loop = "off" /\ ~r.bound /\ ~r.ready
<1>1. i \in Ids /\ bind[i].state = "unmade"
    BY DEF Room, NextId
<1>2. MaxVersion \in Nat
    BY Sizes
<1>3. Unmade \in Binding
    BY <1>2 DEF Unmade, Binding, None
<1>4. r = [Unmade EXCEPT !.name = n, !.version = v, !.state = st, !.replaces = o]
    BY DEF NewBinding
<1>5. r \in Binding
    BY <1>3, <1>4 DEF Binding
<1>6. r.name = n /\ r.state = st /\ ~r.superseded /\ r.replaces = o /\ r.loop = "off" /\ ~r.bound /\ ~r.ready
    BY <1>4 DEF Unmade
<1> QED BY <1>1, <1>5, <1>6

\* What a reconcile knows when it looks at name n.
LEMMA LookedUp ==
    ASSUME IInv, ~flag.closing, rec.at = "names", NEW n \in rec.todo
    PROVE  /\ n \in Names /\ rec.wanted[n] \in 0..MaxVersion /\ rec.wanted[n] # 0
           /\ retire.at = "off" /\ retire.b = None /\ retire.next = None
           /\ lock = "reconcile" /\ call.at # "draining" /\ ~\E y \in Ids : bind[y].state = "made"
           /\ rec.current[n] = None => \A y \in Ids : Newest(y) => bind[y].name # n
           /\ rec.current[n] # None =>
                /\ rec.current[n] \in Ids /\ Newest(rec.current[n]) /\ bind[rec.current[n]].name = n
                /\ rec.current[n] \notin rec.created
           /\ \A m \in Names : Compared(m) =>
                \/ rec.current[m] = None /\ \A y \in Ids : Newest(y) => bind[y].name # m
                \/ rec.current[m] # None /\ Newest(rec.current[m]) /\ bind[rec.current[m]].name = m
                   /\ rec.current[m] \in Ids
           /\ source[n] = 0 => n \in given
<1>1. Open /\ n \in Names /\ rec.wanted[n] \in 0..MaxVersion /\ rec.current \in [Names -> Ids \union {None}]
    BY Known
<1>2. retire.at = "off" /\ lock = "reconcile" /\ call.at # "draining" /\ ~\E y \in Ids : bind[y].state = "made"
    BY <1>1 DEF Open, Turns, Active
<1>3. retire.b = None /\ retire.next = None
    BY <1>1, <1>2 DEF Open, Leaving
<1>4. rec.wanted[n] # 0 /\ rec.current[n] \notin rec.created /\ (source[n] = 0 => n \in given)
    BY <1>1 DEF Open, OneEach, Untouched, Comparing
<1>5. \A m \in Names : Compared(m) =>
        \/ rec.current[m] = None /\ \A y \in Ids : Newest(y) => bind[y].name # m
        \/ rec.current[m] # None /\ Newest(rec.current[m]) /\ bind[rec.current[m]].name = m
           /\ rec.current[m] \in Ids
    BY <1>1, <1>2 DEF Open, OneEach, Comparing
<1>6. Compared(n)
    BY DEF Compared
<1> QED BY <1>1, <1>2, <1>3, <1>4, <1>5, <1>6

LEMMA AddsStep == ASSUME IInv, NEW n \in Names, Adds(n) PROVE IInv'
<1> DEFINE i == NextId
           r == NewBinding(n, rec.wanted[n], "named", None)
<1>0. /\ bind \in [Ids -> Binding] /\ None \notin Ids /\ retirements \subseteq Ids /\ rec \in Reconcile
      /\ \A y \in Ids : bind[y].replaces \in Ids \union {None} /\ bind[y].name \in Names \union {None}
      /\ rec.wanted[n] \in 0..MaxVersion /\ rec.created \subseteq Ids /\ rec.todo \subseteq Names
    BY Known
<1>1. /\ i \in Ids /\ bind[i].state = "unmade"
      /\ r \in Binding /\ r.name = n /\ r.state = "named" /\ ~r.superseded /\ r.replaces = None
      /\ r.loop = "off" /\ ~r.bound /\ ~r.ready
    <2>1. Room /\ None \in Ids \union {None}
        BY DEF Adds
    <2> QED BY <1>0, <2>1, NewIs
<1>2. /\ rec.at = "names" /\ n \in rec.todo /\ rec.current[n] = None
      /\ bind' = [bind EXCEPT ![i] = r] /\ rec' = [rec EXCEPT !.todo = @ \ {n}, !.created = @ \cup {i}]
      /\ UNCHANGED <<source, maps, flag, lock, retire, retirements, call, pairs, budget, given>>
    BY DEF Adds, Changes
<1> HIDE DEF i, r
<1>3. bind' \in [Ids -> Binding] /\ bind'[i] = r /\ \A y \in Ids \ {i} : bind'[y] = bind[y]
    BY <1>0, <1>1, <1>2
<1>4. /\ rec' \in Reconcile /\ rec'.at = "names" /\ rec'.todo = rec.todo \ {n}
      /\ rec'.created = rec.created \union {i}
      /\ rec'.wanted = rec.wanted /\ rec'.current = rec.current
    BY <1>0, <1>1, <1>2 DEF Reconcile
<1>5. TypeOK'
    BY <1>2, <1>3, <1>4 DEF IInv, TypeOK
<1>6. CASE flag.closing
    BY <1>2, <1>5, <1>6 DEF IInv
<1>7. CASE ~flag.closing
    <2>0. Open
        BY <1>7 DEF IInv
    <2>1. /\ rec.wanted[n] # 0 /\ retire.at = "off" /\ retire.b = None /\ retire.next = None
          /\ lock = "reconcile" /\ call.at # "draining" /\ ~\E y \in Ids : bind[y].state = "made"
          /\ \A y \in Ids : Newest(y) => bind[y].name # n
          /\ \A m \in Names : Compared(m) =>
                \/ rec.current[m] = None /\ \A y \in Ids : Newest(y) => bind[y].name # m
                \/ rec.current[m] # None /\ Newest(rec.current[m]) /\ bind[rec.current[m]].name = m
                   /\ rec.current[m] \in Ids
          /\ source[n] = 0 => n \in given
        BY <1>2, <1>7, LookedUp
    <2>2. \A y \in Ids : Newest(y)' <=> Newest(y) \/ y = i
        BY <1>1, <1>3 DEF Newest
    <2>3. ~\E y \in Ids : bind'[y].state = "made"
        BY <1>1, <1>3, <2>1
    <2>4. \A y : ~Retired(y) /\ ~Retired(y)'
        BY <1>2, <2>1 DEF Retired
    <2>5. Turns'
        BY <1>2, <1>4, <2>1, <2>3 DEF Turns, Active
    <2>6. Loops'
        BY <1>1, <1>2, <1>3, <2>0 DEF Open, Loops
    <2>7. Leaving'
        BY <1>1, <1>2, <1>3, <2>0, <2>1 DEF Open, Leaving
    <2>8. Superseded'
        <3>1. \A y \in Ids : bind'[y].state = "named" /\ bind'[y].superseded =>
                Awaited(y)' \/ y \in retirements' \/ Retired(y)'
            <4> SUFFICES ASSUME NEW y \in Ids, bind'[y].state = "named", bind'[y].superseded
                         PROVE  Awaited(y)' \/ y \in retirements'
                OBVIOUS
            <4>1. bind[y].state = "named" /\ bind[y].superseded
                BY <1>1, <1>3
            <4>2. Awaited(y) \/ y \in retirements
                BY <2>0, <2>4, <4>1 DEF Open, Superseded
            <4>3. Awaited(y) => Awaited(y)'
                BY <1>1, <1>3 DEF Awaited, Pending
            <4> QED BY <1>2, <4>2, <4>3
        <3>2. ASSUME NEW y \in Ids, bind'[y].state \in Pending, bind'[y].replaces # None,
                     NEW t, t = bind'[y].replaces
              PROVE  /\ bind'[t].state = "named" /\ bind'[t].superseded /\ bind'[t].name = bind'[y].name
                     /\ t \notin retirements' /\ ~Retired(t)'
            <4>1. y # i /\ t = bind[y].replaces /\ bind[y].state \in Pending /\ t # None /\ t \in Ids
                BY <1>0, <1>1, <1>3, <3>2
            <4>2. bind[t].state = "named" /\ bind[t].superseded /\ bind[t].name = bind[y].name
                  /\ t \notin retirements
                BY <2>0, <4>1 DEF Open, Superseded
            <4> QED BY <1>1, <1>2, <1>3, <2>4, <4>1, <4>2
        <3>3. \A y, z \in Ids :
                bind'[y].state \in Pending /\ bind'[z].state \in Pending
                /\ bind'[y].replaces # None /\ bind'[y].replaces = bind'[z].replaces => y = z
            BY <1>1, <1>3, <2>0 DEF Open, Superseded
        <3>4. \A y \in retirements' : bind'[y].state = "named" /\ bind'[y].superseded /\ ~Retired(y)'
            BY <1>0, <1>1, <1>2, <1>3, <2>0, <2>4 DEF Open, Superseded
        <3> QED BY <3>1, <3>2, <3>3, <3>4 DEF Superseded
    <2>9. OneEach'
        <3>1. \A y, z \in Ids : Newest(y)' /\ Newest(z)' /\ bind'[y].name = bind'[z].name => y = z
            BY <1>1, <1>3, <2>0, <2>1, <2>2 DEF Open, OneEach
        <3>2. \A m \in rec'.todo : rec'.wanted[m] # 0
            BY <1>2, <1>4, <2>0 DEF Open, OneEach, Comparing
        <3>3. ASSUME NEW m \in Names, Compared(m)'
              PROVE  \/ rec'.current[m] = None /\ \A y \in Ids : Newest(y)' => bind'[y].name # m
                     \/ rec'.current[m] # None /\ Newest(rec.current[m])' /\ bind'[rec'.current[m]].name = m
            <4>1. m # n /\ Compared(m)
                BY <1>4, <2>1, <3>3 DEF Compared
            <4> QED BY <1>1, <1>3, <1>4, <2>1, <2>2, <4>1 DEF Newest
        <3> QED BY <1>2, <1>4, <2>1, <2>3, <3>1, <3>2, <3>3 DEF OneEach
    <2>10. Calls'
        BY <1>1, <1>2, <1>3, <2>0 DEF Open, Calls, Named
    <2>11. Untouched'
        <3>1. \A y \in Ids : bind'[y].state = "named" /\ bind'[y].name \notin given /\ bind'[y].loop # "off" =>
                ~bind'[y].bound /\ ~bind'[y].superseded
            BY <1>1, <1>3, <2>0 DEF Open, Untouched
        <3>2. \A y \in rec'.created : Newest(y)' /\ bind'[y].loop = "off" /\ ~bind'[y].bound
            BY <1>0, <1>1, <1>2, <1>3, <1>4, <2>0, <2>2 DEF Open, Untouched, Comparing
        <3>3. ASSUME NEW m \in rec'.todo PROVE rec'.current[m] \notin rec'.created
            <4>1. m \in Names /\ Compared(m) /\ m \in rec.todo
                BY <1>0, <1>4, <3>3 DEF Compared
            <4>2. rec.current[m] # i
                BY <1>0, <1>1, <2>1, <4>1 DEF Newest
            <4>3. rec.current[m] \notin rec.created
                BY <1>2, <2>0, <4>1 DEF Open, Untouched, Comparing
            <4> QED BY <1>4, <4>2, <4>3
        <3>4. /\ \A m \in rec'.todo : source[m] = 0 => m \in given
              /\ \A m \in Names : rec'.wanted[m] = 0 /\ rec'.current[m] # None => m \in given
            BY <1>2, <1>4, <2>0 DEF Open, Untouched, Comparing
        <3>5. \A y \in Ids : bind'[y].state \in Pending /\ source[bind'[y].name] = 0 => bind'[y].name \in given
            BY <1>1, <1>3, <2>0, <2>1 DEF Open, Untouched
        <3>6. ASSUME NEW t \in retirements', bind'[t].name \notin given
              PROVE  \E y \in Ids : Kept(y, bind[t].name)'
            <4>1. t \in retirements /\ t \in Ids /\ t # i
                BY <1>0, <1>1, <1>2, <2>0, <3>6 DEF Open, Superseded
            <4>2. bind'[t].name = bind[t].name
                BY <1>3, <4>1
            <4>3. PICK y \in Ids : Kept(y, bind[t].name)
                BY <2>0, <3>6, <4>1, <4>2 DEF Open, Untouched
            <4>4. bind'[y] = bind[y] /\ y \notin retirements' /\ ~Retired(y)'
                BY <1>1, <1>2, <1>3, <2>4, <4>3 DEF Kept
            <4> QED BY <4>2, <4>3, <4>4 DEF Kept
        <3> QED BY <1>2, <1>4, <2>1, <3>1, <3>2, <3>3, <3>4, <3>5, <3>6 DEF Untouched
    <2> QED BY <1>5, <2>5, <2>6, <2>7, <2>8, <2>9, <2>10, <2>11 DEF IInv, Open
<1> QED BY <1>6, <1>7

LEMMA ReplacesStep == ASSUME IInv, NEW n \in Names, Replaces(n) PROVE IInv'
<1> DEFINE x == rec.current[n]
           i == NextId
           r == NewBinding(n, rec.wanted[n], "named", x)
           s == [bind[x] EXCEPT !.superseded = TRUE]
<1>0. /\ bind \in [Ids -> Binding] /\ None \notin Ids /\ retirements \subseteq Ids /\ rec \in Reconcile
      /\ \A y \in Ids : bind[y].replaces \in Ids \union {None} /\ bind[y].name \in Names \union {None}
      /\ rec.wanted[n] \in 0..MaxVersion /\ rec.created \subseteq Ids /\ rec.todo \subseteq Names
      /\ x \in Ids \union {None}
    BY Known
<1>1. /\ i \in Ids /\ bind[i].state = "unmade"
      /\ r \in Binding /\ r.name = n /\ r.state = "named" /\ ~r.superseded /\ r.replaces = x
      /\ r.loop = "off" /\ ~r.bound /\ ~r.ready
    <2>1. Room
        BY DEF Replaces
    <2> QED BY <1>0, <2>1, NewIs
<1>2. /\ rec.at = "names" /\ n \in rec.todo /\ x \in Ids /\ bind[x].bound
      /\ rec' = [rec EXCEPT !.todo = @ \ {n}, !.created = @ \cup {i}]
      /\ UNCHANGED <<source, maps, flag, lock, retire, retirements, call, pairs, budget, given>>
    BY <1>0 DEF Replaces
<1> HIDE DEF x
<1>3. s \in Binding /\ s.superseded /\ Alone(s, bind[x]) /\ s.state = bind[x].state /\ s.name = bind[x].name
      /\ s.loop = bind[x].loop /\ s.replaces = bind[x].replaces
    <2>1. bind[x] \in Binding
        BY <1>0, <1>2
    <2> QED BY <2>1 DEF Binding, Alone
<1>4. bind' = [bind EXCEPT ![x] = s, ![i] = r]
    BY <1>0, <1>2 DEF Replaces, x
<1> HIDE DEF i, r, s
<1>5. /\ rec' \in Reconcile /\ rec'.at = "names" /\ rec'.todo = rec.todo \ {n}
      /\ rec'.created = rec.created \union {i}
      /\ rec'.wanted = rec.wanted /\ rec'.current = rec.current
    BY <1>0, <1>1, <1>2 DEF Reconcile
<1>6. bind' \in [Ids -> Binding]
    BY <1>0, <1>1, <1>2, <1>3, <1>4
<1>7. TypeOK'
    BY <1>2, <1>5, <1>6 DEF IInv, TypeOK
<1>8. CASE flag.closing
    BY <1>2, <1>7, <1>8 DEF IInv
<1>9. CASE ~flag.closing
    <2>0. Open
        BY <1>9 DEF IInv
    <2>1. /\ rec.wanted[n] # 0 /\ retire.at = "off" /\ retire.b = None /\ retire.next = None
          /\ lock = "reconcile" /\ call.at # "draining" /\ ~\E y \in Ids : bind[y].state = "made"
          /\ Newest(x) /\ bind[x].name = n /\ x \notin rec.created
          /\ \A m \in Names : Compared(m) =>
                \/ rec.current[m] = None /\ \A y \in Ids : Newest(y) => bind[y].name # m
                \/ rec.current[m] # None /\ Newest(rec.current[m]) /\ bind[rec.current[m]].name = m
                   /\ rec.current[m] \in Ids
          /\ source[n] = 0 => n \in given
        BY <1>0, <1>2, <1>9, LookedUp DEF x
    <2>2. x # i /\ bind[x].state = "named" /\ ~bind[x].superseded /\ bind[x].replaces = None
        BY <1>1, <1>2, <2>0, <2>1 DEF Newest, Open, Loops, Pending
    <2>3. bind'[x] = s /\ bind'[i] = r /\ \A y \in Ids \ {x, i} : bind'[y] = bind[y]
        BY <1>0, <1>1, <1>2, <1>4, <2>2
    <2>4. \A y \in Ids : Newest(y)' <=> (Newest(y) /\ y # x) \/ y = i
        BY <1>1, <1>3, <2>2, <2>3 DEF Newest
    <2>5. ~\E y \in Ids : bind'[y].state = "made"
        BY <1>1, <1>3, <2>1, <2>2, <2>3
    <2>6. \A y : ~Retired(y) /\ ~Retired(y)'
        BY <1>2, <2>1 DEF Retired
    <2>7. Turns'
        BY <1>2, <1>5, <2>1, <2>5 DEF Turns, Active
    <2>8. Loops'
        BY <1>1, <1>2, <1>3, <2>0, <2>1, <2>2, <2>3 DEF Open, Loops, Alone
    <2>9. Leaving'
        BY <1>1, <1>2, <1>3, <2>0, <2>1, <2>2, <2>3 DEF Open, Leaving, Alone
    <2>10. Superseded'
        <3>1. \A y \in Ids : bind'[y].state = "named" /\ bind'[y].superseded =>
                Awaited(y)' \/ y \in retirements' \/ Retired(y)'
            <4> SUFFICES ASSUME NEW y \in Ids, bind'[y].state = "named", bind'[y].superseded
                         PROVE  Awaited(y)' \/ y \in retirements'
                OBVIOUS
            <4>1. CASE y = x
                BY <1>1, <2>3, <4>1 DEF Awaited, Pending
            <4>2. CASE y # x
                <5>1. bind[y].state = "named" /\ bind[y].superseded
                    BY <1>1, <2>3, <4>2
                <5>2. Awaited(y) \/ y \in retirements
                    BY <2>0, <2>6, <5>1 DEF Open, Superseded
                <5>3. Awaited(y) => Awaited(y)'
                    BY <1>1, <1>3, <2>2, <2>3 DEF Awaited, Pending
                <5> QED BY <1>2, <5>2, <5>3
            <4> QED BY <4>1, <4>2
        <3>2. ASSUME NEW y \in Ids, bind'[y].state \in Pending, bind'[y].replaces # None,
                     NEW t, t = bind'[y].replaces
              PROVE  /\ bind'[t].state = "named" /\ bind'[t].superseded /\ bind'[t].name = bind'[y].name
                     /\ t \notin retirements' /\ ~Retired(t)'
            <4>1. CASE y = i
                <5>1. t = x /\ x \notin retirements
                    BY <1>1, <2>0, <2>2, <2>3, <3>2, <4>1 DEF Open, Superseded
                <5> QED BY <1>1, <1>2, <1>3, <2>1, <2>2, <2>3, <2>6, <4>1, <5>1
            <4>2. CASE y # i
                <5>1. y # x /\ t = bind[y].replaces /\ bind[y].state \in Pending /\ t # None /\ t \in Ids
                    BY <1>0, <1>3, <2>2, <2>3, <3>2, <4>2
                <5>2. bind[t].state = "named" /\ bind[t].superseded /\ bind[t].name = bind[y].name
                      /\ t \notin retirements
                    BY <2>0, <5>1 DEF Open, Superseded
                <5>3. t # x /\ t # i
                    BY <1>1, <2>2, <5>2
                <5> QED BY <1>2, <2>3, <2>6, <4>2, <5>1, <5>2, <5>3
            <4> QED BY <4>1, <4>2
        <3>3. ASSUME NEW y \in Ids, NEW z \in Ids, bind'[y].state \in Pending, bind'[z].state \in Pending,
                     bind'[y].replaces # None, bind'[y].replaces = bind'[z].replaces
              PROVE  y = z
            <4>1. \A t \in Ids : bind[t].state \in Pending => bind[t].replaces # x
                BY <1>0, <1>2, <2>0, <2>2 DEF Open, Superseded
            <4>2. y # x /\ z # x
                BY <1>3, <2>2, <2>3, <3>3
            <4>3. CASE y = i \/ z = i
                BY <1>1, <2>3, <3>3, <4>1, <4>2, <4>3
            <4>4. CASE y # i /\ z # i
                BY <2>0, <2>3, <3>3, <4>2, <4>4 DEF Open, Superseded
            <4> QED BY <4>3, <4>4
        <3>4. \A y \in retirements' : bind'[y].state = "named" /\ bind'[y].superseded /\ ~Retired(y)'
            <4>1. \A y \in retirements : y \in Ids /\ bind[y].state = "named" /\ bind[y].superseded
                BY <1>0, <2>0 DEF Open, Superseded
            <4> QED BY <1>1, <1>2, <2>2, <2>3, <2>6, <4>1
        <3> QED BY <3>1, <3>2, <3>3, <3>4 DEF Superseded
    <2>11. OneEach'
        <3>1. ASSUME NEW y \in Ids, NEW z \in Ids, Newest(y)', Newest(z)', bind'[y].name = bind'[z].name
              PROVE  y = z
            <4>1. \A t \in Ids : Newest(t) /\ bind[t].name = n => t = x
                BY <1>2, <2>0, <2>1 DEF Open, OneEach
            <4>2. CASE y = i \/ z = i
                BY <1>1, <2>3, <2>4, <3>1, <4>1, <4>2
            <4>3. CASE y # i /\ z # i
                BY <2>0, <2>3, <2>4, <3>1, <4>3 DEF Open, OneEach
            <4> QED BY <4>2, <4>3
        <3>2. \A m \in rec'.todo : rec'.wanted[m] # 0
            BY <1>2, <1>5, <2>0 DEF Open, OneEach, Comparing
        <3>3. ASSUME NEW m \in Names, Compared(m)'
              PROVE  \/ rec'.current[m] = None /\ \A y \in Ids : Newest(y)' => bind'[y].name # m
                     \/ rec'.current[m] # None /\ Newest(rec.current[m])' /\ bind'[rec'.current[m]].name = m
            <4>1. m # n /\ Compared(m)
                BY <1>5, <2>1, <3>3 DEF Compared
            <4>2. CASE rec.current[m] = None /\ \A y \in Ids : Newest(y) => bind[y].name # m
                BY <1>1, <1>5, <2>3, <2>4, <4>1, <4>2
            <4>3. CASE rec.current[m] # None /\ Newest(rec.current[m]) /\ bind[rec.current[m]].name = m
                       /\ rec.current[m] \in Ids
                <5>1. rec.current[m] # x /\ rec.current[m] # i
                    BY <1>1, <2>1, <4>1, <4>3 DEF Newest
                <5> QED BY <1>5, <2>3, <4>3, <5>1 DEF Newest
            <4> QED BY <2>1, <4>1, <4>2, <4>3
        <3> QED BY <1>2, <1>5, <2>1, <2>5, <3>1, <3>2, <3>3 DEF OneEach
    <2>12. Calls'
        BY <1>1, <1>2, <1>3, <2>0, <2>2, <2>3 DEF Open, Calls, Named, Alone
    <2>13. Untouched'
        <3>1. \A y \in Ids : bind'[y].state = "named" /\ bind'[y].name \notin given /\ bind'[y].loop # "off" =>
                ~bind'[y].bound /\ ~bind'[y].superseded
            BY <1>1, <1>2, <1>3, <2>0, <2>2, <2>3 DEF Open, Untouched, Alone
        <3>2. \A y \in rec'.created : Newest(y)' /\ bind'[y].loop = "off" /\ ~bind'[y].bound
            BY <1>0, <1>1, <1>2, <1>5, <2>0, <2>1, <2>3, <2>4 DEF Open, Untouched, Comparing
        <3>3. ASSUME NEW m \in rec'.todo PROVE rec'.current[m] \notin rec'.created
            <4>1. m \in Names /\ Compared(m) /\ m \in rec.todo
                BY <1>0, <1>5, <3>3 DEF Compared
            <4>2. rec.current[m] # i
                BY <1>0, <1>1, <2>1, <4>1 DEF Newest
            <4>3. rec.current[m] \notin rec.created
                BY <1>2, <2>0, <4>1 DEF Open, Untouched, Comparing
            <4> QED BY <1>5, <4>2, <4>3
        <3>4. /\ \A m \in rec'.todo : source[m] = 0 => m \in given
              /\ \A m \in Names : rec'.wanted[m] = 0 /\ rec'.current[m] # None => m \in given
            BY <1>2, <1>5, <2>0 DEF Open, Untouched, Comparing
        <3>5. \A y \in Ids : bind'[y].state \in Pending /\ source[bind'[y].name] = 0 => bind'[y].name \in given
            BY <1>1, <1>3, <2>0, <2>1, <2>3 DEF Open, Untouched
        <3>6. ASSUME NEW t \in retirements', bind'[t].name \notin given
              PROVE  \E y \in Ids : Kept(y, bind[t].name)'
            <4>1. t \in retirements /\ t \in Ids /\ t # i /\ t # x
                BY <1>0, <1>1, <1>2, <2>0, <2>2, <3>6 DEF Open, Superseded
            <4>2. bind'[t].name = bind[t].name
                BY <2>3, <4>1
            <4>3. PICK y \in Ids : Kept(y, bind[t].name)
                BY <2>0, <3>6, <4>1, <4>2 DEF Open, Untouched
            <4>4. y # i /\ y \notin retirements' /\ ~Retired(y)'
                BY <1>1, <1>2, <2>6, <4>3 DEF Kept
            <4>5. bind'[y].state = bind[y].state /\ bind'[y].name = bind[y].name /\ bind'[y].bound = bind[y].bound
                BY <1>3, <2>3, <4>4 DEF Alone
            <4> QED BY <4>2, <4>3, <4>4, <4>5 DEF Kept
        <3> QED BY <1>2, <1>5, <2>1, <3>1, <3>2, <3>3, <3>4, <3>5, <3>6 DEF Untouched
    <2> QED BY <1>7, <2>7, <2>8, <2>9, <2>10, <2>11, <2>12, <2>13 DEF IInv, Open
<1> QED BY <1>8, <1>9

LEMMA SupersedesStep == ASSUME IInv, NEW n \in Names, Supersedes(n) PROVE IInv'
<1> DEFINE x == rec.current[n]
           i == NextId
           o == bind[x].replaces
           r == NewBinding(n, rec.wanted[n], "made", o)
           q == [bind[x] EXCEPT !.superseded = TRUE, !.replaces = None]
           s == Stopped(q)
<1>0. /\ bind \in [Ids -> Binding] /\ None \notin Ids /\ retirements \subseteq Ids /\ rec \in Reconcile
      /\ \A y \in Ids : bind[y].replaces \in Ids \union {None} /\ bind[y].name \in Names \union {None}
      /\ rec.wanted[n] \in 0..MaxVersion /\ rec.created \subseteq Ids /\ rec.todo \subseteq Names
      /\ x \in Ids \union {None}
    BY Known
<1>1. /\ rec.at = "names" /\ n \in rec.todo /\ x \in Ids /\ ~bind[x].bound
      /\ rec' = [rec EXCEPT !.at = "replacing"] /\ retire' = Retiring(x, None)
      /\ bind' = [bind EXCEPT ![x] = s, ![i] = r]
      /\ UNCHANGED <<source, maps, flag, lock, retirements, call, pairs, budget, given>>
    BY <1>0 DEF Supersedes
<1> HIDE DEF x
<1>2. /\ i \in Ids /\ bind[i].state = "unmade"
      /\ r \in Binding /\ r.name = n /\ r.state = "made" /\ ~r.superseded /\ r.replaces = o
      /\ r.loop = "off" /\ ~r.bound /\ ~r.ready
    <2>1. Room /\ o \in Ids \union {None}
        BY <1>0, <1>1 DEF Supersedes
    <2> HIDE DEF o
    <2> QED BY <1>0, <2>1, NewIs
<1>3. q \in Binding /\ q.superseded /\ q.replaces = None /\ q.state = bind[x].state /\ q.name = bind[x].name
    <2>1. bind[x] \in Binding
        BY <1>0, <1>1
    <2> QED BY <2>1 DEF Binding
<1> HIDE DEF q
<1>4. s \in Binding /\ s.superseded /\ s.replaces = None /\ s.state = bind[x].state /\ s.name = bind[x].name
      /\ s.loop = "off" /\ ~s.bound /\ ~s.ready
    BY <1>3, StoppedIs DEF Alike
<1> HIDE DEF i, r, s
<1>5. /\ rec' \in Reconcile /\ rec'.at = "replacing" /\ rec'.todo = rec.todo /\ rec'.created = rec.created
      /\ rec'.wanted = rec.wanted /\ rec'.current = rec.current
    BY <1>0, <1>1 DEF Reconcile
<1>6. bind' \in [Ids -> Binding]
    BY <1>0, <1>1, <1>2, <1>4
<1>7. retire'.at = "draining" /\ retire'.b = x /\ retire'.next = None /\ retire' \in Retirement
    BY <1>1 DEF Retiring, Retirement
<1>8. TypeOK'
    BY <1>1, <1>5, <1>6, <1>7 DEF IInv, TypeOK
<1>9. CASE flag.closing
    BY <1>1, <1>8, <1>9 DEF IInv
<1>10. CASE ~flag.closing
    <2>0. Open
        BY <1>10 DEF IInv
    <2>1. /\ rec.wanted[n] # 0 /\ retire.at = "off" /\ retire.b = None /\ retire.next = None
          /\ lock = "reconcile" /\ call.at # "draining" /\ ~\E y \in Ids : bind[y].state = "made"
          /\ Newest(x) /\ bind[x].name = n /\ x \notin rec.created
          /\ \A m \in Names : Compared(m) =>
                \/ rec.current[m] = None /\ \A y \in Ids : Newest(y) => bind[y].name # m
                \/ rec.current[m] # None /\ Newest(rec.current[m]) /\ bind[rec.current[m]].name = m
                   /\ rec.current[m] \in Ids
          /\ source[n] = 0 => n \in given
        BY <1>0, <1>1, <1>10, LookedUp DEF x
    <2>2. x # i /\ bind[x].state = "named" /\ ~bind[x].superseded
        BY <1>2, <2>1 DEF Newest
    <2>3. bind'[x] = s /\ bind'[i] = r /\ \A y \in Ids \ {x, i} : bind'[y] = bind[y]
        BY <1>0, <1>1, <1>2, <2>2
    <2>4. \A y \in Ids : Newest(y)' <=> Newest(y) /\ y # x
        BY <1>2, <1>4, <2>2, <2>3 DEF Newest
    <2>5. \A y \in Ids : bind'[y].state = "made" <=> y = i
        BY <1>2, <1>4, <2>1, <2>2, <2>3
    <2>6. \A y : ~Retired(y) /\ (Retired(y)' <=> y = x \/ y = None)
        BY <1>7, <2>1 DEF Retired
    <2>7. o # None => /\ o \in Ids /\ bind[o].state = "named" /\ bind[o].superseded /\ bind[o].name = n
                      /\ o \notin retirements /\ o # x /\ o # i
        BY <1>0, <1>1, <1>2, <2>0, <2>1, <2>2 DEF Open, Superseded, Pending
    <2> HIDE DEF o
    <2>8. Turns'
        BY <1>1, <1>2, <1>4, <1>5, <1>7, <2>1, <2>3, <2>5 DEF Turns, Active
    <2>9. Loops'
        <3> DEFINE L(y) ==
                /\ bind'[y].state \in Pending => bind'[y].name \in Names
                /\ bind'[y].loop # "off" => bind'[y].state = "named" /\ y # retire'.b
                /\ bind'[y].loop \notin {"off", "ready"} => ~bind'[y].bound
                /\ bind'[y].state = "made" => ~bind'[y].bound /\ ~bind'[y].ready /\ ~bind'[y].superseded
                /\ bind'[y].state \in Pending /\ (bind'[y].superseded \/ bind'[y].bound) =>
                     bind'[y].replaces = None
                /\ bind'[y].ready => bind'[y].link = "up"
        <3>1. L(x)
            BY <1>4, <2>0, <2>1, <2>2, <2>3 DEF Pending
        <3>2. L(i)
            BY <1>2, <2>3
        <3>3. ASSUME NEW y \in Ids \ {x, i} PROVE L(y)
            BY <1>7, <2>0, <2>3 DEF Open, Loops
        <3> QED BY <3>1, <3>2, <3>3 DEF Loops
    <2>10. Leaving'
        BY <1>0, <1>1, <1>2, <1>4, <1>7, <2>0, <2>2, <2>3 DEF Open, Leaving
    <2>11. Superseded'
        <3>1. ASSUME NEW y \in Ids, bind'[y].state = "named", bind'[y].superseded
              PROVE  Awaited(y)' \/ y \in retirements' \/ Retired(y)'
            <4>1. CASE y = x
                BY <2>6, <4>1
            <4>2. CASE y # x
                <5>1. bind[y].state = "named" /\ bind[y].superseded
                    BY <1>2, <2>3, <3>1, <4>2
                <5>2. Awaited(y) \/ y \in retirements
                    BY <2>0, <2>6, <5>1 DEF Open, Superseded
                <5>3. ASSUME Awaited(y) PROVE Awaited(y)'
                    <6>1. PICK z \in Ids : bind[z].state \in Pending /\ bind[z].replaces = y
                        BY <5>3 DEF Awaited
                    <6>2. CASE z = x
                        BY <1>2, <2>3, <6>1, <6>2 DEF Awaited, Pending, o
                    <6>3. CASE z # x
                        BY <1>2, <2>3, <6>1, <6>3 DEF Awaited, Pending
                    <6> QED BY <6>2, <6>3
                <5> QED BY <1>1, <5>2, <5>3
            <4> QED BY <4>1, <4>2
        <3>2. ASSUME NEW y \in Ids, bind'[y].state \in Pending, bind'[y].replaces # None,
                     NEW t, t = bind'[y].replaces
              PROVE  /\ bind'[t].state = "named" /\ bind'[t].superseded /\ bind'[t].name = bind'[y].name
                     /\ t \notin retirements' /\ ~Retired(t)'
            <4>1. CASE y = i
                <5>1. t = o /\ t # None
                    BY <1>2, <2>3, <3>2, <4>1
                <5> QED BY <1>1, <1>2, <2>3, <2>6, <2>7, <4>1, <5>1
            <4>2. CASE y # i
                <5>1. y # x /\ t = bind[y].replaces /\ bind[y].state \in Pending /\ t # None /\ t \in Ids
                    BY <1>0, <1>4, <2>2, <2>3, <3>2, <4>2
                <5>2. bind[t].state = "named" /\ bind[t].superseded /\ bind[t].name = bind[y].name
                      /\ t \notin retirements
                    BY <2>0, <5>1 DEF Open, Superseded
                <5>3. t # x /\ t # i
                    BY <1>2, <2>2, <5>2
                <5> QED BY <1>1, <2>3, <2>6, <4>2, <5>1, <5>2, <5>3
            <4> QED BY <4>1, <4>2
        <3>3. ASSUME NEW y \in Ids, NEW z \in Ids, bind'[y].state \in Pending, bind'[z].state \in Pending,
                     bind'[y].replaces # None, bind'[y].replaces = bind'[z].replaces
              PROVE  y = z
            <4>1. \A t \in Ids : bind[t].state \in Pending /\ bind[t].replaces = o /\ o # None => t = x
                BY <1>1, <2>0, <2>2 DEF Open, Superseded, Pending, o
            <4>2. y # x /\ z # x
                BY <1>4, <2>2, <2>3, <3>3
            <4>3. CASE y = i \/ z = i
                BY <1>2, <2>3, <3>3, <4>1, <4>2, <4>3
            <4>4. CASE y # i /\ z # i
                BY <2>0, <2>3, <3>3, <4>2, <4>4 DEF Open, Superseded
            <4> QED BY <4>3, <4>4
        <3>4. \A y \in retirements' : bind'[y].state = "named" /\ bind'[y].superseded /\ ~Retired(y)'
            <4>1. \A y \in retirements : y \in Ids /\ bind[y].state = "named" /\ bind[y].superseded
                BY <1>0, <2>0 DEF Open, Superseded
            <4> QED BY <1>0, <1>1, <1>2, <2>2, <2>3, <2>6, <4>1
        <3> QED BY <3>1, <3>2, <3>3, <3>4 DEF Superseded
    <2>12. OneEach'
        <3>1. \A y \in Ids : Newest(y)' => bind'[y].name = bind[y].name
            BY <1>2, <2>2, <2>3, <2>4 DEF Newest
        <3>2. \A y, z \in Ids : Newest(y)' /\ Newest(z)' /\ bind'[y].name = bind'[z].name => y = z
            BY <2>0, <2>4, <3>1 DEF Open, OneEach
        <3>3. \A y \in Ids : Newest(y)' => bind'[y].name # n
            <4> SUFFICES ASSUME NEW y \in Ids, Newest(y), y # x PROVE bind[y].name # n
                BY <2>4, <3>1
            <4>1. x \in Ids
                BY <1>1
            <4> QED BY <2>0, <2>1, <4>1 DEF Open, OneEach
        <3>4. \A y \in Ids : bind'[y].state = "made" =>
                /\ bind'[y].name \in rec'.todo
                /\ \A z \in Ids : Newest(z)' => bind'[z].name # bind'[y].name
                /\ \A z \in Ids : bind'[z].state = "made" => y = z
            BY <1>1, <1>2, <1>5, <2>3, <2>5, <3>3
        <3>5. \A m \in rec'.todo : rec'.wanted[m] # 0
            BY <1>1, <1>5, <2>0 DEF Open, OneEach, Comparing
        <3>6. ASSUME NEW m \in Names, Compared(m)'
              PROVE  \/ \E y \in Ids : bind'[y].state = "made" /\ bind'[y].name = m
                     \/ rec'.current[m] = None /\ \A y \in Ids : Newest(y)' => bind'[y].name # m
                     \/ rec'.current[m] # None /\ Newest(rec.current[m])' /\ bind'[rec'.current[m]].name = m
            <4>1. CASE m = n
                BY <1>2, <2>3, <4>1
            <4>2. CASE m # n
                <5>1. Compared(m)
                    BY <1>5, <3>6 DEF Compared
                <5>2. CASE rec.current[m] = None /\ \A y \in Ids : Newest(y) => bind[y].name # m
                    BY <1>5, <2>4, <3>1, <5>2
                <5>3. CASE rec.current[m] # None /\ Newest(rec.current[m]) /\ bind[rec.current[m]].name = m
                           /\ rec.current[m] \in Ids
                    <6>1. rec.current[m] # x /\ rec.current[m] # i
                        BY <1>2, <2>1, <4>2, <5>3 DEF Newest
                    <6> QED BY <1>5, <2>3, <5>3, <6>1 DEF Newest
                <5> QED BY <2>1, <5>1, <5>2, <5>3
            <4> QED BY <4>1, <4>2
        <3> QED BY <1>1, <1>5, <2>1, <3>2, <3>4, <3>5, <3>6 DEF OneEach
    <2>13. Calls'
        <3>1. \A y \in Named' : y \in Named /\ (y = x \/ bind'[y] = bind[y])
            BY <1>2, <2>2, <2>3 DEF Named
        <3>2. UNCHANGED <<flag, call, given>> /\ ~bind'[x].ready /\ ~bind'[x].bound
            BY <1>1, <1>4, <2>3
        <3> QED BY <2>0, <3>1, <3>2 DEF Open, Calls
    <2>14. Untouched'
        <3>1. \A y \in Ids : bind'[y].state = "named" /\ bind'[y].name \notin given /\ bind'[y].loop # "off" =>
                ~bind'[y].bound /\ ~bind'[y].superseded
            BY <1>2, <1>4, <2>0, <2>3 DEF Open, Untouched
        <3>2. \A y \in rec'.created : Newest(y)' /\ bind'[y].loop = "off" /\ ~bind'[y].bound
            <4>1. \A y \in rec.created : y \in Ids /\ Newest(y) /\ bind[y].loop = "off" /\ ~bind[y].bound
                BY <1>0, <1>1, <2>0 DEF Open, Untouched, Comparing
            <4>2. \A y \in rec.created : y # x /\ y # i
                BY <1>2, <2>1, <4>1 DEF Newest
            <4> QED BY <1>5, <2>3, <2>4, <4>1, <4>2
        <3>3. \A m \in rec'.todo : rec'.current[m] \notin rec'.created
            BY <1>1, <1>5, <2>0 DEF Open, Untouched, Comparing
        <3>4. /\ \A m \in rec'.todo : source[m] = 0 => m \in given
              /\ \A m \in Names : rec'.wanted[m] = 0 /\ rec'.current[m] # None => m \in given
            BY <1>1, <1>5, <2>0 DEF Open, Untouched, Comparing
        <3>5. \A y \in Ids : bind'[y].state \in Pending /\ source[bind'[y].name] = 0 => bind'[y].name \in given
            BY <1>2, <1>4, <2>0, <2>1, <2>3 DEF Open, Untouched
        <3>6. ASSUME NEW t \in retirements', bind'[t].name \notin given
              PROVE  \E y \in Ids : Kept(y, bind[t].name)'
            <4>1. t \in retirements /\ t \in Ids /\ t # i /\ t # x
                BY <1>0, <1>1, <1>2, <2>0, <2>2, <3>6 DEF Open, Superseded
            <4>2. bind'[t].name = bind[t].name
                BY <2>3, <4>1
            <4>3. PICK y \in Ids : Kept(y, bind[t].name)
                BY <2>0, <3>6, <4>1, <4>2 DEF Open, Untouched
            <4>4. y # i /\ y # x /\ y # None
                BY <1>0, <1>1, <1>2, <4>3 DEF Kept
            <4>5. bind'[y] = bind[y] /\ y \notin retirements' /\ ~Retired(y)'
                BY <1>1, <2>3, <2>6, <4>3, <4>4 DEF Kept
            <4> QED BY <4>2, <4>3, <4>5 DEF Kept
        <3> QED BY <1>1, <1>5, <1>7, <3>1, <3>2, <3>3, <3>4, <3>5, <3>6 DEF Untouched
    <2> QED BY <1>8, <2>8, <2>9, <2>10, <2>11, <2>12, <2>13, <2>14 DEF IInv, Open
<1> QED BY <1>9, <1>10

\* How the end of a retirement leaves the bindings.
LEMMA RetireEndsIs ==
    ASSUME IInv, RetireEnds, NEW x, x = retire.b
    PROVE  /\ TypeOK'
           /\ \A y \in Ids : y = x =>
                /\ bind'[y].state = "gone" /\ bind'[y].link = "closed" /\ bind'[y].loop = bind[y].loop
                /\ bind'[y].bound = bind[y].bound /\ bind'[y].ready = bind[y].ready
                /\ bind'[y].runs = bind[y].runs /\ bind'[y].revoked = bind[y].revoked
                /\ bind'[y].lost = bind[y].lost
           /\ \A y \in Ids : y # x /\ rec.at = "replacing" /\ bind[y].state = "made" =>
                /\ bind'[y].state = "named" /\ bind'[y].name = bind[y].name
                /\ bind'[y].superseded = bind[y].superseded /\ bind'[y].replaces = bind[y].replaces
                /\ bind'[y].loop = bind[y].loop /\ Alone(bind'[y], bind[y])
           /\ \A y \in Ids : y # x /\ y = retire.next /\ ~(rec.at = "replacing" /\ bind[y].state = "made") =>
                /\ Alike(bind[y], bind'[y]) /\ bind'[y].loop = "off" /\ ~bind'[y].ready /\ ~bind'[y].bound
           /\ \A y \in Ids : y # x /\ y # retire.next /\ ~(rec.at = "replacing" /\ bind[y].state = "made") =>
                bind'[y] = bind[y]
<1> DEFINE next == retire.next
           made == IF rec.at = "replacing" THEN {y \in Ids : bind[y].state = "made"} ELSE {}
           gone(y) == [bind[y] EXCEPT !.state = "gone", !.link = "closed", !.sub = "none"]
           named(y) == [bind[y] EXCEPT !.state = "named"]
<1>0. /\ bind \in [Ids -> Binding] /\ rec \in Reconcile /\ retire \in Retirement
      /\ retire.b \in Ids \union {None} /\ next \in Ids \union {None}
    BY Known
<1>1. /\ bind' = [y \in Ids |-> IF y = x THEN [bind[x] EXCEPT !.state = "gone", !.link = "closed", !.sub = "none"]
                                ELSE IF y \in made THEN named(y)
                                ELSE IF y = next THEN Stopped(bind[y]) ELSE bind[y]]
      /\ pairs' = Cardinality(Named \ {x})
      /\ retire' = IF next = None THEN NotRetiring ELSE Retiring(next, None)
      /\ lock' = IF lock = "retirement" THEN "free" ELSE lock
      /\ rec' = IF made = {} THEN rec
                ELSE [rec EXCEPT !.at = "names", !.created = @ \cup made,
                                 !.todo = @ \ {bind[y].name : y \in made}]
      /\ UNCHANGED <<source, maps, flag, retirements, call, budget, given>>
    BY DEF RetireEnds
<1>2. made \subseteq Ids /\ \A y \in Ids : y \in made <=> rec.at = "replacing" /\ bind[y].state = "made"
    OBVIOUS
<1>3. \A y \in Ids : bind[y] \in Binding
    BY <1>0
<1>4. ASSUME NEW y \in Ids
      PROVE  /\ gone(y) \in Binding
             /\ gone(y).state = "gone" /\ gone(y).link = "closed" /\ gone(y).loop = bind[y].loop
             /\ gone(y).bound = bind[y].bound /\ gone(y).ready = bind[y].ready
             /\ gone(y).runs = bind[y].runs /\ gone(y).revoked = bind[y].revoked /\ gone(y).lost = bind[y].lost
    BY <1>3 DEF Binding
<1>5. ASSUME NEW y \in Ids
      PROVE  /\ named(y) \in Binding
             /\ named(y).state = "named" /\ named(y).name = bind[y].name
             /\ named(y).superseded = bind[y].superseded /\ named(y).replaces = bind[y].replaces
             /\ named(y).loop = bind[y].loop /\ Alone(named(y), bind[y])
    <2>1. bind[y] \in Binding
        BY <1>3
    <2> QED BY <2>1 DEF Binding, Alone
<1>6. ASSUME NEW y \in Ids
      PROVE  /\ Stopped(bind[y]) \in Binding /\ Alike(bind[y], Stopped(bind[y]))
             /\ Stopped(bind[y]).loop = "off" /\ ~Stopped(bind[y]).ready /\ ~Stopped(bind[y]).bound
    BY <1>3, StoppedIs
<1>7. \A y \in Ids : /\ y = x => bind'[y] = gone(y)
                     /\ y # x /\ y \in made => bind'[y] = named(y)
                     /\ y # x /\ y \notin made /\ y = next => bind'[y] = Stopped(bind[y])
                     /\ y # x /\ y \notin made /\ y # next => bind'[y] = bind[y]
    BY <1>1
<1>8. bind' = [y \in Ids |-> bind'[y]]
    BY <1>1
<1> HIDE DEF gone, named
<1>9. bind' \in [Ids -> Binding]
    <2>1. \A y \in Ids : bind'[y] \in Binding
        BY <1>3, <1>4, <1>5, <1>6, <1>7
    <2> QED BY <1>8, <2>1
<1>10. rec' \in Reconcile
    <2> HIDE DEF made
    <2> QED BY <1>0, <1>1, <1>2 DEF Reconcile
<1>11. retire' \in Retirement /\ lock' \in {"free", "reconcile", "retirement", "pause"}
    BY <1>0, <1>1 DEF Retirement, Retiring, NotRetiring, IInv, TypeOK
<1>12. pairs' \in 0..MaxBindings
    <2>1. Named \ {x} \in SUBSET Ids
        BY DEF Named
    <2> QED BY <1>1, <2>1, PairsCounted
<1>13. TypeOK'
    BY <1>1, <1>9, <1>10, <1>11, <1>12 DEF IInv, TypeOK
<1> HIDE DEF made
<1>14. /\ \A y \in Ids : y = x =>
                /\ bind'[y].state = "gone" /\ bind'[y].link = "closed" /\ bind'[y].loop = bind[y].loop
                /\ bind'[y].bound = bind[y].bound /\ bind'[y].ready = bind[y].ready
                /\ bind'[y].runs = bind[y].runs /\ bind'[y].revoked = bind[y].revoked
                /\ bind'[y].lost = bind[y].lost
       /\ \A y \in Ids : y # x /\ y \in made =>
                /\ bind'[y].state = "named" /\ bind'[y].name = bind[y].name
                /\ bind'[y].superseded = bind[y].superseded /\ bind'[y].replaces = bind[y].replaces
                /\ bind'[y].loop = bind[y].loop /\ Alone(bind'[y], bind[y])
       /\ \A y \in Ids : y # x /\ y = next /\ y \notin made =>
                /\ Alike(bind[y], bind'[y]) /\ bind'[y].loop = "off" /\ ~bind'[y].ready /\ ~bind'[y].bound
    BY <1>4, <1>5, <1>6, <1>7
<1> QED BY <1>2, <1>7, <1>13, <1>14

\* The retirement of what a reconcile supersedes ends: the new binding takes its place.
LEMMA RetireEndsAdds == ASSUME IInv, ~flag.closing, RetireEnds, rec.at = "replacing" PROVE IInv'
<1> DEFINE x == retire.b
<1>0. /\ bind \in [Ids -> Binding] /\ None \notin Ids /\ retirements \subseteq Ids /\ rec \in Reconcile
      /\ \A y \in Ids : bind[y].replaces \in Ids \union {None} /\ bind[y].name \in Names \union {None}
      /\ rec.created \subseteq Ids /\ rec.todo \subseteq Names /\ x \in Ids \union {None}
      /\ rec.current \in [Names -> Ids \union {None}] /\ Open
    BY Known
<1>1. /\ retire.at = "closing" /\ retire.next = None /\ lock = "reconcile" /\ call.at # "draining"
      /\ bind[x].superseded /\ x # None /\ x \in Ids
      /\ bind[x].state = "named" /\ ~bind[x].bound /\ ~bind[x].ready /\ bind[x].replaces = None
      /\ bind[x].loop = "off" /\ (bind[x].runs > 0 => bind[x].revoked \/ bind[x].lost)
    <2>1. /\ retire.at = "closing" /\ retire.next = None /\ lock = "reconcile" /\ call.at # "draining"
          /\ bind[x].superseded
        BY <1>0 DEF Open, Turns, Active, RetireEnds
    <2>2. x # None /\ x \in Ids
        BY <1>0, <2>1 DEF Open, Leaving
    <2>3. /\ bind[x].state = "named" /\ ~bind[x].bound /\ ~bind[x].ready /\ bind[x].replaces = None
          /\ (bind[x].runs > 0 => bind[x].revoked \/ bind[x].lost)
        BY <1>0, <2>1 DEF Open, Leaving
    <2>4. bind[x].loop = "off"
        BY <1>0, <2>2 DEF Open, Loops
    <2> QED BY <2>1, <2>2, <2>3, <2>4
<1>2. PICK i \in Ids : bind[i].state = "made"
    BY <1>0 DEF Open, Turns
<1>3. /\ \A y \in Ids : bind[y].state = "made" => y = i
      /\ bind[i].name \in rec.todo /\ \A y \in Ids : Newest(y) => bind[y].name # bind[i].name
      /\ \A m \in rec.todo : rec.wanted[m] # 0
      /\ ~bind[i].bound /\ ~bind[i].ready /\ ~bind[i].superseded /\ bind[i].loop = "off" /\ i # x
    BY <1>0, <1>1, <1>2 DEF Open, OneEach, Loops, Comparing
<1>4. TypeOK' /\ bind' \in [Ids -> Binding]
    BY RetireEndsIs DEF TypeOK
<1>5. /\ bind'[x].state = "gone" /\ bind'[x].link = "closed" /\ bind'[x].loop = "off"
      /\ ~bind'[x].bound /\ ~bind'[x].ready /\ (bind'[x].runs > 0 => bind'[x].revoked \/ bind'[x].lost)
    BY <1>1, RetireEndsIs
<1>6. /\ bind'[i].state = "named" /\ bind'[i].name = bind[i].name /\ ~bind'[i].superseded
      /\ bind'[i].replaces = bind[i].replaces /\ bind'[i].loop = "off" /\ ~bind'[i].bound /\ ~bind'[i].ready
    BY <1>2, <1>3, RetireEndsIs DEF Alone
<1>7. \A y \in Ids \ {x, i} : bind'[y] = bind[y]
    <2>1. \A y \in Ids : y # x /\ y # retire.next /\ ~(rec.at = "replacing" /\ bind[y].state = "made") =>
                bind'[y] = bind[y]
        BY RetireEndsIs
    <2> QED BY <1>0, <1>1, <1>3, <2>1
<1>8. /\ rec' = [rec EXCEPT !.at = "names", !.created = @ \cup {i}, !.todo = @ \ {bind[i].name}]
      /\ retire' = NotRetiring /\ lock' = lock
      /\ UNCHANGED <<source, maps, flag, retirements, call, budget, given>>
    <2> DEFINE made == {y \in Ids : bind[y].state = "made"}
    <2>1. made = {i} /\ {bind[y].name : y \in made} = {bind[i].name}
        BY <1>2, <1>3
    <2>2. rec' = IF made = {} THEN rec
                 ELSE [rec EXCEPT !.at = "names", !.created = @ \cup made,
                                  !.todo = @ \ {bind[y].name : y \in made}]
        BY DEF RetireEnds
    <2> HIDE DEF made
    <2> QED BY <1>1, <2>1, <2>2 DEF RetireEnds
<1>9. /\ rec'.at = "names" /\ rec'.created = rec.created \union {i} /\ rec'.todo = rec.todo \ {bind[i].name}
      /\ rec'.wanted = rec.wanted /\ rec'.current = rec.current
      /\ retire'.at = "off" /\ retire'.b = None /\ retire'.next = None
    BY <1>0, <1>8 DEF Reconcile, NotRetiring
<1> HIDE DEF x
<1>10. \A y \in Ids : Newest(y)' <=> Newest(y) \/ y = i
    BY <1>1, <1>2, <1>5, <1>6, <1>7 DEF Newest
<1>11. \A y \in Ids : bind'[y].state # "made"
    BY <1>3, <1>5, <1>6, <1>7
<1>12. \A y : (Retired(y) <=> y = x \/ y = None) /\ ~Retired(y)'
    BY <1>1, <1>9 DEF Retired, x
<1>13. Turns'
    BY <1>1, <1>8, <1>9, <1>11 DEF Turns, Active
<1>14. Loops'
    <2> DEFINE L(y) ==
            /\ bind'[y].state \in Pending => bind'[y].name \in Names
            /\ bind'[y].loop # "off" => bind'[y].state = "named" /\ y # retire'.b
            /\ bind'[y].loop \notin {"off", "ready"} => ~bind'[y].bound
            /\ bind'[y].state = "made" => ~bind'[y].bound /\ ~bind'[y].ready /\ ~bind'[y].superseded
            /\ bind'[y].state \in Pending /\ (bind'[y].superseded \/ bind'[y].bound) =>
                 bind'[y].replaces = None
            /\ bind'[y].ready => bind'[y].link = "up"
    <2>1. L(x)
        BY <1>5 DEF Pending
    <2>2. L(i)
        BY <1>0, <1>3, <1>6
    <2>3. ASSUME NEW y \in Ids \ {x, i} PROVE L(y)
        BY <1>0, <1>7, <1>9, <2>3 DEF Open, Loops
    <2> QED BY <2>1, <2>2, <2>3 DEF Loops
<1>15. Leaving'
    BY <1>0, <1>5, <1>6, <1>7, <1>9 DEF Open, Leaving
<1>16. Superseded'
    <2>1. ASSUME NEW y \in Ids, bind'[y].state = "named", bind'[y].superseded
          PROVE  Awaited(y)' \/ y \in retirements' \/ Retired(y)'
        <3>1. y # x /\ y # i /\ bind[y].state = "named" /\ bind[y].superseded
            BY <1>5, <1>6, <1>7, <2>1
        <3>2. Awaited(y) \/ y \in retirements
            BY <1>0, <1>12, <3>1 DEF Open, Superseded
        <3>3. ASSUME Awaited(y) PROVE Awaited(y)'
            <4>1. PICK z \in Ids : bind[z].state \in Pending /\ bind[z].replaces = y
                BY <3>3 DEF Awaited
            <4>2. z # x
                BY <1>0, <1>1, <4>1
            <4> QED BY <1>6, <1>7, <4>1, <4>2 DEF Awaited, Pending
        <3> QED BY <1>8, <3>2, <3>3
    <2>2. ASSUME NEW y \in Ids, bind'[y].state \in Pending, bind'[y].replaces # None
          PROVE  /\ bind[y].state \in Pending /\ bind'[y].replaces = bind[y].replaces
                 /\ bind'[y].name = bind[y].name
        BY <1>2, <1>5, <1>6, <1>7, <2>2 DEF Pending
    <2>3. ASSUME NEW y \in Ids, bind'[y].state \in Pending, bind'[y].replaces # None,
                 NEW t, t = bind'[y].replaces
          PROVE  /\ bind'[t].state = "named" /\ bind'[t].superseded /\ bind'[t].name = bind'[y].name
                 /\ t \notin retirements' /\ ~Retired(t)'
        <3>1. t = bind[y].replaces /\ bind[y].state \in Pending /\ t # None /\ t \in Ids
            BY <1>0, <2>2, <2>3
        <3>2. bind[t].state = "named" /\ bind[t].superseded /\ bind[t].name = bind[y].name
              /\ t \notin retirements /\ ~Retired(t)
            BY <1>0, <3>1 DEF Open, Superseded
        <3>3. t # x /\ t # i
            BY <1>2, <1>12, <3>2
        <3> QED BY <1>7, <1>8, <1>12, <2>2, <2>3, <3>1, <3>2, <3>3
    <2>4. \A y, z \in Ids :
            bind'[y].state \in Pending /\ bind'[z].state \in Pending
            /\ bind'[y].replaces # None /\ bind'[y].replaces = bind'[z].replaces => y = z
        BY <1>0, <2>2 DEF Open, Superseded
    <2>5. \A y \in retirements' : bind'[y].state = "named" /\ bind'[y].superseded /\ ~Retired(y)'
        <3>1. \A y \in retirements : y \in Ids /\ bind[y].state = "named" /\ bind[y].superseded /\ ~Retired(y)
            BY <1>0 DEF Open, Superseded
        <3> QED BY <1>2, <1>7, <1>8, <1>12, <3>1
    <2> QED BY <2>1, <2>3, <2>4, <2>5 DEF Superseded
<1>17. OneEach'
    <2>1. \A y \in Ids : Newest(y) => bind'[y].name = bind[y].name /\ y # i /\ y # x
        BY <1>1, <1>2, <1>7 DEF Newest
    <2>2. ASSUME NEW y \in Ids, NEW z \in Ids, Newest(y)', Newest(z)', bind'[y].name = bind'[z].name
          PROVE  y = z
        <3>1. CASE y = i \/ z = i
            BY <1>3, <1>6, <1>10, <2>1, <2>2, <3>1
        <3>2. CASE y # i /\ z # i
            BY <1>0, <1>10, <2>1, <2>2, <3>2 DEF Open, OneEach
        <3> QED BY <3>1, <3>2
    <2>3. \A m \in rec'.todo : rec'.wanted[m] # 0
        BY <1>3, <1>9
    <2>4. ASSUME NEW m \in Names, Compared(m)'
          PROVE  \/ rec'.current[m] = None /\ \A y \in Ids : Newest(y)' => bind'[y].name # m
                 \/ rec'.current[m] # None /\ Newest(rec.current[m])' /\ bind'[rec'.current[m]].name = m
        <3>1. m # bind[i].name /\ Compared(m)
            BY <1>3, <1>9, <2>4 DEF Compared
        <3>2. \/ rec.current[m] = None /\ \A y \in Ids : Newest(y) => bind[y].name # m
              \/ rec.current[m] # None /\ Newest(rec.current[m]) /\ bind[rec.current[m]].name = m
            BY <1>0, <1>3, <3>1 DEF Open, OneEach, Comparing
        <3>3. CASE rec.current[m] = None /\ \A y \in Ids : Newest(y) => bind[y].name # m
            BY <1>6, <1>9, <1>10, <2>1, <3>1, <3>3
        <3>4. CASE rec.current[m] # None /\ Newest(rec.current[m]) /\ bind[rec.current[m]].name = m
            <4>1. rec.current[m] \in Ids
                BY <1>0, <3>4
            <4> QED BY <1>9, <1>10, <2>1, <3>4, <4>1
        <3> QED BY <3>2, <3>3, <3>4
    <2> QED BY <1>1, <1>8, <1>9, <1>11, <2>2, <2>3, <2>4 DEF OneEach
<1>18. Calls'
    <2>1. \A y \in Named' : y = i \/ (y \in Named /\ bind'[y] = bind[y])
        BY <1>5, <1>7 DEF Named
    <2> QED BY <1>0, <1>6, <1>8, <2>1 DEF Open, Calls
<1>19. Untouched'
    <2>1. \A y \in Ids : bind'[y].state = "named" /\ bind'[y].name \notin given /\ bind'[y].loop # "off" =>
            ~bind'[y].bound /\ ~bind'[y].superseded
        BY <1>0, <1>5, <1>6, <1>7 DEF Open, Untouched
    <2>2. \A y \in rec'.created : Newest(y)' /\ bind'[y].loop = "off" /\ ~bind'[y].bound
        <3>1. \A y \in rec.created : y \in Ids /\ Newest(y) /\ bind[y].loop = "off" /\ ~bind[y].bound
            BY <1>0 DEF Open, Untouched, Comparing
        <3>2. \A y \in rec.created : y # x /\ y # i
            BY <1>1, <1>2, <3>1 DEF Newest
        <3> QED BY <1>6, <1>7, <1>9, <1>10, <3>1, <3>2
    <2>3. ASSUME NEW m \in rec'.todo PROVE rec'.current[m] \notin rec'.created
        <3>1. m \in rec.todo /\ m \in Names /\ Compared(m) /\ m # bind[i].name
            BY <1>0, <1>9, <2>3 DEF Compared
        <3>2. rec.current[m] = None \/ Newest(rec.current[m])
            BY <1>0, <1>3, <3>1 DEF Open, OneEach, Comparing
        <3>3. rec.current[m] # i
            BY <1>0, <1>2, <3>2 DEF Newest
        <3>4. rec.current[m] \notin rec.created
            BY <1>0, <3>1 DEF Open, Untouched, Comparing
        <3> QED BY <1>9, <3>3, <3>4
    <2>4. /\ \A m \in rec'.todo : source[m] = 0 => m \in given
          /\ \A m \in Names : rec'.wanted[m] = 0 /\ rec'.current[m] # None => m \in given
        BY <1>0, <1>9 DEF Open, Untouched, Comparing
    <2>5. \A y \in Ids : bind'[y].state \in Pending /\ source[bind'[y].name] = 0 => bind'[y].name \in given
        BY <1>0, <1>2, <1>5, <1>6, <1>7 DEF Open, Untouched, Pending
    <2>6. ASSUME NEW t \in retirements', bind'[t].name \notin given
          PROVE  \E y \in Ids : Kept(y, bind[t].name)'
        <3>1. t \in retirements /\ t \in Ids /\ t # i /\ t # x
            BY <1>0, <1>2, <1>8, <1>12, <2>6 DEF Open, Superseded
        <3>2. bind'[t].name = bind[t].name
            BY <1>7, <3>1
        <3>3. PICK y \in Ids : Kept(y, bind[t].name)
            BY <1>0, <2>6, <3>1, <3>2 DEF Open, Untouched
        <3>4. y # i /\ y # x
            BY <1>1, <1>3, <3>3 DEF Kept
        <3>5. bind'[y] = bind[y] /\ y \notin retirements' /\ ~Retired(y)'
            BY <1>7, <1>8, <1>12, <3>3, <3>4 DEF Kept
        <3> QED BY <3>2, <3>3, <3>5 DEF Kept
    <2> QED BY <1>8, <1>9, <2>1, <2>2, <2>3, <2>4, <2>5, <2>6 DEF Untouched
<1> QED BY <1>4, <1>13, <1>14, <1>15, <1>16, <1>17, <1>18, <1>19 DEF IInv, Open

\* Any other ends, and the binding it was to replace is next.
LEMMA RetireEndsGoesOn == ASSUME IInv, ~flag.closing, RetireEnds, rec.at # "replacing" PROVE IInv'
<1> DEFINE x == retire.b
           next == retire.next
<1>0. /\ bind \in [Ids -> Binding] /\ None \notin Ids /\ retirements \subseteq Ids /\ rec.gone \subseteq Ids
      /\ \A y \in Ids : bind[y].replaces \in Ids \union {None} /\ bind[y].name \in Names \union {None}
      /\ x \in Ids \union {None} /\ next \in Ids \union {None} /\ Open
    BY Known
<1>1. /\ retire.at = "closing" /\ lock \in {"reconcile", "retirement"} /\ call.at # "draining"
      /\ (lock = "retirement" => next = None /\ rec.at \notin Active)
      /\ (lock = "reconcile" => rec.at = "removing") /\ \A y \in Ids : bind[y].state # "made"
    BY <1>0 DEF Open, Turns, Active, RetireEnds
<1>2. /\ x # None /\ x \in Ids
      /\ bind[x].state = "named" /\ ~bind[x].bound /\ ~bind[x].ready /\ bind[x].replaces = None
      /\ bind[x].loop = "off" /\ (bind[x].runs > 0 => bind[x].revoked \/ bind[x].lost)
    <2>1. x # None /\ x \in Ids
        BY <1>0, <1>1 DEF Open, Leaving
    <2>2. /\ bind[x].state = "named" /\ ~bind[x].bound /\ ~bind[x].ready /\ bind[x].replaces = None
          /\ (bind[x].runs > 0 => bind[x].revoked \/ bind[x].lost)
        BY <1>0, <1>1 DEF Open, Leaving
    <2>3. bind[x].loop = "off"
        BY <1>0, <2>1 DEF Open, Loops
    <2> QED BY <2>1, <2>2, <2>3
<1>3. next # None => /\ next \in Ids /\ next # x /\ bind[next].state = "named" /\ bind[next].superseded
                     /\ bind[next].replaces = None /\ bind[next].name \in given
    BY <1>0 DEF Open, Leaving, Loops, Untouched, Pending
<1>4. TypeOK' /\ bind' \in [Ids -> Binding]
    BY RetireEndsIs DEF TypeOK
<1>5. /\ bind'[x].state = "gone" /\ bind'[x].link = "closed" /\ bind'[x].loop = "off"
      /\ ~bind'[x].bound /\ ~bind'[x].ready /\ (bind'[x].runs > 0 => bind'[x].revoked \/ bind'[x].lost)
    BY <1>2, RetireEndsIs
<1>6. next # None => Alike(bind[next], bind'[next]) /\ bind'[next].loop = "off" /\ ~bind'[next].ready
                     /\ ~bind'[next].bound
    BY <1>3, RetireEndsIs
<1>7. \A y \in Ids : y # x /\ y # next => bind'[y] = bind[y]
    BY RetireEndsIs
<1>8. /\ pairs' = Cardinality(Named \ {x}) /\ rec' = rec
      /\ UNCHANGED <<source, maps, flag, retirements, call, budget, given>>
      /\ lock' = IF lock = "retirement" THEN "free" ELSE lock
    BY DEF RetireEnds
<1>9. /\ retire'.b = next /\ retire'.next = None
      /\ retire'.at = IF next = None THEN "off" ELSE "draining"
    BY DEF RetireEnds, NotRetiring, Retiring, None
<1>10. \A y \in Ids : y # x => /\ bind'[y].state = bind[y].state /\ bind'[y].name = bind[y].name
                               /\ bind'[y].superseded = bind[y].superseded
                               /\ bind'[y].replaces = bind[y].replaces
    BY <1>0, <1>3, <1>6, <1>7 DEF Alike
<1>11. \A y : (Retired(y) <=> y = x \/ y = next) /\ (Retired(y)' <=> next # None /\ (y = next \/ y = None))
    BY <1>1, <1>9 DEF Retired
<1> HIDE DEF x, next
<1>12. \A y \in Ids : Newest(y)' <=> Newest(y) /\ y # x
    BY <1>5, <1>10 DEF Newest
<1>13. Turns'
    BY <1>1, <1>5, <1>8, <1>9, <1>10 DEF Turns, Active
<1>14. Loops'
    <2> DEFINE L(y) ==
            /\ bind'[y].state \in Pending => bind'[y].name \in Names
            /\ bind'[y].loop # "off" => bind'[y].state = "named" /\ y # retire'.b
            /\ bind'[y].loop \notin {"off", "ready"} => ~bind'[y].bound
            /\ bind'[y].state = "made" => ~bind'[y].bound /\ ~bind'[y].ready /\ ~bind'[y].superseded
            /\ bind'[y].state \in Pending /\ (bind'[y].superseded \/ bind'[y].bound) =>
                 bind'[y].replaces = None
            /\ bind'[y].ready => bind'[y].link = "up"
    <2>1. L(x)
        BY <1>5 DEF Pending
    <2>2. ASSUME NEW y \in Ids, y # x, y = next PROVE L(y)
        BY <1>0, <1>3, <1>6, <1>10, <2>2 DEF Open, Loops
    <2>3. ASSUME NEW y \in Ids, y # x, y # next PROVE L(y)
        BY <1>0, <1>7, <1>9, <2>3 DEF Open, Loops
    <2> QED BY <2>1, <2>2, <2>3 DEF Loops
<1>15. Leaving'
    <2>1. retire'.at = "off" <=> retire'.b = None
        BY <1>9
    <2>2. retire'.at # "off" =>
            /\ bind'[retire'.b].state = "named" /\ ~bind'[retire'.b].bound /\ ~bind'[retire'.b].ready
            /\ bind'[retire'.b].replaces = None /\ retire'.at = "draining"
        BY <1>3, <1>6, <1>9, <1>10
    <2>3. ASSUME NEW y \in Ids, bind'[y].state = "gone"
          PROVE  bind'[y].link = "closed" /\ (bind'[y].runs > 0 => bind'[y].revoked \/ bind'[y].lost)
        <3>1. CASE y = x
            BY <1>5, <3>1
        <3>2. CASE y # x
            <4>1. y # next
                BY <1>0, <1>3, <1>10, <2>3, <3>2
            <4> QED BY <1>0, <1>7, <2>3, <3>2, <4>1 DEF Open, Leaving
        <3> QED BY <3>1, <3>2
    <2> QED BY <1>9, <2>1, <2>2, <2>3 DEF Leaving
<1>16. Superseded'
    <2>1. ASSUME NEW y \in Ids, bind'[y].state = "named", bind'[y].superseded
          PROVE  Awaited(y)' \/ y \in retirements' \/ Retired(y)'
        <3>1. y # x /\ bind[y].state = "named" /\ bind[y].superseded
            BY <1>5, <1>10, <2>1
        <3>2. Awaited(y) \/ y \in retirements \/ Retired(y)
            BY <1>0, <3>1 DEF Open, Superseded
        <3>3. ASSUME Awaited(y) PROVE Awaited(y)'
            <4>1. PICK z \in Ids : bind[z].state \in Pending /\ bind[z].replaces = y
                BY <3>3 DEF Awaited
            <4>2. z # x
                BY <1>0, <1>2, <4>1
            <4> QED BY <1>10, <4>1, <4>2 DEF Awaited
        <3>4. Retired(y) => Retired(y)'
            BY <1>0, <1>11, <3>1
        <3> QED BY <1>8, <3>2, <3>3, <3>4
    <2>2. ASSUME NEW y \in Ids, bind'[y].state \in Pending
          PROVE  /\ bind[y].state \in Pending /\ bind'[y].replaces = bind[y].replaces
                 /\ bind'[y].name = bind[y].name
        BY <1>5, <1>10, <2>2 DEF Pending
    <2>3. ASSUME NEW y \in Ids, bind'[y].state \in Pending, bind'[y].replaces # None,
                 NEW t, t = bind'[y].replaces
          PROVE  /\ bind'[t].state = "named" /\ bind'[t].superseded /\ bind'[t].name = bind'[y].name
                 /\ t \notin retirements' /\ ~Retired(t)'
        <3>1. t = bind[y].replaces /\ bind[y].state \in Pending /\ t # None /\ t \in Ids
            BY <1>0, <2>2, <2>3
        <3>2. bind[t].state = "named" /\ bind[t].superseded /\ bind[t].name = bind[y].name
              /\ t \notin retirements /\ ~Retired(t)
            BY <1>0, <3>1 DEF Open, Superseded
        <3>3. t # x /\ ~Retired(t)'
            BY <1>11, <3>1, <3>2
        <3> QED BY <1>8, <1>10, <2>2, <2>3, <3>1, <3>2, <3>3
    <2>4. \A y, z \in Ids :
            bind'[y].state \in Pending /\ bind'[z].state \in Pending
            /\ bind'[y].replaces # None /\ bind'[y].replaces = bind'[z].replaces => y = z
        BY <1>0, <2>2 DEF Open, Superseded
    <2>5. \A y \in retirements' : bind'[y].state = "named" /\ bind'[y].superseded /\ ~Retired(y)'
        <3>1. \A y \in retirements : y \in Ids /\ bind[y].state = "named" /\ bind[y].superseded /\ ~Retired(y)
            BY <1>0 DEF Open, Superseded
        <3> QED BY <1>0, <1>8, <1>10, <1>11, <3>1
    <2> QED BY <2>1, <2>3, <2>4, <2>5 DEF Superseded
<1>17. OneEach'
    <2>1. \A y, z \in Ids : Newest(y)' /\ Newest(z)' /\ bind'[y].name = bind'[z].name => y = z
        BY <1>0, <1>10, <1>12 DEF Open, OneEach
    <2>2. ASSUME NEW y \in rec'.gone, rec'.at = "removing" PROVE Newest(y)' /\ y # retire'.b
        <3>1. y \in Ids /\ Newest(y) /\ y # x
            BY <1>0, <1>8, <2>2 DEF Open, OneEach, x
        <3>2. y # next
            BY <1>0, <1>3, <3>1 DEF Newest
        <3> QED BY <1>9, <1>12, <3>1, <3>2
    <2>3. Named' = Named \ {x}
        BY <1>2, <1>5, <1>10 DEF Named
    <2>4. rec'.at \notin Comparing
        BY <1>1, <1>8 DEF Comparing, Active
    <2>5. \A y \in Ids : bind'[y].state # "made"
        BY <1>1, <1>5, <1>10
    <2> QED BY <1>8, <2>1, <2>2, <2>3, <2>4, <2>5 DEF OneEach
<1>18. Calls'
    <2>1. \A y \in Named' : y \in Named /\ (bind'[y] = bind[y] \/ (~bind'[y].ready /\ ~bind'[y].bound))
        BY <1>0, <1>3, <1>5, <1>6, <1>7, <1>10 DEF Named
    <2> QED BY <1>0, <1>8, <2>1 DEF Open, Calls
<1>19. Untouched'
    <2>1. ASSUME NEW y \in Ids, bind'[y].state = "named", bind'[y].name \notin given, bind'[y].loop # "off"
          PROVE  ~bind'[y].bound /\ ~bind'[y].superseded
        <3>1. y # x /\ y # next
            BY <1>0, <1>5, <1>6, <2>1
        <3> QED BY <1>0, <1>7, <2>1, <3>1 DEF Open, Untouched
    <2>2. rec'.at \notin Comparing
        BY <1>1, <1>8 DEF Comparing, Active
    <2>3. rec'.at = "removing" => \A y \in rec'.gone : bind'[y].name \in given
        <3>1. rec.at = "removing" => \A y \in rec.gone : y \in Ids /\ y # x /\ bind[y].name \in given
            BY <1>0 DEF Open, Untouched, OneEach, x
        <3> QED BY <1>8, <1>10, <3>1
    <2>4. \A y \in Ids : bind'[y].state \in Pending /\ source[bind'[y].name] = 0 => bind'[y].name \in given
        BY <1>0, <1>5, <1>10 DEF Open, Untouched, Pending
    <2>5. ASSUME NEW t \in retirements', bind'[t].name \notin given
          PROVE  \E y \in Ids : Kept(y, bind[t].name)'
        <3>1. t \in retirements /\ t \in Ids /\ t # x
            BY <1>0, <1>8, <1>11, <2>5 DEF Open, Superseded
        <3>2. bind'[t].name = bind[t].name
            BY <1>10, <3>1
        <3>3. PICK y \in Ids : Kept(y, bind[t].name)
            BY <1>0, <2>5, <3>1, <3>2 DEF Open, Untouched
        <3>4. y # x /\ y # next /\ y # None
            BY <1>0, <1>11, <3>3 DEF Kept
        <3>5. bind'[y] = bind[y] /\ y \notin retirements' /\ ~Retired(y)'
            BY <1>7, <1>8, <1>11, <3>3, <3>4 DEF Kept
        <3> QED BY <3>2, <3>3, <3>5 DEF Kept
    <2> QED BY <1>8, <1>9, <2>1, <2>2, <2>3, <2>4, <2>5 DEF Untouched
<1> QED BY <1>4, <1>13, <1>14, <1>15, <1>16, <1>17, <1>18, <1>19 DEF IInv, Open

LEMMA RetireEndsStep == ASSUME IInv, RetireEnds PROVE IInv'
<1>1. CASE flag.closing
    <2>1. TypeOK' /\ flag' = flag
        BY RetireEndsIs DEF RetireEnds
    <2> QED BY <1>1, <2>1 DEF IInv
<1>2. CASE ~flag.closing
    BY <1>2, RetireEndsAdds, RetireEndsGoesOn
<1> QED BY <1>1, <1>2

LEMMA CloseSteps == ASSUME IInv, Close \/ Closed PROVE IInv'
<1>0. /\ TypeOK /\ bind \in [Ids -> Binding] /\ flag \in Flag /\ rec \in Reconcile /\ call \in Call
      /\ \A x \in Ids : bind[x] \in Binding
    BY DEF IInv, TypeOK
<1>1. CASE Close
    <2> DEFINE still(x) == [bind[x] EXCEPT !.loop = "off"]
               gone(x) == [bind[x] EXCEPT !.state = "gone"]
    <2>1. ASSUME NEW x \in Ids PROVE still(x) \in Binding /\ gone(x) \in Binding
        <3>1. still(x) \in Binding
            BY <1>0 DEF Binding
        <3>2. gone(x) \in Binding
            BY <1>0 DEF Binding
        <3> QED BY <3>1, <3>2
    <2>2. bind' = [x \in Ids |-> CASE bind[x].state = "named" -> still(x)
                                   [] bind[x].state = "made"  -> gone(x)
                                   [] OTHER -> bind[x]]
        BY <1>1 DEF Close
    <2> HIDE DEF still, gone
    <2>3. bind' \in [Ids -> Binding]
        <3>1. ASSUME NEW x \in Ids PROVE bind'[x] \in Binding
            <4>1. CASE bind[x].state = "named"
                BY <2>1, <2>2, <4>1
            <4>2. CASE bind[x].state = "made"
                BY <2>1, <2>2, <4>2
            <4>3. CASE bind[x].state # "named" /\ bind[x].state # "made"
                BY <1>0, <2>2, <4>3
            <4> QED BY <4>1, <4>2, <4>3
        <3> QED BY <2>2, <3>1
    <2>4. flag' \in Flag /\ flag'.closing /\ rec' \in Reconcile /\ call' \in Call
        BY <1>0, <1>1 DEF Close, Flag, Reconcile, Call
    <2>5. retire' \in Retirement /\ retirements' = {}
        BY <1>1 DEF Close, NotRetiring, Retirement
    <2>6. lock' \in {"free", "reconcile", "retirement", "pause"} /\ budget' \in Budget /\ given' = given
        BY <1>0, <1>1, Spends DEF Close, TypeOK
    <2>7. pairs' \in 0..MaxBindings /\ UNCHANGED <<source, maps>>
        BY <1>1, Sizes DEF Close
    <2> QED BY <1>0, <2>3, <2>4, <2>5, <2>6, <2>7 DEF IInv, TypeOK
<1>2. CASE Closed
    <2> DEFINE cut(x) == [bind[x] EXCEPT !.ready = FALSE, !.link = "none", !.sub = "none", !.lost = FALSE]
    <2>1. ASSUME NEW x \in Ids PROVE cut(x) \in Binding
        <3>1. bind[x] \in Binding
            BY <1>0
        <3> QED BY <3>1 DEF Binding
    <2>2. bind' = [x \in Ids |-> IF x \in Named THEN cut(x) ELSE bind[x]] /\ flag.closing
          /\ UNCHANGED <<source, maps, flag, lock, rec, retire, retirements, call, pairs, budget, given>>
        BY <1>2 DEF Closed
    <2> HIDE DEF cut
    <2>3. bind' \in [Ids -> Binding]
        BY <1>0, <2>1, <2>2
    <2> QED BY <1>0, <2>2, <2>3 DEF IInv, TypeOK
<1> QED BY <1>1, <1>2

-----------------------------------------------------------------------------
(* The invariant.                                                          *)


-----------------------------------------------------------------------------
(* The invariant.                                                          *)

LEMMA InitIInv == ASSUME Init PROVE IInv
<1>0. IsFiniteSet(Names) /\ MaxVersion \in Nat \ {0} /\ None \notin Ids /\ Budgets \subseteq Budget
    BY Sizes DEF None, Ids, Budget
<1>1. PICK v \in [Names -> 0..1] :
        /\ source = v
        /\ \E id \in [Names -> Ids] :
            /\ \A n, m \in Names : n # m => id[n] # id[m]
            /\ bind = [x \in Ids |->
                         IF \E n \in Names : id[n] = x /\ v[n] # 0
                         THEN LET n == CHOOSE n \in Names : id[n] = x
                              IN  [NewBinding(n, v[n], "named", None) EXCEPT !.loop = "ready"]
                         ELSE Unmade]
            /\ pairs = Cardinality({n \in Names : v[n] # 0})
    BY DEF Init
<1>2. PICK id \in [Names -> Ids] :
        /\ \A n, m \in Names : n # m => id[n] # id[m]
        /\ bind = [x \in Ids |->
                     IF \E n \in Names : id[n] = x /\ v[n] # 0
                     THEN LET n == CHOOSE n \in Names : id[n] = x
                          IN  [NewBinding(n, v[n], "named", None) EXCEPT !.loop = "ready"]
                     ELSE Unmade]
        /\ pairs = Cardinality({n \in Names : v[n] # 0})
    BY <1>1
<1>3. /\ maps \in BOOLEAN /\ ~flag.paused /\ ~flag.closing /\ flag \in Flag /\ lock = "free"
      /\ rec.at = "off" /\ rec \in Reconcile /\ rec.todo = {}
      /\ retire.at = "off" /\ retire.b = None /\ retire.next = None /\ retire \in Retirement
      /\ retirements = {} /\ call.at = "off" /\ call.retry = "off" /\ call \in Call
      /\ budget \in Budget /\ given = {}
    BY <1>0 DEF Init, Flag, Reconcile, Retirement, Call, None
<1> DEFINE Given == {n \in Names : v[n] # 0}
           first(n) == [NewBinding(n, v[n], "named", None) EXCEPT !.loop = "ready"]
<1>4. ASSUME NEW n \in Names
      PROVE  /\ first(n) \in Binding /\ first(n).name = n /\ first(n).state = "named" /\ ~first(n).superseded
             /\ first(n).replaces = None /\ first(n).loop = "ready" /\ ~first(n).bound /\ ~first(n).ready
    <2>1. v[n] \in 0..MaxVersion
        BY <1>0
    <2>2. Unmade \in Binding
        BY <1>0 DEF Unmade, Binding, None
    <2>3. NewBinding(n, v[n], "named", None) \in Binding
        BY <2>1, <2>2 DEF NewBinding, Binding
    <2>4. first(n) \in Binding
        BY <2>3 DEF Binding
    <2>5. first(n) = [Unmade EXCEPT !.name = n, !.version = v[n],
                                    !.state = "named", !.replaces = None, !.loop = "ready"]
        BY DEF NewBinding
    <2>6. /\ first(n).name = n /\ first(n).state = "named" /\ ~first(n).superseded
          /\ first(n).replaces = None /\ first(n).loop = "ready" /\ ~first(n).bound /\ ~first(n).ready
        BY <2>5 DEF Unmade
    <2> QED BY <2>4, <2>6
<1> HIDE DEF first
<1>5. \A n \in Given : bind[id[n]] = first(n)
    <2> SUFFICES ASSUME NEW n \in Given PROVE bind[id[n]] = first(n)
        OBVIOUS
    <2>1. (CHOOSE m \in Names : id[m] = id[n]) = n
        BY <1>2
    <2> QED BY <1>2, <2>1 DEF first
<1>6. \A x \in Ids : (\E n \in Given : id[n] = x) \/ bind[x] = Unmade
    BY <1>2
<1>7. /\ Unmade \in Binding /\ Unmade.state = "unmade" /\ Unmade.loop = "off" /\ ~Unmade.bound /\ ~Unmade.ready
      /\ ~Unmade.superseded
    BY <1>0 DEF Unmade, Binding, None
<1> HIDE DEF Given
<1>8. bind \in [Ids -> Binding]
    <2>1. \A x \in Ids : bind[x] \in Binding
        BY <1>4, <1>5, <1>6, <1>7 DEF Given
    <2>2. bind = [x \in Ids |-> bind[x]]
        BY <1>2
    <2> QED BY <2>1, <2>2
<1>9. \A x \in Ids : \/ /\ bind[x].state = "named" /\ ~bind[x].superseded /\ bind[x].replaces = None
                        /\ bind[x].loop = "ready" /\ ~bind[x].bound /\ ~bind[x].ready
                        /\ bind[x].name \in Given /\ id[bind[x].name] = x
                     \/ bind[x] = Unmade
    BY <1>4, <1>5, <1>6 DEF Given
<1>10. Given \subseteq Names /\ IsFiniteSet(Given) /\ pairs = Cardinality(Given)
    BY <1>0, <1>2, FS_Subset DEF Given
<1>11. pairs = Cardinality(Named)
    <2> DEFINE f == [n \in Given |-> id[n]]
    <2>1. \A n \in Given : id[n] \in Named
        BY <1>4, <1>5, <1>10 DEF Named
    <2>2. \A x \in Named : bind[x].name \in Given /\ id[bind[x].name] = x
        BY <1>7, <1>9 DEF Named
    <2>3. f \in Bijection(Given, Named)
        <3>1. f \in [Given -> Named] /\ \A x \in Named : \E n \in Given : f[n] = x
            BY <2>1, <2>2
        <3>2. \A n, m \in Given : f[n] = f[m] => n = m
            BY <1>2, <1>10
        <3> QED BY <3>1, <3>2, Fun_IsBij
    <2> QED BY <1>10, <2>3, FS_Bijection, Fun_ExistsBij
<1>12. pairs \in 0..MaxBindings
    <2>1. Named \in SUBSET Ids
        BY DEF Named
    <2> QED BY <1>11, <2>1, PairsCounted
<1>13. TypeOK
    <2>1. source \in [Names -> 0..MaxVersion]
        BY <1>0, <1>1
    <2> QED BY <1>3, <1>8, <1>12, <2>1 DEF TypeOK
<1>14. Turns
    BY <1>3, <1>7, <1>9 DEF Turns, Active
<1>15. Loops
    BY <1>0, <1>3, <1>7, <1>9, <1>10 DEF Loops, Pending
<1>16. Leaving
    BY <1>3, <1>7, <1>9 DEF Leaving
<1>17. Superseded
    BY <1>3, <1>7, <1>9 DEF Superseded, Pending
<1>18. OneEach
    BY <1>3, <1>7, <1>9, <1>11 DEF OneEach, Newest, Comparing
<1>19. Calls
    BY <1>3, <1>7, <1>9 DEF Calls, Named
<1>20. Untouched
    <2>1. \A x \in Ids : bind[x].state \in Pending => source[bind[x].name] # 0
        BY <1>1, <1>7, <1>9 DEF Given, Pending
    <2> QED BY <1>3, <1>7, <1>9, <2>1 DEF Untouched, Comparing
<1> QED BY <1>13, <1>14, <1>15, <1>16, <1>17, <1>18, <1>19, <1>20 DEF IInv, Open

LEMMA NextIInv == ASSUME IInv, [Next]_vars PROVE IInv'
<1>1. ASSUME NEW n \in Names, NEW v \in 0..MaxVersion, SourceChanges(n, v) PROVE IInv'
    BY <1>1, SourceStep
<1>2. ASSUME NEW x \in Ids, LoopSteps(x) \/ LoopFaults(x) PROVE IInv'
    BY <1>2, LoopGoesOn, BindsStep
<1>3. ASSUME NEW x \in Ids, Disconnects(x) \/ Reconnects(x) \/ ReconnectRefused(x) \/ RunStarts(x) \/ RunEnds(x)
      PROVE  IInv'
    BY <1>3, OthersGoOn
<1>4. ASSUME NEW x \in Ids, RetirementLocks(x) PROVE IInv'
    BY <1>4, RetirementLocksStep
<1>5. ASSUME RetireDrains \/ RetireWaits PROVE IInv'
    <2>1. CASE retire.b \in Ids
        BY <1>5, <2>1, OthersGoOn
    <2>2. CASE retire.b \notin Ids
        <3>1. flag.closing
            BY <1>5, <2>2, Known DEF Open, Leaving, RetireDrains, RetireWaits
        <3>2. bind' = bind
            BY <1>5, <2>2, Known DEF RetireDrains, RetireWaits, Changes
        <3>3. retire' \in Retirement /\ flag' = flag
              /\ UNCHANGED <<source, maps, lock, rec, retirements, call, pairs, budget, given>>
            BY <1>5, Known DEF RetireDrains, RetireWaits, Retirement
        <3> QED BY <3>1, <3>2, <3>3 DEF IInv, TypeOK
    <2> QED BY <2>1, <2>2
<1>6. ASSUME RetireEnds PROVE IInv'
    BY <1>6, RetireEndsStep
<1>7. ASSUME NEW n \in Names, Keeps(n) \/ Adds(n) \/ Replaces(n) \/ Supersedes(n) PROVE IInv'
    BY <1>7, ReconcileGoesOn, AddsStep, ReplacesStep, SupersedesStep
<1>8. ASSUME ReconcileStarts PROVE IInv'
    BY <1>8, ReconcileStartsStep
<1>9. ASSUME NEW x \in Ids, Removes(x) PROVE IInv'
    BY <1>9, RemovesStep
<1>10. ASSUME ReconcileEnds \/ ReconcileRaises PROVE IInv'
    BY <1>10, ReconcileGoesOn
<1>11. ASSUME ReconcileLocks PROVE IInv'
    BY <1>11, ReconcileLocksStep
<1>12. ASSUME NEW x \in Ids, PauseDrains(x) PROVE IInv'
    BY <1>12, OthersGoOn
<1>13. ASSUME PauseBegin \/ PauseLocks \/ PauseEnds \/ ResumeBegin \/ ResumeDone \/ ResumeFails \/ RetrySucceeds
       PROVE  IInv'
    BY <1>13, CallsGoOn
<1>14. ASSUME ResumeLocks \/ RetryLocks PROVE IInv'
    BY <1>14, ResumeStep
<1>15. ASSUME Close \/ Closed PROVE IInv'
    BY <1>15, CloseSteps
<1>16. CASE UNCHANGED vars
    <2>1. UNCHANGED <<source, maps, bind, flag, lock, rec, retire, retirements, call, pairs, budget, given>>
        BY <1>16 DEF vars
    <2>2. TypeOK' /\ flag' = flag
        BY <2>1 DEF IInv, TypeOK
    <2>3. ASSUME Open PROVE Turns' /\ Calls'
        BY <2>1, <2>3 DEF Open, Turns, Calls, Named
    <2>4. flag.closing => flag'.closing
        BY <2>1
    <2> QED BY <2>1, <2>2, <2>3, <2>4, BindingsStay DEF IInv
<1> QED BY <1>1, <1>2, <1>3, <1>4, <1>5, <1>6, <1>7, <1>8, <1>9, <1>10, <1>11, <1>12, <1>13, <1>14, <1>15, <1>16
        DEF Next, RetireSteps, ReconcileSteps, CallSteps, PauseSteps

THEOREM Invariance == Spec => []IInv
<1>1. Init => IInv
    BY InitIInv
<1>2. IInv /\ [Next]_vars => IInv'
    BY NextIInv
<1> QED BY <1>1, <1>2, PTL DEF Spec

\* Every variable keeps its type: ids, names and versions in range, the pairs
\* registered with the run pool between none and one per binding ever made.
THEOREM TypeCorrect == Spec => []TypeOK
<1>1. IInv => TypeOK
    BY DEF IInv
<1> QED BY <1>1, Invariance, PTL

\* Until the client closes, a superseded binding is retired by exactly one thing
\* (the newer binding that replaces it, a queued retirement, or the one under
\* way), a name has one binding that is not superseded, and the pairs registered
\* with the run pool are those of the bindings, whenever no change is under way.
THEOREM EachSupersededIsRetiredOnce == Spec => []NothingLeftBehind
<1>1. ASSUME IInv PROVE NothingLeftBehind
    <2> SUFFICES ASSUME ~flag.closing PROVE NothingLeftBehind
        BY DEF NothingLeftBehind
    <2>0. Open /\ None \notin Ids /\ retirements \subseteq Ids
        BY <1>1, Known
    <2>1. Cardinality({}) = 0 /\ \A x : Cardinality({x}) = 1
        BY FS_EmptySet, FS_Singleton
    <2>2. \A x, y \in Named :
            bind[x].name = bind[y].name /\ ~bind[x].superseded /\ ~bind[y].superseded => x = y
        BY <2>0 DEF Open, OneEach, Newest, Named
    <2>3. lock = "free" => pairs = Cardinality(Named)
        BY <2>0 DEF Open, OneEach
    <2>4. ASSUME NEW x \in Named, bind[x].superseded
          PROVE  Cardinality({y \in Ids : bind[y].state \in Pending /\ bind[y].replaces = x})
                 + Cardinality(retirements \cap {x}) + Cardinality({retire.b, retire.next} \cap {x}) = 1
        <3> DEFINE waiting == {y \in Ids : bind[y].state \in Pending /\ bind[y].replaces = x}
                   queued == retirements \cap {x}
                   now == {retire.b, retire.next} \cap {x}
        <3>1. x \in Ids /\ x # None /\ bind[x].state = "named"
            BY <2>0 DEF Named
        <3>2. now = IF Retired(x) THEN {x} ELSE {}
            <4>1. x = retire.b \/ x = retire.next => retire.at # "off"
                BY <2>0, <3>1 DEF Open, Leaving
            <4> QED BY <4>1 DEF Retired
        <3>3. queued = IF x \in retirements THEN {x} ELSE {}
            OBVIOUS
        <3>4. CASE \E y \in Ids : bind[y].state \in Pending /\ bind[y].replaces = x
            <4>1. PICK y \in Ids : bind[y].state \in Pending /\ bind[y].replaces = x
                BY <3>4
            <4>2. x \notin retirements /\ ~Retired(x)
                BY <2>0, <3>1, <4>1 DEF Open, Superseded
            <4>3. waiting = {y}
                BY <2>0, <3>1, <4>1 DEF Open, Superseded
            <4> HIDE DEF waiting, queued, now
            <4>4. Cardinality(waiting) = 1 /\ Cardinality(queued) = 0 /\ Cardinality(now) = 0
                BY <2>1, <3>2, <3>3, <4>2, <4>3
            <4> QED BY <4>4 DEF waiting, queued, now
        <3>5. CASE ~\E y \in Ids : bind[y].state \in Pending /\ bind[y].replaces = x
            <4>1. waiting = {}
                BY <3>5
            <4>2. x \in retirements \/ Retired(x)
                BY <2>0, <2>4, <3>1, <3>5 DEF Open, Superseded, Awaited
            <4>3. x \in retirements => ~Retired(x)
                BY <2>0 DEF Open, Superseded
            <4> HIDE DEF waiting, queued, now
            <4>4. /\ Cardinality(waiting) = 0
                  /\ \/ Cardinality(queued) = 1 /\ Cardinality(now) = 0
                     \/ Cardinality(queued) = 0 /\ Cardinality(now) = 1
                BY <2>1, <3>2, <3>3, <4>1, <4>2, <4>3
            <4> QED BY <4>4 DEF waiting, queued, now
        <3> QED BY <3>4, <3>5
    <2> QED BY <2>2, <2>3, <2>4 DEF NothingLeftBehind, Pending
<1> QED BY <1>1, Invariance, PTL

\* Until the client closes, whatever still runs on a connection that has been
\* retired is revoked -- or was started by a subscription nobody knows of.
THEOREM RetiredRunsAreRevoked == Spec => []RevokedOrDone
<1>1. IInv => RevokedOrDone
    BY DEF IInv, Open, Leaving, RevokedOrDone
<1> QED BY <1>1, Invariance, PTL

\* While the client is open, not paused and not about to restart its loops, a
\* binding that reads as ready has a live subscription on an open link, or its
\* loop is at work.
THEOREM ReadyMeansDelivering == Spec => []ReadyDelivers
<1>1. ASSUME IInv PROVE ReadyDelivers
    <2> SUFFICES ASSUME ~flag.closing, ~flag.paused, call.at # "resuming", call.retry # "locking",
                        NEW x \in Named, bind[x].ready, bind[x].loop = "off"
                 PROVE  Live(x)
        BY DEF ReadyDelivers
    <2>1. bind[x].sub # "none" \/ bind[x].lost
        BY <1>1 DEF IInv, Open, Calls
    <2>2. bind[x].link = "up"
        BY <1>1 DEF IInv, Open, Loops, Named
    <2> QED BY <2>1, <2>2 DEF Live
<1> QED BY <1>1, Invariance, PTL

-----------------------------------------------------------------------------
(* New before old.                                                         *)

\* What keeps a name bound across a step: mostly the binding that already does.
LEMMA BoundStays ==
    ASSUME IInv, ~flag.closing, NEW x \in Named, bind[x].bound, bind[x].name \notin given,
           Next, ~flag'.closing, bind[x].name \notin given'
    PROVE  \E y \in Named : /\ bind'[y].state = "named" /\ bind'[y].name = bind[x].name /\ bind'[y].bound
<1> DEFINE Goal == \E y \in Named : /\ bind'[y].state = "named" /\ bind'[y].name = bind[x].name /\ bind'[y].bound
<1>0. /\ Open /\ x \in Ids /\ bind[x].state = "named" /\ bind \in [Ids -> Binding] /\ None \notin Ids
      /\ bind[x] \in Binding
    BY Known DEF Named
<1>1. bind'[x] = bind[x] => Goal
    BY <1>0
<1>2. bind[x].loop = "off"
    BY <1>0 DEF Open, Untouched
<1>3. ASSUME NEW z \in Ids, LoopSteps(z) \/ LoopFaults(z) PROVE Goal
    <2>1. z # x
        BY <1>2, <1>3 DEF LoopSteps, LoopFaults, Attempt, Opens, Subscribes, Binds, Wakes, OpenFails,
              LoginRefused, BindFails, BindRefused
    <2>2. bind'[x] = bind[x]
        BY <1>0, <1>3, <2>1 DEF LoopSteps, LoopFaults, Attempt, Opens, Subscribes, Binds, Wakes, OpenFails,
              LoginRefused, BindFails, BindRefused, Changes
    <2> QED BY <1>1, <2>2
<1>4. ASSUME NEW z \in Ids,
             Disconnects(z) \/ Reconnects(z) \/ ReconnectRefused(z) \/ RunStarts(z) \/ RunEnds(z) \/ PauseDrains(z)
      PROVE  Goal
    <2>1. CASE z # x
        <3>1. bind'[x] = bind[x]
            BY <1>0, <1>4, <2>1 DEF Disconnects, Reconnects, ReconnectRefused, RunStarts, RunEnds, PauseDrains, Changes
        <3> QED BY <1>1, <3>1
    <2>2. CASE z = x
        <3>1. bind'[x].state = bind[x].state /\ bind'[x].name = bind[x].name /\ bind'[x].bound = bind[x].bound
            <4>1. CASE Disconnects(x)
                BY <1>0, <4>1 DEF Disconnects, Changes, Binding
            <4>2. CASE Reconnects(x)
                BY <1>0, <4>2 DEF Reconnects, Changes, Binding
            <4>3. CASE RunStarts(x)
                BY <1>0, <4>3 DEF RunStarts, Changes, Binding
            <4>4. CASE RunEnds(x)
                BY <1>0, <4>4 DEF RunEnds, Changes, Binding
            <4>5. CASE PauseDrains(x)
                BY <1>0, <4>5 DEF PauseDrains, Changes, Binding
            <4>6. CASE ReconnectRefused(x)
                BY <1>0, <4>6 DEF ReconnectRefused, Changes, Binding
            <4> QED BY <1>4, <2>2, <4>1, <4>2, <4>3, <4>4, <4>5, <4>6
        <3> QED BY <1>0, <3>1
    <2> QED BY <2>1, <2>2
<1>5. ASSUME RetireDrains \/ RetireWaits \/ RetireEnds PROVE Goal
    <2>1. retire.at # "off"
        BY <1>5 DEF RetireDrains, RetireWaits, RetireEnds
    <2>2. x # retire.b
        BY <1>0, <2>1 DEF Open, Leaving
    <2>3. x # retire.next
        BY <1>0, Known DEF Open, Untouched
    <2>4. bind'[x] = bind[x]
        <3>1. CASE RetireEnds
            BY <1>0, <2>2, <2>3, <3>1, RetireEndsIs
        <3>2. CASE RetireDrains \/ RetireWaits
            BY <1>0, <2>2, <3>2 DEF RetireDrains, RetireWaits, Changes
        <3> QED BY <1>5, <3>1, <3>2
    <2> QED BY <1>1, <2>4
<1>6. ASSUME NEW z \in Ids, RetirementLocks(z) PROVE Goal
    <2>1. CASE z # x
        <3>1. bind'[x] = bind[x]
            BY <1>0, <1>6, <2>1 DEF RetirementLocks, Changes
        <3> QED BY <1>1, <3>1
    <2>2. CASE z = x
        <3>1. x \in retirements
            BY <1>6, <2>2 DEF RetirementLocks
        <3>2. PICK y \in Ids : Kept(y, bind[x].name)
            BY <1>0, <3>1 DEF Open, Untouched
        <3>3. y # x
            BY <3>1, <3>2 DEF Kept
        <3>4. bind'[y] = bind[y]
            BY <1>0, <1>6, <2>2, <3>3 DEF RetirementLocks, Changes
        <3> QED BY <3>2, <3>4 DEF Kept, Named
    <2> QED BY <2>1, <2>2
<1>7. ASSUME NEW n \in Names, Adds(n) \/ Replaces(n) \/ Supersedes(n) PROVE Goal
    <2>1. NextId \in Ids /\ bind[NextId].state = "unmade"
        BY <1>7 DEF Adds, Replaces, Supersedes, Room, NextId
    <2>2. NextId # x
        BY <1>0, <2>1
    <2>3. rec.current[n] \in Ids \union {None}
        BY Known
    <2>4. CASE Adds(n)
        <3>1. bind'[x] = bind[x]
            BY <1>0, <2>2, <2>4 DEF Adds, Changes
        <3> QED BY <1>1, <3>1
    <2>5. CASE Replaces(n)
        <3> DEFINE r == [bind[x] EXCEPT !.superseded = TRUE]
                   new == NewBinding(n, rec.wanted[n], "named", rec.current[n])
        <3>1. bind' = [bind EXCEPT ![rec.current[n]] = [bind[rec.current[n]] EXCEPT !.superseded = TRUE],
                                   ![NextId] = new]
            BY <1>0, <2>3, <2>5 DEF Replaces
        <3> HIDE DEF new
        <3>2. bind'[x] = bind[x] \/ bind'[x] = r
            BY <1>0, <2>1, <2>2, <3>1
        <3>3. r.state = bind[x].state /\ r.name = bind[x].name /\ r.bound = bind[x].bound
            BY <1>0 DEF Binding
        <3> HIDE DEF r
        <3> QED BY <1>0, <3>2, <3>3
    <2>6. CASE Supersedes(n)
        <3> DEFINE new == NewBinding(n, rec.wanted[n], "made", bind[rec.current[n]].replaces)
                   old == Stopped([bind[rec.current[n]] EXCEPT !.superseded = TRUE, !.replaces = None])
        <3>1. bind' = [bind EXCEPT ![rec.current[n]] = old, ![NextId] = new] /\ rec.current[n] # x
            BY <2>6 DEF Supersedes
        <3> HIDE DEF new, old
        <3>2. bind'[x] = bind[x]
            BY <1>0, <2>2, <3>1
        <3> QED BY <1>1, <3>2
    <2> QED BY <1>7, <2>4, <2>5, <2>6
<1>8. ASSUME NEW z \in Ids, Removes(z) PROVE Goal
    <2>1. z # x
        BY <1>0, <1>8 DEF Removes, Open, Untouched
    <2>2. bind'[x] = bind[x]
        BY <1>0, <1>8, <2>1 DEF Removes, Changes
    <2> QED BY <1>1, <2>2
<1>9. ASSUME ReconcileStarts \/ ResumeLocks \/ RetryLocks PROVE Goal
    <2>1. bind' = bind \/ bind' = LinksStarted(bind, rec.created) \/ bind' = LinksStarted(bind, Ids)
        BY <1>9 DEF ReconcileStarts, ResumeLocks, RetryLocks
    <2>2. bind' = bind \/ (Alike(bind[x], bind'[x]) /\ Alone(bind[x], bind'[x]))
        BY <1>0, <2>1, LinksStartedAre
    <2> QED BY <1>0, <2>2 DEF Alike, Alone
<1>10. ASSUME UNCHANGED bind PROVE Goal
    BY <1>1, <1>10
<1>11. Close => flag'.closing
    BY Known DEF IInv, TypeOK, Flag, Close
<1>12. ~Closed
    BY DEF Closed
<1>13. (\E n \in Names, v \in 0..MaxVersion : SourceChanges(n, v)) \/ (\E n \in Names : Keeps(n))
       \/ ReconcileLocks \/ ReconcileRaises \/ ReconcileEnds \/ PauseBegin \/ PauseLocks \/ PauseEnds
       \/ ResumeBegin \/ ResumeDone \/ ResumeFails \/ RetrySucceeds => UNCHANGED bind
    BY DEF SourceChanges, Keeps, ReconcileLocks, ReconcileRaises, ReconcileEnds, PauseBegin, PauseLocks, PauseEnds,
           ResumeBegin, ResumeDone, ResumeFails, RetrySucceeds
<1> HIDE DEF Goal
<1>14. Goal
    <2>1. ASSUME NEW z \in Ids,
                 \/ LoopSteps(z) \/ LoopFaults(z) \/ Disconnects(z) \/ Reconnects(z) \/ ReconnectRefused(z)
                 \/ RunStarts(z) \/ RunEnds(z) \/ RetirementLocks(z)
          PROVE  Goal
        BY <1>3, <1>4, <1>6, <2>1
    <2>2. RetireSteps => Goal
        BY <1>5 DEF RetireSteps
    <2>3. ASSUME ReconcileSteps PROVE Goal
        <3>1. ASSUME NEW n \in Names, Keeps(n) \/ Adds(n) \/ Replaces(n) \/ Supersedes(n) PROVE Goal
            BY <1>7, <1>10, <1>13, <3>1
        <3>2. ASSUME NEW z \in Ids, Removes(z) PROVE Goal
            BY <1>8, <3>2
        <3> QED BY <1>9, <1>10, <1>13, <2>3, <3>1, <3>2 DEF ReconcileSteps
    <2>4. ASSUME CallSteps PROVE Goal
        <3>1. ASSUME NEW z \in Ids, PauseDrains(z) PROVE Goal
            BY <1>4, <3>1
        <3> QED BY <1>10, <1>13, <2>4, <3>1 DEF CallSteps, PauseSteps
    <2>5. ASSUME ReconcileLocks \/ ReconcileRaises \/ PauseBegin \/ PauseLocks \/ ResumeLocks \/ RetryLocks
                 \/ ResumeFails \/ Close \/ Closed
          PROVE  Goal
        BY <1>9, <1>10, <1>11, <1>12, <1>13, <2>5
    <2>6. (\E n \in Names, v \in 0..MaxVersion : SourceChanges(n, v)) => Goal
        BY <1>10, <1>13
    <2> QED BY <2>1, <2>2, <2>3, <2>4, <2>5, <2>6 DEF Next
<1> QED BY <1>14 DEF Goal

LEMMA OnlyForward ==
    ASSUME IInv, Next
    PROVE  given \subseteq given' /\ (flag.closing => flag'.closing)
<1> DEFINE Forward == given \subseteq given' /\ (flag.closing => flag'.closing)
<1>0. flag \in Flag /\ given \subseteq Names
    BY DEF IInv, TypeOK
<1>1. given' = given /\ flag' = flag => Forward
    OBVIOUS
<1>2. Fault => given' = given
    BY DEF Fault
<1>3. \A n, v : SourceChanges(n, v) => Forward
    BY DEF SourceChanges
<1>4. ASSUME NEW z, LoopSteps(z) PROVE Forward
    BY <1>1, <1>4 DEF LoopSteps, Attempt, Opens, Subscribes, Binds, Wakes
<1>5. ASSUME NEW z, LoopFaults(z) PROVE Forward
    BY <1>0, <1>2, <1>5 DEF LoopFaults, OpenFails, LoginRefused, BindFails, BindRefused, Flag
<1>6. ASSUME NEW z,
             \/ Disconnects(z) \/ Reconnects(z) \/ ReconnectRefused(z)
             \/ RunStarts(z) \/ RunEnds(z) \/ RetirementLocks(z)
      PROVE  Forward
    BY <1>0, <1>1, <1>2, <1>6 DEF Disconnects, Reconnects, ReconnectRefused, Flag, RunStarts, RunEnds, RetirementLocks
<1>7. RetireSteps => Forward
    BY <1>1 DEF RetireSteps, RetireDrains, RetireWaits, RetireEnds
<1>8. ASSUME ReconcileSteps PROVE given' = given /\ flag' = flag
    BY <1>8 DEF ReconcileSteps, Keeps, Adds, Replaces, Supersedes, ReconcileStarts, Removes, ReconcileEnds
<1>9. ASSUME CallSteps PROVE Forward
    BY <1>0, <1>9 DEF CallSteps, PauseSteps, PauseDrains, PauseEnds, ResumeBegin, ResumeDone, RetrySucceeds, Flag
<1>10. ASSUME ReconcileLocks \/ ReconcileRaises \/ PauseBegin \/ PauseLocks \/ ResumeLocks \/ RetryLocks
              \/ ResumeFails \/ Close \/ Closed
       PROVE  Forward
    BY <1>0, <1>2, <1>10 DEF ReconcileLocks, ReconcileRaises, PauseBegin, PauseLocks, ResumeLocks, RetryLocks,
       ResumeFails, Close, Closed, Flag
<1> HIDE DEF Forward
<1>11. Forward
    <2>1. ReconcileSteps => Forward
        BY <1>1, <1>8
    <2> QED BY <1>3, <1>4, <1>5, <1>6, <1>7, <1>9, <1>10, <2>1 DEF Next
<1> QED BY <1>11 DEF Forward

\* While the client is open, a connection that is bound stays bound -- the old
\* version of it or a newer one -- for as long as the source gives its name and
\* the agent is not paused: no version is taken down before the next one is up.
THEOREM NoGapBetweenVersions == Spec => NewBeforeOld
<1> DEFINE A == \A n \in Names :
                  (\E x \in Named : bind[x].name = n /\ bind[x].bound)
                  => \/ \E x \in Named : bind'[x].name = n /\ bind'[x].state = "named" /\ bind'[x].bound
                     \/ n \in given' \/ flag'.closing
<1>1. ASSUME IInv, [Next]_vars PROVE [A]_vars
    <2>1. CASE UNCHANGED vars
        BY <2>1
    <2>2. CASE Next
        <3> SUFFICES ASSUME NEW n \in Names, NEW x \in Named, bind[x].name = n, bind[x].bound,
                            n \notin given', ~flag'.closing
                     PROVE  \E y \in Named : bind'[y].name = n /\ bind'[y].state = "named" /\ bind'[y].bound
            OBVIOUS
        <3>1. n \notin given /\ ~flag.closing
            BY <1>1, <2>2, OnlyForward
        <3>2. PICK y \in Named : bind'[y].state = "named" /\ bind'[y].name = n /\ bind'[y].bound
            BY <1>1, <2>2, <3>1, BoundStays
        <3> QED BY <3>2
    <2> QED BY <1>1, <2>1, <2>2
<1>2. Spec => [][A]_vars
    BY <1>1, Invariance, PTL DEF Spec
<1> QED BY <1>2 DEF NewBeforeOld
=============================================================================
