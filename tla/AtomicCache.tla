----------------------------- MODULE AtomicCache -----------------------------
(***************************************************************************)
(* What the callers of a cache rely on (CacheService): every operation     *)
(* takes effect at once, at some time between its call and its return, and *)
(* claim stores a value only when the key holds none that is still alive.  *)
(* An operation that the store fails never raises: it answers as if the    *)
(* key held nothing, so a claim fails open.                                *)
(***************************************************************************)
EXTENDS Naturals

CONSTANTS
    Callers, Keys,
    Never,        \* the expiry of an entry without a TTL, the value of an absent key
    Ttls,         \* the TTLs in use, Never among them
    MaxTime, MaxCalls

\* Only what is stored is given a TTL.
Calls ==
    [op : {"set", "claim"}, key : Keys, ttl : Ttls]
    \cup [op : {"get", "exists", "delete"}, key : Keys, ttl : {Never}]

VARIABLES
    now,
    entry,    \* [Keys -> [by, until]]: who stored the value, and when it expires
    call,     \* [Callers -> Calls or Never]: what each caller waits for
    since,    \* [Callers -> the time of that call]
    answer,   \* [Callers -> what its last call returned]
    calls,    \* how many calls were made
    spoilt    \* the callers whose operation the store has failed

vars == <<now, entry, call, since, answer, calls, spoilt>>

Absent == [by |-> Never, until |-> Never]
Entries == [by : Callers \union {Never}, until : Nat \union {Never}]

(* An entry is alive at a time unless its expiry has passed. *)
Alive(e, t) == e.by # Never /\ (e.until = Never \/ t <= e.until)
YesNo(b) == IF b THEN "yes" ELSE "no"
Stored(c, ttl, t) == [by |-> c, until |-> IF ttl = Never THEN Never ELSE t + ttl]

Init ==
    /\ now = 0
    /\ entry = [k \in Keys |-> Absent]
    /\ call = [c \in Callers |-> Never] /\ since = [c \in Callers |-> 0]
    /\ answer = [c \in Callers |-> Never] /\ calls = 0 /\ spoilt = {}

Elapses ==
    /\ now < MaxTime /\ now' = now + 1
    /\ UNCHANGED <<entry, call, since, answer, calls, spoilt>>

Asks(c, what) ==
    /\ call[c] = Never /\ calls < MaxCalls
    /\ call' = [call EXCEPT ![c] = what]
    /\ since' = [since EXCEPT ![c] = now]
    /\ calls' = calls + 1
    /\ UNCHANGED <<now, entry, answer, spoilt>>

(* What an operation does to its key, and what it answers, when it takes    *)
(* effect at time t.  Reading an expired entry may remove it.               *)
Effect(c, t, e, after, ans) ==
    LET w == call[c] IN
    CASE w.op = "get"    -> /\ ans = IF Alive(e, t) THEN e.by ELSE Never
                            /\ after = e \/ (~Alive(e, t) /\ after = Absent)
      [] w.op = "exists" -> ans = YesNo(Alive(e, t)) /\ after = e
      [] w.op = "set"    -> ans = Never /\ \E u \in t..now : after = Stored(c, w.ttl, u)
      [] w.op = "claim"  -> IF Alive(e, t) THEN ans = "no" /\ after = e
                            ELSE ans = "yes" /\ \E u \in t..now : after = Stored(c, w.ttl, u)
      [] w.op = "delete" -> IF e.by = Never THEN ans = "no" /\ after = e ELSE ans = "yes" /\ after = Absent

(* What it does, and answers, when the store fails it: nothing, or its half: *)
(* the value stored under the expiry that was there, or removed from it.     *)
SpoiltEffect(c, t, e, after, ans) ==
    LET w == call[c]
        Half == [e EXCEPT !.by = IF w.op \in {"set", "claim"} THEN c ELSE Never] IN
    /\ ans = CASE w.op \in {"get", "set"} -> Never [] w.op \in {"exists", "delete"} -> "no" [] w.op = "claim" -> "yes"
    /\ after = e \/ (after = Half /\ w.op # "exists" /\ (w.op \in {"get", "claim"} => ~Alive(e, t)))

Fails(c) ==
    /\ call[c] # Never /\ c \notin spoilt
    /\ spoilt' = spoilt \cup {c}
    /\ UNCHANGED <<now, entry, call, since, answer, calls>>

Returns(c) ==
    /\ call[c] # Never
    /\ LET k == call[c].key IN
       \E t \in since[c]..now :
          IF c \in spoilt THEN SpoiltEffect(c, t, entry[k], entry'[k], answer'[c])
          ELSE Effect(c, t, entry[k], entry'[k], answer'[c])
    /\ \A k \in Keys : k # call[c].key => entry'[k] = entry[k]
    /\ entry' \in [Keys -> Entries]
    /\ \A d \in Callers : d # c => answer'[d] = answer[d]
    /\ call' = [call EXCEPT ![c] = Never]
    /\ spoilt' = spoilt \ {c}
    /\ UNCHANGED <<now, since, calls>>

Next ==
    \/ Elapses
    \/ \E c \in Callers : Fails(c) \/ Returns(c) \/ \E what \in Calls : Asks(c, what)

Spec == Init /\ [][Next]_vars
=============================================================================
