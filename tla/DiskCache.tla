------------------------------ MODULE DiskCache ------------------------------
(***************************************************************************)
(* The disk cache of one process (cache_service.py): a value and its       *)
(* expiry are two entries of the store under it, every access to the store *)
(* is a step, and the threads of the process take one reentrant lock       *)
(* around each operation.                                                  *)
(***************************************************************************)
EXTENDS Naturals

CONSTANTS
    Callers,      \* the threads that use the cache
    Keys,
    Never,        \* no value, no expiry, no caller
    Ttls,         \* the TTLs in use, Never among them
    MaxTime, MaxCalls

\* Only what is stored is given a TTL.
Calls ==
    [op : {"set", "claim"}, key : Keys, ttl : Ttls]
    \cup [op : {"get", "exists", "delete"}, key : Keys, ttl : {Never}]

\* What the values stand for: nobody, and no expiry, are no caller and no time.
Parameters ==
    /\ Never \notin Callers /\ Never \notin Nat /\ Never \notin Calls
    /\ Ttls \subseteq Nat \union {Never}
    /\ MaxTime \in Nat /\ MaxCalls \in Nat

VARIABLES
    now,
    value,    \* [Keys -> who stored the value, or Never]
    expires,  \* [Keys -> the entry beside it: its expiry, or Never]
    lock,     \* who is inside _acquire_lock
    at,       \* [Callers -> the next step of the operation]
    seen,     \* [Callers -> what it has to return]
    call, since, answer, calls,
    before    \* the two entries of every key when the lock was last taken (history)

store == <<value, expires>>
vars == <<now, store, lock, at, seen, call, since, answer, calls, before>>

Entry(k) == [by |-> value[k], until |-> expires[k]]

TypeOK ==
    /\ now \in 0..MaxTime
    /\ value \in [Keys -> Callers \union {Never}]
    /\ lock \in Callers \union {Never}
    /\ at \in [Callers -> {"none", "lock", "first", "second", "third", "done", "raised"}]
    /\ calls \in 0..MaxCalls
    /\ \A c \in Callers : at[c] = "none" <=> call[c] = Never

Init ==
    /\ now = 0
    /\ value = [k \in Keys |-> Never] /\ expires = [k \in Keys |-> Never]
    /\ lock = Never /\ before = [k \in Keys |-> [by |-> Never, until |-> Never]]
    /\ at = [c \in Callers |-> "none"] /\ seen = [c \in Callers |-> Never]
    /\ call = [c \in Callers |-> Never] /\ since = [c \in Callers |-> 0]
    /\ answer = [c \in Callers |-> Never] /\ calls = 0

Elapses ==
    /\ now < MaxTime /\ now' = now + 1
    /\ UNCHANGED <<store, lock, at, seen, call, since, answer, calls, before>>

Asks(c, what) ==
    /\ call[c] = Never /\ calls < MaxCalls
    /\ call' = [call EXCEPT ![c] = what]
    /\ since' = [since EXCEPT ![c] = now]
    /\ calls' = calls + 1
    /\ at' = [at EXCEPT ![c] = "lock"]
    /\ UNCHANGED <<now, store, lock, seen, answer, before>>

\* Mutant of Locks: enable_locking is off.
LocksNothing(c) ==
    /\ at[c] = "lock"
    /\ lock' = c
    /\ before' = [k \in Keys |-> Entry(k)]
    /\ at' = [at EXCEPT ![c] = "first"]
    /\ UNCHANGED <<now, store, seen, call, since, answer, calls>>

Locks(c) ==
    /\ at[c] = "lock" /\ lock = Never
    /\ lock' = c
    /\ before' = [k \in Keys |-> Entry(k)]
    /\ at' = [at EXCEPT ![c] = "first"]
    /\ UNCHANGED <<now, store, seen, call, since, answer, calls>>

-----------------------------------------------------------------------------
(* The steps of an operation: each reads or writes one entry of the store.  *)
Does(c, op, place) == at[c] = place /\ call[c] # Never /\ call[c].op = op
Key(c) == call[c].key
To(c, place) == at' = [at EXCEPT ![c] = place]
Answers(c, what) == seen' = [seen EXCEPT ![c] = what] /\ To(c, "done")
Same == UNCHANGED <<now, lock, call, since, answer, calls, before>>

Expired(k) == expires[k] # Never /\ now > expires[k]

(* get: the expiry first; an expired entry is deleted on the way. *)
GetLooksAtExpiry(c) ==
    /\ Does(c, "get", "first")
    /\ To(c, IF Expired(Key(c)) THEN "second" ELSE "third")
    /\ UNCHANGED <<store, seen>> /\ Same
GetDeletes(c) ==
    /\ Does(c, "get", "second")
    /\ value' = [value EXCEPT ![Key(c)] = Never]
    /\ expires' = IF value[Key(c)] = Never THEN expires ELSE [expires EXCEPT ![Key(c)] = Never]
    /\ Answers(c, Never) /\ Same
GetReads(c) ==
    /\ Does(c, "get", "third")
    /\ Answers(c, value[Key(c)])
    /\ UNCHANGED store /\ Same

ExistsLooksAtExpiry(c) ==
    /\ Does(c, "exists", "first")
    /\ IF Expired(Key(c)) THEN Answers(c, "no") ELSE To(c, "second") /\ UNCHANGED seen
    /\ UNCHANGED store /\ Same
ExistsReads(c) ==
    /\ Does(c, "exists", "second")
    /\ Answers(c, IF value[Key(c)] = Never THEN "no" ELSE "yes")
    /\ UNCHANGED store /\ Same

(* set: the value, then its expiry, or the end of the one it had. *)
SetsValue(c) ==
    /\ Does(c, "set", "first")
    /\ value' = [value EXCEPT ![Key(c)] = c]
    /\ seen' = [seen EXCEPT ![c] = Never] /\ To(c, "third")
    /\ UNCHANGED expires /\ Same

(* claim: add; when the key is there, its expiry decides whether it is      *)
(* taken over; then the value, and the expiry of the claim.                 *)
ClaimAdds(c) ==
    /\ Does(c, "claim", "first")
    /\ IF value[Key(c)] = Never
       THEN value' = [value EXCEPT ![Key(c)] = c] /\ To(c, "third")
       ELSE UNCHANGED value /\ To(c, "second")
    /\ seen' = [seen EXCEPT ![c] = "yes"]
    /\ UNCHANGED expires /\ Same
ClaimTakesOver(c) ==
    /\ Does(c, "claim", "second")
    /\ IF Expired(Key(c))
       THEN value' = [value EXCEPT ![Key(c)] = c] /\ To(c, "third") /\ UNCHANGED seen
       ELSE UNCHANGED value /\ Answers(c, "no")
    /\ UNCHANGED expires /\ Same

WritesExpiry(c) ==
    /\ at[c] = "third" /\ call[c] # Never /\ call[c].op \in {"set", "claim"}
    /\ expires' = [expires EXCEPT ![Key(c)] = IF call[c].ttl = Never THEN Never ELSE now + call[c].ttl]
    /\ To(c, "done")
    /\ UNCHANGED <<value, seen>> /\ Same

(* delete: the value, then its expiry; nothing when there is no value. *)
Deletes(c) ==
    /\ Does(c, "delete", "first")
    /\ IF value[Key(c)] = Never
       THEN UNCHANGED value /\ Answers(c, "no")
       ELSE value' = [value EXCEPT ![Key(c)] = Never] /\ To(c, "second") /\ UNCHANGED seen
    /\ UNCHANGED expires /\ Same
DeletesExpiry(c) ==
    /\ Does(c, "delete", "second")
    /\ expires' = [expires EXCEPT ![Key(c)] = Never]
    /\ Answers(c, "yes")
    /\ UNCHANGED value /\ Same

(* The store raises at a step: what was written stays, and the operation     *)
(* answers as if the key held nothing.  An expired entry may lose its value  *)
(* and keep its expiry.                                                      *)
AnswerWhenRaised(op) ==
    CASE op \in {"get", "set"} -> Never [] op \in {"exists", "delete"} -> "no" [] op = "claim" -> "yes"
Raises(c) ==
    /\ at[c] \in {"first", "second", "third"} /\ call[c] # Never
    /\ \/ value' = value
       \/ Does(c, "get", "second") /\ value' = [value EXCEPT ![Key(c)] = Never]
    /\ seen' = [seen EXCEPT ![c] = AnswerWhenRaised(call[c].op)] /\ To(c, "raised")
    /\ UNCHANGED expires /\ Same

Returns(c) ==
    /\ at[c] \in {"done", "raised"}
    /\ lock' = Never
    /\ answer' = [answer EXCEPT ![c] = seen[c]]
    /\ call' = [call EXCEPT ![c] = Never]
    /\ at' = [at EXCEPT ![c] = "none"]
    /\ seen' = [seen EXCEPT ![c] = Never]
    /\ UNCHANGED <<now, store, since, calls, before>>

Step(c) ==
    \/ GetLooksAtExpiry(c) \/ GetDeletes(c) \/ GetReads(c)
    \/ ExistsLooksAtExpiry(c) \/ ExistsReads(c)
    \/ SetsValue(c) \/ ClaimAdds(c) \/ ClaimTakesOver(c) \/ WritesExpiry(c)
    \/ Deletes(c) \/ DeletesExpiry(c) \/ Raises(c)

Next ==
    \/ Elapses
    \/ \E c \in Callers : Locks(c) \/ Step(c) \/ Returns(c) \/ \E what \in Calls : Asks(c, what)

Spec == Init /\ [][Next]_vars

-----------------------------------------------------------------------------
(* The two entries of a key are one to the callers: whatever a thread finds *)
(* half-done under the lock, nobody sees, and each operation takes effect   *)
(* at once (claim, "set-if-absent", CacheService).  One the store fails     *)
(* answers as an empty cache would, and changes no more than its own value. *)
Atomic == INSTANCE AtomicCache
    WITH entry <- IF lock = Never THEN [k \in Keys |-> Entry(k)] ELSE before,
         spoilt <- {c \in Callers : at[c] = "raised"}

ImplementsAtomicCache == Atomic!Spec
=============================================================================
