----------------------------- MODULE SessionKeys -----------------------------
(***************************************************************************)
(* The key of one session, cached by the provider (key_provider.py) and    *)
(* used by the jobs of that session at the same time (sessions_bus.py),    *)
(* while the sessions service changes the key now and then.  Keys are      *)
(* numbered in the order the service issues them.                          *)
(***************************************************************************)
EXTENDS Naturals

CONSTANTS
    Jobs,
    NoKey,         \* no key is cached, or known to a job
    Sources,       \* of session_key_source: "remote", "job", "env" ("config" is as "env")
    MaxKeys,       \* bound: the keys the service issues
    MaxFaults      \* bound: requests that fail, entries that lapse, jobs that time out

Parameters == MaxKeys \in Nat \ {0} /\ MaxFaults \in Nat /\ NoKey \notin Nat

VARIABLES
    source,
    issued,   \* the key the service accepts
    cached,   \* the entry of the session in _cache
    at,       \* [Jobs -> what each job's task is at]
    attempt,  \* [Jobs -> 1..3]: the dispatch, the one retry after a 403, the cancellation
    key,      \* [Jobs -> the key the task holds, or has been sent]
    refusal,  \* [Jobs -> the key the service accepted when it refused the job's (history)]
    faults

vars == <<source, issued, cached, at, attempt, key, refusal, faults>>

Keys == 0..MaxKeys - 1
Places == {"new", "fetching", "served", "using", "done", "pending", "givingUp", "over"}

Init ==
    /\ source \in Sources /\ issued = 0 /\ cached = NoKey
    /\ at = [j \in Jobs |-> "new"] /\ attempt = [j \in Jobs |-> 1]
    /\ key = [j \in Jobs |-> NoKey] /\ refusal = [j \in Jobs |-> NoKey]
    /\ faults = 0

Goes(j, place) == at' = [at EXCEPT ![j] = place]
Fails == faults < MaxFaults /\ faults' = faults + 1

(* The service issues the session a new key. *)
Rotates ==
    /\ issued + 1 < MaxKeys
    /\ issued' = issued + 1
    /\ UNCHANGED <<source, cached, at, attempt, key, refusal, faults>>

(* The entry outlives its TTL, or on_shutdown clears the cache. *)
Lapses ==
    /\ cached # NoKey /\ Fails
    /\ cached' = NoKey
    /\ UNCHANGED <<source, issued, at, attempt, key, refusal>>

-----------------------------------------------------------------------------
(* get_session_key, up to its first await: the entry of the session decides *)
(* whether anything is asked; the process's own key is known at once.       *)
Gets(j, entry) ==
    \/ /\ entry # NoKey \/ source = "env"
       /\ LET k == IF entry # NoKey THEN entry ELSE 0 IN
             cached' = k /\ key' = [key EXCEPT ![j] = k]
       /\ Goes(j, "using")
    \/ /\ entry = NoKey /\ source # "env"
       /\ cached' = NoKey /\ key' = [key EXCEPT ![j] = NoKey]
       /\ Goes(j, "fetching")

Begins(j) ==
    /\ at[j] = "new"
    /\ Gets(j, cached)
    /\ UNCHANGED <<source, issued, attempt, refusal, faults>>

Serves(j) ==
    /\ at[j] = "fetching"
    /\ key' = [key EXCEPT ![j] = issued]
    /\ Goes(j, "served")
    /\ UNCHANGED <<source, issued, cached, attempt, refusal, faults>>

(* The answer is cached when it arrives, whatever was cached meanwhile. *)
Stores(j) ==
    /\ at[j] = "served"
    /\ cached' = key[j]
    /\ Goes(j, "using")
    /\ UNCHANGED <<source, issued, attempt, key, refusal, faults>>

(* The entry lapses between the look whether it is there and its use.       *)
LapsesInHand(j) ==
    /\ \/ at[j] = "new"
       \/ at[j] = "using" /\ attempt[j] = 1 /\ key[j] # issued
    /\ cached # NoKey /\ Fails
    /\ cached' = NoKey
    /\ Goes(j, "pending")
    /\ UNCHANGED <<source, issued, attempt, key, refusal>>

-----------------------------------------------------------------------------
(* After an error that a retry may cure, and on the dispatch after one the  *)
(* bus does not know, the job stays pending; any other makes the bus cancel *)
(* it, with the key the task knows or one it gets now.                      *)
Ends(j, place) ==
    /\ Goes(j, IF attempt[j] = 3 THEN "over" ELSE place)
    /\ UNCHANGED <<source, issued, cached, attempt, key, refusal>>

FetchFails(j) == at[j] = "fetching" /\ Fails /\ \E place \in {"pending", "givingUp"} : Ends(j, place)

(* "job" only: another agent has claimed the job's key.  The dispatch       *)
(* leaves the job to that agent, the retry takes it for a failed retry.     *)
ClaimConflict(j) ==
    /\ source = "job" /\ at[j] = "fetching" /\ Fails
    /\ Ends(j, IF attempt[j] = 1 THEN "pending" ELSE "givingUp")

Works(j) == at[j] = "using" /\ key[j] = issued
RunFails(j) == Works(j) /\ Fails /\ \E place \in {"pending", "givingUp"} : Ends(j, place)
Succeeds(j) == Works(j) /\ Ends(j, "done") /\ UNCHANGED faults

(* wait_for cuts the task at whatever it awaits. *)
TimesOut(j) ==
    /\ at[j] \in {"fetching", "served", "using"} /\ Fails
    /\ Ends(j, "pending")

-----------------------------------------------------------------------------
\* Mutant of Invalidated: the entry that was refused stays.
KeepsEntry == cached

(* invalidate_cache. *)
Invalidated == NoKey

(* A key that is no longer accepted is answered 403.  Once, the entry is    *)
(* dropped and a new key is got, with no await in between; a retry that is  *)
(* refused too makes the bus give the job up.                               *)
Refused(j) ==
    /\ at[j] = "using" /\ key[j] # issued
    /\ \/ /\ attempt[j] = 1
          /\ attempt' = [attempt EXCEPT ![j] = 2]
          /\ refusal' = [refusal EXCEPT ![j] = issued]
          /\ Gets(j, Invalidated)
       \/ /\ attempt[j] # 1
          /\ Goes(j, IF attempt[j] = 2 THEN "givingUp" ELSE "over")
          /\ UNCHANGED <<attempt, cached, key, refusal>>
    /\ UNCHANGED <<source, issued, faults>>

(* _cancel_invalid_job: the request is sent with the key the task knows, or *)
(* with one it gets for that.                                               *)
GivesUp(j) ==
    /\ at[j] = "givingUp"
    /\ attempt' = [attempt EXCEPT ![j] = 3]
    /\ \/ key[j] # NoKey /\ Goes(j, "using") /\ UNCHANGED <<cached, key>>
       \/ key[j] = NoKey /\ Gets(j, cached)
    /\ UNCHANGED <<source, issued, refusal, faults>>

Next ==
    \/ Rotates \/ Lapses
    \/ \E j \in Jobs :
          \/ Begins(j) \/ Serves(j) \/ Stores(j) \/ LapsesInHand(j) \/ Succeeds(j) \/ Refused(j)
          \/ GivesUp(j) \/ FetchFails(j) \/ ClaimConflict(j) \/ RunFails(j) \/ TimesOut(j)

Spec == Init /\ [][Next]_vars

-----------------------------------------------------------------------------
TypeOK ==
    /\ source \in Sources /\ issued \in Keys
    /\ cached \in Keys \union {NoKey}
    /\ at \in [Jobs -> Places] /\ attempt \in [Jobs -> 1..3]
    /\ key \in [Jobs -> Keys \union {NoKey}] /\ refusal \in [Jobs -> Keys \union {NoKey}]
    /\ faults \in 0..MaxFaults

(* The one retry after a refusal is made with a key the service issued no   *)
(* earlier than the one in force at the refusal, whatever the session's     *)
(* other jobs got and cached meanwhile: a job is given up for its key only  *)
(* if that was changed again (_retry_with_fresh_key).                       *)
RetriesWithNewKey ==
    \A j \in Jobs :
        source # "env" /\ attempt[j] = 2 /\ key[j] # NoKey => key[j] >= refusal[j]
=============================================================================
