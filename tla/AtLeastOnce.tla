---------------------------- MODULE AtLeastOnce ----------------------------
(***************************************************************************)
(* What delivery promises of every event: the consumer keeps it until it   *)
(* is accounted for -- handled, or rejected on the record -- or until all  *)
(* its tries are used up.                                                  *)
(***************************************************************************)
EXTENDS Naturals

CONSTANTS Events, MaxTries

VARIABLES
    kept,       \* the events the consumer still has
    accounted,  \* the events that were handled or rejected
    tries       \* how often each event was handed to somebody

vars == <<kept, accounted, tries>>

Init == kept = Events /\ accounted = {} /\ tries = [e \in Events |-> 0]

\* An event is handed to somebody, once more.
Try(e) ==
    /\ e \in kept /\ tries[e] < MaxTries
    /\ tries' = [tries EXCEPT ![e] = @ + 1]
    /\ UNCHANGED <<kept, accounted>>

\* Somebody it was handed to, however long ago, has handled or rejected it.
Account(e) ==
    /\ tries[e] > 0
    /\ accounted' = accounted \cup {e}
    /\ UNCHANGED <<kept, tries>>

\* The consumer lets go of an event that is accounted for, or that nobody may try again.
Leave(e) ==
    /\ e \in kept /\ (e \in accounted \/ tries[e] = MaxTries)
    /\ kept' = kept \ {e}
    /\ UNCHANGED <<accounted, tries>>

Next == \E e \in Events : Try(e) \/ Account(e) \/ Leave(e)

SafetySpec == Init /\ [][Next]_vars

\* No event is kept without being tried again.
Spec == SafetySpec /\ \A e \in Events : WF_vars(Try(e) \/ Leave(e))
=============================================================================
