----------------------------- MODULE MCRunPool -----------------------------
(* Small instances of RunPool: two pairs with their calls, limits given    *)
(* as a number and as percentages of the registered pairs.                 *)
EXTENDS RunPool, TLC

CONSTANTS a, b, r1, r2, r3, r4, r5

MCPairOf == (r1 :> a) @@ (r2 :> a) @@ (r3 :> a) @@ (r4 :> b) @@ (r5 :> b)

\* Pair a may have two runs; pair b two thirds of the 0..2 registered pairs,
\* rounded up.  The extra limit is as many: none, one or two, so that each
\* limit is the one that binds in some state.
MCPairLimit == (a :> [absolute |-> 2]) @@ (b :> [percent |-> 67, minimum |-> 1])
MCExtraLimit == [percent |-> 67, minimum |-> 0]

\* Every call that waits is served.  The calls of a pair differ by name only, so
\* that one of each pair stands for all.
EveryWaiterServed == Served(r1) /\ Served(r4)
=============================================================================
