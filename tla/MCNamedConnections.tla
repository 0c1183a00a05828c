-------------------------- MODULE MCNamedConnections --------------------------
(* NamedConnections on small instances.                                     *)
EXTENDS NamedConnections

CONSTANTS n1, n2

Bounds(changes, faults, pauses, runs) ==
    [changes |-> changes, faults |-> faults, pauses |-> pauses, runs |-> runs]

\* The source changes twice; or something fails meanwhile; or the agent is paused
\* meanwhile; or both, or two failures, without changes.
SmallBudgets == {Bounds(2, 0, 0, 1), Bounds(1, 1, 0, 0), Bounds(1, 0, 1, 0), Bounds(0, 1, 1, 0), Bounds(0, 2, 0, 0)}
==============================================================================
