----------------------------- MODULE MCJobBarrier -----------------------------
(***************************************************************************)
(* Small instances of JobBarrier for TLC: calls A and B, and a call C that *)
(* is made with jnolock.                                                   *)
(***************************************************************************)
EXTENDS JobBarrier

CONSTANTS A, B, C, r1, r2, d1, d2, d3, p1, p2

MCNames == {r1, r2}
MCIds == {d1, d2, d3}

\* One routine name for all calls.
SameRoutine == [v \in Invocations |-> r1]

\* jobid defined: one for each call.  Not defined: the locks are shared.
OwnIds == [v \in Invocations |-> IF v = A THEN d1 ELSE IF v = B THEN d2 ELSE d3]
NoIds == [v \in Invocations |-> d1]

\* Calls of one process follow each other; calls of two processes overlap.
TwoCallers == [v \in Invocations |-> IF v = A THEN p1 ELSE p2]
=============================================================================
