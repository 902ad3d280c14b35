---------------------------- MODULE MCRunConcurr ----------------------------
(* RunConcurr with one job of each kind and one global of each kind.       *)
EXTENDS RunConcurr

RootDef == [p \in 1..10 |-> 2]
SharedDef == <<"afill">>
OwnDef == <<"efill">>
=============================================================================
