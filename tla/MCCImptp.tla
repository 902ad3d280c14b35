------------------------------ MODULE MCCImptp -------------------------------
(***************************************************************************)
(* Small instance of CImptp for TLC.                                       *)
(***************************************************************************)
EXTENDS CImptp

Mode(a, tp, cr, ls, js) ==
    [api |-> a, istp |-> tp, crash |-> cr, letters |-> ls, jobs |-> js, piece0 |-> {2}]

\* As in MCImptp it is one job that is crashed: the jobs update disjoint nodes.
CModes ==
    {Mode("st", 1, TRUE, {"a", "i"}, {1}), Mode("s", 1, FALSE, {"a", "i"}, {1, 2}),
     Mode("s", 0, FALSE, {"a", "b", "i"}, {1})}
=============================================================================
