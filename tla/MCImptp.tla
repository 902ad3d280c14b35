------------------------------- MODULE MCImptp -------------------------------
(***************************************************************************)
(* Small instances of Imptp for TLC.                                       *)
(***************************************************************************)
EXTENDS Imptp

\* Two pieces: the targetpiece of iteration 2 is 0.
Mode(tp, cr, ls, js) == [istp |-> tp, crash |-> cr, letters |-> ls, jobs |-> js, piece0 |-> {2}]

\* What is crashed is one job: the jobs update disjoint nodes.  The number of
\* states that recovery can give back bounds the regions where no TP fence
\* keeps them together.
TPCrash == Mode(1, TRUE, AllLetters, {1})
NonTPCrash == Mode(0, TRUE, {"a", "i"}, {1})
ZTPCrash == Mode(2, TRUE, {"a", "i"}, {1})
TPNoCrash == Mode(1, FALSE, AllLetters, {1, 2})

AllModes == {TPCrash, NonTPCrash, ZTPCrash, TPNoCrash}
=============================================================================
