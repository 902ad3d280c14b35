---------------------------- MODULE MCFillHelpers ----------------------------
(***************************************************************************)
(* Small instances of what surrounds the fill, for TLC: ImptpIndex,        *)
(* PauseImptp and JobWait.  They share no variable, so that their steps    *)
(* in between each other show nothing: a behavior is one of one of them.   *)
(***************************************************************************)
EXTENDS ImptpIndex, PauseImptp, JobWait

VARIABLE part    \* the module that runs

HelpersInit ==
    /\ part \in {"index", "pause", "wait"}
    /\ IndexInit
    /\ Init
    /\ WaitInit

IndexPart == part = "index" /\ IndexNext /\ UNCHANGED <<part, vars, waitVars>>
PausePart == part = "pause" /\ Next /\ UNCHANGED <<part, indexVars, waitVars>>
WaitPart == part = "wait" /\ WaitNext /\ UNCHANGED <<part, indexVars, vars>>

HelpersNext == IndexPart \/ PausePart \/ WaitPart

\* The fairness of each module, for its part.
HelpersSpec ==
    /\ HelpersInit
    /\ [][HelpersNext]_<<part, indexVars, vars, waitVars>>
    /\ WF_vars(part = "pause" /\ CallStep)
    /\ \A p \in Jobs : WF_vars(part = "pause" /\ JobStep(p))
    /\ WF_waitVars(part = "wait" /\ (Store \/ WriteInfo \/ ParentError))
    /\ WF_waitVars(part = "wait" /\ WaiterStep)
=============================================================================
