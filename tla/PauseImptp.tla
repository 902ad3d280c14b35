------------------------------ MODULE PauseImptp ------------------------------
(***************************************************************************)
(* How com/pauseimptp.m stops the jobs of a fill and lets them go on.      *)
(*                                                                         *)
(* pause sets ^%pauseflag and waits until all jobs have counted themselves *)
(* in pausedcount; resume clears the flag, waits until they have counted   *)
(* themselves out, and kills ^%pauseflag with all its nodes.  Both give up *)
(* after maxwait seconds: they write an error and halt, and the script     *)
(* that called them goes on.                                               *)
(***************************************************************************)
EXTENDS Integers, FiniteSets

CONSTANTS
    Jobs,        \* the jobs of the fill
    MaxPauses    \* bound on the number of calls of pause

ASSUME PauseAssumption ==
    /\ IsFiniteSet(Jobs) /\ Jobs # {}
    /\ MaxPauses \in Nat

jobcount == Cardinality(Jobs)

VARIABLES
    flag,         \* ^%pauseflag: "undef", "0" or "1"
    pausedcount,  \* ^%pauseflag(fillid,"pausedcount"), 0 when undefined
    pc,           \* pc[j]: where job j is
    ctl,          \* where the script that pauses and resumes is
    pauses,       \* number of calls of pause so far
    gaveup        \* history: "pause", "resume" when a call of it timed out

vars == <<flag, pausedcount, pc, ctl, pauses, gaveup>>

Init ==
    /\ flag = "undef"
    /\ pausedcount = 0
    /\ pc = [j \in Jobs |-> "update"]
    /\ ctl = "running"
    /\ pauses = 0
    /\ gaveup = {}

-----------------------------------------------------------------------------
(* The jobs: label pauseifneeded, at the top of each iteration *)

Goto(j, l) == pc' = [pc EXCEPT ![j] = l]

\* The updates of an iteration are done.
EndIteration(j) ==
    /\ pc[j] = "update"
    /\ Goto(j, "read")
    /\ UNCHANGED <<flag, pausedcount, ctl, pauses, gaveup>>

\* if ($get(^%pauseflag,0)).
ReadFlag(j) ==
    /\ pc[j] = "read"
    /\ Goto(j, IF flag = "1" THEN "count" ELSE "update")
    /\ UNCHANGED <<flag, pausedcount, ctl, pauses, gaveup>>

CountIn(j) ==
    /\ pc[j] = "count"
    /\ pausedcount' = pausedcount + 1
    /\ Goto(j, "wait")
    /\ UNCHANGED <<flag, ctl, pauses, gaveup>>

\* for  quit:0=^%pauseflag: no $get, an undefined flag is an error.
WaitFlag(j) ==
    /\ pc[j] = "wait"
    /\ \/ flag = "0" /\ Goto(j, "out")
       \/ flag = "undef" /\ Goto(j, "error")
    /\ UNCHANGED <<flag, pausedcount, ctl, pauses, gaveup>>

CountOut(j) ==
    /\ pc[j] = "out"
    /\ pausedcount' = pausedcount - 1
    /\ Goto(j, "update")
    /\ UNCHANGED <<flag, ctl, pauses, gaveup>>

-----------------------------------------------------------------------------
(* Labels pause and resume *)

Pause ==
    /\ ctl = "running"
    /\ pauses < MaxPauses
    /\ flag' = "1"
    /\ ctl' = "pausing"
    /\ pauses' = pauses + 1
    /\ UNCHANGED <<pausedcount, pc, gaveup>>

\* Mutant: one job may be missing.
AllPausedButOne ==
    /\ ctl = "pausing"
    /\ pausedcount >= jobcount - 1
    /\ ctl' = "paused"
    /\ UNCHANGED <<flag, pausedcount, pc, pauses, gaveup>>

\* Mutant: the count is compared with > instead of =.
AllPausedOver ==
    /\ ctl = "pausing"
    /\ pausedcount > jobcount
    /\ ctl' = "paused"
    /\ UNCHANGED <<flag, pausedcount, pc, pauses, gaveup>>

AllPaused ==
    /\ ctl = "pausing"
    /\ pausedcount = jobcount
    /\ ctl' = "paused"
    /\ UNCHANGED <<flag, pausedcount, pc, pauses, gaveup>>

\* timeoutcheck: "IMPTP could not be paused or resumed."  A job can take more
\* than maxwait for an iteration.
PauseTimeout ==
    /\ ctl = "pausing"
    /\ ctl' = "notpaused"
    /\ gaveup' = gaveup \cup {"pause"}
    /\ UNCHANGED <<flag, pausedcount, pc, pauses>>

\* Mutant: resume kills the flag at once.
ResumeKill ==
    /\ ctl \in {"paused", "notpaused"}
    /\ flag' = "undef"
    /\ ctl' = "resuming"
    /\ UNCHANGED <<pausedcount, pc, pauses, gaveup>>

Resume ==
    /\ ctl \in {"paused", "notpaused"}
    /\ flag' = "0"
    /\ ctl' = "resuming"
    /\ UNCHANGED <<pausedcount, pc, pauses, gaveup>>

\* The count is down to 0.
AllResumed ==
    /\ ctl = "resuming"
    /\ pausedcount = 0
    /\ ctl' = "kill"
    /\ UNCHANGED <<flag, pausedcount, pc, pauses, gaveup>>

\* kill ^%pauseflag, the flag with the count below it.
KillFlag ==
    /\ ctl = "kill"
    /\ flag' = "undef"
    /\ pausedcount' = 0
    /\ ctl' = "running"
    /\ UNCHANGED <<pc, pauses, gaveup>>

ResumeTimeout ==
    /\ ctl = "resuming"
    /\ ctl' = "running"
    /\ gaveup' = gaveup \cup {"resume"}
    /\ UNCHANGED <<flag, pausedcount, pc, pauses>>

-----------------------------------------------------------------------------
JobStep(j) ==
    \/ EndIteration(j) \/ ReadFlag(j) \/ CountIn(j) \/ WaitFlag(j) \/ CountOut(j)

\* The script between the calls may take any time; a call goes on.
CallStep == AllPaused \/ AllResumed \/ KillFlag

Next ==
    \/ \E j \in Jobs : JobStep(j)
    \/ Pause \/ Resume \/ CallStep \/ PauseTimeout \/ ResumeTimeout

Spec == Init /\ [][Next]_vars

FairSpec == Spec /\ WF_vars(CallStep) /\ \A j \in Jobs : WF_vars(JobStep(j))

-----------------------------------------------------------------------------
(* Properties *)

\* pausedcount of pauseimptp.m stays within the number of jobs.
TypeOK ==
    /\ flag \in {"undef", "0", "1"}
    /\ pausedcount \in -jobcount .. jobcount
    /\ pc \in [Jobs -> {"update", "read", "count", "wait", "out", "error"}]
    /\ ctl \in {"running", "pausing", "paused", "notpaused", "resuming", "kill"}
    /\ gaveup \subseteq {"pause", "resume"}
    /\ pauses \in 0 .. MaxPauses

\* "Make sure all of the processes have paused": between a pause that did not
\* give up and resume no job updates the database, though jobs may have been
\* late for an earlier pause.  It need not hold once a resume has given up:
\* its jobs are still counted.
PauseHolds ==
    "resume" \notin gaveup /\ ctl = "paused" =>
        \A j \in Jobs : pc[j] \in {"wait", "error"}

\* "Make sure all of the processes are continuing": resume kills ^%pauseflag
\* only when no job can read it any more in the loop that waits for 0.
FlagStaysDefined == \A j \in Jobs : pc[j] # "error"

\* The same as long as no call of pause or resume has given up.
FlagDefinedInTime == gaveup = {} => FlagStaysDefined

\* pause and resume come back without the help of their timeouts.
HandshakeCompletes ==
    /\ (ctl = "pausing" /\ gaveup = {}) ~> (ctl = "paused" \/ gaveup # {})
    /\ (ctl = "resuming" /\ gaveup = {}) ~> (ctl = "running" \/ gaveup # {})
=============================================================================
