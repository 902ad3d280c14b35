------------------------------- MODULE JobWait -------------------------------
(***************************************************************************)
(* How com/job.m waits for jobs that were started with jmaxwait=0.         *)
(*                                                                         *)
(* The parent stores the pids of its children in ^%jobwait, node by node,  *)
(* and writes them to an info file too when the test does online           *)
(* rollbacks.  Much later another process (com/endtp.m) calls wait^job: it *)
(* loads the info file if the last pid node is gone, copies the pids and   *)
(* polls the children.                                                     *)
(*                                                                         *)
(* External: an online rollback takes the last updates of the database     *)
(* away, at any time; the next database access of a process that had       *)
(* accessed it before fails with DBROLLEDBACK, which ends job and wait.    *)
(*                                                                         *)
(* ^%jobwait is empty at the start: the tests that roll back while a fill  *)
(* runs (online_rollback/) start it once for each jobid, and the one that  *)
(* starts it again (ideminter_rolrec/) rolls back only after wait.  A      *)
(* rollback to the pids of an earlier start therefore does not occur.      *)
(***************************************************************************)
EXTENDS Naturals, FiniteSets

CONSTANTS
    njobs,        \* number of children
    jmaxwait,     \* polls of the children (seconds)
    MaxRollbacks  \* bound on the number of online rollbacks

ASSUME WaitAssumption ==
    /\ njobs \in Nat \ {0}
    /\ jmaxwait \in Nat \ {0}
    /\ MaxRollbacks \in Nat

VARIABLES
    nodes,        \* number of nodes of ^%jobwait: node 1 is njobs (and the other
                  \* parameters), node i+1 the pid of child i
    file,         \* the info file has been written
    parent,       \* "store", "write", "done" or "error"
    waiter,       \* "idle", "load", "file", "copy", "poll", "done" or "error"
    hit,          \* the processes that a rollback has hit since their last access
    copied,       \* number of nodes copied to locals by the waiter
    alive,        \* the children that run
    j, i,         \* loop variables of waitchld
    childalive,   \* children seen alive in this pass
    toolong,      \* TEST-E-JOBWAITTOOLONG was written
    rollbacks     \* number of online rollbacks so far

waitVars == <<nodes, file, parent, waiter, hit, copied, alive, j, i, childalive, toolong, rollbacks>>
pollVars == <<j, i, childalive, toolong>>

All == njobs + 1

WaitInit ==
    /\ nodes = 0
    /\ file = FALSE
    /\ parent = "store"
    /\ waiter = "idle"
    /\ hit = {}
    /\ copied = 0
    /\ alive = 1 .. njobs
    /\ j = 1 /\ i = 1
    /\ childalive = 0
    /\ toolong = FALSE
    /\ rollbacks = 0

-----------------------------------------------------------------------------
(* The parent: label job after the start of the children *)

\* The sets of ^%jobwait.
Store ==
    /\ parent = "store"
    /\ "parent" \notin hit
    /\ nodes' = nodes + 1
    /\ parent' = IF nodes' = All THEN "write" ELSE "store"
    /\ UNCHANGED <<file, waiter, hit, copied, alive, pollVars, rollbacks>>

\* Label writejobinfofileifneeded.
WriteInfo ==
    /\ parent = "write"
    /\ "parent" \notin hit
    /\ file' = TRUE
    /\ parent' = "done"
    /\ UNCHANGED <<nodes, waiter, hit, copied, alive, pollVars, rollbacks>>

\* $etrap="goto error".
ParentError ==
    /\ parent \in {"store", "write"}
    /\ "parent" \in hit
    /\ parent' = "error"
    /\ UNCHANGED <<nodes, file, waiter, hit, copied, alive, pollVars, rollbacks>>

-----------------------------------------------------------------------------
(* The waiter: labels wait and waitchld *)

StartWait ==
    /\ waiter = "idle"
    /\ parent \in {"done", "error"}
    /\ waiter' = "load"
    /\ UNCHANGED <<nodes, file, parent, hit, copied, alive, pollVars, rollbacks>>

\* Mutant: it is enough that njobs is there.
CheckNjobs ==
    /\ waiter = "load"
    /\ waiter' = IF nodes > 0 THEN "copy" ELSE "file"
    /\ UNCHANGED <<nodes, file, parent, hit, copied, alive, pollVars, rollbacks>>

\* Label loadjobinfofileifneeded: the file is loaded when the pid of the last
\* child is not in ^%jobwait.
CheckLastPid ==
    /\ waiter = "load"
    /\ waiter' = IF nodes = All THEN "copy" ELSE "file"
    /\ UNCHANGED <<nodes, file, parent, hit, copied, alive, pollVars, rollbacks>>

\* The lines of the file are executed; without a file the open fails.
LoadFile ==
    /\ waiter = "file"
    /\ "waiter" \notin hit
    /\ \/ file /\ nodes' = All /\ waiter' = "copy"
       \/ ~file /\ waiter' = "error" /\ UNCHANGED nodes
    /\ UNCHANGED <<file, parent, hit, copied, alive, pollVars, rollbacks>>

\* The next node is copied; one that is not there is an error.
Copy ==
    /\ waiter = "copy"
    /\ "waiter" \notin hit
    /\ \/ /\ nodes > copied
          /\ copied' = copied + 1
          /\ waiter' = IF copied' = All THEN "poll" ELSE "copy"
       \/ /\ nodes <= copied
          /\ waiter' = "error"
          /\ UNCHANGED copied
    /\ UNCHANGED <<nodes, file, parent, hit, alive, pollVars, rollbacks>>

WaiterError ==
    /\ waiter \in {"file", "copy"}
    /\ "waiter" \in hit
    /\ waiter' = "error"
    /\ UNCHANGED <<nodes, file, parent, hit, copied, alive, pollVars, rollbacks>>

\* $$^isprcalv(jobindex(i)), for a pid that was copied.
Isprcalv ==
    /\ waiter = "poll"
    /\ i <= njobs
    /\ childalive' = childalive + (IF i \in alive /\ i < copied THEN 1 ELSE 0)
    /\ i' = i + 1
    /\ UNCHANGED <<nodes, file, parent, waiter, hit, copied, alive, j, toolong, rollbacks>>

\* Mutant: the first child that ends is enough.
EndOfPassAny ==
    /\ waiter = "poll"
    /\ i > njobs
    /\ \/ /\ childalive = njobs /\ j < jmaxwait
          /\ j' = j + 1 /\ i' = 1 /\ childalive' = 0
          /\ UNCHANGED <<waiter, toolong>>
       \/ /\ childalive < njobs \/ j >= jmaxwait
          /\ toolong' = (j >= jmaxwait)
          /\ waiter' = "done"
          /\ UNCHANGED <<j, i, childalive>>
    /\ UNCHANGED <<nodes, file, parent, hit, copied, alive, rollbacks>>

\* Mutant: the number of passes is not bounded.
EndOfPassForever ==
    /\ waiter = "poll"
    /\ i > njobs
    /\ \/ /\ childalive > 0
          /\ i' = 1 /\ childalive' = 0
          /\ UNCHANGED <<j, waiter, toolong>>
       \/ /\ childalive = 0
          /\ toolong' = (j >= jmaxwait)
          /\ waiter' = "done"
          /\ UNCHANGED <<j, i, childalive>>
    /\ UNCHANGED <<nodes, file, parent, hit, copied, alive, rollbacks>>

\* The end of a pass: quit when no child is alive or after jmaxwait passes;
\* j'<jmaxwait decides about the message.
EndOfPass ==
    /\ waiter = "poll"
    /\ i > njobs
    /\ \/ /\ childalive > 0 /\ j < jmaxwait
          /\ j' = j + 1 /\ i' = 1 /\ childalive' = 0
          /\ UNCHANGED <<waiter, toolong>>
       \/ /\ childalive = 0 \/ j >= jmaxwait
          /\ toolong' = (j >= jmaxwait)
          /\ waiter' = "done"
          /\ UNCHANGED <<j, i, childalive>>
    /\ UNCHANGED <<nodes, file, parent, hit, copied, alive, rollbacks>>

-----------------------------------------------------------------------------
(* External *)

ChildEnds(c) ==
    /\ alive' = alive \ {c}
    /\ UNCHANGED <<nodes, file, parent, waiter, hit, copied, pollVars, rollbacks>>

OnlineRollback ==
    /\ rollbacks < MaxRollbacks
    /\ \E n \in 0 .. nodes : nodes' = n
    /\ hit' = hit \cup (IF parent \in {"store", "write"} /\ nodes > 0 THEN {"parent"} ELSE {})
              \cup (IF waiter \in {"file", "copy"} THEN {"waiter"} ELSE {})
    /\ rollbacks' = rollbacks + 1
    /\ UNCHANGED <<file, parent, waiter, copied, alive, pollVars>>

-----------------------------------------------------------------------------
WaiterStep == StartWait \/ CheckLastPid \/ LoadFile \/ Copy \/ WaiterError \/ Isprcalv \/ EndOfPass

WaitNext ==
    \/ Store \/ WriteInfo \/ ParentError
    \/ WaiterStep
    \/ \E c \in alive : ChildEnds(c)
    \/ OnlineRollback

WaitSpec == WaitInit /\ [][WaitNext]_waitVars

\* Parent and waiter run; children may run forever.
WaitFairSpec == WaitSpec /\ WF_waitVars(Store \/ WriteInfo \/ ParentError) /\ WF_waitVars(WaiterStep)

-----------------------------------------------------------------------------
(* Properties *)

\* The loop variables of wait and waitchld stay in their ranges.
WaitTypeOK ==
    /\ nodes \in 0 .. All
    /\ file \in BOOLEAN
    /\ parent \in {"store", "write", "done", "error"}
    /\ waiter \in {"idle", "load", "file", "copy", "poll", "done", "error"}
    /\ hit \subseteq {"parent", "waiter"}
    /\ copied \in 0 .. All
    /\ alive \subseteq 1 .. njobs
    /\ j \in 1 .. jmaxwait
    /\ i \in 1 .. njobs + 1
    /\ childalive \in 0 .. njobs
    /\ toolong \in BOOLEAN
    /\ rollbacks \in 0 .. MaxRollbacks

\* "wait for all children to die before returning": wait that returns without
\* an error and without the TOOLONG message leaves no child behind, whatever
\* the rollbacks did to ^%jobwait.
WaitMeansDead == waiter = "done" /\ ~toolong => alive = {}

\* Once the parent has done its part, no rollback before the call of wait
\* makes wait fail: it only fails when it is itself hit, or the parent was.
WaitFinds == waiter = "error" => parent = "error" \/ "waiter" \in hit

\* Once the parent has begun to store the pids, wait comes back though children run
\* forever, and rollbacks interfere.
WaitReturns == nodes > 0 ~> waiter \in {"done", "error"}
=============================================================================
