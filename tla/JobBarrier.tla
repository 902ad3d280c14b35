------------------------------ MODULE JobBarrier ------------------------------
(***************************************************************************)
(* How com/job.m starts the processes of a test at the same time.          *)
(*                                                                         *)
(* An invocation of ^job(routine, njobs, parms) takes the M lock           *)
(* ^job<routine>, jobs off njobs children and then polls, with a zero      *)
(* timeout, the locks ^%jobwait([jobid,]i): the one that it can take       *)
(* belongs to a child that has not started yet.  A child takes its         *)
(* ^%jobwait lock, then waits for ^job<routine>(i,$j), which is a          *)
(* descendant of the lock of the parent, and so is free only when the      *)
(* parent has let go; then it drops all its locks and runs the routine.    *)
(*                                                                         *)
(* The model has several invocations, by one or by several processes.  A    *)
(* JOB command may fail: the error trap of ^job then returns to the caller  *)
(* with ^job<routine> still held, and the children that were jobbed off    *)
(* wait until the process of the caller ends.                              *)
(* M locks are external: a process can take a name when no other process   *)
(* holds it, an ancestor of it or a descendant of it.                      *)
(***************************************************************************)
EXTENDS Naturals

CONSTANTS
    Invocations,   \* calls of ^job
    njobs,         \* children of each call
    Names, rtn,    \* rtn[v]: the name in the ^job<routine> lock of call v
    Ids, jobid,    \* jobid[v]: the jobid of call v, the subscript of its ^%jobwait locks
    caller,        \* caller[v]: the process that makes call v
    NoLock,        \* the calls made with jnolock
    MaxTries,      \* bound of the polling loop (600 in the code)
    Nobody         \* holder of a free lock

Jobs == 1 .. njobs
Children == Invocations \X Jobs

ASSUME JobAssumption ==
    /\ njobs \in Nat \ {0}
    /\ MaxTries \in Nat \ {0}
    /\ rtn \in [Invocations -> Names]
    /\ jobid \in [Invocations -> Ids]
    /\ NoLock \subseteq Invocations
    /\ Nobody \notin Invocations \cup Children
    /\ Invocations \cap Children = {}

VARIABLES
    pc,        \* pc[v]: where the parent of call v is
    index,     \* index[v]: index of the JOB loop, and i of the polling loop
    all,       \* all[v]: variable all of the polling loop
    try,       \* try[v]: variable try of the polling loop
    timedout,  \* timedout[v]: "Failed to start all jobs within 10 minutes"
    child,     \* child[c]: where child c is
    reached,   \* history: the children that got their ^%jobwait lock
    routine,   \* routine[n]: the calls, all of one process, whose lock +^job<n> is not undone
    leaves,    \* the children that hold ^job<routine>(i,$j)
    jobwait    \* jobwait[d, i]: the holder of ^%jobwait(d,i)

vars == <<pc, index, all, try, timedout, child, reached, routine, leaves, jobwait>>
parentVars == <<pc, index, all, try, timedout>>

Init ==
    /\ pc = [v \in Invocations |-> "call"]
    /\ index = [v \in Invocations |-> 1]
    /\ all = [v \in Invocations |-> FALSE]
    /\ try = [v \in Invocations |-> 1]
    /\ timedout = [v \in Invocations |-> FALSE]
    /\ child = [c \in Children |-> "none"]
    /\ reached = {}
    /\ routine = [n \in Names |-> {}]
    /\ leaves = {}
    /\ jobwait = [d \in Ids \X Jobs |-> Nobody]

Goto(v, l) == pc' = [pc EXCEPT ![v] = l]

-----------------------------------------------------------------------------
(* The parent: label job *)

\* A process makes one call after the other, the next one perhaps in spite of
\* an error in the last.
CallerIsFree(v) ==
    \A u \in Invocations \ {v} : caller[u] = caller[v] => pc[u] \in {"call", "done", "failed"}

\* The call starts with lock +^job<routine>.  The process that has it already,
\* from a call that failed, gets it once more.
LockRoutine(v) ==
    /\ pc[v] = "call"
    /\ CallerIsFree(v)
    /\ v \notin NoLock
    /\ \A u \in routine[rtn[v]] : caller[u] = caller[v]
    /\ \A c \in leaves : rtn[c[1]] # rtn[v]
    /\ routine' = [routine EXCEPT ![rtn[v]] = @ \cup {v}]
    /\ Goto(v, "spawn")
    /\ UNCHANGED <<index, all, try, timedout, child, reached, leaves, jobwait>>

\* With jnolock the lock is skipped.
SkipLock(v) ==
    /\ pc[v] = "call"
    /\ CallerIsFree(v)
    /\ v \in NoLock
    /\ Goto(v, "spawn")
    /\ UNCHANGED <<index, all, try, timedout, child, reached, routine, leaves, jobwait>>

\* Mutant: the index is not set back for the polling loop.
JobCommandOn(v) ==
    LET c == <<v, index[v]>>
        last == index[v] = njobs
    IN /\ pc[v] = "spawn"
       /\ child' = [child EXCEPT ![c] = "started"]
       /\ index' = [index EXCEPT ![v] = @ + 1]
       /\ all' = [all EXCEPT ![v] = last]
       /\ Goto(v, IF ~last THEN "spawn" ELSE IF v \in NoLock THEN "done" ELSE "poll")
       /\ UNCHANGED <<try, timedout, reached, routine, leaves, jobwait>>

\* One JOB command; after the last one the polling starts, or with jnolock
\* nothing is left to do.
JobCommand(v) ==
    LET c == <<v, index[v]>>
        last == index[v] = njobs
    IN /\ pc[v] = "spawn"
       /\ child' = [child EXCEPT ![c] = "started"]
       /\ index' = [index EXCEPT ![v] = IF last THEN 1 ELSE @ + 1]
       /\ all' = [all EXCEPT ![v] = last]
       /\ Goto(v, IF ~last THEN "spawn" ELSE IF v \in NoLock THEN "done" ELSE "poll")
       /\ UNCHANGED <<try, timedout, reached, routine, leaves, jobwait>>

\* The JOB command fails (no process, no output file): $etrap shows what it
\* can and quits, to the error trap of the caller in the end.  Nothing is
\* unlocked, and the children of the earlier JOB commands stay.
JobFails(v) ==
    /\ pc[v] = "spawn"
    /\ Goto(v, "failed")
    /\ UNCHANGED <<index, all, try, timedout, child, reached, routine, leaves, jobwait>>

Poll(v) == <<jobid[v], index[v]>>

\* Mutant: the number of tries is not bounded.
NextPollForever(v, ok) ==
    \/ /\ index[v] < njobs
       /\ index' = [index EXCEPT ![v] = @ + 1]
       /\ all' = [all EXCEPT ![v] = ok]
       /\ Goto(v, "poll")
       /\ UNCHANGED <<try, timedout>>
    \/ /\ index[v] = njobs
       /\ index' = [index EXCEPT ![v] = 1]
       /\ all' = [all EXCEPT ![v] = TRUE]
       /\ Goto(v, IF ok THEN "unlock" ELSE "poll")
       /\ UNCHANGED <<try, timedout>>

\* After ^%jobwait(i): the next i, or at the end of the pass the next try
\* unless all children are there or the tries are used up.
NextPoll(v, ok) ==
    \/ /\ index[v] < njobs
       /\ index' = [index EXCEPT ![v] = @ + 1]
       /\ all' = [all EXCEPT ![v] = ok]
       /\ Goto(v, "poll")
       /\ UNCHANGED <<try, timedout>>
    \/ /\ index[v] = njobs
       /\ ~ok /\ try[v] < MaxTries
       /\ index' = [index EXCEPT ![v] = 1]
       /\ all' = [all EXCEPT ![v] = TRUE]
       /\ try' = [try EXCEPT ![v] = @ + 1]
       /\ Goto(v, "poll")
       /\ UNCHANGED timedout
    \/ /\ index[v] = njobs
       /\ ok \/ try[v] >= MaxTries
       /\ timedout' = [timedout EXCEPT ![v] = ~ok]
       /\ all' = [all EXCEPT ![v] = ok]
       /\ Goto(v, "unlock")
       /\ UNCHANGED <<index, try>>

\* lock +^%jobwait(i):0 succeeds: child i has not started.
TryLockGot(v) ==
    /\ pc[v] = "poll"
    /\ jobwait[Poll(v)] = Nobody
    /\ jobwait' = [jobwait EXCEPT ![Poll(v)] = v]
    /\ Goto(v, "got")
    /\ UNCHANGED <<index, all, try, timedout, child, reached, routine, leaves>>

\* lock +^%jobwait(i):0 fails: child i has the lock.
TryLockFailed(v) ==
    /\ pc[v] = "poll"
    /\ jobwait[Poll(v)] # Nobody
    /\ NextPoll(v, all[v])
    /\ UNCHANGED <<child, reached, routine, leaves, jobwait>>

\* Mutant: the lock is released, but all stays 1.
ReleaseProbeOnly(v) ==
    /\ pc[v] = "got"
    /\ jobwait' = [jobwait EXCEPT ![Poll(v)] = Nobody]
    /\ NextPoll(v, all[v])
    /\ UNCHANGED <<child, reached, routine, leaves>>

\* all=0 and lock -^%jobwait(i).
ReleaseProbe(v) ==
    /\ pc[v] = "got"
    /\ jobwait' = [jobwait EXCEPT ![Poll(v)] = Nobody]
    /\ NextPoll(v, FALSE)
    /\ UNCHANGED <<child, reached, routine, leaves>>

\* lock -^job<routine>.
UnlockRoutine(v) ==
    /\ pc[v] = "unlock"
    /\ routine' = [routine EXCEPT ![rtn[v]] = @ \ {v}]
    /\ Goto(v, "done")
    /\ UNCHANGED <<index, all, try, timedout, child, reached, leaves, jobwait>>

\* The process of a call that failed ends, because of the error or later on:
\* its locks are released and it makes no further call.
ProcessEnds(v) ==
    LET mine == {u \in Invocations : caller[u] = caller[v]}
    IN /\ pc[v] = "failed"
       /\ CallerIsFree(v)
       /\ pc' = [u \in Invocations |->
                   IF u \in mine /\ pc[u] # "done" THEN "ended" ELSE pc[u]]
       /\ routine' = [n \in Names |-> routine[n] \ mine]
       /\ UNCHANGED <<index, all, try, timedout, child, reached, leaves, jobwait>>

-----------------------------------------------------------------------------
(* The child: label threadparm *)

Wait(c) == <<jobid[c[1]], c[2]>>

\* lock +^%jobwait(index), skipped with jnolock.
ChildReady(c) ==
    /\ child[c] = "started"
    /\ c[1] \notin NoLock
    /\ jobwait[Wait(c)] = Nobody
    /\ jobwait' = [jobwait EXCEPT ![Wait(c)] = c]
    /\ child' = [child EXCEPT ![c] = "ready"]
    /\ reached' = reached \cup {c}
    /\ UNCHANGED <<parentVars, routine, leaves>>

\* lock +^job<routine>(index,$j).
ChildGo(c) ==
    /\ child[c] = "ready"
    /\ routine[rtn[c[1]]] = {}
    /\ leaves' = leaves \cup {c}
    /\ child' = [child EXCEPT ![c] = "go"]
    /\ UNCHANGED <<parentVars, reached, routine, jobwait>>

\* What the end of a child, or an argumentless lock, does to its locks.
DropLocks(c) ==
    /\ leaves' = leaves \ {c}
    /\ jobwait' = [d \in DOMAIN jobwait |-> IF jobwait[d] = c THEN Nobody ELSE jobwait[d]]

\* Mutant: only ^job<routine>(i,$j) is released before the routine runs.
ChildRunHolding(c) ==
    /\ child[c] = "go"
    /\ child' = [child EXCEPT ![c] = "running"]
    /\ leaves' = leaves \ {c}
    /\ UNCHANGED <<parentVars, reached, routine, jobwait>>

\* lock, without an argument; then the routine runs.
ChildRun(c) ==
    /\ child[c] = "go"
    /\ child' = [child EXCEPT ![c] = "running"]
    /\ DropLocks(c)
    /\ UNCHANGED <<parentVars, reached, routine>>

ChildRunNoLock(c) ==
    /\ child[c] = "started"
    /\ c[1] \in NoLock
    /\ child' = [child EXCEPT ![c] = "running"]
    /\ UNCHANGED <<parentVars, reached, routine, leaves, jobwait>>

\* The child ends, or a crash script kills it; its locks are released.
ChildDie(c) ==
    /\ child[c] \in {"started", "ready", "go", "running"}
    /\ child' = [child EXCEPT ![c] = "dead"]
    /\ DropLocks(c)
    /\ UNCHANGED <<parentVars, reached, routine>>

-----------------------------------------------------------------------------
ParentStep(v) ==
    \/ LockRoutine(v) \/ SkipLock(v) \/ JobCommand(v) \/ TryLockGot(v) \/ TryLockFailed(v)
    \/ ReleaseProbe(v) \/ UnlockRoutine(v)

ChildStep(c) == ChildReady(c) \/ ChildGo(c) \/ ChildRun(c) \/ ChildRunNoLock(c)

Next ==
    \/ \E v \in Invocations : ParentStep(v) \/ JobFails(v) \/ ProcessEnds(v)
    \/ \E c \in Children : ChildStep(c) \/ ChildDie(c)

Spec == Init /\ [][Next]_vars

\* The processes run; a lock that stays free is taken.  Nothing is assumed of
\* the order in which waiting processes get a lock, nor that a child ends, nor
\* that a process whose call failed does.
FairSpec ==
    /\ Spec
    /\ \A v \in Invocations : WF_vars(ParentStep(v))
    /\ \A c \in Children : WF_vars(ChildStep(c))

-----------------------------------------------------------------------------
(* Properties *)

\* Past the barrier: the child has the go from the lock of its parent.
PastBarrier(c) == child[c] \in {"go", "running"}

\* No other call uses the ^%jobwait locks of call v.
OwnJobid(v) == \A u \in Invocations : jobid[u] = jobid[v] => u = v

\* The loop variables of ^job stay in their ranges, and locks have holders
\* that exist.
TypeOK ==
    /\ pc \in [Invocations -> {"call", "spawn", "poll", "got", "unlock", "done", "failed", "ended"}]
    /\ index \in [Invocations -> Jobs]
    /\ all \in [Invocations -> BOOLEAN]
    /\ try \in [Invocations -> 1 .. MaxTries]
    /\ timedout \in [Invocations -> BOOLEAN]
    /\ child \in [Children -> {"none", "started", "ready", "go", "running", "dead"}]
    /\ reached \subseteq Children
    /\ routine \in [Names -> SUBSET Invocations]
    /\ leaves \subseteq Children
    /\ jobwait \in [Ids \X Jobs -> Invocations \cup Children \cup {Nobody}]

\* A child of call v runs its routine only after the parent has let go of
\* ^job<routine>, at the end of the call or, if a JOB command of it failed,
\* with its process; and a call that came to its end, unless it said that it
\* gave up waiting, had seen all njobs children at the barrier.
StartedTogether(v) ==
    \A i \in Jobs : PastBarrier(<<v, i>>) =>
        /\ pc[v] \in {"done", "ended"}
        /\ pc[v] = "done" /\ ~timedout[v] => \A k \in Jobs : <<v, k>> \in reached

\* "jobid --> If defined, this will allow for concurrent multiple ^job()
\* invocations": the barrier holds for every call that has its jobid for
\* itself, whatever the other calls, however children are killed and whichever
\* JOB command fails.
BarrierWithJobid ==
    \A v \in Invocations \ NoLock : OwnJobid(v) => StartedTogether(v)

\* Every call comes back, even if children die before they reach the barrier:
\* the polling loop ends after MaxTries tries, and no cycle of lock waits
\* between parents and children of concurrent calls stops it.
CallReturns ==
    \A v \in Invocations :
        (pc[v] \notin {"call", "ended"}) ~> (pc[v] \in {"done", "failed", "ended"})

\* A call that failed can keep child c waiting: its process still has the
\* ^job<routine> of c, or that which the holder of the ^%jobwait of c waits for.
KeptByFailure(c) ==
    \E u \in Invocations :
        /\ pc[u] = "failed" /\ u \in routine[rtn[u]]
        /\ rtn[u] = rtn[c[1]] \/ jobid[u] = jobid[c[1]]

\* A child that was jobbed off runs its routine unless it is killed: no lock
\* that an earlier child or a parent left behind keeps it waiting, but for the
\* lock of a call whose JOB command failed while the process of that call is
\* still there.
ChildRuns ==
    \A c \in Children :
        (child[c] = "started") ~> (child[c] \in {"running", "dead"} \/ KeptByFailure(c))
=============================================================================
