------------------------------- MODULE CImptp --------------------------------
(***************************************************************************)
(* The fill as the C programs com/simpleapi_imptp.c and                    *)
(* com/simplethreadapi_imptp.c do it: main forks the jobs, records their   *)
(* pids in ^%jobwait and waits until they are ready to be killed; a job    *)
(* does Stage 1 and Stage 3 in the callbacks tpfn_stage1 and tpfn_stage3   *)
(* of ydb_tp_s, Stage 2 call by call, and the rest in M code (helper3).    *)
(* All of this is to implement the fill of com/imptp.m, module Imptp.      *)
(*                                                                         *)
(* The database is nodes: nodes[j][n][x] is node x of iteration n of job   *)
(* j.  A mode is one of module Imptp with istp 0 or 1 (the programs assert *)
(* that it is not ZTP) and the program that runs, m.api: "s" or "st".      *)
(* Triggers are off.  A child that draws 0 runs impjob^imptp by ydb_ci;    *)
(* the state of drand48 is inherited over fork and main draws nothing      *)
(* between two forks, so all children of a start draw the same.            *)
(*                                                                         *)
(* The crash scripts kill the children after main has returned.  The tests *)
(* that use SIGTERM send it to the threaded program: every later call then *)
(* returns YDB_ERR_CALLINAFTERXIT, and impjob returns at once.             *)
(***************************************************************************)
EXTENDS ImptpBody

CONSTANTS
    MaxStarts,   \* bound on the number of starts
    LastTry      \* bound on $TRESTART: the last try of a transaction is not restarted

ASSUME CImptpAssumption ==
    /\ \A m \in Modes : m.istp # 2 /\ (\E n \in 1 .. jobcnt : m.jobs = 1 .. n) /\ m.api \in {"s", "st"}
    /\ MaxStarts \in Nat \ {0}
    /\ LastTry \in Nat

VARIABLES
    mode,        \* mode of this test
    main,        \* where main is; "down": no main and no jobs
    forked,      \* child: children forked so far
    method,      \* "c", or "ci": the children run impjob^imptp
    jobwait,     \* ^%jobwait(jobid,j): the start whose pid it holds, 0 for none
    jsyncnt,     \* ^%imptp(fillid,"jsyncnt")
    endloop,     \* ^endloop(fillid)
    cntloop,     \* ^cntloop(fillid)
    starts,      \* number of starts so far
    cpc,         \* cpc[j]: where impjob is
    status,      \* status[j]: "run", "gone" (failed, SIGTERM), "killed" or "recovered"
    loop,        \* loop[j]: variable loop of impjob
    done,        \* done[j]: updates of this run that job j has committed
    pos,         \* pos[j]: calls that the callback has made in this try
    tries,       \* tries[j]: $TRESTART
    nodes,       \* the database
    base,        \* history: the database at the last start or recovery
    first        \* history: the first iteration of this run

parent == <<main, forked, method, jobwait>>
job == <<cpc, status, loop, done, pos, tries>>
vars == <<mode, parent, jsyncnt, endloop, cntloop, starts, job, nodes, base, first>>

Jobs == mode.jobs

-----------------------------------------------------------------------------
(* The calls of an iteration *)

zdummy == <<"zdummy", "i", 0>>     \* ^zdummy($TRESTART)

\* Mutant: ^lasti is set in Stage 1 without TP too.
tpfn_stage1Always(m, trestart) ==
    <<Set(random("a"), "val"), Set(random("b"), "val"), Set(random("c"), "val"),
      Set(random("e"), "val"), Set(random("i"), "val"),
      Set(jrandom(1), "val"), Set(jrandom(2), "val"), Set(jrandom(3), "val"), Set(lasti, "val")>>

\* In case of a restart the transaction has another flow when the test crashes.
tpfn_stage1(m, trestart) ==
    <<Set(random("a"), "val")>>
    \o (IF m.istp = 1 /\ m.crash /\ trestart > 0 THEN <<Set(zdummy, "val")>> ELSE <<>>)
    \o <<Set(random("b"), "val"), Set(random("c"), "val"),
         Set(random("e"), "val"), Set(random("i"), "val"),
         Set(jrandom(1), "val"), Set(jrandom(2), "val"), Set(jrandom(3), "val"),
         IF m.istp = 1 THEN Set(lasti, "val") ELSE Nothing>>

stage2(m) == <<Set(ntp("a"), "val"), Set(ntp("b"), "val"), Set(ntp("c"), "val")>>

\* Mutant: ^bntp(subsMAX) is left out.
tpfn_stage3Short(m) == <<Set(ntp("e"), "val"), Set(ntp("i"), "val")>>

tpfn_stage3(m) == <<Set(ntp("e"), "val"), Set(ntp("i"), "val"), Set(bntpMAX(m), "val")>>

\* Stages 4 to 11, M code that is called in.
helper3(m) == LaterStages(m)

\* The updates of an iteration.
Iteration(m) ==
    Fence(m.istp, 1, tpfn_stage1(m, 0)) \o Fence(0, 2, stage2(m)) \o Fence(m.istp, 3, tpfn_stage3(m))
    \o helper3(m)

IterationOf == [m \in Modes |-> Iteration(m)]
CommitOf == [m \in Modes |-> CommitEnds(m, IterationOf[m])]
N == Len(IterationOf[mode])

\* The updates that job j commits next.
Current(j) == SubSeq(IterationOf[mode], (done[j] % N) + 1, CommitOf[mode][done[j] % N])

\* The fence that they are in.
fence(j) == IterationOf[mode][(done[j] % N) + 1].id

\* The calls that the callback of this commit makes: none when there is no callback.
Callback(j) ==
    IF method = "c" /\ mode.istp = 1
    THEN CASE fence(j) = 1 -> tpfn_stage1(mode, tries[j])
           [] fence(j) = 3 -> tpfn_stage3(mode)
           [] OTHER -> <<>>
    ELSE <<>>

-----------------------------------------------------------------------------
Init ==
    /\ mode \in Modes
    /\ main = "down"
    /\ forked = 0
    /\ method = "c"
    /\ jobwait = [j \in Jobs |-> 0]
    /\ jsyncnt = 0
    /\ endloop = FALSE
    /\ cntloop = 0
    /\ starts = 0
    /\ cpc = [j \in Jobs |-> "unborn"]
    /\ status = [j \in Jobs |-> "run"]
    /\ loop = [j \in Jobs |-> 1]
    /\ done = [j \in Jobs |-> 0]
    /\ pos = [j \in Jobs |-> 0]
    /\ tries = [j \in Jobs |-> 0]
    /\ nodes = [j \in Jobs |-> [n \in 1 .. top |-> [x \in Nodes(mode) |-> "undef"]]]
    /\ base = nodes
    /\ first = [j \in Jobs |-> 1]

-----------------------------------------------------------------------------
(* main *)

\* The parameters of the test, ^endloop, ^cntloop if undefined, jsyncnt.
Start ==
    /\ main \in {"down", "mismatch"}
    /\ starts < MaxStarts
    /\ endloop' = FALSE
    /\ jsyncnt' = 0
    /\ starts' = starts + 1
    /\ method' \in {"c", "ci"}
    /\ main' = "fork"
    /\ forked' = 0
    /\ cpc' = [j \in Jobs |-> "unborn"]
    /\ status' = [j \in Jobs |-> "run"]
    /\ first' = [j \in Jobs |-> LastiOf(nodes[j]) + 1]
    /\ UNCHANGED <<mode, jobwait, cntloop, loop, done, pos, tries, nodes, base>>

\* IMPTP-E-MISMATCH: a later start with another number of jobs returns -1.
Mismatch ==
    /\ main = "down"
    /\ starts > 0
    /\ main' = "mismatch"
    /\ UNCHANGED <<mode, forked, method, jobwait, jsyncnt, endloop, cntloop, starts, job, nodes, base, first>>

\* main forks the next child.
Fork ==
    /\ main = "fork"
    /\ forked' = forked + 1
    /\ cpc' = [cpc EXCEPT ![forked'] = "init"]
    /\ main' = "record"
    /\ UNCHANGED <<mode, method, jobwait, jsyncnt, endloop, cntloop, starts, status, loop, done, pos, tries, nodes, base, first>>

\* Its pid is recorded after the fork: the child runs already.
RecordPid ==
    /\ main = "record"
    /\ jobwait' = [jobwait EXCEPT ![forked] = starts]
    /\ main' = IF forked = Cardinality(Jobs) THEN "first" ELSE "fork"
    /\ UNCHANGED <<mode, forked, method, jsyncnt, endloop, cntloop, starts, job, nodes, base, first>>

\* "Wait until the first update on all regions happen", without a timeout.
WaitFirst ==
    /\ main = "first"
    /\ cntloop # 0
    /\ main' = "sync"
    /\ UNCHANGED <<mode, forked, method, jobwait, jsyncnt, endloop, cntloop, starts, job, nodes, base, first>>

\* Mutant: it is enough that one of the children is ready.
WaitSyncOne ==
    /\ main = "sync"
    /\ jsyncnt > 0
    /\ main' = "returned"
    /\ UNCHANGED <<mode, forked, method, jobwait, jsyncnt, endloop, cntloop, starts, job, nodes, base, first>>

\* All children have got to where it is safe to kill them; no timeout either.
WaitSync ==
    /\ main = "sync"
    /\ jsyncnt = Cardinality(Jobs)
    /\ main' = "returned"
    /\ UNCHANGED <<mode, forked, method, jobwait, jsyncnt, endloop, cntloop, starts, job, nodes, base, first>>

-----------------------------------------------------------------------------
(* impjob *)

At(j, pc) == status[j] = "run" /\ cpc[j] = pc

\* Mutant: the child forgets to count itself.
SyncForgotten(j) ==
    /\ At(j, "init")
    /\ cpc' = [cpc EXCEPT ![j] = "read"]
    /\ UNCHANGED <<mode, parent, jsyncnt, endloop, cntloop, starts, status, loop, done, pos, tries, nodes, base, first>>

\* The parameters are read, and jsyncnt incremented under its lock.
Sync(j) ==
    /\ At(j, "init")
    /\ jsyncnt' = jsyncnt + 1
    /\ cpc' = [cpc EXCEPT ![j] = "read"]
    /\ UNCHANGED <<mode, parent, endloop, cntloop, starts, status, loop, done, pos, tries, nodes, base, first>>

\* "imptp can be restarted at the saved value of lasti".
ReadLasti(j) ==
    /\ At(j, "read")
    /\ loop' = [loop EXCEPT ![j] = LastiOf(nodes[j]) + 1]
    /\ cpc' = [cpc EXCEPT ![j] = IF loop'[j] <= top THEN "loop" ELSE "ended"]
    /\ UNCHANGED <<mode, parent, jsyncnt, endloop, cntloop, starts, status, done, pos, tries, nodes, base, first>>

\* The callback makes a call, which returns YDB_OK.
Call(j) ==
    /\ At(j, "loop")
    /\ pos[j] < Len(Callback(j))
    /\ pos' = [pos EXCEPT ![j] = @ + 1]
    /\ UNCHANGED <<mode, parent, jsyncnt, endloop, cntloop, starts, cpc, status, loop, done, tries, nodes, base, first>>

\* The last call returned YDB_TP_RESTART and so does the callback, or the
\* commit fails: ydb_tp_s calls the callback again.
Restart(j) ==
    /\ At(j, "loop")
    /\ pos[j] > 0
    /\ tries[j] < LastTry
    /\ pos' = [pos EXCEPT ![j] = 0]
    /\ tries' = [tries EXCEPT ![j] = @ + 1]
    /\ UNCHANGED <<mode, parent, jsyncnt, endloop, cntloop, starts, cpc, status, loop, done, nodes, base, first>>

\* What the updates make of the nodes of iteration n.
Updated(m, n, db, upd) ==
    [x \in DOMAIN db |-> Over(Leaves(m, n, x, LastWrite(upd, Len(upd), x)), db[x])]

\* A commit: of a transaction, or of an update outside of a transaction.
Commit(j) ==
    /\ At(j, "loop")
    /\ pos[j] = Len(Callback(j))
    /\ done' = [done EXCEPT ![j] = @ - (@ % N) + CommitOf[mode][@ % N]]
    /\ pos' = [pos EXCEPT ![j] = 0]
    /\ tries' = [tries EXCEPT ![j] = 0]
    /\ cpc' = [cpc EXCEPT ![j] = IF done'[j] % N = 0 THEN "test" ELSE "loop"]
    /\ \E upd \in {IF pos[j] > 0 THEN Callback(j) ELSE Current(j)} :
          /\ nodes' = [nodes EXCEPT ![j][loop[j]] = Updated(mode, loop[j], @, upd)]
          /\ cntloop' = cntloop + (IF \E k \in DOMAIN upd : upd[k].node = cntloopNode(mode) THEN 1 ELSE 0)
    /\ UNCHANGED <<mode, parent, jsyncnt, endloop, starts, status, loop, base, first>>

\* quit:$get(^endloop(fillid),0), and the bound of the loop.
TestEndloop(j) ==
    /\ At(j, "test")
    /\ loop' = [loop EXCEPT ![j] = @ + 1]
    /\ cpc' = [cpc EXCEPT ![j] = IF endloop \/ loop'[j] > top THEN "ended" ELSE "loop"]
    /\ UNCHANGED <<mode, parent, jsyncnt, endloop, cntloop, starts, status, done, pos, tries, nodes, base, first>>

\* RETURN_IF_YDB_ERR_CALLINAFTERXIT: the next call of the child returns, and
\* so do the callback and impjob; an open transaction is not committed.
CallInAfterXit(j) ==
    /\ mode.api = "st" /\ mode.crash
    /\ main = "returned"
    /\ status[j] = "run"
    /\ cpc[j] # "ended"
    /\ status' = [status EXCEPT ![j] = "gone"]
    /\ UNCHANGED <<mode, parent, jsyncnt, endloop, cntloop, starts, cpc, loop, done, pos, tries, nodes, base, first>>

\* A child ends before its work is done: a call fails and with it the YDB_ASSERT
\* behind it, jsyncnt is not locked in time, or impjob^imptp returns an error to the
\* call-in.  An open transaction is not committed, and main is not told.
ChildFails(j) ==
    /\ status[j] = "run"
    /\ cpc[j] \notin {"unborn", "ended"}
    /\ status' = [status EXCEPT ![j] = "gone"]
    /\ UNCHANGED <<mode, parent, jsyncnt, endloop, cntloop, starts, cpc, loop, done, pos, tries, nodes, base, first>>

-----------------------------------------------------------------------------
(* The test: endtp, crash and recovery *)

\* endtp asks the jobs to stop.
EndTP ==
    /\ main = "returned"
    /\ ~endloop
    /\ endloop' = TRUE
    /\ UNCHANGED <<mode, parent, jsyncnt, cntloop, starts, job, nodes, base, first>>

\* The crash script kills the children.  After the last start nothing would follow.
Crash ==
    /\ mode.crash
    /\ starts < MaxStarts
    /\ main = "returned"
    /\ \A j \in Jobs : status[j] \in {"run", "gone"}
    /\ status' = [j \in Jobs |-> "killed"]
    /\ pos' = [j \in Jobs |-> 0]
    /\ tries' = [j \in Jobs |-> 0]
    /\ UNCHANGED <<mode, parent, jsyncnt, endloop, cntloop, starts, cpc, loop, done, nodes, base, first>>

\* The fill of com/imptp.m.
up == main \notin {"down", "mismatch"}

pcBar == [j \in Jobs |->
    CASE ~up \/ status[j] = "recovered" -> "ended"
      [] up /\ status[j] = "killed" -> "killed"
      [] OTHER -> IF cpc[j] = "ended" \/ first[j] > top THEN "ended"
                  ELSE IF cpc[j] = "test" THEN "test" ELSE "loop"]

M == INSTANCE Imptp WITH
        db <- base, pc <- pcBar,
        from <- [j \in Jobs |-> IF up THEN first[j] ELSE 1]

\* The database is recovered, as in module Imptp.
Recover(j) ==
    /\ status[j] = "killed"
    /\ \E cut \in CutsOf[mode][done[j]] :
          /\ nodes' = [nodes EXCEPT ![j] = Recovered(mode, base[j], first[j], cut)]
          /\ cntloop' = cntloop - (Incrs(mode, done[j]) - Incrs(mode, cut[cntloopRegion(mode)]))
    /\ base' = [base EXCEPT ![j] = nodes'[j]]
    /\ status' = [status EXCEPT ![j] = "recovered"]
    /\ done' = [done EXCEPT ![j] = 0]
    /\ UNCHANGED <<mode, parent, jsyncnt, endloop, starts, cpc, loop, pos, tries, first>>

\* wait^job finds that all children have ended, or they are recovered.
Down ==
    /\ main = "returned"
    /\ \A j \in Jobs : status[j] = "recovered" \/ At(j, "ended")
    /\ main' = "down"
    /\ base' = nodes
    /\ loop' = [j \in Jobs |-> 1]
    /\ done' = [j \in Jobs |-> 0]
    /\ UNCHANGED <<mode, forked, method, jobwait, jsyncnt, endloop, cntloop, starts, cpc, status, pos, tries, nodes, first>>

-----------------------------------------------------------------------------
\* The two programs do the same; only the threaded one handles SIGTERM.
mainNext == mode.api = "s" /\ (Start \/ Mismatch)
mainNext_st == mode.api = "st" /\ (Start \/ Mismatch)

mainJobs == mode.api = "s" /\ (Fork \/ RecordPid)
mainJobs_st == mode.api = "st" /\ (Fork \/ RecordPid)

mainWait == mode.api = "s" /\ (WaitFirst \/ WaitSync)
mainWait_st == mode.api = "st" /\ (WaitFirst \/ WaitSync)

impjobStart(j) == mode.api = "s" /\ Sync(j)
impjobStart_st(j) == mode.api = "st" /\ Sync(j)

impjobLasti(j) == mode.api = "s" /\ ReadLasti(j)
impjobLasti_st(j) == mode.api = "st" /\ ReadLasti(j)

impjobLoop(j) == mode.api = "s" /\ (Commit(j) \/ TestEndloop(j))
impjobLoop_st(j) == mode.api = "st" /\ (Commit(j) \/ TestEndloop(j))

callback1(j) == mode.api = "s" /\ fence(j) = 1 /\ (Call(j) \/ Restart(j))
callback1_st(j) == mode.api = "st" /\ fence(j) = 1 /\ (Call(j) \/ Restart(j))

callback3(j) == mode.api = "s" /\ fence(j) = 3 /\ (Call(j) \/ Restart(j))
callback3_st(j) == mode.api = "st" /\ fence(j) = 3 /\ (Call(j) \/ Restart(j))

impjob(j) == impjobStart(j) \/ impjobLasti(j) \/ impjobLoop(j) \/ callback1(j) \/ callback3(j)
impjob_st(j) ==
    impjobStart_st(j) \/ impjobLasti_st(j) \/ impjobLoop_st(j) \/ callback1_st(j) \/ callback3_st(j)

Next ==
    \/ mainNext \/ mainNext_st \/ mainJobs \/ mainJobs_st \/ mainWait \/ mainWait_st
    \/ \E j \in Jobs : impjob(j) \/ impjob_st(j) \/ ChildFails(j) \/ CallInAfterXit(j) \/ Recover(j)
    \/ EndTP \/ Crash \/ Down

\* main and the children are processes that the system schedules.  Nobody
\* need start the fill, stop it, or crash it.
Spec ==
    /\ Init /\ [][Next]_vars
    /\ WF_vars(mainJobs \/ mainJobs_st \/ mainWait \/ mainWait_st)
    /\ \A j \in 1 .. jobcnt : WF_vars(j \in Jobs /\ (impjob(j) \/ impjob_st(j)))

-----------------------------------------------------------------------------
(* Properties *)

\* The variables have their types: no child goes past its top iterations, and
\* jsyncnt never counts a child twice or one of an earlier start.
TypeOK ==
    /\ mode \in Modes
    /\ main \in {"down", "mismatch", "fork", "record", "first", "sync", "returned"}
    /\ forked \in 0 .. Cardinality(Jobs)
    /\ method \in {"c", "ci"}
    /\ jobwait \in [Jobs -> 0 .. MaxStarts]
    /\ jsyncnt \in 0 .. Cardinality(Jobs)
    /\ endloop \in BOOLEAN
    /\ cntloop \in 0 .. Cardinality(Jobs) * top * MaxStarts
    /\ starts \in 0 .. MaxStarts
    /\ cpc \in [Jobs -> {"unborn", "init", "read", "loop", "test", "ended"}]
    /\ status \in [Jobs -> {"run", "gone", "killed", "recovered"}]
    /\ loop \in [Jobs -> 1 .. top + 1]
    /\ done \in [Jobs -> 0 .. top * N]
    /\ tries \in [Jobs -> 0 .. LastTry]
    /\ \A j \in Jobs : pos[j] \in 0 .. Len(tpfn_stage1(mode, 1))
    /\ nodes \in [Jobs -> [1 .. top -> [Nodes(mode) -> Values]]]

\* When main returns, the crash scripts and endtp may begin: ^%jobwait holds the
\* pids of this start and of no earlier one, every child has got past the point
\* where it may be killed, and on the first start some job has got through Stages 1
\* to 8, which update all regions.
ReturnedMeansReady ==
    main = "returned" =>
        /\ \A j \in Jobs : jobwait[j] = starts /\ cpc[j] \notin {"unborn", "init"}
        /\ starts = 1 /\ (\A j \in Jobs : status[j] \in {"run", "gone"}) =>
              \E j \in Jobs : Defined(nodes[j][1], span("a")) /\ ~Defined(nodes[j][1], ntp("a"))

\* ^lasti tells the truth, at every moment, over restarts of transactions,
\* SIGTERM in a callback, crashes and recoveries: with TP, an iteration has all
\* of Stage 1 if ^lasti says so and nothing of it otherwise; without TP, an
\* iteration that ^lasti counts is complete.
LastiTellsTruth ==
    /\ TypeOK
    /\ \A j \in Jobs, n \in 1 .. top :
        LET db == nodes[j][n]
            stage1 == {random(l) : l \in mode.letters} \cup {jrandom(3)}
        IN IF mode.istp = 1
           THEN \A x \in stage1 : db[x] = IF n <= LastiOf(nodes[j]) THEN "val" ELSE "undef"
           ELSE n <= LastiOf(nodes[j]) => compiter(mode, n, db)

\* The C programs implement the fill of com/imptp.m: main, the callbacks and
\* their restarts are not seen, and every commit of a child is the next commit
\* that the M code would do.  What is true of Imptp, checkdb's verdict after any
\* crash above all, is true of them.
Implements == M!Spec

\* A child has ended before it counted itself in, or all have ended before any of
\* them got to the increment of ^cntloop.
NobodyToWaitFor ==
    \/ \E j \in Jobs : status[j] = "gone" /\ cpc[j] = "init"
    \/ cntloop = 0 /\ \A j \in Jobs : status[j] = "gone" \/ cpc[j] = "ended"

\* main returns, whatever child fails at whatever point, but for the two cases in
\* which what it waits for never comes.  (A test whose jobs all have done top
\* iterations has nothing more to fill.)
ParentReturns ==
    (main = "fork" /\ \E j \in Jobs : first[j] <= top) ~> (main = "returned" \/ NobodyToWaitFor)

\* A child that is asked to stop by ^endloop does stop.
JobsStop == endloop ~> \A j \in Jobs : cpc[j] = "ended" \/ status[j] # "run"

\* Nobody waits for ever for something that still could come: main gets through its
\* loops without a timeout though children fail, unless one fails before it counted
\* itself in, and the children stop when they are asked to.
NobodyStuck == ParentReturns /\ JobsStop

\* As the M code that the comments of simpleapi_imptp.c quote (lines 614-618 and
\* 630-636), which gives up after 300 and 600 seconds: each wait of main ends.
WaitsEnd == main \in {"first", "sync"} ~> main \notin {"first", "sync"}
=============================================================================
