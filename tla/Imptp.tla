-------------------------------- MODULE Imptp --------------------------------
(***************************************************************************)
(* The fill of com/imptp.m with its stop (com/endtp.m), crashes, restarts  *)
(* and the check of com/checkdb.m.                                         *)
(*                                                                         *)
(* What the database holds is kept as the nodes that it held when the jobs *)
(* were started, db, and the number of updates that each job has committed *)
(* since: the body of the loop has a fixed order.                          *)
(*                                                                         *)
(* The jobs update disjoint nodes, so what recovery gives back of one of   *)
(* them (module ImptpBody) does not depend on how they were interleaved,   *)
(* and the prefixes are chosen job by job.                                 *)
(***************************************************************************)
EXTENDS ImptpBody

CONSTANTS
    MaxStarts    \* bound on the number of runs of imptp

ASSUME ImptpAssumption ==
    /\ \A m \in Modes : m.jobs \subseteq 1 .. jobcnt
    /\ MaxStarts \in Nat \ {0}

VARIABLES
    mode,        \* mode of this test; mode.jobs: the jobs that are looked at
    db,          \* db[j][n]: nodes of iteration n of job j at the last start
    up,          \* the jobs run
    pc,          \* pc[j]: "loop", "test", "ended" or "killed"
    from,        \* from[j]: lasti+1, the first iteration of this run
    done,        \* done[j]: updates of this run that job j has committed
    endloop,     \* ^endloop(fillid)
    cntloop,     \* ^cntloop(fillid)
    starts       \* number of starts of imptp so far

vars == <<mode, db, up, pc, from, done, endloop, cntloop, starts>>

Jobs == mode.jobs
Letters == mode.letters

N == LenOf(mode)

\* $incr of ^cntloop among the updates q+1 .. done[j].
LostIncr(j, q) == Incrs(mode, done[j]) - Incrs(mode, q)

EmptyDb == [n \in 1 .. top |-> [x \in Nodes(mode) |-> "undef"]]

Init ==
    /\ mode \in Modes
    /\ db = [j \in Jobs |-> EmptyDb]
    /\ up = FALSE
    /\ pc = [j \in Jobs |-> "ended"]
    /\ from = [j \in Jobs |-> 1]
    /\ done = [j \in Jobs |-> 0]
    /\ endloop = FALSE
    /\ cntloop = 0
    /\ starts = 0

-----------------------------------------------------------------------------
\* Mutant: the run goes on at ^lasti, not after it.
StartAtLasti ==
    /\ ~up
    /\ starts < MaxStarts
    /\ up' = TRUE
    /\ from' = [j \in Jobs |-> Max({1, LastiOf(db[j])})]
    /\ pc' = [j \in Jobs |-> IF LastiOf(db[j]) < top THEN "loop" ELSE "ended"]
    /\ endloop' = FALSE
    /\ starts' = starts + 1
    /\ done' = [j \in Jobs |-> 0]
    /\ UNCHANGED <<mode, db, cntloop>>

\* imptp starts the jobs; each one goes on after its ^lasti.
Start ==
    /\ ~up
    /\ starts < MaxStarts
    /\ up' = TRUE
    /\ from' = [j \in Jobs |-> LastiOf(db[j]) + 1]
    /\ pc' = [j \in Jobs |-> IF LastiOf(db[j]) < top THEN "loop" ELSE "ended"]
    /\ endloop' = FALSE
    /\ starts' = starts + 1
    /\ done' = [j \in Jobs |-> 0]
    /\ UNCHANGED <<mode, db, cntloop>>

\* The next commit of the body of the loop.
Commit(j) ==
    /\ pc[j] = "loop"
    /\ done' = [done EXCEPT ![j] = @ - (@ % N) + EndOf[mode][@ % N]]
    /\ pc' = [pc EXCEPT ![j] = IF done'[j] % N = 0 THEN "test" ELSE "loop"]
    /\ cntloop' = cntloop + Incrs(mode, done'[j]) - Incrs(mode, done[j])
    /\ UNCHANGED <<mode, db, up, from, endloop, starts>>

\* The end of an iteration: quit:$get(^endloop(fillid),0), and the bound top.
TestEndloop(j) ==
    /\ pc[j] = "test"
    /\ pc' = [pc EXCEPT ![j] =
                IF endloop \/ from[j] + (done[j] \div N) > top THEN "ended" ELSE "loop"]
    /\ UNCHANGED <<mode, db, up, from, done, endloop, cntloop, starts>>

\* endtp asks the jobs to stop.
EndTP ==
    /\ up /\ ~endloop
    /\ endloop' = TRUE
    /\ UNCHANGED <<mode, db, up, pc, from, done, cntloop, starts>>

\* All jobs have ended, or have been killed and recovered.
AllEnded ==
    /\ up
    /\ \A j \in Jobs : pc[j] = "ended"
    /\ db' = [j \in Jobs |-> Recovered(mode, db[j], from[j], [l \in Letters |-> done[j]])]
    /\ up' = FALSE
    /\ done' = [j \in Jobs |-> 0]
    /\ from' = [j \in Jobs |-> 1]
    /\ UNCHANGED <<mode, pc, endloop, cntloop, starts>>

-----------------------------------------------------------------------------
(* Crash and recovery, external *)

\* The crash script kills the jobs.
Crash ==
    /\ mode.crash
    /\ up
    /\ \A j \in Jobs : pc[j] # "killed"
    /\ pc' = [j \in Jobs |-> "killed"]
    /\ UNCHANGED <<mode, db, up, from, done, endloop, cntloop, starts>>

\* The database is recovered; this is what comes back of job j.
Recover(j) ==
    /\ pc[j] = "killed"
    /\ \E cut \in CutsOf[mode][done[j]] :
          /\ db' = [db EXCEPT ![j] = Recovered(mode, db[j], from[j], cut)]
          /\ cntloop' = cntloop - LostIncr(j, cut[cntloopRegion(mode)])
    /\ pc' = [pc EXCEPT ![j] = "ended"]
    /\ done' = [done EXCEPT ![j] = 0]
    /\ UNCHANGED <<mode, up, from, endloop, starts>>

-----------------------------------------------------------------------------
Next ==
    \/ Start \/ EndTP \/ AllEnded \/ Crash
    \/ \E j \in Jobs : Commit(j) \/ TestEndloop(j) \/ Recover(j)

Spec == Init /\ [][Next]_vars

-----------------------------------------------------------------------------
(* Properties *)

\* The variables of the fill have their types: no job does more than the top
\* iterations that the loop of impjob allows, in any of its runs.
TypeOK ==
    /\ mode \in Modes
    /\ db \in [Jobs -> [1 .. top -> [Nodes(mode) -> Values]]]
    /\ up \in BOOLEAN
    /\ pc \in [Jobs -> {"loop", "test", "ended", "killed"}]
    /\ from \in [Jobs -> 1 .. top + 1]
    /\ done \in [Jobs -> 0 .. top * N]
    /\ endloop \in BOOLEAN
    /\ cntloop \in 0 .. Cardinality(Jobs) * top * MaxStarts
    /\ starts \in 0 .. MaxStarts

\* Whenever the jobs are down - stopped by endtp, or killed and recovered, any
\* number of times, in the middle of any stage - checkdb passes.  (And no job
\* ever goes beyond its top iterations, TypeOK.)
CheckdbPasses == TypeOK /\ (~up => checkdb(mode, db, cntloop))

\* A restart goes on after ^lasti, which Stage 1 or Stage 11 sets; an
\* iteration whose ^[a-i]ndxarr nodes came back is never run again.
CompleteNotRedone ==
    \A j \in Jobs : pc[j] \in {"loop", "test"} =>
        \A n \in from[j] .. top : ~AllNdxarr(mode, db[j][n])

\* The nodes of a finished iteration that a loss is tried on: all but ^bntp(subsMAX),
\* ^*ndxarr and ^lasti.
Checked == Nodes(mode) \ ({ndxarr(l) : l \in Letters} \cup {lasti, bntpMAX(mode)})

\* checkdb fails when any of the nodes S of iteration n is taken away, or brought back.
LossesSeen(j, n, S) ==
    \A x \in S :
        LET other == IF Defined(db[j][n], x) THEN "undef" ELSE "val"
        IN ~checkdb(mode, [db EXCEPT ![j][n][x] = other], cntloop)

\* "Check if nothing is lost", as checkdb.m promises (line 14): take one node of a
\* finished iteration away, or bring one back, and checkdb fails.  This does not hold
\* of ^espan when the targetpiece is 0, because piece 0 is compared, and not after a
\* crash, when label crash looks at the span nodes of incomplete iterations only.
LossSeenNoCrash ==
    ~up /\ ~mode.crash => \A j \in Jobs : \A n \in 1 .. LastiOf(db[j]) :
        AllNdxarr(mode, db[j][n]) =>
            LossesSeen(j, n, Checked \ (IF n \in mode.piece0 THEN {span("e")} ELSE {}))
=============================================================================
