----------------------------- MODULE RunConcurr -----------------------------
(***************************************************************************)
(* stress/inref/simpleapi_run_concurr.c ("s") and its copy with the        *)
(* threaded calls, simplethreadapi_run_concurr.c ("st").  The parent holds *)
(* the lock ^permit, forks its children and releases the lock once all of  *)
(* them have counted themselves in ^permit(instance).  Every child then    *)
(* kills, sets and verifies the same nodes, iteration after iteration: the *)
(* first outside transactions (NTP), some in transactions it rolls back    *)
(* (TPR), the rest in transactions it commits (TPC).                       *)
(*                                                                         *)
(* ^afill, ^e, ^cfill, ^dfill, ^ffill are indexed by (ndx,obj,iter) and    *)
(* shared by all jobs; ^efill, ^%1, ^b, ^bbb... by (ndx,obj,pid,iter).     *)
(* obj = ^cust(ndx,^instance) is a function of ndx and left out.  External:*)
(* a transaction sees its own writes, they reach the database at commit    *)
(* only, and any call in it may return YDB_TP_RESTART before the last try. *)
(***************************************************************************)
EXTENDS Integers, Sequences, FiniteSets

CONSTANTS
  Prime, Root,          \* ^prime and ^root(1..10)
  NTPJ, TPRJ, TPCJ,     \* last child of each kind
  Iterate,              \* argv[1]
  SharedNames, OwnNames,\* globals without and with the pid subscript, in code order
  LastTry               \* restarts of a transaction before it holds the critical section

MAXERR == 10
NCHILDREN == TPCJ
Children == 1..NCHILDREN
Ndx == 1..(Prime - 1)
Iters == 1..Iterate
Names == SharedNames \o OwnNames
IsShared(k) == k <= Len(SharedNames)
Undef == 0
Keep == -1

\* o lists the powers of r modulo Prime, and every index is among them.
IsOrbit(o, r) ==
  /\ o[0] = 1 /\ \A j \in 1..(Prime - 2) : o[j] = (o[j - 1] * r) % Prime
  /\ \A x \in Ndx : \E j \in 0..(Prime - 2) : o[j] = x

\* ^root holds primitive roots of ^prime (initdat.m, where they are listed for
\* each prime), and at most one job works outside transactions (stress.m, line 25).
ASSUME ConcurrAssumption ==
  /\ Prime \in Nat /\ Prime >= 2 /\ Root \in [1..10 -> Nat]
  /\ \A p \in 1..10 : \E o \in [0..(Prime - 2) -> Ndx] : IsOrbit(o, Root[p])
  /\ NTPJ \in {0, 1} /\ TPRJ \in Nat /\ TPCJ \in Nat
  /\ Iterate \in Nat /\ LastTry \in Nat
  /\ SharedNames \in Seq(STRING) /\ SharedNames # <<>>
  /\ OwnNames \in Seq(STRING) /\ OwnNames # <<>>

VARIABLES
  api,            \* "s" or "st"
  main, forked,   \* where the parent is, and the children it has forked
  locked,         \* the parent holds ^permit
  permit,         \* ^permit(localinstance)
  PID,            \* jobs with ^PID(jobno,localinstance)
  lasti,          \* ^lasti(jobno,localinstance), 0 while undefined
  db,             \* the nodes: db[owner][iter][k][ndx], owner 0 for a shared one
  pc, loop,       \* each child
  act, i, k,      \* m_filling_randfill: the switch, its loop, the global
  ndx, ERR,
  pend,           \* writes of the transaction: pend[c][k][ndx]
  tries           \* $TRESTART

fill == <<act, i, k, ndx, ERR>>
parent == <<main, forked, locked>>
vars == <<api, parent, permit, PID, lasti, db, pc, loop, fill, pend, tries>>

Owner(c, g) == IF IsShared(g) THEN 0 ELSE c
NoWrites == [g \in 1..Len(Names) |-> [x \in Ndx |-> Keep]]

Init ==
  /\ api \in {"s", "st"}
  /\ main = "lock" /\ forked = 0 /\ locked = FALSE
  /\ permit = 0 /\ PID = {} /\ lasti = [c \in Children |-> 0]
  /\ db = [o \in 0..NCHILDREN |-> [it \in Iters |-> [g \in 1..Len(Names) |-> [x \in Ndx |-> Undef]]]]
  /\ pc = [c \in Children |-> "unborn"] /\ loop = [c \in Children |-> 1]
  /\ act = [c \in Children |-> "KILL"] /\ i = [c \in Children |-> 0]
  /\ k = [c \in Children |-> 1] /\ ndx = [c \in Children |-> 1]
  /\ ERR = [c \in Children |-> 0]
  /\ pend = [c \in Children |-> NoWrites] /\ tries = [c \in Children |-> 0]

Goto(c, l) == pc' = [pc EXCEPT ![c] = l]

-----------------------------------------------------------------------------
(* main: the same calls in both programs, since the threaded ones cannot   *)
(* be used before the fork.                                                *)

Lock ==
  /\ main = "lock" /\ locked' = TRUE /\ main' = "fork"
  /\ UNCHANGED <<api, forked, permit, PID, lasti, db, pc, loop, fill, pend, tries>>

Fork ==
  /\ main = "fork" /\ forked < NCHILDREN
  /\ forked' = forked + 1 /\ Goto(forked + 1, "pid")
  /\ UNCHANGED <<api, main, locked, permit, PID, lasti, db, loop, fill, pend, tries>>

\* Mutant: the parent stops waiting one child early.
AllInBut == permit + 1 >= NCHILDREN

\* The loop around ydb_get of ^permit(localinstance).
AllIn == permit = NCHILDREN

Release ==
  /\ main = "fork" /\ forked = NCHILDREN /\ AllIn
  /\ locked' = FALSE /\ main' = "wait"
  /\ UNCHANGED <<api, forked, permit, PID, lasti, db, pc, loop, fill, pend, tries>>

\* waitpid, child after child: how a child ended is not looked at.
Waited ==
  /\ main = "wait" /\ \A c \in Children : pc[c] \in {"exit", "abort", "timeout"}
  /\ main' = "end"
  /\ UNCHANGED <<api, forked, locked, permit, PID, lasti, db, pc, loop, fill, pend, tries>>

-----------------------------------------------------------------------------
(* m_job_stress: a child.                                                  *)

\* Mutant: one more job works outside transactions.
tpflagTwo(c) == IF c <= NTPJ + 1 THEN "NTP" ELSE IF c <= TPRJ THEN "TPR" ELSE "TPC"

tpflag(c) == IF c <= NTPJ THEN "NTP" ELSE IF c <= TPRJ THEN "TPR" ELSE "TPC"

SetPID(c) ==
  /\ pc[c] = "pid" /\ PID' = PID \cup {c} /\ Goto(c, "incr")
  /\ UNCHANGED <<api, parent, permit, lasti, db, loop, fill, pend, tries>>

\* The status of ydb_incr is the one the program does not look at.
IncrPermit(c) ==
  /\ pc[c] = "incr" /\ permit' = permit + 1 /\ Goto(c, "permit")
  /\ UNCHANGED <<api, parent, PID, lasti, db, loop, fill, pend, tries>>

\* ^permit($j) is below ^permit: it waits for the parent, not for siblings.
LockPermit(c) ==
  /\ pc[c] = "permit" /\ ~locked /\ Goto(c, "loop")
  /\ UNCHANGED <<api, parent, permit, PID, lasti, db, loop, fill, pend, tries>>

\* LOCK_TIMEOUT runs out before the parent lets go: YDB_ASSERT fails.
LockTimeout(c) ==
  /\ pc[c] = "permit" /\ locked /\ Goto(c, "timeout")
  /\ UNCHANGED <<api, parent, permit, PID, lasti, db, loop, fill, pend, tries>>

\* job_stress_tpfn begins: m_randfill(KILL).
FirstCall(c) ==
  /\ act' = [act EXCEPT ![c] = "KILL"] /\ i' = [i EXCEPT ![c] = 0] /\ k' = [k EXCEPT ![c] = 1]
  /\ ndx' = [ndx EXCEPT ![c] = 1] /\ ERR' = [ERR EXCEPT ![c] = 0]
  /\ pend' = [pend EXCEPT ![c] = NoWrites]

More(c) == loop[c] <= Iterate

Iteration(c) ==
  /\ pc[c] = "loop" /\ More(c) /\ Goto(c, "fill")
  /\ FirstCall(c) /\ tries' = [tries EXCEPT ![c] = 0]
  /\ UNCHANGED <<api, parent, permit, PID, lasti, db, loop>>

Exit(c) ==
  /\ pc[c] = "loop" /\ ~More(c) /\ Goto(c, "exit")
  /\ UNCHANGED <<api, parent, permit, PID, lasti, db, loop, fill, pend, tries>>

SetLasti(c) ==
  /\ pc[c] = "lasti" /\ lasti' = [lasti EXCEPT ![c] = loop[c]]
  /\ loop' = [loop EXCEPT ![c] = @ + 1] /\ Goto(c, "loop")
  /\ UNCHANGED <<api, parent, permit, PID, db, fill, pend, tries>>

-----------------------------------------------------------------------------
(* m_filling_randfill: one step per node.  For a node with the pid, ydb_get*)
(* and ydb_set are one step: no other job has that node.                   *)

pno(c) == ((2 * loop[c]) % 10) + 1
root(c) == Root[pno(c)]

Doing(c, a) == pc[c] = "fill" /\ act[c] = a
InTP(c) == tpflag(c) # "NTP"

\* ydb_get in the transaction, or outside.
Value(c) ==
  IF InTP(c) /\ pend[c][k[c]][ndx[c]] # Keep THEN pend[c][k[c]][ndx[c]]
  ELSE db[Owner(c, k[c])][loop[c]][k[c]][ndx[c]]

Write(c, v) ==
  IF InTP(c) THEN pend' = [pend EXCEPT ![c][k[c]][ndx[c]] = v] /\ UNCHANGED db
             ELSE db' = [db EXCEPT ![Owner(c, k[c])][loop[c]][k[c]][ndx[c]] = v] /\ UNCHANGED pend

KillNode(c) == Doing(c, "KILL") /\ Write(c, Undef) /\ UNCHANGED ERR

SetNode(c) ==
  /\ Doing(c, "SET") /\ UNCHANGED ERR
  /\ Write(c, IF IsShared(k[c]) THEN ndx[c] ELSE Value(c) + Prime)

\* YDB_ASSERT fails on an undefined node.
VerUndef(c) == act[c] = "VER" /\ Value(c) = Undef

\* m_EXAM_randfill counts a wrong value.
VerNode(c) ==
  LET right == Value(c) = (IF IsShared(k[c]) THEN ndx[c] ELSE Prime)
  IN  /\ Doing(c, "VER") /\ UNCHANGED <<db, pend>>
      /\ ERR' = [ERR EXCEPT ![c] = IF right \/ VerUndef(c) THEN @ ELSE @ + 1]

NextAct == [KILL |-> "SET", SET |-> "VER", VER |-> "KILL"]

LastIndex(c) == i[c] = Prime - 2

\* The next global, the next index, or the next of KILL, SET and VER.
Advance(c) ==
  LET global == k[c] < Len(Names)
      index  == ~global /\ ~LastIndex(c) /\ ERR'[c] <= MAXERR
      next   == ~global /\ ~index
  IN  /\ k' = [k EXCEPT ![c] = IF global THEN @ + 1 ELSE 1]
      /\ i' = [i EXCEPT ![c] = IF index THEN @ + 1 ELSE IF next THEN 0 ELSE @]
      /\ ndx' = [ndx EXCEPT ![c] = IF index THEN (@ * root(c)) % Prime ELSE IF next THEN 1 ELSE @]
      /\ act' = [act EXCEPT ![c] = IF next THEN NextAct[@] ELSE @]
      /\ Goto(c, IF VerUndef(c) THEN "abort" ELSE IF next /\ act[c] = "VER" THEN "return" ELSE "fill")

Filling(c) ==
  /\ Advance(c)
  /\ UNCHANGED <<api, parent, permit, PID, lasti, loop, tries>>

-----------------------------------------------------------------------------
(* job_stress_tpfn.                                                        *)

\* Mutant: a transaction may be restarted for ever.
RestartFree(c) ==
  /\ InTP(c) /\ pc[c] \in {"fill", "return"}
  /\ FirstCall(c) /\ Goto(c, "fill")
  /\ UNCHANGED <<api, parent, permit, PID, lasti, db, loop, tries>>

\* A call returns YDB_TP_RESTART, the callback returns it, and is run again.
Restart(c) ==
  /\ InTP(c) /\ pc[c] \in {"fill", "return"} /\ tries[c] < LastTry
  /\ FirstCall(c) /\ Goto(c, "fill")
  /\ tries' = [tries EXCEPT ![c] = @ + 1]
  /\ UNCHANGED <<api, parent, permit, PID, lasti, db, loop>>

\* The nodes g of owner o with the writes of c on top.
Merged(c, o) ==
  [g \in 1..Len(Names) |-> [x \in Ndx |->
     IF Owner(c, g) = o /\ pend[c][g][x] # Keep THEN pend[c][g][x] ELSE db[o][loop[c]][g][x]]]
Committed(c) == [db EXCEPT ![0][loop[c]] = Merged(c, 0), ![c][loop[c]] = Merged(c, c)]

\* Mutant: the TPR jobs return YDB_OK.
ReturnOK(c) == IF InTP(c) THEN Committed(c) ELSE db

\* TPR returns YDB_TP_ROLLBACK, TPC YDB_OK.
Return(c) == IF tpflag(c) = "TPC" THEN Committed(c) ELSE db

Returned(c) ==
  /\ pc[c] = "return" /\ db' = Return(c)
  /\ pend' = [pend EXCEPT ![c] = NoWrites] /\ Goto(c, "lasti")
  /\ UNCHANGED <<api, parent, permit, PID, lasti, loop, fill, tries>>

-----------------------------------------------------------------------------
(* The steps of the two programs.  The threaded one passes each call the   *)
(* token its callback was given, YDB_NOTTP outside a transaction, which is *)
(* the only difference between the calls.                                  *)

MainNext == api = "s" /\ (Lock \/ Fork \/ Release \/ Waited)
MainNext_st == api = "st" /\ (Lock \/ Fork \/ Release \/ Waited)

m_job_stress_start(c) == api = "s" /\ (SetPID(c) \/ IncrPermit(c) \/ LockPermit(c) \/ LockTimeout(c))
m_job_stress_start_st(c) == api = "st" /\ (SetPID(c) \/ IncrPermit(c) \/ LockPermit(c) \/ LockTimeout(c))

m_job_stress_loop(c) == api = "s" /\ (Iteration(c) \/ SetLasti(c) \/ Exit(c))
m_job_stress_loop_st(c) == api = "st" /\ (Iteration(c) \/ SetLasti(c) \/ Exit(c))

job_stress_tpfn(c) == api = "s" /\ (Restart(c) \/ Returned(c))
job_stress_tpfn_st(c) == api = "st" /\ (Restart(c) \/ Returned(c))

\* m_randfill and m_filling_randfill, by the case of the switch.
filling_SET(c) == api = "s" /\ SetNode(c) /\ Filling(c)
filling_VER(c) == api = "s" /\ VerNode(c) /\ Filling(c)
filling_KILL(c) == api = "s" /\ KillNode(c) /\ Filling(c)
filling_SET_st(c) == api = "st" /\ SetNode(c) /\ Filling(c)
filling_VER_st(c) == api = "st" /\ VerNode(c) /\ Filling(c)
filling_KILL_st(c) == api = "st" /\ KillNode(c) /\ Filling(c)

Child(c) ==
  \/ m_job_stress_start(c) \/ m_job_stress_loop(c) \/ job_stress_tpfn(c)
  \/ filling_SET(c) \/ filling_VER(c) \/ filling_KILL(c)
Child_st(c) ==
  \/ m_job_stress_start_st(c) \/ m_job_stress_loop_st(c) \/ job_stress_tpfn_st(c)
  \/ filling_SET_st(c) \/ filling_VER_st(c) \/ filling_KILL_st(c)

Ended == main = "end" /\ UNCHANGED vars

Next == MainNext \/ MainNext_st \/ (\E c \in Children : Child(c) \/ Child_st(c)) \/ Ended

\* The operating system runs every process; restarts are bounded by LastTry.
Spec == Init /\ [][Next]_vars
        /\ WF_vars(MainNext \/ MainNext_st)
        /\ \A c \in Children : WF_vars(Child(c) \/ Child_st(c))

-----------------------------------------------------------------------------
(* Properties.                                                             *)

\* Every variable keeps to its values; a shared node only ever holds its own index.
TypeOK ==
  /\ api \in {"s", "st"} /\ main \in {"lock", "fork", "wait", "end"}
  /\ forked \in 0..NCHILDREN /\ locked \in BOOLEAN /\ permit \in 0..NCHILDREN
  /\ PID \subseteq Children /\ lasti \in [Children -> 0..Iterate]
  /\ \A o \in 0..NCHILDREN, it \in Iters, g \in 1..Len(Names), x \in Ndx :
       db[o][it][g][x] \in {Undef, IF IsShared(g) THEN x ELSE Prime}
  /\ pc \in [Children -> {"unborn", "pid", "incr", "permit", "timeout", "loop", "fill",
                          "return", "lasti", "exit", "abort"}]
  /\ loop \in [Children -> 1..(Iterate + 1)] /\ act \in [Children -> {"KILL", "SET", "VER"}]
  /\ i \in [Children -> 0..(Prime - 2)] /\ k \in [Children -> 1..Len(Names)]
  /\ ndx \in [Children -> Ndx] /\ ERR \in [Children -> 0..(MAXERR + Len(Names))]
  /\ tries \in [Children -> 0..LastTry]

\* The children start together: a child that passes lock +^permit($j) of m_job_stress
\* does so when every sibling has set its ^PID and counted itself, and the parent has let go.
Barrier ==
  \A c \in Children : pc[c] \in {"loop", "fill", "return", "lasti", "exit"} =>
    permit = NCHILDREN /\ PID = Children /\ ~locked

\* The VER pass of job_stress_tpfn finds what the SET pass wrote, whatever the other
\* jobs do between the two: no YDB_ASSERT on an undefined node, no failed EXAM.
VerifyClean == \A c \in Children : pc[c] # "abort" /\ ERR[c] = 0

OwnNodes(c, it) == {db[c][it][g][x] : g \in (Len(SharedNames) + 1)..Len(Names), x \in Ndx}

\* A transaction of job_stress_tpfn is seen whole or not at all, and never when it
\* returns YDB_TP_ROLLBACK, however often it was restarted.
AllOrNothing ==
  TypeOK /\ \A c \in Children : InTP(c) => \A it \in Iters :
    OwnNodes(c, it) \in {{Undef}, IF tpflag(c) = "TPR" THEN {Undef} ELSE {Prime}}

\* Neither verification finds an error: not the VER pass of each iteration, and not
\* verify^concurr once run^concurr is over, for the NTP job and the TPC jobs that got
\* past the lock.
verifyPasses ==
  /\ VerifyClean
  /\ main = "end" =>
    \A c \in Children : tpflag(c) # "TPR" /\ pc[c] # "timeout" =>
      /\ lasti[c] = Iterate
      /\ \A it \in Iters :
           /\ OwnNodes(c, it) = {Prime}
           /\ \A g \in 1..Len(SharedNames), x \in Ndx : db[0][it][g][x] = x

\* main returns: every child gets into ^permit, past the lock or its timeout, and ends.
Stops == <>(main = "end")
=============================================================================
