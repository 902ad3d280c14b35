-------------------------- MODULE RunConcurr_proofs --------------------------
(***************************************************************************)
(* For any number of children, iterations, globals and restarts, and any   *)
(* prime with primitive roots: the children of run_concurr start together, *)
(* a transaction is seen whole or not at all, and both verifications pass. *)
(***************************************************************************)
EXTENDS RunConcurr, FiniteSetTheorems, TLAPS

Orbit(r) == CHOOSE o \in [0..(Prime - 2) -> Ndx] : IsOrbit(o, r)

\* What the SET pass leaves in a node.
Right(g, x) == IF IsShared(g) THEN x ELSE Prime

\* The nodes as child c writes them, in the database or in its transaction.
Written(c, g, x) ==
  IF InTP(c) THEN pend[c][g][x] ELSE db[Owner(c, g)][loop[c]][g][x]

\* No other job can change what c wrote there before it commits.
Private(c, g) == InTP(c) \/ ~IsShared(g)

\* The pass of m_filling_randfill has been at this node.
Passed(c, g, x) ==
  \E j \in 0..(Prime - 2) :
    Orbit(root(c))[j] = x /\ (j < i[c] \/ (j = i[c] /\ g < k[c]))

\* Child c is through with iteration it.
Finished(c, it) == it < loop[c] \/ (it = loop[c] /\ pc[c] = "lasti")

\* The job outside transactions is between its kills and its sets.
Killing(it) ==
  \E c \in Children : /\ ~InTP(c) /\ loop[c] = it /\ pc[c] = "fill"
                      /\ act[c] \in {"KILL", "SET"}

Counted == {c \in Children : pc[c] \notin {"unborn", "pid", "incr"}}
Past == {"loop", "fill", "return", "lasti", "exit"}

-----------------------------------------------------------------------------
(* The inductive invariant.                                                *)

ControlOK ==
  /\ api \in {"s", "st"} /\ main \in {"lock", "fork", "wait", "end"}
  /\ forked \in 0..NCHILDREN /\ locked \in BOOLEAN
  /\ PID \subseteq Children
  /\ pc \in [Children -> {"unborn", "pid", "incr", "permit", "timeout", "loop", "fill",
                          "return", "lasti", "exit"}]

FillOK ==
  /\ loop \in [Children -> 1..(Iterate + 1)] /\ act \in [Children -> {"KILL", "SET", "VER"}]
  /\ i \in [Children -> 0..(Prime - 2)] /\ k \in [Children -> 1..Len(Names)]
  /\ ndx \in [Children -> Ndx] /\ ERR = [c \in Children |-> 0]
  /\ tries \in [Children -> 0..LastTry] /\ lasti \in [Children -> 0..Iterate]

DataOK ==
  /\ db \in [0..NCHILDREN -> [Iters -> [1..Len(Names) -> [Ndx -> Nat]]]]
  /\ \A o \in 0..NCHILDREN, it \in Iters, g \in 1..Len(Names), x \in Ndx :
       db[o][it][g][x] \in {Undef, Right(g, x)}
  /\ pend \in [Children -> [1..Len(Names) -> [Ndx -> Int]]]

\* Who holds or waits for the lock, and who is counted in ^permit.
StartInv ==
  /\ permit = Cardinality(Counted)
  /\ \A c \in Children : pc[c] \notin {"unborn", "pid"} => c \in PID
  /\ \A c \in Children : c > forked => pc[c] = "unborn"
  /\ main = "lock" => forked = 0
  /\ main = "fork" => locked
  /\ main \in {"wait", "end"} => ~locked /\ permit = NCHILDREN
  /\ \A c \in Children : pc[c] \in Past => main \in {"wait", "end"}

\* Where a child is in its iterations and in the pass it is doing.
LoopAt(c) ==
  /\ lasti[c] = loop[c] - 1
  /\ pc[c] \in {"fill", "return", "lasti"} => loop[c] <= Iterate
  /\ pc[c] = "exit" => loop[c] = Iterate + 1
  /\ pc[c] # "fill" => i[c] = 0
  /\ ndx[c] = Orbit(root(c))[i[c]]
LoopInv == \A c \in Children : LoopAt(c)

\* What the pass of a child has done so far.
PassAt(c, g, x) ==
  /\ pc[c] = "fill" /\ act[c] = "KILL" /\ Private(c, g) /\ Passed(c, g, x)
       => Written(c, g, x) = Undef
  /\ pc[c] = "fill" /\ act[c] = "SET" /\ Passed(c, g, x) => Written(c, g, x) = Right(g, x)
  /\ pc[c] = "fill" /\ act[c] = "SET" /\ Private(c, g) /\ ~Passed(c, g, x)
       => Written(c, g, x) = Undef
  /\ (pc[c] = "fill" /\ act[c] = "VER") \/ pc[c] = "return" => Written(c, g, x) = Right(g, x)
PassInv == \A c \in Children, g \in 1..Len(Names), x \in Ndx : PassAt(c, g, x)

\* What a child has left in its own nodes of an iteration.
OwnAt(c, it, g, x) ==
  /\ tpflag(c) = "TPR" => db[c][it][g][x] = Undef
  /\ tpflag(c) # "TPR" /\ Finished(c, it) => db[c][it][g][x] = Prime
  /\ tpflag(c) = "TPC" /\ ~Finished(c, it) => db[c][it][g][x] = Undef
OwnInv == \A c \in Children, it \in Iters, g \in 1..Len(Names), x \in Ndx :
            ~IsShared(g) => OwnAt(c, it, g, x)

\* What the children together have left in the shared nodes of an iteration.
SharedAt(it, g, x) ==
  ~Killing(it) /\ (\E c \in Children : tpflag(c) # "TPR" /\ Finished(c, it))
    => db[0][it][g][x] = x
SharedInv == \A it \in Iters, g \in 1..Len(Names), x \in Ndx :
               IsShared(g) => SharedAt(it, g, x)

EndInv == main = "end" => \A c \in Children : pc[c] \in {"exit", "timeout"}

IInv == /\ ControlOK /\ FillOK /\ DataOK /\ StartInv /\ LoopInv
        /\ PassInv /\ OwnInv /\ SharedInv /\ EndInv

-----------------------------------------------------------------------------
(* The constants.                                                          *)

\* The sizes of a run of run_concurr.
LEMMA Sizes ==
  /\ Prime \in Nat /\ Prime >= 2 /\ NTPJ \in {0, 1} /\ TPCJ \in Nat
  /\ Iterate \in Nat /\ LastTry \in Nat
BY ConcurrAssumption

\* There are shared globals and, after them, globals with the pid.
LEMMA Lengths ==
  /\ Len(SharedNames) \in Nat /\ Len(SharedNames) >= 1 /\ Len(Names) \in Nat
  /\ Len(Names) > Len(SharedNames)
<1>1. ASSUME NEW s \in Seq(STRING), s # <<>> PROVE Len(s) \in Nat /\ Len(s) >= 1
  BY <1>1
<1>2. Len(Names) = Len(SharedNames) + Len(OwnNames)
  BY ConcurrAssumption DEF Names
<1>3. QED BY <1>1, <1>2, ConcurrAssumption

\* m_job_stress (simpleapi_run_concurr.c, line 217): at most one job is NTP.
LEMMA Kinds ==
  /\ \A c \in Children : tpflag(c) \in {"NTP", "TPR", "TPC"}
  /\ \A c, d \in Children : ~InTP(c) /\ ~InTP(d) => c = d
<1>1. \A c \in Children : tpflag(c) \in {"NTP", "TPR", "TPC"}
  BY DEF tpflag
<1>2. ASSUME NEW c \in Children, ~InTP(c) PROVE c <= NTPJ
  BY <1>2 DEF tpflag, InTP
<1>3. ASSUME NEW c \in Children, ~InTP(c) PROVE c = 1
  BY <1>2, <1>3, Sizes DEF Children, NCHILDREN
<1>4. QED BY <1>1, <1>3

\* o lists the powers of r from 1 on, and every index once.
Visits(o, r) ==
  /\ o \in [0..(Prime - 2) -> Ndx] /\ o[0] = 1
  /\ \A j \in 1..(Prime - 2) : o[j] = (o[j - 1] * r) % Prime
  /\ \A x \in Ndx : \E j \in 0..(Prime - 2) : o[j] = x
  /\ \A j, l \in 0..(Prime - 2) : o[j] = o[l] => j = l

\* The powers of a primitive root pass every index once: as many powers as
\* indexes, so that none comes twice.
LEMMA OrbitFacts ==
  ASSUME NEW p \in 1..10
  PROVE  Visits(Orbit(Root[p]), Root[p])
<1> DEFINE o == Orbit(Root[p])
<1>1. \E f \in [0..(Prime - 2) -> Ndx] : IsOrbit(f, Root[p])
  BY ConcurrAssumption
<1>2. o \in [0..(Prime - 2) -> Ndx] /\ IsOrbit(o, Root[p])
  BY <1>1 DEF Orbit
<1> HIDE DEF o
<1>3. o \in Surjection(0..(Prime - 2), Ndx)
  BY <1>2 DEF IsOrbit, Surjection
<1>4. /\ IsFiniteSet(0..(Prime - 2)) /\ Cardinality(0..(Prime - 2)) = Prime - 1
      /\ IsFiniteSet(Ndx) /\ Cardinality(Ndx) = Prime - 1
  BY Sizes, FS_Interval DEF Ndx
<1>5. o \in Injection(0..(Prime - 2), Ndx)
  BY <1>3, <1>4, FS_SurjSameCardinalityImpliesInj
<1>6. \A j, l \in 0..(Prime - 2) : o[j] = o[l] => j = l
  BY <1>2, <1>5 DEF Injection, IsInjective
<1>7. QED BY <1>2, <1>6 DEF IsOrbit, Visits, o

\* m_randfill uses one of the ten roots.
LEMMA RootIndex ==
  ASSUME NEW c \in Children, FillOK
  PROVE  Visits(Orbit(root(c)), root(c))
<1>1. loop[c] \in Nat
  BY DEF FillOK
<1>2. pno(c) \in 1..10 /\ root(c) = Root[pno(c)]
  BY <1>1 DEF pno, root
<1>3. QED BY <1>2, OrbitFacts

-----------------------------------------------------------------------------
(* The steps of the two programs, without the guards that tell them apart. *)

Main == Lock \/ Fork \/ Release \/ Waited
Start(c) == SetPID(c) \/ IncrPermit(c) \/ LockPermit(c) \/ LockTimeout(c)
Fill(c) == (KillNode(c) \/ SetNode(c) \/ VerNode(c)) /\ Filling(c)
Work(c) == Iteration(c) \/ SetLasti(c) \/ Restart(c) \/ Returned(c) \/ Fill(c)

\* Every step of run_concurr is one of them, or nothing.
LEMMA NextCases ==
  ASSUME [Next]_vars
  PROVE  Main \/ (\E c \in Children : Start(c) \/ Exit(c) \/ Work(c)) \/ UNCHANGED vars
<1>1. ASSUME NEW c \in Children, Child(c) \/ Child_st(c) PROVE Start(c) \/ Exit(c) \/ Work(c)
  BY <1>1 DEF Child, Child_st, m_job_stress_start, m_job_stress_start_st, m_job_stress_loop,
     m_job_stress_loop_st, job_stress_tpfn, job_stress_tpfn_st, filling_SET, filling_VER,
     filling_KILL, filling_SET_st, filling_VER_st, filling_KILL_st, Start, Work, Fill
<1>2. QED BY <1>1 DEF Next, MainNext, MainNext_st, Main, Ended

-----------------------------------------------------------------------------
(* Start and end: main, and the first steps of m_job_stress.               *)

\* The children counted in ^permit, as a finite set.
LEMMA CountedFinite ==
  /\ IsFiniteSet(Children) /\ Cardinality(Children) = NCHILDREN
  /\ IsFiniteSet(Counted) /\ Cardinality(Counted) \in 0..NCHILDREN
  /\ Cardinality(Counted) = NCHILDREN => Counted = Children
<1>1. IsFiniteSet(Children) /\ Cardinality(Children) = NCHILDREN
  BY Sizes, FS_Interval DEF Children, NCHILDREN
<1>2. Counted \in SUBSET Children
  BY DEF Counted
<1>3. /\ IsFiniteSet(Counted) /\ Cardinality(Counted) <= Cardinality(Children)
      /\ Cardinality(Children) = Cardinality(Counted) => Children = Counted
  BY <1>1, <1>2, FS_Subset
<1>4. Cardinality(Counted) \in Nat
  BY <1>3, FS_CardinalityType
<1>5. NCHILDREN \in Nat
  BY Sizes DEF NCHILDREN
<1>6. QED BY <1>1, <1>3, <1>4, <1>5

\* A step that moves children without touching their work leaves it intact.
LEMMA QuietStep ==
  ASSUME IInv, UNCHANGED <<lasti, db, loop, fill, pend, tries>>,
         \A c \in Children : pc'[c] # pc[c] =>
           /\ pc[c] \notin {"fill", "return", "lasti", "exit"}
           /\ pc'[c] \notin {"fill", "return", "lasti"}
           /\ pc'[c] = "exit" => loop[c] = Iterate + 1
  PROVE  FillOK' /\ DataOK' /\ LoopInv' /\ PassInv' /\ OwnInv' /\ SharedInv'
<1>0. UNCHANGED <<act, i, k, ndx, ERR>>
  BY DEF fill
<1>1. FillOK' /\ DataOK'
  BY <1>0 DEF IInv, FillOK, DataOK, Right
<1>2. LoopInv'
  BY <1>0 DEF IInv, LoopInv, LoopAt, root, pno
<1>3. PassInv'
  BY <1>0 DEF IInv, PassInv, PassAt, Passed, Written, Right, root, pno
<1>4. \A c \in Children, it \in Iters : Finished(c, it)' <=> Finished(c, it)
  BY DEF Finished
<1>5. \A it \in Iters : Killing(it)' <=> Killing(it)
  BY <1>0 DEF Killing
<1>6. OwnInv'
  BY <1>4 DEF IInv, OwnInv, OwnAt
<1>7. SharedInv'
  BY <1>4, <1>5 DEF IInv, SharedInv, SharedAt
<1>8. QED BY <1>1, <1>2, <1>3, <1>6, <1>7

\* The parent locks ^permit, forks, lets go when all are counted, and waits.
LEMMA MainStep ==
  ASSUME IInv, Main
  PROVE  IInv'
<1>1. NCHILDREN \in Nat
  BY Sizes DEF NCHILDREN
<1>2. CASE Lock
  <2>1. Counted' = Counted
    BY <1>2 DEF Lock, Counted
  <2>2. ControlOK' /\ StartInv' /\ EndInv'
    BY <1>2, <2>1 DEF Lock, IInv, ControlOK, StartInv, EndInv, Past
  <2>3. FillOK' /\ DataOK' /\ LoopInv' /\ PassInv' /\ OwnInv' /\ SharedInv'
    BY <1>2, QuietStep DEF Lock
  <2>4. QED BY <2>2, <2>3 DEF IInv
<1>3. CASE Fork
  <2> DEFINE n == forked + 1
  <2>1. n \in Children /\ pc[n] = "unborn" /\ pc' = [pc EXCEPT ![n] = "pid"] /\ forked' = n
    BY <1>1, <1>3 DEF Fork, Goto, Children, IInv, ControlOK, StartInv
  <2>2. pc \in [Children -> {"unborn", "pid", "incr", "permit", "timeout", "loop", "fill",
                             "return", "lasti", "exit"}]
    BY DEF IInv, ControlOK
  <2>3. Counted' = Counted
    BY <2>1, <2>2 DEF Counted
  <2>4. ControlOK'
    BY <1>1, <1>3, <2>1, <2>2 DEF Fork, IInv, ControlOK
  <2>5. StartInv' /\ EndInv'
    <3>1. UNCHANGED <<main, locked, permit, PID>> /\ main = "fork"
      BY <1>3 DEF Fork
    <3>2. \A c \in Children : c > forked' => pc'[c] = "unborn"
      BY <1>1, <2>1, <2>2 DEF IInv, StartInv, ControlOK, Children
    <3>3. \A c \in Children : pc'[c] \notin {"unborn", "pid"} => c \in PID'
      BY <3>1, <2>1, <2>2 DEF IInv, StartInv
    <3>4. \A c \in Children : pc'[c] \in Past => pc[c] \in Past
      BY <2>1, <2>2 DEF Past
    <3>5. QED BY <2>3, <3>1, <3>2, <3>3, <3>4 DEF IInv, StartInv, EndInv
  <2>6. FillOK' /\ DataOK' /\ LoopInv' /\ PassInv' /\ OwnInv' /\ SharedInv'
    <3>1. \A c \in Children : pc'[c] # pc[c] => pc[c] = "unborn" /\ pc'[c] = "pid"
      BY <2>1, <2>2
    <3>2. UNCHANGED <<lasti, db, loop, fill, pend, tries>>
      BY <1>3 DEF Fork
    <3>3. QED BY <3>1, <3>2, QuietStep
  <2>7. QED BY <2>4, <2>5, <2>6 DEF IInv
<1>4. CASE Release
  <2>1. Counted' = Counted
    BY <1>4 DEF Release, Counted
  <2>2. ControlOK' /\ StartInv' /\ EndInv'
    BY <1>4, <2>1 DEF Release, AllIn, IInv, ControlOK, StartInv, EndInv, Past
  <2>3. FillOK' /\ DataOK' /\ LoopInv' /\ PassInv' /\ OwnInv' /\ SharedInv'
    BY <1>4, QuietStep DEF Release
  <2>4. QED BY <2>2, <2>3 DEF IInv
<1>5. CASE Waited
  <2>1. Counted' = Counted
    BY <1>5 DEF Waited, Counted
  <2>2. ControlOK' /\ StartInv'
    BY <1>5, <2>1 DEF Waited, IInv, ControlOK, StartInv, Past
  <2>3. EndInv'
    BY <1>5 DEF Waited, IInv, ControlOK, EndInv
  <2>4. FillOK' /\ DataOK' /\ LoopInv' /\ PassInv' /\ OwnInv' /\ SharedInv'
    BY <1>5, QuietStep DEF Waited
  <2>5. QED BY <2>2, <2>3, <2>4 DEF IInv
<1>6. QED BY <1>2, <1>3, <1>4, <1>5 DEF Main

\* A child that has not ended moves on: what the barrier asks of the move.
LEMMA MoveStep ==
  ASSUME IInv, NEW c \in Children, UNCHANGED <<api, main, forked, locked>>,
         NEW l \in {"incr", "permit", "timeout", "loop", "fill", "return", "lasti", "exit"},
         pc' = [pc EXCEPT ![c] = l], pc[c] \notin {"unborn", "exit", "timeout"},
         permit' = Cardinality(Counted'), main \in {"wait", "end"} => permit' = permit,
         PID \subseteq PID', PID' \subseteq Children, c \in PID',
         l \in Past => main \in {"wait", "end"}
  PROVE  ControlOK' /\ StartInv' /\ EndInv'
<1>1. pc \in [Children -> {"unborn", "pid", "incr", "permit", "timeout", "loop", "fill",
                           "return", "lasti", "exit"}]
  BY DEF IInv, ControlOK
<1>2. pc'[c] = l /\ \A d \in Children : d # c => pc'[d] = pc[d]
  BY <1>1
<1>3. ControlOK'
  <2>1. pc' \in [Children -> {"unborn", "pid", "incr", "permit", "timeout", "loop", "fill",
                              "return", "lasti", "exit"}]
    BY <1>1
  <2>2. QED BY <2>1 DEF IInv, ControlOK
<1>4. main # "end"
  BY DEF IInv, EndInv
<1>5. EndInv'
  BY <1>4 DEF EndInv
<1>6. ~(c > forked)
  BY DEF IInv, StartInv
<1>7. \A d \in Children : d > forked' => pc'[d] = "unborn"
  BY <1>2, <1>6 DEF IInv, StartInv
<1>8. \A d \in Children : pc'[d] \notin {"unborn", "pid"} => d \in PID'
  BY <1>2 DEF IInv, StartInv
<1>9. \A d \in Children : pc'[d] \in Past => main' \in {"wait", "end"}
  BY <1>2 DEF IInv, StartInv
<1>10. StartInv'
  BY <1>7, <1>8, <1>9 DEF IInv, StartInv
<1>11. QED BY <1>3, <1>5, <1>10

\* m_job_stress counts the child in ^permit, which waits for the lock or gives
\* up, and at last leaves its loop.
LEMMA StartStep ==
  ASSUME IInv, NEW c \in Children, Start(c) \/ Exit(c)
  PROVE  IInv'
<1>0. pc \in [Children -> {"unborn", "pid", "incr", "permit", "timeout", "loop", "fill",
                           "return", "lasti", "exit"}] /\ PID \subseteq Children
  BY DEF IInv, ControlOK
<1>1. permit = Cardinality(Counted) /\ \A d \in Children : pc[d] \notin {"unborn", "pid"} => d \in PID
  BY DEF IInv, StartInv
<1>2. ASSUME NEW l \in {"incr", "permit", "timeout", "loop", "exit"}, pc' = [pc EXCEPT ![c] = l],
             pc[c] \notin {"fill", "return", "lasti", "exit"}, l = "exit" => loop[c] = Iterate + 1,
             UNCHANGED <<lasti, db, loop, fill, pend, tries>>
      PROVE  FillOK' /\ DataOK' /\ LoopInv' /\ PassInv' /\ OwnInv' /\ SharedInv'
  <2>1. \A d \in Children : pc'[d] # pc[d] => d = c /\ pc'[d] = l
    BY <1>0, <1>2
  <2>2. QED BY <1>2, <2>1, QuietStep
<1>3. CASE SetPID(c)
  <2>1. pc' = [pc EXCEPT ![c] = "incr"] /\ pc[c] = "pid" /\ PID' = PID \cup {c} /\ permit' = permit
    BY <1>3 DEF SetPID, Goto
  <2>2. Counted' = Counted
    BY <1>0, <2>1 DEF Counted
  <2>3. ControlOK' /\ StartInv' /\ EndInv'
    BY <1>0, <1>1, <1>3, <2>1, <2>2, MoveStep DEF SetPID, parent, Past
  <2>4. QED BY <1>2, <1>3, <2>1, <2>3 DEF SetPID, IInv
<1>4. CASE IncrPermit(c)
  <2>1. pc' = [pc EXCEPT ![c] = "permit"] /\ pc[c] = "incr" /\ PID' = PID /\ permit' = permit + 1
    BY <1>4 DEF IncrPermit, Goto
  <2>2. Counted' = Counted \cup {c} /\ c \notin Counted
    BY <1>0, <2>1 DEF Counted
  <2>3. permit' = Cardinality(Counted')
    BY <1>1, <2>1, <2>2, CountedFinite, FS_AddElement
  <2>4. main \notin {"wait", "end"}
    <3>1. Cardinality(Counted) # NCHILDREN
      BY <2>2, CountedFinite
    <3>2. QED BY <1>1, <3>1 DEF IInv, StartInv
  <2>5. ControlOK' /\ StartInv' /\ EndInv'
    BY <1>0, <1>1, <1>4, <2>1, <2>3, <2>4, MoveStep DEF IncrPermit, parent, Past
  <2>6. QED BY <1>2, <1>4, <2>1, <2>5 DEF IncrPermit, IInv
<1>5. CASE LockPermit(c)
  <2>1. pc' = [pc EXCEPT ![c] = "loop"] /\ pc[c] = "permit" /\ UNCHANGED <<PID, permit>> /\ ~locked
    BY <1>5 DEF LockPermit, Goto
  <2>2. Counted' = Counted
    BY <1>0, <2>1 DEF Counted
  <2>3. main \in {"wait", "end"}
    <3>1. ~(c > forked)
      BY <2>1 DEF IInv, StartInv
    <3>2. main # "lock"
      BY <3>1 DEF IInv, StartInv, Children
    <3>3. QED BY <2>1, <3>2 DEF IInv, StartInv, ControlOK
  <2>4. ControlOK' /\ StartInv' /\ EndInv'
    BY <1>0, <1>1, <1>5, <2>1, <2>2, <2>3, MoveStep DEF LockPermit, parent
  <2>5. QED BY <1>2, <1>5, <2>1, <2>4 DEF LockPermit, IInv
<1>6. CASE LockTimeout(c)
  <2>1. pc' = [pc EXCEPT ![c] = "timeout"] /\ pc[c] = "permit" /\ UNCHANGED <<PID, permit>>
    BY <1>6 DEF LockTimeout, Goto
  <2>2. Counted' = Counted
    BY <1>0, <2>1 DEF Counted
  <2>3. ControlOK' /\ StartInv' /\ EndInv'
    BY <1>0, <1>1, <1>6, <2>1, <2>2, MoveStep DEF LockTimeout, parent, Past
  <2>4. QED BY <1>2, <1>6, <2>1, <2>3 DEF LockTimeout, IInv
<1>7. CASE Exit(c)
  <2>1. pc' = [pc EXCEPT ![c] = "exit"] /\ pc[c] = "loop" /\ UNCHANGED <<PID, permit>>
    BY <1>7 DEF Exit, Goto
  <2>2. Counted' = Counted
    BY <1>0, <2>1 DEF Counted
  <2>3. main \in {"wait", "end"}
    BY <2>1 DEF IInv, StartInv, Past
  <2>4. ControlOK' /\ StartInv' /\ EndInv'
    BY <1>0, <1>1, <1>7, <2>1, <2>2, <2>3, MoveStep DEF Exit, parent
  <2>5. loop[c] = Iterate + 1
    <3>1. loop[c] \in 1..(Iterate + 1) /\ Iterate \in Nat /\ ~(loop[c] <= Iterate)
      BY <1>7, Sizes DEF Exit, More, IInv, FillOK
    <3>2. QED BY <3>1
  <2>6. QED BY <1>2, <1>7, <2>1, <2>4, <2>5 DEF Exit, IInv
<1>8. QED BY <1>3, <1>4, <1>5, <1>6, <1>7 DEF Start

-----------------------------------------------------------------------------
(* The work of a child: its iterations and transactions.                   *)

\* A child at work leaves the barrier as it is.
LEMMA WorkMoves ==
  ASSUME IInv, NEW c \in Children, UNCHANGED <<api, parent, permit, PID>>,
         pc[c] \in {"loop", "fill", "return", "lasti"},
         NEW l \in {"loop", "fill", "return", "lasti"}, pc' = [pc EXCEPT ![c] = l]
  PROVE  ControlOK' /\ StartInv' /\ EndInv'
<1>1. pc \in [Children -> {"unborn", "pid", "incr", "permit", "timeout", "loop", "fill",
                           "return", "lasti", "exit"}] /\ PID \subseteq Children
  BY DEF IInv, ControlOK
<1>2. Counted' = Counted
  BY <1>1 DEF Counted
<1>3. permit = Cardinality(Counted) /\ c \in PID /\ main \in {"wait", "end"}
  BY DEF IInv, StartInv, Past
<1>4. QED BY <1>1, <1>2, <1>3, MoveStep DEF parent

\* A child at position 0 has its index 1.
LEMMA FirstIndex ==
  ASSUME NEW c \in Children, FillOK
  PROVE  Orbit(root(c))[0] = 1
BY RootIndex DEF Visits

\* job_stress_tpfn begins, for the first time or again after YDB_TP_RESTART.
LEMMA FirstCallStep ==
  ASSUME IInv, NEW c \in Children, Iteration(c) \/ Restart(c)
  PROVE  IInv'
<1>1. /\ pc[c] \in {"loop", "fill", "return"} /\ (pc[c] # "loop" => InTP(c))
      /\ pc' = [pc EXCEPT ![c] = "fill"] /\ FirstCall(c)
      /\ UNCHANGED <<api, parent, permit, PID, lasti, db, loop>>
  BY DEF Iteration, Restart, Goto
<1>2. pc \in [Children -> {"unborn", "pid", "incr", "permit", "timeout", "loop", "fill",
                           "return", "lasti", "exit"}]
  BY DEF IInv, ControlOK
<1>3. pc'[c] = "fill" /\ \A d \in Children : d # c => pc'[d] = pc[d]
  BY <1>1, <1>2
<1>4. FillOK
  BY DEF IInv
<1>5. /\ act'[c] = "KILL" /\ i'[c] = 0 /\ k'[c] = 1 /\ ndx'[c] = 1
      /\ pend' = [pend EXCEPT ![c] = NoWrites]
      /\ \A d \in Children : d # c => /\ act'[d] = act[d] /\ i'[d] = i[d] /\ k'[d] = k[d]
                                       /\ ndx'[d] = ndx[d] /\ pend'[d] = pend[d]
  <2>1. pend \in [Children -> [1..Len(Names) -> [Ndx -> Int]]]
    BY DEF IInv, DataOK
  <2>2. QED BY <1>1, <1>4, <2>1 DEF FirstCall, FillOK
<1>6. loop[c] <= Iterate
  BY <1>1 DEF IInv, LoopInv, LoopAt, Iteration, More, Restart
<1>7. FillOK'
  <2>1. tries' \in [Children -> 0..LastTry]
    <3>1. CASE Iteration(c)
      BY <3>1, <1>4, Sizes DEF Iteration, FillOK
    <3>2. CASE Restart(c)
      BY <3>2, <1>4, Sizes DEF Restart, FillOK
    <3>3. QED BY <3>1, <3>2
  <2>2. act' \in [Children -> {"KILL", "SET", "VER"}] /\ loop' \in [Children -> 1..(Iterate + 1)]
    BY <1>1, <1>4 DEF FirstCall, FillOK
  <2>3. i' \in [Children -> 0..(Prime - 2)] /\ k' \in [Children -> 1..Len(Names)]
        /\ ndx' \in [Children -> Ndx]
    BY <1>1, <1>4, Sizes, Lengths DEF FirstCall, FillOK, Ndx
  <2>4. ERR' = [d \in Children |-> 0]
    BY <1>1, <1>4 DEF FirstCall, FillOK
  <2>5. QED BY <1>1, <1>4, <2>1, <2>2, <2>3, <2>4 DEF FillOK
<1>8. DataOK'
  <2>1. NoWrites \in [1..Len(Names) -> [Ndx -> Int]]
    BY DEF NoWrites, Keep
  <2>2. pend' \in [Children -> [1..Len(Names) -> [Ndx -> Int]]]
    BY <1>5, <2>1 DEF IInv, DataOK
  <2>3. QED BY <1>1, <2>2 DEF IInv, DataOK, Right
<1>9. LoopInv'
  <2>1. LoopAt(c)'
    <3>1. Orbit(root(c)')[0] = 1
      BY <1>1, <1>4, FirstIndex DEF root, pno
    <3>2. QED BY <1>1, <1>3, <1>5, <1>6, <3>1 DEF IInv, LoopInv, LoopAt
  <2>2. ASSUME NEW d \in Children, d # c PROVE LoopAt(d)'
    BY <1>1, <1>3, <1>5, <2>2 DEF IInv, LoopInv, LoopAt, root, pno
  <2>3. QED BY <2>1, <2>2 DEF LoopInv
<1>10. PassInv'
  <2>1. ASSUME NEW g \in 1..Len(Names), NEW x \in Ndx PROVE PassAt(c, g, x)'
    <3>1. ~Passed(c, g, x)'
      BY <1>5, Lengths, Sizes DEF Passed
    <3>2. QED BY <1>3, <1>5, <3>1 DEF PassAt
  <2>2. ASSUME NEW d \in Children, d # c, NEW g \in 1..Len(Names), NEW x \in Ndx
        PROVE  PassAt(d, g, x)'
    <3>1. PassAt(d, g, x)
      BY DEF IInv, PassInv
    <3>2. (Passed(d, g, x)' <=> Passed(d, g, x)) /\ Written(d, g, x)' = Written(d, g, x)
      BY <1>1, <1>5, <2>2 DEF Passed, Written, root, pno
    <3>3. QED BY <1>3, <1>5, <2>2, <3>1, <3>2 DEF PassAt, Right, Private
  <2>3. QED BY <2>1, <2>2 DEF PassInv
<1>11. \A d \in Children, it \in Iters : Finished(d, it)' <=> Finished(d, it)
  BY <1>1, <1>3 DEF Finished
<1>12. OwnInv'
  BY <1>1, <1>11 DEF IInv, OwnInv, OwnAt
<1>13. SharedInv'
  <2>1. ASSUME NEW it \in Iters, Killing(it) PROVE Killing(it)'
    <3>1. PICK d \in Children : /\ ~InTP(d) /\ loop[d] = it /\ pc[d] = "fill"
                                /\ act[d] \in {"KILL", "SET"}
      BY <2>1 DEF Killing
    <3>2. d # c
      BY <1>1, <3>1
    <3>3. QED BY <1>1, <1>3, <1>5, <3>1, <3>2 DEF Killing
  <2>2. QED BY <1>1, <1>11, <2>1 DEF IInv, SharedInv, SharedAt
<1>14. ControlOK' /\ StartInv' /\ EndInv'
  BY <1>1, WorkMoves
<1>15. QED BY <1>7, <1>8, <1>9, <1>10, <1>12, <1>13, <1>14 DEF IInv

\* m_job_stress sets ^lasti and goes on with the next iteration.
LEMMA SetLastiStep ==
  ASSUME IInv, NEW c \in Children, SetLasti(c)
  PROVE  IInv'
<1>1. /\ pc[c] = "lasti" /\ pc' = [pc EXCEPT ![c] = "loop"]
      /\ lasti' = [lasti EXCEPT ![c] = loop[c]] /\ loop' = [loop EXCEPT ![c] = @ + 1]
      /\ UNCHANGED <<api, parent, permit, PID, db, act, i, k, ndx, ERR, pend, tries>>
  BY DEF SetLasti, Goto, fill
<1>2. pc \in [Children -> {"unborn", "pid", "incr", "permit", "timeout", "loop", "fill",
                           "return", "lasti", "exit"}]
  BY DEF IInv, ControlOK
<1>3. FillOK /\ loop \in [Children -> 1..(Iterate + 1)] /\ loop[c] \in 1..Iterate /\ Iterate \in Nat
  BY <1>1, Sizes, SMTT(40) DEF IInv, FillOK, LoopInv, LoopAt
<1>4. /\ pc'[c] = "loop" /\ loop'[c] = loop[c] + 1
      /\ \A d \in Children : d # c => pc'[d] = pc[d] /\ loop'[d] = loop[d] /\ lasti'[d] = lasti[d]
  BY <1>1, <1>2, <1>3
<1>5. FillOK'
  <2>1. loop' \in [Children -> 1..(Iterate + 1)]
    BY <1>1, <1>3
  <2>2. lasti' \in [Children -> 0..Iterate]
    BY <1>1, <1>3 DEF FillOK
  <2>3. QED BY <1>1, <1>3, <2>1, <2>2 DEF FillOK
<1>6. DataOK'
  BY <1>1 DEF IInv, DataOK, Right
<1>7. LoopInv'
  <2>1. LoopAt(c)'
    <3>1. i[c] = 0 /\ ndx[c] = Orbit(root(c))[0]
      BY <1>1 DEF IInv, LoopInv, LoopAt
    <3>2. Orbit(root(c))[0] = 1
      BY <1>3, FirstIndex
    <3>3. Orbit(root(c)')[0] = 1
      <4>1. pno(c)' \in 1..10 /\ root(c)' = Root[pno(c)']
        BY <1>3, <1>4 DEF pno, root
      <4>2. QED BY <4>1, OrbitFacts DEF Visits
    <3>4. lasti'[c] = loop'[c] - 1
      BY <1>1, <1>3, <1>4 DEF FillOK
    <3>5. QED BY <1>1, <1>4, <3>1, <3>2, <3>3, <3>4 DEF LoopAt
  <2>2. ASSUME NEW d \in Children, d # c PROVE LoopAt(d)'
    BY <1>1, <1>4, <2>2 DEF IInv, LoopInv, LoopAt, root, pno
  <2>3. QED BY <2>1, <2>2 DEF LoopInv
<1>8. PassInv'
  <2>1. ASSUME NEW d \in Children, d # c, NEW g \in 1..Len(Names), NEW x \in Ndx
        PROVE  PassAt(d, g, x)'
    <3>1. PassAt(d, g, x)
      BY DEF IInv, PassInv
    <3>2. (Passed(d, g, x)' <=> Passed(d, g, x)) /\ Written(d, g, x)' = Written(d, g, x)
      BY <1>1, <1>4, <2>1 DEF Passed, Written, root, pno
    <3>3. QED BY <1>1, <1>4, <2>1, <3>1, <3>2 DEF PassAt, Right, Private
  <2>2. ASSUME NEW g \in 1..Len(Names), NEW x \in Ndx PROVE PassAt(c, g, x)'
    BY <1>4 DEF PassAt
  <2>3. QED BY <2>1, <2>2 DEF PassInv
<1>9. ASSUME NEW d \in Children, NEW it \in Iters PROVE Finished(d, it)' <=> Finished(d, it)
  <2>1. CASE d = c
    BY <1>1, <1>3, <1>4, <2>1 DEF Finished, Iters
  <2>2. CASE d # c
    BY <1>4, <2>2 DEF Finished
  <2>3. QED BY <2>1, <2>2
<1>10. \A it \in Iters : Killing(it)' <=> Killing(it)
  BY <1>1, <1>4 DEF Killing
<1>11. OwnInv'
  BY <1>1, <1>9 DEF IInv, OwnInv, OwnAt
<1>12. SharedInv'
  BY <1>1, <1>9, <1>10 DEF IInv, SharedInv, SharedAt
<1>13. ControlOK' /\ StartInv' /\ EndInv'
  BY <1>1, WorkMoves
<1>14. QED BY <1>5, <1>6, <1>7, <1>8, <1>11, <1>12, <1>13 DEF IInv

\* job_stress_tpfn has returned: a TPC job commits all its writes, a TPR job
\* none of them, and the writes of the NTP job are in the database already.
LEMMA CommitNodes ==
  ASSUME IInv, NEW c \in Children, Returned(c), NEW o \in 0..NCHILDREN, NEW it \in Iters,
         NEW g \in 1..Len(Names), NEW x \in Ndx
  PROVE  /\ loop[c] \in Iters
         /\ db' \in [0..NCHILDREN -> [Iters -> [1..Len(Names) -> [Ndx -> Nat]]]]
         /\ tpflag(c) = "TPC" /\ it = loop[c] /\ o = Owner(c, g) => db'[o][it][g][x] = Right(g, x)
         /\ ~(tpflag(c) = "TPC" /\ it = loop[c] /\ o = Owner(c, g)) => db'[o][it][g][x] = db[o][it][g][x]
<1>1. /\ db \in [0..NCHILDREN -> [Iters -> [1..Len(Names) -> [Ndx -> Nat]]]]
      /\ pend \in [Children -> [1..Len(Names) -> [Ndx -> Int]]]
  BY DEF IInv, DataOK
<1>2. loop[c] \in Iters
  BY Sizes DEF IInv, LoopInv, LoopAt, FillOK, Iters, Returned
<1>3. c \in 0..NCHILDREN /\ 0 \in 0..NCHILDREN /\ c # 0
  BY Sizes DEF Children, NCHILDREN
<1>4. CASE tpflag(c) # "TPC"
  BY <1>1, <1>2, <1>4 DEF Returned, Return
<1>5. CASE tpflag(c) = "TPC"
  <2>1. db' = [db EXCEPT ![0][loop[c]] = Merged(c, 0), ![c][loop[c]] = Merged(c, c)]
    BY <1>5 DEF Returned, Return, Committed
  <2>2. \A h \in 1..Len(Names), y \in Ndx : pend[c][h][y] = Right(h, y)
    BY <1>5 DEF IInv, PassInv, PassAt, Written, InTP, Returned
  <2>3. \A h \in 1..Len(Names), y \in Ndx : Right(h, y) \in Nat /\ Right(h, y) # Keep
    BY Sizes DEF Right, Ndx, Keep
  <2>4. ASSUME NEW w \in 0..NCHILDREN
        PROVE  Merged(c, w) = [h \in 1..Len(Names) |-> [y \in Ndx |->
                 IF Owner(c, h) = w THEN Right(h, y) ELSE db[w][loop[c]][h][y]]]
    BY <2>2, <2>3 DEF Merged
  <2>5. ASSUME NEW w \in 0..NCHILDREN PROVE Merged(c, w) \in [1..Len(Names) -> [Ndx -> Nat]]
    <3>1. \A h \in 1..Len(Names), y \in Ndx : db[w][loop[c]][h][y] \in Nat
      <4>1. db[w] \in [Iters -> [1..Len(Names) -> [Ndx -> Nat]]]
        BY <1>1
      <4>2. db[w][loop[c]] \in [1..Len(Names) -> [Ndx -> Nat]]
        BY <4>1, <1>2
      <4>3. QED BY <4>2
    <3>2. \A h \in 1..Len(Names), y \in Ndx :
            (IF Owner(c, h) = w THEN Right(h, y) ELSE db[w][loop[c]][h][y]) \in Nat
      BY <2>3, <3>1
    <3>3. QED BY <2>4, <3>2, SMTT(40)
  <2>6. db' \in [0..NCHILDREN -> [Iters -> [1..Len(Names) -> [Ndx -> Nat]]]]
    BY <1>1, <1>2, <1>3, <2>1, <2>5
  <2>7. /\ db'[0][loop[c]] = Merged(c, 0) /\ db'[c][loop[c]] = Merged(c, c)
        /\ o \notin {0, c} \/ it # loop[c] => db'[o][it] = db[o][it]
    BY <1>1, <1>2, <1>3, <2>1
  <2>8. Owner(c, g) \in {0, c}
    BY DEF Owner
  <2>9. CASE it = loop[c] /\ o \in {0, c}
    <3>1. db'[o][it][g][x] = Merged(c, o)[g][x]
      BY <2>7, <2>9
    <3>2. Merged(c, o)[g][x] = IF Owner(c, g) = o THEN Right(g, x) ELSE db[o][it][g][x]
      BY <2>4, <2>9
    <3>3. QED BY <1>2, <1>5, <2>6, <2>9, <3>1, <3>2
  <2>10. CASE ~(it = loop[c] /\ o \in {0, c})
    BY <1>2, <2>6, <2>7, <2>8, <2>10
  <2>11. QED BY <2>9, <2>10
<1>6. QED BY <1>4, <1>5

\* The return of job_stress_tpfn keeps the invariant: who commits writes what
\* the shared nodes hold already, or what the other jobs would write there.
LEMMA ReturnedStep ==
  ASSUME IInv, NEW c \in Children, Returned(c)
  PROVE  IInv'
<1>1. /\ pc[c] = "return" /\ pc' = [pc EXCEPT ![c] = "lasti"]
      /\ pend' = [pend EXCEPT ![c] = NoWrites]
      /\ UNCHANGED <<api, parent, permit, PID, lasti, loop, act, i, k, ndx, ERR, tries>>
  BY DEF Returned, Goto, fill
<1>2. /\ pc \in [Children -> {"unborn", "pid", "incr", "permit", "timeout", "loop", "fill",
                              "return", "lasti", "exit"}]
      /\ pend \in [Children -> [1..Len(Names) -> [Ndx -> Int]]]
  BY DEF IInv, ControlOK, DataOK
<1>3. pc'[c] = "lasti" /\ \A d \in Children : d # c => pc'[d] = pc[d] /\ pend'[d] = pend[d]
  BY <1>1, <1>2
<1>4. loop[c] \in Iters /\ 0 \in 0..NCHILDREN /\ \A d \in Children : d \in 0..NCHILDREN /\ d # 0
  BY <1>1, Sizes DEF IInv, LoopInv, LoopAt, FillOK, Iters, Children, NCHILDREN
<1>5. FillOK'
  BY <1>1 DEF IInv, FillOK
<1>6. DataOK'
  <2>1. db' \in [0..NCHILDREN -> [Iters -> [1..Len(Names) -> [Ndx -> Nat]]]]
    <3>1. 1 \in 1..Len(Names) /\ 1 \in Ndx
      BY Lengths, Sizes DEF Ndx
    <3>2. QED BY <1>4, <3>1, CommitNodes
  <2>2. \A o \in 0..NCHILDREN, it \in Iters, g \in 1..Len(Names), x \in Ndx :
          db'[o][it][g][x] \in {Undef, Right(g, x)}
    BY CommitNodes DEF IInv, DataOK
  <2>3. pend' \in [Children -> [1..Len(Names) -> [Ndx -> Int]]]
    BY <1>1, <1>2 DEF NoWrites, Keep
  <2>4. QED BY <2>1, <2>2, <2>3 DEF DataOK, Right
<1>7. LoopInv'
  BY <1>1, <1>3 DEF IInv, LoopInv, LoopAt, root, pno
<1>8. PassInv'
  <2>1. ASSUME NEW d \in Children, d # c, NEW g \in 1..Len(Names), NEW x \in Ndx
        PROVE  PassAt(d, g, x)'
    <3>1. PassAt(d, g, x)
      BY DEF IInv, PassInv
    <3>2. Passed(d, g, x)' <=> Passed(d, g, x)
      BY <1>1 DEF Passed, root, pno
    <3>3. CASE pc[d] \in {"fill", "return"}
      <4>1. loop[d] \in Iters
        BY <3>3, Sizes, SMTT(40) DEF IInv, LoopInv, LoopAt, FillOK, Iters
      <4>2. CASE InTP(d) \/ ~IsShared(g)
        <5>1. Written(d, g, x)' = Written(d, g, x)
          BY <1>1, <1>3, <1>4, <2>1, <4>1, <4>2, CommitNodes, SMTT(40) DEF Written, Owner
        <5>2. QED BY <1>1, <1>3, <2>1, <3>1, <3>2, <5>1 DEF PassAt, Right, Private
      <4>3. CASE ~InTP(d) /\ IsShared(g)
        <5>1. Written(d, g, x)' = Written(d, g, x) \/ Written(d, g, x)' = Right(g, x)
          BY <1>1, <1>4, <4>1, <4>3, CommitNodes DEF Written, Owner
        <5>2. QED BY <1>1, <1>3, <2>1, <3>1, <3>2, <4>3, <5>1 DEF PassAt, Right, Private
      <4>4. QED BY <4>2, <4>3
    <3>4. CASE pc[d] \notin {"fill", "return"}
      BY <1>3, <2>1, <3>4 DEF PassAt
    <3>5. QED BY <3>3, <3>4
  <2>2. ASSUME NEW g \in 1..Len(Names), NEW x \in Ndx PROVE PassAt(c, g, x)'
    BY <1>3 DEF PassAt
  <2>3. QED BY <2>1, <2>2 DEF PassInv
<1>9. ASSUME NEW d \in Children, NEW it \in Iters
      PROVE  Finished(d, it)' <=> Finished(d, it) \/ (d = c /\ it = loop[c])
  BY <1>1, <1>3 DEF Finished
<1>10. \A it \in Iters : Killing(it)' <=> Killing(it)
  BY <1>1, <1>3 DEF Killing
<1>11. \A g \in 1..Len(Names), x \in Ndx : Written(c, g, x) = Right(g, x)
  BY <1>1 DEF IInv, PassInv, PassAt
<1>12. ~Finished(c, loop[c])
  BY <1>1, <1>4 DEF Finished, Iters
<1>13. OwnInv'
  <2>1. SUFFICES ASSUME NEW d \in Children, NEW it \in Iters, NEW g \in 1..Len(Names), NEW x \in Ndx,
                        ~IsShared(g)
                 PROVE  OwnAt(d, it, g, x)'
    BY DEF OwnInv, IsShared
  <2>2. OwnAt(d, it, g, x)
    BY <2>1 DEF IInv, OwnInv
  <2>3. CASE d = c /\ it = loop[c] /\ tpflag(c) = "TPC"
    <3>1. db'[d][it][g][x] = Prime
      BY <1>4, <2>1, <2>3, CommitNodes DEF Owner, Right
    <3>2. QED BY <1>9, <2>3, <3>1 DEF OwnAt
  <2>4. CASE ~(d = c /\ it = loop[c] /\ tpflag(c) = "TPC")
    <3>1. db'[d][it][g][x] = db[d][it][g][x]
      BY <1>4, <2>1, <2>4, CommitNodes DEF Owner
    <3>2. CASE d = c /\ it = loop[c] /\ tpflag(c) = "NTP"
      <4>1. db[d][it][g][x] = Prime
        BY <1>11, <2>1, <3>2 DEF Written, InTP, Owner, Right
      <4>2. QED BY <3>1, <3>2, <4>1 DEF OwnAt
    <3>3. CASE ~(d = c /\ it = loop[c]) \/ tpflag(c) = "TPR"
      BY <1>9, <2>2, <2>4, <3>1, <3>3 DEF OwnAt
    <3>4. QED BY <2>4, <3>2, <3>3, Kinds
  <2>5. QED BY <2>3, <2>4
<1>14. SharedInv'
  <2>1. SUFFICES ASSUME NEW it \in Iters, NEW g \in 1..Len(Names), NEW x \in Ndx, IsShared(g)
                 PROVE  SharedAt(it, g, x)'
    BY DEF SharedInv, IsShared
  <2>2. SharedAt(it, g, x)
    BY <2>1 DEF IInv, SharedInv
  <2>3. CASE it = loop[c] /\ tpflag(c) = "TPC"
    <3>1. db'[0][it][g][x] = x
      BY <1>4, <2>1, <2>3, CommitNodes DEF Owner, Right
    <3>2. QED BY <3>1 DEF SharedAt
  <2>4. CASE ~(it = loop[c] /\ tpflag(c) = "TPC")
    <3>1. db'[0][it][g][x] = db[0][it][g][x]
      BY <1>4, <2>1, <2>4, CommitNodes DEF Owner
    <3>2. CASE it = loop[c] /\ tpflag(c) = "NTP"
      <4>1. db[0][it][g][x] = x
        BY <1>11, <2>1, <3>2 DEF Written, InTP, Owner, Right
      <4>2. QED BY <3>1, <4>1 DEF SharedAt
    <3>3. CASE it # loop[c] \/ tpflag(c) = "TPR"
      <4>1. (\E d \in Children : tpflag(d) # "TPR" /\ Finished(d, it)')
              => \E d \in Children : tpflag(d) # "TPR" /\ Finished(d, it)
        BY <1>9, <3>3
      <4>2. QED BY <1>10, <2>2, <3>1, <4>1 DEF SharedAt
    <3>4. QED BY <2>4, <3>2, <3>3, Kinds
  <2>5. QED BY <2>3, <2>4
<1>15. ControlOK' /\ StartInv' /\ EndInv'
  BY <1>1, WorkMoves
<1>16. QED BY <1>5, <1>6, <1>7, <1>8, <1>13, <1>14, <1>15 DEF IInv

-----------------------------------------------------------------------------
(* The work of a child: the passes of m_filling_randfill.                  *)

\* Where a pass is, and the order in which it visits the nodes.
LEMMA Position ==
  ASSUME IInv, NEW c \in Children, pc[c] = "fill"
  PROVE  /\ loop[c] \in Iters /\ i[c] \in 0..(Prime - 2)
         /\ k[c] \in 1..Len(Names) /\ ndx[c] \in Ndx
         /\ Visits(Orbit(root(c)), root(c)) /\ ndx[c] = Orbit(root(c))[i[c]]
         /\ ~Passed(c, k[c], ndx[c])
<1>1. FillOK /\ LoopAt(c)
  BY DEF IInv, LoopInv
<1>2. loop[c] \in Iters
  BY <1>1, Sizes DEF LoopAt, FillOK, Iters
<1>3. i[c] \in 0..(Prime - 2) /\ k[c] \in 1..Len(Names) /\ ndx[c] \in Ndx
  BY <1>1 DEF FillOK
<1>4. Visits(Orbit(root(c)), root(c))
  BY <1>1, RootIndex
<1>5. ndx[c] = Orbit(root(c))[i[c]]
  BY <1>1 DEF LoopAt
<1>6. ~Passed(c, k[c], ndx[c])
  <2>1. ASSUME NEW j \in 0..(Prime - 2), Orbit(root(c))[j] = ndx[c] PROVE j = i[c]
    BY <1>3, <1>4, <1>5, <2>1 DEF Visits
  <2>2. ~(k[c] < k[c]) /\ ~(i[c] < i[c])
    BY <1>3
  <2>3. QED BY <2>1, <2>2 DEF Passed
<1>7. QED BY <1>2, <1>3, <1>4, <1>5, <1>6

\* The loops of m_filling_randfill: one node further, or through with the pass.
LEMMA AdvanceFacts ==
  ASSUME IInv, NEW c \in Children, pc[c] = "fill", Advance(c), ERR'[c] = 0, ~VerUndef(c),
         UNCHANGED loop
  PROVE  /\ act' \in [Children -> {"KILL", "SET", "VER"}] /\ i' \in [Children -> 0..(Prime - 2)]
         /\ k' \in [Children -> 1..Len(Names)] /\ ndx' \in [Children -> Ndx]
         /\ \A d \in Children : d # c => /\ act'[d] = act[d] /\ i'[d] = i[d] /\ k'[d] = k[d]
                                          /\ ndx'[d] = ndx[d] /\ pc'[d] = pc[d]
         /\ \E l \in {"fill", "return"} : pc' = [pc EXCEPT ![c] = l]
         /\ pc'[c] = "return" => i'[c] = 0
         /\ ndx'[c] = Orbit(root(c))[i'[c]]
         /\ \/ /\ pc'[c] = "fill" /\ act'[c] = act[c]
               /\ \A g \in 1..Len(Names), x \in Ndx :
                    Passed(c, g, x)' <=> Passed(c, g, x) \/ (g = k[c] /\ x = ndx[c])
            \/ /\ act'[c] = NextAct[act[c]]
               /\ pc'[c] = IF act[c] = "VER" THEN "return" ELSE "fill"
               /\ \A g \in 1..Len(Names), x \in Ndx :
                    ~Passed(c, g, x)' /\ (Passed(c, g, x) \/ (g = k[c] /\ x = ndx[c]))
<1> DEFINE o == Orbit(root(c))
           global == k[c] < Len(Names)
           index == ~global /\ ~LastIndex(c) /\ ERR'[c] <= MAXERR
           next == ~global /\ ~index
<1>1. FillOK /\ pc \in [Children -> {"unborn", "pid", "incr", "permit", "timeout", "loop", "fill",
                                     "return", "lasti", "exit"}]
  BY DEF IInv, ControlOK
<1>2. /\ i[c] \in 0..(Prime - 2) /\ k[c] \in 1..Len(Names) /\ ndx[c] \in Ndx
      /\ o \in [0..(Prime - 2) -> Ndx] /\ o[0] = 1 /\ ndx[c] = o[i[c]]
      /\ \A j \in 1..(Prime - 2) : o[j] = (o[j - 1] * root(c)) % Prime
      /\ \A x \in Ndx : \E j \in 0..(Prime - 2) : o[j] = x
      /\ \A j, l \in 0..(Prime - 2) : o[j] = o[l] => j = l
  BY Position DEF Visits
<1>3. /\ k' = [k EXCEPT ![c] = IF global THEN @ + 1 ELSE 1]
      /\ i' = [i EXCEPT ![c] = IF index THEN @ + 1 ELSE IF next THEN 0 ELSE @]
      /\ ndx' = [ndx EXCEPT ![c] = IF index THEN (@ * root(c)) % Prime ELSE IF next THEN 1 ELSE @]
      /\ act' = [act EXCEPT ![c] = IF next THEN NextAct[@] ELSE @]
      /\ pc' = [pc EXCEPT ![c] = IF next /\ act[c] = "VER" THEN "return" ELSE "fill"]
  BY DEF Advance, Goto
<1>4. index <=> ~global /\ i[c] # Prime - 2
  BY DEF LastIndex, MAXERR
<1>5. Prime \in Nat /\ Prime >= 2 /\ Len(Names) \in Nat
  BY Sizes, Lengths
<1>6. /\ k'[c] = IF global THEN k[c] + 1 ELSE 1
      /\ i'[c] = IF index THEN i[c] + 1 ELSE IF next THEN 0 ELSE i[c]
      /\ ndx'[c] = IF index THEN (ndx[c] * root(c)) % Prime ELSE IF next THEN 1 ELSE ndx[c]
      /\ act'[c] = IF next THEN NextAct[act[c]] ELSE act[c]
      /\ pc'[c] = IF next /\ act[c] = "VER" THEN "return" ELSE "fill"
  BY <1>1, <1>3 DEF FillOK
<1>7. \A d \in Children : d # c => /\ act'[d] = act[d] /\ i'[d] = i[d] /\ k'[d] = k[d]
                                   /\ ndx'[d] = ndx[d] /\ pc'[d] = pc[d]
  BY <1>1, <1>3 DEF FillOK
<1>8. k'[c] \in 1..Len(Names) /\ i'[c] \in 0..(Prime - 2) /\ ndx'[c] = o[i'[c]]
  <2>1. k'[c] \in 1..Len(Names)
    BY <1>2, <1>5, <1>6
  <2>2. CASE index
    <3>1. i[c] + 1 \in 1..(Prime - 2)
      BY <1>2, <1>4, <1>5, <2>2
    <3>2. o[i[c] + 1] = (o[i[c]] * root(c)) % Prime
      BY <1>2, <3>1
    <3>3. QED BY <1>2, <1>5, <1>6, <2>1, <2>2, <3>1, <3>2
  <2>3. CASE next
    BY <1>2, <1>5, <1>6, <2>1, <2>3
  <2>4. CASE global
    BY <1>2, <1>6, <2>1, <2>4
  <2>5. QED BY <2>2, <2>3, <2>4
<1>9. act'[c] \in {"KILL", "SET", "VER"}
  BY <1>1, <1>6 DEF FillOK, NextAct
<1>10. root(c)' = root(c)
  BY DEF root, pno
<1> HIDE DEF o, index, next, global
<1>11. ASSUME NEW g \in 1..Len(Names), NEW x \in Ndx
       PROVE  /\ ~next => (Passed(c, g, x)' <=> Passed(c, g, x) \/ (g = k[c] /\ x = ndx[c]))
              /\ next => ~Passed(c, g, x)' /\ (Passed(c, g, x) \/ (g = k[c] /\ x = ndx[c]))
  <2>1. PICK j \in 0..(Prime - 2) : o[j] = x
    BY <1>2
  <2>2. Passed(c, g, x) <=> j < i[c] \/ (j = i[c] /\ g < k[c])
    BY <1>2, <2>1 DEF Passed, o
  <2>3. Passed(c, g, x)' <=> j < i'[c] \/ (j = i'[c] /\ g < k'[c])
    BY <1>2, <1>10, <2>1 DEF Passed, o
  <2>4. x = ndx[c] <=> j = i[c]
    BY <1>2, <2>1
  <2>5. CASE global
    BY <1>2, <1>5, <1>6, <2>2, <2>3, <2>4, <2>5 DEF next, index, global
  <2>6. CASE index
    BY <1>2, <1>5, <1>6, <2>2, <2>3, <2>4, <2>6 DEF next, index, global
  <2>7. CASE next
    <3>1. i[c] = Prime - 2 /\ k[c] = Len(Names)
      BY <1>2, <1>4, <1>5, <2>7 DEF next, global
    <3>2. i'[c] = 0 /\ k'[c] = 1
      BY <1>6, <2>7 DEF next, index
    <3>3. QED BY <1>5, <2>2, <2>3, <2>4, <2>7, <3>1, <3>2
  <2>8. QED BY <2>5, <2>6, <2>7 DEF next
<1>12. /\ act' \in [Children -> {"KILL", "SET", "VER"}] /\ i' \in [Children -> 0..(Prime - 2)]
       /\ k' \in [Children -> 1..Len(Names)] /\ ndx' \in [Children -> Ndx]
  <2>1. ndx'[c] \in Ndx
    BY <1>2, <1>8
  <2>2. QED BY <1>1, <1>3, <1>6, <1>8, <1>9, <2>1 DEF FillOK
<1>13. CASE next
  <2>1. act'[c] = NextAct[act[c]] /\ i'[c] = 0 /\ pc'[c] = IF act[c] = "VER" THEN "return" ELSE "fill"
    BY <1>6, <1>13 DEF next, index
  <2>2. \E l \in {"fill", "return"} : pc' = [pc EXCEPT ![c] = l]
    BY <1>3
  <2>3. QED BY <1>7, <1>8, <1>11, <1>12, <1>13, <2>1, <2>2 DEF o
<1>14. CASE ~next
  <2>1. act'[c] = act[c] /\ pc'[c] = "fill"
    BY <1>6, <1>14
  <2>2. \E l \in {"fill", "return"} : pc' = [pc EXCEPT ![c] = l]
    BY <1>3
  <2>3. QED BY <1>7, <1>8, <1>11, <1>12, <1>14, <2>1, <2>2 DEF o
<1>15. QED BY <1>13, <1>14

\* A function of two arguments, changed at one place.
LEMMA OnePlace ==
  ASSUME NEW A, NEW B, NEW C, NEW f \in [A -> [B -> C]], NEW a \in A, NEW b \in B, NEW v,
         NEW g \in A, NEW x \in B
  PROVE  [f EXCEPT ![a][b] = v][g][x] = IF g = a /\ x = b THEN v ELSE f[g][x]
OBVIOUS

\* ydb_set and ydb_delete on one node: in the database or in the transaction.
LEMMA WriteFacts ==
  ASSUME IInv, NEW c \in Children, pc[c] = "fill", UNCHANGED loop,
         NEW v \in {Undef, Right(k[c], ndx[c])}, Write(c, v)
  PROVE  /\ DataOK'
         /\ \A g \in 1..Len(Names), x \in Ndx :
              Written(c, g, x)' = IF g = k[c] /\ x = ndx[c] THEN v ELSE Written(c, g, x)
         /\ \A d \in Children, g \in 1..Len(Names), x \in Ndx :
              d # c => Written(d, g, x)' = Written(d, g, x)
         /\ \A o \in 0..NCHILDREN, it \in Iters :
              InTP(c) \/ o # Owner(c, k[c]) \/ it # loop[c] => db'[o][it] = db[o][it]
<1> DEFINE NN == 1..Len(Names)
<1>1. /\ db \in [0..NCHILDREN -> [Iters -> [NN -> [Ndx -> Nat]]]]
      /\ pend \in [Children -> [NN -> [Ndx -> Int]]]
  BY DEF IInv, DataOK
<1>2. loop[c] \in Iters /\ k[c] \in NN /\ ndx[c] \in Ndx
  BY Position
<1>3. Owner(c, k[c]) \in 0..NCHILDREN /\ c \in 0..NCHILDREN
  BY Sizes DEF Owner, Children, NCHILDREN
<1>4. v \in Nat
  BY <1>2, Sizes DEF Undef, Right, Ndx
<1>5. \A o \in 0..NCHILDREN, it \in Iters, g \in NN, x \in Ndx : db[o][it][g][x] \in {Undef, Right(g, x)}
  BY DEF IInv, DataOK
<1>6. CASE InTP(c)
  <2>1. pend' = [pend EXCEPT ![c][k[c]][ndx[c]] = v] /\ db' = db
    BY <1>6 DEF Write
  <2>2. pend' \in [Children -> [NN -> [Ndx -> Int]]]
    <3>1. [pend[c] EXCEPT ![k[c]][ndx[c]] = v] \in [NN -> [Ndx -> Int]]
      BY <1>1, <1>2, <1>4
    <3>2. pend' = [pend EXCEPT ![c] = [pend[c] EXCEPT ![k[c]][ndx[c]] = v]]
      BY <2>1
    <3>3. QED BY <1>1, <3>1, <3>2
  <2>3. DataOK'
    BY <1>1, <1>5, <2>1, <2>2 DEF DataOK, Right
  <2>4. ASSUME NEW g \in NN, NEW x \in Ndx
        PROVE  pend'[c][g][x] = IF g = k[c] /\ x = ndx[c] THEN v ELSE pend[c][g][x]
    BY <1>1, <1>2, <2>1
  <2>5. \A d \in Children : d # c => pend'[d] = pend[d]
    BY <1>1, <2>1
  <2>6. QED BY <1>6, <2>1, <2>3, <2>4, <2>5 DEF Written
<1>7. CASE ~InTP(c)
  <2> DEFINE w == Owner(c, k[c])
  <2>1. db' = [db EXCEPT ![w][loop[c]][k[c]][ndx[c]] = v] /\ pend' = pend
    BY <1>7 DEF Write
  <2>2. w \in 0..NCHILDREN
    BY <1>3
  <2> HIDE DEF w
  <2>3. [db[w][loop[c]] EXCEPT ![k[c]][ndx[c]] = v] \in [NN -> [Ndx -> Nat]]
    <3>1. db[w] \in [Iters -> [NN -> [Ndx -> Nat]]]
      BY <1>1, <2>2
    <3>2. db[w][loop[c]] \in [NN -> [Ndx -> Nat]]
      BY <3>1, <1>2
    <3>3. QED BY <1>2, <1>4, <3>2
  <2>4. db' = [db EXCEPT ![w][loop[c]] = [db[w][loop[c]] EXCEPT ![k[c]][ndx[c]] = v]]
    BY <2>1
  <2>5. db' \in [0..NCHILDREN -> [Iters -> [NN -> [Ndx -> Nat]]]]
    BY <1>1, <1>2, <2>2, <2>3, <2>4
  <2>6. ASSUME NEW o \in 0..NCHILDREN, NEW it \in Iters, o # w \/ it # loop[c]
        PROVE  db'[o][it] = db[o][it]
    BY <1>1, <1>2, <2>2, <2>4, <2>6
  <2>7. ASSUME NEW g \in NN, NEW x \in Ndx
        PROVE  db'[w][loop[c]][g][x] = IF g = k[c] /\ x = ndx[c] THEN v ELSE db[w][loop[c]][g][x]
    <3>1. db'[w][loop[c]] = [db[w][loop[c]] EXCEPT ![k[c]][ndx[c]] = v]
      BY <1>1, <1>2, <2>2, <2>4
    <3>2. db[w][loop[c]] \in [NN -> [Ndx -> Nat]]
      BY <1>1, <1>2, <2>2, ZenonT(60)
    <3>3. [db[w][loop[c]] EXCEPT ![k[c]][ndx[c]] = v][g][x]
            = IF g = k[c] /\ x = ndx[c] THEN v ELSE db[w][loop[c]][g][x]
      BY <1>2, <3>2, OnePlace
    <3>4. QED BY <3>1, <3>3
  <2>8. DataOK'
    <3>1. ASSUME NEW o \in 0..NCHILDREN, NEW it \in Iters, NEW g \in NN, NEW x \in Ndx
          PROVE  db'[o][it][g][x] \in {Undef, Right(g, x)}
      BY <1>5, <2>6, <2>7
    <3>2. QED BY <1>1, <2>1, <2>5, <3>1 DEF DataOK, Right
  <2>9. ASSUME NEW g \in NN, NEW x \in Ndx
        PROVE  Written(c, g, x)' = IF g = k[c] /\ x = ndx[c] THEN v ELSE Written(c, g, x)
    <3>1. Owner(c, g) \in 0..NCHILDREN
      BY <1>3, Sizes DEF Owner, NCHILDREN
    <3>2. Written(c, g, x) = db[Owner(c, g)][loop[c]][g][x] /\ Written(c, g, x)' = db'[Owner(c, g)][loop[c]][g][x]
      BY <1>7 DEF Written, Owner
    <3>3. CASE Owner(c, g) = w
      BY <2>7, <3>2, <3>3
    <3>4. CASE Owner(c, g) # w
      <4>1. g # k[c]
        BY <3>4 DEF w
      <4>2. QED BY <1>2, <2>6, <3>1, <3>2, <3>4, <4>1
    <3>5. QED BY <3>3, <3>4
  <2>10. ASSUME NEW d \in Children, d # c PROVE InTP(d)
    BY <1>7, <2>10, Kinds
  <2>11. QED BY <1>7, <2>1, <2>6, <2>8, <2>9, <2>10 DEF Written, w
<1>8. QED BY <1>6, <1>7

\* What a step of m_filling_randfill leaves in the node it is at.
Left(c) == IF act[c] = "KILL" THEN Undef ELSE Right(k[c], ndx[c])

\* The three cases of the switch.  SET finds a node with the pid killed, and VER
\* finds the right value, so that nothing aborts and nothing is counted in ERR.
LEMMA NodeFacts ==
  ASSUME IInv, NEW c \in Children, KillNode(c) \/ SetNode(c) \/ VerNode(c), UNCHANGED loop
  PROVE  /\ pc[c] = "fill" /\ ERR' = ERR /\ ~VerUndef(c) /\ DataOK'
         /\ \A g \in 1..Len(Names), x \in Ndx :
              Written(c, g, x)' = IF g = k[c] /\ x = ndx[c] THEN Left(c) ELSE Written(c, g, x)
         /\ \A d \in Children, g \in 1..Len(Names), x \in Ndx :
              d # c => Written(d, g, x)' = Written(d, g, x)
         /\ \A o \in 0..NCHILDREN, it \in Iters :
              InTP(c) \/ o # Owner(c, k[c]) \/ it # loop[c] => db'[o][it] = db[o][it]
<1>1. pc[c] = "fill"
  BY DEF KillNode, SetNode, VerNode, Doing
<1>2. k[c] \in 1..Len(Names) /\ ndx[c] \in Ndx /\ ~Passed(c, k[c], ndx[c])
  BY <1>1, Position
<1>3. PassAt(c, k[c], ndx[c])
  BY <1>2 DEF IInv, PassInv
<1>4. Right(k[c], ndx[c]) \notin {Keep, Undef} /\ Undef # Keep
  BY <1>2, Sizes DEF Right, Ndx, Keep, Undef
<1>5. Written(c, k[c], ndx[c]) # Keep => Value(c) = Written(c, k[c], ndx[c])
  BY DEF Value, Written
<1>6. CASE KillNode(c)
  <2>1. Write(c, Undef) /\ ERR' = ERR /\ act[c] = "KILL"
    BY <1>6 DEF KillNode, Doing
  <2>2. ~VerUndef(c) /\ Left(c) = Undef
    BY <2>1 DEF VerUndef, Left
  <2>3. QED BY <1>1, <2>1, <2>2, WriteFacts
<1>7. CASE SetNode(c)
  <2>1. /\ Write(c, IF IsShared(k[c]) THEN ndx[c] ELSE Value(c) + Prime)
        /\ ERR' = ERR /\ act[c] = "SET"
    BY <1>7 DEF SetNode, Doing
  <2>2. ~VerUndef(c) /\ Left(c) = Right(k[c], ndx[c])
    BY <2>1 DEF VerUndef, Left
  <2>3. ~IsShared(k[c]) => Value(c) = Undef
    BY <1>1, <1>2, <1>3, <1>4, <1>5, <2>1 DEF PassAt, Private
  <2>4. ~IsShared(k[c]) => Value(c) + Prime = Prime
    BY <2>3, Sizes DEF Undef
  <2>5. (IF IsShared(k[c]) THEN ndx[c] ELSE Value(c) + Prime) = Right(k[c], ndx[c])
    BY <2>4 DEF Right
  <2>6. Write(c, Right(k[c], ndx[c]))
    BY <2>1, <2>5
  <2>7. QED BY <1>1, <2>1, <2>2, <2>6, WriteFacts
<1>8. CASE VerNode(c)
  <2>1. act[c] = "VER" /\ UNCHANGED <<db, pend>>
    BY <1>8 DEF VerNode, Doing
  <2>2. Written(c, k[c], ndx[c]) = Right(k[c], ndx[c])
    BY <1>1, <1>3, <2>1 DEF PassAt
  <2>3. Value(c) = Right(k[c], ndx[c])
    BY <1>4, <1>5, <2>2
  <2>4. ~VerUndef(c)
    BY <1>4, <2>3 DEF VerUndef
  <2>5. ERR' = ERR
    <3>1. ERR' = [ERR EXCEPT ![c] = @]
      BY <1>8, <2>3 DEF VerNode, Right
    <3>2. ERR = [d \in Children |-> 0]
      BY DEF IInv, FillOK
    <3>3. QED BY <3>1, <3>2
  <2>6. \A d \in Children, g \in 1..Len(Names), x \in Ndx : Written(d, g, x)' = Written(d, g, x)
    BY <2>1 DEF Written
  <2>7. DataOK'
    BY <2>1 DEF IInv, DataOK, Right
  <2>8. Left(c) = Written(c, k[c], ndx[c])
    BY <2>1, <2>2 DEF Left
  <2>9. QED BY <1>1, <2>1, <2>4, <2>5, <2>6, <2>7, <2>8
<1>9. QED BY <1>6, <1>7, <1>8

\* A step of m_filling_randfill keeps what its pass has done so far.
LEMMA PassStep ==
  ASSUME IInv, NEW c \in Children, Fill(c), NEW g \in 1..Len(Names), NEW x \in Ndx
  PROVE  PassAt(c, g, x)'
<1>1. /\ pc[c] = "fill" /\ ERR' = ERR /\ ~VerUndef(c) /\ UNCHANGED loop
      /\ Written(c, g, x)' = IF g = k[c] /\ x = ndx[c] THEN Left(c) ELSE Written(c, g, x)
  BY NodeFacts DEF Fill, Filling
<1>2. ERR'[c] = 0 /\ Advance(c) /\ act[c] \in {"KILL", "SET", "VER"}
  BY <1>1 DEF Fill, Filling, IInv, FillOK
<1>3. PassAt(c, g, x)
  BY DEF IInv, PassInv
<1>4. Right(g, x)' = Right(g, x) /\ (Private(c, g)' <=> Private(c, g))
  BY DEF Right, Private
<1>5. CASE /\ pc'[c] = "fill" /\ act'[c] = act[c]
           /\ Passed(c, g, x)' <=> Passed(c, g, x) \/ (g = k[c] /\ x = ndx[c])
  <2>1. CASE g = k[c] /\ x = ndx[c]
    BY <1>1, <1>2, <1>4, <1>5, <2>1 DEF PassAt, Left
  <2>2. CASE ~(g = k[c] /\ x = ndx[c])
    BY <1>1, <1>3, <1>4, <1>5, <2>2 DEF PassAt
  <2>3. QED BY <2>1, <2>2
<1>6. CASE /\ act'[c] = NextAct[act[c]] /\ pc'[c] = IF act[c] = "VER" THEN "return" ELSE "fill"
           /\ ~Passed(c, g, x)' /\ (Passed(c, g, x) \/ (g = k[c] /\ x = ndx[c]))
  <2>1. CASE act[c] = "KILL"
    <3>1. act'[c] = "SET" /\ pc'[c] = "fill"
      BY <1>6, <2>1 DEF NextAct
    <3>2. Private(c, g) => Written(c, g, x)' = Undef
      BY <1>1, <1>3, <1>6, <2>1 DEF PassAt, Left
    <3>3. QED BY <1>4, <1>6, <3>1, <3>2 DEF PassAt
  <2>2. CASE act[c] = "SET"
    <3>1. act'[c] = "VER" /\ pc'[c] = "fill"
      BY <1>6, <2>2 DEF NextAct
    <3>2. Written(c, g, x)' = Right(g, x)
      BY <1>1, <1>3, <1>6, <2>2 DEF PassAt, Left
    <3>3. QED BY <1>4, <3>1, <3>2 DEF PassAt
  <2>3. CASE act[c] = "VER"
    <3>1. pc'[c] = "return"
      BY <1>6, <2>3
    <3>2. Written(c, g, x)' = Right(g, x)
      BY <1>1, <1>3, <2>3 DEF PassAt, Left
    <3>3. QED BY <1>4, <3>1, <3>2 DEF PassAt
  <2>4. QED BY <1>2, <2>1, <2>2, <2>3
<1>7. QED BY <1>1, <1>2, <1>5, <1>6, AdvanceFacts

\* A step of m_filling_randfill keeps the invariant.  The job outside
\* transactions is the only one that can take a shared value away, and it has
\* put every one back when its SET pass is over.
LEMMA FillStep ==
  ASSUME IInv, NEW c \in Children, Fill(c)
  PROVE  IInv'
<1>1. UNCHANGED <<api, parent, permit, PID, lasti, loop, tries>>
  BY DEF Fill, Filling
<1>2. /\ pc[c] = "fill" /\ ERR' = ERR /\ ~VerUndef(c) /\ DataOK'
      /\ \A d \in Children, g \in 1..Len(Names), x \in Ndx :
           d # c => Written(d, g, x)' = Written(d, g, x)
      /\ \A o \in 0..NCHILDREN, it \in Iters :
           InTP(c) \/ o # Owner(c, k[c]) \/ it # loop[c] => db'[o][it] = db[o][it]
  BY <1>1, NodeFacts DEF Fill
<1>3. ERR'[c] = 0 /\ Advance(c) /\ FillOK
  BY <1>2 DEF Fill, Filling, IInv, FillOK
<1>4. /\ act' \in [Children -> {"KILL", "SET", "VER"}] /\ i' \in [Children -> 0..(Prime - 2)]
      /\ k' \in [Children -> 1..Len(Names)] /\ ndx' \in [Children -> Ndx]
      /\ \A d \in Children : d # c => /\ act'[d] = act[d] /\ i'[d] = i[d] /\ k'[d] = k[d]
                                       /\ ndx'[d] = ndx[d] /\ pc'[d] = pc[d]
      /\ \E l \in {"fill", "return"} : pc' = [pc EXCEPT ![c] = l]
      /\ pc'[c] = "return" => i'[c] = 0
      /\ ndx'[c] = Orbit(root(c))[i'[c]]
  BY <1>1, <1>2, <1>3, AdvanceFacts
<1>5. pc'[c] \in {"fill", "return"}
  BY <1>4 DEF IInv, ControlOK
<1>6. FillOK'
  BY <1>1, <1>2, <1>3, <1>4 DEF FillOK
<1>7. LoopInv'
  <2>1. LoopAt(c)'
    <3>1. root(c)' = root(c)
      BY <1>1 DEF root, pno
    <3>2. LoopAt(c)
      BY DEF IInv, LoopInv
    <3>3. QED BY <1>1, <1>2, <1>4, <1>5, <3>1, <3>2 DEF LoopAt
  <2>2. ASSUME NEW d \in Children, d # c PROVE LoopAt(d)'
    BY <1>1, <1>4, <2>2 DEF IInv, LoopInv, LoopAt, root, pno
  <2>3. QED BY <2>1, <2>2 DEF LoopInv
<1>8. PassInv'
  <2>1. ASSUME NEW d \in Children, d # c, NEW g \in 1..Len(Names), NEW x \in Ndx
        PROVE  PassAt(d, g, x)'
    <3>1. PassAt(d, g, x)
      BY DEF IInv, PassInv
    <3>2. (Passed(d, g, x)' <=> Passed(d, g, x)) /\ Written(d, g, x)' = Written(d, g, x)
      BY <1>1, <1>2, <1>4, <2>1 DEF Passed, root, pno
    <3>3. QED BY <1>4, <2>1, <3>1, <3>2 DEF PassAt, Right, Private
  <2>2. QED BY <2>1, PassStep DEF PassInv
<1>9. \A d \in Children, it \in Iters : Finished(d, it)' <=> Finished(d, it)
  BY <1>1, <1>2, <1>4, <1>5 DEF Finished
<1>10. OwnInv'
  <2>1. SUFFICES ASSUME NEW d \in Children, NEW it \in Iters, NEW g \in 1..Len(Names), NEW x \in Ndx,
                        ~IsShared(g)
                 PROVE  OwnAt(d, it, g, x)'
    BY DEF OwnInv, IsShared
  <2>2. OwnAt(d, it, g, x) /\ d \in 0..NCHILDREN /\ d # 0
    BY <2>1, Sizes DEF IInv, OwnInv, Children, NCHILDREN
  <2>3. CASE d # c \/ InTP(c) \/ it # loop[c]
    <3>1. db'[d][it] = db[d][it]
      BY <1>2, <2>2, <2>3 DEF Owner
    <3>2. QED BY <1>9, <2>2, <3>1 DEF OwnAt
  <2>4. CASE d = c /\ ~InTP(c) /\ it = loop[c]
    <3>1. ~Finished(c, it) /\ tpflag(c) = "NTP"
      <4>1. loop[c] \in Nat
        BY <1>3 DEF FillOK
      <4>2. QED BY <1>2, <2>4, <4>1 DEF Finished, InTP
    <3>2. QED BY <1>9, <2>4, <3>1 DEF OwnAt
  <2>5. QED BY <2>3, <2>4
<1>11. SharedInv'
  <2>1. SUFFICES ASSUME NEW it \in Iters, NEW g \in 1..Len(Names), NEW x \in Ndx, IsShared(g)
                 PROVE  SharedAt(it, g, x)'
    BY DEF SharedInv, IsShared
  <2>2. SharedAt(it, g, x) /\ 0 \in 0..NCHILDREN
    BY <2>1, Sizes DEF IInv, SharedInv, NCHILDREN
  <2>3. CASE InTP(c) \/ it # loop[c]
    <3>1. db'[0][it] = db[0][it]
      BY <1>2, <2>2, <2>3
    <3>2. Killing(it)' <=> Killing(it)
      BY <1>1, <1>4, <2>3 DEF Killing
    <3>3. QED BY <1>9, <2>2, <3>1, <3>2 DEF SharedAt
  <2>4. CASE ~InTP(c) /\ it = loop[c]
    <3>1. CASE pc'[c] = "fill" /\ act'[c] \in {"KILL", "SET"}
      <4>1. Killing(it)'
        BY <1>1, <2>4, <3>1 DEF Killing
      <4>2. QED BY <4>1 DEF SharedAt
    <3>2. CASE pc'[c] = "return" \/ act'[c] = "VER"
      <4>1. PassAt(c, g, x)'
        BY <1>8 DEF PassInv
      <4>2. Written(c, g, x)' = Right(g, x)'
        BY <1>5, <3>2, <4>1 DEF PassAt
      <4>3. db'[0][it][g][x] = x
        BY <1>1, <2>1, <2>4, <4>2 DEF Written, Right, Owner
      <4>4. QED BY <4>3 DEF SharedAt
    <3>3. act'[c] \in {"KILL", "SET", "VER"}
      BY <1>4
    <3>4. QED BY <1>5, <3>1, <3>2, <3>3
  <2>5. QED BY <2>3, <2>4
<1>12. ControlOK' /\ StartInv' /\ EndInv'
  BY <1>1, <1>2, <1>4, WorkMoves
<1>13. QED BY <1>2, <1>6, <1>7, <1>8, <1>10, <1>11, <1>12 DEF IInv

-----------------------------------------------------------------------------
(* The theorems.                                                           *)

\* Before main takes the lock nobody is counted and nothing is written.
LEMMA InvInit ==
  ASSUME Init
  PROVE  IInv
<1>1. ControlOK
  <2>1. 0 \in 0..NCHILDREN
    BY Sizes DEF NCHILDREN
  <2>2. QED BY <2>1 DEF Init, ControlOK
<1>2. FillOK
  BY Sizes, Lengths DEF Init, FillOK, Ndx
<1>3. DataOK
  <2>1. db \in [0..NCHILDREN -> [Iters -> [1..Len(Names) -> [Ndx -> Nat]]]]
    BY DEF Init, Undef
  <2>2. pend \in [Children -> [1..Len(Names) -> [Ndx -> Int]]]
    BY DEF Init, NoWrites, Keep
  <2>3. \A o \in 0..NCHILDREN, it \in Iters, g \in 1..Len(Names), x \in Ndx : db[o][it][g][x] = Undef
    BY DEF Init
  <2>4. QED BY <2>1, <2>2, <2>3 DEF DataOK
<1>4. StartInv
  <2>1. Counted = {}
    BY DEF Init, Counted
  <2>2. QED BY <2>1, FS_EmptySet DEF Init, StartInv, Past
<1>5. LoopInv
  <2>1. SUFFICES ASSUME NEW c \in Children PROVE LoopAt(c)
    BY DEF LoopInv
  <2>2. Orbit(root(c))[0] = 1
    BY <1>2, FirstIndex
  <2>3. QED BY <2>2 DEF Init, LoopAt
<1>6. PassInv
  BY DEF Init, PassInv, PassAt
<1>7. \A c \in Children, it \in Iters : ~Finished(c, it)
  BY Sizes DEF Init, Finished, Iters
<1>8. OwnInv
  <2>1. \A c \in Children : c \in 0..NCHILDREN
    BY Sizes DEF Children, NCHILDREN
  <2>2. \A o \in 0..NCHILDREN, it \in Iters, g \in 1..Len(Names), x \in Ndx : db[o][it][g][x] = Undef
    BY DEF Init
  <2>3. QED BY <1>7, <2>1, <2>2 DEF OwnInv, OwnAt
<1>9. SharedInv
  BY <1>7 DEF SharedInv, SharedAt
<1>10. EndInv
  BY DEF Init, EndInv
<1>11. QED BY <1>1, <1>2, <1>3, <1>4, <1>5, <1>6, <1>8, <1>9, <1>10 DEF IInv

\* Every step of run_concurr keeps the invariant.
LEMMA InvStep ==
  ASSUME IInv, [Next]_vars
  PROVE  IInv'
<1>1. ASSUME NEW c \in Children, Work(c) PROVE IInv'
  BY <1>1, FirstCallStep, SetLastiStep, ReturnedStep, FillStep DEF Work
<1>2. CASE UNCHANGED vars
  <2>1. /\ UNCHANGED <<api, main, forked, locked, permit, PID, pc>>
        /\ UNCHANGED <<lasti, db, loop, fill, pend, tries>>
    BY <1>2 DEF vars, parent
  <2>2. FillOK' /\ DataOK' /\ LoopInv' /\ PassInv' /\ OwnInv' /\ SharedInv'
    BY <2>1, QuietStep
  <2>3. ControlOK' /\ StartInv' /\ EndInv'
    BY <2>1 DEF IInv, ControlOK, StartInv, EndInv, Counted
  <2>4. QED BY <2>2, <2>3 DEF IInv
<1>3. QED BY NextCases, MainStep, StartStep, <1>1, <1>2

\* The inductive invariant of run_concurr, for any number of children,
\* iterations, globals and restarts of their transactions.
THEOREM ConcurrInvariant == Spec => []IInv
<1>1. Init => IInv
  BY InvInit
<1>2. IInv /\ [Next]_vars => IInv'
  BY InvStep
<1>3. QED BY <1>1, <1>2, PTL DEF Spec

\* No child passes the lock on ^permit before every sibling has set its ^PID
\* and counted itself and the parent has let go, for any number of children.
THEOREM BarrierHolds == Spec => []Barrier
<1>1. ASSUME IInv PROVE Barrier
  <2>1. SUFFICES ASSUME NEW c \in Children, pc[c] \in Past
                 PROVE  permit = NCHILDREN /\ PID = Children /\ ~locked
    BY DEF Barrier, Past
  <2>2. permit = NCHILDREN /\ ~locked /\ permit = Cardinality(Counted)
    BY <1>1, <2>1 DEF IInv, StartInv
  <2>3. Counted = Children
    BY <2>2, CountedFinite
  <2>4. Children \subseteq PID
    BY <1>1, <2>3 DEF IInv, StartInv, Counted
  <2>5. QED BY <1>1, <2>2, <2>4 DEF IInv, ControlOK
<1>2. QED BY <1>1, ConcurrInvariant, PTL

\* The nodes of a child with its pid, as one set of values.
LEMMA OwnValues ==
  ASSUME NEW c \in Children, NEW it \in Iters, NEW v \in {Undef, Prime},
         \A g \in 1..Len(Names), x \in Ndx : ~IsShared(g) => db[c][it][g][x] = v
  PROVE  OwnNodes(c, it) = {v}
<1>1. \A g \in (Len(SharedNames) + 1)..Len(Names) : g \in 1..Len(Names) /\ ~IsShared(g)
  BY Lengths DEF IsShared
<1>2. Len(Names) \in (Len(SharedNames) + 1)..Len(Names) /\ 1 \in Ndx
  BY Lengths, Sizes DEF Ndx
<1>3. \A g \in (Len(SharedNames) + 1)..Len(Names), x \in Ndx : db[c][it][g][x] = v
  BY <1>1
<1>4. QED BY <1>2, <1>3 DEF OwnNodes

\* A transaction of job_stress_tpfn is seen whole or not at all, and never when
\* it is rolled back, however often it was restarted; and every variable keeps
\* to its values, for any number of children, globals and restarts.
THEOREM TransactionsAtomic == Spec => []AllOrNothing
<1>1. ASSUME IInv PROVE TypeOK
  <2>1. permit \in 0..NCHILDREN
    BY <1>1, CountedFinite DEF IInv, StartInv
  <2>2. ERR \in [Children -> 0..(MAXERR + Len(Names))]
    BY <1>1, Lengths DEF IInv, FillOK, MAXERR
  <2>3. \A o \in 0..NCHILDREN, it \in Iters, g \in 1..Len(Names), x \in Ndx :
          db[o][it][g][x] \in {Undef, IF IsShared(g) THEN x ELSE Prime}
    BY <1>1 DEF IInv, DataOK, Right
  <2>4. pc \in [Children -> {"unborn", "pid", "incr", "permit", "timeout", "loop", "fill",
                             "return", "lasti", "exit", "abort"}]
    BY <1>1 DEF IInv, ControlOK
  <2>5. QED BY <1>1, <2>1, <2>2, <2>3, <2>4 DEF IInv, ControlOK, FillOK, TypeOK
<1>2. ASSUME IInv, NEW c \in Children, InTP(c), NEW it \in Iters
      PROVE  OwnNodes(c, it) \in {{Undef}, IF tpflag(c) = "TPR" THEN {Undef} ELSE {Prime}}
  <2>1. \A g \in 1..Len(Names), x \in Ndx : ~IsShared(g) => OwnAt(c, it, g, x)
    BY <1>2 DEF IInv, OwnInv
  <2>2. CASE tpflag(c) = "TPR" \/ (tpflag(c) = "TPC" /\ ~Finished(c, it))
    <3>1. \A g \in 1..Len(Names), x \in Ndx : ~IsShared(g) => db[c][it][g][x] = Undef
      BY <2>1, <2>2 DEF OwnAt
    <3>2. OwnNodes(c, it) = {Undef}
      BY <3>1, OwnValues, Zenon
    <3>3. QED BY <3>2
  <2>3. CASE tpflag(c) = "TPC" /\ Finished(c, it)
    <3>1. \A g \in 1..Len(Names), x \in Ndx : ~IsShared(g) => db[c][it][g][x] = Prime
      BY <2>1, <2>3 DEF OwnAt
    <3>2. OwnNodes(c, it) = {Prime}
      BY <3>1, OwnValues, Zenon
    <3>3. QED BY <2>3, <3>2
  <2>4. QED BY <1>2, <2>2, <2>3, Kinds DEF InTP
<1>3. IInv => AllOrNothing
  BY <1>1, <1>2 DEF AllOrNothing
<1>4. QED BY <1>3, ConcurrInvariant, PTL

\* Both verifications pass, whatever the jobs do to each other's nodes: VER in
\* each iteration, and verify^concurr at the end for every job that writes to
\* the database and got past the lock.
THEOREM VerificationsPass == Spec => []verifyPasses
<1>1. ASSUME IInv PROVE VerifyClean
  BY <1>1 DEF IInv, ControlOK, FillOK, VerifyClean
<1>2. ASSUME IInv, main = "end", NEW c \in Children, tpflag(c) # "TPR", pc[c] # "timeout"
      PROVE  /\ lasti[c] = Iterate
             /\ \A it \in Iters :
                  /\ OwnNodes(c, it) = {Prime}
                  /\ \A g \in 1..Len(SharedNames), x \in Ndx : db[0][it][g][x] = x
  <2>1. pc[c] = "exit" /\ loop[c] = Iterate + 1 /\ lasti[c] = loop[c] - 1 /\ Iterate \in Nat
    BY <1>2, Sizes DEF IInv, EndInv, LoopInv, LoopAt
  <2>2. \A it \in Iters : Finished(c, it)
    BY <2>1 DEF Finished, Iters
  <2>3. ASSUME NEW it \in Iters PROVE OwnNodes(c, it) = {Prime}
    <3>1. \A g \in 1..Len(Names), x \in Ndx : ~IsShared(g) => db[c][it][g][x] = Prime
      BY <1>2, <2>2 DEF IInv, OwnInv, OwnAt
    <3>2. QED BY <3>1, OwnValues, Zenon
  <2>4. ASSUME NEW it \in Iters, NEW g \in 1..Len(SharedNames), NEW x \in Ndx PROVE db[0][it][g][x] = x
    <3>1. ~Killing(it)
      BY <1>2 DEF IInv, EndInv, Killing
    <3>2. g \in 1..Len(Names) /\ IsShared(g)
      BY Lengths DEF IsShared
    <3>3. SharedAt(it, g, x)
      BY <1>2, <3>2 DEF IInv, SharedInv
    <3>4. QED BY <1>2, <2>2, <3>1, <3>3 DEF SharedAt
  <2>5. QED BY <2>1, <2>3, <2>4
<1>3. IInv => verifyPasses
  BY <1>1, <1>2 DEF verifyPasses
<1>4. QED BY <1>3, ConcurrInvariant, PTL
=============================================================================
