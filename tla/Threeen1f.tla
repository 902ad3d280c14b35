----------------------------- MODULE Threeen1f -----------------------------
(***************************************************************************)
(* The parallel 3n+1 programs v62002/inref/simpleapi_threeen1f.c (forked   *)
(* processes, "s") and simplethreadapi_threeen1f.c (threads, "st").  A     *)
(* parent cuts a range of integers into blocks, its children claim blocks  *)
(* with an atomic increment, share the known step counts through ^step,    *)
(* and keep the maximum in ^result and the statistics in ^reads, ^updates  *)
(* and ^highest with transactions.  A killed run is started again on the   *)
(* database it left.                                                       *)
(***************************************************************************)
EXTENDS Integers, Sequences, FiniteSets, FiniteSetsExt

CONSTANTS
  Kids,      \* the children (processes or threads) of one line
  Lines,     \* the input lines: records [first, last, blk]
  MaxCrash,  \* bound: how often the program is killed
  Fuel       \* bound: no number of Lines needs more steps to reach 1

Parent == "parent"   \* the parent as owner of a lock

ASSUME ConstAssumption ==
  /\ IsFiniteSet(Kids) /\ Kids # {} /\ Parent \notin Kids
  /\ Lines \in Seq([first : Nat \ {0}, last : Nat \ {0}, blk : Nat])
  /\ \A l \in 1..Len(Lines) : Lines[l].first <= Lines[l].last
  /\ MaxCrash \in Nat /\ Fuel \in Nat

VARIABLES
  prog,      \* which of the two programs runs: "s" or "st"
  line,      \* the line the program works on
  parent,    \* what the parent does
  forked,    \* the children started for this line
  limits,    \* ^limits(count): upper bound of each block
  claims,    \* ^limits(count,1): how many children asked for the block
  count,     \* ^count
  l1, l2,    \* owners of lock l1 (or l1(pid)) and of l2 (or l2(pid))
  kid,       \* the private state of each child
  step,      \* ^step(words of n): the words of the steps from n to 1
  result,    \* ^result, Undef before the first set
  stats,     \* ^reads, ^updates, ^highest
  crashes,   \* how often the program was killed
  rounds     \* history: rounds of the inner loop of dostep in this line

vars == <<prog, line, parent, forked, limits, claims, count, l1, l2, kid, step,
          result, stats, crashes, rounds>>

Undef == -1          \* no node
Numbers(s) == IF s = Undef THEN 0 ELSE s     \* an undefined ^result counts as 0

Idle == [pc |-> "none", tmp |-> 0, current |-> 0, last |-> 0, n |-> 0, i |-> 0,
         path |-> <<>>, reads |-> 0, updates |-> 0, highest |-> 0, seen |-> 0]

NoStats == [reads |-> 0, updates |-> 0, highest |-> 0]

\* digitsinit: ds(digit) is a word per digit (here without the other scripts),
\* di(word) its inverse.
Ds == [d \in 0..9 |-> <<"zero", "eins", "deux", "tres", "quattro", "pyat", "sitta", "saat",
                       "ba", "onpatu">>[d + 1]]
Di(w) == CHOOSE d \in 0..9 : Ds[d] = w

\* inttostr: the words of the decimal digits; strtoint: back again.
IntToStr[n \in Nat] ==
  IF n < 10 THEN <<Ds[n]>> ELSE Append(IntToStr[n \div 10], Ds[n % 10])
StrToInt(s) ==
  LET f[i \in 0..Len(s)] == IF i = 0 THEN 0 ELSE 10 * f[i - 1] + Di(s[i]) IN f[Len(s)]

\* 3n+1: the next number of the sequence.
NextNumber(n) == IF n % 2 = 0 THEN n \div 2 ELSE 3 * n + 1

\* The block size, and the upper bounds ^limits(1), ^limits(2), ...
BlockSize(l) ==
  LET k == Cardinality(Kids)
      tmp == (l.last - l.first + k) \div k
  IN  IF l.blk # 0 /\ l.blk <= tmp THEN l.blk ELSE tmp

\* Mutant: the number of blocks is rounded down.
LimitsDown(l) ==
  LET b == BlockSize(l)
  IN  [c \in 1..((l.last - l.first + 1) \div (b + 1)) |-> l.first - 1 + c * b]

Limits(l) ==
  LET b == BlockSize(l)
      blocks == (l.last - l.first + b) \div b
  IN  [c \in 1..blocks |-> IF l.first - 1 + c * b > l.last THEN l.last
                                                         ELSE l.first - 1 + c * b]

Init ==
  /\ prog \in {"s", "st"}
  /\ line = 1 /\ parent = "read" /\ forked = {}
  /\ limits = <<>> /\ claims = <<>> /\ count = 0
  /\ l1 = {} /\ l2 = {}
  /\ kid = [k \in Kids |-> Idle]
  /\ step = [w \in {} |-> <<>>] /\ result = Undef /\ stats = NoStats
  /\ crashes = 0 /\ rounds = 0

-----------------------------------------------------------------------------
(* The parent of the forked version.                                       *)

\* main: read a line, define the blocks, clear ^count, take lock l1.
StartLine ==
  /\ prog = "s" /\ parent = "read" /\ line <= Len(Lines)
  /\ limits' = Limits(Lines[line])
  /\ claims' = [c \in 1..Len(limits') |-> 0]
  /\ count' = 0 /\ rounds' = 0
  /\ l1' = {Parent}
  /\ parent' = "fork"
  /\ UNCHANGED <<prog, line, forked, l2, kid, step, result, stats, crashes>>

\* main: count the child in, then fork it.
Fork(k) ==
  /\ prog = "s" /\ parent = "fork" /\ k \notin forked
  /\ count' = count + 1
  /\ forked' = forked \cup {k}
  /\ kid' = [kid EXCEPT ![k] = [Idle EXCEPT !.pc = "l2"]]
  /\ parent' = IF forked' = Kids THEN "wait" ELSE "fork"
  /\ UNCHANGED <<prog, line, limits, claims, l1, l2, step, result, stats, crashes, rounds>>

\* Mutant: the parent does not wait for ^count to become 0.
ReleaseAtOnce ==
  /\ prog = "s" /\ parent = "wait"
  /\ l1' = l1 \ {Parent}
  /\ parent' = "finish"
  /\ UNCHANGED <<prog, line, forked, limits, claims, count, l2, kid, step, result,
                 stats, crashes, rounds>>

\* main: all children have counted themselves out of ^count: let them go.
Release ==
  /\ prog = "s" /\ parent = "wait" /\ count = 0
  /\ l1' = l1 \ {Parent}
  /\ parent' = "finish"
  /\ UNCHANGED <<prog, line, forked, limits, claims, count, l2, kid, step, result,
                 stats, crashes, rounds>>

\* main: lock l2 conflicts with every l2(pid); with it the results are read.
Report ==
  /\ prog = "s" /\ parent = "finish" /\ l2 = {}
  /\ l2' = {Parent}
  /\ parent' = "report"
  /\ UNCHANGED <<prog, line, forked, limits, claims, count, l1, kid, step, result,
                 stats, crashes, rounds>>

\* dbinit: the root nodes are set to 0; the nodes ^step(n) stay.
Dbinit ==
  /\ result' = 0 /\ stats' = NoStats /\ count' = 0
  /\ UNCHANGED step

\* main: release l2, wait for the children, initialise for the next line.
EndLine ==
  /\ prog = "s" /\ parent = "report"
  /\ \A k \in Kids : kid[k].pc = "dead"
  /\ l2' = {}
  /\ Dbinit
  /\ kid' = [k \in Kids |-> Idle] /\ forked' = {}
  /\ line' = line + 1 /\ parent' = "read"
  /\ UNCHANGED <<prog, limits, claims, l1, crashes, rounds>>

-----------------------------------------------------------------------------
(* The parent of the threaded version: no locks, join instead.             *)

StartLine_st ==
  /\ prog = "st" /\ parent = "read" /\ line <= Len(Lines)
  /\ limits' = Limits(Lines[line])
  /\ claims' = [c \in 1..Len(limits') |-> 0]
  /\ count' = 0 /\ rounds' = 0
  /\ parent' = "fork"
  /\ UNCHANGED <<prog, line, forked, l1, l2, kid, step, result, stats, crashes>>

Create_st(k) ==
  /\ prog = "st" /\ parent = "fork" /\ k \notin forked
  /\ count' = count + 1
  /\ forked' = forked \cup {k}
  /\ kid' = [kid EXCEPT ![k] = [Idle EXCEPT !.pc = "decr"]]
  /\ parent' = IF forked' = Kids THEN "finish" ELSE "fork"
  /\ UNCHANGED <<prog, line, limits, claims, l1, l2, step, result, stats, crashes, rounds>>

Join_st ==
  /\ prog = "st" /\ parent = "finish"
  /\ \A k \in Kids : kid[k].pc = "dead"
  /\ parent' = "report"
  /\ UNCHANGED <<prog, line, forked, limits, claims, count, l1, l2, kid, step, result,
                 stats, crashes, rounds>>

Dbinit_st ==
  /\ result' = 0 /\ stats' = NoStats /\ count' = 0
  /\ UNCHANGED step

EndLine_st ==
  /\ prog = "st" /\ parent = "report"
  /\ Dbinit_st
  /\ kid' = [k \in Kids |-> Idle] /\ forked' = {}
  /\ line' = line + 1 /\ parent' = "read"
  /\ UNCHANGED <<prog, limits, claims, l1, l2, crashes, rounds>>

-----------------------------------------------------------------------------
(* The children.  Goes(k, c): the private state of child k becomes c.      *)

shared == <<prog, line, parent, forked, limits, crashes>>

Goes(k, c) == kid' = [kid EXCEPT ![k] = c]
At(k, pc) == [kid[k] EXCEPT !.pc = pc]

\* doblk: lock l2(pid), which the parent will wait for.
LockL2(k) ==
  /\ prog = "s" /\ kid[k].pc = "l2"
  /\ Parent \notin l2
  /\ l2' = l2 \cup {k}
  /\ Goes(k, At(k, "decr"))
  /\ UNCHANGED <<shared, claims, count, l1, step, result, stats, rounds>>

\* doblk: this process is alive.
CountOut(k) ==
  /\ prog = "s" /\ kid[k].pc = "decr"
  /\ count' = count - 1
  /\ Goes(k, At(k, "l1"))
  /\ UNCHANGED <<shared, claims, l1, l2, step, result, stats, rounds>>

\* doblk: lock l1(pid) is granted once the parent has released l1.
LockL1(k) ==
  /\ prog = "s" /\ kid[k].pc = "l1"
  /\ Parent \notin l1
  /\ l1' = l1 \cup {k}
  /\ Goes(k, At(k, "block"))
  /\ UNCHANGED <<shared, claims, count, l2, step, result, stats, rounds>>

\* doblk of a thread: no lock, ^count is decremented and read by nobody.
CountOut_st(k) ==
  /\ prog = "st" /\ kid[k].pc = "decr"
  /\ count' = count - 1
  /\ Goes(k, At(k, "block"))
  /\ UNCHANGED <<shared, claims, l1, l2, step, result, stats, rounds>>

\* The first number of block t: one past the block before, or allfirst.
FirstOf(t) == IF t = 1 THEN Lines[line].first ELSE limits[t - 1] + 1

\* doblk: the next block of ^limits; it is ours if our increment made it 1.
NextBlock(k) ==
  LET t == kid[k].tmp + 1
  IN  /\ kid[k].pc = "block"
      /\ IF t > Len(limits)
           THEN Goes(k, At(k, "stats")) /\ UNCHANGED claims
           ELSE /\ claims' = [claims EXCEPT ![t] = @ + 1]
                /\ Goes(k, IF claims'[t] # 1
                           THEN [kid[k] EXCEPT !.tmp = t]
                           ELSE [kid[k] EXCEPT !.pc = "walk", !.tmp = t, !.current = FirstOf(t),
                                               !.last = limits[t], !.n = FirstOf(t), !.i = 0,
                                               !.path = <<>>])
      /\ UNCHANGED <<shared, count, l1, l2, step, result, stats, rounds>>

Block(k) == prog = "s" /\ NextBlock(k)
Block_st(k) == prog = "st" /\ NextBlock(k)

\* dostep: after the work on current, the next number or the next block.
NextCurrent(c) ==
  IF c.current < c.last
    THEN [c EXCEPT !.pc = "walk", !.current = @ + 1, !.n = c.current + 1, !.i = 0, !.path = <<>>]
    ELSE [c EXCEPT !.pc = "block"]

\* dostep: one round of the inner loop; h is what a new highest is recorded as.
Round(k, h) ==
  LET c == [kid[k] EXCEPT !.reads = @ + 1]
      known == c.n = 1 \/ IntToStr[c.n] \in DOMAIN step
  IN  /\ c.pc = "walk"
      /\ rounds' = rounds + 1
      /\ \/ known /\ c.i = 0 /\ Goes(k, NextCurrent(c))
         \/ known /\ c.i > 0 /\ Goes(k, [c EXCEPT !.pc = IF c.n > 1 THEN "known" ELSE "max"])
         \/ /\ ~known
            /\ Goes(k, [c EXCEPT !.path = Append(@, c.n), !.n = NextNumber(@), !.i = @ + 1,
                                 !.highest = IF NextNumber(c.n) > @ THEN h ELSE @])
      /\ UNCHANGED <<shared, claims, count, l1, l2, step, result, stats>>

\* The forked version stores the buffer that still holds the number before.
Walk(k) == prog = "s" /\ Round(k, kid[k].n)
Walk_st(k) == prog = "st" /\ Round(k, NextNumber(kid[k].n))

\* Mutant: the steps of the number that ended the path are not added.
KnownNot(k) ==
  /\ kid[k].pc = "known"
  /\ Goes(k, At(k, "max"))
  /\ UNCHANGED <<shared, claims, count, l1, l2, step, result, stats, rounds>>

\* dostep: the path ended at a number whose steps are known: add them.
Known(k) ==
  /\ kid[k].pc = "known"
  /\ Goes(k, [kid[k] EXCEPT !.pc = "max", !.i = @ + StrToInt(step[IntToStr[kid[k].n]])])
  /\ UNCHANGED <<shared, claims, count, l1, l2, step, result, stats, rounds>>

\* tp_setmaximum: the callback reads ^result ...
MaxRead(k) ==
  /\ kid[k].pc = "max"
  /\ Goes(k, [kid[k] EXCEPT !.pc = "maxset", !.seen = result])
  /\ UNCHANGED <<shared, claims, count, l1, l2, step, result, stats, rounds>>

\* Mutant: the callback returns YDB_TP_RESTART although nothing changed.
MaxCommitNever(k) ==
  /\ kid[k].pc = "maxset"
  /\ Goes(k, At(k, "max"))
  /\ UNCHANGED <<shared, claims, count, l1, l2, step, result, stats, rounds>>

\* ... and its commit is refused, and the callback run again, if ^result changed.
MaxCommit(k) ==
  /\ kid[k].pc = "maxset"
  /\ \/ /\ kid[k].seen # result
        /\ Goes(k, At(k, "max"))
        /\ UNCHANGED result
     \/ /\ kid[k].seen = result
        /\ result' = IF kid[k].i > Numbers(kid[k].seen) THEN kid[k].i ELSE result
        /\ Goes(k, At(k, "store"))
  /\ UNCHANGED <<shared, claims, count, l1, l2, step, stats, rounds>>

SetMax(k) == prog = "s" /\ (MaxRead(k) \/ MaxCommit(k))
SetMax_st(k) == prog = "st" /\ (MaxRead(k) \/ MaxCommit(k))

\* dostep: ^step of the next number of currpath; i counts down along the path.
Store(k) ==
  LET c == [kid[k] EXCEPT !.path = Tail(@), !.i = @ - 1, !.updates = @ + 1]
      w == IntToStr[Head(kid[k].path)]
  IN  /\ kid[k].pc = "store"
      /\ step' = [x \in {w} \cup DOMAIN step |-> IF x = w THEN IntToStr[kid[k].i] ELSE step[x]]
      /\ Goes(k, IF c.path # <<>> THEN c ELSE NextCurrent(c))
      /\ UNCHANGED <<shared, claims, count, l1, l2, result, stats, rounds>>

Dostep(k) == prog = "s" /\ (Known(k) \/ Store(k))
Dostep_st(k) == prog = "st" /\ (Known(k) \/ Store(k))

\* tp_gvstatsincr: the callback reads the three nodes ...
StatsRead(k) ==
  /\ kid[k].pc = "stats"
  /\ Goes(k, [kid[k] EXCEPT !.pc = "statsset", !.seen = stats])
  /\ UNCHANGED <<shared, claims, count, l1, l2, step, result, stats, rounds>>

\* Mutant: the statistics are set outside a transaction.
StatsCommitBlind(k, reads, updates, next) ==
  /\ kid[k].pc = "statsset"
  /\ stats' = [reads |-> kid[k].seen.reads + reads, updates |-> kid[k].seen.updates + updates,
               highest |-> IF kid[k].highest > kid[k].seen.highest THEN kid[k].highest
                                                                   ELSE kid[k].seen.highest]
  /\ Goes(k, At(k, next))
  /\ UNCHANGED <<shared, claims, count, l1, l2, step, result, rounds>>

\* ... and commits reads and updates more, unless one of them changed.
StatsCommit(k, reads, updates, next) ==
  /\ kid[k].pc = "statsset"
  /\ \/ /\ kid[k].seen # stats
        /\ Goes(k, At(k, "stats"))
        /\ UNCHANGED stats
     \/ /\ kid[k].seen = stats
        /\ stats' = [reads |-> stats.reads + reads, updates |-> stats.updates + updates,
                     highest |-> IF kid[k].highest > stats.highest THEN kid[k].highest
                                                                   ELSE stats.highest]
        /\ Goes(k, At(k, next))
  /\ UNCHANGED <<shared, claims, count, l1, l2, step, result, rounds>>

\* The forked version passes the name of its local, whose numeric value is 0.
GvStats(k) == prog = "s" /\ (StatsRead(k) \/ StatsCommit(k, 0, 0, "unlock1"))
GvStats_st(k) == /\ prog = "st"
                 /\ StatsRead(k) \/ StatsCommit(k, kid[k].reads, kid[k].updates, "dead")

\* doblk: release l1(pid), then l2(pid), and exit.
Unlock(k) ==
  /\ prog = "s"
  /\ \/ kid[k].pc = "unlock1" /\ l1' = l1 \ {k} /\ UNCHANGED l2 /\ Goes(k, At(k, "unlock2"))
     \/ kid[k].pc = "unlock2" /\ l2' = l2 \ {k} /\ UNCHANGED l1 /\ Goes(k, At(k, "dead"))
  /\ UNCHANGED <<shared, claims, count, step, result, stats, rounds>>

-----------------------------------------------------------------------------
\* The program is killed and started again on the same line: the database
\* stays, locks and local variables are gone, open transactions are undone.
Crash ==
  /\ parent # "read" /\ crashes < MaxCrash
  /\ crashes' = crashes + 1
  /\ parent' = "read" /\ forked' = {} /\ l1' = {} /\ l2' = {}
  /\ kid' = [k \in Kids |-> Idle]
  /\ UNCHANGED <<prog, line, limits, claims, count, step, result, stats, rounds>>

\* End of file: main returns.
Eof == line > Len(Lines) /\ UNCHANGED vars

ParentStep == \/ StartLine \/ Release \/ Report \/ EndLine \/ (\E k \in Kids : Fork(k))
              \/ StartLine_st \/ Join_st \/ EndLine_st \/ (\E k \in Kids : Create_st(k))

KidStep(k) == \/ LockL2(k) \/ CountOut(k) \/ LockL1(k) \/ CountOut_st(k)
              \/ Block(k) \/ Block_st(k) \/ Walk(k) \/ Walk_st(k) \/ Dostep(k) \/ Dostep_st(k)
              \/ SetMax(k) \/ SetMax_st(k) \/ GvStats(k) \/ GvStats_st(k) \/ Unlock(k)

Next == ParentStep \/ (\E k \in Kids : KidStep(k)) \/ Crash \/ Eof

Fairness == WF_vars(ParentStep) /\ \A k \in Kids : WF_vars(KidStep(k))

Spec == Init /\ [][Next]_vars /\ Fairness

-----------------------------------------------------------------------------
(* Reference definitions.                                                  *)

Orbit(c) == LET f[k \in 0..Fuel] == IF k = 0 THEN c ELSE NextNumber(f[k - 1]) IN f
Steps(c) == Min({k \in 0..Fuel : Orbit(c)[k] = 1})
Ints(l) == l.first..l.last
MaxSteps(l) == Max({Steps(c) : c \in Ints(l)})
Highest(l) == Max({0} \cup UNION {{Orbit(c)[k] : k \in 1..Steps(c)} : c \in Ints(l)})

\* Fuel is enough; and the first line holds more than the number 1, which has
\* no steps and leaves ^result undefined (main then stops in YDB_ASSERT).
ASSUME RangeAssumption ==
  /\ \A l \in 1..Len(Lines) : \A c \in Ints(Lines[l]) : \E k \in 0..Fuel : Orbit(c)[k] = 1
  /\ Len(Lines) > 0 => Lines[1].last > 1

-----------------------------------------------------------------------------
\* Types of the variables.
TypeOK ==
  /\ prog \in {"s", "st"} /\ line \in 1..(Len(Lines) + 1)
  /\ parent \in {"read", "fork", "wait", "finish", "report"}
  /\ forked \subseteq Kids
  /\ limits \in Seq(Nat) /\ claims \in Seq(Nat) /\ Len(claims) = Len(limits)
  /\ count \in Int /\ l1 \subseteq Kids \cup {Parent} /\ l2 \subseteq Kids \cup {Parent}
  /\ \A k \in Kids : /\ kid[k].pc \in {"none", "l2", "decr", "l1", "block", "walk", "known", "max",
                                       "maxset", "store", "stats", "statsset", "unlock1",
                                       "unlock2", "dead"}
                     /\ kid[k].path \in Seq(Nat) /\ kid[k].i \in Nat
  /\ result \in Nat \cup {Undef}
  /\ stats \in [reads : Nat, updates : Nat, highest : Nat]

\* When the parent reads the results every child of the line is past its
\* transactions: the locks l1 and l2 and ^count (join in the threaded
\* version) are the only things that make the parent wait for them.
ReportAfterAll ==
  parent = "report" =>
    /\ forked = Kids
    /\ \A k \in Kids : kid[k].pc \in {"unlock1", "unlock2", "dead"} /\ k \notin l2

\* A number with a known count of steps has the right count, at any time and
\* whoever stored it, also when the path was cut short by another child's.
StepsRight == TypeOK /\ \A w \in DOMAIN step : StrToInt(step[w]) = Steps(StrToInt(w))

\* The reported maximum is the maximum over the range, for the first line the
\* database sees.  After that ^step still knows the numbers of earlier lines,
\* dostep skips them, and the maximum may be too small, but never too large.
ResultRight ==
  parent = "report" => /\ result # Undef
                       /\ result <= MaxSteps(Lines[line])
                       /\ line = 1 => result = MaxSteps(Lines[line])

\* The statistics of the threaded version: each round of each child is in
\* ^reads once, though transactions restart, and ^highest is the highest
\* number reached.
StatsRight ==
  prog = "st" /\ parent = "report" /\ crashes = 0 =>
    /\ stats.reads = rounds
    /\ line = 1 => stats.highest = Highest(Lines[line])

\* All lines are processed: no lock, count or join waits for ever.
AllLines == <>(line > Len(Lines))
=============================================================================
