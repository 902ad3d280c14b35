# TLA+ models of the YottaDB test system

The repository is the regression test system of YottaDB: a framework of tcsh
scripts and M routines under `com/`, and some two hundred directories of tests
that use it. This project models the parts of the framework in which several
processes work at once: where two tests, two jobs, or a job and a crash meet,
and where a mistake shows up as a rare failure that no test of the framework
would find. It also models the C programs that test the Simple API and the
threaded Simple API: the fill in C, the stress, bank and 3n+1 programs, and the
programs that call one function after the other. Paths below are relative to
`src/`.

## 1. Inventory

| Component | State | Operations | Hard because |
|---|---|---|---|
| Port reservation: `com/portno_acquire.csh`, `portno_release.csh`, `is_port_in_use.csh`, cleanup in `subtest_helperlogs.csh` | files `/tmp/test_<port>.txt`, portno files, the queued `rm` commands of a subtest | acquire, release one, release all, cleanup after a pass | look, append, probe and check are separate commands; tests are killed; the in-use test can be wrong |
| Start of jobs: `com/job.m`, labels `job`, `threadparm` | M locks `^job<routine>`, `^job<routine>(i,$j)`, `^%jobwait([jobid,]i)` | lock, JOB, poll with zero timeout, unlock; the child's two locks | probes collide with children and with other calls; children die; a JOB command fails; give-up after 600 tries |
| Wait for jobs: `com/job.m`, `wait`, `waitchld`; `isprcalv.m` | pids in `^%jobwait`, info file | store, write file, load file, copy, poll | online rollback takes nodes away at any time |
| Fill: `com/imptp.m`, stop by `com/endtp.m` | the globals of the fill, `^lasti`, `^cntloop`, `^endloop` | eleven stages per iteration, restart | killed in any stage, regions recover separately, restarted |
| Check of the fill: `com/checkdb.m` | reads the globals | `crash`, `crashztp`, `nocrash`, `compiter` | must accept every state that a correct recovery can give, and no other |
| Pause of the fill: `com/pauseimptp.m` | `^%pauseflag`, `pausedcount` | `pauseifneeded`, `pause`, `resume` | flag and count are read and written in separate steps; timeouts |
| Fill in C: `com/simpleapi_imptp.c`, `simplethreadapi_imptp.c` | the globals of the fill, `^%jobwait`, `jsyncnt`, `^cntloop` | fork, record pid, wait twice, impjob, callbacks of `ydb_tp_s` | restarts in the middle of a callback, SIGTERM, crash, restart; must do what `imptp.m` does |
| 3n+1: `v62002/inref/simpleapi_threeen1f.c`, `simplethreadapi_threeen1f.c` | `^limits`, `^step`, `^count`, `^result`, `^reads`, `^updates`, `^highest`, locks `l1`, `l2` | claim a block, walk, store, two transactions | children use each other's half-finished results; a killed run is started again |
| Bank: `simpleapi/inref/pseudoBank.c`, `simplethreadapi/inref/pseudoBank.c` | `^ZACN`, `^ZHIST`, `^ZTRNLOG` | transfer in a transaction, stop after the timeout | transfers collide; the threaded one ignores some statuses |
| Stress: `stress/inref/simpleapi_run_concurr.c`, `simplethreadapi_run_concurr.c` | `^permit`, `^PID`, `^lasti`, the filled globals | start together; KILL, SET, VER | jobs with and without transactions work on the same nodes |
| API test programs: `simpleapi/inref/{gvn,lvn,gvnlvn,isv}*.c` and the same in `simplethreadapi/inref` | buffers in C memory, local and global variables | set, get, data, delete, incr, subscript and node next and previous | buffers too small, wrong, or used again; each output is fixed by a reference file |
| MSR actions: `com/multisite_replic.csh`, `remove_port.csh` | link file, `msr_execute_<n>` files, ports of an instance | start, stop, run | concurrent `$MSR` calls race for a number |
| Watchdog: `com/gtm_test_watchdog.csh` | `exit_file`, `diff.log` | alert, kill | a killed test may still complete |
| Online rollback resume: `com/orlbkresume.m` | `^%orlbkcycle`, `orlbkcycle` | detect, `zgoto` | error trap and explicit check may both react |
| Subtest driver: `com/submit_subtest.csh` and callers | output files | run, compare, clean up | long sequential scripts over text |
| Replication scripts: `RF_START.csh`, `RF_SHUT.csh`, `fail_over.csh` | files, environment | sequences of MUPIP commands | the behaviour is that of the database |

How they interact: a test acquires ports before it starts replication servers
and releases them at shutdown; the fill is started with `^job` (`jmaxwait=0`),
paused by test scripts, stopped by `endtp`, which calls `wait^job`, and
examined by `checkdb`; crash scripts kill the pids that `^job` stored; the
watchdog kills a test that hangs, with whatever it holds. The fill in C takes
the place of `imptp.m` in the same tests: it writes the same globals, stores its
pids where `wait^job` and the crash scripts look for them, and `checkdb`
examines the result.

What makes them correct: a port has one owner, and a reservation is neither
lost nor left behind; jobs start together, and no lock wait lasts for ever;
`wait` returns, and says so if a child still runs; whatever kills the fill,
`checkdb` accepts what a correct recovery gives back and would notice a loss;
between pause and resume nothing is updated. The fill in C makes the commits
of `imptp.m`, in its order, and its parent returns only when the children can be
killed. A transfer moves one amount or nothing. Children of the stress and 3n+1
programs start together, see whole transactions, and end. An API test program
gets what its reference file lists, and nothing is written outside its arrays.

## 2. Modules

| Module | Models | Correspondence |
|---|---|---|
| `PortReservation` | port reservation | `file[p]` is the sequence of lines of `/tmp/test_p.txt`; `place`, `portno`, `second_round` the shell of a test; `held` its portno files; `rmports` its `delete_reserved_portfiles.csh`. One action per command that reads or changes shared state. The answer of `is_port_in_use.csh` is arbitrary. |
| `JobBarrier` | start of jobs | `routine`, `leaves`, `jobwait` are the M locks (a name is free when no ancestor or descendant is held by another process; `routine[n]` holds every call of a process that has locked `^job<n>` and not undone it); `JobFails` is the error trap, `ProcessEnds` the end of a process after it; `index`, `all`, `try` the loops of label `job`; `child` where each child is. `reached` and `timedout` are history and message. |
| `JobWait` | wait for jobs | `nodes` counts the nodes of `^%jobwait` in the order in which they are set, so a rollback is a smaller number; `hit` marks a process whose next database access fails with DBROLLEDBACK. |
| `PauseImptp` | pause and resume | `flag` is undefined, 0 or 1; `pausedcount` the counter; `ctl` the calling script. A timed-out call halts, and the script goes on; `gaveup` remembers it. |
| `ImptpIndex` | indexes of the fill | the three computations of the index I: running loop, restart, `checkdb`. |
| `ImptpStages` | one iteration | nodes as `<<global, letter, subscript>>`; each stage a sequence of SET/KILL/ZKILL; `Body` the sequence of commits under the fences of `istp` and `lfence`. |
| `Checkdb` | verdict | one predicate per label, over the nodes of an iteration. |
| `ImptpBody` | the commits of one iteration as `Imptp` and `CImptp` use them | nodes of a mode, sequences of commits, the cuts a recovery may leave. |
| `Imptp` | fill, stop, crash, recovery, restart | composes the modules above; the database is the state at the last start and the number of commits of each job since. `mode` (fence, crashes, regions, jobs) is chosen at the start of a behaviour. |
| `CImptp` | fill in C | `main` and `forked` are where `main()` is, `cpc`, `status`, `loop` each child, `pos` and `tries` the calls made by the callback and `$TRESTART`; `nodes` is the database itself. `Implements` maps it to `Imptp`: a child that has been started is at its next commit, `main` and the calls of a callback are stuttering steps. |
| `Threeen1f` | 3n+1 programs | `kid[k]` holds the locals of a child (`current`, `n`, `i`, the path, its statistics), the other variables are the globals and locks of the same name. Numbers are stored as words (`inttostr`, `strtoint`). |
| `Bank` | what a bank does | balances and used references; one action, a transfer. |
| `PseudoBank` | bank programs | `acn`, `hist`, `trn` are the globals; `arg`, `from`, `to` the C structs of a callback; `read`, `doomed`, `tries`, `crit` the transaction. |
| `RunConcurr` | stress programs | `pc`, `act`, `i`, `k`, `ndx` are the place of a child in the loops of `m_filling_randfill`; `pend` the uncommitted writes of its transaction. |
| `SimpleApi` | library functions (external) | memory, variables and the outcomes of each function, from the calls and the reference files. |
| `ApiScript`, `ApiValues`, `ApiOrder`, `ApiPrograms` | API test programs | one script per program: a sequence of assignments, calls with the status the reference file lists, and prints with what they print. |
| `ApiTest` | execution of a script | one action per kind of statement; a threaded call is carried out by the worker. |
| `Framework_proofs` | theorems about `PortReservation` and `JobBarrier` | |
| `FillHelpers_proofs` | theorems about `JobWait`, `PauseImptp` and `ImptpIndex` | |
| `ImptpBody_proofs` | lemmas about the stages, the verdict and recovery | |
| `Imptp_proofs`, `CImptp_proofs`, `PseudoBank_proofs`, `RunConcurr_proofs`, `Threeen1f_proofs` | theorems about the module of that name | |
| `MCPortReservation`, `MCJobBarrier`, `MCFillHelpers`, `MCImptp`, `MCCImptp`, `MCThreeen1f`, `MCRunConcurr`, `MCApiTest` | instances for TLC | |

Definitions whose name is introduced by a comment "Mutant:" are faulty
variants of the definition that follows them. They are not part of any
specification; `PROJECT.json` lists, for every property, the one that breaks
it.

Abstractions worth knowing:

* A test is its line `$$ $tst_working_dir`. Hosts are independent, so there is
  one host. `remove_port.csh` queues the same `rm` as `portno_release.csh`.
* The globals of the fill are grouped by region: `^c`/`^d` behave alike, and so
  do `^f`, `^g`, `^h`, `^i`. Values are determined by the iteration, so a node
  is undefined or has its value; `^[abe]span` have two values, of Stage 7 and
  of Stage 10, which are one in the iterations of `piece0`: there `targetpiece`
  is 0, and SET $PIECE does nothing. Which these are depends on the length of
  the value, so any set of iterations may be `piece0`. Triggers are off, `skipreg=0`, `gtcm=0`.
* Recovery is external. All that is assumed: a region gets back a prefix of the
  commits to it, and what a closed TP or ZTP fence encloses comes back in all
  regions or in none. Regions need not agree otherwise. A ZTP fence that was
  open at the kill may be broken.
* A child of the C programs may end at any point (`ChildFails`): a call fails and
  the YDB_ASSERT behind it ends the process, or the call-in of `impjob^imptp`
  returns an error.
* `^%jobwait` is empty when `JobWait` starts. The tests that roll back while a
  fill runs (`online_rollback/`) start it once for each jobid; the one that
  starts it again (`ideminter_rolrec/`) rolls back after `wait`. In the same way
  `^permit` is 0 when `RunConcurr` starts: `stress/u_inref/concurr.csh` and
  `concurr_small.csh` run the programs once for each instance.
* `^cntseq`, `^dummy` and `^zdummy` are written by the fill and never checked.
* Transactions are external too. All that is assumed: a transaction sees its own
  writes; they reach the database together at the commit; a commit is refused
  when something it read has changed; any call before the last try may return
  `YDB_TP_RESTART`, and a transaction that was told so cannot commit; the last
  try holds the others back. `LastTry` stands for the database's three tries.
* The two versions of a C program are one module, with the differences as
  actions of their own; the threaded names end in `_st`. Functions that the two
  versions share line by line are one operator with two actions.
* In `RunConcurr` the globals are one shared and one owned by a job, since the
  code treats all of a kind alike.

## 3. Runs

| Run | Bounds | What it shows |
|---|---|---|
| `port` | 2 tests, ports 2..4, range to 3, limit 4, 2 ports each | no port twice, reservations kept, no file left but for ports acquired and one where a test was killed or gave up, the search ends. What needs a third test (a remover, an owner and a late appender on one port) is covered by the proofs. |
| `job_safety` | 2 calls of 2 children, own jobid, same routine, 2 tries, and a third call with `jnolock` | the barrier, also when a JOB command fails; a `jnolock` call does not disturb it. A process that calls again with the lock of its failed call still held is covered by the proofs. |
| `job_liveness` | 2 calls that share all locks | calls return, children run |
| `fill_helpers` | `ImptpIndex`: prime 17, root 3, 3 jobs; `PauseImptp`: 3 jobs, 2 rounds, timeouts; `JobWait`: 3 children, 3 passes, 3 rollbacks. They share no variable; a behaviour is one of one of them | indexes distinct, restart and checkdb agree; nothing updated while paused, the flag is killed in time, handshake completes; pids found, quiet return means dead, return |
| `imptp` | four modes of the fill (TP with crashes, 5 regions; ZTP and no TP with crashes, 2 regions; TP without crashes, 5 regions, 2 jobs); 2 iterations, 2 starts | checkdb passes after any crash or stop, `^cntloop` included; no complete iteration redone; without crashes every single loss is seen but that of `^espan` at targetpiece 0. Iteration 2 is the one with targetpiece 0 |
| `cimptp` | three modes (threaded, TP, crashes, 2 regions, 1 job; forked, TP, 2 regions, 2 jobs; forked, no TP, 3 regions, 1 job); 2 iterations, 2 starts, 1 restart of a transaction | main returns only when the jobs can be killed; `^lasti` never lies; the program implements `Imptp`; main and the children get on, whichever child fails, unless what main waits for can no longer come |
| `cimptp_waits` | as `cimptp`, 1 iteration | a wait of main that does not end (section 6) |
| `threeen1f` | 2 children, ranges 1..4 and 5..6, 1 kill, both versions | results read after all children; stored step counts right; maximum of the first line right, that of the second not above it; statistics of the threaded version right; all lines done |
| `bank` | 2 children, 2 accounts, 2 transfers each, last try 1, both versions | histories match accounts; the log counts the transfers; the programs implement `Bank`; children stop |
| `run_concurr` | one job of each kind, 2 iterations, prime 3, last try 1, both versions | start together; transactions whole or not at all; no verification fails; the parent ends |
| `api` | the programs or sections of one, each with global or with local variables, random lengths 0 and 63 | each output as listed; no array overrun |
| `api_overrun` | the two programs `gvnlvnnode{next,prev}2_31subs`, simple and threaded | they write beyond their arrays (section 6); what happens after that is undefined, so `api` leaves them out |

Why the bounds are enough: two iterations make a restart in the middle and one
after the end possible; two starts make a crash of a restarted run possible;
`jobcnt` 2 makes the second subscript J distinguish the killed (J=1) from the
kept ones. Two polling tries have one that fails and one that gives up. In the
crash modes one job is enough because the jobs update disjoint nodes
(`IndexIsIteration`) and `^cntloop` is checked only without crashes. Two children and
two accounts collide on one and on both accounts, also crosswise. The range 5..6
lies partly on the paths of 1..4, so children skip, meet and cut paths. With one
restart a transaction has a try that is not the last. Prime 3 gives two indexes,
so a pass has a node behind and one before it. The API programs are run whole;
only the random length is sampled, at its two ends. Deadlock is checked where a
program has an end of its own (`threeen1f`, `bank`, `run_concurr`, `api`); in the
other runs the system stops when the bounds are used up or the jobs are done.

Types. `PortTypeOK` and the `TypeOK` of `JobBarrier` are invariants of the runs
`port` and `job_safety`; `TypeOK` (`IndexTypeOK` in `ImptpIndex`) is a conjunct
of `IndexIsIteration`, `CheckdbPasses`, `StepsRight`, `NoOverrun`,
`LastiTellsTruth` and `AllOrNothing`; `WaitTypeOK` and the `TypeOK` of
`PauseImptp`, `PseudoBank` and `Imptp` are proved. Where one module of proofs
extends two components, the names of one of them have a prefix (`PortInit`,
`WaitInit`, `IndexInit`).

Fairness. `AcquireTerminates`: a shell runs its commands (weak fairness of the
commands of one `portno_acquire.csh`); nothing is assumed of when tests
acquire, release or end. `CallReturns`, `ChildRuns`: each process takes a step
that stays possible; nothing is assumed of the order in which waiting processes
get an M lock, nor that a child ends or a process whose call has failed does. `WaitReturns`: parent and waiter run,
children may run for ever. `HandshakeCompletes`: jobs go on with their
iterations and a call that waits looks again (`hang 0.5`); timeouts are never
required to happen, so the handshake does not lean on them. `AllLines`, `Stops`
(bank, stress) and `NobodyStuck`: every process runs; kills, timeouts, SIGTERM,
failures of children or JOB commands and `endtp` need not happen, except the bank's own timeout thread, which runs
like any other. That a transaction ends needs the database's promise that the last try is
not restarted, no more: the mutants `RestartFree` drop it and are caught.

## 4. Proofs

`Framework_proofs` shows of `PortReservation`, for every set of tests and every range of ports
`TypeOK`, `ReservationKept`, `NoSharedPort` and `NoOrphanReservation`, from
`PortAssumption` alone. `ReservationKept` is not inductive: a test about to
`rm` a file must still be its first line (`RemoverIsFirst`), a test working on
a candidate must not already have it (`CandidateIsNew`), and a port queued for
removal must not also be held (`HeldNotQueued`). With these, `IInv` is
inductive: appending keeps the first line, only the first line's test removes
the file in the loop, and only the owner's cleanup removes it later.
`NoSharedPort` follows, since a file has one first line. `NoOrphanReservation`
says of each place a test can be at which files may have it first; for a shell
that was killed, which may have been anywhere, it is one file more than those of
its ports.

`Framework_proofs` shows of `JobBarrier`, for every set of calls and every number of children,
`TypeOK` and `BarrierWithJobid`, from `JobAssumption`. The invariant follows
the lock discipline: a parent holds `^job<routine>` from its first lock to the
release (`ParentHolds`; after a failed JOB command to the end of its process), so no child is past the barrier before
(`ChildrenWait`); a `^%jobwait` lock is held by a child that reached the
barrier or by a parent between probe and release (`WaitLocks`); so a failed
probe of a lock that no other call uses proves that the child is there, and
`all` stays set only over children that are (`PassIsRight`).

`FillHelpers_proofs` shows of `JobWait`, for any number of children, passes and rollbacks
`WaitMeansDead` and `WaitFinds`, from `WaitAssumption`. `ParentInv` and
`CopyInv` say that a waiter that copies pids has all of them before it, or has
been hit by the rollback that took them away; `PollInv` that a pass which has
found nobody alive has nobody alive behind it, since children do not come back.

`FillHelpers_proofs` shows of `PauseImptp`, for any set of jobs, any number of pauses and timeouts
at any time `TypeOK`, `PauseHolds` and `FlagDefinedInTime`, from
`PauseAssumption`. The count is not the number of jobs inside: after a pause that
timed out a job may count itself in between resume's look at the count and the
kill of flag and count, and later counts itself out below zero. `CountInv`
therefore has a number of lost jobs; `HeldInv` says that as
long as no resume has given up the count never exceeds the jobs that really
wait, which makes a full count mean that all of them wait (`FullCount`);
`InTime` ties the place of each job to that of the script while nothing has
timed out.

`PseudoBank_proofs` shows for any number of children, accounts, transfers and
tries that both programs implement `Bank` (`BankImplemented`), and
`HistoryMatches`, from `BankAssumption`. Needed for it: the structs of a
transaction that was not told to restart hold what it read (`LoadOK`; a
threaded callback that ignored a restart breaks this and can no longer commit);
a commit is of values that are still in the database, so the new balances are
the old ones plus and minus the amount; and a reference is new because every
reference in the log belongs to a finished run (`RefsUsed`) and `RefOf` is
injective in child and run (`RefInjective`).

It also shows `LogCounts` (`LogComplete`): the set of references in the log is
exactly that of the finished runs, each with its two records, and a commit adds
one run and two records that are new.

`RunConcurr_proofs` shows `Barrier`, `AllOrNothing` and `verifyPasses` for any
number of jobs of each kind, iterations, restarts, names and any prime, from
`ConcurrAssumption`. Of the constants it assumes what `initdat.m` lists and
`stress.m` chooses: `^root` are primitive roots of `^prime`, so that a pass that
multiplies `prime - 1` times by the root comes to every node (`IsOrbit`), and at
most one job works outside transactions. `StartInv`: `^permit`
is the number of jobs counted in, the parent lets go of the lock only when that is
all of them, and a job is past its lock only after that. `PassInv`: in the middle
of a KILL, SET or VER pass the nodes of the exponents before `i` are done; the
rest is as the pass before left it, where no other job can write
(the node is the job's own, or the job is in a transaction). `OwnInv` and
`SharedInv`: what finished iterations have left; a shared node is right unless
the one job outside transactions is between its kills and its sets (`Killing`),
which is why a second such job would break the verification.

`FillHelpers_proofs` shows of `ImptpIndex` `IndexIsIteration` and `CheckdbAgrees` for every prime,
primitive root and number of jobs, from `IndexAssumption` (the comments in
`imptp.m`, 94-105, name prime and primitive root; the values in the code,
50000017 and 5, are such a pair). The invariant `IndexInv` says that the index
of job `j` in iteration `n` is the power `(j - 1) + (n - 1) * jobcnt` of the root.
The three computations of it agree by `PowerSum` and `PowerSkips` (a power of
`nroot` is a power of the root `jobcnt` times as high), the restart included.
`ExponentsDiffer`: as long as no iteration is beyond `top` the exponents of two
iterations differ and stay below `prime - 1`; `PowersDiffer`: the first
`prime - 1` powers of a primitive root differ, since they have to hit
`prime - 1` values.

`Threeen1f_proofs` shows `ReportAfterAll`, `StepsRight`, `ResultRight` and
`StatsRight` for any number of children, any input lines and block sizes and any
number of kills, from `ConstAssumption` and `RangeAssumption`: every number of the
lines reaches 1 (the program would not end otherwise), and the first line is not
`1 1`, for which no child would ever set `^result`, and `main` stops in its
YDB_ASSERT. The invariant, one part for each thing the programs share:

* `LocksOK`: who holds `l2(pid)`, and `^count` is the number of children not yet
  counted out. So the parent that has seen 0 and then gets `l2` knows all of them
  to be done.
* `WalkOK`, `StoreOK`: each number on the path of a child has one step more than
  the next, first relative to the end of the path, then, once that is known, to
  `i`. A path that another child's count cuts short needs no case of its own.
* `StepOK`: `^step` holds the words of right counts, none above `^result` in the
  first line, because a child stores a count only after its transaction on
  `^result` has committed.
* `BlockOK`, `BlocksOK`: a claimed block is known up to the number that its
  claimer works on; a child ends only after it has asked for all blocks. With
  `LimitsCover` (the blocks of `main` cover the range, for every block size) all
  numbers are known at the report.
* `StatsOK`: `^reads` and the reads of the living threads add up to the rounds;
  every number passed is below the highest of a living thread, or `^highest`, or
  still ahead on a path.

`WordsRight` says that `strtoint` undoes `inttostr` for every number.

`Imptp_proofs` shows of the fill, in every mode and for any number of jobs,
iterations and starts, `TypeOK`, `CheckdbPasses`, `CompleteNotRedone` and
`LossSeenNoCrash`, from `StageAssumption`, `BodyAssumption` and
`ImptpAssumption`. It rests on `ImptpBody_proofs`, in three layers:

* The body. `BodyStages` says where each stage lies in the sequence of updates,
  `OnlyWriters` which updates are of a node (one or two of them, at places that
  depend on `jobcnt` only through the rounds of Stage 4). So what the first k
  updates leave of a node is known for every k (`EffectOnce`, `EffectKilled`,
  `EffectRounds`, `EffectSpan`). What a value of Stage 10 leaves in an iteration
  with targetpiece 0 is `Leaves`.
* The verdict on one iteration. `Complete`: `compiter` accepts an iteration with
  all updates. `CrashIter`: with TP, label `crash` accepts one of which the
  regions have prefixes that keep the fences (`InStep`); `Sound` adds what the
  labels ask without TP and with ZTP.
* Recovery. `CutsAre` says what is promised of a prefix that `Cuts` allows,
  `FenceKept` and `Together` that the updates of a closed fence are all there or
  none of them, and `CutSound` that every iteration of every cut is `Sound`. `RecoveredIs` puts the iterations of a job together.

The invariant `IInv` says of every job (`JobOK`) that the database at its last
start is one that `checkdb` accepts (`DbIs`), that the job is between two
commits, and that the run began after `^lasti` and is not past `top`; and of
`^cntloop` (`CntloopOK`) that it is the sum over the jobs of what earlier runs
counted and the `$incr`s of this run. The first part is at most `top` for each
earlier start, because a run counts an iteration at most once, and it is
`^lasti` where nothing crashes. `CheckdbPasses` alone is not inductive: it says
nothing while jobs run, and nothing of where a restart goes on.

`CImptp_proofs` shows of the fill in C `TypeOK`, `ReturnedMeansReady`,
`LastiTellsTruth` and `Implements`, for any number of children, iterations,
starts and tries, from the same assumptions and `CImptpAssumption` (no ZTP, as
the programs assert, and the jobs looked at are the first ones forked). `Implementation` is the
refinement: Imptp is stated without fairness, so that it is a statement about
steps, and what `Imptp_proofs` shows holds of the C programs. Its argument:

* The callbacks. `StageCalls` says that what `tpfn_stage1` and `tpfn_stage3` call
  are the updates of Stages 1 and 3 but for `^zdummy`, which no region of the
  model keeps and only a restarted try makes, and `CommitDoes` that a commit,
  through a callback or not, leaves of each node what the M code's next commit
  leaves. So the database moves from `q` updates of the run to those of the next
  commit (`CommitNodes`), and `^cntloop` likewise (`CommitCount`).
* One child. `KidOK` says that its part of the database is what the last start
  or recovery left of it plus the first `done` updates of this run (`RunTo`),
  where in its loop it is by that number, and that `^lasti` told the truth at
  the start of the run (`Truth`). The `Kid` lemmas show it kept by each step.
  `TruthKept` needs of a crash only that the updates of a fence come back
  together (`CutTells`).
* main. `ReadyOK`: `jsyncnt` is the number of children past it, so when it is the
  number of jobs all are. `ForkedOK`: what is recorded in `^%jobwait`.
  `CntloopOK`: `^cntloop` is what each job has added in earlier runs and in this
  one, so on the first start it can only have changed when some child has come
  to Stage 9 (`NothingCounted`, `FirstOK`).

None of the three properties is inductive: they say nothing of a child while
main waits, nor of the database of a child that is to be recovered.

Induction over data is done in these modules as a least counterexample: a set of
naturals that is not empty has a least element (`LeastNat`, from the library's
theorem on well-founded relations), which the provers can apply. Recursive
functions are unfolded once (`IntToStrUnfolds`, `OrbitUnfolds`, `TotalSums`,
`RoundsExist`), by showing that a function that solves the equation exists.

Only model-checked: all liveness properties (fairness is out of the reach of the
prover); the API programs (`AsListed`, `NoOverrun`), which are finite as they
stand, so that TLC's run is exhaustive but for the random length.

## 5. Hazards

`PROJECT.json` lists the hazards that matter most, each at its line, with the
properties that would catch it. Known and not covered by a property:

* `com/job.m:203`: JOBWAITTOOLONG with "Still alive = 0" when the last child is
  seen dead in the last pass; `WaitMeansDead` promises nothing after a message.
* `com/job.m:156`: without jobid a rolled-back `njobs` node gives a null
  subscript; the fill always has a jobid.
* `com/pauseimptp.m:58`: a second pause after a resume that timed out may count
  jobs that are about to go on; the failure has been reported by then.
* `com/checkdb.m:227`: `maxcrash` is set and never compared.
* `com/imptp.m:157`: with one job the last iteration would have the index of the
  first, after 50000017 iterations.
* `com/endtp.m:14`: a fill restarted while jobs of the old one still run.
* `com/portno_acquire.csh:56`: the first round of a search may leave the range.
* Slips of the C programs that lie below what the models keep:
  `v62002/inref/simplethreadapi_threeen1f.c:101` (a thread id behind the array
  when there are `MAXTHREADS` threads),
  `simpleapi/inref/pseudoBank.c:265` (account and balance of the second log
  record), `com/simpleapi_imptp.c:739` (precedence of `&&` and `||`),
  `stress/inref/simpleapi_run_concurr.c:191` (exit status of a child).

## 6. Where code and comments disagree

The models follow the code in each case. Two of them are shown by a run that
checks what a comment or a declaration says and ends in a counterexample; it is
named in brackets.

* `com/portno_acquire.csh:56`: ports beyond `port_max` are meant for the second
  round; a `port_max` in use without a file lets the first round pass it.
* `com/job.m:230`: consecutive calls without `jobid` share `^%jobwait(i)`, and
  a child of the first call that has not dropped its lock yet is mistaken for
  one of the second.
* `com/pauseimptp.m:59`: after a pause that timed out, resume can kill
  `^%pauseflag` under a job that then reads it.
* `com/checkdb.m:165`: a crash test does not compare `^[abe]span` of complete
  iterations, although line 14 says that nothing is lost. `LossSeenNoCrash` is
  therefore about tests without crashes.
* `com/checkdb.m:310`: when `loop#totalpieces` is 0 the compared piece of `^espan`
  is always empty; in `imptp.m:419` the SET $PIECE has done nothing. A lost or
  surviving `^espan` of such an iteration is not seen; `LossSeenNoCrash` leaves out
  this node, in these iterations.
* `com/simpleapi_imptp.c:622` and `642` wait without the timeouts of the M code
  that the comments above them quote: a child that ends before it has counted
  itself in leaves main there for ever [`cimptp_waits`]; line 731 speaks of about 20 % where line
  719 gives 5 %.
* `v62002/inref/simpleapi_threeen1f.c:278`: "clears database between lines"; the
  nodes below `^step` stay, so the maximum of a later line can be too small;
  `ResultRight` only bounds it. Lines 514 and 519 add the name of a local to `^reads` and `^updates`, and line
  602 stores the number before the highest one. The threaded program has the
  last two right, and `StatsRight` is about this program only.
* `simpleapi/inref/gvnlvnnodenext2_31subs.c:57` and `gvnlvnnodeprev2_31subs.c:56`
  initialise 33 return buffers where 32 are declared [`api_overrun`].
* `simplethreadapi/inref/pseudoBank.c:185`, `186`, `193`, `194`: statuses are
  assigned and not looked at. No harm comes of it (`BankImplemented`).

## 7. Plan

1. `MsrTicket`: the race for `msr_execute_<n>` in `multisite_replic.csh`
   (151-170), with nested and concurrent calls; then its port bookkeeping
   (336-385) and `remove_port.csh`, composed with `PortReservation`.
2. `PortPool`, an abstract pool of ports, and `PortReservation` as its
   refinement; the same for an abstract start barrier.
3. `Watchdog`: alert, kill, late completion.
4. Online rollback in the fill: `orlbkresume.m`, label `orlbkres`, the info
   file of `imptp.m` (477-498).
5. A restart after an `endtp` that gave up: `JobWait` composed with `Imptp`.

Not modelled: the database engine itself; triggers, ZTRIGGER and GT.CM in the
fill, whose effect is the engine's; the errors of call-ins that subtest gtm8086
expects; the Go and Rust variants of the fill (`com/imptpgo.go`, `com/imptp-rs`),
which repeat the C programs call by call in another binding; `env_xlate` and `externalcall*`, small plug-ins whose caller
is the engine; `randomWalk`, random calls without an expected result; the
remaining API programs (locks, transactions, call-ins, string conversion), each
of which tests one function of the library; the subtest driver and the
replication scripts, sequences of commands over text; the other test suites.
