----------------------------- MODULE PseudoBank -----------------------------
(***************************************************************************)
(* The programs simpleapi/inref/pseudoBank.c (ten forked processes, "s")   *)
(* and simplethreadapi/inref/pseudoBank.c (ten threads, "st"): each child  *)
(* moves an amount between two random accounts in one transaction, again   *)
(* and again.  The transaction reads both accounts, then writes both       *)
(* accounts, a history record for each and two log records.                *)
(*                                                                         *)
(* External: the database commits a transaction only if nothing it read    *)
(* has changed; any call of the callback may return YDB_TP_RESTART before; *)
(* the last try holds the critical section and cannot be restarted.        *)
(***************************************************************************)
EXTENDS Integers, FiniteSets

CONSTANTS
  NumThreads,  \* children, with guid 0 .. NumThreads - 1
  IdShift,     \* ceil(log10(NUM_THREADS))
  NumAccts,    \* ACC_NEEDED; accounts are 0 .. NumAccts - 1
  Amt,         \* TRAN_AMT
  StartBal,    \* balance of a new account
  MaxRuns,     \* bound: transfers of a child before the timeout
  LastTry      \* the try that holds the critical section

ASSUME BankAssumption ==
  /\ NumThreads \in Nat \ {0} /\ IdShift \in Nat
  /\ 10^IdShift \in Nat /\ NumThreads <= 10^IdShift
  /\ NumAccts \in Nat /\ NumAccts >= 2
  /\ Amt \in Int /\ StartBal \in Int /\ MaxRuns \in Nat /\ LastTry \in Nat

Procs == 0..(NumThreads - 1)
Accts == 0..(NumAccts - 1)
None == -1

VARIABLES
  prog,       \* which program: "s" or "st"
  acn,        \* ^ACN(cid) = histSeq|bal
  hist,       \* ^HIST(cid,histSeq): set of records, one per key
  trn,        \* ^ZTRNLOG(ref,tSeq): set of records, one per key
  pc, arg,    \* where each child is, and the arguments it passed to ydb_tp_s
  numRuns,    \* transfers done by each child
  from, to,   \* accountFrom and accountTo, the two structs on the stack
  read,       \* what the transaction has read: accounts and their values
  doomed,     \* the transaction has been told to restart
  tries,      \* restarts of the transaction so far
  crit,       \* the child in its last try
  isTimeout   \* the flag of the threaded version

vars == <<prog, acn, hist, trn, pc, arg, numRuns, from, to, read, doomed, tries, crit, isTimeout>>

\* Mutant: idShift is left at 0.
RefOfPlain(g, n) == g + n

\* childThread: the reference of run n of child g.
RefOf(g, n) == g + n * 10^IdShift
Refs == {RefOf(g, n) : g \in Procs, n \in 0..MaxRuns}

HKey(r) == <<r.cid, r.histSeq>>
TKey(r) == <<r.guid, r.tSeq>>

\* Hist_Save and Trn_Save: set the node, whatever was there.
Hist_Save(h, r) == {x \in h : HKey(x) # HKey(r)} \cup {r}
Trn_Save(t, r) == {x \in t : TKey(x) # TKey(r)} \cup {r}

NoArg == [ref |-> 0, from |-> 0, to |-> 1]
NoAccount == [cid |-> 0, histSeq |-> 0, bal |-> 0]
\* What an Account on the stack may hold before it is loaded.
Garbage == {NoAccount, [cid |-> 1, histSeq |-> 1, bal |-> StartBal]}

\* initData: accounts with one history record each.
Init ==
  /\ prog \in {"s", "st"}
  /\ acn = [c \in Accts |-> [histSeq |-> 1, bal |-> StartBal]]
  /\ hist = {[cid |-> c, histSeq |-> 1, amt |-> 0, endBal |-> StartBal, user |-> None] : c \in Accts}
  /\ trn = {}
  /\ pc = [p \in Procs |-> "loop"] /\ arg = [p \in Procs |-> NoArg]
  /\ numRuns = [p \in Procs |-> 0]
  /\ from = [p \in Procs |-> NoAccount] /\ to = [p \in Procs |-> NoAccount]
  /\ read = [p \in Procs |-> {}]
  /\ doomed = [p \in Procs |-> FALSE] /\ tries = [p \in Procs |-> 0]
  /\ crit = None /\ isTimeout = FALSE

db == <<acn, hist, trn>>
frame == <<prog, numRuns, isTimeout>>

-----------------------------------------------------------------------------
(* childThread: choose the accounts and start the transaction.             *)

\* The second account is drawn from one fewer and stepped past the first.
Other(a, b) == IF a = b THEN b + 1 ELSE b

Transfers(p) ==
  /\ pc[p] = "loop" /\ numRuns[p] < MaxRuns
  /\ \E a \in 0..(NumAccts - 1), b \in 0..(NumAccts - 2) :
       arg' = [arg EXCEPT ![p] = [ref |-> RefOf(p, numRuns[p]), from |-> a, to |-> Other(a, b)]]
  /\ pc' = [pc EXCEPT ![p] = "loadFrom"]
  /\ UNCHANGED <<db, frame, from, to, read, doomed, tries, crit>>

\* childThread and its driver: the time is looked at between transfers only.
ChildThread(p) == prog = "s" /\ Transfers(p)
Timeout(p) ==
  /\ prog = "s" /\ pc[p] = "loop"
  /\ pc' = [pc EXCEPT ![p] = "done"]
  /\ UNCHANGED <<db, frame, arg, from, to, read, doomed, tries, crit>>

\* The threaded version: a thread of its own sets isTimeout.
ChildThread_st(p) == prog = "st" /\ ~isTimeout /\ Transfers(p)
Timeout_st(p) ==
  /\ prog = "st" /\ pc[p] = "loop" /\ isTimeout
  /\ pc' = [pc EXCEPT ![p] = "done"]
  /\ UNCHANGED <<db, frame, arg, from, to, read, doomed, tries, crit>>
ToggleTimeout_st ==
  /\ prog = "st" /\ ~isTimeout
  /\ isTimeout' = TRUE
  /\ UNCHANGED <<db, prog, numRuns, pc, arg, from, to, read, doomed, tries, crit>>

-----------------------------------------------------------------------------
(* postTransfer, one step per call into the database.                      *)

Goto(p, l) == pc' = [pc EXCEPT ![p] = l]

\* Account_Load: the node is read into a struct.
Loaded(c) == [cid |-> c, histSeq |-> acn[c].histSeq, bal |-> acn[c].bal]

LoadedFrom(p) ==
  /\ from' = [from EXCEPT ![p] = Loaded(arg[p].from)]
  /\ read' = [read EXCEPT ![p] = @ \cup {<<arg[p].from, acn[arg[p].from]>>}]
  /\ UNCHANGED <<to, doomed>>

LoadedTo(p) ==
  /\ to' = [to EXCEPT ![p] = Loaded(arg[p].to)]
  /\ read' = [read EXCEPT ![p] = @ \cup {<<arg[p].to, acn[arg[p].to]>>}]
  /\ UNCHANGED <<from, doomed>>

\* The database tells the callback to restart: not in the last try.
ToldToRestart(p) == /\ tries[p] < LastTry
                    /\ doomed' = [doomed EXCEPT ![p] = TRUE]

\* The call at l succeeds and the next one is n.
CallOK(p, l, n) ==
  /\ pc[p] = l /\ Goto(p, n)
  /\ UNCHANGED <<db, frame, arg, from, to, read, doomed, tries, crit>>

\* The call at l returns YDB_TP_RESTART and so does postTransfer.
CallRestart(p, l) ==
  /\ pc[p] = l /\ ToldToRestart(p) /\ Goto(p, "restart")
  /\ UNCHANGED <<db, frame, arg, from, to, read, tries, crit>>

\* The call at l returns YDB_TP_RESTART, which postTransfer does not look at.
CallIgnored(p, l, n) ==
  /\ pc[p] = l /\ ToldToRestart(p) /\ Goto(p, n)
  /\ UNCHANGED <<db, frame, arg, from, to, read, tries, crit>>

LoadFrom(p) ==
  /\ pc[p] = "loadFrom" /\ Goto(p, "loadTo") /\ LoadedFrom(p)
  /\ UNCHANGED <<db, frame, arg, tries, crit>>
LoadTo(p) ==
  /\ pc[p] = "loadTo" /\ Goto(p, "saves") /\ LoadedTo(p)
  /\ UNCHANGED <<db, frame, arg, tries, crit>>

\* A load of the threaded version that was told to restart leaves the struct
\* as it is, and postTransfer goes on with it.
LoadIgnored(p) ==
  /\ ToldToRestart(p)
  /\ \/ pc[p] = "loadFrom" /\ Goto(p, "loadTo") /\ UNCHANGED to
        /\ \E g \in Garbage : from' = [from EXCEPT ![p] = g]
     \/ pc[p] = "loadTo" /\ Goto(p, "saves") /\ UNCHANGED from
        /\ \E g \in Garbage : to' = [to EXCEPT ![p] = g]
  /\ UNCHANGED <<db, frame, arg, read, tries, crit>>

\* postTransfer after the loads: the accounts as they will be saved.
Debited(p) ==
  [cid |-> from[p].cid, histSeq |-> from[p].histSeq + 1, bal |-> from[p].bal - Amt]

\* Mutant: the amount is taken from the receiver as well.
CreditedMinus(p) ==
  [cid |-> to[p].cid, histSeq |-> to[p].histSeq + 1, bal |-> to[p].bal - Amt]

Credited(p) ==
  [cid |-> to[p].cid, histSeq |-> to[p].histSeq + 1, bal |-> to[p].bal + Amt]

\* The six saves write into the transaction only, so that no other child sees
\* one before the commit: one step, in which all succeed or one is told to
\* restart.

\* postTransfer of the forked version: every restart ends the callback.
PostTransfer(p) ==
  /\ prog = "s"
  /\ \/ LoadFrom(p) \/ LoadTo(p) \/ CallOK(p, "saves", "commit")
     \/ \E l \in {"loadFrom", "loadTo", "saves"} : CallRestart(p, l)

\* postTransfer of the threaded version: the status of the loads and of the
\* saves of the accounts is overwritten by the next call; that of the saves of
\* history and log is returned.
PostTransfer_st(p) ==
  /\ prog = "st"
  /\ \/ LoadFrom(p) \/ LoadTo(p) \/ LoadIgnored(p) \/ CallOK(p, "saves", "commit")
     \/ CallIgnored(p, "saves", "commit") \/ CallRestart(p, "saves")

-----------------------------------------------------------------------------
(* ydb_tp_s: commit, or run the callback again.                            *)

Valid(p) == \A r \in read[p] : acn[r[1]] = r[2]

Account(a) == [histSeq |-> a.histSeq, bal |-> a.bal]

\* Mutant: the account that receives is not saved.
SavedAccountsFrom(p) == [acn EXCEPT ![Debited(p).cid] = Account(Debited(p))]

\* Account_Save of both accounts, in this order.
SavedAccounts(p) ==
  [acn EXCEPT ![Debited(p).cid] = Account(Debited(p)), ![Credited(p).cid] = Account(Credited(p))]

\* The history records of both accounts; the field user holds the reference.
SavedHistory(p) ==
  Hist_Save(Hist_Save(hist,
    [cid |-> arg[p].from, histSeq |-> Debited(p).histSeq, amt |-> -Amt,
     endBal |-> Debited(p).bal, user |-> arg[p].ref]),
    [cid |-> arg[p].to, histSeq |-> Credited(p).histSeq, amt |-> Amt,
     endBal |-> Credited(p).bal, user |-> arg[p].ref])

\* The log records; both name the account and the balance of the payer.
SavedLog(p) ==
  Trn_Save(Trn_Save(trn,
    [guid |-> arg[p].ref, tSeq |-> 1, cid |-> arg[p].from, amt |-> -Amt, endBal |-> Debited(p).bal]),
    [guid |-> arg[p].ref, tSeq |-> 2, cid |-> arg[p].from, amt |-> Amt, endBal |-> Debited(p).bal])

Forget(p) ==
  /\ from' = [from EXCEPT ![p] = NoAccount] /\ to' = [to EXCEPT ![p] = NoAccount]
  /\ read' = [read EXCEPT ![p] = {}] /\ doomed' = [doomed EXCEPT ![p] = FALSE]

Commit(p) ==
  /\ pc[p] = "commit" /\ crit \in {None, p}
  /\ ~doomed[p] /\ Valid(p)
  /\ acn' = SavedAccounts(p) /\ hist' = SavedHistory(p) /\ trn' = SavedLog(p)
  /\ numRuns' = [numRuns EXCEPT ![p] = @ + 1]
  /\ Goto(p, "loop") /\ Forget(p)
  /\ tries' = [tries EXCEPT ![p] = 0] /\ crit' = IF crit = p THEN None ELSE crit
  /\ arg' = [arg EXCEPT ![p] = NoArg]
  /\ UNCHANGED <<prog, isTimeout>>

CommitRefused(p) ==
  /\ pc[p] = "commit" /\ (doomed[p] \/ ~Valid(p))
  /\ Goto(p, "restart")
  /\ UNCHANGED <<db, frame, arg, from, to, read, doomed, tries, crit>>

\* Mutant: the last try does not hold back the commits of others, and counting
\* starts again.
RestartFree(p) ==
  /\ pc[p] = "restart"
  /\ UNCHANGED <<tries, crit>>
  /\ Goto(p, "loadFrom") /\ Forget(p)
  /\ UNCHANGED <<db, frame, arg>>

\* A try again; the last one waits for the critical section.
Restart(p) ==
  /\ pc[p] = "restart"
  /\ tries' = [tries EXCEPT ![p] = @ + 1]
  /\ \/ tries'[p] < LastTry /\ UNCHANGED crit
     \/ tries'[p] >= LastTry /\ crit \in {None, p} /\ crit' = p
  /\ Goto(p, "loadFrom") /\ Forget(p)
  /\ UNCHANGED <<db, frame, arg>>

Tp(p) == Commit(p) \/ CommitRefused(p) \/ Restart(p)

Child(p) == \/ ChildThread(p) \/ Timeout(p) \/ ChildThread_st(p) \/ Timeout_st(p)
            \/ PostTransfer(p) \/ PostTransfer_st(p) \/ Tp(p)

AllDone == (\A p \in Procs : pc[p] = "done") /\ UNCHANGED vars

Next == (\E p \in Procs : Child(p)) \/ ToggleTimeout_st \/ AllDone

Fairness == WF_vars(ToggleTimeout_st) /\ \A p \in Procs : WF_vars(Child(p))

Spec == Init /\ [][Next]_vars /\ Fairness

-----------------------------------------------------------------------------
\* Types of the variables.
TypeOK ==
  /\ prog \in {"s", "st"} /\ isTimeout \in BOOLEAN /\ crit \in Procs \cup {None}
  /\ acn \in [Accts -> [histSeq : Nat, bal : Int]]
  /\ hist \subseteq [cid : Accts, histSeq : Nat, amt : Int, endBal : Int, user : Int]
  /\ pc \in [Procs -> {"loop", "loadFrom", "loadTo", "saves", "commit", "restart", "done"}]
  /\ arg \in [Procs -> [ref : Nat, from : Accts, to : Accts]]
  /\ numRuns \in [Procs -> Nat] /\ tries \in [Procs -> Nat]
  /\ doomed \in [Procs -> BOOLEAN]
  /\ read \in [Procs -> SUBSET (Accts \X [histSeq : Nat, bal : Int])]
  /\ from \in [Procs -> [cid : Accts, histSeq : Nat, bal : Int]]
  /\ to \in [Procs -> [cid : Accts, histSeq : Nat, bal : Int]]

\* The history of an account has no gap and nothing beyond the account's own
\* counter, and its last record ends with the balance of the account: two
\* children that read the same account never both commit.
HistoryMatches ==
  \A c \in Accts :
    /\ \A r \in hist : r.cid = c => r.histSeq \in 1..acn[c].histSeq
    /\ \A n \in 1..acn[c].histSeq : \E r \in hist : r.cid = c /\ r.histSeq = n
    /\ \A r \in hist : HKey(r) = <<c, acn[c].histSeq>> => r.endBal = acn[c].bal

\* What pseudoBankDisp counts: the references in ^ZTRNLOG are as many as the
\* transfers that were done, and each is there with both its records.
LogCounts ==
  /\ {r.guid : r \in trn} = UNION {{RefOf(p, n) : n \in 0..(numRuns[p] - 1)} : p \in Procs}
  /\ \A r \in trn : \E q \in trn : q.guid = r.guid /\ q.tSeq = 3 - r.tSeq
  /\ Cardinality(trn) = 2 * Cardinality({q \in Procs \X (0..MaxRuns) : q[2] < numRuns[q[1]]})

\* The forked and the threaded program implement the bank: each step moves
\* one amount under a new reference, or nothing.
Abstract == INSTANCE Bank WITH balance <- [c \in Accts |-> acn[c].bal],
                               refs <- {r.guid : r \in trn}
Implements == Abstract!Spec

\* Every call of ydb_tp_s ends although transactions restart each other: the
\* children stop after the timeout.
Stops == <>(\A p \in Procs : pc[p] = "done")
=============================================================================
