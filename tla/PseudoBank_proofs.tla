-------------------------- MODULE PseudoBank_proofs --------------------------
(***************************************************************************)
(* For any number of children, accounts, transfers and tries: every step   *)
(* of the pseudoBank programs is a transfer of the abstract bank or        *)
(* nothing, the history of each account matches the account, and the log   *)
(* holds two records for each transfer that was done.                      *)
(***************************************************************************)
EXTENDS PseudoBank, FiniteSetTheorems, TLAPS

\* A child inside ydb_tp_s.
Running(p) == pc[p] \notin {"loop", "done"}

\* The arguments of a running transfer: two accounts, and the reference of
\* the child's next run.
ArgOK ==
  \A p \in Procs : Running(p) =>
    /\ arg[p].from # arg[p].to
    /\ arg[p].ref = RefOf(p, numRuns[p])
    /\ numRuns[p] < MaxRuns

\* A struct of a transaction that was not told to restart holds the account
\* as the transaction read it.  A load of the threaded version that was told
\* to restart breaks this, but its transaction cannot commit.
LoadOK ==
  \A p \in Procs : ~doomed[p] =>
    /\ pc[p] \in {"loadTo", "saves", "commit"} =>
         from[p].cid = arg[p].from /\ <<arg[p].from, Account(from[p])>> \in read[p]
    /\ pc[p] \in {"saves", "commit"} =>
         to[p].cid = arg[p].to /\ <<arg[p].to, Account(to[p])>> \in read[p]

\* Every reference in the log is that of a run that is over.
RefsUsed ==
  \A r \in trn : \E q \in Procs, n \in Nat : n < numRuns[q] /\ r.guid = RefOf(q, n)

IInv == TypeOK /\ ArgOK /\ LoadOK /\ RefsUsed

-----------------------------------------------------------------------------
\* childThread of pseudoBank.c (line 173): no two runs, of one child or of
\* two, have one reference.
LEMMA RefInjective ==
  ASSUME NEW g \in Procs, NEW h \in Procs, NEW m \in Nat, NEW n \in Nat,
         RefOf(g, m) = RefOf(h, n)
  PROVE  g = h /\ m = n
<1> DEFINE K == 10^IdShift
<1>1. K \in Nat /\ g \in 0..(K - 1) /\ h \in 0..(K - 1) /\ NumThreads \in Nat
  BY BankAssumption DEF Procs
<1>2. g + m * K = h + n * K
  BY DEF RefOf
<1> HIDE DEF K
<1>3. ASSUME NEW a \in Nat, NEW b \in Nat, a < b PROVE b * K >= a * K + K
  <2>1. PICK d \in Nat : b = a + 1 + d
    <3>1. b - a - 1 \in Nat /\ b = a + 1 + (b - a - 1)
      BY <1>3
    <3>2. QED BY <3>1
  <2>2. b * K = a * K + K + d * K
    BY <2>1, <1>1
  <2>3. d * K \in Nat /\ a * K \in Nat
    BY <2>1, <1>1
  <2>4. QED BY <2>2, <2>3, <1>1
<1>4. m * K \in Nat /\ n * K \in Nat
  BY <1>1
<1>5. ~(m < n)
  BY <1>1, <1>2, <1>3, <1>4
<1>6. ~(n < m)
  BY <1>1, <1>2, <1>3, <1>4
<1>7. m = n
  BY <1>5, <1>6
<1>8. g = h
  BY <1>1, <1>2, <1>4, <1>7
<1>9. QED BY <1>7, <1>8

\* A reference is a natural number.
LEMMA RefType ==
  ASSUME NEW g \in Procs, NEW n \in Nat
  PROVE  RefOf(g, n) \in Nat
<1> DEFINE K == 10^IdShift
<1>1. K \in Nat /\ g \in Nat
  BY BankAssumption DEF Procs
<1> HIDE DEF K
<1>2. g + n * K \in Nat
  BY <1>1
<1>3. QED BY <1>2 DEF RefOf, K

\* main of pseudoBank.c chooses two different accounts (lines 176-181).
LEMMA OtherAccount ==
  ASSUME NEW a \in Accts, NEW b \in 0..(NumAccts - 2)
  PROVE  Other(a, b) \in Accts /\ Other(a, b) # a
BY BankAssumption DEF Accts, Other

-----------------------------------------------------------------------------
\* The steps of the programs, without the guards that tell them apart.
Step(p) ==
  \/ Transfers(p) \/ Timeout(p) \/ Timeout_st(p)
  \/ LoadFrom(p) \/ LoadTo(p) \/ LoadIgnored(p)
  \/ CallOK(p, "saves", "commit") \/ CallIgnored(p, "saves", "commit")
  \/ \E l \in {"loadFrom", "loadTo", "saves"} : CallRestart(p, l)
  \/ Commit(p) \/ CommitRefused(p) \/ Restart(p)

\* Every step is one of them, a step of the timer, or nothing.
LEMMA NextCases ==
  ASSUME [Next]_vars
  PROVE  (\E p \in Procs : Step(p)) \/ ToggleTimeout_st \/ UNCHANGED vars
<1>1. ASSUME NEW p \in Procs, Child(p) PROVE Step(p)
  BY <1>1 DEF Child, ChildThread, ChildThread_st, PostTransfer, PostTransfer_st, Tp, Step
<1>2. QED BY <1>1 DEF Next, AllDone

\* What the saves of a transaction write has its type.
LEMMA SaveTypes ==
  ASSUME TypeOK, NEW p \in Procs
  PROVE  /\ Debited(p) \in [cid : Accts, histSeq : Nat, bal : Int]
         /\ Credited(p) \in [cid : Accts, histSeq : Nat, bal : Int]
         /\ SavedAccounts(p) \in [Accts -> [histSeq : Nat, bal : Int]]
<1>1. /\ Debited(p) \in [cid : Accts, histSeq : Nat, bal : Int]
      /\ Credited(p) \in [cid : Accts, histSeq : Nat, bal : Int]
  BY BankAssumption DEF TypeOK, Debited, Credited
<1>2. /\ Account(Debited(p)) \in [histSeq : Nat, bal : Int]
      /\ Account(Credited(p)) \in [histSeq : Nat, bal : Int]
  BY <1>1 DEF Account
<1>3. acn \in [Accts -> [histSeq : Nat, bal : Int]]
  BY DEF TypeOK
<1>4. SavedAccounts(p) \in [Accts -> [histSeq : Nat, bal : Int]]
  BY <1>1, <1>2, <1>3 DEF SavedAccounts
<1>5. QED BY <1>1, <1>4

\* No step of a child or of the timer takes a variable out of its type.
LEMMA TypeStep ==
  ASSUME TypeOK, [Next]_vars
  PROVE  TypeOK'
<1>0. NoAccount \in [cid : Accts, histSeq : Nat, bal : Int] /\ NoArg \in [ref : Nat, from : Accts, to : Accts]
      /\ Garbage \subseteq [cid : Accts, histSeq : Nat, bal : Int]
  BY BankAssumption DEF NoAccount, NoArg, Garbage, Accts
<1>1. ASSUME NEW p \in Procs, Transfers(p) PROVE TypeOK'
  <2>1. PICK a \in Accts, b \in 0..(NumAccts - 2) :
          arg' = [arg EXCEPT ![p] = [ref |-> RefOf(p, numRuns[p]), from |-> a, to |-> Other(a, b)]]
    BY <1>1 DEF Transfers, Accts
  <2>2. RefOf(p, numRuns[p]) \in Nat /\ Other(a, b) \in Accts
    BY RefType, OtherAccount DEF TypeOK
  <2>3. arg' \in [Procs -> [ref : Nat, from : Accts, to : Accts]]
    BY <2>1, <2>2 DEF TypeOK
  <2>4. pc' = [pc EXCEPT ![p] = "loadFrom"]
    BY <1>1 DEF Transfers
  <2>5. QED BY <1>1, <2>3, <2>4 DEF TypeOK, Transfers, db, frame
<1>2. ASSUME NEW p \in Procs, Timeout(p) \/ Timeout_st(p) PROVE TypeOK'
  BY <1>2 DEF TypeOK, Timeout, Timeout_st, db, frame
<1>3. ASSUME NEW p \in Procs, LoadFrom(p) \/ LoadTo(p) PROVE TypeOK'
  <2>1. /\ arg[p].from \in Accts /\ arg[p].to \in Accts
        /\ acn \in [Accts -> [histSeq : Nat, bal : Int]]
    BY DEF TypeOK
  <2>2. ASSUME NEW c \in Accts
        PROVE  /\ acn[c] \in [histSeq : Nat, bal : Int]
               /\ Loaded(c) \in [cid : Accts, histSeq : Nat, bal : Int]
    BY <2>1 DEF Loaded
  <2>3. ASSUME NEW c \in Accts, read' = [read EXCEPT ![p] = @ \cup {<<c, acn[c]>>}]
        PROVE  read' \in [Procs -> SUBSET (Accts \X [histSeq : Nat, bal : Int])]
    BY <2>2, <2>3 DEF TypeOK
  <2>4. CASE LoadFrom(p)
    <3>1. from' \in [Procs -> [cid : Accts, histSeq : Nat, bal : Int]]
      BY <2>4, <2>1, <2>2 DEF TypeOK, LoadFrom, LoadedFrom
    <3>2. read' \in [Procs -> SUBSET (Accts \X [histSeq : Nat, bal : Int])]
      BY <2>4, <2>1, <2>3 DEF LoadFrom, LoadedFrom
    <3>3. QED BY <2>4, <3>1, <3>2 DEF TypeOK, LoadFrom, LoadedFrom, Goto, db, frame
  <2>5. CASE LoadTo(p)
    <3>1. to' \in [Procs -> [cid : Accts, histSeq : Nat, bal : Int]]
      BY <2>5, <2>1, <2>2 DEF TypeOK, LoadTo, LoadedTo
    <3>2. read' \in [Procs -> SUBSET (Accts \X [histSeq : Nat, bal : Int])]
      BY <2>5, <2>1, <2>3 DEF LoadTo, LoadedTo
    <3>3. QED BY <2>5, <3>1, <3>2 DEF TypeOK, LoadTo, LoadedTo, Goto, db, frame
  <2>6. QED BY <1>3, <2>4, <2>5
<1>4. ASSUME NEW p \in Procs, LoadIgnored(p) PROVE TypeOK'
  <2>1. doomed' \in [Procs -> BOOLEAN]
    BY <1>4 DEF TypeOK, LoadIgnored, ToldToRestart
  <2>2. /\ from' \in [Procs -> [cid : Accts, histSeq : Nat, bal : Int]]
        /\ to' \in [Procs -> [cid : Accts, histSeq : Nat, bal : Int]]
    <3>1. from \in [Procs -> [cid : Accts, histSeq : Nat, bal : Int]]
          /\ to \in [Procs -> [cid : Accts, histSeq : Nat, bal : Int]]
      BY DEF TypeOK
    <3>2. CASE to' = to /\ \E g \in Garbage : from' = [from EXCEPT ![p] = g]
      BY <1>0, <3>1, <3>2
    <3>3. CASE from' = from /\ \E g \in Garbage : to' = [to EXCEPT ![p] = g]
      BY <1>0, <3>1, <3>3
    <3>4. QED BY <1>4, <3>2, <3>3 DEF LoadIgnored
  <2>3. pc' \in [Procs -> {"loop", "loadFrom", "loadTo", "saves", "commit", "restart", "done"}]
    BY <1>4 DEF TypeOK, LoadIgnored, Goto
  <2>4. QED BY <1>4, <2>1, <2>2, <2>3 DEF TypeOK, LoadIgnored, db, frame
<1>5. ASSUME NEW p \in Procs, CallOK(p, "saves", "commit") PROVE TypeOK'
  BY <1>5 DEF TypeOK, CallOK, Goto, db, frame
<1>6. ASSUME NEW p \in Procs, CallIgnored(p, "saves", "commit") PROVE TypeOK'
  BY <1>6 DEF TypeOK, CallIgnored, ToldToRestart, Goto, db, frame
<1>7. ASSUME NEW p \in Procs, NEW l \in {"loadFrom", "loadTo", "saves"}, CallRestart(p, l) PROVE TypeOK'
  BY <1>7 DEF TypeOK, CallRestart, ToldToRestart, Goto, db, frame
<1>8. ASSUME NEW p \in Procs, Commit(p) PROVE TypeOK'
  <2>1. acn' \in [Accts -> [histSeq : Nat, bal : Int]]
    BY <1>8, SaveTypes DEF Commit
  <2>2. hist' \subseteq [cid : Accts, histSeq : Nat, amt : Int, endBal : Int, user : Int]
    <3>1. hist' = SavedHistory(p)
      BY <1>8 DEF Commit
    <3>2. arg[p] \in [ref : Nat, from : Accts, to : Accts]
      BY DEF TypeOK
    <3>3. QED BY <3>1, <3>2, SaveTypes, BankAssumption DEF SavedHistory, Hist_Save, TypeOK
  <2>3. /\ from' \in [Procs -> [cid : Accts, histSeq : Nat, bal : Int]]
        /\ to' \in [Procs -> [cid : Accts, histSeq : Nat, bal : Int]]
        /\ read' \in [Procs -> SUBSET (Accts \X [histSeq : Nat, bal : Int])]
        /\ doomed' \in [Procs -> BOOLEAN]
    BY <1>8, <1>0 DEF Commit, Forget, TypeOK
  <2>4. /\ prog' \in {"s", "st"} /\ isTimeout' \in BOOLEAN /\ crit' \in Procs \cup {None}
        /\ numRuns' \in [Procs -> Nat] /\ tries' \in [Procs -> Nat]
        /\ arg' \in [Procs -> [ref : Nat, from : Accts, to : Accts]]
    BY <1>8, <1>0 DEF Commit, TypeOK
  <2>5. pc' \in [Procs -> {"loop", "loadFrom", "loadTo", "saves", "commit", "restart", "done"}]
    BY <1>8 DEF Commit, Goto, TypeOK
  <2>6. QED BY <2>1, <2>2, <2>3, <2>4, <2>5 DEF TypeOK
<1>9. ASSUME NEW p \in Procs, CommitRefused(p) PROVE TypeOK'
  BY <1>9 DEF TypeOK, CommitRefused, Goto, db, frame
<1>10. ASSUME NEW p \in Procs, Restart(p) PROVE TypeOK'
  BY <1>10, <1>0 DEF TypeOK, Restart, Forget, Goto, db, frame
<1>11. CASE ToggleTimeout_st
  BY <1>11 DEF TypeOK, ToggleTimeout_st, db
<1>12. CASE UNCHANGED vars
  BY <1>12 DEF TypeOK, vars
<1>13. QED BY NextCases, <1>1, <1>2, <1>3, <1>4, <1>5, <1>6, <1>7, <1>8, <1>9, <1>10, <1>11, <1>12 DEF Step

-----------------------------------------------------------------------------
\* A transfer keeps its accounts and its reference from ydb_tp_s to the end of
\* the commit, over all restarts.
LEMMA ArgStep ==
  ASSUME TypeOK, ArgOK, [Next]_vars
  PROVE  ArgOK'
<1>1. ASSUME NEW p \in Procs, Transfers(p) PROVE ArgOK'
  <2>1. PICK a \in Accts, b \in 0..(NumAccts - 2) :
          arg' = [arg EXCEPT ![p] = [ref |-> RefOf(p, numRuns[p]), from |-> a, to |-> Other(a, b)]]
    BY <1>1 DEF Transfers, Accts
  <2>2. Other(a, b) # a
    BY OtherAccount
  <2>3. UNCHANGED numRuns /\ numRuns[p] < MaxRuns /\ pc' = [pc EXCEPT ![p] = "loadFrom"]
    BY <1>1 DEF Transfers, frame
  <2>4. QED BY <2>1, <2>2, <2>3 DEF ArgOK, TypeOK, Running, RefOf
<1>2. ASSUME NEW p \in Procs, Commit(p) PROVE ArgOK'
  <2>1. /\ pc' = [pc EXCEPT ![p] = "loop"] /\ arg' = [arg EXCEPT ![p] = NoArg]
        /\ numRuns' = [numRuns EXCEPT ![p] = @ + 1]
    BY <1>2 DEF Commit, Goto
  <2>2. QED BY <2>1 DEF ArgOK, TypeOK, Running, RefOf
<1>3. ASSUME NEW p \in Procs, NEW l, pc' = [pc EXCEPT ![p] = l], l = "done" \/ Running(p),
             UNCHANGED <<arg, numRuns>>
      PROVE  ArgOK'
  BY <1>3 DEF ArgOK, TypeOK, Running, RefOf
<1>4. ASSUME NEW p \in Procs, Step(p), ~Transfers(p), ~Commit(p) PROVE ArgOK'
  <2>1. UNCHANGED <<arg, numRuns>>
    BY <1>4 DEF Step, Timeout, Timeout_st, LoadFrom, LoadTo, LoadIgnored, CallOK, CallIgnored,
                CallRestart, CommitRefused, Restart, frame
  <2>2. \E l : pc' = [pc EXCEPT ![p] = l] /\ (l = "done" \/ Running(p))
    BY <1>4 DEF Step, Timeout, Timeout_st, LoadFrom, LoadTo, LoadIgnored, CallOK, CallIgnored,
                CallRestart, CommitRefused, Restart, Goto, Running
  <2>3. QED BY <1>3, <2>1, <2>2
<1>5. CASE ToggleTimeout_st
  BY <1>5 DEF ToggleTimeout_st, ArgOK, Running, RefOf
<1>6. CASE UNCHANGED vars
  BY <1>6 DEF vars, ArgOK, Running, RefOf
<1>7. QED BY NextCases, <1>1, <1>2, <1>4, <1>5, <1>6

\* A struct that Account_Load filled stays as it was read until the commit,
\* unless the transaction is told to restart.
LEMMA LoadStep ==
  ASSUME TypeOK, LoadOK, [Next]_vars
  PROVE  LoadOK'
<1>1. ASSUME NEW p \in Procs, LoadFrom(p) PROVE LoadOK'
  <2>1. /\ from' = [from EXCEPT ![p] = Loaded(arg[p].from)]
        /\ read' = [read EXCEPT ![p] = @ \cup {<<arg[p].from, acn[arg[p].from]>>}]
        /\ pc' = [pc EXCEPT ![p] = "loadTo"] /\ UNCHANGED <<arg, to, doomed>>
    BY <1>1 DEF LoadFrom, LoadedFrom, Goto
  <2>2. Account(Loaded(arg[p].from)) = acn[arg[p].from] /\ Loaded(arg[p].from).cid = arg[p].from
    BY DEF TypeOK, Account, Loaded
  <2>3. QED BY <2>1, <2>2 DEF LoadOK, TypeOK
<1>2. ASSUME NEW p \in Procs, LoadTo(p) PROVE LoadOK'
  <2>1. /\ to' = [to EXCEPT ![p] = Loaded(arg[p].to)]
        /\ read' = [read EXCEPT ![p] = @ \cup {<<arg[p].to, acn[arg[p].to]>>}]
        /\ pc[p] = "loadTo" /\ pc' = [pc EXCEPT ![p] = "saves"] /\ UNCHANGED <<arg, from, doomed>>
    BY <1>2 DEF LoadTo, LoadedTo, Goto
  <2>2. Account(Loaded(arg[p].to)) = acn[arg[p].to] /\ Loaded(arg[p].to).cid = arg[p].to
    BY DEF TypeOK, Account, Loaded
  <2>3. QED BY <2>1, <2>2 DEF LoadOK, TypeOK
<1>3. ASSUME NEW p \in Procs, LoadIgnored(p) PROVE LoadOK'
  BY <1>3, ZenonT(60) DEF LoadIgnored, ToldToRestart, Goto, LoadOK, TypeOK
<1>4. ASSUME NEW p \in Procs, Transfers(p) PROVE LoadOK'
  BY <1>4 DEF Transfers, LoadOK, TypeOK
<1>5. ASSUME NEW p \in Procs, Timeout(p) \/ Timeout_st(p) \/ CommitRefused(p) PROVE LoadOK'
  BY <1>5 DEF Timeout, Timeout_st, CommitRefused, Goto, LoadOK, TypeOK
<1>6. ASSUME NEW p \in Procs, CallOK(p, "saves", "commit") PROVE LoadOK'
  BY <1>6 DEF CallOK, Goto, LoadOK, TypeOK
<1>7. ASSUME NEW p \in Procs, CallIgnored(p, "saves", "commit") PROVE LoadOK'
  BY <1>7 DEF CallIgnored, ToldToRestart, Goto, LoadOK, TypeOK
<1>8. ASSUME NEW p \in Procs, NEW l \in {"loadFrom", "loadTo", "saves"}, CallRestart(p, l) PROVE LoadOK'
  BY <1>8 DEF CallRestart, ToldToRestart, Goto, LoadOK, TypeOK
<1>9. ASSUME NEW p \in Procs, Commit(p) PROVE LoadOK'
  BY <1>9 DEF Commit, Forget, Goto, LoadOK, TypeOK
<1>10. ASSUME NEW p \in Procs, Restart(p) PROVE LoadOK'
  BY <1>10 DEF Restart, Forget, Goto, LoadOK, TypeOK
<1>11. CASE ToggleTimeout_st
  BY <1>11 DEF ToggleTimeout_st, LoadOK
<1>12. CASE UNCHANGED vars
  BY <1>12 DEF vars, LoadOK
<1>13. QED BY NextCases, <1>1, <1>2, <1>3, <1>4, <1>5, <1>6, <1>7, <1>8, <1>9, <1>10, <1>11, <1>12 DEF Step

-----------------------------------------------------------------------------
(* The commit of postTransfer.                                             *)

\* Only a commit changes the database.
LEMMA OnlyCommit ==
  ASSUME [Next]_vars
  PROVE  (\E p \in Procs : Commit(p)) \/ UNCHANGED <<acn, hist, trn, numRuns>>
<1>1. ASSUME NEW p \in Procs, Step(p), ~Commit(p) PROVE UNCHANGED <<acn, hist, trn, numRuns>>
  BY <1>1 DEF Step, Transfers, Timeout, Timeout_st, LoadFrom, LoadTo, LoadIgnored, CallOK,
              CallIgnored, CallRestart, CommitRefused, Restart, db, frame
<1>2. QED BY NextCases, <1>1 DEF ToggleTimeout_st, vars, db

\* A commit moves the amount between the accounts as they are now: what the
\* transaction read has not changed, or it would have been refused.
LEMMA CommitAccounts ==
  ASSUME IInv, NEW p \in Procs, Commit(p)
  PROVE  LET f == arg[p].from
             t == arg[p].to
         IN  /\ f \in Accts /\ t \in Accts /\ f # t
             /\ acn[f] \in [histSeq : Nat, bal : Int] /\ acn[t] \in [histSeq : Nat, bal : Int]
             /\ Debited(p) = [cid |-> f, histSeq |-> acn[f].histSeq + 1, bal |-> acn[f].bal - Amt]
             /\ Credited(p) = [cid |-> t, histSeq |-> acn[t].histSeq + 1, bal |-> acn[t].bal + Amt]
             /\ acn' = [acn EXCEPT ![f] = [histSeq |-> acn[f].histSeq + 1, bal |-> acn[f].bal - Amt],
                                   ![t] = [histSeq |-> acn[t].histSeq + 1, bal |-> acn[t].bal + Amt]]
<1> DEFINE f == arg[p].from
           t == arg[p].to
<1>1. f \in Accts /\ t \in Accts /\ f # t
  BY DEF IInv, TypeOK, ArgOK, Running, Commit
<1>2. acn[f] \in [histSeq : Nat, bal : Int] /\ acn[t] \in [histSeq : Nat, bal : Int]
  BY <1>1 DEF IInv, TypeOK
<1>3. /\ from[p].cid = f /\ <<f, Account(from[p])>> \in read[p]
      /\ to[p].cid = t /\ <<t, Account(to[p])>> \in read[p]
  BY DEF IInv, LoadOK, Commit
<1>4. acn[f] = Account(from[p]) /\ acn[t] = Account(to[p])
  BY <1>3 DEF Commit, Valid
<1>5. /\ from[p].histSeq = acn[f].histSeq /\ from[p].bal = acn[f].bal
      /\ to[p].histSeq = acn[t].histSeq /\ to[p].bal = acn[t].bal
  BY <1>4 DEF Account
<1>6. /\ Debited(p) = [cid |-> f, histSeq |-> acn[f].histSeq + 1, bal |-> acn[f].bal - Amt]
      /\ Credited(p) = [cid |-> t, histSeq |-> acn[t].histSeq + 1, bal |-> acn[t].bal + Amt]
  BY <1>3, <1>5 DEF Debited, Credited
<1>7. acn' = [acn EXCEPT ![f] = [histSeq |-> acn[f].histSeq + 1, bal |-> acn[f].bal - Amt],
                         ![t] = [histSeq |-> acn[t].histSeq + 1, bal |-> acn[t].bal + Amt]]
  BY <1>6 DEF Commit, SavedAccounts, Account
<1>8. QED BY <1>1, <1>2, <1>6, <1>7

\* The log after a commit: the old records, but for the keys that are set, and
\* two new ones under the reference of the transfer.
LEMMA CommitLog ==
  ASSUME NEW p \in Procs, Commit(p)
  PROVE  {r.guid : r \in trn'} = {r.guid : r \in trn} \cup {arg[p].ref}
<1> DEFINE r1 == [guid |-> arg[p].ref, tSeq |-> 1, cid |-> arg[p].from, amt |-> -Amt, endBal |-> Debited(p).bal]
           r2 == [guid |-> arg[p].ref, tSeq |-> 2, cid |-> arg[p].from, amt |-> Amt, endBal |-> Debited(p).bal]
<1>1. trn' = Trn_Save(Trn_Save(trn, r1), r2)
  BY DEF Commit, SavedLog
<1>2. r1.guid = arg[p].ref /\ r2.guid = arg[p].ref
  OBVIOUS
<1> HIDE DEF r1, r2
<1>3. ASSUME NEW t, NEW r PROVE {x.guid : x \in Trn_Save(t, r)} = {x.guid : x \in t} \cup {r.guid}
  BY DEF Trn_Save, TKey
<1>4. {x.guid : x \in Trn_Save(trn, r1)} = {x.guid : x \in trn} \cup {arg[p].ref}
  BY <1>2, <1>3
<1>5. {x.guid : x \in trn'} = {x.guid : x \in Trn_Save(trn, r1)} \cup {arg[p].ref}
  BY <1>1, <1>2, <1>3
<1>6. QED BY <1>4, <1>5

\* A commit of postTransfer uses the reference of a run that is over with it.
LEMMA RefsStep ==
  ASSUME IInv, [Next]_vars
  PROVE  RefsUsed'
<1>1. ASSUME NEW p \in Procs, Commit(p) PROVE RefsUsed'
  <2>1. numRuns' = [numRuns EXCEPT ![p] = @ + 1] /\ numRuns \in [Procs -> Nat]
    BY <1>1 DEF Commit, IInv, TypeOK
  <2>2. arg[p].ref = RefOf(p, numRuns[p])
    BY <1>1 DEF IInv, ArgOK, Running, Commit
  <2>3. ASSUME NEW r \in trn' PROVE \E q \in Procs, n \in Nat : n < numRuns'[q] /\ r.guid = RefOf(q, n)
    <3>1. r.guid \in {x.guid : x \in trn} \cup {arg[p].ref}
      BY <1>1, CommitLog
    <3>2. CASE r.guid = arg[p].ref
      BY <2>1, <2>2, <3>2
    <3>3. CASE r.guid # arg[p].ref
      <4>1. PICK x \in trn : x.guid = r.guid
        BY <3>1, <3>3
      <4>2. PICK q \in Procs, n \in Nat : n < numRuns[q] /\ x.guid = RefOf(q, n)
        BY <4>1 DEF IInv, RefsUsed
      <4>3. n < numRuns'[q]
        BY <2>1, <4>2
      <4>4. QED BY <4>1, <4>2, <4>3
    <3>4. QED BY <3>2, <3>3
  <2>4. QED BY <2>3 DEF RefsUsed, RefOf
<1>2. CASE UNCHANGED <<acn, hist, trn, numRuns>>
  BY <1>2 DEF IInv, RefsUsed, RefOf
<1>3. QED BY OnlyCommit, <1>1, <1>2

\* After initData no child runs and the log is empty.
LEMMA InvInit ==
  ASSUME Init
  PROVE  IInv
<1>1. TypeOK
  <2>1. /\ NoAccount \in [cid : Accts, histSeq : Nat, bal : Int]
        /\ NoArg \in [ref : Nat, from : Accts, to : Accts]
    BY BankAssumption DEF NoAccount, NoArg, Accts
  <2>2. acn \in [Accts -> [histSeq : Nat, bal : Int]]
    BY BankAssumption DEF Init
  <2>3. hist \subseteq [cid : Accts, histSeq : Nat, amt : Int, endBal : Int, user : Int]
    BY BankAssumption DEF Init, None
  <2>4. /\ arg \in [Procs -> [ref : Nat, from : Accts, to : Accts]]
        /\ from \in [Procs -> [cid : Accts, histSeq : Nat, bal : Int]]
        /\ to \in [Procs -> [cid : Accts, histSeq : Nat, bal : Int]]
        /\ read \in [Procs -> SUBSET (Accts \X [histSeq : Nat, bal : Int])]
    BY <2>1 DEF Init
  <2>5. QED BY <2>2, <2>3, <2>4 DEF Init, TypeOK
<1>2. ArgOK /\ LoadOK /\ RefsUsed
  BY DEF Init, ArgOK, Running, LoadOK, RefsUsed
<1>3. QED BY <1>1, <1>2 DEF IInv

\* The inductive invariant of the bank, for any number of children, accounts
\* and tries: postTransfer commits only what it read, and under a new reference.
THEOREM BankInvariant == Spec => []IInv
<1>1. Init => IInv
  BY InvInit
<1>2. IInv /\ [Next]_vars => IInv'
  BY TypeStep, ArgStep, LoadStep, RefsStep DEF IInv
<1>3. QED BY <1>1, <1>2, PTL DEF Spec

-----------------------------------------------------------------------------
(* Refinement.                                                             *)

\* The reference that postTransfer commits under is not in the log yet.
LEMMA CommitNewRef ==
  ASSUME IInv, NEW p \in Procs, Commit(p)
  PROVE  arg[p].ref \notin {x.guid : x \in trn}
<1>1. SUFFICES ASSUME NEW x \in trn, x.guid = arg[p].ref PROVE FALSE
  OBVIOUS
<1>2. numRuns \in [Procs -> Nat] /\ arg[p].ref = RefOf(p, numRuns[p])
  BY DEF IInv, TypeOK, ArgOK, Running, Commit
<1>3. PICK q \in Procs, n \in Nat : n < numRuns[q] /\ x.guid = RefOf(q, n)
  BY DEF IInv, RefsUsed
<1>4. q = p /\ n = numRuns[p]
  BY <1>1, <1>2, <1>3, RefInjective
<1>5. QED BY <1>2, <1>3, <1>4

\* A commit of postTransfer is a transfer of the abstract bank.
LEMMA CommitIsTransfer ==
  ASSUME IInv, NEW p \in Procs, Commit(p),
         NEW f, NEW t, NEW r, f = arg[p].from, t = arg[p].to, r = arg[p].ref
  PROVE  r \in Refs /\ Abstract!Transfer(f, t, r)
<1> DEFINE bal == [c \in Accts |-> acn[c].bal]
<1>1. numRuns \in [Procs -> Nat] /\ acn \in [Accts -> [histSeq : Nat, bal : Int]]
  BY DEF IInv, TypeOK
<1>2. arg[p].ref = RefOf(p, numRuns[p]) /\ numRuns[p] < MaxRuns
  BY DEF IInv, ArgOK, Running, Commit
<1>3. arg[p].ref \in Refs
  BY <1>1, <1>2, BankAssumption DEF Refs
<1>4. arg[p].ref \notin {x.guid : x \in trn}
  BY CommitNewRef
<1>5. [c \in Accts |-> acn'[c].bal] = [bal EXCEPT ![f] = @ - Amt, ![t] = @ + Amt]
  <2>1. /\ f \in Accts /\ t \in Accts /\ f # t
        /\ acn' = [acn EXCEPT ![f] = [histSeq |-> acn[f].histSeq + 1, bal |-> acn[f].bal - Amt],
                              ![t] = [histSeq |-> acn[t].histSeq + 1, bal |-> acn[t].bal + Amt]]
    BY CommitAccounts
  <2>2. acn'[f].bal = bal[f] - Amt /\ acn'[t].bal = bal[t] + Amt
    BY <1>1, <2>1
  <2>3. ASSUME NEW c \in Accts, c # f, c # t PROVE acn'[c].bal = bal[c]
    BY <1>1, <2>1, <2>3
  <2>4. [bal EXCEPT ![f] = @ - Amt, ![t] = @ + Amt] =
          [c \in Accts |-> IF c = f THEN bal[f] - Amt ELSE IF c = t THEN bal[t] + Amt ELSE bal[c]]
    BY <2>1
  <2>5. ASSUME NEW c \in Accts
        PROVE  acn'[c].bal = IF c = f THEN bal[f] - Amt ELSE IF c = t THEN bal[t] + Amt ELSE bal[c]
    BY <2>1, <2>2, <2>3
  <2>6. QED BY <2>4, <2>5
<1>6. {x.guid : x \in trn'} = {x.guid : x \in trn} \cup {arg[p].ref}
  BY CommitLog
<1>7. f # t
  BY CommitAccounts
<1>8. QED BY <1>3, <1>4, <1>5, <1>6, <1>7 DEF Abstract!Transfer

\* The forked and the threaded program implement the abstract bank, for any
\* number of children, accounts and transfers: each step of postTransfer is
\* invisible, or moves one amount under a new reference.
THEOREM BankImplemented == Spec => Implements
<1>1. Init => Abstract!Init
  BY DEF Init, Abstract!Init
<1>2. ASSUME IInv, [Next]_vars PROVE [Abstract!Next]_(Abstract!bvars)
  <2>1. ASSUME NEW p \in Procs, Commit(p) PROVE Abstract!Next
    <3>1. PICK f, t, r : f = arg[p].from /\ t = arg[p].to /\ r = arg[p].ref
      OBVIOUS
    <3>2. f \in Accts /\ t \in Accts
      BY <1>2, <2>1, <3>1, CommitAccounts
    <3>3. r \in Refs /\ Abstract!Transfer(f, t, r)
      BY <1>2, <2>1, <3>1, CommitIsTransfer
    <3>4. QED BY <3>2, <3>3 DEF Abstract!Next
  <2>2. CASE UNCHANGED <<acn, hist, trn, numRuns>>
    BY <2>2 DEF Abstract!bvars
  <2>3. QED BY <1>2, <2>1, <2>2, OnlyCommit
<1>3. QED BY <1>1, <1>2, BankInvariant, PTL DEF Spec, Implements, Abstract!Spec

-----------------------------------------------------------------------------
(* Histories.                                                              *)

\* Hist_Save never overwrites: the keys that postTransfer sets are new.
LEMMA CommitHistory ==
  ASSUME IInv, HistoryMatches, NEW p \in Procs, Commit(p)
  PROVE  \E h1, h2 :
           /\ hist' = hist \cup {h1, h2}
           /\ h1.cid = arg[p].from /\ h1.histSeq = acn[arg[p].from].histSeq + 1
           /\ h1.endBal = acn[arg[p].from].bal - Amt
           /\ h2.cid = arg[p].to /\ h2.histSeq = acn[arg[p].to].histSeq + 1
           /\ h2.endBal = acn[arg[p].to].bal + Amt
<1> DEFINE f == arg[p].from
           t == arg[p].to
           h1 == [cid |-> f, histSeq |-> Debited(p).histSeq, amt |-> -Amt,
                  endBal |-> Debited(p).bal, user |-> arg[p].ref]
           h2 == [cid |-> t, histSeq |-> Credited(p).histSeq, amt |-> Amt,
                  endBal |-> Credited(p).bal, user |-> arg[p].ref]
<1>1. f \in Accts /\ t \in Accts /\ f # t /\ acn[f].histSeq \in Nat /\ acn[t].histSeq \in Nat
  BY CommitAccounts
<1>2. /\ h1.cid = f /\ h1.histSeq = acn[f].histSeq + 1 /\ h1.endBal = acn[f].bal - Amt
      /\ h2.cid = t /\ h2.histSeq = acn[t].histSeq + 1 /\ h2.endBal = acn[t].bal + Amt
  <2>1. Debited(p) = [cid |-> f, histSeq |-> acn[f].histSeq + 1, bal |-> acn[f].bal - Amt]
    BY CommitAccounts
  <2>2. Credited(p) = [cid |-> t, histSeq |-> acn[t].histSeq + 1, bal |-> acn[t].bal + Amt]
    BY CommitAccounts
  <2>3. Debited(p).histSeq = acn[f].histSeq + 1 /\ Debited(p).bal = acn[f].bal - Amt
    BY <2>1
  <2>4. Credited(p).histSeq = acn[t].histSeq + 1 /\ Credited(p).bal = acn[t].bal + Amt
    BY <2>2
  <2>5. QED BY <2>3, <2>4
<1>3. hist' = Hist_Save(Hist_Save(hist, h1), h2)
  BY DEF Commit, SavedHistory
<1> HIDE DEF h1, h2
<1>4. ASSUME NEW x \in hist PROVE HKey(x) # HKey(h1) /\ HKey(x) # HKey(h2)
  <2>1. x.cid = f => x.histSeq \in 1..acn[f].histSeq
    BY <1>1 DEF HistoryMatches
  <2>2. x.cid = t => x.histSeq \in 1..acn[t].histSeq
    BY <1>1 DEF HistoryMatches
  <2>3. QED BY <1>1, <1>2, <2>1, <2>2 DEF HKey
<1>5. HKey(h1) # HKey(h2)
  BY <1>1, <1>2 DEF HKey
<1>6. hist' = hist \cup {h1, h2}
  BY <1>3, <1>4, <1>5 DEF Hist_Save
<1>7. QED BY <1>2, <1>6

\* A commit of postTransfer appends one record to the history of each account.
LEMMA HistoryStep ==
  ASSUME IInv, HistoryMatches, [Next]_vars
  PROVE  HistoryMatches'
<1>1. ASSUME NEW p \in Procs, Commit(p) PROVE HistoryMatches'
  <2> DEFINE f == arg[p].from
             t == arg[p].to
  <2>1. PICK h1, h2 :
           /\ hist' = hist \cup {h1, h2}
           /\ h1.cid = f /\ h1.histSeq = acn[f].histSeq + 1 /\ h1.endBal = acn[f].bal - Amt
           /\ h2.cid = t /\ h2.histSeq = acn[t].histSeq + 1 /\ h2.endBal = acn[t].bal + Amt
    BY <1>1, CommitHistory
  <2>2. /\ f \in Accts /\ t \in Accts /\ f # t
        /\ acn[f].histSeq \in Nat /\ acn[t].histSeq \in Nat
        /\ acn' = [acn EXCEPT ![f] = [histSeq |-> acn[f].histSeq + 1, bal |-> acn[f].bal - Amt],
                              ![t] = [histSeq |-> acn[t].histSeq + 1, bal |-> acn[t].bal + Amt]]
    BY <1>1, CommitAccounts
  <2>3. acn \in [Accts -> [histSeq : Nat, bal : Int]]
    BY DEF IInv, TypeOK
  <2>4. /\ acn'[f].histSeq = acn[f].histSeq + 1 /\ acn'[f].bal = acn[f].bal - Amt
        /\ acn'[t].histSeq = acn[t].histSeq + 1 /\ acn'[t].bal = acn[t].bal + Amt
    BY <2>2, <2>3
  <2>5. ASSUME NEW c \in Accts, c # f, c # t PROVE acn'[c] = acn[c]
    BY <2>2, <2>3, <2>5
  <2> HIDE DEF f, t
  <2>6. ASSUME NEW c \in Accts, NEW h \in {h1, h2}, h.cid = c,
               acn[c].histSeq \in Nat, acn'[c].histSeq = acn[c].histSeq + 1,
               h.histSeq = acn'[c].histSeq, h.endBal = acn'[c].bal,
               \A g \in {h1, h2} : g.cid = c => g = h
        PROVE  /\ \A r \in hist' : r.cid = c => r.histSeq \in 1..acn'[c].histSeq
               /\ \A n \in 1..acn'[c].histSeq : \E r \in hist' : r.cid = c /\ r.histSeq = n
               /\ \A r \in hist' : HKey(r) = <<c, acn'[c].histSeq>> => r.endBal = acn'[c].bal
    <3>1. \A r \in hist' : r.cid = c => r = h \/ (r \in hist /\ r.histSeq \in 1..acn[c].histSeq)
      BY <2>1, <2>6 DEF HistoryMatches
    <3>2. \A r \in hist' : r.cid = c => r.histSeq \in 1..acn'[c].histSeq
      BY <3>1, <2>6
    <3>3. ASSUME NEW n \in 1..acn'[c].histSeq PROVE \E r \in hist' : r.cid = c /\ r.histSeq = n
      <4>1. CASE n = acn'[c].histSeq
        BY <4>1, <2>1, <2>6
      <4>2. CASE n # acn'[c].histSeq
        <5>1. n \in 1..acn[c].histSeq
          BY <4>2, <2>6
        <5>2. PICK r \in hist : r.cid = c /\ r.histSeq = n
          BY <5>1 DEF HistoryMatches
        <5>3. QED BY <5>2, <2>1
      <4>3. QED BY <4>1, <4>2
    <3>4. ASSUME NEW r \in hist', HKey(r) = <<c, acn'[c].histSeq>> PROVE r.endBal = acn'[c].bal
      <4>1. r.cid = c /\ r.histSeq = acn'[c].histSeq
        BY <3>4 DEF HKey
      <4>2. r = h
        BY <4>1, <3>1, <2>6
      <4>3. QED BY <4>2, <2>6
    <3>5. QED BY <3>2, <3>3, <3>4
  <2>7. ASSUME NEW c \in Accts, c # f, c # t
        PROVE  /\ \A r \in hist' : r.cid = c => r.histSeq \in 1..acn'[c].histSeq
               /\ \A n \in 1..acn'[c].histSeq : \E r \in hist' : r.cid = c /\ r.histSeq = n
               /\ \A r \in hist' : HKey(r) = <<c, acn'[c].histSeq>> => r.endBal = acn'[c].bal
    <3>1. acn'[c] = acn[c] /\ (\A r \in hist' : r.cid = c => r \in hist) /\ hist \subseteq hist'
      BY <2>1, <2>5, <2>7
    <3>2. QED BY <3>1 DEF HistoryMatches, HKey
  <2>8. ASSUME NEW c \in Accts
        PROVE  /\ \A r \in hist' : r.cid = c => r.histSeq \in 1..acn'[c].histSeq
               /\ \A n \in 1..acn'[c].histSeq : \E r \in hist' : r.cid = c /\ r.histSeq = n
               /\ \A r \in hist' : HKey(r) = <<c, acn'[c].histSeq>> => r.endBal = acn'[c].bal
    <3>1. CASE c = f
      <4>1. \A g \in {h1, h2} : g.cid = c => g = h1
        BY <3>1, <2>1, <2>2
      <4>2. QED BY <3>1, <4>1, <2>1, <2>2, <2>4, <2>6
    <3>2. CASE c = t
      <4>1. \A g \in {h1, h2} : g.cid = c => g = h2
        BY <3>2, <2>1, <2>2
      <4>2. QED BY <3>2, <4>1, <2>1, <2>2, <2>4, <2>6
    <3>3. QED BY <3>1, <3>2, <2>7
  <2>9. QED BY <2>8 DEF HistoryMatches, HKey
<1>2. CASE UNCHANGED <<acn, hist, trn, numRuns>>
  BY <1>2 DEF HistoryMatches, HKey
<1>3. QED BY OnlyCommit, <1>1, <1>2

\* The history of every account is without gaps, goes as far as the account's
\* own counter and ends with its balance, for any number of children: two
\* transactions that read one account in postTransfer never both commit.
THEOREM HistoriesMatch == Spec => []HistoryMatches
<1>1. Init => HistoryMatches
  <2>1. SUFFICES ASSUME Init, NEW c \in Accts
                 PROVE  /\ \A r \in hist : r.cid = c => r.histSeq \in 1..acn[c].histSeq
                        /\ \A n \in 1..acn[c].histSeq : \E r \in hist : r.cid = c /\ r.histSeq = n
                        /\ \A r \in hist : HKey(r) = <<c, acn[c].histSeq>> => r.endBal = acn[c].bal
    BY DEF HistoryMatches
  <2>2. acn[c].histSeq = 1 /\ acn[c].bal = StartBal
    BY <2>1 DEF Init
  <2>3. \A r \in hist : r.histSeq = 1 /\ r.endBal = StartBal
    BY <2>1 DEF Init
  <2>4. \E r \in hist : r.cid = c
    <3>1. [cid |-> c, histSeq |-> 1, amt |-> 0, endBal |-> StartBal, user |-> None] \in hist
      BY <2>1 DEF Init
    <3>2. QED BY <3>1
  <2>5. QED BY <2>2, <2>3, <2>4
<1>2. IInv /\ HistoryMatches /\ [Next]_vars => HistoryMatches'
  BY HistoryStep
<1>3. QED BY <1>1, <1>2, BankInvariant, PTL DEF Spec

-----------------------------------------------------------------------------
(* The log.                                                                *)

\* The runs that are over, as pairs of a child and the number of its run.
Done == {q \in Procs \X (0..MaxRuns) : q[2] < numRuns[q[1]]}

\* LogCounts with what its counting needs: both sets are finite.
LogInv == LogCounts /\ IsFiniteSet(trn) /\ IsFiniteSet(Done)

\* Trn_Save never overwrites: the log of pseudoBankDisp gets two new records.
LEMMA CommitRecords ==
  ASSUME IInv, NEW p \in Procs, Commit(p)
  PROVE  \E r1, r2 :
           /\ trn' = trn \cup {r1, r2} /\ r1 \notin trn /\ r2 \notin trn /\ r1 # r2
           /\ r1.guid = arg[p].ref /\ r1.tSeq = 1
           /\ r2.guid = arg[p].ref /\ r2.tSeq = 2
<1> DEFINE r1 == [guid |-> arg[p].ref, tSeq |-> 1, cid |-> arg[p].from, amt |-> -Amt, endBal |-> Debited(p).bal]
           r2 == [guid |-> arg[p].ref, tSeq |-> 2, cid |-> arg[p].from, amt |-> Amt, endBal |-> Debited(p).bal]
<1>1. trn' = Trn_Save(Trn_Save(trn, r1), r2)
  BY DEF Commit, SavedLog
<1>2. r1.guid = arg[p].ref /\ r2.guid = arg[p].ref /\ r1.tSeq = 1 /\ r2.tSeq = 2
  OBVIOUS
<1> HIDE DEF r1, r2
<1>3. \A x \in trn : x.guid # arg[p].ref
  BY CommitNewRef
<1>4. Trn_Save(trn, r1) = trn \cup {r1}
  BY <1>2, <1>3 DEF Trn_Save, TKey
<1>5. TKey(r1) # TKey(r2) /\ \A x \in trn : TKey(x) # TKey(r2)
  BY <1>2, <1>3 DEF TKey
<1>6. trn' = trn \cup {r1, r2}
  BY <1>1, <1>4, <1>5 DEF Trn_Save
<1>7. r1 \notin trn /\ r2 \notin trn /\ r1 # r2
  BY <1>2, <1>3
<1>8. QED BY <1>2, <1>6, <1>7

\* A commit ends one run of childThread.
LEMMA CommitRun ==
  ASSUME IInv, NEW p \in Procs, Commit(p)
  PROVE  Done' = Done \cup {<<p, numRuns[p]>>} /\ <<p, numRuns[p]>> \notin Done
<1>1. numRuns \in [Procs -> Nat] /\ numRuns[p] < MaxRuns /\ MaxRuns \in Nat
  BY BankAssumption DEF IInv, TypeOK, ArgOK, Running, Commit
<1>2. numRuns' = [numRuns EXCEPT ![p] = @ + 1]
  BY DEF Commit
<1>3. ASSUME NEW c \in Procs, NEW n \in 0..MaxRuns
      PROVE  n < numRuns'[c] <=> n < numRuns[c] \/ (c = p /\ n = numRuns[p])
  BY <1>1, <1>2
<1>4. ASSUME NEW q \in Procs \X (0..MaxRuns)
      PROVE  q[2] < numRuns'[q[1]] <=> q[2] < numRuns[q[1]] \/ q = <<p, numRuns[p]>>
  <2>1. PICK c \in Procs, n \in 0..MaxRuns : q = <<c, n>>
    OBVIOUS
  <2>2. q[1] = c /\ q[2] = n /\ (q = <<p, numRuns[p]>> <=> c = p /\ n = numRuns[p])
    BY <2>1
  <2>3. QED BY <1>3, <2>2
<1>5. <<p, numRuns[p]>> \in Procs \X (0..MaxRuns)
  BY <1>1
<1>6. QED BY <1>1, <1>4, <1>5 DEF Done

\* The references of the runs that are over, after a commit.
LEMMA CommitRefs ==
  ASSUME IInv, NEW p \in Procs, Commit(p)
  PROVE  UNION {{RefOf(q, n) : n \in 0..(numRuns'[q] - 1)} : q \in Procs}
           = (UNION {{RefOf(q, n) : n \in 0..(numRuns[q] - 1)} : q \in Procs}) \cup {arg[p].ref}
<1> DEFINE R(q) == {RefOf(q, n) : n \in 0..(numRuns[q] - 1)}
           S(q) == {RefOf(q, n) : n \in 0..(numRuns'[q] - 1)}
<1>1. numRuns \in [Procs -> Nat] /\ arg[p].ref = RefOf(p, numRuns[p])
  BY DEF IInv, TypeOK, ArgOK, Running, Commit
<1>2. numRuns' = [numRuns EXCEPT ![p] = @ + 1]
  BY DEF Commit
<1>3. S(p) = R(p) \cup {arg[p].ref}
  <2>1. numRuns[p] \in Nat /\ numRuns'[p] = numRuns[p] + 1
    BY <1>1, <1>2
  <2>2. 0..(numRuns'[p] - 1) = (0..(numRuns[p] - 1)) \cup {numRuns[p]}
    BY <2>1
  <2>3. QED BY <1>1, <2>2
<1>4. ASSUME NEW q \in Procs, q # p PROVE S(q) = R(q)
  BY <1>1, <1>2, <1>4
<1> HIDE DEF R, S
<1>5. ASSUME NEW x PROVE (\E q \in Procs : x \in S(q)) <=> (\E q \in Procs : x \in R(q)) \/ x = arg[p].ref
  BY <1>3, <1>4
<1>6. UNION {S(q) : q \in Procs} = (UNION {R(q) : q \in Procs}) \cup {arg[p].ref}
  <2>1. SUFFICES ASSUME NEW x
                 PROVE  x \in UNION {S(q) : q \in Procs} <=> x \in (UNION {R(q) : q \in Procs}) \cup {arg[p].ref}
    BY Zenon
  <2>2. /\ x \in UNION {S(q) : q \in Procs} <=> \E q \in Procs : x \in S(q)
        /\ x \in UNION {R(q) : q \in Procs} <=> \E q \in Procs : x \in R(q)
    BY Zenon
  <2>3. QED BY <1>5, <2>2
<1>7. QED BY <1>6 DEF R, S

\* A commit adds two records to ^ZTRNLOG and one run to the runs that are over.
LEMMA LogStep ==
  ASSUME IInv, LogInv, [Next]_vars
  PROVE  LogInv'
<1>1. ASSUME NEW p \in Procs, Commit(p) PROVE LogInv'
  <2>1. PICK r1, r2 :
           /\ trn' = trn \cup {r1, r2} /\ r1 \notin trn /\ r2 \notin trn /\ r1 # r2
           /\ r1.guid = arg[p].ref /\ r1.tSeq = 1
           /\ r2.guid = arg[p].ref /\ r2.tSeq = 2
    BY <1>1, CommitRecords
  <2>2. {r.guid : r \in trn'} = UNION {{RefOf(q, n) : n \in 0..(numRuns'[q] - 1)} : q \in Procs}
    <3>1. {r.guid : r \in trn} = UNION {{RefOf(q, n) : n \in 0..(numRuns[q] - 1)} : q \in Procs}
      BY DEF LogInv, LogCounts
    <3>2. {r.guid : r \in trn'} = {r.guid : r \in trn} \cup {arg[p].ref}
      BY <1>1, CommitLog
    <3>3. UNION {{RefOf(q, n) : n \in 0..(numRuns'[q] - 1)} : q \in Procs}
            = (UNION {{RefOf(q, n) : n \in 0..(numRuns[q] - 1)} : q \in Procs}) \cup {arg[p].ref}
      BY <1>1, CommitRefs
    <3>4. QED BY <3>1, <3>2, <3>3, Zenon
  <2>3. \A r \in trn' : \E q \in trn' : q.guid = r.guid /\ q.tSeq = 3 - r.tSeq
    <3>1. ASSUME NEW r \in trn PROVE \E q \in trn' : q.guid = r.guid /\ q.tSeq = 3 - r.tSeq
      BY <2>1 DEF LogInv, LogCounts
    <3>2. r1 \in trn' /\ r2 \in trn'
      BY <2>1
    <3>3. QED BY <2>1, <3>1, <3>2
  <2>4. IsFiniteSet(trn') /\ Cardinality(trn') = Cardinality(trn) + 2
    <3>1. /\ IsFiniteSet(trn \cup {r1}) /\ Cardinality(trn \cup {r1}) = Cardinality(trn) + 1
          /\ Cardinality(trn) \in Nat
      BY <2>1, FS_AddElement, FS_CardinalityType DEF LogInv
    <3>2. /\ IsFiniteSet((trn \cup {r1}) \cup {r2})
          /\ Cardinality((trn \cup {r1}) \cup {r2}) = Cardinality(trn \cup {r1}) + 1
      BY <2>1, <3>1, FS_AddElement
    <3>3. trn' = (trn \cup {r1}) \cup {r2}
      BY <2>1
    <3>4. QED BY <3>1, <3>2, <3>3
  <2>5. IsFiniteSet(Done') /\ Cardinality(Done') = Cardinality(Done) + 1 /\ Cardinality(Done) \in Nat
    <3>1. Done' = Done \cup {<<p, numRuns[p]>>} /\ <<p, numRuns[p]>> \notin Done
      BY <1>1, CommitRun
    <3>2. IsFiniteSet(Done)
      BY DEF LogInv
    <3>3. QED BY <3>1, <3>2, FS_AddElement, FS_CardinalityType
  <2>6. Cardinality(trn') = 2 * Cardinality(Done')
    BY <2>4, <2>5 DEF LogInv, LogCounts, Done
  <2>7. QED BY <2>2, <2>3, <2>4, <2>5, <2>6 DEF LogInv, LogCounts, Done, RefOf
<1>2. CASE UNCHANGED <<acn, hist, trn, numRuns>>
  BY <1>2 DEF LogInv, LogCounts, Done, RefOf
<1>3. QED BY OnlyCommit, <1>1, <1>2

\* ^ZTRNLOG holds the references of exactly the transfers that were done, each
\* with its two records and no more, for any number of children and transfers:
\* no child overwrites the log of another, and no restarted try is in it.
THEOREM LogComplete == Spec => []LogCounts
<1>1. Init => LogInv
  <2>1. SUFFICES ASSUME Init PROVE LogInv
    OBVIOUS
  <2>2. trn = {} /\ \A p \in Procs : numRuns[p] = 0
    BY <2>1 DEF Init
  <2>3. Done = {}
    <3>1. ASSUME NEW q \in Procs \X (0..MaxRuns) PROVE ~(q[2] < numRuns[q[1]])
      BY <2>2, BankAssumption
    <3>2. QED BY <3>1 DEF Done
  <2>4. UNION {{RefOf(p, n) : n \in 0..(numRuns[p] - 1)} : p \in Procs} = {}
    <3>1. \A p \in Procs : 0..(numRuns[p] - 1) = {}
      BY <2>2
    <3>2. QED BY <3>1
  <2>5. QED BY <2>2, <2>3, <2>4, FS_EmptySet DEF LogInv, LogCounts, Done
<1>2. IInv /\ LogInv /\ [Next]_vars => LogInv'
  BY LogStep
<1>3. LogInv => LogCounts
  BY DEF LogInv
<1>4. QED BY <1>1, <1>2, <1>3, BankInvariant, PTL DEF Spec
=============================================================================
