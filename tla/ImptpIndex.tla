------------------------------ MODULE ImptpIndex ------------------------------
(***************************************************************************)
(* The indexes I of com/imptp.m and com/checkdb.m: powers of a primitive   *)
(* root of a prime field, dealt out to the jobs in turn.  Job jobno starts *)
(* with root^(jobno-1) and multiplies by nroot = root^jobcnt after every   *)
(* iteration.  A restart computes the index of iteration lasti+1 anew;     *)
(* checkdb computes the indexes of all jobs once more, in another way.     *)
(***************************************************************************)
EXTENDS Naturals

CONSTANTS prime, root, jobcnt

\* for J=1:1:n  set I=(I*m)#prime, from I=a.
Multiply(a, m, n) ==
    LET f[J \in 0 .. n] == IF J = 0 THEN a ELSE (f[J - 1] * m) % prime
    IN f[n]

(***************************************************************************)
(* prime is a prime number and root a primitive root of its field ("using  *)
(* primitive root of a field", "Precalculate primitive root for a prime"): *)
(* the code sets 50000017 and 5.                                           *)
(***************************************************************************)
ASSUME IndexAssumption ==
    /\ prime \in Nat \ {0, 1}
    /\ \A d \in 2 .. prime - 1 : prime % d # 0
    /\ root \in 1 .. prime - 1
    /\ \A x \in 1 .. prime - 1 : \E k \in 0 .. prime - 2 : Multiply(1, root, k) = x
    /\ jobcnt \in 2 .. prime - 1

VARIABLES
    loop,    \* loop[j]: iteration that job j is in
    I,       \* I[j]: its index
    used,    \* history: the <<index, job, iteration>> used so far
    check    \* <<jobno, loop, ival, I>>: how far checkdb is

indexVars == <<loop, I, used, check>>

Jobnos == 1 .. jobcnt

\* The default number of iterations of a job.
top == prime \div jobcnt

\* for J=1:1:jobcnt  set nroot=(nroot*root)#prime.
nroot == Multiply(1, root, jobcnt)

\* Mutant: the roots before job jobno are counted from 1, not from 2.
FirstIndexFrom1(jobno) == Multiply(1, root, jobno)

\* for J=2:1:jobno  set I=(I*root)#prime.
FirstIndex(jobno) == Multiply(1, root, jobno - 1)

\* Mutant: the iterations before the restart are counted one short.
IndexAfterShort(jobno, lasti) == Multiply(FirstIndex(jobno), nroot, IF lasti = 0 THEN 0 ELSE lasti - 1)

\* for J=1:1:lasti  set I=(I*nroot)#prime.
IndexAfter(jobno, lasti) == Multiply(FirstIndex(jobno), nroot, lasti)

IndexInit ==
    /\ loop = [j \in Jobnos |-> 1]
    /\ I = [j \in Jobnos |-> FirstIndex(j)]
    /\ used = {}
    /\ check = <<1, 1, 1, 1>>

-----------------------------------------------------------------------------

\* The updates of an iteration, and then set I=(I*nroot)#prime.
Iteration(j) ==
    /\ loop[j] <= top
    /\ used' = used \cup {<<I[j], j, loop[j]>>}
    /\ loop' = [loop EXCEPT ![j] = @ + 1]
    /\ I' = [I EXCEPT ![j] = (@ * nroot) % prime]
    /\ UNCHANGED check

\* Job j is started again, after the iteration that ^lasti names.
Restart(j) ==
    /\ \E lasti \in 0 .. loop[j] - 1 :
          /\ loop' = [loop EXCEPT ![j] = lasti + 1]
          /\ I' = [I EXCEPT ![j] = IndexAfter(j, lasti)]
    /\ UNCHANGED <<used, check>>

\* checkdb goes over the iterations of a job, and over the jobs.
CheckNext ==
    LET jobno == check[1]
        ival == (check[3] * root) % prime
    IN /\ jobno <= jobcnt
       /\ check' = IF check[2] < top
                   THEN <<jobno, check[2] + 1, check[3], (check[4] * nroot) % prime>>
                   ELSE <<jobno + 1, 1, ival, ival>>
       /\ UNCHANGED <<loop, I, used>>

IndexNext == CheckNext \/ \E j \in Jobnos : Iteration(j) \/ Restart(j)

IndexSpec == IndexInit /\ [][IndexNext]_indexVars

-----------------------------------------------------------------------------
(* Properties *)

\* Indexes are never 0 modulo prime, and no job goes beyond top iterations.
IndexTypeOK ==
    /\ loop \in [Jobnos -> 1 .. top + 1]
    /\ I \in [Jobnos -> 1 .. prime - 1]
    /\ used \subseteq (1 .. prime - 1) \X Jobnos \X (1 .. top)
    /\ check \in (1 .. jobcnt + 1) \X (1 .. top) \X (1 .. prime - 1) \X (1 .. prime - 1)

\* Two iterations, of one job or of two, never use one index, and an
\* iteration that is run again after a restart uses its old index: the nodes
\* of different iterations are different, as checkdb assumes.  (IndexTypeOK: none is 0.)
IndexIsIteration ==
    /\ IndexTypeOK
    /\ \A u, w \in used : u[1] = w[1] <=> (u[2] = w[2] /\ u[3] = w[3])

\* checkdb looks for an iteration under the index that the job used for it.
CheckdbAgrees ==
    \A u \in used : u[2] = check[1] /\ u[3] = check[2] => u[1] = check[4]
=============================================================================
