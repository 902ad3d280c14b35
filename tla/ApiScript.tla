------------------------------ MODULE ApiScript ------------------------------
(***************************************************************************)
(* The statements the API test programs are made of. A program is a        *)
(* sequence of statements; printing and formatting are left out, except    *)
(* for what a program prints of an answer. The status the reference file   *)
(* lists for a call is part of the call (field exp).                       *)
(***************************************************************************)
EXTENDS SimpleApi
LOCAL INSTANCE SequencesExt

Ptr(name) == IF name = "" THEN NULL ELSE <<name, 0>>

(* F(0), ..., F(n - 1) one after the other. *)
Loop(n, F(_)) == FlattenSeq([i \in 1..n |-> F(i - 1)])

-----------------------------------------------------------------------------
(* Declarations and assignments of the C program. *)

\* ydb_buffer_t name[n]; a buffer that is no array has no declaration.
Array(name, n) == [k |-> "array", name |-> name, n |-> n]

\* YDB_LITERAL_TO_BUFFER(s, &name[i])
LitAt(name, i, s) == [k |-> "lit", p |-> <<name, i>>, s |-> s]
Lit(name, s) == LitAt(name, 0, s)

\* The char array a buffer is given.
Cell(name, i) == name \o ToString(i)

\* A buffer over a char array of the given size that holds s (len_used = Len(s)).
Over(name, i, size, s) == [k |-> "over", p |-> <<name, i>>, size |-> size, s |-> s]
Dim(name) == Over(name, 0, 64, "")

\* sprintf of a number and a zero byte into subsstrlit[i], with len_used = len_alloc
\* the length of the number.
Sprintf(name, i, n) == [k |-> "sprintf", p |-> <<name, i>>, s |-> ToString(n)]

FieldAt(name, i, f, v) == [k |-> "field", p |-> <<name, i>>, f |-> f, v |-> v]
Field(name, f, v) == FieldAt(name, 0, f, v)

\* A struct assignment.
CopyAt(name, i, from, j) == [k |-> "copy", p |-> <<name, i>>, q |-> <<from, j>>]
Copy(name, from) == CopyAt(name, 0, from, 0)

\* len_alloc = len_used
AllocIsUsed(name) == [k |-> "allocisused", p |-> <<name, 0>>]

SetInt(name, n) == [k |-> "int", name |-> name, n |-> n]

\* sub = 64 * drand48() and len_used = getpid() % 2: any of a few values.
RandomInt(name) == [k |-> "randomint", name |-> name]
RandomUsed(name) == [k |-> "randomused", p |-> <<name, 0>>]

\* The statement is run when the last status is code.
If(code, stmt) == [k |-> "if", code |-> code, then |-> stmt]

-----------------------------------------------------------------------------
(* What a program prints or compares. *)

\* buf_addr[len_used] = '\0', then the string is printed: the reference file shows s.
Show(name, s) == [k |-> "prints", p |-> <<name, 0>>, s |-> s]
Prints(name, s) == If("OK", Show(name, s))

\* The buffers 0..last of an array are terminated, and the first of them printed.
ShowSubs(name, last, subs) ==
  If("OK", [k |-> "printsubs", name |-> name, last |-> last, s |-> subs])

\* ret_test = len_used; memcpy(rettestbuff, ...), and the comparison with it.
KeepAt(name, i) == [k |-> "keep", p |-> <<name, i>>]
SameAt(name, i) == [k |-> "same", p |-> <<name, i>>]

UsedIs(name, n) == [k |-> "usedis", p |-> <<name, 0>>, n |-> n]
IntIs(name, n) == [k |-> "intis", name |-> name, n |-> n]

\* ydb_ci of gvnZWRITE or driveZWRITE: the reference file shows these nodes.
Zwrite(nodes) == [k |-> "zwrite", nodes |-> nodes]

-----------------------------------------------------------------------------
(* Calls of the library. *)
Call(fn, var, n, subs, arg, ret, cnt, exp) ==
  [k |-> "call", fn |-> fn, var |-> Ptr(var), n |-> n, subs |-> Ptr(subs),
   arg |-> arg, ret |-> Ptr(ret), cnt |-> cnt, exp |-> exp, stop |-> ""]

Set(var, n, subs, val, exp) == Call("ydb_set", var, n, subs, Ptr(val), "", "", exp)
Get(var, n, subs, ret, exp) == Call("ydb_get", var, n, subs, NULL, ret, "", exp)
Data(var, n, subs, cnt, exp) == Call("ydb_data", var, n, subs, NULL, "", cnt, exp)
Delete(var, n, subs, type, exp) == Call("ydb_delete", var, n, subs, type, "", "", exp)
Incr(var, n, subs, by, ret, exp) == Call("ydb_incr", var, n, subs, Ptr(by), ret, "", exp)
Subscript(fn, var, n, subs, ret, exp) == Call(fn, var, n, subs, NULL, ret, "", exp)
NodeStep(fn, var, n, subs, cnt, ret, exp) == Call(fn, var, n, subs, NULL, ret, cnt, exp)

\* The program returns when the status is another one.
MustBe(code, c) == [c EXCEPT !.stop = code]
Must(c) == MustBe("OK", c)

\* The same program with the functions of the threaded API: ydb_*_st with
\* token YDB_NOTTP, ydb_ci_t.
Threaded(script) ==
  [i \in DOMAIN script |->
     IF script[i].k = "call" THEN [script[i] EXCEPT !.k = "call_st"] ELSE script[i]]

-----------------------------------------------------------------------------
(* Pieces that many of the programs share. *)

\* subsbuff[MAX_SUBS + 1]
SubsBuff == Array("subsbuff", 33)

\* The node <<name, "0", ..., "n-1">> of the 31-subscript programs.
Deep(name, n, from) == <<name>> \o [i \in 1..n |-> ToString(i - 1 + from)]

NodesOf(name, pairs) == [x \in {<<name>> \o q[1] : q \in pairs} |->
                           (CHOOSE q \in pairs : x = <<name>> \o q[1])[2]]
=============================================================================
