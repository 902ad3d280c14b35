------------------------------- MODULE ApiTest -------------------------------
(***************************************************************************)
(* A run of one API test program: its statements one after the other. A    *)
(* call of the simple API is carried out at once; a call of the threaded   *)
(* API is handed to the worker thread of the library, which writes the     *)
(* buffers of the caller while the caller waits.                           *)
(***************************************************************************)
EXTENDS ApiScript

CONSTANTS
  Programs,      \* the scripts of the programs, by program and kind of variable
  RandomValues   \* what 64 * drand48() gives: a few of 0..63

ASSUME RandomAssumption == RandomValues \subseteq 0..63 /\ RandomValues # {}

VARIABLES
  prog,     \* the program that runs
  pc,       \* its next statement
  mem,      \* its memory
  db,       \* the local and global variables
  status,   \* the status of the last call
  kept,     \* ret_test and rettestbuff
  shown,    \* the last thing printed or compared, with what it must be
  worker    \* "idle", or "busy" with a call of the threaded API

vars == <<prog, pc, mem, db, status, kept, shown, worker>>

EmptyMemory == [buf |-> <<>>, elems |-> <<>>, store |-> <<>>, size |-> <<>>, int |-> <<>>]

Nothing == <<"", "">>

Init ==
  /\ prog \in DOMAIN Programs
  /\ pc = 1
  /\ mem = EmptyMemory
  /\ db = <<>>
  /\ status = "OK"
  /\ kept = Nothing
  /\ shown = Nothing
  /\ worker = "idle"

-----------------------------------------------------------------------------
Put(f, x, v) == (x :> v) @@ f

\* A buffer p of length n over the array a.
Point(m, p, a, size, s, alloc) ==
  [m EXCEPT !.buf = Put(@, p, [addr |-> a, alloc |-> alloc, used |-> Len(s)]),
            !.store = Put(@, a, s), !.size = Put(@, a, size)]

(* The memories an assignment may leave. *)
Assigned(m, s) ==
  CASE s.k = "array" -> {[m EXCEPT !.elems = Put(@, s.name, s.n)]}
    [] s.k = "lit" -> {Point(m, s.p, "literal " \o s.s, Len(s.s) + 1, s.s, Len(s.s))}
    [] s.k = "over" -> {Point(m, s.p, Cell(s.p[1], s.p[2]), s.size, s.s, s.size)}
    [] s.k = "sprintf" -> {Terminate(Point(m, s.p, Cell(s.p[1], s.p[2]), 3, s.s, Len(s.s)), s.p)}
    [] s.k = "field" -> {[m EXCEPT !.buf[s.p][s.f] = s.v]}
    [] s.k = "copy" -> {[m EXCEPT !.buf = Put(@, s.p, m.buf[s.q])]}
    [] s.k = "allocisused" -> {[m EXCEPT !.buf[s.p].alloc = m.buf[s.p].used]}
    [] s.k = "int" -> {[m EXCEPT !.int = Put(@, s.name, s.n)]}
    [] s.k = "randomint" -> {[m EXCEPT !.int = Put(@, s.name, n)] : n \in RandomValues}
    [] s.k = "randomused" -> {[m EXCEPT !.buf[s.p].used = n] : n \in {0, 1}}
    [] s.k = "skip" -> {m}

Assignments == {"array", "lit", "over", "sprintf", "field", "copy", "allocisused", "int",
                "randomint", "randomused", "skip"}

TerminateAll(m, name, last) ==
  LET step[i \in -1..last] == IF i = -1 THEN m ELSE Terminate(step[i - 1], <<name, i>>)
  IN step[last]

Content(m, p) == <<m.buf[p].used, Str(m, p)>>

(* What a statement prints or compares, and what it must be. *)
Shown(m, s) ==
  CASE s.k = "prints" -> <<Str(m, s.p), s.s>>
    [] s.k = "printsubs" -> <<[i \in DOMAIN s.s |-> Str(m, <<s.name, i - 1>>)], s.s>>
    [] s.k = "same" -> <<Content(m, s.p), kept>>
    [] s.k = "usedis" -> <<m.buf[s.p].used, s.n>>
    [] s.k = "intis" -> <<m.int[s.name], s.n>>
    [] s.k = "zwrite" -> <<db, s.nodes>>

Printing == {"prints", "printsubs", "same", "usedis", "intis", "zwrite"}

Printed(m, s) ==
  CASE s.k = "prints" -> Terminate(m, s.p)
    [] s.k = "printsubs" -> TerminateAll(m, s.name, s.last)
    [] OTHER -> m

-----------------------------------------------------------------------------
Script == Programs[prog]

Running == worker = "idle" /\ pc <= Len(Script)

\* The statement to run: an if whose condition fails assigns nothing.
Statement ==
  LET s == Script[pc] IN
  IF s.k # "if" THEN s ELSE IF s.code = status THEN s.then ELSE [k |-> "skip"]

AssignStep ==
  /\ Running
  /\ Statement.k \in Assignments
  /\ mem' \in Assigned(mem, Statement)
  /\ pc' = pc + 1
  /\ UNCHANGED <<prog, db, status, kept, shown, worker>>

Keep ==
  /\ Running
  /\ Statement.k = "keep"
  /\ kept' = Content(mem, Statement.p)
  /\ pc' = pc + 1
  /\ UNCHANGED <<prog, mem, db, status, shown, worker>>

PrintStep ==
  /\ Running
  /\ Statement.k \in Printing
  /\ shown' = Shown(mem, Statement)
  /\ mem' = Printed(mem, Statement)
  /\ pc' = pc + 1
  /\ UNCHANGED <<prog, db, status, kept, worker>>

\* A call returns: the program goes on, or ends when the status is not the
\* one it insists on.
Returns(c) ==
  \E o \in Outcomes(mem, db, c) :
    /\ status' = o.code
    /\ shown' = <<o.code, c.exp>>
    /\ mem' = o.mem
    /\ db' = o.db
    /\ pc' = IF c.stop \in {"", o.code} THEN pc + 1 ELSE Len(Script) + 1
    /\ UNCHANGED <<prog, kept>>

CallStep ==
  /\ Running
  /\ Statement.k = "call"
  /\ Returns(Statement)
  /\ UNCHANGED worker

\* ydb_*_st: the caller queues the request and waits for it.
Request ==
  /\ Running
  /\ Statement.k = "call_st"
  /\ worker' = "busy"
  /\ UNCHANGED <<prog, pc, mem, db, status, kept, shown>>

WorkerStep ==
  /\ worker = "busy"
  /\ Returns(Script[pc])
  /\ worker' = "idle"

Done ==
  /\ worker = "idle"
  /\ pc > Len(Script)
  /\ UNCHANGED vars

Next ==
  \/ AssignStep
  \/ Keep
  \/ PrintStep
  \/ CallStep
  \/ Request
  \/ WorkerStep
  \/ Done

Spec == Init /\ [][Next]_vars

-----------------------------------------------------------------------------
\* Types of the variables.
TypeOK ==
  /\ prog \in DOMAIN Programs
  /\ pc \in 1..(Len(Script) + 1)
  /\ worker \in {"idle", "busy"}
  /\ \A p \in DOMAIN mem.buf : mem.buf[p].used \in Nat /\ mem.buf[p].alloc \in Nat
  /\ DOMAIN mem.store = DOMAIN mem.size

\* Every status, every answer printed, every comparison and every ZWRITE is
\* the one the reference file of the test lists.
AsListed == shown[1] = shown[2]

\* The buffers a name was declared with.
Elements(name) == IF name \in DOMAIN mem.elems THEN mem.elems[name] ELSE 1

\* Nothing is written beyond what the program declared, whatever len_alloc and
\* *ret_subs_used claim: no buffer beyond its array, by the program or by an answer
\* of several subscripts, and no string or zero byte beyond its characters.
NoOverrun ==
  /\ TypeOK
  /\ \A p \in DOMAIN mem.buf : p[2] < Elements(p[1])
  /\ \A a \in DOMAIN mem.store : Len(mem.store[a]) <= mem.size[a]
=============================================================================
