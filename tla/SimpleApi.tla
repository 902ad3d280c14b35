------------------------------ MODULE SimpleApi ------------------------------
(***************************************************************************)
(* What the C programs of src/simpleapi and src/simplethreadapi see of     *)
(* libyottadb: buffers in C memory (ydb_buffer_t), local and global        *)
(* variables, and the functions ydb_set_s ... ydb_node_previous_s.         *)
(* The library itself is not part of the repository: its functions are     *)
(* modelled from the way the programs call them and from the outputs the   *)
(* outref files list.                                                      *)
(*                                                                         *)
(* C memory m is a record:                                                 *)
(*   m.buf    pointer -> ydb_buffer_t; a pointer is <<name, index>>        *)
(*   m.elems  name of an array -> the buffers declared                     *)
(*   m.store  address -> the characters kept there (NUL is the zero byte)  *)
(*   m.size   address -> the bytes the program reserved there              *)
(*   m.int    C integer -> value                                           *)
(* The variables d are a function from nodes, sequences of strings         *)
(* <<name, subscript, ...>>, to strings.                                   *)
(***************************************************************************)
EXTENDS Integers, Sequences, FiniteSets, TLC

NULL == <<>>
NullAddress == ""
NUL == "@"

(* The first n characters at the address of a buffer. *)
Str(m, p) ==
  LET b == m.buf[p] IN
  IF b.used = 0 THEN "" ELSE SubSeq(m.store[b.addr], 1, b.used)

(* Characters s written at an address: what was behind them stays there. *)
Overlay(old, s) == s \o SubSeq(old, Len(s) + 1, Len(old))

(* buf_addr[len_used] = '\0' *)
Terminate(m, p) ==
  LET b == m.buf[p]
      old == m.store[b.addr]
  IN [m EXCEPT !.store[b.addr] =
        SubSeq(old, 1, b.used) \o NUL \o SubSeq(old, b.used + 2, Len(old))]

-----------------------------------------------------------------------------
(* Names and subscripts in collation order, numbers first. *)
Collation ==
  <<"">> \o [i \in 1..44 |-> ToString(i - 1)]
         \o <<"answar", "answer", "answer2", "answer:", "subs", "x">>

VariableNames ==
  <<"X", "Y", "aprevlv", "aprevvar", "baselv", "nextlv", "nextvar",
    "^X", "^Y", "^aprevlv", "^aprevvar", "^baselv", "^nextlv", "^nextvar">>

Rank(s) == CHOOSE i \in DOMAIN Collation : Collation[i] = s

NameRank(s) == CHOOSE i \in DOMAIN VariableNames : VariableNames[i] = s

IsGlobal(name) == SubSeq(name, 1, 1) = "^"

(* An intrinsic special variable. *)
IsISV(name) == SubSeq(name, 1, 1) = "$"

(* A % in the middle of a name, or a digit in front. *)
MalformedNames ==
  {"^B%dbasevarInvChar", "B%dbasevarInvChar",
   "^1namestartswithdigit", "1namestartswithdigit"}

MaxNameLength == 31
MaxSubscripts == 31

NameTooLong(s) == Len(s) > MaxNameLength + (IF IsGlobal(s) THEN 1 ELSE 0)

(* Node a is visited before node b of the same variable: the first          *)
(* difference decides, and a node precedes its descendants.                *)
Precedes(a, b) ==
  \/ /\ Len(a) < Len(b)
     /\ SubSeq(b, 1, Len(a)) = a
  \/ \E i \in 2..Len(a) :
       /\ i <= Len(b)
       /\ SubSeq(a, 1, i - 1) = SubSeq(b, 1, i - 1)
       /\ Rank(a[i]) < Rank(b[i])

-----------------------------------------------------------------------------
(* The number a string is read as: its longest numeric prefix. *)
Num(s) ==
  LET prefixes == {i \in -20..40 :
                     LET t == ToString(i)
                     IN Len(t) <= Len(s) /\ SubSeq(s, 1, Len(t)) = t}
  IN IF prefixes = {} THEN 0
     ELSE CHOOSE i \in prefixes :
            \A j \in prefixes : Len(ToString(j)) <= Len(ToString(i))

(* Numbers whose sum is beyond what the database represents. *)
HugeNumbers == {"1E46", "9E46"}

-----------------------------------------------------------------------------
(* A buffer the library must read and cannot. *)
Unreadable(b) == b.used > 0 /\ (b.addr = NullAddress \/ b.used > b.alloc)

Result(code, m, d) == [code |-> code, mem |-> m, db |-> d]

Elem(p, i) == <<p[1], p[2] + i>>

(* The checks every function makes of the variable and the subscripts. *)
ArgumentError(m, c) ==
  LET name == Str(m, c.var) IN
  CASE name \in MalformedNames -> "INVVARNAME"
    [] NameTooLong(name) -> "VARNAME2LONG"
    [] c.n > MaxSubscripts -> "MAXNRSUBSCRIPTS"
    [] c.n < 0 -> "MINNRSUBSCRIPTS"
    [] c.n > 0 /\ c.subs = NULL -> "SUBSARRAYNULL"
    [] \E i \in 0..(c.n - 1) : Unreadable(m.buf[Elem(c.subs, i)]) -> "PARAMINVALID"
    [] IsISV(name) -> "UNIMPLOP"
    [] OTHER -> "OK"

Node(m, c) ==
  <<Str(m, c.var)>> \o [i \in 1..c.n |-> Str(m, Elem(c.subs, i - 1))]

(* A string returned in a buffer: INVSTRLEN leaves the needed length. *)
Return(m, d, p, s) ==
  LET b == m.buf[p] IN
  CASE b.addr = NullAddress /\ s # "" -> Result("PARAMINVALID", m, d)
    [] b.addr # NullAddress /\ Len(s) > b.alloc ->
         Result("INVSTRLEN", [m EXCEPT !.buf[p].used = Len(s)], d)
    [] b.addr = NullAddress -> Result("OK", [m EXCEPT !.buf[p].used = 0], d)
    [] OTHER ->
         Result("OK", [m EXCEPT !.buf[p].used = Len(s),
                                !.store[b.addr] = Overlay(@, s)], d)

SetCount(m, name, n) == [m EXCEPT !.int = (name :> n) @@ @]

Assign(d, node, s) == [x \in DOMAIN d \cup {node} |-> IF x = node THEN s ELSE d[x]]

Without(d, nodes) == [x \in DOMAIN d \ nodes |-> d[x]]

Below(d, node) ==
  {x \in DOMAIN d : Len(x) > Len(node) /\ SubSeq(x, 1, Len(node)) = node}

-----------------------------------------------------------------------------
(* The functions. Each is a set of outcomes; c.arg is the value, the       *)
(* increment or the kind of delete, c.ret the buffer that takes the        *)
(* answer, c.cnt the integer that takes it.                                *)
ydb_set(m, d, c) ==
  IF c.arg # NULL /\ Unreadable(m.buf[c.arg])
  THEN {Result("PARAMINVALID", m, d)}
  ELSE {Result("OK", m, Assign(d, Node(m, c), IF c.arg = NULL THEN "" ELSE Str(m, c.arg)))}

ydb_get(m, d, c) ==
  LET node == Node(m, c) IN
  IF c.ret = NULL THEN {Result("PARAMINVALID", m, d)}
  ELSE IF node \notin DOMAIN d
  THEN {Result(IF IsGlobal(node[1]) THEN "GVUNDEF" ELSE "LVUNDEF", m, d)}
  ELSE {Return(m, d, c.ret, d[node])}

ydb_data(m, d, c) ==
  LET node == Node(m, c)
      status == (IF node \in DOMAIN d THEN 1 ELSE 0)
                  + (IF Below(d, node) = {} THEN 0 ELSE 10)
  IN IF c.cnt = "" THEN {Result("PARAMINVALID", m, d)}
     ELSE {Result("OK", SetCount(m, c.cnt, status), d)}

ydb_delete(m, d, c) ==
  LET node == Node(m, c) IN
  CASE c.arg = "YDB_DEL_NODE" -> {Result("OK", m, Without(d, {node}))}
    [] c.arg = "YDB_DEL_TREE" -> {Result("OK", m, Without(d, {node} \cup Below(d, node)))}
    [] OTHER -> {Result("UNIMPLOP", m, d)}

(* The programs do not tell whether the increment is kept when its result  *)
(* does not fit the buffer: both may be.                                   *)
ydb_incr(m, d, c) ==
  LET node == Node(m, c)
      old == IF node \in DOMAIN d THEN d[node] ELSE ""
      by == IF c.arg = NULL THEN "1" ELSE Str(m, c.arg)
      new == ToString(Num(old) + Num(by))
      kept == Return(m, Assign(d, node, new), c.ret, new)
  IN IF c.arg # NULL /\ Unreadable(m.buf[c.arg])
     THEN {Result("PARAMINVALID", m, d)}
     ELSE IF {old, by} \subseteq HugeNumbers THEN {Result("NUMOFLOW", m, d)}
     ELSE IF kept.code = "OK" THEN {kept}
     ELSE {kept, [kept EXCEPT !.db = d]}

(* The neighbour of the last subscript, or of the name, on its level. *)
Siblings(d, node) ==
  {x[Len(node)] : x \in {y \in DOMAIN d : /\ Len(y) >= Len(node)
                                          /\ SubSeq(y, 1, Len(node) - 1) = SubSeq(node, 1, Len(node) - 1)
                                          /\ IsGlobal(y[1]) = IsGlobal(node[1])}}

NeighbourOf(d, node, forward) ==
  LET rank(s) == IF Len(node) = 1 THEN NameRank(s) ELSE Rank(s)
      here == rank(node[Len(node)])
      ahead == {s \in Siblings(d, node) : IF forward THEN rank(s) > here ELSE rank(s) < here}
  IN IF ahead = {} THEN {}
     ELSE {CHOOSE s \in ahead :
             \A t \in ahead : IF forward THEN rank(s) <= rank(t) ELSE rank(s) >= rank(t)}

ydb_subscript(m, d, c, forward) ==
  LET found == NeighbourOf(d, Node(m, c), forward) IN
  IF c.ret = NULL THEN {Result("PARAMINVALID", m, d)}
  ELSE IF found = {} THEN {Result("NODEEND", m, d)}
  ELSE {Return(m, d, c.ret, s) : s \in found}

(* The neighbour of a node in the walk over its variable. *)
NodeBeside(d, node, forward) ==
  LET ahead == {x \in DOMAIN d : /\ x[1] = node[1]
                                 /\ IF forward THEN Precedes(node, x) ELSE Precedes(x, node)}
  IN {x \in ahead : \A y \in ahead \ {x} : IF forward THEN Precedes(x, y) ELSE Precedes(y, x)}

(* The first k subscripts of a node returned one by one: the first that    *)
(* cannot be returned ends the call.                                       *)
ReturnSubscripts(m, d, c, node) ==
  LET step[k \in 0..(Len(node) - 1)] ==
        IF k = 0 THEN Result("OK", m, d)
        ELSE LET before == step[k - 1] IN
             IF before.code # "OK" THEN before
             ELSE Return(before.mem, d, Elem(c.ret, k - 1), node[k + 1])
      all == step[Len(node) - 1]
  IN IF all.code = "OK" THEN [all EXCEPT !.mem = SetCount(@, c.cnt, Len(node) - 1)] ELSE all

ydb_node(m, d, c, forward) ==
  LET found == NodeBeside(d, Node(m, c), forward) IN
  IF c.cnt = "" \/ c.ret = NULL THEN {Result("PARAMINVALID", m, d)}
  ELSE IF found = {} THEN {Result("NODEEND", SetCount(m, c.cnt, 0), d)}
  ELSE {IF Len(x) - 1 > m.int[c.cnt]
        THEN Result("INSUFFSUBS", SetCount(m, c.cnt, Len(x) - 1), d)
        ELSE ReturnSubscripts(m, d, c, x) : x \in found}

(* One call: the common checks, then the function. *)
Outcomes(m, d, c) ==
  LET error == ArgumentError(m, c) IN
  IF error # "OK" THEN {Result(error, m, d)}
  ELSE CASE c.fn = "ydb_set" -> ydb_set(m, d, c)
         [] c.fn = "ydb_get" -> ydb_get(m, d, c)
         [] c.fn = "ydb_data" -> ydb_data(m, d, c)
         [] c.fn = "ydb_delete" -> ydb_delete(m, d, c)
         [] c.fn = "ydb_incr" -> ydb_incr(m, d, c)
         [] c.fn = "ydb_subscript_next" -> ydb_subscript(m, d, c, TRUE)
         [] c.fn = "ydb_subscript_previous" -> ydb_subscript(m, d, c, FALSE)
         [] c.fn = "ydb_node_next" -> ydb_node(m, d, c, TRUE)
         [] c.fn = "ydb_node_previous" -> ydb_node(m, d, c, FALSE)
=============================================================================
