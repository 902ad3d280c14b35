------------------------------ MODULE ApiValues ------------------------------
(***************************************************************************)
(* The programs that test ydb_set_s, ydb_get_s, ydb_data_s, ydb_delete_s   *)
(* and ydb_incr_s (src/simpleapi/inref), as scripts. The programs for      *)
(* global and for local variables are copies that differ in the names: v   *)
(* is the name, or pre the "^" in front of it. The gvnlvn programs take    *)
(* the names as arguments (argv).                                          *)
(***************************************************************************)
EXTENDS ApiScript

(* What the u_inref scripts pass on the command line. *)
Argv(pre) == [x |-> pre \o "X", y |-> pre \o "Y",
              inv1 |-> pre \o "B%dbasevarInvChar",
              inv2 |-> pre \o "1namestartswithdigit",
              long |-> pre \o "Verylongbasevarthatexceedsmaxlength"]

V1 == "A question"
V2 == "One less than 43"
V3 == "Life, the universe, and everything"

-----------------------------------------------------------------------------
(* Sections shared by the error programs. *)

\* One call with each malformed name; C(exp) is the call on badbasevar.
BadNames(pre, C(_)) ==
  <<Lit("badbasevar", pre \o "B%dbasevarInvChar"), C("INVVARNAME"),
    Lit("badbasevar", pre \o "Verylongbasevarthatexceedsmaxlength"), C("VARNAME2LONG"),
    Lit("badbasevar", pre \o "1namestartswithdigit"), C("INVVARNAME")>>

Subscr32(s) == LET one(i) == <<LitAt("subscr32", i, s)>> IN <<Array("subscr32", 32)>> \o Loop(32, one)

\* 32 and -1 subscripts; C(n, subs, exp) is the call on basevar.
BadCounts(s, C(_, _, _)) ==
  Subscr32(s) \o <<C(32, "subscr32", "MAXNRSUBSCRIPTS"), C(-1, "", "MINNRSUBSCRIPTS")>>

\* The loop over subscripts 0 and 3: every combination of len_alloc,
\* len_used and buf_addr; bad is the call that must be refused, good the
\* statements for a subscript that must be taken.
BadSubscripts(bad, good) ==
  LET used(i, alloc, n) == <<FieldAt("subscr32", i, "alloc", alloc),
                             FieldAt("subscr32", i, "used", n)>>
      null(i, n) == <<FieldAt("subscr32", i, "addr", NullAddress),
                      FieldAt("subscr32", i, "used", n)>>
      one(cnt) == LET i == 3 * cnt IN
           <<CopyAt("save_subscr32", 0, "subscr32", i)>>
        \o used(i, 0, 2) \o <<bad>>
        \o used(i, 0, 0) \o good
        \o used(i, 1, 0) \o good
        \o used(i, 1, 1) \o good
        \o null(i, 1) \o <<bad>>
        \o null(i, 0) \o good
        \o <<CopyAt("subscr32", i, "save_subscr32", 0)>>
  IN Loop(2, one)

\* The nodes the loop leaves behind.
LoopNodes(v, root, s) ==
  NodesOf(v, {<<<<>>, root>>, <<<<"", "x", "x", "x", "x">>, s>>,
              <<<<"x", "x", "x", "", "x">>, s>>, <<<<"x", "x", "x", "x", "x">>, s>>})

-----------------------------------------------------------------------------
(* ydb_set_s *)
SimpleDecl(v, sub2) ==
  <<Array("subscr", 2), Lit("basevar", v), LitAt("subscr", 0, "42"), LitAt("subscr", 1, sub2),
    Lit("value1", V1), Lit("value2", V2), Lit("value3", V3)>>

ThreeSets == <<Must(Set("basevar", 0, "", "value1", "OK")),
               Must(Set("basevar", 1, "subscr", "value2", "OK")),
               Must(Set("basevar", 2, "subscr", "value3", "OK"))>>

ThreeNodes(v) ==
  NodesOf(v, {<<<<>>, V1>>, <<<<"42">>, V2>>, <<<<"42", "answer:">>, V3>>})

SetSimple(v) == SimpleDecl(v, "answer:") \o ThreeSets \o <<Zwrite(ThreeNodes(v))>>

\* subsbuff[subs] := subs, then the node of depth subs is set to it, or to
\* the empty string when subs is even (value NULL).
DeepSet(i) ==
  <<Sprintf("subsbuff", i, i),
    Must(Call("ydb_set", "basevar", i, "subsbuff",
              IF i % 2 = 1 THEN <<"subsbuff", i>> ELSE NULL, "", "", "OK"))>>

DeepValue(i) == IF i % 2 = 1 THEN ToString(i) ELSE ""

DeepNodes(v) == [x \in {Deep(v, i, 0) : i \in 0..31} |-> DeepValue(Len(x) - 1)]

SetDeep(v) == <<SubsBuff, Lit("basevar", v)>> \o Loop(32, DeepSet) \o <<Zwrite(DeepNodes(v))>>

SetErrorArgs(pre) ==
  LET bad(exp) == Set("badbasevar", 0, "", "value1", exp)
      set(n, subs, exp) == Set("basevar", n, subs, "value1", exp)
      value(alloc, used, exp) == <<Field("value1", "alloc", alloc),
                                   Field("value1", "used", used), set(0, "", exp)>>
      null(used, exp) == <<Field("value1", "addr", NullAddress),
                           Field("value1", "used", used), set(0, "", exp)>>
  IN <<Lit("basevar", pre \o "baselv"), Lit("value1", V1), Copy("save_value1", "value1")>>
     \o BadNames(pre, bad) \o BadCounts("x", set)
     \o value(0, 1, "PARAMINVALID") \o value(0, 0, "OK") \o value(1, 0, "OK")
     \o value(1, 1, "OK") \o null(1, "PARAMINVALID")
     \o <<Copy("value1", "save_value1")>> \o null(0, "OK")
     \o <<set(1, "", "SUBSARRAYNULL")>>

SetErrorSubs(pre) ==
  LET set(exp) == Set("basevar", 5, "subscr32", "value1", exp) IN
  <<Copy("value1", "save_value1")>>
  \o BadSubscripts(set("PARAMINVALID"), <<set("OK")>>)
  \o <<Zwrite(LoopNodes(pre \o "baselv", "", V1))>>

gvnset1_simple == SetSimple("^baselv")
lvnset1_simple == SetSimple("baselv")
gvnset2_31subs == SetDeep("^baselv")
lvnset2_31subs == SetDeep("baselv")
gvnset3_errors_args == SetErrorArgs("^")
gvnset3_errors_subs == SetErrorSubs("^")
lvnset3_errors_args == SetErrorArgs("")
lvnset3_errors_subs == SetErrorSubs("")

-----------------------------------------------------------------------------
(* ydb_get_s *)
GetSimple(v) ==
  SimpleDecl(v, "answer:") \o <<Dim("ret_value")>> \o ThreeSets
  \o <<Must(Get("basevar", 0, "", "ret_value", "OK")), Prints("ret_value", V1),
       Must(Get("basevar", 1, "subscr", "ret_value", "OK")), Prints("ret_value", V2),
       Must(Get("basevar", 2, "subscr", "ret_value", "OK")), Prints("ret_value", V3),
       Zwrite(ThreeNodes(v))>>

GetDeep(v) ==
  LET one(i) == DeepSet(i)
                \o <<Must(Get("basevar", i, "subsbuff", "ret_value", "OK")),
                     Prints("ret_value", DeepValue(i))>>
  IN <<SubsBuff, Lit("basevar", v), Dim("ret_value")>> \o Loop(32, one) \o <<Zwrite(DeepNodes(v))>>

\* Mutant: an array of 10 bytes, which leaves no room for the final zero byte.
RetValueOverShort == <<Over("ret_value", 0, 10, V1), Copy("save_ret_value", "ret_value")>>

\* ret_value starts with the characters of VALUE1; save_ret_value points to
\* the same array.
RetValueOver == <<Over("ret_value", 0, 64, V1), Copy("save_ret_value", "ret_value")>>

\* buf_addr = NULL and an arbitrary len_used.
NullRet == <<Field("ret_value", "addr", NullAddress), RandomUsed("ret_value")>>

GetErrorArgs(pre) ==
  LET bad(exp) == Get("badbasevar", 0, "", "ret_value", exp)
      get(n, subs, exp) == Get("basevar", n, subs, "ret_value", exp)
  IN <<Lit("basevar", pre \o "baselv")>> \o RetValueOver
     \o BadNames(pre, bad) \o BadCounts("x", get)

\* Only the program for globals gets an empty value first.
GetErrorEmpty ==
  <<Set("basevar", 0, "", "", "OK")>> \o NullRet
  \o <<Get("basevar", 0, "", "ret_value", "OK"), Get("basevar", 0, "", "", "PARAMINVALID")>>

\* alloc is a len_alloc that is too small for the value.
GetErrorReturn(alloc) ==
  LET get(ret, exp) == Get("basevar", 0, "", ret, exp) IN
  <<Set("basevar", 0, "", "save_ret_value", "OK"), get("", "PARAMINVALID")>>
  \o NullRet
  \o <<get("ret_value", "PARAMINVALID"),
       Copy("ret_value", "save_ret_value"), Field("ret_value", "alloc", alloc),
       RandomUsed("ret_value"), get("ret_value", "INVSTRLEN"),
       AllocIsUsed("ret_value"), get("ret_value", "OK"), Prints("ret_value", V1),
       Get("basevar", 1, "", "ret_value", "SUBSARRAYNULL")>>

GetErrorSubs(pre) ==
  LET get(n, exp) == Get("basevar", n, "subscr32", "ret_value", exp)
      good == <<Set("basevar", 5, "subscr32", "ret_value", "OK"), get(5, "OK")>>
  IN <<Copy("ret_value", "save_ret_value")>>
     \o BadSubscripts(get(5, "PARAMINVALID"), good)
     \o <<get(2, IF pre = "^" THEN "GVUNDEF" ELSE "LVUNDEF"),
          Zwrite(LoopNodes(pre \o "baselv", V1, V1))>>

gvnget1_simple == GetSimple("^baselv")
lvnget1_simple == GetSimple("baselv")
gvnget2_31subs == GetDeep("^baselv")
lvnget2_31subs == GetDeep("baselv")
gvnget3_errors_args == GetErrorArgs("^") \o GetErrorEmpty \o GetErrorReturn(3)
gvnget3_errors_subs == GetErrorSubs("^")
lvnget3_errors_args == GetErrorArgs("") \o GetErrorReturn(0)
lvnget3_errors_subs == GetErrorSubs("")

-----------------------------------------------------------------------------
(* ydb_data_s, ydb_delete_s and ydb_incr_s: a is Argv("^") or Argv(""). *)
ArgvBuffer(name, s) == Over(name, 0, 64, s)

ThreeArgv(a) ==
  <<ArgvBuffer("basevar", a.x), ArgvBuffer("badvar1", a.inv1),
    ArgvBuffer("badvar2", a.inv2), ArgvBuffer("badvar3", a.long)>>

\* The errors all three make first; C(var, n, subs, exp) is the call.
ArgvErrors(C(_, _, _, _)) ==
  LET count(n, subs, exp) == C("basevar", n, subs, exp) IN
  <<C("badvar1", 0, "", "INVVARNAME"), C("badvar2", 0, "", "INVVARNAME"),
    C("badvar3", 0, "", "VARNAME2LONG")>> \o BadCounts("subs", count)

\* subscr1 with len_used beyond len_alloc, then with buf_addr = NULL.
BadSubscr1(call) == <<Field("subscr1", "used", 2), call, Field("subscr1", "used", 1)>>
NullSubscr1(call) == <<Field("subscr1", "addr", NullAddress), call>>

Datas(subs, n) ==
  LET is(var, k) == <<Must(Data(var, 0, "", "ret_value", "OK")), IntIs("ret_value", k)>> IN
  is("var1", 0) \o <<Must(Set("var1", 0, "", "value", "OK"))>> \o is("var1", 1)
  \o <<Must(Set("var2", n, subs, "value", "OK"))>> \o is("var2", 10)
  \o <<Must(Set("var2", 0, "", "value", "OK"))>> \o is("var2", 11)

gvnlvndata1_simple(a) ==
  <<Lit("subscr", "1"), Lit("value", "test"), ArgvBuffer("var1", a.x), ArgvBuffer("var2", a.y)>>
  \o Datas("subscr", 1)

\* 31 empty subscripts; subsbuff[31] has len_used 32 and is never passed.
gvnlvndata2_31subs(a) ==
  LET empty(i) == <<Sprintf("subsbuff", i, 0),
                    FieldAt("subsbuff", i, "alloc", IF i = 31 THEN 32 ELSE 0),
                    FieldAt("subsbuff", i, "used", IF i = 31 THEN 32 ELSE 0)>>
  IN <<SubsBuff, Lit("value", "test"), ArgvBuffer("var1", a.x), ArgvBuffer("var2", a.y)>>
     \o Loop(32, empty) \o Datas("subsbuff", 31)

gvnlvndata3_errors(a) ==
  LET data(var, n, subs, exp) == Data(var, n, subs, "ret_value", exp) IN
  ThreeArgv(a)
  \o <<Lit("value", "test"), Lit("node1", "1"), Lit("subscr1", "1"),
       Set("basevar", 1, "node1", "value", "OK")>>
  \o ArgvErrors(data) \o <<Data("basevar", 0, "", "", "PARAMINVALID")>>
  \o BadSubscr1(data("basevar", 1, "subscr1", "PARAMINVALID"))
  \o NullSubscr1(data("basevar", 1, "subscr1", "PARAMINVALID"))
  \o <<data("basevar", 1, "", "SUBSARRAYNULL")>>

\* The tree that delete programs cut: nodes are given by their subscripts.
Tests(v, subs) == [x \in {<<v>> \o s : s \in subs} |-> "test"]

gvnlvndelete1_simple(a) ==
  LET set(n, subs) == Must(Set("basevar", n, subs, "value", "OK"))
      del(n, subs, type) == Must(Delete("basevar", n, subs, type, "OK"))
      shows(subs) == Zwrite(Tests(a.x, subs))
  IN <<Array("node12", 2), Lit("node1", "1"), LitAt("node12", 0, "1"), LitAt("node12", 1, "2"),
       Lit("node2", "2"), Lit("value", "test"), ArgvBuffer("basevar", a.x),
       set(0, ""), set(1, "node1"), set(2, "node12"), shows({<<>>, <<"1">>, <<"1", "2">>}),
       del(2, "node12", "YDB_DEL_NODE"), shows({<<>>, <<"1">>}), set(2, "node12"),
       del(0, "", "YDB_DEL_NODE"), shows({<<"1">>, <<"1", "2">>}), set(0, ""),
       del(0, "", "YDB_DEL_TREE"), shows({}),
       set(0, ""), set(1, "node1"), set(2, "node12"), set(1, "node2"),
       shows({<<>>, <<"1">>, <<"1", "2">>, <<"2">>}),
       del(1, "node1", "YDB_DEL_TREE"), shows({<<>>, <<"2">>})>>

\* A chain of 32 nodes, cut at depth 31, 16 and 1: the node alone, then, in
\* the other variable, the node with what is below it.
gvnlvndelete2_31subs(a) ==
  LET grow(i) == <<Sprintf("subsbuff", i, i), Must(Set("var1", i, "subsbuff", "value", "OK"))>>
      regrow(i) == <<Must(Set("var2", i, "subsbuff", "value", "OK"))>>
      del(var, n, type) == Must(Delete(var, n, "subsbuff", type, "OK"))
      shows(v, depths) == Zwrite([x \in {Deep(v, i, 0) : i \in depths} |-> "test"])
  IN <<SubsBuff, Lit("value", "test"), ArgvBuffer("var1", a.x), ArgvBuffer("var2", a.y)>>
     \o Loop(32, grow)
     \o <<shows(a.x, 0..31),
          del("var1", 31, "YDB_DEL_NODE"), shows(a.x, 0..30),
          del("var1", 16, "YDB_DEL_NODE"), shows(a.x, (0..30) \ {16}),
          del("var1", 1, "YDB_DEL_NODE"), shows(a.x, (0..30) \ {1, 16}),
          Must(Delete("var1", 0, "", "YDB_DEL_TREE", "OK"))>>
     \o Loop(32, regrow)
     \o <<shows(a.y, 0..31),
          del("var2", 31, "YDB_DEL_TREE"), shows(a.y, 0..30),
          del("var2", 16, "YDB_DEL_TREE"), shows(a.y, 0..15),
          del("var2", 1, "YDB_DEL_TREE"), shows(a.y, {0})>>

gvnlvndelete3_errors(a) ==
  LET del(var, n, subs, exp) == Delete(var, n, subs, "YDB_DEL_NODE", exp) IN
  ThreeArgv(a)
  \o <<Lit("value", "test"), Lit("subscr1", "1"), Set("basevar", 0, "", "value", "OK")>>
  \o ArgvErrors(del) \o <<Delete("basevar", 0, "", "YDB_DEL_NODE+100", "UNIMPLOP")>>
  \o BadSubscr1(del("basevar", 1, "subscr1", "PARAMINVALID"))
  \o NullSubscr1(del("basevar", 1, "subscr1", "PARAMINVALID"))
  \o <<del("basevar", 1, "", "SUBSARRAYNULL")>>

\* Increment by a literal (NULL is 1), then get: the reference file shows s.
Increments(by, s) ==
  <<Incr("basevar", 0, "", by, "ret_value", "OK"),
    Get("basevar", 0, "", "ret_value", "OK"), Prints("ret_value", s)>>

SetBase(val) == <<Set("basevar", 0, "", val, "OK")>>

gvnlvnincr1_unset(a) ==
  <<Lit("incr3", "3"), Lit("incrm1", "-1"), Lit("incrm4", "-4"), Lit("incr2abc", "2ABC"),
    Lit("incrm2abc", "-2ABC"), Lit("incrpure", "ABCD"), Lit("value6abc", "6ABC"),
    Lit("valuem6abc", "-6ABC"), Lit("valuepure", "EFGH"),
    ArgvBuffer("basevar", a.x), Dim("ret_value"),
    Get("basevar", 0, "", "ret_value", IF IsGlobal(a.x) THEN "GVUNDEF" ELSE "LVUNDEF")>>
  \o Increments("", "1") \o Increments("incr3", "4") \o Increments("incrm1", "3")

gvnlvnincr1_pure ==
  Increments("incrm4", "-1")
  \o SetBase("valuepure") \o Increments("", "1") \o Increments("incrpure", "1")
  \o SetBase("value6abc") \o Increments("incr2abc", "8")

gvnlvnincr1_mixed ==
  SetBase("value6abc") \o Increments("incrm2abc", "4")
  \o SetBase("valuem6abc") \o Increments("incr2abc", "-4")
  \o SetBase("valuem6abc") \o Increments("incrm2abc", "-8")

gvnlvnincr2_31subs(a) ==
  LET one(i) == <<Sprintf("subsbuff", i, i), Must(Set("basevar", i, "subsbuff", "value", "OK")),
                  Must(Incr("basevar", i, "subsbuff", "incr", "ret_value", "OK")),
                  Get("basevar", i, "subsbuff", "ret_value", "OK"), Prints("ret_value", "3")>>
  IN <<SubsBuff, ArgvBuffer("basevar", a.x), Dim("ret_value"), Lit("value", "1"), Lit("incr", "2")>>
     \o Loop(32, one)

gvnlvnincr3_args(a) ==
  LET incr(var, n, subs, exp) == Incr(var, n, subs, "", "ret_value", exp) IN
  ThreeArgv(a)
  \o <<ArgvBuffer("ofvar", a.y), Dim("ret_value"), Lit("subscr1", "1"), Lit("incr2", "2"),
       Lit("value1", "9"), Lit("incrof", "1E46"), Lit("valueof", "9E46")>>
  \o ArgvErrors(incr)

\* A result that does not fit, unreadable subscripts and increments, an
\* overflow that must leave the variable alone.
gvnlvnincr3_values ==
  LET incr(n, subs, by, exp) == Incr("basevar", n, subs, by, "ret_value", exp)
      badsub == incr(1, "subscr1", "", "PARAMINVALID")
      badby == incr(0, "", "incr2", "PARAMINVALID")
  IN <<Set("basevar", 0, "", "value1", "OK"), Field("ret_value", "alloc", 1),
       incr(0, "", "", "INVSTRLEN")>>
     \o BadSubscr1(badsub)
     \o <<Field("incr2", "used", 2), badby, Field("incr2", "used", 1)>>
     \o NullSubscr1(badsub)
     \o <<Field("incr2", "addr", NullAddress), badby,
          Set("ofvar", 0, "", "valueof", "OK"),
          Field("ret_value", "used", 4), Field("ret_value", "alloc", 4),
          Incr("ofvar", 0, "", "incrof", "ret_value", "NUMOFLOW"),
          Get("ofvar", 0, "", "ret_value", "OK"), Prints("ret_value", "9E46"),
          incr(1, "", "", "SUBSARRAYNULL")>>
=============================================================================
