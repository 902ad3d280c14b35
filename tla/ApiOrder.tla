------------------------------ MODULE ApiOrder ------------------------------
(***************************************************************************)
(* The programs that test ydb_subscript_next_s, ydb_subscript_previous_s,  *)
(* ydb_node_next_s and ydb_node_previous_s, and the programs that call     *)
(* functions on an intrinsic special variable (src/simpleapi/inref), as    *)
(* scripts.                                                                *)
(***************************************************************************)
EXTENDS ApiValues

(* What the next and the previous programs differ in. *)
Forward(pre) == [fn |-> "ydb_subscript_next", other |-> pre \o "nextlv",
                 sub1 |-> "43", sub2 |-> "answer2"]
Backward(pre) == [fn |-> "ydb_subscript_previous", other |-> pre \o "aprevlv",
                  sub1 |-> "41", sub2 |-> "answar"]

-----------------------------------------------------------------------------
(* ydb_subscript_next_s and ydb_subscript_previous_s *)

\* A call past the end, which must leave the buffer of the answer alone.
AtEnd(call, ret) == <<KeepAt(ret, 0), call, If("NODEEND", SameAt(ret, 0))>>

\* n[k] subscripts are passed in the k-th call past the end.
SubsSimple(v, dir, n) ==
  LET step(var, k, exp) == Subscript(dir.fn, var, k, IF k = 0 THEN "" ELSE "subscr", "ret_value", exp)
      answer(k, s) == <<Must(step("basevar", k, "OK")), Prints("ret_value", s)>>
      end(k) == AtEnd(step("other", n[k + 1], "NODEEND"), "ret_value")
      set(var, k, subs, val) == Must(Set(var, k, subs, val, "OK"))
  IN SimpleDecl(v, "answer")
     \o <<Array("beside", 2), Lit("other", dir.other), LitAt("beside", 0, dir.sub1), LitAt("beside", 1, dir.sub2),
          Dim("ret_value"),
          set("basevar", 0, "", "value1"), set("other", 0, "", "value1"),
          set("basevar", 1, "subscr", "value2"), set("basevar", 1, "beside", "value2"),
          set("basevar", 2, "subscr", "value3"), CopyAt("beside", 0, "subscr", 0),
          set("basevar", 2, "beside", "value3")>>
     \o answer(0, dir.other) \o end(0)
     \o answer(1, dir.sub1) \o end(1)
     \o answer(2, dir.sub2) \o end(2)
     \o <<Zwrite(NodesOf(dir.other, {<<<<>>, V1>>})
                 @@ NodesOf(v, {<<<<>>, V1>>, <<<<"42">>, V2>>, <<<<dir.sub1>>, V2>>,
                                <<<<"42", "answer">>, V3>>, <<<<"42", dir.sub2>>, V3>>}))>>

gvnsubsnext1_simple == SubsSimple("^baselv", Forward("^"), <<0, 0, 0>>)
gvnsubsprev1_simple == SubsSimple("^baselv", Backward("^"), <<0, 0, 0>>)
lvnsubsnext1_simple == SubsSimple("baselv", Forward(""), <<0, 1, 2>>)
lvnsubsprev1_simple == SubsSimple("baselv", Backward(""), <<0, 0, 0>>)

\* The name, or the last subscript, replaced by its neighbour, the node set
\* to the number of its level, and the replacement undone (tmpsubs).
Replace(i, other) ==
  IF i = 0 THEN <<Copy("tmpsubs", "basevar"), Lit("basevar", other)>>
  ELSE <<CopyAt("tmpsubs", 0, "subsbuff", i - 1), CopyAt("subsbuff", i - 1, "subsbuff", i)>>

\* Mutant: only the name is restored.
RestoreName(i) ==
  IF i = 0 THEN <<Copy("basevar", "tmpsubs")>> ELSE <<>>

Restore(i) ==
  <<IF i = 0 THEN Copy("basevar", "tmpsubs") ELSE CopyAt("subsbuff", i - 1, "tmpsubs", 0)>>

SetBeside(i) ==
  <<Must(Call("ydb_set", "basevar", i, "subsbuff", <<"subsbuff", i>>, "", "", "OK"))>>

DeepBeside(v, other) ==
  [x \in {<<other>>} \cup {Append(Deep(v, i - 1, 0), ToString(i)) : i \in 1..31} |->
     IF x = <<other>> THEN "0" ELSE x[Len(x)]]

SubsNextDeep(v, dir) ==
  LET step(var, i, exp) == Subscript(dir.fn, var, i, "subsbuff", "ret_value", exp)
      one(i) == DeepSet(i) \o Replace(i, dir.other) \o SetBeside(i) \o Restore(i)
                \o <<Must(step("basevar", i, "OK")),
                     Prints("ret_value", IF i = 0 THEN dir.other ELSE ToString(i))>>
                \o AtEnd(step("other", i, "NODEEND"), "ret_value")
  IN <<SubsBuff, Lit("basevar", v), Lit("other", dir.other), Dim("ret_value")>>
     \o Loop(32, one) \o <<Zwrite(DeepNodes(v) @@ DeepBeside(v, dir.other))>>

\* The step is taken from the neighbour, before the replacement is undone.
SubsPrevDeep(v, dir) ==
  LET step(var, i, exp) == Subscript(dir.fn, var, i, "subsbuff", "ret_value", exp)
      back(i) == IF i = 0 THEN <<step("basevar", i, "NODEEND"),
                                 If("NODEEND", Field("ret_value", "used", 0))>>
                 ELSE <<Must(step("basevar", i, "OK"))>>
      one(i) == DeepSet(i) \o Replace(i, dir.other) \o SetBeside(i) \o back(i) \o Restore(i)
                \o <<Show("ret_value", IF i = 0 THEN "" ELSE ToString(i - 1))>>
                \o AtEnd(step("other", i, "NODEEND"), "ret_value")
  IN <<SubsBuff, Lit("basevar", v), Lit("other", dir.other), Dim("ret_value")>>
     \o Loop(32, one) \o <<Zwrite(DeepNodes(v) @@ DeepBeside(v, dir.other))>>

gvnsubsnext2_31subs == SubsNextDeep("^baselv", Forward("^"))
lvnsubsnext2_31subs == SubsNextDeep("baselv", Forward(""))
gvnsubsprev2_31subs == SubsPrevDeep("^baselv", Backward("^"))
lvnsubsprev2_31subs == SubsPrevDeep("baselv", Backward(""))

\* beyond is a name on the other side of basevar; alloc is a len_alloc that
\* is too small for the name of basevar.
SubsErrorArgs(pre, fn, beyond, alloc) ==
  LET bad(exp) == Subscript(fn, "badbasevar", 0, "", "ret_value", exp)
      base(n, subs, exp) == Subscript(fn, "basevar", n, subs, "ret_value", exp)
      step(ret, exp) == Subscript(fn, "beyond", 0, "", ret, exp)
  IN <<Lit("basevar", pre \o "baselv"), Lit("beyond", pre \o beyond)>> \o RetValueOver
     \o BadNames(pre, bad) \o BadCounts("x", base)
     \o <<Set("basevar", 0, "", "", "OK")>> \o NullRet
     \o <<base(0, "", "NODEEND"), Subscript(fn, "basevar", 0, "", "", "PARAMINVALID"),
          Set("basevar", 0, "", "save_ret_value", "OK"), step("", "PARAMINVALID")>> \o NullRet
     \o <<step("ret_value", "PARAMINVALID"),
          Copy("ret_value", "save_ret_value"), Field("ret_value", "alloc", alloc),
          RandomUsed("ret_value"), step("ret_value", "INVSTRLEN"),
          AllocIsUsed("ret_value"), step("ret_value", "OK"), Prints("ret_value", pre \o "baselv"),
          Subscript(fn, "basevar", 1, "", "ret_value", "SUBSARRAYNULL")>>

SubsErrorSubs(pre, fn) ==
  LET step(n, exp) == Subscript(fn, "basevar", n, "subscr32", "ret_value", exp)
      good == <<Set("basevar", 5, "subscr32", "ret_value", "OK"), step(5, "NODEEND"),
                If("NODEEND", Field("ret_value", "used", 0))>>
  IN <<Copy("ret_value", "save_ret_value")>>
     \o BadSubscripts(step(5, "PARAMINVALID"), good)
     \o <<step(2, "NODEEND"), Zwrite(LoopNodes(pre \o "baselv", V1, ""))>>

gvnsubsnext3_errors_args == SubsErrorArgs("^", "ydb_subscript_next", "aprevvar", 4)
gvnsubsnext3_errors_subs == SubsErrorSubs("^", "ydb_subscript_next")
gvnsubsprev3_errors_args == SubsErrorArgs("^", "ydb_subscript_previous", "nextvar", 5)
gvnsubsprev3_errors_subs == SubsErrorSubs("^", "ydb_subscript_previous")
lvnsubsnext3_errors_args == SubsErrorArgs("", "ydb_subscript_next", "aprevvar", 0)
lvnsubsnext3_errors_subs == SubsErrorSubs("", "ydb_subscript_next")
lvnsubsprev3_errors_args == SubsErrorArgs("", "ydb_subscript_previous", "nextvar", 0)
lvnsubsprev3_errors_subs == SubsErrorSubs("", "ydb_subscript_previous")

-----------------------------------------------------------------------------
(* ydb_node_next_s and ydb_node_previous_s: a is Argv("^") or Argv(""). *)
NodeDecl(a) ==
  <<Array("node2", 2), Array("ret_value2", 2),
    ArgvBuffer("basevar", a.x), Lit("value", "test"), Lit("node1", "1"), LitAt("node2", 0, "1"),
    LitAt("node2", 1, "2"), Lit("node3", "3"), Dim("ret_value1"), Over("ret_value2", 0, 64, ""),
    Over("ret_value2", 1, 64, "")>>

\* One step of the walk to a node with the given subscripts.
Step(fn, n, from, ret, subs) ==
  <<NodeStep(fn, "basevar", n, from, "sub", ret, "OK"), If("OK", IntIs("sub", Len(subs))),
    ShowSubs(ret, Len(subs) - 1, subs)>>

\* A step past the last node; buffer compared is checked to be unaltered.
LastStep(fn, n, from, ret, compared) ==
  <<RandomInt("sub"), KeepAt(compared, 0), NodeStep(fn, "basevar", n, from, "sub", ret, "NODEEND"),
    If("NODEEND", IntIs("sub", 0)), If("NODEEND", SameAt(compared, 0))>>

Grow(n, subs) == <<Must(Set("basevar", n, subs, "value", "OK"))>>

NextTo1(sub) == <<SetInt("sub", sub)>> \o Step("ydb_node_next", 0, "", "ret_value1", <<"1">>)
NextTo12 == <<SetInt("sub", 2)>> \o Step("ydb_node_next", 1, "ret_value1", "ret_value2", <<"1", "2">>)

\* cmp is the buffer compared after the steps that answer into ret_value2.
NextOfRoot(a, cmp) ==
  LET fn == "ydb_node_next" IN
  NodeDecl(a)
  \o Grow(0, "") \o LastStep(fn, 0, "", "ret_value1", "ret_value1")
  \o Grow(1, "node1") \o NextTo1(1) \o LastStep(fn, 1, "ret_value1", "ret_value2", cmp)

NextOfNodes(cmp) ==
  LET fn == "ydb_node_next" IN
  Grow(2, "node2") \o NextTo1(1) \o NextTo12
  \o LastStep(fn, 2, "ret_value2", "ret_value1", "ret_value1")
  \o Grow(1, "node3") \o NextTo1(1) \o NextTo12
  \o Step(fn, 2, "ret_value2", "ret_value1", <<"3">>)
  \o LastStep(fn, 1, "ret_value1", "ret_value2", cmp)

gvnlvnnodenext1_root(a) == NextOfRoot(a, "ret_value1")
gvnlvnnodenext1_nodes == NextOfNodes("ret_value1")

gvnlvnnodeprev1_root(a) ==
  LET fn == "ydb_node_previous" IN
  NodeDecl(a) \o <<Dim("ret_value3")>>
  \o Grow(0, "") \o LastStep(fn, 0, "", "ret_value1", "ret_value1")
  \o Grow(1, "node1") \o Step(fn, 1, "node1", "ret_value1", <<>>)
  \o LastStep(fn, 0, "", "ret_value1", "ret_value1")

gvnlvnnodeprev1_nodes ==
  LET fn == "ydb_node_previous"
      step(sub, n, from, ret, subs) == <<SetInt("sub", sub)>> \o Step(fn, n, from, ret, subs)
  IN Grow(2, "node2") \o step(1, 2, "node2", "ret_value2", <<"1">>)
     \o step(1, 1, "ret_value2", "ret_value1", <<>>)
     \o LastStep(fn, 0, "", "ret_value2", "ret_value2")
     \o Grow(1, "node3") \o step(2, 1, "node3", "ret_value2", <<"1", "2">>)
     \o step(1, 2, "ret_value2", "ret_value1", <<"1">>)
     \o step(0, 1, "ret_value1", "ret_value3", <<>>)
     \o LastStep(fn, 0, "", "ret_value2", "ret_value1")

\* One step of the walk over the chain of 32 nodes, from the node of level i
\* (its subscripts are in from) to the one of level to, if there is one.
DeepStep(fn, i, from, out, to) ==
  <<SetInt("sub", 32), KeepAt(out, i)>>
  \o (IF to \in 0..31
      THEN <<NodeStep(fn, "basevar", i, from, "sub", out, "OK"), If("OK", IntIs("sub", to)),
             ShowSubs(out, i, Tail(Deep("", to, 1)))>>
      ELSE <<NodeStep(fn, "basevar", i, from, "sub", out, "NODEEND"),
             If("NODEEND", IntIs("sub", 0)), If("NODEEND", SameAt(out, i))>>)

ArgvDeep(a) == <<SubsBuff, Array("ret_value1", 32), Array("ret_value2", 32),
                 ArgvBuffer("basevar", a.x), Lit("value", "test")>>

SetChain(i) == <<Must(Set("basevar", i, "subsbuff", "value", "OK"))>>

\* The loop that gives the buffers of ret_value1 and ret_value2 their characters runs
\* to MAX_SUBS, one more than there are.  What else the last round overwrites is not
\* followed: it gets a cell of its own, which no later statement uses.
gvnlvnnodenext2_31subs(a) ==
  LET dim(i) == <<Over("ret_value1", i, 64, ""), Over("ret_value2", i, 64, "")>>
      set(i) == <<Sprintf("subsbuff", i, i + 1)>> \o SetChain(i)
      one(i) == IF i % 2 = 1 THEN DeepStep("ydb_node_next", i, "ret_value2", "ret_value1", i + 1)
                ELSE DeepStep("ydb_node_next", i, "ret_value1", "ret_value2", i + 1)
  IN ArgvDeep(a) \o Loop(33, dim) \o Loop(32, set) \o Loop(32, one)

\* The same loop. ret_value1 and ret_value2 are redirected to the characters of subsbuff,
\* and keep their len_alloc of 64; even is the pair of arrays, passed and
\* answered into, of an even level.
NodePrevDeep(a, even) ==
  LET dim(i) == <<Over("ret_value1", i, 64, ""), Over("ret_value2", i, 64, "")>>
      alias(name, i) == <<FieldAt(name, i, "used", Len(ToString(i + 1))),
                          FieldAt(name, i, "addr", Cell("subsbuff", i))>>
      set(i) == <<Sprintf("subsbuff", i, i + 1)>> \o alias("ret_value1", i)
                \o alias("ret_value2", i) \o SetChain(i)
      one(j) == LET i == 31 - j IN
                IF i % 2 = 1 THEN DeepStep("ydb_node_previous", i, "ret_value2", "ret_value1", i - 1)
                ELSE DeepStep("ydb_node_previous", i, even[1], even[2], i - 1)
  IN ArgvDeep(a) \o Loop(33, dim) \o Loop(32, set) \o Loop(32, one)

gvnlvnnodeprev2_31subs(a) == NodePrevDeep(a, <<"ret_value1", "ret_value2">>)

\* A retry after INSUFFSUBS has the number of subscripts it needs, and finds
\* the buffer too short.
NodeErrors(a, C(_, _, _, _, _)) ==
  LET c(var, n, subs, exp) == C(var, n, subs, "ret_value", exp) IN
  ThreeArgv(a)
  \o <<Lit("value", "test"), Lit("node1", "1"), Over("ret_value", 0, 64, "test"),
       Over("bad_ret", 0, 1, ""), Field("bad_ret", "alloc", 0), Lit("emptyval", ""), SetInt("subs", 0)>>
  \o ArgvErrors(c)

NodeTooSmall(c1, c2) == <<SetInt("subs", 0), c1, If("INSUFFSUBS", IntIs("subs", 1)), c2>>

NullAnswers(c1, c2, c3) ==
  <<Set("basevar", 0, "", "", "OK")>> \o NullRet \o <<SetInt("subs", 1), c1, c2, c3, SetInt("subs", 1)>>

EmptyAnswer(c1, c2) ==
  <<Field("ret_value", "addr", NullAddress), Field("ret_value", "used", 0), c1,
    UsedIs("ret_value", 0), SetInt("subs", 1), c2>>

NextWith(cnt, var, n, subs, ret, exp) == NodeStep("ydb_node_next", var, n, subs, cnt, ret, exp)
PrevWith(cnt, var, n, subs, ret, exp) == NodeStep("ydb_node_previous", var, n, subs, cnt, ret, exp)

gvnlvnnodenext3_names(a) ==
  LET next(var, n, subs, ret, exp) == NextWith("subs", var, n, subs, ret, exp)
  IN NodeErrors(a, next) \o <<ArgvBuffer("nullvar", a.y)>>

gvnlvnnodenext3_answers ==
  LET first(ret, exp) == NextWith("subs", "basevar", 0, "", ret, exp) IN
  <<Set("basevar", 1, "node1", "value", "OK")>>
  \o NodeTooSmall(first("ret_value", "INSUFFSUBS"), first("bad_ret", "INVSTRLEN"))
  \o NullAnswers(first("ret_value", "PARAMINVALID"), first("", "PARAMINVALID"),
                 NextWith("", "basevar", 0, "", "ret_value", "PARAMINVALID"))
  \o <<Set("nullvar", 1, "emptyval", "value", "OK")>>
  \o EmptyAnswer(NextWith("subs", "nullvar", 0, "", "ret_value", "OK"),
                 NextWith("subs", "basevar", 1, "", "ret_value", "SUBSARRAYNULL"))

\* nullvar is a second copy of argv[2].
gvnlvnnodeprev3_names(a) ==
  LET prev(var, n, subs, ret, exp) == PrevWith("subs", var, n, subs, ret, exp)
  IN NodeErrors(a, prev) \o <<ArgvBuffer("nullvar", a.x), Lit("node2", "2")>>

gvnlvnnodeprev3_answers ==
  LET last(ret, exp) == PrevWith("subs", "basevar", 1, "node2", ret, exp) IN
  <<Set("basevar", 1, "node1", "value", "OK"), Set("basevar", 1, "node2", "value", "OK")>>
  \o NodeTooSmall(last("ret_value", "INSUFFSUBS"), last("bad_ret", "INVSTRLEN"))
  \o NullAnswers(last("ret_value", "PARAMINVALID"), last("", "PARAMINVALID"),
                 PrevWith("", "basevar", 0, "", "ret_value", "PARAMINVALID"))
  \o <<Set("nullvar", 0, "emptyval", "value", "OK")>>
  \o EmptyAnswer(PrevWith("subs", "nullvar", 1, "node1", "ret_value", "OK"),
                 PrevWith("subs", "basevar", 1, "", "ret_value", "SUBSARRAYNULL"))

-----------------------------------------------------------------------------
(* A function on an intrinsic special variable is refused. *)
OnISV(call) == <<Lit("basevar", "$ZGBLDIR"), Dim("ret_value"), SetInt("i", 0), call>>

isvdata1_errors == OnISV(Data("basevar", 0, "", "i", "UNIMPLOP"))
isvdelete1_errors == OnISV(Delete("basevar", 0, "", "YDB_DEL_NODE", "UNIMPLOP"))
isvincr1_errors == OnISV(Incr("basevar", 0, "", "", "ret_value", "UNIMPLOP"))
isvnodenext1_errors == OnISV(NodeStep("ydb_node_next", "basevar", 0, "", "i", "", "UNIMPLOP"))
isvnodeprev1_errors == OnISV(NodeStep("ydb_node_previous", "basevar", 0, "", "i", "", "UNIMPLOP"))
isvsubsnext1_errors == OnISV(Subscript("ydb_subscript_next", "basevar", 0, "", "ret_value", "UNIMPLOP"))
isvsubsprev1_errors == OnISV(Subscript("ydb_subscript_previous", "basevar", 0, "", "ret_value", "UNIMPLOP"))
=============================================================================
