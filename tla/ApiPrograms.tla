---------------------------- MODULE ApiPrograms -----------------------------
(***************************************************************************)
(* The API test programs of src/simplethreadapi/inref, copies of those of  *)
(* src/simpleapi/inref that call ydb_*_st with token YDB_NOTTP, and the    *)
(* table of all programs.                                                  *)
(***************************************************************************)
EXTENDS ApiOrder

gvnset1_simple_st == Threaded(gvnset1_simple)
lvnset1_simple_st == Threaded(lvnset1_simple)
gvnset2_31subs_st == Threaded(gvnset2_31subs)
lvnset2_31subs_st == Threaded(lvnset2_31subs)
gvnget1_simple_st == Threaded(gvnget1_simple)
lvnget1_simple_st == Threaded(lvnget1_simple)
gvnget2_31subs_st == Threaded(gvnget2_31subs)
lvnget2_31subs_st == Threaded(lvnget2_31subs)
gvnsubsnext1_simple_st == Threaded(gvnsubsnext1_simple)
gvnsubsprev1_simple_st == Threaded(gvnsubsprev1_simple)
lvnsubsprev1_simple_st == Threaded(lvnsubsprev1_simple)
gvnsubsnext2_31subs_st == Threaded(gvnsubsnext2_31subs)
lvnsubsnext2_31subs_st == Threaded(lvnsubsnext2_31subs)
gvnsubsprev2_31subs_st == Threaded(gvnsubsprev2_31subs)
lvnsubsprev2_31subs_st == Threaded(lvnsubsprev2_31subs)
isvdata1_errors_st == Threaded(isvdata1_errors)
isvdelete1_errors_st == Threaded(isvdelete1_errors)
isvincr1_errors_st == Threaded(isvincr1_errors)
isvnodenext1_errors_st == Threaded(isvnodenext1_errors)
isvnodeprev1_errors_st == Threaded(isvnodeprev1_errors)
isvsubsnext1_errors_st == Threaded(isvsubsnext1_errors)
isvsubsprev1_errors_st == Threaded(isvsubsprev1_errors)
gvnset3_errors_args_st == Threaded(gvnset3_errors_args)
gvnset3_errors_subs_st == Threaded(gvnset3_errors_subs)
lvnset3_errors_args_st == Threaded(lvnset3_errors_args)
lvnset3_errors_subs_st == Threaded(lvnset3_errors_subs)
gvnget3_errors_args_st == Threaded(gvnget3_errors_args)
gvnget3_errors_subs_st == Threaded(gvnget3_errors_subs)
lvnget3_errors_args_st == Threaded(lvnget3_errors_args)
lvnget3_errors_subs_st == Threaded(lvnget3_errors_subs)
gvnsubsnext3_errors_args_st == Threaded(gvnsubsnext3_errors_args)
gvnsubsnext3_errors_subs_st == Threaded(gvnsubsnext3_errors_subs)
gvnsubsprev3_errors_args_st == Threaded(gvnsubsprev3_errors_args)
gvnsubsprev3_errors_subs_st == Threaded(gvnsubsprev3_errors_subs)
lvnsubsnext3_errors_args_st == Threaded(lvnsubsnext3_errors_args)
lvnsubsnext3_errors_subs_st == Threaded(lvnsubsnext3_errors_subs)
lvnsubsprev3_errors_args_st == Threaded(lvnsubsprev3_errors_args)
lvnsubsprev3_errors_subs_st == Threaded(lvnsubsprev3_errors_subs)
gvnlvndata1_simple_st(a) == Threaded(gvnlvndata1_simple(a))
gvnlvndata2_31subs_st(a) == Threaded(gvnlvndata2_31subs(a))
gvnlvndata3_errors_st(a) == Threaded(gvnlvndata3_errors(a))
gvnlvndelete1_simple_st(a) == Threaded(gvnlvndelete1_simple(a))
gvnlvndelete2_31subs_st(a) == Threaded(gvnlvndelete2_31subs(a))
gvnlvndelete3_errors_st(a) == Threaded(gvnlvndelete3_errors(a))
gvnlvnincr2_31subs_st(a) == Threaded(gvnlvnincr2_31subs(a))
gvnlvnnodeprev1_root_st(a) == Threaded(gvnlvnnodeprev1_root(a))
gvnlvnnodeprev1_nodes_st == Threaded(gvnlvnnodeprev1_nodes)
gvnlvnnodenext2_31subs_st(a) == Threaded(gvnlvnnodenext2_31subs(a))
gvnlvnnodenext3_names_st(a) == Threaded(gvnlvnnodenext3_names(a))
gvnlvnnodenext3_answers_st == Threaded(gvnlvnnodenext3_answers)
gvnlvnnodeprev3_names_st(a) == Threaded(gvnlvnnodeprev3_names(a))
gvnlvnnodeprev3_answers_st == Threaded(gvnlvnnodeprev3_answers)
gvnlvnincr1_unset_st(a) == Threaded(gvnlvnincr1_unset(a))
gvnlvnincr1_pure_st == Threaded(gvnlvnincr1_pure)
gvnlvnincr1_mixed_st == Threaded(gvnlvnincr1_mixed)
gvnlvnincr3_args_st(a) == Threaded(gvnlvnincr3_args(a))
gvnlvnincr3_values_st == Threaded(gvnlvnincr3_values)

\* Copies that differ: the calls past the end pass no subscripts, the buffer
\* compared is the one of the answer, the arrays of even levels are swapped.
lvnsubsnext1_simple_st == Threaded(SubsSimple("baselv", Forward(""), <<0, 0, 0>>))
gvnlvnnodenext1_root_st(a) == Threaded(NextOfRoot(a, "ret_value2"))
gvnlvnnodenext1_nodes_st == Threaded(NextOfNodes("ret_value2"))
gvnlvnnodeprev2_31subs_st(a) == Threaded(NodePrevDeep(a, <<"ret_value2", "ret_value1">>))

-----------------------------------------------------------------------------
(* A program without arguments, and one that the tests run with the names   *)
(* of globals (a program id ending in "^") and of locals.                   *)
PlainPrograms ==
  [gvnset1_simple |-> gvnset1_simple,
   gvnset1_simple_st |-> gvnset1_simple_st,
   lvnset1_simple |-> lvnset1_simple,
   lvnset1_simple_st |-> lvnset1_simple_st,
   gvnset2_31subs |-> gvnset2_31subs,
   gvnset2_31subs_st |-> gvnset2_31subs_st,
   lvnset2_31subs |-> lvnset2_31subs,
   lvnset2_31subs_st |-> lvnset2_31subs_st,
   gvnget1_simple |-> gvnget1_simple,
   gvnget1_simple_st |-> gvnget1_simple_st,
   lvnget1_simple |-> lvnget1_simple,
   lvnget1_simple_st |-> lvnget1_simple_st,
   gvnget2_31subs |-> gvnget2_31subs,
   gvnget2_31subs_st |-> gvnget2_31subs_st,
   lvnget2_31subs |-> lvnget2_31subs,
   lvnget2_31subs_st |-> lvnget2_31subs_st,
   gvnsubsnext1_simple |-> gvnsubsnext1_simple,
   gvnsubsnext1_simple_st |-> gvnsubsnext1_simple_st,
   gvnsubsprev1_simple |-> gvnsubsprev1_simple,
   gvnsubsprev1_simple_st |-> gvnsubsprev1_simple_st,
   lvnsubsprev1_simple |-> lvnsubsprev1_simple,
   lvnsubsprev1_simple_st |-> lvnsubsprev1_simple_st,
   gvnsubsnext2_31subs |-> gvnsubsnext2_31subs,
   gvnsubsnext2_31subs_st |-> gvnsubsnext2_31subs_st,
   lvnsubsnext2_31subs |-> lvnsubsnext2_31subs,
   lvnsubsnext2_31subs_st |-> lvnsubsnext2_31subs_st,
   gvnsubsprev2_31subs |-> gvnsubsprev2_31subs,
   gvnsubsprev2_31subs_st |-> gvnsubsprev2_31subs_st,
   lvnsubsprev2_31subs |-> lvnsubsprev2_31subs,
   lvnsubsprev2_31subs_st |-> lvnsubsprev2_31subs_st,
   isvdata1_errors |-> isvdata1_errors,
   isvdata1_errors_st |-> isvdata1_errors_st,
   isvdelete1_errors |-> isvdelete1_errors,
   isvdelete1_errors_st |-> isvdelete1_errors_st,
   isvincr1_errors |-> isvincr1_errors,
   isvincr1_errors_st |-> isvincr1_errors_st,
   isvnodenext1_errors |-> isvnodenext1_errors,
   isvnodenext1_errors_st |-> isvnodenext1_errors_st,
   isvnodeprev1_errors |-> isvnodeprev1_errors,
   isvnodeprev1_errors_st |-> isvnodeprev1_errors_st,
   isvsubsnext1_errors |-> isvsubsnext1_errors,
   isvsubsnext1_errors_st |-> isvsubsnext1_errors_st,
   isvsubsprev1_errors |-> isvsubsprev1_errors,
   isvsubsprev1_errors_st |-> isvsubsprev1_errors_st,
   lvnsubsnext1_simple |-> lvnsubsnext1_simple,
   lvnsubsnext1_simple_st |-> lvnsubsnext1_simple_st,
   gvnset3_errors |-> gvnset3_errors_args \o gvnset3_errors_subs,
   gvnset3_errors_st |-> gvnset3_errors_args_st \o gvnset3_errors_subs_st,
   lvnset3_errors |-> lvnset3_errors_args \o lvnset3_errors_subs,
   lvnset3_errors_st |-> lvnset3_errors_args_st \o lvnset3_errors_subs_st,
   gvnget3_errors |-> gvnget3_errors_args \o gvnget3_errors_subs,
   gvnget3_errors_st |-> gvnget3_errors_args_st \o gvnget3_errors_subs_st,
   lvnget3_errors |-> lvnget3_errors_args \o lvnget3_errors_subs,
   lvnget3_errors_st |-> lvnget3_errors_args_st \o lvnget3_errors_subs_st,
   gvnsubsnext3_errors |-> gvnsubsnext3_errors_args \o gvnsubsnext3_errors_subs,
   gvnsubsnext3_errors_st |-> gvnsubsnext3_errors_args_st \o gvnsubsnext3_errors_subs_st,
   gvnsubsprev3_errors |-> gvnsubsprev3_errors_args \o gvnsubsprev3_errors_subs,
   gvnsubsprev3_errors_st |-> gvnsubsprev3_errors_args_st \o gvnsubsprev3_errors_subs_st,
   lvnsubsnext3_errors |-> lvnsubsnext3_errors_args \o lvnsubsnext3_errors_subs,
   lvnsubsnext3_errors_st |-> lvnsubsnext3_errors_args_st \o lvnsubsnext3_errors_subs_st,
   lvnsubsprev3_errors |-> lvnsubsprev3_errors_args \o lvnsubsprev3_errors_subs,
   lvnsubsprev3_errors_st |-> lvnsubsprev3_errors_args_st \o lvnsubsprev3_errors_subs_st]

ArgvPrograms(a) ==
  [gvnlvndata1_simple |-> gvnlvndata1_simple(a),
   gvnlvndata1_simple_st |-> gvnlvndata1_simple_st(a),
   gvnlvndata2_31subs |-> gvnlvndata2_31subs(a),
   gvnlvndata2_31subs_st |-> gvnlvndata2_31subs_st(a),
   gvnlvndata3_errors |-> gvnlvndata3_errors(a),
   gvnlvndata3_errors_st |-> gvnlvndata3_errors_st(a),
   gvnlvndelete1_simple |-> gvnlvndelete1_simple(a),
   gvnlvndelete1_simple_st |-> gvnlvndelete1_simple_st(a),
   gvnlvndelete2_31subs |-> gvnlvndelete2_31subs(a),
   gvnlvndelete2_31subs_st |-> gvnlvndelete2_31subs_st(a),
   gvnlvndelete3_errors |-> gvnlvndelete3_errors(a),
   gvnlvndelete3_errors_st |-> gvnlvndelete3_errors_st(a),
   gvnlvnincr2_31subs |-> gvnlvnincr2_31subs(a),
   gvnlvnincr2_31subs_st |-> gvnlvnincr2_31subs_st(a),
   gvnlvnnodeprev1_simple |-> gvnlvnnodeprev1_root(a) \o gvnlvnnodeprev1_nodes,
   gvnlvnnodeprev1_simple_st |-> gvnlvnnodeprev1_root_st(a) \o gvnlvnnodeprev1_nodes_st,
   gvnlvnnodenext3_errors |-> gvnlvnnodenext3_names(a) \o gvnlvnnodenext3_answers,
   gvnlvnnodenext3_errors_st |-> gvnlvnnodenext3_names_st(a) \o gvnlvnnodenext3_answers_st,
   gvnlvnnodeprev3_errors |-> gvnlvnnodeprev3_names(a) \o gvnlvnnodeprev3_answers,
   gvnlvnnodeprev3_errors_st |-> gvnlvnnodeprev3_names_st(a) \o gvnlvnnodeprev3_answers_st,
   gvnlvnnodenext1_simple |-> gvnlvnnodenext1_root(a) \o gvnlvnnodenext1_nodes,
   gvnlvnnodenext1_simple_st |-> gvnlvnnodenext1_root_st(a) \o gvnlvnnodenext1_nodes_st,
   gvnlvnincr1_simple |-> gvnlvnincr1_unset(a) \o gvnlvnincr1_pure \o gvnlvnincr1_mixed,
   gvnlvnincr1_simple_st |-> gvnlvnincr1_unset_st(a) \o gvnlvnincr1_pure_st \o gvnlvnincr1_mixed_st,
   gvnlvnincr3_errors |-> gvnlvnincr3_args(a) \o gvnlvnincr3_values,
   gvnlvnincr3_errors_st |-> gvnlvnincr3_args_st(a) \o gvnlvnincr3_values_st]

Globals == ArgvPrograms(Argv("^"))
Locals == ArgvPrograms(Argv(""))

\* The programs that write beyond their arrays.
OverrunningPrograms(a) ==
  [gvnlvnnodenext2_31subs |-> gvnlvnnodenext2_31subs(a),
   gvnlvnnodenext2_31subs_st |-> gvnlvnnodenext2_31subs_st(a),
   gvnlvnnodeprev2_31subs |-> gvnlvnnodeprev2_31subs(a),
   gvnlvnnodeprev2_31subs_st |-> gvnlvnnodeprev2_31subs_st(a)]

\* A program is named by its file and the names it is run with.
OtherPrograms ==
  LET runs == ((DOMAIN PlainPrograms) \X {"main"}) \cup ((DOMAIN Globals) \X {"Global", "Local"})
  IN  [x \in runs |-> CASE x[2] = "main" -> PlainPrograms[x[1]]
                        [] x[2] = "Global" -> Globals[x[1]]
                        [] x[2] = "Local" -> Locals[x[1]]]

OverrunPrograms ==
  LET globals == OverrunningPrograms(Argv("^"))
      locals == OverrunningPrograms(Argv(""))
  IN  [x \in (DOMAIN globals) \X {"Global", "Local"} |->
         IF x[2] = "Global" THEN globals[x[1]] ELSE locals[x[1]]]
=============================================================================
