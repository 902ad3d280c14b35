----------------------------- MODULE CImptp_proofs ---------------------------
(***************************************************************************)
(* Theorems about the fill in C: it implements the fill of com/imptp.m;    *)
(* main returns only when the jobs may be killed; and ^lasti tells the     *)
(* truth.                                                                  *)
(*                                                                         *)
(* Module Imptp knows of the database what it held at the last start and   *)
(* how many updates each job has committed since; the C programs update    *)
(* the database itself.  That these are the same (KidOK) is the main part  *)
(* of the invariant.  A commit keeps it because the calls of a callback    *)
(* are, but for ^zdummy, the updates of its stage (CommitDoes, CommitNodes,*)
(* CommitCount).                                                           *)
(***************************************************************************)
EXTENDS CImptp, ImptpBody_proofs

-----------------------------------------------------------------------------
(* The updates of a commit *)

LEMMA ModeIs ==
  ASSUME NEW m \in Modes
  PROVE  /\ m.istp \in {0, 1} /\ m.crash \in BOOLEAN
         /\ m.jobs \subseteq 1 .. jobcnt /\ \E n \in 1 .. jobcnt : m.jobs = 1 .. n
<1>1. m.istp \in {0, 1, 2} /\ m.istp # 2 /\ m.crash \in BOOLEAN
  BY StageAssumption, CImptpAssumption
<1>2. PICK n \in 1 .. jobcnt : m.jobs = 1 .. n
  BY CImptpAssumption
<1>3. jobcnt \in Nat
  BY StageAssumption
<1>4. 1 .. n \subseteq 1 .. jobcnt
  BY <1>2, <1>3
<1> QED BY <1>1, <1>2, <1>4

\* The calls of the callbacks, and of ^zdummy.
Calls == [node : ({"zdummy"} \cup Globals) \X (AllLetters \cup {"none"}) \X Nat, value : Values]

LEMMA CallChain ==
  ASSUME NEW s \in Seq(Calls), NEW t \in Seq(Calls)
  PROVE  /\ s \o t \in Seq(Calls)
         /\ Len(s \o t) = Len(s) + Len(t)
         /\ \A k \in 1 .. Len(s) : (s \o t)[k] = s[k]
         /\ \A k \in 1 .. Len(t) : (s \o t)[Len(s) + k] = t[k]
BY ConcatProperties

\* u is the calls s, of number n, followed by the calls t, of number i.
CallCat(u, s, n, t, i) ==
    /\ u \in Seq(Calls)
    /\ Len(u) = n + i
    /\ \A k \in 1 .. n : u[k] = s[k]
    /\ \A k \in 1 .. i : u[n + k] = t[k]

LEMMA CallCatIs ==
  ASSUME NEW u, NEW s, NEW t, NEW n \in Nat, NEW i \in Nat,
         u = s \o t, s \in Seq(Calls), t \in Seq(Calls), Len(s) = n, Len(t) = i
  PROVE  CallCat(u, s, n, t, i)
<1>1. /\ s \o t \in Seq(Calls)
      /\ Len(s \o t) = Len(s) + Len(t)
      /\ \A k \in 1 .. Len(s) : (s \o t)[k] = s[k]
      /\ \A k \in 1 .. Len(t) : (s \o t)[Len(s) + k] = t[k]
  BY CallChain, Zenon
<1>2. CallCat(u, s, Len(s), t, Len(t))
  BY <1>1, Zenon DEF CallCat
<1> QED BY <1>2, Zenon

\* The n calls s between one call and eight.
Inserted(u, a, s, n, t) ==
    /\ u \in Seq(Calls) /\ Len(u) = 9 + n /\ u[1] = a
    /\ \A k \in 1 .. n : u[1 + k] = s[k]
    /\ \A k \in 1 .. 8 : u[1 + n + k] = t[k]

LEMMA Insert ==
  ASSUME NEW a, NEW s, NEW t, NEW u, NEW n \in Nat,
         a \in Calls, s \in Seq(Calls), t \in Seq(Calls), Len(t) = 8, u = <<a>> \o s \o t, Len(s) = n
  PROVE  Inserted(u, a, s, n, t)
<1> DEFINE h == <<a>>
           v == h \o s
<1>1. h \in Seq(Calls) /\ Len(h) = 1 /\ h[1] = a
  OBVIOUS
<1>2. u = v \o t
  OBVIOUS
<1> HIDE DEF h
<1>3. CallCat(v, h, 1, s, n)
  <2>1. 1 \in Nat
    OBVIOUS
  <2> QED BY <1>1, <2>1, CallCatIs, Zenon
<1> HIDE DEF v
<1>4. CallCat(u, v, 1 + n, t, 8)
  <2>1. 1 + n \in Nat /\ 8 \in Nat
    OBVIOUS
  <2>2. v \in Seq(Calls) /\ Len(v) = 1 + n
    BY <1>3, Zenon DEF CallCat
  <2> QED BY <1>2, <2>1, <2>2, CallCatIs, Zenon
<1>5. 1 \in 1 .. 1 /\ 1 \in 1 .. 1 + n /\ (1 + n) + 8 = 9 + n /\ \A k \in 1 .. n : 1 + k \in 1 .. 1 + n
  OBVIOUS
<1>6. u[1] = a
  BY <1>1, <1>3, <1>4, <1>5, Zenon DEF CallCat
<1>7. \A k \in 1 .. n : u[1 + k] = s[k]
  BY <1>3, <1>4, <1>5, Zenon DEF CallCat
<1>8. u \in Seq(Calls) /\ Len(u) = 9 + n /\ \A k \in 1 .. 8 : u[1 + n + k] = t[k]
  BY <1>4, <1>5, Zenon DEF CallCat
<1> QED BY <1>6, <1>7, <1>8, Zenon DEF Inserted

LEMMA CallIs ==
  ASSUME NEW g \in {"zdummy"} \cup Globals, NEW l \in AllLetters \cup {"none"}, NEW d \in Nat, NEW v \in Values
  PROVE  Set(<<g, l, d>>, v) \in Calls
BY DEF Set, Calls

\* The calls of tpfn_stage1: the SETs of Stage 1, and ^zdummy after the first one.
LEMMA StageCalls ==
  ASSUME NEW m \in Modes, NEW tr \in Nat, NEW c, c = tpfn_stage1(m, tr), NEW z, z <=> m.istp = 1 /\ m.crash /\ tr > 0
  PROVE  /\ ~z => c = Stage1(m)
         /\ z => /\ c \in Seq(Calls) /\ Len(c) = 10 /\ c[1] = Stage1(m)[1] /\ c[2] = Set(zdummy, "val")
                 /\ \A i \in 3 .. 10 : c[i] = Stage1(m)[i - 1]
<1> DEFINE t == <<Set(random("b"), "val"), Set(random("c"), "val"),
                  Set(random("e"), "val"), Set(random("i"), "val"),
                  Set(jrandom(1), "val"), Set(jrandom(2), "val"), Set(jrandom(3), "val"),
                  IF m.istp = 1 THEN Set(lasti, "val") ELSE Nothing>>
           a == Set(random("a"), "val")
           s == IF m.istp = 1 /\ m.crash /\ tr > 0 THEN <<Set(zdummy, "val")>> ELSE <<>>
           first9 == Stage1(m)
<1>1. c = <<a>> \o s \o t
  BY Zenon DEF tpfn_stage1
<1>2. t \in Seq(Calls) /\ Len(t) = 8 /\ a \in Calls /\ Set(zdummy, "val") \in Calls
  <2>1. /\ Set(random("a"), "val") \in Calls /\ Set(random("b"), "val") \in Calls /\ Set(random("c"), "val") \in Calls
        /\ Set(random("e"), "val") \in Calls /\ Set(random("i"), "val") \in Calls
    BY CallIs DEF random, Globals, AllLetters, Values
  <2>2. /\ Set(jrandom(1), "val") \in Calls /\ Set(jrandom(2), "val") \in Calls /\ Set(jrandom(3), "val") \in Calls
        /\ Set(lasti, "val") \in Calls /\ Set(zdummy, "val") \in Calls
    BY CallIs DEF jrandom, lasti, zdummy, Globals, AllLetters, Values
  <2>3. Nothing \in Calls
    BY DEF Nothing, Calls, Globals, Values
  <2> HIDE DEF Calls
  <2>4. (IF m.istp = 1 THEN Set(lasti, "val") ELSE Nothing) \in Calls
    BY <2>2, <2>3
  <2>5. t \in Seq(Calls) /\ Len(t) = 8
    BY <2>1, <2>2, <2>4
  <2> QED BY <2>1, <2>2, <2>5
<1>3. first9[1] = a /\ \A k \in 1 .. 8 : first9[1 + k] = t[k]
  <2>1. m.istp = 1 <=> m.istp # 0
    BY ModeIs
  <2> QED BY <2>1 DEF Stage1
<1>4. z => s = <<Set(zdummy, "val")>>
  OBVIOUS
<1>5. ~z => s = <<>>
  OBVIOUS
<1>6. Len(first9) = 9 /\ first9 \in Seq({first9[k] : k \in 1 .. 9})
  BY DEF Stage1
<1> HIDE DEF t, a, s, first9
<1>7. ASSUME ~z PROVE c = first9
  <2>1. s \in Seq(Calls) /\ Len(s) = 0
    BY <1>5, <1>7
  <2>2. Inserted(c, a, s, 0, t)
    <3>1. 0 \in Nat
      OBVIOUS
    <3> QED BY <1>1, <1>2, <2>1, <3>1, Insert, Zenon
  <2>3. c \in Seq(Calls) /\ Len(c) = 9 /\ c[1] = a /\ \A k \in 1 .. 8 : c[1 + k] = t[k]
    BY <2>2 DEF Inserted
  <2>4. \A i \in 1 .. 9 : c[i] = first9[i]
    <3>1. \A i \in 2 .. 9 : i - 1 \in 1 .. 8 /\ 1 + (i - 1) = i
      OBVIOUS
    <3>2. \A i \in 2 .. 9 : c[i] = first9[i]
      BY <1>3, <2>3, <3>1
    <3> QED BY <1>3, <2>3, <3>2
  <2> DEFINE T == Calls \cup {first9[k] : k \in 1 .. 9}
  <2>5. c \in Seq(T) /\ first9 \in Seq(T)
    BY <1>6, <2>3
  <2> HIDE DEF T
  <2> QED BY <1>6, <2>3, <2>4, <2>5, SeqEqual
<1>8. ASSUME z PROVE /\ c \in Seq(Calls) /\ Len(c) = 10 /\ c[1] = first9[1] /\ c[2] = Set(zdummy, "val")
                     /\ \A i \in 3 .. 10 : c[i] = first9[i - 1]
  <2> DEFINE zd == Set(zdummy, "val")
  <2>0. zd \in Calls /\ s = <<zd>>
    BY <1>2, <1>4, <1>8
  <2> HIDE DEF zd
  <2>1. s \in Seq(Calls) /\ Len(s) = 1 /\ s[1] = zd
    BY <2>0
  <2>2. Inserted(c, a, s, 1, t)
    <3>1. 1 \in Nat
      OBVIOUS
    <3> QED BY <1>1, <1>2, <2>1, <3>1, Insert, Zenon
  <2>3. /\ c \in Seq(Calls) /\ Len(c) = 10 /\ c[1] = first9[1] /\ c[2] = s[1]
        /\ \A k \in 1 .. 8 : c[2 + k] = first9[1 + k]
    BY <1>3, <2>2 DEF Inserted
  <2>4. \A i \in 3 .. 10 : i - 2 \in 1 .. 8 /\ 2 + (i - 2) = i /\ 1 + (i - 2) = i - 1
    OBVIOUS
  <2>5. \A i \in 3 .. 10 : c[i] = first9[i - 1]
    BY <2>3, <2>4
  <2> QED BY <2>1, <2>3, <2>5 DEF zd
<1> QED BY <1>7, <1>8 DEF first9

LEMMA CallbackLen ==
  ASSUME NEW m \in Modes, NEW tr \in Nat
  PROVE  Len(tpfn_stage1(m, tr)) = (IF m.istp = 1 /\ m.crash /\ tr > 0 THEN 10 ELSE 9) /\ Len(tpfn_stage3(m)) = 3
<1>1. Len(Stage1(m)) = 9
  BY DEF Stage1
<1>2. Len(tpfn_stage3(m)) = 3
  BY DEF tpfn_stage3
<1> DEFINE c == tpfn_stage1(m, tr)
           z == m.istp = 1 /\ m.crash /\ tr > 0
<1>3. ~z => c = Stage1(m)
  BY StageCalls
<1>4. z => Len(c) = 10
  BY StageCalls
<1> HIDE DEF c
<1> QED BY <1>1, <1>2, <1>3, <1>4, Zenon DEF c

\* The calls of a callback that is not restarted are the SETs of the M code.
LEMMA SameBody ==
  ASSUME NEW m \in Modes
  PROVE  IterationOf[m] = BodyOf[m] /\ CommitOf[m] = EndOf[m]
<1>1. tpfn_stage1(m, 0) = Stage1(m)
  <2>1. FALSE <=> m.istp = 1 /\ m.crash /\ 0 > 0
    OBVIOUS
  <2>2. 0 \in Nat
    OBVIOUS
  <2> QED BY <2>1, <2>2, StageCalls
<1>2. Iteration(m) = Body(m)
  BY <1>1, Zenon DEF Iteration, Body, stage2, Stage2, tpfn_stage3, Stage3, helper3
<1>3. IterationOf[m] = BodyOf[m]
  BY <1>2, Zenon DEF IterationOf, BodyOf
<1> QED BY <1>3, Zenon DEF CommitOf, EndOf

\* With TP no commit ends in the middle of Stages 1 and 3.
LEMMA StageEnds ==
  ASSUME NEW m \in Modes, m.istp = 1
  PROVE  /\ \A p \in 1 .. LenOf(m) : /\ p <= 9 => BodyOf[m][p].id = 1 /\ BodyOf[m][p].tp
                                     /\ p \in 10 .. 12 => BodyOf[m][p].id = 0
                                     /\ p \in 13 .. 15 => BodyOf[m][p].id = 3 /\ BodyOf[m][p].tp
                                     /\ p >= 16 => BodyOf[m][p].id # 1 /\ BodyOf[m][p].id # 3
         /\ \A p \in Ends(m, BodyOf[m]) : p \in 1 .. LenOf(m) /\ p \notin 1 .. 8 /\ p \notin 13 .. 14
<1>1. LenOf(m) \in Nat /\ LenOf(m) = o + 27 /\ LenOf(m) = Len(BodyOf[m]) /\ o \in Nat /\ o >= 20
  BY BodyLen
<1>2. \A p \in 1 .. LenOf(m) :
         LET s == StageOf(p)
         IN  BodyOf[m][p].id = (IF s \in {2, 8, 9} THEN 0 ELSE s) /\ (s \notin {2, 8, 9} => BodyOf[m][p].tp)
  <2> SUFFICES ASSUME NEW p \in 1 .. LenOf(m), NEW s, s = StageOf(p)
               PROVE  BodyOf[m][p].id = (IF s \in {2, 8, 9} THEN 0 ELSE s) /\ (s \notin {2, 8, 9} => BodyOf[m][p].tp)
    OBVIOUS
  <2>1. InFence(m, p, FenceOf(m, s), s)
    BY FenceIds
  <2>2. FenceOf(m, s) = IF s \in {2, 8, 9} THEN 0 ELSE 1
    BY DEF FenceOf, lfence
  <2>3. 1 # 0
    OBVIOUS
  <2>4. CASE s \in {2, 8, 9}
    BY <2>1, <2>2, <2>4, Zenon DEF InFence
  <2>5. CASE s \notin {2, 8, 9}
    BY <2>1, <2>2, <2>3, <2>5, Zenon DEF InFence
  <2> QED BY <2>4, <2>5
<1> DEFINE id(p) == BodyOf[m][p].id
<1>3. \A p \in 1 .. LenOf(m) : /\ p <= 9 => id(p) = 1 /\ BodyOf[m][p].tp
                               /\ p \in 10 .. 12 => id(p) = 0
                               /\ p \in 13 .. 15 => id(p) = 3 /\ BodyOf[m][p].tp
                               /\ p >= 16 => id(p) # 1 /\ id(p) # 3
  <2> HIDE DEF o
  <2> QED BY <1>1, <1>2 DEF StageOf
<1> HIDE DEF id, o
<1>4. \A p \in Ends(m, BodyOf[m]) : p \in 1 .. LenOf(m) /\ (p = LenOf(m) \/ ~BodyOf[m][p].tp \/ id(p + 1) # id(p))
  BY <1>1 DEF Ends, id
<1>5. \A p \in Ends(m, BodyOf[m]) : p \notin 1 .. 8 /\ p \notin 13 .. 14
  <2> SUFFICES ASSUME NEW p \in Ends(m, BodyOf[m]), p \in 1 .. 8 \/ p \in 13 .. 14 PROVE FALSE
    OBVIOUS
  <2>1. p \in 1 .. LenOf(m) /\ p + 1 \in 1 .. LenOf(m) /\ p # LenOf(m)
    BY <1>1
  <2> QED BY <1>3, <1>4, <2>1
<1> QED BY <1>3, <1>4, <1>5 DEF id

\* With TP the updates of Stages 1 and 3 are one commit each.
LEMMA StageCommit ==
  ASSUME NEW m \in Modes, m.istp = 1, NEW k \in 0 .. LenOf(m) - 1, k \in {0} \cup Ends(m, BodyOf[m])
  PROVE  /\ BodyOf[m][k + 1].id = 1 => k = 0 /\ EndOf[m][k] = 9
         /\ BodyOf[m][k + 1].id = 3 => k = 12 /\ EndOf[m][k] = 15
<1>1. LenOf(m) \in Nat /\ LenOf(m) = o + 27 /\ LenOf(m) = Len(BodyOf[m]) /\ o \in Nat /\ o >= 20
  BY BodyLen
<1> DEFINE id(p) == BodyOf[m][p].id
<1>2. /\ \A p \in 1 .. LenOf(m) : /\ p <= 9 => id(p) = 1 /\ BodyOf[m][p].tp
                                  /\ p \in 10 .. 12 => id(p) = 0
                                  /\ p \in 13 .. 15 => id(p) = 3 /\ BodyOf[m][p].tp
                                  /\ p >= 16 => id(p) # 1 /\ id(p) # 3
      /\ \A p \in Ends(m, BodyOf[m]) : p \in 1 .. LenOf(m) /\ p \notin 1 .. 8 /\ p \notin 13 .. 14
  BY StageEnds
<1> HIDE DEF id, o
<1>3. 9 \in Ends(m, BodyOf[m]) /\ 15 \in Ends(m, BodyOf[m])
  <2>1. 9 \in 1 .. LenOf(m) /\ 10 \in 1 .. LenOf(m) /\ 15 \in 1 .. LenOf(m) /\ 16 \in 1 .. LenOf(m)
    BY <1>1
  <2>2. BodyOf[m][9].tp /\ id(9) # id(9 + 1) /\ BodyOf[m][15].tp /\ id(15) # id(15 + 1)
    BY <1>2, <2>1
  <2> QED BY <1>1, <2>1, <2>2 DEF Ends, id
<1>4. EndOf[m][k] \in Ends(m, BodyOf[m]) /\ EndOf[m][k] > k /\ \A p \in Ends(m, BodyOf[m]) : p > k => EndOf[m][k] <= p
  BY <1>1, EndOfIs
<1>5. k + 1 \in 1 .. LenOf(m) /\ (k = 0 \/ (k \notin 1 .. 8 /\ k \notin 13 .. 14))
  BY <1>1, <1>2
<1>6. id(k + 1) = 1 => k = 0
  BY <1>1, <1>2, <1>5
<1>7. id(k + 1) = 3 => k = 12
  BY <1>1, <1>2, <1>5
<1> DEFINE e == EndOf[m][k]
<1>8. e \in Nat /\ e > 0 /\ e > k /\ e \notin 1 .. 8 /\ e \notin 13 .. 14
  <2>1. e \in 1 .. LenOf(m) /\ e \notin 1 .. 8 /\ e \notin 13 .. 14
    BY ONLY <1>2, <1>4, Zenon
  <2>2. e > k
    BY <1>4
  <2> HIDE DEF e
  <2> QED BY <1>1, <2>1, <2>2
<1>9. (9 > k => e <= 9) /\ (15 > k => e <= 15)
  BY ONLY <1>3, <1>4, Zenon
<1> HIDE DEF e
<1>10. k = 0 => e = 9
  BY <1>8, <1>9
<1>11. k = 12 => e = 15
  BY <1>8, <1>9
<1> QED BY <1>6, <1>7, <1>10, <1>11 DEF id, e

-----------------------------------------------------------------------------
(* What a commit does to the nodes *)

\* The n updates t are those of the body that follow update a.
Slice(m, a, n, t) ==
    /\ Len(t) = n
    /\ \A i \in 1 .. n : t[i].node = BodyOf[m][a + i].node /\ t[i].value = BodyOf[m][a + i].value

\* The updates t make of node x what updates a + 1 .. b of the body make of it.
Does(m, a, b, t, x) ==
    /\ \A v : Over(LastWrite(t, Len(t), x), Over(Net(m, a, x), v)) = Over(Net(m, b, x), v)
    /\ (\E i \in 1 .. Len(t) : t[i].node = x) <=> (\E p \in a + 1 .. b : BodyOf[m][p].node = x)

\* The same holds of what the updates leave in node x of iteration n.
LEMMA OverLeaves ==
  ASSUME NEW w, NEW a, NEW b, \A v : Over(w, Over(a, v)) = Over(b, v), NEW m, NEW n, NEW x, NEW u
  PROVE  Over(Leaves(m, n, x, w), Over(Leaves(m, n, x, a), u)) = Over(Leaves(m, n, x, b), u)
<1>1. b = IF w = "keep" THEN a ELSE w
  <2>1. Over(w, Over(a, "val")) = Over(b, "val") /\ Over(w, Over(a, "undef")) = Over(b, "undef")
    OBVIOUS
  <2> QED BY <2>1 DEF Over
<1>2. \A v : Leaves(m, n, x, v) = "keep" <=> v = "keep"
  BY DEF Leaves
<1> QED BY <1>1, <1>2 DEF Over

\* Update p is the last one of node x among the first k of s; or there is none.
LastAt(s, k, x, p) == p \in 1 .. k /\ s[p].node = x /\ \A q \in 1 .. k : q > p => s[q].node # x
NoneAt(s, k, x) == \A q \in 1 .. k : s[q].node # x

LEMMA LastAtIs ==
  ASSUME NEW s, NEW k \in Nat, NEW x, NEW p, LastAt(s, k, x, p)
  PROVE  LastWrite(s, k, x) = s[p].value
BY LastWriteIs DEF LastAt

LEMMA NoneAtIs ==
  ASSUME NEW s, NEW k \in Nat, NEW x, NoneAt(s, k, x)
  PROVE  LastWrite(s, k, x) = "keep"
BY NoWrite DEF NoneAt

LEMMA LastOrNone ==
  ASSUME NEW s, NEW k \in Nat, NEW x
  PROVE  NoneAt(s, k, x) \/ \E p : LastAt(s, k, x, p)
<1>1. \/ LastWrite(s, k, x) = "keep" /\ \A q \in 1 .. k : s[q].node # x
      \/ \E p \in 1 .. k : /\ s[p].node = x
                           /\ \A q \in 1 .. k : q > p => s[q].node # x
                           /\ LastWrite(s, k, x) = s[p].value
  BY SomeWrite
<1> QED BY <1>1 DEF NoneAt, LastAt

LEMMA SliceDoes ==
  ASSUME NEW m \in Modes, NEW a \in Nat, NEW b \in Nat, a <= b, b <= LenOf(m),
         NEW n, n = b - a, NEW t, Slice(m, a, n, t), NEW x
  PROVE  Does(m, a, b, t, x)
<1>1. /\ n \in Nat /\ Len(t) = n
      /\ \A i \in 1 .. n : t[i].node = BodyOf[m][a + i].node /\ t[i].value = BodyOf[m][a + i].value
  BY DEF Slice
<1>2. \A p \in a + 1 .. b : p - a \in 1 .. n /\ a + (p - a) = p
  BY <1>1
<1>3. \A i \in 1 .. n : a + i \in a + 1 .. b /\ a + i \in 1 .. b
  BY <1>1
<1>4. (\E i \in 1 .. n : t[i].node = x) <=> (\E p \in a + 1 .. b : BodyOf[m][p].node = x)
  <2>1. ASSUME NEW i \in 1 .. n, t[i].node = x PROVE \E p \in a + 1 .. b : BodyOf[m][p].node = x
    BY <1>1, <1>3, <2>1
  <2>2. ASSUME NEW p \in a + 1 .. b, BodyOf[m][p].node = x PROVE \E i \in 1 .. n : t[i].node = x
    <3>1. p - a \in 1 .. n /\ t[p - a].node = x
      BY <1>1, <1>2, <2>2
    <3> QED BY <3>1
  <2> QED BY <2>1, <2>2
<1>5. ASSUME NoneAt(t, n, x) PROVE Does(m, a, b, t, x)
  <2>1. \A p \in a + 1 .. b : BodyOf[m][p].node # x
    BY <1>4, <1>5 DEF NoneAt
  <2>2. \A q \in 1 .. b : q \in 1 .. a \/ q \in a + 1 .. b
    OBVIOUS
  <2>3. Net(m, b, x) = Net(m, a, x)
    <3>1. CASE NoneAt(BodyOf[m], a, x)
      <4>1. NoneAt(BodyOf[m], b, x)
        BY <2>1, <2>2, <3>1 DEF NoneAt
      <4> QED BY <3>1, <4>1, NoneAtIs, Zenon DEF Net
    <3>2. ASSUME NEW p, LastAt(BodyOf[m], a, x, p)
          PROVE  Net(m, b, x) = Net(m, a, x)
      <4>1. LastAt(BodyOf[m], b, x, p)
        BY <2>1, <2>2, <3>2 DEF LastAt
      <4> QED BY <3>2, <4>1, LastAtIs DEF Net
    <3> QED BY <3>1, <3>2, LastOrNone, Zenon
  <2>4. LastWrite(t, n, x) = "keep"
    BY <1>1, <1>5, NoneAtIs, Zenon
  <2>5. \A v : Over(LastWrite(t, n, x), Over(Net(m, a, x), v)) = Over(Net(m, b, x), v)
    BY <2>3, <2>4 DEF Over
  <2> QED BY <1>1, <1>4, <2>5 DEF Does
<1>6. ASSUME NEW p, LastAt(t, n, x, p) PROVE Does(m, a, b, t, x)
  <2>0. p \in 1 .. n /\ t[p].node = x /\ \A q \in 1 .. n : q > p => t[q].node # x
    BY <1>6 DEF LastAt
  <2>1. a + p \in 1 .. b /\ BodyOf[m][a + p].node = x /\ t[p].value = BodyOf[m][a + p].value
    BY <1>1, <1>3, <2>0
  <2>2. \A q \in 1 .. b : q > a + p => BodyOf[m][q].node # x
    <3> SUFFICES ASSUME NEW q \in 1 .. b, q > a + p PROVE BodyOf[m][q].node # x
      OBVIOUS
    <3>1. q \in a + 1 .. b /\ q - a > p
      BY <2>0
    <3>2. t[q - a].node = BodyOf[m][q].node /\ q - a \in 1 .. n
      BY <1>1, <1>2, <3>1
    <3> QED BY <2>0, <3>1, <3>2
  <2>3. LastAt(BodyOf[m], b, x, a + p)
    BY <2>1, <2>2 DEF LastAt
  <2>4. Net(m, b, x) = t[p].value
    BY <2>1, <2>3, LastAtIs DEF Net
  <2>5. t[p].value # "keep"
    <3> DEFINE s == BodyOf[m]
               k == a + p
    <3>1. k \in 1 .. Len(s) /\ s \in Seq(Slot)
      <4>1. LenOf(m) = Len(s) /\ LenOf(m) \in Nat
        BY BodyLen
      <4>2. s \in Seq(Slot)
        BY BodyStages, Zenon
      <4>3. k \in 1 .. LenOf(m)
        BY <2>1, <4>1
      <4> HIDE DEF s, k
      <4> QED BY <4>1, <4>2, <4>3
    <3> HIDE DEF s, k
    <3>2. s[k] \in Slot
      BY <3>1
    <3>3. BodyOf[m][a + p].value \in Values
      BY <3>2 DEF Slot, s, k
    <3> QED BY <2>1, <3>3 DEF Values
  <2>6. LastWrite(t, n, x) = t[p].value
    BY <1>1, <1>6, LastAtIs
  <2>7. \A v : Over(LastWrite(t, n, x), Over(Net(m, a, x), v)) = Over(Net(m, b, x), v)
    BY <2>4, <2>5, <2>6 DEF Over
  <2> QED BY <1>1, <1>4, <2>7 DEF Does
<1>7. NoneAt(t, n, x) \/ \E p : LastAt(t, n, x, p)
  BY <1>1, LastOrNone, Zenon
<1> QED BY <1>5, <1>6, <1>7

\* ^zdummy is none of the nodes that matter.
LEMMA Dummy ==
  ASSUME NEW m \in Modes, NEW x \in Nodes(m) \cup {cntloopNode(m)}
  PROVE  x # zdummy
<1>1. zdummy[1] = "zdummy"
  BY DEF zdummy
<1> DEFINE G == {"random", "randomJ", "jrandom", "ntp", "ntpMAX", "span", "ndxarr", "lasti", "cntloop"}
<1>2. x[1] \in G
  <2>1. CASE x = cntloopNode(m)
    BY <2>1, NodeParts
  <2>2. CASE x \in {random(l) : l \in m.letters} \cup {randomJ(l, J) : l \in m.letters, J \in 1 .. jobcnt}
    BY <2>2, NodeParts
  <2>3. CASE x \in {jrandom(d) : d \in 1 .. 3} \cup {ntp(l) : l \in m.letters}
    <3>1. ASSUME NEW d \in 1 .. 3, x = jrandom(d) PROVE x[1] = "jrandom"
      BY <3>1, NodeParts, Zenon
    <3>2. ASSUME NEW l \in m.letters, x = ntp(l) PROVE x[1] = "ntp"
      BY <3>2, NodeParts, Zenon
    <3> QED BY <2>3, <3>1, <3>2
  <2>4. CASE x \in {bntpMAX(m) : l \in m.letters \cap {"b"}} \cup {span(l) : l \in SpanLetters(m)}
    BY <2>4, NodeParts
  <2>5. CASE x \in {ndxarr(l) : l \in m.letters} \cup {lasti}
    BY <2>5, NodeParts
  <2> HIDE DEF G
  <2>6. CASE x \in Nodes(m)
    BY <2>2, <2>3, <2>4, <2>5, <2>6 DEF Nodes
  <2> QED BY <2>1, <2>6
<1> QED BY <1>1, <1>2

\* The call of ^zdummy is not seen.
LEMMA DummyDoes ==
  ASSUME NEW m \in Modes, NEW b \in Nat, NEW s, NEW c, Len(c) = 10, Len(s) = 9,
         c[1] = s[1], c[2] = Set(zdummy, "val"), \A i \in 3 .. 10 : c[i] = s[i - 1],
         NEW x, x # zdummy, Does(m, 0, b, s, x)
  PROVE  Does(m, 0, b, c, x)
<1>0. 9 \in Nat /\ 10 \in Nat
  OBVIOUS
<1>1. c[2].node # x
  BY DEF Set
<1>2. \A i \in 1 .. 10 : i = 1 \/ i = 2 \/ (i \in 3 .. 10 /\ i - 1 \in 2 .. 9)
  OBVIOUS
<1>3. \A i \in 2 .. 9 : i + 1 \in 3 .. 10 /\ c[i + 1] = s[i]
  <2>1. \A i \in 2 .. 9 : i + 1 \in 3 .. 10 /\ (i + 1) - 1 = i
    OBVIOUS
  <2> QED BY <2>1
<1>4. (\E i \in 1 .. 10 : c[i].node = x) <=> (\E i \in 1 .. 9 : s[i].node = x)
  <2>1. ASSUME NEW i \in 1 .. 10, c[i].node = x PROVE \E k \in 1 .. 9 : s[k].node = x
    <3>1. CASE i = 1
      BY <2>1, <3>1
    <3>2. CASE i \in 3 .. 10 /\ i - 1 \in 2 .. 9
      <4>1. s[i - 1].node = x /\ i - 1 \in 1 .. 9
        BY <2>1, <3>2
      <4> QED BY <4>1
    <3> QED BY <1>1, <1>2, <2>1, <3>1, <3>2
  <2>2. ASSUME NEW i \in 1 .. 9, s[i].node = x PROVE \E k \in 1 .. 10 : c[k].node = x
    <3>1. CASE i = 1
      BY <2>2, <3>1
    <3>2. CASE i \in 2 .. 9
      <4>1. c[i + 1].node = x /\ i + 1 \in 1 .. 10
        BY <1>3, <2>2, <3>2
      <4> QED BY <4>1
    <3> QED BY <3>1, <3>2
  <2> QED BY <2>1, <2>2
<1>5. LastWrite(c, 10, x) = LastWrite(s, 9, x)
  <2>1. CASE NoneAt(s, 9, x)
    <3>1. NoneAt(c, 10, x)
      BY <1>4, <2>1 DEF NoneAt
    <3> QED BY <1>0, <2>1, <3>1, NoneAtIs, Zenon
  <2>2. ASSUME NEW p, LastAt(s, 9, x, p)
        PROVE  LastWrite(c, 10, x) = LastWrite(s, 9, x)
    <3>0. p \in 1 .. 9 /\ s[p].node = x /\ \A q \in 1 .. 9 : q > p => s[q].node # x
      BY <2>2 DEF LastAt
    <3>1. \A q \in 3 .. 10 : q - 1 > p => c[q].node # x
      <4> SUFFICES ASSUME NEW q \in 3 .. 10, q - 1 > p PROVE c[q].node # x
        OBVIOUS
      <4>1. q - 1 \in 1 .. 9 /\ c[q] = s[q - 1]
        OBVIOUS
      <4> QED BY <3>0, <4>1
    <3>2. LastWrite(s, 9, x) = s[p].value
      BY <1>0, <2>2, LastAtIs
    <3>3. CASE p = 1
      <4>1. LastAt(c, 10, x, 1)
        BY <1>1, <1>2, <3>0, <3>1, <3>3 DEF LastAt
      <4>2. LastWrite(c, 10, x) = c[1].value
        BY <1>0, <4>1, LastAtIs
      <4> QED BY <3>2, <3>3, <4>2
    <3>4. CASE p \in 2 .. 9
      <4> DEFINE r == p + 1
      <4>1. r \in 1 .. 10 /\ c[r] = s[p] /\ r = p + 1
        BY <1>3, <3>4
      <4> HIDE DEF r
      <4>2. \A q \in 1 .. 10 : q > r => q \in 3 .. 10 /\ q - 1 > p
        BY <3>4, <4>1
      <4>3. LastAt(c, 10, x, r)
        BY <3>0, <3>1, <4>1, <4>2 DEF LastAt
      <4>4. LastWrite(c, 10, x) = c[r].value
        BY <1>0, <4>3, LastAtIs
      <4> QED BY <3>2, <4>1, <4>4
    <3> QED BY <3>0, <3>3, <3>4
  <2> QED BY <1>0, <2>1, <2>2, LastOrNone, Zenon
<1> QED BY <1>4, <1>5, Zenon DEF Does

\* The updates of the commit that begins after the first k of the body.
UpdatesOf(m, k, t) ==
    \/ t = SubSeq(BodyOf[m], k + 1, EndOf[m][k])
    \/ m.istp = 1 /\ BodyOf[m][k + 1].id = 1 /\ \E tr \in Nat : t = tpfn_stage1(m, tr)
    \/ m.istp = 1 /\ BodyOf[m][k + 1].id = 3 /\ t = tpfn_stage3(m)

LEMMA CommitDoes ==
  ASSUME NEW m \in Modes, NEW k \in 0 .. LenOf(m) - 1, k \in {0} \cup Ends(m, BodyOf[m]),
         NEW t, UpdatesOf(m, k, t), NEW x \in Nodes(m) \cup {cntloopNode(m)}
  PROVE  Does(m, k, EndOf[m][k], t, x) /\ DOMAIN t = 1 .. Len(t)
<1> DEFINE e == EndOf[m][k]
<1>1. LenOf(m) \in Nat /\ LenOf(m) = Len(BodyOf[m]) /\ BodyOf[m] \in Seq(Slot) /\ LenOf(m) >= 20
  BY BodyLen, BodyStages
<1>2. e \in k + 1 .. LenOf(m)
  BY EndOfIs
<1>3. k \in Nat /\ e \in Nat /\ k <= e /\ e <= LenOf(m)
  BY <1>1, <1>2
<1>4. ASSUME t = SubSeq(BodyOf[m], k + 1, e)
      PROVE  Does(m, k, e, t, x) /\ DOMAIN t = 1 .. Len(t)
  <2> HIDE DEF e
  <2>1. /\ t \in Seq(Slot) /\ Len(t) = e - k
        /\ \A i \in 1 .. e - k : t[i] = BodyOf[m][k + i]
    <3>1. k + 1 \in 1 .. Len(BodyOf[m]) + 1 /\ e \in k .. Len(BodyOf[m]) /\ (e - (k + 1)) + 1 = e - k
      BY <1>1, <1>2, <1>3
    <3> DEFINE s == BodyOf[m]
    <3>2. s \in Seq(Slot) /\ k \in Nat /\ e \in Nat /\ k + 1 >= 1 /\ e <= Len(s) /\ k < e
      BY <1>1, <1>2, <1>3
    <3> HIDE DEF s
    <3>3. SubSeq(s, k + 1, e) \in Seq(Slot) /\ Len(SubSeq(s, k + 1, e)) = e - k
          /\ \A i \in 1 .. e - k : SubSeq(s, k + 1, e)[i] = s[k + i]
      BY <3>2
    <3> QED BY <1>4, <3>3 DEF s
  <2>2. Slice(m, k, e - k, t)
    BY <2>1 DEF Slice
  <2>3. Does(m, k, e, t, x)
    BY <1>3, <2>2, SliceDoes
  <2> QED BY <2>1, <2>3
<1>5. ASSUME m.istp = 1, BodyOf[m][k + 1].id = 1, NEW tr \in Nat, t = tpfn_stage1(m, tr)
      PROVE  Does(m, k, e, t, x) /\ DOMAIN t = 1 .. Len(t)
  <2> DEFINE s == Stage1(m)
             z == m.istp = 1 /\ m.crash /\ tr > 0
  <2>1. k = 0 /\ e = 9
    BY <1>5, StageCommit
  <2>2. s \in Seq(Update) /\ Len(s) = 9
    <3>1. 0 \in Nat
      OBVIOUS
    <3> QED BY <3>1, StageTypes
  <2>3. \A i \in 1 .. 9 : BodyOf[m][i] = Fenced(m.istp, 1, s[i])
    BY BodyStages
  <2> HIDE DEF s, e
  <2>4. \A i \in 1 .. 9 : s[i].node = BodyOf[m][0 + i].node /\ s[i].value = BodyOf[m][0 + i].value
    <3>1. \A i \in 1 .. 9 : 0 + i = i
      OBVIOUS
    <3> QED BY <2>3, <3>1, FencedNode
  <2>5. Slice(m, 0, 9, s)
    BY <2>2, <2>4 DEF Slice
  <2>6. Does(m, 0, 9, s, x)
    <3>1. 0 \in Nat /\ 9 \in Nat /\ 0 <= 9 /\ 9 <= LenOf(m) /\ 9 = 9 - 0
      BY <1>1
    <3> QED BY <2>5, <3>1, SliceDoes
  <2>7. CASE ~z
    <3>1. t = s
      BY <1>5, <2>7, StageCalls DEF s
    <3>2. Does(m, k, e, t, x)
      BY <2>1, <2>2, <2>6, <3>1
    <3>3. DOMAIN t = 1 .. Len(t)
      <4>1. DOMAIN s = 1 .. Len(s)
        BY <2>2
      <4> QED BY <3>1, <4>1, Zenon
    <3> QED BY <3>2, <3>3
  <2>8. CASE z
    <3>1. /\ t \in Seq(Calls) /\ Len(t) = 10 /\ t[1] = s[1] /\ t[2] = Set(zdummy, "val")
          /\ \A i \in 3 .. 10 : t[i] = s[i - 1]
      BY <1>5, <2>8, StageCalls DEF s
    <3>2. x # zdummy
      BY Dummy
    <3>3. Does(m, 0, 9, t, x)
      <4>1. 9 \in Nat
        OBVIOUS
      <4> QED BY <2>2, <2>6, <3>1, <3>2, <4>1, DummyDoes
    <3> QED BY <2>1, <3>1, <3>3
  <2> QED BY <2>7, <2>8
<1>6. ASSUME m.istp = 1, BodyOf[m][k + 1].id = 3, t = tpfn_stage3(m)
      PROVE  Does(m, k, e, t, x) /\ DOMAIN t = 1 .. Len(t)
  <2>1. k = 12 /\ e = 15
    BY <1>6, StageCommit
  <2>2. t = Stage3(m)
    BY <1>6, Zenon DEF tpfn_stage3, Stage3
  <2>3. Stage3(m) \in Seq(Update) /\ Len(Stage3(m)) = 3
    <3>1. 0 \in Nat
      OBVIOUS
    <3> QED BY <3>1, StageTypes
  <2>4. \A i \in 1 .. 3 : BodyOf[m][12 + i] = Fenced(m.istp, 3, Stage3(m)[i])
    BY BodyStages
  <2> HIDE DEF e
  <2>5. Slice(m, 12, 3, t)
    BY <2>2, <2>3, <2>4, FencedNode DEF Slice
  <2>6. Does(m, 12, 15, t, x)
    <3>1. 12 \in Nat /\ 15 \in Nat /\ 12 <= 15 /\ 15 <= LenOf(m) /\ 3 = 15 - 12
      BY <1>1
    <3> QED BY <2>5, <3>1, SliceDoes
  <2> QED BY <2>1, <2>2, <2>3, <2>6
<1> QED BY <1>4, <1>5, <1>6 DEF UpdatesOf

\* The iterations d of a job after the first q updates of a run from iteration f.
RunTo(m, d, f, q) == Recovered(m, d, f, [l \in m.letters |-> q])

LEMMA RunToIs ==
  ASSUME NEW m \in Modes, NEW d \in [1 .. top -> [Nodes(m) -> Values]], NEW f \in 1 .. top + 1, NEW q \in Nat
  PROVE  /\ RunTo(m, d, f, q) \in [1 .. top -> [Nodes(m) -> Values]]
         /\ \A n \in 1 .. top, x \in Nodes(m) :
               RunTo(m, d, f, q)[n][x] = Over(Leaves(m, n, x, Net(m, InIteration(m, q, f, n), x)), d[n][x])
<1> DEFINE k(n) == [l \in m.letters |-> InIteration(m, q, f, n)]
<1>1. ASSUME NEW n \in 1 .. top PROVE k(n) \in [m.letters -> 0 .. LenOf(m)]
  BY PartsIs
<1>2. \A n \in 1 .. top : RunTo(m, d, f, q)[n] = After(m, n, d[n], k(n))
  <2>1. ASSUME NEW n \in 1 .. top
        PROVE  [l \in m.letters |-> InIteration(m, [h \in m.letters |-> q][l], f, n)] = k(n)
    OBVIOUS
  <2> QED BY <2>1 DEF RunTo, Recovered
<1>3. ASSUME NEW n \in 1 .. top
      PROVE  /\ After(m, n, d[n], k(n)) \in [Nodes(m) -> Values]
             /\ \A x \in Nodes(m) : After(m, n, d[n], k(n))[x] = Over(Leaves(m, n, x, Net(m, InIteration(m, q, f, n), x)), d[n][x])
  <2>1. d[n] \in [Nodes(m) -> Values]
    OBVIOUS
  <2>2. \A x \in Nodes(m) : k(n)[x[2]] = InIteration(m, q, f, n)
    BY NodesAre
  <2>3. k(n) \in [m.letters -> 0 .. LenOf(m)]
    BY <1>1
  <2> HIDE DEF k
  <2>4. /\ After(m, n, d[n], k(n)) \in [Nodes(m) -> Values]
        /\ \A x \in Nodes(m) : After(m, n, d[n], k(n))[x] = Over(Leaves(m, n, x, Net(m, k(n)[x[2]], x)), d[n][x])
    BY <2>1, <2>3, AfterIs
  <2> QED BY <2>2, <2>4
<1>4. DOMAIN RunTo(m, d, f, q) = 1 .. top /\ RunTo(m, d, f, q) = [n \in 1 .. top |-> RunTo(m, d, f, q)[n]]
  BY DEF RunTo, Recovered
<1> HIDE DEF k
<1>5. \A n \in 1 .. top : RunTo(m, d, f, q)[n] \in [Nodes(m) -> Values]
  BY <1>2, <1>3
<1>6. RunTo(m, d, f, q) \in [1 .. top -> [Nodes(m) -> Values]]
  BY <1>4, <1>5
<1> QED BY <1>2, <1>3, <1>6

\* How much of its iterations a run has done at update k of its iteration f + t.
LEMMA Progress ==
  ASSUME NEW m \in Modes, NEW f \in 1 .. top + 1, NEW t \in Nat, NEW k \in 0 .. LenOf(m),
         NEW q, q = t * LenOf(m) + k, NEW n \in 1 .. top
  PROVE  /\ n < f + t => InIteration(m, q, f, n) = (IF n < f THEN 0 ELSE LenOf(m))
         /\ n = f + t => InIteration(m, q, f, n) = k
         /\ n > f + t => InIteration(m, q, f, n) = 0
<1> DEFINE len == LenOf(m)
           x == InIteration(m, q, f, n)
           u == n - f
<1>1. len \in Nat \ {0} /\ top \in Nat /\ t * len \in Nat
  BY BodyLen, TopNat
<1>2. k \in Nat /\ k <= len
  BY <1>1
<1>3. q \in Nat
  <2> DEFINE y == t * len
  <2>1. y \in Nat /\ q = y + k
    BY <1>1
  <2> HIDE DEF y
  <2> QED BY <1>2, <2>1
<1>4. x \in 0 .. len /\ (n < f => x = 0) /\ (n >= f => \A p \in 1 .. len : p <= x <=> u * len + p <= q)
  BY <1>3, PartsIs
<1> HIDE DEF x
<1>5. CASE n < f
  BY <1>1, <1>4, <1>5 DEF x
<1>6. CASE n >= f
  <2>1. u \in Nat /\ u * len \in Nat
    BY <1>1, <1>6
  <2>2. ASSUME u < t PROVE x = len
    <3>1. u + 1 <= t /\ (u + 1) * len = u * len + len
      BY <1>1, <2>1, <2>2
    <3>2. (u + 1) * len <= t * len
      BY <1>1, <2>1, <3>1, TimesMono
    <3> DEFINE a == u * len
               b == t * len
    <3>3. a + len <= b /\ a \in Nat /\ b \in Nat /\ q = b + k
      BY <1>1, <2>1, <3>1, <3>2
    <3> HIDE DEF len, u, b
    <3>4. len \in 1 .. len /\ (len <= x <=> a + len <= q)
      BY <1>1, <1>4, <1>6
    <3> HIDE DEF a
    <3>5. len <= x
      BY <1>1, <1>2, <3>3, <3>4
    <3> QED BY <1>1, <1>4, <3>5
  <2>3. ASSUME u = t PROVE x = k
    <3> DEFINE a == u * len
    <3>1. a \in Nat /\ q = a + k /\ \A p \in 1 .. len : p <= x <=> a + p <= q
      BY <1>4, <1>6, <2>1, <2>3
    <3> HIDE DEF a, u, len
    <3>2. \A p \in 1 .. len : p <= x <=> p <= k
      BY <1>2, <3>1
    <3>3. x \in Nat /\ x <= len
      BY <1>1, <1>4
    <3>4. ~(x > k)
      <4> SUFFICES ASSUME x > k PROVE FALSE
        OBVIOUS
      <4>1. x \in 1 .. len /\ x <= x /\ ~(x <= k)
        BY <1>1, <1>2, <3>3
      <4> QED BY <3>2, <4>1
    <3>5. ~(x < k)
      <4> SUFFICES ASSUME x < k PROVE FALSE
        OBVIOUS
      <4>1. k \in 1 .. len /\ k <= k /\ ~(k <= x)
        BY <1>1, <1>2, <3>3
      <4> QED BY <3>2, <4>1
    <3> QED BY <1>2, <3>3, <3>4, <3>5
  <2>4. ASSUME u > t PROVE x = 0
    <3>1. t + 1 <= u /\ (t + 1) * len = t * len + len /\ t + 1 \in Nat
      BY <1>1, <2>1, <2>4
    <3>2. (t + 1) * len <= u * len
      BY <1>1, <2>1, <3>1, TimesMono
    <3> DEFINE a == u * len
               b == t * len
    <3>3. b + len <= a /\ a \in Nat /\ b \in Nat /\ q = b + k
      BY <1>1, <2>1, <3>1, <3>2
    <3> HIDE DEF len, u, b
    <3>4. 1 \in 1 .. len /\ (1 <= x <=> a + 1 <= q)
      BY <1>1, <1>4, <1>6
    <3> HIDE DEF a
    <3>5. ~(1 <= x)
      BY <1>1, <1>2, <3>3, <3>4
    <3> QED BY <1>1, <1>4, <3>5
  <2> HIDE DEF len
  <2>5. (n < f + t => u < t) /\ (n = f + t => u = t) /\ (n > f + t => u > t)
    OBVIOUS
  <2> HIDE DEF u
  <2> QED BY <1>6, <2>2, <2>3, <2>4, <2>5 DEF x, len
<1> QED BY <1>5, <1>6

\* A job at commit point q of a run from iteration f, before its end.
InRun(m, f, q) == q \in CommitPoints(m) /\ f \in 1 .. top + 1 /\ f + (q \div LenOf(m)) <= top

\* The next commit point.
NextOf(m, q) == q - (q % LenOf(m)) + EndOf[m][q % LenOf(m)]

\* Update r of a run is update e of its iteration t + 1.
IsAt(len, t, e, r) == len \in Nat \ {0} /\ t \in Nat /\ e \in 1 .. len /\ r = t * len + e

LEMMA Within ==
  ASSUME NEW len, NEW t, NEW e, NEW r, IsAt(len, t, e, r)
  PROVE  /\ r \in Nat
         /\ r % len = (IF e = len THEN 0 ELSE e)
         /\ r \div len = (IF e = len THEN t + 1 ELSE t)
<1>0. len \in Nat \ {0} /\ t \in Nat /\ e \in 1 .. len /\ r = t * len + e
  BY DEF IsAt
<1>1. t * len \in Nat /\ (t + 1) * len = t * len + len /\ e \in Nat
  BY <1>0
<1>2. r \in Nat
  <2> DEFINE x == t * len
  <2>1. x \in Nat /\ r = x + e
    BY <1>0, <1>1
  <2> HIDE DEF x
  <2> QED BY <1>1, <2>1
<1>3. CASE e = len
  <2>1. r = (t + 1) * len + 0 /\ t + 1 \in Nat /\ 0 \in 0 .. len - 1
    BY <1>0, <1>1, <1>3
  <2>2. ((t + 1) * len + 0) \div len = t + 1 /\ ((t + 1) * len + 0) % len = 0
    BY <1>0, <2>1, DivModUnique
  <2> QED BY <1>2, <1>3, <2>1, <2>2
<1>4. CASE e # len
  <2>1. e \in 0 .. len - 1
    BY <1>0, <1>4
  <2>2. (t * len + e) \div len = t /\ (t * len + e) % len = e
    BY <1>0, <2>1, DivModUnique
  <2> QED BY <1>0, <1>2, <1>4, <2>2
<1> QED BY <1>3, <1>4

LEMMA InRunIs ==
  ASSUME NEW m \in Modes, NEW f, NEW q, InRun(m, f, q),
         NEW t, t = q \div LenOf(m), NEW k, k = q % LenOf(m), NEW e, e = EndOf[m][k]
  PROVE  /\ q = t * LenOf(m) + k /\ NextOf(m, q) = t * LenOf(m) + e
         /\ t \in Nat /\ t < top /\ f + t \in 1 .. top /\ f \in 1 .. top + 1
         /\ k \in 0 .. LenOf(m) - 1 /\ k \in {0} \cup Ends(m, BodyOf[m])
         /\ e \in k + 1 .. LenOf(m)
         /\ q \in Nat /\ NextOf(m, q) \in Nat /\ NextOf(m, q) \in CommitPoints(m)
         /\ NextOf(m, q) % LenOf(m) = (IF e = LenOf(m) THEN 0 ELSE e)
         /\ NextOf(m, q) \div LenOf(m) = (IF e = LenOf(m) THEN t + 1 ELSE t)
<1> DEFINE len == LenOf(m)
           r == NextOf(m, q)
<1>1. q \in CommitPoints(m) /\ f \in 1 .. top + 1 /\ f + t <= top
  BY DEF InRun
<1>2. len \in Nat \ {0} /\ top \in Nat \ {0} /\ q \in 0 .. top * len
  BY <1>1, BodyLen, TopNat DEF CommitPoints
<1>3. q \in Nat
  <2> DEFINE x == top * len
  <2>1. x \in Nat /\ q \in 0 .. x
    BY <1>2
  <2> HIDE DEF x
  <2> QED BY <2>1
<1>4. t \in Nat /\ k \in 0 .. len - 1 /\ q = t * len + k
  BY <1>2, <1>3, DivMod
<1>5. k \in {0} \cup Ends(m, BodyOf[m])
  BY <1>1 DEF CommitPoints
<1>6. e \in k + 1 .. len
  BY <1>4, EndOfIs
<1>7. t < top /\ f + t \in 1 .. top
  <2> HIDE DEF len
  <2> QED BY <1>1, <1>2, <1>4
<1>8. /\ r \in CommitPoints(m) /\ r > q
      /\ r = t * len + e
  BY <1>1, <1>7, NextPoint DEF NextOf
<1> HIDE DEF len, r
<1>9. /\ r \in Nat
      /\ r % len = (IF e = len THEN 0 ELSE e)
      /\ r \div len = (IF e = len THEN t + 1 ELSE t)
  <2>1. e \in 1 .. len
    BY <1>2, <1>4, <1>6
  <2>2. IsAt(len, t, e, r)
    BY <1>2, <1>4, <1>8, <2>1, Zenon DEF IsAt
  <2> QED BY <2>2, Within
<1> QED BY <1>1, <1>3, <1>4, <1>5, <1>6, <1>7, <1>8, <1>9 DEF len, r

\* The updates of a commit make of the database what the run has done by then.
LEMMA CommitNodes ==
  ASSUME NEW m \in Modes, NEW d \in [1 .. top -> [Nodes(m) -> Values]], NEW f, NEW q, InRun(m, f, q),
         NEW s, UpdatesOf(m, q % LenOf(m), s),
         NEW c, c = RunTo(m, d, f, q), NEW i, i = f + (q \div LenOf(m))
  PROVE  [c EXCEPT ![i] = Updated(m, i, c[i], s)] = RunTo(m, d, f, NextOf(m, q))
<1> DEFINE len == LenOf(m)
           t == q \div len
           k == q % len
           e == EndOf[m][k]
           r == NextOf(m, q)
           new == RunTo(m, d, f, r)
<1>1. /\ q = t * len + k /\ r = t * len + e
      /\ t \in Nat /\ t < top /\ f + t \in 1 .. top /\ f \in 1 .. top + 1
      /\ k \in 0 .. len - 1 /\ k \in {0} \cup Ends(m, BodyOf[m])
      /\ e \in k + 1 .. len /\ q \in Nat /\ r \in Nat
  BY InRunIs
<1>2. len \in Nat \ {0} /\ i = f + t
  BY BodyLen
<1>3. k \in 0 .. len /\ e \in 0 .. len
  <2> HIDE DEF len, k, e
  <2> QED BY <1>1, <1>2
<1>4. /\ c \in [1 .. top -> [Nodes(m) -> Values]]
      /\ \A n \in 1 .. top, x \in Nodes(m) : c[n][x] = Over(Leaves(m, n, x, Net(m, InIteration(m, q, f, n), x)), d[n][x])
  <2> DEFINE z == RunTo(m, d, f, q)
  <2>1. /\ z \in [1 .. top -> [Nodes(m) -> Values]]
        /\ \A n \in 1 .. top, x \in Nodes(m) : z[n][x] = Over(Leaves(m, n, x, Net(m, InIteration(m, q, f, n), x)), d[n][x])
    BY <1>1, RunToIs
  <2>2. c = z
    OBVIOUS
  <2> HIDE DEF z
  <2> QED BY <2>1, <2>2, Zenon
<1>5. /\ new \in [1 .. top -> [Nodes(m) -> Values]]
      /\ \A n \in 1 .. top, x \in Nodes(m) : new[n][x] = Over(Leaves(m, n, x, Net(m, InIteration(m, r, f, n), x)), d[n][x])
  BY <1>1, RunToIs
<1>6. UpdatesOf(m, k, s)
  OBVIOUS
<1> HIDE DEF len, t, k, e, r, new
<1>7. ASSUME NEW n \in 1 .. top
      PROVE  /\ n # i => InIteration(m, r, f, n) = InIteration(m, q, f, n)
             /\ n = i => InIteration(m, q, f, n) = k /\ InIteration(m, r, f, n) = e
  <2>1. /\ n < f + t => InIteration(m, q, f, n) = (IF n < f THEN 0 ELSE len)
        /\ n = f + t => InIteration(m, q, f, n) = k
        /\ n > f + t => InIteration(m, q, f, n) = 0
    BY <1>1, <1>3, Progress DEF len
  <2>2. /\ n < f + t => InIteration(m, r, f, n) = (IF n < f THEN 0 ELSE len)
        /\ n = f + t => InIteration(m, r, f, n) = e
        /\ n > f + t => InIteration(m, r, f, n) = 0
    BY <1>1, <1>3, Progress DEF len
  <2>3. n < f + t \/ n = f + t \/ n > f + t
    BY <1>1
  <2> QED BY <1>2, <2>1, <2>2, <2>3
<1>8. ASSUME NEW n \in 1 .. top, n # i PROVE new[n] = c[n]
  <2>1. \A x \in Nodes(m) : new[n][x] = c[n][x]
    BY <1>4, <1>5, <1>7, <1>8
  <2>2. new[n] \in [Nodes(m) -> Values] /\ c[n] \in [Nodes(m) -> Values]
    BY <1>4, <1>5
  <2> QED BY <2>1, <2>2
<1>9. i \in 1 .. top
  BY <1>1, <1>2
<1>10. new[i] = Updated(m, i, c[i], s)
  <2>1. c[i] \in [Nodes(m) -> Values] /\ new[i] \in [Nodes(m) -> Values] /\ DOMAIN c[i] = Nodes(m)
    BY <1>4, <1>5, <1>9
  <2>2. Updated(m, i, c[i], s) = [x \in Nodes(m) |-> Over(Leaves(m, i, x, LastWrite(s, Len(s), x)), c[i][x])]
    BY <2>1, Zenon DEF Updated
  <2>3. ASSUME NEW x \in Nodes(m) PROVE new[i][x] = Over(Leaves(m, i, x, LastWrite(s, Len(s), x)), c[i][x])
    <3>1. Does(m, k, EndOf[m][k], s, x)
      BY <1>1, <1>6, CommitDoes DEF len
    <3>2. /\ c[i][x] = Over(Leaves(m, i, x, Net(m, k, x)), d[i][x])
          /\ new[i][x] = Over(Leaves(m, i, x, Net(m, e, x)), d[i][x])
      BY <1>4, <1>5, <1>7, <1>9
    <3>3. Over(Leaves(m, i, x, LastWrite(s, Len(s), x)), Over(Leaves(m, i, x, Net(m, k, x)), d[i][x]))
             = Over(Leaves(m, i, x, Net(m, e, x)), d[i][x])
      <4>1. \A v : Over(LastWrite(s, Len(s), x), Over(Net(m, k, x), v)) = Over(Net(m, e, x), v)
        BY <3>1, Zenon DEF Does, e
      <4> QED BY <4>1, OverLeaves
    <3> QED BY <3>2, <3>3, Zenon
  <2>4. new[i] = [x \in Nodes(m) |-> new[i][x]]
    BY <2>1
  <2> QED BY <2>2, <2>3, <2>4
<1>11. \A n \in 1 .. top : [c EXCEPT ![i] = Updated(m, i, c[i], s)][n] = new[n]
  BY <1>4, <1>8, <1>9, <1>10
<1>12. DOMAIN [c EXCEPT ![i] = Updated(m, i, c[i], s)] = 1 .. top
  BY <1>4
<1>13. [c EXCEPT ![i] = Updated(m, i, c[i], s)] = new
  <2> DEFINE g == [c EXCEPT ![i] = Updated(m, i, c[i], s)]
  <2>1. g = [n \in 1 .. top |-> g[n]]
    BY <1>4
  <2>2. new = [n \in 1 .. top |-> new[n]]
    BY <1>5
  <2>3. \A n \in 1 .. top : g[n] = new[n]
    BY <1>11
  <2> HIDE DEF g
  <2>4. g = new
    BY <2>1, <2>2, <2>3
  <2> QED BY <2>4 DEF g
<1> QED BY <1>13 DEF new, r

\* ^cntloop is incremented when the run passes Stage 9.
LEMMA CommitCount ==
  ASSUME NEW m \in Modes, NEW f, NEW q, InRun(m, f, q), NEW s, UpdatesOf(m, q % LenOf(m), s)
  PROVE  Incrs(m, NextOf(m, q)) =
            Incrs(m, q) + (IF \E i \in DOMAIN s : s[i].node = cntloopNode(m) THEN 1 ELSE 0)
<1> DEFINE len == LenOf(m)
           t == q \div len
           k == q % len
           e == EndOf[m][k]
           r == NextOf(m, q)
           some == \E i \in DOMAIN s : s[i].node = cntloopNode(m)
<1>1. /\ t \in Nat /\ k \in 0 .. len - 1 /\ k \in {0} \cup Ends(m, BodyOf[m]) /\ e \in k + 1 .. len
      /\ r % len = (IF e = len THEN 0 ELSE e)
      /\ r \div len = (IF e = len THEN t + 1 ELSE t)
  BY InRunIs
<1>2. len \in Nat \ {0} /\ len = o + 27 /\ o \in Nat /\ incrAt(m) = o + 17
  BY BodyLen, IncrAtIs
<1>3. /\ Incrs(m, r) = (r \div len) + (IF r % len >= o + 17 THEN 1 ELSE 0)
      /\ Incrs(m, q) = t + (IF k >= o + 17 THEN 1 ELSE 0)
  BY <1>2 DEF Incrs
<1>4. UpdatesOf(m, k, s)
  OBVIOUS
<1>5. some <=> k + 1 <= o + 17 /\ o + 17 <= e
  <2> HIDE DEF len, k, e
  <2>1. Does(m, k, e, s, cntloopNode(m)) /\ DOMAIN s = 1 .. Len(s)
    BY <1>1, <1>4, CommitDoes DEF len, e
  <2>2. some <=> \E p \in k + 1 .. e : BodyOf[m][p].node = cntloopNode(m)
    BY <2>1, Zenon DEF Does
  <2>3. /\ BodyOf[m][o + 17].node = cntloopNode(m)
        /\ \A p \in 1 .. len : BodyOf[m][p].node = cntloopNode(m) => p = o + 17
    BY IncrAtIs DEF len
  <2> HIDE DEF some, o
  <2>4. \A p \in k + 1 .. e : p \in 1 .. len
    BY <1>1, <1>2
  <2>5. o + 17 \in k + 1 .. e <=> k + 1 <= o + 17 /\ o + 17 <= e
    BY <1>1, <1>2
  <2> QED BY <2>2, <2>3, <2>4, <2>5
<1> HIDE DEF len, t, k, e, r, some, o
<1>6. Incrs(m, r) = Incrs(m, q) + (IF some THEN 1 ELSE 0)
  BY <1>1, <1>2, <1>3, <1>5
<1> QED BY <1>6 DEF r, some

-----------------------------------------------------------------------------
(* What ^lasti promises *)

\* What ^lasti promises of the iterations d of a job.
Truth(m, d) ==
    /\ d \in [1 .. top -> [Nodes(m) -> Values]]
    /\ LastiOf(d) \in 0 .. top
    /\ \A n \in 1 .. top : Defined(d[n], lasti) <=> n <= LastiOf(d)
    /\ m.istp = 1 => \A n \in 1 .. top :
          /\ \A l \in m.letters : d[n][random(l)] = IF n <= LastiOf(d) THEN "val" ELSE "undef"
          /\ d[n][jrandom(3)] = IF n <= LastiOf(d) THEN "val" ELSE "undef"
    /\ m.istp = 0 => \A n \in 1 .. top : n <= LastiOf(d) => compiter(m, n, d[n])

\* The first k[l] updates of an iteration in each region l keep the promise.
Tells(m, k) ==
    /\ m.istp = 1 => \A l \in m.letters : Place(l) <= k[l] <=> 9 <= k["i"]
    /\ m.istp = 1 => (8 <= k["i"] <=> 9 <= k["i"])
    /\ m.istp = 0 => (o + 27 <= k["i"] => \A l \in m.letters : o + 21 + Place(l) <= k[l])

\* Where the body sets ^lasti.
LastiAt(m) == IF m.istp = 0 THEN o + 27 ELSE 9

\* An iteration that began without Stage 1.
LEMMA OneTells ==
  ASSUME NEW m \in Modes, NEW it, NEW db \in [Nodes(m) -> Values], NEW k \in [m.letters -> 0 .. LenOf(m)], Tells(m, k),
         db[lasti] = "undef",
         m.istp = 1 => db[jrandom(3)] = "undef" /\ \A l \in m.letters : db[random(l)] = "undef",
         NEW new, new = After(m, it, db, k)
  PROVE  /\ Defined(new, lasti) <=> LastiAt(m) <= k["i"]
         /\ m.istp = 1 => /\ \A l \in m.letters : new[random(l)] = IF LastiAt(m) <= k["i"] THEN "val" ELSE "undef"
                          /\ new[jrandom(3)] = IF LastiAt(m) <= k["i"] THEN "val" ELSE "undef"
         /\ m.istp = 0 /\ LastiAt(m) <= k["i"] => compiter(m, it, new)
<1>1. /\ "i" \in m.letters /\ lasti \in Nodes(m) /\ jrandom(3) \in Nodes(m)
      /\ \A l \in m.letters : random(l) \in Nodes(m) /\ l \in AllLetters
  BY NodesAre
<1>2. lasti[2] = "i" /\ jrandom(3)[2] = "i" /\ \A l \in m.letters : random(l)[2] = l
  BY NodeParts
<1>3. \A x \in Nodes(m) : new[x] = Over(Leaves(m, it, x, Net(m, k[x[2]], x)), db[x])
  BY AfterIs
<1>4. \A l \in m.letters : k[l] \in 0 .. LenOf(m)
  OBVIOUS
<1>5. ASSUME NEW l \in m.letters
      PROVE  /\ Net(m, k[l], random(l)) = IF Place(l) <= k[l] THEN "val" ELSE "keep"
             /\ Net(m, k["i"], jrandom(3)) = IF 8 <= k["i"] THEN "val" ELSE "keep"
             /\ Net(m, k["i"], lasti) = IF LastiAt(m) <= k["i"] THEN "val" ELSE "keep"
  <2>1. k[l] \in 0 .. LenOf(m) /\ k["i"] \in 0 .. LenOf(m) /\ l \in AllLetters
    BY <1>1, <1>4
  <2>2. \A x \in AllLetters : Net(m, k[l], random(x)) = IF Place(x) <= k[l] THEN "val" ELSE "keep"
    BY <2>1, EffectOnce
  <2>3. /\ Net(m, k["i"], jrandom(3)) = IF 8 <= k["i"] THEN "val" ELSE "keep"
        /\ Net(m, k["i"], lasti) = IF (IF m.istp = 0 THEN o + 27 ELSE 9) <= k["i"] THEN "val" ELSE "keep"
    BY <2>1, EffectOnce
  <2> QED BY <2>1, <2>2, <2>3 DEF LastiAt
<1>6. new[lasti] = Over(Leaves(m, it, lasti, Net(m, k["i"], lasti)), "undef")
  BY <1>1, <1>2, <1>3
<1>7. Defined(new, lasti) <=> LastiAt(m) <= k["i"]
  BY <1>1, <1>5, <1>6 DEF Defined, Over, Leaves
<1>8. ASSUME m.istp = 1
      PROVE  /\ \A l \in m.letters : new[random(l)] = IF LastiAt(m) <= k["i"] THEN "val" ELSE "undef"
             /\ new[jrandom(3)] = IF LastiAt(m) <= k["i"] THEN "val" ELSE "undef"
  <2>1. LastiAt(m) = 9
    BY <1>8 DEF LastiAt
  <2>2. (8 <= k["i"] <=> 9 <= k["i"]) /\ \A l \in m.letters : Place(l) <= k[l] <=> 9 <= k["i"]
    BY <1>8 DEF Tells
  <2>3. /\ new[jrandom(3)] = Over(Leaves(m, it, jrandom(3), Net(m, k["i"], jrandom(3))), "undef")
        /\ \A l \in m.letters : new[random(l)] = Over(Leaves(m, it, random(l), Net(m, k[l], random(l))), "undef")
    BY <1>1, <1>2, <1>3, <1>8
  <2> QED BY <1>1, <1>5, <2>1, <2>2, <2>3 DEF Over, Leaves
<1>9. ASSUME m.istp = 0, LastiAt(m) <= k["i"] PROVE compiter(m, it, new)
  <2>1. o + 27 <= k["i"]
    BY <1>9 DEF LastiAt
  <2>2. \A l \in m.letters : o + 21 + Place(l) <= k[l]
    BY <1>9, <2>1 DEF Tells
  <2>3. \A l \in m.letters : k[l] >= o + 21 + Place(l)
    <3> SUFFICES ASSUME NEW l \in m.letters PROVE k[l] >= o + 21 + Place(l)
      OBVIOUS
    <3> DEFINE x == o + 21 + Place(l)
    <3>1. x <= k[l]
      BY <2>2
    <3> HIDE DEF x
    <3>2. k[l] >= x
      BY <3>1
    <3> QED BY <3>2 DEF x
  <2> QED BY <2>3, Complete
<1> QED BY <1>7, <1>8, <1>9

\* ^lasti counts the iterations before f, and those of a run from f that have come to it.
CountsTo(db, f, len, s, c) ==
    /\ DOMAIN db = 1 .. top
    /\ f \in 1 .. top + 1 /\ len \in Nat /\ s \in Nat /\ c \in Nat
    /\ \A n \in 1 .. top : Defined(db[n], lasti) <=> (n < f \/ (n - f) * len + s <= c)

LEMMA CountsUp ==
  ASSUME NEW db, NEW f, NEW len, NEW s, NEW c, CountsTo(db, f, len, s, c)
  PROVE  LastiOf(db) \in 0 .. top /\ \A n \in 1 .. top : Defined(db[n], lasti) <=> n <= LastiOf(db)
<1>1. /\ DOMAIN db = 1 .. top /\ f \in 1 .. top + 1 /\ len \in Nat /\ s \in Nat /\ c \in Nat
      /\ \A n \in 1 .. top : Defined(db[n], lasti) <=> (n < f \/ (n - f) * len + s <= c)
  BY DEF CountsTo
<1>2. top \in Nat
  BY TopNat
<1> DEFINE T == {0} \cup {n \in DOMAIN db : Defined(db[n], lasti)}
           last == Max(T)
<1>3. T \subseteq 0 .. top /\ 0 \in T /\ \A n \in 1 .. top : n \in T <=> Defined(db[n], lasti)
  BY <1>1, <1>2
<1>4. \A n \in T : n = 0 \/ n \in 1 .. top
  BY <1>1
<1>5. LastiOf(db) = last
  BY DEF LastiOf
<1> HIDE DEF T
<1>6. last \in T /\ \A y \in T : y <= last
  BY <1>2, <1>3, MaxIs
<1> HIDE DEF last
<1>7. last \in 0 .. top
  BY <1>3, <1>6
<1>8. ASSUME NEW n \in 1 .. top, n <= last PROVE Defined(db[n], lasti)
  <2>1. last \in 1 .. top
    BY <1>7, <1>8
  <2>2. last < f \/ (last - f) * len + s <= c
    BY <1>1, <1>3, <1>6, <2>1
  <2>3. CASE n < f
    BY <1>1, <2>3
  <2>4. CASE n >= f
    <3>1. n - f \in Nat /\ last - f \in Nat /\ n - f <= last - f /\ ~(last < f)
      BY <1>1, <1>8, <2>1, <2>4
    <3>2. (n - f) * len <= (last - f) * len /\ (n - f) * len \in Nat /\ (last - f) * len \in Nat
      BY <1>1, <3>1, TimesMono
    <3> DEFINE x == (n - f) * len
               y == (last - f) * len
    <3>3. x <= y /\ x \in Nat /\ y \in Nat /\ y + s <= c
      BY <2>2, <3>1, <3>2
    <3> HIDE DEF x, y
    <3>4. x + s <= c
      BY <1>1, <3>3
    <3> QED BY <1>1, <3>4 DEF x
  <2> QED BY <1>1, <2>3, <2>4
<1>9. \A n \in 1 .. top : Defined(db[n], lasti) <=> n <= last
  BY <1>3, <1>6, <1>8
<1> QED BY <1>5, <1>7, <1>9

\* What ^lasti promised at the start is what it promises of the run from there.
LEMMA TruthKept ==
  ASSUME NEW m \in Modes, NEW d, Truth(m, d), NEW f, f = LastiOf(d) + 1, NEW cut \in [m.letters -> Nat],
         \A n \in 1 .. top : n >= f => Tells(m, Parts(m, cut, f, n)),
         NEW new, new = Recovered(m, d, f, cut)
  PROVE  Truth(m, new)
<1> DEFINE s == LastiAt(m)
           len == LenOf(m)
           k(n) == Parts(m, cut, f, n)
           last == LastiOf(d)
           says(n) == n < f \/ s <= k(n)["i"]
<1>1. /\ d \in [1 .. top -> [Nodes(m) -> Values]] /\ last \in 0 .. top
      /\ \A n \in 1 .. top : Defined(d[n], lasti) <=> n <= last
      /\ m.istp = 1 => \A n \in 1 .. top :
            /\ \A l \in m.letters : d[n][random(l)] = IF n <= last THEN "val" ELSE "undef"
            /\ d[n][jrandom(3)] = IF n <= last THEN "val" ELSE "undef"
      /\ m.istp = 0 => \A n \in 1 .. top : n <= last => compiter(m, n, d[n])
  BY DEF Truth
<1>2. top \in Nat \ {0} /\ len \in Nat \ {0} /\ len = o + 27 /\ o \in Nat /\ s \in 1 .. len
  BY TopNat, BodyLen DEF LastiAt
<1> HIDE DEF last, s, len
<1>3. f \in 1 .. top + 1 /\ last = f - 1 /\ \A n \in 1 .. top : n < f <=> n <= last
  BY <1>1, <1>2 DEF last
<1>4. "i" \in m.letters /\ cut["i"] \in Nat
  BY NodesAre
<1>5. \A n \in 1 .. top : k(n) \in [m.letters -> 0 .. len]
  BY <1>3, PartsIs DEF Parts, len
<1>6. \A n \in 1 .. top : new[n] = After(m, n, d[n], k(n))
  BY DEF Recovered, Parts
<1>7. new \in [1 .. top -> [Nodes(m) -> Values]]
  <2>1. \A n \in 1 .. top : After(m, n, d[n], k(n)) \in [Nodes(m) -> Values]
    BY <1>1, <1>5, AfterIs DEF len
  <2> QED BY <2>1 DEF Recovered, Parts
<1>8. ASSUME NEW n \in 1 .. top, n < f PROVE new[n] = d[n]
  <2>1. k(n) = [l \in m.letters |-> 0]
    BY <1>3, <1>8, PartsIs DEF Parts
  <2>2. d[n] \in [Nodes(m) -> Values]
    BY <1>1
  <2> QED BY <1>6, <2>1, <2>2, Untouched
<1>9. ASSUME NEW n \in 1 .. top, n >= f
      PROVE  /\ Defined(new[n], lasti) <=> s <= k(n)["i"]
             /\ m.istp = 1 => /\ \A l \in m.letters : new[n][random(l)] = IF s <= k(n)["i"] THEN "val" ELSE "undef"
                              /\ new[n][jrandom(3)] = IF s <= k(n)["i"] THEN "val" ELSE "undef"
             /\ m.istp = 0 /\ s <= k(n)["i"] => compiter(m, n, new[n])
  <2> DEFINE db == d[n]
             kn == k(n)
             nn == new[n]
  <2>1. Tells(m, kn) /\ kn \in [m.letters -> 0 .. LenOf(m)] /\ nn = After(m, n, db, kn)
    BY <1>5, <1>6, <1>9 DEF len
  <2>2. ~(n <= last)
    BY <1>3, <1>9
  <2>3. db \in [Nodes(m) -> Values] /\ lasti \in Nodes(m)
    BY <1>1, NodesAre
  <2>4. db[lasti] = "undef" /\ (m.istp = 1 => db[jrandom(3)] = "undef" /\ \A l \in m.letters : db[random(l)] = "undef")
    BY <1>1, <2>2 DEF Defined
  <2> HIDE DEF db, kn, nn
  <2>5. /\ Defined(nn, lasti) <=> LastiAt(m) <= kn["i"]
        /\ m.istp = 1 => /\ \A l \in m.letters : nn[random(l)] = IF LastiAt(m) <= kn["i"] THEN "val" ELSE "undef"
                         /\ nn[jrandom(3)] = IF LastiAt(m) <= kn["i"] THEN "val" ELSE "undef"
        /\ m.istp = 0 /\ LastiAt(m) <= kn["i"] => compiter(m, n, nn)
    BY <2>1, <2>3, <2>4, OneTells
  <2> QED BY <2>5, Zenon DEF nn, kn, s
<1>10. \A n \in 1 .. top : Defined(new[n], lasti) <=> says(n)
  <2> SUFFICES ASSUME NEW n \in 1 .. top PROVE Defined(new[n], lasti) <=> says(n)
    OBVIOUS
  <2>1. CASE n < f
    BY <1>1, <1>3, <1>8, <2>1
  <2>2. CASE n >= f
    <3>1. ~(n < f)
      BY <1>3, <2>2
    <3> HIDE DEF k
    <3> QED BY <1>9, <2>2, <3>1
  <2> QED BY <1>3, <2>1, <2>2
<1>11. \A n \in 1 .. top : says(n) <=> (n < f \/ (n - f) * len + s <= cut["i"])
  <2> SUFFICES ASSUME NEW n \in 1 .. top, n >= f PROVE s <= k(n)["i"] <=> (n - f) * len + s <= cut["i"]
    BY <1>3
  <2>1. k(n)["i"] = InIteration(m, cut["i"], f, n)
    BY <1>4 DEF Parts
  <2>2. \A p \in 1 .. LenOf(m) : p <= InIteration(m, cut["i"], f, n) <=> (n - f) * LenOf(m) + p <= cut["i"]
    BY <1>3, <1>4, PartsIs
  <2> QED BY <1>2, <2>1, <2>2 DEF len
<1> HIDE DEF says
<1>12. LastiOf(new) \in 0 .. top /\ \A n \in 1 .. top : Defined(new[n], lasti) <=> n <= LastiOf(new)
  <2>1. CountsTo(new, f, len, s, cut["i"])
    <3>1. DOMAIN new = 1 .. top
      BY <1>7
    <3>2. \A n \in 1 .. top : Defined(new[n], lasti) <=> (n < f \/ (n - f) * len + s <= cut["i"])
      BY <1>10, <1>11
    <3>3. len \in Nat /\ s \in Nat
      BY <1>2
    <3> QED BY <1>3, <1>4, <3>1, <3>2, <3>3 DEF CountsTo
  <2> QED BY <2>1, CountsUp
<1>13. \A n \in 1 .. top : n <= LastiOf(new) <=> says(n)
  BY <1>10, <1>12
<1>14. ASSUME m.istp = 1, NEW n \in 1 .. top
       PROVE  /\ \A l \in m.letters : new[n][random(l)] = IF n <= LastiOf(new) THEN "val" ELSE "undef"
              /\ new[n][jrandom(3)] = IF n <= LastiOf(new) THEN "val" ELSE "undef"
  <2>1. CASE n < f
    <3>1. n <= last /\ n <= LastiOf(new)
      BY <1>3, <1>13, <2>1 DEF says
    <3> QED BY <1>1, <1>8, <1>14, <2>1, <3>1
  <2>2. CASE n >= f
    <3>1. n <= LastiOf(new) <=> s <= k(n)["i"]
      BY <1>3, <1>13, <2>2 DEF says
    <3> HIDE DEF k
    <3> QED BY <1>9, <1>14, <2>2, <3>1
  <2> QED BY <1>3, <2>1, <2>2
<1>15. ASSUME m.istp = 0, NEW n \in 1 .. top, n <= LastiOf(new)
       PROVE  compiter(m, n, new[n])
  <2>1. CASE n < f
    <3>1. n <= last
      BY <1>3, <2>1
    <3> QED BY <1>1, <1>8, <1>15, <2>1, <3>1
  <2>2. CASE n >= f
    <3>1. s <= k(n)["i"]
      BY <1>3, <1>13, <1>15, <2>2 DEF says
    <3> HIDE DEF k
    <3> QED BY <1>9, <1>15, <2>2, <3>1
  <2> QED BY <1>3, <2>1, <2>2
<1> QED BY <1>7, <1>12, <1>14, <1>15 DEF Truth

LEMMA EmptyTruth ==
  ASSUME NEW m \in Modes, NEW d, d = [n \in 1 .. top |-> [x \in Nodes(m) |-> "undef"]]
  PROVE  Truth(m, d) /\ LastiOf(d) = 0
<1>1. d \in [1 .. top -> [Nodes(m) -> Values]]
  BY DEF Values
<1>2. \A n \in 1 .. top, x \in Nodes(m) : d[n][x] = "undef"
  OBVIOUS
<1>3. /\ lasti \in Nodes(m) /\ jrandom(3) \in Nodes(m) /\ \A l \in m.letters : random(l) \in Nodes(m)
  BY NodesAre
<1>4. top \in Nat /\ 0 \in 0 .. top /\ \A n \in 1 .. top : ~(n <= 0)
  BY TopNat
<1>5. DOMAIN d = 1 .. top
  OBVIOUS
<1>6. \A n \in 1 .. top : ~Defined(d[n], lasti)
  BY <1>2, <1>3, Zenon DEF Defined
<1>7. LastiOf(d) = 0
  BY <1>4, <1>5, <1>6, LastiIs
<1> HIDE DEF Nodes
<1> QED BY <1>1, <1>2, <1>3, <1>4, <1>6, <1>7 DEF Truth

\* Recovery keeps the promise of ^lasti.
LEMMA CutTells ==
  ASSUME NEW m \in Modes, m.crash, NEW q \in CommitPoints(m), q \in Nat, NEW c \in Cuts(m, q),
         NEW f \in 1 .. top + 1, NEW n \in 1 .. top, n >= f
  PROVE  Tells(m, Parts(m, c, f, n))
<1> DEFINE k == Parts(m, c, f, n)
<1>1. Sound(m, k)
  BY CutSound
<1>2. c \in [m.letters -> Nat] /\ "i" \in m.letters
  BY CutsAre, NodesAre
<1>3. \A l \in m.letters : k[l] \in 0 .. LenOf(m)
  BY <1>2, PartsIs DEF Parts
<1> HIDE DEF k
<1>4. k["i"] \in Nat
  BY <1>2, <1>3, BodyLen
<1>5. ASSUME m.istp = 1
      PROVE  (\A l \in m.letters : Place(l) <= k[l] <=> 9 <= k["i"]) /\ (8 <= k["i"] <=> 9 <= k["i"])
  <2>1. \A l \in m.letters : Place(l) <= k[l] <=> 9 <= k["i"]
    BY <1>1, <1>5 DEF Sound, InStep
  <2>2. 5 <= k["i"] <=> 9 <= k["i"]
    <3>1. Place("i") = 5
      BY DEF Place
    <3>2. Place("i") <= k["i"] <=> 9 <= k["i"]
      BY <1>2, <2>1
    <3> QED BY <3>1, <3>2
  <2>3. 8 <= k["i"] <=> 9 <= k["i"]
    BY <1>4, <2>2
  <2> QED BY <2>1, <2>3
<1>6. m.istp = 0 /\ o + 27 <= k["i"] => \A l \in m.letters : o + 21 + Place(l) <= k[l]
  BY <1>1, Zenon DEF Sound
<1>7. m.istp \in {0, 1}
  BY ModeIs
<1> QED BY <1>5, <1>6, Zenon DEF Tells, k

\* So does what the run has done at a commit.
LEMMA PointTells ==
  ASSUME NEW m \in Modes, NEW q \in CommitPoints(m), q \in Nat, NEW f \in 1 .. top + 1, NEW n \in 1 .. top
  PROVE  Tells(m, Parts(m, [l \in m.letters |-> q], f, n))
<1> DEFINE len == LenOf(m)
           k == Parts(m, [l \in m.letters |-> q], f, n)
           x == InIteration(m, q, f, n)
           t == q \div len
           r == q % len
<1>1. len \in Nat \ {0} /\ len = o + 27 /\ o \in Nat
  BY BodyLen
<1>2. "i" \in m.letters /\ \A l \in m.letters : Place(l) \in 1 .. 5
  BY NodesAre, Sizes
<1>3. \A l \in m.letters : k[l] = x
  BY DEF Parts
<1>4. t \in Nat /\ r \in 0 .. len - 1 /\ q = t * len + r
  BY <1>1, DivMod
<1>5. r \in {0} \cup Ends(m, BodyOf[m])
  BY DEF CommitPoints
<1> HIDE DEF len, t, r, x
<1>6. x \in {0, len, r}
  <2>1. r \in 0 .. len
    BY <1>1, <1>4
  <2>2. /\ n < f + t => x = (IF n < f THEN 0 ELSE len)
        /\ n = f + t => x = r
        /\ n > f + t => x = 0
    BY <1>4, <2>1, Progress DEF x, len
  <2>3. n < f + t \/ n = f + t \/ n > f + t
    BY <1>4
  <2> QED BY <2>2, <2>3
<1>7. m.istp = 1 => x \notin 1 .. 8
  <2>1. m.istp = 1 => r \notin 1 .. 8
    BY <1>5, StageEnds
  <2> QED BY <1>1, <1>6, <2>1
<1>8. x \in 0 .. len
  BY <1>1, <1>4, <1>6
<1>9. ASSUME m.istp = 1
      PROVE  (\A l \in m.letters : Place(l) <= x <=> 9 <= x) /\ (8 <= x <=> 9 <= x)
  BY <1>1, <1>2, <1>7, <1>8, <1>9
<1>10. ASSUME m.istp = 0, o + 27 <= x PROVE \A l \in m.letters : o + 21 + Place(l) <= x
  BY <1>1, <1>2, <1>8, <1>10
<1> HIDE DEF k
<1> QED BY <1>2, <1>3, <1>9, <1>10 DEF Tells, k

-----------------------------------------------------------------------------
(* The steps of one job *)

\* A job with the iterations b at its last start or recovery and d now, of status s, at p
\* in iteration i of a run from iteration f of which it has committed q updates; u: up.
KidOK(m, b, d, s, p, i, f, q, u) ==
    /\ q \in CommitPoints(m)
    /\ Truth(m, b)
    /\ d = RunTo(m, b, f, q)
    /\ f \in 1 .. top + 1 /\ i \in 1 .. top + 1
    /\ f + (q \div LenOf(m)) <= top + 1
    /\ u /\ s # "recovered" => f = LastiOf(b) + 1
    /\ q # 0 => u /\ s # "recovered"
    /\ s \in {"gone", "killed"} => u
    /\ s = "killed" => m.crash
    /\ p \in {"unborn", "init", "read"} => q = 0
    /\ s = "run" => /\ p \in {"init", "read", "loop", "test"} => u
                    /\ p = "loop" => i = f + (q \div LenOf(m)) /\ i <= top
                    /\ p = "test" => i + 1 = f + (q \div LenOf(m)) /\ f <= i

LEMMA PointNat ==
  ASSUME NEW m \in Modes, NEW q \in CommitPoints(m)
  PROVE  q \in 0 .. top * LenOf(m) /\ q \in Nat /\ top * LenOf(m) \in Nat /\ q \div LenOf(m) \in Nat
<1> DEFINE len == LenOf(m)
           x == top * len
<1>1. len \in Nat \ {0} /\ top \in Nat
  BY BodyLen, TopNat
<1> HIDE DEF len
<1>2. x \in Nat
  BY <1>1
<1>3. q \in 0 .. x
  BY DEF CommitPoints, len
<1> HIDE DEF x
<1>4. q \in Nat
  BY <1>2, <1>3
<1>5. q \div len \in Nat
  BY <1>1, <1>4, DivMod
<1> QED BY <1>2, <1>3, <1>4, <1>5 DEF x, len

LEMMA NoPoint ==
  ASSUME NEW m \in Modes
  PROVE  0 \in CommitPoints(m) /\ 0 \div LenOf(m) = 0 /\ Incrs(m, 0) = 0 /\ 0 \in 0 .. top * LenOf(m)
<1> DEFINE len == LenOf(m)
<1>1. len \in Nat \ {0} /\ top \in Nat
  BY BodyLen, TopNat
<1> HIDE DEF len
<1>2. 0 % len = 0 /\ 0 \div len = 0 /\ top * len \in Nat
  BY <1>1
<1>3. 0 \in 0 .. top * len
  BY <1>2
<1>4. 0 \in CommitPoints(m)
  BY <1>2, <1>3 DEF CommitPoints, len
<1>5. Incrs(m, 0) = 0
  BY <1>2, IncrsIs DEF len
<1> QED BY <1>2, <1>3, <1>4, <1>5 DEF len

LEMMA TruthIs ==
  ASSUME NEW m, NEW d, Truth(m, d)
  PROVE  d \in [1 .. top -> [Nodes(m) -> Values]] /\ LastiOf(d) \in 0 .. top /\ LastiOf(d) + 1 \in 1 .. top + 1
<1>1. d \in [1 .. top -> [Nodes(m) -> Values]] /\ LastiOf(d) \in 0 .. top
  BY DEF Truth
<1>2. LastiOf(d) + 1 \in 1 .. top + 1
  BY <1>1, TopNat
<1> QED BY <1>1, <1>2

\* ^lasti tells the truth all the time.
LEMMA KidTruth ==
  ASSUME NEW m \in Modes, NEW b, NEW d, NEW s, NEW p, NEW i, NEW f, NEW q, NEW u, KidOK(m, b, d, s, p, i, f, q, u)
  PROVE  Truth(m, d) /\ (q = 0 => d = b) /\ q \in 0 .. top * LenOf(m)
<1>1. /\ q \in CommitPoints(m) /\ Truth(m, b) /\ d = RunTo(m, b, f, q) /\ f \in 1 .. top + 1
      /\ q # 0 => f = LastiOf(b) + 1
  BY DEF KidOK
<1>2. q \in Nat /\ q \in 0 .. top * LenOf(m)
  BY <1>1, PointNat
<1>3. ASSUME q = 0 PROVE d = b
  <2> DEFINE cut == [l \in m.letters |-> q]
  <2>1. cut = [l \in m.letters |-> 0]
    BY <1>3
  <2>2. d = Recovered(m, b, f, cut)
    BY <1>1, Zenon DEF RunTo
  <2>3. b \in [1 .. top -> [Nodes(m) -> Values]]
    BY <1>1, TruthIs
  <2> HIDE DEF cut
  <2>4. Recovered(m, b, f, cut) = b
    BY <1>1, <2>1, <2>3, NothingBack
  <2> QED BY <2>2, <2>4, Zenon
<1>4. ASSUME q # 0 PROVE Truth(m, d)
  <2> DEFINE cut == [l \in m.letters |-> q]
  <2>1. cut \in [m.letters -> Nat]
    BY <1>2
  <2>2. \A n \in 1 .. top : Tells(m, Parts(m, cut, f, n))
    BY <1>1, <1>2, PointTells
  <2>3. d = Recovered(m, b, f, cut)
    BY <1>1, Zenon DEF RunTo
  <2>4. f = LastiOf(b) + 1 /\ Truth(m, b)
    BY <1>1, <1>4
  <2> HIDE DEF cut
  <2> QED BY <2>1, <2>2, <2>3, <2>4, TruthKept
<1> QED BY <1>1, <1>2, <1>3, <1>4

\* A run that has committed nothing.
LEMMA KidFresh ==
  ASSUME NEW m \in Modes, NEW d, Truth(m, d), NEW f \in 1 .. top + 1
  PROVE  d = RunTo(m, d, f, 0)
<1> DEFINE cut == [l \in m.letters |-> 0]
<1>1. d \in [1 .. top -> [Nodes(m) -> Values]]
  BY TruthIs
<1>2. RunTo(m, d, f, 0) = Recovered(m, d, f, cut)
  BY DEF RunTo
<1> HIDE DEF cut
<1>3. Recovered(m, d, f, cut) = d
  BY <1>1, NothingBack DEF cut
<1> QED BY <1>2, <1>3, Zenon

\* main starts the fill.
LEMMA KidStart ==
  ASSUME NEW m \in Modes, NEW b, NEW d, NEW s, NEW p, NEW i, NEW f, NEW q, KidOK(m, b, d, s, p, i, f, q, FALSE)
  PROVE  /\ KidOK(m, b, d, "run", "unborn", i, LastiOf(d) + 1, 0, TRUE)
         /\ LastiOf(d) + 1 \in 1 .. top + 1 /\ q = 0 /\ d = b
<1>1. q = 0 /\ Truth(m, b) /\ i \in 1 .. top + 1
  BY DEF KidOK
<1>2. d = b
  BY <1>1, KidTruth
<1>3. LastiOf(d) + 1 \in 1 .. top + 1 /\ top \in Nat
  BY <1>1, <1>2, TruthIs, TopNat
<1>4. 0 \in CommitPoints(m) /\ 0 \div LenOf(m) = 0
  BY NoPoint
<1>5. d = RunTo(m, b, LastiOf(d) + 1, 0)
  BY <1>1, <1>2, <1>3, KidFresh
<1>6. LastiOf(d) + 1 = LastiOf(b) + 1
  BY <1>2
<1> DEFINE e == LastiOf(d) + 1
           t == 0 \div LenOf(m)
<1>7. e + t <= top + 1 /\ e \in 1 .. top + 1
  BY <1>3, <1>4
<1> HIDE DEF e
<1>8. KidOK(m, b, d, "run", "unborn", i, e, 0, TRUE)
  BY <1>1, <1>4, <1>5, <1>6, <1>7 DEF KidOK, e
<1> QED BY <1>1, <1>2, <1>3, <1>8 DEF e

\* The child is forked, or counts itself in jsyncnt.
LEMMA KidMoves ==
  ASSUME NEW m \in Modes, NEW b, NEW d, NEW s, NEW p \in {"unborn", "init", "read"}, NEW i, NEW f, NEW q,
         KidOK(m, b, d, s, p, i, f, q, TRUE), NEW pp \in {"init", "read"}
  PROVE  KidOK(m, b, d, s, pp, i, f, q, TRUE)
BY DEF KidOK

\* The child reads ^lasti.
LEMMA KidRead ==
  ASSUME NEW m \in Modes, NEW b, NEW d, NEW i, NEW f, NEW q, NEW u, KidOK(m, b, d, "run", "read", i, f, q, u),
         NEW ii, ii = LastiOf(d) + 1, NEW pp, pp = IF ii <= top THEN "loop" ELSE "ended"
  PROVE  KidOK(m, b, d, "run", pp, ii, f, q, u) /\ ii \in 1 .. top + 1
<1>1. q = 0 /\ u /\ Truth(m, b) /\ f = LastiOf(b) + 1
  BY DEF KidOK
<1>2. d = b
  BY <1>1, KidTruth
<1>3. 0 \div LenOf(m) = 0
  BY NoPoint
<1>4. ii = f /\ f \in 1 .. top + 1 /\ top \in Nat
  BY <1>1, <1>2, TruthIs, TopNat
<1> DEFINE t == q \div LenOf(m)
<1>5. t = 0
  BY <1>1, <1>3
<1>6. pp = "loop" => ii = f + t /\ ii <= top
  <2> HIDE DEF t
  <2> QED BY <1>4, <1>5
<1>7. pp \in {"loop", "ended"}
  OBVIOUS
<1> QED BY <1>1, <1>4, <1>6, <1>7 DEF KidOK

\* The child commits.
LEMMA KidCommit ==
  ASSUME NEW m \in Modes, NEW b, NEW d, NEW i, NEW f, NEW q, NEW u, KidOK(m, b, d, "run", "loop", i, f, q, u),
         NEW s, UpdatesOf(m, q % LenOf(m), s), NEW r, r = NextOf(m, q),
         NEW pp, pp = IF r % LenOf(m) = 0 THEN "test" ELSE "loop",
         NEW new, new = [d EXCEPT ![i] = Updated(m, i, d[i], s)]
  PROVE  /\ KidOK(m, b, new, "run", pp, i, f, r, u)
         /\ Incrs(m, r) = Incrs(m, q) + (IF \E k \in DOMAIN s : s[k].node = cntloopNode(m) THEN 1 ELSE 0)
         /\ r # 0 /\ u
<1> DEFINE len == LenOf(m)
           t == q \div len
           e == EndOf[m][q % len]
<1>1. /\ q \in CommitPoints(m) /\ Truth(m, b) /\ d = RunTo(m, b, f, q) /\ f \in 1 .. top + 1 /\ i \in 1 .. top + 1
      /\ u /\ f = LastiOf(b) + 1 /\ i = f + (q \div LenOf(m)) /\ i <= top
  BY DEF KidOK
<1>2. InRun(m, f, q)
  BY <1>1 DEF InRun
<1>3. b \in [1 .. top -> [Nodes(m) -> Values]] /\ top \in Nat /\ len \in Nat \ {0}
  BY <1>1, TruthIs, TopNat, BodyLen
<1>4. new = RunTo(m, b, f, r)
  BY <1>1, <1>2, <1>3, CommitNodes
<1>5. Incrs(m, r) = Incrs(m, q) + (IF \E k \in DOMAIN s : s[k].node = cntloopNode(m) THEN 1 ELSE 0)
  BY <1>2, CommitCount
<1>6. /\ r \in CommitPoints(m) /\ r \in Nat /\ e \in (q % len) + 1 .. len /\ t \in Nat
      /\ r = t * len + e /\ q % len \in 0 .. len - 1
      /\ r % len = (IF e = len THEN 0 ELSE e)
      /\ r \div len = (IF e = len THEN t + 1 ELSE t)
  BY <1>2, InRunIs
<1>7. i = f + t /\ f \in Nat /\ i \in Nat /\ i <= top
  <2>1. f \in 1 .. top + 1 /\ i \in 1 .. top + 1 /\ i <= top /\ i = f + t
    BY <1>1
  <2> HIDE DEF t
  <2> QED BY <1>3, <2>1
<1> HIDE DEF len, t
<1>8. r # 0
  <2> DEFINE x == t * len
             k == q % len
  <2>1. x \in Nat /\ r = x + e /\ k \in 0 .. len - 1 /\ e \in k + 1 .. len
    BY <1>3, <1>6
  <2> HIDE DEF x, e, k
  <2> QED BY <1>3, <2>1
<1> DEFINE w == r \div len
           z == r % len
<1>9. /\ z = 0 => w = t + 1
      /\ z # 0 => w = t
      /\ pp = IF z = 0 THEN "test" ELSE "loop"
  <2>1. e # 0
    <3> DEFINE k == q % len
    <3>1. k \in 0 .. len - 1 /\ e \in k + 1 .. len
      BY <1>6
    <3> HIDE DEF k, e
    <3> QED BY <1>3, <3>1
  <2> HIDE DEF e
  <2> QED BY <1>6, <2>1 DEF len
<1> HIDE DEF w, z
<1>10. /\ f + w <= top + 1
       /\ pp = "loop" => i = f + w /\ i <= top
       /\ pp = "test" => i + 1 = f + w /\ f <= i
  <2>1. f \in Nat /\ i \in Nat /\ i <= top /\ t \in Nat /\ i = f + t /\ top \in Nat
    BY <1>3, <1>6, <1>7
  <2>2. /\ z = 0 => w = t + 1 /\ pp = "test"
        /\ z # 0 => w = t /\ pp = "loop"
    BY <1>9
  <2> QED BY <2>1, <2>2
<1>11. pp \in {"test", "loop"}
  BY <1>9
<1>12. KidOK(m, b, new, "run", pp, i, f, r, u)
  BY <1>1, <1>4, <1>6, <1>8, <1>10, <1>11 DEF KidOK, w, len
<1> QED BY <1>1, <1>5, <1>8, <1>12

\* The child has finished an iteration, and goes on or ends.
LEMMA KidTest ==
  ASSUME NEW m \in Modes, NEW b, NEW d, NEW i, NEW f, NEW q, NEW u, KidOK(m, b, d, "run", "test", i, f, q, u),
         NEW stop, NEW pp, pp = IF stop \/ i + 1 > top THEN "ended" ELSE "loop"
  PROVE  KidOK(m, b, d, "run", pp, i + 1, f, q, u) /\ i + 1 \in 1 .. top + 1
<1> DEFINE t == q \div LenOf(m)
<1>1. /\ q \in CommitPoints(m) /\ f \in 1 .. top + 1 /\ i \in 1 .. top + 1 /\ f + t <= top + 1 /\ i + 1 = f + t /\ u
  BY DEF KidOK
<1>2. top \in Nat /\ t \in Nat
  BY <1>1, PointNat, TopNat
<1> HIDE DEF t
<1>3. i + 1 \in 1 .. top + 1
  BY <1>1, <1>2
<1>4. pp = "loop" => i + 1 = f + t /\ i + 1 <= top
  BY <1>1, <1>2, <1>3
<1>5. pp \in {"loop", "ended"}
  OBVIOUS
<1> DEFINE ii == i + 1
<1>6. (pp = "loop" => ii = f + t /\ ii <= top) /\ ii \in 1 .. top + 1
  BY <1>3, <1>4
<1> HIDE DEF ii
<1>7. KidOK(m, b, d, "run", pp, ii, f, q, u)
  BY <1>1, <1>5, <1>6 DEF KidOK, t
<1> QED BY <1>6, <1>7 DEF ii

\* The child fails, or is terminated or killed.
LEMMA KidDies ==
  ASSUME NEW m \in Modes, NEW b, NEW d, NEW s \in {"run", "gone"}, NEW p, NEW i, NEW f, NEW q,
         KidOK(m, b, d, s, p, i, f, q, TRUE), NEW ss \in {"gone", "killed"}, ss = "killed" => m.crash
  PROVE  KidOK(m, b, d, ss, p, i, f, q, TRUE)
BY DEF KidOK

\* What recovery gives back of the child.
LEMMA KidRecover ==
  ASSUME NEW m \in Modes, NEW b, NEW d, NEW p, NEW i, NEW f, NEW q, NEW u, KidOK(m, b, d, "killed", p, i, f, q, u),
         NEW cut \in CutsOf[m][q], NEW new, new = Recovered(m, b, f, cut)
  PROVE  /\ KidOK(m, new, new, "recovered", p, i, f, 0, u)
         /\ cut[cntloopRegion(m)] \in 0 .. q /\ q \in Nat /\ m.crash /\ u
<1>1. /\ q \in CommitPoints(m) /\ Truth(m, b) /\ f \in 1 .. top + 1 /\ i \in 1 .. top + 1
      /\ f = LastiOf(b) + 1 /\ m.crash /\ u
  BY DEF KidOK
<1>2. q \in Nat
  BY <1>1, PointNat
<1>3. cut \in Cuts(m, q)
  BY <1>1 DEF CutsOf
<1>4. cut \in [m.letters -> Nat]
  BY <1>2, <1>3, CutsAre
<1>5. \A n \in 1 .. top : n >= f => Tells(m, Parts(m, cut, f, n))
  BY <1>1, <1>2, <1>3, CutTells
<1>6. Truth(m, new)
  BY <1>1, <1>4, <1>5, TruthKept
<1>7. new = RunTo(m, new, f, 0)
  BY <1>1, <1>6, KidFresh
<1>8. 0 \in CommitPoints(m) /\ 0 \div LenOf(m) = 0
  BY NoPoint
<1>9. f + (0 \div LenOf(m)) <= top + 1
  BY <1>1, <1>8, TopNat
<1>10. KidOK(m, new, new, "recovered", p, i, f, 0, u)
  BY <1>1, <1>6, <1>7, <1>8, <1>9 DEF KidOK
<1>11. cut[cntloopRegion(m)] \in 0 .. q
  <2>1. cntloopRegion(m) \in m.letters
    BY NodesAre DEF cntloopRegion
  <2> QED BY <1>2, <1>3, <2>1, CutBound
<1> QED BY <1>1, <1>2, <1>10, <1>11

\* The fill is down.
LEMMA KidDown ==
  ASSUME NEW m \in Modes, NEW b, NEW d, NEW s, NEW p, NEW i, NEW f, NEW q, NEW u, KidOK(m, b, d, s, p, i, f, q, u),
         s = "recovered" \/ (s = "run" /\ p = "ended")
  PROVE  KidOK(m, d, d, s, p, 1, f, 0, FALSE)
<1>1. Truth(m, d) /\ f \in 1 .. top + 1
  <2>1. Truth(m, d)
    BY KidTruth
  <2> QED BY <2>1 DEF KidOK
<1>2. d = RunTo(m, d, f, 0)
  BY <1>1, KidFresh
<1>3. 0 \in CommitPoints(m) /\ 0 \div LenOf(m) = 0
  BY NoPoint
<1>4. f + (0 \div LenOf(m)) <= top + 1 /\ 1 \in 1 .. top + 1
  BY <1>1, <1>3, TopNat
<1> QED BY <1>1, <1>2, <1>3, <1>4 DEF KidOK

-----------------------------------------------------------------------------
(* The invariant *)

Types ==
    /\ mode \in Modes
    /\ main \in {"down", "mismatch", "fork", "record", "first", "sync", "returned"}
    /\ forked \in 0 .. Cardinality(Jobs)
    /\ method \in {"c", "ci"}
    /\ jobwait \in [Jobs -> 0 .. MaxStarts]
    /\ endloop \in BOOLEAN
    /\ starts \in 0 .. MaxStarts
    /\ cpc \in [Jobs -> {"unborn", "init", "read", "loop", "test", "ended"}]
    /\ status \in [Jobs -> {"run", "gone", "killed", "recovered"}]
    /\ loop \in [Jobs -> 1 .. top + 1]
    /\ done \in [Jobs -> 0 .. top * LenOf(mode)]
    /\ pos \in [Jobs -> 0 .. Len(tpfn_stage1(mode, 1))]
    /\ tries \in [Jobs -> 0 .. LastTry]
    /\ nodes \in [Jobs -> [1 .. top -> [Nodes(mode) -> Values]]]
    /\ base \in [Jobs -> [1 .. top -> [Nodes(mode) -> Values]]]
    /\ first \in [Jobs -> 1 .. top + 1]

KidsOK == \A j \in Jobs : KidOK(mode, base[j], nodes[j], status[j], cpc[j], loop[j], first[j], done[j], up)

Ready == {j \in Jobs : cpc[j] \notin {"unborn", "init"}}

\* main has forked the jobs 1 .. forked, and recorded all of them but perhaps the last.
ForkedOK ==
    /\ up => starts >= 1
    /\ main = "fork" => forked < Cardinality(Jobs)
    /\ main = "record" => forked >= 1
    /\ main \in {"first", "sync", "returned"} => forked = Cardinality(Jobs)
    /\ up => \A j \in Jobs : /\ j > forked => cpc[j] = "unborn"
                             /\ j < forked \/ (j = forked /\ main # "record") => jobwait[j] = starts
    /\ main \in {"fork", "record", "first", "sync"} => \A j \in Jobs : status[j] \in {"run", "gone"}

\* jsyncnt counts each job once.
ReadyOK ==
    /\ jsyncnt = Cardinality(Ready)
    /\ main = "returned" => Ready = Jobs

\* What the runs of a job before this one added to ^cntloop is x, after n starts; live:
\* this one is not over.
Earlier(x, n, live) == x \in 0 .. top * n /\ (live => x <= top * (n - 1))

Live(j) == up /\ status[j] # "recovered"

CntloopOK ==
    \E g : /\ Adds(mode, Jobs, g, done, cntloop)
           /\ \A j \in Jobs : Earlier(g[j], starts, Live(j))

NoNodes == [n \in 1 .. top |-> [x \in Nodes(mode) |-> "undef"]]

\* The first start finds an empty database, and is seen to have come through Stage 9.
FirstOK ==
    /\ starts = 0 => main = "down" /\ \A j \in Jobs : base[j] = NoNodes
    /\ starts = 1 /\ up /\ (\A j \in Jobs : status[j] \in {"run", "gone"}) =>
          /\ \A j \in Jobs : base[j] = NoNodes
          /\ main \in {"sync", "returned"} => \E j \in Jobs : Incrs(mode, done[j]) # 0

IInv == Types /\ KidsOK /\ ForkedOK /\ ReadyOK /\ CntloopOK /\ FirstOK

\* The jobs are 1 .. n.
LEMMA JobsAre ==
  ASSUME mode \in Modes
  PROVE  /\ IsFiniteSet(Jobs) /\ Cardinality(Jobs) \in Nat \ {0} /\ Jobs = 1 .. Cardinality(Jobs)
         /\ Jobs \subseteq 1 .. jobcnt
<1>1. PICK n \in 1 .. jobcnt : mode.jobs = 1 .. n
  BY ModeIs
<1>2. jobcnt \in Nat /\ mode.jobs \subseteq 1 .. jobcnt
  BY ModeIs, StageAssumption
<1>3. n \in Nat \ {0} /\ 1 \in Nat
  BY <1>1, <1>2
<1>4. IsFiniteSet(1 .. n) /\ Cardinality(1 .. n) = n
  BY <1>3, FS_Interval
<1> QED BY <1>1, <1>2, <1>3, <1>4 DEF Jobs

LEMMA IInvJob ==
  ASSUME IInv, NEW j \in Jobs
  PROVE  /\ mode \in Modes /\ j \in 1 .. Cardinality(Jobs)
         /\ KidOK(mode, base[j], nodes[j], status[j], cpc[j], loop[j], first[j], done[j], up)
         /\ N = LenOf(mode) /\ CommitOf[mode] = EndOf[mode] /\ IterationOf[mode] = BodyOf[mode]
         /\ starts \in Nat /\ done[j] \in Nat
<1>1. mode \in Modes /\ Jobs = 1 .. Cardinality(Jobs)
  <2>1. mode \in Modes
    BY DEF IInv, Types
  <2> QED BY <2>1, JobsAre
<1>2. IterationOf[mode] = BodyOf[mode] /\ CommitOf[mode] = EndOf[mode]
  BY <1>1, SameBody
<1>3. N = LenOf(mode)
  BY <1>2, Zenon DEF N, LenOf
<1>4. KidOK(mode, base[j], nodes[j], status[j], cpc[j], loop[j], first[j], done[j], up)
  BY DEF IInv, KidsOK
<1>5. done[j] \in CommitPoints(mode)
  BY <1>4 DEF KidOK
<1>6. done[j] \in Nat
  BY <1>1, <1>5, PointNat
<1>7. starts \in Nat
  BY CImptpAssumption DEF IInv, Types
<1> QED BY <1>1, <1>2, <1>3, <1>4, <1>6, <1>7, Zenon

LEMMA StartsBound ==
  ASSUME NEW s \in 0 .. MaxStarts
  PROVE  top * s \in Nat /\ top * MaxStarts \in Nat /\ top * s <= top * MaxStarts
<1>1. top \in Nat /\ MaxStarts \in Nat
  BY TopNat, CImptpAssumption
<1>2. s * top <= MaxStarts * top /\ s * top \in Nat /\ MaxStarts * top \in Nat
  BY <1>1, TimesMono
<1>3. top * s = s * top /\ top * MaxStarts = MaxStarts * top
  BY <1>1
<1> QED BY <1>2, <1>3

\* A job counts each iteration at most once in each run.
LEMMA CountBound ==
  ASSUME NEW m \in Modes, NEW q \in CommitPoints(m), NEW s \in Nat, NEW g, NEW live, Earlier(g, s, live), q # 0 => live
  PROVE  g + Incrs(m, q) \in 0 .. top * s /\ Incrs(m, q) \in 0 .. top
<1>1. q \in Nat /\ q <= top * LenOf(m)
  BY PointNat
<1>2. Incrs(m, q) \in 0 .. top /\ top \in Nat
  BY <1>1, IncrsIs, TopNat
<1>3. g \in 0 .. top * s /\ (q # 0 => g <= top * (s - 1))
  BY DEF Earlier
<1>4. q = 0 => Incrs(m, q) = 0
  BY NoPoint
<1>5. top * s = top * (s - 1) + top /\ top * s \in Nat /\ top * (s - 1) \in Int
  BY <1>2
<1> DEFINE x == top * s
           y == top * (s - 1)
<1>6. x = y + top /\ x \in Nat /\ y \in Int /\ g \in 0 .. x /\ (q # 0 => g <= y)
  BY <1>3, <1>5
<1> HIDE DEF x, y
<1>7. g + Incrs(m, q) \in 0 .. x
  BY <1>2, <1>4, <1>6
<1> QED BY <1>2, <1>7 DEF x

\* ^cntloop is a number, that the starts and the bound top limit.
LEMMA IInvCount ==
  ASSUME IInv
  PROVE  cntloop \in 0 .. Cardinality(Jobs) * top * MaxStarts /\ cntloop \in Int
<1>1. PICK g : Adds(mode, Jobs, g, done, cntloop) /\ \A j \in Jobs : Earlier(g[j], starts, Live(j))
  BY DEF IInv, CntloopOK
<1>2. mode \in Modes /\ starts \in 0 .. MaxStarts /\ starts \in Nat
  BY CImptpAssumption DEF IInv, Types
<1> DEFINE b == top * MaxStarts
<1>3. top * starts \in Nat /\ b \in Nat /\ top * starts <= b
  BY <1>2, StartsBound
<1> HIDE DEF b
<1>4. ASSUME NEW j \in Jobs PROVE g[j] + Incrs(mode, done[j]) \in 0 .. b
  <2>1. done[j] \in CommitPoints(mode) /\ (done[j] # 0 => Live(j))
    BY IInvJob DEF KidOK, Live
  <2>2. g[j] + Incrs(mode, done[j]) \in 0 .. top * starts
    BY <1>1, <1>2, <2>1, CountBound
  <2> DEFINE x == g[j] + Incrs(mode, done[j])
             y == top * starts
  <2>3. x \in 0 .. y /\ y \in Nat /\ y <= b
    BY <1>3, <2>2
  <2> HIDE DEF x, y
  <2>4. x \in 0 .. b
    BY <1>3, <2>3
  <2> QED BY <2>4 DEF x
<1>5. Jobs \subseteq 1 .. jobcnt /\ Cardinality(Jobs) \in Nat
  BY <1>2, JobsAre
<1>6. cntloop \in 0 .. Cardinality(Jobs) * b
  BY <1>1, <1>2, <1>3, <1>4, <1>5, AddsBound
<1>7. Cardinality(Jobs) * b = Cardinality(Jobs) * top * MaxStarts /\ Cardinality(Jobs) * b \in Nat
  <2>1. top \in Nat /\ MaxStarts \in Nat
    BY TopNat, CImptpAssumption
  <2> QED BY <1>5, <2>1 DEF b
<1> QED BY <1>6, <1>7

LEMMA InitInv == Init => IInv
<1> SUFFICES ASSUME Init PROVE IInv
  OBVIOUS
<1>1. /\ mode \in Modes /\ main = "down" /\ forked = 0 /\ method = "c" /\ jobwait = [j \in Jobs |-> 0] /\ jsyncnt = 0
      /\ endloop = FALSE /\ cntloop = 0 /\ starts = 0
      /\ cpc = [j \in Jobs |-> "unborn"] /\ status = [j \in Jobs |-> "run"] /\ loop = [j \in Jobs |-> 1]
      /\ done = [j \in Jobs |-> 0] /\ pos = [j \in Jobs |-> 0] /\ tries = [j \in Jobs |-> 0]
      /\ nodes = [j \in Jobs |-> NoNodes] /\ base = nodes /\ first = [j \in Jobs |-> 1]
  BY DEF Init, NoNodes
<1>2. /\ top \in Nat \ {0} /\ LenOf(mode) \in Nat \ {0} /\ MaxStarts \in Nat \ {0} /\ LastTry \in Nat
      /\ top * LenOf(mode) \in Nat /\ Len(tpfn_stage1(mode, 1)) \in Nat
  <2>1. LenOf(mode) \in Nat \ {0} /\ top \in Nat \ {0} /\ MaxStarts \in Nat \ {0} /\ LastTry \in Nat
    BY <1>1, BodyLen, TopNat, CImptpAssumption
  <2>2. top * LenOf(mode) \in Nat
    BY <2>1
  <2>3. Len(tpfn_stage1(mode, 1)) \in {9, 10}
    BY <1>1, CallbackLen
  <2> QED BY <2>1, <2>2, <2>3
<1>3. NoNodes \in [1 .. top -> [Nodes(mode) -> Values]]
  BY DEF NoNodes, Values
<1>4. Types
  <2>1. Cardinality(Jobs) \in Nat
    BY <1>1, JobsAre
  <2>2. 0 \in 0 .. top * LenOf(mode) /\ 0 \in 0 .. Len(tpfn_stage1(mode, 1)) /\ 1 \in 1 .. top + 1
    BY <1>2
  <2> HIDE DEF NoNodes
  <2>3. /\ nodes \in [Jobs -> [1 .. top -> [Nodes(mode) -> Values]]]
        /\ base \in [Jobs -> [1 .. top -> [Nodes(mode) -> Values]]]
    BY <1>1, <1>3
  <2>4. /\ forked \in 0 .. Cardinality(Jobs) /\ starts \in 0 .. MaxStarts /\ jobwait \in [Jobs -> 0 .. MaxStarts]
        /\ tries \in [Jobs -> 0 .. LastTry]
    BY <1>1, <1>2, <2>1
  <2>5. /\ loop \in [Jobs -> 1 .. top + 1] /\ done \in [Jobs -> 0 .. top * LenOf(mode)]
        /\ pos \in [Jobs -> 0 .. Len(tpfn_stage1(mode, 1))] /\ first \in [Jobs -> 1 .. top + 1]
    BY <1>1, <2>2
  <2>6. /\ cpc \in [Jobs -> {"unborn", "init", "read", "loop", "test", "ended"}]
        /\ status \in [Jobs -> {"run", "gone", "killed", "recovered"}]
    BY <1>1
  <2> QED BY <1>1, <2>3, <2>4, <2>5, <2>6 DEF Types
<1>5. up = FALSE
  BY <1>1 DEF up
<1>6. KidsOK
  <2> SUFFICES ASSUME NEW j \in Jobs
               PROVE  KidOK(mode, base[j], nodes[j], status[j], cpc[j], loop[j], first[j], done[j], up)
    BY DEF KidsOK
  <2>1. Truth(mode, NoNodes)
    <3> DEFINE d == NoNodes
    <3>1. d = [n \in 1 .. top |-> [x \in Nodes(mode) |-> "undef"]]
      BY Zenon DEF NoNodes
    <3> HIDE DEF d
    <3>2. Truth(mode, d)
      BY <1>1, <3>1, EmptyTruth
    <3> QED BY <3>2 DEF d
  <2>2. NoNodes = RunTo(mode, NoNodes, 1, 0)
    <3>1. 1 \in 1 .. top + 1
      BY <1>2
    <3> QED BY <1>1, <2>1, <3>1, KidFresh
  <2>3. 0 \in CommitPoints(mode) /\ 0 \div LenOf(mode) = 0
    BY <1>1, NoPoint
  <2>4. 1 + (0 \div LenOf(mode)) <= top + 1 /\ 1 \in 1 .. top + 1
    BY <1>2, <2>3
  <2>5. KidOK(mode, NoNodes, NoNodes, "run", "unborn", 1, 1, 0, FALSE)
    <3> HIDE DEF NoNodes
    <3> QED BY <2>1, <2>2, <2>3, <2>4 DEF KidOK
  <2>6. base[j] = NoNodes /\ nodes[j] = NoNodes /\ status[j] = "run" /\ cpc[j] = "unborn" /\ loop[j] = 1 /\ first[j] = 1
        /\ done[j] = 0
    BY <1>1
  <2> QED BY <1>5, <2>5, <2>6
<1>7. ForkedOK
  BY <1>1, <1>5 DEF ForkedOK
<1>8. ReadyOK
  <2>1. Ready = {}
    BY <1>1 DEF Ready
  <2> QED BY <1>1, <2>1, FS_EmptySet DEF ReadyOK
<1>9. CntloopOK
  <2>1. Adds(mode, Jobs, [j \in Jobs |-> 0], [j \in Jobs |-> 0], 0)
    BY <1>1, JobsAre, AddsZero
  <2>2. \A j \in Jobs : Earlier([i \in Jobs |-> 0][j], starts, Live(j))
    BY <1>1, <1>2, <1>5 DEF Earlier, Live
  <2> QED BY <1>1, <2>1, <2>2 DEF CntloopOK
<1>10. FirstOK
  BY <1>1, <1>5 DEF FirstOK
<1> QED BY <1>4, <1>6, <1>7, <1>8, <1>9, <1>10 DEF IInv

-----------------------------------------------------------------------------
(* The steps of the children *)

\* What is true of the jobs is true of one of them.
LEMMA JobIs ==
  ASSUME Types, NEW j \in Jobs
  PROVE  /\ cpc[j] \in {"unborn", "init", "read", "loop", "test", "ended"}
         /\ status[j] \in {"run", "gone", "killed", "recovered"}
         /\ loop[j] \in 1 .. top + 1 /\ done[j] \in 0 .. top * LenOf(mode)
         /\ pos[j] \in 0 .. Len(tpfn_stage1(mode, 1)) /\ tries[j] \in 0 .. LastTry
         /\ first[j] \in 1 .. top + 1
         /\ nodes[j] \in [1 .. top -> [Nodes(mode) -> Values]]
BY DEF Types

\* A step of one child.
LEMMA OneKid ==
  ASSUME IInv, NEW j \in Jobs, Types', UNCHANGED <<mode, main, forked, jobwait, starts, first>>,
         \A i \in Jobs : i # j => /\ base'[i] = base[i] /\ nodes'[i] = nodes[i] /\ status'[i] = status[i]
                                  /\ cpc'[i] = cpc[i] /\ loop'[i] = loop[i],
         done' = [done EXCEPT ![j] = done'[j]],
         KidOK(mode, base'[j], nodes'[j], status'[j], cpc'[j], loop'[j], first[j], done'[j], up),
         cpc[j] = "unborn" => cpc'[j] = "unborn",
         main \in {"fork", "record", "first", "sync"} => status'[j] \in {"run", "gone"},
         ReadyOK',
         \A g \in Nat : Earlier(g, starts, Live(j)) =>
            \E h \in Nat : /\ Earlier(h, starts, Live(j)')
                           /\ cntloop' = cntloop + ((h + Incrs(mode, done'[j])) - (g + Incrs(mode, done[j]))),
         base'[j] = base[j] \/ (status'[j] = "recovered" /\ up),
         status'[j] \in {"run", "gone"} => /\ status[j] \in {"run", "gone"}
                                           /\ Incrs(mode, done[j]) # 0 => Incrs(mode, done'[j]) # 0
  PROVE  IInv'
<1>1. /\ mode' = mode /\ main' = main /\ forked' = forked /\ jobwait' = jobwait /\ starts' = starts /\ first' = first
      /\ Jobs' = Jobs /\ up' = up /\ NoNodes' = NoNodes
  BY DEF Jobs, up, NoNodes
<1>2. Types /\ KidsOK /\ ForkedOK /\ CntloopOK /\ FirstOK
  BY DEF IInv
<1>3. /\ mode \in Modes /\ Jobs \subseteq 1 .. jobcnt /\ starts \in Nat
  <2>1. mode \in Modes
    BY <1>2 DEF Types
  <2> QED BY <2>1, JobsAre, IInvJob
<1>4. \A i \in Jobs : i # j => done'[i] = done[i]
  BY <1>2 DEF Types
<1>5. KidsOK'
  <2> SUFFICES ASSUME NEW i \in Jobs
               PROVE  KidOK(mode, base'[i], nodes'[i], status'[i], cpc'[i], loop'[i], first[i], done'[i], up)
    BY <1>1 DEF KidsOK
  <2>1. CASE i = j
    BY <2>1
  <2>2. CASE i # j
    <3>1. KidOK(mode, base[i], nodes[i], status[i], cpc[i], loop[i], first[i], done[i], up)
      BY <1>2 DEF KidsOK
    <3>2. /\ base'[i] = base[i] /\ nodes'[i] = nodes[i] /\ status'[i] = status[i]
          /\ cpc'[i] = cpc[i] /\ loop'[i] = loop[i] /\ done'[i] = done[i]
      BY <1>4, <2>2
    <3> QED BY <3>1, <3>2
  <2> QED BY <2>1, <2>2
<1>6. ForkedOK'
  <2>1. \A i \in Jobs : /\ cpc[i] = "unborn" => cpc'[i] = "unborn"
                        /\ main \in {"fork", "record", "first", "sync"} => status'[i] \in {"run", "gone"}
    BY <1>2 DEF ForkedOK
  <2>2. /\ up => starts >= 1
        /\ main = "fork" => forked < Cardinality(Jobs)
        /\ main = "record" => forked >= 1
        /\ main \in {"first", "sync", "returned"} => forked = Cardinality(Jobs)
        /\ up => \A i \in Jobs : /\ i > forked => cpc'[i] = "unborn"
                                 /\ i < forked \/ (i = forked /\ main # "record") => jobwait[i] = starts
    BY <1>2, <2>1 DEF ForkedOK
  <2> QED BY <1>1, <2>1, <2>2 DEF ForkedOK
<1>7. CntloopOK'
  <2>1. PICK g : Adds(mode, Jobs, g, done, cntloop) /\ \A i \in Jobs : Earlier(g[i], starts, Live(i))
    BY <1>2 DEF CntloopOK
  <2>2. g \in [Jobs -> Nat]
    BY <2>1 DEF Adds
  <2>3. PICK h \in Nat : /\ Earlier(h, starts, Live(j)')
                         /\ cntloop' = cntloop + ((h + Incrs(mode, done'[j])) - (g[j] + Incrs(mode, done[j])))
    <3>1. g[j] \in Nat /\ Earlier(g[j], starts, Live(j))
      BY <2>1, <2>2
    <3> QED BY <3>1
  <2> DEFINE r == done'[j]
             n == [g EXCEPT ![j] = h]
  <2>4. r \in Nat
    <3>1. r \in CommitPoints(mode)
      BY DEF KidOK
    <3> QED BY <1>3, <3>1, PointNat
  <2>5. done' = [done EXCEPT ![j] = r]
    OBVIOUS
  <2> HIDE DEF r
  <2>6. Adds(mode, Jobs, n, [done EXCEPT ![j] = r], cntloop')
    <3>1. cntloop' = cntloop + ((h + Incrs(mode, r)) - (g[j] + Incrs(mode, done[j])))
      BY <2>3 DEF r
    <3> QED BY <1>3, <2>1, <2>4, <3>1, AddsOne
  <2>7. Adds(mode', Jobs', n, done', cntloop')
    BY <1>1, <2>5, <2>6
  <2>8. \A i \in Jobs : Earlier(n[i], starts, Live(i)')
    <3> SUFFICES ASSUME NEW i \in Jobs PROVE Earlier(n[i], starts, Live(i)')
      OBVIOUS
    <3>1. CASE i = j
      BY <2>2, <2>3, <3>1
    <3>2. CASE i # j
      <4>1. n[i] = g[i] /\ (Live(i)' <=> Live(i))
        BY <1>1, <2>2, <3>2 DEF Live
      <4> QED BY <2>1, <4>1 DEF Earlier
    <3> QED BY <3>1, <3>2
  <2> HIDE DEF n
  <2>9. \A i \in Jobs' : Earlier(n[i], starts', Live(i)')
    BY <1>1, <2>8
  <2> QED BY <2>7, <2>9 DEF CntloopOK
<1>8. FirstOK'
  <2>1. ASSUME starts = 0 PROVE main = "down" /\ \A i \in Jobs : base'[i] = NoNodes
    <3>1. main = "down" /\ ~up
      BY <1>2, <2>1 DEF FirstOK, up
    <3> QED BY <1>2, <2>1, <3>1 DEF FirstOK
  <2>2. ASSUME starts = 1, up, \A i \in Jobs : status'[i] \in {"run", "gone"}
        PROVE  /\ \A i \in Jobs : base'[i] = NoNodes
               /\ main \in {"sync", "returned"} => \E i \in Jobs : Incrs(mode, done'[i]) # 0
    <3>1. \A i \in Jobs : status[i] \in {"run", "gone"}
      BY <2>2
    <3>2. \A i \in Jobs : base'[i] = base[i]
      BY <2>2
    <3>3. \A i \in Jobs : Incrs(mode, done[i]) # 0 => Incrs(mode, done'[i]) # 0
      BY <1>4, <2>2
    <3>4. /\ \A i \in Jobs : base[i] = NoNodes
          /\ main \in {"sync", "returned"} => \E i \in Jobs : Incrs(mode, done[i]) # 0
      BY <1>2, <2>2, <3>1 DEF FirstOK
    <3> QED BY <3>2, <3>3, <3>4
  <2> QED BY <1>1, <2>1, <2>2 DEF FirstOK
<1> QED BY <1>5, <1>6, <1>7, <1>8 DEF IInv

\* What is counted does not change.
LEMMA SameCounts ==
  ASSUME IInv, NEW j \in Jobs, UNCHANGED <<mode, main, starts, done, cntloop>>, status'[j] # "recovered" => status[j] # "recovered"
  PROVE  \A g \in Nat : Earlier(g, starts, Live(j)) =>
            \E h \in Nat : /\ Earlier(h, starts, Live(j)')
                           /\ cntloop' = cntloop + ((h + Incrs(mode, done'[j])) - (g + Incrs(mode, done[j])))
<1> SUFFICES ASSUME NEW g \in Nat, Earlier(g, starts, Live(j))
             PROVE  /\ Earlier(g, starts, Live(j)')
                    /\ cntloop' = cntloop + ((g + Incrs(mode, done'[j])) - (g + Incrs(mode, done[j])))
  OBVIOUS
<1>1. Live(j)' => Live(j)
  BY DEF Live, up
<1>2. Earlier(g, starts, Live(j)')
  BY <1>1 DEF Earlier
<1>3. cntloop \in Int
  BY IInvCount
<1> DEFINE x == Incrs(mode, done[j])
<1>4. x \in Nat /\ Incrs(mode, done'[j]) = x
  <2>1. mode \in Modes /\ done[j] \in Nat
    BY IInvJob
  <2> QED BY <2>1, IncrsIs
<1> HIDE DEF x
<1>5. cntloop' = cntloop + ((g + x) - (g + x))
  BY <1>3, <1>4
<1> QED BY <1>2, <1>4, <1>5 DEF x

\* The children that are past jsyncnt stay so.
LEMMA SameReady ==
  ASSUME IInv, NEW j \in Jobs, UNCHANGED <<mode, main, jsyncnt>>, \A i \in Jobs : i # j => cpc'[i] = cpc[i],
         cpc'[j] \in {"unborn", "init"} <=> cpc[j] \in {"unborn", "init"}
  PROVE  ReadyOK'
<1>1. Ready' = Ready /\ Jobs' = Jobs
  <2>1. Jobs' = Jobs
    BY DEF Jobs
  <2>2. \A i \in Jobs : cpc'[i] \notin {"unborn", "init"} <=> cpc[i] \notin {"unborn", "init"}
    OBVIOUS
  <2> QED BY <2>1, <2>2 DEF Ready
<1> QED BY <1>1 DEF IInv, ReadyOK

LEMMA SyncInv ==
  ASSUME IInv, NEW j \in Jobs, Sync(j)
  PROVE  IInv'
<1>1. Types /\ ReadyOK
  BY DEF IInv
<1>2. /\ mode' = mode /\ main' = main /\ forked' = forked /\ method' = method /\ jobwait' = jobwait
      /\ endloop' = endloop /\ cntloop' = cntloop /\ starts' = starts /\ status' = status /\ loop' = loop
      /\ done' = done /\ pos' = pos /\ tries' = tries /\ nodes' = nodes /\ base' = base /\ first' = first
      /\ jsyncnt' = jsyncnt + 1 /\ cpc' = [cpc EXCEPT ![j] = "read"] /\ status[j] = "run" /\ cpc[j] = "init"
      /\ Jobs' = Jobs
  BY DEF Sync, At, parent, Jobs
<1>3. cpc'[j] = "read" /\ \A i \in Jobs : i # j => cpc'[i] = cpc[i]
  BY <1>1, <1>2 DEF Types
<1>4. /\ mode \in Modes /\ KidOK(mode, base[j], nodes[j], "run", "init", loop[j], first[j], done[j], up)
      /\ IsFiniteSet(Jobs)
  <2>1. /\ mode \in Modes
        /\ KidOK(mode, base[j], nodes[j], status[j], cpc[j], loop[j], first[j], done[j], up)
    BY IInvJob
  <2> QED BY <1>2, <2>1, JobsAre
<1>5. up
  BY <1>4 DEF KidOK
<1>6. KidOK(mode, base'[j], nodes'[j], status'[j], cpc'[j], loop'[j], first[j], done'[j], up)
  <2>1. KidOK(mode, base[j], nodes[j], "run", "read", loop[j], first[j], done[j], up)
    <3>1. up = TRUE
      BY <1>5 DEF up
    <3> QED BY <1>4, <3>1, KidMoves
  <2> QED BY <1>2, <1>3, <2>1
<1>7. Types'
  BY <1>1, <1>2 DEF Types
<1>8. ReadyOK'
  <2>1. Ready' = Ready \cup {j} /\ j \notin Ready /\ Ready \subseteq Jobs
    BY <1>2, <1>3 DEF Ready
  <2>2. IsFiniteSet(Ready)
    BY <1>4, <2>1, FS_Subset
  <2>3. Cardinality(Ready') = Cardinality(Ready) + 1
    BY <2>1, <2>2, FS_AddElement
  <2>4. main # "returned"
    BY <1>1, <2>1 DEF ReadyOK
  <2> QED BY <1>1, <1>2, <2>3, <2>4 DEF ReadyOK
<1>9. done' = [done EXCEPT ![j] = done'[j]]
  BY <1>1, <1>2 DEF Types
<1>10. \A g \in Nat : Earlier(g, starts, Live(j)) =>
          \E h \in Nat : /\ Earlier(h, starts, Live(j)')
                         /\ cntloop' = cntloop + ((h + Incrs(mode, done'[j])) - (g + Incrs(mode, done[j])))
  BY <1>2, SameCounts
<1> QED BY <1>2, <1>3, <1>6, <1>7, <1>8, <1>9, <1>10, OneKid

LEMMA ReadLastiInv ==
  ASSUME IInv, NEW j \in Jobs, ReadLasti(j)
  PROVE  IInv'
<1> DEFINE ii == LastiOf(nodes[j]) + 1
           pp == IF ii <= top THEN "loop" ELSE "ended"
<1>1. Types
  BY DEF IInv
<1>2. /\ mode' = mode /\ main' = main /\ forked' = forked /\ method' = method /\ jobwait' = jobwait
      /\ endloop' = endloop /\ cntloop' = cntloop /\ starts' = starts /\ status' = status
      /\ done' = done /\ pos' = pos /\ tries' = tries /\ nodes' = nodes /\ base' = base /\ first' = first
      /\ jsyncnt' = jsyncnt /\ status[j] = "run" /\ cpc[j] = "read" /\ Jobs' = Jobs
      /\ loop' = [loop EXCEPT ![j] = ii] /\ cpc' = [cpc EXCEPT ![j] = IF loop'[j] <= top THEN "loop" ELSE "ended"]
  BY DEF ReadLasti, At, parent, Jobs
<1>3. loop'[j] = ii /\ cpc' = [cpc EXCEPT ![j] = pp] /\ cpc'[j] = pp
  BY <1>1, <1>2 DEF Types
<1>4. /\ mode \in Modes /\ KidOK(mode, base[j], nodes[j], "run", "read", loop[j], first[j], done[j], up)
  <2>1. /\ mode \in Modes
        /\ KidOK(mode, base[j], nodes[j], status[j], cpc[j], loop[j], first[j], done[j], up)
    BY IInvJob
  <2> QED BY <1>2, <2>1
<1>5. KidOK(mode, base[j], nodes[j], "run", pp, ii, first[j], done[j], up) /\ ii \in 1 .. top + 1
  BY <1>4, KidRead
<1>6. pp \in {"loop", "ended"}
  OBVIOUS
<1> HIDE DEF ii, pp
<1>7. \A i \in Jobs : i # j => cpc'[i] = cpc[i] /\ loop'[i] = loop[i]
  BY <1>1, <1>2, <1>3 DEF Types
<1>8. KidOK(mode, base'[j], nodes'[j], status'[j], cpc'[j], loop'[j], first[j], done'[j], up)
  BY <1>2, <1>3, <1>5
<1>9. Types'
  BY <1>1, <1>2, <1>3, <1>5, <1>6 DEF Types
<1>10. ReadyOK'
  BY <1>2, <1>3, <1>6, <1>7, SameReady
<1>11. done' = [done EXCEPT ![j] = done'[j]]
  BY <1>1, <1>2 DEF Types
<1>12. \A g \in Nat : Earlier(g, starts, Live(j)) =>
          \E h \in Nat : /\ Earlier(h, starts, Live(j)')
                         /\ cntloop' = cntloop + ((h + Incrs(mode, done'[j])) - (g + Incrs(mode, done[j])))
  BY <1>2, SameCounts
<1> QED BY <1>2, <1>7, <1>8, <1>9, <1>10, <1>11, <1>12, OneKid

\* A step that no child takes to its end: the calls of a callback, and those of main.
LEMMA SameKids ==
  ASSUME IInv, Types', UNCHANGED <<mode, jsyncnt, cntloop, starts, cpc, status, loop, done, nodes, base, first>>,
         up' = up, ForkedOK', main' = "returned" => Ready = Jobs,
         starts = 0 => main' = "down",
         starts = 1 /\ up /\ main' \in {"sync", "returned"} =>
            main \in {"sync", "returned"} \/ \E j \in Jobs : Incrs(mode, done[j]) # 0
  PROVE  IInv'
<1>1. /\ mode' = mode /\ starts' = starts /\ Jobs' = Jobs /\ NoNodes' = NoNodes /\ Ready' = Ready
      /\ jsyncnt' = jsyncnt /\ cntloop' = cntloop /\ done' = done /\ status' = status
  BY DEF Jobs, NoNodes, Ready
<1>2. KidsOK /\ ReadyOK /\ CntloopOK /\ FirstOK
  BY DEF IInv
<1>3. KidsOK'
  BY <1>1, <1>2 DEF KidsOK
<1>4. ReadyOK'
  BY <1>1, <1>2 DEF ReadyOK
<1>5. CntloopOK'
  <2>1. PICK g : Adds(mode, Jobs, g, done, cntloop) /\ \A j \in Jobs : Earlier(g[j], starts, Live(j))
    BY <1>2 DEF CntloopOK
  <2>2. \A j \in Jobs : Live(j)' <=> Live(j)
    BY <1>1 DEF Live
  <2>3. \A j \in Jobs' : Earlier(g[j], starts', Live(j)')
    BY <1>1, <2>1, <2>2 DEF Earlier
  <2>4. Adds(mode', Jobs', g, done', cntloop')
    BY <1>1, <2>1
  <2> QED BY <2>3, <2>4 DEF CntloopOK
<1>6. FirstOK'
  <2>1. base' = base
    OBVIOUS
  <2> QED BY <1>1, <1>2, <2>1 DEF FirstOK
<1> QED BY <1>3, <1>4, <1>5, <1>6 DEF IInv

\* A step of which the invariant sees only that the variables keep their types.
LEMMA QuietInv ==
  ASSUME IInv, Types',
         UNCHANGED <<mode, main, forked, jobwait, jsyncnt, cntloop, starts, cpc, status, loop, done, nodes, base, first>>
  PROVE  IInv'
<1>1. up' = up /\ Jobs' = Jobs
  BY DEF up, Jobs
<1>2. ForkedOK /\ ReadyOK /\ FirstOK
  BY DEF IInv
<1>3. ForkedOK'
  BY <1>1, <1>2 DEF ForkedOK
<1>4. main' = "returned" => Ready = Jobs
  BY <1>2 DEF ReadyOK
<1>5. starts = 0 => main' = "down"
  BY <1>2 DEF FirstOK
<1> QED BY <1>1, <1>3, <1>4, <1>5, SameKids

LEMMA CallInv ==
  ASSUME IInv, NEW j \in Jobs, Call(j) \/ Restart(j)
  PROVE  IInv'
<1>1. Types
  BY DEF IInv
<1>2. /\ UNCHANGED <<mode, main, forked, method, jobwait, jsyncnt, endloop, cntloop, starts,
                     cpc, status, loop, done, nodes, base, first>>
      /\ Jobs' = Jobs
  BY DEF Call, Restart, parent, Jobs
<1>3. pos[j] \in Nat /\ tries[j] \in Nat /\ LastTry \in Nat /\ Len(tpfn_stage1(mode, 1)) \in Nat /\ mode \in Modes
      /\ Len(tpfn_stage1(mode, 1)) = IF mode.istp = 1 /\ mode.crash THEN 10 ELSE 9
  <2>1. mode \in Modes /\ LastTry \in Nat /\ 1 \in Nat /\ 1 > 0
    BY <1>1, CImptpAssumption DEF Types
  <2>2. Len(tpfn_stage1(mode, 1)) = (IF mode.istp = 1 /\ mode.crash THEN 10 ELSE 9)
    BY <2>1, CallbackLen
  <2>3. Len(tpfn_stage1(mode, 1)) \in Nat
    BY <2>2
  <2> QED BY <1>1, <2>1, <2>2, <2>3, JobIs
<1>4. CASE Call(j)
  <2>1. pos' = [pos EXCEPT ![j] = pos[j] + 1] /\ pos[j] < Len(Callback(j)) /\ tries' = tries
    BY <1>4 DEF Call
  <2>2. Len(Callback(j)) \in Nat /\ Len(Callback(j)) <= Len(tpfn_stage1(mode, 1))
    <3>1. /\ Len(tpfn_stage1(mode, tries[j])) = (IF mode.istp = 1 /\ mode.crash /\ tries[j] > 0 THEN 10 ELSE 9)
          /\ Len(tpfn_stage3(mode)) = 3 /\ Len(<<>>) = 0
      BY <1>3, CallbackLen
    <3>2. \/ Callback(j) = <<>> \/ Callback(j) = tpfn_stage3(mode)
          \/ Callback(j) = tpfn_stage1(mode, tries[j])
      BY DEF Callback
    <3>3. Len(Callback(j)) \in {0, 3, 9} \/ (Len(Callback(j)) = 10 /\ mode.istp = 1 /\ mode.crash)
      BY <3>1, <3>2
    <3> DEFINE c == Len(Callback(j))
               n == Len(tpfn_stage1(mode, 1))
    <3>4. n = 9 \/ n = 10
      BY <1>3
    <3>5. c \in {0, 3, 9} \/ (c = 10 /\ n = 10)
      BY <1>3, <3>3
    <3> HIDE DEF c, n
    <3>6. c \in Nat /\ c <= n
      BY <3>4, <3>5
    <3> QED BY <3>6 DEF c, n
  <2>3. pos[j] + 1 \in 0 .. Len(tpfn_stage1(mode, 1))
    BY <1>3, <2>1, <2>2
  <2>4. Types'
    BY <1>1, <1>2, <2>1, <2>3 DEF Types
  <2> QED BY <1>2, <2>4, QuietInv
<1>5. CASE Restart(j)
  <2>1. pos' = [pos EXCEPT ![j] = 0] /\ tries' = [tries EXCEPT ![j] = tries[j] + 1] /\ tries[j] < LastTry
    BY <1>5 DEF Restart
  <2>2. tries[j] + 1 \in 0 .. LastTry /\ 0 \in 0 .. Len(tpfn_stage1(mode, 1))
    BY <1>3, <2>1
  <2>3. Types'
    BY <1>1, <1>2, <2>1, <2>2 DEF Types
  <2> QED BY <1>2, <2>3, QuietInv
<1> QED BY <1>4, <1>5

LEMMA TestEndloopInv ==
  ASSUME IInv, NEW j \in Jobs, TestEndloop(j)
  PROVE  IInv'
<1> DEFINE ii == loop[j] + 1
           pp == IF endloop \/ ii > top THEN "ended" ELSE "loop"
<1>1. Types
  BY DEF IInv
<1>2. /\ mode' = mode /\ main' = main /\ forked' = forked /\ method' = method /\ jobwait' = jobwait
      /\ endloop' = endloop /\ cntloop' = cntloop /\ starts' = starts /\ status' = status
      /\ done' = done /\ pos' = pos /\ tries' = tries /\ nodes' = nodes /\ base' = base /\ first' = first
      /\ jsyncnt' = jsyncnt /\ status[j] = "run" /\ cpc[j] = "test" /\ Jobs' = Jobs
      /\ loop' = [loop EXCEPT ![j] = ii]
      /\ cpc' = [cpc EXCEPT ![j] = IF endloop \/ loop'[j] > top THEN "ended" ELSE "loop"]
  BY DEF TestEndloop, At, parent, Jobs
<1>3. loop'[j] = ii /\ cpc' = [cpc EXCEPT ![j] = pp] /\ cpc'[j] = pp
  BY <1>1, <1>2 DEF Types
<1>4. /\ mode \in Modes /\ KidOK(mode, base[j], nodes[j], "run", "test", loop[j], first[j], done[j], up)
  <2>1. /\ mode \in Modes
        /\ KidOK(mode, base[j], nodes[j], status[j], cpc[j], loop[j], first[j], done[j], up)
    BY IInvJob
  <2> QED BY <1>2, <2>1
<1>5. KidOK(mode, base[j], nodes[j], "run", pp, ii, first[j], done[j], up) /\ ii \in 1 .. top + 1
  BY <1>4, KidTest
<1>6. pp \in {"loop", "ended"}
  OBVIOUS
<1> HIDE DEF ii, pp
<1>7. \A i \in Jobs : i # j => cpc'[i] = cpc[i] /\ loop'[i] = loop[i]
  BY <1>1, <1>2, <1>3 DEF Types
<1>8. KidOK(mode, base'[j], nodes'[j], status'[j], cpc'[j], loop'[j], first[j], done'[j], up)
  BY <1>2, <1>3, <1>5
<1>9. Types'
  BY <1>1, <1>2, <1>3, <1>5, <1>6 DEF Types
<1>10. ReadyOK'
  BY <1>2, <1>3, <1>6, <1>7, SameReady
<1>11. done' = [done EXCEPT ![j] = done'[j]]
  BY <1>1, <1>2 DEF Types
<1>12. \A g \in Nat : Earlier(g, starts, Live(j)) =>
          \E h \in Nat : /\ Earlier(h, starts, Live(j)')
                         /\ cntloop' = cntloop + ((h + Incrs(mode, done'[j])) - (g + Incrs(mode, done[j])))
  BY <1>2, SameCounts
<1> QED BY <1>2, <1>7, <1>8, <1>9, <1>10, <1>11, <1>12, OneKid

\* What a child commits: the calls of the callback that has ended, or the next update.
LEMMA CommitUpdates ==
  ASSUME IInv, NEW j \in Jobs, Commit(j), NEW upd, upd = IF pos[j] > 0 THEN Callback(j) ELSE Current(j)
  PROVE  UpdatesOf(mode, done[j] % LenOf(mode), upd)
<1>1. N = LenOf(mode) /\ CommitOf[mode] = EndOf[mode] /\ IterationOf[mode] = BodyOf[mode]
  BY IInvJob
<1>2. Types
  BY DEF IInv
<1>3. pos[j] = Len(Callback(j)) /\ tries[j] \in Nat /\ pos[j] \in Nat
  <2>1. tries[j] \in Nat
    BY <1>2, JobIs, CImptpAssumption
  <2>2. mode \in Modes /\ 1 \in Nat
    BY <1>2 DEF Types
  <2>3. Len(tpfn_stage1(mode, 1)) \in {9, 10}
    BY <2>2, CallbackLen
  <2>4. pos[j] \in 0 .. Len(tpfn_stage1(mode, 1))
    BY <1>2, JobIs
  <2>5. pos[j] \in Nat
    BY <2>3, <2>4
  <2> QED BY <2>1, <2>5 DEF Commit
<1> DEFINE k == done[j] % LenOf(mode)
<1>4. CASE ~(pos[j] > 0)
  <2>1. upd = Current(j)
    BY <1>4
  <2>2. Current(j) = SubSeq(BodyOf[mode], k + 1, EndOf[mode][k])
    BY <1>1, Zenon DEF Current
  <2> QED BY <2>1, <2>2, Zenon DEF UpdatesOf
<1>5. CASE pos[j] > 0
  <2>1. upd = Callback(j) /\ Len(Callback(j)) # 0
    BY <1>3, <1>5
  <2>2. Callback(j) # <<>>
    BY <2>1
  <2>3. method = "c" /\ mode.istp = 1 /\ fence(j) \in {1, 3}
    BY <2>2 DEF Callback
  <2>4. fence(j) = BodyOf[mode][k + 1].id
    BY <1>1, Zenon DEF fence
  <2>5. CASE fence(j) = 1
    <3>1. upd = tpfn_stage1(mode, tries[j])
      BY <2>1, <2>3, <2>5 DEF Callback
    <3> HIDE DEF k
    <3> QED BY <1>3, <2>3, <2>4, <2>5, <3>1 DEF UpdatesOf, k
  <2>6. CASE fence(j) = 3
    <3>1. upd = tpfn_stage3(mode)
      BY <2>1, <2>3, <2>6 DEF Callback
    <3> QED BY <2>3, <2>4, <2>6, <3>1 DEF UpdatesOf
  <2> QED BY <2>3, <2>5, <2>6
<1> QED BY <1>4, <1>5

LEMMA CommitInv ==
  ASSUME IInv, NEW j \in Jobs, Commit(j)
  PROVE  IInv'
<1> DEFINE upd == IF pos[j] > 0 THEN Callback(j) ELSE Current(j)
           new == [nodes[j] EXCEPT ![loop[j]] = Updated(mode, loop[j], nodes[j][loop[j]], upd)]
           one == IF \E k \in DOMAIN upd : upd[k].node = cntloopNode(mode) THEN 1 ELSE 0
           r == NextOf(mode, done[j])
           pp == IF r % LenOf(mode) = 0 THEN "test" ELSE "loop"
<1>1. Types
  BY DEF IInv
<1>2. /\ N = LenOf(mode) /\ CommitOf[mode] = EndOf[mode] /\ mode \in Modes /\ done[j] \in Nat
      /\ KidOK(mode, base[j], nodes[j], status[j], cpc[j], loop[j], first[j], done[j], up)
  BY IInvJob
<1>3. /\ mode' = mode /\ main' = main /\ forked' = forked /\ method' = method /\ jobwait' = jobwait
      /\ endloop' = endloop /\ starts' = starts /\ status' = status /\ loop' = loop
      /\ base' = base /\ first' = first /\ jsyncnt' = jsyncnt
      /\ status[j] = "run" /\ cpc[j] = "loop" /\ Jobs' = Jobs
      /\ pos' = [pos EXCEPT ![j] = 0] /\ tries' = [tries EXCEPT ![j] = 0]
  BY DEF Commit, At, parent, Jobs
<1>4. nodes' = [nodes EXCEPT ![j] = new] /\ cntloop' = cntloop + one
  BY DEF Commit
<1>5. done' = [done EXCEPT ![j] = r] /\ done'[j] = r
  <2>1. done' = [done EXCEPT ![j] = @ - (@ % LenOf(mode)) + EndOf[mode][@ % LenOf(mode)]]
    BY <1>2 DEF Commit
  <2> QED BY <1>1, <2>1 DEF Types, NextOf
<1>6. cpc' = [cpc EXCEPT ![j] = pp] /\ cpc'[j] = pp
  <2>1. cpc' = [cpc EXCEPT ![j] = IF done'[j] % N = 0 THEN "test" ELSE "loop"]
    BY DEF Commit
  <2> QED BY <1>1, <1>2, <1>5, <2>1 DEF Types
<1>7. nodes'[j] = new
  BY <1>1, <1>4 DEF Types
<1>8. KidOK(mode, base[j], nodes[j], "run", "loop", loop[j], first[j], done[j], up)
  BY <1>2, <1>3
<1>9. UpdatesOf(mode, done[j] % LenOf(mode), upd)
  BY CommitUpdates
<1> HIDE DEF upd
<1>10. /\ KidOK(mode, base[j], new, "run", pp, loop[j], first[j], r, up)
       /\ Incrs(mode, r) = Incrs(mode, done[j]) + one
       /\ r # 0 /\ up
  BY <1>2, <1>8, <1>9, KidCommit
<1>11. pp \in {"loop", "test"} /\ one \in {0, 1}
  OBVIOUS
<1> HIDE DEF new, one, r, pp
<1>12. \A i \in Jobs : i # j => cpc'[i] = cpc[i] /\ nodes'[i] = nodes[i]
  BY <1>1, <1>4, <1>6 DEF Types
<1>13. KidOK(mode, base'[j], nodes'[j], status'[j], cpc'[j], loop'[j], first[j], done'[j], up)
  BY <1>3, <1>5, <1>6, <1>7, <1>10
<1>14. Truth(mode, new) /\ r \in 0 .. top * LenOf(mode) /\ r \in Nat
  <2>1. r \in CommitPoints(mode)
    BY <1>10 DEF KidOK
  <2> QED BY <1>2, <1>10, <2>1, KidTruth, PointNat
<1>15. Types'
  <2>1. nodes' \in [Jobs -> [1 .. top -> [Nodes(mode) -> Values]]]
    BY <1>1, <1>4, <1>14, TruthIs DEF Types
  <2>2. done' \in [Jobs -> 0 .. top * LenOf(mode)] /\ cpc' \in [Jobs -> {"unborn", "init", "read", "loop", "test", "ended"}]
    BY <1>1, <1>5, <1>6, <1>11, <1>14 DEF Types
  <2>3. 0 \in 0 .. Len(tpfn_stage1(mode, 1)) /\ 0 \in 0 .. LastTry
    <3>1. Len(tpfn_stage1(mode, 1)) \in {9, 10}
      <4>1. 1 \in Nat
        OBVIOUS
      <4> QED BY <1>2, <4>1, CallbackLen
    <3> QED BY <3>1, CImptpAssumption
  <2>4. pos' \in [Jobs -> 0 .. Len(tpfn_stage1(mode, 1))] /\ tries' \in [Jobs -> 0 .. LastTry]
    BY <1>1, <1>3, <2>3 DEF Types
  <2> QED BY <1>1, <1>3, <2>1, <2>2, <2>4 DEF Types
<1>16. ReadyOK'
  BY <1>3, <1>6, <1>11, <1>12, SameReady
<1>17. Incrs(mode, done[j]) \in Nat /\ cntloop \in Int
  BY <1>2, IncrsIs, IInvCount
<1>18. \A g \in Nat : Earlier(g, starts, Live(j)) =>
          \E h \in Nat : /\ Earlier(h, starts, Live(j)')
                         /\ cntloop' = cntloop + ((h + Incrs(mode, done'[j])) - (g + Incrs(mode, done[j])))
  <2> SUFFICES ASSUME NEW g \in Nat, Earlier(g, starts, Live(j))
               PROVE  /\ Earlier(g, starts, Live(j)')
                      /\ cntloop' = cntloop + ((g + Incrs(mode, done'[j])) - (g + Incrs(mode, done[j])))
    OBVIOUS
  <2>1. Live(j)' <=> Live(j)
    BY <1>3 DEF Live, up
  <2>2. Earlier(g, starts, Live(j)')
    BY <2>1 DEF Earlier
  <2> DEFINE x == Incrs(mode, done[j])
             y == Incrs(mode, done'[j])
  <2>3. x \in Nat /\ y = x + one
    BY <1>5, <1>10, <1>17
  <2> HIDE DEF x, y
  <2>4. cntloop' = cntloop + ((g + y) - (g + x))
    BY <1>4, <1>11, <1>17, <2>3
  <2> QED BY <2>2, <2>4 DEF x, y
<1>19. Incrs(mode, done[j]) # 0 => Incrs(mode, done'[j]) # 0
  BY <1>5, <1>10, <1>11, <1>17
<1>20. done' = [done EXCEPT ![j] = done'[j]]
  BY <1>5
<1>21. \A i \in Jobs : i # j => /\ base'[i] = base[i] /\ nodes'[i] = nodes[i] /\ status'[i] = status[i]
                                /\ cpc'[i] = cpc[i] /\ loop'[i] = loop[i]
  BY <1>3, <1>12
<1> QED BY <1>3, <1>13, <1>15, <1>16, <1>18, <1>19, <1>20, <1>21, OneKid

LEMMA ChildEndsInv ==
  ASSUME IInv, NEW j \in Jobs, ChildFails(j) \/ CallInAfterXit(j)
  PROVE  IInv'
<1>1. Types
  BY DEF IInv
<1>2. /\ mode' = mode /\ main' = main /\ forked' = forked /\ method' = method /\ jobwait' = jobwait
      /\ endloop' = endloop /\ cntloop' = cntloop /\ starts' = starts /\ loop' = loop /\ cpc' = cpc
      /\ done' = done /\ pos' = pos /\ tries' = tries /\ nodes' = nodes /\ base' = base /\ first' = first
      /\ jsyncnt' = jsyncnt /\ status' = [status EXCEPT ![j] = "gone"] /\ status[j] = "run" /\ Jobs' = Jobs
      /\ cpc[j] \notin {"unborn", "ended"} \/ main = "returned"
  BY DEF ChildFails, CallInAfterXit, parent, Jobs
<1>3. status'[j] = "gone" /\ \A i \in Jobs : i # j => status'[i] = status[i]
  BY <1>1, <1>2 DEF Types
<1>4. up = TRUE
  <2>1. KidOK(mode, base[j], nodes[j], status[j], cpc[j], loop[j], first[j], done[j], up)
    BY IInvJob
  <2>2. cpc[j] \in {"unborn", "init", "read", "loop", "test", "ended"} /\ up \in BOOLEAN
    BY <1>1 DEF Types, up
  <2> QED BY <1>2, <2>1, <2>2 DEF KidOK, up
<1>5. KidOK(mode, base'[j], nodes'[j], status'[j], cpc'[j], loop'[j], first[j], done'[j], up)
  <2>1. mode \in Modes /\ KidOK(mode, base[j], nodes[j], status[j], cpc[j], loop[j], first[j], done[j], up)
    BY IInvJob
  <2>2. KidOK(mode, base[j], nodes[j], "gone", cpc[j], loop[j], first[j], done[j], TRUE)
    BY <1>2, <1>4, <2>1, KidDies
  <2> QED BY <1>2, <1>3, <1>4, <2>2
<1>6. Types'
  BY <1>1, <1>2 DEF Types
<1>7. ReadyOK'
  BY <1>2, SameReady
<1>8. done' = [done EXCEPT ![j] = done'[j]]
  BY <1>1, <1>2 DEF Types
<1>9. \A g \in Nat : Earlier(g, starts, Live(j)) =>
          \E h \in Nat : /\ Earlier(h, starts, Live(j)')
                         /\ cntloop' = cntloop + ((h + Incrs(mode, done'[j])) - (g + Incrs(mode, done[j])))
  BY <1>2, SameCounts
<1> QED BY <1>2, <1>3, <1>5, <1>6, <1>7, <1>8, <1>9, OneKid

LEMMA RecoverInv ==
  ASSUME IInv, NEW j \in Jobs, Recover(j)
  PROVE  IInv'
<1>1. Types
  BY DEF IInv
<1>2. /\ mode' = mode /\ main' = main /\ forked' = forked /\ method' = method /\ jobwait' = jobwait
      /\ endloop' = endloop /\ starts' = starts /\ loop' = loop /\ cpc' = cpc
      /\ pos' = pos /\ tries' = tries /\ first' = first /\ jsyncnt' = jsyncnt
      /\ status' = [status EXCEPT ![j] = "recovered"] /\ status[j] = "killed" /\ Jobs' = Jobs
      /\ done' = [done EXCEPT ![j] = 0]
      /\ base' = [base EXCEPT ![j] = nodes'[j]]
  BY DEF Recover, parent, Jobs
<1>3. PICK cut \in CutsOf[mode][done[j]] :
         /\ nodes' = [nodes EXCEPT ![j] = Recovered(mode, base[j], first[j], cut)]
         /\ cntloop' = cntloop - (Incrs(mode, done[j]) - Incrs(mode, cut[cntloopRegion(mode)]))
  BY DEF Recover
<1> DEFINE new == Recovered(mode, base[j], first[j], cut)
           c == cut[cntloopRegion(mode)]
<1>4. /\ status'[j] = "recovered" /\ done'[j] = 0 /\ nodes'[j] = new /\ base'[j] = new
      /\ \A i \in Jobs : i # j => status'[i] = status[i] /\ base'[i] = base[i] /\ nodes'[i] = nodes[i]
  BY <1>1, <1>2, <1>3 DEF Types
<1>5. cntloop' = cntloop - (Incrs(mode, done[j]) - Incrs(mode, c))
  BY <1>3
<1>6. /\ mode \in Modes /\ starts \in Nat /\ done[j] \in Nat /\ done[j] \in CommitPoints(mode)
      /\ KidOK(mode, base[j], nodes[j], "killed", cpc[j], loop[j], first[j], done[j], up)
  <2>1. /\ mode \in Modes /\ starts \in Nat /\ done[j] \in Nat
        /\ KidOK(mode, base[j], nodes[j], status[j], cpc[j], loop[j], first[j], done[j], up)
    BY IInvJob
  <2> QED BY <1>2, <2>1 DEF KidOK
<1>7. KidOK(mode, new, new, "recovered", cpc[j], loop[j], first[j], 0, up) /\ c \in 0 .. done[j] /\ up
  BY <1>6, KidRecover
<1> HIDE DEF new, c
<1>8. KidOK(mode, base'[j], nodes'[j], status'[j], cpc'[j], loop'[j], first[j], done'[j], up)
  BY <1>2, <1>4, <1>7
<1>9. Types'
  <2>1. Truth(mode, new)
    BY <1>7 DEF KidOK
  <2>2. new \in [1 .. top -> [Nodes(mode) -> Values]]
    BY <2>1, TruthIs
  <2>3. /\ nodes' \in [Jobs -> [1 .. top -> [Nodes(mode) -> Values]]]
        /\ base' \in [Jobs -> [1 .. top -> [Nodes(mode) -> Values]]]
    BY <1>1, <1>2, <1>3, <1>4, <2>2 DEF Types, new
  <2>4. 0 \in 0 .. top * LenOf(mode)
    BY <1>6, NoPoint
  <2>5. /\ done' \in [Jobs -> 0 .. top * LenOf(mode)]
        /\ status' \in [Jobs -> {"run", "gone", "killed", "recovered"}]
    BY <1>1, <1>2, <2>4 DEF Types
  <2> QED BY <1>1, <1>2, <2>3, <2>5 DEF Types
<1>10. ReadyOK'
  BY <1>2, SameReady
<1>11. done' = [done EXCEPT ![j] = done'[j]]
  BY <1>2, <1>4
<1>12. \A g \in Nat : Earlier(g, starts, Live(j)) =>
          \E h \in Nat : /\ Earlier(h, starts, Live(j)')
                         /\ cntloop' = cntloop + ((h + Incrs(mode, done'[j])) - (g + Incrs(mode, done[j])))
  <2> SUFFICES ASSUME NEW g \in Nat, Earlier(g, starts, Live(j))
               PROVE  /\ g + Incrs(mode, c) \in Nat /\ Earlier(g + Incrs(mode, c), starts, Live(j)')
                      /\ cntloop' = cntloop + (((g + Incrs(mode, c)) + Incrs(mode, done'[j])) - (g + Incrs(mode, done[j])))
    OBVIOUS
  <2> DEFINE x == Incrs(mode, done[j])
             y == Incrs(mode, c)
  <2>1. ~Live(j)'
    BY <1>4 DEF Live
  <2>2. Live(j)
    BY <1>2, <1>7 DEF Live
  <2>3. x \in Nat /\ y \in Nat /\ y <= top /\ Incrs(mode, done'[j]) = 0 /\ cntloop \in Int /\ top \in Nat
    <3>1. c \in Nat /\ c <= top * LenOf(mode)
      <4> DEFINE z == top * LenOf(mode)
      <4>1. done[j] \in 0 .. z /\ z \in Nat
        BY <1>6, PointNat
      <4> HIDE DEF z
      <4>2. c \in Nat /\ c <= z
        BY <1>7, <4>1
      <4> QED BY <4>2 DEF z
    <3> QED BY <1>4, <1>6, <3>1, IncrsIs, NoPoint, IInvCount, TopNat
  <2>4. Earlier(g + y, starts, Live(j)')
    <3>1. g \in 0 .. top * starts /\ g <= top * (starts - 1)
      BY <2>2 DEF Earlier
    <3>2. top * starts = top * (starts - 1) + top /\ top * starts \in Nat /\ top * (starts - 1) \in Int
      BY <1>6, <2>3
    <3> DEFINE a == top * starts
               b == top * (starts - 1)
    <3>3. a = b + top /\ a \in Nat /\ b \in Int /\ g <= b
      BY <3>1, <3>2
    <3> HIDE DEF a, b, x, y
    <3>4. g + y \in 0 .. a
      BY <2>3, <3>3
    <3> QED BY <2>1, <3>4 DEF Earlier, a
  <2>5. cntloop' = cntloop - (x - y)
    BY <1>5
  <2> HIDE DEF x, y
  <2>6. g + y \in Nat /\ cntloop' = cntloop + (((g + y) + Incrs(mode, done'[j])) - (g + x))
    BY <2>3, <2>5
  <2> QED BY <2>4, <2>6 DEF x, y
<1>13. base'[j] = base[j] \/ (status'[j] = "recovered" /\ up)
  BY <1>4, <1>7
<1>14. main \in {"fork", "record", "first", "sync"} => status'[j] \in {"run", "gone"}
  <2>1. main \notin {"fork", "record", "first", "sync"}
    BY <1>2 DEF IInv, ForkedOK
  <2> QED BY <2>1
<1> QED BY <1>2, <1>4, <1>8, <1>9, <1>10, <1>11, <1>12, <1>13, <1>14, OneKid

-----------------------------------------------------------------------------
(* The steps of main and of the test *)

\* Before a first child has counted an iteration, ^cntloop is 0.
LEMMA NothingCounted ==
  ASSUME IInv, starts = 1, up, \A j \in Jobs : status[j] \in {"run", "gone"}, \A j \in Jobs : Incrs(mode, done[j]) = 0
  PROVE  cntloop = 0
<1>1. PICK g : Adds(mode, Jobs, g, done, cntloop) /\ \A j \in Jobs : Earlier(g[j], starts, Live(j))
  BY DEF IInv, CntloopOK
<1>2. mode \in Modes /\ top \in Nat
  BY TopNat DEF IInv, Types
<1>3. top * (1 - 1) = 0 /\ 0 \in Nat
  BY <1>2
<1>4. ASSUME NEW j \in Jobs PROVE g[j] + Incrs(mode, done[j]) \in 0 .. 0
  <2>1. g[j] \in 0 .. top * 1 /\ g[j] <= top * (1 - 1)
    BY <1>1 DEF Earlier, Live
  <2>2. g[j] = 0
    BY <1>2, <1>3, <2>1
  <2> QED BY <2>2
<1>5. Jobs \subseteq 1 .. jobcnt /\ Cardinality(Jobs) \in Nat
  BY <1>2, JobsAre
<1>6. cntloop \in 0 .. Cardinality(Jobs) * 0
  BY <1>1, <1>2, <1>3, <1>4, <1>5, AddsBound
<1>7. Cardinality(Jobs) * 0 = 0
  BY <1>5
<1> QED BY <1>6, <1>7

LEMMA MismatchInv ==
  ASSUME IInv, Mismatch
  PROVE  IInv'
<1>1. Types /\ ForkedOK
  BY DEF IInv
<1>2. /\ UNCHANGED <<mode, forked, method, jobwait, jsyncnt, endloop, cntloop, starts,
                     cpc, status, loop, done, pos, tries, nodes, base, first>>
      /\ Jobs' = Jobs /\ main' = "mismatch" /\ up' = up /\ ~up /\ starts > 0
  BY DEF Mismatch, job, Jobs, up
<1>3. Types'
  BY <1>1, <1>2 DEF Types
<1>4. ForkedOK'
  BY <1>1, <1>2 DEF ForkedOK
<1>5. starts \in Nat /\ starts # 0
  BY <1>1, <1>2, CImptpAssumption DEF Types
<1> QED BY <1>2, <1>3, <1>4, <1>5, SameKids

LEMMA RecordPidInv ==
  ASSUME IInv, RecordPid
  PROVE  IInv'
<1>1. Types /\ ForkedOK /\ FirstOK
  BY DEF IInv
<1>2. /\ UNCHANGED <<mode, forked, method, jsyncnt, endloop, cntloop, starts,
                     cpc, status, loop, done, pos, tries, nodes, base, first>>
      /\ Jobs' = Jobs /\ main = "record" /\ main' \in {"first", "fork"}
      /\ main' = (IF forked = Cardinality(Jobs) THEN "first" ELSE "fork")
      /\ jobwait' = [jobwait EXCEPT ![forked] = starts] /\ up' = up
  BY DEF RecordPid, job, Jobs, up
<1>3. /\ starts \in 0 .. MaxStarts /\ forked \in 0 .. Cardinality(Jobs) /\ forked >= 1
      /\ Cardinality(Jobs) \in Nat /\ Jobs = 1 .. Cardinality(Jobs)
  <2>1. mode \in Modes /\ starts \in 0 .. MaxStarts /\ forked \in 0 .. Cardinality(Jobs) /\ forked >= 1
    BY <1>1, <1>2 DEF Types, ForkedOK
  <2> QED BY <2>1, JobsAre
<1>4. forked \in Jobs
  BY <1>3
<1>5. jobwait'[forked] = starts /\ \A i \in Jobs : i # forked => jobwait'[i] = jobwait[i]
  BY <1>1, <1>2, <1>4 DEF Types
<1>6. Types'
  <2>1. jobwait' \in [Jobs -> 0 .. MaxStarts]
    BY <1>1, <1>2, <1>3 DEF Types
  <2> QED BY <1>1, <1>2, <2>1 DEF Types
<1>7. ForkedOK'
  <2>1. main' = "fork" => forked < Cardinality(Jobs)
    BY <1>2, <1>3
  <2>2. main' = "first" => forked = Cardinality(Jobs)
    BY <1>2
  <2>3. up => /\ starts >= 1
              /\ \A i \in Jobs : /\ i > forked => cpc[i] = "unborn"
                                 /\ i < forked => jobwait[i] = starts
    BY <1>1 DEF ForkedOK
  <2>4. \A i \in Jobs : status[i] \in {"run", "gone"}
    BY <1>1, <1>2 DEF ForkedOK
  <2>5. up => \A i \in Jobs : i < forked \/ i = forked => jobwait'[i] = starts
    <3>1. \A i \in Jobs : i < forked => i # forked
      BY <1>3
    <3> QED BY <1>5, <2>3, <3>1
  <2> QED BY <1>2, <2>1, <2>2, <2>3, <2>4, <2>5 DEF ForkedOK
<1>8. starts # 0
  BY <1>1, <1>2 DEF FirstOK
<1>9. main' \notin {"sync", "returned"}
  BY <1>2
<1> QED BY <1>2, <1>6, <1>7, <1>8, <1>9, SameKids

LEMMA WaitFirstInv ==
  ASSUME IInv, WaitFirst
  PROVE  IInv'
<1>1. Types /\ ForkedOK /\ FirstOK
  BY DEF IInv
<1>2. /\ UNCHANGED <<mode, forked, method, jobwait, jsyncnt, endloop, cntloop, starts,
                     cpc, status, loop, done, pos, tries, nodes, base, first>>
      /\ Jobs' = Jobs /\ main = "first" /\ main' = "sync" /\ up' = up /\ up /\ cntloop # 0
  BY DEF WaitFirst, job, Jobs, up
<1>3. Types'
  BY <1>1, <1>2 DEF Types
<1>4. ForkedOK'
  BY <1>1, <1>2 DEF ForkedOK
<1>5. starts # 0
  BY <1>1, <1>2 DEF FirstOK
<1>6. starts = 1 => \E j \in Jobs : Incrs(mode, done[j]) # 0
  <2>1. \A j \in Jobs : status[j] \in {"run", "gone"}
    BY <1>1, <1>2 DEF ForkedOK
  <2> QED BY <1>2, <2>1, NothingCounted
<1> QED BY <1>2, <1>3, <1>4, <1>5, <1>6, SameKids

LEMMA WaitSyncInv ==
  ASSUME IInv, WaitSync
  PROVE  IInv'
<1>1. Types /\ ForkedOK /\ FirstOK /\ ReadyOK
  BY DEF IInv
<1>2. /\ UNCHANGED <<mode, forked, method, jobwait, jsyncnt, endloop, cntloop, starts,
                     cpc, status, loop, done, pos, tries, nodes, base, first>>
      /\ Jobs' = Jobs /\ main = "sync" /\ main' = "returned" /\ up' = up /\ jsyncnt = Cardinality(Jobs)
  BY DEF WaitSync, job, Jobs, up
<1>3. Types'
  BY <1>1, <1>2 DEF Types
<1>4. ForkedOK'
  BY <1>1, <1>2 DEF ForkedOK
<1>5. starts # 0
  BY <1>1, <1>2 DEF FirstOK
<1>6. Ready = Jobs
  <2>1. IsFiniteSet(Jobs) /\ Ready \subseteq Jobs
    <3>1. mode \in Modes
      BY <1>1 DEF Types
    <3> QED BY <3>1, JobsAre DEF Ready
  <2>2. Cardinality(Ready) = Cardinality(Jobs)
    BY <1>1, <1>2 DEF ReadyOK
  <2> QED BY <2>1, <2>2, FS_Subset
<1> QED BY <1>2, <1>3, <1>4, <1>5, <1>6, SameKids

LEMMA EndTPInv ==
  ASSUME IInv, EndTP
  PROVE  IInv'
<1>1. Types
  BY DEF IInv
<1>2. /\ UNCHANGED <<mode, main, forked, method, jobwait, jsyncnt, cntloop, starts,
                     cpc, status, loop, done, pos, tries, nodes, base, first>>
      /\ Jobs' = Jobs /\ endloop' = TRUE
  BY DEF EndTP, parent, job, Jobs
<1>3. Types'
  BY <1>1, <1>2 DEF Types
<1> QED BY <1>2, <1>3, QuietInv

LEMMA StartInv ==
  ASSUME IInv, Start
  PROVE  IInv'
<1>1. Types /\ ForkedOK /\ FirstOK /\ KidsOK /\ CntloopOK
  BY DEF IInv
<1>2. /\ UNCHANGED <<mode, jobwait, cntloop, loop, done, pos, tries, nodes, base>>
      /\ Jobs' = Jobs /\ NoNodes' = NoNodes /\ ~up /\ up' /\ main' = "fork" /\ forked' = 0
      /\ method' \in {"c", "ci"} /\ endloop' = FALSE /\ jsyncnt' = 0
      /\ starts' = starts + 1 /\ starts < MaxStarts
      /\ cpc' = [j \in Jobs |-> "unborn"] /\ status' = [j \in Jobs |-> "run"]
      /\ first' = [j \in Jobs |-> LastiOf(nodes[j]) + 1]
  BY DEF Start, Jobs, up, NoNodes
<1>3. /\ mode \in Modes /\ starts \in Nat /\ starts' \in 0 .. MaxStarts /\ starts' >= 1
      /\ Cardinality(Jobs) \in Nat \ {0} /\ \A j \in Jobs : j \in Nat /\ j >= 1
  <2>1. mode \in Modes
    BY <1>1 DEF Types
  <2>2. starts \in 0 .. MaxStarts /\ MaxStarts \in Nat
    BY <1>1, CImptpAssumption DEF Types
  <2>3. starts \in Nat /\ starts' \in 0 .. MaxStarts /\ starts' >= 1
    BY <1>2, <2>2
  <2>4. Cardinality(Jobs) \in Nat \ {0} /\ Jobs = 1 .. Cardinality(Jobs)
    BY <2>1, JobsAre
  <2>5. \A j \in Jobs : j \in Nat /\ j >= 1
    BY <2>4
  <2> QED BY <2>1, <2>3, <2>4, <2>5
<1>4. ASSUME NEW j \in Jobs
      PROVE  /\ KidOK(mode, base[j], nodes[j], "run", "unborn", loop[j], first'[j], 0, TRUE)
             /\ first'[j] \in 1 .. top + 1 /\ done[j] = 0
  <2>1. KidOK(mode, base[j], nodes[j], status[j], cpc[j], loop[j], first[j], done[j], FALSE)
    <3>1. KidOK(mode, base[j], nodes[j], status[j], cpc[j], loop[j], first[j], done[j], up)
      BY <1>1 DEF KidsOK
    <3>2. up = FALSE
      BY <1>2 DEF up
    <3> QED BY <3>1, <3>2
  <2>2. first'[j] = LastiOf(nodes[j]) + 1
    BY <1>2
  <2>3. /\ KidOK(mode, base[j], nodes[j], "run", "unborn", loop[j], LastiOf(nodes[j]) + 1, 0, TRUE)
        /\ LastiOf(nodes[j]) + 1 \in 1 .. top + 1 /\ done[j] = 0
    BY <1>3, <2>1, KidStart
  <2> QED BY <2>2, <2>3, Zenon
<1>5. Types'
  <2>1. first' \in [Jobs -> 1 .. top + 1]
    BY <1>2, <1>4
  <2>2. forked' \in 0 .. Cardinality(Jobs)
    BY <1>2, <1>3
  <2>3. /\ cpc' \in [Jobs -> {"unborn", "init", "read", "loop", "test", "ended"}]
        /\ status' \in [Jobs -> {"run", "gone", "killed", "recovered"}]
    BY <1>2
  <2> QED BY <1>1, <1>2, <1>3, <2>1, <2>2, <2>3 DEF Types
<1>6. KidsOK'
  <2> SUFFICES ASSUME NEW j \in Jobs
               PROVE  KidOK(mode, base[j], nodes[j], status'[j], cpc'[j], loop[j], first'[j], done[j], TRUE)
    BY <1>2 DEF KidsOK, up
  <2> QED BY <1>2, <1>4
<1>7. ForkedOK'
  <2>1. \A j \in Jobs : cpc'[j] = "unborn" /\ status'[j] = "run" /\ ~(j < 0) /\ j # 0
    BY <1>2, <1>3
  <2> QED BY <1>2, <1>3, <2>1 DEF ForkedOK
<1>8. ReadyOK'
  <2>1. Ready' = {}
    BY <1>2 DEF Ready
  <2> QED BY <1>2, <2>1, FS_EmptySet DEF ReadyOK
<1>9. CntloopOK'
  <2>1. PICK g : Adds(mode, Jobs, g, done, cntloop) /\ \A j \in Jobs : Earlier(g[j], starts, Live(j))
    BY <1>1 DEF CntloopOK
  <2>2. \A j \in Jobs : Earlier(g[j], starts', TRUE)
    <3> SUFFICES ASSUME NEW j \in Jobs PROVE Earlier(g[j], starts', TRUE)
      OBVIOUS
    <3>1. g[j] \in 0 .. top * starts
      BY <2>1 DEF Earlier
    <3>2. top * (starts' - 1) = top * starts /\ top * starts' = top * starts + top /\ top * starts \in Nat /\ top \in Nat
      BY <1>2, <1>3, TopNat
    <3> DEFINE x == top * starts
               y == top * starts'
               z == top * (starts' - 1)
    <3>3. g[j] \in 0 .. x /\ x \in Nat /\ y = x + top /\ z = x /\ top \in Nat
      BY <3>1, <3>2
    <3> HIDE DEF x, y, z
    <3>4. g[j] \in 0 .. y /\ g[j] <= z
      BY <3>3
    <3> QED BY <3>4 DEF Earlier, y, z
  <2>3. \A j \in Jobs' : Earlier(g[j], starts', Live(j)')
    BY <1>2, <2>2 DEF Earlier
  <2>4. Adds(mode', Jobs', g, done', cntloop')
    BY <1>2, <2>1
  <2> QED BY <2>3, <2>4 DEF CntloopOK
<1>10. FirstOK'
  <2>1. starts' # 0 /\ (starts' = 1 => starts = 0)
    BY <1>2, <1>3
  <2>2. starts = 0 => \A j \in Jobs : base[j] = NoNodes
    BY <1>1 DEF FirstOK
  <2>3. main' \notin {"sync", "returned"}
    BY <1>2
  <2> QED BY <1>2, <2>1, <2>2, <2>3 DEF FirstOK
<1> QED BY <1>5, <1>6, <1>7, <1>8, <1>9, <1>10 DEF IInv

LEMMA ForkInv ==
  ASSUME IInv, Fork
  PROVE  IInv'
<1>1. Types /\ ForkedOK /\ FirstOK /\ KidsOK /\ CntloopOK /\ ReadyOK
  BY DEF IInv
<1> DEFINE k == forked + 1
<1>2. /\ UNCHANGED <<mode, method, jobwait, jsyncnt, endloop, cntloop, starts,
                     status, loop, done, pos, tries, nodes, base, first>>
      /\ Jobs' = Jobs /\ NoNodes' = NoNodes /\ up /\ up' = up /\ main = "fork" /\ main' = "record" /\ forked' = k
      /\ cpc' = [cpc EXCEPT ![k] = "init"]
  BY DEF Fork, Jobs, up, NoNodes
<1>3. k \in Jobs /\ forked \in Nat /\ k \in 0 .. Cardinality(Jobs) /\ \A j \in Jobs : j \in Nat
  <2>1. mode \in Modes /\ forked \in 0 .. Cardinality(Jobs) /\ forked < Cardinality(Jobs)
    BY <1>1, <1>2 DEF Types, ForkedOK
  <2>2. Cardinality(Jobs) \in Nat /\ Jobs = 1 .. Cardinality(Jobs)
    BY <2>1, JobsAre
  <2>3. forked \in Nat /\ k \in 1 .. Cardinality(Jobs) /\ k \in 0 .. Cardinality(Jobs)
    BY <2>1, <2>2
  <2>4. k \in Jobs
    BY <2>2, <2>3
  <2> QED BY <2>2, <2>3, <2>4
<1>4. /\ cpc'[k] = "init" /\ \A j \in Jobs : j # k => cpc'[j] = cpc[j]
      /\ cpc[k] = "unborn"
  <2>1. k > forked
    BY <1>3
  <2> QED BY <1>1, <1>2, <1>3, <2>1 DEF Types, ForkedOK
<1>5. Types'
  <2>1. cpc' \in [Jobs -> {"unborn", "init", "read", "loop", "test", "ended"}]
    BY <1>1, <1>2 DEF Types
  <2>2. forked' \in 0 .. Cardinality(Jobs)
    BY <1>2, <1>3
  <2> QED BY <1>1, <1>2, <2>1, <2>2 DEF Types
<1>6. KidsOK'
  <2>1. up = TRUE
    BY <1>2 DEF up
  <2> SUFFICES ASSUME NEW j \in Jobs
               PROVE  KidOK(mode, base[j], nodes[j], status[j], cpc'[j], loop[j], first[j], done[j], TRUE)
    BY <1>2, <2>1 DEF KidsOK
  <2>2. KidOK(mode, base[j], nodes[j], status[j], cpc[j], loop[j], first[j], done[j], TRUE)
    BY <1>1, <2>1 DEF KidsOK
  <2>3. mode \in Modes
    BY <1>1 DEF Types
  <2>4. CASE j = k
    <3>1. KidOK(mode, base[j], nodes[j], status[j], "unborn", loop[j], first[j], done[j], TRUE)
      BY <1>4, <2>2, <2>4
    <3>2. KidOK(mode, base[j], nodes[j], status[j], "init", loop[j], first[j], done[j], TRUE)
      BY <2>3, <3>1, KidMoves
    <3> QED BY <1>4, <2>4, <3>2
  <2>5. CASE j # k
    BY <1>4, <2>2, <2>5
  <2> QED BY <2>4, <2>5
<1>7. ForkedOK'
  <2>1. k >= 1 /\ \A j \in Jobs : (j > k => j > forked /\ j # k) /\ (j < k => j < forked \/ j = forked)
    BY <1>3
  <2>2. /\ starts >= 1
        /\ \A j \in Jobs : /\ j > forked => cpc[j] = "unborn"
                           /\ j < forked \/ j = forked => jobwait[j] = starts
                           /\ status[j] \in {"run", "gone"}
    BY <1>1, <1>2 DEF ForkedOK
  <2>3. \A j \in Jobs : /\ j > k => cpc'[j] = "unborn"
                        /\ j < k => jobwait[j] = starts
    BY <1>4, <2>1, <2>2
  <2> HIDE DEF k
  <2> QED BY <1>2, <2>1, <2>2, <2>3 DEF ForkedOK
<1>8. ReadyOK'
  <2>1. Ready' = Ready
    <3>1. \A j \in Jobs : cpc'[j] \notin {"unborn", "init"} <=> cpc[j] \notin {"unborn", "init"}
      BY <1>4
    <3> QED BY <1>2, <3>1 DEF Ready
  <2> QED BY <1>1, <1>2, <2>1 DEF ReadyOK
<1>9. CntloopOK'
  <2>1. PICK g : Adds(mode, Jobs, g, done, cntloop) /\ \A j \in Jobs : Earlier(g[j], starts, Live(j))
    BY <1>1 DEF CntloopOK
  <2>2. \A j \in Jobs : Live(j)' <=> Live(j)
    BY <1>2 DEF Live
  <2>3. \A j \in Jobs' : Earlier(g[j], starts', Live(j)')
    BY <1>2, <2>1, <2>2 DEF Earlier
  <2>4. Adds(mode', Jobs', g, done', cntloop')
    BY <1>2, <2>1
  <2> QED BY <2>3, <2>4 DEF CntloopOK
<1>10. FirstOK'
  <2>1. main' \notin {"sync", "returned"} /\ starts # 0
    BY <1>1, <1>2 DEF FirstOK
  <2> HIDE DEF k
  <2> QED BY <1>1, <1>2, <2>1 DEF FirstOK
<1> QED BY <1>5, <1>6, <1>7, <1>8, <1>9, <1>10 DEF IInv

LEMMA CrashInv ==
  ASSUME IInv, Crash
  PROVE  IInv'
<1>1. Types /\ ForkedOK /\ FirstOK /\ KidsOK /\ CntloopOK /\ ReadyOK
  BY DEF IInv
<1>2. /\ UNCHANGED <<mode, main, forked, method, jobwait, jsyncnt, endloop, cntloop, starts,
                     cpc, loop, done, nodes, base, first>>
      /\ Jobs' = Jobs /\ NoNodes' = NoNodes /\ up /\ up' = up /\ main = "returned" /\ mode.crash
      /\ \A j \in Jobs : status[j] \in {"run", "gone"}
      /\ status' = [j \in Jobs |-> "killed"] /\ pos' = [j \in Jobs |-> 0] /\ tries' = [j \in Jobs |-> 0]
  BY DEF Crash, parent, Jobs, up, NoNodes
<1>3. mode \in Modes /\ up = TRUE /\ Cardinality(Jobs) \in Nat \ {0} /\ Jobs = 1 .. Cardinality(Jobs)
  <2>1. mode \in Modes /\ up = TRUE
    BY <1>1, <1>2 DEF Types, up
  <2> QED BY <2>1, JobsAre
<1>4. Types'
  <2>1. 0 \in 0 .. Len(tpfn_stage1(mode, 1)) /\ 0 \in 0 .. LastTry
    <3>1. Len(tpfn_stage1(mode, 1)) \in {9, 10}
      <4>1. 1 \in Nat
        OBVIOUS
      <4> QED BY <1>3, <4>1, CallbackLen
    <3> QED BY <3>1, CImptpAssumption
  <2>2. pos' \in [Jobs -> 0 .. Len(tpfn_stage1(mode, 1))] /\ tries' \in [Jobs -> 0 .. LastTry]
    BY <1>2, <2>1
  <2>3. status' \in [Jobs -> {"run", "gone", "killed", "recovered"}]
    BY <1>2
  <2> QED BY <1>1, <1>2, <2>2, <2>3 DEF Types
<1>5. KidsOK'
  <2> SUFFICES ASSUME NEW j \in Jobs
               PROVE  KidOK(mode, base[j], nodes[j], "killed", cpc[j], loop[j], first[j], done[j], TRUE)
    BY <1>2, <1>3 DEF KidsOK
  <2>1. KidOK(mode, base[j], nodes[j], status[j], cpc[j], loop[j], first[j], done[j], TRUE)
    BY <1>1, <1>3 DEF KidsOK
  <2> QED BY <1>2, <1>3, <2>1, KidDies
<1>6. ForkedOK'
  BY <1>1, <1>2 DEF ForkedOK
<1>7. ReadyOK'
  <2>1. Ready' = Ready
    BY <1>2 DEF Ready
  <2> QED BY <1>1, <1>2, <2>1 DEF ReadyOK
<1>8. CntloopOK'
  <2>1. PICK g : Adds(mode, Jobs, g, done, cntloop) /\ \A j \in Jobs : Earlier(g[j], starts, Live(j))
    BY <1>1 DEF CntloopOK
  <2>2. \A j \in Jobs : Live(j)' => Live(j)
    BY <1>2 DEF Live
  <2>3. \A j \in Jobs' : Earlier(g[j], starts', Live(j)')
    BY <1>2, <2>1, <2>2 DEF Earlier
  <2>4. Adds(mode', Jobs', g, done', cntloop')
    BY <1>2, <2>1
  <2> QED BY <2>3, <2>4 DEF CntloopOK
<1>9. FirstOK'
  <2>1. starts # 0
    BY <1>1, <1>2 DEF FirstOK
  <2>2. ~(\A j \in Jobs : status'[j] \in {"run", "gone"})
    <3>1. 1 \in Jobs
      BY <1>3
    <3> QED BY <1>2, <3>1
  <2> QED BY <1>2, <2>1, <2>2 DEF FirstOK
<1> QED BY <1>4, <1>5, <1>6, <1>7, <1>8, <1>9 DEF IInv

LEMMA DownInv ==
  ASSUME IInv, Down
  PROVE  IInv'
<1>1. Types /\ ForkedOK /\ FirstOK /\ KidsOK /\ CntloopOK /\ ReadyOK
  BY DEF IInv
<1>2. /\ UNCHANGED <<mode, forked, method, jobwait, jsyncnt, endloop, cntloop, starts,
                     cpc, status, pos, tries, nodes, first>>
      /\ Jobs' = Jobs /\ NoNodes' = NoNodes /\ up /\ ~up' /\ main = "returned" /\ main' = "down"
      /\ \A j \in Jobs : status[j] = "recovered" \/ (status[j] = "run" /\ cpc[j] = "ended")
      /\ base' = nodes /\ loop' = [j \in Jobs |-> 1] /\ done' = [j \in Jobs |-> 0]
  BY DEF Down, At, Jobs, up, NoNodes
<1>3. mode \in Modes /\ up' = FALSE /\ starts \in Nat /\ Jobs \subseteq 1 .. jobcnt
  <2>1. mode \in Modes /\ up' = FALSE /\ starts \in 0 .. MaxStarts /\ MaxStarts \in Nat
    BY <1>1, <1>2, CImptpAssumption DEF Types, up
  <2>2. starts \in Nat
    BY <2>1
  <2> QED BY <2>1, <2>2, JobsAre
<1>4. Types'
  <2>1. 1 \in 1 .. top + 1 /\ 0 \in 0 .. top * LenOf(mode)
    BY <1>3, TopNat, NoPoint
  <2>2. loop' \in [Jobs -> 1 .. top + 1] /\ done' \in [Jobs -> 0 .. top * LenOf(mode)]
    BY <1>2, <2>1
  <2> QED BY <1>1, <1>2, <2>2 DEF Types
<1>5. KidsOK'
  <2> SUFFICES ASSUME NEW j \in Jobs
               PROVE  KidOK(mode, nodes[j], nodes[j], status[j], cpc[j], 1, first[j], 0, FALSE)
    BY <1>2, <1>3 DEF KidsOK
  <2>1. KidOK(mode, base[j], nodes[j], status[j], cpc[j], loop[j], first[j], done[j], up)
    BY <1>1 DEF KidsOK
  <2> QED BY <1>2, <1>3, <2>1, KidDown
<1>6. ForkedOK'
  BY <1>1, <1>2, <1>3 DEF ForkedOK
<1>7. ReadyOK'
  <2>1. Ready' = Ready
    BY <1>2 DEF Ready
  <2> QED BY <1>1, <1>2, <2>1 DEF ReadyOK
<1>8. CntloopOK'
  <2>1. PICK g : Adds(mode, Jobs, g, done, cntloop) /\ \A j \in Jobs : Earlier(g[j], starts, Live(j))
    BY <1>1 DEF CntloopOK
  <2> DEFINE h == [j \in Jobs |-> g[j] + Incrs(mode, done[j])]
  <2>2. ASSUME NEW j \in Jobs
        PROVE  h[j] \in 0 .. top * starts /\ h[j] \in Nat /\ h[j] + Incrs(mode, done'[j]) = g[j] + Incrs(mode, done[j])
    <3>1. done[j] \in CommitPoints(mode) /\ (done[j] # 0 => Live(j))
      BY IInvJob DEF KidOK, Live
    <3>2. g[j] + Incrs(mode, done[j]) \in 0 .. top * starts
      BY <1>3, <2>1, <3>1, CountBound
    <3>3. Incrs(mode, 0) = 0 /\ done'[j] = 0
      BY <1>2, <1>3, NoPoint
    <3>4. top * starts \in Nat
      BY <1>3, TopNat
    <3> DEFINE x == g[j] + Incrs(mode, done[j])
               y == top * starts
    <3>5. h[j] = x
      OBVIOUS
    <3> HIDE DEF x, y, h
    <3>6. x \in 0 .. y /\ x \in Nat /\ x + 0 = x
      <4>1. x \in 0 .. y /\ y \in Nat
        BY <3>2, <3>4 DEF x, y
      <4> QED BY <4>1
    <3> QED BY <3>3, <3>5, <3>6 DEF x, y
  <2>3. h \in [Jobs -> Nat] /\ done' \in [Jobs -> Nat]
    BY <1>2, <2>2
  <2> HIDE DEF h
  <2>4. Adds(mode, Jobs, h, done', cntloop)
    <3> DEFINE r == done'
    <3>1. h \in [Jobs -> Nat] /\ r \in [Jobs -> Nat]
      BY <2>3
    <3>2. \A j \in Jobs : h[j] + Incrs(mode, r[j]) = g[j] + Incrs(mode, done[j])
      BY <2>2
    <3>3. mode \in Modes /\ Adds(mode, Jobs, g, done, cntloop)
      BY <1>3, <2>1
    <3> HIDE DEF r
    <3>4. Adds(mode, Jobs, h, r, cntloop)
      BY <3>1, <3>2, <3>3, AddsSame, SMT
    <3> QED BY <3>4 DEF r
  <2>5. \A j \in Jobs' : Earlier(h[j], starts', Live(j)')
    BY <1>2, <2>2 DEF Earlier, Live
  <2>6. Adds(mode', Jobs', h, done', cntloop')
    BY <1>2, <2>4
  <2> QED BY <2>5, <2>6 DEF CntloopOK
<1>9. FirstOK'
  <2>1. starts # 0
    BY <1>1, <1>2 DEF FirstOK
  <2> QED BY <1>2, <2>1 DEF FirstOK
<1> QED BY <1>4, <1>5, <1>6, <1>7, <1>8, <1>9 DEF IInv

\* Every step keeps the invariant.
LEMMA NextInv ==
  ASSUME IInv, [Next]_vars
  PROVE  IInv'
<1>1. CASE UNCHANGED vars
  <2>1. /\ UNCHANGED <<mode, main, forked, method, jobwait, jsyncnt, endloop, cntloop, starts,
                       cpc, status, loop, done, pos, tries, nodes, base, first>>
        /\ Jobs' = Jobs
    BY <1>1 DEF vars, parent, job, Jobs
  <2>2. Types
    BY DEF IInv
  <2>3. Types'
    BY <2>1, <2>2 DEF Types
  <2> QED BY <2>1, <2>3, QuietInv
<1>2. CASE mainNext \/ mainNext_st
  BY <1>2, StartInv, MismatchInv DEF mainNext, mainNext_st
<1>3. CASE mainJobs \/ mainJobs_st
  BY <1>3, ForkInv, RecordPidInv DEF mainJobs, mainJobs_st
<1>4. CASE mainWait \/ mainWait_st
  BY <1>4, WaitFirstInv, WaitSyncInv DEF mainWait, mainWait_st
<1>5. ASSUME NEW j \in Jobs, impjob(j) \/ impjob_st(j) \/ ChildFails(j) \/ CallInAfterXit(j) \/ Recover(j)
      PROVE  IInv'
  <2>1. CASE impjobStart(j) \/ impjobStart_st(j)
    BY <2>1, SyncInv DEF impjobStart, impjobStart_st
  <2>2. CASE impjobLasti(j) \/ impjobLasti_st(j)
    BY <2>2, ReadLastiInv DEF impjobLasti, impjobLasti_st
  <2>3. CASE impjobLoop(j) \/ impjobLoop_st(j)
    BY <2>3, CommitInv, TestEndloopInv DEF impjobLoop, impjobLoop_st
  <2>4. CASE callback1(j) \/ callback1_st(j) \/ callback3(j) \/ callback3_st(j)
    BY <2>4, CallInv DEF callback1, callback1_st, callback3, callback3_st
  <2>5. CASE ChildFails(j) \/ CallInAfterXit(j)
    BY <2>5, ChildEndsInv
  <2>6. CASE Recover(j)
    BY <2>6, RecoverInv
  <2> QED BY <1>5, <2>1, <2>2, <2>3, <2>4, <2>5, <2>6 DEF impjob, impjob_st
<1>6. CASE EndTP \/ Crash \/ Down
  BY <1>6, EndTPInv, CrashInv, DownInv
<1> QED BY <1>1, <1>2, <1>3, <1>4, <1>5, <1>6 DEF Next

\* The programs keep the invariant: a child is where the number of its commits says, ^cntloop
\* is what the jobs have added to it, and jsyncnt counts the children that are past it.
THEOREM Invariance == Spec => []IInv
<1>1. IInv /\ [Next]_vars => IInv'
  BY NextInv
<1> QED BY <1>1, InitInv, PTL DEF Spec

-----------------------------------------------------------------------------
(* What follows from it *)

LEMMA InvTypeOK == IInv => TypeOK
<1> SUFFICES ASSUME IInv PROVE TypeOK
  OBVIOUS
<1>1. Types /\ ReadyOK
  BY DEF IInv
<1>2. mode \in Modes
  BY <1>1 DEF Types
<1>3. N = LenOf(mode)
  <2>1. IterationOf[mode] = BodyOf[mode]
    BY <1>2, SameBody
  <2> QED BY <2>1, Zenon DEF N, LenOf
<1>4. jsyncnt \in 0 .. Cardinality(Jobs)
  <2>1. IsFiniteSet(Jobs) /\ Ready \subseteq Jobs /\ Cardinality(Jobs) \in Nat
    BY <1>2, JobsAre DEF Ready
  <2>2. Cardinality(Ready) \in Nat /\ Cardinality(Ready) <= Cardinality(Jobs)
    BY <2>1, FS_Subset, FS_CardinalityType
  <2> QED BY <1>1, <2>1, <2>2 DEF ReadyOK
<1>5. cntloop \in 0 .. Cardinality(Jobs) * top * MaxStarts
  BY IInvCount
<1>6. \A j \in Jobs : pos[j] \in 0 .. Len(tpfn_stage1(mode, 1))
  BY <1>1 DEF Types
<1> QED BY <1>1, <1>3, <1>4, <1>5, <1>6 DEF Types, TypeOK

\* A job that has counted an iteration has done the $incr of ^cntloop, of Stage 9.
LEMMA CountedIs ==
  ASSUME NEW m \in Modes, NEW q \in Nat, Incrs(m, q) # 0
  PROVE  o + 17 <= q
<1> DEFINE len == LenOf(m)
           t == q \div len
           r == q % len
<1>1. len \in Nat \ {0} /\ len = o + 27 /\ o \in Nat /\ incrAt(m) = o + 17
  BY BodyLen, IncrAtIs
<1>2. Incrs(m, q) = t + (IF r >= incrAt(m) THEN 1 ELSE 0)
  BY DEF Incrs
<1> HIDE DEF o, len
<1>3. t \in Nat /\ r \in 0 .. len - 1 /\ q = t * len + r
  BY <1>1, DivMod
<1> HIDE DEF t, r
<1>4. CASE t = 0
  <2>1. t * len = 0
    BY <1>1, <1>4
  <2>2. r >= o + 17
    BY <1>1, <1>2, <1>4
  <2> QED BY <1>1, <1>3, <2>1, <2>2
<1>5. CASE t # 0
  <2>1. 1 \in Nat /\ 1 <= t
    BY <1>3, <1>5
  <2>2. 1 * len <= t * len /\ 1 * len \in Nat /\ t * len \in Nat
    BY <1>1, <1>3, <2>1, TimesMono
  <2> DEFINE x == t * len
  <2>3. len <= x /\ x \in Nat /\ q = x + r
    BY <1>1, <1>3, <2>2
  <2> HIDE DEF x
  <2> QED BY <1>1, <1>3, <2>3
<1> QED BY <1>4, <1>5

\* A job that has counted an iteration of its first run has done Stages 1 to 8 of the first.
LEMMA CountedOne ==
  ASSUME NEW m \in Modes, NEW q \in Nat, Incrs(m, q) # 0,
         NEW b, b = [n \in 1 .. top |-> [x \in Nodes(m) |-> "undef"]], NEW d, d = RunTo(m, b, 1, q)
  PROVE  Defined(d[1], span("a")) /\ ~Defined(d[1], ntp("a"))
<1>1. o + 17 <= q /\ o \in Nat /\ top \in Nat \ {0} /\ LenOf(m) = o + 27
  BY CountedIs, TopNat, BodyLen
<1>2. 1 \in 1 .. top /\ 1 \in 1 .. top + 1
  BY <1>1
<1>3. /\ span("a") \in Nodes(m) /\ ntp("a") \in Nodes(m) /\ b \in [1 .. top -> [Nodes(m) -> Values]]
      /\ \A x \in Nodes(m) : b[1][x] = "undef"
  BY <1>2, NodesAre DEF Values
<1> DEFINE k == InIteration(m, q, 1, 1)
<1>4. k \in 0 .. LenOf(m) /\ k >= o + 17
  <2>1. k \in 0 .. LenOf(m) /\ \A p \in 1 .. LenOf(m) : p <= k <=> (1 - 1) * LenOf(m) + p <= q
    BY <1>2, PartsIs
  <2> HIDE DEF o, k
  <2>2. o + 17 \in 1 .. LenOf(m) /\ (1 - 1) * LenOf(m) + (o + 17) = o + 17
    BY <1>1
  <2>3. o + 17 <= k
    BY <1>1, <2>1, <2>2
  <2> QED BY <1>1, <2>1, <2>3
<1>5. \A x \in Nodes(m) : d[1][x] = Over(Leaves(m, 1, x, Net(m, k, x)), "undef")
  <2>1. \A x \in Nodes(m) : d[1][x] = Over(Leaves(m, 1, x, Net(m, k, x)), b[1][x])
    BY <1>2, <1>3, RunToIs
  <2> HIDE DEF k
  <2> QED BY <1>3, <2>1
<1> HIDE DEF k
<1>6. Net(m, k, ntp("a")) = "undef"
  <2>1. k >= o + 12
    <3> HIDE DEF o
    <3> QED BY <1>1, <1>4
  <2> QED BY <1>4, <2>1, EffectKilled
<1>7. Net(m, k, span("a")) \in {"stage7", "stage10"}
  <2>1. Span7("a") <= k /\ (k < Span10Begins("a") \/ Span10("a") <= k)
    <3>1. Span7("a") = o + 8 /\ Span10Begins("a") = o + 19 /\ Span10("a") = o + 19
      BY DEF Span7, Span10Begins, Span10
    <3> HIDE DEF o
    <3> QED BY <1>1, <1>4, <3>1
  <2> QED BY <1>4, <2>1, EffectSpan
<1>8. span("a") # span("e")
  BY DEF span
<1> QED BY <1>3, <1>5, <1>6, <1>7, <1>8 DEF Over, Leaves, Defined

LEMMA InvReady == IInv => ReturnedMeansReady
<1> SUFFICES ASSUME IInv, main = "returned"
             PROVE  /\ \A j \in Jobs : jobwait[j] = starts /\ cpc[j] \notin {"unborn", "init"}
                    /\ starts = 1 /\ (\A j \in Jobs : status[j] \in {"run", "gone"}) =>
                          \E j \in Jobs : Defined(nodes[j][1], span("a")) /\ ~Defined(nodes[j][1], ntp("a"))
  BY DEF ReturnedMeansReady
<1>1. Types /\ ForkedOK /\ ReadyOK /\ FirstOK /\ mode \in Modes /\ up
  BY DEF IInv, Types, up
<1>2. ASSUME NEW j \in Jobs PROVE jobwait[j] = starts
  <2>1. j < forked \/ j = forked
    <3>1. forked = Cardinality(Jobs) /\ j \in 1 .. Cardinality(Jobs) /\ Cardinality(Jobs) \in Nat
      BY <1>1, JobsAre DEF ForkedOK
    <3> QED BY <3>1
  <2> QED BY <1>1, <2>1 DEF ForkedOK
<1>3. \A j \in Jobs : cpc[j] \notin {"unborn", "init"}
  BY <1>1 DEF ReadyOK, Ready
<1>4. ASSUME starts = 1, \A j \in Jobs : status[j] \in {"run", "gone"}
      PROVE  \E j \in Jobs : Defined(nodes[j][1], span("a")) /\ ~Defined(nodes[j][1], ntp("a"))
  <2>1. (\A j \in Jobs : base[j] = NoNodes) /\ \E j \in Jobs : Incrs(mode, done[j]) # 0
    BY <1>1, <1>4 DEF FirstOK
  <2>2. PICK j \in Jobs : Incrs(mode, done[j]) # 0
    BY <2>1
  <2>3. /\ KidOK(mode, base[j], nodes[j], status[j], cpc[j], loop[j], first[j], done[j], up)
        /\ done[j] \in Nat
    BY IInvJob
  <2> DEFINE b == NoNodes
  <2>4. b = [n \in 1 .. top |-> [x \in Nodes(mode) |-> "undef"]]
    BY Zenon DEF NoNodes
  <2>5. base[j] = b
    BY <2>1
  <2> HIDE DEF b
  <2>6. first[j] = 1
    <3>1. first[j] = LastiOf(b) + 1
      BY <1>1, <1>4, <2>3, <2>5 DEF KidOK
    <3>2. LastiOf(b) = 0
      <4>1. Truth(mode, b)
        BY <1>1, <2>4, EmptyTruth
      <4>2. LastiOf(b) \in 0 .. top /\ \A n \in 1 .. top : Defined(b[n], lasti) <=> n <= LastiOf(b)
        BY <4>1 DEF Truth
      <4>3. 1 \in 1 .. top /\ lasti \in Nodes(mode) /\ top \in Nat
        BY <1>1, TopNat, NodesAre
      <4>4. ~Defined(b[1], lasti)
        BY <2>4, <4>3 DEF Defined
      <4> QED BY <4>2, <4>3, <4>4
    <3> QED BY <3>1, <3>2
  <2>7. nodes[j] = RunTo(mode, b, 1, done[j])
    BY <2>3, <2>5, <2>6 DEF KidOK
  <2>8. Defined(nodes[j][1], span("a")) /\ ~Defined(nodes[j][1], ntp("a"))
    BY <1>1, <2>2, <2>3, <2>4, <2>7, CountedOne
  <2> QED BY <2>8
<1> QED BY <1>2, <1>3, <1>4

LEMMA InvTruth == IInv => LastiTellsTruth
<1> SUFFICES ASSUME IInv PROVE LastiTellsTruth
  OBVIOUS
<1>1. TypeOK
  BY InvTypeOK
<1> SUFFICES ASSUME NEW j \in Jobs, NEW n \in 1 .. top
             PROVE  IF mode.istp = 1
                    THEN \A x \in {random(l) : l \in mode.letters} \cup {jrandom(3)} :
                            nodes[j][n][x] = IF n <= LastiOf(nodes[j]) THEN "val" ELSE "undef"
                    ELSE n <= LastiOf(nodes[j]) => compiter(mode, n, nodes[j][n])
  BY <1>1 DEF LastiTellsTruth
<1>2. mode \in Modes /\ KidOK(mode, base[j], nodes[j], status[j], cpc[j], loop[j], first[j], done[j], up)
  BY IInvJob
<1>3. Truth(mode, nodes[j])
  BY <1>2, KidTruth
<1>4. mode.istp \in {0, 1}
  BY <1>2, ModeIs
<1>5. CASE mode.istp = 1
  <2>1. /\ \A l \in mode.letters : nodes[j][n][random(l)] = IF n <= LastiOf(nodes[j]) THEN "val" ELSE "undef"
        /\ nodes[j][n][jrandom(3)] = IF n <= LastiOf(nodes[j]) THEN "val" ELSE "undef"
    BY <1>3, <1>5 DEF Truth
  <2> QED BY <1>5, <2>1, Zenon
<1>6. CASE mode.istp = 0
  BY <1>3, <1>6 DEF Truth
<1> QED BY <1>4, <1>5, <1>6

\* No child does more than its top iterations, and jsyncnt never counts a child twice or
\* one of an earlier start: the variables of the C programs have their types.
THEOREM TypeCorrect == Spec => []TypeOK
BY Invariance, InvTypeOK, PTL

\* Main returns, and so lets the crash scripts and endtp begin, only when ^%jobwait holds
\* the pids of this start and every child is where it may be killed; and on the first start
\* only when some job has done Stages 1 to 8 of an iteration: the wait for ^cntloop to change
\* is enough for that, though ^cntloop does not say which job it was.
THEOREM MainReturnsReady == Spec => []ReturnedMeansReady
BY Invariance, InvReady, PTL

\* Whatever moment the children are killed at, in or between the callbacks, and however often
\* their transactions restart, ^lasti tells what Stage 1 (or, without TP, the iteration)
\* has done; imptp goes on after it.
THEOREM LastiTrue == Spec => []LastiTellsTruth
BY Invariance, InvTruth, PTL

-----------------------------------------------------------------------------
(* The fill of com/imptp.m is implemented *)

(***************************************************************************)
(* Module M works out the body of the loop, and what it adds up to, by the *)
(* same definitions as this one.  To the provers M's are others, so that   *)
(* they are the same is proved: by expanding all of both, or step by step. *)
(***************************************************************************)
LEMMA BodySame == M!BodyOf = BodyOf
BY DEF BodyOf, Body, LaterStages, Fence, Rounds, lfence, Stage1, Stage2, Stage3, Stage4, Stage5, Stage6, Stage7,
       Stage8, Stage9, Stage10, SetPiece, Stage11, Set, Kill, ZKill, Nothing, cntloopNode, cntloopRegion,
       random, randomJ, jrandom, ntp, span, ndxarr, lasti, bntpMAX,
       M!BodyOf, M!Body, M!LaterStages, M!Fence, M!Rounds, M!lfence, M!Stage1, M!Stage2, M!Stage3, M!Stage4,
       M!Stage5, M!Stage6, M!Stage7, M!Stage8, M!Stage9, M!Stage10, M!SetPiece, M!Stage11, M!Set,
       M!Kill, M!ZKill, M!Nothing, M!cntloopNode, M!cntloopRegion,
       M!random, M!randomJ, M!jrandom, M!ntp, M!span, M!ndxarr, M!lasti, M!bntpMAX

LEMMA NodesSame == \A m : M!Nodes(m) = Nodes(m)
BY DEF Nodes, SpanLetters, random, randomJ, jrandom, ntp, span, ndxarr, lasti, bntpMAX,
       M!Nodes, M!SpanLetters, M!random, M!randomJ, M!jrandom, M!ntp, M!span, M!ndxarr, M!lasti, M!bntpMAX

LEMMA WriteSame == \A s, k, n : M!LastWrite(s, k, n) = LastWrite(s, k, n)
BY DEF LastWrite, M!LastWrite

LEMMA LenSame == \A m : M!LenOf(m) = LenOf(m)
BY BodySame DEF LenOf, M!LenOf


LEMMA EffectSame == M!NetEffect = NetEffect
<1>1. ASSUME NEW m
      PROVE  [k \in 0 .. M!LenOf(m) |-> [n \in M!Nodes(m) |-> M!LastWrite(M!BodyOf[m], k, n)]]
             = [k \in 0 .. LenOf(m) |-> [n \in Nodes(m) |-> LastWrite(BodyOf[m], k, n)]]
  <2>1. \A k : [n \in M!Nodes(m) |-> M!LastWrite(M!BodyOf[m], k, n)] = [n \in Nodes(m) |-> LastWrite(BodyOf[m], k, n)]
    <3>1. M!Nodes(m) = Nodes(m)
      BY NodesSame
    <3>2. \A k, n : M!LastWrite(M!BodyOf[m], k, n) = LastWrite(BodyOf[m], k, n)
      BY BodySame, WriteSame
    <3> QED BY <3>1, <3>2
  <2>2. M!LenOf(m) = LenOf(m)
    BY LenSame
  <2> QED BY <2>1, <2>2
<1> QED BY <1>1 DEF NetEffect, M!NetEffect

LEMMA PartSame == \A m, q, f, n : M!InIteration(m, q, f, n) = InIteration(m, q, f, n)
BY LenSame DEF InIteration, M!InIteration

LEMMA LeavesSame == \A m, n, x, v : M!Leaves(m, n, x, v) = Leaves(m, n, x, v)
BY DEF Leaves, M!Leaves, span, M!span

LEMMA AfterSame == \A m, n, db, k : M!After(m, n, db, k) = After(m, n, db, k)
BY EffectSame, LeavesSame DEF After, M!After, Over, M!Over

LEMMA RecoveredSame == \A m, d, f, c : M!Recovered(m, d, f, c) = Recovered(m, d, f, c)
<1> SUFFICES ASSUME NEW m, NEW d, NEW f, NEW c PROVE M!Recovered(m, d, f, c) = Recovered(m, d, f, c)
  OBVIOUS
<1>1. \A n : [l \in m.letters |-> M!InIteration(m, c[l], f, n)] = [l \in m.letters |-> InIteration(m, c[l], f, n)]
  BY PartSame
<1>2. \A n : M!After(m, n, d[n], [l \in m.letters |-> M!InIteration(m, c[l], f, n)])
             = After(m, n, d[n], [l \in m.letters |-> InIteration(m, c[l], f, n)])
  BY <1>1, AfterSame
<1> QED BY <1>2 DEF Recovered, M!Recovered

LEMMA PointsSame == \A m : M!CommitPoints(m) = CommitPoints(m)
<1> SUFFICES ASSUME NEW m PROVE M!CommitPoints(m) = CommitPoints(m)
  OBVIOUS
<1>1. M!Ends(m, M!BodyOf[m]) = Ends(m, BodyOf[m])
  BY BodySame DEF Ends, M!Ends
<1>2. M!LenOf(m) = LenOf(m)
  BY LenSame
<1> QED BY <1>1, <1>2 DEF CommitPoints, M!CommitPoints

LEMMA ToSame == \A m, q, l : M!UpdatesTo(m, q, l) = UpdatesTo(m, q, l)
<1> SUFFICES ASSUME NEW m, NEW q, NEW l PROVE M!UpdatesTo(m, q, l) = UpdatesTo(m, q, l)
  OBVIOUS
<1> QED BY BodySame, LenSame DEF UpdatesTo, M!UpdatesTo

LEMMA FencesSame == \A m, q : M!ClosedFences(m, q) = ClosedFences(m, q)
<1> SUFFICES ASSUME NEW m, NEW q PROVE M!ClosedFences(m, q) = ClosedFences(m, q)
  OBVIOUS
<1> DEFINE b == BodyOf[m]
           n == LenOf(m)
<1>1. M!BodyOf[m] = b /\ M!LenOf(m) = n
  BY BodySame, LenSame
<1> HIDE DEF b, n
<1> QED BY <1>1 DEF ClosedFences, M!ClosedFences, b, n

LEMMA WithSame == \A to, fences, l, cs : M!WithRegion(to, fences, l, cs) = WithRegion(to, fences, l, cs)
BY DEF WithRegion, M!WithRegion, Agree, M!Agree

LEMMA CutsAtSame == \A m, q : M!Cuts(m, q) = Cuts(m, q)
<1> SUFFICES ASSUME NEW m, NEW q PROVE M!Cuts(m, q) = Cuts(m, q)
  OBVIOUS
<1> DEFINE to == [l \in m.letters |-> UpdatesTo(m, q, l)]
           mto == [l \in m.letters |-> M!UpdatesTo(m, q, l)]
           fences == {[l \in m.letters |-> F \cap to[l]] : F \in ClosedFences(m, q)}
           mfences == {[l \in m.letters |-> F \cap mto[l]] : F \in M!ClosedFences(m, q)}
           With(l, cs) == WithRegion(to, fences, l, cs)
           MWith(l, cs) == M!WithRegion(mto, mfences, l, cs)
<1>1. mto = to
  BY ToSame
<1>2. mfences = fences
  <2> HIDE DEF to, mto
  <2> QED BY <1>1, FencesSame
<1>3. Cuts(m, q) = With("i", With("e", With("c", With("b", With("a", {[l \in {} |-> 0]})))))
  BY DEF Cuts
<1>4. M!Cuts(m, q) = MWith("i", MWith("e", MWith("c", MWith("b", MWith("a", {[l \in {} |-> 0]})))))
  BY DEF M!Cuts
<1> HIDE DEF to, mto, fences, mfences
<1>5. \A l, cs : MWith(l, cs) = With(l, cs)
  BY <1>1, <1>2, WithSame
<1> HIDE DEF With, MWith
<1> QED BY <1>3, <1>4, <1>5

LEMMA CutsSame == M!CutsOf = CutsOf
<1>1. \A m : [q \in M!CommitPoints(m) |-> M!Cuts(m, q)] = [q \in CommitPoints(m) |-> Cuts(m, q)]
  BY PointsSame, CutsAtSame
<1> QED BY <1>1 DEF CutsOf, M!CutsOf

LEMMA LastiSame == \A d : M!LastiOf(d) = LastiOf(d)
BY DEF LastiOf, Defined, lasti, Max, M!LastiOf, M!Defined, M!lasti, M!Max

LEMMA EndSame == M!EndOf = EndOf
<1>1. ASSUME NEW m PROVE M!CommitEnds(m, M!BodyOf[m]) = CommitEnds(m, BodyOf[m])
  <2> DEFINE b == BodyOf[m]
  <2>1. M!BodyOf[m] = b
    BY BodySame
  <2> HIDE DEF b
  <2>2. M!CommitEnds(m, b) = CommitEnds(m, b)
    BY DEF CommitEnds, Ends, Min, M!CommitEnds, M!Ends, M!Min
  <2> QED BY <2>1, <2>2 DEF b
<1> QED BY <1>1 DEF EndOf, M!EndOf

LEMMA IncrsSame == \A m, q : M!Incrs(m, q) = Incrs(m, q)
<1>1. ASSUME NEW m PROVE M!incrAt(m) = incrAt(m)
  <2>1. M!BodyOf[m] = BodyOf[m] /\ M!LenOf(m) = LenOf(m)
    BY BodySame, LenSame
  <2>2. M!cntloopNode(m) = cntloopNode(m)
    BY DEF cntloopNode, cntloopRegion, M!cntloopNode, M!cntloopRegion
  <2> QED BY <2>1, <2>2 DEF incrAt, M!incrAt
<1> QED BY <1>1, LenSame DEF Incrs, M!Incrs

LEMMA RegionSame == \A m : M!cntloopRegion(m) = cntloopRegion(m)
BY DEF cntloopRegion, M!cntloopRegion

-----------------------------------------------------------------------------
(* The steps of the C programs as steps of com/imptp.m *)

\* Where the M job is that a child is to be: of status s, at p, in a run from iteration f.
PcOf(u, s, p, f) ==
    IF ~u \/ s = "recovered" THEN "ended"
    ELSE IF s = "killed" THEN "killed"
    ELSE IF p = "ended" \/ f > top THEN "ended"
    ELSE IF p = "test" THEN "test" ELSE "loop"

fromBar == [j \in Jobs |-> IF up THEN first[j] ELSE 1]

\* The mapped variables, before and after a step.
LEMMA BarIs ==
  /\ pcBar = [j \in Jobs |-> PcOf(up, status[j], cpc[j], first[j])]
  /\ pcBar' = [j \in Jobs' |-> PcOf(up', status'[j], cpc'[j], first'[j])]
  /\ fromBar = [j \in Jobs |-> IF up THEN first[j] ELSE 1]
  /\ fromBar' = [j \in Jobs' |-> IF up' THEN first'[j] ELSE 1]
<1>1. \A j \in Jobs : (CASE ~up \/ status[j] = "recovered" -> "ended"
                         [] up /\ status[j] = "killed" -> "killed"
                         [] OTHER -> IF cpc[j] = "ended" \/ first[j] > top THEN "ended"
                                     ELSE IF cpc[j] = "test" THEN "test" ELSE "loop")
                      = PcOf(up, status[j], cpc[j], first[j])
  BY DEF PcOf
<1>2. \A j \in Jobs' : (CASE ~up' \/ status'[j] = "recovered" -> "ended"
                          [] up' /\ status'[j] = "killed" -> "killed"
                          [] OTHER -> IF cpc'[j] = "ended" \/ first'[j] > top THEN "ended"
                                      ELSE IF cpc'[j] = "test" THEN "test" ELSE "loop")
                       = PcOf(up', status'[j], cpc'[j], first'[j])
  BY DEF PcOf
<1>3. pcBar = [j \in Jobs |-> PcOf(up, status[j], cpc[j], first[j])]
  BY <1>1 DEF pcBar
<1>4. pcBar' = [j \in Jobs' |-> PcOf(up', status'[j], cpc'[j], first'[j])]
  BY <1>2 DEF pcBar
<1> QED BY <1>3, <1>4 DEF fromBar

LEMMA MapInit == Init => M!Init
<1> SUFFICES ASSUME Init PROVE M!Init
  OBVIOUS
<1>1. /\ mode \in Modes /\ main = "down" /\ endloop = FALSE /\ cntloop = 0 /\ starts = 0
      /\ done = [j \in Jobs |-> 0] /\ base = [j \in Jobs |-> [n \in 1 .. top |-> [x \in Nodes(mode) |-> "undef"]]]
  BY DEF Init
<1>2. up = FALSE
  BY <1>1 DEF up
<1>3. pcBar = [j \in Jobs |-> "ended"] /\ fromBar = [j \in Jobs |-> 1]
  BY <1>2, BarIs DEF PcOf
<1>4. base = [j \in Jobs |-> M!EmptyDb]
  BY <1>1, NodesSame DEF M!EmptyDb
<1>5. M!Jobs = Jobs
  BY DEF M!Jobs, Jobs
<1> QED BY <1>1, <1>2, <1>3, <1>4, <1>5 DEF M!Init, fromBar

\* A step that changes nothing that the M program knows of.
LEMMA MapStutter ==
  ASSUME UNCHANGED <<mode, base, first, done, endloop, cntloop, starts>>, up' = up,
         \A j \in Jobs : PcOf(up, status'[j], cpc'[j], first[j]) = PcOf(up, status[j], cpc[j], first[j])
  PROVE  UNCHANGED M!vars
<1>1. Jobs' = Jobs
  BY DEF Jobs
<1>2. pcBar' = pcBar
  BY <1>1, BarIs
<1>3. fromBar' = fromBar
  BY <1>1, BarIs
<1> QED BY <1>2, <1>3 DEF M!vars, fromBar

LEMMA MapQuiet ==
  ASSUME IInv, \/ Mismatch \/ Fork \/ RecordPid \/ WaitFirst \/ WaitSync
               \/ \E j \in Jobs : Call(j) \/ Restart(j)
  PROVE  UNCHANGED M!vars
<1>1. Types /\ ForkedOK
  BY DEF IInv
<1>2. UNCHANGED <<mode, base, status, first, done, endloop, cntloop, starts>> /\ up' = up
  BY DEF Mismatch, Fork, RecordPid, WaitFirst, WaitSync, Call, Restart, job, up, parent
<1>3. \A j \in Jobs : cpc'[j] = cpc[j] \/ (cpc[j] = "unborn" /\ cpc'[j] = "init")
  <2>1. CASE Fork
    <3> DEFINE k == forked + 1
    <3>1. cpc' = [cpc EXCEPT ![k] = "init"] /\ main = "fork" /\ up
      BY <2>1 DEF Fork, up
    <3>2. k \in Jobs => cpc[k] = "unborn"
      <4>1. k > forked
        BY <1>1 DEF Types
      <4> QED BY <1>1, <3>1, <4>1 DEF ForkedOK
    <3> HIDE DEF k
    <3> QED BY <1>1, <3>1, <3>2 DEF Types
  <2>2. CASE ~Fork
    <3>1. cpc' = cpc
      BY <2>2 DEF Mismatch, RecordPid, WaitFirst, WaitSync, Call, Restart, job
    <3> QED BY <3>1
  <2> QED BY <2>1, <2>2
<1>4. \A j \in Jobs : PcOf(up, status'[j], cpc'[j], first[j]) = PcOf(up, status[j], cpc[j], first[j])
  BY <1>2, <1>3 DEF PcOf
<1> QED BY <1>2, <1>4, MapStutter

LEMMA MapSync ==
  ASSUME IInv, NEW j \in Jobs, Sync(j)
  PROVE  UNCHANGED M!vars
<1>1. Types
  BY DEF IInv
<1>2. /\ UNCHANGED <<mode, base, status, first, done, endloop, cntloop, starts>> /\ up' = up
      /\ cpc[j] = "init" /\ cpc' = [cpc EXCEPT ![j] = "read"]
  BY DEF Sync, At, up, parent
<1>3. \A i \in Jobs : cpc'[i] = cpc[i] \/ (cpc[i] = "init" /\ cpc'[i] = "read")
  BY <1>1, <1>2 DEF Types
<1>4. \A i \in Jobs : PcOf(up, status'[i], cpc'[i], first[i]) = PcOf(up, status[i], cpc[i], first[i])
  BY <1>2, <1>3 DEF PcOf
<1> QED BY <1>2, <1>4, MapStutter

LEMMA MapReadLasti ==
  ASSUME IInv, NEW j \in Jobs, ReadLasti(j)
  PROVE  UNCHANGED M!vars
<1>1. Types
  BY DEF IInv
<1>2. /\ UNCHANGED <<mode, base, status, first, done, endloop, cntloop, starts>> /\ up' = up
      /\ status[j] = "run" /\ cpc[j] = "read" /\ loop'[j] = LastiOf(nodes[j]) + 1
      /\ cpc' = [cpc EXCEPT ![j] = IF loop'[j] <= top THEN "loop" ELSE "ended"]
  BY <1>1 DEF ReadLasti, At, up, parent, Types
<1>3. loop'[j] = first[j] /\ first[j] \in 1 .. top + 1 /\ top \in Nat
  <2>1. /\ mode \in Modes
        /\ KidOK(mode, base[j], nodes[j], "run", "read", loop[j], first[j], done[j], up)
    BY <1>2, IInvJob
  <2>2. nodes[j] = base[j] /\ first[j] = LastiOf(base[j]) + 1
    <3>1. done[j] = 0 /\ first[j] = LastiOf(base[j]) + 1
      BY <2>1 DEF KidOK
    <3> QED BY <2>1, <3>1, KidTruth
  <2> QED BY <1>1, <1>2, <2>2, TopNat DEF Types
<1>4. cpc'[j] = IF first[j] > top THEN "ended" ELSE "loop"
  BY <1>1, <1>2, <1>3 DEF Types
<1>5. \A i \in Jobs : i # j => cpc'[i] = cpc[i]
  BY <1>1, <1>2 DEF Types
<1>6. \A i \in Jobs : PcOf(up, status'[i], cpc'[i], first[i]) = PcOf(up, status[i], cpc[i], first[i])
  BY <1>2, <1>4, <1>5 DEF PcOf
<1> QED BY <1>2, <1>6, MapStutter

LEMMA MapChildEnds ==
  ASSUME IInv, NEW j \in Jobs, ChildFails(j) \/ CallInAfterXit(j)
  PROVE  UNCHANGED M!vars
<1>1. Types
  BY DEF IInv
<1>2. /\ UNCHANGED <<mode, base, cpc, first, done, endloop, cntloop, starts>> /\ up' = up
      /\ status[j] = "run" /\ status' = [status EXCEPT ![j] = "gone"]
  BY DEF ChildFails, CallInAfterXit, up, parent
<1>3. \A i \in Jobs : status'[i] = status[i] \/ (status[i] = "run" /\ status'[i] = "gone")
  BY <1>1, <1>2 DEF Types
<1>4. \A i \in Jobs : PcOf(up, status'[i], cpc'[i], first[i]) = PcOf(up, status[i], cpc[i], first[i])
  BY <1>2, <1>3 DEF PcOf
<1> QED BY <1>2, <1>4, MapStutter

LEMMA MapStart ==
  ASSUME IInv, Start
  PROVE  M!Start
<1>1. Types /\ KidsOK
  BY DEF IInv
<1>2. /\ UNCHANGED <<mode, cntloop, done, nodes, base>> /\ ~up /\ up' = TRUE /\ Jobs' = Jobs
      /\ endloop' = FALSE /\ starts' = starts + 1 /\ starts < MaxStarts
      /\ cpc' = [j \in Jobs |-> "unborn"] /\ status' = [j \in Jobs |-> "run"]
      /\ first' = [j \in Jobs |-> LastiOf(nodes[j]) + 1]
  BY DEF Start, Jobs, up
<1>3. ASSUME NEW j \in Jobs
      PROVE  nodes[j] = base[j] /\ done[j] = 0 /\ LastiOf(base[j]) \in 0 .. top /\ top \in Nat
  <2>1. mode \in Modes /\ KidOK(mode, base[j], nodes[j], status[j], cpc[j], loop[j], first[j], done[j], FALSE)
    <3>1. up = FALSE
      BY <1>2 DEF up
    <3> QED BY <3>1, IInvJob
  <2>2. done[j] = 0 /\ nodes[j] = base[j]
    BY <2>1, KidStart
  <2>3. Truth(mode, base[j])
    BY <2>1 DEF KidOK
  <2> QED BY <2>2, <2>3, TruthIs, TopNat
<1>4. fromBar' = [j \in Jobs |-> LastiOf(base[j]) + 1]
  BY <1>2, <1>3, BarIs
<1>5. pcBar' = [j \in Jobs |-> IF LastiOf(base[j]) < top THEN "loop" ELSE "ended"]
  <2>1. ASSUME NEW j \in Jobs
        PROVE  PcOf(up', status'[j], cpc'[j], first'[j]) = IF LastiOf(base[j]) < top THEN "loop" ELSE "ended"
    <3>1. status'[j] = "run" /\ cpc'[j] = "unborn" /\ first'[j] = LastiOf(base[j]) + 1
      BY <1>2, <1>3
    <3>2. first'[j] > top <=> ~(LastiOf(base[j]) < top)
      BY <1>3, <3>1
    <3> QED BY <1>2, <3>1, <3>2 DEF PcOf
  <2> QED BY <1>2, <2>1, BarIs
<1>6. done' = [j \in Jobs |-> 0]
  BY <1>1, <1>2, <1>3 DEF Types
<1>7. M!Jobs = Jobs /\ \A d : M!LastiOf(d) = LastiOf(d)
  BY LastiSame DEF M!Jobs, Jobs
<1> QED BY <1>2, <1>4, <1>5, <1>6, <1>7 DEF M!Start, fromBar

LEMMA MapEndTP ==
  ASSUME IInv, EndTP
  PROVE  M!EndTP
<1>1. /\ UNCHANGED <<mode, base, cpc, status, first, done, cntloop, starts>> /\ up' = up /\ up
      /\ ~endloop /\ endloop' = TRUE /\ Jobs' = Jobs
  BY DEF EndTP, parent, job, up, Jobs
<1>2. pcBar' = pcBar /\ fromBar' = fromBar
  BY <1>1, BarIs
<1> QED BY <1>1, <1>2 DEF M!EndTP, fromBar

LEMMA MapCrash ==
  ASSUME IInv, Crash
  PROVE  M!Crash
<1>1. /\ UNCHANGED <<mode, base, cpc, first, done, endloop, cntloop, starts>> /\ up' = up /\ up /\ Jobs' = Jobs
      /\ mode.crash /\ (\A j \in Jobs : status[j] \in {"run", "gone"}) /\ status' = [j \in Jobs |-> "killed"]
  BY DEF Crash, parent, up, Jobs
<1>2. fromBar' = fromBar /\ pcBar' = [j \in Jobs |-> "killed"]
  BY <1>1, BarIs DEF PcOf
<1>3. \A j \in Jobs : pcBar[j] # "killed"
  BY <1>1, BarIs DEF PcOf
<1> QED BY <1>1, <1>2, <1>3 DEF M!Crash, M!Jobs, Jobs, fromBar

\* A step of one child.
LEMMA MapOne ==
  ASSUME UNCHANGED <<mode, first>>, up' = up, NEW j \in Jobs,
         \A i \in Jobs : i # j => status'[i] = status[i] /\ cpc'[i] = cpc[i]
  PROVE  /\ Jobs' = Jobs /\ fromBar' = fromBar
         /\ pcBar' = [pcBar EXCEPT ![j] = PcOf(up, status'[j], cpc'[j], first[j])]
         /\ pcBar[j] = PcOf(up, status[j], cpc[j], first[j])
         /\ up => fromBar[j] = first[j]
<1>1. Jobs' = Jobs
  BY DEF Jobs
<1>2. fromBar' = fromBar /\ (up => fromBar[j] = first[j])
  BY <1>1, BarIs
<1>3. pcBar[j] = PcOf(up, status[j], cpc[j], first[j])
  BY BarIs
<1>4. pcBar' = [i \in Jobs |-> PcOf(up, status'[i], cpc'[i], first[i])]
  BY <1>1, BarIs
<1>5. pcBar' = [pcBar EXCEPT ![j] = PcOf(up, status'[j], cpc'[j], first[j])]
  <2>1. \A i \in Jobs : i # j => PcOf(up, status'[i], cpc'[i], first[i]) = PcOf(up, status[i], cpc[i], first[i])
    OBVIOUS
  <2> QED BY <1>4, <2>1, BarIs
<1> QED BY <1>1, <1>2, <1>3, <1>5

\* What a commit adds to ^cntloop is what the M program counts of it.
LEMMA CommitCounts ==
  ASSUME IInv, NEW j \in Jobs, Commit(j)
  PROVE  cntloop' = cntloop + Incrs(mode, done'[j]) - Incrs(mode, done[j])
<1> DEFINE upd == IF pos[j] > 0 THEN Callback(j) ELSE Current(j)
           one == IF \E k \in DOMAIN upd : upd[k].node = cntloopNode(mode) THEN 1 ELSE 0
           r == NextOf(mode, done[j])
           new == [nodes[j] EXCEPT ![loop[j]] = Updated(mode, loop[j], nodes[j][loop[j]], upd)]
           pp == IF r % LenOf(mode) = 0 THEN "test" ELSE "loop"
<1>1. /\ N = LenOf(mode) /\ CommitOf[mode] = EndOf[mode] /\ mode \in Modes /\ done[j] \in Nat
      /\ KidOK(mode, base[j], nodes[j], status[j], cpc[j], loop[j], first[j], done[j], up)
  BY IInvJob
<1>2. cntloop' = cntloop + one /\ status[j] = "run" /\ cpc[j] = "loop"
  BY DEF Commit, At
<1>3. done'[j] = r
  <2>1. done' = [done EXCEPT ![j] = @ - (@ % LenOf(mode)) + EndOf[mode][@ % LenOf(mode)]]
    BY <1>1 DEF Commit
  <2> QED BY <2>1 DEF IInv, Types, NextOf
<1>4. KidOK(mode, base[j], nodes[j], "run", "loop", loop[j], first[j], done[j], up)
  BY <1>1, <1>2
<1>5. UpdatesOf(mode, done[j] % LenOf(mode), upd)
  BY CommitUpdates
<1> HIDE DEF upd
<1>6. /\ KidOK(mode, base[j], new, "run", pp, loop[j], first[j], r, up)
      /\ Incrs(mode, r) = Incrs(mode, done[j]) + one
  BY <1>1, <1>4, <1>5, KidCommit
<1>7. Incrs(mode, done[j]) \in Nat /\ cntloop \in Int /\ one \in {0, 1}
  BY <1>1, IncrsIs, IInvCount
<1> DEFINE x == Incrs(mode, done[j])
           y == Incrs(mode, r)
<1> HIDE DEF new, pp, one, r
<1>8. y = x + one /\ x \in Nat
  BY <1>6, <1>7
<1> HIDE DEF x, y
<1>9. cntloop' = cntloop + y - x
  BY <1>2, <1>7, <1>8
<1> QED BY <1>3, <1>9 DEF x, y

LEMMA MapCommit ==
  ASSUME IInv, NEW j \in Jobs, Commit(j)
  PROVE  M!Commit(j)
<1>1. Types
  BY DEF IInv
<1>2. /\ N = LenOf(mode) /\ CommitOf[mode] = EndOf[mode] /\ mode \in Modes
      /\ KidOK(mode, base[j], nodes[j], status[j], cpc[j], loop[j], first[j], done[j], up)
  BY IInvJob
<1>3. /\ UNCHANGED <<mode, base, first, status, endloop, starts>> /\ up' = up
      /\ status[j] = "run" /\ cpc[j] = "loop"
      /\ done' = [done EXCEPT ![j] = @ - (@ % LenOf(mode)) + EndOf[mode][@ % LenOf(mode)]]
      /\ cpc' = [cpc EXCEPT ![j] = IF done'[j] % LenOf(mode) = 0 THEN "test" ELSE "loop"]
  BY <1>2 DEF Commit, At, parent, up
<1> DEFINE pp == IF done'[j] % LenOf(mode) = 0 THEN "test" ELSE "loop"
<1>4. cpc'[j] = pp /\ pp \in {"test", "loop"} /\ \A i \in Jobs : i # j => status'[i] = status[i] /\ cpc'[i] = cpc[i]
  BY <1>1, <1>3 DEF Types
<1>5. up /\ ~(first[j] > top)
  <2> DEFINE t == done[j] \div LenOf(mode)
  <2>1. up /\ loop[j] = first[j] + t /\ loop[j] <= top /\ first[j] \in 1 .. top + 1
    BY <1>2, <1>3 DEF KidOK
  <2>2. t \in Nat /\ top \in Nat
    <3>1. done[j] \in CommitPoints(mode)
      BY <1>2 DEF KidOK
    <3> QED BY <1>2, <3>1, PointNat, TopNat
  <2> HIDE DEF t
  <2> QED BY <2>1, <2>2
<1> HIDE DEF pp
<1>6. pcBar[j] = "loop" /\ pcBar' = [pcBar EXCEPT ![j] = pp] /\ fromBar' = fromBar
  <2>1. PcOf(up, status[j], cpc[j], first[j]) = "loop" /\ PcOf(up, status'[j], cpc'[j], first[j]) = pp
    BY <1>3, <1>4, <1>5 DEF PcOf
  <2> QED BY <1>3, <1>4, <2>1, MapOne
<1>7. M!LenOf(mode) = LenOf(mode) /\ M!EndOf = EndOf /\ M!N = LenOf(mode)
  BY LenSame, EndSame DEF M!N
<1>8. cntloop' = cntloop + M!Incrs(mode, done'[j]) - M!Incrs(mode, done[j])
  BY CommitCounts, IncrsSame
<1> QED BY <1>3, <1>6, <1>7, <1>8 DEF M!Commit, fromBar, pp

LEMMA MapTestEndloop ==
  ASSUME IInv, NEW j \in Jobs, TestEndloop(j)
  PROVE  M!TestEndloop(j)
<1>1. Types
  BY DEF IInv
<1>2. /\ UNCHANGED <<mode, base, first, status, done, endloop, cntloop, starts>> /\ up' = up
      /\ status[j] = "run" /\ cpc[j] = "test" /\ loop'[j] = loop[j] + 1
      /\ cpc' = [cpc EXCEPT ![j] = IF endloop \/ loop'[j] > top THEN "ended" ELSE "loop"]
  BY <1>1 DEF TestEndloop, At, parent, up, Types
<1> DEFINE pp == IF endloop \/ loop'[j] > top THEN "ended" ELSE "loop"
           i == first[j] + (done[j] \div LenOf(mode))
<1>3. cpc'[j] = pp /\ pp \in {"ended", "loop"} /\ \A k \in Jobs : k # j => status'[k] = status[k] /\ cpc'[k] = cpc[k]
  BY <1>1, <1>2 DEF Types
<1>4. up /\ ~(first[j] > top) /\ loop'[j] = i
  <2>1. KidOK(mode, base[j], nodes[j], "run", "test", loop[j], first[j], done[j], up)
    BY <1>2, IInvJob
  <2>2. up /\ loop[j] + 1 = i /\ first[j] <= loop[j] /\ i <= top + 1
    BY <2>1 DEF KidOK
  <2>3. loop[j] \in Nat /\ first[j] \in Nat /\ top \in Nat
    BY <1>1, TopNat DEF Types
  <2> HIDE DEF i
  <2> QED BY <1>2, <2>2, <2>3
<1> HIDE DEF pp
<1>5. pcBar[j] = "test" /\ pcBar' = [pcBar EXCEPT ![j] = pp] /\ fromBar' = fromBar /\ fromBar[j] = first[j]
  <2>1. PcOf(up, status[j], cpc[j], first[j]) = "test" /\ PcOf(up, status'[j], cpc'[j], first[j]) = pp
    BY <1>2, <1>3, <1>4 DEF PcOf
  <2> QED BY <1>2, <1>3, <1>4, <2>1, MapOne
<1>6. M!N = LenOf(mode)
  BY LenSame DEF M!N
<1>7. pp = IF endloop \/ fromBar[j] + (done[j] \div M!N) > top THEN "ended" ELSE "loop"
  BY <1>4, <1>5, <1>6 DEF pp
<1> QED BY <1>2, <1>5, <1>7 DEF M!TestEndloop, fromBar

LEMMA MapRecover ==
  ASSUME IInv, NEW j \in Jobs, Recover(j)
  PROVE  M!Recover(j)
<1>1. Types
  BY DEF IInv
<1>2. /\ UNCHANGED <<mode, first, cpc, endloop, starts>> /\ up' = up
      /\ status[j] = "killed" /\ status' = [status EXCEPT ![j] = "recovered"]
      /\ done' = [done EXCEPT ![j] = 0] /\ base' = [base EXCEPT ![j] = nodes'[j]]
  BY DEF Recover, parent, up
<1>3. PICK cut \in CutsOf[mode][done[j]] :
         /\ nodes' = [nodes EXCEPT ![j] = Recovered(mode, base[j], first[j], cut)]
         /\ cntloop' = cntloop - (Incrs(mode, done[j]) - Incrs(mode, cut[cntloopRegion(mode)]))
  BY DEF Recover
<1>4. up
  <2>1. KidOK(mode, base[j], nodes[j], "killed", cpc[j], loop[j], first[j], done[j], up)
    BY <1>2, IInvJob
  <2> QED BY <2>1 DEF KidOK
<1>5. /\ pcBar[j] = "killed" /\ pcBar' = [pcBar EXCEPT ![j] = "ended"]
      /\ fromBar' = fromBar /\ fromBar[j] = first[j]
  <2>1. status'[j] = "recovered" /\ \A i \in Jobs : i # j => status'[i] = status[i] /\ cpc'[i] = cpc[i]
    BY <1>1, <1>2 DEF Types
  <2>2. PcOf(up, status[j], cpc[j], first[j]) = "killed" /\ PcOf(up, status'[j], cpc'[j], first[j]) = "ended"
    BY <1>2, <1>4, <2>1 DEF PcOf
  <2> QED BY <1>2, <1>4, <2>1, <2>2, MapOne
<1>6. base' = [base EXCEPT ![j] = M!Recovered(mode, base[j], fromBar[j], cut)]
  <2>1. nodes'[j] = Recovered(mode, base[j], first[j], cut)
    BY <1>1, <1>3 DEF Types
  <2>2. M!Recovered(mode, base[j], fromBar[j], cut) = Recovered(mode, base[j], first[j], cut)
    BY <1>5, RecoveredSame
  <2> QED BY <1>2, <2>1, <2>2
<1>7. cntloop' = cntloop - M!LostIncr(j, cut[M!cntloopRegion(mode)])
  BY <1>3, IncrsSame, RegionSame DEF M!LostIncr
<1>8. cut \in M!CutsOf[mode][done[j]]
  BY CutsSame
<1> QED BY <1>2, <1>5, <1>6, <1>7, <1>8 DEF M!Recover, fromBar

LEMMA MapDown ==
  ASSUME IInv, Down
  PROVE  M!AllEnded
<1>1. Types
  BY DEF IInv
<1>2. /\ UNCHANGED <<mode, cpc, status, first, endloop, cntloop, starts>> /\ Jobs' = Jobs /\ up /\ up' = FALSE
      /\ \A j \in Jobs : status[j] = "recovered" \/ (status[j] = "run" /\ cpc[j] = "ended")
      /\ base' = nodes /\ done' = [j \in Jobs |-> 0]
  BY DEF Down, At, Jobs, up
<1>3. pcBar = [j \in Jobs |-> "ended"] /\ pcBar' = [j \in Jobs |-> "ended"]
  BY <1>2, BarIs DEF PcOf
<1>4. fromBar' = [j \in Jobs |-> 1] /\ \A j \in Jobs : fromBar[j] = first[j]
  BY <1>2, BarIs
<1>5. M!Jobs = Jobs /\ M!Letters = mode.letters
  BY DEF M!Jobs, M!Letters, Jobs
<1>6. base' = [j \in Jobs |-> M!Recovered(mode, base[j], fromBar[j], [l \in mode.letters |-> done[j]])]
  <2>1. ASSUME NEW j \in Jobs
        PROVE  nodes[j] = M!Recovered(mode, base[j], fromBar[j], [l \in mode.letters |-> done[j]])
    <3>1. KidOK(mode, base[j], nodes[j], status[j], cpc[j], loop[j], first[j], done[j], up)
      BY IInvJob
    <3>2. nodes[j] = Recovered(mode, base[j], first[j], [l \in mode.letters |-> done[j]])
      BY <3>1 DEF KidOK, RunTo
    <3> QED BY <1>4, <3>2, RecoveredSame
  <2> QED BY <1>1, <1>2, <2>1 DEF Types
<1> QED BY <1>2, <1>3, <1>4, <1>5, <1>6 DEF M!AllEnded, fromBar

\* Every step of the C programs is a step of the M program, or no step of it.
LEMMA MapNext ==
  ASSUME IInv, [Next]_vars
  PROVE  [M!Next]_M!vars
<1>1. CASE UNCHANGED vars
  <2>1. UNCHANGED <<mode, base, cpc, status, first, done, endloop, cntloop, starts>> /\ up' = up
    BY <1>1 DEF vars, parent, job, up
  <2> QED BY <2>1, MapStutter
<1>2. CASE mainNext \/ mainNext_st
  <2>1. CASE Start
    BY <2>1, MapStart DEF M!Next
  <2>2. CASE Mismatch
    BY <2>2, MapQuiet
  <2> QED BY <1>2, <2>1, <2>2 DEF mainNext, mainNext_st
<1>3. CASE mainJobs \/ mainJobs_st \/ mainWait \/ mainWait_st
  BY <1>3, MapQuiet DEF mainJobs, mainJobs_st, mainWait, mainWait_st
<1>4. ASSUME NEW j \in Jobs, impjob(j) \/ impjob_st(j) \/ ChildFails(j) \/ CallInAfterXit(j) \/ Recover(j)
      PROVE  [M!Next]_M!vars
  <2>1. CASE Sync(j) \/ ReadLasti(j) \/ Call(j) \/ Restart(j) \/ ChildFails(j) \/ CallInAfterXit(j)
    BY <2>1, MapSync, MapReadLasti, MapQuiet, MapChildEnds
  <2>2. CASE Commit(j) \/ TestEndloop(j) \/ Recover(j)
    <3>1. j \in M!Jobs
      BY DEF M!Jobs, Jobs
    <3>2. M!Commit(j) \/ M!TestEndloop(j) \/ M!Recover(j)
      BY <2>2, MapCommit, MapTestEndloop, MapRecover
    <3> QED BY <3>1, <3>2 DEF M!Next
  <2> QED BY <1>4, <2>1, <2>2
          DEF impjob, impjob_st, impjobStart, impjobStart_st, impjobLasti, impjobLasti_st,
              impjobLoop, impjobLoop_st, callback1, callback1_st, callback3, callback3_st
<1>5. CASE EndTP \/ Crash \/ Down
  BY <1>5, MapEndTP, MapCrash, MapDown DEF M!Next
<1> QED BY <1>1, <1>2, <1>3, <1>4, <1>5 DEF Next

\* The C programs implement the fill of com/imptp.m: every commit of a child, in a callback
\* of ydb_tp_s or outside of one, is the next commit of the M code, and main, the calls of the
\* callbacks and their restarts, and SIGTERM change nothing that it knows of.
THEOREM Implementation == Spec => Implements
<1>1. IInv /\ [Next]_vars => [M!Next]_M!vars
  BY MapNext
<1> QED BY <1>1, MapInit, Invariance, PTL DEF Spec, Implements, M!Spec

=============================================================================
