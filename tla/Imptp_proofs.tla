---------------------------- MODULE Imptp_proofs -----------------------------
(***************************************************************************)
(* Theorems about the fill of com/imptp.m: whatever the jobs had done when *)
(* they ended or were killed, and whatever recovery gave back of it,       *)
(* checkdb passes when the fill is down.                                   *)
(*                                                                         *)
(* The invariant says of every job what the database held at its last      *)
(* start (DbIs of module ImptpBody_proofs), that the commits since are a   *)
(* prefix of the run from ^lasti+1, and of ^cntloop that it is the sum of  *)
(* what earlier runs of the jobs counted, g, and what this one did.        *)
(***************************************************************************)
EXTENDS Imptp, ImptpBody_proofs

\* A job with the database d at its last start, at p in a run from iteration f
\* of which it has committed q updates; u: the jobs run.
JobOK(m, d, p, f, q, u) ==
    /\ q \in CommitPoints(m)
    /\ DbIs(m, d, LastiOf(d))
    /\ p = "killed" => m.crash
    /\ p \in {"test", "ended"} => q % LenOf(m) = 0
    /\ p \in {"loop", "test"} \/ q # 0 => f = LastiOf(d) + 1 /\ f + (q \div LenOf(m)) <= top + 1
    /\ p = "loop" => f + (q \div LenOf(m)) <= top
    /\ ~u => p = "ended" /\ q = 0

\* What the earlier runs of that job added to ^cntloop is g, after s starts.
Counted(m, d, p, q, s, g) ==
    /\ g \in 0 .. top * s
    /\ p \in {"loop", "test"} \/ q # 0 => g <= top * (s - 1)
    /\ ~m.crash => g = LastiOf(d)

CntloopOK ==
    \E g \in [Jobs -> 0 .. top * MaxStarts] :
        /\ cntloop = Total([j \in Jobs |-> g[j] + Incrs(mode, done[j])])
        /\ \A j \in Jobs : Counted(mode, db[j], pc[j], done[j], starts, g[j])

Types ==
    /\ mode \in Modes
    /\ db \in [Jobs -> [1 .. top -> [Nodes(mode) -> Values]]]
    /\ up \in BOOLEAN
    /\ pc \in [Jobs -> {"loop", "test", "ended", "killed"}]
    /\ from \in [Jobs -> 1 .. top + 1]
    /\ done \in [Jobs -> 0 .. top * LenOf(mode)]
    /\ endloop \in BOOLEAN
    /\ starts \in 0 .. MaxStarts

IInv ==
    /\ Types
    /\ \A j \in Jobs : JobOK(mode, db[j], pc[j], from[j], done[j], up)
    /\ CntloopOK

-----------------------------------------------------------------------------
(* The steps of one job *)

LEMMA PointIs ==
  ASSUME NEW m \in Modes, NEW q \in CommitPoints(m)
  PROVE  q \in 0 .. top * LenOf(m) /\ q \in Nat /\ top * LenOf(m) \in Nat /\ q \div LenOf(m) \in Nat
         /\ q = (q \div LenOf(m)) * LenOf(m) + (q % LenOf(m))
<1> DEFINE len == LenOf(m)
           x == top * len
<1>1. len \in Nat \ {0} /\ top \in Nat
  BY BodyLen, TopNat
<1> HIDE DEF len
<1>2. x \in Nat
  BY <1>1
<1>3. q \in 0 .. x
  BY DEF CommitPoints, len
<1> HIDE DEF x
<1>4. q \in Nat
  BY <1>2, <1>3
<1>5. q \div len \in Nat /\ q = (q \div len) * len + (q % len)
  BY <1>1, <1>4, DivMod
<1> QED BY <1>2, <1>3, <1>4, <1>5 DEF x, len

LEMMA ZeroPoint ==
  ASSUME NEW m \in Modes
  PROVE  0 \in CommitPoints(m) /\ 0 % LenOf(m) = 0 /\ 0 \div LenOf(m) = 0 /\ Incrs(m, 0) = 0
<1> DEFINE len == LenOf(m)
<1>1. len \in Nat \ {0} /\ top \in Nat
  BY BodyLen, TopNat
<1> HIDE DEF len
<1>2. 0 % len = 0 /\ 0 \div len = 0 /\ top * len \in Nat
  BY <1>1
<1>3. 0 \in 0 .. top * len
  BY <1>2
<1>4. 0 \in CommitPoints(m)
  BY <1>2, <1>3 DEF CommitPoints, len
<1>5. Incrs(m, 0) = 0
  BY <1>2, IncrsIs DEF len
<1> QED BY <1>2, <1>4, <1>5 DEF len

\* A job counts an iteration at most once in each run.
LEMMA CountedBound ==
  ASSUME NEW m \in Modes, NEW d, NEW p, NEW f, NEW q, NEW u, JobOK(m, d, p, f, q, u),
         NEW s \in Nat, NEW g, Counted(m, d, p, q, s, g)
  PROVE  g + Incrs(m, q) \in 0 .. top * s
<1>1. q \in CommitPoints(m)
  BY DEF JobOK
<1>2. q \in Nat /\ q <= top * LenOf(m)
  BY <1>1, PointIs
<1>3. Incrs(m, q) \in 0 .. top /\ top \in Nat
  BY <1>2, IncrsIs, TopNat
<1>4. g \in 0 .. top * s /\ (q # 0 => g <= top * (s - 1))
  BY DEF Counted
<1>5. q = 0 => Incrs(m, q) = 0
  BY ZeroPoint
<1>6. top * s = top * (s - 1) + top /\ top * s \in Nat /\ top * (s - 1) \in Int
  BY <1>3
<1> DEFINE x == top * s
           y == top * (s - 1)
<1>7. x = y + top /\ x \in Nat /\ y \in Int /\ g \in 0 .. x /\ (q # 0 => g <= y)
  BY <1>4, <1>6
<1> HIDE DEF x, y
<1>8. g + Incrs(m, q) \in 0 .. x
  BY <1>3, <1>5, <1>7
<1> QED BY <1>8 DEF x

LEMMA DbLast ==
  ASSUME NEW m, NEW d, DbIs(m, d, LastiOf(d))
  PROVE  LastiOf(d) \in 0 .. top /\ top \in Nat \ {0}
BY TopNat DEF DbIs

\* imptp starts the job.
LEMMA StartJob ==
  ASSUME NEW m \in Modes, NEW d, NEW p, NEW f, NEW q, JobOK(m, d, p, f, q, FALSE),
         NEW s \in Nat, NEW g, Counted(m, d, p, q, s, g),
         NEW pp, LastiOf(d) < top => pp = "loop", ~(LastiOf(d) < top) => pp = "ended"
  PROVE  /\ JobOK(m, d, pp, LastiOf(d) + 1, 0, TRUE)
         /\ Counted(m, d, pp, 0, s + 1, g)
         /\ LastiOf(d) + 1 \in 1 .. top + 1
         /\ q = 0
<1>1. DbIs(m, d, LastiOf(d)) /\ q = 0
  BY DEF JobOK
<1>2. LastiOf(d) \in 0 .. top /\ top \in Nat \ {0}
  BY <1>1, DbLast
<1>3. 0 \in CommitPoints(m) /\ 0 % LenOf(m) = 0 /\ 0 \div LenOf(m) = 0
  BY ZeroPoint
<1>4. JobOK(m, d, pp, LastiOf(d) + 1, 0, TRUE)
  BY <1>1, <1>2, <1>3 DEF JobOK
<1>5. g \in 0 .. top * s /\ (~m.crash => g = LastiOf(d))
  BY DEF Counted
<1>6. g \in 0 .. top * (s + 1) /\ g <= top * ((s + 1) - 1)
  <2>1. top * (s + 1) = top * s + top /\ (s + 1) - 1 = s /\ top * s \in Nat
    BY <1>2
  <2> DEFINE x == top * s
             y == top * (s + 1)
  <2>2. y = x + top /\ x \in Nat /\ g \in 0 .. x
    BY <1>5, <2>1
  <2> HIDE DEF x, y
  <2>3. g \in 0 .. y /\ g <= x
    BY <1>2, <2>2
  <2> QED BY <2>1, <2>3 DEF x, y
<1>7. Counted(m, d, pp, 0, s + 1, g)
  BY <1>5, <1>6 DEF Counted
<1>8. LastiOf(d) + 1 \in 1 .. top + 1
  BY <1>2
<1> QED BY <1>1, <1>4, <1>7, <1>8, Zenon

\* The job commits.
LEMMA CommitJob ==
  ASSUME NEW m \in Modes, NEW d, NEW f \in 1 .. top + 1, NEW q, NEW u, JobOK(m, d, "loop", f, q, u),
         NEW r, r = q - (q % LenOf(m)) + EndOf[m][q % LenOf(m)],
         NEW pp, pp = IF r % LenOf(m) = 0 THEN "test" ELSE "loop"
  PROVE  JobOK(m, d, pp, f, r, u) /\ r \in 0 .. top * LenOf(m)
<1>1. /\ q \in CommitPoints(m) /\ DbIs(m, d, LastiOf(d)) /\ f = LastiOf(d) + 1
      /\ f + (q \div LenOf(m)) <= top /\ u
  BY DEF JobOK
<1>2. q \in Nat /\ q \div LenOf(m) \in Nat /\ top \in Nat
  BY <1>1, PointIs, TopNat
<1>3. q \div LenOf(m) < top
  BY <1>1, <1>2
<1>4. /\ r \in CommitPoints(m) /\ r > q
      /\ IF r % LenOf(m) = 0 THEN r \div LenOf(m) = (q \div LenOf(m)) + 1
         ELSE r \div LenOf(m) = q \div LenOf(m)
  BY <1>1, <1>3, NextPoint
<1>5. r \in 0 .. top * LenOf(m)
  BY <1>4, PointIs
<1>6. /\ f + (r \div LenOf(m)) <= top + 1
      /\ pp = "loop" => f + (r \div LenOf(m)) <= top
  <2> DEFINE x == q \div LenOf(m)
             y == r \div LenOf(m)
             z == r % LenOf(m)
  <2>1. /\ x \in Nat /\ f + x <= top /\ (IF z = 0 THEN y = x + 1 ELSE y = x)
        /\ pp = (IF z = 0 THEN "test" ELSE "loop")
    BY <1>1, <1>2, <1>4
  <2> HIDE DEF x, y, z
  <2>2. f + y <= top + 1 /\ (pp = "loop" => f + y <= top)
    BY <1>2, <2>1
  <2> QED BY <2>2 DEF y
<1>7. pp \in {"loop", "test"} /\ (pp = "test" => r % LenOf(m) = 0)
  OBVIOUS
<1>8. JobOK(m, d, pp, f, r, u)
  BY <1>1, <1>4, <1>6, <1>7 DEF JobOK
<1> QED BY <1>5, <1>8

\* The job has finished an iteration, and goes on or ends.
LEMMA TestJob ==
  ASSUME NEW m \in Modes, NEW d, NEW f \in 1 .. top + 1, NEW q, NEW u, JobOK(m, d, "test", f, q, u), NEW stop \in BOOLEAN,
         NEW pp, pp = IF stop \/ f + (q \div LenOf(m)) > top THEN "ended" ELSE "loop"
  PROVE  JobOK(m, d, pp, f, q, u)
<1>1. /\ q \in CommitPoints(m) /\ DbIs(m, d, LastiOf(d)) /\ f = LastiOf(d) + 1
      /\ f + (q \div LenOf(m)) <= top + 1 /\ q % LenOf(m) = 0 /\ u
  BY DEF JobOK
<1>2. q \div LenOf(m) \in Nat /\ top \in Nat
  BY <1>1, PointIs, TopNat
<1>3. pp = "loop" => f + (q \div LenOf(m)) <= top
  BY <1>1, <1>2
<1>4. pp \in {"loop", "ended"}
  OBVIOUS
<1> QED BY <1>1, <1>3, <1>4 DEF JobOK

\* The job is killed.
LEMMA CrashJob ==
  ASSUME NEW m \in Modes, m.crash, NEW d, NEW p \in {"loop", "test", "ended"}, NEW f, NEW q, JobOK(m, d, p, f, q, TRUE)
  PROVE  JobOK(m, d, "killed", f, q, TRUE)
BY DEF JobOK

\* What recovery gives back of the job.
LEMMA RecoverJob ==
  ASSUME NEW m \in Modes, NEW d, NEW f \in 1 .. top + 1, NEW q, NEW u, JobOK(m, d, "killed", f, q, u),
         NEW cut \in CutsOf[m][q], NEW new, new = Recovered(m, d, f, cut),
         NEW s \in Nat, NEW g, Counted(m, d, "killed", q, s, g),
         NEW h, h = g + Incrs(m, cut[cntloopRegion(m)])
  PROVE  /\ JobOK(m, new, "ended", f, 0, u)
         /\ Counted(m, new, "ended", 0, s, h)
         /\ cut[cntloopRegion(m)] \in Nat
<1>1. q \in CommitPoints(m) /\ DbIs(m, d, LastiOf(d)) /\ m.crash /\ u
  BY DEF JobOK
<1>2. cut \in Cuts(m, q)
  BY <1>1 DEF CutsOf
<1>3. q \in 0 .. top * LenOf(m) /\ q \in Nat /\ top * LenOf(m) \in Nat
  BY <1>1, PointIs
<1>4. \A l \in m.letters : cut[l] \in 0 .. q
  BY <1>2, <1>3, CutBound
<1>5. cut \in [m.letters -> Nat]
  BY <1>2, <1>3, CutsAre
<1>6. DbIs(m, new, LastiOf(new))
  <2>1. CASE q = 0
    <3>1. \A l \in m.letters : cut[l] = 0
      BY <1>4, <2>1
    <3>2. cut \in [m.letters -> {0}]
      BY <1>5, <3>1
    <3>3. new = d
      BY <1>1, <3>2, NoRun
    <3> QED BY <1>1, <3>3
  <2>2. CASE q # 0
    <3>1. f = LastiOf(d) + 1
      BY <2>2 DEF JobOK
    <3>2. LastiOf(d) \in 0 .. top /\ top \in Nat
      BY <1>1, DbLast
    <3>3. f - 1 = LastiOf(d)
      BY <3>1, <3>2
    <3>4. DbIs(m, d, f - 1)
      BY <1>1, <3>3
    <3> QED BY <1>1, <1>2, <1>3, <3>4, CutRun
  <2> QED BY <2>1, <2>2
<1>7. 0 \in CommitPoints(m) /\ 0 % LenOf(m) = 0
  BY ZeroPoint
<1>8. JobOK(m, new, "ended", f, 0, u)
  BY <1>1, <1>6, <1>7 DEF JobOK
<1> DEFINE c == cut[cntloopRegion(m)]
<1>9. c \in 0 .. q
  <2>1. cntloopRegion(m) \in m.letters
    BY NodesAre DEF cntloopRegion
  <2> QED BY <1>4, <2>1
<1> HIDE DEF c
<1>10. h = g + Incrs(m, c)
  BY DEF c
<1>11. Incrs(m, c) \in 0 .. top /\ top \in Nat /\ (q = 0 => Incrs(m, c) = 0)
  <2> DEFINE x == top * LenOf(m)
  <2>1. x \in Nat /\ q \in 0 .. x
    BY <1>3
  <2> HIDE DEF x
  <2>2. c \in Nat /\ c <= x
    BY <1>9, <2>1
  <2>3. Incrs(m, c) \in Nat /\ Incrs(m, c) <= top
    BY <2>2, IncrsIs DEF x
  <2>4. q = 0 => c = 0
    BY <1>9
  <2> QED BY <2>3, <2>4, TopNat, ZeroPoint
<1>12. g \in 0 .. top * s /\ (q # 0 => g <= top * (s - 1))
  BY DEF Counted
<1>13. h \in 0 .. top * s
  <2>1. top * s = top * (s - 1) + top /\ top * s \in Nat /\ top * (s - 1) \in Int
    BY <1>11
  <2> DEFINE x == top * s
             y == top * (s - 1)
  <2>2. x = y + top /\ x \in Nat /\ y \in Int /\ g \in 0 .. x /\ (q # 0 => g <= y)
    BY <1>12, <2>1
  <2> HIDE DEF x, y
  <2>3. h \in 0 .. x
    BY <1>10, <1>11, <2>2
  <2> QED BY <2>3 DEF x
<1>14. Counted(m, new, "ended", 0, s, h)
  BY <1>1, <1>13 DEF Counted
<1> QED BY <1>8, <1>9, <1>14 DEF c

\* wait^job finds that the job has ended.
LEMMA EndJob ==
  ASSUME NEW m \in Modes, NEW d, NEW f \in 1 .. top + 1, NEW q, NEW u, JobOK(m, d, "ended", f, q, u),
         NEW new, new = Recovered(m, d, f, [l \in m.letters |-> q]),
         NEW s \in Nat, NEW g, Counted(m, d, "ended", q, s, g),
         NEW h, h = g + Incrs(m, q)
  PROVE  /\ \A e : JobOK(m, new, "ended", e, 0, FALSE)
         /\ Counted(m, new, "ended", 0, s, h)
<1> DEFINE len == LenOf(m)
           t == q \div len
<1>1. q \in CommitPoints(m) /\ DbIs(m, d, LastiOf(d)) /\ q % len = 0
  BY DEF JobOK
<1>2. q \in Nat /\ t \in Nat /\ q = t * len + (q % len) /\ len \in Nat \ {0}
  BY <1>1, PointIs, BodyLen
<1> HIDE DEF len
<1>3. q = t * len
  <2> DEFINE x == t * len
  <2>1. x \in Nat /\ q = x + 0
    BY <1>1, <1>2
  <2> HIDE DEF x
  <2>2. q = x
    BY <2>1
  <2> QED BY <2>2 DEF x
<1>4. Incrs(m, q) = t
  BY <1>1, <1>2, IncrsIs DEF len
<1>5. LastiOf(d) \in 0 .. top /\ top \in Nat
  BY <1>1, DbLast
<1> HIDE DEF t
<1>6. DbIs(m, new, LastiOf(new)) /\ LastiOf(new) = LastiOf(d) + t
  <2>1. CASE q = 0
    <3>1. [l \in m.letters |-> q] \in [m.letters -> {0}]
      BY <2>1
    <3>2. new = d
      BY <1>1, <3>1, NoRun
    <3>3. t = 0
      BY <1>4, <2>1, ZeroPoint
    <3> QED BY <1>1, <1>5, <3>2, <3>3
  <2>2. CASE q # 0
    <3>1. f = LastiOf(d) + 1 /\ f + t <= top + 1
      BY <2>2 DEF JobOK, t, len
    <3>2. f - 1 = LastiOf(d)
      BY <1>5, <3>1
    <3>3. DbIs(m, d, f - 1)
      BY <1>1, <3>2
    <3>4. DbIs(m, new, LastiOf(new)) /\ LastiOf(new) = f - 1 + t
      <4> DEFINE cut == [l \in m.letters |-> t * LenOf(m)]
      <4>1. new = Recovered(m, d, f, cut)
        BY <1>3 DEF len
      <4> HIDE DEF cut
      <4>2. /\ DbIs(m, Recovered(m, d, f, cut), LastiOf(Recovered(m, d, f, cut)))
            /\ LastiOf(Recovered(m, d, f, cut)) = f - 1 + t
        BY <1>2, <3>1, <3>3, WholeRun DEF cut
      <4> QED BY <4>1, <4>2
    <3> QED BY <3>2, <3>4
  <2> QED BY <2>1, <2>2
<1>7. 0 \in CommitPoints(m) /\ 0 % LenOf(m) = 0
  BY ZeroPoint
<1>8. \A e : JobOK(m, new, "ended", e, 0, FALSE)
  BY <1>6, <1>7 DEF JobOK
<1>9. h \in 0 .. top * s
  BY CountedBound
<1>10. ~m.crash => h = LastiOf(new)
  BY <1>4, <1>6 DEF Counted
<1>11. Counted(m, new, "ended", 0, s, h)
  BY <1>9, <1>10 DEF Counted
<1> QED BY <1>8, <1>11

-----------------------------------------------------------------------------
(* The steps of the fill *)

LEMMA InvJob ==
  ASSUME IInv, NEW j \in Jobs
  PROVE  /\ mode \in Modes /\ j \in 1 .. jobcnt /\ JobOK(mode, db[j], pc[j], from[j], done[j], up)
         /\ from[j] \in 1 .. top + 1 /\ pc[j] \in {"loop", "test", "ended", "killed"}
         /\ starts \in Nat /\ MaxStarts \in Nat /\ starts <= MaxStarts
BY ImptpAssumption DEF IInv, Types, Jobs

LEMMA StartsBound ==
  ASSUME NEW s \in 0 .. MaxStarts, NEW g \in 0 .. top * s
  PROVE  g \in 0 .. top * MaxStarts
<1>1. top \in Nat /\ MaxStarts \in Nat
  BY TopNat, ImptpAssumption
<1>2. s * top <= MaxStarts * top /\ s * top \in Nat /\ MaxStarts * top \in Nat
  BY <1>1, TimesMono
<1>3. top * s = s * top /\ top * MaxStarts = MaxStarts * top
  BY <1>1
<1> DEFINE x == top * s
           y == top * MaxStarts
<1>4. x \in Nat /\ y \in Nat /\ x <= y /\ g \in 0 .. x
  BY <1>2, <1>3
<1> HIDE DEF x, y
<1>5. g \in 0 .. y
  BY <1>4
<1> QED BY <1>5 DEF y

\* What the jobs count is a number.
LEMMA SumType ==
  ASSUME IInv, NEW g, \A j \in Jobs : Counted(mode, db[j], pc[j], done[j], starts, g[j])
  PROVE  [j \in Jobs |-> g[j] + Incrs(mode, done[j])] \in [Jobs -> 0 .. top * starts]
<1>1. ASSUME NEW j \in Jobs PROVE g[j] + Incrs(mode, done[j]) \in 0 .. top * starts
  <2>1. mode \in Modes /\ starts \in Nat /\ JobOK(mode, db[j], pc[j], from[j], done[j], up)
    BY InvJob
  <2> QED BY <2>1, CountedBound
<1> QED BY <1>1

\* ^cntloop is a number, that the starts and the bound top limit.
LEMMA IInvCount ==
  ASSUME IInv
  PROVE  cntloop \in 0 .. Cardinality(Jobs) * top * MaxStarts /\ cntloop \in Int
<1>1. PICK g \in [Jobs -> 0 .. top * MaxStarts] :
         /\ cntloop = Total([i \in Jobs |-> g[i] + Incrs(mode, done[i])])
         /\ \A i \in Jobs : Counted(mode, db[i], pc[i], done[i], starts, g[i])
  BY DEF IInv, CntloopOK
<1> DEFINE f == [i \in Jobs |-> g[i] + Incrs(mode, done[i])]
<1>2. f \in [Jobs -> 0 .. top * starts]
  BY <1>1, SumType
<1>3. Jobs \subseteq 1 .. jobcnt /\ starts \in 0 .. MaxStarts /\ top \in Nat /\ MaxStarts \in Nat
  BY ImptpAssumption, TopNat DEF IInv, Types, Jobs
<1> HIDE DEF f
<1>4. f \in [Jobs -> 0 .. top * MaxStarts]
  <2>1. \A i \in Jobs : f[i] \in 0 .. top * MaxStarts
    BY <1>2, <1>3, StartsBound
  <2> QED BY <1>2, <2>1
<1>5. top * MaxStarts \in Nat
  BY <1>3
<1>6. Total(f) \in 0 .. Cardinality(Jobs) * (top * MaxStarts)
  BY <1>3, <1>4, <1>5, TotalBound
<1>7. Cardinality(Jobs) \in Nat
  <2>1. IsFiniteSet(1 .. jobcnt)
    BY StageAssumption, FS_Interval
  <2> QED BY <1>3, <2>1, FS_Subset, FS_CardinalityType
<1>8. Cardinality(Jobs) * (top * MaxStarts) = Cardinality(Jobs) * top * MaxStarts
  BY <1>3, <1>7
<1>9. cntloop = Total(f)
  BY <1>1 DEF f
<1> QED BY <1>6, <1>8, <1>9

\* A step of one job.
LEMMA OneJob ==
  ASSUME IInv, NEW j \in Jobs, Types', UNCHANGED <<mode, starts, up>>,
         \A i \in Jobs : i # j => db'[i] = db[i] /\ pc'[i] = pc[i] /\ from'[i] = from[i] /\ done'[i] = done[i],
         JobOK(mode, db'[j], pc'[j], from'[j], done'[j], up),
         \A g : Counted(mode, db[j], pc[j], done[j], starts, g) =>
             \E h \in Int :
                /\ Counted(mode, db'[j], pc'[j], done'[j], starts, h)
                /\ cntloop' = cntloop + ((h + Incrs(mode, done'[j])) - (g + Incrs(mode, done[j])))
  PROVE  IInv'
<1>1. mode' = mode /\ starts' = starts /\ up' = up /\ Jobs' = Jobs /\ mode \in Modes
  BY InvJob DEF Jobs
<1>2. ASSUME NEW i \in Jobs PROVE JobOK(mode', db'[i], pc'[i], from'[i], done'[i], up')
  <2>1. CASE i = j
    BY <1>1, <2>1
  <2>2. CASE i # j
    <3>1. db'[i] = db[i] /\ pc'[i] = pc[i] /\ from'[i] = from[i] /\ done'[i] = done[i]
      BY <2>2
    <3>2. JobOK(mode, db[i], pc[i], from[i], done[i], up)
      BY InvJob
    <3> QED BY <1>1, <3>1, <3>2
  <2> QED BY <2>1, <2>2
<1>3. PICK g \in [Jobs -> 0 .. top * MaxStarts] :
         /\ cntloop = Total([i \in Jobs |-> g[i] + Incrs(mode, done[i])])
         /\ \A i \in Jobs : Counted(mode, db[i], pc[i], done[i], starts, g[i])
  BY DEF IInv, CntloopOK
<1>4. PICK h \in Int : /\ Counted(mode, db'[j], pc'[j], done'[j], starts, h)
                       /\ cntloop' = cntloop + ((h + Incrs(mode, done'[j])) - (g[j] + Incrs(mode, done[j])))
  BY <1>3
<1>5. starts \in Nat /\ starts \in 0 .. MaxStarts /\ Jobs \subseteq 1 .. jobcnt /\ top \in Nat
  BY InvJob, ImptpAssumption, TopNat DEF Jobs
<1>6. h \in 0 .. top * MaxStarts
  BY <1>4, <1>5, StartsBound DEF Counted
<1> DEFINE n == [g EXCEPT ![j] = h]
           f1 == [i \in Jobs |-> g[i] + Incrs(mode, done[i])]
           f2 == [i \in Jobs |-> n[i] + Incrs(mode, done'[i])]
<1>7. n \in [Jobs -> 0 .. top * MaxStarts] /\ n[j] = h
  BY <1>6
<1>8. \A i \in Jobs : Counted(mode, db'[i], pc'[i], done'[i], starts, n[i])
  BY <1>3, <1>4
<1>9. \A i \in Jobs : i # j => n[i] = g[i] /\ done'[i] = done[i]
  OBVIOUS
<1> HIDE DEF n
<1>10. \A i \in Jobs : g[i] \in Nat /\ n[i] \in Nat /\ done[i] \in Nat /\ done'[i] \in Nat
  <2> SUFFICES ASSUME NEW i \in Jobs PROVE g[i] \in Nat /\ n[i] \in Nat /\ done[i] \in Nat /\ done'[i] \in Nat
    OBVIOUS
  <2>1. JobOK(mode, db'[i], pc'[i], from'[i], done'[i], up) /\ JobOK(mode, db[i], pc[i], from[i], done[i], up)
    BY <1>1, <1>2, InvJob
  <2>2. done[i] \in Nat /\ done'[i] \in Nat
    BY <1>1, <2>1, PointIs DEF JobOK
  <2> QED BY <1>3, <1>7, <2>2
<1>11. f1 \in [Jobs -> Nat] /\ f2 \in [Jobs -> Nat]
  <2>1. \A i \in Jobs : g[i] + Incrs(mode, done[i]) \in Nat
    BY <1>1, <1>10, AddsNat
  <2>2. \A i \in Jobs : n[i] + Incrs(mode, done'[i]) \in Nat
    BY <1>1, <1>10, AddsNat
  <2> QED BY <2>1, <2>2
<1>12. f1[j] = g[j] + Incrs(mode, done[j]) /\ f2[j] = h + Incrs(mode, done'[j])
  BY <1>7
<1>13. \A i \in Jobs : i # j => f2[i] = f1[i]
  BY <1>9
<1>14. cntloop = Total(f1) /\ cntloop' = cntloop + (f2[j] - f1[j])
  BY <1>3, <1>4, <1>12
<1> HIDE DEF f1, f2
<1>15. OnlyOf(Jobs, j, f1, f2)
  BY <1>5, <1>11, <1>13 DEF OnlyOf
<1>16. Total(f2) = Total(f1) + (f2[j] - f1[j])
  BY <1>15, TotalDiffers
<1>17. cntloop' = Total(f2)
  BY <1>14, <1>16
<1>18. CntloopOK'
  <2>1. cntloop' = Total([i \in Jobs' |-> n[i] + Incrs(mode', done'[i])])
    BY <1>1, <1>17 DEF f2
  <2>2. \A i \in Jobs' : Counted(mode', db'[i], pc'[i], done'[i], starts', n[i])
    BY <1>1, <1>8
  <2>3. n \in [Jobs' -> 0 .. top * MaxStarts]
    BY <1>1, <1>7
  <2> QED BY <2>1, <2>2, <2>3 DEF CntloopOK
<1>19. \A i \in Jobs' : JobOK(mode', db'[i], pc'[i], from'[i], done'[i], up')
  BY <1>1, <1>2
<1> QED BY <1>18, <1>19 DEF IInv

LEMMA CommitInv ==
  ASSUME IInv, NEW j \in Jobs, Commit(j)
  PROVE  IInv'
<1> DEFINE r == done[j] - (done[j] % LenOf(mode)) + EndOf[mode][done[j] % LenOf(mode)]
           pp == IF r % LenOf(mode) = 0 THEN "test" ELSE "loop"
<1>1. Types
  BY DEF IInv
<1>2. /\ mode' = mode /\ db' = db /\ up' = up /\ from' = from /\ endloop' = endloop /\ starts' = starts
      /\ Jobs' = Jobs
  BY DEF Commit, Jobs
<1>3. /\ done' = [done EXCEPT ![j] = r] /\ done'[j] = r
      /\ pc' = [pc EXCEPT ![j] = pp] /\ pc'[j] = pp /\ pc[j] = "loop"
  BY <1>1 DEF Commit, Types, N
<1>4. cntloop' = cntloop + Incrs(mode, r) - Incrs(mode, done[j])
  BY <1>3 DEF Commit
<1>5. mode \in Modes /\ JobOK(mode, db[j], "loop", from[j], done[j], up) /\ from[j] \in 1 .. top + 1
  BY <1>3, InvJob
<1>6. JobOK(mode, db[j], pp, from[j], r, up) /\ r \in 0 .. top * LenOf(mode)
  BY <1>5, CommitJob
<1> HIDE DEF r
<1>7. Types'
  BY <1>1, <1>2, <1>3, <1>6 DEF Types
<1>8. pp \in {"loop", "test"}
  OBVIOUS
<1> HIDE DEF pp
<1>9. \A i \in Jobs : i # j => db'[i] = db[i] /\ pc'[i] = pc[i] /\ from'[i] = from[i] /\ done'[i] = done[i]
  BY <1>1, <1>2, <1>3 DEF Types
<1>10. JobOK(mode, db'[j], pc'[j], from'[j], done'[j], up)
  BY <1>2, <1>3, <1>6
<1>11. ASSUME NEW g, Counted(mode, db[j], pc[j], done[j], starts, g)
       PROVE  \E h \in Int :
                 /\ Counted(mode, db'[j], pc'[j], done'[j], starts, h)
                 /\ cntloop' = cntloop + ((h + Incrs(mode, done'[j])) - (g + Incrs(mode, done[j])))
  <2>1. Counted(mode, db'[j], pc'[j], done'[j], starts, g)
    BY <1>2, <1>3, <1>8, <1>11 DEF Counted
  <2>2. g \in Int
    BY <1>11 DEF Counted
  <2>3. Incrs(mode, r) \in Int /\ Incrs(mode, done[j]) \in Int
    <3>1. r \in CommitPoints(mode) /\ done[j] \in CommitPoints(mode)
      BY <1>5, <1>6 DEF JobOK
    <3> QED BY <1>5, <3>1, PointIs, IncrsIs
  <2>4. cntloop \in Int
    BY IInvCount
  <2>5. cntloop' = cntloop + ((g + Incrs(mode, done'[j])) - (g + Incrs(mode, done[j])))
    BY <1>3, <1>4, <2>2, <2>3, <2>4
  <2> QED BY <2>1, <2>2, <2>5
<1> QED BY <1>2, <1>7, <1>9, <1>10, <1>11, OneJob

LEMMA TestEndloopInv ==
  ASSUME IInv, NEW j \in Jobs, TestEndloop(j)
  PROVE  IInv'
<1> DEFINE pp == IF endloop \/ from[j] + (done[j] \div LenOf(mode)) > top THEN "ended" ELSE "loop"
<1>1. Types
  BY DEF IInv
<1>2. /\ mode' = mode /\ db' = db /\ up' = up /\ from' = from /\ endloop' = endloop /\ starts' = starts
      /\ done' = done /\ cntloop' = cntloop /\ Jobs' = Jobs
  BY DEF TestEndloop, Jobs
<1>3. pc' = [pc EXCEPT ![j] = pp] /\ pc'[j] = pp /\ pc[j] = "test"
  BY <1>1 DEF TestEndloop, Types, N
<1>4. mode \in Modes /\ JobOK(mode, db[j], "test", from[j], done[j], up) /\ from[j] \in 1 .. top + 1
  BY <1>3, InvJob
<1>5. JobOK(mode, db[j], pp, from[j], done[j], up)
  <2>1. endloop \in BOOLEAN
    BY <1>1 DEF Types
  <2> QED BY <1>4, <2>1, TestJob
<1>6. pp \in {"loop", "ended"}
  OBVIOUS
<1> HIDE DEF pp
<1>7. Types'
  BY <1>1, <1>2, <1>3, <1>6 DEF Types
<1>8. \A i \in Jobs : i # j => db'[i] = db[i] /\ pc'[i] = pc[i] /\ from'[i] = from[i] /\ done'[i] = done[i]
  BY <1>1, <1>2, <1>3 DEF Types
<1>9. JobOK(mode, db'[j], pc'[j], from'[j], done'[j], up)
  BY <1>2, <1>3, <1>5
<1>10. ASSUME NEW g, Counted(mode, db[j], pc[j], done[j], starts, g)
       PROVE  \E h \in Int :
                 /\ Counted(mode, db'[j], pc'[j], done'[j], starts, h)
                 /\ cntloop' = cntloop + ((h + Incrs(mode, done'[j])) - (g + Incrs(mode, done[j])))
  <2>1. Counted(mode, db'[j], pc'[j], done'[j], starts, g)
    BY <1>2, <1>3, <1>6, <1>10 DEF Counted
  <2>2. g \in Int
    BY <1>10 DEF Counted
  <2>3. Incrs(mode, done[j]) \in Int
    <3>1. done[j] \in CommitPoints(mode)
      BY <1>4 DEF JobOK
    <3> QED BY <1>4, <3>1, PointIs, IncrsIs
  <2>4. cntloop \in Int
    BY IInvCount
  <2>5. cntloop' = cntloop + ((g + Incrs(mode, done'[j])) - (g + Incrs(mode, done[j])))
    BY <1>2, <2>2, <2>3, <2>4
  <2> QED BY <2>1, <2>2, <2>5
<1> QED BY <1>2, <1>7, <1>8, <1>9, <1>10, OneJob

LEMMA RecoverInv ==
  ASSUME IInv, NEW j \in Jobs, Recover(j)
  PROVE  IInv'
<1>1. Types
  BY DEF IInv
<1>2. /\ mode' = mode /\ up' = up /\ from' = from /\ endloop' = endloop /\ starts' = starts
      /\ Jobs' = Jobs /\ pc[j] = "killed"
  BY DEF Recover, Jobs
<1>3. PICK cut \in CutsOf[mode][done[j]] :
         /\ db' = [db EXCEPT ![j] = Recovered(mode, db[j], from[j], cut)]
         /\ cntloop' = cntloop - LostIncr(j, cut[cntloopRegion(mode)])
  BY DEF Recover
<1> DEFINE new == Recovered(mode, db[j], from[j], cut)
           c == cut[cntloopRegion(mode)]
<1>4. /\ pc' = [pc EXCEPT ![j] = "ended"] /\ pc'[j] = "ended"
      /\ done' = [done EXCEPT ![j] = 0] /\ done'[j] = 0
      /\ db'[j] = new
  BY <1>1, <1>3 DEF Recover, Types
<1>5. /\ mode \in Modes /\ JobOK(mode, db[j], "killed", from[j], done[j], up) /\ from[j] \in 1 .. top + 1
      /\ starts \in Nat
  BY <1>2, InvJob
<1>6. ASSUME NEW g, Counted(mode, db[j], "killed", done[j], starts, g)
      PROVE  /\ JobOK(mode, new, "ended", from[j], 0, up)
             /\ Counted(mode, new, "ended", 0, starts, g + Incrs(mode, c))
             /\ c \in Nat
  BY <1>5, <1>6, RecoverJob
<1> HIDE DEF new, c
<1>7. PICK g0 : Counted(mode, db[j], "killed", done[j], starts, g0)
  BY <1>2 DEF IInv, CntloopOK
<1>8. JobOK(mode, new, "ended", from[j], 0, up) /\ c \in Nat
  BY <1>6, <1>7
<1>9. new \in [1 .. top -> [Nodes(mode) -> Values]]
  BY <1>8 DEF JobOK, DbIs
<1>10. Types'
  <2>1. db' \in [Jobs -> [1 .. top -> [Nodes(mode) -> Values]]]
    BY <1>1, <1>3, <1>9 DEF Types, new
  <2>2. pc' \in [Jobs -> {"loop", "test", "ended", "killed"}]
    BY <1>1, <1>4 DEF Types
  <2>3. 0 \in 0 .. top * LenOf(mode)
    <3>1. top * LenOf(mode) \in Nat
      BY <1>5, BodyLen, TopNat
    <3> QED BY <3>1
  <2>4. done' \in [Jobs -> 0 .. top * LenOf(mode)]
    BY <1>1, <1>4, <2>3 DEF Types
  <2> QED BY <1>1, <1>2, <2>1, <2>2, <2>4 DEF Types
<1>11. \A i \in Jobs : i # j => db'[i] = db[i] /\ pc'[i] = pc[i] /\ from'[i] = from[i] /\ done'[i] = done[i]
  BY <1>1, <1>2, <1>3, <1>4 DEF Types
<1>12. JobOK(mode, db'[j], pc'[j], from'[j], done'[j], up)
  BY <1>2, <1>4, <1>8
<1>13. ASSUME NEW g, Counted(mode, db[j], pc[j], done[j], starts, g)
       PROVE  \E h \in Int :
                 /\ Counted(mode, db'[j], pc'[j], done'[j], starts, h)
                 /\ cntloop' = cntloop + ((h + Incrs(mode, done'[j])) - (g + Incrs(mode, done[j])))
  <2>1. Counted(mode, db'[j], pc'[j], done'[j], starts, g + Incrs(mode, c))
    BY <1>2, <1>4, <1>6, <1>13
  <2>2. g \in Int
    BY <1>13 DEF Counted
  <2>3. Incrs(mode, done[j]) \in Int /\ Incrs(mode, c) \in Int
    <3>1. done[j] \in CommitPoints(mode)
      BY <1>5 DEF JobOK
    <3> QED BY <1>5, <1>8, <3>1, PointIs, IncrsIs
  <2>4. cntloop \in Int
    BY IInvCount
  <2>5. cntloop' = cntloop - (Incrs(mode, done[j]) - Incrs(mode, c)) /\ Incrs(mode, done'[j]) = 0
    BY <1>3, <1>4, <1>5, ZeroPoint DEF LostIncr, c
  <2>6. cntloop' = cntloop + (((g + Incrs(mode, c)) + Incrs(mode, done'[j])) - (g + Incrs(mode, done[j])))
    BY <2>2, <2>3, <2>4, <2>5
  <2>7. g + Incrs(mode, c) \in Int
    BY <2>2, <2>3
  <2> QED BY <2>1, <2>6, <2>7
<1> QED BY <1>2, <1>10, <1>11, <1>12, <1>13, OneJob

\* A step of all jobs that leaves ^cntloop as it is.
LEMMA AllJobs ==
  ASSUME IInv, Types', mode' = mode, cntloop' = cntloop,
         \A j \in Jobs : JobOK(mode, db'[j], pc'[j], from'[j], done'[j], up'),
         \A j \in Jobs : \A g \in Int :
            Counted(mode, db[j], pc[j], done[j], starts, g) =>
               Counted(mode, db'[j], pc'[j], done'[j], starts', (g + Incrs(mode, done[j])) - Incrs(mode, done'[j]))
  PROVE  IInv'
<1>1. Jobs' = Jobs /\ starts' \in 0 .. MaxStarts
  BY DEF Jobs, Types
<1>2. PICK g \in [Jobs -> 0 .. top * MaxStarts] :
         /\ cntloop = Total([i \in Jobs |-> g[i] + Incrs(mode, done[i])])
         /\ \A i \in Jobs : Counted(mode, db[i], pc[i], done[i], starts, g[i])
  BY DEF IInv, CntloopOK
<1> DEFINE h == [i \in Jobs |-> (g[i] + Incrs(mode, done[i])) - Incrs(mode, done'[i])]
<1>3. \A i \in Jobs : g[i] \in Int
  BY <1>2 DEF Counted
<1>4. \A i \in Jobs : Counted(mode, db'[i], pc'[i], done'[i], starts', h[i])
  BY <1>2, <1>3
<1>5. \A i \in Jobs : h[i] \in 0 .. top * MaxStarts
  <2> HIDE DEF h
  <2>1. \A i \in Jobs : h[i] \in 0 .. top * starts'
    BY <1>4 DEF Counted
  <2> QED BY <1>1, <2>1, StartsBound
<1>6. h \in [Jobs -> 0 .. top * MaxStarts]
  <2> DEFINE e(i) == (g[i] + Incrs(mode, done[i])) - Incrs(mode, done'[i])
  <2>1. \A i \in Jobs : e(i) \in 0 .. top * MaxStarts
    BY <1>5
  <2>2. h = [i \in Jobs |-> e(i)]
    OBVIOUS
  <2> HIDE DEF e, h
  <2> QED BY <2>1, <2>2
<1>7. \A i \in Jobs : h[i] + Incrs(mode, done'[i]) = g[i] + Incrs(mode, done[i])
  <2> SUFFICES ASSUME NEW i \in Jobs PROVE h[i] + Incrs(mode, done'[i]) = g[i] + Incrs(mode, done[i])
    OBVIOUS
  <2>1. mode \in Modes /\ done[i] \in CommitPoints(mode) /\ done'[i] \in CommitPoints(mode)
    BY InvJob DEF JobOK
  <2>2. Incrs(mode, done[i]) \in Int /\ Incrs(mode, done'[i]) \in Int
    BY <2>1, PointIs, IncrsIs
  <2>3. h[i] = (g[i] + Incrs(mode, done[i])) - Incrs(mode, done'[i])
    OBVIOUS
  <2> QED BY <1>3, <2>2, <2>3
<1> HIDE DEF h
<1>8. cntloop' = Total([i \in Jobs |-> h[i] + Incrs(mode, done'[i])])
  <2>1. [i \in Jobs |-> h[i] + Incrs(mode, done'[i])] = [i \in Jobs |-> g[i] + Incrs(mode, done[i])]
    BY <1>7
  <2> QED BY <1>2, <2>1
<1>9. CntloopOK'
  <2>1. cntloop' = Total([i \in Jobs' |-> h[i] + Incrs(mode', done'[i])])
    BY <1>1, <1>8
  <2>2. \A i \in Jobs' : Counted(mode', db'[i], pc'[i], done'[i], starts', h[i])
    BY <1>1, <1>4
  <2>3. h \in [Jobs' -> 0 .. top * MaxStarts]
    BY <1>1, <1>6
  <2> QED BY <2>1, <2>2, <2>3 DEF CntloopOK
<1>10. \A i \in Jobs' : JobOK(mode', db'[i], pc'[i], from'[i], done'[i], up')
  BY <1>1
<1> QED BY <1>9, <1>10 DEF IInv

\* What a job counts does not change when only its place does.
LEMMA SameCount ==
  ASSUME NEW m \in Modes, NEW q \in CommitPoints(m), NEW g \in Int
  PROVE  (g + Incrs(m, q)) - Incrs(m, q) = g
<1>1. Incrs(m, q) \in Int
  BY PointIs, IncrsIs
<1> QED BY <1>1

LEMMA StartInv ==
  ASSUME IInv, Start
  PROVE  IInv'
<1>1. Types
  BY DEF IInv
<1>2. /\ ~up /\ up' = TRUE /\ starts < MaxStarts /\ starts' = starts + 1 /\ endloop' = FALSE
      /\ mode' = mode /\ db' = db /\ cntloop' = cntloop /\ Jobs' = Jobs
      /\ from' = [j \in Jobs |-> LastiOf(db[j]) + 1]
      /\ pc' = [j \in Jobs |-> IF LastiOf(db[j]) < top THEN "loop" ELSE "ended"]
      /\ done' = [j \in Jobs |-> 0]
  BY DEF Start, Jobs
<1>3. up = FALSE
  BY <1>1, <1>2 DEF Types
<1>4. ASSUME NEW j \in Jobs, NEW g, Counted(mode, db[j], pc[j], done[j], starts, g)
      PROVE  /\ JobOK(mode, db[j], pc'[j], LastiOf(db[j]) + 1, 0, TRUE)
             /\ Counted(mode, db[j], pc'[j], 0, starts + 1, g)
             /\ LastiOf(db[j]) + 1 \in 1 .. top + 1
             /\ done[j] = 0
  <2>1. mode \in Modes /\ JobOK(mode, db[j], pc[j], from[j], done[j], FALSE) /\ starts \in Nat
    BY <1>3, InvJob
  <2>2. (LastiOf(db[j]) < top => pc'[j] = "loop") /\ (~(LastiOf(db[j]) < top) => pc'[j] = "ended")
    BY <1>2
  <2>3. JobOK(mode, db[j], pc[j], from[j], done[j], FALSE) /\ mode \in Modes /\ starts \in Nat
    BY <2>1
  <2> QED BY <1>4, <2>2, <2>3, StartJob
<1>5. \A j \in Jobs : \E g : Counted(mode, db[j], pc[j], done[j], starts, g)
  BY DEF IInv, CntloopOK
<1>6. \A j \in Jobs : from'[j] = LastiOf(db[j]) + 1 /\ done'[j] = 0
  BY <1>2
<1>7. \A j \in Jobs : JobOK(mode, db'[j], pc'[j], from'[j], done'[j], up')
  BY <1>2, <1>4, <1>5, <1>6
<1>8. ASSUME NEW j \in Jobs, NEW g \in Int, Counted(mode, db[j], pc[j], done[j], starts, g)
      PROVE  Counted(mode, db'[j], pc'[j], done'[j], starts', (g + Incrs(mode, done[j])) - Incrs(mode, done'[j]))
  <2>1. done'[j] = 0 /\ done[j] = 0 /\ db'[j] = db[j] /\ starts' = starts + 1
    BY <1>2, <1>4, <1>6, <1>8
  <2>2. (g + Incrs(mode, done[j])) - Incrs(mode, done'[j]) = g
    BY <1>1, <2>1, ZeroPoint, SameCount DEF Types
  <2>3. Counted(mode, db[j], pc'[j], 0, starts + 1, g)
    BY <1>4, <1>8
  <2> QED BY <2>1, <2>2, <2>3
<1>9. Types'
  <2>1. \A j \in Jobs : LastiOf(db[j]) + 1 \in 1 .. top + 1
    BY <1>4, <1>5
  <2>2. 0 \in 0 .. top * LenOf(mode) /\ mode \in Modes
    <3>1. top * LenOf(mode) \in Nat
      BY <1>1, BodyLen, TopNat DEF Types
    <3> QED BY <1>1, <3>1 DEF Types
  <2>3. starts' \in 0 .. MaxStarts
    BY <1>1, <1>2, ImptpAssumption DEF Types
  <2>4. from' \in [Jobs -> 1 .. top + 1]
    BY <1>2, <2>1
  <2>5. done' \in [Jobs -> 0 .. top * LenOf(mode)]
    BY <1>2, <2>2
  <2>6. pc' \in [Jobs -> {"loop", "test", "ended", "killed"}]
    BY <1>2
  <2> QED BY <1>1, <1>2, <2>2, <2>3, <2>4, <2>5, <2>6 DEF Types
<1> QED BY <1>2, <1>7, <1>8, <1>9, AllJobs

LEMMA EndTPInv ==
  ASSUME IInv, EndTP
  PROVE  IInv'
<1>1. Types
  BY DEF IInv
<1>2. /\ mode' = mode /\ db' = db /\ up' = up /\ pc' = pc /\ from' = from /\ done' = done /\ cntloop' = cntloop
      /\ starts' = starts /\ endloop' = TRUE /\ Jobs' = Jobs
  BY DEF EndTP, Jobs
<1>3. Types'
  BY <1>1, <1>2 DEF Types
<1>4. \A j \in Jobs : JobOK(mode, db'[j], pc'[j], from'[j], done'[j], up')
  BY <1>2, InvJob
<1>5. ASSUME NEW j \in Jobs, NEW g \in Int, Counted(mode, db[j], pc[j], done[j], starts, g)
      PROVE  Counted(mode, db'[j], pc'[j], done'[j], starts', (g + Incrs(mode, done[j])) - Incrs(mode, done'[j]))
  <2>1. mode \in Modes /\ done[j] \in CommitPoints(mode)
    BY InvJob DEF JobOK
  <2>2. (g + Incrs(mode, done[j])) - Incrs(mode, done'[j]) = g
    BY <1>2, <2>1, SameCount
  <2> QED BY <1>2, <1>5, <2>2
<1> QED BY <1>2, <1>3, <1>4, <1>5, AllJobs

LEMMA CrashInv ==
  ASSUME IInv, Crash
  PROVE  IInv'
<1>1. Types
  BY DEF IInv
<1>2. /\ mode' = mode /\ db' = db /\ up' = up /\ from' = from /\ done' = done /\ cntloop' = cntloop
      /\ starts' = starts /\ endloop' = endloop /\ Jobs' = Jobs
      /\ mode.crash /\ up /\ pc' = [j \in Jobs |-> "killed"]
      /\ \A j \in Jobs : pc[j] # "killed"
  BY DEF Crash, Jobs
<1>3. Types'
  BY <1>1, <1>2 DEF Types
<1>4. ASSUME NEW j \in Jobs PROVE JobOK(mode, db'[j], pc'[j], from'[j], done'[j], up')
  <2>1. /\ mode \in Modes /\ JobOK(mode, db[j], pc[j], from[j], done[j], TRUE)
        /\ pc[j] \in {"loop", "test", "ended"}
    <3>1. up = TRUE
      BY <1>1, <1>2 DEF Types
    <3> QED BY <1>2, <3>1, InvJob
  <2>2. JobOK(mode, db[j], "killed", from[j], done[j], TRUE)
    BY <1>2, <2>1, CrashJob
  <2>3. up' = TRUE /\ pc'[j] = "killed"
    BY <1>1, <1>2 DEF Types
  <2> QED BY <1>2, <2>2, <2>3
<1>5. ASSUME NEW j \in Jobs, NEW g \in Int, Counted(mode, db[j], pc[j], done[j], starts, g)
      PROVE  Counted(mode, db'[j], pc'[j], done'[j], starts', (g + Incrs(mode, done[j])) - Incrs(mode, done'[j]))
  <2>1. mode \in Modes /\ done[j] \in CommitPoints(mode)
    BY InvJob DEF JobOK
  <2>2. (g + Incrs(mode, done[j])) - Incrs(mode, done'[j]) = g
    BY <1>2, <2>1, SameCount
  <2>3. Counted(mode, db[j], "killed", done[j], starts, g)
    BY <1>5 DEF Counted
  <2>4. pc'[j] = "killed"
    BY <1>2
  <2> QED BY <1>2, <2>2, <2>3, <2>4
<1> QED BY <1>2, <1>3, <1>4, <1>5, AllJobs

LEMMA AllEndedInv ==
  ASSUME IInv, AllEnded
  PROVE  IInv'
<1>1. Types
  BY DEF IInv
<1>2. /\ mode' = mode /\ pc' = pc /\ cntloop' = cntloop /\ starts' = starts /\ endloop' = endloop /\ Jobs' = Jobs
      /\ up' = FALSE /\ done' = [j \in Jobs |-> 0] /\ from' = [j \in Jobs |-> 1]
      /\ \A j \in Jobs : pc[j] = "ended"
      /\ db' = [j \in Jobs |-> Recovered(mode, db[j], from[j], [l \in mode.letters |-> done[j]])]
  BY DEF AllEnded, Jobs, Letters
<1>3. ASSUME NEW j \in Jobs, NEW g \in Int, Counted(mode, db[j], pc[j], done[j], starts, g)
      PROVE  /\ \A e : JobOK(mode, db'[j], "ended", e, 0, FALSE)
             /\ Counted(mode, db'[j], "ended", 0, starts, g + Incrs(mode, done[j]))
  <2>1. /\ mode \in Modes /\ JobOK(mode, db[j], "ended", from[j], done[j], up) /\ starts \in Nat
        /\ from[j] \in 1 .. top + 1 /\ pc[j] = "ended"
    BY <1>2, InvJob
  <2>2. db'[j] = Recovered(mode, db[j], from[j], [l \in mode.letters |-> done[j]])
    BY <1>2
  <2> QED BY <1>3, <2>1, <2>2, EndJob
<1>4. ASSUME NEW j \in Jobs PROVE JobOK(mode, db'[j], pc'[j], from'[j], done'[j], up')
  <2>1. PICK g \in Int : Counted(mode, db[j], pc[j], done[j], starts, g)
    <3>1. \E g : Counted(mode, db[j], pc[j], done[j], starts, g)
      BY DEF IInv, CntloopOK
    <3> QED BY <3>1 DEF Counted
  <2>2. \A e : JobOK(mode, db'[j], "ended", e, 0, FALSE)
    BY <1>3, <2>1
  <2>3. pc'[j] = "ended" /\ done'[j] = 0 /\ up' = FALSE
    BY <1>2
  <2> QED BY <2>2, <2>3
<1>5. ASSUME NEW j \in Jobs, NEW g \in Int, Counted(mode, db[j], pc[j], done[j], starts, g)
      PROVE  Counted(mode, db'[j], pc'[j], done'[j], starts', (g + Incrs(mode, done[j])) - Incrs(mode, done'[j]))
  <2>1. mode \in Modes /\ done[j] \in CommitPoints(mode)
    BY InvJob DEF JobOK
  <2>2. Incrs(mode, done[j]) \in Int /\ Incrs(mode, 0) = 0 /\ done'[j] = 0 /\ pc'[j] = "ended" /\ starts' = starts
    BY <1>2, <2>1, PointIs, IncrsIs, ZeroPoint
  <2>3. (g + Incrs(mode, done[j])) - Incrs(mode, done'[j]) = g + Incrs(mode, done[j])
    BY <2>2
  <2>4. Counted(mode, db'[j], "ended", 0, starts, g + Incrs(mode, done[j]))
    BY <1>3, <1>5
  <2> QED BY <2>2, <2>3, <2>4
<1>6. Types'
  <2>1. \A j \in Jobs : Recovered(mode, db[j], from[j], [l \in mode.letters |-> done[j]]) \in [1 .. top -> [Nodes(mode) -> Values]]
    <3> SUFFICES ASSUME NEW j \in Jobs PROVE db'[j] \in [1 .. top -> [Nodes(mode) -> Values]]
      BY <1>2
    <3> QED BY <1>4 DEF JobOK, DbIs
  <2>2. 0 \in 0 .. top * LenOf(mode) /\ 1 \in 1 .. top + 1
    <3>1. top * LenOf(mode) \in Nat /\ top \in Nat
      BY <1>1, BodyLen, TopNat DEF Types
    <3> QED BY <3>1
  <2>3. db' \in [Jobs -> [1 .. top -> [Nodes(mode) -> Values]]]
    BY <1>2, <2>1
  <2>4. done' \in [Jobs -> 0 .. top * LenOf(mode)] /\ from' \in [Jobs -> 1 .. top + 1]
    BY <1>2, <2>2
  <2> QED BY <1>1, <1>2, <2>3, <2>4 DEF Types
<1> QED BY <1>2, <1>4, <1>5, <1>6, AllJobs

-----------------------------------------------------------------------------
(* The inductive invariant *)

LEMMA EmptyIs ==
  ASSUME mode \in Modes
  PROVE  DbIs(mode, EmptyDb, 0) /\ LastiOf(EmptyDb) = 0
<1>1. /\ "a" \in mode.letters /\ "i" \in mode.letters /\ lasti \in Nodes(mode)
      /\ \A l \in mode.letters : ndxarr(l) \in Nodes(mode)
  BY NodesAre
<1>2. \A n \in 1 .. top : \A x \in Nodes(mode) : EmptyDb[n][x] = "undef"
  BY DEF EmptyDb
<1>3. top \in Nat
  BY TopNat
<1>4. EmptyDb \in [1 .. top -> [Nodes(mode) -> Values]] /\ DOMAIN EmptyDb = 1 .. top
  BY DEF EmptyDb, Values
<1>5. 0 \in 0 .. top
  BY <1>3
<1>6. ASSUME NEW n \in 1 .. top
      PROVE  /\ ~(n <= 0) /\ n > 0 /\ ~Defined(EmptyDb[n], lasti)
             /\ \A l \in mode.letters : ~Defined(EmptyDb[n], ndxarr(l))
             /\ ~AllNdxarr(mode, EmptyDb[n])
  <2>1. ~(n <= 0) /\ n > 0
    BY <1>3
  <2>2. ~Defined(EmptyDb[n], lasti) /\ \A l \in mode.letters : ~Defined(EmptyDb[n], ndxarr(l))
    BY <1>1, <1>2 DEF Defined
  <2> QED BY <1>1, <2>1, <2>2 DEF AllNdxarr
<1>7. DbIs(mode, EmptyDb, 0)
  BY <1>2, <1>4, <1>5, <1>6 DEF DbIs
<1>8. LastiOf(EmptyDb) = 0
  BY <1>4, <1>5, <1>6, LastiIs
<1> QED BY <1>7, <1>8

\* Nothing has been done.
LEMMA InitInv ==
  ASSUME Init
  PROVE  IInv
<1>1. /\ mode \in Modes /\ up = FALSE /\ cntloop = 0 /\ starts = 0 /\ endloop = FALSE
      /\ db = [j \in Jobs |-> EmptyDb] /\ pc = [j \in Jobs |-> "ended"]
      /\ from = [j \in Jobs |-> 1] /\ done = [j \in Jobs |-> 0]
  BY DEF Init
<1>2. DbIs(mode, EmptyDb, 0) /\ LastiOf(EmptyDb) = 0
  BY <1>1, EmptyIs
<1>3. 0 \in CommitPoints(mode) /\ 0 % LenOf(mode) = 0 /\ 0 \div LenOf(mode) = 0 /\ Incrs(mode, 0) = 0
  BY <1>1, ZeroPoint
<1>4. top \in Nat \ {0} /\ MaxStarts \in Nat \ {0} /\ LenOf(mode) \in Nat /\ Jobs \subseteq 1 .. jobcnt
  BY <1>1, TopNat, BodyLen, ImptpAssumption DEF Jobs
<1>5. 0 \in 0 .. top * LenOf(mode) /\ 0 \in 0 .. top * MaxStarts /\ 0 \in 0 .. top * 0 /\ 0 \in 0 .. MaxStarts /\ 1 \in 1 .. top + 1
  <2>1. top * LenOf(mode) \in Nat /\ top * MaxStarts \in Nat /\ top * 0 = 0
    BY <1>4
  <2> QED BY <1>4, <2>1
<1>6. EmptyDb \in [1 .. top -> [Nodes(mode) -> Values]]
  BY <1>2 DEF DbIs
<1>7. Types
  <2>1. db \in [Jobs -> [1 .. top -> [Nodes(mode) -> Values]]]
    BY <1>1, <1>6
  <2>2. pc \in [Jobs -> {"loop", "test", "ended", "killed"}]
    BY <1>1
  <2>3. from \in [Jobs -> 1 .. top + 1] /\ done \in [Jobs -> 0 .. top * LenOf(mode)]
    BY <1>1, <1>5
  <2>4. starts \in 0 .. MaxStarts /\ up \in BOOLEAN /\ endloop \in BOOLEAN
    BY <1>1, <1>5
  <2> QED BY <1>1, <2>1, <2>2, <2>3, <2>4 DEF Types
<1>8. JobOK(mode, EmptyDb, "ended", 1, 0, up)
  BY <1>2, <1>3 DEF JobOK
<1>9. Counted(mode, EmptyDb, "ended", 0, starts, 0)
  BY <1>1, <1>2, <1>5 DEF Counted
<1>10. CntloopOK
  <2> DEFINE g == [j \in Jobs |-> 0]
             f == [j \in Jobs |-> g[j] + Incrs(mode, done[j])]
  <2>1. \A j \in Jobs : g[j] + Incrs(mode, done[j]) = 0
    BY <1>1, <1>3
  <2>2. f \in [Jobs -> {0}]
    BY <2>1
  <2>3. cntloop = Total(f)
    BY <1>1, <1>4, <2>2, TotalZero
  <2>4. g \in [Jobs -> 0 .. top * MaxStarts]
    BY <1>5
  <2>5. \A j \in Jobs : Counted(mode, db[j], pc[j], done[j], starts, g[j])
    BY <1>1, <1>9
  <2> HIDE DEF g
  <2> QED BY <2>3, <2>4, <2>5 DEF CntloopOK
<1>11. \A j \in Jobs : JobOK(mode, db[j], pc[j], from[j], done[j], up)
  BY <1>1, <1>8
<1> QED BY <1>7, <1>10, <1>11 DEF IInv

\* A stuttering step.
LEMMA StutterInv ==
  ASSUME IInv, UNCHANGED vars
  PROVE  IInv'
BY DEF vars, IInv, Types, CntloopOK, Jobs

LEMMA StepInv ==
  ASSUME IInv, [Next]_vars
  PROVE  IInv'
<1>1. CASE Start
  BY <1>1, StartInv
<1>2. CASE EndTP
  BY <1>2, EndTPInv
<1>3. CASE AllEnded
  BY <1>3, AllEndedInv
<1>4. CASE Crash
  BY <1>4, CrashInv
<1>5. ASSUME NEW j \in Jobs, Commit(j) PROVE IInv'
  BY <1>5, CommitInv
<1>6. ASSUME NEW j \in Jobs, TestEndloop(j) PROVE IInv'
  BY <1>6, TestEndloopInv
<1>7. ASSUME NEW j \in Jobs, Recover(j) PROVE IInv'
  BY <1>7, RecoverInv
<1>8. CASE UNCHANGED vars
  BY <1>8, StutterInv
<1> QED BY <1>1, <1>2, <1>3, <1>4, <1>5, <1>6, <1>7, <1>8 DEF Next

\* The invariant holds in every reachable state.
LEMMA Invariant == Spec => []IInv
<1>1. Init => IInv
  BY InitInv
<1>2. IInv /\ [Next]_vars => IInv'
  BY StepInv
<1> QED BY <1>1, <1>2, PTL DEF Spec

-----------------------------------------------------------------------------
(* What it gives *)

LEMMA InvTypeOK ==
  ASSUME IInv
  PROVE  TypeOK
<1>1. cntloop \in 0 .. Cardinality(Jobs) * top * MaxStarts
  BY IInvCount
<1> QED BY <1>1 DEF IInv, Types, TypeOK, N

\* The variables of the fill have their types: no job does more than the top
\* iterations that the loop of impjob allows, in any of its runs.
THEOREM TypeCorrect == Spec => []TypeOK
<1>1. IInv => TypeOK
  BY InvTypeOK
<1> QED BY <1>1, Invariant, PTL

\* The last iteration with ^lasti is what DbIs says.
LEMMA CheckJob ==
  ASSUME NEW m \in Modes, NEW dbs, DbIs(m, dbs, LastiOf(dbs))
  PROVE  checkjob(m, dbs)
<1>1. m.istp \in {0, 1, 2} /\ m.crash \in BOOLEAN
  BY NodesAre
<1>2. top \in Nat /\ LastiOf(dbs) \in 0 .. top
  BY TopNat DEF DbIs
<1>3. ASSUME NEW n \in 1 .. LastiOf(dbs)
      PROVE  /\ AllNdxarr(m, dbs[n]) => compiter(m, n, dbs[n])
             /\ ~m.crash \/ m.istp = 0 => compiter(m, n, dbs[n])
             /\ m.crash /\ m.istp = 1 => crashiter(m, dbs[n])
  <2>1. n \in 1 .. top /\ n <= LastiOf(dbs)
    BY <1>2
  <2> QED BY <2>1 DEF DbIs
<1>4. CASE ~m.crash \/ m.istp = 0
  BY <1>3, <1>4 DEF checkjob
<1>5. CASE m.crash /\ m.istp = 2
  <2>1. \A n \in 1 .. LastiOf(dbs) - 1 : n \in 1 .. LastiOf(dbs)
    BY <1>2
  <2>2. \A n \in 1 .. LastiOf(dbs) - 1 : AllNdxarr(m, dbs[n]) => compiter(m, n, dbs[n])
    BY <1>3, <2>1
  <2> QED BY <1>5, <2>2 DEF checkjob
<1>6. CASE m.crash /\ m.istp = 1
  BY <1>3, <1>6 DEF checkjob
<1> QED BY <1>1, <1>4, <1>5, <1>6

LEMMA InvPasses ==
  ASSUME IInv, ~up
  PROVE  checkdb(mode, db, cntloop)
<1>1. DOMAIN db = Jobs /\ up = FALSE
  BY DEF IInv, Types
<1>2. ASSUME NEW j \in Jobs PROVE checkjob(mode, db[j]) /\ done[j] = 0
  <2>1. mode \in Modes /\ JobOK(mode, db[j], pc[j], from[j], done[j], FALSE)
    BY <1>1, InvJob
  <2>2. DbIs(mode, db[j], LastiOf(db[j])) /\ done[j] = 0
    BY <2>1 DEF JobOK
  <2> QED BY <2>1, <2>2, CheckJob
<1>3. ASSUME ~mode.crash PROVE cntloop = Total([j \in DOMAIN db |-> LastiOf(db[j])])
  <2>1. PICK g \in [Jobs -> 0 .. top * MaxStarts] :
         /\ cntloop = Total([i \in Jobs |-> g[i] + Incrs(mode, done[i])])
         /\ \A i \in Jobs : Counted(mode, db[i], pc[i], done[i], starts, g[i])
    BY DEF IInv, CntloopOK
  <2>2. mode \in Modes
    BY DEF IInv, Types
  <2>3. Incrs(mode, 0) = 0
    BY <2>2, ZeroPoint
  <2>4. ASSUME NEW i \in Jobs PROVE g[i] + Incrs(mode, done[i]) = LastiOf(db[i])
    <3>1. g[i] = LastiOf(db[i]) /\ g[i] \in Int /\ done[i] = 0
      BY <1>2, <1>3, <2>1 DEF Counted
    <3> QED BY <2>3, <3>1
  <2>5. [i \in Jobs |-> g[i] + Incrs(mode, done[i])] = [i \in Jobs |-> LastiOf(db[i])]
    BY <2>4
  <2> QED BY <1>1, <2>1, <2>5
<1> QED BY <1>1, <1>2, <1>3 DEF checkdb

\* Whenever the jobs are down - stopped by endtp, or killed and recovered, any
\* number of times, in the middle of any stage, with any prefixes that keep
\* the fences - checkdb passes: every label of com/checkdb.m accepts every
\* iteration, and ^cntloop is the sum of ^lasti when there was no crash.
THEOREM FillPassesCheckdb == Spec => []CheckdbPasses
<1>1. IInv => CheckdbPasses
  BY InvTypeOK, InvPasses DEF CheckdbPasses
<1> QED BY <1>1, Invariant, PTL

\* A restart goes on after ^lasti: an iteration of which all ^[a-i]ndxarr
\* nodes came back is never run again.
THEOREM CompleteNeverRedone == Spec => []CompleteNotRedone
<1>1. IInv => CompleteNotRedone
  <2> SUFFICES ASSUME IInv, NEW j \in Jobs, pc[j] \in {"loop", "test"}, NEW n \in from[j] .. top
               PROVE  ~AllNdxarr(mode, db[j][n])
    BY DEF CompleteNotRedone
  <2>1. mode \in Modes /\ JobOK(mode, db[j], pc[j], from[j], done[j], up) /\ from[j] \in 1 .. top + 1
    BY InvJob
  <2>2. from[j] = LastiOf(db[j]) + 1 /\ DbIs(mode, db[j], LastiOf(db[j]))
    BY <2>1 DEF JobOK
  <2>3. LastiOf(db[j]) \in 0 .. top /\ top \in Nat /\ "a" \in mode.letters
    BY <2>1, <2>2, TopNat, NodesAre DEF DbIs
  <2>4. n \in 1 .. top /\ n > LastiOf(db[j])
    BY <2>1, <2>2, <2>3
  <2>5. ~Defined(db[j][n], ndxarr("a"))
    BY <2>2, <2>3, <2>4 DEF DbIs
  <2> QED BY <2>3, <2>5 DEF AllNdxarr
<1> QED BY <1>1, Invariant, PTL

\* The other state of one node that checkdb looks at.
Other(v, x) == IF Defined(v, x) THEN "undef" ELSE "val"

\* Label compiter fixes every node of a complete iteration but ^bntp(subsMAX),
\* ^[a-i]ndxarr and ^lasti, and but ^espan when its targetpiece is 0.
LEMMA CompiterSees ==
  ASSUME NEW m \in Modes, NEW n, NEW v \in [Nodes(m) -> Values], compiter(m, n, v),
         NEW x \in Nodes(m) \ ({ndxarr(l) : l \in m.letters} \cup {lasti, bntpMAX(m)}),
         x # span("e") \/ n \notin m.piece0
  PROVE  ~compiter(m, n, [v EXCEPT ![x] = Other(v, x)])
<1> DEFINE w == [v EXCEPT ![x] = Other(v, x)]
<1>1. w[x] = Other(v, x)
  OBVIOUS
<1>2. /\ v[x] = "undef" => Defined(w, x) /\ w[x] = "val"
      /\ v[x] # "undef" => ~Defined(w, x) /\ w[x] = "undef"
  BY <1>1 DEF Other, Defined
<1> HIDE DEF w
<1>3. m.letters \subseteq AllLetters /\ 1 \in 1 .. 3 /\ 2 \in 1 .. 3
  BY NodesAre
<1>4. ASSUME NEW l \in m.letters, x = random(l) PROVE ~compiter(m, n, w)
  <2>1. v[x] = "val"
    BY <1>4 DEF compiter
  <2>2. w[random(l)] # "val"
    BY <1>2, <1>4, <2>1
  <2> QED BY <2>2 DEF compiter
<1>5. ASSUME NEW l \in m.letters, NEW J \in 1 .. jobcnt, x = randomJ(l, J) PROVE ~compiter(m, n, w)
  <2>1. v[x] = IF J = 1 THEN "undef" ELSE "val"
    BY <1>5 DEF compiter
  <2>2. w[randomJ(l, J)] # (IF J = 1 THEN "undef" ELSE "val")
    BY <1>2, <1>5, <2>1
  <2> QED BY <2>2 DEF compiter
<1>6. ASSUME x = jrandom(1) \/ x = jrandom(2) PROVE ~compiter(m, n, w)
  <2>1. v[x] = "undef"
    BY <1>6 DEF compiter, Defined
  <2>2. Defined(w, x)
    BY <1>2, <2>1
  <2> QED BY <1>6, <2>2 DEF compiter
<1>7. ASSUME x = jrandom(3) PROVE ~compiter(m, n, w)
  <2>1. v[x] = "val"
    BY <1>7 DEF compiter
  <2>2. w[jrandom(3)] # "val"
    BY <1>2, <1>7, <2>1
  <2> QED BY <2>2 DEF compiter
<1>8. ASSUME NEW l \in m.letters, x = ntp(l) PROVE ~compiter(m, n, w)
  <2>1. CASE l \in {"a", "b", "c"}
    <3>1. v[x] = "undef"
      BY <1>8, <2>1 DEF compiter, Defined
    <3>2. Defined(w, ntp(l))
      BY <1>2, <1>8, <3>1
    <3> QED BY <2>1, <3>2 DEF compiter
  <2>2. CASE l \in {"e", "i"}
    <3>1. v[x] = "val"
      BY <1>8, <2>2 DEF compiter
    <3>2. w[ntp(l)] # "val"
      BY <1>2, <1>8, <3>1
    <3> QED BY <2>2, <3>2 DEF compiter
  <2> QED BY <1>3, <2>1, <2>2 DEF AllLetters
<1>9. ASSUME NEW l \in SpanLetters(m), x = span(l) PROVE ~compiter(m, n, w)
  <2>1. l # "e" \/ n \notin m.piece0
    BY <1>9
  <2>2. l \in SpanLetters(m) \ {"e"} \/ (l = "e" /\ "e" \in m.letters /\ n \notin m.piece0)
    BY <2>1 DEF SpanLetters
  <2>3. v[x] = SpanValue(m, n)
    BY <1>9, <2>2 DEF compiter
  <2>4. w[span(l)] # SpanValue(m, n)
    BY <1>2, <1>9, <2>3 DEF SpanValue
  <2> QED BY <2>2, <2>4 DEF compiter
<1>10. \/ \E l \in m.letters : x = random(l)
       \/ \E l \in m.letters, J \in 1 .. jobcnt : x = randomJ(l, J)
       \/ x = jrandom(1) \/ x = jrandom(2) \/ x = jrandom(3)
       \/ \E l \in m.letters : x = ntp(l)
       \/ \E l \in SpanLetters(m) : x = span(l)
  <2>1. \/ x \in {random(l) : l \in m.letters}
        \/ x \in {randomJ(l, J) : l \in m.letters, J \in 1 .. jobcnt}
        \/ x \in {jrandom(d) : d \in 1 .. 3}
        \/ x \in {ntp(l) : l \in m.letters}
        \/ x \in {span(l) : l \in SpanLetters(m)}
    BY DEF Nodes
  <2>2. x \in {jrandom(d) : d \in 1 .. 3} => x = jrandom(1) \/ x = jrandom(2) \/ x = jrandom(3)
    <3>1. ASSUME NEW d \in 1 .. 3, x = jrandom(d) PROVE x = jrandom(1) \/ x = jrandom(2) \/ x = jrandom(3)
      <4>1. d = 1 \/ d = 2 \/ d = 3
        OBVIOUS
      <4> QED BY <3>1, <4>1, Zenon
    <3> QED BY <3>1
  <2> QED BY <2>1, <2>2
<1>11. ~compiter(m, n, w)
  BY <1>4, <1>5, <1>6, <1>7, <1>8, <1>9, <1>10
<1> QED BY <1>11 DEF w

\* "Check if nothing is lost": without crashes, take one node of a finished
\* iteration away, or bring one back, and checkdb fails; but for ^espan in an
\* iteration whose targetpiece is 0.
THEOREM EveryLossSeen == Spec => []LossSeenNoCrash
<1>1. IInv => LossSeenNoCrash
  <2> SUFFICES ASSUME IInv, ~mode.crash, ~up, NEW j \in Jobs, NEW n \in 1 .. LastiOf(db[j]),
                      AllNdxarr(mode, db[j][n]),
                      NEW x \in Nodes(mode) \ ({ndxarr(l) : l \in mode.letters} \cup {lasti, bntpMAX(mode)}),
                      x # span("e") \/ n \notin mode.piece0
               PROVE  ~checkdb(mode, [db EXCEPT ![j][n][x] = Other(db[j][n], x)], cntloop)
    BY DEF LossSeenNoCrash, LossesSeen, Checked, Letters, Other
  <2> DEFINE lost == [db EXCEPT ![j][n][x] = Other(db[j][n], x)]
             w == [db[j][n] EXCEPT ![x] = Other(db[j][n], x)]
  <2>1. mode \in Modes /\ JobOK(mode, db[j], pc[j], from[j], done[j], up)
    BY InvJob
  <2>2. DbIs(mode, db[j], LastiOf(db[j])) /\ db[j] \in [1 .. top -> [Nodes(mode) -> Values]]
    BY <2>1 DEF JobOK, DbIs
  <2>3. LastiOf(db[j]) \in 0 .. top /\ top \in Nat
    BY <2>2, TopNat DEF DbIs
  <2>4. n \in 1 .. top /\ db[j][n] \in [Nodes(mode) -> Values]
    BY <2>2, <2>3
  <2>5. compiter(mode, n, db[j][n])
    BY <2>2, <2>4 DEF DbIs
  <2>6. ~compiter(mode, n, w)
    BY <2>1, <2>4, <2>5, CompiterSees
  <2>7. db \in [Jobs -> [1 .. top -> [Nodes(mode) -> Values]]]
    BY DEF IInv, Types
  <2>8. /\ lost[j] = [db[j] EXCEPT ![n] = w] /\ j \in DOMAIN lost
        /\ lost[j][n] = w /\ \A i \in 1 .. top : i # n => lost[j][i] = db[j][i]
    BY <2>4, <2>7
  <2>9. DOMAIN lost[j] = 1 .. top
    BY <2>2, <2>8
  <2>10. w[lasti] = db[j][n][lasti]
    OBVIOUS
  <2> HIDE DEF lost, w
  <2>11. \A i \in 1 .. top : Defined(lost[j][i], lasti) <=> i <= LastiOf(db[j])
    <3> SUFFICES ASSUME NEW i \in 1 .. top PROVE Defined(lost[j][i], lasti) <=> i <= LastiOf(db[j])
      OBVIOUS
    <3>1. Defined(db[j][i], lasti) <=> i <= LastiOf(db[j])
      BY <2>2 DEF DbIs
    <3>2. lost[j][i][lasti] = db[j][i][lasti]
      BY <2>8, <2>10
    <3> QED BY <3>1, <3>2 DEF Defined
  <2>12. LastiOf(lost[j]) = LastiOf(db[j])
    BY <2>3, <2>9, <2>11, LastiIs
  <2>13. ~checkjob(mode, lost[j])
    BY <2>6, <2>8, <2>12 DEF checkjob
  <2>14. ~checkdb(mode, lost, cntloop)
    BY <2>8, <2>13 DEF checkdb
  <2> QED BY <2>14 DEF lost
<1> QED BY <1>1, Invariant, PTL
=============================================================================
