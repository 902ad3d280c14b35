-------------------------- MODULE ImptpBody_proofs ---------------------------
(***************************************************************************)
(* Lemmas about the body of the loop of com/imptp.m and about recovery,    *)
(* that the proofs about the fill share: Imptp_proofs and CImptp_proofs.   *)
(*                                                                         *)
(* The body is the sequence of its updates.  Every node has few writers in *)
(* it, at places that are fixed but for the rounds of Stage 4: so what the *)
(* first k updates make of a node is known for every k (Effect...).  From  *)
(* this follows what labels compiter and crash say of an iteration of      *)
(* which each region has a prefix, when the prefixes keep the fences       *)
(* (Complete, CrashIter), and so of a job (DbIs, RecoveredIs).  The cuts   *)
(* that recovery chooses between are such prefixes (CutSound).             *)
(***************************************************************************)
EXTENDS ImptpBody, FiniteSetTheorems, SequenceTheorems, WellFoundedInduction, TLAPS

\* An update of the body, and one with its fence.
Globals == {"random", "randomJ", "jrandom", "ntp", "ntpMAX", "span", "ndxarr", "lasti", "cntloop", "none"}
AllNodes == Globals \X (AllLetters \cup {"none"}) \X Nat
Update == [node : AllNodes, value : Values]
Slot == [node : AllNodes, value : Values, tp : BOOLEAN, id : Nat]

Fenced(f, id, u) == [node |-> u.node, value |-> u.value, tp |-> f = 1, id |-> IF f = 0 THEN 0 ELSE id]

LEMMA FenceIs ==
  ASSUME NEW f \in Nat, NEW id \in Nat, NEW n \in Nat, NEW s, s \in Seq(Update), Len(s) = n
  PROVE  /\ Fence(f, id, s) \in Seq(Slot)
         /\ Len(Fence(f, id, s)) = n
         /\ \A k \in 1 .. n : Fence(f, id, s)[k] = Fenced(f, id, s[k])
<1>1. \A k \in 1 .. n : s[k] \in Update
  BY ElementOfSeq
<1>2. \A k \in 1 .. n : Fenced(f, id, s[k]) \in Slot
  BY <1>1 DEF Fenced, Update, Slot
<1>3. Fence(f, id, s) = [k \in 1 .. n |-> Fenced(f, id, s[k])]
  BY DEF Fence, Fenced
<1> QED BY <1>2, <1>3

LEMMA StageTypes ==
  ASSUME NEW m \in Modes, NEW J \in Nat
  PROVE  /\ Stage1(m) \in Seq(Update) /\ Len(Stage1(m)) = 9
         /\ Stage2(m) \in Seq(Update) /\ Len(Stage2(m)) = 3
         /\ Stage3(m) \in Seq(Update) /\ Len(Stage3(m)) = 3
         /\ Stage4(m, J) \in Seq(Update) /\ Len(Stage4(m, J)) = 5
         /\ Stage5(m) \in Seq(Update) /\ Len(Stage5(m)) = 5
         /\ Stage6(m) \in Seq(Update) /\ Len(Stage6(m)) = 2
         /\ Stage7(m) \in Seq(Update) /\ Len(Stage7(m)) = 3
         /\ Stage8(m) \in Seq(Update) /\ Len(Stage8(m)) = 6
         /\ Stage9(m) \in Seq(Update) /\ Len(Stage9(m)) = 1
         /\ Stage10(m) \in Seq(Update) /\ Len(Stage10(m)) = 4
         /\ Stage11(m) \in Seq(Update) /\ Len(Stage11(m)) = 6
<1>1. \A n \in AllNodes, v \in Values : Set(n, v) \in Update
  BY DEF Set, Update
<1>2. \A n \in AllNodes : Kill(n) \in Update /\ ZKill(n) \in Update
  BY DEF Kill, ZKill, Update, Values
<1>3. Nothing \in Update
  BY DEF Nothing, Update, Values, AllNodes, Globals
<1>4. \A l \in AllLetters, k \in Nat : 
         /\ random(l) \in AllNodes /\ randomJ(l, k) \in AllNodes
         /\ jrandom(k) \in AllNodes /\ ntp(l) \in AllNodes
         /\ span(l) \in AllNodes /\ ndxarr(l) \in AllNodes
  BY DEF random, randomJ, jrandom, ntp, span, ndxarr, AllNodes, Globals, AllLetters
<1>5. lasti \in AllNodes /\ bntpMAX(m) \in AllNodes /\ cntloopNode(m) \in AllNodes
  BY DEF lasti, bntpMAX, ntp, cntloopNode, cntloopRegion, AllNodes, Globals, AllLetters
<1>0. /\ "a" \in AllLetters /\ "b" \in AllLetters /\ "c" \in AllLetters /\ "e" \in AllLetters /\ "i" \in AllLetters
      /\ "val" \in Values /\ "stage7" \in Values /\ "stage10" \in Values
  BY DEF AllLetters, Values
<1>6. Stage1(m) \in Seq(Update) /\ Len(Stage1(m)) = 9
  BY <1>0, <1>1, <1>2, <1>3, <1>4, <1>5 DEF Stage1
<1>7. Stage4(m, J) \in Seq(Update) /\ Len(Stage4(m, J)) = 5
  BY <1>0, <1>1, <1>2, <1>3, <1>4, <1>5 DEF Stage4
<1>8. Stage8(m) \in Seq(Update) /\ Len(Stage8(m)) = 6
  BY <1>0, <1>1, <1>2, <1>3, <1>4, <1>5 DEF Stage8
<1>9. Stage11(m) \in Seq(Update) /\ Len(Stage11(m)) = 6
  BY <1>0, <1>1, <1>2, <1>3, <1>4, <1>5 DEF Stage11
<1>10. /\ Stage5(m) \in Seq(Update) /\ Len(Stage5(m)) = 5
       /\ Stage6(m) \in Seq(Update) /\ Len(Stage6(m)) = 2
       /\ Stage9(m) \in Seq(Update) /\ Len(Stage9(m)) = 1
  BY <1>0, <1>1, <1>2, <1>3, <1>4, <1>5 DEF Stage5, Stage6, Stage9
<1>11. /\ Stage2(m) \in Seq(Update) /\ Len(Stage2(m)) = 3
       /\ Stage3(m) \in Seq(Update) /\ Len(Stage3(m)) = 3
       /\ Stage7(m) \in Seq(Update) /\ Len(Stage7(m)) = 3
       /\ Stage10(m) \in Seq(Update) /\ Len(Stage10(m)) = 4
  BY <1>0, <1>1, <1>2, <1>3, <1>4, <1>5 DEF Stage2, Stage3, Stage7, Stage10, SetPiece
<1> QED BY <1>6, <1>7, <1>8, <1>9, <1>10, <1>11

\* u is s, of length n, followed by t, of length i.
IsCat(u, s, n, t, i) ==
    /\ u \in Seq(Slot)
    /\ Len(u) = n + i
    /\ \A k \in 1 .. n : u[k] = s[k]
    /\ \A k \in 1 .. i : u[n + k] = t[k]

LEMMA Chain ==
  ASSUME NEW s \in Seq(Slot), NEW t \in Seq(Slot)
  PROVE  /\ s \o t \in Seq(Slot)
         /\ Len(s \o t) = Len(s) + Len(t)
         /\ \A k \in 1 .. Len(s) : (s \o t)[k] = s[k]
         /\ \A k \in 1 .. Len(t) : (s \o t)[Len(s) + k] = t[k]
BY ConcatProperties

LEMMA CatIs ==
  ASSUME NEW u, NEW s, NEW t, NEW n \in Nat, NEW i \in Nat,
         u = s \o t, s \in Seq(Slot), t \in Seq(Slot), Len(s) = n, Len(t) = i
  PROVE  IsCat(u, s, n, t, i)
<1>1. /\ s \o t \in Seq(Slot)
      /\ Len(s \o t) = Len(s) + Len(t)
      /\ \A k \in 1 .. Len(s) : (s \o t)[k] = s[k]
      /\ \A k \in 1 .. Len(t) : (s \o t)[Len(s) + k] = t[k]
  BY Chain, Zenon
<1>2. IsCat(u, s, Len(s), t, Len(t))
  BY <1>1, Zenon DEF IsCat
<1> QED BY <1>2, Zenon

LEMMA RoundsAre ==
  ASSUME NEW m \in Modes
  PROVE  /\ Rounds(m) \in Seq(Slot) /\ Len(Rounds(m)) = 5 * jobcnt
         /\ \A J \in 1 .. jobcnt, k \in 1 .. 5 :
               Rounds(m)[5 * (J - 1) + k] = Fenced(m.istp, 100 + J, Stage4(m, J)[k])
<1>0. jobcnt \in Nat /\ m.istp \in Nat
  BY StageAssumption
<1> DEFINE r(k) == ((k - 1) \div 5) + 1
           i(k) == ((k - 1) % 5) + 1
           e(k) == Fence(m.istp, 100 + r(k), Stage4(m, r(k)))[i(k)]
<1>1. ASSUME NEW k \in 1 .. 5 * jobcnt
      PROVE  r(k) \in 1 .. jobcnt /\ i(k) \in 1 .. 5
  BY <1>0
<1>2. ASSUME NEW J \in 1 .. jobcnt, NEW k \in 1 .. 5
      PROVE  /\ 5 * (J - 1) + k \in 1 .. 5 * jobcnt /\ r(5 * (J - 1) + k) = J
             /\ i(5 * (J - 1) + k) = k
  <2>1. J - 1 \in Nat /\ k - 1 \in 0 .. 4
    BY <1>0
  <2>2. (5 * (J - 1) + k) - 1 = 5 * (J - 1) + (k - 1)
    BY <2>1
  <2> QED BY <1>0, <2>1, <2>2
<1> HIDE DEF r, i
<1>3. Rounds(m) = [k \in 1 .. 5 * jobcnt |-> e(k)]
  BY DEF Rounds, r, i
<1>4. ASSUME NEW J \in 1 .. jobcnt, NEW k \in 1 .. 5
      PROVE  /\ Fence(m.istp, 100 + J, Stage4(m, J))[k] = Fenced(m.istp, 100 + J, Stage4(m, J)[k])
             /\ Fence(m.istp, 100 + J, Stage4(m, J))[k] \in Slot
  <2>0. 5 \in Nat
    OBVIOUS
  <2>1. J \in Nat /\ 100 + J \in Nat
    BY <1>0
  <2>2. Stage4(m, J) \in Seq(Update) /\ Len(Stage4(m, J)) = 5
    BY <2>1, StageTypes
  <2>3. /\ Fence(m.istp, 100 + J, Stage4(m, J)) \in Seq(Slot)
        /\ Len(Fence(m.istp, 100 + J, Stage4(m, J))) = 5
        /\ Fence(m.istp, 100 + J, Stage4(m, J))[k] = Fenced(m.istp, 100 + J, Stage4(m, J)[k])
    BY <1>0, <2>1, <2>2, <2>0, FenceIs
  <2> QED BY <2>3, ElementOfSeq
<1>5. \A k \in 1 .. 5 * jobcnt : e(k) \in Slot
  BY <1>1, <1>4
<1>6. 5 * jobcnt \in Nat
  BY <1>0
<1>7. ASSUME NEW J \in 1 .. jobcnt, NEW k \in 1 .. 5
      PROVE  Rounds(m)[5 * (J - 1) + k] = Fenced(m.istp, 100 + J, Stage4(m, J)[k])
  <2>1. Rounds(m)[5 * (J - 1) + k] = e(5 * (J - 1) + k)
    BY <1>2, <1>3
  <2> QED BY <2>1, <1>2, <1>4
<1> HIDE DEF e
<1>8. Rounds(m) \in Seq(Slot) /\ Len(Rounds(m)) = 5 * jobcnt
  BY <1>3, <1>5, <1>6
<1> QED BY <1>7, <1>8

\* The place after the rounds of Stage 4.
o == 15 + 5 * jobcnt

LEMMA BodyStages ==
  ASSUME NEW m \in Modes
  PROVE  /\ BodyOf[m] \in Seq(Slot) /\ LenOf(m) = o + 27
         /\ \A k \in 1 .. 9 : BodyOf[m][k] = Fenced(m.istp, 1, Stage1(m)[k])
         /\ \A k \in 1 .. 3 : BodyOf[m][9 + k] = Fenced(0, 2, Stage2(m)[k])
         /\ \A k \in 1 .. 3 : BodyOf[m][12 + k] = Fenced(m.istp, 3, Stage3(m)[k])
         /\ \A J \in 1 .. jobcnt, k \in 1 .. 5 :
               BodyOf[m][15 + 5 * (J - 1) + k] = Fenced(m.istp, 100 + J, Stage4(m, J)[k])
         /\ \A k \in 1 .. 5 : BodyOf[m][o + k] = Fenced(m.istp, 5, Stage5(m)[k])
         /\ \A k \in 1 .. 2 : BodyOf[m][o + 5 + k] = Fenced(m.istp, 6, Stage6(m)[k])
         /\ \A k \in 1 .. 3 : BodyOf[m][o + 7 + k] = Fenced(m.istp, 7, Stage7(m)[k])
         /\ \A k \in 1 .. 6 : BodyOf[m][o + 10 + k] = Fenced(0, 8, Stage8(m)[k])
         /\ BodyOf[m][o + 17] = Fenced(0, 9, Stage9(m)[1])
         /\ \A k \in 1 .. 4 : BodyOf[m][o + 17 + k] = Fenced(m.istp, 10, Stage10(m)[k])
         /\ \A k \in 1 .. 6 : BodyOf[m][o + 21 + k] = Fenced(lfence(m), 11, Stage11(m)[k])
<1>0. jobcnt \in Nat /\ m.istp \in Nat /\ lfence(m) \in Nat
  BY StageAssumption DEF lfence
<1> DEFINE f1 == Fence(m.istp, 1, Stage1(m))
           f2 == Fence(0, 2, Stage2(m))
           f3 == Fence(m.istp, 3, Stage3(m))
           f5 == Fence(m.istp, 5, Stage5(m))
           f6 == Fence(m.istp, 6, Stage6(m))
           f7 == Fence(m.istp, 7, Stage7(m))
           f8 == Fence(0, 8, Stage8(m))
           f9 == Fence(0, 9, Stage9(m))
           f10 == Fence(m.istp, 10, Stage10(m))
           f11 == Fence(lfence(m), 11, Stage11(m))
<1>1. /\ 0 \in Nat /\ 1 \in Nat /\ 2 \in Nat /\ 3 \in Nat /\ 4 \in Nat /\ 5 \in Nat /\ 6 \in Nat
      /\ 7 \in Nat /\ 8 \in Nat /\ 9 \in Nat /\ 10 \in Nat /\ 11 \in Nat
  OBVIOUS
<1>s1. /\ f1 \in Seq(Slot)
       /\ Len(f1) = 9
       /\ \A k \in 1 .. 9 : f1[k] = Fenced(m.istp, 1, Stage1(m)[k])
  <2>1. Stage1(m) \in Seq(Update) /\ Len(Stage1(m)) = 9
    BY <1>1, StageTypes
  <2>2. m.istp \in Nat /\ 1 \in Nat /\ 9 \in Nat
    BY <1>0
  <2> HIDE DEF f1
  <2>3. f1 = Fence(m.istp, 1, Stage1(m))
    BY DEF f1
  <2> QED BY <2>1, <2>2, <2>3, FenceIs, SMTT(30)
<1>s2. /\ f2 \in Seq(Slot)
       /\ Len(f2) = 3
       /\ \A k \in 1 .. 3 : f2[k] = Fenced(0, 2, Stage2(m)[k])
  <2>1. Stage2(m) \in Seq(Update) /\ Len(Stage2(m)) = 3
    BY <1>1, StageTypes
  <2> QED BY <1>0, <1>1, <2>1, FenceIs, SMTT(30)
<1>s3. /\ f3 \in Seq(Slot)
       /\ Len(f3) = 3
       /\ \A k \in 1 .. 3 : f3[k] = Fenced(m.istp, 3, Stage3(m)[k])
  <2>1. Stage3(m) \in Seq(Update) /\ Len(Stage3(m)) = 3
    BY <1>1, StageTypes
  <2> QED BY <1>0, <1>1, <2>1, FenceIs, SMTT(30)
<1>s5. /\ f5 \in Seq(Slot)
       /\ Len(f5) = 5
       /\ \A k \in 1 .. 5 : f5[k] = Fenced(m.istp, 5, Stage5(m)[k])
  <2>1. Stage5(m) \in Seq(Update) /\ Len(Stage5(m)) = 5
    BY <1>1, StageTypes
  <2> QED BY <1>0, <1>1, <2>1, FenceIs, SMTT(30)
<1>s6. /\ f6 \in Seq(Slot)
       /\ Len(f6) = 2
       /\ \A k \in 1 .. 2 : f6[k] = Fenced(m.istp, 6, Stage6(m)[k])
  <2>1. Stage6(m) \in Seq(Update) /\ Len(Stage6(m)) = 2
    BY <1>1, StageTypes
  <2> QED BY <1>0, <1>1, <2>1, FenceIs, SMTT(30)
<1>s7. /\ f7 \in Seq(Slot)
       /\ Len(f7) = 3
       /\ \A k \in 1 .. 3 : f7[k] = Fenced(m.istp, 7, Stage7(m)[k])
  <2>1. Stage7(m) \in Seq(Update) /\ Len(Stage7(m)) = 3
    BY <1>1, StageTypes
  <2> QED BY <1>0, <1>1, <2>1, FenceIs, SMTT(30)
<1>s8. /\ f8 \in Seq(Slot)
       /\ Len(f8) = 6
       /\ \A k \in 1 .. 6 : f8[k] = Fenced(0, 8, Stage8(m)[k])
  <2>1. Stage8(m) \in Seq(Update) /\ Len(Stage8(m)) = 6
    BY <1>1, StageTypes
  <2> QED BY <1>0, <1>1, <2>1, FenceIs, SMTT(30)
<1>s9. /\ f9 \in Seq(Slot)
       /\ Len(f9) = 1
       /\ \A k \in 1 .. 1 : f9[k] = Fenced(0, 9, Stage9(m)[k])
  <2>1. Stage9(m) \in Seq(Update) /\ Len(Stage9(m)) = 1
    BY <1>1, StageTypes
  <2> QED BY <1>0, <1>1, <2>1, FenceIs, SMTT(30)
<1>s10. /\ f10 \in Seq(Slot)
        /\ Len(f10) = 4
        /\ \A k \in 1 .. 4 : f10[k] = Fenced(m.istp, 10, Stage10(m)[k])
  <2>1. Stage10(m) \in Seq(Update) /\ Len(Stage10(m)) = 4
    BY <1>1, StageTypes
  <2> QED BY <1>0, <1>1, <2>1, FenceIs, SMTT(30)
<1>s11. /\ f11 \in Seq(Slot)
        /\ Len(f11) = 6
        /\ \A k \in 1 .. 6 : f11[k] = Fenced(lfence(m), 11, Stage11(m)[k])
  <2>1. Stage11(m) \in Seq(Update) /\ Len(Stage11(m)) = 6
    BY <1>1, StageTypes
  <2> QED BY <1>0, <1>1, <2>1, FenceIs, SMTT(30)
<1> DEFINE R == Rounds(m)
           n == 5 * jobcnt
           r5 == R \o f5
           r6 == r5 \o f6
           r7 == r6 \o f7
           r8 == r7 \o f8
           r9 == r8 \o f9
           r10 == r9 \o f10
           r11 == r10 \o f11
           b2 == f1 \o f2
           b3 == b2 \o f3
           B == b3 \o r11
<1>2. BodyOf[m] = B /\ LenOf(m) = Len(B)
  BY DEF BodyOf, Body, LaterStages, LenOf
<1>3. /\ R \in Seq(Slot)
      /\ Len(R) = n + 0
      /\ \A J \in 1 .. jobcnt, k \in 1 .. 5 : R[5 * (J - 1) + k] = Fenced(m.istp, 100 + J, Stage4(m, J)[k])
  BY <1>0, RoundsAre
<1>4. n \in Nat /\ o = 15 + n
  BY <1>0 DEF o
<1>5. /\ r5 = R \o f5 /\ r6 = r5 \o f6 /\ r7 = r6 \o f7 /\ r8 = r7 \o f8 /\ r9 = r8 \o f9
      /\ r10 = r9 \o f10 /\ r11 = r10 \o f11 /\ b2 = f1 \o f2 /\ b3 = b2 \o f3 /\ B = b3 \o r11
  OBVIOUS
<1> HIDE DEF f1, f2, f3, f5, f6, f7, f8, f9, f10, f11, R, n, r5, r6, r7, r8, r9, r10, r11, b2, b3, B
<1>c5. IsCat(r5, R, n + 0, f5, 5) /\ Len(r5) = n + 5
  <2>1. n + 0 \in Nat /\ (n + 0) + 5 = n + 5
    BY <1>4
  <2>2. R \in Seq(Slot) /\ Len(R) = n + 0
    BY <1>3, Zenon
  <2>3. IsCat(r5, R, n + 0, f5, 5)
    BY <1>1, <1>5, <1>s5, <2>1, <2>2, CatIs, ZenonT(60)
  <2> QED BY <2>1, <2>3, Zenon DEF IsCat
<1>c6. IsCat(r6, r5, n + 5, f6, 2) /\ Len(r6) = n + 7
  <2>1. n + 5 \in Nat /\ (n + 5) + 2 = n + 7
    BY <1>4
  <2>2. r5 \in Seq(Slot) /\ Len(r5) = n + 5
    BY <1>c5, Zenon DEF IsCat
  <2>3. IsCat(r6, r5, n + 5, f6, 2)
    BY <1>1, <1>5, <1>s6, <2>1, <2>2, CatIs, ZenonT(60)
  <2> QED BY <2>1, <2>3, Zenon DEF IsCat
<1>c7. IsCat(r7, r6, n + 7, f7, 3) /\ Len(r7) = n + 10
  <2>1. n + 7 \in Nat /\ (n + 7) + 3 = n + 10
    BY <1>4
  <2>2. r6 \in Seq(Slot) /\ Len(r6) = n + 7
    BY <1>c6, Zenon DEF IsCat
  <2>3. IsCat(r7, r6, n + 7, f7, 3)
    BY <1>1, <1>5, <1>s7, <2>1, <2>2, CatIs, ZenonT(60)
  <2> QED BY <2>1, <2>3, Zenon DEF IsCat
<1>c8. IsCat(r8, r7, n + 10, f8, 6) /\ Len(r8) = n + 16
  <2>1. n + 10 \in Nat /\ (n + 10) + 6 = n + 16
    BY <1>4
  <2>2. r7 \in Seq(Slot) /\ Len(r7) = n + 10
    BY <1>c7, Zenon DEF IsCat
  <2>3. IsCat(r8, r7, n + 10, f8, 6)
    BY <1>1, <1>5, <1>s8, <2>1, <2>2, CatIs, ZenonT(60)
  <2> QED BY <2>1, <2>3, Zenon DEF IsCat
<1>c9. IsCat(r9, r8, n + 16, f9, 1) /\ Len(r9) = n + 17
  <2>1. n + 16 \in Nat /\ (n + 16) + 1 = n + 17
    BY <1>4
  <2>2. r8 \in Seq(Slot) /\ Len(r8) = n + 16
    BY <1>c8, Zenon DEF IsCat
  <2>3. IsCat(r9, r8, n + 16, f9, 1)
    BY <1>1, <1>5, <1>s9, <2>1, <2>2, CatIs, ZenonT(60)
  <2> QED BY <2>1, <2>3, Zenon DEF IsCat
<1>c10. IsCat(r10, r9, n + 17, f10, 4) /\ Len(r10) = n + 21
  <2>1. n + 17 \in Nat /\ (n + 17) + 4 = n + 21
    BY <1>4
  <2>2. r9 \in Seq(Slot) /\ Len(r9) = n + 17
    BY <1>c9, Zenon DEF IsCat
  <2>3. IsCat(r10, r9, n + 17, f10, 4)
    BY <1>1, <1>5, <1>s10, <2>1, <2>2, CatIs, ZenonT(60)
  <2> QED BY <2>1, <2>3, Zenon DEF IsCat
<1>c11. IsCat(r11, r10, n + 21, f11, 6) /\ Len(r11) = n + 27
  <2>1. n + 21 \in Nat /\ (n + 21) + 6 = n + 27
    BY <1>4
  <2>2. r10 \in Seq(Slot) /\ Len(r10) = n + 21
    BY <1>c10, Zenon DEF IsCat
  <2>3. IsCat(r11, r10, n + 21, f11, 6)
    BY <1>1, <1>5, <1>s11, <2>1, <2>2, CatIs, ZenonT(60)
  <2> QED BY <2>1, <2>3, Zenon DEF IsCat
<1>b2. IsCat(b2, f1, 9, f2, 3) /\ Len(b2) = 12
  <2>1. IsCat(b2, f1, 9, f2, 3)
    BY <1>1, <1>5, <1>s1, <1>s2, CatIs, ZenonT(60)
  <2> QED BY <2>1 DEF IsCat
<1>b3. IsCat(b3, b2, 12, f3, 3) /\ Len(b3) = 15
  <2>1. b2 \in Seq(Slot) /\ 12 \in Nat
    BY <1>b2 DEF IsCat
  <2>2. IsCat(b3, b2, 12, f3, 3)
    BY <1>1, <1>5, <1>b2, <1>s3, <2>1, CatIs, ZenonT(60)
  <2> QED BY <2>2 DEF IsCat
<1>b4. IsCat(B, b3, 15, r11, n + 27) /\ Len(B) = o + 27
  <2>1. b3 \in Seq(Slot) /\ r11 \in Seq(Slot)
    BY <1>b3, <1>c11, Zenon DEF IsCat
  <2>2. 15 \in Nat /\ n + 27 \in Nat /\ 15 + (n + 27) = o + 27
    BY <1>4
  <2>3. IsCat(B, b3, 15, r11, n + 27)
    BY <1>5, <1>b3, <1>c11, <2>1, <2>2, CatIs, ZenonT(60)
  <2> QED BY <2>2, <2>3, Zenon DEF IsCat
<1>6. \A k \in 1 .. n + 27 : B[15 + k] = r11[k]
  BY <1>b4 DEF IsCat
<1>k5. \A k \in 1 .. n + 0 : r5[k] = R[k]
  BY <1>c5 DEF IsCat
<1>k6. \A k \in 1 .. n + 5 : r6[k] = r5[k]
  BY <1>c6 DEF IsCat
<1>k7. \A k \in 1 .. n + 7 : r7[k] = r6[k]
  BY <1>c7 DEF IsCat
<1>k8. \A k \in 1 .. n + 10 : r8[k] = r7[k]
  BY <1>c8 DEF IsCat
<1>k9. \A k \in 1 .. n + 16 : r9[k] = r8[k]
  BY <1>c9 DEF IsCat
<1>k10. \A k \in 1 .. n + 17 : r10[k] = r9[k]
  BY <1>c10 DEF IsCat
<1>k11. \A k \in 1 .. n + 21 : r11[k] = r10[k]
  BY <1>c11 DEF IsCat
<1>f1. \A k \in 1 .. 9 : B[k] = Fenced(m.istp, 1, Stage1(m)[k])
  <2>1. \A k \in 1 .. 9 : k \in 1 .. 12 /\ k \in 1 .. 15
    OBVIOUS
  <2>2. \A k \in 1 .. 9 : B[k] = b3[k] /\ b3[k] = b2[k] /\ b2[k] = f1[k]
    BY <1>b2, <1>b3, <1>b4, <2>1, Zenon DEF IsCat
  <2> QED BY <2>2, <1>s1, Zenon
<1>f2. \A k \in 1 .. 3 : B[9 + k] = Fenced(0, 2, Stage2(m)[k])
  <2>1. \A k \in 1 .. 3 : 9 + k \in 1 .. 12 /\ 9 + k \in 1 .. 15
    OBVIOUS
  <2>2. \A k \in 1 .. 3 : B[9 + k] = b3[9 + k] /\ b3[9 + k] = b2[9 + k] /\ b2[9 + k] = f2[k]
    BY <1>b2, <1>b3, <1>b4, <2>1, Zenon DEF IsCat
  <2> QED BY <2>2, <1>s2, Zenon
<1>f3. \A k \in 1 .. 3 : B[12 + k] = Fenced(m.istp, 3, Stage3(m)[k])
  <2>1. \A k \in 1 .. 3 : 12 + k \in 1 .. 15
    OBVIOUS
  <2>2. \A k \in 1 .. 3 : B[12 + k] = b3[12 + k] /\ b3[12 + k] = f3[k]
    BY <1>b3, <1>b4, <2>1, Zenon DEF IsCat
  <2> QED BY <2>2, <1>s3, Zenon
<1>f4. ASSUME NEW J \in 1 .. jobcnt, NEW k \in 1 .. 5
       PROVE  B[15 + 5 * (J - 1) + k] = Fenced(m.istp, 100 + J, Stage4(m, J)[k])
  <2> DEFINE p == 5 * (J - 1) + k
  <2>1. p \in 1 .. n
    BY <1>0 DEF n
  <2>2. 15 + 5 * (J - 1) + k = 15 + p
    BY <1>0
  <2>3. R[p] = Fenced(m.istp, 100 + J, Stage4(m, J)[k])
    BY <1>3
  <2> HIDE DEF p
  <2>4. /\ r5[p] = R[p] /\ r6[p] = r5[p] /\ r7[p] = r6[p] /\ r8[p] = r7[p] /\ r9[p] = r8[p]
        /\ r10[p] = r9[p] /\ r11[p] = r10[p] /\ B[15 + p] = r11[p]
    BY <2>1, <1>4, <1>6, <1>k5, <1>k6, <1>k7, <1>k8, <1>k9, <1>k10, <1>k11
  <2> QED BY <2>2, <2>3, <2>4, Zenon
<1>f5. ASSUME NEW k \in 1 .. 5
       PROVE  B[o + k] = Fenced(m.istp, 5, Stage5(m)[k])
  <2> DEFINE p == n + 0 + k
  <2>1. p \in 1 .. n + 5 /\ o + k = 15 + p
    BY <1>4
  <2>2. r5[p] = f5[k]
    BY <1>c5, Zenon DEF IsCat
  <2>3. f5[k] = Fenced(m.istp, 5, Stage5(m)[k])
    BY <1>s5, Zenon
  <2> HIDE DEF p
  <2>4. r6[p] = r5[p] /\ r7[p] = r6[p] /\ r8[p] = r7[p] /\ r9[p] = r8[p] /\ r10[p] = r9[p] /\ r11[p] = r10[p] /\ B[15 + p] = r11[p]
    BY <2>1, <1>4, <1>6, <1>k6, <1>k7, <1>k8, <1>k9, <1>k10, <1>k11
  <2> QED BY <2>1, <2>2, <2>3, <2>4, Zenon
<1>f6. ASSUME NEW k \in 1 .. 2
       PROVE  B[o + 5 + k] = Fenced(m.istp, 6, Stage6(m)[k])
  <2> DEFINE p == n + 5 + k
  <2>1. p \in 1 .. n + 7 /\ o + 5 + k = 15 + p
    BY <1>4
  <2>2. r6[p] = f6[k]
    BY <1>c6, Zenon DEF IsCat
  <2>3. f6[k] = Fenced(m.istp, 6, Stage6(m)[k])
    BY <1>s6, Zenon
  <2> HIDE DEF p
  <2>4. r7[p] = r6[p] /\ r8[p] = r7[p] /\ r9[p] = r8[p] /\ r10[p] = r9[p] /\ r11[p] = r10[p] /\ B[15 + p] = r11[p]
    BY <2>1, <1>4, <1>6, <1>k7, <1>k8, <1>k9, <1>k10, <1>k11
  <2> QED BY <2>1, <2>2, <2>3, <2>4, Zenon
<1>f7. ASSUME NEW k \in 1 .. 3
       PROVE  B[o + 7 + k] = Fenced(m.istp, 7, Stage7(m)[k])
  <2> DEFINE p == n + 7 + k
  <2>1. p \in 1 .. n + 10 /\ o + 7 + k = 15 + p
    BY <1>4
  <2>2. r7[p] = f7[k]
    BY <1>c7, Zenon DEF IsCat
  <2>3. f7[k] = Fenced(m.istp, 7, Stage7(m)[k])
    BY <1>s7, Zenon
  <2> HIDE DEF p
  <2>4. r8[p] = r7[p] /\ r9[p] = r8[p] /\ r10[p] = r9[p] /\ r11[p] = r10[p] /\ B[15 + p] = r11[p]
    BY <2>1, <1>4, <1>6, <1>k8, <1>k9, <1>k10, <1>k11
  <2> QED BY <2>1, <2>2, <2>3, <2>4, Zenon
<1>f8. ASSUME NEW k \in 1 .. 6
       PROVE  B[o + 10 + k] = Fenced(0, 8, Stage8(m)[k])
  <2> DEFINE p == n + 10 + k
  <2>1. p \in 1 .. n + 16 /\ o + 10 + k = 15 + p
    BY <1>4
  <2>2. r8[p] = f8[k]
    BY <1>c8, Zenon DEF IsCat
  <2>3. f8[k] = Fenced(0, 8, Stage8(m)[k])
    BY <1>s8, Zenon
  <2> HIDE DEF p
  <2>4. r9[p] = r8[p] /\ r10[p] = r9[p] /\ r11[p] = r10[p] /\ B[15 + p] = r11[p]
    BY <2>1, <1>4, <1>6, <1>k9, <1>k10, <1>k11
  <2> QED BY <2>1, <2>2, <2>3, <2>4, Zenon
<1>f9. ASSUME NEW k \in 1 .. 1
       PROVE  B[o + 16 + k] = Fenced(0, 9, Stage9(m)[k])
  <2> DEFINE p == n + 16 + k
  <2>1. p \in 1 .. n + 17 /\ o + 16 + k = 15 + p
    BY <1>4
  <2>2. r9[p] = f9[k]
    BY <1>c9, Zenon DEF IsCat
  <2>3. f9[k] = Fenced(0, 9, Stage9(m)[k])
    BY <1>s9, Zenon
  <2> HIDE DEF p
  <2>4. r10[p] = r9[p] /\ r11[p] = r10[p] /\ B[15 + p] = r11[p]
    BY <2>1, <1>4, <1>6, <1>k10, <1>k11
  <2> QED BY <2>1, <2>2, <2>3, <2>4, Zenon
<1>f10. ASSUME NEW k \in 1 .. 4
       PROVE  B[o + 17 + k] = Fenced(m.istp, 10, Stage10(m)[k])
  <2> DEFINE p == n + 17 + k
  <2>1. p \in 1 .. n + 21 /\ o + 17 + k = 15 + p
    BY <1>4
  <2>2. r10[p] = f10[k]
    BY <1>c10, Zenon DEF IsCat
  <2>3. f10[k] = Fenced(m.istp, 10, Stage10(m)[k])
    BY <1>s10, Zenon
  <2> HIDE DEF p
  <2>4. r11[p] = r10[p] /\ B[15 + p] = r11[p]
    BY <2>1, <1>4, <1>6, <1>k11
  <2> QED BY <2>1, <2>2, <2>3, <2>4, Zenon
<1>f11. ASSUME NEW k \in 1 .. 6
       PROVE  B[o + 21 + k] = Fenced(lfence(m), 11, Stage11(m)[k])
  <2> DEFINE p == n + 21 + k
  <2>1. p \in 1 .. n + 27 /\ o + 21 + k = 15 + p
    BY <1>4
  <2>2. r11[p] = f11[k]
    BY <1>c11, Zenon DEF IsCat
  <2>3. f11[k] = Fenced(lfence(m), 11, Stage11(m)[k])
    BY <1>s11, Zenon
  <2> HIDE DEF p
  <2>4. B[15 + p] = r11[p]
    BY <2>1, <1>4, <1>6
  <2> QED BY <2>1, <2>2, <2>3, <2>4, Zenon
<1>7. B[o + 17] = Fenced(0, 9, Stage9(m)[1])
  <2>1. 1 \in 1 .. 1 /\ o + 16 + 1 = o + 17
    BY <1>4
  <2> QED BY <2>1, <1>f9
<1>8. B \in Seq(Slot)
  BY <1>b4, Zenon DEF IsCat
<1> HIDE DEF o
<1> QED BY <1>2, <1>8, <1>b4, <1>f1, <1>f2, <1>f3, <1>f4, <1>f5, <1>f6, <1>f7, <1>f8, <1>7, <1>f10, <1>f11, ZenonT(60)

-----------------------------------------------------------------------------
(* The updates of the body *)

\* Update p of the body is of node n, to value v.
Writes(m, p, n, v) == BodyOf[m][p].node = n /\ BodyOf[m][p].value = v

LEMMA FencedNode ==
  ASSUME NEW f, NEW id, NEW u
  PROVE  Fenced(f, id, u).node = u.node /\ Fenced(f, id, u).value = u.value
BY DEF Fenced

LEMMA SlotIs ==
  ASSUME NEW m, NEW p, NEW f, NEW id, NEW u, BodyOf[m][p] = Fenced(f, id, u)
  PROVE  Writes(m, p, u.node, u.value)
<1>1. BodyOf[m][p].node = Fenced(f, id, u).node /\ BodyOf[m][p].value = Fenced(f, id, u).value
  OBVIOUS
<1> QED BY <1>1, FencedNode DEF Writes

LEMMA StageWrites ==
  ASSUME NEW m \in Modes
  PROVE  /\ Writes(m, 1, random("a"), "val") /\ Writes(m, 2, random("b"), "val")
         /\ Writes(m, 3, random("c"), "val") /\ Writes(m, 4, random("e"), "val")
         /\ Writes(m, 5, random("i"), "val") /\ Writes(m, 6, jrandom(1), "val")
         /\ Writes(m, 7, jrandom(2), "val") /\ Writes(m, 8, jrandom(3), "val")
         /\ m.istp # 0 => Writes(m, 9, lasti, "val")
         /\ m.istp = 0 => Writes(m, 9, Nothing.node, "undef")
         /\ Writes(m, 10, ntp("a"), "val") /\ Writes(m, 11, ntp("b"), "val")
         /\ Writes(m, 12, ntp("c"), "val") /\ Writes(m, 13, ntp("e"), "val")
         /\ Writes(m, 14, ntp("i"), "val") /\ Writes(m, 15, bntpMAX(m), "val")
<1>1. /\ \A k \in 1 .. 9 : Writes(m, k, Stage1(m)[k].node, Stage1(m)[k].value)
      /\ \A k \in 1 .. 3 : Writes(m, 9 + k, Stage2(m)[k].node, Stage2(m)[k].value)
      /\ \A k \in 1 .. 3 : Writes(m, 12 + k, Stage3(m)[k].node, Stage3(m)[k].value)
  <2>1. \A k \in 1 .. 9 : Writes(m, k, Stage1(m)[k].node, Stage1(m)[k].value)
    <3>1. \A k \in 1 .. 9 : BodyOf[m][k] = Fenced(m.istp, 1, Stage1(m)[k])
      BY BodyStages, Zenon
    <3> QED BY <3>1, SlotIs
  <2>2. \A k \in 1 .. 3 : Writes(m, 9 + k, Stage2(m)[k].node, Stage2(m)[k].value)
    <3>1. \A k \in 1 .. 3 : BodyOf[m][9 + k] = Fenced(0, 2, Stage2(m)[k])
      BY BodyStages, Zenon
    <3> QED BY <3>1, SlotIs
  <2>3. \A k \in 1 .. 3 : Writes(m, 12 + k, Stage3(m)[k].node, Stage3(m)[k].value)
    <3>1. \A k \in 1 .. 3 : BodyOf[m][12 + k] = Fenced(m.istp, 3, Stage3(m)[k])
      BY BodyStages, Zenon
    <3> QED BY <3>1, SlotIs
  <2> QED BY <2>1, <2>2, <2>3
<1>2. /\ 1 \in 1 .. 9 /\ 2 \in 1 .. 9 /\ 3 \in 1 .. 9 /\ 4 \in 1 .. 9 /\ 5 \in 1 .. 9 /\ 6 \in 1 .. 9
      /\ 7 \in 1 .. 9 /\ 8 \in 1 .. 9 /\ 9 \in 1 .. 9
      /\ 1 \in 1 .. 3 /\ 2 \in 1 .. 3 /\ 3 \in 1 .. 3
      /\ 9 + 1 = 10 /\ 9 + 2 = 11 /\ 9 + 3 = 12 /\ 12 + 1 = 13 /\ 12 + 2 = 14 /\ 12 + 3 = 15
  OBVIOUS
<1>3. /\ Stage1(m)[1] = Set(random("a"), "val") /\ Stage1(m)[2] = Set(random("b"), "val")
      /\ Stage1(m)[3] = Set(random("c"), "val") /\ Stage1(m)[4] = Set(random("e"), "val")
      /\ Stage1(m)[5] = Set(random("i"), "val") /\ Stage1(m)[6] = Set(jrandom(1), "val")
      /\ Stage1(m)[7] = Set(jrandom(2), "val") /\ Stage1(m)[8] = Set(jrandom(3), "val")
      /\ m.istp # 0 => Stage1(m)[9] = Set(lasti, "val")
      /\ m.istp = 0 => Stage1(m)[9] = Nothing
  BY DEF Stage1
<1>4. /\ Stage2(m)[1] = Set(ntp("a"), "val") /\ Stage2(m)[2] = Set(ntp("b"), "val")
      /\ Stage2(m)[3] = Set(ntp("c"), "val")
      /\ Stage3(m)[1] = Set(ntp("e"), "val") /\ Stage3(m)[2] = Set(ntp("i"), "val")
      /\ Stage3(m)[3] = Set(bntpMAX(m), "val")
  BY DEF Stage2, Stage3
<1>5. \A n, v : Set(n, v).node = n /\ Set(n, v).value = v
  BY DEF Set
<1>6. Nothing.value = "undef"
  BY DEF Nothing
<1>7. /\ Writes(m, 1, random("a"), "val") /\ Writes(m, 2, random("b"), "val")
      /\ Writes(m, 3, random("c"), "val") /\ Writes(m, 4, random("e"), "val")
      /\ Writes(m, 5, random("i"), "val") /\ Writes(m, 6, jrandom(1), "val")
      /\ Writes(m, 7, jrandom(2), "val") /\ Writes(m, 8, jrandom(3), "val")
      /\ m.istp # 0 => Writes(m, 9, lasti, "val")
      /\ m.istp = 0 => Writes(m, 9, Nothing.node, "undef")
  BY <1>1, <1>2, <1>3, <1>5, <1>6
<1>8. /\ Writes(m, 10, ntp("a"), "val") /\ Writes(m, 11, ntp("b"), "val")
      /\ Writes(m, 12, ntp("c"), "val") /\ Writes(m, 13, ntp("e"), "val")
      /\ Writes(m, 14, ntp("i"), "val") /\ Writes(m, 15, bntpMAX(m), "val")
  BY <1>1, <1>2, <1>4, <1>5
<1> QED BY <1>7, <1>8

LEMMA RoundWrites ==
  ASSUME NEW m \in Modes, NEW J \in 1 .. jobcnt
  PROVE  /\ Writes(m, 15 + 5 * (J - 1) + 1, randomJ("a", J), "val")
         /\ Writes(m, 15 + 5 * (J - 1) + 2, randomJ("b", J), "val")
         /\ Writes(m, 15 + 5 * (J - 1) + 3, randomJ("c", J), "val")
         /\ Writes(m, 15 + 5 * (J - 1) + 4, randomJ("e", J), "val")
         /\ Writes(m, 15 + 5 * (J - 1) + 5, randomJ("i", J), "val")
<1>1. \A k \in 1 .. 5 : Writes(m, 15 + 5 * (J - 1) + k, Stage4(m, J)[k].node, Stage4(m, J)[k].value)
  <2>1. \A k \in 1 .. 5 : BodyOf[m][15 + 5 * (J - 1) + k] = Fenced(m.istp, 100 + J, Stage4(m, J)[k])
    <3>1. \A H \in 1 .. jobcnt, k \in 1 .. 5 :
             BodyOf[m][15 + 5 * (H - 1) + k] = Fenced(m.istp, 100 + H, Stage4(m, H)[k])
      BY BodyStages, Zenon
    <3> QED BY <3>1, Zenon
  <2> QED BY <2>1, SlotIs
<1>2. 1 \in 1 .. 5 /\ 2 \in 1 .. 5 /\ 3 \in 1 .. 5 /\ 4 \in 1 .. 5 /\ 5 \in 1 .. 5
  OBVIOUS
<1>3. /\ Stage4(m, J)[1] = Set(randomJ("a", J), "val") /\ Stage4(m, J)[2] = Set(randomJ("b", J), "val")
      /\ Stage4(m, J)[3] = Set(randomJ("c", J), "val") /\ Stage4(m, J)[4] = Set(randomJ("e", J), "val")
      /\ Stage4(m, J)[5] = Set(randomJ("i", J), "val")
  BY DEF Stage4
<1>4. \A n, v : Set(n, v).node = n /\ Set(n, v).value = v
  BY DEF Set
<1> QED BY <1>1, <1>2, <1>3, <1>4

LEMMA LaterWrites ==
  ASSUME NEW m \in Modes
  PROVE  /\ Writes(m, o + 1, randomJ("a", 1), "undef") /\ Writes(m, o + 2, randomJ("b", 1), "undef")
         /\ Writes(m, o + 3, randomJ("c", 1), "undef") /\ Writes(m, o + 4, randomJ("e", 1), "undef")
         /\ Writes(m, o + 5, randomJ("i", 1), "undef")
         /\ Writes(m, o + 6, jrandom(1), "undef") /\ Writes(m, o + 7, jrandom(2), "undef")
         /\ Writes(m, o + 8, span("a"), "stage7") /\ Writes(m, o + 9, span("e"), "stage7")
         /\ Writes(m, o + 10, span("b"), "stage7")
         /\ Writes(m, o + 11, randomJ("a", 1), "undef") /\ Writes(m, o + 12, ntp("a"), "undef")
         /\ Writes(m, o + 13, ntp("b"), "undef") /\ Writes(m, o + 14, randomJ("b", 1), "undef")
         /\ Writes(m, o + 15, ntp("c"), "undef") /\ Writes(m, o + 16, bntpMAX(m), "undef")
         /\ Writes(m, o + 17, cntloopNode(m), "val")
         /\ Writes(m, o + 18, span("e"), "undef") /\ Writes(m, o + 19, span("a"), "stage10")
         /\ Writes(m, o + 20, span("e"), "stage10") /\ Writes(m, o + 21, span("b"), "stage10")
         /\ Writes(m, o + 22, ndxarr("a"), "val") /\ Writes(m, o + 23, ndxarr("b"), "val")
         /\ Writes(m, o + 24, ndxarr("c"), "val") /\ Writes(m, o + 25, ndxarr("e"), "val")
         /\ Writes(m, o + 26, ndxarr("i"), "val")
         /\ m.istp = 0 => Writes(m, o + 27, lasti, "val")
         /\ m.istp # 0 => Writes(m, o + 27, Nothing.node, "undef")
<1>0. o \in Nat
  BY StageAssumption DEF o
<1>1. /\ \A k \in 1 .. 5 : Writes(m, o + k, Stage5(m)[k].node, Stage5(m)[k].value)
      /\ \A k \in 1 .. 2 : Writes(m, o + 5 + k, Stage6(m)[k].node, Stage6(m)[k].value)
      /\ \A k \in 1 .. 3 : Writes(m, o + 7 + k, Stage7(m)[k].node, Stage7(m)[k].value)
      /\ \A k \in 1 .. 6 : Writes(m, o + 10 + k, Stage8(m)[k].node, Stage8(m)[k].value)
      /\ Writes(m, o + 17, Stage9(m)[1].node, Stage9(m)[1].value)
      /\ \A k \in 1 .. 4 : Writes(m, o + 17 + k, Stage10(m)[k].node, Stage10(m)[k].value)
      /\ \A k \in 1 .. 6 : Writes(m, o + 21 + k, Stage11(m)[k].node, Stage11(m)[k].value)
  <2>1. \A k \in 1 .. 5 : Writes(m, o + k, Stage5(m)[k].node, Stage5(m)[k].value)
    <3>1. \A k \in 1 .. 5 : BodyOf[m][o + k] = Fenced(m.istp, 5, Stage5(m)[k])
      BY BodyStages, Zenon
    <3> QED BY <3>1, SlotIs
  <2>2. \A k \in 1 .. 2 : Writes(m, o + 5 + k, Stage6(m)[k].node, Stage6(m)[k].value)
    <3>1. \A k \in 1 .. 2 : BodyOf[m][o + 5 + k] = Fenced(m.istp, 6, Stage6(m)[k])
      BY BodyStages, Zenon
    <3> QED BY <3>1, SlotIs
  <2>3. \A k \in 1 .. 3 : Writes(m, o + 7 + k, Stage7(m)[k].node, Stage7(m)[k].value)
    <3>1. \A k \in 1 .. 3 : BodyOf[m][o + 7 + k] = Fenced(m.istp, 7, Stage7(m)[k])
      BY BodyStages, Zenon
    <3> QED BY <3>1, SlotIs
  <2>4. \A k \in 1 .. 6 : Writes(m, o + 10 + k, Stage8(m)[k].node, Stage8(m)[k].value)
    <3>1. \A k \in 1 .. 6 : BodyOf[m][o + 10 + k] = Fenced(0, 8, Stage8(m)[k])
      BY BodyStages, Zenon
    <3> QED BY <3>1, SlotIs
  <2>5. Writes(m, o + 17, Stage9(m)[1].node, Stage9(m)[1].value)
    <3>1. BodyOf[m][o + 17] = Fenced(0, 9, Stage9(m)[1])
      BY BodyStages, Zenon
    <3> QED BY <3>1, SlotIs
  <2>6. \A k \in 1 .. 4 : Writes(m, o + 17 + k, Stage10(m)[k].node, Stage10(m)[k].value)
    <3>1. \A k \in 1 .. 4 : BodyOf[m][o + 17 + k] = Fenced(m.istp, 10, Stage10(m)[k])
      BY BodyStages, Zenon
    <3> QED BY <3>1, SlotIs
  <2>7. \A k \in 1 .. 6 : Writes(m, o + 21 + k, Stage11(m)[k].node, Stage11(m)[k].value)
    <3>1. \A k \in 1 .. 6 : BodyOf[m][o + 21 + k] = Fenced(lfence(m), 11, Stage11(m)[k])
      BY BodyStages, Zenon
    <3> QED BY <3>1, SlotIs
  <2> QED BY <2>1, <2>2, <2>3, <2>4, <2>5, <2>6, <2>7
<1>2. /\ 1 \in 1 .. 6 /\ 2 \in 1 .. 6 /\ 3 \in 1 .. 6 /\ 4 \in 1 .. 6 /\ 5 \in 1 .. 6 /\ 6 \in 1 .. 6
      /\ 1 \in 1 .. 5 /\ 2 \in 1 .. 5 /\ 3 \in 1 .. 5 /\ 4 \in 1 .. 5 /\ 5 \in 1 .. 5
      /\ 1 \in 1 .. 4 /\ 2 \in 1 .. 4 /\ 3 \in 1 .. 4 /\ 4 \in 1 .. 4
      /\ 1 \in 1 .. 3 /\ 2 \in 1 .. 3 /\ 3 \in 1 .. 3 /\ 1 \in 1 .. 2 /\ 2 \in 1 .. 2
      /\ o + 5 + 1 = o + 6 /\ o + 5 + 2 = o + 7 /\ o + 7 + 1 = o + 8 /\ o + 7 + 2 = o + 9
      /\ o + 7 + 3 = o + 10 /\ o + 10 + 1 = o + 11 /\ o + 10 + 2 = o + 12 /\ o + 10 + 3 = o + 13
      /\ o + 10 + 4 = o + 14 /\ o + 10 + 5 = o + 15 /\ o + 10 + 6 = o + 16 /\ o + 17 + 1 = o + 18
      /\ o + 17 + 2 = o + 19 /\ o + 17 + 3 = o + 20 /\ o + 17 + 4 = o + 21 /\ o + 21 + 1 = o + 22
      /\ o + 21 + 2 = o + 23 /\ o + 21 + 3 = o + 24 /\ o + 21 + 4 = o + 25 /\ o + 21 + 5 = o + 26
      /\ o + 21 + 6 = o + 27
  BY <1>0
<1>3. \A n, v : /\ Set(n, v).node = n /\ Set(n, v).value = v
                /\ Kill(n).node = n /\ Kill(n).value = "undef"
                /\ ZKill(n).node = n /\ ZKill(n).value = "undef"
  BY DEF Set, Kill, ZKill
<1>4. Nothing.value = "undef"
  BY DEF Nothing
<1>5. /\ Stage5(m)[1] = Kill(randomJ("a", 1)) /\ Stage5(m)[2] = Kill(randomJ("b", 1))
      /\ Stage5(m)[3] = Kill(randomJ("c", 1)) /\ Stage5(m)[4] = Kill(randomJ("e", 1))
      /\ Stage5(m)[5] = Kill(randomJ("i", 1))
      /\ Stage6(m)[1] = ZKill(jrandom(1)) /\ Stage6(m)[2] = ZKill(jrandom(2))
      /\ Stage7(m)[1] = Set(span("a"), "stage7") /\ Stage7(m)[2] = Set(span("e"), "stage7")
      /\ Stage7(m)[3] = Set(span("b"), "stage7")
  BY DEF Stage5, Stage6, Stage7
<1>6. /\ Stage8(m)[1] = Kill(randomJ("a", 1)) /\ Stage8(m)[2] = Kill(ntp("a"))
      /\ Stage8(m)[3] = Kill(ntp("b")) /\ Stage8(m)[4] = ZKill(randomJ("b", 1))
      /\ Stage8(m)[5] = ZKill(ntp("c")) /\ Stage8(m)[6] = Kill(bntpMAX(m))
      /\ Stage9(m)[1] = Set(cntloopNode(m), "val")
  BY DEF Stage8, Stage9
<1>7. /\ Stage10(m)[1] = ZKill(span("e")) /\ Stage10(m)[2] = Set(span("a"), "stage10")
      /\ Stage10(m)[3] = Set(span("e"), "stage10") /\ Stage10(m)[4] = Set(span("b"), "stage10")
      /\ Stage11(m)[1] = Set(ndxarr("a"), "val") /\ Stage11(m)[2] = Set(ndxarr("b"), "val")
      /\ Stage11(m)[3] = Set(ndxarr("c"), "val") /\ Stage11(m)[4] = Set(ndxarr("e"), "val")
      /\ Stage11(m)[5] = Set(ndxarr("i"), "val")
      /\ m.istp = 0 => Stage11(m)[6] = Set(lasti, "val")
      /\ m.istp # 0 => Stage11(m)[6] = Nothing
  BY DEF Stage10, Stage11, SetPiece
<1> HIDE DEF o
<1>8. /\ Writes(m, o + 1, randomJ("a", 1), "undef") /\ Writes(m, o + 2, randomJ("b", 1), "undef")
      /\ Writes(m, o + 3, randomJ("c", 1), "undef") /\ Writes(m, o + 4, randomJ("e", 1), "undef")
      /\ Writes(m, o + 5, randomJ("i", 1), "undef")
      /\ Writes(m, o + 6, jrandom(1), "undef") /\ Writes(m, o + 7, jrandom(2), "undef")
      /\ Writes(m, o + 8, span("a"), "stage7") /\ Writes(m, o + 9, span("e"), "stage7")
      /\ Writes(m, o + 10, span("b"), "stage7")
  BY <1>1, <1>2, <1>3, <1>5
<1>9. /\ Writes(m, o + 11, randomJ("a", 1), "undef") /\ Writes(m, o + 12, ntp("a"), "undef")
      /\ Writes(m, o + 13, ntp("b"), "undef") /\ Writes(m, o + 14, randomJ("b", 1), "undef")
      /\ Writes(m, o + 15, ntp("c"), "undef") /\ Writes(m, o + 16, bntpMAX(m), "undef")
      /\ Writes(m, o + 17, cntloopNode(m), "val")
  BY <1>1, <1>2, <1>3, <1>6
<1>10. /\ Writes(m, o + 18, span("e"), "undef") /\ Writes(m, o + 19, span("a"), "stage10")
       /\ Writes(m, o + 20, span("e"), "stage10") /\ Writes(m, o + 21, span("b"), "stage10")
       /\ Writes(m, o + 22, ndxarr("a"), "val") /\ Writes(m, o + 23, ndxarr("b"), "val")
       /\ Writes(m, o + 24, ndxarr("c"), "val") /\ Writes(m, o + 25, ndxarr("e"), "val")
       /\ Writes(m, o + 26, ndxarr("i"), "val")
       /\ m.istp = 0 => Writes(m, o + 27, lasti, "val")
       /\ m.istp # 0 => Writes(m, o + 27, Nothing.node, "undef")
  BY <1>1, <1>2, <1>3, <1>4, <1>7
<1> QED BY <1>8, <1>9, <1>10

\* The place of a region in Stages 1, 4, 5 and 11.
Place(l) == IF l = "a" THEN 1 ELSE IF l = "b" THEN 2 ELSE IF l = "c" THEN 3 ELSE IF l = "e" THEN 4 ELSE 5

LEMMA SlotCases ==
  ASSUME NEW m \in Modes, NEW p \in 1 .. LenOf(m)
  PROVE  \/ p \in 1 .. 15
         \/ \E J \in 1 .. jobcnt, k \in 1 .. 5 : p = 15 + 5 * (J - 1) + k
         \/ \E k \in 1 .. 27 : p = o + k
<1>1. jobcnt \in Nat /\ LenOf(m) = o + 27
  BY StageAssumption, BodyStages
<1>2. CASE p > 15 /\ p <= o
  <2> DEFINE J == ((p - 16) \div 5) + 1
             k == ((p - 16) % 5) + 1
  <2>1. J \in 1 .. jobcnt /\ k \in 1 .. 5 /\ p = 15 + 5 * (J - 1) + k
    BY <1>1, <1>2 DEF o
  <2> QED BY <2>1
<1>3. CASE p > o
  <2>1. p - o \in 1 .. 27 /\ p = o + (p - o)
    BY <1>1, <1>3 DEF o
  <2> QED BY <2>1
<1> QED BY <1>1, <1>2, <1>3 DEF o

\* A node is its family, its region and its column.
LEMMA NodeParts ==
  /\ \A l : random(l)[1] = "random" /\ random(l)[2] = l
  /\ \A d : jrandom(d)[1] = "jrandom" /\ jrandom(d)[2] = "i" /\ jrandom(d)[3] = d
  /\ \A l, J : randomJ(l, J)[1] = "randomJ" /\ randomJ(l, J)[2] = l /\ randomJ(l, J)[3] = J
  /\ \A l : span(l)[1] = "span" /\ span(l)[2] = l
  /\ \A l : ndxarr(l)[1] = "ndxarr" /\ ndxarr(l)[2] = l
  /\ \A l : ntp(l)[1] = "ntp" /\ ntp(l)[2] = l
  /\ lasti[1] = "lasti" /\ lasti[2] = "i"
  /\ Nothing.node[1] = "none" /\ Nothing.node[2] = "none"
  /\ \A m : cntloopNode(m)[1] = "cntloop"
  /\ \A m : bntpMAX(m)[1] \in {"ntp", "ntpMAX"} /\ bntpMAX(m)[2] = "b"
BY DEF random, jrandom, randomJ, span, ndxarr, ntp, lasti, Nothing, cntloopNode, bntpMAX

\* What node n can be when update p, one of the first 15, is of n.
At15(m, p, n) ==
    /\ \A l \in AllLetters : n = random(l) => p = Place(l)
    /\ \A d \in 1 .. 3 : n = jrandom(d) => p = 5 + d
    /\ \A l \in AllLetters : \A J \in 1 .. jobcnt : n # randomJ(l, J)
    /\ \A l \in AllLetters : n # span(l) /\ n # ndxarr(l)
    /\ n = ntp("e") => p = 13
    /\ n = ntp("i") => p = 14
    /\ n = lasti => p = 9 /\ m.istp # 0
    /\ n # cntloopNode(m)
    /\ \A l \in AllLetters : n[2] = l => p >= Place(l)

LEMMA Writers15 ==
  ASSUME NEW m \in Modes, NEW p \in 1 .. 15, NEW n, n = BodyOf[m][p].node
  PROVE  At15(m, p, n)
<1>1. m.istp \in {0, 1, 2}
  BY StageAssumption
<1>2. CASE p \in 1 .. 5
  <2>1. \/ p = 1 /\ n = random("a")
        \/ p = 2 /\ n = random("b")
        \/ p = 3 /\ n = random("c")
        \/ p = 4 /\ n = random("e")
        \/ p = 5 /\ n = random("i")
    BY <1>2, StageWrites DEF Writes
  <2> QED BY <1>1, <2>1, NodeParts, SMTT(30) DEF At15, AllLetters, Place
<1>3. CASE p \in 6 .. 8
  <2>1. \/ p = 6 /\ n = jrandom(1)
        \/ p = 7 /\ n = jrandom(2)
        \/ p = 8 /\ n = jrandom(3)
    BY <1>3, StageWrites DEF Writes
  <2> QED BY <1>1, <2>1, NodeParts, SMTT(30) DEF At15, AllLetters, Place
<1>4. CASE p \in 10 .. 12
  <2>1. \/ p = 10 /\ n = ntp("a")
        \/ p = 11 /\ n = ntp("b")
        \/ p = 12 /\ n = ntp("c")
    BY <1>4, StageWrites DEF Writes
  <2> QED BY <1>1, <2>1, NodeParts, SMTT(30) DEF At15, AllLetters, Place
<1>5. CASE p \in 13 .. 15
  <2>1. \/ p = 13 /\ n = ntp("e")
        \/ p = 14 /\ n = ntp("i")
        \/ p = 15 /\ n = bntpMAX(m)
    BY <1>5, StageWrites DEF Writes
  <2> QED BY <1>1, <2>1, NodeParts, SMTT(30) DEF At15, AllLetters, Place
<1>6. CASE p = 9
  <2>1. (m.istp # 0 /\ n = lasti) \/ (m.istp = 0 /\ n = Nothing.node)
    BY <1>1, <1>6, StageWrites DEF Writes
  <2> QED BY <1>6, <2>1, NodeParts, SMTT(30) DEF At15, AllLetters, Place
<1> QED BY <1>2, <1>3, <1>4, <1>5, <1>6

\* The same for update k of round H of Stage 4.
AtRound(m, H, k, n) ==
    /\ \E l \in AllLetters : n = randomJ(l, H) /\ k = Place(l)
    /\ n \notin {lasti, cntloopNode(m)}
    /\ \A l \in AllLetters : n \notin {random(l), jrandom(1), jrandom(2), jrandom(3), span(l), ndxarr(l), ntp(l)}
    /\ \A l \in AllLetters, J \in 1 .. jobcnt : n = randomJ(l, J) => J = H /\ k = Place(l)
    /\ \A l \in AllLetters : n[2] = l => k = Place(l)

LEMMA WritersRounds ==
  ASSUME NEW m \in Modes, NEW H \in 1 .. jobcnt, NEW k \in 1 .. 5, NEW n, n = BodyOf[m][15 + 5 * (H - 1) + k].node
  PROVE  AtRound(m, H, k, n)
<1>1. \E l \in AllLetters : n = randomJ(l, H) /\ k = Place(l)
  BY RoundWrites DEF Writes, AllLetters, Place
<1> QED BY <1>1 DEF AtRound, random, jrandom, randomJ, span, ndxarr, ntp, lasti, cntloopNode, AllLetters, Place

\* The same for update k after Stage 4.
AtLater(m, k, n) ==
    /\ \A l \in AllLetters : n # random(l)
    /\ n = jrandom(1) => k = 6
    /\ n = jrandom(2) => k = 7
    /\ n # jrandom(3)
    /\ \A l \in AllLetters, J \in 1 .. jobcnt :
          n = randomJ(l, J) => J = 1 /\ (k = Place(l) \/ (l = "a" /\ k = 11) \/ (l = "b" /\ k = 14))
    /\ n = span("a") => k \in {8, 19}
    /\ n = span("e") => k \in {9, 18, 20}
    /\ n = span("b") => k \in {10, 21}
    /\ \A l \in AllLetters : n = ndxarr(l) => k = 21 + Place(l)
    /\ n = ntp("a") => k = 12
    /\ n = ntp("b") => k \in {13, 16}
    /\ n = ntp("c") => k = 15
    /\ n # ntp("e") /\ n # ntp("i")
    /\ n = lasti => k = 27 /\ m.istp = 0
    /\ n = cntloopNode(m) => k = 17

LEMMA Writers27 ==
  ASSUME NEW m \in Modes, NEW k \in 1 .. 27, NEW n, n = BodyOf[m][o + k].node
  PROVE  AtLater(m, k, n)
<1>1. m.istp \in {0, 1, 2}
  BY StageAssumption
<1> HIDE DEF o
<1>2. CASE k \in 1 .. 5
  <2>1. \/ k = 1 /\ n = randomJ("a", 1)
        \/ k = 2 /\ n = randomJ("b", 1)
        \/ k = 3 /\ n = randomJ("c", 1)
        \/ k = 4 /\ n = randomJ("e", 1)
        \/ k = 5 /\ n = randomJ("i", 1)
    BY <1>2, LaterWrites DEF Writes
  <2> QED BY <1>1, <2>1, NodeParts, SMTT(30) DEF AtLater, AllLetters, Place
<1>3. CASE k \in 6 .. 10
  <2>1. \/ k = 6 /\ n = jrandom(1)
        \/ k = 7 /\ n = jrandom(2)
        \/ k = 8 /\ n = span("a")
        \/ k = 9 /\ n = span("e")
        \/ k = 10 /\ n = span("b")
    BY <1>3, LaterWrites DEF Writes
  <2> QED BY <1>1, <2>1, NodeParts, SMTT(30) DEF AtLater, AllLetters, Place
<1>4. CASE k \in 11 .. 14
  <2>1. \/ k = 11 /\ n = randomJ("a", 1)
        \/ k = 12 /\ n = ntp("a")
        \/ k = 13 /\ n = ntp("b")
        \/ k = 14 /\ n = randomJ("b", 1)
    BY <1>4, LaterWrites DEF Writes
  <2> QED BY <1>1, <2>1, NodeParts, SMTT(30) DEF AtLater, AllLetters, Place
<1>5. CASE k \in 15 .. 17
  <2>1. \/ k = 15 /\ n = ntp("c")
        \/ k = 16 /\ n = bntpMAX(m)
        \/ k = 17 /\ n = cntloopNode(m)
    BY <1>5, LaterWrites DEF Writes
  <2> QED BY <1>1, <2>1, NodeParts, SMTT(30) DEF AtLater, AllLetters, Place
<1>6. CASE k \in 18 .. 21
  <2>1. \/ k = 18 /\ n = span("e")
        \/ k = 19 /\ n = span("a")
        \/ k = 20 /\ n = span("e")
        \/ k = 21 /\ n = span("b")
    BY <1>6, LaterWrites DEF Writes
  <2> QED BY <1>1, <2>1, NodeParts, SMTT(30) DEF AtLater, AllLetters, Place
<1>7. CASE k \in 22 .. 26
  <2>1. \/ k = 22 /\ n = ndxarr("a")
        \/ k = 23 /\ n = ndxarr("b")
        \/ k = 24 /\ n = ndxarr("c")
        \/ k = 25 /\ n = ndxarr("e")
        \/ k = 26 /\ n = ndxarr("i")
    BY <1>7, LaterWrites DEF Writes
  <2> QED BY <1>1, <2>1, NodeParts, SMTT(30) DEF AtLater, AllLetters, Place
<1>8. CASE k = 27
  <2>1. (m.istp = 0 /\ n = lasti) \/ (m.istp # 0 /\ n = Nothing.node)
    BY <1>1, <1>8, LaterWrites DEF Writes
  <2> QED BY <1>8, <2>1, NodeParts, SMTT(30) DEF AtLater, AllLetters, Place
<1> QED BY <1>2, <1>3, <1>4, <1>5, <1>6, <1>7, <1>8

\* The same for any update p of the body.
WriterOf(m, p, n) ==
    /\ \A l \in AllLetters : n = random(l) => p = Place(l)
    /\ n = jrandom(1) => p \in {6, o + 6}
    /\ n = jrandom(2) => p \in {7, o + 7}
    /\ n = jrandom(3) => p = 8
    /\ \A l \in AllLetters, J \in 1 .. jobcnt :
          n = randomJ(l, J) =>
             \/ p = 15 + 5 * (J - 1) + Place(l)
             \/ J = 1 /\ p = o + Place(l)
             \/ J = 1 /\ l = "a" /\ p = o + 11
             \/ J = 1 /\ l = "b" /\ p = o + 14
    /\ n = span("a") => p \in {o + 8, o + 19}
    /\ n = span("e") => p \in {o + 9, o + 18, o + 20}
    /\ n = span("b") => p \in {o + 10, o + 21}
    /\ \A l \in AllLetters : n = ndxarr(l) => p = o + 21 + Place(l)
    /\ n = ntp("a") => p <= o + 12
    /\ n = ntp("b") => p <= o + 13 \/ p = o + 16
    /\ n = ntp("c") => p <= o + 15
    /\ n = ntp("e") => p = 13
    /\ n = ntp("i") => p = 14
    /\ n = lasti => p = IF m.istp = 0 THEN o + 27 ELSE 9
    /\ n = cntloopNode(m) => p = o + 17
    /\ \A l \in AllLetters : n[2] = l => p >= Place(l)

LEMMA OnlyWriters ==
  ASSUME NEW m \in Modes, NEW p \in 1 .. LenOf(m), NEW n, n = BodyOf[m][p].node
  PROVE  WriterOf(m, p, n)
<1>0. o \in Nat /\ o >= 20 /\ jobcnt \in Nat \ {0}
  BY StageAssumption DEF o
<1>1. CASE p \in 1 .. 15
  <2> HIDE DEF o
  <2>1. /\ \A l \in AllLetters : n = random(l) => p = Place(l)
        /\ \A d \in 1 .. 3 : n = jrandom(d) => p = 5 + d
        /\ \A l \in AllLetters : \A J \in 1 .. jobcnt : n # randomJ(l, J)
        /\ \A l \in AllLetters : n # span(l) /\ n # ndxarr(l)
        /\ n = ntp("e") => p = 13
        /\ n = ntp("i") => p = 14
        /\ n = lasti => p = 9 /\ m.istp # 0
        /\ n # cntloopNode(m)
        /\ \A l \in AllLetters : n[2] = l => p >= Place(l)
    <3>1. At15(m, p, n)
      BY <1>1, Writers15
    <3> QED BY <3>1 DEF At15
  <2>2. n # span("a") /\ n # span("b") /\ n # span("e")
    BY <2>1 DEF AllLetters
  <2>3. \A d \in {1, 2, 3} : n = jrandom(d) => p = 5 + d
    BY <2>1
  <2>4. /\ n = jrandom(1) => p = 6
        /\ n = jrandom(2) => p = 7
        /\ n = jrandom(3) => p = 8
    BY <2>3
  <2>5. p <= o
    BY <1>0, <1>1
  <2>6. p <= o + 12 /\ p <= o + 13 /\ p <= o + 15
    BY <1>0, <2>5
  <2> QED BY <2>1, <2>2, <2>4, <2>6 DEF WriterOf
<1>2. CASE \E J \in 1 .. jobcnt, k \in 1 .. 5 : p = 15 + 5 * (J - 1) + k
  <2>1. PICK H \in 1 .. jobcnt, k \in 1 .. 5 : p = 15 + 5 * (H - 1) + k
    BY <1>2
  <2>2. p <= o /\ p >= 16
    BY <1>0, <2>1 DEF o
  <2>3. \A l \in AllLetters : Place(l) \in 1 .. 5
    BY DEF Place
  <2> HIDE DEF o
  <2>4. /\ \A l \in AllLetters : n \notin {random(l), jrandom(1), jrandom(2), jrandom(3), span(l), ndxarr(l), ntp(l)}
        /\ n \notin {lasti, cntloopNode(m)}
    <3>1. AtRound(m, H, k, n)
      BY <2>1, WritersRounds
    <3> QED BY <3>1 DEF AtRound
  <2>5. \A l \in AllLetters, J \in 1 .. jobcnt : n = randomJ(l, J) => p = 15 + 5 * (J - 1) + Place(l)
    <3>1. n = BodyOf[m][15 + 5 * (H - 1) + k].node
      BY <2>1
    <3>2. \A l \in AllLetters, J \in 1 .. jobcnt : n = randomJ(l, J) => J = H /\ k = Place(l)
      <4>1. AtRound(m, H, k, n)
        BY <3>1, WritersRounds
      <4> QED BY <4>1, Zenon DEF AtRound
    <3> QED BY <2>1, <3>2, Zenon
  <2>6. "a" \in AllLetters /\ "b" \in AllLetters /\ "c" \in AllLetters /\ "e" \in AllLetters /\ "i" \in AllLetters
    BY DEF AllLetters
  <2> QED BY <1>0, <2>2, <2>3, <2>4, <2>5, <2>6 DEF WriterOf
<1>3. CASE \E k \in 1 .. 27 : p = o + k
  <2>1. PICK k \in 1 .. 27 : p = o + k
    BY <1>3
  <2>2. \A l \in AllLetters : Place(l) \in 1 .. 5
    BY DEF Place
  <2> HIDE DEF o
  <2>3. n = BodyOf[m][o + k].node
    BY <2>1
  <2>4. /\ \A l \in AllLetters : n # random(l)
        /\ n = jrandom(1) => k = 6
        /\ n = jrandom(2) => k = 7
        /\ n # jrandom(3)
        /\ \A l \in AllLetters, J \in 1 .. jobcnt :
              n = randomJ(l, J) => J = 1 /\ (k = Place(l) \/ (l = "a" /\ k = 11) \/ (l = "b" /\ k = 14))
        /\ n = span("a") => k \in {8, 19}
        /\ n = span("e") => k \in {9, 18, 20}
        /\ n = span("b") => k \in {10, 21}
        /\ \A l \in AllLetters : n = ndxarr(l) => k = 21 + Place(l)
        /\ n = ntp("a") => k = 12
        /\ n = ntp("b") => k \in {13, 16}
        /\ n = ntp("c") => k = 15
        /\ n # ntp("e") /\ n # ntp("i")
        /\ n = lasti => k = 27 /\ m.istp = 0
        /\ n = cntloopNode(m) => k = 17
    <3>1. AtLater(m, k, n)
      BY <2>3, Writers27
    <3> QED BY <3>1, Zenon DEF AtLater
  <2>5. \A l \in AllLetters : p >= Place(l)
    BY <1>0, <2>1, <2>2
  <2>6. \A l \in AllLetters, J \in 1 .. jobcnt :
           n = randomJ(l, J) =>
              \/ J = 1 /\ p = o + Place(l)
              \/ J = 1 /\ l = "a" /\ p = o + 11
              \/ J = 1 /\ l = "b" /\ p = o + 14
    BY <2>1, <2>4
  <2>7. \A l \in AllLetters : n = ndxarr(l) => p = o + 21 + Place(l)
    BY <1>0, <2>1, <2>2, <2>4
  <2> QED BY <1>0, <2>1, <2>4, <2>5, <2>6, <2>7 DEF WriterOf
<1> QED BY <1>1, <1>2, <1>3, SlotCases

LEMMA LeastNat ==
  ASSUME NEW T, T \subseteq Nat, T # {}
  PROVE  \E x \in T : \A y \in T : x <= y
<1> DEFINE R == OpToRel(<, Nat)
<1>1. IsWellFoundedOn(R, Nat)
  BY NatLessThanWellFounded
<1>2. \A x, y \in Nat : <<x, y>> \in R <=> x < y
  BY DEF OpToRel
<1> HIDE DEF R
<1>3. PICK x \in T : \A y \in T : ~(<<y, x>> \in R)
  BY <1>1, WFMin
<1>4. \A y \in T : ~ (y < x)
  BY <1>2, <1>3
<1> QED BY <1>4

LEMMA LastWriteIs ==
  ASSUME NEW s, NEW k \in Nat, NEW n, NEW p \in 1 .. k, s[p].node = n,
         \A q \in 1 .. k : q > p => s[q].node # n
  PROVE  LastWrite(s, k, n) = s[p].value
<1> DEFINE w == {q \in 1 .. k : s[q].node = n}
<1>1. p \in w /\ \A q \in w : q <= p
  OBVIOUS
<1>2. \A x \in w : (\A q \in w : q <= x) => x = p
  BY <1>1
<1>3. (CHOOSE x \in w : \A q \in w : q <= x) = p
  BY <1>1, <1>2
<1> QED BY <1>1, <1>3 DEF LastWrite

LEMMA NoWrite ==
  ASSUME NEW s, NEW k \in Nat, NEW n, \A q \in 1 .. k : s[q].node # n
  PROVE  LastWrite(s, k, n) = "keep"
BY DEF LastWrite

LEMMA SomeWrite ==
  ASSUME NEW s, NEW k \in Nat, NEW n
  PROVE  \/ LastWrite(s, k, n) = "keep" /\ \A q \in 1 .. k : s[q].node # n
         \/ \E p \in 1 .. k : /\ s[p].node = n
                              /\ \A q \in 1 .. k : q > p => s[q].node # n
                              /\ LastWrite(s, k, n) = s[p].value
<1> DEFINE w == {q \in 1 .. k : s[q].node = n}
<1>1. CASE w = {}
  BY <1>1, NoWrite
<1>2. CASE w # {}
  <2>1. w \in SUBSET Int /\ \A q \in w : q <= k
    OBVIOUS
  <2>2. \E p \in w : \A q \in w : q <= p
    <3> DEFINE v == {k - q : q \in w}
    <3>0. v \subseteq Nat /\ v # {}
      BY <1>2, <2>1
    <3> HIDE DEF w
    <3>1. PICK x \in v : \A y \in v : x <= y
      BY <3>0, LeastNat
    <3>2. PICK p \in w : x = k - p
      BY <3>1
    <3>3. \A q \in w : k - p <= k - q
      BY <3>1, <3>2
    <3> QED BY <2>1, <3>2, <3>3
  <2>3. PICK p \in w : \A q \in w : q <= p
    BY <2>2
  <2>4. LastWrite(s, k, n) = s[p].value
    BY <2>3, LastWriteIs
  <2> QED BY <2>3, <2>4
<1> QED BY <1>1, <1>2

-----------------------------------------------------------------------------
(* What the first k updates of the body make of a node *)

Net(m, k, n) == LastWrite(BodyOf[m], k, n)

LEMMA Written ==
  ASSUME NEW m \in Modes, NEW k \in 0 .. LenOf(m), NEW n, NEW v, NEW p \in 1 .. k,
         Writes(m, p, n, v),
         \A q \in 1 .. LenOf(m) : BodyOf[m][q].node = n => q <= p \/ q > k
  PROVE  Net(m, k, n) = v
<1>1. k \in Nat /\ LenOf(m) \in Nat
  BY BodyStages, StageAssumption DEF o
<1>2. \A q \in 1 .. k : q > p => BodyOf[m][q].node # n
  BY <1>1
<1>3. BodyOf[m][p].node = n /\ BodyOf[m][p].value = v
  BY DEF Writes
<1> QED BY <1>1, <1>2, <1>3, LastWriteIs DEF Net

LEMMA Unwritten ==
  ASSUME NEW m \in Modes, NEW k \in 0 .. LenOf(m), NEW n,
         \A q \in 1 .. LenOf(m) : BodyOf[m][q].node = n => q > k
  PROVE  Net(m, k, n) = "keep"
<1>1. k \in Nat /\ LenOf(m) \in Nat
  BY BodyStages, StageAssumption DEF o
<1>2. \A q \in 1 .. k : BodyOf[m][q].node # n
  BY <1>1
<1> QED BY <1>1, <1>2, NoWrite DEF Net

LEMMA OneWriter ==
  ASSUME NEW m \in Modes, NEW k \in 0 .. LenOf(m), NEW n, NEW v, NEW p \in 1 .. LenOf(m),
         Writes(m, p, n, v),
         \A q \in 1 .. LenOf(m) : BodyOf[m][q].node = n => q = p
  PROVE  Net(m, k, n) = IF p <= k THEN v ELSE "keep"
<1>1. k \in Nat /\ LenOf(m) \in Nat
  BY BodyStages, StageAssumption DEF o
<1>2. CASE p <= k
  <2>1. p \in 1 .. k /\ \A q \in 1 .. LenOf(m) : BodyOf[m][q].node = n => q <= p \/ q > k
    BY <1>1, <1>2
  <2> QED BY <1>2, <2>1, Written
<1>3. CASE ~(p <= k)
  <2>1. \A q \in 1 .. LenOf(m) : BodyOf[m][q].node = n => q > k
    BY <1>1, <1>3
  <2> QED BY <1>3, <2>1, Unwritten
<1> QED BY <1>2, <1>3

LEMMA Sizes == o \in Nat /\ o >= 20 /\ jobcnt \in Nat \ {0} /\ \A l \in AllLetters : Place(l) \in 1 .. 5
BY StageAssumption DEF o, Place

LEMMA EffectOnce ==
  ASSUME NEW m \in Modes, NEW k \in 0 .. LenOf(m)
  PROVE  /\ \A l \in AllLetters : Net(m, k, random(l)) = IF Place(l) <= k THEN "val" ELSE "keep"
         /\ \A l \in AllLetters : Net(m, k, ndxarr(l)) = IF o + 21 + Place(l) <= k THEN "val" ELSE "keep"
         /\ Net(m, k, jrandom(3)) = IF 8 <= k THEN "val" ELSE "keep"
         /\ Net(m, k, ntp("e")) = IF 13 <= k THEN "val" ELSE "keep"
         /\ Net(m, k, ntp("i")) = IF 14 <= k THEN "val" ELSE "keep"
         /\ Net(m, k, lasti) = IF (IF m.istp = 0 THEN o + 27 ELSE 9) <= k THEN "val" ELSE "keep"
<1>1. LenOf(m) = o + 27
  BY BodyStages
<1>2. \A q \in 1 .. LenOf(m) : WriterOf(m, q, BodyOf[m][q].node)
  BY OnlyWriters
<1>3. ASSUME NEW l \in AllLetters
      PROVE  Net(m, k, random(l)) = IF Place(l) <= k THEN "val" ELSE "keep"
  <2>1. \A q \in 1 .. LenOf(m) : BodyOf[m][q].node = random(l) => q = Place(l)
    BY <1>2, Zenon DEF WriterOf
  <2>2. Writes(m, Place(l), random(l), "val")
    BY StageWrites DEF Place, AllLetters
  <2>3. Place(l) \in 1 .. LenOf(m)
    BY <1>1, Sizes
  <2> QED BY <2>1, <2>2, <2>3, OneWriter
<1>4. ASSUME NEW l \in AllLetters
      PROVE  Net(m, k, ndxarr(l)) = IF o + 21 + Place(l) <= k THEN "val" ELSE "keep"
  <2>1. \A q \in 1 .. LenOf(m) : BodyOf[m][q].node = ndxarr(l) => q = o + 21 + Place(l)
    BY <1>2, Zenon DEF WriterOf
  <2>2. Writes(m, o + 21 + Place(l), ndxarr(l), "val")
    <3>1. /\ Writes(m, o + 22, ndxarr("a"), "val") /\ Writes(m, o + 23, ndxarr("b"), "val")
          /\ Writes(m, o + 24, ndxarr("c"), "val") /\ Writes(m, o + 25, ndxarr("e"), "val")
          /\ Writes(m, o + 26, ndxarr("i"), "val")
      BY LaterWrites, Zenon
    <3> HIDE DEF o
    <3> QED BY <3>1, Sizes DEF Place, AllLetters
  <2>3. o + 21 + Place(l) \in 1 .. LenOf(m)
    BY <1>1, Sizes
  <2> QED BY <2>1, <2>2, <2>3, OneWriter
<1>5. Net(m, k, jrandom(3)) = IF 8 <= k THEN "val" ELSE "keep"
  <2>1. \A q \in 1 .. LenOf(m) : BodyOf[m][q].node = jrandom(3) => q = 8
    BY <1>2, Zenon DEF WriterOf
  <2>2. Writes(m, 8, jrandom(3), "val")
    BY StageWrites
  <2>3. 8 \in 1 .. LenOf(m)
    BY <1>1, Sizes
  <2> QED BY <2>1, <2>2, <2>3, OneWriter
<1>6. Net(m, k, ntp("e")) = IF 13 <= k THEN "val" ELSE "keep"
  <2>1. \A q \in 1 .. LenOf(m) : BodyOf[m][q].node = ntp("e") => q = 13
    BY <1>2, Zenon DEF WriterOf
  <2>2. Writes(m, 13, ntp("e"), "val")
    BY StageWrites
  <2>3. 13 \in 1 .. LenOf(m)
    BY <1>1, Sizes
  <2> QED BY <2>1, <2>2, <2>3, OneWriter
<1>7. Net(m, k, ntp("i")) = IF 14 <= k THEN "val" ELSE "keep"
  <2>1. \A q \in 1 .. LenOf(m) : BodyOf[m][q].node = ntp("i") => q = 14
    BY <1>2, Zenon DEF WriterOf
  <2>2. Writes(m, 14, ntp("i"), "val")
    BY StageWrites
  <2>3. 14 \in 1 .. LenOf(m)
    BY <1>1, Sizes
  <2> QED BY <2>1, <2>2, <2>3, OneWriter
<1>8. Net(m, k, lasti) = IF (IF m.istp = 0 THEN o + 27 ELSE 9) <= k THEN "val" ELSE "keep"
  <2> DEFINE p == IF m.istp = 0 THEN o + 27 ELSE 9
  <2>1. \A q \in 1 .. LenOf(m) : BodyOf[m][q].node = lasti => q = p
    BY <1>2, Zenon DEF WriterOf
  <2>2. Writes(m, p, lasti, "val")
    BY StageWrites, LaterWrites
  <2>3. p \in 1 .. LenOf(m)
    BY <1>1, Sizes
  <2> HIDE DEF p
  <2>4. Net(m, k, lasti) = IF p <= k THEN "val" ELSE "keep"
    BY <2>1, <2>2, <2>3, OneWriter
  <2> QED BY <2>4 DEF p
<1> QED BY <1>3, <1>4, <1>5, <1>6, <1>7, <1>8

LEMMA EffectKilled ==
  ASSUME NEW m \in Modes, NEW k \in 0 .. LenOf(m)
  PROVE  /\ k >= o + 6 => Net(m, k, jrandom(1)) = "undef"
         /\ k >= o + 7 => Net(m, k, jrandom(2)) = "undef"
         /\ k >= o + 12 => Net(m, k, ntp("a")) = "undef"
         /\ k >= o + 16 => Net(m, k, ntp("b")) = "undef"
         /\ k >= o + 15 => Net(m, k, ntp("c")) = "undef"
<1>1. LenOf(m) = o + 27
  BY BodyStages
<1>2. \A q \in 1 .. LenOf(m) : WriterOf(m, q, BodyOf[m][q].node)
  BY OnlyWriters
<1>3. ASSUME k >= o + 6 PROVE Net(m, k, jrandom(1)) = "undef"
  <2>1. \A q \in 1 .. LenOf(m) : BodyOf[m][q].node = jrandom(1) => q \in {6, o + 6}
    BY <1>2, Zenon DEF WriterOf
  <2>2. Writes(m, o + 6, jrandom(1), "undef")
    BY LaterWrites
  <2>3. o + 6 \in 1 .. k
    BY <1>1, <1>3, Sizes
  <2>4. \A q \in 1 .. LenOf(m) : BodyOf[m][q].node = jrandom(1) => q <= o + 6 \/ q > k
    BY <2>1, Sizes
  <2> QED BY <2>2, <2>3, <2>4, Written
<1>4. ASSUME k >= o + 7 PROVE Net(m, k, jrandom(2)) = "undef"
  <2>1. \A q \in 1 .. LenOf(m) : BodyOf[m][q].node = jrandom(2) => q \in {7, o + 7}
    BY <1>2, Zenon DEF WriterOf
  <2>2. Writes(m, o + 7, jrandom(2), "undef")
    BY LaterWrites
  <2>3. o + 7 \in 1 .. k
    BY <1>1, <1>4, Sizes
  <2>4. \A q \in 1 .. LenOf(m) : BodyOf[m][q].node = jrandom(2) => q <= o + 7 \/ q > k
    BY <2>1, Sizes
  <2> QED BY <2>2, <2>3, <2>4, Written
<1>5. ASSUME k >= o + 12 PROVE Net(m, k, ntp("a")) = "undef"
  <2>1. \A q \in 1 .. LenOf(m) : BodyOf[m][q].node = ntp("a") => q <= o + 12
    BY <1>2, Zenon DEF WriterOf
  <2>2. Writes(m, o + 12, ntp("a"), "undef")
    BY LaterWrites
  <2>3. o + 12 \in 1 .. k
    BY <1>1, <1>5, Sizes
  <2> QED BY <2>1, <2>2, <2>3, Written
<1>6. ASSUME k >= o + 15 PROVE Net(m, k, ntp("c")) = "undef"
  <2>1. \A q \in 1 .. LenOf(m) : BodyOf[m][q].node = ntp("c") => q <= o + 15
    BY <1>2, Zenon DEF WriterOf
  <2>2. Writes(m, o + 15, ntp("c"), "undef")
    BY LaterWrites
  <2>3. o + 15 \in 1 .. k
    BY <1>1, <1>6, Sizes
  <2> QED BY <2>1, <2>2, <2>3, Written
<1>7. ASSUME k >= o + 16 PROVE Net(m, k, ntp("b")) = "undef"
  <2>1. \A q \in 1 .. LenOf(m) : BodyOf[m][q].node = ntp("b") => q <= o + 13 \/ q = o + 16
    BY <1>2, Zenon DEF WriterOf
  <2>2. Writes(m, o + 16, bntpMAX(m), "undef") /\ Writes(m, o + 13, ntp("b"), "undef")
    BY LaterWrites
  <2>3. o + 13 \in 1 .. k /\ o + 16 \in 1 .. k /\ o + 16 \in 1 .. LenOf(m)
    BY <1>1, <1>7, Sizes
  <2>4. CASE BodyOf[m][o + 16].node = ntp("b")
    <3>1. Writes(m, o + 16, ntp("b"), "undef")
      BY <2>2, <2>4 DEF Writes
    <3>2. \A q \in 1 .. LenOf(m) : BodyOf[m][q].node = ntp("b") => q <= o + 16 \/ q > k
      BY <2>1, Sizes
    <3> QED BY <2>3, <3>1, <3>2, Written
  <2>5. CASE BodyOf[m][o + 16].node # ntp("b")
    <3>1. \A q \in 1 .. LenOf(m) : BodyOf[m][q].node = ntp("b") => q <= o + 13 \/ q > k
      BY <2>1, <2>5
    <3> QED BY <2>2, <2>3, <3>1, Written
  <2> QED BY <2>4, <2>5
<1> QED BY <1>3, <1>4, <1>5, <1>6, <1>7

\* Where the round of Stage 4 for J updates region l.
RoundAt(l, J) == 15 + 5 * (J - 1) + Place(l)

LEMMA RoundSizes ==
  ASSUME NEW l \in AllLetters, NEW J \in 1 .. jobcnt
  PROVE  /\ RoundAt(l, J) \in 16 .. o
         /\ RoundAt(l, J) < o + Place(l)
         /\ \A H \in 1 .. jobcnt : H < J => RoundAt(l, H) < RoundAt(l, J)
         /\ RoundAt(l, 1) = 15 + Place(l)
BY Sizes DEF RoundAt, o

LEMMA EffectRounds ==
  ASSUME NEW m \in Modes, NEW k \in 0 .. LenOf(m), NEW l \in AllLetters, NEW J \in 1 .. jobcnt
  PROVE  Net(m, k, randomJ(l, J)) =
            IF RoundAt(l, J) > k THEN "keep"
            ELSE IF J = 1 /\ o + Place(l) <= k THEN "undef" ELSE "val"
<1>1. LenOf(m) = o + 27 /\ o \in Nat /\ Place(l) \in 1 .. 5
  BY BodyStages, Sizes
<1>2. \A q \in 1 .. LenOf(m) :
         BodyOf[m][q].node = randomJ(l, J) =>
            \/ q = RoundAt(l, J)
            \/ J = 1 /\ q = o + Place(l)
            \/ J = 1 /\ l = "a" /\ q = o + 11
            \/ J = 1 /\ l = "b" /\ q = o + 14
  <2>1. \A q \in 1 .. LenOf(m) : WriterOf(m, q, BodyOf[m][q].node)
    BY OnlyWriters
  <2>2. SUFFICES ASSUME NEW q \in 1 .. LenOf(m), BodyOf[m][q].node = randomJ(l, J)
                 PROVE  \/ q = RoundAt(l, J)
                        \/ J = 1 /\ q = o + Place(l)
                        \/ J = 1 /\ l = "a" /\ q = o + 11
                        \/ J = 1 /\ l = "b" /\ q = o + 14
    BY Zenon
  <2>3. WriterOf(m, q, randomJ(l, J))
    BY <2>1, <2>2, Zenon
  <2> QED BY <2>3, ZenonT(60) DEF WriterOf, RoundAt
<1>3. RoundAt(l, J) \in 1 .. o /\ RoundAt(l, J) < o + Place(l)
  BY RoundSizes, <1>1
<1>4. Writes(m, RoundAt(l, J), randomJ(l, J), "val")
  BY RoundWrites DEF RoundAt, Place, AllLetters
<1> HIDE DEF o
<1>5. CASE RoundAt(l, J) > k
  <2>1. \A q \in 1 .. LenOf(m) : BodyOf[m][q].node = randomJ(l, J) => q > k
    BY <1>1, <1>2, <1>3, <1>5
  <2> QED BY <1>5, <2>1, Unwritten
<1>6. CASE RoundAt(l, J) <= k /\ ~(J = 1 /\ o + Place(l) <= k)
  <2>1. \A q \in 1 .. LenOf(m) : BodyOf[m][q].node = randomJ(l, J) => q <= RoundAt(l, J) \/ q > k
    BY <1>1, <1>2, <1>3, <1>6
  <2>2. RoundAt(l, J) \in 1 .. k
    BY <1>1, <1>3, <1>6
  <2>3. Net(m, k, randomJ(l, J)) = "val"
    BY <1>4, <2>1, <2>2, Written
  <2> QED BY <1>1, <1>3, <1>6, <2>3
<1>7. CASE RoundAt(l, J) <= k /\ J = 1 /\ o + Place(l) <= k
  <2> SUFFICES Net(m, k, randomJ(l, J)) = "undef"
    BY <1>1, <1>3, <1>7
  <2>0. /\ Writes(m, o + 1, randomJ("a", 1), "undef") /\ Writes(m, o + 2, randomJ("b", 1), "undef")
        /\ Writes(m, o + 3, randomJ("c", 1), "undef") /\ Writes(m, o + 4, randomJ("e", 1), "undef")
        /\ Writes(m, o + 5, randomJ("i", 1), "undef")
        /\ Writes(m, o + 11, randomJ("a", 1), "undef") /\ Writes(m, o + 14, randomJ("b", 1), "undef")
    BY LaterWrites, Zenon
  <2>1. Writes(m, o + Place(l), randomJ(l, J), "undef")
    BY <1>7, <2>0 DEF Place, AllLetters
  <2>2. ASSUME NEW p \in {o + Place(l), o + 11, o + 14}, p <= k, Writes(m, p, randomJ(l, J), "undef"),
               \A q \in 1 .. LenOf(m) : BodyOf[m][q].node = randomJ(l, J) => q <= p \/ q > k
        PROVE  Net(m, k, randomJ(l, J)) = "undef"
    <3>1. p \in 1 .. k
      BY <1>1, <2>2
    <3> QED BY <2>2, <3>1, Written
  <2>3. CASE l = "a" /\ o + 11 <= k
    <3>1. Writes(m, o + 11, randomJ(l, J), "undef")
      BY <1>7, <2>0, <2>3
    <3>2. \A q \in 1 .. LenOf(m) : BodyOf[m][q].node = randomJ(l, J) => q <= o + 11 \/ q > k
      BY <1>1, <1>2, <1>3, <2>3
    <3> QED BY <2>2, <2>3, <3>1, <3>2
  <2>4. CASE l = "b" /\ o + 14 <= k
    <3>1. Writes(m, o + 14, randomJ(l, J), "undef")
      BY <1>7, <2>0, <2>4
    <3>2. \A q \in 1 .. LenOf(m) : BodyOf[m][q].node = randomJ(l, J) => q <= o + 14 \/ q > k
      BY <1>1, <1>2, <1>3, <2>4
    <3> QED BY <2>2, <2>4, <3>1, <3>2
  <2>5. CASE ~(l = "a" /\ o + 11 <= k) /\ ~(l = "b" /\ o + 14 <= k)
    <3>2. \A q \in 1 .. LenOf(m) : BodyOf[m][q].node = randomJ(l, J) => q <= o + Place(l) \/ q > k
      BY <1>1, <1>2, <1>3, <2>5
    <3> QED BY <1>7, <2>1, <2>2, <3>2
  <2> QED BY <2>3, <2>4, <2>5
<1> QED BY <1>1, <1>3, <1>5, <1>6, <1>7

\* Where Stage 7 and Stage 10 set ^[abe]span, and where the latter has begun to.
Span7(l) == o + (IF l = "a" THEN 8 ELSE IF l = "e" THEN 9 ELSE 10)
Span10(l) == o + (IF l = "a" THEN 19 ELSE IF l = "e" THEN 20 ELSE 21)
Span10Begins(l) == o + (IF l = "a" THEN 19 ELSE IF l = "e" THEN 18 ELSE 21)

LEMMA EffectSpan ==
  ASSUME NEW m \in Modes, NEW k \in 0 .. LenOf(m), NEW l \in {"a", "b", "e"}
  PROVE  /\ k < Span7(l) => Net(m, k, span(l)) = "keep"
         /\ Span7(l) <= k /\ k < Span10Begins(l) => Net(m, k, span(l)) = "stage7"
         /\ Span10(l) <= k => Net(m, k, span(l)) = "stage10"
<1>1. LenOf(m) = o + 27 /\ o \in Nat
  BY BodyStages, Sizes
<1>2. \A q \in 1 .. LenOf(m) :
         BodyOf[m][q].node = span(l) => q \in {Span7(l), Span10Begins(l), Span10(l)}
  <2>1. \A q \in 1 .. LenOf(m) : WriterOf(m, q, BodyOf[m][q].node)
    BY OnlyWriters
  <2>2. \A q \in 1 .. LenOf(m) :
           /\ BodyOf[m][q].node = span("a") => q \in {o + 8, o + 19}
           /\ BodyOf[m][q].node = span("e") => q \in {o + 9, o + 18, o + 20}
           /\ BodyOf[m][q].node = span("b") => q \in {o + 10, o + 21}
    BY <2>1, Zenon DEF WriterOf
  <2> HIDE DEF o
  <2> QED BY <2>2 DEF Span7, Span10, Span10Begins
<1>3. Writes(m, Span7(l), span(l), "stage7") /\ Writes(m, Span10(l), span(l), "stage10")
  <2>1. /\ Writes(m, o + 8, span("a"), "stage7") /\ Writes(m, o + 9, span("e"), "stage7")
        /\ Writes(m, o + 10, span("b"), "stage7") /\ Writes(m, o + 19, span("a"), "stage10")
        /\ Writes(m, o + 20, span("e"), "stage10") /\ Writes(m, o + 21, span("b"), "stage10")
    BY LaterWrites, Zenon
  <2> HIDE DEF o
  <2> QED BY <2>1 DEF Span7, Span10
<1>4. /\ Span7(l) \in 1 .. LenOf(m) /\ Span10(l) \in 1 .. LenOf(m) /\ Span10Begins(l) \in 1 .. LenOf(m)
      /\ Span7(l) < Span10Begins(l) /\ Span10Begins(l) <= Span10(l)
  BY <1>1 DEF Span7, Span10, Span10Begins
<1> HIDE DEF o
<1>5. ASSUME k < Span7(l) PROVE Net(m, k, span(l)) = "keep"
  <2>1. \A q \in 1 .. LenOf(m) : BodyOf[m][q].node = span(l) => q > k
    BY <1>1, <1>2, <1>4, <1>5
  <2> QED BY <2>1, Unwritten
<1>6. ASSUME Span7(l) <= k /\ k < Span10Begins(l) PROVE Net(m, k, span(l)) = "stage7"
  <2>1. \A q \in 1 .. LenOf(m) : BodyOf[m][q].node = span(l) => q <= Span7(l) \/ q > k
    BY <1>1, <1>2, <1>4, <1>6
  <2>2. Span7(l) \in 1 .. k
    BY <1>1, <1>4, <1>6
  <2> QED BY <1>3, <2>1, <2>2, Written
<1>7. ASSUME Span10(l) <= k PROVE Net(m, k, span(l)) = "stage10"
  <2>1. \A q \in 1 .. LenOf(m) : BodyOf[m][q].node = span(l) => q <= Span10(l) \/ q > k
    BY <1>1, <1>2, <1>4, <1>7
  <2>2. Span10(l) \in 1 .. k
    BY <1>1, <1>4, <1>7
  <2> QED BY <1>3, <2>1, <2>2, Written
<1> QED BY <1>5, <1>6, <1>7

LEMMA EffectNone ==
  ASSUME NEW m \in Modes, NEW k \in 0 .. LenOf(m), NEW n, NEW l \in AllLetters, n[2] = l, k < Place(l)
  PROVE  Net(m, k, n) = "keep"
<1>1. \A q \in 1 .. LenOf(m) : BodyOf[m][q].node = n => q >= Place(l)
  <2>1. \A q \in 1 .. LenOf(m) : WriterOf(m, q, BodyOf[m][q].node)
    BY OnlyWriters
  <2> QED BY <2>1 DEF WriterOf
<1>2. \A q \in 1 .. LenOf(m) : BodyOf[m][q].node = n => q > k
  BY <1>1, Sizes
<1> QED BY <1>2, Unwritten

LEMMA EffectType ==
  ASSUME NEW m \in Modes, NEW k \in 0 .. LenOf(m), NEW n
  PROVE  Net(m, k, n) \in Values \cup {"keep"}
<1>1. k \in Nat /\ LenOf(m) \in Nat
  BY BodyStages, StageAssumption DEF o
<1>2. \A p \in 1 .. k : BodyOf[m][p].value \in Values
  <2>1. BodyOf[m] \in Seq(Slot) /\ LenOf(m) = Len(BodyOf[m])
    BY BodyStages DEF LenOf
  <2>2. \A p \in 1 .. LenOf(m) : BodyOf[m][p] \in Slot
    BY <2>1, ElementOfSeq
  <2> QED BY <1>1, <2>2 DEF Slot
<1>3. \/ LastWrite(BodyOf[m], k, n) = "keep"
      \/ \E p \in 1 .. k : LastWrite(BodyOf[m], k, n) = BodyOf[m][p].value
  BY <1>1, SomeWrite
<1> QED BY <1>2, <1>3 DEF Net

-----------------------------------------------------------------------------
(* The nodes of an iteration after updates *)

LEMMA NodesAre ==
  ASSUME NEW m \in Modes
  PROVE  /\ "a" \in m.letters /\ "i" \in m.letters /\ m.letters \subseteq AllLetters
         /\ m.istp \in {0, 1, 2} /\ m.crash \in BOOLEAN
         /\ \A l \in m.letters : random(l) \in Nodes(m) /\ ntp(l) \in Nodes(m) /\ ndxarr(l) \in Nodes(m)
         /\ \A l \in m.letters, J \in 1 .. jobcnt : randomJ(l, J) \in Nodes(m)
         /\ \A l \in m.letters \cap {"a", "b", "e"} : span(l) \in Nodes(m)
         /\ jrandom(1) \in Nodes(m) /\ jrandom(2) \in Nodes(m) /\ jrandom(3) \in Nodes(m)
         /\ lasti \in Nodes(m)
         /\ \A n \in Nodes(m) : n[2] \in m.letters
<1>1. /\ "a" \in m.letters /\ "i" \in m.letters /\ m.letters \subseteq AllLetters
      /\ m.istp \in {0, 1, 2} /\ m.crash \in BOOLEAN
  BY StageAssumption
<1>2. \A n \in Nodes(m) : n[2] \in m.letters
  BY <1>1 DEF Nodes, random, randomJ, jrandom, ntp, bntpMAX, span, SpanLetters, ndxarr, lasti
<1>3. /\ \A l \in m.letters : random(l) \in Nodes(m) /\ ntp(l) \in Nodes(m) /\ ndxarr(l) \in Nodes(m)
      /\ \A l \in m.letters, J \in 1 .. jobcnt : randomJ(l, J) \in Nodes(m)
      /\ \A l \in m.letters \cap {"a", "b", "e"} : span(l) \in Nodes(m)
      /\ lasti \in Nodes(m)
  BY DEF Nodes, SpanLetters
<1>4. jrandom(1) \in Nodes(m) /\ jrandom(2) \in Nodes(m) /\ jrandom(3) \in Nodes(m)
  <2>1. 1 \in 1 .. 3 /\ 2 \in 1 .. 3 /\ 3 \in 1 .. 3
    OBVIOUS
  <2>2. \A d \in 1 .. 3 : jrandom(d) \in {jrandom(x) : x \in 1 .. 3}
    OBVIOUS
  <2> QED BY <2>1, <2>2 DEF Nodes
<1> QED BY <1>1, <1>2, <1>3, <1>4

LEMMA NodeLetters ==
  ASSUME NEW l, NEW J
  PROVE  /\ random(l)[2] = l /\ ntp(l)[2] = l /\ ndxarr(l)[2] = l /\ randomJ(l, J)[2] = l /\ span(l)[2] = l
         /\ jrandom(J)[2] = "i" /\ lasti[2] = "i"
BY DEF random, ntp, ndxarr, randomJ, span, jrandom, lasti

LEMMA AfterIs ==
  ASSUME NEW m \in Modes, NEW it, NEW nodes \in [Nodes(m) -> Values], NEW k \in [m.letters -> 0 .. LenOf(m)]
  PROVE  /\ After(m, it, nodes, k) \in [Nodes(m) -> Values]
         /\ \A n \in Nodes(m) : After(m, it, nodes, k)[n] = Over(Leaves(m, it, n, Net(m, k[n[2]], n)), nodes[n])
<1>1. \A n \in Nodes(m) : n[2] \in m.letters /\ k[n[2]] \in 0 .. LenOf(m)
  BY NodesAre
<1>2. \A i \in 0 .. LenOf(m), n \in Nodes(m) : NetEffect[m][i][n] = Net(m, i, n)
  BY DEF NetEffect, Net
<1>3. \A n \in Nodes(m) : NetEffect[m][k[n[2]]][n] = Net(m, k[n[2]], n)
  BY <1>1, <1>2
<1>4. After(m, it, nodes, k)
         = [n \in Nodes(m) |-> Over(Leaves(m, it, n, NetEffect[m][k[n[2]]][n]), nodes[n])]
  BY DEF After
<1>5. \A n \in Nodes(m) : Over(Leaves(m, it, n, Net(m, k[n[2]], n)), nodes[n]) \in Values
  <2>1. \A n \in Nodes(m) : Net(m, k[n[2]], n) \in Values \cup {"keep"}
    BY <1>1, EffectType
  <2>2. \A n \in Nodes(m), v \in Values \cup {"keep"} : Over(Leaves(m, it, n, v), nodes[n]) \in Values
    BY DEF Over, Leaves, Values
  <2> QED BY <2>1, <2>2
<1> QED BY <1>3, <1>4, <1>5

\* An iteration whose Stage 11 came through is complete, whatever there was before.
LEMMA Complete ==
  ASSUME NEW m \in Modes, NEW it, NEW nodes \in [Nodes(m) -> Values], NEW k \in [m.letters -> 0 .. LenOf(m)],
         \A l \in m.letters : k[l] >= o + 21 + Place(l)
  PROVE  compiter(m, it, After(m, it, nodes, k))
<1> DEFINE db == After(m, it, nodes, k)
<1>1. \A n \in Nodes(m) : db[n] = Over(Leaves(m, it, n, Net(m, k[n[2]], n)), nodes[n])
  BY AfterIs
<1>2. \A l \in m.letters : l \in AllLetters /\ k[l] \in 0 .. LenOf(m) /\ k[l] >= o + 22
  <2>1. LenOf(m) \in Nat
    BY BodyStages, Sizes
  <2>2. \A l \in m.letters : l \in AllLetters /\ k[l] \in 0 .. LenOf(m) /\ k[l] >= o + 21 + Place(l)
    BY NodesAre
  <2> HIDE DEF o
  <2> QED BY <2>1, <2>2, Sizes
<1> HIDE DEF db, o
<1>3. \A l \in m.letters : db[random(l)] = "val"
  <2> SUFFICES ASSUME NEW l \in m.letters PROVE db[random(l)] = "val"
    OBVIOUS
  <2>1. Net(m, k[l], random(l)) = "val"
    BY <1>2, EffectOnce, Sizes
  <2>2. db[random(l)] = Over(Leaves(m, it, random(l), Net(m, k[l], random(l))), nodes[random(l)])
    <3>1. random(l) \in Nodes(m) /\ random(l)[2] = l
      BY NodesAre, NodeLetters
    <3> QED BY <1>1, <3>1, Zenon
  <2> QED BY <2>1, <2>2 DEF Over, Leaves
<1>4. ~Defined(db, jrandom(1)) /\ ~Defined(db, jrandom(2)) /\ db[jrandom(3)] = "val"
  <2>1. "i" \in m.letters
    BY NodesAre
  <2>2. k["i"] >= o + 6 /\ k["i"] >= o + 7 /\ 8 <= k["i"]
    BY <1>2, <2>1, Sizes
  <2>3. Net(m, k["i"], jrandom(1)) = "undef" /\ Net(m, k["i"], jrandom(2)) = "undef" /\ Net(m, k["i"], jrandom(3)) = "val"
    BY <1>2, <2>1, <2>2, EffectOnce, EffectKilled
  <2>4. \A d \in {1, 2, 3} : db[jrandom(d)] = Over(Leaves(m, it, jrandom(d), Net(m, k["i"], jrandom(d))), nodes[jrandom(d)])
    <3>1. \A d \in {1, 2, 3} : jrandom(d) \in Nodes(m)
      BY NodesAre
    <3>2. \A d \in {1, 2, 3} : jrandom(d)[2] = "i"
      BY NodeLetters
    <3> QED BY <1>1, <3>1, <3>2
  <2> QED BY <2>3, <2>4 DEF Over, Leaves, Defined
<1>5. \A l \in m.letters, J \in 1 .. jobcnt : db[randomJ(l, J)] = IF J = 1 THEN "undef" ELSE "val"
  <2> SUFFICES ASSUME NEW l \in m.letters, NEW J \in 1 .. jobcnt
               PROVE  db[randomJ(l, J)] = IF J = 1 THEN "undef" ELSE "val"
    OBVIOUS
  <2>1. RoundAt(l, J) <= k[l] /\ o + Place(l) <= k[l] /\ RoundAt(l, J) \in Int
    <3>1. RoundAt(l, J) \in Int /\ RoundAt(l, J) <= o
      BY <1>2, RoundSizes, Sizes
    <3> QED BY <1>2, <3>1, Sizes
  <2>2. Net(m, k[l], randomJ(l, J)) = IF J = 1 THEN "undef" ELSE "val"
    <3>1. ~(RoundAt(l, J) > k[l])
      BY <1>2, <2>1
    <3> QED BY <1>2, <2>1, <3>1, EffectRounds
  <2>3. db[randomJ(l, J)] = Over(Leaves(m, it, randomJ(l, J), Net(m, k[l], randomJ(l, J))), nodes[randomJ(l, J)])
    <3>1. randomJ(l, J) \in Nodes(m) /\ randomJ(l, J)[2] = l
      BY NodesAre, NodeLetters
    <3> QED BY <1>1, <3>1
  <2> QED BY <2>2, <2>3 DEF Over, Leaves
<1>6. \A l \in m.letters \cap {"a", "b", "c"} : ~Defined(db, ntp(l))
  <2> SUFFICES ASSUME NEW l \in m.letters \cap {"a", "b", "c"} PROVE ~Defined(db, ntp(l))
    OBVIOUS
  <2>1. k[l] >= o + 12 /\ k[l] >= o + 15 /\ k[l] >= o + 16
    BY <1>2, Sizes
  <2>2. Net(m, k[l], ntp(l)) = "undef"
    BY <1>2, <2>1, EffectKilled
  <2>3. db[ntp(l)] = Over(Leaves(m, it, ntp(l), Net(m, k[l], ntp(l))), nodes[ntp(l)])
    <3>1. ntp(l) \in Nodes(m) /\ ntp(l)[2] = l
      BY NodesAre, NodeLetters
    <3> QED BY <1>1, <3>1, Zenon
  <2> QED BY <2>2, <2>3 DEF Over, Leaves, Defined
<1>7. \A l \in m.letters \cap {"e", "i"} : db[ntp(l)] = "val"
  <2> SUFFICES ASSUME NEW l \in m.letters \cap {"e", "i"} PROVE db[ntp(l)] = "val"
    OBVIOUS
  <2>1. 13 <= k[l] /\ 14 <= k[l]
    BY <1>2, Sizes
  <2>2. Net(m, k[l], ntp(l)) = "val"
    BY <1>2, <2>1, EffectOnce
  <2>3. db[ntp(l)] = Over(Leaves(m, it, ntp(l), Net(m, k[l], ntp(l))), nodes[ntp(l)])
    <3>1. ntp(l) \in Nodes(m) /\ ntp(l)[2] = l
      BY NodesAre, NodeLetters
    <3> QED BY <1>1, <3>1, Zenon
  <2> QED BY <2>2, <2>3 DEF Over, Leaves
<1>8. \A l \in SpanLetters(m) : l # "e" \/ it \notin m.piece0 => db[span(l)] = SpanValue(m, it)
  <2> SUFFICES ASSUME NEW l \in SpanLetters(m), l # "e" \/ it \notin m.piece0
               PROVE  db[span(l)] = SpanValue(m, it)
    OBVIOUS
  <2>0. l \in m.letters /\ l \in {"a", "b", "e"}
    BY DEF SpanLetters
  <2>1. Span10(l) <= k[l]
    BY <1>2, <2>0, Sizes DEF Span10
  <2>2. Net(m, k[l], span(l)) = "stage10"
    BY <1>2, <2>0, <2>1, EffectSpan
  <2>3. db[span(l)] = Over(Leaves(m, it, span(l), Net(m, k[l], span(l))), nodes[span(l)])
    BY <1>1, <2>0, NodesAre, NodeLetters
  <2>4. l # "e" => span(l) # span("e")
    BY DEF span
  <2> QED BY <2>2, <2>3, <2>4 DEF Over, Leaves, SpanValue
<1>9. \A l \in SpanLetters(m) \ {"e"} : db[span(l)] = SpanValue(m, it)
  BY <1>8
<1>10. "e" \in m.letters /\ it \notin m.piece0 => db[span("e")] = SpanValue(m, it)
  BY <1>8 DEF SpanLetters
<1> QED BY <1>3, <1>4, <1>5, <1>6, <1>7, <1>9, <1>10 DEF compiter, db

-----------------------------------------------------------------------------
(* An iteration that came back in part, with TP *)

LEMMA MaxIs ==
  ASSUME NEW n \in Nat, NEW T, T \subseteq 0 .. n, 0 \in T
  PROVE  Max(T) \in T /\ \A y \in T : y <= Max(T)
<1> DEFINE v == {n - q : q \in T}
<1>1. v \subseteq Nat /\ v # {}
  OBVIOUS
<1> HIDE DEF v
<1>2. PICK x \in v : \A y \in v : x <= y
  BY <1>1, LeastNat
<1>3. PICK p \in T : x = n - p
  BY <1>2 DEF v
<1>4. \A q \in T : n - p <= n - q
  BY <1>2, <1>3 DEF v
<1>5. \A q \in T : q <= p
  BY <1>3, <1>4
<1>6. \E z \in T : \A y \in T : z >= y
  BY <1>3, <1>5
<1>7. Max(T) \in T /\ \A y \in T : Max(T) >= y
  BY <1>6 DEF Max
<1> QED BY <1>7

\* The stages that several regions share came back in all of them or in none.
InStep(m, k) ==
    \A l \in m.letters :
        /\ Place(l) <= k[l] <=> 9 <= k["i"]
        /\ \A J \in 1 .. jobcnt : RoundAt(l, J) <= k[l] <=> RoundAt("a", J) <= k["a"]
        /\ o + Place(l) <= k[l] <=> o + 1 <= k["a"]
        /\ l \in {"a", "b", "e"} =>
              /\ Span7(l) <= k[l] <=> Span7("a") <= k["a"]
              /\ Span10Begins(l) <= k[l] <=> Span10("a") <= k["a"]
              /\ Span10(l) <= k[l] <=> Span10("a") <= k["a"]
        /\ o + 21 + Place(l) <= k[l] <=> o + 22 <= k["a"]

LEMMA CrashIter ==
  ASSUME NEW m \in Modes, m.istp = 1, NEW it, NEW nodes \in [Nodes(m) -> Values], \A n \in Nodes(m) : nodes[n] = "undef",
         NEW k \in [m.letters -> 0 .. LenOf(m)], InStep(m, k), 9 <= k["i"]
  PROVE  crashiter(m, After(m, it, nodes, k))
<1> DEFINE db == After(m, it, nodes, k)
<1>1. \A n \in Nodes(m) : db[n] = LET v == Leaves(m, it, n, Net(m, k[n[2]], n)) IN IF v = "keep" THEN "undef" ELSE v
  BY AfterIs DEF Over
<1>2. LenOf(m) \in Nat
  BY BodyStages, Sizes
<1>3. \A l \in m.letters : l \in AllLetters /\ k[l] \in 0 .. LenOf(m)
  BY NodesAre
<1>4. "a" \in m.letters /\ "i" \in m.letters
  BY NodesAre
<1> DEFINE complete == Defined(db, ndxarr("a"))
<1> HIDE DEF db, o
<1>5. complete <=> o + 22 <= k["a"]
  <2>1. Net(m, k["a"], ndxarr("a")) = IF o + 21 + Place("a") <= k["a"] THEN "val" ELSE "keep"
    BY <1>3, <1>4, EffectOnce
  <2>2. o + 21 + Place("a") = o + 22
    BY Sizes DEF Place
  <2>3. ndxarr("a") \in Nodes(m) /\ ndxarr("a")[2] = "a"
    BY <1>4, NodesAre, NodeLetters
  <2> QED BY <1>1, <2>1, <2>2, <2>3 DEF Defined, Leaves
<1>6. \A l \in m.letters : db[random(l)] = "val"
  <2> SUFFICES ASSUME NEW l \in m.letters PROVE db[random(l)] = "val"
    OBVIOUS
  <2>1. Net(m, k[l], random(l)) = "val"
    BY <1>3, EffectOnce DEF InStep
  <2>2. random(l) \in Nodes(m) /\ random(l)[2] = l
    BY NodesAre, NodeLetters
  <2> QED BY <1>1, <2>1, <2>2 DEF Leaves
<1>7. db[jrandom(3)] = "val"
  <2>1. Net(m, k["i"], jrandom(3)) = "val"
    <3>1. 8 <= k["i"]
      BY <1>2, <1>3, <1>4
    <3> QED BY <3>1, <1>3, <1>4, EffectOnce
  <2>2. jrandom(3) \in Nodes(m) /\ jrandom(3)[2] = "i"
    BY NodesAre, NodeLetters
  <2> QED BY <1>1, <2>1, <2>2 DEF Leaves
<1>8. CASE complete
  <2>1. compiter(m, it, db)
    <3>1. \A l \in m.letters : k[l] >= o + 21 + Place(l)
      BY <1>2, <1>3, <1>5, <1>8, Sizes DEF InStep
    <3> QED BY <3>1, Complete DEF db
  <2>2. \A l \in m.letters, J \in 1 .. jobcnt : db[randomJ(l, J)] = IF J = 1 THEN "undef" ELSE "val"
    BY <2>1 DEF compiter
  <2>3. ~Defined(db, jrandom(1)) /\ ~Defined(db, jrandom(2))
    BY <2>1 DEF compiter
  <2>4. \A l \in m.letters \cap {"a", "b", "c"} : ~Defined(db, ntp(l))
    BY <2>1 DEF compiter
  <2>5. \A l \in m.letters \cap {"e", "i"} : db[ntp(l)] = "val"
    BY <2>1 DEF compiter
  <2> QED BY <1>6, <1>7, <1>8, <2>2, <2>3, <2>4, <2>5, Zenon DEF crashiter, db
<1>9. CASE ~complete
  <2> DEFINE s5 == o + 1 <= k["a"]
             in(J) == RoundAt("a", J) <= k["a"]
  <2>1. ASSUME NEW l \in m.letters, NEW J \in 1 .. jobcnt
        PROVE  db[randomJ(l, J)] = IF ~in(J) THEN "undef" ELSE IF J = 1 /\ s5 THEN "undef" ELSE "val"
    <3>1. Net(m, k[l], randomJ(l, J)) =
             IF RoundAt(l, J) > k[l] THEN "keep" ELSE IF J = 1 /\ o + Place(l) <= k[l] THEN "undef" ELSE "val"
      BY <1>3, EffectRounds
    <3>2. (RoundAt(l, J) <= k[l] <=> in(J)) /\ (o + Place(l) <= k[l] <=> s5)
      BY DEF InStep
    <3>3. randomJ(l, J) \in Nodes(m) /\ randomJ(l, J)[2] = l
      BY NodesAre, NodeLetters
    <3>4. RoundAt(l, J) > k[l] <=> ~in(J)
      <4>1. RoundAt(l, J) \in Int /\ k[l] \in Int
        BY <1>2, <1>3, RoundSizes, Sizes
      <4> QED BY <3>2, <4>1
    <3> HIDE DEF s5, in
    <3>5. db[randomJ(l, J)] = LET v == Leaves(m, it, randomJ(l, J), Net(m, k[l], randomJ(l, J)))
                              IN  IF v = "keep" THEN "undef" ELSE v
      BY <1>1, <3>3
    <3> QED BY <3>1, <3>2, <3>4, <3>5 DEF Leaves
  <2> DEFINE D(l) == {J \in 1 .. jobcnt : Defined(db, randomJ(l, J))}
             jmax == zprevious(db, "a")
  <2>2. \A l \in m.letters : D(l) = {J \in 1 .. jobcnt : in(J) /\ ~(J = 1 /\ s5)}
    <3> HIDE DEF s5, in
    <3> QED BY <2>1 DEF Defined
  <2>3. \A l \in m.letters : zprevious(db, l) = jmax
    BY <1>4, <2>2 DEF zprevious
  <2>4. jmax \in {0} \cup D("a") /\ jmax \in 0 .. jobcnt
    <3>1. {0} \cup D("a") \subseteq 0 .. jobcnt /\ jobcnt \in Nat
      BY Sizes
    <3>2. Max({0} \cup D("a")) \in {0} \cup D("a")
      <4> HIDE DEF D
      <4> QED BY <3>1, MaxIs
    <3>3. jmax = Max({0} \cup D("a"))
      BY DEF zprevious
    <3> HIDE DEF D, jmax
    <3> QED BY <3>1, <3>2, <3>3
  <2>5. ASSUME NEW J \in 1 .. jmax PROVE J \in 1 .. jobcnt /\ in(J)
    <3>1. jmax \in D("a") /\ jmax \in 1 .. jobcnt /\ J \in 1 .. jobcnt /\ J <= jmax
      <4> HIDE DEF D, jmax
      <4> QED BY <2>4, Sizes
    <3>2. in(jmax)
      <4> HIDE DEF in, jmax
      <4> QED BY <1>4, <2>2, <3>1
    <3> HIDE DEF jmax
    <3>3. RoundAt("a", J) <= RoundAt("a", jmax) /\ RoundAt("a", J) \in Int /\ RoundAt("a", jmax) \in Int
      <4>1. "a" \in AllLetters
        BY <1>3, <1>4
      <4>2. J = jmax \/ J < jmax
        BY <3>1, Sizes
      <4>3. RoundAt("a", J) \in 16 .. o /\ RoundAt("a", jmax) \in 16 .. o
        BY <3>1, <4>1, RoundSizes
      <4>4. J < jmax => RoundAt("a", J) < RoundAt("a", jmax)
        BY <3>1, <4>1, RoundSizes
      <4> QED BY <4>2, <4>3, <4>4, Sizes
    <3>4. k["a"] \in Int
      BY <1>2, <1>3, <1>4
    <3> QED BY <3>1, <3>2, <3>3, <3>4
  <2>6. ASSUME NEW l \in m.letters, NEW J \in 1 .. jmax
        PROVE  db[randomJ(l, J)] = IF J = 1 /\ (complete \/ ~Defined(db, randomJ("a", 1))) THEN "undef" ELSE "val"
    <3>1. J \in 1 .. jobcnt /\ in(J)
      BY <2>5
    <3> HIDE DEF in, s5, jmax
    <3>2. db[randomJ(l, J)] = IF J = 1 /\ s5 THEN "undef" ELSE "val"
      BY <2>1, <3>1
    <3>3. J = 1 => db[randomJ("a", 1)] = IF s5 THEN "undef" ELSE "val"
      BY <1>4, <2>1, <3>1
    <3> QED BY <1>9, <3>2, <3>3 DEF Defined
  <2>7. ASSUME jmax # 0, NEW l \in m.letters \cap {"e", "i"} PROVE db[ntp(l)] = "val"
    <3>1. jmax \in 1 .. jmax
      <4> HIDE DEF jmax
      <4> QED BY <2>4, <2>7, Sizes
    <3>2. jmax \in 1 .. jobcnt /\ in(jmax)
      BY <2>5, <3>1
    <3> HIDE DEF jmax
    <3>3. RoundAt(l, jmax) <= k[l]
      BY <3>2 DEF InStep
    <3>4. RoundAt(l, jmax) \in 16 .. o
      BY <1>3, <3>2, RoundSizes
    <3>5. 13 <= k[l] /\ 14 <= k[l]
      BY <1>2, <1>3, <3>3, <3>4, Sizes
    <3>6. Net(m, k[l], ntp(l)) = "val"
      BY <1>3, <3>5, EffectOnce
    <3>7. ntp(l) \in Nodes(m) /\ ntp(l)[2] = l
      BY NodesAre, NodeLetters
    <3> QED BY <1>1, <3>6, <3>7 DEF Leaves
  <2>8. SpanOK(m, db)
    <3> DEFINE s7 == Span7("a") <= k["a"]
               s10 == Span10("a") <= k["a"]
               sv(l) == IF s10 THEN Leaves(m, it, span(l), "stage10") ELSE IF s7 THEN "stage7" ELSE "undef"
    <3>1. ASSUME NEW l \in m.letters \cap {"a", "b", "e"} PROVE db[span(l)] = sv(l)
      <4>1. /\ Span7(l) <= k[l] <=> s7
            /\ Span10Begins(l) <= k[l] <=> s10
            /\ Span10(l) <= k[l] <=> s10
        BY DEF InStep
      <4>2. /\ Span7(l) \in Int /\ Span10Begins(l) \in Int /\ Span10(l) \in Int /\ k[l] \in Int
            /\ Span7(l) < Span10Begins(l)
        BY <1>2, <1>3, Sizes DEF Span7, Span10, Span10Begins
      <4>3. span(l) \in Nodes(m) /\ span(l)[2] = l
        BY NodesAre, NodeLetters
      <4>4. /\ k[l] < Span7(l) => Net(m, k[l], span(l)) = "keep"
            /\ Span7(l) <= k[l] /\ k[l] < Span10Begins(l) => Net(m, k[l], span(l)) = "stage7"
            /\ Span10(l) <= k[l] => Net(m, k[l], span(l)) = "stage10"
        BY <1>3, EffectSpan
      <4> HIDE DEF s7, s10
      <4>5. db[span(l)] = LET v == Leaves(m, it, span(l), Net(m, k[l], span(l))) IN IF v = "keep" THEN "undef" ELSE v
        BY <1>1, <4>3
      <4>6. CASE s10
        BY <4>1, <4>4, <4>5, <4>6 DEF Leaves
      <4>7. CASE ~s10 /\ s7
        BY <4>1, <4>2, <4>4, <4>5, <4>7 DEF Leaves
      <4>8. CASE ~s10 /\ ~s7
        BY <4>1, <4>2, <4>4, <4>5, <4>8 DEF Leaves
      <4> QED BY <4>6, <4>7, <4>8
    <3>2. <<sv("a"), sv("e"), sv("b")>> \in SpanStates
      <4>1. span("a") # span("e") /\ span("b") # span("e")
        BY DEF span
      <4> HIDE DEF s7, s10
      <4>2. CASE s10 /\ it \in m.piece0
        <5>1. sv("a") = "stage7" /\ sv("e") = "undef" /\ sv("b") = "stage7"
          BY <4>1, <4>2 DEF Leaves
        <5> QED BY <5>1 DEF SpanStates
      <4>3. CASE ~(s10 /\ it \in m.piece0)
        <5>1. sv("a") = sv("e") /\ sv("b") = sv("e") /\ sv("e") \in {"stage10", "stage7", "undef"}
          BY <4>3 DEF Leaves
        <5> HIDE DEF sv
        <5> QED BY <5>1 DEF SpanStates
      <4> QED BY <4>2, <4>3
    <3> DEFINE t == <<sv("a"), sv("e"), sv("b")>>
    <3>4. t[1] = sv("a") /\ t[2] = sv("e") /\ t[3] = sv("b") /\ t \in SpanStates
      BY <3>2
    <3> HIDE DEF sv, t
    <3>3. /\ db[span("a")] = t[1]
          /\ "e" \in m.letters => db[span("e")] = t[2]
          /\ "b" \in m.letters => db[span("b")] = t[3]
      BY <1>4, <3>1, <3>4
    <3> QED BY <3>3, <3>4 DEF SpanOK
  <2> HIDE DEF jmax, complete
  <2> QED BY <1>6, <1>7, <1>9, <2>3, <2>6, <2>7, <2>8, Zenon DEF crashiter, db, complete, jmax
<1> QED BY <1>8, <1>9

-----------------------------------------------------------------------------
(* The iterations of a job *)

\* How much of iteration n a cut has, region by region.
Parts(m, cut, f, n) == [l \in m.letters |-> InIteration(m, cut[l], f, n)]

\* A recovery of one iteration that keeps the promises about fences.
Sound(m, k) ==
    /\ m.istp = 0 => \A l \in m.letters : o + 21 + Place(l) <= k[l] <=> o + 27 <= k["i"]
    /\ m.istp = 1 => InStep(m, k)
    /\ m.istp = 2 => \A l \in m.letters : o + 21 + Place(l) <= k[l] => 9 <= k["i"]
    /\ ~m.crash => \A l \in m.letters : 9 <= k["i"] => o + 21 + Place(l) <= k[l]

\* The iterations of a job of which ^lasti says last.
DbIs(m, dbs, last) ==
    /\ dbs \in [1 .. top -> [Nodes(m) -> Values]]
    /\ last \in 0 .. top
    /\ \A n \in 1 .. top :
          /\ Defined(dbs[n], lasti) <=> n <= last
          /\ n > last => \A l \in m.letters : ~Defined(dbs[n], ndxarr(l))
          /\ AllNdxarr(m, dbs[n]) => compiter(m, n, dbs[n])
          /\ (~m.crash \/ m.istp = 0) /\ n <= last => AllNdxarr(m, dbs[n])
          /\ m.crash /\ m.istp = 1 /\ n <= last => crashiter(m, dbs[n])
          /\ m.crash /\ m.istp = 1 /\ n > last => \A x \in Nodes(m) : dbs[n][x] = "undef"

LEMMA TopNat == top \in Nat \ {0}
BY BodyAssumption

LEMMA LastiIs ==
  ASSUME NEW dbs, NEW last \in 0 .. top, DOMAIN dbs = 1 .. top,
         \A n \in 1 .. top : Defined(dbs[n], lasti) <=> n <= last
  PROVE  LastiOf(dbs) = last
<1> DEFINE T == {0} \cup {n \in DOMAIN dbs : Defined(dbs[n], lasti)}
<1>1. T = 0 .. last
  <2>1. \A n : n \in T <=> n = 0 \/ (n \in 1 .. top /\ n <= last)
    OBVIOUS
  <2> HIDE DEF T
  <2>2. \A n : n \in T <=> n \in 0 .. last
    BY <2>1, TopNat
  <2> QED BY <2>2
<1>2. Max(0 .. last) = last
  <2>1. last \in Nat /\ 0 .. last \subseteq 0 .. last /\ 0 \in 0 .. last /\ last \in 0 .. last
    BY TopNat
  <2>2. Max(0 .. last) \in 0 .. last /\ last <= Max(0 .. last)
    BY <2>1, MaxIs
  <2> QED BY <2>1, <2>2
<1> QED BY <1>1, <1>2 DEF LastiOf

LEMMA PartsIs ==
  ASSUME NEW m \in Modes, NEW q \in Nat, NEW f \in 1 .. top + 1, NEW n \in 1 .. top
  PROVE  /\ InIteration(m, q, f, n) \in 0 .. LenOf(m)
         /\ n < f => InIteration(m, q, f, n) = 0
         /\ n >= f => \A p \in 1 .. LenOf(m) : p <= InIteration(m, q, f, n) <=> (n - f) * LenOf(m) + p <= q
<1> DEFINE N == LenOf(m)
           x == (n - f) * N
<1>1. N \in Nat /\ N >= 1 /\ top \in Nat
  BY BodyStages, Sizes, TopNat
<1>2. n \in Int /\ f \in Int /\ n - f \in Int
  BY <1>1
<1>3. x \in Int /\ (n - f + 1) * N = x + N
  BY <1>1, <1>2
<1> HIDE DEF N, x
<1>4. InIteration(m, q, f, n) = IF n < f \/ q <= x THEN 0 ELSE IF q >= x + N THEN N ELSE q - x
  BY <1>3 DEF InIteration, N, x
<1>5. /\ InIteration(m, q, f, n) \in 0 .. N
      /\ n < f => InIteration(m, q, f, n) = 0
      /\ n >= f => \A p \in 1 .. N : p <= InIteration(m, q, f, n) <=> x + p <= q
  BY <1>1, <1>2, <1>3, <1>4
<1> QED BY <1>5 DEF N, x

\* One iteration that this run has begun or may begin.
IterationIs(m, it, db, k) ==
    /\ Defined(db, lasti) <=> (IF m.istp = 0 THEN o + 27 ELSE 9) <= k["i"]
    /\ ~Defined(db, lasti) => \A l \in m.letters : ~Defined(db, ndxarr(l))
    /\ AllNdxarr(m, db) => compiter(m, it, db)
    /\ (~m.crash \/ m.istp = 0) /\ Defined(db, lasti) => AllNdxarr(m, db)
    /\ m.crash /\ m.istp = 1 /\ Defined(db, lasti) => crashiter(m, db)
    /\ m.crash /\ m.istp = 1 /\ ~Defined(db, lasti) => \A x \in Nodes(m) : db[x] = "undef"

LEMMA OneIteration ==
  ASSUME NEW m \in Modes, NEW it, NEW nodes \in [Nodes(m) -> Values], NEW k \in [m.letters -> 0 .. LenOf(m)],
         Sound(m, k),
         ~Defined(nodes, lasti),
         \A l \in m.letters : ~Defined(nodes, ndxarr(l)),
         m.crash /\ m.istp = 1 => \A x \in Nodes(m) : nodes[x] = "undef"
  PROVE  IterationIs(m, it, After(m, it, nodes, k), k)
<1> DEFINE db == After(m, it, nodes, k)
           s == IF m.istp = 0 THEN o + 27 ELSE 9
<1>1. \A n \in Nodes(m) : db[n] = Over(Leaves(m, it, n, Net(m, k[n[2]], n)), nodes[n])
  BY AfterIs
<1>2. LenOf(m) = o + 27 /\ o \in Nat
  BY BodyStages, Sizes
<1>3. \A l \in m.letters : l \in AllLetters /\ k[l] \in 0 .. LenOf(m) /\ Place(l) \in 1 .. 5
  BY NodesAre, Sizes
<1>4. "a" \in m.letters /\ "i" \in m.letters /\ m.istp \in {0, 1, 2} /\ m.crash \in BOOLEAN
  BY NodesAre
<1> HIDE DEF db, o
<1>5. Defined(db, lasti) <=> s <= k["i"]
  <2>1. Net(m, k["i"], lasti) = IF s <= k["i"] THEN "val" ELSE "keep"
    BY <1>3, <1>4, EffectOnce
  <2>2. lasti \in Nodes(m) /\ lasti[2] = "i"
    BY NodesAre, NodeLetters
  <2>3. db[lasti] = Over(Leaves(m, it, lasti, Net(m, k["i"], lasti)), nodes[lasti])
    BY <1>1, <2>2
  <2> HIDE DEF s
  <2> QED BY <2>1, <2>3 DEF Over, Leaves, Defined
<1>6. \A l \in m.letters : Defined(db, ndxarr(l)) <=> o + 21 + Place(l) <= k[l]
  <2> SUFFICES ASSUME NEW l \in m.letters PROVE Defined(db, ndxarr(l)) <=> o + 21 + Place(l) <= k[l]
    OBVIOUS
  <2>1. Net(m, k[l], ndxarr(l)) = IF o + 21 + Place(l) <= k[l] THEN "val" ELSE "keep"
    BY <1>3, EffectOnce
  <2>2. ndxarr(l) \in Nodes(m) /\ ndxarr(l)[2] = l
    BY NodesAre, NodeLetters
  <2>3. db[ndxarr(l)] = Over(Leaves(m, it, ndxarr(l), Net(m, k[l], ndxarr(l))), nodes[ndxarr(l)])
    BY <1>1, <2>2
  <2> QED BY <2>1, <2>3 DEF Over, Leaves, Defined
<1>7. AllNdxarr(m, db) => compiter(m, it, db)
  <2> SUFFICES ASSUME AllNdxarr(m, db) PROVE compiter(m, it, db)
    OBVIOUS
  <2>1. \A l \in m.letters : k[l] >= o + 21 + Place(l)
    BY <1>2, <1>3, <1>6 DEF AllNdxarr
  <2> QED BY <2>1, Complete DEF db
<1>8. ASSUME ~Defined(db, lasti), NEW l \in m.letters PROVE ~Defined(db, ndxarr(l))
  <2>1. CASE m.istp = 0
    BY <1>5, <1>6, <1>8, <2>1 DEF Sound
  <2>2. CASE m.istp = 2
    BY <1>5, <1>6, <1>8, <2>2 DEF Sound
  <2>3. CASE m.istp = 1
    <3>1. Place(l) <= k[l] <=> 9 <= k["i"]
      BY <2>3 DEF Sound, InStep
    <3>2. ~(Place(l) <= k[l])
      BY <1>5, <1>8, <2>3, <3>1
    <3> QED BY <1>2, <1>3, <1>6, <3>2
  <2> QED BY <1>4, <2>1, <2>2, <2>3
<1>9. ASSUME ~m.crash \/ m.istp = 0, Defined(db, lasti), NEW l \in m.letters PROVE Defined(db, ndxarr(l))
  <2>1. CASE m.istp = 0
    BY <1>5, <1>6, <1>9, <2>1 DEF Sound
  <2>2. CASE m.istp # 0
    BY <1>5, <1>6, <1>9, <2>2 DEF Sound
  <2> QED BY <2>1, <2>2
<1>10. ASSUME m.crash, m.istp = 1, Defined(db, lasti) PROVE crashiter(m, db)
  <2>1. InStep(m, k) /\ 9 <= k["i"]
    BY <1>5, <1>10 DEF Sound
  <2> QED BY <1>10, <2>1, CrashIter DEF db
<1>11. ASSUME m.crash, m.istp = 1, ~Defined(db, lasti), NEW x \in Nodes(m) PROVE db[x] = "undef"
  <2>1. x[2] \in m.letters
    BY NodesAre
  <2>2. ~(Place(x[2]) <= k[x[2]])
    BY <1>5, <1>11, <2>1 DEF Sound, InStep
  <2>3. k[x[2]] < Place(x[2])
    BY <1>2, <1>3, <2>1, <2>2
  <2>4. Net(m, k[x[2]], x) = "keep"
    BY <1>3, <2>1, <2>3, EffectNone
  <2> QED BY <1>1, <1>11, <2>4 DEF Over, Leaves
<1> HIDE DEF s
<1> QED BY <1>5, <1>7, <1>8, <1>9, <1>10, <1>11, Zenon DEF IterationIs, AllNdxarr, db, s

\* An iteration of which no update came back is as it was.
LEMMA Untouched ==
  ASSUME NEW m \in Modes, NEW it, NEW nodes \in [Nodes(m) -> Values], NEW k, k = [l \in m.letters |-> 0]
  PROVE  After(m, it, nodes, k) = nodes
<1>1. k \in [m.letters -> 0 .. LenOf(m)]
  BY BodyStages, Sizes
<1>2. \A n \in Nodes(m) : Net(m, k[n[2]], n) = "keep"
  <2> SUFFICES ASSUME NEW n \in Nodes(m) PROVE Net(m, k[n[2]], n) = "keep"
    OBVIOUS
  <2>1. n[2] \in m.letters /\ n[2] \in AllLetters
    BY NodesAre
  <2>2. k[n[2]] = 0 /\ 0 \in 0 .. LenOf(m) /\ 0 < Place(n[2])
    BY <1>1, <2>1, Sizes
  <2> QED BY <2>1, <2>2, EffectNone
<1>3. \A n \in Nodes(m) : After(m, it, nodes, k)[n] = nodes[n]
  <2>1. \A n \in Nodes(m) : After(m, it, nodes, k)[n] = Over(Leaves(m, it, n, Net(m, k[n[2]], n)), nodes[n])
    BY <1>1, AfterIs
  <2>2. \A n \in Nodes(m) : Over(Leaves(m, it, n, "keep"), nodes[n]) = nodes[n]
    BY DEF Over, Leaves
  <2> QED BY <1>2, <2>1, <2>2, Zenon
<1>4. After(m, it, nodes, k) \in [Nodes(m) -> Values]
  BY <1>1, AfterIs
<1> QED BY <1>3, <1>4

\* What recovery makes of the iterations of a job.
LEMMA RecoveredIs ==
  ASSUME NEW m \in Modes, NEW f \in 1 .. top + 1, NEW dbs, DbIs(m, dbs, f - 1), NEW cut \in [m.letters -> Nat],
         \A n \in 1 .. top : n >= f => Sound(m, Parts(m, cut, f, n))
  PROVE  /\ DbIs(m, Recovered(m, dbs, f, cut), LastiOf(Recovered(m, dbs, f, cut)))
         /\ \A n \in 1 .. top : n >= f =>
               (n <= LastiOf(Recovered(m, dbs, f, cut)) <=>
                   (n - f) * LenOf(m) + (IF m.istp = 0 THEN o + 27 ELSE 9) <= cut["i"])
         /\ f - 1 <= LastiOf(Recovered(m, dbs, f, cut))
<1> DEFINE new == Recovered(m, dbs, f, cut)
           s == IF m.istp = 0 THEN o + 27 ELSE 9
           N == LenOf(m)
<1>0. top \in Nat \ {0} /\ N \in Nat /\ N = o + 27 /\ o \in Nat
  BY TopNat, BodyStages, Sizes
<1>1. /\ dbs \in [1 .. top -> [Nodes(m) -> Values]]
      /\ \A n \in 1 .. top : Defined(dbs[n], lasti) <=> n <= f - 1
      /\ \A n \in 1 .. top : n > f - 1 => \A l \in m.letters : ~Defined(dbs[n], ndxarr(l))
      /\ m.crash /\ m.istp = 1 => \A n \in 1 .. top : n > f - 1 => \A x \in Nodes(m) : dbs[n][x] = "undef"
  BY DEF DbIs
<1>2. "i" \in m.letters /\ cut["i"] \in Nat
  BY NodesAre
<1>3. \A n \in 1 .. top : Parts(m, cut, f, n) \in [m.letters -> 0 .. N]
  BY PartsIs DEF Parts
<1>4. \A n \in 1 .. top : new[n] = After(m, n, dbs[n], Parts(m, cut, f, n))
  BY DEF Recovered, Parts
<1>5. new \in [1 .. top -> [Nodes(m) -> Values]]
  <2>1. \A n \in 1 .. top : After(m, n, dbs[n], Parts(m, cut, f, n)) \in [Nodes(m) -> Values]
    BY <1>1, <1>3, AfterIs
  <2> QED BY <2>1 DEF Recovered, Parts
<1>6. ASSUME NEW n \in 1 .. top, n < f PROVE new[n] = dbs[n]
  <2>1. Parts(m, cut, f, n) = [l \in m.letters |-> 0]
    BY <1>6, PartsIs DEF Parts
  <2>2. dbs[n] \in [Nodes(m) -> Values]
    BY <1>1
  <2> QED BY <1>4, <2>1, <2>2, Untouched
<1>7. ASSUME NEW n \in 1 .. top, n >= f PROVE IterationIs(m, n, new[n], Parts(m, cut, f, n))
  <2>1. /\ dbs[n] \in [Nodes(m) -> Values]
        /\ ~Defined(dbs[n], lasti)
        /\ \A l \in m.letters : ~Defined(dbs[n], ndxarr(l))
        /\ m.crash /\ m.istp = 1 => \A x \in Nodes(m) : dbs[n][x] = "undef"
    <3>1. n > f - 1 /\ ~(n <= f - 1)
      BY <1>7, <1>0
    <3> QED BY <1>1, <3>1
  <2> QED BY <1>3, <1>4, <1>7, <2>1, OneIteration
<1> HIDE DEF new, N
<1>8. s \in 1 .. N
  BY <1>0
<1> HIDE DEF s, o
<1>9. ASSUME NEW n \in 1 .. top, n >= f
      PROVE  Defined(new[n], lasti) <=> (n - f) * N + s <= cut["i"]
  <2>1. Defined(new[n], lasti) <=> s <= Parts(m, cut, f, n)["i"]
    BY <1>7, <1>9 DEF IterationIs, s
  <2>2. s <= InIteration(m, cut["i"], f, n) <=> (n - f) * N + s <= cut["i"]
    BY <1>2, <1>8, <1>9, PartsIs DEF N
  <2> QED BY <1>2, <2>1, <2>2 DEF Parts
<1> DEFINE T == {0} \cup {n \in DOMAIN new : Defined(new[n], lasti)}
           last == Max(T)
<1>10. T \subseteq 0 .. top /\ 0 \in T
  BY <1>5, <1>0
<1>11. last \in T /\ (\A y \in T : y <= last) /\ last \in 0 .. top /\ LastiOf(new) = last
  <2>1. LastiOf(new) = last
    BY DEF LastiOf
  <2>2. last \in T /\ \A y \in T : y <= last
    <3> HIDE DEF T
    <3> QED BY <1>0, <1>10, MaxIs
  <2> QED BY <1>10, <2>1, <2>2
<1>12. \A n \in 1 .. top : n \in T <=> Defined(new[n], lasti)
  BY <1>0, <1>5
<1>13. \A n \in T : n = 0 \/ n \in 1 .. top
  BY <1>5
<1> HIDE DEF T, last
<1>14. ASSUME NEW n \in 1 .. top PROVE Defined(new[n], lasti) <=> n <= last
  <2>1. Defined(new[n], lasti) => n <= last
    BY <1>11, <1>12
  <2>2. ASSUME n <= last PROVE Defined(new[n], lasti)
    <3>1. last \in 1 .. top /\ Defined(new[last], lasti)
      BY <1>0, <1>11, <1>12, <2>2
    <3>2. CASE n < f
      <4>1. n <= f - 1
        BY <3>2, <1>0
      <4> QED BY <1>1, <1>6, <3>2, <4>1 DEF Defined
    <3>3. CASE n >= f
      <4>1. last >= f
        BY <2>2, <3>3, <1>0, <3>1
      <4>2. (last - f) * N + s <= cut["i"]
        BY <1>9, <3>1, <4>1
      <4>3. (n - f) * N <= (last - f) * N /\ (n - f) * N \in Int /\ (last - f) * N \in Int
        <5>1. n - f \in Nat /\ last - n \in Nat /\ f \in Int /\ n \in Int /\ last \in Int
          BY <1>0, <2>2, <3>1, <3>3
        <5>2. (last - f) * N = (n - f) * N + (last - n) * N /\ (last - n) * N \in Nat /\ (n - f) * N \in Nat
          BY <5>1, <1>0
        <5> QED BY <5>2
      <4>4. (n - f) * N + s <= cut["i"]
        BY <1>2, <1>8, <4>2, <4>3, <1>0
      <4> QED BY <1>9, <3>3, <4>4
    <3> QED BY <1>0, <3>2, <3>3
  <2> QED BY <2>1, <2>2
<1>15. f - 1 <= last
  <2>1. CASE f = 1
    BY <1>11, <2>1
  <2>2. CASE f # 1
    <3>1. f - 1 \in 1 .. top /\ f - 1 < f /\ f - 1 <= f - 1
      BY <1>0, <2>2
    <3>2. Defined(new[f - 1], lasti)
      BY <1>1, <1>6, <3>1 DEF Defined
    <3> QED BY <1>14, <3>1, <3>2
  <2> QED BY <2>1, <2>2
<1>16. ASSUME NEW n \in 1 .. top
       PROVE  /\ n > last => \A l \in m.letters : ~Defined(new[n], ndxarr(l))
              /\ AllNdxarr(m, new[n]) => compiter(m, n, new[n])
              /\ (~m.crash \/ m.istp = 0) /\ n <= last => AllNdxarr(m, new[n])
              /\ m.crash /\ m.istp = 1 /\ n <= last => crashiter(m, new[n])
              /\ m.crash /\ m.istp = 1 /\ n > last => \A x \in Nodes(m) : new[n][x] = "undef"
  <2>1. n > last <=> ~Defined(new[n], lasti)
    BY <1>0, <1>11, <1>14
  <2>2. CASE n >= f
    BY <1>7, <1>14, <2>1, <2>2 DEF IterationIs
  <2>3. CASE n < f
    <3>1. n <= f - 1 /\ ~(n > last)
      BY <1>0, <1>11, <1>15, <2>3
    <3>2. new[n] = dbs[n]
      BY <1>6, <2>3
    <3>3. /\ AllNdxarr(m, dbs[n]) => compiter(m, n, dbs[n])
          /\ (~m.crash \/ m.istp = 0) => AllNdxarr(m, dbs[n])
          /\ m.crash /\ m.istp = 1 => crashiter(m, dbs[n])
      BY <3>1 DEF DbIs
    <3> QED BY <3>1, <3>2, <3>3
  <2> QED BY <1>0, <2>2, <2>3
<1>17. DbIs(m, new, last)
  BY <1>5, <1>11, <1>14, <1>16, Zenon DEF DbIs
<1>18. \A n \in 1 .. top : n >= f => (n <= last <=> (n - f) * N + s <= cut["i"])
  BY <1>9, <1>14
<1> QED BY <1>11, <1>15, <1>17, <1>18 DEF new, N, s

-----------------------------------------------------------------------------
(* Fences *)

\* The stage of update p: of the loop of Stage 4, 100 + J.
StageOf(p) ==
    IF p <= 9 THEN 1 ELSE IF p <= 12 THEN 2 ELSE IF p <= 15 THEN 3
    ELSE IF p <= o THEN 101 + ((p - 16) \div 5)
    ELSE IF p <= o + 5 THEN 5 ELSE IF p <= o + 7 THEN 6 ELSE IF p <= o + 10 THEN 7
    ELSE IF p <= o + 16 THEN 8 ELSE IF p <= o + 17 THEN 9 ELSE IF p <= o + 21 THEN 10 ELSE 11

FenceOf(m, s) == IF s \in {2, 8, 9} THEN 0 ELSE IF s = 11 THEN lfence(m) ELSE m.istp

LEMMA FencedId ==
  ASSUME NEW f, NEW id, NEW u
  PROVE  Fenced(f, id, u).id = (IF f = 0 THEN 0 ELSE id) /\ Fenced(f, id, u).tp = (f = 1)
BY DEF Fenced

\* Update p is in a fence f of that id.
InFence(m, p, f, id) == BodyOf[m][p].id = (IF f = 0 THEN 0 ELSE id) /\ BodyOf[m][p].tp = (f = 1)

LEMMA FenceIds ==
  ASSUME NEW m \in Modes, NEW p \in 1 .. LenOf(m)
  PROVE  InFence(m, p, FenceOf(m, StageOf(p)), StageOf(p))
<1>0. LenOf(m) = o + 27 /\ o \in Nat /\ o >= 20 /\ p \in 1 .. o + 27
  BY BodyStages, Sizes
<1>1. ASSUME NEW q, NEW f, NEW id, NEW u, BodyOf[m][q] = Fenced(f, id, u) PROVE InFence(m, q, f, id)
  <2>1. BodyOf[m][q].id = Fenced(f, id, u).id /\ BodyOf[m][q].tp = Fenced(f, id, u).tp
    BY <1>1
  <2> QED BY <2>1, FencedId DEF InFence
<1>2. CASE p <= 9
  <2>1. \A k \in 1 .. 9 : BodyOf[m][k] = Fenced(m.istp, 1, Stage1(m)[k])
    BY BodyStages, Zenon
  <2>2. p \in 1 .. 9 /\ StageOf(p) = 1 /\ FenceOf(m, 1) = m.istp
    BY <1>0, <1>2 DEF StageOf, FenceOf
  <2> QED BY <1>1, <2>1, <2>2
<1>3. CASE p > 9 /\ p <= 12
  <2>1. \A k \in 1 .. 3 : BodyOf[m][9 + k] = Fenced(0, 2, Stage2(m)[k])
    BY BodyStages, Zenon
  <2>2. p - 9 \in 1 .. 3 /\ 9 + (p - 9) = p /\ StageOf(p) = 2 /\ FenceOf(m, 2) = 0
    BY <1>0, <1>3 DEF StageOf, FenceOf
  <2> QED BY <1>1, <2>1, <2>2
<1>4. CASE p > 12 /\ p <= 15
  <2>1. \A k \in 1 .. 3 : BodyOf[m][12 + k] = Fenced(m.istp, 3, Stage3(m)[k])
    BY BodyStages, Zenon
  <2>2. p - 12 \in 1 .. 3 /\ 12 + (p - 12) = p /\ StageOf(p) = 3 /\ FenceOf(m, 3) = m.istp
    BY <1>0, <1>4 DEF StageOf, FenceOf
  <2> QED BY <1>1, <2>1, <2>2
<1>5. CASE p > 15 /\ p <= o
  <2>1. \A H \in 1 .. jobcnt, k \in 1 .. 5 :
           BodyOf[m][15 + 5 * (H - 1) + k] = Fenced(m.istp, 100 + H, Stage4(m, H)[k])
    BY BodyStages, Zenon
  <2> DEFINE J == ((p - 16) \div 5) + 1
             k == ((p - 16) % 5) + 1
  <2>2. J \in 1 .. jobcnt /\ k \in 1 .. 5 /\ p = 15 + 5 * (J - 1) + k /\ 100 + J = 101 + ((p - 16) \div 5)
    BY <1>0, <1>5, Sizes DEF o
  <2>3. StageOf(p) = 100 + J
    BY <1>0, <1>5, <2>2 DEF StageOf
  <2> HIDE DEF J, k
  <2>4. BodyOf[m][p] = Fenced(m.istp, 100 + J, Stage4(m, J)[k])
    BY <2>1, <2>2
  <2>5. FenceOf(m, 100 + J) = m.istp
    BY <2>2 DEF FenceOf
  <2> QED BY <1>1, <2>3, <2>4, <2>5
<1>6. CASE p > o /\ p <= o + 5
  <2>1. \A k \in 1 .. 5 : BodyOf[m][o + k] = Fenced(m.istp, 5, Stage5(m)[k])
    BY BodyStages, Zenon
  <2> HIDE DEF o
  <2>2. p - o \in 1 .. 5 /\ o + (p - o) = p /\ StageOf(p) = 5 /\ FenceOf(m, 5) = m.istp
    BY <1>0, <1>6 DEF StageOf, FenceOf
  <2> QED BY <1>1, <2>1, <2>2
<1>7. CASE p > o + 5 /\ p <= o + 7
  <2>1. \A k \in 1 .. 2 : BodyOf[m][o + 5 + k] = Fenced(m.istp, 6, Stage6(m)[k])
    BY BodyStages, Zenon
  <2> HIDE DEF o
  <2>2. p - o - 5 \in 1 .. 2 /\ o + 5 + (p - o - 5) = p /\ StageOf(p) = 6 /\ FenceOf(m, 6) = m.istp
    BY <1>0, <1>7 DEF StageOf, FenceOf
  <2> QED BY <1>1, <2>1, <2>2
<1>8. CASE p > o + 7 /\ p <= o + 10
  <2>1. \A k \in 1 .. 3 : BodyOf[m][o + 7 + k] = Fenced(m.istp, 7, Stage7(m)[k])
    BY BodyStages, Zenon
  <2> HIDE DEF o
  <2>2. p - o - 7 \in 1 .. 3 /\ o + 7 + (p - o - 7) = p /\ StageOf(p) = 7 /\ FenceOf(m, 7) = m.istp
    BY <1>0, <1>8 DEF StageOf, FenceOf
  <2> QED BY <1>1, <2>1, <2>2
<1>9. CASE p > o + 10 /\ p <= o + 16
  <2>1. \A k \in 1 .. 6 : BodyOf[m][o + 10 + k] = Fenced(0, 8, Stage8(m)[k])
    BY BodyStages, Zenon
  <2> HIDE DEF o
  <2>2. p - o - 10 \in 1 .. 6 /\ o + 10 + (p - o - 10) = p /\ StageOf(p) = 8 /\ FenceOf(m, 8) = 0
    BY <1>0, <1>9 DEF StageOf, FenceOf
  <2> QED BY <1>1, <2>1, <2>2
<1>10. CASE p > o + 16 /\ p <= o + 17
  <2>1. BodyOf[m][o + 17] = Fenced(0, 9, Stage9(m)[1])
    BY BodyStages, Zenon
  <2> HIDE DEF o
  <2>2. p = o + 17 /\ StageOf(p) = 9 /\ FenceOf(m, 9) = 0
    BY <1>0, <1>10 DEF StageOf, FenceOf
  <2> QED BY <1>1, <2>1, <2>2
<1>11. CASE p > o + 17 /\ p <= o + 21
  <2>1. \A k \in 1 .. 4 : BodyOf[m][o + 17 + k] = Fenced(m.istp, 10, Stage10(m)[k])
    BY BodyStages, Zenon
  <2> HIDE DEF o
  <2>2. p - o - 17 \in 1 .. 4 /\ o + 17 + (p - o - 17) = p /\ StageOf(p) = 10 /\ FenceOf(m, 10) = m.istp
    BY <1>0, <1>11 DEF StageOf, FenceOf
  <2> QED BY <1>1, <2>1, <2>2
<1>12. CASE p > o + 21
  <2>1. \A k \in 1 .. 6 : BodyOf[m][o + 21 + k] = Fenced(lfence(m), 11, Stage11(m)[k])
    BY BodyStages, Zenon
  <2> HIDE DEF o
  <2>2. p - o - 21 \in 1 .. 6 /\ o + 21 + (p - o - 21) = p /\ StageOf(p) = 11 /\ FenceOf(m, 11) = lfence(m)
    BY <1>0, <1>12 DEF StageOf, FenceOf
  <2> QED BY <1>1, <2>1, <2>2
<1> HIDE DEF o
<1> QED BY <1>0, <1>2, <1>3, <1>4, <1>5, <1>6, <1>7, <1>8, <1>9, <1>10, <1>11, <1>12

LEMMA BodyLen ==
  ASSUME NEW m \in Modes
  PROVE  LenOf(m) \in Nat \ {0} /\ LenOf(m) = o + 27 /\ LenOf(m) = Len(BodyOf[m]) /\ o \in Nat /\ o >= 20
<1>1. LenOf(m) = o + 27
  BY BodyStages, Zenon
<1>2. o \in Nat /\ o >= 20
  BY Sizes
<1>3. LenOf(m) = Len(BodyOf[m])
  BY Zenon DEF LenOf
<1> HIDE DEF o
<1> QED BY <1>1, <1>2, <1>3

\* The updates of a fence are next to each other.
LEMMA Contiguous ==
  ASSUME NEW m \in Modes, NEW p \in 1 .. LenOf(m), NEW q \in 1 .. LenOf(m), NEW r \in p .. q,
         BodyOf[m][p].id = BodyOf[m][q].id, BodyOf[m][p].id # 0
  PROVE  BodyOf[m][r].id = BodyOf[m][p].id /\ BodyOf[m][r].tp = BodyOf[m][p].tp
<1>0. LenOf(m) \in Nat /\ r \in 1 .. LenOf(m)
  <2>1. LenOf(m) \in Nat
    BY BodyLen
  <2> QED BY <2>1
<1>1. \A x \in 1 .. LenOf(m) : InFence(m, x, FenceOf(m, StageOf(x)), StageOf(x))
  BY FenceIds
<1>2. StageOf(p) = StageOf(q)
  BY <1>1 DEF InFence
<1>3. StageOf(r) = StageOf(p)
  BY <1>0, <1>2, Sizes DEF StageOf
<1> QED BY <1>0, <1>1, <1>3 DEF InFence

-----------------------------------------------------------------------------
(* Commits *)

\* Iterations of the loop, and places in them.
LEMMA DivMod ==
  ASSUME NEW N \in Nat \ {0}, NEW q \in Nat
  PROVE  /\ q \div N \in Nat /\ q % N \in 0 .. N - 1
         /\ q = (q \div N) * N + (q % N)
OBVIOUS

LEMMA DivModSame ==
  ASSUME NEW N \in Nat \ {0}, NEW t \in Int, NEW u \in Int, NEW r \in 0 .. N - 1, NEW s \in 0 .. N - 1, t * N + r = u * N + s
  PROVE t = u /\ r = s
<1>1. t * N \in Int /\ u * N \in Int
  OBVIOUS
<1>2. (t - u) * N = s - r
  OBVIOUS
<1>3. CASE t > u
  <2>1. (t - u) * N = N + (t - u - 1) * N /\ (t - u - 1) * N >= 0
    BY <1>3
  <2> QED BY <1>2, <2>1
<1>4. CASE t < u
  <2>1. (u - t) * N = N + (u - t - 1) * N /\ (u - t - 1) * N >= 0 /\ (u - t) * N = r - s
    BY <1>4, <1>2
  <2> QED BY <1>2, <2>1
<1>5. CASE t = u
  BY <1>1, <1>5
<1> QED BY <1>3, <1>4, <1>5

LEMMA TimesMono ==
  ASSUME NEW N \in Nat, NEW a \in Nat, NEW b \in Nat, a <= b
  PROVE  a * N <= b * N /\ a * N \in Nat /\ b * N \in Nat
<1>1. b - a \in Nat
  OBVIOUS
<1>2. b * N = a * N + (b - a) * N /\ (b - a) * N \in Nat /\ a * N \in Nat
  BY <1>1
<1> QED BY <1>2

LEMMA DivModUnique ==
  ASSUME NEW N \in Nat \ {0}, NEW t \in Nat, NEW r \in 0 .. N - 1
  PROVE  (t * N + r) \div N = t /\ (t * N + r) % N = r /\ t * N + r \in Nat
<1> DEFINE q == t * N + r
<1>1. q \in Nat
  OBVIOUS
<1>2. q \div N \in Nat /\ q % N \in 0 .. N - 1 /\ q = (q \div N) * N + (q % N)
  BY <1>1, DivMod
<1> DEFINE a == q \div N
           b == q % N
<1> HIDE DEF a, b
<1>3. t * N + r = a * N + b /\ a \in Nat /\ b \in 0 .. N - 1
  BY <1>2 DEF a, b
<1>4. t = a /\ r = b
  BY <1>3, DivModSame
<1> QED BY <1>1, <1>4 DEF a, b

LEMMA MinIs ==
  ASSUME NEW T, T \subseteq Nat, T # {}
  PROVE  Min(T) \in T /\ \A y \in T : Min(T) <= y
BY LeastNat DEF Min

LEMMA EndOfIs ==
  ASSUME NEW m \in Modes, NEW k \in 0 .. LenOf(m) - 1
  PROVE  /\ EndOf[m][k] \in Ends(m, BodyOf[m])
         /\ EndOf[m][k] \in k + 1 .. LenOf(m)
         /\ \A p \in Ends(m, BodyOf[m]) : p > k => EndOf[m][k] <= p
<1> DEFINE T == {p \in Ends(m, BodyOf[m]) : p > k}
<1>1. LenOf(m) \in Nat \ {0} /\ LenOf(m) = Len(BodyOf[m])
  BY BodyLen
<1>2. \A p \in Ends(m, BodyOf[m]) : p \in 1 .. LenOf(m)
  BY <1>1 DEF Ends
<1>3. LenOf(m) \in Ends(m, BodyOf[m])
  <2>1. LenOf(m) \in 1 .. Len(BodyOf[m])
    BY <1>1
  <2> QED BY <1>1, <2>1 DEF Ends
<1>4. T \subseteq Nat /\ T # {}
  BY <1>1, <1>2, <1>3
<1>5. Min(T) \in T /\ \A y \in T : Min(T) <= y
  <2> HIDE DEF T
  <2> QED BY <1>4, MinIs
<1>6. EndOf[m][k] = Min(T)
  BY <1>1 DEF EndOf, CommitEnds
<1> QED BY <1>1, <1>2, <1>5, <1>6

\* The next commit of a job that is between two commits of its run.
LEMMA NextPoint ==
  ASSUME NEW m \in Modes, NEW q \in CommitPoints(m), (q \div LenOf(m)) < top,
         NEW r, r = q - (q % LenOf(m)) + EndOf[m][q % LenOf(m)]
  PROVE  /\ r \in CommitPoints(m) /\ r > q
         /\ IF r % LenOf(m) = 0 THEN r \div LenOf(m) = (q \div LenOf(m)) + 1
            ELSE r \div LenOf(m) = q \div LenOf(m)
         /\ r = (q \div LenOf(m)) * LenOf(m) + EndOf[m][q % LenOf(m)]
<1> DEFINE N == LenOf(m)
           t == q \div N
           k == q % N
           e == EndOf[m][k]
<1>1. N \in Nat \ {0} /\ top \in Nat
  BY BodyLen, TopNat
<1>2. q \in Nat
  BY <1>1 DEF CommitPoints
<1> HIDE DEF N
<1>3. t \in Nat /\ k \in 0 .. N - 1 /\ q = t * N + k
  BY <1>1, <1>2, DivMod
<1>4. e \in Ends(m, BodyOf[m]) /\ e \in k + 1 .. N
  BY <1>3, EndOfIs DEF N
<1>5. r = q - k + e /\ t < top
  BY DEF N
<1>6. \A x : x \in CommitPoints(m) <=> x \in 0 .. top * N /\ x % N \in {0} \cup Ends(m, BodyOf[m])
  BY DEF CommitPoints, N
<1> HIDE DEF t, k, e
<1>7. t * N \in Nat /\ r = t * N + e /\ (t + 1) * N = t * N + N
  BY <1>1, <1>3, <1>4, <1>5
<1>8. r > q
  BY <1>1, <1>3, <1>4, <1>7
<1>9. top * N >= t * N + N /\ top * N \in Nat
  <2>1. t + 1 \in Nat /\ t + 1 <= top
    BY <1>1, <1>3, <1>5
  <2>2. (t + 1) * N <= top * N /\ top * N \in Nat
    BY <1>1, <2>1, TimesMono
  <2> QED BY <1>7, <2>2
<1>10. r \in 0 .. top * N
  <2> DEFINE y == top * N
             z == t * N
  <2>1. z \in Nat /\ r = z + e /\ y >= z + N /\ y \in Nat /\ e \in 1 .. N
    BY <1>3, <1>4, <1>7, <1>9
  <2> HIDE DEF y, z
  <2>2. r \in 0 .. y
    BY <1>1, <2>1
  <2> QED BY <2>2 DEF y
<1>11. CASE e = N
  <2>1. t + 1 \in Nat /\ 0 \in 0 .. N - 1
    BY <1>1, <1>3
  <2>2. r = (t + 1) * N + 0
    <3> DEFINE z == (t + 1) * N
               y == t * N
    <3>1. z = y + N /\ r = y + e /\ y \in Nat
      BY <1>7
    <3> HIDE DEF z, y
    <3>2. r = z + 0
      BY <1>1, <1>11, <3>1
    <3> QED BY <3>2 DEF z
  <2>3. r \div N = t + 1 /\ r % N = 0
    <3>1. ((t + 1) * N + 0) \div N = t + 1 /\ ((t + 1) * N + 0) % N = 0
      <4> DEFINE u == t + 1
                 v == 0
      <4>1. u \in Nat /\ v \in 0 .. N - 1
        BY <2>1
      <4> HIDE DEF u, v
      <4>2. (u * N + v) \div N = u /\ (u * N + v) % N = v
        BY <1>1, <4>1, DivModUnique
      <4> QED BY <4>2 DEF u, v
    <3> QED BY <2>2, <3>1, Zenon
  <2>4. r \in CommitPoints(m)
    BY <1>6, <1>10, <2>3
  <2> QED BY <1>7, <1>8, <2>3, <2>4 DEF N, t, e, k
<1>12. CASE e # N
  <2>1. e \in 0 .. N - 1 /\ e # 0
    BY <1>1, <1>3, <1>4, <1>12
  <2>2. r = t * N + e
    BY <1>7
  <2>3. r \div N = t /\ r % N = e
    <3>1. (t * N + e) \div N = t /\ (t * N + e) % N = e
      BY <1>1, <1>3, <2>1, DivModUnique
    <3> QED BY <2>2, <3>1, Zenon
  <2>4. r \in CommitPoints(m)
    BY <1>4, <1>6, <1>10, <2>3
  <2> QED BY <1>7, <1>8, <2>1, <2>3, <2>4 DEF N, t, e, k
<1> QED BY <1>11, <1>12

\* A commit is never within a TP transaction.
LEMMA PointFence ==
  ASSUME NEW m \in Modes, NEW q \in CommitPoints(m), NEW t \in Nat, NEW p \in 1 .. LenOf(m), NEW r \in 1 .. LenOf(m),
         BodyOf[m][p].id = BodyOf[m][r].id, BodyOf[m][p].id # 0, BodyOf[m][p].tp,
         t * LenOf(m) + p <= q
  PROVE  t * LenOf(m) + r <= q
<1> DEFINE N == LenOf(m)
           x == t * N
<1>1. N \in Nat \ {0} /\ N = Len(BodyOf[m]) /\ top \in Nat
  BY BodyLen, TopNat
<1>2. q \in Nat /\ q % N \in {0} \cup Ends(m, BodyOf[m])
  <2>1. q \in 0 .. top * N /\ q % N \in {0} \cup Ends(m, BodyOf[m])
    BY DEF CommitPoints
  <2> HIDE DEF N
  <2>2. top * N \in Nat
    BY <1>1
  <2> QED BY <2>1, <2>2
<1> HIDE DEF N
<1>3. x \in Nat
  BY <1>1
<1> SUFFICES ASSUME x + r > q PROVE FALSE
  BY <1>1, <1>2, <1>3 DEF N
<1>4. p \in 1 .. N /\ r \in 1 .. N /\ x + p <= q
  BY DEF N
<1> DEFINE e == q - x
<1>5. e \in 1 .. N - 1 /\ q = x + e /\ e >= p /\ e + 1 <= r
  BY <1>1, <1>2, <1>3, <1>4
<1>6. q % N = e
  <2>1. e \in 0 .. N - 1 /\ q = t * N + e
    BY <1>1, <1>5
  <2> HIDE DEF e, x
  <2> QED BY <1>1, <2>1, DivModUnique
<1> HIDE DEF e, x
<1>7. e \in Ends(m, BodyOf[m]) /\ e # N
  BY <1>1, <1>2, <1>5, <1>6
<1>8. e \in p .. r /\ e + 1 \in p .. r
  BY <1>1, <1>4, <1>5
<1>9. /\ BodyOf[m][e].id = BodyOf[m][p].id /\ BodyOf[m][e].tp = BodyOf[m][p].tp
      /\ BodyOf[m][e + 1].id = BodyOf[m][p].id
  BY <1>8, Contiguous
<1> QED BY <1>1, <1>7, <1>9 DEF Ends

-----------------------------------------------------------------------------
(* Recovery *)

\* The prefixes c for the regions D keep the promises about fences.
Promised(to, fences, D, c) ==
    /\ c \in [D -> Nat]
    /\ \A l \in D : c[l] \in {0} \cup to[l]
    /\ \A P \in fences, l \in D, k \in D : \A x \in P[l], y \in P[k] : x <= c[l] <=> y <= c[k]

LEMMA WithRegionIs ==
  ASSUME NEW L, NEW to \in [L -> SUBSET Nat], NEW fences, \A P \in fences : P \in [L -> SUBSET Nat],
         NEW D, D \subseteq L, NEW cs, \A c \in cs : Promised(to, fences, D, c),
         NEW l, l \notin D, NEW b \in WithRegion(to, fences, l, cs)
  PROVE  Promised(to, fences, (D \cup {l}) \cap L, b)
<1>1. CASE l \notin L
  <2>1. b \in cs /\ (D \cup {l}) \cap L = D
    BY <1>1 DEF WithRegion
  <2> QED BY <2>1
<1>2. CASE l \in L
  <2>1. PICK c \in cs, x \in {0} \cup to[l] :
           /\ \A P \in fences : Agree(P[l], x, {}, 0)
           /\ \A k \in DOMAIN c, P \in fences : Agree(P[l], x, P[k], c[k])
           /\ b = [k \in DOMAIN c \cup {l} |-> IF k = l THEN x ELSE c[k]]
    <3> DEFINE New(d, x) == [k \in DOMAIN d \cup {l} |-> IF k = l THEN x ELSE d[k]]
               whole == {x \in {0} \cup to[l] : \A P \in fences : Agree(P[l], x, {}, 0)}
               Fits(d, x) == \A k \in DOMAIN d, P \in fences : Agree(P[l], x, P[k], d[k])
               R(d) == {New(d, x) : x \in {x \in whole : Fits(d, x)}}
    <3>1. DOMAIN to = L
      OBVIOUS
    <3>2. b \in UNION {R(d) : d \in cs}
      BY <1>2, <3>1 DEF WithRegion
    <3> HIDE DEF R
    <3>3. PICK c \in cs : b \in R(c)
      BY <3>2
    <3> HIDE DEF New, Fits, whole
    <3>4. PICK x \in {x \in whole : Fits(c, x)} : b = New(c, x)
      BY <3>3 DEF R
    <3>5. x \in whole /\ Fits(c, x)
      BY <3>4
    <3>6. x \in {0} \cup to[l] /\ \A P \in fences : Agree(P[l], x, {}, 0)
      BY <3>5 DEF whole
    <3>7. \A k \in DOMAIN c, P \in fences : Agree(P[l], x, P[k], c[k])
      BY <3>5 DEF Fits
    <3>8. b = [k \in DOMAIN c \cup {l} |-> IF k = l THEN x ELSE c[k]]
      BY <3>4 DEF New
    <3> QED BY <3>3, <3>6, <3>7, <3>8, Zenon
  <2>2. /\ c \in [D -> Nat]
        /\ \A k \in D : c[k] \in {0} \cup to[k]
        /\ \A P \in fences, i \in D, k \in D : \A y \in P[i], z \in P[k] : y <= c[i] <=> z <= c[k]
    BY <2>1 DEF Promised
  <2>3. DOMAIN c = D /\ (D \cup {l}) \cap L = D \cup {l} /\ x \in Nat
    BY <1>2, <2>1, <2>2
  <2>4. b = [k \in D \cup {l} |-> IF k = l THEN x ELSE c[k]]
    BY <2>1, <2>3
  <2>5. b \in [D \cup {l} -> Nat] /\ b[l] = x /\ \A k \in D : b[k] = c[k]
    BY <2>2, <2>3, <2>4
  <2>6. \A k \in D \cup {l} : b[k] \in {0} \cup to[k]
    BY <2>1, <2>2, <2>5
  <2>7. \A P \in fences : \A y \in P[l], z \in P[l] : y <= x <=> z <= x
    <3> SUFFICES ASSUME NEW P \in fences, NEW y \in P[l], NEW z \in P[l] PROVE y <= x <=> z <= x
      OBVIOUS
    <3>1. y \in Nat /\ z \in Nat
      BY <1>2
    <3>2. Agree(P[l], x, {}, 0)
      BY <2>1
    <3> QED BY <2>3, <3>1, <3>2 DEF Agree
  <2>8. \A P \in fences, k \in D : \A y \in P[l], z \in P[k] : y <= x <=> z <= c[k]
    <3> SUFFICES ASSUME NEW P \in fences, NEW k \in D, NEW y \in P[l], NEW z \in P[k] PROVE y <= x <=> z <= c[k]
      OBVIOUS
    <3>1. y \in Nat /\ z \in Nat /\ c[k] \in Nat
      BY <1>2, <2>2
    <3>2. Agree(P[l], x, P[k], c[k])
      BY <2>1, <2>3
    <3> QED BY <2>3, <3>1, <3>2 DEF Agree
  <2>9. \A P \in fences, i \in D \cup {l}, k \in D \cup {l} : \A y \in P[i], z \in P[k] : y <= b[i] <=> z <= b[k]
    BY <2>2, <2>5, <2>7, <2>8
  <2> QED BY <2>3, <2>5, <2>6, <2>9 DEF Promised
<1> QED BY <1>1, <1>2

\* Every cut is a prefix of each region's updates, and a closed fence came back in
\* all of its regions or in none.
LEMMA CutsAre ==
  ASSUME NEW m \in Modes, NEW q \in Nat, NEW c \in Cuts(m, q)
  PROVE  /\ c \in [m.letters -> Nat]
         /\ \A l \in m.letters : c[l] \in {0} \cup UpdatesTo(m, q, l)
         /\ \A F \in ClosedFences(m, q), l \in m.letters, k \in m.letters :
               \A x \in F \cap UpdatesTo(m, q, l), y \in F \cap UpdatesTo(m, q, k) : x <= c[l] <=> y <= c[k]
<1> DEFINE L == m.letters
           to == [l \in L |-> UpdatesTo(m, q, l)]
           fences == {[l \in L |-> F \cap to[l]] : F \in ClosedFences(m, q)}
           W0 == {[l \in {} |-> 0]}
           W1 == WithRegion(to, fences, "a", W0)
           W2 == WithRegion(to, fences, "b", W1)
           W3 == WithRegion(to, fences, "c", W2)
           W4 == WithRegion(to, fences, "e", W3)
           W5 == WithRegion(to, fences, "i", W4)
<1>1. c \in W5
  BY DEF Cuts
<1>2. L \subseteq AllLetters
  BY NodesAre
<1>3. to \in [L -> SUBSET Nat]
  BY DEF UpdatesTo
<1>4. \A P \in fences : P \in [L -> SUBSET Nat]
  <2> SUFFICES ASSUME NEW F \in ClosedFences(m, q) PROVE [l \in L |-> F \cap to[l]] \in [L -> SUBSET Nat]
    OBVIOUS
  <2> HIDE DEF to
  <2> QED BY <1>3
<1>5. \A b \in W0 : Promised(to, fences, {} \cap L, b)
  <2> HIDE DEF to, fences
  <2> QED BY DEF Promised
<1> HIDE DEF to, fences, W0
<1>6. \A b \in W1 : Promised(to, fences, {"a"} \cap L, b)
  <2>1. ({} \cap L) \subseteq L /\ "a" \notin {} \cap L /\ ((({} \cap L) \cup {"a"}) \cap L) = {"a"} \cap L
    OBVIOUS
  <2> HIDE DEF L
  <2> QED BY <1>3, <1>4, <1>5, <2>1, WithRegionIs
<1> HIDE DEF W1
<1>7. \A b \in W2 : Promised(to, fences, {"a", "b"} \cap L, b)
  <2>1. ({"a"} \cap L) \subseteq L /\ "b" \notin {"a"} \cap L /\ ((({"a"} \cap L) \cup {"b"}) \cap L) = {"a", "b"} \cap L
    OBVIOUS
  <2> HIDE DEF L
  <2> QED BY <1>3, <1>4, <1>6, <2>1, WithRegionIs
<1> HIDE DEF W2
<1>8. \A b \in W3 : Promised(to, fences, {"a", "b", "c"} \cap L, b)
  <2>1. /\ ({"a", "b"} \cap L) \subseteq L /\ "c" \notin {"a", "b"} \cap L
        /\ ((({"a", "b"} \cap L) \cup {"c"}) \cap L) = {"a", "b", "c"} \cap L
    OBVIOUS
  <2> HIDE DEF L
  <2> QED BY <1>3, <1>4, <1>7, <2>1, WithRegionIs
<1> HIDE DEF W3
<1>9. \A b \in W4 : Promised(to, fences, {"a", "b", "c", "e"} \cap L, b)
  <2>1. /\ ({"a", "b", "c"} \cap L) \subseteq L /\ "e" \notin {"a", "b", "c"} \cap L
        /\ ((({"a", "b", "c"} \cap L) \cup {"e"}) \cap L) = {"a", "b", "c", "e"} \cap L
    OBVIOUS
  <2> HIDE DEF L
  <2> QED BY <1>3, <1>4, <1>8, <2>1, WithRegionIs
<1> HIDE DEF W4
<1>10. \A b \in W5 : Promised(to, fences, L, b)
  <2>1. /\ ({"a", "b", "c", "e"} \cap L) \subseteq L /\ "i" \notin {"a", "b", "c", "e"} \cap L
        /\ ((({"a", "b", "c", "e"} \cap L) \cup {"i"}) \cap L) = L
    BY <1>2 DEF AllLetters
  <2>2. \A b \in W5 : b \in WithRegion(to, fences, "i", W4)
    OBVIOUS
  <2> HIDE DEF L, W5
  <2> QED BY <1>3, <1>4, <1>9, <2>1, <2>2, WithRegionIs
<1> HIDE DEF W5
<1>11. Promised(to, fences, L, c)
  BY <1>1, <1>10
<1>12. \A F \in ClosedFences(m, q), l \in L, k \in L :
          \A x \in F \cap to[l], y \in F \cap to[k] : x <= c[l] <=> y <= c[k]
  <2> SUFFICES ASSUME NEW F \in ClosedFences(m, q), NEW l \in L, NEW k \in L,
                      NEW x \in F \cap to[l], NEW y \in F \cap to[k]
               PROVE  x <= c[l] <=> y <= c[k]
    OBVIOUS
  <2> DEFINE P == [i \in L |-> F \cap to[i]]
  <2>1. P \in fences /\ x \in P[l] /\ y \in P[k]
    BY DEF fences
  <2> HIDE DEF P
  <2> QED BY <1>11, <2>1 DEF Promised
<1> QED BY <1>11, <1>12 DEF Promised, to

\* Update p of the body is to region l, in a fence f of that id.
SlotAt(m, p, l, f, id) ==
    p \in 1 .. LenOf(m) /\ BodyOf[m][p].node[2] = l /\ InFence(m, p, f, id)

LEMMA SlotPlaces ==
  ASSUME NEW m \in Modes, NEW l \in AllLetters
  PROVE  /\ SlotAt(m, Place(l), l, m.istp, 1)
         /\ m.istp # 0 => SlotAt(m, 9, "i", m.istp, 1)
         /\ \A J \in 1 .. jobcnt : SlotAt(m, RoundAt(l, J), l, m.istp, 100 + J)
         /\ SlotAt(m, o + Place(l), l, m.istp, 5)
         /\ l \in {"a", "b", "e"} =>
               /\ SlotAt(m, Span7(l), l, m.istp, 7)
               /\ SlotAt(m, Span10(l), l, m.istp, 10)
               /\ SlotAt(m, Span10Begins(l), l, m.istp, 10)
         /\ SlotAt(m, o + 21 + Place(l), l, lfence(m), 11)
         /\ m.istp = 0 => SlotAt(m, o + 27, "i", lfence(m), 11)
<1>1. LenOf(m) = o + 27 /\ o \in Nat /\ o >= 20 /\ Place(l) \in 1 .. 5
  BY BodyLen, Sizes
<1>2. \A p \in 1 .. LenOf(m) : InFence(m, p, FenceOf(m, StageOf(p)), StageOf(p))
  BY FenceIds
<1>3. ASSUME NEW p \in 1 .. LenOf(m), NEW n, NEW v, Writes(m, p, n, v), NEW f, NEW id,
             StageOf(p) = id, FenceOf(m, id) = f
      PROVE  SlotAt(m, p, n[2], f, id)
  BY <1>2, <1>3 DEF SlotAt, Writes
<1>4. /\ FenceOf(m, 1) = m.istp /\ FenceOf(m, 5) = m.istp /\ FenceOf(m, 7) = m.istp
      /\ FenceOf(m, 10) = m.istp /\ FenceOf(m, 11) = lfence(m)
  BY DEF FenceOf
<1>5. SlotAt(m, Place(l), l, m.istp, 1)
  <2>1. Writes(m, Place(l), random(l), "val")
    BY StageWrites DEF Place, AllLetters
  <2>2. StageOf(Place(l)) = 1 /\ Place(l) \in 1 .. LenOf(m) /\ random(l)[2] = l
    BY <1>1 DEF StageOf, random
  <2> QED BY <1>3, <1>4, <2>1, <2>2
<1>6. ASSUME m.istp # 0 PROVE SlotAt(m, 9, "i", m.istp, 1)
  <2>1. Writes(m, 9, lasti, "val")
    BY <1>6, StageWrites
  <2>2. StageOf(9) = 1 /\ 9 \in 1 .. LenOf(m) /\ lasti[2] = "i"
    BY <1>1 DEF StageOf, lasti
  <2> QED BY <1>3, <1>4, <2>1, <2>2
<1>7. ASSUME NEW J \in 1 .. jobcnt PROVE SlotAt(m, RoundAt(l, J), l, m.istp, 100 + J)
  <2>1. Writes(m, RoundAt(l, J), randomJ(l, J), "val")
    BY RoundWrites DEF RoundAt, Place, AllLetters
  <2>2. RoundAt(l, J) \in 16 .. o
    BY RoundSizes
  <2>3. RoundAt(l, J) \in 1 .. LenOf(m) /\ randomJ(l, J)[2] = l
    BY <1>1, <2>2 DEF randomJ
  <2>4. 101 + ((RoundAt(l, J) - 16) \div 5) = 100 + J
    BY <1>1, Sizes DEF RoundAt
  <2>5. StageOf(RoundAt(l, J)) = 100 + J
    <3> HIDE DEF o
    <3> QED BY <1>1, <2>2, <2>4 DEF StageOf
  <2>6. FenceOf(m, 100 + J) = m.istp
    BY Sizes DEF FenceOf
  <2> QED BY <1>3, <2>1, <2>3, <2>5, <2>6
<1>8. SlotAt(m, o + Place(l), l, m.istp, 5)
  <2>0. /\ Writes(m, o + 1, randomJ("a", 1), "undef") /\ Writes(m, o + 2, randomJ("b", 1), "undef")
        /\ Writes(m, o + 3, randomJ("c", 1), "undef") /\ Writes(m, o + 4, randomJ("e", 1), "undef")
        /\ Writes(m, o + 5, randomJ("i", 1), "undef")
    BY LaterWrites, Zenon
  <2> HIDE DEF o
  <2>1. Writes(m, o + Place(l), randomJ(l, 1), "undef")
    BY <2>0 DEF Place, AllLetters
  <2>2. StageOf(o + Place(l)) = 5 /\ o + Place(l) \in 1 .. LenOf(m) /\ randomJ(l, 1)[2] = l
    BY <1>1 DEF StageOf, randomJ
  <2> QED BY <1>3, <1>4, <2>1, <2>2
<1>9. ASSUME l \in {"a", "b", "e"}
      PROVE  /\ SlotAt(m, Span7(l), l, m.istp, 7)
             /\ SlotAt(m, Span10(l), l, m.istp, 10)
             /\ SlotAt(m, Span10Begins(l), l, m.istp, 10)
  <2>0. /\ Writes(m, o + 8, span("a"), "stage7") /\ Writes(m, o + 9, span("e"), "stage7")
        /\ Writes(m, o + 10, span("b"), "stage7") /\ Writes(m, o + 18, span("e"), "undef")
        /\ Writes(m, o + 19, span("a"), "stage10")
        /\ Writes(m, o + 20, span("e"), "stage10") /\ Writes(m, o + 21, span("b"), "stage10")
    BY LaterWrites, Zenon
  <2> HIDE DEF o
  <2>1. /\ Writes(m, Span7(l), span(l), "stage7") /\ Writes(m, Span10(l), span(l), "stage10")
        /\ \E v : Writes(m, Span10Begins(l), span(l), v)
    BY <1>9, <2>0 DEF Span7, Span10, Span10Begins
  <2>2. /\ StageOf(Span7(l)) = 7 /\ StageOf(Span10(l)) = 10 /\ StageOf(Span10Begins(l)) = 10
        /\ Span7(l) \in 1 .. LenOf(m) /\ Span10(l) \in 1 .. LenOf(m) /\ Span10Begins(l) \in 1 .. LenOf(m)
    BY <1>1 DEF StageOf, Span7, Span10, Span10Begins
  <2>3. span(l)[2] = l
    BY DEF span
  <2> QED BY <1>3, <1>4, <2>1, <2>2, <2>3
<1>10. SlotAt(m, o + 21 + Place(l), l, lfence(m), 11)
  <2>0. /\ Writes(m, o + 22, ndxarr("a"), "val") /\ Writes(m, o + 23, ndxarr("b"), "val")
        /\ Writes(m, o + 24, ndxarr("c"), "val") /\ Writes(m, o + 25, ndxarr("e"), "val")
        /\ Writes(m, o + 26, ndxarr("i"), "val")
    BY LaterWrites, Zenon
  <2> HIDE DEF o
  <2>1. Writes(m, o + 21 + Place(l), ndxarr(l), "val")
    BY <1>1, <2>0 DEF Place, AllLetters
  <2>2. StageOf(o + 21 + Place(l)) = 11 /\ o + 21 + Place(l) \in 1 .. LenOf(m) /\ ndxarr(l)[2] = l
    BY <1>1 DEF StageOf, ndxarr
  <2> QED BY <1>3, <1>4, <2>1, <2>2
<1>11. ASSUME m.istp = 0 PROVE SlotAt(m, o + 27, "i", lfence(m), 11)
  <2>1. Writes(m, o + 27, lasti, "val")
    BY <1>11, LaterWrites
  <2> HIDE DEF o
  <2>2. StageOf(o + 27) = 11 /\ o + 27 \in 1 .. LenOf(m) /\ lasti[2] = "i"
    BY <1>1 DEF StageOf, lasti
  <2> QED BY <1>3, <1>4, <2>1, <2>2
<1> QED BY <1>5, <1>6, <1>7, <1>8, <1>9, <1>10, <1>11

\* A fence that is closed comes back in both regions or in neither.
LEMMA FenceKept ==
  ASSUME NEW m \in Modes, NEW q \in Nat, NEW c \in Cuts(m, q), NEW t \in 0 .. top - 1,
         NEW p \in 1 .. LenOf(m), NEW r \in 1 .. LenOf(m),
         BodyOf[m][p].id = BodyOf[m][r].id, BodyOf[m][p].id # 0,
         \A i \in 1 .. LenOf(m) : BodyOf[m][i].id = BodyOf[m][p].id => t * LenOf(m) + i <= q,
         NEW l \in m.letters, NEW k \in m.letters, BodyOf[m][p].node[2] = l, BodyOf[m][r].node[2] = k
  PROVE  t * LenOf(m) + p <= c[l] <=> t * LenOf(m) + r <= c[k]
<1> DEFINE N == LenOf(m)
           id == BodyOf[m][p].id
           I == {i \in 1 .. N : BodyOf[m][i].id = id}
           F == {t * N + i : i \in I}
           ids == {BodyOf[m][i].id : i \in 1 .. N} \ {0}
           Of(d) == {i \in 1 .. N : BodyOf[m][i].id = d}
           all == {{s * N + i : i \in Of(d)} : s \in 0 .. top - 1, d \in ids}
<1>1. N \in Nat \ {0} /\ t \in Nat
  BY BodyLen
<1>2. F \in ClosedFences(m, q)
  <2>1. id \in ids /\ F = {t * N + i : i \in Of(id)}
    OBVIOUS
  <2>2. F \in all
    <3> HIDE DEF Of, id, ids, F
    <3> QED BY <2>1
  <2>3. \A x \in F : x <= q
    OBVIOUS
  <2>4. ClosedFences(m, q) = {G \in all : \A x \in G : x <= q}
    BY DEF ClosedFences
  <2> HIDE DEF all, F
  <2> QED BY <2>2, <2>3, <2>4
<1>3. ASSUME NEW s \in 1 .. N, NEW h, BodyOf[m][s].id = id, BodyOf[m][s].node[2] = h
      PROVE  t * N + s \in F \cap UpdatesTo(m, q, h)
  <2>1. t * N + s \in F
    BY <1>3
  <2> HIDE DEF F
  <2>2. t * N + s <= q
    BY <1>3
  <2> HIDE DEF id, N
  <2>3. s - 1 \in 0 .. N - 1 /\ s \in Nat
    BY <1>1
  <2>4. (t * N + (s - 1)) % N = s - 1
    <3> DEFINE u == s - 1
    <3> HIDE DEF u
    <3>1. u \in 0 .. N - 1
      BY <2>3 DEF u
    <3>2. (t * N + u) % N = u
      BY <1>1, <3>1, DivModUnique
    <3> QED BY <3>2 DEF u
  <2>5. t * N \in Nat
    BY <1>1
  <2>6. (t * N + s) - 1 = t * N + (s - 1) /\ t * N + s \in 1 .. q
    <3> DEFINE x == t * N
    <3>1. x \in Nat /\ x + s <= q
      BY <2>2, <2>5
    <3> HIDE DEF x
    <3>2. (x + s) - 1 = x + (s - 1) /\ x + s \in 1 .. q
      BY <1>1, <2>3, <3>1
    <3> QED BY <3>2 DEF x
  <2>7. (((t * N + s) - 1) % N) + 1 = s
    BY <2>3, <2>4, <2>6
  <2>8. BodyOf[m][(((t * N + s) - 1) % N) + 1].node[2] = h
    BY <1>3, <2>7, Zenon
  <2>9. t * N + s \in UpdatesTo(m, q, h)
    BY <2>6, <2>8 DEF UpdatesTo, N
  <2> QED BY <2>1, <2>9
<1>4. t * N + p \in F \cap UpdatesTo(m, q, l) /\ t * N + r \in F \cap UpdatesTo(m, q, k)
  <2> HIDE DEF F, N
  <2>1. p \in 1 .. N /\ r \in 1 .. N
    BY DEF N
  <2> QED BY <1>3, <2>1
<1> DEFINE x == t * N + p
           y == t * N + r
<1> HIDE DEF F, x, y
<1>5. x \in F \cap UpdatesTo(m, q, l) /\ y \in F \cap UpdatesTo(m, q, k)
  BY <1>4 DEF x, y
<1>6. x <= c[l] <=> y <= c[k]
  BY <1>2, <1>5, CutsAre
<1> QED BY <1>6 DEF x, y, N

\* What the job had done of region l at least, says a cut.
LEMMA CutBound ==
  ASSUME NEW m \in Modes, NEW q \in Nat, NEW c \in Cuts(m, q), NEW l \in m.letters
  PROVE  c[l] \in 0 .. q
<1>1. c[l] \in {0} \cup UpdatesTo(m, q, l)
  BY CutsAre
<1> QED BY <1>1 DEF UpdatesTo

\* So does a TP transaction.
LEMMA Together ==
  ASSUME NEW m \in Modes, NEW q \in CommitPoints(m), q \in Nat, NEW c \in Cuts(m, q),
         NEW f \in 1 .. top + 1, NEW n \in 1 .. top, n >= f,
         NEW l \in m.letters, NEW k \in m.letters, NEW id \in Nat \ {0}, NEW p, NEW r,
         SlotAt(m, p, l, 1, id), SlotAt(m, r, k, 1, id)
  PROVE  p <= Parts(m, c, f, n)[l] <=> r <= Parts(m, c, f, n)[k]
<1> DEFINE N == LenOf(m)
           t == n - f
<1>1. N \in Nat \ {0} /\ top \in Nat /\ t \in 0 .. top - 1 /\ t \in Nat
  BY BodyLen, TopNat
<1>2. /\ p \in 1 .. N /\ BodyOf[m][p].node[2] = l /\ BodyOf[m][p].id = id /\ BodyOf[m][p].tp
      /\ r \in 1 .. N /\ BodyOf[m][r].node[2] = k /\ BodyOf[m][r].id = id /\ BodyOf[m][r].tp
  <2>1. /\ p \in 1 .. N /\ BodyOf[m][p].node[2] = l /\ InFence(m, p, 1, id)
        /\ r \in 1 .. N /\ BodyOf[m][r].node[2] = k /\ InFence(m, r, 1, id)
    BY Zenon DEF SlotAt
  <2>2. ASSUME NEW s, InFence(m, s, 1, id) PROVE BodyOf[m][s].id = id /\ BodyOf[m][s].tp
    <3>1. BodyOf[m][s].id = (IF 1 = 0 THEN 0 ELSE id) /\ BodyOf[m][s].tp = (1 = 1)
      BY <2>2, Zenon DEF InFence
    <3>2. BodyOf[m][s].id = id
      BY <3>1
    <3>3. BodyOf[m][s].tp
      BY <3>1, Zenon
    <3> QED BY <3>2, <3>3
  <2> QED BY <2>1, <2>2, Zenon
<1>3. /\ p <= Parts(m, c, f, n)[l] <=> t * N + p <= c[l]
      /\ r <= Parts(m, c, f, n)[k] <=> t * N + r <= c[k]
  <2>1. c[l] \in Nat /\ c[k] \in Nat
    BY CutBound
  <2>2. Parts(m, c, f, n)[l] = InIteration(m, c[l], f, n) /\ Parts(m, c, f, n)[k] = InIteration(m, c[k], f, n)
    BY DEF Parts
  <2> HIDE DEF N, t
  <2>3. /\ p <= InIteration(m, c[l], f, n) <=> (n - f) * LenOf(m) + p <= c[l]
        /\ r <= InIteration(m, c[k], f, n) <=> (n - f) * LenOf(m) + r <= c[k]
    BY <1>2, <2>1, PartsIs DEF N
  <2> QED BY <2>2, <2>3 DEF N, t
<1> HIDE DEF N, t
<1>4. ASSUME NEW s \in 1 .. N, NEW h \in m.letters, BodyOf[m][s].node[2] = h, BodyOf[m][s].id = id, BodyOf[m][s].tp,
             t * N + s <= c[h]
      PROVE  t * N + p <= c[l] <=> t * N + r <= c[k]
  <2>1. t * N + s <= q
    <3> DEFINE x == t * N
    <3>1. x \in Nat /\ c[h] \in 0 .. q
      BY <1>1, CutBound
    <3>2. x + s <= c[h]
      BY <1>4
    <3> HIDE DEF x
    <3>3. x + s <= q
      BY <1>1, <3>1, <3>2
    <3> QED BY <3>3 DEF x
  <2>2. \A i \in 1 .. N : BodyOf[m][i].id = id => t * N + i <= q
    BY <1>1, <1>4, <2>1, PointFence DEF N
  <2> QED BY <1>1, <1>2, <2>2, FenceKept, SMTT(40) DEF N
<1> QED BY <1>2, <1>3, <1>4

\* Whatever recovery gives back after a crash, every iteration of the run is sound.
LEMMA CutSound ==
  ASSUME NEW m \in Modes, m.crash, NEW q \in CommitPoints(m), q \in Nat, NEW c \in Cuts(m, q),
         NEW f \in 1 .. top + 1, NEW n \in 1 .. top, n >= f
  PROVE  Sound(m, Parts(m, c, f, n))
<1> DEFINE k == Parts(m, c, f, n)
           N == LenOf(m)
           t == n - f
<1>1. "a" \in m.letters /\ "i" \in m.letters /\ "a" \in AllLetters /\ \A l \in m.letters : l \in AllLetters
  BY NodesAre DEF AllLetters
<1>2. ASSUME NEW l \in m.letters, NEW h \in m.letters, NEW id \in Nat \ {0}, NEW p, NEW r,
             SlotAt(m, p, l, 1, id), SlotAt(m, r, h, 1, id)
      PROVE  p <= k[l] <=> r <= k[h]
  BY <1>2, Together
<1> HIDE DEF k, o
<1>3. ASSUME m.istp = 1 PROVE InStep(m, k)
  <2> SUFFICES ASSUME NEW l \in m.letters
               PROVE  /\ Place(l) <= k[l] <=> 9 <= k["i"]
                      /\ \A J \in 1 .. jobcnt : RoundAt(l, J) <= k[l] <=> RoundAt("a", J) <= k["a"]
                      /\ o + Place(l) <= k[l] <=> o + 1 <= k["a"]
                      /\ l \in {"a", "b", "e"} =>
                            /\ Span7(l) <= k[l] <=> Span7("a") <= k["a"]
                            /\ Span10Begins(l) <= k[l] <=> Span10("a") <= k["a"]
                            /\ Span10(l) <= k[l] <=> Span10("a") <= k["a"]
                      /\ o + 21 + Place(l) <= k[l] <=> o + 22 <= k["a"]
    BY DEF InStep
  <2>0. m.istp # 0 /\ lfence(m) = 1
    BY <1>3 DEF lfence
  <2>1. Place(l) <= k[l] <=> 9 <= k["i"]
    <3>1. SlotAt(m, Place(l), l, 1, 1) /\ SlotAt(m, 9, "i", 1, 1)
      BY <1>1, <1>3, <2>0, SlotPlaces
    <3> QED BY <1>1, <1>2, <3>1
  <2>2. ASSUME NEW J \in 1 .. jobcnt PROVE RoundAt(l, J) <= k[l] <=> RoundAt("a", J) <= k["a"]
    <3>1. SlotAt(m, RoundAt(l, J), l, 1, 100 + J) /\ SlotAt(m, RoundAt("a", J), "a", 1, 100 + J)
      BY <1>1, <1>3, SlotPlaces
    <3>2. 100 + J \in Nat \ {0}
      BY Sizes
    <3> QED BY <1>1, <1>2, <3>1, <3>2
  <2>3. o + Place(l) <= k[l] <=> o + 1 <= k["a"]
    <3>1. SlotAt(m, o + Place(l), l, 1, 5) /\ SlotAt(m, o + Place("a"), "a", 1, 5)
      BY <1>1, <1>3, SlotPlaces
    <3>2. Place("a") = 1
      BY DEF Place
    <3>3. o + Place(l) <= k[l] <=> o + Place("a") <= k["a"]
      BY <1>1, <1>2, <3>1
    <3> QED BY <3>2, <3>3
  <2>4. ASSUME l \in {"a", "b", "e"}
        PROVE  /\ Span7(l) <= k[l] <=> Span7("a") <= k["a"]
               /\ Span10Begins(l) <= k[l] <=> Span10("a") <= k["a"]
               /\ Span10(l) <= k[l] <=> Span10("a") <= k["a"]
    <3>1. /\ SlotAt(m, Span7(l), l, 1, 7) /\ SlotAt(m, Span10(l), l, 1, 10) /\ SlotAt(m, Span10Begins(l), l, 1, 10)
          /\ SlotAt(m, Span7("a"), "a", 1, 7) /\ SlotAt(m, Span10("a"), "a", 1, 10)
      BY <1>1, <1>3, <2>4, SlotPlaces
    <3>2. Span7(l) <= k[l] <=> Span7("a") <= k["a"]
      BY <1>1, <1>2, <3>1
    <3>3. Span10Begins(l) <= k[l] <=> Span10("a") <= k["a"]
      BY <1>1, <1>2, <3>1
    <3>4. Span10(l) <= k[l] <=> Span10("a") <= k["a"]
      <4>1. SlotAt(m, Span10(l), l, 1, 10) /\ SlotAt(m, Span10("a"), "a", 1, 10)
        BY <3>1
      <4>2. 10 \in Nat \ {0}
        OBVIOUS
      <4> QED BY <1>1, <1>2, <4>1, <4>2
    <3> QED BY <3>2, <3>3, <3>4, Zenon
  <2>5. o + 21 + Place(l) <= k[l] <=> o + 22 <= k["a"]
    <3>1. SlotAt(m, o + 21 + Place(l), l, 1, 11) /\ SlotAt(m, o + 21 + Place("a"), "a", 1, 11)
      BY <1>1, <1>3, <2>0, SlotPlaces
    <3>2. o + 21 + Place("a") = o + 22
      BY Sizes DEF Place
    <3>3. o + 21 + Place(l) <= k[l] <=> o + 21 + Place("a") <= k["a"]
      BY <1>1, <1>2, <3>1
    <3> QED BY <3>2, <3>3
  <2> QED BY <2>1, <2>2, <2>3, <2>4, <2>5
<1>4. ASSUME m.istp = 0, NEW l \in m.letters PROVE o + 21 + Place(l) <= k[l] <=> o + 27 <= k["i"]
  <2>1. lfence(m) = 1
    BY <1>4 DEF lfence
  <2>2. SlotAt(m, o + 21 + Place(l), l, 1, 11) /\ SlotAt(m, o + 27, "i", 1, 11)
    BY <1>1, <1>4, <2>1, SlotPlaces
  <2> QED BY <1>1, <1>2, <2>2
<1>5. ASSUME m.istp = 2, NEW l \in m.letters, o + 21 + Place(l) <= k[l] PROVE 9 <= k["i"]
  <2>1. /\ SlotAt(m, Place(l), l, 2, 1) /\ SlotAt(m, 9, "i", 2, 1)
        /\ SlotAt(m, o + 21 + Place(l), l, lfence(m), 11)
    BY <1>1, <1>5, SlotPlaces
  <2>2. /\ Place(l) \in 1 .. N /\ 9 \in 1 .. N /\ o + 21 + Place(l) \in 1 .. N
        /\ BodyOf[m][Place(l)].id = 1 /\ BodyOf[m][9].id = 1
        /\ BodyOf[m][Place(l)].node[2] = l /\ BodyOf[m][9].node[2] = "i"
    <3> HIDE DEF N
    <3>1. /\ Place(l) \in 1 .. N /\ 9 \in 1 .. N /\ o + 21 + Place(l) \in 1 .. N
          /\ InFence(m, Place(l), 2, 1) /\ InFence(m, 9, 2, 1)
          /\ BodyOf[m][Place(l)].node[2] = l /\ BodyOf[m][9].node[2] = "i"
      BY <2>1, Zenon DEF SlotAt, N
    <3>2. /\ BodyOf[m][Place(l)].id = (IF 2 = 0 THEN 0 ELSE 1)
          /\ BodyOf[m][9].id = (IF 2 = 0 THEN 0 ELSE 1)
      BY <3>1, Zenon DEF InFence
    <3> QED BY <3>1, <3>2
  <2>3. N \in Nat \ {0} /\ t \in 0 .. top - 1 /\ o \in Nat /\ o >= 20 /\ Place(l) \in 1 .. 5 /\ N = o + 27
    BY BodyLen, TopNat, Sizes, <1>1
  <2>4. c[l] \in 0 .. q /\ c["i"] \in 0 .. q
    BY <1>1, CutBound
  <2>5. \A p \in 1 .. N :
           /\ p <= k[l] <=> t * N + p <= c[l]
           /\ p <= k["i"] <=> t * N + p <= c["i"]
    <3>1. k[l] = InIteration(m, c[l], f, n) /\ k["i"] = InIteration(m, c["i"], f, n)
      BY <1>1 DEF k, Parts
    <3>2. c[l] \in Nat /\ c["i"] \in Nat
      BY <2>4
    <3>3. \A p \in 1 .. LenOf(m) : p <= InIteration(m, c[l], f, n) <=> (n - f) * LenOf(m) + p <= c[l]
      BY <3>2, PartsIs
    <3>4. \A p \in 1 .. LenOf(m) : p <= InIteration(m, c["i"], f, n) <=> (n - f) * LenOf(m) + p <= c["i"]
      BY <3>2, PartsIs
    <3> QED BY <3>1, <3>3, <3>4, Zenon DEF N, t
  <2> HIDE DEF N, t
  <2> DEFINE x == t * N
  <2>6. x \in Nat
    BY <2>3
  <2>7. x + (o + 21 + Place(l)) <= c[l]
    BY <1>5, <2>2, <2>5
  <2>8. \A i \in 1 .. N : BodyOf[m][i].id = 1 => i <= 9
    <3>1. \A p \in 1 .. N : InFence(m, p, FenceOf(m, StageOf(p)), StageOf(p))
      BY FenceIds DEF N
    <3> SUFFICES ASSUME NEW i \in 1 .. N, BodyOf[m][i].id = 1 PROVE i <= 9
      OBVIOUS
    <3>2. StageOf(i) = 1
      BY <3>1 DEF InFence
    <3> QED BY <2>3, <3>2, Sizes DEF StageOf
  <2>9. \A i \in 1 .. N : BodyOf[m][i].id = BodyOf[m][Place(l)].id => x + i <= q
    <3> HIDE DEF x
    <3> QED BY <2>2, <2>3, <2>4, <2>6, <2>7, <2>8
  <2>10. BodyOf[m][Place(l)].id = BodyOf[m][9].id /\ BodyOf[m][Place(l)].id # 0
    BY <2>2
  <2>11. x + Place(l) <= c[l] <=> x + 9 <= c["i"]
    <3>1. /\ x = t * LenOf(m) /\ Place(l) \in 1 .. LenOf(m) /\ 9 \in 1 .. LenOf(m)
          /\ \A i \in 1 .. LenOf(m) : BodyOf[m][i].id = BodyOf[m][Place(l)].id => t * LenOf(m) + i <= q
      BY <2>2, <2>9 DEF N
    <3>2. t * LenOf(m) + Place(l) <= c[l] <=> t * LenOf(m) + 9 <= c["i"]
      <4>1. t \in 0 .. top - 1 /\ q \in Nat /\ "i" \in m.letters
        BY <1>1, <2>3
      <4> DEFINE p == Place(l)
                 r == 9
      <4>2. /\ p \in 1 .. LenOf(m) /\ r \in 1 .. LenOf(m)
            /\ \A i \in 1 .. LenOf(m) : BodyOf[m][i].id = BodyOf[m][p].id => t * LenOf(m) + i <= q
            /\ BodyOf[m][p].id = BodyOf[m][r].id /\ BodyOf[m][p].id # 0
            /\ BodyOf[m][p].node[2] = l /\ BodyOf[m][r].node[2] = "i"
        BY <2>2, <2>10, <3>1, Zenon
      <4> HIDE DEF p, r
      <4>3. t * LenOf(m) + p <= c[l] <=> t * LenOf(m) + r <= c["i"]
        BY <4>1, <4>2, FenceKept
      <4> QED BY <4>3 DEF p, r
    <3> QED BY <3>1, <3>2
  <2>12. x + Place(l) <= c[l]
    <3> HIDE DEF x
    <3> QED BY <2>3, <2>4, <2>6, <2>7
  <2> QED BY <2>2, <2>5, <2>11, <2>12
<1>6. Sound(m, k)
  BY <1>3, <1>4, <1>5 DEF Sound
<1> QED BY <1>6 DEF k

-----------------------------------------------------------------------------
(* ^cntloop *)

\* What job j adds to the sum, and the sums over the first jobs.
Addend(f, j) == IF j \in DOMAIN f THEN f[j] ELSE 0
Sums(s, f, q) == s \in [0 .. q -> Nat] /\ s[0] = 0 /\ \A j \in 1 .. q : s[j] = s[j - 1] + Addend(f, j)

LEMMA SumsExist ==
  ASSUME NEW q \in Nat, NEW f, \A j \in 1 .. q : Addend(f, j) \in Nat
  PROVE  \E s : Sums(s, f, q)
<1> DEFINE T == {i \in 0 .. q : ~ \E s : Sums(s, f, i)}
<1>1. SUFFICES ASSUME T # {} PROVE FALSE
  <2>1. q \in 0 .. q
    OBVIOUS
  <2> QED BY <2>1
<1>2. T \subseteq Nat
  OBVIOUS
<1>3. PICK i \in T : \A y \in T : i <= y
  <2> HIDE DEF T
  <2> QED BY <1>1, <1>2, LeastNat
<1>4. CASE i = 0
  <2> DEFINE g == [j \in 0 .. 0 |-> 0]
  <2>1. Sums(g, f, 0)
    BY DEF Sums
  <2> HIDE DEF g
  <2> QED BY <1>3, <1>4, <2>1
<1>5. CASE i # 0
  <2>0. i \in 0 .. q
    BY <1>3
  <2>1. i \in 1 .. q /\ i - 1 \in 0 .. q /\ i - 1 \notin T
    <3> HIDE DEF T
    <3> QED BY <2>0, <1>3, <1>5
  <2>2. PICK s : Sums(s, f, i - 1)
    BY <2>1
  <2>3. s \in [0 .. (i - 1) -> Nat] /\ s[0] = 0 /\ \A j \in 1 .. (i - 1) : s[j] = s[j - 1] + Addend(f, j)
    BY <2>2 DEF Sums
  <2> DEFINE x == s[i - 1] + Addend(f, i)
             g == [j \in 0 .. i |-> IF j = i THEN x ELSE s[j]]
  <2>4. x \in Nat
    BY <2>1, <2>3
  <2> HIDE DEF x
  <2>5. g \in [0 .. i -> Nat]
    BY <2>1, <2>3, <2>4
  <2>6. g[0] = 0
    BY <2>1, <2>3
  <2>7. ASSUME NEW j \in 1 .. i PROVE g[j] = g[j - 1] + Addend(f, j)
    <3>1. CASE j = i
      BY <2>1, <3>1 DEF x
    <3>2. CASE j # i
      <4>1. j \in 1 .. (i - 1) /\ j - 1 \in 0 .. i /\ j - 1 # i
        BY <2>1, <3>2
      <4>2. g[j] = s[j] /\ g[j - 1] = s[j - 1]
        BY <4>1, <3>2
      <4> QED BY <4>1, <4>2, <2>3
    <3> QED BY <3>1, <3>2
  <2>8. Sums(g, f, i)
    BY <2>5, <2>6, <2>7 DEF Sums
  <2> HIDE DEF g
  <2> QED BY <1>3, <2>8
<1> QED BY <1>4, <1>5

LEMMA TotalSums ==
  ASSUME NEW f, \A j \in 1 .. jobcnt : Addend(f, j) \in Nat
  PROVE  \E s : Sums(s, f, jobcnt) /\ Total(f) = s[jobcnt]
<1> DEFINE N == jobcnt
           Eq(s) == s = [j \in 0 .. N |-> IF j = 0 THEN 0 ELSE s[j - 1] + (IF j \in DOMAIN f THEN f[j] ELSE 0)]
           F == CHOOSE s : Eq(s)
<1>1. N \in Nat
  BY StageAssumption
<1>2. Total(f) = F[N]
  BY DEF Total
<1>3. PICK g : Sums(g, f, N)
  BY <1>1, SumsExist
<1> HIDE DEF N
<1>4. g \in [0 .. N -> Nat] /\ g[0] = 0 /\ \A j \in 1 .. N : g[j] = g[j - 1] + Addend(f, j)
  BY <1>3 DEF Sums
<1>5. Eq(g)
  <2>1. \A j \in 0 .. N : g[j] = IF j = 0 THEN 0 ELSE g[j - 1] + (IF j \in DOMAIN f THEN f[j] ELSE 0)
    <3> SUFFICES ASSUME NEW j \in 0 .. N, j # 0 PROVE g[j] = g[j - 1] + Addend(f, j)
      BY <1>4 DEF Addend
    <3>1. j \in 1 .. N
      BY <1>1
    <3> QED BY <3>1, <1>4
  <2> QED BY <1>4, <2>1
<1>6. Eq(F)
  <2> HIDE DEF Eq
  <2> QED BY <1>5
<1> HIDE DEF F
<1>7. \A j \in 0 .. N : F[j] = IF j = 0 THEN 0 ELSE F[j - 1] + Addend(f, j)
  BY <1>6 DEF Addend
<1> DEFINE T == {j \in 0 .. N : F[j] # g[j]}
<1>8. T = {}
  <2> SUFFICES ASSUME T # {} PROVE FALSE
    OBVIOUS
  <2>1. PICK j \in T : \A y \in T : j <= y
    <3>1. T \subseteq Nat
      OBVIOUS
    <3> HIDE DEF T
    <3> QED BY <3>1, LeastNat
  <2>2. j \in 0 .. N /\ F[j] # g[j]
    BY <2>1
  <2>3. j # 0
    BY <2>2, <1>7, <1>4
  <2>4. j \in 1 .. N /\ j - 1 \in 0 .. N /\ j - 1 \notin T
    <3> HIDE DEF T
    <3> QED BY <1>1, <2>1, <2>2, <2>3
  <2>5. F[j - 1] = g[j - 1]
    BY <2>4
  <2> QED BY <2>2, <2>3, <2>4, <2>5, <1>4, <1>7
<1>9. F[N] = g[N]
  <2>1. N \in 0 .. N
    BY <1>1
  <2> QED BY <2>1, <1>8
<1> QED BY <1>2, <1>3, <1>9 DEF N

\* The numbers of the jobs J are f, and h when that of job k has changed.
OnlyOf(J, k, f, h) ==
    J \subseteq 1 .. jobcnt /\ k \in J /\ f \in [J -> Nat] /\ h \in [J -> Nat] /\ \A j \in J : j # k => h[j] = f[j]

\* The sum changes by as much.
LEMMA TotalDiffers ==
  ASSUME NEW J, NEW k, NEW f, NEW h, OnlyOf(J, k, f, h)
  PROVE  Total(h) = Total(f) + (h[k] - f[k])
<1> DEFINE N == jobcnt
           d == h[k] - f[k]
<1>0. N \in Nat /\ J \subseteq 1 .. jobcnt /\ k \in J /\ f \in [J -> Nat] /\ h \in [J -> Nat]
      /\ \A j \in J : j # k => h[j] = f[j]
  BY StageAssumption DEF OnlyOf
<1>d. d \in Int /\ h[k] = f[k] + d
  BY <1>0
<1> HIDE DEF d
<1>1. \A j : Addend(f, j) \in Nat /\ Addend(h, j) \in Nat
  BY <1>0 DEF Addend
<1>2. \A j : Addend(h, j) = Addend(f, j) + (IF j = k THEN d ELSE 0)
  <2> SUFFICES ASSUME NEW j PROVE Addend(h, j) = Addend(f, j) + (IF j = k THEN d ELSE 0)
    OBVIOUS
  <2>1. CASE j = k
    BY <1>0, <1>d, <2>1 DEF Addend
  <2>2. CASE j \in J /\ j # k
    <3>1. Addend(h, j) = h[j] /\ Addend(f, j) = f[j] /\ h[j] = f[j] /\ f[j] \in Nat
      BY <1>0, <2>2 DEF Addend
    <3> QED BY <2>2, <3>1
  <2>3. CASE j \notin J
    <3>1. Addend(h, j) = 0 /\ Addend(f, j) = 0 /\ j # k
      BY <1>0, <2>3 DEF Addend
    <3> QED BY <3>1
  <2> QED BY <2>1, <2>2, <2>3
<1>3. PICK s : Sums(s, f, N) /\ Total(f) = s[N]
  BY <1>1, TotalSums
<1>4. PICK u : Sums(u, h, N) /\ Total(h) = u[N]
  BY <1>1, TotalSums
<1>5. k \in 1 .. N
  BY <1>0
<1> HIDE DEF N
<1>6. s \in [0 .. N -> Nat] /\ s[0] = 0 /\ \A j \in 1 .. N : s[j] = s[j - 1] + Addend(f, j)
  BY <1>3 DEF Sums
<1>7. u \in [0 .. N -> Nat] /\ u[0] = 0 /\ \A j \in 1 .. N : u[j] = u[j - 1] + Addend(h, j)
  BY <1>4 DEF Sums
<1> DEFINE T == {j \in 0 .. N : u[j] # s[j] + (IF j < k THEN 0 ELSE d)}
<1>8. T = {}
  <2> SUFFICES ASSUME T # {} PROVE FALSE
    OBVIOUS
  <2>1. PICK j \in T : \A y \in T : j <= y
    <3>1. T \subseteq Nat
      OBVIOUS
    <3> HIDE DEF T
    <3> QED BY <3>1, LeastNat
  <2>2. j \in 0 .. N /\ u[j] # s[j] + (IF j < k THEN 0 ELSE d)
    BY <2>1
  <2>3. j # 0
    BY <1>d, <1>5, <1>6, <1>7, <2>2
  <2>4. j \in 1 .. N /\ j - 1 \in 0 .. N /\ j - 1 \notin T
    <3> HIDE DEF T
    <3> QED BY <1>0, <2>1, <2>2, <2>3
  <2>5. u[j - 1] = s[j - 1] + (IF j - 1 < k THEN 0 ELSE d)
    BY <2>4
  <2>6. u[j] = u[j - 1] + Addend(h, j) /\ s[j] = s[j - 1] + Addend(f, j)
    BY <1>6, <1>7, <2>4
  <2>7. s[j - 1] \in Nat /\ Addend(f, j) \in Nat /\ Addend(h, j) = Addend(f, j) + (IF j = k THEN d ELSE 0)
    BY <1>1, <1>2, <1>6, <2>4
  <2> QED BY <1>d, <1>5, <2>2, <2>4, <2>5, <2>6, <2>7
<1>9. N \in 0 .. N /\ ~(N < k)
  BY <1>0, <1>5
<1>10. u[N] = s[N] + d
  BY <1>8, <1>9
<1> QED BY <1>3, <1>4, <1>10 DEF d

\* The sum of numbers that are at most b.
LEMMA TotalBound ==
  ASSUME NEW J, J \subseteq 1 .. jobcnt, NEW b \in Nat, NEW f \in [J -> 0 .. b]
  PROVE  Total(f) \in 0 .. Cardinality(J) * b
<1> DEFINE N == jobcnt
           c(j) == Cardinality(J \cap 1 .. j)
<1>0. N \in Nat
  BY StageAssumption
<1>1. \A j : Addend(f, j) \in Nat /\ (j \in J => Addend(f, j) <= b) /\ (j \notin J => Addend(f, j) = 0)
  <2> SUFFICES ASSUME NEW j
               PROVE  Addend(f, j) \in Nat /\ (j \in J => Addend(f, j) <= b) /\ (j \notin J => Addend(f, j) = 0)
    OBVIOUS
  <2>1. CASE j \in J
    <3>1. Addend(f, j) = f[j] /\ f[j] \in 0 .. b
      BY <2>1 DEF Addend
    <3> QED BY <2>1, <3>1
  <2>2. CASE j \notin J
    <3>1. Addend(f, j) = 0
      BY <2>2 DEF Addend
    <3> QED BY <2>2, <3>1
  <2> QED BY <2>1, <2>2
<1>2. PICK s : Sums(s, f, N) /\ Total(f) = s[N]
  BY <1>1, TotalSums
<1>c. c(0) = 0 /\ c(N) = Cardinality(J)
      /\ \A j \in 1 .. N : c(j) \in Nat /\ c(j - 1) \in Nat /\ c(j) = c(j - 1) + (IF j \in J THEN 1 ELSE 0)
  <2>1. J \cap 1 .. 0 = {} /\ J \cap 1 .. N = J
    <3>1. 1 .. 0 = {}
      OBVIOUS
    <3>2. J \cap 1 .. N = J
      OBVIOUS
    <3> QED BY <3>1, <3>2
  <2>2. Cardinality({}) = 0
    BY FS_EmptySet
  <2>3. ASSUME NEW j \in 1 .. N
        PROVE  c(j) \in Nat /\ c(j - 1) \in Nat /\ c(j) = c(j - 1) + (IF j \in J THEN 1 ELSE 0)
    <3> DEFINE A == J \cap 1 .. (j - 1)
               B == J \cap 1 .. j
    <3>1. IsFiniteSet(1 .. (j - 1)) /\ A \subseteq 1 .. (j - 1)
      BY FS_Interval
    <3>2. IsFiniteSet(A) /\ Cardinality(A) \in Nat
      BY <3>1, FS_Subset, FS_CardinalityType
    <3>3. B = (IF j \in J THEN A \cup {j} ELSE A) /\ j \notin A
      BY <1>0
    <3>4. Cardinality(B) = Cardinality(A) + (IF j \in J THEN 1 ELSE 0)
      <4> HIDE DEF A, B
      <4>1. Cardinality(A \cup {j}) = Cardinality(A) + 1
        BY <3>2, <3>3, FS_AddElement
      <4> QED BY <3>2, <3>3, <4>1
    <3> QED BY <3>2, <3>4
  <2> QED BY <2>1, <2>2, <2>3
<1> HIDE DEF N, c
<1>3. s \in [0 .. N -> Nat] /\ s[0] = 0 /\ \A j \in 1 .. N : s[j] = s[j - 1] + Addend(f, j)
  BY <1>2 DEF Sums
<1> DEFINE T == {j \in 0 .. N : s[j] > c(j) * b}
<1>4. T = {}
  <2> SUFFICES ASSUME T # {} PROVE FALSE
    OBVIOUS
  <2>1. PICK j \in T : \A y \in T : j <= y
    <3>1. T \subseteq Nat
      OBVIOUS
    <3> HIDE DEF T
    <3> QED BY <3>1, LeastNat
  <2>2. j \in 0 .. N /\ s[j] > c(j) * b
    BY <2>1
  <2>3. j # 0
    BY <1>3, <1>c, <2>2
  <2>4. j \in 1 .. N /\ j - 1 \in 0 .. N /\ j - 1 \notin T
    <3> HIDE DEF T
    <3> QED BY <1>0, <2>1, <2>2, <2>3
  <2> DEFINE u == c(j - 1)
             v == c(j)
             x == u * b
             y == v * b
  <2>5. s[j - 1] <= x /\ s[j - 1] \in Nat
    <3>1. c(j - 1) \in Nat /\ s[j - 1] \in Nat
      BY <1>3, <1>c, <2>4
    <3>2. c(j - 1) * b \in Nat
      BY <3>1
    <3>3. ~(s[j - 1] > c(j - 1) * b)
      BY <2>4
    <3> QED BY <3>1, <3>2, <3>3
  <2>6. s[j] = s[j - 1] + Addend(f, j) /\ s[j] > y
    BY <1>3, <2>2, <2>4
  <2>7. u \in Nat /\ v \in Nat /\ v = u + (IF j \in J THEN 1 ELSE 0)
    BY <1>c, <2>4
  <2> HIDE DEF u, v
  <2>8. x \in Nat /\ y = x + (IF j \in J THEN b ELSE 0)
    <3>1. (u + 1) * b = u * b + b
      BY <2>7
    <3> QED BY <2>7, <3>1
  <2> HIDE DEF x, y
  <2> QED BY <1>1, <2>5, <2>6, <2>8
<1>5. N \in 0 .. N
  BY <1>0
<1>6. s[N] <= c(N) * b /\ s[N] \in Nat
  <2>1. c(N) * b \in Nat
    <3>1. c(N) \in Nat
      <4>1. CASE N = 0
        BY <1>c, <4>1
      <4>2. CASE N # 0
        <5>1. N \in 1 .. N
          BY <1>0, <4>2
        <5> QED BY <1>c, <5>1
      <4> QED BY <4>1, <4>2
    <3> QED BY <3>1
  <2> QED BY <1>3, <1>4, <1>5, <2>1
<1>7. Total(f) \in 0 .. c(N) * b
  <2> DEFINE x == c(N) * b
  <2>1. s[N] <= x /\ s[N] \in Nat
    BY <1>6
  <2> HIDE DEF x
  <2>2. Total(f) \in 0 .. x
    BY <1>2, <2>1
  <2> QED BY <2>2 DEF x
<1> QED BY <1>7, <1>c

LEMMA TotalZero ==
  ASSUME NEW J, J \subseteq 1 .. jobcnt, NEW f \in [J -> {0}]
  PROVE  Total(f) = 0
<1>1. f \in [J -> 0 .. 0]
  OBVIOUS
<1>2. Total(f) \in 0 .. Cardinality(J) * 0
  BY <1>1, TotalBound
<1>3. Cardinality(J) * 0 = 0
  <2>1. IsFiniteSet(1 .. jobcnt)
    BY StageAssumption, FS_Interval
  <2>2. Cardinality(J) \in Nat
    BY <2>1, FS_Subset, FS_CardinalityType
  <2> QED BY <2>2
<1> QED BY <1>2, <1>3

\* Where the body increments ^cntloop.
LEMMA IncrAtIs ==
  ASSUME NEW m \in Modes
  PROVE  incrAt(m) = o + 17 /\ BodyOf[m][o + 17].node = cntloopNode(m)
         /\ \A p \in 1 .. LenOf(m) : BodyOf[m][p].node = cntloopNode(m) => p = o + 17
<1>1. \A p \in 1 .. LenOf(m) : BodyOf[m][p].node = cntloopNode(m) => p = o + 17
  <2>1. \A p \in 1 .. LenOf(m) : WriterOf(m, p, BodyOf[m][p].node)
    BY OnlyWriters
  <2> QED BY <2>1, Zenon DEF WriterOf
<1>2. BodyOf[m][o + 17].node = cntloopNode(m)
  BY LaterWrites, ZenonT(60) DEF Writes
<1>3. o + 17 \in 1 .. LenOf(m)
  <2>1. LenOf(m) = o + 27 /\ o \in Nat
    BY BodyLen
  <2> HIDE DEF o
  <2> QED BY <2>1
<1> HIDE DEF o
<1>4. incrAt(m) = o + 17
  BY <1>1, <1>2, <1>3 DEF incrAt
<1> QED BY <1>1, <1>2, <1>4

\* The number of $incr of a run: at most one for each iteration begun, and exactly
\* one for each that is done.
LEMMA IncrsIs ==
  ASSUME NEW m \in Modes, NEW q \in Nat
  PROVE  /\ Incrs(m, q) \in Nat
         /\ q % LenOf(m) = 0 => Incrs(m, q) = q \div LenOf(m)
         /\ q <= top * LenOf(m) => Incrs(m, q) <= top
<1> DEFINE N == LenOf(m)
           t == q \div N
           r == q % N
<1>1. N \in Nat \ {0} /\ N = o + 27 /\ o \in Nat /\ top \in Nat /\ incrAt(m) = o + 17
  BY BodyLen, TopNat, IncrAtIs
<1> HIDE DEF o, N
<1>2. t \in Nat /\ r \in 0 .. N - 1 /\ q = t * N + r
  BY <1>1, DivMod
<1>3. Incrs(m, q) = t + (IF r >= incrAt(m) THEN 1 ELSE 0)
  BY DEF Incrs, N
<1> HIDE DEF t, r
<1>4. ASSUME q <= top * N PROVE t + (IF r >= incrAt(m) THEN 1 ELSE 0) <= top
  <2> SUFFICES ASSUME t + (IF r >= incrAt(m) THEN 1 ELSE 0) >= top + 1 PROVE FALSE
    BY <1>1, <1>2
  <2>1. top <= t /\ (t = top => r >= 17)
    BY <1>1, <1>2
  <2>2. top * N <= t * N /\ t * N \in Nat /\ top * N \in Nat
    BY <1>1, <1>2, <2>1, TimesMono
  <2>3. CASE t = top
    BY <1>2, <1>4, <2>1, <2>2, <2>3
  <2>4. CASE t # top
    <3>1. top + 1 <= t /\ top + 1 \in Nat
      BY <1>1, <1>2, <2>1, <2>4
    <3>2. (top + 1) * N <= t * N
      BY <1>1, <1>2, <3>1, TimesMono
    <3>3. (top + 1) * N = top * N + N
      BY <1>1
    <3> DEFINE x == top * N
               y == t * N
    <3>4. x + N <= y /\ q = y + r /\ q <= x /\ x \in Nat /\ y \in Nat
      BY <1>2, <1>4, <2>2, <3>2, <3>3
    <3> HIDE DEF x, y
    <3> QED BY <1>1, <1>2, <3>4
  <2> QED BY <2>3, <2>4
<1>5. r = 0 => Incrs(m, q) = t
  BY <1>1, <1>2, <1>3
<1>6. q <= top * N => Incrs(m, q) <= top
  BY <1>3, <1>4
<1>7. Incrs(m, q) \in Nat
  BY <1>2, <1>3
<1> QED BY <1>5, <1>6, <1>7 DEF N, t, r

-----------------------------------------------------------------------------
(* What a run leaves in the database *)

\* c adds up what the jobs J count: g in earlier runs, and the $incr among the
\* first q updates of this one.
Adds(m, J, g, q, c) ==
    g \in [J -> Nat] /\ q \in [J -> Nat] /\ c = Total([j \in J |-> g[j] + Incrs(m, q[j])])

LEMMA AddsNat ==
  ASSUME NEW m \in Modes, NEW x \in Nat, NEW y \in Nat
  PROVE  x + Incrs(m, y) \in Nat
<1>1. Incrs(m, y) \in Nat
  BY IncrsIs
<1> QED BY <1>1

\* One job counts.
LEMMA AddsOne ==
  ASSUME NEW m \in Modes, NEW J, J \subseteq 1 .. jobcnt, NEW g, NEW q, NEW c, Adds(m, J, g, q, c),
         NEW k, k \in J, NEW h \in Nat, NEW r \in Nat,
         NEW e, e = c + ((h + Incrs(m, r)) - (g[k] + Incrs(m, q[k])))
  PROVE  Adds(m, J, [g EXCEPT ![k] = h], [q EXCEPT ![k] = r], e)
<1> DEFINE gg == [g EXCEPT ![k] = h]
           qq == [q EXCEPT ![k] = r]
           a == [j \in J |-> g[j] + Incrs(m, q[j])]
           b == [j \in J |-> gg[j] + Incrs(m, qq[j])]
<1>1. g \in [J -> Nat] /\ q \in [J -> Nat] /\ c = Total(a)
  BY DEF Adds
<1>2. gg \in [J -> Nat] /\ qq \in [J -> Nat]
  BY <1>1
<1>3. a \in [J -> Nat] /\ b \in [J -> Nat]
  <2> HIDE DEF gg, qq
  <2>1. \A j \in J : gg[j] + Incrs(m, qq[j]) \in Nat
    BY <1>2, AddsNat
  <2>2. \A j \in J : g[j] + Incrs(m, q[j]) \in Nat
    BY <1>1, AddsNat
  <2> QED BY <2>1, <2>2
<1>4. \A j \in J : j # k => b[j] = a[j]
  BY <1>1
<1>5. a[k] = g[k] + Incrs(m, q[k]) /\ b[k] = h + Incrs(m, r)
  BY <1>1
<1>6. e = c + (b[k] - a[k])
  BY <1>5
<1> HIDE DEF a, b
<1>7. Total(b) = Total(a) + (b[k] - a[k])
  <2>1. OnlyOf(J, k, a, b)
    BY <1>3, <1>4 DEF OnlyOf
  <2> QED BY <2>1, TotalDiffers
<1>8. e = Total(b)
  BY <1>1, <1>6, <1>7
<1> HIDE DEF gg, qq
<1>9. Adds(m, J, gg, qq, e)
  BY <1>2, <1>8 DEF Adds, b
<1> QED BY <1>9 DEF gg, qq

\* A run of the jobs becomes an earlier one.
LEMMA AddsSame ==
  ASSUME NEW m \in Modes, NEW J, NEW g, NEW q, NEW c, Adds(m, J, g, q, c), NEW h \in [J -> Nat], NEW r \in [J -> Nat],
         \A j \in J : h[j] + Incrs(m, r[j]) = g[j] + Incrs(m, q[j])
  PROVE  Adds(m, J, h, r, c)
<1>1. [j \in J |-> h[j] + Incrs(m, r[j])] = [j \in J |-> g[j] + Incrs(m, q[j])]
  OBVIOUS
<1> QED BY <1>1 DEF Adds

\* So what the jobs count is bounded.
LEMMA AddsBound ==
  ASSUME NEW m \in Modes, NEW J, J \subseteq 1 .. jobcnt, NEW g, NEW q, NEW c, Adds(m, J, g, q, c), NEW b \in Nat,
         \A j \in J : g[j] + Incrs(m, q[j]) \in 0 .. b
  PROVE  c \in 0 .. Cardinality(J) * b
<1> DEFINE a == [j \in J |-> g[j] + Incrs(m, q[j])]
<1>1. a \in [J -> 0 .. b] /\ c = Total(a)
  BY DEF Adds
<1> HIDE DEF a
<1> QED BY <1>1, TotalBound

\* Nothing has been counted.
LEMMA AddsZero ==
  ASSUME NEW m \in Modes, NEW J, J \subseteq 1 .. jobcnt
  PROVE  Adds(m, J, [j \in J |-> 0], [j \in J |-> 0], 0)
<1> DEFINE z == [j \in J |-> 0]
           a == [j \in J |-> z[j] + Incrs(m, z[j])]
<1>1. z \in [J -> Nat] /\ \A j \in J : z[j] = 0
  OBVIOUS
<1>2. Incrs(m, 0) = 0
  <2>1. LenOf(m) \in Nat \ {0}
    BY BodyLen
  <2>2. 0 % LenOf(m) = 0 /\ 0 \div LenOf(m) = 0
    BY <2>1
  <2> QED BY <2>2, IncrsIs
<1> HIDE DEF z
<1>3. a \in [J -> {0}]
  BY <1>1, <1>2
<1>4. Total(a) = 0
  BY <1>3, TotalZero
<1>5. Adds(m, J, z, z, 0)
  BY <1>1, <1>4 DEF Adds
<1> QED BY <1>5 DEF z

\* Iterations that are there in full, or not at all, are sound.
LEMMA WholeSound ==
  ASSUME NEW m \in Modes, NEW k, NEW x \in {0, LenOf(m)}, k = [l \in m.letters |-> x]
  PROVE  Sound(m, k)
<1>1. LenOf(m) = o + 27 /\ o \in Nat /\ o >= 20
  BY BodyLen
<1>2. \A l \in m.letters : l \in AllLetters /\ k[l] = x /\ Place(l) \in 1 .. 5
  BY NodesAre, Sizes
<1>3. "a" \in m.letters /\ "i" \in m.letters /\ k["a"] = x /\ k["i"] = x /\ Place("a") = 1
  BY NodesAre DEF Place
<1>4. \A l \in m.letters, J \in 1 .. jobcnt : RoundAt(l, J) \in 16 .. o /\ RoundAt("a", J) \in 16 .. o
  BY <1>2, <1>3, RoundSizes
<1> HIDE DEF o
<1>5. \A l \in m.letters :
         /\ Place(l) <= k[l] <=> 9 <= k["i"]
         /\ o + Place(l) <= k[l] <=> o + 1 <= k["a"]
         /\ o + 21 + Place(l) <= k[l] <=> o + 22 <= k["a"]
         /\ o + 21 + Place(l) <= k[l] <=> o + 27 <= k["i"]
         /\ o + 21 + Place(l) <= k[l] <=> 9 <= k["i"]
  BY <1>1, <1>2, <1>3
<1>6. \A l \in m.letters : \A J \in 1 .. jobcnt : RoundAt(l, J) <= k[l] <=> RoundAt("a", J) <= k["a"]
  BY <1>1, <1>2, <1>3, <1>4
<1>7. \A l \in {"a", "b", "e"} :
         /\ Span7(l) \in 1 .. o + 27 /\ Span10(l) \in 1 .. o + 27 /\ Span10Begins(l) \in 1 .. o + 27
  BY <1>1 DEF Span7, Span10, Span10Begins
<1>8. \A l \in m.letters : l \in {"a", "b", "e"} =>
         /\ Span7(l) <= k[l] <=> Span7("a") <= k["a"]
         /\ Span10Begins(l) <= k[l] <=> Span10("a") <= k["a"]
         /\ Span10(l) <= k[l] <=> Span10("a") <= k["a"]
  BY <1>1, <1>2, <1>3, <1>7
<1>9. InStep(m, k)
  BY <1>5, <1>6, <1>8 DEF InStep
<1> QED BY <1>5, <1>9 DEF Sound

\* A run that ended between two iterations: ^lasti counts all of its iterations.
LEMMA WholeRun ==
  ASSUME NEW m \in Modes, NEW f \in 1 .. top + 1, NEW dbs, DbIs(m, dbs, f - 1), NEW t \in Nat, f + t <= top + 1,
         NEW cut, cut = [l \in m.letters |-> t * LenOf(m)]
  PROVE  /\ DbIs(m, Recovered(m, dbs, f, cut), LastiOf(Recovered(m, dbs, f, cut)))
         /\ LastiOf(Recovered(m, dbs, f, cut)) = f - 1 + t
<1> DEFINE N == LenOf(m)
           q == t * N
           s == IF m.istp = 0 THEN o + 27 ELSE 9
           last == LastiOf(Recovered(m, dbs, f, cut))
<1>1. N \in Nat \ {0} /\ N = o + 27 /\ o \in Nat /\ o >= 20 /\ top \in Nat
  BY BodyLen, TopNat
<1>2. s \in 1 .. N
  <2> HIDE DEF o
  <2> QED BY <1>1
<1> HIDE DEF N
<1>3. q \in Nat
  BY <1>1
<1>4. cut \in [m.letters -> Nat] /\ cut["i"] = q
  BY <1>3, NodesAre DEF N
<1>5. ASSUME NEW n \in 1 .. top, n >= f
      PROVE  /\ n - f < t => (n - f + 1) * N <= q /\ InIteration(m, q, f, n) = N
             /\ n - f >= t => q <= (n - f) * N /\ InIteration(m, q, f, n) = 0
             /\ (n - f) * N + s <= q <=> n - f < t
  <2>1. n - f \in Nat /\ n - f + 1 \in Nat
    BY <1>5
  <2>2. (n - f + 1) * N = (n - f) * N + N /\ (n - f) * N \in Nat
    BY <1>1, <2>1
  <2> DEFINE x == (n - f) * N
             y == (n - f + 1) * N
  <2>3. n - f < t => y <= q
    <3> HAVE n - f < t
    <3>1. n - f + 1 <= t
      BY <2>1
    <3> QED BY <1>1, <2>1, <3>1, TimesMono
  <2>4. n - f >= t => q <= x
    BY <1>1, <2>1, TimesMono
  <2>5. InIteration(m, q, f, n) = IF n < f \/ q <= x THEN 0 ELSE IF q >= y THEN N ELSE q - x
    BY DEF InIteration, N
  <2>6. y = x + N /\ x \in Nat
    BY <2>2
  <2> HIDE DEF x, y, q, s
  <2>7. n - f < t => y <= q /\ InIteration(m, q, f, n) = N
    BY <1>1, <1>3, <1>5, <2>3, <2>5, <2>6
  <2>8. n - f >= t => q <= x /\ InIteration(m, q, f, n) = 0
    BY <2>4, <2>5
  <2>9. x + s <= q <=> n - f < t
    BY <1>1, <1>2, <1>3, <2>1, <2>6, <2>7, <2>8
  <2> QED BY <2>7, <2>8, <2>9 DEF x, y
<1>6. ASSUME NEW n \in 1 .. top, n >= f PROVE Sound(m, Parts(m, cut, f, n))
  <2> DEFINE k == Parts(m, cut, f, n)
             x == InIteration(m, q, f, n)
  <2>1. x \in {0, N}
    <3> HIDE DEF x, q
    <3>1. n - f < t \/ n - f >= t
      BY <1>6
    <3> QED BY <1>5, <1>6, <3>1 DEF x
  <2>2. k = [l \in m.letters |-> x]
    BY DEF Parts, N
  <2> HIDE DEF k, x
  <2>3. Sound(m, k)
    BY <2>1, <2>2, WholeSound DEF N
  <2> QED BY <2>3 DEF k
<1>7. /\ DbIs(m, Recovered(m, dbs, f, cut), last)
      /\ \A n \in 1 .. top : n >= f => (n <= last <=> (n - f) * LenOf(m) + (IF m.istp = 0 THEN o + 27 ELSE 9) <= cut["i"])
      /\ f - 1 <= last
  <2> HIDE DEF o, q
  <2> QED BY <1>4, <1>6, RecoveredIs
<1>8. \A n \in 1 .. top : n >= f => (n <= last <=> n - f < t)
  BY <1>4, <1>5, <1>7 DEF N
<1>9. last \in 0 .. top
  BY <1>7 DEF DbIs
<1> HIDE DEF last, q, s
<1>10. last = f - 1 + t
  <2>1. CASE t = 0
    <3>1. f - 1 <= last
      BY <1>7
    <3>2. ~(last >= f)
      BY <1>1, <1>8, <1>9, <2>1
    <3> QED BY <1>1, <1>9, <2>1, <3>1, <3>2
  <2>2. CASE t # 0
    <3> DEFINE n == f - 1 + t
    <3>1. n \in 1 .. top /\ n >= f /\ n - f < t
      BY <1>1, <2>2
    <3>2. n <= last
      BY <1>8, <3>1
    <3>3. ~(last > n)
      <4> SUFFICES ASSUME last > n PROVE FALSE
        OBVIOUS
      <4>1. last \in 1 .. top /\ last >= f
        BY <1>1, <1>9, <3>1
      <4>2. last <= last /\ last - f < t
        BY <1>8, <4>1
      <4> QED BY <4>1, <4>2
    <3> QED BY <1>9, <3>1, <3>2, <3>3
  <2> QED BY <2>1, <2>2
<1> QED BY <1>7, <1>10 DEF last

\* A run that a crash cut short.
LEMMA CutRun ==
  ASSUME NEW m \in Modes, m.crash, NEW f \in 1 .. top + 1, NEW dbs, DbIs(m, dbs, f - 1),
         NEW q \in CommitPoints(m), q \in Nat, NEW cut \in Cuts(m, q)
  PROVE  DbIs(m, Recovered(m, dbs, f, cut), LastiOf(Recovered(m, dbs, f, cut)))
<1>1. cut \in [m.letters -> Nat]
  BY CutsAre
<1>2. \A n \in 1 .. top : n >= f => Sound(m, Parts(m, cut, f, n))
  BY CutSound
<1> QED BY <1>1, <1>2, RecoveredIs

\* A run that has done nothing, or of which nothing came back.
LEMMA NothingBack ==
  ASSUME NEW m \in Modes, NEW d \in [1 .. top -> [Nodes(m) -> Values]], NEW f \in 1 .. top + 1,
         NEW cut, cut = [l \in m.letters |-> 0]
  PROVE  Recovered(m, d, f, cut) = d
<1>1. ASSUME NEW n \in 1 .. top
      PROVE  After(m, n, d[n], [l \in m.letters |-> InIteration(m, cut[l], f, n)]) = d[n]
  <2>1. \A l \in m.letters : InIteration(m, cut[l], f, n) = 0
    <3> SUFFICES ASSUME NEW l \in m.letters PROVE InIteration(m, cut[l], f, n) = 0
      OBVIOUS
    <3>1. cut[l] = 0 /\ LenOf(m) \in Nat /\ top \in Nat
      BY BodyLen, TopNat
    <3>2. n < f \/ 0 <= (n - f) * LenOf(m)
      <4>1. CASE n >= f
        <5>1. n - f \in Nat
          BY <4>1
        <5> QED BY <3>1, <5>1
      <4> QED BY <4>1
    <3> QED BY <3>1, <3>2 DEF InIteration
  <2>2. [l \in m.letters |-> InIteration(m, cut[l], f, n)] = [l \in m.letters |-> 0]
    BY <2>1
  <2>3. d[n] \in [Nodes(m) -> Values]
    OBVIOUS
  <2> QED BY <2>2, <2>3, Untouched
<1> QED BY <1>1 DEF Recovered

LEMMA NoRun ==
  ASSUME NEW m \in Modes, NEW f \in 1 .. top + 1, NEW dbs, NEW last, DbIs(m, dbs, last),
         NEW cut \in [m.letters -> {0}]
  PROVE  Recovered(m, dbs, f, cut) = dbs
<1>1. dbs \in [1 .. top -> [Nodes(m) -> Values]]
  BY DEF DbIs
<1>2. cut = [l \in m.letters |-> 0]
  OBVIOUS
<1> QED BY <1>1, <1>2, NothingBack
=============================================================================
