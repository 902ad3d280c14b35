-------------------------- MODULE Threeen1f_proofs --------------------------
(***************************************************************************)
(* The two parallel 3n+1 programs for every number of children, all input  *)
(* lines, all block sizes and any number of kills: the parent reads the    *)
(* results after all children, every stored count of steps is right, the   *)
(* maximum of the first line is right, and the statistics of the threaded  *)
(* version add up.                                                         *)
(***************************************************************************)
EXTENDS Threeen1f, FiniteSetTheorems, SequenceTheorems, WellFoundedInduction,
        NaturalsInduction, TLAPS

-----------------------------------------------------------------------------
(* The inductive invariant *)

Works == {"walk", "known", "max", "maxset", "store"}
Ends == {"stats", "statsset", "unlock1", "unlock2", "dead"}
Pcs == {"none", "l2", "decr", "l1", "block"} \cup Works \cup Ends

Counts == [reads : Nat, updates : Nat, highest : Nat]

KidState == [pc : Pcs, tmp : Nat, current : Nat, last : Nat, n : Nat, i : Nat, path : Seq(Nat),
             reads : Nat, updates : Nat, highest : Nat, seen : Int \cup Counts]

Types ==
  /\ prog \in {"s", "st"}
  /\ line \in 1..(Len(Lines) + 1)
  /\ parent \in {"read", "fork", "wait", "finish", "report"}
  /\ parent # "read" => line <= Len(Lines)
  /\ forked \subseteq Kids
  /\ limits \in Seq(Nat) /\ claims \in Seq(Nat) /\ Len(claims) = Len(limits)
  /\ count \in Int
  /\ l1 \subseteq Kids \cup {Parent} /\ l2 \subseteq Kids \cup {Parent}
  /\ kid \in [Kids -> KidState]
  /\ result \in Nat \cup {Undef}
  /\ stats \in Counts
  /\ crashes \in Nat /\ rounds \in Nat

\* The children that the parent has counted in and that are not yet counted out.
Uncounted == {k \in Kids : kid[k].pc \in {"l2", "decr"}}

\* Locks, ^count and the join.
LocksOK ==
  /\ \A k \in Kids : k \in forked <=> kid[k].pc # "none"
  /\ \A k \in Kids \ forked : kid[k] = Idle
  /\ parent = "read" => kid = [k \in Kids |-> Idle]
  /\ parent \in {"wait", "finish", "report"} => forked = Kids
  /\ parent = "report" => \A k \in Kids : kid[k].pc = "dead"
  /\ prog = "s" =>
       /\ \A k \in Kids : k \in l2 <=> kid[k].pc \notin {"none", "l2", "dead"}
       /\ Parent \in l2 <=> parent = "report"
       /\ parent # "read" => count = Cardinality(Uncounted)
       /\ parent \in {"finish", "report"} => Uncounted = {}
  /\ prog = "st" => l2 = {}

\* A number that dostep would stop at.
IsKnown(n) == n = 1 \/ IntToStr[n] \in DOMAIN step

\* A number whose sequence reaches 1.
Reaches(n) == n \in Nat \ {0} /\ \E j \in 0..Fuel : Orbit(n)[j] = 1

\* While the path is walked: each number on it has one step more than the next.
WalkOK(c) ==
  /\ Reaches(c.n) /\ c.i = Len(c.path)
  /\ \A j \in 1..Len(c.path) :
        Reaches(c.path[j]) /\ Steps(c.path[j]) = Steps(c.n) + Len(c.path) - (j - 1)
  /\ c.current = IF c.path = <<>> THEN c.n ELSE c.path[1]
  /\ c.pc = "known" => c.path # <<>> /\ c.n # 1 /\ IsKnown(c.n)

\* When its end is known: i is the number of steps of the first number left.
StoreOK(c) ==
  /\ c.path # <<>> /\ c.i >= Len(c.path)
  /\ \A j \in 1..Len(c.path) : Reaches(c.path[j]) /\ Steps(c.path[j]) = c.i - (j - 1)
  /\ c.path[1] = c.current \/ (c.pc = "store" /\ IsKnown(c.current))
  /\ c.pc = "store" /\ line = 1 => c.i <= Numbers(result)

\* The child has asked for all blocks up to tmp, and works on that one.
BlockOK(c) ==
  /\ c.tmp \in 0..Len(limits)
  /\ \A t \in 1..c.tmp : claims[t] # 0
  /\ c.pc \in Works => c.tmp # 0 /\ c.last = limits[c.tmp] /\ c.current \in FirstOf(c.tmp)..c.last
  /\ c.pc \in Ends => c.tmp = Len(limits)

KidOK(k) ==
  /\ kid[k].pc \in {"walk", "known"} => WalkOK(kid[k])
  /\ kid[k].pc \in {"max", "maxset", "store"} => StoreOK(kid[k])
  /\ BlockOK(kid[k])

\* What ^step holds; in the first line ^result is never behind it.
StepOK ==
  \A w \in DOMAIN step : \E n \in Nat \ {0} :
     /\ w = IntToStr[n] /\ Reaches(n) /\ step[w] = IntToStr[Steps(n)]
     /\ line = 1 => Steps(n) <= Numbers(result)

\* Block t is finished as far as the child that claimed it has come.
BlockDone(t) ==
  \/ \A n \in FirstOf(t)..limits[t] : IsKnown(n)
  \/ \E k \in Kids : /\ kid[k].pc \in Works /\ kid[k].tmp = t
                     /\ \A n \in FirstOf(t)..(kid[k].current - 1) : IsKnown(n)

BlocksOK ==
  parent # "read" =>
    /\ limits = Limits(Lines[line])
    /\ \A t \in 1..Len(limits) : claims[t] # 0 => BlockDone(t)

ResultOK ==
  /\ line <= Len(Lines) => Numbers(result) <= MaxSteps(Lines[line])
  /\ line > 1 => result # Undef

-----------------------------------------------------------------------------
(* The statistics of the threaded version *)

\* An enumeration of the children, and the sum of v over them.
Enum == CHOOSE e \in [1..Cardinality(Kids) -> Kids] :
          \A k \in Kids : \E i \in 1..Cardinality(Kids) : e[i] = k
Total(v) ==
  LET f[i \in 0..Cardinality(Kids)] == IF i = 0 THEN 0 ELSE f[i - 1] + v[Enum[i]]
  IN  f[Cardinality(Kids)]

\* The rounds that a child has not yet added to ^reads.
Pending == [k \in Kids |-> IF kid[k].pc = "dead" THEN 0 ELSE kid[k].reads]

\* The numbers that a sequence passes after c.
Passed(c) == {Orbit(c)[k] : k \in 1..Steps(c)}
Heights(l) == {0} \cup UNION {Passed(c) : c \in Ints(l)}

\* x has been recorded by a living child or in ^highest.
Recorded(x) ==
  \/ x <= stats.highest
  \/ \E k \in Kids : kid[k].pc # "dead" /\ x <= kid[k].highest

\* What is recorded has been passed, and (first line) what was passed is recorded.
HeightOK(c) ==
  /\ line <= Len(Lines) => c.highest \in Heights(Lines[line])
  /\ c.pc \in {"walk", "known"} => Passed(c.n) \subseteq Passed(c.current)
  /\ line = 1 /\ c.pc \in {"walk", "known"} =>
       \A j \in 1..Len(c.path) : \A x \in Passed(c.path[j]) : x \in Passed(c.n) \/ Recorded(x)
  /\ line = 1 /\ c.pc \in {"max", "maxset", "store"} =>
       \A j \in 1..Len(c.path) : \A x \in Passed(c.path[j]) : Recorded(x)

StatsOK ==
  prog = "st" /\ crashes = 0 =>
    /\ parent = "read" => stats = NoStats
    /\ parent # "read" => stats.reads + Total(Pending) = rounds
    /\ line <= Len(Lines) => stats.highest \in Heights(Lines[line])
    /\ \A k \in Kids : HeightOK(kid[k])
    /\ line = 1 => \A n \in Nat \ {0} :
                     IntToStr[n] \in DOMAIN step => \A x \in Passed(n) : Recorded(x)

IInv ==
  /\ Types /\ LocksOK /\ StepOK
  /\ \A k \in Kids : KidOK(k)
  /\ BlocksOK /\ ResultOK /\ StatsOK

-----------------------------------------------------------------------------
(* Recursive definitions, unfolded *)

\* A non-empty set of naturals has a least element: the induction principle of
\* this module, as a least counterexample.
LEMMA LeastNat ==
  ASSUME NEW T, T \subseteq Nat, T # {}
  PROVE  \E x \in T : \A y \in T : x <= y
<1> DEFINE R == OpToRel(<, Nat)
<1>1. IsWellFoundedOn(R, Nat)
  BY NatLessThanWellFounded
<1>2. \A x, y \in Nat : <<x, y>> \in R <=> x < y
  BY DEF OpToRel
<1> HIDE DEF R
<1>3. PICK x \in T : \A y \in T : ~(<<y, x>> \in R)
  BY <1>1, WFMin
<1>4. \A y \in T : ~ (y < x)
  BY <1>2, <1>3
<1>5. QED BY <1>4

\* f is the solution of a recursion over 0..q.
Solves(f, a, h, q) ==
  f \in [0..q -> Nat] /\ f[0] = a /\ \A i \in 1..q : f[i] = h[i][f[i - 1]]

\* A recursion over 0..m has a solution.
LEMMA Recursion ==
  ASSUME NEW m \in Nat, NEW a \in Nat, NEW h \in [1..m -> [Nat -> Nat]]
  PROVE  \E f : Solves(f, a, h, m)
<1> DEFINE T == {q \in 0..m : ~ \E f : Solves(f, a, h, q)}
<1>1. SUFFICES ASSUME T # {} PROVE FALSE
  <2>1. m \in 0..m
    OBVIOUS
  <2> QED BY <2>1
<1>2. T \subseteq Nat
  OBVIOUS
<1>3. PICK q \in T : \A y \in T : q <= y
  <2> HIDE DEF T
  <2> QED BY <1>1, <1>2, LeastNat
<1>4. CASE q = 0
  <2> DEFINE g == [i \in 0..0 |-> a]
  <2>1. Solves(g, a, h, 0)
    BY DEF Solves
  <2> HIDE DEF g
  <2> QED BY <1>3, <1>4, <2>1
<1>5. CASE q # 0
  <2>0. q \in 0..m
    BY <1>3
  <2>1. q \in 1..m /\ q - 1 \in 0..m /\ q - 1 \notin T
    <3> HIDE DEF T
    <3> QED BY <2>0, <1>3, <1>5
  <2>2. PICK f : Solves(f, a, h, q - 1)
    BY <2>1
  <2>3. f \in [0..(q - 1) -> Nat] /\ f[0] = a /\ \A i \in 1..(q - 1) : f[i] = h[i][f[i - 1]]
    BY <2>2 DEF Solves
  <2> DEFINE x == h[q][f[q - 1]]
             g == [i \in 0..q |-> IF i = q THEN x ELSE f[i]]
  <2>4. x \in Nat
    <3>1. f[q - 1] \in Nat /\ h[q] \in [Nat -> Nat]
      BY <2>1, <2>3
    <3> QED BY <3>1
  <2> HIDE DEF x
  <2>5. g \in [0..q -> Nat]
    BY <2>1, <2>3, <2>4
  <2>6. g[0] = a
    BY <2>1, <2>3
  <2>7. ASSUME NEW i \in 1..q PROVE g[i] = h[i][g[i - 1]]
    <3>1. CASE i = q
      BY <2>1, <3>1 DEF x
    <3>2. CASE i # q
      <4>1. i \in 1..(q - 1) /\ i - 1 \in 0..q /\ i - 1 # q
        BY <2>1, <3>2
      <4>2. g[i] = f[i] /\ g[i - 1] = f[i - 1]
        BY <4>1, <3>2
      <4> QED BY <4>1, <4>2, <2>3
    <3> QED BY <3>1, <3>2
  <2>8. Solves(g, a, h, q)
    BY <2>5, <2>6, <2>7 DEF Solves
  <2> HIDE DEF g
  <2> QED BY <1>3, <2>8
<1> QED BY <1>4, <1>5

\* The words of the digits differ.
LEMMA DigitWords ==
  \A d \in 0..9 : Di(Ds[d]) = d
<1>1. /\ Ds[0] = "zero" /\ Ds[1] = "eins" /\ Ds[2] = "deux" /\ Ds[3] = "tres" /\ Ds[4] = "quattro"
      /\ Ds[5] = "pyat" /\ Ds[6] = "sitta" /\ Ds[7] = "saat" /\ Ds[8] = "ba" /\ Ds[9] = "onpatu"
  BY DEF Ds
<1>2. \A d, e \in 0..9 : Ds[d] = Ds[e] => d = e
  BY <1>1
<1>3. ASSUME NEW d \in 0..9 PROVE Di(Ds[d]) = d
  <2>1. \E e \in 0..9 : Ds[e] = Ds[d]
    OBVIOUS
  <2>2. Di(Ds[d]) \in 0..9 /\ Ds[Di(Ds[d])] = Ds[d]
    BY <2>1 DEF Di
  <2> QED BY <2>2, <1>2
<1> QED BY <1>3

\* inttostr calls itself with fewer digits.
LEMMA IntToStrUnfolds ==
  \A n \in Nat : IntToStr[n] =
    IF n < 10 THEN <<Ds[n]>> ELSE Append(IntToStr[n \div 10], Ds[n % 10])
<1> DEFINE Body(f, n) == IF n < 10 THEN <<Ds[n]>> ELSE Append(f[n \div 10], Ds[n % 10])
           Part(f, m) == f = [n \in 0..m |-> Body(f, n)]
           T == {m \in Nat : ~ \E f : Part(f, m)}
<1>d. \A n \in Nat : n >= 10 => n \div 10 \in 0..(n - 1)
  OBVIOUS
<1>1. ASSUME T # {} PROVE FALSE
  <2>1. PICK m \in T : \A y \in T : m <= y
    <3>1. T \subseteq Nat
      OBVIOUS
    <3> HIDE DEF T
    <3> QED BY <1>1, <3>1, LeastNat
  <2>2. m \in Nat
    BY <2>1
  <2>3. PICK f : m # 0 => Part(f, m - 1)
    <3>1. m # 0 => m - 1 \in Nat /\ m - 1 \notin T
      <4> HIDE DEF T
      <4> QED BY <2>1, <2>2
    <3> HIDE DEF Part
    <3> QED BY <3>1
  <2> DEFINE g == [n \in 0..m |-> IF n = m THEN Body(f, n) ELSE f[n]]
  <2>4. ASSUME NEW n \in 0..m PROVE g[n] = Body(g, n)
    <3>1. CASE n < 10
      <4>1. CASE n = m
        BY <4>1, <3>1
      <4>2. CASE n # m
        <5>1. m # 0 /\ n \in 0..(m - 1)
          BY <4>2, <2>2
        <5>2. f[n] = Body(f, n)
          BY <5>1, <2>3
        <5> QED BY <5>2, <4>2, <3>1
      <4> QED BY <4>1, <4>2
    <3>2. CASE n >= 10
      <4>1. n \div 10 \in 0..(n - 1) /\ n \div 10 \in 0..(m - 1) /\ n \div 10 \in 0..m /\ n \div 10 # m
        BY <3>2, <1>d, <2>2
      <4>2. g[n \div 10] = f[n \div 10]
        BY <4>1
      <4>3. g[n] = Body(f, n)
        <5>1. CASE n = m
          BY <5>1
        <5>2. CASE n # m
          <6>1. m # 0 /\ n \in 0..(m - 1)
            BY <5>2, <2>2
          <6>2. f[n] = Body(f, n)
            BY <6>1, <2>3
          <6> QED BY <6>2, <5>2
        <5> QED BY <5>1, <5>2
      <4> QED BY <4>2, <4>3
    <3> QED BY <3>1, <3>2, <2>2
  <2>5. Part(g, m)
    <3> HIDE DEF Body
    <3> QED BY <2>4
  <2> HIDE DEF g, Part
  <2> QED BY <2>1, <2>5
<1>2. ASSUME NEW m \in Nat PROVE \E f : Part(f, m)
  <2> HIDE DEF Part
  <2> QED BY <1>1
<1>3. ASSUME NEW m \in Nat, NEW q \in Nat, m <= q, NEW f, NEW g, Part(f, m), Part(g, q),
             NEW n \in 0..m
      PROVE  f[n] = g[n]
  <2> DEFINE S == {j \in 0..m : f[j] # g[j]}
  <2>1. SUFFICES ASSUME S # {} PROVE FALSE
    OBVIOUS
  <2>2. PICK j \in S : \A y \in S : j <= y
    <3>1. S \subseteq Nat
      OBVIOUS
    <3> HIDE DEF S
    <3> QED BY <2>1, <3>1, LeastNat
  <2>3. j \in 0..m /\ j \in 0..q /\ f[j] # g[j]
    BY <2>2, <1>3
  <2>4. f[j] = Body(f, j)
    BY <2>3, <1>3
  <2>5. g[j] = Body(g, j)
    BY <2>3, <1>3
  <2>6. CASE j < 10
    BY <2>3, <2>4, <2>5, <2>6
  <2>7. CASE j >= 10
    <3>1. j \div 10 \in 0..(j - 1)
      BY <1>d, <2>3, <2>7
    <3>2. j \div 10 \in 0..m /\ j \div 10 < j
      BY <3>1, <2>3
    <3>3. j \div 10 \notin S
      <4> HIDE DEF S
      <4> QED BY <3>2, <2>2, <2>3
    <3>4. f[j \div 10] = g[j \div 10]
      BY <3>2, <3>3
    <3> QED BY <3>4, <2>3, <2>4, <2>5
  <2> QED BY <2>3, <2>6, <2>7
<1> DEFINE A(m) == CHOOSE f : Part(f, m)
           F == [n \in Nat |-> A(n)[n]]
<1>4. ASSUME NEW m \in Nat PROVE Part(A(m), m)
  <2> HIDE DEF Part
  <2> QED BY <1>2
<1>5. ASSUME NEW n \in Nat PROVE F[n] = Body(F, n)
  <2>1. A(n)[n] = Body(A(n), n)
    <3>1. Part(A(n), n)
      BY <1>4
    <3>2. ASSUME NEW f, Part(f, n) PROVE f[n] = Body(f, n)
      <4>1. n \in 0..n
        OBVIOUS
      <4>2. \A j \in 0..n : f[j] = Body(f, j)
        <5> HIDE DEF Body
        <5> QED BY <3>2
      <4> HIDE DEF Body
      <4> QED BY <4>1, <4>2
    <3> HIDE DEF A, Body, Part
    <3> QED BY <3>1, <3>2
  <2>2. CASE n < 10
    BY <2>1, <2>2
  <2>3. CASE n >= 10
    <3>1. n \div 10 \in Nat /\ n \div 10 <= n
      BY <1>d, <2>3
    <3>2. A(n \div 10)[n \div 10] = A(n)[n \div 10]
      <4> HIDE DEF A, Part
      <4> QED BY <3>1, <1>3, <1>4
    <3>3. F[n \div 10] = A(n)[n \div 10]
      BY <3>1, <3>2
    <3>4. F[n] = A(n)[n]
      OBVIOUS
    <3> HIDE DEF A, F
    <3> QED BY <3>3, <3>4, <2>1
  <2> QED BY <2>2, <2>3
<1>6. F = [n \in Nat |-> Body(F, n)]
  <2>1. F = [n \in Nat |-> F[n]]
    OBVIOUS
  <2> HIDE DEF F, Body
  <2> QED BY <2>1, <1>5
<1> DEFINE G == CHOOSE f : f = [n \in Nat |-> Body(f, n)]
<1>7. IntToStr = G
  BY DEF IntToStr
<1>8. G = [n \in Nat |-> Body(G, n)]
  <2> HIDE DEF F, Body
  <2> QED BY <1>6
<1>9. \A n \in Nat : G[n] = Body(G, n)
  <2> HIDE DEF G
  <2> QED BY <1>8
<1> HIDE DEF G
<1> QED BY <1>7, <1>9

\* g adds up the digits s.
Adds(g, s) ==
  /\ g \in [0..Len(s) -> Nat]
  /\ g[0] = 0
  /\ \A i \in 1..Len(s) : g[i] = 10 * g[i - 1] + s[i]

Words == {Ds[d] : d \in 0..9}

\* The words t of the digits s.
Spells(t, s) ==
  /\ t \in Seq(Words) /\ s \in Seq(0..9) /\ Len(t) = Len(s)
  /\ \A i \in 1..Len(s) : t[i] = Ds[s[i]]

\* strtoint of the words adds up the digits.
LEMMA StrToIntAdds ==
  ASSUME NEW s, NEW t, NEW g, Spells(t, s), Adds(g, s)
  PROVE  StrToInt(t) = g[Len(s)]
<1> DEFINE m == Len(s)
           Eq(f) == f = [i \in 0..m |-> IF i = 0 THEN 0 ELSE 10 * f[i - 1] + Di(t[i])]
           F == CHOOSE f : Eq(f)
<1>1. m \in Nat /\ Len(t) = m /\ \A i \in 1..m : s[i] \in 0..9 /\ t[i] = Ds[s[i]]
  BY DEF Spells
<1>2. \A i \in 1..m : Di(t[i]) = s[i]
  BY <1>1, DigitWords
<1>3. g \in [0..m -> Nat] /\ g[0] = 0 /\ \A i \in 1..m : g[i] = 10 * g[i - 1] + s[i]
  BY DEF Adds
<1>7. StrToInt(t) = F[m]
  BY <1>1 DEF StrToInt
<1> HIDE DEF m
<1>5. Eq(g)
  <2>1. \A i \in 0..m : g[i] = IF i = 0 THEN 0 ELSE 10 * g[i - 1] + Di(t[i])
    <3> SUFFICES ASSUME NEW i \in 0..m, i # 0 PROVE g[i] = 10 * g[i - 1] + Di(t[i])
      BY <1>3
    <3>1. i \in 1..m
      BY <1>1
    <3> QED BY <3>1, <1>2, <1>3
  <2> QED BY <1>3, <2>1
<1>6. Eq(F)
  <2> HIDE DEF Eq
  <2> QED BY <1>5
<1> HIDE DEF F
<1>8. \A i \in 0..m : F[i] = IF i = 0 THEN 0 ELSE 10 * F[i - 1] + Di(t[i])
  BY <1>6
<1> DEFINE T == {i \in 0..m : F[i] # g[i]}
<1>9. T = {}
  <2> SUFFICES ASSUME T # {} PROVE FALSE
    OBVIOUS
  <2>1. PICK i \in T : \A y \in T : i <= y
    <3>1. T \subseteq Nat
      OBVIOUS
    <3> HIDE DEF T
    <3> QED BY <3>1, LeastNat
  <2>2. i \in 0..m /\ F[i] # g[i]
    BY <2>1
  <2>3. i # 0
    BY <2>2, <1>8, <1>3
  <2>4. i \in 1..m /\ i - 1 \in 0..m /\ i - 1 \notin T
    <3> HIDE DEF T
    <3> QED BY <1>1, <2>1, <2>2, <2>3
  <2>5. F[i - 1] = g[i - 1]
    BY <2>4
  <2>6. F[i] = 10 * F[i - 1] + Di(t[i]) /\ g[i] = 10 * g[i - 1] + s[i] /\ Di(t[i]) = s[i]
    BY <1>8, <1>2, <1>3, <2>2, <2>3, <2>4
  <2> QED BY <2>2, <2>5, <2>6
<1>10. F[m] = g[m]
  <2>1. m \in 0..m
    BY <1>1
  <2> QED BY <2>1, <1>9
<1> QED BY <1>7, <1>10 DEF m

\* inttostr spells the decimal digits.
LEMMA IntToStrSpells ==
  \A n \in Nat : \E s, g : Spells(IntToStr[n], s) /\ Adds(g, s) /\ g[Len(s)] = n
<1> DEFINE T == {n \in Nat : ~ \E s, g : Spells(IntToStr[n], s) /\ Adds(g, s) /\ g[Len(s)] = n}
<1>1. SUFFICES ASSUME T # {} PROVE FALSE
  OBVIOUS
<1>2. PICK n \in T : \A y \in T : n <= y
  <2>1. T \subseteq Nat
    OBVIOUS
  <2> HIDE DEF T
  <2> QED BY <1>1, <2>1, LeastNat
<1>3. n \in Nat
  BY <1>2
<1>4. \A d \in 0..9 : Ds[d] \in Words
  BY DEF Words
<1>5. CASE n < 10
  <2> DEFINE s == <<n>>
             g == [i \in 0..1 |-> IF i = 0 THEN 0 ELSE n]
  <2>1. IntToStr[n] = <<Ds[n]>>
    BY <1>3, <1>5, IntToStrUnfolds
  <2>2. n \in 0..9
    BY <1>3, <1>5
  <2>3. Spells(<<Ds[n]>>, s)
    BY <2>2, <1>4 DEF Spells
  <2>4. Adds(g, s) /\ g[Len(s)] = n
    BY <2>2 DEF Adds
  <2> HIDE DEF s, g
  <2> QED BY <1>2, <2>1, <2>3, <2>4
<1>6. CASE n >= 10
  <2> DEFINE q == n \div 10
             d == n % 10
  <2>1. q \in Nat /\ d \in 0..9 /\ n = 10 * q + d /\ q < n
    BY <1>3, <1>6
  <2>2. IntToStr[n] = Append(IntToStr[q], Ds[d])
    <3>1. IntToStr[n] = IF n < 10 THEN <<Ds[n]>> ELSE Append(IntToStr[n \div 10], Ds[n % 10])
      BY <1>3, IntToStrUnfolds
    <3>2. ~ (n < 10)
      BY <1>3, <1>6
    <3> QED BY <3>1, <3>2
  <2> HIDE DEF q, d
  <2>3. q \notin T
    <3> HIDE DEF T
    <3> QED BY <1>2, <1>3, <2>1
  <2>4. PICK s, g : Spells(IntToStr[q], s) /\ Adds(g, s) /\ g[Len(s)] = q
    BY <2>1, <2>3
  <2> DEFINE t == IntToStr[q]
             s2 == Append(s, d)
             t2 == Append(t, Ds[d])
             m == Len(s)
             g2 == [i \in 0..(m + 1) |-> IF i = m + 1 THEN n ELSE g[i]]
  <2>5. t \in Seq(Words) /\ s \in Seq(0..9) /\ Len(t) = m /\ m \in Nat /\ \A i \in 1..m : t[i] = Ds[s[i]]
    BY <2>4 DEF Spells
  <2>6. g \in [0..m -> Nat] /\ g[0] = 0 /\ g[m] = q /\ \A i \in 1..m : g[i] = 10 * g[i - 1] + s[i]
    BY <2>4 DEF Adds
  <2> HIDE DEF t, m
  <2>7. /\ s2 \in Seq(0..9) /\ Len(s2) = m + 1 /\ s2[m + 1] = d /\ \A i \in 1..m : s2[i] = s[i]
        /\ t2 \in Seq(Words) /\ Len(t2) = m + 1 /\ t2[m + 1] = Ds[d] /\ \A i \in 1..m : t2[i] = t[i]
    <3>1. /\ s2 \in Seq(0..9) /\ Len(s2) = Len(s) + 1 /\ s2[Len(s) + 1] = d
          /\ \A i \in 1..Len(s) : s2[i] = s[i]
      BY <2>1, <2>5, AppendProperties
    <3>2. Ds[d] \in Words
      BY <2>1, <1>4
    <3>3. /\ t2 \in Seq(Words) /\ Len(t2) = Len(t) + 1 /\ t2[Len(t) + 1] = Ds[d]
          /\ \A i \in 1..Len(t) : t2[i] = t[i]
      BY <3>2, <2>5, AppendProperties
    <3> HIDE DEF s2, t2
    <3> QED BY <3>1, <3>3, <2>5 DEF m
  <2> HIDE DEF s2, t2
  <2>8. Spells(t2, s2)
    <3>1. \A i \in 1..(m + 1) : t2[i] = Ds[s2[i]]
      BY <2>5, <2>7
    <3> QED BY <3>1, <2>7 DEF Spells
  <2>9. Adds(g2, s2) /\ g2[Len(s2)] = n
    <3>1. g2 \in [0..(m + 1) -> Nat] /\ g2[0] = 0 /\ g2[m + 1] = n
      BY <2>5, <2>6, <1>3
    <3>2. ASSUME NEW i \in 1..(m + 1) PROVE g2[i] = 10 * g2[i - 1] + s2[i]
      <4>1. CASE i = m + 1
        <5>1. g2[i - 1] = q
          BY <4>1, <2>5, <2>6
        <5> QED BY <5>1, <4>1, <3>1, <2>7, <2>1
      <4>2. CASE i # m + 1
        <5>1. i \in 1..m /\ i - 1 \in 0..(m + 1) /\ i - 1 # m + 1
          BY <4>2, <2>5
        <5>2. g2[i] = g[i] /\ g2[i - 1] = g[i - 1]
          BY <5>1, <4>2
        <5> QED BY <5>1, <5>2, <2>6, <2>7
      <4> QED BY <4>1, <4>2
    <3> HIDE DEF g2
    <3> QED BY <3>1, <3>2, <2>7 DEF Adds
  <2> HIDE DEF g2
  <2>10. IntToStr[n] = t2
    BY <2>2 DEF t2, t
  <2> QED BY <1>2, <2>8, <2>9, <2>10
<1> QED BY <1>3, <1>5, <1>6

\* strtoint is the inverse of inttostr.
LEMMA WordsRight ==
  \A n \in Nat : StrToInt(IntToStr[n]) = n
BY IntToStrSpells, StrToIntAdds

-----------------------------------------------------------------------------
(* The sequences *)

LEMMA NextNumberType ==
  ASSUME NEW n \in Nat
  PROVE  NextNumber(n) \in Nat /\ (n # 0 => NextNumber(n) # 0)
<1>1. CASE n % 2 = 0
  <2>1. n \div 2 \in Nat /\ (n # 0 => n \div 2 # 0)
    BY <1>1
  <2> QED BY <1>1, <2>1 DEF NextNumber
<1>2. CASE n % 2 # 0
  BY <1>2 DEF NextNumber
<1> QED BY <1>1, <1>2

LEMMA OrbitUnfolds ==
  ASSUME NEW c \in Nat
  PROVE  /\ Orbit(c) \in [0..Fuel -> Nat]
         /\ Orbit(c)[0] = c
         /\ \A k \in 1..Fuel : Orbit(c)[k] = NextNumber(Orbit(c)[k - 1])
<1> DEFINE h == [i \in 1..Fuel |-> [x \in Nat |-> NextNumber(x)]]
           Eq(f) == f = [k \in 0..Fuel |-> IF k = 0 THEN c ELSE NextNumber(f[k - 1])]
<1>1. Fuel \in Nat
  BY ConstAssumption
<1>2. h \in [1..Fuel -> [Nat -> Nat]]
  BY NextNumberType
<1>3. PICK g : Solves(g, c, h, Fuel)
  <2> HIDE DEF h
  <2> QED BY <1>1, <1>2, Recursion
<1>4. g \in [0..Fuel -> Nat] /\ g[0] = c /\ \A k \in 1..Fuel : g[k] = NextNumber(g[k - 1])
  <2>1. g \in [0..Fuel -> Nat] /\ g[0] = c /\ \A k \in 1..Fuel : g[k] = h[k][g[k - 1]]
    <3> HIDE DEF h
    <3> QED BY <1>3 DEF Solves
  <2>2. \A k \in 1..Fuel : g[k - 1] \in Nat
    BY <2>1, <1>1
  <2> QED BY <2>1, <2>2
<1>5. Eq(g)
  <2>1. \A k \in 0..Fuel : g[k] = IF k = 0 THEN c ELSE NextNumber(g[k - 1])
    <3> SUFFICES ASSUME NEW k \in 0..Fuel, k # 0 PROVE g[k] = NextNumber(g[k - 1])
      BY <1>4
    <3>1. k \in 1..Fuel
      BY <1>1
    <3> QED BY <3>1, <1>4
  <2> QED BY <1>4, <2>1
<1> DEFINE F == CHOOSE f : Eq(f)
<1>6. Orbit(c) = F
  BY DEF Orbit
<1>7. Eq(F)
  <2> HIDE DEF Eq
  <2> QED BY <1>5
<1> HIDE DEF F
<1>8. \A k \in 0..Fuel : F[k] = IF k = 0 THEN c ELSE NextNumber(F[k - 1])
  BY <1>7
<1>9. DOMAIN F = 0..Fuel /\ F = [k \in 0..Fuel |-> F[k]]
  <2> DEFINE e(k) == IF k = 0 THEN c ELSE NextNumber(F[k - 1])
  <2>1. F = [k \in 0..Fuel |-> e(k)]
    BY <1>7
  <2> HIDE DEF e
  <2> QED BY <2>1
<1> DEFINE T == {k \in 0..Fuel : F[k] # g[k]}
<1>10. T = {}
  <2> SUFFICES ASSUME T # {} PROVE FALSE
    OBVIOUS
  <2>1. PICK k \in T : \A y \in T : k <= y
    <3>1. T \subseteq Nat
      OBVIOUS
    <3> HIDE DEF T
    <3> QED BY <3>1, LeastNat
  <2>2. k \in 0..Fuel /\ F[k] # g[k]
    BY <2>1
  <2>3. k # 0
    BY <2>2, <1>8, <1>4
  <2>4. k \in 1..Fuel /\ k - 1 \in 0..Fuel /\ k - 1 \notin T
    <3> HIDE DEF T
    <3> QED BY <1>1, <2>1, <2>2, <2>3
  <2>5. F[k - 1] = g[k - 1]
    BY <2>4
  <2>6. F[k] = NextNumber(F[k - 1]) /\ g[k] = NextNumber(g[k - 1])
    BY <1>8, <1>4, <2>2, <2>3, <2>4
  <2> QED BY <2>2, <2>5, <2>6
<1>11. F = g
  <2>1. \A k \in 0..Fuel : F[k] = g[k]
    BY <1>10
  <2> QED BY <2>1, <1>9, <1>4
<1> QED BY <1>4, <1>6, <1>11

\* The sequence of the next number is the rest of the sequence.
LEMMA OrbitShift ==
  ASSUME NEW c \in Nat, NEW k \in 0..(Fuel - 1)
  PROVE  Orbit(NextNumber(c))[k] = Orbit(c)[k + 1]
<1>1. Fuel \in Nat /\ NextNumber(c) \in Nat
  BY ConstAssumption, NextNumberType
<1> DEFINE o == Orbit(c)
           p == Orbit(NextNumber(c))
<1>2. o[0] = c /\ \A j \in 1..Fuel : o[j] = NextNumber(o[j - 1])
  BY OrbitUnfolds
<1>3. p[0] = NextNumber(c) /\ \A j \in 1..Fuel : p[j] = NextNumber(p[j - 1])
  BY <1>1, OrbitUnfolds
<1> HIDE DEF o, p
<1> DEFINE T == {j \in 0..(Fuel - 1) : p[j] # o[j + 1]}
<1>4. T = {}
  <2> SUFFICES ASSUME T # {} PROVE FALSE
    OBVIOUS
  <2>1. PICK j \in T : \A y \in T : j <= y
    <3>1. T \subseteq Nat
      OBVIOUS
    <3> HIDE DEF T
    <3> QED BY <3>1, LeastNat
  <2>2. j \in 0..(Fuel - 1) /\ p[j] # o[j + 1] /\ j + 1 \in 1..Fuel /\ (j + 1) - 1 = j
    BY <2>1, <1>1
  <2>3. o[j + 1] = NextNumber(o[j])
    BY <2>2, <1>2
  <2>4. j # 0
    BY <2>2, <2>3, <1>2, <1>3
  <2>5. j - 1 \in 0..(Fuel - 1) /\ j \in 1..Fuel /\ j - 1 \notin T /\ (j - 1) + 1 = j
    <3> HIDE DEF T
    <3> QED BY <2>1, <2>2, <2>4, <1>1
  <2>6. p[j - 1] = o[j]
    BY <2>5
  <2>7. p[j] = NextNumber(p[j - 1])
    BY <2>5, <1>3
  <2> QED BY <2>2, <2>3, <2>6, <2>7
<1>5. p[k] = o[k + 1]
  BY <1>4
<1> QED BY <1>5 DEF o, p

\* Steps is the place of the first 1.
LEMMA StepsFirst ==
  ASSUME NEW c, Reaches(c)
  PROVE  /\ Steps(c) \in 0..Fuel
         /\ Orbit(c)[Steps(c)] = 1
         /\ \A j \in 0..Fuel : Orbit(c)[j] = 1 => Steps(c) <= j
<1> DEFINE T == {k \in 0..Fuel : Orbit(c)[k] = 1}
<1>1. T # {} /\ T \subseteq Nat
  BY DEF Reaches
<1>2. Steps(c) = Min(T)
  BY DEF Steps
<1>3. Steps(c) \in T /\ \A y \in T : Steps(c) <= y
  <2> HIDE DEF T
  <2>1. \E x \in T : \A y \in T : x <= y
    BY <1>1, LeastNat
  <2> QED BY <2>1, <1>2 DEF Min
<1> QED BY <1>3

\* 1 has no steps.
LEMMA StepsOne == Reaches(1) /\ Steps(1) = 0 /\ Passed(1) = {}
<1>1. Fuel \in Nat /\ 0 \in 0..Fuel /\ Orbit(1)[0] = 1
  BY ConstAssumption, OrbitUnfolds
<1>2. Reaches(1)
  BY <1>1 DEF Reaches
<1>3. Steps(1) = 0
  BY <1>1, <1>2, StepsFirst
<1>4. Passed(1) = {}
  BY <1>3 DEF Passed
<1> QED BY <1>2, <1>3, <1>4

\* A number other than 1 has one step more than the next, which is the number
\* that it passes first.
LEMMA StepsNext ==
  ASSUME NEW c, Reaches(c), c # 1
  PROVE  /\ Reaches(NextNumber(c))
         /\ Steps(c) \in Nat /\ Steps(NextNumber(c)) \in Nat
         /\ Steps(c) = Steps(NextNumber(c)) + 1
         /\ Passed(c) = {NextNumber(c)} \cup Passed(NextNumber(c))
<1> DEFINE d == NextNumber(c)
           m == Steps(c)
<1>1. Fuel \in Nat /\ c \in Nat \ {0} /\ d \in Nat \ {0}
  BY ConstAssumption, NextNumberType DEF Reaches
<1>2. m \in 0..Fuel /\ Orbit(c)[m] = 1 /\ \A j \in 0..Fuel : Orbit(c)[j] = 1 => m <= j
  BY StepsFirst
<1>3. Orbit(c)[0] = c
  BY <1>1, OrbitUnfolds
<1>4. m # 0
  BY <1>2, <1>3
<1> HIDE DEF m
<1>5. m - 1 \in 0..(Fuel - 1) /\ m - 1 \in 0..Fuel /\ (m - 1) + 1 = m
  BY <1>1, <1>2, <1>4
<1>6. \A k \in 0..(Fuel - 1) : Orbit(d)[k] = Orbit(c)[k + 1]
  BY <1>1, OrbitShift
<1> HIDE DEF d
<1>7. Orbit(d)[m - 1] = 1
  BY <1>2, <1>5, <1>6
<1>8. Reaches(d)
  BY <1>1, <1>5, <1>7 DEF Reaches
<1>9. Steps(d) \in 0..Fuel /\ Orbit(d)[Steps(d)] = 1 /\ \A j \in 0..Fuel : Orbit(d)[j] = 1 => Steps(d) <= j
  BY <1>8, StepsFirst
<1>10. Steps(d) <= m - 1
  BY <1>5, <1>7, <1>9
<1>11. Steps(d) \in 0..(Fuel - 1) /\ Steps(d) + 1 \in 0..Fuel
  BY <1>1, <1>5, <1>9, <1>10
<1>12. Orbit(c)[Steps(d) + 1] = 1
  BY <1>6, <1>9, <1>11
<1>13. m = Steps(d) + 1
  BY <1>1, <1>2, <1>5, <1>10, <1>11, <1>12
<1>14. Orbit(c)[1] = d
  <2>1. 0 \in 0..(Fuel - 1) /\ 0 + 1 = 1
    BY <1>1, <1>5
  <2>2. Orbit(d)[0] = d
    BY <1>1, OrbitUnfolds
  <2> QED BY <2>1, <2>2, <1>6
<1>15. Passed(c) = {d} \cup Passed(d)
  <2>1. ASSUME NEW k \in 1..m PROVE Orbit(c)[k] \in {d} \cup Passed(d)
    <3>1. CASE k = 1
      BY <3>1, <1>14
    <3>2. CASE k # 1
      <4>1. k - 1 \in 1..Steps(d) /\ k - 1 \in 0..(Fuel - 1) /\ (k - 1) + 1 = k
        BY <3>2, <1>1, <1>11, <1>13
      <4>2. Orbit(d)[k - 1] = Orbit(c)[k]
        BY <4>1, <1>6
      <4> QED BY <4>1, <4>2 DEF Passed
    <3> QED BY <3>1, <3>2
  <2>2. ASSUME NEW k \in 1..Steps(d) PROVE Orbit(d)[k] \in Passed(c)
    <3>1. k + 1 \in 1..m /\ k \in 0..(Fuel - 1)
      BY <1>1, <1>11, <1>13
    <3>2. Orbit(d)[k] = Orbit(c)[k + 1]
      BY <3>1, <1>6
    <3> QED BY <3>1, <3>2 DEF Passed, m
  <2>3. d \in Passed(c)
    <3>1. 1 \in 1..m
      BY <1>11, <1>13
    <3> QED BY <3>1, <1>14 DEF Passed, m
  <2>4. Passed(c) \subseteq {d} \cup Passed(d)
    BY <2>1 DEF Passed, m
  <2>5. Passed(d) \subseteq Passed(c)
    BY <2>2 DEF Passed
  <2> QED BY <2>3, <2>4, <2>5
<1> QED BY <1>8, <1>9, <1>11, <1>13, <1>15, <1>1 DEF d, m

-----------------------------------------------------------------------------
(* Maxima and blocks *)

\* A bounded set of naturals has a greatest element.
LEMMA MaxOf ==
  ASSUME NEW b \in Nat, NEW T, T \subseteq 0..b, T # {}
  PROVE  Max(T) \in T /\ \A y \in T : y <= Max(T)
<1> DEFINE U == {x \in 0..b : \A y \in T : y <= x}
<1>1. b \in U
  OBVIOUS
<1>2. PICK u \in U : \A x \in U : u <= x
  <2>1. U \subseteq Nat /\ U # {}
    BY <1>1
  <2> HIDE DEF U
  <2> QED BY <2>1, LeastNat
<1>3. u \in 0..b /\ \A y \in T : y <= u
  BY <1>2
<1>4. u \in T
  <2> SUFFICES ASSUME u \notin T PROVE FALSE
    OBVIOUS
  <2>1. PICK y \in T : TRUE
    OBVIOUS
  <2>2. u # 0
    BY <2>1, <1>3
  <2>3. u - 1 \in 0..b /\ \A x \in T : x <= u - 1
    BY <1>3, <2>2
  <2>4. u - 1 \in U
    BY <2>3
  <2> HIDE DEF U
  <2> QED BY <2>4, <1>2, <1>3
<1>5. \A y \in T : u >= y
  BY <1>3
<1>6. Max(T) \in T /\ \A y \in T : Max(T) >= y
  BY <1>4, <1>5 DEF Max
<1> QED BY <1>6, <1>3

LEMMA LineType ==
  ASSUME NEW l \in 1..Len(Lines)
  PROVE  /\ Lines[l].first \in Nat \ {0} /\ Lines[l].last \in Nat \ {0} /\ Lines[l].blk \in Nat
         /\ Lines[l].first <= Lines[l].last
<1> DEFINE R == [first : Nat \ {0}, last : Nat \ {0}, blk : Nat]
<1>1. Lines \in Seq(R)
  BY ConstAssumption
<1>2. Lines[l] \in R
  <2> HIDE DEF R
  <2> QED BY <1>1
<1>3. Lines[l].first <= Lines[l].last
  BY ConstAssumption
<1> QED BY <1>2, <1>3

\* The maximum that the program is to find.
LEMMA MaxStepsIs ==
  ASSUME NEW l \in 1..Len(Lines)
  PROVE  /\ \A c \in Ints(Lines[l]) : Reaches(c) /\ Steps(c) \in Nat /\ Steps(c) <= MaxSteps(Lines[l])
         /\ \E c \in Ints(Lines[l]) : MaxSteps(Lines[l]) = Steps(c)
         /\ MaxSteps(Lines[l]) \in Nat
<1>1. /\ Fuel \in Nat
      /\ Lines[l].first \in Nat \ {0} /\ Lines[l].last \in Nat \ {0}
      /\ Lines[l].first <= Lines[l].last
  BY ConstAssumption, LineType
<1>2. \A c \in Ints(Lines[l]) : Reaches(c)
  BY <1>1, RangeAssumption DEF Ints, Reaches
<1> DEFINE T == {Steps(c) : c \in Ints(Lines[l])}
<1>3. T \subseteq 0..Fuel
  BY <1>2, StepsFirst
<1>4. Lines[l].first \in Ints(Lines[l])
  BY <1>1 DEF Ints
<1>5. T # {}
  BY <1>4
<1>6. MaxSteps(Lines[l]) = Max(T)
  BY DEF MaxSteps
<1>7. Max(T) \in T /\ \A y \in T : y <= Max(T)
  <2> HIDE DEF T
  <2> QED BY <1>1, <1>3, <1>5, MaxOf
<1>8. \A c \in Ints(Lines[l]) : Steps(c) \in T
  OBVIOUS
<1>9. \E c \in Ints(Lines[l]) : Max(T) = Steps(c)
  BY <1>7
<1> HIDE DEF T
<1>10. \A c \in Ints(Lines[l]) : Steps(c) \in Nat /\ Steps(c) <= Max(T)
  <2> SUFFICES ASSUME NEW c \in Ints(Lines[l]) PROVE Steps(c) \in Nat /\ Steps(c) <= Max(T)
    OBVIOUS
  <2>1. Steps(c) \in T
    BY <1>8
  <2>2. Steps(c) <= Max(T)
    BY <2>1, <1>7
  <2>3. Steps(c) \in 0..Fuel
    BY <2>1, <1>3
  <2> QED BY <2>2, <2>3, <1>1
<1>11. Max(T) \in Nat
  <2>1. Max(T) \in 0..Fuel
    BY <1>3, <1>7
  <2> QED BY <2>1, ConstAssumption
<1> QED BY <1>2, <1>6, <1>9, <1>10, <1>11

LEMMA Division ==
  ASSUME NEW x \in Nat, NEW b \in Nat \ {0}
  PROVE  x \div b \in Nat /\ b * (x \div b) <= x /\ x < b * (x \div b) + b
<1>1. x % b \in 0..(b - 1) /\ x = b * (x \div b) + (x % b) /\ x \div b \in Nat
  OBVIOUS
<1> DEFINE q == x \div b
           r == x % b
           z == b * q
<1>2. z \in Nat
  BY <1>1
<1>3. r \in 0..(b - 1) /\ x = z + r
  BY <1>1
<1> HIDE DEF r, z
<1>4. z <= x /\ x < z + b
  BY <1>2, <1>3
<1> QED BY <1>1, <1>4 DEF z

LEMMA BlockSizeType ==
  ASSUME NEW l \in 1..Len(Lines)
  PROVE  BlockSize(Lines[l]) \in Nat \ {0}
<1> DEFINE L == Lines[l]
           k == Cardinality(Kids)
           x == L.last - L.first + k
<1>1. L.first \in Nat \ {0} /\ L.last \in Nat \ {0} /\ L.blk \in Nat /\ L.first <= L.last
  BY LineType
<1>2. k \in Nat \ {0}
  BY ConstAssumption, FS_CardinalityType, FS_EmptySet
<1>3. x \in Nat /\ x >= k
  BY <1>1, <1>2
<1> HIDE DEF x, k
<1>4. x \div k \in Nat /\ x < k * (x \div k) + k
  BY <1>2, <1>3, Division
<1>5. x \div k # 0
  <2> SUFFICES ASSUME x \div k = 0 PROVE FALSE
    OBVIOUS
  <2>1. k * 0 = 0
    BY <1>2
  <2> QED BY <2>1, <1>2, <1>3, <1>4
<1>6. BlockSize(L) = IF L.blk # 0 /\ L.blk <= x \div k THEN L.blk ELSE x \div k
  BY DEF BlockSize, x, k
<1> QED BY <1>1, <1>4, <1>5, <1>6

\* The first number of block t of the line l.
First(l, t) == IF t = 1 THEN Lines[l].first ELSE Limits(Lines[l])[t - 1] + 1

\* The blocks are not empty, lie in the range and reach its end.
LEMMA LimitsFacts ==
  ASSUME NEW l \in 1..Len(Lines)
  PROVE  /\ Limits(Lines[l]) \in Seq(Nat)
         /\ Len(Limits(Lines[l])) >= 1
         /\ Limits(Lines[l])[Len(Limits(Lines[l]))] = Lines[l].last
         /\ \A t \in 1..Len(Limits(Lines[l])) :
              /\ First(l, t) \in Ints(Lines[l])
              /\ Limits(Lines[l])[t] \in Ints(Lines[l])
              /\ First(l, t) <= Limits(Lines[l])[t]
<1> DEFINE L == Lines[l]
           b == BlockSize(L)
           f == L.first
           z == L.last
           x == z - f + b
           m == x \div b
           e(c) == f - 1 + c * b
           v(c) == IF e(c) > z THEN z ELSE e(c)
           S == Limits(L)
<1>1. f \in Nat \ {0} /\ z \in Nat \ {0} /\ f <= z
  BY LineType
<1>2. b \in Nat \ {0}
  BY BlockSizeType
<1>3. S = [c \in 1..m |-> v(c)]
  BY DEF Limits
<1>i. Ints(L) = f..z
  BY DEF Ints
<1>t. \A t \in Nat : First(l, t) = IF t = 1 THEN f ELSE S[t - 1] + 1
  BY DEF First
<1> HIDE DEF b, f, z, S
<1>4. x \in Nat /\ x >= b
  BY <1>1, <1>2
<1>5. m \in Nat /\ b * m <= x /\ x < b * m + b
  <2> HIDE DEF x
  <2> QED BY <1>2, <1>4, Division
<1> HIDE DEF m
<1>6. m >= 1
  <2>1. b * 0 = 0
    BY <1>2
  <2>2. m # 0
    BY <2>1, <1>2, <1>4, <1>5
  <2> QED BY <2>2, <1>5
<1>7. \A c \in Nat : c * b \in Nat /\ e(c) \in Nat
  BY <1>1, <1>2
<1>8. \A c \in 1..m : v(c) \in Nat
  <2> SUFFICES ASSUME NEW c \in 1..m PROVE v(c) \in Nat
    OBVIOUS
  <2>1. c \in Nat
    BY <1>5
  <2>2. e(c) \in Nat
    BY <2>1, <1>7
  <2> HIDE DEF e
  <2> QED BY <2>2, <1>1
<1>9. ASSUME NEW c \in 0..(m - 1) PROVE e(c) < z
  <2>1. c * b <= (m - 1) * b
    BY <1>2, <1>5
  <2>2. (m - 1) * b + b = b * m
    BY <1>2, <1>5
  <2>3. c * b \in Nat /\ (m - 1) * b \in Nat /\ b * m \in Nat
    BY <1>2, <1>5, <1>6
  <2> DEFINE cb == c * b
             mb == (m - 1) * b
             bm == b * m
  <2>4. cb \in Nat /\ mb \in Nat /\ bm \in Nat /\ cb <= mb /\ mb + b = bm /\ bm <= z - f + b
    BY <2>1, <2>2, <2>3, <1>5
  <2>5. e(c) = f - 1 + cb
    OBVIOUS
  <2> HIDE DEF cb, mb, bm, e
  <2> QED BY <2>4, <2>5, <1>1, <1>2
<1>10. e(m) >= z
  <2>1. m * b = b * m /\ m * b \in Nat
    BY <1>2, <1>5
  <2> QED BY <2>1, <1>1, <1>2, <1>5
<1>11. \A c \in Nat : e(c + 1) = e(c) + b
  <2> SUFFICES ASSUME NEW c \in Nat PROVE e(c + 1) = e(c) + b
    OBVIOUS
  <2>1. (c + 1) * b = c * b + b /\ c * b \in Nat
    BY <1>2
  <2> QED BY <2>1, <1>1, <1>2
<1>0. e(0) = f - 1
  <2>1. 0 * b = 0
    BY <1>2
  <2> QED BY <2>1, <1>1
<1> HIDE DEF e
<1>12. S \in Seq(Nat) /\ Len(S) = m
  <2> HIDE DEF v
  <2>1. S \in [1..m -> Nat]
    BY <1>3, <1>8
  <2> QED BY <2>1, <1>5
<1>13. v(m) = z
  <2>1. e(m) \in Nat
    BY <1>5, <1>7
  <2> QED BY <2>1, <1>1, <1>10
<1>14. ASSUME NEW t \in 1..m
       PROVE  First(l, t) \in Ints(L) /\ v(t) \in Ints(L) /\ First(l, t) <= v(t)
  <2>1. t - 1 \in 0..(m - 1) /\ t - 1 \in Nat /\ (t - 1) + 1 = t
    BY <1>5
  <2>2. e(t - 1) < z /\ e(t) = e(t - 1) + b /\ e(t - 1) \in Nat /\ e(t) \in Nat
    <3>1. e(t - 1) < z
      BY <2>1, <1>9
    <3>2. e((t - 1) + 1) = e(t - 1) + b /\ e(t - 1) \in Nat
      BY <2>1, <1>11, <1>7
    <3>3. e(t) \in Nat
      <4>1. t \in Nat
        BY <1>5
      <4> QED BY <4>1, <1>7
    <3> QED BY <3>1, <3>2, <3>3, <2>1
  <2>3. First(l, t) = e(t - 1) + 1
    <3>1. CASE t = 1
      BY <3>1, <1>0, <1>1, <1>t
    <3>2. CASE t # 1
      <4>1. t - 1 \in 1..m
        BY <3>2, <1>5
      <4>2. S[t - 1] = v(t - 1)
        <5> HIDE DEF v
        <5> QED BY <4>1, <1>3
      <4>3. v(t - 1) = e(t - 1)
        BY <2>2, <1>1
      <4> QED BY <3>2, <4>2, <4>3, <1>t, <1>5
    <3> QED BY <3>1, <3>2
  <2>4. e(t - 1) >= f - 1
    <3>1. (t - 1) * b \in Nat
      BY <2>1, <1>2
    <3> QED BY <3>1, <1>1 DEF e
  <2> QED BY <2>2, <2>3, <2>4, <1>1, <1>2, <1>i
<1>15. \A t \in 1..m : S[t] = v(t)
  <2> HIDE DEF v
  <2> QED BY <1>3
<1> HIDE DEF v
<1>16. S[m] = z
  BY <1>13, <1>15, <1>5, <1>6
<1>17. \A t \in 1..m : First(l, t) \in Ints(L) /\ S[t] \in Ints(L) /\ First(l, t) <= S[t]
  BY <1>14, <1>15
<1> QED BY <1>5, <1>6, <1>12, <1>16, <1>17 DEF S, z

\* Every number of the range is in a block.
LEMMA LimitsCover ==
  ASSUME NEW l \in 1..Len(Lines), NEW n \in Ints(Lines[l])
  PROVE  \E t \in 1..Len(Limits(Lines[l])) : n \in First(l, t)..Limits(Lines[l])[t]
<1> DEFINE S == Limits(Lines[l])
           m == Len(S)
           T == {t \in 1..m : n <= S[t]}
<1>1. Lines[l].first \in Nat \ {0} /\ Lines[l].last \in Nat \ {0}
  BY LineType
<1>2. n \in Nat /\ Lines[l].first <= n /\ n <= Lines[l].last
  BY <1>1 DEF Ints
<1>3. S \in Seq(Nat) /\ m >= 1 /\ S[m] = Lines[l].last
  BY LimitsFacts
<1>f. \A t \in 1..m : First(l, t) = IF t = 1 THEN Lines[l].first ELSE S[t - 1] + 1
  BY DEF First
<1> HIDE DEF S
<1>4. m \in Nat /\ \A t \in 1..m : S[t] \in Nat
  BY <1>3
<1>5. m \in T
  BY <1>2, <1>3, <1>4
<1>6. PICK t \in T : \A y \in T : t <= y
  <2>1. T \subseteq Nat /\ T # {}
    BY <1>5
  <2> HIDE DEF T
  <2> QED BY <2>1, LeastNat
<1>7. t \in 1..m /\ n <= S[t]
  BY <1>6
<1>8. First(l, t) <= n /\ First(l, t) \in Nat
  <2>1. CASE t = 1
    BY <2>1, <1>7, <1>f, <1>1, <1>2
  <2>2. CASE t # 1
    <3>1. t - 1 \in 1..m
      BY <2>2, <1>7
    <3>2. t - 1 \notin T
      <4> HIDE DEF T
      <4> QED BY <1>6, <1>7
    <3>3. ~ (n <= S[t - 1]) /\ S[t - 1] \in Nat
      BY <3>1, <3>2, <1>4
    <3> QED BY <2>2, <3>3, <1>7, <1>f, <1>2
  <2> QED BY <2>1, <2>2
<1>9. n \in First(l, t)..S[t]
  BY <1>2, <1>4, <1>7, <1>8
<1> QED BY <1>7, <1>9 DEF S

-----------------------------------------------------------------------------
(* Sums over the children *)

\* Enum names every child once.
LEMMA EnumFacts ==
  /\ Cardinality(Kids) \in Nat
  /\ Enum \in [1..Cardinality(Kids) -> Kids]
  /\ \A k \in Kids : \E i \in 1..Cardinality(Kids) : Enum[i] = k
  /\ \A i, j \in 1..Cardinality(Kids) : Enum[i] = Enum[j] => i = j
<1> DEFINE N == Cardinality(Kids)
           D == 1..N
<1>1. IsFiniteSet(Kids) /\ N \in Nat /\ ExistsBijection(D, Kids)
  BY ConstAssumption, FS_CardinalityType
<1>2. IsFiniteSet(D) /\ Cardinality(D) = N
  <2>1. Cardinality(D) = IF 1 > N THEN 0 ELSE N - 1 + 1
    BY <1>1, FS_Interval
  <2> QED BY <2>1, <1>1, FS_Interval
<1>3. PICK b : b \in Bijection(D, Kids)
  BY <1>1 DEF ExistsBijection
<1>4. b \in [D -> Kids] /\ \A k \in Kids : \E i \in D : b[i] = k
  BY <1>3 DEF Bijection, Surjection
<1>5. Enum \in [D -> Kids] /\ \A k \in Kids : \E i \in D : Enum[i] = k
  BY <1>4 DEF Enum
<1> HIDE DEF D
<1>6. Enum \in Surjection(D, Kids)
  BY <1>5 DEF Surjection
<1>7. Enum \in Injection(D, Kids)
  BY <1>2, <1>6, FS_SurjSameCardinalityImpliesInj
<1>8. \A i, j \in D : Enum[i] = Enum[j] => i = j
  BY <1>7 DEF Injection, IsInjective
<1> QED BY <1>1, <1>5, <1>8 DEF D

\* f is the partial sums of v.
Sums(f, v) ==
  /\ f \in [0..Cardinality(Kids) -> Nat]
  /\ f[0] = 0
  /\ \A i \in 1..Cardinality(Kids) : f[i] = f[i - 1] + v[Enum[i]]

LEMMA TotalSums ==
  ASSUME NEW v \in [Kids -> Nat]
  PROVE  \E f : Sums(f, v) /\ Total(v) = f[Cardinality(Kids)]
<1> DEFINE N == Cardinality(Kids)
           h == [i \in 1..N |-> [x \in Nat |-> x + v[Enum[i]]]]
           Eq(f) == f = [i \in 0..N |-> IF i = 0 THEN 0 ELSE f[i - 1] + v[Enum[i]]]
           F == CHOOSE f : Eq(f)
<1>1. N \in Nat /\ \A i \in 1..N : v[Enum[i]] \in Nat
  BY EnumFacts
<1>7. Total(v) = F[N]
  BY DEF Total
<1>s. \A f : (f \in [0..N -> Nat] /\ f[0] = 0 /\ \A i \in 1..N : f[i] = f[i - 1] + v[Enum[i]])
               => Sums(f, v)
  BY DEF Sums
<1> HIDE DEF N
<1>2. h \in [1..N -> [Nat -> Nat]]
  BY <1>1
<1>3. PICK g : Solves(g, 0, h, N)
  <2> HIDE DEF h
  <2> QED BY <1>1, <1>2, Recursion
<1>4. g \in [0..N -> Nat] /\ g[0] = 0 /\ \A i \in 1..N : g[i] = g[i - 1] + v[Enum[i]]
  <2>1. g \in [0..N -> Nat] /\ g[0] = 0 /\ \A i \in 1..N : g[i] = h[i][g[i - 1]]
    <3> HIDE DEF h
    <3> QED BY <1>3 DEF Solves
  <2>2. \A i \in 1..N : g[i - 1] \in Nat
    BY <2>1, <1>1
  <2> QED BY <2>1, <2>2
<1>5. Eq(g)
  <2>1. \A i \in 0..N : g[i] = IF i = 0 THEN 0 ELSE g[i - 1] + v[Enum[i]]
    <3> SUFFICES ASSUME NEW i \in 0..N, i # 0 PROVE g[i] = g[i - 1] + v[Enum[i]]
      BY <1>4
    <3>1. i \in 1..N
      BY <1>1
    <3> QED BY <3>1, <1>4
  <2> QED BY <1>4, <2>1
<1>6. Eq(F)
  <2> HIDE DEF Eq
  <2> QED BY <1>5
<1> HIDE DEF F
<1>8. \A i \in 0..N : F[i] = IF i = 0 THEN 0 ELSE F[i - 1] + v[Enum[i]]
  BY <1>6
<1> DEFINE T == {i \in 0..N : F[i] # g[i]}
<1>9. T = {}
  <2> SUFFICES ASSUME T # {} PROVE FALSE
    OBVIOUS
  <2>1. PICK i \in T : \A y \in T : i <= y
    <3>1. T \subseteq Nat
      OBVIOUS
    <3> HIDE DEF T
    <3> QED BY <3>1, LeastNat
  <2>2. i \in 0..N /\ F[i] # g[i]
    BY <2>1
  <2>3. i # 0
    BY <2>2, <1>8, <1>4
  <2>4. i \in 1..N /\ i - 1 \in 0..N /\ i - 1 \notin T
    <3> HIDE DEF T
    <3> QED BY <1>1, <2>1, <2>2, <2>3
  <2>5. F[i - 1] = g[i - 1]
    BY <2>4
  <2>6. F[i] = F[i - 1] + v[Enum[i]] /\ g[i] = g[i - 1] + v[Enum[i]]
    BY <1>8, <1>4, <2>2, <2>3, <2>4
  <2> QED BY <2>2, <2>5, <2>6
<1>10. F[N] = g[N]
  <2>1. N \in 0..N
    BY <1>1
  <2> QED BY <2>1, <1>9
<1>11. Sums(g, v)
  BY <1>4, <1>s
<1> QED BY <1>7, <1>10, <1>11 DEF N

\* A child's number changes by d: the sum does.
LEMMA TotalChange ==
  ASSUME NEW v \in [Kids -> Nat], NEW w \in [Kids -> Nat], NEW k \in Kids, NEW d \in Int,
         w[k] = v[k] + d, \A j \in Kids : j # k => w[j] = v[j]
  PROVE  Total(w) = Total(v) + d
<1> DEFINE N == Cardinality(Kids)
<1>1. PICK f : Sums(f, v) /\ Total(v) = f[N]
  BY TotalSums
<1>2. PICK g : Sums(g, w) /\ Total(w) = g[N]
  BY TotalSums
<1>3. PICK p \in 1..N : Enum[p] = k
  BY EnumFacts
<1>4. N \in Nat /\ \A i \in 1..N : Enum[i] \in Kids /\ (i # p => Enum[i] # k)
  BY <1>3, EnumFacts
<1>5. f \in [0..N -> Nat] /\ f[0] = 0 /\ \A i \in 1..N : f[i] = f[i - 1] + v[Enum[i]]
  BY <1>1 DEF Sums
<1>6. g \in [0..N -> Nat] /\ g[0] = 0 /\ \A i \in 1..N : g[i] = g[i - 1] + w[Enum[i]]
  BY <1>2 DEF Sums
<1> HIDE DEF N
<1> DEFINE T == {i \in 0..N : g[i] # f[i] + (IF i < p THEN 0 ELSE d)}
<1>7. T = {}
  <2> SUFFICES ASSUME T # {} PROVE FALSE
    OBVIOUS
  <2>1. PICK i \in T : \A y \in T : i <= y
    <3>1. T \subseteq Nat
      OBVIOUS
    <3> HIDE DEF T
    <3> QED BY <3>1, LeastNat
  <2>2. i \in 0..N /\ g[i] # f[i] + (IF i < p THEN 0 ELSE d)
    BY <2>1
  <2>3. i # 0
    BY <2>2, <1>5, <1>6, <1>3
  <2>4. i \in 1..N /\ i - 1 \in 0..N /\ i - 1 \notin T
    <3> HIDE DEF T
    <3> QED BY <1>4, <2>1, <2>2, <2>3
  <2>5. g[i - 1] = f[i - 1] + (IF i - 1 < p THEN 0 ELSE d)
    BY <2>4
  <2>6. g[i] = g[i - 1] + w[Enum[i]] /\ f[i] = f[i - 1] + v[Enum[i]]
    BY <1>5, <1>6, <2>4
  <2>7. f[i - 1] \in Nat /\ v[Enum[i]] \in Nat /\ w[Enum[i]] \in Nat
    BY <1>4, <1>5, <2>4
  <2>8. CASE i = p
    <3>1. w[Enum[i]] = v[Enum[i]] + d
      BY <2>8, <1>3
    <3> QED BY <3>1, <2>2, <2>5, <2>6, <2>7, <2>8, <1>3
  <2>9. CASE i # p
    <3>1. w[Enum[i]] = v[Enum[i]]
      BY <2>9, <2>4, <1>4
    <3> QED BY <3>1, <2>2, <2>5, <2>6, <2>7, <2>9, <1>3
  <2> QED BY <2>8, <2>9
<1>8. N \in 0..N /\ ~ (N < p)
  BY <1>3, <1>4
<1>9. g[N] = f[N] + d
  BY <1>7, <1>8
<1> QED BY <1>1, <1>2, <1>9

\* The sum of nothing is nothing.
LEMMA TotalZero ==
  ASSUME NEW v \in [Kids -> Nat], \A k \in Kids : v[k] = 0
  PROVE  Total(v) = 0
<1> DEFINE N == Cardinality(Kids)
<1>1. PICK f : Sums(f, v) /\ Total(v) = f[N]
  BY TotalSums
<1>2. N \in Nat /\ \A i \in 1..N : v[Enum[i]] = 0
  BY EnumFacts
<1>3. f \in [0..N -> Nat] /\ f[0] = 0 /\ \A i \in 1..N : f[i] = f[i - 1] + v[Enum[i]]
  BY <1>1 DEF Sums
<1> HIDE DEF N
<1> DEFINE T == {i \in 0..N : f[i] # 0}
<1>4. T = {}
  <2> SUFFICES ASSUME T # {} PROVE FALSE
    OBVIOUS
  <2>1. PICK i \in T : \A y \in T : i <= y
    <3>1. T \subseteq Nat
      OBVIOUS
    <3> HIDE DEF T
    <3> QED BY <3>1, LeastNat
  <2>2. i \in 0..N /\ f[i] # 0
    BY <2>1
  <2>3. i # 0
    BY <2>2, <1>3
  <2>4. i \in 1..N /\ i - 1 \in 0..N /\ i - 1 \notin T
    <3> HIDE DEF T
    <3> QED BY <1>2, <2>1, <2>2, <2>3
  <2>5. f[i - 1] = 0
    BY <2>4
  <2>6. f[i] = f[i - 1] + v[Enum[i]] /\ v[Enum[i]] = 0
    BY <2>4, <1>2, <1>3
  <2> QED BY <2>2, <2>5, <2>6
<1>5. f[N] = 0
  <2>1. N \in 0..N
    BY <1>2
  <2> QED BY <2>1, <1>4
<1> QED BY <1>1, <1>5

-----------------------------------------------------------------------------
(* Steps of a child: what does not change *)

\* Child k goes on to c, and what the children share only grows.
Moves(k, c) ==
  /\ UNCHANGED shared
  /\ kid' = [kid EXCEPT ![k] = c]
  /\ c \in KidState
  /\ kid[k].pc # "none" /\ c.pc # "none"
  /\ claims' \in Seq(Nat) /\ Len(claims') = Len(claims)
  /\ \A t \in 1..Len(claims) : claims[t] # 0 => claims'[t] # 0
  /\ DOMAIN step \subseteq DOMAIN step'
  /\ result' \in Nat \cup {Undef} /\ Numbers(result) <= Numbers(result')

\* Only a child of a line that is being worked on moves.
LEMMA MovesInLine ==
  ASSUME IInv, NEW k \in Kids, NEW c, Moves(k, c)
  PROVE  parent # "read" /\ line \in 1..Len(Lines) /\ limits = Limits(Lines[line])
<1>1. parent # "read"
  <2> SUFFICES ASSUME parent = "read" PROVE FALSE
    OBVIOUS
  <2>1. kid = [j \in Kids |-> Idle]
    BY DEF IInv, LocksOK
  <2>2. kid[k].pc = "none"
    BY <2>1 DEF Idle
  <2> QED BY <2>2 DEF Moves
<1>2. line \in 1..Len(Lines)
  BY <1>1, ConstAssumption DEF IInv, Types
<1>3. limits = Limits(Lines[line])
  BY <1>1 DEF IInv, BlocksOK
<1> QED BY <1>1, <1>2, <1>3

\* The invariant of the other children is not disturbed.
LEMMA OthersOK ==
  ASSUME IInv, NEW k \in Kids, NEW c, Moves(k, c), NEW j \in Kids, j # k
  PROVE  KidOK(j)'
<1>1. kid'[j] = kid[j] /\ kid[j] \in KidState
  BY DEF IInv, Types, Moves
<1>2. KidOK(j) /\ line' = line /\ limits' = limits
  BY DEF IInv, Moves, shared
<1>3. \A n : IsKnown(n) => IsKnown(n)'
  BY DEF IsKnown, Moves
<1>4. kid[j].pc \in {"walk", "known"} => WalkOK(kid[j])'
  BY <1>1, <1>2, <1>3 DEF KidOK, WalkOK
<1>5. kid[j].pc \in {"max", "maxset", "store"} => StoreOK(kid[j])'
  <2> SUFFICES ASSUME kid[j].pc \in {"max", "maxset", "store"} PROVE StoreOK(kid[j])'
    OBVIOUS
  <2>1. StoreOK(kid[j])
    BY <1>2 DEF KidOK
  <2>2. kid[j].pc = "store" /\ line = 1 => kid[j].i <= Numbers(result')
    <3>1. Numbers(result) \in Int /\ Numbers(result') \in Int /\ kid[j].i \in Nat
      BY <1>1 DEF IInv, Types, Moves, Numbers, Undef, KidState
    <3>2. Numbers(result) <= Numbers(result')
      BY DEF Moves
    <3> QED BY <3>1, <3>2, <2>1 DEF StoreOK
  <2> QED BY <2>1, <2>2, <1>1, <1>2, <1>3 DEF StoreOK
<1>6. BlockOK(kid[j])'
  <2>1. BlockOK(kid[j])
    BY <1>2 DEF KidOK
  <2>2. \A t \in 1..kid[j].tmp : claims'[t] # 0
    <3>1. kid[j].tmp \in 0..Len(limits) /\ Len(limits) = Len(claims) /\ Len(claims) \in Nat
      BY <2>1 DEF BlockOK, IInv, Types
    <3> QED BY <3>1, <2>1 DEF BlockOK, Moves
  <2>3. \A t : FirstOf(t)' = FirstOf(t)
    BY <1>2 DEF FirstOf
  <2> QED BY <2>1, <2>2, <2>3, <1>1, <1>2 DEF BlockOK
<1> QED BY <1>1, <1>4, <1>5, <1>6 DEF KidOK

\* Locks and ^count stay right when a child that holds l2(pid) and is counted
\* out goes on without touching them.
LEMMA LocksQuiet ==
  ASSUME IInv, NEW k \in Kids, NEW c, Moves(k, c),
         kid[k].pc \notin {"l2", "decr", "dead"}, c.pc \notin {"l2", "decr", "dead"},
         l2' = l2, count' = count
  PROVE  LocksOK'
<1>1. parent # "read" /\ parent' = parent /\ forked' = forked /\ prog' = prog
  BY MovesInLine DEF Moves, shared
<1>2. kid \in [Kids -> KidState] /\ kid'[k] = c /\ \A j \in Kids : j # k => kid'[j] = kid[j]
  BY DEF IInv, Types, Moves
<1>3. kid[k].pc # "none" /\ c.pc # "none"
  BY DEF Moves
<1>4. Uncounted' = Uncounted
  BY <1>2 DEF Uncounted
<1>5. parent # "report"
  BY DEF IInv, LocksOK
<1> QED BY <1>1, <1>2, <1>3, <1>4, <1>5 DEF IInv, LocksOK

\* The blocks stay right while a child works on one number or on none.
LEMMA BlocksQuiet ==
  ASSUME IInv, NEW k \in Kids, NEW c, Moves(k, c),
         \A t \in 1..Len(limits) : claims'[t] # 0 => claims[t] # 0 \/ BlockDone(t)',
         kid[k].pc \in Works => c.pc \in Works /\ c.tmp = kid[k].tmp /\ c.current = kid[k].current
  PROVE  BlocksOK'
<1>1. parent # "read" /\ parent' = parent /\ limits' = limits /\ line' = line
  BY MovesInLine DEF Moves, shared
<1>2. kid \in [Kids -> KidState] /\ kid'[k] = c /\ \A j \in Kids : j # k => kid'[j] = kid[j]
  BY DEF IInv, Types, Moves
<1>3. \A n : IsKnown(n) => IsKnown(n)'
  BY DEF IsKnown, Moves
<1>4. \A t : FirstOf(t)' = FirstOf(t)
  BY <1>1 DEF FirstOf
<1>5. ASSUME NEW t \in 1..Len(limits), claims[t] # 0 PROVE BlockDone(t)'
  <2>1. BlockDone(t)
    BY <1>1, <1>5 DEF IInv, BlocksOK
  <2>2. CASE \A n \in FirstOf(t)..limits[t] : IsKnown(n)
    BY <2>2, <1>1, <1>3, <1>4 DEF BlockDone
  <2>3. CASE \E j \in Kids : /\ kid[j].pc \in Works /\ kid[j].tmp = t
                             /\ \A n \in FirstOf(t)..(kid[j].current - 1) : IsKnown(n)
    <3>1. PICK j \in Kids : /\ kid[j].pc \in Works /\ kid[j].tmp = t
                            /\ \A n \in FirstOf(t)..(kid[j].current - 1) : IsKnown(n)
      BY <2>3
    <3>2. kid'[j].pc \in Works /\ kid'[j].tmp = t /\ kid'[j].current = kid[j].current
      BY <3>1, <1>2
    <3>3. \A n \in FirstOf(t)..(kid'[j].current - 1) : IsKnown(n)'
      BY <3>1, <3>2, <1>3
    <3> QED BY <3>2, <3>3, <1>4 DEF BlockDone
  <2> QED BY <2>1, <2>2, <2>3 DEF BlockDone
<1> QED BY <1>1, <1>5 DEF IInv, BlocksOK

\* ^result and ^step stay right when they do not change.
LEMMA ResultQuiet ==
  ASSUME IInv, NEW k \in Kids, NEW c, Moves(k, c), step' = step, result' = result
  PROVE  StepOK' /\ ResultOK'
<1>1. line' = line
  BY DEF Moves, shared
<1> QED BY <1>1 DEF IInv, StepOK, ResultOK

LEMMA PassedType ==
  ASSUME NEW n, Reaches(n)
  PROVE  Passed(n) \subseteq Nat
<1>1. n \in Nat /\ Fuel \in Nat
  BY ConstAssumption DEF Reaches
<1>2. Orbit(n) \in [0..Fuel -> Nat]
  BY <1>1, OrbitUnfolds
<1>3. Steps(n) \in 0..Fuel
  BY StepsFirst
<1>4. \A j \in 1..Steps(n) : j \in 0..Fuel
  BY <1>1, <1>3
<1> QED BY <1>2, <1>4 DEF Passed

\* The node of n in ^step is about n.
LEMMA StepKnows ==
  ASSUME StepOK, NEW n \in Nat, IntToStr[n] \in DOMAIN step
  PROVE  /\ Reaches(n) /\ step[IntToStr[n]] = IntToStr[Steps(n)]
         /\ line = 1 => Steps(n) <= Numbers(result)
<1>1. PICK m \in Nat \ {0} :
        /\ IntToStr[n] = IntToStr[m] /\ Reaches(m) /\ step[IntToStr[n]] = IntToStr[Steps(m)]
        /\ line = 1 => Steps(m) <= Numbers(result)
  BY DEF StepOK
<1>2. StrToInt(IntToStr[n]) = n /\ StrToInt(IntToStr[m]) = m
  BY WordsRight
<1>3. m = n
  BY <1>1, <1>2
<1> QED BY <1>1, <1>3

\* What is recorded stays recorded.
LEMMA RecordedGrows ==
  ASSUME IInv, NEW k \in Kids, NEW c, Moves(k, c), stats' \in Counts,
         stats.highest <= stats'.highest, kid[k].pc # "dead",
         kid[k].highest <= IF c.pc = "dead" THEN stats'.highest ELSE c.highest,
         NEW x \in Nat, Recorded(x)
  PROVE  Recorded(x)'
<1>1. kid \in [Kids -> KidState] /\ kid'[k] = c /\ (\A j \in Kids : j # k => kid'[j] = kid[j])
      /\ c \in KidState
  BY DEF IInv, Types, Moves
<1>2. stats.highest \in Nat /\ stats'.highest \in Nat /\ c.highest \in Nat
  BY <1>1 DEF IInv, Types, Counts, KidState
<1>3. CASE x <= stats.highest
  BY <1>2, <1>3 DEF Recorded
<1>4. CASE \E j \in Kids : kid[j].pc # "dead" /\ x <= kid[j].highest
  <2>1. PICK j \in Kids : kid[j].pc # "dead" /\ x <= kid[j].highest
    BY <1>4
  <2>2. kid[j].highest \in Nat
    BY <1>1 DEF KidState
  <2>3. CASE j # k
    BY <2>1, <2>3, <1>1 DEF Recorded
  <2>4. CASE j = k /\ c.pc = "dead"
    BY <2>1, <2>2, <2>4, <1>2 DEF Recorded
  <2>5. CASE j = k /\ c.pc # "dead"
    BY <2>1, <2>2, <2>5, <1>1, <1>2 DEF Recorded
  <2> QED BY <2>3, <2>4, <2>5
<1> QED BY <1>3, <1>4 DEF Recorded

\* The statistics stay right.
LEMMA StatsMove ==
  ASSUME IInv, NEW k \in Kids, NEW c, Moves(k, c), stats' \in Counts, rounds' \in Nat,
         prog = "st" /\ crashes = 0 =>
           /\ kid[k].pc # "dead"
           /\ stats.highest <= stats'.highest
           /\ kid[k].highest <= IF c.pc = "dead" THEN stats'.highest ELSE c.highest
           /\ (stats'.reads - stats.reads) + ((IF c.pc = "dead" THEN 0 ELSE c.reads) - kid[k].reads)
                = rounds' - rounds
           /\ stats'.highest \in Heights(Lines[line])
           /\ HeightOK(kid[k])'
           /\ line = 1 => \A n \in Nat \ {0} :
                IntToStr[n] \in DOMAIN step' /\ IntToStr[n] \notin DOMAIN step =>
                  \A x \in Passed(n) : Recorded(x)'
  PROVE  StatsOK'
<1>0. prog' = prog /\ crashes' = crashes /\ line' = line /\ parent' = parent /\ parent # "read"
      /\ line <= Len(Lines) /\ line \in Nat
  <2>1. prog' = prog /\ crashes' = crashes /\ line' = line /\ parent' = parent
    BY DEF Moves, shared
  <2>2. parent # "read" /\ line \in 1..Len(Lines)
    BY MovesInLine
  <2>3. Len(Lines) \in Nat
    BY ConstAssumption
  <2> QED BY <2>1, <2>2, <2>3
<1> SUFFICES ASSUME prog = "st", crashes = 0
             PROVE  /\ stats'.reads + Total(Pending') = rounds'
                    /\ stats'.highest \in Heights(Lines[line])
                    /\ \A j \in Kids : HeightOK(kid[j])'
                    /\ line = 1 => \A n \in Nat \ {0} :
                         IntToStr[n] \in DOMAIN step' => \A x \in Passed(n) : Recorded(x)'
  <2>1. \A v : Total(v)' = Total(v)
    BY DEF Total
  <2> QED BY <1>0, <2>1 DEF StatsOK
<1>1. kid \in [Kids -> KidState] /\ kid'[k] = c /\ (\A j \in Kids : j # k => kid'[j] = kid[j])
      /\ c \in KidState /\ kid' \in [Kids -> KidState]
  BY DEF IInv, Types, Moves
<1>2. /\ stats.reads + Total(Pending) = rounds
      /\ \A j \in Kids : HeightOK(kid[j])
      /\ line = 1 => \A n \in Nat \ {0} :
           IntToStr[n] \in DOMAIN step => \A x \in Passed(n) : Recorded(x)
  BY <1>0 DEF IInv, StatsOK
<1>3. \A x \in Nat : Recorded(x) => Recorded(x)'
  BY RecordedGrows
<1>4. stats'.reads + Total(Pending') = rounds'
  <2> DEFINE d == (IF c.pc = "dead" THEN 0 ELSE c.reads) - kid[k].reads
  <2>0. kid[k].reads \in Nat /\ c.reads \in Nat
    BY <1>1 DEF KidState
  <2>1. d \in Int
    BY <2>0
  <2>2. Pending \in [Kids -> Nat] /\ Pending' \in [Kids -> Nat]
    BY <1>1 DEF Pending, KidState
  <2>3. Pending'[k] = Pending[k] + d
    <3>1. Pending[k] = kid[k].reads /\ Pending'[k] = IF c.pc = "dead" THEN 0 ELSE c.reads
      BY <1>1 DEF Pending
    <3> QED BY <3>1, <2>0
  <2>4. \A j \in Kids : j # k => Pending'[j] = Pending[j]
    BY <1>1 DEF Pending
  <2>5. Total(Pending') = Total(Pending) + d
    <3> HIDE DEF d
    <3> QED BY <2>1, <2>2, <2>3, <2>4, TotalChange
  <2>6. stats.reads \in Nat /\ stats'.reads \in Nat /\ rounds \in Nat
    BY DEF IInv, Types, Counts
  <2>7. Total(Pending) = rounds - stats.reads
    <3>1. Total(Pending) \in Nat
      <4>1. PICK f : Sums(f, Pending) /\ Total(Pending) = f[Cardinality(Kids)]
        BY <2>2, TotalSums
      <4>2. Cardinality(Kids) \in 0..Cardinality(Kids)
        BY EnumFacts
      <4> QED BY <4>1, <4>2 DEF Sums
    <3> QED BY <3>1, <2>6, <1>2
  <2>8. (stats'.reads - stats.reads) + d = rounds' - rounds
    OBVIOUS
  <2> HIDE DEF d
  <2> QED BY <2>1, <2>5, <2>6, <2>7, <2>8
<1>5. ASSUME NEW j \in Kids PROVE HeightOK(kid[j])'
  <2>1. CASE j = k
    BY <2>1
  <2>2. CASE j # k
    <3>1. kid'[j] = kid[j] /\ HeightOK(kid[j]) /\ KidOK(j) /\ kid[j] \in KidState
      BY <2>2, <1>1, <1>2 DEF IInv
    <3> DEFINE e == kid[j]
    <3>2. line = 1 /\ e.pc \in {"walk", "known"} =>
            \A i \in 1..Len(e.path) : \A x \in Passed(e.path[i]) : x \in Passed(e.n) \/ Recorded(x)'
      <4> SUFFICES ASSUME line = 1, e.pc \in {"walk", "known"}, NEW i \in 1..Len(e.path),
                          NEW x \in Passed(e.path[i])
                   PROVE  x \in Passed(e.n) \/ Recorded(x)'
        OBVIOUS
      <4>1. Reaches(e.path[i])
        BY <3>1 DEF KidOK, WalkOK
      <4>2. x \in Nat
        BY <4>1, PassedType
      <4>3. x \in Passed(e.n) \/ Recorded(x)
        BY <3>1 DEF HeightOK
      <4> QED BY <4>2, <4>3, <1>3
    <3>3. line = 1 /\ e.pc \in {"max", "maxset", "store"} =>
            \A i \in 1..Len(e.path) : \A x \in Passed(e.path[i]) : Recorded(x)'
      <4> SUFFICES ASSUME line = 1, e.pc \in {"max", "maxset", "store"}, NEW i \in 1..Len(e.path),
                          NEW x \in Passed(e.path[i])
                   PROVE  Recorded(x)'
        OBVIOUS
      <4>1. Reaches(e.path[i])
        BY <3>1 DEF KidOK, StoreOK
      <4>2. x \in Nat
        BY <4>1, PassedType
      <4>3. Recorded(x)
        BY <3>1 DEF HeightOK
      <4> QED BY <4>2, <4>3, <1>3
    <3> QED BY <3>1, <3>2, <3>3, <1>0 DEF HeightOK
  <2> QED BY <2>1, <2>2
<1>6. ASSUME line = 1, NEW n \in Nat \ {0}, IntToStr[n] \in DOMAIN step', NEW x \in Passed(n)
      PROVE  Recorded(x)'
  <2>1. CASE IntToStr[n] \notin DOMAIN step
    BY <1>6, <2>1
  <2>2. CASE IntToStr[n] \in DOMAIN step
    <3>1. Reaches(n)
      BY <2>2, StepKnows DEF IInv
    <3>2. x \in Nat
      BY <3>1, <1>6, PassedType
    <3>3. Recorded(x)
      BY <2>2, <1>2, <1>6
    <3> QED BY <3>2, <3>3, <1>3
  <2> QED BY <2>1, <2>2
<1> QED BY <1>4, <1>5, <1>6

\* The parts of the invariant, put together after a step of a child.
LEMMA MoveInv ==
  ASSUME IInv, NEW k \in Kids, NEW c, Moves(k, c),
         count' \in Int, l1' \subseteq Kids \cup {Parent}, l2' \subseteq Kids \cup {Parent},
         stats' \in Counts, rounds' \in Nat,
         LocksOK', StepOK', KidOK(k)', BlocksOK', ResultOK', StatsOK'
  PROVE  IInv'
<1>1. Types'
  <2>1. /\ prog' = prog /\ line' = line /\ parent' = parent /\ forked' = forked
        /\ limits' = limits /\ crashes' = crashes
    BY DEF Moves, shared
  <2>2. kid' \in [Kids -> KidState]
    BY DEF IInv, Types, Moves
  <2>3. claims' \in Seq(Nat) /\ Len(claims') = Len(claims) /\ result' \in Nat \cup {Undef}
    BY DEF Moves
  <2> QED BY <2>1, <2>2, <2>3 DEF IInv, Types
<1>2. \A j \in Kids : KidOK(j)'
  BY OthersOK
<1> QED BY <1>1, <1>2 DEF IInv

\* The same for a step of a child that neither writes the results nor counts.
LEMMA QuietInv ==
  ASSUME IInv, NEW k \in Kids, NEW c, Moves(k, c),
         step' = step, result' = result, stats' = stats, rounds' = rounds,
         count' \in Int, l1' \subseteq Kids \cup {Parent}, l2' \subseteq Kids \cup {Parent},
         LocksOK', KidOK(k)', BlocksOK',
         prog = "st" => kid[k].pc # "dead" /\ c.pc # "dead",
         c.reads = kid[k].reads, c.highest = kid[k].highest,
         prog = "st" /\ crashes = 0 => HeightOK(kid[k])'
  PROVE  IInv'
<1>1. stats \in Counts /\ rounds \in Nat /\ kid[k] \in KidState
  BY DEF IInv, Types
<1>2. StepOK' /\ ResultOK'
  BY ResultQuiet
<1>3. kid[k].highest \in Nat /\ kid[k].reads \in Nat /\ stats.highest \in Nat /\ stats.reads \in Nat
  BY <1>1 DEF KidState, Counts
<1>4. line <= Len(Lines)
  BY MovesInLine, ConstAssumption
<1>5. prog = "st" /\ crashes = 0 => stats.highest \in Heights(Lines[line])
  BY <1>4 DEF IInv, StatsOK
<1>6. StatsOK'
  BY <1>1, <1>3, <1>5, StatsMove
<1> QED BY <1>1, <1>2, <1>6, MoveInv

\* At changes pc only.
LEMMA AtFields ==
  ASSUME NEW k \in Kids, kid[k] \in KidState, NEW p \in Pcs
  PROVE  /\ At(k, p) \in KidState /\ At(k, p).pc = p
         /\ At(k, p).tmp = kid[k].tmp /\ At(k, p).current = kid[k].current
         /\ At(k, p).last = kid[k].last /\ At(k, p).n = kid[k].n /\ At(k, p).i = kid[k].i
         /\ At(k, p).path = kid[k].path /\ At(k, p).reads = kid[k].reads
         /\ At(k, p).highest = kid[k].highest /\ At(k, p).seen = kid[k].seen
BY DEF At, KidState

\* The first steps of doblk.
LEMMA EarlyMove ==
  ASSUME IInv, NEW k \in Kids, NEW p \in {"decr", "l1", "block"},
         kid[k].pc \in {"l2", "decr", "l1"},
         UNCHANGED shared, Goes(k, At(k, p)), UNCHANGED <<claims, step, result, stats, rounds>>,
         count' \in Int, l1' \subseteq Kids \cup {Parent}, l2' \subseteq Kids \cup {Parent},
         LocksOK'
  PROVE  IInv'
<1> DEFINE c == At(k, p)
<1>1. kid[k] \in KidState /\ kid \in [Kids -> KidState] /\ KidOK(k) /\ p \in Pcs
  BY DEF IInv, Types, Pcs
<1>2. /\ c \in KidState /\ c.pc = p /\ c.tmp = kid[k].tmp /\ c.reads = kid[k].reads
      /\ c.highest = kid[k].highest
  BY <1>1, AtFields
<1>3. kid' = [kid EXCEPT ![k] = c] /\ kid'[k] = c
  BY <1>1 DEF Goes
<1> HIDE DEF c
<1>4. Moves(k, c)
  <2>1. result \in Nat \cup {Undef} /\ claims \in Seq(Nat)
    BY DEF IInv, Types
  <2>2. Numbers(result) \in Int /\ Numbers(result) <= Numbers(result)
    BY <2>1 DEF Numbers, Undef
  <2> QED BY <1>2, <1>3, <2>1, <2>2 DEF Moves
<1>5. limits' = limits /\ line' = line
  BY DEF shared
<1>6. KidOK(k)'
  <2>1. c.pc \notin Works /\ c.pc \notin Ends /\ c.pc \notin {"walk", "known", "max", "maxset", "store"}
    BY <1>2 DEF Works, Ends
  <2>2. BlockOK(kid[k])'
    BY <1>1, <1>2, <1>3, <1>5, <2>1 DEF KidOK, BlockOK
  <2> QED BY <1>3, <2>1, <2>2 DEF KidOK
<1>7. BlocksOK'
  <2>1. claims' = claims /\ kid[k].pc \notin Works
    BY DEF Works
  <2> QED BY <2>1, <1>4, BlocksQuiet
<1>8. prog = "st" /\ crashes = 0 => HeightOK(kid[k])'
  <2> SUFFICES ASSUME prog = "st", crashes = 0 PROVE HeightOK(kid[k])'
    OBVIOUS
  <2>1. HeightOK(kid[k])
    BY DEF IInv, StatsOK
  <2> QED BY <2>1, <1>2, <1>3, <1>5 DEF HeightOK
<1> QED BY <1>2, <1>4, <1>6, <1>7, <1>8, QuietInv

LEMMA LockL2Inv ==
  ASSUME IInv, NEW k \in Kids, LockL2(k)
  PROVE  IInv'
<1>1. kid \in [Kids -> KidState] /\ kid'[k].pc = "decr" /\ kid[k].pc = "l2" /\ prog = "s"
      /\ \A j \in Kids : j # k => kid'[j] = kid[j]
  BY AtFields DEF LockL2, Goes, IInv, Types, Pcs
<1>2. /\ prog' = prog /\ parent' = parent /\ forked' = forked /\ count' = count
      /\ l2' = l2 \cup {k} /\ l1' = l1
  BY DEF LockL2, shared
<1>3. Uncounted' = Uncounted
  BY <1>1 DEF Uncounted
<1>4. parent # "read"
  BY <1>1 DEF IInv, LocksOK, Idle
<1>5. LocksOK'
  BY <1>1, <1>2, <1>3, <1>4, ConstAssumption DEF IInv, LocksOK
<1>6. count \in Int /\ l1 \subseteq Kids \cup {Parent} /\ l2 \cup {k} \subseteq Kids \cup {Parent}
  BY DEF IInv, Types
<1> QED BY <1>1, <1>2, <1>5, <1>6, EarlyMove DEF LockL2

LEMMA UncountedFinite == IsFiniteSet(Uncounted) /\ Cardinality(Uncounted) \in Nat
<1>1. Uncounted \in SUBSET Kids
  BY DEF Uncounted
<1> QED BY <1>1, ConstAssumption, FS_Subset, FS_CardinalityType

LEMMA CountOutInv ==
  ASSUME IInv, NEW k \in Kids, CountOut(k)
  PROVE  IInv'
<1>1. kid \in [Kids -> KidState] /\ kid'[k].pc = "l1" /\ kid[k].pc = "decr" /\ prog = "s"
      /\ \A j \in Kids : j # k => kid'[j] = kid[j]
  BY AtFields DEF CountOut, Goes, IInv, Types, Pcs
<1>2. /\ prog' = prog /\ parent' = parent /\ forked' = forked /\ count' = count - 1
      /\ l2' = l2 /\ l1' = l1
  BY DEF CountOut, shared
<1>3. Uncounted' = Uncounted \ {k} /\ k \in Uncounted
  BY <1>1 DEF Uncounted
<1>4. parent # "read"
  BY <1>1 DEF IInv, LocksOK, Idle
<1>5. count' = Cardinality(Uncounted')
  <2>1. count = Cardinality(Uncounted)
    BY <1>1, <1>4 DEF IInv, LocksOK
  <2>2. Cardinality(Uncounted \ {k}) = Cardinality(Uncounted) - 1
    BY <1>3, UncountedFinite, FS_RemoveElement
  <2> QED BY <1>2, <1>3, <2>1, <2>2
<1>6. parent \notin {"finish", "report"}
  BY <1>1, <1>3 DEF IInv, LocksOK
<1>7. LocksOK'
  BY <1>1, <1>2, <1>4, <1>5, <1>6 DEF IInv, LocksOK
<1>8. count - 1 \in Int /\ l1 \subseteq Kids \cup {Parent} /\ l2 \subseteq Kids \cup {Parent}
  BY DEF IInv, Types
<1> QED BY <1>1, <1>2, <1>7, <1>8, EarlyMove DEF CountOut

LEMMA LockL1Inv ==
  ASSUME IInv, NEW k \in Kids, LockL1(k)
  PROVE  IInv'
<1>1. kid \in [Kids -> KidState] /\ kid'[k].pc = "block" /\ kid[k].pc = "l1" /\ prog = "s"
      /\ \A j \in Kids : j # k => kid'[j] = kid[j]
  BY AtFields DEF LockL1, Goes, IInv, Types, Pcs
<1>2. /\ prog' = prog /\ parent' = parent /\ forked' = forked /\ count' = count
      /\ l2' = l2 /\ l1' = l1 \cup {k}
  BY DEF LockL1, shared
<1>3. Uncounted' = Uncounted
  BY <1>1 DEF Uncounted
<1>4. parent # "read" /\ parent # "report"
  BY <1>1 DEF IInv, LocksOK, Idle
<1>5. LocksOK'
  BY <1>1, <1>2, <1>3, <1>4 DEF IInv, LocksOK
<1>6. count \in Int /\ l1 \cup {k} \subseteq Kids \cup {Parent} /\ l2 \subseteq Kids \cup {Parent}
  BY DEF IInv, Types
<1> QED BY <1>1, <1>2, <1>5, <1>6, EarlyMove DEF LockL1

LEMMA CountOutStInv ==
  ASSUME IInv, NEW k \in Kids, CountOut_st(k)
  PROVE  IInv'
<1>1. kid \in [Kids -> KidState] /\ kid'[k].pc = "block" /\ kid[k].pc = "decr" /\ prog = "st"
      /\ \A j \in Kids : j # k => kid'[j] = kid[j]
  BY AtFields DEF CountOut_st, Goes, IInv, Types, Pcs
<1>2. /\ prog' = prog /\ parent' = parent /\ forked' = forked /\ count' = count - 1
      /\ l2' = l2 /\ l1' = l1
  BY DEF CountOut_st, shared
<1>4. parent # "read" /\ parent # "report"
  BY <1>1 DEF IInv, LocksOK, Idle
<1>5. LocksOK'
  BY <1>1, <1>2, <1>4 DEF IInv, LocksOK
<1>6. count - 1 \in Int /\ l1 \subseteq Kids \cup {Parent} /\ l2 \subseteq Kids \cup {Parent}
  BY DEF IInv, Types
<1> QED BY <1>1, <1>2, <1>5, <1>6, EarlyMove DEF CountOut_st

-----------------------------------------------------------------------------
(* Blocks *)

\* What the children of a line know of its blocks.
LEMMA BlockRange ==
  ASSUME IInv, line \in 1..Len(Lines), limits = Limits(Lines[line]), NEW t \in 1..Len(limits)
  PROVE  /\ FirstOf(t) \in Nat \ {0} /\ limits[t] \in Nat /\ FirstOf(t) <= limits[t]
         /\ FirstOf(t)..limits[t] \subseteq Ints(Lines[line])
         /\ \A n \in FirstOf(t)..limits[t] : Reaches(n)
<1>1. FirstOf(t) = First(line, t)
  BY DEF FirstOf, First
<1>2. FirstOf(t) \in Ints(Lines[line]) /\ limits[t] \in Ints(Lines[line]) /\ FirstOf(t) <= limits[t]
  BY <1>1, LimitsFacts
<1>3. Lines[line].first \in Nat \ {0} /\ Lines[line].last \in Nat \ {0}
  BY LineType
<1>4. FirstOf(t) \in Nat \ {0} /\ limits[t] \in Nat
  BY <1>2, <1>3 DEF Ints
<1>5. FirstOf(t)..limits[t] \subseteq Ints(Lines[line])
  BY <1>2, <1>3 DEF Ints
<1> QED BY <1>2, <1>4, <1>5, MaxStepsIs

LEMMA NumbersType ==
  ASSUME Types
  PROVE  Numbers(result) \in Nat
BY DEF Types, Numbers, Undef

LEMMA NextBlockInv ==
  ASSUME IInv, NEW k \in Kids, NextBlock(k)
  PROVE  IInv'
<1>0. PICK t : t = kid[k].tmp + 1
  OBVIOUS
<1>1. /\ kid \in [Kids -> KidState] /\ kid[k] \in KidState /\ kid[k].pc = "block" /\ kid[k].tmp \in Nat
      /\ claims \in Seq(Nat) /\ Len(claims) = Len(limits) /\ Len(limits) \in Nat
      /\ limits \in Seq(Nat)
  BY DEF NextBlock, IInv, Types, KidState
<1>2. /\ UNCHANGED shared /\ step' = step /\ result' = result /\ stats' = stats /\ rounds' = rounds
      /\ count' = count /\ l1' = l1 /\ l2' = l2 /\ limits' = limits /\ line' = line
  BY DEF NextBlock, shared
<1>3. result \in Nat \cup {Undef} /\ Numbers(result) \in Nat /\ count \in Int
      /\ l1 \subseteq Kids \cup {Parent} /\ l2 \subseteq Kids \cup {Parent}
  BY NumbersType DEF IInv, Types
<1>4. parent # "read" /\ line \in 1..Len(Lines) /\ limits = Limits(Lines[line])
  <2>1. parent # "read"
    BY <1>1 DEF IInv, LocksOK, Idle
  <2> QED BY <2>1, ConstAssumption DEF IInv, Types, BlocksOK
<1>5. BlockOK(kid[k]) /\ kid[k].pc \notin Works /\ kid[k].pc \notin {"l2", "decr", "dead", "none"}
  BY <1>1 DEF IInv, KidOK, Works
<1>6. prog = "st" /\ crashes = 0 => HeightOK(kid[k])
  BY DEF IInv, StatsOK
<1>7. \A i : FirstOf(i)' = FirstOf(i)
  BY <1>2 DEF FirstOf
\* A child that goes on to c, all of whose conditions hold.
<1>8. ASSUME NEW c \in KidState, kid' = [kid EXCEPT ![k] = c], c.pc \in {"stats", "block", "walk"},
             claims' \in Seq(Nat), Len(claims') = Len(claims),
             \A i \in 1..Len(claims) : claims[i] # 0 => claims'[i] # 0,
             \A i \in 1..Len(claims) : claims'[i] # 0 => claims[i] # 0 \/ BlockDone(i)',
             c.reads = kid[k].reads, c.highest = kid[k].highest,
             KidOK(k)', c.pc = "walk" => c.path = <<>> /\ c.n = c.current
      PROVE  IInv'
  <2>1. Moves(k, c)
    BY <1>1, <1>2, <1>3, <1>5, <1>8 DEF Moves
  <2>2. LocksOK'
    BY <2>1, <1>2, <1>5, <1>8, LocksQuiet
  <2>3. BlocksOK'
    BY <2>1, <1>1, <1>5, <1>8, BlocksQuiet
  <2>4. kid'[k] = c
    BY <1>1, <1>8
  <2>5. prog = "st" /\ crashes = 0 => HeightOK(kid[k])'
    <3> SUFFICES ASSUME prog = "st", crashes = 0 PROVE HeightOK(kid[k])'
      OBVIOUS
    <3>1. c.pc = "walk" => Passed(c.n) \subseteq Passed(c.current) /\ Len(c.path) = 0
      BY <1>8
    <3>2. c.pc \notin {"known", "max", "maxset", "store"}
      BY <1>8
    <3>3. \A j \in 1..0 : FALSE
      OBVIOUS
    <3> QED BY <3>1, <3>2, <3>3, <2>4, <1>2, <1>6, <1>8 DEF HeightOK
  <2> QED BY <2>1, <2>2, <2>3, <2>5, <1>2, <1>3, <1>5, <1>8, QuietInv
<1>9. CASE t > Len(limits)
  <2>1. kid' = [kid EXCEPT ![k] = At(k, "stats")] /\ claims' = claims
    BY <1>0, <1>9 DEF NextBlock, Goes
  <2> DEFINE c == At(k, "stats")
  <2>2. /\ c \in KidState /\ c.pc = "stats" /\ c.tmp = kid[k].tmp /\ c.reads = kid[k].reads
        /\ c.highest = kid[k].highest
    BY <1>1, AtFields DEF Pcs, Ends
  <2> HIDE DEF c
  <2>3. kid'[k] = c
    BY <1>1, <2>1 DEF c
  <2>4. KidOK(k)'
    <3>1. c.tmp = Len(limits)
      BY <1>0, <1>1, <1>5, <1>9, <2>2 DEF BlockOK
    <3>2. BlockOK(kid[k])'
      BY <3>1, <1>1, <1>2, <1>5, <2>1, <2>2, <2>3 DEF BlockOK, Works
    <3> QED BY <3>2, <2>2, <2>3 DEF KidOK
  <2> QED BY <2>1, <2>2, <2>4, <1>1, <1>8 DEF c
<1>10. CASE ~ (t > Len(limits))
  <2>1. t \in 1..Len(limits)
    BY <1>0, <1>1, <1>10
  <2> DEFINE d == [kid[k] EXCEPT !.tmp = t]
             e == [kid[k] EXCEPT !.pc = "walk", !.tmp = t, !.current = FirstOf(t), !.last = limits[t],
                                 !.n = FirstOf(t), !.i = 0, !.path = <<>>]
  <2>2. claims' = [claims EXCEPT ![t] = @ + 1]
    BY <1>0, <1>10 DEF NextBlock
  <2>3. kid' = [kid EXCEPT ![k] = IF claims'[t] # 1 THEN d ELSE e]
    BY <1>0, <1>10 DEF NextBlock, Goes
  <2>4. claims' \in Seq(Nat) /\ Len(claims') = Len(claims) /\ claims[t] \in Nat
        /\ claims'[t] = claims[t] + 1 /\ \A i \in 1..Len(claims) : i # t => claims'[i] = claims[i]
    BY <1>1, <2>1, <2>2
  <2>5. \A i \in 1..Len(claims) : claims[i] # 0 => claims'[i] # 0
    BY <2>4
  <2>6. \A i \in 1..t : claims'[i] # 0
    <3>1. \A i \in 1..kid[k].tmp : claims[i] # 0
      BY <1>5 DEF BlockOK
    <3>2. \A i \in 1..t : i \in 1..Len(claims) /\ (i = t \/ i \in 1..kid[k].tmp)
      BY <1>0, <1>1, <2>1
    <3> QED BY <3>1, <3>2, <2>4
  <2>7. /\ FirstOf(t) \in Nat \ {0} /\ limits[t] \in Nat /\ FirstOf(t) <= limits[t]
        /\ Reaches(FirstOf(t))
    <3>1. FirstOf(t) \in FirstOf(t)..limits[t]
      BY <1>4, <2>1, BlockRange
    <3> QED BY <3>1, <1>4, <2>1, BlockRange
  <2>8. CASE claims'[t] # 1
    <3>1. d \in KidState /\ d.pc = "block" /\ d.tmp = t /\ d.reads = kid[k].reads
          /\ d.highest = kid[k].highest
      <4>1. t \in Nat
        BY <1>1, <2>1
      <4> QED BY <4>1, <1>1 DEF KidState
    <3>2. kid' = [kid EXCEPT ![k] = d]
      BY <2>3, <2>8
    <3> HIDE DEF d
    <3>3. kid'[k] = d
      BY <1>1, <3>2
    <3>4. BlockOK(kid[k])'
      BY <3>1, <3>3, <2>1, <2>6, <1>1, <1>2 DEF BlockOK, Works, Ends
    <3>5. KidOK(k)'
      BY <3>1, <3>3, <3>4 DEF KidOK
    <3>6. claims[t] # 0
      BY <2>4, <2>8
    <3>7. \A i \in 1..Len(claims) : claims'[i] # 0 => claims[i] # 0
      BY <2>4, <3>6
    <3> QED BY <3>1, <3>2, <3>5, <3>7, <2>4, <2>5, <1>8
  <2>9. CASE claims'[t] = 1
    <3>1. e \in KidState
      <4>1. <<>> \in Seq(Nat) /\ "walk" \in Pcs
        BY DEF Pcs, Works
      <4>2. t \in Nat /\ FirstOf(t) \in Nat /\ 0 \in Nat
        BY <1>1, <2>1, <2>7
      <4> QED BY <4>1, <4>2, <1>1, <2>7 DEF KidState
    <3>2. /\ e.pc = "walk" /\ e.tmp = t /\ e.current = FirstOf(t) /\ e.last = limits[t]
          /\ e.n = FirstOf(t) /\ e.i = 0 /\ e.path = <<>> /\ e.reads = kid[k].reads
          /\ e.highest = kid[k].highest
      BY <1>1 DEF KidState
    <3>3. kid' = [kid EXCEPT ![k] = e]
      BY <2>3, <2>9
    <3> HIDE DEF e
    <3>4. kid'[k] = e
      BY <1>1, <3>3
    <3>5. BlockOK(kid[k])'
      <4>1. e.current \in FirstOf(t)..e.last
        BY <3>2, <2>7
      <4> QED BY <4>1, <3>2, <3>4, <2>1, <2>6, <1>1, <1>2, <1>7 DEF BlockOK, Works, Ends
    <3>6. WalkOK(kid[k])'
      BY <3>2, <3>4, <2>7 DEF WalkOK
    <3>7. KidOK(k)'
      BY <3>2, <3>4, <3>5, <3>6 DEF KidOK
    <3>8. BlockDone(t)'
      <4>1. \A n \in FirstOf(t)..(FirstOf(t) - 1) : FALSE
        BY <2>7
      <4> QED BY <4>1, <3>2, <3>4, <1>7 DEF BlockDone, Works
    <3>9. \A i \in 1..Len(claims) : claims'[i] # 0 => claims[i] # 0 \/ BlockDone(i)'
      BY <2>4, <3>8
    <3> QED BY <3>1, <3>2, <3>3, <3>7, <3>9, <2>4, <2>5, <1>8
  <2> QED BY <2>8, <2>9
<1> QED BY <1>9, <1>10

-----------------------------------------------------------------------------
(* dostep and the transactions *)

\* A step of a child that writes nothing and stays with its number.
LEMMA InnerInv ==
  ASSUME IInv, NEW k \in Kids, NEW c \in KidState, kid' = [kid EXCEPT ![k] = c],
         UNCHANGED shared, UNCHANGED <<claims, count, l1, l2, step, result, stats, rounds>>,
         kid[k].pc \in {"known", "max", "maxset", "stats", "statsset"},
         c.pc \in {"max", "maxset", "stats", "statsset"},
         kid[k].pc \in Works <=> c.pc \in Works,
         c.tmp = kid[k].tmp, c.current = kid[k].current, c.last = kid[k].last,
         c.path = kid[k].path, c.reads = kid[k].reads, c.highest = kid[k].highest,
         c.pc \in {"max", "maxset"} => StoreOK(c),
         c.pc \in {"max", "maxset"} /\ prog = "st" /\ crashes = 0 /\ line = 1 =>
           \A j \in 1..Len(c.path) : \A x \in Passed(c.path[j]) : Recorded(x)
  PROVE  IInv'
<1>1. kid \in [Kids -> KidState] /\ kid[k] \in KidState /\ kid'[k] = c /\ KidOK(k)
  BY DEF IInv, Types
<1>2. /\ limits' = limits /\ line' = line /\ claims' = claims /\ step' = step /\ result' = result
      /\ stats' = stats /\ count' = count /\ l1' = l1 /\ l2' = l2 /\ rounds' = rounds
  BY DEF shared
<1>3. result \in Nat \cup {Undef} /\ Numbers(result) \in Nat /\ count \in Int /\ claims \in Seq(Nat)
      /\ l1 \subseteq Kids \cup {Parent} /\ l2 \subseteq Kids \cup {Parent}
  BY NumbersType DEF IInv, Types
<1>4. Moves(k, c)
  BY <1>2, <1>3 DEF Moves
<1>5. LocksOK'
  BY <1>2, <1>4, LocksQuiet
<1>6. BlocksOK'
  BY <1>2, <1>4, BlocksQuiet
<1>7. KidOK(k)'
  <2>1. \A t : FirstOf(t)' = FirstOf(t)
    BY <1>2 DEF FirstOf
  <2>2. kid[k].pc \in Ends <=> c.pc \in Ends
    BY DEF Works, Ends
  <2>3. BlockOK(kid[k])'
    BY <1>1, <1>2, <2>1, <2>2 DEF KidOK, BlockOK
  <2>4. c.pc \in {"max", "maxset"} => StoreOK(kid[k])'
    BY <1>1, <1>2 DEF StoreOK, IsKnown
  <2> QED BY <1>1, <2>3, <2>4 DEF KidOK
<1>8. prog = "st" /\ crashes = 0 => HeightOK(kid[k])'
  <2> SUFFICES ASSUME prog = "st", crashes = 0 PROVE HeightOK(kid[k])'
    OBVIOUS
  <2>1. HeightOK(kid[k])
    BY DEF IInv, StatsOK
  <2>2. \A x \in Nat : Recorded(x) => Recorded(x)'
    <3>1. stats.highest \in Nat /\ c.highest \in Nat
      BY DEF IInv, Types, Counts, KidState
    <3> QED BY <3>1, <1>2, <1>4, RecordedGrows DEF IInv, Types
  <2>3. c.pc \in {"max", "maxset"} => \A j \in 1..Len(c.path) : Passed(c.path[j]) \subseteq Nat
    BY PassedType DEF StoreOK
  <2>4. line = 1 /\ c.pc \in {"max", "maxset"} =>
          \A j \in 1..Len(c.path) : \A x \in Passed(c.path[j]) : Recorded(x)'
    BY <2>2, <2>3
  <2> QED BY <2>1, <2>4, <1>1, <1>2 DEF HeightOK
<1> QED BY <1>2, <1>3, <1>4, <1>5, <1>6, <1>7, <1>8, QuietInv

LEMMA KnownInv ==
  ASSUME IInv, NEW k \in Kids, Known(k)
  PROVE  IInv'
<1> DEFINE s == StrToInt(step[IntToStr[kid[k].n]])
           c == [kid[k] EXCEPT !.pc = "max", !.i = @ + s]
<1>1. /\ kid \in [Kids -> KidState] /\ kid[k] \in KidState /\ kid[k].pc = "known" /\ WalkOK(kid[k])
      /\ kid[k].n \in Nat /\ kid[k].i \in Nat /\ kid[k].path \in Seq(Nat)
  BY DEF Known, IInv, Types, KidOK, KidState
<1>2. IntToStr[kid[k].n] \in DOMAIN step
  BY <1>1 DEF WalkOK, IsKnown
<1>3. Reaches(kid[k].n) /\ step[IntToStr[kid[k].n]] = IntToStr[Steps(kid[k].n)]
  BY <1>1, <1>2, StepKnows DEF IInv
<1>4. Steps(kid[k].n) \in Nat
  BY <1>3, StepsFirst, ConstAssumption
<1>5. s = Steps(kid[k].n)
  BY <1>3, <1>4, WordsRight
<1> HIDE DEF s
<1>6. c \in KidState
  <2>1. "max" \in Pcs /\ kid[k].i + s \in Nat
    BY <1>1, <1>4, <1>5 DEF Pcs, Works
  <2> QED BY <2>1, <1>1 DEF KidState
<1>7. /\ c.pc = "max" /\ c.i = kid[k].i + s /\ c.tmp = kid[k].tmp /\ c.current = kid[k].current
      /\ c.last = kid[k].last /\ c.path = kid[k].path /\ c.reads = kid[k].reads
      /\ c.highest = kid[k].highest
  BY <1>1 DEF KidState
<1>8. kid' = [kid EXCEPT ![k] = c]
  BY DEF Known, Goes, s
<1> HIDE DEF c
<1>9. StoreOK(c)
  <2>1. \A j \in 1..Len(c.path) : Reaches(c.path[j]) /\ Steps(c.path[j]) = c.i - (j - 1)
    <3>1. ASSUME NEW j \in 1..Len(c.path) PROVE Reaches(c.path[j]) /\ Steps(c.path[j]) = c.i - (j - 1)
      <4>1. Reaches(c.path[j]) /\ Steps(c.path[j]) = Steps(kid[k].n) + Len(c.path) - (j - 1)
        BY <1>1, <1>7 DEF WalkOK
      <4>2. c.i = Len(c.path) + Steps(kid[k].n) /\ Len(c.path) \in Nat
        BY <1>1, <1>5, <1>7 DEF WalkOK
      <4> QED BY <4>1, <4>2, <1>4
    <3> QED BY <3>1
  <2>2. c.i >= Len(c.path)
    BY <1>1, <1>4, <1>5, <1>7 DEF WalkOK
  <2> QED BY <2>1, <2>2, <1>1, <1>7 DEF WalkOK, StoreOK
<1>10. prog = "st" /\ crashes = 0 /\ line = 1 =>
         \A j \in 1..Len(c.path) : \A x \in Passed(c.path[j]) : Recorded(x)
  <2> SUFFICES ASSUME prog = "st", crashes = 0, line = 1, NEW j \in 1..Len(c.path),
                      NEW x \in Passed(c.path[j])
               PROVE  Recorded(x)
    OBVIOUS
  <2>1. HeightOK(kid[k])
    BY DEF IInv, StatsOK
  <2>2. x \in Passed(kid[k].n) \/ Recorded(x)
    BY <2>1, <1>1, <1>7 DEF HeightOK
  <2>3. kid[k].n \in Nat \ {0}
    BY <1>3 DEF Reaches
  <2>4. \A y \in Passed(kid[k].n) : Recorded(y)
    BY <2>3, <1>2 DEF IInv, StatsOK
  <2> QED BY <2>2, <2>4
<1> QED BY <1>1, <1>6, <1>7, <1>8, <1>9, <1>10, InnerInv DEF Known, Works

LEMMA MaxReadInv ==
  ASSUME IInv, NEW k \in Kids, MaxRead(k)
  PROVE  IInv'
<1> DEFINE c == [kid[k] EXCEPT !.pc = "maxset", !.seen = result]
<1>1. kid \in [Kids -> KidState] /\ kid[k] \in KidState /\ kid[k].pc = "max" /\ StoreOK(kid[k])
  BY DEF MaxRead, IInv, Types, KidOK
<1>2. c \in KidState
  <2>1. "maxset" \in Pcs /\ result \in Int \cup Counts
    BY DEF Pcs, Works, IInv, Types, Undef
  <2> QED BY <2>1, <1>1 DEF KidState
<1>3. /\ c.pc = "maxset" /\ c.i = kid[k].i /\ c.tmp = kid[k].tmp /\ c.current = kid[k].current
      /\ c.last = kid[k].last /\ c.path = kid[k].path /\ c.reads = kid[k].reads
      /\ c.highest = kid[k].highest
  BY <1>1 DEF KidState
<1>4. kid' = [kid EXCEPT ![k] = c]
  BY DEF MaxRead, Goes
<1> HIDE DEF c
<1>5. StoreOK(c)
  BY <1>1, <1>3 DEF StoreOK
<1>6. prog = "st" /\ crashes = 0 /\ line = 1 =>
        \A j \in 1..Len(c.path) : \A x \in Passed(c.path[j]) : Recorded(x)
  BY <1>1, <1>3 DEF IInv, StatsOK, HeightOK
<1> QED BY <1>1, <1>2, <1>3, <1>4, <1>5, <1>6, InnerInv DEF MaxRead, Works

LEMMA StatsReadInv ==
  ASSUME IInv, NEW k \in Kids, StatsRead(k)
  PROVE  IInv'
<1> DEFINE c == [kid[k] EXCEPT !.pc = "statsset", !.seen = stats]
<1>1. kid \in [Kids -> KidState] /\ kid[k] \in KidState /\ kid[k].pc = "stats"
  BY DEF StatsRead, IInv, Types
<1>2. c \in KidState
  <2>1. "statsset" \in Pcs /\ stats \in Int \cup Counts
    BY DEF Pcs, Ends, IInv, Types
  <2> QED BY <2>1, <1>1 DEF KidState
<1>3. /\ c.pc = "statsset" /\ c.i = kid[k].i /\ c.tmp = kid[k].tmp /\ c.current = kid[k].current
      /\ c.last = kid[k].last /\ c.path = kid[k].path /\ c.reads = kid[k].reads
      /\ c.highest = kid[k].highest
  BY <1>1 DEF KidState
<1>4. kid' = [kid EXCEPT ![k] = c]
  BY DEF StatsRead, Goes
<1> HIDE DEF c
<1> QED BY <1>1, <1>2, <1>3, <1>4, InnerInv DEF StatsRead, Works

\* The commit of a transaction is refused: its callback runs again.
LEMMA RestartInv ==
  ASSUME IInv, NEW k \in Kids, NEW p \in {"max", "stats"},
         kid[k].pc = IF p = "max" THEN "maxset" ELSE "statsset", Goes(k, At(k, p)),
         UNCHANGED shared, UNCHANGED <<claims, count, l1, l2, step, result, stats, rounds>>
  PROVE  IInv'
<1> DEFINE c == At(k, p)
<1>1. kid \in [Kids -> KidState] /\ kid[k] \in KidState /\ (p = "max" => StoreOK(kid[k])) /\ p \in Pcs
  BY DEF IInv, Types, KidOK, Pcs, Works, Ends
<1>2. /\ c \in KidState /\ c.pc = p /\ c.i = kid[k].i /\ c.tmp = kid[k].tmp
      /\ c.current = kid[k].current /\ c.last = kid[k].last /\ c.path = kid[k].path
      /\ c.reads = kid[k].reads /\ c.highest = kid[k].highest
  BY <1>1, AtFields
<1>3. kid' = [kid EXCEPT ![k] = c]
  BY DEF Goes
<1> HIDE DEF c
<1>4. p = "max" => StoreOK(c)
  BY <1>1, <1>2 DEF StoreOK
<1>5. p = "max" /\ prog = "st" /\ crashes = 0 /\ line = 1 =>
        \A j \in 1..Len(c.path) : \A x \in Passed(c.path[j]) : Recorded(x)
  BY <1>1, <1>2 DEF IInv, StatsOK, HeightOK
<1> QED BY <1>1, <1>2, <1>3, <1>4, <1>5, InnerInv DEF Works

\* The commit of tp_setmaximum: ^result is now at least the steps of current.
LEMMA MaxCommitInv ==
  ASSUME IInv, NEW k \in Kids, MaxCommit(k)
  PROVE  IInv'
<1>1. CASE kid[k].seen # result
  BY <1>1, RestartInv DEF MaxCommit
<1>2. CASE kid[k].seen = result
  <2> DEFINE c == At(k, "store")
  <2>1. /\ kid \in [Kids -> KidState] /\ kid[k] \in KidState /\ kid[k].pc = "maxset" /\ StoreOK(kid[k])
        /\ BlockOK(kid[k]) /\ kid[k].i \in Nat /\ kid[k].path \in Seq(Nat)
    BY DEF MaxCommit, IInv, Types, KidOK, KidState
  <2>2. /\ c \in KidState /\ c.pc = "store" /\ c.i = kid[k].i /\ c.tmp = kid[k].tmp
        /\ c.current = kid[k].current /\ c.last = kid[k].last /\ c.path = kid[k].path
        /\ c.reads = kid[k].reads /\ c.highest = kid[k].highest
    BY <2>1, AtFields DEF Pcs, Works
  <2>3. /\ UNCHANGED shared /\ claims' = claims /\ count' = count /\ l1' = l1 /\ l2' = l2 /\ step' = step
        /\ stats' = stats /\ rounds' = rounds /\ limits' = limits /\ line' = line
        /\ kid' = [kid EXCEPT ![k] = c]
        /\ result' = IF kid[k].i > Numbers(result) THEN kid[k].i ELSE result
    BY <1>2 DEF MaxCommit, Goes, shared
  <2> HIDE DEF c
  <2>4. result \in Nat \cup {Undef} /\ Numbers(result) \in Nat /\ count \in Int /\ claims \in Seq(Nat)
        /\ l1 \subseteq Kids \cup {Parent} /\ l2 \subseteq Kids \cup {Parent}
        /\ stats \in Counts /\ rounds \in Nat
    BY NumbersType DEF IInv, Types
  <2>5. /\ result' \in Nat \cup {Undef} /\ Numbers(result') \in Nat
        /\ Numbers(result) <= Numbers(result') /\ kid[k].i <= Numbers(result')
        /\ Numbers(result') \in {Numbers(result), kid[k].i}
    <3>1. CASE kid[k].i > Numbers(result)
      BY <3>1, <2>1, <2>3, <2>4 DEF Numbers, Undef
    <3>2. CASE ~ (kid[k].i > Numbers(result))
      BY <3>2, <2>1, <2>3, <2>4
    <3> QED BY <3>1, <3>2
  <2>6. Moves(k, c)
    BY <2>1, <2>2, <2>3, <2>4, <2>5 DEF Moves
  <2>7. kid'[k] = c
    BY <2>1, <2>3
  <2>8. line \in 1..Len(Lines) /\ limits = Limits(Lines[line])
    BY <2>6, MovesInLine
  <2>9. LocksOK' /\ BlocksOK'
    BY <2>1, <2>2, <2>3, <2>6, LocksQuiet, BlocksQuiet DEF Works
  <2>10. KidOK(k)'
    <3>1. \A t : FirstOf(t)' = FirstOf(t)
      BY <2>3 DEF FirstOf
    <3>2. BlockOK(kid[k])'
      BY <3>1, <2>1, <2>2, <2>3, <2>7 DEF BlockOK, Works, Ends
    <3>3. StoreOK(kid[k])'
      BY <2>1, <2>2, <2>3, <2>5, <2>7 DEF StoreOK
    <3> QED BY <3>2, <3>3, <2>2, <2>7 DEF KidOK
  <2>11. ResultOK'
    <3>1. kid[k].tmp \in 1..Len(limits) /\ kid[k].current \in FirstOf(kid[k].tmp)..limits[kid[k].tmp]
      <4>1. Len(limits) \in Nat
        BY DEF IInv, Types
      <4> QED BY <4>1, <2>1 DEF BlockOK, Works
    <3>2. kid[k].current \in Ints(Lines[line])
      BY <3>1, <2>8, BlockRange
    <3>3. Steps(kid[k].current) = kid[k].i
      <4>1. 1 \in 1..Len(kid[k].path) /\ kid[k].path[1] = kid[k].current
        BY <2>1 DEF StoreOK
      <4>2. Steps(kid[k].path[1]) = kid[k].i - (1 - 1)
        BY <4>1, <2>1 DEF StoreOK
      <4> QED BY <4>1, <4>2, <2>1
    <3>4. kid[k].i <= MaxSteps(Lines[line])
      BY <3>2, <3>3, <2>8, MaxStepsIs
    <3>5. Numbers(result') <= MaxSteps(Lines[line])
      BY <3>4, <2>5, <2>8, ConstAssumption DEF IInv, ResultOK
    <3>6. line > 1 => result' # Undef
      BY <2>1, <2>3 DEF IInv, ResultOK, Undef
    <3> QED BY <3>5, <3>6, <2>3 DEF ResultOK
  <2>12. StepOK'
    <3> SUFFICES ASSUME NEW w \in DOMAIN step
                 PROVE  \E n \in Nat \ {0} :
                          /\ w = IntToStr[n] /\ Reaches(n) /\ step[w] = IntToStr[Steps(n)]
                          /\ line = 1 => Steps(n) <= Numbers(result')
      BY <2>3 DEF StepOK
    <3>1. PICK n \in Nat \ {0} :
                          /\ w = IntToStr[n] /\ Reaches(n) /\ step[w] = IntToStr[Steps(n)]
                          /\ line = 1 => Steps(n) <= Numbers(result)
      BY DEF IInv, StepOK
    <3>2. Steps(n) \in Nat
      BY <3>1, StepsFirst, ConstAssumption
    <3> QED BY <3>1, <3>2, <2>4, <2>5
  <2>13. StatsOK'
    <3>1. prog = "st" /\ crashes = 0 => HeightOK(kid[k])'
      <4> SUFFICES ASSUME prog = "st", crashes = 0 PROVE HeightOK(kid[k])'
        OBVIOUS
      <4>1. HeightOK(kid[k])
        BY DEF IInv, StatsOK
      <4>2. \A x \in Nat : Recorded(x) => Recorded(x)'
        <5>1. stats.highest \in Nat /\ c.highest \in Nat
          BY <2>2, <2>4 DEF Counts, KidState
        <5>2. /\ stats' \in Counts /\ stats.highest <= stats'.highest /\ kid[k].pc # "dead"
              /\ kid[k].highest <= IF c.pc = "dead" THEN stats'.highest ELSE c.highest
          BY <5>1, <2>1, <2>2, <2>3, <2>4
        <5> QED BY <5>2, <2>6, RecordedGrows
      <4>3. \A j \in 1..Len(c.path) : Passed(c.path[j]) \subseteq Nat
        BY <2>1, <2>2, PassedType DEF StoreOK
      <4>4. line = 1 => \A j \in 1..Len(c.path) : \A x \in Passed(c.path[j]) : Recorded(x)'
        BY <4>1, <4>2, <4>3, <2>1, <2>2 DEF HeightOK
      <4> QED BY <4>1, <4>4, <2>2, <2>3, <2>7 DEF HeightOK
    <3>2. kid[k].highest \in Nat /\ kid[k].reads \in Nat /\ stats.highest \in Nat /\ stats.reads \in Nat
      BY <2>1, <2>4 DEF KidState, Counts
    <3>3. prog = "st" /\ crashes = 0 => stats.highest \in Heights(Lines[line])
      BY <2>8, ConstAssumption DEF IInv, StatsOK
    <3>4. prog = "st" /\ crashes = 0 =>
             /\ kid[k].pc # "dead"
             /\ stats.highest <= stats'.highest
             /\ kid[k].highest <= IF c.pc = "dead" THEN stats'.highest ELSE c.highest
             /\ (stats'.reads - stats.reads) + ((IF c.pc = "dead" THEN 0 ELSE c.reads) - kid[k].reads)
                  = rounds' - rounds
             /\ stats'.highest \in Heights(Lines[line])
             /\ HeightOK(kid[k])'
      BY <3>1, <3>2, <3>3, <2>1, <2>2, <2>3, <2>4
    <3>5. stats' \in Counts /\ rounds' \in Nat /\ step' = step
      BY <2>3, <2>4
    <3> QED BY <3>4, <3>5, <2>6, StatsMove
  <2> QED BY <2>3, <2>4, <2>6, <2>9, <2>10, <2>11, <2>12, <2>13, MoveInv
<1> QED BY <1>1, <1>2

LEMMA NextCurrentFields ==
  ASSUME NEW c \in KidState
  PROVE  LET d == NextCurrent(c) IN
         /\ d \in KidState /\ d.tmp = c.tmp /\ d.last = c.last /\ d.reads = c.reads
         /\ d.highest = c.highest
         /\ c.current < c.last => /\ d.pc = "walk" /\ d.current = c.current + 1
                                  /\ d.n = c.current + 1 /\ d.i = 0 /\ d.path = <<>>
         /\ ~(c.current < c.last) => d.pc = "block" /\ d.current = c.current
<1> DEFINE e == [c EXCEPT !.pc = "walk", !.current = @ + 1, !.n = c.current + 1, !.i = 0,
                          !.path = <<>>]
           g == [c EXCEPT !.pc = "block"]
<1>1. c.current \in Nat /\ "walk" \in Pcs /\ "block" \in Pcs /\ <<>> \in Seq(Nat)
  BY DEF KidState, Pcs, Works
<1>2. e \in KidState
  <2>1. c.current + 1 \in Nat /\ 0 \in Nat
    BY <1>1
  <2> QED BY <2>1, <1>1 DEF KidState
<1>3. /\ e.pc = "walk" /\ e.current = c.current + 1 /\ e.n = c.current + 1 /\ e.i = 0 /\ e.path = <<>>
      /\ e.tmp = c.tmp /\ e.last = c.last /\ e.reads = c.reads /\ e.highest = c.highest
  BY DEF KidState
<1>4. g \in KidState
  BY <1>1 DEF KidState
<1>5. /\ g.pc = "block" /\ g.tmp = c.tmp /\ g.last = c.last /\ g.reads = c.reads
      /\ g.highest = c.highest /\ g.current = c.current
  BY DEF KidState
<1>6. NextCurrent(c) = IF c.current < c.last THEN e ELSE g
  BY DEF NextCurrent
<1> HIDE DEF e, g
<1>7. CASE c.current < c.last
  BY <1>2, <1>3, <1>6, <1>7
<1>8. CASE ~(c.current < c.last)
  BY <1>4, <1>5, <1>6, <1>8
<1> QED BY <1>7, <1>8

\* When the steps of its number are known the child goes on to the next number,
\* or has finished its block.
LEMMA NextCurrentOK ==
  ASSUME IInv, NEW k \in Kids, kid[k].pc \in Works,
         NEW c \in KidState, c.tmp = kid[k].tmp, c.current = kid[k].current, c.last = kid[k].last,
         NEW d, d = NextCurrent(c), Moves(k, d), claims' = claims,
         kid[k].current = 1 \/ IntToStr[kid[k].current] \in DOMAIN step'
  PROVE  /\ KidOK(k)' /\ BlocksOK'
         /\ c.highest \in Heights(Lines[line]) => HeightOK(kid[k])'
<1>1. /\ d \in KidState /\ d.tmp = c.tmp /\ d.last = c.last /\ d.highest = c.highest
      /\ c.current < c.last => /\ d.pc = "walk" /\ d.current = c.current + 1
                               /\ d.n = c.current + 1 /\ d.i = 0 /\ d.path = <<>>
      /\ ~(c.current < c.last) => d.pc = "block" /\ d.current = c.current
  BY NextCurrentFields
<1>2. kid \in [Kids -> KidState] /\ kid'[k] = d /\ \A j \in Kids : j # k => kid'[j] = kid[j]
  BY DEF IInv, Types, Moves
<1>3. parent # "read" /\ line \in 1..Len(Lines) /\ limits = Limits(Lines[line])
  BY MovesInLine
<1>4. /\ limits' = limits /\ line' = line /\ parent' = parent
      /\ Len(limits) \in Nat /\ Len(claims) = Len(limits)
  BY DEF Moves, shared, IInv, Types
<1>5. \A i : FirstOf(i)' = FirstOf(i)
  BY <1>4 DEF FirstOf
<1>6. PICK t \in 1..Len(limits) : t = c.tmp
  BY <1>4 DEF IInv, KidOK, BlockOK
<1>7. BlockOK(kid[k]) /\ c.last = limits[t] /\ c.current \in FirstOf(t)..limits[t]
  BY <1>6 DEF IInv, KidOK, BlockOK
<1>8. /\ FirstOf(t) \in Nat \ {0} /\ limits[t] \in Nat /\ FirstOf(t) <= limits[t]
      /\ \A n \in FirstOf(t)..limits[t] : Reaches(n)
  BY <1>3, BlockRange
<1>9. \A n : IsKnown(n) => IsKnown(n)'
  BY DEF IsKnown, Moves
<1>10. c.current \in Nat /\ c.last \in Nat
  BY DEF KidState
<1>11. KidOK(k)'
  <2>1. BlockOK(kid[k])'
    <3>1. CASE c.current < c.last
      <4>1. d.current \in FirstOf(t)..d.last
        BY <3>1, <1>1, <1>7, <1>8, <1>10
      <4> QED BY <4>1, <3>1, <1>1, <1>2, <1>4, <1>5, <1>6, <1>7 DEF BlockOK, Works, Ends
    <3>2. CASE ~(c.current < c.last)
      BY <3>2, <1>1, <1>2, <1>4, <1>5, <1>6, <1>7 DEF BlockOK, Works, Ends
    <3> QED BY <3>1, <3>2
  <2>2. CASE c.current < c.last
    <3>1. Reaches(d.n)
      <4>1. c.current + 1 \in FirstOf(t)..limits[t]
        BY <2>2, <1>7, <1>8, <1>10
      <4> QED BY <4>1, <2>2, <1>1, <1>8
    <3>2. WalkOK(kid[k])'
      BY <3>1, <2>2, <1>1, <1>2 DEF WalkOK
    <3> QED BY <3>2, <2>1, <2>2, <1>1, <1>2 DEF KidOK
  <2>3. CASE ~(c.current < c.last)
    BY <2>1, <2>3, <1>1, <1>2 DEF KidOK
  <2> QED BY <2>2, <2>3
<1>12. ASSUME NEW i \in 1..Len(limits), claims[i] # 0 PROVE BlockDone(i)'
  <2>1. BlockDone(i)
    BY <1>3, <1>12 DEF IInv, BlocksOK
  <2>2. CASE \A n \in FirstOf(i)..limits[i] : IsKnown(n)
    BY <2>2, <1>4, <1>5, <1>9 DEF BlockDone
  <2>3. CASE \E j \in Kids : /\ kid[j].pc \in Works /\ kid[j].tmp = i
                             /\ \A n \in FirstOf(i)..(kid[j].current - 1) : IsKnown(n)
    <3>1. PICK j \in Kids : /\ kid[j].pc \in Works /\ kid[j].tmp = i
                            /\ \A n \in FirstOf(i)..(kid[j].current - 1) : IsKnown(n)
      BY <2>3
    <3>2. CASE j # k
      <4>1. kid'[j] = kid[j]
        BY <3>2, <1>2
      <4>2. \A n \in FirstOf(i)..(kid[j].current - 1) : IsKnown(n)'
        BY <3>1, <1>9
      <4> QED BY <3>1, <4>1, <4>2, <1>5 DEF BlockDone
    <3>3. CASE j = k
      <4>1. i = t
        BY <3>1, <3>3, <1>6
      <4>2. \A n \in FirstOf(t)..c.current : IsKnown(n)'
        <5> TAKE n \in FirstOf(t)..c.current
        <5>1. CASE n = c.current
          BY <5>1 DEF IsKnown
        <5>2. CASE n # c.current
          <6>1. n \in FirstOf(t)..(kid[k].current - 1)
            BY <5>2, <1>8, <1>10
          <6> QED BY <6>1, <3>1, <3>3, <4>1, <1>9
        <5> QED BY <5>1, <5>2
      <4>3. CASE c.current < c.last
        <5>1. d.current - 1 = c.current /\ d.pc \in Works /\ d.tmp = t
          BY <4>3, <1>1, <1>6, <1>10 DEF Works
        <5> QED BY <5>1, <4>1, <4>2, <1>2, <1>5 DEF BlockDone
      <4>4. CASE ~(c.current < c.last)
        <5>1. c.current = limits[t]
          BY <4>4, <1>7, <1>8, <1>10
        <5> QED BY <5>1, <4>1, <4>2, <1>4, <1>5 DEF BlockDone
      <4> QED BY <4>3, <4>4
    <3> QED BY <3>2, <3>3
  <2> QED BY <2>1, <2>2, <2>3 DEF BlockDone
<1>13. BlocksOK'
  BY <1>3, <1>4, <1>12 DEF BlocksOK
<1>14. ASSUME c.highest \in Heights(Lines[line]) PROVE HeightOK(kid[k])'
  <2>1. CASE c.current < c.last
    <3>1. Passed(d.n) \subseteq Passed(d.current) /\ Len(d.path) = 0 /\ \A j \in 1..0 : FALSE
      BY <2>1, <1>1
    <3> QED BY <3>1, <2>1, <1>1, <1>2, <1>4, <1>14 DEF HeightOK
  <2>2. CASE ~(c.current < c.last)
    BY <2>2, <1>1, <1>2, <1>4, <1>14 DEF HeightOK
  <2> QED BY <2>1, <2>2
<1> QED BY <1>11, <1>13, <1>14

\* A round of the inner loop of dostep.
LEMMA RoundInv ==
  ASSUME IInv, NEW k \in Kids, NEW h \in Nat, prog = "st" => h = NextNumber(kid[k].n), Round(k, h)
  PROVE  IInv'
<1> DEFINE c == [kid[k] EXCEPT !.reads = @ + 1]
<1>1. /\ kid \in [Kids -> KidState] /\ kid[k] \in KidState /\ WalkOK(kid[k]) /\ BlockOK(kid[k])
      /\ kid[k].pc = "walk"
      /\ kid[k].n \in Nat \ {0} /\ kid[k].i \in Nat /\ kid[k].path \in Seq(Nat)
      /\ kid[k].reads \in Nat /\ kid[k].highest \in Nat
  <2>1. kid \in [Kids -> KidState] /\ kid[k] \in KidState /\ KidOK(k)
    BY DEF IInv, Types
  <2>2. kid[k].pc = "walk"
    BY <2>1 DEF Round, KidState
  <2> QED BY <2>1, <2>2 DEF KidState, KidOK, WalkOK, Reaches
<1>2. /\ c \in KidState /\ c.pc = "walk" /\ c.tmp = kid[k].tmp /\ c.current = kid[k].current
      /\ c.last = kid[k].last /\ c.n = kid[k].n /\ c.i = kid[k].i /\ c.path = kid[k].path
      /\ c.highest = kid[k].highest /\ c.reads = kid[k].reads + 1
  <2>1. kid[k].reads + 1 \in Nat
    BY <1>1
  <2>2. c \in KidState
    BY <2>1, <1>1 DEF KidState
  <2> QED BY <2>2, <1>1 DEF KidState
<1>3. /\ UNCHANGED shared /\ claims' = claims /\ count' = count /\ l1' = l1 /\ l2' = l2 /\ step' = step
      /\ result' = result /\ stats' = stats /\ rounds' = rounds + 1 /\ limits' = limits /\ line' = line
  BY DEF Round, shared
<1>4. result \in Nat \cup {Undef} /\ Numbers(result) \in Nat /\ count \in Int /\ claims \in Seq(Nat)
      /\ l1 \subseteq Kids \cup {Parent} /\ l2 \subseteq Kids \cup {Parent}
      /\ stats \in Counts /\ rounds \in Nat
  BY NumbersType DEF IInv, Types
<1>5. \/ IsKnown(c.n) /\ c.i = 0 /\ kid' = [kid EXCEPT ![k] = NextCurrent(c)]
      \/ IsKnown(c.n) /\ c.i > 0
         /\ kid' = [kid EXCEPT ![k] = [c EXCEPT !.pc = IF c.n > 1 THEN "known" ELSE "max"]]
      \/ /\ ~IsKnown(c.n)
         /\ kid' = [kid EXCEPT ![k] =
               [c EXCEPT !.path = Append(@, c.n), !.n = NextNumber(@), !.i = @ + 1,
                         !.highest = IF NextNumber(c.n) > @ THEN h ELSE @]]
  BY DEF Round, Goes, IsKnown
<1> HIDE DEF c
<1>6. parent # "read" /\ line \in 1..Len(Lines) /\ limits = Limits(Lines[line])
  <2>1. parent # "read"
    BY <1>1 DEF IInv, LocksOK, Idle
  <2> QED BY <2>1, ConstAssumption DEF IInv, Types, BlocksOK
<1>7. c.current \in Ints(Lines[line])
  <2>1. kid[k].tmp \in 1..Len(limits) /\ kid[k].current \in FirstOf(kid[k].tmp)..limits[kid[k].tmp]
    <3>1. Len(limits) \in Nat
      BY DEF IInv, Types
    <3> QED BY <3>1, <1>1 DEF BlockOK, Works
  <2> QED BY <2>1, <1>2, <1>6, BlockRange
<1>8. prog = "st" /\ crashes = 0 => HeightOK(kid[k]) /\ kid[k].highest \in Heights(Lines[line])
                                    /\ stats.highest \in Heights(Lines[line])
  <2>1. line <= Len(Lines)
    BY <1>6, ConstAssumption
  <2>2. prog = "st" /\ crashes = 0 => HeightOK(kid[k]) /\ stats.highest \in Heights(Lines[line])
    BY <2>1 DEF IInv, StatsOK
  <2> QED BY <2>1, <2>2 DEF HeightOK
\* A child that goes on to d.
<1>9. ASSUME NEW d \in KidState, kid' = [kid EXCEPT ![k] = d], d.pc \in {"walk", "known", "max", "block"}
      PROVE  Moves(k, d) /\ LocksOK' /\ kid'[k] = d
  <2>1. Moves(k, d)
    BY <1>1, <1>3, <1>4, <1>9 DEF Moves
  <2>2. LocksOK'
    BY <2>1, <1>1, <1>3, <1>9, LocksQuiet
  <2> QED BY <2>1, <2>2, <1>1, <1>9
<1>10. ASSUME NEW d \in KidState, kid' = [kid EXCEPT ![k] = d],
              d.pc \in {"walk", "known", "max", "block"}, d.reads = c.reads,
              KidOK(k)', BlocksOK',
              prog = "st" /\ crashes = 0 => HeightOK(kid[k])' /\ kid[k].highest <= d.highest
       PROVE  IInv'
  <2>1. Moves(k, d) /\ LocksOK' /\ kid'[k] = d
    BY <1>9, <1>10
  <2>2. StepOK' /\ ResultOK'
    BY <2>1, <1>3, ResultQuiet
  <2>3. stats.highest \in Nat /\ stats.reads \in Nat /\ rounds' \in Nat
    BY <1>3, <1>4 DEF Counts
  <2>4. (stats'.reads - stats.reads) + ((IF d.pc = "dead" THEN 0 ELSE d.reads) - kid[k].reads)
          = rounds' - rounds
    BY <2>3, <1>1, <1>2, <1>3, <1>4, <1>10, SMTT(40)
  <2>5. prog = "st" /\ crashes = 0 =>
           /\ kid[k].pc # "dead"
           /\ stats.highest <= stats'.highest
           /\ kid[k].highest <= IF d.pc = "dead" THEN stats'.highest ELSE d.highest
           /\ stats'.highest \in Heights(Lines[line])
           /\ HeightOK(kid[k])'
    BY <2>3, <1>1, <1>3, <1>8, <1>10
  <2>6. stats' \in Counts /\ step' = step
    BY <1>3, <1>4
  <2>7. StatsOK'
    BY <2>1, <2>3, <2>4, <2>5, <2>6, StatsMove
  <2> QED BY <2>1, <2>2, <2>3, <2>7, <1>3, <1>4, <1>10, MoveInv
<1>11. CASE IsKnown(c.n) /\ c.i = 0 /\ kid' = [kid EXCEPT ![k] = NextCurrent(c)]
  <2>1. PICK d : d = NextCurrent(c)
    OBVIOUS
  <2>2. d \in KidState /\ d.pc \in {"walk", "block"} /\ d.reads = c.reads /\ d.highest = c.highest
    BY <2>1, <1>2, NextCurrentFields
  <2>3. kid' = [kid EXCEPT ![k] = d]
    BY <2>1, <1>11
  <2>4. Moves(k, d)
    BY <2>2, <2>3, <1>9
  <2>5. c.current = c.n
    <3>1. Len(kid[k].path) = 0
      BY <1>1, <1>2, <1>11 DEF WalkOK
    <3>2. kid[k].path = <<>>
      BY <3>1, <1>1
    <3> QED BY <3>2, <1>1, <1>2 DEF WalkOK
  <2>6. kid[k].current = 1 \/ IntToStr[kid[k].current] \in DOMAIN step'
    BY <2>5, <1>2, <1>3, <1>11 DEF IsKnown
  <2>7. kid[k].pc \in Works
    BY <1>1 DEF Works
  <2>8. KidOK(k)' /\ BlocksOK' /\ (c.highest \in Heights(Lines[line]) => HeightOK(kid[k])')
    BY <2>1, <2>4, <2>6, <2>7, <1>2, <1>3, NextCurrentOK
  <2>9. prog = "st" /\ crashes = 0 => HeightOK(kid[k])' /\ kid[k].highest <= d.highest
    BY <2>2, <2>8, <1>1, <1>2, <1>8
  <2> QED BY <2>2, <2>3, <2>8, <2>9, <1>10
<1>12. CASE IsKnown(c.n) /\ c.i > 0
            /\ kid' = [kid EXCEPT ![k] = [c EXCEPT !.pc = IF c.n > 1 THEN "known" ELSE "max"]]
  <2> DEFINE p == IF c.n > 1 THEN "known" ELSE "max"
             d == [c EXCEPT !.pc = p]
  <2>1. p \in Pcs
    BY DEF Pcs, Works
  <2>2. /\ d \in KidState /\ d.pc = p /\ d.tmp = c.tmp /\ d.current = c.current
        /\ d.last = c.last /\ d.n = c.n /\ d.i = c.i /\ d.path = c.path
        /\ d.highest = c.highest /\ d.reads = c.reads
    BY <2>1, <1>2 DEF KidState
  <2>3. kid' = [kid EXCEPT ![k] = d]
    BY <1>12
  <2>4. d.pc \in {"known", "max"} /\ (d.pc = "max" => d.n = 1) /\ (d.pc = "known" => d.n # 1)
    BY <2>2, <1>1, <1>2
  <2> HIDE DEF d, p
  <2>5. Moves(k, d) /\ kid'[k] = d
    BY <2>2, <2>3, <2>4, <1>9
  <2>6. d.path # <<>> /\ Len(d.path) \in Nat
    BY <2>2, <1>1, <1>2, <1>12 DEF WalkOK
  <2>7. BlocksOK'
    BY <2>2, <2>4, <2>5, <1>2, <1>3, BlocksQuiet DEF Works
  <2>8. KidOK(k)'
    <3>1. \A t : FirstOf(t)' = FirstOf(t)
      BY <1>3 DEF FirstOf
    <3>2. BlockOK(kid[k])'
      BY <3>1, <2>2, <2>4, <2>5, <1>1, <1>2, <1>3 DEF BlockOK, Works, Ends
    <3>3. CASE d.pc = "known"
      <4>1. WalkOK(kid[k])'
        BY <3>3, <2>2, <2>4, <2>5, <2>6, <1>1, <1>2, <1>3, <1>12, SMTT(40) DEF WalkOK, IsKnown
      <4> QED BY <4>1, <3>2, <3>3, <2>5 DEF KidOK
    <3>4. CASE d.pc = "max"
      <4>1. d.n = 1 /\ Steps(1) = 0
        BY <3>4, <2>4, StepsOne
      <4>2. ASSUME NEW j \in 1..Len(d.path) PROVE Reaches(d.path[j]) /\ Steps(d.path[j]) = d.i - (j - 1)
        <5>1. Reaches(d.path[j]) /\ Steps(d.path[j]) = Steps(d.n) + Len(d.path) - (j - 1)
          BY <2>2, <1>1, <1>2 DEF WalkOK
        <5>2. d.i = Len(d.path)
          BY <2>2, <1>1, <1>2 DEF WalkOK
        <5> QED BY <5>1, <5>2, <4>1, <2>6
      <4>3. d.path[1] = d.current
        BY <2>2, <2>6, <1>1, <1>2 DEF WalkOK
      <4>4. d.i >= Len(d.path)
        BY <2>2, <2>6, <1>1, <1>2 DEF WalkOK
      <4>5. StoreOK(kid[k])'
        BY <4>2, <4>3, <4>4, <3>4, <2>5, <2>6 DEF StoreOK
      <4> QED BY <4>5, <3>2, <3>4, <2>5 DEF KidOK
    <3> QED BY <3>3, <3>4, <2>4
  <2>9. prog = "st" /\ crashes = 0 => HeightOK(kid[k])'
    <3> SUFFICES ASSUME prog = "st", crashes = 0 PROVE HeightOK(kid[k])'
      OBVIOUS
    <3>1. HeightOK(kid[k])
      BY <1>8
    <3>2. \A x \in Nat : Recorded(x) => Recorded(x)'
      <4>1. stats.highest \in Nat
        BY <1>4 DEF Counts
      <4>2. /\ stats' \in Counts /\ stats.highest <= stats'.highest /\ kid[k].pc # "dead"
            /\ kid[k].highest <= IF d.pc = "dead" THEN stats'.highest ELSE d.highest
        BY <4>1, <2>2, <2>4, <1>1, <1>2, <1>3, <1>4
      <4> QED BY <4>2, <2>5, RecordedGrows
    <3>3. \A j \in 1..Len(d.path) : Passed(d.path[j]) \subseteq Nat
      BY <2>2, <1>1, <1>2, PassedType DEF WalkOK
    <3>4. line = 1 => \A j \in 1..Len(d.path) : \A x \in Passed(d.path[j]) :
                        x \in Passed(d.n) \/ Recorded(x)'
      BY <3>1, <3>2, <3>3, <2>2, <1>1, <1>2 DEF HeightOK
    <3>5. d.pc = "max" => \A x : x \notin Passed(d.n)
      BY <2>4, StepsOne
    <3>6. Passed(d.n) \subseteq Passed(d.current) /\ d.highest \in Heights(Lines[line])
      BY <3>1, <2>2, <1>1, <1>2, <1>8 DEF HeightOK
    <3>7. d.pc = "max" /\ line = 1 =>
            \A j \in 1..Len(d.path) : \A x \in Passed(d.path[j]) : Recorded(x)'
      BY <3>4, <3>5
    <3> QED BY <3>4, <3>6, <3>7, <2>4, <2>5, <1>3 DEF HeightOK
  <2>10. prog = "st" /\ crashes = 0 => HeightOK(kid[k])' /\ kid[k].highest <= d.highest
    BY <2>2, <2>9, <1>1, <1>2
  <2> QED BY <2>2, <2>3, <2>4, <2>7, <2>8, <2>10, <1>10
<1>13. CASE ~IsKnown(c.n)
            /\ kid' = [kid EXCEPT ![k] =
                  [c EXCEPT !.path = Append(@, c.n), !.n = NextNumber(@), !.i = @ + 1,
                            !.highest = IF NextNumber(c.n) > @ THEN h ELSE @]]
  <2>0. PICK m : m = NextNumber(c.n)
    OBVIOUS
  <2> DEFINE q == Append(c.path, c.n)
             g == IF m > c.highest THEN h ELSE c.highest
             d == [c EXCEPT !.path = q, !.n = m, !.i = c.i + 1, !.highest = g]
  <2>1. m \in Nat /\ m # 0 /\ g \in Nat
    BY <2>0, <1>1, <1>2, NextNumberType
  <2>2. /\ q \in Seq(Nat) /\ Len(q) = Len(c.path) + 1 /\ Len(c.path) \in Nat
        /\ (\A j \in 1..Len(c.path) : q[j] = c.path[j]) /\ q[Len(c.path) + 1] = c.n
    BY <1>1, <1>2, AppendProperties
  <2>3. kid' = [kid EXCEPT ![k] = d]
    BY <2>0, <1>13
  <2> HIDE DEF q, g
  <2>4. /\ d \in KidState
    <3>1. c.i + 1 \in Nat
      BY <1>1, <1>2
    <3> QED BY <3>1, <2>1, <2>2, <1>2 DEF KidState
  <2>5. /\ d.pc = "walk" /\ d.tmp = c.tmp /\ d.current = c.current
        /\ d.last = c.last /\ d.n = m /\ d.i = c.i + 1 /\ d.path = q
        /\ d.highest = g /\ d.reads = c.reads
    BY <1>2 DEF KidState
  <2> HIDE DEF d
  <2>6. Moves(k, d) /\ kid'[k] = d
    BY <2>3, <2>4, <2>5, <1>9
  <2>7. BlocksOK'
    BY <2>5, <2>6, <1>2, <1>3, BlocksQuiet DEF Works
  <2>8. /\ Reaches(c.n) /\ c.n # 1 /\ Reaches(m) /\ Steps(c.n) \in Nat /\ Steps(m) \in Nat
        /\ Steps(c.n) = Steps(m) + 1 /\ Passed(c.n) = {m} \cup Passed(m)
    <3>1. Reaches(c.n) /\ c.n # 1
      BY <1>1, <1>2, <1>13 DEF WalkOK, IsKnown
    <3> QED BY <3>1, <2>0, StepsNext
  <2>9. KidOK(k)'
    <3>1. \A t : FirstOf(t)' = FirstOf(t)
      BY <1>3 DEF FirstOf
    <3>2. BlockOK(kid[k])'
      BY <3>1, <2>5, <2>6, <1>1, <1>2, <1>3 DEF BlockOK, Works, Ends
    <3>3. c.i = Len(c.path)
      BY <1>1, <1>2 DEF WalkOK
    <3>4. ASSUME NEW j \in 1..Len(q)
          PROVE  Reaches(q[j]) /\ Steps(q[j]) = Steps(m) + Len(q) - (j - 1)
      <4>1. CASE j \in 1..Len(c.path)
        <5>1. Reaches(c.path[j]) /\ Steps(c.path[j]) = Steps(c.n) + Len(c.path) - (j - 1)
          BY <4>1, <1>1, <1>2 DEF WalkOK
        <5>2. Steps(c.path[j]) = Steps(m) + Len(q) - (j - 1)
          <6>1. j \in Nat /\ Len(c.path) \in Nat /\ Len(q) = Len(c.path) + 1
            BY <4>1, <2>2
          <6> QED BY <6>1, <5>1, <2>8
        <5> QED BY <5>1, <5>2, <4>1, <2>2
      <4>2. CASE j = Len(c.path) + 1
        <5>1. q[j] = c.n
          BY <4>2, <2>2
        <5>2. Steps(m) + Len(q) - (j - 1) = Steps(m) + 1
          BY <4>2, <2>2, <2>8
        <5> QED BY <5>1, <5>2, <2>8
      <4> QED BY <4>1, <4>2, <2>2
    <3>5. q # <<>> /\ q[1] = c.current
      <4>1. CASE c.path = <<>>
        <5>1. Len(c.path) = 0 /\ c.current = c.n
          BY <4>1, <1>1, <1>2 DEF WalkOK
        <5>2. Len(q) = 1 /\ q[1] = c.n
          BY <5>1, <2>2
        <5>3. Len(<<>>) = 0
          OBVIOUS
        <5>4. q # <<>>
          BY <5>2, <5>3
        <5> QED BY <5>1, <5>2, <5>4
      <4>2. CASE c.path # <<>>
        <5>1. 1 \in 1..Len(c.path) /\ c.current = c.path[1]
          BY <4>2, <1>1, <1>2 DEF WalkOK
        <5> QED BY <5>1, <2>2
      <4> QED BY <4>1, <4>2
    <3>6. WalkOK(kid[k])'
      <4>1. d.i = Len(d.path)
        BY <3>3, <2>2, <2>5
      <4> QED BY <4>1, <3>4, <3>5, <2>5, <2>6, <2>8 DEF WalkOK
    <3> QED BY <3>2, <3>6, <2>5, <2>6 DEF KidOK
  <2>10. ASSUME prog = "st", crashes = 0 PROVE HeightOK(kid[k])' /\ kid[k].highest <= d.highest
    <3>1. HeightOK(kid[k])
      BY <1>8, <2>10
    <3>2. c.highest <= g /\ m <= g /\ g \in {m, c.highest}
      BY <2>0, <2>1, <2>10, <1>1, <1>2 DEF g
    <3>3. \A x \in Nat : Recorded(x) => Recorded(x)'
      <4>1. stats.highest \in Nat
        BY <1>4 DEF Counts
      <4>2. /\ stats' \in Counts /\ stats.highest <= stats'.highest /\ kid[k].pc # "dead"
            /\ kid[k].highest <= IF d.pc = "dead" THEN stats'.highest ELSE d.highest
        BY <4>1, <3>2, <2>5, <1>1, <1>2, <1>3, <1>4
      <4> QED BY <4>2, <2>6, RecordedGrows
    <3>4. Recorded(m)'
      BY <3>2, <2>5, <2>6 DEF Recorded
    <3>5. Passed(c.n) \subseteq Passed(c.current) /\ Passed(c.n) \subseteq Nat
      BY <3>1, <2>8, <1>1, <1>2, PassedType DEF HeightOK
    <3>6. m \in Passed(c.current) /\ Passed(m) \subseteq Passed(c.current)
      BY <3>5, <2>8
    <3>7. g \in Heights(Lines[line])
      BY <3>2, <3>6, <1>2, <1>7, <1>8, <2>10 DEF Heights
    <3>8. ASSUME line = 1, NEW j \in 1..Len(q), NEW x \in Passed(q[j])
          PROVE  x \in Passed(m) \/ Recorded(x)'
      <4>1. x \in Passed(c.n) \/ Recorded(x)
        <5>1. CASE j \in 1..Len(c.path)
          <6>1. x \in Passed(kid[k].path[j])
            BY <5>1, <3>8, <2>2, <1>2
          <6> QED BY <6>1, <5>1, <3>1, <3>8, <1>1, <1>2 DEF HeightOK
        <5>2. CASE j = Len(c.path) + 1
          BY <5>2, <3>8, <2>2
        <5> QED BY <5>1, <5>2, <2>2
      <4>2. x \in Nat
        <5>1. Reaches(q[j])
          <6>1. q[j] = kid'[k].path[j] /\ j \in 1..Len(kid'[k].path) /\ kid'[k].pc = "walk"
            BY <2>5, <2>6
          <6> QED BY <6>1, <2>9 DEF KidOK, WalkOK
        <5> QED BY <5>1, <3>8, PassedType
      <4>3. CASE x \in Passed(c.n)
        BY <4>3, <3>4, <2>8
      <4>4. CASE Recorded(x)
        BY <4>4, <4>2, <3>3
      <4> QED BY <4>1, <4>3, <4>4
    <3>9. HeightOK(kid[k])'
      BY <3>6, <3>7, <3>8, <2>5, <2>6, <1>3 DEF HeightOK
    <3> QED BY <3>2, <3>9, <2>5, <1>2
  <2> QED BY <2>3, <2>4, <2>5, <2>7, <2>9, <2>10, <1>10
<1> QED BY <1>5, <1>11, <1>12, <1>13

\* dostep: one number of the path goes to ^step.
LEMMA StoreInv ==
  ASSUME IInv, NEW k \in Kids, Store(k)
  PROVE  IInv'
<1> DEFINE P == kid[k].path
           c == [kid[k] EXCEPT !.path = Tail(@), !.i = @ - 1, !.updates = @ + 1]
           d == IF c.path # <<>> THEN c ELSE NextCurrent(c)
<1>1. /\ kid \in [Kids -> KidState] /\ kid[k] \in KidState /\ kid[k].pc = "store" /\ StoreOK(kid[k])
      /\ BlockOK(kid[k]) /\ kid[k].i \in Nat /\ P \in Seq(Nat) /\ kid[k].updates \in Nat
      /\ kid[k].reads \in Nat /\ kid[k].highest \in Nat
  BY DEF Store, IInv, Types, KidOK, KidState
<1>2. /\ P # <<>> /\ Len(P) \in Nat /\ 1 \in 1..Len(P) /\ Head(P) = P[1] /\ Tail(P) \in Seq(Nat)
      /\ Len(Tail(P)) = Len(P) - 1 /\ (\A j \in 1..Len(Tail(P)) : Tail(P)[j] = P[j + 1])
      /\ kid[k].i >= Len(P)
  BY <1>1, HeadTailProperties DEF StoreOK
<1>3. kid[k].i - 1 \in Nat
  BY <1>1, <1>2
<1>4. c \in KidState
  <2>1. kid[k].updates + 1 \in Nat /\ Tail(kid[k].path) \in Seq(Nat)
    BY <1>1, <1>2
  <2> QED BY <2>1, <1>1, <1>3 DEF KidState
<1>5. /\ c.pc = "store" /\ c.tmp = kid[k].tmp /\ c.current = kid[k].current /\ c.last = kid[k].last
      /\ c.i = kid[k].i - 1 /\ c.path = Tail(P) /\ c.highest = kid[k].highest
      /\ c.reads = kid[k].reads
  BY <1>1 DEF KidState
<1>6. PICK n : n = Head(P)
  OBVIOUS
<1>7. n \in Nat \ {0} /\ Reaches(n) /\ Steps(n) = kid[k].i
  <2>1. Reaches(P[1]) /\ Steps(P[1]) = kid[k].i - (1 - 1)
    BY <1>1, <1>2 DEF StoreOK
  <2> QED BY <2>1, <1>1, <1>2, <1>6 DEF Reaches
<1>8. /\ UNCHANGED shared /\ claims' = claims /\ count' = count /\ l1' = l1 /\ l2' = l2
      /\ stats' = stats /\ result' = result /\ rounds' = rounds /\ limits' = limits /\ line' = line
      /\ step' = [x \in {IntToStr[n]} \cup DOMAIN step |->
                    IF x = IntToStr[n] THEN IntToStr[kid[k].i] ELSE step[x]]
      /\ kid' = [kid EXCEPT ![k] = d]
  BY <1>6 DEF Store, Goes, shared
<1>9. /\ DOMAIN step' = {IntToStr[n]} \cup DOMAIN step /\ step'[IntToStr[n]] = IntToStr[kid[k].i]
      /\ \A w \in DOMAIN step : w # IntToStr[n] => step'[w] = step[w]
  BY <1>8
<1> HIDE DEF c
<1>10. /\ d \in KidState /\ d.tmp = kid[k].tmp /\ d.last = kid[k].last /\ d.reads = kid[k].reads
       /\ d.highest = kid[k].highest /\ d.pc \in {"store", "walk", "block"}
       /\ (c.path # <<>> => d = c) /\ (c.path = <<>> => d = NextCurrent(c))
  BY <1>4, <1>5, NextCurrentFields
<1> HIDE DEF d
<1>11. result \in Nat \cup {Undef} /\ Numbers(result) \in Nat /\ count \in Int /\ claims \in Seq(Nat)
       /\ l1 \subseteq Kids \cup {Parent} /\ l2 \subseteq Kids \cup {Parent}
       /\ stats \in Counts /\ rounds \in Nat
  BY NumbersType DEF IInv, Types
<1>12. Moves(k, d)
  BY <1>1, <1>8, <1>9, <1>10, <1>11 DEF Moves
<1>13. kid'[k] = d
  BY <1>1, <1>8
<1>14. LocksOK'
  BY <1>1, <1>8, <1>10, <1>12, LocksQuiet
<1>15. line \in 1..Len(Lines)
  BY <1>12, MovesInLine
<1>16. kid[k].current = 1 \/ IntToStr[kid[k].current] \in DOMAIN step'
  BY <1>1, <1>2, <1>6, <1>9 DEF StoreOK, IsKnown
<1>17. StepOK' /\ ResultOK'
  <2>1. ASSUME NEW w \in DOMAIN step'
        PROVE  \E m \in Nat \ {0} :
                 /\ w = IntToStr[m] /\ Reaches(m) /\ step'[w] = IntToStr[Steps(m)]
                 /\ line = 1 => Steps(m) <= Numbers(result)
    <3>1. CASE w = IntToStr[n]
      <4>1. line = 1 => Steps(n) <= Numbers(result)
        BY <1>1, <1>7 DEF StoreOK
      <4> QED BY <4>1, <3>1, <1>7, <1>9
    <3>2. CASE w # IntToStr[n]
      <4>1. w \in DOMAIN step /\ step'[w] = step[w]
        BY <2>1, <3>2, <1>9
      <4> QED BY <4>1 DEF IInv, StepOK
    <3> QED BY <3>1, <3>2
  <2> QED BY <2>1, <1>8 DEF IInv, StepOK, ResultOK
<1>18. \A x \in Nat : Recorded(x) => Recorded(x)'
  <2>1. stats.highest \in Nat
    BY <1>11 DEF Counts
  <2>2. /\ stats' \in Counts /\ stats.highest <= stats'.highest /\ kid[k].pc # "dead"
        /\ kid[k].highest <= IF d.pc = "dead" THEN stats'.highest ELSE d.highest
    BY <2>1, <1>1, <1>8, <1>10, <1>11
  <2> QED BY <2>2, <1>12, RecordedGrows
<1>19. prog = "st" /\ crashes = 0 => HeightOK(kid[k]) /\ kid[k].highest \in Heights(Lines[line])
                                     /\ stats.highest \in Heights(Lines[line])
  <2>1. line <= Len(Lines)
    BY <1>15, ConstAssumption
  <2>2. prog = "st" /\ crashes = 0 => HeightOK(kid[k]) /\ stats.highest \in Heights(Lines[line])
    BY <2>1 DEF IInv, StatsOK
  <2> QED BY <2>1, <2>2 DEF HeightOK
<1>20. \A j \in 1..Len(P) : Passed(P[j]) \subseteq Nat
  BY <1>1, PassedType DEF StoreOK
<1>21. /\ KidOK(k)' /\ BlocksOK'
       /\ prog = "st" /\ crashes = 0 => HeightOK(kid[k])'
  <2>1. CASE c.path # <<>>
    <3>0. d = c
      BY <2>1, <1>10
    <3>1. BlocksOK'
      BY <3>0, <1>1, <1>5, <1>8, <1>12, BlocksQuiet DEF Works
    <3>2. \A t : FirstOf(t)' = FirstOf(t)
      BY <1>8 DEF FirstOf
    <3>3. BlockOK(kid[k])'
      BY <3>0, <3>2, <1>1, <1>5, <1>8, <1>13 DEF BlockOK, Works, Ends
    <3>4. ASSUME NEW j \in 1..Len(c.path)
          PROVE  /\ c.path[j] = P[j + 1] /\ j + 1 \in 1..Len(P)
                 /\ Reaches(c.path[j]) /\ Steps(c.path[j]) = c.i - (j - 1)
      <4>1. c.path[j] = P[j + 1] /\ j + 1 \in 1..Len(P)
        BY <1>2, <1>5
      <4>2. Reaches(P[j + 1]) /\ Steps(P[j + 1]) = kid[k].i - ((j + 1) - 1)
        BY <4>1, <1>1 DEF StoreOK
      <4>3. kid[k].i - ((j + 1) - 1) = c.i - (j - 1)
        BY <1>1, <1>2, <1>5
      <4> QED BY <4>1, <4>2, <4>3
    <3>5. c.i >= Len(c.path)
      BY <1>1, <1>2, <1>5
    <3>6. line = 1 => c.i <= Numbers(result')
      BY <1>1, <1>5, <1>8, <1>11 DEF StoreOK
    <3>7. StoreOK(kid[k])'
      BY <3>0, <3>4, <3>5, <3>6, <2>1, <1>5, <1>8, <1>13, <1>16 DEF StoreOK, IsKnown
    <3>8. KidOK(k)'
      BY <3>0, <3>3, <3>7, <1>5, <1>13 DEF KidOK
    <3>9. ASSUME prog = "st", crashes = 0 PROVE HeightOK(kid[k])'
      <4>1. ASSUME line = 1, NEW j \in 1..Len(c.path), NEW x \in Passed(c.path[j])
            PROVE  Recorded(x)'
        <5>1. x \in Passed(P[j + 1]) /\ j + 1 \in 1..Len(P)
          BY <3>4, <4>1
        <5>2. Recorded(x)
          BY <5>1, <4>1, <3>9, <1>1, <1>19 DEF HeightOK
        <5> QED BY <5>1, <5>2, <1>18, <1>20
      <4> QED BY <4>1, <3>0, <3>9, <1>5, <1>8, <1>13, <1>19 DEF HeightOK
    <3> QED BY <3>1, <3>8, <3>9
  <2>2. CASE c.path = <<>>
    <3>1. d = NextCurrent(c)
      BY <2>2, <1>10
    <3>2. kid[k].pc \in Works
      BY <1>1 DEF Works
    <3>3. KidOK(k)' /\ BlocksOK' /\ (c.highest \in Heights(Lines[line]) => HeightOK(kid[k])')
      BY <3>1, <3>2, <1>4, <1>5, <1>8, <1>12, <1>16, NextCurrentOK
    <3> QED BY <3>3, <1>5, <1>19
  <2> QED BY <2>1, <2>2
<1>22. ASSUME prog = "st", crashes = 0, line = 1, NEW m \in Nat \ {0},
              IntToStr[m] \in DOMAIN step', IntToStr[m] \notin DOMAIN step, NEW x \in Passed(m)
       PROVE  Recorded(x)'
  <2>1. StrToInt(IntToStr[m]) = m /\ StrToInt(IntToStr[n]) = n
    BY <1>7, WordsRight
  <2>2. m = P[1]
    BY <2>1, <1>2, <1>6, <1>9, <1>22
  <2>3. Recorded(x)
    BY <2>2, <1>1, <1>2, <1>19, <1>22 DEF HeightOK
  <2> QED BY <2>2, <2>3, <1>2, <1>18, <1>20, <1>22
<1>23. StatsOK'
  <2>1. stats.highest \in Nat /\ stats.reads \in Nat
    BY <1>11 DEF Counts
  <2>2. prog = "st" /\ crashes = 0 =>
           /\ kid[k].pc # "dead"
           /\ stats.highest <= stats'.highest
           /\ kid[k].highest <= IF d.pc = "dead" THEN stats'.highest ELSE d.highest
           /\ (stats'.reads - stats.reads) + ((IF d.pc = "dead" THEN 0 ELSE d.reads) - kid[k].reads)
                = rounds' - rounds
           /\ stats'.highest \in Heights(Lines[line])
           /\ HeightOK(kid[k])'
    BY <2>1, <1>1, <1>8, <1>10, <1>11, <1>19, <1>21
  <2> QED BY <2>2, <1>8, <1>11, <1>12, <1>22, StatsMove
<1> QED BY <1>8, <1>11, <1>12, <1>14, <1>17, <1>21, <1>23, MoveInv

\* The last steps of doblk.
LEMMA EndMove ==
  ASSUME IInv, NEW k \in Kids, NEW p \in {"unlock1", "unlock2", "dead"},
         kid[k].pc \in {"statsset", "unlock1", "unlock2"},
         UNCHANGED shared, Goes(k, At(k, p)), UNCHANGED <<claims, count, step, result, rounds>>,
         l1' \subseteq Kids \cup {Parent}, l2' \subseteq Kids \cup {Parent}, stats' \in Counts, LocksOK',
         prog = "st" => /\ p = "dead" /\ stats'.reads = stats.reads + kid[k].reads
                        /\ stats.highest <= stats'.highest /\ kid[k].highest <= stats'.highest
                        /\ stats'.highest \in {stats.highest, kid[k].highest}
  PROVE  IInv'
<1> DEFINE c == At(k, p)
<1>1. kid[k] \in KidState /\ kid \in [Kids -> KidState] /\ BlockOK(kid[k]) /\ p \in Pcs
      /\ kid[k].reads \in Nat /\ kid[k].highest \in Nat
  BY DEF IInv, Types, Pcs, Ends, KidOK, KidState
<1>2. /\ c \in KidState /\ c.pc = p /\ c.tmp = kid[k].tmp /\ c.reads = kid[k].reads
      /\ c.highest = kid[k].highest
  BY <1>1, AtFields
<1>3. kid' = [kid EXCEPT ![k] = c] /\ kid'[k] = c
  BY <1>1 DEF Goes
<1> HIDE DEF c
<1>4. /\ result \in Nat \cup {Undef} /\ claims \in Seq(Nat) /\ Numbers(result) \in Nat
      /\ count \in Int /\ rounds \in Nat /\ stats.reads \in Nat /\ stats.highest \in Nat
  BY NumbersType DEF IInv, Types, Counts
<1>5. Moves(k, c)
  BY <1>2, <1>3, <1>4 DEF Moves
<1>6. limits' = limits /\ line' = line /\ line <= Len(Lines)
  BY <1>5, MovesInLine, ConstAssumption DEF shared
<1>7. KidOK(k)'
  <2>1. c.pc \notin Works /\ kid[k].pc \in Ends
    BY <1>2 DEF Works, Ends
  <2>2. BlockOK(kid[k])'
    BY <1>1, <1>2, <1>3, <1>6, <2>1 DEF BlockOK
  <2> QED BY <1>3, <2>1, <2>2 DEF KidOK, Works
<1>8. BlocksOK'
  <2>1. claims' = claims /\ kid[k].pc \notin Works
    BY DEF Works
  <2> QED BY <2>1, <1>5, BlocksQuiet
<1>9. StepOK' /\ ResultOK'
  BY <1>5, ResultQuiet
<1>10. ASSUME prog = "st", crashes = 0
       PROVE  /\ kid[k].pc # "dead"
              /\ stats.highest <= stats'.highest
              /\ kid[k].highest <= IF c.pc = "dead" THEN stats'.highest ELSE c.highest
              /\ (stats'.reads - stats.reads) + ((IF c.pc = "dead" THEN 0 ELSE c.reads) - kid[k].reads)
                   = rounds' - rounds
              /\ stats'.highest \in Heights(Lines[line])
              /\ HeightOK(kid[k])'
  <2>1. HeightOK(kid[k]) /\ stats.highest \in Heights(Lines[line])
    BY <1>6, <1>10 DEF IInv, StatsOK
  <2>2. kid[k].highest \in Heights(Lines[line])
    BY <2>1, <1>6 DEF HeightOK
  <2>3. HeightOK(kid[k])'
    BY <2>1, <2>2, <1>2, <1>3, <1>6 DEF HeightOK
  <2>4. (stats'.reads - stats.reads) + ((IF c.pc = "dead" THEN 0 ELSE c.reads) - kid[k].reads)
           = rounds' - rounds
    BY <1>1, <1>2, <1>4, <1>10
  <2> QED BY <2>1, <2>2, <2>3, <2>4, <1>2, <1>10
<1>11. StatsOK'
  BY <1>4, <1>5, <1>10, StatsMove
<1> QED BY <1>4, <1>5, <1>7, <1>8, <1>9, <1>11, MoveInv

LEMMA GvStatsInv ==
  ASSUME IInv, NEW k \in Kids, GvStats(k)
  PROVE  IInv'
<1>1. CASE StatsRead(k)
  BY <1>1, StatsReadInv
<1>2. CASE StatsCommit(k, 0, 0, "unlock1")
  <2>1. CASE kid[k].seen # stats
    BY <1>2, <2>1, RestartInv DEF StatsCommit
  <2>2. CASE kid[k].seen = stats
    <3>1. /\ UNCHANGED shared /\ Goes(k, At(k, "unlock1"))
          /\ UNCHANGED <<claims, count, l1, l2, step, result, rounds>>
          /\ kid[k].pc = "statsset" /\ prog = "s"
          /\ stats' = [reads |-> stats.reads + 0, updates |-> stats.updates + 0,
                       highest |-> IF kid[k].highest > stats.highest THEN kid[k].highest
                                                                     ELSE stats.highest]
      BY <1>2, <2>2 DEF StatsCommit, GvStats
    <3>2. /\ kid \in [Kids -> KidState] /\ kid[k] \in KidState /\ kid[k].highest \in Nat
          /\ stats.reads \in Nat /\ stats.updates \in Nat /\ stats.highest \in Nat
          /\ result \in Nat \cup {Undef} /\ claims \in Seq(Nat) /\ Numbers(result) \in Nat
          /\ l1 \subseteq Kids \cup {Parent} /\ l2 \subseteq Kids \cup {Parent}
      BY NumbersType DEF IInv, Types, KidState, Counts
    <3>3. stats' \in Counts
      BY <3>1, <3>2 DEF Counts
    <3>4. At(k, "unlock1") \in KidState /\ At(k, "unlock1").pc = "unlock1"
      BY <3>2, AtFields DEF Pcs, Ends
    <3>5. Moves(k, At(k, "unlock1"))
      BY <3>1, <3>2, <3>4 DEF Moves, Goes
    <3>6. LocksOK'
      BY <3>1, <3>4, <3>5, LocksQuiet
    <3> QED BY <3>1, <3>2, <3>3, <3>6, EndMove
  <2> QED BY <2>1, <2>2
<1> QED BY <1>1, <1>2 DEF GvStats

\* tp_gvstatsincr of a thread: its reads are added once, its highest is kept.
LEMMA GvStatsStInv ==
  ASSUME IInv, NEW k \in Kids, GvStats_st(k)
  PROVE  IInv'
<1>1. CASE StatsRead(k)
  BY <1>1, StatsReadInv
<1>2. CASE StatsCommit(k, kid[k].reads, kid[k].updates, "dead")
  <2>1. CASE kid[k].seen # stats
    BY <1>2, <2>1, RestartInv DEF StatsCommit
  <2>2. CASE kid[k].seen = stats
    <3>1. /\ UNCHANGED shared /\ Goes(k, At(k, "dead"))
          /\ UNCHANGED <<claims, count, l1, l2, step, result, rounds>>
          /\ kid[k].pc = "statsset" /\ prog = "st"
          /\ stats' = [reads |-> stats.reads + kid[k].reads, updates |-> stats.updates + kid[k].updates,
                       highest |-> IF kid[k].highest > stats.highest THEN kid[k].highest
                                                                     ELSE stats.highest]
      BY <1>2, <2>2 DEF StatsCommit, GvStats_st
    <3>2. /\ kid \in [Kids -> KidState] /\ kid[k] \in KidState /\ kid[k].highest \in Nat
          /\ kid[k].reads \in Nat /\ kid[k].updates \in Nat
          /\ stats.reads \in Nat /\ stats.updates \in Nat /\ stats.highest \in Nat
          /\ l1 \subseteq Kids \cup {Parent} /\ l2 \subseteq Kids \cup {Parent}
      BY DEF IInv, Types, KidState, Counts
    <3>3. stats' \in Counts
      BY <3>1, <3>2 DEF Counts
    <3>4. At(k, "dead").pc = "dead"
      BY <3>2, AtFields DEF Pcs, Ends
    <3>5. kid'[k].pc = "dead" /\ \A j \in Kids : j # k => kid'[j] = kid[j]
      BY <3>1, <3>2, <3>4 DEF Goes
    <3>6. parent' = parent /\ forked' = forked /\ prog' = prog /\ l2' = l2
      BY <3>1 DEF shared
    <3>7. parent # "read" /\ parent # "report"
      BY <3>1 DEF IInv, LocksOK, Idle
    <3>8. LocksOK'
      BY <3>1, <3>5, <3>6, <3>7 DEF IInv, LocksOK
    <3>9. /\ stats'.reads = stats.reads + kid[k].reads
          /\ stats.highest <= stats'.highest /\ kid[k].highest <= stats'.highest
          /\ stats'.highest \in {stats.highest, kid[k].highest}
      BY <3>1, <3>2
    <3> QED BY <3>1, <3>2, <3>3, <3>8, <3>9, EndMove
  <2> QED BY <2>1, <2>2
<1> QED BY <1>1, <1>2 DEF GvStats_st

LEMMA UnlockInv ==
  ASSUME IInv, NEW k \in Kids, Unlock(k)
  PROVE  IInv'
<1>1. /\ kid \in [Kids -> KidState] /\ kid[k] \in KidState /\ stats \in Counts
      /\ l1 \subseteq Kids \cup {Parent} /\ l2 \subseteq Kids \cup {Parent}
  BY DEF IInv, Types
<1>2. prog = "s" /\ UNCHANGED shared /\ UNCHANGED <<claims, count, step, result, stats, rounds>>
      /\ parent' = parent /\ forked' = forked /\ prog' = prog /\ count' = count
  BY DEF Unlock, shared
<1>3. PICK p \in {"unlock2", "dead"} :
        /\ Goes(k, At(k, p))
        /\ p = "unlock2" => kid[k].pc = "unlock1" /\ l1' = l1 \ {k} /\ l2' = l2
        /\ p = "dead" => kid[k].pc = "unlock2" /\ l2' = l2 \ {k} /\ l1' = l1
  BY DEF Unlock
<1>4. At(k, p).pc = p
  BY <1>1, AtFields DEF Pcs, Ends
<1>5. kid'[k].pc = p /\ \A j \in Kids : j # k => kid'[j] = kid[j]
  BY <1>1, <1>3, <1>4 DEF Goes
<1>6. parent # "read" /\ parent # "report"
  BY <1>3 DEF IInv, LocksOK, Idle
<1>7. Uncounted' = Uncounted
  BY <1>3, <1>5 DEF Uncounted
<1>8. LocksOK'
  BY <1>2, <1>3, <1>5, <1>6, <1>7, ConstAssumption DEF IInv, LocksOK
<1>9. l1' \subseteq Kids \cup {Parent} /\ l2' \subseteq Kids \cup {Parent} /\ stats' \in Counts
  BY <1>1, <1>2, <1>3
<1> QED BY <1>2, <1>3, <1>8, <1>9, EndMove

\* Every step of a child preserves the invariant.
LEMMA KidStepInv ==
  ASSUME IInv, NEW k \in Kids, KidStep(k)
  PROVE  IInv'
<1>1. CASE LockL2(k)
  BY <1>1, LockL2Inv
<1>2. CASE CountOut(k)
  BY <1>2, CountOutInv
<1>3. CASE LockL1(k)
  BY <1>3, LockL1Inv
<1>4. CASE CountOut_st(k)
  BY <1>4, CountOutStInv
<1>5. CASE Block(k) \/ Block_st(k)
  BY <1>5, NextBlockInv DEF Block, Block_st
<1>6. CASE Walk(k) \/ Walk_st(k)
  <2>1. kid[k].n \in Nat
    BY DEF IInv, Types, KidState
  <2>2. CASE Walk(k)
    BY <2>1, <2>2, RoundInv DEF Walk
  <2>3. CASE Walk_st(k)
    <3>1. NextNumber(kid[k].n) \in Nat
      BY <2>1, NextNumberType
    <3> QED BY <2>3, <3>1, RoundInv DEF Walk_st
  <2> QED BY <1>6, <2>2, <2>3
<1>7. CASE Dostep(k) \/ Dostep_st(k)
  BY <1>7, KnownInv, StoreInv DEF Dostep, Dostep_st
<1>8. CASE SetMax(k) \/ SetMax_st(k)
  BY <1>8, MaxReadInv, MaxCommitInv DEF SetMax, SetMax_st
<1>9. CASE GvStats(k)
  BY <1>9, GvStatsInv
<1>10. CASE GvStats_st(k)
  BY <1>10, GvStatsStInv
<1>11. CASE Unlock(k)
  BY <1>11, UnlockInv
<1> QED BY <1>1, <1>2, <1>3, <1>4, <1>5, <1>6, <1>7, <1>8, <1>9, <1>10, <1>11 DEF KidStep

-----------------------------------------------------------------------------
(* Steps of the parent *)

LEMMA IdleType == Idle \in KidState /\ Idle.pc = "none" /\ Idle.tmp = 0 /\ Idle.reads = 0
                  /\ Idle.highest = 0
<1>1. "none" \in Pcs /\ <<>> \in Seq(Nat) /\ 0 \in Nat /\ 0 \in Int \cup Counts
  BY DEF Pcs
<1> QED BY <1>1 DEF Idle, KidState

\* What the children have recorded before they are started.
LEMMA ZeroHeight ==
  \A l : 0 \in Heights(l)
BY DEF Heights

LEMMA InvInit == Init => IInv
<1> SUFFICES ASSUME Init PROVE IInv
  OBVIOUS
<1>1. /\ line = 1 /\ parent = "read" /\ forked = {} /\ limits = <<>> /\ claims = <<>> /\ count = 0
      /\ l1 = {} /\ l2 = {} /\ kid = [k \in Kids |-> Idle] /\ step = [w \in {} |-> <<>>]
      /\ result = Undef /\ stats = NoStats /\ crashes = 0 /\ rounds = 0 /\ prog \in {"s", "st"}
  BY DEF Init
<1>2. Len(Lines) \in Nat /\ Len(<<>>) = 0 /\ <<>> \in Seq(Nat)
  BY ConstAssumption
<1>3. Types
  BY <1>1, <1>2, IdleType DEF Types, NoStats, Counts
<1>4. LocksOK
  BY <1>1, IdleType DEF LocksOK
<1>5. DOMAIN step = {}
  BY <1>1
<1>6. StepOK
  BY <1>5 DEF StepOK
<1>7. \A k \in Kids : KidOK(k)
  BY <1>1, <1>2, IdleType DEF KidOK, BlockOK, Works, Ends
<1>8. BlocksOK
  BY <1>1 DEF BlocksOK
<1>9. ResultOK
  <2>1. Numbers(result) = 0
    BY <1>1 DEF Numbers
  <2>2. line <= Len(Lines) => MaxSteps(Lines[line]) \in Nat
    <3>1. line <= Len(Lines) => line \in 1..Len(Lines)
      BY <1>1, <1>2
    <3> QED BY <3>1, MaxStepsIs
  <2> QED BY <2>1, <2>2, <1>1 DEF ResultOK
<1>10. StatsOK
  <2>1. \A k \in Kids : HeightOK(kid[k])
    BY <1>1, IdleType, ZeroHeight DEF HeightOK
  <2>2. stats.highest = 0
    BY <1>1 DEF NoStats
  <2> QED BY <2>1, <2>2, <1>1, <1>5, ZeroHeight DEF StatsOK
<1> QED BY <1>3, <1>4, <1>6, <1>7, <1>8, <1>9, <1>10 DEF IInv

\* main: a line is begun, with or without lock l1.
LEMMA StartInv ==
  ASSUME IInv, StartLine \/ StartLine_st
  PROVE  IInv'
<1>1. /\ parent = "read" /\ line <= Len(Lines) /\ parent' = "fork"
      /\ limits' = Limits(Lines[line]) /\ claims' = [c \in 1..Len(limits') |-> 0]
      /\ count' = 0 /\ rounds' = 0 /\ l1' \in {{Parent}, l1}
      /\ prog' = prog /\ line' = line /\ forked' = forked /\ l2' = l2 /\ kid' = kid /\ step' = step
      /\ result' = result /\ stats' = stats /\ crashes' = crashes
  BY DEF StartLine, StartLine_st
<1>2. line \in 1..Len(Lines) /\ Types /\ LocksOK /\ kid = [k \in Kids |-> Idle]
  BY <1>1, ConstAssumption, SMTT(40) DEF IInv, Types, LocksOK
<1>3. limits' \in Seq(Nat) /\ Len(limits') \in Nat
  BY <1>1, <1>2, LimitsFacts
<1>4. claims' \in Seq(Nat) /\ Len(claims') = Len(limits') /\ \A t \in 1..Len(limits') : claims'[t] = 0
  BY <1>1, <1>3
<1>5. Types'
  BY <1>1, <1>2, <1>3, <1>4 DEF Types
<1>6. Uncounted' = {}
  BY <1>1, <1>2, IdleType DEF Uncounted
<1>7. LocksOK'
  <2>1. Cardinality(Uncounted') = 0
    BY <1>6, FS_EmptySet
  <2> QED BY <2>1, <1>1, <1>2, <1>6 DEF LocksOK
<1>8. \A k \in Kids : KidOK(k)'
  BY <1>1, <1>2, <1>3, IdleType DEF KidOK, BlockOK, Works, Ends
<1>9. StepOK' /\ ResultOK'
  BY <1>1 DEF IInv, StepOK, ResultOK
<1>10. BlocksOK'
  BY <1>1, <1>4 DEF BlocksOK
<1>11. StatsOK'
  <2> SUFFICES ASSUME prog = "st", crashes = 0
               PROVE  /\ stats.reads + Total(Pending') = 0
                      /\ stats.highest \in Heights(Lines[line])
                      /\ \A k \in Kids : HeightOK(kid[k])'
                      /\ line = 1 => \A n \in Nat \ {0} :
                           IntToStr[n] \in DOMAIN step => \A x \in Passed(n) : Recorded(x)'
    <3>1. \A v : Total(v)' = Total(v)
      BY DEF Total
    <3> QED BY <3>1, <1>1 DEF StatsOK
  <2>1. stats = NoStats /\ stats.highest \in Heights(Lines[line])
        /\ (\A k \in Kids : HeightOK(kid[k]))
        /\ (line = 1 => \A n \in Nat \ {0} :
              IntToStr[n] \in DOMAIN step => \A x \in Passed(n) : Recorded(x))
    BY <1>1 DEF IInv, StatsOK
  <2>2. Pending' \in [Kids -> Nat] /\ \A k \in Kids : Pending'[k] = 0
    BY <1>1, <1>2, IdleType DEF Pending
  <2>3. Total(Pending') = 0
    BY <2>2, TotalZero
  <2>4. \A x : Recorded(x)' = Recorded(x)
    BY <1>1 DEF Recorded
  <2>5. \A k \in Kids : HeightOK(kid[k])'
    BY <2>1, <2>4, <1>1 DEF HeightOK
  <2>6. stats.reads = 0
    BY <2>1 DEF NoStats
  <2> QED BY <2>1, <2>3, <2>4, <2>5, <2>6
<1> QED BY <1>5, <1>7, <1>8, <1>9, <1>10, <1>11 DEF IInv

\* main: a child is started; p is where it begins.
LEMMA ForkMove ==
  ASSUME IInv, NEW k \in Kids, NEW p \in {"l2", "decr"}, parent = "fork", k \notin forked,
         count' = count + 1, forked' = forked \cup {k},
         kid' = [kid EXCEPT ![k] = [Idle EXCEPT !.pc = p]],
         parent' \in {"fork", "wait", "finish"}, parent' # "fork" => forked' = Kids,
         UNCHANGED <<prog, line, limits, claims, l1, l2, step, result, stats, crashes, rounds>>,
         prog = "s" => parent' # "finish" /\ p = "l2"
  PROVE  IInv'
<1> DEFINE c == [Idle EXCEPT !.pc = p]
<1>1. kid \in [Kids -> KidState] /\ kid[k] = Idle /\ Len(limits) \in Nat
  BY DEF IInv, Types, LocksOK
<1>2. c \in KidState /\ c.pc = p /\ c.tmp = 0 /\ c.reads = 0 /\ c.highest = 0
  <2>1. p \in Pcs
    BY DEF Pcs
  <2> QED BY <2>1, IdleType DEF KidState
<1>3. kid' = [kid EXCEPT ![k] = c]
  OBVIOUS
<1> HIDE DEF c
<1>4. kid'[k] = c /\ (\A j \in Kids : j # k => kid'[j] = kid[j]) /\ kid' \in [Kids -> KidState]
  BY <1>1, <1>2, <1>3
<1>5. Types'
  BY <1>4, SMTT(40) DEF IInv, Types
<1>6. LocksOK'
  <2>1. Uncounted' = Uncounted \cup {k} /\ k \notin Uncounted
    BY <1>1, <1>2, <1>4, IdleType DEF Uncounted
  <2>2. Cardinality(Uncounted') = Cardinality(Uncounted) + 1
    BY <2>1, UncountedFinite, FS_AddElement
  <2>3. prog = "s" => count' = Cardinality(Uncounted')
    BY <2>2 DEF IInv, LocksOK
  <2>4. \A j \in Kids : j \in forked' <=> kid'[j].pc # "none"
    BY <1>2, <1>4 DEF IInv, LocksOK
  <2>5. \A j \in Kids \ forked' : kid'[j] = Idle
    BY <1>4 DEF IInv, LocksOK
  <2>6. prog = "s" => /\ \A j \in Kids : j \in l2 <=> kid'[j].pc \notin {"none", "l2", "dead"}
                      /\ Parent \notin l2
    BY <1>1, <1>2, <1>4, IdleType DEF IInv, LocksOK
  <2>7. prog = "st" => l2 = {}
    BY DEF IInv, LocksOK
  <2> QED BY <2>3, <2>4, <2>5, <2>6, <2>7 DEF LocksOK
<1>7. StepOK' /\ ResultOK'
  BY DEF IInv, StepOK, ResultOK
<1>8. \A n : IsKnown(n)' = IsKnown(n)
  BY DEF IsKnown
<1>9. \A t : FirstOf(t)' = FirstOf(t)
  BY DEF FirstOf
<1>10. ASSUME NEW j \in Kids PROVE KidOK(j)'
  <2>1. CASE j = k
    <3>1. kid'[j].pc \in {"l2", "decr"} /\ kid'[j].tmp = 0
      BY <2>1, <1>2, <1>4
    <3>2. BlockOK(kid[j])'
      BY <3>1, <1>1 DEF BlockOK, Works, Ends
    <3> QED BY <3>1, <3>2 DEF KidOK
  <2>2. CASE j # k
    <3>1. kid'[j] = kid[j] /\ KidOK(j)
      BY <2>2, <1>4 DEF IInv
    <3>2. kid[j].pc \in {"walk", "known"} => WalkOK(kid[j])'
      BY <3>1, <1>8 DEF KidOK, WalkOK
    <3>3. kid[j].pc \in {"max", "maxset", "store"} => StoreOK(kid[j])'
      BY <3>1, <1>8 DEF KidOK, StoreOK
    <3>4. BlockOK(kid[j])'
      BY <3>1, <1>9 DEF KidOK, BlockOK
    <3> QED BY <3>1, <3>2, <3>3, <3>4 DEF KidOK
  <2> QED BY <2>1, <2>2
<1>11. BlocksOK'
  <2>1. ASSUME NEW t, BlockDone(t) PROVE BlockDone(t)'
    <3>1. CASE \A n \in FirstOf(t)..limits[t] : IsKnown(n)
      BY <3>1, <1>8, <1>9 DEF BlockDone
    <3>2. CASE \E j \in Kids : /\ kid[j].pc \in Works /\ kid[j].tmp = t
                               /\ \A n \in FirstOf(t)..(kid[j].current - 1) : IsKnown(n)
      <4>1. PICK j \in Kids : /\ kid[j].pc \in Works /\ kid[j].tmp = t
                              /\ \A n \in FirstOf(t)..(kid[j].current - 1) : IsKnown(n)
        BY <3>2
      <4>2. j # k
        BY <4>1, <1>1, IdleType DEF Works
      <4> QED BY <4>1, <4>2, <1>4, <1>8, <1>9 DEF BlockDone
    <3> QED BY <2>1, <3>1, <3>2 DEF BlockDone
  <2> QED BY <2>1 DEF IInv, BlocksOK
<1>12. StatsOK'
  <2> SUFFICES ASSUME prog = "st", crashes = 0
               PROVE  /\ stats.reads + Total(Pending') = rounds
                      /\ line <= Len(Lines) => stats.highest \in Heights(Lines[line])
                      /\ \A j \in Kids : HeightOK(kid[j])'
                      /\ line = 1 => \A n \in Nat \ {0} :
                           IntToStr[n] \in DOMAIN step => \A x \in Passed(n) : Recorded(x)'
    <3>1. \A v : Total(v)' = Total(v)
      BY DEF Total
    <3> QED BY <3>1 DEF StatsOK
  <2>1. /\ stats.reads + Total(Pending) = rounds
        /\ line <= Len(Lines) => stats.highest \in Heights(Lines[line])
        /\ \A j \in Kids : HeightOK(kid[j])
        /\ line = 1 => \A n \in Nat \ {0} :
             IntToStr[n] \in DOMAIN step => \A x \in Passed(n) : Recorded(x)
    BY DEF IInv, StatsOK
  <2>2. Pending' = Pending
    <3>1. \A j \in Kids : Pending'[j] = Pending[j]
      <4> TAKE j \in Kids
      <4>1. CASE j = k
        BY <4>1, <1>1, <1>2, <1>4, IdleType DEF Pending
      <4>2. CASE j # k
        BY <4>2, <1>4 DEF Pending
      <4> QED BY <4>1, <4>2
    <3>2. DOMAIN Pending' = Kids /\ DOMAIN Pending = Kids
      BY DEF Pending
    <3> QED BY <3>1, <3>2 DEF Pending
  <2>3. \A x : Recorded(x) => Recorded(x)'
    <3> SUFFICES ASSUME NEW x, Recorded(x) PROVE Recorded(x)'
      OBVIOUS
    <3>1. CASE x <= stats.highest
      BY <3>1 DEF Recorded
    <3>2. CASE \E j \in Kids : kid[j].pc # "dead" /\ x <= kid[j].highest
      <4>1. PICK j \in Kids : kid[j].pc # "dead" /\ x <= kid[j].highest
        BY <3>2
      <4>2. kid'[j].pc # "dead" /\ x <= kid'[j].highest
        <5>1. CASE j = k
          BY <5>1, <4>1, <1>1, <1>2, <1>4, IdleType
        <5>2. CASE j # k
          BY <5>2, <4>1, <1>4
        <5> QED BY <5>1, <5>2
      <4> QED BY <4>2 DEF Recorded
    <3> QED BY <3>1, <3>2 DEF Recorded
  <2>4. ASSUME NEW j \in Kids PROVE HeightOK(kid[j])'
    <3>1. CASE j = k
      <4>1. kid'[j].pc \in {"l2", "decr"} /\ kid'[j].highest = 0
        BY <3>1, <1>2, <1>4
      <4> QED BY <4>1, ZeroHeight DEF HeightOK
    <3>2. CASE j # k
      BY <3>2, <2>1, <2>3, <1>4 DEF HeightOK
    <3> QED BY <3>1, <3>2
  <2> QED BY <2>1, <2>2, <2>3, <2>4
<1> QED BY <1>5, <1>6, <1>7, <1>10, <1>11, <1>12 DEF IInv

LEMMA ForkInv ==
  ASSUME IInv, NEW k \in Kids, Fork(k) \/ Create_st(k)
  PROVE  IInv'
<1>1. CASE Fork(k)
  <2>1. /\ prog = "s" /\ parent = "fork" /\ k \notin forked /\ count' = count + 1
        /\ forked' = forked \cup {k} /\ kid' = [kid EXCEPT ![k] = [Idle EXCEPT !.pc = "l2"]]
        /\ parent' = IF forked' = Kids THEN "wait" ELSE "fork"
        /\ UNCHANGED <<prog, line, limits, claims, l1, l2, step, result, stats, crashes, rounds>>
    BY <1>1 DEF Fork
  <2>2. parent' \in {"fork", "wait", "finish"} /\ (parent' # "fork" => forked' = Kids) /\ parent' # "finish"
    BY <2>1
  <2> QED BY <2>1, <2>2, ForkMove
<1>2. CASE Create_st(k)
  <2>1. /\ prog = "st" /\ parent = "fork" /\ k \notin forked /\ count' = count + 1
        /\ forked' = forked \cup {k} /\ kid' = [kid EXCEPT ![k] = [Idle EXCEPT !.pc = "decr"]]
        /\ parent' = IF forked' = Kids THEN "finish" ELSE "fork"
        /\ UNCHANGED <<prog, line, limits, claims, l1, l2, step, result, stats, crashes, rounds>>
    BY <1>2 DEF Create_st
  <2>2. parent' \in {"fork", "wait", "finish"} /\ (parent' # "fork" => forked' = Kids)
    BY <2>1
  <2> QED BY <2>1, <2>2, ForkMove
<1> QED BY <1>1, <1>2

\* main: a step of the parent that only waits and locks.
LEMMA WaitMove ==
  ASSUME IInv, parent # "read", parent' \in {"finish", "report"}, LocksOK',
         l1' \subseteq Kids \cup {Parent}, l2' \subseteq Kids \cup {Parent},
         UNCHANGED <<prog, line, forked, limits, claims, count, kid, step, result, stats, crashes,
                     rounds>>
  PROVE  IInv'
<1>1. Types'
  BY DEF IInv, Types
<1>2. StepOK' /\ ResultOK'
  BY DEF IInv, StepOK, ResultOK
<1>3. \A n : IsKnown(n)' = IsKnown(n)
  BY DEF IsKnown
<1>4. \A t : FirstOf(t)' = FirstOf(t)
  BY DEF FirstOf
<1>5. ASSUME NEW j \in Kids PROVE KidOK(j)'
  <2>1. KidOK(j)
    BY DEF IInv
  <2>2. kid[j].pc \in {"walk", "known"} => WalkOK(kid[j])'
    BY <2>1, <1>3 DEF KidOK, WalkOK
  <2>3. kid[j].pc \in {"max", "maxset", "store"} => StoreOK(kid[j])'
    BY <2>1, <1>3 DEF KidOK, StoreOK
  <2>4. BlockOK(kid[j])'
    BY <2>1, <1>4 DEF KidOK, BlockOK
  <2> QED BY <2>2, <2>3, <2>4 DEF KidOK
<1>6. BlocksOK'
  <2>1. \A t : BlockDone(t)' = BlockDone(t)
    BY <1>3, <1>4 DEF BlockDone
  <2> QED BY <2>1 DEF IInv, BlocksOK
<1>7. StatsOK'
  <2>1. \A x : Recorded(x)' = Recorded(x)
    BY DEF Recorded
  <2>2. \A k \in Kids : HeightOK(kid[k])' = HeightOK(kid[k])
    BY <2>1 DEF HeightOK
  <2>3. Total(Pending)' = Total(Pending)
    BY DEF Total, Pending
  <2> QED BY <2>1, <2>2, <2>3 DEF IInv, StatsOK
<1> QED BY <1>1, <1>2, <1>5, <1>6, <1>7 DEF IInv

LEMMA ReleaseInv ==
  ASSUME IInv, Release
  PROVE  IInv'
<1>1. prog = "s" /\ parent = "wait" /\ count = 0 /\ parent' = "finish"
  BY DEF Release
<1>2. Uncounted = {}
  <2>1. Cardinality(Uncounted) = 0
    BY <1>1 DEF IInv, LocksOK
  <2> QED BY <2>1, UncountedFinite, FS_EmptySet
<1>3. Uncounted' = {}
  BY <1>2 DEF Release, Uncounted
<1>4. LocksOK'
  BY <1>1, <1>2, <1>3 DEF Release, IInv, LocksOK
<1>5. l1' \subseteq Kids \cup {Parent} /\ l2' \subseteq Kids \cup {Parent}
  BY DEF Release, IInv, Types
<1> QED BY <1>1, <1>4, <1>5, WaitMove DEF Release

LEMMA ReportInv ==
  ASSUME IInv, Report
  PROVE  IInv'
<1>1. prog = "s" /\ parent = "finish" /\ l2 = {} /\ parent' = "report" /\ l2' = {Parent}
  BY DEF Report
<1>2. Uncounted = {} /\ forked = Kids
  BY <1>1 DEF IInv, LocksOK
<1>3. \A k \in Kids : kid[k].pc = "dead"
  <2> TAKE k \in Kids
  <2>1. kid[k].pc \in {"none", "l2", "dead"} /\ kid[k].pc # "none"
    BY <1>1, <1>2 DEF IInv, LocksOK
  <2>2. kid[k].pc # "l2"
    BY <1>2 DEF Uncounted
  <2> QED BY <2>1, <2>2
<1>4. Uncounted' = {}
  BY <1>2 DEF Report, Uncounted
<1>5. LocksOK'
  BY <1>1, <1>2, <1>3, <1>4, ConstAssumption DEF Report, IInv, LocksOK
<1>6. l1' \subseteq Kids \cup {Parent} /\ l2' \subseteq Kids \cup {Parent}
  BY <1>1 DEF Report, IInv, Types
<1> QED BY <1>1, <1>5, <1>6, WaitMove DEF Report

LEMMA JoinInv ==
  ASSUME IInv, Join_st
  PROVE  IInv'
<1>1. prog = "st" /\ parent = "finish" /\ parent' = "report" /\ \A k \in Kids : kid[k].pc = "dead"
  BY DEF Join_st
<1>2. LocksOK'
  BY <1>1 DEF Join_st, IInv, LocksOK
<1>3. l1' \subseteq Kids \cup {Parent} /\ l2' \subseteq Kids \cup {Parent}
  BY DEF Join_st, IInv, Types
<1> QED BY <1>1, <1>2, <1>3, WaitMove DEF Join_st

\* The children are gone: after the end of a line, and after a kill.
LEMMA ResetMove ==
  ASSUME IInv, parent # "read", parent' = "read", forked' = {}, kid' = [k \in Kids |-> Idle], l2' = {},
         l1' \subseteq Kids \cup {Parent}, count' \in Int, rounds' \in Nat, crashes' \in Nat,
         UNCHANGED <<prog, limits, claims, step>>,
         \/ line' = line + 1 /\ result' = 0 /\ stats' = NoStats
         \/ line' = line /\ result' = result /\ stats' = stats /\ crashes' # 0
  PROVE  IInv'
<1>1. line \in 1..Len(Lines) /\ Len(Lines) \in Nat /\ line' \in 1..(Len(Lines) + 1)
  <2>1. Len(Lines) \in Nat
    BY ConstAssumption
  <2>2. line \in 1..(Len(Lines) + 1) /\ line <= Len(Lines)
    BY DEF IInv, Types
  <2>3. line' = line \/ line' = line + 1
    OBVIOUS
  <2> QED BY <2>1, <2>2, <2>3
<1>2. stats' \in Counts /\ result' \in Nat \cup {Undef}
  BY DEF IInv, Types, NoStats, Counts
<1>3. Types'
  BY <1>1, <1>2, IdleType DEF IInv, Types
<1>4. LocksOK'
  <2>1. \A k \in Kids : kid'[k] = Idle
    OBVIOUS
  <2> QED BY <2>1, IdleType DEF IInv, LocksOK
<1>5. \A k \in Kids : KidOK(k)'
  <2>1. Len(limits') \in Nat
    BY <1>3 DEF Types
  <2> QED BY <2>1, IdleType DEF KidOK, BlockOK, Works, Ends
<1>6. BlocksOK'
  BY DEF BlocksOK
<1>7. CASE line' = line + 1 /\ result' = 0 /\ stats' = NoStats
  <2>1. line' # 1 /\ Numbers(result') = 0 /\ result' # Undef
    BY <1>1, <1>7 DEF Numbers, Undef
  <2>2. StepOK'
    BY <2>1 DEF IInv, StepOK
  <2>3. ResultOK'
    <3>1. line' <= Len(Lines) => MaxSteps(Lines[line']) \in Nat
      <4>1. line' <= Len(Lines) => line' \in 1..Len(Lines)
        BY <1>1
      <4> QED BY <4>1, MaxStepsIs
    <3>2. line' <= Len(Lines) => 0 <= MaxSteps(Lines[line'])
      BY <3>1
    <3> QED BY <3>2, <2>1 DEF ResultOK
  <2>4. \A k \in Kids : HeightOK(kid[k])'
    BY <2>1, IdleType, ZeroHeight DEF HeightOK
  <2>5. stats'.highest = 0
    BY <1>7 DEF NoStats
  <2>6. StatsOK'
    BY <2>1, <2>4, <2>5, <1>7, ZeroHeight DEF StatsOK
  <2> QED BY <2>2, <2>3, <2>6, <1>3, <1>4, <1>5, <1>6 DEF IInv
<1>8. CASE line' = line /\ result' = result /\ stats' = stats /\ crashes' # 0
  <2>1. StepOK' /\ ResultOK'
    BY <1>8 DEF IInv, StepOK, ResultOK
  <2>2. StatsOK'
    BY <1>8 DEF StatsOK
  <2> QED BY <2>1, <2>2, <1>3, <1>4, <1>5, <1>6 DEF IInv
<1> QED BY <1>7, <1>8

LEMMA ResetInv ==
  ASSUME IInv, EndLine \/ EndLine_st \/ Crash
  PROVE  IInv'
<1>1. /\ l1 \subseteq Kids \cup {Parent} /\ crashes \in Nat /\ rounds \in Nat /\ count \in Int
      /\ (prog = "st" => l2 = {})
  BY DEF IInv, Types, LocksOK
<1>2. CASE EndLine
  BY <1>1, <1>2, ResetMove DEF EndLine, Dbinit
<1>3. CASE EndLine_st
  BY <1>1, <1>3, ResetMove DEF EndLine_st, Dbinit_st
<1>4. CASE Crash
  <2>1. crashes + 1 \in Nat /\ crashes + 1 # 0
    BY <1>1
  <2> QED BY <2>1, <1>1, <1>4, ResetMove DEF Crash
<1> QED BY <1>2, <1>3, <1>4

LEMMA InvStep == IInv /\ [Next]_vars => IInv'
<1> SUFFICES ASSUME IInv, [Next]_vars PROVE IInv'
  OBVIOUS
<1>1. CASE ParentStep
  BY <1>1, StartInv, ReleaseInv, ReportInv, ResetInv, ForkInv, JoinInv DEF ParentStep
<1>2. CASE \E k \in Kids : KidStep(k)
  BY <1>2, KidStepInv
<1>3. CASE Crash
  BY <1>3, ResetInv
<1>4. CASE UNCHANGED vars
  <2>1. Types' = Types /\ LocksOK' = LocksOK /\ StepOK' = StepOK
    BY <1>4 DEF vars, Types, LocksOK, Uncounted, StepOK
  <2>2. \A k \in Kids : KidOK(k)' = KidOK(k)
    BY <1>4 DEF vars, KidOK, WalkOK, StoreOK, BlockOK, IsKnown, FirstOf
  <2>3. BlocksOK' = BlocksOK /\ ResultOK' = ResultOK
    BY <1>4 DEF vars, BlocksOK, BlockDone, IsKnown, FirstOf, ResultOK
  <2>4. \A x : Recorded(x)' = Recorded(x)
    BY <1>4 DEF vars, Recorded
  <2>5. \A k \in Kids : HeightOK(kid[k])' = HeightOK(kid[k])
    BY <2>4, <1>4 DEF vars, HeightOK
  <2>6. Total(Pending)' = Total(Pending)
    BY <1>4 DEF vars, Total, Pending
  <2>7. StatsOK' = StatsOK
    BY <2>4, <2>5, <2>6, <1>4 DEF vars, StatsOK
  <2> QED BY <2>1, <2>2, <2>3, <2>7 DEF IInv
<1> QED BY <1>1, <1>2, <1>3, <1>4 DEF Next, Eof

-----------------------------------------------------------------------------
(* The theorems *)

\* The inductive invariant: locks and ^count, what each child knows of its path
\* and its block, ^step, ^result and the statistics, at every moment of both
\* programs, whatever the interleaving of the children and the kills.
THEOREM Threeen1fInvariant == Spec => []IInv
<1>1. Init => IInv
  BY InvInit
<1>2. IInv /\ [Next]_vars => IInv'
  BY InvStep
<1> QED BY <1>1, <1>2, PTL DEF Spec

\* main of both programs reads the results only when all children of the line
\* are past their transactions: lock l2 and ^count, or the joins, wait for them.
THEOREM ParentWaits == Spec => []ReportAfterAll
<1>1. IInv => ReportAfterAll
  <2> SUFFICES ASSUME IInv, parent = "report"
               PROVE  forked = Kids /\ \A k \in Kids : kid[k].pc = "dead" /\ k \notin l2
    BY DEF ReportAfterAll
  <2>1. forked = Kids /\ \A k \in Kids : kid[k].pc = "dead"
    BY DEF IInv, LocksOK
  <2>2. prog \in {"s", "st"}
    BY DEF IInv, Types
  <2>3. \A k \in Kids : k \notin l2
    BY <2>1, <2>2 DEF IInv, LocksOK
  <2> QED BY <2>1, <2>3
<1> QED BY <1>1, Threeen1fInvariant, PTL

\* Every count of steps that dostep has stored in ^step is right, whoever
\* stored it and whoever's count cut its path short.
THEOREM StoredStepsRight == Spec => []StepsRight
<1>1. IInv => StepsRight
  <2> SUFFICES ASSUME IInv PROVE StepsRight
    OBVIOUS
  <2>1. TypeOK
    <3>1. \A k \in Kids : kid[k] \in KidState
      BY DEF IInv, Types
    <3>2. \A k \in Kids : kid[k].pc \in Pcs /\ kid[k].path \in Seq(Nat) /\ kid[k].i \in Nat
      BY <3>1 DEF KidState
    <3> QED BY <3>2 DEF IInv, Types, TypeOK, Counts, Pcs, Works, Ends
  <2>2. ASSUME NEW w \in DOMAIN step PROVE StrToInt(step[w]) = Steps(StrToInt(w))
    <3>1. PICK n \in Nat \ {0} : w = IntToStr[n] /\ Reaches(n) /\ step[w] = IntToStr[Steps(n)]
      BY DEF IInv, StepOK
    <3>2. Steps(n) \in Nat
      BY <3>1, StepsFirst, ConstAssumption
    <3>3. StrToInt(w) = n /\ StrToInt(step[w]) = Steps(n)
      BY <3>1, <3>2, WordsRight
    <3> QED BY <3>3
  <2> QED BY <2>1, <2>2 DEF StepsRight
<1> QED BY <1>1, Threeen1fInvariant, PTL

\* When the parent reports, every number of the line is known.
LEMMA AllKnown ==
  ASSUME IInv, parent = "report"
  PROVE  line \in 1..Len(Lines) /\ \A n \in Ints(Lines[line]) : IsKnown(n)
<1>1. line \in 1..Len(Lines) /\ limits = Limits(Lines[line]) /\ Len(limits) \in Nat
  BY ConstAssumption DEF IInv, Types, BlocksOK
<1>2. \A k \in Kids : kid[k].pc = "dead"
  BY DEF IInv, LocksOK
<1>3. PICK k \in Kids : TRUE
  BY ConstAssumption
<1>4. \A t \in 1..Len(limits) : claims[t] # 0
  <2>1. BlockOK(kid[k]) /\ kid[k].pc \in Ends
    BY <1>2 DEF IInv, KidOK, Ends
  <2> QED BY <2>1 DEF BlockOK
<1>5. \A t \in 1..Len(limits) : \A n \in FirstOf(t)..limits[t] : IsKnown(n)
  <2> TAKE t \in 1..Len(limits)
  <2>1. BlockDone(t)
    BY <1>4 DEF IInv, BlocksOK
  <2>2. \A j \in Kids : kid[j].pc \notin Works
    BY <1>2 DEF Works
  <2> QED BY <2>1, <2>2 DEF BlockDone
<1>6. ASSUME NEW n \in Ints(Lines[line]) PROVE IsKnown(n)
  <2>1. PICK t \in 1..Len(limits) : n \in First(line, t)..limits[t]
    BY <1>1, LimitsCover
  <2>2. FirstOf(t) = First(line, t)
    BY <1>1 DEF FirstOf, First
  <2> QED BY <2>1, <2>2, <1>5
<1> QED BY <1>1, <1>6

\* tp_setmaximum: the maximum reported for the first line is the maximum over
\* its range; for later lines it is never too large.
THEOREM MaximumRight == Spec => []ResultRight
<1>1. IInv => ResultRight
  <2> SUFFICES ASSUME IInv, parent = "report" PROVE ResultRight
    BY DEF ResultRight
  <2> DEFINE L == Lines[line]
  <2>1. line \in 1..Len(Lines) /\ \A n \in Ints(L) : IsKnown(n)
    BY AllKnown
  <2>2. Numbers(result) \in Nat /\ Numbers(result) <= MaxSteps(L)
    BY <2>1, NumbersType, ConstAssumption DEF IInv, ResultOK
  <2>3. /\ \A c \in Ints(L) : Reaches(c) /\ Steps(c) \in Nat
        /\ MaxSteps(L) \in Nat
    BY <2>1, MaxStepsIs
  <2>4. PICK m \in Ints(L) : MaxSteps(L) = Steps(m)
    BY <2>1, MaxStepsIs
  <2>5. ASSUME line = 1, NEW c \in Ints(L) PROVE Steps(c) <= Numbers(result)
    <3>1. CASE c = 1
      BY <3>1, <2>2, StepsOne
    <3>2. CASE IntToStr[c] \in DOMAIN step
      <4>1. c \in Nat
        BY <2>3, <2>5 DEF Reaches
      <4> QED BY <4>1, <3>2, <2>5, StepKnows DEF IInv
    <3> QED BY <3>1, <3>2, <2>1, <2>5 DEF IsKnown
  <2>6. ASSUME line = 1 PROVE result # Undef /\ result = MaxSteps(L)
    <3>1. L.last \in Ints(L) /\ L.last # 1
      <4>1. L.last > 1
        BY <2>1, <2>6, RangeAssumption, ConstAssumption
      <4>2. L.first \in Nat /\ L.last \in Nat /\ L.first <= L.last
        BY <2>1, LineType
      <4> QED BY <4>1, <4>2 DEF Ints
    <3>2. Steps(L.last) >= 1
      <4>1. Steps(L.last) \in Nat /\ Steps(NextNumber(L.last)) \in Nat
            /\ Steps(L.last) = Steps(NextNumber(L.last)) + 1
        BY <3>1, <2>3, StepsNext
      <4> QED BY <4>1
    <3>3. Numbers(result) # 0
      BY <3>1, <3>2, <2>2, <2>3, <2>5, <2>6
    <3>4. result # Undef /\ result = Numbers(result)
      BY <3>3 DEF Numbers
    <3>5. MaxSteps(L) <= Numbers(result)
      BY <2>4, <2>5, <2>6
    <3> QED BY <3>4, <3>5, <2>2, <2>3
  <2>7. result # Undef
    <3>1. line = 1 \/ line > 1
      BY <2>1
    <3> QED BY <3>1, <2>6 DEF IInv, ResultOK
  <2>8. result <= MaxSteps(L)
    BY <2>2, <2>7 DEF Numbers
  <2> QED BY <2>6, <2>7, <2>8 DEF ResultRight
<1> QED BY <1>1, Threeen1fInvariant, PTL

\* tp_gvstatsincr of the threaded version: ^reads counts every round of dostep
\* once, and ^highest of the first line is the highest number passed.
THEOREM StatisticsRight == Spec => []StatsRight
<1>1. IInv => StatsRight
  <2> SUFFICES ASSUME IInv, parent = "report", prog = "st", crashes = 0
               PROVE  stats.reads = rounds /\ (line = 1 => stats.highest = Highest(Lines[line]))
    BY DEF StatsRight
  <2> DEFINE L == Lines[line]
  <2>1. line \in 1..Len(Lines) /\ \A n \in Ints(L) : IsKnown(n)
    BY AllKnown
  <2>2. \A k \in Kids : kid[k].pc = "dead"
    BY DEF IInv, LocksOK
  <2>3. stats.reads = rounds
    <3>1. stats.reads + Total(Pending) = rounds
      BY DEF IInv, StatsOK
    <3>2. Pending \in [Kids -> Nat] /\ \A k \in Kids : Pending[k] = 0
      BY <2>2 DEF Pending
    <3>3. Total(Pending) = 0 /\ stats.reads \in Nat
      BY <3>2, TotalZero DEF IInv, Types, Counts
    <3> QED BY <3>1, <3>3
  <2>4. ASSUME line = 1 PROVE stats.highest = Highest(L)
    <3> DEFINE H == Heights(L)
    <3>1. stats.highest \in H
      BY <2>1, ConstAssumption DEF IInv, StatsOK
    <3>2. H \subseteq Nat
      <4>1. \A c \in Ints(L) : Passed(c) \subseteq Nat
        BY <2>1, MaxStepsIs, PassedType
      <4> QED BY <4>1 DEF Heights
    <3>3. ASSUME NEW x \in H PROVE x <= stats.highest
      <4>1. CASE x = 0
        BY <4>1, <3>1, <3>2
      <4>2. CASE x # 0
        <5>1. PICK c \in Ints(L) : x \in Passed(c)
          BY <4>2, <3>3 DEF Heights
        <5>2. c # 1
          BY <5>1, StepsOne
        <5>3. IntToStr[c] \in DOMAIN step /\ c \in Nat \ {0}
          BY <5>2, <2>1, MaxStepsIs DEF IsKnown, Reaches
        <5>4. Recorded(x)
          BY <5>1, <5>3, <2>4 DEF IInv, StatsOK
        <5> QED BY <5>4, <2>2 DEF Recorded
      <4> QED BY <4>1, <4>2
    <3>4. Highest(L) = Max(H)
      BY DEF Highest, Heights, Passed
    <3> HIDE DEF H
    <3>5. Max(H) \in H /\ \A y \in H : y <= Max(H)
      BY <3>1, <3>2, <3>3 DEF Max
    <3>6. Max(H) <= stats.highest /\ stats.highest <= Max(H) /\ Max(H) \in Nat /\ stats.highest \in Nat
      BY <3>1, <3>2, <3>3, <3>5
    <3> QED BY <3>4, <3>6
  <2> QED BY <2>3, <2>4
<1> QED BY <1>1, Threeen1fInvariant, PTL

=============================================================================
