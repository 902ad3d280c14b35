-------------------------- MODULE FillHelpers_proofs --------------------------
(***************************************************************************)
(* Theorems about what surrounds the fill.                                 *)
(*                                                                         *)
(* ImptpIndex, for every prime, every primitive root and every number of   *)
(* jobs from 2: the index of iteration n of job v is                       *)
(* root^((v-1)+(n-1)*jobcnt), computed in whichever of the three ways the  *)
(* code computes it, and two iterations never share one.                   *)
(*                                                                         *)
(* PauseImptp, for any set of jobs and any number of pauses, with timeouts *)
(* at any time: no job updates between a pause that did not give up and    *)
(* resume unless a resume has given up before, and no job reads a killed   *)
(* flag unless a call has given up.                                        *)
(*                                                                         *)
(* JobWait, for any number of children, polls and online rollbacks: a      *)
(* wait^job that returns without a message leaves no child behind, and it  *)
(* fails only when a rollback hit it or the parent.                        *)
(***************************************************************************)
EXTENDS ImptpIndex, PauseImptp, JobWait, FiniteSetTheorems, WellFoundedInduction,
        NaturalsInduction, TLAPS

-----------------------------------------------------------------------------
(* ImptpIndex: the indexes of the fill                                       *)

-----------------------------------------------------------------------------
(* Numbers *)

\* A non-empty set of naturals has a least element: the induction principle of
\* this module, as a least counterexample.
LEMMA LeastNat ==
  ASSUME NEW T, T \subseteq Nat, T # {}
  PROVE  \E x \in T : \A y \in T : x <= y
<1> DEFINE R == OpToRel(<, Nat)
<1>1. IsWellFoundedOn(R, Nat)
  BY NatLessThanWellFounded
<1>2. \A x, y \in Nat : <<x, y>> \in R <=> x < y
  BY DEF OpToRel
<1> HIDE DEF R
<1>3. PICK x \in T : \A y \in T : ~(<<y, x>> \in R)
  BY <1>1, WFMin
<1>4. \A y \in T : ~ (y < x)
  BY <1>2, <1>3
<1>5. QED BY <1>4

\* The remainder is the one number below p that differs by a multiple of p.
LEMMA ModUnique ==
  ASSUME NEW p \in Nat \ {0}, NEW a \in Nat, NEW q \in Nat, NEW r \in 0 .. p - 1, a = q * p + r
  PROVE  a % p = r
<1>1. a % p \in 0 .. p - 1 /\ a = p * (a \div p) + (a % p) /\ a \div p \in Nat
  OBVIOUS
<1> DEFINE d == a \div p
           s == a % p
<1> HIDE DEF d, s
<1>2. s \in 0 .. p - 1 /\ d \in Nat /\ p * d + s = q * p + r
  BY <1>1 DEF d, s
<1>3. CASE d < q
  <2>1. p * (q - d) >= p
    BY <1>3, <1>2
  <2>2. QED BY <2>1, <1>2
<1>4. CASE d > q
  <2>1. p * (d - q) >= p
    BY <1>4, <1>2
  <2>2. QED BY <2>1, <1>2
<1>5. CASE d = q
  BY <1>5, <1>2 DEF s
<1>6. QED BY <1>2, <1>3, <1>4, <1>5

\* A factor may be reduced before or after the multiplication.
LEMMA ModTimes ==
  ASSUME NEW p \in Nat \ {0}, NEW x \in Nat, NEW y \in Nat
  PROVE  (x * (y % p)) % p = (x * y) % p
<1> DEFINE d == y \div p
           s == y % p
           z == x * s
           e == z \div p
           t == z % p
<1>1. s \in 0 .. p - 1 /\ y = p * d + s /\ d \in Nat
  OBVIOUS
<1> HIDE DEF d, s
<1>2. z \in Nat
  BY <1>1
<1>3. t \in 0 .. p - 1 /\ z = p * e + t /\ e \in Nat
  <2> HIDE DEF z
  <2> QED BY <1>2, Z3
<1> HIDE DEF e, t
<1>4. x * y = (x * d + e) * p + t
  <2>1. x * y = x * (p * d) + x * s
    BY <1>1
  <2>2. x * (p * d) = (x * d) * p
    BY <1>1
  <2>3. (x * d + e) * p = (x * d) * p + p * e
    BY <1>1, <1>3
  <2>4. x * d \in Nat /\ (x * d) * p \in Nat /\ p * e \in Nat
    BY <1>1, <1>3
  <2> QED BY <2>1, <2>2, <2>3, <2>4, <1>3
<1>5. x * y \in Nat /\ x * d + e \in Nat
  BY <1>1, <1>3
<1>6. (x * y) % p = t
  BY <1>3, <1>4, <1>5, ModUnique
<1> QED BY <1>6 DEF t, z, s

-----------------------------------------------------------------------------
(* The multiplication loop *)

\* f holds the values of the loop's variable after 0, 1, ... n rounds.
Rounds(f, a, m, n) == f = [J \in 0 .. n |-> IF J = 0 THEN a ELSE (f[J - 1] * m) % prime]

\* The loop has values for every number of rounds.
LEMMA RoundsExist ==
  ASSUME NEW a \in Nat, NEW m \in Nat, NEW n \in Nat
  PROVE  \E f : Rounds(f, a, m, n)
<1> DEFINE T == {k \in Nat : ~ \E f : Rounds(f, a, m, k)}
<1>1. SUFFICES ASSUME T # {} PROVE FALSE
  OBVIOUS
<1>2. PICK k \in T : \A y \in T : k <= y
  BY <1>1, LeastNat
<1>3. CASE k = 0
  <2> DEFINE g == [J \in 0 .. 0 |-> a]
  <2>1. Rounds(g, a, m, 0)
    BY DEF Rounds
  <2> QED BY <1>2, <1>3, <2>1
<1>4. CASE k # 0
  <2>1. k \in Nat /\ k - 1 \in Nat /\ k - 1 \notin T
    BY <1>2, <1>4
  <2>2. PICK f : Rounds(f, a, m, k - 1)
    BY <2>1
  <2> DEFINE g == [J \in 0 .. k |-> IF J <= k - 1 THEN f[J] ELSE (f[k - 1] * m) % prime]
  <2>3. \A J \in 0 .. k - 1 : f[J] = IF J = 0 THEN a ELSE (f[J - 1] * m) % prime
    BY <2>1, <2>2 DEF Rounds
  <2>4. \A J \in 0 .. k : g[J] = IF J = 0 THEN a ELSE (g[J - 1] * m) % prime
    <3> SUFFICES ASSUME NEW J \in 0 .. k
                 PROVE  g[J] = IF J = 0 THEN a ELSE (g[J - 1] * m) % prime
      OBVIOUS
    <3>1. CASE J = 0
      BY <3>1, <2>1, <2>3
    <3>2. CASE J \in 1 .. k - 1
      <4>1. g[J] = f[J] /\ g[J - 1] = f[J - 1]
        BY <3>2, <2>1
      <4> QED BY <4>1, <3>2, <2>1, <2>3
    <3>3. CASE J = k
      <4>1. g[J] = (f[k - 1] * m) % prime /\ g[J - 1] = f[k - 1]
        BY <3>3, <2>1
      <4> QED BY <4>1, <3>3, <2>1, <1>4
    <3> QED BY <3>1, <3>2, <3>3, <2>1
  <2>5. Rounds(g, a, m, k)
    BY <2>4 DEF Rounds
  <2> QED BY <1>2, <2>5
<1> QED BY <1>3, <1>4

\* They do not depend on how many rounds follow.
LEMMA RoundsAgree ==
  ASSUME NEW a \in Nat, NEW m \in Nat, NEW n \in Nat, NEW k \in Nat, n <= k,
         NEW f, NEW g, Rounds(f, a, m, n), Rounds(g, a, m, k)
  PROVE  \A J \in 0 .. n : f[J] = g[J]
<1> DEFINE T == {J \in 0 .. n : f[J] # g[J]}
<1>1. SUFFICES ASSUME T # {} PROVE FALSE
  OBVIOUS
<1>t. T \subseteq Nat
  OBVIOUS
<1>2. PICK J \in T : \A y \in T : J <= y
  BY <1>1, <1>t, LeastNat
<1>f. \A c \in 0 .. n : f[c] = IF c = 0 THEN a ELSE (f[c - 1] * m) % prime
  BY DEF Rounds
<1>g. \A c \in 0 .. k : g[c] = IF c = 0 THEN a ELSE (g[c - 1] * m) % prime
  BY DEF Rounds
<1>3. f[J] = (IF J = 0 THEN a ELSE (f[J - 1] * m) % prime)
  BY <1>2, <1>f
<1>4. g[J] = (IF J = 0 THEN a ELSE (g[J - 1] * m) % prime)
  <2>1. J \in 0 .. k
    BY <1>2
  <2> QED BY <2>1, <1>g
<1>5. J # 0
  BY <1>2, <1>3, <1>4
<1>6. J - 1 \in 0 .. n /\ J - 1 \notin T
  BY <1>2, <1>5
<1>7. f[J - 1] = g[J - 1]
  BY <1>6
<1> QED BY <1>2, <1>3, <1>4, <1>7

\* What the loop does: no round leaves a, one more round multiplies once more.
LEMMA MultiplyRound ==
  ASSUME NEW a \in Nat, NEW m \in Nat
  PROVE  /\ Multiply(a, m, 0) = a
         /\ \A n \in Nat : Multiply(a, m, n + 1) = (Multiply(a, m, n) * m) % prime
<1> DEFINE F(n) == CHOOSE f : Rounds(f, a, m, n)
<1>1. \A n \in Nat : Multiply(a, m, n) = F(n)[n]
  BY DEF Multiply, Rounds
<1>2. \A n \in Nat : Rounds(F(n), a, m, n)
  BY RoundsExist
<1> HIDE DEF F
<1>3. Multiply(a, m, 0) = a
  <2>1. F(0) = [J \in 0 .. 0 |-> IF J = 0 THEN a ELSE (F(0)[J - 1] * m) % prime]
    BY <1>2 DEF Rounds
  <2>2. F(0)[0] = a
    BY <2>1
  <2> QED BY <1>1, <2>2
<1>4. ASSUME NEW n \in Nat
      PROVE  Multiply(a, m, n + 1) = (Multiply(a, m, n) * m) % prime
  <2>1. F(n + 1) = [J \in 0 .. (n + 1) |-> IF J = 0 THEN a ELSE (F(n + 1)[J - 1] * m) % prime]
    BY <1>2 DEF Rounds
  <2>2. F(n + 1)[n + 1] = (F(n + 1)[n] * m) % prime
    BY <2>1
  <2>3. F(n)[n] = F(n + 1)[n]
    BY <1>2, RoundsAgree
  <2> QED BY <1>1, <2>2, <2>3
<1> QED BY <1>3, <1>4

-----------------------------------------------------------------------------
(* Powers of the root *)

\* w^k of the comments in the code.
Power(k) == Multiply(1, root, k)

\* The powers one by one.
LEMMA PowerRound ==
  /\ Power(0) = 1
  /\ \A k \in Nat : Power(k + 1) = (Power(k) * root) % prime
  /\ \A k \in Nat : Power(k) \in 0 .. prime - 1
<1>1. root \in Nat /\ prime \in Nat /\ prime >= 2
  BY IndexAssumption
<1>2. Power(0) = 1 /\ \A k \in Nat : Power(k + 1) = (Power(k) * root) % prime
  BY <1>1, MultiplyRound DEF Power
<1> DEFINE T == {k \in Nat : Power(k) \notin 0 .. prime - 1}
<1>3. ASSUME T # {} PROVE FALSE
  <2>1. PICK k \in T : \A y \in T : k <= y
    BY <1>3, LeastNat
  <2>2. k # 0
    BY <2>1, <1>2, <1>1
  <2>3. k - 1 \in Nat /\ k - 1 \notin T /\ k = (k - 1) + 1
    BY <2>1, <2>2
  <2>4. Power(k) = (Power(k - 1) * root) % prime
    BY <2>3, <1>2
  <2>5. Power(k - 1) \in Nat
    BY <2>3
  <2>6. Power(k - 1) * root \in Nat
    BY <2>5, <1>1
  <2>7. (Power(k - 1) * root) % prime \in 0 .. prime - 1
    BY <2>6, <1>1
  <2> QED BY <2>1, <2>4, <2>7
<1> QED BY <1>2, <1>3

\* Multiplying powers adds their exponents.
LEMMA PowerSum ==
  ASSUME NEW a \in Nat, NEW b \in Nat
  PROVE  (Power(a) * Power(b)) % prime = Power(a + b)
<1>1. root \in Nat /\ prime \in Nat \ {0} /\ prime >= 2
  BY IndexAssumption
<1>2. \A k \in Nat : Power(k) \in Nat /\ Power(k) < prime
  BY PowerRound, <1>1
<1> DEFINE T == {k \in Nat : (Power(a) * Power(k)) % prime # Power(a + k)}
<1>3. SUFFICES ASSUME T # {} PROVE FALSE
  OBVIOUS
<1>4. PICK k \in T : \A y \in T : k <= y
  BY <1>3, LeastNat
<1>5. k # 0
  <2>1. Power(0) = 1 /\ a + 0 = a /\ Power(a) * 1 = Power(a)
    BY PowerRound, <1>2
  <2>2. Power(a) % prime = Power(a)
    BY <1>2, <1>1
  <2> QED BY <2>1, <2>2, <1>4
<1>6. PICK l \in Nat : k = l + 1
  <2>1. k - 1 \in Nat /\ k = (k - 1) + 1
    BY <1>4, <1>5
  <2> QED BY <2>1
<1>7. l \notin T
  BY <1>4, <1>6
<1> DEFINE x == Power(a)
           y == Power(l)
<1>8. x \in Nat /\ y \in Nat /\ x * y \in Nat /\ y * root \in Nat
  BY <1>1, <1>2
<1>9. Power(k) = (y * root) % prime
  BY <1>6, PowerRound
<1>10. Power(a + k) = (Power(a + l) * root) % prime
  <2>1. a + k = (a + l) + 1 /\ a + l \in Nat
    BY <1>6
  <2> QED BY <2>1, PowerRound
<1>11. (x * y) % prime = Power(a + l)
  BY <1>7
<1> HIDE DEF x, y
<1>12. (x * Power(k)) % prime = (x * (y * root)) % prime
  <2>1. (x * ((y * root) % prime)) % prime = (x * (y * root)) % prime
    BY <1>8, <1>1, ModTimes
  <2> QED BY <2>1, <1>9
<1>13. x * (y * root) = root * (x * y)
  BY <1>8, <1>1
<1>14. (root * ((x * y) % prime)) % prime = (root * (x * y)) % prime
  BY <1>8, <1>1, ModTimes
<1>15. Power(a + l) * root = root * Power(a + l)
  BY <1>1, <1>2
<1>16. (x * Power(k)) % prime = Power(a + k)
  BY <1>10, <1>11, <1>12, <1>13, <1>14, <1>15
<1> QED BY <1>16, <1>4 DEF x

\* A loop that multiplies by nroot skips jobcnt powers a round.
LEMMA PowerSkips ==
  ASSUME NEW a \in Nat, NEW n \in Nat
  PROVE  Multiply(Power(a), nroot, n) = Power(a + n * jobcnt)
<1>1. jobcnt \in Nat /\ nroot = Power(jobcnt)
  BY IndexAssumption DEF nroot, Power
<1>2. \A k \in Nat : Power(k) \in Nat
  BY PowerRound, IndexAssumption
<1> DEFINE M(k) == Multiply(Power(a), nroot, k)
<1>3. M(0) = Power(a) /\ \A k \in Nat : M(k + 1) = (M(k) * nroot) % prime
  <2>1. nroot \in Nat /\ Power(a) \in Nat
    BY <1>1, <1>2
  <2>2. /\ Multiply(Power(a), nroot, 0) = Power(a)
        /\ \A k \in Nat : Multiply(Power(a), nroot, k + 1)
                            = (Multiply(Power(a), nroot, k) * nroot) % prime
    BY <2>1, MultiplyRound
  <2> QED BY <2>2
<1> HIDE DEF M
<1> DEFINE T == {k \in Nat : M(k) # Power(a + k * jobcnt)}
<1>4. SUFFICES ASSUME T # {} PROVE FALSE
  BY DEF M
<1>5. PICK k \in T : \A y \in T : k <= y
  BY <1>4, LeastNat
<1>6. k # 0
  <2>1. a + 0 * jobcnt = a
    BY <1>1
  <2> QED BY <2>1, <1>3, <1>5
<1>7. PICK l \in Nat : k = l + 1
  <2>1. k - 1 \in Nat /\ k = (k - 1) + 1
    BY <1>5, <1>6
  <2> QED BY <2>1
<1>8. l \notin T
  BY <1>5, <1>7
<1>9. l * jobcnt \in Nat /\ (a + l * jobcnt) + jobcnt = a + k * jobcnt
  BY <1>1, <1>7
<1>10. M(k) = (Power(a + l * jobcnt) * Power(jobcnt)) % prime
  BY <1>1, <1>3, <1>7, <1>8
<1>11. M(k) = Power(a + k * jobcnt)
  <2> DEFINE e == a + l * jobcnt
  <2>1. e \in Nat
    BY <1>9
  <2> HIDE DEF e
  <2>2. (Power(e) * Power(jobcnt)) % prime = Power(e + jobcnt)
    BY <2>1, <1>1, PowerSum
  <2> QED BY <2>2, <1>9, <1>10 DEF e
<1> QED BY <1>11, <1>5

\* The first prime-1 powers differ: there are as many as there are indexes, and
\* they pass all of these.
LEMMA PowersDiffer ==
  \A k, l \in 0 .. prime - 2 : Power(k) = Power(l) => k = l
<1>1. prime \in Nat /\ prime >= 2
  BY IndexAssumption
<1> DEFINE D == 0 .. prime - 2
           X == 1 .. prime - 1
           g == [k \in D |-> IF Power(k) = 0 THEN 1 ELSE Power(k)]
<1>2. \A k \in D : Power(k) \in 0 .. prime - 1
  BY PowerRound, <1>1
<1>3. \A x \in X : \E k \in D : Power(k) = x
  BY IndexAssumption DEF Power
<1>4. g \in [D -> X]
  BY <1>1, <1>2
<1>5. \A x \in X : \E k \in D : g[k] = x
  <2> SUFFICES ASSUME NEW x \in X PROVE \E k \in D : g[k] = x
    OBVIOUS
  <2>1. PICK k \in D : Power(k) = x
    BY <1>3
  <2>2. g[k] = x
    BY <2>1, <1>1
  <2> QED BY <2>2
<1>6. IsFiniteSet(D) /\ Cardinality(D) = prime - 1 /\ Cardinality(X) = prime - 1
  <2>1. IsFiniteSet(D) /\ Cardinality(D) = IF 0 > prime - 2 THEN 0 ELSE (prime - 2) - 0 + 1
    BY <1>1, FS_Interval
  <2>2. Cardinality(X) = IF 1 > prime - 1 THEN 0 ELSE (prime - 1) - 1 + 1
    BY <1>1, FS_Interval
  <2> QED BY <2>1, <2>2, <1>1
<1> HIDE DEF D, X, g
<1>7. g \in Surjection(D, X)
  BY <1>4, <1>5 DEF Surjection
<1>8. g \in Injection(D, X)
  BY <1>6, <1>7, FS_SurjSameCardinalityImpliesInj
<1>9. \A k, l \in D : g[k] = g[l] => k = l
  BY <1>8 DEF Injection, IsInjective
<1>10. \A k, l \in D : Power(k) = Power(l) => g[k] = g[l]
  BY DEF g
<1> QED BY <1>9, <1>10 DEF D

\* No power is 0: some power is -1, its square is 1, and so the powers repeat
\* and cannot end in 0.
LEMMA PowerNonzero ==
  \A k \in Nat : Power(k) \in 1 .. prime - 1
<1>1. prime \in Nat \ {0} /\ prime >= 3
  BY IndexAssumption
<1>2. \A k \in Nat : Power(k) \in 0 .. prime - 1
  BY PowerRound
<1>3. PICK h \in 0 .. prime - 2 : Power(h) = prime - 1
  <2>1. prime - 1 \in 1 .. prime - 1
    BY <1>1
  <2> QED BY <2>1, IndexAssumption DEF Power
<1>4. h \in Nat /\ h >= 1
  BY <1>1, <1>3, PowerRound
<1> DEFINE m == h + h
<1>5. m \in Nat /\ m >= 1
  BY <1>4
<1>6. Power(m) = 1
  <2>1. (prime - 1) * (prime - 1) = (prime - 2) * prime + 1
    BY <1>1
  <2>2. (prime - 1) * (prime - 1) \in Nat /\ prime - 2 \in Nat /\ 1 \in 0 .. prime - 1
    BY <1>1
  <2>3. ((prime - 1) * (prime - 1)) % prime = 1
    BY <2>1, <2>2, <1>1, ModUnique
  <2> QED BY <2>3, <1>3, <1>4, PowerSum
<1> HIDE DEF m
<1> DEFINE T == {k \in Nat : Power(k) = 0}
<1>7. ASSUME T # {} PROVE FALSE
  <2>1. PICK k \in T : \A y \in T : k <= y
    BY <1>7, LeastNat
  <2>2. CASE k <= m
    <3>1. m - k \in Nat /\ k \in Nat /\ k + (m - k) = m
      BY <2>1, <2>2, <1>5
    <3>2. (Power(k) * Power(m - k)) % prime = Power(m)
      BY <3>1, PowerSum
    <3>3. Power(m - k) \in Nat
      BY <3>1, <1>2
    <3>4. (0 * Power(m - k)) % prime = 0
      BY <3>3, <1>1
    <3> QED BY <3>2, <3>4, <2>1, <1>6
  <2>3. CASE k > m
    <3>1. k - m \in Nat /\ k \in Nat /\ (k - m) + m = k
      BY <2>1, <2>3, <1>5
    <3>2. (Power(k - m) * Power(m)) % prime = Power(k)
      BY <3>1, <1>5, PowerSum
    <3>3. Power(k - m) \in 0 .. prime - 1
      BY <3>1, <1>2
    <3>4. (Power(k - m) * 1) % prime = Power(k - m)
      BY <3>3, <1>1
    <3>5. k - m \in T
      BY <3>1, <3>2, <3>4, <2>1, <1>6
    <3> QED BY <3>5, <2>1, <1>5
  <2> QED BY <2>1, <2>2, <2>3, <1>5
<1> QED BY <1>2, <1>7, <1>1

-----------------------------------------------------------------------------
(* Exponents *)

\* The exponent of iteration n of job v.
Exponent(v, n) == (v - 1) + (n - 1) * jobcnt

\* The jobs' last iterations end before the powers repeat: jobcnt does not
\* divide the prime.
LEMMA ExponentBound ==
  /\ top \in Nat /\ top >= 1
  /\ \A v \in Jobnos, n \in 1 .. top : Exponent(v, n) \in 0 .. prime - 2
<1>1. prime \in Nat /\ jobcnt \in Nat /\ jobcnt >= 2 /\ jobcnt <= prime - 1
  BY IndexAssumption
<1>2. prime % jobcnt # 0
  BY IndexAssumption
<1>3. /\ top \in Nat
      /\ prime % jobcnt \in 0 .. jobcnt - 1
      /\ prime = jobcnt * top + (prime % jobcnt)
  BY <1>1 DEF top
<1> DEFINE r == prime % jobcnt
<1>4. r \in 1 .. jobcnt - 1 /\ prime = jobcnt * top + r
  BY <1>1, <1>2, <1>3
<1> HIDE DEF r
<1>5. top >= 1
  <2>1. top # 0
    BY <1>1, <1>4
  <2> QED BY <2>1, <1>3
<1>6. ASSUME NEW v \in Jobnos, NEW n \in 1 .. top
      PROVE  Exponent(v, n) \in 0 .. prime - 2
  <2>1. v \in 1 .. jobcnt
    BY DEF Jobnos
  <2>2. (n - 1) * jobcnt \in Nat
    BY <1>1, <1>3
  <2>3. (top - n) * jobcnt \in Nat
    BY <1>1, <1>3
  <2>4. (n - 1) * jobcnt + (top - n) * jobcnt + jobcnt = jobcnt * top
    BY <1>1, <1>3
  <2>5. jobcnt * top \in Nat
    BY <1>1, <1>3
  <2> DEFINE u == (n - 1) * jobcnt
             w == (top - n) * jobcnt
             z == jobcnt * top
  <2>6. u \in Nat /\ w \in Nat /\ z \in Nat /\ u + w + jobcnt = z /\ prime = z + r
    BY <2>2, <2>3, <2>4, <2>5, <1>4
  <2>7. Exponent(v, n) = (v - 1) + u
    BY DEF Exponent
  <2> HIDE DEF u, w, z
  <2> QED BY <2>1, <2>6, <2>7, <1>1, <1>4
<1> QED BY <1>3, <1>5, <1>6

\* Iterations have different exponents.
LEMMA ExponentsDiffer ==
  ASSUME NEW v \in Jobnos, NEW k \in Jobnos, NEW n \in 1 .. top, NEW l \in 1 .. top,
         Exponent(v, n) = Exponent(k, l)
  PROVE  v = k /\ n = l
<1>1. jobcnt \in Nat /\ jobcnt >= 2 /\ v \in 1 .. jobcnt /\ k \in 1 .. jobcnt
  BY IndexAssumption DEF Jobnos
<1>2. top \in Nat
  BY ExponentBound
<1>3. (v - 1) + (n - 1) * jobcnt = (k - 1) + (l - 1) * jobcnt
  BY DEF Exponent
<1>4. (n - 1) * jobcnt - (l - 1) * jobcnt = (n - l) * jobcnt
  BY <1>1, <1>2
<1>5. (n - l) * jobcnt \in Int /\ (n - 1) * jobcnt \in Int /\ (l - 1) * jobcnt \in Int
  BY <1>1, <1>2
<1>6. k - v = (n - l) * jobcnt
  BY <1>1, <1>3, <1>4, <1>5
<1>7. ~ (n - l >= 1)
  <2> SUFFICES ASSUME n - l >= 1 PROVE FALSE
    OBVIOUS
  <2>1. (n - l) * jobcnt >= jobcnt
    BY <1>1, <1>2
  <2> QED BY <2>1, <1>1, <1>6
<1>8. ~ (n - l <= -1)
  <2> SUFFICES ASSUME n - l <= -1 PROVE FALSE
    OBVIOUS
  <2>1. (n - l) * jobcnt <= -jobcnt
    BY <1>1, <1>2
  <2> QED BY <2>1, <1>1, <1>6
<1>9. n = l
  BY <1>7, <1>8, <1>2
<1> QED BY <1>9, <1>1, <1>3, <1>5

-----------------------------------------------------------------------------
(* The invariant *)

\* Every index that is held, used or looked for is the power of its iteration.
IndexInv ==
  /\ loop \in [Jobnos -> 1 .. top + 1]
  /\ I = [v \in Jobnos |-> Power(Exponent(v, loop[v]))]
  /\ \A u \in used : \E v \in Jobnos, n \in 1 .. top : u = <<Power(Exponent(v, n)), v, n>>
  /\ \E v \in 1 .. jobcnt + 1, n \in 1 .. top :
        check = <<v, n, Power(v - 1), Power(Exponent(v, n))>>

\* How the exponent moves: by one to the next job, by jobcnt to the next
\* iteration; and the three computations of the code follow it.
LEMMA IndexFollows ==
  /\ \A v \in 1 .. jobcnt + 1 : FirstIndex(v) = Power(v - 1) /\ Exponent(v, 1) = v - 1
  /\ \A v \in 1 .. jobcnt + 1 : (Power(v - 1) * root) % prime = Power(v)
  /\ \A v \in 1 .. jobcnt + 1, n \in 1 .. top :
        (Power(Exponent(v, n)) * nroot) % prime = Power(Exponent(v, n + 1))
  /\ \A v \in Jobnos, lasti \in Nat : IndexAfter(v, lasti) = Power(Exponent(v, lasti + 1))
<1>1. jobcnt \in Nat /\ jobcnt >= 2 /\ top \in Nat /\ nroot = Power(jobcnt)
  BY IndexAssumption, ExponentBound DEF nroot, Power
<1>2. ASSUME NEW v \in 1 .. jobcnt + 1
      PROVE  FirstIndex(v) = Power(v - 1) /\ Exponent(v, 1) = v - 1
  <2>1. (1 - 1) * jobcnt = 0
    BY <1>1
  <2> QED BY <1>1, <2>1 DEF FirstIndex, Power, Exponent
<1>3. ASSUME NEW v \in 1 .. jobcnt + 1
      PROVE  (Power(v - 1) * root) % prime = Power(v)
  <2>1. v - 1 \in Nat /\ (v - 1) + 1 = v
    BY <1>1
  <2> QED BY <2>1, PowerRound
<1>4. ASSUME NEW v \in 1 .. jobcnt + 1, NEW n \in 1 .. top
      PROVE  (Power(Exponent(v, n)) * nroot) % prime = Power(Exponent(v, n + 1))
  <2>1. Exponent(v, n) \in Nat
    <3>1. (n - 1) * jobcnt \in Nat
      BY <1>1
    <3> QED BY <3>1, <1>1 DEF Exponent
  <2>2. Exponent(v, n + 1) = Exponent(v, n) + jobcnt
    <3>1. ((n + 1) - 1) * jobcnt = (n - 1) * jobcnt + jobcnt
      BY <1>1
    <3>2. (n - 1) * jobcnt \in Nat
      BY <1>1
    <3> QED BY <3>1, <3>2, <1>1 DEF Exponent
  <2> QED BY <2>1, <2>2, <1>1, PowerSum
<1>5. ASSUME NEW v \in Jobnos, NEW lasti \in Nat
      PROVE  IndexAfter(v, lasti) = Power(Exponent(v, lasti + 1))
  <2>1. v \in 1 .. jobcnt + 1 /\ v - 1 \in Nat
    BY <1>1 DEF Jobnos
  <2>2. IndexAfter(v, lasti) = Multiply(Power(v - 1), nroot, lasti)
    BY <2>1, <1>2 DEF IndexAfter
  <2>3. (lasti + 1) - 1 = lasti
    OBVIOUS
  <2>4. Exponent(v, lasti + 1) = (v - 1) + lasti * jobcnt
    BY <2>3 DEF Exponent
  <2> QED BY <2>1, <2>2, <2>4, PowerSkips
<1> QED BY <1>2, <1>3, <1>4, <1>5

LEMMA IndexStart == IndexInit => IndexInv
<1> SUFFICES ASSUME IndexInit PROVE IndexInv
  OBVIOUS
<1>1. jobcnt \in Nat /\ jobcnt >= 2 /\ top \in Nat /\ top >= 1
  BY IndexAssumption, ExponentBound
<1>2. loop \in [Jobnos -> 1 .. top + 1]
  BY <1>1 DEF IndexInit
<1>3. I = [v \in Jobnos |-> Power(Exponent(v, loop[v]))]
  <2>1. \A v \in Jobnos : FirstIndex(v) = Power(Exponent(v, loop[v]))
    BY <1>1, IndexFollows DEF IndexInit, Jobnos
  <2> QED BY <2>1 DEF IndexInit
<1>4. \A u \in used : \E v \in Jobnos, n \in 1 .. top : u = <<Power(Exponent(v, n)), v, n>>
  BY DEF IndexInit
<1>5. check = <<1, 1, Power(1 - 1), Power(Exponent(1, 1))>>
  <2>1. 1 \in 1 .. jobcnt + 1 /\ 1 - 1 = 0
    BY <1>1
  <2> QED BY <2>1, IndexFollows, PowerRound DEF IndexInit
<1>6. 1 \in 1 .. jobcnt + 1 /\ 1 \in 1 .. top
  BY <1>1
<1> QED BY <1>2, <1>3, <1>4, <1>5, <1>6 DEF IndexInv

LEMMA IndexStep == IndexInv /\ [IndexNext]_indexVars => IndexInv'
<1> SUFFICES ASSUME IndexInv, [IndexNext]_indexVars PROVE IndexInv'
  OBVIOUS
<1>1. jobcnt \in Nat /\ jobcnt >= 2 /\ top \in Nat /\ top >= 1
  BY IndexAssumption, ExponentBound
<1>2. ASSUME NEW v \in Jobnos, Iteration(v) PROVE IndexInv'
  <2>1. loop[v] \in 1 .. top /\ loop[v] + 1 \in 1 .. top + 1
    BY <1>1, <1>2 DEF IndexInv, Iteration
  <2>2. loop' \in [Jobnos -> 1 .. top + 1]
    BY <1>2, <2>1 DEF IndexInv, Iteration
  <2>3. I[v] = Power(Exponent(v, loop[v]))
    BY DEF IndexInv
  <2>4. (I[v] * nroot) % prime = Power(Exponent(v, loop[v] + 1))
    <3>1. v \in 1 .. jobcnt + 1
      BY <1>1 DEF Jobnos
    <3> QED BY <2>1, <2>3, <3>1, IndexFollows
  <2>5. I' = [k \in Jobnos |-> Power(Exponent(k, loop'[k]))]
    BY <1>2, <2>1, <2>4 DEF IndexInv, Iteration
  <2>6. (\A u \in used : \E k \in Jobnos, n \in 1 .. top : u = <<Power(Exponent(k, n)), k, n>>)'
    BY <1>2, <2>1, <2>3 DEF IndexInv, Iteration
  <2>7. check' = check
    BY <1>2 DEF Iteration
  <2> QED BY <2>2, <2>5, <2>6, <2>7 DEF IndexInv
<1>3. ASSUME NEW v \in Jobnos, Restart(v) PROVE IndexInv'
  <2>1. PICK lasti \in 0 .. loop[v] - 1 :
           /\ loop' = [loop EXCEPT ![v] = lasti + 1]
           /\ I' = [I EXCEPT ![v] = IndexAfter(v, lasti)]
    BY <1>3 DEF Restart
  <2>2. loop[v] \in 1 .. top + 1
    BY DEF IndexInv
  <2>3. lasti \in Nat /\ lasti + 1 \in 1 .. top + 1
    BY <1>1, <2>1, <2>2
  <2>4. loop' \in [Jobnos -> 1 .. top + 1]
    BY <2>1, <2>3 DEF IndexInv
  <2>5. IndexAfter(v, lasti) = Power(Exponent(v, lasti + 1))
    BY <2>3, IndexFollows
  <2>6. I' = [k \in Jobnos |-> Power(Exponent(k, loop'[k]))]
    BY <2>1, <2>5 DEF IndexInv
  <2>7. used' = used /\ check' = check
    BY <1>3 DEF Restart
  <2> QED BY <2>4, <2>6, <2>7 DEF IndexInv
<1>4. ASSUME CheckNext PROVE IndexInv'
  <2>1. PICK v \in 1 .. jobcnt + 1, n \in 1 .. top :
           check = <<v, n, Power(v - 1), Power(Exponent(v, n))>>
    BY DEF IndexInv
  <2>2. loop' = loop /\ I' = I /\ used' = used /\ v <= jobcnt
    BY <1>4, <2>1 DEF CheckNext
  <2>3. check' = IF n < top
                 THEN <<v, n + 1, Power(v - 1), (Power(Exponent(v, n)) * nroot) % prime>>
                 ELSE <<v + 1, 1, (Power(v - 1) * root) % prime, (Power(v - 1) * root) % prime>>
    BY <1>4, <2>1 DEF CheckNext
  <2>4. CASE n < top
    <3>1. n + 1 \in 1 .. top
      BY <2>4, <1>1
    <3>2. check' = <<v, n + 1, Power(v - 1), Power(Exponent(v, n + 1))>>
      BY <2>3, <2>4, IndexFollows
    <3> QED BY <2>2, <3>1, <3>2 DEF IndexInv
  <2>5. CASE ~ (n < top)
    <3>1. v + 1 \in 1 .. jobcnt + 1 /\ 1 \in 1 .. top /\ (v + 1) - 1 = v
      BY <2>2, <1>1
    <3>2. (Power(v - 1) * root) % prime = Power(v)
      BY IndexFollows
    <3>3. Exponent(v + 1, 1) = v
      BY <3>1, IndexFollows
    <3>4. check' = <<v + 1, 1, Power((v + 1) - 1), Power(Exponent(v + 1, 1))>>
      BY <2>3, <2>5, <3>1, <3>2, <3>3
    <3> QED BY <2>2, <3>1, <3>4 DEF IndexInv
  <2> QED BY <2>4, <2>5
<1>5. CASE UNCHANGED indexVars
  BY <1>5 DEF indexVars, IndexInv
<1> QED BY <1>2, <1>3, <1>4, <1>5 DEF IndexNext

\* Every index of the fill is the power of the root that its iteration has.
THEOREM IndexInvariant == IndexSpec => []IndexInv
<1> QED BY IndexStart, IndexStep, PTL DEF IndexSpec

\* What the invariant says of the indexes that are used: one per iteration.
LEMMA UsedFacts ==
  ASSUME IndexInv
  PROVE  IndexIsIteration /\ CheckdbAgrees
<1>1. /\ prime \in Nat /\ jobcnt \in Nat /\ jobcnt >= 2 /\ top \in Nat /\ top >= 1
      /\ \A v \in Jobnos, n \in 1 .. top : Exponent(v, n) \in 0 .. prime - 2
  BY IndexAssumption, ExponentBound
<1>2. \A v \in 1 .. jobcnt + 1, n \in 1 .. top + 1 : Exponent(v, n) \in Nat
  <2> SUFFICES ASSUME NEW v \in 1 .. jobcnt + 1, NEW n \in 1 .. top + 1
               PROVE  Exponent(v, n) \in Nat
    OBVIOUS
  <2>1. (n - 1) * jobcnt \in Nat
    BY <1>1
  <2> QED BY <2>1, <1>1 DEF Exponent
<1>3. \A v \in Jobnos : v \in 1 .. jobcnt + 1
  BY <1>1 DEF Jobnos
<1>4. \A u \in used : \E v \in Jobnos, n \in 1 .. top : u = <<Power(Exponent(v, n)), v, n>>
  BY DEF IndexInv
<1>5. IndexTypeOK
  <2>1. loop \in [Jobnos -> 1 .. top + 1]
    BY DEF IndexInv
  <2>2. I \in [Jobnos -> 1 .. prime - 1]
    <3>1. \A v \in Jobnos : Power(Exponent(v, loop[v])) \in 1 .. prime - 1
      BY <2>1, <1>2, <1>3, PowerNonzero
    <3> QED BY <3>1 DEF IndexInv
  <2>3. used \subseteq (1 .. prime - 1) \X Jobnos \X (1 .. top)
    <3> SUFFICES ASSUME NEW u \in used
                 PROVE  u \in (1 .. prime - 1) \X Jobnos \X (1 .. top)
      OBVIOUS
    <3>1. PICK v \in Jobnos, n \in 1 .. top : u = <<Power(Exponent(v, n)), v, n>>
      BY <1>4
    <3>2. Exponent(v, n) \in Nat
      BY <1>1
    <3>3. Power(Exponent(v, n)) \in 1 .. prime - 1
      BY <3>2, PowerNonzero
    <3> QED BY <3>1, <3>3
  <2>4. check \in (1 .. jobcnt + 1) \X (1 .. top) \X (1 .. prime - 1) \X (1 .. prime - 1)
    <3>1. PICK v \in 1 .. jobcnt + 1, n \in 1 .. top :
             check = <<v, n, Power(v - 1), Power(Exponent(v, n))>>
      BY DEF IndexInv
    <3>2. v - 1 \in Nat /\ n \in 1 .. top + 1
      BY <1>1
    <3>3. Power(v - 1) \in 1 .. prime - 1 /\ Power(Exponent(v, n)) \in 1 .. prime - 1
      BY <3>2, <1>2, PowerNonzero
    <3> QED BY <3>1, <3>3
  <2> QED BY <2>1, <2>2, <2>3, <2>4 DEF IndexTypeOK
<1>6. ASSUME NEW u \in used, NEW w \in used
      PROVE  u[1] = w[1] <=> (u[2] = w[2] /\ u[3] = w[3])
  <2>1. PICK v \in Jobnos, n \in 1 .. top : u = <<Power(Exponent(v, n)), v, n>>
    BY <1>4
  <2>2. PICK k \in Jobnos, l \in 1 .. top : w = <<Power(Exponent(k, l)), k, l>>
    BY <1>4
  <2>3. Power(Exponent(v, n)) = Power(Exponent(k, l)) => v = k /\ n = l
    BY <1>1, PowersDiffer, ExponentsDiffer
  <2> QED BY <2>1, <2>2, <2>3
<1>7. ASSUME NEW u \in used, u[2] = check[1], u[3] = check[2]
      PROVE  u[1] = check[4]
  <2>1. PICK v \in Jobnos, n \in 1 .. top : u = <<Power(Exponent(v, n)), v, n>>
    BY <1>4
  <2>2. PICK k \in 1 .. jobcnt + 1, l \in 1 .. top :
           check = <<k, l, Power(k - 1), Power(Exponent(k, l))>>
    BY DEF IndexInv
  <2>3. v = k /\ n = l
    BY <1>7, <2>1, <2>2
  <2> QED BY <2>1, <2>2, <2>3
<1> QED BY <1>5, <1>6, <1>7 DEF IndexIsIteration, CheckdbAgrees

\* Two iterations of the fill never use one index, however often jobs are
\* started again, for every prime, primitive root and number of jobs from 2.
THEOREM OneIndexPerIteration == IndexSpec => []IndexIsIteration
<1>1. IndexInv => IndexIsIteration
  BY UsedFacts
<1> QED BY <1>1, IndexInvariant, PTL

\* checkdb computes for every iteration the index that the fill used.
THEOREM CheckdbLooksThere == IndexSpec => []CheckdbAgrees
<1>1. IndexInv => CheckdbAgrees
  BY UsedFacts
<1> QED BY <1>1, IndexInvariant, PTL

-----------------------------------------------------------------------------
(* PauseImptp: pause and resume                                              *)

\* The jobs that have counted themselves in and not out, and those of them
\* that wait for the flag, or have failed while they waited.
In == {v \in Jobs : pc[v] \in {"wait", "out", "error"}}
Held == {v \in Jobs : pc[v] \in {"wait", "error"}}

\* The flag while the script is in a call of pause or resume, and between.
CtlInv ==
    /\ ctl \in {"pausing", "paused", "notpaused"} => flag = "1"
    /\ ctl \in {"resuming", "kill"} => flag = "0"
    /\ ctl = "running" /\ "resume" \notin gaveup => flag = "undef"

\* The count misses some jobs that were counted when resume killed it, and is
\* exact otherwise.
CountInv == \E lost \in 0 .. jobcount : pausedcount = Cardinality(In) - lost

\* As long as no resume has given up, jobs on their way out are not in the
\* count that the next pause looks at: they were lost with the kill.
HeldInv ==
    "resume" \notin gaveup /\ ctl \in {"running", "pausing", "paused", "notpaused"} =>
        pausedcount <= Cardinality(Held)

\* As long as no call has given up, the count is exact and the jobs are all in
\* the same phase as the script.
InTime ==
    gaveup = {} =>
        /\ pausedcount = Cardinality(In)
        /\ FlagStaysDefined
        /\ ctl # "notpaused"
        /\ ctl \in {"running", "kill"} => \A v \in Jobs : pc[v] \in {"update", "read"}
        /\ ctl = "pausing" => \A v \in Jobs : pc[v] # "out"
        /\ ctl = "resuming" => \A v \in Jobs : pc[v] # "count"

\* TypeOK with a count that may be any integer.
Types ==
    /\ flag \in {"undef", "0", "1"}
    /\ pausedcount \in Int
    /\ pc \in [Jobs -> {"update", "read", "count", "wait", "out", "error"}]
    /\ ctl \in {"running", "pausing", "paused", "notpaused", "resuming", "kill"}
    /\ gaveup \subseteq {"pause", "resume"}
    /\ pauses \in 0 .. MaxPauses

IInv == Types /\ CtlInv /\ CountInv /\ HeldInv /\ InTime /\ PauseHolds

-----------------------------------------------------------------------------
\* In and Held are finite, and Held is the smaller set.
LEMMA Sizes ==
    /\ IsFiniteSet(In) /\ IsFiniteSet(Held)
    /\ Cardinality(In) \in Nat /\ Cardinality(Held) \in Nat /\ jobcount \in Nat
    /\ Cardinality(Held) <= Cardinality(In) /\ Cardinality(In) <= jobcount
<1>1. IsFiniteSet(Jobs) /\ In \subseteq Jobs /\ Held \subseteq In
  BY PauseAssumption DEF In, Held
<1>2. IsFiniteSet(In) /\ Cardinality(In) <= jobcount
  BY <1>1, FS_Subset DEF jobcount
<1>3. IsFiniteSet(Held) /\ Cardinality(Held) <= Cardinality(In)
  BY <1>1, <1>2, FS_Subset
<1>4. QED BY <1>1, <1>2, <1>3, FS_CardinalityType DEF jobcount

\* What pauseifneeded does to the two sets when job v goes from one place to l.
LEMMA Moves ==
    ASSUME Types, NEW v \in Jobs, NEW l, pc' = [pc EXCEPT ![v] = l]
    PROVE  /\ pc[v] \notin {"wait", "out", "error"} /\ l = "wait" =>
                 /\ Cardinality(In') = Cardinality(In) + 1
                 /\ Cardinality(Held') = Cardinality(Held) + 1
           /\ pc[v] = "out" /\ l \notin {"wait", "out", "error"} =>
                 /\ Cardinality(In') = Cardinality(In) - 1
                 /\ Held' = Held
           /\ pc[v] \notin {"wait", "out", "error"} /\ l \notin {"wait", "out", "error"} =>
                 In' = In /\ Held' = Held
           /\ pc[v] = "wait" /\ l \in {"out", "error"} => In' = In
           /\ pc[v] = "wait" /\ l = "error" => Held' = Held
<1>1. \A k \in Jobs : pc'[k] = IF k = v THEN l ELSE pc[k]
  BY DEF Types
<1>2. ASSUME pc[v] \notin {"wait", "out", "error"}, l = "wait"
      PROVE  In' = In \cup {v} /\ Held' = Held \cup {v} /\ v \notin In /\ v \notin Held
  BY <1>1, <1>2 DEF In, Held
<1>3. ASSUME pc[v] = "out", l \notin {"wait", "out", "error"}
      PROVE  In' = In \ {v} /\ v \in In /\ Held' = Held
  BY <1>1, <1>3 DEF In, Held
<1>4. ASSUME pc[v] \notin {"wait", "out", "error"}, l \notin {"wait", "out", "error"}
      PROVE  In' = In /\ Held' = Held
  BY <1>1, <1>4 DEF In, Held
<1>5. ASSUME pc[v] = "wait", l \in {"out", "error"} PROVE In' = In
  BY <1>1, <1>5 DEF In
<1>6. ASSUME pc[v] = "wait", l = "error" PROVE Held' = Held
  BY <1>1, <1>6 DEF Held
<1>7. \A x : x \notin In => Cardinality(In \cup {x}) = Cardinality(In) + 1
  BY Sizes, FS_AddElement
<1>8. \A x : x \notin Held => Cardinality(Held \cup {x}) = Cardinality(Held) + 1
  BY Sizes, FS_AddElement
<1>9. \A x : x \in In => Cardinality(In \ {x}) = Cardinality(In) - 1
  BY Sizes, FS_RemoveElement
<1>10. QED BY <1>2, <1>3, <1>4, <1>5, <1>6, <1>7, <1>8, <1>9

\* When pause sees the full count, every job waits for the flag: jobs on their
\* way out of an earlier pause are not counted.
LEMMA FullCount ==
    ASSUME IInv, pausedcount = jobcount, ctl = "pausing", "resume" \notin gaveup
    PROVE  Held = Jobs
<1>1. jobcount <= Cardinality(Held) /\ Cardinality(Held) <= jobcount
  BY Sizes DEF IInv, HeldInv
<1>2. Held \subseteq Jobs /\ IsFiniteSet(Jobs)
  BY PauseAssumption DEF Held
<1>3. Cardinality(Held) = Cardinality(Jobs)
  BY <1>1, Sizes DEF jobcount
<1>4. QED BY <1>2, <1>3, FS_Subset

\* When resume sees 0 and no call has given up, no job is in the loop.
LEMMA EmptyCount ==
    ASSUME IInv, pausedcount = 0, gaveup = {}
    PROVE  In = {}
<1>1. Cardinality(In) = 0
  BY DEF IInv, InTime
<1>2. QED BY <1>1, Sizes, FS_EmptySet

-----------------------------------------------------------------------------
\* All jobs run and nothing has been paused yet.
LEMMA PauseInit ==
    ASSUME Init
    PROVE  IInv
<1>1. In = {} /\ Held = {}
  BY DEF Init, In, Held
<1>2. Cardinality(In) = 0 /\ Cardinality(Held) = 0 /\ jobcount \in Nat
  BY <1>1, FS_EmptySet, Sizes
<1>3. Types /\ CtlInv /\ PauseHolds
  BY PauseAssumption DEF Init, Types, CtlInv, PauseHolds
<1>4. CountInv
  <2>1. 0 \in 0 .. jobcount /\ pausedcount = Cardinality(In) - 0
    BY <1>2 DEF Init
  <2>2. QED BY <2>1 DEF CountInv
<1>5. HeldInv /\ InTime
  BY <1>2 DEF Init, HeldInv, InTime, FlagStaysDefined
<1>6. QED BY <1>3, <1>4, <1>5 DEF IInv

\* The steps of a job in imptp and in label pauseifneeded.
LEMMA JobKeeps ==
    ASSUME IInv, NEW v \in Jobs, JobStep(v)
    PROVE  IInv'
<1>0. UNCHANGED <<flag, ctl, pauses, gaveup>> /\ jobcount' = jobcount
  BY DEF JobStep, EndIteration, ReadFlag, CountIn, WaitFlag, CountOut, jobcount
<1>1. CtlInv'
  BY <1>0 DEF IInv, CtlInv
<1>2. PICK lost \in 0 .. jobcount : pausedcount = Cardinality(In) - lost
  BY DEF IInv, CountInv
<1>3. /\ Cardinality(In) \in Nat /\ Cardinality(Held) \in Nat /\ jobcount \in Nat
  BY Sizes
<1>4. CASE EndIteration(v) \/ ReadFlag(v)
  <2>1. PICK l \in {"update", "read", "count"} :
          /\ pc' = [pc EXCEPT ![v] = l] /\ pc[v] \in {"update", "read"}
          /\ l = "count" => flag = "1"
    BY <1>4 DEF EndIteration, ReadFlag, Goto
  <2>2. In' = In /\ Held' = Held /\ UNCHANGED pausedcount
    BY <1>4, <2>1, Moves DEF IInv, EndIteration, ReadFlag
  <2>3. Types' /\ (\A k \in Jobs : pc'[k] = IF k = v THEN l ELSE pc[k])
    BY <1>0, <2>1, <2>2 DEF IInv, Types
  <2>4. CountInv' /\ HeldInv'
    BY <1>0, <2>2 DEF IInv, CountInv, HeldInv
  <2>5. InTime'
    BY <1>0, <2>1, <2>2, <2>3 DEF IInv, InTime, CtlInv, FlagStaysDefined
  <2>6. PauseHolds'
    BY <1>0, <2>1, <2>3 DEF IInv, PauseHolds
  <2>7. QED BY <1>1, <2>3, <2>4, <2>5, <2>6 DEF IInv
<1>5. CASE CountIn(v)
  <2>1. pc' = [pc EXCEPT ![v] = "wait"] /\ pc[v] = "count" /\ pausedcount' = pausedcount + 1
    BY <1>5 DEF CountIn, Goto
  <2>2. Cardinality(In') = Cardinality(In) + 1 /\ Cardinality(Held') = Cardinality(Held) + 1
    BY <2>1, Moves DEF IInv
  <2>3. Types' /\ (\A k \in Jobs : pc'[k] = IF k = v THEN "wait" ELSE pc[k])
    BY <1>0, <2>1 DEF IInv, Types
  <2>4. CountInv'
    <3>1. pausedcount' = Cardinality(In') - lost
      BY <1>2, <1>3, <2>1, <2>2
    <3>2. QED BY <1>0, <3>1 DEF CountInv
  <2>5. HeldInv'
    BY <1>0, <1>3, <2>1, <2>2 DEF IInv, HeldInv, Types
  <2>6. InTime'
    BY <1>0, <1>3, <2>1, <2>2, <2>3 DEF IInv, InTime, FlagStaysDefined
  <2>7. PauseHolds'
    BY <1>0, <2>1, <2>3 DEF IInv, PauseHolds
  <2>8. QED BY <1>1, <2>3, <2>4, <2>5, <2>6, <2>7 DEF IInv
<1>6. CASE WaitFlag(v)
  <2>1. PICK l \in {"out", "error"} :
          /\ pc' = [pc EXCEPT ![v] = l] /\ pc[v] = "wait" /\ UNCHANGED pausedcount
          /\ l = "out" => flag = "0"
          /\ l = "error" => flag = "undef"
    BY <1>6 DEF WaitFlag, Goto
  <2>2. In' = In /\ (l = "error" => Held' = Held)
    BY <2>1, Moves DEF IInv
  <2>3. Types' /\ (\A k \in Jobs : pc'[k] = IF k = v THEN l ELSE pc[k])
    BY <1>0, <2>1 DEF IInv, Types
  <2>4. CountInv'
    BY <1>0, <2>1, <2>2 DEF IInv, CountInv
  <2>5. HeldInv'
    BY <1>0, <2>1, <2>2 DEF IInv, HeldInv, CtlInv, Types
  <2>6. InTime'
    BY <1>0, <2>1, <2>2, <2>3 DEF IInv, InTime, FlagStaysDefined, CtlInv, Types
  <2>7. PauseHolds'
    BY <1>0, <2>1, <2>3 DEF IInv, PauseHolds, CtlInv
  <2>8. QED BY <1>1, <2>3, <2>4, <2>5, <2>6, <2>7 DEF IInv
<1>7. CASE CountOut(v)
  <2>1. pc' = [pc EXCEPT ![v] = "update"] /\ pc[v] = "out" /\ pausedcount' = pausedcount - 1
    BY <1>7 DEF CountOut, Goto
  <2>2. Cardinality(In') = Cardinality(In) - 1 /\ Held' = Held
    <3>1. Types /\ "update" \notin {"wait", "out", "error"}
      BY DEF IInv
    <3>2. QED BY <2>1, <3>1, Moves
  <2>3. Types' /\ (\A k \in Jobs : pc'[k] = IF k = v THEN "update" ELSE pc[k])
    BY <1>0, <2>1 DEF IInv, Types
  <2>4. CountInv'
    <3>1. pausedcount' = Cardinality(In') - lost
      BY <1>2, <1>3, <2>1, <2>2
    <3>2. QED BY <1>0, <3>1 DEF CountInv
  <2>5. HeldInv'
    BY <1>0, <1>3, <2>1, <2>2 DEF IInv, HeldInv, Types
  <2>6. InTime'
    BY <1>0, <1>3, <2>1, <2>2, <2>3 DEF IInv, InTime, FlagStaysDefined
  <2>7. PauseHolds'
    BY <1>0, <2>1, <2>3 DEF IInv, PauseHolds
  <2>8. QED BY <1>1, <2>3, <2>4, <2>5, <2>6, <2>7 DEF IInv
<1>8. QED BY <1>4, <1>5, <1>6, <1>7 DEF JobStep

\* The steps of labels pause and resume, which move no job.
LEMMA ScriptKeeps ==
    ASSUME IInv, Pause \/ Resume \/ CallStep \/ PauseTimeout \/ ResumeTimeout
    PROVE  IInv'
<1>0. UNCHANGED pc /\ In' = In /\ Held' = Held /\ jobcount' = jobcount
  BY DEF Pause, Resume, CallStep, AllPaused, AllResumed, KillFlag, PauseTimeout, ResumeTimeout,
         In, Held, jobcount
<1>1. /\ Cardinality(In) \in Nat /\ Cardinality(Held) \in Nat /\ jobcount \in Nat
      /\ Cardinality(In) <= jobcount
  BY Sizes
<1>2. CASE KillFlag
  <2>1. flag' = "undef" /\ pausedcount' = 0 /\ ctl = "kill" /\ ctl' = "running" /\ UNCHANGED <<pc, pauses, gaveup>>
    BY <1>2 DEF KillFlag
  <2>2. CountInv'
    <3>1. Cardinality(In) \in 0 .. jobcount /\ pausedcount' = Cardinality(In') - Cardinality(In)
      BY <1>0, <1>1, <2>1
    <3>2. QED BY <1>0, <3>1 DEF CountInv
  <2>3. HeldInv' /\ Types' /\ CtlInv' /\ PauseHolds'
    BY <1>0, <1>1, <2>1 DEF IInv, HeldInv, Types, CtlInv, PauseHolds
  <2>4. InTime'
    <3>1. SUFFICES ASSUME gaveup = {}
                   PROVE  Cardinality(In) = 0 /\ FlagStaysDefined
                          /\ \A v \in Jobs : pc[v] \in {"update", "read"}
      BY <1>0, <2>1 DEF InTime, FlagStaysDefined
    <3>2. \A v \in Jobs : pc[v] \in {"update", "read"}
      BY <2>1, <3>1 DEF IInv, InTime
    <3>3. In = {}
      BY <3>2 DEF In
    <3>4. QED BY <3>2, <3>3, FS_EmptySet DEF FlagStaysDefined
  <2>5. QED BY <2>2, <2>3, <2>4 DEF IInv
<1>3. CASE ~KillFlag
  <2>1. UNCHANGED pausedcount
    BY <1>3 DEF Pause, Resume, CallStep, AllPaused, AllResumed, PauseTimeout, ResumeTimeout
  <2>2. CountInv'
    BY <1>0, <2>1 DEF IInv, CountInv
  <2>3. Types' /\ CtlInv' /\ HeldInv'
    <3> USE <1>0, <2>1, PauseAssumption DEF IInv, Types, CtlInv, HeldInv
    <3>1. CASE Pause
      BY <3>1 DEF Pause
    <3>2. CASE Resume
      BY <3>2 DEF Resume
    <3>3. CASE AllPaused \/ AllResumed
      BY <3>3 DEF AllPaused, AllResumed
    <3>4. CASE PauseTimeout \/ ResumeTimeout
      BY <3>4 DEF PauseTimeout, ResumeTimeout
    <3>5. QED BY <1>3, <3>1, <3>2, <3>3, <3>4 DEF CallStep
  <2>4. PauseHolds'
    <3>1. CASE AllPaused
      <4>1. "resume" \notin gaveup => Held = Jobs
        BY <3>1, FullCount DEF AllPaused
      <4>2. QED BY <1>0, <3>1, <4>1 DEF AllPaused, PauseHolds, Held
    <3>2. CASE ~AllPaused
      BY <1>0, <1>3, <3>2 DEF IInv, PauseHolds, Pause, Resume, CallStep, AllResumed, PauseTimeout, ResumeTimeout
    <3>3. QED BY <3>1, <3>2
  <2>5. InTime'
    <3>1. CASE AllResumed
      <4>1. gaveup = {} => In = {}
        BY <3>1, EmptyCount DEF AllResumed
      <4>2. QED BY <1>0, <2>1, <3>1, <4>1 DEF IInv, InTime, AllResumed, FlagStaysDefined, In, Types
    <3>2. CASE Pause
      BY <1>0, <2>1, <3>2 DEF IInv, InTime, Pause, FlagStaysDefined
    <3>3. CASE Resume
      BY <1>0, <2>1, <3>3 DEF IInv, InTime, Resume, PauseHolds, FlagStaysDefined
    <3>4. CASE AllPaused
      BY <1>0, <2>1, <3>4 DEF IInv, InTime, AllPaused, FlagStaysDefined
    <3>5. CASE PauseTimeout \/ ResumeTimeout
      BY <3>5 DEF InTime, PauseTimeout, ResumeTimeout
    <3>6. QED BY <1>3, <3>1, <3>2, <3>3, <3>4, <3>5 DEF CallStep
  <2>6. QED BY <2>2, <2>3, <2>4, <2>5 DEF IInv
<1>4. QED BY <1>2, <1>3

\* The inductive invariant of the handshake.
THEOREM PauseInvariant == Spec => []IInv
<1>1. Init => IInv
  BY PauseInit
<1>2. IInv /\ [Next]_vars => IInv'
  <2>1. ASSUME IInv, Next PROVE IInv'
    BY <2>1, JobKeeps, ScriptKeeps DEF Next
  <2>2. ASSUME IInv, UNCHANGED vars PROVE IInv'
    BY <2>2 DEF vars, IInv, Types, CtlInv, CountInv, HeldInv, InTime, PauseHolds, FlagStaysDefined, In, Held, jobcount
  <2>3. QED BY <2>1, <2>2
<1>3. QED BY <1>1, <1>2, PTL DEF Spec

\* pausedcount stays within the number of jobs, over all kills of the flag.
THEOREM PauseTypes == Spec => []TypeOK
<1>1. IInv => TypeOK
  BY Sizes DEF IInv, Types, TypeOK, CountInv
<1>2. QED BY <1>1, PauseInvariant, PTL

\* "Make sure all of the processes have paused", for any set of jobs: no job
\* updates between a pause that did not give up and resume, unless a resume
\* has given up before.
THEOREM PausesHold == Spec => []PauseHolds
<1>1. IInv => PauseHolds
  BY DEF IInv
<1>2. QED BY <1>1, PauseInvariant, PTL

\* resume kills ^%pauseflag only when no job can read it in the loop of
\* pauseifneeded, unless a call has given up.
THEOREM FlagIsDefined == Spec => []FlagDefinedInTime
<1>1. IInv => FlagDefinedInTime
  BY DEF IInv, InTime, FlagDefinedInTime
<1>2. QED BY <1>1, PauseInvariant, PTL

-----------------------------------------------------------------------------
(* JobWait: wait^job                                                         *)

\* The parent has more nodes to store, or has stored all and written the file.
ParentInv ==
    /\ parent = "store" => nodes < All
    /\ parent = "done" => file
    /\ waiter # "idle" => parent \in {"done", "error"}

\* A waiter that copies has found all nodes, and loses one only by a rollback
\* that hits it; a waiter that polls has copied all pids.
CopyInv ==
    /\ waiter \in {"idle", "load", "file"} => copied = 0
    /\ waiter = "copy" => copied < All
    /\ waiter = "copy" /\ "waiter" \notin hit => nodes = All
    /\ waiter = "poll" => copied = All

\* A pass that has found no child alive so far has none behind it: children
\* end, they never come back.
PollInv ==
    /\ childalive < i
    /\ waiter \in {"idle", "load", "file", "copy"} => i = 1
    /\ waiter = "poll" /\ childalive = 0 => \A c \in alive : c >= i

WaitIInv == WaitTypeOK /\ ParentInv /\ CopyInv /\ PollInv /\ WaitMeansDead /\ WaitFinds

\* Before label job has stored anything, and before wait is called.
LEMMA WaitStart ==
    ASSUME WaitInit
    PROVE  WaitIInv
<1>1. WaitTypeOK
  <2>1. All \in Nat /\ njobs >= 1 /\ jmaxwait >= 1 /\ njobs \in Nat /\ jmaxwait \in Nat /\ MaxRollbacks \in Nat
    BY WaitAssumption DEF All
  <2>2. /\ nodes \in 0 .. All /\ copied \in 0 .. All /\ j \in 1 .. jmaxwait /\ i \in 1 .. njobs + 1
        /\ childalive \in 0 .. njobs /\ rollbacks \in 0 .. MaxRollbacks
    BY <2>1 DEF WaitInit
  <2>3. /\ parent \in {"store", "write", "done", "error"}
        /\ waiter \in {"idle", "load", "file", "copy", "poll", "done", "error"}
        /\ file \in BOOLEAN /\ toolong \in BOOLEAN
        /\ hit \subseteq {"parent", "waiter"} /\ alive \subseteq 1 .. njobs
    BY DEF WaitInit
  <2>4. QED BY <2>2, <2>3 DEF WaitTypeOK
<1>2. ParentInv /\ CopyInv /\ PollInv /\ WaitMeansDead /\ WaitFinds
  BY WaitAssumption DEF WaitInit, ParentInv, CopyInv, PollInv, WaitMeansDead, WaitFinds, All
<1>3. QED BY <1>1, <1>2 DEF WaitIInv

\* The steps of label job: the nodes of ^%jobwait and the info file.
LEMMA ParentStep ==
    ASSUME WaitIInv, Store \/ WriteInfo \/ ParentError
    PROVE  WaitIInv'
<1> USE WaitAssumption DEF WaitIInv, WaitTypeOK, ParentInv, CopyInv, PollInv, WaitMeansDead, WaitFinds, All, pollVars
<1>1. CASE Store
  BY <1>1 DEF Store
<1>2. CASE WriteInfo
  BY <1>2 DEF WriteInfo
<1>3. CASE ParentError
  BY <1>3 DEF ParentError
<1>4. QED BY <1>1, <1>2, <1>3

\* The steps of wait and of loadjobinfofileifneeded, up to the copy of the pids.
LEMMA LoadStep ==
    ASSUME WaitIInv, StartWait \/ CheckLastPid \/ LoadFile \/ Copy \/ WaiterError
    PROVE  WaitIInv'
<1> USE WaitAssumption DEF WaitIInv, WaitTypeOK, ParentInv, CopyInv, PollInv, WaitMeansDead, WaitFinds, All, pollVars
<1>1. CASE StartWait
  BY <1>1 DEF StartWait
<1>2. CASE CheckLastPid
  BY <1>2 DEF CheckLastPid
<1>3. CASE LoadFile
  BY <1>3 DEF LoadFile
<1>4. CASE Copy
  BY <1>4 DEF Copy
<1>5. CASE WaiterError
  BY <1>5 DEF WaiterError
<1>6. QED BY <1>1, <1>2, <1>3, <1>4, <1>5

\* The steps of waitchld: a child is counted, or a pass ends.
LEMMA PollStep ==
    ASSUME WaitIInv, Isprcalv \/ EndOfPass
    PROVE  WaitIInv'
<1> USE WaitAssumption DEF WaitIInv, WaitTypeOK, ParentInv, CopyInv, PollInv, WaitMeansDead, WaitFinds, All, pollVars
<1>1. CASE Isprcalv
  BY <1>1 DEF Isprcalv
<1>2. CASE EndOfPass
  <2>1. UNCHANGED <<nodes, file, parent, hit, copied, alive, rollbacks>> /\ waiter = "poll" /\ i > njobs
    BY <1>2 DEF EndOfPass
  <2>2. CASE childalive > 0 /\ j < jmaxwait /\ j' = j + 1 /\ i' = 1 /\ childalive' = 0 /\ UNCHANGED <<waiter, toolong>>
    BY <2>1, <2>2
  <2>3. CASE /\ childalive = 0 \/ j >= jmaxwait
             /\ toolong' = (j >= jmaxwait) /\ waiter' = "done" /\ UNCHANGED <<j, i, childalive>>
    <3>1. toolong' \in BOOLEAN
      BY <2>3
    <3>2. WaitMeansDead'
      <4>1. childalive = 0 => alive = {}
        BY <2>1
      <4>2. j >= jmaxwait => toolong'
        BY <2>3, Zenon
      <4>3. QED BY <2>1, <2>3, <4>1, <4>2
    <3>3. QED BY <2>1, <2>3, <3>1, <3>2
  <2>4. QED BY <1>2, <2>2, <2>3 DEF EndOfPass
<1>3. QED BY <1>1, <1>2

\* A child ends, or an online rollback takes nodes away.
LEMMA ExternalStep ==
    ASSUME WaitIInv, (\E c \in alive : ChildEnds(c)) \/ OnlineRollback
    PROVE  WaitIInv'
<1> USE WaitAssumption DEF WaitIInv, WaitTypeOK, ParentInv, CopyInv, PollInv, WaitMeansDead, WaitFinds, All, pollVars
<1>1. ASSUME NEW c \in alive, ChildEnds(c) PROVE WaitIInv'
  BY <1>1 DEF ChildEnds
<1>2. CASE OnlineRollback
  BY <1>2 DEF OnlineRollback
<1>3. QED BY <1>1, <1>2

\* The inductive invariant of wait^job.
THEOREM WaitInvariant == WaitSpec => []WaitIInv
<1>1. WaitInit => WaitIInv
  BY WaitStart
<1>2. WaitIInv /\ [WaitNext]_waitVars => WaitIInv'
  <2>1. ASSUME WaitIInv, WaitNext PROVE WaitIInv'
    BY <2>1, ParentStep, LoadStep, PollStep, ExternalStep DEF WaitNext, WaiterStep
  <2>2. ASSUME WaitIInv, UNCHANGED waitVars PROVE WaitIInv'
    BY <2>2 DEF waitVars, WaitIInv, WaitTypeOK, ParentInv, CopyInv, PollInv, WaitMeansDead, WaitFinds, All
  <2>3. QED BY <2>1, <2>2
<1>3. QED BY <1>1, <1>2, PTL DEF WaitSpec

\* "wait for all children to die before returning", for any number of children,
\* polls and rollbacks: a wait^job without TEST-E-JOBWAITTOOLONG leaves no child.
THEOREM QuietWaitMeansDead == WaitSpec => []WaitMeansDead
<1>1. WaitIInv => WaitMeansDead
  BY DEF WaitIInv
<1>2. QED BY <1>1, WaitInvariant, PTL

\* wait^job finds the pids, in ^%jobwait or in the info file, unless a rollback
\* hits the parent or wait^job itself.
THEOREM WaitFindsPids == WaitSpec => []WaitFinds
<1>1. WaitIInv => WaitFinds
  BY DEF WaitIInv
<1>2. QED BY <1>1, WaitInvariant, PTL
=============================================================================
