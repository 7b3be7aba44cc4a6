---------------------------- MODULE ScoreProofs -----------------------------
(***************************************************************************)
(* Lemmas about the readiness score of QALoop: the sum of confidences      *)
(* lies between its least and largest summand times the number of edges,   *)
(* hence the score between 0 and 1, and above 0.69 when no gap remains.    *)
(*                                                                         *)
(* MapThenSumSet folds the edges in an order that CHOOSE picks.  That the  *)
(* recursion has a solution, and what it adds up to, is shown by induction *)
(* on the number of edges, as the absence of a least counterexample.       *)
(***************************************************************************)
EXTENDS QALoop, FiniteSetTheorems, WellFoundedInduction, TLAPS

\* A set of natural numbers that has no least element is empty.
LEMMA NoLeastElement ==
    ASSUME NEW T \in SUBSET Nat, \A m \in T : \E k \in T : k < m
    PROVE  T = {}
<1> SUFFICES ASSUME T # {} PROVE FALSE
  OBVIOUS
<1>1. PICK m \in T : \A k \in T : <<k, m>> \notin OpToRel(<, Nat)
  BY WFMin, NatLessThanWellFounded
<1> QED  BY <1>1 DEF OpToRel

-----------------------------------------------------------------------------
(***************************************************************************)
(* The sum of confidences.                                                 *)
(***************************************************************************)
Total(E) == MapThenSumSet(LAMBDA r : E[r].confidence, DOMAIN E)

Picked(s) == CHOOSE r \in s : TRUE

\* One turn of the fold: f has the sums of smaller sets.
Turn(E, f, s) == IF s = {} THEN 0 ELSE E[Picked(s)].confidence + f[s \ {Picked(s)}]

\* Parts of a finite set, and what remains of one without the picked member.
LEMMA Parts ==
    ASSUME NEW D, IsFiniteSet(D), NEW s \in SUBSET D
    PROVE  /\ IsFiniteSet(s) /\ Cardinality(s) \in Nat
           /\ Cardinality(s) <= Cardinality(D)
           /\ s # {} => /\ Picked(s) \in s
                        /\ Cardinality(s \ {Picked(s)}) = Cardinality(s) - 1
                        /\ Cardinality(s) - 1 \in Nat
<1>1. IsFiniteSet(s) /\ Cardinality(s) \in Nat /\ Cardinality(s) <= Cardinality(D)
  BY FS_Subset, FS_CardinalityType
<1>2. ASSUME s # {}
      PROVE  /\ Picked(s) \in s
             /\ Cardinality(s \ {Picked(s)}) = Cardinality(s) - 1
  <2>1. Picked(s) \in s  BY <1>2 DEF Picked
  <2> QED  BY <1>1, <2>1, FS_RemoveElement
<1>3. s # {} => Cardinality(s) # 0  BY <1>1, FS_EmptySet
<1> QED  BY <1>1, <1>2, <1>3

\* The recursion has a solution.
LEMMA FoldExists ==
    ASSUME NEW E, IsFiniteSet(DOMAIN E)
    PROVE  \E f : f = [s \in SUBSET DOMAIN E |-> Turn(E, f, s)]
<1> DEFINE D == DOMAIN E
           Solves(f, k) == \A s \in SUBSET D : Cardinality(s) <= k => f[s] = Turn(E, f, s)
           Bad == {k \in Nat : ~ \E f : Solves(f, k)}
<1>1. ASSUME NEW m \in Bad PROVE \E k \in Bad : k < m
  <2> SUFFICES ASSUME \A k \in Bad : ~(k < m) PROVE FALSE
    OBVIOUS
  <2>1. \E g : Solves(g, m - 1)
    <3>1. CASE m = 0
      <4>1. \A s \in SUBSET D : ~(Cardinality(s) <= m - 1)
        <5>1. \A s \in SUBSET D : Cardinality(s) \in Nat  BY Parts
        <5> HIDE DEF Bad, Solves
        <5> QED  BY <3>1, <5>1
      <4> QED  BY <4>1
    <3>2. CASE m # 0
      <4> HIDE DEF Solves
      <4>1. m \in Nat  OBVIOUS
      <4>3. m - 1 \in Nat /\ m - 1 < m
        <5> HIDE DEF Bad
        <5> QED  BY <3>2, <4>1
      <4>2. m - 1 \notin Bad  BY <4>3
      <4> QED  BY <4>2, <4>3
    <3> QED  BY <3>1, <3>2
  <2>2. PICK g : Solves(g, m - 1)  BY <2>1
  <2> DEFINE f == [s \in SUBSET D |-> Turn(E, g, s)]
  <2>3. ASSUME NEW s \in SUBSET D, Cardinality(s) <= m
        PROVE  f[s] = Turn(E, f, s)
    <3>1. f[s] = Turn(E, g, s)  OBVIOUS
    <3>2. CASE s = {}
      BY <3>1, <3>2 DEF Turn
    <3>3. CASE s # {}
      <4> DEFINE t == s \ {Picked(s)}
      <4>1. m \in Nat  OBVIOUS
      <4>2. t \in SUBSET D /\ Cardinality(t) <= m - 1
        BY <2>3, <3>3, <4>1, Parts
      <4>3. f[t] = Turn(E, g, t)  BY <4>2
      <4>4. g[t] = Turn(E, g, t)  BY <2>2, <4>2
      <4>5. f[t] = g[t]  BY <4>3, <4>4
      <4> HIDE DEF f
      <4> QED  BY <3>1, <3>3, <4>5 DEF Turn
    <3> QED  BY <3>2, <3>3
  <2>4. Solves(f, m)  BY <2>3
  <2>5. \E h : Solves(h, m)
    <3> HIDE DEF f, Solves
    <3> QED  BY <2>4
  <2> QED  BY <2>5
<1>2. Bad = {}
  <2>1. Bad \in SUBSET Nat  OBVIOUS
  <2> HIDE DEF Bad
  <2> QED  BY <1>1, <2>1, NoLeastElement
<1>3. Cardinality(D) \in Nat  BY FS_CardinalityType
<1>4. PICK g : Solves(g, Cardinality(D))  BY <1>2, <1>3
<1>5. \A s \in SUBSET D : g[s] = Turn(E, g, s)  BY <1>4, Parts
<1> DEFINE f == [s \in SUBSET D |-> g[s]]
<1>6. ASSUME NEW s \in SUBSET D PROVE f[s] = Turn(E, f, s)
  <2>1. s # {} => f[s \ {Picked(s)}] = g[s \ {Picked(s)}]  OBVIOUS
  <2>2. f[s] = Turn(E, g, s)  BY <1>5
  <2> HIDE DEF f
  <2> QED  BY <2>1, <2>2 DEF Turn
<1>7. f = [s \in SUBSET D |-> Turn(E, f, s)]
  <2>1. f = [s \in SUBSET D |-> f[s]]  OBVIOUS
  <2> HIDE DEF f
  <2> QED  BY <1>6, <2>1
<1> HIDE DEF f
<1> QED  BY <1>7

\* A sum of confidences between lo and hi is between as many lo and hi.
LEMMA TotalBounds ==
    ASSUME NEW E, IsFiniteSet(DOMAIN E), NEW lo \in Nat, NEW hi \in Nat,
           \A r \in DOMAIN E : E[r].confidence \in lo .. hi
    PROVE  Total(E) \in lo * Cardinality(DOMAIN E) .. hi * Cardinality(DOMAIN E)
<1> DEFINE D == DOMAIN E
           F == CHOOSE f : f = [s \in SUBSET D |-> Turn(E, f, s)]
           Bad == {k \in Nat : \E s \in SUBSET D :
                                  Cardinality(s) = k /\ F[s] \notin lo * k .. hi * k}
<1>1. F = [s \in SUBSET D |-> Turn(E, F, s)]
  BY FoldExists
<1>2. Total(E) = F[D]
  BY DEF Total, MapThenSumSet, MapThenFoldSet, Turn, Picked
<1> HIDE DEF F
<1>3. ASSUME NEW m \in Bad PROVE \E k \in Bad : k < m
  <2> SUFFICES ASSUME \A k \in Bad : ~(k < m) PROVE FALSE
    OBVIOUS
  <2>1. PICK s \in SUBSET D : Cardinality(s) = m /\ F[s] \notin lo * m .. hi * m
    OBVIOUS
  <2>2. F[s] = Turn(E, F, s)  BY <1>1
  <2>3. s # {}
    <3>1. s = {} => m = 0 /\ F[s] = 0  BY <2>1, <2>2, FS_EmptySet DEF Turn
    <3> QED  BY <2>1, <3>1
  <2> DEFINE t == s \ {Picked(s)}
             c == E[Picked(s)].confidence
  <2>4. /\ Picked(s) \in D /\ t \in SUBSET D
        /\ Cardinality(t) = m - 1 /\ m - 1 \in Nat /\ m - 1 < m
    <3>1. /\ Picked(s) \in s
          /\ Cardinality(t) = Cardinality(s) - 1 /\ Cardinality(s) - 1 \in Nat
          /\ Cardinality(s) \in Nat
      <4> HIDE DEF Bad
      <4> QED  BY <2>3, Parts
    <3> HIDE DEF Bad
    <3> QED  BY <2>1, <3>1
  <2>5. m - 1 \notin Bad  BY <2>4
  <2>6. F[t] \in lo * (m - 1) .. hi * (m - 1)  BY <2>4, <2>5
  <2>7. F[s] = c + F[t]  BY <2>2, <2>3 DEF Turn
  <2>8. c \in lo .. hi  BY <2>4
  <2>9. m \in Nat  OBVIOUS
  <2>10. c + F[t] \in lo * m .. hi * m
    <3> HIDE DEF c, t, Bad
    <3>1. lo * (m - 1) = lo * m - lo /\ hi * (m - 1) = hi * m - hi  BY <2>9
    <3>2. lo * m \in Nat /\ hi * m \in Nat  BY <2>9
    <3> QED  BY <2>6, <2>8, <3>1, <3>2
  <2> QED  BY <2>1, <2>7, <2>10
<1>4. Bad = {}
  <2>1. Bad \in SUBSET Nat  OBVIOUS
  <2> HIDE DEF Bad
  <2> QED  BY <1>3, <2>1, NoLeastElement
<1>5. Cardinality(D) \in Nat  BY FS_CardinalityType
<1>6. F[D] \in lo * Cardinality(D) .. hi * Cardinality(D)
  BY <1>4, <1>5
<1> QED  BY <1>2, <1>6

-----------------------------------------------------------------------------
(***************************************************************************)
(* The score.                                                              *)
(***************************************************************************)
\* A factor can be multiplied to both sides.
LEMMA Scaled ==
    ASSUME NEW x \in Nat, NEW y \in Nat, NEW z \in Nat, x <= y
    PROVE  x * z <= y * z /\ x * z \in Nat /\ y * z \in Nat
<1>1. PICK d \in Nat : y = x + d  OBVIOUS
<1>2. y * z = x * z + d * z  BY <1>1
<1>3. x * z \in Nat /\ d * z \in Nat  OBVIOUS
<1> QED  BY <1>2, <1>3

\* What a quotient is between.
LEMMA Quotient ==
    ASSUME NEW x \in Nat, NEW d \in Nat \ {0}, NEW lo \in Nat, NEW hi \in Nat,
           lo * d <= x, x < (hi + 1) * d
    PROVE  x \div d \in lo .. hi
<1> DEFINE q == x \div d
<1>1. q \in Nat /\ q * d <= x /\ x < (q + 1) * d
  OBVIOUS
<1> HIDE DEF q
<1>2. ASSUME q > hi PROVE FALSE
  <2>1. (hi + 1) * d <= q * d  BY <1>1, <1>2, Scaled
  <2>2. (hi + 1) * d \in Nat /\ q * d \in Nat  BY <1>1
  <2> QED  BY <1>1, <2>1, <2>2
<1>3. ASSUME q < lo PROVE FALSE
  <2>1. (q + 1) * d <= lo * d  BY <1>1, <1>3, Scaled
  <2>2. (q + 1) * d \in Nat /\ lo * d \in Nat  BY <1>1
  <2> QED  BY <1>1, <2>1, <2>2
<1>4. q \in lo .. hi  BY <1>1, <1>2, <1>3
<1> QED  BY <1>4 DEF q

\* The smaller of two numbers.
LEMMA SmallerOf ==
    ASSUME NEW x \in Nat, NEW y \in Nat
    PROVE  Min({x, y}) = IF x <= y THEN x ELSE y
<1>1. CASE x <= y
  <2>1. \A z \in {x, y} : x <= z  BY <1>1
  <2>2. \A w \in {x, y} : (\A z \in {x, y} : w <= z) => w = x  BY <1>1
  <2> QED  BY <1>1, <2>1, <2>2 DEF Min
<1>2. CASE ~(x <= y)
  <2>1. \A z \in {x, y} : y <= z  BY <1>2
  <2>2. \A w \in {x, y} : (\A z \in {x, y} : w <= z) => w = y  BY <1>2
  <2> QED  BY <1>2, <2>1, <2>2 DEF Min
<1> QED  BY <1>1, <1>2

\* The rounded quotient of the scorer, for n concepts and e edges of which the
\* other three are counts and sums.
Quot(n, e, c, m, t) ==
    (2 * (4000 * c * e + 700 * m * e + 25 * t * n) + n * e) \div (2 * n * e)

\* The coverage c / n is at least a, the density m / (5 * n) at least b / 5,
\* the mean confidence t / e at least k percent.
Reaches(n, e, c, m, t, a, b, k) ==
    /\ n \in Nat \ {0} /\ e \in Nat \ {0}
    /\ a \in 0 .. 1 /\ b \in 0 .. 5 /\ k \in 0 .. 100
    /\ c \in a * n .. n /\ m \in b * n .. 5 * n /\ t \in k * e .. 100 * e

\* The score reaches the weighted sum of what its parts reach.
LEMMA Rounded ==
    ASSUME NEW n, NEW e, NEW c, NEW m, NEW t, NEW a, NEW b, NEW k,
           Reaches(n, e, c, m, t, a, b, k)
    PROVE  Quot(n, e, c, m, t) \in 4000 * a + 700 * b + 25 * k .. MaxScore
<1> USE DEF Reaches
<1> DEFINE p == n * e
           x == 2 * (4000 * c * e + 700 * m * e + 25 * t * n) + n * e
           lo == 4000 * a + 700 * b + 25 * k
<1>0. /\ n \in Nat /\ e \in Nat /\ a \in Nat /\ b \in Nat /\ k \in Nat
      /\ a * n \in Nat /\ b * n \in Nat /\ k * e \in Nat
      /\ c \in Nat /\ a * n <= c /\ c <= n
      /\ m \in Nat /\ b * n <= m /\ m <= 5 * n
      /\ t \in Nat /\ k * e <= t /\ t <= 100 * e
      /\ lo \in Nat
  OBVIOUS
<1>1. p \in Nat \ {0} /\ 2 * n * e = 2 * p
  OBVIOUS
<1>2. c * e \in Nat /\ a * p <= c * e /\ c * e <= p
  <2>1. (a * n) * e <= c * e /\ c * e <= n * e /\ c * e \in Nat  BY <1>0, Scaled
  <2>2. (a * n) * e = a * p  BY <1>0
  <2> QED  BY <2>1, <2>2
<1>3. m * e \in Nat /\ b * p <= m * e /\ m * e <= 5 * p
  <2>1. (b * n) * e <= m * e /\ m * e <= (5 * n) * e /\ m * e \in Nat  BY <1>0, Scaled
  <2>2. (b * n) * e = b * p /\ (5 * n) * e = 5 * p  BY <1>0
  <2> QED  BY <2>1, <2>2
<1>4. t * n \in Nat /\ k * p <= t * n /\ t * n <= 100 * p
  <2>1. (k * e) * n <= t * n /\ t * n <= (100 * e) * n /\ t * n \in Nat  BY <1>0, Scaled
  <2>2. (k * e) * n = k * p /\ (100 * e) * n = 100 * p  BY <1>0
  <2> QED  BY <2>1, <2>2
<1>5. x = 8000 * (c * e) + 1400 * (m * e) + 50 * (t * n) + p
  BY <1>0
<1>6. lo * p = 4000 * (a * p) + 700 * (b * p) + 25 * (k * p)
  BY <1>0, <1>1
<1>7. a * p \in Nat /\ b * p \in Nat /\ k * p \in Nat  BY <1>0, <1>1
<1>8. x \in Nat /\ lo * (2 * p) <= x /\ x < (10000 + 1) * (2 * p)
  <2> DEFINE ce == c * e
             me == m * e
             tn == t * n
             ap == a * p
             bp == b * p
             kp == k * p
  <2>1. /\ x = 8000 * ce + 1400 * me + 50 * tn + p
        /\ ce \in Nat /\ ap <= ce /\ ce <= p
        /\ me \in Nat /\ bp <= me /\ me <= 5 * p
        /\ tn \in Nat /\ kp <= tn /\ tn <= 100 * p
        /\ ap \in Nat /\ bp \in Nat /\ kp \in Nat
        /\ p \in Nat \ {0}
    BY <1>1, <1>2, <1>3, <1>4, <1>5, <1>7
  <2>2. lo * (2 * p) = 8000 * ap + 1400 * bp + 50 * kp
    BY <1>0, <1>1, <1>6
  <2> HIDE DEF ce, me, tn, ap, bp, kp, x, p, lo
  <2> QED  BY <1>0, <2>1, <2>2
<1>9. x \div (2 * p) \in lo .. MaxScore
  <2> HIDE DEF x, p, lo
  <2> QED  BY <1>0, <1>1, <1>8, Quotient DEF MaxScore
<1> QED  BY <1>1, <1>9 DEF Quot

\* Numbers of concepts, edges and covered concepts, and the density's.
LEMMA Counted ==
    ASSUME NEW C, NEW E, IsFiniteSet(DOMAIN C), IsFiniteSet(DOMAIN E),
           Covered(E) \subseteq DOMAIN C, DOMAIN E # {}
    PROVE  LET n == Cardinality(DOMAIN C)
               e == Cardinality(DOMAIN E)
           IN  /\ n \in Nat \ {0} /\ e \in Nat \ {0}
               /\ Cardinality(Covered(E)) \in 0 .. n
               /\ Min({e, 5 * n}) = IF e <= 5 * n THEN e ELSE 5 * n
<1>1. /\ Cardinality(DOMAIN C) \in Nat /\ Cardinality(DOMAIN E) \in Nat
      /\ IsFiniteSet(Covered(E)) /\ Cardinality(Covered(E)) \in Nat
      /\ Cardinality(Covered(E)) <= Cardinality(DOMAIN C)
  BY FS_Subset, FS_CardinalityType
<1>2. DOMAIN C # {}  BY DEF Covered
<1>3. Cardinality(DOMAIN C) # 0 /\ Cardinality(DOMAIN E) # 0
  BY <1>2, FS_EmptySet
<1> DEFINE n == Cardinality(DOMAIN C)
           e == Cardinality(DOMAIN E)
<1>4. Min({e, 5 * n}) = IF e <= 5 * n THEN e ELSE 5 * n
  <2>1. e \in Nat /\ 5 * n \in Nat  BY <1>1
  <2> HIDE DEF e, n
  <2> QED  BY <2>1, SmallerOf
<1> QED  BY <1>1, <1>3, <1>4

\* A finite graph whose covered concepts are concepts of it, with no confidence
\* below lo.
Measured(C, E, lo) ==
    /\ IsFiniteSet(DOMAIN C) /\ IsFiniteSet(DOMAIN E)
    /\ Covered(E) \subseteq DOMAIN C
    /\ \A r \in DOMAIN E : E[r].confidence \in lo .. 100

\* The score is between 0 and 1, whatever the graph.
LEMMA ScoreBounds ==
    ASSUME NEW C, NEW E, Measured(C, E, 0)
    PROVE  Score(C, E) \in 0 .. MaxScore
<1> DEFINE n == Cardinality(DOMAIN C)
           e == Cardinality(DOMAIN E)
           c == Cardinality(Covered(E))
           m == Min({e, 5 * n})
           t == Total(E)
<1>1. CASE e = 0
  BY <1>1 DEF Score, MaxScore
<1>2. CASE e # 0
  <2>1. DOMAIN E # {}  BY <1>2, FS_EmptySet
  <2>2. /\ n \in Nat \ {0} /\ e \in Nat \ {0} /\ c \in 0 .. n
        /\ m = IF e <= 5 * n THEN e ELSE 5 * n
    BY <2>1, Counted DEF Measured
  <2>3. t \in 0 * e .. 100 * e  BY TotalBounds DEF Measured
  <2>4. Score(C, E) = Quot(n, e, c, m, t)
    BY <1>2 DEF Score, Total, Quot
  <2>5. Quot(n, e, c, m, t) \in 0 .. MaxScore
    <3> HIDE DEF n, e, c, m, t
    <3>1. Reaches(n, e, c, m, t, 0, 0, 0)
      BY <2>2, <2>3 DEF Reaches
    <3>2. PICK z : z = 0  OBVIOUS
    <3>3. Reaches(n, e, c, m, t, z, z, z)  BY <3>1, <3>2
    <3>4. Quot(n, e, c, m, t) \in 4000 * z + 700 * z + 25 * z .. MaxScore
      BY <3>3, Rounded
    <3> QED  BY <3>2, <3>4
  <2> HIDE DEF n, e, c, m, t
  <2> QED  BY <2>4, <2>5
<1> QED  BY <1>1, <1>2

\* With an edge at every concept, two edges for each and no confidence below
\* 0.6, the score is 0.40 + 0.14 + 0.15 at least.
LEMMA ScoreOfConnected ==
    ASSUME NEW C, NEW E, Measured(C, E, 60),
           Covered(E) = DOMAIN C, DOMAIN C # {},
           2 * Cardinality(DOMAIN C) <= Cardinality(DOMAIN E)
    PROVE  Score(C, E) >= 6900
<1> DEFINE n == Cardinality(DOMAIN C)
           e == Cardinality(DOMAIN E)
           m == Min({e, 5 * n})
           t == Total(E)
<1>1. DOMAIN E # {}  BY DEF Covered
<1>2. /\ n \in Nat \ {0} /\ e \in Nat \ {0} /\ 2 * n <= e
      /\ m = IF e <= 5 * n THEN e ELSE 5 * n
  BY <1>1, Counted DEF Measured
<1>3. t \in 60 * e .. 100 * e  BY TotalBounds DEF Measured
<1>4. Score(C, E) = Quot(n, e, n, m, t)
  <2>1. e # 0  BY <1>2
  <2> QED  BY <2>1 DEF Score, Total, Quot
<1>5. Quot(n, e, n, m, t) \in 6900 .. MaxScore
  <2> HIDE DEF n, e, m, t
  <2>1. Reaches(n, e, n, m, t, 1, 2, 60)
    BY <1>2, <1>3 DEF Reaches
  <2>2. Quot(n, e, n, m, t) \in 4000 * 1 + 700 * 2 + 25 * 60 .. MaxScore
    BY <2>1, Rounded
  <2> QED  BY <2>2
<1> HIDE DEF n, e, m, t
<1> QED  BY <1>4, <1>5

-----------------------------------------------------------------------------
(***************************************************************************)
(* The gaps.                                                               *)
(***************************************************************************)
\* A set with two members at least has two that differ.
LEMMA TwoMembers ==
    ASSUME NEW S, IsFiniteSet(S), ~(Cardinality(S) < 2)
    PROVE  \E x, y \in S : x # y
<1>1. S # {}  BY FS_EmptySet
<1>2. PICK x \in S : TRUE  BY <1>1
<1>3. S # {x}
  <2>1. Cardinality({x}) = 1  BY FS_Singleton
  <2> QED  BY <2>1
<1> QED  BY <1>2, <1>3

\* A pair has two members.
LEMMA Pair ==
    ASSUME NEW x, NEW y, x # y
    PROVE  IsFiniteSet({x, y}) /\ Cardinality({x, y}) = 2
<1>1. IsFiniteSet({x}) /\ Cardinality({x}) = 1  BY FS_Singleton
<1>2. {x, y} = {x} \cup {y}  OBVIOUS
<1> QED  BY <1>1, <1>2, FS_AddElement

\* Where every concept has two outgoing edges, there are twice as many edges:
\* choosing two for each is an injection.
LEMMA TwoEdgesEach ==
    ASSUME NEW D, IsFiniteSet(D), NEW E, IsFiniteSet(E),
           \A l \in D : \E q, r \in E : q # r /\ q.source = l /\ r.source = l
    PROVE  2 * Cardinality(D) <= Cardinality(E)
<1> DEFINE first(l) == CHOOSE q \in E : \E r \in E : q # r /\ q.source = l /\ r.source = l
           second(l) == CHOOSE r \in E : first(l) # r /\ r.source = l
           f == [x \in D \X {"1st", "2nd"} |-> IF x[2] = "1st" THEN first(x[1]) ELSE second(x[1])]
<1>1. ASSUME NEW l \in D
      PROVE  /\ first(l) \in E /\ second(l) \in E /\ first(l) # second(l)
             /\ first(l).source = l /\ second(l).source = l
  <2>1. \E q \in E : \E r \in E : q # r /\ q.source = l /\ r.source = l
    OBVIOUS
  <2>2. first(l) \in E /\ \E r \in E : first(l) # r /\ first(l).source = l /\ r.source = l
    BY <2>1
  <2> HIDE DEF first
  <2> QED  BY <2>2
<1> HIDE DEF first, second
<1>2. f \in Injection(D \X {"1st", "2nd"}, E)
  <2>1. ASSUME NEW x \in D \X {"1st", "2nd"} PROVE f[x] \in E /\ f[x].source = x[1]
    BY <1>1
  <2>2. f \in [D \X {"1st", "2nd"} -> E]  BY <2>1
  <2>3. ASSUME NEW x \in D \X {"1st", "2nd"}, NEW y \in D \X {"1st", "2nd"}, f[x] = f[y]
        PROVE  x = y
    <3>1. x[1] = y[1]
      <4>1. f[x].source = x[1] /\ f[y].source = y[1]  BY <2>1
      <4> HIDE DEF f
      <4> QED  BY <2>3, <4>1
    <3>2. x[1] \in D /\ x[2] \in {"1st", "2nd"} /\ y[2] \in {"1st", "2nd"}  OBVIOUS
    <3>3. x[2] = y[2]  BY <1>1, <2>3, <3>1, <3>2
    <3> QED  BY <3>1, <3>3
  <2> HIDE DEF f
  <2> QED  BY <2>2, <2>3 DEF Injection, IsInjective
<1>3. /\ IsFiniteSet(D \X {"1st", "2nd"})
      /\ Cardinality(D \X {"1st", "2nd"}) = Cardinality(D) * 2
  <2>1. IsFiniteSet({"1st", "2nd"}) /\ Cardinality({"1st", "2nd"}) = 2
    <3>1. "1st" # "2nd"  OBVIOUS
    <3> QED  BY <3>1, Pair
  <2> QED  BY <2>1, FS_Product
<1>4. Cardinality(D \X {"1st", "2nd"}) <= Cardinality(E)
  <2> HIDE DEF f
  <2> QED  BY <1>2, FS_Injection
<1>5. Cardinality(D) \in Nat /\ Cardinality(E) \in Nat  BY FS_CardinalityType
<1> QED  BY <1>3, <1>4, <1>5

\* Without a gap every concept has two outgoing edges.
LEMMA NoGapsMeansExplored ==
    ASSUME IsFiniteSet(DOMAIN edges), Gaps = {}, NEW l \in DOMAIN concepts
    PROVE  \E q, r \in DOMAIN edges : q # r /\ q.source = l /\ r.source = l
<1>1. l \notin Orphans /\ l \notin Unexplored
  <2>1. ASSUME l \in Orphans PROVE FALSE
    <3>1. Gap(l, "orphan", 100, 0) \in Gaps  BY <2>1 DEF Gaps
    <3> QED  BY <3>1
  <2>2. ASSUME l \in Unexplored PROVE FALSE
    <3>1. Gap(l, "unexplored", 100 - 25 * Cardinality(Outgoing(l)),
              Larger(Breadth(l), 1)) \in Gaps
      BY <2>2 DEF Gaps
    <3> QED  BY <3>1
  <2> QED  BY <2>1, <2>2
<1>2. ~(Cardinality(Outgoing(l)) < 2)
  BY <1>1 DEF Unexplored
<1>3. IsFiniteSet(Outgoing(l))
  <2>1. Outgoing(l) \in SUBSET DOMAIN edges  BY DEF Outgoing
  <2> QED  BY <2>1, FS_Subset
<1>4. PICK q, r \in Outgoing(l) : q # r  BY <1>2, <1>3, TwoMembers
<1> QED  BY <1>4 DEF Outgoing
=============================================================================
