--------------------------- MODULE PlannerProofs ---------------------------
(***************************************************************************)
(* Proofs about Planner for every set of nodes and of links, every cost,   *)
(* all the addresses a caller can know of, and every bound on routes and   *)
(* hops.  The search is followed layer by layer (SearchOK), Yen's detours  *)
(* by what the candidates cover (YenOK, CoveredBut, NoneCheaper), and the  *)
(* answer by what sorting and truncation keep (ArrangedIs, RankedIs).      *)
(***************************************************************************)
EXTENDS Planner, WellFoundedInduction, SequenceTheorems, FiniteSetTheorems, TLAPS

-----------------------------------------------------------------------------
(* Least elements: what induction over the naturals comes down to.         *)

\* A set of numbers that is not empty has a least one.
LEMMA Least ==
  ASSUME NEW T \in SUBSET Nat, T # {}
  PROVE  \E x \in T : \A y \in T : x <= y
  <1>1. PICK x \in T : \A y \in T : ~(<<y, x>> \in OpToRel(<, Nat))
    BY WFMin, NatLessThanWellFounded
  <1>2. ASSUME NEW y \in T PROVE x <= y
    <2>1. ~(y < x)
      BY <1>1 DEF OpToRel
    <2> QED BY <2>1
  <1> QED BY <1>2

\* A set of numbers that holds 0, and with each number below n the next, holds
\* every number up to n.
LEMMA Reaches ==
  ASSUME NEW n \in Nat, NEW T, 0 \in T, \A m \in 0..(n - 1) : m \in T => m + 1 \in T
  PROVE  \A m \in 0..n : m \in T
  <1> DEFINE Out == {m \in 0..n : m \notin T}
  <1> SUFFICES ASSUME Out # {} PROVE FALSE
    OBVIOUS
  <1>0. Out \in SUBSET Nat
    OBVIOUS
  <1> HIDE DEF Out
  <1>1. PICK x \in Out : \A y \in Out : x <= y
    BY <1>0, Least
  <1>2. x # 0 /\ x \in 0..n /\ x \notin T
    BY DEF Out
  <1>3. x - 1 \in 0..(n - 1) /\ x - 1 \in 0..n /\ (x - 1) + 1 = x /\ ~(x <= x - 1)
    BY <1>2
  <1>4. x - 1 \notin T
    BY <1>2, <1>3
  <1>5. x - 1 \in Out
    BY <1>3, <1>4 DEF Out
  <1> QED BY <1>1, <1>3, <1>5

-----------------------------------------------------------------------------
(* Sums.                                                                   *)

\* g holds the sums of the beginnings of s.
Sums(s, n, g) == g = [i \in 0..n |-> IF i = 0 THEN 0 ELSE g[i - 1] + s[i]]

\* There is such a g.
LEMMA SumsExist ==
  ASSUME NEW s, NEW n \in Nat
  PROVE  \E g : Sums(s, n, g)
  <1> DEFINE T == {m \in 0..n : \E g : Sums(s, m, g)}
  <1>1. 0 \in T
    <2> DEFINE g == [i \in 0..0 |-> 0]
    <2>1. Sums(s, 0, g)
      BY DEF Sums
    <2> QED BY <2>1
  <1>2. ASSUME NEW m \in 0..(n - 1), m \in T
        PROVE  m + 1 \in T
    <2>1. PICK g : Sums(s, m, g)
      BY <1>2
    <2> DEFINE h == [i \in 0..(m + 1) |-> IF i = m + 1 THEN g[m] + s[m + 1] ELSE g[i]]
    <2>2. ASSUME NEW i \in 0..(m + 1)
          PROVE  h[i] = IF i = 0 THEN 0 ELSE h[i - 1] + s[i]
      <3>1. CASE i = m + 1
        BY <3>1
      <3>2. CASE i # m + 1
        <4>1. i \in 0..m /\ (i # 0 => i - 1 \in 0..m /\ i - 1 # m + 1 /\ i - 1 \in 0..(m + 1))
          BY <3>2
        <4>2. g[i] = IF i = 0 THEN 0 ELSE g[i - 1] + s[i]
          BY <2>1, <4>1 DEF Sums
        <4> QED BY <3>2, <4>1, <4>2
      <3> QED BY <3>1, <3>2
    <2>3. Sums(s, m + 1, h)
      BY <2>2 DEF Sums
    <2> HIDE DEF h
    <2> QED BY <2>3
  <1> HIDE DEF T
  <1>3. n \in T
    BY <1>1, <1>2, Reaches
  <1> QED BY <1>3 DEF T

\* Total, which chooses one, is the sum of the whole.
LEMMA TotalDef ==
  ASSUME NEW s, Len(s) \in Nat
  PROVE  \E g : Sums(s, Len(s), g) /\ Total(s) = g[Len(s)]
  <1> DEFINE G == CHOOSE g : Sums(s, Len(s), g)
  <1>1. Sums(s, Len(s), G)
    BY SumsExist, Zenon
  <1>2. Total(s) = G[Len(s)]
    BY DEF Total, Sums
  <1> QED BY <1>1, <1>2

\* The sums of two sequences agree as far as the sequences do.
LEMMA SumsAgree ==
  ASSUME NEW s, NEW t, NEW n \in Nat, NEW k \in Nat, NEW m \in Nat, m <= n, m <= k,
         NEW g, Sums(s, n, g), NEW h, Sums(t, k, h), \A i \in 1..m : s[i] = t[i]
  PROVE  g[m] = h[m]
  <1> DEFINE T == {i \in 0..m : g[i] = h[i]}
  <1>0. ASSUME NEW i \in 0..m
        PROVE  /\ g[i] = IF i = 0 THEN 0 ELSE g[i - 1] + s[i]
               /\ h[i] = IF i = 0 THEN 0 ELSE h[i - 1] + t[i]
    BY DEF Sums
  <1>1. 0 \in T
    BY <1>0
  <1>2. ASSUME NEW i \in 0..(m - 1), i \in T
        PROVE  i + 1 \in T
    <2>1. i + 1 \in 0..m /\ i + 1 \in 1..m /\ (i + 1) - 1 = i /\ i + 1 # 0
      OBVIOUS
    <2>2. g[i + 1] = g[i] + s[i + 1] /\ h[i + 1] = h[i] + t[i + 1]
      BY <1>0, <2>1
    <2> QED BY <1>2, <2>1, <2>2
  <1> HIDE DEF T
  <1>3. m \in T
    BY <1>1, <1>2, Reaches
  <1> QED BY <1>3 DEF T

LEMMA TotalType ==
  ASSUME NEW s \in Seq(Nat)
  PROVE  Total(s) \in Nat
  <1>n. Len(s) \in Nat /\ Len(s) \in 0..Len(s)
    OBVIOUS
  <1>1. PICK g : Sums(s, Len(s), g) /\ Total(s) = g[Len(s)]
    BY <1>n, TotalDef
  <1> DEFINE T == {i \in 0..Len(s) : g[i] \in Nat}
  <1>0. \A i \in 0..Len(s) : g[i] = IF i = 0 THEN 0 ELSE g[i - 1] + s[i]
    BY <1>1 DEF Sums
  <1>2. 0 \in T
    BY <1>0
  <1>3. ASSUME NEW i \in 0..(Len(s) - 1), i \in T
        PROVE  i + 1 \in T
    <2>1. i + 1 \in 0..Len(s) /\ i + 1 \in 1..Len(s) /\ (i + 1) - 1 = i /\ i + 1 # 0
      OBVIOUS
    <2>2. g[i + 1] = g[i] + s[i + 1]
      BY <1>0, <2>1
    <2> QED BY <1>3, <2>1, <2>2
  <1> HIDE DEF T
  <1>4. Len(s) \in T
    BY <1>n, <1>2, <1>3, Reaches
  <1> QED BY <1>1, <1>4 DEF T

\* The total of a sequence is that of its beginning and of the rest.
LEMMA TotalSplit ==
  ASSUME NEW s \in Seq(Nat), NEW a \in Seq(Nat), NEW b \in Seq(Nat), Len(s) = Len(a) + Len(b),
         \A i \in 1..Len(a) : s[i] = a[i],
         \A i \in 1..Len(b) : s[Len(a) + i] = b[i]
  PROVE  Total(s) = Total(a) + Total(b)
  <1>n. /\ Len(s) \in Nat /\ Len(a) \in Nat /\ Len(b) \in Nat
        /\ Len(a) <= Len(s) /\ Len(a) <= Len(a) /\ Len(b) \in 0..Len(b)
    OBVIOUS
  <1>1. PICK g : Sums(s, Len(s), g) /\ Total(s) = g[Len(s)]
    BY <1>n, TotalDef
  <1>2. PICK ga : Sums(a, Len(a), ga) /\ Total(a) = ga[Len(a)]
    BY <1>n, TotalDef
  <1>3. PICK gb : Sums(b, Len(b), gb) /\ Total(b) = gb[Len(b)]
    BY <1>n, TotalDef
  <1>4. g[Len(a)] = Total(a)
    <2> HIDE DEF Sums
    <2>1. \A i \in 1..Len(a) : s[i] = a[i]
      OBVIOUS
    <2>2. g[Len(a)] = ga[Len(a)]
      <3> DEFINE m == Len(a)
      <3>1. m \in Nat /\ m <= Len(s) /\ m <= m /\ Len(s) \in Nat
        BY <1>n
      <3>2. Sums(s, Len(s), g) /\ Sums(a, m, ga)
        BY <1>1, <1>2
      <3>3. \A i \in 1..m : s[i] = a[i]
        BY <2>1
      <3> HIDE DEF m
      <3>4. g[m] = ga[m]
        BY <3>1, <3>2, <3>3, SumsAgree
      <3> QED BY <3>4 DEF m
    <2> QED BY <1>2, <2>2
  <1> DEFINE T == {i \in 0..Len(b) : g[Len(a) + i] = Total(a) + gb[i] /\ gb[i] \in Nat}
  <1>5. \A i \in 0..Len(s) : g[i] = IF i = 0 THEN 0 ELSE g[i - 1] + s[i]
    BY <1>1 DEF Sums
  <1>6. \A i \in 0..Len(b) : gb[i] = IF i = 0 THEN 0 ELSE gb[i - 1] + b[i]
    BY <1>3 DEF Sums
  <1>t. Total(a) \in Nat
    BY TotalType
  <1>7. 0 \in T
    <2>1. gb[0] = 0 /\ Len(a) + 0 = Len(a)
      BY <1>6
    <2> QED BY <1>4, <1>t, <2>1
  <1>8. ASSUME NEW i \in 0..(Len(b) - 1), i \in T
        PROVE  i + 1 \in T
    <2>1. /\ i + 1 \in 0..Len(b) /\ i + 1 \in 1..Len(b) /\ (i + 1) - 1 = i /\ i + 1 # 0
          /\ Len(a) + (i + 1) \in 0..Len(s) /\ (Len(a) + (i + 1)) - 1 = Len(a) + i
          /\ Len(a) + (i + 1) # 0
      OBVIOUS
    <2>2. gb[i + 1] = gb[i] + b[i + 1]
      BY <1>6, <2>1
    <2>3. g[Len(a) + (i + 1)] = g[Len(a) + i] + s[Len(a) + (i + 1)]
      BY <1>5, <2>1
    <2>4. s[Len(a) + (i + 1)] = b[i + 1] /\ b[i + 1] \in Nat
      BY <2>1
    <2>5. g[Len(a) + i] = Total(a) + gb[i] /\ gb[i] \in Nat
      BY <1>8
    <2>6. gb[i + 1] \in Nat
      <3>1. gb[i] \in Nat /\ b[i + 1] \in Nat
        BY <2>4, <2>5
      <3>2. \A x, y \in Nat : x + y \in Nat
        OBVIOUS
      <3>3. gb[i] + b[i + 1] \in Nat
        BY <3>1, <3>2
      <3> QED BY <2>2, <3>3
    <2>7. g[Len(a) + (i + 1)] = Total(a) + gb[i + 1]
      BY <1>t, <2>2, <2>3, <2>4, <2>5
    <2> QED BY <2>1, <2>6, <2>7
  <1> HIDE DEF T
  <1>9. Len(b) \in T
    BY <1>n, <1>7, <1>8, Reaches
  <1> QED BY <1>1, <1>3, <1>9 DEF T

LEMMA TotalSmall ==
  /\ \A s : Len(s) = 0 => Total(s) = 0
  /\ \A s : Len(s) = 1 /\ s[1] \in Nat => Total(s) = s[1]
  <1>1. ASSUME NEW s, Len(s) = 0
        PROVE  Total(s) = 0
    <2>1. PICK g : Sums(s, 0, g) /\ Total(s) = g[0]
      BY <1>1, TotalDef
    <2> QED BY <2>1 DEF Sums
  <1>2. ASSUME NEW s, Len(s) = 1, s[1] \in Nat
        PROVE  Total(s) = s[1]
    <2>0. Len(s) \in Nat
      BY <1>2
    <2>3. PICK g : Sums(s, Len(s), g) /\ Total(s) = g[Len(s)]
      BY <2>0, TotalDef
    <2>1. Sums(s, 1, g) /\ Total(s) = g[1]
      BY <1>2, <2>3
    <2>2. g[0] = 0 /\ g[1] = g[0] + s[1]
      BY <2>1 DEF Sums
    <2> QED BY <1>2, <2>1, <2>2
  <1> QED BY <1>1, <1>2

-----------------------------------------------------------------------------
(* Links and what they cost.                                               *)

\* The parallel links of an edge, and what the cheapest costs.
Between(A, from, to) == {l \in A : l.from = from /\ l.to = to}
Step(A, from, to) == Min({LinkCost(l) : l \in Between(A, from, to)})

LEMMA LinkCostType == \A l \in Links : LinkCost(l) \in Nat /\ LinkCost(l) > 0
BY PlannerAssumption DEF PlannerAssumption, LinkCost

LEMMA MinIs ==
  ASSUME NEW S \in SUBSET Nat, S # {}
  PROVE  Min(S) \in S /\ \A y \in S : Min(S) <= y
<1>1. \E x \in S : \A y \in S : x <= y
  BY Least
<1> QED BY <1>1 DEF Min

\* A step costs what the cheapest of its links costs.
LEMMA StepIs ==
  ASSUME NEW A \in SUBSET Links, NEW from, NEW to, Between(A, from, to) # {}
  PROVE  /\ Step(A, from, to) \in Nat /\ Step(A, from, to) > 0
         /\ \E l \in Between(A, from, to) : LinkCost(l) = Step(A, from, to)
         /\ \A l \in Between(A, from, to) : Step(A, from, to) <= LinkCost(l)
<1> DEFINE S == {LinkCost(l) : l \in Between(A, from, to)}
<1>1. S \in SUBSET Nat /\ S # {} /\ \A x \in S : x > 0
  BY LinkCostType DEF Between
<1>2. Min(S) \in S /\ \A y \in S : Min(S) <= y
  <2> HIDE DEF S
  <2> QED BY <1>1, MinIs
<1> QED BY <1>1, <1>2 DEF Step

-----------------------------------------------------------------------------
(* Trails: the node sequences that links support, and what they cost.      *)

\* A sequence of nodes, each with a link of A to the next.
Trail(A, hops) ==
    /\ hops \in Seq(Nodes) /\ Len(hops) # 0
    /\ \A i \in 1..(Len(hops) - 1) : Between(A, hops[i], hops[i + 1]) # {}

Steps(A, hops) == [i \in 1..(Len(hops) - 1) |-> Step(A, hops[i], hops[i + 1])]
Toll(A, hops) == Total(Steps(A, hops))

LEMMA ListOf ==
  ASSUME NEW S, NEW n \in Nat, NEW f \in [1..n -> S]
  PROVE  f \in Seq(S) /\ Len(f) = n
OBVIOUS

\* A trail costs what its steps cost, and each step costs something.
LEMMA StepsAre ==
  ASSUME NEW A \in SUBSET Links, NEW hops, Trail(A, hops)
  PROVE  /\ Steps(A, hops) \in Seq(Nat) /\ Len(Steps(A, hops)) = Len(hops) - 1
         /\ \A i \in 1..(Len(hops) - 1) :
               Steps(A, hops)[i] = Step(A, hops[i], hops[i + 1]) /\ Steps(A, hops)[i] > 0
         /\ Toll(A, hops) \in Nat
<1>1. Len(hops) - 1 \in Nat
  BY DEF Trail
<1>2. \A i \in 1..(Len(hops) - 1) : Step(A, hops[i], hops[i + 1]) \in Nat /\ Step(A, hops[i], hops[i + 1]) > 0
  BY StepIs DEF Trail
<1>3. Steps(A, hops) \in [1..(Len(hops) - 1) -> Nat]
  BY <1>2 DEF Steps
<1>4. Steps(A, hops) \in Seq(Nat) /\ Len(Steps(A, hops)) = Len(hops) - 1
  <2> DEFINE m == Len(hops) - 1
  <2>1. m \in Nat /\ Steps(A, hops) \in [1..m -> Nat]
    BY <1>1, <1>3
  <2> HIDE DEF m
  <2>2. Steps(A, hops) \in Seq(Nat) /\ Len(Steps(A, hops)) = m
    BY <2>1
  <2> QED BY <2>2 DEF m
<1>5. Toll(A, hops) \in Nat
  BY <1>4, TotalType DEF Toll
<1> QED BY <1>2, <1>4, <1>5 DEF Steps

\* A trail that is two trails, the last node of the one being the first of the
\* other, costs what they cost.
LEMMA TollJoin ==
  ASSUME NEW A \in SUBSET Links, NEW a, NEW b, NEW hops,
         Trail(A, a), Trail(A, b), Trail(A, hops),
         Len(hops) + 1 = Len(a) + Len(b),
         \A i \in 1..Len(a) : hops[i] = a[i],
         \A i \in 1..Len(b) : hops[(Len(a) - 1) + i] = b[i]
  PROVE  Toll(A, hops) = Toll(A, a) + Toll(A, b)
<1>1. /\ Steps(A, hops) \in Seq(Nat) /\ Steps(A, a) \in Seq(Nat) /\ Steps(A, b) \in Seq(Nat)
      /\ Len(Steps(A, hops)) = Len(hops) - 1
      /\ Len(Steps(A, a)) = Len(a) - 1
      /\ Len(Steps(A, b)) = Len(b) - 1
  BY StepsAre
<1>n. Len(a) \in Nat /\ Len(b) \in Nat /\ Len(hops) \in Nat /\ Len(a) # 0 /\ Len(b) # 0
  BY DEF Trail
<1>2. Len(Steps(A, hops)) = Len(Steps(A, a)) + Len(Steps(A, b))
  BY <1>1, <1>n
<1>3. ASSUME NEW i \in 1..Len(Steps(A, a))
      PROVE  Steps(A, hops)[i] = Steps(A, a)[i]
  <2>1. i \in 1..(Len(a) - 1) /\ i \in 1..(Len(hops) - 1) /\ i \in 1..Len(a) /\ i + 1 \in 1..Len(a)
    BY <1>1, <1>n
  <2>2. hops[i] = a[i] /\ hops[i + 1] = a[i + 1]
    BY <2>1
  <2> QED BY <2>1, <2>2 DEF Steps
<1>4. ASSUME NEW i \in 1..Len(Steps(A, b))
      PROVE  Steps(A, hops)[Len(Steps(A, a)) + i] = Steps(A, b)[i]
  <2>1. /\ i \in 1..(Len(b) - 1) /\ (Len(a) - 1) + i \in 1..(Len(hops) - 1)
        /\ i \in 1..Len(b) /\ i + 1 \in 1..Len(b)
        /\ ((Len(a) - 1) + i) + 1 = (Len(a) - 1) + (i + 1)
    BY <1>1, <1>n
  <2>2. hops[(Len(a) - 1) + i] = b[i] /\ hops[((Len(a) - 1) + i) + 1] = b[i + 1]
    BY <2>1
  <2> QED BY <1>1, <2>1, <2>2 DEF Steps
<1> DEFINE s == Steps(A, hops)
           u == Steps(A, a)
           v == Steps(A, b)
<1>5. /\ s \in Seq(Nat) /\ u \in Seq(Nat) /\ v \in Seq(Nat) /\ Len(s) = Len(u) + Len(v)
      /\ \A i \in 1..Len(u) : s[i] = u[i]
      /\ \A i \in 1..Len(v) : s[Len(u) + i] = v[i]
  BY <1>1, <1>2, <1>3, <1>4
<1>6. Total(s) = Total(u) + Total(v)
  <2> HIDE DEF s, u, v
  <2> QED BY <1>5, TotalSplit
<1> QED BY <1>6 DEF Toll

\* The two parts of a trail cut at one of its nodes.
Upto(hops, k) == SubSeq(hops, 1, k)
Onward(hops, k) == SubSeq(hops, k, Len(hops))

LEMMA Parts ==
  ASSUME NEW hops \in Seq(Nodes), NEW k \in 1..Len(hops)
  PROVE  /\ Upto(hops, k) \in Seq(Nodes) /\ Len(Upto(hops, k)) = k
         /\ \A i \in 1..k : Upto(hops, k)[i] = hops[i]
         /\ Onward(hops, k) \in Seq(Nodes) /\ Len(Onward(hops, k)) = (Len(hops) - k) + 1
         /\ \A i \in 1..((Len(hops) - k) + 1) : Onward(hops, k)[i] = hops[(k - 1) + i]
BY DEF Upto, Onward

\* The parts of a trail are trails, and cost together what it costs.
LEMMA CutTrail ==
  ASSUME NEW A \in SUBSET Links, NEW hops, Trail(A, hops), NEW k \in 1..Len(hops)
  PROVE  /\ Trail(A, Upto(hops, k)) /\ Trail(A, Onward(hops, k))
         /\ Toll(A, hops) = Toll(A, Upto(hops, k)) + Toll(A, Onward(hops, k))
<1> DEFINE a == Upto(hops, k)
           b == Onward(hops, k)
<1>1. /\ a \in Seq(Nodes) /\ Len(a) = k /\ b \in Seq(Nodes) /\ Len(b) = (Len(hops) - k) + 1
      /\ \A i \in 1..k : a[i] = hops[i]
      /\ \A i \in 1..((Len(hops) - k) + 1) : b[i] = hops[(k - 1) + i]
      /\ hops \in Seq(Nodes)
  BY Parts DEF Trail
<1> HIDE DEF a, b
<1>n. Len(hops) \in Nat /\ k \in Nat /\ k # 0 /\ k <= Len(hops)
  BY <1>1
<1>2. Trail(A, a)
  <2>1. ASSUME NEW i \in 1..(Len(a) - 1) PROVE Between(A, a[i], a[i + 1]) # {}
    <3>1. i \in 1..k /\ i + 1 \in 1..k /\ i \in 1..(Len(hops) - 1)
      BY <1>1, <1>n
    <3> QED BY <1>1, <3>1 DEF Trail
  <2> QED BY <1>1, <1>n, <2>1 DEF Trail
<1>3. Trail(A, b)
  <2>1. ASSUME NEW i \in 1..(Len(b) - 1) PROVE Between(A, b[i], b[i + 1]) # {}
    <3>1. /\ i \in 1..((Len(hops) - k) + 1) /\ i + 1 \in 1..((Len(hops) - k) + 1)
          /\ (k - 1) + i \in 1..(Len(hops) - 1) /\ (k - 1) + (i + 1) = ((k - 1) + i) + 1
      BY <1>1, <1>n
    <3>2. b[i] = hops[(k - 1) + i] /\ b[i + 1] = hops[((k - 1) + i) + 1]
      BY <1>1, <3>1
    <3> QED BY <3>1, <3>2 DEF Trail
  <2>2. Len(b) # 0
    BY <1>1, <1>n
  <2> QED BY <1>1, <2>1, <2>2 DEF Trail
<1>4. Toll(A, hops) = Toll(A, a) + Toll(A, b)
  <2>1. Len(hops) + 1 = Len(a) + Len(b)
    BY <1>1, <1>n
  <2>2. \A i \in 1..Len(a) : hops[i] = a[i]
    BY <1>1
  <2>3. \A i \in 1..Len(b) : hops[(Len(a) - 1) + i] = b[i]
    BY <1>1
  <2> QED BY <1>2, <1>3, <2>1, <2>2, <2>3, TollJoin
<1> QED BY <1>2, <1>3, <1>4 DEF a, b

\* A trail up to one of its nodes, continued by a trail that starts there.
Glue(a, k, b) == SubSeq(a, 1, k - 1) \o b

LEMMA GlueIs ==
  ASSUME NEW a \in Seq(Nodes), NEW k \in 1..Len(a), NEW b \in Seq(Nodes),
         Len(b) # 0, b[1] = a[k]
  PROVE  /\ Glue(a, k, b) \in Seq(Nodes) /\ Len(Glue(a, k, b)) = (k - 1) + Len(b)
         /\ \A i \in 1..k : Glue(a, k, b)[i] = a[i]
         /\ \A i \in 1..Len(b) : Glue(a, k, b)[(k - 1) + i] = b[i]
<1> DEFINE r == SubSeq(a, 1, k - 1)
<1>n. Len(a) \in Nat /\ Len(b) \in Nat /\ k \in Nat /\ k # 0 /\ k - 1 \in Nat /\ k - 1 <= Len(a)
  OBVIOUS
<1>1. r \in Seq(Nodes) /\ Len(r) = k - 1 /\ \A i \in 1..(k - 1) : r[i] = a[i]
  BY <1>n
<1> HIDE DEF r
<1>2. r \o b \in Seq(Nodes) /\ Len(r \o b) = (k - 1) + Len(b)
  <2>1. r \in Seq(Nodes) /\ Len(r) = k - 1
    BY <1>1
  <2>2. r \o b \in Seq(Nodes) /\ Len(r \o b) = Len(r) + Len(b)
    BY <2>1
  <2> QED BY <2>1, <2>2
<1>3. ASSUME NEW i \in 1..(k - 1) PROVE (r \o b)[i] = a[i]
  BY <1>1
<1>4. ASSUME NEW i \in 1..Len(b) PROVE (r \o b)[(k - 1) + i] = b[i]
  BY <1>n, <1>1
<1>5. (r \o b)[k] = a[k]
  <2>1. 1 \in 1..Len(b) /\ (k - 1) + 1 = k
    BY <1>n
  <2> QED BY <1>4, <2>1
<1>6. ASSUME NEW i \in 1..k PROVE (r \o b)[i] = a[i]
  <2>1. i \in 1..(k - 1) \/ i = k
    BY <1>n
  <2> QED BY <1>3, <1>5, <2>1
<1> QED BY <1>2, <1>4, <1>6 DEF Glue, r

LEMMA GlueTrails ==
  ASSUME NEW A \in SUBSET Links, NEW a, NEW b, Trail(A, a), Trail(A, b),
         NEW k \in 1..Len(a), b[1] = a[k]
  PROVE  /\ Trail(A, Glue(a, k, b))
         /\ Toll(A, Glue(a, k, b)) = Toll(A, Upto(a, k)) + Toll(A, b)
<1> DEFINE g == Glue(a, k, b)
           u == Upto(a, k)
<1>1. /\ g \in Seq(Nodes) /\ Len(g) = (k - 1) + Len(b)
      /\ \A i \in 1..k : g[i] = a[i]
      /\ \A i \in 1..Len(b) : g[(k - 1) + i] = b[i]
  BY GlueIs DEF Trail
<1>2. Len(u) = k /\ \A i \in 1..k : u[i] = a[i]
  BY Parts DEF Trail
<1>3. Trail(A, u)
  BY CutTrail
<1>n. Len(a) \in Nat /\ Len(b) \in Nat /\ Len(b) # 0 /\ k \in Nat /\ k # 0 /\ k <= Len(a)
  BY DEF Trail
<1> HIDE DEF g, u
<1>4. Trail(A, g)
  <2>1. ASSUME NEW i \in 1..(Len(g) - 1) PROVE Between(A, g[i], g[i + 1]) # {}
    <3>1. CASE i < k
      <4>1. i \in 1..k /\ i + 1 \in 1..k /\ i \in 1..(Len(a) - 1)
        BY <1>n, <3>1
      <4> QED BY <1>1, <4>1 DEF Trail
    <3>2. CASE ~(i < k)
      <4> DEFINE j == (i - k) + 1
      <4>1. /\ j \in 1..Len(b) /\ j + 1 \in 1..Len(b) /\ j \in 1..(Len(b) - 1)
            /\ (k - 1) + j = i /\ (k - 1) + (j + 1) = i + 1
        BY <1>1, <1>n, <3>2
      <4>2. g[(k - 1) + j] = b[j] /\ g[(k - 1) + (j + 1)] = b[j + 1]
        <5> HIDE DEF j
        <5> QED BY <1>1, <4>1
      <4>3. g[i] = b[j] /\ g[i + 1] = b[j + 1]
        BY <4>1, <4>2
      <4> HIDE DEF j
      <4> QED BY <4>1, <4>3 DEF Trail
    <3> QED BY <3>1, <3>2
  <2>2. Len(g) # 0
    BY <1>1, <1>n
  <2> QED BY <1>1, <2>1, <2>2 DEF Trail
<1>5. Toll(A, g) = Toll(A, u) + Toll(A, b)
  <2>1. Len(g) + 1 = Len(u) + Len(b)
    BY <1>1, <1>2, <1>n
  <2>2. \A i \in 1..Len(u) : g[i] = u[i]
    BY <1>1, <1>2
  <2>3. \A i \in 1..Len(b) : g[(Len(u) - 1) + i] = b[i]
    BY <1>1, <1>2
  <2> QED BY <1>3, <1>4, <2>1, <2>2, <2>3, TollJoin
<1> QED BY <1>4, <1>5 DEF g, u

LEMMA TollSmall ==
  ASSUME NEW A \in SUBSET Links, NEW hops, Trail(A, hops)
  PROVE  /\ Len(hops) = 1 => Toll(A, hops) = 0
         /\ Len(hops) = 2 => Toll(A, hops) = Step(A, hops[1], hops[2])
         /\ Len(hops) > 1 => Toll(A, hops) > 0
<1>1. Len(hops) = 1 => Toll(A, hops) = 0
  BY StepsAre, TotalSmall DEF Toll
<1>2. ASSUME NEW gs, Trail(A, gs), Len(gs) = 2
      PROVE  Toll(A, gs) = Step(A, gs[1], gs[2]) /\ Toll(A, gs) > 0
  <2>1. /\ Len(Steps(A, gs)) = 1 /\ Steps(A, gs)[1] = Step(A, gs[1], gs[2])
        /\ Steps(A, gs)[1] > 0 /\ Steps(A, gs)[1] \in Nat
    <3>1. /\ Steps(A, gs) \in Seq(Nat) /\ Len(Steps(A, gs)) = Len(gs) - 1
          /\ \A i \in 1..(Len(gs) - 1) :
                Steps(A, gs)[i] = Step(A, gs[i], gs[i + 1]) /\ Steps(A, gs)[i] > 0
      BY <1>2, StepsAre
    <3>2. 1 \in 1..(Len(gs) - 1) /\ Len(gs) - 1 = 1 /\ 1 + 1 = 2
      BY <1>2
    <3>3. Steps(A, gs)[1] = Step(A, gs[1], gs[2]) /\ Steps(A, gs)[1] > 0
      BY <3>1, <3>2
    <3>4. Steps(A, gs)[1] \in Nat
      <4>1. 1 \in 1..Len(Steps(A, gs))
        BY <3>1, <3>2
      <4> QED BY <3>1, <4>1
    <3> QED BY <3>1, <3>2, <3>3, <3>4
  <2> QED BY <2>1, TotalSmall DEF Toll
<1>3. ASSUME Len(hops) > 1 PROVE Toll(A, hops) > 0
  <2>1. 2 \in 1..Len(hops)
    BY <1>3 DEF Trail
  <2>2. Len(Upto(hops, 2)) = 2
    BY <2>1, Parts DEF Trail
  <2>3. /\ Trail(A, Upto(hops, 2)) /\ Trail(A, Onward(hops, 2))
        /\ Toll(A, hops) = Toll(A, Upto(hops, 2)) + Toll(A, Onward(hops, 2))
    BY <2>1, CutTrail
  <2>4. Toll(A, Upto(hops, 2)) > 0 /\ Toll(A, Upto(hops, 2)) \in Nat /\ Toll(A, Onward(hops, 2)) \in Nat
    BY <1>2, <2>2, <2>3, StepsAre
  <2> QED BY <2>3, <2>4
<1> QED BY <1>1, <1>2, <1>3

\* A trail over fewer links is one over more.
LEMMA Wider ==
  ASSUME NEW A, NEW F \in SUBSET A, NEW hops, Trail(F, hops)
  PROVE  Trail(A, hops)
BY DEF Trail, Between

\* A trail that comes back to a node costs more than it does without the loop.
LEMMA LoopCut ==
  ASSUME NEW A \in SUBSET Links, NEW F \in SUBSET A, NEW hops, Trail(F, hops),
         NEW i \in 1..Len(hops), NEW j \in 1..Len(hops), i < j, hops[i] = hops[j]
  PROVE  \E gs : /\ Trail(F, gs) /\ Len(gs) < Len(hops)
                 /\ gs[1] = hops[1] /\ Last(gs) = Last(hops)
                 /\ Toll(A, gs) < Toll(A, hops)
<1> DEFINE b == Onward(hops, j)
           c == Onward(hops, i)
           gs == Glue(hops, i, b)
<1>n. Len(hops) \in Nat /\ i \in Nat /\ i # 0 /\ j \in Nat /\ j <= Len(hops)
  BY DEF Trail
<1>1. /\ b \in Seq(Nodes) /\ Len(b) = (Len(hops) - j) + 1
      /\ \A m \in 1..((Len(hops) - j) + 1) : b[m] = hops[(j - 1) + m]
      /\ c \in Seq(Nodes) /\ Len(c) = (Len(hops) - i) + 1
      /\ \A m \in 1..((Len(hops) - i) + 1) : c[m] = hops[(i - 1) + m]
  BY Parts DEF Trail
<1>2. Trail(F, b) /\ Trail(A, b) /\ Trail(A, c) /\ Trail(A, Upto(hops, i)) /\ Trail(A, hops)
  BY CutTrail, Wider
<1>3. Len(b) # 0 /\ 1 \in 1..((Len(hops) - j) + 1) /\ (j - 1) + 1 = j
  BY <1>1, <1>n
<1>4. b[1] = hops[i]
  BY <1>1, <1>3
<1>5. Trail(F, gs) /\ Toll(A, gs) = Toll(A, Upto(hops, i)) + Toll(A, b)
  BY <1>2, <1>4, GlueTrails, Wider
<1>6. Toll(A, hops) = Toll(A, Upto(hops, i)) + Toll(A, c)
  BY <1>2, CutTrail
<1>7. Toll(A, b) < Toll(A, c)
  <2> DEFINE k == (j - i) + 1
  <2>1. k \in 1..Len(c) /\ k > 1
    BY <1>1, <1>n
  <2>2. /\ Trail(A, Upto(c, k)) /\ Trail(A, Onward(c, k))
        /\ Toll(A, c) = Toll(A, Upto(c, k)) + Toll(A, Onward(c, k))
    <3> HIDE DEF k, c
    <3> QED BY <1>2, <2>1, CutTrail
  <2>3. Len(Upto(c, k)) = k /\ Onward(c, k) \in Seq(Nodes) /\ Len(Onward(c, k)) = (Len(c) - k) + 1
        /\ \A m \in 1..((Len(c) - k) + 1) : Onward(c, k)[m] = c[(k - 1) + m]
    <3> HIDE DEF k, c
    <3> QED BY <1>1, <2>1, Parts
  <2>4. Onward(c, k) = b
    <3>1. Len(Onward(c, k)) = Len(b)
      BY <1>1, <1>n, <2>3
    <3>2. ASSUME NEW m \in 1..Len(b) PROVE Onward(c, k)[m] = b[m]
      <4>1. /\ m \in 1..((Len(c) - k) + 1) /\ (k - 1) + m \in 1..((Len(hops) - i) + 1)
            /\ (i - 1) + ((k - 1) + m) = (j - 1) + m /\ m \in 1..((Len(hops) - j) + 1)
        <5>1. m \in Nat /\ m # 0 /\ m <= (Len(hops) - j) + 1 /\ Len(c) = (Len(hops) - i) + 1
          BY <1>1, <1>n
        <5> HIDE DEF b, c
        <5> QED BY <1>n, <5>1
      <4>2. Onward(c, k)[m] = c[(k - 1) + m] /\ c[(k - 1) + m] = hops[(i - 1) + ((k - 1) + m)]
        <5> HIDE DEF k, c
        <5> QED BY <1>1, <2>3, <4>1
      <4>3. b[m] = hops[(j - 1) + m]
        BY <1>1, <4>1
      <4> QED BY <4>1, <4>2, <4>3
    <3>3. b \in Seq(Nodes) /\ Onward(c, k) \in Seq(Nodes)
      BY <1>1, <2>3
    <3> HIDE DEF k, b, c
    <3> QED BY <3>1, <3>2, <3>3, SeqEqual
  <2>5. Toll(A, Upto(c, k)) > 0 /\ Toll(A, Upto(c, k)) \in Nat /\ Toll(A, b) \in Nat
    <3> HIDE DEF k, b, c
    <3> QED BY <1>2, <2>1, <2>2, <2>3, TollSmall, StepsAre
  <2> HIDE DEF k, b, c
  <2> QED BY <2>2, <2>4, <2>5
<1>8. Toll(A, gs) < Toll(A, hops)
  <2>1. Toll(A, Upto(hops, i)) \in Nat /\ Toll(A, b) \in Nat /\ Toll(A, c) \in Nat
    BY <1>2, StepsAre
  <2> HIDE DEF b, c, gs
  <2> QED BY <1>5, <1>6, <1>7, <2>1
<1>9. /\ Len(gs) = (i - 1) + Len(b)
      /\ \A m \in 1..i : gs[m] = hops[m]
      /\ \A m \in 1..Len(b) : gs[(i - 1) + m] = b[m]
  <2> HIDE DEF b
  <2> QED BY <1>1, <1>3, <1>4, <1>n, GlueIs DEF Trail
<1>10. Len(gs) < Len(hops)
  BY <1>1, <1>n, <1>9
<1>11. gs[1] = hops[1]
  <2>1. 1 \in 1..i
    BY <1>n
  <2> HIDE DEF gs
  <2> QED BY <1>9, <2>1
<1>12. Last(gs) = Last(hops)
  <2>1. Len(b) \in 1..Len(b) /\ Len(b) \in 1..((Len(hops) - j) + 1) /\ (j - 1) + Len(b) = Len(hops)
    BY <1>1, <1>n
  <2>2. gs[Len(gs)] = b[Len(b)] /\ b[Len(b)] = hops[Len(hops)]
    <3> HIDE DEF b, gs
    <3> QED BY <1>1, <1>9, <2>1
  <2> QED BY <2>2 DEF Last
<1> HIDE DEF gs
<1> QED BY <1>5, <1>8, <1>10, <1>11, <1>12

-----------------------------------------------------------------------------
(* Paths: trails with the links they take.                                 *)

\* A path of the planner whose links are of A and join its nodes.
Walk(A, p) ==
    /\ p.hops \in Seq(Nodes) /\ p.links \in Seq(A)
    /\ Len(p.hops) = Len(p.links) + 1
    /\ \A i \in 1..Len(p.links) :
          p.links[i].from = p.hops[i] /\ p.links[i].to = p.hops[i + 1]

\* Between parallel links, it takes one of the cheapest.
Tight(A, p) ==
    \A i \in 1..Len(p.links) : LinkCost(p.links[i]) = Step(A, p.hops[i], p.hops[i + 1])

\* What its links cost, one by one.
Charges(p) == [i \in DOMAIN p.links |-> LinkCost(p.links[i])]

LEMMA WalkIsTrail ==
  ASSUME NEW A \in SUBSET Links, NEW p, Walk(A, p)
  PROVE  /\ Trail(A, p.hops)
         /\ Len(p.links) \in Nat /\ DOMAIN p.links = 1..Len(p.links)
         /\ \A i \in 1..Len(p.links) :
               p.links[i] \in A /\ p.links[i] \in Between(A, p.hops[i], p.hops[i + 1])
<1>1. Len(p.links) \in Nat /\ DOMAIN p.links = 1..Len(p.links) /\ Len(p.hops) - 1 = Len(p.links) /\ Len(p.hops) # 0
  BY DEF Walk
<1>2. ASSUME NEW i \in 1..Len(p.links)
      PROVE  p.links[i] \in A /\ p.links[i] \in Between(A, p.hops[i], p.hops[i + 1])
  BY DEF Walk, Between
<1>3. Trail(A, p.hops)
  BY <1>1, <1>2 DEF Walk, Trail
<1> QED BY <1>1, <1>2, <1>3

LEMMA ChargesAre ==
  ASSUME NEW A \in SUBSET Links, NEW p, Walk(A, p)
  PROVE  /\ Charges(p) \in Seq(Nat) /\ Len(Charges(p)) = Len(p.links)
         /\ \A i \in 1..Len(p.links) : Charges(p)[i] = LinkCost(p.links[i])
         /\ Cost(p) = Total(Charges(p)) /\ Cost(p) \in Nat
<1>1. Len(p.links) \in Nat /\ DOMAIN p.links = 1..Len(p.links)
      /\ \A i \in 1..Len(p.links) : p.links[i] \in A
  BY WalkIsTrail
<1>2. \A i \in 1..Len(p.links) : LinkCost(p.links[i]) \in Nat
  BY <1>1, LinkCostType
<1> DEFINE m == Len(p.links)
<1>3. m \in Nat /\ Charges(p) \in [1..m -> Nat]
  BY <1>1, <1>2 DEF Charges
<1>4. Charges(p) \in Seq(Nat) /\ Len(Charges(p)) = m
  <2> HIDE DEF m
  <2> QED BY <1>3
<1>5. Cost(p) = Total(Charges(p))
  BY DEF Cost, Charges
<1>6. Cost(p) \in Nat
  BY <1>4, <1>5, TotalType
<1> QED BY <1>1, <1>4, <1>5, <1>6 DEF Charges

\* A path that takes the cheapest links costs what its trail does.
LEMMA CostIsToll ==
  ASSUME NEW A \in SUBSET Links, NEW p, Walk(A, p), Tight(A, p)
  PROVE  Cost(p) = Toll(A, p.hops)
<1>1. DOMAIN p.links = 1..(Len(p.hops) - 1)
  BY DEF Walk
<1>2. \A i \in 1..(Len(p.hops) - 1) : LinkCost(p.links[i]) = Step(A, p.hops[i], p.hops[i + 1])
  BY DEF Walk, Tight
<1>3. Charges(p) = Steps(A, p.hops)
  BY <1>1, <1>2 DEF Charges, Steps
<1>4. Cost(p) = Total(Charges(p))
  BY ChargesAre
<1> QED BY <1>3, <1>4 DEF Toll

LEMMA AtIs ==
  ASSUME NEW A \in SUBSET Links, NEW n \in Nodes
  PROVE  /\ Walk(A, At(n)) /\ Tight(A, At(n)) /\ Cost(At(n)) = 0
         /\ Len(At(n).links) = 0 /\ At(n).hops[1] = n /\ Last(At(n).hops) = n
         /\ Len(At(n).hops) = 1
<1>1. At(n).hops = <<n>> /\ At(n).links = <<>>
  BY DEF At
<1>2. /\ At(n).hops \in Seq(Nodes) /\ At(n).links \in Seq(A) /\ Len(At(n).hops) = 1
      /\ Len(At(n).links) = 0 /\ At(n).hops[1] = n
  BY <1>1
<1>3. Walk(A, At(n)) /\ Tight(A, At(n))
  BY <1>2 DEF Walk, Tight
<1>4. Cost(At(n)) = 0
  BY <1>2, <1>3, ChargesAre, TotalSmall
<1> QED BY <1>2, <1>3, <1>4 DEF Last

\* One link longer.
LEMMA AlongIs ==
  ASSUME NEW A \in SUBSET Links, NEW p, Walk(A, p), NEW l \in A, l.from = Last(p.hops)
  PROVE  /\ Walk(A, Along(p, l)) /\ Cost(Along(p, l)) = Cost(p) + LinkCost(l)
         /\ Len(Along(p, l).links) = Len(p.links) + 1
         /\ Along(p, l).hops[1] = p.hops[1] /\ Last(Along(p, l).hops) = l.to
         /\ Tight(A, p) /\ LinkCost(l) = Step(A, l.from, l.to) => Tight(A, Along(p, l))
<1> DEFINE q == Along(p, l)
           n == Len(p.links)
<1>1. q.hops = Append(p.hops, l.to) /\ q.links = Append(p.links, l)
  BY DEF Along
<1>2. /\ p.hops \in Seq(Nodes) /\ p.links \in Seq(A) /\ Len(p.hops) = n + 1 /\ n \in Nat
      /\ l.to \in Nodes /\ LinkCost(l) \in Nat
  BY LinkCostType, PlannerAssumption DEF Walk, PlannerAssumption
<1> HIDE DEF q
<1>3. /\ q.hops \in Seq(Nodes) /\ Len(q.hops) = n + 2
      /\ q.hops[n + 2] = l.to /\ \A i \in 1..(n + 1) : q.hops[i] = p.hops[i]
  BY <1>1, <1>2
<1>4. /\ q.links \in Seq(A) /\ Len(q.links) = n + 1
      /\ q.links[n + 1] = l /\ \A i \in 1..n : q.links[i] = p.links[i]
  BY <1>1, <1>2
<1>5. p.hops[n + 1] = l.from
  BY <1>2 DEF Last
<1>6. ASSUME NEW i \in 1..(n + 1)
      PROVE  /\ q.links[i].from = q.hops[i] /\ q.links[i].to = q.hops[i + 1]
             /\ Tight(A, p) /\ LinkCost(l) = Step(A, l.from, l.to) =>
                   LinkCost(q.links[i]) = Step(A, q.hops[i], q.hops[i + 1])
  <2>1. CASE i = n + 1
    <3>1. i \in 1..(n + 1) /\ i + 1 = n + 2
      BY <1>2, <2>1
    <3>2. q.hops[i] = l.from /\ q.hops[i + 1] = l.to /\ q.links[i] = l
      BY <1>3, <1>4, <1>5, <2>1, <3>1
    <3> QED BY <3>2
  <2>2. CASE i # n + 1
    <3>1. i \in 1..n /\ i \in 1..(n + 1) /\ i + 1 \in 1..(n + 1)
      BY <1>2, <2>2
    <3>2. q.hops[i] = p.hops[i] /\ q.hops[i + 1] = p.hops[i + 1] /\ q.links[i] = p.links[i]
      BY <1>3, <1>4, <3>1
    <3> QED BY <3>1, <3>2 DEF Walk, Tight
  <2> QED BY <2>1, <2>2
<1>7. Walk(A, q)
  BY <1>2, <1>3, <1>4, <1>6 DEF Walk
<1>8. Tight(A, p) /\ LinkCost(l) = Step(A, l.from, l.to) => Tight(A, q)
  BY <1>4, <1>6 DEF Tight
<1>9. Cost(q) = Cost(p) + LinkCost(l)
  <2> DEFINE s == Charges(q)
             a == Charges(p)
             b == <<LinkCost(l)>>
  <2>1. /\ s \in Seq(Nat) /\ Len(s) = n + 1 /\ \A i \in 1..(n + 1) : s[i] = LinkCost(q.links[i])
        /\ Cost(q) = Total(s)
    BY <1>4, <1>7, ChargesAre
  <2>2. /\ a \in Seq(Nat) /\ Len(a) = n /\ \A i \in 1..n : a[i] = LinkCost(p.links[i])
        /\ Cost(p) = Total(a)
    BY ChargesAre
  <2>3. b \in Seq(Nat) /\ Len(b) = 1 /\ b[1] = LinkCost(l)
    BY <1>2
  <2>4. ASSUME NEW i \in 1..Len(a) PROVE s[i] = a[i]
    <3>1. i \in 1..n /\ i \in 1..(n + 1)
      BY <1>2, <2>2
    <3>2. q.links[i] = p.links[i]
      BY <1>4, <3>1
    <3> HIDE DEF s, a, b
    <3> QED BY <2>1, <2>2, <3>1, <3>2
  <2>5. \A i \in 1..Len(b) : s[Len(a) + i] = b[i]
    BY <1>2, <1>4, <2>1, <2>2, <2>3
  <2>6. Total(b) = LinkCost(l)
    BY <1>2, <2>3, TotalSmall
  <2>7. Len(s) = Len(a) + Len(b)
    BY <2>1, <2>2, <2>3
  <2> HIDE DEF s, a, b
  <2>8. Total(s) = Total(a) + Total(b)
    BY <2>1, <2>2, <2>3, <2>4, <2>5, <2>7, TotalSplit
  <2> QED BY <2>1, <2>2, <2>6, <2>8
<1>10. q.hops[1] = p.hops[1] /\ Last(q.hops) = l.to
  BY <1>2, <1>3 DEF Last
<1>11. Len(q.links) = Len(p.links) + 1
  BY <1>4
<1> QED BY <1>7, <1>8, <1>9, <1>10, <1>11 DEF q

\* A path up to one of its nodes, continued by a path from there.
LEMMA RootedIs ==
  ASSUME NEW A \in SUBSET Links, NEW p, Walk(A, p), Tight(A, p), NEW r, Walk(A, r), Tight(A, r),
         NEW k \in 1..Len(p.hops), r.hops[1] = p.hops[k]
  PROVE  /\ Walk(A, Rooted(p, k - 1, r)) /\ Tight(A, Rooted(p, k - 1, r))
         /\ Rooted(p, k - 1, r).hops = Glue(p.hops, k, r.hops)
<1> DEFINE q == Rooted(p, k - 1, r)
           u == SubSeq(p.links, 1, k - 1)
<1>1. q.hops = Glue(p.hops, k, r.hops) /\ q.links = u \o r.links
  BY DEF Rooted, Glue
<1>2. /\ p.hops \in Seq(Nodes) /\ p.links \in Seq(A) /\ Len(p.hops) = Len(p.links) + 1
      /\ r.hops \in Seq(Nodes) /\ r.links \in Seq(A) /\ Len(r.hops) = Len(r.links) + 1
  BY DEF Walk
<1>n. /\ Len(p.links) \in Nat /\ Len(r.links) \in Nat /\ k \in Nat /\ k # 0 /\ k - 1 \in Nat
      /\ k - 1 <= Len(p.links) /\ Len(r.hops) # 0
  BY <1>2
<1>3. /\ q.hops \in Seq(Nodes) /\ Len(q.hops) = (k - 1) + Len(r.hops)
      /\ \A i \in 1..k : q.hops[i] = p.hops[i]
      /\ \A i \in 1..Len(r.hops) : q.hops[(k - 1) + i] = r.hops[i]
  <2> DEFINE a == p.hops
             b == r.hops
  <2>1. a \in Seq(Nodes) /\ k \in 1..Len(a) /\ b \in Seq(Nodes) /\ Len(b) # 0 /\ b[1] = a[k]
    BY <1>2, <1>n
  <2> HIDE DEF a, b
  <2>2. /\ Glue(a, k, b) \in Seq(Nodes) /\ Len(Glue(a, k, b)) = (k - 1) + Len(b)
        /\ \A i \in 1..k : Glue(a, k, b)[i] = a[i]
        /\ \A i \in 1..Len(b) : Glue(a, k, b)[(k - 1) + i] = b[i]
    BY <2>1, GlueIs
  <2> QED BY <1>1, <2>2 DEF a, b
<1>4. u \in Seq(A) /\ Len(u) = k - 1 /\ \A i \in 1..(k - 1) : u[i] = p.links[i]
  BY <1>2, <1>n
<1> HIDE DEF q, u
<1>5. q.links \in Seq(A) /\ Len(q.links) = (k - 1) + Len(r.links)
  <2>1. u \in Seq(A) /\ Len(u) = k - 1
    BY <1>4
  <2>2. u \o r.links \in Seq(A) /\ Len(u \o r.links) = Len(u) + Len(r.links)
    BY <1>2, <2>1, ConcatProperties
  <2> QED BY <1>1, <2>1, <2>2
<1>c. LET v == u \o r.links
      IN  /\ \A i \in 1..Len(u) : v[i] = u[i]
          /\ \A i \in 1..Len(r.links) : v[Len(u) + i] = r.links[i]
  <2>1. u \in Seq(A) /\ r.links \in Seq(A)
    BY <1>2, <1>4
  <2> QED BY <2>1, ConcatProperties
<1>6. ASSUME NEW i \in 1..(k - 1) PROVE q.links[i] = p.links[i]
  BY <1>1, <1>4, <1>c
<1>7. ASSUME NEW i \in 1..Len(r.links) PROVE q.links[(k - 1) + i] = r.links[i]
  BY <1>1, <1>4, <1>c
<1>8. ASSUME NEW i \in 1..Len(q.links)
      PROVE  /\ q.links[i].from = q.hops[i] /\ q.links[i].to = q.hops[i + 1]
             /\ LinkCost(q.links[i]) = Step(A, q.hops[i], q.hops[i + 1])
  <2>1. CASE i < k
    <3>1. i \in 1..(k - 1) /\ i \in 1..k /\ i + 1 \in 1..k /\ i \in 1..Len(p.links)
      BY <1>n, <2>1
    <3>2. q.links[i] = p.links[i] /\ q.hops[i] = p.hops[i] /\ q.hops[i + 1] = p.hops[i + 1]
      BY <1>3, <1>6, <3>1
    <3> QED BY <3>1, <3>2 DEF Walk, Tight
  <2>2. CASE ~(i < k)
    <3> DEFINE j == (i - k) + 1
    <3>1. /\ j \in 1..Len(r.links) /\ j \in 1..Len(r.hops) /\ j + 1 \in 1..Len(r.hops)
          /\ (k - 1) + j = i /\ (k - 1) + (j + 1) = i + 1
      BY <1>2, <1>5, <1>n, <2>2
    <3> HIDE DEF j
    <3>2. /\ q.links[(k - 1) + j] = r.links[j] /\ q.hops[(k - 1) + j] = r.hops[j]
          /\ q.hops[(k - 1) + (j + 1)] = r.hops[j + 1]
      BY <1>3, <1>7, <3>1
    <3>3. q.links[i] = r.links[j] /\ q.hops[i] = r.hops[j] /\ q.hops[i + 1] = r.hops[j + 1]
      BY <3>1, <3>2
    <3> QED BY <3>1, <3>3 DEF Walk, Tight
  <2> QED BY <2>1, <2>2
<1>9. Len(q.hops) = Len(q.links) + 1
  BY <1>2, <1>3, <1>5, <1>n
<1>10. Walk(A, q) /\ Tight(A, q)
  BY <1>3, <1>5, <1>8, <1>9 DEF Walk, Tight
<1> QED BY <1>1, <1>10 DEF q

-----------------------------------------------------------------------------
(* The search, over the links F of A that are not banned.  A ban is of a   *)
(* node or of an edge: parallel links are banned together.                 *)

\* F is A less whole edges.
Whole(A, F) ==
    /\ F \subseteq A
    /\ \A l \in F, m \in A : m.from = l.from /\ m.to = l.to => m \in F

\* What a layer L of cells offers a node, and the nodes it improves.
OffersIn(F, L, node) ==
    {Along(L[link.from], link) :
        link \in {l \in F : l.from \in DOMAIN L /\ l.to = node}}

ImprovedIn(F, L) ==
    {node \in Nodes :
       \E offer \in OffersIn(F, L, node) :
          node \in DOMAIN L => Cost(offer) < Cost(L[node])}

\* p is a path from here to the node, of h links at most.
Reaching(A, F, from, h, node, p) ==
    /\ Walk(F, p) /\ Tight(A, p)
    /\ p.hops[1] = from /\ Last(p.hops) = node
    /\ Len(p.links) <= h

\* After h layers: a cell holds a path of h links at most, and every trail of h
\* links at most ends in a cell that costs no more.
SearchOK(A, F, from, h, L) ==
    /\ \A node \in DOMAIN L : node \in Nodes /\ Reaching(A, F, from, h, node, L[node])
    /\ \A hops : Trail(F, hops) /\ hops[1] = from /\ Len(hops) - 1 <= h =>
          /\ Last(hops) \in DOMAIN L
          /\ Cost(L[Last(hops)]) <= Toll(A, hops)

LEMMA WalkWider ==
  ASSUME NEW A, NEW F \in SUBSET A, NEW p, Walk(F, p)
  PROVE  Walk(A, p)
BY DEF Walk

\* The first layer, the spur node's own cell.
LEMMA SearchStarts ==
  ASSUME NEW A \in SUBSET Links, NEW F, Whole(A, F), NEW from \in Nodes, NEW L,
         DOMAIN L = {from}, L[from] = At(from)
  PROVE  SearchOK(A, F, from, 0, L)
<1>1. F \in SUBSET Links /\ F \in SUBSET A
  BY DEF Whole
<1>2. Reaching(A, F, from, 0, from, At(from))
  BY <1>1, AtIs DEF Reaching
<1>3. ASSUME NEW hops, Trail(F, hops), hops[1] = from, Len(hops) - 1 <= 0
      PROVE  Last(hops) = from /\ Toll(A, hops) = 0
  <2>1. Len(hops) = 1
    <3>1. Len(hops) \in Nat /\ Len(hops) # 0
      BY <1>3 DEF Trail
    <3>2. Len(hops) - 1 <= 0
      BY <1>3
    <3>3. \A m \in Nat : m # 0 /\ m - 1 <= 0 => m = 1
      OBVIOUS
    <3> QED BY <3>1, <3>2, <3>3
  <2>2. Trail(A, hops)
    BY <1>1, <1>3, Wider
  <2> QED BY <1>3, <2>1, <2>2, TollSmall DEF Last
<1>4. Cost(At(from)) = 0
  BY AtIs
<1> QED BY <1>2, <1>3, <1>4 DEF SearchOK

\* The links of an edge that is not banned are those the graph has.
LEMMA SameStep ==
  ASSUME NEW A \in SUBSET Links, NEW F, Whole(A, F), NEW l \in F
  PROVE  /\ Step(A, l.from, l.to) \in Nat /\ Step(A, l.from, l.to) <= LinkCost(l)
         /\ \E m \in F : /\ m.from = l.from /\ m.to = l.to
                         /\ LinkCost(m) = Step(A, l.from, l.to)
<1>1. l \in Between(A, l.from, l.to)
  BY DEF Whole, Between
<1>2. /\ Step(A, l.from, l.to) \in Nat /\ Step(A, l.from, l.to) <= LinkCost(l)
      /\ \E m \in Between(A, l.from, l.to) : LinkCost(m) = Step(A, l.from, l.to)
  BY <1>1, StepIs
<1>3. PICK m \in Between(A, l.from, l.to) : LinkCost(m) = Step(A, l.from, l.to)
  BY <1>2
<1>4. m \in F /\ m.from = l.from /\ m.to = l.to
  BY DEF Between, Whole
<1> QED BY <1>2, <1>3, <1>4

\* What a link adds to the cell it starts at.
LEMMA OfferIs ==
  ASSUME NEW A \in SUBSET Links, NEW F, Whole(A, F), NEW from, NEW h \in Nat, NEW L,
         SearchOK(A, F, from, h, L), NEW l \in F, l.from \in DOMAIN L
  PROVE  LET o == Along(L[l.from], l)
         IN  /\ o \in OffersIn(F, L, l.to) /\ l.to \in Nodes
             /\ Walk(F, o) /\ o.hops[1] = from /\ Last(o.hops) = l.to
             /\ Len(o.links) <= h + 1
             /\ Cost(o) = Cost(L[l.from]) + LinkCost(l)
             /\ Cost(o) \in Nat /\ Cost(L[l.from]) \in Nat /\ LinkCost(l) \in Nat
             /\ LinkCost(l) = Step(A, l.from, l.to) => Tight(A, o)
<1> DEFINE p == L[l.from]
           o == Along(p, l)
<1>1. F \in SUBSET Links /\ F \in SUBSET A /\ l \in A
  BY DEF Whole
<1>2. Walk(F, p) /\ Tight(A, p) /\ p.hops[1] = from /\ Last(p.hops) = l.from /\ Len(p.links) <= h
  BY DEF SearchOK, Reaching
<1>3. o \in OffersIn(F, L, l.to)
  BY DEF OffersIn
<1>4. l.to \in Nodes /\ LinkCost(l) \in Nat
  BY <1>1, LinkCostType, PlannerAssumption DEF PlannerAssumption
<1> HIDE DEF p
<1>5. Walk(A, p)
  BY <1>1, <1>2, WalkWider
<1>6. /\ Walk(F, o) /\ Cost(o) = Cost(p) + LinkCost(l)
      /\ Len(o.links) = Len(p.links) + 1
      /\ o.hops[1] = p.hops[1] /\ Last(o.hops) = l.to
  BY <1>1, <1>2, AlongIs
<1>7. LinkCost(l) = Step(A, l.from, l.to) => Tight(A, o)
  BY <1>1, <1>2, <1>5, AlongIs
<1>8. Cost(o) \in Nat /\ Cost(p) \in Nat
  BY <1>1, <1>2, <1>6, ChargesAre
<1>9. Len(o.links) <= h + 1
  <2>1. Len(p.links) \in Nat
    BY <1>1, <1>2, WalkIsTrail
  <2> QED BY <1>2, <1>6, <2>1
<1> HIDE DEF o
<1>10. /\ o \in OffersIn(F, L, l.to) /\ l.to \in Nodes
       /\ Walk(F, o) /\ o.hops[1] = from /\ Last(o.hops) = l.to
       /\ Len(o.links) <= h + 1
       /\ Cost(o) = Cost(p) + LinkCost(l)
       /\ Cost(o) \in Nat /\ Cost(p) \in Nat /\ LinkCost(l) \in Nat
       /\ LinkCost(l) = Step(A, l.from, l.to) => Tight(A, o)
  BY <1>2, <1>3, <1>4, <1>6, <1>7, <1>8, <1>9
<1> QED BY <1>10 DEF o, p

\* The cheapest offer takes the cheapest link.
LEMMA BestOfferIs ==
  ASSUME NEW A \in SUBSET Links, NEW F, Whole(A, F), NEW from, NEW h \in Nat, NEW L,
         SearchOK(A, F, from, h, L), NEW node, NEW o \in Cheapest(OffersIn(F, L, node))
  PROVE  Reaching(A, F, from, h + 1, node, o) /\ Cost(o) \in Nat
<1>1. PICK l \in F : l.from \in DOMAIN L /\ l.to = node /\ o = Along(L[l.from], l)
  BY DEF Cheapest, OffersIn
<1>2. /\ Walk(F, o) /\ o.hops[1] = from /\ Last(o.hops) = node
      /\ Len(o.links) <= h + 1
      /\ Cost(o) = Cost(L[l.from]) + LinkCost(l)
      /\ Cost(o) \in Nat /\ Cost(L[l.from]) \in Nat /\ LinkCost(l) \in Nat
      /\ LinkCost(l) = Step(A, l.from, l.to) => Tight(A, o)
  BY <1>1, OfferIs
<1>3. LinkCost(l) = Step(A, l.from, l.to)
  <2>1. /\ Step(A, l.from, l.to) \in Nat /\ Step(A, l.from, l.to) <= LinkCost(l)
        /\ \E m \in F : /\ m.from = l.from /\ m.to = l.to
                        /\ LinkCost(m) = Step(A, l.from, l.to)
    BY SameStep
  <2>2. PICK m \in F : m.from = l.from /\ m.to = l.to /\ LinkCost(m) = Step(A, l.from, l.to)
    BY <2>1
  <2>3. /\ Along(L[m.from], m) \in OffersIn(F, L, m.to)
        /\ Cost(Along(L[m.from], m)) = Cost(L[m.from]) + LinkCost(m)
    BY <1>1, <2>2, OfferIs
  <2>4. Cost(o) <= Cost(Along(L[m.from], m))
    BY <1>1, <2>2, <2>3 DEF Cheapest
  <2>5. Cost(L[l.from]) + LinkCost(l) <= Cost(L[l.from]) + Step(A, l.from, l.to)
    BY <1>2, <2>2, <2>3, <2>4
  <2> QED BY <1>2, <2>1, <2>5
<1> QED BY <1>2, <1>3 DEF Reaching

\* One layer more.
LEMMA SearchGoes ==
  ASSUME NEW A \in SUBSET Links, NEW F, Whole(A, F), NEW from, NEW h \in Nat, NEW L,
         SearchOK(A, F, from, h, L),
         NEW best, \A n \in ImprovedIn(F, L) : best[n] \in Cheapest(OffersIn(F, L, n)),
         NEW M, DOMAIN M = ImprovedIn(F, L) \cup DOMAIN L,
         \A n \in DOMAIN M : M[n] = IF n \in ImprovedIn(F, L) THEN best[n] ELSE L[n]
  PROVE  SearchOK(A, F, from, h + 1, M)
<1>1. F \in SUBSET Links /\ F \in SUBSET A
  BY DEF Whole
<1>2. ASSUME NEW node \in DOMAIN M
      PROVE  node \in Nodes /\ Reaching(A, F, from, h + 1, node, M[node])
  <2>1. CASE node \in ImprovedIn(F, L)
    <3>1. M[node] \in Cheapest(OffersIn(F, L, node))
      BY <2>1
    <3> QED BY <2>1, <3>1, BestOfferIs DEF ImprovedIn
  <2>2. CASE node \notin ImprovedIn(F, L)
    <3>1. node \in Nodes /\ Reaching(A, F, from, h, node, L[node]) /\ M[node] = L[node]
      BY <2>2 DEF SearchOK
    <3>2. Len(L[node].links) \in Nat
      BY <1>1, <3>1, WalkIsTrail DEF Reaching
    <3> QED BY <3>1, <3>2 DEF Reaching
  <2> QED BY <2>1, <2>2
\* A cell costs no more than what is offered to it, nor than it did.
<1>3. ASSUME NEW node \in Nodes, NEW o \in OffersIn(F, L, node), Cost(o) \in Nat
      PROVE  node \in DOMAIN M /\ Cost(M[node]) <= Cost(o)
  <2>1. CASE node \in ImprovedIn(F, L)
    BY <2>1 DEF Cheapest
  <2>2. CASE node \notin ImprovedIn(F, L)
    <3>1. node \in DOMAIN L /\ ~(Cost(o) < Cost(L[node]))
      BY <2>2 DEF ImprovedIn
    <3>2. Cost(L[node]) \in Nat
      BY <1>1, <3>1, ChargesAre DEF SearchOK, Reaching
    <3> QED BY <1>3, <2>2, <3>1, <3>2
  <2> QED BY <2>1, <2>2
<1>4. ASSUME NEW node \in DOMAIN L
      PROVE  Cost(M[node]) <= Cost(L[node]) /\ Cost(L[node]) \in Nat /\ Cost(M[node]) \in Nat
  <2>1. Cost(L[node]) \in Nat /\ node \in Nodes
    BY <1>1, ChargesAre DEF SearchOK, Reaching
  <2>2. CASE node \in ImprovedIn(F, L)
    <3>1. PICK o \in OffersIn(F, L, node) : Cost(o) < Cost(L[node])
      BY <2>2 DEF ImprovedIn
    <3>2. M[node] \in Cheapest(OffersIn(F, L, node))
      BY <2>2
    <3>3. Cost(M[node]) <= Cost(o) /\ Cost(M[node]) \in Nat
      BY <3>2, BestOfferIs DEF Cheapest
    <3>4. Cost(o) \in Nat
      BY OfferIs DEF OffersIn
    <3> QED BY <2>1, <3>1, <3>3, <3>4
  <2>3. CASE node \notin ImprovedIn(F, L)
    BY <2>1, <2>3
  <2> QED BY <2>2, <2>3
<1>5. ASSUME NEW hops, Trail(F, hops), hops[1] = from, Len(hops) - 1 <= h + 1
      PROVE  Last(hops) \in DOMAIN M /\ Cost(M[Last(hops)]) <= Toll(A, hops)
  <2>n. hops \in Seq(Nodes) /\ Len(hops) \in Nat /\ Len(hops) # 0
    BY <1>5 DEF Trail
  <2>t. Trail(A, hops) /\ Toll(A, hops) \in Nat
    BY <1>1, <1>5, Wider, StepsAre
  <2>1. CASE Len(hops) - 1 <= h
    <3>1. Last(hops) \in DOMAIN L /\ Cost(L[Last(hops)]) <= Toll(A, hops)
      BY <1>5, <2>1 DEF SearchOK
    <3>2. Cost(M[Last(hops)]) <= Cost(L[Last(hops)]) /\ Cost(L[Last(hops)]) \in Nat
          /\ Cost(M[Last(hops)]) \in Nat /\ Last(hops) \in DOMAIN M
      BY <1>4, <3>1
    <3> QED BY <2>t, <3>1, <3>2
  <2>2. CASE ~(Len(hops) - 1 <= h)
    <3> DEFINE k == Len(hops) - 1
               a == Upto(hops, k)
               b == Onward(hops, k)
               u == hops[k]
               n == Last(hops)
    <3>n. k \in 1..Len(hops) /\ k \in 1..(Len(hops) - 1) /\ k = h + 1 /\ k + 1 = Len(hops)
          /\ (Len(hops) - k) + 1 = 2 /\ (k - 1) + 2 = Len(hops) /\ (k - 1) + 1 = k
          /\ 1 \in 1..k /\ k \in 1..k /\ k - 1 = h /\ k \in Nat
      BY <1>5, <2>2, <2>n
    <3>1. /\ Len(a) = k /\ \A i \in 1..k : a[i] = hops[i]
          /\ Len(b) = 2 /\ \A i \in 1..2 : b[i] = hops[(k - 1) + i]
      <4> HIDE DEF k
      <4>1. /\ Len(a) = k /\ \A i \in 1..k : a[i] = hops[i]
            /\ Len(b) = (Len(hops) - k) + 1
            /\ \A i \in 1..((Len(hops) - k) + 1) : b[i] = hops[(k - 1) + i]
        BY <2>n, <3>n, Parts
      <4> HIDE DEF a, b
      <4> QED BY <3>n, <4>1
    <3>2. Trail(F, a) /\ Trail(A, a) /\ Trail(A, b) /\ Toll(A, hops) = Toll(A, a) + Toll(A, b)
      <4> HIDE DEF k
      <4> QED BY <1>1, <1>5, <2>t, <3>n, CutTrail, Wider
    <3>3. a[1] = from /\ Last(a) = u /\ b[1] = u /\ b[2] = n
      <4>1. a[1] = hops[1] /\ a[k] = hops[k]
        <5> HIDE DEF a, k
        <5> QED BY <3>n, <3>1
      <4>2. b[1] = hops[(k - 1) + 1] /\ b[2] = hops[(k - 1) + 2]
        <5>1. 1 \in 1..2 /\ 2 \in 1..2
          OBVIOUS
        <5> HIDE DEF b, k
        <5> QED BY <3>1, <5>1
      <4> HIDE DEF a, b, k
      <4> QED BY <1>5, <3>n, <3>1, <4>1, <4>2 DEF Last
    <3>4. u \in DOMAIN L /\ Cost(L[u]) <= Toll(A, a)
      <4>1. Len(a) - 1 <= h
        BY <3>1, <3>n
      <4> HIDE DEF a, k
      <4> QED BY <3>2, <3>3, <4>1 DEF SearchOK
    <3>5. Toll(A, b) = Step(A, u, n)
      BY <3>1, <3>2, <3>3, TollSmall
    <3>6. PICK l \in F : l.from = u /\ l.to = n
      BY <1>5, <3>n DEF Trail, Between, Last
    <3>7. PICK m \in F : m.from = u /\ m.to = n /\ LinkCost(m) = Step(A, u, n)
      BY <3>6, SameStep
    <3>8. /\ Along(L[m.from], m) \in OffersIn(F, L, m.to) /\ m.to \in Nodes
          /\ Cost(Along(L[m.from], m)) = Cost(L[m.from]) + LinkCost(m)
          /\ Cost(Along(L[m.from], m)) \in Nat
      BY <3>4, <3>7, OfferIs
    <3>9. n \in DOMAIN M /\ Cost(M[n]) <= Cost(Along(L[u], m))
      BY <1>3, <3>7, <3>8
    <3>10. Cost(Along(L[u], m)) = Cost(L[u]) + Toll(A, b)
      BY <3>5, <3>7, <3>8
    <3>11. Cost(M[n]) \in Nat
      BY <1>1, <1>2, <3>9, ChargesAre DEF Reaching
    <3>12. Toll(A, a) \in Nat /\ Toll(A, b) \in Nat /\ Cost(L[u]) \in Nat
      BY <1>4, <3>2, <3>4, StepsAre
    <3> HIDE DEF a, b, u, n, k
    <3>13. Cost(M[n]) <= Toll(A, hops)
      BY <3>2, <3>4, <3>9, <3>10, <3>11, <3>12
    <3> QED BY <3>9, <3>13 DEF n
  <2> QED BY <2>1, <2>2
<1> QED BY <1>2, <1>5 DEF SearchOK

\* Links cost something: a cheapest path comes back to no node.
LEMMA SearchFinds ==
  ASSUME NEW A \in SUBSET Links, NEW F, Whole(A, F), NEW from, NEW h \in Nat, NEW L,
         SearchOK(A, F, from, h, L), NEW node \in DOMAIN L
  PROVE  /\ Walk(A, L[node]) /\ Cost(L[node]) = Toll(A, L[node].hops) /\ Cost(L[node]) \in Nat
         /\ IsInjective(L[node].hops)
<1> DEFINE p == L[node]
<1>1. F \in SUBSET Links /\ F \in SUBSET A
  BY DEF Whole
<1>2. Walk(F, p) /\ Tight(A, p) /\ p.hops[1] = from /\ Last(p.hops) = node /\ Len(p.links) <= h
  BY DEF SearchOK, Reaching
<1> HIDE DEF p
<1>3. Walk(A, p) /\ Trail(F, p.hops) /\ Len(p.links) \in Nat
  BY <1>1, <1>2, WalkWider, WalkIsTrail
<1>4. Cost(p) = Toll(A, p.hops) /\ Cost(p) \in Nat
  BY <1>2, <1>3, CostIsToll, ChargesAre
<1>5. ASSUME NEW i \in 1..Len(p.hops), NEW j \in 1..Len(p.hops), i < j, p.hops[i] = p.hops[j]
      PROVE  FALSE
  <2>1. PICK gs : /\ Trail(F, gs) /\ Len(gs) < Len(p.hops)
                  /\ gs[1] = p.hops[1] /\ Last(gs) = Last(p.hops)
                  /\ Toll(A, gs) < Toll(A, p.hops)
    BY <1>1, <1>3, <1>5, LoopCut
  <2>2. Len(gs) - 1 <= h
    <3>1. Len(gs) \in Nat /\ Len(p.hops) = Len(p.links) + 1
      BY <1>2, <2>1 DEF Trail, Walk
    <3> QED BY <1>2, <1>3, <2>1, <3>1
  <2>3. Cost(p) <= Toll(A, gs)
    BY <1>2, <2>1, <2>2 DEF SearchOK, p
  <2>4. Toll(A, gs) \in Nat
    BY <1>1, <2>1, Wider, StepsAre
  <2> QED BY <1>4, <2>1, <2>3, <2>4
<1>6. DOMAIN p.hops = 1..Len(p.hops) /\ Len(p.hops) \in Nat
  BY <1>2 DEF Walk
<1>7. IsInjective(p.hops)
  <2> SUFFICES ASSUME NEW i \in 1..Len(p.hops), NEW j \in 1..Len(p.hops), p.hops[i] = p.hops[j]
               PROVE  i = j
    BY <1>6 DEF IsInjective
  <2>1. i \in Nat /\ j \in Nat
    OBVIOUS
  <2>2. ~(i < j) /\ ~(j < i)
    BY <1>5
  <2> QED BY <2>1, <2>2
<1> QED BY <1>3, <1>4, <1>7 DEF p

-----------------------------------------------------------------------------
(* Tours, and where one leaves the routes accepted so far.                 *)

\* What a route's nodes must be: from the source to the target t, within the
\* budget, through no node twice.
Tour(A, t, hops) ==
    /\ Trail(A, hops)
    /\ hops[1] = Source /\ Last(hops) = t
    /\ Len(hops) - 1 <= Hops
    /\ IsInjective(hops)

Sound(A, t, p) == Walk(A, p) /\ Tight(A, p) /\ Tour(A, t, p.hops)

\* Two node sequences agree on their first k nodes; a tour is on P as far as
\* some route of P agrees with it, and leaves P where that ends.
Agree(hops, other, k) ==
    k <= Len(hops) /\ k <= Len(other) /\ \A i \in 1..k : hops[i] = other[i]

On(P, hops, k) == \E p \in P : Agree(p.hops, hops, k)
Leaves(P, hops, k) == On(P, hops, k) /\ ~On(P, hops, k + 1)

LEMMA TourIs ==
  ASSUME NEW A, NEW t, NEW hops, Tour(A, t, hops)
  PROVE  /\ hops \in Seq(Nodes) /\ Len(hops) \in Nat /\ Len(hops) # 0 /\ DOMAIN hops = 1..Len(hops)
         /\ hops[1] = Source /\ hops[Len(hops)] = t
         /\ \A i, j \in 1..Len(hops) : hops[i] = hops[j] => i = j
BY DEF Tour, Trail, Last, IsInjective

LEMMA AgreeSym ==
  ASSUME NEW a, NEW b, NEW k, Agree(a, b, k)
  PROVE  Agree(b, a, k)
BY DEF Agree

LEMMA AgreeTrans ==
  ASSUME NEW a, NEW b, NEW c, NEW k, Agree(a, b, k), Agree(b, c, k)
  PROVE  Agree(a, c, k)
BY DEF Agree

LEMMA AgreeLess ==
  ASSUME NEW a, NEW b, Len(a) \in Nat, Len(b) \in Nat, NEW k \in Nat, NEW j \in Nat,
         j <= k, Agree(a, b, k)
  PROVE  Agree(a, b, j)
BY DEF Agree

\* No tour is the beginning of another.
LEMMA TourEnds ==
  ASSUME NEW A, NEW t, NEW a, NEW b, Tour(A, t, a), Tour(A, t, b), Agree(a, b, Len(a))
  PROVE  a = b
<1>1. /\ a \in Seq(Nodes) /\ Len(a) \in Nat /\ Len(a) # 0 /\ a[Len(a)] = t
      /\ b \in Seq(Nodes) /\ Len(b) \in Nat /\ b[Len(b)] = t
      /\ \A i, j \in 1..Len(b) : b[i] = b[j] => i = j
  BY TourIs
<1>2. Len(a) <= Len(b) /\ \A i \in 1..Len(a) : a[i] = b[i]
  BY DEF Agree
<1>3. Len(a) \in 1..Len(a) /\ Len(a) \in 1..Len(b) /\ Len(b) \in 1..Len(b)
  BY <1>1, <1>2
<1>4. b[Len(a)] = b[Len(b)]
  BY <1>1, <1>2, <1>3
<1>5. Len(a) = Len(b)
  BY <1>1, <1>3, <1>4
<1> QED BY <1>1, <1>2, <1>5, SeqEqual

\* Tours share their beginnings down to the source, and leave them once.
LEMMA OnLess ==
  ASSUME NEW A, NEW t, NEW P, \A p \in P : Sound(A, t, p), NEW hops, Tour(A, t, hops),
         NEW k \in Nat, NEW j \in Nat, j <= k, On(P, hops, k)
  PROVE  On(P, hops, j)
<1>1. PICK p \in P : Agree(p.hops, hops, k)
  BY DEF On
<1>2. Len(p.hops) \in Nat /\ Len(hops) \in Nat
  BY TourIs DEF Sound
<1>3. Agree(p.hops, hops, j)
  BY <1>1, <1>2, AgreeLess
<1> QED BY <1>3 DEF On

LEMMA LeavesOnce ==
  ASSUME NEW A, NEW t, NEW P, \A p \in P : Sound(A, t, p), NEW hops, Tour(A, t, hops),
         NEW k \in Nat, NEW j \in Nat, Leaves(P, hops, k), Leaves(P, hops, j)
  PROVE  k = j
<1>1. ASSUME NEW m \in Nat, NEW n \in Nat, m < n, Leaves(P, hops, m), Leaves(P, hops, n)
      PROVE  FALSE
  <2>1. m + 1 \in Nat /\ m + 1 <= n /\ On(P, hops, n)
    BY <1>1 DEF Leaves
  <2>2. On(P, hops, m + 1)
    BY <2>1, OnLess
  <2> QED BY <1>1, <2>2 DEF Leaves
<1>2. ~(k < j) /\ ~(j < k)
  BY <1>1
<1> QED BY <1>2

\* The node sequences of a set of routes.
Hopping(P) == {p.hops : p \in P}

LEMMA LeavesSomewhere ==
  ASSUME NEW A, NEW t, NEW P, P # {}, \A p \in P : Sound(A, t, p),
         NEW hops, Tour(A, t, hops), hops \notin Hopping(P)
  PROVE  \E k \in 1..(Len(hops) - 1) : Leaves(P, hops, k)
<1>1. Len(hops) \in Nat /\ Len(hops) # 0 /\ hops[1] = Source
  BY TourIs
<1>2. On(P, hops, 1)
  <2>1. PICK p \in P : TRUE
    OBVIOUS
  <2>2. Len(p.hops) \in Nat /\ Len(p.hops) # 0 /\ p.hops[1] = Source
    BY TourIs DEF Sound
  <2>3. Agree(p.hops, hops, 1)
    BY <1>1, <2>2 DEF Agree
  <2> QED BY <2>3 DEF On
<1>3. ~On(P, hops, Len(hops))
  <2> SUFFICES ASSUME NEW p \in P, Agree(p.hops, hops, Len(hops)) PROVE FALSE
    BY DEF On
  <2>1. Agree(hops, p.hops, Len(hops))
    BY AgreeSym
  <2>2. hops = p.hops
    BY <2>1, TourEnds DEF Sound
  <2> QED BY <2>2 DEF Hopping
<1> DEFINE Off == {k \in 1..Len(hops) : ~On(P, hops, k)}
<1>4. Off \in SUBSET Nat /\ Off # {}
  BY <1>1, <1>3
<1>5. PICK k \in Off : \A j \in Off : k <= j
  <2> HIDE DEF Off
  <2> QED BY <1>4, Least
<1>6. k \in 1..Len(hops) /\ k # 1 /\ ~On(P, hops, k)
  BY <1>2
<1>7. k - 1 \in 1..(Len(hops) - 1) /\ k - 1 \in 1..Len(hops) /\ ~(k <= k - 1) /\ (k - 1) + 1 = k
  BY <1>1, <1>6
<1>8. k - 1 \notin Off
  <2> HIDE DEF Off
  <2> QED BY <1>5, <1>7
<1>9. On(P, hops, k - 1)
  BY <1>7, <1>8
<1> QED BY <1>6, <1>7, <1>9 DEF Leaves

-----------------------------------------------------------------------------
(* What is true of the routes accepted, P, and of the candidates, C: no    *)
(* two candidates leave P by the same edge, and each is the cheapest tour  *)
(* that leaves by its own.                                                 *)

YenOK(A, t, P, C) ==
    /\ \A p \in P \cup C : Sound(A, t, p)
    /\ \A p, q \in P \cup C : p.hops = q.hops => p = q
    /\ P \cap C = {}
    /\ \A c, d \in C : \A k \in Nat :
          Leaves(P, c.hops, k) /\ Agree(c.hops, d.hops, k + 1) => c = d
    /\ \A c \in C : \A k \in Nat : Leaves(P, c.hops, k) =>
          \A hops : Tour(A, t, hops) /\ Agree(hops, c.hops, k + 1) => Cost(c) <= Toll(A, hops)

\* Some candidate leaves P where the tour does, and costs no more.
Covered(A, P, C, hops, k) ==
    \E c \in C : /\ Agree(c.hops, hops, k) /\ Leaves(P, c.hops, k)
                 /\ Cost(c) <= Toll(A, hops)

\* That is so of every tour not accepted, but for those that leave P at a node
\* of its last route that is yet to be diverted at, the s-th or later.
CoveredBut(A, t, P, C, last, s) ==
    \A hops : Tour(A, t, hops) /\ hops \notin Hopping(P) =>
        \A k \in Nat : Leaves(P, hops, k) =>
            \/ k >= s /\ Agree(hops, last.hops, k)
            \/ Covered(A, P, C, hops, k)

\* No tour is missing that is cheaper than the last route accepted.
NoneCheaper(A, t, P, last) ==
    \A hops : Tour(A, t, hops) /\ hops \notin Hopping(P) => Cost(last) <= Toll(A, hops)

LEMMA SoundIs ==
  ASSUME NEW A \in SUBSET Links, NEW t, NEW p, Sound(A, t, p)
  PROVE  /\ Tour(A, t, p.hops) /\ Trail(A, p.hops) /\ Walk(A, p)
         /\ Cost(p) = Toll(A, p.hops) /\ Cost(p) \in Nat
         /\ Len(p.hops) \in Nat /\ Len(p.hops) # 0
BY CostIsToll, ChargesAre, TourIs DEF Sound, Tour

\* When every spur node of the last route has been tried, nothing is missing.
LEMMA CoversAll ==
  ASSUME NEW A \in SUBSET Links, NEW t, NEW P, NEW C, YenOK(A, t, P, C),
         NEW last \in P, CoveredBut(A, t, P, C, last, Len(last.hops)),
         NEW hops, Tour(A, t, hops), hops \notin Hopping(P),
         NEW k \in Nat, Leaves(P, hops, k)
  PROVE  Covered(A, P, C, hops, k)
<1>1. Sound(A, t, last) /\ Len(last.hops) \in Nat /\ Len(hops) \in Nat
  BY TourIs, SoundIs DEF YenOK
<1>2. ASSUME k >= Len(last.hops), Agree(hops, last.hops, k) PROVE FALSE
  <2>1. Agree(hops, last.hops, Len(last.hops))
    BY <1>1, <1>2, AgreeLess
  <2>2. last.hops = hops
    BY <1>1, <2>1, AgreeSym, TourEnds DEF Sound
  <2> QED BY <2>2 DEF Hopping
<1> QED BY <1>2 DEF CoveredBut

-----------------------------------------------------------------------------
(* Accepting the cheapest candidate.                                       *)

LEMMA AcceptKeeps ==
  ASSUME NEW A \in SUBSET Links, NEW t, NEW P, NEW C, YenOK(A, t, P, C),
         NEW last \in P, CoveredBut(A, t, P, C, last, Len(last.hops)),
         NoneCheaper(A, t, P, last),
         NEW best \in C, \A c \in C : Cost(best) <= Cost(c)
  PROVE  /\ YenOK(A, t, P \cup {best}, C \ {best})
         /\ CoveredBut(A, t, P \cup {best}, C \ {best}, best, 1)
         /\ NoneCheaper(A, t, P \cup {best}, best)
         /\ Cost(last) <= Cost(best)
<1> DEFINE Q == P \cup {best}
           D == C \ {best}
<1>s. \A p \in P \cup C : Sound(A, t, p)
  BY DEF YenOK
<1>b. Tour(A, t, best.hops) /\ best.hops \notin Hopping(P) /\ best \notin P
  BY <1>s DEF YenOK, Hopping, Sound
\* Another candidate leaves where it did.
<1>1. ASSUME NEW c \in D, NEW k \in Nat, Leaves(P, c.hops, k)
      PROVE  Leaves(Q, c.hops, k)
  <2>1. On(Q, c.hops, k) /\ ~On(P, c.hops, k + 1)
    BY <1>1 DEF Leaves, On
  <2>2. ~Agree(best.hops, c.hops, k + 1)
    <3>1. Agree(best.hops, c.hops, k + 1) => Agree(c.hops, best.hops, k + 1)
      BY AgreeSym
    <3>2. Agree(c.hops, best.hops, k + 1) => c = best
      BY <1>1 DEF YenOK
    <3> QED BY <3>1, <3>2
  <2> QED BY <2>1, <2>2 DEF Leaves, On
<1>2. ASSUME NEW c \in D, NEW k \in Nat, Leaves(Q, c.hops, k)
      PROVE  Leaves(P, c.hops, k)
  <2>1. PICK j \in 1..(Len(c.hops) - 1) : Leaves(P, c.hops, j)
    <3>1. c.hops \notin Hopping(P)
      BY DEF YenOK, Hopping
    <3>2. Sound(A, t, c) /\ P # {} /\ \A p \in P : Sound(A, t, p)
      BY <1>s
    <3> QED BY <3>1, <3>2, LeavesSomewhere DEF Sound
  <2>2. Leaves(Q, c.hops, j)
    <3> HIDE DEF Q, D
    <3> QED BY <1>1, <2>1
  <2>3. \A q \in Q : Sound(A, t, q)
    BY <1>s
  <2>4. Tour(A, t, c.hops) /\ j \in Nat
    BY <1>s DEF Sound
  <2>5. j = k
    <3> HIDE DEF Q, D
    <3> QED BY <1>2, <2>2, <2>3, <2>4, LeavesOnce
  <2> QED BY <2>1, <2>5
<1>3. YenOK(A, t, Q, D)
  <2>1. /\ \A p \in Q \cup D : Sound(A, t, p)
        /\ \A p, q \in Q \cup D : p.hops = q.hops => p = q
        /\ Q \cap D = {}
    BY <1>b DEF YenOK
  <2>2. ASSUME NEW c \in D, NEW d \in D, NEW k \in Nat,
               Leaves(Q, c.hops, k), Agree(c.hops, d.hops, k + 1)
        PROVE  c = d
    <3>1. Leaves(P, c.hops, k)
      BY <1>2, <2>2
    <3> QED BY <2>2, <3>1 DEF YenOK
  <2>3. ASSUME NEW c \in D, NEW k \in Nat, Leaves(Q, c.hops, k),
               NEW hops, Tour(A, t, hops), Agree(hops, c.hops, k + 1)
        PROVE  Cost(c) <= Toll(A, hops)
    <3>1. Leaves(P, c.hops, k)
      BY <1>2, <2>3
    <3> QED BY <2>3, <3>1 DEF YenOK
  <2> HIDE DEF Q, D
  <2> QED BY <2>1, <2>2, <2>3 DEF YenOK
<1>4. ASSUME NEW hops, Tour(A, t, hops), hops \notin Hopping(Q), NEW k \in Nat,
             Leaves(Q, hops, k), ~Agree(hops, best.hops, k)
      PROVE  Covered(A, Q, D, hops, k)
  <2>1. ~Agree(best.hops, hops, k)
    BY <1>4, AgreeSym
  <2>2. Leaves(P, hops, k)
    BY <1>4, <2>1 DEF Leaves, On
  <2>3. hops \notin Hopping(P)
    BY <1>4 DEF Hopping
  <2>4. Covered(A, P, C, hops, k)
    BY <1>4, <2>2, <2>3, CoversAll
  <2>5. PICK c \in C : Agree(c.hops, hops, k) /\ Leaves(P, c.hops, k) /\ Cost(c) <= Toll(A, hops)
    BY <2>4 DEF Covered
  <2>6. c \in D
    BY <2>1, <2>5
  <2>7. Leaves(Q, c.hops, k)
    BY <1>1, <2>5, <2>6
  <2> HIDE DEF Q, D
  <2> QED BY <2>5, <2>6, <2>7 DEF Covered
<1>5. CoveredBut(A, t, Q, D, best, 1)
  <2> SUFFICES ASSUME NEW hops, Tour(A, t, hops), hops \notin Hopping(Q),
                      NEW k \in Nat, Leaves(Q, hops, k), ~Covered(A, Q, D, hops, k)
               PROVE  k >= 1 /\ Agree(hops, best.hops, k)
    BY DEF CoveredBut
  <2>1. Agree(hops, best.hops, k)
    BY <1>4
  <2>2. k >= 1
    <3> SUFFICES ASSUME k = 0 PROVE FALSE
      OBVIOUS
    <3>1. hops[1] = Source /\ best.hops[1] = Source /\ Len(hops) \in Nat /\ Len(hops) # 0
          /\ Len(best.hops) \in Nat /\ Len(best.hops) # 0
      BY <1>b, TourIs
    <3>2. Agree(best.hops, hops, k + 1)
      BY <3>1 DEF Agree
    <3>3. On(Q, hops, k + 1)
      BY <3>2 DEF On
    <3> QED BY <3>3 DEF Leaves
  <2> QED BY <2>1, <2>2
<1>6. NoneCheaper(A, t, Q, best)
  <2> SUFFICES ASSUME NEW hops, Tour(A, t, hops), hops \notin Hopping(Q)
               PROVE  Cost(best) <= Toll(A, hops)
    BY DEF NoneCheaper
  <2>1. hops \notin Hopping(P)
    BY DEF Hopping
  <2>2. PICK k \in 1..(Len(hops) - 1) : Leaves(P, hops, k)
    BY <1>s, <2>1, LeavesSomewhere
  <2>3. Covered(A, P, C, hops, k)
    BY <2>1, <2>2, CoversAll
  <2>4. PICK c \in C : Cost(c) <= Toll(A, hops)
    BY <2>3 DEF Covered
  <2>5. Cost(best) <= Cost(c) /\ Cost(best) \in Nat /\ Cost(c) \in Nat /\ Toll(A, hops) \in Nat
    BY <1>s, SoundIs, StepsAre DEF Tour
  <2> QED BY <2>4, <2>5
<1>7. Cost(last) <= Cost(best)
  BY <1>s, <1>b, SoundIs DEF NoneCheaper
<1> QED BY <1>3, <1>5, <1>6, <1>7

\* The first route accepted.
LEMMA FirstKeeps ==
  ASSUME NEW A \in SUBSET Links, NEW t, NEW p, Sound(A, t, p)
  PROVE  YenOK(A, t, {p}, {}) /\ CoveredBut(A, t, {p}, {}, p, 1)
<1>1. YenOK(A, t, {p}, {})
  BY DEF YenOK
<1>2. CoveredBut(A, t, {p}, {}, p, 1)
  <2> SUFFICES ASSUME NEW hops, Tour(A, t, hops), NEW k \in Nat, Leaves({p}, hops, k)
               PROVE  k >= 1 /\ Agree(hops, p.hops, k)
    BY DEF CoveredBut
  <2>1. Agree(p.hops, hops, k) /\ ~Agree(p.hops, hops, k + 1)
    BY DEF Leaves, On
  <2>2. k >= 1
    <3> SUFFICES ASSUME k = 0 PROVE FALSE
      OBVIOUS
    <3>1. hops[1] = Source /\ p.hops[1] = Source /\ Len(hops) \in Nat /\ Len(hops) # 0
          /\ Len(p.hops) \in Nat /\ Len(p.hops) # 0
      BY TourIs DEF Sound
    <3>2. Agree(p.hops, hops, k + 1)
      BY <3>1 DEF Agree
    <3> QED BY <2>1, <3>2
  <2> QED BY <2>1, <2>2, AgreeSym
<1> QED BY <1>1, <1>2

-----------------------------------------------------------------------------
(* Diverting the last route at its s-th node.                              *)

\* What is banned to divert the route at its s-th node: the nodes before it,
\* and the edges the known paths K of the same beginning take out of it.
BannedNodesAt(root, s) == {root[i] : i \in 1..(s - 1)}

BannedEdgesAt(K, root, s) ==
    {<<path.hops[s], path.hops[s + 1]>> :
        path \in {p \in K : /\ Len(p.hops) > s
                            /\ SubSeq(p.hops, 1, s) = SubSeq(root, 1, s)}}

Allowed(A, K, root, s) ==
    {l \in A : l.to \notin BannedNodesAt(root, s) /\ <<l.from, l.to>> \notin BannedEdgesAt(K, root, s)}

LEMMA AllowedIsWhole ==
  ASSUME NEW A, NEW K, NEW root, NEW s
  PROVE  Whole(A, Allowed(A, K, root, s))
BY DEF Whole, Allowed

LEMMA SameRoot ==
  ASSUME NEW a \in Seq(Nodes), NEW b \in Seq(Nodes), NEW s \in Nat, s # 0, s <= Len(a), s <= Len(b)
  PROVE  SubSeq(a, 1, s) = SubSeq(b, 1, s) <=> Agree(a, b, s)
<1> DEFINE u == Upto(a, s)
           v == Upto(b, s)
<1>1. s \in 1..Len(a) /\ s \in 1..Len(b)
  OBVIOUS
<1>2. /\ u \in Seq(Nodes) /\ Len(u) = s /\ \A i \in 1..s : u[i] = a[i]
      /\ v \in Seq(Nodes) /\ Len(v) = s /\ \A i \in 1..s : v[i] = b[i]
  BY <1>1, Parts
<1> HIDE DEF u, v
<1>3. u = v => Agree(a, b, s)
  BY <1>2 DEF Agree
<1>4. Agree(a, b, s) => u = v
  BY <1>2, SeqEqual DEF Agree
<1> QED BY <1>3, <1>4 DEF u, v, Upto

\* A known path that takes the same edge as a tour out of the root bans it.
LEMMA EdgeIsBanned ==
  ASSUME NEW A, NEW t, NEW K, NEW q \in K, Tour(A, t, q.hops),
         NEW root \in Seq(Nodes), NEW s \in Nat, s # 0, s <= Len(root),
         NEW hops, Agree(hops, root, s), Agree(q.hops, hops, s + 1)
  PROVE  <<hops[s], hops[s + 1]>> \in BannedEdgesAt(K, root, s)
<1>1. q.hops \in Seq(Nodes) /\ Len(q.hops) \in Nat
  BY TourIs
<1>2. s + 1 <= Len(q.hops) /\ q.hops[s] = hops[s] /\ q.hops[s + 1] = hops[s + 1]
  BY DEF Agree
<1>3. Agree(q.hops, root, s)
  BY <1>1, <1>2 DEF Agree
<1>4. SubSeq(q.hops, 1, s) = SubSeq(root, 1, s)
  BY <1>1, <1>2, <1>3, SameRoot
<1>5. Len(q.hops) > s
  BY <1>1, <1>2
<1> QED BY <1>2, <1>4, <1>5 DEF BannedEdgesAt

\* Only such a path does.
LEMMA BannedEdgeIsTaken ==
  ASSUME NEW A, NEW t, NEW K, \A p \in K : Tour(A, t, p.hops),
         NEW hops, Tour(A, t, hops),
         NEW root \in Seq(Nodes), NEW s \in Nat, s # 0, s <= Len(root), Agree(hops, root, s),
         NEW i \in 1..(Len(hops) - 1),
         <<hops[i], hops[i + 1]>> \in BannedEdgesAt(K, root, s)
  PROVE  i = s /\ \E q \in K : Agree(q.hops, hops, s + 1)
<1>1. PICK q \in K : /\ Len(q.hops) > s
                     /\ SubSeq(q.hops, 1, s) = SubSeq(root, 1, s)
                     /\ <<hops[i], hops[i + 1]>> = <<q.hops[s], q.hops[s + 1]>>
  BY DEF BannedEdgesAt
<1>2. /\ q.hops \in Seq(Nodes) /\ Len(q.hops) \in Nat
      /\ Len(hops) \in Nat /\ \A m, n \in 1..Len(hops) : hops[m] = hops[n] => m = n
  BY TourIs
<1>3. Agree(q.hops, root, s)
  BY <1>1, <1>2, SameRoot
<1>4. q.hops[s] = hops[s] /\ s \in 1..Len(hops) /\ i \in 1..Len(hops)
  BY <1>2, <1>3 DEF Agree
<1>5. i = s
  BY <1>1, <1>2, <1>4
<1>6. Agree(q.hops, hops, s + 1)
  <2>1. s + 1 <= Len(q.hops) /\ s + 1 <= Len(hops) /\ q.hops[s + 1] = hops[s + 1]
    BY <1>1, <1>2, <1>5
  <2>2. ASSUME NEW j \in 1..(s + 1) PROVE q.hops[j] = hops[j]
    <3>1. CASE j = s + 1
      BY <2>1, <3>1
    <3>2. CASE j # s + 1
      <4>1. j \in 1..s
        BY <3>2
      <4> QED BY <1>3, <4>1 DEF Agree
    <3> QED BY <3>1, <3>2
  <2> QED BY <2>1, <2>2 DEF Agree
<1> QED BY <1>5, <1>6

\* A tour that takes no known path's edge out of the root goes on, from the
\* spur node, over links that are not banned.
LEMMA TailIsAllowed ==
  ASSUME NEW A \in SUBSET Links, NEW t, NEW K, \A p \in K : Tour(A, t, p.hops),
         NEW hops, Tour(A, t, hops),
         NEW root \in Seq(Nodes), NEW s \in 1..Len(root), Agree(hops, root, s),
         \A q \in K : ~Agree(q.hops, hops, s + 1)
  PROVE  Trail(Allowed(A, K, root, s), Onward(hops, s))
<1> DEFINE F == Allowed(A, K, root, s)
           g == Onward(hops, s)
<1>1. /\ hops \in Seq(Nodes) /\ Len(hops) \in Nat
      /\ \A m, n \in 1..Len(hops) : hops[m] = hops[n] => m = n
      /\ s \in Nat /\ s # 0 /\ s <= Len(root) /\ s <= Len(hops)
  BY TourIs DEF Agree
<1>2. /\ g \in Seq(Nodes) /\ Len(g) = (Len(hops) - s) + 1
      /\ \A i \in 1..((Len(hops) - s) + 1) : g[i] = hops[(s - 1) + i]
  BY <1>1, Parts
<1> HIDE DEF g
<1>3. ASSUME NEW i \in 1..(Len(g) - 1)
      PROVE  Between(F, g[i], g[i + 1]) # {}
  <2> DEFINE m == (s - 1) + i
  <2>0. i \in Nat /\ i # 0 /\ i <= Len(hops) - s
    BY <1>1, <1>2
  <2>1. /\ i \in 1..((Len(hops) - s) + 1) /\ i + 1 \in 1..((Len(hops) - s) + 1)
        /\ m \in 1..(Len(hops) - 1) /\ m \in 1..Len(hops) /\ m + 1 \in 1..Len(hops)
        /\ (s - 1) + (i + 1) = m + 1 /\ m + 1 > s /\ m \in Nat
    BY <1>1, <2>0
  <2>2. g[i] = hops[m] /\ g[i + 1] = hops[m + 1]
    <3>1. g[i] = hops[(s - 1) + i] /\ g[i + 1] = hops[(s - 1) + (i + 1)]
      BY <1>2, <2>1
    <3> QED BY <2>1, <3>1
  <2> HIDE DEF m
  <2>3. PICK l \in A : l.from = hops[m] /\ l.to = hops[m + 1]
    BY <2>1 DEF Tour, Trail, Between
  <2>4. hops[m + 1] \notin BannedNodesAt(root, s)
    <3> SUFFICES ASSUME NEW j \in 1..(s - 1), hops[m + 1] = root[j] PROVE FALSE
      BY DEF BannedNodesAt
    <3>1. j \in 1..s /\ j \in 1..Len(hops) /\ j \in Nat /\ j < s
      BY <1>1
    <3>2. hops[j] = hops[m + 1]
      BY <3>1 DEF Agree
    <3>3. j = m + 1
      BY <1>1, <2>1, <3>1, <3>2
    <3> QED BY <2>1, <3>1, <3>3
  <2>5. <<hops[m], hops[m + 1]>> \notin BannedEdgesAt(K, root, s)
    BY <1>1, <2>1, BannedEdgeIsTaken
  <2>6. l \in F
    BY <2>3, <2>4, <2>5 DEF Allowed
  <2> QED BY <2>2, <2>3, <2>6 DEF Between
<1>4. Len(g) # 0
  BY <1>1, <1>2
<1>5. Trail(F, g)
  <2> HIDE DEF F
  <2> QED BY <1>2, <1>3, <1>4 DEF Trail
<1> QED BY <1>5 DEF g

\* What the search from a spur node leads to.
Spurred(A, t, P, C, last, s, L) ==
    /\ YenOK(A, t, P, C) /\ last \in P
    /\ s \in 1..(Len(last.hops) - 1)
    /\ SearchOK(A, Allowed(A, P \cup C, last.hops, s), last.hops[s], Hops - (s - 1), L)

LEMMA HopsType == Hops \in Nat
BY PlannerAssumption DEF PlannerAssumption, Hops

LEMMA SpurredIs ==
  ASSUME NEW A \in SUBSET Links, NEW t, NEW P, NEW C, NEW last, NEW s, NEW L,
         Spurred(A, t, P, C, last, s, L)
  PROVE  /\ Sound(A, t, last) /\ last.hops \in Seq(Nodes)
         /\ Len(last.hops) \in Nat /\ s \in Nat /\ s # 0 /\ s < Len(last.hops)
         /\ s \in 1..Len(last.hops) /\ last.hops[s] # t
         /\ Hops - (s - 1) \in Nat
         /\ \A m, n \in 1..Len(last.hops) : last.hops[m] = last.hops[n] => m = n
         /\ \A q \in P \cup C : Sound(A, t, q)
<1>1. \A q \in P \cup C : Sound(A, t, q)
  BY DEF Spurred, YenOK
<1>2. Sound(A, t, last) /\ Tour(A, t, last.hops)
  BY <1>1 DEF Spurred, Sound
<1>3. /\ last.hops \in Seq(Nodes) /\ Len(last.hops) \in Nat /\ last.hops[Len(last.hops)] = t
      /\ \A m, n \in 1..Len(last.hops) : last.hops[m] = last.hops[n] => m = n
  BY <1>2, TourIs
<1>4. s \in Nat /\ s # 0 /\ s < Len(last.hops) /\ s \in 1..Len(last.hops)
      /\ Len(last.hops) \in 1..Len(last.hops) /\ s # Len(last.hops)
  BY <1>3 DEF Spurred
<1>5. last.hops[s] # t
  BY <1>3, <1>4
<1>6. Hops - (s - 1) \in Nat
  <2>1. Len(last.hops) - 1 <= Hops
    BY <1>2 DEF Tour
  <2> QED BY <1>3, <1>4, <2>1, HopsType
<1> QED BY <1>1, <1>2, <1>3, <1>4, <1>5, <1>6

\* A target that is reached makes a tour, out of the root by an edge no known
\* path takes.
LEMMA SpurDown ==
  ASSUME NEW A \in SUBSET Links, NEW t, NEW P, NEW C, NEW last, NEW s, NEW L,
         Spurred(A, t, P, C, last, s, L), t \in DOMAIN L
  PROVE  LET route == Rooted(last, s - 1, L[t])
         IN  /\ Sound(A, t, route) /\ Agree(route.hops, last.hops, s)
             /\ \A q \in P \cup C : ~Agree(q.hops, route.hops, s + 1)
             /\ Cost(route) = Toll(A, Upto(last.hops, s)) + Cost(L[t])
             /\ IsInjective(L[t].hops)
<1> DEFINE root == last.hops
           K == P \cup C
           F == Allowed(A, K, root, s)
           r == L[t]
           route == Rooted(last, s - 1, r)
           g == Glue(root, s, r.hops)
           h == Hops - (s - 1)
<1>1. /\ Sound(A, t, last) /\ root \in Seq(Nodes) /\ Len(root) \in Nat
      /\ s \in Nat /\ s # 0 /\ s < Len(root) /\ s \in 1..Len(root) /\ root[s] # t
      /\ h \in Nat /\ \A m, n \in 1..Len(root) : root[m] = root[n] => m = n
      /\ \A q \in K : Sound(A, t, q)
  BY SpurredIs
<1>2. SearchOK(A, F, root[s], h, L) /\ Whole(A, F) /\ F \in SUBSET A /\ F \in SUBSET Links
  BY AllowedIsWhole DEF Spurred, Whole
<1> HIDE DEF F, h
<1>3. /\ Walk(A, r) /\ Cost(r) = Toll(A, r.hops) /\ IsInjective(r.hops)
  BY <1>1, <1>2, SearchFinds
<1>4. Walk(F, r) /\ Tight(A, r) /\ r.hops[1] = root[s] /\ Last(r.hops) = t /\ Len(r.links) <= h
  BY <1>2 DEF SearchOK, Reaching
<1>5. /\ r.hops \in Seq(Nodes) /\ Len(r.hops) = Len(r.links) + 1 /\ Len(r.links) \in Nat
      /\ Len(r.hops) \in Nat /\ Len(r.hops) # 0 /\ DOMAIN r.hops = 1..Len(r.hops)
      /\ \A i \in 1..Len(r.links) : /\ r.links[i] \in F
                                    /\ r.links[i].from = r.hops[i] /\ r.links[i].to = r.hops[i + 1]
  BY <1>4 DEF Walk
<1>6. r.hops[Len(r.hops)] = t /\ Len(r.hops) # 1 /\ 1 \in 1..Len(r.links)
  <2>1. r.hops[Len(r.hops)] = t
    BY <1>4 DEF Last
  <2>2. Len(r.hops) # 1
    BY <1>1, <1>4, <2>1
  <2> QED BY <1>5, <2>1, <2>2
<1>7. Walk(A, route) /\ Tight(A, route) /\ route.hops = g
  <2>1. Walk(A, last) /\ Tight(A, last)
    BY <1>1 DEF Sound
  <2> HIDE DEF r
  <2> QED BY <1>1, <1>3, <1>4, <2>1, RootedIs
<1>8. /\ g \in Seq(Nodes) /\ Len(g) = (s - 1) + Len(r.hops)
      /\ \A i \in 1..s : g[i] = root[i]
      /\ \A i \in 1..Len(r.hops) : g[(s - 1) + i] = r.hops[i]
  <2> DEFINE b == r.hops
  <2>1. b \in Seq(Nodes) /\ Len(b) # 0 /\ b[1] = root[s]
    BY <1>4, <1>5
  <2> HIDE DEF b, root
  <2>2. /\ Glue(root, s, b) \in Seq(Nodes) /\ Len(Glue(root, s, b)) = (s - 1) + Len(b)
        /\ \A i \in 1..s : Glue(root, s, b)[i] = root[i]
        /\ \A i \in 1..Len(b) : Glue(root, s, b)[(s - 1) + i] = b[i]
    BY <1>1, <2>1, GlueIs
  <2> QED BY <2>2 DEF b
<1>9. Trail(A, g) /\ Toll(A, g) = Toll(A, Upto(root, s)) + Cost(r)
  <2>1. Trail(A, root) /\ Trail(A, r.hops)
    BY <1>1, <1>3, SoundIs, WalkIsTrail
  <2> QED BY <1>1, <1>3, <1>4, <2>1, GlueTrails
<1> HIDE DEF g, r, root, K
<1>10. ASSUME NEW i \in 1..Len(g), NEW j \in 1..Len(g), i < j, g[i] = g[j]
       PROVE  FALSE
  <2>n. i \in Nat /\ j \in Nat /\ i # 0 /\ j <= (s - 1) + Len(r.hops)
    BY <1>8
  <2>1. CASE j <= s
    <3>1. i \in 1..s /\ j \in 1..s /\ i \in 1..Len(root) /\ j \in 1..Len(root) /\ i # j
      BY <1>1, <1>10, <2>1, <2>n
    <3> QED BY <1>1, <1>8, <1>10, <3>1
  <2>2. CASE i >= s
    <3> DEFINE m == (i - s) + 1
               n == (j - s) + 1
    <3>1. /\ m \in 1..Len(r.hops) /\ n \in 1..Len(r.hops) /\ m # n
          /\ (s - 1) + m = i /\ (s - 1) + n = j
      BY <1>1, <1>5, <1>10, <2>2, <2>n
    <3> HIDE DEF m, n
    <3>2. g[(s - 1) + m] = r.hops[m] /\ g[(s - 1) + n] = r.hops[n]
      BY <1>8, <3>1
    <3>3. r.hops[m] = r.hops[n]
      BY <1>10, <3>1, <3>2
    <3> QED BY <1>3, <1>5, <3>1, <3>3 DEF IsInjective
  <2>3. CASE i < s /\ ~(j <= s)
    <3> DEFINE n == j - s
    <3>1. /\ i \in 1..s /\ i \in 1..(s - 1) /\ n \in 1..Len(r.links) /\ n + 1 \in 1..Len(r.hops)
          /\ (s - 1) + (n + 1) = j
      BY <1>1, <1>5, <2>3, <2>n
    <3> HIDE DEF n
    <3>2. g[i] = root[i] /\ g[(s - 1) + (n + 1)] = r.hops[n + 1]
      BY <1>8, <3>1
    <3>3. r.links[n].to = root[i] /\ r.links[n] \in F
      BY <1>5, <1>10, <3>1, <3>2
    <3> QED BY <3>1, <3>3 DEF F, Allowed, BannedNodesAt
  <2> QED BY <1>1, <2>1, <2>2, <2>3, <2>n
<1>11. IsInjective(g)
  <2>1. DOMAIN g = 1..Len(g)
    BY <1>8
  <2> SUFFICES ASSUME NEW i \in 1..Len(g), NEW j \in 1..Len(g), g[i] = g[j]
               PROVE  i = j
    BY <2>1 DEF IsInjective
  <2>2. i \in Int /\ j \in Int
    OBVIOUS
  <2>3. ~(i < j) /\ ~(j < i)
    BY <1>10
  <2> QED BY <2>2, <2>3
<1>12. Tour(A, t, g)
  <2>1. g[1] = Source
    <3>1. root[1] = Source /\ 1 \in 1..s
      BY <1>1, TourIs DEF Sound, root
    <3> QED BY <1>8, <3>1
  <2>2. Last(g) = t
    <3>1. Len(r.hops) \in 1..Len(r.hops)
      BY <1>5
    <3>2. g[(s - 1) + Len(r.hops)] = r.hops[Len(r.hops)]
      BY <1>8, <3>1
    <3>3. r.hops[Len(r.hops)] = t
      BY <1>6 DEF r
    <3> QED BY <1>8, <3>2, <3>3 DEF Last
  <2>3. Len(g) - 1 <= Hops
    <3>1. Len(r.links) <= h /\ Len(g) = (s - 1) + (Len(r.links) + 1)
      BY <1>4, <1>5, <1>8
    <3>2. Len(r.links) <= Hops - (s - 1)
      BY <3>1 DEF h
    <3> QED BY <1>1, <1>5, <3>1, <3>2, HopsType
  <2> QED BY <1>9, <1>11, <2>1, <2>2, <2>3 DEF Tour
<1>13. Sound(A, t, route) /\ Cost(route) = Toll(A, Upto(root, s)) + Cost(r)
  <2>1. Sound(A, t, route)
    BY <1>7, <1>12 DEF Sound
  <2>2. Cost(route) = Toll(A, route.hops)
    BY <2>1, SoundIs
  <2> QED BY <1>7, <1>9, <2>1, <2>2
<1>14. Agree(g, root, s)
  <2>1. s <= Len(g) /\ s <= Len(root)
    BY <1>1, <1>5, <1>8
  <2> QED BY <1>8, <2>1 DEF Agree
<1>15. ASSUME NEW q \in K, Agree(q.hops, g, s + 1)
       PROVE  FALSE
  <2>1. Tour(A, t, q.hops)
    BY <1>1 DEF Sound
  <2>2. <<g[s], g[s + 1]>> \in BannedEdgesAt(K, root, s)
    <3>1. /\ root \in Seq(Nodes) /\ s \in Nat /\ s # 0 /\ s <= Len(root)
          /\ Agree(g, root, s) /\ Agree(q.hops, g, s + 1)
      BY <1>1, <1>14, <1>15
    <3> QED BY <1>15, <2>1, <3>1, EdgeIsBanned
  <2>3. g[s] = r.hops[1] /\ g[s + 1] = r.hops[2]
    <3>1. /\ 1 \in 1..Len(r.hops) /\ 2 \in 1..Len(r.hops)
          /\ (s - 1) + 1 = s /\ (s - 1) + 2 = s + 1
      BY <1>1, <1>5, <1>6
    <3>2. g[(s - 1) + 1] = r.hops[1] /\ g[(s - 1) + 2] = r.hops[2]
      BY <1>8, <3>1
    <3> QED BY <3>1, <3>2
  <2>4. r.links[1] \in F /\ r.links[1].from = r.hops[1] /\ r.links[1].to = r.hops[2]
    <3>1. 1 \in 1..Len(r.links) /\ 1 + 1 = 2
      BY <1>6 DEF r
    <3> QED BY <1>5, <3>1
  <2> QED BY <2>2, <2>3, <2>4 DEF F, Allowed
<1>16. route.hops = g
  BY <1>7
<1> HIDE DEF route
<1> QED BY <1>3, <1>13, <1>14, <1>15, <1>16 DEF route, r, root, K

\* A tour out of the root by an edge no known path takes is one the search saw.
LEMMA SpurUp ==
  ASSUME NEW A \in SUBSET Links, NEW t, NEW P, NEW C, NEW last, NEW s, NEW L,
         Spurred(A, t, P, C, last, s, L),
         NEW hops, Tour(A, t, hops), Agree(hops, last.hops, s),
         \A q \in P \cup C : ~Agree(q.hops, hops, s + 1)
  PROVE  /\ t \in DOMAIN L
         /\ Toll(A, Upto(last.hops, s)) + Cost(L[t]) <= Toll(A, hops)
<1> DEFINE root == last.hops
           K == P \cup C
           F == Allowed(A, K, root, s)
           h == Hops - (s - 1)
           b == Onward(hops, s)
<1>1. /\ Sound(A, t, last) /\ root \in Seq(Nodes) /\ Len(root) \in Nat
      /\ s \in Nat /\ s # 0 /\ s < Len(root) /\ s \in 1..Len(root)
      /\ h \in Nat /\ \A q \in K : Sound(A, t, q)
  BY SpurredIs
<1>2. SearchOK(A, F, root[s], h, L) /\ Whole(A, F)
  BY AllowedIsWhole DEF Spurred
<1> HIDE DEF K, F, root
<1>3. /\ hops \in Seq(Nodes) /\ Len(hops) \in Nat /\ hops[Len(hops)] = t
      /\ s <= Len(hops) /\ s \in 1..Len(hops) /\ hops[s] = root[s] /\ Len(hops) - 1 <= Hops
      /\ Agree(hops, root, s) /\ Trail(A, hops)
  <2>1. s <= Len(hops) /\ \A i \in 1..s : hops[i] = root[i]
    BY DEF Agree, root
  <2>2. s \in 1..s
    BY <1>1
  <2>3. hops \in Seq(Nodes) /\ Len(hops) \in Nat /\ hops[Len(hops)] = t
    BY TourIs
  <2>4. s \in 1..Len(hops)
    BY <1>1, <2>1, <2>3
  <2> QED BY <2>1, <2>2, <2>3, <2>4 DEF Tour, root
<1>4. Trail(F, b)
  <2>1. \A q \in K : Tour(A, t, q.hops)
    BY <1>1 DEF Sound
  <2>2. \A q \in K : ~Agree(q.hops, hops, s + 1)
    BY DEF K
  <2> QED BY <1>1, <1>3, <2>1, <2>2, TailIsAllowed DEF F
<1>5. /\ Len(b) = (Len(hops) - s) + 1
      /\ \A i \in 1..((Len(hops) - s) + 1) : b[i] = hops[(s - 1) + i]
  BY <1>3, Parts
<1> HIDE DEF b
<1>6. b[1] = root[s] /\ Last(b) = t /\ Len(b) - 1 <= h
  <2> DEFINE m == (Len(hops) - s) + 1
  <2>1. /\ 1 \in 1..m /\ m \in 1..m /\ (s - 1) + 1 = s /\ (s - 1) + m = Len(hops)
        /\ Len(b) = m
    BY <1>1, <1>3, <1>5
  <2>2. b[1] = hops[(s - 1) + 1] /\ b[m] = hops[(s - 1) + m]
    BY <1>5, <2>1
  <2>3. Len(b) - 1 <= h
    BY <1>1, <1>3, <1>5, HopsType
  <2> QED BY <1>3, <2>1, <2>2, <2>3 DEF Last
<1>7. t \in DOMAIN L /\ Cost(L[t]) <= Toll(A, b)
  BY <1>2, <1>4, <1>6 DEF SearchOK
<1>8. Toll(A, hops) = Toll(A, Upto(hops, s)) + Toll(A, b)
  BY <1>3, CutTrail DEF b
<1>9. Upto(hops, s) = Upto(root, s)
  <2>1. s <= Len(root)
    BY <1>1
  <2> QED BY <1>1, <1>3, <2>1, SameRoot DEF Upto
<1>10. Toll(A, Upto(root, s)) \in Nat /\ Toll(A, b) \in Nat /\ Cost(L[t]) \in Nat
  <2>1. Trail(A, Upto(root, s))
    BY <1>3, <1>9, CutTrail
  <2>2. Trail(A, b)
    BY <1>3, CutTrail DEF b
  <2>3. F \in SUBSET A
    BY DEF F, Allowed
  <2>4. Walk(F, L[t])
    BY <1>2, <1>7 DEF SearchOK, Reaching
  <2>5. Walk(A, L[t])
    BY <2>3, <2>4, WalkWider
  <2> QED BY <2>1, <2>2, <2>5, StepsAre, ChargesAre
<1> HIDE DEF h
<1>11. Toll(A, Upto(root, s)) + Cost(L[t]) <= Toll(A, hops)
  BY <1>7, <1>8, <1>9, <1>10
<1> QED BY <1>7, <1>11 DEF root

\* A tour that leaves the accepted routes at the spur node is covered by a
\* candidate, or the search finds one that will.
LEMMA SpurCovers ==
  ASSUME NEW A \in SUBSET Links, NEW t, NEW P, NEW C, NEW last, NEW s, NEW L,
         Spurred(A, t, P, C, last, s, L),
         NEW hops, Tour(A, t, hops), Agree(hops, last.hops, s), Leaves(P, hops, s),
         ~Covered(A, P, C, hops, s)
  PROVE  /\ t \in DOMAIN L
         /\ Toll(A, Upto(last.hops, s)) + Cost(L[t]) <= Toll(A, hops)
<1>1. s \in Nat /\ last \in P /\ \A q \in P \cup C : Sound(A, t, q)
  BY SpurredIs DEF Spurred
<1>2. ASSUME NEW q \in P \cup C, Agree(q.hops, hops, s + 1)
      PROVE  FALSE
  <2>1. q \notin P
    BY <1>2 DEF Leaves, On
  <2>2. q \in C /\ Len(q.hops) \in Nat /\ Len(hops) \in Nat
    BY <1>1, <2>1, TourIs DEF Sound
  <2>3. Agree(q.hops, hops, s) /\ Agree(hops, q.hops, s) /\ Agree(hops, q.hops, s + 1)
    BY <1>1, <1>2, <2>2, AgreeLess, AgreeSym
  <2>4. Agree(last.hops, q.hops, s)
    BY <2>3, AgreeSym, AgreeTrans
  <2>5. ~On(P, q.hops, s + 1)
    BY <1>2, AgreeTrans DEF Leaves, On
  <2>6. Leaves(P, q.hops, s)
    BY <1>1, <2>4, <2>5 DEF Leaves, On
  <2>7. Cost(q) <= Toll(A, hops)
    BY <1>1, <2>2, <2>3, <2>6 DEF YenOK, Spurred
  <2> QED BY <2>2, <2>3, <2>6, <2>7 DEF Covered
<1> QED BY <1>2, SpurUp

\* What the search finds is not known already.
LEMMA SpurIsNew ==
  ASSUME NEW A \in SUBSET Links, NEW t, NEW P, NEW C, NEW last, NEW s, NEW L,
         Spurred(A, t, P, C, last, s, L), t \in DOMAIN L
  PROVE  \A q \in P \cup C : q.hops # Rooted(last, s - 1, L[t]).hops
<1> DEFINE route == Rooted(last, s - 1, L[t])
<1>1. s \in Nat /\ s # 0 /\ last.hops[s] # t
  BY SpurredIs
<1>2. /\ Sound(A, t, route) /\ Agree(route.hops, last.hops, s)
      /\ \A q \in P \cup C : ~Agree(q.hops, route.hops, s + 1)
  BY SpurDown
<1> HIDE DEF route
<1>3. Len(route.hops) \in Nat /\ route.hops[Len(route.hops)] = t
  BY <1>2, TourIs DEF Sound
<1>4. Len(route.hops) >= s + 1
  <2>1. s <= Len(route.hops) /\ s \in 1..s
    BY <1>1, <1>2 DEF Agree
  <2>2. route.hops[s] = last.hops[s]
    BY <1>2, <2>1 DEF Agree
  <2> QED BY <1>1, <1>3, <2>1, <2>2
<1>5. Agree(route.hops, route.hops, s + 1)
  BY <1>4 DEF Agree
<1>6. \A q \in P \cup C : q.hops # route.hops
  BY <1>2, <1>5
<1> QED BY <1>6 DEF route

\* It is a candidate like the others.
LEMMA SpurAdds ==
  ASSUME NEW A \in SUBSET Links, NEW t, NEW P, NEW C, NEW last, NEW s, NEW L,
         Spurred(A, t, P, C, last, s, L), t \in DOMAIN L
  PROVE  LET route == Rooted(last, s - 1, L[t])
         IN  /\ YenOK(A, t, P, C \cup {route}) /\ Leaves(P, route.hops, s)
             /\ Agree(route.hops, last.hops, s)
             /\ \A q \in P \cup C : q.hops # route.hops
             /\ Cost(route) = Toll(A, Upto(last.hops, s)) + Cost(L[t])
<1> DEFINE route == Rooted(last, s - 1, L[t])
           D == C \cup {route}
<1>1. /\ s \in Nat /\ s # 0 /\ s < Len(last.hops) /\ last \in P
      /\ Len(last.hops) \in Nat /\ last.hops[s] # t
      /\ \A q \in P \cup C : Sound(A, t, q)
  <2>1. last \in P
    BY DEF Spurred
  <2> QED BY <2>1, SpurredIs
<1>2. /\ Sound(A, t, route) /\ Agree(route.hops, last.hops, s)
      /\ \A q \in P \cup C : ~Agree(q.hops, route.hops, s + 1)
      /\ Cost(route) = Toll(A, Upto(last.hops, s)) + Cost(L[t])
  BY SpurDown
<1>r. ASSUME NEW hops, Tour(A, t, hops), Agree(hops, last.hops, s),
             \A q \in P \cup C : ~Agree(q.hops, hops, s + 1)
      PROVE  Cost(route) <= Toll(A, hops)
  <2>1. t \in DOMAIN L /\ Toll(A, Upto(last.hops, s)) + Cost(L[t]) <= Toll(A, hops)
    BY <1>r, SpurUp
  <2> HIDE DEF route
  <2> QED BY <1>2, <2>1
<1> HIDE DEF route
<1>3. Tour(A, t, route.hops) /\ Len(route.hops) \in Nat /\ route.hops[Len(route.hops)] = t
  BY <1>2, TourIs DEF Sound
<1>5. \A q \in P \cup C : q.hops # route.hops
  BY SpurIsNew DEF route
<1>6. Leaves(P, route.hops, s)
  <2>1. Agree(last.hops, route.hops, s)
    BY <1>2, AgreeSym
  <2> QED BY <1>1, <1>2, <2>1 DEF Leaves, On
<1>7. ASSUME NEW k \in Nat, Leaves(P, route.hops, k) PROVE k = s
  BY <1>1, <1>3, <1>6, <1>7, LeavesOnce
<1> HIDE DEF D
<1>8. /\ \A p \in P \cup D : Sound(A, t, p)
      /\ \A p, q \in P \cup D : p.hops = q.hops => p = q
      /\ P \cap D = {}
  BY <1>1, <1>2, <1>5 DEF D, Spurred, YenOK
<1>9. ASSUME NEW c \in D, NEW d \in D, NEW k \in Nat,
             Leaves(P, c.hops, k), Agree(c.hops, d.hops, k + 1)
      PROVE  c = d
  <2>1. CASE c = route /\ d # route
    <3>1. d \in C /\ k = s
      BY <1>7, <1>9, <2>1 DEF D
    <3>2. Agree(d.hops, route.hops, s + 1)
      BY <1>9, <2>1, <3>1, AgreeSym
    <3> QED BY <1>2, <3>1, <3>2
  <2>2. CASE c # route /\ d = route
    <3>1. c \in C /\ Len(c.hops) \in Nat
      BY <1>1, <2>2, TourIs DEF D, Sound
    <3>2. CASE k >= s
      <4>1. s + 1 <= k + 1 /\ s + 1 \in Nat /\ k + 1 \in Nat
        BY <1>1, <3>2
      <4>2. Agree(c.hops, route.hops, s + 1)
        BY <1>3, <1>9, <2>2, <3>1, <4>1, AgreeLess
      <4> QED BY <1>2, <3>1, <4>2
    <3>3. CASE ~(k >= s)
      <4>1. k + 1 <= s /\ k + 1 \in Nat
        BY <1>1, <3>3
      <4>2. Agree(route.hops, last.hops, k + 1)
        BY <1>1, <1>2, <1>3, <4>1, AgreeLess
      <4>3. Agree(last.hops, c.hops, k + 1)
        BY <1>9, <2>2, <4>2, AgreeTrans, AgreeSym
      <4>4. On(P, c.hops, k + 1)
        BY <1>1, <4>3 DEF On
      <4> QED BY <1>9, <4>4 DEF Leaves
    <3> QED BY <3>2, <3>3
  <2>3. CASE c # route /\ d # route
    <3>1. c \in C /\ d \in C
      BY <2>3 DEF D
    <3> QED BY <1>9, <3>1 DEF YenOK, Spurred
  <2> QED BY <2>1, <2>2, <2>3
<1>10. ASSUME NEW c \in D, NEW k \in Nat, Leaves(P, c.hops, k),
              NEW hops, Tour(A, t, hops), Agree(hops, c.hops, k + 1)
       PROVE  Cost(c) <= Toll(A, hops)
  <2>1. CASE c = route
    <3>1. k = s /\ Agree(hops, route.hops, s + 1)
      BY <1>7, <1>10, <2>1
    <3>2. Len(hops) \in Nat
      BY <1>10, TourIs
    <3>3. Agree(hops, route.hops, s)
      BY <1>1, <1>3, <3>1, <3>2, AgreeLess
    <3>4. Agree(hops, last.hops, s)
      BY <1>2, <3>3, AgreeTrans
    <3>5. ASSUME NEW q \in P \cup C, Agree(q.hops, hops, s + 1) PROVE FALSE
      BY <1>2, <3>1, <3>5, AgreeTrans
    <3> QED BY <1>10, <1>r, <2>1, <3>4, <3>5
  <2>2. CASE c # route
    <3>1. c \in C
      BY <2>2 DEF D
    <3> QED BY <1>10, <3>1 DEF YenOK, Spurred
  <2> QED BY <2>1, <2>2
<1>11. YenOK(A, t, P, D)
  BY <1>8, <1>9, <1>10 DEF YenOK
<1> QED BY <1>2, <1>5, <1>6, <1>11 DEF D, route

\* The spur node has been tried: what leaves there is covered.
LEMMA SpurKeeps ==
  ASSUME NEW A \in SUBSET Links, NEW t, NEW P, NEW C, NEW last, NEW s, NEW L,
         Spurred(A, t, P, C, last, s, L), CoveredBut(A, t, P, C, last, s),
         NEW D, D = IF t \in DOMAIN L THEN C \cup {Rooted(last, s - 1, L[t])} ELSE C
  PROVE  YenOK(A, t, P, D) /\ CoveredBut(A, t, P, D, last, s + 1)
<1> DEFINE route == Rooted(last, s - 1, L[t])
<1>1. s \in Nat /\ C \subseteq D
  BY SpurredIs
<1>2. t \in DOMAIN L => /\ YenOK(A, t, P, C \cup {route}) /\ Leaves(P, route.hops, s)
                        /\ Agree(route.hops, last.hops, s) /\ route \in D
                        /\ Cost(route) = Toll(A, Upto(last.hops, s)) + Cost(L[t])
  <2> SUFFICES ASSUME t \in DOMAIN L
               PROVE  /\ YenOK(A, t, P, C \cup {route}) /\ Leaves(P, route.hops, s)
                      /\ Agree(route.hops, last.hops, s) /\ route \in D
                      /\ Cost(route) = Toll(A, Upto(last.hops, s)) + Cost(L[t])
    OBVIOUS
  <2>1. route \in D
    OBVIOUS
  <2> QED BY <2>1, SpurAdds
<1>3. YenOK(A, t, P, D)
  BY <1>2 DEF Spurred
<1> HIDE DEF route
<1>4. ASSUME NEW hops, Tour(A, t, hops), hops \notin Hopping(P), NEW k \in Nat, Leaves(P, hops, k),
             ~(k >= s + 1 /\ Agree(hops, last.hops, k))
      PROVE  Covered(A, P, D, hops, k)
  <2>1. CASE Covered(A, P, C, hops, k)
    BY <1>1, <2>1 DEF Covered
  <2>2. CASE ~Covered(A, P, C, hops, k)
    <3>1. k >= s /\ Agree(hops, last.hops, k)
      BY <1>4, <2>2 DEF CoveredBut
    <3>2. k = s
      BY <1>1, <1>4, <3>1
    <3>3. t \in DOMAIN L /\ Toll(A, Upto(last.hops, s)) + Cost(L[t]) <= Toll(A, hops)
      BY <1>4, <2>2, <3>1, <3>2, SpurCovers
    <3>4. Agree(route.hops, hops, s)
      BY <1>2, <3>1, <3>2, <3>3, AgreeSym, AgreeTrans
    <3> QED BY <1>2, <3>2, <3>3, <3>4 DEF Covered
  <2> QED BY <2>1, <2>2
<1>5. CoveredBut(A, t, P, D, last, s + 1)
  BY <1>4 DEF CoveredBut
<1> QED BY <1>3, <1>5

-----------------------------------------------------------------------------
(* Sequences without repetition.                                           *)

\* s holds nothing twice.
Once(s) == \A i, j \in 1..Len(s) : s[i] = s[j] => i = j

LEMMA ToSetIs ==
  ASSUME NEW S, NEW s \in Seq(S)
  PROVE  /\ DOMAIN s = 1..Len(s) /\ Len(s) \in Nat
         /\ ToSet(s) = {s[i] : i \in 1..Len(s)} /\ ToSet(s) \subseteq S
         /\ s = <<>> <=> Len(s) = 0
         /\ s # <<>> => Last(s) \in ToSet(s)
<1>1. DOMAIN s = 1..Len(s) /\ Len(s) \in Nat /\ \A i \in 1..Len(s) : s[i] \in S
  OBVIOUS
<1>2. ToSet(s) = {s[i] : i \in 1..Len(s)} /\ ToSet(s) \subseteq S
  BY <1>1 DEF ToSet
<1>3. s = <<>> <=> Len(s) = 0
  OBVIOUS
<1>4. Len(s) # 0 => Len(s) \in 1..Len(s)
  BY <1>1
<1> QED BY <1>1, <1>2, <1>3, <1>4 DEF Last

LEMMA AppendIs ==
  ASSUME NEW S, NEW s \in Seq(S), NEW x \in S
  PROVE  /\ Append(s, x) \in Seq(S) /\ Append(s, x) # <<>> /\ Last(Append(s, x)) = x
         /\ Len(Append(s, x)) = Len(s) + 1
         /\ \A i \in 1..Len(s) : Append(s, x)[i] = s[i]
         /\ Append(s, x)[Len(s) + 1] = x
         /\ ToSet(Append(s, x)) = ToSet(s) \cup {x}
         /\ Once(s) /\ x \notin ToSet(s) => Once(Append(s, x))
<1> DEFINE r == Append(s, x)
<1>1. /\ r \in Seq(S) /\ Len(r) = Len(s) + 1 /\ r # <<>> /\ Len(s) \in Nat
      /\ \A i \in 1..Len(s) : r[i] = s[i]
      /\ r[Len(s) + 1] = x
  OBVIOUS
<1>2. \A i \in 1..Len(r) : i \in 1..Len(s) \/ i = Len(s) + 1
  BY <1>1
<1>3. \A i \in 1..Len(s) : i \in 1..Len(r) /\ i # Len(s) + 1
  BY <1>1
<1>4. Len(s) + 1 \in 1..Len(r)
  BY <1>1
<1> HIDE DEF r
<1>5. /\ ToSet(s) = {s[i] : i \in 1..Len(s)}
      /\ ToSet(r) = {r[i] : i \in 1..Len(r)}
  BY <1>1, ToSetIs
<1>6. ToSet(r) = ToSet(s) \cup {x}
  BY <1>1, <1>2, <1>3, <1>4, <1>5
<1>7. ASSUME Once(s), x \notin ToSet(s), NEW i \in 1..Len(r), NEW j \in 1..Len(r), r[i] = r[j]
      PROVE  i = j
  <2>1. ASSUME NEW m \in 1..Len(s) PROVE s[m] # x
    BY <1>5, <1>7
  <2> QED BY <1>1, <1>2, <1>7, <2>1 DEF Once
<1>8. Last(r) = x
  BY <1>1 DEF Last
<1>9. Once(s) /\ x \notin ToSet(s) => Once(r)
  BY <1>7 DEF Once
<1> QED BY <1>1, <1>6, <1>8, <1>9 DEF r

LEMMA JoinIs ==
  ASSUME NEW S, NEW s \in Seq(S), NEW u \in Seq(S)
  PROVE  /\ s \o u \in Seq(S)
         /\ ToSet(s \o u) = ToSet(s) \cup ToSet(u)
         /\ Once(s) /\ Once(u) /\ ToSet(s) \cap ToSet(u) = {} => Once(s \o u)
<1> DEFINE r == s \o u
           n == Len(s)
<1>1. /\ r \in Seq(S) /\ Len(r) = n + Len(u) /\ n \in Nat /\ Len(u) \in Nat
      /\ \A i \in 1..(n + Len(u)) : r[i] = IF i <= n THEN s[i] ELSE u[i - n]
  BY ConcatProperties
<1>2. /\ ToSet(s) = {s[i] : i \in 1..n} /\ ToSet(u) = {u[i] : i \in 1..Len(u)}
      /\ ToSet(r) = {r[i] : i \in 1..Len(r)}
  BY <1>1, ToSetIs
<1> HIDE DEF r, n
<1>3. ASSUME NEW i \in 1..Len(r)
      PROVE  \/ i \in 1..n /\ r[i] = s[i]
             \/ i - n \in 1..Len(u) /\ r[i] = u[i - n]
  <2>1. i \in 1..(n + Len(u)) /\ i \in Nat
    BY <1>1
  <2>2. CASE i <= n
    <3>1. i \in 1..n
      BY <1>1, <2>1, <2>2
    <3> QED BY <1>1, <2>1, <2>2, <3>1
  <2>3. CASE ~(i <= n)
    <3>1. i - n \in 1..Len(u)
      BY <1>1, <2>1, <2>3
    <3> QED BY <1>1, <2>1, <2>3, <3>1
  <2> QED BY <2>2, <2>3
<1>4. ASSUME NEW i \in 1..n PROVE i \in 1..Len(r) /\ r[i] = s[i]
  <2>1. i \in 1..(n + Len(u)) /\ i <= n
    BY <1>1
  <2> QED BY <1>1, <2>1
<1>5. ASSUME NEW i \in 1..Len(u) PROVE n + i \in 1..Len(r) /\ r[n + i] = u[i]
  <2>1. n + i \in 1..(n + Len(u)) /\ ~(n + i <= n) /\ (n + i) - n = i
    BY <1>1
  <2> QED BY <1>1, <2>1
<1>6. ToSet(r) = ToSet(s) \cup ToSet(u)
  <2>1. ASSUME NEW x \in ToSet(r) PROVE x \in ToSet(s) \cup ToSet(u)
    BY <1>2, <1>3
  <2>2. ASSUME NEW x \in ToSet(s) \cup ToSet(u) PROVE x \in ToSet(r)
    BY <1>2, <1>4, <1>5
  <2> QED BY <2>1, <2>2
<1>7. ASSUME Once(s), Once(u), ToSet(s) \cap ToSet(u) = {},
             NEW i \in 1..Len(r), NEW j \in 1..Len(r), r[i] = r[j]
      PROVE  i = j
  <2>0. i \in Nat /\ j \in Nat
    OBVIOUS
  <2>1. CASE i \in 1..n /\ r[i] = s[i] /\ j \in 1..n /\ r[j] = s[j]
    BY <1>7, <2>1 DEF Once, n
  <2>2. CASE i - n \in 1..Len(u) /\ r[i] = u[i - n] /\ j - n \in 1..Len(u) /\ r[j] = u[j - n]
    <3>1. i - n = j - n
      BY <1>7, <2>2 DEF Once
    <3> QED BY <1>1, <2>0, <3>1
  <2>3. CASE i \in 1..n /\ r[i] = s[i] /\ j - n \in 1..Len(u) /\ r[j] = u[j - n]
    BY <1>2, <1>7, <2>3
  <2>4. CASE i - n \in 1..Len(u) /\ r[i] = u[i - n] /\ j \in 1..n /\ r[j] = s[j]
    BY <1>2, <1>7, <2>4
  <2> QED BY <1>3, <2>1, <2>2, <2>3, <2>4
<1>8. Once(s) /\ Once(u) /\ ToSet(s) \cap ToSet(u) = {} => Once(r)
  BY <1>7 DEF Once
<1> QED BY <1>1, <1>6, <1>8 DEF r

LEMMA RemoveIs ==
  ASSUME NEW S, NEW s \in Seq(S), Once(s), NEW k \in 1..Len(s)
  PROVE  /\ RemoveAt(s, k) \in Seq(S) /\ Once(RemoveAt(s, k))
         /\ ToSet(RemoveAt(s, k)) = ToSet(s) \ {s[k]}
<1> DEFINE n == Len(s)
           a == SubSeq(s, 1, k - 1)
           b == SubSeq(s, k + 1, n)
<1>n. n \in Nat /\ k \in Nat /\ k # 0 /\ k <= n /\ k - 1 \in Int /\ k + 1 \in Int /\ n \in Int /\ 1 \in Int
  OBVIOUS
<1>1. a \in Seq(S) /\ Len(a) = k - 1 /\ \A i \in 1..(k - 1) : a[i] = s[i]
  <2>1. \A i \in 1..(k - 1) : s[i] \in S
    OBVIOUS
  <2>2. /\ a \in Seq(S) /\ Len(a) = IF 1 <= k - 1 THEN (k - 1) - 1 + 1 ELSE 0
        /\ \A i \in 1..((k - 1) - 1 + 1) : a[i] = s[1 + i - 1]
    BY <1>n, <2>1, SubSeqProperties
  <2> HIDE DEF a
  <2>3. Len(a) = k - 1
    BY <1>n, <2>2
  <2>4. ASSUME NEW i \in 1..(k - 1) PROVE a[i] = s[i]
    <3>1. i \in 1..((k - 1) - 1 + 1) /\ 1 + i - 1 = i
      BY <1>n
    <3> QED BY <2>2, <3>1
  <2> QED BY <2>2, <2>3, <2>4
<1>2. b \in Seq(S) /\ Len(b) = n - k /\ \A i \in 1..(n - k) : b[i] = s[k + i]
  <2>1. \A i \in (k + 1)..n : s[i] \in S
    OBVIOUS
  <2>2. /\ b \in Seq(S) /\ Len(b) = IF k + 1 <= n THEN n - (k + 1) + 1 ELSE 0
        /\ \A i \in 1..(n - (k + 1) + 1) : b[i] = s[(k + 1) + i - 1]
    BY <1>n, <2>1, SubSeqProperties
  <2> HIDE DEF b, n
  <2>3. Len(b) = n - k
    BY <1>n, <2>2
  <2>4. ASSUME NEW i \in 1..(n - k) PROVE b[i] = s[k + i]
    <3>1. i \in 1..(n - (k + 1) + 1) /\ (k + 1) + i - 1 = k + i
      BY <1>n
    <3> QED BY <2>2, <3>1
  <2> QED BY <2>2, <2>3, <2>4
<1>3. RemoveAt(s, k) = a \o b
  BY DEF RemoveAt
<1>4. ToSet(s) = {s[i] : i \in 1..n}
  BY ToSetIs
<1> HIDE DEF a, b, n
<1>5. ToSet(a) = {a[i] : i \in 1..(k - 1)} /\ ToSet(b) = {b[i] : i \in 1..(n - k)}
  BY <1>1, <1>2, ToSetIs
<1>6. \A i \in 1..(k - 1) : i \in 1..n /\ i # k
  BY <1>n
<1>7. \A i \in 1..(n - k) : k + i \in 1..n /\ k + i # k
  BY <1>n
<1>8. \A i \in 1..n : i = k \/ i \in 1..(k - 1) \/ (i - k \in 1..(n - k) /\ k + (i - k) = i)
  BY <1>n
<1>9. \A i \in 1..(k - 1) : \A j \in 1..(n - k) : i # k + j
  BY <1>n
<1>10. \A i, j \in 1..n : s[i] = s[j] => i = j
  BY DEF Once, n
<1>11. ToSet(a) \cup ToSet(b) = ToSet(s) \ {s[k]}
  <2>1. ASSUME NEW x \in ToSet(a) PROVE x \in ToSet(s) \ {s[k]}
    <3>1. PICK i \in 1..(k - 1) : x = s[i]
      BY <1>1, <1>5
    <3>2. i \in 1..n /\ i # k /\ k \in 1..n
      BY <1>6, <1>n
    <3> QED BY <1>4, <1>10, <3>1, <3>2
  <2>2. ASSUME NEW x \in ToSet(b) PROVE x \in ToSet(s) \ {s[k]}
    <3>1. PICK i \in 1..(n - k) : x = s[k + i]
      BY <1>2, <1>5
    <3>2. k + i \in 1..n /\ k + i # k /\ k \in 1..n
      BY <1>7, <1>n
    <3> QED BY <1>4, <1>10, <3>1, <3>2
  <2>3. ASSUME NEW x \in ToSet(s), x # s[k] PROVE x \in ToSet(a) \cup ToSet(b)
    <3>1. PICK i \in 1..n : x = s[i]
      BY <1>4
    <3>2. CASE i \in 1..(k - 1)
      BY <1>1, <1>5, <3>1, <3>2
    <3>3. CASE i - k \in 1..(n - k) /\ k + (i - k) = i
      BY <1>2, <1>5, <3>1, <3>3
    <3> QED BY <1>8, <2>3, <3>1, <3>2, <3>3
  <2> QED BY <2>1, <2>2, <2>3
<1>12. Once(a)
  BY <1>1, <1>6, <1>10 DEF Once
<1>13. Once(b)
  <2> SUFFICES ASSUME NEW i \in 1..(n - k), NEW j \in 1..(n - k), b[i] = b[j] PROVE i = j
    BY <1>2 DEF Once
  <2>1. s[k + i] = s[k + j] /\ k + i \in 1..n /\ k + j \in 1..n
    BY <1>2, <1>7
  <2>2. k + i = k + j
    BY <1>10, <2>1
  <2> QED BY <1>n, <2>2
<1>14. ToSet(a) \cap ToSet(b) = {}
  <2> SUFFICES ASSUME NEW i \in 1..(k - 1), NEW j \in 1..(n - k), a[i] = b[j] PROVE FALSE
    BY <1>5
  <2>1. s[i] = s[k + j] /\ i \in 1..n /\ k + j \in 1..n /\ i # k + j
    BY <1>1, <1>2, <1>6, <1>7, <1>9
  <2> QED BY <1>10, <2>1
<1> QED BY <1>1, <1>2, <1>3, <1>11, <1>12, <1>13, <1>14, JoinIs

-----------------------------------------------------------------------------
(* A finite set, in an order given as a set of pairs.                      *)

\* O is a strict total order of S.
Orders(O, S) ==
    /\ \A i \in S : <<i, i>> \notin O
    /\ \A i, j, k \in S : <<i, j>> \in O /\ <<j, k>> \in O => <<i, k>> \in O
    /\ \A i, j \in S : i = j \/ <<i, j>> \in O \/ <<j, i>> \in O

Below(O, S, i) == {j \in S : <<j, i>> \in O}

\* The number of elements below gives each its place, and every place is
\* taken.
LEMMA PlacesAre ==
  ASSUME NEW S, IsFiniteSet(S), NEW O, Orders(O, S)
  PROVE  /\ Cardinality(S) \in Nat
         /\ \A k \in 1..Cardinality(S) : \E i \in S : Cardinality(Below(O, S, i)) = k - 1
         /\ \A i \in S : Cardinality(Below(O, S, i)) + 1 \in 1..Cardinality(S)
         /\ \A i, j \in S : <<i, j>> \in O => Cardinality(Below(O, S, i)) < Cardinality(Below(O, S, j))
<1> DEFINE n == Cardinality(S)
           T == 0..(n - 1)
           rank == [i \in S |-> Cardinality(Below(O, S, i))]
<1>1. n \in Nat
  BY FS_CardinalityType
<1>2. ASSUME NEW i \in S
      PROVE  IsFiniteSet(Below(O, S, i)) /\ Cardinality(Below(O, S, i)) \in Nat
             /\ Cardinality(Below(O, S, i)) < n
  <2>1. Below(O, S, i) \in SUBSET S /\ i \notin Below(O, S, i)
    BY DEF Below, Orders
  <2>2. /\ IsFiniteSet(Below(O, S, i)) /\ Cardinality(Below(O, S, i)) <= Cardinality(S)
        /\ Cardinality(S) # Cardinality(Below(O, S, i))
    BY <2>1, FS_Subset
  <2>3. Cardinality(Below(O, S, i)) \in Nat
    BY <2>2, FS_CardinalityType
  <2> QED BY <1>1, <2>2, <2>3
<1>3. ASSUME NEW i \in S, NEW j \in S, <<i, j>> \in O
      PROVE  Cardinality(Below(O, S, i)) < Cardinality(Below(O, S, j))
  <2>1. /\ Below(O, S, i) \in SUBSET Below(O, S, j)
        /\ i \in Below(O, S, j) /\ i \notin Below(O, S, i)
    BY <1>3 DEF Below, Orders
  <2>2. /\ Cardinality(Below(O, S, i)) <= Cardinality(Below(O, S, j))
        /\ Cardinality(Below(O, S, i)) # Cardinality(Below(O, S, j))
    BY <1>2, <2>1, FS_Subset
  <2>3. Cardinality(Below(O, S, i)) \in Nat /\ Cardinality(Below(O, S, j)) \in Nat
    BY <1>2
  <2> QED BY <2>2, <2>3
<1> HIDE DEF n
<1>4. rank \in [S -> T]
  <2>1. \A i \in S : Cardinality(Below(O, S, i)) \in T
    BY <1>1, <1>2
  <2> QED BY <2>1
<1>5. ASSUME NEW i \in S, NEW j \in S, rank[i] = rank[j]
      PROVE  i = j
  <2>1. Cardinality(Below(O, S, i)) = Cardinality(Below(O, S, j))
    BY <1>5
  <2>2. Cardinality(Below(O, S, i)) \in Nat
    BY <1>2
  <2>3. <<i, j>> \notin O /\ <<j, i>> \notin O
    BY <1>3, <2>1, <2>2
  <2> QED BY <2>3 DEF Orders
<1>6. IsFiniteSet(T) /\ Cardinality(T) = n
  BY <1>1, FS_Interval
<1> HIDE DEF T, rank
<1>7. rank \in Injection(S, T)
  BY <1>4, <1>5 DEF Injection, IsInjective
<1>8. rank \in Surjection(S, T)
  <2>1. Cardinality(S) = Cardinality(T)
    BY <1>6 DEF n
  <2> QED BY <1>6, <1>7, <2>1, FS_Injection
<1>9. ASSUME NEW k \in 1..n PROVE \E i \in S : Cardinality(Below(O, S, i)) = k - 1
  <2>1. k - 1 \in T
    BY <1>1 DEF T
  <2> QED BY <1>8, <2>1 DEF Surjection, rank
<1>10. ASSUME NEW i \in S PROVE Cardinality(Below(O, S, i)) + 1 \in 1..n
  BY <1>1, <1>2
<1> QED BY <1>1, <1>3, <1>9, <1>10 DEF n

\* Where each place of the arrangement comes from.
Placed(T, routes, S, O, at) ==
    LET r == Arranged(routes, S, O)
    IN  /\ r \in Seq(T)
        /\ \A k \in 1..Len(r) : at[k] \in S /\ r[k] = routes[at[k]]
        /\ \A k, l \in 1..Len(r) : k < l => <<at[k], at[l]>> \in O
        /\ \A i \in S : \E k \in 1..Len(r) : at[k] = i

\* An arrangement holds every element once, in the order.
LEMMA ArrangedIs ==
  ASSUME NEW T, NEW routes \in Seq(T), NEW S \in SUBSET (DOMAIN routes), NEW O, Orders(O, S)
  PROVE  \E at : Placed(T, routes, S, O, at)
<1> DEFINE n == Cardinality(S)
           at == [k \in 1..n |-> CHOOSE i \in S : Cardinality(Below(O, S, i)) = k - 1]
           r == Arranged(routes, S, O)
<1>1. Len(routes) \in Nat /\ DOMAIN routes = 1..Len(routes)
  OBVIOUS
<1>2. IsFiniteSet(S)
  <2>1. IsFiniteSet(1..Len(routes))
    BY <1>1, FS_Interval
  <2> QED BY <1>1, <2>1, FS_Subset
<1>3. /\ n \in Nat
      /\ \A k \in 1..n : \E i \in S : Cardinality(Below(O, S, i)) = k - 1
      /\ \A i \in S : Cardinality(Below(O, S, i)) + 1 \in 1..n
      /\ \A i, j \in S : <<i, j>> \in O => Cardinality(Below(O, S, i)) < Cardinality(Below(O, S, j))
  BY <1>2, PlacesAre
<1>4. r = [k \in 1..n |-> routes[at[k]]]
  BY DEF Arranged, Below
<1>5. ASSUME NEW k \in 1..n
      PROVE  at[k] \in S /\ Cardinality(Below(O, S, at[k])) = k - 1
  <2>1. at[k] = CHOOSE i \in S : Cardinality(Below(O, S, i)) = k - 1
    OBVIOUS
  <2> HIDE DEF at
  <2> QED BY <1>3, <2>1
<1> HIDE DEF n, at
<1>6. r \in Seq(T) /\ Len(r) = n /\ \A k \in 1..n : r[k] = routes[at[k]]
  <2>1. \A k \in 1..n : routes[at[k]] \in T
    BY <1>1, <1>5
  <2>2. r \in [1..n -> T]
    BY <1>4, <2>1
  <2>3. r \in Seq(T) /\ Len(r) = n
    <3> HIDE DEF r
    <3>1. n \in Nat
      BY <1>3
    <3>2. \A m \in Nat : \A f \in [1..m -> T] : f \in Seq(T) /\ Len(f) = m
      OBVIOUS
    <3> QED BY <2>2, <3>1, <3>2
  <2> QED BY <1>4, <2>3
<1>7. ASSUME NEW k \in 1..n, NEW l \in 1..n, k < l
      PROVE  <<at[k], at[l]>> \in O
  <2>1. at[k] \in S /\ at[l] \in S /\ Cardinality(Below(O, S, at[k])) = k - 1
        /\ Cardinality(Below(O, S, at[l])) = l - 1
    BY <1>5
  <2>2. at[k] # at[l] /\ ~(l - 1 < k - 1)
    BY <1>3, <1>7, <2>1
  <2>3. <<at[l], at[k]>> \notin O
    BY <1>3, <2>1, <2>2
  <2> QED BY <2>1, <2>2, <2>3 DEF Orders
<1>8. ASSUME NEW i \in S
      PROVE  \E k \in 1..n : at[k] = i
  <2> DEFINE m == Cardinality(Below(O, S, i))
             k == m + 1
  <2>1. k \in 1..n
    BY <1>3
  <2>2. m \in Nat
    <3>1. IsFiniteSet(Below(O, S, i))
      BY <1>2, FS_Subset DEF Below
    <3> QED BY <3>1, FS_CardinalityType
  <2>3. at[k] \in S /\ Cardinality(Below(O, S, at[k])) = k - 1
    BY <1>5, <2>1
  <2>4. k - 1 = m
    BY <2>2
  <2>5. Cardinality(Below(O, S, at[k])) = m
    BY <2>3, <2>4
  <2> HIDE DEF k
  <2>6. <<at[k], i>> \notin O /\ <<i, at[k]>> \notin O
    BY <1>3, <2>2, <2>3, <2>5
  <2>7. at[k] = i
    BY <2>3, <2>6 DEF Orders
  <2> QED BY <2>1, <2>7
<1> HIDE DEF r
<1>9. Placed(T, routes, S, O, at)
  BY <1>5, <1>6, <1>7, <1>8 DEF Placed, r
<1> QED BY <1>9

-----------------------------------------------------------------------------
(* The ranking of the answer.                                              *)

Paths == [hops : Seq(Nodes), links : Seq(Links)]
\* Every route's cost is a number.
Priced(routes) == \A i \in DOMAIN routes : Cost(routes[i]) \in Nat

\* The two orders the planner arranges routes in, by place and by cost, are
\* strict and total.
LEMMA InPlaceOrders ==
  ASSUME NEW T, NEW routes \in Seq(T), NEW S \in SUBSET (DOMAIN routes)
  PROVE  Orders(InPlace(routes), S)
<1>1. DOMAIN routes = 1..Len(routes)
  OBVIOUS
<1>2. \A i, j \in DOMAIN routes : <<i, j>> \in InPlace(routes) <=> i < j
  BY DEF InPlace
<1>3. \A i \in S : i \in DOMAIN routes /\ i \in Nat
  BY <1>1
<1> QED BY <1>2, <1>3 DEF Orders

LEMMA SoonerOrders ==
  ASSUME NEW T, NEW routes \in Seq(T), Priced(routes)
  PROVE  Orders(Sooner(routes), DOMAIN routes)
<1>1. DOMAIN routes = 1..Len(routes)
  OBVIOUS
<1>2. \A i, j \in DOMAIN routes :
         <<i, j>> \in Sooner(routes) <=> \/ Cost(routes[i]) < Cost(routes[j])
                                         \/ Cost(routes[i]) = Cost(routes[j]) /\ i < j
  BY DEF Sooner
<1>3. \A i \in DOMAIN routes : i \in Nat /\ Cost(routes[i]) \in Nat
  BY <1>1 DEF Priced
<1>4. \A i \in DOMAIN routes : <<i, i>> \notin Sooner(routes)
  BY <1>2, <1>3
<1>5. ASSUME NEW i \in DOMAIN routes, NEW j \in DOMAIN routes, NEW k \in DOMAIN routes,
             <<i, j>> \in Sooner(routes), <<j, k>> \in Sooner(routes)
      PROVE  <<i, k>> \in Sooner(routes)
  <2>1. /\ i \in Nat /\ j \in Nat /\ k \in Nat
        /\ Cost(routes[i]) \in Nat /\ Cost(routes[j]) \in Nat /\ Cost(routes[k]) \in Nat
    BY <1>3
  <2>2. /\ \/ Cost(routes[i]) < Cost(routes[j])
           \/ Cost(routes[i]) = Cost(routes[j]) /\ i < j
        /\ \/ Cost(routes[j]) < Cost(routes[k])
           \/ Cost(routes[j]) = Cost(routes[k]) /\ j < k
    BY <1>2, <1>5
  <2>3. \/ Cost(routes[i]) < Cost(routes[k])
        \/ Cost(routes[i]) = Cost(routes[k]) /\ i < k
    BY <2>1, <2>2
  <2> QED BY <1>2, <2>3
<1>6. ASSUME NEW i \in DOMAIN routes, NEW j \in DOMAIN routes
      PROVE  i = j \/ <<i, j>> \in Sooner(routes) \/ <<j, i>> \in Sooner(routes)
  <2>1. i \in Nat /\ j \in Nat /\ Cost(routes[i]) \in Nat /\ Cost(routes[j]) \in Nat
    BY <1>3
  <2>2. \/ i = j
        \/ Cost(routes[i]) < Cost(routes[j])
        \/ Cost(routes[i]) = Cost(routes[j]) /\ i < j
        \/ Cost(routes[j]) < Cost(routes[i])
        \/ Cost(routes[j]) = Cost(routes[i]) /\ j < i
    BY <2>1
  <2> QED BY <1>2, <2>2
<1> QED BY <1>4, <1>5, <1>6 DEF Orders

\* The routes that resolve are those accepted whose hops can all be dialed.
LEMMA ResolvedIs ==
  ASSUME NEW T, NEW routes \in Seq(T)
  PROVE  /\ Resolved(routes) \in Seq(T)
         /\ \A p \in ToSet(Resolved(routes)) : p \in ToSet(routes) /\ Dialable(p)
<1> DEFINE S == {i \in DOMAIN routes : Dialable(routes[i])}
           r == Resolved(routes)
<1>1. S \in SUBSET (DOMAIN routes) /\ r = Arranged(routes, S, InPlace(routes))
  BY DEF Resolved
<1> HIDE DEF S
<1>2. Orders(InPlace(routes), S)
  BY <1>1, InPlaceOrders
<1>3. PICK at : /\ r \in Seq(T)
                /\ \A k \in 1..Len(r) : at[k] \in S /\ r[k] = routes[at[k]]
  <2> DEFINE O == InPlace(routes)
  <2>1. Orders(O, S)
    BY <1>2
  <2> HIDE DEF r, O
  <2>2. \E at : Placed(T, routes, S, O, at)
    BY <1>1, <2>1, ArrangedIs
  <2> QED BY <1>1, <2>2 DEF O, Placed
<1> HIDE DEF r
<1>4. ToSet(r) = {r[k] : k \in 1..Len(r)}
  BY <1>3, ToSetIs
<1>5. ASSUME NEW p \in ToSet(r) PROVE p \in ToSet(routes) /\ Dialable(p)
  <2>1. PICK k \in 1..Len(r) : p = r[k]
    BY <1>4
  <2>2. at[k] \in S /\ p = routes[at[k]]
    BY <1>3, <2>1
  <2> QED BY <2>2 DEF S, ToSet
<1> QED BY <1>3, <1>5 DEF r

\* Sorted by cost, nothing lost.
Ascending(routes) == \A k, l \in 1..Len(routes) : k < l => Cost(routes[k]) <= Cost(routes[l])

LEMMA ByCostIs ==
  ASSUME NEW T, NEW routes \in Seq(T), Priced(routes)
  PROVE  /\ ByCost(routes) \in Seq(T) /\ ToSet(ByCost(routes)) = ToSet(routes)
         /\ Ascending(ByCost(routes)) /\ Priced(ByCost(routes))
<1> DEFINE r == ByCost(routes)
           O == Sooner(routes)
<1>1. r = Arranged(routes, DOMAIN routes, O) /\ DOMAIN routes \in SUBSET (DOMAIN routes)
  BY DEF ByCost
<1>2. Orders(O, DOMAIN routes)
  BY SoonerOrders
<1> HIDE DEF O, r
<1>3. PICK at : /\ r \in Seq(T)
                /\ \A k \in 1..Len(r) : at[k] \in DOMAIN routes /\ r[k] = routes[at[k]]
                /\ \A k, l \in 1..Len(r) : k < l => <<at[k], at[l]>> \in O
                /\ \A i \in DOMAIN routes : \E k \in 1..Len(r) : at[k] = i
  <2> DEFINE S == DOMAIN routes
  <2>1. S \in SUBSET (DOMAIN routes) /\ Orders(O, S)
    BY <1>2
  <2> HIDE DEF S
  <2>2. \E at : Placed(T, routes, S, O, at)
    BY <2>1, ArrangedIs
  <2>3. r = Arranged(routes, S, O)
    BY <1>1 DEF S
  <2> QED BY <2>2, <2>3 DEF S, Placed
<1>4. ToSet(r) = {r[k] : k \in 1..Len(r)} /\ DOMAIN r = 1..Len(r)
  BY <1>3, ToSetIs
<1>5. ToSet(r) = ToSet(routes)
  <2>1. ToSet(routes) = {routes[i] : i \in DOMAIN routes}
    BY DEF ToSet
  <2>2. ASSUME NEW p \in ToSet(r) PROVE p \in ToSet(routes)
    BY <1>3, <1>4, <2>1
  <2>3. ASSUME NEW p \in ToSet(routes) PROVE p \in ToSet(r)
    <3>1. PICK i \in DOMAIN routes : p = routes[i]
      BY <2>1
    <3>2. PICK k \in 1..Len(r) : at[k] = i
      BY <1>3
    <3>3. p = r[k]
      BY <1>3, <3>1, <3>2
    <3> QED BY <1>4, <3>3
  <2> QED BY <2>2, <2>3
<1>6. \A k \in 1..Len(r) : Cost(r[k]) \in Nat
  BY <1>3 DEF Priced
<1>7. ASSUME NEW k \in 1..Len(r), NEW l \in 1..Len(r), k < l
      PROVE  Cost(r[k]) <= Cost(r[l])
  <2>1. <<at[k], at[l]>> \in O
    BY <1>3, <1>7
  <2>2. \/ Cost(routes[at[k]]) < Cost(routes[at[l]])
        \/ Cost(routes[at[k]]) = Cost(routes[at[l]])
    BY <2>1 DEF O, Sooner
  <2>3. Cost(r[k]) \in Nat /\ Cost(r[l]) \in Nat /\ r[k] = routes[at[k]] /\ r[l] = routes[at[l]]
    BY <1>3, <1>6
  <2> QED BY <2>2, <2>3
<1> QED BY <1>3, <1>4, <1>5, <1>6, <1>7 DEF r, Ascending, Priced

\* The first of each node sequence, still sorted: no other is cheaper.
LEMMA DistinctIs ==
  ASSUME NEW T, NEW routes \in Seq(T), Priced(routes), Ascending(routes)
  PROVE  /\ Distinct(routes) \in Seq(T) /\ ToSet(Distinct(routes)) \subseteq ToSet(routes)
         /\ Ascending(Distinct(routes)) /\ Priced(Distinct(routes))
         /\ \A k, l \in 1..Len(Distinct(routes)) :
               Distinct(routes)[k].hops = Distinct(routes)[l].hops => k = l
         /\ \A p \in ToSet(routes) : \E k \in 1..Len(Distinct(routes)) :
               Distinct(routes)[k].hops = p.hops /\ Cost(Distinct(routes)[k]) <= Cost(p)
<1> DEFINE S == {i \in DOMAIN routes : \A j \in 1..(i - 1) : routes[j].hops # routes[i].hops}
           O == InPlace(routes)
           r == Distinct(routes)
<1>n. DOMAIN routes = 1..Len(routes) /\ Len(routes) \in Nat
  OBVIOUS
<1>1. S \in SUBSET (DOMAIN routes) /\ r = Arranged(routes, S, O)
  BY DEF Distinct
<1> HIDE DEF S
<1>2. Orders(O, S)
  BY <1>1, InPlaceOrders
<1> HIDE DEF O, r
<1>3. PICK at : /\ r \in Seq(T)
                /\ \A k \in 1..Len(r) : at[k] \in S /\ r[k] = routes[at[k]]
                /\ \A k, l \in 1..Len(r) : k < l => <<at[k], at[l]>> \in O
                /\ \A i \in S : \E k \in 1..Len(r) : at[k] = i
  <2>2. \E at : Placed(T, routes, S, O, at)
    BY <1>1, <1>2, ArrangedIs
  <2> QED BY <1>1, <2>2 DEF Placed
<1>4. ToSet(r) = {r[k] : k \in 1..Len(r)} /\ DOMAIN r = 1..Len(r) /\ Len(r) \in Nat
  BY <1>3, ToSetIs
<1>5. \A k \in 1..Len(r) : at[k] \in 1..Len(routes) /\ r[k] = routes[at[k]]
  BY <1>n, <1>1, <1>3
<1>6. ToSet(r) \subseteq ToSet(routes)
  BY <1>n, <1>4, <1>5 DEF ToSet
<1>7. \A k \in 1..Len(r) : Cost(r[k]) \in Nat
  BY <1>n, <1>5 DEF Priced
<1>8. ASSUME NEW k \in 1..Len(r), NEW l \in 1..Len(r), k < l
      PROVE  at[k] < at[l] /\ Cost(r[k]) <= Cost(r[l]) /\ r[k].hops # r[l].hops
  <2>1. <<at[k], at[l]>> \in O
    BY <1>3, <1>8
  <2>2. at[k] < at[l]
    BY <2>1 DEF O, InPlace
  <2>3. Cost(r[k]) <= Cost(r[l])
    BY <1>5, <2>2 DEF Ascending
  <2>4. at[k] \in 1..(at[l] - 1)
    <3>1. at[k] \in 1..Len(routes) /\ at[l] \in 1..Len(routes)
      BY <1>5
    <3> QED BY <1>n, <2>2, <3>1
  <2>5. routes[at[k]].hops # routes[at[l]].hops
    BY <1>3, <2>4 DEF S
  <2> QED BY <1>5, <2>2, <2>3, <2>5
<1>9. ASSUME NEW k \in 1..Len(r), NEW l \in 1..Len(r), r[k].hops = r[l].hops
      PROVE  k = l
  <2>1. k \in Nat /\ l \in Nat
    OBVIOUS
  <2>2. ~(k < l) /\ ~(l < k)
    BY <1>8, <1>9
  <2> QED BY <2>1, <2>2
<1>10. ASSUME NEW p \in ToSet(routes)
       PROVE  \E k \in 1..Len(r) : r[k].hops = p.hops /\ Cost(r[k]) <= Cost(p)
  <2> DEFINE I == {i \in 1..Len(routes) : routes[i].hops = p.hops}
  <2>1. PICK m \in 1..Len(routes) : routes[m] = p
    BY <1>n DEF ToSet
  <2>2. I \in SUBSET Nat /\ m \in I
    BY <2>1
  <2>3. PICK i \in I : \A j \in I : i <= j
    <3> HIDE DEF I
    <3> QED BY <2>2, Least
  <2>4. i \in 1..Len(routes) /\ routes[i].hops = p.hops /\ i <= m
    BY <2>2, <2>3
  <2>5. ASSUME NEW j \in 1..(i - 1) PROVE routes[j].hops # routes[i].hops
    <3>1. j \in 1..Len(routes) /\ ~(i <= j)
      BY <1>n, <2>4
    <3>2. j \notin I
      BY <2>3, <3>1
    <3> QED BY <2>4, <3>1, <3>2
  <2>6. i \in S
    BY <1>n, <2>4, <2>5 DEF S
  <2>7. PICK k \in 1..Len(r) : at[k] = i
    BY <1>3, <2>6
  <2>8. r[k] = routes[i]
    BY <1>5, <2>7
  <2>9. Cost(routes[i]) <= Cost(routes[m])
    <3>1. Cost(routes[i]) \in Nat /\ i \in Nat /\ m \in Nat
      BY <1>n, <2>4 DEF Priced
    <3>2. i < m => Cost(routes[i]) <= Cost(routes[m])
      BY <2>4 DEF Ascending
    <3>3. i = m \/ i < m
      BY <2>4, <3>1
    <3> QED BY <3>1, <3>2, <3>3
  <2> QED BY <2>1, <2>4, <2>8, <2>9
<1> QED BY <1>3, <1>4, <1>6, <1>7, <1>8, <1>9, <1>10 DEF r, Ascending, Priced

\* The answer: in ascending cost, no node sequence twice, within the limit,
\* and nothing left out that is cheaper than what is kept.
LEMMA RankedIs ==
  ASSUME NEW T, NEW routes \in Seq(T), Priced(routes), Limit = 0 => routes = <<>>
  PROVE  /\ Ranked(routes) \in Seq(T) /\ ToSet(Ranked(routes)) \subseteq ToSet(routes)
         /\ Len(Ranked(routes)) <= Limit
         /\ Ascending(Ranked(routes))
         /\ \A k, l \in 1..Len(Ranked(routes)) :
               Ranked(routes)[k].hops = Ranked(routes)[l].hops => k = l
         /\ \A p \in ToSet(routes) :
               \/ \E q \in ToSet(Ranked(routes)) : q.hops = p.hops /\ Cost(q) <= Cost(p)
               \/ /\ Len(Ranked(routes)) = Limit
                  /\ Cost(Last(Ranked(routes))) <= Cost(p)
<1> DEFINE b == ByCost(routes)
           d == Distinct(b)
           n == IF Len(d) < Limit THEN Len(d) ELSE Limit
           a == Ranked(routes)
<1>1. b \in Seq(T) /\ ToSet(b) = ToSet(routes) /\ Ascending(b) /\ Priced(b)
  BY ByCostIs
<1> HIDE DEF b
<1>2. /\ d \in Seq(T) /\ ToSet(d) \subseteq ToSet(b) /\ Ascending(d) /\ Priced(d)
      /\ \A k, l \in 1..Len(d) : d[k].hops = d[l].hops => k = l
      /\ \A p \in ToSet(b) : \E k \in 1..Len(d) : d[k].hops = p.hops /\ Cost(d[k]) <= Cost(p)
  BY <1>1, DistinctIs
<1>3. a = SubSeq(d, 1, n)
  BY DEF Ranked, Truncated, b
<1> HIDE DEF d, a
<1>4. Limit \in Nat /\ Len(d) \in Nat
  BY <1>2, PlannerAssumption DEF PlannerAssumption
<1>5. n \in Nat /\ n <= Len(d) /\ n <= Limit /\ (n = Limit \/ n = Len(d))
  BY <1>4
<1> HIDE DEF n
<1>6. a \in Seq(T) /\ Len(a) = n /\ \A i \in 1..n : a[i] = d[i]
  <2>1. ASSUME NEW i \in 1..n PROVE d[i] \in T
    <3>1. i \in 1..Len(d)
      BY <1>4, <1>5
    <3> QED BY <1>2, <3>1
  <2>2. /\ SubSeq(d, 1, n) \in Seq(T) /\ Len(SubSeq(d, 1, n)) = IF 1 <= n THEN n - 1 + 1 ELSE 0
        /\ \A i \in 1..(n - 1 + 1) : SubSeq(d, 1, n)[i] = d[1 + i - 1]
    <3>1. 1 \in Int /\ n \in Int
      BY <1>5
    <3> QED BY <2>1, <3>1, SubSeqProperties
  <2>3. Len(a) = n
    BY <1>3, <1>5, <2>2
  <2>4. ASSUME NEW i \in 1..n PROVE a[i] = d[i]
    <3>1. i \in 1..(n - 1 + 1) /\ 1 + i - 1 = i
      BY <1>5
    <3> QED BY <1>3, <2>2, <3>1
  <2> QED BY <1>3, <2>2, <2>3, <2>4
<1>7. \A i \in 1..n : i \in 1..Len(d)
  BY <1>4, <1>5
<1>8. /\ ToSet(a) = {a[i] : i \in 1..n} /\ DOMAIN a = 1..n
      /\ ToSet(d) = {d[i] : i \in 1..Len(d)} /\ DOMAIN d = 1..Len(d)
  BY <1>2, <1>6, ToSetIs
<1>9. ToSet(a) \subseteq ToSet(routes)
  BY <1>1, <1>2, <1>6, <1>7, <1>8
<1>10. Ascending(a)
  BY <1>2, <1>6, <1>7 DEF Ascending
<1>11. \A k, l \in 1..n : a[k].hops = a[l].hops => k = l
  BY <1>2, <1>6, <1>7
<1>12. ASSUME NEW p \in ToSet(routes)
       PROVE  \/ \E q \in ToSet(a) : q.hops = p.hops /\ Cost(q) <= Cost(p)
              \/ n = Limit /\ Cost(Last(a)) <= Cost(p)
  <2>1. PICK k \in 1..Len(d) : d[k].hops = p.hops /\ Cost(d[k]) <= Cost(p)
    BY <1>1, <1>2
  <2>2. CASE k \in 1..n
    <3>1. a[k] \in ToSet(a) /\ a[k].hops = p.hops /\ Cost(a[k]) <= Cost(p)
      BY <1>6, <1>8, <2>1, <2>2
    <3> QED BY <3>1
  <2>3. CASE k \notin 1..n
    <3>1. n < k /\ n = Limit /\ n # Len(d)
      BY <1>4, <1>5, <2>3
    <3>2. Limit # 0
      <4> SUFFICES ASSUME routes = <<>> PROVE FALSE
        OBVIOUS
      <4>1. ToSet(routes) = {}
        BY DEF ToSet
      <4> QED BY <4>1
    <3>3. n \in 1..n
      BY <1>4, <1>5, <3>1, <3>2
    <3>4. Cost(d[n]) <= Cost(d[k])
      BY <1>2, <1>7, <3>1, <3>3 DEF Ascending
    <3>5. Last(a) = d[n]
      BY <1>6, <3>3 DEF Last
    <3>6. Cost(d[n]) \in Nat /\ Cost(d[k]) \in Nat
      BY <1>2, <1>7, <1>8, <3>3 DEF Priced
    <3>7. Cost(p) \in Nat
      <4>1. PICK i \in DOMAIN routes : p = routes[i]
        BY DEF ToSet
      <4> QED BY <4>1 DEF Priced
    <3> QED BY <2>1, <3>1, <3>4, <3>5, <3>6, <3>7
  <2> QED BY <2>2, <2>3
<1> QED BY <1>5, <1>6, <1>9, <1>10, <1>11, <1>12 DEF a

\* The cheapest candidate is chosen.
LEMMA BestIs ==
  ASSUME NEW T, candidates \in Seq(T), candidates # <<>>, Priced(candidates)
  PROVE  /\ BestCandidate \in 1..Len(candidates)
         /\ candidates[BestCandidate] \in ToSet(candidates)
         /\ \A c \in ToSet(candidates) : Cost(candidates[BestCandidate]) <= Cost(c)
<1> DEFINE D == DOMAIN candidates
           N == {Cost(candidates[i]) : i \in D}
<1>1. /\ D = 1..Len(candidates) /\ Len(candidates) \in Nat /\ 1 \in D
      /\ ToSet(candidates) = {candidates[i] : i \in D}
  BY DEF ToSet
<1>2. N \in SUBSET Nat /\ N # {}
  BY <1>1 DEF Priced
<1>3. PICK x \in N : \A y \in N : x <= y
  <2> HIDE DEF N
  <2> QED BY <1>2, Least
<1> DEFINE I == {i \in D : Cost(candidates[i]) = x}
<1>4. I \in SUBSET Nat /\ I # {}
  BY <1>1, <1>3
<1>5. PICK i \in I : \A j \in I : i <= j
  <2> HIDE DEF I
  <2> QED BY <1>4, Least
<1>6. i \in D /\ Cost(candidates[i]) = x /\ i \in Nat
  BY <1>1, <1>5
<1>7. ASSUME NEW c \in ToSet(candidates) PROVE x <= Cost(c)
  BY <1>1, <1>3
<1>8. candidates[i] \in Cheapest(ToSet(candidates))
  BY <1>1, <1>6, <1>7 DEF Cheapest
<1>9. ASSUME NEW j \in 1..(i - 1) PROVE Cost(candidates[j]) # Cost(candidates[i])
  <2>1. j \in D /\ ~(i <= j)
    BY <1>1, <1>6
  <2>2. j \notin I
    BY <1>5, <2>1
  <2> QED BY <1>6, <2>1, <2>2
<1> HIDE DEF N, I
<1>10. /\ BestCandidate \in D
       /\ candidates[BestCandidate] \in Cheapest(ToSet(candidates))
  BY <1>6, <1>8, <1>9 DEF BestCandidate
<1> QED BY <1>1, <1>10 DEF Cheapest

-----------------------------------------------------------------------------
(* The invariant of the planner.                                           *)

PlannerTypeOK ==
    /\ graph \in SUBSET Links /\ dialable \in Adverts
    /\ stage \in {"targets", "search", "routes", "choose", "ranked"}
    /\ index \in 0..Len(Targets)
    /\ accepted \in Seq(Paths) /\ candidates \in Seq(Paths)
    /\ resolved \in Seq(Paths) /\ answer \in Seq(Paths)
    /\ spur \in Nat \ {0} /\ hop \in Nat
    /\ DOMAIN layer \subseteq Nodes /\ \A n \in DOMAIN layer : layer[n] \in Paths

\* A target is being planned for.
Planning == stage \in {"search", "routes", "choose"}

Accepted == ToSet(accepted)
Pool == ToSet(candidates)

\* The links the search under way may take.
Usable == IF accepted = <<>>
             THEN Adjacency
             ELSE Allowed(Adjacency, Accepted \cup Pool, previous.hops, spur)

\* The first spur node that is yet to be tried.
Untried == IF stage = "routes" THEN 1
           ELSE IF stage = "search" THEN spur ELSE Len(previous.hops)

\* The search has done hop layers over the usable links.
SearchInv ==
    stage = "search" =>
        /\ IF accepted = <<>> THEN spur = 1 ELSE spur \in 1..(Len(previous.hops) - 1)
        /\ hop <= Budget
        /\ SearchOK(Adjacency, Usable, From, hop, layer)

\* The accepted routes and the candidates are what Yen's algorithm wants them
\* to be: the tours not accepted are covered by candidates, but for those that
\* leave at a spur node yet to be tried, and none is cheaper than the last
\* route accepted.
YenInv ==
    Planning =>
        /\ index # 0 /\ Results # 0
        /\ accepted = <<>> => stage = "search" /\ candidates = <<>>
        /\ accepted # <<>> =>
              /\ YenOK(Adjacency, target, Accepted, Pool)
              /\ Once(accepted) /\ Once(candidates) /\ Ascending(accepted)
              /\ NoneCheaper(Adjacency, target, Accepted, previous)
              /\ CoveredBut(Adjacency, target, Accepted, Pool, previous, Untried)

\* What is carried from one target to the next runs over dialable relays.
AnswerInv ==
    /\ \A p \in ToSet(resolved) :
          Walk(Adjacency, p) /\ Dialable(p) /\ Last(p.hops) \in ToSet(Targets)
    /\ Limit = 0 => resolved = <<>>
    /\ stage = "ranked" => answer = Ranked(resolved)

PlannerInv == PlannerTypeOK /\ SearchInv /\ YenInv /\ AnswerInv

-----------------------------------------------------------------------------

\* What the types say of the planner's sets.
LEMMA Base ==
  ASSUME PlannerTypeOK
  PROVE  /\ Adjacency \in SUBSET Links /\ Source \in Nodes
         /\ index # 0 => target \in Nodes
         /\ Accepted = {accepted[i] : i \in 1..Len(accepted)}
         /\ ToSet(accepted \o candidates) = Accepted \cup Pool
         /\ accepted # <<>> => previous \in Accepted
         /\ accepted = <<>> => Accepted = {}
         /\ candidates = <<>> <=> Pool = {}
<1>1. Adjacency \in SUBSET Links /\ Source \in Nodes
  BY PlannerAssumption DEF PlannerTypeOK, Adjacency, PlannerAssumption
<1>2. index # 0 => target \in Nodes
  <2>1. Targets \in Seq(Nodes) /\ index \in 0..Len(Targets)
    BY PlannerAssumption DEF PlannerTypeOK, PlannerAssumption
  <2>2. index # 0 => index \in 1..Len(Targets)
    BY <2>1
  <2>3. \A i \in 1..Len(Targets) : Targets[i] \in Nodes
    BY <2>1
  <2> QED BY <2>2, <2>3 DEF target
<1>3. accepted \in Seq(Paths) /\ candidates \in Seq(Paths)
  BY DEF PlannerTypeOK
<1>4. /\ Accepted = {accepted[i] : i \in 1..Len(accepted)}
      /\ accepted # <<>> => previous \in Accepted
      /\ accepted = <<>> => Accepted = {}
  BY <1>3, ToSetIs DEF Accepted, previous
<1>5. candidates = <<>> <=> Pool = {}
  <2>1. /\ Pool = {candidates[i] : i \in 1..Len(candidates)} /\ Len(candidates) \in Nat
        /\ candidates = <<>> <=> Len(candidates) = 0
    BY <1>3, ToSetIs DEF Pool
  <2>2. CASE Len(candidates) = 0
    <3>1. 1..Len(candidates) = {}
      BY <2>2
    <3> QED BY <2>1, <2>2, <3>1
  <2>3. CASE Len(candidates) # 0
    <3>1. 1 \in 1..Len(candidates)
      BY <2>1, <2>3
    <3> QED BY <2>1, <2>3, <3>1
  <2> QED BY <2>2, <2>3
<1>6. ToSet(accepted \o candidates) = Accepted \cup Pool
  BY <1>3, JoinIs DEF Accepted, Pool
<1> QED BY <1>1, <1>2, <1>4, <1>5, <1>6

\* The model's offers and improvements are those over the usable links.
LEMMA OffersAre ==
  ASSUME PlannerTypeOK, accepted = <<>> => spur = 1 /\ candidates = <<>>
  PROVE  /\ \A node : Offers(node) = OffersIn(Usable, layer, node)
         /\ Improved = ImprovedIn(Usable, layer)
         /\ Whole(Adjacency, Usable) /\ Usable \in SUBSET Adjacency
<1>1. Usable = {l \in Adjacency : l.to \notin BannedNodes /\ <<l.from, l.to>> \notin BannedEdges}
  <2>1. CASE accepted = <<>>
    <3>1. ToSet(accepted \o candidates) = {}
      <4>1. ToSet(accepted \o candidates) = Accepted \cup Pool /\ Accepted = {} /\ Pool = {}
        BY <2>1, Base
      <4> QED BY <4>1
    <3>2. BannedEdges = {}
      BY <3>1 DEF BannedEdges
    <3>3. BannedNodes = {}
      BY <2>1 DEF BannedNodes
    <3> QED BY <2>1, <3>2, <3>3 DEF Usable
  <2>2. CASE accepted # <<>>
    <3>1. ToSet(accepted \o candidates) = Accepted \cup Pool
      BY Base
    <3>2. BannedEdges = BannedEdgesAt(Accepted \cup Pool, previous.hops, spur)
      BY <3>1 DEF BannedEdges, BannedEdgesAt
    <3>3. BannedNodes = BannedNodesAt(previous.hops, spur)
      BY DEF BannedNodes, BannedNodesAt
    <3> QED BY <2>2, <3>2, <3>3 DEF Usable, Allowed
  <2> QED BY <2>1, <2>2
<1>2. ASSUME NEW node PROVE Offers(node) = OffersIn(Usable, layer, node)
  <2>1. {l \in Adjacency : /\ l.from \in DOMAIN layer /\ l.to = node
                           /\ node \notin BannedNodes
                           /\ <<l.from, node>> \notin BannedEdges}
        = {l \in Usable : l.from \in DOMAIN layer /\ l.to = node}
    BY <1>1
  <2> QED BY <2>1 DEF Offers, OffersIn
<1>3. Improved = ImprovedIn(Usable, layer)
  BY <1>2 DEF Improved, ImprovedIn
<1>4. Whole(Adjacency, Usable) /\ Usable \in SUBSET Adjacency
  BY AllowedIsWhole DEF Usable, Whole
<1> QED BY <1>2, <1>3, <1>4

\* The invariant holds at first, and every step keeps it.
LEMMA PlannerStarts == Init => PlannerInv
<1> SUFFICES ASSUME Init PROVE PlannerInv
  OBVIOUS
<1>1. PlannerTypeOK
  <2>1. Targets \in Seq(Nodes)
    BY PlannerAssumption DEF PlannerAssumption
  <2>2. DOMAIN layer = {}
    BY DEF Init
  <2>3. 0 \in 0..Len(Targets)
    BY <2>1
  <2> QED BY <2>2, <2>3 DEF Init, PlannerTypeOK
<1>2. SearchInv /\ YenInv
  BY DEF Init, SearchInv, YenInv, Planning
<1>3. AnswerInv
  BY DEF Init, AnswerInv, ToSet
<1> QED BY <1>1, <1>2, <1>3 DEF PlannerInv

LEMMA AnswerKeeps ==
  ASSUME AnswerInv, UNCHANGED <<graph, dialable, resolved>>, stage' # "ranked"
  PROVE  AnswerInv'
BY DEF AnswerInv, Adjacency, Dialable

LEMMA StartedIs ==
  ASSUME NEW A \in SUBSET Links, NEW F, Whole(A, F), NEW node \in Nodes,
         StartSearch(node)
  PROVE  /\ hop' = 0 /\ SearchOK(A, F, node, 0, layer')
         /\ DOMAIN layer' \subseteq Nodes /\ \A n \in DOMAIN layer' : layer'[n] \in Paths
<1>1. DOMAIN layer' = {node} /\ layer'[node] = At(node) /\ hop' = 0
  BY DEF StartSearch
<1>2. At(node) \in Paths
  BY DEF At, Paths
<1>3. SearchOK(A, F, node, 0, layer')
  BY <1>1, SearchStarts
<1> QED BY <1>1, <1>2, <1>3

LEMMA NextTargetKeeps ==
  ASSUME PlannerInv, NextTarget
  PROVE  PlannerInv'
<1>1. /\ PlannerTypeOK /\ AnswerInv
      /\ index < Len(Targets) /\ index' = index + 1
      /\ accepted' = <<>> /\ candidates' = <<>> /\ spur' = 1 /\ StartSearch(Source)
      /\ stage' = IF Results = 0 THEN "targets" ELSE "search"
      /\ UNCHANGED <<graph, dialable, resolved, answer>>
  BY DEF PlannerInv, NextTarget
<1>2. Adjacency \in SUBSET Links /\ Source \in Nodes
  BY <1>1, Base
<1>3. Whole(Adjacency, Adjacency)
  BY DEF Whole
<1>4. /\ hop' = 0 /\ SearchOK(Adjacency, Adjacency, Source, 0, layer')
      /\ DOMAIN layer' \subseteq Nodes /\ \A n \in DOMAIN layer' : layer'[n] \in Paths
  BY <1>1, <1>2, <1>3, StartedIs
<1>5. index \in 0..Len(Targets) /\ index' \in 0..Len(Targets) /\ index' # 0
  <2>1. Len(Targets) \in Nat /\ index \in 0..Len(Targets)
    BY <1>1, PlannerAssumption DEF PlannerTypeOK, PlannerAssumption
  <2> QED BY <1>1, <2>1
<1>6. PlannerTypeOK'
  BY <1>1, <1>4, <1>5 DEF PlannerTypeOK
<1>7. Adjacency' = Adjacency
  BY <1>1 DEF Adjacency
<1>8. Usable' = Adjacency /\ From' = Source /\ Budget' = Hops
  BY <1>1, <1>7, HopsType DEF Usable, From, Budget
<1>9. SearchInv'
  BY <1>1, <1>4, <1>7, <1>8, HopsType DEF SearchInv
<1>10. YenInv'
  <2>1. stage' # "routes" /\ stage' # "choose" /\ (stage' = "search" => Results # 0)
    BY <1>1
  <2>2. Results' = Results
    BY DEF Results
  <2> QED BY <1>1, <1>5, <2>1, <2>2 DEF YenInv, Planning
<1>11. AnswerInv'
  BY <1>1, AnswerKeeps
<1> QED BY <1>6, <1>9, <1>10, <1>11 DEF PlannerInv

LEMMA RelaxKeeps ==
  ASSUME PlannerInv, Relax
  PROVE  PlannerInv'
<1>1. /\ PlannerTypeOK /\ SearchInv /\ YenInv /\ AnswerInv
      /\ stage = "search" /\ ~Ended /\ hop' = hop + 1
      /\ UNCHANGED <<graph, dialable, stage, index, accepted, candidates, spur, resolved, answer>>
  BY DEF PlannerInv, Relax
<1>2. PICK best \in [Improved -> UNION {Cheapest(Offers(n)) : n \in Improved}] :
         /\ \A n \in Improved : best[n] \in Cheapest(Offers(n))
         /\ layer' = [n \in Improved \cup DOMAIN layer |->
                         IF n \in Improved THEN best[n] ELSE layer[n]]
  BY DEF Relax
<1>3. Adjacency \in SUBSET Links
  BY <1>1, Base
<1>4. /\ \A node : Offers(node) = OffersIn(Usable, layer, node)
      /\ Improved = ImprovedIn(Usable, layer)
      /\ Whole(Adjacency, Usable) /\ Usable \in SUBSET Adjacency
  <2>1. accepted = <<>> => spur = 1 /\ candidates = <<>>
    BY <1>1 DEF SearchInv, YenInv, Planning
  <2> QED BY <1>1, <2>1, OffersAre
<1>5. /\ DOMAIN layer' = ImprovedIn(Usable, layer) \cup DOMAIN layer
      /\ \A n \in DOMAIN layer' :
            layer'[n] = IF n \in ImprovedIn(Usable, layer) THEN best[n] ELSE layer[n]
  BY <1>2, <1>4
<1>6. \A n \in ImprovedIn(Usable, layer) : best[n] \in Cheapest(OffersIn(Usable, layer, n))
  BY <1>2, <1>4
<1>7. hop <= Budget /\ SearchOK(Adjacency, Usable, From, hop, layer) /\ hop \in Nat
  BY <1>1 DEF SearchInv, PlannerTypeOK
<1>8. SearchOK(Adjacency, Usable, From, hop + 1, layer')
  <2> DEFINE U == Usable
             M == layer'
             h == hop
  <2>1. /\ Whole(Adjacency, U) /\ SearchOK(Adjacency, U, From, h, layer) /\ h \in Nat
        /\ \A n \in ImprovedIn(U, layer) : best[n] \in Cheapest(OffersIn(U, layer, n))
        /\ DOMAIN M = ImprovedIn(U, layer) \cup DOMAIN layer
        /\ \A n \in DOMAIN M : M[n] = IF n \in ImprovedIn(U, layer) THEN best[n] ELSE layer[n]
    BY <1>4, <1>5, <1>6, <1>7
  <2> HIDE DEF U, M, h
  <2>2. SearchOK(Adjacency, U, From, h + 1, M)
    BY <1>3, <2>1, SearchGoes
  <2> QED BY <2>2 DEF U, M, h
<1>9. hop + 1 <= Budget
  <2>1. hop # Budget /\ Budget \in Int
    BY <1>1, HopsType DEF Ended, Budget, PlannerTypeOK
  <2> QED BY <1>7, <2>1
<1>10. /\ Adjacency' = Adjacency /\ Usable' = Usable /\ From' = From /\ Budget' = Budget
       /\ previous' = previous /\ target' = target /\ Accepted' = Accepted /\ Pool' = Pool
       /\ Untried' = Untried
  BY <1>1 DEF Adjacency, Usable, From, Budget, previous, target, Accepted, Pool, Untried
<1>11. SearchInv'
  BY <1>1, <1>8, <1>9, <1>10 DEF SearchInv
<1>12. YenInv'
  <2>1. Results' = Results
    BY DEF Results
  <2> QED BY <1>1, <1>10, <2>1 DEF YenInv, Planning, Once, Ascending
<1>13. PlannerTypeOK'
  <2>1. \A n \in DOMAIN layer : n \in Nodes /\ layer[n] \in Paths
    BY <1>1 DEF PlannerTypeOK
  <2>2. ASSUME NEW n \in ImprovedIn(Usable, layer)
        PROVE  n \in Nodes /\ best[n] \in Paths
    <3>1. best[n] \in OffersIn(Usable, layer, n)
      BY <1>6 DEF Cheapest
    <3>2. PICK l \in Usable : l.from \in DOMAIN layer /\ l.to = n /\ best[n] = Along(layer[l.from], l)
      BY <3>1 DEF OffersIn
    <3>3. n \in Nodes /\ l \in Links
      BY <1>3, <1>4 DEF ImprovedIn
    <3> QED BY <2>1, <3>2, <3>3 DEF Along, Paths
  <2>3. DOMAIN layer' \subseteq Nodes /\ \A n \in DOMAIN layer' : layer'[n] \in Paths
    BY <1>5, <2>1, <2>2
  <2>4. hop' \in Nat
    BY <1>1, <1>7
  <2> QED BY <1>1, <2>3, <2>4 DEF PlannerTypeOK
<1>14. AnswerInv'
  BY <1>1, AnswerKeeps
<1> QED BY <1>11, <1>12, <1>13, <1>14 DEF PlannerInv

\* A first search that ended has seen every tour.
LEMMA FirstSearchIs ==
  ASSUME PlannerInv, Ended, accepted = <<>>
  PROVE  /\ target \in Nodes
         /\ Reached => Sound(Adjacency, target, layer[target])
         /\ \A hops : Tour(Adjacency, target, hops) =>
               Reached /\ Cost(layer[target]) <= Toll(Adjacency, hops)
<1>1. /\ PlannerTypeOK /\ SearchInv /\ YenInv /\ stage = "search" /\ Planning
  BY DEF PlannerInv, Ended, Planning
<1>2. Adjacency \in SUBSET Links /\ target \in Nodes /\ Source \in Nodes
  BY <1>1, Base DEF YenInv
<1>3. /\ spur = 1 /\ hop <= Budget /\ hop \in Nat
      /\ SearchOK(Adjacency, Adjacency, Source, hop, layer)
      /\ From = Source /\ Usable = Adjacency
  BY <1>1 DEF SearchInv, From, Usable, PlannerTypeOK
<1>4. Budget = Hops /\ Hops \in Nat
  BY <1>3, HopsType DEF Budget
<1>5. Whole(Adjacency, Adjacency)
  BY DEF Whole
<1>6. ASSUME Reached PROVE Sound(Adjacency, target, layer[target])
  <2> DEFINE p == layer[target]
  <2>1. IsInjective(p.hops) /\ Reaching(Adjacency, Adjacency, Source, hop, target, p)
    BY <1>3, <1>6 DEF Reached, SearchOK
  <2>2. /\ Walk(Adjacency, p) /\ Tight(Adjacency, p) /\ p.hops[1] = Source
        /\ Last(p.hops) = target /\ Len(p.links) <= hop
    BY <2>1 DEF Reaching
  <2>3. Trail(Adjacency, p.hops) /\ Len(p.links) \in Nat /\ Len(p.hops) = Len(p.links) + 1
    BY <1>2, <2>2, WalkIsTrail DEF Walk
  <2> HIDE DEF p
  <2>4. Len(p.hops) - 1 <= Hops
    BY <1>3, <1>4, <2>2, <2>3
  <2>5. Sound(Adjacency, target, p)
    BY <2>1, <2>2, <2>3, <2>4 DEF Sound, Tour
  <2> QED BY <2>5 DEF p
<1>7. ASSUME NEW hops, Tour(Adjacency, target, hops)
      PROVE  Reached /\ Cost(layer[target]) <= Toll(Adjacency, hops)
  <2>1. /\ Trail(Adjacency, hops) /\ hops[1] = Source /\ Last(hops) = target
        /\ Len(hops) - 1 <= Hops /\ Len(hops) \in Nat /\ Len(hops) # 0
        /\ hops[Len(hops)] = target
        /\ \A i, j \in 1..Len(hops) : hops[i] = hops[j] => i = j
    BY <1>7, TourIs DEF Tour
  <2>2. Len(hops) - 1 <= hop
    <3>1. CASE hop = Budget
      BY <1>4, <2>1, <3>1
    <3>2. CASE Source = target
      <4>1. 1 \in 1..Len(hops) /\ Len(hops) \in 1..Len(hops)
        BY <2>1
      <4>2. Len(hops) = 1
        BY <2>1, <3>2, <4>1
      <4> QED BY <1>3, <4>2
    <3> QED BY <1>3, <3>1, <3>2 DEF Ended
  <2>3. target \in DOMAIN layer /\ Cost(layer[target]) <= Toll(Adjacency, hops)
    BY <1>3, <2>1, <2>2 DEF SearchOK
  <2>4. IsInjective(layer[target].hops)
    BY <1>2, <1>3, <1>5, <2>3, SearchFinds
  <2> QED BY <2>3, <2>4 DEF Reached
<1> QED BY <1>2, <1>6, <1>7

LEMMA NoRouteKeeps ==
  ASSUME PlannerInv, NoRoute
  PROVE  PlannerInv'
<1>1. /\ PlannerTypeOK /\ AnswerInv /\ stage' = "targets"
      /\ UNCHANGED <<graph, dialable, index, accepted, candidates, spur, hop, layer, resolved, answer>>
  BY DEF PlannerInv, NoRoute, search
<1>2. PlannerTypeOK'
  BY <1>1 DEF PlannerTypeOK
<1>3. SearchInv' /\ YenInv'
  BY <1>1 DEF SearchInv, YenInv, Planning
<1>4. AnswerInv'
  BY <1>1, AnswerKeeps
<1> QED BY <1>2, <1>3, <1>4 DEF PlannerInv

LEMMA FirstRouteKeeps ==
  ASSUME PlannerInv, FirstRoute
  PROVE  PlannerInv'
<1> DEFINE p == layer[target]
<1>1. /\ PlannerTypeOK /\ SearchInv /\ YenInv /\ AnswerInv
      /\ Ended /\ accepted = <<>> /\ Reached /\ stage = "search"
      /\ accepted' = <<p>> /\ stage' = "routes"
      /\ UNCHANGED <<graph, dialable, index, candidates, spur, hop, layer, resolved, answer>>
  BY DEF PlannerInv, FirstRoute, search, Ended
<1>2. /\ target \in Nodes /\ Sound(Adjacency, target, p)
      /\ \A hops : Tour(Adjacency, target, hops) => Cost(p) <= Toll(Adjacency, hops)
  BY <1>1, FirstSearchIs
<1>3. Adjacency \in SUBSET Links /\ p \in Paths
  BY <1>1, Base DEF Reached, PlannerTypeOK
<1>4. candidates = <<>> /\ index # 0 /\ Results # 0
  BY <1>1 DEF YenInv, Planning
<1> HIDE DEF p
<1>5. /\ YenOK(Adjacency, target, {p}, {})
      /\ CoveredBut(Adjacency, target, {p}, {}, p, 1)
  BY <1>2, <1>3, FirstKeeps
<1>6. NoneCheaper(Adjacency, target, {p}, p)
  BY <1>2 DEF NoneCheaper
<1>7. /\ Adjacency' = Adjacency /\ target' = target /\ Results' = Results
      /\ index' # 0 /\ accepted' # <<>>
      /\ Accepted' = {p} /\ Pool' = {} /\ previous' = p /\ Untried' = 1
  <2>1. Adjacency' = Adjacency /\ target' = target /\ Results' = Results /\ index' # 0
    BY <1>1, <1>4 DEF Adjacency, target, Results
  <2>2. Accepted' = {p} /\ previous' = p /\ accepted' # <<>>
    <3>1. ToSet(<<p>>) = {p} /\ Last(<<p>>) = p /\ <<p>> # <<>>
      BY DEF ToSet, Last
    <3> QED BY <1>1, <3>1 DEF Accepted, previous
  <2>3. Pool' = {}
    BY <1>1, <1>4 DEF Pool, ToSet
  <2>4. Untried' = 1
    BY <1>1 DEF Untried
  <2> QED BY <2>1, <2>2, <2>3, <2>4
<1>8. Once(accepted') /\ Once(candidates') /\ Ascending(accepted')
  BY <1>1, <1>4 DEF Once, Ascending
<1>9. YenInv'
  BY <1>1, <1>4, <1>5, <1>6, <1>7, <1>8 DEF YenInv, Once, Ascending
<1>10. SearchInv'
  BY <1>1 DEF SearchInv
<1>11. PlannerTypeOK'
  BY <1>1, <1>3 DEF PlannerTypeOK
<1>12. AnswerInv'
  BY <1>1, AnswerKeeps
<1> QED BY <1>9, <1>10, <1>11, <1>12 DEF PlannerInv

\* What is known of the last route accepted.
LEMMA PreviousIs ==
  ASSUME PlannerInv, Planning, accepted # <<>>
  PROVE  /\ Adjacency \in SUBSET Links /\ target \in Nodes /\ Results # 0 /\ index # 0
         /\ YenOK(Adjacency, target, Accepted, Pool)
         /\ previous \in Accepted /\ Sound(Adjacency, target, previous)
         /\ previous.hops \in Seq(Nodes) /\ Len(previous.hops) \in Nat /\ Len(previous.hops) # 0
         /\ \A s \in 1..(Len(previous.hops) - 1) : previous.hops[s] # target
         /\ NoneCheaper(Adjacency, target, Accepted, previous)
         /\ CoveredBut(Adjacency, target, Accepted, Pool, previous, Untried)
<1>1. PlannerTypeOK /\ YenInv
  BY DEF PlannerInv
<1>2. /\ index # 0 /\ Results # 0
      /\ YenOK(Adjacency, target, Accepted, Pool)
      /\ NoneCheaper(Adjacency, target, Accepted, previous)
      /\ CoveredBut(Adjacency, target, Accepted, Pool, previous, Untried)
  BY <1>1 DEF YenInv
<1>3. Adjacency \in SUBSET Links /\ target \in Nodes /\ previous \in Accepted
  BY <1>1, <1>2, Base
<1>4. Sound(Adjacency, target, previous)
  BY <1>2, <1>3 DEF YenOK
<1>5. Tour(Adjacency, target, previous.hops)
  BY <1>4 DEF Sound
<1>6. /\ previous.hops \in Seq(Nodes) /\ Len(previous.hops) \in Nat /\ Len(previous.hops) # 0
      /\ previous.hops[Len(previous.hops)] = target
      /\ \A i, j \in 1..Len(previous.hops) : previous.hops[i] = previous.hops[j] => i = j
  BY <1>5, TourIs
<1>7. ASSUME NEW s \in 1..(Len(previous.hops) - 1)
      PROVE  previous.hops[s] # target
  <2>1. s \in 1..Len(previous.hops) /\ Len(previous.hops) \in 1..Len(previous.hops)
        /\ s # Len(previous.hops)
    BY <1>6
  <2> QED BY <1>6, <2>1
<1> QED BY <1>2, <1>3, <1>4, <1>6, <1>7

LEMMA DivertKeeps ==
  ASSUME PlannerInv, Divert
  PROVE  PlannerInv'
<1>1. /\ PlannerTypeOK /\ YenInv /\ AnswerInv
      /\ stage = "routes" /\ spur' = 1
      /\ IF Len(previous.hops) = 1
            THEN stage' = "choose" /\ UNCHANGED <<hop, layer>>
            ELSE stage' = "search" /\ StartSearch(previous.hops[1])
      /\ UNCHANGED <<graph, dialable, index, accepted, candidates, resolved, answer>>
  BY DEF PlannerInv, Divert
<1>2. Planning /\ accepted # <<>>
  BY <1>1 DEF Planning, YenInv
<1>3. /\ Adjacency \in SUBSET Links /\ Results # 0 /\ index # 0
      /\ previous.hops \in Seq(Nodes) /\ Len(previous.hops) \in Nat /\ Len(previous.hops) # 0
  BY <1>2, PreviousIs
<1>4. /\ Adjacency' = Adjacency /\ target' = target /\ Results' = Results
      /\ Accepted' = Accepted /\ Pool' = Pool /\ previous' = previous
  BY <1>1 DEF Adjacency, target, Results, Accepted, Pool, previous
<1>5. Untried' = Untried
  BY <1>1, <1>4 DEF Untried
<1>6. YenInv'
  BY <1>1, <1>2, <1>4, <1>5 DEF YenInv, Once, Ascending
<1>7. AnswerInv'
  BY <1>1, AnswerKeeps
<1>8. CASE Len(previous.hops) = 1
  <2>1. PlannerTypeOK'
    BY <1>1, <1>8 DEF PlannerTypeOK
  <2>2. SearchInv'
    BY <1>1, <1>8 DEF SearchInv
  <2> QED BY <1>6, <1>7, <2>1, <2>2 DEF PlannerInv
<1>9. CASE Len(previous.hops) # 1
  <2> DEFINE U == Allowed(Adjacency, Accepted \cup Pool, previous.hops, 1)
             s == previous.hops[1]
  <2>1. s \in Nodes /\ 1 \in 1..(Len(previous.hops) - 1)
    <3>0. \A m \in Nat : m # 0 /\ m # 1 => 1 \in 1..m /\ 1 \in 1..(m - 1)
      OBVIOUS
    <3>1. 1 \in 1..Len(previous.hops) /\ 1 \in 1..(Len(previous.hops) - 1)
      BY <1>3, <1>9, <3>0
    <3>2. \A i \in 1..Len(previous.hops) : previous.hops[i] \in Nodes
      BY <1>3
    <3> QED BY <3>1, <3>2
  <2>2. Whole(Adjacency, U)
    BY AllowedIsWhole
  <2>3. StartSearch(s) /\ stage' = "search"
    BY <1>1, <1>9
  <2>4. Usable' = U /\ From' = s /\ Budget' = Hops
    BY <1>1, <1>2, <1>4, HopsType DEF Usable, From, Budget
  <2> HIDE DEF U, s
  <2>5. /\ hop' = 0 /\ SearchOK(Adjacency, U, s, 0, layer')
        /\ DOMAIN layer' \subseteq Nodes /\ \A n \in DOMAIN layer' : layer'[n] \in Paths
    BY <1>3, <2>1, <2>2, <2>3, StartedIs
  <2>6. PlannerTypeOK'
    BY <1>1, <2>3, <2>5 DEF PlannerTypeOK
  <2>7. SearchInv'
    BY <1>1, <1>2, <1>4, <2>1, <2>3, <2>4, <2>5, HopsType DEF SearchInv
  <2> QED BY <1>6, <1>7, <2>6, <2>7 DEF PlannerInv
<1> QED BY <1>8, <1>9

\* The search from a spur node adds its route, unless it found none.
LEMMA SpurStep ==
  ASSUME PlannerInv, SpurEnds
  PROVE  /\ Spurred(Adjacency, target, Accepted, Pool, previous, spur, layer)
         /\ spur \in 1..(Len(previous.hops) - 1) /\ spur \in Nat
         /\ candidates' \in Seq(Paths) /\ Once(candidates')
         /\ ToSet(candidates') = IF target \in DOMAIN layer
                                 THEN Pool \cup {Rooted(previous, spur - 1, layer[target])}
                                 ELSE Pool
<1> DEFINE route == Rooted(previous, spur - 1, layer[target])
           p == layer[target]
<1>1. /\ PlannerTypeOK /\ SearchInv /\ YenInv
      /\ Ended /\ accepted # <<>> /\ stage = "search" /\ Planning
      /\ candidates' = candidates \o Found
  BY DEF PlannerInv, SpurEnds, Ended, Planning
<1>2. /\ Adjacency \in SUBSET Links /\ previous \in Accepted
      /\ YenOK(Adjacency, target, Accepted, Pool)
      /\ Len(previous.hops) \in Nat
      /\ \A s \in 1..(Len(previous.hops) - 1) : previous.hops[s] # target
  BY <1>1, PreviousIs
<1>3. /\ spur \in 1..(Len(previous.hops) - 1) /\ spur \in Nat
      /\ SearchOK(Adjacency, Usable, From, hop, layer) /\ From = previous.hops[spur]
      /\ Usable = Allowed(Adjacency, Accepted \cup Pool, previous.hops, spur)
  BY <1>1 DEF SearchInv, From, Usable, PlannerTypeOK
<1>4. hop = Budget
  BY <1>1, <1>2, <1>3 DEF Ended
<1>5. Spurred(Adjacency, target, Accepted, Pool, previous, spur, layer)
  BY <1>1, <1>2, <1>3, <1>4 DEF Spurred, Budget
<1>6. candidates \in Seq(Paths) /\ accepted \in Seq(Paths) /\ Once(candidates)
  BY <1>1 DEF PlannerTypeOK, YenInv
<1>7. ToSet(accepted \o candidates) = Accepted \cup Pool
  BY <1>1, Base
<1>8. CASE target \in DOMAIN layer
  <2>1. \A q \in Accepted \cup Pool : q.hops # route.hops
    <3>2. Adjacency \in SUBSET Links
      BY <1>2
    <3> QED BY <1>5, <1>8, <3>2, SpurIsNew
  <2>2. IsInjective(p.hops)
    <3>1. IsInjective(layer[target].hops)
      BY <1>2, <1>5, <1>8, SpurDown
    <3> QED BY <3>1
  <2>3. Found = <<route>>
    BY <1>7, <1>8, <2>1, <2>2 DEF Found, Reached
  <2>4. route \in Paths
    <3>1. previous \in Paths /\ p \in Paths /\ spur - 1 \in Nat /\ spur - 1 < Len(previous.hops)
      <4>1. Accepted \subseteq Paths
        BY <1>6, ToSetIs DEF Accepted
      <4>2. spur - 1 \in Nat /\ spur - 1 < Len(previous.hops)
        BY <1>2, <1>3
      <4> QED BY <1>1, <1>2, <1>8, <4>1, <4>2 DEF PlannerTypeOK
    <3>2. /\ previous.hops \in Seq(Nodes) /\ previous.links \in Seq(Links)
          /\ p.hops \in Seq(Nodes) /\ p.links \in Seq(Links)
      BY <3>1 DEF Paths
    <3>3. SubSeq(previous.hops, 1, spur - 1) \in Seq(Nodes)
      BY <3>1, <3>2
    <3>4. SubSeq(previous.links, 1, spur - 1) \in Seq(Links)
      <4>1. Walk(Adjacency, previous)
        BY <1>2 DEF YenOK, Sound
      <4>2. Len(previous.hops) = Len(previous.links) + 1 /\ Len(previous.links) \in Nat
        BY <3>2, <4>1 DEF Walk
      <4>3. spur - 1 <= Len(previous.links)
        BY <1>2, <1>3, <3>1, <4>2
      <4> QED BY <3>1, <3>2, <4>2, <4>3
    <3> HIDE DEF p
    <3>5. /\ SubSeq(previous.hops, 1, spur - 1) \o p.hops \in Seq(Nodes)
          /\ SubSeq(previous.links, 1, spur - 1) \o p.links \in Seq(Links)
      BY <3>2, <3>3, <3>4, ConcatProperties
    <3>6. route = [hops |-> SubSeq(previous.hops, 1, spur - 1) \o p.hops,
                   links |-> SubSeq(previous.links, 1, spur - 1) \o p.links]
      BY DEF Rooted, p
    <3>7. \A a \in Seq(Nodes), b \in Seq(Links) : [hops |-> a, links |-> b] \in Paths
      BY DEF Paths
    <3> HIDE DEF route
    <3> QED BY <3>5, <3>6, <3>7
  <2> HIDE DEF route
  <2>5. route \notin Pool
    BY <2>1
  <2>6. candidates' = candidates \o <<route>>
    BY <1>1, <2>3
  <2>7. <<route>> \in Seq(Paths) /\ ToSet(<<route>>) = {route} /\ Once(<<route>>)
    BY <2>4 DEF ToSet, Once
  <2>8. /\ candidates \o <<route>> \in Seq(Paths)
        /\ ToSet(candidates \o <<route>>) = ToSet(candidates) \cup ToSet(<<route>>)
        /\ ToSet(candidates) \cap ToSet(<<route>>) = {} => Once(candidates \o <<route>>)
    BY <1>6, <2>7, JoinIs
  <2>9. ToSet(candidates) = Pool
    BY DEF Pool
  <2> QED BY <1>3, <1>5, <1>8, <2>5, <2>6, <2>7, <2>8, <2>9 DEF route
<1>9. CASE target \notin DOMAIN layer
  <2>1. Found = <<>>
    BY <1>9 DEF Found, Reached
  <2>2. candidates' = candidates
    BY <1>1, <1>6, <2>1, ConcatEmptySeq
  <2> QED BY <1>3, <1>5, <1>6, <1>9, <2>2 DEF Pool
<1> QED BY <1>8, <1>9

LEMMA SpurEndsKeeps ==
  ASSUME PlannerInv, SpurEnds
  PROVE  PlannerInv'
<1> DEFINE D == ToSet(candidates')
<1>1. /\ PlannerTypeOK /\ YenInv /\ AnswerInv
      /\ accepted # <<>> /\ stage = "search" /\ Planning
      /\ IF spur + 1 < Len(previous.hops)
            THEN /\ spur' = spur + 1
                 /\ StartSearch(previous.hops[spur + 1])
                 /\ UNCHANGED stage
            ELSE stage' = "choose" /\ UNCHANGED <<spur, hop, layer>>
      /\ UNCHANGED <<graph, dialable, index, accepted, resolved, answer>>
  BY DEF PlannerInv, SpurEnds, Ended, Planning, search
<1>2. /\ Spurred(Adjacency, target, Accepted, Pool, previous, spur, layer)
      /\ spur \in 1..(Len(previous.hops) - 1) /\ spur \in Nat
      /\ candidates' \in Seq(Paths) /\ Once(candidates')
      /\ D = IF target \in DOMAIN layer
                THEN Pool \cup {Rooted(previous, spur - 1, layer[target])}
                ELSE Pool
  BY SpurStep
<1> HIDE DEF D
<1>3. /\ Adjacency \in SUBSET Links /\ index # 0 /\ Results # 0
      /\ previous.hops \in Seq(Nodes) /\ Len(previous.hops) \in Nat /\ Len(previous.hops) # 0
      /\ NoneCheaper(Adjacency, target, Accepted, previous)
      /\ CoveredBut(Adjacency, target, Accepted, Pool, previous, spur)
  <2>1. Untried = spur
    BY <1>1 DEF Untried
  <2> QED BY <1>1, <2>1, PreviousIs
<1>4. YenOK(Adjacency, target, Accepted, D) /\ CoveredBut(Adjacency, target, Accepted, D, previous, spur + 1)
  BY <1>2, <1>3, SpurKeeps
<1>5. /\ Adjacency' = Adjacency /\ target' = target /\ Results' = Results
      /\ Accepted' = Accepted /\ previous' = previous /\ Pool' = D
  BY <1>1 DEF Adjacency, target, Results, Accepted, Pool, previous, D
<1>6. Untried' = spur + 1
  <2>1. CASE spur + 1 < Len(previous.hops)
    BY <1>1, <2>1 DEF Untried
  <2>2. CASE ~(spur + 1 < Len(previous.hops))
    <3>1. spur + 1 = Len(previous.hops)
      BY <1>2, <1>3, <2>2
    <3> QED BY <1>1, <1>5, <2>2, <3>1 DEF Untried
  <2> QED BY <2>1, <2>2
<1>7. YenInv'
  BY <1>1, <1>2, <1>3, <1>4, <1>5, <1>6 DEF YenInv, Once, Ascending
<1>8. AnswerInv'
  <2>1. stage' # "ranked"
    BY <1>1
  <2> QED BY <1>1, <2>1, AnswerKeeps
<1>9. CASE spur + 1 < Len(previous.hops)
  <2> DEFINE U == Allowed(Adjacency, Accepted \cup D, previous.hops, spur + 1)
             s == previous.hops[spur + 1]
  <2>1. s \in Nodes /\ spur + 1 \in 1..(Len(previous.hops) - 1)
    <3>1. spur + 1 \in 1..Len(previous.hops) /\ spur + 1 \in 1..(Len(previous.hops) - 1)
      BY <1>2, <1>3, <1>9
    <3>2. \A i \in 1..Len(previous.hops) : previous.hops[i] \in Nodes
      BY <1>3
    <3> QED BY <3>1, <3>2
  <2>2. Whole(Adjacency, U)
    BY AllowedIsWhole
  <2>3. StartSearch(s) /\ stage' = "search" /\ spur' = spur + 1
    BY <1>1, <1>9
  <2>4. Usable' = U /\ From' = s /\ Budget' = Hops - spur
    BY <1>1, <1>2, <1>5, <2>3, HopsType DEF Usable, From, Budget
  <2>5. 0 <= Hops - spur
    <3>1. Tour(Adjacency, target, previous.hops)
      BY <1>1, PreviousIs DEF Sound
    <3> QED BY <1>2, <1>3, <1>9, <3>1, HopsType DEF Tour
  <2> HIDE DEF U, s
  <2>6. /\ hop' = 0 /\ SearchOK(Adjacency, U, s, 0, layer')
        /\ DOMAIN layer' \subseteq Nodes /\ \A n \in DOMAIN layer' : layer'[n] \in Paths
    BY <1>3, <2>1, <2>2, <2>3, StartedIs
  <2>7. PlannerTypeOK'
    BY <1>1, <1>2, <2>3, <2>6 DEF PlannerTypeOK
  <2>8. SearchInv'
    BY <1>1, <1>5, <2>1, <2>3, <2>4, <2>5, <2>6 DEF SearchInv
  <2> QED BY <1>7, <1>8, <2>7, <2>8 DEF PlannerInv
<1>10. CASE ~(spur + 1 < Len(previous.hops))
  <2>1. PlannerTypeOK'
    BY <1>1, <1>2, <1>10 DEF PlannerTypeOK
  <2>2. SearchInv'
    BY <1>1, <1>10 DEF SearchInv
  <2> QED BY <1>7, <1>8, <2>1, <2>2 DEF PlannerInv
<1> QED BY <1>9, <1>10

LEMMA ChooseKeeps ==
  ASSUME PlannerInv, Choose
  PROVE  PlannerInv'
<1> DEFINE i == BestCandidate
           best == candidates[i]
           Q == Accepted \cup {best}
           D == Pool \ {best}
<1>1. /\ PlannerTypeOK /\ YenInv /\ AnswerInv
      /\ stage = "choose" /\ candidates # <<>>
      /\ accepted' = Append(accepted, best) /\ candidates' = RemoveAt(candidates, i)
      /\ stage' = "routes"
      /\ UNCHANGED <<graph, dialable, index, spur, hop, layer, resolved, answer>>
  BY DEF PlannerInv, Choose, search
<1>2. Planning /\ accepted # <<>>
  BY <1>1 DEF Planning, YenInv
<1>3. /\ candidates \in Seq(Paths) /\ accepted \in Seq(Paths)
      /\ Once(candidates) /\ Once(accepted) /\ Ascending(accepted)
  BY <1>1, <1>2 DEF PlannerTypeOK, YenInv
<1>4. /\ Adjacency \in SUBSET Links /\ Results # 0 /\ index # 0
      /\ YenOK(Adjacency, target, Accepted, Pool) /\ previous \in Accepted
      /\ NoneCheaper(Adjacency, target, Accepted, previous)
      /\ CoveredBut(Adjacency, target, Accepted, Pool, previous, Len(previous.hops))
  <2>1. Untried = Len(previous.hops)
    BY <1>1 DEF Untried
  <2> QED BY <1>2, <2>1, PreviousIs
<1>5. \A p \in Accepted \cup Pool : Cost(p) \in Nat
  BY <1>4, SoundIs DEF YenOK
<1>6. Priced(candidates)
  BY <1>5 DEF Priced, Pool, ToSet
<1>7. i \in 1..Len(candidates) /\ best \in Pool
      /\ \A c \in Pool : Cost(best) <= Cost(c)
  BY <1>1, <1>3, <1>6, BestIs DEF Pool
<1>8. best \in Paths /\ best \notin Accepted
  BY <1>3, <1>4, <1>7 DEF YenOK
<1> HIDE DEF i
<1>9. /\ accepted' \in Seq(Paths) /\ accepted' # <<>> /\ Last(accepted') = best
      /\ Len(accepted') = Len(accepted) + 1
      /\ \A k \in 1..Len(accepted) : accepted'[k] = accepted[k]
      /\ accepted'[Len(accepted) + 1] = best
      /\ ToSet(accepted') = Q /\ Once(accepted')
  <2> HIDE DEF best
  <2> QED BY <1>1, <1>3, <1>8, AppendIs DEF Accepted
<1>10. candidates' \in Seq(Paths) /\ Once(candidates') /\ ToSet(candidates') = D
  BY <1>1, <1>3, <1>7, RemoveIs DEF Pool
<1> HIDE DEF best
<1>11. /\ YenOK(Adjacency, target, Q, D)
       /\ CoveredBut(Adjacency, target, Q, D, best, 1)
       /\ NoneCheaper(Adjacency, target, Q, best)
       /\ Cost(previous) <= Cost(best)
  BY <1>4, <1>7, AcceptKeeps
<1> HIDE DEF Q, D
<1>12. Ascending(accepted')
  <2> SUFFICES ASSUME NEW k \in 1..Len(accepted'), NEW l \in 1..Len(accepted'), k < l
               PROVE  Cost(accepted'[k]) <= Cost(accepted'[l])
    BY DEF Ascending
  <2> DEFINE n == Len(accepted)
  <2>0. /\ n \in Nat /\ n # 0 /\ previous = accepted[n]
        /\ \A m \in 1..n : accepted[m] \in Accepted
    BY <1>2, <1>3 DEF previous, Last, Accepted, ToSet
  <2> HIDE DEF n
  <2>1. k \in 1..n /\ n \in 1..n /\ (l \in 1..n \/ l = n + 1)
    BY <1>9, <2>0 DEF n
  <2>2. accepted'[k] = accepted[k]
    BY <1>9, <2>1 DEF n
  <2>3. CASE l \in 1..n
    <3>1. accepted'[l] = accepted[l]
      BY <1>9, <2>3 DEF n
    <3> QED BY <1>3, <2>1, <2>2, <2>3, <3>1 DEF Ascending, n
  <2>4. CASE l = n + 1
    <3>1. accepted'[l] = best
      BY <1>9, <2>4 DEF n
    <3>2. Cost(accepted[k]) <= Cost(previous)
      <4>1. k < n => Cost(accepted[k]) <= Cost(accepted[n])
        BY <1>3, <2>1 DEF Ascending, n
      <4>2. k < n \/ k = n
        BY <2>0, <2>1
      <4>3. Cost(accepted[k]) \in Nat
        BY <1>5, <2>0, <2>1
      <4> QED BY <2>0, <4>1, <4>2, <4>3
    <3>3. Cost(accepted[k]) \in Nat /\ Cost(previous) \in Nat /\ Cost(best) \in Nat
      BY <1>4, <1>5, <1>7, <2>0, <2>1
    <3> QED BY <1>11, <2>2, <3>1, <3>2, <3>3
  <2> QED BY <2>1, <2>3, <2>4
<1>13. /\ Adjacency' = Adjacency /\ target' = target /\ Results' = Results
       /\ Accepted' = Q /\ Pool' = D /\ previous' = best /\ Untried' = 1
  <2>1. Adjacency' = Adjacency /\ target' = target /\ Results' = Results
    BY <1>1 DEF Adjacency, target, Results
  <2>2. Accepted' = Q /\ Pool' = D /\ previous' = best
    BY <1>9, <1>10 DEF Accepted, Pool, previous
  <2>3. Untried' = 1
    BY <1>1 DEF Untried
  <2> QED BY <2>1, <2>2, <2>3
<1>14. YenInv'
  BY <1>1, <1>4, <1>9, <1>10, <1>11, <1>12, <1>13 DEF YenInv, Once, Ascending
<1>15. SearchInv'
  BY <1>1 DEF SearchInv
<1>16. PlannerTypeOK'
  BY <1>1, <1>9, <1>10 DEF PlannerTypeOK
<1>17. AnswerInv'
  BY <1>1, AnswerKeeps
<1> QED BY <1>14, <1>15, <1>16, <1>17 DEF PlannerInv

LEMMA PlanEndsKeeps ==
  ASSUME PlannerInv, PlanEnds
  PROVE  PlannerInv'
<1>1. /\ PlannerTypeOK /\ YenInv /\ AnswerInv
      /\ stage \in {"routes", "choose"} /\ stage' = "targets"
      /\ resolved' = resolved \o Resolved(accepted)
      /\ UNCHANGED <<graph, dialable, index, accepted, candidates, spur, hop, layer, answer>>
  BY DEF PlannerInv, PlanEnds, search
<1>2. Planning /\ accepted # <<>>
  BY <1>1 DEF Planning, YenInv
<1>3. /\ Results # 0
      /\ \A p \in Accepted : Walk(Adjacency, p) /\ Last(p.hops) \in ToSet(Targets)
  <2>1. /\ Results # 0 /\ index # 0
        /\ \A p \in Accepted : Walk(Adjacency, p) /\ Last(p.hops) = target
    BY <1>2, PreviousIs DEF YenOK, Sound, Tour
  <2>2. Targets \in Seq(Nodes) /\ index \in 1..Len(Targets)
    BY <1>1, <2>1, PlannerAssumption DEF PlannerAssumption, PlannerTypeOK
  <2>3. target \in ToSet(Targets)
    BY <2>2, ToSetIs DEF target
  <2> QED BY <2>1, <2>3
<1>4. accepted \in Seq(Paths) /\ resolved \in Seq(Paths)
  BY <1>1 DEF PlannerTypeOK
<1>5. /\ Resolved(accepted) \in Seq(Paths)
      /\ \A p \in ToSet(Resolved(accepted)) : p \in Accepted /\ Dialable(p)
  BY <1>4, ResolvedIs DEF Accepted
<1>6. /\ resolved' \in Seq(Paths)
      /\ ToSet(resolved') = ToSet(resolved) \cup ToSet(Resolved(accepted))
  BY <1>1, <1>4, <1>5, JoinIs
<1>7. \A p \in ToSet(resolved') :
         Walk(Adjacency, p) /\ Dialable(p) /\ Last(p.hops) \in ToSet(Targets)
  BY <1>1, <1>3, <1>5, <1>6 DEF AnswerInv
<1>8. Limit # 0
  <2>1. Limit = 0 => Results = 0
    BY PlannerAssumption DEF PlannerAssumption, Results
  <2> QED BY <1>3, <2>1
<1>9. AnswerInv'
  <2>1. Adjacency' = Adjacency /\ \A p : Dialable(p)' = Dialable(p)
    BY <1>1 DEF Adjacency, Dialable
  <2>2. \A p \in ToSet(resolved') :
           Walk(Adjacency', p) /\ Dialable(p)' /\ Last(p.hops) \in ToSet(Targets)
    BY <1>7, <2>1
  <2> QED BY <1>1, <1>8, <2>2 DEF AnswerInv
<1>10. SearchInv' /\ YenInv'
  BY <1>1 DEF SearchInv, YenInv, Planning
<1>11. PlannerTypeOK'
  BY <1>1, <1>6 DEF PlannerTypeOK
<1> QED BY <1>9, <1>10, <1>11 DEF PlannerInv

LEMMA ResolvedArePriced ==
  ASSUME PlannerInv
  PROVE  resolved \in Seq(Paths) /\ Priced(resolved)
<1>1. resolved \in Seq(Paths) /\ Adjacency \in SUBSET Links
  BY Base DEF PlannerInv, PlannerTypeOK
<1>2. \A p \in ToSet(resolved) : Walk(Adjacency, p)
  BY DEF PlannerInv, AnswerInv
<1>3. \A p \in ToSet(resolved) : Cost(p) \in Nat
  BY <1>1, <1>2, ChargesAre
<1> QED BY <1>1, <1>3 DEF Priced, ToSet

LEMMA RankKeeps ==
  ASSUME PlannerInv, Rank
  PROVE  PlannerInv'
<1>1. /\ PlannerTypeOK /\ AnswerInv
      /\ answer' = Ranked(resolved) /\ stage' = "ranked"
      /\ UNCHANGED <<graph, dialable, index, accepted, candidates, spur, hop, layer, resolved>>
  BY DEF PlannerInv, Rank, search
<1>2. answer' \in Seq(Paths)
  <2>1. Limit = 0 => resolved = <<>>
    BY <1>1 DEF AnswerInv
  <2> QED BY <1>1, <2>1, ResolvedArePriced, RankedIs
<1>3. PlannerTypeOK'
  BY <1>1, <1>2 DEF PlannerTypeOK
<1>4. SearchInv' /\ YenInv'
  BY <1>1 DEF SearchInv, YenInv, Planning
<1>5. AnswerInv'
  <2>1. Adjacency' = Adjacency /\ \A p : Dialable(p)' = Dialable(p)
    BY <1>1 DEF Adjacency, Dialable
  <2>2. \A p \in ToSet(resolved) :
           Walk(Adjacency', p) /\ Dialable(p)' /\ Last(p.hops) \in ToSet(Targets)
    BY <1>1, <2>1 DEF AnswerInv
  <2>3. Ranked(resolved)' = Ranked(resolved')
    BY DEF Ranked, Truncated, Distinct, ByCost, Arranged, InPlace, Sooner
  <2>4. answer' = Ranked(resolved)' /\ resolved' = resolved
    BY <1>1
  <2> QED BY <1>1, <2>2, <2>4 DEF AnswerInv
<1> QED BY <1>3, <1>4, <1>5 DEF PlannerInv

LEMMA PlannerStutters ==
  ASSUME PlannerInv, UNCHANGED vars
  PROVE  PlannerInv'
<1>1. /\ PlannerTypeOK /\ SearchInv /\ YenInv /\ AnswerInv
      /\ UNCHANGED <<graph, dialable, stage, index, accepted, candidates, spur, hop, layer,
                     resolved, answer>>
  BY DEF PlannerInv, vars, search
<1>2. /\ Adjacency' = Adjacency /\ Usable' = Usable /\ From' = From /\ Budget' = Budget
      /\ previous' = previous /\ target' = target /\ Accepted' = Accepted /\ Pool' = Pool
      /\ Untried' = Untried /\ Results' = Results
  BY <1>1 DEF Adjacency, Usable, From, Budget, previous, target, Accepted, Pool, Untried, Results
<1>3. SearchInv'
  BY <1>1, <1>2 DEF SearchInv
<1>4. YenInv'
  BY <1>1, <1>2 DEF YenInv, Planning, Once, Ascending
<1>5. PlannerTypeOK'
  BY <1>1 DEF PlannerTypeOK
<1>6. AnswerInv'
  <2>1. \A p : Dialable(p)' = Dialable(p)
    BY <1>1 DEF Dialable
  <2>2. \A p \in ToSet(resolved) :
           Walk(Adjacency', p) /\ Dialable(p)' /\ Last(p.hops) \in ToSet(Targets)
    BY <1>1, <1>2, <2>1 DEF AnswerInv
  <2>3. stage = "ranked" => answer = Ranked(resolved)
    BY <1>1 DEF AnswerInv
  <2>4. stage' = "ranked" => answer' = Ranked(resolved')
    BY <1>1, <2>3
  <2> QED BY <1>1, <2>2, <2>4 DEF AnswerInv
<1> QED BY <1>3, <1>4, <1>5, <1>6 DEF PlannerInv

LEMMA PlannerKeeps ==
  ASSUME PlannerInv, [Next]_vars
  PROVE  PlannerInv'
<1>1. CASE NextTarget
  BY <1>1, NextTargetKeeps
<1>2. CASE Relax
  BY <1>2, RelaxKeeps
<1>3. CASE NoRoute
  BY <1>3, NoRouteKeeps
<1>4. CASE FirstRoute
  BY <1>4, FirstRouteKeeps
<1>5. CASE Divert
  BY <1>5, DivertKeeps
<1>6. CASE SpurEnds
  BY <1>6, SpurEndsKeeps
<1>7. CASE Choose
  BY <1>7, ChooseKeeps
<1>8. CASE PlanEnds
  BY <1>8, PlanEndsKeeps
<1>9. CASE Rank
  BY <1>9, RankKeeps
<1>10. CASE UNCHANGED vars
  BY <1>10, PlannerStutters
<1> QED BY <1>1, <1>2, <1>3, <1>4, <1>5, <1>6, <1>7, <1>8, <1>9, <1>10 DEF Next

\* At every step of the planning the search's cells hold the cheapest paths of
\* their length, the candidates cover every route not accepted yet, and what
\* has been resolved can be dialed and leads to a target: the inductive
\* invariant.
THEOREM PlannerInvHolds == Spec => []PlannerInv
BY PlannerStarts, PlannerKeeps, PTL DEF Spec

-----------------------------------------------------------------------------
(* What it is for.                                                         *)

\* A walk is what the properties call one.
LEMMA WalkWalks ==
  ASSUME NEW p, Walk(Adjacency, p)
  PROVE  Walks(p)
<1>1. /\ p.links \in Seq(Adjacency) /\ Len(p.hops) = Len(p.links) + 1
      /\ \A i \in 1..Len(p.links) :
            p.links[i].from = p.hops[i] /\ p.links[i].to = p.hops[i + 1]
  BY DEF Walk
<1>2. DOMAIN p.links = 1..Len(p.links) /\ \A i \in 1..Len(p.links) : p.links[i] \in Adjacency
  BY <1>1
<1> QED BY <1>1, <1>2 DEF Walks

LEMMA HeldAreSound == PlannerInv => RoutesAreSound
<1> SUFFICES ASSUME PlannerInv, Planning PROVE RoutesAreSound
  BY DEF RoutesAreSound, Planning
<1> DEFINE held == accepted \o candidates
<1>1. /\ PlannerTypeOK /\ YenInv /\ accepted \in Seq(Paths) /\ candidates \in Seq(Paths)
  BY DEF PlannerInv, PlannerTypeOK
<1>2. held \in Seq(Paths) /\ ToSet(held) = Accepted \cup Pool
  BY <1>1, JoinIs DEF Accepted, Pool
<1>3. DOMAIN held = 1..Len(held) /\ ToSet(held) = {held[i] : i \in 1..Len(held)}
  <2> HIDE DEF held
  <2> QED BY <1>2, ToSetIs
<1>4. CASE accepted = <<>>
  <2>1. Accepted \cup Pool = {}
    <3>1. candidates = <<>>
      BY <1>1, <1>4 DEF YenInv
    <3> QED BY <1>1, <1>4, <3>1, Base
  <2>2. ToSet(held) = {} /\ DOMAIN held = {}
    <3> HIDE DEF held
    <3> QED BY <1>2, <1>3, <2>1
  <2> HIDE DEF held
  <2>3. /\ \A i, j \in DOMAIN held : held[i].hops = held[j].hops => i = j
        /\ \A p \in ToSet(held) :
              /\ Walks(p)
              /\ Head(p.hops) = Source /\ Last(p.hops) = target
              /\ Len(p.links) <= Hops
              /\ IsInjective(p.hops)
    BY <2>2
  <2> QED BY <2>3 DEF RoutesAreSound, held
<1>5. CASE accepted # <<>>
  <2>1. /\ Adjacency \in SUBSET Links
        /\ YenOK(Adjacency, target, Accepted, Pool)
        /\ Once(accepted) /\ Once(candidates)
    BY <1>1, <1>5, PreviousIs DEF YenInv
  <2>2. Once(held)
    BY <1>1, <2>1, JoinIs DEF YenOK, Accepted, Pool
  <2> HIDE DEF held
  <2>3. ASSUME NEW i \in DOMAIN held, NEW j \in DOMAIN held, held[i].hops = held[j].hops
        PROVE  i = j
    <3>1. held[i] \in Accepted \cup Pool /\ held[j] \in Accepted \cup Pool
      BY <1>2, <1>3
    <3>2. held[i] = held[j]
      BY <2>1, <2>3, <3>1 DEF YenOK
    <3> QED BY <1>3, <2>2, <3>2 DEF Once
  <2>4. ASSUME NEW p \in ToSet(held)
        PROVE  /\ Walks(p)
               /\ Head(p.hops) = Source /\ Last(p.hops) = target
               /\ Len(p.links) <= Hops
               /\ IsInjective(p.hops)
    <3>1. Sound(Adjacency, target, p)
      BY <1>2, <2>1 DEF YenOK
    <3>2. Walk(Adjacency, p) /\ Tour(Adjacency, target, p.hops)
      BY <3>1 DEF Sound
    <3>3. Len(p.hops) = Len(p.links) + 1 /\ Len(p.links) \in Nat
      BY <2>1, <3>2, WalkIsTrail DEF Walk
    <3>4. /\ p.hops[1] = Source /\ Last(p.hops) = target /\ Len(p.hops) - 1 <= Hops
          /\ IsInjective(p.hops) /\ p.hops \in Seq(Nodes)
      BY <3>2 DEF Tour, Walk
    <3>5. Head(p.hops) = Source
      BY <3>3, <3>4
    <3>6. Len(p.links) <= Hops
      BY <3>3, <3>4, HopsType
    <3> QED BY <3>2, <3>4, <3>5, <3>6, WalkWalks
  <2> QED BY <2>3, <2>4 DEF RoutesAreSound, held
<1> QED BY <1>4, <1>5

\* Every route the planner holds runs over usable links from the source to the
\* target, within the hop budget, through no node twice, and is held once.
THEOREM PlannerRoutesAreSound == Spec => []RoutesAreSound
BY PlannerInvHolds, HeldAreSound, PTL

\* The tours of the properties are the trails of the proof, and cost the same.
LEMMA ToursAre ==
  ASSUME PlannerTypeOK, NEW t \in Nodes, NEW hops \in Tours(t)
  PROVE  Tour(Adjacency, t, hops)
<1>1. /\ hops \in SimpleTours[t] /\ Len(hops) - 1 <= Hops
      /\ \A i \in 1..(Len(hops) - 1) : Between(Adjacency, hops[i], hops[i + 1]) # {}
  BY DEF Tours, LinksBetween, Between
<1>2. /\ hops \in UNION {[1..n -> Nodes] : n \in 1..Cardinality(Nodes)}
      /\ hops[1] = Source /\ Last(hops) = t /\ IsInjective(hops)
  BY <1>1 DEF SimpleTours
<1>3. PICK n \in 1..Cardinality(Nodes) : hops \in [1..n -> Nodes]
  BY <1>2
<1>4. n \in Nat /\ n # 0
  OBVIOUS
<1>5. hops \in Seq(Nodes) /\ Len(hops) = n
  BY <1>3, <1>4
<1> QED BY <1>1, <1>2, <1>4, <1>5 DEF Tour, Trail

LEMMA TourCostIs ==
  ASSUME NEW hops
  PROVE  TourCost(hops) = Toll(Adjacency, hops)
BY DEF TourCost, Toll, Steps, Step, LinksBetween, Between

LEMMA PlanIsComplete == PlannerInv => PlanIsBest
<1> SUFFICES ASSUME PlannerInv PROVE PlanIsBest
  OBVIOUS
<1>0. PlannerTypeOK /\ YenInv
  BY DEF PlannerInv
<1>1. ASSUME Ended, accepted = <<>>, ~Reached PROVE Tours(target) = {}
  <2> SUFFICES ASSUME NEW hops \in Tours(target) PROVE FALSE
    OBVIOUS
  <2>1. target \in Nodes
    BY <1>1, FirstSearchIs
  <2>2. Tour(Adjacency, target, hops)
    BY <1>0, <2>1, ToursAre
  <2> QED BY <1>1, <2>2, FirstSearchIs
<1>2. ASSUME stage \in {"routes", "choose"}
      PROVE  /\ \A i \in DOMAIN accepted : Cost(accepted[i]) = TourCost(accepted[i].hops)
             /\ IsSorted([i \in DOMAIN accepted |-> Cost(accepted[i])], <=)
             /\ \A hops \in Tours(target) :
                  \/ \E p \in ToSet(accepted) : p.hops = hops
                  \/ TourCost(hops) >= Cost(previous) /\ ~(stage = "choose" /\ candidates = <<>>)
  <2>1. Planning /\ accepted # <<>>
    BY <1>0, <1>2 DEF Planning, YenInv
  <2>2. /\ Adjacency \in SUBSET Links /\ target \in Nodes
        /\ YenOK(Adjacency, target, Accepted, Pool) /\ previous \in Accepted
        /\ NoneCheaper(Adjacency, target, Accepted, previous)
        /\ CoveredBut(Adjacency, target, Accepted, Pool, previous, Untried)
        /\ accepted \in Seq(Paths) /\ Ascending(accepted)
    BY <1>0, <2>1, PreviousIs DEF YenInv, PlannerTypeOK
  <2>3. DOMAIN accepted = 1..Len(accepted) /\ Len(accepted) \in Nat
    BY <2>2
  <2>4. ASSUME NEW p \in Accepted
        PROVE  Cost(p) = TourCost(p.hops)
    <3>1. Sound(Adjacency, target, p)
      BY <2>2 DEF YenOK
    <3> QED BY <2>2, <3>1, SoundIs, TourCostIs
  <2>5. \A i \in DOMAIN accepted : Cost(accepted[i]) = TourCost(accepted[i].hops)
    BY <2>4 DEF Accepted, ToSet
  <2>6. IsSorted([i \in DOMAIN accepted |-> Cost(accepted[i])], <=)
    <3> DEFINE c == [i \in DOMAIN accepted |-> Cost(accepted[i])]
    <3>1. Len(c) = Len(accepted)
      BY <2>3
    <3>2. \A i \in 1..Len(accepted) : c[i] = Cost(accepted[i])
      BY <2>3
    <3> HIDE DEF c
    <3>3. \A i, j \in 1..Len(c) : i < j => c[i] <= c[j]
      BY <2>2, <3>1, <3>2 DEF Ascending
    <3> QED BY <3>3 DEF IsSorted, c
  <2>7. ASSUME NEW hops \in Tours(target), ~\E p \in ToSet(accepted) : p.hops = hops
        PROVE  TourCost(hops) >= Cost(previous) /\ ~(stage = "choose" /\ candidates = <<>>)
    <3>1. Tour(Adjacency, target, hops) /\ hops \notin Hopping(Accepted)
      BY <1>0, <2>2, <2>7, ToursAre DEF Hopping, Accepted
    <3>2. TourCost(hops) >= Cost(previous)
      <4>1. Cost(previous) <= Toll(Adjacency, hops)
        BY <2>2, <3>1 DEF NoneCheaper
      <4> QED BY <4>1, TourCostIs
    <3>3. ASSUME stage = "choose", candidates = <<>> PROVE FALSE
      <4>1. Untried = Len(previous.hops) /\ Pool = {}
        BY <1>0, <3>3, Base DEF Untried
      <4>2. PICK k \in 1..(Len(hops) - 1) : Leaves(Accepted, hops, k)
        <5>1. Accepted # {} /\ \A p \in Accepted : Sound(Adjacency, target, p)
          BY <2>2 DEF YenOK
        <5> QED BY <3>1, <5>1, LeavesSomewhere
      <4>3. k \in Nat
        OBVIOUS
      <4>4. Covered(Adjacency, Accepted, Pool, hops, k)
        BY <2>2, <3>1, <4>1, <4>2, <4>3, CoversAll
      <4> QED BY <4>1, <4>4 DEF Covered
    <3> QED BY <3>2, <3>3
  <2> QED BY <2>5, <2>6, <2>7
<1> QED BY <1>1, <1>2 DEF PlanIsBest

\* The routes accepted are the cheapest there are, in ascending cost; when the
\* candidates run out none is missing; and a search that finds nothing means
\* there is nothing.
THEOREM PlannerPlanIsBest == Spec => []PlanIsBest
BY PlannerInvHolds, PlanIsComplete, PTL

\* What the caller is given, out of what was resolved.
LEMMA AnswerIs ==
  ASSUME PlannerInv, stage = "ranked"
  PROVE  /\ answer \in Seq(Paths) /\ ToSet(answer) \subseteq ToSet(resolved)
         /\ Len(answer) <= Limit /\ Ascending(answer)
         /\ \A k, l \in 1..Len(answer) : answer[k].hops = answer[l].hops => k = l
         /\ \A p \in ToSet(resolved) :
               \/ \E q \in ToSet(answer) : q.hops = p.hops /\ Cost(q) <= Cost(p)
               \/ Len(answer) = Limit /\ Cost(Last(answer)) <= Cost(p)
<1>1. answer = Ranked(resolved) /\ (Limit = 0 => resolved = <<>>)
  BY DEF PlannerInv, AnswerInv
<1>2. resolved \in Seq(Paths) /\ Priced(resolved)
  BY ResolvedArePriced
<1> DEFINE a == Ranked(resolved)
<1>3. /\ a \in Seq(Paths) /\ ToSet(a) \subseteq ToSet(resolved)
      /\ Len(a) <= Limit /\ Ascending(a)
      /\ \A k, l \in 1..Len(a) : a[k].hops = a[l].hops => k = l
      /\ \A p \in ToSet(resolved) :
            \/ \E q \in ToSet(a) : q.hops = p.hops /\ Cost(q) <= Cost(p)
            \/ Len(a) = Limit /\ Cost(Last(a)) <= Cost(p)
  BY <1>1, <1>2, RankedIs
<1>4. answer = a
  BY <1>1
<1> HIDE DEF a
<1> QED BY <1>3, <1>4

\* It is what the property says of it.
LEMMA AnswerIsInOrder == PlannerInv => AnswerIsRanked
<1> SUFFICES ASSUME PlannerInv, stage = "ranked" PROVE AnswerIsRanked
  BY DEF AnswerIsRanked
<1>1. \A p \in ToSet(resolved) : Walk(Adjacency, p) /\ Dialable(p)
  BY DEF PlannerInv, AnswerInv
<1>3. /\ answer \in Seq(Paths) /\ ToSet(answer) \subseteq ToSet(resolved)
      /\ Len(answer) <= Limit /\ Ascending(answer)
      /\ \A k, l \in 1..Len(answer) : answer[k].hops = answer[l].hops => k = l
      /\ \A p \in ToSet(resolved) :
            \/ \E q \in ToSet(answer) : q.hops = p.hops
            \/ Len(answer) = Limit /\ Cost(Last(answer)) <= Cost(p)
  BY AnswerIs
<1>4. DOMAIN answer = 1..Len(answer) /\ Len(answer) \in Nat
  BY <1>3
<1>5. IsSorted([i \in DOMAIN answer |-> Cost(answer[i])], <=)
  <2> DEFINE c == [i \in DOMAIN answer |-> Cost(answer[i])]
  <2>1. Len(c) = Len(answer)
    BY <1>4
  <2>2. \A i \in 1..Len(answer) : c[i] = Cost(answer[i])
    BY <1>4
  <2> HIDE DEF c
  <2>3. \A i, j \in 1..Len(c) : i < j => c[i] <= c[j]
    BY <1>3, <2>1, <2>2 DEF Ascending
  <2> QED BY <2>3 DEF IsSorted, c
<1>6. ASSUME NEW p \in ToSet(answer)
      PROVE  Walks(p) /\ ToSet(Tail(p.hops)) \subseteq dialable
  <2>1. Walk(Adjacency, p) /\ Dialable(p)
    BY <1>1, <1>3
  <2> DEFINE h == p.hops
             r == Tail(h)
  <2>2. /\ h \in Seq(Nodes) /\ Len(h) > 1 /\ \A i \in 2..Len(h) : h[i] \in dialable
    BY <2>1 DEF Walk, Dialable
  <2> HIDE DEF h
  <2>3. Len(h) \in Nat /\ h # <<>>
    BY <2>2
  <2>4. /\ r \in Seq(Nodes) /\ Len(r) = Len(h) - 1
        /\ \A i \in 1..Len(r) : r[i] = h[i + 1]
    BY <2>2, <2>3, HeadTailProperties
  <2> HIDE DEF r
  <2>5. \A i \in 1..Len(r) : i + 1 \in 2..Len(h)
    BY <2>3, <2>4
  <2>6. \A i \in 1..Len(r) : r[i] \in dialable
    BY <2>2, <2>4, <2>5
  <2>7. ToSet(r) \subseteq dialable
    BY <2>4, <2>6, ToSetIs
  <2> QED BY <2>1, <2>7, WalkWalks DEF r, h
<1> QED BY <1>3, <1>4, <1>5, <1>6 DEF AnswerIsRanked

\* The caller's answer is in ascending cost, with no node sequence twice and
\* every hop dialable, and nothing cheaper than what is kept is left out.
THEOREM PlannerAnswerIsRanked == Spec => []AnswerIsRanked
BY PlannerInvHolds, AnswerIsInOrder, PTL
=============================================================================
