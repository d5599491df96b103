--------------------------- MODULE DecisionsProofs ---------------------------
(***************************************************************************)
(* Theorems about the parts that decide: the budget guard, for any callers *)
(* and costs; the gate of the orchestrator, for any agents, places and     *)
(* reports; hybrid retrieval, for any table and any answers of its lanes;  *)
(* drift detection and the routing advice, for any windows and thresholds; *)
(* the judge, the release gate and the canary, for any golden sets.        *)
(***************************************************************************)
EXTENDS Orchestrator, BudgetGuard, Retrieval, DriftWatch, ReleaseGate, FiniteSetTheorems,
        SequenceTheorems, WellFoundedInduction, TLAPS

(* Induction and sums. *)

\* A set of natural numbers has a least one.
LEMMA LeastNatural ==
    ASSUME NEW S, S \subseteq Nat, S # {}
    PROVE  \E n \in S : \A m \in S : n <= m
<1>1. PICK n \in S : \A m \in S : <<m, n>> \notin OpToRel(<, Nat)
  BY NatLessThanWellFounded, WFMin
<1>2. \A m \in S : ~(m < n)
  BY <1>1 DEF OpToRel
<1> QED
  BY <1>2

\* What holds of 0 and passes from each number to the next holds up to any n.
LEMMA Induction ==
    ASSUME NEW n \in Nat, NEW S, 0 \in S, \A i \in 1..n : i - 1 \in S => i \in S
    PROVE  \A i \in 0..n : i \in S
<1> DEFINE Out == {i \in 0..n : i \notin S}
<1> SUFFICES ASSUME Out # {} PROVE FALSE
  OBVIOUS
<1>1. PICK i \in Out : \A j \in Out : i <= j
  <2>1. Out \subseteq Nat
    OBVIOUS
  <2> QED
    BY <2>1, LeastNatural
<1>2. i \in 1..n /\ i - 1 \in 0..n /\ ~(i <= i - 1)
  BY <1>1
<1>3. i - 1 \in S
  BY <1>1, <1>2
<1> QED
  BY <1>1, <1>2, <1>3

\* How SumFunctionOnSet adds up: it takes any element, and the sum of the others.
Chosen(s) == CHOOSE x \in s : TRUE
Adds(g, f, S) == g = [s \in SUBSET S |-> IF s = {} THEN 0 ELSE f[Chosen(s)] + g[s \ {Chosen(s)}]]

\* The sum of the community modules, from the choices it makes.
LEMMA SumChosen ==
    ASSUME NEW f, NEW S
    PROVE  SumFunctionOnSet(f, S) = (CHOOSE g : Adds(g, f, S))[S]
BY DEF SumFunctionOnSet, FoldFunctionOnSet, MapThenFoldSet, Adds, Chosen

\* An element less.
LEMMA OneLess ==
    ASSUME NEW S, IsFiniteSet(S), NEW x \in S
    PROVE  /\ IsFiniteSet(S \ {x}) /\ Cardinality(S) \in Nat \ {0}
           /\ Cardinality(S \ {x}) = Cardinality(S) - 1
<1>1. Cardinality(S) \in Nat /\ Cardinality(S) # 0
  BY FS_CardinalityType, FS_EmptySet
<1> QED
  BY <1>1, FS_RemoveElement

\* There is a function that adds up like that.
LEMMA AddsExists ==
    ASSUME NEW D, IsFiniteSet(D), NEW f \in [D -> Nat]
    PROVE  \E g \in [SUBSET D -> Nat] : Adds(g, f, D)
<1> DEFINE Small(k) == {s \in SUBSET D : Cardinality(s) <= k}
           Part(k) == \E g \in [Small(k) -> Nat] :
               \A s \in Small(k) : g[s] = IF s = {} THEN 0 ELSE f[Chosen(s)] + g[s \ {Chosen(s)}]
           S == {k \in 0..Cardinality(D) : Part(k)}
<1>1. Cardinality(D) \in Nat
  BY FS_CardinalityType
<1>2. \A s \in SUBSET D : IsFiniteSet(s) /\ Cardinality(s) \in Nat /\ Cardinality(s) <= Cardinality(D)
  BY FS_Subset, FS_CardinalityType
<1>3. \A s \in SUBSET D : s # {} =>
          /\ Chosen(s) \in s /\ f[Chosen(s)] \in Nat /\ s \ {Chosen(s)} \in SUBSET D
          /\ Cardinality(s) # 0 /\ Cardinality(s \ {Chosen(s)}) = Cardinality(s) - 1
  <2> SUFFICES ASSUME NEW s \in SUBSET D, s # {}
               PROVE  /\ Chosen(s) \in s /\ f[Chosen(s)] \in Nat /\ s \ {Chosen(s)} \in SUBSET D
                      /\ Cardinality(s) # 0 /\ Cardinality(s \ {Chosen(s)}) = Cardinality(s) - 1
    OBVIOUS
  <2>1. Chosen(s) \in s
    BY DEF Chosen
  <2> QED
    BY <2>1, <1>2, OneLess
<1>4. 0 \in S
  <2> DEFINE g == [s \in Small(0) |-> 0]
  <2>1. \A s \in Small(0) : s = {}
    <3> SUFFICES ASSUME NEW s \in SUBSET D, Cardinality(s) <= 0 PROVE s = {}
      OBVIOUS
    <3>1. Cardinality(s) = 0
      BY <1>2
    <3> QED
      BY <3>1, <1>3
  <2>2. g \in [Small(0) -> Nat]
    OBVIOUS
  <2>3. \A s \in Small(0) : g[s] = IF s = {} THEN 0 ELSE f[Chosen(s)] + g[s \ {Chosen(s)}]
    BY <2>1
  <2>4. Part(0)
    BY <2>2, <2>3
  <2> QED
    <3>1. 0 \in 0..Cardinality(D)
      BY <1>1
    <3> HIDE DEF Part
    <3> QED
      BY <2>4, <3>1
<1>5. ASSUME NEW k \in 1..Cardinality(D), k - 1 \in S PROVE k \in S
  <2>1. PICK g \in [Small(k - 1) -> Nat] :
            \A s \in Small(k - 1) : g[s] = IF s = {} THEN 0 ELSE f[Chosen(s)] + g[s \ {Chosen(s)}]
    BY <1>5
  <2> DEFINE h == [s \in Small(k) |-> IF s \in Small(k - 1) THEN g[s]
                                       ELSE f[Chosen(s)] + g[s \ {Chosen(s)}]]
  <2>2. k \in Nat /\ k - 1 \in Nat
    BY <1>1
  <2>3. \A s \in Small(k - 1) : s \in Small(k) /\ g[s] \in Nat
    BY <1>2, <2>1, <2>2
  <2>4. \A s \in Small(k) : s # {} => s \ {Chosen(s)} \in Small(k - 1)
    BY <1>2, <1>3, <2>2
  <2>5. {} \in Small(k - 1)
    BY <2>2, FS_EmptySet
  <2>6. \A s \in Small(k) : s = {} \/ (f[Chosen(s)] \in Nat /\ g[s \ {Chosen(s)}] \in Nat)
    BY <1>3, <2>3, <2>4
  <2>7. h \in [Small(k) -> Nat]
    <3>1. \A s \in Small(k) : (IF s \in Small(k - 1) THEN g[s] ELSE f[Chosen(s)] + g[s \ {Chosen(s)}]) \in Nat
      <4> SUFFICES ASSUME NEW s \in Small(k)
                   PROVE  (IF s \in Small(k - 1) THEN g[s] ELSE f[Chosen(s)] + g[s \ {Chosen(s)}]) \in Nat
        OBVIOUS
      <4> HIDE DEF Small, Part, S
      <4>1. CASE s \in Small(k - 1)
        BY <4>1, <2>3
      <4>2. CASE s \notin Small(k - 1)
        <5>1. f[Chosen(s)] \in Nat /\ g[s \ {Chosen(s)}] \in Nat
          BY <4>2, <2>5, <2>6
        <5> QED
          BY <4>2, <5>1
      <4> QED
        BY <4>1, <4>2
    <3> HIDE DEF Small
    <3> QED
      BY <3>1
  <2>8. ASSUME NEW s \in Small(k) PROVE h[s] = IF s = {} THEN 0 ELSE f[Chosen(s)] + h[s \ {Chosen(s)}]
    <3> HIDE DEF Small
    <3>1. CASE s = {}
      BY <3>1, <2>1, <2>5
    <3>2. CASE s # {}
      <4>1. h[s] = f[Chosen(s)] + g[s \ {Chosen(s)}]
        BY <3>2, <2>1
      <4>2. h[s \ {Chosen(s)}] = g[s \ {Chosen(s)}]
        BY <3>2, <2>3, <2>4
      <4> QED
        BY <3>2, <4>1, <4>2
    <3> QED
      BY <3>1, <3>2
  <2>9. Part(k)
    <3> HIDE DEF Small, h
    <3> QED
      BY <2>7, <2>8
  <2>10. k \in 0..Cardinality(D)
    BY <1>1
  <2> HIDE DEF Part
  <2> QED
    BY <2>9, <2>10
<1>6. Cardinality(D) \in S
  <2>1. Cardinality(D) \in 0..Cardinality(D)
    BY <1>1
  <2> HIDE DEF S
  <2> QED
    BY <1>1, <1>4, <1>5, <2>1, Induction
<1>7. Small(Cardinality(D)) = SUBSET D
  BY <1>2
<1>8. PICK g \in [SUBSET D -> Nat] :
            \A s \in SUBSET D : g[s] = IF s = {} THEN 0 ELSE f[Chosen(s)] + g[s \ {Chosen(s)}]
  BY <1>6, <1>7
<1>9. g = [s \in SUBSET D |-> IF s = {} THEN 0 ELSE f[Chosen(s)] + g[s \ {Chosen(s)}]]
  BY <1>8
<1> QED
  BY <1>9 DEF Adds

\* Any two such functions agree, on the subsets they share.
LEMMA AddsAgree ==
    ASSUME NEW D, IsFiniteSet(D), NEW f \in [D -> Nat],
           NEW g \in [SUBSET D -> Nat], Adds(g, f, D),
           NEW S \in SUBSET D, NEW h, Adds(h, f, S)
    PROVE  \A s \in SUBSET S : h[s] = g[s]
<1>1. Cardinality(D) \in Nat
  BY FS_CardinalityType
<1>2. \A s \in SUBSET D : IsFiniteSet(s) /\ Cardinality(s) \in 0..Cardinality(D)
  <2>1. \A s \in SUBSET D : IsFiniteSet(s) /\ Cardinality(s) <= Cardinality(D)
    BY FS_Subset
  <2>2. \A s \in SUBSET D : Cardinality(s) \in Nat
    BY <2>1, FS_CardinalityType
  <2> QED
    BY <1>1, <2>1, <2>2
<1> DEFINE Same == {k \in 0..Cardinality(D) :
                        \A s \in SUBSET S : Cardinality(s) = k => h[s] = g[s]}
<1>3. \A s \in SUBSET S : /\ h[s] = IF s = {} THEN 0 ELSE f[Chosen(s)] + h[s \ {Chosen(s)}]
                          /\ g[s] = IF s = {} THEN 0 ELSE f[Chosen(s)] + g[s \ {Chosen(s)}]
  BY DEF Adds
<1>4. 0 \in Same
  <2>1. ASSUME NEW s \in SUBSET S, Cardinality(s) = 0 PROVE h[s] = g[s]
    <3>1. s \in SUBSET D /\ IsFiniteSet(s)
      BY <1>2
    <3>2. s = {}
      BY <2>1, <3>1, FS_EmptySet
    <3> QED
      BY <3>2, <1>3
  <2>2. 0 \in 0..Cardinality(D)
    BY <1>1
  <2> QED
    BY <2>1, <2>2
<1>5. ASSUME NEW k \in 1..Cardinality(D), k - 1 \in Same PROVE k \in Same
  <2> SUFFICES ASSUME NEW s \in SUBSET S, Cardinality(s) = k PROVE h[s] = g[s]
    OBVIOUS
  <2>1. s # {} /\ IsFiniteSet(s)
    BY <1>2, FS_EmptySet
  <2>2. Chosen(s) \in s
    BY <2>1 DEF Chosen
  <2>3. Cardinality(s \ {Chosen(s)}) = k - 1 /\ s \ {Chosen(s)} \in SUBSET S
    BY <2>1, <2>2, OneLess
  <2>4. h[s \ {Chosen(s)}] = g[s \ {Chosen(s)}]
    BY <2>3, <1>5
  <2> QED
    BY <2>1, <2>4, <1>3
<1>6. \A k \in 0..Cardinality(D) : k \in Same
  <2> HIDE DEF Same
  <2> QED
    BY <1>1, <1>4, <1>5, Induction
<1> QED
  BY <1>2, <1>6

\* A sum over the subsets of D is what such a function makes it.
AddsUp(f, D) ==
    \E g \in [SUBSET D -> Nat] :
        Adds(g, f, D) /\ \A S \in SUBSET D : SumFunctionOnSet(f, S) = g[S]

\* The sum over a set does not depend on the set it is part of.
LEMMA SumIsAdded ==
    ASSUME NEW D, IsFiniteSet(D), NEW f \in [D -> Nat]
    PROVE  AddsUp(f, D)
<1>1. PICK g \in [SUBSET D -> Nat] : Adds(g, f, D)
  BY AddsExists
<1>2. ASSUME NEW S \in SUBSET D PROVE SumFunctionOnSet(f, S) = g[S]
  <2> DEFINE c == CHOOSE h : Adds(h, f, S)
             r == [s \in SUBSET S |-> g[s]]
  <2>1. Adds(r, f, S)
    <3>1. \A s \in SUBSET S : s \ {Chosen(s)} \in SUBSET S /\ s \in SUBSET D
      OBVIOUS
    <3>2. \A s \in SUBSET S : r[s] = IF s = {} THEN 0 ELSE f[Chosen(s)] + r[s \ {Chosen(s)}]
      BY <1>1, <3>1 DEF Adds
    <3>3. r = [s \in SUBSET S |-> IF s = {} THEN 0 ELSE f[Chosen(s)] + r[s \ {Chosen(s)}]]
      BY <3>2
    <3> QED
      BY <3>3 DEF Adds
  <2>2. Adds(c, f, S)
    BY <2>1
  <2> HIDE DEF c
  <2>3. c[S] = g[S]
    BY <1>1, <2>2, AddsAgree
  <2> QED
    BY <2>3, SumChosen DEF c
<1> QED
  BY <1>1, <1>2 DEF AddsUp

\* What a sum is: nothing over no elements, and one element more adds its value.
SumsUp(f, D) ==
    /\ SumFunctionOnSet(f, {}) = 0
    /\ \A S \in SUBSET D : SumFunctionOnSet(f, S) \in Nat
    /\ \A S \in SUBSET D : \A x \in S :
           SumFunctionOnSet(f, S) = SumFunctionOnSet(f, S \ {x}) + f[x]

\* That is what SumFunctionOnSet computes.
LEMMA Sums ==
    ASSUME NEW D, IsFiniteSet(D), NEW f \in [D -> Nat]
    PROVE  SumsUp(f, D)
<1>1. PICK g \in [SUBSET D -> Nat] :
               /\ Adds(g, f, D)
               /\ \A S \in SUBSET D : SumFunctionOnSet(f, S) = g[S]
  <2>1. AddsUp(f, D)
    BY SumIsAdded
  <2> QED
    BY <2>1 DEF AddsUp
<1>2. Cardinality(D) \in Nat
  BY FS_CardinalityType
<1>3. \A s \in SUBSET D : IsFiniteSet(s) /\ Cardinality(s) \in 0..Cardinality(D)
  <2>1. \A s \in SUBSET D : IsFiniteSet(s) /\ Cardinality(s) <= Cardinality(D)
    BY FS_Subset
  <2>2. \A s \in SUBSET D : Cardinality(s) \in Nat
    BY <2>1, FS_CardinalityType
  <2> QED
    BY <1>2, <2>1, <2>2
<1>4. \A s \in SUBSET D : g[s] = IF s = {} THEN 0 ELSE f[Chosen(s)] + g[s \ {Chosen(s)}]
  BY <1>1 DEF Adds
<1> DEFINE Fine == {k \in 0..Cardinality(D) :
                        \A s \in SUBSET D : \A x \in s :
                            Cardinality(s) = k => g[s] = g[s \ {x}] + f[x]}
<1>5. 0 \in Fine
  <2>1. \A s \in SUBSET D : Cardinality(s) = 0 => s = {}
    BY <1>3, FS_EmptySet
  <2> QED
    BY <2>1, <1>2
<1>6. ASSUME NEW k \in 1..Cardinality(D), k - 1 \in Fine PROVE k \in Fine
  <2> SUFFICES ASSUME NEW s \in SUBSET D, NEW x \in s, Cardinality(s) = k
               PROVE  g[s] = g[s \ {x}] + f[x]
    OBVIOUS
  <2> DEFINE c == Chosen(s)
  <2>1. c \in s
    BY DEF Chosen
  <2>2. g[s] = f[c] + g[s \ {c}] /\ f[c] \in Nat /\ f[x] \in Nat
    BY <1>4, <2>1
  <2> HIDE DEF c
  <2>3. CASE x = c
    <3>1. g[s \ {x}] \in Nat
      BY <1>1
    <3> QED
      BY <2>2, <2>3, <3>1
  <2>4. CASE x # c
    <3>1. /\ Cardinality(s \ {c}) = k - 1 /\ x \in s \ {c}
          /\ Cardinality(s \ {x}) = k - 1 /\ c \in s \ {x}
      BY <1>3, <2>1, <2>4, OneLess
    <3>2. g[s \ {c}] = g[(s \ {c}) \ {x}] + f[x] /\ g[s \ {x}] = g[(s \ {x}) \ {c}] + f[c]
      BY <3>1, <1>6
    <3>3. (s \ {c}) \ {x} = (s \ {x}) \ {c} /\ g[(s \ {x}) \ {c}] \in Nat
      BY <1>1
    <3>4. PICK p \in Nat, q \in Nat, r \in Nat :
              p = g[(s \ {x}) \ {c}] /\ q = f[c] /\ r = f[x]
      BY <2>2, <3>3
    <3>5. g[s] = q + (p + r) /\ g[s \ {x}] = p + q
      BY <2>2, <3>2, <3>3, <3>4
    <3> QED
      BY <3>4, <3>5
  <2> QED
    BY <2>3, <2>4
<1>7. \A k \in 0..Cardinality(D) : k \in Fine
  <2> HIDE DEF Fine
  <2> QED
    BY <1>2, <1>5, <1>6, Induction
<1>8. \A s \in SUBSET D : \A x \in s : g[s] = g[s \ {x}] + f[x]
  BY <1>3, <1>7
<1>9. g[{}] = 0 /\ {} \in SUBSET D
  BY <1>4
<1>10. \A s \in SUBSET D : \A x \in s : s \ {x} \in SUBSET D
  OBVIOUS
<1>11. \A s \in SUBSET D : SumFunctionOnSet(f, s) = g[s] /\ g[s] \in Nat
  BY <1>1
<1> HIDE DEF Fine
<1>12. ASSUME NEW s \in SUBSET D, NEW x \in s
       PROVE  SumFunctionOnSet(f, s) = SumFunctionOnSet(f, s \ {x}) + f[x]
  BY <1>8, <1>10, <1>11
<1>13. SumFunctionOnSet(f, {}) = 0
  BY <1>9, <1>11
<1> QED
  BY <1>11, <1>12, <1>13 DEF SumsUp

\* Sums over a sequence, from the front.
LEMMA SumsOfSequence ==
    ASSUME NEW n \in Nat, NEW f \in [1..n -> Nat]
    PROVE  /\ SumFunctionOnSet(f, 1..0) = 0 /\ SumFunctionOnSet(f, 1..n) = SumFunction(f)
           /\ \A i \in 0..n : SumFunctionOnSet(f, 1..i) \in Nat
           /\ \A i \in 1..n : SumFunctionOnSet(f, 1..i) = SumFunctionOnSet(f, 1..(i - 1)) + f[i]
<1>1. IsFiniteSet(1..n) /\ 1..0 = {} /\ DOMAIN f = 1..n
  BY FS_Interval
<1>0. SumsUp(f, 1..n)
  BY <1>1, Sums
<1>2. \A i \in 0..n : 1..i \in SUBSET (1..n)
  OBVIOUS
<1>3. \A i \in 1..n : i \in 1..i /\ (1..i) \ {i} = 1..(i - 1) /\ i \in 0..n
  OBVIOUS
<1>4. ASSUME NEW i \in 1..n
      PROVE  SumFunctionOnSet(f, 1..i) = SumFunctionOnSet(f, 1..(i - 1)) + f[i]
  <2>1. SumFunctionOnSet(f, 1..i) = SumFunctionOnSet(f, (1..i) \ {i}) + f[i]
    BY <1>0, <1>2, <1>3 DEF SumsUp
  <2> QED
    BY <2>1, <1>3
<1> QED
  BY <1>0, <1>1, <1>2, <1>4 DEF SumFunction, SumsUp

\* A sum over a set looks at the values there only.
LEMMA SumsAgree ==
    ASSUME NEW D, IsFiniteSet(D), NEW f \in [D -> Nat],
           NEW S \in SUBSET D, NEW h \in [S -> Nat], \A x \in S : h[x] = f[x]
    PROVE  SumFunctionOnSet(h, S) = SumFunctionOnSet(f, S)
<1>1. PICK g \in [SUBSET D -> Nat] :
          Adds(g, f, D) /\ \A s \in SUBSET D : SumFunctionOnSet(f, s) = g[s]
  <2>1. AddsUp(f, D)
    BY SumIsAdded
  <2> QED
    BY <2>1 DEF AddsUp
<1>2. PICK c \in [SUBSET S -> Nat] :
          Adds(c, h, S) /\ \A s \in SUBSET S : SumFunctionOnSet(h, s) = c[s]
  <2>1. AddsUp(h, S)
    BY SumIsAdded, FS_Subset
  <2> QED
    BY <2>1 DEF AddsUp
<1>3. Adds(c, f, S)
  <2>1. \A s \in SUBSET S : c[s] = IF s = {} THEN 0 ELSE h[Chosen(s)] + c[s \ {Chosen(s)}]
    BY <1>2 DEF Adds
  <2>2. \A s \in SUBSET S : s # {} => h[Chosen(s)] = f[Chosen(s)]
    BY DEF Chosen
  <2>3. \A s \in SUBSET S : c[s] = IF s = {} THEN 0 ELSE f[Chosen(s)] + c[s \ {Chosen(s)}]
    BY <2>1, <2>2
  <2>4. c = [s \in SUBSET S |-> c[s]]
    OBVIOUS
  <2> QED
    BY <2>3, <2>4 DEF Adds
<1>4. c[S] = g[S]
  <2>1. \A s \in SUBSET S : c[s] = g[s]
    BY <1>1, <1>3, AddsAgree
  <2> QED
    BY <2>1
<1> QED
  BY <1>1, <1>2, <1>4

\* f adds up the members of M, h those where d has taken the place of e.
Exchanged(e, d, f, h) ==
    /\ SumFunction(f) \in Nat /\ SumFunction(h) \in Nat
    /\ SumFunction(h) + f[e] = SumFunction(f) + h[d]

\* Exchanging one of what is added up changes the sum by the difference.
LEMMA SumExchange ==
    ASSUME NEW M, IsFiniteSet(M), NEW e \in M, NEW d, d \notin M \ {e},
           NEW f \in [M -> Nat], NEW h \in [(M \ {e}) \cup {d} -> Nat],
           \A x \in M \ {e} : h[x] = f[x]
    PROVE  Exchanged(e, d, f, h)
<1> DEFINE N == (M \ {e}) \cup {d}
           R == M \ {e}
           r == [x \in R |-> f[x]]
<1>1. IsFiniteSet(R) /\ IsFiniteSet(N)
  BY FS_Subset, FS_AddElement
<1>2. SumsUp(f, M) /\ SumsUp(h, N)
  BY <1>1, Sums
<1>3. N \ {d} = R /\ d \in N /\ R \in SUBSET M /\ R \in SUBSET N /\ N \in SUBSET N /\ M \in SUBSET M
  OBVIOUS
<1>4. r \in [R -> Nat] /\ (\A x \in R : r[x] = f[x]) /\ (\A x \in R : r[x] = h[x])
  OBVIOUS
<1>5. SumFunctionOnSet(r, R) = SumFunctionOnSet(f, R)
  BY <1>3, <1>4, SumsAgree
<1>6. SumFunctionOnSet(r, R) = SumFunctionOnSet(h, R)
  <2> HIDE DEF r, R, N
  <2>1. h \in [N -> Nat]
    BY DEF N
  <2> QED
    BY <1>1, <1>3, <1>4, <2>1, SumsAgree
<1>7. SumFunctionOnSet(f, M) = SumFunctionOnSet(f, R) + f[e]
  BY <1>2, <1>3 DEF SumsUp
<1>8. SumFunctionOnSet(h, N) = SumFunctionOnSet(h, R) + h[d]
  <2>1. SumFunctionOnSet(h, N) = SumFunctionOnSet(h, N \ {d}) + h[d]
    BY <1>2, <1>3 DEF SumsUp
  <2> QED
    BY <2>1, <1>3
<1>9. SumFunction(f) = SumFunctionOnSet(f, M) /\ SumFunction(h) = SumFunctionOnSet(h, N)
  BY DEF SumFunction
<1>10. /\ SumFunctionOnSet(f, M) \in Nat /\ SumFunctionOnSet(h, N) \in Nat
       /\ SumFunctionOnSet(f, R) \in Nat
  BY <1>2, <1>3 DEF SumsUp
<1>11. f[e] \in Nat /\ h[d] \in Nat
  OBVIOUS
<1> HIDE DEF R, N
<1> QED
  BY <1>5, <1>6, <1>7, <1>8, <1>9, <1>10, <1>11 DEF Exchanged

\* f is defined step by step up to n.
StepByStep(f, n, base, step) ==
    f = [i \in 0..n |-> IF i = 0 THEN base ELSE step[<<i, f[i - 1]>>]]

\* There is such a function.
LEMMA Recursion ==
    ASSUME NEW V, NEW base \in V, NEW n \in Nat, NEW step \in [(1..n) \X V -> V]
    PROVE  \E f \in [0..n -> V] : StepByStep(f, n, base, step)
<1> DEFINE Upto(k) == \E f \in [0..k -> V] :
               f = [i \in 0..k |-> IF i = 0 THEN base ELSE step[<<i, f[i - 1]>>]]
           S == {k \in 0..n : Upto(k)}
<1>1. 0 \in S
  <2> DEFINE f == [i \in 0..0 |-> base]
  <2>1. f \in [0..0 -> V]
    OBVIOUS
  <2>2. f = [i \in 0..0 |-> IF i = 0 THEN base ELSE step[<<i, f[i - 1]>>]]
    OBVIOUS
  <2>3. Upto(0)
    BY <2>1, <2>2
  <2> QED
    BY <2>3
<1>2. ASSUME NEW k \in 1..n, k - 1 \in S PROVE k \in S
  <2>1. PICK f \in [0..(k - 1) -> V] :
               f = [i \in 0..(k - 1) |-> IF i = 0 THEN base ELSE step[<<i, f[i - 1]>>]]
    BY <1>2
  <2> DEFINE g == [i \in 0..k |-> IF i = k THEN step[<<k, f[k - 1]>>] ELSE f[i]]
  <2>2. k - 1 \in 0..(k - 1) /\ f[k - 1] \in V
    BY <2>1
  <2>3. step[<<k, f[k - 1]>>] \in V
    BY <2>2
  <2>4. g \in [0..k -> V]
    <3>1. ASSUME NEW i \in 0..k PROVE (IF i = k THEN step[<<k, f[k - 1]>>] ELSE f[i]) \in V
      <4>1. i # k => i \in 0..(k - 1)
        OBVIOUS
      <4> QED
        BY <4>1, <2>1, <2>3
    <3> QED
      BY <3>1
  <2>5. ASSUME NEW i \in 0..k PROVE g[i] = IF i = 0 THEN base ELSE step[<<i, g[i - 1]>>]
    <3>1. CASE i = k
      <4>1. g[k] = step[<<k, f[k - 1]>>] /\ k # 0 /\ k - 1 \in 0..k /\ k - 1 # k /\ g[k - 1] = f[k - 1]
        BY <2>2
      <4> QED
        BY <3>1, <4>1
    <3>2. CASE i # k
      <4>1. i \in 0..(k - 1) /\ g[i] = f[i]
        BY <3>2
      <4>2. f[i] = IF i = 0 THEN base ELSE step[<<i, f[i - 1]>>]
        BY <2>1, <4>1
      <4>3. i # 0 => i - 1 \in 0..k /\ i - 1 # k /\ g[i - 1] = f[i - 1]
        BY <4>1
      <4> QED
        BY <4>1, <4>2, <4>3
    <3> QED
      BY <3>1, <3>2
  <2>6. g = [i \in 0..k |-> IF i = 0 THEN base ELSE step[<<i, g[i - 1]>>]]
    BY <2>5
  <2>7. Upto(k)
    BY <2>4, <2>6
  <2>8. k \in 0..n
    OBVIOUS
  <2> HIDE DEF Upto
  <2> QED
    BY <2>7, <2>8
<1>3. n \in S
  <2> HIDE DEF S
  <2> QED
    BY <1>1, <1>2, Induction
<1> QED
  BY <1>3 DEF StepByStep


\* A non-empty set of natural numbers has its Min.
LEMMA MinIs == ASSUME NEW S, S \subseteq Nat, S # {} PROVE Min(S) \in S /\ \A y \in S : Min(S) <= y
<1>1. \E x \in S : \A y \in S : x <= y
  BY LeastNatural
<1> QED
  BY <1>1 DEF Min

\* The Max of a bounded set of natural numbers.
LEMMA MaxIs ==
    ASSUME NEW S, S \subseteq Nat, S # {}, NEW b \in Nat, \A x \in S : x <= b
    PROVE  Max(S) \in S /\ \A y \in S : y <= Max(S)
<1> DEFINE R == {b - x : x \in S}
<1>1. \A x \in S : x \in Nat /\ b - x \in Nat
  OBVIOUS
<1>2. R \subseteq Nat /\ R # {}
  BY <1>1
<1>3. PICK r \in R : \A y \in R : r <= y
  BY <1>2, LeastNatural
<1>4. PICK m \in S : r = b - m
  OBVIOUS
<1>5. \A y \in S : m >= y
  <2> SUFFICES ASSUME NEW y \in S PROVE m >= y
    OBVIOUS
  <2>1. r <= b - y
    BY <1>3
  <2> QED
    BY <2>1, <1>1, <1>4
<1>6. Max(S) \in S /\ \A y \in S : Max(S) >= y
  BY <1>5 DEF Max
<1> QED
  BY <1>1, <1>6

-----------------------------------------------------------------------------
(* The budget guard. *)

\* What a caller may still add to the sum before the guard looks again.
Due(c) == owed[c] + left[c] * CallCost
BlockCost == CallsPerBlock * CallCost

\* The same, unit by unit.
Pending == {p \in Callers \X (1..BlockCost) : p[2] <= Due(p[1])}

\* The sum and what the blocks entered below the cap may still add to it.
BudgetInv ==
    /\ BudgetTypeOK
    /\ recorded + Cardinality(Pending) < Cap + Cardinality(Callers) * BlockCost
    /\ \A c \in Callers : Due(c) <= BlockCost

\* Products of the numbers that occur.
LEMMA Products ==
    /\ BlockCost \in Nat /\ BlockCost > 0
    /\ \A n \in 0..CallsPerBlock : n * CallCost \in Nat /\ n * CallCost <= BlockCost
    /\ \A n \in 1..CallsPerBlock : (n - 1) * CallCost + CallCost = n * CallCost
BY BudgetAssumption DEF BlockCost

\* All the callers' blocks together.
LEMMA AllBlocks ==
    /\ IsFiniteSet(Callers \X (1..BlockCost))
    /\ Cardinality(Callers \X (1..BlockCost)) = Cardinality(Callers) * BlockCost
    /\ Cardinality(Callers) \in Nat /\ Cardinality(Callers) > 0
    /\ Cardinality(Callers) * BlockCost \in Nat /\ Cardinality(Callers) * BlockCost > 0
<1>1. IsFiniteSet(1..BlockCost) /\ Cardinality(1..BlockCost) = BlockCost
  BY Products, FS_Interval
<1>2. Cardinality(Callers) \in Nat /\ Cardinality(Callers) > 0
  BY BudgetAssumption, FS_CardinalityType, FS_EmptySet
<1>3. /\ IsFiniteSet(Callers \X (1..BlockCost))
      /\ Cardinality(Callers \X (1..BlockCost)) = Cardinality(Callers) * BlockCost
  BY <1>1, BudgetAssumption, FS_Product
<1>4. \A m, n \in Nat : m > 0 /\ n > 0 => m * n \in Nat /\ m * n > 0
  OBVIOUS
<1> QED
  BY <1>2, <1>3, <1>4, Products

\* The size of an interval.
LEMMA IntervalSize ==
    ASSUME NEW m \in Nat, NEW n \in Nat
    PROVE  IsFiniteSet((m + 1)..(m + n)) /\ Cardinality((m + 1)..(m + n)) = n
<1>1. PICK lo \in Int, hi \in Int : lo = m + 1 /\ hi = m + n
  OBVIOUS
<1>2. IsFiniteSet(lo..hi) /\ Cardinality(lo..hi) = IF lo > hi THEN 0 ELSE hi - lo + 1
  BY FS_Interval
<1>3. Cardinality(lo..hi) = n
  BY <1>1, <1>2
<1> QED
  BY <1>1, <1>2, <1>3

\* What is pending is finite, and no more than the blocks may cost.
LEMMA PendingIsFinite ==
    /\ IsFiniteSet(Pending) /\ Cardinality(Pending) \in Nat
    /\ Cardinality(Pending) <= Cardinality(Callers) * BlockCost
BY AllBlocks, FS_Subset, FS_CardinalityType DEF Pending

\* Writing down what a caller owes takes as much from what is pending.
LEMMA RecordingMoves ==
    ASSUME BudgetInv, NEW c \in Callers, Record(c)
    PROVE  Cardinality(Pending') + owed[c] <= Cardinality(Pending)
<1>1. /\ owed[c] \in Nat /\ left[c] \in 0..CallsPerBlock /\ owed[c] > 0
      /\ owed'[c] = 0 /\ left' = left
      /\ \A q \in Callers \ {c} : owed'[q] = owed[q]
  BY DEF BudgetInv, BudgetTypeOK, Record
<1> DEFINE rest == left[c] * CallCost
           gone == {c} \X ((rest + 1)..(rest + owed[c]))
<1>2. rest \in Nat /\ Due(c) = owed[c] + rest /\ Due(c)' = rest /\ Due(c) <= BlockCost
  BY <1>1, Products DEF Due, BudgetInv
<1>3. \A q \in Callers \ {c} : Due(q)' = Due(q)
  BY <1>1 DEF Due
<1>4. BlockCost' = BlockCost
  BY DEF BlockCost
<1> HIDE DEF rest
<1>5. gone \subseteq Pending
  BY <1>1, <1>2, Products DEF Pending
<1>6. Pending' \subseteq Pending \ gone
  BY <1>1, <1>2, <1>3, <1>4, Products DEF Pending
<1>7. IsFiniteSet(gone) /\ Cardinality(gone) = owed[c]
  <2>1. /\ IsFiniteSet((rest + 1)..(rest + owed[c]))
        /\ Cardinality((rest + 1)..(rest + owed[c])) = owed[c]
    BY <1>1, <1>2, IntervalSize
  <2>2. IsFiniteSet({c}) /\ Cardinality({c}) = 1
    BY FS_Singleton
  <2>3. /\ IsFiniteSet(gone)
        /\ Cardinality(gone) = Cardinality({c}) * Cardinality((rest + 1)..(rest + owed[c]))
    BY <2>1, <2>2, FS_Product
  <2> QED
    BY <1>1, <2>1, <2>2, <2>3
<1> HIDE DEF gone
<1>8. Cardinality(Pending \ gone) = Cardinality(Pending) - owed[c] /\ IsFiniteSet(Pending \ gone)
  <2>1. Pending \cap gone = gone
    BY <1>5
  <2>2. /\ IsFiniteSet(Pending \ gone)
        /\ Cardinality(Pending \ gone) = Cardinality(Pending) - Cardinality(Pending \cap gone)
    BY PendingIsFinite, FS_Difference
  <2> QED
    BY <1>7, <2>1, <2>2
<1>9. Cardinality(Pending') <= Cardinality(Pending \ gone)
  BY <1>6, <1>8, FS_Subset
<1>10. Cardinality(Pending') \in Nat
  BY <1>6, <1>8, FS_Subset, FS_CardinalityType
<1> QED
  BY <1>1, <1>8, <1>9, <1>10, PendingIsFinite

\* The types of the guard.
LEMMA BudgetType == ASSUME BudgetTypeOK, [BudgetNext]_budgetVars PROVE BudgetTypeOK'
BY BudgetAssumption
DEF BudgetTypeOK, BudgetNext, Enter, Call, Record, Lose, Leave, DayTurns, budgetVars

\* A step after which each caller may add no more than before, if it may add anything.
LEMMA PendingShrinks ==
    ASSUME \A c \in Callers : Due(c)' \in Int /\ Due(c) \in Int /\ Due(c)' <= Due(c)
    PROVE  Cardinality(Pending') \in Nat /\ Cardinality(Pending') <= Cardinality(Pending)
<1>1. Pending' \subseteq Pending
  BY Products DEF Pending, BlockCost
<1> QED
  BY <1>1, PendingIsFinite, FS_Subset, FS_CardinalityType

\* Whatever each caller may add afterwards, it is no more than the blocks may cost.
LEMMA PendingAfter ==
    Cardinality(Pending') \in Nat /\ Cardinality(Pending') <= Cardinality(Callers) * BlockCost
<1>1. Pending' \subseteq Callers \X (1..BlockCost)
  BY DEF Pending, BlockCost
<1> QED
  BY <1>1, AllBlocks, FS_Subset, FS_CardinalityType

\* Every step of a caller, and the turn of the day, keep what is pending within bounds.
LEMMA BudgetStep == ASSUME BudgetInv, [BudgetNext]_budgetVars PROVE BudgetInv'
<1> DEFINE all == Cardinality(Callers) * BlockCost
<1>1. /\ BudgetTypeOK' /\ all \in Nat /\ Cap \in Nat /\ recorded \in Nat /\ CallCost \in Nat
      /\ recorded' \in Nat /\ Cardinality(Pending) \in Nat /\ Cardinality(Pending') \in Nat
  BY BudgetType, AllBlocks, BudgetAssumption, PendingIsFinite, PendingAfter DEF BudgetInv, BudgetTypeOK
<1>2. \A c \in Callers :
         /\ owed[c] \in 0..CallCost /\ left[c] \in 0..CallsPerBlock
         /\ owed'[c] \in 0..CallCost /\ left'[c] \in 0..CallsPerBlock
         /\ left[c] * CallCost \in Nat /\ left'[c] * CallCost \in Nat
  BY <1>1, Products DEF BudgetInv, BudgetTypeOK
<1>3. \A c \in Callers : Due(c) \in Nat /\ Due(c)' \in Nat /\ Due(c) <= BlockCost
  BY <1>1, <1>2 DEF Due, BudgetInv
<1>4. BudgetInv' <=> /\ recorded' + Cardinality(Pending') < Cap + all
                     /\ \A c \in Callers : Due(c)' <= BlockCost
  BY <1>1 DEF BudgetInv, BlockCost
<1>5. ASSUME recorded' <= recorded, \A c \in Callers : Due(c)' <= Due(c)
      PROVE  BudgetInv'
  <2>1. Cardinality(Pending') <= Cardinality(Pending)
    BY <1>3, <1>5, PendingShrinks
  <2> QED
    BY <1>1, <1>3, <1>4, <1>5, <2>1, Products DEF BudgetInv
<1>6. ASSUME NEW c \in Callers, Enter(c) PROVE BudgetInv'
  <2>1. \A q \in Callers : Due(q)' = Due(q) \/ Due(q)' = BlockCost
    BY <1>2, <1>6, Products DEF Due, Enter, BlockCost, BudgetInv, BudgetTypeOK
  <2> QED
    BY <1>1, <1>3, <1>4, <1>6, <2>1, PendingAfter, Products DEF Enter
<1>7. ASSUME NEW c \in Callers, NEW cost \in 1..CallCost, Call(c, cost) PROVE BudgetInv'
  <2>1. /\ left[c] \in 1..CallsPerBlock /\ left'[c] = left[c] - 1 /\ owed[c] = 0 /\ owed'[c] = cost
        /\ \A q \in Callers \ {c} : left'[q] = left[q] /\ owed'[q] = owed[q]
    BY <1>2, <1>7 DEF Call, BudgetInv, BudgetTypeOK
  <2>2. left'[c] * CallCost + CallCost = left[c] * CallCost
    BY <2>1, Products
  <2>3. \A q \in Callers : Due(q)' <= Due(q)
    BY <1>1, <1>2, <2>1, <2>2 DEF Due
  <2> QED
    BY <1>1, <1>5, <1>7, <2>3 DEF Call
<1>8. ASSUME NEW c \in Callers, Record(c) PROVE BudgetInv'
  <2>1. recorded' = recorded + owed[c] /\ \A q \in Callers : Due(q)' <= Due(q)
    BY <1>2, <1>8 DEF Record, Due, BudgetInv, BudgetTypeOK
  <2> QED
    BY <1>1, <1>2, <1>3, <1>4, <1>8, <2>1, RecordingMoves, Products DEF BudgetInv
<1>9. ASSUME NEW c \in Callers, Lose(c) \/ Leave(c) PROVE BudgetInv'
  <2>1. \A q \in Callers : Due(q)' <= Due(q)
    <3>1. \A q \in Callers : /\ owed'[q] <= owed[q]
                             /\ left'[q] = left[q] \/ left'[q] = 0
      BY <1>2, <1>9 DEF Lose, Leave, BudgetInv, BudgetTypeOK
    <3>2. \A q \in Callers : left'[q] * CallCost <= left[q] * CallCost
      BY <1>1, <1>2, <3>1
    <3> QED
      BY <1>2, <3>1, <3>2 DEF Due
  <2> QED
    BY <1>1, <1>5, <1>9, <2>1 DEF Lose, Leave
<1>10. CASE DayTurns \/ UNCHANGED budgetVars
  <2>1. recorded' <= recorded /\ \A q \in Callers : Due(q)' = Due(q)
    BY <1>1, <1>10 DEF DayTurns, budgetVars, Due
  <2> QED
    BY <1>3, <1>5, <2>1
<1> QED
  BY <1>6, <1>7, <1>8, <1>9, <1>10 DEF BudgetNext

\* The cap is no hard one, and the day's sum, with what is still to be written, passes
\* it by less than one block of every caller (economics/budget.py:check_budget).
THEOREM BudgetHolds == BudgetSpec => []OverspendIsBounded
<1>1. BudgetInit => BudgetInv
  <2> SUFFICES ASSUME BudgetInit PROVE BudgetInv
    OBVIOUS
  <2>1. BudgetTypeOK /\ recorded = 0
    BY BudgetAssumption DEF BudgetInit, BudgetTypeOK
  <2>2. \A c \in Callers : Due(c) = 0
    BY BudgetAssumption DEF BudgetInit, Due
  <2>3. Pending = {}
    BY <2>2 DEF Pending
  <2> QED
    BY <2>1, <2>2, <2>3, FS_EmptySet, AllBlocks, BudgetAssumption, Products DEF BudgetInv
<1>2. BudgetInv /\ [BudgetNext]_budgetVars => BudgetInv'
  BY BudgetStep
<1>3. BudgetInv => OverspendIsBounded
  <2> SUFFICES ASSUME BudgetInv PROVE OverspendIsBounded
    OBVIOUS
  <2>1. /\ recorded \in Nat /\ Cardinality(Pending) \in Nat /\ Cardinality(Callers) \in Nat
        /\ Cap \in Nat
    BY PendingIsFinite, AllBlocks, BudgetAssumption DEF BudgetInv, BudgetTypeOK
  <2>2. Cardinality(Callers) * BlockCost = Cardinality(Callers) * CallsPerBlock * CallCost
    BY <2>1, BudgetAssumption DEF BlockCost
  <2>3. Cardinality(Unwritten) \in Nat /\ Cardinality(Unwritten) <= Cardinality(Pending)
    <3>1. \A c \in Callers : /\ owed[c] \in 0..CallCost /\ left[c] * CallCost \in Nat
                             /\ Due(c) \in Nat /\ owed[c] <= Due(c) /\ Due(c) <= BlockCost
      BY Products, BudgetAssumption DEF BudgetInv, BudgetTypeOK, Due
    <3>2. Unwritten \subseteq Pending
      BY <3>1, Products, BudgetAssumption DEF Unwritten, Pending
    <3> QED
      BY <3>2, PendingIsFinite, FS_Subset, FS_CardinalityType
  <2>4. recorded + Cardinality(Unwritten) < Cap + Cardinality(Callers) * BlockCost
    BY <2>1, <2>3, AllBlocks DEF BudgetInv
  <2> QED
    BY <2>2, <2>4 DEF OverspendIsBounded, BudgetInv
<1> QED
  BY <1>1, <1>2, <1>3, PTL DEF BudgetSpec
-----------------------------------------------------------------------------
(* The gate of the orchestrator. *)

\* A set of positions has a first one.
LEMMA FirstExists ==
    ASSUME NEW S, S \subseteq Nat \X Nat, S # {}
    PROVE  First(S) \in S /\ \A q \in S : Precedes(First(S), q)
<1>1. PICK i \in {p[1] : p \in S} : \A m \in {p[1] : p \in S} : i <= m
  <2>1. {p[1] : p \in S} \subseteq Nat /\ {p[1] : p \in S} # {}
    OBVIOUS
  <2> QED
    BY <2>1, LeastNatural
<1> DEFINE T == {p \in S : p[1] = i}
<1>2. PICK j \in {p[2] : p \in T} : \A m \in {p[2] : p \in T} : j <= m
  <2>1. {p[2] : p \in T} \subseteq Nat /\ {p[2] : p \in T} # {}
    BY <1>1
  <2> QED
    BY <2>1, LeastNatural
<1>3. PICK p \in S : p[1] = i /\ p[2] = j
  BY <1>2
<1>4. ASSUME NEW q \in S PROVE Precedes(p, q)
  <2>1. i \in Nat /\ q[1] \in Nat /\ i <= q[1]
    BY <1>1
  <2>2. q[1] = i => j <= q[2]
    BY <1>2
  <2> QED
    BY <2>1, <2>2, <1>3 DEF Precedes
<1> QED
  BY <1>4 DEF First

\* What the agents return: indices are numbers and confidences are percentages.
WellFormed(results) ==
    /\ DOMAIN results \subseteq Nat
    /\ \A i \in DOMAIN results : DOMAIN results[i].findings \subseteq Nat
    /\ \A p \in AllFindings(results) : Finding(results, p).confidence \in 0..100

\* The best finding of a place is one of those reported there, and none is better.
LEMMA BestIsBest ==
    ASSUME NEW results, WellFormed(results),
           NEW group, group \subseteq AllFindings(results), group # {}
    PROVE  \E p \in group :
               /\ Best(results, group) = Finding(results, p)
               /\ \A q \in group : Finding(results, q).confidence <= Finding(results, p).confidence
<1> DEFINE doubt(p) == 100 - Finding(results, p).confidence
           top == {p \in group : \A q \in group :
                       Finding(results, q).confidence <= Finding(results, p).confidence}
<1>1. AllFindings(results) \subseteq Nat \X Nat
  BY DEF AllFindings, WellFormed
<1>2. \A p \in group : Finding(results, p).confidence \in 0..100
  BY DEF WellFormed
<1>3. top # {}
  <2>1. {doubt(p) : p \in group} \subseteq Nat /\ {doubt(p) : p \in group} # {}
    BY <1>2
  <2>2. PICK n \in {doubt(p) : p \in group} : \A m \in {doubt(p) : p \in group} : n <= m
    BY <2>1, LeastNatural
  <2>3. PICK p \in group : \A q \in group : doubt(p) <= doubt(q)
    BY <2>2
  <2>4. ASSUME NEW q \in group
        PROVE  Finding(results, q).confidence <= Finding(results, p).confidence
    <3>1. PICK x \in 0..100, y \in 0..100 :
              Finding(results, q).confidence = x /\ Finding(results, p).confidence = y
      BY <1>2
    <3>2. 100 - y <= 100 - x
      BY <2>3, <3>1
    <3>3. x <= y
      BY <3>1, <3>2
    <3> QED
      BY <3>1, <3>3
  <2>5. p \in top
    BY <2>3, <2>4
  <2> QED
    BY <2>5
<1>4. First(top) \in top
  BY <1>1, <1>3, FirstExists
<1> QED
  BY <1>4 DEF Best

\* The group of a reported place holds what was reported there, and nothing else.
LEMMA EntryOfGroup ==
    ASSUME NEW results, WellFormed(results), NEW p \in AllFindings(results)
    PROVE  LET group == GroupAt(results, Finding(results, p).at)
               e == Entry(results, group)
           IN  /\ p \in group /\ group \subseteq AllFindings(results)
               /\ e.finding.at = Finding(results, p).at
               /\ \E q \in group : e.finding = Finding(results, q)
               /\ \A q \in group : Finding(results, q).confidence <= e.finding.confidence
               /\ \/ e.agreement = 1 /\ e.agreedBy = {}
                  \/ /\ e.agreement = Cardinality(AgentsOf(results, group))
                     /\ e.agreedBy = AgentsOf(results, group)
<1> DEFINE group == GroupAt(results, Finding(results, p).at)
           e == Entry(results, group)
<1>1. p \in group /\ group \subseteq AllFindings(results)
      /\ \A q \in group : Finding(results, q).at = Finding(results, p).at
  BY DEF GroupAt
<1>2. PICK q \in group :
          /\ Best(results, group) = Finding(results, q)
          /\ \A o \in group : Finding(results, o).confidence <= Finding(results, q).confidence
  BY <1>1, BestIsBest
<1> HIDE DEF group
<1>3. /\ e.finding = Best(results, group)
      /\ \/ e.agreement = 1 /\ e.agreedBy = {}
         \/ /\ e.agreement = Cardinality(AgentsOf(results, group))
            /\ e.agreedBy = AgentsOf(results, group)
  BY DEF Entry
<1> QED
  BY <1>1, <1>2, <1>3 DEF group

\* A set of more than one member has two.
LEMMA TwoMembers ==
    ASSUME NEW S, Cardinality(S) > 1
    PROVE  \E a, b \in S : a # b
<1> SUFFICES ASSUME \A a, b \in S : a = b PROVE FALSE
  OBVIOUS
<1>1. CASE S = {}
  BY <1>1, FS_EmptySet
<1>2. CASE S # {}
  <2>1. PICK a \in S : TRUE
    BY <1>2
  <2>2. S = {a}
    BY <2>1
  <2> QED
    BY <2>2, FS_Singleton
<1> QED
  BY <1>1, <1>2

\* The specialists are finitely many.
LEMMA AgentsFinite == IsFiniteSet(Agents) /\ Cardinality(Agents) \in Nat
<1>1. /\ Len(AgentOrder) \in Nat /\ DOMAIN AgentOrder = 1..Len(AgentOrder)
      /\ AgentOrder \in [1..Len(AgentOrder) -> Agents]
      /\ \A a \in Agents : \E i \in 1..Len(AgentOrder) : AgentOrder[i] = a
  BY OrchestratorAssumption
<1>2. ExistsSurjection(1..Len(AgentOrder), Agents)
  BY <1>1 DEF ExistsSurjection, Surjection
<1> QED
  BY <1>1, <1>2, FS_NatSurjection, FS_CardinalityType

\* An agent may find nothing, and fail.
LEMMA NoFindings == \A a \in Agents : <<>> \in Reports(a)
<1> SUFFICES ASSUME NEW a \in Agents PROVE <<>> \in Reports(a)
  OBVIOUS
<1>1. \A S : \A s \in Seq(S) : s \in [1..Len(s) -> S]
  OBVIOUS
<1>2. <<>> \in Seq(FindingsOf(a)) /\ Len(<<>>) = 0
  OBVIOUS
<1>3. <<>> \in [1..0 -> FindingsOf(a)]
  BY <1>1, <1>2
<1>4. 0 \in 0..MaxPerAgent
  BY OrchestratorAssumption
<1> QED
  BY <1>3, <1>4 DEF Reports

\* What is joined is well formed, and is what the agents may report.
LEMMA JoinedFindings ==
    ASSUME TypeOK
    PROVE  /\ WellFormed(Joined)
           /\ \A p \in AllFindings(Joined) : \E a \in Agents : Finding(Joined, p) \in FindingsOf(a)
<1>1. DOMAIN Joined \subseteq Nat /\ \A i \in DOMAIN Joined :
          AgentOrder[i] \in Agents /\ Joined[i] = returned[AgentOrder[i]]
  BY OrchestratorAssumption DEF Joined
<1>2. \A i \in DOMAIN Joined : \E n \in 0..MaxPerAgent :
          Joined[i].findings \in [1..n -> FindingsOf(AgentOrder[i])]
  BY <1>1 DEF TypeOK, Reports
<1>3. \A i \in DOMAIN Joined : DOMAIN Joined[i].findings \subseteq Nat
  BY <1>2, OrchestratorAssumption
<1>4. \A p \in AllFindings(Joined) :
          /\ p[1] \in DOMAIN Joined
          /\ Finding(Joined, p) \in FindingsOf(AgentOrder[p[1]])
  <2> SUFFICES ASSUME NEW p \in AllFindings(Joined)
               PROVE  /\ p[1] \in DOMAIN Joined
                      /\ Finding(Joined, p) \in FindingsOf(AgentOrder[p[1]])
    OBVIOUS
  <2>1. p[1] \in DOMAIN Joined /\ p[2] \in DOMAIN Joined[p[1]].findings
    BY DEF AllFindings
  <2>2. PICK n \in 0..MaxPerAgent : Joined[p[1]].findings \in [1..n -> FindingsOf(AgentOrder[p[1]])]
    BY <1>2, <2>1
  <2> QED
    BY <2>1, <2>2 DEF Finding
<1>5. \A a \in Agents : \A f \in FindingsOf(a) : f.confidence \in 0..100
  BY OrchestratorAssumption DEF FindingsOf
<1> QED
  BY <1>1, <1>3, <1>4, <1>5 DEF WellFormed

\* An entry of the merged findings and the reports it stands for.
EntryIsOf(e, group) ==
    /\ e = Entry(Joined, group) /\ group = GroupAt(Joined, e.finding.at)
    /\ group # {} /\ group \subseteq AllFindings(Joined)
    /\ \A q \in group : /\ Finding(Joined, q).at = e.finding.at
                        /\ Finding(Joined, q).confidence <= e.finding.confidence
    /\ \E q \in group : e.finding = Finding(Joined, q)
    /\ \/ e.agreement = 1 /\ e.agreedBy = {}
       \/ e.agreement = Cardinality(AgentsOf(Joined, group)) /\ e.agreedBy = AgentsOf(Joined, group)

\* Each entry stands for the reports of one place, and each report has its entry.
LEMMA EntriesAndReports ==
    ASSUME TypeOK
    PROVE  /\ \A e \in Merge(Joined) : \E group : EntryIsOf(e, group)
           /\ \A p \in AllFindings(Joined) : \E e \in Merge(Joined) :
                  e.finding.at = Finding(Joined, p).at
<1>1. ASSUME NEW p \in AllFindings(Joined)
      PROVE  LET group == GroupAt(Joined, Finding(Joined, p).at)
             IN  EntryIsOf(Entry(Joined, group), group)
  <2> DEFINE group == GroupAt(Joined, Finding(Joined, p).at)
             e == Entry(Joined, group)
  <2>1. /\ p \in group /\ group \subseteq AllFindings(Joined)
        /\ e.finding.at = Finding(Joined, p).at
        /\ \E q \in group : e.finding = Finding(Joined, q)
        /\ \A q \in group : Finding(Joined, q).confidence <= e.finding.confidence
        /\ \/ e.agreement = 1 /\ e.agreedBy = {}
           \/ /\ e.agreement = Cardinality(AgentsOf(Joined, group))
              /\ e.agreedBy = AgentsOf(Joined, group)
    BY JoinedFindings, EntryOfGroup
  <2>2. \A q \in group : Finding(Joined, q).at = Finding(Joined, p).at
    BY DEF GroupAt
  <2>3. group = GroupAt(Joined, e.finding.at)
    BY <2>1
  <2> HIDE DEF group
  <2> QED
    BY <2>1, <2>2, <2>3 DEF EntryIsOf, group
<1>2. \A p \in AllFindings(Joined) :
          Entry(Joined, GroupAt(Joined, Finding(Joined, p).at)) \in Merge(Joined)
  BY DEF Merge
<1>3. \A e \in Merge(Joined) : \E p \in AllFindings(Joined) :
          e = Entry(Joined, GroupAt(Joined, Finding(Joined, p).at))
  BY DEF Merge
<1>4. \A p \in AllFindings(Joined) :
          Entry(Joined, GroupAt(Joined, Finding(Joined, p).at)).finding.at = Finding(Joined, p).at
  BY JoinedFindings, EntryOfGroup
<1> QED
  BY <1>1, <1>2, <1>3, <1>4

\* The stages of the graph and what each has written.
GraphInv ==
    /\ TypeOK
    /\ DOMAIN returned = Agents
    /\ stage \in {"fan_out", "aggregate"} => merged = {}
    /\ stage \in {"decide", "end"} => merged = Merge(Joined)
    /\ stage = "end" => decision \in Decisions(merged, Errors)

\* The types of the merged findings.
LEMMA MergedTypes ==
    ASSUME TypeOK, NEW e \in Merge(Joined)
    PROVE  /\ e.finding \in UNION {FindingsOf(a) : a \in Agents}
           /\ e.agreement \in 1..Cardinality(Agents)
<1>1. PICK group : EntryIsOf(e, group)
  BY EntriesAndReports
<1> DEFINE who == AgentsOf(Joined, group)
<1>2. who \subseteq Agents /\ who # {}
  <2>1. \A p \in group : Finding(Joined, p).agent \in Agents
    BY <1>1, JoinedFindings DEF EntryIsOf, FindingsOf
  <2> QED
    BY <1>1, <2>1 DEF EntryIsOf, AgentsOf
<1>3. IsFiniteSet(who) /\ Cardinality(who) <= Cardinality(Agents)
  BY <1>2, AgentsFinite, FS_Subset
<1>4. Cardinality(who) \in Nat /\ Cardinality(who) # 0
  BY <1>2, <1>3, FS_CardinalityType, FS_EmptySet
<1>5. e.agreement = 1 \/ e.agreement = Cardinality(who)
  BY <1>1 DEF EntryIsOf
<1>6. e.agreement \in 1..Cardinality(Agents)
  <2> HIDE DEF who
  <2> QED
    BY <1>3, <1>4, <1>5, AgentsFinite
<1>7. e.finding \in UNION {FindingsOf(a) : a \in Agents}
  BY <1>1, JoinedFindings DEF EntryIsOf
<1> QED
  BY <1>6, <1>7

\* Every node of the graph preserves it.
LEMMA GraphStep == ASSUME GraphInv, [Next]_vars PROVE GraphInv'
<1>1. ASSUME NEW a \in Agents, AgentReports(a) \/ AgentFails(a) PROVE GraphInv'
  <2>1. /\ stage = "fan_out" /\ stage' = stage /\ merged' = merged /\ decision' = decision
        /\ waiting' \subseteq Agents /\ DOMAIN returned' = Agents
    BY <1>1 DEF AgentReports, AgentFails, GraphInv, TypeOK
  <2>2. PICK findings \in Reports(a), error \in BOOLEAN :
            returned' = [returned EXCEPT ![a] = [error |-> error, findings |-> findings]]
    BY <1>1, NoFindings DEF AgentReports, AgentFails, Failed
  <2>3. returned'[a].error \in BOOLEAN /\ returned'[a].findings \in Reports(a)
    BY <2>2 DEF GraphInv
  <2>4. \A b \in Agents \ {a} : returned'[b] = returned[b]
    BY <1>1 DEF AgentReports, AgentFails, GraphInv
  <2>5. TypeOK'
    BY <2>1, <2>3, <2>4 DEF GraphInv, TypeOK, Reports, FindingsOf
  <2> QED
    BY <2>1, <2>5 DEF GraphInv
<1>2. CASE Join
  BY <1>2 DEF Join, GraphInv, TypeOK, Reports, FindingsOf
<1>3. CASE Aggregate
  <2>1. /\ stage' = "decide" /\ merged' = Merge(Joined) /\ Joined' = Joined
        /\ returned' = returned /\ waiting' = waiting /\ decision' = decision
    BY <1>3 DEF Aggregate, Joined
  <2>2. TypeOK'
    BY <2>1, MergedTypes DEF GraphInv, TypeOK, Reports, FindingsOf
  <2> QED
    BY <2>1, <2>2 DEF GraphInv
<1>4. CASE Decide
  <2>1. /\ stage = "decide" /\ stage' = "end" /\ merged' = merged /\ Joined' = Joined
        /\ Errors' = Errors /\ returned' = returned /\ waiting' = waiting
        /\ decision' \in Decisions(merged, Errors)
    BY <1>4 DEF Decide, Joined, Errors
  <2>2. decision' \in {"auto_post", "approval_queue", "escalate"}
    BY <2>1 DEF Decisions
  <2>3. TypeOK'
    BY <2>1, <2>2 DEF GraphInv, TypeOK, Reports, FindingsOf
  <2> QED
    BY <2>1, <2>3 DEF GraphInv
<1>5. CASE UNCHANGED vars
  BY <1>5 DEF vars, GraphInv, TypeOK, Joined, Errors, Reports, FindingsOf
<1> QED
  BY <1>1, <1>2, <1>3, <1>4, <1>5 DEF Next

\* The invariant holds of every run of the graph.
LEMMA GraphInvariant == Spec => []GraphInv
<1>1. Init => GraphInv
  <2> SUFFICES ASSUME Init PROVE GraphInv
    OBVIOUS
  <2>1. \A a \in Agents : returned[a].error \in BOOLEAN /\ returned[a].findings \in Reports(a)
    BY NoFindings DEF Init, Nothing
  <2> QED
    BY <2>1 DEF Init, GraphInv, TypeOK
<1>2. GraphInv /\ [Next]_vars => GraphInv'
  BY GraphStep
<1> QED
  BY <1>1, <1>2, PTL DEF Spec

\* What decide looks at is what the agents reported: each reported place has one
\* entry, at least as confident as anyone was, and a boost comes only from another
\* agent at the same place (orchestrator/nodes.py:aggregate).
THEOREM MergeSound == Spec => []MergeIsSound
<1>1. GraphInv => MergeIsSound
  <2> SUFFICES ASSUME GraphInv PROVE MergeIsSound
    OBVIOUS
  <2>1. ASSUME stage \in {"decide", "end"}
        PROVE  /\ \A e \in merged : \E group : EntryIsOf(e, group)
               /\ \A p \in AllFindings(Joined) : \E e \in merged :
                      e.finding.at = Finding(Joined, p).at
    BY <2>1, EntriesAndReports DEF GraphInv
  <2>2. ASSUME stage \in {"decide", "end"}, NEW e \in merged, NEW f \in Reported,
               f.at = e.finding.at
        PROVE  /\ f.confidence <= e.finding.confidence
               /\ e.agreement > 1 => f.agent \in e.agreedBy
    <3>1. PICK group : EntryIsOf(e, group)
      BY <2>1, <2>2
    <3>2. PICK q \in AllFindings(Joined) : f = Finding(Joined, q)
      BY DEF Reported
    <3>3. q \in group
      BY <2>2, <3>1, <3>2 DEF EntryIsOf, GroupAt
    <3> QED
      BY <3>1, <3>2, <3>3 DEF EntryIsOf, AgentsOf
  <2>3. ASSUME stage \in {"decide", "end"}, NEW e \in merged, NEW a \in e.agreedBy
        PROVE  \E f \in Reported : f.agent = a /\ f.at = e.finding.at
    <3>1. PICK group : EntryIsOf(e, group)
      BY <2>1, <2>3
    <3>2. PICK q \in group : Finding(Joined, q).agent = a
      BY <2>3, <3>1 DEF EntryIsOf, AgentsOf
    <3> QED
      BY <3>1, <3>2 DEF EntryIsOf, Reported
  <2>4. MergeIsFaithful
    <3> SUFFICES ASSUME stage \in {"decide", "end"}
                 PROVE  /\ {e.finding.at : e \in merged} = {f.at : f \in Reported}
                        /\ \A d, e \in merged : d.finding.at = e.finding.at => d = e
      BY <2>2, <2>3 DEF MergeIsFaithful
    <3>1. \A e \in merged : \E f \in Reported : f.at = e.finding.at
      BY <2>1 DEF EntryIsOf, Reported
    <3>2. \A f \in Reported : \E e \in merged : f.at = e.finding.at
      BY <2>1 DEF Reported
    <3>3. \A d, e \in merged : d.finding.at = e.finding.at => d = e
      BY <2>1 DEF EntryIsOf
    <3> QED
      BY <3>1, <3>2, <3>3
  <2>5. BoostNeedsAnotherAgent
    <3> SUFFICES ASSUME stage = "end", NEW e \in merged, e.agreement > 1
                 PROVE  \E f, g \in Reported :
                            f.at = e.finding.at /\ g.at = e.finding.at /\ f.agent # g.agent
      BY DEF BoostNeedsAnotherAgent
    <3>1. PICK group : EntryIsOf(e, group)
      BY <2>1
    <3>2. Cardinality(AgentsOf(Joined, group)) > 1
      BY <3>1 DEF EntryIsOf
    <3>3. PICK a \in AgentsOf(Joined, group), b \in AgentsOf(Joined, group) : a # b
      BY <3>2, TwoMembers
    <3>4. PICK p \in group, q \in group : Finding(Joined, p).agent = a /\ Finding(Joined, q).agent = b
      BY DEF AgentsOf
    <3> QED
      BY <3>1, <3>3, <3>4 DEF EntryIsOf, Reported
  <2> QED
    BY <2>4, <2>5 DEF MergeIsSound, GraphInv
<1> QED
  BY <1>1, GraphInvariant, PTL

\* A run in which agents failed and the rest found nothing goes to a human
\* (orchestrator/nodes.py:decide).
THEOREM FailureGoesToHuman == Spec => []EmptyFailureGoesToHuman
<1>1. GraphInv => EmptyFailureGoesToHuman
  BY DEF GraphInv, EmptyFailureGoesToHuman, Decisions
<1> QED
  BY <1>1, GraphInvariant, PTL

\* There is one first position only.
LEMMA FirstIs ==
    ASSUME NEW S, S \subseteq Nat \X Nat, NEW p \in S, \A q \in S : Precedes(p, q)
    PROVE  First(S) = p
<1>1. First(S) \in S /\ \A q \in S : Precedes(First(S), q)
  BY DEF First
<1>2. Precedes(p, First(S)) /\ Precedes(First(S), p)
  BY <1>1
<1>3. First(S) \in Nat \X Nat /\ p \in Nat \X Nat
  BY <1>1
<1>4. First(S)[1] = p[1] /\ First(S)[2] = p[2]
  BY <1>2, <1>3 DEF Precedes
<1> QED
  BY <1>3, <1>4

\* The most confident findings of a group.
Top(results, group) ==
    {p \in group : \A q \in group : Finding(results, q).confidence <= Finding(results, p).confidence}

\* The best finding is the first of them.
LEMMA BestIsFirst ==
    ASSUME NEW results, WellFormed(results),
           NEW group, group \subseteq AllFindings(results), group # {}
    PROVE  /\ Best(results, group) = Finding(results, First(Top(results, group)))
           /\ First(Top(results, group)) \in Top(results, group)
           /\ \A q \in Top(results, group) : Precedes(First(Top(results, group)), q)
           /\ group \subseteq Nat \X Nat
<1>1. group \subseteq Nat \X Nat
  BY DEF AllFindings, WellFormed
<1>2. Top(results, group) # {} /\ Top(results, group) \subseteq Nat \X Nat
  BY <1>1, BestIsBest DEF Top
<1>3. First(Top(results, group)) \in Top(results, group)
  BY <1>2, FirstExists
<1> QED
  BY <1>1, <1>3, <1>2, FirstExists DEF Best, Top

\* One more result, of one finding.
With(echo) == Append(Joined, [error |-> FALSE, findings |-> <<echo>>])
Place(echo) == <<Len(Joined) + 1, 1>>

\* What is found is finite.
LEMMA FindingsFinite == ASSUME TypeOK PROVE IsFiniteSet(AllFindings(Joined))
<1> DEFINE n == Len(AgentOrder)
<1>1. n \in Nat /\ DOMAIN Joined = 1..n
  BY OrchestratorAssumption DEF Joined
<1>2. \A i \in 1..n : \E m \in 0..MaxPerAgent : DOMAIN Joined[i].findings = 1..m
  BY <1>1, OrchestratorAssumption DEF TypeOK, Reports, Joined, n
<1> HIDE DEF n
<1>3. AllFindings(Joined) \subseteq (1..n) \X (1..MaxPerAgent)
  BY <1>1, <1>2, OrchestratorAssumption DEF AllFindings
<1>4. IsFiniteSet(1..n) /\ IsFiniteSet(1..MaxPerAgent)
  BY <1>1, FS_Interval, OrchestratorAssumption
<1> QED
  BY <1>3, <1>4, FS_Product, FS_Subset

\* What is found then: what was found, and the echo after it.
LEMMA EchoFindings ==
    ASSUME TypeOK, NEW echo, echo.confidence \in 0..100
    PROVE  /\ AllFindings(With(echo)) = AllFindings(Joined) \cup {Place(echo)}
           /\ Place(echo) \notin AllFindings(Joined)
           /\ \A p \in AllFindings(Joined) :
                  /\ Finding(With(echo), p) = Finding(Joined, p)
                  /\ Precedes(p, Place(echo)) /\ ~Precedes(Place(echo), p)
           /\ Finding(With(echo), Place(echo)) = echo
           /\ WellFormed(With(echo))
           /\ IsFiniteSet(AllFindings(With(echo)))
<1> DEFINE last == [error |-> FALSE, findings |-> <<echo>>]
           R == {returned[a] : a \in Agents} \cup {last}
           n == Len(AgentOrder)
           more == With(echo)
<1>1. n \in Nat /\ Joined \in [1..n -> R]
  BY OrchestratorAssumption DEF Joined
<1>2. Joined \in Seq(R) /\ Len(Joined) = n
  BY <1>1
<1>3. /\ DOMAIN more = 1..(n + 1) /\ more[n + 1] = last
      /\ \A i \in 1..n : more[i] = Joined[i]
  BY <1>1, <1>2 DEF With
<1>4. last.error = FALSE /\ last.findings = <<echo>> /\ DOMAIN <<echo>> = {1} /\ <<echo>>[1] = echo
  OBVIOUS
<1> HIDE DEF last, R, n, more
<1>5. n + 1 \in 1..(n + 1) /\ n + 1 \notin 1..n /\ 1..(n + 1) = (1..n) \cup {n + 1}
  BY <1>1
<1>6. DOMAIN Joined = 1..n
  BY <1>1
<1>7. AllFindings(more) = AllFindings(Joined) \cup {<<n + 1, 1>>}
  <2>1. {j \in DOMAIN more : ~more[j].error} = {j \in DOMAIN Joined : ~Joined[j].error} \cup {n + 1}
    BY <1>3, <1>4, <1>5, <1>6
  <2>2. \A j \in DOMAIN Joined : {j} \X DOMAIN more[j].findings = {j} \X DOMAIN Joined[j].findings
    BY <1>3, <1>6
  <2>3. {n + 1} \X DOMAIN more[n + 1].findings = {<<n + 1, 1>>}
    BY <1>3, <1>4
  <2> QED
    BY <2>1, <2>2, <2>3 DEF AllFindings
<1>8. \A p \in AllFindings(Joined) : p[1] \in 1..n
  BY <1>6 DEF AllFindings
<1>9. Place(echo) = <<n + 1, 1>> /\ Place(echo) \notin AllFindings(Joined)
  BY <1>2, <1>5, <1>8 DEF Place
<1>10. \A p \in AllFindings(Joined) : Finding(more, p) = Finding(Joined, p)
  BY <1>3, <1>8 DEF Finding
<1>11. Finding(more, Place(echo)) = echo
  BY <1>3, <1>4, <1>9 DEF Finding
<1>12. \A p \in AllFindings(Joined) : Precedes(p, Place(echo)) /\ ~Precedes(Place(echo), p)
  <2>1. \A p \in AllFindings(Joined) : p[1] < n + 1 /\ p[1] \in Nat
    BY <1>1, <1>8
  <2> QED
    BY <2>1, <1>1, <1>9 DEF Precedes
<1>13. WellFormed(more)
  <2>1. WellFormed(Joined)
    BY JoinedFindings
  <2>2. DOMAIN more \subseteq Nat /\ \A i \in DOMAIN more : DOMAIN more[i].findings \subseteq Nat
    BY <2>1, <1>1, <1>3, <1>4, <1>5, <1>6 DEF WellFormed
  <2>3. \A p \in AllFindings(more) : Finding(more, p).confidence \in 0..100
    BY <2>1, <1>7, <1>9, <1>10, <1>11 DEF WellFormed
  <2> QED
    BY <2>2, <2>3 DEF WellFormed
<1>14. IsFiniteSet(AllFindings(Joined))
  BY FindingsFinite
<1> QED
  BY <1>7, <1>9, <1>10, <1>11, <1>12, <1>13, <1>14, FS_AddElement DEF more

\* The entry of a place the echo is not at stays as it is.
LEMMA OtherEntries ==
    ASSUME TypeOK, NEW echo, echo.confidence \in 0..100, NEW group, group \subseteq AllFindings(Joined),
           group # {}
    PROVE  Entry(With(echo), group) = Entry(Joined, group)
<1>1. \A p \in group : Finding(With(echo), p) = Finding(Joined, p)
  BY EchoFindings
<1>2. Top(With(echo), group) = Top(Joined, group)
  BY <1>1 DEF Top
<1>3. AgentsOf(With(echo), group) = AgentsOf(Joined, group)
  BY <1>1 DEF AgentsOf
<1>4. Best(With(echo), group) = Best(Joined, group)
  <2>1. /\ Best(With(echo), group) = Finding(With(echo), First(Top(With(echo), group)))
        /\ Best(Joined, group) = Finding(Joined, First(Top(Joined, group)))
        /\ First(Top(Joined, group)) \in Top(Joined, group)
    BY EchoFindings, JoinedFindings, BestIsFirst
  <2> QED
    BY <1>1, <1>2, <2>1 DEF Top
<1> QED
  BY <1>3, <1>4 DEF Entry

\* An echo of an entry: at its place, as severe.
EchoOf(echo, e) ==
    /\ echo.at = e.finding.at /\ echo.severity = e.finding.severity
    /\ echo.agent \in Agents /\ echo.confidence \in 0..100

\* The best finding of its place is now the one it was, or the echo.
LEMMA EchoedBest ==
    ASSUME TypeOK, NEW echo, echo.confidence \in 0..100,
           NEW group, group \subseteq AllFindings(Joined), group # {}
    PROVE  LET old == Best(Joined, group)
               new == Best(With(echo), group \cup {Place(echo)})
           IN  (new = old \/ new = echo) /\ new.confidence >= old.confidence
<1> DEFINE more == With(echo)
           wide == group \cup {Place(echo)}
           first == First(Top(Joined, group))
           lead == First(Top(more, wide))
<1>1. /\ Best(Joined, group) = Finding(Joined, first) /\ first \in Top(Joined, group)
      /\ \A q \in Top(Joined, group) : Precedes(first, q)
  BY JoinedFindings, BestIsFirst
<1>2. wide \subseteq AllFindings(more) /\ wide # {}
  BY EchoFindings
<1>3. /\ Best(more, wide) = Finding(more, lead) /\ lead \in Top(more, wide)
      /\ wide \subseteq Nat \X Nat /\ \A q \in Top(more, wide) : Precedes(lead, q)
  BY <1>2, EchoFindings, BestIsFirst
<1>4. \A q \in wide : Finding(more, q).confidence \in 0..100
  BY <1>2, EchoFindings DEF WellFormed
<1>5. \A q \in group : Finding(more, q) = Finding(Joined, q) /\ ~Precedes(Place(echo), q)
                       /\ Precedes(q, Place(echo))
  BY EchoFindings
<1>6. first \in group /\ first \in wide
  BY <1>1 DEF Top
<1>7. Finding(more, lead).confidence >= Finding(Joined, first).confidence
  <2>1. Finding(more, first).confidence <= Finding(more, lead).confidence
    BY <1>3, <1>6 DEF Top
  <2> QED
    BY <2>1, <1>4, <1>5, <1>6
<1>8. CASE lead = Place(echo)
  BY <1>1, <1>3, <1>7, <1>8, EchoFindings
<1>9. CASE lead # Place(echo)
  <2>1. lead \in group /\ lead \in wide
    BY <1>3, <1>9 DEF Top
  <2>2. lead \in Top(Joined, group)
    <3> SUFFICES ASSUME NEW q \in group
                 PROVE  Finding(Joined, q).confidence <= Finding(Joined, lead).confidence
      BY <2>1 DEF Top
    <3>1. Finding(more, q).confidence <= Finding(more, lead).confidence
      BY <1>3 DEF Top
    <3> QED
      BY <3>1, <2>1, <1>5
  <2>3. first \in Top(more, wide)
    <3>1. Finding(Joined, lead).confidence <= Finding(Joined, first).confidence
      BY <1>1, <2>1 DEF Top
    <3>2. Finding(more, lead).confidence <= Finding(more, first).confidence
      BY <3>1, <2>1, <1>5, <1>6
    <3>3. ASSUME NEW q \in wide PROVE Finding(more, q).confidence <= Finding(more, first).confidence
      <4>1. Finding(more, q).confidence <= Finding(more, lead).confidence
        BY <1>3 DEF Top
      <4>2. PICK x \in 0..100, y \in 0..100, z \in 0..100 :
                /\ x = Finding(more, q).confidence /\ y = Finding(more, lead).confidence
                /\ z = Finding(more, first).confidence
        BY <1>4, <1>6, <2>1
      <4>3. x <= y /\ y <= z
        BY <3>2, <4>1, <4>2
      <4>4. x <= z
        BY <4>3
      <4> QED
        BY <4>2, <4>4
    <3> QED
      BY <3>3, <1>6 DEF Top
  <2>4. Precedes(first, lead) /\ Precedes(lead, first)
    BY <1>1, <1>3, <2>2, <2>3
  <2>5. first = lead
    <3>1. first \in Nat \X Nat /\ lead \in Nat \X Nat
      BY <1>3, <1>6, <2>1
    <3>2. first[1] = lead[1] /\ first[2] = lead[2]
      BY <2>4, <3>1 DEF Precedes
    <3> HIDE DEF first, lead
    <3> QED
      BY <3>1, <3>2
  <2>6. Best(more, wide) = Best(Joined, group)
    BY <2>5, <1>1, <1>3, <1>5, <1>6
  <2> QED
    BY <2>6, <1>1, <1>3, <1>7
<1> QED
  BY <1>8, <1>9

\* The entry the echo is at gains confidence and agreement, and is no more severe.
LEMMA EchoedEntry ==
    ASSUME TypeOK, NEW e \in Merge(Joined), NEW echo, EchoOf(echo, e)
    PROVE  LET d == Entry(With(echo), GroupAt(With(echo), e.finding.at))
           IN  /\ d.finding.at = e.finding.at /\ d.finding.severity = e.finding.severity
               /\ d.finding.confidence \in 0..100 /\ e.finding.confidence \in 0..100
               /\ d.finding.confidence >= e.finding.confidence
               /\ d.agreement \in Nat /\ e.agreement \in Nat /\ e.agreement >= 1
               /\ d.agreement >= e.agreement
<1>1. PICK group : EntryIsOf(e, group)
  BY EntriesAndReports
<1> DEFINE more == With(echo)
           wide == GroupAt(more, e.finding.at)
           d == Entry(more, wide)
<1>2. group \subseteq AllFindings(Joined) /\ group # {} /\ group = GroupAt(Joined, e.finding.at)
      /\ e = Entry(Joined, group)
  BY <1>1 DEF EntryIsOf
<1>3. wide = group \cup {Place(echo)}
  BY <1>2, EchoFindings DEF GroupAt, EchoOf
<1>4. wide \subseteq AllFindings(more) /\ IsFiniteSet(wide)
  BY EchoFindings, FS_Subset DEF GroupAt, EchoOf
<1>5. Cardinality(wide) # 1
  <2> SUFFICES ASSUME Cardinality(wide) = 1 PROVE FALSE
    OBVIOUS
  <2>1. PICK p : wide = {p}
    BY <1>4, FS_Singleton
  <2>2. Place(echo) \notin group
    BY <1>2, EchoFindings DEF EchoOf
  <2> QED
    BY <2>1, <2>2, <1>2, <1>3
<1>6. d.finding = Best(more, wide) /\ d.agreement = Cardinality(AgentsOf(more, wide))
  BY <1>5 DEF Entry
<1>7. e.finding = Best(Joined, group)
  BY <1>2 DEF Entry
<1>8. /\ Best(more, wide) = Best(Joined, group) \/ Best(more, wide) = echo
      /\ Best(more, wide).confidence >= Best(Joined, group).confidence
  <2> HIDE DEF wide
  <2> QED
    BY <1>2, <1>3, EchoedBest DEF EchoOf
<1>9. AgentsOf(Joined, group) \subseteq AgentsOf(more, wide) /\ AgentsOf(more, wide) \subseteq Agents
      /\ AgentsOf(more, wide) # {}
  <2>1. \A p \in group : Finding(more, p) = Finding(Joined, p) /\ Finding(Joined, p).agent \in Agents
    BY <1>2, EchoFindings, JoinedFindings DEF EchoOf, FindingsOf
  <2>2. Finding(more, Place(echo)).agent \in Agents
    BY EchoFindings DEF EchoOf
  <2> QED
    BY <1>2, <1>3, <2>1, <2>2 DEF AgentsOf
<1>10. e.agreement \in Nat /\ e.agreement >= 1 /\ e.finding.confidence \in 0..100
       /\ (e.agreement = 1 \/ e.agreement = Cardinality(AgentsOf(Joined, group)))
  <2>1. e.agreement \in 1..Cardinality(Agents)
    BY MergedTypes
  <2>2. \E q \in group : e.finding = Finding(Joined, q)
    BY <1>1 DEF EntryIsOf
  <2>3. e.finding.confidence \in 0..100
    BY <2>2, <1>2, JoinedFindings DEF WellFormed
  <2>4. e.agreement \in Nat /\ e.agreement >= 1
    BY <2>1, AgentsFinite
  <2>5. e.agreement = 1 \/ e.agreement = Cardinality(AgentsOf(Joined, group))
    BY <1>1 DEF EntryIsOf
  <2> QED
    BY <2>3, <2>4, <2>5
<1>11. d.agreement \in Nat /\ d.agreement >= e.agreement
  <2>1. IsFiniteSet(AgentsOf(more, wide)) /\ Cardinality(AgentsOf(more, wide)) \in Nat
    BY <1>9, AgentsFinite, FS_Subset, FS_CardinalityType
  <2>2. Cardinality(AgentsOf(Joined, group)) <= Cardinality(AgentsOf(more, wide))
    BY <1>9, <2>1, FS_Subset
  <2>3. Cardinality(AgentsOf(more, wide)) # 0
    BY <1>9, <2>1, FS_EmptySet
  <2> HIDE DEF d, wide, more
  <2> QED
    BY <1>6, <1>10, <2>1, <2>2, <2>3
<1> HIDE DEF wide, more
<1>12. d.finding.confidence \in 0..100
  <2>1. d.finding = e.finding \/ d.finding = echo
    BY <1>6, <1>7, <1>8
  <2> QED
    BY <2>1, <1>10 DEF EchoOf
<1> QED
  BY <1>6, <1>7, <1>8, <1>10, <1>11, <1>12 DEF EchoOf, wide, more

\* All other entries are what they were.
LEMMA EchoedMerge ==
    ASSUME TypeOK, NEW e \in Merge(Joined), NEW echo, EchoOf(echo, e)
    PROVE  LET d == Entry(With(echo), GroupAt(With(echo), e.finding.at))
           IN  Merge(With(echo)) = (Merge(Joined) \ {e}) \cup {d}
<1> DEFINE more == With(echo)
           d == Entry(more, GroupAt(more, e.finding.at))
<1>1. /\ AllFindings(more) = AllFindings(Joined) \cup {Place(echo)}
      /\ Finding(more, Place(echo)).at = e.finding.at
      /\ \A p \in AllFindings(Joined) : Finding(more, p) = Finding(Joined, p)
  BY EchoFindings DEF EchoOf
<1>2. e = Entry(Joined, GroupAt(Joined, e.finding.at))
  <2>1. PICK group : EntryIsOf(e, group)
    BY EntriesAndReports
  <2> QED
    BY <2>1 DEF EntryIsOf
<1>3. ASSUME NEW p \in AllFindings(Joined), Finding(Joined, p).at # e.finding.at
      PROVE  /\ Entry(more, GroupAt(more, Finding(more, p).at))
                    = Entry(Joined, GroupAt(Joined, Finding(Joined, p).at))
             /\ Entry(Joined, GroupAt(Joined, Finding(Joined, p).at)) # e
  <2>1. GroupAt(more, Finding(more, p).at) = GroupAt(Joined, Finding(Joined, p).at)
    BY <1>1, <1>3 DEF GroupAt
  <2>2. GroupAt(Joined, Finding(Joined, p).at) \subseteq AllFindings(Joined)
        /\ p \in GroupAt(Joined, Finding(Joined, p).at)
    BY DEF GroupAt
  <2>3. Entry(Joined, GroupAt(Joined, Finding(Joined, p).at)).finding.at = Finding(Joined, p).at
    BY JoinedFindings, EntryOfGroup
  <2> QED
    BY <2>1, <2>2, <2>3, <1>3, OtherEntries DEF EchoOf
<1>4. Merge(more) = {Entry(more, GroupAt(more, Finding(more, p).at)) : p \in AllFindings(more)}
      /\ Merge(Joined) = {Entry(Joined, GroupAt(Joined, Finding(Joined, p).at)) : p \in AllFindings(Joined)}
  BY DEF Merge
<1> HIDE DEF more
<1>5. ASSUME NEW x \in Merge(more) PROVE x \in (Merge(Joined) \ {e}) \cup {d}
  <2>1. PICK p \in AllFindings(more) : x = Entry(more, GroupAt(more, Finding(more, p).at))
    BY <1>4
  <2>2. CASE Finding(more, p).at = e.finding.at
    BY <2>1, <2>2
  <2>3. CASE Finding(more, p).at # e.finding.at
    <3>1. p \in AllFindings(Joined) /\ Finding(Joined, p).at # e.finding.at
      BY <1>1, <2>3
    <3> QED
      BY <2>1, <3>1, <1>3, <1>4
  <2> QED
    BY <2>2, <2>3
<1>6. d \in Merge(more)
  BY <1>1, <1>4
<1>7. ASSUME NEW x \in Merge(Joined) \ {e} PROVE x \in Merge(more)
  <2>1. PICK p \in AllFindings(Joined) : x = Entry(Joined, GroupAt(Joined, Finding(Joined, p).at))
    BY <1>4
  <2>2. Finding(Joined, p).at # e.finding.at
    BY <2>1, <1>2
  <2> QED
    BY <2>1, <2>2, <1>1, <1>3, <1>4
<1> QED
  BY <1>5, <1>6, <1>7 DEF more

\* A larger number of parts, each as large.
LEMMA MoreOfEach ==
    ASSUME NEW m \in Nat, NEW n \in Nat, m <= n, NEW k \in Nat
    PROVE  m * k \in Nat /\ n * k \in Nat /\ m * k <= n * k
OBVIOUS

\* Merged findings are finitely many, with numbers to add up.
LEMMA MergedSums ==
    ASSUME TypeOK
    PROVE  /\ IsFiniteSet(Merge(Joined)) /\ Cardinality(Merge(Joined)) \in Nat
           /\ \A e \in Merge(Joined) :
                  /\ e.finding.confidence \in 0..100
                  /\ e.agreement \in Nat /\ e.agreement >= 1
<1>1. IsFiniteSet(Merge(Joined)) /\ Cardinality(Merge(Joined)) \in Nat
  <2> DEFINE A == AllFindings(Joined)
             g == [p \in A |-> Entry(Joined, GroupAt(Joined, Finding(Joined, p).at))]
  <2>1. Merge(Joined) = {g[p] : p \in A}
    BY DEF Merge
  <2>2. IsFiniteSet(A)
    BY FindingsFinite
  <2> HIDE DEF A, g
  <2>3. IsFiniteSet({g[p] : p \in A})
    <3> DEFINE T == {g[p] : p \in A}
    <3>1. g \in [A -> T] /\ \A t \in T : \E p \in A : g[p] = t
      BY DEF g
    <3>2. g \in Surjection(A, T)
      BY <3>1 DEF Surjection
    <3> HIDE DEF T
    <3>3. IsFiniteSet(T)
      BY <2>2, <3>2, FS_Surjection
    <3> QED
      BY <3>3 DEF T
  <2> QED
    BY <2>1, <2>3, FS_CardinalityType
<1>2. ASSUME NEW e \in Merge(Joined)
      PROVE  e.finding.confidence \in 0..100 /\ e.agreement \in Nat /\ e.agreement >= 1
  <2>1. PICK a \in Agents : e.finding \in FindingsOf(a)
    BY MergedTypes
  <2>2. e.agreement \in 1..Cardinality(Agents)
    BY MergedTypes
  <2>3. e.finding.confidence \in Confidences
    BY <2>1 DEF FindingsOf
  <2>4. e.agreement \in Nat /\ e.agreement >= 1
    BY <2>2, AgentsFinite
  <2> QED
    BY <2>3, <2>4, OrchestratorAssumption
<1> QED
  BY <1>1, <1>2

\* One more agent reporting an already reported place, no more severely, leaves a clear
\* auto_post what it is: the average and the boost only grow, the number of entries stays
\* (orchestrator/nodes.py:aggregate, decide).
THEOREM SupportIsSafe == Spec => []SupportNeverHurts
<1>1. ASSUME GraphInv, stage = "end", Decisions(merged, Errors) = {"auto_post"},
             NEW e \in merged, NEW echo, EchoOf(echo, e)
      PROVE  Decisions(Merge(With(echo)), Errors) = {"auto_post"}
  <2> DEFINE M == Merge(Joined)
             N == Merge(With(echo))
             d == Entry(With(echo), GroupAt(With(echo), e.finding.at))
             n == Cardinality(M)
  <2>1. TypeOK /\ merged = M
    BY <1>1 DEF GraphInv
  <2>2. /\ d.finding.at = e.finding.at /\ d.finding.severity = e.finding.severity
        /\ d.finding.confidence \in 0..100 /\ e.finding.confidence \in 0..100
        /\ d.finding.confidence >= e.finding.confidence
        /\ d.agreement \in Nat /\ e.agreement \in Nat /\ e.agreement >= 1
        /\ d.agreement >= e.agreement
    BY <1>1, <2>1, EchoedEntry
  <2>3. N = (M \ {e}) \cup {d}
    BY <1>1, <2>1, EchoedMerge
  <2> HIDE DEF d, N
  <2>4. /\ IsFiniteSet(M) /\ n \in Nat /\ e \in M
        /\ \A x \in M : x.finding.confidence \in 0..100 /\ x.agreement \in Nat /\ x.agreement >= 1
    BY <1>1, <2>1, MergedSums
  <2>5. d \notin M \ {e}
    <3> SUFFICES ASSUME d \in M PROVE d = e
      OBVIOUS
    <3>1. PICK g : EntryIsOf(d, g)
      BY <2>1, EntriesAndReports
    <3>2. PICK h : EntryIsOf(e, h)
      BY <2>1, <2>4, EntriesAndReports
    <3> QED
      BY <2>2, <3>1, <3>2 DEF EntryIsOf
  <2> HIDE DEF M
  <2>6. Cardinality(N) = n
    <3>1. IsFiniteSet(M \ {e}) /\ Cardinality(M \ {e}) = n - 1
      BY <2>4, FS_RemoveElement
    <3>2. Cardinality(N) = n - 1 + 1
      BY <3>1, <2>3, <2>5, FS_AddElement
    <3> QED
      BY <3>2, <2>4
  <2> DEFINE f == [x \in M |-> x.finding.confidence]
             h == [x \in N |-> x.finding.confidence]
             p == [x \in M |-> AgreementBoost * (x.agreement - 1)]
             q == [x \in N |-> AgreementBoost * (x.agreement - 1)]
  <2>7. /\ Total(M) \in Nat /\ Total(N) \in Nat
        /\ Total(N) + e.finding.confidence = Total(M) + d.finding.confidence
    <3>1. f \in [M -> Nat] /\ h \in [(M \ {e}) \cup {d} -> Nat] /\ \A x \in M \ {e} : h[x] = f[x]
      BY <2>2, <2>3, <2>4
    <3>2. f[e] = e.finding.confidence /\ h[d] = d.finding.confidence
      BY <2>3, <2>4
    <3>3. Total(M) = SumFunction(f) /\ Total(N) = SumFunction(h)
      BY DEF Total
    <3> HIDE DEF f, h
    <3>4. Exchanged(e, d, f, h)
      BY <2>4, <2>5, <3>1, SumExchange
    <3> QED
      BY <3>2, <3>3, <3>4 DEF Exchanged
  <2>8. /\ Boost(M) \in Nat /\ Boost(N) \in Nat
        /\ Boost(N) + AgreementBoost * (e.agreement - 1) = Boost(M) + AgreementBoost * (d.agreement - 1)
    <3>1. p \in [M -> Nat] /\ q \in [(M \ {e}) \cup {d} -> Nat] /\ \A x \in M \ {e} : q[x] = p[x]
      BY <2>2, <2>3, <2>4 DEF AgreementBoost
    <3>2. p[e] = AgreementBoost * (e.agreement - 1) /\ q[d] = AgreementBoost * (d.agreement - 1)
      BY <2>3, <2>4
    <3>3. Boost(M) = SumFunction(p) /\ Boost(N) = SumFunction(q)
      BY DEF Boost
    <3> HIDE DEF p, q
    <3>4. Exchanged(e, d, p, q)
      BY <2>4, <2>5, <3>1, SumExchange
    <3> QED
      BY <3>2, <3>3, <3>4 DEF Exchanged
  <2> HIDE DEF n, f, h, p, q
  <2>9. Total(N) >= Total(M) /\ Boost(N) >= Boost(M)
    <3>6. PICK c \in 0..100, C \in 0..100 :
              c = e.finding.confidence /\ C = d.finding.confidence /\ c <= C
      BY <2>2
    <3>7. PICK a \in Nat, A \in Nat : a = e.agreement /\ A = d.agreement /\ a <= A
      BY <2>2
    <3>1. /\ c = e.finding.confidence /\ C = d.finding.confidence /\ c <= C
          /\ a = e.agreement /\ A = d.agreement /\ a <= A
      BY <3>6, <3>7
    <3>2. Total(N) + c = Total(M) + C /\ Boost(N) + 2 * (a - 1) = Boost(M) + 2 * (A - 1)
      BY <2>7, <2>8, <3>1 DEF AgreementBoost
    <3>3. PICK t \in Nat, T \in Nat, b \in Nat, B \in Nat :
              t = Total(M) /\ T = Total(N) /\ b = Boost(M) /\ B = Boost(N)
      BY <2>7, <2>8
    <3>4. T + c = t + C /\ B + 2 * (a - 1) = b + 2 * (A - 1)
      BY <3>2, <3>3
    <3>5. PICK x \in Int, X \in Int : x = 2 * (a - 1) /\ X = 2 * (A - 1) /\ x <= X
      BY <3>7
    <3>8. T + c = t + C /\ B + x = b + X
      BY <3>4, <3>5
    <3>9. /\ t \in Nat /\ T \in Nat /\ b \in Nat /\ B \in Nat
          /\ c \in Int /\ C \in Int /\ x \in Int /\ X \in Int /\ c <= C /\ x <= X
      BY <3>3, <3>5, <3>6
    <3>10. t <= T /\ b <= B
      BY <3>8, <3>9
    <3> QED
      BY <3>3, <3>10
  <2>10. /\ Score(M) \in Nat /\ Score(N) \in Nat /\ Score(N) >= Score(M)
         /\ Required(N) = Required(M) /\ Required(M) \in Nat
    <3>1. PICK b \in Nat, c \in Nat : b = Boost(M) /\ c = Boost(N) /\ b <= c
      BY <2>8, <2>9
    <3>2. b * n \in Nat /\ c * n \in Nat /\ b * n <= c * n
      BY <2>4, <3>1, MoreOfEach
    <3>3. /\ Score(M) = Total(M) + b * n /\ Score(N) = Total(N) + c * n
          /\ Required(M) = 80 * n /\ Required(N) = 80 * n
      BY <2>6, <3>1 DEF Score, Required, n, AutoPostThreshold
    <3> HIDE DEF n
    <3> QED
      BY <2>4, <2>7, <2>9, <3>2, <3>3
  <2>11. ~HasCritical(M) /\ M # {}
    BY <1>1, <2>1, <2>4 DEF Decisions
  <2>12. ~HasCritical(N) /\ N # {}
    BY <2>2, <2>3, <2>4, <2>11 DEF HasCritical
  <2>13. CASE Score(M) > Required(M)
    <3>1. Score(N) > Required(N)
      BY <2>10, <2>13
    <3> QED
      BY <3>1, <2>12 DEF Decisions, N
  <2>14. CASE Score(M) = Required(M)
    <3>1. M = {e} /\ e.agreement = 1
      BY <1>1, <2>1, <2>4, <2>10, <2>11, <2>14 DEF Decisions
    <3>2. N = {d} /\ n = 1
      BY <2>3, <3>1, FS_Singleton DEF n
    <3>3. CASE d.agreement = 1
      BY <2>10, <2>12, <2>14, <3>2, <3>3 DEF Decisions, N
    <3>4. CASE d.agreement # 1
      <4>1. Boost(N) > Boost(M)
        BY <2>2, <2>8, <3>1, <3>4 DEF AgreementBoost
      <4>2. Score(N) > Score(M)
        BY <2>6, <2>7, <2>8, <2>9, <3>2, <4>1 DEF Score, n
      <4> QED
        BY <2>10, <2>12, <2>14, <4>2 DEF Decisions, N
    <3> QED
      BY <3>3, <3>4
  <2>15. ~(Score(M) < Required(M))
    BY <1>1, <2>1, <2>10, <2>11 DEF Decisions
  <2> QED
    BY <2>10, <2>13, <2>14, <2>15
<1>2. GraphInv => SupportNeverHurts
  <2> SUFFICES ASSUME GraphInv, stage = "end", Decisions(merged, Errors) = {"auto_post"},
                      NEW e \in merged, NEW a \in Agents, NEW c \in Confidences
               PROVE  LET echo == [agent |-> a, at |-> e.finding.at,
                                   severity |-> e.finding.severity, confidence |-> c]
                          more == Append(Joined, [error |-> FALSE, findings |-> <<echo>>])
                      IN  Decisions(Merge(more), Errors) = {"auto_post"}
    BY DEF SupportNeverHurts
  <2> DEFINE echo == [agent |-> a, at |-> e.finding.at,
                      severity |-> e.finding.severity, confidence |-> c]
  <2>1. EchoOf(echo, e)
    BY OrchestratorAssumption DEF EchoOf
  <2> HIDE DEF echo
  <2>2. Decisions(Merge(With(echo)), Errors) = {"auto_post"}
    BY <2>1, <1>1
  <2> QED
    BY <2>2 DEF With, echo
<1> QED
  BY <1>2, GraphInvariant, PTL
-----------------------------------------------------------------------------
(* Hybrid retrieval. *)

\* The least of two numbers.
LEMMA MinOfTwo ==
    ASSUME NEW m \in Int, NEW n \in Int
    PROVE  Min({m, n}) = IF m <= n THEN m ELSE n
<1> DEFINE least == IF m <= n THEN m ELSE n
<1>1. least \in {m, n} /\ \A y \in {m, n} : least <= y
  OBVIOUS
<1>2. \A x \in {m, n} : (\A y \in {m, n} : x <= y) => x = least
  OBVIOUS
<1> HIDE DEF least
<1>3. Min({m, n}) \in {m, n} /\ \A y \in {m, n} : Min({m, n}) <= y
  BY <1>1 DEF Min
<1>4. Min({m, n}) = least
  BY <1>2, <1>3
<1> QED
  BY <1>4 DEF least

\* In a finite total order, given by what is ahead of each member, every place is taken
\* by exactly one member.
LEMMA Placing ==
    ASSUME NEW S, IsFiniteSet(S), NEW pred \in [S -> SUBSET S],
           \A x \in S : x \notin pred[x],
           \A x, y \in S : x \in pred[y] => pred[x] \subseteq pred[y],
           \A x, y \in S : x # y => x \in pred[y] \/ y \in pred[x]
    PROVE  /\ \A x \in S : Cardinality(pred[x]) \in 0..(Cardinality(S) - 1)
           /\ \A x, y \in S : x \in pred[y] => Cardinality(pred[x]) < Cardinality(pred[y])
           /\ \A x, y \in S : Cardinality(pred[x]) = Cardinality(pred[y]) => x = y
           /\ \A n \in 0..(Cardinality(S) - 1) : \E x \in S : Cardinality(pred[x]) = n
<1>1. \A T \in SUBSET S : IsFiniteSet(T) /\ Cardinality(T) \in Nat
  BY FS_Subset, FS_CardinalityType
<1>2. \A T \in SUBSET S : \A U \in SUBSET T : U # T => Cardinality(U) < Cardinality(T)
  <2> SUFFICES ASSUME NEW T \in SUBSET S, NEW U \in SUBSET T, U # T
               PROVE  Cardinality(U) < Cardinality(T)
    OBVIOUS
  <2>1. IsFiniteSet(T) /\ Cardinality(T) \in Nat /\ Cardinality(U) \in Nat
    BY <1>1
  <2>2. Cardinality(U) <= Cardinality(T) /\ (Cardinality(T) = Cardinality(U) => T = U)
    BY <2>1, FS_Subset
  <2> QED
    BY <2>1, <2>2
<1>3. \A x \in S : Cardinality(pred[x]) \in 0..(Cardinality(S) - 1)
  <2> SUFFICES ASSUME NEW x \in S PROVE Cardinality(pred[x]) \in 0..(Cardinality(S) - 1)
    OBVIOUS
  <2>1. pred[x] \in SUBSET S /\ pred[x] # S /\ S \in SUBSET S
    OBVIOUS
  <2>2. Cardinality(pred[x]) < Cardinality(S)
    BY <1>2, <2>1
  <2> QED
    BY <1>1, <2>1, <2>2
<1>4. \A x, y \in S : x \in pred[y] => Cardinality(pred[x]) < Cardinality(pred[y])
  <2> SUFFICES ASSUME NEW x \in S, NEW y \in S, x \in pred[y]
               PROVE  Cardinality(pred[x]) < Cardinality(pred[y])
    OBVIOUS
  <2>1. pred[y] \in SUBSET S /\ pred[x] \in SUBSET pred[y] /\ pred[x] # pred[y]
    OBVIOUS
  <2> QED
    BY <1>2, <2>1
<1>5. \A x, y \in S : Cardinality(pred[x]) = Cardinality(pred[y]) => x = y
  BY <1>3, <1>4
<1> DEFINE f == [x \in S |-> Cardinality(pred[x])]
           places == 0..(Cardinality(S) - 1)
<1>6. \A n \in 0..(Cardinality(S) - 1) : \E x \in S : Cardinality(pred[x]) = n
  <2>1. Cardinality(S) \in Nat
    BY <1>1
  <2>2. f \in Injection(S, places)
    BY <1>3, <1>5 DEF Injection, IsInjective
  <2>3. IsFiniteSet(places) /\ Cardinality(places) = Cardinality(S)
    BY <2>1, FS_Interval
  <2>4. f \in Surjection(S, places)
    BY <2>2, <2>3, FS_Injection
  <2> QED
    BY <2>4 DEF Surjection
<1> QED
  BY <1>3, <1>4, <1>5, <1>6

-----------------------------------------------------------------------------
(* Scores. *)

\* Fractions with positive denominators are ordered.
IsScore(x) == x \in (Nat \ {0}) \X (Nat \ {0})

\* At least as much is transitive.
LEMMA NotExceededChain ==
    ASSUME NEW x, NEW y, NEW z, IsScore(x), IsScore(y), IsScore(z),
           ~Exceeds(y, x), ~Exceeds(z, y)
    PROVE  ~Exceeds(z, x) /\ (Exceeds(x, y) \/ Exceeds(y, z) => Exceeds(x, z))
<1>1. PICK a \in Nat \ {0}, b \in Nat \ {0}, c \in Nat \ {0}, d \in Nat \ {0},
           e \in Nat \ {0}, g \in Nat \ {0} : x = <<a, b>> /\ y = <<c, d>> /\ z = <<e, g>>
  BY DEF IsScore
<1>2. c * b <= a * d /\ e * d <= c * g
  BY <1>1 DEF Exceeds
<1>3. (c * b) * g <= (a * d) * g /\ (e * d) * b <= (c * g) * b
  BY <1>2
<1>4. (c * b) * g = (c * g) * b /\ (a * d) * g = (a * g) * d /\ (e * d) * b = (e * b) * d
  OBVIOUS
<1>5. (e * b) * d <= (a * g) * d
  BY <1>3, <1>4
<1>6. e * b <= a * g
  BY <1>5
<1>7. ASSUME a * d > c * b \/ c * g > e * d PROVE a * g > e * b
  <2>1. (a * d) * g > (c * b) * g \/ (c * g) * b > (e * d) * b
    BY <1>7
  <2>2. (a * g) * d > (e * b) * d
    BY <1>3, <1>4, <2>1
  <2> QED
    BY <2>2
<1> QED
  BY <1>1, <1>6, <1>7 DEF Exceeds

\* What exceeds is not exceeded.
LEMMA ExceedsIsStrict ==
    ASSUME NEW x, NEW y, IsScore(x), IsScore(y), Exceeds(x, y)
    PROVE  ~Exceeds(y, x)
<1>1. PICK a \in Nat \ {0}, b \in Nat \ {0}, c \in Nat \ {0}, d \in Nat \ {0} :
          x = <<a, b>> /\ y = <<c, d>>
  BY DEF IsScore
<1>2. a * d \in Nat /\ c * b \in Nat
  OBVIOUS
<1> QED
  BY <1>1, <1>2 DEF Exceeds

\* A lane as a statement returns it: no row twice, and at most top_k of them.
IsLane(l) == IsInjective(l) /\ \E n \in 0..TopK : l \in [1..n -> ToSet(l)]

\* Ranks count the rows of a lane.
LEMMA Ranks ==
    ASSUME NEW l, IsLane(l)
    PROVE  /\ \A i \in DOMAIN l : l[i] \in ToSet(l) /\ Rank(l, l[i]) = i - 1
           /\ \A x \in ToSet(l) : /\ Rank(l, x) \in 0..(TopK - 1)
                                  /\ Rank(l, x) + 1 \in DOMAIN l /\ l[Rank(l, x) + 1] = x
           /\ \A x, y \in ToSet(l) : Rank(l, x) = Rank(l, y) => x = y
<1>1. DOMAIN l \subseteq 1..TopK
  BY RetrievalAssumption DEF IsLane
<1>2. \A i \in DOMAIN l : l[i] \in ToSet(l) /\ Rank(l, l[i]) = i - 1
  <2> SUFFICES ASSUME NEW i \in DOMAIN l PROVE l[i] \in ToSet(l) /\ Rank(l, l[i]) = i - 1
    OBVIOUS
  <2>1. \A j \in DOMAIN l : l[j] = l[i] => j = i
    BY DEF IsLane, IsInjective
  <2>2. (CHOOSE j \in DOMAIN l : l[j] = l[i]) = i
    BY <2>1
  <2> QED
    BY <2>2 DEF Rank, ToSet
<1>3. \A x \in ToSet(l) : \E i \in DOMAIN l : x = l[i]
  BY DEF ToSet
<1>4. \A x \in ToSet(l) : /\ Rank(l, x) \in 0..(TopK - 1)
                          /\ Rank(l, x) + 1 \in DOMAIN l /\ l[Rank(l, x) + 1] = x
  <2> SUFFICES ASSUME NEW x \in ToSet(l)
               PROVE  /\ Rank(l, x) \in 0..(TopK - 1)
                      /\ Rank(l, x) + 1 \in DOMAIN l /\ l[Rank(l, x) + 1] = x
    OBVIOUS
  <2>1. PICK i \in DOMAIN l : x = l[i]
    BY <1>3
  <2>2. Rank(l, x) = i - 1 /\ i \in 1..TopK /\ TopK \in Nat
    BY <1>1, <1>2, <2>1, RetrievalAssumption
  <2> QED
    BY <2>1, <2>2
<1> QED
  BY <1>2, <1>4

Both(v, f) == ToSet(v) \cap ToSet(f)

\* The rank of what one lane found.
RankOf(x, v, f) == IF x \in ToSet(v) THEN Rank(v, x) ELSE Rank(f, x)

\* A lane that is not empty begins with its best.
LEMMA LaneBegins ==
    ASSUME NEW l, IsLane(l), l # <<>>
    PROVE  l[1] \in ToSet(l) /\ Rank(l, l[1]) = 0
<1>1. PICK n \in 0..TopK : l \in [1..n -> ToSet(l)]
  BY DEF IsLane
<1>2. n # 0
  <2> SUFFICES ASSUME n = 0 PROVE FALSE
    OBVIOUS
  <2>1. l \in [{} -> ToSet(l)] /\ <<>> \in [{} -> ToSet(l)]
    BY <1>1
  <2>2. \A S : \A f, g \in [{} -> S] : f = g
    OBVIOUS
  <2> QED
    BY <2>1, <2>2
<1>3. 1 \in DOMAIN l
  BY <1>1, <1>2, RetrievalAssumption
<1> QED
  BY <1>3, Ranks

\* Two lanes' word weighs more than one lane's, and one lane's by rank alone: this is
\* where top_k must not exceed the constant of the fusion.
LEMMA Scores ==
    ASSUME NEW v, NEW f, IsLane(v), IsLane(f)
    PROVE  /\ \A x \in Found(v, f) : IsScore(Fused(x, v, f))
           /\ \A x \in Both(v, f), y \in Found(v, f) \ Both(v, f) :
                  Exceeds(Fused(x, v, f), Fused(y, v, f))
           /\ \A x, y \in Found(v, f) \ Both(v, f) :
                  Exceeds(Fused(x, v, f), Fused(y, v, f)) <=> RankOf(x, v, f) < RankOf(y, v, f)
<1>1. RrfK \in Nat \ {0} /\ TopK \in Nat \ {0} /\ TopK <= RrfK
  BY RetrievalAssumption
<1>2. \A x \in ToSet(v) : Rank(v, x) \in 0..(TopK - 1)
  BY Ranks
<1>3. \A x \in ToSet(f) : Rank(f, x) \in 0..(TopK - 1)
  BY Ranks
<1>4. \A x \in Found(v, f) \ Both(v, f) :
          /\ RankOf(x, v, f) \in 0..(TopK - 1)
          /\ Fused(x, v, f) = <<1, RrfK + RankOf(x, v, f)>>
  BY <1>2, <1>3 DEF Found, Both, RankOf, Fused, Lane
<1>5. \A x \in Both(v, f) : \E p, q \in 0..(TopK - 1) :
          Fused(x, v, f) = <<(RrfK + q) + (RrfK + p), (RrfK + p) * (RrfK + q)>>
  <2> SUFFICES ASSUME NEW x \in Both(v, f)
               PROVE  \E p, q \in 0..(TopK - 1) :
                   Fused(x, v, f) = <<(RrfK + q) + (RrfK + p), (RrfK + p) * (RrfK + q)>>
    OBVIOUS
  <2>1. PICK p \in 0..(TopK - 1), q \in 0..(TopK - 1) : p = Rank(v, x) /\ q = Rank(f, x)
    BY <1>2, <1>3 DEF Both
  <2>2. Fused(x, v, f) = <<1 * (RrfK + q) + 1 * (RrfK + p), (RrfK + p) * (RrfK + q)>>
    BY <2>1 DEF Both, Fused, Plus, Lane
  <2>3. 1 * (RrfK + q) = RrfK + q /\ 1 * (RrfK + p) = RrfK + p
    BY <1>1
  <2> QED
    BY <2>2, <2>3
<1>6. \A x \in Found(v, f) : IsScore(Fused(x, v, f))
  <2>1. ASSUME NEW x \in Both(v, f) PROVE IsScore(Fused(x, v, f))
    <3>1. PICK p \in 0..(TopK - 1), q \in 0..(TopK - 1) :
              Fused(x, v, f) = <<(RrfK + q) + (RrfK + p), (RrfK + p) * (RrfK + q)>>
      BY <1>5
    <3>2. \A m, n \in Nat \ {0} : m * n \in Nat \ {0}
      OBVIOUS
    <3>3. RrfK + p \in Nat \ {0} /\ RrfK + q \in Nat \ {0} /\ (RrfK + q) + (RrfK + p) \in Nat \ {0}
      BY <1>1
    <3>4. (RrfK + p) * (RrfK + q) \in Nat \ {0}
      BY <3>2, <3>3
    <3> QED
      BY <3>1, <3>3, <3>4 DEF IsScore
  <2>2. ASSUME NEW x \in Found(v, f) \ Both(v, f) PROVE IsScore(Fused(x, v, f))
    BY <1>1, <1>4 DEF IsScore
  <2> QED
    BY <2>1, <2>2 DEF Found, Both
<1>7. ASSUME NEW x \in Both(v, f), NEW y \in Found(v, f) \ Both(v, f)
      PROVE  Exceeds(Fused(x, v, f), Fused(y, v, f))
  <2>1. PICK p \in 0..(TopK - 1), q \in 0..(TopK - 1) :
            Fused(x, v, f) = <<(RrfK + q) + (RrfK + p), (RrfK + p) * (RrfK + q)>>
    BY <1>5
  <2>2. PICK r \in 0..(TopK - 1) : Fused(y, v, f) = <<1, RrfK + r>>
    BY <1>4
  <2>3. /\ p \in Nat /\ q \in Nat /\ r \in Nat /\ p < RrfK /\ q < RrfK
        /\ RrfK * RrfK \in Nat /\ RrfK * p \in Nat /\ RrfK * q \in Nat /\ p * q \in Nat
    BY <1>1
  <2>4. p * q < RrfK * RrfK
    <3>1. p * q <= p * RrfK /\ p * RrfK < RrfK * RrfK
      BY <1>1, <2>3
    <3> QED
      BY <1>1, <2>3, <3>1
  <2>5. (RrfK + p) * (RrfK + q) = RrfK * RrfK + RrfK * p + RrfK * q + p * q
    BY <1>1, <2>3
  <2>6. ((RrfK + q) + (RrfK + p)) * RrfK = RrfK * RrfK + RrfK * RrfK + RrfK * p + RrfK * q
    BY <1>1, <2>3
  <2>7. ((RrfK + q) + (RrfK + p)) * (RrfK + r) >= ((RrfK + q) + (RrfK + p)) * RrfK
    BY <1>1, <2>3
  <2>8. ((RrfK + q) + (RrfK + p)) * (RrfK + r) > 1 * ((RrfK + p) * (RrfK + q))
    BY <1>1, <2>3, <2>4, <2>5, <2>6, <2>7
  <2> QED
    BY <2>1, <2>2, <2>8 DEF Exceeds
<1>8. ASSUME NEW x \in Found(v, f) \ Both(v, f), NEW y \in Found(v, f) \ Both(v, f)
      PROVE  Exceeds(Fused(x, v, f), Fused(y, v, f)) <=> RankOf(x, v, f) < RankOf(y, v, f)
  BY <1>1, <1>4 DEF Exceeds
<1> QED
  BY <1>6, <1>7, <1>8

\* The order of insertion is a total order of what was found.
LEMMA InsertionOrder ==
    ASSUME NEW v, NEW f, IsLane(v), IsLane(f)
    PROVE  /\ \A x \in Found(v, f) : ~Inserted(x, x, v, f)
           /\ \A x, y \in Found(v, f) : x # y => Inserted(x, y, v, f) \/ Inserted(y, x, v, f)
           /\ \A x, y, z \in Found(v, f) :
                  Inserted(x, y, v, f) /\ Inserted(y, z, v, f) => Inserted(x, z, v, f)
<1>1. \A x \in ToSet(v) : Rank(v, x) \in Int
  BY Ranks
<1>2. \A x \in ToSet(f) : Rank(f, x) \in Int
  BY Ranks
<1>3. \A x, y \in ToSet(v) : Rank(v, x) = Rank(v, y) => x = y
  BY Ranks
<1>4. \A x, y \in ToSet(f) : Rank(f, x) = Rank(f, y) => x = y
  BY Ranks
<1> QED
  BY <1>1, <1>2, <1>3, <1>4 DEF Found, Inserted

\* What is ahead of each result makes a total order of them.
LEMMA SortedIsOrder ==
    ASSUME NEW v, NEW f, IsLane(v), IsLane(f)
    PROVE  /\ \A x \in Found(v, f) : x \notin Ahead(x, v, f)
           /\ \A x, y \in Found(v, f) : x \in Ahead(y, v, f) => Ahead(x, v, f) \subseteq Ahead(y, v, f)
           /\ \A x, y \in Found(v, f) : x # y => x \in Ahead(y, v, f) \/ y \in Ahead(x, v, f)
<1> DEFINE more(x, y) == Exceeds(Fused(x, v, f), Fused(y, v, f))
           before(x, y) == Inserted(x, y, v, f)
<1>1. \A x, y \in Found(v, f) : more(x, y) => ~more(y, x)
  BY Scores, ExceedsIsStrict
<1>2. \A x, y, z \in Found(v, f) :
          ~more(y, x) /\ ~more(z, y) =>
              ~more(z, x) /\ (more(x, y) \/ more(y, z) => more(x, z))
  BY Scores, NotExceededChain
<1>3. /\ \A x \in Found(v, f) : ~before(x, x)
      /\ \A x, y \in Found(v, f) : x # y => before(x, y) \/ before(y, x)
      /\ \A x, y, z \in Found(v, f) : before(x, y) /\ before(y, z) => before(x, z)
  BY InsertionOrder
<1>4. \A x, y \in Found(v, f) :
          x \in Ahead(y, v, f) <=> more(x, y) \/ (~more(y, x) /\ before(x, y))
  BY DEF Ahead, Sorted
<1>5. \A x \in Found(v, f) : Ahead(x, v, f) \subseteq Found(v, f)
  BY DEF Ahead
<1> HIDE DEF more, before
<1>6. \A x \in Found(v, f) : x \notin Ahead(x, v, f)
  BY <1>1, <1>3, <1>4
<1>7. \A x, y \in Found(v, f) : x # y => x \in Ahead(y, v, f) \/ y \in Ahead(x, v, f)
  BY <1>3, <1>4
<1>8. ASSUME NEW x \in Found(v, f), NEW y \in Found(v, f), x \in Ahead(y, v, f),
             NEW z \in Ahead(x, v, f)
      PROVE  z \in Ahead(y, v, f)
  <2>1. z \in Found(v, f)
    BY <1>5, <1>8
  <2>2. ~more(y, x) /\ ~more(x, z)
    BY <1>1, <1>4, <1>8, <2>1
  <2>3. ~more(y, z) /\ (more(z, x) \/ more(x, y) => more(z, y))
    BY <1>2, <2>1, <2>2
  <2>4. CASE more(z, x) \/ more(x, y)
    BY <1>4, <2>1, <2>3, <2>4
  <2>5. CASE ~more(z, x) /\ ~more(x, y)
    <3>1. before(z, x) /\ before(x, y)
      BY <1>4, <1>8, <2>1, <2>5
    <3> QED
      BY <1>3, <1>4, <2>1, <2>3, <3>1
  <2> QED
    BY <2>4, <2>5
<1> QED
  BY <1>6, <1>7, <1>8

\* A lane is finite.
LEMMA LaneIsFinite ==
    ASSUME NEW l, IsLane(l)
    PROVE  /\ IsFiniteSet(ToSet(l)) /\ Cardinality(ToSet(l)) <= TopK
           /\ Cardinality(ToSet(l)) \in Nat
<1>1. PICK n \in 0..TopK : DOMAIN l = 1..n
  BY DEF IsLane
<1>2. IsFiniteSet(1..n) /\ Cardinality(1..n) = n
  BY <1>1, RetrievalAssumption, FS_Interval
<1> DEFINE index == [i \in 1..n |-> l[i]]
<1>3. index \in Surjection(1..n, ToSet(l))
  BY <1>1 DEF Surjection, ToSet
<1>4. IsFiniteSet(ToSet(l)) /\ Cardinality(ToSet(l)) <= n
  BY <1>2, <1>3, FS_Surjection
<1> QED
  BY <1>4, FS_CardinalityType, RetrievalAssumption

\* The n-th result is the one with n - 1 ahead of it, and nobody with fewer than top_k
\* ahead of it is left out.
LEMMA ResultsInOrder ==
    ASSUME NEW v, NEW f, IsLane(v), IsLane(f), NEW h, h = FuseLanes(v, f)
    PROVE  /\ Len(h) \in 0..TopK /\ DOMAIN h = 1..Len(h)
           /\ Len(h) = TopK \/ Len(h) = Cardinality(Found(v, f))
           /\ \A n \in DOMAIN h : h[n] \in Found(v, f) /\ Cardinality(Ahead(h[n], v, f)) = n - 1
           /\ \A x \in Found(v, f) :
                  /\ Cardinality(Ahead(x, v, f)) \in 0..(Cardinality(Found(v, f)) - 1)
                  /\ Cardinality(Ahead(x, v, f)) < TopK =>
                         /\ Cardinality(Ahead(x, v, f)) + 1 \in DOMAIN h
                         /\ h[Cardinality(Ahead(x, v, f)) + 1] = x
           /\ \A x, y \in Found(v, f) : x \in Ahead(y, v, f) =>
                  Cardinality(Ahead(x, v, f)) < Cardinality(Ahead(y, v, f))
<1> DEFINE S == Found(v, f)
           pred == [x \in S |-> Ahead(x, v, f)]
           N == IF TopK <= Cardinality(S) THEN TopK ELSE Cardinality(S)
<1>1. IsFiniteSet(S) /\ Cardinality(S) \in Nat
  BY LaneIsFinite, FS_Union, FS_CardinalityType DEF Found
<1>2. pred \in [S -> SUBSET S]
  BY DEF Ahead
<1>3. /\ \A x \in S : x \notin pred[x]
      /\ \A x, y \in S : x \in pred[y] => pred[x] \subseteq pred[y]
      /\ \A x, y \in S : x # y => x \in pred[y] \/ y \in pred[x]
  BY SortedIsOrder
<1> HIDE DEF pred, S
<1>4. /\ \A x \in S : Cardinality(pred[x]) \in 0..(Cardinality(S) - 1)
      /\ \A x, y \in S : x \in pred[y] => Cardinality(pred[x]) < Cardinality(pred[y])
      /\ \A x, y \in S : Cardinality(pred[x]) = Cardinality(pred[y]) => x = y
      /\ \A n \in 0..(Cardinality(S) - 1) : \E x \in S : Cardinality(pred[x]) = n
  BY <1>1, <1>2, <1>3, Placing
<1>5. \A x \in S : pred[x] = Ahead(x, v, f)
  BY DEF pred
<1>6. N \in Nat /\ N <= TopK /\ N <= Cardinality(S) /\ TopK \in Nat
  BY <1>1, RetrievalAssumption
<1>7. h = [n \in 1..N |-> CHOOSE x \in S : Cardinality(Ahead(x, v, f)) = n - 1]
  <2>1. Min({TopK, Cardinality(S)}) = N
    BY <1>1, <1>6, MinOfTwo
  <2> QED
    BY <2>1 DEF FuseLanes, S
<1> HIDE DEF N
<1>8. DOMAIN h = 1..N /\ Len(h) = N
  BY <1>6, <1>7
<1>9. \A n \in 1..N : h[n] \in S /\ Cardinality(Ahead(h[n], v, f)) = n - 1
  <2> SUFFICES ASSUME NEW n \in 1..N
               PROVE  h[n] \in S /\ Cardinality(Ahead(h[n], v, f)) = n - 1
    OBVIOUS
  <2>1. n - 1 \in 0..(Cardinality(S) - 1)
    BY <1>1, <1>6
  <2>2. \E x \in S : Cardinality(Ahead(x, v, f)) = n - 1
    BY <1>4, <1>5, <2>1
  <2>3. h[n] = CHOOSE x \in S : Cardinality(Ahead(x, v, f)) = n - 1
    BY <1>7
  <2> QED
    BY <2>2, <2>3
<1>10. ASSUME NEW x \in S, Cardinality(pred[x]) < TopK
       PROVE  Cardinality(pred[x]) + 1 \in 1..N /\ h[Cardinality(pred[x]) + 1] = x
  <2>1. Cardinality(pred[x]) + 1 \in 1..N
    BY <1>1, <1>4, <1>6, <1>10 DEF N
  <2>2. /\ h[Cardinality(pred[x]) + 1] \in S
        /\ Cardinality(pred[h[Cardinality(pred[x]) + 1]]) = (Cardinality(pred[x]) + 1) - 1
    BY <1>5, <1>9, <2>1
  <2>3. (Cardinality(pred[x]) + 1) - 1 = Cardinality(pred[x])
    BY <1>1, <1>4
  <2> DEFINE y == h[Cardinality(pred[x]) + 1]
  <2>4. y \in S /\ Cardinality(pred[y]) = Cardinality(pred[x])
    BY <2>2, <2>3
  <2> HIDE DEF y
  <2>5. y = x
    BY <1>4, <2>4
  <2> QED
    BY <2>1, <2>5 DEF y
<1>11. Len(h) \in 0..TopK /\ (Len(h) = TopK \/ Len(h) = Cardinality(S))
  BY <1>6, <1>8 DEF N
<1>12. ASSUME NEW x \in S
       PROVE  /\ Cardinality(Ahead(x, v, f)) \in 0..(Cardinality(S) - 1)
              /\ Cardinality(Ahead(x, v, f)) < TopK =>
                     /\ Cardinality(Ahead(x, v, f)) + 1 \in DOMAIN h
                     /\ h[Cardinality(Ahead(x, v, f)) + 1] = x
  <2>1. pred[x] = Ahead(x, v, f)
    BY <1>5
  <2> QED
    BY <2>1, <1>4, <1>8, <1>10
<1>13. \A x, y \in S : x \in Ahead(y, v, f) =>
           Cardinality(Ahead(x, v, f)) < Cardinality(Ahead(y, v, f))
  BY <1>4, <1>5
<1> QED
  BY <1>8, <1>9, <1>11, <1>12, <1>13 DEF S

\* Who is ahead of whom, between one lane and two.
LEMMA WhoIsAhead ==
    ASSUME NEW v, NEW f, IsLane(v), IsLane(f), NEW x \in Found(v, f), NEW y \in Ahead(x, v, f)
    PROVE  /\ y \in Found(v, f) /\ y # x
           /\ x \in Both(v, f) => y \in Both(v, f)
           /\ y \in Both(v, f) \/ RankOf(y, v, f) <= RankOf(x, v, f)
           /\ x \in ToSet(v) => y \in Both(v, f) \/ RankOf(y, v, f) < RankOf(x, v, f)
           /\ y \notin ToSet(v) /\ x \notin ToSet(v) => RankOf(y, v, f) < RankOf(x, v, f)
<1>1. y \in Found(v, f) /\ y # x /\ Sorted(y, x, v, f)
  BY SortedIsOrder DEF Ahead
<1>2. x \in Both(v, f) => y \in Both(v, f)
  <2> SUFFICES ASSUME x \in Both(v, f), y \notin Both(v, f) PROVE FALSE
    OBVIOUS
  <2>1. Exceeds(Fused(x, v, f), Fused(y, v, f)) /\ ~Exceeds(Fused(y, v, f), Fused(x, v, f))
    BY <1>1, Scores, ExceedsIsStrict
  <2> QED
    BY <1>1, <2>1 DEF Sorted
<1>3. ASSUME y \notin Both(v, f)
      PROVE  /\ RankOf(y, v, f) <= RankOf(x, v, f)
             /\ x \in ToSet(v) => RankOf(y, v, f) < RankOf(x, v, f)
             /\ y \notin ToSet(v) /\ x \notin ToSet(v) => RankOf(y, v, f) < RankOf(x, v, f)
  <2>1. x \notin Both(v, f)
    BY <1>2, <1>3
  <2>2. /\ Exceeds(Fused(y, v, f), Fused(x, v, f)) <=> RankOf(y, v, f) < RankOf(x, v, f)
        /\ Exceeds(Fused(x, v, f), Fused(y, v, f)) <=> RankOf(x, v, f) < RankOf(y, v, f)
    BY <1>1, <1>3, <2>1, Scores
  <2>3. RankOf(x, v, f) \in Int /\ RankOf(y, v, f) \in Int
    BY <1>1, Ranks DEF Found, RankOf
  <2> QED
    BY <1>1, <2>2, <2>3 DEF Sorted, Inserted, RankOf
<1> QED
  BY <1>1, <1>2, <1>3 DEF Both

-----------------------------------------------------------------------------
(* The query and the ingestion. *)

\* The table of chunks: ids are never used twice, and a place has one row at most.
TableOK ==
    /\ nextId \in 1..(MaxId + 1)
    /\ \A r \in rows : r.id \in 1..(nextId - 1)
    /\ \A r, q \in rows : r.id = q.id \/ r.place = q.place => r = q

\* What the lanes have read, and what has become of it: rows of the same place that a
\* query has seen, or may still see, differ only if the place was rewritten meanwhile.
ReadingsOK ==
    /\ ToSet(vec) \cup ToSet(fts) \subseteq DOMAIN placeOf
    /\ \A x \in DOMAIN placeOf : x \in 1..(nextId - 1)
    /\ \A x, y \in DOMAIN placeOf : x # y /\ placeOf[x] = placeOf[y] => placeOf[x] \in rewritten
    /\ phase = "fts" =>
           \A r \in rows, x \in DOMAIN placeOf :
               /\ r.id = x => r.place = placeOf[x]
               /\ r.id # x /\ r.place = placeOf[x] => placeOf[x] \in rewritten

SearchInv ==
    /\ phase \in {"idle", "vector", "fts", "fuse", "done"}
    /\ IsLane(vec) /\ IsLane(fts)
    /\ phase \in {"idle", "vector"} => placeOf = <<>>
    /\ phase = "idle" => rows = {}
    /\ TableOK /\ ReadingsOK
    /\ IF phase = "done" THEN hits = FuseLanes(vec, fts) ELSE hits = <<>>

\* A lane as it is read from the table.
LEMMA OrderIsLane ==
    ASSUME TableOK, NEW order \in Orders(Ids, TopK)
    PROVE  IsLane(order) /\ ToSet(order) \subseteq Ids
<1>1. nextId - 1 \in Int /\ Ids \subseteq 1..(nextId - 1)
  BY RetrievalAssumption DEF TableOK, Ids
<1>2. Cardinality(Ids) \in Int
  <2>1. IsFiniteSet(1..(nextId - 1))
    BY <1>1, FS_Interval
  <2>2. IsFiniteSet(Ids)
    BY <1>1, <2>1, FS_Subset
  <2> QED
    BY <2>2, FS_CardinalityType
<1>3. Min({TopK, Cardinality(Ids)}) \in Int /\ Min({TopK, Cardinality(Ids)}) <= TopK
  BY <1>2, MinOfTwo, RetrievalAssumption
<1>4. PICK m \in 0..Min({TopK, Cardinality(Ids)}) : order \in [1..m -> Ids] /\ IsInjective(order)
  BY DEF Orders
<1>5. m \in 0..TopK /\ DOMAIN order = 1..m
  BY <1>3, <1>4, RetrievalAssumption
<1> QED
  BY <1>4, <1>5 DEF IsLane, ToSet

\* The places of the rows a statement sees, and of those seen before.
LEMMA ReadIs ==
    ASSUME TableOK
    PROVE  /\ DOMAIN Read = DOMAIN placeOf \cup Ids
           /\ \A r \in rows : r.id \in Ids /\ Read[r.id] = r.place
           /\ \A x \in Ids : \E r \in rows : r.id = x
           /\ \A x \in DOMAIN placeOf : x \in Ids \/ Read[x] = placeOf[x]
<1>1. \A r \in rows : r.id \in Ids /\ PlaceOf(r.id) = r.place
  <2> SUFFICES ASSUME NEW r \in rows PROVE r.id \in Ids /\ PlaceOf(r.id) = r.place
    OBVIOUS
  <2>1. \A q \in rows : q.id = r.id => q = r
    BY DEF TableOK
  <2>2. (CHOOSE q \in rows : q.id = r.id) = r
    BY <2>1
  <2> QED
    BY <2>2 DEF PlaceOf, Ids
<1> QED
  BY <1>1 DEF Read, Ids

\* Every step of the query and of the ingestion.
LEMMA SearchStep == ASSUME SearchInv, [SearchNext]_searchVars PROVE SearchInv'
<1> USE DEF SearchInv
<1>1. /\ nextId \in 1..(MaxId + 1) /\ MaxId \in Nat
      /\ \A r \in rows : r.id \in 1..(nextId - 1)
  BY RetrievalAssumption DEF TableOK
<1>2. ASSUME NEW indexed \in SUBSET Spots, Ask(indexed) PROVE SearchInv'
  <2> DEFINE order == SetToSeq(indexed)
             size == Cardinality(indexed)
  <2>1. IsFiniteSet(indexed) /\ size \in Nat /\ size <= MaxId /\ ExistsBijection(1..size, indexed)
    <3>1. IsFiniteSet(indexed) /\ size <= Cardinality(Spots)
      BY RetrievalAssumption, FS_Subset
    <3>2. Cardinality(Spots) \in Nat /\ size \in Nat /\ ExistsBijection(1..size, indexed)
      BY <3>1, RetrievalAssumption, FS_CardinalityType
    <3> QED
      BY <3>1, <3>2, RetrievalAssumption
  <2>2. \E s \in [1..size -> indexed] : IsInjective(s)
    BY <2>1 DEF ExistsBijection, Bijection, Injection, IsInjective
  <2>3. order \in [1..size -> indexed] /\ IsInjective(order)
    BY <2>2 DEF SetToSeq
  <2> HIDE DEF order, size
  <2>4. /\ rows' = {[id |-> i, place |-> order[i]] : i \in 1..size}
        /\ nextId' = size + 1 /\ phase' = "vector"
        /\ UNCHANGED <<vec, fts, placeOf, hits, rewritten>> /\ phase = "idle"
    BY <1>2, <2>3 DEF Ask, order, size
  <2>5. TableOK'
    <3>1. nextId' \in 1..(MaxId + 1) /\ nextId' - 1 = size
      BY <1>1, <2>1, <2>4
    <3>2. \A r \in rows' : r.id \in 1..size /\ r.place = order[r.id] /\ r = [id |-> r.id, place |-> r.place]
      BY <2>4
    <3>3. \A i, j \in 1..size : order[i] = order[j] => i = j
      BY <2>3 DEF IsInjective
    <3>4. \A r, q \in rows' : r.id = q.id \/ r.place = q.place => r = q
      BY <3>2, <3>3
    <3> QED
      BY <3>1, <3>2, <3>4 DEF TableOK
  <2>6. ReadingsOK'
    BY <2>4 DEF ReadingsOK
  <2> QED
    BY <2>4, <2>5, <2>6 DEF IsLane
<1>3. ASSUME NEW order \in Orders(Ids, TopK), VectorLane(order) PROVE SearchInv'
  <2>1. /\ phase = "vector" /\ phase' = "fts" /\ vec' = order /\ placeOf' = Read
        /\ UNCHANGED <<rows, nextId, fts, hits, rewritten>>
    BY <1>3 DEF VectorLane
  <2>2. IsLane(order) /\ ToSet(order) \subseteq Ids
    BY OrderIsLane
  <2>3. DOMAIN placeOf = {} /\ ToSet(fts) = {}
    BY <2>1 DEF ReadingsOK
  <2>4. DOMAIN placeOf' = Ids /\ \A r \in rows : placeOf'[r.id] = r.place
    BY <2>1, <2>3, ReadIs
  <2>5. \A x \in Ids : \E r \in rows : r.id = x
    BY ReadIs
  <2>6. TableOK'
    BY <2>1 DEF TableOK
  <2>7. ReadingsOK'
    <3>1. (ToSet(vec) \cup ToSet(fts))' \subseteq DOMAIN placeOf'
      BY <2>1, <2>2, <2>3, <2>4 DEF ToSet
    <3>2. \A x \in DOMAIN placeOf' : x \in 1..(nextId' - 1)
      BY <1>1, <2>1, <2>4, <2>5
    <3>3. \A x, y \in DOMAIN placeOf' : x # y => placeOf'[x] # placeOf'[y]
      BY <2>4, <2>5 DEF TableOK
    <3>4. \A r \in rows', x \in DOMAIN placeOf' :
              (r.id = x => r.place = placeOf'[x]) /\ (r.id # x => r.place # placeOf'[x])
      BY <2>1, <2>4, <2>5 DEF TableOK
    <3> QED
      BY <3>1, <3>2, <3>3, <3>4 DEF ReadingsOK
  <2> QED
    BY <2>1, <2>2, <2>6, <2>7 DEF IsLane
<1>4. ASSUME NEW order \in Orders(Ids, TopK), FtsLane(order) PROVE SearchInv'
  <2>1. /\ phase = "fts" /\ phase' = "fuse" /\ fts' = order /\ placeOf' = Read
        /\ UNCHANGED <<rows, nextId, vec, hits, rewritten>>
    BY <1>4 DEF FtsLane
  <2>2. IsLane(order) /\ ToSet(order) \subseteq Ids
    BY OrderIsLane
  <2>3. /\ DOMAIN placeOf' = DOMAIN placeOf \cup Ids
        /\ \A r \in rows : placeOf'[r.id] = r.place
        /\ \A x \in Ids : \E r \in rows : r.id = x
        /\ \A x \in DOMAIN placeOf \ Ids : placeOf'[x] = placeOf[x]
    BY <2>1, ReadIs
  <2>4. TableOK'
    BY <2>1 DEF TableOK
  <2>5. ReadingsOK'
    <3>1. (ToSet(vec) \cup ToSet(fts))' \subseteq DOMAIN placeOf'
      BY <2>1, <2>2, <2>3 DEF ToSet, ReadingsOK
    <3>2. \A x \in DOMAIN placeOf' : x \in 1..(nextId' - 1)
      BY <1>1, <2>1, <2>3 DEF ReadingsOK
    <3>3. ASSUME NEW x \in DOMAIN placeOf', NEW y \in DOMAIN placeOf', x # y,
                 placeOf'[x] = placeOf'[y]
          PROVE  placeOf'[x] \in rewritten
      <4>1. CASE x \in Ids /\ y \in Ids
        <5>1. PICK r \in rows, q \in rows : r.id = x /\ q.id = y
          BY <2>3, <4>1
        <5> QED
          BY <2>3, <3>3, <5>1 DEF TableOK
      <4>2. CASE x \in Ids /\ y \notin Ids
        <5>1. PICK r \in rows : r.id = x
          BY <2>3, <4>2
        <5>2. y \in DOMAIN placeOf /\ placeOf'[y] = placeOf[y] /\ r.place = placeOf[y]
          BY <2>3, <3>3, <4>2, <5>1
        <5> QED
          BY <2>1, <2>3, <3>3, <5>1, <5>2 DEF ReadingsOK
      <4>3. CASE x \notin Ids /\ y \in Ids
        <5>1. PICK r \in rows : r.id = y
          BY <2>3, <4>3
        <5>2. x \in DOMAIN placeOf /\ placeOf'[x] = placeOf[x] /\ r.place = placeOf[x]
          BY <2>3, <3>3, <4>3, <5>1
        <5> QED
          BY <2>1, <2>3, <3>3, <5>1, <5>2 DEF ReadingsOK
      <4>4. CASE x \notin Ids /\ y \notin Ids
        BY <2>3, <3>3, <4>4 DEF ReadingsOK
      <4> QED
        BY <4>1, <4>2, <4>3, <4>4
    <3> QED
      BY <2>1, <3>1, <3>2, <3>3 DEF ReadingsOK
  <2> QED
    BY <2>1, <2>2, <2>4, <2>5 DEF IsLane
<1>5. CASE Fuse
  BY <1>5 DEF Fuse, TableOK, ReadingsOK, IsLane, ToSet
<1>6. ASSUME NEW p \in Spots, DeleteRows(p) PROVE SearchInv'
  <2>1. /\ phase = "fts" /\ rows' \subseteq rows /\ rewritten \subseteq rewritten'
        /\ UNCHANGED <<nextId, phase, vec, fts, placeOf, hits>>
    BY <1>6 DEF DeleteRows
  <2> QED
    BY <2>1 DEF TableOK, ReadingsOK, IsLane, ToSet
<1>7. ASSUME NEW p \in Spots, InsertRow(p) PROVE SearchInv'
  <2> DEFINE new == [id |-> nextId, place |-> p]
  <2>1. /\ phase = "fts" /\ nextId <= MaxId /\ p \in rewritten /\ \A r \in rows : r.place # p
        /\ rows' = rows \cup {new} /\ nextId' = nextId + 1
        /\ UNCHANGED <<phase, vec, fts, placeOf, hits, rewritten>>
    BY <1>7 DEF InsertRow
  <2>2. new.id = nextId /\ new.place = p /\ nextId \notin 1..(nextId - 1)
        /\ 1..(nextId - 1) \subseteq 1..(nextId' - 1) /\ nextId \in 1..(nextId' - 1)
        /\ nextId' \in 1..(MaxId + 1)
    BY <1>1, <2>1
  <2> HIDE DEF new
  <2>3. TableOK'
    BY <1>1, <2>1, <2>2 DEF TableOK
  <2>4. ReadingsOK'
    <3>1. \A x \in DOMAIN placeOf : x # nextId /\ x \in 1..(nextId' - 1)
      BY <2>2 DEF ReadingsOK
    <3> QED
      BY <2>1, <2>2, <3>1 DEF ReadingsOK, ToSet
  <2> QED
    BY <2>1, <2>3, <2>4 DEF IsLane
<1>8. CASE UNCHANGED searchVars
  BY <1>8 DEF searchVars, TableOK, ReadingsOK, IsLane, ToSet
<1> QED
  BY <1>2, <1>3, <1>4, <1>5, <1>6, <1>7, <1>8 DEF SearchNext

\* The query and the ingestion keep the invariant.
LEMMA SearchInvariant == SearchSpec => []SearchInv
<1>1. SearchInit => SearchInv
  <2> SUFFICES ASSUME SearchInit PROVE SearchInv
    OBVIOUS
  <2>1. IsLane(<<>>)
    <3>1. DOMAIN <<>> = 1..0 /\ 0 \in 0..TopK
      BY RetrievalAssumption
    <3> QED
      BY <3>1 DEF IsLane, IsInjective
  <2>2. 1 \in 1..(MaxId + 1)
    BY RetrievalAssumption
  <2> QED
    BY <2>1, <2>2 DEF SearchInit, SearchInv, TableOK, ReadingsOK, ToSet
<1>2. SearchInv /\ [SearchNext]_searchVars => SearchInv'
  BY SearchStep
<1> QED
  BY <1>1, <1>2, PTL DEF SearchSpec

\* What is returned is of the lanes, no row twice, at most top_k.
LEMMA NoTwins == ASSUME SearchInv PROVE SearchTypeOK /\ TwinsMeanReingestion
<1>1. CASE phase # "done"
  BY <1>1, RetrievalAssumption DEF SearchInv, SearchTypeOK, TwinsMeanReingestion, TableOK, ReadingsOK
<1>2. CASE phase = "done"
  <2>1. hits = FuseLanes(vec, fts) /\ IsLane(vec) /\ IsLane(fts)
    BY <1>2 DEF SearchInv
  <2>2. /\ Len(hits) \in 0..TopK /\ DOMAIN hits = 1..Len(hits)
        /\ \A n \in DOMAIN hits :
               hits[n] \in Found(vec, fts) /\ Cardinality(Ahead(hits[n], vec, fts)) = n - 1
    BY <2>1, ResultsInOrder
  <2>3. \A i, j \in DOMAIN hits : i # j => hits[i] # hits[j]
    <3>1. \A i, j \in 1..Len(hits) : i - 1 = j - 1 => i = j
      BY <2>2
    <3> QED
      BY <2>2, <3>1
  <2>4. \A n \in DOMAIN hits : hits[n] \in DOMAIN placeOf
    BY <2>2 DEF Found, SearchInv, ReadingsOK
  <2>5. TwinsMeanReingestion
    BY <2>3, <2>4 DEF TwinsMeanReingestion, SearchInv, ReadingsOK
  <2>6. SearchTypeOK
    BY <2>2, RetrievalAssumption DEF SearchTypeOK, SearchInv, TableOK, ReadingsOK
  <2> QED
    BY <2>5, <2>6
<1> QED
  BY <1>1, <1>2

\* What both lanes found comes first.
LEMMA BothFirst == ASSUME SearchInv PROVE BothLanesComeFirst
<1> SUFFICES ASSUME phase = "done", NEW x \in Both(vec, fts), NEW n \in DOMAIN hits,
                    hits[n] \notin Both(vec, fts)
             PROVE  \E m \in 1..(n - 1) : hits[m] = x
  BY DEF BothLanesComeFirst, Both
<1>1. hits = FuseLanes(vec, fts) /\ IsLane(vec) /\ IsLane(fts)
  BY DEF SearchInv
<1> DEFINE y == hits[n]
           at == Cardinality(Ahead(x, vec, fts))
<1>2. x \in Found(vec, fts)
  BY DEF Both, Found
<1>3. /\ Len(hits) \in 0..TopK /\ DOMAIN hits = 1..Len(hits)
      /\ y \in Found(vec, fts) /\ Cardinality(Ahead(y, vec, fts)) = n - 1
  BY <1>1, ResultsInOrder
<1>4. x \in Ahead(y, vec, fts)
  BY <1>1, <1>2, <1>3, Scores DEF Ahead, Sorted
<1>5. at \in Nat /\ at < n - 1
  BY <1>1, <1>2, <1>3, <1>4, ResultsInOrder
<1>6. at < TopK
  BY <1>3, <1>5, RetrievalAssumption
<1>7. hits[at + 1] = x
  BY <1>1, <1>2, <1>6, ResultsInOrder
<1>8. at + 1 \in 1..(n - 1)
  BY <1>3, <1>5
<1> QED
  BY <1>7, <1>8

\* A set within a lane that lacks one row of it has less than top_k members.
LEMMA LessThanALane ==
    ASSUME NEW l, IsLane(l), NEW x \in ToSet(l), NEW S, S \subseteq ToSet(l) \ {x}
    PROVE  IsFiniteSet(S) /\ Cardinality(S) \in Nat /\ Cardinality(S) < TopK
<1>1. /\ IsFiniteSet(ToSet(l)) /\ Cardinality(ToSet(l)) <= TopK /\ Cardinality(ToSet(l)) \in Nat
  BY LaneIsFinite
<1>2. /\ IsFiniteSet(S) /\ Cardinality(S) <= Cardinality(ToSet(l))
      /\ Cardinality(S) = Cardinality(ToSet(l)) => ToSet(l) = S
  BY <1>1, FS_Subset
<1>3. Cardinality(S) \in Nat
  BY <1>2, FS_CardinalityType
<1> QED
  BY <1>1, <1>2, <1>3, RetrievalAssumption

\* The best of each lane.
LEMMA BestKept == ASSUME SearchInv PROVE BestMatchIsKept
<1> SUFFICES ASSUME phase = "done" PROVE BestMatchIsKept
  BY DEF BestMatchIsKept
<1> DEFINE ahead(x) == Ahead(x, vec, fts)
           both == Both(vec, fts)
<1>1. hits = FuseLanes(vec, fts) /\ IsLane(vec) /\ IsLane(fts)
  BY DEF SearchInv
<1>2. /\ Len(hits) \in 0..TopK /\ DOMAIN hits = 1..Len(hits)
      /\ Len(hits) = TopK \/ Len(hits) = Cardinality(Found(vec, fts))
      /\ \A n \in DOMAIN hits :
             hits[n] \in Found(vec, fts) /\ Cardinality(ahead(hits[n])) = n - 1
      /\ \A x \in Found(vec, fts) :
             /\ Cardinality(ahead(x)) \in 0..(Cardinality(Found(vec, fts)) - 1)
             /\ Cardinality(ahead(x)) < TopK =>
                    Cardinality(ahead(x)) + 1 \in DOMAIN hits /\ hits[Cardinality(ahead(x)) + 1] = x
  BY <1>1, ResultsInOrder
<1> HIDE DEF both
<1>3. ASSUME vec # <<>>
      PROVE  /\ vec[1] \in ToSet(vec) /\ vec[1] \in Found(vec, fts)
             /\ RankOf(vec[1], vec, fts) = 0
             /\ ahead(vec[1]) \subseteq both \ {vec[1]}
             /\ Cardinality(ahead(vec[1])) < TopK
             /\ \A y \in ToSet(vec) : RankOf(y, vec, fts) <= 0 => y = vec[1]
  <2>1. vec[1] \in ToSet(vec) /\ Rank(vec, vec[1]) = 0
    BY <1>1, <1>3, LaneBegins
  <2>2. vec[1] \in Found(vec, fts) /\ RankOf(vec[1], vec, fts) = 0
    BY <2>1 DEF Found, RankOf
  <2>3. \A y \in ToSet(vec) \cup ToSet(fts) : RankOf(y, vec, fts) \in Nat
    BY <1>1, Ranks, RetrievalAssumption DEF RankOf
  <2>4. ASSUME NEW y \in ahead(vec[1]) PROVE y \in both \ {vec[1]}
    <3>1. y \in Found(vec, fts) /\ y # vec[1]
          /\ (y \in Both(vec, fts) \/ RankOf(y, vec, fts) < RankOf(vec[1], vec, fts))
      BY <1>1, <2>1, <2>2, <2>4, WhoIsAhead
    <3> QED
      BY <2>2, <2>3, <3>1 DEF Found, both
  <2>5. both \ {vec[1]} \subseteq ToSet(vec) \ {vec[1]}
    BY DEF both, Both
  <2>6. Cardinality(ahead(vec[1])) < TopK
    BY <1>1, <2>1, <2>4, <2>5, LessThanALane
  <2>7. \A y \in ToSet(vec) : RankOf(y, vec, fts) <= 0 => y = vec[1]
    BY <1>1, <2>1, <2>3, Ranks DEF RankOf
  <2> QED
    BY <2>1, <2>2, <2>4, <2>6, <2>7
<1>4. ASSUME vec # <<>> PROVE vec[1] \in ToSet(hits)
  BY <1>2, <1>3, <1>4 DEF ToSet
<1>5. ASSUME fts # <<>>, fts[1] \notin ToSet(hits)
      PROVE  /\ fts[1] \notin ToSet(vec)
             /\ Last(hits) = vec[1] /\ vec[1] \notin ToSet(fts)
  <2> DEFINE x == fts[1]
             rest == ToSet(fts) \ {x}
  <2>1. x \in ToSet(fts) /\ x \in Found(vec, fts) /\ Rank(fts, x) = 0
    BY <1>1, <1>5, LaneBegins DEF Found
  <2>2. Cardinality(ahead(x)) >= TopK /\ Cardinality(ahead(x)) \in Nat /\ Len(hits) = TopK
    <3>1. ~(Cardinality(ahead(x)) < TopK)
      BY <1>2, <1>5, <2>1 DEF ToSet
    <3>2. IsFiniteSet(Found(vec, fts))
      BY <1>1, LaneIsFinite, FS_Union DEF Found
    <3>3. Cardinality(Found(vec, fts)) \in Nat /\ Cardinality(ahead(x)) \in Nat
          /\ Cardinality(ahead(x)) < Cardinality(Found(vec, fts))
      <4>1. Cardinality(Found(vec, fts)) \in Nat
        BY <3>2, FS_CardinalityType
      <4>2. Cardinality(ahead(x)) \in 0..(Cardinality(Found(vec, fts)) - 1)
        BY <1>2, <2>1
      <4> QED
        BY <4>1, <4>2
    <3>4. Len(hits) \in 0..TopK /\ (Len(hits) = TopK \/ Len(hits) = Cardinality(Found(vec, fts)))
      BY <1>2
    <3> QED
      BY <3>1, <3>3, <3>4, RetrievalAssumption
  <2>3. x \notin both
    <3> SUFFICES ASSUME x \in both PROVE FALSE
      OBVIOUS
    <3>1. ahead(x) \subseteq rest
      BY <1>1, <2>1, WhoIsAhead DEF both, Both
    <3>2. Cardinality(ahead(x)) \in Nat /\ Cardinality(ahead(x)) < TopK
      BY <1>1, <2>1, <3>1, LessThanALane
    <3> QED
      BY <2>2, <3>2, RetrievalAssumption
  <2>4. x \notin ToSet(vec) /\ RankOf(x, vec, fts) = 0
    BY <2>1, <2>3 DEF both, Both, RankOf
  <2>5. ASSUME NEW y \in ahead(x), y \notin rest
        PROVE  vec # <<>> /\ y = vec[1] /\ y \notin ToSet(fts)
    <3>1. /\ y \in Found(vec, fts) /\ y # x
          /\ y \in both \/ RankOf(y, vec, fts) <= 0
      BY <1>1, <2>1, <2>4, <2>5, WhoIsAhead DEF both
    <3>2. y \notin ToSet(fts) /\ y \in ToSet(vec)
      BY <2>5, <3>1 DEF Found
    <3>3. vec # <<>>
      BY <3>2 DEF ToSet
    <3> QED
      BY <1>3, <3>1, <3>2, <3>3 DEF both, Both
  <2>6. ~(ahead(x) \subseteq rest)
    <3> SUFFICES ASSUME ahead(x) \subseteq rest PROVE FALSE
      OBVIOUS
    <3>1. Cardinality(ahead(x)) \in Nat /\ Cardinality(ahead(x)) < TopK
      BY <1>1, <2>1, LessThanALane
    <3> QED
      BY <2>2, <3>1, RetrievalAssumption
  <2>7. vec # <<>> /\ vec[1] \in ahead(x) /\ vec[1] \notin ToSet(fts)
    BY <2>5, <2>6
  <2>8. ahead(vec[1]) = ahead(x) \ {vec[1]}
    <3>1. ahead(vec[1]) \subseteq ahead(x)
      BY <1>1, <1>3, <2>1, <2>7, SortedIsOrder
    <3>2. vec[1] \notin ahead(vec[1])
      BY <1>3, <2>7
    <3>3. vec[1] \notin both
      BY <2>7 DEF both, Both
    <3>4. ASSUME NEW y \in ahead(x), y # vec[1] PROVE y \in ahead(vec[1])
      <4>1. y \in ToSet(fts) /\ y # x /\ y \in Found(vec, fts)
        BY <1>1, <2>1, <2>5, <3>4, WhoIsAhead
      <4>2. y \in both
        <5>1. RankOf(y, vec, fts) <= 0 => y \in both
          <6>1. CASE y \in ToSet(vec)
            BY <4>1, <6>1 DEF both, Both
          <6>2. CASE y \notin ToSet(vec)
            BY <1>1, <2>1, <2>4, <3>4, <6>2, <4>1, Ranks, WhoIsAhead DEF RankOf
          <6> QED
            BY <6>1, <6>2
        <5> QED
          BY <1>1, <2>1, <2>4, <3>4, <5>1, WhoIsAhead DEF both
      <4>3. Exceeds(Fused(y, vec, fts), Fused(vec[1], vec, fts))
        BY <1>1, <1>3, <2>7, <3>3, <4>2, Scores DEF both
      <4> QED
        BY <4>1, <4>3 DEF Ahead, Sorted
    <3> QED
      BY <3>1, <3>2, <3>4
  <2>9. Cardinality(ahead(vec[1])) = Cardinality(ahead(x)) - 1
    <3>1. IsFiniteSet(ahead(x))
      BY <1>1, LaneIsFinite, FS_Union, FS_Subset DEF Ahead, Found
    <3>2. ahead(vec[1]) = ahead(x) \ {vec[1]} /\ vec[1] \in ahead(x)
      BY <2>7, <2>8
    <3> HIDE DEF ahead
    <3> QED
      BY <3>1, <3>2, FS_RemoveElement
  <2>10. Cardinality(ahead(vec[1])) = TopK - 1
    BY <1>3, <2>2, <2>7, <2>9, RetrievalAssumption
  <2>11. hits[TopK] = vec[1]
    <3>1. hits[Cardinality(ahead(vec[1])) + 1] = vec[1]
      BY <1>2, <1>3, <2>7
    <3>2. Cardinality(ahead(vec[1])) + 1 = TopK
      BY <2>10, RetrievalAssumption
    <3> QED
      BY <3>1, <3>2
  <2> QED
    BY <2>2, <2>4, <2>7, <2>11 DEF Last
<1> QED
  BY <1>4, <1>5 DEF BestMatchIsKept

\* For any table, any answers of the lanes and a re-ingestion between them, what the
\* fusion promises holds (memory/context_retriever.py:retrieve_hybrid).
THEOREM RetrievalSound == SearchSpec => []RetrievalIsSound
<1>1. SearchInv => RetrievalIsSound
  BY NoTwins, BothFirst, BestKept DEF RetrievalIsSound
<1> QED
  BY <1>1, SearchInvariant, PTL
-----------------------------------------------------------------------------
(* Drift detection. *)

\* What the first n numbers of a sequence add up to.
PartialSums(s) == [n \in 0..Len(s) |-> SumFunctionOnSet(s, 1..n)]

\* They add one number after the other.
LEMMA SumsAre ==
    ASSUME NEW s \in Seq(Nat)
    PROVE  /\ PartialSums(s) \in [0..Len(s) -> Nat]
           /\ PartialSums(s)[0] = 0
           /\ \A n \in 1..Len(s) : PartialSums(s)[n] = PartialSums(s)[n - 1] + s[n]
           /\ SumFunction(s) \in Nat
           /\ PartialSums(s)[Len(s)] = SumFunction(s)
<1>1. Len(s) \in Nat /\ s \in [1..Len(s) -> Nat]
  OBVIOUS
<1>2. /\ SumFunctionOnSet(s, 1..0) = 0 /\ SumFunctionOnSet(s, 1..Len(s)) = SumFunction(s)
      /\ \A i \in 0..Len(s) : SumFunctionOnSet(s, 1..i) \in Nat
      /\ \A i \in 1..Len(s) : SumFunctionOnSet(s, 1..i) = SumFunctionOnSet(s, 1..(i - 1)) + s[i]
  BY <1>1, SumsOfSequence
<1>3. 0 \in 0..Len(s) /\ Len(s) \in 0..Len(s) /\ \A n \in 1..Len(s) : n \in 0..Len(s) /\ n - 1 \in 0..Len(s)
  BY <1>1
<1> QED
  BY <1>2, <1>3 DEF PartialSums

\* Quotient and remainder are determined by what they compose.
LEMMA DivMod ==
    ASSUME NEW n \in Nat, n > 0, NEW q \in Nat, NEW r \in 0..(n - 1)
    PROVE  (q * n + r) % n = r
<1> DEFINE i == q * n + r
           h == i \div n
           e == i % n
<1>1. i \in Nat /\ h \in Int /\ e \in 0..(n - 1) /\ i = h * n + e
  <2>1. q * n \in Nat
    OBVIOUS
  <2>2. i \in Nat
    BY <2>1
  <2>3. h \in Int /\ e \in 0..(n - 1) /\ i = n * h + e
    BY <2>2
  <2> QED
    BY <2>2, <2>3
<1> HIDE DEF h, e
<1>2. (q - h) * n = e - r
  BY <1>1
<1>3. CASE q - h >= 1
  <2>1. (q - h) * n >= n
    BY <1>1, <1>3
  <2> QED
    BY <2>1, <1>1, <1>2
<1>4. CASE q - h <= -1
  <2>1. (h - q) * n >= n
    BY <1>1, <1>4
  <2>2. (h - q) * n = r - e
    BY <1>1
  <2> QED
    BY <2>1, <2>2, <1>1
<1>5. CASE q - h = 0
  <2>1. q = h
    BY <1>5, <1>1
  <2>2. e = r
    BY <2>1, <1>1
  <2> QED
    BY <2>2 DEF e
<1> QED
  BY <1>3, <1>4, <1>5, <1>1

\* What adds up over a sequence repeated k times is k times what adds up over it.
LEMMA SumRepeats ==
    ASSUME NEW b \in Seq(Nat), NEW w \in Seq(Nat), NEW k \in Nat, Len(b) > 0,
           Len(w) = k * Len(b),
           \A i \in 1..Len(w) : w[i] = b[((i - 1) % Len(b)) + 1]
    PROVE  SumFunction(w) = k * SumFunction(b)
<1> DEFINE n == Len(b)
           u == PartialSums(b)
           U == PartialSums(w)
           T == SumFunction(b)
<1>1. n \in Nat /\ n > 0 /\ Len(w) \in Nat
  OBVIOUS
<1>2. /\ \A i \in 0..n : u[i] \in Nat
      /\ u[0] = 0 /\ u[n] = T /\ T \in Nat
      /\ \A i \in 1..n : u[i] = u[i - 1] + b[i]
  BY SumsAre
<1>3. /\ \A i \in 0..Len(w) : U[i] \in Nat
      /\ U[0] = 0 /\ U[Len(w)] = SumFunction(w)
      /\ \A i \in 1..Len(w) : U[i] = U[i - 1] + w[i]
  BY SumsAre
<1>4. \A q \in Nat, r \in 0..(n - 1) : (q * n + r) % n = r
  BY <1>1, DivMod
<1> DEFINE Off == {i \in 0..Len(w) : \E q \in Nat, r \in 0..(n - 1) :
                       i = q * n + r /\ U[i] # q * T + u[r]}
<1> HIDE DEF n, u, U, T
<1>a. \A i \in 1..n : b[i] \in Nat
  BY DEF n
<1>b. \A j \in 0..Len(w), q \in Nat, r \in 0..(n - 1) :
         j \notin Off /\ j = q * n + r => U[j] = q * T + u[r]
  OBVIOUS
<1>5. Off = {}
  <2> SUFFICES ASSUME Off # {} PROVE FALSE
    OBVIOUS
  <2>1. PICK i \in Off : \A j \in Off : i <= j
    <3>1. Off \subseteq Nat
      BY <1>1
    <3> QED
      BY <3>1, LeastNatural
  <2>2. PICK q \in Nat, r \in 0..(n - 1) : i = q * n + r /\ U[i] # q * T + u[r]
    BY <2>1
  <2>3. i \in 0..Len(w) /\ q * n \in Nat
    BY <2>1, <1>1
  <2> HIDE DEF Off
  <2>4. CASE r > 0
    <3>1. i - 1 = q * n + (r - 1) /\ r - 1 \in 0..(n - 1) /\ i \in 1..Len(w) /\ i - 1 \in 0..Len(w)
          /\ r \in 1..n /\ ~(i <= i - 1)
      BY <2>2, <2>3, <2>4, <1>1
    <3>2. U[i - 1] = q * T + u[r - 1]
      <4>1. i - 1 \notin Off
        <5> HIDE DEF Off
        <5> QED
          BY <3>1, <2>1
      <4> HIDE DEF Off
      <4> QED
        BY <4>1, <3>1, <1>b
    <3>3. w[i] = b[r]
      <4>1. (i - 1) % n = r - 1
        BY <3>1, <1>4
      <4>2. w[i] = b[(r - 1) + 1]
        BY <4>1, <3>1 DEF n
      <4>3. (r - 1) + 1 = r
        OBVIOUS
      <4> QED
        BY <4>2, <4>3
    <3>4. U[i] = U[i - 1] + w[i] /\ u[r] = u[r - 1] + b[r]
      BY <3>1, <1>2, <1>3
    <3>5. u[r] \in Nat /\ u[r - 1] \in Nat /\ b[r] \in Nat /\ q * T \in Nat
      <4>1. r \in 0..n /\ r - 1 \in 0..n
        BY <3>1, <1>1
      <4>2. q * T \in Nat
        BY <1>2
      <4> QED
        BY <4>1, <4>2, <3>1, <1>2, <1>a
    <3>6. PICK h \in Nat : h = q * T
      BY <3>5
    <3>7. U[i] = h + u[r]
      <4> HIDE DEF Off
      <4>1. U[i - 1] = h + u[r - 1]
        BY <3>2, <3>6
      <4>2. U[i] = (h + u[r - 1]) + b[r] /\ u[r] = u[r - 1] + b[r]
        BY <4>1, <3>3, <3>4
      <4>3. u[r - 1] \in Nat /\ b[r] \in Nat
        BY <3>5
      <4> QED
        BY <4>2, <4>3
    <3> QED
      BY <3>6, <3>7, <2>2
  <2>5. CASE r = 0 /\ q > 0
    <3>1. q - 1 \in Nat /\ n - 1 \in 0..(n - 1) /\ n \in 1..n
      BY <2>5, <1>1
    <3>2. (q - 1) * n = q * n - n /\ (q - 1) * T = q * T - T /\ (q - 1) * T \in Nat
      BY <3>1, <1>1, <1>2
    <3>3. (q - 1) * n \in Nat
      BY <3>1, <1>1
    <3>4. i - 1 = (q - 1) * n + (n - 1) /\ i \in 1..Len(w) /\ i - 1 \in 0..Len(w) /\ ~(i <= i - 1)
      <4>1. PICK h \in Nat : h = q * n
        BY <2>3
      <4>2. PICK g \in Nat : g = (q - 1) * n
        BY <3>3
      <4>3. g = h - n /\ i = h + r
        BY <4>1, <4>2, <3>2, <2>2
      <4>5. i \in 0..Len(w) /\ Len(w) \in Nat /\ n \in Nat /\ n > 0 /\ r = 0
        BY <2>3, <2>5, <1>1
      <4>4. i - 1 = g + (n - 1) /\ i \in 1..Len(w) /\ i - 1 \in 0..Len(w) /\ ~(i <= i - 1)
        BY <4>3, <4>5
      <4> QED
        BY <4>2, <4>4
    <3>5. U[i - 1] = (q - 1) * T + u[n - 1]
      <4>1. i - 1 \notin Off
        <5> HIDE DEF Off
        <5> QED
          BY <3>4, <2>1
      <4> HIDE DEF Off
      <4> QED
        BY <4>1, <3>1, <3>4, <1>b
    <3>6. w[i] = b[n]
      <4>1. (i - 1) % n = n - 1
        BY <3>1, <3>4, <1>4
      <4>2. w[i] = b[(n - 1) + 1]
        BY <4>1, <3>4 DEF n
      <4> QED
        BY <4>2, <1>1
    <3>7. U[i] = U[i - 1] + w[i] /\ T = u[n - 1] + b[n]
      BY <3>1, <3>4, <1>2, <1>3
    <3>8. u[n - 1] \in Nat /\ b[n] \in Nat /\ u[r] = 0
      <4>1. n - 1 \in 0..n
        BY <1>1
      <4> QED
        BY <4>1, <3>1, <1>2, <1>a, <2>5
    <3>9. U[i] = q * T
      <4>1. PICK h \in Nat : h = (q - 1) * T
        BY <3>2
      <4>2. U[i] = h + T
        <5> HIDE DEF Off
        <5>1. U[i - 1] = h + u[n - 1]
          BY <4>1, <3>5
        <5>2. U[i] = (h + u[n - 1]) + b[n] /\ T = u[n - 1] + b[n]
          BY <5>1, <3>6, <3>7
        <5>3. PICK x \in Nat, y \in Nat : x = u[n - 1] /\ y = b[n]
          BY <3>8
        <5>4. U[i] = (h + x) + y /\ T = x + y
          BY <5>2, <5>3
        <5>5. (h + x) + y = h + (x + y)
          OBVIOUS
        <5> QED
          BY <5>4, <5>5
      <4>3. PICK g \in Nat : g = q * T
        BY <1>2
      <4>4. g = h + T
        BY <4>1, <4>3, <3>2, <1>2
      <4> QED
        BY <4>2, <4>3, <4>4
    <3>10. q * T \in Nat
      BY <1>2
    <3> QED
      BY <3>8, <3>9, <3>10, <2>2
  <2>6. CASE r = 0 /\ q = 0
    <3>1. i = 0 /\ q * T = 0
      BY <2>2, <2>6, <1>1, <1>2
    <3> QED
      BY <3>1, <2>2, <2>6, <1>2, <1>3
  <2> QED
    BY <2>4, <2>5, <2>6
<1>6. Len(w) = k * n + 0 /\ 0 \in 0..(n - 1) /\ Len(w) \in 0..Len(w)
  <2>1. k * n \in Nat /\ Len(w) = k * n
    BY <1>1 DEF n
  <2> QED
    BY <2>1, <1>1
<1>7. U[Len(w)] = k * T + u[0]
  BY <1>5, <1>6
<1>8. k * T \in Nat
  BY <1>2
<1>9. SumFunction(w) = k * T
  BY <1>7, <1>8, <1>2, <1>3
<1> QED
  BY <1>9 DEF T

\* What is added up are numbers of events, errors and the like, one for each review.
LEMMA Columns ==
    ASSUME NEW w \in Seq([Quantities -> Nat]), NEW q \in Quantities
    PROVE  /\ Each(w, q) \in Seq(Nat) /\ Len(Each(w, q)) = Len(w)
           /\ Marks(w, q) \in Seq(Nat) /\ Len(Marks(w, q)) = Len(w)
           /\ Amount(w, q) \in Nat /\ Having(w, q) \in Nat
           /\ w = <<>> => Amount(w, q) = 0 /\ Having(w, q) = 0
<1>1. Len(w) \in Nat /\ \A i \in 1..Len(w) : w[i] \in [Quantities -> Nat]
  OBVIOUS
<1>2. \A i \in 1..Len(w) : w[i][q] \in Nat
  BY <1>1
<1>3. Each(w, q) \in Seq(Nat) /\ Len(Each(w, q)) = Len(w)
  BY <1>1, <1>2 DEF Each
<1>4. Marks(w, q) \in Seq(Nat) /\ Len(Marks(w, q)) = Len(w)
  BY <1>1, <1>2 DEF Marks
<1>5. Amount(w, q) \in Nat /\ Having(w, q) \in Nat
  BY <1>3, <1>4, SumsAre DEF Amount, Having
<1>6. ASSUME w = <<>> PROVE Amount(w, q) = 0 /\ Having(w, q) = 0
  <2>1. Len(w) = 0
    BY <1>6
  <2> QED
    BY <2>1, <1>3, <1>4, SumsAre DEF Amount, Having
<1> QED
  BY <1>3, <1>4, <1>5, <1>6

\* A window that repeats the baseline has a multiple of everything in it.
LEMMA RepeatedWork ==
    ASSUME NEW b \in Seq([Quantities -> Nat]), NEW w \in Seq([Quantities -> Nat]), Repeats(b, w)
    PROVE  \E k \in Nat : /\ k > 0 /\ Len(w) = k * Len(b)
                          /\ \A q \in Quantities : /\ Amount(w, q) = k * Amount(b, q)
                                                   /\ Having(w, q) = k * Having(b, q)
<1> DEFINE n == Len(b)
           k == Len(w) \div n
<1>1. n \in Nat /\ n > 0 /\ Len(w) \in Nat /\ Len(w) > 0 /\ Len(w) % n = 0
  BY DEF Repeats
<1>2. \A i \in 1..Len(w) : w[i] = b[((i - 1) % n) + 1] /\ ((i - 1) % n) + 1 \in 1..n
  <2>1. \A i \in 1..Len(w) : (i - 1) % n \in 0..(n - 1)
    BY <1>1
  <2> HIDE DEF n
  <2>2. \A i \in 1..Len(w) : ((i - 1) % n) + 1 \in 1..n
    BY <2>1, <1>1
  <2>3. DOMAIN w = 1..Len(w)
    OBVIOUS
  <2>4. \A i \in 1..Len(w) : w[i] = b[((i - 1) % n) + 1]
    BY <2>3 DEF Repeats, n
  <2> QED
    BY <2>2, <2>4
<1>3. k \in Int /\ Len(w) = k * n
  BY <1>1
<1> HIDE DEF k
<1>4. k \in Nat /\ k > 0
  <2>1. CASE k <= 0
    <3>1. k * n <= 0
      BY <2>1, <1>1, <1>3
    <3> QED
      BY <3>1, <1>1, <1>3
  <2> QED
    BY <2>1, <1>3
<1>5. ASSUME NEW q \in Quantities
      PROVE  Amount(w, q) = k * Amount(b, q) /\ Having(w, q) = k * Having(b, q)
  <2>1. /\ Each(b, q) \in Seq(Nat) /\ Len(Each(b, q)) = n
        /\ Marks(b, q) \in Seq(Nat) /\ Len(Marks(b, q)) = n
    BY Columns
  <2>2. /\ Each(w, q) \in Seq(Nat) /\ Len(Each(w, q)) = Len(w)
        /\ Marks(w, q) \in Seq(Nat) /\ Len(Marks(w, q)) = Len(w)
    BY Columns
  <2>3. ASSUME NEW i \in 1..Len(w)
        PROVE  /\ Each(w, q)[i] = Each(b, q)[((i - 1) % n) + 1]
               /\ Marks(w, q)[i] = Marks(b, q)[((i - 1) % n) + 1]
    <3>1. PICK j \in 1..n : j = ((i - 1) % n) + 1
      BY <1>2
    <3>2. w[i] = b[j]
      BY <3>1, <1>2
    <3>3. Each(w, q)[i] = Each(b, q)[j] /\ Marks(w, q)[i] = Marks(b, q)[j]
      BY <3>2 DEF Each, Marks
    <3> QED
      BY <3>1, <3>3
  <2> HIDE DEF n
  <2>4. SumFunction(Each(w, q)) = k * SumFunction(Each(b, q))
    <3> DEFINE x == Each(b, q)
               y == Each(w, q)
    <3>1. Len(x) > 0 /\ Len(y) = k * Len(x) /\ \A i \in 1..Len(y) : y[i] = x[((i - 1) % Len(x)) + 1]
      BY <2>1, <2>2, <2>3, <1>1, <1>3
    <3>2. x \in Seq(Nat) /\ y \in Seq(Nat)
      BY <2>1, <2>2
    <3> HIDE DEF x, y
    <3>3. SumFunction(y) = k * SumFunction(x)
      BY <3>1, <3>2, <1>4, SumRepeats
    <3> QED
      BY <3>3 DEF x, y
  <2>5. SumFunction(Marks(w, q)) = k * SumFunction(Marks(b, q))
    <3> DEFINE x == Marks(b, q)
               y == Marks(w, q)
    <3>1. Len(x) > 0 /\ Len(y) = k * Len(x) /\ \A i \in 1..Len(y) : y[i] = x[((i - 1) % Len(x)) + 1]
      BY <2>1, <2>2, <2>3, <1>1, <1>3
    <3>2. x \in Seq(Nat) /\ y \in Seq(Nat)
      BY <2>1, <2>2
    <3> HIDE DEF x, y
    <3>3. SumFunction(y) = k * SumFunction(x)
      BY <3>1, <3>2, <1>4, SumRepeats
    <3> QED
      BY <3>3 DEF x, y
  <2> QED
    BY <2>4, <2>5 DEF Amount, Having
<1> QED
  BY <1>3, <1>4, <1>5

\* A fraction is not NULL, and has the parts it is made of.
LEMMA Fractions == \A n, d : <<n, d>> # Null /\ <<n, d>>[1] = n /\ <<n, d>>[2] = d
<1> TAKE n, d
<1>1. Len(<<n, d>>) = 2 /\ Len(<<>>) = 0
  OBVIOUS
<1> QED
  BY <1>1 DEF Null

\* The metrics are five different ones.
LEMMA FiveMetrics ==
    ASSUME NEW m \in Metrics
    PROVE  \/ m = ErrorsMetric
           \/ m = CostMetric /\ m # ErrorsMetric
           \/ m = LatencyMetric /\ m \notin {CostMetric, ErrorsMetric}
           \/ m = CallsMetric /\ m \notin {CostMetric, LatencyMetric, ErrorsMetric}
           \/ m = FindingsMetric /\ m \notin {CostMetric, LatencyMetric, CallsMetric, ErrorsMetric}
BY DriftAssumption DEF Metrics

\* How a metric other than the error count is computed from the columns.
LEMMA RatioMetrics ==
    ASSUME NEW m \in Metrics, m # ErrorsMetric, NEW w
    PROVE  \/ m = CostMetric /\ Value(m, w) = Ratio(Amount(w, "cost"), Having(w, "events"))
           \/ m = LatencyMetric /\ Value(m, w) = Ratio(Amount(w, "latency"), Amount(w, "calls"))
           \/ m = CallsMetric /\ Value(m, w) = Ratio(Amount(w, "calls"), Having(w, "calls"))
           \/ m = FindingsMetric /\ Value(m, w) = Ratio(Amount(w, "findings"), Len(w))
BY FiveMetrics, DriftAssumption DEF Value

\* The error count is taken over the whole window.
LEMMA ErrorCount ==
    ASSUME NEW w PROVE Value(ErrorsMetric, w) = <<Amount(w, "errors"), 1>>
BY DriftAssumption DEF Value

\* A metric is NULL or a fraction of natural numbers.
LEMMA ValueIs ==
    ASSUME NEW m \in Metrics, NEW w \in Seq([Quantities -> Nat])
    PROVE  Value(m, w) = Null \/ \E n, d \in Nat : d > 0 /\ Value(m, w) = <<n, d>>
<1>0. /\ \A q \in Quantities : Amount(w, q) \in Nat /\ Having(w, q) \in Nat
      /\ Len(w) \in Nat
  BY Columns
<1>1. {"cost", "events", "calls", "latency", "errors", "findings"} = Quantities
  BY DEF Quantities
<1>2. CASE m = ErrorsMetric
  <2>1. Amount(w, "errors") \in Nat /\ 1 \in Nat /\ 1 > 0
    BY <1>0, <1>1
  <2> QED
    BY <2>1, <1>2, ErrorCount
<1>3. CASE m # ErrorsMetric
  <2>1. \E n, d \in Nat : Value(m, w) = Ratio(n, d)
    BY <1>0, <1>1, <1>3, RatioMetrics
  <2>2. PICK n, d \in Nat : Value(m, w) = Ratio(n, d)
    BY <2>1
  <2> QED
    BY <2>2 DEF Ratio
<1> QED
  BY <1>2, <1>3

\* An empty window has no value but the error count, which is 0.
LEMMA NothingRan ==
    ASSUME NEW m \in Metrics
    PROVE  Value(m, <<>>) = IF m = ErrorsMetric THEN <<0, 1>> ELSE Null
<1>0. /\ \A q \in Quantities : Amount(<<>>, q) = 0 /\ Having(<<>>, q) = 0
      /\ Len(<<>>) = 0
  <2>1. <<>> \in Seq([Quantities -> Nat])
    OBVIOUS
  <2> QED
    BY <2>1, Columns
<1>1. {"cost", "events", "calls", "latency", "errors", "findings"} = Quantities
  BY DEF Quantities
<1>2. CASE m = ErrorsMetric
  BY <1>0, <1>1, <1>2, ErrorCount
<1>3. CASE m # ErrorsMetric
  <2>1. \E n : Value(m, <<>>) = Ratio(n, 0)
    BY <1>0, <1>1, <1>3, RatioMetrics
  <2> QED
    BY <2>1, <1>3 DEF Ratio
<1> QED
  BY <1>2, <1>3

\* The change from n/d to x/y.
Moved(n, d, x, y) == <<(x * d - n * y) * 10000, n * y>>

\* What the report says of a metric: nothing, or the change from one fraction to another.
LEMMA DetectIs ==
    ASSUME NEW b \in Seq([Quantities -> Nat]), NEW w \in Seq([Quantities -> Nat]),
           NEW least \in Nat, NEW m \in Metrics
    PROVE  \/ Detect(b, w, least)[m] = NoDelta
           \/ /\ Len(b) >= least
              /\ \E n, d, x, y \in Nat :
                    /\ n > 0 /\ d > 0 /\ y > 0
                    /\ Value(m, b) = <<n, d>> /\ Value(m, w) = <<x, y>>
                    /\ Detect(b, w, least)[m] = [delta |-> <<Round(Moved(n, d, x, y))>>,
                                                 drifted |-> Bad(m, Moved(n, d, x, y))]
<1> DEFINE r == Detect(b, w, least)[m]
<1> SUFFICES ASSUME r # NoDelta
             PROVE  /\ Len(b) >= least
                    /\ \E n, d, x, y \in Nat :
                          /\ n > 0 /\ d > 0 /\ y > 0
                          /\ Value(m, b) = <<n, d>> /\ Value(m, w) = <<x, y>>
                          /\ r = [delta |-> <<Round(Moved(n, d, x, y))>>,
                                  drifted |-> Bad(m, Moved(n, d, x, y))]
  OBVIOUS
<1>1. r = IF Len(b) < least THEN NoDelta ELSE Delta(m, Value(m, w), Value(m, b))
  BY DEF Detect
<1> HIDE DEF r
<1>2. Len(b) >= least /\ r = Delta(m, Value(m, w), Value(m, b))
  BY <1>1
<1>3. Value(m, w) # Null /\ Value(m, b) # Null /\ ~(Value(m, b)[1] <= 0)
  BY <1>2 DEF Delta
<1>4. PICK n, d \in Nat : d > 0 /\ Value(m, b) = <<n, d>>
  BY <1>3, ValueIs
<1>5. PICK x, y \in Nat : y > 0 /\ Value(m, w) = <<x, y>>
  BY <1>3, ValueIs
<1>6. n > 0
  BY <1>3, <1>4, Fractions
<1>7. r = [delta |-> <<Round(Change(Value(m, w), Value(m, b)))>>,
           drifted |-> Bad(m, Change(Value(m, w), Value(m, b)))]
  BY <1>2, <1>3 DEF Delta
<1>8. Change(Value(m, w), Value(m, b)) = Moved(n, d, x, y)
  BY <1>4, <1>5, Fractions DEF Change, Moved
<1>9. r = [delta |-> <<Round(Moved(n, d, x, y))>>, drifted |-> Bad(m, Moved(n, d, x, y))]
  BY <1>7, <1>8
<1> QED
  BY <1>2, <1>4, <1>5, <1>6, <1>9

\* Rounding moves a change across a whole number of hundredths only as far as onto it.
LEMMA RoundingIsClose ==
    ASSUME NEW f, f[1] \in Int, f[2] \in Nat, f[2] > 0, NEW h \in Int
    PROVE  /\ Round(f) \in Int
           /\ Round(f) > h => f[1] > h * f[2]
           /\ f[1] > h * f[2] /\ Round(f) <= h => Round(f) = h
<1>c. PICK x \in Int : x = f[1]
  OBVIOUS
<1>d. PICK d \in Nat : d = f[2] /\ d > 0
  OBVIOUS
<1> DEFINE q == x \div d
           r == x % d
<1>1. q \in Int /\ r \in 0..(d - 1) /\ x = d * q + r
  BY <1>d, SMTT(30)
<1>2. Round(f) = IF 2 * r > d \/ (2 * r = d /\ q % 2 = 1) THEN q + 1 ELSE q
  <2>1. q = f[1] \div f[2] /\ r = f[1] % f[2] /\ d = f[2]
    BY <1>c, <1>d
  <2> HIDE DEF q, r
  <2> QED
    BY <2>1 DEF Round
<1> HIDE DEF q, r
<1>3. /\ Round(f) \in {q, q + 1}
      /\ Round(f) = q + 1 => r > 0
  BY <1>1, <1>2
<1>4. d * q = q * d /\ d * q \in Int /\ h * d \in Int
  BY <1>1
<1>5. q > h => q * d >= h * d + d
  <2>1. SUFFICES ASSUME q > h PROVE q * d >= h * d + d
    OBVIOUS
  <2>2. (q - h) * d >= d
    BY <2>1, <1>1
  <2>3. (q - h) * d = q * d - h * d
    BY <1>1
  <2> QED
    BY <2>2, <2>3, <1>4
<1>6. q < h => q * d + d <= h * d
  <2>1. SUFFICES ASSUME q < h PROVE q * d + d <= h * d
    OBVIOUS
  <2>2. (h - q) * d >= d
    BY <2>1, <1>1
  <2>3. (h - q) * d = h * d - q * d
    BY <1>1
  <2> QED
    BY <2>2, <2>3, <1>4
<1>7. q = h => q * d = h * d
  <2> SUFFICES ASSUME q = h PROVE q * d = h * d
    OBVIOUS
  <2> QED
    OBVIOUS
<1> DEFINE z == Round(f)
<1> HIDE DEF z
<1>8. z \in {q, q + 1} /\ (z = q + 1 => r > 0) /\ z \in Int
  BY <1>3, <1>1 DEF z
<1>9. PICK u \in Int : u = q * d
  BY <1>1
<1>10. PICK v \in Int : v = h * d
  BY <1>4
<1>11. x = u + r
  BY <1>1, <1>4, <1>9
<1>e. (q > h => u >= v + d) /\ (q < h => u + d <= v) /\ (q = h => u = v)
  BY <1>5, <1>6, <1>7, <1>9, <1>10
<1>f. q \in Int /\ r \in Int /\ 0 <= r /\ r < d
  BY <1>1
<1>12. z > h => x > v
  BY <1>e, <1>f, <1>8, <1>11
<1>13. x > v /\ z <= h => z = h
  BY <1>e, <1>f, <1>8, <1>11
<1> QED
  BY <1>8, <1>10, <1>12, <1>13, <1>c, <1>d DEF z

\* The change of a metric is a fraction with a positive denominator.
LEMMA MovedIs ==
    ASSUME NEW n \in Nat, NEW d \in Nat, NEW x \in Nat, NEW y \in Nat, n > 0, y > 0
    PROVE  /\ Moved(n, d, x, y)[1] \in Int
           /\ Moved(n, d, x, y)[2] \in Nat /\ Moved(n, d, x, y)[2] > 0
           /\ Moved(n, d, x, y)[1] = (x * d - n * y) * 10000
           /\ Moved(n, d, x, y)[2] = n * y
<1>1. x * d \in Int /\ n * y \in Nat
  OBVIOUS
<1>2. n * y > 0
  OBVIOUS
<1>3. (x * d - n * y) * 10000 \in Int
  BY <1>1
<1>4. Moved(n, d, x, y)[1] = (x * d - n * y) * 10000 /\ Moved(n, d, x, y)[2] = n * y
  BY Fractions DEF Moved
<1> QED
  BY <1>1, <1>2, <1>3, <1>4

\* What is bad is a change beyond the threshold, in the direction of the metric.
LEMMA BadIs ==
    ASSUME NEW m, NEW f, f[1] \in Int, f[2] \in Nat, f[2] > 0
    PROVE  /\ Bad(m, f) \in BOOLEAN
           /\ Bad(m, f) => f[1] # 0 /\ (m = FindingsMetric \/ f[1] > 0)
<1>1. PICK h \in Nat : h = Threshold * 100
  BY DriftAssumption
<1>2. PICK g \in Int : g = h * f[2]
  BY <1>1
<1>3. g >= 0
  BY <1>1, <1>2
<1>4. -h * f[2] = -g
  BY <1>1, <1>2
<1>5. CASE m = FindingsMetric
  <2>1. Bad(m, f) = (f[1] < -g)
    BY <1>1, <1>4, <1>5 DEF Bad
  <2>2. (f[1] < -g) \in BOOLEAN /\ (f[1] < -g => f[1] # 0)
    BY <1>2, <1>3
  <2> QED
    BY <2>1, <2>2, <1>5, Zenon
<1>6. CASE m # FindingsMetric
  <2>1. Bad(m, f) = (f[1] > g)
    BY <1>1, <1>2, <1>6 DEF Bad
  <2>2. (f[1] > g) \in BOOLEAN /\ (f[1] > g => f[1] # 0 /\ f[1] > 0)
    BY <1>2, <1>3
  <2> QED
    BY <2>1, <2>2, <1>6, Zenon
<1> QED
  BY <1>5, <1>6

\* The report is drawn from the windows it compares, the advice from the report.
DriftInv ==
    /\ watch \in {"idle", "reported", "advised"}
    /\ watch = "idle" => /\ baseline = <<>> /\ window = <<>>
                         /\ report = [m \in Metrics |-> NoDelta]
    /\ watch # "idle" => /\ baseline \in Windows /\ window \in Windows /\ floor \in Floors
                         /\ report = Detect(baseline, window, floor)
    /\ watch # "advised" => advice = NoAdvice
    /\ watch = "advised" => /\ report[CostMetric].delta # Null
                            /\ \E current, cheaper :
                                 advice = Suggest(report[CostMetric].delta[1], current, cheaper)

\* Detecting and advising keep it.
LEMMA DriftInvariant == DriftSpec => []DriftInv
<1>1. DriftInit => DriftInv
  BY DEF DriftInit, DriftInv
<1>2. ASSUME DriftInv, [DriftNext]_driftVars PROVE DriftInv'
  <2>1. ASSUME NEW b \in Windows, NEW w \in Windows, NEW least \in Floors, DetectDrift(b, w, least)
        PROVE  DriftInv'
    BY <1>2, <2>1 DEF DetectDrift, DriftInv
  <2>2. ASSUME NEW current \in {"default", "dearer"}, NEW cheaper \in {"default", "unknown"},
               Advise(current, cheaper)
        PROVE  DriftInv'
    <3>1. /\ watch = "reported" /\ watch' = "advised"
          /\ report[CostMetric].delta # Null
          /\ advice' = Suggest(report[CostMetric].delta[1], current, cheaper)
          /\ baseline' = baseline /\ window' = window /\ floor' = floor /\ report' = report
      BY <2>2 DEF Advise
    <3>2. Detect(baseline, window, floor)' = Detect(baseline', window', floor')
      BY DEF Detect
    <3>3. \E c1, c2 : advice' = Suggest(report'[CostMetric].delta[1], c1, c2)
      BY <3>1
    <3> QED
      BY <1>2, <3>1, <3>2, <3>3 DEF DriftInv
  <2>3. ASSUME UNCHANGED driftVars PROVE DriftInv'
    BY <1>2, <2>3 DEF driftVars, DriftInv
  <2> QED
    BY <1>2, <2>1, <2>2, <2>3 DEF DriftNext
<1> QED
  BY <1>1, <1>2, PTL DEF DriftSpec

\* What the report says of a metric.
LEMMA ReportIs ==
    ASSUME DriftInv, watch # "idle", NEW m \in Metrics, report[m] # NoDelta
    PROVE  /\ Len(baseline) >= floor
           /\ \E n, d, x, y \in Nat :
                 /\ n > 0 /\ d > 0 /\ y > 0
                 /\ Value(m, baseline) = <<n, d>> /\ Value(m, window) = <<x, y>>
                 /\ report[m] = [delta |-> <<Round(Moved(n, d, x, y))>>,
                                 drifted |-> Bad(m, Moved(n, d, x, y))]
<1>1. /\ baseline \in Seq([Quantities -> Nat]) /\ window \in Seq([Quantities -> Nat])
      /\ floor \in Nat /\ report = Detect(baseline, window, floor)
  BY DriftAssumption DEF DriftInv
<1>2. \/ Detect(baseline, window, floor)[m] = NoDelta
      \/ /\ Len(baseline) >= floor
         /\ \E n, d, x, y \in Nat :
               /\ n > 0 /\ d > 0 /\ y > 0
               /\ Value(m, baseline) = <<n, d>> /\ Value(m, window) = <<x, y>>
               /\ Detect(baseline, window, floor)[m] = [delta |-> <<Round(Moved(n, d, x, y))>>,
                                                        drifted |-> Bad(m, Moved(n, d, x, y))]
  BY <1>1, DetectIs, Zenon
<1>3. Detect(baseline, window, floor)[m] = report[m]
  BY <1>1
<1> QED
  BY <1>2, <1>3, Zenon

\* What a flagged metric has behind it.
LEMMA FlaggedIs ==
    ASSUME DriftInv, NEW m \in Drifted
    PROVE  /\ m \in Metrics /\ watch # "idle"
           /\ baseline \in Seq([Quantities -> Nat]) /\ window \in Seq([Quantities -> Nat])
           /\ Len(baseline) >= floor
           /\ \E n, d, x, y \in Nat :
                 /\ n > 0 /\ d > 0 /\ y > 0
                 /\ Value(m, baseline) = <<n, d>> /\ Value(m, window) = <<x, y>>
                 /\ Bad(m, Moved(n, d, x, y))
<1>1. m \in DOMAIN report /\ report[m].drifted
  BY DEF Drifted
<1>2. watch # "idle"
  <2> SUFFICES ASSUME watch = "idle" PROVE FALSE
    OBVIOUS
  <2>1. report = [k \in Metrics |-> NoDelta]
    BY DEF DriftInv
  <2> QED
    BY <1>1, <2>1 DEF NoDelta
<1>3. /\ baseline \in Seq([Quantities -> Nat]) /\ window \in Seq([Quantities -> Nat])
      /\ floor \in Nat /\ report = Detect(baseline, window, floor)
  BY <1>2, DriftAssumption DEF DriftInv
<1>4. m \in Metrics
  BY <1>1, <1>3 DEF Detect
<1>5. report[m] # NoDelta
  BY <1>1 DEF NoDelta
<1>6. PICK n, d, x, y \in Nat :
           /\ n > 0 /\ d > 0 /\ y > 0
           /\ Value(m, baseline) = <<n, d>> /\ Value(m, window) = <<x, y>>
           /\ report[m] = [delta |-> <<Round(Moved(n, d, x, y))>>, drifted |-> Bad(m, Moved(n, d, x, y))]
  BY <1>2, <1>4, <1>5, ReportIs, Zenon
<1>7. Bad(m, Moved(n, d, x, y))
  BY <1>1, <1>6
<1>8. Len(baseline) >= floor
  BY <1>2, <1>4, <1>5, ReportIs, Zenon
<1> QED
  BY <1>2, <1>3, <1>4, <1>6, <1>7, <1>8

\* A repeated baseline flags nothing but the error count.
LEMMA TrafficIsFine == ASSUME DriftInv PROVE TrafficIsNotDrift
<1> SUFFICES ASSUME Repeats(baseline, window), NEW m \in Drifted
             PROVE  m = ErrorsMetric /\ Amount(baseline, "errors") # 0
  BY DEF TrafficIsNotDrift
<1>1. /\ m \in Metrics
      /\ baseline \in Seq([Quantities -> Nat]) /\ window \in Seq([Quantities -> Nat])
  BY FlaggedIs
<1>2. PICK n, d, x, y \in Nat :
           /\ n > 0 /\ d > 0 /\ y > 0
           /\ Value(m, baseline) = <<n, d>> /\ Value(m, window) = <<x, y>>
           /\ Bad(m, Moved(n, d, x, y))
  BY FlaggedIs
<1>3. CASE m = ErrorsMetric
  <2>1. <<n, d>> = <<Amount(baseline, "errors"), 1>>
    BY <1>2, <1>3, ErrorCount
  <2>2. n = Amount(baseline, "errors")
    BY <2>1, Fractions
  <2> QED
    BY <2>2, <1>2, <1>3
<1>4. ASSUME m # ErrorsMetric PROVE FALSE
  <2>1. PICK k \in Nat : /\ k > 0 /\ Len(window) = k * Len(baseline)
                         /\ \A q \in Quantities : /\ Amount(window, q) = k * Amount(baseline, q)
                                                  /\ Having(window, q) = k * Having(baseline, q)
    BY <1>1, RepeatedWork
  <2>2. {"cost", "events", "calls", "latency", "errors", "findings"} = Quantities
    BY DEF Quantities
  <2>3. /\ \A q \in Quantities : Amount(baseline, q) \in Nat /\ Having(baseline, q) \in Nat
        /\ Len(baseline) \in Nat
    <3>1. \A q \in Quantities : Amount(baseline, q) \in Nat /\ Having(baseline, q) \in Nat
      BY <1>1, Columns, Zenon
    <3>2. Len(baseline) \in Nat
      BY <1>1, LenProperties
    <3> QED
      BY <3>1, <3>2
  <2>4. PICK N, D \in Nat : Value(m, baseline) = Ratio(N, D) /\ Value(m, window) = Ratio(k * N, k * D)
    <3>1. CASE m = CostMetric
      <4>1. /\ Value(m, baseline) = Ratio(Amount(baseline, "cost"), Having(baseline, "events"))
            /\ Value(m, window) = Ratio(Amount(window, "cost"), Having(window, "events"))
        BY <3>1, <1>4, DriftAssumption DEF Value
      <4> QED
        BY <4>1, <2>1, <2>2, <2>3
    <3>2. CASE m = LatencyMetric
      <4>1. /\ Value(m, baseline) = Ratio(Amount(baseline, "latency"), Amount(baseline, "calls"))
            /\ Value(m, window) = Ratio(Amount(window, "latency"), Amount(window, "calls"))
        BY <3>2, <1>4, DriftAssumption DEF Value
      <4> QED
        BY <4>1, <2>1, <2>2, <2>3
    <3>3. CASE m = CallsMetric
      <4>1. /\ Value(m, baseline) = Ratio(Amount(baseline, "calls"), Having(baseline, "calls"))
            /\ Value(m, window) = Ratio(Amount(window, "calls"), Having(window, "calls"))
        BY <3>3, <1>4, DriftAssumption DEF Value
      <4> QED
        BY <4>1, <2>1, <2>2, <2>3
    <3>4. CASE m = FindingsMetric
      <4>1. /\ Value(m, baseline) = Ratio(Amount(baseline, "findings"), Len(baseline))
            /\ Value(m, window) = Ratio(Amount(window, "findings"), Len(window))
        BY <3>4, <1>4, DriftAssumption DEF Value
      <4> QED
        BY <4>1, <2>1, <2>2, <2>3
    <3> QED
      BY <3>1, <3>2, <3>3, <3>4, <1>1, <1>4, FiveMetrics
  <2>5. /\ D # 0 /\ <<n, d>> = <<N, D>>
        /\ k * D # 0 /\ <<x, y>> = <<k * N, k * D>>
    <3>1. <<n, d>> = Ratio(N, D) /\ <<x, y>> = Ratio(k * N, k * D)
      BY <2>4, <1>2
    <3> QED
      BY <3>1, Fractions DEF Ratio
  <2>6. n = N /\ d = D /\ x = k * N /\ y = k * D
    BY <2>5, Fractions
  <2>7. x * d - n * y = 0
    BY <2>6, <2>1
  <2> DEFINE f == Moved(n, d, x, y)
  <2>8. n > 0 /\ y > 0 /\ Bad(m, f)
    BY <1>2
  <2>9. n > 0 /\ y > 0
    BY <2>8
  <2>10. f[1] \in Int /\ f[2] \in Nat /\ f[2] > 0 /\ f[1] = (x * d - n * y) * 10000
    BY <2>9, MovedIs
  <2>11. f[1] = 0
    BY <2>7, <2>10
  <2> HIDE DEF f
  <2>12. f[1] # 0
    BY <2>8, <2>10, BadIs
  <2> QED
    BY <2>11, <2>12
<1> QED
  BY <1>3, <1>4

\* A flag rests on a baseline with reviews and a value, and on a window with work in it.
LEMMA FlagsRest == ASSUME DriftInv PROVE FlagNeedsEvidence
<1> SUFFICES ASSUME NEW m \in Drifted
             PROVE  /\ Len(baseline) >= floor
                    /\ Value(m, baseline) # Null /\ Value(m, baseline)[1] > 0
                    /\ window # <<>>
  BY DEF FlagNeedsEvidence
<1>1. m \in Metrics /\ Len(baseline) >= floor
  BY FlaggedIs
<1>2. PICK n, d, x, y \in Nat :
           /\ n > 0 /\ d > 0 /\ y > 0
           /\ Value(m, baseline) = <<n, d>> /\ Value(m, window) = <<x, y>>
           /\ Bad(m, Moved(n, d, x, y))
  BY FlaggedIs
<1>3. Value(m, baseline) # Null /\ Value(m, baseline)[1] > 0
  BY <1>2, Fractions
<1>4. ASSUME window = <<>> PROVE FALSE
  <2>1. m = ErrorsMetric /\ <<x, y>> = <<0, 1>>
    BY <1>1, <1>2, <1>4, NothingRan, Fractions
  <2>2. x = 0 /\ m # FindingsMetric
    BY <2>1, Fractions, DriftAssumption
  <2> DEFINE f == Moved(n, d, x, y)
  <2>3. n > 0 /\ y > 0 /\ Bad(m, f)
    BY <1>2
  <2>4. n > 0 /\ y > 0
    BY <2>3
  <2>5. /\ f[1] \in Int /\ f[2] \in Nat /\ f[2] > 0
        /\ f[1] = (x * d - n * y) * 10000 /\ f[2] = n * y
    BY <2>4, MovedIs
  <2>6. x * d = 0
    BY <2>2
  <2>7. f[1] = (0 - f[2]) * 10000
    BY <2>5, <2>6
  <2> HIDE DEF f
  <2>8. f[1] > 0
    BY <2>2, <2>3, <2>5, BadIs
  <2> QED
    BY <2>5, <2>7, <2>8
<1> QED
  BY <1>1, <1>3, <1>4

\* The advice and the cost flag differ only when the rounded change is the threshold itself.
LEMMA AdviceFollows == ASSUME DriftInv PROVE AdviceFollowsReport
<1> SUFFICES ASSUME watch = "advised"
             PROVE  /\ advice.pressure = "high" => CostMetric \in Drifted
                    /\ (CostMetric \in Drifted /\ advice.pressure = "none") =>
                           report[CostMetric].delta[1] = Threshold * 100
  BY DEF AdviceFollowsReport
<1>1. /\ baseline \in Seq([Quantities -> Nat]) /\ window \in Seq([Quantities -> Nat])
      /\ floor \in Nat /\ report = Detect(baseline, window, floor)
      /\ report[CostMetric].delta # Null
  BY DriftAssumption DEF DriftInv
<1>2. PICK current, cheaper : advice = Suggest(report[CostMetric].delta[1], current, cheaper)
  BY DEF DriftInv
<1>3. CostMetric \in Metrics /\ CostMetric \in DOMAIN report
  BY <1>1 DEF Metrics, Detect
<1>4. report[CostMetric] # NoDelta
  BY <1>1 DEF NoDelta
<1>5. PICK n, d, x, y \in Nat :
           /\ n > 0 /\ d > 0 /\ y > 0
           /\ report[CostMetric] = [delta |-> <<Round(Moved(n, d, x, y))>>,
                                    drifted |-> Bad(CostMetric, Moved(n, d, x, y))]
  <2>1. watch # "idle"
    OBVIOUS
  <2> QED
    BY <2>1, <1>3, <1>4, ReportIs, Zenon
<1> DEFINE f == Moved(n, d, x, y)
           z == Round(f)
<1>6. f[1] \in Int /\ f[2] \in Nat /\ f[2] > 0
  <2>1. n > 0 /\ y > 0
    BY <1>5
  <2> QED
    BY <2>1, MovedIs
<1>7. report[CostMetric].delta[1] = z /\ (CostMetric \in Drifted <=> Bad(CostMetric, f))
  BY <1>3, <1>5 DEF Drifted
<1>8. PICK h \in Int : h = Threshold * 100
  BY DriftAssumption
<1>9. Bad(CostMetric, f) <=> f[1] > h * f[2]
  BY <1>8, DriftAssumption DEF Bad
<1>10. z \in Int /\ (z > h => f[1] > h * f[2]) /\ (f[1] > h * f[2] /\ z <= h => z = h)
  <2> HIDE DEF f
  <2> QED
    BY <1>6, RoundingIsClose
<1> HIDE DEF z
<1>11. advice.pressure = IF z <= h THEN "none" ELSE "high"
  BY <1>2, <1>7, <1>8 DEF Suggest
<1> QED
  BY <1>7, <1>8, <1>9, <1>10, <1>11

\* The variables keep their types.
LEMMA DriftTypes == ASSUME DriftInv PROVE DriftTypeOK
<1>1. DOMAIN report = Metrics
  BY DEF DriftInv, Detect
<1>2. ASSUME NEW m \in Metrics PROVE Len(report[m].delta) <= 1 /\ report[m].drifted \in BOOLEAN
  <2>1. Len(NoDelta.delta) <= 1 /\ NoDelta.drifted \in BOOLEAN
    BY DEF NoDelta, Null
  <2>2. CASE watch = "idle"
    BY <2>1, <2>2 DEF DriftInv
  <2>3. CASE watch # "idle"
    <3>2. CASE report[m] = NoDelta
      BY <2>1, <3>2
    <3>3. CASE report[m] # NoDelta
      <4>1. PICK n, d, x, y \in Nat :
                 /\ n > 0 /\ d > 0 /\ y > 0
                 /\ Value(m, baseline) = <<n, d>> /\ Value(m, window) = <<x, y>>
                 /\ report[m] = [delta |-> <<Round(Moved(n, d, x, y))>>,
                                 drifted |-> Bad(m, Moved(n, d, x, y))]
        BY <2>3, <3>3, ReportIs, Zenon
      <4>2. Bad(m, Moved(n, d, x, y)) \in BOOLEAN
        BY <4>1, MovedIs, BadIs
      <4>3. Len(<<Round(Moved(n, d, x, y))>>) = 1
        OBVIOUS
      <4> QED
        BY <4>1, <4>2, <4>3
    <3> QED
      BY <3>2, <3>3
  <2> QED
    BY <2>2, <2>3
<1>3. advice.pressure \in {"none", "high"}
  BY DEF DriftInv, NoAdvice, Suggest
<1> QED
  BY <1>1, <1>2, <1>3 DEF DriftTypeOK, DriftInv

\* For any windows of any length, any threshold and sample floor, what the drift report
\* flags and what is advised on it is sound (observability/drift.py:detect_drift,
\* economics/routing_advisor.py:suggest_model).
THEOREM DriftSound == DriftSpec => []DriftIsSound
<1>1. DriftInv => DriftIsSound
  BY TrafficIsFine, FlagsRest, AdviceFollows, DriftTypes DEF DriftIsSound
<1> QED
  BY <1>1, DriftInvariant, PTL

-----------------------------------------------------------------------------
(* The judge. *)

\* A list of expectations and a list of reported findings.
Lists(e, a) == /\ Len(e) \in Nat /\ DOMAIN e = 1..Len(e)
               /\ Len(a) \in Nat /\ DOMAIN a = 1..Len(a)

\* Half points are 0, 1 or 2; they are 2 for the same finding only.
LEMMA PointsAre ==
    \A x, g : /\ Points(x, g) \in 0..2
              /\ Points(x, g) = 2 <=> SameFinding(x, g)
BY DEF Points, SameFinding

ClaimSet(e) == [used : SUBSET (1..Len(e)), points : Nat]

\* What x takes of the expectations e when c are claimed: nothing, since it would score
\* nothing, or one it scores best against.
Takes(e, x, c, d) ==
    \/ d = c /\ \A i \in (1..Len(e)) \ c.used : Points(x, e[i]) = 0
    \/ \E m \in (1..Len(e)) \ c.used :
           /\ Points(x, e[m]) > 0
           /\ \A i \in (1..Len(e)) \ c.used : Points(x, e[i]) <= Points(x, e[m])
           /\ d = [used |-> c.used \cup {m}, points |-> c.points + Points(x, e[m])]

\* What Claim returns.
LEMMA ClaimIs ==
    ASSUME NEW e, Len(e) \in Nat, DOMAIN e = 1..Len(e), NEW c \in ClaimSet(e), NEW x
    PROVE  Takes(e, x, c, Claim(e, c, x)) /\ Claim(e, c, x) \in ClaimSet(e)
<1> DEFINE free == {i \in DOMAIN e \ c.used : Points(x, e[i]) > 0}
           best == {i \in free : \A j \in free : Points(x, e[i]) >= Points(x, e[j])}
<1>1. \A i : Points(x, e[i]) \in 0..2
  BY PointsAre
<1>2. CASE free = {}
  <2>1. Claim(e, c, x) = c
    BY <1>2 DEF Claim
  <2>2. \A i \in (1..Len(e)) \ c.used : Points(x, e[i]) = 0
    BY <1>1, <1>2
  <2> QED
    BY <2>1, <2>2 DEF Takes
<1>3. CASE free # {}
  <2>1. best # {}
    <3>1. CASE \E i \in free : Points(x, e[i]) = 2
      <4>1. PICK i \in free : Points(x, e[i]) = 2
        BY <3>1
      <4>2. \A j \in free : Points(x, e[i]) >= Points(x, e[j])
        BY <1>1, <4>1
      <4> QED
        BY <4>2
    <3>2. CASE \A i \in free : Points(x, e[i]) # 2
      <4>1. \A i \in free : Points(x, e[i]) = 1
        BY <1>1, <3>2
      <4> QED
        BY <4>1, <1>3
    <3> QED
      BY <3>1, <3>2
  <2>2. best \subseteq Nat
    OBVIOUS
  <2> DEFINE m == Min(best)
  <2>3. m \in best
    BY <2>1, <2>2, MinIs
  <2>4. Claim(e, c, x) = [used |-> c.used \cup {m}, points |-> c.points + Points(x, e[m])]
    BY <1>3 DEF Claim
  <2> HIDE DEF m
  <2>5. m \in (1..Len(e)) \ c.used /\ Points(x, e[m]) > 0 /\ Points(x, e[m]) \in 0..2
    BY <2>3, <1>1
  <2>6. \A i \in (1..Len(e)) \ c.used : Points(x, e[i]) <= Points(x, e[m])
    <3> SUFFICES ASSUME NEW i \in (1..Len(e)) \ c.used PROVE Points(x, e[i]) <= Points(x, e[m])
      OBVIOUS
    <3>1. CASE i \in free
      <4>1. Points(x, e[m]) >= Points(x, e[i])
        BY <2>3, <3>1
      <4> QED
        BY <4>1, <1>1
    <3>2. CASE i \notin free
      BY <3>2, <1>1, <2>5
    <3> QED
      BY <3>1, <3>2
  <2>7. Claim(e, c, x) \in ClaimSet(e)
    BY <2>4, <2>5 DEF ClaimSet
  <2> QED
    BY <2>4, <2>5, <2>6, <2>7 DEF Takes
<1> QED
  BY <1>2, <1>3

\* Claims takes one finding after the other.
LEMMA ClaimsAre ==
    ASSUME NEW e, NEW a, Lists(e, a)
    PROVE  /\ Claims(e, a) \in [0..Len(a) -> ClaimSet(e)]
           /\ Claims(e, a)[0] = [used |-> {}, points |-> 0]
           /\ \A k \in 1..Len(a) : Takes(e, a[k], Claims(e, a)[k - 1], Claims(e, a)[k])
<1> DEFINE n == Len(a)
           V == ClaimSet(e)
           base == [used |-> {}, points |-> 0]
           step == [p \in (1..n) \X V |-> Claim(e, p[2], a[p[1]])]
           F(f) == f = [i \in 0..n |-> IF i = 0 THEN base ELSE Claim(e, f[i - 1], a[i])]
           u == CHOOSE f : F(f)
<1>1. n \in Nat /\ base \in V /\ step \in [(1..n) \X V -> V]
  BY ClaimIs DEF Lists, ClaimSet
<1>2. Claims(e, a) = u
  BY DEF Claims
<1>3. \E f : F(f)
  <2> HIDE DEF V, base, step
  <2>1. PICK f \in [0..n -> V] : f = [i \in 0..n |-> IF i = 0 THEN base ELSE step[<<i, f[i - 1]>>]]
    <3>1. \E f \in [0..n -> V] : StepByStep(f, n, base, step)
      BY <1>1, Recursion
    <3> QED
      BY <3>1 DEF StepByStep
  <2>2. \A i \in 1..n : step[<<i, f[i - 1]>>] = Claim(e, f[i - 1], a[i])
    <3> SUFFICES ASSUME NEW i \in 1..n PROVE step[<<i, f[i - 1]>>] = Claim(e, f[i - 1], a[i])
      OBVIOUS
    <3>1. i - 1 \in 0..n
      BY <1>1
    <3>2. <<i, f[i - 1]>> \in (1..n) \X V
      BY <3>1, <2>1
    <3> QED
      BY <3>2 DEF step
  <2>3. \A i \in 0..n : f[i] = IF i = 0 THEN base ELSE Claim(e, f[i - 1], a[i])
    <3> SUFFICES ASSUME NEW i \in 0..n PROVE f[i] = IF i = 0 THEN base ELSE Claim(e, f[i - 1], a[i])
      OBVIOUS
    <3>1. f[i] = IF i = 0 THEN base ELSE step[<<i, f[i - 1]>>]
      BY <2>1
    <3>2. i # 0 => i \in 1..n
      BY <1>1
    <3> QED
      BY <3>1, <3>2, <2>2
  <2>4. f = [i \in 0..n |-> f[i]]
    BY <2>1
  <2> QED
    BY <2>3, <2>4
<1>4. F(u)
  BY <1>3
<1> HIDE DEF u
<1>5. /\ u[0] = base
      /\ \A i \in 1..n : u[i] = Claim(e, u[i - 1], a[i])
  <2>1. \A i \in 0..n : u[i] = IF i = 0 THEN base ELSE Claim(e, u[i - 1], a[i])
    BY <1>4
  <2>2. DOMAIN u = 0..n
    BY <1>4
  <2>3. 0 \in 0..n /\ \A i \in 1..n : i \in 0..n /\ i # 0
    BY <1>1
  <2> QED
    BY <2>1, <2>2, <2>3
<1>9. u = [i \in 0..n |-> u[i]]
  BY <1>4
<1> DEFINE S == {i \in 0..n : u[i] \in V}
<1>6. \A i \in 0..n : i \in S
  <2>1. 0 \in S
    <3>1. 0 \in 0..n /\ u[0] \in V
      BY <1>1, <1>5
    <3> HIDE DEF V, n
    <3> QED
      BY <3>1
  <2>2. ASSUME NEW i \in 1..n, i - 1 \in S PROVE i \in S
    <3>4. u[i - 1] \in V
      BY <2>2
    <3>1. u[i - 1] \in V /\ u[i] = Claim(e, u[i - 1], a[i]) /\ i \in 0..n
      BY <3>4, <1>1, <1>5
    <3>2. Len(e) \in Nat /\ DOMAIN e = 1..Len(e)
      BY DEF Lists
    <3> HIDE DEF V, n
    <3>3. u[i] \in V
      BY <3>1, <3>2, ClaimIs DEF V
    <3> QED
      BY <3>1, <3>3
  <2> HIDE DEF S, n
  <2> QED
    BY <1>1, <2>1, <2>2, Induction
<1>7. u \in [0..n -> V]
  <2> HIDE DEF V
  <2>1. \A i \in 0..n : u[i] \in V
    BY <1>6
  <2> QED
    BY <2>1, <1>9
<1>8. ASSUME NEW k \in 1..n PROVE Takes(e, a[k], u[k - 1], u[k])
  <2>1. k - 1 \in 0..n
    BY <1>1
  <2>2. u[k - 1] \in V /\ u[k] = Claim(e, u[k - 1], a[k])
    BY <2>1, <1>5, <1>6
  <2>3. Len(e) \in Nat /\ DOMAIN e = 1..Len(e)
    BY DEF Lists
  <2> HIDE DEF V, n
  <2> QED
    BY <2>2, <2>3, ClaimIs DEF V
<1> QED
  BY <1>2, <1>5, <1>7, <1>8

\* What the first k findings have claimed.
Taken(e, a, k) == Claims(e, a)[k].used
Gained(e, a, k) == Claims(e, a)[k].points

\* The expectation each finding claims, or 0.
Greedy(e, a) ==
    [k \in 1..Len(a) |-> IF Taken(e, a, k) = Taken(e, a, k - 1) THEN 0
                         ELSE CHOOSE m : m \in Taken(e, a, k) \ Taken(e, a, k - 1)]

\* What an assignment is worth, finding by finding.
Worth(e, a, s) == [i \in 1..Len(a) |-> IF s[i] = 0 THEN 0 ELSE Points(a[i], e[s[i]])]

\* One step of the greedy assignment.
GreedyStep(e, a, k) ==
    LET m == Greedy(e, a)[k]
        open == (1..Len(e)) \ Taken(e, a, k - 1)
    IN  /\ m = 0 => /\ Taken(e, a, k) = Taken(e, a, k - 1)
                    /\ Gained(e, a, k) = Gained(e, a, k - 1)
                    /\ \A i \in open : Points(a[k], e[i]) = 0
        /\ m # 0 => /\ m \in open
                    /\ Taken(e, a, k) = Taken(e, a, k - 1) \cup {m}
                    /\ Gained(e, a, k) = Gained(e, a, k - 1) + Points(a[k], e[m])
                    /\ Points(a[k], e[m]) > 0
                    /\ \A i \in open : Points(a[k], e[i]) <= Points(a[k], e[m])

\* Every finding claims what GreedyStep says.
LEMMA GreedySteps ==
    ASSUME NEW e, NEW a, Lists(e, a)
    PROVE  /\ Taken(e, a, 0) = {} /\ Gained(e, a, 0) = 0
           /\ \A k \in 0..Len(a) : Taken(e, a, k) \subseteq 1..Len(e) /\ Gained(e, a, k) \in Nat
           /\ \A k \in 1..Len(a) : GreedyStep(e, a, k)
<1>1. /\ Claims(e, a) \in [0..Len(a) -> ClaimSet(e)]
      /\ Claims(e, a)[0] = [used |-> {}, points |-> 0]
      /\ \A k \in 1..Len(a) : Takes(e, a[k], Claims(e, a)[k - 1], Claims(e, a)[k])
  BY ClaimsAre
<1>2. Taken(e, a, 0) = {} /\ Gained(e, a, 0) = 0
  BY <1>1 DEF Taken, Gained
<1>3. \A k \in 0..Len(a) : Taken(e, a, k) \subseteq 1..Len(e) /\ Gained(e, a, k) \in Nat
  BY <1>1 DEF Taken, Gained, ClaimSet
<1>4. ASSUME NEW k \in 1..Len(a) PROVE GreedyStep(e, a, k)
  <2> DEFINE c == Claims(e, a)[k - 1]
             d == Claims(e, a)[k]
             m == Greedy(e, a)[k]
  <2>1. Takes(e, a[k], c, d)
    BY <1>1
  <2>2. /\ c.used = Taken(e, a, k - 1) /\ c.points = Gained(e, a, k - 1)
        /\ d.used = Taken(e, a, k) /\ d.points = Gained(e, a, k)
    BY DEF Taken, Gained
  <2>3. m = IF d.used = c.used THEN 0 ELSE CHOOSE x : x \in d.used \ c.used
    BY <2>2 DEF Greedy
  <2> HIDE DEF c, d, m
  <2>4. CASE d = c /\ \A i \in (1..Len(e)) \ c.used : Points(a[k], e[i]) = 0
    <3>1. m = 0
      BY <2>3, <2>4
    <3> QED
      BY <3>1, <2>2, <2>4 DEF GreedyStep, m
  <2>5. CASE \E x \in (1..Len(e)) \ c.used :
               /\ Points(a[k], e[x]) > 0
               /\ \A i \in (1..Len(e)) \ c.used : Points(a[k], e[i]) <= Points(a[k], e[x])
               /\ d = [used |-> c.used \cup {x}, points |-> c.points + Points(a[k], e[x])]
    <3>1. PICK x \in (1..Len(e)) \ c.used :
               /\ Points(a[k], e[x]) > 0
               /\ \A i \in (1..Len(e)) \ c.used : Points(a[k], e[i]) <= Points(a[k], e[x])
               /\ d = [used |-> c.used \cup {x}, points |-> c.points + Points(a[k], e[x])]
      BY <2>5
    <3>2. d.used = c.used \cup {x} /\ d.points = c.points + Points(a[k], e[x])
      BY <3>1
    <3>3. d.used \ c.used = {x} /\ d.used # c.used
      BY <3>2
    <3>4. m = x /\ x # 0
      BY <2>3, <3>3
    <3> QED
      BY <3>1, <3>2, <3>4, <2>2 DEF GreedyStep, m
  <2> QED
    BY <2>1, <2>4, <2>5 DEF Takes
<1> QED
  BY <1>2, <1>3, <1>4

\* What is claimed stays claimed; it is what the greedy assignment assigns.
LEMMA ClaimedIs ==
    ASSUME NEW e, NEW a, Lists(e, a)
    PROVE  \A k \in 0..Len(a) :
               /\ Taken(e, a, k) = {Greedy(e, a)[j] : j \in 1..k} \ {0}
               /\ \A j \in 0..k : Taken(e, a, j) \subseteq Taken(e, a, k)
<1> DEFINE n == Len(a)
           s == Greedy(e, a)
           S == {k \in 0..n : /\ Taken(e, a, k) = {s[j] : j \in 1..k} \ {0}
                              /\ \A j \in 0..k : Taken(e, a, j) \subseteq Taken(e, a, k)}
<1>1. n \in Nat
  BY DEF Lists
<1> HIDE DEF n, s
<1>2. 0 \in S
  BY <1>1, GreedySteps
<1>3. ASSUME NEW k \in 1..n, k - 1 \in S PROVE k \in S
  <2>1. /\ Taken(e, a, k - 1) = {s[j] : j \in 1..(k - 1)} \ {0}
        /\ \A j \in 0..(k - 1) : Taken(e, a, j) \subseteq Taken(e, a, k - 1)
    BY <1>3
  <2>2. IF s[k] = 0 THEN Taken(e, a, k) = Taken(e, a, k - 1) ELSE Taken(e, a, k) = Taken(e, a, k - 1) \cup {s[k]}
    BY GreedySteps DEF GreedyStep, n, s
  <2>3. {s[j] : j \in 1..k} = {s[j] : j \in 1..(k - 1)} \cup {s[k]}
    <3>1. 1..k = (1..(k - 1)) \cup {k}
      BY <1>1
    <3> QED
      BY <3>1
  <2>4. \A j \in 0..k : j = k \/ j \in 0..(k - 1)
    BY <1>1
  <2>5. Taken(e, a, k) = {s[j] : j \in 1..k} \ {0}
    BY <2>1, <2>2, <2>3
  <2>6. \A j \in 0..k : Taken(e, a, j) \subseteq Taken(e, a, k)
    BY <2>1, <2>2, <2>4
  <2>7. k \in 0..n
    BY <1>1
  <2> QED
    BY <2>5, <2>6, <2>7
<1>4. \A k \in 0..n : k \in S
  <2> HIDE DEF S
  <2> QED
    BY <1>1, <1>2, <1>3, Induction
<1> QED
  BY <1>4 DEF n, s

\* The greedy assignment uses no expectation twice, and is worth what the judge counts.
LEMMA GreedyAssigns ==
    ASSUME NEW e, NEW a, Lists(e, a)
    PROVE  /\ Greedy(e, a) \in Assignments(e, a)
           /\ SumFunction(Worth(e, a, Greedy(e, a))) = Matched(e, a)
<1> DEFINE n == Len(a)
           s == Greedy(e, a)
           w == Worth(e, a, s)
<1>1. n \in Nat /\ Len(e) \in Nat
  BY DEF Lists
<1>2. \A k \in 1..n : s[k] = 0 \/ (s[k] \in 1..Len(e) /\ s[k] \notin Taken(e, a, k - 1) /\ s[k] \in Taken(e, a, k))
  BY GreedySteps DEF GreedyStep
<1>3. s \in [1..n -> 0..Len(e)]
  <2>1. s = [k \in 1..n |-> s[k]]
    BY DEF Greedy
  <2>2. \A k \in 1..n : s[k] \in 0..Len(e)
    BY <1>1, <1>2
  <2> HIDE DEF s, n
  <2> QED
    BY <2>1, <2>2
<1>4. ASSUME NEW i \in 1..n, NEW j \in 1..n, i < j, s[i] = s[j] PROVE s[i] = 0
  <2> SUFFICES ASSUME s[i] # 0 PROVE FALSE
    OBVIOUS
  <2>1. s[i] \in Taken(e, a, i) /\ s[j] \notin Taken(e, a, j - 1)
    BY <1>2, <1>4
  <2>2. i \in 0..(j - 1) /\ j - 1 \in 0..n
    BY <1>1, <1>4
  <2>3. Taken(e, a, i) \subseteq Taken(e, a, j - 1)
    BY <2>2, ClaimedIs
  <2> QED
    BY <2>1, <2>3, <1>4
<1>5. s \in Assignments(e, a)
  <2>1. \A i, j \in 1..n : i # j => i < j \/ j < i
    OBVIOUS
  <2> HIDE DEF s
  <2>2. \A i, j \in 1..n : (i # j /\ s[i] = s[j]) => s[i] = 0
    BY <2>1, <1>4
  <2> QED
    BY <2>2, <1>3 DEF Assignments
<1>6. w \in [1..n -> Nat] /\ \A k \in 1..n : Gained(e, a, k) = Gained(e, a, k - 1) + w[k]
  <2>1. w \in [1..n -> Nat]
    BY PointsAre DEF Worth
  <2>2. ASSUME NEW k \in 1..n PROVE Gained(e, a, k) = Gained(e, a, k - 1) + w[k]
    <3>1. w[k] = IF s[k] = 0 THEN 0 ELSE Points(a[k], e[s[k]])
      BY DEF Worth
    <3>2. k - 1 \in 0..n /\ Gained(e, a, k - 1) \in Nat
      BY <1>1, GreedySteps
    <3> QED
      BY <3>1, <3>2, GreedySteps DEF GreedyStep
  <2> QED
    BY <2>1, <2>2
<1> HIDE DEF w
<1>7. /\ SumFunctionOnSet(w, 1..0) = 0 /\ SumFunctionOnSet(w, 1..n) = SumFunction(w)
      /\ \A i \in 1..n : SumFunctionOnSet(w, 1..i) = SumFunctionOnSet(w, 1..(i - 1)) + w[i]
  BY <1>1, <1>6, SumsOfSequence
<1> DEFINE S == {k \in 0..n : SumFunctionOnSet(w, 1..k) = Gained(e, a, k)}
<1>8. \A k \in 0..n : k \in S
  <2> HIDE DEF n
  <2>1. 0 \in S
    BY <1>1, <1>7, GreedySteps DEF n
  <2>2. ASSUME NEW k \in 1..n, k - 1 \in S PROVE k \in S
    <3>1. SumFunctionOnSet(w, 1..(k - 1)) = Gained(e, a, k - 1) /\ k \in 0..n
      BY <2>2, <1>1
    <3>2. SumFunctionOnSet(w, 1..k) = Gained(e, a, k)
      BY <3>1, <1>6, <1>7
    <3> QED
      BY <3>1, <3>2
  <2> HIDE DEF S
  <2> QED
    BY <1>1, <2>1, <2>2, Induction
<1>9. n \in 0..n
  BY <1>1
<1>10. SumFunction(w) = Gained(e, a, n)
  BY <1>7, <1>8, <1>9
<1> QED
  BY <1>5, <1>10 DEF w, Gained, Matched

\* Each expectation claimed is worth a half point or more.
LEMMA ClaimsCount ==
    ASSUME NEW e, NEW a, Lists(e, a)
    PROVE  \A k \in 0..Len(a) :
               /\ IsFiniteSet(Taken(e, a, k)) /\ Cardinality(Taken(e, a, k)) \in Nat
               /\ Cardinality(Taken(e, a, k)) <= Gained(e, a, k)
<1> DEFINE n == Len(a)
           S == {k \in 0..n : Cardinality(Taken(e, a, k)) <= Gained(e, a, k)}
<1>1. n \in Nat /\ Len(e) \in Nat /\ IsFiniteSet(1..Len(e))
  BY FS_Interval DEF Lists
<1>2. \A k \in 0..n : IsFiniteSet(Taken(e, a, k)) /\ Cardinality(Taken(e, a, k)) \in Nat
  <2>1. \A k \in 0..n : IsFiniteSet(Taken(e, a, k))
    BY <1>1, GreedySteps, FS_Subset
  <2> QED
    BY <2>1, FS_CardinalityType
<1>3. 0 \in S
  <2>1. Taken(e, a, 0) = {} /\ Gained(e, a, 0) = 0 /\ Cardinality({}) = 0
    BY GreedySteps, FS_EmptySet
  <2>2. Cardinality(Taken(e, a, 0)) <= Gained(e, a, 0)
    BY <2>1
  <2> QED
    BY <1>1, <2>2
<1>4. ASSUME NEW k \in 1..n, k - 1 \in S PROVE k \in S
  <2>1. k - 1 \in 0..n /\ k \in 0..n
    BY <1>1
  <2>2. /\ Cardinality(Taken(e, a, k - 1)) <= Gained(e, a, k - 1)
        /\ Cardinality(Taken(e, a, k - 1)) \in Nat /\ IsFiniteSet(Taken(e, a, k - 1))
        /\ Gained(e, a, k - 1) \in Nat
    BY <1>2, <1>4, <2>1, GreedySteps
  <2> DEFINE m == Greedy(e, a)[k]
  <2>3. CASE m = 0
    BY <2>1, <2>2, <2>3, GreedySteps DEF GreedyStep
  <2>4. CASE m # 0
    <3>1. /\ m \notin Taken(e, a, k - 1) /\ Taken(e, a, k) = Taken(e, a, k - 1) \cup {m}
          /\ Gained(e, a, k) = Gained(e, a, k - 1) + Points(a[k], e[m])
          /\ Points(a[k], e[m]) > 0 /\ Points(a[k], e[m]) \in 0..2
      BY <2>4, GreedySteps, PointsAre DEF GreedyStep
    <3> HIDE DEF m
    <3>2. Cardinality(Taken(e, a, k)) = Cardinality(Taken(e, a, k - 1)) + 1
      BY <2>2, <3>1, FS_AddElement
    <3>3. Cardinality(Taken(e, a, k)) <= Gained(e, a, k)
      BY <2>2, <3>1, <3>2
    <3> QED
      BY <2>1, <3>3
  <2> QED
    BY <2>3, <2>4
<1>5. \A k \in 0..n : k \in S
  <2> HIDE DEF S, n
  <2> QED
    BY <1>1, <1>3, <1>4, Induction
<1> QED
  BY <1>2, <1>5

\* No assignment is worth more than three times what is claimed: a finding is matched no
\* better than by its own claim, or to an expectation claimed before.
LEMMA ThirdOfAny ==
    ASSUME NEW e, NEW a, Lists(e, a), NEW s \in Assignments(e, a)
    PROVE  /\ SumFunction(Worth(e, a, s)) \in Nat
           /\ SumFunction(Worth(e, a, s)) <= 3 * Matched(e, a)
           /\ Matched(e, a) \in Nat
<1> DEFINE n == Len(a)
           w == Worth(e, a, s)
           W(k) == SumFunctionOnSet(w, 1..k)
           Hit(k) == {s[j] : j \in 1..k} \cap Taken(e, a, k)
<1>1. n \in Nat /\ Len(e) \in Nat
  BY DEF Lists
<1>2. s \in [1..n -> 0..Len(e)] /\ \A i, j \in 1..n : (i # j /\ s[i] = s[j]) => s[i] = 0
  BY DEF Assignments
<1>3. w \in [1..n -> 0..2] /\ \A k \in 1..n : w[k] = IF s[k] = 0 THEN 0 ELSE Points(a[k], e[s[k]])
  BY PointsAre DEF Worth
<1> HIDE DEF w, n
<1>4. w \in [1..n -> Nat]
  BY <1>3
<1>5. /\ SumFunctionOnSet(w, 1..0) = 0 /\ SumFunctionOnSet(w, 1..n) = SumFunction(w)
      /\ \A i \in 0..n : SumFunctionOnSet(w, 1..i) \in Nat
      /\ \A i \in 1..n : SumFunctionOnSet(w, 1..i) = SumFunctionOnSet(w, 1..(i - 1)) + w[i]
  BY <1>1, <1>4, SumsOfSequence
<1>6. \A k \in 0..n : /\ IsFiniteSet(Taken(e, a, k)) /\ Cardinality(Taken(e, a, k)) \in Nat
                      /\ Cardinality(Taken(e, a, k)) <= Gained(e, a, k) /\ Gained(e, a, k) \in Nat
                      /\ Taken(e, a, k) \subseteq 1..Len(e)
  BY ClaimsCount, GreedySteps DEF n
<1>7. \A k \in 0..n : /\ IsFiniteSet(Hit(k)) /\ Cardinality(Hit(k)) \in Nat
                      /\ Cardinality(Hit(k)) <= Cardinality(Taken(e, a, k))
  <2>1. \A k \in 0..n : IsFiniteSet(Hit(k)) /\ Cardinality(Hit(k)) <= Cardinality(Taken(e, a, k))
    BY <1>6, FS_Subset
  <2> HIDE DEF Hit
  <2> QED
    BY <2>1, FS_CardinalityType
<1> DEFINE S == {k \in 0..n : W(k) <= Gained(e, a, k) + 2 * Cardinality(Hit(k))}
<1>8. 0 \in S
  <2>1. W(0) = 0 /\ 0 \in 0..n
    BY <1>1, <1>5
  <2> HIDE DEF W, Hit
  <2> QED
    BY <2>1, <1>6, <1>7
<1>9. ASSUME NEW k \in 1..n, k - 1 \in S PROVE k \in S
  <2>1. k - 1 \in 0..n /\ k \in 0..n
    BY <1>1
  <2>2. W(k) = W(k - 1) + w[k] /\ W(k - 1) \in Nat /\ w[k] \in 0..2
    BY <1>3, <1>5, <2>1
  <2>3. W(k - 1) <= Gained(e, a, k - 1) + 2 * Cardinality(Hit(k - 1))
    BY <1>9
  <2>4. Taken(e, a, k - 1) \subseteq Taken(e, a, k) /\ Gained(e, a, k) >= Gained(e, a, k - 1)
    <3>1. Taken(e, a, k - 1) \subseteq Taken(e, a, k)
      BY <1>1, <2>1, ClaimedIs DEF n
    <3>2. GreedyStep(e, a, k)
      BY GreedySteps DEF n
    <3>3. \A m : Points(a[k], e[m]) \in 0..2
      BY PointsAre
    <3>4. Gained(e, a, k) \in Nat /\ Gained(e, a, k - 1) \in Nat
      BY <1>6, <2>1
    <3>5. Gained(e, a, k) >= Gained(e, a, k - 1)
      <4>1. CASE Greedy(e, a)[k] = 0
        BY <4>1, <3>2, <3>4 DEF GreedyStep
      <4>2. CASE Greedy(e, a)[k] # 0
        BY <4>2, <3>2, <3>3, <3>4 DEF GreedyStep
      <4> QED
        BY <4>1, <4>2
    <3> QED
      BY <3>1, <3>5
  <2>5. Hit(k - 1) \subseteq Hit(k)
    BY <2>4, <1>1
  <2>6. CASE s[k] \in Taken(e, a, k - 1)
    <3>1. s[k] \notin Hit(k - 1)
      <4>1. s[k] # 0
        BY <2>6, <1>6, <2>1
      <4>2. \A j \in 1..(k - 1) : s[j] # s[k]
        <5>1. \A j \in 1..(k - 1) : j \in 1..n /\ j # k
          BY <1>1
        <5> QED
          BY <5>1, <4>1, <1>2
      <4> QED
        BY <4>2
    <3>2. Hit(k - 1) \cup {s[k]} \subseteq Hit(k)
      <4>1. k \in 1..k
        BY <1>1
      <4> QED
        BY <4>1, <2>4, <2>5, <2>6
    <3> HIDE DEF Hit, W
    <3>3. Cardinality(Hit(k - 1) \cup {s[k]}) = Cardinality(Hit(k - 1)) + 1
      BY <3>1, <1>7, <2>1, FS_AddElement
    <3>4. Cardinality(Hit(k - 1) \cup {s[k]}) <= Cardinality(Hit(k))
      BY <3>2, <1>7, <2>1, FS_Subset
    <3>5. PICK x \in Nat, y \in Nat, g \in Nat, h \in Nat, p \in Nat, q \in 0..2 :
              /\ x = Cardinality(Hit(k - 1)) /\ y = Cardinality(Hit(k))
              /\ g = Gained(e, a, k - 1) /\ h = Gained(e, a, k) /\ p = W(k - 1) /\ q = w[k]
      BY <1>6, <1>7, <2>1, <2>2
    <3>6. x + 1 <= y /\ g <= h /\ p <= g + 2 * x
      BY <3>3, <3>4, <3>5, <2>3, <2>4
    <3>7. p + q <= h + 2 * y
      BY <3>6
    <3>8. W(k) <= Gained(e, a, k) + 2 * Cardinality(Hit(k))
      BY <3>5, <3>7, <2>2
    <3> QED
      BY <3>8, <2>1
  <2>7. CASE s[k] \notin Taken(e, a, k - 1)
    <3>1. w[k] <= Gained(e, a, k) - Gained(e, a, k - 1)
      <4>1. GreedyStep(e, a, k)
        BY GreedySteps DEF n
      <4>2. \A m : Points(a[k], e[m]) \in 0..2
        BY PointsAre
      <4>3. CASE s[k] = 0
        <5>1. w[k] = 0
          BY <1>3, <4>3
        <5> QED
          BY <5>1, <2>1, <2>4, <1>6
      <4>4. CASE s[k] # 0
        <5>1. s[k] \in (1..Len(e)) \ Taken(e, a, k - 1) /\ w[k] = Points(a[k], e[s[k]])
          BY <1>1, <1>2, <1>3, <2>7, <4>4
        <5>2. CASE Greedy(e, a)[k] = 0
          BY <4>1, <4>2, <5>1, <5>2, <2>1, <1>6 DEF GreedyStep
        <5>3. CASE Greedy(e, a)[k] # 0
          <6>1. /\ Points(a[k], e[s[k]]) <= Points(a[k], e[Greedy(e, a)[k]])
                /\ Gained(e, a, k) = Gained(e, a, k - 1) + Points(a[k], e[Greedy(e, a)[k]])
            BY <4>1, <5>1, <5>3 DEF GreedyStep
          <6> QED
            BY <6>1, <5>1, <4>2, <2>1, <1>6
        <5> QED
          BY <5>2, <5>3
      <4> QED
        BY <4>3, <4>4
    <3>2. Cardinality(Hit(k - 1)) <= Cardinality(Hit(k))
      BY <2>5, <1>7, <2>1, FS_Subset
    <3> HIDE DEF Hit, W
    <3>5. PICK x \in Nat, y \in Nat, g \in Nat, h \in Nat, p \in Nat, q \in 0..2 :
              /\ x = Cardinality(Hit(k - 1)) /\ y = Cardinality(Hit(k))
              /\ g = Gained(e, a, k - 1) /\ h = Gained(e, a, k) /\ p = W(k - 1) /\ q = w[k]
      BY <1>6, <1>7, <2>1, <2>2
    <3>6. x <= y /\ q <= h - g /\ p <= g + 2 * x
      BY <3>1, <3>2, <3>5, <2>3
    <3>7. p + q <= h + 2 * y
      BY <3>6
    <3>8. W(k) <= Gained(e, a, k) + 2 * Cardinality(Hit(k))
      BY <3>5, <3>7, <2>2
    <3> QED
      BY <3>8, <2>1
  <2> QED
    BY <2>6, <2>7
<1>10. \A k \in 0..n : k \in S
  <2> HIDE DEF S
  <2> QED
    BY <1>1, <1>8, <1>9, Induction
<1>11. n \in 0..n
  BY <1>1
<1>12. W(n) <= Gained(e, a, n) + 2 * Cardinality(Hit(n))
  BY <1>10, <1>11
<1>13. W(n) = SumFunction(w) /\ W(n) \in Nat /\ Matched(e, a) = Gained(e, a, n)
  BY <1>5, <1>11 DEF Matched, Gained, n
<1> HIDE DEF W, Hit
<1>14. PICK g \in Nat, x \in Nat, p \in Nat, u \in Nat :
           /\ g = Gained(e, a, n) /\ x = Cardinality(Hit(n)) /\ p = W(n) /\ u = Cardinality(Taken(e, a, n))
  BY <1>6, <1>7, <1>11, <1>13
<1>15. p <= g + 2 * x /\ x <= u /\ u <= g
  BY <1>6, <1>7, <1>11, <1>12, <1>14
<1>16. p <= 3 * g
  BY <1>15
<1> QED
  BY <1>13, <1>14, <1>16 DEF w

\* The score of the judge against the best assignment.
LEMMA ThirdOfBest ==
    ASSUME NEW e, NEW a, Lists(e, a)
    PROVE  Matched(e, a) <= BestMatch(e, a) /\ 3 * Matched(e, a) >= BestMatch(e, a)
<1> DEFINE T == {SumFunction(Worth(e, a, s)) : s \in Assignments(e, a)}
<1>1. Matched(e, a) \in T /\ Matched(e, a) \in Nat
  BY GreedyAssigns, ThirdOfAny
<1>2. T \subseteq Nat /\ \A x \in T : x <= 3 * Matched(e, a)
  BY ThirdOfAny
<1>3. BestMatch(e, a) = Max(T)
  BY DEF BestMatch, Worth
<1> HIDE DEF T
<1>4. 3 * Matched(e, a) \in Nat
  BY <1>1
<1>5. Max(T) \in T /\ \A y \in T : y <= Max(T)
  BY <1>1, <1>2, <1>4, MaxIs
<1> QED
  BY <1>1, <1>2, <1>3, <1>5

\* A claim is worth at most two half points, and two only to the same finding.
LEMMA ClaimWorth ==
    ASSUME NEW e, NEW a, Lists(e, a), NEW k \in 1..Len(a)
    PROVE  /\ Gained(e, a, k) - Gained(e, a, k - 1) \in 0..2
           /\ Gained(e, a, k) \in Nat /\ Gained(e, a, k - 1) \in Nat
           /\ Gained(e, a, k) - Gained(e, a, k - 1) = 2
                 <=> /\ Greedy(e, a)[k] # 0
                     /\ SameFinding(a[k], e[Greedy(e, a)[k]])
<1>1. Len(a) \in Nat /\ k \in 0..Len(a) /\ k - 1 \in 0..Len(a)
  BY DEF Lists
<1>2. Gained(e, a, k) \in Nat /\ Gained(e, a, k - 1) \in Nat /\ GreedyStep(e, a, k)
  BY <1>1, GreedySteps
<1> DEFINE m == Greedy(e, a)[k]
<1>3. Points(a[k], e[m]) \in 0..2 /\ (Points(a[k], e[m]) = 2 <=> SameFinding(a[k], e[m]))
  BY PointsAre
<1>4. IF m = 0 THEN Gained(e, a, k) = Gained(e, a, k - 1)
      ELSE Gained(e, a, k) = Gained(e, a, k - 1) + Points(a[k], e[m])
  BY <1>2 DEF GreedyStep
<1> HIDE DEF m
<1>5. CASE m = 0
  <2>1. Gained(e, a, k) - Gained(e, a, k - 1) = 0
    BY <1>2, <1>4, <1>5
  <2> QED
    BY <2>1, <1>2, <1>5 DEF m
<1>6. CASE m # 0
  <2>1. Gained(e, a, k) - Gained(e, a, k - 1) = Points(a[k], e[m])
    BY <1>2, <1>3, <1>4, <1>6
  <2> QED
    BY <2>1, <1>2, <1>3, <1>6 DEF m
<1> QED
  BY <1>5, <1>6

\* All claims are worth two half points if and only if the score is perfect.
LEMMA PerfectClaims ==
    ASSUME NEW e, NEW a, Lists(e, a)
    PROVE  Matched(e, a) = 2 * Len(a) <=> \A k \in 1..Len(a) : Gained(e, a, k) - Gained(e, a, k - 1) = 2
<1> DEFINE n == Len(a)
           D(k) == Gained(e, a, k) - Gained(e, a, k - 1)
<1>1. n \in Nat /\ n \in 0..n /\ Matched(e, a) = Gained(e, a, n) /\ Gained(e, a, 0) = 0
  BY GreedySteps DEF Lists, Matched, Gained
<1>2. \A k \in 0..n : Gained(e, a, k) \in Nat
  BY GreedySteps
<1>3. \A k \in 1..n : D(k) \in 0..2 /\ Gained(e, a, k) = Gained(e, a, k - 1) + D(k)
  <2> SUFFICES ASSUME NEW k \in 1..n PROVE D(k) \in 0..2 /\ Gained(e, a, k) = Gained(e, a, k - 1) + D(k)
    OBVIOUS
  <2>1. D(k) \in 0..2 /\ Gained(e, a, k) \in Nat /\ Gained(e, a, k - 1) \in Nat
    BY ClaimWorth
  <2> QED
    BY <2>1
<1> HIDE DEF D, n
<1>4. ASSUME \A k \in 1..n : D(k) = 2 PROVE Gained(e, a, n) = 2 * n
  <2> DEFINE S == {k \in 0..n : Gained(e, a, k) = 2 * k}
  <2>1. 0 \in S
    BY <1>1
  <2>2. ASSUME NEW k \in 1..n, k - 1 \in S PROVE k \in S
    <3>1. Gained(e, a, k - 1) = 2 * (k - 1) /\ k \in 0..n
      BY <2>2, <1>1
    <3>2. Gained(e, a, k) = 2 * k
      BY <3>1, <1>3, <1>4
    <3> QED
      BY <3>1, <3>2
  <2>3. \A k \in 0..n : k \in S
    <3> HIDE DEF S
    <3> QED
      BY <1>1, <2>1, <2>2, Induction
  <2> QED
    BY <2>3, <1>1
<1>5. \A k \in 0..n : Gained(e, a, k) <= 2 * k
  <2> DEFINE S == {k \in 0..n : Gained(e, a, k) <= 2 * k}
  <2>1. 0 \in S
    BY <1>1
  <2>2. ASSUME NEW k \in 1..n, k - 1 \in S PROVE k \in S
    <3>1. Gained(e, a, k - 1) <= 2 * (k - 1) /\ k \in 0..n /\ k - 1 \in 0..n
      BY <2>2, <1>1
    <3>2. PICK x \in Nat, y \in 0..2 : x = Gained(e, a, k - 1) /\ y = D(k)
      BY <3>1, <1>2, <1>3
    <3>3. x + y <= 2 * k
      BY <3>1, <3>2
    <3>4. Gained(e, a, k) <= 2 * k
      BY <3>2, <3>3, <1>3
    <3> QED
      BY <3>1, <3>4
  <2>3. \A k \in 0..n : k \in S
    <3> HIDE DEF S
    <3> QED
      BY <1>1, <2>1, <2>2, Induction
  <2> QED
    BY <2>3
<1>6. ASSUME Gained(e, a, n) = 2 * n PROVE \A k \in 1..n : D(k) = 2
  <2> DEFINE S == {j \in 0..n : Gained(e, a, n - j) >= 2 * (n - j)}
  <2>1. 0 \in S
    BY <1>1, <1>6
  <2>2. ASSUME NEW j \in 1..n, j - 1 \in S PROVE j \in S
    <3>1. j \in 0..n /\ n - (j - 1) \in 1..n /\ n - j \in 0..n /\ n - (j - 1) - 1 = n - j
      BY <1>1
    <3>2. Gained(e, a, n - (j - 1)) >= 2 * (n - (j - 1))
      BY <2>2
    <3>3. Gained(e, a, n - (j - 1)) = Gained(e, a, n - j) + D(n - (j - 1)) /\ D(n - (j - 1)) \in 0..2
      BY <3>1, <1>3
    <3>4. PICK x \in Nat, y \in 0..2 : x = Gained(e, a, n - j) /\ y = D(n - (j - 1))
      BY <3>1, <3>3, <1>2
    <3>5. x + y >= 2 * (n - (j - 1))
      BY <3>2, <3>3, <3>4
    <3>6. x >= 2 * (n - j)
      BY <3>5, <1>1
    <3> QED
      BY <3>1, <3>4, <3>6
  <2>3. \A j \in 0..n : j \in S
    <3> HIDE DEF S
    <3> QED
      BY <1>1, <2>1, <2>2, Induction
  <2>4. ASSUME NEW k \in 0..n PROVE Gained(e, a, k) = 2 * k
    <3>1. n - k \in 0..n /\ n - (n - k) = k
      BY <1>1
    <3>2. Gained(e, a, n - (n - k)) >= 2 * (n - (n - k))
      BY <2>3, <3>1
    <3>3. Gained(e, a, k) >= 2 * k
      BY <3>1, <3>2
    <3> QED
      BY <3>3, <1>2, <1>5
  <2>5. ASSUME NEW k \in 1..n PROVE D(k) = 2
    <3>1. k \in 0..n /\ k - 1 \in 0..n
      BY <1>1
    <3>2. Gained(e, a, k) = 2 * k /\ Gained(e, a, k - 1) = 2 * (k - 1)
      BY <3>1, <2>4
    <3> QED
      BY <3>2 DEF D
  <2> QED
    BY <2>5
<1> QED
  BY <1>1, <1>4, <1>6 DEF D, n

\* A finding finds its like among the expectations still open, if all findings have their
\* like and those before it have claimed theirs: those alike are as many on both sides.
LEMMA OneIsLeft ==
    ASSUME NEW e, NEW a, Lists(e, a), NEW s \in Assignments(e, a),
           \A j \in 1..Len(a) : s[j] # 0 /\ SameFinding(a[j], e[s[j]]),
           NEW k \in 1..Len(a),
           \A j \in 1..(k - 1) : Greedy(e, a)[j] # 0 /\ SameFinding(a[j], e[Greedy(e, a)[j]])
    PROVE  \E i \in (1..Len(e)) \ Taken(e, a, k - 1) : SameFinding(a[k], e[i])
<1> DEFINE n == Len(a)
           t == Greedy(e, a)
           C == {i \in 1..Len(e) : SameFinding(a[k], e[i])}
           J == {j \in 1..n : SameFinding(a[k], e[s[j]])}
           R == J \ {k}
           T == {t[j] : j \in R}
           B == Taken(e, a, k - 1) \cap C
<1>1. n \in Nat /\ Len(e) \in Nat
  BY DEF Lists
<1>2. s \in [1..n -> 0..Len(e)] /\ \A i, j \in 1..n : (i # j /\ s[i] = s[j]) => s[i] = 0
  BY DEF Assignments
<1>3. IsFiniteSet(C) /\ Cardinality(C) \in Nat
  <2>1. IsFiniteSet(1..Len(e)) /\ C \subseteq 1..Len(e)
    BY <1>1, FS_Interval
  <2> HIDE DEF C
  <2> QED
    BY <2>1, FS_Subset, FS_CardinalityType
<1>4. IsFiniteSet(J) /\ IsFiniteSet(R) /\ Cardinality(R) = Cardinality(J) - 1 /\ Cardinality(J) \in Nat
  <2>1. k \in J
    OBVIOUS
  <2>2. IsFiniteSet(1..n) /\ J \subseteq 1..n
    BY <1>1, FS_Interval
  <2> HIDE DEF J, n
  <2>3. IsFiniteSet(J)
    BY <2>2, FS_Subset
  <2> QED
    BY <2>1, <2>3, FS_RemoveElement, FS_CardinalityType
<1>5. Cardinality(J) <= Cardinality(C)
  <2> DEFINE f == [j \in J |-> s[j]]
  <2>1. \A j \in J : s[j] \in C
    BY <1>1, <1>2
  <2>2. f \in [J -> C] /\ \A i, j \in J : f[i] = f[j] => i = j
    BY <2>1, <1>2
  <2>3. f \in Injection(J, C)
    <3> HIDE DEF J, C, f
    <3> QED
      BY <2>2 DEF Injection, IsInjective
  <2> HIDE DEF f, J, C
  <2> QED
    BY <2>3, <1>3, FS_Injection
<1>6. IsFiniteSet(T) /\ Cardinality(T) <= Cardinality(R)
  <2> DEFINE f == [j \in R |-> t[j]]
  <2>1. f \in [R -> T] /\ \A x \in T : \E j \in R : f[j] = x
    OBVIOUS
  <2> HIDE DEF f, R, T
  <2>2. f \in Surjection(R, T)
    BY <2>1 DEF Surjection
  <2> QED
    BY <2>2, <1>4, FS_Surjection
<1>7. B \subseteq T
  <2> SUFFICES ASSUME NEW i \in B PROVE i \in T
    OBVIOUS
  <2>1. k - 1 \in 0..n
    BY <1>1
  <2>2. Taken(e, a, k - 1) = {t[j] : j \in 1..(k - 1)} \ {0}
    BY <2>1, ClaimedIs
  <2>3. PICK j \in 1..(k - 1) : i = t[j]
    BY <2>2
  <2>4. j \in 1..n /\ j # k
    BY <1>1
  <2>5. SameFinding(a[k], e[s[j]])
    <3>1. SameFinding(a[j], e[i]) /\ SameFinding(a[k], e[i]) /\ SameFinding(a[j], e[s[j]])
      BY <2>3, <2>4
    <3> QED
      BY <3>1 DEF SameFinding
  <2> QED
    BY <2>3, <2>4, <2>5
<1>8. IsFiniteSet(B) /\ Cardinality(B) <= Cardinality(T) /\ Cardinality(B) \in Nat
  <2> HIDE DEF B, T
  <2> QED
    BY <1>6, <1>7, FS_Subset, FS_CardinalityType
<1>9. Cardinality(T) \in Nat
  BY <1>6, FS_CardinalityType
<1> HIDE DEF B, T, R, J, C
<1>10. B # C
  BY <1>3, <1>4, <1>5, <1>6, <1>8, <1>9
<1> QED
  BY <1>10 DEF B, C

\* A score is perfect if the findings can be assigned to their like, one to one.
LEMMA ExactIsPerfect ==
    ASSUME NEW e, NEW a, Lists(e, a), NEW s \in Assignments(e, a),
           \A j \in 1..Len(a) : s[j] # 0 /\ SameFinding(a[j], e[s[j]])
    PROVE  Matched(e, a) = 2 * Len(a)
<1> DEFINE n == Len(a)
           t == Greedy(e, a)
           S == {k \in 0..n : \A j \in 1..k : t[j] # 0 /\ SameFinding(a[j], e[t[j]])}
<1>1. n \in Nat
  BY DEF Lists
<1>2. 0 \in S
  BY <1>1
<1>3. ASSUME NEW k \in 1..n, k - 1 \in S PROVE k \in S
  <2>1. \A j \in 1..(k - 1) : t[j] # 0 /\ SameFinding(a[j], e[t[j]])
    BY <1>3
  <2>2. PICK i \in (1..Len(e)) \ Taken(e, a, k - 1) : SameFinding(a[k], e[i])
    BY <2>1, OneIsLeft
  <2>3. Points(a[k], e[i]) = 2 /\ \A m : Points(a[k], e[m]) \in 0..2
    BY <2>2, PointsAre
  <2>4. GreedyStep(e, a, k)
    BY GreedySteps
  <2>5. t[k] # 0 /\ Points(a[k], e[t[k]]) = 2
    <3> HIDE DEF t
    <3>1. t[k] # 0
      BY <2>2, <2>3, <2>4 DEF GreedyStep, t
    <3>2. Points(a[k], e[i]) <= Points(a[k], e[t[k]]) /\ Points(a[k], e[t[k]]) \in 0..2
      BY <3>1, <2>2, <2>3, <2>4 DEF GreedyStep, t
    <3> QED
      BY <3>1, <3>2, <2>3
  <2>6. SameFinding(a[k], e[t[k]])
    BY <2>5, PointsAre
  <2>7. \A j \in 1..k : j = k \/ j \in 1..(k - 1)
    BY <1>1
  <2>8. k \in 0..n
    BY <1>1
  <2> HIDE DEF t
  <2> QED
    BY <2>1, <2>5, <2>6, <2>7, <2>8
<1>4. n \in S
  <2>1. n \in 0..n
    BY <1>1
  <2> HIDE DEF S, n
  <2> QED
    BY <1>1, <1>2, <1>3, <2>1, Induction
<1>5. \A k \in 1..n : Gained(e, a, k) - Gained(e, a, k - 1) = 2
  BY <1>4, ClaimWorth
<1> QED
  BY <1>5, PerfectClaims

\* And only then.
LEMMA PerfectIsExact ==
    ASSUME NEW e, NEW a, Lists(e, a), Matched(e, a) = 2 * Len(a)
    PROVE  \E s \in Assignments(e, a) :
               \A j \in 1..Len(a) : s[j] # 0 /\ SameFinding(a[j], e[s[j]])
<1>1. \A k \in 1..Len(a) : Gained(e, a, k) - Gained(e, a, k - 1) = 2
  BY PerfectClaims
<1>2. \A k \in 1..Len(a) : Greedy(e, a)[k] # 0 /\ SameFinding(a[k], e[Greedy(e, a)[k]])
  BY <1>1, ClaimWorth
<1> QED
  BY <1>2, GreedyAssigns

\* The golden findings score perfectly against themselves.
LEMMA SelfIsPerfect ==
    ASSUME NEW e, Len(e) \in Nat, DOMAIN e = 1..Len(e)
    PROVE  Matched(e, e) = 2 * Len(e)
<1> DEFINE s == [i \in 1..Len(e) |-> i]
<1>1. Lists(e, e)
  BY DEF Lists
<1>2. s \in Assignments(e, e)
  <2>1. s \in [1..Len(e) -> 0..Len(e)]
    OBVIOUS
  <2> QED
    BY <2>1 DEF Assignments
<1>3. \A j \in 1..Len(e) : s[j] # 0 /\ SameFinding(e[j], e[s[j]])
  BY DEF SameFinding
<1> QED
  BY <1>1, <1>2, <1>3, ExactIsPerfect

-----------------------------------------------------------------------------
(* The commands. *)

\* A list with one more entry is a list.
LEMMA OneMore ==
    ASSUME NEW s, IsList(s), NEW x
    PROVE  /\ IsList(Append(s, x)) /\ Len(s) \in Nat /\ DOMAIN s = 1..Len(s)
           /\ Len(Append(s, x)) = Len(s) + 1
           /\ DOMAIN Append(s, x) = 1..(Len(s) + 1)
           /\ \A i \in 1..Len(s) : Append(s, x)[i] = s[i]
           /\ Append(s, x)[Len(s) + 1] = x
<1> DEFINE S == ToSet(s) \cup {x}
           t == Append(s, x)
<1>1. s \in Seq(ToSet(s))
  BY DEF IsList
<1>2. s \in Seq(S) /\ x \in S
  <2>1. ToSet(s) \subseteq S
    OBVIOUS
  <2> HIDE DEF S
  <2>2. s \in Seq(S)
    BY <1>1, <2>1
  <2> QED
    BY <2>2 DEF S
<1> HIDE DEF S
<1>3. /\ t \in Seq(S) /\ Len(t) = Len(s) + 1 /\ Len(s) \in Nat
      /\ \A i \in 1..Len(s) : t[i] = s[i]
      /\ t[Len(s) + 1] = x /\ DOMAIN s = 1..Len(s) /\ DOMAIN t = 1..Len(t)
  BY <1>2
<1>4. t \in Seq(ToSet(t))
  <2>1. \A i \in 1..Len(t) : t[i] \in ToSet(t)
    BY <1>3 DEF ToSet
  <2> HIDE DEF t
  <2> QED
    BY <2>1, <1>3
<1> QED
  BY <1>3, <1>4 DEF IsList

\* The findings the specialists may report.
Reportable == UNION {ToSet(x) : x \in Answers}

\* An answer is a list of them.
LEMMA AnswersAre == \A x \in Answers : x \in Seq(Reportable)
<1> SUFFICES ASSUME NEW x \in Answers PROVE x \in Seq(Reportable)
  OBVIOUS
<1>1. x \in Seq(ToSet(x))
  BY GateAssumption DEF IsList
<1>2. ToSet(x) \subseteq Reportable
  BY DEF Reportable
<1> QED
  BY <1>1, <1>2

\* Lists that can be joined.
Joinable(V) == <<>> \in V /\ \A x, y \in V : x \o y \in V

\* u[i] is what the first i of the n lists in s hold, end to end.
EndToEnd(s, n, u) ==
    /\ u[1] = s[1]
    /\ \A i \in 2..n : u[i] = u[i - 1] \o s[i]

\* What FlattenSeq returns for n lists, n > 0.
LEMMA FlattenIs ==
    ASSUME NEW V, Joinable(V), NEW n \in Nat, n > 0, NEW s \in [1..n -> V]
    PROVE  \E u \in [1..n -> V] : EndToEnd(s, n, u) /\ FlattenSeq(s) = u[n]
<1> DEFINE step == [p \in (1..n) \X V |-> IF p[1] = 1 THEN s[p[1]] ELSE p[2] \o s[p[1]]]
           F(f) == f = [i \in 1..n |-> IF i = 1 THEN s[i] ELSE f[i - 1] \o s[i]]
           u == CHOOSE f : F(f)
<1>1. \A i \in 1..n : s[i] \in V
  OBVIOUS
<1>2. <<>> \in V /\ \A p \in (1..n) \X V : (IF p[1] = 1 THEN s[p[1]] ELSE p[2] \o s[p[1]]) \in V
  <2>1. 1 \in 1..n
    OBVIOUS
  <2> QED
    BY <1>1, <2>1 DEF Joinable
<1>3. step \in [(1..n) \X V -> V]
  BY <1>2
<1>4. Len(s) = n
  OBVIOUS
<1>5. FlattenSeq(s) = u[n]
  BY <1>4 DEF FlattenSeq
<1>6. PICK f \in [0..n -> V] : f = [i \in 0..n |-> IF i = 0 THEN <<>> ELSE step[<<i, f[i - 1]>>]]
  <2> HIDE DEF step
  <2>1. \E f \in [0..n -> V] : StepByStep(f, n, <<>>, step)
    BY <1>2, <1>3, Recursion
  <2> QED
    BY <2>1 DEF StepByStep
<1> DEFINE g == [i \in 1..n |-> f[i]]
<1>7. F(g)
  <2>1. ASSUME NEW i \in 1..n PROVE g[i] = IF i = 1 THEN s[i] ELSE g[i - 1] \o s[i]
    <3>1. i \in 0..n /\ i # 0 /\ i - 1 \in 0..n
      OBVIOUS
    <3>2. <<i, f[i - 1]>> \in (1..n) \X V
      BY <3>1, <1>6
    <3>3. f[i] = step[<<i, f[i - 1]>>]
      BY <3>1, <1>6
    <3>4. f[i] = IF i = 1 THEN s[i] ELSE f[i - 1] \o s[i]
      BY <3>2, <3>3
    <3>5. i # 1 => i - 1 \in 1..n
      OBVIOUS
    <3> QED
      BY <3>4, <3>5
  <2> QED
    BY <2>1
<1>8. F(u)
  BY <1>7
<1> HIDE DEF u, g
<1>9. /\ u[1] = s[1]
      /\ \A i \in 2..n : u[i] = u[i - 1] \o s[i]
      /\ DOMAIN u = 1..n
  <2>1. \A i \in 1..n : u[i] = IF i = 1 THEN s[i] ELSE u[i - 1] \o s[i]
    BY <1>8
  <2>2. 1 \in 1..n /\ \A i \in 2..n : i \in 1..n /\ i # 1
    OBVIOUS
  <2>3. DOMAIN u = 1..n
    BY <1>8
  <2> QED
    BY <2>1, <2>2, <2>3
<1> DEFINE S == {i \in 0..n : i # 0 => u[i] \in V}
<1>10. \A i \in 0..n : i \in S
  <2>1. 0 \in S
    OBVIOUS
  <2>2. ASSUME NEW i \in 1..n, i - 1 \in S PROVE i \in S
    <3>1. CASE i = 1
      BY <3>1, <1>1, <1>9
    <3>2. CASE i # 1
      <4>0. i \in 2..n /\ i - 1 # 0
        BY <3>2
      <4>1. u[i - 1] \in V /\ s[i] \in V /\ u[i] = u[i - 1] \o s[i]
        BY <4>0, <2>2, <1>1, <1>9
      <4>2. u[i] \in V
        BY <4>1 DEF Joinable
      <4> QED
        BY <4>2
    <3> QED
      BY <3>1, <3>2
  <2> HIDE DEF S
  <2> QED
    BY <2>1, <2>2, Induction
<1>11. u \in [1..n -> V]
  <2>1. \A i \in 1..n : u[i] \in V
    BY <1>10
  <2>2. u = [i \in 1..n |-> u[i]]
    BY <1>8
  <2> QED
    BY <2>1, <2>2
<1> QED
  BY <1>5, <1>9, <1>11 DEF EndToEnd

\* One more list goes at the end.
LEMMA FlattenMore ==
    ASSUME NEW V, Joinable(V), \A y \in V : <<>> \o y = y,
           NEW n \in Nat, NEW s \in [1..n -> V], NEW x \in V
    PROVE  /\ FlattenSeq(Append(s, x)) = FlattenSeq(s) \o x
           /\ FlattenSeq(Append(s, x)) \in V
           /\ Append(s, x) \in [1..(n + 1) -> V]
<1> DEFINE t == Append(s, x)
<1>1. s \in Seq(V) /\ Len(s) = n
  OBVIOUS
<1>2. /\ t \in [1..(n + 1) -> V]
      /\ t[n + 1] = x /\ \A i \in 1..n : t[i] = s[i]
  <2>1. t \in Seq(V) /\ Len(t) = n + 1
    BY <1>1
  <2>2. t[n + 1] = x /\ \A i \in 1..n : t[i] = s[i]
    BY <1>1
  <2> HIDE DEF t
  <2> QED
    BY <2>1, <2>2
<1>3. PICK w \in [1..(n + 1) -> V] : EndToEnd(t, n + 1, w) /\ FlattenSeq(t) = w[n + 1]
  <2> DEFINE m == n + 1
  <2>1. m \in Nat /\ m > 0 /\ t \in [1..m -> V]
    BY <1>2
  <2> HIDE DEF t, m
  <2>2. \E w \in [1..m -> V] : EndToEnd(t, m, w) /\ FlattenSeq(t) = w[m]
    BY <2>1, FlattenIs
  <2> QED
    BY <2>2 DEF m
<1> HIDE DEF t
<1>4. FlattenSeq(t) \in V
  BY <1>3
<1>5. FlattenSeq(t) = FlattenSeq(s) \o x
  <2>1. CASE n = 0
    <3>1. FlattenSeq(s) = s /\ s = <<>>
      BY <2>1, <1>1 DEF FlattenSeq
    <3>2. FlattenSeq(t) = x
      BY <2>1, <1>2, <1>3 DEF EndToEnd
    <3> QED
      BY <3>1, <3>2
  <2>2. CASE n # 0
    <3>1. PICK u \in [1..n -> V] : EndToEnd(s, n, u) /\ FlattenSeq(s) = u[n]
      BY <2>2, FlattenIs
    <3> DEFINE S == {i \in 0..n : i # 0 => w[i] = u[i]}
    <3>2. 0 \in S
      OBVIOUS
    <3>3. ASSUME NEW i \in 1..n, i - 1 \in S PROVE i \in S
      <4>1. CASE i = 1
        BY <4>1, <1>2, <1>3, <3>1 DEF EndToEnd
      <4>2. CASE i # 1
        <5>0. i \in 2..n /\ i \in 2..(n + 1) /\ i - 1 # 0
          BY <4>2
        <5>1. w[i - 1] = u[i - 1]
          BY <3>3, <5>0
        <5>2. w[i] = w[i - 1] \o t[i] /\ u[i] = u[i - 1] \o s[i] /\ t[i] = s[i]
          BY <5>0, <1>2, <1>3, <3>1 DEF EndToEnd
        <5> QED
          BY <5>0, <5>1, <5>2
      <4> QED
        BY <4>1, <4>2
    <3>4. n \in S
      <4>1. n \in 0..n
        OBVIOUS
      <4> HIDE DEF S
      <4> QED
        BY <3>2, <3>3, <4>1, Induction
    <3>5. w[n + 1] = w[n] \o t[n + 1]
      <4>1. n + 1 \in 2..(n + 1) /\ (n + 1) - 1 = n
        BY <2>2
      <4> QED
        BY <4>1, <1>3 DEF EndToEnd
    <3>6. w[n] = u[n]
      BY <3>4, <2>2
    <3> QED
      BY <3>5, <3>6, <3>1, <1>2, <1>3
  <2> QED
    BY <2>1, <2>2
<1> QED
  BY <1>2, <1>4, <1>5 DEF t

\* What the agents of the PR can be held to: a list, each entry for one of them or for any.
LEMMA AttributableIs ==
    ASSUME NEW pr, IsList(pr.expected)
    PROVE  /\ IsList(Attributable(pr))
           /\ \A i \in 1..Len(Attributable(pr)) :
                  Attributable(pr)[i].agent \in ToSet(pr.agents) \cup {AnyAgent}
<1> DEFINE e == pr.expected
           n == Len(e)
           T == {x \in ToSet(e) : x.agent \in ToSet(pr.agents) \cup {AnyAgent}}
           V == Seq(T)
           Kept(v, i) == IF e[i].agent \in ToSet(pr.agents) \cup {AnyAgent} THEN Append(v, e[i]) ELSE v
           step == [p \in (1..n) \X V |-> Kept(p[2], p[1])]
           F(f) == f = [i \in 0..n |-> IF i = 0 THEN <<>> ELSE Kept(f[i - 1], i)]
           u == CHOOSE f : F(f)
<1>1. n \in Nat /\ \A i \in 1..n : e[i] \in ToSet(e)
  BY DEF IsList
<1>2. ASSUME NEW v \in V, NEW i \in 1..n PROVE Kept(v, i) \in V
  <2>1. CASE e[i] \in T
    <3>1. Append(v, e[i]) \in V
      <4> DEFINE x == e[i]
      <4>1. x \in T
        BY <2>1
      <4> HIDE DEF T, x
      <4>2. Append(v, x) \in V
        BY <4>1
      <4> QED
        BY <4>2 DEF x
    <3> QED
      BY <3>1
  <2>2. CASE e[i] \notin T
    BY <2>2, <1>1
  <2> QED
    BY <2>1, <2>2
<1>3. <<>> \in V
  OBVIOUS
<1> HIDE DEF V, Kept
<1>4. step \in [(1..n) \X V -> V]
  BY <1>2
<1>5. Attributable(pr) = u[n]
  BY DEF Attributable, Kept
<1>6. PICK f \in [0..n -> V] : f = [i \in 0..n |-> IF i = 0 THEN <<>> ELSE step[<<i, f[i - 1]>>]]
  <2> HIDE DEF step, n
  <2>1. \E f \in [0..n -> V] : StepByStep(f, n, <<>>, step)
    BY <1>1, <1>3, <1>4, Recursion
  <2> QED
    BY <2>1 DEF StepByStep
<1> HIDE DEF n
<1>7. F(f)
  <2>1. ASSUME NEW i \in 0..n PROVE f[i] = IF i = 0 THEN <<>> ELSE Kept(f[i - 1], i)
    <3>1. f[i] = IF i = 0 THEN <<>> ELSE step[<<i, f[i - 1]>>]
      BY <1>6
    <3>2. CASE i # 0
      <4>1. i \in 1..n /\ i - 1 \in 0..n
        BY <3>2, <1>1
      <4>2. <<i, f[i - 1]>> \in (1..n) \X V
        BY <4>1, <1>6
      <4> QED
        BY <4>2, <3>1, <3>2
    <3> QED
      BY <3>1, <3>2
  <2>2. f = [i \in 0..n |-> f[i]]
    BY <1>6
  <2> QED
    BY <2>1, <2>2
<1>8. F(u)
  BY <1>7
<1> HIDE DEF u
<1>9. /\ u[0] = <<>>
      /\ \A i \in 1..n : u[i] = Kept(u[i - 1], i)
  <2>1. \A i \in 0..n : u[i] = IF i = 0 THEN <<>> ELSE Kept(u[i - 1], i)
    BY <1>8
  <2>2. 0 \in 0..n /\ \A i \in 1..n : i \in 0..n /\ i # 0
    BY <1>1
  <2> QED
    BY <2>1, <2>2
<1> DEFINE S == {i \in 0..n : u[i] \in V}
<1>10. n \in S
  <2>1. 0 \in S /\ n \in 0..n
    BY <1>1, <1>3, <1>9
  <2>2. ASSUME NEW i \in 1..n, i - 1 \in S PROVE i \in S
    <3>1. u[i - 1] \in V /\ i \in 0..n
      BY <2>2, <1>1
    <3> QED
      BY <3>1, <1>2, <1>9
  <2> HIDE DEF S
  <2> QED
    BY <1>1, <2>1, <2>2, Induction
<1> DEFINE w == u[n]
<1>11. w \in Seq(T)
  BY <1>10 DEF V
<1>12. w \in Seq(ToSet(w)) /\ \A i \in 1..Len(w) : w[i] \in T
  <2> HIDE DEF w, T
  <2>1. \A i \in 1..Len(w) : w[i] \in ToSet(w) /\ w[i] \in T
    BY <1>11 DEF ToSet
  <2> QED
    BY <2>1, <1>11
<1> QED
  BY <1>5, <1>12 DEF IsList

\* What a score is: the list that was compared, with the expectations it was compared with.
OwnScore(i) ==
    /\ graded[i] = Grade(graded[i].expected, graded[i].actual)
    /\ Lists(graded[i].expected, graded[i].actual)
    /\ tool = "gate" => /\ graded[i].expected = dataset[i].expected
                        /\ graded[i].actual = GradedList(dataset[i])
    /\ tool = "canary" =>
           /\ \E s \in [1..Len(dataset[i].agents) -> Answers] :
                  graded[i].actual = FlattenSeq(s)
           /\ \A n \in 1..Len(graded[i].expected) :
                  graded[i].expected[n].agent \in ToSet(dataset[i].agents) \cup {AnyAgent}

\* The inductive invariant of both commands: every golden PR scored so far was scored on
\* findings of its own, and the exit status follows from the scores.
GateInv ==
    /\ tool \in {"idle", "gate", "canary"}
    /\ exit \in {"running", "0", "1", "2"}
    /\ dataset = <<>> \/ dataset \in Datasets
    /\ file = NoFile \/ file \in Files
    /\ tool = "idle" => /\ dataset = <<>> /\ graded = <<>> /\ exit = "running"
                        /\ gathered = <<>> /\ turn = 0
    /\ tool = "gate" => gathered = <<>> /\ turn = 0
    /\ IsList(graded) /\ Len(graded) <= Len(dataset)
    /\ \A i \in 1..Len(graded) : OwnScore(i)
    /\ turn \in Nat /\ gathered \in Seq(Reportable)
    /\ More => /\ turn <= Len(CurrentPR.agents)
               /\ \E s \in [1..turn -> Answers] : gathered = FlattenSeq(s)
    /\ exit = "0" => /\ dataset # <<>> /\ ~More
                     /\ \A i \in 1..Len(graded) : graded[i].passed
    /\ exit = "1" => \/ ~More /\ \E i \in 1..Len(graded) : ~graded[i].passed
                     \/ GateMayRaise

\* A list has a length.
LEMMA ListIs == ASSUME NEW s, IsList(s) PROVE Len(s) \in Nat /\ DOMAIN s = 1..Len(s)
BY DEF IsList

\* A golden set is a list of PRs, each with a list of agents and a list of expectations.
LEMMA DatasetIs ==
    ASSUME NEW d, d = <<>> \/ d \in Datasets
    PROVE  /\ Len(d) \in Nat /\ DOMAIN d = 1..Len(d)
           /\ \A i \in 1..Len(d) : IsList(d[i].agents) /\ IsList(d[i].expected)
<1>1. CASE d = <<>>
  BY <1>1
<1>2. CASE d \in Datasets
  <2>1. IsList(d) /\ \A i \in DOMAIN d : IsList(d[i].agents) /\ IsList(d[i].expected)
    BY <1>2, GateAssumption
  <2> QED
    BY <2>1, ListIs
<1> QED
  BY <1>1, <1>2

\* No reports hold no findings.
LEMMA FlattenNone == \E s \in [1..0 -> Answers] : FlattenSeq(s) = <<>>
<1> DEFINE s == <<>>
<1>1. s \in [1..0 -> Answers]
  OBVIOUS
<1>2. FlattenSeq(s) = <<>>
  BY DEF FlattenSeq
<1> QED
  BY <1>1, <1>2

\* What is compared is two lists.
LEMMA GradedListIs ==
    ASSUME file = NoFile \/ file \in Files, NEW pr, IsList(pr.expected)
    PROVE  IsList(GradedList(pr))
<1>1. file \in Files => IsList(file.findings)
  BY GateAssumption
<1>2. file = NoFile => file.findings = <<>>
  BY DEF NoFile
<1> QED
  BY <1>1, <1>2 DEF GradedList

\* The scores so far stay, and the new one is sound if it is a comparison of two lists
\* that belong to the current PR.
LEMMA OneMoreScore ==
    ASSUME GateInv, More, tool' = tool, dataset' = dataset, file' = file,
           NEW e, NEW a, IsList(e), IsList(a),
           graded' = Append(graded, Grade(e, a)),
           tool = "gate" => e = CurrentPR.expected /\ a = GradedList(CurrentPR),
           tool = "canary" =>
               /\ \E s \in [1..Len(CurrentPR.agents) -> Answers] : a = FlattenSeq(s)
               /\ \A n \in 1..Len(e) : e[n].agent \in ToSet(CurrentPR.agents) \cup {AnyAgent}
    PROVE  /\ IsList(graded') /\ Len(graded') = Len(graded) + 1 /\ Len(graded') <= Len(dataset)
           /\ \A i \in 1..Len(graded') : OwnScore(i)'
<1> DEFINE k == Len(graded)
<1>1. /\ IsList(graded') /\ k \in Nat /\ Len(graded') = k + 1
      /\ \A i \in 1..k : graded'[i] = graded[i]
      /\ graded'[k + 1] = Grade(e, a)
  BY OneMore DEF GateInv
<1>2. Len(dataset) \in Nat /\ k + 1 <= Len(dataset)
  BY <1>1, DatasetIs DEF GateInv, More
<1>3. ASSUME NEW i \in 1..k PROVE OwnScore(i)'
  <2>1. OwnScore(i) /\ graded'[i] = graded[i]
    BY <1>1 DEF GateInv
  <2> QED
    BY <2>1 DEF OwnScore, GradedList
<1>4. ASSUME NEW i, i = k + 1 PROVE OwnScore(i)'
  <2> DEFINE g == graded'[i]
  <2>1. g.expected = e /\ g.actual = a /\ g = Grade(e, a)
    BY <1>1, <1>4 DEF Grade
  <2>2. Lists(e, a)
    BY ListIs DEF Lists
  <2>3. CurrentPR = dataset[i] /\ GradedList(dataset[i])' = GradedList(CurrentPR)
    BY <1>4 DEF CurrentPR, GradedList
  <2> HIDE DEF g
  <2> QED
    BY <2>1, <2>2, <2>3 DEF OwnScore, g
<1>5. \A i \in 1..(k + 1) : i = k + 1 \/ i \in 1..k
  BY <1>1
<1> QED
  BY <1>1, <1>2, <1>3, <1>4, <1>5

\* Nothing is scored and no status is given at the start.
LEMMA GateInitInv == GateInit => GateInv
<1> SUFFICES ASSUME GateInit PROVE GateInv
  OBVIOUS
<1>1. Len(graded) = 0 /\ Len(dataset) = 0 /\ IsList(graded)
  BY DEF GateInit, IsList
<1>2. <<>> \in Seq(Reportable)
  OBVIOUS
<1> QED
  BY <1>1, <1>2 DEF GateInit, GateInv, More

\* Starting a command keeps the invariant: nothing is scored yet.
LEMMA StartKeeps ==
    ASSUME GateInv, tool = "idle", tool' \in {"gate", "canary"}, NEW d \in Datasets, dataset' = d,
           file' = file \/ file' \in Files, UNCHANGED <<gathered, turn, graded, exit>>
    PROVE  GateInv'
<1>1. graded = <<>> /\ exit = "running" /\ gathered = <<>> /\ turn = 0
  BY DEF GateInv
<1>2. Len(graded) = 0 /\ Len(d) \in Nat /\ IsList(graded)
  BY <1>1, DatasetIs DEF GateInv
<1>3. file' = NoFile \/ file' \in Files
  BY DEF GateInv
<1>4. More' => /\ turn' <= Len(CurrentPR.agents)'
               /\ \E s \in [1..turn' -> Answers] : gathered' = FlattenSeq(s)
  <2>0. turn' = 0 /\ gathered' = <<>> /\ CurrentPR' = d[1]
    BY <1>1, <1>2 DEF CurrentPR
  <2> SUFFICES ASSUME More' PROVE 0 <= Len(d[1].agents)
    BY <2>0, FlattenNone
  <2>1. 1 \in 1..Len(d)
    BY <1>2 DEF More
  <2>2. IsList(d[1].agents)
    BY <2>1, DatasetIs
  <2> QED
    BY <2>2, ListIs
<1>5. turn' \in Nat /\ gathered' \in Seq(Reportable)
  BY DEF GateInv
<1> QED
  BY <1>1, <1>2, <1>3, <1>4, <1>5 DEF GateInv

\* Scoring the current PR keeps the invariant: the next one starts afresh.
LEMMA ScoreKeeps ==
    ASSUME GateInv, More, exit = "running", tool # "idle", UNCHANGED <<tool, dataset, file, exit>>,
           turn' = 0, gathered' = <<>>,
           IsList(graded'), Len(graded') = Len(graded) + 1, Len(graded') <= Len(dataset),
           \A i \in 1..Len(graded') : OwnScore(i)'
    PROVE  GateInv'
<1>1. dataset = <<>> \/ dataset \in Datasets
  BY DEF GateInv
<1>2. Len(graded) \in Nat /\ Len(graded') \in Nat /\ Len(dataset) \in Nat
  BY <1>1, ListIs, DatasetIs DEF GateInv
<1>3. More' => /\ turn' <= Len(CurrentPR.agents)'
               /\ \E s \in [1..turn' -> Answers] : gathered' = FlattenSeq(s)
  <2> SUFFICES ASSUME More' PROVE 0 <= Len(dataset[Len(graded') + 1].agents)
    BY FlattenNone DEF CurrentPR
  <2>1. Len(graded') + 1 \in 1..Len(dataset)
    BY <1>2 DEF More
  <2>2. IsList(dataset[Len(graded') + 1].agents)
    BY <1>1, <2>1, DatasetIs
  <2> QED
    BY <2>2, ListIs
<1>4. turn' \in Nat /\ gathered' \in Seq(Reportable)
  OBVIOUS
<1> QED
  BY <1>3, <1>4 DEF GateInv

\* Stopping keeps it if the status follows from the scores.
LEMMA StopKeeps ==
    ASSUME GateInv, NEW status \in {"0", "1", "2"}, tool # "idle", Stop(status),
           status = "0" => /\ dataset # <<>> /\ ~More
                           /\ \A i \in 1..Len(graded) : graded[i].passed,
           status = "1" => \/ ~More /\ \E i \in 1..Len(graded) : ~graded[i].passed
                           \/ GateMayRaise
    PROVE  GateInv'
<1>1. /\ exit' = status /\ tool' = tool /\ dataset' = dataset /\ file' = file
      /\ gathered' = gathered /\ turn' = turn /\ graded' = graded
  BY DEF Stop
<1>2. \A i \in 1..Len(graded) : OwnScore(i)'
  BY <1>1 DEF GateInv, OwnScore, GradedList
<1>3. More' = More /\ CurrentPR' = CurrentPR
  BY <1>1 DEF More, CurrentPR
<1> QED
  BY <1>1, <1>2, <1>3 DEF GateInv, GateMayRaise

\* A golden set that cannot be loaded leaves nothing to score.
LEMMA LoadFailsKeeps ==
    ASSUME GateInv, NEW command \in {"gate", "canary"}, LoadFails(command)
    PROVE  GateInv'
<1>1. /\ tool' = command /\ exit' = IF command = "gate" THEN "1" ELSE "2"
      /\ dataset' = <<>> /\ graded' = <<>> /\ gathered' = <<>> /\ turn' = 0
      /\ UNCHANGED <<dataset, file, gathered, turn, graded>>
  BY DEF LoadFails, GateInv
<1>2. Len(graded') = 0 /\ ~More'
  BY <1>1 DEF More
<1>3. exit' = "1" => GateMayRaise'
  BY <1>1 DEF GateMayRaise
<1>4. turn' \in Nat /\ gathered' \in Seq(Reportable) /\ IsList(graded')
      /\ Len(graded') <= Len(dataset')
  BY <1>1 DEF GateInv
<1>5. \A i \in 1..Len(graded') : OwnScore(i)'
  BY <1>2
<1> QED
  BY <1>1, <1>2, <1>3, <1>4, <1>5 DEF GateInv

\* A function on 1..n with one more value at the end.
LEMMA OneMoreValue ==
    ASSUME NEW A, NEW n \in Nat, NEW s \in [1..n -> A], NEW x \in A
    PROVE  Append(s, x) \in [1..(n + 1) -> A]
<1>1. s \in Seq(A) /\ Len(s) = n
  OBVIOUS
<1> DEFINE t == Append(s, x)
<1>2. t \in Seq(A) /\ Len(t) = n + 1
  BY <1>1
<1> HIDE DEF t
<1>3. t \in [1..(n + 1) -> A]
  BY <1>2
<1> QED
  BY <1>3 DEF t

\* One agent's report joins those of the agents before it.
LEMMA RunAgentKeeps ==
    ASSUME GateInv, NEW answer \in Answers, RunAgent(answer)
    PROVE  GateInv'
<1>1. /\ More /\ exit = "running" /\ tool = "canary" /\ turn < Len(CurrentPR.agents)
      /\ gathered' = gathered \o answer /\ turn' = turn + 1
      /\ tool' = tool /\ dataset' = dataset /\ file' = file /\ graded' = graded /\ exit' = exit
  BY DEF RunAgent, Running
<1>2. More' = More /\ CurrentPR' = CurrentPR
  BY <1>1 DEF More, CurrentPR
<1>3. \A i \in 1..Len(graded) : OwnScore(i)'
  BY <1>1 DEF GateInv, OwnScore, GradedList
<1>4. turn \in Nat /\ gathered \in Seq(Reportable) /\ answer \in Seq(Reportable)
  BY AnswersAre DEF GateInv
<1>5. turn + 1 \in Nat /\ gathered \o answer \in Seq(Reportable)
  BY <1>4
<1>6. turn + 1 <= Len(CurrentPR.agents)
  <2>1. Len(graded) \in Nat /\ Len(dataset) \in Nat
    BY ListIs, DatasetIs DEF GateInv
  <2>2. Len(graded) + 1 \in 1..Len(dataset)
    BY <1>1, <2>1 DEF More
  <2>3. Len(CurrentPR.agents) \in Nat
    BY <2>2, DatasetIs, ListIs DEF GateInv, CurrentPR
  <2> QED
    BY <2>3, <1>1, <1>4
<1>7. \E s \in [1..(turn + 1) -> Answers] : gathered \o answer = FlattenSeq(s)
  <2>1. PICK s \in [1..turn -> Answers] : gathered = FlattenSeq(s)
    BY <1>1 DEF GateInv
  <2>2. Append(s, answer) \in [1..(turn + 1) -> Answers]
    BY <1>4, OneMoreValue
  <2> DEFINE V == Seq(Reportable)
  <2>3. Joinable(V) /\ \A y \in V : <<>> \o y = y
    BY DEF Joinable
  <2>4. s \in [1..turn -> V] /\ answer \in V
    BY AnswersAre
  <2> HIDE DEF V
  <2>5. FlattenSeq(Append(s, answer)) = FlattenSeq(s) \o answer
    BY <1>4, <2>3, <2>4, FlattenMore
  <2> QED
    BY <2>1, <2>2, <2>5
<1> QED
  BY <1>1, <1>2, <1>3, <1>5, <1>6, <1>7 DEF GateInv

\* GateInv is inductive.
LEMMA GateInvInductive == GateInv /\ [GateNext]_gateVars => GateInv'
<1> SUFFICES ASSUME GateInv, [GateNext]_gateVars PROVE GateInv'
  OBVIOUS
<1>0. /\ dataset = <<>> \/ dataset \in Datasets
      /\ Len(graded) \in Nat /\ DOMAIN graded = 1..Len(graded) /\ Len(dataset) \in Nat
  BY ListIs, DatasetIs DEF GateInv
<1>p. ASSUME More PROVE IsList(CurrentPR.agents) /\ IsList(CurrentPR.expected)
  <2>1. Len(graded) + 1 \in 1..Len(dataset)
    BY <1>0, <1>p DEF More
  <2> QED
    BY <1>0, <2>1, DatasetIs DEF CurrentPR
<1>1. ASSUME NEW d \in Datasets, NEW f \in Files, StartGate(d, f) PROVE GateInv'
  BY <1>1, StartKeeps DEF StartGate
<1>2. ASSUME NEW d \in Datasets, StartCanary(d) PROVE GateInv'
  BY <1>2, StartKeeps DEF StartCanary
<1>3. CASE EmptyDataset
  BY <1>3, StopKeeps DEF EmptyDataset, Running
<1>4. CASE FileRefused
  BY <1>4, StopKeeps DEF FileRefused, Running
<1>5. CASE JudgeRaises
  BY <1>5, StopKeeps DEF JudgeRaises, Running, GateMayRaise
<1>6. CASE GatePR
  <2>1. /\ More /\ exit = "running" /\ tool = "gate"
        /\ graded' = Append(graded, Grade(CurrentPR.expected, GradedList(CurrentPR)))
        /\ UNCHANGED <<tool, dataset, file, exit>>
        /\ turn' = 0 /\ gathered' = <<>>
    BY <1>6 DEF GatePR, Running, GateInv
  <2>2. IsList(CurrentPR.expected) /\ IsList(GradedList(CurrentPR))
    BY <2>1, <1>p, GradedListIs DEF GateInv
  <2>3. /\ IsList(graded') /\ Len(graded') = Len(graded) + 1 /\ Len(graded') <= Len(dataset)
        /\ \A i \in 1..Len(graded') : OwnScore(i)'
    BY <2>1, <2>2, OneMoreScore
  <2> QED
    BY <2>1, <2>3, ScoreKeeps
<1>7. ASSUME NEW answer \in Answers, RunAgent(answer) PROVE GateInv'
  BY <1>7, RunAgentKeeps
<1>8. CASE AgentRaises
  BY <1>8, StopKeeps DEF AgentRaises, Running
<1>9. CASE GradeCanary
  <2>1. /\ More /\ exit = "running" /\ tool = "canary" /\ turn = Len(CurrentPR.agents)
        /\ graded' = Append(graded, Grade(Attributable(CurrentPR), gathered))
        /\ UNCHANGED <<tool, dataset, file, exit>>
        /\ turn' = 0 /\ gathered' = <<>>
    BY <1>9 DEF GradeCanary, Running
  <2>2. /\ IsList(Attributable(CurrentPR))
        /\ \A n \in 1..Len(Attributable(CurrentPR)) :
              Attributable(CurrentPR)[n].agent \in ToSet(CurrentPR.agents) \cup {AnyAgent}
    BY <2>1, <1>p, AttributableIs
  <2>3. \E s \in [1..Len(CurrentPR.agents) -> Answers] : gathered = FlattenSeq(s)
    BY <2>1 DEF GateInv
  <2>4. IsList(gathered)
    <3>1. gathered \in Seq(Reportable)
      BY DEF GateInv
    <3>2. \A i \in 1..Len(gathered) : gathered[i] \in ToSet(gathered)
      BY <3>1 DEF ToSet
    <3> QED
      BY <3>1, <3>2 DEF IsList
  <2>5. /\ IsList(graded') /\ Len(graded') = Len(graded) + 1 /\ Len(graded') <= Len(dataset)
        /\ \A i \in 1..Len(graded') : OwnScore(i)'
    BY <2>1, <2>2, <2>3, <2>4, OneMoreScore
  <2> QED
    BY <2>1, <2>5, ScoreKeeps
<1>10. CASE Finish
  <2>1. /\ tool # "idle" /\ dataset # <<>> /\ ~More
        /\ Stop(IF \E i \in DOMAIN graded : ~graded[i].passed THEN "1" ELSE "0")
    BY <1>10 DEF Finish, Running
  <2>2. CASE \E i \in DOMAIN graded : ~graded[i].passed
    BY <2>1, <2>2, <1>0, StopKeeps
  <2>3. CASE ~\E i \in DOMAIN graded : ~graded[i].passed
    BY <2>1, <2>3, <1>0, StopKeeps
  <2> QED
    BY <2>2, <2>3
<1>11. CASE UNCHANGED gateVars
  <2>1. /\ exit' = exit /\ tool' = tool /\ dataset' = dataset /\ file' = file
        /\ gathered' = gathered /\ turn' = turn /\ graded' = graded
    BY <1>11 DEF gateVars
  <2>2. \A i \in 1..Len(graded) : OwnScore(i)'
    BY <2>1 DEF GateInv, OwnScore, GradedList
  <2>3. More' = More /\ CurrentPR' = CurrentPR
    BY <2>1 DEF More, CurrentPR
  <2> QED
    BY <2>1, <2>2, <2>3 DEF GateInv, GateMayRaise
<1>12. ASSUME NEW command \in {"gate", "canary"}, LoadFails(command) PROVE GateInv'
  BY <1>12, LoadFailsKeeps
<1>13. CASE FileUnreadable
  BY <1>13, StopKeeps DEF FileUnreadable, Running, GateMayRaise
<1> QED
  BY <1>1, <1>2, <1>3, <1>4, <1>5, <1>6, <1>7, <1>8, <1>9, <1>10, <1>11, <1>12, <1>13 DEF GateNext

\* A list of golden findings passes against itself exactly if there is one in it.
LEMMA SelfPasses ==
    ASSUME NEW e, IsList(e)
    PROVE  Passes(e, e) <=> e # <<>>
<1>1. Len(e) \in Nat /\ DOMAIN e = 1..Len(e) /\ (Len(e) = 0 <=> e = <<>>)
  BY DEF IsList
<1>2. Matched(e, e) = 2 * Len(e)
  BY <1>1, SelfIsPerfect
<1> QED
  BY <1>1, <1>2 DEF Passes

\* Whatever golden sets, findings files and answers there are, the exit status of the
\* release gate and of the canary is a verdict on the findings that were to be graded: 0 is
\* earned by every golden PR, 1 means that one failed (or that the gate raised: over a golden
\* set it cannot load, or a findings file that cannot be read or holds no findings), each PR is
\* scored on findings of its own, and a run without findings passes exactly if every
\* golden PR expects one (regression_gate.py and canary.py).
THEOREM VerdictEarned == GateSpec => []VerdictIsEarned
<1>1. GateInv => VerdictIsEarned
  <2> SUFFICES ASSUME GateInv PROVE VerdictIsEarned
    OBVIOUS
  <2>0. /\ Len(graded) \in Nat /\ DOMAIN graded = 1..Len(graded) /\ Len(dataset) \in Nat
        /\ DOMAIN dataset = 1..Len(dataset) /\ Len(graded) <= Len(dataset)
        /\ \A i \in 1..Len(dataset) : IsList(dataset[i].expected)
    BY ListIs, DatasetIs DEF GateInv
  <2>a. ~More => Len(graded) = Len(dataset)
    <3>1. Len(graded) \in Nat /\ Len(dataset) \in Nat /\ Len(graded) <= Len(dataset)
      BY <2>0
    <3> QED
      BY <3>1 DEF More
  <2>1. \A i \in 1..Len(graded) : graded[i].passed = Passes(graded[i].expected, graded[i].actual)
    <3> SUFFICES ASSUME NEW i \in 1..Len(graded)
                 PROVE  graded[i].passed = Passes(graded[i].expected, graded[i].actual)
      OBVIOUS
    <3> DEFINE g == graded[i]
    <3>1. g = Grade(g.expected, g.actual)
      BY DEF GateInv, OwnScore
    <3> HIDE DEF g
    <3>2. \A e, a : Grade(e, a).passed = Passes(e, a)
      BY DEF Grade
    <3>3. Grade(g.expected, g.actual).passed = Passes(g.expected, g.actual)
      BY <3>2
    <3>4. g.passed = Grade(g.expected, g.actual).passed
      BY <3>1, Zenon
    <3> QED
      BY <3>3, <3>4 DEF g
  <2>2. GateTypeOK
    <3>1. file.kind \in FileKinds
      BY GateAssumption DEF GateInv, NoFile, FileKinds
    <3> QED
      BY <3>1, <2>0 DEF GateTypeOK, GateInv
  <2>3. PassIsEarned
    <3> SUFFICES ASSUME exit = "0"
                 PROVE  /\ Len(graded) = Len(dataset)
                        /\ \A i \in 1..Len(graded) : Passes(graded[i].expected, graded[i].actual)
      BY <2>0 DEF PassIsEarned
    <3>1. ~More /\ \A i \in 1..Len(graded) : graded[i].passed
      BY DEF GateInv
    <3>2. Len(graded) = Len(dataset)
      BY <3>1, <2>a
    <3>3. ASSUME NEW i \in 1..Len(graded) PROVE Passes(graded[i].expected, graded[i].actual)
      <4>1. graded[i].passed /\ graded[i].passed = Passes(graded[i].expected, graded[i].actual)
        BY <3>1, <2>1
      <4> QED
        BY <4>1, Zenon
    <3> QED
      BY <3>2, <3>3
  <2>4. GradedOnOwnFindings
    <3> SUFFICES ASSUME NEW i \in 1..Len(graded)
                 PROVE  /\ (tool = "gate" /\ file.findings # <<>>) => graded[i].actual = file.findings
                        /\ tool = "canary" =>
                             /\ \E s \in [1..Len(dataset[i].agents) -> Answers] :
                                    graded[i].actual = FlattenSeq(s)
                             /\ \A n \in DOMAIN graded[i].expected :
                                    graded[i].expected[n].agent
                                       \in ToSet(dataset[i].agents) \cup {AnyAgent}
      BY <2>0 DEF GradedOnOwnFindings
    <3> QED
      BY DEF GateInv, OwnScore, GradedList, Lists
  <2>5. BlockIsAVerdict
    BY <2>0 DEF BlockIsAVerdict, GateInv
  <2>6. SelfCheckNeedsExpectations
    <3> SUFFICES ASSUME tool = "gate", exit \in {"0", "1"}, file.findings = <<>>, dataset # <<>>,
                        file.kind \in {"absent", "list"}
                 PROVE  exit = "0" <=> \A i \in 1..Len(dataset) : dataset[i].expected # <<>>
      BY <2>0 DEF SelfCheckNeedsExpectations
    <3>1. Len(graded) = Len(dataset)
      <4>1. ~More
        <5>1. CASE exit = "0"
          BY <5>1 DEF GateInv
        <5>2. CASE exit = "1"
          BY <5>2 DEF GateInv, GateMayRaise
        <5> QED
          BY <5>1, <5>2
      <4> QED
        BY <4>1, <2>a
    <3>2. \A i \in 1..Len(graded) : graded[i].passed <=> dataset[i].expected # <<>>
      <4> SUFFICES ASSUME NEW i \in 1..Len(graded) PROVE graded[i].passed <=> dataset[i].expected # <<>>
        OBVIOUS
      <4>1. graded[i].expected = dataset[i].expected /\ graded[i].actual = dataset[i].expected
        BY DEF GateInv, OwnScore, GradedList
      <4>2. IsList(dataset[i].expected)
        BY <2>0, <3>1
      <4> QED
        BY <4>1, <4>2, <2>1, SelfPasses
    <3> QED
      BY <3>1, <3>2 DEF GateInv, GateMayRaise
  <2> QED
    BY <2>2, <2>3, <2>4, <2>5, <2>6 DEF VerdictIsEarned
<1> QED
  BY <1>1, GateInitInv, GateInvInductive, PTL DEF GateSpec

\* Whatever is scored, the judge's greedy score is never more than the best assignment of
\* findings to expectations is worth and never less than a third of it, and it is perfect
\* for the golden findings in any order and for nothing else (judge.py).
THEOREM JudgeSound == GateSpec => []JudgeIsSound
<1>1. GateInv => JudgeIsSound
  <2> SUFFICES ASSUME GateInv PROVE JudgeIsSound
    OBVIOUS
  <2>0. DOMAIN graded = 1..Len(graded)
    BY ListIs DEF GateInv
  <2>1. \A i \in 1..Len(graded) : Lists(graded[i].expected, graded[i].actual)
    BY DEF GateInv, OwnScore
  <2>2. GreedyIsAtLeastThird
    BY <2>0, <2>1, ThirdOfBest DEF GreedyIsAtLeastThird
  <2>3. PerfectIffExact
    <3> SUFFICES ASSUME NEW e, NEW a, Lists(e, a)
                 PROVE  (Matched(e, a) = 2 * Len(a) /\ Len(a) = Len(e)) <=>
                          \E s \in Assignments(e, a) :
                             /\ \A j \in DOMAIN a : s[j] # 0 /\ SameFinding(a[j], e[s[j]])
                             /\ Len(a) = Len(e)
      BY <2>0, <2>1 DEF PerfectIffExact
    <3>1. DOMAIN a = 1..Len(a)
      BY DEF Lists
    <3>2. Matched(e, a) = 2 * Len(a) =>
            \E s \in Assignments(e, a) : \A j \in 1..Len(a) : s[j] # 0 /\ SameFinding(a[j], e[s[j]])
      BY PerfectIsExact
    <3>3. ASSUME NEW s \in Assignments(e, a),
                 \A j \in 1..Len(a) : s[j] # 0 /\ SameFinding(a[j], e[s[j]])
          PROVE  Matched(e, a) = 2 * Len(a)
      BY <3>3, ExactIsPerfect
    <3> QED
      BY <3>1, <3>2, <3>3
  <2> QED
    BY <2>2, <2>3 DEF JudgeIsSound
<1> QED
  BY <1>1, GateInitInv, GateInvInductive, PTL DEF GateSpec
=============================================================================
