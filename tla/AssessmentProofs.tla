--------------------------- MODULE AssessmentProofs ---------------------------
(***************************************************************************)
(* Theorems about Assessment, for any pages, questions and weights: what   *)
(* of a page becomes evidence, and what a stance and a verdict rest on.    *)
(* First facts about order, sums and trees.                                *)
(***************************************************************************)
EXTENDS Assessment, FiniteSetTheorems, FunctionTheorems, WellFoundedInduction, TLAPS

LEMMA Least == ASSUME NEW T \in SUBSET Nat, T # {} PROVE \E m \in T : \A n \in T : m <= n
<1> DEFINE Below == OpToRel(<, Nat)
<1>1. IsWellFoundedOn(Below, Nat)
  BY NatLessThanWellFounded
<1>2. \A x, y \in Nat : x < y => <<x, y>> \in Below
  BY DEF OpToRel
<1> HIDE DEF Below
<1>3. PICK m \in T : \A n \in T : ~(<<n, m>> \in Below)
  BY <1>1, WFMin
<1>4. ASSUME NEW n \in T PROVE m <= n
  <2>1. m \in Nat /\ n \in Nat
    OBVIOUS
  <2>2. ~(n < m)
    BY <1>2, <1>3, <2>1
  <2> QED BY <2>1, <2>2
<1> QED BY <1>4

LEMMA MinIs == ASSUME NEW T \in SUBSET Nat, T # {} PROVE Min(T) \in T /\ \A n \in T : Min(T) <= n
BY Least DEF Min

-----------------------------------------------------------------------------
(* Putting a finite set in order: every member has a place of its own, and *)
(* comes after those that are before it.                                   *)
StrictOrder(S, before) ==
    /\ \A x \in S : <<x, x>> \notin before
    /\ \A x, y \in S : x # y => <<x, y>> \in before \/ <<y, x>> \in before
    /\ \A x, y, z \in S : <<x, y>> \in before /\ <<y, z>> \in before => <<x, z>> \in before

Enumerates(o, n, S) ==
    /\ n \in Nat /\ o \in [1..n -> S]
    /\ \A x \in S : \E k \in 1..n : o[k] = x
    /\ \A j, k \in 1..n : o[j] = o[k] => j = k

LEMMA OrderedIs ==
  ASSUME NEW S, IsFiniteSet(S), NEW before, StrictOrder(S, before)
  PROVE  /\ Enumerates(Ordered(S, before), Cardinality(S), S)
         /\ \A j, k \in 1..Cardinality(S) :
              <<Ordered(S, before)[j], Ordered(S, before)[k]>> \in before => j < k
<1> DEFINE Ahead(x) == {y \in S : <<y, x>> \in before}
           n == Cardinality(S)
           rank == [x \in S |-> Cardinality(Ahead(x))]
           o == Ordered(S, before)
<1>1. n \in Nat
  BY FS_CardinalityType
<1>2. \A x \in S : IsFiniteSet(Ahead(x)) /\ Cardinality(Ahead(x)) \in Nat
  BY FS_Subset, FS_CardinalityType
<1>3. ASSUME NEW x \in S PROVE Cardinality(Ahead(x)) < n
  <2>1. Ahead(x) \subseteq S /\ Ahead(x) # S
    BY DEF StrictOrder
  <2>2. Cardinality(Ahead(x)) \in Nat
    BY <1>2
  <2> HIDE DEF Ahead
  <2>3. /\ Cardinality(Ahead(x)) <= Cardinality(S)
        /\ Cardinality(S) = Cardinality(Ahead(x)) => Ahead(x) = S
    BY <2>1, FS_Subset
  <2> QED BY <1>1, <2>1, <2>2, <2>3
<1>4. ASSUME NEW x \in S, NEW y \in S, <<x, y>> \in before
      PROVE  Cardinality(Ahead(x)) < Cardinality(Ahead(y))
  <2>1. Ahead(x) \subseteq Ahead(y) /\ x \in Ahead(y) /\ x \notin Ahead(x)
    BY <1>4 DEF StrictOrder
  <2>2. /\ IsFiniteSet(Ahead(y)) /\ Cardinality(Ahead(y)) \in Nat
        /\ Cardinality(Ahead(x)) \in Nat
    BY <1>2
  <2> HIDE DEF Ahead
  <2>3. /\ Cardinality(Ahead(x)) <= Cardinality(Ahead(y))
        /\ Cardinality(Ahead(y)) = Cardinality(Ahead(x)) => Ahead(y) = Ahead(x)
    BY <2>1, <2>2, FS_Subset
  <2> QED BY <2>1, <2>2, <2>3
<1> HIDE DEF Ahead, n
<1>5. rank \in [S -> 0..(n - 1)]
  BY <1>1, <1>2, <1>3
<1>6. \A x, y \in S : rank[x] = rank[y] => x = y
  <2> SUFFICES ASSUME NEW x \in S, NEW y \in S, x # y PROVE rank[x] # rank[y]
    OBVIOUS
  <2>1. <<x, y>> \in before \/ <<y, x>> \in before
    BY DEF StrictOrder
  <2>2. Cardinality(Ahead(x)) \in Nat /\ Cardinality(Ahead(y)) \in Nat
    BY <1>2
  <2> QED BY <1>4, <2>1, <2>2
<1>7. \A i \in 0..(n - 1) : \E x \in S : rank[x] = i
  <2> HIDE DEF rank
  <2>1. rank \in Injection(S, 0..(n - 1))
    BY <1>5, <1>6, Fun_IsInj
  <2>2. IsFiniteSet(0..(n - 1)) /\ Cardinality(0..(n - 1)) = n
    BY <1>1, FS_Interval
  <2>3. rank \in Surjection(S, 0..(n - 1))
    BY <2>1, <2>2, FS_Injection DEF n
  <2> QED BY <2>3 DEF Surjection
<1>8. \A k \in 1..n : o[k] = CHOOSE x \in S : rank[x] = k - 1
  BY DEF Ordered, n, Ahead
<1>9. DOMAIN o = 1..n
  BY DEF Ordered, n
<1>10. ASSUME NEW k \in 1..n PROVE o[k] \in S /\ rank[o[k]] = k - 1
  <2> HIDE DEF rank, o
  <2>1. k - 1 \in 0..(n - 1)
    BY <1>1
  <2>2. \E x \in S : rank[x] = k - 1
    BY <1>7, <2>1
  <2> QED BY <1>8, <2>2
<1> HIDE DEF o
<1>11. o \in [1..n -> S]
  <2>1. o = [k \in 1..n |-> CHOOSE x \in S : Cardinality({y \in S : <<y, x>> \in before}) = k - 1]
    BY Zenon DEF o, Ordered, n
  <2>2. ASSUME NEW k \in 1..n
        PROVE  (CHOOSE x \in S : Cardinality({y \in S : <<y, x>> \in before}) = k - 1) \in S
    <3>1. o[k] = CHOOSE x \in S : Cardinality({y \in S : <<y, x>> \in before}) = k - 1
      BY <1>8 DEF rank, Ahead
    <3> QED BY <1>10, <3>1, Zenon
  <2> QED BY <2>1, <2>2, Zenon
<1>12. \A x \in S : \E k \in 1..n : o[k] = x
  <2> SUFFICES ASSUME NEW x \in S PROVE \E k \in 1..n : o[k] = x
    OBVIOUS
  <2> HIDE DEF rank
  <2>1. PICK j \in 0..(n - 1) : rank[x] = j
    BY <1>5
  <2>2. j + 1 \in 1..n /\ (j + 1) - 1 = j
    BY <1>1
  <2>3. o[j + 1] \in S /\ rank[o[j + 1]] = (j + 1) - 1
    BY <1>10, <2>2
  <2>4. o[j + 1] = x
    BY <1>6, <2>1, <2>2, <2>3
  <2> QED BY <2>2, <2>4
<1>13. \A j, k \in 1..n : o[j] = o[k] => j = k
  <2> HIDE DEF rank
  <2> QED BY <1>1, <1>10
<1>14. ASSUME NEW j \in 1..n, NEW k \in 1..n, <<o[j], o[k]>> \in before PROVE j < k
  <2>1. Cardinality(Ahead(o[j])) < Cardinality(Ahead(o[k]))
    BY <1>4, <1>10, <1>14
  <2>2. Cardinality(Ahead(o[j])) = j - 1 /\ Cardinality(Ahead(o[k])) = k - 1
    BY <1>10
  <2> QED BY <2>1, <2>2
<1> QED BY <1>1, <1>11, <1>12, <1>13, <1>14 DEF Enumerates, o, n

LEMMA ElementsFinite == ASSUME NEW S \in SUBSET (0..Elements) PROVE IsFiniteSet(S)
<1>1. IsFiniteSet(0..Elements)
  BY ExtractionAssumption, FS_Interval DEF ExtractionAssumption
<1> QED BY <1>1, FS_Subset

LEMMA InOrderIs ==
  ASSUME NEW S \in SUBSET (0..Elements)
  PROVE  Enumerates(InOrder(S), Cardinality(S), S)
<1>1. IsFiniteSet(S)
  BY ElementsFinite
<1>2. StrictOrder(S, DocumentOrder)
  BY ExtractionAssumption DEF StrictOrder, DocumentOrder, ExtractionAssumption
<1> QED BY <1>1, <1>2, OrderedIs DEF InOrder
-----------------------------------------------------------------------------
(* Sums.  The sum of a function is defined by taking the members of its    *)
(* domain away one at a time.                                              *)
Some(s) == CHOOSE x \in s : TRUE

UpTo(S, k) == {s \in SUBSET S : Cardinality(s) <= k}

SumsUpTo(f, S, k, g) ==
    /\ g \in [UpTo(S, k) -> Nat]
    /\ \A s \in UpTo(S, k) :
         g[s] = IF s = {} THEN 0 ELSE f[Some(s)] + g[s \ {Some(s)}]

LEMMA OneLess ==
  ASSUME NEW S, IsFiniteSet(S), NEW s \in SUBSET S, s # {}
  PROVE  /\ Some(s) \in s /\ Some(s) \in S /\ s \ {Some(s)} \in SUBSET S
         /\ Cardinality(s) \in Nat \ {0}
         /\ Cardinality(s \ {Some(s)}) = Cardinality(s) - 1
<1>1. Some(s) \in s
  BY DEF Some
<1>2. IsFiniteSet(s)
  BY FS_Subset
<1>3. Cardinality(s) \in Nat /\ Cardinality(s) # 0
  BY <1>2, FS_CardinalityType, FS_EmptySet
<1>4. Cardinality(s \ {Some(s)}) = Cardinality(s) - 1
  BY <1>1, <1>2, FS_RemoveElement
<1> QED BY <1>1, <1>3, <1>4

LEMMA SumsExist ==
  ASSUME NEW S, IsFiniteSet(S), NEW f \in [S -> Nat]
  PROVE  \E g : SumsUpTo(f, S, Cardinality(S), g)
<1> DEFINE n == Cardinality(S)
           Bad == {k \in 0..n : ~\E g : SumsUpTo(f, S, k, g)}
<1>1. n \in Nat
  BY FS_CardinalityType
<1> HIDE DEF n
<1>2. SUFFICES ASSUME Bad # {} PROVE FALSE
  BY <1>1 DEF n
<1>3. PICK m \in Bad : \A k \in Bad : m <= k
  <2>1. Bad \in SUBSET Nat
    OBVIOUS
  <2> HIDE DEF Bad
  <2> QED BY <1>2, <2>1, Least
<1>4. m \in 0..n /\ m \in Nat /\ ~\E g : SumsUpTo(f, S, m, g)
  OBVIOUS
<1>5. \A s \in SUBSET S : IsFiniteSet(s) /\ Cardinality(s) \in Nat
                          /\ (Cardinality(s) = 0 <=> s = {})
  BY FS_Subset, FS_CardinalityType, FS_EmptySet
<1>6. CASE m = 0
  <2> DEFINE g == [s \in UpTo(S, 0) |-> 0]
  <2>1. \A s \in UpTo(S, 0) : s = {}
    BY <1>5 DEF UpTo
  <2>2. SumsUpTo(f, S, 0, g)
    BY <2>1 DEF SumsUpTo
  <2> QED BY <1>4, <1>6, <2>2
<1>7. CASE m # 0
  <2>1. m - 1 \in 0..n /\ ~(m <= m - 1)
    BY <1>1, <1>4, <1>7
  <2>2. PICK g : SumsUpTo(f, S, m - 1, g)
    BY <1>3, <2>1
  <2> DEFINE term(s) == f[Some(s)] + g[s \ {Some(s)}]
             h == [s \in UpTo(S, m) |-> IF s \in UpTo(S, m - 1) THEN g[s] ELSE term(s)]
  <2>3. ASSUME NEW s \in UpTo(S, m), s # {}
        PROVE  /\ s \ {Some(s)} \in UpTo(S, m - 1) /\ s \ {Some(s)} \in UpTo(S, m)
               /\ term(s) \in Nat
    <3>1. s \in SUBSET S /\ Cardinality(s) <= m
      BY DEF UpTo
    <3>2. /\ Some(s) \in S /\ s \ {Some(s)} \in SUBSET S
          /\ Cardinality(s) \in Nat \ {0}
          /\ Cardinality(s \ {Some(s)}) = Cardinality(s) - 1
      BY <2>3, <3>1, OneLess
    <3>3. Cardinality(s) - 1 <= m - 1 /\ Cardinality(s) - 1 <= m
      BY <1>4, <3>1, <3>2
    <3>4. s \ {Some(s)} \in UpTo(S, m - 1) /\ s \ {Some(s)} \in UpTo(S, m)
      BY <3>2, <3>3 DEF UpTo
    <3>5. f[Some(s)] \in Nat /\ g[s \ {Some(s)}] \in Nat
      BY <2>2, <3>2, <3>4 DEF SumsUpTo
    <3> QED BY <3>4, <3>5
  <2>4. {} \in UpTo(S, m - 1)
    <3>1. Cardinality({}) = 0
      BY FS_EmptySet
    <3> QED BY <1>4, <1>7, <3>1 DEF UpTo
  <2>5. ASSUME NEW s \in UpTo(S, m) PROVE h[s] \in Nat
    <3>1. CASE s \in UpTo(S, m - 1)
      BY <2>2, <3>1 DEF SumsUpTo
    <3>2. CASE s \notin UpTo(S, m - 1)
      BY <2>3, <2>4, <3>2
    <3> QED BY <3>1, <3>2
  <2>6. ASSUME NEW s \in UpTo(S, m)
        PROVE  h[s] = IF s = {} THEN 0 ELSE f[Some(s)] + h[s \ {Some(s)}]
    <3>1. CASE s = {}
      BY <2>2, <2>4, <3>1 DEF SumsUpTo
    <3>2. CASE s # {} /\ s \in UpTo(S, m - 1)
      <4>1. h[s] = g[s] /\ h[s \ {Some(s)}] = g[s \ {Some(s)}]
        BY <2>3, <3>2
      <4>2. g[s] = f[Some(s)] + g[s \ {Some(s)}]
        BY <2>2, <3>2 DEF SumsUpTo
      <4> QED BY <3>2, <4>1, <4>2
    <3>3. CASE s # {} /\ s \notin UpTo(S, m - 1)
      <4>1. h[s] = term(s) /\ h[s \ {Some(s)}] = g[s \ {Some(s)}]
        BY <2>3, <3>3
      <4> QED BY <3>3, <4>1
    <3> QED BY <3>1, <3>2, <3>3
  <2>7. h \in [UpTo(S, m) -> Nat]
    BY <2>5
  <2> HIDE DEF h
  <2>8. SumsUpTo(f, S, m, h)
    BY <2>6, <2>7 DEF SumsUpTo
  <2> QED BY <1>4, <2>8
<1> QED BY <1>6, <1>7

(* The sum of finitely many natural numbers is a natural number.           *)
LEMMA SumType ==
  ASSUME NEW S, IsFiniteSet(S), NEW f \in [S -> Nat]
  PROVE  SumFunction(f) \in Nat
<1>1. PICK g : SumsUpTo(f, S, Cardinality(S), g)
  BY SumsExist
<1>2. UpTo(S, Cardinality(S)) = SUBSET S
  BY FS_Subset DEF UpTo
<1>3. g = [s \in SUBSET S |-> IF s = {} THEN 0 ELSE f[Some(s)] + g[s \ {Some(s)}]]
  <2>1. g \in [SUBSET S -> Nat]
        /\ \A s \in SUBSET S : g[s] = IF s = {} THEN 0 ELSE f[Some(s)] + g[s \ {Some(s)}]
    BY <1>1, <1>2 DEF SumsUpTo
  <2> QED BY <2>1
<1>4. DOMAIN f = S
  OBVIOUS
<1> DEFINE h == CHOOSE h : h = [s \in SUBSET S |->
                                  IF s = {} THEN 0 ELSE f[Some(s)] + h[s \ {Some(s)}]]
<1>5. /\ h = [s \in SUBSET S |-> IF s = {} THEN 0 ELSE f[Some(s)] + h[s \ {Some(s)}]]
      /\ SumFunction(f) = h[S]
  <2>1. h = [s \in SUBSET S |-> IF s = {} THEN 0 ELSE f[Some(s)] + h[s \ {Some(s)}]]
    BY <1>3, Zenon
  <2>2. SumFunction(f) = SumFunctionOnSet(f, S)
    BY <1>4 DEF SumFunction
  <2>3. SumFunctionOnSet(f, S) = h[S]
    BY Zenon DEF SumFunctionOnSet, FoldFunctionOnSet, MapThenFoldSet, Some
  <2> QED BY <2>1, <2>2, <2>3, Zenon
<1> HIDE DEF h
<1>6. \A s \in SUBSET S : h[s] = IF s = {} THEN 0 ELSE f[Some(s)] + h[s \ {Some(s)}]
  BY <1>5
<1> DEFINE Bad == {k \in 0..Cardinality(S) : \E s \in SUBSET S : Cardinality(s) = k /\ h[s] \notin Nat}
<1>7. \A s \in SUBSET S : Cardinality(s) \in 0..Cardinality(S)
  BY FS_Subset, FS_CardinalityType
<1>8. Bad = {}
  <2>1. SUFFICES ASSUME Bad # {} PROVE FALSE
    OBVIOUS
  <2>2. PICK m \in Bad : \A k \in Bad : m <= k
    <3>1. Bad \in SUBSET Nat
      OBVIOUS
    <3> HIDE DEF Bad
    <3> QED BY <2>1, <3>1, Least
  <2>3. PICK s \in SUBSET S : Cardinality(s) = m /\ h[s] \notin Nat
    OBVIOUS
  <2>4. s # {}
    <3>1. h[{}] = 0
      BY <1>6
    <3> QED BY <2>3, <3>1
  <2>5. /\ Some(s) \in S /\ s \ {Some(s)} \in SUBSET S
        /\ Cardinality(s) \in Nat \ {0}
        /\ Cardinality(s \ {Some(s)}) = Cardinality(s) - 1
    BY <2>4, OneLess
  <2>6. Cardinality(s \ {Some(s)}) \notin Bad
    <3>1. ~(m <= Cardinality(s \ {Some(s)}))
      BY <2>3, <2>5
    <3> HIDE DEF Bad
    <3> QED BY <2>2, <3>1
  <2>7. h[s \ {Some(s)}] \in Nat
    BY <1>7, <2>5, <2>6
  <2>8. f[Some(s)] \in Nat
    BY <2>5
  <2> QED BY <1>6, <2>3, <2>4, <2>7, <2>8
<1>9. S \in SUBSET S
  OBVIOUS
<1> QED BY <1>5, <1>7, <1>8, <1>9
-----------------------------------------------------------------------------
(* The tree of a page.                                                     *)
UpFrom(pg, k, g) ==
    /\ g \in [0..k -> SUBSET (0..Elements)]
    /\ \A e \in 0..k : g[e] = IF e = 0 THEN {} ELSE {pg.parent[e]} \cup g[pg.parent[e]]

LEMMA PageIs ==
  ASSUME NEW pg \in Pages(Shape)
  PROVE  /\ \A e \in Element : pg.parent[e] \in Nat /\ pg.parent[e] < e
         /\ pg.text \in [Element -> Passage \cup {Blank}]
<1>1. PICK s \in Shape, t \in [Element -> Passage \cup {Blank}] :
        pg = [parent |-> s.parent, tag |-> s.tag, text |-> t]
  BY DEF Pages
<1>2. s.parent \in Parents
  BY DEF Shape
<1> QED BY <1>1, <1>2 DEF Parents

LEMMA UpExists ==
  ASSUME NEW pg \in Pages(Shape) PROVE \E g : UpFrom(pg, Elements, g)
<1> DEFINE Bad == {k \in 0..Elements : ~\E g : UpFrom(pg, k, g)}
<1>1. Elements \in Nat
  BY ExtractionAssumption DEF ExtractionAssumption
<1>2. SUFFICES ASSUME Bad # {} PROVE FALSE
  BY <1>1
<1>3. PICK m \in Bad : \A k \in Bad : m <= k
  <2>1. Bad \in SUBSET Nat
    OBVIOUS
  <2> HIDE DEF Bad
  <2> QED BY <1>2, <2>1, Least
<1>4. m \in 0..Elements /\ m \in Nat /\ ~\E g : UpFrom(pg, m, g)
  OBVIOUS
<1>5. CASE m = 0
  <2> DEFINE g == [e \in 0..0 |-> {}]
  <2>1. \A e \in 0..0 : e = 0
    OBVIOUS
  <2>2. UpFrom(pg, 0, g)
    BY <2>1 DEF UpFrom
  <2> QED BY <1>4, <1>5, <2>2
<1>6. CASE m # 0
  <2>1. m - 1 \in 0..Elements /\ ~(m <= m - 1)
    BY <1>1, <1>4, <1>6
  <2>2. PICK g : UpFrom(pg, m - 1, g)
    BY <1>3, <2>1
  <2> DEFINE p == pg.parent
             h == [e \in 0..m |-> IF e = m THEN {p[m]} \cup g[p[m]] ELSE g[e]]
  <2>3. ASSUME NEW e \in 1..m PROVE p[e] \in 0..(m - 1) /\ p[e] \in 0..Elements /\ p[e] # m
    <3>1. e \in Element
      BY <1>1, <1>4 DEF Element
    <3>2. p[e] \in Nat /\ p[e] < e
      BY <3>1, PageIs
    <3> QED BY <1>1, <1>4, <3>2
  <2>4. \A e \in 0..(m - 1) : g[e] \in SUBSET (0..Elements)
    BY <2>2 DEF UpFrom
  <2>5. {p[m]} \cup g[p[m]] \in SUBSET (0..Elements)
    <3>1. p[m] \in 0..(m - 1) /\ p[m] \in 0..Elements
      BY <1>4, <1>6, <2>3
    <3> QED BY <2>4, <3>1
  <2>6. \A e \in 0..m : e # m => e \in 0..(m - 1)
    BY <1>4
  <2>7. h \in [0..m -> SUBSET (0..Elements)]
    BY <2>4, <2>5, <2>6
  <2>8. ASSUME NEW e \in 0..m
        PROVE  h[e] = IF e = 0 THEN {} ELSE {p[e]} \cup h[p[e]]
    <3>1. CASE e = 0
      <4>1. 0 \in 0..(m - 1) /\ e # m
        BY <1>4, <1>6, <3>1
      <4> QED BY <2>2, <3>1, <4>1 DEF UpFrom
    <3>2. CASE e # 0
      <4>1. p[e] \in 0..(m - 1) /\ p[e] \in 0..m /\ p[e] # m
        BY <1>4, <2>3, <3>2
      <4>2. h[p[e]] = g[p[e]]
        BY <4>1
      <4>3. e # m => g[e] = {p[e]} \cup g[p[e]]
        BY <2>2, <2>6, <3>2 DEF UpFrom
      <4> QED BY <3>2, <4>2, <4>3
    <3> QED BY <3>1, <3>2
  <2> HIDE DEF h
  <2>9. UpFrom(pg, m, h)
    BY <2>7, <2>8 DEF UpFrom
  <2> QED BY <1>4, <2>9
<1> QED BY <1>5, <1>6

LEMMA AncestorsAre ==
  ASSUME NEW pg \in Pages(Shape)
  PROVE  /\ Ancestors(pg)[0] = {}
         /\ \A e \in Element :
              Ancestors(pg)[e] = {pg.parent[e]} \cup Ancestors(pg)[pg.parent[e]]
<1> DEFINE up == CHOOSE up : up = [e \in 0..Elements |->
                   IF e = 0 THEN {} ELSE {pg.parent[e]} \cup up[pg.parent[e]]]
<1>1. PICK g : UpFrom(pg, Elements, g)
  BY UpExists
<1>2. g = [e \in 0..Elements |-> IF e = 0 THEN {} ELSE {pg.parent[e]} \cup g[pg.parent[e]]]
  <2>1. /\ g \in [0..Elements -> SUBSET (0..Elements)]
        /\ \A e \in 0..Elements :
             g[e] = IF e = 0 THEN {} ELSE {pg.parent[e]} \cup g[pg.parent[e]]
    BY <1>1 DEF UpFrom
  <2> QED BY <2>1
<1>3. up = [e \in 0..Elements |-> IF e = 0 THEN {} ELSE {pg.parent[e]} \cup up[pg.parent[e]]]
  BY <1>2, Zenon
<1>4. Ancestors(pg) = up
  BY Zenon DEF Ancestors
<1> HIDE DEF up
<1>5. \A e \in 0..Elements : up[e] = IF e = 0 THEN {} ELSE {pg.parent[e]} \cup up[pg.parent[e]]
  BY <1>3
<1>6. 0 \in 0..Elements /\ \A e \in Element : e \in 0..Elements /\ e # 0
  BY ExtractionAssumption DEF ExtractionAssumption, Element
<1> QED BY <1>4, <1>5, <1>6

(* What is above an element e: the body and elements before it, each with  *)
(* all that is above it, and of any two of them one is above the other.    *)
Above(up, e) ==
    /\ up[e] \subseteq 0..(e - 1)
    /\ e # 0 => 0 \in up[e]
    /\ \A x \in up[e] : up[x] \subseteq up[e]
    /\ \A x, y \in up[e] : x = y \/ x \in up[y] \/ y \in up[x]

LEMMA TreeIs ==
  ASSUME NEW pg \in Pages(Shape), NEW e \in 0..Elements
  PROVE  Above(Ancestors(pg), e)
<1> DEFINE up == Ancestors(pg)
           Bad == {k \in 0..Elements : ~Above(up, k)}
<1>1. Elements \in Nat
  BY ExtractionAssumption DEF ExtractionAssumption
<1>2. SUFFICES ASSUME Bad # {} PROVE FALSE
  OBVIOUS
<1>3. PICK m \in Bad : \A k \in Bad : m <= k
  <2>1. Bad \in SUBSET Nat
    OBVIOUS
  <2> HIDE DEF Bad
  <2> QED BY <1>2, <2>1, Least
<1>4. m \in 0..Elements /\ m \in Nat /\ ~Above(up, m)
  OBVIOUS
<1>5. CASE m = 0
  <2>1. up[0] = {}
    BY AncestorsAre
  <2> HIDE DEF up
  <2> QED BY <1>4, <1>5, <2>1 DEF Above
<1>6. CASE m # 0
  <2>1. m \in Element
    BY <1>1, <1>4, <1>6 DEF Element
  <2> DEFINE p == pg.parent[m]
  <2>2. p \in Nat /\ p < m
    BY <2>1, PageIs
  <2>3. up[m] = {p} \cup up[p]
    BY <2>1, AncestorsAre
  <2>4. Above(up, p)
    <3>1. p \in 0..Elements /\ ~(m <= p)
      BY <1>1, <1>4, <2>2
    <3>2. p \notin Bad
      <4> HIDE DEF Bad, p
      <4> QED BY <1>3, <3>1
    <3> QED BY <3>1, <3>2
  <2> HIDE DEF up, p, Bad
  <2>5. up[m] \subseteq 0..(m - 1)
    <3>1. \A x \in 0..(p - 1) : x \in 0..(m - 1)
      BY <1>4, <2>2
    <3>2. p \in 0..(m - 1)
      BY <1>4, <2>2
    <3>3. up[p] \subseteq 0..(p - 1)
      BY <2>4 DEF Above
    <3> QED BY <2>3, <3>1, <3>2, <3>3
  <2>6. 0 \in up[m]
    BY <2>3, <2>4 DEF Above
  <2>7. \A x \in up[m] : up[x] \subseteq up[m]
    BY <2>3, <2>4 DEF Above
  <2>8. \A x, y \in up[m] : x = y \/ x \in up[y] \/ y \in up[x]
    BY <2>3, <2>4 DEF Above
  <2> QED BY <1>4, <2>5, <2>6, <2>7, <2>8 DEF Above
<1> QED BY <1>5, <1>6
-----------------------------------------------------------------------------
(* Lines.  Of elements that are not below one another no text is taken     *)
(* twice.                                                                  *)
Seen(pg) == {e \in Kept(pg) : pg.text[e] # Blank}

Unrelated(pg, elements) ==
    \A a, b \in elements : a # b => a \notin Ancestors(pg)[b] /\ b \notin Ancestors(pg)[a]

Once(lines, texts) ==
    \A j \in DOMAIN lines : \A m \in DOMAIN lines[j] :
      /\ lines[j][m] \in texts
      /\ \A k \in DOMAIN lines : \A n \in DOMAIN lines[k] :
           lines[j][m] = lines[k][n] => j = k /\ m = n

LEMMA KeptIs == ASSUME NEW pg PROVE Kept(pg) \subseteq Element /\ Element \subseteq 0..Elements
                                    /\ Seen(pg) \subseteq Element
BY DEF Kept, Element, Seen

LEMMA TextsOf ==
  ASSUME NEW pg \in Pages(Shape), NEW e \in Kept(pg) \cup {0}
  PROVE  /\ TextIn(pg, e) \in SUBSET (0..Elements) /\ TextIn(pg, e) \subseteq Seen(pg)
         /\ Enumerates(TextOf(pg, e), Cardinality(TextIn(pg, e)), TextIn(pg, e))
<1>1. TextIn(pg, e) \subseteq Seen(pg)
  BY DEF TextIn, Within, Seen
<1>2. TextIn(pg, e) \in SUBSET (0..Elements)
  BY <1>1, KeptIs
<1>3. Enumerates(TextOf(pg, e), Cardinality(TextIn(pg, e)), TextIn(pg, e))
  <2> HIDE DEF TextIn
  <2> QED BY <1>2, InOrderIs DEF TextOf
<1> QED BY <1>1, <1>2, <1>3

LEMMA TextsApart ==
  ASSUME NEW pg \in Pages(Shape), NEW elements \in SUBSET (Kept(pg) \cup {0}),
         Unrelated(pg, elements),
         NEW a \in elements, NEW b \in elements, NEW x \in TextIn(pg, a), x \in TextIn(pg, b)
  PROVE  a = b
<1>1. SUFFICES ASSUME a # b PROVE FALSE
  OBVIOUS
<1>2. a \notin Ancestors(pg)[b] /\ b \notin Ancestors(pg)[a]
  BY <1>1 DEF Unrelated
<1>3. (x = a \/ a \in Ancestors(pg)[x]) /\ (x = b \/ b \in Ancestors(pg)[x])
  BY DEF TextIn, Within
<1>4. x \in 0..Elements
  BY TextsOf
<1>5. Above(Ancestors(pg), x)
  BY <1>4, TreeIs
<1> HIDE DEF Ancestors, TextIn
<1> QED BY <1>1, <1>2, <1>3, <1>5 DEF Above

LEMMA LinesAre ==
  ASSUME NEW pg \in Pages(Shape), NEW elements \in SUBSET (Kept(pg) \cup {0})
  PROVE  LET S == {e \in elements : TextIn(pg, e) # {}}
             order == InOrder(S)
             lines == LinesOf(pg, elements)
         IN  /\ Enumerates(order, Cardinality(S), S)
             /\ DOMAIN lines = 1..Cardinality(S) /\ Cardinality(S) \in Nat
             /\ \A j \in DOMAIN lines : /\ order[j] \in S
                                        /\ lines[j] = TextOf(pg, order[j])
                                        /\ Enumerates(lines[j], Cardinality(TextIn(pg, order[j])),
                                                      TextIn(pg, order[j]))
<1> DEFINE S == {e \in elements : TextIn(pg, e) # {}}
           order == InOrder(S)
           lines == LinesOf(pg, elements)
<1>1. S \in SUBSET (0..Elements) /\ S \in SUBSET (Kept(pg) \cup {0})
  <2>1. 0 \in 0..Elements
    BY ExtractionAssumption DEF ExtractionAssumption
  <2> QED BY <2>1, KeptIs
<1>2. lines = [k \in DOMAIN order |-> TextOf(pg, order[k])]
  BY DEF LinesOf
<1> HIDE DEF S, lines
<1>3. Enumerates(order, Cardinality(S), S)
  BY <1>1, InOrderIs
<1> HIDE DEF order
<1>4. DOMAIN lines = 1..Cardinality(S) /\ Cardinality(S) \in Nat /\ DOMAIN order = DOMAIN lines
  BY <1>2, <1>3 DEF Enumerates
<1>5. ASSUME NEW j \in DOMAIN lines
      PROVE  /\ order[j] \in S /\ lines[j] = TextOf(pg, order[j])
             /\ Enumerates(lines[j], Cardinality(TextIn(pg, order[j])), TextIn(pg, order[j]))
  <2>1. order[j] \in S
    BY <1>3, <1>4 DEF Enumerates
  <2>2. lines[j] = TextOf(pg, order[j])
    BY <1>2, <1>4
  <2>3. order[j] \in Kept(pg) \cup {0}
    BY <1>1, <2>1
  <2>4. Enumerates(TextOf(pg, order[j]), Cardinality(TextIn(pg, order[j])), TextIn(pg, order[j]))
    BY <2>3, TextsOf
  <2> QED BY <2>1, <2>2, <2>4
<1> QED BY <1>3, <1>4, <1>5 DEF S, order, lines

LEMMA LinesOnce ==
  ASSUME NEW pg \in Pages(Shape), NEW elements \in SUBSET (Kept(pg) \cup {0}),
         Unrelated(pg, elements)
  PROVE  Once(LinesOf(pg, elements), Seen(pg))
<1> DEFINE S == {e \in elements : TextIn(pg, e) # {}}
           order == InOrder(S)
           lines == LinesOf(pg, elements)
<1>1. /\ Enumerates(order, Cardinality(S), S)
      /\ DOMAIN lines = 1..Cardinality(S)
      /\ \A j \in DOMAIN lines : /\ order[j] \in S
                                 /\ Enumerates(lines[j], Cardinality(TextIn(pg, order[j])),
                                               TextIn(pg, order[j]))
  BY LinesAre
<1>2. S \subseteq elements
  OBVIOUS
<1> HIDE DEF S, order, lines
<1>3. ASSUME NEW j \in DOMAIN lines, NEW m \in DOMAIN lines[j]
      PROVE  order[j] \in elements /\ lines[j][m] \in TextIn(pg, order[j])
  BY <1>1, <1>2 DEF Enumerates
<1>4. ASSUME NEW j \in DOMAIN lines, NEW m \in DOMAIN lines[j] PROVE lines[j][m] \in Seen(pg)
  BY <1>3, TextsOf
<1>5. ASSUME NEW j \in DOMAIN lines, NEW m \in DOMAIN lines[j],
             NEW k \in DOMAIN lines, NEW n \in DOMAIN lines[k], lines[j][m] = lines[k][n]
      PROVE  j = k /\ m = n
  <2>1. order[j] = order[k]
    BY <1>3, <1>5, TextsApart
  <2>2. j = k
    BY <1>1, <2>1 DEF Enumerates
  <2> QED BY <1>1, <1>5, <2>2 DEF Enumerates
<1>6. Once(lines, Seen(pg))
  BY <1>4, <1>5 DEF Once
<1> QED BY <1>6 DEF lines

LEMMA BlocksApart ==
  ASSUME NEW pg \in Pages(Shape), NEW c
  PROVE  Blocks(pg, c) \in SUBSET Kept(pg) /\ Unrelated(pg, Blocks(pg, c))
<1>1. Blocks(pg, c) \in SUBSET Kept(pg)
  BY DEF Blocks, Within
<1>2. ASSUME NEW a \in Blocks(pg, c), NEW b \in Blocks(pg, c) PROVE a \notin Ancestors(pg)[b]
  BY DEF Blocks
<1> QED BY <1>1, <1>2 DEF Unrelated

(* One line with all the text of the page, if it has any.                  *)
LEMMA BareText ==
  ASSUME NEW pg \in Pages(Shape)
  PROVE  /\ Once(LinesOf(pg, {0}), Seen(pg))
         /\ Seen(pg) # {} => LinesOf(pg, {0}) # <<>>
<1>1. {0} \in SUBSET (Kept(pg) \cup {0}) /\ Unrelated(pg, {0})
  BY DEF Unrelated
<1>2. ASSUME Seen(pg) # {} PROVE LinesOf(pg, {0}) # <<>>
  <2> DEFINE S == {e \in {0} : TextIn(pg, e) # {}}
  <2>1. PICK x \in Seen(pg) : TRUE
    BY <1>2
  <2>2. x \in Kept(pg) /\ x \in Element /\ pg.text[x] # Blank
    BY KeptIs DEF Seen
  <2>3. x \in 0..Elements /\ x # 0
    BY <2>2, KeptIs DEF Element
  <2>4. 0 \in Ancestors(pg)[x]
    BY <2>3, TreeIs DEF Above
  <2>5. S = {0}
    BY <2>2, <2>4 DEF TextIn, Within
  <2>6. DOMAIN LinesOf(pg, {0}) = 1..Cardinality(S)
    BY <1>1, LinesAre
  <2>7. Cardinality({0}) = 1
    BY FS_Singleton
  <2> HIDE DEF S
  <2>8. 1 \in DOMAIN LinesOf(pg, {0})
    <3>1. Cardinality(S) = 1
      BY <2>5, <2>7
    <3> QED BY <2>6, <3>1
  <2> QED BY <2>8
<1>3. Once(LinesOf(pg, {0}), Seen(pg))
  BY <1>1, LinesOnce
<1> QED BY <1>2, <1>3

(* The text of a page is taken once, and some of it if there is any.       *)
LEMMA MainTextOnce ==
  ASSUME NEW pg \in Pages(Shape)
  PROVE  /\ Once(MainText(pg), Seen(pg))
         /\ Seen(pg) # {} => MainText(pg) # <<>>
<1>1. \A c : Once(BlockLines(pg, c), Seen(pg))
  <2> TAKE c
  <2>1. Blocks(pg, c) \in SUBSET (Kept(pg) \cup {0}) /\ Unrelated(pg, Blocks(pg, c))
    BY BlocksApart
  <2> QED BY <2>1, LinesOnce DEF BlockLines
<1>2. \/ MainText(pg) = BlockLines(pg, Container(pg)) /\ MainText(pg) # <<>>
      \/ MainText(pg) = BlockLines(pg, 0) /\ MainText(pg) # <<>>
      \/ MainText(pg) = LinesOf(pg, {0})
  BY DEF MainText, OrElse
<1> QED BY <1>1, <1>2, BareText
-----------------------------------------------------------------------------
(* Sentences.  A line is never empty; every segment is of visible text, and *)
(* there are no more segments than elements.                               *)
LEMMA SeqIs ==
  ASSUME NEW n \in Nat, NEW T, NEW s \in [1..n -> T] PROVE s \in Seq(T) /\ Len(s) = n
OBVIOUS

LEMMA LinesFull ==
  ASSUME NEW pg \in Pages(Shape), NEW elements \in SUBSET (Kept(pg) \cup {0})
  PROVE  \A k \in DOMAIN LinesOf(pg, elements) : 1 \in DOMAIN LinesOf(pg, elements)[k]
<1> DEFINE S == {e \in elements : TextIn(pg, e) # {}}
           order == InOrder(S)
           lines == LinesOf(pg, elements)
<1>1. \A j \in DOMAIN lines :
        order[j] \in S /\ Enumerates(lines[j], Cardinality(TextIn(pg, order[j])), TextIn(pg, order[j]))
  BY LinesAre
<1>2. \A e \in S : TextIn(pg, e) # {}
  OBVIOUS
<1> HIDE DEF S, order, lines
<1>3. ASSUME NEW k \in DOMAIN lines PROVE 1 \in DOMAIN lines[k]
  <2> DEFINE T == TextIn(pg, order[k])
  <2>1. T # {} /\ Enumerates(lines[k], Cardinality(T), T)
    BY <1>1, <1>2
  <2> HIDE DEF T
  <2>2. PICK i \in 1..Cardinality(T) : TRUE
    BY <2>1 DEF Enumerates
  <2>3. 1 \in 1..Cardinality(T)
    BY <2>1, <2>2 DEF Enumerates
  <2> QED BY <2>1, <2>3 DEF Enumerates
<1> QED BY <1>3 DEF lines

LEMMA MainTextFull ==
  ASSUME NEW pg \in Pages(Shape)
  PROVE  \A k \in DOMAIN MainText(pg) : 1 \in DOMAIN MainText(pg)[k]
<1>1. ASSUME NEW c
      PROVE  \A k \in DOMAIN BlockLines(pg, c) : 1 \in DOMAIN BlockLines(pg, c)[k]
  <2>1. Blocks(pg, c) \in SUBSET (Kept(pg) \cup {0})
    BY BlocksApart
  <2> QED BY <2>1, LinesFull DEF BlockLines
<1>2. {0} \in SUBSET (Kept(pg) \cup {0})
  OBVIOUS
<1>3. \A k \in DOMAIN LinesOf(pg, {0}) : 1 \in DOMAIN LinesOf(pg, {0})[k]
  BY <1>2, LinesFull
<1>4. \/ MainText(pg) = BlockLines(pg, Container(pg))
      \/ MainText(pg) = BlockLines(pg, 0)
      \/ MainText(pg) = LinesOf(pg, {0})
  BY DEF MainText, OrElse
<1> QED BY <1>1, <1>3, <1>4

LEMMA SegmentsAre ==
  ASSUME NEW pg \in Pages(Shape)
  PROVE  /\ \E n \in 0..Elements : DOMAIN Segments(pg) = 1..n /\ Len(Segments(pg)) = n
         /\ \A i \in DOMAIN Segments(pg) : ToSet(Segments(pg)[i].sentences) \subseteq Seen(pg)
<1> DEFINE lines == MainText(pg)
           labels == {Reads(pg, h) : h \in ToSet(Headings(pg))}
           titles == {k \in DOMAIN lines : Reads(pg, lines[k]) \in labels}
           starts == {lines[k][1] : k \in titles}
                     \cup UNION {ToSet(lines[k]) : k \in (DOMAIN lines) \ titles}
           order == InOrder(starts)
           lineOf(e) == CHOOSE k \in DOMAIN lines : e \in ToSet(lines[k])
           above(k) == {j \in titles : j <= k}
           segment(k, e) ==
             [sentences |-> IF k \in titles THEN lines[k] ELSE <<e>>,
              paragraph |-> IF k \in titles THEN 0 ELSE Cardinality(1..k \ titles),
              heading |-> IF above(k) = {} THEN <<>> ELSE Reads(pg, lines[Max(above(k))])]
           segments == Segments(pg)
<1>1. segments = [n \in DOMAIN order |-> segment(lineOf(order[n]), order[n])]
  BY DEF Segments, SegmentsOf, Titles
<1>2. \A k \in DOMAIN lines : ToSet(lines[k]) \subseteq Seen(pg)
  <2> SUFFICES ASSUME NEW k \in DOMAIN lines, NEW m \in DOMAIN lines[k]
               PROVE  lines[k][m] \in Seen(pg)
    BY DEF ToSet
  <2> HIDE DEF lines
  <2> QED BY MainTextOnce DEF Once, lines
<1>3. \A k \in DOMAIN lines : lines[k][1] \in ToSet(lines[k])
  BY MainTextFull DEF ToSet
<1> HIDE DEF segments, lines
<1>4. titles \subseteq DOMAIN lines
  OBVIOUS
<1> HIDE DEF titles
<1>5. \A e \in starts : \E k \in DOMAIN lines : e \in ToSet(lines[k])
  BY <1>3, <1>4
<1>6. starts \subseteq Seen(pg)
  BY <1>2, <1>5
<1>7. starts \in SUBSET (0..Elements) /\ starts \in SUBSET Element
  BY <1>6, KeptIs
<1> HIDE DEF starts, above
<1>8. Enumerates(order, Cardinality(starts), starts)
  BY <1>7, InOrderIs
<1>9. Cardinality(starts) \in 0..Elements
  <2>1. Elements \in Nat
    BY ExtractionAssumption DEF ExtractionAssumption
  <2>2. IsFiniteSet(1..Elements) /\ Cardinality(1..Elements) = Elements
    BY <2>1, FS_Interval
  <2>3. Cardinality(starts) <= Cardinality(1..Elements)
    BY <1>7, <2>2, FS_Subset DEF Element
  <2> QED BY <1>8, <2>1, <2>2, <2>3 DEF Enumerates
<1> HIDE DEF order
<1>10. DOMAIN segments = 1..Cardinality(starts)
  BY <1>1, <1>8 DEF Enumerates
<1>11. Len(segments) = Cardinality(starts)
  <2> DEFINE T == {segments[i] : i \in DOMAIN segments}
  <2>1. segments = [n \in 1..Cardinality(starts) |-> segments[n]]
    BY <1>1, <1>10
  <2>2. \A n \in 1..Cardinality(starts) : segments[n] \in T
    BY <1>10
  <2> HIDE DEF T
  <2>3. segments \in [1..Cardinality(starts) -> T]
    BY <2>1, <2>2
  <2> QED BY <1>9, <2>3, SeqIs
<1>12. ASSUME NEW i \in DOMAIN segments PROVE ToSet(segments[i].sentences) \subseteq Seen(pg)
  <2> DEFINE e == order[i]
             k == lineOf(e)
  <2>1. e \in starts
    BY <1>8, <1>10 DEF Enumerates
  <2>2. k \in DOMAIN lines
    BY <1>5, <2>1
  <2> HIDE DEF k
  <2>3. segments[i] = segment(k, e)
    BY <1>1 DEF k
  <2>4. segments[i].sentences = IF k \in titles THEN lines[k] ELSE <<e>>
    BY <2>3
  <2> HIDE DEF e
  <2>5. ToSet(<<e>>) \subseteq Seen(pg)
    BY <1>6, <2>1 DEF ToSet
  <2> QED BY <1>2, <2>2, <2>4, <2>5
<1> QED BY <1>9, <1>10, <1>11, <1>12 DEF segments
-----------------------------------------------------------------------------
(* What a sentence says of the terms: some of them, and a number.          *)
LEMMA MatchIs ==
  ASSUME NEW w \in Token, NEW terms PROVE Match(w, terms) \in terms \cup {NoTerm}
<1> DEFINE known == {i \in DOMAIN Variants[w] : Variants[w][i] \in terms}
<1>1. Variants[w] \in Seq(Term)
  BY RankingAssumption DEF RankingAssumption
<1>2. known \in SUBSET Nat
  BY <1>1
<1>3. Match(w, terms) = IF known = {} THEN NoTerm ELSE Variants[w][Min(known)]
  BY DEF Match
<1>4. ASSUME known # {} PROVE Variants[w][Min(known)] \in terms
  <2>1. Min(known) \in known
    <3> HIDE DEF known
    <3> QED BY <1>2, <1>4, MinIs
  <2> QED BY <2>1
<1> HIDE DEF known
<1> QED BY <1>3, <1>4

LEMMA PassageScan ==
  ASSUME NEW text \in Passage, NEW terms
  PROVE  /\ Matched(text, terms) \subseteq terms /\ IsFiniteSet(Matched(text, terms))
         /\ Adjacency(text, terms) \in Nat
<1> DEFINE L == Len(Words[text])
           m == Matches(text, terms)
<1>1. Words[text] \in Seq(Token)
  BY RankingAssumption DEF RankingAssumption
<1>2. L \in Nat /\ \A i \in 1..L : Words[text][i] \in Token
  BY <1>1
<1>3. m = [i \in 1..L |-> Match(Words[text][i], terms)]
  BY DEF Matches
<1> HIDE DEF m
<1>4. m \in [1..L -> terms \cup {NoTerm}]
  <2>1. \A i \in 1..L : Match(Words[text][i], terms) \in terms \cup {NoTerm}
    BY <1>2, MatchIs
  <2> QED BY <1>3, <2>1
<1> HIDE DEF L
<1>5. IsFiniteSet(ToSet(m)) /\ ToSet(m) \subseteq terms \cup {NoTerm}
  <2>1. m \in Surjection(1..L, ToSet(m))
    BY <1>4, Fun_IsSurj DEF ToSet
  <2>2. IsFiniteSet(1..L)
    BY <1>2, FS_Interval
  <2>3. IsFiniteSet(ToSet(m))
    BY <2>1, <2>2, FS_Surjection
  <2> QED BY <1>4, <2>3 DEF ToSet
<1>6. Matched(text, terms) = ToSet(m) \ {NoTerm}
  BY DEF Matched, m
<1>7. Matched(text, terms) \subseteq terms /\ IsFiniteSet(Matched(text, terms))
  <2>1. ToSet(m) \ {NoTerm} \subseteq ToSet(m)
    OBVIOUS
  <2>2. IsFiniteSet(ToSet(m) \ {NoTerm})
    BY <1>5, <2>1, FS_Subset
  <2> QED BY <1>5, <1>6, <2>2
<1>8. Len(m) = L
  BY <1>2, <1>4, SeqIs
<1>9. Changes(m) \in Nat
  <2> DEFINE C == {i \in 2..L : m[i] # NoTerm /\ m[i - 1] # NoTerm /\ m[i] # m[i - 1]}
  <2>1. IsFiniteSet(2..L)
    BY <1>2, FS_Interval
  <2>2. IsFiniteSet(C)
    BY <2>1, FS_Subset
  <2>3. Changes(m) = Cardinality(C)
    BY <1>8 DEF Changes
  <2> HIDE DEF C
  <2> QED BY <2>2, <2>3, FS_CardinalityType
<1> QED BY <1>7, <1>9 DEF Adjacency, m

LEMMA UnionFinite ==
  ASSUME NEW S, IsFiniteSet(S), NEW R, NEW f \in Surjection(S, R),
         \A r \in R : IsFiniteSet(r)
  PROVE  IsFiniteSet(UNION R)
<1>1. IsFiniteSet(R)
  BY FS_Surjection
<1> QED BY <1>1, FS_UNION

LEMMA ScanIs ==
  ASSUME NEW pg \in Pages(Shape), NEW terms, NEW segment,
         ToSet(segment.sentences) \subseteq Seen(pg)
  PROVE  LET scan == Scan(pg, segment, terms)
         IN  /\ scan.matched \subseteq terms /\ IsFiniteSet(scan.matched)
             /\ scan.adjacent \in Nat /\ scan.negated \in BOOLEAN
<1> DEFINE E == ToSet(segment.sentences)
           scan == Scan(pg, segment, terms)
           sets == {Matched(pg.text[e], terms) : e \in E}
           found == [e \in E |-> Matched(pg.text[e], terms)]
           near == [e \in E |-> Adjacency(pg.text[e], terms)]
<1>1. IsFiniteSet(E)
  <2>1. E \in SUBSET (0..Elements)
    BY KeptIs
  <2> HIDE DEF E
  <2> QED BY <2>1, ElementsFinite
<1>2. \A e \in E : pg.text[e] \in Passage
  <2>1. \A e \in E : e \in Element /\ pg.text[e] # Blank
    BY KeptIs DEF Seen
  <2> HIDE DEF E
  <2> QED BY <2>1, PageIs
<1>3. /\ scan.matched = UNION sets
      /\ scan.adjacent = SumFunction(near) + Cardinality(Joints(pg, E, terms))
  BY DEF Scan
<1> HIDE DEF E, scan
<1>4. \A r \in sets : IsFiniteSet(r) /\ r \subseteq terms
  BY <1>2, PassageScan
<1>5. near \in [E -> Nat]
  BY <1>2, PassageScan
<1>6. SumFunction(near) \in Nat
  <2> HIDE DEF near
  <2> QED BY <1>1, <1>5, SumType
<1>6a. Cardinality(Joints(pg, E, terms)) \in Nat
  <2>1. Joints(pg, E, terms) \subseteq E
    BY DEF Joints
  <2> QED BY <1>1, <2>1, FS_Subset, FS_CardinalityType
<1>7. found \in Surjection(E, sets)
  BY Fun_IsSurj
<1>8. IsFiniteSet(UNION sets)
  <2> HIDE DEF found, sets
  <2> QED BY <1>1, <1>4, <1>7, UnionFinite
<1>9. scan.matched \subseteq terms /\ IsFiniteSet(scan.matched) /\ scan.adjacent \in Nat
  <2> HIDE DEF near, sets
  <2> QED BY <1>3, <1>4, <1>6, <1>6a, <1>8
<1>10. scan.negated \in BOOLEAN
  BY DEF scan, Scan
<1> QED BY <1>9, <1>10 DEF scan

ScansAre(scans, terms) ==
    /\ \E n \in 0..Elements : DOMAIN scans = 1..n /\ Len(scans) = n
    /\ \A i \in DOMAIN scans : /\ scans[i].matched \subseteq terms
                               /\ IsFiniteSet(scans[i].matched)
                               /\ scans[i].adjacent \in Nat /\ scans[i].negated \in BOOLEAN
                               /\ scans[i].negated \in BOOLEAN

LEMMA ScansType ==
  ASSUME NEW pg \in Pages(Shape), NEW terms
  PROVE  ScansAre(ScanAll(pg, Segments(pg), terms), terms)
<1> DEFINE segments == Segments(pg)
           scans == ScanAll(pg, segments, terms)
<1>1. PICK n \in 0..Elements : DOMAIN segments = 1..n
  BY SegmentsAre
<1>2. \A i \in DOMAIN segments : ToSet(segments[i].sentences) \subseteq Seen(pg)
  BY SegmentsAre
<1> HIDE DEF segments
<1>3. scans = [i \in 1..n |-> Scan(pg, segments[i], terms)]
  BY <1>1 DEF ScanAll
<1>4. n \in Nat
  BY <1>1
<1>5. DOMAIN scans = 1..n /\ Len(scans) = n
  <2> DEFINE T == {Scan(pg, segments[i], terms) : i \in 1..n}
  <2>1. scans \in [1..n -> T]
    BY <1>3
  <2> HIDE DEF T, scans
  <2> QED BY <1>4, <2>1, SeqIs
<1>6. ASSUME NEW i \in DOMAIN scans
      PROVE  /\ scans[i].matched \subseteq terms /\ IsFiniteSet(scans[i].matched)
             /\ scans[i].adjacent \in Nat /\ scans[i].negated \in BOOLEAN
  <2>1. scans[i] = Scan(pg, segments[i], terms)
    BY <1>3
  <2>2. ToSet(segments[i].sentences) \subseteq Seen(pg)
    BY <1>1, <1>2, <1>5
  <2> HIDE DEF scans
  <2> QED BY <2>1, <2>2, ScanIs
<1> HIDE DEF scans
<1>7. ScansAre(scans, terms)
  BY <1>5, <1>6 DEF ScansAre
<1> QED BY <1>7 DEF scans, segments
-----------------------------------------------------------------------------
(* Weights and scores are natural numbers, so that the ranking is an order *)
(* in which a better sentence comes first.                                 *)
LEMMA WeightsType ==
  ASSUME NEW terms, NEW scans, ScansAre(scans, terms), DOMAIN scans # {}
  PROVE  Weights(scans, terms) \in [terms -> Nat]
<1>1. PICK n \in 0..Elements : DOMAIN scans = 1..n /\ Len(scans) = n
  BY DEF ScansAre
<1>2. Elements \in Nat /\ n \in Nat /\ n <= Elements
  BY <1>1, ExtractionAssumption DEF ExtractionAssumption
<1>3. n \in 1..Elements
  <2>1. n # 0
    BY <1>1
  <2> QED BY <1>2, <2>1
<1>4. ASSUME NEW t \in terms
      PROVE  Idf[n][Cardinality({i \in DOMAIN scans : t \in scans[i].matched})] \in Nat
  <2> DEFINE I == {i \in DOMAIN scans : t \in scans[i].matched}
  <2>1. I \subseteq 1..n
    BY <1>1
  <2> HIDE DEF I
  <2>2. IsFiniteSet(1..n) /\ Cardinality(1..n) = n
    BY <1>2, FS_Interval
  <2>3. IsFiniteSet(I) /\ Cardinality(I) <= n
    BY <2>1, <2>2, FS_Subset
  <2>4. Cardinality(I) \in 0..Elements
    BY <1>2, <2>3, FS_CardinalityType
  <2>5. Idf[n] \in [0..Elements -> Nat]
    BY <1>3, RankingAssumption DEF RankingAssumption
  <2>6. Idf[n][Cardinality(I)] \in Nat
    BY <2>4, <2>5
  <2> QED BY <2>6 DEF I
<1> QED BY <1>1, <1>4 DEF Weights

LEMMA ScoreType ==
  ASSUME NEW terms, NEW scans, ScansAre(scans, terms),
         NEW weight, DOMAIN scans # {} => weight \in [terms -> Nat],
         NEW i \in DOMAIN scans
  PROVE  Score(scans[i], weight) \in Nat
<1> DEFINE f == [t \in scans[i].matched |-> weight[t]]
           sum == SumFunction(f)
<1>1. /\ scans[i].matched \subseteq terms /\ IsFiniteSet(scans[i].matched)
      /\ scans[i].adjacent \in Nat
  BY DEF ScansAre
<1>2. f \in [scans[i].matched -> Nat]
  BY <1>1
<1> HIDE DEF f
<1>3. sum \in Nat
  BY <1>1, <1>2, SumType
<1>4. Score(scans[i], weight) = sum + AdjacencyBonus * scans[i].adjacent
  BY DEF Score, f
<1>5. AdjacencyBonus \in Nat
  BY RankingAssumption DEF RankingAssumption
<1> HIDE DEF sum
<1>6. AdjacencyBonus * scans[i].adjacent \in Nat
  BY <1>1, <1>5
<1> QED BY <1>3, <1>4, <1>6

Matching(scans) == {i \in DOMAIN scans : scans[i].matched # {}}

LEMMA RankingIs ==
  ASSUME NEW terms, NEW scans, ScansAre(scans, terms),
         NEW weight, DOMAIN scans # {} => weight \in [terms -> Nat]
  PROVE  LET r == Ranking(scans, weight)
             n == Cardinality(Matching(scans))
         IN  /\ Enumerates(r, n, Matching(scans)) /\ Len(r) = n
             /\ \A j, k \in 1..n : Score(scans[r[j]], weight) > Score(scans[r[k]], weight) => j < k
<1> DEFINE M == Matching(scans)
           n == Cardinality(M)
           score == [i \in DOMAIN scans |-> Score(scans[i], weight)]
           better(i, j) == score[i] > score[j] \/ (score[i] = score[j] /\ i < j)
           before == {p \in M \X M : better(p[1], p[2])}
           r == Ranking(scans, weight)
<1>1. PICK m \in 0..Elements : DOMAIN scans = 1..m
  BY DEF ScansAre
<1>2. m \in Nat /\ M \in SUBSET (1..m) /\ M \subseteq DOMAIN scans
  BY <1>1 DEF Matching
<1>3. IsFiniteSet(M)
  BY <1>2, FS_Interval, FS_Subset
<1>4. \A i \in DOMAIN scans : score[i] \in Nat
  BY ScoreType
<1>5. r = Ordered(M, before)
  BY DEF Ranking, Matching
<1> HIDE DEF r, M, score
<1>6. \A i, j : <<i, j>> \in before <=> i \in M /\ j \in M /\ better(i, j)
  OBVIOUS
<1>7. StrictOrder(M, before)
  <2>1. \A i \in M : i \in Nat /\ score[i] \in Nat
    BY <1>2, <1>4
  <2> HIDE DEF before
  <2> QED BY <1>6, <2>1 DEF StrictOrder
<1> HIDE DEF before
<1>8. /\ Enumerates(r, n, M)
      /\ \A j, k \in 1..n : <<r[j], r[k]>> \in before => j < k
  BY <1>3, <1>5, <1>7, OrderedIs
<1>9. Len(r) = n
  BY <1>8, SeqIs DEF Enumerates
<1> HIDE DEF n
<1>10. ASSUME NEW j \in 1..n, NEW k \in 1..n,
              Score(scans[r[j]], weight) > Score(scans[r[k]], weight)
       PROVE  j < k
  <2>1. r[j] \in M /\ r[k] \in M
    BY <1>8 DEF Enumerates
  <2>2. score[r[j]] = Score(scans[r[j]], weight) /\ score[r[k]] = Score(scans[r[k]], weight)
    BY <1>2, <2>1 DEF score
  <2>3. <<r[j], r[k]>> \in before
    BY <1>6, <1>10, <2>1, <2>2
  <2> QED BY <1>8, <2>3
<1> QED BY <1>8, <1>9, <1>10 DEF n, r, M

LEMMA StanceType == ASSUME NEW list PROVE Stance(list) \in {"none", "supports", "contradicts"}
BY DEF Stance, StanceOf

(* The stance that the best sentences of a page give it rests on them.     *)
LEMMA BestAreFoundation ==
  ASSUME NEW terms, NEW scans, ScansAre(scans, terms),
         NEW weight, DOMAIN scans # {} => weight \in [terms -> Nat],
         NEW max \in Nat \ {0}
  PROVE  Founded(scans, weight, Stance(BestOf(scans, question, weight, max)))
<1> DEFINE r == Ranking(scans, weight)
           n == Cardinality(Matching(scans))
           N == Min({max, Len(r)})
           best == Score(scans[r[1]], weight)
           label(k) == Relevance(scans[r[k]], question, weight, best)
           list == BestOf(scans, question, weight, max)
           relevant == {k \in DOMAIN list : HasStance(list[k])}
           answering == {i \in DOMAIN scans : Answering(scans[i], weight)}
           leads(i) == \A j \in DOMAIN scans :
                         j # i => Score(scans[j], weight) < Score(scans[i], weight)
<1>1. /\ Enumerates(r, n, Matching(scans)) /\ Len(r) = n
      /\ \A j, k \in 1..n : Score(scans[r[j]], weight) > Score(scans[r[k]], weight) => j < k
  BY RankingIs
<1>2. n \in Nat /\ N \in Nat /\ N <= n /\ (n # 0 => N # 0)
  <2>1. n \in Nat
    BY <1>1 DEF Enumerates
  <2>2. {max, Len(r)} \in SUBSET Nat /\ {max, Len(r)} # {}
    BY <1>1, <2>1
  <2>3. N \in {max, Len(r)} /\ N <= Len(r)
    BY <2>2, MinIs
  <2> HIDE DEF r, n
  <2> QED BY <1>1, <2>1, <2>3
<1>3. list = [k \in 1..N |-> [segment |-> scans[r[k]].segment, relevance |-> label(k)]]
  BY DEF BestOf, Labelled
<1> HIDE DEF r, n, N, list, label, best
<1>4. DOMAIN list = 1..N /\ \A k \in 1..N : list[k].relevance = label(k)
  BY <1>3
<1>5. \A k \in 1..N : r[k] \in DOMAIN scans /\ scans[r[k]].matched # {}
  <2>1. \A k \in 1..N : k \in 1..n
    BY <1>2
  <2> QED BY <1>1, <2>1 DEF Enumerates, Matching
<1>6. ASSUME NEW k \in 1..N, HasStance(list[k])
      PROVE  r[k] \in answering
  <2>1. label(k) # "context"
    BY <1>4, <1>6 DEF HasStance
  <2>2. Covers(scans[r[k]], question, weight)
    BY <2>1 DEF label, Relevance
  <2> QED BY <1>5, <2>2 DEF Answering
<1>7. ASSUME Stance(list) # "none"
      PROVE  \E i \in answering : scans[i].negated = (Stance(list) = "contradicts")
  <2>1. relevant # {}
    BY <1>7 DEF Stance
  <2>2. Min(relevant) \in relevant
    <3>1. relevant \in SUBSET Nat
      BY <1>2, <1>4
    <3> HIDE DEF relevant
    <3> QED BY <2>1, <3>1, MinIs
  <2>3. Stance(list) = StanceOf(list[Min(relevant)])
    BY <2>1 DEF Stance
  <2> HIDE DEF answering
  <2>4. PICK k \in 1..N : HasStance(list[k]) /\ Stance(list) = StanceOf(list[k])
    BY <1>4, <2>2, <2>3
  <2>5. r[k] \in answering
    BY <1>6, <2>4
  <2>6. Covers(scans[r[k]], question, weight)
    BY <2>5 DEF answering, Answering
  <2>7. label(k) = "contradictory" <=> scans[r[k]].negated
    BY <2>6 DEF label, Relevance
  <2>8. Stance(list) = "contradicts" <=> label(k) = "contradictory"
    BY <1>4, <2>4 DEF StanceOf
  <2>9. scans[r[k]].negated \in BOOLEAN
    BY <1>5 DEF ScansAre
  <2>10. scans[r[k]].negated = (Stance(list) = "contradicts")
    BY <2>7, <2>8, <2>9
  <2> QED BY <2>5, <2>10
<1>8. ASSUME NEW i \in answering, leads(i)
      PROVE  Stance(list) = IF scans[i].negated THEN "contradicts" ELSE "supports"
  <2>1. i \in Matching(scans) /\ Covers(scans[i], question, weight)
    BY DEF Matching, Answering
  <2>2. PICK k \in 1..n : r[k] = i
    BY <1>1, <2>1 DEF Enumerates
  <2>3. n # 0 /\ N # 0 /\ 1 \in 1..n /\ 1 \in 1..N
    BY <1>2, <2>2
  <2>4. r[1] = i
    <3>1. SUFFICES ASSUME r[1] # i PROVE FALSE
      OBVIOUS
    <3>2. r[1] \in DOMAIN scans
      BY <1>5, <2>3
    <3>3. Score(scans[r[1]], weight) < Score(scans[i], weight)
      BY <1>8, <3>1, <3>2
    <3>4. Score(scans[r[1]], weight) \in Nat /\ Score(scans[i], weight) \in Nat
      BY <3>2, ScoreType
    <3>5. k < 1
      BY <1>1, <2>2, <2>3, <3>3, <3>4
    <3> QED BY <2>2, <3>5
  <2>5. label(1) = IF scans[i].negated THEN "contradictory" ELSE "direct"
    <3>1. best \in Nat /\ best = Score(scans[i], weight)
      BY <2>4, ScoreType DEF best
    <3>2. 4 * best >= 3 * best
      BY <3>1
    <3> QED BY <2>1, <2>4, <3>1, <3>2 DEF label, Relevance
  <2>6. HasStance(list[1]) /\ list[1].relevance = label(1)
    BY <1>4, <2>3, <2>5 DEF HasStance
  <2>7. 1 \in relevant /\ relevant \in SUBSET Nat /\ \A k1 \in relevant : k1 >= 1
    BY <1>2, <1>4, <2>3, <2>6
  <2>8. Min(relevant) = 1
    <3> HIDE DEF relevant
    <3>1. PICK m \in relevant : m = Min(relevant) /\ m <= 1
      BY <2>7, MinIs
    <3>2. m \in Nat /\ m >= 1
      BY <2>7
    <3> QED BY <3>1, <3>2
  <2>9. Stance(list) = StanceOf(list[1])
    BY <2>7, <2>8 DEF Stance
  <2> QED BY <2>5, <2>6, <2>9 DEF StanceOf
<1> QED BY <1>7, <1>8 DEF Founded, list

LEMMA CandidatesAreFoundation ==
  ASSUME NEW pg \in Pages(Shape), NEW max \in Nat \ {0}
  PROVE  FoundedIn(Scans(pg, question), Stance(Candidates(pg, question, max)))
<1> DEFINE terms == Terms(question)
           scans == Scans(pg, question)
           weight == Weights(scans, terms)
<1>1. ScansAre(scans, terms)
  BY ScansType DEF Scans
<1>2. DOMAIN scans # {} => weight \in [terms -> Nat]
  <2> HIDE DEF scans, terms
  <2> QED BY <1>1, WeightsType
<1>3. Candidates(pg, question, max) = BestOf(scans, question, weight, max)
  BY DEF Candidates, Weighed
<1> HIDE DEF scans, weight, terms
<1>4. Founded(scans, weight, Stance(BestOf(scans, question, weight, max)))
  BY <1>1, <1>2, BestAreFoundation
<1> QED BY <1>3, <1>4 DEF FoundedIn, scans, weight, terms

-----------------------------------------------------------------------------
(* Against the claim only: every candidate that contradicts is a sentence  *)
(* that answers the question and carries a cue, reordered or not.          *)
Deniers(list) == {k \in DOMAIN list : list[k].relevance = "contradictory"}

LEMMA StanceNeedsDenier ==
  ASSUME NEW list, DOMAIN list \in SUBSET Nat, Stance(list) = "contradicts"
  PROVE  Deniers(list) # {}
<1> DEFINE relevant == {k \in DOMAIN list : HasStance(list[k])}
<1>1. relevant # {} /\ Stance(list) = StanceOf(list[Min(relevant)])
  BY DEF Stance
<1>2. Min(relevant) \in relevant
  <2>1. relevant \in SUBSET Nat
    OBVIOUS
  <2> HIDE DEF relevant
  <2> QED BY <1>1, <2>1, MinIs
<1> QED BY <1>1, <1>2 DEF StanceOf, Deniers

LEMMA BestThatDeny ==
  ASSUME NEW terms, NEW scans, ScansAre(scans, terms),
         NEW weight, DOMAIN scans # {} => weight \in [terms -> Nat],
         NEW max \in Nat \ {0}
  PROVE  /\ \E n \in Nat : /\ DOMAIN BestOf(scans, question, weight, max) = 1..n
                            /\ Len(BestOf(scans, question, weight, max)) = n
         /\ Deniers(BestOf(scans, question, weight, max)) # {} => DeniedIn(scans, weight)
<1> DEFINE r == Ranking(scans, weight)
           n == Cardinality(Matching(scans))
           N == Min({max, Len(r)})
           best == Score(scans[r[1]], weight)
           label(k) == Relevance(scans[r[k]], question, weight, best)
           list == BestOf(scans, question, weight, max)
<1>1. Enumerates(r, n, Matching(scans)) /\ Len(r) = n
  BY RankingIs
<1>2. n \in Nat /\ N \in Nat /\ N <= n
  <2>1. n \in Nat
    BY <1>1 DEF Enumerates
  <2>2. {max, Len(r)} \in SUBSET Nat /\ {max, Len(r)} # {}
    BY <1>1, <2>1
  <2>3. N \in {max, Len(r)} /\ N <= Len(r)
    BY <2>2, MinIs
  <2> HIDE DEF r, n
  <2> QED BY <1>1, <2>1, <2>3
<1>3. list = [k \in 1..N |-> [segment |-> scans[r[k]].segment, relevance |-> label(k)]]
  BY DEF BestOf, Labelled
<1> HIDE DEF r, n, N, list, label, best
<1>4. DOMAIN list = 1..N /\ \A k \in 1..N : list[k].relevance = label(k)
  BY <1>3
<1>5. Len(list) = N
  <2> DEFINE T == {list[k] : k \in 1..N}
  <2>1. list \in [1..N -> T]
    BY <1>3
  <2> HIDE DEF T
  <2> QED BY <1>2, <2>1, SeqIs
<1>6. ASSUME NEW k \in Deniers(list) PROVE DeniedIn(scans, weight)
  <2>1. k \in 1..N /\ label(k) = "contradictory"
    BY <1>4 DEF Deniers
  <2>2. r[k] \in DOMAIN scans /\ scans[r[k]].matched # {}
    <3>1. k \in 1..n
      BY <1>2, <2>1
    <3> QED BY <1>1, <3>1 DEF Enumerates, Matching
  <2>3. Covers(scans[r[k]], question, weight) /\ scans[r[k]].negated
    BY <2>1 DEF label, Relevance
  <2> QED BY <2>2, <2>3 DEF DeniedIn, Answering
<1> QED BY <1>2, <1>4, <1>5, <1>6 DEF list

LEMMA RefinedDeny ==
  ASSUME NEW list, NEW n \in Nat, DOMAIN list = 1..n, NEW rank \in [1..n -> 0..2],
         Stance(Refined(list, rank)) = "contradicts"
  PROVE  Deniers(list) # {}
<1> DEFINE S == DOMAIN list
           before(i, j) == rank[i] > rank[j] \/ (rank[i] = rank[j] /\ i < j)
           rel == {p \in S \X S : before(p[1], p[2])}
           order == Ordered(S, rel)
           N == Min({MaxEvidenceItems, Len(order)})
           refined == Refined(list, rank)
<1>1. IsFiniteSet(S) /\ Cardinality(S) = n
  BY FS_Interval
<1>2. StrictOrder(S, rel)
  <2>1. \A i \in S : i \in Nat /\ rank[i] \in Nat
    OBVIOUS
  <2>2. \A i, j : <<i, j>> \in rel <=> i \in S /\ j \in S /\ before(i, j)
    OBVIOUS
  <2> HIDE DEF rel, S
  <2> QED BY <2>1, <2>2 DEF StrictOrder
<1> HIDE DEF rel
<1>3. Enumerates(order, n, S)
  <2> HIDE DEF S
  <2> QED BY <1>1, <1>2, OrderedIs
<1>4. refined = [k \in 1..N |->
                   IF order[k] = 1 \/ rank[order[k]] < 1 \/ list[order[k]].relevance = "contradictory"
                   THEN list[order[k]]
                   ELSE [list[order[k]] EXCEPT !.relevance = "direct"]]
  BY Zenon DEF Refined, rel
<1> HIDE DEF order, refined
<1>5. Len(order) = n
  BY <1>3, SeqIs DEF Enumerates
<1>6. N \in Nat /\ N <= n
  <2>1. MaxEvidenceItems \in Nat
    BY AssessmentAssumption DEF AssessmentAssumption
  <2>2. {MaxEvidenceItems, Len(order)} \in SUBSET Nat /\ {MaxEvidenceItems, Len(order)} # {}
    BY <1>5, <2>1
  <2>3. N \in {MaxEvidenceItems, Len(order)} /\ N <= Len(order)
    BY <2>2, MinIs
  <2> QED BY <1>5, <2>2, <2>3
<1> HIDE DEF N
<1>7. DOMAIN refined = 1..N /\ DOMAIN refined \in SUBSET Nat
  BY <1>4, <1>6
<1>8. PICK k \in Deniers(refined) : TRUE
  BY <1>7, StanceNeedsDenier DEF refined
<1>9. k \in 1..N /\ k \in 1..n /\ refined[k].relevance = "contradictory"
  BY <1>6, <1>7, <1>8 DEF Deniers
<1>10. order[k] \in S
  BY <1>3, <1>9 DEF Enumerates
<1>11. list[order[k]].relevance = "contradictory"
  <2>1. SUFFICES ASSUME list[order[k]].relevance # "contradictory" PROVE FALSE
    OBVIOUS
  <2>2. \/ refined[k] = list[order[k]]
        \/ refined[k] = [list[order[k]] EXCEPT !.relevance = "direct"]
    BY <1>4, <1>9
  <2>3. refined[k] = [list[order[k]] EXCEPT !.relevance = "direct"]
    BY <1>9, <2>1, <2>2
  <2> QED BY <1>9, <2>1, <2>3
<1> QED BY <1>10, <1>11 DEF Deniers

-----------------------------------------------------------------------------
(* The state: the page is one of the program's, the last stance is that of *)
(* its candidates, and whatever speaks against the claim is founded.       *)
StanceKind == {"none", "supports", "contradicts"}

PageRead ==
    page # NoPage =>
      /\ page \in Pages(Shape) /\ stances # <<>>
      /\ Len(stances) <= MaxSources /\ stances[Len(stances)] = Stance(candidates)

IInv == stances \in Seq(StanceKind) /\ PageRead /\ ContradictionIsFounded

LEMMA TakenIs ==
  ASSUME stances \in Seq(StanceKind), NEW s, Taken(s) # 0
  PROVE  \E i \in DOMAIN stances : stances[i] = s
BY FS_EmptySet DEF Taken

(* A page that is read contradicts only if it has a sentence that denies.  *)
LEMMA ReadIsFounded ==
  ASSUME Read, Stance(candidates') = "contradicts", page' \in Pages(Shape)
  PROVE  denial'
<1> DEFINE terms == Terms(question)
           scans == Scans(page', question)
           weight == Weights(scans, terms)
           max == Shown(Len(stances) + 1)
           found == Weighed(scans, question, max)
<1>1. ScansAre(scans, terms)
  BY ScansType DEF Scans
<1>2. DOMAIN scans # {} => weight \in [terms -> Nat]
  <2> HIDE DEF scans, terms
  <2> QED BY <1>1, WeightsType
<1>3. max \in Nat \ {0}
  BY AssessmentAssumption DEF Shown, AssessmentAssumption
<1>4. found = BestOf(scans, question, weight, max)
  BY DEF Weighed
<1>5. denial' = (denial \/ DeniedIn(scans, weight)) /\ Shortlist(found)
  BY DEF Read, Denied
<1> HIDE DEF scans, terms, weight, max, found
<1>6. /\ \E n \in Nat : DOMAIN found = 1..n /\ Len(found) = n
      /\ Deniers(found) # {} => DeniedIn(scans, weight)
  <2>1. /\ \E n \in Nat : /\ DOMAIN BestOf(scans, question, weight, max) = 1..n
                           /\ Len(BestOf(scans, question, weight, max)) = n
        /\ Deniers(BestOf(scans, question, weight, max)) # {} => DeniedIn(scans, weight)
    BY <1>1, <1>2, <1>3, BestThatDeny
  <2> QED BY <1>4, <2>1
<1>7. PICK n \in Nat : DOMAIN found = 1..n /\ Len(found) = n
  BY <1>6
<1>8. CASE candidates' = found
  <2>1. DOMAIN found \in SUBSET Nat
    BY <1>7
  <2> QED BY <1>5, <1>6, <1>8, <2>1, StanceNeedsDenier
<1>9. ASSUME NEW answer \in Answers(found), ScorePassages(found, answer),
             candidates' = Refined(found, answer)
      PROVE  denial'
  <2>1. answer \in [1..n -> 0..2]
    <3>1. PICK m \in Nat : answer \in [1..m -> 0..2]
      BY <1>7 DEF Answers
    <3>2. Len(answer) = m
      BY <3>1, SeqIs
    <3> QED BY <1>7, <1>9, <3>1, <3>2 DEF ScorePassages
  <2>2. Deniers(found) # {}
    BY <1>7, <1>9, <2>1, RefinedDeny
  <2> QED BY <1>5, <1>6, <2>2
<1> QED BY <1>5, <1>8, <1>9 DEF Shortlist

LEMMA InitIInv == Init => IInv
BY DEF Init, IInv, PageRead, ContradictionIsFounded

LEMMA NextIInv == IInv /\ [Next]_vars => IInv'
<1> SUFFICES ASSUME IInv, [Next]_vars PROVE IInv'
  OBVIOUS
<1>1. CASE Read
  <2>1. /\ Len(stances) < MaxSources /\ verdict = "none" /\ verdict' = "none"
        /\ page' \in Pages(Shapes[Len(stances) + 1])
        /\ stances' = Append(stances, Stance(candidates'))
        /\ denial => denial'
    BY <1>1 DEF Read
  <2>2. stances \in Seq(StanceKind) /\ Len(stances) \in Nat
    BY DEF IInv
  <2>3. Stance(candidates') \in StanceKind
    BY StanceType DEF StanceKind
  <2>4. /\ stances' \in Seq(StanceKind) /\ Len(stances') = Len(stances) + 1
        /\ stances' # <<>> /\ stances'[Len(stances')] = Stance(candidates')
    BY <2>1, <2>2, <2>3
  <2>5. MaxSources \in Nat /\ Shapes \in [1..MaxSources -> SUBSET Shape]
    BY AssessmentAssumption DEF AssessmentAssumption
  <2>6. Len(stances) + 1 \in 1..MaxSources /\ Len(stances') <= MaxSources
    BY <2>1, <2>2, <2>4, <2>5
  <2>7. page' \in Pages(Shape)
    <3>1. Shapes[Len(stances) + 1] \subseteq Shape
      BY <2>5, <2>6
    <3> QED BY <2>1, <3>1 DEF Pages
  <2>8. PageRead'
    BY <2>4, <2>6, <2>7 DEF PageRead
  <2>9. ContradictionIsFounded'
    <3>1. ASSUME NEW i \in DOMAIN stances', stances'[i] = "contradicts" PROVE denial'
      <4>1. CASE i \in DOMAIN stances
        <5>1. stances[i] = "contradicts"
          BY <2>1, <2>2, <3>1, <4>1
        <5> QED BY <2>1, <4>1, <5>1 DEF IInv, ContradictionIsFounded
      <4>2. CASE i \notin DOMAIN stances
        <5>1. i = Len(stances')
          BY <2>1, <2>2, <2>4, <4>2
        <5> QED BY <1>1, <2>4, <2>7, <3>1, <5>1, ReadIsFounded
      <4> QED BY <4>1, <4>2
    <3> QED BY <2>1, <3>1 DEF ContradictionIsFounded
  <2> QED BY <2>4, <2>8, <2>9 DEF IInv
<1>2. CASE NextPage
  BY <1>2 DEF NextPage, IInv, PageRead, ContradictionIsFounded
<1>3. CASE Assess
  <2>1. ContradictionIsFounded'
    <3>1. verdict' \in {"contradicted", "mixed"} => Taken("contradicts") # 0
      <4>1. Taken("contradicts") \in Nat /\ Taken("supports") \in Nat
        <5>1. IsFiniteSet(DOMAIN stances)
          <6>1. DOMAIN stances = 1..Len(stances) /\ Len(stances) \in Nat
            BY DEF IInv
          <6> QED BY <6>1, FS_Interval
        <5> QED BY <5>1, FS_Subset, FS_CardinalityType DEF Taken
      <4> QED BY <1>3, <4>1 DEF Assess, Assessed
    <3>2. stances' = stances /\ denial' = denial
      BY <1>3 DEF Assess
    <3> QED BY <3>1, <3>2, TakenIs DEF IInv, ContradictionIsFounded
  <2>2. PageRead' /\ stances' \in Seq(StanceKind)
    BY <1>3 DEF Assess, IInv, PageRead
  <2> QED BY <2>1, <2>2 DEF IInv
<1>4. CASE UNCHANGED vars
  BY <1>4 DEF vars, IInv, PageRead, ContradictionIsFounded
<1> QED BY <1>1, <1>2, <1>3, <1>4 DEF Next

(* The inductive invariant of the pages, their stances and the verdict.     *)
THEOREM AssessmentInv == Spec => []IInv
BY InitIInv, NextIInv, PTL DEF Spec

(* findEvidenceCandidates(), refineOrder(), classify() and assess(): a page *)
(* contradicts, and the verdict is contradicted or mixed, only if a         *)
(* sentence was read that covers three quarters of the question's weight    *)
(* and carries a negation cue, for any pages, questions and weights and     *)
(* whatever the ranking model answers.                                      *)
THEOREM ContradictionsAreFounded == Spec => []ContradictionIsFounded
<1>1. IInv => ContradictionIsFounded
  BY DEF IInv
<1> QED BY <1>1, AssessmentInv, PTL

(* extractDocument(): whatever the page, its text is emitted at most once, *)
(* none of it from boilerplate, and some of it if any is visible: blocks   *)
(* in blocks, the fallback to the body and the bare text included.         *)
THEOREM PassagesOnce == Spec => []EachPassageOnce
<1>1. IInv => EachPassageOnce
  <2> SUFFICES ASSUME IInv, page # NoPage
               PROVE  Once(MainText(page), Visible) /\ (Visible # {} => MainText(page) # <<>>)
    BY DEF EachPassageOnce, Once
  <2>1. page \in Pages(Shape)
    BY DEF IInv, PageRead
  <2>2. Visible = Seen(page)
    BY DEF Visible, Seen
  <2> QED BY <2>1, <2>2, MainTextOnce
<1> QED BY <1>1, AssessmentInv, PTL

(* findEvidenceCandidates() and classify(): with any weights, any pages    *)
(* and any questions, where the lexical order stands a page takes a stance *)
(* only if a sentence of it covers three quarters of the question's        *)
(* weight, worded as the stance says, and takes that of its best sentence  *)
(* if that one covers as much.                                             *)
THEOREM StancesAreFounded == Spec => []StanceIsFounded
<1>1. IInv => StanceIsFounded
  <2> SUFFICES ASSUME IInv, page # NoPage,
                      candidates = Candidates(page, question, Shown(Len(stances)))
               PROVE  FoundedIn(Scans(page, question), Last(stances))
    BY DEF StanceIsFounded
  <2>1. page \in Pages(Shape) /\ stances[Len(stances)] = Stance(candidates)
    BY DEF IInv, PageRead
  <2>2. Shown(Len(stances)) \in Nat \ {0}
    BY AssessmentAssumption DEF Shown, AssessmentAssumption
  <2>3. FoundedIn(Scans(page, question), Stance(Candidates(page, question, Shown(Len(stances)))))
    BY <2>1, <2>2, CandidatesAreFoundation
  <2>4. Last(stances) = Stance(Candidates(page, question, Shown(Len(stances))))
    BY <2>1 DEF Last
  <2> QED BY <2>3, <2>4
<1> QED BY <1>1, AssessmentInv, PTL
=============================================================================
