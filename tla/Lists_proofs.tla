----------------------------- MODULE Lists_proofs -----------------------------
(***************************************************************************)
(* What the operators of Lists return, for all rows.                       *)
(***************************************************************************)
EXTENDS Lists, FiniteSetTheorems, SequenceTheorems, TLAPS

(***************************************************************************)
(* Least and greatest elements.                                            *)
(***************************************************************************)
Less == {p \in Nat \X Nat : p[1] < p[2]}

LEMMA LessWellFounded == IsWellFoundedOn(Less, Nat)
BY NatLessThanWellFounded, Zenon DEF OpToRel, Less

\* A nonempty set of numbers has a least one.
LEMMA Smallest ==
    ASSUME NEW T \in SUBSET Nat, T # {}
    PROVE  \E n \in T : \A m \in T : n <= m
<1>1. PICK x \in T : \A y \in T : ~(<<y, x>> \in Less) BY LessWellFounded, WFMin
<1>2. \A y \in T : ~(y < x) BY <1>1 DEF Less
<1> QED BY <1>2

LEMMA MinIsLeast ==
    ASSUME NEW T \in SUBSET Nat, T # {}
    PROVE  Min(T) \in T /\ \A m \in T : Min(T) <= m
<1>1. \E x \in T : \A y \in T : x <= y BY Smallest
<1> QED BY <1>1 DEF Min

(***************************************************************************)
(* Finite sets.                                                            *)
(***************************************************************************)
LEMMA FiniteCount == ASSUME NEW S, IsFiniteSet(S) PROVE Cardinality(S) \in Nat
BY FS_CardinalityType

\* A strict part of a finite set is smaller.
LEMMA StrictPart ==
    ASSUME NEW S, IsFiniteSet(S), NEW T \in SUBSET S, NEW x \in S, x \notin T
    PROVE  IsFiniteSet(T) /\ Cardinality(T) < Cardinality(S)
<1>1. IsFiniteSet(T) /\ Cardinality(T) <= Cardinality(S) /\ Cardinality(T) # Cardinality(S)
  BY FS_Subset
<1> QED BY <1>1, FiniteCount

\* A finite set with a strict order on it has a greatest element: the one
\* with the fewest above it.  gt[x] are the elements above x.
LEMMA Greatest ==
    ASSUME NEW S, IsFiniteSet(S), S # {}, NEW gt \in [S -> SUBSET S],
           \A x \in S : x \notin gt[x],
           \A x \in S : \A y \in gt[x] : gt[y] \subseteq gt[x]
    PROVE  \E x \in S : gt[x] = {}
<1> DEFINE Counts == {Cardinality(gt[x]) : x \in S}
<1>1. \A x \in S : IsFiniteSet(gt[x]) /\ Cardinality(gt[x]) \in Nat BY FS_Subset, FiniteCount
<1>2. PICK n \in Counts : \A m \in Counts : n <= m
  <2>1. Counts \in SUBSET Nat /\ Counts # {} BY <1>1
  <2> HIDE DEF Counts
  <2> QED BY <2>1, Smallest
<1>3. PICK x \in S : n = Cardinality(gt[x]) BY <1>2
<1>. HIDE DEF Counts
<1>4. ASSUME NEW y \in gt[x] PROVE FALSE
  <2>1. y \in S /\ y \notin gt[y] /\ gt[y] \in SUBSET gt[x] BY <1>4
  <2>2. Cardinality(gt[y]) < Cardinality(gt[x]) BY <2>1, <1>1, <1>4, StrictPart
  <2>3. Cardinality(gt[y]) \in Counts BY <2>1 DEF Counts
  <2>4. Cardinality(gt[x]) \in Nat /\ Cardinality(gt[y]) \in Nat BY <1>1, <2>1
  <2>5. Cardinality(gt[x]) <= Cardinality(gt[y]) BY <2>3, <1>2, <1>3
  <2> QED BY <2>2, <2>4, <2>5
<1> QED BY <1>4

\* A finite set of numbers has its maximum.
LEMMA MaxIsGreatest ==
    ASSUME NEW T \in SUBSET Nat, IsFiniteSet(T), T # {}
    PROVE  Max(T) \in T /\ \A m \in T : m <= Max(T)
<1> DEFINE gt == [x \in T |-> {y \in T : x < y}]
<1>1. \E x \in T : gt[x] = {}
  <2>1. gt \in [T -> SUBSET T] /\ \A x \in T : x \notin gt[x] OBVIOUS
  <2>2. ASSUME NEW x \in T, NEW y \in gt[x], NEW z \in gt[y] PROVE z \in gt[x]
    <3>1. x \in Nat /\ y \in Nat /\ z \in Nat /\ x < y /\ y < z /\ z \in T BY <2>2
    <3> QED BY <3>1
  <2>3. \A x \in T : \A y \in gt[x] : gt[y] \subseteq gt[x] BY <2>2
  <2> HIDE DEF gt
  <2> QED BY <2>1, <2>3, Greatest
<1>2. \E x \in T : \A y \in T : x >= y BY <1>1
<1> QED BY <1>2 DEF Max

\* Images and unions of finite sets are finite.
LEMMA ImageFinite ==
    ASSUME NEW S, IsFiniteSet(S), NEW f
    PROVE  IsFiniteSet({f[x] : x \in S})
<1>1. PICK T : T = {f[x] : x \in S} OBVIOUS
<1>2. [x \in S |-> f[x]] \in Surjection(S, T) BY <1>1 DEF Surjection
<1>3. IsFiniteSet(T) BY <1>2, FS_Surjection
<1> QED BY <1>1, <1>3

LEMMA UnionFinite ==
    ASSUME NEW S, IsFiniteSet(S), NEW f, \A x \in S : IsFiniteSet(f[x])
    PROVE  IsFiniteSet(UNION {f[x] : x \in S})
<1>1. PICK T : T = {f[x] : x \in S} OBVIOUS
<1>2. IsFiniteSet(T) BY <1>1, ImageFinite
<1>3. \A U \in T : IsFiniteSet(U) BY <1>1
<1>4. IsFiniteSet(UNION T) BY <1>2, <1>3, FS_UNION
<1> QED BY <1>1, <1>4

(***************************************************************************)
(* AsRows lists the elements of a finite set.  It is a fold: the list of a *)
(* set is the list of the set without the element picked, and that         *)
(* element.  Folds are recursive functions on sets; that the recursion has *)
(* a solution is shown by the least number of elements at which it fails.  *)
(***************************************************************************)
Pick(s) == CHOOSE x \in s : TRUE

ListsOver(g, D) ==
    g = [s \in D |-> IF s = {} THEN <<>> ELSE Append(g[s \ {Pick(s)}], Pick(s))]

AtMost(S, n) == {s \in SUBSET S : Cardinality(s) <= n}

LEMMA AsRowsIsList == ASSUME NEW S PROVE AsRows(S) = (CHOOSE g : ListsOver(g, SUBSET S))[S]
BY DEF AsRows, FoldSet, MapThenFoldSet, Pick, ListsOver

LEMMA PartsOf ==
    ASSUME NEW S, IsFiniteSet(S), NEW s \in SUBSET S
    PROVE  /\ IsFiniteSet(s) /\ Cardinality(s) \in Nat
           /\ Cardinality(s) = 0 <=> s = {}
           /\ s # {} => /\ Pick(s) \in s
                        /\ s \ {Pick(s)} \in SUBSET S
                        /\ IsFiniteSet(s \ {Pick(s)})
                        /\ Cardinality(s \ {Pick(s)}) = Cardinality(s) - 1
<1>1. IsFiniteSet(s) BY FS_Subset
<1>2. Cardinality(s) \in Nat /\ (Cardinality(s) = 0 <=> s = {}) BY <1>1, FiniteCount, FS_EmptySet
<1>3. ASSUME s # {} PROVE Pick(s) \in s BY <1>3 DEF Pick
<1>4. ASSUME s # {}
      PROVE  IsFiniteSet(s \ {Pick(s)}) /\ Cardinality(s \ {Pick(s)}) = Cardinality(s) - 1
  BY <1>1, <1>3, <1>4, FS_RemoveElement
<1> QED BY <1>1, <1>2, <1>3, <1>4

LEMMA ListsExist == ASSUME NEW S, IsFiniteSet(S) PROVE \E g : ListsOver(g, SUBSET S)
<1> DEFINE Bad == {n \in Nat : ~ \E g : ListsOver(g, AtMost(S, n))}
<1>1. ASSUME Bad # {} PROVE FALSE
  <2>1. PICK n \in Bad : \A m \in Bad : n <= m BY <1>1, Smallest
  <2>2. n \in Nat /\ ~ \E g : ListsOver(g, AtMost(S, n)) BY <2>1
  <2>3. CASE n = 0
    <3>1. AtMost(S, 0) = {{}}
      <4>1. ASSUME NEW s \in SUBSET S PROVE Cardinality(s) <= 0 <=> s = {}
        <5>1. Cardinality(s) \in Nat /\ (Cardinality(s) = 0 <=> s = {}) BY PartsOf
        <5> QED BY <5>1
      <4>2. {} \in SUBSET S OBVIOUS
      <4> QED BY <4>1, <4>2 DEF AtMost
    <3> DEFINE g == [s \in {{}} |-> <<>>]
    <3>2. ListsOver(g, {{}}) BY DEF ListsOver
    <3> QED BY <2>2, <2>3, <3>1, <3>2
  <2>4. CASE n # 0
    <3>1. n - 1 \in Nat /\ n - 1 \notin Bad BY <2>1, <2>2, <2>4
    <3>2. PICK g : ListsOver(g, AtMost(S, n - 1)) BY <3>1
    <3> DEFINE h == [s \in AtMost(S, n) |->
                       IF s = {} THEN <<>> ELSE Append(g[s \ {Pick(s)}], Pick(s))]
    <3>3. ASSUME NEW s \in AtMost(S, n - 1) PROVE s \in AtMost(S, n) /\ h[s] = g[s]
      <4>1. s \in SUBSET S /\ Cardinality(s) <= n - 1 BY DEF AtMost
      <4>2. s \in AtMost(S, n)
        <5>1. Cardinality(s) \in Nat BY <4>1, PartsOf
        <5> QED BY <4>1, <5>1, <2>2 DEF AtMost
      <4>3. g[s] = IF s = {} THEN <<>> ELSE Append(g[s \ {Pick(s)}], Pick(s))
        BY <3>2, Zenon DEF ListsOver
      <4> QED BY <4>2, <4>3
    <3>4. ASSUME NEW s \in AtMost(S, n), s # {} PROVE h[s \ {Pick(s)}] = g[s \ {Pick(s)}]
      <4>1. s \in SUBSET S /\ Cardinality(s) <= n BY DEF AtMost
      <4>2. s \ {Pick(s)} \in AtMost(S, n - 1)
        <5>1. /\ Cardinality(s) \in Nat /\ s \ {Pick(s)} \in SUBSET S
              /\ Cardinality(s \ {Pick(s)}) = Cardinality(s) - 1
          BY <4>1, <3>4, PartsOf
        <5> QED BY <4>1, <5>1, <2>2 DEF AtMost
      <4> QED BY <3>3, <4>2
    <3>5. ListsOver(h, AtMost(S, n))
      <4> HIDE DEF h
      <4>1. h = [s \in AtMost(S, n) |->
                   IF s = {} THEN <<>> ELSE Append(g[s \ {Pick(s)}], Pick(s))] BY DEF h
      <4>2. \A s \in AtMost(S, n) : s # {} =>
               Append(g[s \ {Pick(s)}], Pick(s)) = Append(h[s \ {Pick(s)}], Pick(s))
        BY <3>4
      <4>3. [s \in AtMost(S, n) |-> IF s = {} THEN <<>> ELSE Append(g[s \ {Pick(s)}], Pick(s))]
              = [s \in AtMost(S, n) |-> IF s = {} THEN <<>> ELSE Append(h[s \ {Pick(s)}], Pick(s))]
        BY <4>2, Zenon
      <4> QED BY <4>1, <4>3, Zenon DEF ListsOver
    <3> QED BY <2>2, <3>5
  <2> QED BY <2>3, <2>4
<1>2. AtMost(S, Cardinality(S)) = SUBSET S
  <2>1. \A s \in SUBSET S : Cardinality(s) <= Cardinality(S) BY FS_Subset
  <2> QED BY <2>1 DEF AtMost
<1>3. Cardinality(S) \in Nat /\ Cardinality(S) \notin Bad BY <1>1, FiniteCount
<1> QED BY <1>2, <1>3

SetOf(rows) == {rows[i] : i \in DOMAIN rows}

IsListOf(rows, S) == rows \in Seq(S) /\ Len(rows) = Cardinality(S) /\ SetOf(rows) = S

LEMMA AppendList ==
    ASSUME NEW T, NEW rows, IsListOf(rows, T), NEW x, NEW U, U = T \cup {x},
           Cardinality(U) = Cardinality(T) + 1
    PROVE  IsListOf(Append(rows, x), U)
<1>1. rows \in Seq(U) /\ x \in U BY DEF IsListOf
<1>2. /\ Append(rows, x) \in Seq(U)
      /\ Len(Append(rows, x)) = Len(rows) + 1
      /\ \A i \in 1..Len(rows) : Append(rows, x)[i] = rows[i]
      /\ Append(rows, x)[Len(rows) + 1] = x
  BY <1>1, AppendProperties
<1>3. DOMAIN rows = 1..Len(rows) /\ Len(rows) \in Nat /\ SetOf(rows) = T
  BY <1>1, LenProperties DEF IsListOf
<1>4. DOMAIN Append(rows, x) = 1..(Len(rows) + 1) BY <1>2, LenProperties
<1>5. SetOf(Append(rows, x)) = U
  <2>1. \A i \in 1..(Len(rows) + 1) : i = Len(rows) + 1 \/ i \in 1..Len(rows) BY <1>3
  <2>2. \A i \in 1..Len(rows) : i \in 1..(Len(rows) + 1) BY <1>3
  <2>3. Len(rows) + 1 \in 1..(Len(rows) + 1) BY <1>3
  <2>4. ASSUME NEW y \in U PROVE y \in SetOf(Append(rows, x))
    BY <1>2, <1>3, <1>4, <2>2, <2>3 DEF SetOf
  <2>5. ASSUME NEW y \in SetOf(Append(rows, x)) PROVE y \in U
    BY <1>2, <1>3, <1>4, <2>1 DEF SetOf
  <2> QED BY <2>4, <2>5
<1> QED BY <1>2, <1>5 DEF IsListOf

\* The rows made of a finite set are its elements, each once.
LEMMA AsRowsElements ==
    ASSUME NEW S, IsFiniteSet(S)
    PROVE  IsListOf(AsRows(S), S)
<1> DEFINE F == CHOOSE g : ListsOver(g, SUBSET S)
           Bad == {n \in Nat : \E s \in SUBSET S : Cardinality(s) = n /\ ~IsListOf(F[s], s)}
<1>1. ListsOver(F, SUBSET S) BY ListsExist
<1> HIDE DEF F
<1>2. ASSUME Bad # {} PROVE FALSE
  <2>1. PICK n \in Bad : \A m \in Bad : n <= m BY <1>2, Smallest
  <2>2. PICK s \in SUBSET S : Cardinality(s) = n /\ ~IsListOf(F[s], s) BY <2>1
  <2>3. n \in Nat BY <2>1
  <2>4. F[s] = IF s = {} THEN <<>> ELSE Append(F[s \ {Pick(s)}], Pick(s))
    BY <1>1, Zenon DEF ListsOver
  <2>5. CASE s = {}
    <3>1. F[s] = <<>> BY <2>4, <2>5
    <3>2. IsListOf(<<>>, {}) BY FS_EmptySet DEF IsListOf, SetOf
    <3> QED BY <3>1, <3>2, <2>2, <2>5
  <2>6. CASE s # {}
    <3> DEFINE p == Pick(s)
               t == s \ {Pick(s)}
    <3>1. /\ Cardinality(s) \in Nat /\ t \in SUBSET S /\ Cardinality(t) = Cardinality(s) - 1
          /\ p \in s /\ Cardinality(t) \in Nat
      BY <2>6, PartsOf
    <3>2. F[s] = Append(F[t], p) BY <2>4, <2>6
    <3>3. IsListOf(F[t], t)
      <4>1. Cardinality(t) \in Nat /\ Cardinality(t) < n BY <2>2, <2>3, <3>1
      <4>2. ASSUME Cardinality(t) \in Bad PROVE FALSE
        <5> HIDE DEF Bad, t
        <5>1. n <= Cardinality(t) BY <2>1, <4>2
        <5> QED BY <5>1, <4>1, <2>3
      <4> QED BY <4>2, <3>1
    <3>4. s = t \cup {p} /\ Cardinality(s) = Cardinality(t) + 1 BY <3>1
    <3> HIDE DEF t, p
    <3>5. IsListOf(Append(F[t], p), s) BY <3>3, <3>4, AppendList
    <3> QED BY <2>2, <3>2, <3>5
  <2> QED BY <2>5, <2>6
<1>3. S \in SUBSET S /\ Cardinality(S) \in Nat BY FiniteCount
<1>4. IsListOf(F[S], S) BY <1>2, <1>3
<1> QED BY <1>4, AsRowsIsList DEF F

(***************************************************************************)
(* InOrder by an order before, a set of pairs: NthBy(before, K, n) has     *)
(* n - 1 elements of K before it.                                          *)
(***************************************************************************)
Ahead(before, K, x) == {y \in K : <<y, x>> \in before}

NthBy(before, K, n) == CHOOSE x \in K : Cardinality(Ahead(before, K, x)) = n - 1

Orders(before, K) ==
    /\ \A x \in K : <<x, x>> \notin before
    /\ \A x, y, z \in K : <<x, y>> \in before /\ <<y, z>> \in before => <<x, z>> \in before
    /\ \A x, y \in K : x = y \/ <<x, y>> \in before \/ <<y, x>> \in before

\* Each element of a finite set has its own rank, and ranks grow in the order.
LEMMA RanksBy ==
    ASSUME NEW K, IsFiniteSet(K), NEW before, Orders(before, K), NEW x \in K
    PROVE  /\ Cardinality(Ahead(before, K, x)) \in 0..(Cardinality(K) - 1)
           /\ \A y \in K : <<x, y>> \in before =>
                Cardinality(Ahead(before, K, x)) < Cardinality(Ahead(before, K, y))
<1>1. Ahead(before, K, x) \in SUBSET K /\ x \notin Ahead(before, K, x) BY DEF Ahead, Orders
<1>2. IsFiniteSet(Ahead(before, K, x)) /\ Cardinality(Ahead(before, K, x)) < Cardinality(K)
  BY <1>1, StrictPart
<1>3. Cardinality(K) \in Nat /\ Cardinality(Ahead(before, K, x)) \in Nat BY <1>2, FiniteCount
<1>4. ASSUME NEW y \in K, <<x, y>> \in before
      PROVE  Cardinality(Ahead(before, K, x)) < Cardinality(Ahead(before, K, y))
  <2>1. Ahead(before, K, x) \in SUBSET Ahead(before, K, y) /\ x \in Ahead(before, K, y)
    BY <1>4 DEF Ahead, Orders
  <2>2. Ahead(before, K, y) \in SUBSET K BY DEF Ahead
  <2>3. IsFiniteSet(Ahead(before, K, y)) BY <2>2, FS_Subset
  <2> QED BY <2>1, <2>3, <1>1, StrictPart
<1> QED BY <1>2, <1>3, <1>4

\* NthBy numbers the elements of a finite set in their order.
LEMMA NthByOrders ==
    ASSUME NEW K, IsFiniteSet(K), NEW before, Orders(before, K)
    PROVE  /\ Cardinality(K) \in Nat
           /\ \A n \in 1..Cardinality(K) : NthBy(before, K, n) \in K
           /\ \A m, n \in 1..Cardinality(K) :
                m < n => <<NthBy(before, K, m), NthBy(before, K, n)>> \in before
           /\ \A x \in K : \E n \in 1..Cardinality(K) : x = NthBy(before, K, n)
<1> DEFINE C == Cardinality(K)
           rank == [x \in K |-> Cardinality(Ahead(before, K, x)) + 1]
<1>1. C \in Nat BY FiniteCount
<1>2. \A x \in K : Cardinality(Ahead(before, K, x)) \in 0..(C - 1) BY RanksBy
<1>3. ASSUME NEW x \in K, NEW y \in K,
             Cardinality(Ahead(before, K, x)) = Cardinality(Ahead(before, K, y))
      PROVE  x = y
  <2>1. Cardinality(Ahead(before, K, x)) \in Nat BY <1>1, <1>2
  <2>2. <<x, y>> \notin before /\ <<y, x>> \notin before BY <1>3, <2>1, RanksBy
  <2> QED BY <2>2 DEF Orders
<1>4. rank \in Injection(K, 1..C) BY <1>1, <1>2, <1>3 DEF Injection, IsInjective
<1>5. rank \in Surjection(K, 1..C)
  <2>1. IsFiniteSet(1..C) /\ Cardinality(1..C) = C BY <1>1, FS_Interval
  <2> HIDE DEF rank
  <2> QED BY <1>4, <2>1, FS_Injection
<1>6. ASSUME NEW n \in 1..C
      PROVE  /\ NthBy(before, K, n) \in K
             /\ Cardinality(Ahead(before, K, NthBy(before, K, n))) = n - 1
  <2>1. PICK x \in K : rank[x] = n BY <1>5 DEF Surjection
  <2>2. Cardinality(Ahead(before, K, x)) = n - 1 BY <2>1, <1>1, <1>2
  <2> QED BY <2>2 DEF NthBy
<1>7. ASSUME NEW m \in 1..C, NEW n \in 1..C, m < n
      PROVE  <<NthBy(before, K, m), NthBy(before, K, n)>> \in before
  <2>1. PICK x, y : x = NthBy(before, K, m) /\ y = NthBy(before, K, n) OBVIOUS
  <2>2. /\ x \in K /\ Cardinality(Ahead(before, K, x)) = m - 1
        /\ y \in K /\ Cardinality(Ahead(before, K, y)) = n - 1
    BY <1>6, <2>1
  <2>3. x # y BY <2>2, <1>7
  <2>4. <<y, x>> \notin before
    <3>1. <<y, x>> \in before =>
            Cardinality(Ahead(before, K, y)) < Cardinality(Ahead(before, K, x))
      BY <2>2, RanksBy
    <3> QED BY <3>1, <2>2, <1>7
  <2>5. <<x, y>> \in before BY <2>2, <2>3, <2>4 DEF Orders
  <2> QED BY <2>1, <2>5
<1>8. ASSUME NEW x \in K PROVE \E n \in 1..C : x = NthBy(before, K, n)
  <2> DEFINE n == Cardinality(Ahead(before, K, x)) + 1
  <2>1. n \in 1..C /\ Cardinality(Ahead(before, K, x)) = n - 1 BY <1>1, <1>2
  <2>2. /\ NthBy(before, K, n) \in K
        /\ Cardinality(Ahead(before, K, NthBy(before, K, n))) = n - 1
    BY <1>6, <2>1
  <2>3. x = NthBy(before, K, n) BY <1>3, <2>1, <2>2
  <2> QED BY <2>1, <2>3
<1> QED BY <1>1, <1>6, <1>7, <1>8

(***************************************************************************)
(* InOrder by number: Nth(K, n) has n - 1 numbers of K below it.           *)
(***************************************************************************)
Below(K, x) == {y \in K : y < x}

Nth(K, n) == CHOOSE x \in K : Cardinality(Below(K, x)) = n - 1

LEMMA InOrderIsNth ==
    ASSUME NEW K
    PROVE  InOrder(K, <) = [n \in 1..Cardinality(K) |-> Nth(K, n)]
BY DEF InOrder, Nth, Below

Upwards(K) == {p \in K \X K : p[1] < p[2]}

LEMMA NthIsUpwards ==
    ASSUME NEW K \in SUBSET Nat
    PROVE  /\ Orders(Upwards(K), K)
           /\ \A x \in K : Ahead(Upwards(K), K, x) = Below(K, x)
           /\ \A n : Nth(K, n) = NthBy(Upwards(K), K, n)
<1>1. \A x, y \in K : <<x, y>> \in Upwards(K) <=> x < y BY DEF Upwards
<1>2. Orders(Upwards(K), K) BY <1>1 DEF Orders
<1>3. \A x \in K : Ahead(Upwards(K), K, x) = Below(K, x) BY <1>1 DEF Ahead, Below
<1>4. \A n : Nth(K, n) = NthBy(Upwards(K), K, n) BY <1>3, Zenon DEF Nth, NthBy
<1> QED BY <1>2, <1>3, <1>4

\* Nth numbers the elements of a finite set of numbers upwards.
LEMMA NthOrders ==
    ASSUME NEW K \in SUBSET Nat, IsFiniteSet(K)
    PROVE  /\ Cardinality(K) \in Nat
           /\ \A n \in 1..Cardinality(K) : Nth(K, n) \in K
           /\ \A m, n \in 1..Cardinality(K) : m < n => Nth(K, m) < Nth(K, n)
           /\ \A x \in K : \E n \in 1..Cardinality(K) : x = Nth(K, n)
<1>1. /\ Cardinality(K) \in Nat
      /\ \A n \in 1..Cardinality(K) : Nth(K, n) \in K
      /\ \A m, n \in 1..Cardinality(K) : m < n => <<Nth(K, m), Nth(K, n)>> \in Upwards(K)
      /\ \A x \in K : \E n \in 1..Cardinality(K) : x = Nth(K, n)
  <2>1. PICK up : up = Upwards(K) OBVIOUS
  <2>2. Orders(up, K) /\ \A n : Nth(K, n) = NthBy(up, K, n) BY <2>1, NthIsUpwards
  <2>3. /\ Cardinality(K) \in Nat
        /\ \A n \in 1..Cardinality(K) : NthBy(up, K, n) \in K
        /\ \A m, n \in 1..Cardinality(K) : m < n => <<NthBy(up, K, m), NthBy(up, K, n)>> \in up
        /\ \A x \in K : \E n \in 1..Cardinality(K) : x = NthBy(up, K, n)
    BY <2>2, NthByOrders
  <2> QED BY <2>1, <2>2, <2>3
<1>2. \A x, y : <<x, y>> \in Upwards(K) => x < y BY DEF Upwards
<1> QED BY <1>1, <1>2

\* The numbers from m + 1 to m + n.
LEMMA NthOfInterval ==
    ASSUME NEW m \in Nat, NEW n \in Nat, NEW K, K = (m + 1)..(m + n)
    PROVE  /\ Cardinality(K) = n
           /\ \A j \in 1..n : Nth(K, j) = m + j
<1>1. K \in SUBSET Nat /\ IsFiniteSet(K) /\ Cardinality(K) = n
  <2>1. K \in SUBSET Nat OBVIOUS
  <2>2. IsFiniteSet(K) /\ Cardinality(K) = IF m + 1 > m + n THEN 0 ELSE m + n - (m + 1) + 1
    BY FS_Interval
  <2> QED BY <2>1, <2>2
<1>2. ASSUME NEW x \in K PROVE Cardinality(Below(K, x)) = x - (m + 1)
  <2>1. Below(K, x) = (m + 1)..(x - 1) BY <1>2 DEF Below
  <2>2. Cardinality((m + 1)..(x - 1)) =
          IF m + 1 > x - 1 THEN 0 ELSE x - 1 - (m + 1) + 1
    BY <1>2, FS_Interval
  <2> QED BY <1>2, <2>1, <2>2
<1>3. ASSUME NEW j \in 1..n PROVE Nth(K, j) = m + j
  <2>1. m + j \in K /\ Cardinality(Below(K, m + j)) = j - 1 BY <1>2
  <2>2. Nth(K, j) \in K /\ Cardinality(Below(K, Nth(K, j))) = j - 1 BY <2>1 DEF Nth
  <2> QED BY <1>2, <2>2
<1> QED BY <1>1, <1>3

(***************************************************************************)
(* Select keeps the rows at the positions K, in their order.               *)
(***************************************************************************)
Kept(rows, K) == [n \in 1..Cardinality(K) |-> rows[Nth(K, n)]]

\* rows is a sequence, of whatever.
IsRows(rows) == rows \in Seq(SetOf(rows))

LEMMA RowsAreNumbered ==
    ASSUME NEW rows, IsRows(rows)
    PROVE  /\ Len(rows) \in Nat /\ DOMAIN rows = 1..Len(rows) /\ IsFiniteSet(DOMAIN rows)
           /\ rows = [i \in 1..Len(rows) |-> rows[i]]
<1>1. Len(rows) \in Nat /\ DOMAIN rows = 1..Len(rows) BY LenProperties DEF IsRows
<1>2. IsFiniteSet(1..Len(rows)) BY <1>1, FS_Interval
<1>3. rows \in [1..Len(rows) -> SetOf(rows)] BY LenProperties DEF IsRows
<1> QED BY <1>1, <1>2, <1>3

LEMMA NumberedAreRows ==
    ASSUME NEW rows, NEW n \in Nat, rows = [i \in 1..n |-> rows[i]]
    PROVE  IsRows(rows) /\ Len(rows) = n
<1>1. DOMAIN rows = 1..n BY Zenon
<1>2. rows \in [1..n -> SetOf(rows)]
  <2>1. \A i \in 1..n : rows[i] \in SetOf(rows) BY <1>1 DEF SetOf
  <2> QED BY <2>1, <1>1
<1>3. rows \in Seq(SetOf(rows)) BY <1>2, SeqDef
<1>4. Len(rows) = n BY <1>1, <1>3, LenProperties
<1> QED BY <1>3, <1>4 DEF IsRows

\* Select(rows, Test), unfolded, for the set K of positions of Test.
SelectedAt(rows, K) == LET kept == InOrder(K, <) IN [n \in DOMAIN kept |-> rows[kept[n]]]

LEMMA SelectIsKept == ASSUME NEW rows, NEW K PROVE SelectedAt(rows, K) = Kept(rows, K)
<1>1. PICK kept : kept = InOrder(K, <) OBVIOUS
<1>2. kept = [n \in 1..Cardinality(K) |-> Nth(K, n)] BY <1>1, InOrderIsNth
<1>3. [n \in DOMAIN kept |-> rows[kept[n]]] = Kept(rows, K) BY <1>2 DEF Kept
<1> QED BY <1>1, <1>3 DEF SelectedAt

LEMMA KeptRows ==
    ASSUME NEW rows, IsRows(rows), NEW K \in SUBSET (DOMAIN rows)
    PROVE  /\ IsFiniteSet(K) /\ Cardinality(K) \in Nat
           /\ IsRows(Kept(rows, K)) /\ Len(Kept(rows, K)) = Cardinality(K)
           /\ SetOf(Kept(rows, K)) = {rows[i] : i \in K}
<1>1. K \in SUBSET Nat BY RowsAreNumbered
<1>2. IsFiniteSet(K) BY RowsAreNumbered, FS_Subset
<1>3. /\ Cardinality(K) \in Nat
      /\ \A n \in 1..Cardinality(K) : Nth(K, n) \in K
      /\ \A x \in K : \E n \in 1..Cardinality(K) : x = Nth(K, n)
  BY <1>1, <1>2, NthOrders
<1>4. /\ DOMAIN Kept(rows, K) = 1..Cardinality(K)
      /\ \A n \in 1..Cardinality(K) : Kept(rows, K)[n] = rows[Nth(K, n)]
      /\ Kept(rows, K) = [n \in 1..Cardinality(K) |-> Kept(rows, K)[n]]
  BY DEF Kept
<1>5. IsRows(Kept(rows, K)) /\ Len(Kept(rows, K)) = Cardinality(K)
  BY <1>3, <1>4, NumberedAreRows
<1>6. SetOf(Kept(rows, K)) = {rows[i] : i \in K} BY <1>3, <1>4 DEF SetOf
<1> QED BY <1>2, <1>3, <1>5, <1>6

(***************************************************************************)
(* Concatenation.                                                          *)
(***************************************************************************)
\* c has the rows of a, then those of b.
Follows(c, a, b) ==
    /\ IsRows(c) /\ SetOf(c) = SetOf(a) \cup SetOf(b) /\ Len(c) = Len(a) + Len(b)
    /\ \A i \in 1..Len(a) : c[i] = a[i]
    /\ \A i \in (Len(a) + 1)..Len(c) : i - Len(a) \in DOMAIN b /\ c[i] = b[i - Len(a)]

LEMMA Concatenated ==
    ASSUME NEW a, IsRows(a), NEW b, IsRows(b), NEW c, c = a \o b
    PROVE  Follows(c, a, b)
<1>1. PICK S : S = SetOf(a) \cup SetOf(b) OBVIOUS
<1>2. a \in Seq(S) /\ b \in Seq(S) BY <1>1, RowsAreNumbered DEF IsRows
<1>3. /\ c \in Seq(S) /\ Len(c) = Len(a) + Len(b)
      /\ \A i \in 1..Len(c) : c[i] = IF i <= Len(a) THEN a[i] ELSE b[i - Len(a)]
  BY <1>2
<1>4. Len(a) \in Nat /\ Len(b) \in Nat /\ DOMAIN a = 1..Len(a) /\ DOMAIN b = 1..Len(b)
  BY RowsAreNumbered
<1>5. \A i \in 1..Len(a) : i \in 1..Len(c) /\ c[i] = a[i] BY <1>3, <1>4
<1>6. \A i \in (Len(a) + 1)..Len(c) : i - Len(a) \in DOMAIN b /\ c[i] = b[i - Len(a)]
  BY <1>3, <1>4
<1>7. \A i \in 1..Len(b) : Len(a) + i \in 1..Len(c) /\ c[Len(a) + i] = b[i] BY <1>3, <1>4
<1>8. DOMAIN c = 1..Len(c) /\ c = [i \in 1..Len(c) |-> c[i]]
  <2>1. c \in [1..Len(c) -> S] /\ DOMAIN c = 1..Len(c) BY <1>3, LenProperties
  <2> QED BY <2>1
<1>9. IsRows(c)
  <2>1. Len(c) \in Nat BY <1>3, <1>4
  <2> QED BY <1>8, <2>1, NumberedAreRows
<1>10. SetOf(c) = SetOf(a) \cup SetOf(b)
  <2>1. ASSUME NEW i \in DOMAIN c PROVE c[i] \in SetOf(a) \/ c[i] \in SetOf(b)
    <3>1. CASE i \in 1..Len(a) BY <1>4, <1>5, <3>1 DEF SetOf
    <3>2. CASE i \in (Len(a) + 1)..Len(c) BY <1>6, <3>2 DEF SetOf
    <3> QED BY <1>3, <1>4, <1>8, <3>1, <3>2
  <2>2. \A i \in DOMAIN a : a[i] \in SetOf(c) BY <1>4, <1>5, <1>8 DEF SetOf
  <2>3. \A i \in DOMAIN b : b[i] \in SetOf(c) BY <1>4, <1>7, <1>8 DEF SetOf
  <2> QED BY <2>1, <2>2, <2>3 DEF SetOf
<1> QED BY <1>3, <1>5, <1>6, <1>9, <1>10 DEF Follows

(***************************************************************************)
(* FlatRows.                                                               *)
(***************************************************************************)
\* f[n] are the rows of the first n tables.
Flattens(f, seqs, N) == f = [n \in 0..N |-> IF n = 0 THEN <<>> ELSE f[n - 1] \o seqs[n]]

LEMMA FlatRowsIs ==
    ASSUME NEW seqs
    PROVE  FlatRows(seqs) = (CHOOSE f : Flattens(f, seqs, Len(seqs)))[Len(seqs)]
BY DEF FlatRows, Flattens

LEMMA FlattensExists == ASSUME NEW seqs, NEW N \in Nat PROVE \E f : Flattens(f, seqs, N)
<1> DEFINE Bad == {n \in Nat : ~ \E f : Flattens(f, seqs, n)}
<1>1. ASSUME Bad # {} PROVE FALSE
  <2>1. PICK n \in Bad : \A m \in Bad : n <= m BY <1>1, Smallest
  <2>2. n \in Nat /\ ~ \E f : Flattens(f, seqs, n) BY <2>1
  <2>3. CASE n = 0
    <3> DEFINE f == [k \in 0..0 |-> <<>>]
    <3>1. f = [k \in 0..0 |-> IF k = 0 THEN <<>> ELSE f[k - 1] \o seqs[k]] OBVIOUS
    <3>2. Flattens(f, seqs, 0) BY <3>1 DEF Flattens
    <3> QED BY <2>2, <2>3, <3>2
  <2>4. CASE n # 0
    <3>1. n - 1 \in Nat /\ n - 1 \notin Bad BY <2>1, <2>2, <2>4
    <3>2. PICK f : Flattens(f, seqs, n - 1) BY <3>1
    <3>3. PICK h : h = [k \in 0..n |-> IF k = 0 THEN <<>> ELSE f[k - 1] \o seqs[k]] OBVIOUS
    <3>4. ASSUME NEW k \in 0..(n - 1) PROVE h[k] = f[k]
      <4>1. f[k] = IF k = 0 THEN <<>> ELSE f[k - 1] \o seqs[k] BY <3>2, Zenon DEF Flattens
      <4>2. k \in 0..n BY <2>2
      <4>3. h[k] = IF k = 0 THEN <<>> ELSE f[k - 1] \o seqs[k] BY <3>3, <4>2, Zenon
      <4> QED BY <4>1, <4>3
    <3>5. \A k \in 0..n : k # 0 => f[k - 1] \o seqs[k] = h[k - 1] \o seqs[k]
      <4>1. \A k \in 0..n : k # 0 => k - 1 \in 0..(n - 1) BY <2>2
      <4> QED BY <3>4, <4>1
    <3>6. [k \in 0..n |-> IF k = 0 THEN <<>> ELSE f[k - 1] \o seqs[k]]
            = [k \in 0..n |-> IF k = 0 THEN <<>> ELSE h[k - 1] \o seqs[k]]
      BY <3>5, Zenon
    <3>7. Flattens(h, seqs, n) BY <3>3, <3>6, Zenon DEF Flattens
    <3> QED BY <2>2, <3>7
  <2> QED BY <2>3, <2>4
<1>2. N \notin Bad BY <1>1
<1> QED BY <1>2

\* The rows of the first n tables.
AllOf(seqs, n) == UNION {SetOf(seqs[k]) : k \in 1..n}

LEMMA MoreTables ==
    ASSUME NEW seqs, NEW n \in Nat, n # 0
    PROVE  AllOf(seqs, n) = AllOf(seqs, n - 1) \cup SetOf(seqs[n])
<1>1. \A k : k \in 1..n <=> k \in 1..(n - 1) \/ k = n OBVIOUS
<1> QED BY <1>1, Zenon DEF AllOf

\* The first n tables of seqs, flattened.
FirstTables(f, seqs, n) ==
    /\ IsRows(f[n]) /\ SetOf(f[n]) = AllOf(seqs, n)
    /\ n # 0 => Follows(f[n], f[n - 1], seqs[n])

LEMMA PrefixesFlatten ==
    ASSUME NEW seqs, NEW N \in Nat, \A k \in 1..N : IsRows(seqs[k]), NEW f, Flattens(f, seqs, N)
    PROVE  f[0] = <<>> /\ \A n \in 0..N : FirstTables(f, seqs, n)
<1>1. \A n \in 0..N : f[n] = IF n = 0 THEN <<>> ELSE f[n - 1] \o seqs[n]
  BY Zenon DEF Flattens
<1> DEFINE Bad == {n \in 0..N : ~FirstTables(f, seqs, n)}
<1>2. ASSUME Bad # {} PROVE FALSE
  <2>1. PICK n \in Bad : \A m \in Bad : n <= m
    <3>1. Bad \in SUBSET Nat OBVIOUS
    <3> HIDE DEF Bad
    <3> QED BY <1>2, <3>1, Smallest
  <2>2. n \in 0..N /\ ~FirstTables(f, seqs, n) BY <2>1
  <2>3. CASE n = 0
    <3>1. f[n] = <<>> BY <1>1, <2>2, <2>3
    <3>2. IsRows(<<>>) /\ SetOf(<<>>) = {}
      <4>1. SetOf(<<>>) = {} BY DEF SetOf
      <4> QED BY <4>1 DEF IsRows
    <3>3. AllOf(seqs, 0) = {} BY DEF AllOf
    <3> QED BY <2>2, <2>3, <3>1, <3>2, <3>3 DEF FirstTables
  <2>4. CASE n # 0
    <3>1. n - 1 \in 0..N /\ n - 1 \notin Bad /\ n \in 1..N BY <2>1, <2>2, <2>4
    <3>2. FirstTables(f, seqs, n - 1) BY <3>1
    <3>3. Follows(f[n], f[n - 1], seqs[n])
      <4>1. PICK a, b : a = f[n - 1] /\ b = seqs[n] OBVIOUS
      <4>2. IsRows(a) /\ IsRows(b) /\ f[n] = a \o b
        BY <1>1, <2>2, <2>4, <3>1, <3>2, <4>1 DEF FirstTables
      <4>3. Follows(f[n], a, b) BY <4>2, Concatenated, Zenon
      <4> QED BY <4>1, <4>3
    <3>4. IsRows(f[n]) /\ SetOf(f[n]) = SetOf(f[n - 1]) \cup SetOf(seqs[n]) BY <3>3 DEF Follows
    <3>5. AllOf(seqs, n) = AllOf(seqs, n - 1) \cup SetOf(seqs[n]) BY <3>1, MoreTables
    <3>6. SetOf(f[n]) = AllOf(seqs, n) BY <3>2, <3>4, <3>5 DEF FirstTables
    <3> QED BY <2>2, <3>3, <3>4, <3>6 DEF FirstTables
  <2> QED BY <2>3, <2>4
<1>3. \A n \in 0..N : FirstTables(f, seqs, n) BY <1>2
<1>4. f[0] = <<>> BY <1>1
<1> QED BY <1>3, <1>4

\* Tables flattened: a sequence of rows, the rows of the tables.
LEMMA FlatElements ==
    ASSUME NEW seqs, NEW N \in Nat, Len(seqs) = N, \A k \in 1..N : IsRows(seqs[k])
    PROVE  /\ IsRows(FlatRows(seqs))
           /\ SetOf(FlatRows(seqs)) = AllOf(seqs, N)
<1>1. PICK f : f = CHOOSE g : Flattens(g, seqs, N) OBVIOUS
<1>2. Flattens(f, seqs, N) BY <1>1, FlattensExists
<1>3. FlatRows(seqs) = f[N] BY <1>1, FlatRowsIs
<1>4. FirstTables(f, seqs, N) BY <1>2, PrefixesFlatten
<1> QED BY <1>3, <1>4 DEF FirstTables

\* What Select returns are rows of its table, those of the test.
LEMMA SelectedRows ==
    ASSUME NEW rows, IsRows(rows), NEW K \in SUBSET (DOMAIN rows)
    PROVE  /\ IsRows(SelectedAt(rows, K))
           /\ SetOf(SelectedAt(rows, K)) = {rows[i] : i \in K}
BY KeptRows, SelectIsKept
\* The positions of the rows that are in hits.
Hits(rows, hits) == {i \in DOMAIN rows : rows[i] \in hits}

\* Of a table after another, what is selected from the first only.
LEMMA SelectFirst ==
    ASSUME NEW a, IsRows(a), NEW b, IsRows(b), NEW c, Follows(c, a, b), NEW hits,
           \A r \in SetOf(b) : r \notin hits
    PROVE  SelectedAt(c, Hits(c, hits)) = SelectedAt(a, Hits(a, hits))
<1>1. /\ Len(a) \in Nat /\ DOMAIN a = 1..Len(a) /\ Len(b) \in Nat
      /\ DOMAIN c = 1..(Len(a) + Len(b)) /\ Len(c) = Len(a) + Len(b)
  BY RowsAreNumbered DEF Follows
<1>2. PICK K : K = Hits(a, hits) OBVIOUS
<1>3. Hits(c, hits) = K
  <2>1. ASSUME NEW i \in DOMAIN c PROVE c[i] \in hits <=> i \in DOMAIN a /\ a[i] \in hits
    <3>1. CASE i \in 1..Len(a) BY <1>1, <3>1 DEF Follows
    <3>2. CASE i \in (Len(a) + 1)..Len(c)
      <4>1. i - Len(a) \in DOMAIN b /\ c[i] = b[i - Len(a)] BY <3>2 DEF Follows
      <4> QED BY <1>1, <3>2, <4>1 DEF SetOf
    <3> QED BY <1>1, <3>1, <3>2
  <2>2. DOMAIN a \subseteq DOMAIN c BY <1>1
  <2> QED BY <1>2, <2>1, <2>2 DEF Hits
<1>4. K \in SUBSET (DOMAIN a) BY <1>2 DEF Hits
<1>5. ASSUME NEW n \in 1..Cardinality(K) PROVE c[Nth(K, n)] = a[Nth(K, n)]
  <2>1. K \in SUBSET Nat /\ IsFiniteSet(K) BY <1>1, <1>4, RowsAreNumbered, FS_Subset
  <2>2. Nth(K, n) \in K BY <2>1, NthOrders
  <2> QED BY <1>1, <1>4, <2>2 DEF Follows
<1>6. Kept(c, K) = Kept(a, K) BY <1>5, Zenon DEF Kept
<1> QED BY <1>2, <1>3, <1>6, SelectIsKept

\* What is selected from the second only, when all of it is.
LEMMA SelectSecond ==
    ASSUME NEW a, IsRows(a), NEW b, IsRows(b), NEW c, Follows(c, a, b), NEW hits,
           \A r \in SetOf(a) : r \notin hits, \A r \in SetOf(b) : r \in hits
    PROVE  SelectedAt(c, Hits(c, hits)) = b
<1>1. /\ Len(a) \in Nat /\ DOMAIN a = 1..Len(a) /\ Len(b) \in Nat /\ DOMAIN b = 1..Len(b)
      /\ DOMAIN c = 1..(Len(a) + Len(b)) /\ Len(c) = Len(a) + Len(b)
      /\ b = [i \in 1..Len(b) |-> b[i]]
  BY RowsAreNumbered DEF Follows
<1>2. PICK K : K = (Len(a) + 1)..(Len(a) + Len(b)) OBVIOUS
<1>3. Hits(c, hits) = K
  <2>1. ASSUME NEW i \in DOMAIN c PROVE c[i] \in hits <=> i \in K
    <3>1. CASE i \in 1..Len(a) BY <1>1, <1>2, <3>1 DEF Follows, SetOf
    <3>2. CASE i \in (Len(a) + 1)..Len(c)
      <4>1. i - Len(a) \in DOMAIN b /\ c[i] = b[i - Len(a)] BY <3>2 DEF Follows
      <4> QED BY <1>1, <1>2, <3>2, <4>1 DEF SetOf
    <3> QED BY <1>1, <3>1, <3>2
  <2>2. K \subseteq DOMAIN c BY <1>1, <1>2
  <2> QED BY <2>1, <2>2 DEF Hits
<1>4. Cardinality(K) = Len(b) /\ \A j \in 1..Len(b) : Nth(K, j) = Len(a) + j
  BY <1>1, <1>2, NthOfInterval
<1>5. ASSUME NEW j \in 1..Len(b) PROVE c[Nth(K, j)] = b[j]
  <2>1. Len(a) + j \in (Len(a) + 1)..Len(c) /\ Len(a) + j - Len(a) = j BY <1>1
  <2> QED BY <1>4, <2>1 DEF Follows
<1>6. Kept(c, K) = [j \in 1..Len(b) |-> b[j]] BY <1>4, <1>5, Zenon DEF Kept
<1> QED BY <1>1, <1>3, <1>6, SelectIsKept

\* seqs are N tables, of which the rows of the k-th are hits, and no others.
HitTable(seqs, N, k, hits) ==
    /\ N \in Nat /\ Len(seqs) = N /\ k \in 1..N
    /\ \A j \in 1..N : IsRows(seqs[j])
    /\ \A j \in 1..N : \A r \in SetOf(seqs[j]) : r \in hits <=> j = k

\* Of tables flattened, the one that is selected.
LEMMA SelectTable ==
    ASSUME NEW seqs, NEW N, NEW k, NEW hits, HitTable(seqs, N, k, hits)
    PROVE  SelectedAt(FlatRows(seqs), Hits(FlatRows(seqs), hits)) = seqs[k]
<1>0. /\ N \in Nat /\ Len(seqs) = N /\ k \in 1..N
      /\ \A j \in 1..N : IsRows(seqs[j])
      /\ \A j \in 1..N : \A r \in SetOf(seqs[j]) : r \in hits <=> j = k
  BY DEF HitTable
<1>1. PICK f : f = CHOOSE g : Flattens(g, seqs, N) OBVIOUS
<1>2. Flattens(f, seqs, N) BY <1>0, <1>1, FlattensExists
<1>3. FlatRows(seqs) = f[N] BY <1>0, <1>1, FlatRowsIs
<1>4. f[0] = <<>> /\ \A n \in 0..N : FirstTables(f, seqs, n) BY <1>0, <1>2, PrefixesFlatten
<1> DEFINE Chosen(n) == SelectedAt(f[n], Hits(f[n], hits))
           Bad == {n \in 0..N : Chosen(n) # IF n < k THEN <<>> ELSE seqs[k]}
<1>5. ASSUME Bad # {} PROVE FALSE
  <2>1. PICK n \in Bad : \A m \in Bad : n <= m
    <3>1. Bad \in SUBSET Nat BY <1>0
    <3> HIDE DEF Bad
    <3> QED BY <1>5, <3>1, Smallest
  <2>2. n \in 0..N /\ Chosen(n) # IF n < k THEN <<>> ELSE seqs[k] BY <2>1
  <2>3. CASE n = 0
    <3>1. Hits(<<>>, hits) = {} BY DEF Hits
    <3>2. Cardinality({}) = 0 BY FS_EmptySet
    <3>3. Kept(<<>>, {}) = <<>> BY <3>2 DEF Kept
    <3>4. Chosen(0) = <<>> BY <1>4, <3>1, <3>3, SelectIsKept
    <3> QED BY <1>0, <2>2, <2>3, <3>4
  <2>4. CASE n # 0
    <3>1. n - 1 \in 0..N /\ n - 1 \notin Bad /\ n \in 1..N BY <1>0, <2>1, <2>2, <2>4
    <3>2. Chosen(n - 1) = IF n - 1 < k THEN <<>> ELSE seqs[k] BY <3>1
    <3>3. PICK a, b, c : a = f[n - 1] /\ b = seqs[n] /\ c = f[n] OBVIOUS
    <3>4. Follows(c, a, b) /\ IsRows(a) /\ IsRows(b) /\ SetOf(a) = AllOf(seqs, n - 1)
      <4>1. FirstTables(f, seqs, n) /\ FirstTables(f, seqs, n - 1) /\ IsRows(seqs[n]) BY <1>0, <1>4, <3>1
      <4> QED BY <2>4, <3>3, <4>1 DEF FirstTables
    <3> HIDE DEF Bad
    <3>5. CASE n = k
      <4>1. \A r \in SetOf(a) : r \notin hits
        <5>1. ASSUME NEW r \in AllOf(seqs, n - 1) PROVE r \notin hits
          <6>1. PICK j \in 1..(n - 1) : r \in SetOf(seqs[j]) BY <5>1 DEF AllOf
          <6> QED BY <1>0, <3>1, <3>5, <6>1
        <5> QED BY <3>4, <5>1
      <4>2. \A r \in SetOf(b) : r \in hits BY <1>0, <3>1, <3>3, <3>5
      <4>3. SelectedAt(c, Hits(c, hits)) = b BY <3>4, <4>1, <4>2, SelectSecond
      <4>4. Chosen(n) = seqs[k] BY <3>3, <3>5, <4>3
      <4> HIDE DEF Chosen
      <4> QED BY <1>0, <2>2, <3>5, <4>4
    <3>6. CASE n # k
      <4>1. \A r \in SetOf(b) : r \notin hits BY <1>0, <3>1, <3>3, <3>6
      <4>2. SelectedAt(c, Hits(c, hits)) = SelectedAt(a, Hits(a, hits))
        BY <3>4, <4>1, SelectFirst
      <4>3. Chosen(n) = Chosen(n - 1) BY <3>3, <4>2
      <4> HIDE DEF Chosen
      <4> QED BY <1>0, <2>2, <3>1, <3>2, <3>6, <4>3
    <3> QED BY <3>5, <3>6
  <2> QED BY <2>3, <2>4
<1>6. Chosen(N) = seqs[k]
  <2>1. N \in 0..N /\ ~(N < k) BY <1>0
  <2> HIDE DEF Chosen
  <2> QED BY <1>5, <2>1
<1> QED BY <1>3, <1>6


==============================================================================
