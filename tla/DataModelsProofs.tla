-------------------------- MODULE DataModelsProofs --------------------------
(***************************************************************************)
(* Theorems about DataModels, for any number of keys, readers, writers and *)
(* writes of others, and for all bounds.                                   *)
(***************************************************************************)
EXTENDS DataModels, SequenceTheorems, WellFoundedInduction, FiniteSetTheorems, TLAPS

-----------------------------------------------------------------------------
(* Sums of sequences of integers as FoldLeft computes them, a recursive    *)
(* function on sets of indices.  Induction, over a set in place of a       *)
(* predicate, is what proves something of it.                              *)

Total(w) == FoldLeft(LAMBDA total, n : total + n, 0, w)

LEMMA Induction ==
    ASSUME NEW T, 0 \in T, \A n \in Nat : n \in T => n + 1 \in T
    PROVE  Nat \subseteq T
<1> DEFINE Less == {x \in Nat \X Nat : x[1] < x[2]}
           Rest == Nat \ T
<1>1. IsWellFoundedOn(Less, Nat)
  BY NatLessThanWellFounded DEF OpToRel
<1>2. ASSUME Rest # {} PROVE FALSE
  <2>1. PICK x \in Rest : \A y \in Rest : ~(<<y, x>> \in Less)
    <3>1. Rest \subseteq Nat
      OBVIOUS
    <3> HIDE DEF Less, Rest
    <3> QED
      BY <1>1, <1>2, <3>1, WFMin
  <2>2. x \in Nat /\ x \notin T /\ x # 0
    BY <2>1
  <2>3. x - 1 \in Nat /\ <<x - 1, x>> \in Less
    BY <2>2
  <2>4. x - 1 \in T
    BY <2>1, <2>3
  <2>5. (x - 1) + 1 = x
    BY <2>2
  <2> QED
    BY <2>2, <2>3, <2>4, <2>5
<1> QED
  BY <1>2

LEMMA LeastElement ==
    ASSUME NEW T \in SUBSET Nat, NEW n \in T
    PROVE  \E m \in T : \A i \in 0..(m - 1) : i \notin T
<1> DEFINE U == {k \in Nat : \A i \in 0..k : i \notin T}
<1> SUFFICES ASSUME \A m \in T : \E i \in 0..(m - 1) : i \in T PROVE FALSE
  OBVIOUS
<1>1. 0 \in U
  OBVIOUS
<1>2. ASSUME NEW k \in Nat, k \in U PROVE k + 1 \in U
  <2>1. \A i \in 0..k : i \notin T
    BY <1>2
  <2>2. k + 1 \notin T
    BY <2>1
  <2> QED
    BY <2>1, <2>2
<1>3. Nat \subseteq U
  <2> HIDE DEF U
  <2> QED
    BY <1>1, <1>2, Induction
<1> QED
  BY <1>3

\* g is the sum of the w[i] over each set of indices up to n.
SumsOver(w, n, g) ==
    g = [t \in SUBSET (1..n) |-> IF t = {} THEN 0 ELSE g[t \ {Max(t)}] + w[Max(t)]]

LEMMA LargestIndex ==
    ASSUME NEW n \in Nat, NEW t \in SUBSET (1..n), n \in t
    PROVE  Max(t) = n
<1>1. \E x \in t : \A y \in t : x >= y
  OBVIOUS
<1>2. Max(t) \in t /\ \A y \in t : Max(t) >= y
  BY <1>1, Zenon DEF Max
<1>3. PICK m : m = Max(t)
  OBVIOUS
<1>4. m \in 1..n /\ m >= n
  BY <1>2, <1>3
<1> QED
  BY <1>3, <1>4

LEMMA SumsExist ==
    ASSUME NEW w
    PROVE  \A n \in Nat : \E g : SumsOver(w, n, g)
<1> DEFINE T == {n \in Nat : \E g : SumsOver(w, n, g)}
<1>1. 0 \in T
  <2> DEFINE g == [t \in SUBSET (1..0) |-> 0]
  <2>1. \A t \in SUBSET (1..0) : t = {}
    OBVIOUS
  <2>2. g = [t \in SUBSET (1..0) |-> IF t = {} THEN 0 ELSE g[t \ {Max(t)}] + w[Max(t)]]
    BY <2>1
  <2> QED
    BY <2>2 DEF SumsOver
<1>2. ASSUME NEW n \in Nat, n \in T
      PROVE  n + 1 \in T
  <2>1. PICK g : SumsOver(w, n, g)
    BY <1>2
  <2> DEFINE h == [t \in SUBSET (1..(n + 1)) |->
                      IF n + 1 \in t THEN g[t \ {n + 1}] + w[n + 1] ELSE g[t]]
  <2>2. ASSUME NEW t \in SUBSET (1..(n + 1))
        PROVE  h[t] = IF t = {} THEN 0 ELSE h[t \ {Max(t)}] + w[Max(t)]
    <3>1. CASE n + 1 \in t
      <4>1. Max(t) = n + 1
        BY <3>1, LargestIndex
      <4>2. t \ {n + 1} \in SUBSET (1..(n + 1))
        OBVIOUS
      <4>3. h[t \ {n + 1}] = g[t \ {n + 1}]
        BY <4>2
      <4>4. h[t] = g[t \ {n + 1}] + w[n + 1]
        BY <3>1
      <4> HIDE DEF h
      <4> QED
        BY <3>1, <4>1, <4>3, <4>4
    <3>2. CASE n + 1 \notin t
      <4>1. t \in SUBSET (1..n)
        BY <3>2
      <4>2. \A u \in SUBSET (1..(n + 1)) : n + 1 \notin u => h[u] = g[u]
        OBVIOUS
      <4>3. t \ {Max(t)} \in SUBSET (1..(n + 1)) /\ n + 1 \notin t \ {Max(t)}
        BY <3>2
      <4> HIDE DEF h
      <4>4. h[t] = g[t] /\ h[t \ {Max(t)}] = g[t \ {Max(t)}]
        BY <3>2, <4>2, <4>3
      <4>5. g[t] = IF t = {} THEN 0 ELSE g[t \ {Max(t)}] + w[Max(t)]
        BY <2>1, <4>1 DEF SumsOver
      <4> QED
        BY <4>4, <4>5
    <3> QED
      BY <3>1, <3>2
  <2>3. h = [t \in SUBSET (1..(n + 1)) |-> IF t = {} THEN 0 ELSE h[t \ {Max(t)}] + w[Max(t)]]
    <3>1. h = [t \in SUBSET (1..(n + 1)) |-> h[t]]
      OBVIOUS
    <3> HIDE DEF h
    <3> QED
      BY <2>2, <3>1
  <2>4. SumsOver(w, n + 1, h)
    BY <2>3 DEF SumsOver
  <2> QED
    BY <2>4
<1> HIDE DEF T
<1>3. Nat \subseteq T
  BY <1>1, <1>2, Induction
<1> QED
  BY <1>3 DEF T

LEMMA SumsStep ==
    ASSUME NEW n \in Nat, NEW w, NEW g, SumsOver(w, n, g)
    PROVE  /\ g[1..0] = 0
           /\ \A k \in 1..n : g[1..k] = g[1..(k - 1)] + w[k]
<1>1. ASSUME NEW k \in 1..n
      PROVE  g[1..k] = g[1..(k - 1)] + w[k]
  <2>1. 1..k \in SUBSET (1..n) /\ 1..k # {} /\ (1..k) \ {k} = 1..(k - 1)
    OBVIOUS
  <2>2. Max(1..k) = k
    BY LargestIndex
  <2> QED
    BY <2>1, <2>2 DEF SumsOver
<1>2. g[1..0] = 0
  BY DEF SumsOver
<1> QED
  BY <1>1, <1>2

LEMMA TotalIsSum ==
    ASSUME NEW w, NEW n \in Nat, DOMAIN w = 1..n
    PROVE  \E g : SumsOver(w, n, g) /\ Total(w) = g[1..n]
<1> DEFINE It(g) == g = [t \in SUBSET (1..n) |-> IF t = {} THEN 0 ELSE g[t \ {Max(t)}] + w[Max(t)]]
<1>1. Total(w) = (CHOOSE g : It(g))[1..n]
  BY Zenon DEF Total, FoldLeft, MapThenFoldSet
<1>2. \E g : It(g)
  BY SumsExist DEF SumsOver
<1> QED
  BY <1>1, <1>2, Zenon DEF SumsOver

LEMMA TotalOfEmpty == ASSUME NEW w, DOMAIN w = {} PROVE Total(w) = 0
<1>1. DOMAIN w = 1..0
  OBVIOUS
<1>2. PICK g : SumsOver(w, 0, g) /\ Total(w) = g[1..0]
  BY <1>1, TotalIsSum
<1> QED
  BY <1>2, SumsStep

LEMMA TotalOfAppend ==
    ASSUME NEW S, NEW w \in Seq(S), NEW x \in S
    PROVE  Total(Append(w, x)) = Total(w) + x
<1> DEFINE n == Len(w)
           a == Append(w, x)
<1>1. /\ n \in Nat /\ DOMAIN w = 1..n /\ DOMAIN a = 1..(n + 1)
      /\ a[n + 1] = x /\ \A i \in 1..n : a[i] = w[i]
  OBVIOUS
<1> HIDE DEF n, a
<1>2. PICK g : SumsOver(w, n, g) /\ Total(w) = g[1..n]
  BY <1>1, TotalIsSum
<1>3. n + 1 \in Nat
  BY <1>1
<1>4. PICK h : SumsOver(a, n + 1, h) /\ Total(a) = h[1..(n + 1)]
  BY <1>1, <1>3, TotalIsSum
<1>5. \A k \in 1..n : g[1..k] = g[1..(k - 1)] + w[k]
  BY <1>1, <1>2, SumsStep
<1>6. h[1..0] = 0 /\ \A k \in 1..(n + 1) : h[1..k] = h[1..(k - 1)] + a[k]
  BY <1>3, <1>4, SumsStep
<1> DEFINE T == {k \in Nat : k <= n => h[1..k] = g[1..k]}
<1>7. 0 \in T
  BY <1>1, <1>2, <1>6, SumsStep
<1>8. ASSUME NEW k \in Nat, k \in T
      PROVE  k + 1 \in T
  <2> SUFFICES ASSUME k + 1 <= n PROVE h[1..(k + 1)] = g[1..(k + 1)]
    OBVIOUS
  <2>1. k + 1 \in 1..n /\ k + 1 \in 1..(n + 1) /\ (k + 1) - 1 = k /\ k <= n
    BY <1>1
  <2>2. h[1..k] = g[1..k]
    BY <1>8, <2>1
  <2> HIDE DEF T
  <2> QED
    BY <1>1, <1>5, <1>6, <2>1, <2>2
<1> HIDE DEF T
<1>9. n \in T
  BY <1>1, <1>7, <1>8, Induction
<1>10. h[1..n] = g[1..n]
  BY <1>1, <1>9 DEF T
<1>11. n + 1 \in 1..(n + 1) /\ (n + 1) - 1 = n
  BY <1>1
<1>12. h[1..(n + 1)] = h[1..n] + x
  BY <1>1, <1>6, <1>11
<1> QED
  BY <1>2, <1>4, <1>10, <1>12 DEF a

\* Sums of natural numbers are natural numbers, and a sum may be cut in two.
LEMMA TotalOfConcat ==
    ASSUME NEW u \in Seq(Nat), NEW v \in Seq(Nat)
    PROVE  /\ Total(u) \in Nat /\ Total(v) \in Nat
           /\ Total(u \o v) = Total(u) + Total(v)
<1> DEFINE Typed == {n \in Nat : \A w \in Seq(Nat) : Len(w) = n => Total(w) \in Nat}
<1>1. 0 \in Typed
  BY TotalOfEmpty
<1>2. ASSUME NEW n \in Nat, n \in Typed PROVE n + 1 \in Typed
  <2> SUFFICES ASSUME NEW w \in Seq(Nat), Len(w) = n + 1 PROVE Total(w) \in Nat
    OBVIOUS
  <2> DEFINE f == SubSeq(w, 1, n)
             x == w[n + 1]
  <2>1. f \in Seq(Nat) /\ Len(f) = n /\ x \in Nat /\ w = Append(f, x)
    OBVIOUS
  <2>2. Total(f) \in Nat
    BY <1>2, <2>1
  <2> HIDE DEF f, x
  <2>3. Total(Append(f, x)) = Total(f) + x
    BY <2>1, TotalOfAppend
  <2> QED
    BY <2>1, <2>2, <2>3
<1>3. Nat \subseteq Typed
  <2> HIDE DEF Typed
  <2> QED
    BY <1>1, <1>2, Induction
<1>4. \A w \in Seq(Nat) : Total(w) \in Nat
  BY <1>3
<1> HIDE DEF Typed
<1> DEFINE Cut == {n \in Nat : \A w \in Seq(Nat) : Len(w) = n => Total(u \o w) = Total(u) + Total(w)}
<1>5. 0 \in Cut
  <2> SUFFICES ASSUME NEW w \in Seq(Nat), Len(w) = 0 PROVE Total(u \o w) = Total(u) + Total(w)
    OBVIOUS
  <2>1. u \o w = u /\ Total(w) = 0
    BY TotalOfEmpty
  <2> QED
    BY <1>4, <2>1
<1>6. ASSUME NEW n \in Nat, n \in Cut PROVE n + 1 \in Cut
  <2> SUFFICES ASSUME NEW w \in Seq(Nat), Len(w) = n + 1
               PROVE  Total(u \o w) = Total(u) + Total(w)
    OBVIOUS
  <2> DEFINE f == SubSeq(w, 1, n)
             x == w[n + 1]
  <2>1. f \in Seq(Nat) /\ Len(f) = n /\ x \in Nat /\ w = Append(f, x)
    <3>1. f \in Seq(Nat) /\ Len(f) = n /\ x \in Nat
      OBVIOUS
    <3>2. \A i \in 1..n : f[i] = w[i]
      OBVIOUS
    <3> HIDE DEF f
    <3>3. w = Append(f, x)
      BY <3>1, <3>2
    <3> QED
      BY <3>1, <3>3
  <2>2. Total(u \o f) = Total(u) + Total(f)
    BY <1>6, <2>1
  <2> HIDE DEF f, x
  <2>3. u \o w = Append(u \o f, x) /\ u \o f \in Seq(Nat)
    <3>1. u \o f \in Seq(Nat) /\ <<x>> \in Seq(Nat)
      BY <2>1
    <3>2. w = f \o <<x>> /\ Append(u \o f, x) = (u \o f) \o <<x>>
      BY <2>1, <3>1, AppendIsConcat
    <3>3. (u \o f) \o <<x>> = u \o (f \o <<x>>)
      <4>1. PICK e : e = <<x>>
        OBVIOUS
      <4>2. u \in Seq(Nat) /\ f \in Seq(Nat) /\ e \in Seq(Nat)
        BY <2>1, <3>1, <4>1
      <4>3. (u \o f) \o e = u \o (f \o e)
        BY <4>2, ConcatAssociative, SMTT(30)
      <4> QED
        BY <4>1, <4>3
    <3> HIDE DEF Total
    <3>4. u \o w = u \o (f \o <<x>>)
      BY <3>2, Zenon
    <3>5. u \o w = (u \o f) \o <<x>>
      BY <3>3, <3>4, Zenon
    <3> QED
      BY <3>1, <3>2, <3>5, Zenon
  <2>4. Total(Append(f, x)) = Total(f) + x /\ Total(Append(u \o f, x)) = Total(u \o f) + x
    BY <2>1, <2>3, TotalOfAppend
  <2>5. Total(u) \in Nat /\ Total(f) \in Nat
    BY <1>4, <2>1
  <2> HIDE DEF Cut
  <2> QED
    BY <2>1, <2>2, <2>3, <2>4, <2>5
<1>7. Nat \subseteq Cut
  <2> HIDE DEF Cut
  <2> QED
    BY <1>5, <1>6, Induction
<1>8. \A w \in Seq(Nat) : Total(u \o w) = Total(u) + Total(w)
  BY <1>7
<1> QED
  BY <1>4, <1>8

-----------------------------------------------------------------------------
(* Bytes of sequences of models *)

LEMMA ModelFields ==
    ASSUME NEW m \in SavedModel
    PROVE  m.key \in Keys /\ m.value \in Nat /\ m.age \in Ages /\ m.bytes \in Nat
BY DEF SavedModel

BytesOf(s) == [i \in DOMAIN s |-> s[i].bytes]

LEMMA BytesAt ==
    ASSUME NEW s \in Seq(SavedModel)
    PROVE  Len(BytesOf(s)) = Len(s) /\ \A i \in 1..Len(s) : BytesOf(s)[i] = s[i].bytes
<1>1. BytesOf(s) \in Seq(Nat) /\ DOMAIN s = 1..Len(s) /\ DOMAIN BytesOf(s) = DOMAIN s
  BY ModelFields DEF BytesOf
<1> QED
  BY <1>1 DEF BytesOf

LEMMA BytesTyped ==
    ASSUME NEW s \in Seq(SavedModel)
    PROVE  BytesOf(s) \in Seq(Nat) /\ Sum(s) = Total(BytesOf(s)) /\ Sum(s) \in Nat
<1>1. BytesOf(s) \in Seq(Nat)
  BY ModelFields DEF BytesOf
<1>2. Sum(s) = Total(BytesOf(s))
  BY DEF Sum, Total, BytesOf
<1>3. <<>> \in Seq(Nat)
  OBVIOUS
<1> QED
  BY <1>1, <1>2, <1>3, TotalOfConcat

LEMMA SumOfEmpty == Sum(<<>>) = 0
<1>1. DOMAIN BytesOf(<<>>) = {}
  BY DEF BytesOf
<1> QED
  BY <1>1, TotalOfEmpty DEF Sum, Total, BytesOf

LEMMA SumOfAppend ==
    ASSUME NEW s \in Seq(SavedModel), NEW m \in SavedModel
    PROVE  Sum(Append(s, m)) = Sum(s) + m.bytes
<1>1. BytesOf(Append(s, m)) = Append(BytesOf(s), m.bytes)
  BY ModelFields DEF BytesOf
<1>2. Append(s, m) \in Seq(SavedModel) /\ m.bytes \in Nat
  BY ModelFields
<1> QED
  BY <1>1, <1>2, BytesTyped, TotalOfAppend

LEMMA SumOfConcat ==
    ASSUME NEW s \in Seq(SavedModel), NEW u \in Seq(SavedModel)
    PROVE  Sum(s \o u) = Sum(s) + Sum(u)
<1>1. /\ s \o u \in Seq(SavedModel) /\ Len(s \o u) = Len(s) + Len(u)
      /\ Len(s) \in Nat /\ Len(u) \in Nat
      /\ \A i \in 1..(Len(s) + Len(u)) : (s \o u)[i] = IF i <= Len(s) THEN s[i] ELSE u[i - Len(s)]
  BY ConcatProperties
<1>2. PICK v \in Seq(SavedModel) : v = s \o u
  BY <1>1
<1>3. PICK a, b, c : a = BytesOf(s) /\ b = BytesOf(u) /\ c = BytesOf(v)
  OBVIOUS
<1>4. a \in Seq(Nat) /\ b \in Seq(Nat) /\ c \in Seq(Nat)
  BY <1>3, BytesTyped
<1>5. /\ Len(a) = Len(s) /\ \A i \in 1..Len(s) : a[i] = s[i].bytes
      /\ Len(b) = Len(u) /\ \A i \in 1..Len(u) : b[i] = u[i].bytes
      /\ Len(c) = Len(v) /\ \A i \in 1..Len(v) : c[i] = v[i].bytes
  BY <1>3, BytesAt
<1>6. c = a \o b
  <2>1. /\ a \o b \in Seq(Nat) /\ Len(a \o b) = Len(a) + Len(b)
        /\ \A i \in 1..(Len(a) + Len(b)) : (a \o b)[i] = IF i <= Len(a) THEN a[i] ELSE b[i - Len(a)]
    BY <1>4, ConcatProperties
  <2>2. ASSUME NEW i \in 1..Len(c) PROVE c[i] = (a \o b)[i]
    <3>1. CASE i <= Len(s)
      <4>1. i \in 1..Len(s) /\ i \in 1..(Len(s) + Len(u)) /\ i \in 1..Len(v)
        BY <1>1, <1>2, <1>5, <3>1
      <4>2. v[i] = s[i]
        BY <1>1, <1>2, <3>1, <4>1
      <4>3. (a \o b)[i] = a[i]
        BY <1>5, <2>1, <3>1, <4>1
      <4>4. a[i] = s[i].bytes /\ c[i] = v[i].bytes
        BY <1>5, <4>1
      <4> QED
        BY <4>2, <4>3, <4>4
    <3>2. CASE i > Len(s)
      <4>1. i - Len(s) \in 1..Len(u) /\ i \in 1..(Len(s) + Len(u)) /\ i \in 1..Len(v)
            /\ ~(i <= Len(s))
        BY <1>1, <1>2, <1>5, <3>2
      <4>2. v[i] = u[i - Len(s)]
        BY <1>1, <1>2, <4>1
      <4>3. (a \o b)[i] = b[i - Len(s)]
        BY <1>5, <2>1, <4>1
      <4>4. b[i - Len(s)] = u[i - Len(s)].bytes /\ c[i] = v[i].bytes
        BY <1>5, <4>1
      <4> QED
        BY <4>2, <4>3, <4>4
    <3> QED
      BY <1>1, <1>2, <1>5, <3>1, <3>2
  <2>3. Len(c) = Len(a \o b)
    BY <1>1, <1>2, <1>5, <2>1
  <2> QED
    BY <1>4, <2>1, <2>2, <2>3, SeqEqual
<1>7. Sum(s) = Total(a) /\ Sum(u) = Total(b) /\ Sum(v) = Total(c)
  BY <1>3, BytesTyped
<1> QED
  BY <1>2, <1>4, <1>6, <1>7, TotalOfConcat

-----------------------------------------------------------------------------
(* Parts of the store *)

\* The models of w are models of s, each of them once.
PartOf(w, s) ==
    \E f \in [DOMAIN w -> DOMAIN s] :
        /\ \A i, j \in DOMAIN w : f[i] = f[j] => i = j
        /\ \A i \in DOMAIN w : w[i] = s[f[i]]

LEMMA RemovedIsPart ==
    ASSUME NEW s \in Seq(SavedModel), NEW j \in DOMAIN s
    PROVE  /\ RemoveAt(s, j) \in Seq(SavedModel)
           /\ Len(RemoveAt(s, j)) = Len(s) - 1
           /\ PartOf(RemoveAt(s, j), s)
           /\ \A i \in DOMAIN RemoveAt(s, j) : \E n \in DOMAIN s \ {j} : RemoveAt(s, j)[i] = s[n]
           /\ Sum(s) = Sum(RemoveAt(s, j)) + s[j].bytes
<1> DEFINE w == RemoveAt(s, j)
           front == SubSeq(s, 1, j - 1)
           back == SubSeq(s, j + 1, Len(s))
           f == [i \in DOMAIN w |-> IF i < j THEN i ELSE i + 1]
<1>1. j \in 1..Len(s) /\ Len(s) \in Nat /\ DOMAIN s = 1..Len(s)
  OBVIOUS
<1>2. /\ front \in Seq(SavedModel) /\ back \in Seq(SavedModel)
      /\ Len(front) = j - 1 /\ Len(back) = Len(s) - j
      /\ \A i \in 1..(j - 1) : front[i] = s[i]
      /\ \A i \in 1..(Len(s) - j) : back[i] = s[i + j]
  <2>1. front \in Seq(SavedModel) /\ Len(front) = j - 1
    BY <1>1
  <2>2. back \in Seq(SavedModel) /\ Len(back) = Len(s) - j
    BY <1>1
  <2>3. \A i \in 1..(j - 1) : front[i] = s[i]
    BY <1>1
  <2>4. \A i \in 1..(Len(s) - j) : back[i] = s[i + j]
    BY <1>1
  <2> QED
    BY <2>1, <2>2, <2>3, <2>4
<1>3. w = front \o back
  BY DEF RemoveAt
<1>4. w \in Seq(SavedModel) /\ Len(w) = Len(s) - 1 /\ DOMAIN w = 1..(Len(s) - 1)
  <2> HIDE DEF front, back, w
  <2>1. w \in Seq(SavedModel) /\ Len(w) = Len(front) + Len(back)
    BY <1>2, <1>3, ConcatProperties
  <2> QED
    BY <1>1, <1>2, <2>1
<1>5. ASSUME NEW i \in 1..(Len(s) - 1)
      PROVE  w[i] = s[IF i < j THEN i ELSE i + 1]
  <2> HIDE DEF front, back
  <2>0. /\ i \in 1..(Len(front) + Len(back))
        /\ (front \o back)[i] = IF i <= Len(front) THEN front[i] ELSE back[i - Len(front)]
    BY <1>1, <1>2, ConcatProperties
  <2>1. CASE i < j
    BY <1>1, <1>2, <1>3, <2>0, <2>1
  <2>2. CASE i >= j
    <3>1. w[i] = back[i - (j - 1)]
      BY <1>1, <1>2, <1>3, <2>0, <2>2
    <3>2. i - (j - 1) \in 1..(Len(s) - j) /\ (i - (j - 1)) + j = i + 1
      BY <1>1, <2>2
    <3>3. w[i] = s[i + 1]
      BY <1>2, <3>1, <3>2
    <3> QED
      BY <1>1, <2>2, <3>3
  <2> QED
    BY <1>1, <2>1, <2>2
<1>6. s = Append(front, s[j]) \o back
  <2>1. SubSeq(s, 1, j) = front \o <<s[j]>>
    <3>1. 1 \in 1..Len(s) /\ j \in 1..Len(s)
      BY <1>1
    <3> QED
      BY <3>1, SubSeqRecursiveSecond
  <2>2. SubSeq(s, 1, j) \o back = SubSeq(s, 1, Len(s))
    <3>1. 1 \in 1..(Len(s) + 1) /\ j \in (1 - 1)..Len(s) /\ Len(s) \in j..Len(s)
      BY <1>1
    <3> QED
      BY <3>1, ConcatAdjacentSubSeq
  <2>3. SubSeq(s, 1, Len(s)) = s
    BY SubSeqFull
  <2>4. front \in Seq(SavedModel) /\ s[j] \in SavedModel
    BY <1>2
  <2> HIDE DEF front, back
  <2>5. Append(front, s[j]) = front \o <<s[j]>>
    BY <2>4, AppendIsConcat
  <2> QED
    BY <2>1, <2>2, <2>3, <2>5
<1>7. s[j] \in SavedModel
  OBVIOUS
<1> HIDE DEF w, front, back
<1>8. Sum(s) = Sum(w) + s[j].bytes
  <2>1. Append(front, s[j]) \in Seq(SavedModel)
    BY <1>2, <1>7
  <2>2. Sum(s) = Sum(front) + s[j].bytes + Sum(back)
    BY <1>2, <1>6, <1>7, <2>1, SumOfAppend, SumOfConcat
  <2>3. Sum(w) = Sum(front) + Sum(back)
    BY <1>2, <1>3, SumOfConcat
  <2>4. Sum(front) \in Nat /\ Sum(back) \in Nat /\ s[j].bytes \in Nat
    BY <1>2, <1>7, BytesTyped, ModelFields
  <2> QED
    BY <2>2, <2>3, <2>4
<1>9. PartOf(w, s)
  <2>1. f \in [DOMAIN w -> DOMAIN s]
    BY <1>1, <1>4
  <2>2. \A i, k \in DOMAIN w : f[i] = f[k] => i = k
    BY <1>1, <1>4
  <2>3. \A i \in DOMAIN w : w[i] = s[f[i]]
    BY <1>4, <1>5
  <2> HIDE DEF f
  <2> QED
    BY <2>1, <2>2, <2>3 DEF PartOf
<1>10. \A i \in DOMAIN w : \E n \in DOMAIN s \ {j} : w[i] = s[n]
  <2> TAKE i \in DOMAIN w
  <2>1. (IF i < j THEN i ELSE i + 1) \in DOMAIN s \ {j}
    BY <1>1, <1>4
  <2> QED
    BY <1>4, <1>5, <2>1
<1> QED
  BY <1>4, <1>8, <1>9, <1>10 DEF w

LEMMA TailIsPart ==
    ASSUME NEW s \in Seq(SavedModel), NEW n \in 0..Len(s)
    PROVE  /\ SubSeq(s, n + 1, Len(s)) \in Seq(SavedModel)
           /\ Len(SubSeq(s, n + 1, Len(s))) = Len(s) - n
           /\ PartOf(SubSeq(s, n + 1, Len(s)), s)
           /\ Sum(SubSeq(s, 1, n)) \in Nat
           /\ Sum(SubSeq(s, n + 1, Len(s))) = Sum(s) - Sum(SubSeq(s, 1, n))
<1> DEFINE w == SubSeq(s, n + 1, Len(s))
           front == SubSeq(s, 1, n)
           f == [i \in DOMAIN w |-> i + n]
<1>1. /\ w \in Seq(SavedModel) /\ front \in Seq(SavedModel) /\ s = front \o w
      /\ Len(w) = Len(s) - n /\ DOMAIN w = 1..(Len(s) - n) /\ DOMAIN s = 1..Len(s)
      /\ \A i \in 1..(Len(s) - n) : w[i] = s[i + n]
  <2>1. front \o w = SubSeq(s, 1, Len(s))
    <3>1. 1 \in 1..(Len(s) + 1) /\ n \in (1 - 1)..Len(s) /\ Len(s) \in n..Len(s)
      OBVIOUS
    <3> QED
      BY <3>1, ConcatAdjacentSubSeq
  <2>2. SubSeq(s, 1, Len(s)) = s
    BY SubSeqFull
  <2>3. front \in Seq(SavedModel)
    OBVIOUS
  <2>4. /\ w \in Seq(SavedModel) /\ DOMAIN s = 1..Len(s)
        /\ Len(w) = Len(s) - n /\ DOMAIN w = 1..(Len(s) - n)
        /\ \A i \in 1..(Len(s) - n) : w[i] = s[i + n]
    OBVIOUS
  <2> QED
    BY <2>1, <2>2, <2>3, <2>4
<1>2. f \in [DOMAIN w -> DOMAIN s]
  BY <1>1
<1> HIDE DEF w, front
<1>3. PartOf(w, s)
  <2>1. \A i, k \in DOMAIN w : f[i] = f[k] => i = k
    BY <1>1
  <2>2. \A i \in DOMAIN w : w[i] = s[f[i]]
    BY <1>1
  <2> HIDE DEF f
  <2> QED
    BY <1>2, <2>1, <2>2 DEF PartOf
<1>4. Sum(s) = Sum(front) + Sum(w) /\ Sum(front) \in Nat /\ Sum(w) \in Nat
  BY <1>1, SumOfConcat, BytesTyped
<1>5. Sum(w) = Sum(s) - Sum(front)
  BY <1>4
<1> QED
  BY <1>1, <1>3, <1>4, <1>5 DEF w, front
\* One model per key, none too large, and what it shows is between lo and hi.
Sound(s, lo, hi) ==
    /\ \A i, j \in DOMAIN s : s[i].key = s[j].key => i = j
    /\ \A i \in DOMAIN s : s[i].bytes <= MaxModelBytes
    /\ \A i \in DOMAIN s : lo <= s[i].value /\ s[i].value <= hi

\* A store s of b bytes that is as it should be.
Stored(s, b, lo, hi) ==
    /\ s \in Seq(SavedModel) /\ Sound(s, lo, hi)
    /\ Len(s) <= MaxEntries
    /\ b = Sum(s) /\ b <= MaxBytes

LEMMA PartKeeps ==
    ASSUME NEW s \in Seq(SavedModel), NEW w \in Seq(SavedModel), PartOf(w, s), NEW lo, NEW hi,
           Sound(s, lo, hi)
    PROVE  Sound(w, lo, hi) /\ KeysOf(w) \subseteq KeysOf(s)
<1>1. PICK f \in [DOMAIN w -> DOMAIN s] :
        /\ \A i, j \in DOMAIN w : f[i] = f[j] => i = j
        /\ \A i \in DOMAIN w : w[i] = s[f[i]]
  BY DEF PartOf
<1>2. \A i \in DOMAIN w : f[i] \in DOMAIN s
  BY <1>1
<1>3. ASSUME NEW i \in DOMAIN w, NEW j \in DOMAIN w, w[i].key = w[j].key
      PROVE  i = j
  <2>1. s[f[i]].key = s[f[j]].key
    BY <1>1, <1>3
  <2> QED
    BY <1>1, <1>2, <2>1 DEF Sound
<1>4. \A i \in DOMAIN w : w[i].bytes <= MaxModelBytes /\ lo <= w[i].value /\ w[i].value <= hi
  BY <1>1, <1>2, Zenon DEF Sound
<1>5. KeysOf(w) \subseteq KeysOf(s)
  BY <1>1, <1>2 DEF KeysOf
<1> QED
  BY <1>3, <1>4, <1>5, Zenon DEF Sound

LEMMA NothingStored ==
    ASSUME NEW lo, NEW hi
    PROVE  Stored(<<>>, 0, lo, hi)
BY SumOfEmpty, BoundsAssumption DEF Stored, Sound

LEMMA EntryStored ==
    ASSUME NEW s \in Seq(SavedModel), NEW k \in KeysOf(s)
    PROVE  /\ IndexOf(s, k) \in DOMAIN s /\ s[IndexOf(s, k)].key = k
           /\ EntryOf(s, k) \in SavedModel /\ EntryOf(s, k).key = k
<1>1. \E i \in DOMAIN s : s[i].key = k
  BY DEF KeysOf
<1>2. IndexOf(s, k) \in DOMAIN s /\ s[IndexOf(s, k)].key = k
  BY <1>1, Zenon DEF IndexOf
<1> QED
  BY <1>2 DEF EntryOf

LEMMA WithoutStored ==
    ASSUME NEW s, NEW b, NEW lo, NEW hi, Stored(s, b, lo, hi), NEW k
    PROVE  /\ Stored(Without(s, k), BytesWithout(s, b, k), lo, hi)
           /\ k \notin KeysOf(Without(s, k))
           /\ k \in KeysOf(s) => /\ Len(Without(s, k)) = Len(s) - 1
                                 /\ b = BytesWithout(s, b, k) + EntryOf(s, k).bytes
<1>1. s \in Seq(SavedModel) /\ Sound(s, lo, hi) /\ b = Sum(s)
      /\ Len(s) <= MaxEntries /\ b <= MaxBytes
  BY DEF Stored
<1>2. CASE k \notin KeysOf(s)
  BY <1>2 DEF Without, BytesWithout
<1>3. CASE k \in KeysOf(s)
  <2>1. PICK j \in DOMAIN s : j = IndexOf(s, k)
    BY <1>1, <1>3, EntryStored
  <2>2. PICK w \in Seq(SavedModel) : w = RemoveAt(s, j)
    BY <1>1, RemovedIsPart
  <2>3. s[j].key = k /\ s[j] \in SavedModel /\ EntryOf(s, k) = s[j]
    BY <1>1, <1>3, <2>1, EntryStored DEF EntryOf
  <2>4. /\ Len(w) = Len(s) - 1 /\ PartOf(w, s)
        /\ \A i \in DOMAIN w : \E n \in DOMAIN s \ {j} : w[i] = s[n]
        /\ Sum(s) = Sum(w) + s[j].bytes
    BY <1>1, <2>2, RemovedIsPart
  <2>5. Without(s, k) = w /\ BytesWithout(s, b, k) = b - s[j].bytes
    BY <1>3, <2>1, <2>2, <2>3 DEF Without, BytesWithout
  <2>6. Sound(w, lo, hi)
    BY <1>1, <2>4, PartKeeps
  <2>7. k \notin KeysOf(w)
    <3>1. \A n \in DOMAIN s \ {j} : s[n].key # k
      BY <1>1, <2>3 DEF Sound
    <3> QED
      BY <2>4, <3>1, Zenon DEF KeysOf
  <2>8. Sum(w) \in Nat /\ s[j].bytes \in Nat /\ MaxBytes \in Nat /\ MaxEntries \in Nat
        /\ Len(s) \in Nat
    BY <1>1, <2>3, BytesTyped, ModelFields, BoundsAssumption
  <2>9. /\ b - s[j].bytes = Sum(w) /\ Sum(w) <= MaxBytes /\ Len(w) <= MaxEntries
        /\ b = (b - s[j].bytes) + s[j].bytes
    BY <1>1, <2>4, <2>8
  <2>10. Stored(w, Sum(w), lo, hi)
    BY <2>6, <2>9 DEF Stored
  <2> QED
    BY <2>3, <2>4, <2>5, <2>7, <2>9, <2>10
<1> QED
  BY <1>2, <1>3

\* A model of another key is added at the recent end.
LEMMA AppendedStored ==
    ASSUME NEW s, NEW b, NEW lo, NEW hi, Stored(s, b, lo, hi), NEW m \in SavedModel,
           m.key \notin KeysOf(s), m.bytes <= MaxModelBytes, lo <= m.value, m.value <= hi,
           Len(s) < MaxEntries, b + m.bytes <= MaxBytes
    PROVE  Stored(Append(s, m), b + m.bytes, lo, hi)
<1>1. s \in Seq(SavedModel) /\ Sound(s, lo, hi) /\ b = Sum(s)
  BY DEF Stored
<1>2. PICK w \in Seq(SavedModel) : w = Append(s, m)
  <2>1. Append(s, m) \in Seq(SavedModel)
    BY <1>1
  <2> QED
    BY <2>1
<1>3. /\ Len(w) = Len(s) + 1 /\ DOMAIN w = 1..(Len(s) + 1) /\ DOMAIN s = 1..Len(s)
      /\ w[Len(s) + 1] = m /\ \A i \in DOMAIN s : w[i] = s[i]
      /\ Len(s) \in Nat
  BY <1>1, <1>2
<1>4. \A i \in DOMAIN w : i \in DOMAIN s \/ i = Len(s) + 1
  BY <1>3
<1>5. \A i \in DOMAIN s : s[i].key # m.key
  BY DEF KeysOf
<1>6. Sound(w, lo, hi)
  BY <1>1, <1>3, <1>4, <1>5, Zenon DEF Sound
<1>7. Sum(w) = b + m.bytes
  BY <1>1, <1>2, SumOfAppend
<1>8. Len(w) <= MaxEntries
  BY <1>3, BoundsAssumption
<1> QED
  BY <1>2, <1>6, <1>7, <1>8 DEF Stored

LEMMA TouchedStored ==
    ASSUME NEW s, NEW b, NEW lo, NEW hi, Stored(s, b, lo, hi), NEW k, HasSaved(s, k)
    PROVE  Stored(Touched(s, k), b, lo, hi)
<1>1. s \in Seq(SavedModel) /\ k \in KeysOf(s) /\ Sound(s, lo, hi) /\ b <= MaxBytes
      /\ Len(s) <= MaxEntries /\ Len(s) \in Nat
  BY DEF Stored, HasSaved
<1>2. PICK m : m = EntryOf(s, k)
  OBVIOUS
<1>3. m \in SavedModel /\ m.key = k /\ m.bytes <= MaxModelBytes /\ lo <= m.value /\ m.value <= hi
  BY <1>1, <1>2, EntryStored DEF Sound, EntryOf
<1>4. PICK w, c : w = Without(s, k) /\ c = BytesWithout(s, b, k)
  OBVIOUS
<1>5. Stored(w, c, lo, hi) /\ k \notin KeysOf(w) /\ Len(w) = Len(s) - 1 /\ b = c + m.bytes
  BY <1>1, <1>2, <1>4, WithoutStored
<1>6. Len(w) < MaxEntries
  BY <1>1, <1>5, BoundsAssumption
<1>7. Stored(Append(w, m), c + m.bytes, lo, hi)
  BY <1>1, <1>3, <1>5, <1>6, AppendedStored
<1> QED
  BY <1>2, <1>4, <1>5, <1>7 DEF Touched

\* The models that have to go for a new one: as few as leave room for it.
LEMMA EvictedFits ==
    ASSUME NEW s \in Seq(SavedModel), NEW b, b = Sum(s), NEW new \in Nat, new <= MaxBytes
    PROVE  /\ Evicted(s, b, new) \in 0..Len(s)
           /\ Len(s) - Evicted(s, b, new) < MaxEntries
           /\ b - Sum(SubSeq(s, 1, Evicted(s, b, new))) + new <= MaxBytes
<1> DEFINE Fits(i) == /\ Len(s) - i < MaxEntries
                      /\ b - Sum(SubSeq(s, 1, i)) + new <= MaxBytes
           T == {i \in 0..Len(s) : Fits(i)}
<1>1. Len(s) \in T
  <2>1. SubSeq(s, 1, Len(s)) = s /\ Len(s) \in Nat
    OBVIOUS
  <2>2. Sum(s) \in Nat
    BY BytesTyped
  <2>3. b - Sum(SubSeq(s, 1, Len(s))) + new <= MaxBytes
    <3>1. b - Sum(s) + new = new
      BY <2>2
    <3> QED
      BY <2>1, <3>1, Zenon
  <2>4. Len(s) - Len(s) < MaxEntries
    BY <2>1, BoundsAssumption
  <2> QED
    BY <2>1, <2>3, <2>4
<1>2. T \in SUBSET Nat
  OBVIOUS
<1>3. \E n \in T : \A i \in 0..(n - 1) : i \notin T
  <2> HIDE DEF T
  <2> QED
    BY <1>1, <1>2, LeastElement
<1>4. \E n \in 0..Len(s) : Fits(n) /\ \A i \in 0..(n - 1) : ~Fits(i)
  <2>1. PICK n \in T : \A i \in 0..(n - 1) : i \notin T
    BY <1>3
  <2>2. \A i \in 0..(n - 1) : i \in 0..Len(s)
    BY <2>1
  <2> QED
    BY <2>1, <2>2
<1>5. Evicted(s, b, new) \in 0..Len(s) /\ Fits(Evicted(s, b, new))
  <2> HIDE DEF T
  <2> QED
    BY <1>4, Zenon DEF Evicted
<1> QED
  BY <1>5

\* What remember leaves in the store.
LEMMA RememberedStored ==
    ASSUME NEW s, NEW b, NEW lo, NEW hi, Stored(s, b, lo, hi), NEW k,
           NEW m \in SavedModel, m.key = k, m.bytes <= MaxModelBytes, lo <= m.value, m.value <= hi,
           NEW rest, rest = Without(s, k), NEW left, left = BytesWithout(s, b, k),
           NEW n, n = Evicted(rest, left, m.bytes)
    PROVE  Stored(Append(SubSeq(rest, n + 1, Len(rest)), m),
                  left - Sum(SubSeq(rest, 1, n)) + m.bytes, lo, hi)
<1>1. Stored(rest, left, lo, hi) /\ k \notin KeysOf(rest)
  BY WithoutStored
<1>2. rest \in Seq(SavedModel) /\ left = Sum(rest) /\ Sound(rest, lo, hi) /\ Len(rest) \in Nat
  BY <1>1 DEF Stored
<1>3. m.bytes \in Nat /\ m.bytes <= MaxBytes /\ MaxBytes \in Nat /\ MaxEntries \in Nat
  BY ModelFields, BoundsAssumption
<1>4. /\ n \in 0..Len(rest) /\ Len(rest) - n < MaxEntries
      /\ left - Sum(SubSeq(rest, 1, n)) + m.bytes <= MaxBytes
  BY <1>2, <1>3, EvictedFits
<1>5. PICK w, c : w = SubSeq(rest, n + 1, Len(rest)) /\ c = left - Sum(SubSeq(rest, 1, n))
  OBVIOUS
<1>6. /\ w \in Seq(SavedModel) /\ Len(w) = Len(rest) - n /\ PartOf(w, rest)
      /\ Sum(SubSeq(rest, 1, n)) \in Nat /\ Sum(w) = c
  <2>1. /\ SubSeq(rest, n + 1, Len(rest)) \in Seq(SavedModel)
        /\ Len(SubSeq(rest, n + 1, Len(rest))) = Len(rest) - n
        /\ PartOf(SubSeq(rest, n + 1, Len(rest)), rest)
        /\ Sum(SubSeq(rest, 1, n)) \in Nat
        /\ Sum(SubSeq(rest, n + 1, Len(rest))) = Sum(rest) - Sum(SubSeq(rest, 1, n))
    BY <1>2, <1>4, TailIsPart
  <2> QED
    BY <1>2, <1>5, <2>1
<1>7. Sound(w, lo, hi) /\ KeysOf(w) \subseteq KeysOf(rest)
  BY <1>2, <1>6, PartKeeps
<1>8. c \in Nat /\ c + m.bytes <= MaxBytes /\ c <= MaxBytes /\ Len(w) < MaxEntries
  <2>1. c \in Nat
    BY <1>6, BytesTyped
  <2>2. Len(w) < MaxEntries /\ c + m.bytes <= MaxBytes
    BY <1>4, <1>5, <1>6
  <2> QED
    BY <1>3, <2>1, <2>2
<1>9. Len(w) <= MaxEntries
  BY <1>3, <1>6, <1>8
<1>10. Stored(w, c, lo, hi)
  BY <1>6, <1>7, <1>8, <1>9 DEF Stored
<1>11. Stored(Append(w, m), c + m.bytes, lo, hi)
  BY <1>1, <1>7, <1>8, <1>10, AppendedStored
<1> QED
  BY <1>5, <1>11

LEMMA AgedStored ==
    ASSUME NEW s, NEW b, NEW lo, NEW hi, Stored(s, b, lo, hi), NEW n \in DOMAIN s, NEW a \in Ages
    PROVE  Stored([s EXCEPT ![n].age = a], b, lo, hi)
<1>1. s \in Seq(SavedModel) /\ Sound(s, lo, hi)
  BY DEF Stored
<1>2. PICK m : m = [s[n] EXCEPT !.age = a]
  OBVIOUS
<1>3. m \in SavedModel /\ m.key = s[n].key /\ m.value = s[n].value /\ m.bytes = s[n].bytes
  <2>1. s[n] \in SavedModel
    BY <1>1
  <2> QED
    BY <1>2, <2>1, Zenon DEF SavedModel
<1>4. PICK w : w = [s EXCEPT ![n] = m]
  OBVIOUS
<1>5. /\ w \in Seq(SavedModel) /\ Len(w) = Len(s) /\ DOMAIN w = DOMAIN s
      /\ w[n] = m /\ \A i \in DOMAIN s : i # n => w[i] = s[i]
  BY <1>1, <1>3, <1>4
<1>6. /\ \A i \in DOMAIN s : /\ w[i].key = s[i].key /\ w[i].value = s[i].value
                             /\ w[i].bytes = s[i].bytes
  BY <1>3, <1>5, Zenon
<1>7. Sound(w, lo, hi)
  BY <1>1, <1>5, <1>6, Zenon DEF Sound
<1>8. BytesOf(w) = BytesOf(s)
  BY <1>5, <1>6, Zenon DEF BytesOf
<1>9. Sum(w) = Sum(s)
  BY <1>1, <1>5, <1>8, BytesTyped
<1>10. Stored(w, b, lo, hi)
  BY <1>5, <1>7, <1>9 DEF Stored
<1> QED
  BY <1>2, <1>4, <1>10

-----------------------------------------------------------------------------
(* The invariant *)

Typed ==
    /\ server \in 0..MaxServer /\ settled \in 0..server
    /\ failures \subseteq Keys /\ refreshFailed \in BOOLEAN
    /\ pendingRefreshes \subseteq Readers /\ refreshing \in BOOLEAN
    /\ handed \in [Readers -> 0..MaxServer \cup {None}]
    /\ writes \in [Writers -> {"idle", "sent", "committed", "lost"}]

StoreInv == Stored(models, bytes, settled, server)

NetTyped ==
    /\ pendingReads \in [Modes -> Ids \cup {None}]
    /\ requests \in [Ids -> Request \cup {None}]
    /\ reading \in [Readers -> Reading \cup {Idle}]

\* What travels is no newer than the server, and if it may be saved no older than
\* the last own write that was answered.
AnswersInv ==
    \A i \in Ids : requests[i] # None /\ requests[i].answer # None
        => /\ requests[i].answer.value <= server
           /\ requests[i].current => settled <= requests[i].answer.value

\* An uncached read never waits for an answer that is older than its floor.
FloorsInv ==
    \A r \in Readers : reading[r].kind = "get"
        => /\ reading[r].floor <= settled
           /\ requests[reading[r].req] # None /\ requests[reading[r].req].answer # None
              => reading[r].floor <= requests[reading[r].req].answer.value

NetInv == NetTyped /\ RequestsAreShared /\ AnswersInv /\ FloorsInv

IInv == Typed /\ StoreInv /\ NetInv

-----------------------------------------------------------------------------
(* Records *)

LEMMA RequestFields ==
    ASSUME NEW q \in Request
    PROVE  /\ q # None /\ q.mode \in Modes /\ q.mode[1] \in Keys /\ q.current \in BOOLEAN
           /\ q.answer \in Answers \cup {None}
           /\ q.answer # None => q.answer.value \in Nat /\ q.answer.bytes \in Nat
<1>1. q.mode \in Modes /\ q.current \in BOOLEAN /\ q.answer \in Answers \cup {None}
  BY DEF Request
<1>2. q.mode[1] \in Keys
  BY <1>1 DEF Modes
<1>3. q.answer # None => q.answer.value \in Nat /\ q.answer.bytes \in Nat
  BY <1>1 DEF Answers
<1> QED
  BY <1>1, <1>2, <1>3, NoneAssumption

LEMMA NewRequestFields ==
    ASSUME NEW m \in Modes
    PROVE  /\ NewRequest(m) \in Request /\ NewRequest(m).mode = m
           /\ NewRequest(m).current /\ NewRequest(m).answer = None
BY DEF NewRequest, Request

LEMMA OutdatedFields ==
    ASSUME NEW q \in Request
    PROVE  LET o == [q EXCEPT !.current = FALSE]
           IN  o \in Request /\ o.mode = q.mode /\ ~o.current /\ o.answer = q.answer
BY Zenon DEF Request

LEMMA AnsweredFields ==
    ASSUME NEW q \in Request, NEW a \in Answers
    PROVE  LET o == [q EXCEPT !.answer = a]
           IN  o \in Request /\ o.mode = q.mode /\ o.current = q.current /\ o.answer = a
BY Zenon DEF Request

LEMMA ReadingFields ==
    ASSUME NEW d \in Reading \cup {Idle}
    PROVE  /\ d # Idle => d \in Reading /\ d.kind \in {"read", "get"} /\ d.floor \in Nat /\ d.req \in Ids
           /\ d.kind # "idle" <=> d # Idle
           /\ d.floor \in Nat
BY DEF Reading, Idle

LEMMA IdsAreNumbers == Ids \subseteq Nat /\ None \notin Ids
BY NoneAssumption DEF Ids

-----------------------------------------------------------------------------
(* The store *)

LEMMA TouchStep ==
    ASSUME StoreInv, NEW k, HasSaved(models, k), models' = Touched(models, k),
           UNCHANGED <<bytes, settled, server>>
    PROVE  StoreInv'
<1>1. PICK s, b, lo, hi : s = models /\ b = bytes /\ lo = settled /\ hi = server
  OBVIOUS
<1>2. Stored(s, b, lo, hi) /\ HasSaved(s, k)
  BY <1>1 DEF StoreInv
<1>3. Stored(Touched(s, k), b, lo, hi)
  BY <1>2, TouchedStored
<1> QED
  BY <1>1, <1>3 DEF StoreInv

LEMMA RemoveStep ==
    ASSUME StoreInv, NEW k, RemoveModel(k), UNCHANGED <<settled, server>>
    PROVE  StoreInv' /\ failures' \subseteq failures /\ refreshFailed' \in BOOLEAN
<1>1. PICK s, b, lo, hi : s = models /\ b = bytes /\ lo = settled /\ hi = server
  OBVIOUS
<1>2. Stored(s, b, lo, hi)
  BY <1>1 DEF StoreInv
<1>3. Stored(Without(s, k), BytesWithout(s, b, k), lo, hi)
  BY <1>2, WithoutStored
<1>4. models' = Without(s, k) /\ bytes' = BytesWithout(s, b, k)
  BY <1>1 DEF RemoveModel
<1>5. failures' \subseteq failures /\ refreshFailed' \in BOOLEAN
  BY DEF RemoveModel
<1> QED
  BY <1>1, <1>3, <1>4, <1>5 DEF StoreInv

LEMMA RememberStep ==
    ASSUME StoreInv, NEW k \in Keys, NEW answer \in Answers, Remember(k, answer),
           settled <= answer.value, answer.value <= server, UNCHANGED <<settled, server>>
    PROVE  StoreInv' /\ failures' \subseteq failures /\ refreshFailed' \in BOOLEAN
<1>1. CASE answer.bytes > MaxModelBytes
  BY <1>1, RemoveStep DEF Remember
<1>2. CASE ~(answer.bytes > MaxModelBytes)
  <2>1. PICK s, b, lo, hi : s = models /\ b = bytes /\ lo = settled /\ hi = server
    OBVIOUS
  <2>2. PICK rest, left : rest = Without(s, k) /\ left = BytesWithout(s, b, k)
    OBVIOUS
  <2>3. PICK n : n = Evicted(rest, left, answer.bytes)
    OBVIOUS
  <2>4. PICK m : m = [key |-> k, value |-> answer.value, age |-> "new", bytes |-> answer.bytes]
    OBVIOUS
  <2>5. answer.value \in Nat /\ answer.bytes \in Nat
    BY DEF Answers
  <2>6. m \in SavedModel /\ m.key = k /\ m.value = answer.value /\ m.bytes = answer.bytes
    BY <2>4, <2>5 DEF SavedModel, Ages
  <2>7. m.bytes <= MaxModelBytes
    BY <1>2, <2>5, <2>6, BoundsAssumption
  <2>8. Stored(Append(SubSeq(rest, n + 1, Len(rest)), m),
               left - Sum(SubSeq(rest, 1, n)) + m.bytes, lo, hi)
    <3>1. Stored(s, b, lo, hi) /\ lo <= m.value /\ m.value <= hi
      BY <2>1, <2>6 DEF StoreInv
    <3>2. n = Evicted(rest, left, m.bytes)
      BY <2>3, <2>6
    <3> QED
      BY <2>2, <2>6, <2>7, <3>1, <3>2, RememberedStored
  <2>9. /\ models' = Append(SubSeq(rest, n + 1, Len(rest)), m)
        /\ bytes' = left - Sum(SubSeq(rest, 1, n)) + answer.bytes
        /\ failures' \subseteq failures /\ refreshFailed' \in BOOLEAN
    BY <1>2, <2>1, <2>2, <2>3, <2>4 DEF Remember
  <2> QED
    BY <2>1, <2>6, <2>8, <2>9 DEF StoreInv
<1> QED
  BY <1>1, <1>2

LEMMA InvalidateStep ==
    ASSUME Invalidate
    PROVE  StoreInv' /\ failures' = {} /\ refreshFailed' = FALSE
<1>1. PICK lo, hi : lo = settled' /\ hi = server'
  OBVIOUS
<1>2. Stored(<<>>, 0, lo, hi)
  BY NothingStored
<1>3. models' = <<>> /\ bytes' = 0 /\ failures' = {} /\ refreshFailed' = FALSE
  BY DEF Invalidate
<1> QED
  BY <1>1, <1>2, <1>3 DEF StoreInv

\* The server goes on.
LEMMA GrowStep ==
    ASSUME Typed, StoreInv, server' \in Nat, server <= server', UNCHANGED <<settled, models, bytes>>
    PROVE  StoreInv'
<1>1. models \in Seq(SavedModel)
  BY DEF StoreInv, Stored
<1>2. ASSUME NEW i \in DOMAIN models
      PROVE  settled <= models[i].value /\ models[i].value <= server'
  <2>1. models[i].value \in Nat
    BY <1>1, ModelFields
  <2>2. settled <= models[i].value /\ models[i].value <= server
    BY DEF StoreInv, Stored, Sound
  <2>3. server \in Nat
    BY DEF Typed
  <2> QED
    BY <2>1, <2>2, <2>3
<1>3. Sound(models, settled, server')
  BY <1>2, Zenon DEF Sound, StoreInv, Stored
<1>4. Stored(models, bytes, settled, server')
  BY <1>3, Zenon DEF StoreInv, Stored
<1> QED
  BY <1>4 DEF StoreInv

LEMMA AgeStep ==
    ASSUME StoreInv, NEW n, Age(n)
    PROVE  StoreInv'
<1>1. PICK s, b, lo, hi : s = models /\ b = bytes /\ lo = settled /\ hi = server
  OBVIOUS
<1>2. PICK a : a = IF s[n].age = "new" THEN "mid" ELSE "old"
  OBVIOUS
<1>3. a \in Ages /\ n \in DOMAIN s
  BY <1>1, <1>2 DEF Age, Ages
<1>4. Stored(s, b, lo, hi)
  BY <1>1 DEF StoreInv
<1>5. models' = [s EXCEPT ![n].age = a] /\ UNCHANGED <<bytes, settled, server>>
  BY <1>1, <1>2 DEF Age
<1>6. Stored([s EXCEPT ![n].age = a], b, lo, hi)
  BY <1>3, <1>4, AgedStored
<1> QED
  BY <1>1, <1>5, <1>6 DEF StoreInv

\* What a model in the store shows.
LEMMA SavedValue ==
    ASSUME Typed, StoreInv, NEW k, k \in KeysOf(models)
    PROVE  /\ EntryOf(models, k).value \in 0..MaxServer
           /\ EntryOf(models, k).value \in settled..server
<1>1. models \in Seq(SavedModel)
  BY DEF StoreInv, Stored
<1>2. PICK s : s = models
  OBVIOUS
<1>3. IndexOf(s, k) \in DOMAIN s /\ s[IndexOf(s, k)] \in SavedModel
  BY <1>1, <1>2, EntryStored DEF EntryOf
<1>4. PICK n : n = IndexOf(s, k)
  OBVIOUS
<1>5. EntryOf(models, k) = models[n] /\ n \in DOMAIN models /\ models[n].value \in Nat
  BY <1>2, <1>3, <1>4, ModelFields DEF EntryOf
<1>6. settled <= models[n].value /\ models[n].value <= server
  BY <1>5 DEF StoreInv, Stored, Sound
<1>7. server \in 0..MaxServer /\ settled \in Nat /\ MaxServer \in Nat
  BY BoundsAssumption DEF Typed
<1> QED
  BY <1>5, <1>6, <1>7

-----------------------------------------------------------------------------
(* Requests and subscriptions *)

\* Every request has a reader of its own, so that an idle reader finds an id.
LEMMA FreeIdExists ==
    ASSUME NetInv, NEW r \in Readers, reading[r] = Idle
    PROVE  FreeId \in Ids /\ requests[FreeId] = None
<1>1. ASSUME \A i \in Ids : requests[i] # None PROVE FALSE
  <2> DEFINE T == Readers \ {r}
             Waits(q, i) == reading[q] # Idle /\ reading[q].req = i
             f == [i \in Ids |-> CHOOSE q \in T : Waits(q, i)]
  <2>1. \A i \in Ids : \E q \in T : Waits(q, i)
    BY <1>1 DEF NetInv, RequestsAreShared, Subscribers
  <2>2. \A i \in Ids : f[i] \in T /\ Waits(f[i], i)
    BY <2>1
  <2>3. f \in [Ids -> T]
    BY <2>2
  <2>4. IsFiniteSet(T) /\ Cardinality(T) = Cardinality(Readers) - 1 /\ Cardinality(Readers) \in Nat
    BY ReadersAssumption, FS_RemoveElement, FS_CardinalityType
  <2>5. IsFiniteSet(Ids) /\ Cardinality(Ids) = Cardinality(Readers)
    <3>1. PICK n \in Nat : n = Cardinality(Readers)
      BY <2>4
    <3>2. IsFiniteSet(1..n) /\ Cardinality(1..n) = n
      BY <3>1, FS_Interval
    <3> QED
      BY <3>1, <3>2 DEF Ids
  <2>6. Cardinality(T) < Cardinality(Ids)
    BY <2>4, <2>5
  <2> HIDE DEF f, T
  <2>7. PICK x, y \in Ids : x # y /\ f[x] = f[y]
    BY <2>3, <2>4, <2>5, <2>6, FS_PigeonHole
  <2>8. reading[f[x]].req = x /\ reading[f[y]].req = y
    BY <2>2
  <2> QED
    BY <2>7, <2>8
<1>2. \E i \in Ids : requests[i] = None
  BY <1>1
<1> QED
  BY <1>2, Zenon DEF FreeId

\* What Network does to the requests: j is shared or new.
LEMMA NetworkStep ==
    ASSUME NetInv, NEW r \in Readers, reading[r] = Idle, NEW m \in Modes, Network(m),
           NEW j, j = RequestFor(m)
    PROVE  /\ j \in Ids
           /\ pendingReads' = [pendingReads EXCEPT ![m] = j]
           /\ \/ /\ pendingReads[m] = j /\ requests' = requests
                 /\ requests[j] # None /\ requests[j].current /\ requests[j].mode = m
              \/ /\ pendingReads[m] = None /\ requests[j] = None
                 /\ requests' = [requests EXCEPT ![j] = NewRequest(m)]
<1>1. pendingReads[m] \in Ids \cup {None}
  BY DEF NetInv, NetTyped
<1>2. CASE pendingReads[m] # None
  <2>1. j = pendingReads[m] /\ j \in Ids
    BY <1>1, <1>2 DEF RequestFor
  <2>2. requests[j] # None /\ requests[j].current /\ requests[j].mode = m
    BY <2>1 DEF NetInv, RequestsAreShared
  <2> QED
    BY <2>1, <2>2 DEF Network
<1>3. CASE pendingReads[m] = None
  <2>1. j = FreeId /\ j \in Ids /\ requests[j] = None
    BY <1>3, FreeIdExists DEF RequestFor
  <2> QED
    BY <1>3, <2>1 DEF Network
<1> QED
  BY <1>2, <1>3

\* A page subscribes.
LEMMA JoinStep ==
    ASSUME Typed, NetInv, NEW r \in Readers, reading[r] = Idle, NEW m \in Modes, Network(m),
           NEW d \in Reading, d.req = RequestFor(m), d.kind = "get" => d.floor = settled,
           reading' = [reading EXCEPT ![r] = d], UNCHANGED <<server, settled>>
    PROVE  NetInv'
<1>1. PICK j : j = RequestFor(m)
  OBVIOUS
<1>2. /\ j \in Ids /\ j \in Nat /\ j # None
      /\ pendingReads' = [pendingReads EXCEPT ![m] = j]
      /\ \/ /\ pendingReads[m] = j /\ requests' = requests
            /\ requests[j] # None /\ requests[j].current /\ requests[j].mode = m
         \/ /\ pendingReads[m] = None /\ requests[j] = None
            /\ requests' = [requests EXCEPT ![j] = NewRequest(m)]
  BY <1>1, NetworkStep, IdsAreNumbers
<1>3. NetTyped /\ RequestsAreShared /\ AnswersInv /\ FloorsInv
  BY DEF NetInv
<1>4. NewRequest(m) \in Request /\ NewRequest(m).mode = m
      /\ NewRequest(m).current /\ NewRequest(m).answer = None /\ NewRequest(m) # None
  BY NewRequestFields, RequestFields
<1>5. /\ \A i \in Ids : i # j => requests'[i] = requests[i]
      /\ requests'[j] = requests[j] \/ (requests[j] = None /\ requests'[j] = NewRequest(m))
      /\ requests'[j] # None /\ requests'[j].current /\ requests'[j].mode = m
  BY <1>2, <1>3, <1>4 DEF NetTyped
<1>6. /\ \A q \in Readers : q # r => reading'[q] = reading[q]
      /\ reading'[r] = d /\ d # Idle /\ d.req = j
  BY <1>1, <1>3, ReadingFields DEF NetTyped, Idle, Reading
<1>7. NetTyped'
  BY <1>2, <1>3, <1>4 DEF NetTyped
<1>8. RequestsAreShared'
  <2>1. ASSUME NEW i \in Ids, requests'[i] # None
        PROVE  \E q \in Readers : reading'[q] # Idle /\ reading'[q].req = i
    <3>1. CASE i = j
      BY <1>6, <3>1
    <3>2. CASE i # j
      <4>1. PICK q \in Readers : reading[q] # Idle /\ reading[q].req = i
        BY <1>3, <1>5, <2>1, <3>2 DEF RequestsAreShared, Subscribers
      <4> QED
        BY <1>6, <4>1
    <3> QED
      BY <3>1, <3>2
  <2>2. ASSUME NEW i \in Ids, NEW n \in Modes
        PROVE  pendingReads'[n] = i
               <=> requests'[i] # None /\ requests'[i].current /\ requests'[i].mode = n
    <3>1. pendingReads[n] = i <=> requests[i] # None /\ requests[i].current /\ requests[i].mode = n
      BY <1>3 DEF RequestsAreShared
    <3>2. pendingReads'[n] = IF n = m THEN j ELSE pendingReads[n]
      BY <1>2, <1>3 DEF NetTyped
    <3>3. CASE i = j
      BY <1>2, <1>5, <3>1, <3>2, <3>3
    <3>4. CASE i # j
      BY <1>2, <1>5, <3>1, <3>2, <3>4, IdsAreNumbers
    <3> QED
      BY <3>3, <3>4
  <2> QED
    BY <2>1, <2>2 DEF RequestsAreShared, Subscribers
<1>9. AnswersInv'
  BY <1>3, <1>4, <1>5 DEF AnswersInv
<1>10. FloorsInv'
  <2> SUFFICES ASSUME NEW q \in Readers, reading'[q].kind = "get"
               PROVE  /\ reading'[q].floor <= settled
                      /\ requests'[reading'[q].req] # None /\ requests'[reading'[q].req].answer # None
                         => reading'[q].floor <= requests'[reading'[q].req].answer.value
    BY DEF FloorsInv
  <2>1. settled \in Nat
    BY DEF Typed
  <2>2. CASE q = r
    <3>1. requests'[j].answer # None => settled <= requests'[j].answer.value
      BY <1>2, <1>3, <1>4, <1>5 DEF AnswersInv
    <3> QED
      BY <1>6, <2>1, <2>2, <3>1
  <2>3. CASE q # r
    <3>1. reading'[q] = reading[q] /\ reading[q].req \in Ids
      BY <1>3, <1>6, <2>3, ReadingFields DEF NetTyped
    <3> QED
      BY <1>3, <1>4, <1>5, <3>1 DEF FloorsInv
  <2> QED
    BY <2>2, <2>3
<1> QED
  BY <1>7, <1>8, <1>9, <1>10 DEF NetInv

\* A request ends and its subscriptions with it.
LEMMA EndStep ==
    ASSUME NetInv, NEW i \in Ids,
           requests' = [requests EXCEPT ![i] = None], pendingReads' = Dropped(i),
           reading' = [r \in Readers |-> IF r \in Subscribers(i) THEN Idle ELSE reading[r]],
           UNCHANGED <<server, settled>>
    PROVE  NetInv'
<1>1. NetTyped /\ RequestsAreShared /\ AnswersInv /\ FloorsInv
  BY DEF NetInv
<1>2. requests'[i] = None /\ \A j \in Ids : j # i => requests'[j] = requests[j]
  BY <1>1 DEF NetTyped
<1>3. \A r \in Readers : reading'[r] = Idle \/ reading'[r] = reading[r]
  OBVIOUS
<1>4. \A r \in Readers : reading[r].req # i => reading'[r] = reading[r]
  BY DEF Subscribers
<1>5. \A m \in Modes : pendingReads'[m] = IF pendingReads[m] = i THEN None ELSE pendingReads[m]
  BY DEF Dropped
<1>6. NetTyped'
  BY <1>1, <1>5 DEF NetTyped, Dropped
<1>7. RequestsAreShared'
  <2>1. ASSUME NEW j \in Ids, requests'[j] # None
        PROVE  \E r \in Readers : reading'[r] # Idle /\ reading'[r].req = j
    <3>1. j # i /\ requests[j] # None
      BY <1>2, <2>1
    <3>2. PICK r \in Readers : reading[r] # Idle /\ reading[r].req = j
      BY <1>1, <3>1 DEF RequestsAreShared, Subscribers
    <3> QED
      BY <1>4, <3>1, <3>2
  <2>2. ASSUME NEW j \in Ids, NEW m \in Modes
        PROVE  pendingReads'[m] = j
               <=> requests'[j] # None /\ requests'[j].current /\ requests'[j].mode = m
    <3>1. pendingReads[m] = j <=> requests[j] # None /\ requests[j].current /\ requests[j].mode = m
      BY <1>1 DEF RequestsAreShared
    <3>2. j # None
      BY IdsAreNumbers
    <3> QED
      BY <1>2, <1>5, <3>1, <3>2
  <2> QED
    BY <2>1, <2>2 DEF RequestsAreShared, Subscribers
<1>8. AnswersInv'
  BY <1>1, <1>2 DEF AnswersInv
<1>9. FloorsInv'
  <2> SUFFICES ASSUME NEW r \in Readers, reading'[r].kind = "get"
               PROVE  /\ reading'[r].floor <= settled
                      /\ requests'[reading'[r].req] # None /\ requests'[reading'[r].req].answer # None
                         => reading'[r].floor <= requests'[reading'[r].req].answer.value
    BY DEF FloorsInv
  <2>1. reading'[r] = reading[r]
    BY <1>3 DEF Idle
  <2>2. reading[r].req \in Ids
    BY <1>1, <2>1, ReadingFields DEF NetTyped
  <2> QED
    BY <1>1, <1>2, <2>1, <2>2 DEF FloorsInv
<1> QED
  BY <1>6, <1>7, <1>8, <1>9 DEF NetInv

\* Everything under way is cut off from the store and from sharing; the requests that
\* are kept still have a reader.
LEMMA CutStep ==
    ASSUME Typed, NetInv, NEW kept, pendingReads' = [m \in Modes |-> None],
           requests' = [i \in Ids |-> IF i \in kept THEN Outdated(requests)[i] ELSE None],
           reading' \in [Readers -> Reading \cup {Idle}],
           \A r \in Readers : reading'[r] = Idle \/ reading'[r] = reading[r],
           \A i \in Ids : i \in kept /\ requests[i] # None
              => \E r \in Readers : reading'[r] # Idle /\ reading'[r].req = i,
           settled' \in Nat, settled <= settled', server' \in Nat, server <= server'
    PROVE  NetInv'
<1>1. NetTyped /\ RequestsAreShared /\ AnswersInv /\ FloorsInv
  BY DEF NetInv
<1>2. ASSUME NEW i \in Ids
      PROVE  \/ requests'[i] = None
             \/ /\ requests[i] \in Request /\ i \in kept
                /\ requests'[i] \in Request /\ ~requests'[i].current
                /\ requests'[i].answer = requests[i].answer
  <2>1. requests'[i] = IF i \in kept THEN Outdated(requests)[i] ELSE None
    OBVIOUS
  <2>2. requests[i] \in Request \cup {None}
    BY <1>1 DEF NetTyped
  <2>3. CASE requests[i] \in Request
    <3>1. requests[i] # None
      BY <2>3, RequestFields
    <3>2. PICK q \in Request : q = requests[i]
      BY <2>3
    <3>3. PICK o : o = [q EXCEPT !.current = FALSE]
      OBVIOUS
    <3>4. o \in Request /\ ~o.current /\ o.answer = q.answer
      BY <3>3, OutdatedFields
    <3>5. Outdated(requests)[i] = o
      BY <3>1, <3>2, <3>3 DEF Outdated
    <3> QED
      BY <2>1, <2>3, <3>2, <3>4, <3>5
  <2>4. CASE requests[i] = None
    BY <2>1, <2>4 DEF Outdated
  <2> QED
    BY <2>2, <2>3, <2>4
<1>3. NetTyped'
  BY <1>2 DEF NetTyped
<1>4. RequestsAreShared'
  <2>1. ASSUME NEW i \in Ids, requests'[i] # None
        PROVE  \E r \in Readers : reading'[r] # Idle /\ reading'[r].req = i
    <3>1. i \in kept /\ requests[i] # None
      BY <1>2, <2>1, RequestFields
    <3> QED
      BY <3>1
  <2>2. ASSUME NEW i \in Ids, NEW m \in Modes
        PROVE  pendingReads'[m] # i /\ (requests'[i] # None => ~requests'[i].current)
    BY <1>2, IdsAreNumbers
  <2> QED
    BY <2>1, <2>2 DEF RequestsAreShared, Subscribers
<1>5. ASSUME NEW i \in Ids, requests'[i] # None, requests'[i].answer # None
      PROVE  /\ requests'[i].answer = requests[i].answer /\ requests[i] # None
             /\ requests[i].answer # None
             /\ requests[i].answer.value \in Nat /\ requests[i].answer.value <= server
             /\ ~requests'[i].current
  <2>1. requests[i] \in Request /\ requests'[i].answer = requests[i].answer /\ ~requests'[i].current
    BY <1>2, <1>5
  <2>2. requests[i] # None /\ requests[i].answer.value \in Nat
    BY <1>5, <2>1, RequestFields
  <2> QED
    BY <1>1, <1>5, <2>1, <2>2 DEF AnswersInv
<1>6. server \in Nat /\ settled \in Nat
  BY DEF Typed
<1>7. AnswersInv'
  BY <1>5, <1>6 DEF AnswersInv
<1>8. FloorsInv'
  <2> SUFFICES ASSUME NEW r \in Readers, reading'[r].kind = "get"
               PROVE  /\ reading'[r].floor <= settled'
                      /\ requests'[reading'[r].req] # None /\ requests'[reading'[r].req].answer # None
                         => reading'[r].floor <= requests'[reading'[r].req].answer.value
    BY DEF FloorsInv
  <2>1. reading'[r] = reading[r]
    BY DEF Idle
  <2>2. reading[r].req \in Ids /\ reading[r].floor \in Nat
    BY <1>1, <2>1, ReadingFields DEF NetTyped
  <2>3. reading[r].floor <= settled'
    BY <1>1, <1>6, <2>1, <2>2 DEF FloorsInv
  <2>4. ASSUME requests'[reading[r].req] # None, requests'[reading[r].req].answer # None
        PROVE  reading[r].floor <= requests'[reading[r].req].answer.value
    <3>1. PICK i \in Ids : i = reading[r].req
      BY <2>2
    <3>2. /\ requests'[i].answer = requests[i].answer /\ requests[i] # None
          /\ requests[i].answer # None
      BY <1>5, <2>4, <3>1
    <3> QED
      BY <1>1, <2>1, <3>1, <3>2 DEF FloorsInv
  <2> QED
    BY <2>1, <2>3, <2>4
<1> QED
  BY <1>3, <1>4, <1>7, <1>8 DEF NetInv

\* Nothing happens to requests.
LEMMA RestStep ==
    ASSUME Typed, NetInv, UNCHANGED <<net, reading, settled>>, server' \in Nat, server <= server'
    PROVE  NetInv'
<1>1. NetTyped /\ RequestsAreShared /\ AnswersInv /\ FloorsInv
  BY DEF NetInv
<1>2. requests' = requests /\ pendingReads' = pendingReads /\ reading' = reading /\ settled' = settled
  BY DEF net
<1>3. server \in Nat
  BY DEF Typed
<1>4. ASSUME NEW i \in Ids, requests[i] # None, requests[i].answer # None
      PROVE  requests[i].answer.value \in Nat
  BY <1>1, <1>4, RequestFields DEF NetTyped
<1>5. AnswersInv'
  BY <1>1, <1>2, <1>3, <1>4 DEF AnswersInv
<1>6. NetTyped' /\ RequestsAreShared' /\ FloorsInv'
  BY <1>1, <1>2 DEF NetTyped, RequestsAreShared, FloorsInv, Subscribers
<1> QED
  BY <1>5, <1>6 DEF NetInv

\* The server computes an answer.
LEMMA AnswerStep ==
    ASSUME Typed, NetInv, NEW i \in Ids, Answer(i)
    PROVE  NetInv'
<1>1. NetTyped /\ RequestsAreShared /\ AnswersInv /\ FloorsInv
  BY DEF NetInv
<1>2. requests[i] \in Request /\ requests[i] # None /\ requests[i].answer = None
  BY <1>1 DEF Answer, NetTyped
<1>3. PICK q \in Request : q = requests[i]
  BY <1>2
<1>4. PICK b \in Sizes[q.mode[1]] :
        requests' = [requests EXCEPT ![i].answer = [value |-> server, bytes |-> b]]
  BY <1>3 DEF Answer
<1>5. server \in Nat /\ settled \in Nat /\ settled <= server
  BY DEF Typed
<1>6. b \in Nat
  BY <1>3, <1>4, RequestFields, SizesAssumption
<1>7. PICK a : a = [value |-> server, bytes |-> b]
  OBVIOUS
<1>8. a \in Answers /\ a.value = server
  BY <1>5, <1>6, <1>7 DEF Answers
<1>9. PICK o : o = [q EXCEPT !.answer = a]
  OBVIOUS
<1>10. o \in Request /\ o # None /\ o.mode = q.mode /\ o.current = q.current /\ o.answer = a
  BY <1>8, <1>9, AnsweredFields, RequestFields
<1>11. requests' = [requests EXCEPT ![i] = o]
  BY <1>3, <1>4, <1>7, <1>9
<1>12. /\ requests'[i] = o /\ \A j \in Ids : j # i => requests'[j] = requests[j]
       /\ UNCHANGED <<server, settled, pendingReads, reading>>
  BY <1>1, <1>11 DEF NetTyped, Answer
<1>13. NetTyped'
  BY <1>1, <1>10, <1>11, <1>12 DEF NetTyped
<1>14. RequestsAreShared'
  <2>1. ASSUME NEW j \in Ids
        PROVE  /\ requests'[j] # None <=> requests[j] # None
               /\ requests[j] # None => /\ requests'[j].current = requests[j].current
                                        /\ requests'[j].mode = requests[j].mode
    BY <1>2, <1>3, <1>10, <1>12
  <2>2. ASSUME NEW j \in Ids, NEW m \in Modes
        PROVE  pendingReads'[m] = j
               <=> requests'[j] # None /\ requests'[j].current /\ requests'[j].mode = m
    BY <1>1, <1>12, <2>1 DEF RequestsAreShared
  <2>3. ASSUME NEW j \in Ids, requests'[j] # None PROVE Subscribers(j)' # {}
    BY <1>1, <1>12, <2>1, <2>3 DEF RequestsAreShared, Subscribers
  <2> QED
    BY <2>2, <2>3 DEF RequestsAreShared
<1>15. AnswersInv'
  BY <1>1, <1>5, <1>8, <1>10, <1>12 DEF AnswersInv
<1>16. FloorsInv'
  <2> SUFFICES ASSUME NEW r \in Readers, reading[r].kind = "get"
               PROVE  /\ reading[r].floor <= settled
                      /\ requests'[reading[r].req] # None /\ requests'[reading[r].req].answer # None
                         => reading[r].floor <= requests'[reading[r].req].answer.value
    BY <1>12 DEF FloorsInv
  <2>1. reading[r].req \in Ids /\ reading[r].floor \in Nat
    BY <1>1, ReadingFields DEF NetTyped
  <2>2. reading[r].floor <= settled
    BY <1>1 DEF FloorsInv
  <2>3. CASE reading[r].req = i
    BY <1>5, <1>8, <1>10, <1>12, <2>1, <2>2, <2>3
  <2>4. CASE reading[r].req # i
    BY <1>1, <1>12, <2>1, <2>4 DEF FloorsInv
  <2> QED
    BY <2>3, <2>4
<1> QED
  BY <1>13, <1>14, <1>15, <1>16 DEF NetInv

\* A page leaves a request that others wait for as well.
LEMMA LeaveShared ==
    ASSUME NetInv, NEW r \in Readers, reading[r] # Idle, Subscribers(reading[r].req) # {r},
           reading' = [reading EXCEPT ![r] = Idle], UNCHANGED <<net, server, settled>>
    PROVE  NetInv'
<1>1. NetTyped /\ RequestsAreShared /\ AnswersInv /\ FloorsInv
  BY DEF NetInv
<1>2. /\ reading'[r] = Idle /\ \A q \in Readers : q # r => reading'[q] = reading[q]
      /\ requests' = requests /\ pendingReads' = pendingReads
      /\ server' = server /\ settled' = settled
  BY <1>1 DEF NetTyped, net
<1>3. NetTyped'
  BY <1>1, <1>2 DEF NetTyped
<1>4. RequestsAreShared'
  <2>1. ASSUME NEW i \in Ids, requests[i] # None
        PROVE  \E q \in Readers : reading'[q] # Idle /\ reading'[q].req = i
    <3>1. PICK q \in Subscribers(i) : TRUE
      BY <1>1, <2>1 DEF RequestsAreShared
    <3>2. q \in Readers /\ reading[q] # Idle /\ reading[q].req = i
      BY <3>1 DEF Subscribers
    <3>3. CASE q # r
      BY <1>2, <3>2, <3>3
    <3>4. CASE q = r
      <4>1. Subscribers(i) # {r}
        BY <3>2, <3>4
      <4>2. PICK p \in Subscribers(i) : p # r
        BY <3>1, <4>1
      <4>3. p \in Readers /\ reading[p] # Idle /\ reading[p].req = i
        BY <4>2 DEF Subscribers
      <4> QED
        BY <1>2, <4>2, <4>3
    <3> QED
      BY <3>3, <3>4
  <2> QED
    BY <1>1, <1>2, <2>1 DEF RequestsAreShared, Subscribers
<1>5. FloorsInv'
  <2>1. \A q \in Readers : reading'[q].kind = "get" => reading'[q] = reading[q]
    BY <1>2 DEF Idle
  <2> QED
    BY <1>1, <1>2, <2>1 DEF FloorsInv
<1>6. AnswersInv'
  BY <1>1, <1>2 DEF AnswersInv
<1> QED
  BY <1>3, <1>4, <1>5, <1>6 DEF NetInv

\* Display reads whose answer came too late start over, with the request on offer or
\* with a new one.
Restarts(i, m, reads, next) ==
    /\ requests[i] # None /\ ~requests[i].current
    /\ reads = {r \in Subscribers(i) : reading[r].kind = "read"} /\ reads # {}
    /\ next = IF pendingReads[m] # None THEN pendingReads[m] ELSE i
    /\ reading' = [r \in Readers |->
                     IF r \in Subscribers(i) \ reads THEN Idle
                     ELSE IF r \in reads THEN [reading[r] EXCEPT !.req = next]
                     ELSE reading[r]]
    /\ requests' = IF next = i THEN [requests EXCEPT ![i] = Renewed(m)]
                   ELSE [requests EXCEPT ![i] = None]
    /\ pendingReads' = [pendingReads EXCEPT ![m] = next]
    /\ server' = server /\ settled' = settled

LEMMA RestartStep ==
    ASSUME NetInv, NEW i \in Ids, NEW m \in Modes, NEW reads, NEW next,
           Restarts(i, m, reads, next)
    PROVE  NetInv'
<1> USE DEF Restarts
<1>1. NetTyped /\ RequestsAreShared /\ AnswersInv /\ FloorsInv
  BY DEF NetInv
<1>2. \A n \in Modes : pendingReads[n] # i
  BY <1>1 DEF RequestsAreShared
<1>3. next \in Ids /\ next # None /\ i # None
  BY <1>1, IdsAreNumbers DEF NetTyped
<1>4. /\ Renewed(m) \in Request /\ Renewed(m).mode = m /\ Renewed(m).current
      /\ Renewed(m).answer = None /\ Renewed(m) # None
  BY NewRequestFields, RequestFields DEF Renewed
<1>5. /\ \A j \in Ids : j # i => requests'[j] = requests[j]
      /\ next = i => requests'[i] = Renewed(m)
      /\ next # i => requests'[i] = None
  BY <1>1 DEF NetTyped
<1>6. next # i => requests[next] # None /\ requests[next].current /\ requests[next].mode = m
  BY <1>1, <1>3 DEF RequestsAreShared
<1>7. ASSUME NEW r \in Readers
      PROVE  \/ r \in Subscribers(i) \ reads /\ reading'[r] = Idle
             \/ /\ r \in reads /\ reading'[r] \in Reading /\ reading'[r].kind = "read"
                /\ reading'[r].req = next
             \/ r \notin Subscribers(i) /\ reading'[r] = reading[r]
  <2>1. CASE r \in reads
    <3>1. reading[r] \in Reading /\ reading[r].kind = "read"
      BY <1>1, <2>1 DEF NetTyped, Subscribers
    <3>2. PICK d \in Reading : d = reading[r]
      BY <3>1
    <3>3. PICK e : e = [d EXCEPT !.req = next]
      OBVIOUS
    <3>4. e \in Reading /\ e.kind = d.kind /\ e.req = next
      BY <1>3, <3>3, Zenon DEF Reading
    <3>5. reading'[r] = e
      BY <2>1, <3>2, <3>3
    <3> QED
      BY <2>1, <3>1, <3>2, <3>4, <3>5
  <2>2. CASE r \notin reads
    BY <2>2
  <2> QED
    BY <2>1, <2>2
<1>8. NetTyped'
  <2>1. requests' \in [Ids -> Request \cup {None}]
    BY <1>1, <1>4 DEF NetTyped
  <2>2. pendingReads' \in [Modes -> Ids \cup {None}]
    BY <1>1, <1>3 DEF NetTyped
  <2>3. \A r \in Readers : reading'[r] \in Reading \cup {Idle}
    BY <1>1, <1>7 DEF NetTyped
  <2>4. reading' = [r \in Readers |-> reading'[r]]
    OBVIOUS
  <2>5. reading' \in [Readers -> Reading \cup {Idle}]
    BY <2>3, <2>4, Zenon
  <2> QED
    BY <2>1, <2>2, <2>5 DEF NetTyped
<1>9. RequestsAreShared'
  <2>1. ASSUME NEW j \in Ids, requests'[j] # None
        PROVE  \E r \in Readers : reading'[r] # Idle /\ reading'[r].req = j
    <3>1. CASE j = next
      <4>1. PICK r \in reads : TRUE
        OBVIOUS
      <4>2. r \in Readers /\ r \in reads
        BY <4>1 DEF Subscribers
      <4>3. reading'[r] \in Reading /\ reading'[r].req = next
        BY <1>7, <4>2
      <4> QED
        BY <3>1, <4>2, <4>3, ReadingFields DEF Idle, Reading
    <3>2. CASE j # next
      <4>1. j # i /\ requests[j] # None
        BY <1>5, <2>1, <3>2
      <4>2. PICK r \in Readers : reading[r] # Idle /\ reading[r].req = j
        BY <1>1, <4>1 DEF RequestsAreShared, Subscribers
      <4>3. r \notin Subscribers(i)
        BY <4>1, <4>2 DEF Subscribers
      <4> QED
        BY <1>7, <4>2, <4>3
    <3> QED
      BY <3>1, <3>2
  <2>2. ASSUME NEW j \in Ids, NEW n \in Modes
        PROVE  pendingReads'[n] = j
               <=> requests'[j] # None /\ requests'[j].current /\ requests'[j].mode = n
    <3>1. pendingReads[n] = j <=> requests[j] # None /\ requests[j].current /\ requests[j].mode = n
      BY <1>1 DEF RequestsAreShared
    <3>2. pendingReads'[n] = IF n = m THEN next ELSE pendingReads[n]
      BY <1>1 DEF NetTyped
    <3>3. j # None
      BY IdsAreNumbers
    <3>4. CASE j = i
      BY <1>2, <1>4, <1>5, <3>2, <3>4
    <3>5. CASE j # i
      BY <1>5, <1>6, <3>1, <3>2, <3>3, <3>5
    <3> QED
      BY <3>4, <3>5
  <2>3. ASSUME NEW j \in Ids, requests'[j] # None PROVE Subscribers(j)' # {}
    <3>1. PICK r \in Readers : reading'[r] # Idle /\ reading'[r].req = j
      BY <2>1, <2>3
    <3>2. r \in Subscribers(j)'
      BY <3>1, Zenon DEF Subscribers
    <3> QED
      BY <3>2
  <2> QED
    BY <2>2, <2>3, Zenon DEF RequestsAreShared
<1>10. AnswersInv'
  BY <1>1, <1>4, <1>5 DEF AnswersInv
<1>11. FloorsInv'
  <2> SUFFICES ASSUME NEW r \in Readers, reading'[r].kind = "get"
               PROVE  /\ reading'[r].floor <= settled
                      /\ requests'[reading'[r].req] # None /\ requests'[reading'[r].req].answer # None
                         => reading'[r].floor <= requests'[reading'[r].req].answer.value
    BY DEF FloorsInv
  <2>1. r \notin Subscribers(i) /\ reading'[r] = reading[r]
    BY <1>7 DEF Idle
  <2>2. reading[r].req \in Ids /\ reading[r] # Idle
    BY <1>1, <2>1, ReadingFields DEF NetTyped, Idle
  <2>3. reading[r].req # i
    BY <2>1, <2>2 DEF Subscribers
  <2> QED
    BY <1>1, <1>5, <2>1, <2>2, <2>3 DEF FloorsInv
<1> QED
  BY <1>8, <1>9, <1>10, <1>11 DEF NetInv

-----------------------------------------------------------------------------
(* The actions *)

LEMMA HandedNothing == Nothing \in [Readers -> 0..MaxServer \cup {None}]
BY DEF Nothing

LEMMA TypedBounds ==
    ASSUME Typed
    PROVE  /\ server \in Nat /\ server <= MaxServer /\ settled \in Nat /\ settled <= server
           /\ MaxServer \in Nat
BY BoundsAssumption DEF Typed

LEMMA SubscribeRead ==
    ASSUME IInv, NEW r \in Readers, NEW k \in Keys, Read(r, k) \/ Get(r, k)
    PROVE  IInv'
<1> USE DEF IInv
<1>1. CASE ReadSaved(r, k)
  <2>1. HasSaved(models, k) /\ k \in KeysOf(models)
    BY <1>1 DEF ReadSaved, Reusable, HasSaved
  <2>2. StoreInv'
    BY <1>1, <2>1, TouchStep DEF ReadSaved
  <2>3. NetInv'
    BY <1>1, RestStep, TypedBounds DEF ReadSaved
  <2>4. handed' \in [Readers -> 0..MaxServer \cup {None}]
    BY <1>1, <2>1, SavedValue, HandedNothing DEF ReadSaved
  <2>5. Typed'
    BY <1>1, <2>4 DEF ReadSaved, Typed, flags
  <2> QED
    BY <2>2, <2>3, <2>5
<1>2. CASE ReadPreview(r, k)
  <2>1. HasSaved(models, k) /\ k \in KeysOf(models)
    BY <1>2 DEF ReadPreview, HasSaved
  <2>2. StoreInv'
    BY <1>2, <2>1, TouchStep DEF ReadPreview
  <2>3. NetInv'
    <3>1. PICK d : d = [kind |-> "read", floor |-> 0, req |-> RequestFor(<<k, TRUE>>)]
      OBVIOUS
    <3>2. <<k, TRUE>> \in Modes /\ reading[r] = Idle /\ Network(<<k, TRUE>>)
      BY <1>2 DEF ReadPreview, Modes
    <3>3. RequestFor(<<k, TRUE>>) \in Ids
      BY <3>2, NetworkStep
    <3>4. d \in Reading /\ d.req = RequestFor(<<k, TRUE>>) /\ d.kind = "read"
      BY <3>1, <3>3 DEF Reading
    <3>5. reading' = [reading EXCEPT ![r] = d] /\ UNCHANGED <<server, settled>>
      BY <1>2, <3>1 DEF ReadPreview
    <3> QED
      BY <3>2, <3>4, <3>5, JoinStep
  <2>4. handed' \in [Readers -> 0..MaxServer \cup {None}]
    BY <1>2, <2>1, SavedValue, HandedNothing DEF ReadPreview
  <2>5. Typed'
    BY <1>2, <2>4 DEF ReadPreview, Typed
  <2> QED
    BY <2>2, <2>3, <2>5
<1>3. CASE ReadFresh(r, k)
  <2>1. StoreInv' /\ failures' \subseteq failures /\ refreshFailed' \in BOOLEAN
    BY <1>3, RemoveStep DEF ReadFresh
  <2>2. NetInv'
    <3>1. PICK d : d = [kind |-> "read", floor |-> 0, req |-> RequestFor(<<k, FALSE>>)]
      OBVIOUS
    <3>2. <<k, FALSE>> \in Modes /\ reading[r] = Idle /\ Network(<<k, FALSE>>)
      BY <1>3 DEF ReadFresh, Modes
    <3>3. RequestFor(<<k, FALSE>>) \in Ids
      BY <3>2, NetworkStep
    <3>4. d \in Reading /\ d.req = RequestFor(<<k, FALSE>>) /\ d.kind = "read"
      BY <3>1, <3>3 DEF Reading
    <3>5. reading' = [reading EXCEPT ![r] = d] /\ UNCHANGED <<server, settled>>
      BY <1>3, <3>1 DEF ReadFresh
    <3> QED
      BY <3>2, <3>4, <3>5, JoinStep
  <2>3. Typed'
    BY <1>3, <2>1, HandedNothing DEF ReadFresh, Typed, flags
  <2> QED
    BY <2>1, <2>2, <2>3
<1>4. CASE Get(r, k)
  <2>1. StoreInv'
    BY <1>4 DEF Get, StoreInv, store
  <2>2. NetInv'
    <3>1. PICK d : d = [kind |-> "get", floor |-> settled, req |-> RequestFor(<<k, FALSE>>)]
      OBVIOUS
    <3>2. <<k, FALSE>> \in Modes /\ reading[r] = Idle /\ Network(<<k, FALSE>>)
      BY <1>4 DEF Get, Modes
    <3>3. RequestFor(<<k, FALSE>>) \in Ids
      BY <3>2, NetworkStep
    <3>4. d \in Reading /\ d.req = RequestFor(<<k, FALSE>>) /\ d.floor = settled
      BY <3>1, <3>3, TypedBounds DEF Reading
    <3>5. reading' = [reading EXCEPT ![r] = d] /\ UNCHANGED <<server, settled>>
      BY <1>4, <3>1 DEF Get
    <3> QED
      BY <3>2, <3>4, <3>5, JoinStep
  <2>3. Typed'
    BY <1>4, HandedNothing DEF Get, Typed, flags, store
  <2> QED
    BY <2>1, <2>2, <2>3
<1> QED
  BY <1>1, <1>2, <1>3, <1>4 DEF Read

LEMMA LeaveKeeps ==
    ASSUME IInv, NEW r \in Readers, Leave(r)
    PROVE  IInv'
<1> USE DEF IInv
<1>1. StoreInv'
  BY DEF Leave, StoreInv, store
<1>2. Typed'
  BY HandedNothing DEF Leave, Typed, store, Finalize
<1>3. PICK i : i = reading[r].req
  OBVIOUS
<1>4. i \in Ids /\ reading[r] # Idle /\ reading' = [reading EXCEPT ![r] = Idle]
      /\ UNCHANGED <<server, settled>>
  BY <1>3, ReadingFields DEF Leave, NetInv, NetTyped
<1>5. CASE Subscribers(i) = {r}
  <2>1. requests' = [requests EXCEPT ![i] = None] /\ pendingReads' = Dropped(i)
    BY <1>3, <1>5 DEF Leave
  <2>2. reading' = [q \in Readers |-> IF q \in Subscribers(i) THEN Idle ELSE reading[q]]
    BY <1>4, <1>5 DEF NetInv, NetTyped
  <2>3. NetInv'
    BY <1>4, <2>1, <2>2, EndStep
  <2> QED
    BY <1>1, <1>2, <2>3
<1>6. CASE Subscribers(i) # {r}
  <2>1. requests' = requests /\ pendingReads' = pendingReads
    BY <1>3, <1>6 DEF Leave
  <2>2. NetInv'
    BY <1>3, <1>4, <1>6, <2>1, LeaveShared DEF net
  <2> QED
    BY <1>1, <1>2, <2>2
<1> QED
  BY <1>5, <1>6

LEMMA AnswerKeeps ==
    ASSUME IInv, NEW i \in Ids, Answer(i)
    PROVE  IInv'
<1>1. StoreInv'
  BY DEF IInv, Answer, StoreInv, store
<1>2. Typed'
  BY HandedNothing DEF IInv, Answer, Typed, store, flags
<1> QED
  BY <1>1, <1>2, AnswerStep DEF IInv

\* An answer that has arrived.
LEMMA ArrivedAnswer ==
    ASSUME IInv, NEW i \in Ids, requests[i] # None, requests[i].answer # None
    PROVE  /\ requests[i].mode[1] \in Keys /\ requests[i].answer \in Answers
           /\ requests[i].answer.value \in 0..MaxServer
           /\ requests[i].answer.value <= server
           /\ requests[i].current => settled <= requests[i].answer.value
<1>1. requests[i] \in Request
  BY DEF IInv, NetInv, NetTyped
<1>2. requests[i].answer.value \in Nat /\ requests[i].answer.value <= server
  BY <1>1, RequestFields DEF IInv, NetInv, AnswersInv
<1> QED
  BY <1>1, <1>2, RequestFields, TypedBounds DEF IInv, NetInv, AnswersInv

LEMMA DeliverCurrentKeeps ==
    ASSUME IInv, NEW i \in Ids, DeliverCurrent(i)
    PROVE  IInv'
<1>1. requests[i] # None /\ requests[i].answer # None /\ requests[i].current
  BY DEF DeliverCurrent
<1>2. PICK k, a : k = requests[i].mode[1] /\ a = requests[i].answer
  OBVIOUS
<1>3. /\ k \in Keys /\ a \in Answers /\ a.value \in 0..MaxServer
      /\ settled <= a.value /\ a.value <= server
  BY <1>1, <1>2, ArrivedAnswer
<1>4. UNCHANGED store \/ Remember(k, a)
  BY <1>2 DEF DeliverCurrent
<1>5. UNCHANGED <<server, settled, writes>>
  BY DEF DeliverCurrent
<1>6. StoreInv' /\ failures' \subseteq Keys /\ refreshFailed' \in BOOLEAN
  <2>1. CASE UNCHANGED store
    BY <1>5, <2>1 DEF StoreInv, store, IInv, Typed
  <2>2. CASE Remember(k, a)
    BY <1>3, <1>5, <2>2, RememberStep DEF IInv, Typed
  <2> QED
    BY <1>4, <2>1, <2>2
<1>7. NetInv'
  BY <1>5, EndStep DEF DeliverCurrent, IInv
<1>8. handed' \in [Readers -> 0..MaxServer \cup {None}]
  BY <1>2, <1>3 DEF DeliverCurrent
<1>9. pendingRefreshes' \subseteq Readers /\ refreshing' \in BOOLEAN
  BY DEF DeliverCurrent, Finalize, IInv, Typed
<1>10. Typed'
  BY <1>5, <1>6, <1>8, <1>9 DEF IInv, Typed
<1> QED
  BY <1>6, <1>7, <1>10 DEF IInv

LEMMA DeliverOutdatedKeeps ==
    ASSUME IInv, NEW i \in Ids, DeliverOutdated(i)
    PROVE  IInv'
<1>1. requests[i] # None /\ requests[i].answer # None /\ ~requests[i].current
  BY DEF DeliverOutdated
<1>2. PICK k, a, all : /\ k = requests[i].mode[1] /\ a = requests[i].answer
                       /\ all = Subscribers(i)
  OBVIOUS
<1>3. PICK reads : reads = {r \in all : reading[r].kind = "read"}
  OBVIOUS
<1>4. PICK m : m = <<k, HasSaved(models, k)>>
  OBVIOUS
<1>5. PICK next : next = IF pendingReads[m] # None THEN pendingReads[m] ELSE i
  OBVIOUS
<1>6. k \in Keys /\ a.value \in 0..MaxServer /\ m \in Modes
  BY <1>1, <1>2, <1>4, ArrivedAnswer DEF Modes, HasSaved
<1>7. UNCHANGED <<server, settled, writes>>
  BY DEF DeliverOutdated
<1>8. handed' \in [Readers -> 0..MaxServer \cup {None}]
  <2>1. handed' = [r \in Readers |->
           IF r \in all \ reads THEN a.value
           ELSE IF r \in reads /\ HasSaved(models, k) THEN EntryOf(models, k).value ELSE None]
    BY <1>2, <1>3 DEF DeliverOutdated
  <2>2. HasSaved(models, k) => EntryOf(models, k).value \in 0..MaxServer
    BY SavedValue DEF IInv, HasSaved
  <2> QED
    BY <1>6, <2>1, <2>2
<1>9. pendingReads = Dropped(i)
  <2>1. \A n \in Modes : pendingReads[n] # i
    BY <1>1 DEF IInv, NetInv, RequestsAreShared
  <2> QED
    BY <2>1 DEF Dropped, IInv, NetInv, NetTyped
<1>10. CASE /\ reads = {}
            /\ reading' = [r \in Readers |-> IF r \in all THEN Idle ELSE reading[r]]
            /\ requests' = [requests EXCEPT ![i] = None]
            /\ UNCHANGED <<store, flags, pendingReads>>
  <2>1. NetInv'
    BY <1>2, <1>7, <1>9, <1>10, EndStep DEF IInv
  <2>2. StoreInv'
    BY <1>7, <1>10 DEF IInv, StoreInv, store
  <2>3. Typed'
    BY <1>7, <1>8, <1>10 DEF IInv, Typed, store, flags
  <2> QED
    BY <2>1, <2>2, <2>3 DEF IInv
<1>11. CASE /\ reads # {} /\ Reusable(models, failures, k)
            /\ models' = Touched(models, k)
            /\ reading' = [r \in Readers |-> IF r \in all THEN Idle ELSE reading[r]]
            /\ requests' = [requests EXCEPT ![i] = None]
            /\ Finalize(reads)
            /\ UNCHANGED <<bytes, failures, refreshFailed, pendingReads>>
  <2>1. NetInv'
    BY <1>2, <1>7, <1>9, <1>11, EndStep DEF IInv
  <2>2. StoreInv'
    BY <1>7, <1>11, TouchStep DEF IInv, Reusable
  <2>3. pendingRefreshes' \subseteq Readers /\ refreshing' \in BOOLEAN
    BY <1>11 DEF Finalize, IInv, Typed
  <2>4. Typed'
    BY <1>7, <1>8, <1>11, <2>3 DEF IInv, Typed
  <2> QED
    BY <2>1, <2>2, <2>4 DEF IInv
<1>12. CASE /\ reads # {} /\ ~Reusable(models, failures, k)
            /\ reading' = [r \in Readers |->
                  IF r \in all \ reads THEN Idle
                  ELSE IF r \in reads THEN [reading[r] EXCEPT !.req = next]
                  ELSE reading[r]]
            /\ requests' = IF next = i THEN [requests EXCEPT ![i] = Renewed(m)]
                           ELSE [requests EXCEPT ![i] = None]
            /\ pendingReads' = [pendingReads EXCEPT ![m] = next]
            /\ IF HasSaved(models, k)
               THEN /\ models' = Touched(models, k)
                    /\ pendingRefreshes' = pendingRefreshes \cup reads
                    /\ refreshing' = TRUE
                    /\ UNCHANGED <<bytes, failures, refreshFailed>>
               ELSE RemoveModel(k) /\ UNCHANGED flags
  <2>1. NetInv'
    <3>1. Restarts(i, m, reads, next)
      BY <1>1, <1>2, <1>3, <1>5, <1>7, <1>12 DEF Restarts
    <3> QED
      BY <1>6, <3>1, RestartStep DEF IInv
  <2>2. CASE HasSaved(models, k)
    <3>1. /\ models' = Touched(models, k) /\ pendingRefreshes' = pendingRefreshes \cup reads
          /\ refreshing' = TRUE /\ UNCHANGED <<bytes, failures, refreshFailed>>
      BY <1>12, <2>2
    <3>2. StoreInv'
      BY <1>7, <2>2, <3>1, TouchStep DEF IInv
    <3>3. pendingRefreshes' \subseteq Readers
      BY <1>2, <1>3, <3>1 DEF Subscribers, IInv, Typed
    <3>4. Typed'
      BY <1>7, <1>8, <3>1, <3>3 DEF IInv, Typed
    <3> QED
      BY <2>1, <3>2, <3>4 DEF IInv
  <2>3. CASE ~HasSaved(models, k)
    <3>1. RemoveModel(k) /\ UNCHANGED flags
      BY <1>12, <2>3
    <3>2. StoreInv' /\ failures' \subseteq failures /\ refreshFailed' \in BOOLEAN
      BY <1>7, <3>1, RemoveStep DEF IInv
    <3>3. Typed'
      BY <1>7, <1>8, <3>1, <3>2 DEF IInv, Typed, flags
    <3> QED
      BY <2>1, <3>2, <3>3 DEF IInv
  <2> QED
    BY <2>2, <2>3
<1>13. \/ /\ reads = {}
          /\ reading' = [r \in Readers |-> IF r \in all THEN Idle ELSE reading[r]]
          /\ requests' = [requests EXCEPT ![i] = None]
          /\ UNCHANGED <<store, flags, pendingReads>>
       \/ /\ reads # {} /\ Reusable(models, failures, k)
          /\ models' = Touched(models, k)
          /\ reading' = [r \in Readers |-> IF r \in all THEN Idle ELSE reading[r]]
          /\ requests' = [requests EXCEPT ![i] = None]
          /\ Finalize(reads)
          /\ UNCHANGED <<bytes, failures, refreshFailed, pendingReads>>
       \/ /\ reads # {} /\ ~Reusable(models, failures, k)
          /\ reading' = [r \in Readers |->
                IF r \in all \ reads THEN Idle
                ELSE IF r \in reads THEN [reading[r] EXCEPT !.req = next]
                ELSE reading[r]]
          /\ requests' = IF next = i THEN [requests EXCEPT ![i] = Renewed(m)]
                         ELSE [requests EXCEPT ![i] = None]
          /\ pendingReads' = [pendingReads EXCEPT ![m] = next]
          /\ IF HasSaved(models, k)
             THEN /\ models' = Touched(models, k)
                  /\ pendingRefreshes' = pendingRefreshes \cup reads
                  /\ refreshing' = TRUE
                  /\ UNCHANGED <<bytes, failures, refreshFailed>>
             ELSE RemoveModel(k) /\ UNCHANGED flags
  BY <1>2, <1>3, <1>4, <1>5, Zenon DEF DeliverOutdated
<1> QED
  BY <1>10, <1>11, <1>12, <1>13

LEMMA ClearStep ==
    ASSUME Typed, NetInv, ClearSavedData, UNCHANGED <<server, reading>>,
           settled' \in 0..server, settled <= settled'
    PROVE  StoreInv' /\ NetInv' /\ failures' = {} /\ refreshFailed' = FALSE
<1>1. Invalidate
  BY DEF ClearSavedData
<1>2. PICK kept : kept = Ids
  OBVIOUS
<1>3. requests' = [i \in Ids |-> IF i \in kept THEN Outdated(requests)[i] ELSE None]
  BY <1>2 DEF ClearSavedData, Outdated
<1>4. \A i \in Ids : i \in kept /\ requests[i] # None
        => \E r \in Readers : reading'[r] # Idle /\ reading'[r].req = i
  BY DEF NetInv, RequestsAreShared, Subscribers
<1>5. reading' \in [Readers -> Reading \cup {Idle}] /\ \A r \in Readers : reading'[r] = reading[r]
  BY DEF NetInv, NetTyped
<1>6. settled' \in Nat /\ server' \in Nat /\ server <= server'
  BY TypedBounds
<1>7. pendingReads' = [m \in Modes |-> None]
  BY DEF ClearSavedData
<1>8. NetInv'
  BY <1>3, <1>4, <1>5, <1>6, <1>7, CutStep
<1> QED
  BY <1>1, <1>8, InvalidateStep

LEMMA WritesKeep ==
    ASSUME IInv, NEW w \in Writers,
           BeginWrite(w) \/ Commit(w) \/ EndWrite(w) \/ RefuseWrite(w) \/ LoseWrite(w)
    PROVE  IInv'
<1> USE DEF IInv
<1>1. CASE Commit(w)
  <2>1. /\ server' = server + 1 /\ server < MaxServer /\ UNCHANGED <<settled, store, flags, net, reading>>
        /\ handed' = Nothing
        /\ writes' = [writes EXCEPT ![w] = IF writes[w] = "lost" THEN "idle" ELSE "committed"]
    BY <1>1 DEF Commit
  <2>2. server' \in 0..MaxServer /\ server <= server' /\ settled' \in 0..server' /\ server' \in Nat
    BY <2>1, TypedBounds
  <2>3. StoreInv'
    BY <2>1, <2>2, GrowStep DEF store
  <2>4. NetInv'
    BY <2>1, <2>2, RestStep
  <2>5. writes' \in [Writers -> {"idle", "sent", "committed", "lost"}]
    BY <2>1 DEF Typed
  <2>6. Typed'
    BY <2>1, <2>2, <2>5, HandedNothing DEF Typed, store, flags
  <2> QED
    BY <2>3, <2>4, <2>6
<1>2. CASE BeginWrite(w) \/ EndWrite(w) \/ RefuseWrite(w) \/ LoseWrite(w)
  <2>1. /\ ClearSavedData /\ handed' = Nothing /\ UNCHANGED <<server, flags, reading>>
        /\ settled' = settled \/ settled' = server
    BY <1>2 DEF BeginWrite, EndWrite, RefuseWrite, LoseWrite
  <2>2. settled' \in 0..server /\ settled <= settled'
    BY <2>1, TypedBounds
  <2>3. StoreInv' /\ NetInv' /\ failures' = {} /\ refreshFailed' = FALSE
    BY <2>1, <2>2, ClearStep
  <2>4. writes' \in [Writers -> {"idle", "sent", "committed", "lost"}]
    BY <1>2 DEF BeginWrite, EndWrite, RefuseWrite, LoseWrite, Typed
  <2>5. Typed'
    BY <2>1, <2>2, <2>3, <2>4, HandedNothing DEF Typed, flags
  <2> QED
    BY <2>3, <2>5
<1> QED
  BY <1>1, <1>2

LEMMA OthersKeep ==
    ASSUME IInv, OtherWrite \/ Refresh \/ \E n \in 1..MaxEntries : Age(n)
    PROVE  IInv'
<1> USE DEF IInv
<1>1. CASE OtherWrite
  <2>1. /\ server' = server + 1 /\ server < MaxServer /\ handed' = Nothing
        /\ UNCHANGED <<settled, store, flags, net, reading, writes>>
    BY <1>1 DEF OtherWrite
  <2>2. server' \in 0..MaxServer /\ server <= server' /\ settled' \in 0..server' /\ server' \in Nat
    BY <2>1, TypedBounds
  <2>3. StoreInv'
    BY <2>1, <2>2, GrowStep DEF store
  <2>4. NetInv'
    BY <2>1, <2>2, RestStep
  <2>5. Typed'
    BY <2>1, <2>2, HandedNothing DEF Typed, store, flags
  <2> QED
    BY <2>3, <2>4, <2>5
<1>2. CASE Refresh
  <2>1. /\ ClearSavedData /\ handed' = Nothing
        /\ UNCHANGED <<server, settled, flags, reading, writes>>
    BY <1>2 DEF Refresh
  <2>2. settled' \in 0..server /\ settled <= settled'
    BY <2>1, TypedBounds
  <2>3. StoreInv' /\ NetInv' /\ failures' = {} /\ refreshFailed' = FALSE
    BY <2>1, <2>2, ClearStep
  <2>4. Typed'
    BY <2>1, <2>3, HandedNothing DEF Typed, flags
  <2> QED
    BY <2>3, <2>4
<1>3. ASSUME NEW n \in 1..MaxEntries, Age(n) PROVE IInv'
  <2>1. StoreInv'
    BY <1>3, AgeStep
  <2>2. NetInv'
    BY <1>3, RestStep, TypedBounds DEF Age
  <2>3. Typed'
    BY <1>3, HandedNothing DEF Typed, flags, Age
  <2> QED
    BY <2>1, <2>2, <2>3
<1> QED
  BY <1>1, <1>2, <1>3

LEMMA FailKeeps ==
    ASSUME IInv, NEW i \in Ids, NEW e \in Errors, Fail(i, e)
    PROVE  IInv'
<1>1. PICK k, all : k = requests[i].mode[1] /\ all = Subscribers(i)
  OBVIOUS
<1>2. PICK reads : reads = {r \in all : reading[r].kind = "read"}
  OBVIOUS
<1>3. /\ requests[i] # None
      /\ reading' = [r \in Readers |-> IF r \in Subscribers(i) THEN Idle ELSE reading[r]]
      /\ Finalize(reads) /\ handed' = Nothing /\ UNCHANGED <<server, settled, writes>>
  BY <1>1, <1>2 DEF Fail
<1>4. k \in Keys
  BY <1>1, <1>3, RequestFields DEF IInv, NetInv, NetTyped
<1>5. pendingRefreshes' \subseteq Readers /\ refreshing' \in BOOLEAN
  BY <1>3 DEF Finalize, IInv, Typed
<1>6. NetTyped /\ RequestsAreShared
  BY DEF IInv, NetInv
<1>7. CASE e = "denied" /\ requests[i].current
  <2>1. /\ Invalidate /\ pendingReads' = [m \in Modes |-> None]
        /\ requests' = [Outdated(requests) EXCEPT ![i] = None]
    BY <1>7 DEF Fail
  <2>2. StoreInv' /\ failures' = {} /\ refreshFailed' = FALSE
    BY <2>1, InvalidateStep
  <2>3. PICK kept : kept = Ids \ {i}
    OBVIOUS
  <2>4. requests' = [j \in Ids |-> IF j \in kept THEN Outdated(requests)[j] ELSE None]
    BY <2>1, <2>3 DEF Outdated
  <2>5. /\ reading' \in [Readers -> Reading \cup {Idle}]
        /\ \A r \in Readers : reading'[r] = Idle \/ reading'[r] = reading[r]
    BY <1>3, <1>6 DEF NetTyped
  <2>6. ASSUME NEW j \in Ids, j \in kept /\ requests[j] # None
        PROVE  \E r \in Readers : reading'[r] # Idle /\ reading'[r].req = j
    <3>1. PICK r \in Readers : reading[r] # Idle /\ reading[r].req = j
      BY <1>6, <2>6 DEF RequestsAreShared, Subscribers
    <3>2. r \notin Subscribers(i)
      BY <2>3, <2>6, <3>1 DEF Subscribers
    <3> QED
      BY <1>3, <3>1, <3>2
  <2>7. settled' \in Nat /\ settled <= settled' /\ server' \in Nat /\ server <= server'
    BY <1>3, TypedBounds DEF IInv
  <2>8. NetInv'
    BY <2>1, <2>4, <2>5, <2>6, <2>7, CutStep DEF IInv
  <2>9. Typed'
    BY <1>3, <1>5, <2>2, HandedNothing DEF IInv, Typed
  <2> QED
    BY <2>2, <2>8, <2>9 DEF IInv
<1>8. CASE ~(e = "denied" /\ requests[i].current)
  <2>1. /\ requests' = [requests EXCEPT ![i] = None] /\ pendingReads' = Dropped(i)
        /\ \/ UNCHANGED store
           \/ failures' = failures \cup {k} /\ refreshFailed' = TRUE /\ UNCHANGED <<models, bytes>>
           \/ RemoveModel(k)
    BY <1>1, <1>2, <1>8 DEF Fail
  <2>2. NetInv'
    BY <1>3, <2>1, EndStep DEF IInv
  <2>3. StoreInv' /\ failures' \subseteq Keys /\ refreshFailed' \in BOOLEAN
    <3>1. CASE RemoveModel(k)
      BY <1>3, <3>1, RemoveStep DEF IInv, Typed
    <3>2. CASE UNCHANGED <<models, bytes>>
      <4>1. StoreInv'
        BY <1>3, <3>2 DEF IInv, StoreInv
      <4>2. CASE UNCHANGED store
        BY <4>1, <4>2 DEF store, IInv, Typed
      <4>3. CASE failures' = failures \cup {k} /\ refreshFailed' = TRUE
        BY <1>4, <4>1, <4>3 DEF IInv, Typed
      <4> QED
        BY <2>1, <3>1, <4>2, <4>3, RemoveStep, <1>3 DEF IInv, Typed
    <3> QED
      BY <2>1, <3>1, <3>2 DEF store
  <2>4. Typed'
    BY <1>3, <1>5, <2>3, HandedNothing DEF IInv, Typed
  <2> QED
    BY <2>2, <2>3, <2>4 DEF IInv
<1> QED
  BY <1>7, <1>8

LEMMA ResetSessionKeeps ==
    ASSUME IInv, ResetSession
    PROVE  IInv'
<1>1. PICK reads : reads = {r \in Readers : reading[r].kind = "read"}
  OBVIOUS
<1>2. PICK kept : kept = {i \in Ids : Subscribers(i) \ reads # {}}
  OBVIOUS
<1>3. /\ Invalidate /\ pendingReads' = [m \in Modes |-> None]
      /\ reading' = [r \in Readers |-> IF r \in reads THEN Idle ELSE reading[r]]
      /\ requests' = [i \in Ids |-> IF i \in kept THEN Outdated(requests)[i] ELSE None]
      /\ Finalize(reads) /\ handed' = Nothing /\ UNCHANGED <<server, settled, writes>>
  BY <1>1, <1>2 DEF ResetSession
<1>4. StoreInv' /\ failures' = {} /\ refreshFailed' = FALSE
  BY <1>3, InvalidateStep
<1>5. NetInv'
  <2>1. NetTyped
    BY DEF IInv, NetInv
  <2>2. /\ reading' \in [Readers -> Reading \cup {Idle}]
        /\ \A r \in Readers : reading'[r] = Idle \/ reading'[r] = reading[r]
    BY <1>3, <2>1 DEF NetTyped
  <2>3. ASSUME NEW i \in Ids, i \in kept /\ requests[i] # None
        PROVE  \E r \in Readers : reading'[r] # Idle /\ reading'[r].req = i
    <3>1. PICK r \in Subscribers(i) \ reads : TRUE
      BY <1>2, <2>3
    <3>2. r \in Readers /\ r \notin reads /\ reading[r] # Idle /\ reading[r].req = i
      BY <3>1 DEF Subscribers
    <3> QED
      BY <1>3, <3>2
  <2>4. settled' \in Nat /\ settled <= settled' /\ server' \in Nat /\ server <= server'
    BY <1>3, TypedBounds DEF IInv
  <2> QED
    BY <1>3, <2>2, <2>3, <2>4, CutStep DEF IInv
<1>6. Typed'
  BY <1>3, <1>4, HandedNothing DEF IInv, Typed, Finalize
<1> QED
  BY <1>4, <1>5, <1>6 DEF IInv

LEMMA InitIInv == Init => IInv
<1> SUFFICES ASSUME Init PROVE IInv
  OBVIOUS
<1>1. StoreInv
  <2>1. models = <<>> /\ bytes = 0
    BY DEF Init
  <2>2. PICK lo, hi : lo = settled /\ hi = server
    OBVIOUS
  <2>3. Stored(<<>>, 0, lo, hi)
    BY NothingStored
  <2> QED
    BY <2>1, <2>2, <2>3 DEF StoreInv
<1>2. Typed
  <2>1. handed = Nothing /\ Nothing \in [Readers -> 0..MaxServer \cup {None}]
    BY HandedNothing DEF Init
  <2>2. writes \in [Writers -> {"idle", "sent", "committed", "lost"}]
    BY DEF Init
  <2>3. server \in 0..MaxServer /\ settled \in 0..server
    BY BoundsAssumption DEF Init
  <2>4. /\ failures \subseteq Keys /\ refreshFailed \in BOOLEAN
        /\ pendingRefreshes \subseteq Readers /\ refreshing \in BOOLEAN
    BY DEF Init
  <2> QED
    BY <2>1, <2>2, <2>3, <2>4 DEF Typed
<1>3. NetInv
  BY IdsAreNumbers DEF Init, NetInv, NetTyped, RequestsAreShared, AnswersInv, FloorsInv, Idle
<1> QED
  BY <1>1, <1>2, <1>3 DEF IInv

LEMMA StepIInv == IInv /\ [Next]_vars => IInv'
<1> SUFFICES ASSUME IInv, [Next]_vars PROVE IInv'
  OBVIOUS
<1>1. ASSUME NEW r \in Readers, NEW k \in Keys, Read(r, k) \/ Get(r, k) PROVE IInv'
  BY <1>1, SubscribeRead
<1>2. ASSUME NEW r \in Readers, Leave(r) PROVE IInv'
  BY <1>2, LeaveKeeps
<1>3. ASSUME NEW i \in Ids, Answer(i) PROVE IInv'
  BY <1>3, AnswerKeeps
<1>4. ASSUME NEW i \in Ids, Deliver(i) PROVE IInv'
  BY <1>4, DeliverCurrentKeeps, DeliverOutdatedKeeps DEF Deliver
<1>5. ASSUME NEW i \in Ids, NEW e \in Errors, Fail(i, e) PROVE IInv'
  BY <1>5, FailKeeps
<1>6. ASSUME NEW w \in Writers,
             BeginWrite(w) \/ Commit(w) \/ EndWrite(w) \/ RefuseWrite(w) \/ LoseWrite(w)
      PROVE  IInv'
  BY <1>6, WritesKeep
<1>7. CASE OtherWrite \/ Refresh \/ \E n \in 1..MaxEntries : Age(n)
  BY <1>7, OthersKeep
<1>8. CASE ResetSession
  BY <1>8, ResetSessionKeeps
<1>9. CASE UNCHANGED vars
  <2>1. UNCHANGED <<store, flags, net, reading, handed, server, settled, writes>>
    BY <1>9 DEF vars, subs
  <2>2. Typed'
    BY <2>1 DEF IInv, Typed, store, flags
  <2>3. StoreInv'
    BY <2>1 DEF IInv, StoreInv, store
  <2>4. NetInv'
    BY <2>1, RestStep, TypedBounds DEF IInv
  <2> QED
    BY <2>2, <2>3, <2>4 DEF IInv
<1> QED
  BY <1>1, <1>2, <1>3, <1>4, <1>5, <1>6, <1>7, <1>8, <1>9, Zenon DEF Next

\* The store, the requests on offer and what travels are as they should be in every
\* state, for any number of keys and readers.
THEOREM Inductive == Spec => []IInv
BY InitIInv, StepIInv, PTL DEF Spec

\* Every variable keeps its type.
THEOREM TypeCorrect == Spec => []TypeOK
<1>1. IInv => TypeOK
  <2> SUFFICES ASSUME IInv PROVE TypeOK
    OBVIOUS
  <2>1. models \in Seq(SavedModel) /\ bytes = Sum(models)
    BY DEF IInv, StoreInv, Stored
  <2>2. bytes \in Nat
    BY <2>1, BytesTyped
  <2> QED
    BY <2>1, <2>2 DEF IInv, Typed, NetInv, NetTyped, TypeOK
<1> QED
  BY <1>1, Inductive, PTL

\* However models are remembered, replaced, evicted, expired and dropped, the store
\* keeps its bounds and its byte count is what it holds (DataModelService).
THEOREM StoreKeepsItsBounds == Spec => []StoreWithinBounds
<1>1. IInv => StoreWithinBounds
  BY Zenon DEF IInv, StoreInv, Stored, Sound, StoreWithinBounds
<1> QED
  BY <1>1, Inductive, PTL

\* No saved model, and no answer on its way that may be saved, is older than an own
\* write that has been answered (ApiService.mutate, clearSavedData).
THEOREM OwnWritesAreSeen == Spec => []ModelsSeeOwnWrites
<1>1. IInv => ModelsSeeOwnWrites
  <2> SUFFICES ASSUME IInv PROVE ModelsSeeOwnWrites
    OBVIOUS
  <2>1. ASSUME NEW i \in DOMAIN models PROVE models[i].value >= settled
    <3>1. models \in Seq(SavedModel) /\ settled <= models[i].value
      BY DEF IInv, StoreInv, Stored, Sound
    <3>2. models[i].value \in Nat /\ settled \in Nat
      BY <3>1, ModelFields, TypedBounds DEF IInv
    <3> QED
      BY <3>1, <3>2
  <2>2. ASSUME NEW i \in Ids, requests[i] # None, requests[i].answer # None, requests[i].current
        PROVE  requests[i].answer.value >= settled
    BY <2>2, ArrivedAnswer, TypedBounds DEF IInv
  <2> QED
    BY <2>1, <2>2 DEF ModelsSeeOwnWrites
<1> QED
  BY <1>1, Inductive, PTL

\* A request is on offer exactly while it is current, and has a reader while it is
\* under way (ApiService.network).
THEOREM RequestsStayShared == Spec => []RequestsAreShared
<1>1. IInv => RequestsAreShared
  BY DEF IInv, NetInv
<1> QED
  BY <1>1, Inductive, PTL
-----------------------------------------------------------------------------
(* Refinement: the read layer implements DisplayReads *)

\* What a page sees of a subscription.
Shown(q) == [kind |-> q.kind, floor |-> q.floor]

LEMMA ShownReading ==
    /\ Shown(Idle) = Idle
    /\ \A q \in Reading : q.kind \in {"read", "get"} /\ q.floor \in Nat
<1>1. Shown(Idle) = Idle
  BY DEF Shown, Idle
<1> QED
  BY <1>1 DEF Reading

\* The oldest state the subscription r may be shown.
Oldest(r) == IF reading[r].kind = "get" THEN reading[r].floor ELSE settled

\* What a step may do to the subscription r.
Waits(r) == Shown(reading'[r]) = Shown(reading[r]) /\ handed'[r] = None
Starts(r) ==
    /\ reading[r] = Idle
    /\ Shown(reading'[r]) \in {[kind |-> "get", floor |-> settled], [kind |-> "read", floor |-> 0]}
    /\ handed'[r] \in {None} \cup settled..server
Sees(r) ==
    /\ handed'[r] \in Oldest(r)..server
    /\ \/ reading'[r] = Idle
       \/ reading[r].kind = "read" /\ Shown(reading'[r]) = Shown(reading[r])
Stops(r) == reading'[r] = Idle /\ handed'[r] = None

\* A step of the write path shows nothing and leaves every subscription alone.
LEMMA IsWrite ==
    ASSUME server' >= server, settled' >= settled, settled' <= server', reading' = reading,
           handed' = Nothing
    PROVE  Promise!Write
BY DEF Promise!Write, Promise!Nothing, Nothing

\* A step of the read path is one that does to each subscription what it may.
LEMMA IsMove ==
    ASSUME IInv, server' = server, settled' = settled,
           handed' \in [Readers -> 0..MaxServer \cup {None}],
           \A r \in Readers : Waits(r) \/ Starts(r) \/ Sees(r) \/ Stops(r)
    PROVE  Promise!Move
<1>1. settled <= server
  BY TypedBounds DEF IInv
<1>2. DOMAIN handed' = Readers
  OBVIOUS
<1>3. ASSUME NEW r \in Readers
      PROVE  \/ Shown(reading'[r]) = Shown(reading[r]) /\ handed'[r] = None
             \/ Promise!Begins(r) \/ Promise!Shows(r) \/ Promise!Ends(r)
  <2>1. CASE Waits(r)
    BY <2>1 DEF Waits
  <2>2. CASE Starts(r)
    <3>1. Shown(reading[r]) = Idle
      BY <2>2, ShownReading DEF Starts
    <3> QED
      BY <2>2, <3>1 DEF Starts, Promise!Begins, Promise!Idle, Shown, Idle
  <2>3. CASE Sees(r)
    <3>1. Promise!Floor(r) = Oldest(r)
      BY DEF Promise!Floor, Oldest
    <3>2. reading'[r] = Idle => Shown(reading'[r]) = Promise!Idle
      BY ShownReading DEF Promise!Idle, Idle
    <3> QED
      BY <2>3, <3>1, <3>2 DEF Sees, Promise!Shows, Shown
  <2>4. CASE Stops(r)
    <3>1. Shown(reading'[r]) = Promise!Idle
      BY <2>4, ShownReading DEF Stops, Promise!Idle, Idle
    <3> QED
      BY <2>4, <3>1 DEF Stops, Promise!Ends, Shown
  <2> QED
    BY <2>1, <2>2, <2>3, <2>4
<1> QED
  BY <1>1, <1>2, <1>3, TypedBounds DEF Promise!Move, Shown, IInv

LEMMA SubscribeMoves ==
    ASSUME IInv, IInv', NEW r \in Readers, NEW k \in Keys, Read(r, k) \/ Get(r, k)
    PROVE  Promise!Move
<1>1. /\ reading[r] = Idle /\ server' = server /\ settled' = settled
      /\ reading \in [Readers -> Reading \cup {Idle}]
      /\ handed' \in [Readers -> 0..MaxServer \cup {None}]
  BY DEF Read, ReadSaved, ReadPreview, ReadFresh, Get, IInv, Typed, NetInv, NetTyped
<1>2. HasSaved(models, k) => EntryOf(models, k).value \in settled..server
  BY SavedValue DEF IInv, HasSaved
<1>3. Oldest(r) = settled
  BY <1>1 DEF Oldest, Idle
<1>4. Waits(r) \/ Starts(r) \/ Sees(r) \/ Stops(r)
  <2>1. CASE ReadSaved(r, k)
    <3>1. handed'[r] = EntryOf(models, k).value /\ reading'[r] = Idle /\ HasSaved(models, k)
      BY <1>1, <2>1 DEF ReadSaved, Nothing, Reusable
    <3>2. handed'[r] \in Oldest(r)..server
      BY <1>2, <1>3, <3>1
    <3> QED
      BY <3>1, <3>2 DEF Sees
  <2>2. CASE ReadPreview(r, k)
    <3>1. handed'[r] = EntryOf(models, k).value /\ HasSaved(models, k)
      BY <2>2 DEF ReadPreview, Nothing
    <3>2. reading'[r] = [kind |-> "read", floor |-> 0, req |-> RequestFor(<<k, TRUE>>)]
      BY <1>1, <2>2 DEF ReadPreview
    <3>3. Shown(reading'[r]) = [kind |-> "read", floor |-> 0]
      BY <3>2 DEF Shown
    <3> QED
      BY <1>1, <1>2, <3>1, <3>3 DEF Starts
  <2>3. CASE ReadFresh(r, k)
    <3>1. handed'[r] = None
      BY <2>3 DEF ReadFresh, Nothing
    <3>2. reading'[r] = [kind |-> "read", floor |-> 0, req |-> RequestFor(<<k, FALSE>>)]
      BY <1>1, <2>3 DEF ReadFresh
    <3>3. Shown(reading'[r]) = [kind |-> "read", floor |-> 0]
      BY <3>2 DEF Shown
    <3> QED
      BY <1>1, <3>1, <3>3 DEF Starts
  <2>4. CASE Get(r, k)
    <3>1. handed'[r] = None
      BY <2>4 DEF Get, Nothing
    <3>2. reading'[r] = [kind |-> "get", floor |-> settled, req |-> RequestFor(<<k, FALSE>>)]
      BY <1>1, <2>4 DEF Get
    <3>3. Shown(reading'[r]) = [kind |-> "get", floor |-> settled]
      BY <3>2 DEF Shown
    <3> QED
      BY <1>1, <3>1, <3>3 DEF Starts
  <2> QED
    BY <2>1, <2>2, <2>3, <2>4 DEF Read
<1>5. ASSUME NEW q \in Readers, q # r PROVE Waits(q)
  <2>1. reading'[q] = reading[q] /\ handed'[q] = None
    BY <1>1, <1>5 DEF Read, ReadSaved, ReadPreview, ReadFresh, Get, Nothing
  <2> QED
    BY <2>1 DEF Waits
<1> QED
  BY <1>1, <1>4, <1>5, IsMove

\* What an answer holds is new enough for every uncached read that waits for it, and for
\* display reads while it is current.
LEMMA AnswerSeen ==
    ASSUME IInv, NEW i \in Ids, requests[i] # None, requests[i].answer # None,
           NEW r \in Subscribers(i), reading[r].kind = "get" \/ requests[i].current
    PROVE  requests[i].answer.value \in Oldest(r)..server
<1>1. /\ r \in Readers /\ reading[r] \in Reading /\ reading[r].req = i
  BY DEF Subscribers, IInv, NetInv, NetTyped
<1>2. PICK v, f, lo, hi : /\ v = requests[i].answer.value /\ f = reading[r].floor
                          /\ lo = settled /\ hi = server
  OBVIOUS
<1>3. v \in Nat /\ f \in Nat /\ lo \in Nat /\ hi \in Nat /\ v <= hi
  BY <1>1, <1>2, ArrivedAnswer, TypedBounds, ShownReading DEF IInv
<1>4. reading[r].kind = "get" => f <= v
  BY <1>1, <1>2 DEF IInv, NetInv, FloorsInv
<1>5. requests[i].current => lo <= v
  BY <1>2, ArrivedAnswer
<1>6. reading[r].kind = "get" => Oldest(r) = f
  BY <1>2 DEF Oldest
<1>7. reading[r].kind # "get" => Oldest(r) = lo
  BY <1>2 DEF Oldest
<1>8. v \in Oldest(r)..hi
  BY <1>3, <1>4, <1>5, <1>6, <1>7
<1> QED
  BY <1>2, <1>8

LEMMA DeliverCurrentMoves ==
    ASSUME IInv, IInv', NEW i \in Ids, DeliverCurrent(i)
    PROVE  Promise!Move
<1>1. /\ requests[i] # None /\ requests[i].answer # None /\ requests[i].current
      /\ server' = server /\ settled' = settled
      /\ handed' \in [Readers -> 0..MaxServer \cup {None}]
  BY DEF DeliverCurrent, IInv, Typed
<1>2. /\ handed' = [r \in Readers |-> IF r \in Subscribers(i) THEN requests[i].answer.value ELSE None]
      /\ reading' = [r \in Readers |-> IF r \in Subscribers(i) THEN Idle ELSE reading[r]]
  BY DEF DeliverCurrent
<1>3. ASSUME NEW r \in Readers PROVE Waits(r) \/ Sees(r)
  <2>1. CASE r \in Subscribers(i)
    <3>1. requests[i].answer.value \in Oldest(r)..server
      BY <1>1, <2>1, AnswerSeen
    <3>2. handed'[r] = requests[i].answer.value /\ reading'[r] = Idle
      BY <1>2, <2>1
    <3> QED
      BY <3>1, <3>2 DEF Sees
  <2>2. CASE r \notin Subscribers(i)
    BY <1>2, <2>2 DEF Waits
  <2> QED
    BY <2>1, <2>2
<1> QED
  BY <1>1, <1>3, IsMove

LEMMA DeliverOutdatedMoves ==
    ASSUME IInv, IInv', NEW i \in Ids, DeliverOutdated(i)
    PROVE  Promise!Move
<1>1. /\ requests[i] # None /\ requests[i].answer # None /\ ~requests[i].current
      /\ server' = server /\ settled' = settled
      /\ handed' \in [Readers -> 0..MaxServer \cup {None}]
  BY DEF DeliverOutdated, IInv, Typed
<1>2. PICK k, all : k = requests[i].mode[1] /\ all = Subscribers(i)
  OBVIOUS
<1>3. PICK reads : reads = {r \in all : reading[r].kind = "read"}
  OBVIOUS
<1>4. handed' = [r \in Readers |->
         IF r \in all \ reads THEN requests[i].answer.value
         ELSE IF r \in reads /\ HasSaved(models, k) THEN EntryOf(models, k).value ELSE None]
  BY <1>2, <1>3 DEF DeliverOutdated
<1>5. HasSaved(models, k) => EntryOf(models, k).value \in settled..server
  BY SavedValue DEF IInv, HasSaved
<1>6. PICK next : \/ reading' = [r \in Readers |-> IF r \in all THEN Idle ELSE reading[r]]
                     /\ (reads = {} \/ HasSaved(models, k))
                  \/ reading' = [r \in Readers |->
                        IF r \in all \ reads THEN Idle
                        ELSE IF r \in reads THEN [reading[r] EXCEPT !.req = next]
                        ELSE reading[r]]
  <2>1. PICK m : m = <<k, HasSaved(models, k)>>
    OBVIOUS
  <2>2. PICK n : n = IF pendingReads[m] # None THEN pendingReads[m] ELSE i
    OBVIOUS
  <2>3. \/ reading' = [r \in Readers |-> IF r \in all THEN Idle ELSE reading[r]]
           /\ (reads = {} \/ HasSaved(models, k))
        \/ reading' = [r \in Readers |->
              IF r \in all \ reads THEN Idle
              ELSE IF r \in reads THEN [reading[r] EXCEPT !.req = n]
              ELSE reading[r]]
    BY <1>2, <1>3, <2>1, <2>2, Zenon DEF DeliverOutdated, Reusable
  <2> QED
    BY <2>3
<1>7. ASSUME NEW r \in Readers PROVE Waits(r) \/ Sees(r) \/ Stops(r)
  <2>1. CASE r \in all \ reads
    <3>1. reading[r] \in Reading /\ reading[r].kind = "get"
      BY <1>2, <1>3, <2>1, ShownReading DEF Subscribers, IInv, NetInv, NetTyped
    <3>2. reading'[r] = Idle /\ handed'[r] = requests[i].answer.value
      BY <1>4, <1>6, <2>1
    <3>3. requests[i].answer.value \in Oldest(r)..server
      BY <1>1, <1>2, <2>1, <3>1, AnswerSeen
    <3> QED
      BY <3>2, <3>3 DEF Sees
  <2>2. CASE r \in reads
    <3>1. reading[r] \in Reading /\ reading[r].kind = "read" /\ Oldest(r) = settled
      BY <1>2, <1>3, <2>2 DEF Subscribers, IInv, NetInv, NetTyped, Oldest
    <3>2. reading'[r] = Idle \/ reading'[r] = [reading[r] EXCEPT !.req = next]
      BY <1>3, <1>6, <2>2
    <3>3. reading'[r] = Idle \/ Shown(reading'[r]) = Shown(reading[r])
      <4>1. PICK d \in Reading : d = reading[r]
        BY <3>1
      <4>2. PICK e : e = [d EXCEPT !.req = next]
        OBVIOUS
      <4>3. e.kind = d.kind /\ e.floor = d.floor
        BY <4>2, Zenon DEF Reading
      <4> QED
        BY <3>2, <4>1, <4>2, <4>3 DEF Shown
    <3>4. CASE HasSaved(models, k)
      <4>1. handed'[r] = EntryOf(models, k).value
        BY <1>4, <2>2, <3>4
      <4>2. handed'[r] \in Oldest(r)..server
        BY <1>5, <3>1, <3>4, <4>1
      <4> QED
        BY <3>1, <3>3, <4>2 DEF Sees
    <3>5. CASE ~HasSaved(models, k)
      <4>1. handed'[r] = None
        BY <1>4, <2>2, <3>5
      <4> QED
        BY <3>3, <4>1 DEF Waits, Stops
    <3> QED
      BY <3>4, <3>5
  <2>3. CASE r \notin all
    <3>1. r \notin reads
      BY <1>3, <2>3
    <3>2. reading'[r] = reading[r] /\ handed'[r] = None
      BY <1>4, <1>6, <2>3, <3>1
    <3> QED
      BY <3>2 DEF Waits
  <2> QED
    BY <2>1, <2>2, <2>3
<1> QED
  BY <1>1, <1>7, IsMove

\* Failed, left and reset reads end with nothing shown.
LEMMA EndsMove ==
    ASSUME IInv, server' = server, settled' = settled, handed' = Nothing,
           \A r \in Readers : reading'[r] = Idle \/ reading'[r] = reading[r]
    PROVE  Promise!Move
<1>1. \A r \in Readers : Waits(r) \/ Stops(r)
  BY DEF Waits, Stops, Nothing
<1> QED
  BY <1>1, HandedNothing, IsMove

LEMMA StepKeepsPromise == IInv /\ IInv' /\ [Next]_vars => [Promise!Next]_(Promise!vars)
<1> SUFFICES ASSUME IInv, IInv', [Next]_vars PROVE [Promise!Next]_(Promise!vars)
  OBVIOUS
<1> USE DEF Promise!Next
<1>1. /\ server \in Nat /\ settled \in Nat /\ settled <= server
      /\ reading \in [Readers -> Reading \cup {Idle}]
  BY TypedBounds DEF IInv, NetInv, NetTyped
<1>2. ASSUME NEW r \in Readers, NEW k \in Keys, Read(r, k) \/ Get(r, k)
      PROVE  Promise!Next
  BY <1>2, SubscribeMoves
<1>3. ASSUME NEW r \in Readers, Leave(r) PROVE Promise!Next
  BY <1>1, <1>3, EndsMove DEF Leave
<1>4. ASSUME NEW i \in Ids, Answer(i) PROVE Promise!Next
  BY <1>1, <1>4, IsWrite DEF Answer
<1>5. ASSUME NEW i \in Ids, Deliver(i) PROVE Promise!Next
  BY <1>5, DeliverCurrentMoves, DeliverOutdatedMoves DEF Deliver
<1>6. ASSUME NEW i \in Ids, NEW e \in Errors, Fail(i, e) PROVE Promise!Next
  <2>1. /\ reading' = [r \in Readers |-> IF r \in Subscribers(i) THEN Idle ELSE reading[r]]
        /\ handed' = Nothing /\ server' = server /\ settled' = settled
    BY <1>6 DEF Fail
  <2> QED
    BY <2>1, EndsMove
<1>7. ASSUME NEW w \in Writers,
             BeginWrite(w) \/ Commit(w) \/ EndWrite(w) \/ RefuseWrite(w) \/ LoseWrite(w)
      PROVE  Promise!Next
  <2>1. CASE Commit(w)
    BY <1>1, <2>1, IsWrite DEF Commit
  <2>2. CASE ~Commit(w)
    <3>1. /\ server' = server /\ reading' = reading /\ handed' = Nothing
          /\ settled' = settled \/ settled' = server
      BY <1>7, <2>2 DEF BeginWrite, EndWrite, RefuseWrite, LoseWrite
    <3> QED
      BY <1>1, <3>1, IsWrite
  <2> QED
    BY <2>1, <2>2
<1>8. CASE OtherWrite \/ Refresh \/ \E n \in 1..MaxEntries : Age(n)
  <2>1. /\ server' = server \/ server' = server + 1
        /\ settled' = settled /\ reading' = reading /\ handed' = Nothing
    BY <1>8 DEF OtherWrite, Refresh, Age
  <2> QED
    BY <1>1, <2>1, IsWrite
<1>9. CASE ResetSession
  <2>1. PICK reads : reads = {r \in Readers : reading[r].kind = "read"}
    OBVIOUS
  <2>2. /\ reading' = [r \in Readers |-> IF r \in reads THEN Idle ELSE reading[r]]
        /\ handed' = Nothing /\ server' = server /\ settled' = settled
    BY <1>9, <2>1 DEF ResetSession
  <2> QED
    BY <2>2, EndsMove
<1>10. CASE UNCHANGED vars
  BY <1>10 DEF vars, subs, Promise!vars
<1> QED
  BY <1>2, <1>3, <1>4, <1>5, <1>6, <1>7, <1>8, <1>9, <1>10, Zenon DEF Next

\* However saved models, previews, shared requests and invalidations interleave, the read
\* layer shows pages what DisplayReads promises them: a preview and a refreshed model or
\* one result, none older than an own write that was answered before the result was shown
\* (before the request, for an uncached read).
THEOREM KeepsPromise == Spec => ReadsKeepPromise
<1>1. Init => Promise!Init
  BY DEF Init, Promise!Init, Promise!Idle, Promise!Nothing, Nothing, Idle
<1> QED
  BY <1>1, Inductive, StepKeepsPromise, PTL DEF Spec, ReadsKeepPromise, Promise!Spec
=============================================================================
