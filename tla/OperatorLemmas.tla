--------------------------- MODULE OperatorLemmas ---------------------------
(***************************************************************************)
(* Lemmas about the operators the models are built from: least numbers,    *)
(* what the operators of LRUArray return for sequences of any length over  *)
(* any set of items, and sums over finite sets.                            *)
(***************************************************************************)
EXTENDS LRUArray, SequenceTheorems, FiniteSetTheorems, TLAPS

(* A set of numbers that is not empty has a least element. *)
LEMMA MinimalIn ==
    ASSUME NEW R, NEW I, IsWellFoundedOn(R, Nat), I \subseteq Nat, I # {}
    PROVE  \E m \in I : \A k \in I : ~(<<k, m>> \in R)
BY WFMin

LEMMA LeastIn ==
    ASSUME NEW R, IsWellFoundedOn(R, Nat), \A a, b \in Nat : a < b => <<a, b>> \in R,
           NEW I, I \subseteq Nat, I # {}
    PROVE  \E m \in I : \A k \in I : m <= k
<1>1. \E m \in I : \A k \in I : ~(<<k, m>> \in R)
  BY MinimalIn
<1>2. PICK m \in I : \A k \in I : ~(<<k, m>> \in R)
  BY <1>1
<1>3. ASSUME NEW k \in I PROVE m <= k
  <2>1. k \in Nat /\ m \in Nat
    OBVIOUS
  <2>2. ~(k < m)
    BY <1>2, <2>1
  <2> QED BY <2>1, <2>2
<1> QED BY <1>3

LEMMA LeastNumber ==
    ASSUME NEW I, I \subseteq Nat, I # {}
    PROVE  \E m \in I : \A k \in I : m <= k
<1>1. ASSUME NEW a \in Nat, NEW b \in Nat, a < b PROVE <<a, b>> \in OpToRel(<, Nat)
  <2>1. <<a, b>> \in Nat \X Nat /\ <<a, b>>[1] = a /\ <<a, b>>[2] = b
    OBVIOUS
  <2> QED BY <1>1, <2>1 DEF OpToRel
<1> QED BY <1>1, NatLessThanWellFounded, LeastIn, Zenon

LEMMA MinIn ==
    ASSUME NEW I, I \subseteq Nat, I # {}
    PROVE  Min(I) \in I
BY LeastNumber DEF Min

-----------------------------------------------------------------------------
(* The array. *)

(* erase takes out one occurrence of the item and closes the gap; without an   *)
(* occurrence it does nothing.  LRUArray.hpp:68-73.                            *)
LEMMA EraseShape ==
    ASSUME NEW T, NEW s \in Seq(T), NEW x
    PROVE  \/ ~contains(s, x) /\ erase(s, x) = s
           \/ \E k \in 1 .. Len(s) :
                /\ s[k] = x
                /\ erase(s, x) \in Seq(T)
                /\ Len(erase(s, x)) = Len(s) - 1
                /\ \A i \in 1 .. Len(s) - 1 : erase(s, x)[i] = s[IF i < k THEN i ELSE i + 1]
<1>1. CASE ~contains(s, x)
  BY <1>1 DEF contains, Contains, erase, RemoveFirst
<1>2. CASE contains(s, x)
  <2> DEFINE I == {i \in 1 .. Len(s) : s[i] = x}
             k == Min(I)
             a == SubSeq(s, 1, k - 1)
             b == SubSeq(s, k + 1, Len(s))
  <2>0. Len(s) \in Nat /\ \A i \in 1 .. Len(s) : s[i] \in T
    BY LenProperties, ElementOfSeq
  <2>1. I # {} /\ I \subseteq Nat
    BY <1>2, <2>0 DEF contains, Contains
  <2>2. k \in I
    BY <2>1, MinIn
  <2>3. k \in 1 .. Len(s) /\ s[k] = x
    BY <2>2
  <2>4. erase(s, x) = a \o b
    BY <1>2, <2>1 DEF contains, Contains, erase, RemoveFirst, RemoveAt, SelectInSeq
  <2> HIDE DEF I, k
  <2>5. /\ a \in Seq(T) /\ Len(a) = k - 1
        /\ \A i \in 1 .. k - 1 : a[i] = s[i]
    BY <2>0, <2>3, SubSeqProperties
  <2>6. /\ b \in Seq(T) /\ Len(b) = Len(s) - k
        /\ \A i \in 1 .. Len(s) - k : b[i] = s[k + i]
    BY <2>0, <2>3, SubSeqProperties
  <2> HIDE DEF a, b
  <2>7. /\ a \o b \in Seq(T) /\ Len(a \o b) = Len(s) - 1
        /\ \A i \in 1 .. Len(s) - 1 : (a \o b)[i] = s[IF i < k THEN i ELSE i + 1]
    <3>1. /\ a \o b \in Seq(T) /\ Len(a \o b) = Len(a) + Len(b)
          /\ \A i \in 1 .. Len(a) + Len(b) :
               (a \o b)[i] = IF i <= Len(a) THEN a[i] ELSE b[i - Len(a)]
      BY <2>5, <2>6, ConcatProperties
    <3>2. Len(a) + Len(b) = Len(s) - 1
      BY <2>0, <2>3, <2>5, <2>6
    <3>3. ASSUME NEW i \in 1 .. Len(s) - 1
          PROVE  (a \o b)[i] = s[IF i < k THEN i ELSE i + 1]
      <4>1. CASE i < k
        <5>1. i \in 1 .. k - 1 /\ i <= Len(a) /\ i \in 1 .. Len(a) + Len(b)
          BY <2>3, <2>5, <3>2, <4>1
        <5> QED BY ONLY <4>1, <5>1, <2>5, <3>1
      <4>2. CASE ~(i < k)
        <5>1. i - Len(a) \in 1 .. Len(s) - k /\ ~(i <= Len(a)) /\ i \in 1 .. Len(a) + Len(b)
          BY <2>0, <2>3, <2>5, <3>2, <4>2
        <5>2. k + (i - Len(a)) = i + 1
          BY <2>3, <2>5
        <5>3. (a \o b)[i] = b[i - Len(a)] /\ b[i - Len(a)] = s[k + (i - Len(a))]
          BY ONLY <5>1, <2>6, <3>1
        <5> QED BY ONLY <4>2, <5>2, <5>3
      <4> QED BY <4>1, <4>2
    <3> QED BY <3>1, <3>2, <3>3
  <2> QED BY <2>3, <2>4, <2>7
<1> QED BY <1>1, <1>2

(* erase keeps the order, the absence of duplicates and the bound, adds no     *)
(* item and takes out no other one; of an array without duplicates it leaves   *)
(* no occurrence.                                                              *)
LEMMA EraseKeeps ==
    ASSUME NEW T, NEW s \in Seq(T), NEW x, IsInjective(s)
    PROVE  /\ erase(s, x) \in Seq(T)
           /\ Len(erase(s, x)) <= Len(s)
           /\ contains(s, x) => Len(erase(s, x)) = Len(s) - 1
           /\ ToSet(erase(s, x)) = ToSet(s) \ {x}
           /\ IsInjective(erase(s, x))
           /\ \E g \in [1 .. Len(erase(s, x)) -> 1 .. Len(s)] :
                /\ \A i \in 1 .. Len(erase(s, x)) : erase(s, x)[i] = s[g[i]]
                /\ \A i, j \in 1 .. Len(erase(s, x)) : i < j => g[i] < g[j]
<1>0. Len(s) \in Nat /\ DOMAIN s = 1 .. Len(s)
  BY LenProperties
<1>1. CASE ~contains(s, x) /\ erase(s, x) = s
  <2>1. x \notin ToSet(s)
    BY <1>0, <1>1 DEF contains, Contains, ToSet
  <2> DEFINE g == [i \in 1 .. Len(s) |-> i]
  <2>2. /\ g \in [1 .. Len(s) -> 1 .. Len(s)]
        /\ \A i \in 1 .. Len(s) : s[i] = s[g[i]]
        /\ \A i, j \in 1 .. Len(s) : i < j => g[i] < g[j]
    BY <1>0
  <2>3. \E f \in [1 .. Len(s) -> 1 .. Len(s)] :
           /\ \A i \in 1 .. Len(s) : s[i] = s[f[i]]
           /\ \A i, j \in 1 .. Len(s) : i < j => f[i] < f[j]
    BY <2>2
  <2>4. ToSet(s) = ToSet(s) \ {x} /\ Len(s) <= Len(s)
    BY <1>0, <2>1
  <2> QED BY <1>1, <2>3, <2>4
<1>2. ASSUME NEW k \in 1 .. Len(s), s[k] = x, erase(s, x) \in Seq(T),
             Len(erase(s, x)) = Len(s) - 1,
             \A i \in 1 .. Len(s) - 1 : erase(s, x)[i] = s[IF i < k THEN i ELSE i + 1]
      PROVE  /\ erase(s, x) \in Seq(T)
             /\ Len(erase(s, x)) <= Len(s)
             /\ contains(s, x) => Len(erase(s, x)) = Len(s) - 1
             /\ ToSet(erase(s, x)) = ToSet(s) \ {x}
             /\ IsInjective(erase(s, x))
             /\ \E g \in [1 .. Len(erase(s, x)) -> 1 .. Len(s)] :
                  /\ \A i \in 1 .. Len(erase(s, x)) : erase(s, x)[i] = s[g[i]]
                  /\ \A i, j \in 1 .. Len(erase(s, x)) : i < j => g[i] < g[j]
  <2> DEFINE e == erase(s, x)
             n == Len(s) - 1
             at(i) == IF i < k THEN i ELSE i + 1
             g == [i \in 1 .. n |-> at(i)]
  <2>1. e \in Seq(T) /\ Len(e) = n /\ DOMAIN e = 1 .. n
    BY <1>2, LenProperties
  <2>2. \A i \in 1 .. n : e[i] = s[at(i)] /\ at(i) \in 1 .. Len(s) /\ at(i) # k
    BY <1>0, <1>2
  <2>3. \A i, j \in 1 .. n : i < j => at(i) < at(j)
    BY <1>0
  <2>4. \A j \in 1 .. Len(s) : j # k => \E i \in 1 .. n : at(i) = j
    <3> SUFFICES ASSUME NEW j \in 1 .. Len(s), j # k PROVE \E i \in 1 .. n : at(i) = j
      OBVIOUS
    <3>1. CASE j < k
      BY <1>0, <3>1
    <3>2. CASE j > k
      <4>1. j - 1 \in 1 .. n /\ at(j - 1) = j
        BY <1>0, <3>2
      <4> QED BY <4>1
    <3> QED BY <1>0, <3>1, <3>2
  <2>5. \A i \in 1 .. Len(s) : s[i] = x => i = k
    BY <1>0, <1>2 DEF IsInjective
  <2> HIDE DEF e, at, n
  <2>6. ToSet(e) = {e[i] : i \in 1 .. n} /\ ToSet(s) = {s[i] : i \in 1 .. Len(s)}
    BY <1>0, <2>1 DEF ToSet
  <2>7. ToSet(e) = ToSet(s) \ {x}
    <3>1. \A y \in ToSet(e) : y \in ToSet(s) /\ y # x
      BY <2>2, <2>5, <2>6
    <3>2. ASSUME NEW y \in ToSet(s), y # x PROVE y \in ToSet(e)
      <4>1. PICK j \in 1 .. Len(s) : s[j] = y
        BY <2>6
      <4>2. j # k
        BY <1>2, <3>2, <4>1
      <4>3. PICK i \in 1 .. n : at(i) = j
        BY <2>4, <4>2
      <4> QED BY <2>2, <2>6, <4>1, <4>3
    <3> QED BY <3>1, <3>2
  <2>8. IsInjective(e)
    <3> SUFFICES ASSUME NEW i \in 1 .. n, NEW j \in 1 .. n, e[i] = e[j] PROVE i = j
      BY <2>1 DEF IsInjective
    <3>1. at(i) = at(j)
      BY <1>0, <2>2 DEF IsInjective
    <3>2. n \in Int /\ at(i) \in Int
      BY <1>0, <2>2 DEF n
    <3> QED BY <2>3, <3>1, <3>2
  <2>9. \E f \in [1 .. n -> 1 .. Len(s)] :
           /\ \A i \in 1 .. n : e[i] = s[f[i]]
           /\ \A i, j \in 1 .. n : i < j => f[i] < f[j]
    <3>1. g \in [1 .. n -> 1 .. Len(s)] /\ \A i \in 1 .. n : g[i] = at(i)
      BY <2>2
    <3> QED BY <2>2, <2>3, <3>1
  <2>10. Len(e) <= Len(s)
    BY <1>0, <2>1 DEF n
  <2> QED BY <2>1, <2>7, <2>8, <2>9, <2>10 DEF e, n
<1> QED BY <1>1, <1>2, EraseShape

(* emplace_front: the item comes first and the others move back by one. *)
LEMMA PushShape ==
    ASSUME NEW T, NEW e \in Seq(T), NEW x \in T
    PROVE  /\ <<x>> \o e \in Seq(T)
           /\ Len(<<x>> \o e) = Len(e) + 1
           /\ (<<x>> \o e)[1] = x
           /\ \A i \in 2 .. Len(e) + 1 : (<<x>> \o e)[i] = e[i - 1]
<1>1. <<x>> \in Seq(T) /\ Len(<<x>>) = 1 /\ <<x>>[1] = x /\ Len(e) \in Nat
  BY LenProperties
<1>2. /\ <<x>> \o e \in Seq(T)
      /\ Len(<<x>> \o e) = Len(<<x>>) + Len(e)
      /\ \A i \in 1 .. Len(<<x>>) + Len(e) :
           (<<x>> \o e)[i] = IF i <= Len(<<x>>) THEN <<x>>[i] ELSE e[i - Len(<<x>>)]
  BY <1>1, ConcatProperties
<1> QED BY ONLY <1>1, <1>2

(* update, with the array not disabled: a new front, the others in their order *)
(* and, of an array that is full and has not the item, the last one dropped.   *)
(* LRUArray.hpp:23-58.                                                         *)
Ordered(u, s, i, y) == \E a, b \in 1 .. Len(s) : a < b /\ u[i] = s[a] /\ y = s[b]

LEMMA UpdateShape ==
    ASSUME NEW T, NEW s \in Seq(T), NEW x \in T, NEW n \in Nat, n > 0, lruOk(s, n)
    PROVE  LET u == update(s, n, x)
           IN  /\ u \in Seq(T) /\ Len(u) \in 1 .. n
               /\ u[1] = x
               /\ \A i \in 2 .. Len(u) : u[i] \in ToSet(s) \ {x}
               /\ \A i, j \in 2 .. Len(u) : i < j => Ordered(u, s, i, u[j])
               /\ \A y \in ToSet(s) \ ToSet(u) :
                    Len(u) = n /\ \A i \in 2 .. Len(u) : Ordered(u, s, i, y)
<1>0. /\ Len(s) \in Nat /\ DOMAIN s = 1 .. Len(s) /\ Len(s) <= n /\ IsInjective(s)
      /\ ToSet(s) = {s[i] : i \in 1 .. Len(s)}
      /\ \A i, j \in 1 .. Len(s) : s[i] = s[j] => i = j
  BY LenProperties DEF lruOk, ToSet, IsInjective
<1>1. CASE s # <<>> /\ Head(s) = x
  <2>1. update(s, n, x) = s /\ s[1] = x /\ Len(s) \in 1 .. n
    BY <1>0, <1>1, EmptySeq, HeadTailProperties DEF update
  <2>2. \A i \in 2 .. Len(s) : s[i] \in ToSet(s) \ {x}
    BY <1>0, <2>1
  <2>3. \A i, j \in 2 .. Len(s) : i < j => Ordered(s, s, i, s[j])
    BY <1>0 DEF Ordered
  <2> QED BY <2>1, <2>2, <2>3
<1>2. CASE ~(s # <<>> /\ Head(s) = x)
  <2> DEFINE e == erase(s, x)
             r == IF Len(e) = n THEN Front(e) ELSE e
             u == <<x>> \o r
  <2>1. update(s, n, x) = u
    BY <1>2 DEF update
  <2>2. /\ e \in Seq(T) /\ Len(e) \in Nat /\ Len(e) <= n
        /\ DOMAIN e = 1 .. Len(e) /\ \A i \in 1 .. Len(e) : e[i] \in T
        /\ ToSet(e) = ToSet(s) \ {x}
        /\ ToSet(e) = {e[i] : i \in 1 .. Len(e)}
    <3>1. e \in Seq(T) /\ Len(e) <= Len(s) /\ ToSet(e) = ToSet(s) \ {x}
      BY <1>0, EraseKeeps
    <3> HIDE DEF e
    <3>2. Len(e) \in Nat /\ DOMAIN e = 1 .. Len(e) /\ \A i \in 1 .. Len(e) : e[i] \in T
      BY <3>1, LenProperties, ElementOfSeq
    <3>3. ToSet(e) = {e[i] : i \in 1 .. Len(e)}
      BY <3>2 DEF ToSet
    <3>4. Len(e) <= n
      BY ONLY n \in Nat, <1>0, <3>1, <3>2
    <3> QED BY ONLY <3>1, <3>2, <3>3, <3>4
  <2>3. \A i, j \in 1 .. Len(e) : i < j => Ordered(e, s, i, e[j])
    <3>1. PICK g \in [1 .. Len(e) -> 1 .. Len(s)] :
            /\ \A i \in 1 .. Len(e) : e[i] = s[g[i]]
            /\ \A i, j \in 1 .. Len(e) : i < j => g[i] < g[j]
      BY <1>0, EraseKeeps
    <3> QED BY <3>1 DEF Ordered
  <2> HIDE DEF e
  <2>4. /\ r \in Seq(T) /\ Len(r) \in Nat /\ Len(r) < n
        /\ Len(r) = Len(e) \/ (Len(e) = n /\ Len(r) = n - 1)
        /\ \A i \in 1 .. Len(r) : i \in 1 .. Len(e) /\ r[i] = e[i]
    <3>1. CASE Len(e) = n
      <4>1. Front(e) \in Seq(T) /\ Len(Front(e)) = n - 1
            /\ \A i \in 1 .. n - 1 : Front(e)[i] = e[i]
        BY <2>2, <3>1, SubSeqProperties DEF Front
      <4> QED BY <3>1, <4>1
    <3>2. CASE Len(e) # n
      <4>1. r = e
        BY <3>2
      <4>2. Len(e) < n
        <5>1. Len(e) \in Nat /\ Len(e) <= n /\ n \in Nat
          BY <2>2
        <5> QED BY ONLY <3>2, <5>1
      <4> HIDE DEF r
      <4> QED BY ONLY <2>2, <4>1, <4>2
    <3> QED BY <3>1, <3>2
  <2> HIDE DEF r
  <2>5. /\ u \in Seq(T) /\ Len(u) = Len(r) + 1 /\ u[1] = x
        /\ \A i \in 2 .. Len(r) + 1 : u[i] = r[i - 1]
    BY <2>4, PushShape
  <2> HIDE DEF u
  <2>6. ASSUME NEW i \in 2 .. Len(u)
        PROVE  i - 1 \in 1 .. Len(r) /\ i - 1 \in 1 .. Len(e) /\ u[i] = e[i - 1]
    <3>1. i \in 2 .. Len(r) + 1
      BY <2>5
    <3>2. i - 1 \in 1 .. Len(r)
      BY ONLY <3>1, <2>4
    <3> QED BY ONLY <3>1, <3>2, <2>4, <2>5
  <2>7. Len(u) \in 1 .. n /\ \A i \in 2 .. Len(u) : u[i] \in ToSet(s) \ {x}
    <3>1. Len(u) \in 1 .. n
      BY ONLY n \in Nat, <2>4, <2>5
    <3> QED BY ONLY <2>2, <2>6, <3>1
  <2>8. ASSUME NEW i \in 2 .. Len(u), NEW j \in 2 .. Len(u), i < j
        PROVE  Ordered(u, s, i, u[j])
    <3>1. i - 1 < j - 1
      BY <2>8, <2>4, <2>5
    <3>2. Ordered(e, s, i - 1, e[j - 1])
      BY <2>3, <2>6, <3>1
    <3> QED BY <2>6, <3>2 DEF Ordered
  <2>9. ASSUME NEW y \in ToSet(s) \ ToSet(u)
        PROVE  Len(u) = n /\ \A i \in 2 .. Len(u) : Ordered(u, s, i, y)
    <3>1. DOMAIN u = 1 .. Len(u)
      BY <2>5, LenProperties
    <3>2. y # x
      BY <2>4, <2>5, <3>1 DEF ToSet
    <3>3. PICK k \in 1 .. Len(e) : e[k] = y
      BY <2>2, <3>2
    <3>4. ~(k <= Len(r))
      <4> SUFFICES ASSUME k <= Len(r) PROVE FALSE
        OBVIOUS
      <4>0. k \in Nat /\ k >= 1 /\ k <= Len(r)
        BY <2>2
      <4>1. k + 1 \in 2 .. Len(r) + 1 /\ (k + 1) - 1 = k /\ k \in 1 .. Len(r)
        BY ONLY <4>0, <2>4
      <4>2. u[k + 1] = y /\ k + 1 \in DOMAIN u
        BY <2>4, <2>5, <3>1, <3>3, <4>1
      <4> QED BY <4>2 DEF ToSet
    <3>5. Len(e) = n /\ Len(r) = n - 1 /\ k = n
      BY <2>2, <2>4, <3>4
    <3>6. ASSUME NEW i \in 2 .. Len(u) PROVE Ordered(u, s, i, y)
      <4>1. i - 1 \in 1 .. Len(e) /\ i - 1 < k
        BY <2>4, <2>5, <2>6, <3>4
      <4>2. Ordered(e, s, i - 1, e[k])
        BY <2>3, <4>1
      <4> QED BY <2>6, <3>3, <4>2 DEF Ordered
    <3> QED BY <2>4, <2>5, <3>5, <3>6
  <2> QED BY <2>1, <2>5, <2>7, <2>8, <2>9
<1> QED BY <1>1, <1>2

(* update keeps what the class comment promises, for any size, and adds only   *)
(* the item.                                                                   *)
LEMMA UpdateKeeps ==
    ASSUME NEW T, NEW s \in Seq(T), NEW x \in T, NEW n \in Nat, lruOk(s, n)
    PROVE  /\ update(s, n, x) \in Seq(T)
           /\ lruOk(update(s, n, x), n)
           /\ ToSet(update(s, n, x)) \subseteq ToSet(s) \cup {x}
<1>1. CASE n = 0
  BY <1>1 DEF update
<1>2. CASE n > 0
  <2> DEFINE u == update(s, n, x)
  <2>1. /\ u \in Seq(T) /\ Len(u) \in 1 .. n /\ u[1] = x
        /\ \A i \in 2 .. Len(u) : u[i] \in ToSet(s) \ {x}
        /\ \A i, j \in 2 .. Len(u) : i < j => Ordered(u, s, i, u[j])
    BY <1>2, UpdateShape
  <2> HIDE DEF u
  <2>2. DOMAIN u = 1 .. Len(u) /\ Len(u) \in Nat /\ Len(u) <= n
    BY <2>1, LenProperties
  <2>3. /\ \A i, j \in 1 .. Len(s) : s[i] = s[j] => i = j
        /\ Len(s) \in Nat
    BY LenProperties DEF lruOk, IsInjective
  <2>4. ASSUME NEW i \in 1 .. Len(u), NEW j \in 1 .. Len(u), i < j PROVE u[i] # u[j]
    <3>1. CASE i = 1
      BY <2>1, <2>2, <2>4, <3>1
    <3>2. CASE i # 1
      <4>1. i \in 2 .. Len(u) /\ j \in 2 .. Len(u)
        BY <2>2, <2>4, <3>2
      <4>2. Ordered(u, s, i, u[j])
        BY <2>1, <2>4, <4>1
      <4>3. PICK a, b \in 1 .. Len(s) : a < b /\ u[i] = s[a] /\ u[j] = s[b]
        BY <4>2 DEF Ordered
      <4> QED BY <2>3, <4>3
    <3> QED BY <3>1, <3>2
  <2>5. IsInjective(u)
    <3> SUFFICES ASSUME NEW i \in 1 .. Len(u), NEW j \in 1 .. Len(u), u[i] = u[j]
                 PROVE  i = j
      BY <2>2 DEF IsInjective
    <3>1. ~(i < j) /\ ~(j < i)
      BY <2>4
    <3> QED BY <2>2, <3>1
  <2>6. ToSet(u) \subseteq ToSet(s) \cup {x}
    <3> SUFFICES ASSUME NEW i \in 1 .. Len(u) PROVE u[i] \in ToSet(s) \cup {x}
      BY <2>2 DEF ToSet
    <3>1. CASE i = 1
      BY <2>1, <3>1
    <3>2. CASE i # 1
      <4>1. i \in 2 .. Len(u)
        BY <2>2, <3>2
      <4> QED BY <2>1, <4>1
    <3> QED BY <3>1, <3>2
  <2> QED BY <2>1, <2>2, <2>5, <2>6 DEF lruOk, u
<1> QED BY <1>1, <1>2

(* A listing of a finite set as a sequence has exactly its members. *)
LEMMA ListingShape ==
    ASSUME NEW S, IsFiniteSet(S), NEW order \in SetToSeqs(S)
    PROVE  order \in Seq(S) /\ ToSet(order) = S
<1> DEFINE D == 1 .. Cardinality(S)
<1>1. Cardinality(S) \in Nat
  BY FS_CardinalityType
<1>2. order \in [D -> S] /\ \A i, j \in D : i # j => order[i] # order[j]
  BY DEF SetToSeqs
<1>3. IsFiniteSet(D) /\ Cardinality(D) = Cardinality(S)
  BY <1>1, FS_Interval
<1>4. order \in Injection(D, S)
  BY <1>2 DEF Injection, IsInjective
<1>5. order \in Surjection(D, S)
  BY <1>3, <1>4, FS_Injection
<1>6. order \in Seq(S) /\ DOMAIN order = D
  BY <1>1, <1>2
<1>7. \A y \in S : \E i \in D : order[i] = y
  BY <1>5 DEF Surjection
<1> HIDE DEF D
<1>8. ToSet(order) = S
  BY <1>2, <1>6, <1>7 DEF ToSet
<1> QED BY <1>6, <1>8

-----------------------------------------------------------------------------
(* Sums over finite sets. *)

(* A family of subsets of a finite set has a member none of whose elements can *)
(* be taken out without leaving the family.                                    *)
LEMMA SmallestSet ==
    ASSUME NEW U, IsFiniteSet(U), NEW B, B \subseteq SUBSET U, B # {}
    PROVE  \E T \in B : \A x \in T : T \ {x} \notin B
<1>1. \A T \in B : IsFiniteSet(T) /\ Cardinality(T) \in Nat
  BY FS_Subset, FS_CardinalityType
<1> DEFINE I == {Cardinality(T) : T \in B}
<1>2. I \subseteq Nat /\ I # {}
  BY <1>1
<1>3. PICK m \in I : \A k \in I : m <= k
  BY <1>2, LeastNumber, Zenon
<1>4. PICK T \in B : Cardinality(T) = m
  BY <1>3
<1>5. ASSUME NEW x \in T, T \ {x} \in B PROVE FALSE
  <2>1. Cardinality(T \ {x}) = Cardinality(T) - 1
    BY <1>1, FS_RemoveElement
  <2>2. m <= Cardinality(T \ {x})
    BY <1>3, <1>5
  <2> QED BY <1>1, <1>4, <2>1, <2>2
<1> QED BY <1>5

(* The recursion that defines MapThenSumSet, for values given by a function. *)
First(s) == CHOOSE x \in s : TRUE

IsSum(g, f, S) ==
    g = [s \in SUBSET S |-> IF s = {} THEN 0 ELSE f[First(s)] + g[s \ {First(s)}]]

SumOf(f, S) == (CHOOSE g : IsSum(g, f, S))[S]

LEMMA FirstIn == \A s : s # {} => First(s) \in s
BY DEF First

LEMMA SumStep ==
    ASSUME NEW f, NEW S, NEW g, IsSum(g, f, S), NEW s, s \subseteq S
    PROVE  /\ s = {} => g[s] = 0
           /\ s # {} => g[s] = f[First(s)] + g[s \ {First(s)}]
BY DEF IsSum

LEMMA SumUnique ==
    ASSUME NEW f, NEW A, NEW g, IsSum(g, f, A), NEW B, NEW h, IsSum(h, f, B),
           NEW C, IsFiniteSet(C), C \subseteq A, C \subseteq B
    PROVE  g[C] = h[C]
<1> DEFINE Bad == {s \in SUBSET C : g[s] # h[s]}
<1> SUFFICES ASSUME Bad # {} PROVE FALSE
  OBVIOUS
<1>1. PICK T \in Bad : \A x \in T : T \ {x} \notin Bad
  <2>1. Bad \subseteq SUBSET C
    OBVIOUS
  <2> HIDE DEF Bad
  <2> QED BY <2>1, SmallestSet
<1>2. T \subseteq C /\ g[T] # h[T]
  OBVIOUS
<1>3. T # {}
  BY <1>2, SumStep
<1>4. g[T \ {First(T)}] = h[T \ {First(T)}]
  BY <1>1, <1>2, <1>3, FirstIn
<1>5. /\ g[T] = f[First(T)] + g[T \ {First(T)}]
      /\ h[T] = f[First(T)] + h[T \ {First(T)}]
  BY <1>2, <1>3, SumStep
<1> QED BY <1>2, <1>4, <1>5

LEMMA SumExists ==
    ASSUME NEW f, NEW S, IsFiniteSet(S)
    PROVE  \E g : IsSum(g, f, S)
<1> DEFINE Bad == {s \in SUBSET S : ~\E g : IsSum(g, f, s)}
<1> SUFFICES ASSUME Bad # {} PROVE FALSE
  OBVIOUS
<1>1. PICK T \in Bad : \A x \in T : T \ {x} \notin Bad
  <2>1. Bad \subseteq SUBSET S
    OBVIOUS
  <2> HIDE DEF Bad
  <2> QED BY <2>1, SmallestSet
<1>2. T \subseteq S /\ IsFiniteSet(T) /\ ~\E g : IsSum(g, f, T)
  BY FS_Subset
<1> DEFINE Sol(x) == CHOOSE g : IsSum(g, f, T \ {x})
<1>3. ASSUME NEW x \in T PROVE IsSum(Sol(x), f, T \ {x})
  <2>1. T \ {x} \in SUBSET S /\ T \ {x} \notin Bad
    BY <1>1, <1>2
  <2>2. \E g : IsSum(g, f, T \ {x})
    BY <2>1
  <2> QED BY <2>2, Zenon
<1> HIDE DEF Sol, Bad
<1> DEFINE G == [s \in SUBSET T |->
                   IF s = {} THEN 0 ELSE f[First(s)] + Sol(First(s))[s \ {First(s)}]]
<1>4. ASSUME NEW s \in SUBSET T, s # {} PROVE Sol(First(s))[s \ {First(s)}] = G[s \ {First(s)}]
  <2> DEFINE q == First(s)
             u == s \ {q}
             r == First(u)
  <2>1. q \in s /\ q \in T /\ u \subseteq T \ {q} /\ u \in SUBSET T /\ IsSum(Sol(q), f, T \ {q})
    BY <1>3, <1>4, FirstIn
  <2> HIDE DEF q
  <2>a. /\ u = {} => Sol(q)[u] = 0
        /\ u # {} => Sol(q)[u] = f[r] + Sol(q)[u \ {r}]
    <3> DEFINE g == Sol(q)
    <3>1. IsSum(g, f, T \ {q}) /\ u \subseteq T \ {q}
      BY <2>1
    <3> HIDE DEF g, u
    <3>2. /\ u = {} => g[u] = 0
          /\ u # {} => g[u] = f[r] + g[u \ {r}]
      BY <3>1, SumStep
    <3> QED BY <3>2 DEF g
  <2>2. CASE u = {}
    <3>1. Sol(q)[u] = 0
      BY <2>2, <2>a
    <3> QED BY <2>1, <2>2, <3>1 DEF q
  <2>3. CASE u # {}
    <3>1. r \in u /\ r \in T /\ IsSum(Sol(r), f, T \ {r})
      BY <1>3, <2>1, <2>3, FirstIn
    <3>2. G[u] = f[r] + Sol(r)[u \ {r}]
      BY <2>1, <2>3
    <3>3. Sol(q)[u] = f[r] + Sol(q)[u \ {r}]
      BY <2>3, <2>a
    <3>4. IsFiniteSet(u \ {r}) /\ u \ {r} \subseteq T \ {r} /\ u \ {r} \subseteq T \ {q}
      BY <1>2, <2>1, FS_Subset
    <3> HIDE DEF G, u, r
    <3>5. Sol(q)[u \ {r}] = Sol(r)[u \ {r}]
      BY <2>1, <3>1, <3>4, SumUnique
    <3>6. Sol(q)[u] = G[u]
      BY <3>2, <3>3, <3>5
    <3> QED BY <3>6 DEF q, u
  <2> QED BY <2>2, <2>3
<1>5. G = [s \in SUBSET T |-> IF s = {} THEN 0 ELSE f[First(s)] + G[s \ {First(s)}]]
  <2>1. \A s \in SUBSET T : (IF s = {} THEN 0 ELSE f[First(s)] + Sol(First(s))[s \ {First(s)}])
                          = (IF s = {} THEN 0 ELSE f[First(s)] + G[s \ {First(s)}])
    BY <1>4
  <2> QED BY <2>1, Zenon
<1>6. IsSum(G, f, T)
  BY <1>5 DEF IsSum
<1> QED BY <1>2, <1>6

(* The sum of a function, as the library defines it. *)
LEMMA SumFunctionIs ==
    ASSUME NEW f, NEW S, DOMAIN f = S
    PROVE  SumFunction(f) = SumOf(f, S)
BY DEF SumFunction, SumFunctionOnSet, FoldFunctionOnSet, MapThenFoldSet, SumOf, IsSum, First

(* The sum of a set is the value of its first element and the sum of the rest. *)
LEMMA SumOfSolution ==
    ASSUME NEW f, NEW S, IsFiniteSet(S), NEW g, IsSum(g, f, S), NEW s, s \subseteq S
    PROVE  SumOf(f, s) = g[s]
<1>1. IsFiniteSet(s)
  BY FS_Subset
<1> DEFINE h == CHOOSE k : IsSum(k, f, s)
<1>2. IsSum(h, f, s)
  BY <1>1, SumExists
<1> HIDE DEF h
<1>3. h[s] = g[s]
  BY <1>1, <1>2, SumUnique
<1> QED BY <1>3 DEF SumOf, h

LEMMA SumFirst ==
    ASSUME NEW f, NEW S, IsFiniteSet(S)
    PROVE  /\ S = {} => SumOf(f, S) = 0
           /\ S # {} => SumOf(f, S) = f[First(S)] + SumOf(f, S \ {First(S)})
<1>1. PICK g : IsSum(g, f, S)
  BY SumExists
<1>2. /\ S = {} => g[S] = 0
      /\ S # {} => g[S] = f[First(S)] + g[S \ {First(S)}]
  BY <1>1, SumStep
<1>3. SumOf(f, S) = g[S] /\ SumOf(f, S \ {First(S)}) = g[S \ {First(S)}]
  BY <1>1, SumOfSolution
<1> QED BY <1>2, <1>3

LEMMA SumEmpty == \A f : SumOf(f, {}) = 0
BY FS_EmptySet, SumFirst

LEMMA SumType ==
    ASSUME NEW f, NEW S, IsFiniteSet(S), \A x \in S : f[x] \in Int
    PROVE  SumOf(f, S) \in Int
<1> DEFINE Bad == {s \in SUBSET S : SumOf(f, s) \notin Int}
<1> SUFFICES ASSUME Bad # {} PROVE FALSE
  OBVIOUS
<1>1. PICK T \in Bad : \A x \in T : T \ {x} \notin Bad
  <2>1. Bad \subseteq SUBSET S
    OBVIOUS
  <2> HIDE DEF Bad
  <2> QED BY <2>1, SmallestSet
<1>2. T \subseteq S /\ SumOf(f, T) \notin Int /\ IsFiniteSet(T)
  BY FS_Subset
<1>3. T # {}
  BY <1>2, SumEmpty
<1>4. First(T) \in T /\ SumOf(f, T \ {First(T)}) \in Int
  BY <1>1, <1>2, <1>3, FirstIn
<1>5. SumOf(f, T) = f[First(T)] + SumOf(f, T \ {First(T)})
  BY <1>2, <1>3, SumFirst
<1>6. f[First(T)] \in Int
  BY <1>2, <1>4
<1> QED BY <1>2, <1>4, <1>5, <1>6

(* The order of summation does not matter. *)
LEMMA SumAny ==
    ASSUME NEW f, NEW S, IsFiniteSet(S), \A x \in S : f[x] \in Int, NEW y \in S
    PROVE  SumOf(f, S) = f[y] + SumOf(f, S \ {y})
<1> DEFINE Bad == {s \in SUBSET S : \E x \in s : SumOf(f, s) # f[x] + SumOf(f, s \ {x})}
<1> SUFFICES ASSUME Bad # {} PROVE FALSE
  OBVIOUS
<1>1. PICK T \in Bad : \A x \in T : T \ {x} \notin Bad
  <2>1. Bad \subseteq SUBSET S
    OBVIOUS
  <2> HIDE DEF Bad
  <2> QED BY <2>1, SmallestSet
<1>2. T \subseteq S /\ IsFiniteSet(T)
  BY FS_Subset
<1>3. PICK x \in T : SumOf(f, T) # f[x] + SumOf(f, T \ {x})
  OBVIOUS
<1> DEFINE p == First(T)
           U == (T \ {p}) \ {x}
<1>4. p \in T /\ SumOf(f, T) = f[p] + SumOf(f, T \ {p})
  BY <1>2, <1>3, FirstIn, SumFirst
<1> HIDE DEF p
<1>5. x # p
  BY <1>3, <1>4
<1>6. SumOf(f, T \ {p}) = f[x] + SumOf(f, U)
  <2>1. T \ {p} \notin Bad /\ T \ {p} \in SUBSET S /\ x \in T \ {p}
    BY <1>1, <1>2, <1>4, <1>5
  <2> QED BY <2>1
<1>7. SumOf(f, T \ {x}) = f[p] + SumOf(f, U)
  <2>1. T \ {x} \notin Bad /\ T \ {x} \in SUBSET S /\ p \in T \ {x}
    BY <1>1, <1>2, <1>4, <1>5
  <2>2. (T \ {x}) \ {p} = U
    OBVIOUS
  <2> QED BY <2>1, <2>2
<1>8. f[p] \in Int /\ f[x] \in Int
  BY <1>2, <1>4
<1>9. SumOf(f, U) \in Int
  <2>1. U \subseteq S /\ IsFiniteSet(U)
    BY <1>2, FS_Subset
  <2> QED BY <2>1, SumType
<1> HIDE DEF U
<1> QED BY <1>3, <1>4, <1>6, <1>7, <1>8, <1>9

(* Larger values have a larger sum. *)
LEMMA SumMonotone ==
    ASSUME NEW f, NEW g, NEW S, IsFiniteSet(S),
           \A x \in S : f[x] \in Int /\ g[x] \in Int /\ f[x] <= g[x]
    PROVE  SumOf(f, S) <= SumOf(g, S)
<1> DEFINE Bad == {s \in SUBSET S : ~(SumOf(f, s) <= SumOf(g, s))}
<1> SUFFICES ASSUME Bad # {} PROVE FALSE
  OBVIOUS
<1>1. PICK T \in Bad : \A x \in T : T \ {x} \notin Bad
  <2>1. Bad \subseteq SUBSET S
    OBVIOUS
  <2> HIDE DEF Bad
  <2> QED BY <2>1, SmallestSet
<1>2. T \subseteq S /\ IsFiniteSet(T) /\ ~(SumOf(f, T) <= SumOf(g, T))
  BY FS_Subset
<1>3. T # {}
  BY <1>2, SumEmpty
<1> DEFINE p == First(T)
           U == T \ {p}
<1>4. /\ p \in T /\ SumOf(f, T) = f[p] + SumOf(f, U) /\ SumOf(g, T) = g[p] + SumOf(g, U)
  BY <1>2, <1>3, FirstIn, SumFirst
<1> HIDE DEF p
<1>5. SumOf(f, U) <= SumOf(g, U)
  BY <1>1, <1>2, <1>4
<1>6. SumOf(f, U) \in Int /\ SumOf(g, U) \in Int
  <2>1. U \subseteq S /\ IsFiniteSet(U)
    BY <1>2, FS_Subset
  <2> QED BY <2>1, SumType
<1>7. f[p] \in Int /\ g[p] \in Int /\ f[p] <= g[p]
  BY <1>2, <1>4
<1> HIDE DEF U
<1> QED BY <1>2, <1>4, <1>5, <1>6, <1>7

(* A larger set has a larger sum if the values that it adds are not negative. *)
LEMMA SumGrows ==
    ASSUME NEW f, NEW S, IsFiniteSet(S), NEW R, R \subseteq S,
           \A x \in S : f[x] \in Int, \A x \in S \ R : 0 <= f[x]
    PROVE  SumOf(f, R) <= SumOf(f, S)
<1> DEFINE Bad == {s \in SUBSET S : R \subseteq s /\ ~(SumOf(f, R) <= SumOf(f, s))}
<1> SUFFICES ASSUME Bad # {} PROVE FALSE
  OBVIOUS
<1>1. PICK T \in Bad : \A x \in T : T \ {x} \notin Bad
  <2>1. Bad \subseteq SUBSET S
    OBVIOUS
  <2> HIDE DEF Bad
  <2> QED BY <2>1, SmallestSet
<1>2. /\ T \subseteq S /\ IsFiniteSet(T) /\ IsFiniteSet(R) /\ R \subseteq T
      /\ ~(SumOf(f, R) <= SumOf(f, T))
  BY FS_Subset
<1>3. SumOf(f, R) \in Int
  BY <1>2, SumType
<1>4. T # R
  BY <1>2, <1>3
<1>5. PICK x \in T : x \notin R
  BY <1>2, <1>4
<1>6. SumOf(f, T) = f[x] + SumOf(f, T \ {x})
  BY <1>2, SumAny
<1>7. SumOf(f, R) <= SumOf(f, T \ {x})
  BY <1>1, <1>2, <1>5
<1>8. SumOf(f, T \ {x}) \in Int
  <2>1. T \ {x} \subseteq S /\ IsFiniteSet(T \ {x})
    BY <1>2, FS_Subset
  <2> QED BY <2>1, SumType
<1>9. f[x] \in Int /\ 0 <= f[x]
  BY <1>2, <1>5
<1> QED BY <1>2, <1>3, <1>6, <1>7, <1>8, <1>9

(* One value changes. *)
LEMMA SumPoint ==
    ASSUME NEW f, NEW g, NEW S, IsFiniteSet(S), NEW y \in S,
           \A x \in S : f[x] \in Int /\ g[x] \in Int,
           \A x \in S \ {y} : f[x] = g[x]
    PROVE  SumOf(g, S) = SumOf(f, S) + (g[y] - f[y])
<1> DEFINE U == S \ {y}
<1>1. IsFiniteSet(U) /\ \A x \in U : /\ f[x] \in Int /\ g[x] \in Int
                                     /\ f[x] <= g[x] /\ g[x] <= f[x]
  BY FS_Subset
<1>2. SumOf(f, S) = f[y] + SumOf(f, U) /\ SumOf(g, S) = g[y] + SumOf(g, U)
  BY SumAny
<1> HIDE DEF U
<1>3. SumOf(f, U) \in Int /\ SumOf(g, U) \in Int
  BY <1>1, SumType
<1>4. SumOf(f, U) <= SumOf(g, U) /\ SumOf(g, U) <= SumOf(f, U)
  BY <1>1, SumMonotone
<1> QED BY <1>2, <1>3, <1>4

(* A sum of zeros. *)
LEMMA SumZero ==
    ASSUME NEW S, IsFiniteSet(S)
    PROVE  SumOf([x \in S |-> 0], S) = 0
<1> DEFINE f   == [x \in S |-> 0]
           Bad == {T \in SUBSET S : SumOf(f, T) # 0}
<1>1. \A x \in S : f[x] = 0
  OBVIOUS
<1> HIDE DEF f
<1> SUFFICES ASSUME Bad # {} PROVE FALSE
  BY DEF f
<1>2. PICK T \in Bad : \A x \in T : T \ {x} \notin Bad
  <2>1. Bad \subseteq SUBSET S
    OBVIOUS
  <2> HIDE DEF Bad
  <2> QED BY <2>1, SmallestSet
<1>3. T \subseteq S /\ IsFiniteSet(T) /\ SumOf(f, T) # 0
  BY FS_Subset
<1>4. T # {}
  BY <1>3, SumEmpty
<1>5. First(T) \in T /\ SumOf(f, T) = f[First(T)] + SumOf(f, T \ {First(T)})
  BY <1>3, <1>4, SumFirst, FirstIn
<1>6. SumOf(f, T \ {First(T)}) = 0 /\ f[First(T)] = 0
  BY <1>1, <1>2, <1>3, <1>5
<1> QED BY <1>3, <1>5, <1>6

=============================================================================
