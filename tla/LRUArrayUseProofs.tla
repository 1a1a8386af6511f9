------------------------- MODULE LRUArrayUseProofs -------------------------
(***************************************************************************)
(* Proofs about an LRUArray object under any sequence of operations, for   *)
(* any items and sizes.                                                    *)
(***************************************************************************)
EXTENDS LRUArrayUse, OperatorLemmas

(* The two halves of Recency; with the types they are inductive. *)
Sorted == \A i, j \in 1 .. Len(mDeque) : i < j => usedAt[mDeque[i]] > usedAt[mDeque[j]]

Displaced ==
    \A x \in Items \ erased :
        usedAt[x] > 0 /\ x \notin ToSet(mDeque) => Cardinality(LaterThan(x)) >= mSize

LRUInv == LRUTypeOK /\ Sorted /\ Displaced

LEMMA DequeShape ==
    ASSUME NEW s \in Seq(Items)
    PROVE  /\ Len(s) \in Nat /\ DOMAIN s = 1 .. Len(s)
           /\ ToSet(s) = {s[i] : i \in 1 .. Len(s)} /\ ToSet(s) \subseteq Items
           /\ \A x : contains(s, x) <=> x \in ToSet(s)
<1>1. Len(s) \in Nat /\ DOMAIN s = 1 .. Len(s) /\ \A i \in 1 .. Len(s) : s[i] \in Items
  BY LenProperties, ElementOfSeq
<1> QED BY <1>1 DEF ToSet, contains, Contains

(* An array without duplicates has as many items as places in use. *)
LEMMA DequeCount ==
    ASSUME NEW s \in Seq(Items), IsInjective(s)
    PROVE  IsFiniteSet(ToSet(s)) /\ Cardinality(ToSet(s)) = Len(s)
<1> DEFINE D == 1 .. Len(s)
<1>1. Len(s) \in Nat /\ DOMAIN s = D /\ ToSet(s) = {s[i] : i \in D}
  BY DequeShape
<1>2. IsFiniteSet(D) /\ Cardinality(D) = Len(s)
  BY <1>1, FS_Interval
<1>3. s \in [D -> ToSet(s)]
  BY <1>1, LenProperties
<1>4. s \in Surjection(D, ToSet(s)) /\ s \in Injection(D, ToSet(s))
  BY <1>1, <1>3 DEF Surjection, Injection
<1> QED BY <1>2, <1>4, FS_Surjection

LEMMA LaterFinite ==
    ASSUME NEW S, S \subseteq Items, NEW U, U \subseteq S
    PROVE  Cardinality(U) <= Cardinality(S) /\ Cardinality(U) \in Nat /\ Cardinality(S) \in Nat
<1>1. IsFiniteSet(S)
  BY LRUAssumption, FS_Subset
<1>2. IsFiniteSet(U) /\ Cardinality(U) <= Cardinality(S)
  BY <1>1, FS_Subset
<1> QED BY <1>1, <1>2, FS_CardinalityType

LEMMA FreshInv ==
    ASSUME mDeque' = <<>>, uses' = 0, usedAt' = [x \in Items |-> 0], erased' = {},
           mSize' \in 0 .. MaxSize
    PROVE  LRUInv'
<1>1. <<>> \in Seq(Items) /\ Len(<<>>) = 0 /\ lruOk(<<>>, mSize')
  BY LRUAssumption DEF lruOk, IsInjective
<1>2. LRUTypeOK'
  BY <1>1, LRUAssumption DEF LRUTypeOK
<1>3. Sorted' /\ Displaced'
  BY <1>1 DEF Sorted, Displaced
<1> QED BY <1>2, <1>3 DEF LRUInv

LEMMA InitLRUInv == LRUInit => LRUInv
<1> SUFFICES ASSUME LRUInit PROVE LRUInv
  OBVIOUS
<1>1. <<>> \in Seq(Items) /\ Len(<<>>) = 0 /\ lruOk(<<>>, mSize)
  BY LRUAssumption DEF lruOk, IsInjective, LRUInit
<1>2. LRUTypeOK
  BY <1>1, LRUAssumption DEF LRUTypeOK, LRUInit
<1>3. Sorted /\ Displaced
  BY <1>1 DEF Sorted, Displaced, LRUInit
<1> QED BY <1>2, <1>3 DEF LRUInv

LEMMA UpdateInv == ASSUME LRUInv, NEW x \in Items, Update(x) PROVE LRUInv'
<1> DEFINE u == update(mDeque, mSize, x)
<1>0. /\ mDeque \in Seq(Items) /\ lruOk(mDeque, mSize) /\ mSize \in Nat /\ mSize \in 0 .. MaxSize
      /\ usedAt \in [Items -> 0 .. uses] /\ uses \in Nat /\ uses < MaxUses
  BY LRUAssumption DEF LRUInv, LRUTypeOK, Update
<1>1. mDeque' = u /\ mSize' = mSize /\ erased' = erased \ {x} /\ uses' = uses + 1
  BY DEF Update
<1>2. /\ u \in Seq(Items) /\ lruOk(u, mSize)
  BY <1>0, UpdateKeeps
<1>3. /\ usedAt' \in [Items -> 0 .. uses'] /\ usedAt'[x] = uses + 1
      /\ \A y \in Items \ {x} : usedAt'[y] = usedAt[y]
  BY <1>0, <1>1 DEF Update
<1>4. LRUTypeOK'
  BY <1>0, <1>1, <1>2, <1>3, LRUAssumption DEF LRUInv, LRUTypeOK
<1>5. \A y \in Items : usedAt[y] \in Nat /\ usedAt[y] <= uses /\ usedAt'[y] >= usedAt[y]
                       /\ usedAt'[y] \in Nat
  BY <1>0, <1>1, <1>3
<1>6. ASSUME NEW z \in Items, z # x
      PROVE  LaterThan(z) \subseteq LaterThan(z)'
  <2> SUFFICES ASSUME NEW y \in Items, usedAt[y] > usedAt[z] PROVE usedAt'[y] > usedAt'[z]
    BY DEF LaterThan
  <2>1. usedAt'[z] = usedAt[z]
    BY <1>3, <1>6
  <2> QED BY <1>5, <2>1
<1>7. CASE mSize = 0
  <2>1. mDeque' = mDeque
    BY <1>1, <1>7 DEF update
  <2>2. Len(mDeque) = 0
    BY <1>0, <1>7, LenProperties DEF lruOk
  <2>3. Sorted'
    BY <2>1, <2>2 DEF Sorted
  <2>4. Displaced'
    <3>1. \A z : LaterThan(z)' \subseteq Items
      BY DEF LaterThan
    <3>2. \A z : Cardinality(LaterThan(z)') \in Nat
      BY <3>1, LaterFinite
    <3> QED BY <1>1, <1>7, <3>2 DEF Displaced
  <2> QED BY <1>4, <2>3, <2>4 DEF LRUInv
<1>8. CASE mSize > 0
  <2>1. /\ Len(u) \in 1 .. mSize /\ u[1] = x
        /\ \A i \in 2 .. Len(u) : u[i] \in ToSet(mDeque) \ {x}
        /\ \A i, j \in 2 .. Len(u) : i < j => Ordered(u, mDeque, i, u[j])
        /\ \A y \in ToSet(mDeque) \ ToSet(u) :
             Len(u) = mSize /\ \A i \in 2 .. Len(u) : Ordered(u, mDeque, i, y)
    BY <1>0, <1>8, UpdateShape
  <2> HIDE DEF u
  <2>2. ToSet(mDeque) \subseteq Items /\ ToSet(u) = {u[i] : i \in 1 .. Len(u)} /\ Len(u) \in Nat
        /\ ToSet(u) \subseteq Items
    BY <1>0, <1>2, DequeShape
  <2>3. ASSUME NEW i \in 2 .. Len(u), NEW y \in Items, Ordered(u, mDeque, i, y)
        PROVE  usedAt[u[i]] > usedAt[y]
    BY <2>3 DEF Ordered, LRUInv, Sorted
  <2>4. ASSUME NEW i \in 2 .. Len(u) PROVE u[i] \in Items /\ u[i] # x /\ usedAt'[u[i]] = usedAt[u[i]]
    BY <1>3, <2>1, <2>2
  <2>5. Sorted'
    <3> SUFFICES ASSUME NEW i \in 1 .. Len(u), NEW j \in 1 .. Len(u), i < j
                 PROVE  usedAt'[u[i]] > usedAt'[u[j]]
      BY <1>1 DEF Sorted
    <3>1. j \in 2 .. Len(u) /\ (i = 1 \/ i \in 2 .. Len(u))
      BY <2>2
    <3>2. CASE i = 1
      BY <1>0, <1>3, <1>5, <2>1, <2>4, <3>1, <3>2
    <3>3. CASE i \in 2 .. Len(u)
      <4>1. Ordered(u, mDeque, i, u[j])
        BY <2>1, <3>1, <3>3
      <4> QED BY <2>3, <2>4, <3>1, <3>3, <4>1
    <3> QED BY <3>1, <3>2, <3>3
  <2>6. Displaced'
    <3> SUFFICES ASSUME NEW z \in Items \ (erased \ {x}), usedAt'[z] > 0, z \notin ToSet(u)
                 PROVE  Cardinality(LaterThan(z)') >= mSize
      BY <1>1 DEF Displaced
    <3>1. x \in ToSet(u)
      BY <2>1, <2>2
    <3>2. z # x /\ z \notin erased /\ usedAt[z] > 0 /\ usedAt'[z] = usedAt[z]
      BY <1>3, <3>1
    <3>3. LaterThan(z)' \subseteq Items
      BY DEF LaterThan
    <3>4. CASE z \notin ToSet(mDeque)
      <4>1. Cardinality(LaterThan(z)) >= mSize
        BY <3>2, <3>4 DEF LRUInv, Displaced
      <4>2. /\ Cardinality(LaterThan(z)) <= Cardinality(LaterThan(z)')
            /\ Cardinality(LaterThan(z)) \in Nat /\ Cardinality(LaterThan(z)') \in Nat
        BY <1>6, <3>2, <3>3, LaterFinite
      <4> QED BY <1>0, <4>1, <4>2
    <3>5. CASE z \in ToSet(mDeque)
      <4>1. Len(u) = mSize /\ \A i \in 2 .. Len(u) : Ordered(u, mDeque, i, z)
        BY <2>1, <3>5
      <4>2. ASSUME NEW i \in 1 .. Len(u) PROVE u[i] \in LaterThan(z)'
        <5>1. CASE i = 1
          BY <1>0, <1>3, <1>5, <2>1, <3>2, <5>1 DEF LaterThan
        <5>2. CASE i # 1
          <6>1. i \in 2 .. Len(u)
            BY <2>2, <5>2
          <6>2. usedAt[u[i]] > usedAt[z]
            BY <2>3, <4>1, <6>1
          <6> QED BY <2>4, <3>2, <6>1, <6>2 DEF LaterThan
        <5> QED BY <5>1, <5>2
      <4>3. ToSet(u) \subseteq LaterThan(z)'
        BY <2>2, <4>2
      <4>4. Cardinality(ToSet(u)) = mSize
        BY <1>2, <4>1, DequeCount DEF lruOk
      <4>5. Cardinality(ToSet(u)) <= Cardinality(LaterThan(z)') /\ Cardinality(LaterThan(z)') \in Nat
        BY <3>3, <4>3, LaterFinite
      <4> QED BY <1>0, <4>4, <4>5
    <3> QED BY <3>4, <3>5
  <2> QED BY <1>4, <2>5, <2>6 DEF LRUInv
<1> QED BY <1>0, <1>7, <1>8

LEMMA EraseInv == ASSUME LRUInv, NEW x \in Items, Erase(x) PROVE LRUInv'
<1> DEFINE e == erase(mDeque, x)
<1>0. /\ mDeque \in Seq(Items) /\ Len(mDeque) <= mSize /\ IsInjective(mDeque) /\ mSize \in Nat
      /\ Len(mDeque) \in Nat
  BY LRUAssumption, LenProperties DEF LRUInv, LRUTypeOK, lruOk
<1>1. /\ mDeque' = e /\ erased' = erased \cup {x}
      /\ mSize' = mSize /\ uses' = uses /\ usedAt' = usedAt
  BY DEF Erase
<1>2. /\ e \in Seq(Items) /\ Len(e) <= Len(mDeque) /\ ToSet(e) = ToSet(mDeque) \ {x}
      /\ IsInjective(e)
  BY <1>0, EraseKeeps
<1>3. PICK g \in [1 .. Len(e) -> 1 .. Len(mDeque)] :
        /\ \A i \in 1 .. Len(e) : e[i] = mDeque[g[i]]
        /\ \A i, j \in 1 .. Len(e) : i < j => g[i] < g[j]
  BY <1>0, EraseKeeps
<1> HIDE DEF e
<1>4. Len(e) \in Nat /\ Len(e) <= mSize
  <2>1. Len(e) \in Nat
    BY <1>2, LenProperties
  <2> QED BY <1>0, <1>2, <2>1
<1>5. LRUTypeOK'
  BY <1>1, <1>2, <1>4 DEF LRUInv, LRUTypeOK, lruOk
<1>6. Sorted'
  BY <1>1, <1>3 DEF LRUInv, Sorted
<1>7. \A z : LaterThan(z)' = LaterThan(z)
  BY <1>1 DEF LaterThan
<1>8. Displaced'
  BY <1>1, <1>2, <1>7 DEF LRUInv, Displaced
<1> QED BY <1>5, <1>6, <1>8 DEF LRUInv

LEMMA AlwaysLRUInv == LRUSpec => []LRUInv
<1>1. ASSUME LRUInv, [LRUNext]_lruVars PROVE LRUInv'
  <2>1. CASE Clear
    BY <1>1, <2>1, FreshInv DEF Clear, Fresh, LRUInv, LRUTypeOK
  <2>2. ASSUME NEW x \in Items, Update(x) PROVE LRUInv'
    BY <1>1, <2>2, UpdateInv
  <2>3. ASSUME NEW x \in Items, Erase(x) PROVE LRUInv'
    BY <1>1, <2>3, EraseInv
  <2>4. CASE UNCHANGED lruVars
    BY <1>1, <2>4 DEF lruVars, LRUInv, LRUTypeOK, Sorted, Displaced, LaterThan
  <2> QED BY <1>1, <2>1, <2>2, <2>3, <2>4 DEF LRUNext
<1> QED BY <1>1, InitLRUInv, PTL DEF LRUSpec

(* For any items and sizes: no operation leaves a duplicate in the array, or   *)
(* more items than its size.  LRUArray.hpp:10-12, 23-78.                       *)
THEOREM ArrayBounded == LRUSpec => []LRUTypeOK
<1>1. LRUInv => LRUTypeOK
  BY DEF LRUInv
<1> QED BY <1>1, AlwaysLRUInv, PTL

(* For any items and sizes: the array is in the order of the last uses, and an *)
(* item that was not erased has been displaced only by as many later ones as   *)
(* the array has room for.  LRUArray.hpp:23-58.                                *)
THEOREM LeastRecentLeaves == LRUSpec => []Recency
<1>1. ASSUME LRUInv PROVE Recency
  <2>1. /\ DOMAIN mDeque = 1 .. Len(mDeque)
        /\ \A x : contains(mDeque, x) <=> x \in ToSet(mDeque)
    BY <1>1, DequeShape DEF LRUInv, LRUTypeOK
  <2>2. \A i, j \in DOMAIN mDeque : i < j => usedAt[mDeque[i]] > usedAt[mDeque[j]]
    BY <1>1, <2>1 DEF LRUInv, Sorted
  <2>3. \A x \in Items \ erased :
          usedAt[x] > 0 /\ ~contains(mDeque, x) => Cardinality(LaterThan(x)) >= mSize
    BY <1>1, <2>1 DEF LRUInv, Displaced
  <2> QED BY <2>2, <2>3 DEF Recency
<1> QED BY <1>1, AlwaysLRUInv, PTL

=============================================================================
