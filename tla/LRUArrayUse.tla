---------------------------- MODULE LRUArrayUse ----------------------------
(***************************************************************************)
(* An LRUArray object under any sequence of its operations, compared with  *)
(* what the comment of the class in util/LRUArray.hpp says of it.  Every   *)
(* use of an item is given a number, up to a bound.                        *)
(***************************************************************************)
EXTENDS LRUArray

CONSTANTS
    Items,
    MaxSize,      \* sizes from zero, which disables the array, to this one
    MaxUses       \* bound on the updates between two clears

ASSUME LRUAssumption == IsFiniteSet(Items) /\ MaxSize \in Nat /\ MaxUses \in Nat

VARIABLES
    mDeque,
    mSize,
    uses,         \* history: the number of updates
    usedAt,       \* history: the last update of an item, 0 if there was none
    erased        \* history: items erased since their last update

lruVars == <<mDeque, mSize, uses, usedAt, erased>>

Fresh ==
    /\ mDeque' = <<>>
    /\ uses' = 0
    /\ usedAt' = [x \in Items |-> 0]
    /\ erased' = {}

LRUInit ==
    /\ mSize \in 0 .. MaxSize
    /\ mDeque = <<>>
    /\ uses = 0
    /\ usedAt = [x \in Items |-> 0]
    /\ erased = {}

Update(x) ==
    /\ uses < MaxUses
    /\ mDeque' = update(mDeque, mSize, x)
    /\ uses' = uses + 1
    /\ usedAt' = [usedAt EXCEPT ![x] = uses + 1]
    /\ erased' = erased \ {x}
    /\ UNCHANGED mSize

Erase(x) ==
    /\ contains(mDeque, x)
    /\ mDeque' = erase(mDeque, x)
    /\ erased' = erased \cup {x}
    /\ UNCHANGED <<mSize, uses, usedAt>>

Clear == Fresh /\ UNCHANGED mSize

LRUNext == Clear \/ \E x \in Items : Update(x) \/ Erase(x)

LRUSpec == LRUInit /\ [][LRUNext]_lruVars

-----------------------------------------------------------------------------
(* The types, and LRUArray.hpp:10-12: "Duplicate elements will be discarded", *)
(* and the array does not grow above its size.                                *)
LRUTypeOK ==
    /\ mDeque \in Seq(Items)
    /\ mSize \in 0 .. MaxSize
    /\ lruOk(mDeque, mSize)
    /\ uses \in 0 .. MaxUses
    /\ usedAt \in [Items -> 0 .. uses]
    /\ erased \subseteq Items

LaterThan(x) == {y \in Items : usedAt[y] > usedAt[x]}

(* The array is sorted by the last use, and an item that was not erased is    *)
(* missing only if as many others were used after it as the array has room    *)
(* for (LRUArray.hpp:41-58).                                                  *)
Recency ==
    /\ \A i, j \in DOMAIN mDeque : i < j => usedAt[mDeque[i]] > usedAt[mDeque[j]]
    /\ \A x \in Items \ erased :
         usedAt[x] > 0 /\ ~contains(mDeque, x) => Cardinality(LaterThan(x)) >= mSize

=============================================================================
