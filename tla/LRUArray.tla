------------------------------ MODULE LRUArray ------------------------------
(***************************************************************************)
(* The least recently used array of util/LRUArray.hpp as operators on a    *)
(* sequence whose first element is the front of the deque.                 *)
(***************************************************************************)
EXTENDS Integers, SequencesExt

contains(deque, item) == Contains(deque, item)

(* std::find and erase of the first occurrence, if there is one *)
erase(deque, item) == RemoveFirst(deque, item)

(* Mutant: an item that is already in the array is not taken out first. *)
updateDuplicate(deque, size, item) ==
    IF size = 0 THEN deque
    ELSE IF deque # <<>> /\ Head(deque) = item THEN deque
    ELSE <<item>> \o IF Len(deque) = size THEN Front(deque) ELSE deque

(* Mutant: room is made before the item is looked for. *)
updateEarly(deque, size, item) ==
    IF size = 0 THEN deque
    ELSE IF deque # <<>> /\ Head(deque) = item THEN deque
    ELSE <<item>> \o erase(IF Len(deque) = size THEN Front(deque) ELSE deque, item)

(* Mutant: the last item is not dropped when the array is full. *)
updateGrow(deque, size, item) ==
    IF size = 0 THEN deque
    ELSE IF deque # <<>> /\ Head(deque) = item THEN deque
    ELSE <<item>> \o erase(deque, item)

update(deque, size, item) ==
    IF size = 0 THEN deque
    ELSE IF deque # <<>> /\ Head(deque) = item THEN deque
    ELSE LET rest == erase(deque, item)
         IN  <<item>> \o IF Len(rest) = size THEN Front(rest) ELSE rest

(* What the class comment promises: no duplicates, never above its size. *)
lruOk(deque, size) == Len(deque) <= size /\ IsInjective(deque)

=============================================================================
