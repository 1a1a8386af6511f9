--------------------------- MODULE TrafficLedger ---------------------------
(***************************************************************************)
(* What ntmd promises about the traffic it accounts for, without threads,  *)
(* locks or a database.  Every byte handed to the traffic storage is at    *)
(* any moment in exactly one of three places: buffered in memory, stored   *)
(* in the database, or lost.  Bytes leave the buffer only all together.    *)
(***************************************************************************)
EXTENDS Naturals

CONSTANTS Names,    \* application names (the comm of a process)
          Dir,      \* the two directions of a packet
          Lens      \* packet lengths

VARIABLES buffered, stored, lost

ledger == <<buffered, stored, lost>>

Accounts == [Names -> [Dir -> Nat]]

Zero == [n \in Names |-> [d \in Dir |-> 0]]

LedgerInit ==
    /\ buffered = Zero
    /\ stored = Zero
    /\ lost = Zero

(* A packet of k bytes is added to the buffer. *)
Count(n, d, k) ==
    /\ buffered' = [buffered EXCEPT ![n][d] = @ + k]
    /\ UNCHANGED <<stored, lost>>

(* A packet of k bytes never reaches the buffer. *)
Miss(n, d, k) ==
    /\ lost' = [lost EXCEPT ![n][d] = @ + k]
    /\ UNCHANGED <<buffered, stored>>

(* The buffer is emptied: the traffic of the names in S becomes history, the *)
(* traffic of the others is gone.  A crash is the case S = {}.               *)
Flush(S) ==
    /\ buffered' = Zero
    /\ stored' = [n \in Names |-> [d \in Dir |->
                    stored[n][d] + IF n \in S THEN buffered[n][d] ELSE 0]]
    /\ lost' = [n \in Names |-> [d \in Dir |->
                    lost[n][d] + IF n \in S THEN 0 ELSE buffered[n][d]]]

LedgerNext ==
    \/ \E n \in Names, d \in Dir, k \in Lens : Count(n, d, k) \/ Miss(n, d, k)
    \/ \E S \in SUBSET Names : Flush(S)

LedgerSpec == LedgerInit /\ [][LedgerNext]_ledger

=============================================================================
