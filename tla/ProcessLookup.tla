--------------------------- MODULE ProcessLookup ---------------------------
(***************************************************************************)
(* What ProcessIndex promises its users.  It learns which process owns a   *)
(* socket by reading whole process directories, it never unlearns, and it *)
(* gives a socket up only if no process had it during the whole lookup.    *)
(* ProcessIndex implements this specification, and ProcessResolver is      *)
(* built on it.                                                            *)
(***************************************************************************)
EXTENDS Integers, FiniteSets

CONSTANTS Pids, Inodes

VARIABLES
    owns,     \* /proc: pid -> inodes of its sockets, for running processes
    known,    \* mProcessMap: inode -> pid, partial
    missing,  \* mCouldNotFind
    lookup    \* the active lookup: its inode, and who has owned it throughout

plVars == <<owns, known, missing, lookup>>

NoLookup == [target |-> {}, steady |-> {}]

OwnersIn(o, i) == {p \in DOMAIN o : i \in o[p]}

PLInit ==
    /\ known = [i \in {} |-> 0]
    /\ missing = {}
    /\ lookup = NoLookup

(* Processes start and end, open and close sockets. *)
SteadyIn(o) == [lookup EXCEPT !.steady = {p \in @ : lookup.target \subseteq
                                            (IF p \in DOMAIN o THEN o[p] ELSE {})}]

Change ==
    /\ lookup' = SteadyIn(owns')
    /\ UNCHANGED <<known, missing>>

(* An inode that is neither known nor given up is looked for. *)
Ask(i) ==
    /\ lookup = NoLookup
    /\ i \notin missing
    /\ i \notin DOMAIN known
    /\ lookup' = [target |-> {i}, steady |-> OwnersIn(owns, i)]
    /\ UNCHANGED <<owns, known, missing>>

(* A process directory is read; if it has the inode the lookup is over. *)
Learn(p) ==
    /\ p \in DOMAIN owns
    /\ known' = [i \in DOMAIN known \cup owns[p] |-> IF i \in owns[p] THEN p ELSE known[i]]
    /\ lookup' = IF lookup.target \cap owns[p] # {} THEN NoLookup ELSE lookup
    /\ UNCHANGED <<owns, missing>>

(* The lookup fails. *)
Miss ==
    /\ lookup # NoLookup
    /\ lookup.steady = {}
    /\ missing' = missing \cup lookup.target
    /\ lookup' = NoLookup
    /\ UNCHANGED <<owns, known>>

(* Failures are forgotten between two lookups. *)
Forget ==
    /\ lookup = NoLookup
    /\ missing' = {}
    /\ UNCHANGED <<owns, known, lookup>>

PLNext ==
    \/ Change
    \/ \E i \in Inodes : Ask(i)
    \/ \E p \in Pids : Learn(p)
    \/ Miss
    \/ Forget

PLSpec == PLInit /\ [][PLNext]_plVars

=============================================================================
