---------------------------- MODULE ProcessIndex ----------------------------
(***************************************************************************)
(* The index from socket inodes to processes (proc/ProcessIndex.cpp).  A   *)
(* lookup that misses searches /proc, first the directories of recently    *)
(* found processes (an LRU cache of pids), then all others, newest first.  *)
(* The search reads one process directory after the other while processes *)
(* are started, end, and open and close sockets.                           *)
(*                                                                         *)
(* A process is its pid: its comm, read with the directory, is not         *)
(* modelled apart.  A socket is open in at most one process.               *)
(***************************************************************************)
EXTENDS LRUArray

CONSTANTS
    Pids,         \* process ids, numbers
    Inodes,       \* inodes of sockets
    CacheSize     \* processCacheSize of the configuration

ASSUME PIAssumption == Pids \subseteq Nat /\ IsFiniteSet(Pids) /\ CacheSize \in Nat

VARIABLES
    owns,           \* /proc: pid -> inodes of its sockets, for running processes
    mProcessMap,    \* inode -> pid, partial
    mLRUCache,      \* pids, most recently found first
    mCouldNotFind,  \* inodes a search has failed for
    search          \* the call of refresh or get that holds mMutex

index  == <<mProcessMap, mLRUCache, mCouldNotFind>>
piVars == <<owns, index, search>>

(* A call: the directories still to be read, cached pids found dead, and     *)
(* (history) the processes that have owned the target since the call began.  *)
NoSearch == [pc |-> "idle", target |-> {}, todo |-> <<>>, expired |-> {}, steady |-> {}]

Alive == DOMAIN owns
Owners(i) == {p \in Alive : i \in owns[p]}

(* The order of a std::set with std::greater: there is one for a finite set. *)
NewestFirst(S) ==
    {order \in SetToSeqs(S) : \A j, k \in DOMAIN order : j < k => order[j] > order[k]}

(* The constructor calls refresh, which reads every process directory in the   *)
(* order of readdir, which may be any.                                         *)
PIInit ==
    /\ owns \in UNION {[A -> {{}} \cup {{i} : i \in Inodes}] : A \in SUBSET Pids}
    /\ \A i \in Inodes : Cardinality(Owners(i)) <= 1
    /\ mProcessMap = [i \in {} |-> 0]
    /\ mLRUCache = <<>>
    /\ mCouldNotFind = {}
    /\ \E order \in SetToSeqs(Alive) :
         search = [NoSearch EXCEPT !.pc = "refresh", !.todo = order]

-----------------------------------------------------------------------------
(* Processes and sockets.  A process that loses the target during a search    *)
(* has not owned it all along.                                                *)

Keeps(p, o) == p \in DOMAIN o /\ search.target \subseteq o[p]

Environment(o) ==
    /\ owns' = o
    /\ search' = [search EXCEPT !.steady = {p \in @ : Keeps(p, o)}]
    /\ UNCHANGED index

Spawn(p) ==
    /\ p \notin Alive
    /\ Environment([q \in Alive \cup {p} |-> IF q = p THEN {} ELSE owns[q]])

Exit(p) ==
    /\ p \in Alive
    /\ Environment([q \in Alive \ {p} |-> owns[q]])

Open(p, i) ==
    /\ p \in Alive
    /\ Owners(i) = {}
    /\ Environment([owns EXCEPT ![p] = @ \cup {i}])

Close(p, i) ==
    /\ p \in Alive
    /\ i \in owns[p]
    /\ Environment([owns EXCEPT ![p] = @ \ {i}])

-----------------------------------------------------------------------------
(* processPidDir: every socket of the process goes into the map, in place of  *)
(* an older entry for its inode.  A process that is gone has no directory.     *)
processPidDirInsert(p) ==    \* mutant: insert, which keeps an old entry
    [i \in DOMAIN mProcessMap \cup (IF p \in Alive THEN owns[p] ELSE {}) |->
        IF i \in DOMAIN mProcessMap THEN mProcessMap[i] ELSE p]

processPidDir(p) ==
    LET socks == IF p \in Alive THEN owns[p] ELSE {}
    IN  [i \in DOMAIN mProcessMap \cup socks |-> IF i \in socks THEN p ELSE mProcessMap[i]]

Finds(p) == p \in Alive /\ \E i \in search.target : i \in owns[p]

(* One round of the loop of refresh, which has no target. *)
Refresh ==
    /\ search.pc = "refresh"
    /\ IF search.todo = <<>>
       THEN search' = NoSearch /\ UNCHANGED mProcessMap
       ELSE /\ mProcessMap' = processPidDir(Head(search.todo))
            /\ search' = [search EXCEPT !.todo = Tail(@)]
    /\ UNCHANGED <<owns, mLRUCache, mCouldNotFind>>

(* get misses both maps: searchCache begins. *)
Get(i) ==
    /\ search.pc = "idle"
    /\ i \notin mCouldNotFind
    /\ i \notin DOMAIN mProcessMap
    /\ search' = [NoSearch EXCEPT !.pc = "cache", !.target = {i}, !.todo = mLRUCache,
                                  !.steady = Owners(i)]
    /\ UNCHANGED <<owns, index>>

(* The directory of the next pid holds the target: get returns the process    *)
(* and puts its pid first in the cache.                                       *)
Found ==
    /\ search.pc \in {"cache", "proc"}
    /\ search.todo # <<>>
    /\ Finds(Head(search.todo))
    /\ mProcessMap' = processPidDir(Head(search.todo))
    /\ mLRUCache' = update(mLRUCache, CacheSize, Head(search.todo))
    /\ search' = NoSearch
    /\ UNCHANGED <<owns, mCouldNotFind>>

StopAtDead(todo) == IF Head(todo) \in Alive THEN Tail(todo) ELSE <<>>  \* mutant: break
NextPid(todo)    == Tail(todo)

(* It does not.  In searchCache a directory that does not exist marks its pid *)
(* as expired, unless it disappears only after that test.                     *)
NotThere ==
    /\ search.pc \in {"cache", "proc"}
    /\ search.todo # <<>>
    /\ ~Finds(Head(search.todo))
    /\ mProcessMap' = processPidDir(Head(search.todo))
    /\ \E dead \in SUBSET ({Head(search.todo)} \ Alive) :
         search' = [search EXCEPT !.todo = NextPid(@),
                      !.expired = IF search.pc = "cache" THEN @ \cup dead ELSE @]
    /\ UNCHANGED <<owns, mLRUCache, mCouldNotFind>>

(* The pids of /proc that are searched after the cache. *)
NotCached(cache) == {p \in Alive : ~contains(cache, p)}

(* searchCache ends without a hit: expired pids leave the cache one by one,   *)
(* in an order that does not matter.                                          *)
EraseExpired(p) ==
    /\ search.pc = "cache"
    /\ search.todo = <<>>
    /\ p \in search.expired
    /\ mLRUCache' = erase(mLRUCache, p)
    /\ search' = [search EXCEPT !.expired = @ \ {p}]
    /\ UNCHANGED <<owns, mProcessMap, mCouldNotFind>>

(* Then /proc is listed without the pids that are in the cache. *)
ListProc ==
    /\ search.pc = "cache"
    /\ search.todo = <<>>
    /\ search.expired = {}
    /\ \E order \in NewestFirst(NotCached(mLRUCache)) :
         search' = [search EXCEPT !.pc = "proc", !.todo = order]
    /\ UNCHANGED <<owns, index>>

(* The whole search fails: the inode is not searched for again. *)
GiveUp ==
    /\ search.pc = "proc"
    /\ search.todo = <<>>
    /\ mCouldNotFind' = mCouldNotFind \cup search.target
    /\ search' = NoSearch
    /\ UNCHANGED <<owns, mProcessMap, mLRUCache>>

Forgotten == mCouldNotFind    \* mutant: the list is never cleared
Cleared   == {}

(* The detached thread clears the list every 60 seconds, under the lock. *)
ClearCouldNotFind ==
    /\ search.pc = "idle"
    /\ mCouldNotFind # {}
    /\ mCouldNotFind' = Cleared
    /\ UNCHANGED <<owns, mProcessMap, mLRUCache, search>>

Search == Refresh \/ Found \/ NotThere \/ (\E p \in Pids : EraseExpired(p)) \/ ListProc \/ GiveUp

PINext ==
    \/ \E p \in Pids : Spawn(p) \/ Exit(p) \/ \E i \in Inodes : Open(p, i) \/ Close(p, i)
    \/ \E i \in Inodes : Get(i)
    \/ Search
    \/ ClearCouldNotFind

PISpec == PIInit /\ [][PINext]_piVars

(* A search goes on; the clearing thread gets the lock between two lookups;   *)
(* and packets keep coming on every socket.                                   *)
PIFairSpec ==
    /\ PISpec
    /\ WF_piVars(Search)
    /\ SF_piVars(ClearCouldNotFind)
    /\ \A i \in Inodes : SF_piVars(Get(i))

-----------------------------------------------------------------------------
(* Types, and what LRUArray promises of the cache. *)
PITypeOK ==
    /\ Alive \subseteq Pids /\ \A p \in Alive : owns[p] \subseteq Inodes
    /\ DOMAIN mProcessMap \subseteq Inodes
    /\ \A i \in DOMAIN mProcessMap : mProcessMap[i] \in Pids
    /\ ToSet(mLRUCache) \subseteq Pids /\ lruOk(mLRUCache, CacheSize)
    /\ mCouldNotFind \subseteq Inodes
    /\ search.pc \in {"idle", "refresh", "cache", "proc"}
    /\ search.target \subseteq Inodes /\ Cardinality(search.target) <= 1
    /\ ToSet(search.todo) \subseteq Pids
    /\ search.expired \subseteq Pids /\ search.steady \subseteq Pids

(* A search does not miss a process that had the socket from its beginning to *)
(* its end, however other processes come and go (ProcessIndex.cpp:125-129:    *)
(* "Do not search PIDs that are in cache since they will have been searched   *)
(* already").                                                                 *)
SearchComplete == search.pc = "proc" /\ search.todo = <<>> => search.steady = {}

(* A process that keeps a socket becomes the one the map names for it, even if *)
(* searches for the inode failed before it had it (ProcessIndex.cpp:29-30: "to *)
(* avoid re-used inodes from being skipped").  The exception is an inode that  *)
(* is in the map already when the process gets it: get answers from the old    *)
(* entry and does not search again (ProcessIndex.cpp:275-278).                 *)
FoundInTheEnd ==
    \A p \in Pids, i \in Inodes :
        <>(i \notin DOMAIN mProcessMap /\ [](p \in Alive /\ i \in owns[p]))
          => <>(i \in DOMAIN mProcessMap /\ mProcessMap[i] = p)

(* The index implements ProcessLookup: what it knows was read from one whole   *)
(* process directory, overwrites what it knew, and is kept; an inode is given  *)
(* up only if nobody had it throughout (ProcessIndex.cpp:191-302).             *)
Lookup == INSTANCE ProcessLookup
            WITH known <- mProcessMap, missing <- mCouldNotFind,
                 lookup <- [target |-> search.target, steady |-> search.steady]

KeepsPromise == Lookup!PLSpec

=============================================================================
