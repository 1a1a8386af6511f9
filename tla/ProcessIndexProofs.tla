------------------------- MODULE ProcessIndexProofs -------------------------
(***************************************************************************)
(* Proofs about the process index, for any processes, sockets and cache    *)
(* size and any interleaving of a search with processes that come and go.  *)
(***************************************************************************)
EXTENDS ProcessIndex, OperatorLemmas

-----------------------------------------------------------------------------
(* The inductive invariant. *)

Calls ==
    [pc : {"idle", "refresh", "cache", "proc"}, target : SUBSET Inodes, todo : Seq(Pids),
     expired : SUBSET Pids, steady : SUBSET Pids]

ProcPart == Alive \subseteq Pids /\ \A p \in Alive : owns[p] \subseteq Inodes

IndexPart ==
    /\ mProcessMap \in [DOMAIN mProcessMap -> Pids] /\ DOMAIN mProcessMap \subseteq Inodes
    /\ mLRUCache \in Seq(Pids) /\ lruOk(mLRUCache, CacheSize)
    /\ mCouldNotFind \subseteq Inodes

(* A lookup has one inode; refresh, which runs once, has none. *)
TargetPart ==
    /\ search \in Calls
    /\ search.pc \in {"idle", "refresh"} => search.target = {} /\ search.steady = {}
    /\ search.pc \in {"cache", "proc"} => \E i \in Inodes : search.target = {i}

(* Where a process that has had the socket since the lookup began can still    *)
(* be: among the cached pids that have not been read, or outside of the cache  *)
(* and so in the listing that follows; then, in what is left of the listing.   *)
SteadyPart ==
    /\ \A p \in search.steady : p \in Alive /\ search.target \subseteq owns[p]
    /\ search.pc = "cache" =>
         \A p \in search.steady :
            /\ p \notin search.expired
            /\ p \in ToSet(search.todo) \/ p \notin ToSet(mLRUCache)
    /\ search.pc = "proc" => search.steady \subseteq ToSet(search.todo)

PIInv == ProcPart /\ IndexPart /\ TargetPart /\ SteadyPart

-----------------------------------------------------------------------------
(* Sequences as to-do lists. *)

LEMMA TodoShape ==
    ASSUME NEW s \in Seq(Pids)
    PROVE  /\ s = <<>> => ToSet(s) = {}
           /\ s # <<>> => /\ Head(s) \in Pids /\ Tail(s) \in Seq(Pids)
                          /\ ToSet(s) = {Head(s)} \cup ToSet(Tail(s))
<1>1. CASE s = <<>>
  <2>1. ToSet(<<>>) = {}
    BY DEF ToSet
  <2> QED BY <1>1, <2>1
<1>2. CASE s # <<>>
  <2> DEFINE t == Tail(s)
  <2>1. /\ Head(s) \in Pids /\ t \in Seq(Pids) /\ Len(t) = Len(s) - 1 /\ Head(s) = s[1]
        /\ \A i \in 1 .. Len(t) : t[i] = s[i + 1]
    BY <1>2, HeadTailProperties
  <2> HIDE DEF t
  <2>2. /\ Len(s) \in Nat /\ Len(s) >= 1 /\ DOMAIN s = 1 .. Len(s) /\ DOMAIN t = 1 .. Len(t)
    BY <1>2, <2>1, EmptySeq, LenProperties
  <2>3. \A i \in 1 .. Len(s) : i = 1 \/ (i - 1 \in 1 .. Len(t) /\ t[i - 1] = s[i])
    BY <2>1, <2>2
  <2>4. \A i \in 1 .. Len(t) : i + 1 \in 1 .. Len(s)
    BY <2>1, <2>2
  <2>5. ToSet(s) = {Head(s)} \cup ToSet(t)
    <3>1. ToSet(s) = {s[i] : i \in 1 .. Len(s)} /\ ToSet(t) = {t[i] : i \in 1 .. Len(t)}
      BY <2>2 DEF ToSet
    <3>2. ASSUME NEW y \in ToSet(s) PROVE y \in {Head(s)} \cup ToSet(t)
      <4>1. PICK i \in 1 .. Len(s) : y = s[i]
        BY <3>1
      <4> QED BY <2>1, <2>3, <3>1, <4>1
    <3>3. ASSUME NEW y \in ToSet(t) PROVE y \in ToSet(s)
      <4>1. PICK i \in 1 .. Len(t) : y = t[i]
        BY <3>1
      <4> QED BY <2>1, <2>4, <3>1, <4>1
    <3>4. 1 \in 1 .. Len(s)
      BY <2>2
    <3>5. Head(s) \in ToSet(s)
      BY <2>1, <3>1, <3>4
    <3> QED BY <3>2, <3>3, <3>5
  <2> QED BY <1>2, <2>1, <2>5 DEF t
<1> QED BY <1>1, <1>2

LEMMA ContainsIsIn ==
    ASSUME NEW s \in Seq(Pids), NEW p
    PROVE  contains(s, p) <=> p \in ToSet(s)
BY LenProperties DEF contains, Contains, ToSet

(* Processes are finitely many, so a directory listing names each of them. *)
LEMMA FiniteProc ==
    ASSUME NEW S, S \subseteq Pids, NEW order \in SetToSeqs(S)
    PROVE  order \in Seq(Pids) /\ ToSet(order) = S
<1>1. IsFiniteSet(S)
  BY PIAssumption, FS_Subset
<1>2. order \in Seq(S) /\ ToSet(order) = S
  BY <1>1, ListingShape
<1> QED BY <1>2, SeqMonotonic

-----------------------------------------------------------------------------
(* Every step keeps the invariant. *)

LEMMA InitPIInv == PIInit => PIInv
<1> SUFFICES ASSUME PIInit PROVE PIInv
  OBVIOUS
<1>1. ProcPart
  BY DEF PIInit, ProcPart, Alive
<1>2. PICK order \in SetToSeqs(Alive) :
        search = [NoSearch EXCEPT !.pc = "refresh", !.todo = order]
  BY DEF PIInit
<1>3. order \in Seq(Pids)
  BY <1>1, FiniteProc DEF ProcPart
<1>4. TargetPart /\ SteadyPart
  BY <1>2, <1>3 DEF NoSearch, Calls, TargetPart, SteadyPart
<1>5. <<>> \in Seq(Pids) /\ lruOk(<<>>, CacheSize)
  BY PIAssumption DEF lruOk, IsInjective
<1>6. IndexPart
  BY <1>5 DEF PIInit, IndexPart
<1> QED BY <1>1, <1>4, <1>6 DEF PIInv

(* Processes and sockets change under a search. *)
LEMMA EnvironmentKeeps ==
    ASSUME PIInv, NEW o, DOMAIN o \subseteq Pids, \A p \in DOMAIN o : o[p] \subseteq Inodes,
           Environment(o)
    PROVE  PIInv'
<1> USE DEF Environment, index
<1>1. ProcPart' /\ IndexPart'
  BY DEF PIInv, ProcPart, IndexPart, Alive
<1>2. search \in Calls
  BY DEF PIInv, TargetPart
<1>3. /\ search'.pc = search.pc /\ search'.target = search.target
      /\ search'.todo = search.todo /\ search'.expired = search.expired
      /\ search'.steady = {p \in search.steady : Keeps(p, o)}
      /\ search' \in Calls
  BY <1>2 DEF Calls
<1>4. TargetPart'
  BY <1>3 DEF PIInv, TargetPart
<1>5. SteadyPart'
  BY <1>3 DEF PIInv, SteadyPart, Keeps, Alive
<1> QED BY <1>1, <1>4, <1>5 DEF PIInv

LEMMA ProcChange ==
    ASSUME PIInv, NEW p \in Pids,
           Spawn(p) \/ Exit(p) \/ \E i \in Inodes : Open(p, i) \/ Close(p, i)
    PROVE  \E o : DOMAIN o \subseteq Pids /\ (\A q \in DOMAIN o : o[q] \subseteq Inodes)
                  /\ Environment(o)
<1> USE DEF PIInv, ProcPart
<1>1. CASE Spawn(p)
  <2> DEFINE o == [q \in Alive \cup {p} |-> IF q = p THEN {} ELSE owns[q]]
  <2>1. DOMAIN o \subseteq Pids /\ (\A q \in DOMAIN o : o[q] \subseteq Inodes)
    OBVIOUS
  <2>2. Environment(o)
    BY <1>1 DEF Spawn
  <2> QED BY <2>1, <2>2
<1>2. CASE Exit(p)
  <2> DEFINE o == [q \in Alive \ {p} |-> owns[q]]
  <2>1. DOMAIN o \subseteq Pids /\ (\A q \in DOMAIN o : o[q] \subseteq Inodes)
    OBVIOUS
  <2>2. Environment(o)
    BY <1>2 DEF Exit
  <2> QED BY <2>1, <2>2
<1>3. ASSUME NEW i \in Inodes, Open(p, i) PROVE \E o : DOMAIN o \subseteq Pids
               /\ (\A q \in DOMAIN o : o[q] \subseteq Inodes) /\ Environment(o)
  <2> DEFINE o == [owns EXCEPT ![p] = @ \cup {i}]
  <2>1. DOMAIN o \subseteq Pids /\ (\A q \in DOMAIN o : o[q] \subseteq Inodes)
    BY <1>3 DEF Alive
  <2>2. Environment(o)
    BY <1>3 DEF Open
  <2> QED BY <2>1, <2>2
<1>4. ASSUME NEW i \in Inodes, Close(p, i) PROVE \E o : DOMAIN o \subseteq Pids
               /\ (\A q \in DOMAIN o : o[q] \subseteq Inodes) /\ Environment(o)
  <2> DEFINE o == [owns EXCEPT ![p] = @ \ {i}]
  <2>1. DOMAIN o \subseteq Pids /\ (\A q \in DOMAIN o : o[q] \subseteq Inodes)
    BY <1>4 DEF Alive
  <2>2. Environment(o)
    BY <1>4 DEF Close
  <2> QED BY <2>1, <2>2
<1> QED BY <1>1, <1>2, <1>3, <1>4

(* Reading a process directory leaves a map from inodes to processes. *)
LEMMA ReadType ==
    ASSUME PIInv, NEW p \in Pids
    PROVE  /\ processPidDir(p) \in [DOMAIN processPidDir(p) -> Pids]
           /\ DOMAIN processPidDir(p) \subseteq Inodes
BY DEF PIInv, ProcPart, IndexPart, processPidDir

LEMMA RefreshKeeps == PIInv /\ Refresh => PIInv'
<1> SUFFICES ASSUME PIInv, Refresh PROVE PIInv'
  OBVIOUS
<1>0. search \in Calls /\ ProcPart' /\ <<>> \in Seq(Pids)
  BY DEF PIInv, TargetPart, ProcPart, Refresh, Alive
<1>1. CASE search.todo = <<>>
  <2>1. search' = NoSearch /\ IndexPart'
    BY <1>1 DEF PIInv, IndexPart, Refresh
  <2>2. TargetPart' /\ SteadyPart'
    BY <1>0, <2>1 DEF TargetPart, SteadyPart, NoSearch, Calls
  <2> QED BY <1>0, <2>1, <2>2 DEF PIInv
<1>2. CASE search.todo # <<>>
  <2>1. Head(search.todo) \in Pids /\ Tail(search.todo) \in Seq(Pids)
    BY <1>0, <1>2, TodoShape DEF Calls
  <2>2. IndexPart'
    BY <1>2, <2>1, ReadType DEF PIInv, IndexPart, Refresh
  <2>3. /\ search.pc = "refresh" /\ search'.pc = search.pc /\ search'.target = search.target
        /\ search'.steady = search.steady /\ search' \in Calls
    BY <1>0, <1>2, <2>1 DEF Refresh, Calls
  <2>4. TargetPart' /\ SteadyPart'
    BY <2>3 DEF PIInv, TargetPart, SteadyPart
  <2> QED BY <1>0, <2>2, <2>4 DEF PIInv
<1> QED BY <1>1, <1>2

LEMMA GetKeeps == ASSUME PIInv, NEW i \in Inodes, Get(i) PROVE PIInv'
<1>1. ProcPart' /\ IndexPart'
  BY DEF PIInv, ProcPart, IndexPart, Get, Alive, index
<1>2. /\ search'.pc = "cache" /\ search'.target = {i} /\ search'.todo = mLRUCache
      /\ search'.expired = {} /\ search'.steady = Owners(i) /\ search' \in Calls
  BY DEF PIInv, ProcPart, IndexPart, Get, NoSearch, Calls, Owners
<1>3. TargetPart'
  BY <1>2 DEF TargetPart
<1>4. owns' = owns /\ mLRUCache' = mLRUCache
  BY DEF Get, index
<1>5. SteadyPart'
  BY <1>2, <1>4 DEF SteadyPart, Owners, Alive
<1> QED BY <1>1, <1>3, <1>5 DEF PIInv

LEMMA FoundKeeps == PIInv /\ Found => PIInv'
<1> SUFFICES ASSUME PIInv, Found PROVE PIInv'
  OBVIOUS
<1>1. Head(search.todo) \in Pids /\ ProcPart' /\ <<>> \in Seq(Pids)
  BY TodoShape DEF PIInv, TargetPart, ProcPart, Calls, Found, Alive
<1>2. /\ update(mLRUCache, CacheSize, Head(search.todo)) \in Seq(Pids)
      /\ lruOk(update(mLRUCache, CacheSize, Head(search.todo)), CacheSize)
  BY <1>1, UpdateKeeps, PIAssumption DEF PIInv, IndexPart
<1>3. IndexPart'
  BY <1>1, <1>2, ReadType DEF PIInv, IndexPart, Found
<1>4. TargetPart' /\ SteadyPart'
  BY <1>1 DEF Found, TargetPart, SteadyPart, NoSearch, Calls
<1> QED BY <1>1, <1>3, <1>4 DEF PIInv

(* The directory just read is not one of a process that keeps the target. *)
LEMMA NotThereKeeps == PIInv /\ NotThere => PIInv'
<1> SUFFICES ASSUME PIInv, NotThere PROVE PIInv'
  OBVIOUS
<1> DEFINE h == Head(search.todo)
<1>0. search \in Calls /\ search.todo # <<>> /\ ~Finds(h)
  BY DEF PIInv, TargetPart, NotThere
<1>1. /\ h \in Pids /\ Tail(search.todo) \in Seq(Pids)
      /\ ToSet(search.todo) = {h} \cup ToSet(Tail(search.todo))
  BY <1>0, TodoShape DEF Calls
<1>2. ProcPart' /\ IndexPart'
  BY <1>1, ReadType DEF PIInv, ProcPart, IndexPart, NotThere, Alive
<1>3. PICK dead \in SUBSET ({h} \ Alive) :
        search' = [search EXCEPT !.todo = Tail(@),
                     !.expired = IF search.pc = "cache" THEN @ \cup dead ELSE @]
  BY DEF NotThere, NextPid
<1>4. /\ search'.pc = search.pc /\ search'.target = search.target
      /\ search'.steady = search.steady /\ search'.todo = Tail(search.todo)
      /\ search'.expired \subseteq search.expired \cup dead
      /\ search' \in Calls
  BY <1>0, <1>1, <1>3 DEF Calls
<1>5. h \notin search.steady
  <2>1. PICK i \in Inodes : search.target = {i}
    BY DEF PIInv, TargetPart, NotThere
  <2> QED BY <1>0, <2>1 DEF PIInv, SteadyPart, Finds
<1>6. TargetPart'
  BY <1>4 DEF PIInv, TargetPart
<1>7. owns' = owns /\ mLRUCache' = mLRUCache
  BY DEF NotThere
<1> HIDE DEF h
<1>8. SteadyPart'
  BY <1>1, <1>4, <1>5, <1>7 DEF PIInv, SteadyPart, Alive
<1> QED BY <1>2, <1>6, <1>8 DEF PIInv

LEMMA EraseExpiredKeeps == ASSUME PIInv, NEW p \in Pids, EraseExpired(p) PROVE PIInv'
<1>1. /\ erase(mLRUCache, p) \in Seq(Pids) /\ lruOk(erase(mLRUCache, p), CacheSize)
      /\ ToSet(erase(mLRUCache, p)) \subseteq ToSet(mLRUCache)
  <2>1. mLRUCache \in Seq(Pids) /\ IsInjective(mLRUCache) /\ Len(mLRUCache) <= CacheSize
    BY DEF PIInv, IndexPart, lruOk
  <2>2. /\ erase(mLRUCache, p) \in Seq(Pids) /\ IsInjective(erase(mLRUCache, p))
        /\ Len(erase(mLRUCache, p)) <= Len(mLRUCache)
        /\ ToSet(erase(mLRUCache, p)) = ToSet(mLRUCache) \ {p}
    BY <2>1, EraseKeeps
  <2>3. Len(erase(mLRUCache, p)) \in Nat /\ Len(mLRUCache) \in Nat
    BY <2>1, <2>2, LenProperties
  <2>4. Len(erase(mLRUCache, p)) <= CacheSize
    BY PIAssumption, <2>1, <2>2, <2>3
  <2> QED BY <2>2, <2>4 DEF lruOk
<1>2. ProcPart' /\ IndexPart'
  BY <1>1 DEF PIInv, ProcPart, IndexPart, EraseExpired, Alive
<1>3. /\ search'.pc = search.pc /\ search'.target = search.target
      /\ search'.steady = search.steady /\ search'.todo = search.todo
      /\ search'.expired \subseteq search.expired
      /\ search' \in Calls
  BY DEF PIInv, TargetPart, EraseExpired, Calls
<1>4. owns' = owns /\ mLRUCache' = erase(mLRUCache, p)
  BY DEF EraseExpired
<1>5. TargetPart'
  BY <1>3 DEF PIInv, TargetPart
<1>6. SteadyPart'
  BY <1>1, <1>3, <1>4 DEF PIInv, SteadyPart, Alive
<1> QED BY <1>2, <1>5, <1>6 DEF PIInv

LEMMA ListProcKeeps == PIInv /\ ListProc => PIInv'
<1> SUFFICES ASSUME PIInv, ListProc PROVE PIInv'
  OBVIOUS
<1> DEFINE S == NotCached(mLRUCache)
<1>1. PICK order \in SetToSeqs(S) : search' = [search EXCEPT !.pc = "proc", !.todo = order]
  BY DEF ListProc, NewestFirst
<1>2. S = {p \in Alive : p \notin ToSet(mLRUCache)} /\ S \subseteq Pids
  BY ContainsIsIn DEF NotCached, PIInv, ProcPart, IndexPart
<1> HIDE DEF S
<1>3. order \in Seq(Pids) /\ ToSet(order) = S
  BY <1>2, FiniteProc
<1>4. /\ search'.pc = "proc" /\ search.pc = "cache" /\ search'.target = search.target
      /\ search'.steady = search.steady /\ search'.todo = order /\ search.todo = <<>>
      /\ search' \in Calls
  BY <1>1, <1>3 DEF PIInv, TargetPart, ListProc, Calls
<1>5. ProcPart' /\ IndexPart' /\ TargetPart'
  BY <1>4 DEF PIInv, ProcPart, IndexPart, TargetPart, ListProc, Alive, index
<1>6. ToSet(search.todo) = {}
  BY <1>4, TodoShape DEF PIInv, TargetPart, Calls
<1>7. search.steady \subseteq S
  BY <1>2, <1>4, <1>6 DEF PIInv, SteadyPart
<1>8. owns' = owns
  BY DEF ListProc
<1>9. SteadyPart'
  BY <1>3, <1>4, <1>7, <1>8 DEF PIInv, SteadyPart, Alive
<1> QED BY <1>5, <1>9 DEF PIInv

LEMMA GiveUpKeeps == PIInv /\ GiveUp => PIInv'
<1> SUFFICES ASSUME PIInv, GiveUp PROVE PIInv'
  OBVIOUS
<1>1. ProcPart' /\ IndexPart'
  BY DEF PIInv, ProcPart, IndexPart, TargetPart, Calls, GiveUp, Alive
<1>2. <<>> \in Seq(Pids)
  OBVIOUS
<1>3. TargetPart' /\ SteadyPart'
  BY <1>2 DEF GiveUp, TargetPart, SteadyPart, NoSearch, Calls
<1> QED BY <1>1, <1>3 DEF PIInv

LEMMA StepPIInv == PIInv /\ [PINext]_piVars => PIInv'
<1> SUFFICES ASSUME PIInv, [PINext]_piVars PROVE PIInv'
  OBVIOUS
<1>1. ASSUME NEW p \in Pids,
             Spawn(p) \/ Exit(p) \/ \E i \in Inodes : Open(p, i) \/ Close(p, i)
      PROVE  PIInv'
  BY <1>1, ProcChange, EnvironmentKeeps
<1>2. ASSUME NEW i \in Inodes, Get(i) PROVE PIInv'
  BY <1>2, GetKeeps
<1>3. CASE Search
  BY <1>3, RefreshKeeps, FoundKeeps, NotThereKeeps, EraseExpiredKeeps, ListProcKeeps, GiveUpKeeps
     DEF Search
<1>4. CASE ClearCouldNotFind
  BY <1>4 DEF ClearCouldNotFind, Cleared, PIInv, ProcPart, IndexPart, TargetPart, SteadyPart, Alive
<1>5. CASE UNCHANGED piVars
  BY <1>5 DEF piVars, index, PIInv, ProcPart, IndexPart, TargetPart, SteadyPart, Alive
<1> QED BY <1>1, <1>2, <1>3, <1>4, <1>5 DEF PINext

LEMMA AlwaysPIInv == PISpec => []PIInv
BY InitPIInv, StepPIInv, PTL DEF PISpec

-----------------------------------------------------------------------------
(* For any processes, sockets and cache size: the cache has no duplicates and  *)
(* never more pids than its size, the map leads from inodes to pids, and there *)
(* is at most one lookup under the lock.  ProcessIndex.cpp:43-302.             *)
THEOREM IndexType == PISpec => []PITypeOK
<1>1. ASSUME PIInv PROVE PITypeOK
  <2>1. Cardinality(search.target) <= 1
    <3>1. CASE search.target = {}
      BY <3>1, FS_EmptySet
    <3>2. ASSUME NEW i \in Inodes, search.target = {i} PROVE Cardinality(search.target) <= 1
      <4>1. Cardinality({i}) = 1
        BY FS_Singleton
      <4> QED BY <3>2, <4>1
    <3> QED BY <1>1, <3>1, <3>2 DEF PIInv, TargetPart, Calls
  <2>2. ToSet(mLRUCache) \subseteq Pids /\ ToSet(search.todo) \subseteq Pids
    BY <1>1, ElementOfSeq, LenProperties DEF PIInv, IndexPart, TargetPart, Calls, ToSet
  <2> QED BY <1>1, <2>1, <2>2
        DEF PIInv, ProcPart, IndexPart, TargetPart, Calls, PITypeOK
<1> QED BY <1>1, AlwaysPIInv, PTL

(* For any processes, sockets and cache size: a search that has read all it    *)
(* wanted to read has missed no process that had the socket throughout.        *)
(* ProcessIndex.cpp:88-189.                                                    *)
THEOREM SearchFindsSteady == PISpec => []SearchComplete
<1>1. ASSUME PIInv PROVE SearchComplete
  BY <1>1, TodoShape DEF PIInv, TargetPart, Calls, SteadyPart, SearchComplete
<1> QED BY <1>1, AlwaysPIInv, PTL

-----------------------------------------------------------------------------
(* The index implements ProcessLookup. *)

lookupBar == [target |-> search.target, steady |-> search.steady]

(* What a step of the environment is to the lookup. *)
LEMMA EnvironmentRefines ==
    ASSUME PIInv, NEW o, Environment(o)
    PROVE  Lookup!Change
<1>1. search \in Calls
  BY DEF PIInv, TargetPart
<1>2. /\ search'.target = search.target /\ owns' = o
      /\ search'.steady = {p \in search.steady : Keeps(p, o)}
  BY <1>1 DEF Environment, Calls
<1>3. \A p \in search.steady :
        Keeps(p, o) <=> search.target \subseteq (IF p \in DOMAIN o THEN o[p] ELSE {})
  BY DEF PIInv, TargetPart, Calls, Keeps
<1>4. search'.steady = {p \in search.steady :
                          search.target \subseteq (IF p \in DOMAIN o THEN o[p] ELSE {})}
  BY <1>2, <1>3
<1>5. [target |-> search'.target, steady |-> search'.steady]
        = [lookupBar EXCEPT !.steady = {p \in @ : lookupBar.target \subseteq
                                          (IF p \in DOMAIN owns' THEN owns'[p] ELSE {})}]
  BY <1>2, <1>4 DEF lookupBar
<1>6. UNCHANGED <<mProcessMap, mCouldNotFind>>
  BY DEF Environment, index
<1> QED BY <1>5, <1>6 DEF Lookup!Change, Lookup!SteadyIn, lookupBar

(* What reading a directory is: of a process that runs, Learn; of one that is  *)
(* gone, nothing.                                                              *)
LEMMA ReadRefines ==
    ASSUME PIInv, NEW p \in Pids, mProcessMap' = processPidDir(p),
           UNCHANGED <<owns, mCouldNotFind>>,
           lookupBar' = IF Finds(p) THEN Lookup!NoLookup ELSE lookupBar
    PROVE  Lookup!Learn(p) \/ UNCHANGED Lookup!plVars
<1>1. CASE p \in Alive
  <2>1. mProcessMap' = [i \in DOMAIN mProcessMap \cup owns[p] |->
                          IF i \in owns[p] THEN p ELSE mProcessMap[i]]
    BY <1>1 DEF processPidDir
  <2>2. Finds(p) <=> search.target \cap owns[p] # {}
    BY <1>1 DEF Finds
  <2> QED BY <1>1, <2>1, <2>2 DEF Lookup!Learn, Lookup!NoLookup, lookupBar, Alive
<1>2. CASE p \notin Alive
  <2>1. mProcessMap' = [i \in DOMAIN mProcessMap |-> mProcessMap[i]]
    BY <1>2 DEF processPidDir
  <2>2. mProcessMap' = mProcessMap
    BY <2>1 DEF PIInv, IndexPart
  <2>3. lookupBar' = lookupBar
    BY <1>2 DEF Finds
  <2> QED BY <2>2, <2>3 DEF Lookup!plVars, lookupBar
<1> QED BY <1>1, <1>2

LEMMA SearchRefines ==
    ASSUME PIInv, Search
    PROVE  Lookup!PLNext \/ UNCHANGED Lookup!plVars
<1>0. search \in Calls
  BY DEF PIInv, TargetPart
<1>1. CASE Refresh
  <2>1. search.target = {} /\ search.steady = {}
    BY <1>1 DEF PIInv, TargetPart, Refresh
  <2>2. CASE search.todo = <<>>
    BY <1>1, <2>1, <2>2 DEF Refresh, NoSearch, Lookup!plVars
  <2>3. CASE search.todo # <<>>
    <3>1. Head(search.todo) \in Pids
      BY <1>0, <2>3, TodoShape DEF Calls
    <3>2. lookupBar' = lookupBar /\ ~Finds(Head(search.todo))
      BY <1>0, <1>1, <2>1, <2>3 DEF Refresh, Calls, lookupBar, Finds
    <3> QED BY <1>1, <2>3, <3>1, <3>2, ReadRefines DEF Refresh, Lookup!PLNext
  <2> QED BY <2>2, <2>3
<1>2. CASE Found
  <2>1. Head(search.todo) \in Pids
    BY <1>0, <1>2, TodoShape DEF Calls, Found
  <2>2. lookupBar' = Lookup!NoLookup /\ Finds(Head(search.todo))
    BY <1>2 DEF Found, NoSearch, lookupBar, Lookup!NoLookup
  <2> QED BY <1>2, <2>1, <2>2, ReadRefines DEF Found, Lookup!PLNext
<1>3. CASE NotThere
  <2>1. Head(search.todo) \in Pids
    BY <1>0, <1>3, TodoShape DEF Calls, NotThere
  <2>2. lookupBar' = lookupBar /\ ~Finds(Head(search.todo))
    BY <1>0, <1>3 DEF NotThere, NextPid, Calls, lookupBar
  <2> QED BY <1>3, <2>1, <2>2, ReadRefines DEF NotThere, Lookup!PLNext
<1>4. ASSUME NEW p \in Pids, EraseExpired(p) PROVE UNCHANGED Lookup!plVars
  BY <1>0, <1>4 DEF EraseExpired, Calls, Lookup!plVars
<1>5. CASE ListProc
  <2>1. search'.target = search.target /\ search'.steady = search.steady
    BY <1>0, <1>5 DEF ListProc, Calls
  <2> QED BY <1>5, <2>1 DEF ListProc, index, Lookup!plVars
<1>6. CASE GiveUp
  <2>1. search.steady = {} /\ search.target # {}
    BY <1>0, <1>6, TodoShape DEF PIInv, TargetPart, SteadyPart, Calls, GiveUp
  <2>2. lookupBar' = Lookup!NoLookup /\ lookupBar # Lookup!NoLookup
    BY <1>6, <2>1 DEF GiveUp, NoSearch, lookupBar, Lookup!NoLookup
  <2> QED BY <1>6, <2>1, <2>2 DEF GiveUp, Lookup!PLNext, Lookup!Miss, lookupBar
<1> QED BY <1>1, <1>2, <1>3, <1>4, <1>5, <1>6 DEF Search

(* For any processes, sockets and cache size the index keeps the promise that  *)
(* the resolver is built on: what it knows was read from one whole process     *)
(* directory, and an inode is given up only if nobody had it throughout.       *)
(* ProcessIndex.cpp:25-302.                                                    *)
THEOREM ImplementsLookup == PISpec => KeepsPromise
<1>1. PIInit => Lookup!PLInit
  BY DEF PIInit, NoSearch, Lookup!PLInit, Lookup!NoLookup
<1>2. ASSUME PIInv, [PINext]_piVars PROVE [Lookup!PLNext]_(Lookup!plVars)
  <2>1. ASSUME NEW p \in Pids,
               Spawn(p) \/ Exit(p) \/ \E i \in Inodes : Open(p, i) \/ Close(p, i)
        PROVE  Lookup!PLNext
    <3>1. \E o : Environment(o)
      BY <1>2, <2>1, ProcChange
    <3> QED BY <1>2, <3>1, EnvironmentRefines DEF Lookup!PLNext
  <2>2. ASSUME NEW i \in Inodes, Get(i) PROVE Lookup!PLNext
    <3>1. lookupBar = Lookup!NoLookup
      BY <1>2, <2>2 DEF PIInv, TargetPart, Get, lookupBar, Lookup!NoLookup
    <3>2. lookupBar' = [target |-> {i}, steady |-> Lookup!OwnersIn(owns, i)]
      BY <2>2 DEF Get, NoSearch, lookupBar, Owners, Alive, Lookup!OwnersIn
    <3>3. Lookup!Ask(i)
      BY <2>2, <3>1, <3>2 DEF Get, index, lookupBar, Lookup!Ask
    <3> QED BY <3>3 DEF Lookup!PLNext
  <2>3. CASE Search
    BY <1>2, <2>3, SearchRefines
  <2>4. CASE ClearCouldNotFind
    <3>1. lookupBar = Lookup!NoLookup
      BY <1>2, <2>4 DEF PIInv, TargetPart, ClearCouldNotFind, lookupBar, Lookup!NoLookup
    <3> QED BY <2>4, <3>1 DEF ClearCouldNotFind, Cleared, lookupBar, Lookup!PLNext, Lookup!Forget
  <2>5. CASE UNCHANGED piVars
    BY <2>5 DEF piVars, index, Lookup!plVars
  <2> QED BY <1>2, <2>1, <2>2, <2>3, <2>4, <2>5 DEF PINext
<1> QED BY <1>1, <1>2, AlwaysPIInv, PTL DEF PISpec, KeepsPromise, Lookup!PLSpec

=============================================================================
