--------------------------- MODULE TrafficStorage ---------------------------
(***************************************************************************)
(* The in-memory traffic storage of ntmd (traffic/TrafficStorage.cpp) and  *)
(* the three kinds of thread that work on it:                              *)
(*                                                                         *)
(*   - the sniffer thread calls add for every packet;                      *)
(*   - the detached deposit thread wakes up every interval, hands the map  *)
(*     to the database, answers the live API hook and clears the map;      *)
(*   - API threads call getLiveSnapshot and awaitSnapshot.                 *)
(*                                                                         *)
(* Packet counters move together with byte counters in the code and are    *)
(* not modelled apart.  The database is abstracted to the set of lines it  *)
(* accepts of a batch (DBController.tla is its own model).                 *)
(***************************************************************************)
EXTENDS Integers, FiniteSetsExt

CONSTANTS
    Names,          \* application names
    Unstorable,     \* names the database skips (they contain a semicolon)
    Dir,            \* directions of a packet: received, transmitted
    Lens,           \* packet lengths
    Callers,        \* API threads that may call awaitSnapshot
    Nil,            \* the api pointers before the first awaitSnapshot
    MaxBytes        \* bound on the bytes ever sniffed

ASSUME NamesAssumption == Unstorable \subseteq Names
ASSUME LensAssumption  == Lens \subseteq Nat
ASSUME NilAssumption   == Nil \notin Callers

VARIABLES
    mApplicationTraffic,  \* name -> traffic line, partial
    line,                 \* the reference add holds before it has the lock
    depositPC,            \* where the deposit thread is; it holds mMutex
                          \* everywhere but in "sleep"
    mAPIWaiting,          \* a live API thread is hooked in
    api,                  \* apiMutex, apiTrafficMap, apiInterval: whose frame
    await,                \* the caller's stack frame with its mutex
    trafficMap,           \* the caller's traffic map in that frame
    stored,               \* bytes made durable by the database
    sniffed,              \* history: bytes of all calls of add
    refused,              \* history: bytes the database did not accept
    stray,                \* history: bytes added through a dangling reference
    wiped                 \* history: bytes in memory when the process ended

buffer    == <<mApplicationTraffic, line, depositPC>>
hook      == <<mAPIWaiting, api, await, trafficMap>>
history   == <<sniffed, refused, stray, wiped>>
vars      == <<buffer, hook, stored, history>>

Line     == [Dir -> Nat]
Accounts == [Names -> Line]
EmptyMap == [n \in {} |-> [d \in Dir |-> 0]]
ZeroLine == [d \in Dir |-> 0]
Zero     == [n \in Names |-> ZeroLine]

(* A reference into the map: into a live node, or into a node that a        *)
(* concurrent clear has freed.                                              *)
Ref == [name : Names, dir : Dir, len : Lens, node : {"live", "freed"}]

TrafficMap(m) == DOMAIN m \subseteq Names /\ m \in [DOMAIN m -> Line]

(* The line of a name in a map; a name without a line has no traffic. *)
At(m, n) == IF n \in DOMAIN m THEN m[n] ELSE ZeroLine

Plus(f, g) == [n \in Names |-> [d \in Dir |-> f[n][d] + g[n][d]]]

(* k more bytes for one counter of a line. *)
Bump(f, n, d, k) == [f EXCEPT ![n][d] = @ + k]

(* The lines of the names in S of a map, as accounts. *)
Part(m, S) == [n \in Names |-> IF n \in S THEN At(m, n) ELSE ZeroLine]

Bytes(f) == MapThenSumSet(LAMBDA x : f[x[1]][x[2]], Names \X Dir)

(* What the map holds that the current deposit has not handed over yet. *)
InBuffer == IF depositPC \in {"sleep", "insert"}
            THEN Part(mApplicationTraffic, Names)
            ELSE Zero

Init ==
    /\ mApplicationTraffic = EmptyMap
    /\ line = {}
    /\ depositPC = "sleep"
    /\ mAPIWaiting = FALSE
    /\ api = Nil
    /\ await = [c \in Callers |-> "none"]
    /\ trafficMap = [c \in Callers |-> EmptyMap]
    /\ stored = Zero
    /\ sniffed = Zero
    /\ refused = Zero
    /\ stray = Zero
    /\ wiped = Zero

(* mMutex, the lock of the storage: all other critical sections are one step. *)
NoMutex   == TRUE    \* mutant: the lock is not taken
MutexFree == depositPC = "sleep"

-----------------------------------------------------------------------------
(* The sniffer thread. *)

(* operator[] of the map finds the line of a name or creates an empty one. *)
LookupFind(m, n) == m    \* mutant: find instead of operator[]
Lookup(m, n)     == [x \in DOMAIN m \cup {n} |-> At(m, x)]

(* add, first statement.  It runs before the lock is taken, whatever the      *)
(* deposit thread is doing: a data race with every other use of the map.  The *)
(* outcomes are that the line is found or linked before or after the step it  *)
(* races with, that the other thread misses lines (Walks, DepositInsert),     *)
(* that the line is freed (DepositClear), or that the process ends (Crash).   *)
AddLookup(n, d, k) ==
    /\ line = {}
    /\ Bytes(sniffed) + k <= MaxBytes
    /\ mApplicationTraffic' = Lookup(mApplicationTraffic, n)
    /\ line' = {[name |-> n, dir |-> d, len |-> k, node |-> "live"]}
    /\ UNCHANGED <<depositPC, hook, stored, history>>

(* add, the rest: the counters of the line are incremented under the lock.    *)
(* A write to a freed node is undefined; it does not reach the map.  (That it *)
(* may also end the process is the step Crash after this one.)                *)
AddUpdate ==
    \E r \in line :
        /\ MutexFree
        /\ line' = {}
        /\ sniffed' = Bump(sniffed, r.name, r.dir, r.len)
        /\ IF r.node = "live"
           THEN /\ mApplicationTraffic' = Bump(mApplicationTraffic, r.name, r.dir, r.len)
                /\ UNCHANGED stray
           ELSE /\ stray' = Bump(stray, r.name, r.dir, r.len)
                /\ UNCHANGED mApplicationTraffic
        /\ UNCHANGED <<depositPC, hook, stored, refused, wiped>>

(* What a thread may see that copies the map under the lock: all of it, or,   *)
(* while an insertion relinks the nodes, less.                                *)
Walks(m) == IF line = {} THEN {m}
            ELSE {[n \in S |-> m[n]] : S \in SUBSET DOMAIN m}

-----------------------------------------------------------------------------
(* The deposit thread.  One round is wake, insert, notify, clear.             *)

(* Mutant: the hook is served before the database. *)
DepositWakeNotify ==
    /\ depositPC = "sleep"
    /\ depositPC' = "notify"
    /\ UNCHANGED <<mApplicationTraffic, line, hook, stored, history>>

DepositWake ==
    /\ depositPC = "sleep"
    /\ depositPC' = "insert"
    /\ UNCHANGED <<mApplicationTraffic, line, hook, stored, history>>

(* insertApplicationTraffic accepts the lines of S and drops the others: a    *)
(* name with a semicolon is skipped, any statement may fail and is only       *)
(* logged, and a failing BEGIN or COMMIT is the case S = {}.  (What a failing *)
(* COMMIT leaves in an open transaction is the matter of DBController.tla.)   *)
DepositInsert(S) ==
    /\ depositPC = "insert"
    /\ S \subseteq DOMAIN mApplicationTraffic \ Unstorable
    /\ stored' = Plus(stored, Part(mApplicationTraffic, S))
    /\ refused' = Plus(refused, Part(mApplicationTraffic, Names \ S))
    /\ depositPC' = "notify"
    /\ UNCHANGED <<mApplicationTraffic, line, hook, sniffed, stray, wiped>>

(* mAPIWaiting after the caller has been served. *)
HookKept == mAPIWaiting    \* mutant: the flag is not reset
HookDone == FALSE

(* apiMutex->unlock() *)
UnlockLost(c) == await     \* mutant: the caller's mutex is left locked
Unlock(c)     == [await EXCEPT ![c] = "signalled"]

(* If a caller is hooked in, it gets the map and its mutex is unlocked.  The  *)
(* api pointers keep their values: only mAPIWaiting says if they are usable.  *)
DepositNotify ==
    /\ depositPC = "notify"
    /\ IF mAPIWaiting /\ api # Nil
       THEN /\ \E m \in Walks(mApplicationTraffic) :
                   trafficMap' = [trafficMap EXCEPT ![api] = m]
            /\ await' = Unlock(api)
       ELSE UNCHANGED <<trafficMap, await>>
    /\ mAPIWaiting' = HookDone
    /\ depositPC' = "clear"
    /\ UNCHANGED <<mApplicationTraffic, line, api, stored, history>>

(* clear frees every node, the one a pending add refers to included. *)
NotCleared == mApplicationTraffic    \* mutant: the map survives the deposit
Cleared    == EmptyMap

DepositClear ==
    /\ depositPC = "clear"
    /\ mApplicationTraffic' = Cleared
    /\ line' = {[r EXCEPT !.node = "freed"] : r \in line}
    /\ depositPC' = "sleep"
    /\ UNCHANGED <<hook, stored, history>>

-----------------------------------------------------------------------------
(* API threads. *)

(* The copies getLiveSnapshot may return; it holds the lock meanwhile. *)
getLiveSnapshot == Walks(mApplicationTraffic)

(* Only one caller at a time can be hooked in. *)
AnyCanHook == TRUE    \* mutant: a second caller takes the hook over
CanHook    == ~mAPIWaiting

(* awaitSnapshot with a new frame: the caller hooks in, and its own mutex is  *)
(* locked for it.                                                             *)
AwaitSnapshot(c) ==
    /\ await[c] = "none"
    /\ MutexFree
    /\ CanHook
    /\ mAPIWaiting' = TRUE
    /\ api' = c
    /\ await' = [await EXCEPT ![c] = "locked"]
    /\ UNCHANGED <<trafficMap, buffer, stored, history>>

(* awaitSnapshot returns false and leaves the storage as it is. *)
AwaitRefused(c) == await[c] = "none" /\ MutexFree /\ ~CanHook

(* The caller's own lock of its mutex, once the storage has unlocked it. *)
Relock(c) ==
    /\ await[c] = "signalled"
    /\ await' = [await EXCEPT ![c] = "relocked"]
    /\ UNCHANGED <<mAPIWaiting, api, trafficMap, buffer, stored, history>>

(* End of the caller's loop body: the frame with map and mutex is destroyed. *)
DropFrame(c) ==
    /\ await[c] = "relocked"
    /\ await' = [await EXCEPT ![c] = "none"]
    /\ trafficMap' = [trafficMap EXCEPT ![c] = EmptyMap]
    /\ UNCHANGED <<mAPIWaiting, api, buffer, stored, history>>

-----------------------------------------------------------------------------
(* The process ends (killed, crashed, or shut down: main returns without a    *)
(* last deposit) and is started again.  Only the database survives.           *)
Crash ==
    /\ wiped' = Plus(wiped, InBuffer)
    /\ mApplicationTraffic' = EmptyMap
    /\ line' = {}
    /\ depositPC' = "sleep"
    /\ mAPIWaiting' = FALSE
    /\ api' = Nil
    /\ await' = [c \in Callers |-> "none"]
    /\ trafficMap' = [c \in Callers |-> EmptyMap]
    /\ UNCHANGED <<stored, sniffed, refused, stray>>

Add == (\E n \in Names, d \in Dir, k \in Lens : AddLookup(n, d, k)) \/ AddUpdate

Deposit == DepositWake \/ (\E S \in SUBSET Names : DepositInsert(S))
             \/ DepositNotify \/ DepositClear

Next == Add \/ Deposit \/ Crash
          \/ \E c \in Callers : AwaitSnapshot(c) \/ Relock(c) \/ DropFrame(c)

Spec == Init /\ [][Next]_vars

(* The deposit thread sleeps, then blocks on a mutex that every other thread  *)
(* releases at once: it always gets on.                                       *)
FairSpec == Spec /\ WF_vars(Deposit)

-----------------------------------------------------------------------------
(* The variables have their types, and a reference that add holds into a live *)
(* node names a line of the map (TrafficStorage.cpp:25).                      *)
TypeOK ==
    /\ TrafficMap(mApplicationTraffic)
    /\ line \subseteq Ref
    /\ \A r \in line : r.node = "live" => r.name \in DOMAIN mApplicationTraffic
    /\ depositPC \in {"sleep", "insert", "notify", "clear"}
    /\ mAPIWaiting \in BOOLEAN
    /\ api \in Callers \cup {Nil}
    /\ await \in [Callers -> {"none", "locked", "signalled", "relocked"}]
    /\ \A c \in Callers : TrafficMap(trafficMap[c])
    /\ DOMAIN trafficMap = Callers
    /\ stored \in Accounts
    /\ sniffed \in Accounts
    /\ refused \in Accounts
    /\ stray \in Accounts
    /\ wiped \in Accounts

(* No byte is counted twice and none disappears unnoticed: what add was given *)
(* is in the buffer, in the database, or was lost in one of the three ways    *)
(* the code has of losing it (dropped line, dangling reference, exit).        *)
Conservation ==
    \A n \in Names, d \in Dir :
        sniffed[n][d] = InBuffer[n][d] + stored[n][d] + refused[n][d]
                          + stray[n][d] + wiped[n][d]

(* Whenever the deposit thread would follow the api pointers, they point into *)
(* a frame that exists and whose mutex is locked (TrafficStorage.cpp:82-98).  *)
NoDanglingHook == mAPIWaiting => api \in Callers /\ await[api] = "locked"

(* A caller that waits for its mutex is the one the next deposit will unlock: *)
(* no wake-up is lost to another caller (TrafficStorage.cpp:50-57).           *)
NoLostWakeup == \A c \in Callers : await[c] = "locked" => mAPIWaiting /\ api = c

(* The map a caller reads after relocking holds only bytes that were handed   *)
(* to the database before: a stream never runs ahead of the history.          *)
StreamedIsDeposited ==
    \A c \in Callers : await[c] \in {"signalled", "relocked"} =>
        \A n \in Names, d \in Dir :
            At(trafficMap[c], n)[d] <= stored[n][d] + refused[n][d]

(* Every hooked caller is unlocked by a deposit, unless the process ends.     *)
HookAnswered == \A c \in Callers : await[c] = "locked" ~> await[c] # "locked"

(* The map is emptied again and again (main.cpp:35-37: "gets deposited into   *)
(* the database on a set interval from the config and then gets cleared").    *)
Drains == []<>(DOMAIN mApplicationTraffic = {})

(* The storage implements the ledger: bytes leave the buffer only all at once *)
(* in a deposit or an exit, and enter it one packet at a time.                *)
Ledger == INSTANCE TrafficLedger WITH
    buffered <- InBuffer,
    lost     <- Plus(refused, Plus(stray, wiped))

KeepsLedger == Ledger!LedgerSpec

(* TrafficStorage.hpp:26: "Adds the packet length (amount of bytes rx/tx) to  *)
(* the application's total traffic during this interval."                     *)
EveryAddCounts == stray = Zero

=============================================================================
