---------------------------- MODULE DBController ----------------------------
(***************************************************************************)
(* The database of ntmd (traffic/DBController.cpp): one SQLite connection, *)
(* shared by the deposit thread, which inserts a batch of traffic lines,   *)
(* and the API's server thread, which fetches history.  Each SQLite call   *)
(* is one step; calls of the two threads interleave.  Another process may  *)
(* use the same file, the clock may be set, and the daemon may die.        *)
(*                                                                         *)
(* A row is a timestamp and one counter; the four columns are treated      *)
(* alike by the code.  A table without rows in the queried window gives    *)
(* the empty line, which the code leaves out: 0 stands for it.             *)
(***************************************************************************)
EXTENDS Integers, FiniteSetsExt

CONSTANTS
    Names,       \* application names
    Unstorable,  \* names with a semicolon
    TableOf,     \* name -> table; SQLite ignores case, so not injective
    Amount,      \* name -> bytes of its line in a batch
    Half,        \* 2^31, scaled: sqlite3_bind_int takes a 32 bit int
    MaxTime      \* bound on the clock, which fits into an int (until 2038)

Tables == {TableOf[n] : n \in Names}
Time   == 0 .. MaxTime

ASSUME DBAssumption ==
    /\ Unstorable \subseteq Names
    /\ Amount \in [Names -> Nat]
    /\ Half \in Nat \ {0}
    /\ MaxTime \in Nat /\ MaxTime < Half

VARIABLES
    disk,     \* committed rows
    txn,      \* rows of the open transaction
    inTxn,    \* the connection is inside a transaction
    deposit,  \* the active call of insertApplicationTraffic
    fetch,    \* the active call of fetchTrafficWithQuery
    now,      \* time(nullptr)
    other     \* the lock that another process holds on the file

file   == <<disk, txn, inTxn>>
dbVars == <<file, deposit, fetch, now, other>>

(* A deposit: lines left, timestamp, and (history) rows inserted so far. *)
NoDeposit == [pc |-> "idle", todo |-> {}, timestamp |-> 0, accepted |-> {}]

(* A fetch: tables left, window of the query, the traffic map being built,    *)
(* and (history) whether a query failed and the rows visible at the start.    *)
NoFetch == [pc |-> "idle", todo |-> {}, window |-> <<0, 0>>,
            traffic |-> [t \in Tables |-> 0], failed |-> FALSE, base |-> {}]

Row == [table : Tables, ts : Time, bytes : -Half .. Half - 1]

(* The connection sees its own uncommitted rows. *)
Visible == disk \cup txn

(* sqlite3_bind_int: a 64 bit number is narrowed to a signed 32 bit int. *)
bindInt(x) == ((x + Half) % (2 * Half)) - Half

StrictWindow(r, w) == w[1] < r.ts /\ r.ts <= w[2]    \* mutant: > instead of >=
InWindow(r, w)     == w[1] <= r.ts /\ r.ts <= w[2]

Bytes(rows) == MapThenSumSet(LAMBDA r : r.bytes, rows)

(* select SUM(...) from a table where timestamp is in the window *)
SumQuery(rows, t, w) == Bytes({r \in rows : r.table = t /\ InWindow(r, w)})

DBInit ==
    /\ disk = {}
    /\ txn = {}
    /\ inTxn = FALSE
    /\ deposit = NoDeposit
    /\ fetch = NoFetch
    /\ now = 0
    /\ other = "none"

-----------------------------------------------------------------------------
(* insertApplicationTraffic *)

(* BEGIN fails only inside a transaction; then the batch is dropped. *)
BeginFails(S) ==
    /\ deposit.pc = "idle"
    /\ inTxn
    /\ UNCHANGED dbVars

Autocommit == FALSE    \* mutant: no transaction is begun
Begun      == TRUE

(* Names with a semicolon are skipped by the loop. *)
Lines(S) == S \ Unstorable

Begin(S) ==
    /\ deposit.pc = "idle"
    /\ ~inTxn
    /\ inTxn' = Begun
    /\ deposit' = [NoDeposit EXCEPT !.pc = "lines", !.todo = Lines(S), !.timestamp = now]
    /\ UNCHANGED <<disk, txn, fetch, now, other>>

RetryLine(n) == deposit.todo    \* mutant: a failed INSERT is tried again at once
NextLine(n)  == deposit.todo \ {n}

(* The timestamp and the counters are bound alike. *)
TheTime == bindInt(deposit.timestamp)

bindShort(x)   == ((x + (Half \div 2)) % Half) - (Half \div 2)
TheRowShort(n) ==    \* mutant: the counters are narrowed further
    [table |-> TableOf[n], ts |-> TheTime, bytes |-> bindShort(Amount[n])]
TheRow(n)      == [table |-> TableOf[n], ts |-> TheTime, bytes |-> bindInt(Amount[n])]

(* The timestamp is the primary key of a table. *)
NoKey(n)    == FALSE    \* mutant: the column is not a key
KeyTaken(n) == \E r \in Visible : r.table = TableOf[n] /\ r.ts = TheTime

(* CREATE TABLE IF NOT EXISTS and INSERT: the row goes to the open            *)
(* transaction, or to the file if there is none.                              *)
InsertLine(n) ==
    /\ deposit.pc = "lines"
    /\ n \in deposit.todo
    /\ ~KeyTaken(n)
    /\ other # "exclusive"
    /\ IF inTxn
       THEN txn' = txn \cup {TheRow(n)} /\ UNCHANGED disk
       ELSE disk' = disk \cup {TheRow(n)} /\ UNCHANGED txn
    /\ deposit' = [deposit EXCEPT !.todo = @ \ {n}, !.accepted = @ \cup {TheRow(n)}]
    /\ UNCHANGED <<inTxn, fetch, now, other>>

(* A failed INSERT is logged and the line is gone.  It fails for its key or for *)
(* the lock of another process; a full disk or an I/O error, for which SQLite   *)
(* also cancels the transaction, is not modelled.                               *)
InsertFails(n) ==
    /\ deposit.pc = "lines"
    /\ n \in deposit.todo
    /\ KeyTaken(n) \/ other = "exclusive"
    /\ deposit' = [deposit EXCEPT !.todo = NextLine(n)]
    /\ UNCHANGED <<file, fetch, now, other>>

AtCommit == deposit.pc = "lines" /\ deposit.todo = {}

(* COMMIT needs the file for itself once something was written. *)
Commit ==
    /\ AtCommit
    /\ txn = {} \/ other = "none"
    /\ disk' = disk \cup txn
    /\ txn' = {}
    /\ inTxn' = FALSE
    /\ deposit' = NoDeposit
    /\ UNCHANGED <<fetch, now, other>>

(* A failed COMMIT leaves the transaction open.  Its result is not looked at: *)
(* the test after it is on the result of BEGIN.                               *)
CommitFails ==
    /\ AtCommit
    /\ txn # {} /\ other # "none"
    /\ deposit' = NoDeposit
    /\ UNCHANGED <<file, fetch, now, other>>

-----------------------------------------------------------------------------
(* fetchTrafficSince (last = MaxTime) and fetchTrafficBetween.  Clients ask for *)
(* windows that are not empty, as docs/api.md wants it.                        *)

(* fetchApplicationNames *)
FetchNames(first, last) ==
    /\ fetch.pc = "idle"
    /\ fetch' = [NoFetch EXCEPT
                   !.pc = "tables",
                   !.todo = IF other = "exclusive" THEN {} ELSE {r.table : r \in Visible},
                   !.failed = (other = "exclusive"),
                   !.window = <<first, last>>,
                   !.base = Visible]
    /\ UNCHANGED <<file, deposit, now, other>>

(* One table is summed.  A failed query is logged and its application left    *)
(* out of the result.                                                         *)
FetchTable(t) ==
    /\ t \in fetch.todo
    /\ fetch' = IF other = "exclusive"
                THEN [fetch EXCEPT !.todo = @ \ {t}, !.failed = TRUE]
                ELSE [fetch EXCEPT !.todo = @ \ {t},
                                   !.traffic[t] = SumQuery(Visible, t, fetch.window)]
    /\ UNCHANGED <<file, deposit, now, other>>

FetchDone == fetch.pc = "tables" /\ fetch.todo = {}

FetchReturns ==
    /\ FetchDone
    /\ fetch' = NoFetch
    /\ UNCHANGED <<file, deposit, now, other>>

-----------------------------------------------------------------------------
(* The environment. *)

(* The clock goes on, or is set. *)
Clock ==
    /\ now' \in Time \ {now}
    /\ UNCHANGED <<file, deposit, fetch, other>>

(* Another process reads the file, or writes to it, which needs that this one *)
(* has not written yet.                                                       *)
OtherLocks ==
    /\ other = "none"
    /\ \/ other' = "reading"
       \/ other' = "exclusive" /\ txn = {}
    /\ UNCHANGED <<file, deposit, fetch, now>>

OtherUnlocks ==
    /\ other # "none"
    /\ other' = "none"
    /\ UNCHANGED <<file, deposit, fetch, now>>

(* The daemon dies and is started again: SQLite rolls the transaction back. *)
DBCrash ==
    /\ txn' = {}
    /\ inTxn' = FALSE
    /\ deposit' = NoDeposit
    /\ fetch' = NoFetch
    /\ UNCHANGED <<disk, now, other>>

Insertion ==
    \/ \E n \in Names : InsertLine(n) \/ InsertFails(n)
    \/ Commit
    \/ CommitFails

Fetching == FetchReturns \/ \E t \in Tables : FetchTable(t)

DBNext ==
    \/ \E S \in SUBSET Names : Begin(S) \/ BeginFails(S)
    \/ Insertion
    \/ \E last \in Time : \E first \in 0 .. last : FetchNames(first, last)
    \/ Fetching
    \/ Clock
    \/ OtherLocks
    \/ OtherUnlocks
    \/ DBCrash

DBSpec == DBInit /\ [][DBNext]_dbVars

(* A SQLite call returns: no busy handler is set, so none of them waits. *)
DBFairSpec == DBSpec /\ WF_dbVars(Insertion)

-----------------------------------------------------------------------------
(* The primary key: a table has one row for a timestamp. *)
OneRowPerTime == \A r, s \in Visible : r.table = s.table /\ r.ts = s.ts => r = s

(* Types, and the primary key. *)
DBTypeOK ==
    /\ disk \subseteq Row /\ txn \subseteq Row
    /\ OneRowPerTime
    /\ inTxn \in BOOLEAN
    /\ deposit \in [pc : {"idle", "lines"}, todo : SUBSET Names, timestamp : Time,
                    accepted : SUBSET Row]
    /\ fetch.pc \in {"idle", "tables"}
    /\ fetch.todo \subseteq Tables
    /\ fetch.window \in Time \X Time
    /\ fetch.traffic \in [Tables -> Int]
    /\ fetch.failed \in BOOLEAN
    /\ now \in Time
    /\ other \in {"none", "reading", "exclusive"}

(* The file changes only by whole batches: a crash at any moment leaves every *)
(* accepted line of a batch in it, or none (DBController.cpp:44, 114).        *)
WholeBatches ==
    [][disk' # disk => AtCommit /\ disk' = disk \cup deposit.accepted]_dbVars

(* Reference: the bytes of a table from the first to the last timestamp. *)
Total(rows, t, first, last) ==
    Bytes({r \in rows : r.table = t /\ r.ts \in first .. last})

(* What a fetch returns for an application is the sum over a set of rows that *)
(* has all rows from before the fetch and otherwise rows that a deposit added *)
(* meanwhile.  If SQLite did not answer every query an application may be     *)
(* left out, but never have a wrong sum (DBController.cpp:178-212).           *)
FetchConsistent ==
    FetchDone =>
        \A t \in Tables :
            \/ fetch.failed /\ fetch.traffic[t] = 0
            \/ \E new \in SUBSET (Visible \ fetch.base) :
                 fetch.traffic[t] =
                     Total(fetch.base \cup new, t, fetch.window[1], fetch.window[2])

(* The history of an application never shrinks, whatever is deposited, fails   *)
(* or crashes: no row is overwritten or taken back, and a counter is stored as *)
(* it is while it fits into 31 bits.  A larger one may be stored as a negative *)
(* amount (DBController.cpp:98-102).                                           *)
Fits(t) == \A n \in Names : TableOf[n] = t => Amount[n] < Half

HistoryGrows ==
    [][disk' # disk =>
         \A t \in Tables : Fits(t) =>
            \A last \in Time : \A first \in 0 .. last :
               Total(disk', t, first, last) >= Total(disk, t, first, last)]_dbVars

(* A deposit ends whatever the other users of the file do.  The caller holds  *)
(* the storage's lock meanwhile (TrafficStorage.cpp:72-74).                   *)
DepositReturns == deposit.pc # "idle" ~> deposit.pc = "idle"

(* DBController.hpp:31-32: "Take the built up network traffic from            *)
(* TrafficStorage over the time interval and deposit the traffic into the     *)
(* database": a batch is not dropped as a whole while nobody else uses it.    *)
DroppedOnlyWhenBusy == deposit.pc = "idle" /\ inTxn => other # "none"

=============================================================================
