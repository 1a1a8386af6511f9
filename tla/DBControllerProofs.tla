------------------------ MODULE DBControllerProofs -------------------------
(***************************************************************************)
(* Proofs about the database: whatever fails, crashes or interleaves, the  *)
(* file changes only by whole batches, and rows keep their key.            *)
(***************************************************************************)
EXTENDS DBController, OperatorLemmas

(* What sqlite3_bind_int stores is a 32 bit int, and the number itself if it   *)
(* fits.  DBController.cpp:98-102.                                             *)
THEOREM BindIntExact ==
    ASSUME NEW x \in Nat
    PROVE  /\ bindInt(x) \in -Half .. Half - 1
           /\ x < Half => bindInt(x) = x
BY DBAssumption DEF bindInt

(* The inductive invariant: outside of a transaction nothing is uncommitted,   *)
(* and a deposit under way is in a transaction of its own, whose rows are the  *)
(* ones it has inserted so far.  Rows have their types and their key.          *)
Deposits == [pc : {"idle", "lines"}, todo : SUBSET Names, timestamp : Time,
             accepted : SUBSET Row]

TxnPart == /\ ~inTxn => txn = {}
           /\ deposit.pc = "lines" => inTxn /\ txn = deposit.accepted

DBInv == /\ deposit \in Deposits
         /\ now \in Time
         /\ disk \subseteq Row /\ txn \subseteq Row
         /\ TxnPart
         /\ OneRowPerTime

LEMMA InitDBInv == DBInit => DBInv
BY DBAssumption DEF DBInit, DBInv, NoDeposit, Deposits, TxnPart, OneRowPerTime, Visible, Time

(* Steps that leave the file and the deposit alone. *)
LEMMA OtherStep ==
    ASSUME DBInv, UNCHANGED <<file, deposit>>, now' \in Time
    PROVE  DBInv'
BY DEF DBInv, file, TxnPart, OneRowPerTime, Visible

LEMMA BeginStep == ASSUME DBInv, NEW S \in SUBSET Names, Begin(S) PROVE DBInv'
<1>1. deposit' = [pc |-> "lines", todo |-> Lines(S), timestamp |-> now, accepted |-> {}]
  BY DEF Begin, NoDeposit
<1>2. txn = {} /\ UNCHANGED <<disk, txn, now>> /\ inTxn'
  BY DEF Begin, DBInv, TxnPart, Begun
<1>3. Lines(S) \in SUBSET Names
  BY DEF Lines
<1>4. deposit' \in Deposits
  BY <1>1, <1>3 DEF Deposits, DBInv
<1>5. TxnPart'
  BY <1>1, <1>2 DEF TxnPart
<1> QED BY <1>2, <1>4, <1>5 DEF DBInv, OneRowPerTime, Visible

LEMMA RowOK == ASSUME DBInv, NEW n \in Names PROVE TheRow(n) \in Row
<1>1. Amount[n] \in Nat /\ TableOf[n] \in Tables
  BY DBAssumption DEF Tables
<1>2. bindInt(Amount[n]) \in -Half .. Half - 1
  BY <1>1, BindIntExact
<1>3. TheTime \in Time
  <2>1. deposit.timestamp \in Nat /\ deposit.timestamp \in Time /\ deposit.timestamp < Half
    BY DBAssumption DEF DBInv, Deposits, Time
  <2>2. TheTime = deposit.timestamp
    BY <2>1, BindIntExact DEF TheTime
  <2> QED BY <2>1, <2>2
<1> QED BY <1>1, <1>2, <1>3 DEF TheRow, Row

LEMMA InsertStep == ASSUME DBInv, NEW n \in Names, InsertLine(n) PROVE DBInv'
<1>1. inTxn /\ txn = deposit.accepted
  BY DEF InsertLine, DBInv, TxnPart
<1>2. txn' = txn \cup {TheRow(n)} /\ UNCHANGED <<disk, inTxn, now>>
  BY <1>1 DEF InsertLine
<1>3. TheRow(n) \in Row
  BY RowOK
<1>4. /\ deposit' \in Deposits /\ deposit'.pc = deposit.pc
      /\ deposit'.accepted = deposit.accepted \cup {TheRow(n)}
  BY <1>3 DEF InsertLine, DBInv, Deposits
<1>5. TxnPart'
  BY <1>1, <1>2, <1>4 DEF TxnPart, DBInv
<1>6. \A r \in Visible : ~(r.table = TheRow(n).table /\ r.ts = TheRow(n).ts)
  BY DEF InsertLine, KeyTaken, TheRow
<1>7. Visible' = Visible \cup {TheRow(n)}
  BY <1>2 DEF Visible
<1>8. OneRowPerTime'
  BY <1>6, <1>7 DEF OneRowPerTime, DBInv
<1> QED BY <1>2, <1>3, <1>4, <1>5, <1>8 DEF DBInv

LEMMA InsertFailsStep == ASSUME DBInv, NEW n \in Names, InsertFails(n) PROVE DBInv'
<1>1. UNCHANGED <<disk, txn, inTxn, now>>
  BY DEF InsertFails, file
<1>2. deposit' \in Deposits /\ deposit'.pc = deposit.pc /\ deposit'.accepted = deposit.accepted
  BY DEF InsertFails, NextLine, DBInv, Deposits
<1> QED BY <1>1, <1>2 DEF DBInv, TxnPart, OneRowPerTime, Visible

(* The deposit is over: COMMIT done or failed, or the daemon died. *)
LEMMA EndStep == ASSUME DBInv, Commit \/ CommitFails \/ DBCrash PROVE DBInv'
<1>1. deposit' \in Deposits /\ deposit'.pc = "idle" /\ UNCHANGED now
  BY DBAssumption DEF Commit, CommitFails, DBCrash, NoDeposit, Deposits, Time, DBInv
<1>2. disk' \subseteq Row /\ txn' \subseteq Row /\ Visible' \subseteq Visible
  BY DEF Commit, CommitFails, DBCrash, DBInv, file, Visible
<1>3. TxnPart'
  BY <1>1 DEF Commit, CommitFails, DBCrash, file, TxnPart, DBInv
<1>4. OneRowPerTime'
  BY <1>2 DEF OneRowPerTime, DBInv
<1> QED BY <1>1, <1>2, <1>3, <1>4 DEF DBInv

LEMMA NextDBInv == DBInv /\ [DBNext]_dbVars => DBInv'
<1> SUFFICES ASSUME DBInv, [DBNext]_dbVars PROVE DBInv'
  OBVIOUS
<1>0. now \in Time
  BY DEF DBInv
<1>1. CASE \E S \in SUBSET Names : Begin(S) \/ BeginFails(S)
  <2>1. PICK S \in SUBSET Names : Begin(S) \/ BeginFails(S)
    BY <1>1
  <2>2. CASE Begin(S)
    BY <2>2, BeginStep
  <2>3. CASE BeginFails(S)
    BY <1>0, <2>3, OtherStep DEF BeginFails, dbVars
  <2> QED BY <2>1, <2>2, <2>3
<1>2. CASE Insertion
  BY <1>2, InsertStep, InsertFailsStep, EndStep DEF Insertion
<1>3. CASE Fetching \/ \E last \in Time : \E first \in 0 .. last : FetchNames(first, last)
  BY <1>0, <1>3, OtherStep DEF Fetching, FetchNames, FetchReturns, FetchTable
<1>4. CASE Clock \/ OtherLocks \/ OtherUnlocks
  BY <1>0, <1>4, OtherStep DEF Clock, OtherLocks, OtherUnlocks
<1>5. CASE DBCrash
  BY <1>5, EndStep
<1>6. CASE UNCHANGED dbVars
  BY <1>0, <1>6, OtherStep DEF dbVars
<1> QED BY <1>1, <1>2, <1>3, <1>4, <1>5, <1>6 DEF DBNext

LEMMA AlwaysDBInv == DBSpec => []DBInv
BY InitDBInv, NextDBInv, PTL DEF DBSpec

(* A table never has two rows for one timestamp, committed or not, for any     *)
(* names, tables and clocks.  DBController.cpp:55-60.                          *)
THEOREM KeyKept == DBSpec => []OneRowPerTime
<1>1. DBInv => OneRowPerTime
  BY DEF DBInv
<1> QED BY <1>1, AlwaysDBInv, PTL

(* The file changes only when a deposit commits, and then by all the rows the  *)
(* deposit has inserted.  DBController.cpp:44-118.                             *)
THEOREM BatchesWhole == DBSpec => WholeBatches
<1>1. ASSUME DBInv, [DBNext]_dbVars
      PROVE  [disk' # disk => AtCommit /\ disk' = disk \cup deposit.accepted]_dbVars
  <2>1. CASE Commit
    BY <1>1, <2>1 DEF Commit, AtCommit, DBInv, TxnPart
  <2>2. CASE \E n \in Names : InsertLine(n)
    BY <1>1, <2>2 DEF InsertLine, DBInv, TxnPart
  <2>3. CASE UNCHANGED disk
    BY <2>3
  <2>4. Commit \/ (\E n \in Names : InsertLine(n)) \/ UNCHANGED disk
    BY <1>1 DEF DBNext, dbVars, file, Begin, BeginFails, Insertion, InsertFails, CommitFails,
                FetchNames, Fetching, FetchReturns, FetchTable, Clock, OtherLocks, OtherUnlocks,
                DBCrash
  <2> QED BY <2>1, <2>2, <2>3, <2>4
<1> QED BY <1>1, AlwaysDBInv, PTL DEF DBSpec, WholeBatches

-----------------------------------------------------------------------------
(* Sums of rows. *)

BytesIn(U) == [r \in U |-> r.bytes]

(* The sum of a set of rows does not depend on the order of its rows. *)
LEMMA BytesAreSum ==
    ASSUME NEW U, NEW X, X \subseteq U, IsFiniteSet(X)
    PROVE  Bytes(X) = SumOf(BytesIn(U), X)
<1> DEFINE f    == BytesIn(U)
           L(g) == g = [s \in SUBSET X |-> IF s = {} THEN 0
                                          ELSE First(s).bytes + g[s \ {First(s)}]]
           h    == CHOOSE g : L(g)
<1>1. Bytes(X) = h[X]
  BY DEF Bytes, MapThenSumSet, MapThenFoldSet, First
<1>2. \A s \in SUBSET X : s # {} => f[First(s)] = First(s).bytes
  BY FirstIn DEF BytesIn
<1> HIDE DEF f
<1>3. ASSUME NEW g PROVE L(g) <=> IsSum(g, f, X)
  <2>1. [s \in SUBSET X |-> IF s = {} THEN 0 ELSE First(s).bytes + g[s \ {First(s)}]]
          = [s \in SUBSET X |-> IF s = {} THEN 0 ELSE f[First(s)] + g[s \ {First(s)}]]
    BY <1>2
  <2> QED BY <2>1 DEF IsSum
<1> HIDE DEF L
<1>4. \E g : L(g)
  BY <1>3, SumExists
<1>5. IsSum(h, f, X)
  BY <1>3, <1>4
<1> HIDE DEF h
<1>6. SumOf(f, X) = h[X]
  BY <1>5, SumOfSolution
<1> QED BY <1>1, <1>6 DEF f

LEMMA BytesType ==
    ASSUME NEW X, X \subseteq Row, IsFiniteSet(X)
    PROVE  Bytes(X) \in Int
<1> DEFINE f == BytesIn(X)
<1>1. \A x \in X : f[x] \in Int
  BY DBAssumption DEF BytesIn, Row
<1> HIDE DEF f
<1>2. SumOf(f, X) \in Int
  BY <1>1, SumType
<1> QED BY <1>2, BytesAreSum DEF f

LEMMA BytesGrow ==
    ASSUME NEW X, X \subseteq Row, IsFiniteSet(X), NEW Y, Y \subseteq X,
           \A r \in X : 0 <= r.bytes
    PROVE  Bytes(Y) <= Bytes(X)
<1> DEFINE f == BytesIn(X)
<1>1. \A x \in X : f[x] \in Int /\ 0 <= f[x]
  BY DBAssumption DEF BytesIn, Row
<1>2. IsFiniteSet(Y)
  BY FS_Subset
<1>3. Bytes(X) = SumOf(f, X) /\ Bytes(Y) = SumOf(f, Y)
  BY <1>2, BytesAreSum
<1> HIDE DEF f
<1> QED BY <1>1, <1>3, SumGrows

LEMMA BytesOfNone == Bytes({}) = 0
BY FS_EmptySet, BytesAreSum, SumEmpty

-----------------------------------------------------------------------------
(* The rest of the state: there are finitely many rows, a counter that fits is *)
(* stored as a number that is not negative, and what a fetch has summed up so  *)
(* far is right.                                                               *)

RowsPart ==
    /\ IsFiniteSet(disk) /\ IsFiniteSet(txn)
    /\ \A r \in Visible : Fits(r.table) => 0 <= r.bytes

Fetches == [pc : {"idle", "tables"}, todo : SUBSET Tables, window : Time \X Time,
            traffic : [Tables -> Int], failed : BOOLEAN, base : SUBSET Row]

Summed(t) ==
    \/ fetch.failed /\ fetch.traffic[t] = 0
    \/ \E new \in SUBSET (Visible \ fetch.base) :
         fetch.traffic[t] = Total(fetch.base \cup new, t, fetch.window[1], fetch.window[2])

FetchPart ==
    /\ fetch.pc = "idle" => fetch.todo = {}
    /\ fetch.pc = "tables" =>
         /\ fetch.base \subseteq Visible
         /\ \A t \in Tables : IF t \in fetch.todo THEN fetch.traffic[t] = 0 ELSE Summed(t)

FlagPart == inTxn \in BOOLEAN /\ other \in {"none", "reading", "exclusive"}

FullInv == DBInv /\ RowsPart /\ fetch \in Fetches /\ FetchPart /\ FlagPart

LEMMA NoFetchOK ==
    /\ NoFetch \in Fetches /\ NoFetch.pc = "idle" /\ NoFetch.todo = {}
<1>1. <<0, 0>> \in Time \X Time /\ [t \in Tables |-> 0] \in [Tables -> Int]
  BY DBAssumption DEF Time
<1>2. NoFetch.pc = "idle" /\ NoFetch.todo = {}
  BY DEF NoFetch
<1> QED BY <1>1, <1>2 DEF NoFetch, Fetches

LEMMA InitFull == DBInit => FullInv
<1> SUFFICES ASSUME DBInit PROVE FullInv
  OBVIOUS
<1>1. DBInv
  BY InitDBInv
<1>2. RowsPart
  BY FS_EmptySet DEF DBInit, RowsPart, Visible
<1>3. fetch \in Fetches /\ FetchPart
  BY NoFetchOK DEF DBInit, FetchPart
<1>4. FlagPart
  BY DEF DBInit, FlagPart
<1> QED BY <1>1, <1>2, <1>3, <1>4 DEF FullInv

(* A fetch under way stays right when rows are added. *)
LEMMA FetchKept ==
    ASSUME FetchPart, UNCHANGED fetch, Visible \subseteq Visible'
    PROVE  FetchPart'
<1>1. ASSUME NEW t, Summed(t) PROVE Summed(t)'
  BY <1>1 DEF Summed
<1> QED BY <1>1 DEF FetchPart

LEMMA RowsKept ==
    ASSUME RowsPart, UNCHANGED <<disk, txn>>
    PROVE  RowsPart' /\ Visible' = Visible
BY DEF RowsPart, Visible

LEMMA InsertRows ==
    ASSUME DBInv, RowsPart, NEW n \in Names, InsertLine(n)
    PROVE  RowsPart' /\ Visible \subseteq Visible'
<1>1. inTxn
  BY DEF InsertLine, DBInv, TxnPart
<1>2. txn' = txn \cup {TheRow(n)} /\ UNCHANGED disk
  BY <1>1 DEF InsertLine
<1>3. IsFiniteSet(txn') /\ IsFiniteSet(disk')
  BY <1>2, FS_AddElement DEF RowsPart
<1>4. Visible' = Visible \cup {TheRow(n)}
  BY <1>2 DEF Visible
<1>5. ASSUME Fits(TheRow(n).table) PROVE 0 <= TheRow(n).bytes
  <2>1. TheRow(n).table = TableOf[n] /\ TheRow(n).bytes = bindInt(Amount[n])
    BY DEF TheRow
  <2>2. Amount[n] \in Nat /\ Amount[n] < Half
    BY <1>5, <2>1, DBAssumption DEF Fits
  <2>3. bindInt(Amount[n]) = Amount[n]
    BY <2>2, BindIntExact
  <2> QED BY <2>1, <2>2, <2>3
<1> QED BY <1>3, <1>4, <1>5 DEF RowsPart

LEMMA EndRows ==
    ASSUME RowsPart, Commit \/ CommitFails
    PROVE  RowsPart' /\ Visible' = Visible
<1>1. CASE Commit
  <2>1. disk' = disk \cup txn /\ txn' = {}
    BY <1>1 DEF Commit
  <2>2. IsFiniteSet(disk') /\ IsFiniteSet(txn')
    BY <2>1, FS_Union, FS_EmptySet DEF RowsPart
  <2>3. Visible' = Visible
    BY <2>1 DEF Visible
  <2> QED BY <2>2, <2>3 DEF RowsPart
<1>2. CASE CommitFails
  BY <1>2, RowsKept DEF CommitFails, file
<1> QED BY <1>1, <1>2

(* The rows a query sums are those of the reference. *)
LEMMA SumIsTotal ==
    ASSUME NEW rows, rows \subseteq Row, NEW t, NEW w \in Time \X Time
    PROVE  SumQuery(rows, t, w) = Total(rows, t, w[1], w[2])
<1>1. \A r \in rows : r.ts \in Int
  BY DEF Row, Time
<1>2. w[1] \in Int /\ w[2] \in Int
  BY DEF Time
<1>3. \A r \in rows : InWindow(r, w) <=> r.ts \in w[1] .. w[2]
  BY <1>1, <1>2 DEF InWindow
<1>4. {r \in rows : r.table = t /\ InWindow(r, w)}
        = {r \in rows : r.table = t /\ r.ts \in w[1] .. w[2]}
  BY <1>3
<1> QED BY <1>4 DEF SumQuery, Total

LEMMA FetchNamesKeeps ==
    ASSUME DBInv, NEW last \in Time, NEW first \in 0 .. last, FetchNames(first, last)
    PROVE  fetch' \in Fetches /\ FetchPart'
<1> DEFINE tables == {r.table : r \in Visible}
           busy   == other = "exclusive"
<1>1. first \in Time /\ <<first, last>> \in Time \X Time
  BY DBAssumption DEF Time
<1>2. Visible \subseteq Row /\ tables \subseteq Tables
  BY DEF DBInv, Visible, Row
<1>3. fetch' = [pc |-> "tables", todo |-> IF busy THEN {} ELSE tables,
                window |-> <<first, last>>, traffic |-> [t \in Tables |-> 0],
                failed |-> busy, base |-> Visible]
  BY DEF FetchNames, NoFetch
<1>4. UNCHANGED <<disk, txn>> /\ Visible' = Visible
  BY DEF FetchNames, file, Visible
<1>5. busy \in BOOLEAN
  OBVIOUS
<1>6. [t \in Tables |-> 0] \in [Tables -> Int]
  OBVIOUS
<1> HIDE DEF busy, tables
<1>7. (IF busy THEN {} ELSE tables) \in SUBSET Tables
  BY <1>2
<1>8. fetch' \in Fetches
  BY <1>1, <1>2, <1>3, <1>5, <1>6, <1>7 DEF Fetches
<1>9. ASSUME NEW t \in Tables PROVE IF t \in fetch'.todo THEN fetch'.traffic[t] = 0
                                                        ELSE Summed(t)'
  <2>1. fetch'.traffic[t] = 0 /\ fetch'.base = Visible /\ fetch'.failed = busy
    BY <1>3
  <2>2. CASE busy
    BY <1>3, <2>1, <2>2 DEF Summed
  <2>3. CASE ~busy /\ t \notin tables
    <3>1. \A r \in Visible : r.table # t
      BY <2>3 DEF tables
    <3>2. Total(fetch'.base \cup {}, t, fetch'.window[1], fetch'.window[2]) = Bytes({})
      BY <2>1, <3>1 DEF Total
    <3>3. {} \in SUBSET (Visible' \ fetch'.base)
      OBVIOUS
    <3> QED BY <2>1, <3>2, <3>3, BytesOfNone DEF Summed
  <2>4. CASE ~busy /\ t \in tables
    BY <1>3, <2>1, <2>4
  <2> QED BY <2>2, <2>3, <2>4
<1> QED BY <1>3, <1>4, <1>8, <1>9 DEF FetchPart

LEMMA FetchTableKeeps ==
    ASSUME FullInv, NEW t \in Tables, FetchTable(t)
    PROVE  fetch' \in Fetches /\ FetchPart'
<1>1. /\ t \in fetch.todo /\ fetch \in Fetches /\ FetchPart /\ fetch.pc = "tables"
      /\ fetch.traffic[t] = 0
  BY DEF FetchTable, FullInv, FetchPart, Fetches
<1>2. Visible' = Visible /\ Visible \subseteq Row /\ IsFiniteSet(Visible)
  BY FS_Union DEF FetchTable, file, Visible, FullInv, DBInv, RowsPart
<1>3. CASE other = "exclusive"
  <2>1. fetch' = [fetch EXCEPT !.todo = @ \ {t}, !.failed = TRUE]
    BY <1>3 DEF FetchTable
  <2>2. /\ fetch' \in Fetches /\ fetch'.pc = "tables" /\ fetch'.todo = fetch.todo \ {t}
        /\ fetch'.traffic = fetch.traffic /\ fetch'.failed /\ fetch'.base = fetch.base
        /\ fetch'.window = fetch.window
    BY <1>1, <2>1 DEF Fetches
  <2>3. ASSUME NEW u \in Tables
        PROVE  IF u \in fetch'.todo THEN fetch'.traffic[u] = 0 ELSE Summed(u)'
    BY <1>1, <1>2, <2>2 DEF FetchPart, Summed
  <2> QED BY <1>1, <1>2, <2>2, <2>3 DEF FetchPart
<1>4. CASE other # "exclusive"
  <2> DEFINE sum == SumQuery(Visible, t, fetch.window)
  <2>1. fetch' = [fetch EXCEPT !.todo = @ \ {t}, !.traffic[t] = sum]
    BY <1>4 DEF FetchTable
  <2>2. sum = Total(Visible, t, fetch.window[1], fetch.window[2])
    BY <1>1, <1>2, SumIsTotal DEF Fetches
  <2>3. sum \in Int
    <3> DEFINE X == {r \in Visible : r.table = t /\ InWindow(r, fetch.window)}
    <3>1. X \subseteq Row /\ IsFiniteSet(X)
      BY <1>2, FS_Subset
    <3> HIDE DEF X
    <3>2. Bytes(X) \in Int
      BY <3>1, BytesType
    <3> QED BY <3>2 DEF X, SumQuery
  <2> HIDE DEF sum
  <2>4. /\ fetch' \in Fetches /\ fetch'.pc = "tables" /\ fetch'.todo = fetch.todo \ {t}
        /\ fetch'.traffic[t] = sum /\ \A u \in Tables \ {t} : fetch'.traffic[u] = fetch.traffic[u]
        /\ fetch'.failed = fetch.failed /\ fetch'.base = fetch.base
        /\ fetch'.window = fetch.window
    BY <1>1, <2>1, <2>3 DEF Fetches
  <2>5. Summed(t)'
    <3>1. fetch.base \subseteq Visible
      BY <1>1 DEF FetchPart
    <3> DEFINE new == Visible \ fetch.base
    <3>2. fetch.base \cup new = Visible
      BY <3>1
    <3>3. new \in SUBSET (Visible' \ fetch'.base)
      BY <1>2, <2>4
    <3>4. fetch'.traffic[t] = Total(fetch'.base \cup new, t, fetch'.window[1], fetch'.window[2])
      BY <2>2, <2>4, <3>2
    <3> QED BY <3>3, <3>4 DEF Summed
  <2>6. ASSUME NEW u \in Tables
        PROVE  IF u \in fetch'.todo THEN fetch'.traffic[u] = 0 ELSE Summed(u)'
    <3>1. CASE u = t
      BY <2>4, <2>5, <3>1
    <3>2. CASE u # t
      BY <1>1, <1>2, <2>4, <3>2 DEF FetchPart, Summed
    <3> QED BY <3>1, <3>2
  <2> QED BY <1>1, <1>2, <2>4, <2>6 DEF FetchPart
<1> QED BY <1>3, <1>4

(* Steps that leave the rows and the fetch alone, but for new rows. *)
LEMMA FetchStays ==
    ASSUME FullInv, UNCHANGED fetch, Visible \subseteq Visible'
    PROVE  fetch' \in Fetches /\ FetchPart'
BY FetchKept DEF FullInv

(* The fetch is over, or gone with the daemon. *)
LEMMA FetchEnds == ASSUME fetch' = NoFetch PROVE fetch' \in Fetches /\ FetchPart'
BY NoFetchOK DEF FetchPart

LEMMA InsertionFull == ASSUME FullInv, Insertion PROVE RowsPart' /\ fetch' \in Fetches /\ FetchPart'
<1>0. DBInv /\ RowsPart
  BY DEF FullInv
<1>1. ASSUME NEW n \in Names, InsertLine(n) PROVE RowsPart' /\ fetch' \in Fetches /\ FetchPart'
  <2>1. RowsPart' /\ Visible \subseteq Visible'
    BY <1>0, <1>1, InsertRows
  <2>2. UNCHANGED fetch
    BY <1>1 DEF InsertLine
  <2> QED BY <2>1, <2>2, FetchStays
<1>2. ASSUME NEW n \in Names, InsertFails(n) PROVE RowsPart' /\ fetch' \in Fetches /\ FetchPart'
  <2>1. UNCHANGED <<disk, txn, fetch>>
    BY <1>2 DEF InsertFails, file
  <2>2. RowsPart' /\ Visible' = Visible
    BY <1>0, <2>1, RowsKept
  <2> QED BY <2>1, <2>2, FetchStays
<1>3. CASE Commit \/ CommitFails
  <2>1. RowsPart' /\ Visible' = Visible
    BY <1>0, <1>3, EndRows
  <2>2. UNCHANGED fetch
    BY <1>3 DEF Commit, CommitFails
  <2> QED BY <2>1, <2>2, FetchStays
<1> QED BY <1>1, <1>2, <1>3 DEF Insertion

(* Steps of a fetch do not touch a row. *)
LEMMA FetchingFull ==
    ASSUME FullInv,
           Fetching \/ \E last \in Time : \E first \in 0 .. last : FetchNames(first, last)
    PROVE  RowsPart' /\ fetch' \in Fetches /\ FetchPart'
<1>1. UNCHANGED <<disk, txn>>
  BY DEF Fetching, FetchNames, FetchReturns, FetchTable, file
<1>2. RowsPart'
  BY <1>1, RowsKept DEF FullInv
<1>3. CASE FetchReturns
  BY <1>2, <1>3, FetchEnds DEF FetchReturns
<1>4. ASSUME NEW t \in Tables, FetchTable(t) PROVE fetch' \in Fetches /\ FetchPart'
  BY <1>4, FetchTableKeeps
<1>5. ASSUME NEW last \in Time, NEW first \in 0 .. last, FetchNames(first, last)
      PROVE  fetch' \in Fetches /\ FetchPart'
  BY <1>5, FetchNamesKeeps DEF FullInv
<1> QED BY <1>2, <1>3, <1>4, <1>5 DEF Fetching

LEMMA CrashFull == ASSUME FullInv, DBCrash PROVE RowsPart' /\ fetch' \in Fetches /\ FetchPart'
<1>1. disk' = disk /\ txn' = {} /\ fetch' = NoFetch
  BY DEF DBCrash
<1>2. Visible' \subseteq Visible
  BY <1>1 DEF Visible
<1>3. RowsPart'
  BY <1>1, <1>2, FS_EmptySet DEF FullInv, RowsPart
<1> QED BY <1>1, <1>3, FetchEnds

LEMMA NextFlags == ASSUME FlagPart, [DBNext]_dbVars PROVE FlagPart'
BY DEF FlagPart, DBNext, dbVars, file, Begin, Begun, BeginFails, Insertion, InsertLine, InsertFails,
       Commit, CommitFails, FetchNames, Fetching, FetchReturns, FetchTable, Clock, OtherLocks,
       OtherUnlocks, DBCrash

LEMMA NextFull == FullInv /\ [DBNext]_dbVars => FullInv'
<1> SUFFICES ASSUME FullInv, [DBNext]_dbVars PROVE FullInv'
  OBVIOUS
<1>1. DBInv' /\ FlagPart'
  BY NextDBInv, NextFlags DEF FullInv
<1>2. RowsPart' /\ fetch' \in Fetches /\ FetchPart'
  <2>1. CASE UNCHANGED <<disk, txn, fetch>>
    <3>1. RowsPart' /\ Visible' = Visible
      BY <2>1, RowsKept DEF FullInv
    <3> QED BY <2>1, <3>1, FetchStays
  <2>2. CASE Insertion
    BY <2>2, InsertionFull
  <2>3. CASE Fetching \/ \E last \in Time : \E first \in 0 .. last : FetchNames(first, last)
    BY <2>3, FetchingFull
  <2>4. CASE DBCrash
    BY <2>4, CrashFull
  <2>5. CASE \/ \E S \in SUBSET Names : Begin(S) \/ BeginFails(S)
             \/ Clock \/ OtherLocks \/ OtherUnlocks \/ UNCHANGED dbVars
    BY <2>1, <2>5 DEF Begin, BeginFails, Clock, OtherLocks, OtherUnlocks, dbVars, file
  <2> QED BY <2>2, <2>3, <2>4, <2>5 DEF DBNext
<1> QED BY <1>1, <1>2 DEF FullInv

LEMMA AlwaysFull == DBSpec => []FullInv
BY InitFull, NextFull, PTL DEF DBSpec

(* The types of the whole state, and the primary key.  DBController.cpp:19-216. *)
THEOREM DatabaseType == DBSpec => []DBTypeOK
<1>1. ASSUME FullInv PROVE DBTypeOK
  <2>1. /\ disk \subseteq Row /\ txn \subseteq Row /\ OneRowPerTime /\ now \in Time
        /\ deposit \in [pc : {"idle", "lines"}, todo : SUBSET Names, timestamp : Time,
                        accepted : SUBSET Row]
    BY <1>1 DEF FullInv, DBInv, Deposits
  <2>2. inTxn \in BOOLEAN /\ other \in {"none", "reading", "exclusive"}
    BY <1>1 DEF FullInv, FlagPart
  <2>3. /\ fetch.pc \in {"idle", "tables"} /\ fetch.todo \subseteq Tables
        /\ fetch.window \in Time \X Time /\ fetch.traffic \in [Tables -> Int]
        /\ fetch.failed \in BOOLEAN
    BY <1>1 DEF FullInv, Fetches
  <2> QED BY <2>1, <2>2, <2>3 DEF DBTypeOK
<1> QED BY <1>1, AlwaysFull, PTL

(* Every sum a fetch returns has all the rows from before the fetch, and       *)
(* otherwise rows added meanwhile, however its queries interleave with         *)
(* deposits and however many tables there are.  DBController.cpp:178-212.      *)
THEOREM FetchExact == DBSpec => []FetchConsistent
<1>1. FullInv => FetchConsistent
  BY DEF FullInv, FetchPart, FetchDone, FetchConsistent, Summed
<1> QED BY <1>1, AlwaysFull, PTL

LEMMA TotalGrows ==
    ASSUME NEW X, X \subseteq Row, IsFiniteSet(X), NEW Y, Y \subseteq X,
           NEW t, \A r \in X : r.table = t => 0 <= r.bytes, NEW first, NEW last
    PROVE  Total(Y, t, first, last) <= Total(X, t, first, last)
<1> DEFINE P == {r \in X : r.table = t /\ r.ts \in first .. last}
           Q == {r \in Y : r.table = t /\ r.ts \in first .. last}
<1>1. P \subseteq Row /\ IsFiniteSet(P) /\ Q \subseteq P /\ \A r \in P : 0 <= r.bytes
  BY FS_Subset
<1> HIDE DEF P, Q
<1>2. Bytes(Q) <= Bytes(P)
  BY <1>1, BytesGrow
<1> QED BY <1>2 DEF P, Q, Total

(* No step makes the history of an application smaller, in any window, as long *)
(* as its counters fit into 31 bits.  DBController.cpp:98-102.                 *)
THEOREM HistoryNeverShrinks == DBSpec => HistoryGrows
<1>1. ASSUME FullInv, FullInv', [DBNext]_dbVars, disk' # disk,
             NEW t \in Tables, Fits(t), NEW last \in Time, NEW first \in 0 .. last
      PROVE  Total(disk', t, first, last) >= Total(disk, t, first, last)
  <2>1. disk \subseteq disk'
    BY <1>1 DEF DBNext, dbVars, file, Begin, BeginFails, Insertion, InsertLine, InsertFails,
                Commit, CommitFails, FetchNames, Fetching, FetchReturns, FetchTable, Clock,
                OtherLocks, OtherUnlocks, DBCrash
  <2>2. disk' \subseteq Row /\ IsFiniteSet(disk')
    BY <1>1 DEF FullInv, DBInv, RowsPart
  <2>3. \A r \in disk' : r.table = t => 0 <= r.bytes
    BY <1>1 DEF FullInv, RowsPart, Visible, Fits
  <2>4. Total(disk, t, first, last) <= Total(disk', t, first, last)
    BY <2>1, <2>2, <2>3, TotalGrows
  <2>5. Total(disk, t, first, last) \in Int /\ Total(disk', t, first, last) \in Int
    <3> DEFINE A(X) == {r \in X : r.table = t /\ r.ts \in first .. last}
    <3>1. /\ A(disk) \subseteq Row /\ IsFiniteSet(A(disk))
          /\ A(disk') \subseteq Row /\ IsFiniteSet(A(disk'))
      BY <2>1, <2>2, FS_Subset
    <3> QED BY <3>1, BytesType DEF Total
  <2> QED BY <2>4, <2>5
<1>2. ASSUME FullInv, FullInv', [DBNext]_dbVars
      PROVE  [disk' # disk =>
                \A t \in Tables : Fits(t) =>
                   \A last \in Time : \A first \in 0 .. last :
                      Total(disk', t, first, last) >= Total(disk, t, first, last)]_dbVars
  BY <1>1, <1>2
<1> QED BY <1>2, AlwaysFull, PTL DEF DBSpec, HistoryGrows

=============================================================================
