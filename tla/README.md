# A TLA+ model of ntmd

ntmd is a daemon that sniffs the packets of a machine, finds the process each
packet belongs to, adds up the bytes per application, deposits the sums in a
SQLite database on an interval, and serves live and historical traffic over a
socket. This directory models it from a captured frame to the file and the
clients, and the life of the process around that; it checks the model with TLC
and proves its safety properties with TLAPS. Paths below are relative to the repository's
`src/` directory.

## Inventory

| Component | State | Operations | Correct means |
|---|---|---|---|
| Packet, packet hash, IP list (`net/`) | the addresses of the device | parsing, direction, hashing | direction is decided by the local addresses; a packet and its socket have one hash |
| Socket index (`proc/SocketIndex.cpp`) | packet hash -> inode, hashes not found | `refresh`, `get`, the clearing thread | no open socket of a table that is read is missed; a failure is not final |
| Process index (`proc/ProcessIndex.cpp`) | inode -> process, LRU cache of pids, inodes not found | construction, `get`, the clearing thread | a search misses no process that has the socket; a failure is not final |
| LRU array (`util/LRUArray.hpp`) | a deque and its size | `update`, `contains`, `erase` | no duplicates, never above its size, keeps what was used last |
| Process resolver (`proc/ProcessResolver.cpp`) | the two indexes | `resolve` | no packet is credited to a bystander |
| Sniffer (`net/Sniffer.cpp`, `net/SnifferLoop.cpp`) | the pcap handle | construction, `dispatch` and its callback | packets that are kept are resolved and added once |
| Traffic storage (`traffic/TrafficStorage.cpp`) | map application -> counters, `mMutex`, the live hook (`mAPIWaiting` and three pointers) | `add`, `getLiveSnapshot`, `awaitSnapshot`, the deposit loop | every byte is in one place only; the hook never dangles and loses no wake-up |
| Database (`traffic/DBController.cpp`) | one SQLite connection, a table per application | `insertApplicationTraffic`, `fetchTrafficSince`, `fetchTrafficBetween` | batches are atomic; a fetch returns sums of rows; history does not shrink; a deposit returns |
| Socket API (`api/APIController.cpp`) | a listening socket, a request buffer, a descriptor per client, a thread per stream | server loop, `live`, `liveText`, `snapshot`, `trafficDaily`, `trafficSince`, `trafficBetween` | descriptors used while open and closed once done; no byte streamed twice; requests are served while the process lives |
| Daemon and main (`Daemon.cpp`, `main.cpp`) | the running flag, the parts, their threads | signal handling, construction, the dispatch loop, destruction | only SIGINT and SIGTERM end it, and they do once `dispatch` returns; threads have what they refer to |
| Configuration, arguments (`config/`) | the settings | parse, read, write back, merge | arguments win over the file; the file keeps what was written there |
| Helpers (`util/`) | none | formatting, tokenising | - |

How they interact. `main` reads the settings, installs the signal handlers and
constructs the parts. The main thread then runs the sniffer, whose callback asks
the resolver (socket index, then process index) and calls `TrafficStorage::add`.
A detached thread in the storage calls the database and serves the hook. A
detached server thread in the API calls the storage and the database, and
starts one detached thread per live stream, which waits in the storage's hook.
Two more detached threads clear the lists of failures of the two indexes.

What is hard. `add` uses the map before it has the lock. The hook lends
pointers into an API thread's stack frame to the deposit thread and uses a
mutex as a signal, locked by one thread and unlocked by another. Clients hang up
at any moment, and whether a send fails, succeeds or raises a signal depends on
what was sent before. One SQLite connection is used by two threads at once
while other processes may lock the file. Processes and sockets come and go
while `/proc` is being read, and both indexes remember for ever what they have
found. Signals arrive while the process is being set up or torn down, and the
configuration file is emptied and written again at every start.
`PROJECT.json` lists these hazards line by line with the properties that would
catch them.

## Modules

From a frame to a process:

- `Packet` gives, as operators, the list of local addresses, type and direction
  of a packet, the test for discarding, and the two ways to a hash, from a
  packet and from a line of a socket table. `initList` is the loop over the
  entries, as a recursive function of their number. Entries of `getifaddrs` that are not
  IPv4, and IPv6 addresses in `unpackIP`, are converted as the code converts
  them. `BelongsTo` is the reference: whose packet it really is; an IPv6 socket
  bound to `::` gets IPv4 packets too.
- `SocketIndex` EXTENDS it. The kernel opens and closes sockets; `call` is the
  call under way, which reads one table per step, so that sockets change between
  two tables. Lines with the same hash replace each other in any order, and
  connections in TIME_WAIT appear with inode 0. Sockets may be in the table
  udp6, which is not among the tables that are read (`TablesRead`).
- `ProcessLookup` is the abstract specification of the process index: it learns
  by reading whole process directories, never unlearns, and gives an inode up
  only if nobody had it during the whole lookup.
- `LRUArray` gives `update`, `contains` and `erase` as operators on sequences;
  `ProcessIndex` EXTENDS it. `owns` is what `/proc` shows; a call of `get` is the
  record `search`, which reads one process directory per step; the cached pids
  that turned out to be dead are erased together (`EraseExpired`) before the
  listing of `/proc`. `KeepsPromise`
  says that it implements `ProcessLookup`. `LRUArrayUse` is one array under any
  sequence of operations.
- `ProcessResolver` is the sniffer's callback: it composes the socket index with
  the promise of the process index (`PI == INSTANCE ProcessLookup`), and each
  of its steps on the process index is a step of that promise.

From a process to the file and the clients:

- `TrafficLedger` is the abstract specification of the accounting: bytes are
  buffered, stored or lost, and leave the buffer all together.
- `TrafficStorage` models the storage. Variables carry the names of the members.
  `line` is the reference `add` holds between its lookup and its lock; a clear
  turns it into a freed one. One round of the deposit thread is four steps,
  `DepositWake`, `DepositInsert`, `DepositNotify`, `DepositClear`, all under
  `mMutex`, so that `add`'s unlocked lookup can fall between any two of them.
  The other critical sections are single steps, guarded by `MutexFree`. The hook
  is `mAPIWaiting` and `api` (the three pointers always belong to one frame);
  `await` and `trafficMap` are the frames of the callers. `Crash` ends and
  restarts the process; a graceful shutdown is the same step, because `main`
  returns without a last deposit. The unlocked lookup races with every reader
  of the map: `Walks`, the free choice of `DepositInsert` and `Crash` are the
  outcomes allowed for it (lines missed, or the process ended). Four history
  variables (`sniffed`, `refused`, `stray`, `wiped`) record where bytes went.
- `APIController` EXTENDS the storage and composes it with the server thread,
  the streams and their clients. Every action of the API that touches the
  storage is written with the storage's own action (`Await` with
  `AwaitSnapshot`, `Lock` with `Relock`, `SendPayload` with `DropFrame`, `Die`
  with `Crash`), and `UsesStorage` checks that the composition implements the
  storage's specification. A client may close its end, where the first send
  still succeeds and provokes the reset, or abort it, where the next call
  consumes the error; after that a send raises SIGPIPE unless MSG_NOSIGNAL is
  given. `last` is the request left in the buffer: a read that fails leaves it
  there, and it is handled once more for the new client. A descriptor that a
  handler closes is "closed", one that goes with the process is "lost".
- `DBController` models insertion and fetch, one SQLite call per step, with the
  environment: another process that reads or writes the file, a clock that may
  be set, and crashes. `TableOf` maps names to tables, because SQLite ignores
  case. `bindInt` narrows a counter or a timestamp as `sqlite3_bind_int` does,
  with `Half` for 2^31.

The process:

- `Config` gives the command line, the reading of the file and the merge as
  operators; a text of the wrong type is `Junk`, a missing argument `Nothing`,
  and the port is narrowed to 16 bits.
- `Daemon` EXTENDS it and runs `main` step by step: the root test, the command
  line one argument at a time, the file (found, read, emptied, written), the merge, the handlers, the
  parts and their threads in order, the dispatch loop, and destruction in
  reverse. Signals, kills and edits of the files may come between any two steps.

The proofs are in `TrafficStorageProofs`, `APIControllerProofs`,
`DBControllerProofs`, `ProcessIndexProofs`, `LRUArrayUseProofs`,
`ProcessResolverProofs` and `DaemonProofs`; `OperatorLemmas` has what they share.
The `MC...` modules give the constants their small values.
Definitions marked as mutants are not used by any specification; each is a
plausible slip in the code that breaks one property.

## Runs

Eight runs pass, each in less than three minutes.

- `storage`: two names, one of which the database skips, packets of one
  and two bytes in both directions up to two bytes in all, two API threads
  (80,976 states). Two bytes are enough for one packet before and one after a
  clear, or two names in one batch, and two callers for every conflict about
  the only hook. It checks `Conservation`,
  `NoDanglingHook`, `NoLostWakeup`, `StreamedIsDeposited`, that hooked callers
  are answered (`HookAnswered`), that the map is emptied again and again
  (`Drains`), and that the storage implements `TrafficLedger` (`KeepsLedger`).
- `api`: two connections, each used once for any request, one byte of traffic,
  one outside kill (958,366 states). One connection can stream while
  the other is refused, served or stalled, or has its request replayed for it;
  the daemon's own ways of ending may happen at any point. It checks
  `OpenWhileUsed`, `StreamedOnce`, `SnapshotIsPending`, `UsesStorage`, and that a
  stream is refused only because another one is waiting (`RefusedOnlyByOther`).
- `api_liveness`: the same without traffic, since whether threads get on does
  not depend on the bytes (78,284 states). `HangupEndsStream`, and
  `RequestServed`: a request is answered or handed to a stream, or a silent client
  holds the server, or the process ends first.
- `db`: four names (two that share a table, one of them with a line beyond 32
  bits, and one unstorable), two instants (521,450 states). Two instants separate
  rows inside and outside of a window and let the clock be set back.
  `FetchConsistent` (a result is a sum of rows, and a query that fails leaves
  its application out and never gives a wrong sum), `HistoryGrows` (a history
  shrinks only by a truncated counter), `WholeBatches`, `DepositReturns`.
- `process`: two pids, three sockets, a cache of one pid (70,821 states). A
  found socket is never searched for again, so three sockets are needed to fill
  the cache, to replace what it holds and to search once more; one pid is then
  cached and one is not, and they change places during a search. Inodes are used
  again by other processes. `SearchComplete`, `FoundInTheEnd` (the map names the
  process that keeps a socket, unless it had an entry for the inode before),
  `KeepsPromise`, and in `PITypeOK` the promise of the LRU array.
- `lru`: four items, sizes 0 to 3, up to six updates between two clears, which
  is enough to fill the largest array and to reorder, drop and take back an
  item (37,432 states). `LRUTypeOK` (no duplicates, no overflow) and `Recency` (what is kept is
  what was used last).
- `resolver`: two inodes of two processes, and five kinds of socket: a TCP
  connection, one mapped into IPv6, a UDP socket, an IPv6 UDP socket bound to
  `::`, and an IPv6 listener on the UDP sockets' port; eleven frames, of which
  some are for nobody; a device with all families of entries and one without
  any (101,769 states). Two inodes are enough
  for a socket that is closed and opened again, and for two sockets with one
  hash. Inodes are handed out in order, not used again, and the process of each
  is fixed, which loses nothing because processes differ in nothing else.
  `NothingMissed`, `DirectionRight`, `RightOrUnknown`, `CreditedInTheEnd`, and in
  `SITypeOK` that every entry of the socket map belongs to its hash.
- `startup`: two configuration files, a good content and one with a bad and an
  oversized value, six command lines (none, one that repeats an option and
  names the other file, and four that end the program, with an unknown option
  before and after `--help`), two lists of devices (458,185 states). `SettingsSurvive`, `ArgumentsFirst`, `ThreadsHaveParts`,
  `StaysUp`, `TermEnds`.

Four runs show where the code departs from its comments.

- `dangling_add`: a deposit between `add`'s lookup and its lock frees the line;
  the packet is counted nowhere (and the write goes to freed memory).
- `socket_leak`: `liveText` does not close the socket when the welcome fails.
- `sigpipe`: an error message is sent without MSG_NOSIGNAL on a connection whose
  client aborted it, which ends the daemon. There are two ways to it: the read of
  a new request fails and the bad request before it is answered once more
  (`APIController.cpp:134-219`), or a `live` stream is refused after a payload
  could not be delivered (line 302).
- `open_transaction`: a failed COMMIT is not noticed (the code tests the result
  of BEGIN again), and the next batches are dropped.

Other departures are part of the model, and the properties name them as their
exceptions:

- a second client that asks between a deposit and a stream's next
  `awaitSnapshot` ends the running stream (`RefusedOnlyByOther` holds: it is
  another client that waits);
- a UDP packet hits any socket that is stored under its port number alone, a TCP
  listener included (`PortClash` in `RightOrUnknown`);
- a hit in the socket map is never checked again, so a connection with the four
  values of an earlier one is credited to the earlier process (`Sole` in
  `CreditedInTheEnd`);
- the table udp6 is never read (`SocketIndex.cpp:122-125`; `SocketIndex.hpp:33-40`
  lists it among the tables the map is in sync with), so the IPv4 packets of a
  UDP socket bound to `::` stay unknown (`TablesRead` in `NothingMissed` and
  `CreditedInTheEnd`);
- an entry of the process index is never checked again either: if an inode that
  is in the map is used again, the old process answers (`FoundInTheEnd` speaks of
  an inode that is not in the map);
- a client that connects and closes without a request ends the daemon, because
  the first word of the empty request is accessed (`APIController.cpp:93-96`), and
  the requests in the backlog are lost with it (`fd = "lost"` in `RequestServed`);
- counters from 2^31 on are stored truncated (`HistoryGrows`), and ports are
  narrowed to 16 bits (`uint16` in `ArgumentsFirst`);
- a crash between the emptying and the writing of the configuration file loses
  its settings, and an edit at that time may be overwritten (`lost` in
  `SettingsSurvive`);
- threads run on while `main` destroys what they refer to (`main.pc =
  "teardown"` in `ThreadsHaveParts`);
- a signal while the handlers are being installed may hang the process
  (`TermEnds` speaks of a signal that was handled);
- SIGINT and SIGTERM only clear a flag that is tested when `pcap_dispatch`
  returns (`Sniffer.cpp:62-65`), and without packets it may never return
  (`[](main.pc = "dispatch")` in `TermEnds`).

Deadlock is checked in every run. None occurs: the deposit thread, the
environment, a crash, a start or (for the LRU array) a clear always has a step,
so what must happen is stated as liveness instead.

## Fairness

- The deposit thread (`WF(Deposit)`): it sleeps for a fixed time and then blocks
  only on `mMutex`, which all other threads hold for a moment.
- The server thread (`WF` of accept, `SF` of its handlers) and a stream's
  `awaitSnapshot` (`SF`): they run whenever they can; `SF` where they need
  `mMutex`, which the deposit thread takes once per interval, so a thread
  loses it for ever only if it never runs during a whole sleep.
- A payload is only sure to be sent when the client is gone (`WF` with
  `peer # "open"`): a client that does not read blocks the send. Clients have
  no fairness at all, so `RequestServed` has to except a silent one, and nothing
  keeps the process from ending, which it has to except too.
- SQLite calls return (`WF`): no busy handler is installed.
- The process index: a search goes on, the clearing thread gets the lock
  between two lookups, and lookups for a socket in use keep coming (`SF`).
- The resolver: the sniffer's thread goes on (`WF`); a search reaches the process
  that has the socket if it stays there, which is what `process` checks of the
  index; the clearing threads get their locks between two lookups (`SF`); packets
  of an open socket keep coming (`SF`). Without packets nobody is credited.
- `startup`: the main thread goes on (`WF(MainGoesOn)`) wherever it is but in
  `pcap_dispatch`. That call has no fairness: its time-out of 100 ms bounds how long
  packets are buffered, but on a device without packets libpcap need not return,
  and nobody calls `pcap_breakloop`. Nobody is obliged to start ntmd or to send
  signals.

## Proofs

Every invariant, every action property and every refinement of the passing runs
is a theorem: `Spec => []P` or `Spec => P`, for all values of the constants that
satisfy the assumptions named below and for behaviours of any length. TLC
evaluates the assumptions on each run. The theorems say nothing about fairness.

`OperatorLemmas` has the lemmas about operators that several proofs cite: a set of
numbers has a least element; `update` and `erase` of the LRU array keep order
and uniqueness, and what they return (`EraseShape`, `UpdateShape`); a sum over a
finite set does not depend on the order of its elements, grows with the set
and changes at one point by one amount (`SumAny`, `SumMonotone`, `SumPoint`).
The induction theorems of the library cannot be used with the installed
provers, so what is inductive in data (sums, the loop of `initList`, positions in a
sequence) is proved by least counterexample: the least size for which a statement
fails is not 0, and the size before it gives the contradiction.

`TrafficStorageProofs`, for all names, lengths, callers and bounds, from the
assumptions that unstorable names are names, that lengths are naturals and that
`Nil` is not a caller:

- `TypeCorrect`: `Spec => []TypeOK`. One lemma per group of actions. `TypeOK`
  contains that a live reference names a line of the map; without it
  `AddUpdate` could write outside the map's domain, so it is needed for induction.
- `HookCorrect`: `Spec => [](NoDanglingHook /\ NoLostWakeup)`. Neither half is
  inductive alone: that the hooked frame exists rests on there being no
  other caller in a locked frame, and the other way round. Together
  with `TypeOK` they are. `NobodyForgotten` is the second half by itself.
- `NothingDisappears`: `Spec => []Conservation`, relative to `TypeOK`. The
  definition of `InBuffer`, empty from the moment the batch is handed over until
  the map is cleared, is what makes the balance hold at every step. The lemmas
  `BumpMap`, `BumpAccount`, `LookupBuffer` and `PartSplit` say what one step
  does to the sums.
- `StreamBehind`: `Spec => []StreamedIsDeposited`. It needs the strengthening
  `HandedOver`: between insert and notify, all that the map holds has been
  handed over already, since `add` cannot get the lock in between and its
  lookup only adds an empty line.
- `ImplementsLedger`: `Spec => KeepsLedger`. `AddUpdate` is an arrival in the buffer
  or, through a freed line, a loss; `DepositInsert` empties the buffer into
  file and loss; a crash loses the buffer; all other steps leave the ledger
  alone.

`APIControllerProofs`, for all connections (finitely many, `CallersAssumption`):

- `APIUsesStorage`: the composition implements the storage's specification, so
  that the theorems above hold in it and are cited from here on.
- `APITypeCorrect`, `DescriptorsOwned` (`OpenWhileUsed`), `SlotNeverStale`
  (`RefusedOnlyByOther`) and `SnapshotExact` (`SnapshotIsPending`). The inductive
  invariant `APIInv` adds `FramePart`: the place of a stream's thread tells what
  frame it has in the storage. Without it a thread could be refused because of
  a frame left behind by its own connection. `SnapshotExact` also rests on
  `Conservation`.
- `NothingStreamedTwice` (`StreamedOnce`). A sum over all streams, and not inductive:
  serving the hook raises it without a deposit. `OncePart` counts the batch that
  is inserted and not yet offered along with what the streams have; `EmptyPart`
  says that a frame that waits has no bytes yet, so that the batch is given to
  one stream only.

`DBControllerProofs`, for all names, amounts, tables and clocks, from
`DBAssumption` (amounts are naturals, `Half` is positive, unstorable names are
names, and the clock stays below `Half`: until 2038 a timestamp fits an int):

- `BindIntExact`: a counter is stored as it is if it is below 2^31.
- `KeyKept`: one row per table and timestamp, committed or not.
- `BatchesWhole`: the file changes only by whole batches. This needs `TxnPart`:
  outside of a transaction nothing is uncommitted, and during a deposit the
  uncommitted rows are those of this deposit. It is true although a failed
  COMMIT leaves the transaction open, because the next BEGIN then fails.
- `DatabaseType`, `FetchExact` (`FetchConsistent`), `HistoryNeverShrinks`
  (`HistoryGrows`), from `FullInv`: there are finitely many rows, so that they
  have a sum; a table whose counters fit has no negative row (`RowsPart`); and
  for every table a fetch has read, the sum is over all rows from before the
  fetch and some added since (`FetchPart`).

`ProcessIndexProofs` and `LRUArrayUseProofs`, for all finite sets of pids and items
and all sizes (`PIAssumption`, `LRUAssumption`):

- `IndexType`: types, and a cache without duplicates and within its size.
- `SearchFindsSteady` (`SearchComplete`). The invariant is `SteadyPart`, which says
  where a process that has had the socket since the lookup began can still be:
  among the cached pids that are not read yet, or outside of the cache and so
  in the listing that follows; then in what is left of the listing. It needs
  that such a process is never among the expired pids.
- `ImplementsLookup` (`KeepsPromise`): the index implements `ProcessLookup`, which
  is what the resolver's proofs assume of it.
- `ArrayBounded` (`LRUTypeOK`) and `LeastRecentLeaves` (`Recency`): the array is
  sorted by last use, and an item that was dropped has at least as many items
  used after it as the array has places.

`ProcessResolverProofs`, for all sockets, frames, inodes, processes and
addresses, from `SIAssumption` (inodes and pids are positive, an inode has one
process) and `WireAssumption` (TCP over IPv4 uses no port 0, no broadcast address and
none of the addresses 0.0.0.0 and 0.0.0.1 that `::` and `::1` are read as; a socket
is in tcp, tcp6, udp, udp6 or raw and has a local port, a raw one no remote port):

- `HashSound` and `HashComplete`: a kept packet has the hash of every socket it
  belongs to in a table that is read, and of others only in the cases of
  `PortClash`. `HashSound` is where `WireAssumption` is needed: an IPv6 address is
  read as all ones or as its last word, and a UDP hash is a TCP hash with zeros.
- `MapCorrect` (`SITypeOK`) and `NoBystander` (`RightOrUnknown`). The first is an
  invariant of the map, the second of the moment a call is done, and neither is
  inductive: the answer is right because the inode was taken from the map for
  this packet's hash and an inode never changes its socket, and because what
  the process index knows of an inode is its process. `RInv` says this: `MapPart`
  for the map, `KnownPart` for the process index, and `CallPart` for the call,
  from the lookup to its answer.
- `LookupComplete` (`NothingMissed`). A socket of the packet that stays open during
  `get` is in a table still to be read, or its hash is in the map, or it is in
  udp6 (`SteadyPart`); with `HashComplete` a call cannot end without it, except
  in that last case.
- `DirectionKnown` (`DirectionRight`), for any list of interfaces with at most 64
  addresses of the device (`InterfacesAssumption`: the room `IPList` has). `ListOf`
  says that the list has exactly the addresses of the device's entries, as the
  code reads them.

`DaemonProofs`, for any files, command lines and devices, any number of starts,
and signals, edits and kills at any moment, from `DaemonAssumption` (ports are
integers or not numbers at all, and any text is good for a name or a path) and
`JunkAssumption` (a text of the wrong type is none of the values):

- `DaemonType`, `FileSurvives` (`SettingsSurvive`), `LastArgumentWins`
  (`ArgumentsFirst`), `PartsOutliveThreads` (`ThreadsHaveParts`), `OnlyTermStops`
  (`StaysUp`), all from `DInv`. `FilePart`, `MainPart`: files and main thread are what
  they may be. `OptsPart`: the options hold the last value among the arguments
  read so far, which is why the command line is read in steps. `CfgPart`: the
  settings are those of the file that was read, from the merge on with the
  options. `SurvivePart`: what is about to be written is what the administrator
  left, completed; this needs that ntmd reads back what it has written
  (`PortTwice`: narrowing a port again changes nothing). `StopPart`: the flag falls
  only after SIGINT or SIGTERM. `BuiltPart`: which parts exist at each place of
  `main`.
- `OptsPart` could not be proved of an earlier version of `ParseArg`, which had no
  step for an unknown option. The code reports it and ends; the model does so
  now, and one of the command lines of `startup` goes through it.

Only model-checked, because fairness and ENABLED are out of the prover's reach,
are the liveness properties: `HookAnswered`, `Drains`, `HangupEndsStream`,
`RequestServed`, `DepositReturns`, `FoundInTheEnd`, `CreditedInTheEnd`, `TermEnds`.

## Not modelled

- Of the API: a failing `listen` or `accept`, which is tried again, the text of
  requests and replies and the payload of a history reply; a request that fills
  the buffer, whose terminator is written one byte behind it; the server thread's
  captured references to a dead stack frame. What the last two do depends on the
  compiler's stack layout.
- Of the database: a full disk and I/O errors. SQLite cancels the transaction for
  them, while the loop goes on and each further line is committed by itself
  (`DBController.cpp:104-109`), so `WholeBatches` does not speak of them.
- Of the indexes: tables that cannot be opened and malformed lines, which are
  skipped; `comm` and the text of `/proc`, with the inode that does not fit an int.
- Of packets: lengths, timestamps and packet counters, which go with the byte
  counters; a device with more than the 64 addresses that `IPList` has room for,
  which `InterfacesAssumption` excludes; the settings of pcap.
- The helpers for formatting and tokenising are pure text functions. What a
  caller depends on is modelled in the caller. An interval of 0, which makes a
  loop of `HumanReadable` endless, is listed as a hazard.

## Plan

1. (done) `TrafficLedger`, `TrafficStorage`, `APIController`, `DBController`,
   `LRUArray`, `ProcessIndex`, and the proofs of the storage.
2. (done) `Packet`, `SocketIndex`, `ProcessLookup`, `ProcessResolver` and their
   proofs; a failing `read` in the API; `Config` and `Daemon`; the proofs of the
   database.
3. (done) The proofs of the remaining invariants, action properties and
   refinements: the ledger, the API and its use of the storage, sums of rows, the
   process index and its promise, the LRU array, the direction of packets, the
   life of the process.
4. The storage composed with `DBController`, so that the lines a batch loses
   are those the database model drops, including truncated counters and
   batches left in an open transaction; the payload of a history reply.
