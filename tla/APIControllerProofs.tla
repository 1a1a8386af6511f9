------------------------ MODULE APIControllerProofs ------------------------
(***************************************************************************)
(* Proofs about the socket API on top of the traffic storage, for any      *)
(* number of connections.                                                  *)
(***************************************************************************)
EXTENDS APIController, TrafficStorageProofs, OperatorLemmas

-----------------------------------------------------------------------------
(* The API uses the storage through its operations only. *)

LEMMA StepUsesStorage == [APINext]_allVars => [Next]_vars
<1> SUFFICES ASSUME [APINext]_allVars PROVE [Next]_vars
    OBVIOUS
<1>1. CASE (Add \/ Deposit) /\ UNCHANGED conns
    BY <1>1 DEF Next
<1>2. CASE Killed
    BY <1>2 DEF Killed, Die, Next
<1>3. ASSUME NEW c \in Callers, Client(c) PROVE UNCHANGED vars
    BY <1>3 DEF Client, Connect, Hangup, SendRequest
<1>4. ASSUME NEW c \in Callers, Server(c) PROVE Crash \/ UNCHANGED vars
    BY <1>4 DEF Server, Accept, ReadNothing, ReadFails, snapshot, trafficHistory, ErrorReply,
                StartStream, Reply, Die
<1>5. ASSUME NEW c \in Callers, Stream(c)
      PROVE  Crash \/ AwaitSnapshot(c) \/ Relock(c) \/ DropFrame(c) \/ UNCHANGED vars
    BY <1>5 DEF Stream, Welcome, Await, Refuse, Lock, SendPayload, Die
<1>6. CASE UNCHANGED allVars
    BY <1>6 DEF allVars
<1> QED BY <1>1, <1>2, <1>3, <1>4, <1>5, <1>6 DEF APINext, Next

(* For any connections: whatever clients, server thread and stream threads do, *)
(* the storage sees only calls it allows, so all that is proved of the storage *)
(* holds in the composition.  APIController.cpp:35-342.                        *)
THEOREM APIUsesStorage == APISpec => UsesStorage
<1>1. APIInit => Init
    BY DEF APIInit
<1> QED BY <1>1, StepUsesStorage, PTL DEF APISpec, UsesStorage, Spec

(* The facts about the storage that the proofs below need. *)
StorageFacts == TypeOK /\ NoDanglingHook /\ Conservation

LEMMA AlwaysStorage == APISpec => []StorageFacts
<1>1. Spec => [](NoDanglingHook /\ NoLostWakeup)
    BY HookCorrect
<1> QED BY <1>1, APIUsesStorage, TypeCorrect, NothingDisappears, PTL
        DEF UsesStorage, StorageFacts

-----------------------------------------------------------------------------
(* The inductive invariant: the types, who uses a descriptor, and that a       *)
(* stream thread's program counter tells what frame it has in the storage.     *)

FrameOf(p) ==
    CASE p = "lock" -> {"locked", "signalled"}
      [] p = "send" -> {"relocked"}
      [] OTHER      -> {"none"}

FramePart == \A c \in Callers : await[c] \in FrameOf(pc[c])

APIInv == APITypeOK /\ DOMAIN streamed = Callers /\ OpenWhileUsed /\ FramePart

LEMMA InitAPIInv == APIInit => APIInv
BY NilAssumption, EmptyType
   DEF APIInit, Init, APIInv, APITypeOK, OpenWhileUsed, FramePart, FrameOf, Running

(* The end of the process closes all connections and ends all threads. *)
LEMMA DieKeeps ==
    ASSUME TypeOK, APIInv, NEW why \in {"killed", "no request", "SIGPIPE"}, Die(why),
           peer' \in [Callers -> {"none", "open", "closed", "aborted", "reset"}],
           \A c \in Callers : peer'[c] = "none" <=> peer[c] = "none"
    PROVE  APIInv'
<1>1. /\ fd' = [c \in Callers |-> IF fd[c] \in {"none", "closed"} THEN fd[c] ELSE "lost"]
      /\ pc' = [c \in Callers |-> IF pc[c] = "idle" THEN "idle" ELSE "done"]
      /\ serving' = Nil /\ exitCause' = why /\ req' = [c \in Callers |-> "none"]
      /\ last' = "none" /\ streamed' = streamed /\ await' = [c \in Callers |-> "none"]
    BY DEF Die, Crash
<1>2. APITypeOK' /\ DOMAIN streamed' = Callers
    BY <1>1 DEF APIInv, APITypeOK
<1>3. OpenWhileUsed' /\ FramePart'
    BY <1>1, NilAssumption DEF OpenWhileUsed, FramePart, FrameOf, Running
<1> QED BY <1>2, <1>3 DEF APIInv

LEMMA ClientKeeps == ASSUME APIInv, NEW c \in Callers, Client(c) PROVE APIInv'
<1> USE DEF APIInv, APITypeOK, OpenWhileUsed, FramePart, vars, hook
<1>1. CASE Connect(c)
    BY <1>1 DEF Connect
<1>2. CASE Hangup(c)
    <2>1. /\ peer' \in [Callers -> {"none", "open", "closed", "aborted", "reset"}]
          /\ \A d \in Callers : peer'[d] = "none" <=> peer[d] = "none"
        <3>1. PICK how \in {"closed", "aborted"} : peer' = [peer EXCEPT ![c] = how]
            BY <1>2 DEF Hangup
        <3>2. peer[c] = "open"
            BY <1>2 DEF Hangup
        <3> QED BY <3>1, <3>2
    <2>2. UNCHANGED <<vars, req, fd, serving, pc, last, streamed, exitCause>>
        BY <1>2 DEF Hangup
    <2> QED BY <2>1, <2>2
<1>3. ASSUME NEW q \in Requests, SendRequest(c, q) PROVE APIInv'
    BY <1>3 DEF SendRequest
<1> QED BY <1>1, <1>2, <1>3 DEF Client

(* A connection whose descriptor is open has a peer, which a send only resets. *)
LEMMA PeerType ==
    ASSUME APIInv, NEW c \in Callers, fd[c] = "open"
    PROVE  /\ PeerAfterSend(c) \in [Callers -> {"none", "open", "closed", "aborted", "reset"}]
           /\ \A d \in Callers : PeerAfterSend(c)[d] = "none" <=> peer[d] = "none"
BY DEF PeerAfterSend, APIInv, APITypeOK

LEMMA ReplyKeeps == ASSUME APIInv, NEW c \in Callers, Reply(c) PROVE APIInv'
<1>1. fd[c] = "open" /\ pc[c] \notin Running
    BY DEF Reply, APIInv, OpenWhileUsed
<1>2. /\ fd' = [fd EXCEPT ![c] = "closed"] /\ serving' = Nil /\ peer' = PeerAfterSend(c)
      /\ req' = [req EXCEPT ![c] = "none"] /\ last' = req[c]
      /\ UNCHANGED <<vars, pc, streamed, exitCause>>
    BY DEF Reply, Closed
<1>3. APITypeOK' /\ DOMAIN streamed' = Callers
    BY <1>1, <1>2, PeerType DEF APIInv, APITypeOK
<1>4. OpenWhileUsed' /\ FramePart'
    BY <1>1, <1>2, NilAssumption DEF APIInv, APITypeOK, OpenWhileUsed, FramePart, vars, hook
<1> QED BY <1>3, <1>4 DEF APIInv

LEMMA ServerKeeps == ASSUME TypeOK, APIInv, NEW c \in Callers, Server(c) PROVE APIInv'
<1>1. CASE Accept(c)
    BY <1>1, NilAssumption DEF Accept, APIInv, APITypeOK, OpenWhileUsed, FramePart, vars, hook
<1>2. CASE ReadNothing(c)
    BY <1>2, DieKeeps DEF ReadNothing, APIInv, APITypeOK
<1>3. CASE ReadFails(c)
    <2>1. /\ peer' \in [Callers -> {"none", "open", "closed", "aborted", "reset"}]
          /\ \A d \in Callers : peer'[d] = "none" <=> peer[d] = "none"
        BY <1>3 DEF ReadFails, APIInv, APITypeOK
    <2>2. CASE last = "none"
        BY <1>3, <2>1, <2>2, DieKeeps DEF ReadFails
    <2>3. CASE last # "none"
        <3>1. req' = [req EXCEPT ![c] = last]
              /\ UNCHANGED <<vars, fd, serving, pc, last, streamed, exitCause>>
            BY <1>3, <2>3 DEF ReadFails
        <3> QED BY <2>1, <3>1 DEF APIInv, APITypeOK, OpenWhileUsed, FramePart, vars, hook
    <2> QED BY <2>2, <2>3
<1>4. CASE snapshot(c) \/ trafficHistory(c)
    BY <1>4, ReplyKeeps DEF snapshot, trafficHistory
<1>5. CASE ErrorReply(c)
    BY <1>5, ReplyKeeps, DieKeeps DEF ErrorReply, APIInv, APITypeOK
<1>6. CASE StartStream(c)
    <2>1. fd[c] = "open" /\ pc[c] \notin Running /\ await[c] = "none"
        BY <1>6 DEF StartStream, APIInv, OpenWhileUsed, FramePart, FrameOf, Running
    <2>2. /\ serving' = Nil /\ last' = req[c]
          /\ pc' = [pc EXCEPT ![c] = IF req[c] = "live-text" THEN "welcome" ELSE "await"]
          /\ UNCHANGED <<vars, peer, req, fd, streamed, exitCause>>
        BY <1>6 DEF StartStream
    <2>3. APITypeOK' /\ DOMAIN streamed' = Callers
        BY <2>2 DEF APIInv, APITypeOK, Running
    <2>4. OpenWhileUsed'
        <3>1. \A d \in Callers \ {c} : pc'[d] = pc[d]
            BY <2>2 DEF APIInv, APITypeOK
        <3>2. \A d \in Callers : serving' # d /\ fd'[d] = fd[d]
            BY <2>2, NilAssumption
        <3> QED BY <2>1, <3>1, <3>2 DEF APIInv, OpenWhileUsed
    <2>5. FramePart'
        BY <2>1, <2>2 DEF APIInv, APITypeOK, FramePart, FrameOf, vars, hook
    <2> QED BY <2>3, <2>4, <2>5 DEF APIInv
<1> QED BY <1>1, <1>2, <1>3, <1>4, <1>5, <1>6 DEF Server

LEMMA StreamKeeps == ASSUME TypeOK, APIInv, NEW c \in Callers, Stream(c) PROVE APIInv'
<1>0. pc[c] \in Running
    BY DEF Stream, Welcome, Await, Refuse, Lock, SendPayload, Running
<1>1. fd[c] = "open" /\ serving # c
    BY <1>0 DEF APIInv, OpenWhileUsed
<1>2. await \in [Callers -> {"none", "locked", "signalled", "relocked"}]
    BY DEF TypeOK
<1>3. CASE Welcome(c)
    <2>1. pc[c] = "welcome" /\ peer' = PeerAfterSend(c)
          /\ pc' = [pc EXCEPT ![c] = IF SendOk(c) THEN "await" ELSE "done"]
          /\ UNCHANGED <<vars, req, fd, serving, last, streamed, exitCause>>
        BY <1>3 DEF Welcome
    <2>2. APITypeOK' /\ DOMAIN streamed' = Callers
        BY <1>1, <2>1, PeerType DEF APIInv, APITypeOK, Running
    <2>3. OpenWhileUsed'
        BY <1>1, <2>1 DEF APIInv, APITypeOK, OpenWhileUsed
    <2>4. FramePart'
        BY <2>1 DEF APIInv, APITypeOK, FramePart, FrameOf, vars, hook
    <2> QED BY <2>2, <2>3, <2>4 DEF APIInv
<1>4. CASE Await(c)
    <2>1. /\ await' = [await EXCEPT ![c] = "locked"] /\ pc' = [pc EXCEPT ![c] = "lock"]
          /\ UNCHANGED <<peer, req, fd, serving, last, streamed, exitCause>>
        BY <1>4 DEF Await, AwaitSnapshot
    <2>2. APITypeOK' /\ DOMAIN streamed' = Callers
        BY <2>1 DEF APIInv, APITypeOK, Running
    <2>3. OpenWhileUsed'
        BY <1>1, <2>1 DEF APIInv, APITypeOK, OpenWhileUsed
    <2>4. FramePart'
        BY <1>2, <2>1 DEF APIInv, APITypeOK, FramePart, FrameOf
    <2> QED BY <2>2, <2>3, <2>4 DEF APIInv
<1>5. CASE Refuse(c)
    <2>1. CASE req[c] = "live" /\ Sigpipe(c)
        BY <1>1, <1>5, <2>1, PeerType, DieKeeps DEF Refuse
    <2>2. CASE ~(req[c] = "live" /\ Sigpipe(c))
        <3>1. /\ peer' = PeerAfterSend(c) /\ pc[c] = "await"
              /\ pc' = [pc EXCEPT ![c] = "done"] /\ fd' = [fd EXCEPT ![c] = "closed"]
              /\ UNCHANGED <<vars, req, serving, last, streamed, exitCause>>
            BY <1>5, <2>2 DEF Refuse, Closed
        <3>2. APITypeOK' /\ DOMAIN streamed' = Callers
            BY <1>1, <3>1, PeerType DEF APIInv, APITypeOK
        <3>3. OpenWhileUsed'
            BY <1>1, <3>1 DEF APIInv, APITypeOK, OpenWhileUsed, Running
        <3>4. FramePart'
            BY <3>1 DEF APIInv, APITypeOK, FramePart, FrameOf, vars, hook
        <3> QED BY <3>2, <3>3, <3>4 DEF APIInv
    <2> QED BY <2>1, <2>2
<1>6. CASE Lock(c)
    <2>1. /\ await' = [await EXCEPT ![c] = "relocked"] /\ pc' = [pc EXCEPT ![c] = "send"]
          /\ UNCHANGED <<peer, req, fd, serving, last, streamed, exitCause>>
        BY <1>6 DEF Lock, Relock
    <2>2. APITypeOK' /\ DOMAIN streamed' = Callers
        BY <2>1 DEF APIInv, APITypeOK, Running
    <2>3. OpenWhileUsed'
        BY <1>1, <2>1 DEF APIInv, APITypeOK, OpenWhileUsed
    <2>4. FramePart'
        BY <1>2, <2>1 DEF APIInv, APITypeOK, FramePart, FrameOf
    <2> QED BY <2>2, <2>3, <2>4 DEF APIInv
<1>7. CASE SendPayload(c)
    <2> DEFINE s == IF SendOk(c) THEN Plus(streamed[c], Part(trafficMap[c], Names))
                    ELSE streamed[c]
    <2>1. /\ peer' = PeerAfterSend(c) /\ await' = [await EXCEPT ![c] = "none"]
          /\ streamed' = [streamed EXCEPT ![c] = s]
          /\ pc' = [pc EXCEPT ![c] = IF SendOk(c) THEN "await" ELSE "done"]
          /\ fd' = IF SendOk(c) THEN fd ELSE [fd EXCEPT ![c] = "closed"]
          /\ UNCHANGED <<req, serving, last, exitCause>>
        BY <1>7 DEF SendPayload, DropFrame, Delivered, Closed, Payload
    <2>2. s \in Accounts
        BY PartType, PlusType DEF TypeOK, APIInv, APITypeOK
    <2> HIDE DEF s
    <2>3. DOMAIN streamed' = Callers /\ \A d \in Callers : streamed'[d] \in Accounts
        BY <2>1, <2>2 DEF APIInv, APITypeOK
    <2>4. APITypeOK'
        BY <1>1, <2>1, <2>3, PeerType DEF APIInv, APITypeOK, Running
    <2>5. OpenWhileUsed'
        BY <1>1, <2>1 DEF APIInv, APITypeOK, OpenWhileUsed, Running
    <2>6. FramePart'
        BY <1>2, <2>1 DEF APIInv, APITypeOK, FramePart, FrameOf
    <2> QED BY <2>3, <2>4, <2>5, <2>6 DEF APIInv
<1> QED BY <1>3, <1>4, <1>5, <1>6, <1>7 DEF Stream

(* The storage's own threads change a frame only from locked to signalled. *)
LEMMA StorageKeeps ==
    ASSUME StorageFacts, APIInv, Add \/ Deposit, UNCHANGED conns
    PROVE  APIInv'
<1>1. APITypeOK' /\ DOMAIN streamed' = Callers /\ OpenWhileUsed'
    BY DEF conns, APIInv, APITypeOK, OpenWhileUsed
<1>2. await' = await \/ (mAPIWaiting /\ await' = [await EXCEPT ![api] = "signalled"])
    BY DEF Add, AddLookup, AddUpdate, Deposit, DepositWake, DepositInsert, DepositNotify,
           DepositClear, Unlock, hook
<1>3. FramePart'
    <2>1. CASE await' = await
        BY <2>1 DEF APIInv, FramePart, conns
    <2>2. CASE mAPIWaiting /\ await' = [await EXCEPT ![api] = "signalled"]
        <3>1. api \in Callers /\ await[api] = "locked" /\ DOMAIN await = Callers
            BY <2>2 DEF StorageFacts, NoDanglingHook, TypeOK
        <3>2. FrameOf(pc[api]) = {"locked", "signalled"}
            BY <3>1 DEF APIInv, FramePart, FrameOf
        <3> QED BY <2>2, <3>1, <3>2 DEF APIInv, FramePart, conns
    <2> QED BY <1>2, <2>1, <2>2
<1> QED BY <1>1, <1>3 DEF APIInv

LEMMA AlwaysAPIInv == APISpec => []APIInv
<1>1. ASSUME StorageFacts, APIInv, [APINext]_allVars PROVE APIInv'
    <2>1. CASE (Add \/ Deposit) /\ UNCHANGED conns
        BY <1>1, <2>1, StorageKeeps
    <2>2. CASE Killed
        BY <1>1, <2>2, DieKeeps DEF Killed, StorageFacts, APIInv, APITypeOK
    <2>3. ASSUME NEW c \in Callers, Client(c) \/ Server(c) \/ Stream(c) PROVE APIInv'
        BY <1>1, <2>3, ClientKeeps, ServerKeeps, StreamKeeps DEF StorageFacts
    <2>4. CASE UNCHANGED allVars
        BY <1>1, <2>4
           DEF allVars, vars, hook, conns, APIInv, APITypeOK, OpenWhileUsed, FramePart
    <2> QED BY <1>1, <2>1, <2>2, <2>3, <2>4 DEF APINext
<1> QED BY <1>1, InitAPIInv, AlwaysStorage, PTL DEF APISpec

-----------------------------------------------------------------------------
(* For any connections: the variables of the API have their types, and every   *)
(* connection has a descriptor.  APIController.cpp:35-227.                     *)
THEOREM APITypeCorrect == APISpec => []APITypeOK
<1>1. APIInv => APITypeOK
    BY DEF APIInv
<1> QED BY <1>1, AlwaysAPIInv, PTL

(* For any connections: no thread uses a descriptor that is closed, and no two *)
(* threads use the same one.  APIController.cpp:69-227, 229-342.               *)
THEOREM DescriptorsOwned == APISpec => []OpenWhileUsed
<1>1. APIInv => OpenWhileUsed
    BY DEF APIInv
<1> QED BY <1>1, AlwaysAPIInv, PTL

(* For any connections: a stream that is refused has another one waiting for   *)
(* the next deposit, so the live slot is never held by a stream that is gone.  *)
(* APIController.cpp:247-256, 295-304.                                         *)
THEOREM SlotNeverStale == APISpec => RefusedOnlyByOther
<1>1. ASSUME StorageFacts, APIInv, NEW c \in Callers, Refuse(c)
      PROVE  \E d \in Callers \ {c} : pc[d] = "lock"
    <2>1. api \in Callers /\ await[api] = "locked" /\ pc[c] = "await"
        BY <1>1 DEF Refuse, AwaitRefused, CanHook, StorageFacts, NoDanglingHook
    <2>2. pc[api] = "lock"
        BY <1>1, <2>1 DEF APIInv, FramePart, FrameOf
    <2> QED BY <2>1, <2>2
<1>2. StorageFacts /\ APIInv => [\A c \in Callers : Refuse(c) =>
                                   \E d \in Callers \ {c} : pc[d] = "lock"]_allVars
    BY <1>1
<1> QED BY <1>2, AlwaysStorage, AlwaysAPIInv, PTL DEF RefusedOnlyByOther

(* For any connections, names and lengths: the bytes a snapshot shows are      *)
(* among those counted and neither deposited nor lost, and are all of them     *)
(* unless an add is under way.  APIController.cpp:326-342,                     *)
(* TrafficStorage.cpp:40-44.                                                   *)
THEOREM SnapshotExact == APISpec => SnapshotIsPending
<1>1. ASSUME StorageFacts, NEW c \in Callers, snapshot(c), NEW m \in getLiveSnapshot,
             NEW n \in Names, NEW d \in Dir
      PROVE  /\ At(m, n)[d] <= Pending(n, d)
             /\ line = {} => At(m, n)[d] = Pending(n, d)
    <2>1. /\ TypeOK /\ TrafficMap(mApplicationTraffic) /\ TrafficMap(m)
          /\ At(m, n)[d] <= At(mApplicationTraffic, n)[d]
        BY <1>1, WalksType DEF StorageFacts, TypeOK, getLiveSnapshot
    <2>2. InBuffer[n][d] = At(mApplicationTraffic, n)[d]
        BY <1>1 DEF snapshot, MutexFree, InBuffer, Part
    <2>3. /\ At(m, n)[d] \in Nat /\ At(mApplicationTraffic, n)[d] \in Nat
        BY <2>1, AtType DEF Line
    <2>4. /\ stored[n][d] \in Nat /\ refused[n][d] \in Nat /\ stray[n][d] \in Nat
          /\ wiped[n][d] \in Nat
        <3>1. stored \in Accounts /\ refused \in Accounts /\ stray \in Accounts /\ wiped \in Accounts
            BY <2>1 DEF TypeOK
        <3> QED BY ONLY <3>1, n \in Names, d \in Dir DEF Accounts, Line
    <2>5. sniffed[n][d] = At(mApplicationTraffic, n)[d] + stored[n][d] + refused[n][d]
                            + stray[n][d] + wiped[n][d]
        BY <1>1, <2>2 DEF StorageFacts, Conservation
    <2>6. Pending(n, d) = At(mApplicationTraffic, n)[d]
        BY ONLY <2>3, <2>4, <2>5 DEF Pending
    <2>7. line = {} => m = mApplicationTraffic
        BY <1>1 DEF getLiveSnapshot, Walks
    <2> QED BY <2>1, <2>6, <2>7
<1>2. StorageFacts =>
        [\A c \in Callers : snapshot(c) =>
           \A m \in getLiveSnapshot, n \in Names, d \in Dir :
              /\ At(m, n)[d] <= Pending(n, d)
              /\ line = {} => At(m, n)[d] = Pending(n, d)]_allVars
    BY <1>1
<1> QED BY <1>2, AlwaysStorage, PTL DEF SnapshotIsPending

-----------------------------------------------------------------------------
(* No byte is streamed twice.  The inductive invariant: between the insertion  *)
(* of a batch and the notification the bytes of the batch are still free to be *)
(* streamed, so the shares of the streams and the batch together are within    *)
(* what was deposited.  A frame that waits has no bytes yet.                   *)

Offered(n, d) == IF depositPC = "notify" THEN At(mApplicationTraffic, n)[d] ELSE 0

Deposited(n, d) == stored[n][d] + refused[n][d]

OncePart == \A n \in Names, d \in Dir :
               SumOf(Shares(n, d), Callers) + Offered(n, d) <= Deposited(n, d)

EmptyPart == \A c \in Callers : await[c] \in {"none", "locked"} => trafficMap[c] = EmptyMap

OnceInv == OncePart /\ EmptyPart

LEMMA EmptyAt == \A n : \A d \in Dir : At(EmptyMap, n)[d] = 0
BY DEF At, EmptyMap, ZeroLine

(* All the quantities are numbers. *)
Counted ==
    \A n \in Names, d \in Dir :
       /\ \A c \in Callers : Shares(n, d)[c] \in Nat
       /\ SumOf(Shares(n, d), Callers) \in Int
       /\ Offered(n, d) \in Nat /\ Deposited(n, d) \in Nat

LEMMA AlwaysCounted == APISpec => []Counted
<1>1. ASSUME TypeOK, APITypeOK, NEW n \in Names, NEW d \in Dir
      PROVE  /\ \A c \in Callers : Shares(n, d)[c] \in Nat
             /\ SumOf(Shares(n, d), Callers) \in Int
             /\ Offered(n, d) \in Nat /\ Deposited(n, d) \in Nat
    <2> DEFINE f == Shares(n, d)
    <2>1. ASSUME NEW c \in Callers PROVE f[c] \in Nat
        <3>1. streamed[c] \in Accounts
            BY <1>1 DEF APITypeOK
        <3>2. streamed[c][n][d] \in Nat
            BY ONLY <3>1, n \in Names, d \in Dir DEF Accounts, Line
        <3>3. At(trafficMap[c], n)[d] \in Nat
            BY <1>1, AtType DEF TypeOK, Line
        <3> QED BY <3>2, <3>3 DEF Shares
    <2>2. At(mApplicationTraffic, n)[d] \in Nat
        BY <1>1, AtType DEF TypeOK, Line
    <2>3. stored[n][d] \in Nat /\ refused[n][d] \in Nat
        BY <1>1 DEF TypeOK, Accounts, Line
    <2>4. Offered(n, d) \in Nat /\ Deposited(n, d) \in Nat
        BY <2>2, <2>3 DEF Offered, Deposited
    <2> HIDE DEF f
    <2>5. SumOf(f, Callers) \in Int
        BY <2>1, CallersAssumption, SumType
    <2> QED BY <2>1, <2>4, <2>5 DEF f
<1>2. TypeOK /\ APITypeOK => Counted
    BY <1>1 DEF Counted
<1> QED BY <1>2, AlwaysStorage, APITypeCorrect, PTL DEF StorageFacts

(* A step that gives no stream more bytes, offers no more than it deposits. *)
LEMMA SharesShrink ==
    ASSUME Counted, Counted', OncePart,
           \A n \in Names, d \in Dir :
             /\ \A c \in Callers : Shares(n, d)'[c] <= Shares(n, d)[c]
             /\ Offered(n, d)' - Offered(n, d) <= Deposited(n, d)' - Deposited(n, d)
    PROVE  OncePart'
<1> SUFFICES ASSUME NEW n \in Names, NEW d \in Dir
             PROVE  SumOf(Shares(n, d)', Callers) + Offered(n, d)' <= Deposited(n, d)'
    BY DEF OncePart
<1> DEFINE f == Shares(n, d)
           g == Shares(n, d)'
<1>1. \A c \in Callers : g[c] \in Int /\ f[c] \in Int /\ g[c] <= f[c]
    BY DEF Counted
<1>2. /\ SumOf(f, Callers) \in Int /\ SumOf(g, Callers) \in Int
      /\ Offered(n, d) \in Int /\ Deposited(n, d) \in Int
      /\ Offered(n, d)' \in Int /\ Deposited(n, d)' \in Int
    BY DEF Counted
<1>3. SumOf(f, Callers) + Offered(n, d) <= Deposited(n, d)
    BY DEF OncePart
<1>4. Offered(n, d)' - Offered(n, d) <= Deposited(n, d)' - Deposited(n, d)
    OBVIOUS
<1> HIDE DEF f, g
<1>5. SumOf(g, Callers) <= SumOf(f, Callers)
    BY <1>1, CallersAssumption, SumMonotone
<1>6. SumOf(g, Callers) + Offered(n, d)' <= Deposited(n, d)'
    BY ONLY <1>2, <1>3, <1>4, <1>5
<1> QED BY <1>6 DEF g

(* The notification moves the offered bytes, or a part of them, to one stream  *)
(* whose frame was empty.                                                      *)
LEMMA NotifyOnce ==
    ASSUME StorageFacts, APIInv, Counted, Counted', OnceInv, DepositNotify, UNCHANGED conns
    PROVE  OncePart'
<1>0. TypeOK /\ depositPC = "notify" /\ depositPC' = "clear"
      /\ UNCHANGED <<streamed, stored, refused>>
    BY DEF StorageFacts, DepositNotify, conns, history
<1>1. ASSUME NEW n \in Names, NEW d \in Dir
      PROVE  /\ Offered(n, d) = At(mApplicationTraffic, n)[d] /\ Offered(n, d)' = 0
             /\ Deposited(n, d)' = Deposited(n, d)
    BY <1>0 DEF Offered, Deposited
<1>2. CASE trafficMap' = trafficMap
    <2>1. ASSUME NEW n \in Names, NEW d \in Dir PROVE Shares(n, d)' = Shares(n, d)
        BY <1>0, <1>2 DEF Shares
    <2> QED BY <1>1, <2>1, SharesShrink DEF OnceInv, Counted
<1>3. CASE /\ mAPIWaiting
           /\ \E m \in Walks(mApplicationTraffic) : trafficMap' = [trafficMap EXCEPT ![api] = m]
    <2>1. api \in Callers /\ trafficMap[api] = EmptyMap /\ DOMAIN trafficMap = Callers
        BY <1>3 DEF StorageFacts, NoDanglingHook, OnceInv, EmptyPart, TypeOK
    <2>2. PICK m \in Walks(mApplicationTraffic) : trafficMap' = [trafficMap EXCEPT ![api] = m]
        BY <1>3
    <2>3. ASSUME NEW n \in Names, NEW d \in Dir
          PROVE  SumOf(Shares(n, d)', Callers) + Offered(n, d)' <= Deposited(n, d)'
        <3> DEFINE f == Shares(n, d)
                   g == Shares(n, d)'
                   b == At(m, n)[d]
        <3>1. /\ b <= At(mApplicationTraffic, n)[d] /\ b \in Int
            BY <1>0, <2>2, WalksType, AtType DEF TypeOK, Line
        <3>2. \A c \in Callers \ {api} : f[c] = g[c]
            BY <1>0, <2>1, <2>2 DEF Shares
        <3>3. g[api] = f[api] + b
            <4>1. f[api] = streamed[api][n][d] + 0
                BY <2>1, EmptyAt DEF Shares
            <4>2. g[api] = streamed[api][n][d] + b
                BY <1>0, <2>1, <2>2 DEF Shares
            <4>3. streamed[api][n][d] \in Int
                <5>1. streamed[api] \in Accounts
                    BY <2>1 DEF APIInv, APITypeOK
                <5> QED BY ONLY <5>1, n \in Names, d \in Dir DEF Accounts, Line
            <4> HIDE DEF f, g, b
            <4> QED BY ONLY <3>1, <4>1, <4>2, <4>3
        <3>4. \A c \in Callers : f[c] \in Int /\ g[c] \in Int
            BY DEF Counted
        <3>5. /\ SumOf(f, Callers) \in Int /\ SumOf(g, Callers) \in Int
              /\ Offered(n, d) \in Int /\ Deposited(n, d) \in Int
            BY DEF Counted
        <3>6. SumOf(f, Callers) + Offered(n, d) <= Deposited(n, d)
            BY DEF OnceInv, OncePart
        <3>7. Offered(n, d) = At(mApplicationTraffic, n)[d] /\ Offered(n, d)' = 0
              /\ Deposited(n, d)' = Deposited(n, d)
            BY <1>1
        <3> HIDE DEF f, g, b
        <3>8. SumOf(g, Callers) = SumOf(f, Callers) + (g[api] - f[api])
            BY <2>1, <3>2, <3>4, CallersAssumption, SumPoint
        <3>9. f[api] \in Int
            BY <2>1, <3>4
        <3>10. SumOf(g, Callers) + Offered(n, d)' <= Deposited(n, d)'
            BY ONLY <3>1, <3>3, <3>5, <3>6, <3>7, <3>8, <3>9
        <3> QED BY <3>10 DEF g
    <2> QED BY <2>3 DEF OncePart
<1> QED BY <1>2, <1>3 DEF DepositNotify

(* The other steps of the storage's threads leave the streams' shares alone. *)
LEMMA StorageOnce ==
    ASSUME StorageFacts, APIInv, Counted, Counted', OnceInv, Add \/ Deposit, UNCHANGED conns
    PROVE  OnceInv'
<1>0. TypeOK /\ streamed' = streamed
    BY DEF StorageFacts, conns
<1>1. CASE DepositNotify
    <2>1. OncePart'
        BY <1>1, NotifyOnce
    <2>2. EmptyPart'
        <3>1. CASE UNCHANGED <<trafficMap, await>>
            BY <3>1 DEF OnceInv, EmptyPart
        <3>2. CASE /\ mAPIWaiting /\ await' = [await EXCEPT ![api] = "signalled"]
                   /\ \E m \in Walks(mApplicationTraffic) :
                         trafficMap' = [trafficMap EXCEPT ![api] = m]
            <4>1. /\ \A c \in Callers \ {api} : await'[c] = await[c] /\ trafficMap'[c] = trafficMap[c]
                  /\ api \in Callers => await'[api] = "signalled"
                BY <1>0, <3>2 DEF TypeOK
            <4> QED BY <4>1 DEF OnceInv, EmptyPart
        <3> QED BY <1>1, <3>1, <3>2 DEF DepositNotify, Unlock
    <2> QED BY <2>1, <2>2 DEF OnceInv
<1>2. CASE Add \/ DepositWake \/ DepositClear \/ \E S \in SUBSET Names : DepositInsert(S)
    <2>1. UNCHANGED <<await, trafficMap>>
        BY <1>2 DEF Add, AddLookup, AddUpdate, DepositWake, DepositClear, DepositInsert, hook
    <2>2. \A n \in Names, d \in Dir : Shares(n, d)' = Shares(n, d)
        BY <1>0, <2>1 DEF Shares
    <2>3. EmptyPart'
        BY <2>1 DEF OnceInv, EmptyPart
    <2>4. ASSUME NEW n \in Names, NEW d \in Dir
          PROVE  Offered(n, d)' - Offered(n, d) <= Deposited(n, d)' - Deposited(n, d)
        <3>0. /\ Offered(n, d) \in Nat /\ Offered(n, d)' \in Nat
              /\ Deposited(n, d) \in Nat /\ Deposited(n, d)' \in Nat
            BY DEF Counted
        <3>1. CASE Add
            <4>1. UNCHANGED <<stored, refused, depositPC>>
                BY <3>1 DEF Add, AddLookup, AddUpdate, history
            <4>2. CASE depositPC # "notify"
                BY <3>0, <4>1, <4>2 DEF Offered, Deposited
            <4>3. CASE depositPC = "notify"
                <5>1. PICK x \in Names, e \in Dir, k \in Lens : AddLookup(x, e, k)
                    BY <3>1, <4>3 DEF Add, AddUpdate, MutexFree
                <5>2. At(mApplicationTraffic', n) = At(mApplicationTraffic, n)
                    BY <5>1 DEF AddLookup, Lookup, At
                <5> QED BY <3>0, <4>1, <5>2 DEF Offered, Deposited
            <4> QED BY <4>2, <4>3
        <3>2. CASE DepositWake \/ DepositClear
            BY <3>0, <3>2 DEF DepositWake, DepositClear, Offered, Deposited, history
        <3>3. ASSUME NEW S \in SUBSET Names, DepositInsert(S)
              PROVE  Offered(n, d)' - Offered(n, d) <= Deposited(n, d)' - Deposited(n, d)
            <4> DEFINE m == mApplicationTraffic
                       p == Part(m, S)
                       q == Part(m, Names \ S)
            <4>1. /\ stored' = Plus(stored, p) /\ refused' = Plus(refused, q)
                  /\ depositPC = "insert" /\ depositPC' = "notify" /\ m' = m
                BY <3>3 DEF DepositInsert
            <4>2. p \in Accounts /\ q \in Accounts /\ stored \in Accounts /\ refused \in Accounts
                BY <1>0, PartType DEF TypeOK
            <4>3. /\ stored'[n][d] = stored[n][d] + p[n][d]
                  /\ refused'[n][d] = refused[n][d] + q[n][d]
                BY <4>1, <4>2, PlusType
            <4>4. p[n][d] + q[n][d] = At(m, n)[d]
                <5>1. At(m, n)[d] \in Nat
                    BY <1>0, AtType DEF TypeOK, Line
                <5> QED BY <5>1 DEF Part, ZeroLine
            <4>5. /\ p[n][d] \in Nat /\ q[n][d] \in Nat /\ stored[n][d] \in Nat
                  /\ refused[n][d] \in Nat
                BY ONLY <4>2, n \in Names, d \in Dir DEF Accounts, Line
            <4>6. Offered(n, d)' = At(m, n)[d] /\ Offered(n, d) = 0
                BY <4>1 DEF Offered
            <4> HIDE DEF p, q, m
            <4> QED BY <4>3, <4>4, <4>5, <4>6 DEF Deposited
        <3> QED BY <1>2, <3>1, <3>2, <3>3
    <2>5. OncePart'
        BY <2>2, <2>4, SharesShrink DEF OnceInv, Counted
    <2> QED BY <2>3, <2>5 DEF OnceInv
<1> QED BY <1>1, <1>2 DEF Deposit

(* The end of the process takes the unsent bytes from all streams. *)
LEMMA DieOnce ==
    ASSUME StorageFacts, APIInv, Counted, Counted', OnceInv, NEW why, Die(why)
    PROVE  OnceInv'
<1>1. /\ trafficMap' = [c \in Callers |-> EmptyMap] /\ depositPC' = "sleep"
      /\ UNCHANGED <<stored, refused, streamed>>
    BY DEF Die, Crash
<1>2. EmptyPart'
    BY <1>1 DEF EmptyPart
<1>3. ASSUME NEW n \in Names, NEW d \in Dir
      PROVE  /\ \A c \in Callers : Shares(n, d)'[c] <= Shares(n, d)[c]
             /\ Offered(n, d)' - Offered(n, d) <= Deposited(n, d)' - Deposited(n, d)
    <2>1. ASSUME NEW c \in Callers PROVE Shares(n, d)'[c] <= Shares(n, d)[c]
        <3>1. Shares(n, d)'[c] = streamed[c][n][d] + 0
            BY <1>1, EmptyAt DEF Shares
        <3>2. Shares(n, d)[c] = streamed[c][n][d] + At(trafficMap[c], n)[d]
            BY DEF Shares
        <3>3. streamed[c] \in Accounts /\ At(trafficMap[c], n) \in Line
            BY AtType DEF APIInv, APITypeOK, StorageFacts, TypeOK
        <3>4. streamed[c][n][d] \in Nat /\ At(trafficMap[c], n)[d] \in Nat
            BY ONLY <3>3, n \in Names, d \in Dir DEF Accounts, Line
        <3> QED BY <3>1, <3>2, <3>4
    <2>2. Offered(n, d)' = 0 /\ Deposited(n, d)' = Deposited(n, d)
        BY <1>1 DEF Offered, Deposited
    <2> QED BY <2>1, <2>2 DEF Counted
<1>4. OncePart'
    BY <1>3, SharesShrink DEF OnceInv
<1> QED BY <1>2, <1>4 DEF OnceInv

(* A payload is sent: its bytes are still the same stream's, or dropped. *)
LEMMA SendOnce ==
    ASSUME StorageFacts, APIInv, Counted, Counted', OnceInv, NEW c \in Callers, SendPayload(c)
    PROVE  OnceInv'
<1> DEFINE s == IF SendOk(c) THEN Plus(streamed[c], Part(trafficMap[c], Names)) ELSE streamed[c]
<1>0. /\ TypeOK /\ DOMAIN trafficMap = Callers /\ DOMAIN streamed = Callers
      /\ \A x \in Callers : streamed[x] \in Accounts
    BY DEF StorageFacts, TypeOK, APIInv, APITypeOK
<1>1. /\ trafficMap' = [trafficMap EXCEPT ![c] = EmptyMap]
      /\ await' = [await EXCEPT ![c] = "none"]
      /\ streamed' = [streamed EXCEPT ![c] = s]
      /\ UNCHANGED <<mApplicationTraffic, depositPC, stored, refused>>
    BY DEF SendPayload, DropFrame, Payload, buffer, history
<1>2. EmptyPart'
    BY <1>0, <1>1 DEF EmptyPart, OnceInv, TypeOK
<1>3. ASSUME NEW n \in Names, NEW d \in Dir
      PROVE  /\ \A x \in Callers : Shares(n, d)'[x] <= Shares(n, d)[x]
             /\ Offered(n, d)' - Offered(n, d) <= Deposited(n, d)' - Deposited(n, d)
    <2>1. Shares(n, d)'[c] <= Shares(n, d)[c]
        <3>1. Shares(n, d)'[c] = s[n][d] + 0
            BY <1>0, <1>1, EmptyAt DEF Shares
        <3>2. Shares(n, d)[c] = streamed[c][n][d] + At(trafficMap[c], n)[d]
            BY DEF Shares
        <3>3. /\ streamed[c] \in Accounts /\ At(trafficMap[c], n) \in Line
              /\ Part(trafficMap[c], Names) \in Accounts
            BY <1>0, AtType, PartType DEF TypeOK
        <3>4. streamed[c][n][d] \in Nat /\ At(trafficMap[c], n)[d] \in Nat
            BY ONLY <3>3, n \in Names, d \in Dir DEF Accounts, Line
        <3>5. Plus(streamed[c], Part(trafficMap[c], Names))[n][d]
                = streamed[c][n][d] + At(trafficMap[c], n)[d]
            <4>1. Part(trafficMap[c], Names)[n] = At(trafficMap[c], n)
                BY DEF Part
            <4> QED BY <3>3, <4>1, PlusType
        <3> QED BY <3>1, <3>2, <3>4, <3>5
    <2>2. \A x \in Callers \ {c} : Shares(n, d)'[x] = Shares(n, d)[x]
        BY <1>0, <1>1 DEF Shares
    <2>3. Offered(n, d)' = Offered(n, d) /\ Deposited(n, d)' = Deposited(n, d)
        BY <1>1 DEF Offered, Deposited
    <2> QED BY <2>1, <2>2, <2>3 DEF Counted
<1>4. OncePart'
    BY <1>3, SharesShrink DEF OnceInv
<1> QED BY <1>2, <1>4 DEF OnceInv

(* Every other step of the API touches no traffic at all. *)
LEMMA QuietOnce ==
    ASSUME TypeOK, OnceInv,
           UNCHANGED <<trafficMap, streamed, mApplicationTraffic, depositPC, stored, refused>>,
           \A c \in Callers : await'[c] \in {"none", "locked"} => await[c] \in {"none", "locked"}
    PROVE  OnceInv'
<1>1. OncePart'
    BY DEF OnceInv, OncePart, Shares, Offered, Deposited
<1> QED BY <1>1 DEF OnceInv, EmptyPart

LEMMA AlwaysOnce == APISpec => []OnceInv
<1>1. APIInit => OnceInv
    <2> SUFFICES ASSUME APIInit PROVE OnceInv
        OBVIOUS
    <2>1. ASSUME NEW n \in Names, NEW d \in Dir
          PROVE  SumOf(Shares(n, d), Callers) + Offered(n, d) <= Deposited(n, d)
        <3> DEFINE f == Shares(n, d)
                   g == [c \in Callers |-> 0]
        <3>1. f = g
            BY EmptyAt DEF APIInit, Init, Shares, Zero, ZeroLine
        <3>2. Offered(n, d) = 0 /\ Deposited(n, d) = 0
            BY DEF APIInit, Init, Offered, Deposited, Zero, ZeroLine
        <3>3. SumOf(g, Callers) = 0
            BY CallersAssumption, SumZero
        <3> QED BY <3>1, <3>2, <3>3
    <2>2. EmptyPart
        BY DEF APIInit, Init, EmptyPart
    <2> QED BY <2>1, <2>2 DEF OnceInv, OncePart
<1>2. ASSUME StorageFacts, APIInv, Counted, Counted', OnceInv, [APINext]_allVars PROVE OnceInv'
    <2>0. TypeOK
        BY <1>2 DEF StorageFacts
    <2>1. CASE (Add \/ Deposit) /\ UNCHANGED conns
        BY <1>2, <2>1, StorageOnce
    <2>2. CASE \E why : Die(why)
        BY <1>2, <2>2, DieOnce
    <2>3. ASSUME NEW c \in Callers, SendPayload(c) PROVE OnceInv'
        BY <1>2, <2>3, SendOnce
    <2>4. CASE UNCHANGED <<vars, streamed>>
        BY <1>2, <2>0, <2>4, QuietOnce DEF vars, buffer, hook, history
    <2>5. ASSUME NEW c \in Callers, Await(c) \/ Lock(c) PROVE OnceInv'
        <3>1. UNCHANGED <<trafficMap, streamed, mApplicationTraffic, depositPC, stored, refused>>
            BY <2>5 DEF Await, AwaitSnapshot, Lock, Relock, buffer, history
        <3>2. \A x \in Callers : await'[x] \in {"none", "locked"} => await[x] \in {"none", "locked"}
            BY <2>0, <2>5 DEF Await, AwaitSnapshot, Lock, Relock, TypeOK
        <3> QED BY <1>2, <2>0, <3>1, <3>2, QuietOnce
    <2>6. ASSUME NEW c \in Callers, Client(c) \/ Server(c)
          PROVE  (\E why : Die(why)) \/ UNCHANGED <<vars, streamed>>
        BY <2>6 DEF Client, Connect, Hangup, SendRequest, Server, Accept, ReadNothing, ReadFails,
                    snapshot, trafficHistory, ErrorReply, StartStream, Reply
    <2>7. ASSUME NEW c \in Callers, Stream(c)
          PROVE  \/ (\E why : Die(why)) \/ UNCHANGED <<vars, streamed>>
                 \/ Await(c) \/ Lock(c) \/ SendPayload(c)
        BY <2>7 DEF Stream, Welcome, Refuse
    <2>8. CASE UNCHANGED allVars
        BY <2>4, <2>8 DEF allVars, conns
    <2>9. CASE Killed
        BY <2>2, <2>9 DEF Killed
    <2> QED BY <1>2, <2>1, <2>2, <2>3, <2>4, <2>5, <2>6, <2>7, <2>8, <2>9 DEF APINext
<1> QED BY <1>1, <1>2, AlwaysStorage, AlwaysAPIInv, AlwaysCounted, PTL DEF APISpec

(* For any finite number of connections: however streams start, are refused,   *)
(* fail and end, a deposited byte is in at most one payload of one stream, and *)
(* no other byte is in any.  APIController.cpp:243-276, 291-319,               *)
(* TrafficStorage.cpp:80-98.                                                   *)
THEOREM NothingStreamedTwice == APISpec => []StreamedOnce
<1>1. ASSUME Counted, OnceInv PROVE StreamedOnce
    <2> SUFFICES ASSUME NEW n \in Names, NEW d \in Dir
                 PROVE  SumFunction(Shares(n, d)) <= stored[n][d] + refused[n][d]
        BY DEF StreamedOnce
    <2>1. SumFunction(Shares(n, d)) = SumOf(Shares(n, d), Callers)
        <3> DEFINE f == Shares(n, d)
        <3>1. DOMAIN f = Callers
            BY DEF Shares
        <3> HIDE DEF f
        <3>2. SumFunction(f) = SumOf(f, Callers)
            BY <3>1, SumFunctionIs
        <3> QED BY <3>2 DEF f
    <2>2. /\ SumOf(Shares(n, d), Callers) \in Int /\ Offered(n, d) \in Nat /\ Deposited(n, d) \in Nat
          /\ SumOf(Shares(n, d), Callers) + Offered(n, d) <= Deposited(n, d)
        BY <1>1 DEF Counted, OnceInv, OncePart
    <2>3. SumOf(Shares(n, d), Callers) <= Deposited(n, d)
        BY ONLY <2>2
    <2> QED BY <2>1, <2>3 DEF Deposited
<1> QED BY <1>1, AlwaysCounted, AlwaysOnce, PTL

=============================================================================
