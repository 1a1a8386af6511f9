--------------------------- MODULE APIController ---------------------------
(***************************************************************************)
(* The socket API of ntmd (api/APIController.cpp) on top of the traffic    *)
(* storage.  One server thread accepts a connection, reads its request and *)
(* answers it, or starts a detached thread for a live stream.              *)
(*                                                                         *)
(* A connection is one of Callers, used once.  The client may be silent,   *)
(* may hang up at any moment and may stop listening to a stream.  Requests *)
(* are well formed or answered with an error message; their text and the   *)
(* text of the replies are left out.                                       *)
(***************************************************************************)
EXTENDS TrafficStorage, Functions

ASSUME CallersAssumption == IsFiniteSet(Callers)

VARIABLES
    peer,       \* the client's end of the connection
    req,        \* the client's request until it is dealt with, or "none"
    fd,         \* the daemon's descriptor for the connection
    serving,    \* the connection the server thread is busy with, or Nil
    pc,         \* where the stream thread of the connection is
    last,       \* the request in the server thread's buffer, or "none"
    streamed,   \* history: bytes sent in the payloads of a live stream
    exitCause   \* history: why the process last ended

conns   == <<peer, req, fd, serving, pc, last, streamed, exitCause>>
allVars == <<vars, conns>>

Streams  == {"live", "live-text"}
Requests == {"live", "live-text", "snapshot", "history", "bad"}
Running  == {"welcome", "await", "lock", "send"}

APIInit ==
    /\ Init
    /\ peer = [c \in Callers |-> "none"]
    /\ req = [c \in Callers |-> "none"]
    /\ fd = [c \in Callers |-> "none"]
    /\ serving = Nil
    /\ pc = [c \in Callers |-> "idle"]
    /\ last = "none"
    /\ streamed = [c \in Callers |-> Zero]
    /\ exitCause = "none"

-----------------------------------------------------------------------------
(* The client and the kernel. *)

Connect(c) ==
    /\ peer[c] = "none"
    /\ peer' = [peer EXCEPT ![c] = "open"]
    /\ fd' = [fd EXCEPT ![c] = "backlog"]
    /\ UNCHANGED <<vars, req, serving, pc, last, streamed, exitCause>>

SendRequest(c, q) ==
    /\ peer[c] = "open"
    /\ req[c] = "none"
    /\ fd[c] \notin {"closed", "lost"}
    /\ req' = [req EXCEPT ![c] = q]
    /\ UNCHANGED <<vars, peer, fd, serving, pc, last, streamed, exitCause>>

(* The client closes its end in order, or abortively. *)
Hangup(c) ==
    /\ peer[c] = "open"
    /\ fd[c] \notin {"closed", "lost"}
    /\ \E how \in {"closed", "aborted"} : peer' = [peer EXCEPT ![c] = how]
    /\ UNCHANGED <<vars, req, fd, serving, pc, last, streamed, exitCause>>

(* send succeeds on an open connection, and once more after the client has   *)
(* closed: only that send makes the client's kernel reset the connection.    *)
SendOk(c) == peer[c] \in {"open", "closed"}

(* The error of an abort is reported once, by the first call that fails; a     *)
(* send with flags 0 on a connection that is reset after that raises SIGPIPE,  *)
(* for which ntmd has no handler.                                              *)
Sigpipe(c) == peer[c] = "reset"

PeerAfterSend(c) == [peer EXCEPT ![c] = IF @ = "open" THEN @ ELSE "reset"]

-----------------------------------------------------------------------------
(* The process ends and is started again; its open connections are lost. *)

Die(why) ==
    /\ Crash
    /\ fd' = [c \in Callers |-> IF fd[c] \in {"none", "closed"} THEN fd[c] ELSE "lost"]
    /\ pc' = [c \in Callers |-> IF pc[c] = "idle" THEN "idle" ELSE "done"]
    /\ serving' = Nil
    /\ exitCause' = why
    /\ req' = [c \in Callers |-> "none"]
    /\ last' = "none"
    /\ UNCHANGED streamed

(* Killed or shut down from outside; once is enough (bound). *)
Killed == exitCause = "none" /\ Die("killed") /\ UNCHANGED peer

-----------------------------------------------------------------------------
(* The server thread. *)

Accept(c) ==
    /\ serving = Nil
    /\ fd[c] = "backlog"
    /\ serving' = c
    /\ fd' = [fd EXCEPT ![c] = "open"]
    /\ UNCHANGED <<vars, peer, req, pc, last, streamed, exitCause>>

(* read returns 0: the client hung up without a request.  The request has no *)
(* first word, and the access to it ends the process.                        *)
ReadNothing(c) ==
    /\ serving = c
    /\ req[c] = "none"
    /\ peer[c] = "closed"
    /\ Die("no request")
    /\ UNCHANGED peer

(* read fails with the error of an abort.  The buffer still has the previous   *)
(* request, which is taken for this client's; if there is none, see above.     *)
ReadFails(c) ==
    /\ serving = c
    /\ req[c] = "none"
    /\ peer[c] = "aborted"
    /\ peer' = [peer EXCEPT ![c] = "reset"]
    /\ IF last = "none"
       THEN Die("no request")
       ELSE /\ req' = [req EXCEPT ![c] = last]
            /\ UNCHANGED <<vars, fd, serving, pc, last, streamed, exitCause>>

NotClosed(c) == fd    \* mutant: the handler forgets to close the socket
Forget(c)    == [fd EXCEPT ![c] = "none"]    \* mutant: it drops the descriptor
Closed(c)    == [fd EXCEPT ![c] = "closed"]

(* A one-shot handler sends its reply, closes the socket and returns. *)
Reply(c) ==
    /\ serving = c
    /\ peer' = PeerAfterSend(c)
    /\ fd' = Closed(c)
    /\ serving' = Nil
    /\ req' = [req EXCEPT ![c] = "none"]
    /\ last' = req[c]
    /\ UNCHANGED <<vars, pc, streamed, exitCause>>

(* The reply holds getLiveSnapshot, for which the handler needs the lock. *)
snapshot(c) == req[c] = "snapshot" /\ MutexFree /\ Reply(c)

(* trafficDaily, trafficSince, trafficBetween: see DBController for the data. *)
trafficHistory(c) == req[c] = "history" /\ Reply(c)

(* An unknown command, a missing or an unreadable parameter.  These messages   *)
(* are sent without MSG_NOSIGNAL.                                              *)
ErrorReply(c) ==
    /\ req[c] = "bad"
    /\ IF Sigpipe(c)
       THEN serving = c /\ Die("SIGPIPE") /\ UNCHANGED peer
       ELSE Reply(c)

(* Mutant: the socket is closed when the stream's thread is started. *)
StartStreamClosed(c) ==
    /\ serving = c
    /\ req[c] \in Streams
    /\ pc' = [pc EXCEPT ![c] = IF req[c] = "live-text" THEN "welcome" ELSE "await"]
    /\ serving' = Nil
    /\ last' = req[c]
    /\ fd' = Closed(c)
    /\ UNCHANGED <<vars, peer, req, streamed, exitCause>>

(* live and liveText: the server thread goes on, the stream has its own. *)
StartStream(c) ==
    /\ serving = c
    /\ req[c] \in Streams
    /\ pc' = [pc EXCEPT ![c] = IF req[c] = "live-text" THEN "welcome" ELSE "await"]
    /\ serving' = Nil
    /\ last' = req[c]
    /\ UNCHANGED <<vars, peer, req, fd, streamed, exitCause>>

-----------------------------------------------------------------------------
(* The thread of a live stream. *)

(* liveText greets its client; if that fails it returns. *)
Welcome(c) ==
    /\ pc[c] = "welcome"
    /\ peer' = PeerAfterSend(c)
    /\ pc' = [pc EXCEPT ![c] = IF SendOk(c) THEN "await" ELSE "done"]
    /\ UNCHANGED <<vars, req, fd, serving, last, streamed, exitCause>>

Await(c) ==
    /\ pc[c] = "await"
    /\ AwaitSnapshot(c)
    /\ pc' = [pc EXCEPT ![c] = "lock"]
    /\ UNCHANGED <<peer, req, fd, serving, last, streamed, exitCause>>

(* Another stream is hooked in: the client is told and the stream ends.  live *)
(* sends its message without MSG_NOSIGNAL.                                    *)
Refuse(c) ==
    /\ pc[c] = "await"
    /\ AwaitRefused(c)
    /\ peer' = PeerAfterSend(c)
    /\ IF req[c] = "live" /\ Sigpipe(c)
       THEN Die("SIGPIPE")
       ELSE /\ pc' = [pc EXCEPT ![c] = "done"]
            /\ fd' = Closed(c)
            /\ UNCHANGED <<vars, req, serving, last, streamed, exitCause>>

(* Mutant: the stream does not wait for its mutex. *)
LockNoWait(c) ==
    /\ pc[c] = "lock"
    /\ await' = [await EXCEPT ![c] = "relocked"]
    /\ pc' = [pc EXCEPT ![c] = "send"]
    /\ UNCHANGED <<mAPIWaiting, api, trafficMap, buffer, stored, history>>
    /\ UNCHANGED <<peer, req, fd, serving, last, streamed, exitCause>>

Lock(c) ==
    /\ pc[c] = "lock"
    /\ Relock(c)
    /\ pc' = [pc EXCEPT ![c] = "send"]
    /\ UNCHANGED <<peer, req, fd, serving, last, streamed, exitCause>>

PayloadLive(c) == mApplicationTraffic    \* mutant: the shared map is sent
Payload(c)     == trafficMap[c]

Unchecked(c)  == TRUE    \* mutant: the result of send is ignored
Delivered(c)  == SendOk(c)

(* The payload is sent and the loop body's frame dies.  If send fails the     *)
(* stream ends.                                                               *)
SendPayload(c) ==
    /\ pc[c] = "send"
    /\ DropFrame(c)
    /\ peer' = PeerAfterSend(c)
    /\ streamed' = [streamed EXCEPT ![c] =
                      IF SendOk(c) THEN Plus(@, Part(Payload(c), Names)) ELSE @]
    /\ pc' = [pc EXCEPT ![c] = IF Delivered(c) THEN "await" ELSE "done"]
    /\ fd' = IF Delivered(c) THEN fd ELSE Closed(c)
    /\ UNCHANGED <<req, serving, last, exitCause>>

-----------------------------------------------------------------------------
Client(c) == Connect(c) \/ Hangup(c) \/ \E q \in Requests : SendRequest(c, q)

Server(c) == Accept(c) \/ ReadNothing(c) \/ ReadFails(c) \/ snapshot(c) \/ trafficHistory(c)
               \/ ErrorReply(c) \/ StartStream(c)

Stream(c) == Welcome(c) \/ Await(c) \/ Refuse(c) \/ Lock(c) \/ SendPayload(c)

APINext ==
    \/ (Add \/ Deposit) /\ UNCHANGED conns
    \/ Killed
    \/ \E c \in Callers : Client(c) \/ Server(c) \/ Stream(c)

APISpec == APIInit /\ [][APINext]_allVars

(* Threads that can take a step do.  A send may block while its client is     *)
(* there and does not read, so the payload of a stream is only sure to be     *)
(* sent when the client has hung up.  A stream can starve for mMutex only if  *)
(* it loses every race for it in the sleep between two deposits.              *)
APIFairSpec ==
    /\ APISpec
    /\ WF_allVars(Deposit /\ UNCHANGED conns)
    /\ WF_allVars(\E c \in Callers : Accept(c))
    /\ \A c \in Callers :
         /\ SF_allVars(Server(c) /\ ~Accept(c))
         /\ SF_allVars(Await(c) \/ Refuse(c))
         /\ WF_allVars(Welcome(c) \/ Lock(c))
         /\ WF_allVars(SendPayload(c) /\ peer[c] # "open")

-----------------------------------------------------------------------------
(* The variables of the API have their types; every connection, and nothing   *)
(* else, has a descriptor.                                                    *)
APITypeOK ==
    /\ peer \in [Callers -> {"none", "open", "closed", "aborted", "reset"}]
    /\ req \in [Callers -> Requests \cup {"none"}]
    /\ fd \in [Callers -> {"none", "backlog", "open", "closed", "lost"}]
    /\ \A c \in Callers : fd[c] = "none" <=> peer[c] = "none"
    /\ serving \in Callers \cup {Nil}
    /\ pc \in [Callers -> Running \cup {"idle", "done"}]
    /\ last \in Requests \cup {"none"}
    /\ \A c \in Callers : streamed[c] \in Accounts
    /\ exitCause \in {"none", "killed", "no request", "SIGPIPE"}

(* The API uses the storage only through its operations: the composition      *)
(* implements the specification of the storage, so what is proved of the      *)
(* storage holds here too.                                                    *)
UsesStorage == Spec

(* A descriptor in use is open, and only the thread it was given to uses it.  *)
(* In particular no handler touches a descriptor it has closed.               *)
OpenWhileUsed ==
    \A c \in Callers : (pc[c] \in Running \/ serving = c) =>
        fd[c] = "open" /\ ~(pc[c] \in Running /\ serving = c)

(* The bytes of a counter that each stream has sent or is about to send. *)
Shares(n, d) == [c \in Callers |-> streamed[c][n][d] + At(trafficMap[c], n)[d]]

(* A deposited byte is in the payload of at most one stream, and only once;   *)
(* a byte that is not yet deposited is in none (APIController.cpp:243-276).   *)
StreamedOnce ==
    \A n \in Names, d \in Dir : SumFunction(Shares(n, d)) <= stored[n][d] + refused[n][d]

(* A snapshot shows the traffic that was counted and is not deposited yet: it *)
(* never overlaps with the history, and unless an add races with it the two   *)
(* make up all that was counted and not lost (TrafficStorage.cpp:42-43).      *)
Pending(n, d) == sniffed[n][d]
                   - (stored[n][d] + refused[n][d] + stray[n][d] + wiped[n][d])

SnapshotIsPending ==
    [][\A c \in Callers : snapshot(c) =>
         \A m \in getLiveSnapshot, n \in Names, d \in Dir :
            /\ At(m, n)[d] <= Pending(n, d)
            /\ line = {} => At(m, n)[d] = Pending(n, d)]_allVars

(* A stream is refused only if another one is waiting for the next deposit:    *)
(* the only live slot is never taken by a stream that is gone.  (A second      *)
(* client that takes the slot between two payloads ends a running stream.)     *)
(* APIController.cpp:247-256, 295-304.                                         *)
RefusedOnlyByOther ==
    [][\A c \in Callers : Refuse(c) => \E d \in Callers \ {c} : pc[d] = "lock"]_allVars

(* The stream of a client that hung up ends, and with it the claim to the     *)
(* only live slot (APIController.cpp:272-276, 315-319).                       *)
HangupEndsStream ==
    \A c \in Callers :
        (peer[c] \notin {"none", "open"} /\ pc[c] \in Running) ~> pc[c] = "done"

(* A request is answered by a handler, which closes the descriptor, or handed   *)
(* to a stream, unless the server thread is stuck with a client that stays      *)
(* silent (APIController.cpp:90) or the process ends before that: it is killed, *)
(* gets SIGPIPE, or another client hangs up without a request, whose missing    *)
(* first word is accessed (APIController.cpp:93-96).                            *)
Served(c) == fd[c] = "closed" \/ pc[c] # "idle"

Stalled == serving # Nil /\ req[serving] = "none" /\ peer[serving] = "open"

RequestServed ==
    \A c \in Callers :
        (fd[c] = "backlog" /\ req[c] # "none") ~> (Served(c) \/ Stalled \/ fd[c] = "lost")

(* APIController.cpp:98-99: "API Handlers are responsible for closing the     *)
(* socket belonging to the requester."                                        *)
NoLeak == \A c \in Callers : pc[c] = "done" => fd[c] \in {"closed", "lost"}

(* APIController.cpp:315: "If remote peer closes connection, break."  No send  *)
(* to such a peer ends the daemon instead.                                     *)
SendCannotEndDaemon == exitCause # "SIGPIPE"

=============================================================================
