---------------------------- MODULE SocketIndex ----------------------------
(***************************************************************************)
(* The index from packets to socket inodes (proc/SocketIndex.cpp).  A      *)
(* packet that is not in the map makes the index read the socket tables of *)
(* the kernel again, one after the other, while sockets are opened and     *)
(* closed.  Entries are never removed; a packet without a socket is put on *)
(* a list that a thread clears every 60 seconds.                           *)
(*                                                                         *)
(* The kernel gives every inode to one socket only (a bound: its counter   *)
(* has 32 bits; ProcessIndex is checked with inodes that come back).       *)
(***************************************************************************)
EXTENDS Packet, FiniteSets

CONSTANTS
    Sockets,    \* the sockets that may be opened, see Packet
    Inodes,     \* positive numbers
    Pids,
    ProcessOf,  \* inode -> the process that opens it
    Frames      \* the frames that may be captured, see Packet

ASSUME SIAssumption ==
    /\ Inodes \subseteq Nat \ {0}
    /\ Pids \subseteq Nat \ {0}
    /\ ProcessOf \in [Inodes -> Pids]

(* TCP over IPv4 uses no port 0, no broadcast address and none of the          *)
(* addresses 0.0.0.0 and 0.0.0.1 that :: and ::1 are read as; a socket in a     *)
(* table has a local port, and a raw one no remote port.                       *)
ASSUME WireAssumption ==
    /\ \A f \in Frames : f.protocol = "tcp" =>
         /\ f.sport # 0 /\ f.dport # 0 /\ f.sip # AllOnes /\ f.dip # AllOnes
         /\ \A s \in Sockets : \A a \in {s.local, s.remote} :
              a.kind = "low6" => a.ip \notin {f.sip, f.dip}
    /\ \A s \in Sockets :
         /\ s.table \in {"tcp", "tcp6", "udp", "udp6", "raw"}
         /\ s.table = "raw" => s.rport = 0
         /\ {s.local.kind, s.remote.kind} \subseteq {"v4", "mapped", "low6", "v6"}
         /\ s.lport # 0

(* The tables that are read at all: udp6 is not, although SocketIndex.hpp:33-40 *)
(* lists it among those the map is kept in sync with.                           *)
TablesRead == {"tcp", "tcp6", "udp", "raw"}

VARIABLES
    born,           \* inode -> its socket, for all sockets so far
    open,           \* inodes of the sockets that are open
    mIPList,        \* the addresses of the device, see Packet
    mSocketMap,     \* packet hash -> inode, partial
    mCouldNotFind,  \* packet hashes that had no socket
    call            \* the call of the constructor or of get

siState == <<born, open, mIPList, mSocketMap, mCouldNotFind>>

(* A call: the packet, the tables still to be read, the inode get returns, the *)
(* process resolve returns (0: the unknown process), and (history) the sockets *)
(* of the packet that have been open throughout.                               *)
Idle == [pc |-> "idle", pkt |-> {}, todo |-> <<>>, inode |-> 0, result |-> 0, steady |-> {}]

SIInit ==
    /\ born = [i \in {} |-> {}]
    /\ open = {}
    /\ mSocketMap = [h \in {} |-> 0]
    /\ mCouldNotFind = {}
    /\ call = [Idle EXCEPT !.pc = "boot", !.todo = <<"tcp", "udp", "raw">>]

SocketsOf(pkt) == {i \in open : BelongsTo(pkt, born[i])}

-----------------------------------------------------------------------------
(* The kernel hands out inodes in order. *)

OpenSocket(i, s) ==
    /\ i \notin DOMAIN born
    /\ \A j \in Inodes : j < i => j \in DOMAIN born
    /\ \A j \in open : born[j] # s
    /\ born' = [j \in DOMAIN born \cup {i} |-> IF j = i THEN s ELSE born[j]]
    /\ open' = open \cup {i}
    /\ UNCHANGED <<mIPList, mSocketMap, mCouldNotFind, call>>

CloseSocket(i) ==
    /\ i \in open
    /\ open' = open \ {i}
    /\ call' = [call EXCEPT !.steady = @ \ {i}]
    /\ UNCHANGED <<born, mIPList, mSocketMap, mCouldNotFind>>

(* The lines of a table: its open sockets, and connections in TIME_WAIT, which  *)
(* have no process any more and inode 0.                                        *)
TimeWait == {born[i] : i \in {j \in DOMAIN born \ open : born[j].table \in {"tcp", "tcp6"}}}

TableLines(table, waiting) ==
    {[sock |-> born[i], inode |-> i] : i \in {j \in open : born[j].table = table}}
      \cup {[sock |-> s, inode |-> 0] : s \in {w \in waiting : w.table = table}}

-----------------------------------------------------------------------------
(* refresh *)

AnyLine(line)  == TRUE               \* mutant: TIME_WAIT lines are kept
UsedLine(line) == line.inode # 0

(* The map after the table is read: lines with the same hash replace each      *)
(* other, in the order of the table, which may be any.                         *)
AfterRead(lines) ==
    LET used   == {l \in lines : UsedLine(l)}
        hashes == {SocketHash(l.sock) : l \in used}
        last   == {g \in [hashes -> used] : \A h \in hashes : SocketHash(g[h].sock) = h}
    IN  {[h \in DOMAIN mSocketMap \cup hashes |->
            IF h \in hashes THEN g[h].inode ELSE mSocketMap[h]] : g \in last}

ReadTable ==
    /\ call.pc \in {"boot", "get"}
    /\ call.todo # <<>>
    /\ \E waiting \in SUBSET TimeWait :
         mSocketMap' \in AfterRead(TableLines(Head(call.todo), waiting))
    /\ call' = [call EXCEPT !.todo = Tail(@)]
    /\ UNCHANGED <<born, open, mIPList, mCouldNotFind>>

(* The constructor is done. *)
Booted ==
    /\ call.pc = "boot"
    /\ call.todo = <<>>
    /\ call' = [call EXCEPT !.pc = "learn"]
    /\ UNCHANGED siState

-----------------------------------------------------------------------------
(* get, called by the callback of the sniffer for packets that are kept *)

TablesOnlyTcp(pkt) == IF pkt.type = "TCP" THEN <<"tcp">> ELSE <<"udp">>    \* mutant

TablesFor(pkt) == IF pkt.type = "TCP" THEN <<"tcp", "tcp6">> ELSE <<"udp">>

Returns(pkt, i) == [pc |-> "resolve", pkt |-> pkt, todo |-> <<>>, inode |-> i, result |-> 0,
                    steady |-> SocketsOf(pkt)]

Get(f) ==
    LET pkt  == ToPacket(f, mIPList)
        hash == PacketHash(pkt)
    IN  /\ call.pc = "idle"
        /\ ~Discard(f, mIPList)
        /\ call' =
             IF hash \in mCouldNotFind                THEN Returns(pkt, 0)
             ELSE IF hash \in DOMAIN mSocketMap       THEN Returns(pkt, mSocketMap[hash])
             ELSE IF pkt.type \notin {"TCP", "UDP"}   THEN Returns(pkt, 0)
             ELSE [Returns(pkt, 0) EXCEPT !.pc = "get", !.todo = TablesFor(pkt)]
        /\ UNCHANGED siState

(* The callback returns early. *)
DiscardFrame(f) ==
    /\ call.pc = "idle"
    /\ Discard(f, mIPList)
    /\ UNCHANGED <<siState, call>>

AtSecondFind == call.pc = "get" /\ call.todo = <<>>

(* The map is asked again after the tables were read. *)
FindAgain ==
    LET hash == PacketHash(call.pkt)
    IN  /\ AtSecondFind
        /\ IF hash \in DOMAIN mSocketMap
           THEN /\ call' = [call EXCEPT !.pc = "resolve", !.inode = mSocketMap[hash]]
                /\ UNCHANGED mCouldNotFind
           ELSE /\ call' = [call EXCEPT !.pc = "resolve"]
                /\ mCouldNotFind' = mCouldNotFind \cup {hash}
        /\ UNCHANGED <<born, open, mIPList, mSocketMap>>

NothingForgotten == mCouldNotFind    \* mutant: the list is never cleared
Forgotten        == {}

(* The thread of the index; get holds the lock while it runs. *)
ClearFailures ==
    /\ call.pc # "get"
    /\ mCouldNotFind # {}
    /\ mCouldNotFind' = Forgotten
    /\ UNCHANGED <<born, open, mIPList, mSocketMap, call>>

SIStep == ReadTable \/ Booted \/ FindAgain

-----------------------------------------------------------------------------
(* Types.  Every entry of the map is a socket that has, or had, this hash, and *)
(* is of a table that is read.                                                 *)
SITypeOK ==
    /\ DOMAIN born \subseteq Inodes /\ open \subseteq DOMAIN born
    /\ \A i \in DOMAIN born : born[i] \in Sockets
    /\ \A h \in DOMAIN mSocketMap :
         /\ mSocketMap[h] \in DOMAIN born
         /\ SocketHash(born[mSocketMap[h]]) = h /\ born[mSocketMap[h]].table \in TablesRead
    /\ call.pc \in {"boot", "learn", "idle", "get", "resolve", "search", "done"}
    /\ call.inode \in Inodes \cup {0}
    /\ call.result \in Pids \cup {0}
    /\ call.steady \subseteq Inodes

(* A packet is given up only if no socket of its own was open from before the  *)
(* lookup to its end, whatever is opened and closed meanwhile and in whichever *)
(* of the tables it is that the index reads.  The exception is udp6: an IPv4   *)
(* packet of an IPv6 socket that is open all the time is not found             *)
(* (SocketIndex.cpp:114-137).                                                  *)
NothingMissed ==
    AtSecondFind /\ PacketHash(call.pkt) \notin DOMAIN mSocketMap =>
        \A i \in call.steady : born[i].table \notin TablesRead

=============================================================================
