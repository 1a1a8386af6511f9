----------------------- MODULE ProcessResolverProofs -----------------------
(***************************************************************************)
(* Proofs about the way from a packet to a process: the hash of a packet   *)
(* and the hash of a socket agree for the right reason, and the resolver   *)
(* never credits a bystander.                                              *)
(***************************************************************************)
EXTENDS ProcessResolver, OperatorLemmas

(* A packet the callback keeps. *)
Kept(pkt, list) == \E f \in Frames : ~Discard(f, list) /\ pkt = ToPacket(f, list)

(* A kept packet is TCP with proper ends, UDP, or ICMP without ports.          *)
(* Packet.cpp:35-112.                                                          *)
LEMMA KeptPacket ==
    ASSUME NEW list, NEW pkt, Kept(pkt, list)
    PROVE  /\ pkt.type \in {"TCP", "UDP", "ICMP"}
           /\ pkt.direction \in {"Outgoing", "Incoming"}
           /\ pkt.type = "TCP" => /\ pkt.sport # 0 /\ pkt.dport # 0
                                  /\ pkt.sip # AllOnes /\ pkt.dip # AllOnes
           /\ pkt.type = "TCP" => \A s \in Sockets : \A a \in {s.local, s.remote} :
                                     a.kind = "low6" => a.ip \notin {pkt.sip, pkt.dip}
           /\ pkt.type = "ICMP" => pkt.sport = 0 /\ pkt.dport = 0
<1>1. PICK f \in Frames : ~Discard(f, list) /\ pkt = ToPacket(f, list)
  BY DEF Kept
<1>2. PacketType(f) \in {"TCP", "UDP", "ICMP"} /\ Direction(f, list) # "Unknown"
  BY <1>1 DEF Discard
<1>3. Direction(f, list) \in {"Outgoing", "Incoming", "Unknown"}
  BY DEF Direction
<1>4. udpType(f.sport, f.dport) \in {"NTP", "SSDP", "DNS", "UDP"}
  BY DEF udpType
<1>5. /\ PacketType(f) = "TCP" => f.protocol = "tcp"
      /\ PacketType(f) = "ICMP" => f.protocol = "icmp"
  BY <1>4 DEF PacketType
<1> QED BY <1>1, <1>2, <1>3, <1>5, WireAssumption DEF ToPacket

(* A packet and a socket, of a table that is read, with one hash: the packet    *)
(* belongs to the socket, or it is a UDP packet and the socket has its port     *)
(* number.  PacketHash.cpp:13-32, SocketIndex.cpp:75-88.                        *)
THEOREM HashSound ==
    ASSUME NEW list, NEW pkt, Kept(pkt, list), NEW s \in Sockets,
           s.table \in TablesRead, PacketHash(pkt) = SocketHash(s)
    PROVE  BelongsTo(pkt, s) \/ PortClash(pkt, s)
<1>1. /\ pkt.type \in {"TCP", "UDP", "ICMP"}
      /\ pkt.direction \in {"Outgoing", "Incoming"}
      /\ pkt.type = "TCP" => /\ pkt.sport # 0 /\ pkt.dport # 0
                             /\ pkt.sip # AllOnes /\ pkt.dip # AllOnes
      /\ pkt.type = "TCP" => \A a \in {s.local, s.remote} :
                                a.kind = "low6" => a.ip \notin {pkt.sip, pkt.dip}
      /\ pkt.type = "ICMP" => pkt.sport = 0 /\ pkt.dport = 0
  BY KeptPacket
<1>2. /\ s.table \in {"tcp", "tcp6", "udp", "raw"}
      /\ s.table = "raw" => s.rport = 0
      /\ {s.local.kind, s.remote.kind} \subseteq {"v4", "mapped", "low6", "v6"}
      /\ s.lport # 0
  BY WireAssumption DEF TablesRead
<1>3. CASE pkt.type = "TCP"
  <2>1. PacketHash(pkt) = [ip1 |-> LocalEnd(pkt)[1], port1 |-> LocalEnd(pkt)[2],
                           ip2 |-> RemoteEnd(pkt)[1], port2 |-> RemoteEnd(pkt)[2]]
    BY <1>1, <1>3 DEF PacketHash, HashOf, LocalEnd, RemoteEnd
  <2>2. LocalEnd(pkt)[1] # AllOnes /\ RemoteEnd(pkt)[1] # AllOnes /\ RemoteEnd(pkt)[2] # 0
    BY <1>1, <1>3 DEF LocalEnd, RemoteEnd
  <2>3. s.table \in {"tcp", "tcp6"}
    BY <1>2, <2>1, <2>2 DEF SocketHash, HashOf, UdpHash
  <2>4. /\ LocalEnd(pkt)[1] = unpackIP(s.local) /\ LocalEnd(pkt)[2] = s.lport
        /\ RemoteEnd(pkt)[1] = unpackIP(s.remote) /\ RemoteEnd(pkt)[2] = s.rport
    BY <2>1, <2>3 DEF SocketHash, HashOf
  <2>5. IsV4(s.local) /\ IsV4(s.remote) /\ unpackIP(s.local) = s.local.ip
          /\ unpackIP(s.remote) = s.remote.ip
    <3>1. s.local.kind # "v6" /\ s.remote.kind # "v6"
      BY <2>2, <2>4 DEF unpackIP
    <3>2. LocalEnd(pkt)[1] \in {pkt.sip, pkt.dip} /\ RemoteEnd(pkt)[1] \in {pkt.sip, pkt.dip}
      BY DEF LocalEnd, RemoteEnd
    <3>3. s.local.kind # "low6" /\ s.remote.kind # "low6"
      BY <1>1, <1>3, <2>4, <3>1, <3>2 DEF unpackIP
    <3> QED BY <1>2, <3>1, <3>3 DEF IsV4, unpackIP
  <2>6. LocalEnd(pkt) = <<s.local.ip, s.lport>> /\ RemoteEnd(pkt) = <<s.remote.ip, s.rport>>
    BY <2>4, <2>5 DEF LocalEnd, RemoteEnd
  <2> QED BY <1>3, <2>3, <2>5, <2>6 DEF BelongsTo
<1>4. CASE pkt.type = "UDP"
  <2>1. PacketHash(pkt) = [ip1 |-> 0, port1 |-> LocalEnd(pkt)[2], ip2 |-> 0, port2 |-> 0]
    BY <1>1, <1>4 DEF PacketHash, UdpHash, HashOf, LocalEnd
  <2>2. LocalEnd(pkt)[2] = s.lport
    BY <2>1 DEF SocketHash, UdpHash, HashOf
  <2>3. s.table # "udp" => unpackIP(s.local) = 0 /\ unpackIP(s.remote) = 0 /\ s.rport = 0
    BY <2>1 DEF SocketHash, HashOf
  <2> QED BY <1>4, <2>2, <2>3 DEF PortClash
<1>5. CASE pkt.type = "ICMP"
  <2>1. PacketHash(pkt).port1 = 0
    BY <1>1, <1>5 DEF PacketHash, HashOf
  <2>2. SocketHash(s).port1 = s.lport
    BY DEF SocketHash, UdpHash, HashOf
  <2> QED BY <1>2, <2>1, <2>2
<1> QED BY <1>1, <1>3, <1>4, <1>5

(* Conversely a packet has the hash of every socket it belongs to, if that is   *)
(* in a table that is read, in either direction, so a socket in the map is      *)
(* found.  PacketHash.cpp:8-12.                                                 *)
THEOREM HashComplete ==
    ASSUME NEW list, NEW pkt, Kept(pkt, list), NEW s \in Sockets, s.table \in TablesRead,
           BelongsTo(pkt, s)
    PROVE  PacketHash(pkt) = SocketHash(s)
<1>1. pkt.direction \in {"Outgoing", "Incoming"}
  BY KeptPacket
<1>2. CASE pkt.type = "TCP"
  <2>1. /\ s.table \in {"tcp", "tcp6"} /\ IsV4(s.local) /\ IsV4(s.remote)
        /\ LocalEnd(pkt) = <<s.local.ip, s.lport>> /\ RemoteEnd(pkt) = <<s.remote.ip, s.rport>>
    BY <1>2 DEF BelongsTo
  <2>2. PacketHash(pkt) = [ip1 |-> LocalEnd(pkt)[1], port1 |-> LocalEnd(pkt)[2],
                           ip2 |-> RemoteEnd(pkt)[1], port2 |-> RemoteEnd(pkt)[2]]
    BY <1>1, <1>2 DEF PacketHash, HashOf, LocalEnd, RemoteEnd
  <2>3. unpackIP(s.local) = s.local.ip /\ unpackIP(s.remote) = s.remote.ip
    BY <2>1 DEF IsV4, unpackIP
  <2> QED BY <2>1, <2>2, <2>3 DEF SocketHash, HashOf
<1>3. CASE pkt.type = "UDP"
  <2>1. s.table = "udp" /\ LocalEnd(pkt)[2] = s.lport
    BY <1>3 DEF BelongsTo, TablesRead
  <2>2. PacketHash(pkt) = UdpHash(LocalEnd(pkt)[2])
    BY <1>1, <1>3 DEF PacketHash, LocalEnd
  <2> QED BY <2>1, <2>2 DEF SocketHash
<1> QED BY <1>2, <1>3 DEF BelongsTo

-----------------------------------------------------------------------------
(* The inductive invariant.  An entry of the socket map is a socket that had   *)
(* this hash in a table that is read, an entry of the process map names the process that opened the    *)
(* inode, and a call in progress carries an inode with the hash of its packet. *)

Packets == {ToPacket(f, mIPList) : f \in Frames} \cup {{}}
Calls   == [pc : {"boot", "learn", "idle", "get", "resolve", "search", "done"}, pkt : Packets,
            todo : Seq(TablesRead), inode : Inodes \cup {0}, result : Pids \cup {0},
            steady : SUBSET Inodes]

KernelPart == /\ DOMAIN born \subseteq Inodes
              /\ open \subseteq DOMAIN born
              /\ \A i \in DOMAIN born : born[i] \in Sockets

MapPart == \A h \in DOMAIN mSocketMap :
              /\ mSocketMap[h] \in DOMAIN born
              /\ SocketHash(born[mSocketMap[h]]) = h
              /\ born[mSocketMap[h]].table \in TablesRead

KnownPart == \A i \in DOMAIN known : known[i] = ProcessOf[i]

CallPart ==
    /\ call.pc \in {"get", "resolve", "search", "done"} => Kept(call.pkt, mIPList)
    /\ call.pc = "get" => call.inode = 0
    /\ call.pc \in {"resolve", "search", "done"} /\ call.inode # 0 =>
         /\ call.inode \in DOMAIN born
         /\ SocketHash(born[call.inode]) = PacketHash(call.pkt)
         /\ born[call.inode].table \in TablesRead
    /\ call.pc = "done" /\ call.result # 0 =>
         call.inode # 0 /\ call.result = ProcessOf[call.inode]

RInv == call \in Calls /\ KernelPart /\ MapPart /\ KnownPart /\ CallPart

LEMMA InitRInv == PRInit => RInv
<1> SUFFICES ASSUME PRInit PROVE RInv
  OBVIOUS
<1> USE DEF PRInit, SIInit, Idle
<1>0. call = [pc |-> "boot", pkt |-> {}, todo |-> <<"tcp", "udp", "raw">>, inode |-> 0,
              result |-> 0, steady |-> {}]
  OBVIOUS
<1>1. call \in Calls
  <2>1. <<"tcp", "udp", "raw">> \in Seq(TablesRead)
    BY DEF TablesRead
  <2>2. {} \in Packets /\ 0 \in Inodes \cup {0} /\ 0 \in Pids \cup {0} /\ {} \in SUBSET Inodes
    BY DEF Packets
  <2> HIDE DEF PRInit, SIInit, Idle
  <2> QED BY <1>0, <2>1, <2>2 DEF Calls
<1>2. KernelPart
  BY DEF KernelPart
<1>3. MapPart
  BY DEF MapPart
<1>4. KnownPart
  BY DEF KnownPart, PI!PLInit
<1>5. CallPart
  BY DEF CallPart
<1> QED BY <1>1, <1>2, <1>3, <1>4, <1>5 DEF RInv

(* A socket that is opened or closed: no inode changes its socket. *)
LEMMA KernelStep == ASSUME RInv, Kernel PROVE RInv'
<1> USE DEF RInv
<1>0. UNCHANGED <<mIPList, mSocketMap, known>>
  BY DEF Kernel, CloseSocket, OpenSocket, PI!Change
<1>1. CASE \E i \in Inodes : CloseSocket(i)
  <2>1. PICK i \in Inodes : CloseSocket(i)
    BY <1>1
  <2>2. call' \in Calls'
    BY <1>0, <2>1 DEF Calls, Packets, CloseSocket
  <2>3. KernelPart' /\ MapPart' /\ KnownPart'
    BY <1>0, <2>1 DEF KernelPart, MapPart, KnownPart, CloseSocket
  <2>4. /\ call'.pc = call.pc /\ call'.pkt = call.pkt /\ call'.inode = call.inode
        /\ call'.result = call.result
    BY <2>1 DEF Calls, CloseSocket
  <2>5. CallPart'
    BY <1>0, <2>1, <2>4 DEF CallPart, CloseSocket, Kept
  <2> QED BY <2>2, <2>3, <2>5
<1>2. CASE \E i \in Inodes, s \in Sockets : OpenSocket(i, s)
  <2>1. PICK i \in Inodes, s \in Sockets : OpenSocket(i, s)
    BY <1>2
  <2>2. /\ DOMAIN born' = DOMAIN born \cup {i} /\ born'[i] = s
        /\ \A j \in DOMAIN born : born'[j] = born[j]
    BY <2>1 DEF OpenSocket
  <2>3. call' \in Calls'
    BY <1>0, <2>1 DEF Calls, Packets, OpenSocket
  <2>4. KernelPart'
    BY <2>1, <2>2 DEF KernelPart, OpenSocket
  <2>5. MapPart' /\ KnownPart'
    BY <1>0, <2>2 DEF MapPart, KnownPart
  <2>6. CallPart'
    BY <1>0, <2>1, <2>2 DEF CallPart, OpenSocket, Kept
  <2> QED BY <2>3, <2>4, <2>5, <2>6
<1> QED BY <1>1, <1>2 DEF Kernel

(* What reading a table puts into the map. *)
LEMMA AfterReadMap ==
    ASSUME KernelPart, MapPart, NEW table \in TablesRead, NEW waiting,
           NEW m \in AfterRead(TableLines(table, waiting))
    PROVE  \A h \in DOMAIN m : /\ m[h] \in DOMAIN born /\ SocketHash(born[m[h]]) = h
                               /\ born[m[h]].table \in TablesRead
<1> DEFINE lines  == TableLines(table, waiting)
           used   == {l \in lines : UsedLine(l)}
           hashes == {SocketHash(l.sock) : l \in used}
<1>1. \A l \in used : /\ l.inode \in DOMAIN born /\ l.sock = born[l.inode]
                      /\ l.sock.table = table
  BY DEF TableLines, UsedLine, KernelPart
<1>2. PICK g \in [hashes -> used] :
         /\ \A h \in hashes : SocketHash(g[h].sock) = h
         /\ m = [h \in DOMAIN mSocketMap \cup hashes |->
                   IF h \in hashes THEN g[h].inode ELSE mSocketMap[h]]
  BY DEF AfterRead
<1>3. TAKE h \in DOMAIN m
<1>4. CASE h \in hashes
  <2>1. g[h] \in used /\ m[h] = g[h].inode /\ SocketHash(g[h].sock) = h
    BY <1>2, <1>4
  <2> QED BY <1>1, <2>1
<1>5. CASE h \notin hashes
  <2> HIDE DEF hashes
  <2>1. h \in DOMAIN mSocketMap /\ m[h] = mSocketMap[h]
    BY <1>2, <1>3, <1>5
  <2> QED BY <2>1 DEF MapPart
<1> QED BY <1>4, <1>5

(* A table is read, or the map is asked again. *)
LEMMA IndexStep == ASSUME RInv, SocketIndexStep(SIStep) PROVE RInv'
<1> USE DEF RInv
<1>0. UNCHANGED <<born, open, mIPList, known>>
  BY DEF SocketIndexStep, SIStep, ReadTable, Booted, FindAgain, siState, processIndex
<1>a. KernelPart' /\ KnownPart'
  BY <1>0 DEF KernelPart, KnownPart
<1>1. CASE ReadTable
  <2>1. PICK waiting : mSocketMap' \in AfterRead(TableLines(Head(call.todo), waiting))
    BY <1>1 DEF ReadTable
  <2>3. Tail(call.todo) \in Seq(TablesRead) /\ Head(call.todo) \in TablesRead
    BY <1>1 DEF ReadTable, Calls
  <2>2. MapPart'
    BY <1>0, <2>1, <2>3, AfterReadMap DEF MapPart
  <2>4. call' \in Calls'
    BY <1>0, <1>1, <2>3 DEF ReadTable, Calls, Packets
  <2>5. /\ call'.pc = call.pc /\ call'.pkt = call.pkt /\ call'.inode = call.inode
        /\ call'.result = call.result
    BY <1>1 DEF Calls, ReadTable
  <2>6. CallPart'
    BY <1>0, <2>5 DEF CallPart, Kept
  <2> QED BY <1>a, <2>2, <2>4, <2>6
<1>2. CASE Booted
  <2>1. UNCHANGED mSocketMap /\ call.pc = "boot" /\ call' = [call EXCEPT !.pc = "learn"]
    BY <1>2 DEF Booted, siState
  <2>2. call' \in Calls' /\ call'.pc = "learn"
    BY <1>0, <2>1 DEF Calls, Packets
  <2>3. MapPart' /\ CallPart'
    BY <1>0, <2>1, <2>2 DEF MapPart, CallPart
  <2> QED BY <1>a, <2>2, <2>3
<1>3. CASE FindAgain
  <2> DEFINE hash == PacketHash(call.pkt)
  <2> HIDE DEF hash
  <2>1. UNCHANGED mSocketMap /\ call.pc = "get" /\ call.inode = 0 /\ Kept(call.pkt, mIPList)
    BY <1>3 DEF FindAgain, AtSecondFind, CallPart
  <2>2. MapPart'
    BY <1>0, <2>1 DEF MapPart
  <2>3. CASE hash \in DOMAIN mSocketMap
    <3>1. call' = [call EXCEPT !.pc = "resolve", !.inode = mSocketMap[hash]]
      BY <1>3, <2>3 DEF FindAgain, hash
    <3>2. /\ mSocketMap[hash] \in DOMAIN born /\ SocketHash(born[mSocketMap[hash]]) = hash
          /\ born[mSocketMap[hash]].table \in TablesRead
      BY <2>3 DEF MapPart
    <3>3. call' \in Calls' /\ call'.pc = "resolve" /\ call'.pkt = call.pkt
            /\ call'.inode = mSocketMap[hash]
      BY <1>0, <3>1, <3>2 DEF Calls, Packets, KernelPart
    <3>4. CallPart'
      BY <1>0, <2>1, <3>2, <3>3 DEF CallPart, Kept, hash
    <3> QED BY <1>a, <2>2, <3>3, <3>4
  <2>4. CASE hash \notin DOMAIN mSocketMap
    <3>1. call' = [call EXCEPT !.pc = "resolve"]
      BY <1>3, <2>4 DEF FindAgain, hash
    <3>2. call' \in Calls' /\ call'.pc = "resolve" /\ call'.pkt = call.pkt /\ call'.inode = 0
      BY <1>0, <2>1, <3>1 DEF Calls, Packets
    <3>3. CallPart'
      BY <1>0, <2>1, <3>2 DEF CallPart, Kept
    <3> QED BY <1>a, <2>2, <3>2, <3>3
  <2> QED BY <2>3, <2>4
<1> QED BY <1>1, <1>2, <1>3 DEF SocketIndexStep, SIStep

(* A packet is captured: the three early returns of get, or the tables are to  *)
(* be read.                                                                    *)
LEMMA GetStep == ASSUME RInv, NEW f \in Frames, SocketIndexStep(Get(f)) PROVE RInv'
<1> USE DEF RInv
<1> DEFINE pkt  == ToPacket(f, mIPList)
           hash == PacketHash(pkt)
<1>0. UNCHANGED <<born, open, mIPList, mSocketMap, known>> /\ ~Discard(f, mIPList)
  BY DEF SocketIndexStep, Get, siState, processIndex
<1>2. Kept(pkt, mIPList)
  BY <1>0 DEF Kept
<1>3. KernelPart' /\ MapPart' /\ KnownPart'
  BY <1>0 DEF KernelPart, MapPart, KnownPart
<1>4. pkt \in Packets' /\ SocketsOf(pkt) \in SUBSET Inodes
  BY <1>0 DEF Packets, SocketsOf, KernelPart
<1>5. \/ call' = Returns(pkt, 0)
      \/ hash \in DOMAIN mSocketMap /\ call' = Returns(pkt, mSocketMap[hash])
      \/ call' = [Returns(pkt, 0) EXCEPT !.pc = "get", !.todo = TablesFor(pkt)]
  BY DEF SocketIndexStep, Get
<1>6. TablesFor(pkt) \in Seq(TablesRead) /\ <<>> \in Seq(TablesRead)
  <2>1. <<"tcp", "tcp6">> \in Seq(TablesRead) /\ <<"udp">> \in Seq(TablesRead)
    BY DEF TablesRead
  <2> HIDE DEF pkt
  <2> QED BY <2>1 DEF TablesFor
<1> HIDE DEF pkt, hash
<1>7. CASE call' = Returns(pkt, 0)
  <2>1. call' \in Calls'
    BY <1>4, <1>6, <1>7 DEF Calls, Returns
  <2>2. CallPart'
    BY <1>0, <1>2, <1>7 DEF CallPart, Kept, Returns
  <2> QED BY <1>3, <2>1, <2>2
<1>8. CASE hash \in DOMAIN mSocketMap /\ call' = Returns(pkt, mSocketMap[hash])
  <2>1. /\ mSocketMap[hash] \in DOMAIN born /\ mSocketMap[hash] \in Inodes
        /\ SocketHash(born[mSocketMap[hash]]) = PacketHash(pkt)
        /\ born[mSocketMap[hash]].table \in TablesRead
    BY <1>8 DEF MapPart, KernelPart, hash
  <2>2. call' \in Calls'
    BY <1>4, <1>6, <1>8, <2>1 DEF Calls, Returns
  <2>3. CallPart'
    BY <1>0, <1>2, <1>8, <2>1 DEF CallPart, Kept, Returns
  <2> QED BY <1>3, <2>2, <2>3
<1>9. CASE call' = [Returns(pkt, 0) EXCEPT !.pc = "get", !.todo = TablesFor(pkt)]
  <2>1. call' = [pc |-> "get", pkt |-> pkt, todo |-> TablesFor(pkt), inode |-> 0, result |-> 0,
                 steady |-> SocketsOf(pkt)]
    BY <1>9 DEF Returns
  <2>2. call' \in Calls'
    BY <1>4, <1>6, <2>1 DEF Calls
  <2>3. CallPart'
    BY <1>0, <1>2, <2>1 DEF CallPart, Kept
  <2> QED BY <1>3, <2>2, <2>3
<1> QED BY <1>5, <1>7, <1>8, <1>9

(* An answer is right if it is the process of the call's inode, or unknown. *)
LEMMA AnswerOK ==
    ASSUME RInv, UNCHANGED siState, call.pc \in {"resolve", "search"},
           NEW p \in Pids \cup {0}, p # 0 => call.inode # 0 /\ p = ProcessOf[call.inode],
           Answer(p), KnownPart'
    PROVE  RInv'
<1> USE DEF RInv
<1>1. call' \in Calls' /\ call'.pc = "done" /\ call'.pkt = call.pkt /\ call'.inode = call.inode
        /\ call'.result = p
  BY DEF Calls, Packets, Answer, siState
<1>2. KernelPart' /\ MapPart'
  BY DEF KernelPart, MapPart, siState
<1>3. CallPart'
  BY <1>1 DEF CallPart, Kept, siState
<1> QED BY <1>1, <1>2, <1>3

(* A call that only moves on, or is over. *)
LEMMA MovesOn ==
    ASSUME RInv, UNCHANGED siState, KnownPart',
           \/ UNCHANGED call
           \/ call.pc = "resolve" /\ call' = [call EXCEPT !.pc = "search"]
           \/ call' = Idle
    PROVE  RInv'
<1> USE DEF RInv
<1>1. KernelPart' /\ MapPart'
  BY DEF KernelPart, MapPart, siState
<1>2. CASE UNCHANGED call
  BY <1>1, <1>2 DEF Calls, Packets, CallPart, Kept, siState
<1>3. CASE call.pc = "resolve" /\ call' = [call EXCEPT !.pc = "search"]
  <2>1. call' \in Calls' /\ call'.pc = "search" /\ call'.pkt = call.pkt
          /\ call'.inode = call.inode
    BY <1>3 DEF Calls, Packets, siState
  <2>2. CallPart'
    BY <1>3, <2>1 DEF CallPart, Kept, siState
  <2> QED BY <1>1, <2>1, <2>2
<1>4. CASE call' = Idle
  <2>1. <<>> \in Seq(TablesRead)
    OBVIOUS
  <2>2. call' \in Calls'
    BY <1>4, <2>1 DEF Calls, Packets, Idle
  <2>3. CallPart'
    BY <1>4 DEF CallPart, Idle
  <2> QED BY <1>1, <2>2, <2>3
<1> QED BY <1>2, <1>3, <1>4

LEMMA ResolveStep == ASSUME RInv, Resolve PROVE RInv'
<1>0. UNCHANGED siState /\ UNCHANGED known
  BY DEF Resolve, NoSocket, AnswerKnown, BeginSearch, GiveUpSearch, Constructed, AddTraffic,
         processIndex, PI!Ask, PI!Miss
<1>a. KnownPart'
  BY <1>0 DEF RInv, KnownPart
<1>1. CASE NoSocket
  BY <1>0, <1>a, <1>1, AnswerOK DEF NoSocket
<1>2. CASE AnswerKnown
  <2>1. CASE Answer(0)
    BY <1>0, <1>a, <1>2, <2>1, AnswerOK DEF AnswerKnown, InResolve
  <2>2. CASE call.inode \in DOMAIN known /\ Answer(known[call.inode])
    <3>1. call.pc = "resolve" /\ call.inode # 0 /\ call.inode \in Inodes
      BY <1>2 DEF AnswerKnown, InResolve, RInv, Calls
    <3>2. known[call.inode] = ProcessOf[call.inode] /\ known[call.inode] \in Pids
      BY <2>2, <3>1, SIAssumption DEF RInv, KnownPart
    <3> QED BY <1>0, <1>a, <2>2, <3>1, <3>2, AnswerOK
  <2> QED BY <1>2, <2>1, <2>2 DEF AnswerKnown
<1>3. CASE BeginSearch
  BY <1>0, <1>a, <1>3, MovesOn DEF BeginSearch, InResolve
<1>4. CASE GiveUpSearch
  BY <1>0, <1>a, <1>4, AnswerOK DEF GiveUpSearch
<1>5. CASE Constructed \/ AddTraffic
  BY <1>0, <1>a, <1>5, MovesOn DEF Constructed, AddTraffic
<1> QED BY <1>1, <1>2, <1>3, <1>4, <1>5 DEF Resolve

(* A process directory is read: every socket in it was opened by that process. *)
LEMMA ReadStep == ASSUME RInv, NEW p \in Pids, ReadProcess(p) PROVE RInv'
<1>0. UNCHANGED siState
  BY DEF ReadProcess
<1>1. \A i \in Owns[p] : i \in Inodes /\ i # 0 /\ ProcessOf[i] = p
  BY SIAssumption DEF Owns, RInv, KernelPart
<1>2. known' = [i \in DOMAIN known \cup Owns[p] |-> IF i \in Owns[p] THEN p ELSE known[i]]
  BY DEF ReadProcess, PI!Learn
<1>3. KnownPart'
  BY <1>1, <1>2 DEF RInv, KnownPart
<1>4. CASE call.pc = "search" /\ call.inode \in Owns[p]
  <2>1. Answer(p) /\ call.inode # 0 /\ p = ProcessOf[call.inode]
    BY <1>1, <1>4 DEF ReadProcess
  <2> QED BY <1>0, <1>3, <1>4, <2>1, AnswerOK
<1>5. CASE ~(call.pc = "search" /\ call.inode \in Owns[p])
  BY <1>0, <1>3, <1>5, MovesOn DEF ReadProcess
<1> QED BY <1>4, <1>5

LEMMA NextRInv == RInv /\ [PRNext]_prVars => RInv'
<1> SUFFICES ASSUME RInv, [PRNext]_prVars PROVE RInv'
  OBVIOUS
<1>1. CASE Kernel
  BY <1>1, KernelStep
<1>2. CASE SocketIndexStep(SIStep)
  BY <1>2, IndexStep
<1>3. CASE SocketIndexStep(ClearFailures)
  <2>1. UNCHANGED <<born, open, mIPList, mSocketMap, call, known>>
    BY <1>3 DEF SocketIndexStep, ClearFailures, processIndex
  <2> QED BY <2>1 DEF RInv, Calls, Packets, KernelPart, MapPart, KnownPart, CallPart, Kept
<1>4. CASE \E f \in Frames : SocketIndexStep(Get(f) \/ DiscardFrame(f))
  <2>1. PICK f \in Frames : SocketIndexStep(Get(f) \/ DiscardFrame(f))
    BY <1>4
  <2>2. CASE SocketIndexStep(Get(f))
    BY <2>2, GetStep
  <2>3. CASE SocketIndexStep(DiscardFrame(f))
    BY <2>3, MovesOn DEF SocketIndexStep, DiscardFrame, processIndex, RInv, KnownPart
  <2> QED BY <2>1, <2>2, <2>3 DEF SocketIndexStep
<1>5. CASE \E p \in Pids : ReadProcess(p)
  BY <1>5, ReadStep
<1>6. CASE Resolve
  BY <1>6, ResolveStep
<1>7. CASE ForgetMissing
  BY <1>7, MovesOn DEF ForgetMissing, PI!Forget, RInv, KnownPart
<1>8. CASE UNCHANGED prVars
  BY <1>8, MovesOn DEF prVars, processIndex, RInv, KnownPart
<1> QED BY <1>1, <1>2, <1>3, <1>4, <1>5, <1>6, <1>7, <1>8 DEF PRNext

LEMMA AlwaysRInv == PRSpec => []RInv
BY InitRInv, NextRInv, PTL DEF PRSpec

(* The socket map holds nothing but inodes of sockets that had the hash they   *)
(* are stored under, TIME_WAIT lines never get into it, and a call is well     *)
(* formed at every step.  SocketIndex.cpp:34-93.                               *)
THEOREM MapCorrect == PRSpec => []SITypeOK
<1>1. RInv => SITypeOK
  BY DEF RInv, Calls, KernelPart, MapPart, SITypeOK
<1> QED BY <1>1, AlwaysRInv, PTL

(* For any sockets, frames, processes and addresses: a packet's bytes go to a  *)
(* process that has, or had, a socket of the packet (or, for UDP, a socket     *)
(* with the packet's port number), or to the unknown process.                  *)
(* ProcessResolver.cpp:13-29, SnifferLoop.cpp:17-22.                           *)
THEOREM NoBystander == PRSpec => []RightOrUnknown
<1>1. ASSUME RInv PROVE RightOrUnknown
  <2> SUFFICES ASSUME call.pc = "done", call.result # 0
               PROVE  \E i \in DOMAIN born :
                        /\ ProcessOf[i] = call.result
                        /\ BelongsTo(call.pkt, born[i]) \/ PortClash(call.pkt, born[i])
    BY DEF RightOrUnknown
  <2>1. /\ call.inode \in DOMAIN born /\ ProcessOf[call.inode] = call.result
        /\ SocketHash(born[call.inode]) = PacketHash(call.pkt)
        /\ born[call.inode].table \in TablesRead
        /\ Kept(call.pkt, mIPList)
    BY <1>1 DEF RInv, CallPart
  <2>2. born[call.inode] \in Sockets
    BY <1>1, <2>1 DEF RInv, KernelPart
  <2>3. BelongsTo(call.pkt, born[call.inode]) \/ PortClash(call.pkt, born[call.inode])
    BY <2>1, <2>2, HashSound
  <2> QED BY <2>1, <2>3
<1> QED BY <1>1, AlwaysRInv, PTL

-----------------------------------------------------------------------------
(* A socket of the packet that stays open during get is still in one of the    *)
(* tables to be read, or its hash is in the map; or its table is never read.   *)

InTodo(table) == \E k \in 1 .. Len(call.todo) : call.todo[k] = table

SteadyPart ==
    call.pc = "get" =>
        \A i \in call.steady :
            /\ i \in open /\ BelongsTo(call.pkt, born[i])
            /\ \/ InTodo(born[i].table)
               \/ PacketHash(call.pkt) \in DOMAIN mSocketMap
               \/ born[i].table \notin TablesRead

(* Reading a table forgets no hash and takes in those of its open sockets. *)
LEMMA AfterReadGrows ==
    ASSUME KernelPart, NEW table, NEW waiting,
           NEW m \in AfterRead(TableLines(table, waiting))
    PROVE  /\ DOMAIN mSocketMap \subseteq DOMAIN m
           /\ \A i \in open : born[i].table = table => SocketHash(born[i]) \in DOMAIN m
<1> DEFINE lines  == TableLines(table, waiting)
           used   == {l \in lines : UsedLine(l)}
           hashes == {SocketHash(l.sock) : l \in used}
<1>1. DOMAIN m = DOMAIN mSocketMap \cup hashes
  BY DEF AfterRead
<1>2. ASSUME NEW i \in open, born[i].table = table PROVE SocketHash(born[i]) \in hashes
  <2> DEFINE l == [sock |-> born[i], inode |-> i]
  <2>1. l \in lines
    BY <1>2 DEF TableLines
  <2>2. l.inode = i /\ l.sock = born[i] /\ i # 0
    BY SIAssumption DEF KernelPart
  <2>3. l \in used
    BY <2>1, <2>2 DEF UsedLine
  <2> QED BY <2>2, <2>3
<1> QED BY <1>1, <1>2

LEMMA SteadyReadTable ==
    ASSUME RInv, SteadyPart, ReadTable
    PROVE  SteadyPart'
<1>1. PICK waiting : mSocketMap' \in AfterRead(TableLines(Head(call.todo), waiting))
  BY DEF ReadTable
<1>2. /\ DOMAIN mSocketMap \subseteq DOMAIN mSocketMap'
      /\ \A i \in open : born[i].table = Head(call.todo) =>
                          SocketHash(born[i]) \in DOMAIN mSocketMap'
  BY <1>1, AfterReadGrows DEF RInv
<1>3. /\ call.todo \in Seq(TablesRead) /\ call.todo # << >> /\ call'.todo = Tail(call.todo)
      /\ call'.pc = call.pc /\ call'.pkt = call.pkt /\ call'.steady = call.steady
      /\ UNCHANGED <<born, open, mIPList>>
  BY DEF ReadTable, RInv, Calls
<1>4. ASSUME NEW table, InTodo(table) PROVE table = Head(call.todo) \/ InTodo(table)'
  <2>1. PICK k \in 1 .. Len(call.todo) : call.todo[k] = table
    BY <1>4 DEF InTodo
  <2>2. CASE k = 1
    BY <1>3, <2>1, <2>2
  <2>3. CASE k # 1
    <3>1. k - 1 \in 1 .. Len(call'.todo) /\ call'.todo[k - 1] = call.todo[k]
      BY <1>3, <2>1, <2>3
    <3> QED BY <2>1, <3>1 DEF InTodo
  <2> QED BY <2>2, <2>3
<1>5. ASSUME call.pc = "get", NEW i \in call.steady
      PROVE  /\ i \in open /\ BelongsTo(call.pkt, born[i])
             /\ \/ InTodo(born[i].table)'
                \/ PacketHash(call.pkt) \in DOMAIN mSocketMap'
                \/ born[i].table \notin TablesRead
  <2>1. /\ i \in open /\ BelongsTo(call.pkt, born[i]) /\ born[i] \in Sockets
        /\ \/ InTodo(born[i].table)
           \/ PacketHash(call.pkt) \in DOMAIN mSocketMap
           \/ born[i].table \notin TablesRead
    BY <1>5 DEF SteadyPart, RInv, KernelPart
  <2>2. born[i].table \in TablesRead => PacketHash(call.pkt) = SocketHash(born[i])
    BY <1>5, <2>1, HashComplete DEF RInv, CallPart
  <2>3. CASE InTodo(born[i].table)
    <3>1. CASE born[i].table = Head(call.todo)
      BY <1>2, <2>1, <2>2, <3>1
    <3>2. CASE InTodo(born[i].table)'
      BY <2>1, <3>2
    <3> QED BY <1>3, <1>4, <2>1, <2>3, <3>1, <3>2
  <2> QED BY <1>2, <2>1, <2>3
<1> QED BY <1>3, <1>5 DEF SteadyPart, InTodo

LEMMA SteadyGet ==
    ASSUME RInv, NEW f \in Frames, SocketIndexStep(Get(f))
    PROVE  SteadyPart'
<1> DEFINE pkt == ToPacket(f, mIPList)
<1>1. UNCHANGED <<born, open, mIPList, mSocketMap>>
  BY DEF SocketIndexStep, Get, siState
<1>2. \/ \E i : call' = Returns(pkt, i)
      \/ /\ call' = [Returns(pkt, 0) EXCEPT !.pc = "get", !.todo = TablesFor(pkt)]
         /\ pkt.type \in {"TCP", "UDP"}
  BY DEF SocketIndexStep, Get
<1> HIDE DEF pkt
<1>3. CASE \E i : call' = Returns(pkt, i)
  BY <1>3 DEF Returns, SteadyPart
<1>4. CASE /\ call' = [Returns(pkt, 0) EXCEPT !.pc = "get", !.todo = TablesFor(pkt)]
           /\ pkt.type \in {"TCP", "UDP"}
  <2>1. call'.pkt = pkt /\ call'.todo = TablesFor(pkt) /\ call'.steady = SocketsOf(pkt)
    BY <1>4 DEF Returns
  <2>2. ASSUME NEW i \in SocketsOf(pkt), born[i].table \in TablesRead
        PROVE  \E k \in 1 .. Len(TablesFor(pkt)) : TablesFor(pkt)[k] = born[i].table
    <3>1. BelongsTo(pkt, born[i])
      BY DEF SocketsOf
    <3>2. CASE pkt.type = "TCP"
      <4>1. born[i].table \in {"tcp", "tcp6"} /\ TablesFor(pkt) = <<"tcp", "tcp6">>
        BY <3>1, <3>2 DEF BelongsTo, TablesFor
      <4>2. /\ 1 \in 1 .. Len(<<"tcp", "tcp6">>) /\ <<"tcp", "tcp6">>[1] = "tcp"
            /\ 2 \in 1 .. Len(<<"tcp", "tcp6">>) /\ <<"tcp", "tcp6">>[2] = "tcp6"
        OBVIOUS
      <4> QED BY <4>1, <4>2
    <3>3. CASE pkt.type = "UDP"
      <4>1. born[i].table = "udp" /\ TablesFor(pkt) = <<"udp">>
        BY <2>2, <3>1, <3>3 DEF BelongsTo, TablesFor, TablesRead
      <4>2. 1 \in 1 .. Len(<<"udp">>) /\ <<"udp">>[1] = "udp"
        OBVIOUS
      <4> QED BY <4>1, <4>2
    <3> QED BY <1>4, <3>2, <3>3
  <2>3. \A i \in SocketsOf(pkt) : i \in open /\ BelongsTo(pkt, born[i])
    BY DEF SocketsOf
  <2> QED BY <1>1, <2>1, <2>2, <2>3 DEF SteadyPart, InTodo
<1> QED BY <1>2, <1>3, <1>4

(* A socket that is closed is not steady any more. *)
LEMMA SteadyKernel ==
    ASSUME RInv, SteadyPart, Kernel
    PROVE  SteadyPart'
<1>1. ASSUME NEW i \in Inodes, CloseSocket(i) PROVE SteadyPart'
  <2>1. /\ call'.pc = call.pc /\ call'.pkt = call.pkt /\ call'.todo = call.todo
        /\ call'.steady = call.steady \ {i} /\ open' = open \ {i}
        /\ UNCHANGED <<born, mSocketMap>>
    BY <1>1 DEF CloseSocket, RInv, Calls
  <2> QED BY <2>1 DEF SteadyPart, InTodo
<1>2. ASSUME NEW i \in Inodes, NEW s \in Sockets, OpenSocket(i, s) PROVE SteadyPart'
  <2>1. /\ open \subseteq open' /\ UNCHANGED <<call, mSocketMap>>
        /\ \A j \in open : born'[j] = born[j]
    BY <1>2 DEF OpenSocket, RInv, KernelPart
  <2> QED BY <2>1 DEF SteadyPart, InTodo
<1> QED BY <1>1, <1>2 DEF Kernel

LEMMA NextSteady == RInv /\ SteadyPart /\ [PRNext]_prVars => SteadyPart'
<1> SUFFICES ASSUME RInv, SteadyPart, [PRNext]_prVars PROVE SteadyPart'
  OBVIOUS
<1>1. ASSUME UNCHANGED <<born, open, mSocketMap, call>> PROVE SteadyPart'
  BY <1>1 DEF SteadyPart, InTodo
<1>2. ASSUME call'.pc # "get" PROVE SteadyPart'
  BY <1>2 DEF SteadyPart
<1>3. CASE SocketIndexStep(SIStep)
  <2>1. CASE ReadTable
    BY <2>1, SteadyReadTable
  <2>2. CASE Booted \/ FindAgain
    <3>1. call'.pc \in {"learn", "resolve"}
      BY <2>2 DEF Booted, FindAgain, RInv, Calls
    <3> QED BY <1>2, <3>1
  <2> QED BY <1>3, <2>1, <2>2 DEF SocketIndexStep, SIStep
<1>4. CASE SocketIndexStep(ClearFailures)
  BY <1>1, <1>4 DEF SocketIndexStep, ClearFailures
<1>5. CASE \E f \in Frames : SocketIndexStep(Get(f) \/ DiscardFrame(f))
  <2>1. PICK f \in Frames : SocketIndexStep(Get(f) \/ DiscardFrame(f))
    BY <1>5
  <2>2. CASE SocketIndexStep(Get(f))
    BY <2>2, SteadyGet
  <2>3. CASE SocketIndexStep(DiscardFrame(f))
    BY <1>1, <2>3 DEF SocketIndexStep, DiscardFrame, siState
  <2> QED BY <2>1, <2>2, <2>3 DEF SocketIndexStep
<1>6. CASE \E p \in Pids : ReadProcess(p)
  <2>1. PICK p \in Pids : ReadProcess(p)
    BY <1>6
  <2>2. CASE UNCHANGED call
    BY <1>1, <2>1, <2>2 DEF ReadProcess, siState
  <2>3. CASE Answer(p)
    <3>1. call'.pc = "done"
      BY <2>3 DEF Answer, RInv, Calls
    <3> QED BY <1>2, <3>1
  <2> QED BY <2>1, <2>2, <2>3 DEF ReadProcess
<1>7. CASE Resolve
  <2>1. call' = Idle \/ (\E p : Answer(p)) \/ call' = [call EXCEPT !.pc = "search"]
    BY <1>7 DEF Resolve, NoSocket, AnswerKnown, BeginSearch, GiveUpSearch, Constructed,
                AddTraffic
  <2>2. CASE call' = Idle
    BY <1>2, <2>2 DEF Idle
  <2>3. ASSUME NEW p, Answer(p) PROVE SteadyPart'
    <3>1. call'.pc = "done"
      BY <2>3 DEF Answer, RInv, Calls
    <3> QED BY <1>2, <3>1
  <2>4. CASE call' = [call EXCEPT !.pc = "search"]
    <3>1. call'.pc = "search"
      BY <2>4 DEF RInv, Calls
    <3> QED BY <1>2, <3>1
  <2> QED BY <2>1, <2>2, <2>3, <2>4
<1>8. CASE ForgetMissing
  BY <1>1, <1>8 DEF ForgetMissing, siState
<1>9. CASE UNCHANGED prVars
  BY <1>1, <1>9 DEF prVars, siState
<1> QED BY <1>3, <1>4, <1>5, <1>6, <1>7, <1>8, <1>9, SteadyKernel DEF PRNext

(* For any sockets, frames and interleavings: the second look at the map fails *)
(* only if every socket of the packet that was open throughout the lookup is   *)
(* in udp6, the one table that is not read; so no packet of another such       *)
(* socket gets on the list of failures.  SocketIndex.cpp:105-137.              *)
THEOREM LookupComplete == PRSpec => []NothingMissed
<1>1. PRInit => SteadyPart
  BY DEF PRInit, SIInit, Idle, SteadyPart
<1>2. SteadyPart => NothingMissed
  <2> SUFFICES ASSUME SteadyPart, call.pc = "get", call.todo = << >>,
                      PacketHash(call.pkt) \notin DOMAIN mSocketMap
               PROVE  \A i \in call.steady : born[i].table \notin TablesRead
    BY DEF NothingMissed, AtSecondFind
  <2>1. \A table : ~InTodo(table)
    BY DEF InTodo
  <2> QED BY <2>1 DEF SteadyPart
<1> QED BY <1>1, <1>2, NextSteady, AlwaysRInv, PTL DEF PRSpec

-----------------------------------------------------------------------------
(* The direction of a frame.  initList is a recursion over the entries: one    *)
(* more entry at a time, it exists, and the list has exactly the addresses of  *)
(* the entries of the device.  Both by the least number of entries for which   *)
(* it would be wrong.                                                          *)

Entries == [name : STRING, family : {"none", "inet", "inet6", "packet"}, value : 0 .. AllOnes]

Step(tmp, e, device) == IF OfDevice(e, device) THEN insertIP(tmp, e) ELSE tmp

IsLoop(t, entries, device, n) ==
    t = [k \in 0 .. n |-> IF k = 0 THEN <<>> ELSE Step(t[k - 1], entries[k], device)]

LEMMA LoopExists ==
    ASSUME NEW entries, NEW device, NEW n \in Nat
    PROVE  \E t : IsLoop(t, entries, device, n)
<1> DEFINE Bad == {m \in Nat : ~\E t : IsLoop(t, entries, device, m)}
<1> SUFFICES ASSUME Bad # {} PROVE FALSE
  OBVIOUS
<1>1. PICK m \in Bad : \A k \in Bad : m <= k
  <2>1. Bad \subseteq Nat
    OBVIOUS
  <2> HIDE DEF Bad
  <2> QED BY <2>1, LeastNumber
<1>2. m \in Nat /\ ~\E t : IsLoop(t, entries, device, m)
  BY <1>1
<1>3. m # 0
  <2> DEFINE t == [k \in 0 .. 0 |-> <<>>]
  <2>1. t = [k \in 0 .. 0 |-> IF k = 0 THEN <<>> ELSE Step(t[k - 1], entries[k], device)]
    OBVIOUS
  <2> QED BY <1>2, <2>1 DEF IsLoop
<1>4. PICK t : IsLoop(t, entries, device, m - 1)
  BY <1>1, <1>2, <1>3
<1> DEFINE u == [k \in 0 .. m |-> IF k = m THEN Step(t[m - 1], entries[m], device) ELSE t[k]]
<1>5. \A k \in 0 .. m - 1 :
        t[k] = IF k = 0 THEN <<>> ELSE Step(t[k - 1], entries[k], device)
  BY <1>4 DEF IsLoop
<1>6. \A k \in 0 .. m : u[k] = IF k = 0 THEN <<>> ELSE Step(u[k - 1], entries[k], device)
  <2> SUFFICES ASSUME NEW k \in 0 .. m
               PROVE  u[k] = IF k = 0 THEN <<>> ELSE Step(u[k - 1], entries[k], device)
    OBVIOUS
  <2>1. CASE k = m
    <3>1. u[k] = Step(t[m - 1], entries[m], device) /\ u[m - 1] = t[m - 1]
      BY <1>2, <1>3, <2>1
    <3> QED BY <1>2, <1>3, <2>1, <3>1
  <2>2. CASE k # m /\ k # 0
    <3>1. u[k] = t[k] /\ u[k - 1] = t[k - 1] /\ k \in 0 .. m - 1
      BY <1>2, <2>2
    <3> QED BY <1>5, <2>2, <3>1
  <2>3. CASE k # m /\ k = 0
    <3>1. u[k] = t[k] /\ k \in 0 .. m - 1
      BY <1>2, <2>3
    <3> QED BY <1>5, <2>3, <3>1
  <2> QED BY <2>1, <2>2, <2>3
<1>7. u = [k \in 0 .. m |-> IF k = 0 THEN <<>> ELSE Step(u[k - 1], entries[k], device)]
  <2>1. u = [k \in 0 .. m |-> u[k]]
    OBVIOUS
  <2> HIDE DEF u
  <2> QED BY <1>6, <2>1
<1> QED BY <1>2, <1>7 DEF IsLoop

(* Inserting an address adds it, in front or at the end. *)
LEMMA InsertOne ==
    ASSUME NEW tmp \in Seq(Int), NEW e \in Entries
    PROVE  /\ insertIP(tmp, e) \in Seq(Int)
           /\ insertIP(tmp, e) # <<>>
           /\ \A x : (\E k \in 1 .. Len(insertIP(tmp, e)) : insertIP(tmp, e)[k] = x)
                       <=> x = sinAddr(e) \/ \E k \in 1 .. Len(tmp) : tmp[k] = x
<1> DEFINE a == sinAddr(e)
           s == insertIP(tmp, e)
<1>1. a \in Int
  BY PacketAssumption DEF sinAddr, Entries
<1> HIDE DEF a
<1>2. CASE s = <<a>> \o tmp
  <2>1. /\ s \in Seq(Int) /\ Len(s) = Len(tmp) + 1 /\ s[1] = a
        /\ \A k \in 1 .. Len(tmp) : s[k + 1] = tmp[k]
    BY <1>1, <1>2
  <2> HIDE DEF s
  <2>2. ASSUME NEW k \in 1 .. Len(s), k # 1 PROVE k - 1 \in 1 .. Len(tmp) /\ s[k] = tmp[k - 1]
    <3>1. Len(tmp) \in Nat /\ Len(s) = Len(tmp) + 1
      BY <2>1, LenProperties
    <3>2. k - 1 \in 1 .. Len(tmp) /\ (k - 1) + 1 = k
      BY <2>2, <3>1
    <3>3. s[(k - 1) + 1] = tmp[k - 1]
      BY <2>1, <3>2
    <3> QED BY <3>2, <3>3
  <2>3. \A k \in 1 .. Len(tmp) : k + 1 \in 1 .. Len(s)
    BY <2>1
  <2>4. 1 \in 1 .. Len(s) /\ s # <<>>
    BY <2>1
  <2>5. ASSUME NEW x PROVE (\E k \in 1 .. Len(s) : s[k] = x)
                             <=> x = a \/ \E k \in 1 .. Len(tmp) : tmp[k] = x
    <3>1. ASSUME NEW k \in 1 .. Len(s), s[k] = x
          PROVE  x = a \/ \E j \in 1 .. Len(tmp) : tmp[j] = x
      BY <2>1, <2>2, <3>1
    <3>2. ASSUME NEW k \in 1 .. Len(tmp), tmp[k] = x PROVE \E j \in 1 .. Len(s) : s[j] = x
      BY <2>1, <2>3, <3>2
    <3> QED BY <2>1, <2>4, <3>1, <3>2
  <2> QED BY <2>1, <2>4, <2>5 DEF s, a
<1>3. CASE s = Append(tmp, a)
  <2>1. /\ s \in Seq(Int) /\ Len(s) = Len(tmp) + 1 /\ s[Len(tmp) + 1] = a
        /\ \A k \in 1 .. Len(tmp) : s[k] = tmp[k]
    BY <1>1, <1>3
  <2> HIDE DEF s
  <2>2. ASSUME NEW k \in 1 .. Len(s), k # Len(tmp) + 1 PROVE k \in 1 .. Len(tmp)
    BY <2>1, <2>2
  <2>3. \A k \in 1 .. Len(tmp) : k \in 1 .. Len(s)
    BY <2>1
  <2>4. Len(tmp) + 1 \in 1 .. Len(s) /\ s # <<>>
    BY <2>1
  <2>5. ASSUME NEW x PROVE (\E k \in 1 .. Len(s) : s[k] = x)
                             <=> x = a \/ \E k \in 1 .. Len(tmp) : tmp[k] = x
    BY <2>1, <2>2, <2>3, <2>4
  <2> QED BY <2>1, <2>4, <2>5 DEF s, a
<1>4. s = <<a>> \o tmp \/ s = Append(tmp, a)
  BY SMT DEF insertIP, a
<1> QED BY ONLY <1>2, <1>3, <1>4

(* The list has an address; an entry of the device gives it. *)
Listed(list, x) == \E k \in 1 .. Len(list) : list[k] = x

Given(entries, device, x) ==
    \E i \in 1 .. Len(entries) : OfDevice(entries[i], device) /\ sinAddr(entries[i]) = x

LEMMA ListOf ==
    ASSUME NEW entries \in Seq(Entries), NEW device, NEW list, list = initList(entries, device)
    PROVE  /\ list \in Seq(Int)
           /\ \A x : Listed(list, x) <=> Given(entries, device, x)
<1> DEFINE n == Len(entries)
           t == CHOOSE u : IsLoop(u, entries, device, n)
           Has(j, x) == \E i \in 1 .. j : OfDevice(entries[i], device) /\ sinAddr(entries[i]) = x
           Good(j) == /\ t[j] \in Seq(Int)
                      /\ \A x : (\E k \in 1 .. Len(t[j]) : t[j][k] = x) <=> Has(j, x)
           Bad == {j \in Nat : j <= n /\ ~Good(j)}
<1>1. n \in Nat
  OBVIOUS
<1>2. IsLoop(t, entries, device, n)
  BY <1>1, LoopExists
<1>3. list = t[n]
  BY DEF initList, IsLoop, Step
<1> HIDE DEF t
<1>4. \A j \in 0 .. n : t[j] = IF j = 0 THEN <<>> ELSE Step(t[j - 1], entries[j], device)
  BY <1>2 DEF IsLoop
<1>5. ASSUME Bad # {} PROVE FALSE
  <2>1. PICK j \in Bad : \A k \in Bad : j <= k
    <3>1. Bad \subseteq Nat
      OBVIOUS
    <3> HIDE DEF Bad
    <3> QED BY <1>5, <3>1, LeastNumber
  <2>2. j \in Nat /\ j <= n /\ ~Good(j)
    BY <2>1
  <2>3. j # 0
    <3>1. t[0] = <<>>
      BY <1>1, <1>4
    <3>2. Good(0)
      BY <3>1
    <3> QED BY <2>2, <3>2
  <2>4. j - 1 \in Nat /\ j - 1 <= n /\ j \in 1 .. n /\ j \in 0 .. n
    BY <1>1, <2>2, <2>3
  <2>5. Good(j - 1)
    <3>1. j - 1 \notin Bad
      <4> HIDE DEF Bad
      <4> QED BY <2>1, <2>2, <2>4
    <3> HIDE DEF Good, n
    <3> QED BY <2>4, <3>1
  <2>6. entries[j] \in Entries
    BY <2>4
  <2>7. \A i : i \in 1 .. j <=> i = j \/ i \in 1 .. j - 1
    BY <2>4
  <2> DEFINE e == entries[j]
             r == t[j - 1]
  <2>8. ASSUME NEW x PROVE Has(j, x) <=> (OfDevice(e, device) /\ sinAddr(e) = x) \/ Has(j - 1, x)
    BY <2>7
  <2>9. t[j] = IF OfDevice(e, device) THEN insertIP(r, e) ELSE r
    BY <1>4, <2>3, <2>4 DEF Step
  <2>10. r \in Seq(Int) /\ \A x : (\E k \in 1 .. Len(r) : r[k] = x) <=> Has(j - 1, x)
    BY <2>5
  <2> HIDE DEF Has, e, r, Bad
  <2>11. CASE OfDevice(e, device)
    <3>1. e \in Entries
      BY <2>6 DEF e
    <3>2. /\ insertIP(r, e) \in Seq(Int)
          /\ \A x : (\E k \in 1 .. Len(insertIP(r, e)) : insertIP(r, e)[k] = x)
                      <=> x = sinAddr(e) \/ \E k \in 1 .. Len(r) : r[k] = x
      BY <2>10, <3>1, InsertOne
    <3>3. t[j] = insertIP(r, e)
      BY <2>9, <2>11
    <3>4. Good(j)
      BY <2>8, <2>10, <2>11, <3>2, <3>3
    <3> QED BY <2>2, <3>4
  <2>12. CASE ~OfDevice(e, device)
    <3>1. t[j] = r
      BY <2>9, <2>12
    <3>2. Good(j)
      BY <2>8, <2>10, <2>12, <3>1
    <3> QED BY <2>2, <3>2
  <2> QED BY <2>11, <2>12
<1>6. Good(n)
  <2>1. Bad = {}
    BY <1>5
  <2>2. n \in Nat /\ n <= n
    BY <1>1
  <2> HIDE DEF Good, n
  <2> QED BY <2>1, <2>2
<1> QED BY <1>3, <1>6 DEF Listed, Given

(* The list is made at start and never changes. *)
ListPart == ifaddrs \in InterfaceLists /\ mIPList = initList(ifaddrs, Device)

LEMMA AlwaysList == PRSpec => []ListPart
<1>1. PRInit => ListPart
  BY DEF PRInit, ListPart
<1>2. [PRNext]_prVars => UNCHANGED <<ifaddrs, mIPList>>
  BY DEF PRNext, prVars, siState, Kernel, CloseSocket, OpenSocket, SocketIndexStep, SIStep,
         ReadTable, Booted, FindAgain, ClearFailures, Get, DiscardFrame, ReadProcess, Resolve,
         NoSocket, AnswerKnown, BeginSearch, GiveUpSearch, Constructed, AddTraffic, ForgetMissing
<1>3. ListPart /\ UNCHANGED <<ifaddrs, mIPList>> => ListPart'
  BY DEF ListPart
<1> QED BY <1>1, <1>2, <1>3, PTL DEF PRSpec

(* What the list is taken to contain: the device's addresses, and the values   *)
(* of the other entries.                                                       *)
LEMMA ListContains ==
    ASSUME ListPart, NEW ip
    PROVE  containsIP(mIPList, ip) <=> ip \in Addresses \cup NoAddresses
<1> DEFINE Used == {sinAddr(e) : e \in DeviceEntries}
<1>1. ifaddrs \in Seq(Entries)
  BY InterfacesAssumption DEF ListPart, Entries
<1>2. /\ mIPList \in Seq(Int)
      /\ \A x : (\E k \in 1 .. Len(mIPList) : mIPList[k] = x)
                  <=> \E i \in 1 .. Len(ifaddrs) :
                         OfDevice(ifaddrs[i], Device) /\ sinAddr(ifaddrs[i]) = x
  <2>1. mIPList = initList(ifaddrs, Device)
    BY DEF ListPart
  <2>2. mIPList \in Seq(Int)
    BY ONLY <1>1, <2>1, ListOf, Zenon
  <2>3. \A x : Listed(mIPList, x) <=> Given(ifaddrs, Device, x)
    BY ONLY <1>1, <2>1, ListOf, Zenon
  <2> QED BY <2>2, <2>3 DEF Listed, Given
<1>3. DeviceEntries = {e \in {ifaddrs[i] : i \in 1 .. Len(ifaddrs)} : OfDevice(e, Device)}
  BY <1>1 DEF DeviceEntries, ToSet, OfDevice
<1>4. ASSUME NEW x PROVE (\E k \in 1 .. Len(mIPList) : mIPList[k] = x) <=> x \in Used
  BY <1>2, <1>3
<1>5. DeviceEntries = {} <=> mIPList = <<>>
  <2>1. CASE DeviceEntries = {}
    <3>1. ~\E k \in 1 .. Len(mIPList) : mIPList[k] = mIPList[1]
      BY <1>4, <2>1
    <3>2. Len(mIPList) = 0
      BY <1>2, <3>1
    <3> QED BY <1>2, <2>1, <3>2
  <2>2. CASE DeviceEntries # {}
    <3>1. PICK x : x \in Used
      BY <2>2
    <3>2. PICK k \in 1 .. Len(mIPList) : mIPList[k] = x
      BY <1>4, <3>1
    <3>3. mIPList # <<>>
      BY <3>2
    <3> QED BY <2>2, <3>3
  <2> QED BY <2>1, <2>2
<1>6. Used \cup (IF DeviceEntries = {} THEN {0} ELSE {}) = Addresses \cup NoAddresses
  <2>1. \A e : e.family = "inet" => sinAddr(e) = e.value
    BY DEF sinAddr
  <2>2. Used = Addresses \cup {sinAddr(e) : e \in {d \in DeviceEntries : d.family # "inet"}}
    BY <2>1 DEF Addresses
  <2> QED BY <2>2 DEF NoAddresses
<1> HIDE DEF Used
<1>7. CASE mIPList = <<>>
  <2>1. DeviceEntries = {} /\ Len(mIPList) = 0
    BY <1>5, <1>7
  <2>2. \A x : x \notin Used
    BY <1>4, <2>1
  <2>3. containsIP(mIPList, ip) <=> ip = 0
    BY <1>7, <2>1 DEF containsIP
  <2> QED BY <1>6, <2>1, <2>2, <2>3
<1>8. CASE mIPList # <<>>
  <2>1. DeviceEntries # {} /\ Len(mIPList) \in Nat /\ Len(mIPList) # 0
    BY <1>2, <1>5, <1>8
  <2>2. \A k : k \in 1 .. Len(mIPList) <=> k = 1 \/ k \in 2 .. Len(mIPList)
    BY <2>1
  <2>3. containsIP(mIPList, ip) <=> \E k \in 1 .. Len(mIPList) : mIPList[k] = ip
    BY <1>8, <2>2 DEF containsIP
  <2> QED BY <1>4, <1>6, <2>1, <2>3
<1> QED BY <1>7, <1>8

(* For any interfaces, device and frames: a frame's direction is what the      *)
(* device's addresses say, except for frames to or from something that IPList  *)
(* mistakes for an address.  IPList.cpp:14-70, Packet.cpp:35-44.               *)
THEOREM DirectionKnown == PRSpec => []DirectionRight
<1>1. ASSUME ListPart PROVE DirectionRight
  <2> SUFFICES ASSUME NEW f \in Frames, {f.sip, f.dip} \cap (NoAddresses \ Addresses) = {}
               PROVE  Direction(f, mIPList) = IF f.sip \in Addresses THEN "Outgoing"
                                ELSE IF f.dip \in Addresses THEN "Incoming" ELSE "Unknown"
    BY DEF DirectionRight
  <2>1. /\ containsIP(mIPList, f.sip) <=> f.sip \in Addresses \cup NoAddresses
        /\ containsIP(mIPList, f.dip) <=> f.dip \in Addresses \cup NoAddresses
    BY <1>1, ListContains
  <2>2. /\ containsIP(mIPList, f.sip) <=> f.sip \in Addresses
        /\ containsIP(mIPList, f.dip) <=> f.dip \in Addresses
    BY <2>1
  <2> QED BY <2>2 DEF Direction
<1> QED BY <1>1, AlwaysList, PTL

=============================================================================
