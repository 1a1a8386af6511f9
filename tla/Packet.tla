------------------------------- MODULE Packet -------------------------------
(***************************************************************************)
(* From a captured frame to a packet hash, and from a line of a socket     *)
(* table to the same kind of hash (net/IPList.cpp, net/Packet.cpp,         *)
(* net/PacketHash.cpp, and the parsing part of proc/SocketIndex.cpp).      *)
(*                                                                         *)
(* An IPv4 address is a number from 0 (the wildcard) to AllOnes.  A frame  *)
(* is a record [ether, sip, dip, protocol, sport, dport]; lengths and      *)
(* timestamps go with it unchanged.                                        *)
(***************************************************************************)
EXTENDS Integers, SequencesExt

CONSTANT AllOnes    \* 255.255.255.255

ASSUME PacketAssumption == AllOnes \in Nat \ {0}

-----------------------------------------------------------------------------
(* IPList.  An entry of getifaddrs is [name, family, value]; its address is    *)
(* read as an IPv4 one whatever its family is.  Where the address would be, an *)
(* IPv6 entry has its flow label, 0, and a packet entry the interface index.   *)
sinAddr(e) == IF e.family = "inet6" THEN 0 ELSE e.value

OfDevice(e, device) == e.family # "none" /\ e.name = device

(* Addresses from 43200 on go to the front. *)
insertIP(tmp, e) == IF sinAddr(e) >= 43200 THEN <<sinAddr(e)>> \o tmp
                                           ELSE Append(tmp, sinAddr(e))

(* The loop over the entries. *)
initList(entries, device) ==
    LET tmp[k \in 0 .. Len(entries)] ==
          IF k = 0 THEN <<>>
          ELSE IF OfDevice(entries[k], device) THEN insertIP(tmp[k - 1], entries[k])
          ELSE tmp[k - 1]
    IN  tmp[Len(entries)]

containsFirst(list, ip) == list # <<>> /\ list[1] = ip    \* mutant: no loop

(* The first of the 64 slots is compared even when the list is empty: then it *)
(* holds 0.                                                                   *)
containsIP(list, ip) ==
    \/ ip = IF list = <<>> THEN 0 ELSE list[1]
    \/ \E k \in 2 .. Len(list) : list[k] = ip

-----------------------------------------------------------------------------
(* Packet::Packet *)

(* The tests on the ports follow each other; the last one that holds counts. *)
udpType(sport, dport) ==
    CASE sport = 123 /\ dport = 123 -> "NTP"
      [] ~(sport = 123 /\ dport = 123) /\ 1900 \in {sport, dport} -> "SSDP"
      [] ~(sport = 123 /\ dport = 123) /\ 1900 \notin {sport, dport}
           /\ (53 \in {sport, dport} \/ (sport = 5353 /\ dport = 5353)) -> "DNS"
      [] OTHER -> "UDP"

PacketType(f) ==
    CASE f.protocol = "udp"  -> udpType(f.sport, f.dport)
      [] f.protocol = "tcp"  -> "TCP"
      [] f.protocol = "icmp" -> "ICMP"
      [] OTHER               -> "Unknown"

Direction(f, list) ==
    CASE containsIP(list, f.sip) -> "Outgoing"
      [] ~containsIP(list, f.sip) /\ containsIP(list, f.dip) -> "Incoming"
      [] OTHER -> "Unknown"

Discard(f, list) ==
    \/ f.ether # "ip"
    \/ Direction(f, list) = "Unknown"
    \/ PacketType(f) \notin {"TCP", "UDP", "ICMP"}

(* ICMP has no ports. *)
ToPacket(f, list) ==
    [type |-> PacketType(f), direction |-> Direction(f, list), sip |-> f.sip, dip |-> f.dip,
     sport |-> IF f.protocol = "icmp" THEN 0 ELSE f.sport,
     dport |-> IF f.protocol = "icmp" THEN 0 ELSE f.dport]

-----------------------------------------------------------------------------
(* PacketHash *)

HashOf(localip, localport, remoteip, remoteport) ==
    [ip1 |-> localip, port1 |-> localport, ip2 |-> remoteip, port2 |-> remoteport]

UdpHash(localport) == HashOf(0, localport, 0, 0)

HashPortOnly(pkt) ==    \* mutant: the return is not under the test for UDP
    UdpHash(IF pkt.direction = "Outgoing" THEN pkt.sport ELSE pkt.dport)

(* The local end first, as in the tables of /proc/net; of UDP only the port. *)
PacketHash(pkt) ==
    CASE pkt.direction = "Outgoing" /\ pkt.type = "UDP" -> UdpHash(pkt.sport)
      [] pkt.direction = "Outgoing" /\ pkt.type # "UDP" ->
           HashOf(pkt.sip, pkt.sport, pkt.dip, pkt.dport)
      [] pkt.direction # "Outgoing" /\ pkt.type = "UDP" -> UdpHash(pkt.dport)
      [] OTHER -> HashOf(pkt.dip, pkt.dport, pkt.sip, pkt.sport)

(* An address of a socket table is [kind, ip]: an IPv4 address ("v4"), one      *)
(* mapped into IPv6 ("mapped"), or an IPv6 address, ip being its last word.      *)
(* sscanf keeps the low 32 bits of a number that fits into 64 bits, as a mapped  *)
(* address, :: and ::1 do ("low6"), and otherwise all bits are set ("v6").       *)
unpackIP(address) == IF address.kind = "v6" THEN AllOnes ELSE address.ip

(* A socket is [table, local, lport, remote, rport]. *)
SocketHash(s) ==
    IF s.table = "udp"
    THEN UdpHash(s.lport)
    ELSE HashOf(unpackIP(s.local), s.lport, unpackIP(s.remote), s.rport)

-----------------------------------------------------------------------------
(* Reference: whose packet is it?  A TCP packet belongs to the connection with *)
(* its four values, a UDP packet to a socket bound to its local port, as far   *)
(* as that is not bound or connected to other addresses.  An IPv6 socket bound *)
(* to :: gets IPv4 packets too.                                                *)

LocalEnd(pkt)  == IF pkt.direction = "Outgoing" THEN <<pkt.sip, pkt.sport>>
                                                ELSE <<pkt.dip, pkt.dport>>
RemoteEnd(pkt) == IF pkt.direction = "Outgoing" THEN <<pkt.dip, pkt.dport>>
                                                ELSE <<pkt.sip, pkt.sport>>

IsV4(address) == address.kind \in {"v4", "mapped"}
IsAny(address) == address.kind # "v6" /\ address.ip = 0

BelongsTo(pkt, s) ==
    \/ /\ pkt.type = "TCP" /\ s.table \in {"tcp", "tcp6"}
       /\ IsV4(s.local) /\ IsV4(s.remote)
       /\ LocalEnd(pkt) = <<s.local.ip, s.lport>>
       /\ RemoteEnd(pkt) = <<s.remote.ip, s.rport>>
    \/ /\ pkt.type = "UDP" /\ s.table \in {"udp", "udp6"}
       /\ LocalEnd(pkt)[2] = s.lport
       /\ IsAny(s.local) \/ (IsV4(s.local) /\ LocalEnd(pkt)[1] = s.local.ip)
       /\ IsAny(s.remote) \/ (IsV4(s.remote) /\ RemoteEnd(pkt) = <<s.remote.ip, s.rport>>)

(* The ways in which a packet and a socket that have nothing to do with each    *)
(* other get one hash: a UDP packet, and a UDP socket with its port on another  *)
(* address, or a TCP or raw socket without any address, that is a listener, with *)
(* the same port number.                                                         *)
PortClash(pkt, s) ==
    /\ pkt.type = "UDP" /\ LocalEnd(pkt)[2] = s.lport
    /\ \/ s.table = "udp"
       \/ unpackIP(s.local) = 0 /\ unpackIP(s.remote) = 0 /\ s.rport = 0

=============================================================================
