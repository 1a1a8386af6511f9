------------------------- MODULE MCProcessResolver -------------------------
(* Two inodes, two processes, and five kinds of socket: a TCP connection, one  *)
(* mapped into IPv6, a UDP socket, an IPv6 UDP socket with the same port for   *)
(* both families, and a TCP listener on that port, for both families as well.  *)
EXTENDS ProcessResolver

V4(ip)     == [kind |-> "v4", ip |-> ip]
Mapped(ip) == [kind |-> "mapped", ip |-> ip]
Any6       == [kind |-> "low6", ip |-> 0]

Here  == 50000
There == 60000

MCSockets ==
    {[table |-> "tcp", local |-> V4(Here), lport |-> 40, remote |-> V4(There), rport |-> 80],
     [table |-> "tcp6", local |-> Mapped(Here), lport |-> 41, remote |-> Mapped(There), rport |-> 80],
     [table |-> "udp", local |-> V4(0), lport |-> 40, remote |-> V4(0), rport |-> 0],
     [table |-> "udp6", local |-> Any6, lport |-> 40, remote |-> Any6, rport |-> 0],
     [table |-> "tcp6", local |-> Any6, lport |-> 40, remote |-> Any6, rport |-> 0]}

Frame(ether, protocol, sip, sport, dip, dport) ==
    [ether |-> ether, protocol |-> protocol, sip |-> sip, sport |-> sport,
     dip |-> dip, dport |-> dport]

(* Packets of the sockets, and what is not for anyone: DNS, NTP, ICMP, a   *)
(* frame between other machines, another protocol, and an ARP frame.            *)
MCFrames ==
    {Frame("ip", "tcp", Here, 40, There, 80),
     Frame("ip", "tcp", There, 80, Here, 40),
     Frame("ip", "tcp", There, 80, Here, 41),
     Frame("ip", "udp", There, 41, Here, 40),
     Frame("ip", "udp", Here, 41, There, 53),
     Frame("ip", "udp", Here, 123, There, 123),
     Frame("ip", "udp", Here, 41, There, 1900),
     Frame("ip", "icmp", Here, 0, There, 0),
     Frame("ip", "tcp", There, 80, There, 40),
     Frame("ip", "gre", There, 0, 7, 0),
     Frame("arp", "none", Here, 0, There, 0)}

MCProcessOf == 11 :> 1 @@ 12 :> 2

Entry(name, family, value) == [name |-> name, family |-> family, value |-> value]

MCInterfaceLists ==
    {<<Entry("eth0", "packet", 2), Entry("lo", "inet", 45000), Entry("eth0", "inet", 7),
       Entry("eth0", "none", 0), Entry("eth0", "inet6", 0), Entry("eth0", "inet", Here)>>,
     <<Entry("lo", "inet", Here)>>}

=============================================================================
