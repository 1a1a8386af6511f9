--------------------------- MODULE ProcessResolver --------------------------
(***************************************************************************)
(* The callback of the sniffer (net/SnifferLoop.cpp) and the resolver      *)
(* (proc/ProcessResolver.cpp): a captured frame becomes a packet, the      *)
(* socket index gives the inode of its socket, the process index the       *)
(* process of that inode, and the packet is added to the process's         *)
(* traffic.  Of the process index only its promise is used, ProcessLookup. *)
(***************************************************************************)
EXTENDS SocketIndex

CONSTANTS
    InterfaceLists,  \* what getifaddrs may return
    Device           \* the name of the sniffed device

(* IPList has room for 64 addresses, which bounds the entries of the device. *)
ASSUME InterfacesAssumption ==
    \A l \in InterfaceLists :
        /\ l \in Seq([name : STRING, family : {"none", "inet", "inet6", "packet"},
                     value : 0 .. AllOnes])
        /\ Cardinality({k \in DOMAIN l : OfDevice(l[k], Device)}) <= 64

VARIABLES
    ifaddrs,    \* what getifaddrs returned at start
    known, missing, lookup    \* the process index, see ProcessLookup

processIndex == <<known, missing, lookup>>
prVars       == <<siState, call, ifaddrs, processIndex>>

(* The descriptor of an open socket is in the directory of its process. *)
Owns == [p \in Pids |-> {i \in open : ProcessOf[i] = p}]

PI == INSTANCE ProcessLookup WITH owns <- Owns

PRInit ==
    /\ ifaddrs \in InterfaceLists
    /\ mIPList = initList(ifaddrs, Device)
    /\ SIInit
    /\ PI!PLInit

(* A step of the kernel or of the socket index. *)
Kernel ==
    /\ \E i \in Inodes : CloseSocket(i) \/ \E s \in Sockets : OpenSocket(i, s)
    /\ PI!Change
    /\ UNCHANGED ifaddrs

SocketIndexStep(A) == A /\ UNCHANGED <<ifaddrs, processIndex>>

-----------------------------------------------------------------------------
(* resolve *)

InResolve == call.pc = "resolve" /\ call.inode # 0

Answer(p) == call' = [call EXCEPT !.pc = "done", !.result = p]

(* get of the process index is not called without an inode. *)
NoSocket ==
    /\ call.pc = "resolve"
    /\ call.inode = 0
    /\ Answer(0)
    /\ UNCHANGED <<siState, ifaddrs, processIndex>>

(* get of the process index answers from what it knows. *)
AnswerKnown ==
    /\ InResolve
    /\ \/ call.inode \in missing /\ Answer(0)
       \/ /\ call.inode \notin missing
          /\ call.inode \in DOMAIN known
          /\ Answer(known[call.inode])
    /\ UNCHANGED <<siState, ifaddrs, processIndex>>

(* Or it searches, and reads process directories, until it is there or gives up. *)
BeginSearch ==
    /\ InResolve
    /\ UNCHANGED siState
    /\ PI!Ask(call.inode)
    /\ call' = [call EXCEPT !.pc = "search"]
    /\ UNCHANGED ifaddrs

ReadProcess(p) ==
    /\ call.pc \in {"learn", "search"}
    /\ UNCHANGED siState
    /\ PI!Learn(p)
    /\ IF call.pc = "search" /\ call.inode \in Owns[p] THEN Answer(p) ELSE UNCHANGED call
    /\ UNCHANGED ifaddrs

GiveUpSearch ==
    /\ call.pc = "search"
    /\ UNCHANGED siState
    /\ PI!Miss
    /\ Answer(0)
    /\ UNCHANGED ifaddrs

(* The constructor of the process index has read all directories. *)
Constructed ==
    /\ call.pc = "learn"
    /\ call' = Idle
    /\ UNCHANGED <<siState, ifaddrs, processIndex>>

(* TrafficStorage::add: see there.  The callback returns. *)
AddTraffic ==
    /\ call.pc = "done"
    /\ call' = Idle
    /\ UNCHANGED <<siState, ifaddrs, processIndex>>

(* The clearing thread of the process index. *)
ForgetMissing ==
    /\ missing # {}
    /\ UNCHANGED <<siState, call, ifaddrs>>
    /\ PI!Forget

Resolve ==
    NoSocket \/ AnswerKnown \/ BeginSearch \/ GiveUpSearch \/ Constructed \/ AddTraffic

PRNext ==
    \/ Kernel
    \/ SocketIndexStep(SIStep)
    \/ SocketIndexStep(ClearFailures)
    \/ \E f \in Frames : SocketIndexStep(Get(f) \/ DiscardFrame(f))
    \/ \E p \in Pids : ReadProcess(p)
    \/ Resolve
    \/ ForgetMissing

PRSpec == PRInit /\ [][PRNext]_prVars

(* A packet of an open socket is captured. *)
PacketOf(i) ==
    /\ i \in open
    /\ \E f \in Frames : BelongsTo(ToPacket(f, mIPList), born[i]) /\ Get(f)

(* The sniffer's thread goes on, and a search ends at the process it looks for *)
(* if that one is there; the clearing threads get their locks between two      *)
(* lookups; and packets of an open socket keep coming.                         *)
PRFairSpec ==
    /\ PRSpec
    /\ WF_prVars(SocketIndexStep(SIStep))
    /\ WF_prVars(Resolve)
    /\ \A p \in Pids : WF_prVars(call.inode \in Owns[p] /\ ReadProcess(p))
    /\ SF_prVars(SocketIndexStep(ClearFailures))
    /\ SF_prVars(ForgetMissing)
    /\ \A i \in Inodes : SF_prVars(SocketIndexStep(PacketOf(i)))

-----------------------------------------------------------------------------
(* Reference: the addresses of the device, and what IPList takes for addresses *)
(* although it is none (IPv6 and link-level entries, the empty list's slot).   *)
DeviceEntries == {e \in ToSet(ifaddrs) : e.name = Device /\ e.family # "none"}
Addresses     == {e.value : e \in {d \in DeviceEntries : d.family = "inet"}}
NoAddresses   == {sinAddr(e) : e \in {d \in DeviceEntries : d.family # "inet"}}
                   \cup (IF DeviceEntries = {} THEN {0} ELSE {})

(* A frame is outgoing if the device's own address sent it, incoming if it is  *)
(* for such an address and from elsewhere, and otherwise not looked at. Frames *)
(* to or from something IPList mistakes for an address are excepted            *)
(* (IPList.cpp:36, 59; Packet.cpp:35-44).                                      *)
DirectionRight ==
    \A f \in Frames : {f.sip, f.dip} \cap (NoAddresses \ Addresses) = {} =>
        Direction(f, mIPList) = IF f.sip \in Addresses THEN "Outgoing"
                                ELSE IF f.dip \in Addresses THEN "Incoming" ELSE "Unknown"

(* A packet's bytes go to a process that has, or had, a socket the packet      *)
(* belongs to, or to the unknown process; never to a bystander.  A UDP packet  *)
(* whose port number another kind of socket has is the exception               *)
(* (SocketIndex.cpp:81-87, PacketHash.cpp:14-31, ProcessResolver.cpp:13-29).   *)
RightOrUnknown ==
    call.pc = "done" /\ call.result # 0 =>
        \E i \in DOMAIN born :
            /\ ProcessOf[i] = call.result
            /\ BelongsTo(call.pkt, born[i]) \/ PortClash(call.pkt, born[i])

(* The socket is in a table that is read, and nobody else ever had one with     *)
(* this hash there.                                                             *)
Sole(i) ==
    \A j \in DOMAIN born :
        born[j].table \in TablesRead /\ SocketHash(born[j]) = SocketHash(born[i]) <=> j = i

(* A socket that stays open and whose hash was never used before gets its      *)
(* packets credited to its process in the end, even if packets came before it  *)
(* was in the table and were put on the list of failures; unless it is in udp6, *)
(* which is not read (SocketIndex.cpp:22-29, 99-103, 122-125).                  *)
CreditedInTheEnd ==
    \A i \in Inodes :
        <>[](i \in open /\ Sole(i)
               /\ \E f \in Frames : ~Discard(f, mIPList)
                                      /\ BelongsTo(ToPacket(f, mIPList), born[i]))
          => <>(/\ call.pc = "done" /\ i \in open
                /\ BelongsTo(call.pkt, born[i]) /\ call.result = ProcessOf[i])

=============================================================================
