---------------------------- MODULE PacketLayers ----------------------------
(***************************************************************************)
(* What the program reads in the headers of a frame (include/Packets and   *)
(* src/Packets): which processors accept it, which one the tree of main    *)
(* and PacketRouter::route give it to, how long each layer takes it to be, *)
(* and the hashes that spread packets over workers.                        *)
(*                                                                         *)
(* A frame is the record of the fields that are read.  An address is a     *)
(* number: of a MAC address, which only the hash reads, the sum of its     *)
(* bytes.  A length is in bytes; headers have their fixed C sizes.         *)
(***************************************************************************)
EXTENDS Integers, Sequences

CONSTANTS SizeMod,   \* 2^w for a size_t of w bits
          AddrMod    \* 2^32, the range of an IPv4 address

ASSUME LayersAssumption ==
  /\ SizeMod \in Nat /\ SizeMod > 131071
  /\ AddrMod \in Nat \ {0}

ETHERTYPE_IP == 2048

(* isDispatchableTypeImpl of each layer.                                   *)
IsIP(f) == f.ether = ETHERTYPE_IP
IsUDP(f) == IsIP(f) /\ f.proto = 17
IsTCP(f) == IsIP(f) /\ f.proto = 6
IsRADIUS(f) == IsUDP(f) /\ (f.dport \in {1812, 1813} \/ f.sport \in {1812, 1813})

(* canBeDispatcheredImpl of the processors: those that accept the frame.   *)
Takers(f) ==
  {l \in {"RADIUS", "UDP", "TCP"} :
     \/ l = "RADIUS" /\ IsRADIUS(f)
     \/ l = "UDP" /\ IsUDP(f)
     \/ l = "TCP" /\ IsTCP(f)}
-----------------------------------------------------------------------------
(* Children are asked in order until one accepts; 0 when none does.        *)
LastIn(s, S) ==
  LET hits == {i \in DOMAIN s : s[i] \in S} IN
  IF hits = {} THEN 0 ELSE CHOOSE i \in hits : \A j \in hits : j <= i
FirstIn(s, S) ==
  LET hits == {i \in DOMAIN s : s[i] \in S} IN
  IF hits = {} THEN 0 ELSE CHOOSE i \in hits : \A j \in hits : i <= j

(* The tree of main: a node for UDP with two leaves, and the TCP leaf.     *)
RootKids == <<"UDPNode", "TCP">>
NodeKids == <<"RADIUS", "UDP">>

(* canBeDispatchered of the node: its own test, then its children.         *)
NodeIndex(f) == IF IsUDP(f) THEN FirstIn(NodeKids, Takers(f)) ELSE 0

(* canBeDispatchered of the root, once its own test has answered yes.      *)
RootIndex(f) ==
  FirstIn(RootKids, Takers(f) \cup {k \in {"UDPNode"} : NodeIndex(f) # 0})

(* PacketRouter::route asks the processors in the order of its arguments.  *)
RouterKids == <<"RADIUS", "UDP", "TCP">>
RouterIndex(f) == FirstIn(RouterKids, Takers(f))
-----------------------------------------------------------------------------
(* getPacketSizeImpl: each layer takes the header of the one below off the *)
(* size of that, unsigned.                                                 *)
ETHHeader == 14
IPHeader == 20
UDPHeader == 8
RADIUSHeader == 20

IPSize(f) == (f.captured - ETHHeader) % SizeMod
UDPSize(f) == (IPSize(f) - IPHeader) % SizeMod
SignedSize(f) == f.captured - ETHHeader - IPHeader - UDPHeader
RADIUSSize(f) == (UDPSize(f) - UDPHeader) % SizeMod

(* getPacketSpecificHashImpl: 16-bit fields are added as they lie in the   *)
(* header, in network order.                                               *)
Raw(n) == (n % 256) * 256 + n \div 256

SourceHash(f) == (f.shost + Raw(f.ether)) % SizeMod
ETHHash(f) == (f.shost + f.dhost + Raw(f.ether)) % SizeMod
IPHash(f) == (f.saddr + f.daddr) % AddrMod
UDPHash(f) == (IPHash(f) + Raw(f.dport) + Raw(f.sport)) % SizeMod
TCPHash(f) == (IPHash(f) + Raw(f.dport) + Raw(f.sport)) % SizeMod
RADIUSHash(f) == (UDPHash(f) + f.ident) % SizeMod

(* The worker of n that onDispatchImpl chooses, by the hash of the frame   *)
(* as the ETHPacket it was received as.                                    *)
WorkerId(f, n) == ETHHash(f) % n

(* The headers of an answer on the same link.                              *)
Reply(f) ==
  [f EXCEPT !.shost = f.dhost, !.dhost = f.shost, !.saddr = f.daddr,
            !.daddr = f.saddr, !.sport = f.dport, !.dport = f.sport]
=============================================================================
