---------------------------- MODULE FrameDecoding ----------------------------
(***************************************************************************)
(* One frame on its way from the main loop into the queue of a worker: the *)
(* decision of the tree (NEW WAY) or of PacketRouter (OLD WAY), the packet *)
(* that is constructed of it, and the attributes that the constructor of   *)
(* RADIUSPacket reads.  NIC and PacketProcessor know a frame by the leaf   *)
(* that takes it and by whether it is `whole'; here is what decides that.  *)
(*                                                                         *)
(* The root's own test is taken to answer yes, as it would if it answered. *)
(***************************************************************************)
EXTENDS PacketLayers, FiniteSets

CONSTANTS Wire,       \* what a buffer can hold: headers, the RADIUS length
                      \* field, what lies behind the RADIUS header, and how
                      \* much of all this was captured
          MaxPacket,  \* MAX_PACKET_SIZE, the size of the buffer
          Workers     \* bound: instances of one processor

ASSUME BufferAssumption ==
  /\ MaxPacket \in Nat /\ MaxPacket <= 65535
  /\ MaxPacket >= ETHHeader + IPHeader + UDPHeader + RADIUSHeader

(* The end of the buffer, as an offset into the RADIUS packet.             *)
BufferEnd == MaxPacket - ETHHeader - IPHeader - UDPHeader

(* A well-formed attribute is its type, its length, type and length        *)
(* included, and its value.                                                *)
Uint8 == 0..255
Attributes == [type : Uint8, value : {v \in Seq(Uint8) : Len(v) <= 253}]
Encoded(a) == <<a.type, Len(a.value) + 2>> \o a.value

(* <<i, k>> stands for byte k of attribute i.  The attributes lie one      *)
(* behind the other: one begins behind the bytes of those before it.       *)
Laid(s, n) == UNION {{i} \X (1..Len(s[i].value) + 2) : i \in 1..n}
Behind(s, n) == RADIUSHeader + Cardinality(Laid(s, n))

(* Whatever the buffer holds behind the RADIUS header, received now or     *)
(* left there by an earlier frame, is some number of well-formed           *)
(* attributes and a rest that does not begin with one: too short, with a   *)
(* length byte that does not count itself, or longer than the buffer.      *)
Unparsable(r) == Len(r) < 2 \/ r[2] < 2 \/ r[2] > Len(r)

Uint16 == {n \in Nat : n <= 65535}
BufferFill == 0..MaxPacket

WireFrames ==
  [ether : Nat, proto : Nat, shost : Nat, dhost : Nat, saddr : Nat,
   daddr : Nat, sport : Nat, dport : Nat, ident : Nat, length : Uint16,
   attrs : Seq(Attributes), rest : Seq(Uint8), captured : BufferFill]

ASSUME DecodingAssumption ==
  /\ Wire \subseteq WireFrames
  /\ \A f \in Wire : /\ Behind(f.attrs, Len(f.attrs)) + Len(f.rest) = BufferEnd
                     /\ Unparsable(f.rest)
  /\ Workers \in Nat \ {0}

VARIABLES frame,    \* the frame in the buffer of packetPtr
          asserts,  \* the build has assertions
          way,      \* "tree" or "router"
          at,       \* where the frame is
          leaf,     \* the processor it was given to
          size,     \* `size' of the constructor
          offset,   \* `dataOffset'
          avps      \* m_avps

decodingVars == <<frame, asserts, way, at, leaf, size, offset, avps>>

Init ==
  /\ frame \in Wire
  /\ asserts \in BOOLEAN
  /\ way \in {"tree", "router"}
  /\ at = "main"
  /\ leaf = "none"
  /\ size = 0
  /\ offset = 0
  /\ avps = <<>>
-----------------------------------------------------------------------------
Give(l) == leaf' = l /\ at' = "create"
Drop == at' = "dropped" /\ UNCHANGED leaf

(* The main loop: canBeDispatchered of the root, then dispatchByIndex.     *)
RootDispatch ==
  /\ at = "main" /\ way = "tree"
  /\ LET i == RootIndex(frame) IN
     \/ i = 0 /\ Drop
     \/ i # 0 /\ RootKids[i] = "UDPNode" /\ at' = "node" /\ UNCHANGED leaf
     \/ i # 0 /\ RootKids[i] # "UDPNode" /\ Give(RootKids[i])
  /\ UNCHANGED <<frame, asserts, way, size, offset, avps>>

(* dispatch of the node decides again; nobody looks at a refusal.          *)
NodeDispatch ==
  /\ at = "node"
  /\ LET i == NodeIndex(frame) IN IF i = 0 THEN Drop ELSE Give(NodeKids[i])
  /\ UNCHANGED <<frame, asserts, way, size, offset, avps>>

Route ==
  /\ at = "main" /\ way = "router"
  /\ LET i == RouterIndex(frame) IN
     \/ i = 0 /\ Drop
     \/ i # 0 /\ Give(RouterKids[i])
  /\ UNCHANGED <<frame, asserts, way, size, offset, avps>>

(* The constructors of UDPPacket and TCPPacket only set pointers.          *)
CreatePlain ==
  /\ at = "create" /\ leaf # "RADIUS"
  /\ at' = "queued"
  /\ UNCHANGED <<frame, asserts, way, leaf, size, offset, avps>>

(* assert(pack_lenght == getPacketSizeImpl()).                             *)
LengthMatches == RADIUSSize(frame) = frame.length

LengthFails ==
  /\ at = "create" /\ leaf = "RADIUS"
  /\ asserts /\ ~LengthMatches
  /\ at' = "aborted"
  /\ UNCHANGED <<frame, asserts, way, leaf, size, offset, avps>>

DeclaredSize == frame.length
SmallerSize ==
  IF RADIUSSize(frame) < frame.length THEN RADIUSSize(frame) ELSE frame.length

CreateRADIUS ==
  /\ at = "create" /\ leaf = "RADIUS"
  /\ asserts => LengthMatches
  /\ size' = SmallerSize
  /\ offset' = RADIUSHeader
  /\ at' = "parse"
  /\ UNCHANGED <<frame, asserts, way, leaf, avps>>
-----------------------------------------------------------------------------
(* The byte at an offset into the RADIUS packet, and the n bytes from there. *)
AttrsEnd == Behind(frame.attrs, Len(frame.attrs))
AttributeAt(o) ==
  CHOOSE i \in DOMAIN frame.attrs :
    Behind(frame.attrs, i - 1) <= o /\ o < Behind(frame.attrs, i)
Byte(o) ==
  IF o < AttrsEnd
  THEN LET i == AttributeAt(o)
       IN Encoded(frame.attrs[i])[o - Behind(frame.attrs, i - 1) + 1]
  ELSE frame.rest[o - AttrsEnd + 1]
Value(o, n) == [i \in 1..n |-> Byte(o + i - 1)]

(* Type and length are read one after the other, each `size > ...'; what   *)
(* was read of them ends here.                                             *)
HeaderFits == size > offset + 2
HeaderEnd == IF HeaderFits THEN offset + 2 ELSE size - 1

(* size >= dataOffset + length - sizeof(length) - sizeof(type), when       *)
(* dataOffset has moved past type and length.                              *)
StrictlyFits == size > offset + Byte(offset + 1)
ValueFits == size >= offset + Byte(offset + 1)

(* `length -= 2' in a uint8_t.                                             *)
ValueLength == (Byte(offset + 1) - 2) % 256
ValueEnd == offset + 2 + ValueLength

(* All bytes that a round of the loop reads lie in the buffer.             *)
InBuffer == /\ HeaderEnd <= BufferEnd
            /\ HeaderFits /\ ValueFits => ValueEnd <= BufferEnd

(* std::map::insert: the first attribute of a type stays.                  *)
Overwritten(t, v) ==
  [s \in DOMAIN avps \cup {t} |-> IF s = t THEN v ELSE avps[s]]
Inserted(t, v) ==
  [s \in DOMAIN avps \cup {t} |-> IF s \in DOMAIN avps THEN avps[s] ELSE v]

ReadAttribute ==
  /\ at = "parse" /\ size > offset
  /\ InBuffer /\ HeaderFits /\ ValueFits
  /\ avps' = Inserted(Byte(offset), Value(offset + 2, ValueLength))
  /\ offset' = ValueEnd
  /\ UNCHANGED <<frame, asserts, way, at, leaf, size>>

(* assert(false), or the loop is left with what was read so far.           *)
GoesOn == "parse"
BreaksOff == IF asserts THEN "aborted" ELSE "queued"
AttributeFails ==
  /\ at = "parse" /\ size > offset
  /\ InBuffer /\ ~(HeaderFits /\ ValueFits)
  /\ at' = BreaksOff
  /\ UNCHANGED <<frame, asserts, way, leaf, size, offset, avps>>

(* A read behind the buffer is undefined: the process may crash or go on   *)
(* with any bytes, and nothing is said of what it does then.               *)
LeavesBuffer ==
  /\ at = "parse" /\ size > offset
  /\ ~InBuffer
  /\ at' = "undefined"
  /\ UNCHANGED <<frame, asserts, way, leaf, size, offset, avps>>

ParseEnds ==
  /\ at = "parse" /\ size <= offset
  /\ at' = "queued"
  /\ UNCHANGED <<frame, asserts, way, leaf, size, offset, avps>>

Step ==
  \/ RootDispatch
  \/ NodeDispatch
  \/ Route
  \/ CreatePlain
  \/ LengthFails
  \/ CreateRADIUS
  \/ ReadAttribute
  \/ AttributeFails
  \/ LeavesBuffer
  \/ ParseEnds

Ended == at \in {"dropped", "queued", "aborted", "undefined"}

Next == Step \/ (Ended /\ UNCHANGED decodingVars)

(* The main thread keeps running.                                          *)
Spec == Init /\ [][Next]_decodingVars /\ WF_decodingVars(Step)
-----------------------------------------------------------------------------
(* Every variable has its type.                                            *)
TypeOK ==
  /\ frame \in Wire
  /\ asserts \in BOOLEAN
  /\ way \in {"tree", "router"}
  /\ at \in {"main", "node", "create", "parse", "queued", "dropped", "aborted",
             "undefined"}
  /\ leaf \in {"none", "RADIUS", "UDP", "TCP"}
  /\ size \in Uint16
  /\ offset \in 0..BufferEnd
  /\ avps \in [DOMAIN avps -> Seq(Uint8)] /\ DOMAIN avps \subseteq Uint8

(* Whichever way the processors are asked, a frame goes to the most        *)
(* specific one that accepts it, and is dropped only if none accepts it: a *)
(* decision taken in the main loop is never taken back in a node.          *)
RightLeaf ==
  /\ leaf # "none" => leaf \in Takers(frame)
  /\ leaf = "UDP" => "RADIUS" \notin Takers(frame)
  /\ at = "dropped" <=> Ended /\ Takers(frame) = {}

(* How far the packet goes: as its header says, cut off where the capture  *)
(* ends; but when less than its headers was captured the sizes wrap, and   *)
(* only the length field counts.                                           *)
Lower == ETHHeader + IPHeader + UDPHeader
Wrapped == frame.captured < Lower
Extent == IF Wrapped \/ frame.length <= frame.captured - Lower
          THEN frame.length ELSE frame.captured - Lower

(* The attributes that are there to be read: those that end within the     *)
(* packet, except one without a value at its very end.                     *)
End(i) == Behind(frame.attrs, i)
Readable(n) ==
  {i \in DOMAIN frame.attrs :
     End(i) <= n /\ (frame.attrs[i].value = <<>> => End(i) < n)}

(* A length byte of 0 or 1 behind them passes both tests, and what is      *)
(* copied then are 254 or 255 bytes: the parser has gone astray.           *)
Strays ==
  /\ Extent > AttrsEnd + 2
  /\ Len(frame.rest) >= 2 /\ frame.rest[2] < 2

(* What the constructor leaves in m_avps has what the sender put there:    *)
(* the first attribute of each type, with its value, as far as was         *)
(* received.  It has nothing else, unless the parser went astray, and that *)
(* does not change what it had read before.                                *)
Earliest(S, t) ==
  CHOOSE i \in S : /\ frame.attrs[i].type = t
                   /\ \A j \in S : frame.attrs[j].type = t => i <= j
AttributesKept ==
  at = "queued" /\ leaf = "RADIUS" =>
    LET S == Readable(Extent)
        T == {frame.attrs[i].type : i \in S} IN
    /\ T \subseteq DOMAIN avps
    /\ \A t \in T : avps[t] = frame.attrs[Earliest(S, t)].value
    /\ DOMAIN avps = T \/ Strays

(* The abstraction of NIC!Frames.  What a build with assertions makes a    *)
(* packet of was captured as long as its header says, and ends where an    *)
(* attribute or the header ends, or the parser went astray in it.  What it *)
(* aborts on is no such packet.                                            *)
AsLongAsDeclared == frame.captured = Lower + frame.length
EndsWithAttribute ==
  \E n \in 0..Len(frame.attrs) :
    Readable(frame.length) = 1..n /\ frame.length <= Behind(frame.attrs, n)
WholeIsConstructible ==
  /\ at = "aborted" =>
       asserts /\ leaf = "RADIUS" /\ ~(AsLongAsDeclared /\ EndsWithAttribute)
  /\ at = "queued" /\ leaf = "RADIUS" /\ asserts =>
       AsLongAsDeclared /\ (EndsWithAttribute \/ Strays)

(* The parser reads an attribute past the bytes that were received, or     *)
(* past the buffer, only if it went astray or, in a build without          *)
(* assertions, if the sizes wrapped.                                       *)
ReadsWhatWasReceived ==
  at = "undefined" \/ (offset > RADIUSHeader /\ Lower + offset > frame.captured)
    => Strays \/ (Wrapped /\ ~asserts)

(* A request and its response reach the same worker, or their session      *)
(* could never be paired: every hash is the same in both directions, the   *)
(* one that chooses the worker and those of the layers above.              *)
RepliesShareWorker ==
  LET g == Reply(frame) IN
  /\ Takers(g) = Takers(frame)
  /\ \A n \in 1..Workers : WorkerId(g, n) = WorkerId(frame, n)
  /\ RADIUSHash(g) = RADIUSHash(frame)
  /\ TCPHash(g) = TCPHash(frame)

(* A frame never keeps the main thread: the parser comes to an end, or     *)
(* leaves the buffer.                                                      *)
DecodingEnds == <>Ended
=============================================================================
