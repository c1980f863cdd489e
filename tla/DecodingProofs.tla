---------------------------- MODULE DecodingProofs ----------------------------
(***************************************************************************)
(* Where a frame goes, for every frame and not only those of the instance  *)
(* that TLC checks: the processor it is given to, by the tree and by the   *)
(* router, and the worker its answer is given to; and what the constructor *)
(* of RADIUSPacket makes of it, whatever the buffer holds, however many    *)
(* attributes there are, whatever the length field says and however few of *)
(* the bytes were captured.                                                *)
(***************************************************************************)
EXTENDS FrameDecoding, FiniteSetTheorems, SequenceTheorems, TLAPS

(* The first child that accepts: it does, and none before it does.  No     *)
(* node has more than three.                                               *)
LEMMA FirstInFirst ==
  ASSUME NEW s, DOMAIN s \subseteq 1..3, NEW S
  PROVE  IF \A i \in DOMAIN s : s[i] \notin S
         THEN FirstIn(s, S) = 0
         ELSE /\ FirstIn(s, S) \in DOMAIN s
              /\ s[FirstIn(s, S)] \in S
              /\ \A j \in DOMAIN s : s[j] \in S => FirstIn(s, S) <= j
<1> DEFINE hits == {i \in DOMAIN s : s[i] \in S}
<1>1. CASE hits = {}
  BY <1>1 DEF FirstIn
<1>2. CASE hits # {}
  <2>1. \E i \in hits : \A j \in hits : i <= j
    <3>1. hits \subseteq 1..3
      OBVIOUS
    <3> HIDE DEF hits
    <3>2. CASE 1 \in hits
      BY <3>1, <3>2
    <3>3. CASE 1 \notin hits /\ 2 \in hits
      BY <3>1, <3>3
    <3>4. CASE 1 \notin hits /\ 2 \notin hits
      <4>1. \A i \in hits : i = 3
        BY <3>1, <3>4
      <4> QED BY <1>2, <4>1
    <3> QED BY <3>2, <3>3, <3>4
  <2> QED BY <1>2, <2>1 DEF FirstIn
<1> QED BY <1>1, <1>2

(* What main does with the index: the leaf a frame ends at.                *)
LEMMA NodeLeaf ==
  ASSUME NEW f, NodeIndex(f) # 0
  PROVE  /\ NodeIndex(f) \in DOMAIN NodeKids
         /\ NodeKids[NodeIndex(f)] \in Takers(f)
         /\ NodeKids[NodeIndex(f)] = "UDP" => "RADIUS" \notin Takers(f)
         /\ NodeKids[NodeIndex(f)] \in {"RADIUS", "UDP"}
<1>1. DOMAIN NodeKids = 1..2
      /\ NodeKids[1] = "RADIUS" /\ NodeKids[2] = "UDP"
  BY DEF NodeKids
<1>2. NodeIndex(f) = FirstIn(NodeKids, Takers(f))
  BY DEF NodeIndex
<1> QED BY <1>1, <1>2, FirstInFirst

LEMMA NodeAccepts ==
  ASSUME NEW f
  PROVE  NodeIndex(f) # 0 <=> Takers(f) \cap {"RADIUS", "UDP"} # {}
<1>1. DOMAIN NodeKids = 1..2
      /\ NodeKids[1] = "RADIUS" /\ NodeKids[2] = "UDP"
  BY DEF NodeKids
<1>2. Takers(f) \cap {"RADIUS", "UDP"} # {} => IsUDP(f)
  BY DEF Takers, IsRADIUS
<1>3. IsUDP(f) => "UDP" \in Takers(f)
  BY DEF Takers
<1> QED BY <1>1, <1>2, <1>3, FirstInFirst DEF NodeIndex

LEMMA RootLeaf ==
  ASSUME NEW f
  PROVE  IF Takers(f) = {}
         THEN RootIndex(f) = 0
         ELSE /\ RootIndex(f) \in 1..2
              /\ RootKids[RootIndex(f)] = "UDPNode" => NodeIndex(f) # 0
              /\ RootKids[RootIndex(f)] # "UDPNode" =>
                   /\ RootKids[RootIndex(f)] \in Takers(f)
                   /\ RootKids[RootIndex(f)] = "TCP"
<1>1. DOMAIN RootKids = 1..2
      /\ RootKids[1] = "UDPNode" /\ RootKids[2] = "TCP"
  BY DEF RootKids
<1> DEFINE A == Takers(f) \cup {k \in {"UDPNode"} : NodeIndex(f) # 0}
<1>2. Takers(f) \subseteq {"RADIUS", "UDP", "TCP"}
  BY DEF Takers
<1>3. "UDPNode" \in A <=> NodeIndex(f) # 0
  BY <1>2
<1>4. "TCP" \in A <=> "TCP" \in Takers(f)
  OBVIOUS
<1>5. RootIndex(f) = FirstIn(RootKids, A)
  BY DEF RootIndex
<1>6. Takers(f) = {} <=> \A i \in DOMAIN RootKids : RootKids[i] \notin A
  BY <1>1, <1>2, <1>3, <1>4, NodeAccepts
<1> HIDE DEF A
<1> QED BY <1>1, <1>3, <1>4, <1>5, <1>6, FirstInFirst

LEMMA RouterLeaf ==
  ASSUME NEW f
  PROVE  IF Takers(f) = {}
         THEN RouterIndex(f) = 0
         ELSE /\ RouterIndex(f) \in 1..3
              /\ RouterKids[RouterIndex(f)] \in Takers(f)
              /\ RouterKids[RouterIndex(f)] = "UDP" => "RADIUS" \notin Takers(f)
<1>1. DOMAIN RouterKids = 1..3
      /\ RouterKids[1] = "RADIUS" /\ RouterKids[2] = "UDP" /\ RouterKids[3] = "TCP"
  BY DEF RouterKids
<1>2. Takers(f) \subseteq {"RADIUS", "UDP", "TCP"}
  BY DEF Takers
<1>3. Takers(f) = {} <=> \A i \in DOMAIN RouterKids : RouterKids[i] \notin Takers(f)
  BY <1>1, <1>2
<1> QED BY <1>1, <1>2, <1>3, FirstInFirst DEF RouterIndex
-----------------------------------------------------------------------------
(* A frame in the node is one that the node accepts; one that was given to *)
(* a leaf stays there.                                                     *)
Placed ==
  /\ at = "node" => NodeIndex(frame) # 0
  /\ at \in {"main", "node", "dropped"} <=> leaf = "none"
  /\ at \in {"main", "node", "create", "parse", "queued", "dropped", "aborted",
             "undefined"}
  /\ RightLeaf

LEMMA PlacedGiven ==
  ASSUME NEW l, l \in Takers(frame), l = "UDP" => "RADIUS" \notin Takers(frame),
         Give(l), UNCHANGED frame
  PROVE  Placed'
<1>1. l # "none"
  BY DEF Takers
<1>2. UNCHANGED Takers(frame)
  BY DEF Takers, IsRADIUS, IsUDP, IsTCP, IsIP
<1> QED BY <1>1, <1>2 DEF Give, Placed, RightLeaf, Ended

LEMMA PlacedDropped ==
  ASSUME Takers(frame) = {}, leaf = "none", Drop, UNCHANGED frame
  PROVE  Placed'
<1>1. UNCHANGED Takers(frame)
  BY DEF Takers, IsRADIUS, IsUDP, IsTCP, IsIP
<1> QED BY <1>1 DEF Drop, Placed, RightLeaf, Ended

LEMMA PlacedStep ==
  ASSUME Placed, [Next]_decodingVars
  PROVE  Placed'
<1>1. CASE RootDispatch
  <2>1. leaf = "none" /\ UNCHANGED frame
    BY <1>1 DEF RootDispatch, Placed
  <2>2. CASE RootIndex(frame) = 0 /\ Drop
    BY <2>1, <2>2, RootLeaf, PlacedDropped
  <2>3. CASE /\ RootIndex(frame) # 0
             /\ RootKids[RootIndex(frame)] = "UDPNode"
             /\ at' = "node" /\ UNCHANGED leaf
    <3>1. NodeIndex(frame) # 0
      BY <2>3, RootLeaf
    <3>2. Takers(frame) # {} /\ UNCHANGED Takers(frame) /\ UNCHANGED NodeIndex(frame)
      BY <2>1, <2>3, RootLeaf
    <3> QED BY <2>1, <2>3, <3>1, <3>2 DEF Placed, RightLeaf, Ended
  <2>4. CASE /\ RootIndex(frame) # 0
             /\ RootKids[RootIndex(frame)] # "UDPNode"
             /\ Give(RootKids[RootIndex(frame)])
    <3>1. RootKids[RootIndex(frame)] \in Takers(frame)
          /\ RootKids[RootIndex(frame)] = "TCP"
      BY <2>4, RootLeaf
    <3> QED BY <2>1, <2>4, <3>1, PlacedGiven
  <2> QED BY <1>1, <2>2, <2>3, <2>4 DEF RootDispatch
<1>2. CASE NodeDispatch
  <2>1. NodeIndex(frame) # 0 /\ Give(NodeKids[NodeIndex(frame)]) /\ UNCHANGED frame
    BY <1>2 DEF NodeDispatch, Placed
  <2> QED BY <2>1, NodeLeaf, PlacedGiven
<1>3. CASE Route
  <2>1. leaf = "none" /\ UNCHANGED frame
    BY <1>3 DEF Route, Placed
  <2>2. CASE RouterIndex(frame) = 0 /\ Drop
    BY <2>1, <2>2, RouterLeaf, PlacedDropped
  <2>3. CASE RouterIndex(frame) # 0 /\ Give(RouterKids[RouterIndex(frame)])
    BY <2>1, <2>3, RouterLeaf, PlacedGiven
  <2> QED BY <1>3, <2>2, <2>3 DEF Route
<1>4. CASE \/ CreatePlain \/ LengthFails \/ CreateRADIUS
           \/ ReadAttribute \/ AttributeFails \/ LeavesBuffer \/ ParseEnds
  <2>1. /\ UNCHANGED <<frame, leaf>> /\ leaf # "none"
        /\ at' \in {"parse", "queued", "aborted", "undefined"}
    BY <1>4 DEF CreatePlain, LengthFails, CreateRADIUS, ReadAttribute,
       AttributeFails, LeavesBuffer, ParseEnds, BreaksOff, Placed
  <2>2. leaf \in Takers(frame) /\ UNCHANGED Takers(frame)
    BY <2>1 DEF Placed, RightLeaf
  <2> QED BY <2>1, <2>2 DEF Placed, RightLeaf, Ended
<1>5. CASE UNCHANGED decodingVars
  <2>1. UNCHANGED <<Takers(frame), NodeIndex(frame)>>
    BY <1>5 DEF decodingVars
  <2> QED BY <1>5, <2>1 DEF decodingVars, Placed, RightLeaf, Ended
<1> QED BY <1>1, <1>2, <1>3, <1>4, <1>5 DEF Next, Step

(* By the tree of main.cpp and by PacketRouter::route alike, every frame   *)
(* goes to the most specific processor that accepts it, and is dropped     *)
(* only if none does (IDispatcher.hpp, PacketRouter.hpp).                  *)
THEOREM LeavesAreRight == Spec => []RightLeaf
<1>1. Init => Placed
  BY DEF Init, Placed, RightLeaf, Ended
<1>2. Placed => RightLeaf
  BY DEF Placed
<1> QED BY <1>1, <1>2, PlacedStep, PTL DEF Spec
-----------------------------------------------------------------------------
LEMMA ReplyFields ==
  ASSUME NEW f \in WireFrames
  PROVE  LET g == Reply(f) IN
         /\ g.shost = f.dhost /\ g.dhost = f.shost
         /\ g.saddr = f.daddr /\ g.daddr = f.saddr
         /\ g.sport = f.dport /\ g.dport = f.sport
         /\ g.ether = f.ether /\ g.proto = f.proto /\ g.ident = f.ident
<1>1. {"shost", "dhost", "saddr", "daddr", "sport", "dport"} \subseteq DOMAIN f
      /\ {"ether", "proto", "ident"} \subseteq DOMAIN f
  BY DEF WireFrames
<1> QED BY <1>1, SMT DEF Reply

LEMMA ReplyHashes ==
  ASSUME NEW f \in WireFrames
  PROVE  /\ ETHHash(Reply(f)) = ETHHash(f)
         /\ UDPHash(Reply(f)) = UDPHash(f)
         /\ TCPHash(Reply(f)) = TCPHash(f)
         /\ RADIUSHash(Reply(f)) = RADIUSHash(f)
<1> DEFINE g == Reply(f)
<1>1. f.shost \in Nat /\ f.dhost \in Nat /\ f.saddr \in Nat /\ f.daddr \in Nat
      /\ f.ether \in Nat /\ f.sport \in Nat /\ f.dport \in Nat
  BY DEF WireFrames
<1>2. Raw(f.ether) \in Int /\ Raw(f.sport) \in Int /\ Raw(f.dport) \in Int
  BY <1>1 DEF Raw
<1>3. f.saddr + f.daddr = f.daddr + f.saddr
  BY <1>1
<1>4. IPHash(g) = IPHash(f)
  BY <1>3, ReplyFields DEF IPHash
<1>5. IPHash(f) \in Int
  BY <1>1, LayersAssumption DEF IPHash
<1>6. IPHash(f) + Raw(f.dport) + Raw(f.sport) = IPHash(f) + Raw(f.sport) + Raw(f.dport)
  BY <1>2, <1>5
<1>7. UDPHash(g) = UDPHash(f) /\ TCPHash(g) = TCPHash(f)
  BY <1>4, <1>6, ReplyFields DEF UDPHash, TCPHash
<1>8. f.shost + f.dhost + Raw(f.ether) = f.dhost + f.shost + Raw(f.ether)
  BY <1>1, <1>2
<1>9. ETHHash(g) = ETHHash(f)
  BY <1>8, ReplyFields DEF ETHHash
<1> QED BY <1>7, <1>9, ReplyFields DEF RADIUSHash

LEMMA ReplyTakers ==
  ASSUME NEW f \in WireFrames
  PROVE  Takers(Reply(f)) = Takers(f)
<1>1. IsUDP(Reply(f)) <=> IsUDP(f)
  BY ReplyFields DEF IsUDP, IsIP
<1>2. IsTCP(Reply(f)) <=> IsTCP(f)
  BY ReplyFields DEF IsTCP, IsIP
<1>3. IsRADIUS(Reply(f)) <=> IsRADIUS(f)
  BY <1>1, ReplyFields DEF IsRADIUS
<1> QED BY <1>1, <1>2, <1>3 DEF Takers

(* The hash of a frame is that of its answer, so that a request and its    *)
(* response reach one worker, whatever the addresses, the ports and the    *)
(* number of workers (onDispatchImpl, getPacketSpecificHashImpl).          *)
THEOREM AnswersMeetQuestions == Spec => []RepliesShareWorker
<1>1. Init => frame \in Wire
  BY DEF Init
<1>2. frame \in Wire /\ [Next]_decodingVars => (frame \in Wire)'
  BY DEF Next, Step, decodingVars, RootDispatch, NodeDispatch, Route, CreatePlain,
     LengthFails, CreateRADIUS, ReadAttribute, AttributeFails, LeavesBuffer, ParseEnds
<1>3. frame \in Wire => RepliesShareWorker
  BY DecodingAssumption, ReplyHashes, ReplyTakers DEF RepliesShareWorker, WorkerId
<1> QED BY <1>1, <1>2, <1>3, PTL DEF Spec
-----------------------------------------------------------------------------
(* The size of a RADIUS packet: what is left of the capture behind the     *)
(* headers, or, when less than these was captured, a number that no length *)
(* field can hold.                                                         *)
LEMMA Remainder ==
  ASSUME NEW M \in Nat, M > 0, NEW x \in Int
  PROVE  /\ 0 <= x /\ x < M => x % M = x
         /\ -M <= x /\ x < 0 => x % M = x + M
OBVIOUS

LEMMA Sizes ==
  ASSUME NEW f \in WireFrames
  PROVE  /\ f.captured \in Int /\ RADIUSSize(f) \in Nat
         /\ f.captured >= 42 => RADIUSSize(f) = f.captured - 42
         /\ f.captured < 42 => RADIUSSize(f) > 65535
<1> DEFINE c == f.captured
<1>1. c \in Nat /\ c <= 65535 /\ SizeMod \in Nat /\ SizeMod > 131071
  <2>1. MaxPacket \in Nat /\ MaxPacket <= 65535
    BY BufferAssumption
  <2>2. c \in 0..MaxPacket
    BY DEF WireFrames, BufferFill
  <2> QED BY <2>1, <2>2, LayersAssumption
<1>2. /\ IPSize(f) = (c - 14) % SizeMod
      /\ UDPSize(f) = (IPSize(f) - 20) % SizeMod
      /\ RADIUSSize(f) = (UDPSize(f) - 8) % SizeMod
  BY DEF IPSize, UDPSize, RADIUSSize, ETHHeader, IPHeader, UDPHeader
<1> HIDE DEF c
<1>3. IPSize(f) = IF c >= 14 THEN c - 14 ELSE c - 14 + SizeMod
  BY <1>1, <1>2, Remainder
<1>4. UDPSize(f) = IF c >= 34 THEN c - 34 ELSE c - 34 + SizeMod
  BY <1>1, <1>2, <1>3, Remainder
<1>5. RADIUSSize(f) = IF c >= 42 THEN c - 42 ELSE c - 42 + SizeMod
  BY <1>1, <1>2, <1>4, Remainder
<1>6. c >= 42 => RADIUSSize(f) = c - 42
  BY <1>5
<1>7. RADIUSSize(f) \in Nat /\ (c < 42 => RADIUSSize(f) > 65535)
  BY <1>1, <1>5
<1> QED BY <1>1, <1>6, <1>7 DEF c
-----------------------------------------------------------------------------
(* Where the attributes lie.                                               *)
LEMMA AttributeTypes ==
  ASSUME NEW a \in Attributes
  PROVE  /\ a.type \in Uint8 /\ a.value \in Seq(Uint8)
         /\ Len(a.value) \in Nat /\ Len(a.value) <= 253
<1>1. a.type \in Uint8 /\ a.value \in {v \in Seq(Uint8) : Len(v) <= 253}
  BY DEF Attributes
<1>2. a.value \in Seq(Uint8) /\ Len(a.value) <= 253
  BY <1>1
<1>3. Len(a.value) \in Nat
  BY <1>2
<1> QED BY <1>1, <1>2, <1>3

LEMMA LaidFinite ==
  ASSUME NEW s \in Seq(Attributes), NEW n \in 0..Len(s)
  PROVE  /\ IsFiniteSet(Laid(s, n)) /\ Cardinality(Laid(s, n)) \in Nat
         /\ Behind(s, n) \in Nat
<1>1. \A i \in 1..n : Len(s[i].value) \in Nat /\ Len(s[i].value) <= 253
  BY AttributeTypes
<1> DEFINE c == 255
<1>2. c \in Nat /\ \A i \in 1..n : Len(s[i].value) + 2 <= c
  BY <1>1
<1> HIDE DEF c
<1>3. Laid(s, n) \subseteq (1..n) \X (1..c)
  <2>1. \A i \in 1..n : \A k \in 1..Len(s[i].value) + 2 : k \in 1..c
    BY <1>1, <1>2
  <2>2. ASSUME NEW p \in Laid(s, n) PROVE p \in (1..n) \X (1..c)
    <3>1. PICK i \in 1..n : p \in {i} \X (1..Len(s[i].value) + 2)
      BY DEF Laid
    <3>2. p = <<i, p[2]>> /\ p[2] \in 1..Len(s[i].value) + 2
      BY <3>1
    <3> QED BY <2>1, <3>2
  <2> QED BY <2>2
<1>4. IsFiniteSet((1..n) \X (1..c))
  <2>1. n \in Int /\ 1 \in Int /\ c \in Int
    BY <1>2
  <2>2. IsFiniteSet(1..n) /\ IsFiniteSet(1..c)
    BY <2>1, FS_Interval
  <2> QED BY <2>2, FS_Product
<1>5. IsFiniteSet(Laid(s, n)) /\ Cardinality(Laid(s, n)) \in Nat
  BY <1>3, <1>4, FS_Subset, FS_CardinalityType
<1> QED BY <1>5 DEF Behind, RADIUSHeader

LEMMA BehindNone ==
  ASSUME NEW s PROVE Behind(s, 0) = 20
<1>1. Laid(s, 0) = {}
  BY DEF Laid
<1> QED BY <1>1, FS_EmptySet DEF Behind, RADIUSHeader

LEMMA BehindNext ==
  ASSUME NEW s \in Seq(Attributes), NEW n \in 0..Len(s), n < Len(s)
  PROVE  Behind(s, n + 1) = Behind(s, n) + Len(s[n + 1].value) + 2
<1> DEFINE m == Len(s[n + 1].value) + 2
           S == Laid(s, n)
           T == {n + 1} \X (1..m)
<1>1. m \in Nat /\ m > 0 /\ n + 1 \in 0..Len(s)
  BY AttributeTypes
<1>2. Laid(s, n + 1) = S \cup T
  BY DEF Laid
<1>3. S \cap T = {}
  BY DEF Laid
<1>4. IsFiniteSet(T) /\ Cardinality(T) = m
  <2> HIDE DEF m
  <2>1. IsFiniteSet(1..m) /\ Cardinality(1..m) = m
    <3>1. m \in Int /\ 1 \in Int /\ ~(1 > m) /\ m - 1 + 1 = m
      BY <1>1
    <3> QED BY <3>1, FS_Interval
  <2>2. IsFiniteSet({n + 1}) /\ Cardinality({n + 1}) = 1
    BY FS_Singleton
  <2>3. /\ IsFiniteSet({n + 1} \X (1..m))
        /\ Cardinality({n + 1} \X (1..m)) = Cardinality({n + 1}) * Cardinality(1..m)
    <3> HIDE DEF T
    <3> QED BY <2>1, <2>2, FS_Product
  <2>4. 1 * m = m
    BY <1>1
  <2>5. Cardinality({n + 1} \X (1..m)) = m
    BY <2>1, <2>2, <2>3, <2>4
  <2> QED BY <2>3, <2>5
<1>5. IsFiniteSet(S) /\ Cardinality(S) \in Nat
  BY LaidFinite
<1> HIDE DEF S, T
<1>6. Cardinality(S \cup T) = Cardinality(S) + m
  <2>1. Cardinality(S \cup T) = Cardinality(S) + Cardinality(T) - Cardinality(S \cap T)
    BY <1>4, <1>5, FS_Union
  <2>2. Cardinality(S \cap T) = 0
    BY <1>3, FS_EmptySet
  <2> HIDE DEF m
  <2> QED BY <1>1, <1>4, <1>5, <2>1, <2>2
<1>7. /\ Behind(s, n + 1) = 20 + Cardinality(S \cup T)
      /\ Behind(s, n) = 20 + Cardinality(S)
  BY <1>2 DEF Behind, RADIUSHeader, S
<1>8. Behind(s, n + 1) = Behind(s, n) + m
  <2> HIDE DEF m
  <2> QED BY <1>1, <1>5, <1>6, <1>7
<1>9. Len(s[n + 1].value) \in Nat
  BY AttributeTypes
<1> QED BY <1>8, <1>9, LaidFinite

(* An attribute takes two bytes at least.                                  *)
LEMMA BehindGrows ==
  ASSUME NEW s \in Seq(Attributes), NEW i \in 0..Len(s), NEW j \in 0..Len(s), i < j
  PROVE  /\ Behind(s, i) <= Behind(s, j - 1)
         /\ Behind(s, i) + 2 <= Behind(s, j)
<1>1. j - 1 \in 0..Len(s) /\ j - 1 < Len(s) /\ j - 1 + 1 = j
  OBVIOUS
<1>2. Laid(s, i) \subseteq Laid(s, j - 1)
  BY DEF Laid
<1>3. Cardinality(Laid(s, i)) <= Cardinality(Laid(s, j - 1))
  BY <1>1, <1>2, LaidFinite, FS_Subset
<1>4. /\ Cardinality(Laid(s, i)) \in Nat /\ Cardinality(Laid(s, j - 1)) \in Nat
      /\ Behind(s, j) \in Nat
  BY <1>1, LaidFinite
<1>5. Behind(s, i) <= Behind(s, j - 1)
  BY <1>3, <1>4 DEF Behind, RADIUSHeader
<1>6. Behind(s, j) = Behind(s, j - 1) + Len(s[j].value) + 2
  BY <1>1, BehindNext
<1>7. Len(s[j].value) \in Nat
  BY AttributeTypes
<1>8. Behind(s, i) \in Nat /\ Behind(s, j - 1) \in Nat
  BY <1>1, LaidFinite
<1> QED BY <1>5, <1>6, <1>7, <1>8

LEMMA TwoThen ==
  ASSUME NEW x, NEW y, NEW T, NEW v \in Seq(T)
  PROVE  /\ (<<x, y>> \o v)[1] = x
         /\ (<<x, y>> \o v)[2] = y
         /\ \A j \in 1..Len(v) : (<<x, y>> \o v)[j + 2] = v[j]
OBVIOUS

LEMMA EncodedBytes ==
  ASSUME NEW a \in Attributes
  PROVE  /\ Encoded(a)[1] = a.type
         /\ Encoded(a)[2] = Len(a.value) + 2
         /\ \A j \in 1..Len(a.value) : Encoded(a)[j + 2] = a.value[j]
<1>1. a.value \in Seq(Uint8)
  BY AttributeTypes
<1> QED BY <1>1, TwoThen DEF Encoded

(* A byte lies in the one attribute that is there.                         *)
LEMMA ByteRead ==
  ASSUME frame \in WireFrames, NEW i \in 1..Len(frame.attrs),
         NEW k \in 1..Len(frame.attrs[i].value) + 2
  PROVE  Byte(Behind(frame.attrs, i - 1) + k - 1) = Encoded(frame.attrs[i])[k]
<1> DEFINE s == frame.attrs
           L == Len(s)
           B(j) == Behind(s, j)
           o == B(i - 1) + k - 1
<1>1. s \in Seq(Attributes) /\ L \in Nat /\ DOMAIN s = 1..L
  BY DEF WireFrames
<1>2. \A j \in 0..L : B(j) \in Nat
  BY <1>1, LaidFinite
<1>3. \A h \in 0..L, j \in 0..L : h < j => B(h) <= B(j - 1) /\ B(h) + 2 <= B(j)
  BY <1>1, BehindGrows
<1>4. B(i) = B(i - 1) + Len(s[i].value) + 2 /\ Len(s[i].value) \in Nat
  <2>1. i - 1 \in 0..L /\ i - 1 < L /\ i - 1 + 1 = i
    BY <1>1
  <2>2. Len(s[i - 1 + 1].value) \in Nat
    BY <1>1, <2>1, AttributeTypes
  <2>3. Behind(s, i - 1 + 1) = Behind(s, i - 1) + Len(s[i - 1 + 1].value) + 2
    <3> HIDE DEF s, B, o
    <3> QED BY <1>1, <2>1, BehindNext DEF L
  <2> QED BY <2>1, <2>2, <2>3
<1>5. k \in Int /\ 1 <= k /\ k <= Len(s[i].value) + 2 /\ i \in 1..L
  BY <1>4
<1> HIDE DEF s, L, B
<1>6. /\ i - 1 \in 0..L /\ i \in 0..L /\ L \in 0..L
      /\ \A j \in 1..L : j - 1 \in 0..L /\ j \in 0..L
  BY <1>1, <1>5
<1>7. B(i - 1) <= o /\ o < B(i) /\ o \in Nat
  <2>1. B(i - 1) \in Nat /\ B(i) \in Nat
    BY <1>2, <1>6
  <2> DEFINE b == B(i - 1)
             e == B(i)
             m == Len(s[i].value)
  <2>2. b \in Nat /\ e = b + m + 2 /\ m \in Nat /\ k \in Int /\ 1 <= k /\ k <= m + 2
    BY <1>4, <1>5, <2>1
  <2> HIDE DEF b, e, m
  <2>3. b <= b + k - 1 /\ b + k - 1 < e /\ b + k - 1 \in Nat
    BY <2>2
  <2> QED BY <2>3 DEF b, e
<1>8. \A j \in DOMAIN s : B(j - 1) <= o /\ o < B(j) => j = i
  <2> SUFFICES ASSUME NEW j \in 1..L, B(j - 1) <= o, o < B(j) PROVE j = i
    BY <1>1
  <2>1. ~(i < j)
    BY <1>2, <1>3, <1>6, <1>7
  <2>2. ~(j < i)
    BY <1>2, <1>3, <1>6, <1>7
  <2> QED BY <1>5, <2>1, <2>2
<1>9. AttributeAt(o) = i
  <2>1. i \in DOMAIN s
    BY <1>1, <1>5
  <2> QED BY <1>7, <1>8, <2>1 DEF AttributeAt, B, s
<1>10. o < AttrsEnd
  <2>1. B(i) <= B(L)
    <3>1. i < L \/ i = L
      BY <1>1, <1>5
    <3> QED BY <1>2, <1>3, <1>6, <3>1
  <2>2. AttrsEnd = B(L)
    BY DEF AttrsEnd, B, L, s
  <2> QED BY <1>2, <1>6, <1>7, <2>1, <2>2
<1>11. Byte(o) = Encoded(s[i])[o - B(i - 1) + 1]
  BY <1>9, <1>10 DEF Byte, s, B
<1>12. o - B(i - 1) + 1 = k
  BY <1>2, <1>5, <1>6
<1> QED BY <1>11, <1>12 DEF s, B

(* What is read where an attribute begins.                                 *)
LEMMA AttributeRead ==
  ASSUME frame \in WireFrames, NEW n \in 0..Len(frame.attrs), n < Len(frame.attrs),
         offset = Behind(frame.attrs, n)
  PROVE  LET a == frame.attrs[n + 1] IN
         /\ Byte(offset) = a.type
         /\ Byte(offset + 1) = Len(a.value) + 2
         /\ ValueLength = Len(a.value)
         /\ Value(offset + 2, Len(a.value)) = a.value
<1> DEFINE a == frame.attrs[n + 1]
           m == Len(a.value)
<1>1. a \in Attributes /\ offset \in Nat /\ n + 1 \in 1..Len(frame.attrs) /\ n + 1 - 1 = n
  BY LaidFinite DEF WireFrames
<1>2. m \in Nat /\ m <= 253 /\ a.value \in Seq(Uint8)
  BY <1>1, AttributeTypes
<1>3. \A k \in 1..m + 2 : Byte(offset + k - 1) = Encoded(a)[k]
  <2>1. \A k \in 1..Len(frame.attrs[n + 1].value) + 2 :
          Byte(Behind(frame.attrs, n + 1 - 1) + k - 1) = Encoded(frame.attrs[n + 1])[k]
    BY <1>1, ByteRead
  <2> QED BY <1>1, <2>1
<1> HIDE DEF a
<1>4. Byte(offset) = a.type /\ Byte(offset + 1) = m + 2
  <2>1. 1 \in 1..m + 2 /\ 2 \in 1..m + 2 /\ offset + 1 - 1 = offset /\ offset + 2 - 1 = offset + 1
    BY <1>1, <1>2
  <2>2. Byte(offset) = Encoded(a)[1] /\ Byte(offset + 1) = Encoded(a)[2]
    BY <1>3, <2>1
  <2> QED BY <1>1, <2>2, EncodedBytes
<1>5. ValueLength = m
  <2>1. m \in Nat /\ m <= 253 /\ Byte(offset + 1) - 2 = m
    BY <1>2, <1>4
  <2> HIDE DEF m
  <2>2. m % 256 = m
    BY <2>1
  <2> QED BY <2>1, <2>2 DEF ValueLength
<1>6. \A j \in 1..m : Byte(offset + 2 + j - 1) = a.value[j]
  <2> SUFFICES ASSUME NEW j \in 1..m PROVE Byte(offset + 2 + j - 1) = a.value[j]
    OBVIOUS
  <2>1. j + 2 \in 1..m + 2 /\ offset + 2 + j - 1 = offset + (j + 2) - 1
    BY <1>1, <1>2
  <2>2. Byte(offset + (j + 2) - 1) = Encoded(a)[j + 2]
    BY <1>3, <2>1
  <2>3. Encoded(a)[j + 2] = a.value[j]
    BY <1>1, EncodedBytes
  <2> QED BY <2>1, <2>2, <2>3
<1>7. a.value = [j \in 1..m |-> a.value[j]]
  BY <1>2
<1>8. Value(offset + 2, m) = a.value
  BY <1>6, <1>7 DEF Value
<1> QED BY <1>4, <1>5, <1>8 DEF a
-----------------------------------------------------------------------------
(* The parser has read the first n attributes: it stands behind them, each *)
(* of them could be read, and of each type the first is in m_avps.         *)
Types(n) == {frame.attrs[i].type : i \in 1..n}
FirstOf(i, n) == \A j \in 1..n : frame.attrs[j].type = frame.attrs[i].type => i <= j
Has(t, n) ==
  \E i \in 1..n : /\ frame.attrs[i].type = t /\ FirstOf(i, n)
                  /\ avps[t] = frame.attrs[i].value
Read(n) ==
  /\ offset = Behind(frame.attrs, n)
  /\ n = 0 \/ offset <= size
  /\ \A i \in 1..n : i \in Readable(size)
  /\ DOMAIN avps = Types(n)
  /\ \A t \in DOMAIN avps : Has(t, n)

(* Or it went astray behind the last of them: it has all of them still.    *)
Gone ==
  /\ offset > AttrsEnd
  /\ Strays
  /\ Types(Len(frame.attrs)) \subseteq DOMAIN avps
  /\ \A t \in Types(Len(frame.attrs)) : Has(t, Len(frame.attrs))

Parsing ==
  at = "parse" =>
    /\ leaf = "RADIUS"
    /\ size = SmallerSize
    /\ asserts => LengthMatches
    /\ (\E n \in 0..Len(frame.attrs) : Read(n)) \/ Gone

Untouched == at \in {"main", "node", "create", "dropped"} => offset = 0 /\ avps = <<>>

Decoded ==
  /\ TypeOK
  /\ Placed
  /\ Untouched
  /\ Parsing
  /\ AttributesKept
  /\ WholeIsConstructible
  /\ ReadsWhatWasReceived

LEMMA Uint16Is ==
  ASSUME NEW x PROVE x \in Uint16 <=> x \in Nat /\ x <= 65535
BY DEF Uint16

LEMMA Uint8Is ==
  ASSUME NEW x PROVE x \in Uint8 <=> x \in Nat /\ x <= 255
BY DEF Uint8

(* What is known of the frame and its sizes.                               *)
LEMMA FrameSizes ==
  ASSUME frame \in Wire
  PROVE  /\ frame \in WireFrames /\ frame.attrs \in Seq(Attributes)
         /\ Len(frame.attrs) \in Nat /\ DOMAIN frame.attrs = 1..Len(frame.attrs)
         /\ frame.length \in Nat /\ frame.length <= 65535
         /\ RADIUSSize(frame) \in Nat
         /\ SmallerSize \in Nat
         /\ SmallerSize <= RADIUSSize(frame) /\ SmallerSize <= frame.length
<1>1. frame \in WireFrames
  BY DecodingAssumption
<1>2. frame.attrs \in Seq(Attributes) /\ frame.length \in Uint16
  BY <1>1 DEF WireFrames
<1>3. frame.length \in Nat /\ frame.length <= 65535
  BY <1>2, Uint16Is
<1>4. RADIUSSize(frame) \in Nat
  BY <1>1, Sizes
<1>5. /\ SmallerSize \in Nat
      /\ SmallerSize <= RADIUSSize(frame) /\ SmallerSize <= frame.length
  BY <1>3, <1>4 DEF SmallerSize
<1>6. Len(frame.attrs) \in Nat /\ DOMAIN frame.attrs = 1..Len(frame.attrs)
  BY <1>2
<1> QED BY <1>1, <1>2, <1>3, <1>4, <1>5, <1>6

(* What is known of the buffer.                                            *)
LEMMA BufferIs ==
  /\ BufferEnd \in Nat /\ BufferEnd = MaxPacket - 42 /\ 20 <= BufferEnd
  /\ Lower = 42 /\ RADIUSHeader = 20
<1>1. MaxPacket \in Nat /\ MaxPacket >= 62
  BY BufferAssumption DEF ETHHeader, IPHeader, UDPHeader, RADIUSHeader
<1>2. BufferEnd = MaxPacket - 42
  BY <1>1 DEF BufferEnd, ETHHeader, IPHeader, UDPHeader
<1> QED BY <1>1, <1>2 DEF Lower, ETHHeader, IPHeader, UDPHeader, RADIUSHeader

LEMMA RestIs ==
  ASSUME frame \in Wire
  PROVE  /\ frame.rest \in Seq(Uint8) /\ Len(frame.rest) \in Nat
         /\ AttrsEnd \in Nat /\ AttrsEnd + Len(frame.rest) = BufferEnd
         /\ Len(frame.rest) < 2 \/ frame.rest[2] < 2 \/ frame.rest[2] > Len(frame.rest)
<1>1. frame.rest \in Seq(Uint8) /\ Unparsable(frame.rest)
      /\ AttrsEnd + Len(frame.rest) = BufferEnd
  BY DecodingAssumption DEF WireFrames, AttrsEnd
<1>2. AttrsEnd \in Nat
  BY FrameSizes, LaidFinite DEF AttrsEnd
<1> QED BY <1>1, <1>2 DEF Unparsable

(* No attribute ends behind the last.                                      *)
LEMMA WithinAttrs ==
  ASSUME frame \in Wire, NEW n \in 0..Len(frame.attrs)
  PROVE  /\ Behind(frame.attrs, n) \in Nat /\ 20 <= Behind(frame.attrs, n)
         /\ Behind(frame.attrs, n) <= AttrsEnd
         /\ n # 0 => Behind(frame.attrs, n) > 20
<1> DEFINE s == frame.attrs
           L == Len(s)
<1>1. s \in Seq(Attributes) /\ L \in Nat /\ 0 \in 0..L /\ L \in 0..L
  BY FrameSizes
<1>2. Behind(s, n) \in Nat /\ Behind(s, L) \in Nat /\ Behind(s, 0) = 20
  BY <1>1, LaidFinite, BehindNone
<1>3. n # 0 => Behind(s, 0) + 2 <= Behind(s, n)
  <2>1. n # 0 => 0 < n
    BY <1>1
  <2> QED BY <1>1, <2>1, BehindGrows
<1>4. n # L => Behind(s, n) + 2 <= Behind(s, L)
  <2>1. n # L => n < L
    BY <1>1
  <2> QED BY <1>1, <2>1, BehindGrows
<1>5. AttrsEnd = Behind(s, L)
  BY DEF AttrsEnd
<1> HIDE DEF s, L
<1>6. Behind(s, n) <= AttrsEnd
  BY <1>2, <1>4, <1>5
<1>7. 20 <= Behind(s, n) /\ (n # 0 => Behind(s, n) > 20)
  BY <1>2, <1>3
<1> QED BY <1>2, <1>6, <1>7 DEF s

(* `size' is as far as the packet goes.  assert(pack_lenght ==             *)
(* getPacketSizeImpl()) holds of a packet that was captured as long as its *)
(* header says, and of no other.                                           *)
LEMMA ExtentIs ==
  ASSUME frame \in Wire
  PROVE  /\ SmallerSize = Extent
         /\ LengthMatches <=> AsLongAsDeclared
         /\ LengthMatches => ~Wrapped /\ SmallerSize = frame.length
         /\ ~Wrapped => Lower + SmallerSize <= frame.captured /\ SmallerSize <= BufferEnd
<1> DEFINE r == RADIUSSize(frame)
           c == frame.captured
           l == frame.length
<1>1. /\ c \in Int /\ r \in Nat /\ l \in Nat /\ l <= 65535
      /\ c >= 42 => r = c - 42
      /\ c < 42 => r > 65535
  BY Sizes, FrameSizes
<1>2. c <= MaxPacket /\ MaxPacket \in Nat
  <2>1. c \in BufferFill
    BY FrameSizes DEF WireFrames
  <2> QED BY <2>1, BufferAssumption DEF BufferFill
<1>3. SmallerSize = IF r < l THEN r ELSE l
  BY DEF SmallerSize
<1>4. Extent = IF c < 42 \/ l <= c - 42 THEN l ELSE c - 42
  BY BufferIs DEF Extent, Wrapped
<1>5. (LengthMatches <=> r = l) /\ (AsLongAsDeclared <=> c = 42 + l)
  BY BufferIs DEF LengthMatches, AsLongAsDeclared
<1>6. Wrapped <=> c < 42
  BY BufferIs DEF Wrapped
<1> HIDE DEF r, c, l
<1>7. SmallerSize = Extent
  BY <1>1, <1>3, <1>4
<1>8. LengthMatches <=> AsLongAsDeclared
  BY <1>1, <1>5
<1>9. LengthMatches => ~Wrapped /\ SmallerSize = l
  BY <1>1, <1>3, <1>5, <1>6
<1>10. ~Wrapped => 42 + SmallerSize <= c /\ SmallerSize <= BufferEnd
  BY <1>1, <1>2, <1>3, <1>6, BufferIs
<1> QED BY <1>7, <1>8, <1>9, <1>10, BufferIs DEF c, l
-----------------------------------------------------------------------------
(* The attribute that is next.                                             *)
LEMMA NextEnds ==
  ASSUME frame \in Wire, NEW n \in 0..Len(frame.attrs),
         offset = Behind(frame.attrs, n), n # Len(frame.attrs)
  PROVE  /\ n < Len(frame.attrs) /\ n \in Nat /\ n + 1 \in 1..Len(frame.attrs)
         /\ offset \in Nat
         /\ Len(frame.attrs[n + 1].value) \in Nat
         /\ frame.attrs[n + 1].value = <<>> <=> Len(frame.attrs[n + 1].value) = 0
         /\ End(n + 1) = offset + Len(frame.attrs[n + 1].value) + 2
         /\ ValueLength = Len(frame.attrs[n + 1].value)
         /\ ValueEnd = End(n + 1)
         /\ ValueFits <=> size >= End(n + 1)
         /\ Byte(offset) = frame.attrs[n + 1].type
         /\ Value(offset + 2, ValueLength) = frame.attrs[n + 1].value
<1> DEFINE s == frame.attrs
           m == Len(s[n + 1].value)
<1>1. frame \in WireFrames /\ s \in Seq(Attributes) /\ Len(s) \in Nat
  BY FrameSizes
<1>2. n < Len(s) /\ n \in Nat
  BY <1>1
<1>3. n + 1 \in 1..Len(s)
  BY <1>1, <1>2
<1>4. s[n + 1] \in Attributes
  BY <1>1, <1>3
<1>5. m \in Nat /\ (s[n + 1].value = <<>> <=> m = 0)
  <2>1. s[n + 1].value \in Seq(Uint8)
    BY <1>4, AttributeTypes
  <2> HIDE DEF s
  <2> QED BY <2>1, EmptySeq
<1>6. offset \in Nat /\ End(n + 1) = offset + m + 2
  <2>1. Behind(s, n) \in Nat
    BY <1>1, LaidFinite
  <2>2. Behind(s, n + 1) = Behind(s, n) + m + 2
    BY <1>1, <1>2, BehindNext
  <2> QED BY <2>1, <2>2 DEF End
<1>7. /\ Byte(offset) = s[n + 1].type /\ Byte(offset + 1) = m + 2
      /\ ValueLength = m /\ Value(offset + 2, m) = s[n + 1].value
  BY <1>1, <1>2, AttributeRead
<1>8. (ValueFits <=> size >= End(n + 1)) /\ ValueEnd = End(n + 1)
  <2>1. offset + Byte(offset + 1) = End(n + 1) /\ offset + 2 + ValueLength = End(n + 1)
    <3> DEFINE e == End(n + 1)
               b == Byte(offset + 1)
               l == ValueLength
    <3>1. m \in Nat /\ offset \in Nat /\ e = offset + m + 2 /\ b = m + 2 /\ l = m
      BY <1>5, <1>6, <1>7
    <3> HIDE DEF m, e, b, l
    <3>2. offset + b = e /\ offset + 2 + l = e
      BY <3>1
    <3> QED BY <3>2 DEF e, b, l
  <2> QED BY <2>1 DEF ValueFits, ValueEnd
<1> QED BY <1>2, <1>3, <1>5, <1>6, <1>7, <1>8

LEMMA LaterEnds ==
  ASSUME frame \in Wire, NEW n \in 0..Len(frame.attrs), NEW i \in 1..Len(frame.attrs), n < i
  PROVE  /\ End(i) \in Nat /\ Behind(frame.attrs, n) \in Nat
         /\ Behind(frame.attrs, n) + 2 <= End(i)
<1>1. frame.attrs \in Seq(Attributes) /\ Len(frame.attrs) \in Nat
  BY FrameSizes
<1>2. i \in 0..Len(frame.attrs)
  BY <1>1
<1>3. Behind(frame.attrs, n) \in Nat /\ Behind(frame.attrs, i) \in Nat
  BY <1>1, <1>2, LaidFinite
<1>4. Behind(frame.attrs, n) + 2 <= Behind(frame.attrs, i)
  BY <1>1, <1>2, BehindGrows
<1> QED BY <1>3, <1>4 DEF End

(* It is taken if it is one of those that are there to be read; from the   *)
(* first that is not, none is.                                             *)
LEMMA FitsReadable ==
  ASSUME frame \in Wire, NEW n \in 0..Len(frame.attrs),
         offset = Behind(frame.attrs, n), n # Len(frame.attrs), size \in Nat
  PROVE  /\ n + 1 \in 1..Len(frame.attrs)
         /\ HeaderFits /\ ValueFits <=> n + 1 \in Readable(size)
<1> DEFINE m == Len(frame.attrs[n + 1].value)
<1>1. DOMAIN frame.attrs = 1..Len(frame.attrs)
  BY FrameSizes
<1>2. /\ n + 1 \in 1..Len(frame.attrs)
      /\ m \in Nat /\ offset \in Nat
      /\ frame.attrs[n + 1].value = <<>> <=> m = 0
      /\ End(n + 1) = offset + m + 2
      /\ ValueFits <=> size >= End(n + 1)
  BY NextEnds
<1>3. n + 1 \in Readable(size) <=> End(n + 1) <= size /\ (m = 0 => End(n + 1) < size)
  BY <1>1, <1>2 DEF Readable
<1> HIDE DEF m
<1>4. HeaderFits <=> size > offset + 2
  BY DEF HeaderFits
<1>5. HeaderFits /\ ValueFits <=> End(n + 1) <= size /\ (m = 0 => End(n + 1) < size)
  <2> DEFINE e == End(n + 1)
  <2>1. e = offset + m + 2 /\ (ValueFits <=> size >= e)
    BY <1>2
  <2> HIDE DEF e
  <2>2. size > offset + 2 /\ size >= e <=> e <= size /\ (m = 0 => e < size)
    BY <1>2, <2>1
  <2> QED BY <1>4, <2>1, <2>2 DEF e
<1> QED BY <1>2, <1>3, <1>5

LEMMA NoneLater ==
  ASSUME frame \in Wire, NEW n \in 0..Len(frame.attrs),
         offset = Behind(frame.attrs, n), size \in Nat,
         size <= offset \/ ~(HeaderFits /\ ValueFits)
  PROVE  \A i \in 1..Len(frame.attrs) : n < i => i \notin Readable(size)
<1> SUFFICES ASSUME NEW i \in 1..Len(frame.attrs), n < i, i \in Readable(size)
             PROVE  FALSE
  OBVIOUS
<1>1. Len(frame.attrs) \in Nat /\ DOMAIN frame.attrs = 1..Len(frame.attrs)
  BY FrameSizes
<1>2. End(i) <= size /\ End(i) \in Nat /\ offset + 2 <= End(i) /\ offset \in Nat
  BY LaterEnds DEF Readable
<1>3. size > offset /\ n # Len(frame.attrs)
  BY <1>1, <1>2
<1>4. n + 1 \in 1..Len(frame.attrs) /\ n + 1 \notin Readable(size)
  BY <1>3, FitsReadable, <1>2
<1>5. n + 1 < i
  BY <1>1, <1>4
<1>6. End(n + 1) + 2 <= End(i) /\ End(n + 1) \in Nat
  <2>1. n + 1 \in 0..Len(frame.attrs)
    BY <1>1, <1>4
  <2> QED BY <1>5, <2>1, LaterEnds DEF End
<1>7. End(n + 1) < size
  BY <1>2, <1>6
<1>8. n + 1 \in Readable(size)
  BY <1>1, <1>4, <1>6, <1>7 DEF Readable
<1> QED BY <1>4, <1>8

(* All of them are there if the packet goes on behind the last.            *)
LEMMA AllReadable ==
  ASSUME frame \in Wire, NEW e \in Nat, e > AttrsEnd
  PROVE  Readable(e) = 1..Len(frame.attrs)
<1>1. Len(frame.attrs) \in Nat /\ DOMAIN frame.attrs = 1..Len(frame.attrs)
  BY FrameSizes
<1>2. ASSUME NEW i \in 1..Len(frame.attrs) PROVE End(i) < e
  <2>1. i \in 0..Len(frame.attrs)
    BY <1>1
  <2>2. Behind(frame.attrs, i) \in Nat /\ Behind(frame.attrs, i) <= AttrsEnd
    BY <2>1, WithinAttrs
  <2> QED BY <2>2, RestIs DEF End
<1>3. ASSUME NEW i \in 1..Len(frame.attrs) PROVE End(i) <= e
  <2>1. i \in 0..Len(frame.attrs)
    BY <1>1
  <2>2. End(i) \in Nat
    BY <2>1, WithinAttrs DEF End
  <2> QED BY <1>2, <2>2
<1> QED BY <1>1, <1>2, <1>3 DEF Readable
-----------------------------------------------------------------------------
(* Behind the attributes the parser reads what the rest holds, as long as  *)
(* it stays in the buffer.                                                 *)
LEMMA RestRead ==
  ASSUME frame \in Wire, NEW o \in Nat, AttrsEnd <= o, o < BufferEnd
  PROVE  Byte(o) \in Uint8 /\ Byte(o) = frame.rest[o - AttrsEnd + 1]
<1>1. /\ frame.rest \in Seq(Uint8) /\ Len(frame.rest) \in Nat
      /\ AttrsEnd \in Nat /\ AttrsEnd + Len(frame.rest) = BufferEnd
  BY RestIs
<1>2. o - AttrsEnd + 1 \in 1..Len(frame.rest)
  BY <1>1, BufferIs
<1>3. ~(o < AttrsEnd)
  BY <1>1
<1>4. Byte(o) = frame.rest[o - AttrsEnd + 1]
  BY <1>3 DEF Byte
<1> QED BY <1>1, <1>2, <1>4

(* `length -= 2': 0 and 1 become 254 and 255.                              *)
LEMMA Minus2 ==
  ASSUME NEW b \in Uint8
  PROVE  /\ (b - 2) % 256 \in Uint8
         /\ b >= 2 => (b - 2) % 256 = b - 2
<1>1. b \in Nat /\ b <= 255
  BY Uint8Is
<1>2. (b - 2) % 256 \in Nat /\ (b - 2) % 256 <= 255 /\ (b >= 2 => (b - 2) % 256 = b - 2)
  BY <1>1
<1> QED BY <1>2, Uint8Is

LEMMA RestLength ==
  ASSUME frame \in Wire, offset \in Nat, AttrsEnd <= offset, offset + 2 <= BufferEnd
  PROVE  /\ Byte(offset) \in Uint8 /\ Byte(offset + 1) \in Uint8
         /\ ValueLength \in Uint8
         /\ Byte(offset + 1) >= 2 => ValueEnd = offset + Byte(offset + 1)
<1>1. AttrsEnd \in Nat /\ BufferEnd \in Nat
  BY RestIs, BufferIs
<1>2. /\ offset < BufferEnd /\ offset + 1 \in Nat
      /\ AttrsEnd <= offset + 1 /\ offset + 1 < BufferEnd
  BY <1>1
<1>3. Byte(offset) \in Uint8 /\ Byte(offset + 1) \in Uint8
  BY <1>2, RestRead
<1> DEFINE b == Byte(offset + 1)
<1>4. ValueLength \in Uint8 /\ (b >= 2 => ValueLength = b - 2)
  BY <1>3, Minus2 DEF ValueLength
<1>5. b \in Nat
  BY <1>3, Uint8Is
<1>6. ValueEnd = offset + 2 + ValueLength
  BY DEF ValueEnd
<1> HIDE DEF b
<1>7. b >= 2 => ValueEnd = offset + b
  BY <1>4, <1>5, <1>6
<1> QED BY <1>3, <1>4, <1>7 DEF b

(* Where no attribute begins, none is read; but a length byte of 0 or 1    *)
(* passes for one.                                                         *)
LEMMA RestFits ==
  ASSUME frame \in Wire, offset = AttrsEnd, size \in Nat,
         HeaderFits, ValueFits,
         \/ InBuffer
         \/ size <= BufferEnd
  PROVE  Len(frame.rest) >= 2 /\ frame.rest[2] < 2
<1>1. /\ frame.rest \in Seq(Uint8) /\ Len(frame.rest) \in Nat
      /\ AttrsEnd \in Nat /\ AttrsEnd + Len(frame.rest) = BufferEnd
      /\ Len(frame.rest) < 2 \/ frame.rest[2] < 2 \/ frame.rest[2] > Len(frame.rest)
  BY RestIs
<1>2. offset \in Nat /\ BufferEnd \in Nat /\ size > offset + 2
  BY <1>1, BufferIs DEF HeaderFits
<1>3. offset + 2 <= BufferEnd
  <2>1. InBuffer => offset + 2 <= BufferEnd
    BY DEF InBuffer, HeaderEnd
  <2> QED BY <1>2, <2>1
<1>4. Len(frame.rest) >= 2
  BY <1>1, <1>2, <1>3
<1> DEFINE b == Byte(offset + 1)
<1>5. b \in Nat /\ (b >= 2 => ValueEnd = offset + b)
  BY <1>1, <1>2, <1>3, RestLength, Uint8Is
<1>6. b = frame.rest[2]
  <2> DEFINE o == offset + 1
  <2>1. o \in Nat /\ AttrsEnd <= o /\ o < BufferEnd /\ o - AttrsEnd + 1 = 2
    BY <1>1, <1>2, <1>3
  <2>2. b = Byte(o)
    OBVIOUS
  <2> HIDE DEF o, b
  <2>3. Byte(o) = frame.rest[o - AttrsEnd + 1]
    BY <2>1, RestRead
  <2> QED BY <2>1, <2>2, <2>3
<1>7. size >= offset + b
  BY DEF ValueFits
<1>8. b >= 2 => offset + b <= BufferEnd
  <2>1. InBuffer => ValueEnd <= BufferEnd
    BY DEF InBuffer
  <2> HIDE DEF b
  <2> QED BY <1>2, <1>5, <1>7, <2>1
<1> HIDE DEF b
<1>9. b >= 2 => b <= Len(frame.rest)
  BY <1>1, <1>2, <1>5, <1>8
<1>10. b < 2
  BY <1>1, <1>4, <1>5, <1>6, <1>9
<1> QED BY <1>4, <1>6, <1>10

(* What is read there has its type, and moves the parser ahead.            *)
LEMMA RestValue ==
  ASSUME frame \in Wire, offset \in Nat, AttrsEnd <= offset, HeaderFits, ValueFits, InBuffer
  PROVE  /\ Byte(offset) \in Uint8
         /\ Value(offset + 2, ValueLength) \in Seq(Uint8)
         /\ offset + 2 <= ValueEnd /\ ValueEnd <= BufferEnd /\ ValueEnd \in Nat
<1>1. AttrsEnd \in Nat /\ BufferEnd \in Nat
  BY RestIs, BufferIs
<1>2. offset + 2 <= BufferEnd /\ ValueEnd <= BufferEnd
  BY DEF InBuffer, HeaderEnd
<1>3. Byte(offset) \in Uint8 /\ ValueLength \in Nat
  BY <1>2, RestLength, Uint8Is
<1>4. ValueEnd = offset + 2 + ValueLength
  BY DEF ValueEnd
<1> DEFINE l == ValueLength
<1>5. l \in Nat /\ ValueEnd = offset + 2 + l
  BY <1>3, <1>4
<1> HIDE DEF l
<1>6. ASSUME NEW i \in 1..l PROVE Byte(offset + 2 + i - 1) \in Uint8
  <2>1. /\ offset + 2 + i - 1 \in Nat /\ AttrsEnd <= offset + 2 + i - 1
        /\ offset + 2 + i - 1 < BufferEnd
    BY <1>1, <1>2, <1>5
  <2> QED BY <2>1, RestRead
<1>7. Value(offset + 2, l) \in Seq(Uint8)
  BY <1>5, <1>6 DEF Value
<1> QED BY <1>2, <1>3, <1>5, <1>7 DEF l
-----------------------------------------------------------------------------
(* What only depends on the frame and on the build stays as it is.         *)
LEMMA SameFrame ==
  ASSUME UNCHANGED <<frame, asserts>>
  PROVE  /\ UNCHANGED <<SmallerSize, LengthMatches, Extent, Wrapped, Strays, AttrsEnd>>
         /\ UNCHANGED <<AsLongAsDeclared, EndsWithAttribute>>
         /\ \A m : Readable(m)' = Readable(m)
         /\ \A S, t : Earliest(S, t)' = Earliest(S, t)
         /\ \A n : Types(n)' = Types(n)
         /\ \A i, n : FirstOf(i, n)' = FirstOf(i, n)
<1>1. \A i : End(i)' = End(i)
  BY DEF End
<1>2. \A m : Readable(m)' = Readable(m)
  BY <1>1 DEF Readable
<1>3. \A S, t : Earliest(S, t)' = Earliest(S, t)
  BY DEF Earliest
<1>4. UNCHANGED <<Extent, Wrapped, AttrsEnd, SmallerSize, LengthMatches>>
  BY DEF Extent, Wrapped, AttrsEnd, SmallerSize, LengthMatches
<1>5. UNCHANGED <<Strays, AsLongAsDeclared, EndsWithAttribute>>
  BY <1>2, <1>4 DEF Strays, AsLongAsDeclared, EndsWithAttribute
<1>6. \A n : Types(n)' = Types(n)
  BY DEF Types
<1>7. \A i, n : FirstOf(i, n)' = FirstOf(i, n)
  BY DEF FirstOf
<1> QED BY <1>2, <1>3, <1>4, <1>5, <1>6, <1>7

AvpsOK == avps \in [DOMAIN avps -> Seq(Uint8)] /\ DOMAIN avps \subseteq Uint8

LEMMA TypeFrom ==
  ASSUME TypeOK, Placed', UNCHANGED <<frame, asserts, way>>,
         size' \in Uint16, offset' \in 0..BufferEnd, AvpsOK'
  PROVE  TypeOK'
<1>1. leaf' \in {"none", "RADIUS", "UDP", "TCP"}
  BY DEF Placed, RightLeaf, Takers
<1>2. at' \in {"main", "node", "create", "parse", "queued", "dropped", "aborted",
               "undefined"}
  BY DEF Placed
<1> QED BY <1>1, <1>2 DEF TypeOK, AvpsOK

(* The first attribute of a type stays: std::map::insert.                  *)
LEMMA InsertedIs ==
  ASSUME AvpsOK, NEW t \in Uint8, NEW v \in Seq(Uint8), avps' = Inserted(t, v)
  PROVE  /\ AvpsOK'
         /\ DOMAIN avps' = DOMAIN avps \cup {t}
         /\ \A u \in DOMAIN avps : avps'[u] = avps[u]
         /\ t \notin DOMAIN avps => avps'[t] = v
<1>1. /\ DOMAIN avps' = DOMAIN avps \cup {t}
      /\ \A u \in DOMAIN avps : avps'[u] = avps[u]
      /\ t \notin DOMAIN avps => avps'[t] = v
  BY DEF Inserted
<1>2. \A u \in DOMAIN avps \cup {t} :
        (IF u \in DOMAIN avps THEN avps[u] ELSE v) \in Seq(Uint8)
  BY DEF AvpsOK
<1>3. AvpsOK'
  BY <1>1, <1>2 DEF AvpsOK, Inserted
<1> QED BY <1>1, <1>3

(* A round of the loop reads the attribute that is next.                   *)
LEMMA ReadNext ==
  ASSUME frame \in Wire, TypeOK, NEW n \in 0..Len(frame.attrs), Read(n),
         n # Len(frame.attrs), ReadAttribute
  PROVE  /\ n + 1 \in 0..Len(frame.attrs) /\ n + 1 # 0
         /\ Read(n + 1)'
         /\ AvpsOK'
         /\ offset + 2 <= offset' /\ offset' \in 0..BufferEnd
<1> DEFINE s == frame.attrs
           t == s[n + 1].type
           v == s[n + 1].value
<1>1. /\ UNCHANGED <<frame, asserts, size>> /\ HeaderFits /\ ValueFits
      /\ avps' = Inserted(Byte(offset), Value(offset + 2, ValueLength))
      /\ offset' = ValueEnd /\ ValueEnd <= BufferEnd
      /\ offset = Behind(s, n)
  BY DEF ReadAttribute, InBuffer, Read
<1>2. size \in Nat /\ s \in Seq(Attributes) /\ Len(s) \in Nat /\ BufferEnd \in Nat
  BY FrameSizes, Uint16Is, BufferIs DEF TypeOK
<1>3. n + 1 \in 1..Len(s) /\ n + 1 \in Readable(size)
  BY <1>1, <1>2, FitsReadable
<1>4. n \in Nat /\ n + 1 \in 0..Len(s) /\ n + 1 # 0
  BY <1>2, <1>3
<1>5. /\ offset \in Nat /\ End(n + 1) = offset + Len(v) + 2 /\ Len(v) \in Nat
      /\ ValueEnd = End(n + 1) /\ (ValueFits <=> size >= End(n + 1))
      /\ Byte(offset) = t /\ Value(offset + 2, ValueLength) = v
  BY <1>1, NextEnds
<1>6. avps' = Inserted(t, v)
  BY <1>1, <1>5
<1>7. t \in Uint8 /\ v \in Seq(Uint8)
  <2>1. s[n + 1] \in Attributes
    BY <1>2, <1>3
  <2> QED BY <2>1, AttributeTypes
<1>8. offset' = End(n + 1) /\ offset' <= size' /\ offset' \in 0..BufferEnd
      /\ offset + 2 <= offset'
  <2> DEFINE l == Len(v)
             e == End(n + 1)
  <2>1. /\ offset' = e /\ e = offset + l + 2 /\ e <= BufferEnd
        /\ l \in Nat /\ size >= e /\ size' = size
    BY <1>1, <1>5
  <2> HIDE DEF l, e
  <2>2. /\ offset' = e /\ offset' <= size' /\ offset' \in 0..BufferEnd
        /\ offset + 2 <= offset'
    BY <1>2, <1>5, <2>1
  <2> QED BY <2>2 DEF e
<1>9. /\ DOMAIN avps = Types(n) /\ AvpsOK
      /\ \A u \in DOMAIN avps : Has(u, n)
  BY DEF Read, TypeOK, AvpsOK
<1>10. 1..(n + 1) = (1..n) \cup {n + 1} /\ \A i \in 1..n : i < n + 1 /\ i \in Int
  BY <1>4
<1> HIDE DEF t, v
<1>11. /\ AvpsOK'
       /\ DOMAIN avps' = DOMAIN avps \cup {t}
       /\ \A u \in DOMAIN avps : avps'[u] = avps[u]
       /\ t \notin DOMAIN avps => avps'[t] = v
  BY <1>6, <1>7, <1>9, InsertedIs
<1>12. DOMAIN avps' = Types(n + 1)
  <2>1. Types(n + 1) = Types(n) \cup {s[n + 1].type}
    BY <1>10 DEF Types
  <2> QED BY <1>9, <1>11, <2>1 DEF t
<1>13. \A i \in 1..n : FirstOf(i, n) => FirstOf(i, n + 1)
  BY <1>10 DEF FirstOf
<1>14. t \notin DOMAIN avps => FirstOf(n + 1, n + 1)
  <2>1. t \notin DOMAIN avps => \A j \in 1..n : s[j].type # s[n + 1].type
    BY <1>9 DEF t, Types
  <2>2. n + 1 <= n + 1
    BY <1>4
  <2> QED BY <1>10, <2>1, <2>2 DEF FirstOf
<1>15. \A u \in DOMAIN avps' : \E i \in 1..(n + 1) :
         s[i].type = u /\ FirstOf(i, n + 1) /\ avps'[u] = s[i].value
  <2> SUFFICES ASSUME NEW u \in DOMAIN avps'
               PROVE  \E i \in 1..(n + 1) :
                        s[i].type = u /\ FirstOf(i, n + 1) /\ avps'[u] = s[i].value
    OBVIOUS
  <2>1. CASE u \in DOMAIN avps
    <3>1. PICK i \in 1..n : s[i].type = u /\ FirstOf(i, n) /\ avps[u] = s[i].value
      BY <1>9, <2>1 DEF Has
    <3>2. i \in 1..(n + 1) /\ FirstOf(i, n + 1) /\ avps'[u] = s[i].value
      BY <1>10, <1>11, <1>13, <2>1, <3>1
    <3> QED BY <3>1, <3>2
  <2>2. CASE u \notin DOMAIN avps
    <3>1. u = t
      BY <1>11, <2>2
    <3>2. s[n + 1].type = u /\ FirstOf(n + 1, n + 1) /\ avps'[u] = s[n + 1].value
      BY <1>11, <1>14, <2>2, <3>1 DEF t, v
    <3> QED BY <1>10, <3>2
  <2> QED BY <2>1, <2>2
<1>16. offset' = Behind(frame.attrs, n + 1)
  BY <1>8 DEF End
<1>17. \A i \in 1..(n + 1) : i \in Readable(size)
  BY <1>3, <1>10 DEF Read
<1>18. Read(n + 1)'
  <2>1. /\ frame' = frame /\ Types(n + 1)' = Types(n + 1)
        /\ \A i, m : FirstOf(i, m)' = FirstOf(i, m)
    BY <1>1, SameFrame
  <2>2. Readable(size)' = Readable(size)
    BY <1>1 DEF Readable, End
  <2>3. \A u \in DOMAIN avps' : Has(u, n + 1)'
    BY <1>15, <2>1 DEF Has, s
  <2> QED BY <1>8, <1>12, <1>16, <1>17, <2>1, <2>2, <2>3 DEF Read
<1> QED BY <1>4, <1>8, <1>11, <1>18 DEF s

(* Behind the last attribute it can only go astray, and reads with no harm *)
(* to what it has.                                                         *)
LEMMA ReadAstray ==
  ASSUME frame \in Wire, TypeOK, Read(Len(frame.attrs)) \/ Gone,
         size = SmallerSize, ReadAttribute
  PROVE  /\ Gone'
         /\ AvpsOK'
         /\ offset + 2 <= offset' /\ offset' \in 0..BufferEnd
<1> DEFINE L == Len(frame.attrs)
           t == Byte(offset)
           v == Value(offset + 2, ValueLength)
<1>1. /\ UNCHANGED <<frame, asserts, size>> /\ HeaderFits /\ ValueFits /\ InBuffer
      /\ avps' = Inserted(t, v) /\ offset' = ValueEnd
  BY DEF ReadAttribute
<1>2. /\ AttrsEnd \in Nat /\ BufferEnd \in Nat /\ size \in Nat /\ L \in Nat
      /\ SmallerSize = Extent /\ offset \in Nat /\ AvpsOK
  BY RestIs, BufferIs, FrameSizes, ExtentIs, Uint16Is DEF TypeOK, AvpsOK
<1>3. AttrsEnd <= offset /\ Strays /\ \A u \in Types(L) : u \in DOMAIN avps /\ Has(u, L)
  <2>1. CASE Read(L)
    <3>1. offset = AttrsEnd /\ \A u \in Types(L) : u \in DOMAIN avps /\ Has(u, L)
      BY <2>1 DEF Read, AttrsEnd
    <3>2. Len(frame.rest) >= 2 /\ frame.rest[2] < 2
      BY <1>1, <1>2, <3>1, RestFits
    <3>3. Extent > AttrsEnd + 2
      BY <1>1, <1>2, <3>1 DEF HeaderFits
    <3> QED BY <1>2, <3>1, <3>2, <3>3 DEF Strays
  <2>2. CASE Gone
    BY <1>2, <2>2 DEF Gone
  <2> QED BY <2>1, <2>2
<1>4. /\ t \in Uint8 /\ v \in Seq(Uint8)
      /\ offset + 2 <= offset' /\ offset' <= BufferEnd /\ offset' \in Nat
  BY <1>1, <1>2, <1>3, RestValue
<1> HIDE DEF t, v
<1>5. /\ AvpsOK'
      /\ DOMAIN avps' = DOMAIN avps \cup {t}
      /\ \A u \in DOMAIN avps : avps'[u] = avps[u]
  BY <1>1, <1>2, <1>4, InsertedIs
<1>6. offset' \in 0..BufferEnd /\ offset' > AttrsEnd
  BY <1>2, <1>3, <1>4
<1>7. /\ frame' = frame /\ Types(L)' = Types(L) /\ Strays' = Strays
      /\ AttrsEnd' = AttrsEnd /\ L' = L
      /\ \A i, m : FirstOf(i, m)' = FirstOf(i, m)
  BY <1>1, SameFrame
<1>8. \A u \in Types(L) : u \in DOMAIN avps' /\ Has(u, L)'
  BY <1>3, <1>5, <1>7 DEF Has
<1>9. Gone'
  BY <1>3, <1>6, <1>7, <1>8 DEF Gone
<1> QED BY <1>4, <1>5, <1>6, <1>9

(* When it stops it has read what is there to be read, and has kept it.    *)
Kept ==
  LET S == Readable(Extent)
      T == {frame.attrs[i].type : i \in S} IN
  /\ T \subseteq DOMAIN avps
  /\ \A t \in T : avps[t] = frame.attrs[Earliest(S, t)].value
  /\ DOMAIN avps = T \/ Strays

LEMMA KeptSame ==
  ASSUME Kept, UNCHANGED <<frame, asserts, avps>>
  PROVE  Kept'
<1> DEFINE S == Readable(Extent)
           T == {frame.attrs[i].type : i \in S}
<1>1. S' = S
  BY DEF Readable, Extent, Wrapped, End
<1>2. T' = T
  BY <1>1
<1>3. Strays' = Strays
  BY SameFrame
<1>4. \A t \in T : avps'[t] = frame'.attrs[Earliest(S, t)'].value
  BY SameFrame DEF Kept
<1>5. T' \subseteq DOMAIN avps' /\ (DOMAIN avps' = T' \/ Strays')
  BY <1>2, <1>3 DEF Kept
<1>6. \A t \in T' : avps'[t] = frame'.attrs[Earliest(S, t)'].value
  BY <1>2, <1>4
<1> QED BY <1>5, <1>6 DEF Kept

LEMMA KeptFirst ==
  ASSUME NEW n \in Nat, Readable(Extent) = 1..n,
         \A t \in Types(n) : t \in DOMAIN avps /\ Has(t, n),
         DOMAIN avps = Types(n) \/ Strays
  PROVE  Kept
<1> DEFINE S == 1..n
<1>1. ASSUME NEW t \in Types(n) PROVE avps[t] = frame.attrs[Earliest(S, t)].value
  <2>1. PICK i \in S : /\ frame.attrs[i].type = t /\ FirstOf(i, n)
                       /\ avps[t] = frame.attrs[i].value
    BY <1>1 DEF Has
  <2>2. \A j \in S : frame.attrs[j].type = t => i <= j
    BY <2>1 DEF FirstOf
  <2>3. \A j \in S : (\A h \in S : frame.attrs[h].type = t => j <= h)
                     /\ frame.attrs[j].type = t => j = i
    BY <2>1, <2>2
  <2>4. Earliest(S, t) = i
    BY <2>1, <2>2, <2>3 DEF Earliest
  <2> QED BY <2>1, <2>4
<1>2. {frame.attrs[i].type : i \in Readable(Extent)} = Types(n)
  BY DEF Types
<1> HIDE DEF S
<1> QED BY <1>1, <1>2 DEF Kept, S

LEMMA Stops ==
  ASSUME TypeOK, Parsing, at = "parse",
         size <= offset \/ ~(HeaderFits /\ ValueFits)
  PROVE  /\ Kept
         /\ \/ Strays /\ Extent > AttrsEnd /\ Readable(Extent) = 1..Len(frame.attrs)
            \/ \E n \in 0..Len(frame.attrs) :
                 offset = Behind(frame.attrs, n) /\ Readable(size) = 1..n
<1>1. /\ size = SmallerSize /\ frame \in Wire
      /\ (\E n \in 0..Len(frame.attrs) : Read(n)) \/ Gone
  BY DEF Parsing, TypeOK
<1>2. /\ Len(frame.attrs) \in Nat /\ DOMAIN frame.attrs = 1..Len(frame.attrs)
      /\ size = Extent /\ size \in Nat
  BY <1>1, FrameSizes, ExtentIs
<1>3. CASE Gone
  <2>1. Extent > AttrsEnd
    BY <1>1, <1>2, <1>3, RestIs DEF Gone, Strays
  <2>2. Readable(Extent) = 1..Len(frame.attrs)
    BY <1>1, <1>2, <2>1, AllReadable
  <2>3. Kept
    BY <1>2, <1>3, <2>2, KeptFirst DEF Gone
  <2> QED BY <1>3, <2>1, <2>2, <2>3 DEF Gone
<1>4. ASSUME NEW n \in 0..Len(frame.attrs), Read(n)
      PROVE  Kept /\ offset = Behind(frame.attrs, n) /\ Readable(size) = 1..n
  <2>1. offset = Behind(frame.attrs, n)
    BY <1>4 DEF Read
  <2>2. Readable(size) = 1..n
    <3>1. \A i \in Readable(size) : i \in 1..Len(frame.attrs)
      BY <1>2 DEF Readable
    <3>2. \A i \in Readable(size) : ~(n < i)
      BY <1>1, <1>2, <2>1, <3>1, NoneLater
    <3>3. \A i \in Readable(size) : i \in 1..n
      BY <1>2, <3>1, <3>2
    <3>4. \A i \in 1..n : i \in Readable(size)
      BY <1>4 DEF Read
    <3> QED BY <3>3, <3>4
  <2>3. n \in Nat
    BY <1>2
  <2>4. Kept
    BY <1>2, <1>4, <2>2, <2>3, KeptFirst DEF Read
  <2> QED BY <2>1, <2>2, <2>4
<1> QED BY <1>1, <1>3, <1>4

(* It leaves the buffer only astray, or if the sizes wrapped.              *)
LEMMA Leaves ==
  ASSUME TypeOK, Parsing, LeavesBuffer
  PROVE  Strays \/ Wrapped
<1> SUFFICES ASSUME ~Wrapped, ~Strays PROVE FALSE
  OBVIOUS
<1>1. /\ size = SmallerSize /\ frame \in Wire /\ at = "parse" /\ ~InBuffer
      /\ (\E n \in 0..Len(frame.attrs) : Read(n)) \/ Gone
  BY DEF Parsing, TypeOK, LeavesBuffer
<1>2. /\ size \in Nat /\ size = Extent /\ size <= BufferEnd
      /\ offset \in Nat /\ BufferEnd \in Nat
  BY <1>1, FrameSizes, ExtentIs, BufferIs DEF TypeOK
<1>3. HeaderFits /\ ValueFits /\ ~(ValueEnd <= BufferEnd)
  <2>1. HeaderEnd <= BufferEnd
    BY <1>2 DEF HeaderEnd, HeaderFits
  <2> QED BY <1>1, <2>1 DEF InBuffer
<1>4. PICK n \in 0..Len(frame.attrs) : Read(n)
  BY <1>1 DEF Gone
<1>5. offset = Behind(frame.attrs, n)
  BY <1>4 DEF Read
<1>6. CASE n # Len(frame.attrs)
  <2>1. ValueEnd = End(n + 1) /\ size >= End(n + 1) /\ End(n + 1) \in Nat
    BY <1>1, <1>3, <1>5, <1>6, NextEnds
  <2> QED BY <1>2, <1>3, <2>1
<1>7. CASE n = Len(frame.attrs)
  <2>1. offset = AttrsEnd
    BY <1>5, <1>7 DEF AttrsEnd
  <2>2. Len(frame.rest) >= 2 /\ frame.rest[2] < 2
    BY <1>1, <1>2, <1>3, <2>1, RestFits
  <2>3. Extent > AttrsEnd + 2
    BY <1>2, <1>3, <2>1 DEF HeaderFits
  <2> QED BY <2>2, <2>3 DEF Strays
<1> QED BY <1>6, <1>7
-----------------------------------------------------------------------------
(* The frame is given to a leaf, or dropped.                               *)
LEMMA DecodedDispatch ==
  ASSUME Decoded, RootDispatch \/ NodeDispatch \/ Route, Placed'
  PROVE  Decoded'
<1>1. /\ UNCHANGED <<frame, asserts, way, size, offset, avps>>
      /\ at \in {"main", "node"} /\ at' \in {"node", "create", "dropped"}
  BY DEF RootDispatch, NodeDispatch, Route, Give, Drop
<1>2. TypeOK'
  BY <1>1, TypeFrom DEF Decoded, TypeOK, AvpsOK
<1>3. Untouched' /\ offset' = 0
  BY <1>1 DEF Decoded, Untouched
<1>4. ReadsWhatWasReceived'
  BY <1>1, <1>3 DEF ReadsWhatWasReceived, RADIUSHeader
<1> QED BY <1>1, <1>2, <1>3, <1>4
    DEF Decoded, Parsing, AttributesKept, WholeIsConstructible

(* A packet of another kind is made, or assert of the length fails.        *)
LEMMA DecodedUnparsed ==
  ASSUME Decoded, CreatePlain \/ LengthFails, Placed'
  PROVE  Decoded'
<1>1. /\ UNCHANGED <<frame, asserts, way, leaf, size, offset, avps>> /\ at = "create"
      /\ \/ at' = "queued" /\ leaf # "RADIUS"
         \/ at' = "aborted" /\ leaf = "RADIUS" /\ asserts /\ ~LengthMatches
  BY DEF CreatePlain, LengthFails
<1>2. TypeOK'
  BY <1>1, TypeFrom DEF Decoded, TypeOK, AvpsOK
<1>3. frame \in Wire /\ offset = 0
  BY <1>1 DEF Decoded, TypeOK, Untouched
<1>4. WholeIsConstructible'
  <2>1. ~LengthMatches => ~AsLongAsDeclared
    BY <1>3, ExtentIs
  <2> QED BY <1>1, <2>1, SameFrame DEF WholeIsConstructible
<1>5. ReadsWhatWasReceived'
  BY <1>1, <1>3 DEF ReadsWhatWasReceived, RADIUSHeader
<1> QED BY <1>1, <1>2, <1>4, <1>5 DEF Decoded, Untouched, Parsing, AttributesKept

(* The parser begins behind the header.                                    *)
LEMMA DecodedCreate ==
  ASSUME Decoded, CreateRADIUS, Placed'
  PROVE  Decoded'
<1>1. /\ UNCHANGED <<frame, asserts, way, leaf, avps>> /\ leaf = "RADIUS"
      /\ at = "create" /\ at' = "parse" /\ (asserts => LengthMatches)
      /\ size' = SmallerSize /\ offset' = 20
  BY DEF CreateRADIUS, RADIUSHeader
<1>2. frame \in Wire /\ avps = <<>> /\ TypeOK
  BY <1>1 DEF Decoded, TypeOK, Untouched
<1>3. size' \in Uint16
  <2>1. SmallerSize \in Nat /\ SmallerSize <= 65535
    <3>1. /\ SmallerSize \in Nat /\ SmallerSize <= frame.length
          /\ frame.length \in Nat /\ frame.length <= 65535
      BY <1>2, FrameSizes
    <3> QED BY <3>1
  <2> QED BY <1>1, <2>1, Uint16Is
<1>4. offset' \in 0..BufferEnd
  BY <1>1, BufferIs
<1>5. TypeOK'
  BY <1>1, <1>2, <1>3, <1>4, TypeFrom DEF TypeOK, AvpsOK
<1>6. 0 \in 0..Len(frame'.attrs) /\ Read(0)'
  <2>1. Len(frame.attrs) \in Nat /\ Behind(frame.attrs, 0) = 20
    BY <1>2, FrameSizes, BehindNone
  <2>2. DOMAIN avps = {}
    BY <1>2
  <2>3. 1..0 = {}
    OBVIOUS
  <2>4. offset' = Behind(frame'.attrs, 0)
    BY <1>1, <2>1
  <2>5. DOMAIN avps' = Types(0)'
    BY <1>1, <2>2, <2>3 DEF Types
  <2> QED BY <1>1, <2>1, <2>2, <2>3, <2>4, <2>5 DEF Read
<1>7. Parsing'
  BY <1>1, <1>6, SameFrame DEF Parsing
<1>8. ReadsWhatWasReceived'
  BY <1>1 DEF ReadsWhatWasReceived, RADIUSHeader
<1> QED BY <1>1, <1>5, <1>7, <1>8 DEF Decoded, Untouched, AttributesKept,
    WholeIsConstructible

(* One attribute more is read, or what passes for one.                     *)
LEMMA DecodedRead ==
  ASSUME Decoded, ReadAttribute, Placed'
  PROVE  /\ Decoded'
         /\ size' = size /\ offset + 2 <= offset'
         /\ offset' <= BufferEnd
         /\ offset' <= size \/ Strays
<1>1. /\ UNCHANGED <<frame, asserts, way, at, leaf, size>> /\ at = "parse"
  BY DEF ReadAttribute
<1>2. /\ frame \in Wire /\ TypeOK /\ leaf = "RADIUS" /\ size = SmallerSize
      /\ asserts => LengthMatches
      /\ (\E n \in 0..Len(frame.attrs) : Read(n)) \/ Gone
  BY <1>1 DEF Decoded, TypeOK, Parsing
<1>3. /\ AvpsOK' /\ offset + 2 <= offset' /\ offset' \in 0..BufferEnd
      /\ \/ Gone'
         \/ \E n \in 0..Len(frame.attrs) : n # 0 /\ Read(n)'
  <2>1. CASE Gone \/ Read(Len(frame.attrs))
    BY <1>2, <2>1, ReadAstray
  <2>2. CASE \E n \in 0..Len(frame.attrs) : Read(n) /\ n # Len(frame.attrs)
    <3>1. PICK n \in 0..Len(frame.attrs) : Read(n) /\ n # Len(frame.attrs)
      BY <2>2
    <3>2. n + 1 \in 0..Len(frame.attrs) /\ n + 1 # 0 /\ Read(n + 1)'
          /\ AvpsOK' /\ offset + 2 <= offset' /\ offset' \in 0..BufferEnd
      BY <1>2, <3>1, ReadNext
    <3> QED BY <3>2
  <2> QED BY <1>2, <2>1, <2>2
<1>4. TypeOK'
  BY <1>1, <1>2, <1>3, TypeFrom DEF TypeOK
<1>5. UNCHANGED <<SmallerSize, LengthMatches, Strays, Wrapped, Extent>>
  BY <1>1, SameFrame
<1>6. Parsing'
  BY <1>1, <1>2, <1>3, <1>5 DEF Parsing
<1>7. Strays \/ offset' <= size
  <2>1. Gone' => Strays
    BY <1>5 DEF Gone
  <2>2. \A n \in 0..Len(frame.attrs) : n # 0 /\ Read(n)' => offset' <= size
    BY <1>1 DEF Read
  <2> QED BY <1>3, <2>1, <2>2
<1>8. offset' \in Nat /\ offset' <= BufferEnd
  BY <1>3, BufferIs
<1>9. ReadsWhatWasReceived'
  <2>1. asserts => ~Wrapped
    BY <1>2, ExtentIs
  <2>2. ~Wrapped /\ ~Strays => Lower + offset' <= frame.captured
    <3>1. ~Wrapped => Lower + size <= frame.captured
      BY <1>2, ExtentIs
    <3>2. size \in Nat /\ frame.captured \in Nat /\ Lower = 42
      <4>1. frame.captured \in BufferFill
        BY <1>2, FrameSizes DEF WireFrames
      <4> QED BY <1>2, <4>1, FrameSizes, BufferIs, BufferAssumption DEF BufferFill
    <3> QED BY <1>7, <1>8, <3>1, <3>2
  <2>3. /\ Lower' = Lower /\ frame' = frame /\ asserts' = asserts /\ at' = "parse"
        /\ Lower \in Nat /\ frame.captured \in Nat
    <3>1. frame.captured \in BufferFill
      BY <1>2, FrameSizes DEF WireFrames
    <3> QED BY <1>1, <3>1, BufferIs, BufferAssumption DEF BufferFill, Lower
  <2>4. Lower + offset' > frame.captured => Strays \/ (Wrapped /\ ~asserts)
    BY <1>8, <2>1, <2>2, <2>3
  <2> QED BY <1>5, <2>3, <2>4 DEF ReadsWhatWasReceived
<1>10. Decoded'
  BY <1>1, <1>4, <1>6, <1>9 DEF Decoded, Untouched, AttributesKept, WholeIsConstructible
<1> QED BY <1>1, <1>3, <1>7, <1>8, <1>10

(* The parser is at its end, or gives up: it has kept what there is to be  *)
(* read, and in a build with assertions it ends where the packet does.     *)
LEMMA DecodedStop ==
  ASSUME Decoded, AttributeFails \/ ParseEnds, Placed'
  PROVE  Decoded'
<1>1. /\ UNCHANGED <<frame, asserts, way, leaf, size, offset, avps>> /\ at = "parse"
      /\ \/ size <= offset /\ at' = "queued"
         \/ size > offset /\ ~(HeaderFits /\ ValueFits) /\ at' = BreaksOff
  BY DEF AttributeFails, ParseEnds
<1>2. /\ frame \in Wire /\ TypeOK /\ leaf = "RADIUS" /\ size = SmallerSize
      /\ asserts => LengthMatches
      /\ asserts \in BOOLEAN /\ size = Extent
  BY <1>1, ExtentIs DEF Decoded, TypeOK, Parsing
<1>3. at' \in {"queued", "aborted"} /\ (at' = "aborted" => asserts)
  BY <1>1 DEF BreaksOff
<1>4. TypeOK'
  BY <1>1, <1>2, TypeFrom DEF TypeOK, AvpsOK
<1>5. /\ Kept
      /\ \/ Strays /\ Extent > AttrsEnd /\ Readable(Extent) = 1..Len(frame.attrs)
         \/ \E n \in 0..Len(frame.attrs) :
              offset = Behind(frame.attrs, n) /\ Readable(size) = 1..n
  BY <1>1, <1>2, Stops DEF Decoded
<1>6. AttributesKept'
  <2>1. Kept'
    BY <1>1, <1>5, KeptSame
  <2> QED BY <2>1 DEF AttributesKept, Kept
<1>7. asserts => size = frame.length /\ AsLongAsDeclared
  BY <1>2, ExtentIs
<1>8. /\ Len(frame.attrs) \in Nat /\ frame.length \in Nat
      /\ AttrsEnd \in Nat /\ offset \in Nat
  BY <1>2, FrameSizes, RestIs, BufferIs DEF TypeOK
<1>9. ASSUME size <= offset, asserts PROVE EndsWithAttribute \/ Strays
  BY <1>5, <1>7, <1>9 DEF EndsWithAttribute
<1>10. ASSUME size > offset, asserts PROVE ~EndsWithAttribute
  <2> SUFFICES ASSUME NEW m \in 0..Len(frame.attrs), Readable(size) = 1..m,
                      size <= Behind(frame.attrs, m)
               PROVE  FALSE
    BY <1>7, <1>10 DEF EndsWithAttribute
  <2>1. ASSUME NEW n \in 0..Len(frame.attrs), Readable(size) = 1..n PROVE n = m
    <3>1. n \in Nat /\ m \in Nat /\ 1..n = 1..m
      BY <1>8, <2>1
    <3>2. n \in 1..n \/ n = 0
      BY <3>1
    <3>3. m \in 1..m \/ m = 0
      BY <3>1
    <3> QED BY <3>1, <3>2, <3>3
  <2>2. CASE Extent > AttrsEnd /\ Readable(Extent) = 1..Len(frame.attrs)
    <3>1. m = Len(frame.attrs)
      <4>1. Len(frame.attrs) \in 0..Len(frame.attrs)
        BY <1>8
      <4> QED BY <1>2, <2>1, <2>2, <4>1
    <3> QED BY <1>2, <1>8, <2>2, <3>1, FrameSizes DEF AttrsEnd
  <2>3. CASE \E n \in 0..Len(frame.attrs) :
               offset = Behind(frame.attrs, n) /\ Readable(size) = 1..n
    <3>1. offset = Behind(frame.attrs, m)
      BY <2>1, <2>3
    <3>2. size \in Nat
      BY <1>2, FrameSizes
    <3> QED BY <1>8, <1>10, <3>1, <3>2
  <2> QED BY <1>5, <2>2, <2>3
<1>11. WholeIsConstructible'
  <2>1. CASE size <= offset /\ at' = "queued"
    BY <1>1, <1>7, <1>9, <2>1, SameFrame DEF WholeIsConstructible
  <2>2. CASE size > offset /\ at' = BreaksOff
    BY <1>1, <1>2, <1>10, <2>2, SameFrame DEF WholeIsConstructible, BreaksOff
  <2> QED BY <1>1, <2>1, <2>2
<1>12. ReadsWhatWasReceived'
  BY <1>1, <1>3, SameFrame DEF Decoded, ReadsWhatWasReceived, Lower
<1> QED BY <1>3, <1>4, <1>6, <1>11, <1>12 DEF Decoded, Untouched, Parsing

(* It reads behind the buffer.                                             *)
LEMMA DecodedLeaves ==
  ASSUME Decoded, LeavesBuffer, Placed'
  PROVE  Decoded'
<1>1. /\ UNCHANGED <<frame, asserts, way, leaf, size, offset, avps>> /\ at = "parse"
      /\ at' = "undefined"
  BY DEF LeavesBuffer
<1>2. frame \in Wire /\ (asserts => LengthMatches) /\ TypeOK
  BY <1>1 DEF Decoded, TypeOK, Parsing
<1>3. TypeOK'
  BY <1>1, <1>2, TypeFrom DEF TypeOK, AvpsOK
<1>4. Strays \/ (Wrapped /\ ~asserts)
  BY <1>2, Leaves, ExtentIs DEF Decoded
<1>5. ReadsWhatWasReceived'
  BY <1>1, <1>4, SameFrame DEF ReadsWhatWasReceived
<1> QED BY <1>1, <1>3, <1>5 DEF Decoded, Untouched, Parsing, AttributesKept,
    WholeIsConstructible
-----------------------------------------------------------------------------
LEMMA DecodedInit == Init => Decoded
<1> SUFFICES ASSUME Init PROVE Decoded
  OBVIOUS
<1>1. TypeOK
  <2>1. 0 \in Uint16 /\ 0 \in 0..BufferEnd
    BY Uint16Is, BufferIs
  <2>2. <<>> \in [DOMAIN <<>> -> Seq(Uint8)] /\ DOMAIN <<>> \subseteq Uint8
    OBVIOUS
  <2> QED BY <2>1, <2>2 DEF Init, TypeOK
<1>2. ReadsWhatWasReceived
  BY DEF Init, ReadsWhatWasReceived, RADIUSHeader
<1> QED BY <1>1, <1>2 DEF Init, Decoded, Placed, RightLeaf, Ended, Untouched, Parsing,
    AttributesKept, WholeIsConstructible

LEMMA DecodedSame ==
  ASSUME Decoded, UNCHANGED decodingVars PROVE Decoded'
<1>1. UNCHANGED <<frame, asserts, way, at, leaf, size, offset, avps>>
  BY DEF decodingVars
<1>2. TypeOK' /\ Untouched'
  BY <1>1 DEF Decoded, TypeOK, Untouched
<1>3. Placed'
  BY PlacedStep DEF Decoded
<1>4. ReadsWhatWasReceived' /\ WholeIsConstructible'
  BY <1>1, SameFrame DEF Decoded, ReadsWhatWasReceived, WholeIsConstructible, Lower
<1>5. Parsing'
  <2>1. \A t, n : Has(t, n) => Has(t, n)'
    BY <1>1, SameFrame DEF Has
  <2>2. \A n : Read(n) => Read(n)'
    <3>1. Readable(size)' = Readable(size)
      BY <1>1 DEF Readable, End
    <3>2. \A n : Types(n)' = Types(n)
      BY <1>1, SameFrame
    <3> QED BY <1>1, <2>1, <3>1, <3>2 DEF Read
  <2>3. Gone => Gone'
    <3>1. Strays' = Strays /\ AttrsEnd' = AttrsEnd /\ \A n : Types(n)' = Types(n)
      BY <1>1, SameFrame
    <3> QED BY <1>1, <2>1, <3>1 DEF Gone
  <2>4. at = "parse" => (\E n \in 0..Len(frame'.attrs) : Read(n)') \/ Gone'
    BY <1>1, <2>2, <2>3 DEF Decoded, Parsing
  <2> QED BY <1>1, <2>4, SameFrame DEF Decoded, Parsing
<1>6. AttributesKept'
  <2>1. Kept => Kept'
    BY <1>1, KeptSame
  <2>2. AttributesKept <=> (at = "queued" /\ leaf = "RADIUS" => Kept)
    BY DEF AttributesKept, Kept
  <2>3. (at' = "queued" /\ leaf' = "RADIUS" => Kept') => AttributesKept'
    BY DEF AttributesKept, Kept
  <2> QED BY <1>1, <2>1, <2>2, <2>3 DEF Decoded
<1> QED BY <1>2, <1>3, <1>4, <1>5, <1>6 DEF Decoded

LEMMA DecodedStep == Decoded /\ [Next]_decodingVars => Decoded'
<1> SUFFICES ASSUME Decoded, [Next]_decodingVars PROVE Decoded'
  OBVIOUS
<1>1. Placed'
  BY PlacedStep DEF Decoded
<1>2. CASE RootDispatch \/ NodeDispatch \/ Route
  BY <1>1, <1>2, DecodedDispatch
<1>3. CASE CreatePlain \/ LengthFails
  BY <1>1, <1>3, DecodedUnparsed
<1>4. CASE CreateRADIUS
  BY <1>1, <1>4, DecodedCreate
<1>5. CASE ReadAttribute
  BY <1>1, <1>5, DecodedRead
<1>6. CASE AttributeFails \/ ParseEnds
  BY <1>1, <1>6, DecodedStop
<1>7. CASE LeavesBuffer
  BY <1>1, <1>7, DecodedLeaves
<1>8. CASE UNCHANGED decodingVars
  BY <1>8, DecodedSame
<1> QED BY <1>2, <1>3, <1>4, <1>5, <1>6, <1>7, <1>8 DEF Next, Step

(* The invariant: where the frame is and what of it has been read.         *)
THEOREM AlwaysDecoded == Spec => []Decoded
BY DecodedInit, DecodedStep, PTL DEF Spec

(* Every variable of the decoding has its type: `size' stays a 16-bit      *)
(* number although RADIUSSize may wrap, and the offset stays in the buffer *)
(* as long as what the program does is defined (RADIUSPacket.cpp).         *)
THEOREM TypeCorrect == Spec => []TypeOK
<1>1. Decoded => TypeOK
  BY DEF Decoded
<1> QED BY <1>1, AlwaysDecoded, PTL

(* Whatever was captured, what the constructor of RADIUSPacket leaves in   *)
(* m_avps has the well-formed attributes that were received, the first of  *)
(* each type, with their values; it has more only if a length byte of 0 or *)
(* 1 follows them.                                                         *)
THEOREM AttributesRight == Spec => []AttributesKept
<1>1. Decoded => AttributesKept
  BY DEF Decoded
<1> QED BY <1>1, AlwaysDecoded, PTL

(* With assertions, a packet comes out of the constructor only if it was   *)
(* captured as long as its header says, and ends with an attribute or has  *)
(* a length byte of 0 or 1 behind its attributes; one that was captured so *)
(* and ends with an attribute is never aborted on.                         *)
THEOREM WholeMeansConstructible == Spec => []WholeIsConstructible
<1>1. Decoded => WholeIsConstructible
  BY DEF Decoded
<1> QED BY <1>1, AlwaysDecoded, PTL

(* The parser takes bytes that were not received for an attribute, or      *)
(* leaves the buffer, only behind a length byte of 0 or 1 or, without      *)
(* assertions, if less than the headers was captured (RADIUSPacket.cpp).   *)
THEOREM NothingElseRead == Spec => []ReadsWhatWasReceived
<1>1. Decoded => ReadsWhatWasReceived
  BY DEF Decoded
<1> QED BY <1>1, AlwaysDecoded, PTL

(* What DecodingEnds rests on: each round of the parser's loop that goes   *)
(* on moves the offset ahead by two bytes at least and leaves it in the    *)
(* buffer, and past `size' only if it went astray: no more rounds than     *)
(* half the bytes of the buffer, before the loop is left for good.         *)
ParserAdvances ==
  [][at = "parse" /\ at' = "parse" =>
       /\ size' = size
       /\ offset + 2 <= offset' /\ offset' <= BufferEnd
       /\ offset' <= size \/ Strays]_decodingVars
(* The loop over the attributes is bounded, whatever the buffer holds.     *)
THEOREM RoundsBounded == Spec => ParserAdvances
<1>1. Decoded /\ [Next]_decodingVars =>
        [at = "parse" /\ at' = "parse" =>
           /\ size' = size
           /\ offset + 2 <= offset' /\ offset' <= BufferEnd
           /\ offset' <= size \/ Strays]_decodingVars
  <2> SUFFICES ASSUME Decoded, Next, at = "parse", at' = "parse",
                      ~UNCHANGED decodingVars
               PROVE  /\ size' = size
                      /\ offset + 2 <= offset' /\ offset' <= BufferEnd
                      /\ offset' <= size \/ Strays
    OBVIOUS
  <2>1. ReadAttribute
    BY DEF Next, Step, RootDispatch, NodeDispatch, Route, CreatePlain, LengthFails,
       CreateRADIUS, AttributeFails, BreaksOff, LeavesBuffer, ParseEnds
  <2>2. Placed'
    BY PlacedStep DEF Decoded
  <2> QED BY <2>1, <2>2, DecodedRead
<1> QED BY <1>1, AlwaysDecoded, PTL DEF Spec, ParserAdvances
=============================================================================
