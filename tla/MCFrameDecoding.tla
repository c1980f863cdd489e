-------------------------- MODULE MCFrameDecoding --------------------------
(* Model-checking instances of FrameDecoding: the headers of every kind of *)
(* frame; RADIUS packets of up to three attributes, received whole, cut    *)
(* off at any byte as far back as into the RADIUS header, or not received, *)
(* with the content of the buffer's last use; and packets that are not     *)
(* well-formed, with length fields that do not fit what follows.           *)
EXTENDS FrameDecoding, SequencesExt

Header(e, p, s, d) ==
  [ether |-> e, proto |-> p, shost |-> 10, dhost |-> 20, saddr |-> 3,
   daddr |-> 9, sport |-> s, dport |-> d, ident |-> 7]

(* The buffer is zero behind what it was given (calloc).                   *)
Buffer(h, as, r, len, cap) ==
  LET room == BufferEnd - Behind(as, Len(as)) IN
  h @@ [attrs |-> as, length |-> len, captured |-> cap,
        rest |-> SubSeq(r, 1, IF room < Len(r) THEN room ELSE Len(r))
                   \o [i \in 1..(IF room < Len(r) THEN 0 ELSE room - Len(r)) |-> 0]]

With(h, as, lost) ==
  LET len == Behind(as, Len(as)) IN
  Buffer(h, as, <<>>, len,
         IF lost <= len - RADIUSHeader + 9 THEN Lower + len - lost ELSE 0)

Attribute(Values) == [type : {1, 26}, value : Values]
AttributeLists ==
  UNION {[1..n -> Attribute({<<>>, <<5>>, <<6, 1>>})] : n \in 0..2}
    \cup [1..3 -> Attribute({<<>>, <<5>>})]

HeaderFrames ==
  {With(Header(e, p, s, d), <<[type |-> 1, value |-> <<5>>]>>, 0) :
     e \in {ETHERTYPE_IP, 2054}, p \in {1, 6, 17},
     s \in {53, 1812, 1813}, d \in {53, 1812, 1813}}

RadiusFrames ==
  {With(Header(ETHERTYPE_IP, 17, 4000, 1812), as, lost) :
     as \in AttributeLists, lost \in 0..18}

(* What begins like an attribute and is none; where the parser goes on     *)
(* behind the 254 or 255 bytes lie an attribute of a type that may have    *)
(* been read before and one that is not well-formed either.                *)
Zeros(n) == [i \in 1..n |-> 0]
Rests ==
  {<<1>>, <<26, 0>>, <<26, 1>>, <<1, 255>>,
   <<26, 0>> \o Zeros(254) \o <<1, 3, 9, 26, 4, 8, 8, 26>>,
   <<26, 1>> \o Zeros(255) \o <<26, 3, 9, 1, 200>>}
Long(n) == [type |-> 1, value |-> [i \in 1..n |-> 7]]
SomeLists ==
  {<<>>, <<[type |-> 1, value |-> <<5>>]>>,
   <<[type |-> 26, value |-> <<>>], [type |-> 1, value |-> <<6, 1>>]>>,
   <<Long(60)>>, <<Long(200), Long(86)>>, <<Long(200), Long(85)>>}
OddFrames ==
  {Buffer(Header(ETHERTYPE_IP, 17, 4000, 1812), as, r, len, cap) :
     as \in SomeLists, r \in Rests, cap \in {0, Lower + 20, MaxPacket},
     len \in {0, BufferEnd, BufferEnd + 1, 65535}}
  \cup
  {Buffer(Header(ETHERTYPE_IP, 17, 4000, 1812), as, r, Behind(as, Len(as)) + n,
          Lower + Behind(as, Len(as)) + n - lost) :
     as \in SomeLists, r \in Rests, n \in -3..4 \cup 256..266, lost \in 0..1}

AllFrames ==
  HeaderFrames \cup RadiusFrames
    \cup {f \in OddFrames : Unparsable(f.rest) /\ f.captured <= MaxPacket}

(* A definition of its own, so that TLC evaluates the set once.            *)
TheWire == AllFrames
=============================================================================
