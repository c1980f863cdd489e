-------------------------------- MODULE NIC --------------------------------
(***************************************************************************)
(* The capture side (src/NIC.cpp and the main loop of src/main.cpp): the   *)
(* pool of raw packet buffers, NIC::receivePacket, and the time stamps it  *)
(* leaves on the buffers.                                                  *)
(*                                                                         *)
(* The pool is a FIFO channel whose operations take effect at once; that   *)
(* this is what its spin-locked queue does is the subject of ObjectQueue.  *)
(* A buffer keeps what was last received into it: recycling clears nothing. *)
(*                                                                         *)
(* CLOCK_REALTIME is modelled by the age of each stamp, the difference     *)
(* "now - stamp" a reader would compute, in ticks.  Ages stop growing at   *)
(* Old, beyond which all of them are past every timeout.                   *)
(***************************************************************************)
EXTENDS Integers, Sequences, FiniteSets

CONSTANTS Buffers, NoBuffer,
          Ids,          \* RADIUS packet identifiers, m_packetIdentifier
          Codes,        \* RADIUS codes, m_code
          Wire,         \* the frames that may arrive
          MaxCaptures,  \* bound: calls of receivePacket that return
          RecvMayFail,  \* whether recvfrom may return -1
          Timeout,      \* m_responseTimeoutMsec, in ticks
          MaxSteps      \* bound: times CLOCK_REALTIME is set

Leaves == {"RADIUS", "UDP", "TCP"}

(* A frame: the leaf of the dispatch tree that takes it ("none" if no leaf *)
(* does) and, for a RADIUS frame, its identifier, its code and whether the *)
(* assertions of its constructor pass: FrameDecoding says when they do.    *)
Frames == [leaf : Leaves \cup {"none"}, ident : Ids, code : Codes,
           whole : BOOLEAN]

ASSUME NICAssumption ==
  /\ IsFiniteSet(Buffers)
  /\ NoBuffer \notin Buffers
  /\ Ids # {} /\ Codes # {}
  /\ Wire \subseteq Frames
  /\ MaxCaptures \in Nat
  /\ RecvMayFail \in BOOLEAN
  /\ Timeout \in Nat \ {0}
  /\ MaxSteps \in Nat

Old == Timeout + MaxSteps

VARIABLES pool,      \* NIC::m_nicRecvPacketsPool, the next buffer first
          hand,      \* packetPtr: the buffer the main thread owns
          phase,     \* where the main thread is
          frame,     \* what each buffer holds
          no,        \* the number of the reception that filled each buffer
          age,       \* now - m_timeStamp of each buffer
          since,     \* history: ticks since each buffer was received into
          stepped,   \* history: whether the clock was set since then
          captures,  \* receptions so far
          steps      \* times the clock was set so far

clockVars == <<age, since, stepped, steps>>
nicVars == <<pool, hand, phase, frame, no, age, since, stepped, captures,
             steps>>

(* ETHPacket's constructor: zeroed data, which no leaf takes, and a time   *)
(* stamp of zero, which is older than any timeout.                         *)
Blank == CHOOSE f \in Frames : f.leaf = "none" /\ ~f.whole

(* The pool is generated with every buffer in it once.                     *)
NICInit ==
  /\ pool \in {p \in [1..Cardinality(Buffers) -> Buffers] :
                 /\ \A b \in Buffers : \E i \in DOMAIN p : p[i] = b
                 /\ \A i, j \in DOMAIN p : p[i] = p[j] => i = j}
  /\ hand = NoBuffer
  /\ phase = "pool"
  /\ frame = [b \in Buffers |-> Blank]
  /\ no = [b \in Buffers |-> 0]
  /\ age = [b \in Buffers |-> Old]
  /\ since = [b \in Buffers |-> 0]
  /\ stepped = [b \in Buffers |-> FALSE]
  /\ captures = 0
  /\ steps = 0
-----------------------------------------------------------------------------
(* ObjectPoolItemDeleter: the buffer goes to the back of the pool.         *)
ForgetBuffer(b) == pool
PutTwice(b) == pool \o <<b, b>>
Released(b) == Append(pool, b)

(* setTimestamp after a successful recvfrom.                               *)
StampKept == age
Stamped == [age EXCEPT ![hand] = 0]

(* m_nicRecvPacketsPool.getObject(): waits while the pool is empty.        *)
TakeBuffer ==
  /\ phase = "pool"
  /\ pool # <<>>
  /\ hand' = Head(pool)
  /\ pool' = Tail(pool)
  /\ phase' = "recv"
  /\ UNCHANGED <<frame, no, captures, clockVars>>

(* recvfrom returns a frame.                                               *)
Receive(f) ==
  /\ phase = "recv"
  /\ captures < MaxCaptures
  /\ captures' = captures + 1
  /\ frame' = [frame EXCEPT ![hand] = f]
  /\ no' = [no EXCEPT ![hand] = captures + 1]
  /\ age' = Stamped
  /\ since' = [since EXCEPT ![hand] = 0]
  /\ stepped' = [stepped EXCEPT ![hand] = FALSE]
  /\ phase' = "route"
  /\ UNCHANGED <<pool, hand, steps>>

Unsized(f) == [f EXCEPT !.whole = FALSE]

(* recvfrom returns -1: the size becomes 0, the data and the time stamp of *)
(* the buffer's last use stay, and the buffer is returned all the same.    *)
ReceiveFails ==
  /\ RecvMayFail
  /\ phase = "recv"
  /\ captures < MaxCaptures
  /\ captures' = captures + 1
  /\ frame' = [frame EXCEPT ![hand] = Unsized(@)]
  /\ no' = [no EXCEPT ![hand] = captures + 1]
  /\ since' = [since EXCEPT ![hand] = 0]
  /\ stepped' = [stepped EXCEPT ![hand] = FALSE]
  /\ phase' = "route"
  /\ UNCHANGED <<pool, hand, age, steps>>

(* No leaf takes the frame: it is logged and packetPtr leaves its scope.   *)
DropFrame ==
  /\ phase = "route"
  /\ frame[hand].leaf = "none"
  /\ pool' = Released(hand)
  /\ hand' = NoBuffer
  /\ phase' = "pool"
  /\ UNCHANGED <<frame, no, captures, clockVars>>

Aged(d) == [b \in Buffers |-> IF age[b] + d > Old THEN Old ELSE age[b] + d]

(* A tick of time passes.                                                  *)
Tick ==
  /\ age' = Aged(1)
  /\ since' = [b \in Buffers |-> IF since[b] = Timeout THEN Timeout ELSE since[b] + 1]
  /\ UNCHANGED <<pool, hand, phase, frame, no, stepped, captures, steps>>

(* CLOCK_REALTIME is set, a tick back or a tick forward.                   *)
SetClock ==
  /\ steps < MaxSteps
  /\ steps' = steps + 1
  /\ \E d \in {-1, 1} : age' = Aged(d)
  /\ stepped' = [b \in Buffers |-> TRUE]
  /\ UNCHANGED <<pool, hand, phase, frame, no, since, captures>>

NICNext ==
  \/ TakeBuffer
  \/ \E f \in Wire : Receive(f)
  \/ ReceiveFails
  \/ DropFrame
  \/ Tick
  \/ SetClock
-----------------------------------------------------------------------------
MainPhases == {"pool", "recv", "route", "close", "stopsync", "join", "end"}

NICTypeOK ==
  /\ pool \in Seq(Buffers)
  /\ hand \in Buffers \cup {NoBuffer}
  /\ phase \in MainPhases
  /\ hand # NoBuffer <=> phase \in {"recv", "route"}
  /\ frame \in [Buffers -> Frames]
  /\ no \in [Buffers -> 0..MaxCaptures]
  /\ age \in [Buffers -> Int]
  /\ \A b \in Buffers : -steps <= age[b] /\ age[b] <= Old
  /\ since \in [Buffers -> 0..Timeout]
  /\ stepped \in [Buffers -> BOOLEAN]
  /\ captures \in 0..MaxCaptures
  /\ steps \in 0..MaxSteps
=============================================================================
