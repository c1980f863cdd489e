--------------------------- MODULE PacketProcessor ---------------------------
(***************************************************************************)
(* PacketProcessor<RADIUSPacket>, <UDPPacket> and <TCPPacket>              *)
(* (include/PacketProcessor.hpp): worker threads, each with a queue that   *)
(* the main thread puts packets in and the sync thread puts SYNC_TIMEOUT   *)
(* in; the RADIUS workers pair packets by identifier and give up on the    *)
(* ones that stay alone for too long.                                      *)
(*                                                                         *)
(* Workers are numbered in the order in which a broadcast reaches them.    *)
(* A queue item is a buffer (a packet owns the buffer it was received in)  *)
(* or a control message.  Queues are FIFO channels whose operations take   *)
(* effect at once (see ObjectQueue).                                       *)
(***************************************************************************)
EXTENDS NIC

CONSTANTS LeafOf,        \* LeafOf[w]: the processor that worker w belongs to
          SYNC_TIMEOUT, SHUTDOWN,
          InPlace,       \* FALSE: the processor was moved after its threads started
          Asserts,       \* FALSE: built with NDEBUG
          SizeMod        \* 2^w for a size_t of w bits

Workers == DOMAIN LeafOf
Control == {SYNC_TIMEOUT, SHUTDOWN}

ASSUME ProcessorAssumption ==
  /\ LeafOf \in Seq(Leaves)
  /\ Control \cap (Buffers \cup {NoBuffer}) = {}
  /\ SYNC_TIMEOUT # SHUTDOWN
  /\ InPlace \in BOOLEAN
  /\ Asserts \in BOOLEAN
  /\ SizeMod \in Nat /\ SizeMod >= Old + MaxSteps

VARIABLES queue,      \* m_receivedPacketQueue
          pc,         \* where each worker is in its loop
          sessions,   \* packetSessionsMap: identifier -> the packet kept under it
          erasing,    \* the sessions the worker is about to erase
          held,       \* the packet of this iteration, until the iteration ends
          stop,       \* m_stop, one per processor
          notes,      \* what was put into ResultNotifier::m_queue, in order
          expired,    \* totalPacketsTimeoutCounter
          accepted,   \* history: packets dispatched to each worker
          abandoned   \* history: sessions dropped when the worker ended

workerVars == <<queue, pc, sessions, erasing, held, stop, notes, expired,
                accepted, abandoned>>

ProcessorInit ==
  /\ queue = [w \in Workers |-> <<>>]
  /\ pc = [w \in Workers |-> "test"]
  /\ sessions = [w \in Workers |-> [k \in Ids |-> NoBuffer]]
  /\ erasing = [w \in Workers |-> {}]
  /\ held = [w \in Workers |-> NoBuffer]
  /\ stop = [l \in Leaves |-> FALSE]
  /\ notes = <<>>
  /\ expired = [w \in Workers |-> 0]
  /\ accepted = [w \in Workers |-> 0]
  /\ abandoned = [w \in Workers |-> 0]
-----------------------------------------------------------------------------
(* The packet constructors: RADIUSPacket asserts that the frame is whole.  *)
Constructible(f) == Asserts /\ f.leaf = "RADIUS" => f.whole

(* onDispatchImpl: the packet goes to the back of the queue of a worker.   *)
(* The hash that selects the worker is read through a moved-from pointer,  *)
(* so any worker of the processor may be selected; TrafficInspector has    *)
(* the outcome in which that read does not return.                         *)
Enqueue(w) ==
  /\ phase = "route"
  /\ frame[hand].leaf = LeafOf[w]
  /\ Constructible(frame[hand])
  /\ queue' = [queue EXCEPT ![w] = Append(@, hand)]
  /\ accepted' = [accepted EXCEPT ![w] = @ + 1]
  /\ hand' = NoBuffer
  /\ phase' = "pool"
  /\ UNCHANGED <<pool, frame, no, captures, clockVars, pc, sessions, erasing,
                 held, stop, notes, expired, abandoned>>

(* One turn of onDispatchBroadcastImpl: message m to worker w.             *)
PutControl(w, m) == queue' = [queue EXCEPT ![w] = Append(@, m)]
-----------------------------------------------------------------------------
Open(w) == {k \in Ids : sessions[w][k] # NoBuffer}

(* `size_t delta = timeStamp - iter->second->getTimestamp()', unsigned.    *)
Delta(a) == a % SizeMod
NeverOutdated(b) == FALSE
Outdated(b) == Delta(age[b]) >= Timeout

(* `stopFlag' and `m_responseTimeoutMsec' are read through a reference to  *)
(* the object the thread was started on; once that object is gone they can *)
(* have any value.                                                         *)
StopUninitialized(w) == BOOLEAN
StopReads(w) == IF InPlace THEN {stop[LeafOf[w]]} ELSE BOOLEAN
TimeoutReads(w) ==
  IF InPlace THEN {{k \in Open(w) : Outdated(sessions[w][k])}} ELSE SUBSET Open(w)

UnwoundSessions(w) == Open(w)

(* `while(!stopFlag)'; leaving the loop destroys packetSessionsMap.        *)
TestStop(w) ==
  /\ pc[w] = "test"
  /\ \E s \in StopReads(w) :
       /\ pc' = [pc EXCEPT ![w] = IF s THEN "exit" ELSE "get"]
       /\ erasing' = [erasing EXCEPT ![w] = IF s THEN UnwoundSessions(w) ELSE {}]
  /\ UNCHANGED <<nicVars, queue, sessions, held, stop, notes, expired, accepted,
                 abandoned>>

(* recvQueue.getObject() returns x.                                        *)
Pop(w, x) ==
  /\ pc[w] = "get"
  /\ queue[w] # <<>>
  /\ Head(queue[w]) = x
  /\ queue' = [queue EXCEPT ![w] = Tail(@)]

(* SHUTDOWN sets m_stop for all workers of the processor; that of a moved  *)
(* processor is written where the object was, which TrafficInspector       *)
(* excludes.                                                               *)
OnShutdown(w) ==
  /\ Pop(w, SHUTDOWN)
  /\ stop' = IF InPlace THEN [stop EXCEPT ![LeafOf[w]] = TRUE] ELSE stop
  /\ pc' = [pc EXCEPT ![w] = "exit"]
  /\ erasing' = [erasing EXCEPT ![w] = UnwoundSessions(w)]
  /\ UNCHANGED <<nicVars, sessions, held, notes, expired, accepted, abandoned>>

(* SYNC_TIMEOUT: the clock is read once, which settles what will be erased *)
(* (a stamp does not change while its buffer is in the map).               *)
OnSync(w) ==
  /\ Pop(w, SYNC_TIMEOUT)
  /\ IF LeafOf[w] = "RADIUS"
     THEN /\ pc' = [pc EXCEPT ![w] = "sync"]
          /\ \E d \in TimeoutReads(w) : erasing' = [erasing EXCEPT ![w] = d]
     ELSE /\ pc' = [pc EXCEPT ![w] = "test"]
          /\ UNCHANGED erasing
  /\ UNCHANGED <<nicVars, sessions, held, stop, notes, expired, accepted,
                 abandoned>>

(* What a notification is made of.                                         *)
Content(b) == [no |-> no[b], ident |-> frame[b].ident, code |-> frame[b].code]
NoteSwapped(w, b, q) == [worker |-> w, resp |-> Content(q), req |-> Content(b)]
Note(w, b, q) == [worker |-> w, resp |-> Content(b), req |-> Content(q)]

SessionKept(w, k) == sessions
SessionErased(w, k) == [sessions EXCEPT ![w][k] = NoBuffer]

(* A packet whose identifier is in the map: the two are reported and the   *)
(* one from the map is erased.                                             *)
OnPair(w, b) ==
  LET k == frame[b].ident IN
  /\ Pop(w, b)
  /\ LeafOf[w] = "RADIUS"
  /\ sessions[w][k] # NoBuffer
  /\ notes' = Append(notes, Note(w, b, sessions[w][k]))
  /\ sessions' = SessionErased(w, k)
  /\ pool' = Released(sessions[w][k])
  /\ held' = [held EXCEPT ![w] = b]
  /\ pc' = [pc EXCEPT ![w] = "drop"]
  /\ UNCHANGED <<hand, phase, frame, no, captures, clockVars, erasing, stop,
                 expired, accepted, abandoned>>

(* A packet whose identifier is not in the map is kept in the map.         *)
OnHold(w, b) ==
  LET k == frame[b].ident IN
  /\ Pop(w, b)
  /\ LeafOf[w] = "RADIUS"
  /\ sessions[w][k] = NoBuffer
  /\ sessions' = [sessions EXCEPT ![w][k] = b]
  /\ pc' = [pc EXCEPT ![w] = "test"]
  /\ UNCHANGED <<nicVars, erasing, held, stop, notes, expired, accepted,
                 abandoned>>

(* UDP and TCP workers log the packet and do nothing else.                 *)
OnDiscard(w, b) ==
  /\ Pop(w, b)
  /\ LeafOf[w] # "RADIUS"
  /\ held' = [held EXCEPT ![w] = b]
  /\ pc' = [pc EXCEPT ![w] = "drop"]
  /\ UNCHANGED <<nicVars, sessions, erasing, stop, notes, expired, accepted,
                 abandoned>>

(* The iteration ends and the packet it still owns is destroyed.           *)
DropPacket(w) ==
  /\ pc[w] = "drop"
  /\ pool' = Released(held[w])
  /\ held' = [held EXCEPT ![w] = NoBuffer]
  /\ pc' = [pc EXCEPT ![w] = "test"]
  /\ UNCHANGED <<hand, phase, frame, no, captures, clockVars, queue, sessions,
                 erasing, stop, notes, expired, accepted, abandoned>>

(* One erasure of the sweep, or of the destruction of packetSessionsMap.   *)
EraseSession(w, k) ==
  /\ pc[w] \in {"sync", "exit"}
  /\ k \in erasing[w]
  /\ erasing' = [erasing EXCEPT ![w] = @ \ {k}]
  /\ sessions' = [sessions EXCEPT ![w][k] = NoBuffer]
  /\ pool' = Released(sessions[w][k])
  /\ IF pc[w] = "sync"
     THEN /\ expired' = [expired EXCEPT ![w] = @ + 1]
          /\ UNCHANGED abandoned
     ELSE /\ abandoned' = [abandoned EXCEPT ![w] = @ + 1]
          /\ UNCHANGED expired
  /\ UNCHANGED <<hand, phase, frame, no, captures, clockVars, queue, pc, held,
                 stop, notes, accepted>>

(* Nothing is left to erase: the next iteration, or the end of the thread. *)
EraseDone(w) ==
  /\ pc[w] \in {"sync", "exit"}
  /\ erasing[w] = {}
  /\ pc' = [pc EXCEPT ![w] = IF @ = "sync" THEN "test" ELSE "done"]
  /\ UNCHANGED <<nicVars, queue, sessions, erasing, held, stop, notes, expired,
                 accepted, abandoned>>

WorkerStep(w) ==
  \/ TestStop(w)
  \/ OnShutdown(w)
  \/ OnSync(w)
  \/ \E b \in Buffers : OnPair(w, b) \/ OnHold(w, b) \/ OnDiscard(w, b)
  \/ DropPacket(w)
  \/ \E k \in Ids : EraseSession(w, k)
  \/ EraseDone(w)
-----------------------------------------------------------------------------
Contents == [no : 0..MaxCaptures, ident : Ids, code : Codes]

ProcessorTypeOK ==
  /\ queue \in [Workers -> Seq(Buffers \cup Control)]
  /\ pc \in [Workers -> {"test", "get", "drop", "sync", "exit", "done"}]
  /\ sessions \in [Workers -> [Ids -> Buffers \cup {NoBuffer}]]
  /\ erasing \in [Workers -> SUBSET Ids]
  /\ held \in [Workers -> Buffers \cup {NoBuffer}]
  /\ stop \in [Leaves -> BOOLEAN]
  /\ notes \in Seq([worker : Workers, resp : Contents, req : Contents])
  /\ expired \in [Workers -> Nat]
  /\ accepted \in [Workers -> Nat]
  /\ abandoned \in [Workers -> Nat]
  /\ \A w \in Workers : erasing[w] \subseteq Open(w)
  /\ \A w \in Workers : pc[w] \notin {"sync", "exit"} => erasing[w] = {}
  /\ \A w \in Workers : held[w] # NoBuffer <=> pc[w] = "drop"
=============================================================================
