-------------------------- MODULE TrafficInspector --------------------------
(***************************************************************************)
(* The whole process: the main loop (src/main.cpp), the processors behind  *)
(* it, and the sync thread of PacketDispatcher or PacketRouter, which      *)
(* share that code (include/PacketDispatcher.hpp, include/PacketRouter.hpp).*)
(*                                                                         *)
(* InPlace = TRUE is the "OLD WAY" of main.cpp, PacketRouter, which builds *)
(* the processors where they stay.  InPlace = FALSE is the "NEW WAY",      *)
(* PacketDispatcher, which moves them into its tree and asks the tree's    *)
(* root whether an ETHPacket is an ETHPacket first.                        *)
(*                                                                         *)
(* main never ends; ShutsDown = TRUE adds an owner that ends the process   *)
(* in the order the API offers: it broadcasts SHUTDOWN, then the           *)
(* destructors join the sync thread and the workers and destroy the queues. *)
(* It ends only processors in place: on SHUTDOWN a worker of a moved one    *)
(* writes to an object that is gone, and nothing is said of what that does. *)
(***************************************************************************)
EXTENDS PacketProcessor

CONSTANTS Undefined,    \* what an undefined read or call may do: subset of
                        \* {"value", "crash"}
          ShutsDown,
          Requests,     \* the codes that ask; only the properties tell
          SyncBacklog   \* bound: SYNC_TIMEOUTs that wait in one queue

ASSUME InspectorAssumption ==
  /\ Undefined \in (SUBSET {"value", "crash"}) \ {{}}
  /\ ShutsDown \in BOOLEAN
  /\ ShutsDown => InPlace
  /\ Requests \subseteq Codes
  /\ SyncBacklog \in Nat

N == Len(LeafOf)

VARIABLES syncAt,   \* the worker the sync thread notifies next, N + 1 while it
                    \* waits for the timer, 0 when it has ended
          shutAt,   \* the worker that SHUTDOWN is sent to next
          alive     \* the process has not crashed

vars == <<nicVars, workerVars, syncAt, shutAt, alive>>

Init == NICInit /\ ProcessorInit /\ syncAt = N + 1 /\ shutAt = 1 /\ alive = TRUE
-----------------------------------------------------------------------------
Capture == NICNext /\ UNCHANGED <<workerVars, syncAt, shutAt>>

(* Dispatching reads the hash through a null pointer, and in the NEW WAY   *)
(* goes through the root's test, a recursion that never ends.              *)
DispatchReturns == "value" \in Undefined
Dispatch ==
  /\ DispatchReturns
  /\ \E w \in Workers : Enqueue(w)
  /\ UNCHANGED <<syncAt, shutAt>>

(* The process ends before the frame in hand is routed: an undefined call  *)
(* does not return, or the constructor of the packet fails its assertion.  *)
RootTestDiverges == ~InPlace /\ "crash" \in Undefined
HashReadCrashes == frame[hand].leaf # "none" /\ "crash" \in Undefined
AssertionFails ==
  /\ frame[hand].leaf # "none"
  /\ ~Constructible(frame[hand])

Crash ==
  /\ phase = "route"
  /\ RootTestDiverges \/ HashReadCrashes \/ AssertionFails
  /\ alive' = FALSE
  /\ UNCHANGED <<nicVars, workerVars, syncAt, shutAt>>

Work(w) == WorkerStep(w) /\ UNCHANGED <<syncAt, shutAt>>
-----------------------------------------------------------------------------
StopFlag == phase \in {"stopsync", "join", "end"}

Backlog(w) == Cardinality({i \in DOMAIN queue[w] : queue[w][i] = SYNC_TIMEOUT})

(* poll and read report an expiry of the timer.                            *)
TimerExpires ==
  /\ syncAt = N + 1
  /\ \A w \in Workers : Backlog(w) < SyncBacklog
  /\ syncAt' = 1
  /\ UNCHANGED <<nicVars, workerVars, shutAt>>

(* dispatchBroadcast(SYNC_TIMEOUT), worker after worker; then the loop     *)
(* tests m_stopFlag.                                                       *)
NextToSync == IF syncAt = N /\ StopFlag THEN 0 ELSE syncAt + 1

SyncPut ==
  /\ syncAt \in Workers
  /\ PutControl(syncAt, SYNC_TIMEOUT)
  /\ syncAt' = NextToSync
  /\ UNCHANGED <<nicVars, pc, sessions, erasing, held, stop, notes, expired,
                 accepted, abandoned, shutAt>>

(* poll returns after its 500 ms without an expiry.                        *)
SyncEnds ==
  /\ syncAt = N + 1
  /\ StopFlag
  /\ syncAt' = 0
  /\ UNCHANGED <<nicVars, workerVars, shutAt>>
-----------------------------------------------------------------------------
Enter(p) ==
  /\ phase' = p
  /\ UNCHANGED <<pool, hand, frame, no, captures, clockVars>>

BeginShutdown ==
  /\ ShutsDown
  /\ phase = "pool"
  /\ Enter("close")
  /\ UNCHANGED <<workerVars, syncAt, shutAt>>

(* dispatchBroadcast(SHUTDOWN), worker after worker.                       *)
OnlyFirst == N + 1
NextToShut == shutAt + 1
ShutdownPut ==
  /\ phase = "close"
  /\ shutAt \in Workers
  /\ PutControl(shutAt, SHUTDOWN)
  /\ shutAt' = NextToShut
  /\ UNCHANGED <<nicVars, pc, sessions, erasing, held, stop, notes, expired,
                 accepted, abandoned, syncAt>>

(* deinitialize(): m_stopFlag = true, then the sync thread is joined.      *)
StopSync ==
  /\ phase = "close"
  /\ shutAt = N + 1
  /\ Enter("stopsync")
  /\ UNCHANGED <<workerVars, syncAt, shutAt>>

JoinSync ==
  /\ phase = "stopsync"
  /\ syncAt = 0
  /\ Enter("join")
  /\ UNCHANGED <<workerVars, syncAt, shutAt>>

(* ~PacketProcessor: the workers of a processor are joined and then its    *)
(* queues are destroyed with what is left in them.                         *)
Joined(l) == \A w \in Workers : LeafOf[w] = l => pc[w] = "done"

LeftoverLost(x) == pool
ControlReturned(x) == Released(x)
LeftoverReturned(x) == IF x \in Control THEN pool ELSE Released(x)

DestroyItem(w) ==
  /\ phase = "join"
  /\ Joined(LeafOf[w])
  /\ queue[w] # <<>>
  /\ queue' = [queue EXCEPT ![w] = Tail(@)]
  /\ pool' = LeftoverReturned(Head(queue[w]))
  /\ UNCHANGED <<hand, phase, frame, no, captures, clockVars, pc, sessions,
                 erasing, held, stop, notes, expired, accepted, abandoned,
                 syncAt, shutAt>>

Destroyed ==
  /\ phase = "join"
  /\ \A w \in Workers : pc[w] = "done" /\ queue[w] = <<>>
  /\ Enter("end")
  /\ UNCHANGED <<workerVars, syncAt, shutAt>>

ShutdownStep ==
  \/ BeginShutdown
  \/ ShutdownPut
  \/ StopSync
  \/ JoinSync
  \/ \E w \in Workers : DestroyItem(w)
  \/ Destroyed
-----------------------------------------------------------------------------
Step ==
  \/ Capture
  \/ Dispatch
  \/ \E w \in Workers : Work(w)
  \/ TimerExpires
  \/ SyncPut
  \/ SyncEnds
  \/ ShutdownStep

Over == (~alive \/ phase = "end") /\ UNCHANGED vars

Next ==
  \/ alive /\ phase # "end" /\ Step /\ UNCHANGED alive
  \/ alive /\ Crash
  \/ Over

Spec == Init /\ [][Next]_vars

Live(A) == alive /\ phase # "end" /\ A /\ UNCHANGED alive

(* Every thread keeps running, the timer keeps expiring and time passes.   *)
(* Frames need not arrive, an owner need not shut down, and an undefined   *)
(* call need not return.                                                   *)
MainStep ==
  \/ (TakeBuffer \/ DropFrame) /\ UNCHANGED <<workerVars, syncAt, shutAt>>
  \/ Dispatch
  \/ ShutdownPut \/ StopSync \/ JoinSync \/ Destroyed
  \/ \E w \in Workers : DestroyItem(w)

Fairness ==
  /\ WF_vars(Live(MainStep) \/ (alive /\ Crash))
  /\ \A w \in Workers : WF_vars(Live(Work(w)))
  /\ WF_vars(Live(TimerExpires \/ SyncPut \/ SyncEnds))
  /\ WF_vars(Live(Tick /\ UNCHANGED <<workerVars, syncAt, shutAt>>))

FairSpec == Spec /\ Fairness
-----------------------------------------------------------------------------
(* Every variable has its type; what a thread is doing says what it owns.  *)
TypeOK ==
  /\ NICTypeOK
  /\ ProcessorTypeOK
  /\ syncAt \in 0..N + 1
  /\ shutAt \in 1..N + 1
  /\ alive \in BOOLEAN

(* Where a buffer can be: in the pool, with the main thread, or with a     *)
(* worker, that is in its queue, in its map or in the packet it processes. *)
Has(s, x) == \E i \in DOMAIN s : s[i] = x
Once(s, x) == \A i, j \in DOMAIN s : s[i] = x /\ s[j] = x => i = j
InSession(w, b) == \E k \in Ids : sessions[w][k] = b
WithWorker(w, b) == Has(queue[w], b) \/ InSession(w, b) \/ held[w] = b

(* No buffer leaks: somebody owns it.                                      *)
NoLeak ==
  \A b \in Buffers : Has(pool, b) \/ hand = b \/ \E w \in Workers : WithWorker(w, b)

(* No buffer has two owners, or one owner twice, so that the NIC never     *)
(* receives into a buffer that a packet still reads.                       *)
OwnedOnce(b) ==
  /\ Once(pool, b)
  /\ Has(pool, b) => hand # b
  /\ \A w \in Workers :
       /\ WithWorker(w, b) => ~Has(pool, b) /\ hand # b
       /\ \A v \in Workers : WithWorker(w, b) /\ WithWorker(v, b) => w = v
       /\ Once(queue[w], b)
       /\ Has(queue[w], b) => ~InSession(w, b) /\ held[w] # b
       /\ InSession(w, b) => held[w] # b
       /\ \A k, j \in Ids : sessions[w][k] = b /\ sessions[w][j] = b => k = j
SingleOwner == \A b \in Buffers : OwnedOnce(b)

(* A packet kept in packetSessionsMap still holds the frame it was filed   *)
(* under: its buffer was not received into again.                          *)
SessionIntact ==
  \A w \in Workers : \A k \in Open(w) :
    frame[sessions[w][k]].leaf = "RADIUS" /\ frame[sessions[w][k]].ident = k

(* Every packet dispatched to a RADIUS worker is accounted for: it waits   *)
(* in the queue or in the map, was half of a notification, was counted as  *)
(* unresponded, or went down with the thread.  After the queues' own       *)
(* destruction nothing is claimed.                                         *)
Places(s, S) == {i \in DOMAIN s : s[i] \in S}
Waiting(w) == Cardinality(Places(queue[w], Buffers))
NotesOf(w) == Cardinality({i \in DOMAIN notes : notes[i].worker = w})
Accounting ==
  phase \notin {"join", "end"} =>
    \A w \in Workers : LeafOf[w] = "RADIUS" =>
      accepted[w] = Waiting(w) + Cardinality(Open(w)) + 2 * NotesOf(w)
                      + expired[w] + abandoned[w]

(* Conversations do not overlap: a notification joins an earlier and a     *)
(* later packet of one identifier, and no packet is reported twice.        *)
ConversationsDisjoint ==
  /\ \A i \in DOMAIN notes :
       /\ notes[i].req.ident = notes[i].resp.ident
       /\ notes[i].req.no < notes[i].resp.no
  /\ \A i, j \in DOMAIN notes : i # j =>
       {notes[i].req.no, notes[i].resp.no}
         \cap {notes[j].req.no, notes[j].resp.no} = {}

(* A worker of a processor that was not moved only ends when the owner has *)
(* asked for it.                                                           *)
StopsOnlyAsked == \A w \in Workers : pc[w] \in {"exit", "done"} => phase \in
                    {"close", "stopsync", "join", "end"}

(* After an orderly shutdown every buffer is back in the pool.             *)
AllReturned == phase = "end" => \A b \in Buffers : Has(pool, b)

(* A session is counted as unresponded only when its packet has waited for *)
(* the timeout, unless the clock was set since the packet was received.    *)
NoEarlyExpiry ==
  [][\A w \in Workers : \A k \in Open(w) :
       expired'[w] > expired[w] /\ sessions'[w][k] = NoBuffer =>
         LET b == sessions[w][k] IN stepped[b] \/ since[b] = Timeout]_vars

(* "unresponded - total": a session that is counted as unresponded is a    *)
(* request for which no response was received within the timeout.          *)
ResponseWaits(w, k) ==
  \E i \in DOMAIN queue[w] :
    LET b == queue[w][i] IN
    /\ b \in Buffers
    /\ frame[b].ident = k
    /\ frame[b].code \notin Requests
    /\ age[sessions[w][k]] - age[b] < Timeout
UnrespondedIsUnanswered ==
  [][\A w \in Workers : \A k \in Open(w) :
       expired'[w] > expired[w] /\ sessions'[w][k] = NoBuffer
         => ~ResponseWaits(w, k)]_vars

(* A notification's resp is a response and its req a request.              *)
ReportsResponse ==
  \A i \in DOMAIN notes : /\ notes[i].resp.code \notin Requests
                          /\ notes[i].req.code \in Requests

(* The root of the tree answers whether the packet belongs to its subtree, *)
(* and a packet some leaf takes is balanced on a worker: the process       *)
(* outlives every frame.                                                   *)
FramesAreRouted == alive

(* assert(pack_lenght == getPacketSizeImpl()): what is made into a packet  *)
(* is as long as its RADIUS header says.                                   *)
AssertionHolds == phase = "route" => Constructible(frame[hand])

(* The main thread gets a buffer in the end, however small the pool is.    *)
PoolRecovers == phase = "pool" ~> (phase # "pool" \/ ~alive)

(* A packet that is kept in the map is reported or given up in the end.    *)
SessionsEnd ==
  \A b \in Buffers :
    (\E w \in Workers : InSession(w, b))
      ~> ((\A w \in Workers : ~InSession(w, b)) \/ ~alive)

(* A shutdown that has begun comes to its end: no join waits forever.      *)
ShutdownEnds == phase = "close" ~> (phase = "end" \/ ~alive)

(* Refinement: the RADIUS workers are the pairing service.  Packets that   *)
(* wait or are open are read from their buffers when their turn comes, and *)
(* are then still the packets that were accepted.  Selected(q, S, c) is    *)
(* what c makes of the members of S in the sequence q, in their order.     *)
RadiusWorkers == {w \in Workers : LeafOf[w] = "RADIUS"}
Rank(P, i) == Cardinality({j \in P : j <= i})
Nth(P, k) == CHOOSE i \in P : Rank(P, i) = k
Selected(q, S, c) ==
  [k \in 1..Cardinality(Places(q, S)) |-> c[q[Nth(Places(q, S), k)]]]
WaitingPackets(w) == Selected(queue[w], Buffers, [b \in Buffers |-> Content(b)])
OpenPacket(b) == IF b = NoBuffer THEN <<>> ELSE <<Content(b)>>
OpenPackets(w) == [k \in Ids |-> OpenPacket(sessions[w][k])]
Service == INSTANCE PairingService
  WITH Packets <- Contents,
       waiting <- [w \in RadiusWorkers |-> WaitingPackets(w)],
       open <- [w \in RadiusWorkers |-> OpenPackets(w)]

ImplementsService == Service!ServiceSpec
=============================================================================
