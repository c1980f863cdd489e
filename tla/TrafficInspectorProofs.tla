----------------------- MODULE TrafficInspectorProofs -----------------------
(***************************************************************************)
(* What holds of TrafficInspector for any pool, any workers, any traffic,  *)
(* both ways of building the processors and every outcome of the undefined *)
(* reads.                                                                  *)
(***************************************************************************)
EXTENDS TrafficInspector, FiniteSetTheorems, TLAPS

LEMMA WorkerNumbers == Workers = 1..N /\ N \in Nat
BY ProcessorAssumption DEF Workers, N

LEMMA ControlApart ==
  /\ SYNC_TIMEOUT \notin Buffers /\ SHUTDOWN \notin Buffers
  /\ \A x \in Buffers : x \notin Control
  /\ NoBuffer \notin Buffers
BY ProcessorAssumption, NICAssumption DEF Control

LEMMA BlankIsFrame == Blank \in Frames
<1>1. PICK k \in Ids, c \in Codes : TRUE
  BY NICAssumption
<1>2. [leaf |-> "none", ident |-> k, code |-> c, whole |-> FALSE] \in Frames
  BY DEF Frames, Leaves
<1>3. \E f \in Frames : f.leaf = "none" /\ ~f.whole
  BY <1>2
<1> QED BY <1>3 DEF Blank

LEMMA AgesBounded ==
  ASSUME NICTypeOK, NEW d \in {-1, 1}
  PROVE  /\ Aged(d) \in [Buffers -> Int]
         /\ \A b \in Buffers : Aged(d)[b] <= Old /\ Aged(d)[b] >= -steps - 1
         /\ d = 1 => \A b \in Buffers : Aged(d)[b] >= -steps
<1>1. /\ Old \in Nat /\ steps \in Nat
      /\ \A b \in Buffers : age[b] \in Int /\ -steps <= age[b] /\ age[b] <= Old
  BY NICAssumption DEF NICTypeOK, Old
<1>2. \A b \in Buffers : Aged(d)[b] = IF age[b] + d > Old THEN Old ELSE age[b] + d
  BY DEF Aged
<1>3. \A b \in Buffers : Aged(d)[b] \in Int
  BY <1>1, <1>2
<1>4. Aged(d) \in [Buffers -> Int]
  BY <1>3 DEF Aged
<1>5. ASSUME NEW b \in Buffers
      PROVE  /\ Aged(d)[b] <= Old /\ Aged(d)[b] >= -steps - 1
             /\ d = 1 => Aged(d)[b] >= -steps
  <2>1. CASE d = 1
    BY <1>1, <1>2, <2>1
  <2>2. CASE d = -1
    BY <1>1, <1>2, <2>2
  <2> QED BY <2>1, <2>2
<1> QED BY <1>4, <1>5

LEMMA HeadTail ==
  ASSUME NEW S, NEW s \in Seq(S), s # <<>>
  PROVE  Head(s) \in S /\ Tail(s) \in Seq(S)
OBVIOUS
-----------------------------------------------------------------------------
(* The capture side and the clock.                                         *)
LEMMA CaptureTypes == NICTypeOK /\ NICNext => NICTypeOK'
<1> SUFFICES ASSUME NICTypeOK, NICNext PROVE NICTypeOK'
  OBVIOUS
<1> USE NICAssumption DEF NICTypeOK, clockVars
<1>1. CASE TakeBuffer
  <2>1. Head(pool) \in Buffers /\ Tail(pool) \in Seq(Buffers)
    BY <1>1 DEF TakeBuffer
  <2> QED BY <1>1, <2>1, ControlApart DEF TakeBuffer, MainPhases
<1>2. ASSUME NEW f \in Wire, Receive(f) PROVE NICTypeOK'
  BY <1>2, ControlApart, SMTT(30) DEF Receive, Stamped, Old, MainPhases
<1>3. CASE ReceiveFails
  <2>0. ASSUME NEW f \in Frames PROVE Unsized(f) \in Frames
    BY DEF Unsized, Frames
  <2>1. frame' \in [Buffers -> Frames]
    BY <1>3, <2>0 DEF ReceiveFails
  <2> QED BY <1>3, <2>1, ControlApart DEF ReceiveFails, MainPhases
<1>4. CASE DropFrame
  <2>1. hand \in Buffers
    BY <1>4 DEF DropFrame
  <2> QED BY <1>4, <2>1 DEF DropFrame, Released, MainPhases
<1>5. CASE Tick
  <2>1. /\ age' \in [Buffers -> Int]
        /\ \A b \in Buffers : -steps <= age'[b] /\ age'[b] <= Old
    BY <1>5, AgesBounded DEF Tick
  <2>2. since' \in [Buffers -> 0..Timeout]
    BY <1>5 DEF Tick
  <2> QED BY <1>5, <2>1, <2>2 DEF Tick
<1>6. CASE SetClock
  <2>1. PICK d \in {-1, 1} : age' = Aged(d)
    BY <1>6 DEF SetClock
  <2> QED BY <1>6, <2>1, AgesBounded DEF SetClock
<1> QED BY <1>1, <1>2, <1>3, <1>4, <1>5, <1>6 DEF NICNext
-----------------------------------------------------------------------------
(* What a step leaves alone keeps its type.                                *)
LEMMA NICFrame == NICTypeOK /\ UNCHANGED nicVars => NICTypeOK'
BY DEF NICTypeOK, nicVars

LEMMA ProcessorFrame == ProcessorTypeOK /\ UNCHANGED workerVars => ProcessorTypeOK'
BY DEF ProcessorTypeOK, workerVars, Open

LEMMA PoolTypes ==
  ASSUME NICTypeOK, pool' \in Seq(Buffers),
         UNCHANGED <<hand, phase, frame, no, captures, clockVars>>
  PROVE  NICTypeOK'
BY DEF NICTypeOK, clockVars

LEMMA QueueTypes ==
  ASSUME ProcessorTypeOK, queue' \in [Workers -> Seq(Buffers \cup Control)],
         accepted' \in [Workers -> Nat],
         UNCHANGED <<pc, sessions, erasing, held, stop, notes, expired, abandoned>>
  PROVE  ProcessorTypeOK'
BY DEF ProcessorTypeOK, Open

LEMMA ReleasedTypes ==
  ASSUME NICTypeOK, NEW b \in Buffers
  PROVE  Released(b) \in Seq(Buffers)
BY DEF NICTypeOK, Released
-----------------------------------------------------------------------------
(* The workers.                                                            *)
LEMMA PopTypes ==
  ASSUME ProcessorTypeOK, NEW w \in Workers, NEW x, Pop(w, x)
  PROVE  /\ x \in Buffers \cup Control
         /\ queue' \in [Workers -> Seq(Buffers \cup Control)]
         /\ pc[w] = "get" /\ held[w] = NoBuffer /\ erasing[w] = {}
<1>1. queue[w] \in Seq(Buffers \cup Control)
  BY DEF ProcessorTypeOK
<1>2. Head(queue[w]) \in Buffers \cup Control /\ Tail(queue[w]) \in Seq(Buffers \cup Control)
  BY <1>1, HeadTail DEF Pop
<1>3. queue' \in [Workers -> Seq(Buffers \cup Control)]
  BY <1>2 DEF ProcessorTypeOK, Pop
<1>4. pc[w] = "get" /\ held[w] = NoBuffer /\ erasing[w] = {}
  BY DEF ProcessorTypeOK, Pop
<1> QED BY <1>2, <1>3, <1>4 DEF Pop

LEMMA ContentTypes ==
  ASSUME NICTypeOK, NEW b \in Buffers
  PROVE  Content(b) \in Contents /\ frame[b].ident \in Ids
BY DEF NICTypeOK, Content, Contents, Frames

LEMMA WorkerTypes ==
  ASSUME TypeOK, NEW w \in Workers, WorkerStep(w)
  PROVE  NICTypeOK' /\ ProcessorTypeOK'
<1> USE ControlApart DEF TypeOK
<1>1. CASE TestStop(w)
  <2>1. PICK s \in StopReads(w) :
          /\ pc' = [pc EXCEPT ![w] = IF s THEN "exit" ELSE "get"]
          /\ erasing' = [erasing EXCEPT ![w] = IF s THEN UnwoundSessions(w) ELSE {}]
    BY <1>1 DEF TestStop
  <2> QED BY <1>1, <2>1, NICFrame, SMTT(30) DEF TestStop, ProcessorTypeOK, UnwoundSessions, Open
<1>2. CASE OnShutdown(w)
  <2>1. LeafOf[w] \in Leaves
    BY ProcessorAssumption DEF Workers
  <2>2. stop' \in [Leaves -> BOOLEAN]
    BY <1>2, <2>1 DEF OnShutdown, ProcessorTypeOK
  <2>3. queue' \in [Workers -> Seq(Buffers \cup Control)] /\ pc[w] = "get"
    BY <1>2, PopTypes DEF OnShutdown
  <2> QED BY <1>2, <2>2, <2>3, NICFrame, ZenonT(30)
          DEF OnShutdown, ProcessorTypeOK, UnwoundSessions, Open
<1>3. CASE OnSync(w)
  <2>1. queue' \in [Workers -> Seq(Buffers \cup Control)] /\ pc[w] = "get"
    BY <1>3, PopTypes DEF OnSync
  <2>2. CASE LeafOf[w] = "RADIUS"
    <3>1. PICK d \in TimeoutReads(w) : erasing' = [erasing EXCEPT ![w] = d]
      BY <1>3, <2>2 DEF OnSync
    <3>2. d \subseteq Open(w)
      BY DEF TimeoutReads
    <3>3. /\ pc' = [pc EXCEPT ![w] = "sync"]
          /\ UNCHANGED <<nicVars, sessions, held, stop, notes, expired, accepted, abandoned>>
      BY <1>3, <2>2 DEF OnSync
    <3>4. /\ erasing' \in [Workers -> SUBSET Ids]
          /\ \A v \in Workers : erasing'[v] \subseteq Open(v)'
      BY <3>1, <3>2, <3>3 DEF ProcessorTypeOK, Open
    <3>5. \A v \in Workers : pc'[v] \notin {"sync", "exit"} => erasing'[v] = {}
      BY <3>1, <3>3 DEF ProcessorTypeOK
    <3> QED BY <2>1, <3>3, <3>4, <3>5, NICFrame DEF ProcessorTypeOK
  <2>3. CASE LeafOf[w] # "RADIUS"
    BY <1>3, <2>1, <2>3, NICFrame DEF OnSync, ProcessorTypeOK, Open
  <2> QED BY <2>2, <2>3
<1>4. ASSUME NEW b \in Buffers, OnPair(w, b) PROVE NICTypeOK' /\ ProcessorTypeOK'
  <2> DEFINE k == frame[b].ident
  <2>1. k \in Ids /\ sessions[w][k] \in Buffers
    BY <1>4, ContentTypes DEF OnPair, ProcessorTypeOK
  <2>2. Note(w, b, sessions[w][k]) \in [worker : Workers, resp : Contents, req : Contents]
    BY <2>1, ContentTypes DEF Note
  <2>3. notes' \in Seq([worker : Workers, resp : Contents, req : Contents])
    BY <1>4, <2>2 DEF OnPair, ProcessorTypeOK
  <2>4. NICTypeOK'
    BY <1>4, <2>1, ReleasedTypes, PoolTypes DEF OnPair
  <2>5. queue' \in [Workers -> Seq(Buffers \cup Control)] /\ erasing[w] = {}
    BY <1>4, PopTypes DEF OnPair
  <2>6. sessions' = [sessions EXCEPT ![w][k] = NoBuffer]
    BY <1>4 DEF OnPair, SessionErased
  <2> HIDE DEF k
  <2>7. /\ sessions' \in [Workers -> [Ids -> Buffers \cup {NoBuffer}]]
        /\ \A v \in Workers : erasing[v] \subseteq Open(v)'
    BY <2>1, <2>5, <2>6 DEF ProcessorTypeOK, Open
  <2> QED BY <1>4, <2>3, <2>4, <2>5, <2>7 DEF OnPair, ProcessorTypeOK
<1>5. ASSUME NEW b \in Buffers, OnHold(w, b) PROVE NICTypeOK' /\ ProcessorTypeOK'
  <2> DEFINE k == frame[b].ident
  <2>1. k \in Ids
    BY ContentTypes
  <2>2. sessions' = [sessions EXCEPT ![w][k] = b]
    BY <1>5 DEF OnHold
  <2> HIDE DEF k
  <2>3. /\ sessions' \in [Workers -> [Ids -> Buffers \cup {NoBuffer}]]
        /\ \A v \in Workers : erasing[v] \subseteq Open(v)'
    BY <2>1, <2>2 DEF ProcessorTypeOK, Open
  <2>4. queue' \in [Workers -> Seq(Buffers \cup Control)] /\ pc[w] = "get" /\ erasing[w] = {}
    BY <1>5, PopTypes DEF OnHold
  <2> QED BY <1>5, <2>3, <2>4, NICFrame DEF OnHold, ProcessorTypeOK
<1>6. ASSUME NEW b \in Buffers, OnDiscard(w, b) PROVE NICTypeOK' /\ ProcessorTypeOK'
  <2>1. queue' \in [Workers -> Seq(Buffers \cup Control)] /\ pc[w] = "get" /\ erasing[w] = {}
    BY <1>6, PopTypes DEF OnDiscard
  <2> QED BY <1>6, <2>1, NICFrame DEF OnDiscard, ProcessorTypeOK, Open
<1>7. CASE DropPacket(w)
  <2>1. held[w] \in Buffers
    BY <1>7 DEF DropPacket, ProcessorTypeOK
  <2>2. NICTypeOK'
    BY <1>7, <2>1, ReleasedTypes, PoolTypes DEF DropPacket
  <2> QED BY <1>7, <2>2 DEF DropPacket, ProcessorTypeOK, Open
<1>8. ASSUME NEW k \in Ids, EraseSession(w, k) PROVE NICTypeOK' /\ ProcessorTypeOK'
  <2>1. sessions[w][k] \in Buffers
    BY <1>8 DEF EraseSession, ProcessorTypeOK, Open
  <2>2. NICTypeOK'
    BY <1>8, <2>1, ReleasedTypes, PoolTypes DEF EraseSession
  <2>3. expired' \in [Workers -> Nat] /\ abandoned' \in [Workers -> Nat]
    <3>1. expired \in [Workers -> Nat] /\ abandoned \in [Workers -> Nat]
      BY DEF ProcessorTypeOK
    <3>2. \/ /\ expired' = [expired EXCEPT ![w] = @ + 1]
             /\ abandoned' = abandoned
          \/ /\ abandoned' = [abandoned EXCEPT ![w] = @ + 1]
             /\ expired' = expired
      BY <1>8 DEF EraseSession
    <3> QED BY <3>1, <3>2
  <2>4. /\ sessions' = [sessions EXCEPT ![w][k] = NoBuffer]
        /\ erasing' = [erasing EXCEPT ![w] = @ \ {k}]
    BY <1>8 DEF EraseSession
  <2>5. /\ sessions' \in [Workers -> [Ids -> Buffers \cup {NoBuffer}]]
        /\ erasing' \in [Workers -> SUBSET Ids]
        /\ \A v \in Workers : erasing'[v] \subseteq Open(v)'
        /\ \A v \in Workers : pc[v] \notin {"sync", "exit"} => erasing'[v] = {}
    BY <2>4 DEF ProcessorTypeOK, Open
  <2> QED BY <1>8, <2>2, <2>3, <2>5 DEF EraseSession, ProcessorTypeOK
<1>9. CASE EraseDone(w)
  BY <1>9, NICFrame DEF EraseDone, ProcessorTypeOK, Open
<1> QED BY <1>1, <1>2, <1>3, <1>4, <1>5, <1>6, <1>7, <1>8, <1>9 DEF WorkerStep
-----------------------------------------------------------------------------
(* Dispatching, the sync thread and the shutdown.                          *)
LEMMA PutTypes ==
  ASSUME ProcessorTypeOK, NEW w \in Workers, NEW m \in Buffers \cup Control,
         PutControl(w, m)
  PROVE  queue' \in [Workers -> Seq(Buffers \cup Control)]
BY DEF ProcessorTypeOK, PutControl

LEMMA StepTypes ==
  ASSUME TypeOK, Step \/ Crash
  PROVE  /\ NICTypeOK' /\ ProcessorTypeOK'
         /\ syncAt' \in 0..N + 1 /\ shutAt' \in 1..N + 1
<1> DEFINE Goal == /\ NICTypeOK' /\ ProcessorTypeOK'
                   /\ syncAt' \in 0..N + 1 /\ shutAt' \in 1..N + 1
<1> USE WorkerNumbers DEF TypeOK
<1>1. CASE Capture
  BY <1>1, CaptureTypes, ProcessorFrame DEF Capture
<1>2. CASE Dispatch
  <2>1. PICK w \in Workers : Enqueue(w)
    BY <1>2 DEF Dispatch
  <2>2. hand \in Buffers
    BY <2>1 DEF Enqueue, NICTypeOK
  <2>3. queue' \in [Workers -> Seq(Buffers \cup Control)] /\ accepted' \in [Workers -> Nat]
    <3>1. /\ queue \in [Workers -> Seq(Buffers \cup Control)]
          /\ accepted \in [Workers -> Nat]
      BY DEF ProcessorTypeOK
    <3>2. /\ queue' = [queue EXCEPT ![w] = Append(@, hand)]
          /\ accepted' = [accepted EXCEPT ![w] = @ + 1]
      BY <2>1 DEF Enqueue
    <3>3. Append(queue[w], hand) \in Seq(Buffers \cup Control) /\ accepted[w] + 1 \in Nat
      BY <2>2, <3>1
    <3> QED BY <3>1, <3>2, <3>3
  <2>4. ProcessorTypeOK'
    BY <2>1, <2>3, QueueTypes DEF Enqueue
  <2>5. NICTypeOK'
    BY <2>1 DEF Enqueue, NICTypeOK, clockVars, MainPhases
  <2> QED BY <1>2, <2>4, <2>5 DEF Dispatch
<1>3. ASSUME NEW w \in Workers, Work(w) PROVE Goal
  BY <1>3, WorkerTypes DEF Work
<1>4. CASE TimerExpires
  BY <1>4, NICFrame, ProcessorFrame DEF TimerExpires
<1>5. CASE SyncPut
  <2>1. queue' \in [Workers -> Seq(Buffers \cup Control)]
    BY <1>5, PutTypes DEF SyncPut, Control
  <2>2. syncAt' \in 0..N + 1
    BY <1>5 DEF SyncPut, NextToSync
  <2>3. ProcessorTypeOK'
    BY <1>5, <2>1, QueueTypes DEF SyncPut, ProcessorTypeOK
  <2> QED BY <1>5, <2>2, <2>3, NICFrame DEF SyncPut
<1>6. CASE SyncEnds
  BY <1>6, NICFrame, ProcessorFrame DEF SyncEnds
<1>7. ASSUME NEW p \in {"close", "stopsync", "join", "end"}, Enter(p),
             phase \in {"pool", "close", "stopsync", "join"},
             UNCHANGED <<workerVars, syncAt, shutAt>>
      PROVE  Goal
  <2>1. NICTypeOK'
    BY <1>7 DEF Enter, clockVars, NICTypeOK, MainPhases
  <2> QED BY <1>7, <2>1, ProcessorFrame
<1>8. CASE ShutdownPut
  <2>1. queue' \in [Workers -> Seq(Buffers \cup Control)]
    BY <1>8, PutTypes DEF ShutdownPut, Control
  <2>2. shutAt' \in 1..N + 1
    BY <1>8 DEF ShutdownPut, NextToShut
  <2>3. ProcessorTypeOK'
    BY <1>8, <2>1, QueueTypes DEF ShutdownPut, ProcessorTypeOK
  <2> QED BY <1>8, <2>2, <2>3, NICFrame DEF ShutdownPut
<1>9. ASSUME NEW w \in Workers, DestroyItem(w) PROVE Goal
  <2>1. /\ Head(queue[w]) \in Buffers \cup Control
        /\ queue' \in [Workers -> Seq(Buffers \cup Control)]
    <3>1. queue[w] \in Seq(Buffers \cup Control) /\ queue[w] # <<>>
      BY <1>9 DEF DestroyItem, ProcessorTypeOK
    <3>2. Head(queue[w]) \in Buffers \cup Control /\ Tail(queue[w]) \in Seq(Buffers \cup Control)
      BY <3>1, HeadTail
    <3> QED BY <1>9, <3>2 DEF DestroyItem, ProcessorTypeOK
  <2>2. LeftoverReturned(Head(queue[w])) \in Seq(Buffers)
    BY <2>1, ReleasedTypes DEF LeftoverReturned, NICTypeOK
  <2>3. NICTypeOK'
    BY <1>9, <2>2, PoolTypes DEF DestroyItem
  <2>4. ProcessorTypeOK'
    BY <1>9, <2>1, QueueTypes DEF DestroyItem, ProcessorTypeOK
  <2> QED BY <1>9, <2>3, <2>4 DEF DestroyItem
<1>10. CASE ShutdownStep
  BY <1>10, <1>7, <1>8, <1>9
     DEF ShutdownStep, BeginShutdown, StopSync, JoinSync, Destroyed
<1>11. CASE Crash
  BY <1>11, NICFrame, ProcessorFrame DEF Crash
<1> QED BY <1>1, <1>2, <1>3, <1>4, <1>5, <1>6, <1>10, <1>11 DEF Step

LEMMA InitTypes == Init => TypeOK
<1> SUFFICES ASSUME Init PROVE TypeOK
  OBVIOUS
<1> USE NICAssumption, ControlApart DEF Init
<1>1. NICTypeOK
  <2>1. Cardinality(Buffers) \in Nat
    BY FS_CardinalityType
  <2>2. pool \in [1..Cardinality(Buffers) -> Buffers]
    BY DEF NICInit
  <2>3. pool \in Seq(Buffers)
    BY <2>1, <2>2
  <2> QED BY <2>3, BlankIsFrame DEF NICInit, NICTypeOK, MainPhases, Old
<1>2. ProcessorTypeOK
  BY DEF ProcessorInit, ProcessorTypeOK, Open
<1> QED BY <1>1, <1>2, WorkerNumbers DEF TypeOK

(* Every variable keeps its type: in particular the main thread owns a     *)
(* buffer exactly between taking it and routing it, and a worker erases    *)
(* only sessions that are open.                                            *)
THEOREM TypeCorrect == Spec => []TypeOK
<1>1. TypeOK /\ [Next]_vars => TypeOK'
  <2> SUFFICES ASSUME TypeOK, [Next]_vars PROVE TypeOK'
    OBVIOUS
  <2>1. alive' \in BOOLEAN
    BY DEF TypeOK, Next, Crash, Over, vars
  <2>2. CASE UNCHANGED vars
    BY <2>2, NICFrame, ProcessorFrame DEF vars, TypeOK
  <2>3. CASE Step \/ Crash
    BY <2>1, <2>3, StepTypes DEF TypeOK
  <2> QED BY <2>2, <2>3 DEF Next, Over
<1> QED BY <1>1, InitTypes, PTL DEF Spec
=============================================================================
