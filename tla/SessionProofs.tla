---------------------------- MODULE SessionProofs ----------------------------
(***************************************************************************)
(* What a RADIUS worker files under an identifier stays what it filed,     *)
(* although the buffers are recycled.                                      *)
(***************************************************************************)
EXTENDS OwnershipProofs

(* A packet waits with a worker of its own leaf, and a session is one of a *)
(* RADIUS worker and holds the frame it was filed under.                   *)
Filed ==
  /\ \A w \in Workers : \A b \in Buffers :
       Has(queue[w], b) => frame[b].leaf = LeafOf[w]
  /\ \A w \in Workers : \A k \in Ids : sessions[w][k] # NoBuffer =>
       /\ LeafOf[w] = "RADIUS"
       /\ frame[sessions[w][k]].leaf = "RADIUS"
       /\ frame[sessions[w][k]].ident = k

LEMMA FiledInit == Init => Filed
BY NICAssumption DEF Init, ProcessorInit, Filed, Has

(* The NIC receives into a buffer that no worker has.                      *)
LEMMA FiledCapture ==
  ASSUME TypeOK, Ownership, Filed, NICNext, UNCHANGED workerVars
  PROVE  Filed'
<1>1. queue' = queue /\ sessions' = sessions
  BY DEF workerVars
<1>2. CASE frame' = frame
  BY <1>1, <1>2 DEF Filed
<1>3. ASSUME NEW g \in Frames, hand \in Buffers, frame' = [frame EXCEPT ![hand] = g]
      PROVE  Filed'
  <2>1. \A w \in Workers : ~Has(queue[w], hand) /\ ~InSession(w, hand)
    BY <1>3 DEF Ownership, Owned, OwnedOnce, WithWorker
  <2>2. \A b \in Buffers : b # hand => frame'[b] = frame[b]
    BY <1>3 DEF TypeOK, NICTypeOK
  <2>3. \A w \in Workers : \A k \in Ids : sessions[w][k] \in Buffers \cup {NoBuffer}
    BY DEF TypeOK, ProcessorTypeOK
  <2> QED BY <1>1, <2>1, <2>2, <2>3 DEF Filed, InSession
<1>4. ASSUME NEW f \in Wire, Receive(f) PROVE Filed'
  <2>1. f \in Frames /\ hand \in Buffers /\ frame' = [frame EXCEPT ![hand] = f]
    BY <1>4, NICAssumption DEF Receive, TypeOK, NICTypeOK
  <2> QED BY <2>1, <1>3
<1>5. CASE ReceiveFails
  <2>1. hand \in Buffers /\ frame[hand] \in Frames
        /\ frame' = [frame EXCEPT ![hand] = Unsized(frame[hand])]
    BY <1>5 DEF ReceiveFails, TypeOK, NICTypeOK
  <2>2. Unsized(frame[hand]) \in Frames
    BY <2>1 DEF Unsized, Frames
  <2> QED BY <2>1, <2>2, <1>3
<1> QED BY <1>2, <1>4, <1>5 DEF NICNext, TakeBuffer, DropFrame, Tick, SetClock

LEMMA FiledWork ==
  ASSUME TypeOK, Ownership, Filed, NEW w \in Workers, WorkerStep(w)
  PROVE  Filed'
<1>1. CASE TestStop(w) \/ EraseDone(w) \/ DropPacket(w)
  BY <1>1 DEF TestStop, EraseDone, DropPacket, nicVars, Filed
<1>2. ASSUME NEW x, Pop(w, x), UNCHANGED <<frame, sessions>> PROVE Filed'
  BY <1>2, PopOwners DEF Filed
<1>3. ASSUME NEW k \in Ids, frame' = frame, sessions' = [sessions EXCEPT ![w][k] = NoBuffer]
      PROVE  \A v \in Workers : \A j \in Ids : sessions'[v][j] # NoBuffer =>
               /\ LeafOf[v] = "RADIUS"
               /\ frame'[sessions'[v][j]].leaf = "RADIUS"
               /\ frame'[sessions'[v][j]].ident = j
  <2>1. \A v \in Workers : \A j \in Ids :
          sessions'[v][j] = IF v = w /\ j = k THEN NoBuffer ELSE sessions[v][j]
    BY <1>3 DEF TypeOK, ProcessorTypeOK
  <2> QED BY <1>3, <2>1 DEF Filed
<1>4. ASSUME NEW k \in Ids, EraseSession(w, k) PROVE Filed'
  <2>1. /\ frame' = frame /\ queue' = queue
        /\ sessions' = [sessions EXCEPT ![w][k] = NoBuffer]
    BY <1>4 DEF EraseSession
  <2> QED BY <2>1, <1>3 DEF Filed
<1>5. ASSUME NEW b \in Buffers, OnPair(w, b) PROVE Filed'
  <2>1. /\ Pop(w, b) /\ frame' = frame /\ frame[b].ident \in Ids
        /\ sessions' = [sessions EXCEPT ![w][frame[b].ident] = NoBuffer]
    BY <1>5, ContentTypes DEF OnPair, SessionErased, TypeOK
  <2>2. \A v \in Workers : \A c \in Buffers : Has(queue'[v], c) => Has(queue[v], c)
    BY <2>1, PopOwners
  <2>3. \A v \in Workers : \A c \in Buffers : Has(queue'[v], c) => frame'[c].leaf = LeafOf[v]
    BY <2>1, <2>2 DEF Filed
  <2> QED BY <2>1, <2>3, <1>3 DEF Filed
<1>6. ASSUME NEW b \in Buffers, OnHold(w, b) PROVE Filed'
  <2> DEFINE k == frame[b].ident
  <2>1. /\ Pop(w, b) /\ frame' = frame /\ k \in Ids /\ LeafOf[w] = "RADIUS"
        /\ sessions' = [sessions EXCEPT ![w][k] = b]
    BY <1>6, ContentTypes DEF OnHold, nicVars, TypeOK
  <2>2. Has(queue[w], b) /\
        \A v \in Workers : \A c \in Buffers : Has(queue'[v], c) => Has(queue[v], c)
    BY <2>1, PopOwners
  <2>3. frame[b].leaf = "RADIUS" /\ frame[b].ident = k
    BY <2>1, <2>2 DEF Filed
  <2> HIDE DEF k
  <2>4. \A v \in Workers : \A j \in Ids :
          sessions'[v][j] = IF v = w /\ j = k THEN b ELSE sessions[v][j]
    BY <2>1 DEF TypeOK, ProcessorTypeOK
  <2> QED BY <2>1, <2>2, <2>3, <2>4 DEF Filed
<1>7. CASE OnShutdown(w)
  BY <1>2, <1>7 DEF OnShutdown, nicVars
<1>8. CASE OnSync(w)
  BY <1>2, <1>8 DEF OnSync, nicVars
<1>9. ASSUME NEW b \in Buffers, OnDiscard(w, b) PROVE Filed'
  BY <1>2, <1>9 DEF OnDiscard, nicVars
<1> QED BY <1>1, <1>4, <1>5, <1>6, <1>7, <1>8, <1>9 DEF WorkerStep

LEMMA FiledStep ==
  ASSUME TypeOK, Ownership, Filed, Step \/ Crash \/ UNCHANGED vars
  PROVE  Filed'
<1>1. ASSUME UNCHANGED <<frame, queue, sessions>> PROVE Filed'
  BY <1>1 DEF Filed
<1>2. CASE Capture
  BY <1>2, FiledCapture DEF Capture
<1>3. ASSUME NEW w \in Workers, Enqueue(w) PROVE Filed'
  <2>1. /\ hand \in Buffers /\ frame[hand].leaf = LeafOf[w]
        /\ frame' = frame /\ sessions' = sessions
    BY <1>3 DEF Enqueue, TypeOK, NICTypeOK
  <2>2. /\ queue'[w] = Append(queue[w], hand) /\ queue[w] \in Seq(Buffers \cup Control)
        /\ \A v \in Workers : v # w => queue'[v] = queue[v]
    BY <1>3 DEF Enqueue, TypeOK, ProcessorTypeOK
  <2>3. \A b \in Buffers : Has(queue'[w], b) <=> Has(queue[w], b) \/ b = hand
    BY <2>2, AppendHas
  <2> QED BY <2>1, <2>2, <2>3 DEF Filed
<1>4. ASSUME NEW w \in Workers, NEW m \in Control, PutControl(w, m),
             UNCHANGED <<frame, sessions>>
      PROVE  Filed'
  <2>1. /\ queue'[w] = Append(queue[w], m) /\ queue[w] \in Seq(Buffers \cup Control)
        /\ \A v \in Workers : v # w => queue'[v] = queue[v]
    BY <1>4 DEF PutControl, TypeOK, ProcessorTypeOK
  <2>2. \A b \in Buffers : Has(queue'[w], b) <=> Has(queue[w], b)
    BY <2>1, AppendHas, ControlApart
  <2> QED BY <1>4, <2>1, <2>2 DEF Filed
<1>5. ASSUME NEW w \in Workers, DestroyItem(w) PROVE Filed'
  <2>1. /\ queue'[w] = Tail(queue[w]) /\ queue[w] # <<>>
        /\ queue[w] \in Seq(Buffers \cup Control)
        /\ \A v \in Workers : v # w => queue'[v] = queue[v]
        /\ UNCHANGED <<frame, sessions>>
    BY <1>5 DEF DestroyItem, TypeOK, ProcessorTypeOK
  <2>2. \A b \in Buffers : Once(queue[w], b)
    BY DEF Ownership, Owned, OwnedOnce
  <2>3. \A b \in Buffers : Has(queue'[w], b) => Has(queue[w], b)
    BY <2>1, <2>2, TailHas
  <2> QED BY <2>1, <2>3 DEF Filed
<1>6. ASSUME NEW w \in Workers, Work(w) PROVE Filed'
  BY <1>6, FiledWork DEF Work
<1>7. CASE SyncPut \/ ShutdownPut
  BY <1>4, <1>7 DEF SyncPut, ShutdownPut, Control, nicVars
<1>8. CASE \/ TimerExpires \/ SyncEnds \/ Crash \/ UNCHANGED vars
           \/ BeginShutdown \/ StopSync \/ JoinSync \/ Destroyed
  BY <1>1, <1>8 DEF TimerExpires, SyncEnds, Crash, vars, nicVars, workerVars,
     BeginShutdown, StopSync, JoinSync, Destroyed, Enter
<1> QED BY <1>2, <1>3, <1>5, <1>6, <1>7, <1>8 DEF Step, ShutdownStep, Dispatch

LEMMA FiledAlways == Spec => []Filed
<1>1. TypeOK /\ Ownership /\ Filed /\ [Next]_vars => Filed'
  BY FiledStep DEF Next, Over
<1> QED BY <1>1, FiledInit, TypeCorrect, Owners, PTL DEF Spec

(* A packet kept in packetSessionsMap is, until it is erased, the frame it *)
(* was filed under, however often the other buffers are recycled.          *)
THEOREM SessionsIntact == Spec => []SessionIntact
<1>1. Filed => SessionIntact
  BY DEF Filed, SessionIntact, Open
<1> QED BY <1>1, FiledAlways, PTL
-----------------------------------------------------------------------------
(* The age a worker reads off a stamp is the time its packet has waited,   *)
(* as long as the clock was not set.  A packet that a RADIUS worker has    *)
(* was really received into its buffer: where the reception failed, the    *)
(* stamp is an old one, and the assertion of the constructor fails.        *)
Capped(a) == IF a > Timeout THEN Timeout ELSE a
Fresh(b) == stepped[b] \/ since[b] = Capped(age[b])
Due(b) == stepped[b] \/ since[b] = Timeout
Freshness ==
  /\ phase = "route" /\ frame[hand].leaf = "RADIUS" /\ Constructible(frame[hand])
       => Fresh(hand)
  /\ \A w \in Workers : LeafOf[w] = "RADIUS" =>
       \A b \in Buffers : Has(queue[w], b) \/ InSession(w, b) => Fresh(b)
  /\ \A w \in Workers : pc[w] = "sync" =>
       \A k \in erasing[w] : Due(sessions[w][k])

LEMMA FreshInit == Init => Freshness
BY NICAssumption DEF Init, NICInit, ProcessorInit, Freshness, Has, InSession

(* What passes while nothing is received into b.                           *)
LEMMA FreshStays ==
  ASSUME TypeOK, NEW b \in Buffers,
         Tick \/ SetClock \/ UNCHANGED clockVars
  PROVE  (Fresh(b) => Fresh(b)') /\ (Due(b) => Due(b)')
<1>1. /\ age[b] \in Int /\ since[b] \in 0..Timeout /\ stepped[b] \in BOOLEAN
      /\ Timeout \in Nat \ {0} /\ Old \in Nat /\ Old >= Timeout
  BY NICAssumption DEF TypeOK, NICTypeOK, Old
<1>2. CASE UNCHANGED clockVars
  BY <1>2 DEF clockVars, Fresh, Due, Capped
<1>3. CASE Tick
  <2>1. /\ age'[b] = IF age[b] + 1 > Old THEN Old ELSE age[b] + 1
        /\ since'[b] = IF since[b] = Timeout THEN Timeout ELSE since[b] + 1
        /\ stepped' = stepped
    BY <1>3 DEF Tick, Aged
  <2>2. since[b] = Capped(age[b]) => since'[b] = Capped(age'[b])
    BY <1>1, <2>1 DEF Capped
  <2>3. since[b] = Timeout => since'[b] = Timeout
    BY <2>1
  <2> QED BY <2>1, <2>2, <2>3 DEF Fresh, Due
<1>4. CASE SetClock
  BY <1>4 DEF SetClock, Fresh, Due
<1> QED BY <1>2, <1>3, <1>4

(* A session that the sweep finds outdated has waited for the timeout.     *)
LEMMA OutdatedIsDue ==
  ASSUME TypeOK, NEW b \in Buffers, Fresh(b), Outdated(b)
  PROVE  Due(b)
<1>1. /\ age[b] \in Int /\ since[b] \in 0..Timeout
      /\ Timeout \in Nat \ {0} /\ SizeMod \in Nat \ {0}
  BY NICAssumption, ProcessorAssumption DEF TypeOK, NICTypeOK, Old
<1>2. CASE since[b] = Capped(age[b])
  <2>1. age[b] >= 0
    BY <1>1, <1>2 DEF Capped
  <2>2. age[b] % SizeMod <= age[b]
    BY <1>1, <2>1
  <2>3. age[b] >= Timeout
    BY <1>1, <2>2 DEF Outdated, Delta
  <2> QED BY <1>1, <1>2, <2>3 DEF Capped, Due
<1> QED BY <1>2 DEF Fresh, Due

LEMMA FreshCapture ==
  ASSUME TypeOK, Ownership, Freshness, Asserts \/ ~RecvMayFail,
         NICNext, UNCHANGED workerVars
  PROVE  Freshness'
<1>1. /\ UNCHANGED <<queue, sessions, erasing, pc>>
      /\ \A w \in Workers : \A k \in erasing[w] : sessions[w][k] \in Buffers
  BY DEF workerVars, TypeOK, ProcessorTypeOK, Open
<1>2. CASE TakeBuffer \/ DropFrame
  BY <1>1, <1>2 DEF TakeBuffer, DropFrame, clockVars, Freshness, InSession, Fresh, Due
<1>3. CASE Tick \/ SetClock
  <2>1. \A b \in Buffers : (Fresh(b) => Fresh(b)') /\ (Due(b) => Due(b)')
    BY <1>3, FreshStays
  <2>2. UNCHANGED <<hand, phase, frame>> /\ (phase = "route" => hand \in Buffers)
    BY <1>3 DEF Tick, SetClock, TypeOK, NICTypeOK
  <2> QED BY <1>1, <2>1, <2>2 DEF Freshness, InSession
<1>4. ASSUME hand \in Buffers, hand' = hand,
             \A b \in Buffers : b # hand =>
               since'[b] = since[b] /\ age'[b] = age[b] /\ stepped'[b] = stepped[b],
             frame'[hand].leaf = "RADIUS" /\ Constructible(frame'[hand])
               => Fresh(hand)'
      PROVE  Freshness'
  <2>1. \A w \in Workers : ~Has(queue[w], hand) /\ ~InSession(w, hand)
    BY <1>4 DEF Ownership, Owned, OwnedOnce, WithWorker
  <2>2. \A b \in Buffers : b # hand => (Fresh(b) => Fresh(b)') /\ (Due(b) => Due(b)')
    BY <1>4 DEF Fresh, Due
  <2>3. \A w \in Workers : \A k \in erasing[w] : sessions[w][k] # hand
    BY <2>1 DEF InSession, TypeOK, ProcessorTypeOK
  <2> QED BY <1>1, <1>4, <2>1, <2>2, <2>3 DEF Freshness, InSession
<1>5. ASSUME NEW f \in Wire, Receive(f) PROVE Freshness'
  <2>1. hand \in Buffers /\ Timeout \in Nat
    BY <1>5, NICAssumption DEF Receive, TypeOK, NICTypeOK
  <2>2. /\ hand' = hand
        /\ \A b \in Buffers : b # hand =>
             since'[b] = since[b] /\ age'[b] = age[b] /\ stepped'[b] = stepped[b]
        /\ since'[hand] = 0 /\ age'[hand] = 0
    BY <1>5, <2>1 DEF Receive, Stamped, TypeOK, NICTypeOK
  <2>3. Fresh(hand)'
    BY <2>1, <2>2 DEF Fresh, Capped
  <2> QED BY <2>1, <2>2, <2>3, <1>4
<1>6. CASE ReceiveFails
  <2>1. hand \in Buffers /\ Asserts
    BY <1>6 DEF ReceiveFails, TypeOK, NICTypeOK
  <2>2. /\ hand' = hand
        /\ \A b \in Buffers : b # hand =>
             since'[b] = since[b] /\ age'[b] = age[b] /\ stepped'[b] = stepped[b]
    BY <1>6, <2>1 DEF ReceiveFails, TypeOK, NICTypeOK
  <2>3. frame[hand] \in Frames /\ frame'[hand] = Unsized(frame[hand])
    BY <1>6, <2>1 DEF ReceiveFails, TypeOK, NICTypeOK
  <2>4. ~frame'[hand].whole
    BY <2>3 DEF Unsized, Frames
  <2> QED BY <2>1, <2>2, <2>4, <1>4 DEF Constructible
<1> QED BY <1>2, <1>3, <1>5, <1>6 DEF NICNext

(* A worker does not touch the stamps; what it has, it had before, and     *)
(* what it will erase in a sweep was outdated when the sweep began.        *)
LEMMA FreshWork ==
  ASSUME TypeOK, Ownership, Filed, Freshness, InPlace, NEW w \in Workers, WorkerStep(w)
  PROVE  Freshness'
<1>1. UNCHANGED <<hand, phase, frame, age, since, stepped>>
  BY DEF WorkerStep, TestStop, OnShutdown, OnSync, OnPair, OnHold, OnDiscard,
     DropPacket, EraseSession, EraseDone, nicVars, clockVars
<1>2. \A b \in Buffers : (Fresh(b) => Fresh(b)') /\ (Due(b) => Due(b)')
  BY <1>1 DEF Fresh, Due
<1>3. ASSUME \A v \in Workers : \A b \in Buffers :
               Has(queue'[v], b) \/ InSession(v, b)' => Has(queue[v], b) \/ InSession(v, b),
             \A v \in Workers : pc'[v] = "sync" =>
               \A k \in erasing'[v] : sessions'[v][k] \in Buffers /\ Due(sessions'[v][k])
      PROVE  Freshness'
  <2>1. \A v \in Workers : pc'[v] = "sync" => \A k \in erasing'[v] : Due(sessions[v][k])'
    BY <1>1, <1>3 DEF Due
  <2>2. (hand # NoBuffer => hand \in Buffers) /\ (phase = "route" => hand # NoBuffer)
    BY DEF TypeOK, NICTypeOK
  <2> QED BY <1>1, <1>2, <1>3, <2>1, <2>2 DEF Freshness
<1>4. \A v \in Workers : pc[v] = "sync" =>
        \A k \in erasing[v] : sessions[v][k] \in Buffers /\ Due(sessions[v][k])
  BY DEF Freshness, TypeOK, ProcessorTypeOK, Open
<1>5. CASE TestStop(w) \/ DropPacket(w) \/ EraseDone(w)
  <2>1. /\ queue' = queue /\ sessions' = sessions
        /\ \A v \in Workers : pc'[v] = "sync" => pc[v] = "sync" /\ erasing'[v] = erasing[v]
    BY <1>5 DEF TestStop, DropPacket, EraseDone, TypeOK, ProcessorTypeOK
  <2> QED BY <1>3, <1>4, <2>1 DEF InSession
<1>6. ASSUME NEW x, Pop(w, x), sessions' = sessions,
             \A v \in Workers : pc'[v] = "sync" => pc[v] = "sync" /\ erasing'[v] = erasing[v]
      PROVE  Freshness'
  <2>1. \A v \in Workers : \A b \in Buffers : Has(queue'[v], b) => Has(queue[v], b)
    BY <1>6, PopOwners
  <2> QED BY <1>3, <1>4, <1>6, <2>1 DEF InSession
<1>7. CASE OnShutdown(w)
  <2>1. /\ Pop(w, SHUTDOWN) /\ sessions' = sessions
        /\ \A v \in Workers : pc'[v] = "sync" => pc[v] = "sync" /\ erasing'[v] = erasing[v]
    BY <1>7 DEF OnShutdown, TypeOK, ProcessorTypeOK
  <2> QED BY <1>6, <2>1
<1>8. ASSUME NEW b \in Buffers, OnDiscard(w, b) PROVE Freshness'
  <2>1. /\ Pop(w, b) /\ sessions' = sessions
        /\ \A v \in Workers : pc'[v] = "sync" => pc[v] = "sync" /\ erasing'[v] = erasing[v]
    BY <1>8 DEF OnDiscard, TypeOK, ProcessorTypeOK
  <2> QED BY <1>6, <2>1
<1>9. CASE OnSync(w) /\ LeafOf[w] # "RADIUS"
  <2>1. /\ Pop(w, SYNC_TIMEOUT) /\ sessions' = sessions
        /\ \A v \in Workers : pc'[v] = "sync" => pc[v] = "sync" /\ erasing'[v] = erasing[v]
    BY <1>9 DEF OnSync, TypeOK, ProcessorTypeOK
  <2> QED BY <1>6, <2>1
<1>10. CASE OnSync(w) /\ LeafOf[w] = "RADIUS"
  <2>1. /\ Pop(w, SYNC_TIMEOUT) /\ sessions' = sessions
        /\ erasing' = [erasing EXCEPT ![w] = {k \in Open(w) : Outdated(sessions[w][k])}]
        /\ pc' = [pc EXCEPT ![w] = "sync"]
    BY <1>10 DEF OnSync, TimeoutReads
  <2>2. \A v \in Workers : \A b \in Buffers :
          Has(queue'[v], b) \/ InSession(v, b)' => Has(queue[v], b) \/ InSession(v, b)
    BY <2>1, PopOwners DEF InSession
  <2>3. ASSUME NEW k \in Open(w), Outdated(sessions[w][k])
        PROVE  sessions[w][k] \in Buffers /\ Due(sessions[w][k])
    <3>1. sessions[w][k] \in Buffers /\ InSession(w, sessions[w][k])
      BY DEF Open, TypeOK, ProcessorTypeOK, InSession
    <3>2. Fresh(sessions[w][k])
      BY <1>10, <3>1 DEF Freshness
    <3> QED BY <2>3, <3>1, <3>2, OutdatedIsDue
  <2>4. \A v \in Workers : v # w => pc'[v] = pc[v] /\ erasing'[v] = erasing[v]
    BY <2>1 DEF TypeOK, ProcessorTypeOK
  <2>5. erasing'[w] = {k \in Open(w) : Outdated(sessions[w][k])}
    BY <2>1 DEF TypeOK, ProcessorTypeOK
  <2> QED BY <1>3, <1>4, <2>1, <2>2, <2>3, <2>4, <2>5
<1>11. ASSUME NEW b \in Buffers, OnPair(w, b) \/ OnHold(w, b) PROVE Freshness'
  <2> DEFINE k == frame[b].ident
  <2>1. /\ Pop(w, b) /\ k \in Ids
        /\ \A v \in Workers : pc'[v] = "sync" => v # w /\ pc[v] = "sync" /\ erasing'[v] = erasing[v]
    BY <1>11, ContentTypes DEF OnPair, OnHold, TypeOK, ProcessorTypeOK
  <2>2. \A v \in Workers : \A j \in Ids :
          sessions'[v][j] \in {sessions[v][j]} \cup (IF v = w THEN {b, NoBuffer} ELSE {})
    BY <1>11, <2>1 DEF OnPair, OnHold, SessionErased, TypeOK, ProcessorTypeOK
  <2>3. Has(queue[w], b) /\ \A v \in Workers : \A c \in Buffers :
          Has(queue'[v], c) => Has(queue[v], c)
    BY <2>1, PopOwners
  <2> HIDE DEF k
  <2>4. \A v \in Workers : \A c \in Buffers :
          InSession(v, c)' => InSession(v, c) \/ (v = w /\ c = b)
    BY <2>2, ControlApart DEF InSession
  <2>5. \A v \in Workers : \A j \in erasing[v] : j \in Ids
    BY DEF TypeOK, ProcessorTypeOK
  <2> QED BY <1>3, <1>4, <2>1, <2>2, <2>3, <2>4, <2>5
<1>12. ASSUME NEW k \in Ids, EraseSession(w, k) PROVE Freshness'
  <2>1. queue' = queue /\ pc' = pc
    BY <1>12 DEF EraseSession
  <2>2. \A v \in Workers : \A j \in Ids :
          sessions'[v][j] = IF v = w /\ j = k THEN NoBuffer ELSE sessions[v][j]
    BY <1>12 DEF EraseSession, TypeOK, ProcessorTypeOK
  <2>3. \A v \in Workers : erasing'[v] = IF v = w THEN erasing[w] \ {k} ELSE erasing[v]
    BY <1>12 DEF EraseSession, TypeOK, ProcessorTypeOK
  <2>4. \A v \in Workers : \A c \in Buffers : InSession(v, c)' => InSession(v, c)
    BY <2>2, ControlApart DEF InSession
  <2>5. \A v \in Workers : \A j \in erasing[v] : j \in Ids
    BY DEF TypeOK, ProcessorTypeOK
  <2> QED BY <1>3, <1>4, <2>1, <2>2, <2>3, <2>4, <2>5
<1> QED BY <1>5, <1>7, <1>8, <1>9, <1>10, <1>11, <1>12 DEF WorkerStep

LEMMA FreshStep ==
  ASSUME TypeOK, Ownership, Filed, Freshness, InPlace, Asserts \/ ~RecvMayFail,
         Step \/ Crash \/ UNCHANGED vars
  PROVE  Freshness'
<1>1. ASSUME UNCHANGED <<frame, clockVars, sessions, pc, erasing>>,
             UNCHANGED <<hand, phase>> \/ phase' # "route",
             \A w \in Workers : LeafOf[w] = "RADIUS" => \A b \in Buffers :
               Has(queue'[w], b) => Has(queue[w], b) \/ Fresh(b)
      PROVE  Freshness'
  BY <1>1 DEF clockVars, Freshness, InSession, Fresh, Due
<1>2. CASE Capture
  BY <1>2, FreshCapture DEF Capture
<1>3. ASSUME NEW w \in Workers, Work(w) PROVE Freshness'
  BY <1>3, FreshWork DEF Work
<1>4. ASSUME NEW w \in Workers, Enqueue(w) PROVE Freshness'
  <2>1. /\ queue'[w] = Append(queue[w], hand) /\ queue[w] \in Seq(Buffers \cup Control)
        /\ \A v \in Workers : v # w => queue'[v] = queue[v]
    BY <1>4 DEF Enqueue, TypeOK, ProcessorTypeOK
  <2>2. \A b \in Buffers : Has(queue'[w], b) => Has(queue[w], b) \/ b = hand
    BY <2>1, AppendHas
  <2>3. LeafOf[w] = "RADIUS" => Fresh(hand)
    BY <1>4 DEF Enqueue, Freshness
  <2>4. UNCHANGED <<frame, clockVars, sessions, pc, erasing>> /\ phase' # "route"
    BY <1>4 DEF Enqueue
  <2> QED BY <1>1, <2>1, <2>2, <2>3, <2>4
<1>5. ASSUME NEW w \in Workers, NEW m \in Control, PutControl(w, m),
             UNCHANGED <<nicVars, sessions, pc, erasing>>
      PROVE  Freshness'
  <2>1. /\ queue'[w] = Append(queue[w], m) /\ queue[w] \in Seq(Buffers \cup Control)
        /\ \A v \in Workers : v # w => queue'[v] = queue[v]
    BY <1>5 DEF PutControl, TypeOK, ProcessorTypeOK
  <2>2. \A b \in Buffers : Has(queue'[w], b) => Has(queue[w], b)
    BY <2>1, AppendHas, ControlApart
  <2>3. UNCHANGED <<frame, clockVars, sessions, pc, erasing, hand, phase>>
    BY <1>5 DEF nicVars, clockVars
  <2> QED BY <1>1, <2>1, <2>2, <2>3
<1>6. ASSUME NEW w \in Workers, DestroyItem(w) PROVE Freshness'
  <2>1. /\ queue'[w] = Tail(queue[w]) /\ queue[w] # <<>>
        /\ queue[w] \in Seq(Buffers \cup Control)
        /\ \A v \in Workers : v # w => queue'[v] = queue[v]
        /\ UNCHANGED <<frame, clockVars, sessions, pc, erasing, hand, phase>>
    BY <1>6 DEF DestroyItem, TypeOK, ProcessorTypeOK
  <2>2. \A b \in Buffers : Has(queue'[w], b) => Has(queue[w], b)
    BY <2>1, TailHas
  <2> QED BY <1>1, <2>1, <2>2
<1>7. CASE SyncPut \/ ShutdownPut
  BY <1>5, <1>7 DEF SyncPut, ShutdownPut, Control
<1>8. CASE TimerExpires \/ SyncEnds \/ Crash \/ UNCHANGED vars
  BY <1>1, <1>8 DEF TimerExpires, SyncEnds, Crash, vars, nicVars, clockVars, workerVars
<1>9. CASE BeginShutdown \/ StopSync \/ JoinSync \/ Destroyed
  BY <1>1, <1>9 DEF BeginShutdown, StopSync, JoinSync, Destroyed, Enter, workerVars
<1> QED BY <1>2, <1>3, <1>4, <1>6, <1>7, <1>8, <1>9 DEF Step, ShutdownStep, Dispatch

(* Only an erasure of the sweep counts a session as unresponded.           *)
LEMMA OnlySweepCounts ==
  ASSUME TypeOK, [Next]_vars, NEW w \in Workers, NEW k \in Open(w),
         expired'[w] > expired[w], sessions'[w][k] = NoBuffer
  PROVE  pc[w] = "sync" /\ k \in erasing[w]
<1>1. /\ expired[w] \in Nat /\ k \in Ids /\ sessions[w][k] # NoBuffer
  BY DEF TypeOK, ProcessorTypeOK, Open
<1>2. expired' # expired
  BY <1>1
<1>3. PICK v \in Workers, j \in Ids : EraseSession(v, j)
  <2>1. ~(Capture \/ TimerExpires \/ SyncPut \/ SyncEnds \/ ShutdownStep \/ Crash
            \/ Dispatch \/ UNCHANGED vars)
    BY <1>2 DEF Capture, TimerExpires, SyncPut, SyncEnds, ShutdownStep, BeginShutdown,
       ShutdownPut, StopSync, JoinSync, DestroyItem, Destroyed, Crash, Dispatch, Enqueue,
       vars, workerVars
  <2>2. PICK v \in Workers : Work(v)
    BY <2>1 DEF Next, Over, Step
  <2> QED BY <1>2, <2>2 DEF Work, WorkerStep, TestStop, OnShutdown, OnSync, OnPair, OnHold,
          OnDiscard, DropPacket, EraseDone
<1>4. /\ pc[v] = "sync" => expired' = [expired EXCEPT ![v] = @ + 1]
      /\ pc[v] # "sync" => expired' = expired
      /\ sessions' = [sessions EXCEPT ![v][j] = NoBuffer]
      /\ j \in erasing[v]
  BY <1>3 DEF EraseSession
<1>5. pc[v] = "sync" /\ v = w
  BY <1>1, <1>2, <1>4 DEF TypeOK, ProcessorTypeOK
<1>6. j = k
  BY <1>1, <1>4, <1>5 DEF TypeOK, ProcessorTypeOK
<1> QED BY <1>4, <1>5, <1>6

(* With the processor built in place and the constructor's assertion on    *)
(* (or receptions that do not fail), no session is counted as unresponded  *)
(* before it has waited for the timeout, but for a clock that was set.     *)
(* Without the first the sweep compares with an undefined timeout; without *)
(* the second a packet can be filed under the stamp of an older frame.     *)
THEOREM ExpiryNotEarly ==
  ASSUME InPlace, Asserts \/ ~RecvMayFail
  PROVE  Spec => NoEarlyExpiry
<1>1. TypeOK /\ Ownership /\ Filed /\ Freshness /\ [Next]_vars => Freshness'
  BY FreshStep DEF Next, Over
<1>2. TypeOK /\ Freshness /\ [Next]_vars =>
        [\A w \in Workers : \A k \in Open(w) :
           expired'[w] > expired[w] /\ sessions'[w][k] = NoBuffer =>
             LET b == sessions[w][k] IN stepped[b] \/ since[b] = Timeout]_vars
  BY OnlySweepCounts DEF Freshness, Due
<1> QED BY <1>1, <1>2, FreshInit, TypeCorrect, Owners, FiledAlways, PTL
        DEF Spec, NoEarlyExpiry
-----------------------------------------------------------------------------
(* Receptions are numbered.  A packet on its way to a notification has a   *)
(* number of its own; a queue holds them in the order of their receptions, *)
(* and a session is earlier than all that its worker still has to look at. *)
Claimed(w, b) == Has(queue[w], b) \/ InSession(w, b)
Unreported(b) == (phase = "route" /\ hand = b) \/ \E w \in Workers : Claimed(w, b)
InOrder(q, num) ==
  \A i, j \in DOMAIN q :
    i < j /\ q[i] \in Buffers /\ q[j] \in Buffers => num[q[i]] < num[q[j]]
ReportedNo(n) == \E i \in DOMAIN notes : notes[i].req.no = n \/ notes[i].resp.no = n

NumbersBounded ==
  /\ phase = "route" => no[hand] = captures
  /\ \A b \in Buffers : Unreported(b) => no[b] <= captures
  /\ \A n \in Nat : ReportedNo(n) => n <= captures
NumbersApart ==
  /\ \A b, c \in Buffers : Unreported(b) /\ Unreported(c) /\ no[b] = no[c] => b = c
  /\ \A b \in Buffers : Unreported(b) => ~ReportedNo(no[b])
QueuesInOrder ==
  /\ \A w \in Workers : InOrder(queue[w], no)
  /\ \A w \in Workers : \A b, c \in Buffers :
       InSession(w, b) /\ Has(queue[w], c) => no[b] < no[c]
Numbered == NumbersBounded /\ NumbersApart /\ QueuesInOrder /\ ConversationsDisjoint

LEMMA NumberedInit == Init => Numbered
BY NICAssumption DEF Init, NICInit, ProcessorInit, Numbered, NumbersBounded, NumbersApart,
   QueuesInOrder, ConversationsDisjoint, Unreported, Claimed, ReportedNo, InOrder, Has,
   InSession

LEMMA AppendInOrder ==
  ASSUME NEW q \in Seq(Buffers \cup Control), NEW x, NEW num, InOrder(q, num),
         \A c \in Buffers : Has(q, c) /\ x \in Buffers => num[c] < num[x]
  PROVE  InOrder(Append(q, x), num)
<1>1. /\ Len(q) \in Nat /\ DOMAIN q = 1..Len(q)
      /\ DOMAIN Append(q, x) = 1..Len(q) + 1
      /\ \A i \in 1..Len(q) : Append(q, x)[i] = q[i]
      /\ Append(q, x)[Len(q) + 1] = x
  OBVIOUS
<1> QED BY <1>1 DEF InOrder, Has

LEMMA TailInOrder ==
  ASSUME NEW q \in Seq(Buffers \cup Control), q # <<>>, NEW num, InOrder(q, num)
  PROVE  /\ InOrder(Tail(q), num)
         /\ \A c \in Buffers : Head(q) \in Buffers /\ Has(Tail(q), c) => num[Head(q)] < num[c]
<1>1. /\ Len(q) \in Nat \ {0} /\ DOMAIN q = 1..Len(q) /\ Head(q) = q[1]
      /\ DOMAIN Tail(q) = 1..Len(q) - 1
      /\ \A i \in 1..Len(q) - 1 : Tail(q)[i] = q[i + 1]
  OBVIOUS
<1>2. \A i \in DOMAIN Tail(q) : i + 1 \in DOMAIN q /\ Tail(q)[i] = q[i + 1] /\ 1 < i + 1
  BY <1>1
<1>3. \A i, j \in DOMAIN Tail(q) : i < j => i + 1 < j + 1
  BY <1>1
<1>4. InOrder(Tail(q), num)
  BY <1>2, <1>3 DEF InOrder
<1>5. 1 \in DOMAIN q
  BY <1>1
<1> QED BY <1>1, <1>2, <1>4, <1>5 DEF InOrder, Has

(* What only ends the way of packets keeps the numbers as they are.        *)
LEMMA FewerUnreported ==
  ASSUME Numbered, UNCHANGED <<no, captures, notes>>,
         phase' = "route" => UNCHANGED <<phase, hand>>,
         \A b \in Buffers : Unreported(b)' => Unreported(b),
         QueuesInOrder'
  PROVE  Numbered'
<1>1. \A n : ReportedNo(n)' <=> ReportedNo(n)
  BY DEF ReportedNo
<1>2. NumbersBounded'
  BY <1>1 DEF Numbered, NumbersBounded
<1>3. NumbersApart'
  BY <1>1 DEF Numbered, NumbersApart
<1> QED BY <1>2, <1>3 DEF Numbered, ConversationsDisjoint

LEMMA NumberedCapture ==
  ASSUME TypeOK, Ownership, Numbered, NICNext, UNCHANGED workerVars
  PROVE  Numbered'
<1>1. UNCHANGED <<queue, sessions, notes>>
  BY DEF workerVars
<1>2. \A w \in Workers, b \in Buffers : Claimed(w, b)' <=> Claimed(w, b)
  BY <1>1 DEF Claimed, InSession
<1>3. CASE TakeBuffer \/ DropFrame \/ Tick \/ SetClock
  <2>1. /\ UNCHANGED <<no, captures>>
        /\ phase' = "route" => UNCHANGED <<phase, hand>>
    BY <1>3 DEF TakeBuffer, DropFrame, Tick, SetClock
  <2>2. QueuesInOrder'
    BY <1>1, <2>1 DEF Numbered, QueuesInOrder, InSession
  <2> QED BY <1>1, <1>2, <2>1, <2>2, FewerUnreported DEF Unreported
<1>4. ASSUME phase = "recv", phase' = "route", hand' = hand,
             captures' = captures + 1, no' = [no EXCEPT ![hand] = captures + 1]
      PROVE  Numbered'
  <2>1. hand \in Buffers /\ captures \in Nat /\ \A b \in Buffers : no[b] \in Nat
    BY <1>4, NICAssumption DEF TypeOK, NICTypeOK
  <2>2. /\ no'[hand] = captures + 1
        /\ \A b \in Buffers : b # hand => no'[b] = no[b]
    BY <1>4, <2>1 DEF TypeOK, NICTypeOK
  <2>3. \A w \in Workers : ~Claimed(w, hand)
    BY <2>1 DEF Claimed, Ownership, Owned, OwnedOnce, WithWorker
  <2>4. \A b \in Buffers : b # hand => (Unreported(b)' => Unreported(b))
    BY <1>2, <1>4 DEF Unreported
  <2>5. \A n : ReportedNo(n)' <=> ReportedNo(n)
    BY <1>1 DEF ReportedNo
  <2>6. NumbersBounded'
    BY <1>4, <2>1, <2>2, <2>4, <2>5 DEF Numbered, NumbersBounded
  <2>7. \A b, c \in Buffers : Unreported(b)' /\ Unreported(c)' /\ no'[b] = no'[c] => b = c
    <3>1. \A b \in Buffers : b # hand /\ Unreported(b)' => no'[b] <= captures
      BY <2>2, <2>4 DEF Numbered, NumbersBounded
    <3>2. \A b, c \in Buffers : b # hand /\ c # hand /\ Unreported(b)' /\ Unreported(c)'
            /\ no'[b] = no'[c] => b = c
      BY <2>2, <2>4 DEF Numbered, NumbersApart
    <3> QED BY <2>1, <2>2, <3>1, <3>2
  <2>8. \A b \in Buffers : Unreported(b)' => ~ReportedNo(no'[b])
    <3>1. ~ReportedNo(captures + 1)
      BY <2>1 DEF Numbered, NumbersBounded
    <3> QED BY <2>2, <2>4, <3>1 DEF Numbered, NumbersApart
  <2>9. NumbersApart'
    BY <2>5, <2>7, <2>8 DEF NumbersApart
  <2>10. QueuesInOrder'
    <3>1. \A w \in Workers : \A i \in DOMAIN queue[w] :
            queue[w][i] \in Buffers => no'[queue[w][i]] = no[queue[w][i]]
      BY <2>2, <2>3 DEF Claimed, Has
    <3>2. \A w \in Workers : InOrder(queue[w], no')
      BY <3>1 DEF Numbered, QueuesInOrder, InOrder
    <3>3. \A w \in Workers : \A b \in Buffers :
            InSession(w, b) \/ Has(queue[w], b) => no'[b] = no[b]
      BY <2>2, <2>3 DEF Claimed
    <3> QED BY <1>1, <3>2, <3>3 DEF Numbered, QueuesInOrder, InSession
  <2> QED BY <1>1, <2>6, <2>9, <2>10 DEF Numbered, ConversationsDisjoint
<1>5. ASSUME NEW f \in Wire, Receive(f) PROVE Numbered'
  BY <1>4, <1>5 DEF Receive
<1>6. CASE ReceiveFails
  BY <1>4, <1>6 DEF ReceiveFails
<1> QED BY <1>3, <1>5, <1>6 DEF NICNext

(* A notification joins the session with the packet whose turn it is:      *)
(* neither was reported before, and neither is unreported any more.        *)
LEMMA NumberedPair ==
  ASSUME TypeOK, Ownership, Filed, Numbered, NEW w \in Workers, NEW b \in Buffers,
         OnPair(w, b)
  PROVE  Numbered'
<1> DEFINE k == frame[b].ident
           q == sessions[w][k]
<1>1. k \in Ids /\ q \in Buffers
  BY ContentTypes DEF OnPair, TypeOK, ProcessorTypeOK
<1>2. /\ Pop(w, b) /\ UNCHANGED <<hand, phase, no, captures>>
      /\ notes' = Append(notes, Note(w, b, q))
      /\ sessions' = [sessions EXCEPT ![w][k] = NoBuffer]
  BY DEF OnPair, SessionErased
<1>3. Note(w, b, q).resp.no = no[b] /\ Note(w, b, q).req.no = no[q]
      /\ Note(w, b, q).resp.ident = k /\ Note(w, b, q).req.ident = k
  BY <1>1, ControlApart DEF Note, Content, Filed
<1>4. q = sessions[w][k]
  OBVIOUS
<1> DEFINE n == Note(w, b, q)
<1> HIDE DEF k, q, n
<1>5. \A v \in Workers : \A j \in Ids :
        sessions'[v][j] = IF v = w /\ j = k THEN NoBuffer ELSE sessions[v][j]
  BY <1>1, <1>2 DEF TypeOK, ProcessorTypeOK
<1>6. Has(queue[w], b) /\ InSession(w, q)
  BY <1>1, <1>2, <1>4, PopOwners DEF InSession
<1>7. /\ Unreported(b) /\ Unreported(q) /\ no[q] < no[b]
  BY <1>1, <1>6 DEF Unreported, Claimed, Numbered, QueuesInOrder
<1>8. \A v \in Workers : \A c \in Buffers :
        /\ Has(queue'[v], c) <=> Has(queue[v], c) /\ ~(v = w /\ c = b)
        /\ InSession(v, c)' => InSession(v, c) /\ ~(v = w /\ c = q)
  <2>1. \A j \in Ids : sessions[w][j] = q => j = k
    BY <1>1, <1>4 DEF Ownership, Owned, OwnedOnce
  <2>2. \A v \in Workers : \A c \in Buffers :
          InSession(v, c)' => InSession(v, c) /\ ~(v = w /\ c = q)
    BY <1>1, <1>5, <2>1, ControlApart DEF InSession
  <2> QED BY <1>2, <2>2, PopOwners
<1>9. ~Unreported(b)'
  <2>1. /\ ~(hand = b) /\ ~InSession(w, b)
        /\ \A v \in Workers : v # w => ~Has(queue[v], b) /\ ~InSession(v, b)
    BY <1>6 DEF Ownership, Owned, OwnedOnce, WithWorker
  <2> QED BY <1>2, <1>8, <2>1 DEF Unreported, Claimed
<1>10. \A c \in Buffers : c = q => ~Unreported(c)'
  <2>1. /\ ~(hand = q) /\ ~Has(queue[w], q)
        /\ \A v \in Workers : v # w => ~Has(queue[v], q) /\ ~InSession(v, q)
    BY <1>1, <1>6 DEF Ownership, Owned, OwnedOnce, WithWorker
  <2> QED BY <1>1, <1>2, <1>8, <2>1 DEF Unreported, Claimed
<1>11. \A c \in Buffers : Unreported(c)' => Unreported(c) /\ c # b /\ c # q
  BY <1>2, <1>8, <1>9, <1>10 DEF Unreported, Claimed
<1>12. /\ Len(notes) \in Nat /\ DOMAIN notes = 1..Len(notes)
       /\ DOMAIN notes' = 1..Len(notes) + 1
       /\ \A i \in 1..Len(notes) : notes'[i] = notes[i]
       /\ notes'[Len(notes) + 1] = n
       /\ n.req.no = no[q] /\ n.resp.no = no[b]
       /\ n.req.ident = n.resp.ident
  BY <1>2, <1>3 DEF n, TypeOK, ProcessorTypeOK
<1>13. \A m : ReportedNo(m)' <=> ReportedNo(m) \/ m = no[q] \/ m = no[b]
  BY <1>12 DEF ReportedNo
<1>14. NumbersBounded'
  BY <1>1, <1>2, <1>7, <1>11, <1>13 DEF Numbered, NumbersBounded
<1>15. NumbersApart'
  BY <1>1, <1>2, <1>7, <1>11, <1>13 DEF Numbered, NumbersApart
<1>16. QueuesInOrder'
  <2>1. /\ queue[w] \in Seq(Buffers \cup Control) /\ queue[w] # <<>>
        /\ queue'[w] = Tail(queue[w])
        /\ \A v \in Workers : v # w => queue'[v] = queue[v]
    BY <1>2 DEF Pop, TypeOK, ProcessorTypeOK
  <2>2. \A v \in Workers : InOrder(queue'[v], no)
    BY <2>1, TailInOrder DEF Numbered, QueuesInOrder
  <2> QED BY <1>2, <1>8, <2>2 DEF Numbered, QueuesInOrder
<1>17. ConversationsDisjoint'
  <2>1. ~ReportedNo(no[b]) /\ ~ReportedNo(no[q])
    BY <1>1, <1>7 DEF Numbered, NumbersApart
  <2>2. \A i \in DOMAIN notes : /\ notes[i].req.no # no[b] /\ notes[i].req.no # no[q]
                                /\ notes[i].resp.no # no[b] /\ notes[i].resp.no # no[q]
    BY <2>1 DEF ReportedNo
  <2>3. \A i \in DOMAIN notes' : /\ notes'[i].req.ident = notes'[i].resp.ident
                                 /\ notes'[i].req.no < notes'[i].resp.no
    BY <1>7, <1>12 DEF Numbered, ConversationsDisjoint
  <2>4. \A i, j \in DOMAIN notes' : i # j =>
          {notes'[i].req.no, notes'[i].resp.no}
            \cap {notes'[j].req.no, notes'[j].resp.no} = {}
    BY <1>12, <2>2 DEF Numbered, ConversationsDisjoint
  <2> QED BY <2>3, <2>4 DEF ConversationsDisjoint
<1> QED BY <1>14, <1>15, <1>16, <1>17 DEF Numbered

LEMMA NumberedWork ==
  ASSUME TypeOK, Ownership, Filed, Numbered, NEW w \in Workers, WorkerStep(w)
  PROVE  Numbered'
<1>1. ASSUME UNCHANGED <<queue, no, captures, hand, phase, notes>>,
             \A v \in Workers : \A b \in Buffers : InSession(v, b)' => InSession(v, b)
      PROVE  Numbered'
  <2>1. QueuesInOrder'
    BY <1>1 DEF Numbered, QueuesInOrder
  <2>2. \A b \in Buffers : Unreported(b)' => Unreported(b)
    BY <1>1 DEF Unreported, Claimed
  <2> QED BY <1>1, <2>1, <2>2, FewerUnreported
<1>2. ASSUME NEW x, Pop(w, x), UNCHANGED <<no, captures, hand, phase, notes>>,
             \A v \in Workers : \A b \in Buffers :
               InSession(v, b)' => InSession(v, b) \/ (v = w /\ b = x)
      PROVE  Numbered'
  <2>1. /\ queue[w] \in Seq(Buffers \cup Control) /\ queue[w] # <<>> /\ x = Head(queue[w])
        /\ queue'[w] = Tail(queue[w])
        /\ \A v \in Workers : v # w => queue'[v] = queue[v]
    BY <1>2 DEF Pop, TypeOK, ProcessorTypeOK
  <2>2. /\ Has(queue[w], x)
        /\ \A v \in Workers : \A c \in Buffers : Has(queue'[v], c) => Has(queue[v], c)
    BY <1>2, PopOwners
  <2>3. \A b \in Buffers : Unreported(b)' => Unreported(b)
    BY <1>2, <2>2 DEF Unreported, Claimed
  <2>4. /\ \A v \in Workers : InOrder(queue'[v], no)
        /\ \A c \in Buffers : x \in Buffers /\ Has(queue'[w], c) => no[x] < no[c]
    BY <2>1, TailInOrder DEF Numbered, QueuesInOrder
  <2>5. QueuesInOrder'
    BY <1>2, <2>2, <2>4 DEF Numbered, QueuesInOrder
  <2> QED BY <1>2, <2>3, <2>5, FewerUnreported
<1>3. CASE TestStop(w) \/ DropPacket(w) \/ EraseDone(w)
  <2>1. UNCHANGED <<queue, sessions, no, captures, hand, phase, notes>>
    BY <1>3 DEF TestStop, DropPacket, EraseDone, nicVars
  <2> QED BY <1>1, <2>1 DEF InSession
<1>4. CASE OnShutdown(w)
  <2>1. Pop(w, SHUTDOWN) /\ UNCHANGED <<sessions, no, captures, hand, phase, notes>>
    BY <1>4 DEF OnShutdown, nicVars
  <2> QED BY <1>2, <2>1 DEF InSession
<1>5. CASE OnSync(w)
  <2>1. Pop(w, SYNC_TIMEOUT) /\ UNCHANGED <<sessions, no, captures, hand, phase, notes>>
    BY <1>5 DEF OnSync, nicVars
  <2> QED BY <1>2, <2>1 DEF InSession
<1>6. ASSUME NEW b \in Buffers, OnDiscard(w, b) PROVE Numbered'
  <2>1. Pop(w, b) /\ UNCHANGED <<sessions, no, captures, hand, phase, notes>>
    BY <1>6 DEF OnDiscard, nicVars
  <2> QED BY <1>2, <2>1 DEF InSession
<1>7. ASSUME NEW b \in Buffers, OnHold(w, b) PROVE Numbered'
  <2> DEFINE k == frame[b].ident
  <2>1. /\ Pop(w, b) /\ UNCHANGED <<no, captures, hand, phase, notes>>
        /\ k \in Ids /\ sessions' = [sessions EXCEPT ![w][k] = b]
    BY <1>7, ContentTypes DEF OnHold, nicVars, TypeOK
  <2> HIDE DEF k
  <2>2. \A v \in Workers : \A j \in Ids :
          sessions'[v][j] = IF v = w /\ j = k THEN b ELSE sessions[v][j]
    BY <2>1 DEF TypeOK, ProcessorTypeOK
  <2> QED BY <1>2, <2>1, <2>2 DEF InSession
<1>8. ASSUME NEW k \in Ids, EraseSession(w, k) PROVE Numbered'
  <2>1. UNCHANGED <<queue, no, captures, hand, phase, notes>>
    BY <1>8 DEF EraseSession
  <2>2. \A v \in Workers : \A j \in Ids :
          sessions'[v][j] = IF v = w /\ j = k THEN NoBuffer ELSE sessions[v][j]
    BY <1>8 DEF EraseSession, TypeOK, ProcessorTypeOK
  <2> QED BY <1>1, <2>1, <2>2, ControlApart DEF InSession
<1> QED BY <1>3, <1>4, <1>5, <1>6, <1>7, <1>8, NumberedPair DEF WorkerStep

LEMMA NumberedStep ==
  ASSUME TypeOK, Ownership, Filed, Numbered, Step \/ Crash \/ UNCHANGED vars
  PROVE  Numbered'
<1>1. CASE Capture
  BY <1>1, NumberedCapture DEF Capture
<1>2. ASSUME NEW w \in Workers, Work(w) PROVE Numbered'
  BY <1>2, NumberedWork DEF Work
<1>3. ASSUME UNCHANGED <<no, captures, notes, sessions>>,
             phase' = "route" => UNCHANGED <<phase, hand>>,
             \A w \in Workers : InOrder(queue'[w], no),
             \A w \in Workers : \A b \in Buffers : Has(queue'[w], b) =>
               Has(queue[w], b) \/ (phase = "route" /\ hand = b)
      PROVE  Numbered'
  <2>1. \A w \in Workers : \A b \in Buffers : InSession(w, b)' <=> InSession(w, b)
    BY <1>3 DEF InSession
  <2>2. \A b \in Buffers : Unreported(b)' => Unreported(b)
    BY <1>3, <2>1 DEF Unreported, Claimed
  <2>3. ASSUME NEW w \in Workers, NEW b \in Buffers, NEW c \in Buffers,
               InSession(w, b), phase = "route", hand = c
        PROVE  no[b] < no[c]
    <3>1. no[b] <= captures /\ no[c] = captures /\ Unreported(b) /\ Unreported(c)
      BY <2>3 DEF Numbered, NumbersBounded, Unreported, Claimed
    <3>2. b # c
      BY <2>3 DEF Ownership, Owned, OwnedOnce, WithWorker
    <3>3. no[b] \in Nat /\ no[c] \in Nat /\ no[b] # no[c]
      BY <3>1, <3>2, NICAssumption DEF Numbered, NumbersApart, TypeOK, NICTypeOK
    <3> QED BY <3>1, <3>3
  <2>4. QueuesInOrder'
    BY <1>3, <2>1, <2>3 DEF Numbered, QueuesInOrder
  <2> QED BY <1>3, <2>2, <2>4, FewerUnreported
<1>4. ASSUME NEW w \in Workers, Enqueue(w) PROVE Numbered'
  <2>1. /\ queue'[w] = Append(queue[w], hand) /\ queue[w] \in Seq(Buffers \cup Control)
        /\ \A v \in Workers : v # w => queue'[v] = queue[v]
        /\ hand \in Buffers /\ phase = "route" /\ phase' # "route"
        /\ UNCHANGED <<no, captures, notes, sessions>>
    BY <1>4 DEF Enqueue, TypeOK, NICTypeOK, ProcessorTypeOK
  <2>2. \A b \in Buffers : Has(queue'[w], b) => Has(queue[w], b) \/ b = hand
    BY <2>1, AppendHas
  <2>3. ASSUME NEW c \in Buffers, Has(queue[w], c) PROVE no[c] < no[hand]
    <3>1. no[c] <= captures /\ no[hand] = captures /\ Unreported(c) /\ Unreported(hand)
      BY <2>1, <2>3 DEF Numbered, NumbersBounded, Unreported, Claimed
    <3>2. c # hand
      BY <2>1, <2>3 DEF Ownership, Owned, OwnedOnce, WithWorker
    <3>3. no[c] \in Nat /\ no[hand] \in Nat /\ no[c] # no[hand]
      BY <2>1, <3>1, <3>2, NICAssumption DEF Numbered, NumbersApart, TypeOK, NICTypeOK
    <3> QED BY <3>1, <3>3
  <2>4. InOrder(queue'[w], no)
    BY <2>1, <2>3, AppendInOrder DEF Numbered, QueuesInOrder
  <2> QED BY <1>3, <2>1, <2>2, <2>4 DEF Numbered, QueuesInOrder
<1>5. ASSUME NEW w \in Workers, NEW m \in Control, PutControl(w, m),
             UNCHANGED <<nicVars, sessions, notes>>
      PROVE  Numbered'
  <2>1. /\ queue'[w] = Append(queue[w], m) /\ queue[w] \in Seq(Buffers \cup Control)
        /\ \A v \in Workers : v # w => queue'[v] = queue[v]
        /\ UNCHANGED <<no, captures, hand, phase>>
    BY <1>5 DEF PutControl, TypeOK, ProcessorTypeOK, nicVars
  <2>2. \A b \in Buffers : Has(queue'[w], b) => Has(queue[w], b)
    BY <2>1, AppendHas, ControlApart
  <2>3. InOrder(queue'[w], no)
    BY <2>1, AppendInOrder, ControlApart DEF Numbered, QueuesInOrder
  <2> QED BY <1>3, <1>5, <2>1, <2>2, <2>3 DEF Numbered, QueuesInOrder
<1>6. ASSUME NEW w \in Workers, DestroyItem(w) PROVE Numbered'
  <2>1. /\ queue'[w] = Tail(queue[w]) /\ queue[w] # <<>>
        /\ queue[w] \in Seq(Buffers \cup Control)
        /\ \A v \in Workers : v # w => queue'[v] = queue[v]
        /\ UNCHANGED <<no, captures, notes, sessions, hand, phase>>
    BY <1>6 DEF DestroyItem, TypeOK, ProcessorTypeOK
  <2>2. \A b \in Buffers : Has(queue'[w], b) => Has(queue[w], b)
    BY <2>1, TailHas
  <2>3. InOrder(queue'[w], no)
    BY <2>1, TailInOrder DEF Numbered, QueuesInOrder
  <2> QED BY <1>3, <2>1, <2>2, <2>3 DEF Numbered, QueuesInOrder
<1>7. CASE SyncPut \/ ShutdownPut
  BY <1>5, <1>7 DEF SyncPut, ShutdownPut, Control
<1>8. ASSUME UNCHANGED <<no, captures, notes, sessions, queue>>,
             phase' = "route" => UNCHANGED <<phase, hand>>
      PROVE  Numbered'
  BY <1>3, <1>8 DEF Numbered, QueuesInOrder
<1>9. CASE TimerExpires \/ SyncEnds \/ Crash \/ UNCHANGED vars
  BY <1>8, <1>9 DEF TimerExpires, SyncEnds, Crash, vars, nicVars, workerVars
<1>10. CASE BeginShutdown \/ StopSync \/ JoinSync \/ Destroyed
  BY <1>8, <1>10 DEF BeginShutdown, StopSync, JoinSync, Destroyed, Enter, workerVars
<1> QED BY <1>1, <1>2, <1>4, <1>6, <1>7, <1>9, <1>10 DEF Step, ShutdownStep, Dispatch

(* A notification joins an earlier and a later packet of one identifier,   *)
(* and no packet is reported twice, whichever workers the dispatcher       *)
(* chooses and however the buffers are recycled.                           *)
THEOREM ConversationsApart == Spec => []ConversationsDisjoint
<1>1. TypeOK /\ Ownership /\ Filed /\ Numbered /\ [Next]_vars => Numbered'
  BY NumberedStep DEF Next, Over
<1>2. Numbered => ConversationsDisjoint
  BY DEF Numbered
<1> QED BY <1>1, <1>2, NumberedInit, TypeCorrect, Owners, FiledAlways, PTL DEF Spec
=============================================================================
