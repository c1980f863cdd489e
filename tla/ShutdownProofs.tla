--------------------------- MODULE ShutdownProofs ---------------------------
(***************************************************************************)
(* How the process comes to its end: no worker stops by itself, and every  *)
(* buffer is back in the pool afterwards.                                  *)
(***************************************************************************)
EXTENDS OwnershipProofs

Closing == phase \in {"close", "stopsync", "join", "end"}

(* Only an owner that shuts down sends SHUTDOWN, only SHUTDOWN sets m_stop *)
(* and only m_stop or SHUTDOWN ends a worker.                              *)
Asked ==
  /\ \A l \in Leaves : stop[l] => Closing
  /\ \A w \in Workers : Has(queue[w], SHUTDOWN) => Closing
  /\ StopsOnlyAsked

LEMMA NeverReopens == Next => (Closing => Closing')
<1> SUFFICES ASSUME Next, Closing PROVE Closing'
  OBVIOUS
<1> USE DEF Closing
<1>1. ASSUME phase' = phase PROVE Closing'
  BY <1>1
<1>2. CASE Capture
  BY <1>2 DEF Capture, NICNext, TakeBuffer, Receive, ReceiveFails, DropFrame, Tick, SetClock
<1>3. CASE Dispatch
  BY <1>3 DEF Dispatch, Enqueue
<1>4. ASSUME NEW w \in Workers, Work(w) PROVE phase' = phase
  BY <1>4 DEF Work, WorkerStep, TestStop, OnShutdown, OnSync, OnPair, OnHold,
     OnDiscard, DropPacket, EraseSession, EraseDone, nicVars
<1>5. CASE TimerExpires \/ SyncPut \/ SyncEnds \/ Crash \/ Over
  BY <1>5 DEF TimerExpires, SyncPut, SyncEnds, Crash, Over, nicVars, vars
<1>6. CASE ShutdownStep
  BY <1>6 DEF ShutdownStep, BeginShutdown, ShutdownPut, StopSync, JoinSync,
     DestroyItem, Destroyed, Enter, nicVars
<1> QED BY <1>1, <1>2, <1>3, <1>4, <1>5, <1>6 DEF Next, Step

LEMMA AskedInit == Init => Asked
BY DEF Init, ProcessorInit, Asked, StopsOnlyAsked, Has

LEMMA AskedWork ==
  ASSUME InPlace, TypeOK, Asked, NEW w \in Workers, WorkerStep(w), Closing => Closing'
  PROVE  Asked'
<1>1. \A v \in Workers : v # w => pc'[v] = pc[v]
  BY DEF WorkerStep, TestStop, OnShutdown, OnSync, OnPair, OnHold, OnDiscard,
         DropPacket, EraseSession, EraseDone, TypeOK, ProcessorTypeOK
<1>2. LeafOf[w] \in Leaves
  BY ProcessorAssumption DEF Workers
<1>3. ASSUME NEW x, Pop(w, x)
      PROVE  /\ \A v \in Workers : Has(queue'[v], SHUTDOWN) => Closing
             /\ x = SHUTDOWN => Closing
  <2>1. /\ queue[w] \in Seq(Buffers \cup Control) /\ queue[w] # <<>> /\ Head(queue[w]) = x
        /\ queue'[w] = Tail(queue[w]) /\ \A v \in Workers : v # w => queue'[v] = queue[v]
    BY <1>3 DEF Pop, TypeOK, ProcessorTypeOK
  <2>2. Has(queue'[w], SHUTDOWN) => Has(queue[w], SHUTDOWN)
    BY <2>1, TailHas
  <2>3. x = SHUTDOWN => Has(queue[w], SHUTDOWN)
    BY <2>1, TailHas
  <2> QED BY <2>1, <2>2, <2>3 DEF Asked
<1>4. CASE TestStop(w)
  <2>1. PICK s \in StopReads(w) : pc' = [pc EXCEPT ![w] = IF s THEN "exit" ELSE "get"]
    BY <1>4 DEF TestStop
  <2>2. s => Closing
    BY <1>2, <2>1 DEF StopReads, Asked
  <2>3. UNCHANGED <<stop, queue>>
    BY <1>4 DEF TestStop
  <2>4. pc'[w] \in {"exit", "done"} => Closing
    BY <2>1, <2>2 DEF TypeOK, ProcessorTypeOK
  <2> QED BY <1>1, <2>3, <2>4 DEF Asked, StopsOnlyAsked, Closing
<1>5. CASE OnShutdown(w)
  <2>1. Closing /\ \A v \in Workers : Has(queue'[v], SHUTDOWN) => Closing
    BY <1>3, <1>5 DEF OnShutdown
  <2> QED BY <2>1 DEF Asked, StopsOnlyAsked, Closing
<1>6. ASSUME NEW x, Pop(w, x), stop' = stop, pc'[w] \in {"test", "sync", "drop"}
      PROVE  Asked'
  BY <1>1, <1>3, <1>6 DEF Asked, StopsOnlyAsked, Closing
<1>7. CASE OnSync(w)
  BY <1>6, <1>7 DEF OnSync, TypeOK, ProcessorTypeOK
<1>8. ASSUME NEW b \in Buffers, OnPair(w, b) \/ OnHold(w, b) \/ OnDiscard(w, b)
      PROVE  Asked'
  BY <1>6, <1>8 DEF OnPair, OnHold, OnDiscard, TypeOK, ProcessorTypeOK
<1>9. CASE DropPacket(w) \/ EraseDone(w) \/ \E k \in Ids : EraseSession(w, k)
  <2>1. pc'[w] \in {"exit", "done"} => pc[w] \in {"exit", "done"}
    BY <1>9 DEF DropPacket, EraseDone, EraseSession, TypeOK, ProcessorTypeOK
  <2>2. UNCHANGED <<stop, queue>>
    BY <1>9 DEF DropPacket, EraseDone, EraseSession
  <2> QED BY <1>1, <2>1, <2>2 DEF Asked, StopsOnlyAsked, Closing
<1> QED BY <1>4, <1>5, <1>7, <1>8, <1>9 DEF WorkerStep

LEMMA AskedStep ==
  ASSUME InPlace, TypeOK, Ownership, Asked, Next
  PROVE  Asked'
<1>1. Closing => Closing'
  BY NeverReopens
<1>2. ASSUME UNCHANGED <<stop, queue, pc>> PROVE Asked'
  BY <1>1, <1>2 DEF Asked, StopsOnlyAsked, Closing
<1>3. ASSUME NEW w \in Workers, NEW x, queue' = [queue EXCEPT ![w] = Append(@, x)],
             x = SHUTDOWN => Closing, UNCHANGED <<stop, pc>>
      PROVE  Asked'
  <2>1. /\ queue'[w] = Append(queue[w], x) /\ queue[w] \in Seq(Buffers \cup Control)
        /\ \A v \in Workers : v # w => queue'[v] = queue[v]
    BY <1>3 DEF TypeOK, ProcessorTypeOK
  <2>2. Has(queue'[w], SHUTDOWN) => Has(queue[w], SHUTDOWN) \/ x = SHUTDOWN
    BY <2>1, AppendHas
  <2> QED BY <1>1, <1>3, <2>1, <2>2 DEF Asked, StopsOnlyAsked, Closing
<1>4. ASSUME NEW w \in Workers, Enqueue(w) PROVE Asked'
  <2>1. hand \in Buffers
    BY <1>4 DEF Enqueue, TypeOK, NICTypeOK
  <2> QED BY <1>3, <1>4, <2>1, ControlApart DEF Enqueue
<1>5. CASE SyncPut
  BY <1>3, <1>5, ProcessorAssumption DEF SyncPut, PutControl
<1>6. CASE ShutdownPut
  BY <1>3, <1>6 DEF ShutdownPut, PutControl, Closing
<1>7. ASSUME NEW w \in Workers, DestroyItem(w) PROVE Asked'
  BY <1>7 DEF DestroyItem, Asked, StopsOnlyAsked, Closing
<1>8. ASSUME NEW w \in Workers, Work(w) PROVE Asked'
  BY <1>1, <1>8, AskedWork DEF Work
<1>9. CASE Capture
  BY <1>2, <1>9 DEF Capture, workerVars
<1>10. CASE \/ TimerExpires \/ SyncEnds \/ Crash \/ UNCHANGED vars
            \/ BeginShutdown \/ StopSync \/ JoinSync \/ Destroyed
  BY <1>2, <1>10 DEF TimerExpires, SyncEnds, Crash, vars, workerVars, BeginShutdown,
     StopSync, JoinSync, Destroyed
<1> QED BY <1>4, <1>5, <1>6, <1>7, <1>8, <1>9, <1>10 DEF Next, Over, Step, ShutdownStep, Dispatch

(* No worker of a processor that stays where it was built ends before the  *)
(* owner has begun to shut down, although its workers share one m_stop.    *)
THEOREM StopsAsked == InPlace => (Spec => []StopsOnlyAsked)
<1> SUFFICES ASSUME InPlace PROVE Spec => []StopsOnlyAsked
  OBVIOUS
<1>1. TypeOK /\ Ownership /\ Asked /\ [Next]_vars => Asked'
  <2>1. Asked /\ UNCHANGED vars => Asked'
    BY DEF vars, nicVars, workerVars, Asked, StopsOnlyAsked, Closing
  <2> QED BY <2>1, AskedStep
<1>2. Asked => StopsOnlyAsked
  BY DEF Asked
<1> QED BY <1>1, <1>2, AskedInit, TypeCorrect, Owners, PTL DEF Spec
-----------------------------------------------------------------------------
(* A worker unwinds all of its sessions, and the process is over only when *)
(* every worker has and every queue is empty.                              *)
Emptied ==
  /\ \A w \in Workers : pc[w] = "exit" => erasing[w] = Open(w)
  /\ \A w \in Workers : pc[w] = "done" => Open(w) = {}
  /\ phase = "end" => \A w \in Workers : pc[w] = "done" /\ queue[w] = <<>>

LEMMA EmptiedInit == Init => Emptied
BY DEF Init, NICInit, ProcessorInit, Emptied

LEMMA EmptiedWork ==
  ASSUME TypeOK, Emptied, phase # "end", NEW w \in Workers, WorkerStep(w)
  PROVE  Emptied'
<1>1. phase' = phase
  BY DEF WorkerStep, TestStop, OnShutdown, OnSync, OnPair, OnHold, OnDiscard,
         DropPacket, EraseSession, EraseDone, nicVars
<1>2. ASSUME \A v \in Workers : v # w => /\ pc'[v] = pc[v] /\ erasing'[v] = erasing[v]
                                         /\ Open(v)' = Open(v),
             pc'[w] = "exit" => erasing'[w] = Open(w)',
             pc'[w] = "done" => Open(w)' = {}
      PROVE  Emptied'
  BY <1>1, <1>2 DEF Emptied
<1> USE DEF TypeOK, ProcessorTypeOK, Open
<1>3. CASE TestStop(w)
  BY <1>2, <1>3 DEF TestStop, UnwoundSessions
<1>4. CASE OnShutdown(w)
  BY <1>2, <1>4 DEF OnShutdown, UnwoundSessions
<1>5. CASE OnSync(w)
  <2>1. PICK d \in SUBSET Ids : erasing' = [erasing EXCEPT ![w] = d]
    BY <1>5 DEF OnSync, TimeoutReads
  <2> QED BY <1>2, <1>5, <2>1 DEF OnSync
<1>6. ASSUME NEW b \in Buffers, OnPair(w, b) PROVE Emptied'
  BY <1>2, <1>6 DEF OnPair, SessionErased
<1>7. ASSUME NEW b \in Buffers, OnHold(w, b) PROVE Emptied'
  BY <1>2, <1>7 DEF OnHold
<1>8. ASSUME NEW b \in Buffers, OnDiscard(w, b) PROVE Emptied'
  BY <1>2, <1>8 DEF OnDiscard
<1>9. CASE DropPacket(w)
  BY <1>2, <1>9 DEF DropPacket
<1>10. ASSUME NEW k \in Ids, EraseSession(w, k) PROVE Emptied'
  <2>1. /\ sessions' = [sessions EXCEPT ![w][k] = NoBuffer]
        /\ erasing' = [erasing EXCEPT ![w] = @ \ {k}]
        /\ pc' = pc /\ pc[w] \in {"sync", "exit"}
    BY <1>10 DEF EraseSession
  <2>2. Open(w)' = Open(w) \ {k} /\ \A v \in Workers : v # w => Open(v)' = Open(v)
    BY <2>1
  <2> QED BY <1>2, <2>1, <2>2 DEF Emptied
<1>11. CASE EraseDone(w)
  <2>1. /\ pc' = [pc EXCEPT ![w] = IF @ = "sync" THEN "test" ELSE "done"]
        /\ erasing[w] = {} /\ UNCHANGED <<sessions, erasing>>
        /\ pc[w] \in {"sync", "exit"}
    BY <1>11 DEF EraseDone
  <2>2. pc'[w] = "done" => Open(w) = {}
    BY <2>1 DEF Emptied
  <2> QED BY <1>2, <2>1, <2>2
<1> QED BY <1>3, <1>4, <1>5, <1>6, <1>7, <1>8, <1>9, <1>10, <1>11 DEF WorkerStep

LEMMA EmptiedStep ==
  ASSUME TypeOK, Emptied, Next
  PROVE  Emptied'
<1>1. ASSUME UNCHANGED <<pc, erasing, sessions>>, phase' # "end" PROVE Emptied'
  BY <1>1 DEF Emptied, Open
<1>2. CASE Over
  BY <1>2 DEF Over, vars, nicVars, workerVars, Emptied, Open
<1>3. CASE Crash
  BY <1>1, <1>3 DEF Crash, nicVars, workerVars
<1>4. ASSUME NEW w \in Workers, Work(w), phase # "end" PROVE Emptied'
  BY <1>4, EmptiedWork DEF Work
<1>5. CASE Destroyed
  BY <1>5 DEF Destroyed, Enter, workerVars, Emptied, Open
<1>6. CASE Capture /\ phase # "end"
  BY <1>1, <1>6 DEF Capture, NICNext, TakeBuffer, Receive, ReceiveFails, DropFrame,
     Tick, SetClock, workerVars
<1>7. CASE Dispatch
  BY <1>1, <1>7 DEF Dispatch, Enqueue
<1>8. CASE (TimerExpires \/ SyncPut \/ SyncEnds) /\ phase # "end"
  BY <1>1, <1>8 DEF TimerExpires, SyncPut, SyncEnds, nicVars, workerVars
<1>9. CASE BeginShutdown \/ ShutdownPut \/ StopSync \/ JoinSync
  BY <1>1, <1>9 DEF BeginShutdown, ShutdownPut, StopSync, JoinSync, Enter, nicVars, workerVars
<1>10. ASSUME NEW w \in Workers, DestroyItem(w) PROVE Emptied'
  BY <1>1, <1>10 DEF DestroyItem
<1> QED BY <1>2, <1>3, <1>4, <1>5, <1>6, <1>7, <1>8, <1>9, <1>10 DEF Next, Step, ShutdownStep

(* An orderly shutdown brings every buffer back, those that were left in   *)
(* the queue of a worker stopped early, and those in its map, included.    *)
THEOREM BuffersReturned == Spec => []AllReturned
<1>1. Emptied /\ [Next]_vars /\ TypeOK => Emptied'
  <2>1. Emptied /\ UNCHANGED vars => Emptied'
    BY DEF vars, nicVars, workerVars, Emptied, Open
  <2> QED BY <2>1, EmptiedStep
<1>2. TypeOK /\ Ownership /\ Emptied => AllReturned
  <2> SUFFICES ASSUME TypeOK, Ownership, Emptied, phase = "end", NEW b \in Buffers
               PROVE  Has(pool, b)
    BY DEF AllReturned
  <2>1. hand # b
    BY ControlApart DEF TypeOK, NICTypeOK
  <2>2. \A w \in Workers : ~Has(queue[w], b)
    BY DEF Emptied, Has
  <2>3. \A w \in Workers : ~InSession(w, b) /\ held[w] # b
    BY ControlApart, ZenonT(30) DEF Emptied, InSession, Open, TypeOK, ProcessorTypeOK
  <2> QED BY <2>1, <2>2, <2>3 DEF Ownership, Owned, WithWorker
<1> QED BY <1>1, <1>2, EmptiedInit, TypeCorrect, Owners, PTL DEF Spec
=============================================================================
