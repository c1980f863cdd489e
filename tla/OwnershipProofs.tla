--------------------------- MODULE OwnershipProofs ---------------------------
(***************************************************************************)
(* The buffers of the NIC's pool: for any pool, any workers and any        *)
(* traffic, each of them has exactly one owner at any time.                *)
(***************************************************************************)
EXTENDS TrafficInspectorProofs

(* How the operations of a queue change what is in it and how often.       *)
LEMMA AppendHas ==
  ASSUME NEW S, NEW s \in Seq(S), NEW x
  PROVE  \A y : Has(Append(s, x), y) <=> Has(s, y) \/ y = x
<1>1. /\ Len(s) \in Nat /\ DOMAIN s = 1..Len(s)
      /\ DOMAIN Append(s, x) = 1..Len(s) + 1
      /\ \A i \in 1..Len(s) : Append(s, x)[i] = s[i]
      /\ Append(s, x)[Len(s) + 1] = x
  OBVIOUS
<1> QED BY <1>1 DEF Has

LEMMA AppendOnce ==
  ASSUME NEW S, NEW s \in Seq(S), NEW x, NEW y, Once(s, y), y = x => ~Has(s, y)
  PROVE  Once(Append(s, x), y)
BY DEF Has, Once

LEMMA TailHas ==
  ASSUME NEW S, NEW s \in Seq(S), s # <<>>
  PROVE  /\ Has(s, Head(s))
         /\ \A y : y # Head(s) => (Has(Tail(s), y) <=> Has(s, y))
         /\ \A y : Once(s, y) => Once(Tail(s), y)
         /\ Once(s, Head(s)) => ~Has(Tail(s), Head(s))
<1>0. Len(s) \in Nat \ {0} /\ DOMAIN s = 1..Len(s) /\ Head(s) = s[1]
  OBVIOUS
<1>1. DOMAIN Tail(s) = 1..Len(s) - 1 /\ \A i \in 1..Len(s) - 1 : Tail(s)[i] = s[i + 1]
  OBVIOUS
<1>2. Has(s, Head(s))
  BY <1>0 DEF Has
<1>3. ASSUME NEW y, y # Head(s) PROVE Has(Tail(s), y) <=> Has(s, y)
  <2>1. ASSUME NEW i \in DOMAIN s, s[i] = y PROVE Has(Tail(s), y)
    <3>1. i - 1 \in DOMAIN Tail(s) /\ Tail(s)[i - 1] = y
      BY <1>0, <1>1, <1>3, <2>1
    <3> QED BY <3>1 DEF Has
  <2>2. ASSUME NEW i \in DOMAIN Tail(s), Tail(s)[i] = y PROVE Has(s, y)
    <3>1. i + 1 \in DOMAIN s /\ s[i + 1] = y
      BY <1>0, <1>1, <2>2
    <3> QED BY <3>1 DEF Has
  <2> QED BY <2>1, <2>2 DEF Has
<1>4. ASSUME NEW y, Once(s, y) PROVE Once(Tail(s), y)
  <2> SUFFICES ASSUME NEW i \in DOMAIN Tail(s), NEW j \in DOMAIN Tail(s),
                      Tail(s)[i] = y, Tail(s)[j] = y
               PROVE  i = j
    BY DEF Once
  <2>1. /\ i + 1 \in DOMAIN s /\ j + 1 \in DOMAIN s
        /\ s[i + 1] = y /\ s[j + 1] = y
    BY <1>0, <1>1
  <2>2. i + 1 = j + 1
    BY <2>1, <1>4 DEF Once
  <2> QED BY <1>0, <1>1, <2>2
<1>5. ASSUME Once(s, Head(s)), NEW i \in DOMAIN Tail(s), Tail(s)[i] = Head(s)
      PROVE  FALSE
  <2>1. i + 1 \in DOMAIN s /\ s[i + 1] = Head(s) /\ i + 1 # 1 /\ 1 \in DOMAIN s
    BY <1>0, <1>1, <1>5
  <2> QED BY <1>0, <1>5, <2>1 DEF Once
<1> QED BY <1>2, <1>3, <1>4, <1>5 DEF Has
-----------------------------------------------------------------------------
(* NoLeak and SingleOwner, buffer by buffer.  Each is inductive only with  *)
(* the other's help: a buffer that is popped is found nowhere else, and    *)
(* one that is found nowhere else can be put somewhere.                    *)
Owned(b) ==
  /\ OwnedOnce(b)
  /\ Has(pool, b) \/ hand = b \/ \E w \in Workers : WithWorker(w, b)
Ownership == \A b \in Buffers : Owned(b)

LEMMA InitOwnership == Init => Ownership
<1> SUFFICES ASSUME Init, NEW b \in Buffers PROVE Owned(b)
  BY DEF Ownership
<1>1. Has(pool, b) /\ Once(pool, b)
  BY DEF Init, NICInit, Has, Once
<1>2. hand # b
  BY NICAssumption DEF Init, NICInit
<1>3. \A w \in Workers : /\ ~Has(queue[w], b) /\ Once(queue[w], b)
                         /\ held[w] # b /\ ~InSession(w, b)
  BY NICAssumption DEF Init, ProcessorInit, Has, Once, InSession
<1>4. \A w \in Workers : ~WithWorker(w, b)
  BY <1>3 DEF WithWorker
<1>5. \A w \in Workers : \A k \in Ids : sessions[w][k] # b
  BY NICAssumption DEF Init, ProcessorInit
<1> QED BY <1>1, <1>2, <1>3, <1>4, <1>5 DEF Owned, OwnedOnce

(* What Pop does to a queue that holds its head once.                      *)
LEMMA PopOwners ==
  ASSUME TypeOK, Ownership, NEW w \in Workers, NEW x, Pop(w, x)
  PROVE  /\ Has(queue[w], x)
         /\ \A v \in Workers : \A b \in Buffers :
              /\ Has(queue'[v], b) <=> Has(queue[v], b) /\ ~(v = w /\ b = x)
              /\ Once(queue'[v], b)
<1>1. queue[w] \in Seq(Buffers \cup Control) /\ queue[w] # <<>> /\ Head(queue[w]) = x
  BY DEF TypeOK, ProcessorTypeOK, Pop
<1>2. queue'[w] = Tail(queue[w]) /\ \A v \in Workers : v # w => queue'[v] = queue[v]
  BY DEF TypeOK, ProcessorTypeOK, Pop
<1>3. \A v \in Workers : \A b \in Buffers : Once(queue[v], b)
  BY DEF Ownership, Owned, OwnedOnce
<1> QED BY <1>1, <1>2, <1>3, TailHas-----------------------------------------------------------------------------
(* A buffer that somebody else owned is put in the pool.                   *)
LEMMA ReleaseOwners ==
  ASSUME TypeOK, Ownership, NEW q \in Buffers, ~Has(pool, q), pool' = Released(q)
  PROVE  \A b \in Buffers : /\ Has(pool', b) <=> Has(pool, b) \/ b = q
                            /\ Once(pool', b)
<1>1. pool \in Seq(Buffers) /\ pool' = Append(pool, q)
  BY DEF TypeOK, NICTypeOK, Released
<1>2. \A b \in Buffers : Once(pool, b)
  BY DEF Ownership, Owned, OwnedOnce
<1> QED BY <1>1, <1>2, AppendHas, AppendOnce

LEMMA CaptureOwners ==
  ASSUME TypeOK, Ownership, NICNext, UNCHANGED workerVars
  PROVE  Ownership'
<1> SUFFICES ASSUME NEW b \in Buffers PROVE Owned(b)'
  BY DEF Ownership
<1>1. Owned(b)
  BY DEF Ownership
<1>2. /\ queue' = queue /\ sessions' = sessions /\ held' = held
  BY DEF workerVars
<1>3. CASE TakeBuffer
  <2>1. pool \in Seq(Buffers) /\ pool # <<>> /\ hand = NoBuffer
    BY <1>3 DEF TakeBuffer, TypeOK, NICTypeOK
  <2>2. Once(pool, Head(pool)) /\ Head(pool) \in Buffers
    BY <2>1, HeadTail DEF Ownership, Owned, OwnedOnce
  <2>3. /\ Has(pool, b) <=> Has(pool', b) \/ hand' = b
        /\ hand' = b => ~Has(pool', b)
        /\ Once(pool', b)
        /\ hand # b
    BY <1>1, <1>3, <2>1, <2>2, TailHas, ControlApart DEF TakeBuffer, Owned, OwnedOnce
  <2> QED BY <1>1, <1>2, <2>3 DEF Owned, OwnedOnce, WithWorker, InSession
<1>4. CASE DropFrame
  <2>1. hand \in Buffers /\ hand' = NoBuffer
    BY <1>4 DEF DropFrame, TypeOK, NICTypeOK
  <2>2. ~Has(pool, hand)
    BY <2>1 DEF Ownership, Owned, OwnedOnce
  <2>3. /\ Has(pool', b) <=> Has(pool, b) \/ hand = b
        /\ Once(pool', b)
        /\ hand' # b
    BY <1>4, <2>1, <2>2, ReleaseOwners, ControlApart DEF DropFrame
  <2> QED BY <1>1, <1>2, <2>3 DEF Owned, OwnedOnce, WithWorker, InSession
<1>5. CASE pool' = pool /\ hand' = hand
  BY <1>1, <1>2, <1>5 DEF Owned, OwnedOnce, WithWorker, InSession
<1> QED BY <1>3, <1>4, <1>5
        DEF NICNext, Receive, ReceiveFails, Tick, SetClock
-----------------------------------------------------------------------------
(* Steps of a worker.                                                      *)
LEMMA WorkerOwners ==
  ASSUME TypeOK, Ownership, NEW w \in Workers, WorkerStep(w)
  PROVE  Ownership'
<1> SUFFICES ASSUME NEW b \in Buffers PROVE Owned(b)'
  BY DEF Ownership
<1>1. Owned(b)
  BY DEF Ownership
<1>2. CASE TestStop(w)
  BY <1>1, <1>2 DEF TestStop, nicVars, Owned, OwnedOnce, WithWorker, InSession
<1>3. ASSUME NEW m \in Control, Pop(w, m),
             UNCHANGED <<pool, hand, sessions, held>>
      PROVE  Owned(b)'
  <2>1. b # m
    BY <1>3, ControlApart
  <2> QED BY <1>1, <1>3, <2>1, PopOwners DEF Owned, OwnedOnce, WithWorker, InSession
<1>4. ASSUME NEW x \in Buffers, OnPair(w, x) PROVE Owned(b)'
  <2> DEFINE k == frame[x].ident
             q == sessions[w][k]
  <2>1. k \in Ids /\ q \in Buffers
    BY <1>4, ContentTypes DEF OnPair, TypeOK, ProcessorTypeOK
  <2>2. Pop(w, x) /\ pool' = Released(q) /\ hand' = hand
    BY <1>4 DEF OnPair
  <2>3. \A v \in Workers : \A j \in Ids :
          sessions'[v][j] = IF v = w /\ j = k THEN NoBuffer ELSE sessions[v][j]
    BY <1>4, <2>1 DEF OnPair, SessionErased, TypeOK, ProcessorTypeOK
  <2>4. \A v \in Workers : held'[v] = IF v = w THEN x ELSE held[v]
    BY <1>4 DEF OnPair, TypeOK, ProcessorTypeOK
  <2>5. held[w] = NoBuffer
    BY <2>2, PopTypes DEF TypeOK
  <2>6. q = sessions[w][k]
    OBVIOUS
  <2> HIDE DEF k, q
  <2>7. Owned(x) /\ Owned(q)
    BY <2>1 DEF Ownership
  <2>8. ~Has(pool, q)
    BY <2>1, <2>6, <2>7 DEF Owned, OwnedOnce, WithWorker, InSession
  <2>9. /\ Has(pool', b) <=> Has(pool, b) \/ b = q
        /\ Once(pool', b)
    BY <2>1, <2>2, <2>8, ReleaseOwners
  <2>10. /\ Has(queue[w], x)
         /\ \A v \in Workers :
              /\ Has(queue'[v], b) <=> Has(queue[v], b) /\ ~(v = w /\ b = x)
              /\ Once(queue'[v], b)
    BY <2>2, PopOwners
  <2>11. \A v \in Workers : InSession(v, b)' <=> InSession(v, b) /\ ~(v = w /\ b = q)
    BY <1>1, <2>1, <2>3, <2>6, <2>7, ControlApart DEF InSession, Owned, OwnedOnce
  <2>12. x # q /\ InSession(w, q)
    BY <2>1, <2>6, <2>7, <2>10 DEF Owned, OwnedOnce, InSession
  <2>13. CASE b = x
    BY <1>1, <2>2, <2>3, <2>4, <2>9, <2>10, <2>11, <2>12, <2>13, ControlApart
       DEF Owned, OwnedOnce, WithWorker
  <2>14. CASE b = q
    BY <1>1, <2>2, <2>3, <2>4, <2>9, <2>10, <2>11, <2>12, <2>14, ControlApart
       DEF Owned, OwnedOnce, WithWorker
  <2>15. CASE b # x /\ b # q
    BY <1>1, <2>2, <2>3, <2>4, <2>5, <2>9, <2>10, <2>11, <2>15, ControlApart
       DEF Owned, OwnedOnce, WithWorker
  <2> QED BY <2>13, <2>14, <2>15
<1>5. ASSUME NEW x \in Buffers, OnHold(w, x) PROVE Owned(b)'
  <2> DEFINE k == frame[x].ident
  <2>1. k \in Ids
    BY ContentTypes DEF TypeOK
  <2>2. Pop(w, x) /\ sessions[w][k] = NoBuffer /\ UNCHANGED <<pool, hand, held>>
    BY <1>5 DEF OnHold, nicVars
  <2>3. \A v \in Workers : \A j \in Ids :
          sessions'[v][j] = IF v = w /\ j = k THEN x ELSE sessions[v][j]
    BY <1>5, <2>1 DEF OnHold, TypeOK, ProcessorTypeOK
  <2> HIDE DEF k
  <2>4. /\ Has(queue[w], x)
        /\ \A v \in Workers :
             /\ Has(queue'[v], b) <=> Has(queue[v], b) /\ ~(v = w /\ b = x)
             /\ Once(queue'[v], b)
    BY <2>2, PopOwners
  <2>5. \A v \in Workers : InSession(v, b)' <=> InSession(v, b) \/ (v = w /\ b = x)
    BY <2>1, <2>2, <2>3, ControlApart DEF InSession
  <2>6. Owned(x)
    BY DEF Ownership
  <2>7. CASE b = x
    <3>1. ~InSession(w, x) /\ held[w] # x
      BY <2>4, <2>6 DEF Owned, OwnedOnce
    <3>2. \A v \in Workers : \A j \in Ids : sessions'[v][j] = x => v = w /\ j = k
      BY <2>3, <2>4, <2>6 DEF Owned, OwnedOnce, WithWorker, InSession
    <3> QED BY <1>1, <2>2, <2>4, <2>5, <2>7, <3>1, <3>2 DEF Owned, OwnedOnce, WithWorker
  <2>8. CASE b # x
    BY <1>1, <2>2, <2>3, <2>4, <2>5, <2>8, ControlApart DEF Owned, OwnedOnce, WithWorker
  <2> QED BY <2>7, <2>8
<1>6. ASSUME NEW x \in Buffers, OnDiscard(w, x) PROVE Owned(b)'
  <2>1. Pop(w, x) /\ UNCHANGED <<pool, hand, sessions>>
    BY <1>6 DEF OnDiscard, nicVars
  <2>2. \A v \in Workers : held'[v] = IF v = w THEN x ELSE held[v]
    BY <1>6 DEF OnDiscard, TypeOK, ProcessorTypeOK
  <2>3. held[w] = NoBuffer
    BY <2>1, PopTypes DEF TypeOK
  <2>4. /\ Has(queue[w], x)
        /\ \A v \in Workers :
             /\ Has(queue'[v], b) <=> Has(queue[v], b) /\ ~(v = w /\ b = x)
             /\ Once(queue'[v], b)
    BY <2>1, PopOwners
  <2>5. \A v \in Workers : InSession(v, b)' <=> InSession(v, b)
    BY <2>1 DEF InSession
  <2> QED BY <1>1, <2>1, <2>2, <2>3, <2>4, <2>5, ControlApart DEF Owned, OwnedOnce, WithWorker
<1>7. CASE DropPacket(w)
  <2>1. held[w] \in Buffers /\ pool' = Released(held[w])
        /\ UNCHANGED <<hand, queue, sessions>>
    BY <1>7 DEF DropPacket, TypeOK, ProcessorTypeOK
  <2>2. ~Has(pool, held[w])
    BY <2>1 DEF Ownership, Owned, OwnedOnce, WithWorker
  <2>3. /\ Has(pool', b) <=> Has(pool, b) \/ b = held[w]
        /\ Once(pool', b)
    BY <2>1, <2>2, ReleaseOwners
  <2>4. \A v \in Workers : held'[v] = IF v = w THEN NoBuffer ELSE held[v]
    BY <1>7 DEF DropPacket, TypeOK, ProcessorTypeOK
  <2>5. \A v \in Workers : InSession(v, b)' <=> InSession(v, b)
    BY <2>1 DEF InSession
  <2> QED BY <1>1, <2>1, <2>3, <2>4, <2>5, ControlApart DEF Owned, OwnedOnce, WithWorker
<1>8. ASSUME NEW k \in Ids, EraseSession(w, k) PROVE Owned(b)'
  <2> DEFINE q == sessions[w][k]
  <2>1. q \in Buffers /\ pool' = Released(q) /\ UNCHANGED <<hand, queue, held>>
    BY <1>8 DEF EraseSession, TypeOK, ProcessorTypeOK, Open
  <2>2. \A v \in Workers : \A j \in Ids :
          sessions'[v][j] = IF v = w /\ j = k THEN NoBuffer ELSE sessions[v][j]
    BY <1>8 DEF EraseSession, TypeOK, ProcessorTypeOK
  <2>3. q = sessions[w][k]
    OBVIOUS
  <2> HIDE DEF q
  <2>4. Owned(q)
    BY <2>1 DEF Ownership
  <2>5. ~Has(pool, q)
    BY <2>3, <2>4 DEF Owned, OwnedOnce, WithWorker, InSession
  <2>6. /\ Has(pool', b) <=> Has(pool, b) \/ b = q
        /\ Once(pool', b)
    BY <2>1, <2>5, ReleaseOwners
  <2>7. \A v \in Workers : InSession(v, b)' <=> InSession(v, b) /\ ~(v = w /\ b = q)
    BY <2>1, <2>2, <2>3, <2>4, ControlApart DEF InSession, Owned, OwnedOnce
  <2>8. InSession(w, q)
    BY <2>3 DEF InSession
  <2> QED BY <1>1, <2>1, <2>2, <2>6, <2>7, <2>8, ControlApart DEF Owned, OwnedOnce, WithWorker
<1>9. CASE EraseDone(w)
  BY <1>1, <1>9 DEF EraseDone, nicVars, Owned, OwnedOnce, WithWorker, InSession
<1>10. CASE OnShutdown(w)
  BY <1>3, <1>10 DEF OnShutdown, nicVars, Control
<1>11. CASE OnSync(w)
  BY <1>3, <1>11 DEF OnSync, nicVars, Control
<1> QED BY <1>2, <1>4, <1>5, <1>6, <1>7, <1>8, <1>9, <1>10, <1>11 DEF WorkerStep
-----------------------------------------------------------------------------
(* Dispatching, the control messages and the destruction of the queues.    *)
LEMMA DispatchOwners ==
  ASSUME TypeOK, Ownership, NEW w \in Workers, Enqueue(w)
  PROVE  Ownership'
<1> SUFFICES ASSUME NEW b \in Buffers PROVE Owned(b)'
  BY DEF Ownership
<1>1. Owned(b)
  BY DEF Ownership
<1>2. hand \in Buffers /\ hand' = NoBuffer /\ UNCHANGED <<pool, sessions, held>>
  BY DEF Enqueue, TypeOK, NICTypeOK
<1>3. /\ queue'[w] = Append(queue[w], hand)
      /\ \A v \in Workers : v # w => queue'[v] = queue[v]
      /\ queue[w] \in Seq(Buffers \cup Control)
  BY DEF Enqueue, TypeOK, ProcessorTypeOK
<1>4. ~Has(queue[w], hand) /\ Once(queue[w], b)
  BY <1>1, <1>2 DEF Ownership, Owned, OwnedOnce, WithWorker
<1>5. \A v \in Workers : /\ Has(queue'[v], b) <=> Has(queue[v], b) \/ (v = w /\ b = hand)
                         /\ Once(queue'[v], b)
  <2>1. Has(queue'[w], b) <=> Has(queue[w], b) \/ b = hand
    BY <1>3, AppendHas
  <2>2. Once(queue'[w], b)
    BY <1>3, <1>4, AppendOnce
  <2>3. \A v \in Workers : Once(queue[v], b)
    BY <1>1 DEF Owned, OwnedOnce
  <2> QED BY <1>3, <2>1, <2>2, <2>3
<1>6. \A v \in Workers : InSession(v, b)' <=> InSession(v, b)
  BY <1>2 DEF InSession
<1> QED BY <1>1, <1>2, <1>5, <1>6, ControlApart DEF Owned, OwnedOnce, WithWorker

LEMMA ControlOwners ==
  ASSUME TypeOK, Ownership, NEW w \in Workers, NEW m \in Control, PutControl(w, m),
         UNCHANGED <<pool, hand, sessions, held>>
  PROVE  Ownership'
<1> SUFFICES ASSUME NEW b \in Buffers PROVE Owned(b)'
  BY DEF Ownership
<1>1. Owned(b)
  BY DEF Ownership
<1>2. b # m
  BY ControlApart
<1>3. /\ queue'[w] = Append(queue[w], m)
      /\ \A v \in Workers : v # w => queue'[v] = queue[v]
      /\ queue[w] \in Seq(Buffers \cup Control)
  BY DEF PutControl, TypeOK, ProcessorTypeOK
<1>4. \A v \in Workers : /\ Has(queue'[v], b) <=> Has(queue[v], b)
                         /\ Once(queue'[v], b)
  <2>1. \A v \in Workers : Once(queue[v], b)
    BY <1>1 DEF Owned, OwnedOnce
  <2>2. Has(queue'[w], b) <=> Has(queue[w], b)
    BY <1>2, <1>3, AppendHas
  <2>3. Once(queue'[w], b)
    BY <1>2, <1>3, <2>1, AppendOnce
  <2> QED BY <1>3, <2>1, <2>2, <2>3
<1> QED BY <1>1, <1>4 DEF Owned, OwnedOnce, WithWorker, InSession

LEMMA DestroyOwners ==
  ASSUME TypeOK, Ownership, NEW w \in Workers, DestroyItem(w)
  PROVE  Ownership'
<1> SUFFICES ASSUME NEW b \in Buffers PROVE Owned(b)'
  BY DEF Ownership
<1>1. Owned(b)
  BY DEF Ownership
<1> DEFINE x == Head(queue[w])
<1>2. /\ queue'[w] = Tail(queue[w])
      /\ \A v \in Workers : v # w => queue'[v] = queue[v]
      /\ queue[w] \in Seq(Buffers \cup Control) /\ queue[w] # <<>>
      /\ UNCHANGED <<hand, sessions, held>>
      /\ pool' = LeftoverReturned(x)
  BY DEF DestroyItem, TypeOK, ProcessorTypeOK
<1>3. x \in Buffers \cup Control
  BY <1>2, HeadTail
<1>4. x \in Buffers => Once(queue[w], x)
  BY DEF Ownership, Owned, OwnedOnce
<1>5. Has(queue[w], x) /\ \A v \in Workers :
        /\ Has(queue'[v], b) <=> Has(queue[v], b) /\ ~(v = w /\ b = x)
        /\ Once(queue'[v], b)
  BY <1>1, <1>2, <1>4, TailHas DEF Owned, OwnedOnce
<1>6. \A v \in Workers : InSession(v, b)' <=> InSession(v, b)
  BY <1>2 DEF InSession
<1> HIDE DEF x
<1>7. CASE x \in Control
  <2>1. b # x /\ pool' = pool
    BY <1>2, <1>7, ControlApart DEF LeftoverReturned
  <2> QED BY <1>1, <1>2, <1>5, <1>6, <2>1 DEF Owned, OwnedOnce, WithWorker
<1>8. CASE x \in Buffers
  <2>1. ~Has(pool, x)
    BY <1>5, <1>8 DEF Ownership, Owned, OwnedOnce, WithWorker
  <2>2. pool' = Released(x)
    BY <1>2, <1>8, ControlApart DEF LeftoverReturned
  <2>3. /\ Has(pool', b) <=> Has(pool, b) \/ b = x
        /\ Once(pool', b)
    BY <1>8, <2>1, <2>2, ReleaseOwners
  <2> QED BY <1>1, <1>2, <1>5, <1>6, <2>3 DEF Owned, OwnedOnce, WithWorker
<1> QED BY <1>3, <1>7, <1>8

LEMMA StepOwners ==
  ASSUME TypeOK, Ownership, Step \/ Crash \/ UNCHANGED vars
  PROVE  Ownership'
<1>1. ASSUME UNCHANGED <<pool, hand, queue, sessions, held>> PROVE Ownership'
  BY <1>1 DEF Ownership, Owned, OwnedOnce, WithWorker, InSession
<1>2. CASE Capture
  BY <1>2, CaptureOwners DEF Capture
<1>3. CASE Dispatch
  BY <1>3, DispatchOwners DEF Dispatch
<1>4. ASSUME NEW w \in Workers, Work(w) PROVE Ownership'
  BY <1>4, WorkerOwners DEF Work
<1>5. CASE SyncPut
  BY <1>5, ControlOwners DEF SyncPut, Control, nicVars
<1>6. CASE TimerExpires \/ SyncEnds \/ Crash \/ UNCHANGED vars
  BY <1>1, <1>6 DEF TimerExpires, SyncEnds, Crash, vars, nicVars, workerVars
<1>7. CASE ShutdownPut
  BY <1>7, ControlOwners DEF ShutdownPut, Control, nicVars
<1>8. CASE BeginShutdown \/ StopSync \/ JoinSync \/ Destroyed
  BY <1>1, <1>8 DEF BeginShutdown, StopSync, JoinSync, Destroyed, Enter, workerVars
<1>9. ASSUME NEW w \in Workers, DestroyItem(w) PROVE Ownership'
  BY <1>9, DestroyOwners
<1> QED BY <1>2, <1>3, <1>4, <1>5, <1>6, <1>7, <1>8, <1>9 DEF Step, ShutdownStep

THEOREM Owners == Spec => []Ownership
<1>1. TypeOK /\ Ownership /\ [Next]_vars => Ownership'
  BY StepOwners DEF Next, Over
<1> QED BY <1>1, InitOwnership, TypeCorrect, PTL DEF Spec

(* No buffer leaks, whatever becomes of the packet it carries: pool items  *)
(* are given back by ObjectPoolItemDeleter on every path through a worker, *)
(* the sweep, the end of the thread and the destruction of the queues.     *)
THEOREM BuffersKept == Spec => []NoLeak
<1>1. Ownership => NoLeak
  BY DEF Ownership, Owned, NoLeak
<1> QED BY <1>1, Owners, PTL

(* No buffer is given back twice or while a packet still reads it: the NIC *)
(* never receives into a frame that a session still waits with.            *)
THEOREM BuffersOwnedOnce == Spec => []SingleOwner
<1>1. Ownership => SingleOwner
  BY DEF Ownership, Owned, SingleOwner
<1> QED BY <1>1, Owners, PTL
=============================================================================
