---------------------------- MODULE PairingProofs ----------------------------
(***************************************************************************)
(* What becomes of the packets that are dispatched to a RADIUS worker: the *)
(* accounting of them, and the pairing service that the workers implement. *)
(***************************************************************************)
EXTENDS SessionProofs, SequenceTheorems

(* How the operations of a queue change the places where it holds members  *)
(* of a set, and their number.                                             *)
LEMMA PlacesFinite ==
  ASSUME NEW T, NEW s \in Seq(T), NEW S
  PROVE  /\ Places(s, S) \subseteq 1..Len(s)
         /\ IsFiniteSet(Places(s, S))
         /\ Cardinality(Places(s, S)) \in Nat
<1>1. Len(s) \in Nat /\ DOMAIN s = 1..Len(s)
  OBVIOUS
<1>2. Places(s, S) \subseteq 1..Len(s) /\ IsFiniteSet(1..Len(s))
  BY <1>1, FS_Interval DEF Places
<1>3. IsFiniteSet(Places(s, S))
  BY <1>2, FS_Subset
<1> QED BY <1>2, <1>3, FS_CardinalityType

LEMMA PlacesAppend ==
  ASSUME NEW T, NEW s \in Seq(T), NEW x, NEW S
  PROVE  /\ Places(Append(s, x), S) = Places(s, S) \cup (IF x \in S THEN {Len(s) + 1} ELSE {})
         /\ Cardinality(Places(Append(s, x), S))
              = Cardinality(Places(s, S)) + (IF x \in S THEN 1 ELSE 0)
<1>1. /\ Len(s) \in Nat /\ DOMAIN s = 1..Len(s)
      /\ DOMAIN Append(s, x) = 1..Len(s) + 1
      /\ \A i \in 1..Len(s) : Append(s, x)[i] = s[i]
      /\ Append(s, x)[Len(s) + 1] = x
  OBVIOUS
<1>2. Places(Append(s, x), S) = Places(s, S) \cup (IF x \in S THEN {Len(s) + 1} ELSE {})
  BY <1>1 DEF Places
<1>3. Len(s) + 1 \notin Places(s, S)
  BY <1>1 DEF Places
<1>4. IsFiniteSet(Places(s, S)) /\ Cardinality(Places(s, S)) \in Nat
  BY PlacesFinite
<1>5. CASE x \in S
  <2>1. Cardinality(Places(s, S) \cup {Len(s) + 1}) = Cardinality(Places(s, S)) + 1
    BY <1>3, <1>4, FS_AddElement
  <2> QED BY <1>2, <1>5, <2>1
<1>6. CASE x \notin S
  BY <1>2, <1>4, <1>6
<1> QED BY <1>2, <1>5, <1>6

(* Two sets of places of which one is the other moved by one.              *)
LEMMA ShiftedPlaces ==
  ASSUME NEW Q \in SUBSET Nat, IsFiniteSet(Q), NEW R \in SUBSET Nat,
         \A i \in R : i + 1 \in Q,
         \A i \in Q : i - 1 \in R
  PROVE  IsFiniteSet(R) /\ Cardinality(R) = Cardinality(Q)
<1> DEFINE f == [i \in Q |-> i - 1]
<1>1. f \in Injection(Q, R)
  BY DEF Injection, IsInjective
<1>2. ASSUME NEW r \in R PROVE \E i \in Q : f[i] = r
  <2>1. r + 1 \in Q /\ f[r + 1] = r
    OBVIOUS
  <2> QED BY <2>1
<1>3. f \in Bijection(Q, R)
  BY <1>1, <1>2 DEF Injection, Surjection, Bijection
<1> QED BY <1>3, FS_Bijection DEF ExistsBijection

LEMMA PlacesTail ==
  ASSUME NEW T, NEW s \in Seq(T), s # <<>>, NEW S
  PROVE  /\ 1 \in Places(s, S) <=> Head(s) \in S
         /\ \A i \in Places(Tail(s), S) : i + 1 \in Places(s, S)
         /\ \A i \in Places(s, S) : i # 1 => i - 1 \in Places(Tail(s), S)
         /\ Cardinality(Places(s, S))
              = Cardinality(Places(Tail(s), S)) + (IF Head(s) \in S THEN 1 ELSE 0)
<1>1. /\ Len(s) \in Nat \ {0} /\ DOMAIN s = 1..Len(s) /\ Head(s) = s[1]
      /\ DOMAIN Tail(s) = 1..Len(s) - 1
      /\ \A i \in 1..Len(s) - 1 : Tail(s)[i] = s[i + 1]
  OBVIOUS
<1>2. 1 \in Places(s, S) <=> Head(s) \in S
  BY <1>1 DEF Places
<1>3. \A i \in Places(Tail(s), S) : i + 1 \in Places(s, S) /\ i + 1 # 1
  BY <1>1 DEF Places
<1>4. ASSUME NEW i \in Places(s, S), i # 1 PROVE i - 1 \in Places(Tail(s), S)
  <2>1. i \in 1..Len(s) /\ s[i] \in S
    BY <1>1 DEF Places
  <2>2. i - 1 \in 1..Len(s) - 1 /\ Tail(s)[i - 1] = s[i]
    BY <1>1, <1>4, <2>1
  <2> QED BY <1>1, <2>1, <2>2 DEF Places
<1>5. /\ IsFiniteSet(Places(s, S)) /\ Cardinality(Places(s, S)) \in Nat
      /\ Places(s, S) \subseteq Nat /\ Places(Tail(s), S) \subseteq Nat
  <2>1. Places(s, S) \subseteq Nat /\ Places(Tail(s), S) \subseteq Nat
    BY <1>1 DEF Places
  <2> QED BY <2>1, PlacesFinite
<1>6. Cardinality(Places(Tail(s), S)) = Cardinality(Places(s, S) \ {1})
  <2>1. IsFiniteSet(Places(s, S) \ {1})
    BY <1>5, FS_RemoveElement
  <2>2. \A i \in Places(s, S) \ {1} : i - 1 \in Places(Tail(s), S)
    BY <1>4
  <2>3. \A i \in Places(Tail(s), S) : i + 1 \in Places(s, S) \ {1}
    BY <1>3
  <2>4. Places(s, S) \ {1} \in SUBSET Nat /\ Places(Tail(s), S) \in SUBSET Nat
    BY <1>5
  <2> HIDE DEF Places
  <2> QED BY <2>1, <2>2, <2>3, <2>4, ShiftedPlaces
<1>7. Cardinality(Places(s, S) \ {1})
        = Cardinality(Places(s, S)) - (IF Head(s) \in S THEN 1 ELSE 0)
  <2> DEFINE P == Places(s, S)
  <2>1. IsFiniteSet(P) /\ Cardinality(P) \in Nat /\ (1 \in P <=> Head(s) \in S)
    BY <1>2, <1>5
  <2> HIDE DEF P
  <2>2. Cardinality(P \ {1}) = IF 1 \in P THEN Cardinality(P) - 1 ELSE Cardinality(P)
    BY <2>1, FS_RemoveElement
  <2>3. Cardinality(P \ {1}) = Cardinality(P) - (IF Head(s) \in S THEN 1 ELSE 0)
    BY <2>1, <2>2
  <2> QED BY <2>3 DEF P
<1> QED BY <1>2, <1>3, <1>4, <1>5, <1>6, <1>7
-----------------------------------------------------------------------------
(* Every packet a RADIUS worker was given is accounted for.  The open      *)
(* sessions can be counted whatever the set of identifiers is.             *)
Accounted(w) ==
  accepted[w] = Waiting(w) + Cardinality(Open(w)) + 2 * NotesOf(w)
                  + expired[w] + abandoned[w]
Balance ==
  \A w \in Workers : LeafOf[w] = "RADIUS" =>
    IsFiniteSet(Open(w)) /\ (phase \notin {"join", "end"} => Accounted(w))

(* The notifications are counted as the places of a set of notes.          *)
Notes == [worker : Workers, resp : Contents, req : Contents]
NotesFrom(w) == {n \in Notes : n.worker = w}

LEMMA CountsTyped ==
  ASSUME TypeOK, NEW w \in Workers
  PROVE  /\ Waiting(w) \in Nat
         /\ NotesOf(w) = Cardinality(Places(notes, NotesFrom(w))) /\ NotesOf(w) \in Nat
         /\ accepted[w] \in Nat /\ expired[w] \in Nat /\ abandoned[w] \in Nat
<1>1. queue[w] \in Seq(Buffers \cup Control) /\ notes \in Seq(Notes)
  BY DEF TypeOK, ProcessorTypeOK, Notes
<1>2. Waiting(w) \in Nat
  BY <1>1, PlacesFinite DEF Waiting
<1>3. Places(notes, NotesFrom(w)) = {i \in DOMAIN notes : notes[i].worker = w}
  BY <1>1 DEF Places, NotesFrom
<1>4. NotesOf(w) = Cardinality(Places(notes, NotesFrom(w))) /\ NotesOf(w) \in Nat
  BY <1>1, <1>3, PlacesFinite DEF NotesOf
<1> QED BY <1>2, <1>4 DEF TypeOK, ProcessorTypeOK

LEMMA BalanceInit == Init => Balance
<1> SUFFICES ASSUME Init, NEW w \in Workers PROVE IsFiniteSet(Open(w)) /\ Accounted(w)
  BY DEF Balance
<1>1. Open(w) = {}
  BY DEF Init, ProcessorInit, Open
<1>2. Places(queue[w], Buffers) = {} /\ {i \in DOMAIN notes : notes[i].worker = w} = {}
  BY DEF Init, ProcessorInit, Places
<1>3. Waiting(w) = 0 /\ Cardinality(Open(w)) = 0 /\ NotesOf(w) = 0 /\ IsFiniteSet(Open(w))
  BY <1>1, <1>2, FS_EmptySet DEF Waiting, NotesOf
<1> QED BY <1>3 DEF Init, ProcessorInit, Accounted

(* How Pop and Append change what waits.                                   *)
LEMMA PopWaiting ==
  ASSUME TypeOK, NEW w \in Workers, NEW x, Pop(w, x)
  PROVE  /\ Waiting(w)' = Waiting(w) - (IF x \in Buffers THEN 1 ELSE 0)
         /\ \A v \in Workers : v # w => Waiting(v)' = Waiting(v)
<1>1. /\ queue[w] \in Seq(Buffers \cup Control) /\ queue[w] # <<>> /\ x = Head(queue[w])
      /\ queue'[w] = Tail(queue[w])
      /\ \A v \in Workers : v # w => queue'[v] = queue[v]
  BY DEF Pop, TypeOK, ProcessorTypeOK
<1>2. Tail(queue[w]) \in Seq(Buffers \cup Control)
  BY <1>1, HeadTail
<1>3. Cardinality(Places(queue[w], Buffers))
        = Cardinality(Places(Tail(queue[w]), Buffers)) + (IF x \in Buffers THEN 1 ELSE 0)
  BY <1>1, PlacesTail
<1>4. Cardinality(Places(Tail(queue[w]), Buffers)) \in Nat
  BY <1>2, PlacesFinite
<1> QED BY <1>1, <1>3, <1>4 DEF Waiting

LEMMA PutWaiting ==
  ASSUME TypeOK, NEW w \in Workers, NEW x,
         queue' = [queue EXCEPT ![w] = Append(@, x)]
  PROVE  /\ Waiting(w)' = Waiting(w) + (IF x \in Buffers THEN 1 ELSE 0)
         /\ \A v \in Workers : v # w => Waiting(v)' = Waiting(v)
<1>1. /\ queue[w] \in Seq(Buffers \cup Control)
      /\ queue'[w] = Append(queue[w], x)
      /\ \A v \in Workers : v # w => queue'[v] = queue[v]
  BY DEF TypeOK, ProcessorTypeOK
<1> QED BY <1>1, PlacesAppend DEF Waiting

(* A session that is opened or closed changes how many are open.           *)
LEMMA OpenOne ==
  ASSUME TypeOK, NEW w \in Workers, NEW k \in Ids, NEW b \in Buffers \cup {NoBuffer},
         sessions' = [sessions EXCEPT ![w][k] = b]
  PROVE  /\ Open(w)' = IF b = NoBuffer THEN Open(w) \ {k} ELSE Open(w) \cup {k}
         /\ \A v \in Workers : v # w => Open(v)' = Open(v)
BY DEF Open, TypeOK, ProcessorTypeOK

LEMMA BalanceWork ==
  ASSUME TypeOK, Balance, NEW w \in Workers, WorkerStep(w),
         NEW v \in Workers, LeafOf[v] = "RADIUS"
  PROVE  IsFiniteSet(Open(v)') /\ (phase' \notin {"join", "end"} => Accounted(v)')
<1> DEFINE Goal == IsFiniteSet(Open(v)') /\ (phase' \notin {"join", "end"} => Accounted(v)')
<1>1. phase' = phase /\ accepted' = accepted
  BY DEF WorkerStep, TestStop, OnShutdown, OnSync, OnPair, OnHold, OnDiscard,
     DropPacket, EraseSession, EraseDone, nicVars
<1>2. /\ IsFiniteSet(Open(v)) /\ Cardinality(Open(v)) \in Nat
      /\ phase \notin {"join", "end"} => Accounted(v)
  BY FS_CardinalityType DEF Balance
<1>3. /\ Waiting(v) \in Nat /\ NotesOf(v) \in Nat
      /\ accepted[v] \in Nat /\ expired[v] \in Nat /\ abandoned[v] \in Nat
  BY CountsTyped
<1>4. ASSUME Waiting(v)' = Waiting(v), Open(v)' = Open(v), NotesOf(v)' = NotesOf(v),
             expired'[v] = expired[v], abandoned'[v] = abandoned[v]
      PROVE  Goal
  BY <1>1, <1>2, <1>4 DEF Accounted
<1>5. ASSUME UNCHANGED <<sessions, notes, expired, abandoned>>, Waiting(v)' = Waiting(v)
      PROVE  Goal
  BY <1>4, <1>5 DEF Open, NotesOf
<1>6. CASE TestStop(w) \/ DropPacket(w) \/ EraseDone(w)
  BY <1>5, <1>6 DEF TestStop, DropPacket, EraseDone, Waiting
<1>7. CASE OnShutdown(w) \/ OnSync(w)
  <2>1. UNCHANGED <<sessions, notes, expired, abandoned>>
    BY <1>7 DEF OnShutdown, OnSync
  <2>2. Waiting(v)' = Waiting(v)
    <3>1. PICK m \in Control : Pop(w, m)
      BY <1>7 DEF OnShutdown, OnSync, Control
    <3>2. m \notin Buffers
      BY ControlApart, <3>1
    <3>3. /\ Waiting(w)' = Waiting(w) - 0 /\ Waiting(w) \in Nat
          /\ v # w => Waiting(v)' = Waiting(v)
      BY <3>1, <3>2, PopWaiting, CountsTyped
    <3> QED BY <3>3
  <2> QED BY <1>5, <2>1, <2>2
<1>8. ASSUME NEW b \in Buffers, OnDiscard(w, b) PROVE Goal
  <2>1. UNCHANGED <<sessions, notes, expired, abandoned>> /\ Pop(w, b) /\ v # w
    BY <1>8 DEF OnDiscard
  <2> QED BY <1>5, <2>1, PopWaiting
<1>9. ASSUME NEW b \in Buffers, Pop(w, b), v # w,
             NEW k \in Ids, NEW c \in Buffers \cup {NoBuffer},
             sessions' = [sessions EXCEPT ![w][k] = c],
             NotesOf(v)' = NotesOf(v), UNCHANGED <<expired, abandoned>>
      PROVE  Goal
  <2>1. Waiting(v)' = Waiting(v) /\ Open(v)' = Open(v)
    BY <1>9, PopWaiting, OpenOne
  <2> QED BY <1>4, <1>9, <2>1
<1>10. ASSUME NEW b \in Buffers, OnHold(w, b) PROVE Goal
  <2> DEFINE k == frame[b].ident
  <2>1. /\ Pop(w, b) /\ UNCHANGED <<notes, expired, abandoned>>
        /\ sessions' = [sessions EXCEPT ![w][k] = b]
        /\ sessions[w][k] = NoBuffer /\ k \in Ids
    BY <1>10, ContentTypes DEF OnHold, TypeOK
  <2> HIDE DEF k
  <2>2. NotesOf(v)' = NotesOf(v)
    BY <2>1 DEF NotesOf
  <2>3. CASE v = w
    <3>1. Waiting(v)' = Waiting(v) - 1
      BY <2>1, <2>3, PopWaiting
    <3>2. Open(v)' = Open(v) \cup {k} /\ k \notin Open(v)
      BY <2>1, <2>3, OpenOne, ControlApart DEF Open
    <3>3. IsFiniteSet(Open(v)') /\ Cardinality(Open(v)') = Cardinality(Open(v)) + 1
      BY <1>2, <3>2, FS_AddElement
    <3> QED BY <1>1, <1>2, <1>3, <2>1, <2>2, <3>1, <3>3 DEF Accounted
  <2> QED BY <1>9, <2>1, <2>2, <2>3
<1>11. ASSUME NEW b \in Buffers, OnPair(w, b) PROVE Goal
  <2> DEFINE k == frame[b].ident
             n == Note(w, b, sessions[w][k])
  <2>1. /\ Pop(w, b) /\ UNCHANGED <<expired, abandoned>> /\ notes' = Append(notes, n)
        /\ sessions' = [sessions EXCEPT ![w][k] = NoBuffer]
        /\ sessions[w][k] # NoBuffer /\ k \in Ids
    BY <1>11, ContentTypes DEF OnPair, SessionErased, TypeOK
  <2>2. n \in Notes /\ n.worker = w
    <3>1. sessions[w][k] \in Buffers
      BY <2>1 DEF TypeOK, ProcessorTypeOK
    <3> QED BY <3>1, ContentTypes DEF Notes, Note, TypeOK
  <2> HIDE DEF k, n
  <2>3. NotesOf(v)' = NotesOf(v) + (IF v = w THEN 1 ELSE 0)
    <3>1. notes \in Seq(Notes) /\ notes' \in Seq(Notes)
      BY <2>1, <2>2 DEF TypeOK, ProcessorTypeOK, Notes
    <3>2. NotesOf(v)' = Cardinality(Places(notes', NotesFrom(v)))
      <4>1. Places(notes', NotesFrom(v)) = {i \in DOMAIN notes' : notes'[i].worker = v}
        BY <3>1 DEF Places, NotesFrom
      <4> QED BY <4>1 DEF NotesOf
    <3>3. n \in NotesFrom(v) <=> v = w
      BY <2>2 DEF NotesFrom
    <3> QED BY <2>1, <3>1, <3>2, <3>3, CountsTyped, PlacesAppend
  <2>4. CASE v = w
    <3>1. Waiting(v)' = Waiting(v) - 1
      BY <2>1, <2>4, PopWaiting
    <3>2. Open(v)' = Open(v) \ {k} /\ k \in Open(v)
      BY <2>1, <2>4, OpenOne DEF Open
    <3>3. IsFiniteSet(Open(v)') /\ Cardinality(Open(v)') = Cardinality(Open(v)) - 1
      BY <1>2, <3>2, FS_RemoveElement
    <3> QED BY <1>1, <1>2, <1>3, <2>1, <2>3, <2>4, <3>1, <3>3 DEF Accounted
  <2>5. CASE v # w
    <3>1. NotesOf(v)' = NotesOf(v)
      BY <1>3, <2>3, <2>5
    <3> QED BY <1>9, <2>1, <2>5, <3>1
  <2> QED BY <2>4, <2>5
<1>12. ASSUME NEW k \in Ids, EraseSession(w, k) PROVE Goal
  <2>1. /\ UNCHANGED <<queue, notes>> /\ sessions' = [sessions EXCEPT ![w][k] = NoBuffer]
        /\ k \in Open(w)
        /\ \/ expired' = [expired EXCEPT ![w] = @ + 1] /\ abandoned' = abandoned
           \/ abandoned' = [abandoned EXCEPT ![w] = @ + 1] /\ expired' = expired
    BY <1>12 DEF EraseSession, TypeOK, ProcessorTypeOK
  <2>2. Waiting(v)' = Waiting(v) /\ NotesOf(v)' = NotesOf(v)
    BY <2>1 DEF Waiting, NotesOf
  <2>3. /\ expired \in [Workers -> Nat] /\ abandoned \in [Workers -> Nat]
    BY DEF TypeOK, ProcessorTypeOK
  <2>4. CASE v = w
    <3>1. Open(v)' = Open(v) \ {k} /\ k \in Open(v)
      BY <2>1, <2>4, OpenOne
    <3>2. IsFiniteSet(Open(v)') /\ Cardinality(Open(v)') = Cardinality(Open(v)) - 1
      BY <1>2, <3>1, FS_RemoveElement
    <3>3. \/ expired'[v] = expired[v] + 1 /\ abandoned'[v] = abandoned[v]
          \/ abandoned'[v] = abandoned[v] + 1 /\ expired'[v] = expired[v]
      BY <2>1, <2>3, <2>4
    <3> QED BY <1>1, <1>2, <1>3, <2>2, <3>2, <3>3 DEF Accounted
  <2>5. CASE v # w
    <3>1. Open(v)' = Open(v)
      BY <2>1, <2>5, OpenOne
    <3>2. expired'[v] = expired[v] /\ abandoned'[v] = abandoned[v]
      BY <2>1, <2>3, <2>5
    <3> QED BY <1>4, <2>2, <3>1, <3>2
  <2> QED BY <2>4, <2>5
<1> QED BY <1>6, <1>7, <1>8, <1>10, <1>11, <1>12 DEF WorkerStep

LEMMA BalanceStep ==
  ASSUME TypeOK, Balance, Step \/ Crash \/ UNCHANGED vars
  PROVE  Balance'
<1> SUFFICES ASSUME NEW v \in Workers, LeafOf[v] = "RADIUS"
             PROVE  IsFiniteSet(Open(v)') /\ (phase' \notin {"join", "end"} => Accounted(v)')
  BY DEF Balance
<1> DEFINE Goal == IsFiniteSet(Open(v)') /\ (phase' \notin {"join", "end"} => Accounted(v)')
<1>1. /\ IsFiniteSet(Open(v)) /\ Cardinality(Open(v)) \in Nat
      /\ phase \notin {"join", "end"} => Accounted(v)
  BY FS_CardinalityType DEF Balance
<1>2. /\ Waiting(v) \in Nat /\ NotesOf(v) \in Nat
      /\ accepted[v] \in Nat /\ expired[v] \in Nat /\ abandoned[v] \in Nat
  BY CountsTyped
<1>3. ASSUME UNCHANGED <<sessions, notes, expired, abandoned>>,
             Waiting(v)' = Waiting(v), accepted'[v] = accepted[v],
             phase \in {"join", "end"} => phase' \in {"join", "end"}
      PROVE  Goal
  <2>1. Open(v)' = Open(v) /\ NotesOf(v)' = NotesOf(v)
    BY <1>3 DEF Open, NotesOf
  <2> QED BY <1>1, <1>3, <2>1 DEF Accounted
<1>4. CASE Capture
  <2>1. UNCHANGED workerVars /\ (phase \in {"join", "end"} => phase' \in {"join", "end"})
    BY <1>4 DEF Capture, NICNext, TakeBuffer, Receive, ReceiveFails, DropFrame, Tick, SetClock
  <2> QED BY <1>3, <2>1 DEF workerVars, Waiting
<1>5. ASSUME NEW w \in Workers, Enqueue(w) PROVE Goal
  <2>1. /\ UNCHANGED <<sessions, notes, expired, abandoned>>
        /\ queue' = [queue EXCEPT ![w] = Append(@, hand)]
        /\ accepted' = [accepted EXCEPT ![w] = @ + 1]
        /\ hand \in Buffers /\ phase = "route"
    BY <1>5 DEF Enqueue, TypeOK, NICTypeOK
  <2>2. accepted'[v] = accepted[v] + (IF v = w THEN 1 ELSE 0)
    BY <2>1 DEF TypeOK, ProcessorTypeOK
  <2>3. Waiting(v)' = Waiting(v) + (IF v = w THEN 1 ELSE 0)
    <3>1. /\ Waiting(w)' = Waiting(w) + 1
          /\ v # w => Waiting(v)' = Waiting(v)
      BY <2>1, PutWaiting
    <3> QED BY <1>2, <3>1
  <2>4. Open(v)' = Open(v) /\ NotesOf(v)' = NotesOf(v)
    BY <2>1 DEF Open, NotesOf
  <2>5. Accounted(v) /\ expired'[v] = expired[v] /\ abandoned'[v] = abandoned[v]
    BY <1>1, <2>1
  <2>6. Accounted(v)'
    BY <1>1, <1>2, <2>2, <2>3, <2>4, <2>5 DEF Accounted
  <2> QED BY <1>1, <2>4, <2>6
<1>6. CASE SyncPut \/ ShutdownPut
  <2>1. PICK w \in Workers, m \in Control : PutControl(w, m)
    BY <1>6 DEF SyncPut, ShutdownPut, Control
  <2>2. m \notin Buffers
    BY ControlApart, <2>1
  <2>3. Waiting(v)' = Waiting(v)
    <3>1. queue' = [queue EXCEPT ![w] = Append(@, m)]
      BY <2>1 DEF PutControl
    <3>2. /\ Waiting(w)' = Waiting(w) + 0 /\ Waiting(w) \in Nat
          /\ v # w => Waiting(v)' = Waiting(v)
      BY <2>2, <3>1, PutWaiting, CountsTyped
    <3> QED BY <3>2
  <2> QED BY <1>3, <1>6, <2>3 DEF SyncPut, ShutdownPut, nicVars
<1>7. ASSUME NEW w \in Workers, Work(w) PROVE Goal
  BY <1>7, BalanceWork DEF Work
<1>8. CASE TimerExpires \/ SyncEnds \/ Crash \/ UNCHANGED vars
  BY <1>3, <1>8 DEF TimerExpires, SyncEnds, Crash, vars, nicVars, workerVars, Waiting
<1>9. CASE BeginShutdown \/ StopSync \/ JoinSync \/ Destroyed
  BY <1>3, <1>9 DEF BeginShutdown, StopSync, JoinSync, Destroyed, Enter, workerVars, Waiting
<1>10. ASSUME NEW w \in Workers, DestroyItem(w) PROVE Goal
  <2>1. phase' = "join" /\ sessions' = sessions
    BY <1>10 DEF DestroyItem
  <2> QED BY <1>1, <2>1 DEF Open
<1> QED BY <1>4, <1>5, <1>6, <1>7, <1>8, <1>9, <1>10 DEF Step, ShutdownStep, Dispatch

(* Every packet dispatched to a RADIUS worker waits, is open, was half of  *)
(* a notification, was counted as unresponded, or was dropped with the     *)
(* thread, until the destruction of the queues begins: none is lost and    *)
(* none is counted twice.                                                  *)
THEOREM PacketsAccounted == Spec => []Accounting
<1>1. TypeOK /\ Balance /\ [Next]_vars => Balance'
  BY BalanceStep DEF Next, Over
<1>2. Balance => Accounting
  BY DEF Balance, Accounting, Accounted
<1> QED BY <1>1, <1>2, BalanceInit, TypeCorrect, PTL DEF Spec
-----------------------------------------------------------------------------
(* The refinement.  What waits for the service is what the queue holds     *)
(* without its control messages; the members of S in a sequence are found  *)
(* by their rank among them.                                               *)
LEMMA Ranked ==
  ASSUME NEW P \in SUBSET Nat, IsFiniteSet(P)
  PROVE  /\ Cardinality(P) \in Nat
         /\ \A i \in P : Rank(P, i) \in 1..Cardinality(P)
         /\ \A k \in 1..Cardinality(P) : Nth(P, k) \in P /\ Rank(P, Nth(P, k)) = k
         /\ \A i \in P : Nth(P, Rank(P, i)) = i
<1> DEFINE upto(i) == {j \in P : j <= i}
           n == Cardinality(P)
<1>1. n \in Nat
  BY FS_CardinalityType
<1>2. ASSUME NEW i \in P
      PROVE  /\ IsFiniteSet(upto(i)) /\ Cardinality(upto(i)) \in Nat
             /\ Cardinality(upto(i)) >= 1 /\ Cardinality(upto(i)) <= n
  <2>1. upto(i) \in SUBSET P /\ upto(i) # {}
    OBVIOUS
  <2> HIDE DEF upto
  <2>2. IsFiniteSet(upto(i)) /\ Cardinality(upto(i)) <= n
    BY <2>1, FS_Subset
  <2>3. Cardinality(upto(i)) \in Nat /\ Cardinality(upto(i)) # 0
    BY <2>1, <2>2, FS_CardinalityType, FS_EmptySet
  <2> QED BY <2>2, <2>3
<1>3. ASSUME NEW i \in P, NEW j \in P, i < j
      PROVE  Cardinality(upto(i)) # Cardinality(upto(j))
  <2>1. upto(i) \in SUBSET upto(j) /\ upto(i) # upto(j)
    <3>1. \A m \in P : m <= i => m <= j
      BY <1>3
    <3>2. j \in upto(j) /\ j \notin upto(i)
      BY <1>3
    <3> QED BY <3>1, <3>2
  <2> HIDE DEF upto
  <2> QED BY <1>2, <2>1, FS_Subset
<1>4. \A i \in P : Rank(P, i) = Cardinality(upto(i))
  BY DEF Rank
<1> HIDE DEF upto, n
<1>5. \A i, j \in P : Rank(P, i) = Rank(P, j) => i = j
  BY <1>3, <1>4
<1> DEFINE f == [i \in P |-> Rank(P, i)]
<1>6. \A i \in P : Rank(P, i) \in 1..n
  BY <1>1, <1>2, <1>4
<1>7. f \in Injection(P, 1..n)
  BY <1>5, <1>6 DEF Injection, IsInjective
<1>8. IsFiniteSet(1..n) /\ Cardinality(1..n) = n
  BY <1>1, FS_Interval
<1>9. f \in Surjection(P, 1..n)
  BY <1>7, <1>8, FS_Injection DEF n
<1>10. \A k \in 1..n : \E i \in P : Rank(P, i) = k
  BY <1>9 DEF Surjection
<1>11. \A k \in 1..n : Nth(P, k) \in P /\ Rank(P, Nth(P, k)) = k
  BY <1>10 DEF Nth
<1> QED BY <1>1, <1>5, <1>6, <1>11 DEF n

LEMMA PlacesRanked ==
  ASSUME NEW T, NEW s \in Seq(T), NEW S
  PROVE  Places(s, S) \in SUBSET Nat /\ IsFiniteSet(Places(s, S))
<1>1. Places(s, S) \subseteq 1..Len(s) /\ Len(s) \in Nat
  BY PlacesFinite
<1> QED BY <1>1, PlacesFinite

LEMMA SelectedTypes ==
  ASSUME NEW T, NEW s \in Seq(T), NEW S, NEW c, NEW V, \A x \in S : c[x] \in V
  PROVE  /\ Selected(s, S, c) \in Seq(V)
         /\ Len(Selected(s, S, c)) = Cardinality(Places(s, S))
         /\ DOMAIN Selected(s, S, c) = 1..Cardinality(Places(s, S))
<1> DEFINE P == Places(s, S)
<1>1. P \in SUBSET Nat /\ IsFiniteSet(P) /\ \A i \in P : s[i] \in S
  BY PlacesRanked DEF Places
<1>2. Cardinality(P) \in Nat /\ \A k \in 1..Cardinality(P) : Nth(P, k) \in P
  BY <1>1, Ranked
<1> HIDE DEF P
<1>3. Selected(s, S, c) = [k \in 1..Cardinality(P) |-> c[s[Nth(P, k)]]]
  BY DEF Selected, P
<1>4. \A k \in 1..Cardinality(P) : c[s[Nth(P, k)]] \in V
  BY <1>1, <1>2
<1> QED BY <1>2, <1>3, <1>4 DEF P

(* Only what c makes of the members matters.                               *)
LEMMA SelectedSame ==
  ASSUME NEW T, NEW s \in Seq(T), NEW S, NEW c, NEW d,
         \A x \in S : Has(s, x) => c[x] = d[x]
  PROVE  Selected(s, S, c) = Selected(s, S, d)
<1> DEFINE P == Places(s, S)
<1>1. P \in SUBSET Nat /\ IsFiniteSet(P) /\ \A i \in P : s[i] \in S /\ Has(s, s[i])
  BY PlacesRanked DEF Places, Has
<1>2. \A k \in 1..Cardinality(P) : Nth(P, k) \in P
  BY <1>1, Ranked
<1> HIDE DEF P
<1>3. \A k \in 1..Cardinality(P) : c[s[Nth(P, k)]] = d[s[Nth(P, k)]]
  BY <1>1, <1>2
<1> QED BY <1>3 DEF Selected, P

LEMMA SelectedAppend ==
  ASSUME NEW T, NEW s \in Seq(T), NEW x, NEW S, NEW c
  PROVE  /\ x \in S => Selected(Append(s, x), S, c) = Append(Selected(s, S, c), c[x])
         /\ x \notin S => Selected(Append(s, x), S, c) = Selected(s, S, c)
<1> DEFINE P == Places(s, S)
           Q == Places(Append(s, x), S)
           L == Len(s)
           n == Cardinality(P)
<1>1. /\ L \in Nat /\ Append(s, x) \in Seq(T \cup {x})
      /\ \A i \in 1..L : Append(s, x)[i] = s[i]
      /\ Append(s, x)[L + 1] = x
  OBVIOUS
<1>2. P \in SUBSET Nat /\ IsFiniteSet(P) /\ Q \in SUBSET Nat /\ IsFiniteSet(Q)
  BY <1>1, PlacesRanked
<1>3. P \subseteq 1..L
  BY PlacesFinite
<1>4. /\ Q = P \cup (IF x \in S THEN {L + 1} ELSE {})
      /\ Cardinality(Q) = n + (IF x \in S THEN 1 ELSE 0)
  BY PlacesAppend
<1>5. /\ Selected(s, S, c) = [k \in 1..n |-> c[s[Nth(P, k)]]]
      /\ Selected(Append(s, x), S, c)
           = [k \in 1..Cardinality(Q) |-> c[Append(s, x)[Nth(Q, k)]]]
  BY DEF Selected
<1> HIDE DEF P, Q, L, n
<1>6. /\ n \in Nat
      /\ \A i \in P : Rank(P, i) \in 1..n
      /\ \A k \in 1..n : Nth(P, k) \in P /\ Rank(P, Nth(P, k)) = k
  BY <1>2, Ranked DEF n
<1>7. \A i \in Q : Nth(Q, Rank(Q, i)) = i
  BY <1>2, Ranked
<1>8. ASSUME NEW i \in P PROVE Rank(Q, i) = Rank(P, i)
  <2>1. i <= L /\ i \in Nat
    BY <1>1, <1>3
  <2>2. {j \in Q : j <= i} = {j \in P : j <= i}
    BY <1>1, <1>4, <2>1
  <2> QED BY <2>2 DEF Rank
<1>9. \A k \in 1..n : Nth(Q, k) = Nth(P, k)
  BY <1>4, <1>6, <1>7, <1>8
<1>10. \A k \in 1..n : c[Append(s, x)[Nth(Q, k)]] = c[s[Nth(P, k)]]
  <2>1. \A k \in 1..n : Nth(P, k) \in 1..L
    BY <1>3, <1>6
  <2> QED BY <1>1, <1>9, <2>1
<1>11. CASE x \notin S
  <2>1. Cardinality(Q) = n
    BY <1>4, <1>6, <1>11
  <2> QED BY <1>5, <1>10, <1>11, <2>1
<1>12. CASE x \in S
  <2>1. L + 1 \in Q /\ Cardinality(Q) = n + 1
    BY <1>4, <1>12
  <2>2. Rank(Q, L + 1) = n + 1
    <3>1. \A j \in Q : j <= L + 1
      <4>1. \A j \in 1..L : j <= L + 1
        BY <1>1
      <4>2. \A j \in Q : j \in 1..L \/ j = L + 1
        BY <1>3, <1>4
      <4> QED BY <1>1, <4>1, <4>2
    <3>2. {j \in Q : j <= L + 1} = Q
      BY <3>1
    <3> QED BY <2>1, <3>2 DEF Rank
  <2>3. Nth(Q, n + 1) = L + 1
    BY <1>7, <2>1, <2>2
  <2>4. c[Append(s, x)[Nth(Q, n + 1)]] = c[x]
    BY <1>1, <2>3
  <2> DEFINE A == Selected(s, S, c)
           V == {c[y] : y \in S}
  <2>5. A \in Seq(V) /\ Len(A) = n /\ \A k \in 1..n : A[k] = c[s[Nth(P, k)]]
    <3>1. \A y \in S : c[y] \in V
      OBVIOUS
    <3> HIDE DEF V
    <3>2. A \in Seq(V) /\ Len(A) = n
      BY <3>1, SelectedTypes DEF n, P
    <3> QED BY <1>5, <3>2
  <2> HIDE DEF A, V
  <2>6. /\ Append(A, c[x]) = [k \in 1..n + 1 |-> IF k = n + 1 THEN c[x] ELSE A[k]]
    BY <1>6, <2>5
  <2>7. ASSUME NEW k \in 1..n + 1
        PROVE  c[Append(s, x)[Nth(Q, k)]] = IF k = n + 1 THEN c[x] ELSE A[k]
    <3>1. CASE k = n + 1
      BY <2>4, <3>1
    <3>2. CASE k # n + 1
      <4>1. k \in 1..n
        BY <1>6, <3>2
      <4> QED BY <1>10, <2>5, <3>2, <4>1
    <3> QED BY <3>1, <3>2
  <2>8. Selected(Append(s, x), S, c) = [k \in 1..n + 1 |-> IF k = n + 1 THEN c[x] ELSE A[k]]
    BY <1>5, <2>1, <2>7
  <2> QED BY <1>12, <2>6, <2>8 DEF A
<1> QED BY <1>11, <1>12

LEMMA SelectedTail ==
  ASSUME NEW T, NEW s \in Seq(T), s # <<>>, NEW S, NEW c
  PROVE  /\ Head(s) \notin S => Selected(Tail(s), S, c) = Selected(s, S, c)
         /\ Head(s) \in S =>
              /\ Selected(s, S, c) # <<>>
              /\ Head(Selected(s, S, c)) = c[Head(s)]
              /\ Selected(Tail(s), S, c) = Tail(Selected(s, S, c))
<1> DEFINE P == Places(s, S)
           Q == Places(Tail(s), S)
           n == Cardinality(P)
           m == Cardinality(Q)
<1>1. /\ Len(s) \in Nat \ {0} /\ Head(s) = s[1] /\ Tail(s) \in Seq(T)
      /\ Len(Tail(s)) = Len(s) - 1
      /\ \A i \in 1..Len(s) - 1 : Tail(s)[i] = s[i + 1]
  OBVIOUS
<1>2. P \in SUBSET Nat /\ IsFiniteSet(P) /\ Q \in SUBSET Nat /\ IsFiniteSet(Q)
  BY <1>1, PlacesRanked
<1>3. P \subseteq 1..Len(s) /\ Q \subseteq 1..Len(s) - 1
  BY <1>1, PlacesFinite
<1>4. /\ 1 \in P <=> Head(s) \in S
      /\ \A i \in Q : i + 1 \in P
      /\ \A i \in P : i # 1 => i - 1 \in Q
      /\ n = m + (IF Head(s) \in S THEN 1 ELSE 0)
  BY PlacesTail
<1>5. /\ Selected(s, S, c) = [k \in 1..n |-> c[s[Nth(P, k)]]]
      /\ Selected(Tail(s), S, c) = [k \in 1..m |-> c[Tail(s)[Nth(Q, k)]]]
  BY DEF Selected
<1> HIDE DEF P, Q, n, m
<1>6. /\ m \in Nat
      /\ \A k \in 1..m : Nth(Q, k) \in Q /\ Rank(Q, Nth(Q, k)) = k
  BY <1>2, Ranked DEF m
<1>7. /\ n \in Nat
      /\ \A i \in P : Rank(P, i) \in 1..n /\ Nth(P, Rank(P, i)) = i
  BY <1>2, Ranked DEF n
<1>8. ASSUME NEW i \in Q
      PROVE  Rank(P, i + 1) = Rank(Q, i) + (IF Head(s) \in S THEN 1 ELSE 0)
  <2> DEFINE A == {j \in P : j <= i + 1}
             B == {j \in Q : j <= i}
  <2>1. /\ i \in Nat /\ A \in SUBSET P /\ A \in SUBSET Nat /\ B \in SUBSET Nat
    BY <1>2
  <2>2. \A j \in B : j + 1 \in A \ {1}
    <3>1. \A j \in B : j \in 1..Len(s) - 1
      BY <1>3
    <3> QED BY <1>1, <1>4, <2>1, <3>1
  <2>3. \A j \in A \ {1} : j - 1 \in B
    BY <1>2, <1>4, <2>1
  <2>4. 1 \in A <=> Head(s) \in S
    <3>1. i >= 1
      BY <1>1, <1>3
    <3> QED BY <1>4, <2>1, <3>1
  <2>5. Rank(P, i + 1) = Cardinality(A) /\ Rank(Q, i) = Cardinality(B)
    BY DEF Rank
  <2> HIDE DEF A, B
  <2>6. IsFiniteSet(A) /\ Cardinality(A) \in Nat
    BY <1>2, <2>1, FS_Subset, FS_CardinalityType
  <2>7. /\ IsFiniteSet(A \ {1})
        /\ Cardinality(A \ {1}) = IF 1 \in A THEN Cardinality(A) - 1 ELSE Cardinality(A)
    BY <2>6, FS_RemoveElement
  <2>8. Cardinality(B) = Cardinality(A \ {1})
    <3>1. A \ {1} \in SUBSET Nat
      BY <2>1
    <3> QED BY <2>1, <2>2, <2>3, <2>7, <3>1, ShiftedPlaces
  <2> QED BY <2>4, <2>5, <2>6, <2>7, <2>8
<1>9. \A k \in 1..m : c[Tail(s)[Nth(Q, k)]] = c[s[Nth(Q, k) + 1]]
  <2>1. \A k \in 1..m : Nth(Q, k) \in 1..Len(s) - 1
    BY <1>3, <1>6
  <2> QED BY <1>1, <2>1
<1>10. CASE Head(s) \notin S
  <2>1. \A k \in 1..m : Nth(P, k) = Nth(Q, k) + 1
    <3>1. ASSUME NEW k \in 1..m PROVE Nth(P, k) = Nth(Q, k) + 1
      <4>1. Nth(Q, k) \in Q /\ Rank(Q, Nth(Q, k)) = k /\ Nth(Q, k) + 1 \in P
        BY <1>4, <1>6
      <4>2. Rank(P, Nth(Q, k) + 1) = k
        BY <1>8, <1>10, <4>1
      <4> QED BY <1>7, <4>1, <4>2
    <3> QED BY <3>1
  <2>2. n = m
    BY <1>4, <1>6, <1>10
  <2>3. \A k \in 1..m : c[Tail(s)[Nth(Q, k)]] = c[s[Nth(P, k)]]
    BY <1>9, <2>1
  <2>4. Selected(Tail(s), S, c) = Selected(s, S, c)
    BY <1>5, <2>2, <2>3
  <2> QED BY <1>10, <2>4
<1>11. CASE Head(s) \in S
  <2>1. \A k \in 1..m : Nth(P, k + 1) = Nth(Q, k) + 1
    <3>1. ASSUME NEW k \in 1..m PROVE Nth(P, k + 1) = Nth(Q, k) + 1
      <4>1. Nth(Q, k) \in Q /\ Rank(Q, Nth(Q, k)) = k /\ Nth(Q, k) + 1 \in P
        BY <1>4, <1>6
      <4>2. Rank(P, Nth(Q, k) + 1) = k + 1
        BY <1>8, <1>11, <4>1
      <4> QED BY <1>7, <4>1, <4>2
    <3> QED BY <3>1
  <2>2. n = m + 1 /\ 1 \in P
    BY <1>4, <1>11
  <2>3. Nth(P, 1) = 1
    <3>0. \A j \in P : j <= 1 <=> j = 1
      <4>1. \A j \in 1..Len(s) : j <= 1 <=> j = 1
        BY <1>1
      <4> QED BY <1>3, <4>1
    <3>1. {j \in P : j <= 1} = {1}
      BY <2>2, <3>0
    <3>2. Rank(P, 1) = 1
      BY <3>1, FS_Singleton DEF Rank
    <3> QED BY <1>7, <2>2, <3>2
  <2> DEFINE A == Selected(s, S, c)
           V == {c[y] : y \in S}
  <2>4. A \in Seq(V) /\ Len(A) = n /\ \A k \in 1..n : A[k] = c[s[Nth(P, k)]]
    <3>1. \A y \in S : c[y] \in V
      OBVIOUS
    <3> HIDE DEF V
    <3>2. A \in Seq(V) /\ Len(A) = n
      BY <3>1, SelectedTypes DEF n, P
    <3> QED BY <1>5, <3>2
  <2> HIDE DEF A, V
  <2>5. /\ A # <<>> /\ Head(A) = A[1] /\ Tail(A) \in Seq(V) /\ Len(Tail(A)) = m
        /\ \A k \in 1..m : Tail(A)[k] = A[k + 1]
    <3>1. A \in Seq(V) /\ Len(A) = m + 1
      BY <2>2, <2>4
    <3> QED BY <1>6, <3>1
  <2>6. A[1] = c[Head(s)]
    BY <1>1, <1>6, <2>2, <2>3, <2>4
  <2>7. ASSUME NEW k \in 1..m PROVE c[Tail(s)[Nth(Q, k)]] = A[k + 1]
    <3>1. k + 1 \in 1..n
      BY <1>6, <2>2
    <3> QED BY <1>9, <2>1, <2>4, <3>1
  <2>8. Selected(Tail(s), S, c) = Tail(A)
    <3> DEFINE D == Selected(Tail(s), S, c)
    <3>1. \A y \in S : c[y] \in V
      BY DEF V
    <3>2. D \in Seq(V) /\ Len(D) = m
      BY <1>1, <3>1, SelectedTypes DEF m, Q
    <3>3. \A k \in 1..m : D[k] = A[k + 1]
      BY <1>5, <2>7
    <3> HIDE DEF D
    <3>4. D = Tail(A)
      BY <2>5, <3>2, <3>3, SeqEqual
    <3> QED BY <3>4 DEF D
  <2> QED BY <1>11, <2>5, <2>6, <2>8 DEF A
<1> QED BY <1>10, <1>11

(* What the service sees of a worker, and how a step changes it.           *)
LEMMA ContentsTyped ==
  ASSUME TypeOK, NEW w \in Workers
  PROVE  /\ queue[w] \in Seq(Buffers \cup Control)
         /\ WaitingPackets(w) \in Seq(Contents)
<1>1. queue[w] \in Seq(Buffers \cup Control)
  BY DEF TypeOK, ProcessorTypeOK
<1>2. \A b \in Buffers : [c \in Buffers |-> Content(c)][b] \in Contents
  BY ContentTypes DEF TypeOK
<1> QED BY <1>1, <1>2, SelectedTypes DEF WaitingPackets

(* Of the packets of a worker only those in its queue and map are seen.    *)
LEMMA SeenUnchanged ==
  ASSUME TypeOK, NEW w \in Workers,
         \A b \in Buffers : Claimed(w, b) => Content(b)' = Content(b)
  PROVE  /\ queue'[w] = queue[w] => WaitingPackets(w)' = WaitingPackets(w)
         /\ sessions'[w] = sessions[w] => OpenPackets(w)' = OpenPackets(w)
<1>1. ASSUME queue'[w] = queue[w] PROVE WaitingPackets(w)' = WaitingPackets(w)
  <2> DEFINE c == [b \in Buffers |-> Content(b)]
             d == [b \in Buffers |-> Content(b)']
  <2>1. \A b \in Buffers : Has(queue[w], b) => c[b] = d[b]
    BY DEF Claimed
  <2>2. WaitingPackets(w) = Selected(queue[w], Buffers, c)
        /\ WaitingPackets(w)' = Selected(queue[w], Buffers, d)
    BY <1>1 DEF WaitingPackets
  <2> HIDE DEF c, d
  <2> QED BY <2>1, <2>2, ContentsTyped, SelectedSame
<1>2. ASSUME sessions'[w] = sessions[w] PROVE OpenPackets(w)' = OpenPackets(w)
  <2>1. \A k \in Ids : sessions[w][k] # NoBuffer =>
          Content(sessions[w][k])' = Content(sessions[w][k])
    <3>1. ASSUME NEW k \in Ids, sessions[w][k] # NoBuffer
          PROVE  \E b \in Buffers : b = sessions[w][k] /\ Claimed(w, b)
      BY <3>1 DEF TypeOK, ProcessorTypeOK, Claimed, InSession
    <3>2. \A b \in Buffers : Claimed(w, b) =>
            /\ no'[b] = no[b] /\ frame'[b].ident = frame[b].ident
            /\ frame'[b].code = frame[b].code
      BY DEF Content
    <3> QED BY <1>2, <3>1, <3>2 DEF Content
  <2>2. \A k \in Ids : OpenPacket(sessions[w][k])' = OpenPacket(sessions[w][k])
    BY <1>2, <2>1 DEF OpenPacket
  <2> QED BY <2>2 DEF OpenPackets
<1> QED BY <1>1, <1>2

LEMMA SeenPop ==
  ASSUME TypeOK, NEW w \in Workers, NEW x, UNCHANGED <<frame, no>>,
         queue[w] # <<>>, Head(queue[w]) = x, queue' = [queue EXCEPT ![w] = Tail(@)]
  PROVE  /\ x \notin Buffers => WaitingPackets(w)' = WaitingPackets(w)
         /\ x \in Buffers =>
              /\ WaitingPackets(w) # <<>>
              /\ Head(WaitingPackets(w)) = Content(x)
              /\ WaitingPackets(w)' = Tail(WaitingPackets(w))
<1> DEFINE c == [b \in Buffers |-> Content(b)]
<1>1. /\ queue[w] \in Seq(Buffers \cup Control) /\ queue[w] # <<>> /\ x = Head(queue[w])
      /\ queue'[w] = Tail(queue[w])
  BY DEF TypeOK, ProcessorTypeOK
<1>2. /\ WaitingPackets(w) = Selected(queue[w], Buffers, c)
      /\ WaitingPackets(w)' = Selected(Tail(queue[w]), Buffers, c)
  BY <1>1 DEF WaitingPackets, Content
<1>3. x \in Buffers => c[x] = Content(x)
  OBVIOUS
<1> HIDE DEF c
<1> QED BY <1>1, <1>2, <1>3, SelectedTail

LEMMA SeenPut ==
  ASSUME TypeOK, NEW w \in Workers, NEW x, UNCHANGED <<frame, no>>,
         queue' = [queue EXCEPT ![w] = Append(@, x)]
  PROVE  WaitingPackets(w)' =
           IF x \in Buffers THEN Append(WaitingPackets(w), Content(x)) ELSE WaitingPackets(w)
<1> DEFINE c == [b \in Buffers |-> Content(b)]
<1>1. queue[w] \in Seq(Buffers \cup Control) /\ queue'[w] = Append(queue[w], x)
  BY DEF TypeOK, ProcessorTypeOK
<1>2. /\ WaitingPackets(w) = Selected(queue[w], Buffers, c)
      /\ WaitingPackets(w)' = Selected(Append(queue[w], x), Buffers, c)
  BY <1>1 DEF WaitingPackets, Content
<1>3. x \in Buffers => c[x] = Content(x)
  OBVIOUS
<1> HIDE DEF c
<1>4. /\ x \in Buffers => Selected(Append(queue[w], x), Buffers, c)
                            = Append(Selected(queue[w], Buffers, c), c[x])
      /\ x \notin Buffers => Selected(Append(queue[w], x), Buffers, c)
                            = Selected(queue[w], Buffers, c)
  BY <1>1, SelectedAppend
<1> QED BY <1>2, <1>3, <1>4

LEMMA SeenSession ==
  ASSUME TypeOK, NEW w \in Workers, NEW k \in Ids, NEW b \in Buffers \cup {NoBuffer},
         UNCHANGED <<frame, no>>, sessions' = [sessions EXCEPT ![w][k] = b]
  PROVE  OpenPackets(w)' = [OpenPackets(w) EXCEPT ![k] = OpenPacket(b)]
<1>1. \A j \in Ids : sessions'[w][j] = IF j = k THEN b ELSE sessions[w][j]
  BY DEF TypeOK, ProcessorTypeOK
<1>2. \A j \in Ids :
        OpenPacket(sessions[w][j])' = IF j = k THEN OpenPacket(b) ELSE OpenPacket(sessions[w][j])
  BY <1>1 DEF OpenPacket, Content
<1> QED BY <1>2 DEF OpenPackets

Refines == Service!ServiceNext \/ UNCHANGED Service!serviceVars

(* A step that the service does not see.                                   *)
LEMMA RefinesStutter ==
  ASSUME notes' = notes,
         \A w \in RadiusWorkers : /\ WaitingPackets(w)' = WaitingPackets(w)
                                 /\ OpenPackets(w)' = OpenPackets(w)
  PROVE  Refines
BY DEF Refines, Service!serviceVars

(* A step that the service sees of one worker alone.                       *)
LEMMA OthersUnseen ==
  ASSUME TypeOK, NEW w \in Workers, UNCHANGED <<frame, no>>,
         \A v \in Workers : v # w => queue'[v] = queue[v] /\ sessions'[v] = sessions[v]
  PROVE  /\ \A v \in Workers : v # w => /\ WaitingPackets(v)' = WaitingPackets(v)
                                      /\ OpenPackets(v)' = OpenPackets(v)
         /\ queue' = queue => WaitingPackets(w)' = WaitingPackets(w)
         /\ sessions' = sessions => OpenPackets(w)' = OpenPackets(w)
<1>1. \A b \in Buffers : Content(b)' = Content(b)
  BY DEF Content
<1> QED BY <1>1, SeenUnchanged

LEMMA RefinesWork ==
  ASSUME TypeOK, Ownership, Filed, NEW w \in Workers, WorkerStep(w)
  PROVE  Refines
<1>1. UNCHANGED <<frame, no>>
  BY DEF WorkerStep, TestStop, OnShutdown, OnSync, OnPair, OnHold, OnDiscard,
     DropPacket, EraseSession, EraseDone, nicVars
<1>2. \A v \in Workers : v # w => queue'[v] = queue[v] /\ sessions'[v] = sessions[v]
  BY DEF WorkerStep, TestStop, OnShutdown, OnSync, OnPair, OnHold, OnDiscard, DropPacket,
     EraseSession, EraseDone, Pop, SessionErased, TypeOK, ProcessorTypeOK
<1>3. \A v \in Workers : v # w => /\ WaitingPackets(v)' = WaitingPackets(v)
                               /\ OpenPackets(v)' = OpenPackets(v)
  BY <1>1, <1>2, OthersUnseen
<1>4. \A v \in RadiusWorkers : v \in Workers
  BY DEF RadiusWorkers
<1>5. CASE TestStop(w) \/ DropPacket(w) \/ EraseDone(w)
  <2>1. UNCHANGED <<queue, sessions, notes>>
    BY <1>5 DEF TestStop, DropPacket, EraseDone
  <2>2. WaitingPackets(w)' = WaitingPackets(w) /\ OpenPackets(w)' = OpenPackets(w)
    BY <1>1, <1>2, <2>1, OthersUnseen
  <2> QED BY <1>3, <1>4, <2>1, <2>2, RefinesStutter
<1>6. CASE OnShutdown(w) \/ OnSync(w)
  <2>1. PICK m \in Control : Pop(w, m)
    BY <1>6 DEF OnShutdown, OnSync, Control
  <2>2. UNCHANGED <<sessions, notes>>
    BY <1>6 DEF OnShutdown, OnSync
  <2>3. m \notin Buffers
    BY <2>1, ControlApart
  <2>4. WaitingPackets(w)' = WaitingPackets(w)
    BY <1>1, <2>1, <2>3, SeenPop DEF Pop
  <2>5. OpenPackets(w)' = OpenPackets(w)
    BY <1>1, <1>2, <2>2, OthersUnseen
  <2> QED BY <1>3, <1>4, <2>2, <2>4, <2>5, RefinesStutter
<1>7. ASSUME NEW b \in Buffers, OnDiscard(w, b) PROVE Refines
  <2>1. w \notin RadiusWorkers /\ notes' = notes
    BY <1>7 DEF OnDiscard, RadiusWorkers
  <2> QED BY <1>3, <1>4, <2>1, RefinesStutter
<1>8. ASSUME NEW b \in Buffers, Pop(w, b), LeafOf[w] = "RADIUS"
      PROVE  /\ w \in RadiusWorkers /\ WaitingPackets(w) # <<>>
             /\ Content(b) = Head(WaitingPackets(w)) /\ Content(b) \in Contents
             /\ [v \in RadiusWorkers |-> WaitingPackets(v)]'
                  = [[v \in RadiusWorkers |-> WaitingPackets(v)]
                       EXCEPT ![w] = Tail(WaitingPackets(w))]
  <2>1. w \in RadiusWorkers
    BY <1>8 DEF RadiusWorkers
  <2>2. /\ WaitingPackets(w) # <<>> /\ Head(WaitingPackets(w)) = Content(b)
        /\ WaitingPackets(w)' = Tail(WaitingPackets(w))
    BY <1>1, <1>8, SeenPop DEF Pop
  <2>3. Content(b) \in Contents
    BY ContentTypes DEF TypeOK
  <2> QED BY <1>3, <1>4, <2>1, <2>2, <2>3
<1>9. ASSUME NEW k \in Ids, NEW c \in Buffers \cup {NoBuffer}, w \in RadiusWorkers,
             sessions' = [sessions EXCEPT ![w][k] = c]
      PROVE  [v \in RadiusWorkers |-> OpenPackets(v)]'
               = [[v \in RadiusWorkers |-> OpenPackets(v)]
                    EXCEPT ![w] = [OpenPackets(w) EXCEPT ![k] = OpenPacket(c)]]
  <2>1. OpenPackets(w)' = [OpenPackets(w) EXCEPT ![k] = OpenPacket(c)]
    BY <1>1, <1>9, SeenSession
  <2> QED BY <1>3, <1>4, <1>9, <2>1
<1>10. ASSUME NEW b \in Buffers, OnHold(w, b) PROVE Refines
  <2> DEFINE k == frame[b].ident
             p == Content(b)
  <2>1. /\ Pop(w, b) /\ LeafOf[w] = "RADIUS" /\ k \in Ids /\ notes' = notes
        /\ sessions[w][k] = NoBuffer /\ sessions' = [sessions EXCEPT ![w][k] = b]
    BY <1>10, ContentTypes DEF OnHold, TypeOK
  <2>2. p.ident = k /\ OpenPacket(b) = <<p>> /\ OpenPackets(w)[k] = <<>>
    BY <2>1, ControlApart DEF Content, OpenPacket, OpenPackets
  <2> HIDE DEF k, p
  <2>3. [v \in RadiusWorkers |-> OpenPackets(v)]'
          = [[v \in RadiusWorkers |-> OpenPackets(v)]
               EXCEPT ![w] = [OpenPackets(w) EXCEPT ![k] = <<p>>]]
    <3>1. w \in RadiusWorkers /\ b \in Buffers \cup {NoBuffer}
      BY <2>1 DEF RadiusWorkers
    <3>2. [v \in RadiusWorkers |-> OpenPackets(v)]'
            = [[v \in RadiusWorkers |-> OpenPackets(v)]
                 EXCEPT ![w] = [OpenPackets(w) EXCEPT ![k] = OpenPacket(b)]]
      BY <1>9, <2>1, <3>1
    <3> QED BY <2>2, <3>2
  <2>4. w \in RadiusWorkers /\ p \in Contents
    BY <1>8, <2>1 DEF p
  <2>5. Service!Keep(w, p)
    BY <1>8, <2>1, <2>2, <2>3, <2>4 DEF Service!Keep, Service!Turn, p
  <2> QED BY <2>4, <2>5 DEF Refines, Service!ServiceNext
<1>11. ASSUME NEW b \in Buffers, OnPair(w, b) PROVE Refines
  <2> DEFINE k == frame[b].ident
             p == Content(b)
             q == Content(sessions[w][k])
  <2>1. /\ Pop(w, b) /\ LeafOf[w] = "RADIUS" /\ k \in Ids
        /\ notes' = Append(notes, [worker |-> w, resp |-> p, req |-> q])
        /\ sessions[w][k] # NoBuffer /\ sessions' = [sessions EXCEPT ![w][k] = NoBuffer]
    BY <1>11, ContentTypes DEF OnPair, SessionErased, Note, TypeOK
  <2>2. p.ident = k /\ OpenPacket(NoBuffer) = <<>> /\ OpenPackets(w)[k] = <<q>>
    BY <2>1 DEF Content, OpenPacket, OpenPackets
  <2> HIDE DEF k, p, q
  <2>3. [v \in RadiusWorkers |-> OpenPackets(v)]'
          = [[v \in RadiusWorkers |-> OpenPackets(v)]
               EXCEPT ![w] = [OpenPackets(w) EXCEPT ![k] = <<>>]]
    <3>1. w \in RadiusWorkers /\ NoBuffer \in Buffers \cup {NoBuffer}
      BY <2>1 DEF RadiusWorkers
    <3>2. [v \in RadiusWorkers |-> OpenPackets(v)]'
            = [[v \in RadiusWorkers |-> OpenPackets(v)]
                 EXCEPT ![w] = [OpenPackets(w) EXCEPT ![k] = OpenPacket(NoBuffer)]]
      BY <1>9, <2>1, <3>1
    <3> QED BY <2>2, <3>2
  <2>4. w \in RadiusWorkers /\ p \in Contents
    BY <1>8, <2>1 DEF p
  <2>5. Head(<<q>>) = q /\ <<q>> # <<>>
    OBVIOUS
  <2>6. Service!Pair(w, p)
    BY <1>8, <2>1, <2>2, <2>3, <2>4, <2>5 DEF Service!Pair, Service!Turn, p
  <2> QED BY <2>4, <2>6 DEF Refines, Service!ServiceNext
<1>12. ASSUME NEW k \in Ids, EraseSession(w, k) PROVE Refines
  <2>1. /\ queue' = queue /\ notes' = notes /\ sessions[w][k] # NoBuffer
        /\ sessions' = [sessions EXCEPT ![w][k] = NoBuffer]
    BY <1>12 DEF EraseSession, TypeOK, ProcessorTypeOK, Open
  <2>2. w \in RadiusWorkers
    BY <2>1 DEF Filed, RadiusWorkers
  <2>3. OpenPacket(NoBuffer) = <<>> /\ OpenPackets(w)[k] # <<>>
    BY <2>1 DEF OpenPacket, OpenPackets
  <2>4. WaitingPackets(w)' = WaitingPackets(w)
    BY <1>1, <1>2, <2>1, OthersUnseen
  <2>5. [v \in RadiusWorkers |-> WaitingPackets(v)]' = [v \in RadiusWorkers |-> WaitingPackets(v)]
    BY <1>3, <1>4, <2>4
  <2>6. [v \in RadiusWorkers |-> OpenPackets(v)]'
          = [[v \in RadiusWorkers |-> OpenPackets(v)]
               EXCEPT ![w] = [OpenPackets(w) EXCEPT ![k] = <<>>]]
    BY <1>9, <2>1, <2>2, <2>3
  <2>7. Service!GiveUp(w, k)
    BY <2>1, <2>2, <2>3, <2>5, <2>6 DEF Service!GiveUp
  <2> QED BY <2>2, <2>7 DEF Refines, Service!ServiceNext
<1> QED BY <1>5, <1>6, <1>7, <1>10, <1>11, <1>12 DEF WorkerStep

(* Time and receptions: the only buffer that changes is in the hand of the *)
(* main thread, and no worker has it.                                      *)
LEMMA RefinesCapture ==
  ASSUME TypeOK, Ownership, Capture
  PROVE  Refines
<1>1. UNCHANGED <<queue, sessions, notes>> /\ NICNext
  BY DEF Capture, workerVars
<1>2. \A b \in Buffers : b # hand => Content(b)' = Content(b)
  <2>1. \/ UNCHANGED <<frame, no>>
        \/ \E f, n : /\ frame' = [frame EXCEPT ![hand] = f]
                     /\ no' = [no EXCEPT ![hand] = n]
    BY <1>1 DEF NICNext, TakeBuffer, Receive, ReceiveFails, DropFrame, Tick, SetClock, clockVars
  <2>2. \A b \in Buffers : b # hand => frame'[b] = frame[b] /\ no'[b] = no[b]
    BY <2>1 DEF TypeOK, NICTypeOK
  <2> QED BY <2>2 DEF Content
<1>3. \A w \in Workers : \A b \in Buffers : Claimed(w, b) => b # hand
  BY DEF Claimed, Ownership, Owned, OwnedOnce, WithWorker
<1>4. \A w \in RadiusWorkers : /\ WaitingPackets(w)' = WaitingPackets(w)
                               /\ OpenPackets(w)' = OpenPackets(w)
  BY <1>1, <1>2, <1>3, SeenUnchanged DEF RadiusWorkers
<1> QED BY <1>1, <1>4, RefinesStutter

LEMMA RefinesEnqueue ==
  ASSUME TypeOK, NEW w \in Workers, Enqueue(w)
  PROVE  Refines
<1>1. /\ UNCHANGED <<frame, no, sessions, notes>> /\ hand \in Buffers
      /\ queue' = [queue EXCEPT ![w] = Append(@, hand)]
  BY DEF Enqueue, TypeOK, NICTypeOK
<1>2. \A v \in Workers : v # w => queue'[v] = queue[v] /\ sessions'[v] = sessions[v]
  BY <1>1 DEF TypeOK, ProcessorTypeOK
<1>3. /\ \A v \in Workers : v # w => /\ WaitingPackets(v)' = WaitingPackets(v)
                                     /\ OpenPackets(v)' = OpenPackets(v)
      /\ OpenPackets(w)' = OpenPackets(w)
  BY <1>1, <1>2, OthersUnseen
<1>4. \A v \in RadiusWorkers : v \in Workers
  BY DEF RadiusWorkers
<1>5. CASE w \in RadiusWorkers
  <2> DEFINE p == Content(hand)
  <2>1. WaitingPackets(w)' = Append(WaitingPackets(w), p)
    BY <1>1, SeenPut
  <2>2. p \in Contents
    BY <1>1, ContentTypes DEF TypeOK
  <2> HIDE DEF p
  <2>3. /\ [v \in RadiusWorkers |-> WaitingPackets(v)]'
             = [[v \in RadiusWorkers |-> WaitingPackets(v)]
                  EXCEPT ![w] = Append(WaitingPackets(w), p)]
        /\ [v \in RadiusWorkers |-> OpenPackets(v)]' = [v \in RadiusWorkers |-> OpenPackets(v)]
    BY <1>3, <1>4, <1>5, <2>1
  <2>4. Service!Accept(w, p)
    BY <1>1, <1>5, <2>3 DEF Service!Accept
  <2> QED BY <1>5, <2>2, <2>4 DEF Refines, Service!ServiceNext
<1>6. CASE w \notin RadiusWorkers
  BY <1>1, <1>3, <1>4, <1>6, RefinesStutter
<1> QED BY <1>5, <1>6

(* A destroyed queue drops its packets in turn, its messages unseen.       *)
LEMMA RefinesDestroy ==
  ASSUME TypeOK, NEW w \in Workers, DestroyItem(w)
  PROVE  Refines
<1> DEFINE x == Head(queue[w])
<1>1. /\ UNCHANGED <<frame, no, sessions, notes>> /\ queue[w] # <<>>
      /\ queue' = [queue EXCEPT ![w] = Tail(@)]
  BY DEF DestroyItem
<1>2. \A v \in Workers : v # w => queue'[v] = queue[v] /\ sessions'[v] = sessions[v]
  BY <1>1 DEF TypeOK, ProcessorTypeOK
<1>3. /\ \A v \in Workers : v # w => /\ WaitingPackets(v)' = WaitingPackets(v)
                                     /\ OpenPackets(v)' = OpenPackets(v)
      /\ OpenPackets(w)' = OpenPackets(w)
  BY <1>1, <1>2, OthersUnseen
<1>4. /\ x \notin Buffers => WaitingPackets(w)' = WaitingPackets(w)
      /\ x \in Buffers =>
           /\ WaitingPackets(w) # <<>>
           /\ Head(WaitingPackets(w)) = Content(x)
           /\ WaitingPackets(w)' = Tail(WaitingPackets(w))
  BY <1>1, SeenPop
<1> HIDE DEF x
<1>5. \A v \in RadiusWorkers : v \in Workers
  BY DEF RadiusWorkers
<1>6. CASE x \in Buffers /\ w \in RadiusWorkers
  <2> DEFINE p == Content(x)
  <2>1. p \in Contents
    BY <1>6, ContentTypes DEF TypeOK
  <2>2. /\ WaitingPackets(w) # <<>> /\ p = Head(WaitingPackets(w))
        /\ WaitingPackets(w)' = Tail(WaitingPackets(w))
    BY <1>4, <1>6
  <2> HIDE DEF p
  <2>3. /\ [v \in RadiusWorkers |-> WaitingPackets(v)]'
             = [[v \in RadiusWorkers |-> WaitingPackets(v)]
                  EXCEPT ![w] = Tail(WaitingPackets(w))]
        /\ [v \in RadiusWorkers |-> OpenPackets(v)]' = [v \in RadiusWorkers |-> OpenPackets(v)]
    BY <1>3, <1>5, <1>6, <2>2
  <2>4. Service!Drop(w, p)
    BY <1>1, <1>6, <2>2, <2>3 DEF Service!Drop, Service!Turn
  <2> QED BY <1>6, <2>1, <2>4 DEF Refines, Service!ServiceNext
<1>7. CASE ~(x \in Buffers /\ w \in RadiusWorkers)
  BY <1>1, <1>3, <1>4, <1>5, <1>7, RefinesStutter
<1> QED BY <1>6, <1>7

LEMMA RefinesStep ==
  ASSUME TypeOK, Ownership, Filed, Step \/ Crash \/ UNCHANGED vars
  PROVE  Refines
<1>1. CASE Capture
  BY <1>1, RefinesCapture
<1>2. CASE Dispatch
  BY <1>2, RefinesEnqueue DEF Dispatch
<1>3. ASSUME NEW w \in Workers, Work(w) PROVE Refines
  BY <1>3, RefinesWork DEF Work
<1>4. ASSUME UNCHANGED <<frame, no, queue, sessions, notes>> PROVE Refines
  <2>1. \A w \in Workers : /\ WaitingPackets(w)' = WaitingPackets(w)
                           /\ OpenPackets(w)' = OpenPackets(w)
    BY <1>4, OthersUnseen
  <2> QED BY <1>4, <2>1, RefinesStutter DEF RadiusWorkers
<1>5. CASE SyncPut \/ ShutdownPut
  <2>1. PICK w \in Workers, m \in Control : PutControl(w, m)
    BY <1>5 DEF SyncPut, ShutdownPut, Control
  <2>2. UNCHANGED <<frame, no, sessions, notes>>
    BY <1>5 DEF SyncPut, ShutdownPut, nicVars
  <2>3. queue' = [queue EXCEPT ![w] = Append(@, m)] /\ m \notin Buffers
    BY <2>1, ControlApart DEF PutControl
  <2>4. WaitingPackets(w)' = WaitingPackets(w)
    BY <2>2, <2>3, SeenPut
  <2>5. \A v \in Workers : v # w => queue'[v] = queue[v] /\ sessions'[v] = sessions[v]
    BY <2>2, <2>3 DEF TypeOK, ProcessorTypeOK
  <2>6. /\ \A v \in Workers : v # w => /\ WaitingPackets(v)' = WaitingPackets(v)
                                       /\ OpenPackets(v)' = OpenPackets(v)
        /\ OpenPackets(w)' = OpenPackets(w)
    BY <2>2, <2>5, OthersUnseen
  <2> QED BY <2>2, <2>4, <2>6, RefinesStutter DEF RadiusWorkers
<1>6. CASE TimerExpires \/ SyncEnds \/ Crash \/ UNCHANGED vars
  BY <1>4, <1>6 DEF TimerExpires, SyncEnds, Crash, vars, nicVars, workerVars
<1>7. CASE BeginShutdown \/ StopSync \/ JoinSync \/ Destroyed
  BY <1>4, <1>7 DEF BeginShutdown, StopSync, JoinSync, Destroyed, Enter, workerVars
<1>8. ASSUME NEW w \in Workers, DestroyItem(w) PROVE Refines
  BY <1>8, RefinesDestroy
<1> QED BY <1>1, <1>2, <1>3, <1>5, <1>6, <1>7, <1>8 DEF Step, ShutdownStep

(* The RADIUS workers are the pairing service: what each of them reports,  *)
(* keeps and gives up is what the packets accepted for it, in their order, *)
(* allow, although the packets are read from buffers that are recycled,    *)
(* control messages stand between them, and other workers, the sync thread *)
(* and the main thread run meanwhile.                                      *)
THEOREM ServiceImplemented == Spec => ImplementsService
<1>1. Init => Service!ServiceInit
  <2> SUFFICES ASSUME Init PROVE Service!ServiceInit
    OBVIOUS
  <2>1. \A w \in RadiusWorkers : WaitingPackets(w) = <<>>
    <3> SUFFICES ASSUME NEW w \in RadiusWorkers PROVE WaitingPackets(w) = <<>>
      OBVIOUS
    <3>1. queue[w] = <<>> /\ w \in Workers
      BY DEF Init, ProcessorInit, RadiusWorkers
    <3>2. Cardinality(Places(queue[w], Buffers)) = 0
      BY <3>1, FS_EmptySet DEF Places
    <3>3. /\ WaitingPackets(w) \in Seq(Contents)
          /\ Len(WaitingPackets(w)) = Cardinality(Places(queue[w], Buffers))
      <4>1. TypeOK /\ queue[w] \in Seq(Buffers \cup Control)
        BY <3>1, InitTypes DEF TypeOK, ProcessorTypeOK
      <4>2. \A b \in Buffers : [c \in Buffers |-> Content(c)][b] \in Contents
        BY <4>1, ContentTypes DEF TypeOK
      <4> QED BY <4>1, <4>2, SelectedTypes DEF WaitingPackets
    <3> HIDE DEF WaitingPackets
    <3> QED BY <3>2, <3>3, EmptySeq
  <2>2. \A w \in RadiusWorkers : OpenPackets(w) = [k \in Ids |-> <<>>]
    BY DEF Init, ProcessorInit, RadiusWorkers, OpenPackets, OpenPacket
  <2>3. notes = <<>>
    BY DEF Init, ProcessorInit
  <2> QED BY <2>1, <2>2, <2>3 DEF Service!ServiceInit
<1>2. TypeOK /\ Ownership /\ Filed /\ [Next]_vars
        => [Service!ServiceNext]_(Service!serviceVars)
  <2> SUFFICES ASSUME TypeOK, Ownership, Filed, [Next]_vars PROVE Refines
    BY DEF Refines
  <2> QED BY RefinesStep DEF Next, Over
<1> QED BY <1>1, <1>2, TypeCorrect, Owners, FiledAlways, PTL
    DEF Spec, ImplementsService, Service!ServiceSpec
=============================================================================
