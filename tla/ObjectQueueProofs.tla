-------------------------- MODULE ObjectQueueProofs --------------------------
(***************************************************************************)
(* What holds of ObjectQueue for any numbers of threads and objects and    *)
(* for both lock policies.                                                 *)
(***************************************************************************)
EXTENDS ObjectQueue, FiniteSetTheorems, TLAPS

(* notifyWait leaves every other thread alone and wakes at most one that   *)
(* sleeps.                                                                 *)
LEMMA NotifyOneEffect ==
  ASSUME NEW p \in [Threads -> {"none", "put", "pushing", "get", "taking",
                                "asleep", "return"}],
         NEW q \in NotifyOne(p)
  PROVE  \/ Asleep = {} /\ q = p
         \/ \E u \in Asleep : q = [p EXCEPT ![u] = "get"]
BY DEF NotifyOne

(* Every variable keeps its type, whatever the interleaving of calls.      *)
THEOREM TypeCorrect == Spec => []TypeOK
<1>1. Init => TypeOK
  BY DEF Init, TypeOK
<1>2. TypeOK /\ [Next]_vars => TypeOK'
  <2> SUFFICES ASSUME TypeOK, [Next]_vars PROVE TypeOK'
    OBVIOUS
  <2> USE DEF TypeOK
  <2>1. ASSUME NEW t \in Putters, NEW o \in Objects, CallPut(t, o) PROVE TypeOK'
    BY <2>1 DEF CallPut, Threads
  <2>2. ASSUME NEW t \in Getters, CallGet(t) PROVE TypeOK'
    BY <2>2 DEF CallGet, Threads
  <2>3. ASSUME NEW t \in Threads, Lock(t) PROVE TypeOK'
    BY <2>3 DEF Lock
  <2>4. ASSUME NEW t \in Threads, Push(t) PROVE TypeOK'
    <3> DEFINE p == [pc EXCEPT ![t] = "return"]
    <3>1. p \in [Threads -> {"none", "put", "pushing", "get", "taking",
                             "asleep", "return"}]
      OBVIOUS
    <3>2. pc' = p \/ \E u \in Asleep : pc' = [p EXCEPT ![u] = "get"]
      BY <2>4, <3>1, NotifyOneEffect DEF Push
    <3>3. /\ pc' \in [Threads -> {"none", "put", "pushing", "get", "taking",
                                  "asleep", "return"}]
          /\ \A u \in Threads : pc'[u] \in {"put", "pushing"} => u # t /\ pc'[u] = pc[u]
      BY <3>1, <3>2 DEF Asleep
    <3>4. container' \in Seq(Objects)
      BY <2>4 DEF Push, PushBack
    <3>5. obj' \in [Threads -> Objects \cup {NoObject}]
          /\ \A u \in Threads : u # t => obj'[u] = obj[u]
      BY <2>4 DEF Push
    <3>6. holder' \in Threads \cup {NoThread}
      BY <2>4 DEF Push
    <3> HIDE DEF p
    <3> QED BY <3>3, <3>4, <3>5, <3>6
  <2>5. ASSUME NEW t \in Threads, Take(t) PROVE TypeOK'
    <3>1. Head(container) \in Objects /\ Tail(container) \in Seq(Objects)
      BY <2>5 DEF Take
    <3> QED BY <2>5, <3>1 DEF Take
  <2>6. ASSUME NEW t \in Threads, FailedWait(t) PROVE TypeOK'
    BY <2>6 DEF FailedWait, AfterFailedWait, GiveUpLock
  <2>7. ASSUME NEW t \in Threads, Unlock(t) PROVE TypeOK'
    BY <2>7 DEF Unlock, GuardReleased
  <2>8. ASSUME NEW t \in Threads, SpuriousWakeup(t) PROVE TypeOK'
    BY <2>8 DEF SpuriousWakeup
  <2>9. CASE UNCHANGED vars
    BY <2>9 DEF vars
  <2> QED BY <2>1, <2>2, <2>3, <2>4, <2>5, <2>6, <2>7, <2>8, <2>9 DEF Next, Critical
<1> QED BY <1>1, <1>2, PTL DEF Spec

(* The threads between lock and unlock are the one that holds the lock, so *)
(* m_container is never touched by two threads at once.                    *)
THEOREM LockProtects == Spec => []MutualExclusion
<1>1. Init => MutualExclusion
  BY QueueAssumption DEF Init, MutualExclusion, InCritical
<1>2. TypeOK /\ MutualExclusion /\ [Next]_vars => MutualExclusion'
  <2> SUFFICES ASSUME TypeOK, MutualExclusion, [Next]_vars PROVE MutualExclusion'
    OBVIOUS
  <2> USE DEF TypeOK, MutualExclusion, InCritical
  <2>1. ASSUME NEW t \in Putters, NEW o \in Objects, CallPut(t, o) PROVE MutualExclusion'
    BY <2>1 DEF CallPut, Threads
  <2>2. ASSUME NEW t \in Getters, CallGet(t) PROVE MutualExclusion'
    BY <2>2 DEF CallGet, Threads
  <2>3. ASSUME NEW t \in Threads, Lock(t) PROVE MutualExclusion'
    BY <2>3, QueueAssumption DEF Lock, LockIsFree
  <2>4. ASSUME NEW t \in Threads, Push(t) PROVE MutualExclusion'
    <3> DEFINE p == [pc EXCEPT ![t] = "return"]
    <3>1. p \in [Threads -> {"none", "put", "pushing", "get", "taking",
                             "asleep", "return"}]
      OBVIOUS
    <3>2. pc' = p \/ \E u \in Asleep : pc' = [p EXCEPT ![u] = "get"]
      BY <2>4, <3>1, NotifyOneEffect DEF Push
    <3>3. \A u \in Threads : InCritical(u)' <=> InCritical(u)
      BY <2>4, <3>2 DEF Push, Asleep
    <3> QED BY <2>4, <3>3 DEF Push
  <2>5. ASSUME NEW t \in Threads, Take(t) PROVE MutualExclusion'
    BY <2>5 DEF Take
  <2>6. ASSUME NEW t \in Threads, FailedWait(t) PROVE MutualExclusion'
    BY <2>6, QueueAssumption DEF FailedWait, AfterFailedWait, GiveUpLock
  <2>7. ASSUME NEW t \in Threads, Unlock(t) PROVE MutualExclusion'
    BY <2>7, QueueAssumption DEF Unlock, GuardReleased
  <2>8. ASSUME NEW t \in Threads, SpuriousWakeup(t) PROVE MutualExclusion'
    BY <2>8 DEF SpuriousWakeup
  <2>9. CASE UNCHANGED vars
    BY <2>9 DEF vars
  <2> QED BY <2>1, <2>2, <2>3, <2>4, <2>5, <2>6, <2>7, <2>8, <2>9 DEF Next, Critical
<1> QED BY <1>1, <1>2, TypeCorrect, PTL DEF Spec

(* One more awake getter, or one fewer.                                    *)
LEMMA OneMore ==
  ASSUME NEW S, IsFiniteSet(S), NEW x, x \notin S
  PROVE  Cardinality(S \cup {x}) = Cardinality(S) + 1 /\ Cardinality(S) \in Nat
BY FS_AddElement, FS_CardinalityType

LEMMA OneFewer ==
  ASSUME NEW S, IsFiniteSet(S), NEW x \in S
  PROVE  Cardinality(S \ {x}) = Cardinality(S) - 1 /\ Cardinality(S) \in Nat
BY FS_RemoveElement, FS_CardinalityType

(* notify_one under the lock is enough: a getter never sleeps next to an   *)
(* object that no awake getter is on its way to.                           *)
THEOREM WakeupsKept == Spec => []NoLostWakeup
<1>1. Init => NoLostWakeup
  BY DEF Init, NoLostWakeup, Asleep
<1>2. TypeOK /\ NoLostWakeup /\ [Next]_vars => NoLostWakeup'
  <2> SUFFICES ASSUME TypeOK, NoLostWakeup, [Next]_vars, Asleep' # {}
               PROVE  Len(container)' <= Cardinality(AwakeGetters')
    BY DEF NoLostWakeup
  <2> USE DEF TypeOK
  <2>0. /\ IsFiniteSet(AwakeGetters)
        /\ Cardinality(AwakeGetters) \in Nat
        /\ Len(container) \in Nat
    <3>1. IsFiniteSet(AwakeGetters)
      BY QueueAssumption, FS_Subset DEF AwakeGetters
    <3> QED BY <3>1, FS_CardinalityType
  <2>1. ASSUME NEW t \in Putters, NEW o \in Objects, CallPut(t, o)
        PROVE  Len(container)' <= Cardinality(AwakeGetters')
    <3>1. AwakeGetters' = AwakeGetters /\ Asleep' = Asleep
      BY <2>1 DEF CallPut, AwakeGetters, Asleep, Threads
    <3> QED BY <2>1, <3>1 DEF CallPut, NoLostWakeup
  <2>2. ASSUME NEW t \in Getters, CallGet(t)
        PROVE  Len(container)' <= Cardinality(AwakeGetters')
    <3>1. /\ t \notin AwakeGetters /\ AwakeGetters' = AwakeGetters \cup {t}
          /\ Asleep' = Asleep
      BY <2>2 DEF CallGet, AwakeGetters, Asleep, Threads
    <3> QED BY <2>0, <2>2, <3>1, OneMore DEF CallGet, NoLostWakeup
  <2>3. ASSUME NEW t \in Threads, Lock(t)
        PROVE  Len(container)' <= Cardinality(AwakeGetters')
    <3>1. AwakeGetters' = AwakeGetters /\ Asleep' = Asleep
      BY <2>3 DEF Lock, AwakeGetters, Asleep
    <3> QED BY <2>3, <3>1 DEF Lock, NoLostWakeup
  <2>4. ASSUME NEW t \in Threads, Push(t)
        PROVE  Len(container)' <= Cardinality(AwakeGetters')
    <3> DEFINE p == [pc EXCEPT ![t] = "return"]
    <3>1. p \in [Threads -> {"none", "put", "pushing", "get", "taking",
                             "asleep", "return"}]
      OBVIOUS
    <3>2. CASE Asleep = {}
      <4>1. pc' = p
        BY <2>4, <3>1, <3>2, NotifyOneEffect DEF Push
      <4> QED BY <2>4, <3>2, <4>1 DEF Push, Asleep
    <3>3. ASSUME NEW u \in Asleep, pc' = [p EXCEPT ![u] = "get"]
          PROVE  Len(container)' <= Cardinality(AwakeGetters')
      <4>1. u \notin AwakeGetters /\ AwakeGetters' = AwakeGetters \cup {u}
        BY <2>4, <3>3 DEF Push, AwakeGetters, Asleep
      <4>2. Len(container') = Len(container) + 1
        BY <2>4 DEF Push, PushBack
      <4> QED BY <2>0, <3>3, <4>1, <4>2, OneMore DEF NoLostWakeup
    <3> QED BY <2>4, <3>1, <3>2, <3>3, NotifyOneEffect DEF Push
  <2>5. ASSUME NEW t \in Threads, Take(t)
        PROVE  Len(container)' <= Cardinality(AwakeGetters')
    <3>1. /\ t \in AwakeGetters /\ AwakeGetters' = AwakeGetters \ {t}
          /\ Asleep' = Asleep
      BY <2>5 DEF Take, AwakeGetters, Asleep
    <3>2. Len(container') = Len(container) - 1
      BY <2>5 DEF Take
    <3> QED BY <2>0, <3>1, <3>2, OneFewer DEF NoLostWakeup
  <2>6. ASSUME NEW t \in Threads, FailedWait(t)
        PROVE  Len(container)' <= Cardinality(AwakeGetters')
    <3>1. IsFiniteSet(AwakeGetters')
      BY QueueAssumption, FS_Subset DEF AwakeGetters
    <3>2. Cardinality(AwakeGetters') \in Nat
      BY <3>1, FS_CardinalityType
    <3> QED BY <2>6, <3>2 DEF FailedWait
  <2>7. ASSUME NEW t \in Threads, Unlock(t)
        PROVE  Len(container)' <= Cardinality(AwakeGetters')
    <3>1. AwakeGetters' = AwakeGetters /\ Asleep' = Asleep
      BY <2>7 DEF Unlock, AwakeGetters, Asleep
    <3> QED BY <2>7, <3>1 DEF Unlock, NoLostWakeup
  <2>8. ASSUME NEW t \in Threads, SpuriousWakeup(t)
        PROVE  Len(container)' <= Cardinality(AwakeGetters')
    <3>1. /\ t \notin AwakeGetters /\ AwakeGetters' = AwakeGetters \cup {t}
          /\ Asleep # {}
      BY <2>8 DEF SpuriousWakeup, AwakeGetters, Asleep
    <3> QED BY <2>0, <2>8, <3>1, OneMore DEF SpuriousWakeup, NoLostWakeup
  <2>9. CASE UNCHANGED vars
    BY <2>9 DEF vars, AwakeGetters, Asleep, NoLostWakeup
  <2> QED BY <2>1, <2>2, <2>3, <2>4, <2>5, <2>6, <2>7, <2>8, <2>9 DEF Next, Critical
<1> QED BY <1>1, <1>2, TypeCorrect, PTL DEF Spec
-----------------------------------------------------------------------------
(* An object that is put has no other owner, so no object is ever in two   *)
(* places.                                                                 *)
THEOREM OwnersUnique == Spec => []UniqueOwner
<1>1. Init => UniqueOwner
  BY DEF Init, UniqueOwner
<1>2. TypeOK /\ UniqueOwner /\ [Next]_vars => UniqueOwner'
  <2> SUFFICES ASSUME TypeOK, UniqueOwner, [Next]_vars PROVE UniqueOwner'
    OBVIOUS
  <2> USE QueueAssumption DEF TypeOK, UniqueOwner
  <2>1. ASSUME NEW t \in Putters, NEW o \in Objects, CallPut(t, o) PROVE UniqueOwner'
    BY <2>1 DEF CallPut, Free, Threads
  <2>2. ASSUME NEW t \in Getters, CallGet(t) PROVE UniqueOwner'
    BY <2>2 DEF CallGet, Threads
  <2>3. ASSUME NEW t \in Threads, Push(t) PROVE UniqueOwner'
    <3>1. /\ DOMAIN container' = 1..Len(container) + 1
          /\ DOMAIN container = 1..Len(container)
          /\ \A i \in DOMAIN container : container'[i] = container[i]
          /\ container'[Len(container) + 1] = obj[t]
          /\ Len(container) \in Nat
      BY <2>3 DEF Push, PushBack
    <3>2. obj' = [obj EXCEPT ![t] = NoObject] /\ obj[t] \in Objects
      BY <2>3 DEF Push
    <3>3. \A i \in DOMAIN container' : container'[i] \in Objects
      BY <3>1, <3>2
    <3> QED BY <3>1, <3>2, <3>3, SMTT(30)
  <2>4. ASSUME NEW t \in Threads, Take(t) PROVE UniqueOwner'
    <3>1. /\ DOMAIN container' = 1..Len(container) - 1
          /\ DOMAIN container = 1..Len(container)
          /\ \A i \in DOMAIN container' : container'[i] = container[i + 1]
          /\ obj' = [obj EXCEPT ![t] = container[1]]
          /\ Len(container) \in Nat \ {0}
      BY <2>4 DEF Take
    <3>2. /\ 1 \in DOMAIN container
          /\ \A i \in DOMAIN container' : i + 1 \in DOMAIN container /\ i + 1 # 1
      BY <3>1
    <3>3. \A i, j \in DOMAIN container' : container'[i] = container'[j] => i = j
      BY <3>1, <3>2
    <3>4. \A u \in Threads : \A i \in DOMAIN container' : container'[i] # obj'[u]
      BY <3>1, <3>2
    <3>5. \A u, v \in Threads : obj'[u] = obj'[v] /\ obj'[u] # NoObject => u = v
      BY <3>1, <3>2
    <3> QED BY <3>3, <3>4, <3>5
  <2>5. CASE UNCHANGED <<container, obj>>
    BY <2>5
  <2> QED BY <2>1, <2>2, <2>3, <2>4, <2>5
      DEF Next, Critical, Lock, FailedWait, Unlock, SpuriousWakeup, vars
<1> QED BY <1>1, <1>2, TypeCorrect, PTL DEF Spec

(* The queue with its locks and condition variable is the FIFO channel:    *)
(* a call takes effect when the thread pushes or takes under the lock, and *)
(* locking, sleeping and waking change nothing a caller sees.              *)
THEOREM Refinement == Spec => ImplementsChannel
<1>1. Init => Channel!ChannelInit
  BY DEF Init, Channel!ChannelInit, Channel!Threads, Threads, CallOf
<1>2. TypeOK /\ [Next]_vars => [Channel!ChannelNext]_(Channel!channelVars)
  <2> SUFFICES ASSUME TypeOK, [Next]_vars
               PROVE  Channel!ChannelNext \/ UNCHANGED Channel!channelVars
    OBVIOUS
  <2> USE DEF TypeOK, Channel!channelVars, CallOf
  <2>0. Channel!Threads = Threads
    BY DEF Threads, Channel!Threads
  <2>1. ASSUME NEW t \in Putters, NEW o \in Objects, CallPut(t, o)
        PROVE Channel!CallPut(t, o)
    <3>1. t \in Threads
      BY DEF Threads
    <3> QED BY <2>0, <2>1, <3>1 DEF CallPut, Channel!CallPut, Free, Channel!Free
  <2>2. ASSUME NEW t \in Getters, CallGet(t) PROVE Channel!CallGet(t)
    <3>1. t \in Threads
      BY DEF Threads
    <3> QED BY <2>2, <3>1 DEF CallGet, Channel!CallGet
  <2>3. ASSUME NEW t \in Threads, Lock(t) PROVE UNCHANGED Channel!channelVars
    BY <2>3 DEF Lock
  <2>4. ASSUME NEW t \in Threads, Push(t) PROVE Channel!Put(t)
    <3> DEFINE p == [pc EXCEPT ![t] = "return"]
    <3>1. p \in [Threads -> {"none", "put", "pushing", "get", "taking",
                             "asleep", "return"}]
      OBVIOUS
    <3>2. pc' = p \/ \E u \in Asleep : pc' = [p EXCEPT ![u] = "get"]
      BY <2>4, <3>1, NotifyOneEffect DEF Push
    <3>3. [u \in Threads |-> CallOf(pc[u])]'
            = [[u \in Threads |-> CallOf(pc[u])] EXCEPT ![t] = "return"]
      BY <2>4, <3>2 DEF Push, Asleep
    <3> QED BY <2>4, <3>3 DEF Push, Channel!Put, PushBack
  <2>5. ASSUME NEW t \in Threads, Take(t) PROVE Channel!Get(t)
    BY <2>5 DEF Take, Channel!Get
  <2>6. ASSUME NEW t \in Threads, FailedWait(t) PROVE UNCHANGED Channel!channelVars
    BY <2>6 DEF FailedWait, AfterFailedWait
  <2>7. ASSUME NEW t \in Threads, Unlock(t) PROVE Channel!Return(t)
    BY <2>7 DEF Unlock, Channel!Return
  <2>8. ASSUME NEW t \in Threads, SpuriousWakeup(t)
        PROVE UNCHANGED Channel!channelVars
    BY <2>8 DEF SpuriousWakeup
  <2>9. CASE UNCHANGED vars
    BY <2>9 DEF vars
  <2> QED BY <2>0, <2>1, <2>2, <2>3, <2>4, <2>5, <2>6, <2>7, <2>8, <2>9
      DEF Next, Critical, Channel!ChannelNext
<1> QED BY <1>1, <1>2, TypeCorrect, PTL DEF Spec, ImplementsChannel, Channel!ChannelSpec
=============================================================================
