---------------------------- MODULE ObjectQueue ----------------------------
(***************************************************************************)
(* ObjectQueue<Object, LockPolicy> (include/Utils/ObjectQueue.h) with its  *)
(* two lock policies (include/Utils/LockPolicies.h), one lock operation at *)
(* a time.  Policy = "wait" is WaitLockPolicy (std::mutex and a condition  *)
(* variable: the queues of the workers and of the notifier), Policy =      *)
(* "spin" is SpinLockPolicy (the packet pool).                             *)
(*                                                                         *)
(* Objects are owned by std::unique_ptr, so a thread puts an object that   *)
(* it owns or that nobody owns, and lets go of the object it got last when *)
(* it calls again.  That is what bounds the queue.                         *)
(***************************************************************************)
EXTENDS Naturals, Sequences, FiniteSets

CONSTANTS Putters, Getters, Objects, NoObject,
          Policy,     \* "wait" or "spin"
          NoThread    \* the lock is free

Threads == Putters \cup Getters

ASSUME QueueAssumption ==
  /\ IsFiniteSet(Threads)
  /\ NoObject \notin Objects
  /\ NoThread \notin Threads
  /\ Policy \in {"wait", "spin"}

VARIABLES container,  \* m_container
          holder,     \* the thread that holds m_mutex (or m_lock)
          pc,         \* where each thread is in putObject or getObject
          obj         \* the object each thread owns

vars == <<container, holder, pc, obj>>

Init ==
  /\ container = <<>>
  /\ holder = NoThread
  /\ pc = [t \in Threads |-> "none"]
  /\ obj = [t \in Threads |-> NoObject]
-----------------------------------------------------------------------------
Asleep == {t \in Threads : pc[t] = "asleep"}

(* LockPolicy::notifyWait, called with the lock held: notify_one moves one *)
(* waiting thread back to contending for the mutex; SpinLockPolicy has     *)
(* nobody to notify.  The value is the set of possible next pc's.          *)
NotifyNobody(p) == {p}
NotifyOnlyOnEdge(p) ==
  IF container = <<>> /\ Asleep # {}
  THEN {[p EXCEPT ![t] = "get"] : t \in Asleep}
  ELSE {p}
NotifyOne(p) ==
  IF Asleep # {} THEN {[p EXCEPT ![t] = "get"] : t \in Asleep} ELSE {p}

LockIgnored == TRUE
LockIsFree == holder = NoThread

PushFront(o) == <<o>> \o container
PushBackMoved(o) == Append(container, NoObject)
PushBackTwice(o) == container \o <<o, o>>
PushBack(o) == Append(container, o)

(* What wait() does once the predicate has failed: the condition variable  *)
(* puts the thread to sleep and the spin policy yields and locks again.    *)
AfterFailedWait == IF Policy = "wait" THEN "asleep" ELSE "get"

Free(o) ==
  /\ \A i \in DOMAIN container : container[i] # o
  /\ \A t \in Threads : obj[t] # o

CallPut(t, o) ==
  /\ pc[t] = "none"
  /\ Free(o) \/ obj[t] = o
  /\ pc' = [pc EXCEPT ![t] = "put"]
  /\ obj' = [obj EXCEPT ![t] = o]
  /\ UNCHANGED <<container, holder>>

CallGet(t) ==
  /\ pc[t] = "none"
  /\ pc' = [pc EXCEPT ![t] = "get"]
  /\ obj' = [obj EXCEPT ![t] = NoObject]
  /\ UNCHANGED <<container, holder>>

(* LockPolicy::lock(), and the re-locking inside wait().                   *)
Lock(t) ==
  /\ LockIsFree
  /\ \/ pc[t] = "put" /\ pc' = [pc EXCEPT ![t] = "pushing"]
     \/ pc[t] = "get" /\ pc' = [pc EXCEPT ![t] = "taking"]
  /\ holder' = t
  /\ UNCHANGED <<container, obj>>

(* push_back and notifyWait, both under the lock.                          *)
Push(t) ==
  /\ pc[t] = "pushing"
  /\ container' = PushBack(obj[t])
  /\ obj' = [obj EXCEPT ![t] = NoObject]
  /\ pc' \in NotifyOne([pc EXCEPT ![t] = "return"])
  /\ UNCHANGED holder

Take(t) ==
  /\ pc[t] = "taking"
  /\ container # <<>>
  /\ obj' = [obj EXCEPT ![t] = Head(container)]
  /\ container' = Tail(container)
  /\ pc' = [pc EXCEPT ![t] = "return"]
  /\ UNCHANGED holder

(* The predicate is false: the lock is given up inside wait().             *)
KeepLock == holder
GiveUpLock == NoThread
FailedWait(t) ==
  /\ pc[t] = "taking"
  /\ container = <<>>
  /\ pc' = [pc EXCEPT ![t] = AfterFailedWait]
  /\ holder' = GiveUpLock
  /\ UNCHANGED <<container, obj>>

(* A condition variable may wake a thread that nobody notified.            *)
SpuriousWakeup(t) ==
  /\ pc[t] = "asleep"
  /\ pc' = [pc EXCEPT ![t] = "get"]
  /\ UNCHANGED <<container, holder, obj>>

(* The lock guard leaves its scope and the call returns.                   *)
GuardLeaked == holder
GuardReleased == NoThread
Unlock(t) ==
  /\ pc[t] = "return"
  /\ pc' = [pc EXCEPT ![t] = "none"]
  /\ holder' = GuardReleased
  /\ UNCHANGED <<container, obj>>

Critical(t) == Push(t) \/ Take(t) \/ FailedWait(t) \/ Unlock(t)

Next ==
  \/ \E t \in Putters : \E o \in Objects : CallPut(t, o)
  \/ \E t \in Getters : CallGet(t)
  \/ \E t \in Threads : \/ Lock(t)
                        \/ Critical(t)
                        \/ SpuriousWakeup(t)

Spec == Init /\ [][Next]_vars

(* A thread inside a call keeps running, and one that keeps finding the    *)
(* lock free at times gets it in the end: with "wait" that takes no more   *)
(* than being scheduled while the mutex is free, with "spin" it is what    *)
(* the yield between unlock and lock is for.                               *)
Fairness ==
  \A t \in Threads : /\ WF_vars(Critical(t))
                     /\ WF_vars(Lock(t))
                     /\ Policy = "spin" => SF_vars(Lock(t))

FairSpec == Spec /\ Fairness
-----------------------------------------------------------------------------
InCritical(t) == pc[t] \in {"pushing", "taking", "return"}

(* Every variable has its type, and a thread that is about to push owns    *)
(* the object it pushes.                                                   *)
TypeOK ==
  /\ container \in Seq(Objects)
  /\ holder \in Threads \cup {NoThread}
  /\ pc \in [Threads -> {"none", "put", "pushing", "get", "taking",
                         "asleep", "return"}]
  /\ obj \in [Threads -> Objects \cup {NoObject}]
  /\ \A t \in Threads : pc[t] \in {"put", "pushing"} => obj[t] \in Objects

(* m_container is touched by one thread at a time: a thread between lock   *)
(* and unlock is the one that holds the lock.                              *)
MutualExclusion == \A t \in Threads : InCritical(t) <=> holder = t

(* An object has one owner: it is once in the queue or with one thread.    *)
UniqueOwner ==
  /\ \A i, j \in DOMAIN container : container[i] = container[j] => i = j
  /\ \A t \in Threads : \A i \in DOMAIN container : container[i] # obj[t]
  /\ \A t, u \in Threads : obj[t] = obj[u] /\ obj[t] # NoObject => t = u

(* No wakeup is lost: while a getter sleeps, every object in the queue has *)
(* a getter of its own that is awake and on its way to it.                 *)
AwakeGetters == {t \in Threads : pc[t] \in {"get", "taking"}}
NoLostWakeup == Asleep # {} => Len(container) <= Cardinality(AwakeGetters)

(* Objects in the queue and a getter in its call lead to a served getter.  *)
SomeGetterServed ==
  (container # <<>> /\ \E t \in Getters : pc[t] \in {"get", "taking", "asleep"})
    ~> (\E t \in Getters : pc[t] = "return" /\ obj[t] # NoObject)

(* putObject never waits for a getter: every call of it returns.           *)
PutReturns == \A t \in Putters : pc[t] = "put" ~> pc[t] = "none"

(* Refinement: the queue is the FIFO channel, and locking, sleeping and    *)
(* waking are invisible to its callers.                                    *)
CallOf(s) ==
  IF s \in {"put", "pushing"} THEN "put"
  ELSE IF s \in {"get", "taking", "asleep"} THEN "get" ELSE s
Channel == INSTANCE FifoChannel WITH op <- [t \in Threads |-> CallOf(pc[t])]

ImplementsChannel == Channel!ChannelSpec
=============================================================================
