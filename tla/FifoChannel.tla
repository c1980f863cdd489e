---------------------------- MODULE FifoChannel ----------------------------
(***************************************************************************)
(* What ObjectQueue promises its callers (include/Utils/ObjectQueue.h):    *)
(* an unbounded FIFO channel of uniquely owned objects.  putObject and     *)
(* getObject take effect at one instant between the call and the return,   *)
(* and getObject has no effect before there is an object to hand out.      *)
(* Locks, condition variables and yielding do not appear here.             *)
(***************************************************************************)
EXTENDS Sequences

CONSTANTS Putters,    \* threads that call putObject
          Getters,    \* threads that call getObject
          Objects,    \* what std::unique_ptr can own
          NoObject    \* an empty std::unique_ptr

Threads == Putters \cup Getters

VARIABLES container,  \* m_container, the oldest object first
          op,         \* op[t]: the call thread t is in
          obj         \* obj[t]: the object thread t owns

channelVars == <<container, op, obj>>

ChannelInit ==
  /\ container = <<>>
  /\ op = [t \in Threads |-> "none"]
  /\ obj = [t \in Threads |-> NoObject]

(* Nobody owns o: it is neither in the channel nor with a thread.          *)
Free(o) ==
  /\ \A i \in DOMAIN container : container[i] # o
  /\ \A t \in Threads : obj[t] # o

CallPut(t, o) ==
  /\ op[t] = "none"
  /\ Free(o) \/ obj[t] = o
  /\ op' = [op EXCEPT ![t] = "put"]
  /\ obj' = [obj EXCEPT ![t] = o]
  /\ UNCHANGED container

CallGet(t) ==
  /\ op[t] = "none"
  /\ op' = [op EXCEPT ![t] = "get"]
  /\ obj' = [obj EXCEPT ![t] = NoObject]
  /\ UNCHANGED container

Put(t) ==
  /\ op[t] = "put"
  /\ container' = Append(container, obj[t])
  /\ obj' = [obj EXCEPT ![t] = NoObject]
  /\ op' = [op EXCEPT ![t] = "return"]

Get(t) ==
  /\ op[t] = "get"
  /\ container # <<>>
  /\ obj' = [obj EXCEPT ![t] = Head(container)]
  /\ container' = Tail(container)
  /\ op' = [op EXCEPT ![t] = "return"]

Return(t) ==
  /\ op[t] = "return"
  /\ op' = [op EXCEPT ![t] = "none"]
  /\ UNCHANGED <<container, obj>>

ChannelNext ==
  \/ \E t \in Putters : \E o \in Objects : CallPut(t, o)
  \/ \E t \in Getters : CallGet(t)
  \/ \E t \in Threads : Put(t) \/ Get(t) \/ Return(t)

ChannelSpec == ChannelInit /\ [][ChannelNext]_channelVars
=============================================================================
