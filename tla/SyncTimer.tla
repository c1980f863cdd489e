------------------------------ MODULE SyncTimer ------------------------------
(***************************************************************************)
(* The sync thread of PacketDispatcher and of PacketRouter, which share    *)
(* the code (include/PacketDispatcher.hpp, include/PacketRouter.hpp):      *)
(* initialize with every outcome of its system calls, the loop around poll *)
(* and read, deinitialize.  TrafficInspector knows the thread by what it   *)
(* broadcasts only.                                                        *)
(***************************************************************************)
EXTENDS Naturals

CONSTANT MaxExpiries   \* bound: expiries of the timer

ASSUME TimerAssumption == MaxExpiries \in Nat

VARIABLES timerHandler, \* m_timerHandler is not -1
          armed,        \* timerfd_settime succeeded
          result,       \* what the last initialize returned
          expirations,  \* whether an expiry waits to be read: a timer that
                        \* expires again before that adds to a count
          sync,         \* where the sync thread is; "none" before its start
          stopFlag,     \* m_stopFlag
          expiries,     \* history: expiries so far
          broadcasts,   \* history: dispatchBroadcast(SYNC_TIMEOUT) so far
          lateCasts     \* history: of these, begun after the stop

timerVars == <<timerHandler, armed, result, expirations, sync, stopFlag,
               expiries, broadcasts, lateCasts>>

TimerInit ==
  /\ timerHandler = FALSE
  /\ armed = FALSE
  /\ result = FALSE
  /\ expirations = FALSE
  /\ sync = "none"
  /\ stopFlag = FALSE
  /\ expiries = 0
  /\ broadcasts = 0
  /\ lateCasts = 0
-----------------------------------------------------------------------------
(* initialize: nothing is done if there is a timer; timerfd_create fails;  *)
(* clock_gettime or timerfd_settime fails; or the thread is started.       *)
Created ==
  /\ timerHandler
  /\ result' = TRUE
  /\ UNCHANGED <<timerHandler, armed, sync>>

CreateFails ==
  /\ ~timerHandler
  /\ result' = FALSE
  /\ UNCHANGED <<timerHandler, armed, sync>>

HandlerLost == timerHandler
HandlerStored == TRUE
ChargeFails ==
  /\ ~timerHandler
  /\ timerHandler' = HandlerStored
  /\ result' = FALSE
  /\ UNCHANGED <<armed, sync>>

ThreadForgotten == sync
ThreadStarted == "test"
Charged ==
  /\ ~timerHandler
  /\ timerHandler' = HandlerStored
  /\ armed' = TRUE
  /\ sync' = ThreadStarted
  /\ result' = TRUE

TimerInitialize ==
  /\ Created \/ CreateFails \/ ChargeFails \/ Charged
  /\ UNCHANGED <<expirations, stopFlag, expiries, broadcasts, lateCasts>>
-----------------------------------------------------------------------------
Expire ==
  /\ armed
  /\ expiries < MaxExpiries
  /\ expiries' = expiries + 1
  /\ expirations' = TRUE
  /\ UNCHANGED <<timerHandler, armed, result, sync, stopFlag, broadcasts,
                 lateCasts>>

At(s, t) == sync = s /\ sync' = t

TestStopFlag ==
  /\ At("test", IF stopFlag THEN "ended" ELSE "poll")
  /\ UNCHANGED <<timerHandler, armed, result, expirations, stopFlag, expiries,
                 broadcasts, lateCasts>>

(* poll: after 500 ms, on an error, with a timer that can be read.         *)
GivesUp == "ended"
Continues == "test"
PollEmpty ==
  /\ ~expirations
  /\ At("poll", "test")
  /\ UNCHANGED <<timerHandler, armed, result, expirations, stopFlag, expiries,
                 broadcasts, lateCasts>>

PollFails ==
  /\ At("poll", Continues)
  /\ UNCHANGED <<timerHandler, armed, result, expirations, stopFlag, expiries,
                 broadcasts, lateCasts>>

PollReady ==
  /\ expirations
  /\ At("poll", "read")
  /\ UNCHANGED <<timerHandler, armed, result, expirations, stopFlag, expiries,
                 broadcasts, lateCasts>>

ReadFails ==
  /\ At("read", Continues)
  /\ UNCHANGED <<timerHandler, armed, result, expirations, stopFlag, expiries,
                 broadcasts, lateCasts>>

(* read yields the number of expiries and starts it over.                  *)
StillReadable == expirations
NothingToRead == FALSE
Read ==
  /\ At("read", "cast")
  /\ expirations' = NothingToRead
  /\ UNCHANGED <<timerHandler, armed, result, stopFlag, expiries, broadcasts,
                 lateCasts>>

(* One SYNC_TIMEOUT for all workers, however many expiries were read.      *)
PollsOn == "poll"
NextRound == "test"
Broadcast ==
  /\ At("cast", NextRound)
  /\ broadcasts' = broadcasts + 1
  /\ lateCasts' = IF stopFlag THEN lateCasts + 1 ELSE lateCasts
  /\ UNCHANGED <<timerHandler, armed, result, expirations, stopFlag, expiries>>

SyncStep ==
  \/ TestStopFlag
  \/ PollEmpty
  \/ PollFails
  \/ PollReady
  \/ ReadFails
  \/ Read
  \/ Broadcast

(* deinitialize: the flag, then the join of a thread that was started.     *)
FlagForgotten == stopFlag
FlagRaised == TRUE
RaiseStopFlag ==
  /\ stopFlag' = FlagRaised
  /\ UNCHANGED <<timerHandler, armed, result, expirations, sync, expiries,
                 broadcasts, lateCasts>>

SyncJoined == sync \in {"none", "ended"}
-----------------------------------------------------------------------------
TimerTypeOK ==
  /\ timerHandler \in BOOLEAN
  /\ armed \in BOOLEAN
  /\ result \in BOOLEAN
  /\ expirations \in BOOLEAN
  /\ sync \in {"none", "test", "poll", "read", "cast", "ended"}
  /\ stopFlag \in BOOLEAN
  /\ expiries \in 0..MaxExpiries
  /\ broadcasts \in Nat
  /\ lateCasts \in Nat
  /\ armed => timerHandler
=============================================================================
