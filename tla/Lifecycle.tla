------------------------------ MODULE Lifecycle ------------------------------
(***************************************************************************)
(* The life of the process around the traffic: main sets up the NIC, the   *)
(* notifier and the dispatcher one after the other (src/main.cpp), and an  *)
(* owner that ends it takes them down the other way round: it destroys the *)
(* dispatcher, deinitializes the notifier or, as nothing in the program    *)
(* calls that, lets it run, and destroys the NIC.  main itself never       *)
(* leaves its loop.                                                        *)
(*                                                                         *)
(* The workers are known by what they do to the others: they hold buffers  *)
(* of the pool, give them back, and report pairs.  They end when they are  *)
(* told to, by SHUTDOWN, and nothing but an owner tells them.  That they   *)
(* end then, and give back all they hold, is AllReturned and ShutdownEnds  *)
(* of TrafficInspector.                                                    *)
(***************************************************************************)
EXTENDS SyncTimer, Notifier

CONSTANT PoolSize   \* rawPacketPoolSize

ASSUME LifecycleAssumption == PoolSize \in Nat \ {0}

VARIABLES phase,    \* where main is
          home,     \* how many buffers are in the pool
          told,     \* SHUTDOWN was broadcast to the workers
          retries   \* bound: calls of initialize after the first

vars == <<timerVars, notifierVars, phase, home, told, retries>>

(* The order in which main sets its parts up.                              *)
NotifierFirst == <<"notifier", "nic", "timer", "run">>
SetUp == <<"nic", "notifier", "timer", "run">>
After(p) == SetUp[1 + CHOOSE i \in DOMAIN SetUp : SetUp[i] = p]

Init ==
  /\ TimerInit
  /\ NotifierInit
  /\ phase = SetUp[1]
  /\ home = PoolSize
  /\ told = FALSE
  /\ retries = 0
-----------------------------------------------------------------------------
(* NIC::initialize: a socket that cannot be opened makes main exit, an     *)
(* option that cannot be set makes initialize itself exit.                 *)
OpenNIC ==
  /\ phase = "nic"
  /\ phase' \in {After("nic"), "exited"}
  /\ UNCHANGED <<timerVars, notifierVars, home, told, retries>>

StartNotifier ==
  /\ phase = "notifier"
  /\ \E s \in Sources : NotifierInitialize(s)
  /\ phase' = After("notifier")
  /\ UNCHANGED <<timerVars, home, told, retries>>

(* The processors are built, then initialize is called; main goes on       *)
(* whatever it returns.                                                    *)
StartTimer ==
  /\ phase = "timer"
  /\ TimerInitialize
  /\ phase' = After("timer")
  /\ UNCHANGED <<notifierVars, home, told, retries>>

(* An owner calls initialize of either again.                              *)
MaxRetries == 1
Retry ==
  /\ phase = "run"
  /\ retries < MaxRetries
  /\ retries' = retries + 1
  /\ \/ TimerInitialize
        /\ UNCHANGED notifierVars
     \/ (\E s \in Sources : NotifierInitialize(s))
        /\ UNCHANGED timerVars
  /\ UNCHANGED <<phase, home, told>>
-----------------------------------------------------------------------------
WorkersRun == phase \in {"run", "syncjoin", "workers"}
Out == PoolSize - home

(* main takes a buffer for a packet and gives it to a worker.              *)
Lend ==
  /\ phase = "run"
  /\ home > 0
  /\ home' = home - 1
  /\ UNCHANGED <<timerVars, notifierVars, phase, told, retries>>

(* A worker reports a pair of packets it holds.                            *)
Report ==
  /\ WorkersRun
  /\ Out >= 2
  /\ Provide
  /\ UNCHANGED <<timerVars, phase, home, told, retries>>

GiveBack ==
  /\ WorkersRun
  /\ Out > 0
  /\ home' = home + 1
  /\ UNCHANGED <<timerVars, notifierVars, phase, told, retries>>

(* dispatchBroadcast of SHUTDOWN.  Neither ~PacketDispatcher nor           *)
(* ~PacketProcessor does that: an owner has to, before it destroys them.   *)
TellWorkers ==
  /\ phase = "run"
  /\ told' = TRUE
  /\ UNCHANGED <<timerVars, notifierVars, phase, home, retries>>
-----------------------------------------------------------------------------
(* ~PacketDispatcher: deinitialize.                                        *)
BeginEnd ==
  /\ phase = "run"
  /\ RaiseStopFlag
  /\ phase' = "syncjoin"
  /\ UNCHANGED <<notifierVars, home, told, retries>>

JoinSync ==
  /\ phase = "syncjoin"
  /\ SyncJoined
  /\ phase' = "workers"
  /\ UNCHANGED <<timerVars, notifierVars, home, told, retries>>

(* ~PacketProcessor of every leaf joins its threads, and gives back what   *)
(* is left in their queues.                                                *)
JoinWorkers ==
  /\ phase = "workers"
  /\ told /\ Out = 0
  /\ phase' \in {"deinit", "pool"}
  /\ UNCHANGED <<timerVars, notifierVars, home, told, retries>>

DeinitNotifier ==
  /\ phase = "deinit"
  /\ SetStop
  /\ phase' = "notifierjoin"
  /\ UNCHANGED <<timerVars, home, told, retries>>

(* deinitialize of the notifier returns, and ~NIC begins.                  *)
JoinNotifier ==
  /\ phase = "notifierjoin"
  /\ notifier = "ended"
  /\ phase' = "pool"
  /\ UNCHANGED <<timerVars, notifierVars, home, told, retries>>

(* ~ObjectPool takes the lock and clears the container; the deleter of the *)
(* first buffer puts it back, and putObject spins on that same lock.       *)
ClearPool ==
  /\ phase = "pool"
  /\ home > 0
  /\ phase' = "spin"
  /\ UNCHANGED <<timerVars, notifierVars, home, told, retries>>

Sync(A) == A /\ UNCHANGED <<notifierVars, phase, home, told, retries>>
Note(A) == A /\ UNCHANGED <<timerVars, phase, home, told, retries>>

Teardown ==
  JoinSync \/ JoinWorkers \/ DeinitNotifier \/ JoinNotifier \/ ClearPool
Main == OpenNIC \/ StartNotifier \/ StartTimer \/ Teardown

Next ==
  \/ Main
  \/ Retry
  \/ Lend
  \/ Report
  \/ GiveBack
  \/ TellWorkers
  \/ BeginEnd
  \/ Sync(Expire)
  \/ Sync(SyncStep)
  \/ Note(NotifierStep)

(* Every thread keeps running, poll and read do not fail for ever, and     *)
(* workers that were told to end and are joined give back what they hold.  *)
(* Traffic need not arrive, nobody need tell the workers to end, and       *)
(* nobody need leave main's scope.                                         *)
Fairness ==
  /\ WF_vars(Main)
  /\ WF_vars(phase = "workers" /\ told /\ GiveBack)
  /\ WF_vars(Sync(SyncStep))
  /\ SF_vars(Sync(PollReady))
  /\ SF_vars(Sync(Read))
  /\ WF_vars(Note(NotifierStep))

Spec == Init /\ [][Next]_vars /\ Fairness
-----------------------------------------------------------------------------
(* Every variable has its type.                                            *)
TypeOK ==
  /\ TimerTypeOK
  /\ NotifierTypeOK
  /\ phase \in {"nic", "notifier", "timer", "run", "syncjoin", "workers",
                "deinit", "notifierjoin", "pool", "spin", "exited"}
  /\ home \in 0..PoolSize
  /\ told \in BOOLEAN
  /\ retries \in 0..MaxRetries

(* exit() destroys the static ResultNotifier, and destroying a std::thread *)
(* that is joinable terminates the process: main only exits before it has  *)
(* started a thread.                                                       *)
ExitsWithoutThreads == phase = "exited" => notifier = "none" /\ sync = "none"

(* What was reported is logged once, in order, under the source that was   *)
(* given first, or still waits: a second initialize changes nothing.       *)
NotesKept ==
  /\ logged \o inHand \o notes = [i \in 1..noted |-> [no |-> i, source |-> sourceId]]
  /\ noted > 0 => sourceId # NoSource

(* A timer that expires has a sync thread to read it, and when initialize  *)
(* has returned true there is one, except where an earlier call created    *)
(* the timer and could not charge it: true is returned for that one too.   *)
TrueMeansSync ==
  /\ armed <=> sync # "none"
  /\ phase = "run" /\ result => sync # "none" \/ (timerHandler /\ ~armed)

(* The timer's count is not a queue: every broadcast follows an expiry of  *)
(* its own.                                                                *)
BroadcastsFollowExpiries ==
  broadcasts + (IF expirations THEN 1 ELSE 0) <= expiries

(* A loop that is told to stop goes round at most once more: one           *)
(* SYNC_TIMEOUT is broadcast, and one notification logged, after the stop. *)
StopsWithinARound == lateCasts <= 1 /\ lateLogs <= 1

(* An expiry is broadcast in the end, although poll and read may fail, or  *)
(* the thread is told to stop.                                             *)
ExpiryBroadcast == expirations ~> (sync = "cast" \/ stopFlag)

(* What is reported is logged in the end, or the thread is told to stop.   *)
ReportsLogged ==
  \A n \in 1..MaxNotes : noted >= n ~> (Len(logged) >= n \/ noteStop)

(* A teardown comes to rest in one of three places, and stays there: in    *)
(* ~PacketProcessor, if nobody has told the workers to end; joining a      *)
(* notifier that nothing wakes; or in ~ObjectPool, waiting for its own     *)
(* lock.  With the workers told, nothing before the notifier waits for     *)
(* ever.                                                                   *)
TeardownRests ==
  phase = "syncjoin" ~>
    [](\/ phase = "workers" /\ ~told
       \/ phase = "notifierjoin" /\ WaitsForNote
       \/ phase = "spin")
=============================================================================
