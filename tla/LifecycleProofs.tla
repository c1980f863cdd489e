--------------------------- MODULE LifecycleProofs ---------------------------
(***************************************************************************)
(* The safety of the sync thread, of the notifier and of the life cycle    *)
(* around them, for any number of expiries, notifications and buffers.     *)
(***************************************************************************)
EXTENDS Lifecycle, TLAPS

(* The sync thread: a thread that reads has an expiry to read, the         *)
(* broadcast under way has one of its own, and a thread that has broadcast *)
(* after the stop is past its round.                                       *)
TimerInv ==
  /\ TimerTypeOK
  /\ armed <=> sync # "none"
  /\ result => sync # "none" \/ (timerHandler /\ ~armed)
  /\ sync = "read" => expirations
  /\ broadcasts + (IF expirations THEN 1 ELSE 0) + (IF sync = "cast" THEN 1 ELSE 0)
       <= expiries
  /\ lateCasts = 0 \/ (lateCasts = 1 /\ stopFlag /\ sync \in {"test", "ended"})

(* The notifier: a thread that has logged after the stop is past its round.*)
NotifierInv ==
  /\ NotifierTypeOK
  /\ NotesKept
  /\ lateLogs = 0 \/ (lateLogs = 1 /\ noteStop /\ notifier \in {"test", "ended"})

(* Main: what has not been set up yet is not there.                        *)
MainInv ==
  /\ phase \in {"nic", "notifier", "timer", "run", "syncjoin", "workers",
                "deinit", "notifierjoin", "pool", "spin", "exited"}
  /\ home \in 0..PoolSize
  /\ retries \in 0..MaxRetries
  /\ IF phase \in {"nic", "notifier", "exited"}
     THEN notifier = "none"
     ELSE notifier # "none" /\ sourceId \in Sources
  /\ phase \in {"nic", "notifier", "timer", "exited"} =>
       sync = "none" /\ ~timerHandler

ToldInv == told \in BOOLEAN

Inv == TimerInv /\ NotifierInv /\ MainInv /\ ToldInv
-----------------------------------------------------------------------------
LEMMA OrderOfSetUp ==
  /\ SetUp[1] = "nic"
  /\ After("nic") = "notifier"
  /\ After("notifier") = "timer"
  /\ After("timer") = "run"
BY DEF SetUp, After

LEMMA InvInit == Init => Inv
<1> SUFFICES ASSUME Init PROVE Inv
  OBVIOUS
<1> USE TimerAssumption, NotifierAssumption, LifecycleAssumption DEF Init
<1>1. TimerInv
  <2>1. /\ armed = FALSE /\ result = FALSE /\ expirations = FALSE
        /\ timerHandler = FALSE /\ stopFlag = FALSE /\ sync = "none"
    BY DEF TimerInit
  <2>2. expiries = 0 /\ broadcasts = 0 /\ lateCasts = 0
    BY DEF TimerInit
  <2>3. TimerTypeOK
    <3>1. /\ expiries \in 0..MaxExpiries
          /\ broadcasts \in Nat
          /\ lateCasts \in Nat
      BY <2>2
    <3> QED BY <2>1, <3>1, Zenon DEF TimerTypeOK
  <2> QED BY <2>1, <2>2, <2>3 DEF TimerInv
<1>2. NotifierTypeOK
  <2>1. /\ <<>> \in Seq(Notes)
        /\ noted \in 0..MaxNotes
        /\ lateLogs \in Nat
    BY DEF NotifierInit
  <2> QED BY <2>1, Zenon DEF NotifierInit, NotifierTypeOK
<1>3. NotesKept
  <2>1. [i \in 1..0 |-> [no |-> i, source |-> NoSource]] = <<>>
    OBVIOUS
  <2> QED BY <2>1 DEF NotifierInit, NotesKept
<1>4. MainInv
  BY OrderOfSetUp DEF TimerInit, NotifierInit, MainInv, MaxRetries
<1>5. ToldInv
  BY DEF ToldInv
<1> QED BY <1>1, <1>2, <1>3, <1>4, <1>5 DEF NotifierInit, NotifierInv, Inv
-----------------------------------------------------------------------------
LEMMA TimerSteps ==
  ASSUME TimerInv, TimerInitialize \/ Expire \/ SyncStep \/ RaiseStopFlag
  PROVE  TimerInv'
<1> USE TimerAssumption DEF TimerInv, TimerTypeOK, At
<1>1. CASE TimerInitialize
  <2>1. UNCHANGED <<expirations, stopFlag, expiries, broadcasts, lateCasts>>
    BY <1>1 DEF TimerInitialize
  <2>2. CASE Created
    BY <2>1, <2>2 DEF Created
  <2>3. CASE CreateFails
    BY <2>1, <2>3 DEF CreateFails
  <2>4. CASE ChargeFails
    BY <2>1, <2>4 DEF ChargeFails, HandlerStored
  <2>5. CASE Charged
    BY <2>1, <2>5 DEF Charged, HandlerStored, ThreadStarted
  <2> QED BY <1>1, <2>2, <2>3, <2>4, <2>5 DEF TimerInitialize
<1>2. CASE Expire
  BY <1>2 DEF Expire
<1>3. CASE RaiseStopFlag
  BY <1>3 DEF RaiseStopFlag, FlagRaised
<1>4. CASE TestStopFlag
  BY <1>4 DEF TestStopFlag
<1>5. CASE PollEmpty \/ PollFails \/ PollReady
  BY <1>5 DEF PollEmpty, PollFails, PollReady, Continues
<1>6. CASE ReadFails
  BY <1>6 DEF ReadFails, Continues
<1>7. CASE Read
  <2>1. /\ sync = "read" /\ sync' = "cast" /\ expirations /\ expirations' = FALSE
        /\ UNCHANGED <<timerHandler, armed, result, stopFlag, expiries, broadcasts,
                       lateCasts>>
    BY <1>7 DEF Read, NothingToRead
  <2>2. TimerTypeOK'
    BY <2>1
  <2>3. broadcasts' + (IF expirations' THEN 1 ELSE 0) + (IF sync' = "cast" THEN 1 ELSE 0)
          <= expiries'
    <3>1. broadcasts + 1 <= expiries
      BY <2>1
    <3> QED BY <2>1, <3>1
  <2> QED BY <2>1, <2>2, <2>3
<1>8. CASE Broadcast
  BY <1>8 DEF Broadcast, NextRound
<1> QED BY <1>1, <1>2, <1>3, <1>4, <1>5, <1>6, <1>7, <1>8 DEF SyncStep

LEMMA TimerStutters ==
  ASSUME TimerInv, UNCHANGED timerVars
  PROVE  TimerInv'
BY DEF TimerInv, TimerTypeOK, timerVars
-----------------------------------------------------------------------------
(* What was reported so far.                                               *)
Reported(n, s) == [i \in 1..n |-> [no |-> i, source |-> s]]

LEMMA OneMoreReported ==
  ASSUME NEW n \in Nat, NEW s
  PROVE  Reported(n + 1, s) = Append(Reported(n, s), [no |-> n + 1, source |-> s])
BY DEF Reported

LEMMA NotifierSteps ==
  ASSUME NotifierInv,
         \/ \E s \in Sources : NotifierInitialize(s)
         \/ Provide /\ sourceId \in Sources
         \/ NotifierStep
         \/ SetStop
  PROVE  NotifierInv'
<1> USE NotifierAssumption DEF NotifierInv
<1>0. /\ notes \in Seq(Notes) /\ inHand \in Seq(Notes) /\ logged \in Seq(Notes)
      /\ noted \in Nat
  BY DEF NotifierTypeOK
<1>1. CASE \E s \in Sources : NotifierInitialize(s)
  <2>1. NotifierTypeOK'
    BY <1>1 DEF NotifierInitialize, NotifierTypeOK, FirstSource
  <2>2. NotesKept'
    <3>1. noted = 0 \/ sourceId' = sourceId
      BY <1>1, <1>0 DEF NotifierInitialize, FirstSource, NotesKept
    <3>2. CASE noted = 0
      <4>1. Reported(0, sourceId) = <<>> /\ Reported(0, sourceId') = <<>>
        BY DEF Reported
      <4> QED BY <1>1, <3>2, <4>1 DEF NotesKept, Reported, NotifierInitialize
    <3>3. CASE sourceId' = sourceId
      BY <1>1, <3>3 DEF NotesKept, NotifierInitialize
    <3> QED BY <3>1, <3>2, <3>3
  <2> QED BY <1>1, <2>1, <2>2 DEF NotifierInitialize
<1>2. CASE Provide /\ sourceId \in Sources
  <2> DEFINE x == [no |-> noted + 1, source |-> sourceId]
  <2>1. x \in Notes
    BY <1>2 DEF Provide, Notes, NotifierTypeOK
  <2>2. NotifierTypeOK'
    BY <1>2, <2>1 DEF Provide, NotifierTypeOK
  <2>3. logged \o inHand \o Append(notes, x) = Append(logged \o inHand \o notes, x)
    BY <1>0, <2>1, SMTT(30)
  <2>4. logged \o inHand \o notes = Reported(noted, sourceId)
    BY DEF NotesKept, Reported
  <2>5. Append(Reported(noted, sourceId), x) = Reported(noted + 1, sourceId)
    BY <1>0, OneMoreReported
  <2>6. NotesKept'
    BY <1>2, <2>3, <2>4, <2>5 DEF Provide, NotesKept, Reported
  <2> QED BY <1>2, <2>2, <2>6 DEF Provide
<1>3. CASE TestNoteStop \/ SetStop
  BY <1>3 DEF TestNoteStop, SetStop, NotifierTypeOK, NotesKept
<1>4. CASE GetNote
  <2>1. inHand = <<>> /\ Head(notes) \in Notes /\ Tail(notes) \in Seq(Notes)
    BY <1>4, <1>0 DEF GetNote, NotifierTypeOK
  <2>2. NotifierTypeOK'
    BY <1>4, <2>1 DEF GetNote, NotifierTypeOK
  <2>3. logged \o <<Head(notes)>> \o Tail(notes) = logged \o inHand \o notes
    <3>1. logged \o inHand = logged
      BY <1>0, <2>1
    <3>2. <<Head(notes)>> \o Tail(notes) = notes
      BY <1>4, <1>0 DEF GetNote
    <3>3. logged \o <<Head(notes)>> \o Tail(notes)
            = logged \o (<<Head(notes)>> \o Tail(notes))
      BY <1>0, <2>1
    <3> QED BY <3>1, <3>2, <3>3
  <2>4. NotesKept'
    BY <1>4, <2>3 DEF GetNote, NotesKept
  <2> QED BY <1>4, <2>2, <2>4 DEF GetNote
<1>5. CASE LogNote
  <2>1. NotifierTypeOK'
    BY <1>5, <1>0 DEF LogNote, NextNote, NotifierTypeOK
  <2>2. (logged \o inHand) \o <<>> = logged \o inHand
    BY <1>0
  <2>3. NotesKept'
    BY <1>5, <2>2 DEF LogNote, NotesKept
  <2> QED BY <1>5, <2>1, <2>3 DEF LogNote, NextNote, NotifierTypeOK
<1> QED BY <1>1, <1>2, <1>3, <1>4, <1>5 DEF NotifierStep

LEMMA NotifierStutters ==
  ASSUME NotifierInv, UNCHANGED notifierVars
  PROVE  NotifierInv'
BY DEF NotifierInv, NotifierTypeOK, NotesKept, notifierVars
-----------------------------------------------------------------------------
LEMMA ToldStep ==
  ASSUME ToldInv, [Next]_vars
  PROVE  ToldInv'
<1>1. told' = told \/ told' = TRUE
  BY Zenon DEF Next, Main, Teardown, OpenNIC, StartNotifier, StartTimer, Retry, Lend,
     Report, GiveBack, TellWorkers, BeginEnd, JoinSync, JoinWorkers, DeinitNotifier,
     JoinNotifier, ClearPool, Sync, Note, vars
<1> QED BY <1>1, Zenon DEF ToldInv

LEMMA InvStep ==
  ASSUME Inv, [Next]_vars
  PROVE  Inv'
<1> USE TimerAssumption, NotifierAssumption, LifecycleAssumption DEF Inv
<1>0. ToldInv'
  BY ToldStep
<1> USE <1>0
<1>1. CASE OpenNIC
  <2>1. MainInv'
    BY <1>1, OrderOfSetUp DEF OpenNIC, MainInv, timerVars, notifierVars
  <2> QED BY <1>1, <2>1, TimerStutters, NotifierStutters DEF OpenNIC
<1>2. CASE StartNotifier
  <2>1. MainInv'
    BY <1>2, OrderOfSetUp DEF StartNotifier, MainInv, NotifierInitialize, FirstSource,
       NotifierInv, NotifierTypeOK, timerVars
  <2> QED BY <1>2, <2>1, TimerStutters, NotifierSteps DEF StartNotifier
<1>3. CASE StartTimer
  <2>1. MainInv'
    BY <1>3, OrderOfSetUp DEF StartTimer, MainInv, notifierVars
  <2> QED BY <1>3, <2>1, TimerSteps, NotifierStutters DEF StartTimer
<1>4. CASE Retry
  <2>1. CASE TimerInitialize /\ UNCHANGED notifierVars
    <3>1. MainInv'
      BY <1>4, <2>1 DEF Retry, MaxRetries, MainInv, notifierVars
    <3> QED BY <2>1, <3>1, TimerSteps, NotifierStutters
  <2>2. CASE (\E s \in Sources : NotifierInitialize(s)) /\ UNCHANGED timerVars
    <3>1. MainInv'
      BY <1>4, <2>2 DEF Retry, MaxRetries, MainInv, timerVars, NotifierInitialize,
         FirstSource, NotifierInv, NotifierTypeOK
    <3> QED BY <2>2, <3>1, TimerStutters, NotifierSteps
  <2> QED BY <1>4, <2>1, <2>2 DEF Retry
<1>5. CASE \/ Lend \/ GiveBack \/ TellWorkers
          \/ JoinSync \/ JoinWorkers \/ JoinNotifier \/ ClearPool
  <2>1. MainInv' /\ UNCHANGED timerVars /\ UNCHANGED notifierVars
    BY <1>5 DEF Lend, GiveBack, TellWorkers, JoinSync, JoinWorkers, JoinNotifier,
       ClearPool, WorkersRun, Out, MainInv, timerVars, notifierVars
  <2> QED BY <2>1, TimerStutters, NotifierStutters
<1>6. CASE Report
  <2>1. sourceId \in Sources
    BY <1>6 DEF Report, WorkersRun, MainInv
  <2>2. MainInv'
    BY <1>6 DEF Report, MainInv, Provide, timerVars
  <2> QED BY <1>6, <2>1, <2>2, TimerStutters, NotifierSteps DEF Report
<1>7. CASE BeginEnd
  <2>1. MainInv'
    BY <1>7 DEF BeginEnd, MainInv, RaiseStopFlag, notifierVars
  <2> QED BY <1>7, <2>1, TimerSteps, NotifierStutters DEF BeginEnd
<1>8. CASE DeinitNotifier
  <2>1. MainInv'
    BY <1>8 DEF DeinitNotifier, MainInv, SetStop, timerVars
  <2> QED BY <1>8, <2>1, TimerStutters, NotifierSteps DEF DeinitNotifier
<1>9. CASE Sync(Expire) \/ Sync(SyncStep)
  <2>1. timerHandler' = timerHandler /\ (sync = "none" => sync' = "none")
    BY <1>9 DEF Sync, Expire, SyncStep, TestStopFlag, PollEmpty, PollFails, PollReady,
       ReadFails, Read, Broadcast, At, TimerInv
  <2>2. MainInv'
    BY <1>9, <2>1 DEF Sync, MainInv, notifierVars
  <2> QED BY <1>9, <2>2, TimerSteps, NotifierStutters DEF Sync
<1>10. CASE Note(NotifierStep)
  <2>1. sourceId' = sourceId /\ notifier # "none" /\ notifier' # "none"
    BY <1>10 DEF Note, NotifierStep, TestNoteStop, GetNote, LogNote, NextNote
  <2>2. MainInv'
    BY <1>10, <2>1 DEF Note, MainInv, timerVars
  <2> QED BY <1>10, <2>2, TimerStutters, NotifierSteps DEF Note
<1>11. CASE UNCHANGED vars
  BY <1>11, TimerStutters, NotifierStutters DEF vars, MainInv, timerVars, notifierVars
<1> QED BY <1>1, <1>2, <1>3, <1>4, <1>5, <1>6, <1>7, <1>8, <1>9, <1>10, <1>11
        DEF Next, Main, Teardown

LEMMA Invariant == Spec => []Inv
BY InvInit, InvStep, PTL DEF Spec

(* Every variable has its type, for any number of expiries, notifications  *)
(* and buffers (PacketDispatcher, ResultNotifier, main.cpp).               *)
THEOREM TypeCorrect == Spec => []TypeOK
<1>1. Inv => TypeOK
  BY DEF Inv, TimerInv, NotifierInv, MainInv, ToldInv, TypeOK
<1> QED BY <1>1, Invariant, PTL

(* main only exits, in NIC::initialize or after it, before a thread was    *)
(* started.                                                                *)
THEOREM NoThreadAtExit == Spec => []ExitsWithoutThreads
<1>1. Inv => ExitsWithoutThreads
  BY DEF Inv, MainInv, ExitsWithoutThreads
<1> QED BY <1>1, Invariant, PTL

(* The notifier's queue and its thread lose, repeat and reorder nothing,   *)
(* and a second initialize does not rename the source.                     *)
THEOREM NothingLost == Spec => []NotesKept
<1>1. Inv => NotesKept
  BY DEF Inv, NotifierInv
<1> QED BY <1>1, Invariant, PTL

(* initialize returns true without a sync thread only after an earlier     *)
(* call that created the timer and could not charge it.                    *)
THEOREM SyncRuns == Spec => []TrueMeansSync
<1>1. Inv => TrueMeansSync
  BY DEF Inv, TimerInv, TrueMeansSync
<1> QED BY <1>1, Invariant, PTL

(* syncThread broadcasts SYNC_TIMEOUT at most once for an expiry.          *)
THEOREM NoUncalledBroadcast == Spec => []BroadcastsFollowExpiries
<1>1. Inv => BroadcastsFollowExpiries
  BY DEF Inv, TimerInv, TimerTypeOK, BroadcastsFollowExpiries
<1> QED BY <1>1, Invariant, PTL

(* After the stop flag of syncThread, or of notifierThread, was raised,    *)
(* the thread broadcasts, or logs, at most once more.                      *)
THEOREM StopsSoon == Spec => []StopsWithinARound
<1>1. Inv => StopsWithinARound
  BY DEF Inv, TimerInv, NotifierInv, StopsWithinARound
<1> QED BY <1>1, Invariant, PTL
=============================================================================
