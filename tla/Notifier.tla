------------------------------ MODULE Notifier ------------------------------
(***************************************************************************)
(* ResultNotifier (include/ResultNotifier.h, src/ResultNotifier.cpp): the  *)
(* queue that the RADIUS workers put notifications in, the thread that     *)
(* logs them, and the life cycle of both.  A notification is its number in *)
(* the order of the calls and the source it names.                         *)
(***************************************************************************)
EXTENDS Naturals, Sequences

CONSTANTS Sources,   \* host names
          NoSource,  \* the empty string
          MaxNotes   \* bound: calls of provideDataForNotifier

ASSUME NotifierAssumption ==
  /\ NoSource \notin Sources
  /\ MaxNotes \in Nat

Notes == [no : 1..MaxNotes, source : Sources]

VARIABLES sourceId,  \* m_sourceId
          notes,     \* m_queue
          inHand,    \* `data' of the thread, as a sequence of at most one
          notifier,  \* where m_notifierThread is; "none" if not joinable
          noteStop,  \* m_stop
          noted,     \* history: notifications so far
          logged,    \* history: what was logged
          lateLogs   \* history: how much of it after setStop

notifierVars == <<sourceId, notes, inHand, notifier, noteStop, noted, logged,
                  lateLogs>>

NotifierInit ==
  /\ sourceId = NoSource
  /\ notes = <<>>
  /\ inHand = <<>>
  /\ notifier = "none"
  /\ noteStop = FALSE
  /\ noted = 0
  /\ logged = <<>>
  /\ lateLogs = 0
-----------------------------------------------------------------------------
(* initialize: the first source stays, and so does a thread.               *)
LatestSource(s) == s
FirstSource(s) == IF sourceId = NoSource THEN s ELSE sourceId
NotifierInitialize(s) ==
  /\ sourceId' = FirstSource(s)
  /\ notifier' = IF notifier = "none" THEN "test" ELSE notifier
  /\ UNCHANGED <<notes, inHand, noteStop, noted, logged, lateLogs>>

Provide ==
  /\ noted < MaxNotes
  /\ noted' = noted + 1
  /\ notes' = Append(notes, [no |-> noted + 1, source |-> sourceId])
  /\ UNCHANGED <<sourceId, inHand, notifier, noteStop, logged, lateLogs>>

TestNoteStop ==
  /\ notifier = "test"
  /\ notifier' = IF noteStop THEN "ended" ELSE "get"
  /\ UNCHANGED <<sourceId, notes, inHand, noteStop, noted, logged, lateLogs>>

(* m_queue.getObject() returns.                                            *)
GetNote ==
  /\ notifier = "get"
  /\ notes # <<>>
  /\ inHand' = <<Head(notes)>>
  /\ notes' = Tail(notes)
  /\ notifier' = "log"
  /\ UNCHANGED <<sourceId, noteStop, noted, logged, lateLogs>>

LoopLeft == "ended"
NextNote == "test"
LogNote ==
  /\ notifier = "log"
  /\ logged' = logged \o inHand
  /\ lateLogs' = IF noteStop THEN lateLogs + 1 ELSE lateLogs
  /\ inHand' = <<>>
  /\ notifier' = NextNote
  /\ UNCHANGED <<sourceId, notes, noteStop, noted>>

NotifierStep == TestNoteStop \/ GetNote \/ LogNote

(* setStop: nobody is woken.                                               *)
SetStop ==
  /\ noteStop' = TRUE
  /\ UNCHANGED <<sourceId, notes, inHand, notifier, noted, logged, lateLogs>>

(* The thread waits for a notification that may never come.                *)
WaitsForNote == notifier = "get" /\ notes = <<>>
-----------------------------------------------------------------------------
NotifierTypeOK ==
  /\ sourceId \in Sources \cup {NoSource}
  /\ notes \in Seq(Notes)
  /\ inHand \in Seq(Notes)
  /\ inHand # <<>> <=> notifier = "log"
  /\ notifier \in {"none", "test", "get", "log", "ended"}
  /\ noteStop \in BOOLEAN
  /\ noted \in 0..MaxNotes
  /\ logged \in Seq(Notes)
  /\ lateLogs \in Nat
=============================================================================
