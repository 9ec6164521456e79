----------------------------- MODULE MonitorTask -----------------------------
(***************************************************************************)
(* One capture channel of the client: the QThread MonitorTask              *)
(* (src/src/service/monitortask.cpp) with the two RecordTasks it owns      *)
(* (src/src/service/recordtask.cpp), and the calls the UI thread makes on  *)
(* it.  The thread shares the flags below with the UI thread under         *)
(* m_stateMutex (stopRequested is an atomic); everything else is its own.  *)
(* One action of the thread runs from one access of shared state to the    *)
(* next, so the actions interleave exactly where the code releases its     *)
(* mutex.                                                                  *)
(*                                                                         *)
(* Abstracted: pixels, file names, storage roots, the frame rate and the   *)
(* wording of status messages.  Durations are whole elapsed seconds.       *)
(***************************************************************************)
EXTENDS Integers, FiniteSets

CONSTANTS
  SegmentChoices, \* what setSegmentDurationSeconds may be called with
  DefaultSegment, \* the length used when it is called with 0 or less (30)
  AnomalySeconds, \* the length of an anomaly session (10)
  ImageIndices    \* frames of a session saved as images ({0, 10, 20})

ASSUME SegmentsAssumption ==
  /\ SegmentChoices \subseteq Int
  /\ DefaultSegment \in Nat \ {0}

ASSUME AnomalyAssumption ==
  /\ AnomalySeconds \in Nat \ {0}
  /\ ImageIndices \subseteq Nat
  /\ IsFiniteSet(ImageIndices)

VARIABLES
  pc,            \* where the capture thread is
  stopRequested, \* m_stopRequested
  enabled,       \* m_normalRecordingEnabled
  segment,       \* m_segmentDurationSeconds
  pending,       \* m_anomalyPending
  active,        \* m_anomalyActive
  loc,           \* run()'s copies of the shared flags, taken once per frame
  normal,        \* m_normalRecordTask: its writer and the file's age
  anomaly,       \* m_anomalyRecordTask: its writer and the session's rest
  frameIndex,    \* anomalyFrameIndex
  images,        \* anomalyImages, as the frame indices that were saved
  openFailed,    \* a writer could not be opened while handling this frame
  unreported     \* history: files opened less files announced to the UI

shared == <<stopRequested, enabled, segment, pending, active>>
session == <<anomaly, frameIndex, images>>
vars == <<pc, shared, loc, normal, session, openFailed, unreported>>

Segments ==
  {DefaultSegment} \cup {s \in SegmentChoices : s > 0}

(***************************************************************************)
(* RecordTask.  isRecording() is the writer being open; currentVideo is    *)
(* valid exactly then.                                                     *)
(***************************************************************************)
Closed == [open |-> FALSE, seconds |-> 0]
Opened(seconds) == [open |-> TRUE, seconds |-> seconds]
Count(task) == IF task.open THEN 1 ELSE 0

ThreadStates ==
  {"starting", "opening", "loop", "snapshot", "clear", "begin", "activate",
   "record", "flush", "flushNormal", "done"}

Init ==
  /\ pc = "starting"
  /\ stopRequested = FALSE
  /\ enabled \in BOOLEAN
  /\ segment \in Segments
  /\ pending = FALSE
  /\ active = FALSE
  /\ loc = [enabled |-> FALSE, active |-> FALSE, segment |-> DefaultSegment]
  /\ normal = Closed
  /\ anomaly = Closed
  /\ frameIndex = 0
  /\ images = {}
  /\ openFailed = FALSE
  /\ unreported = 0
-----------------------------------------------------------------------------
(***************************************************************************)
(* The capture thread, MonitorTask::run().                                 *)
(***************************************************************************)

\* The first statement of run() forgets a stop() that came before it.
Start ==
  /\ pc = "starting"
  /\ pc' = "opening"
  /\ stopRequested' = FALSE
  /\ UNCHANGED <<enabled, segment, pending, active, loc, normal, session,
                 openFailed, unreported>>

\* A source that cannot be opened ends run() at once.
OpenSource ==
  /\ pc = "opening"
  /\ pc' \in {"loop", "done"}
  /\ UNCHANGED <<shared, loc, normal, session, openFailed, unreported>>

\* Bug: the loop reads on without looking at the flag.
ReadFrameUnchecked ==
  /\ pc = "loop"
  /\ pc' = "snapshot"
  /\ UNCHANGED <<shared, loc, normal, session, openFailed, unreported>>

\* The loop test and the read.  A read without a frame (for a file: also
\* after rewinding) goes straight back to the test.
ReadFrame ==
  /\ pc = "loop"
  /\ ~stopRequested
  /\ pc' = "snapshot"
  /\ UNCHANGED <<shared, loc, normal, session, openFailed, unreported>>

ReadNothing ==
  /\ pc = "loop"
  /\ ~stopRequested
  /\ UNCHANGED vars

LeaveLoop ==
  /\ pc = "loop"
  /\ stopRequested
  /\ pc' = "flush"
  /\ UNCHANGED <<shared, loc, normal, session, openFailed, unreported>>

\* The one locked region that copies the shared state for this frame.
Snapshot ==
  /\ pc = "snapshot"
  /\ loc' = [enabled |-> enabled, active |-> active, segment |-> segment]
  /\ openFailed' = FALSE
  /\ pc' = IF pending /\ ~active THEN "clear" ELSE "record"
  /\ UNCHANGED <<shared, normal, session, unreported>>

\* Bug: the notification is taken, the session not begun.
ClearPendingOnly ==
  /\ pc = "clear"
  /\ pending' = FALSE
  /\ pc' = "record"
  /\ UNCHANGED <<stopRequested, enabled, segment, active, loc, normal,
                 session, openFailed, unreported>>

\* A second locked region takes the notification.
ClearPending ==
  /\ pc = "clear"
  /\ pending' = FALSE
  /\ pc' = IF loc.enabled THEN "begin" ELSE "record"
  /\ UNCHANGED <<stopRequested, enabled, segment, active, loc, normal,
                 session, openFailed, unreported>>

\* The normal file is closed and announced, the anomaly file opened.
BeginAnomaly ==
  /\ pc = "begin"
  /\ normal' = Closed
  /\ \/ /\ anomaly' = Opened(AnomalySeconds)
        /\ unreported' = unreported - Count(normal) + 1
        /\ frameIndex' = 0
        /\ images' = {}
        /\ pc' = "activate"
        /\ UNCHANGED openFailed
     \/ /\ openFailed' = TRUE
        /\ unreported' = unreported - Count(normal)
        /\ pc' = "record"
        /\ UNCHANGED session
  /\ UNCHANGED <<shared, loc>>

\* Bug: this frame is still handled as one outside a session.
ActivateSharedOnly ==
  /\ pc = "activate"
  /\ active' = TRUE
  /\ pc' = "record"
  /\ UNCHANGED <<stopRequested, enabled, segment, pending, loc, normal,
                 session, openFailed, unreported>>

\* Bug: the session is not published.
ActivateLocalOnly ==
  /\ pc = "activate"
  /\ loc' = [loc EXCEPT !.active = TRUE]
  /\ pc' = "record"
  /\ UNCHANGED <<shared, normal, session, openFailed, unreported>>

\* A third locked region publishes the session.
Activate ==
  /\ pc = "activate"
  /\ active' = TRUE
  /\ loc' = [loc EXCEPT !.active = TRUE]
  /\ pc' = "record"
  /\ UNCHANGED <<stopRequested, enabled, segment, pending, normal, session,
                 openFailed, unreported>>

\* A frame past the last image index behaves as any later one.
NextIndex == IF \E i \in ImageIndices : frameIndex <= i
             THEN frameIndex + 1 ELSE frameIndex

\* Bug: the images of this session stay in the list of the next.
EndSessionKeepImages ==
  /\ unreported' = unreported - Count(anomaly)
  /\ anomaly' = Closed
  /\ frameIndex' = 0
  /\ active' = FALSE
  /\ pending' = FALSE
  /\ UNCHANGED images

\* Bug: m_anomalyActive is not reset.
EndSessionStillActive ==
  /\ unreported' = unreported - Count(anomaly)
  /\ anomaly' = Closed
  /\ images' = {}
  /\ frameIndex' = 0
  /\ pending' = FALSE
  /\ UNCHANGED active

\* The end of a session announces it and clears both flags.  The writer is
\* closed first and the flags are cleared under the mutex after that; in
\* between only this thread could tell, as it alone knows the writer, and a
\* notification then is lost either way: refused or cleared.
EndSession ==
  /\ unreported' = unreported - Count(anomaly)
  /\ anomaly' = Closed
  /\ images' = {}
  /\ frameIndex' = 0
  /\ active' = FALSE
  /\ pending' = FALSE

\* A frame of a session: written, perhaps saved as an image (imwrite may
\* fail), and the session ended when its time is over.
RecordAnomaly ==
  /\ pc = "record"
  /\ loc.active
  /\ \/ /\ anomaly.seconds > 0
        /\ images' \in {images, images \cup ({frameIndex} \cap ImageIndices)}
        /\ frameIndex' = NextIndex
        /\ UNCHANGED <<pending, active, anomaly, unreported>>
     \/ /\ anomaly.seconds = 0
        /\ EndSession
  /\ pc' = "loop"
  /\ UNCHANGED <<stopRequested, enabled, segment, loc, normal, openFailed>>

\* Bug: a rotation leaves the next file to the next frame.
StartNormalLater(unannounced) ==
  /\ normal' = IF normal.open THEN Closed ELSE Opened(0)
  /\ unreported' = unannounced + Count(normal')
  /\ UNCHANGED openFailed

\* RecordTask::start on the normal writer: a new file, or a refusal.
StartNormal(unannounced) ==
  \/ /\ normal' = Opened(0)
     /\ unreported' = unannounced + 1
     /\ UNCHANGED openFailed
  \/ /\ normal' = Closed
     /\ unreported' = unannounced
     /\ openFailed' = TRUE

\* Bug: the file is closed without a word to the UI.
StopNormalSilently ==
  /\ normal' = Closed
  /\ UNCHANGED <<unreported, openFailed>>

\* Bug: nothing is closed.
StopNormalNever == UNCHANGED <<normal, unreported, openFailed>>

\* RecordTask::stop on it, and the announcement of the file.
StopNormal ==
  /\ normal' = Closed
  /\ unreported' = unreported - Count(normal)
  /\ UNCHANGED openFailed

\* A frame outside a session: the normal file is started, rotated, stopped
\* or left alone, then the frame is written to it if it is open.
RecordNormal ==
  /\ pc = "record"
  /\ ~loc.active
  /\ \/ /\ loc.enabled
        /\ ~normal.open
        /\ StartNormal(unreported)
     \/ /\ loc.enabled
        /\ normal.open
        /\ normal.seconds >= loc.segment
        /\ StartNormal(unreported - 1)
     \/ /\ ~loc.enabled
        /\ normal.open
        /\ StopNormal
     \/ /\ IF loc.enabled THEN normal.open /\ normal.seconds < loc.segment
                          ELSE ~normal.open
        /\ UNCHANGED <<normal, openFailed, unreported>>
  /\ pc' = "loop"
  /\ UNCHANGED <<shared, loc, session>>

\* After the loop: a session still open is announced, the flags are cleared
\* (closing and clearing are one step here for the same reason).
FlushAnomaly ==
  /\ pc = "flush"
  /\ unreported' = unreported - Count(anomaly)
  /\ anomaly' = Closed
  /\ active' = FALSE
  /\ pending' = FALSE
  /\ pc' = "flushNormal"
  /\ UNCHANGED <<stopRequested, enabled, segment, loc, normal, frameIndex,
                 images, openFailed>>

FlushNormal ==
  /\ pc = "flushNormal"
  /\ StopNormal
  /\ pc' = "done"
  /\ UNCHANGED <<shared, loc, session>>
-----------------------------------------------------------------------------
(***************************************************************************)
(* The UI thread, which may call at any time, and the clock.               *)
(***************************************************************************)
SetRecordingEnabled(on) ==
  /\ enabled' = on
  /\ UNCHANGED <<pc, stopRequested, segment, pending, active, loc, normal,
                 session, openFailed, unreported>>

\* Bug: the duration is taken as it comes.
SetSegmentDurationUnchecked(s) ==
  /\ segment' = s
  /\ UNCHANGED <<pc, stopRequested, enabled, pending, active, loc, normal,
                 session, openFailed, unreported>>

SetSegmentDuration(s) ==
  /\ segment' = IF s > 0 THEN s ELSE DefaultSegment
  /\ UNCHANGED <<pc, stopRequested, enabled, pending, active, loc, normal,
                 session, openFailed, unreported>>

\* Called for a detection result, so after the source was opened; results
\* already queued may still arrive when the thread has ended.
NotifyAnomalyDetected ==
  /\ pc \notin {"starting", "opening"}
  /\ ~active
  /\ ~pending
  /\ pending' = TRUE
  /\ UNCHANGED <<pc, stopRequested, enabled, segment, active, loc, normal,
                 session, openFailed, unreported>>

Stop ==
  /\ stopRequested' = TRUE
  /\ UNCHANGED <<pc, enabled, segment, pending, active, loc, normal,
                 session, openFailed, unreported>>

MaxSegment == CHOOSE m \in Segments : \A s \in Segments : s <= m

\* A second passes.  An age is not counted beyond the longest segment, the
\* rest of a session not below zero.
Tick ==
  /\ \/ normal.open /\ normal.seconds < MaxSegment
     \/ anomaly.open /\ anomaly.seconds > 0
  /\ normal' = IF normal.open /\ normal.seconds < MaxSegment
               THEN [normal EXCEPT !.seconds = @ + 1] ELSE normal
  /\ anomaly' = IF anomaly.open /\ anomaly.seconds > 0
                THEN [anomaly EXCEPT !.seconds = @ - 1] ELSE anomaly
  /\ UNCHANGED <<pc, shared, loc, frameIndex, images, openFailed, unreported>>

\* What the operating system alone drives: everything the thread does but
\* getting a frame, which the source decides.
ThreadStep ==
  \/ Start \/ OpenSource \/ LeaveLoop
  \/ Snapshot \/ ClearPending \/ BeginAnomaly \/ Activate
  \/ RecordAnomaly \/ RecordNormal \/ FlushAnomaly \/ FlushNormal

Next ==
  \/ ThreadStep
  \/ ReadFrame
  \/ ReadNothing
  \/ \E on \in BOOLEAN : SetRecordingEnabled(on)
  \/ \E s \in SegmentChoices : SetSegmentDuration(s)
  \/ NotifyAnomalyDetected
  \/ Stop
  \/ Tick

Spec == Init /\ [][Next]_vars

\* The operating system runs the thread; the source may stop delivering.
ScheduledSpec == Spec /\ WF_vars(ThreadStep)

\* The source also keeps delivering frames, and time passes.  The user owes
\* nothing in either specification.
FramesAndTime == WF_vars(ReadFrame) /\ WF_vars(Tick)
FairSpec == ScheduledSpec /\ FramesAndTime
-----------------------------------------------------------------------------
TypeOK ==
  /\ pc \in ThreadStates
  /\ stopRequested \in BOOLEAN
  /\ enabled \in BOOLEAN
  /\ segment \in Segments
  /\ pending \in BOOLEAN
  /\ active \in BOOLEAN
  /\ loc \in [enabled : BOOLEAN, active : BOOLEAN, segment : Segments]
  /\ normal \in [open : BOOLEAN, seconds : Nat]
  /\ anomaly \in [open : BOOLEAN, seconds : Nat]
  /\ frameIndex \in Nat
  /\ images \in SUBSET ImageIndices
  /\ openFailed \in BOOLEAN
  /\ unreported \in Int

\* An anomaly stops the normal recording: the two writers of a channel are
\* never open at once, whatever the UI toggles between the locked regions.
WriterExclusion == ~(normal.open /\ anomaly.open)

\* m_anomalyActive says what the anomaly writer does, except between opening or
\* closing the file and the locked region that publishes it (of the two, only
\* the first is a state of its own here, see EndSession).
SessionFlag == pc # "activate" => active = anomaly.open

\* Every file opened is either open or was announced to the UI, which is what
\* puts it into the database: none is forgotten, none announced twice.
FilesAccounted == unreported = Count(normal) + Count(anomaly)

\* The images of a session are frames of that session.
SessionImages ==
  /\ \A i \in images : i < frameIndex
  /\ images # {} => anomaly.open \/ pc \in {"flushNormal", "done"}

\* Switching between normal files and sessions loses no frame: with recording
\* enabled and no writer refused, the frame reaches an open file.
NoRecordingGap ==
  [][pc = "record" /\ pc' = "loop" /\ loc.enabled /\ ~openFailed' =>
       IF loc.active THEN anomaly.open ELSE normal'.open]_vars

\* While frames come, a session ends, with or without further detections.
SessionEnds == FramesAndTime => (active ~> ~active)

\* While frames come, switching recording off closes the normal file.
DisablingCloses ==
  FramesAndTime => (~enabled ~> (enabled \/ ~normal.open))

\* While frames come, and with recording on throughout, a notification leads
\* to a session unless the file is refused or the channel is stopped.
EventStartsSession ==
  FramesAndTime /\ []enabled => (pending ~> \/ active \/ openFailed
                                            \/ stopRequested \/ pc = "done")

\* A stop() seen by the loop ends the thread, frames or no frames.
StopEndsThread == (stopRequested /\ pc # "starting") ~> pc = "done"

\* The document's promise: setting the flag makes the thread leave its loop.
StopAlwaysEndsThread == stopRequested ~> pc = "done"

\* The plan's promise: a detection made while recording is on is not lost.
EventNotLost ==
  (pending /\ enabled) ~> \/ active \/ ~enabled \/ openFailed
                          \/ stopRequested \/ pc = "done"
=============================================================================
