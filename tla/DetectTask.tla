----------------------------- MODULE DetectTask ------------------------------
(***************************************************************************)
(* The hand-over of frames from a channel's capture thread to its          *)
(* detection thread, src/src/service/detectask.cpp.  The capture thread    *)
(* runs submitFrame inside its frameReady signal (a lambda connected       *)
(* without a context object, monitorwidget.cpp:357-363); the detection     *)
(* thread runs an event loop that serves the calls posted to it, the UI's  *)
(* setDetectEnable and the capture thread's processLatestFrame, in order.  *)
(*                                                                         *)
(* Abstracted: pixels, the detector and its boxes.  m_hasPendingFrame is   *)
(* m_pendingFrameId being a frame's id.                                    *)
(***************************************************************************)
EXTENDS Integers, Sequences

CONSTANTS
  MaxFrames,  \* bound: frames the channel captures before it is stopped
  MaxCalls    \* bound: calls waiting when the UI posts another

ASSUME BoundsAssumption == MaxFrames \in Nat /\ MaxCalls \in Nat

VARIABLES
  enable,     \* m_detectEnable
  pending,    \* m_pendingFrameId
  scheduled,  \* m_processScheduled
  nextFrame,  \* frameId of MonitorTask::run, the id of the next frame
  capture,    \* capture thread: "idle", or "post" before invokeMethod
  calls,      \* calls posted to the detection thread
  detector,   \* detection thread: "events", "loop" or "detecting"
  taken,      \* the frame processLatestFrame took last
  result      \* the frame sendDetectionResult was last emitted for

mailbox == <<enable, pending, scheduled>>
vars == <<mailbox, nextFrame, capture, calls, detector, taken, result>>

NoFrame == -1
Process == "processLatestFrame"
SetEnable(b) == IF b THEN "enable" ELSE "disable"
Calls == {Process, "enable", "disable"}

Init ==
  /\ enable = FALSE
  /\ pending = NoFrame
  /\ scheduled = FALSE
  /\ nextFrame = 0
  /\ capture = "idle"
  /\ calls = <<>>
  /\ detector = "events"
  /\ taken = NoFrame
  /\ result = NoFrame
-----------------------------------------------------------------------------
(***************************************************************************)
(* The capture thread.                                                     *)
(***************************************************************************)

\* Bug: every frame accepted posts a call.
SubmitFrameAlwaysPosts ==
  /\ capture = "idle"
  /\ nextFrame < MaxFrames
  /\ nextFrame' = nextFrame + 1
  /\ IF enable
     THEN pending' = nextFrame /\ scheduled' = TRUE /\ capture' = "post"
     ELSE UNCHANGED <<pending, scheduled, capture>>
  /\ UNCHANGED <<enable, calls, detector, taken, result>>

\* The locked part of submitFrame.  While detection is off the frame is not
\* kept; otherwise it replaces a waiting one and may need a call posted.
SubmitFrame ==
  /\ capture = "idle"
  /\ nextFrame < MaxFrames
  /\ nextFrame' = nextFrame + 1
  /\ IF enable
     THEN /\ pending' = nextFrame
          /\ scheduled' = TRUE
          /\ capture' = IF scheduled THEN "idle" ELSE "post"
     ELSE UNCHANGED <<pending, scheduled, capture>>
  /\ UNCHANGED <<enable, calls, detector, taken, result>>

\* invokeMethod, after the mutex is released.
PostProcess ==
  /\ capture = "post"
  /\ capture' = "idle"
  /\ calls' = Append(calls, Process)
  /\ UNCHANGED <<mailbox, nextFrame, detector, taken, result>>
-----------------------------------------------------------------------------
(***************************************************************************)
(* The detection thread.                                                   *)
(***************************************************************************)
\* Bug: the waiting frame stays when detection is switched off.
ServeSetDetectEnableKeeping(b) ==
  /\ detector = "events"
  /\ calls # <<>>
  /\ Head(calls) = SetEnable(b)
  /\ calls' = Tail(calls)
  /\ enable' = b
  /\ UNCHANGED <<pending, scheduled, nextFrame, capture, detector, taken,
                 result>>

ServeSetDetectEnable(b) ==
  /\ detector = "events"
  /\ calls # <<>>
  /\ Head(calls) = SetEnable(b)
  /\ calls' = Tail(calls)
  /\ enable' = b
  /\ pending' = IF b THEN pending ELSE NoFrame
  /\ UNCHANGED <<scheduled, nextFrame, capture, detector, taken, result>>

ServeProcess ==
  /\ detector = "events"
  /\ calls # <<>>
  /\ Head(calls) = Process
  /\ calls' = Tail(calls)
  /\ detector' = "loop"
  /\ UNCHANGED <<mailbox, nextFrame, capture, taken, result>>

\* Bug: the frame is copied out and left in the mailbox.
TakeFrameCopy ==
  /\ detector = "loop"
  /\ enable
  /\ pending # NoFrame
  /\ taken' = pending
  /\ detector' = "detecting"
  /\ UNCHANGED <<mailbox, nextFrame, capture, calls, result>>

\* The locked part of processLatestFrame's loop: a frame is taken ...
TakeFrame ==
  /\ detector = "loop"
  /\ enable
  /\ pending # NoFrame
  /\ taken' = pending
  /\ pending' = NoFrame
  /\ detector' = "detecting"
  /\ UNCHANGED <<enable, scheduled, nextFrame, capture, calls, result>>

\* Bug: one frame per call, whatever waits.
LeaveLoopUnchecked ==
  /\ detector = "loop"
  /\ scheduled' = FALSE
  /\ detector' = "events"
  /\ UNCHANGED <<enable, pending, nextFrame, capture, calls, taken, result>>

\* Bug: the flag stays set when the loop is left.
LeaveLoopScheduled ==
  /\ detector = "loop"
  /\ ~enable \/ pending = NoFrame
  /\ detector' = "events"
  /\ UNCHANGED <<mailbox, nextFrame, capture, calls, taken, result>>

\* ... or the loop is left, and the next frame has to post a call again.
LeaveLoop ==
  /\ detector = "loop"
  /\ ~enable \/ pending = NoFrame
  /\ scheduled' = FALSE
  /\ detector' = "events"
  /\ UNCHANGED <<enable, pending, nextFrame, capture, calls, taken, result>>

EmitResult ==
  /\ detector = "detecting"
  /\ result' = taken
  /\ detector' = "loop"
  /\ UNCHANGED <<mailbox, nextFrame, capture, calls, taken>>

\* A frame that cannot be converted is passed over.
SkipFrame ==
  /\ detector = "detecting"
  /\ detector' = "loop"
  /\ UNCHANGED <<mailbox, nextFrame, capture, calls, taken, result>>
-----------------------------------------------------------------------------
\* The UI thread, refreshDetectionTaskEnables.
PostSetDetectEnable(b) ==
  /\ Len(calls) < MaxCalls
  /\ calls' = Append(calls, SetEnable(b))
  /\ UNCHANGED <<mailbox, nextFrame, capture, detector, taken, result>>

Detector ==
  \/ \E b \in BOOLEAN : ServeSetDetectEnable(b)
  \/ ServeProcess
  \/ TakeFrame
  \/ LeaveLoop
  \/ EmitResult
  \/ SkipFrame

Next ==
  \/ SubmitFrame
  \/ PostProcess
  \/ Detector
  \/ \E b \in BOOLEAN : PostSetDetectEnable(b)

Spec == Init /\ [][Next]_vars

\* Both threads are scheduled; no frame is owed and no call of the UI.
FairSpec == Spec /\ WF_vars(PostProcess) /\ WF_vars(Detector)
-----------------------------------------------------------------------------
\* The types; beside the UI's calls at most one call is ever posted.
TypeOK ==
  /\ enable \in BOOLEAN
  /\ pending \in Nat \cup {NoFrame}
  /\ scheduled \in BOOLEAN
  /\ nextFrame \in Nat
  /\ capture \in {"idle", "post"}
  /\ calls \in Seq(Calls)
  /\ Len(calls) <= MaxCalls + 1
  /\ detector \in {"events", "loop", "detecting"}
  /\ taken \in Nat \cup {NoFrame}
  /\ result \in Nat \cup {NoFrame}

Queued == \E i \in 1..Len(calls) : calls[i] = Process

\* m_processScheduled is a promise that somebody will look at the mailbox:
\* the capture thread about to post, a posted call, or the loop running.
\* It is never set without one of them, and never with two.
WakeupToken ==
  /\ scheduled <=> capture = "post" \/ Queued \/ detector # "events"
  /\ ~(capture = "post" /\ (Queued \/ detector # "events"))
  /\ ~(Queued /\ detector # "events")
  /\ \A i, j \in 1..Len(calls) :
       calls[i] = Process /\ calls[j] = Process => i = j

\* No lost wakeup: a frame that waits is going to be looked at.
NoLostWakeup == pending # NoFrame => scheduled

\* Results come out in the order the frames were captured, each once, and
\* the frame that waits is newer than any that was taken.
FrameOrder ==
  /\ result <= taken
  /\ taken < nextFrame
  /\ pending # NoFrame => taken < pending /\ pending < nextFrame

\* A result is newer than the one before it.
ResultsAdvance == [][result' # result => result' > result]_result

\* The hand-over implements the mailbox, including that what waits is taken.
Mailbox == INSTANCE LatestFrame WITH
  FrameIds <- 0..(MaxFrames - 1), on <- enable, slot <- pending,
  taken <- taken

ImplementsMailbox == Mailbox!Spec

\* Once the channel stops capturing, the loop gives the thread back to its
\* event loop, so that a posted setDetectEnable or a quit() takes effect.
EventLoopReturns == detector # "events" ~> detector = "events"
=============================================================================
