-------------------------- MODULE ChannelLifecycle ---------------------------
(***************************************************************************)
(* How the monitor page takes its channels down                            *)
(* (src/src/view/monitorwidget.cpp, stopAllChannels): per channel, one     *)
(* after the other, the capture thread (MonitorTask) is asked to stop,     *)
(* waited for and deleted, then the detection thread is.  A wait is        *)
(* bounded by 1500 ms and its result is not looked at; deleting a QThread  *)
(* that still runs aborts the program.                                     *)
(*                                                                         *)
(* Time is abstracted to when a wait may run out: when the thread it waits *)
(* for has no reason to end, or is inside an operation assumed to be able  *)
(* to take that long.                                                      *)
(***************************************************************************)
EXTENDS Naturals

CONSTANTS
  NumChannels,  \* channels 1..NumChannels, in the order they are stopped (4)
  SlowSource,   \* whether opening or reading a source may outlast a wait
  SlowDetector  \* whether an inference may outlast a wait

ASSUME LifecycleAssumption ==
  /\ NumChannels \in Nat \ {0}
  /\ SlowSource \in BOOLEAN
  /\ SlowDetector \in BOOLEAN

Channels == 1..NumChannels

VARIABLES
  stage,    \* where the UI thread is in stopAllChannels
  current,  \* the channel it is at
  capture,  \* each MonitorTask and its thread
  stopFlag, \* each m_stopRequested
  detect,   \* each detection thread and its DetectTask
  quitFlag  \* whether quit() was called on each detection thread

ui == <<stage, current>>
vars == <<ui, capture, stopFlag, detect, quitFlag>>

Init ==
  /\ stage = "running"
  /\ current = 1
  /\ capture = [c \in Channels |-> "starting"]
  /\ stopFlag = [c \in Channels |-> FALSE]
  /\ detect = [c \in Channels |-> "events"]
  /\ quitFlag = [c \in Channels |-> FALSE]

Alive == stage # "aborted"

CaptureMoves(c, from, to) ==
  /\ Alive
  /\ capture[c] \in from
  /\ capture' = [capture EXCEPT ![c] = to]
  /\ UNCHANGED <<ui, quitFlag>>
-----------------------------------------------------------------------------
(***************************************************************************)
(* The threads of a channel.                                               *)
(***************************************************************************)

\* run() begins, and forgets a stop() that came before.
BeginRun(c) ==
  /\ CaptureMoves(c, {"starting"}, "opening")
  /\ stopFlag' = [stopFlag EXCEPT ![c] = FALSE]
  /\ UNCHANGED detect

\* The source is opened, or run() returns.
FinishOpen(c) ==
  /\ \/ CaptureMoves(c, {"opening"}, "loop")
     \/ CaptureMoves(c, {"opening"}, "finished")
  /\ UNCHANGED <<stopFlag, detect>>

\* The loop test, then a read.
BeginRead(c) ==
  /\ ~stopFlag[c]
  /\ CaptureMoves(c, {"loop"}, "reading")
  /\ UNCHANGED <<stopFlag, detect>>

\* A frame was read and is handed to the DetectTask, which may start work.
HandOver(c) ==
  /\ CaptureMoves(c, {"reading"}, "loop")
  /\ detect' = [detect EXCEPT ![c] = IF @ = "events" THEN "busy" ELSE @]
  /\ UNCHANGED stopFlag

EndRun(c) ==
  /\ stopFlag[c]
  /\ CaptureMoves(c, {"loop"}, "finished")
  /\ UNCHANGED <<stopFlag, detect>>

\* The detection loop finds nothing more and returns to the event loop, ...
DetectIdle(c) ==
  /\ Alive
  /\ detect[c] = "busy"
  /\ detect' = [detect EXCEPT ![c] = "events"]
  /\ UNCHANGED <<ui, capture, stopFlag, quitFlag>>

\* ... which a quit() ends; the DetectTask is deleted with it.
DetectQuit(c) ==
  /\ Alive
  /\ detect[c] = "events"
  /\ quitFlag[c]
  /\ detect' = [detect EXCEPT ![c] = "finished"]
  /\ UNCHANGED <<ui, capture, stopFlag, quitFlag>>
-----------------------------------------------------------------------------
(***************************************************************************)
(* The UI thread, stopAllChannels, stopDetectChannel and ~MonitorTask.     *)
(***************************************************************************)
RequestStop ==
  /\ stopFlag' = [stopFlag EXCEPT ![current] = TRUE]
  /\ UNCHANGED <<current, capture, detect, quitFlag>>

\* Bug: the thread is not waited for before its DetectTask is stopped.
StopTaskNoWait ==
  /\ \/ stage = "running" \/ stage = "next"
  /\ stage' = "quitDetect"
  /\ RequestStop

\* The first stop() of a channel.
StopTask ==
  /\ \/ stage = "running" \/ stage = "next"
  /\ stage' = "waitTask"
  /\ RequestStop

CaptureMayOutlast ==
  \/ capture[current] \in {"loop", "reading"} /\ ~stopFlag[current]
  \/ capture[current] \in {"opening", "reading"} /\ SlowSource

\* Bug: the destructor only waits.
DeleteTaskUnstopped ==
  /\ stage = "waitTask"
  /\ capture[current] = "finished" \/ CaptureMayOutlast
  /\ stage' = "waitAgain"
  /\ UNCHANGED <<current, capture, stopFlag, detect, quitFlag>>

\* wait(1500) has returned; the destructor calls stop() again and waits.
DeleteTask ==
  /\ stage = "waitTask"
  /\ capture[current] = "finished" \/ CaptureMayOutlast
  /\ stage' = "waitAgain"
  /\ RequestStop

\* The destructor's wait has returned too; ~QThread aborts on a live thread.
DestroyTask ==
  /\ stage = "waitAgain"
  /\ IF capture[current] = "finished"
     THEN stage' = "quitDetect"
     ELSE CaptureMayOutlast /\ stage' = "aborted"
  /\ capture' = [capture EXCEPT ![current] = "absent"]
  /\ UNCHANGED <<current, stopFlag, detect, quitFlag>>

\* Bug: the event loop is not told to quit.
QuitDetectForgotten ==
  /\ stage = "quitDetect"
  /\ stage' = "waitDetect"
  /\ UNCHANGED <<current, capture, stopFlag, detect, quitFlag>>

QuitDetect ==
  /\ stage = "quitDetect"
  /\ quitFlag' = [quitFlag EXCEPT ![current] = TRUE]
  /\ stage' = "waitDetect"
  /\ UNCHANGED <<current, capture, stopFlag, detect>>

\* Bug: the loop over the channels runs one too far.
DestroyDetectPastEnd ==
  /\ stage = "waitDetect"
  /\ detect[current] = "finished"
  /\ stage' = "next"
  /\ current' = current + 1
  /\ detect' = [detect EXCEPT ![current] = "absent"]
  /\ UNCHANGED <<capture, stopFlag, quitFlag>>

DestroyDetect ==
  /\ stage = "waitDetect"
  /\ IF detect[current] = "finished"
     THEN IF current = NumChannels
          THEN stage' = "stopped" /\ UNCHANGED current
          ELSE stage' = "next" /\ current' = current + 1
     ELSE /\ detect[current] = "busy" /\ SlowDetector
          /\ stage' = "aborted"
          /\ UNCHANGED current
  /\ detect' = [detect EXCEPT ![current] = "absent"]
  /\ UNCHANGED <<capture, stopFlag, quitFlag>>

CaptureThread(c) ==
  BeginRun(c) \/ FinishOpen(c) \/ BeginRead(c) \/ HandOver(c) \/ EndRun(c)
DetectThread(c) == DetectIdle(c) \/ DetectQuit(c)
Teardown ==
  \/ stage = "next" /\ StopTask
  \/ DeleteTask \/ DestroyTask \/ QuitDetect \/ DestroyDetect

Next ==
  \/ \E c \in Channels : CaptureThread(c) \/ DetectThread(c)
  \/ StopTask
  \/ Teardown

Spec == Init /\ [][Next]_vars

\* All threads are scheduled; whether the page is ever closed is open.
FairSpec ==
  /\ Spec
  /\ \A c \in Channels : WF_vars(CaptureThread(c)) /\ WF_vars(DetectThread(c))
  /\ WF_vars(Teardown)
-----------------------------------------------------------------------------
TypeOK ==
  /\ stage \in {"running", "next", "waitTask", "waitAgain", "quitDetect",
                "waitDetect", "stopped", "aborted"}
  /\ current \in Channels
  /\ capture \in [Channels -> {"starting", "opening", "loop", "reading",
                               "finished", "absent"}]
  /\ stopFlag \in [Channels -> BOOLEAN]
  /\ detect \in [Channels -> {"events", "busy", "finished", "absent"}]
  /\ quitFlag \in [Channels -> BOOLEAN]

\* The rule of the project's own notes: stop, wait until the thread has
\* ended, delete.  A thread object is never deleted under its thread.
NoDestroyWhileRunning == stage # "aborted"

\* A capture thread that can still emit a frame finds its DetectTask alive:
\* the lambda holds a bare pointer.
SubmitToLiveTask ==
  \A c \in Channels :
    capture[c] \notin {"finished", "absent"} =>
      detect[c] \notin {"finished", "absent"}

\* Closing the page ends every thread, although a stop() can be forgotten.
TeardownEnds ==
  stage = "waitTask" ~>
    \A c \in Channels : capture[c] = "absent" /\ detect[c] = "absent"
=============================================================================
