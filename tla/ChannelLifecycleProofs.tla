----------------------- MODULE ChannelLifecycleProofs ------------------------
(***************************************************************************)
(* What the teardown of the monitor page guarantees for any number of      *)
(* channels: a capture thread never finds its DetectTask gone, no thread   *)
(* object is deleted under its thread as long as sources and detector are  *)
(* prompt, and once all channels are stopped nothing is left.              *)
(***************************************************************************)
EXTENDS ChannelLifecycle, TLAPS

\* The order in which the parts of a channel are taken down: the MonitorTask,
\* then quit(), then the DetectTask.  What was taken down stays so, also
\* after an abort.
TakenDownInOrder ==
  /\ \A c \in Channels :
       /\ detect[c] \in {"finished", "absent"} => quitFlag[c]
       /\ quitFlag[c] => capture[c] = "absent"
  /\ stage \in {"quitDetect", "waitDetect"} => capture[current] = "absent"
  /\ stage = "waitDetect" => quitFlag[current]

\* The second stop() finds run() begun, so that nothing forgets it.
SecondStopHeard ==
  stage = "waitAgain" =>
    /\ capture[current] \in {"opening", "loop", "reading", "finished"}
    /\ stopFlag[current]

\* The channels are stopped one after the other.
EarlierGone ==
  /\ stage = "stopped" => current = NumChannels
  /\ \A c \in Channels :
       c < current \/ stage = "stopped" =>
         capture[c] = "absent" /\ detect[c] = "absent"

\* The inductive invariant.
IInv == TypeOK /\ TakenDownInOrder /\ SecondStopHeard /\ EarlierGone

\* TypeOK without and with the Booleans: a solver that handles the numbers
\* handles no Boolean functions beside them.
TypeFlags ==
  /\ stopFlag \in [Channels -> BOOLEAN]
  /\ quitFlag \in [Channels -> BOOLEAN]

TypeStates ==
  /\ stage \in {"running", "next", "waitTask", "waitAgain", "quitDetect",
                "waitDetect", "stopped", "aborted"}
  /\ current \in Channels
  /\ capture \in [Channels -> {"starting", "opening", "loop", "reading",
                               "finished", "absent"}]
  /\ detect \in [Channels -> {"events", "busy", "finished", "absent"}]

\* The type invariant by its parts.
LEMMA TypeParts == TypeOK <=> TypeFlags /\ TypeStates
BY Zenon DEF TypeOK, TypeFlags, TypeStates

\* All channels run, and none has been asked to stop.
LEMMA InitIInv == Init => IInv
<1> SUFFICES ASSUME Init PROVE IInv
  OBVIOUS
<1>1. TypeFlags
  BY Zenon DEF Init, TypeFlags
<1>2. TypeStates
  BY LifecycleAssumption DEF Init, TypeStates, Channels
<1>3. TakenDownInOrder /\ SecondStopHeard /\ EarlierGone
  BY LifecycleAssumption
     DEF Init, TakenDownInOrder, SecondStopHeard, EarlierGone, Channels
<1> QED
  BY <1>1, <1>2, <1>3, TypeParts DEF IInv
-----------------------------------------------------------------------------
(***************************************************************************)
(* The steps, by what they may change.                                     *)
(***************************************************************************)
\* Every step but those of a capture thread leaves the captures alone, and so
\* on: who writes which flag.
LEMMA FlagsStep == TypeFlags /\ [Next]_vars => TypeFlags'
<1> SUFFICES ASSUME TypeFlags, [Next]_vars PROVE TypeFlags'
  OBVIOUS
<1> USE DEF TypeFlags
<1>1. CASE UNCHANGED vars
  BY <1>1, Zenon DEF vars
<1>2. ASSUME NEW c \in Channels, CaptureThread(c) PROVE TypeFlags'
  BY <1>2, Zenon
     DEF CaptureThread, BeginRun, FinishOpen, BeginRead, HandOver, EndRun,
         CaptureMoves
<1>3. ASSUME NEW c \in Channels, DetectThread(c) PROVE TypeFlags'
  BY <1>3, Zenon DEF DetectThread, DetectIdle, DetectQuit
<1>4. CASE StopTask \/ DeleteTask
  BY <1>4, Zenon DEF StopTask, DeleteTask, RequestStop
<1>5. CASE DestroyTask \/ QuitDetect \/ DestroyDetect
  BY <1>5, Zenon DEF DestroyTask, QuitDetect, DestroyDetect
<1> QED
  BY <1>1, <1>2, <1>3, <1>4, <1>5, Zenon DEF Next, Teardown

\* The states of the threads keep their types.
LEMMA StatesStep == TypeStates /\ [Next]_vars => TypeStates'
<1> SUFFICES ASSUME TypeStates, [Next]_vars PROVE TypeStates'
  OBVIOUS
<1> USE DEF TypeStates
<1>1. CASE UNCHANGED vars
  BY <1>1 DEF vars, ui
<1>2. ASSUME NEW c \in Channels, CaptureThread(c) PROVE TypeStates'
  BY <1>2
     DEF CaptureThread, BeginRun, FinishOpen, BeginRead, HandOver, EndRun,
         CaptureMoves, ui
<1>3. ASSUME NEW c \in Channels, DetectThread(c) PROVE TypeStates'
  BY <1>3 DEF DetectThread, DetectIdle, DetectQuit, ui
<1>4. CASE StopTask \/ DeleteTask
  BY <1>4 DEF StopTask, DeleteTask, RequestStop
<1>5. CASE DestroyTask \/ QuitDetect
  BY <1>5 DEF DestroyTask, QuitDetect
<1>6. CASE DestroyDetect
  <2>1. current' \in Channels
    BY <1>6, LifecycleAssumption DEF DestroyDetect, Channels
  <2> QED
    BY <1>6, <2>1 DEF DestroyDetect
<1> QED
  BY <1>1, <1>2, <1>3, <1>4, <1>5, <1>6 DEF Next, Teardown

\* A capture thread moves within its own life, and forgets a stop() only
\* when its run begins.
CaptureMoved(c) ==
  /\ UNCHANGED <<stage, current, quitFlag>>
  /\ capture[c] # "absent"
  /\ capture'[c] \in {"opening", "loop", "reading", "finished"}
  /\ \A d \in Channels \ {c} : /\ capture'[d] = capture[d]
                               /\ stopFlag'[d] = stopFlag[d]
                               /\ detect'[d] = detect[d]
  /\ capture[c] = "starting" \/ stopFlag'[c] = stopFlag[c]
  /\ \/ detect'[c] = detect[c]
     \/ detect[c] = "events" /\ detect'[c] = "busy"

\* What a capture thread can do by itself.
LEMMA CaptureThreadMoves ==
  ASSUME TypeFlags, TypeStates, NEW c \in Channels, CaptureThread(c)
  PROVE  CaptureMoved(c)
<1> USE DEF CaptureMoved, CaptureMoves, ui
<1>1. CASE BeginRun(c)
  <2>1. \A d \in Channels \ {c} : stopFlag'[d] = stopFlag[d]
    BY <1>1, Zenon DEF BeginRun, TypeFlags
  <2> QED
    BY <1>1, <2>1 DEF BeginRun, TypeStates
<1>2. CASE FinishOpen(c)
  BY <1>2 DEF FinishOpen, TypeStates
<1>3. CASE BeginRead(c)
  BY <1>3 DEF BeginRead, TypeStates
<1>4. CASE HandOver(c)
  BY <1>4 DEF HandOver, TypeStates
<1>5. CASE EndRun(c)
  BY <1>5 DEF EndRun, TypeStates
<1> QED
  BY <1>1, <1>2, <1>3, <1>4, <1>5 DEF CaptureThread

\* The order of the teardown is kept by a capture thread.
LEMMA CaptureStep ==
  ASSUME IInv, NEW c \in Channels, CaptureThread(c)
  PROVE  TakenDownInOrder' /\ SecondStopHeard' /\ EarlierGone'
<1>1. TypeFlags /\ TypeStates
  BY TypeParts DEF IInv
<1>2. CaptureMoved(c)
  BY <1>1, CaptureThreadMoves
<1>3. TakenDownInOrder'
  BY <1>1, <1>2 DEF IInv, TakenDownInOrder, CaptureMoved, TypeStates
<1>4. SecondStopHeard'
  BY <1>1, <1>2 DEF IInv, SecondStopHeard, CaptureMoved, TypeStates
<1>5. EarlierGone'
  BY <1>1, <1>2 DEF IInv, EarlierGone, CaptureMoved, TypeStates
<1> QED
  BY <1>3, <1>4, <1>5

\* A detection thread ends only when it was told to quit.
LEMMA DetectStep ==
  ASSUME IInv, NEW c \in Channels, DetectThread(c)
  PROVE  TakenDownInOrder' /\ SecondStopHeard' /\ EarlierGone'
<1> USE DEF DetectThread, DetectIdle, DetectQuit, ui
<1>1. TypeFlags /\ TypeStates
  BY TypeParts DEF IInv
<1>2. UNCHANGED <<stage, current, capture, stopFlag, quitFlag>>
  OBVIOUS
<1>3. detect[c] \in {"events", "busy"}
  OBVIOUS
<1>4. /\ \A d \in Channels \ {c} : detect'[d] = detect[d]
      /\ detect'[c] = "events" \/ detect'[c] = "finished"
  BY <1>1 DEF TypeStates
<1>5. detect'[c] = "finished" => quitFlag[c]
  BY <1>1 DEF TypeStates
<1>6. TakenDownInOrder'
  BY <1>2, <1>4, <1>5 DEF IInv, TakenDownInOrder
<1>7. SecondStopHeard'
  BY <1>2 DEF IInv, SecondStopHeard
<1>8. EarlierGone'
  BY <1>2, <1>3, <1>4 DEF IInv, EarlierGone
<1> QED
  BY <1>6, <1>7, <1>8

\* The UI thread takes the parts of a channel down in order.
LEMMA TeardownStep ==
  ASSUME IInv, StopTask \/ Teardown
  PROVE  TakenDownInOrder' /\ SecondStopHeard' /\ EarlierGone'
<1>1. TypeFlags /\ TypeStates
  BY TypeParts DEF IInv
<1>2. current \in Channels
  BY <1>1 DEF TypeStates
<1> USE DEF IInv, TakenDownInOrder, SecondStopHeard, EarlierGone
<1>3. CASE StopTask
  BY <1>3 DEF StopTask, RequestStop
<1>4. CASE DeleteTask
  <2>1. stopFlag'[current]
    BY <1>1, <1>2, <1>4, Zenon DEF DeleteTask, RequestStop, TypeFlags
  <2> QED
    BY <1>4, <2>1 DEF DeleteTask, RequestStop, CaptureMayOutlast
<1>5. CASE DestroyTask
  <2>1. /\ capture'[current] = "absent"
        /\ \A c \in Channels \ {current} : capture'[c] = capture[c]
    BY <1>1, <1>2, <1>5 DEF DestroyTask, TypeStates
  <2> QED
    BY <1>1, <1>5, <2>1 DEF DestroyTask, TypeStates
<1>6. CASE QuitDetect
  <2>1. /\ quitFlag'[current]
        /\ \A c \in Channels \ {current} : quitFlag'[c] = quitFlag[c]
    BY <1>1, <1>2, <1>6, Zenon DEF QuitDetect, TypeFlags
  <2> QED
    BY <1>6, <2>1 DEF QuitDetect
<1>7. CASE DestroyDetect
  <2>1. /\ detect'[current] = "absent"
        /\ \A c \in Channels \ {current} : detect'[c] = detect[c]
    BY <1>1, <1>2, <1>7 DEF DestroyDetect, TypeStates
  <2>2. UNCHANGED <<capture, stopFlag, quitFlag>> /\ stage = "waitDetect"
    BY <1>7 DEF DestroyDetect
  <2>3. TakenDownInOrder'
    BY <1>7, <2>1, <2>2 DEF DestroyDetect
  <2>4. SecondStopHeard'
    BY <1>7 DEF DestroyDetect
  <2>5. EarlierGone'
    BY <1>2, <1>7, <2>1, <2>2, LifecycleAssumption
       DEF DestroyDetect, Channels
  <2> QED
    BY <2>3, <2>4, <2>5
<1> QED
  BY <1>3, <1>4, <1>5, <1>6, <1>7 DEF Teardown

\* The invariant is kept by every step.
LEMMA IInvStep == IInv /\ [Next]_vars => IInv'
<1> SUFFICES ASSUME IInv, [Next]_vars PROVE IInv'
  OBVIOUS
<1>1. TypeFlags' /\ TypeStates'
  BY TypeParts, FlagsStep, StatesStep DEF IInv
<1>2. TypeOK'
  BY <1>1, Zenon DEF TypeOK, TypeFlags, TypeStates
<1>3. TakenDownInOrder' /\ SecondStopHeard' /\ EarlierGone'
  <2>1. CASE UNCHANGED vars
    BY <2>1
       DEF IInv, vars, ui, TakenDownInOrder, SecondStopHeard, EarlierGone
  <2> QED
    BY <2>1, CaptureStep, DetectStep, TeardownStep DEF Next
<1> QED
  BY <1>2, <1>3 DEF IInv

\* So it holds always.
LEMMA IInvHolds == Spec => []IInv
BY InitIInv, IInvStep, PTL DEF Spec
-----------------------------------------------------------------------------
\* Every part of the page, of the threads and of the flags keeps its type.
THEOREM TypeCorrect == Spec => []TypeOK
BY IInvHolds, PTL DEF IInv

\* A capture thread that can still emit a frame finds the DetectTask its
\* lambda points to (monitorwidget.cpp:357-363), however slow sources
\* and detector are and also when the teardown aborts.
THEOREM FramesFindTheirTask == Spec => []SubmitToLiveTask
<1>1. IInv => SubmitToLiveTask
  BY DEF IInv, TakenDownInOrder, SubmitToLiveTask
<1> QED
  BY <1>1, IInvHolds, PTL

\* Where no call of a source or of the detector outlasts a wait of 1500 ms,
\* stopAllChannels deletes no thread object under its thread: the first wait
\* may be in vain, as run() forgets an early stop(), but not the second.
THEOREM PromptThreadsSurvive ==
  ASSUME ~SlowSource, ~SlowDetector
  PROVE  Spec => []NoDestroyWhileRunning
<1>1. Init => NoDestroyWhileRunning
  BY DEF Init, NoDestroyWhileRunning
<1>2. ASSUME IInv, NoDestroyWhileRunning, [Next]_vars
      PROVE  NoDestroyWhileRunning'
  <2> USE <1>2 DEF NoDestroyWhileRunning
  <2>1. CASE UNCHANGED vars
    BY <2>1 DEF vars, ui
  <2>2. ASSUME NEW c \in Channels, CaptureThread(c) PROVE stage' = stage
    BY <2>2 DEF CaptureThread, BeginRun, FinishOpen, BeginRead, HandOver,
                EndRun, CaptureMoves, ui
  <2>3. ASSUME NEW c \in Channels, DetectThread(c) PROVE stage' = stage
    BY <2>3 DEF DetectThread, DetectIdle, DetectQuit, ui
  <2>4. CASE StopTask \/ DeleteTask \/ QuitDetect
    BY <2>4 DEF StopTask, DeleteTask, QuitDetect
  <2>5. CASE DestroyTask
    BY <2>5 DEF DestroyTask, CaptureMayOutlast, IInv, SecondStopHeard
  <2>6. CASE DestroyDetect
    BY <2>6 DEF DestroyDetect
  <2> QED
    BY <2>1, <2>2, <2>3, <2>4, <2>5, <2>6 DEF Next, Teardown
<1> QED
  BY <1>1, <1>2, IInvHolds, PTL DEF Spec

\* When stopAllChannels is through, the threads and tasks of all channels are
\* gone, not of the last one only.
Stopped ==
  stage = "stopped" =>
    \A c \in Channels : capture[c] = "absent" /\ detect[c] = "absent"

\* stopAllChannels is through with no thread or task left behind.
THEOREM StoppedIsGone == Spec => []Stopped
<1>1. IInv => Stopped
  BY DEF IInv, EarlierGone, Stopped
<1> QED
  BY <1>1, IInvHolds, PTL
=============================================================================
