------------------------------ MODULE DetectView ------------------------------
(***************************************************************************)
(* What the monitor page (src/src/view/monitorwidget.cpp) makes of frames  *)
(* and detection results: it shows each channel's latest frame with the    *)
(* boxes it holds for it, and tells each DetectTask whether its channel is *)
(* to be detected.  Three kinds of threads meet here: per channel the      *)
(* capture thread, which hands each frame to the page (queued) and then to *)
(* the DetectTask (at once), and the detection thread, whose results and   *)
(* whose switch are queued too; and the UI thread, which serves its queue  *)
(* between the user's clicks.                                              *)
(*                                                                         *)
(* A DetectTask appears here as the mailbox LatestFrame, which DetectTask  *)
(* implements; that its loop serves the switch only with no frame waiting  *)
(* is left out, which allows more than the code does. Qt keeps one queue   *)
(* of the UI thread; handlers of different channels touch different state, *)
(* so it is split by channel.                                              *)
(* Abstracted: pixels, texts, and boxes, which are the frame they are of.  *)
(***************************************************************************)
EXTENDS Integers, Sequences

CONSTANTS
  Channels,   \* the channels of the page (4)
  MaxLag,     \* kMaxDetectionFrameLag (12)
  MaxFrames,  \* bound: frames each channel captures
  MaxCalls    \* bound: switches on their way to a DetectTask

ASSUME ViewAssumption ==
  /\ Channels # {}
  /\ MaxLag \in Nat
  /\ MaxFrames \in [Channels -> Nat]
  /\ MaxCalls \in Nat

VARIABLES
  detecting, \* m_detecting
  quad,      \* video_layout shows the four channels
  selected,  \* m_selectedChannel
  latest,    \* m_latestFrameIds
  boxes,     \* m_latestDetectionBoxes: the frame they are of, if any
  label,     \* lab_videos: the frame and the boxes painted
  single,    \* lab_video, of the selected channel
  queue,     \* events posted to the page, per channel
  nextFrame, \* frameId of each MonitorTask
  capture,   \* receivers of frameReady that had the frame being handed out
  alarm,     \* notifyAnomalyDetected was called, the session not over
  calls,     \* setDetectEnable calls posted to each DetectTask
  on,        \* m_detectEnable
  slot,      \* the frame that waits in the DetectTask
  busy       \* the frame being detected

page == <<detecting, quad, selected, latest, boxes, label, single>>
tasks == <<calls, on, slot, busy>>
vars == <<page, queue, nextFrame, capture, alarm, tasks>>

NoFrame == -1
FrameIds == Nat \cup {NoFrame}
Placeholder == [frame |-> NoFrame, boxes |-> NoFrame]
Plain(id) == [frame |-> id, boxes |-> NoFrame]
Frame(id) == [kind |-> "frame", id |-> id, found |-> FALSE]
Result(id, found) == [kind |-> "result", id |-> id, found |-> found]

\* The order in which frameReady is connected.
ReceiversSwapped == <<"task", "page">>  \* Bug: the DetectTask comes first.
Receivers == <<"page", "task">>

\* isDetectionInputEnabled.
Wanted(c) == detecting /\ (quad \/ c = selected)

\* composeDisplayFrame.
Compose(c) ==
  IF latest[c] = NoFrame THEN Placeholder
  ELSE [frame |-> latest[c],
        boxes |-> IF detecting THEN boxes[c] ELSE NoFrame]

\* The calls the constructor posts switch off what is off: Init is after them.
\* The code selects channel 0; the channels are alike.
Init ==
  /\ detecting = FALSE
  /\ quad = FALSE
  /\ selected \in Channels
  /\ latest = [c \in Channels |-> NoFrame]
  /\ boxes = [c \in Channels |-> NoFrame]
  /\ label = [c \in Channels |-> Placeholder]
  /\ single = Placeholder
  /\ queue = [c \in Channels |-> <<>>]
  /\ nextFrame = [c \in Channels |-> 0]
  /\ capture = [c \in Channels |-> 0]
  /\ alarm = [c \in Channels |-> FALSE]
  /\ calls = [c \in Channels |-> <<>>]
  /\ on = [c \in Channels |-> FALSE]
  /\ slot = [c \in Channels |-> NoFrame]
  /\ busy = [c \in Channels |-> NoFrame]
-----------------------------------------------------------------------------
(***************************************************************************)
(* The capture thread of a channel: one frame, handed to each receiver.    *)
(***************************************************************************)
HandedOut(c) ==
  IF capture[c] + 1 = Len(Receivers)
  THEN /\ capture' = [capture EXCEPT ![c] = 0]
       /\ nextFrame' = [nextFrame EXCEPT ![c] = @ + 1]
  ELSE /\ capture' = [capture EXCEPT ![c] = @ + 1]
       /\ UNCHANGED nextFrame

PostFrame(c) ==
  /\ nextFrame[c] < MaxFrames[c]
  /\ Receivers[capture[c] + 1] = "page"
  /\ queue' = [queue EXCEPT ![c] = Append(@, Frame(nextFrame[c]))]
  /\ HandedOut(c)
  /\ UNCHANGED <<page, alarm, tasks>>

SubmitFrame(c) ==
  /\ nextFrame[c] < MaxFrames[c]
  /\ Receivers[capture[c] + 1] = "task"
  /\ slot' = [slot EXCEPT ![c] = IF on[c] THEN nextFrame[c] ELSE @]
  /\ HandedOut(c)
  /\ UNCHANGED <<page, queue, alarm, calls, on, busy>>

\* The session an alarm led to is over, or none was begun.
AlarmOver(c) ==
  /\ alarm[c]
  /\ alarm' = [alarm EXCEPT ![c] = FALSE]
  /\ UNCHANGED <<page, queue, nextFrame, capture, tasks>>

(***************************************************************************)
(* The detection thread of a channel.                                      *)
(***************************************************************************)
ServeSwitch(c) ==
  /\ calls[c] # <<>>
  /\ busy[c] = NoFrame
  /\ on' = [on EXCEPT ![c] = Head(calls[c])]
  /\ slot' = [slot EXCEPT ![c] = IF Head(calls[c]) THEN @ ELSE NoFrame]
  /\ calls' = [calls EXCEPT ![c] = Tail(@)]
  /\ UNCHANGED <<page, queue, nextFrame, capture, alarm, busy>>

Take(c) ==
  /\ on[c]
  /\ slot[c] # NoFrame
  /\ busy[c] = NoFrame
  /\ busy' = [busy EXCEPT ![c] = slot[c]]
  /\ slot' = [slot EXCEPT ![c] = NoFrame]
  /\ UNCHANGED <<page, queue, nextFrame, capture, alarm, calls, on>>

PostResult(c) ==
  /\ busy[c] # NoFrame
  /\ \E found \in BOOLEAN :
       queue' = [queue EXCEPT ![c] = Append(@, Result(busy[c], found))]
  /\ busy' = [busy EXCEPT ![c] = NoFrame]
  /\ UNCHANGED <<page, nextFrame, capture, alarm, calls, on, slot>>
-----------------------------------------------------------------------------
(***************************************************************************)
(* The UI thread: events of its queue.                                     *)
(***************************************************************************)
Next1(c, kind) == queue[c] # <<>> /\ Head(queue[c]).kind = kind
Served(c) == queue' = [queue EXCEPT ![c] = Tail(@)]

\* Paint the channel, and the single view if it shows this channel.
Paint(c) ==
  /\ label' = [label EXCEPT ![c] = Compose(c)']
  /\ single' = IF c = selected THEN Compose(c)' ELSE single

OnFrameReady(c) ==
  /\ Next1(c, "frame")
  /\ Served(c)
  /\ latest' = [latest EXCEPT ![c] = Head(queue[c]).id]
  /\ UNCHANGED <<detecting, quad, selected, boxes, nextFrame, capture, alarm,
                 tasks>>
  /\ Paint(c)

\* isDetectionResultExpired.
Expired(c, id) == latest[c] = NoFrame \/ latest[c] - id > MaxLag

\* The boxes replace those held, the recorder is told of any, and painted.
Accept(c, result) ==
  /\ boxes' = [boxes EXCEPT ![c] = IF result.found THEN result.id
                                                   ELSE NoFrame]
  /\ alarm' = [alarm EXCEPT ![c] = @ \/ result.found]
  /\ UNCHANGED <<detecting, quad, selected, latest>>
  /\ Paint(c)

\* Bug: m_detecting is not looked at.
OnDetectResultAlways(c) ==
  /\ Next1(c, "result")
  /\ Served(c)
  /\ IF ~Expired(c, Head(queue[c]).id)
     THEN Accept(c, Head(queue[c]))
     ELSE UNCHANGED <<page, alarm>>
  /\ UNCHANGED <<nextFrame, capture, tasks>>

\* Bug: the recorder is told before the result is found to be too old.
OnDetectResultEarly(c) ==
  /\ Next1(c, "result")
  /\ Served(c)
  /\ IF detecting /\ ~Expired(c, Head(queue[c]).id)
     THEN Accept(c, Head(queue[c]))
     ELSE /\ alarm' = [alarm EXCEPT ![c] = @ \/ Head(queue[c]).found]
          /\ UNCHANGED page
  /\ UNCHANGED <<nextFrame, capture, tasks>>

OnDetectResult(c) ==
  /\ Next1(c, "result")
  /\ Served(c)
  /\ IF detecting /\ ~Expired(c, Head(queue[c]).id)
     THEN Accept(c, Head(queue[c]))
     ELSE UNCHANGED <<page, alarm>>
  /\ UNCHANGED <<nextFrame, capture, tasks>>
-----------------------------------------------------------------------------
(***************************************************************************)
(* The UI thread: clicks.                                                  *)
(***************************************************************************)
Others == <<latest, queue, nextFrame, capture, alarm, on, slot, busy>>
MayCall == \A c \in Channels : Len(calls[c]) < MaxCalls

\* refreshDetectionTaskEnables: every DetectTask is told, and a channel that
\* is not wanted loses its boxes and is painted without.
Refresh ==
  /\ calls' = [c \in Channels |-> Append(calls[c], Wanted(c)')]
  /\ boxes' = [c \in Channels |-> IF Wanted(c)' THEN boxes[c] ELSE NoFrame]
  /\ label' = [c \in Channels |->
                 IF Wanted(c)' \/ latest[c] = NoFrame
                 THEN label[c] ELSE Plain(latest[c])]

\* The part of it that paints the single view.
RefreshSingle ==
  single' = IF Wanted(selected)' \/ latest[selected'] = NoFrame
            THEN single ELSE Plain(latest[selected'])

\* Bug: the DetectTasks are told twice.
SlotDetectToggleTwice ==
  /\ MayCall
  /\ UNCHANGED Others
  /\ detecting' = ~detecting
  /\ UNCHANGED <<quad, selected>>
  /\ boxes' = [c \in Channels |-> IF Wanted(c)' THEN boxes[c] ELSE NoFrame]
  /\ calls' = [c \in Channels |->
                 Append(Append(calls[c], Wanted(c)'), Wanted(c)')]
  /\ label' = [c \in Channels |-> Compose(c)']
  /\ single' = Compose(selected)'

SlotDetectToggle ==
  /\ MayCall
  /\ UNCHANGED Others
  /\ detecting' = ~detecting
  /\ UNCHANGED <<quad, selected>>
  /\ Refresh
  /\ RefreshSingle

\* Bug: the single view keeps the picture of the channel before.
SelectChannelUnpainted(c) ==
  /\ MayCall
  /\ UNCHANGED Others
  /\ selected' = c
  /\ quad' = FALSE
  /\ UNCHANGED detecting
  /\ Refresh
  /\ RefreshSingle

\* select_channel, and with the channel already selected swtich_to_channel1.
SelectChannel(c) ==
  /\ MayCall
  /\ UNCHANGED Others
  /\ selected' = c
  /\ quad' = FALSE
  /\ UNCHANGED detecting
  /\ Refresh
  /\ single' = Compose(selected)'

\* Bug: the DetectTasks are not told.
SwitchToQuadUntold ==
  /\ MayCall
  /\ UNCHANGED Others
  /\ quad' = TRUE
  /\ UNCHANGED <<detecting, selected, boxes, label, single, calls>>

\* swtich_to_channel4.
SwitchToQuad ==
  /\ MayCall
  /\ UNCHANGED Others
  /\ quad' = TRUE
  /\ UNCHANGED <<detecting, selected>>
  /\ Refresh
  /\ RefreshSingle

Next ==
  \/ SlotDetectToggle
  \/ SwitchToQuad
  \/ \E c \in Channels :
       \/ SelectChannel(c)
       \/ PostFrame(c) \/ SubmitFrame(c) \/ AlarmOver(c)
       \/ ServeSwitch(c) \/ Take(c) \/ PostResult(c)
       \/ OnFrameReady(c) \/ OnDetectResult(c)

Spec == Init /\ [][Next]_vars
-----------------------------------------------------------------------------
Contents == [frame : FrameIds, boxes : FrameIds]
Events == [kind : {"frame", "result"}, id : Nat, found : BOOLEAN]

\* The types; no channel is told more often than the user clicks.
TypeOK ==
  /\ detecting \in BOOLEAN
  /\ quad \in BOOLEAN
  /\ selected \in Channels
  /\ latest \in [Channels -> FrameIds]
  /\ boxes \in [Channels -> FrameIds]
  /\ label \in [Channels -> Contents]
  /\ single \in Contents
  /\ queue \in [Channels -> Seq(Events)]
  /\ nextFrame \in [Channels -> Nat]
  /\ capture \in [Channels -> {0, 1}]
  /\ alarm \in [Channels -> BOOLEAN]
  /\ calls \in [Channels -> Seq(BOOLEAN)]
  /\ \A c \in Channels : Len(calls[c]) <= MaxCalls
  /\ on \in [Channels -> BOOLEAN]
  /\ slot \in [Channels -> FrameIds]
  /\ busy \in [Channels -> FrameIds]

\* Every label shows its channel's latest frame with the boxes held for it,
\* and the single view the selected channel: no handler forgets to paint.
ShownIsCurrent ==
  /\ \A c \in Channels : label[c] = Compose(c)
  /\ single = Compose(selected)

\* With detection off no boxes are held, though results still arrive.
OffHoldsNoBoxes == ~detecting => \A c \in Channels : boxes[c] = NoFrame

\* Whatever was clicked in whatever order, each DetectTask ends up switched
\* as the page now wants it.
SwitchConverges ==
  \A c \in Channels :
    Wanted(c) = IF calls[c] = <<>> THEN on[c] ELSE calls[c][Len(calls[c])]

\* A result reaches the page after the frame it is of, so that it never is of
\* a frame newer than the latest: the lag is not negative.
ResultsFollowFrames ==
  \A c \in Channels :
    /\ boxes[c] <= latest[c]
    /\ \A i \in 1..Len(queue[c]) :
         queue[c][i].kind = "result" =>
           \/ queue[c][i].id <= latest[c]
           \/ \E j \in 1..(i - 1) : queue[c][j] = Frame(queue[c][i].id)

\* What starts an anomaly recording is at the same moment drawn in the view of
\* its channel.
AlarmIsShown ==
  [][\A c \in Channels :
       ~alarm[c] /\ alarm'[c] =>
         label'[c].boxes # NoFrame /\ detecting]_vars
=============================================================================
