-------------------------- MODULE DetectViewProofs ---------------------------
(***************************************************************************)
(* What the monitor page guarantees for any channels, any tolerated lag,   *)
(* any number of frames and of clicks: what is on the screen is current,   *)
(* no result overtakes its frame, each DetectTask is switched as the page  *)
(* wants it in the end, and every alarm is drawn.                          *)
(*                                                                         *)
(* The queue of the page carries the argument about results: the frames in *)
(* it are in order and newer than what is shown, and every frame handed    *)
(* out so far is shown, was shown, or is in it (FramesInOrder,             *)
(* FramesArrive).                                                          *)
(***************************************************************************)
EXTENDS DetectView, SequenceTheorems, TLAPS

(***************************************************************************)
(* TypeOK in parts, because a solver that knows the Booleans does not know *)
(* the numbers.                                                            *)
(***************************************************************************)
TypeFlags ==
  /\ detecting \in BOOLEAN
  /\ quad \in BOOLEAN
  /\ alarm \in [Channels -> BOOLEAN]
  /\ on \in [Channels -> BOOLEAN]

TypeCalls ==
  /\ calls \in [Channels -> Seq(BOOLEAN)]
  /\ \A c \in Channels : Len(calls[c]) <= MaxCalls

TypeView ==
  /\ selected \in Channels
  /\ latest \in [Channels -> FrameIds]
  /\ boxes \in [Channels -> FrameIds]
  /\ label \in [Channels -> Contents]
  /\ single \in Contents

TypeTasks ==
  /\ nextFrame \in [Channels -> Nat]
  /\ capture \in [Channels -> {0, 1}]
  /\ slot \in [Channels -> FrameIds]
  /\ busy \in [Channels -> FrameIds]

TypeQueue == queue \in [Channels -> Seq(Events)]

\* The type invariant by its parts.
LEMMA TypeParts ==
  TypeOK <=> TypeFlags /\ TypeCalls /\ TypeView /\ TypeTasks /\ TypeQueue
BY Zenon DEF TypeOK, TypeFlags, TypeCalls, TypeView, TypeTasks, TypeQueue

\* Frames 0..Posted(c)-1 of the channel have been posted to the page.
Posted(c) == nextFrame[c] + capture[c]

\* The frames in the queue are in order, newer than the one shown, and
\* handed out before; so is what the DetectTask has.
FramesInOrder ==
  \A c \in Channels :
    /\ latest[c] < Posted(c)
    /\ slot[c] < Posted(c)
    /\ busy[c] < Posted(c)
    /\ \A i \in 1..Len(queue[c]) :
         queue[c][i].kind = "frame" =>
           /\ queue[c][i] = Frame(queue[c][i].id)
           /\ latest[c] < queue[c][i].id
           /\ queue[c][i].id < Posted(c)
           /\ \A j \in 1..(i - 1) :
                queue[c][j].kind = "frame" => queue[c][j].id < queue[c][i].id

\* A frame that was handed out has reached the page or is in its queue.
FramesArrive ==
  \A c \in Channels : \A id \in 0..(Posted(c) - 1) :
    \/ id <= latest[c]
    \/ \E i \in 1..Len(queue[c]) : queue[c][i] = Frame(id)

\* The inductive invariant.
IInv ==
  /\ TypeOK
  /\ OffHoldsNoBoxes
  /\ ShownIsCurrent
  /\ SwitchConverges
  /\ FramesInOrder
  /\ FramesArrive
  /\ ResultsFollowFrames
-----------------------------------------------------------------------------
(***************************************************************************)
(* Sequences.                                                              *)
(***************************************************************************)
LEMMA AppendIs ==
  ASSUME NEW S, NEW s \in Seq(S), NEW e \in S
  PROVE  /\ Append(s, e) \in Seq(S)
         /\ Append(s, e) # <<>>
         /\ Len(s) \in Nat
         /\ Len(Append(s, e)) = Len(s) + 1
         /\ \A i \in 1..Len(s) : Append(s, e)[i] = s[i]
         /\ Append(s, e)[Len(s) + 1] = e
BY AppendProperties, LenProperties

\* A queue from which the first event was taken.
LEMMA TailIs ==
  ASSUME NEW S, NEW s \in Seq(S), s # <<>>
  PROVE  /\ Tail(s) \in Seq(S)
         /\ Len(s) \in Nat \ {0}
         /\ Head(s) = s[1] /\ s[1] \in S
         /\ Len(Tail(s)) = Len(s) - 1
         /\ \A i \in 1..(Len(s) - 1) : Tail(s)[i] = s[i + 1]
         /\ Tail(s) = <<>> <=> Len(s) = 1
<1>1. Len(s) \in Nat \ {0}
  BY EmptySeq
<1>2. Head(s) = s[1] /\ s[1] \in S
  BY <1>1, ElementOfSeq
<1>3. /\ Len(Tail(s)) = Len(s) - 1 /\ Tail(s) \in Seq(S)
      /\ \A i \in 1..(Len(s) - 1) : Tail(s)[i] = s[i + 1]
  BY HeadTailProperties
<1>4. Tail(s) = <<>> <=> Len(Tail(s)) = 0
  BY <1>3, EmptySeq
<1> QED
  BY <1>1, <1>2, <1>3, <1>4

\* The type of an event of the queue.
LEMMA EventTypes ==
  \A id \in Nat, found \in BOOLEAN :
    Frame(id) \in Events /\ Result(id, found) \in Events
BY DEF Frame, Result, Events

\* What an event of each kind carries.
LEMMA EventFields ==
  \A e \in Events : /\ e.kind \in {"frame", "result"}
                    /\ e.id \in Nat
                    /\ e.found \in BOOLEAN
BY DEF Events
-----------------------------------------------------------------------------
\* The invariant holds at the beginning.
LEMMA InitIInv == Init => IInv
<1> SUFFICES ASSUME Init PROVE IInv
  OBVIOUS
<1>1. TypeFlags
  BY Zenon DEF Init, TypeFlags
<1>2. TypeCalls
  BY ViewAssumption, EmptySeq DEF Init, TypeCalls
<1>3. TypeView
  BY DEF Init, TypeView, FrameIds, NoFrame, Contents, Placeholder
<1>4. TypeTasks
  BY DEF Init, TypeTasks, FrameIds, NoFrame
<1>5. TypeQueue
  BY EmptySeq DEF Init, TypeQueue
<1>6. OffHoldsNoBoxes
  BY DEF Init, OffHoldsNoBoxes
<1>7. ShownIsCurrent
  BY DEF Init, ShownIsCurrent, Compose
<1>8. SwitchConverges
  BY Zenon DEF Init, SwitchConverges, Wanted
<1>9. FramesInOrder /\ FramesArrive /\ ResultsFollowFrames
  BY DEF Init, FramesInOrder, FramesArrive, ResultsFollowFrames, Posted,
         NoFrame
<1> QED
  BY <1>1, <1>2, <1>3, <1>4, <1>5, <1>6, <1>7, <1>8, <1>9, TypeParts
     DEF IInv
-----------------------------------------------------------------------------
(***************************************************************************)
(* Preservation of the types.                                              *)
(***************************************************************************)
Capture(c) == PostFrame(c) \/ SubmitFrame(c) \/ AlarmOver(c)
Detection(c) == ServeSwitch(c) \/ Take(c) \/ PostResult(c)
Page(c) == OnFrameReady(c) \/ OnDetectResult(c)
Click ==
  SlotDetectToggle \/ SwitchToQuad \/ \E c \in Channels : SelectChannel(c)

\* The steps, without the quantifier over what they have in common.
LEMMA NextIs ==
  Next => Click \/ \E c \in Channels : Capture(c) \/ Detection(c) \/ Page(c)
BY Zenon DEF Next, Click, Capture, Detection, Page

\* The head of a channel's queue, and of its calls.
LEMMA HeadTypes ==
  ASSUME TypeQueue, TypeCalls, NEW c \in Channels
  PROVE  /\ queue[c] # <<>> =>
              /\ Head(queue[c]) \in Events
              /\ Head(queue[c]).id \in Nat
              /\ Tail(queue[c]) \in Seq(Events)
         /\ calls[c] # <<>> => /\ Head(calls[c]) \in BOOLEAN
                               /\ Tail(calls[c]) \in Seq(BOOLEAN)
<1>1. queue[c] \in Seq(Events) /\ calls[c] \in Seq(BOOLEAN)
  BY DEF TypeQueue, TypeCalls
<1>2. queue[c] # <<>> => /\ Head(queue[c]) \in Events
                         /\ Tail(queue[c]) \in Seq(Events)
  BY <1>1, HeadTailProperties
<1>3. \A e \in Events : e.id \in Nat
  BY DEF Events
<1>4. calls[c] # <<>> => /\ Head(calls[c]) \in BOOLEAN
                         /\ Tail(calls[c]) \in Seq(BOOLEAN)
  BY <1>1, HeadTailProperties
<1> QED
  BY <1>2, <1>3, <1>4

\* The types are kept, one part at a time.
LEMMA FlagsStep ==
  TypeFlags /\ TypeCalls /\ TypeQueue /\ [Next]_vars => TypeFlags'
<1> SUFFICES ASSUME TypeFlags, TypeCalls, TypeQueue, [Next]_vars
             PROVE  TypeFlags'
  OBVIOUS
<1> USE DEF TypeFlags
<1>1. CASE UNCHANGED vars
  BY <1>1, Zenon DEF vars, page, tasks
<1>2. CASE Click
  BY <1>2, Zenon
     DEF Click, SlotDetectToggle, SwitchToQuad, SelectChannel, Others
<1>3. ASSUME NEW c \in Channels, Capture(c) PROVE TypeFlags'
  BY <1>3, Zenon DEF Capture, PostFrame, SubmitFrame, AlarmOver, page, tasks
<1>4. ASSUME NEW c \in Channels, Detection(c) PROVE TypeFlags'
  <2>1. CASE ServeSwitch(c)
    <3>1. Head(calls[c]) \in BOOLEAN
      BY <2>1, HeadTypes DEF ServeSwitch
    <3> QED
      BY <2>1, <3>1, Zenon DEF ServeSwitch, page
  <2>2. CASE Take(c) \/ PostResult(c)
    BY <2>2, Zenon DEF Take, PostResult, page
  <2> QED
    BY <1>4, <2>1, <2>2 DEF Detection
<1>5. ASSUME NEW c \in Channels, Page(c) PROVE TypeFlags'
  <2>1. CASE OnFrameReady(c)
    BY <2>1, Zenon DEF OnFrameReady, tasks
  <2>2. CASE OnDetectResult(c) /\ UNCHANGED <<page, alarm>>
    BY <2>2, Zenon DEF OnDetectResult, page, tasks
  <2>3. CASE OnDetectResult(c) /\ Accept(c, Head(queue[c]))
    <3>1. (alarm[c] \/ Head(queue[c]).found) \in BOOLEAN
      OBVIOUS
    <3>2. alarm' \in [Channels -> BOOLEAN]
      BY <2>3, <3>1, Zenon DEF Accept
    <3> QED
      BY <2>3, <3>2, Zenon DEF OnDetectResult, Accept, tasks
  <2> QED
    BY <1>5, <2>1, <2>2, <2>3 DEF Page, OnDetectResult
<1> QED
  BY <1>1, <1>2, <1>3, <1>4, <1>5, NextIs

\* The calls posted when the user clicks; no more than the bound allows.
LEMMA CallsStep == TypeCalls /\ TypeQueue /\ [Next]_vars => TypeCalls'
<1> SUFFICES ASSUME TypeCalls, TypeQueue, [Next]_vars PROVE TypeCalls'
  OBVIOUS
<1>1. ASSUME UNCHANGED calls PROVE TypeCalls'
  BY <1>1 DEF TypeCalls
<1>2. CASE UNCHANGED vars
  BY <1>1, <1>2 DEF vars, tasks
<1>3. CASE Click
  <2>1. MayCall /\ \A c \in Channels : Wanted(c)' \in BOOLEAN
    BY <1>3
       DEF Click, SlotDetectToggle, SwitchToQuad, SelectChannel, Wanted
  <2>2. calls' = [c \in Channels |-> Append(calls[c], Wanted(c)')]
    BY <1>3
       DEF Click, SlotDetectToggle, SwitchToQuad, SelectChannel, Refresh
  <2>3. ASSUME NEW c \in Channels
        PROVE  /\ Append(calls[c], Wanted(c)') \in Seq(BOOLEAN)
               /\ Len(Append(calls[c], Wanted(c)')) <= MaxCalls
    <3>1. calls[c] \in Seq(BOOLEAN) /\ Wanted(c)' \in BOOLEAN
      BY <2>1 DEF TypeCalls
    <3>2. Len(calls[c]) < MaxCalls
      BY <2>1 DEF MayCall
    <3> DEFINE wanted == Wanted(c)'
    <3>3. wanted \in BOOLEAN
      BY <3>1
    <3> HIDE DEF wanted
    <3>4. /\ Append(calls[c], wanted) \in Seq(BOOLEAN)
          /\ Len(calls[c]) \in Nat
          /\ Len(Append(calls[c], wanted)) = Len(calls[c]) + 1
      BY <3>1, <3>3, AppendIs
    <3>5. Len(Append(calls[c], wanted)) <= MaxCalls
      BY <3>2, <3>4, ViewAssumption
    <3> QED
      BY <3>4, <3>5 DEF wanted
  <2> QED
    BY <2>2, <2>3, Zenon DEF TypeCalls
<1>4. ASSUME NEW c \in Channels, Capture(c) \/ Page(c) PROVE TypeCalls'
  BY <1>1, <1>4
     DEF Capture, Page, PostFrame, SubmitFrame, AlarmOver, OnFrameReady,
         OnDetectResult, tasks
<1>5. ASSUME NEW c \in Channels, Detection(c) PROVE TypeCalls'
  <2>1. CASE ServeSwitch(c)
    <3> DEFINE rest == Tail(calls[c])
    <3>1. calls[c] \in Seq(BOOLEAN) /\ calls[c] # <<>>
      BY <2>1 DEF ServeSwitch, TypeCalls
    <3>2. /\ rest \in Seq(BOOLEAN)
          /\ Len(calls[c]) \in Nat
          /\ Len(rest) = Len(calls[c]) - 1
      BY <3>1, TailIs
    <3>3. Len(rest) <= MaxCalls
      BY <3>2, ViewAssumption DEF TypeCalls
    <3>4. calls' = [calls EXCEPT ![c] = rest]
      BY <2>1 DEF ServeSwitch
    <3> HIDE DEF rest
    <3> QED
      BY <3>2, <3>3, <3>4 DEF TypeCalls
  <2>2. CASE Take(c) \/ PostResult(c)
    BY <1>1, <2>2 DEF Take, PostResult
  <2> QED
    BY <1>5, <2>1, <2>2 DEF Detection
<1> QED
  BY <1>2, <1>3, <1>4, <1>5, NextIs

\* What a label is painted with.
LEMMA ComposeType ==
  ASSUME TypeView, NEW c \in Channels PROVE Compose(c) \in Contents
BY DEF TypeView, Compose, Contents, FrameIds, NoFrame, Placeholder

LEMMA ViewStep == TypeView /\ TypeQueue /\ TypeCalls /\ [Next]_vars => TypeView'
<1> SUFFICES ASSUME TypeView, TypeQueue, TypeCalls, [Next]_vars
             PROVE  TypeView'
  OBVIOUS
<1>0. NoFrame \in FrameIds /\ Nat \subseteq FrameIds
  BY DEF FrameIds
<1>1. ASSUME UNCHANGED page PROVE TypeView'
  BY <1>1 DEF TypeView, page
<1>2. ASSUME selected' \in Channels,
             latest' \in [Channels -> FrameIds],
             boxes' \in [Channels -> FrameIds],
             NEW c \in Channels
      PROVE  Compose(c)' \in Contents
  BY <1>2 DEF Compose, Contents, FrameIds, NoFrame, Placeholder
<1>3. CASE UNCHANGED vars
  BY <1>1, <1>3 DEF vars
<1>4. ASSUME NEW c \in Channels, Capture(c) \/ Detection(c) PROVE TypeView'
  BY <1>1, <1>4
     DEF Capture, Detection, PostFrame, SubmitFrame, AlarmOver, ServeSwitch,
         Take, PostResult
<1>5. ASSUME NEW c \in Channels, Page(c) PROVE TypeView'
  <2>1. ASSUME Paint(c), selected' = selected,
               latest' \in [Channels -> FrameIds],
               boxes' \in [Channels -> FrameIds]
        PROVE  TypeView'
    <3>1. Compose(c)' \in Contents
      BY <1>2, <2>1 DEF TypeView
    <3> HIDE DEF Compose
    <3> QED
      BY <2>1, <3>1 DEF Paint, TypeView
  <2>2. queue[c] # <<>> => Head(queue[c]).id \in FrameIds
    BY <1>0, HeadTypes
  <2>3. CASE OnFrameReady(c)
    BY <2>1, <2>2, <2>3 DEF OnFrameReady, Next1, TypeView
  <2>4. CASE OnDetectResult(c) /\ UNCHANGED page
    BY <1>1, <2>4
  <2>5. CASE OnDetectResult(c) /\ Accept(c, Head(queue[c]))
    <3>1. boxes' \in [Channels -> FrameIds]
      BY <1>0, <2>2, <2>5 DEF OnDetectResult, Next1, Accept, TypeView
    <3> QED
      BY <2>1, <2>5, <3>1 DEF Accept, TypeView
  <2> QED
    BY <1>5, <2>3, <2>4, <2>5 DEF Page, OnDetectResult
<1>6. CASE Click
  <2>1. /\ latest' = latest
        /\ selected' \in Channels
        /\ Refresh
        /\ RefreshSingle \/ single' = Compose(selected)'
    BY <1>6 DEF Click, SlotDetectToggle, SwitchToQuad, SelectChannel, Others,
                TypeView
  <2>2. boxes' \in [Channels -> FrameIds]
    BY <1>0, <2>1 DEF Refresh, TypeView
  <2>3. \A c \in Channels : Plain(latest[c]) \in Contents
    BY <1>0 DEF TypeView, Plain, Contents
  <2>4. label' \in [Channels -> Contents]
    BY <2>1, <2>3 DEF Refresh, TypeView
  <2>5. Compose(selected)' \in Contents
    BY <1>2, <2>1, <2>2 DEF TypeView
  <2>6. single' \in Contents
    BY <2>1, <2>3, <2>5 DEF RefreshSingle, TypeView
  <2> QED
    BY <2>1, <2>2, <2>4, <2>6 DEF TypeView
<1> QED
  BY <1>3, <1>4, <1>5, <1>6, NextIs

LEMMA TasksStep == TypeTasks /\ [Next]_vars => TypeTasks'
<1> SUFFICES ASSUME TypeTasks, [Next]_vars PROVE TypeTasks'
  OBVIOUS
<1> USE DEF TypeTasks
<1>0. NoFrame \in FrameIds /\ Nat \subseteq FrameIds
  BY DEF FrameIds
<1>1. CASE UNCHANGED vars
  BY <1>1 DEF vars, tasks
<1>2. CASE Click
  BY <1>2 DEF Click, SlotDetectToggle, SwitchToQuad, SelectChannel, Others
<1>3. ASSUME NEW c \in Channels, HandedOut(c)
      PROVE  /\ nextFrame' \in [Channels -> Nat]
             /\ capture' \in [Channels -> {0, 1}]
  <2>1. Len(Receivers) = 2
    BY DEF Receivers
  <2> QED
    BY <1>3, <2>1 DEF HandedOut
<1>4. ASSUME NEW c \in Channels, Capture(c) PROVE TypeTasks'
  <2>1. CASE PostFrame(c)
    BY <1>3, <2>1 DEF PostFrame, tasks
  <2>2. CASE SubmitFrame(c)
    BY <1>0, <1>3, <2>2 DEF SubmitFrame
  <2>3. CASE AlarmOver(c)
    BY <2>3 DEF AlarmOver, tasks
  <2> QED
    BY <1>4, <2>1, <2>2, <2>3 DEF Capture
<1>5. ASSUME NEW c \in Channels, Detection(c) PROVE TypeTasks'
  BY <1>0, <1>5 DEF Detection, ServeSwitch, Take, PostResult
<1>6. ASSUME NEW c \in Channels, Page(c) PROVE TypeTasks'
  BY <1>6 DEF Page, OnFrameReady, OnDetectResult, tasks
<1> QED
  BY <1>1, <1>2, <1>4, <1>5, <1>6, NextIs

LEMMA QueueStep ==
  TypeQueue /\ TypeTasks /\ TypeCalls /\ [Next]_vars => TypeQueue'
<1> SUFFICES ASSUME TypeQueue, TypeTasks, TypeCalls, [Next]_vars
             PROVE  TypeQueue'
  OBVIOUS
<1> USE DEF TypeQueue
<1>1. ASSUME NEW c \in Channels, NEW e \in Events,
             queue' = [queue EXCEPT ![c] = Append(@, e)]
      PROVE  TypeQueue'
  <2> DEFINE longer == Append(queue[c], e)
  <2>1. longer \in Seq(Events)
    BY AppendIs
  <2>2. queue' = [queue EXCEPT ![c] = longer]
    BY <1>1
  <2> HIDE DEF longer
  <2> QED
    BY <2>1, <2>2
<1>2. CASE UNCHANGED vars
  BY <1>2 DEF vars
<1>3. CASE Click
  BY <1>3 DEF Click, SlotDetectToggle, SwitchToQuad, SelectChannel, Others
<1>4. ASSUME NEW c \in Channels, Capture(c) PROVE TypeQueue'
  <2>1. Frame(nextFrame[c]) \in Events
    BY EventTypes DEF TypeTasks
  <2> QED
    BY <1>1, <1>4, <2>1 DEF Capture, PostFrame, SubmitFrame, AlarmOver
<1>5. ASSUME NEW c \in Channels, Detection(c) PROVE TypeQueue'
  <2>1. CASE PostResult(c)
    <3>1. busy[c] \in Nat
      BY <2>1 DEF PostResult, TypeTasks, FrameIds
    <3>2. PICK found \in BOOLEAN :
            queue' = [queue EXCEPT ![c] = Append(@, Result(busy[c], found))]
      BY <2>1 DEF PostResult
    <3>3. Result(busy[c], found) \in Events
      BY <3>1, EventTypes
    <3> QED
      BY <1>1, <3>2, <3>3
  <2> QED
    BY <1>5, <2>1 DEF Detection, ServeSwitch, Take
<1>6. ASSUME NEW c \in Channels, Page(c) PROVE TypeQueue'
  <2>1. queue[c] # <<>> /\ queue' = [queue EXCEPT ![c] = Tail(@)]
    BY <1>6 DEF Page, OnFrameReady, OnDetectResult, Next1, Served
  <2>2. Tail(queue[c]) \in Seq(Events)
    BY <2>1, HeadTypes
  <2> QED
    BY <2>1, <2>2
<1> QED
  BY <1>2, <1>3, <1>4, <1>5, <1>6, NextIs

LEMMA TypeStep == TypeOK /\ [Next]_vars => TypeOK'
<1> SUFFICES ASSUME TypeOK, [Next]_vars PROVE TypeOK'
  OBVIOUS
<1>1. TypeFlags /\ TypeCalls /\ TypeView /\ TypeTasks /\ TypeQueue
  BY TypeParts
<1>2. TypeFlags' /\ TypeCalls' /\ TypeView' /\ TypeTasks' /\ TypeQueue'
  BY <1>1, FlagsStep, CallsStep, ViewStep, TasksStep, QueueStep
<1> QED
  BY <1>2, Zenon
     DEF TypeOK, TypeFlags, TypeCalls, TypeView, TypeTasks, TypeQueue
-----------------------------------------------------------------------------
(***************************************************************************)
(* What is on the screen.                                                  *)
(***************************************************************************)
\* The tasks of a channel do not touch the page.
LEMMA TasksLeavePage ==
  ASSUME NEW c, Capture(c) \/ Detection(c) PROVE UNCHANGED page
BY DEF Capture, Detection, PostFrame, SubmitFrame, AlarmOver, ServeSwitch,
       Take, PostResult

\* What a click changes of the page; the views come with it.
LEMMA Clicks ==
  ASSUME Click, selected \in Channels
  PROVE  /\ UNCHANGED Others
         /\ MayCall
         /\ selected' \in Channels
         /\ Refresh
         /\ \/ selected' = selected /\ RefreshSingle
            \/ detecting' = detecting /\ single' = Compose(selected)'
BY DEF Click, SlotDetectToggle, SwitchToQuad, SelectChannel

\* Boxes are held of channels only that detection is on for.
LEMMA OffStep == TypeOK /\ OffHoldsNoBoxes /\ [Next]_vars => OffHoldsNoBoxes'
<1> SUFFICES ASSUME TypeView, OffHoldsNoBoxes, [Next]_vars
             PROVE  OffHoldsNoBoxes'
  BY TypeParts
<1> USE DEF OffHoldsNoBoxes
<1>1. CASE UNCHANGED page
  BY <1>1 DEF page
<1>2. CASE UNCHANGED vars
  BY <1>1, <1>2 DEF vars
<1>3. ASSUME NEW c \in Channels, Page(c) PROVE OffHoldsNoBoxes'
  BY <1>1, <1>3 DEF Page, OnFrameReady, OnDetectResult, Accept
<1>4. CASE Click
  <2>1. Refresh
    BY <1>4, Clicks DEF TypeView
  <2> QED
    BY <2>1 DEF Refresh, Wanted
<1> QED
  BY <1>1, <1>2, <1>3, <1>4, NextIs, TasksLeavePage

\* A channel that a click leaves wanted is drawn as before: if detection was
\* only now switched on, no boxes were held.
LEMMA ShownStep ==
  TypeOK /\ OffHoldsNoBoxes /\ ShownIsCurrent /\ [Next]_vars => ShownIsCurrent'
<1> SUFFICES ASSUME TypeView, OffHoldsNoBoxes, ShownIsCurrent, [Next]_vars
             PROVE  ShownIsCurrent'
  BY TypeParts
<1>1. CASE UNCHANGED page
  BY <1>1 DEF ShownIsCurrent, Compose, page
<1>2. CASE UNCHANGED vars
  BY <1>1, <1>2 DEF vars
<1>3. ASSUME NEW c \in Channels, Page(c) PROVE ShownIsCurrent'
  <2>1. CASE UNCHANGED page
    BY <1>1, <2>1
  <2>2. CASE ~UNCHANGED page
    <3>1. /\ Paint(c)
          /\ UNCHANGED <<detecting, selected>>
          /\ \A d \in Channels \ {c} : /\ latest'[d] = latest[d]
                                       /\ boxes'[d] = boxes[d]
      BY <1>3, <2>2 DEF Page, OnFrameReady, OnDetectResult, Accept, TypeView
    <3>2. \A d \in Channels \ {c} : Compose(d)' = Compose(d)
      BY <3>1 DEF Compose
    <3>3. label'[c] = Compose(c)'
      <4> HIDE DEF Compose
      <4> QED
        BY <3>1 DEF Paint, TypeView
    <3>4. \A d \in Channels \ {c} : label'[d] = Compose(d)'
      <4> HIDE DEF Compose
      <4> QED
        BY <3>1, <3>2 DEF Paint, TypeView, ShownIsCurrent
    <3>5. single' = Compose(selected)'
      <4>1. CASE c = selected
        BY <3>1, <4>1 DEF Paint
      <4>2. CASE c # selected
        <5>1. selected \in Channels \ {c}
          BY <4>2 DEF TypeView
        <5>2. single' = Compose(selected)
          BY <3>1, <4>2 DEF Paint, ShownIsCurrent
        <5>3. Compose(selected)' = Compose(selected)
          BY <3>1, <5>1 DEF Compose
        <5> QED
          BY <5>2, <5>3
      <4> QED
        BY <4>1, <4>2
    <3> QED
      BY <3>3, <3>4, <3>5 DEF ShownIsCurrent
  <2> QED
    BY <2>1, <2>2
<1>4. CASE Click
  <2>1. /\ latest' = latest
        /\ selected' \in Channels
        /\ Refresh
        /\ \/ selected' = selected /\ RefreshSingle
           \/ detecting' = detecting /\ single' = Compose(selected)'
    BY <1>4, Clicks DEF TypeView, Others
  <2>2. ASSUME NEW c \in Channels
        PROVE  Compose(c)' = IF Wanted(c)' \/ latest[c] = NoFrame
                             THEN Compose(c) ELSE Plain(latest[c])
    <3>1. CASE latest[c] = NoFrame
      BY <2>1, <3>1 DEF Compose
    <3>2. CASE latest[c] # NoFrame /\ Wanted(c)'
      <4>1. boxes'[c] = boxes[c] /\ detecting'
        BY <2>1, <3>2 DEF Refresh, Wanted
      <4>2. ~detecting => boxes[c] = NoFrame
        BY DEF OffHoldsNoBoxes
      <4> QED
        BY <2>1, <3>2, <4>1, <4>2 DEF Compose
    <3>3. CASE latest[c] # NoFrame /\ ~Wanted(c)'
      BY <2>1, <3>3 DEF Compose, Refresh, Plain
    <3> QED
      BY <3>1, <3>2, <3>3
  <2>3. ASSUME NEW c \in Channels PROVE label'[c] = Compose(c)'
    BY <2>1, <2>2 DEF Refresh, ShownIsCurrent
  <2>4. single' = Compose(selected)'
    <3>1. CASE single' = Compose(selected)'
      BY <3>1
    <3>2. CASE selected' = selected /\ RefreshSingle
      <4>1. Compose(selected)' =
              IF Wanted(selected)' \/ latest[selected] = NoFrame
              THEN Compose(selected) ELSE Plain(latest[selected])
        BY <2>2, <3>2 DEF TypeView, Compose, Wanted
      <4> QED
        BY <3>2, <4>1 DEF RefreshSingle, ShownIsCurrent
    <3> QED
      BY <2>1, <3>1, <3>2
  <2> QED
    BY <2>3, <2>4 DEF ShownIsCurrent
<1> QED
  BY <1>1, <1>2, <1>3, <1>4, NextIs, TasksLeavePage
-----------------------------------------------------------------------------
(***************************************************************************)
(* The switches: the last call posted is the one that counts.              *)
(***************************************************************************)
\* How a DetectTask will be switched once it has served its calls.
Final(c) == IF calls[c] = <<>> THEN on[c] ELSE calls[c][Len(calls[c])]

\* What a task will be switched to once its calls have been made.
LEMMA FinalOfAppend ==
  ASSUME NEW s \in Seq(BOOLEAN), NEW w \in BOOLEAN
  PROVE  /\ Append(s, w) # <<>>
         /\ Append(s, w)[Len(Append(s, w))] = w
BY AppendIs

LEMMA FinalOfTail ==
  ASSUME NEW s \in Seq(BOOLEAN), s # <<>>
  PROVE  s[Len(s)] = IF Tail(s) = <<>> THEN Head(s)
                                       ELSE Tail(s)[Len(Tail(s))]
<1>1. /\ Len(s) \in Nat \ {0}
      /\ Head(s) = s[1]
      /\ Len(Tail(s)) = Len(s) - 1
      /\ \A i \in 1..(Len(s) - 1) : Tail(s)[i] = s[i + 1]
      /\ Tail(s) = <<>> <=> Len(s) = 1
  BY TailIs
<1>2. CASE Len(s) = 1
  BY <1>1, <1>2
<1>3. CASE Len(s) # 1
  <2>1. Len(s) - 1 \in 1..(Len(s) - 1) /\ (Len(s) - 1) + 1 = Len(s)
    BY <1>1, <1>3
  <2>2. Tail(s)[Len(s) - 1] = s[Len(s)]
    BY <1>1, <2>1
  <2> QED
    BY <1>1, <1>3, <2>2
<1> QED
  BY <1>2, <1>3

\* A task will be switched as the page wants it.
LEMMA SwitchStep ==
  TypeOK /\ SwitchConverges /\ [Next]_vars => SwitchConverges'
<1> SUFFICES ASSUME TypeFlags, TypeCalls, TypeView, SwitchConverges,
                    [Next]_vars, NEW d \in Channels
             PROVE  Wanted(d)' = Final(d)'
  BY TypeParts DEF SwitchConverges, Final
<1>0. Wanted(d) = Final(d) /\ calls[d] \in Seq(BOOLEAN)
  BY Zenon DEF SwitchConverges, Final, TypeCalls
<1>1. ASSUME UNCHANGED <<detecting, quad, selected, calls, on>>
      PROVE  Wanted(d)' = Final(d)'
  BY <1>0, <1>1, Zenon DEF Wanted, Final
<1>2. CASE UNCHANGED vars
  BY <1>1, <1>2 DEF vars, page, tasks
<1>3. CASE Click
  <2>1. calls' = [c \in Channels |-> Append(calls[c], Wanted(c)')]
    BY <1>3, Clicks DEF Refresh, TypeView
  <2> DEFINE wanted == Wanted(d)'
  <2>2. wanted \in BOOLEAN
    BY DEF Wanted
  <2>3. calls'[d] = Append(calls[d], wanted)
    BY <2>1, Zenon
  <2> HIDE DEF wanted
  <2>4. calls'[d] # <<>> /\ calls'[d][Len(calls'[d])] = wanted
    BY <1>0, <2>2, <2>3, FinalOfAppend
  <2>5. Final(d)' = wanted
    BY <2>4, Zenon DEF Final
  <2> QED
    BY <2>5 DEF wanted
<1>4. ASSUME NEW c \in Channels, Capture(c) \/ Page(c)
      PROVE  Wanted(d)' = Final(d)'
  BY <1>1, <1>4
     DEF Capture, Page, PostFrame, SubmitFrame, AlarmOver, OnFrameReady,
         OnDetectResult, Accept, page, tasks
<1>5. ASSUME NEW c \in Channels, Detection(c) PROVE Wanted(d)' = Final(d)'
  <2>0. UNCHANGED page
    BY <1>5, TasksLeavePage
  <2>1. CASE Take(c) \/ PostResult(c)
    BY <1>1, <2>0, <2>1 DEF Take, PostResult, page
  <2>2. CASE ServeSwitch(c) /\ c # d
    <3>1. calls'[d] = calls[d] /\ on'[d] = on[d]
      BY <2>2, Zenon DEF ServeSwitch, TypeCalls, TypeFlags
    <3> QED
      BY <1>0, <2>0, <3>1, Zenon DEF Wanted, Final, page
  <2>3. CASE ServeSwitch(d)
    <3>1. /\ calls[d] # <<>>
          /\ calls'[d] = Tail(calls[d])
          /\ on'[d] = Head(calls[d])
      BY <2>3, Zenon DEF ServeSwitch, TypeCalls, TypeFlags
    <3>2. Final(d)' = Final(d)
      BY <1>0, <3>1, FinalOfTail, Zenon DEF Final
    <3>3. Wanted(d)' = Wanted(d)
      BY <2>0, Zenon DEF Wanted, page
    <3> QED
      BY <1>0, <3>2, <3>3
  <2> QED
    BY <1>5, <2>1, <2>2, <2>3 DEF Detection
<1> QED
  BY <1>2, <1>3, <1>4, <1>5, NextIs
-----------------------------------------------------------------------------
(***************************************************************************)
(* The queue of the page, channel by channel.                              *)
(***************************************************************************)
FramesInOrderOf(c) ==
  /\ latest[c] < Posted(c)
  /\ slot[c] < Posted(c)
  /\ busy[c] < Posted(c)
  /\ \A i \in 1..Len(queue[c]) :
       queue[c][i].kind = "frame" =>
         /\ queue[c][i] = Frame(queue[c][i].id)
         /\ latest[c] < queue[c][i].id
         /\ queue[c][i].id < Posted(c)
         /\ \A j \in 1..(i - 1) :
              queue[c][j].kind = "frame" => queue[c][j].id < queue[c][i].id

FramesArriveOf(c) ==
  \A id \in 0..(Posted(c) - 1) :
    \/ id <= latest[c]
    \/ \E i \in 1..Len(queue[c]) : queue[c][i] = Frame(id)

ResultsFollowOf(c) ==
  /\ boxes[c] <= latest[c]
  /\ \A i \in 1..Len(queue[c]) :
       queue[c][i].kind = "result" =>
         \/ queue[c][i].id <= latest[c]
         \/ \E j \in 1..(i - 1) : queue[c][j] = Frame(queue[c][i].id)

QueueInOrder(c) ==
  FramesInOrderOf(c) /\ FramesArriveOf(c) /\ ResultsFollowOf(c)

\* The frames of a queue, in the order they will be handled.
LEMMA QueueOrder ==
  FramesInOrder /\ FramesArrive /\ ResultsFollowFrames <=>
    \A c \in Channels : QueueInOrder(c)
BY DEF FramesInOrder, FramesArrive, ResultsFollowFrames, QueueInOrder,
       FramesInOrderOf, FramesArriveOf, ResultsFollowOf

\* The types of what belongs to one channel.
LEMMA ChannelTypes ==
  ASSUME TypeOK, NEW c \in Channels
  PROVE  /\ latest[c] \in Int /\ latest[c] >= -1
         /\ boxes[c] \in Int /\ slot[c] \in Int /\ busy[c] \in Int
         /\ nextFrame[c] \in Nat /\ capture[c] \in {0, 1}
         /\ Posted(c) \in Nat
         /\ queue[c] \in Seq(Events)
<1>1. TypeView /\ TypeTasks /\ TypeQueue
  BY TypeParts
<1> QED
  BY <1>1 DEF TypeView, TypeTasks, TypeQueue, FrameIds, NoFrame, Posted

\* Steps that leave the queue of a channel, and its latest frame, alone.
LEMMA OrderKept ==
  ASSUME TypeOK, NEW c \in Channels, QueueInOrder(c),
         queue'[c] = queue[c], latest'[c] = latest[c],
         Posted(c)' = Posted(c),
         slot'[c] < Posted(c), busy'[c] < Posted(c),
         boxes'[c] <= latest[c]
  PROVE  QueueInOrder(c)'
BY DEF QueueInOrder, FramesInOrderOf, FramesArriveOf, ResultsFollowOf

\* The next frame is posted.
LEMMA OrderPosted ==
  ASSUME TypeOK, NEW c \in Channels, QueueInOrder(c),
         queue'[c] = Append(queue[c], Frame(Posted(c))),
         latest'[c] = latest[c], boxes'[c] = boxes[c],
         slot'[c] = slot[c], busy'[c] = busy[c],
         Posted(c)' = Posted(c) + 1
  PROVE  QueueInOrder(c)'
<1> DEFINE q == queue[c]
           r == queue'[c]
           n == Posted(c)
<1>1. /\ latest[c] \in Int /\ boxes[c] \in Int
      /\ slot[c] \in Int /\ busy[c] \in Int
      /\ n \in Nat /\ q \in Seq(Events)
  BY ChannelTypes
<1>2. /\ Frame(n) \in Events
      /\ Frame(n).kind = "frame" /\ Frame(n).id = n
  BY <1>1, EventTypes DEF Frame
<1>3. /\ Len(q) \in Nat /\ Len(r) = Len(q) + 1
      /\ \A i \in 1..Len(q) : r[i] = q[i]
      /\ r[Len(q) + 1] = Frame(n)
  BY <1>1, <1>2, AppendIs
<1>4. \A i \in 1..Len(q) : q[i].id \in Nat
  BY <1>1, ElementOfSeq, EventFields
<1> HIDE DEF q, r, n
<1>5. FramesInOrderOf(c)'
  <2>1. /\ latest[c] < n /\ slot[c] < n /\ busy[c] < n
        /\ \A i \in 1..Len(q) : q[i].kind = "frame" =>
             /\ q[i] = Frame(q[i].id)
             /\ latest[c] < q[i].id
             /\ q[i].id < n
             /\ \A j \in 1..(i - 1) :
                  q[j].kind = "frame" => q[j].id < q[i].id
    BY DEF QueueInOrder, FramesInOrderOf, q, n
  <2>2. ASSUME NEW i \in 1..Len(r), r[i].kind = "frame"
        PROVE  /\ r[i] = Frame(r[i].id)
               /\ latest[c] < r[i].id
               /\ r[i].id < n + 1
               /\ \A j \in 1..(i - 1) :
                    r[j].kind = "frame" => r[j].id < r[i].id
    <3>1. CASE i \in 1..Len(q)
      <4>1. r[i] = q[i] /\ \A j \in 1..(i - 1) : r[j] = q[j]
        BY <1>3, <3>1
      <4> QED
        BY <1>1, <1>4, <2>1, <2>2, <3>1, <4>1
    <3>2. CASE i = Len(q) + 1
      <4>1. \A j \in 1..(i - 1) : r[j] = q[j] /\ j \in 1..Len(q)
        BY <1>3, <3>2
      <4> QED
        BY <1>1, <1>2, <1>3, <2>1, <3>2, <4>1
    <3> QED
      BY <1>3, <3>1, <3>2
  <2> QED
    BY <1>1, <2>1, <2>2 DEF FramesInOrderOf, r, n
<1>6. FramesArriveOf(c)'
  <2>1. SUFFICES ASSUME NEW id \in 0..n
                 PROVE  \/ id <= latest[c]
                        \/ \E i \in 1..Len(r) : r[i] = Frame(id)
    BY <1>1 DEF FramesArriveOf, r, n
  <2>2. CASE id = n
    BY <1>3, <2>2
  <2>3. CASE id \in 0..(n - 1)
    <3>1. id <= latest[c] \/ \E i \in 1..Len(q) : q[i] = Frame(id)
      BY <2>3 DEF QueueInOrder, FramesArriveOf, q, n
    <3> QED
      BY <1>3, <3>1
  <2> QED
    BY <1>1, <2>2, <2>3
<1>7. ResultsFollowOf(c)'
  <2>1. \A i \in 1..Len(q) : q[i].kind = "result" =>
          \/ q[i].id <= latest[c]
          \/ \E j \in 1..(i - 1) : q[j] = Frame(q[i].id)
    BY DEF QueueInOrder, ResultsFollowOf, q
  <2>2. ASSUME NEW i \in 1..Len(r), r[i].kind = "result"
        PROVE  \/ r[i].id <= latest[c]
               \/ \E j \in 1..(i - 1) : r[j] = Frame(r[i].id)
    <3>1. i \in 1..Len(q)
      BY <1>2, <1>3, <2>2
    <3>2. r[i] = q[i] /\ \A j \in 1..(i - 1) : r[j] = q[j]
      BY <1>3, <3>1
    <3> QED
      BY <2>1, <2>2, <3>1, <3>2
  <2>3. boxes[c] <= latest[c]
    BY DEF QueueInOrder, ResultsFollowOf
  <2> QED
    BY <2>2, <2>3 DEF ResultsFollowOf, r
<1> QED
  BY <1>5, <1>6, <1>7 DEF QueueInOrder

\* A result is posted: of a frame handed out before, so that the frame is in
\* front of it or has been shown.
LEMMA OrderResult ==
  ASSUME TypeOK, NEW c \in Channels, QueueInOrder(c),
         busy[c] \in Nat, NEW found \in BOOLEAN,
         queue'[c] = Append(queue[c], Result(busy[c], found)),
         latest'[c] = latest[c], boxes'[c] = boxes[c],
         slot'[c] = slot[c], busy'[c] = NoFrame,
         Posted(c)' = Posted(c)
  PROVE  QueueInOrder(c)'
<1> DEFINE q == queue[c]
           r == queue'[c]
           n == Posted(c)
           e == Result(busy[c], found)
<1>1. /\ latest[c] \in Int /\ boxes[c] \in Int
      /\ slot[c] \in Int /\ n \in Nat /\ q \in Seq(Events)
  BY ChannelTypes
<1>2. e \in Events /\ e.kind = "result" /\ e.id = busy[c]
  BY <1>1, EventTypes DEF Result
<1> HIDE DEF e
<1>3. /\ Len(q) \in Nat /\ Len(r) = Len(q) + 1
      /\ \A i \in 1..Len(q) : r[i] = q[i]
      /\ r[Len(q) + 1] = e
  BY <1>1, <1>2, AppendIs DEF e
<1> HIDE DEF q, r, n
<1>4. ASSUME NEW i \in 1..Len(r)
      PROVE  /\ \A j \in 1..(i - 1) : r[j] = q[j] /\ j \in 1..Len(q)
             /\ \/ i \in 1..Len(q) /\ r[i] = q[i]
                \/ i = Len(q) + 1 /\ r[i] = e
  BY <1>3
<1>5. FramesInOrderOf(c)'
  <2>1. /\ latest[c] < n /\ slot[c] < n /\ NoFrame < n
        /\ \A i \in 1..Len(q) : q[i].kind = "frame" =>
             /\ q[i] = Frame(q[i].id)
             /\ latest[c] < q[i].id
             /\ q[i].id < n
             /\ \A j \in 1..(i - 1) :
                  q[j].kind = "frame" => q[j].id < q[i].id
    BY <1>1 DEF QueueInOrder, FramesInOrderOf, q, n, NoFrame
  <2>2. \A i \in 1..Len(r) : r[i].kind = "frame" =>
             /\ r[i] = Frame(r[i].id)
             /\ latest[c] < r[i].id
             /\ r[i].id < n
             /\ \A j \in 1..(i - 1) :
                  r[j].kind = "frame" => r[j].id < r[i].id
    BY <1>2, <1>4, <2>1
  <2> QED
    BY <2>1, <2>2 DEF FramesInOrderOf, r, n
<1>6. FramesArriveOf(c)'
  BY <1>3 DEF QueueInOrder, FramesArriveOf, q, r
<1>7. ResultsFollowOf(c)'
  <2>1. /\ boxes[c] <= latest[c]
        /\ \A i \in 1..Len(q) : q[i].kind = "result" =>
             \/ q[i].id <= latest[c]
             \/ \E j \in 1..(i - 1) : q[j] = Frame(q[i].id)
    BY DEF QueueInOrder, ResultsFollowOf, q
  <2>2. busy[c] \in 0..(n - 1)
    BY <1>1 DEF QueueInOrder, FramesInOrderOf, n
  <2>3. busy[c] <= latest[c] \/ \E j \in 1..Len(q) : q[j] = Frame(busy[c])
    BY <2>2 DEF QueueInOrder, FramesArriveOf, q, n
  <2>4. ASSUME NEW i \in 1..Len(r), r[i].kind = "result"
        PROVE  \/ r[i].id <= latest[c]
               \/ \E j \in 1..(i - 1) : r[j] = Frame(r[i].id)
    <3>1. CASE i \in 1..Len(q) /\ r[i] = q[i]
      BY <1>4, <2>1, <2>4, <3>1
    <3>2. CASE i = Len(q) + 1 /\ r[i] = e
      <4>1. \A j \in 1..Len(q) : j \in 1..(i - 1) /\ r[j] = q[j]
        BY <1>3, <3>2
      <4> QED
        BY <1>2, <2>3, <3>2, <4>1
    <3> QED
      BY <1>4, <3>1, <3>2
  <2> QED
    BY <2>1, <2>4 DEF ResultsFollowOf, r
<1> QED
  BY <1>5, <1>6, <1>7 DEF QueueInOrder

\* An event is served.  A frame becomes the latest; a result has its frame
\* behind it, as nothing is in front of it.
LEMMA OrderServed ==
  ASSUME TypeOK, NEW c \in Channels, QueueInOrder(c),
         queue[c] # <<>>, queue'[c] = Tail(queue[c]),
         slot'[c] = slot[c], busy'[c] = busy[c], Posted(c)' = Posted(c),
         \/ /\ Head(queue[c]).kind = "frame"
            /\ latest'[c] = Head(queue[c]).id
            /\ boxes'[c] = boxes[c]
         \/ /\ Head(queue[c]).kind = "result"
            /\ latest'[c] = latest[c]
            /\ boxes'[c] \in {boxes[c], NoFrame, Head(queue[c]).id}
  PROVE  QueueInOrder(c)'
<1> DEFINE q == queue[c]
           r == queue'[c]
           n == Posted(c)
           old == latest[c]
           new == latest'[c]
<1>1. /\ old \in Int /\ old >= -1
      /\ boxes[c] \in Int /\ slot[c] \in Int /\ busy[c] \in Int
      /\ n \in Nat /\ q \in Seq(Events)
  BY ChannelTypes
<1>2. /\ Len(q) \in Nat \ {0} /\ Len(r) = Len(q) - 1
      /\ Head(q) = q[1]
      /\ \A i \in 1..(Len(q) - 1) : r[i] = q[i + 1]
  BY <1>1, TailIs
<1>3. \A i \in 1..Len(q) : /\ q[i].kind \in {"frame", "result"}
                           /\ q[i].id \in Nat
  BY <1>1, ElementOfSeq, EventFields
<1> HIDE DEF q, r, n, old, new
<1>4. \A i \in 1..Len(r) : i + 1 \in 1..Len(q) /\ r[i] = q[i + 1]
  BY <1>2
<1>5. /\ old < n /\ slot[c] < n /\ busy[c] < n
      /\ \A i \in 1..Len(q) : q[i].kind = "frame" =>
           /\ q[i] = Frame(q[i].id)
           /\ old < q[i].id
           /\ q[i].id < n
           /\ \A j \in 1..(i - 1) :
                q[j].kind = "frame" => q[j].id < q[i].id
  BY DEF QueueInOrder, FramesInOrderOf, q, n, old
<1>6. /\ boxes[c] <= old
      /\ \A i \in 1..Len(q) : q[i].kind = "result" =>
           \/ q[i].id <= old
           \/ \E j \in 1..(i - 1) : q[j] = Frame(q[i].id)
  BY DEF QueueInOrder, ResultsFollowOf, q, old
<1>7. \A id \in 0..(n - 1) :
        id <= old \/ \E i \in 1..Len(q) : q[i] = Frame(id)
  BY DEF QueueInOrder, FramesArriveOf, q, n, old
<1>8. \/ /\ q[1].kind = "frame" /\ new = q[1].id /\ boxes'[c] = boxes[c]
      \/ /\ q[1].kind = "result" /\ new = old
         /\ boxes'[c] \in {boxes[c], NoFrame, q[1].id}
  BY <1>2 DEF q, new, old
<1>9. 1 \in 1..Len(q)
  BY <1>2
<1>10. \A id : Frame(id).kind = "frame" /\ Frame(id).id = id
  BY DEF Frame
\* The latest frame does not go back, and no frame but the first is passed.
<1>11. /\ new \in Int /\ old <= new /\ new < n
       /\ q[1].kind = "frame" => q[1] = Frame(new)
       /\ q[1].kind = "result" => q[1].id <= new
  BY <1>1, <1>3, <1>5, <1>6, <1>8, <1>9
<1>12. ASSUME NEW i \in 1..Len(r), r[i].kind = "frame"
       PROVE  /\ r[i] = Frame(r[i].id)
              /\ new < r[i].id
              /\ r[i].id < n
              /\ \A j \in 1..(i - 1) :
                   r[j].kind = "frame" => r[j].id < r[i].id
  <2>1. i + 1 \in 1..Len(q) /\ r[i] = q[i + 1] /\ 1 \in 1..((i + 1) - 1)
    BY <1>4
  <2>2. \A j \in 1..(i - 1) : j + 1 \in 1..((i + 1) - 1) /\ r[j] = q[j + 1]
    BY <1>2, <1>4
  <2>3. new < r[i].id
    BY <1>5, <1>8, <1>12, <2>1
  <2> QED
    BY <1>5, <1>12, <2>1, <2>2, <2>3
<1>13. ASSUME NEW id \in 0..(n - 1)
       PROVE  id <= new \/ \E i \in 1..Len(r) : r[i] = Frame(id)
  <2>1. CASE id <= old
    BY <1>1, <1>11, <2>1
  <2>2. CASE \E i \in 1..Len(q) : q[i] = Frame(id)
    <3>1. PICK i \in 1..Len(q) : q[i] = Frame(id)
      BY <2>2
    <3>2. CASE i = 1
      BY <1>8, <1>10, <3>1, <3>2
    <3>3. CASE i # 1
      <4>1. i - 1 \in 1..Len(r) /\ r[i - 1] = q[i]
        BY <1>2, <3>3
      <4> QED
        BY <3>1, <4>1
    <3> QED
      BY <3>2, <3>3
  <2> QED
    BY <1>7, <2>1, <2>2
<1>14. ASSUME NEW i \in 1..Len(r), r[i].kind = "result"
       PROVE  \/ r[i].id <= new
              \/ \E j \in 1..(i - 1) : r[j] = Frame(r[i].id)
  <2>1. i + 1 \in 1..Len(q) /\ r[i] = q[i + 1] /\ r[i].id \in Nat
    BY <1>3, <1>4
  <2>2. CASE r[i].id <= old
    BY <1>1, <1>11, <2>1, <2>2
  <2>3. CASE \E j \in 1..((i + 1) - 1) : q[j] = Frame(r[i].id)
    <3>1. PICK j \in 1..i : q[j] = Frame(r[i].id)
      BY <2>3
    <3>2. CASE j = 1
      BY <1>8, <1>10, <2>1, <3>1, <3>2
    <3>3. CASE j # 1
      <4>1. j - 1 \in 1..(i - 1) /\ r[j - 1] = q[j]
        BY <1>2, <2>1, <3>3
      <4> QED
        BY <3>1, <4>1
    <3> QED
      BY <3>2, <3>3
  <2> QED
    BY <1>6, <1>14, <2>1, <2>2, <2>3
<1>15. boxes'[c] <= new
  BY <1>1, <1>3, <1>6, <1>8, <1>9, <1>11 DEF NoFrame
<1>16. FramesInOrderOf(c)'
  BY <1>5, <1>11, <1>12 DEF FramesInOrderOf, r, n, new
<1>17. FramesArriveOf(c)'
  BY <1>13 DEF FramesArriveOf, r, n, new
<1>18. ResultsFollowOf(c)'
  BY <1>14, <1>15 DEF ResultsFollowOf, r, new
<1> QED
  BY <1>16, <1>17, <1>18 DEF QueueInOrder

\* What the tasks do to the queue of a channel and to what they count.
LEMMA TasksOrder ==
  ASSUME TypeOK, NEW c \in Channels, QueueInOrder(c),
         Capture(c) \/ Detection(c)
  PROVE  QueueInOrder(c)'
<1>1. /\ latest[c] \in Int /\ latest[c] >= -1
      /\ boxes[c] \in Int /\ slot[c] \in Int /\ busy[c] \in Int
      /\ nextFrame[c] \in Nat /\ capture[c] \in {0, 1}
      /\ Posted(c) \in Nat /\ queue[c] \in Seq(Events)
  BY ChannelTypes
<1>2. TypeTasks /\ TypeQueue
  BY TypeParts
<1>3. latest' = latest /\ boxes' = boxes
  BY TasksLeavePage DEF page
<1>4. /\ latest[c] < Posted(c) /\ slot[c] < Posted(c) /\ busy[c] < Posted(c)
      /\ boxes[c] <= latest[c] /\ NoFrame < Posted(c)
  BY <1>1 DEF QueueInOrder, FramesInOrderOf, ResultsFollowOf, NoFrame
<1>5. /\ Receivers[1] = "page" /\ Receivers[2] = "task" /\ Len(Receivers) = 2
  BY DEF Receivers
<1>6. CASE PostFrame(c)
  <2>1. capture[c] = 0
    BY <1>1, <1>5, <1>6 DEF PostFrame
  <2>2. capture' = [capture EXCEPT ![c] = @ + 1] /\ nextFrame' = nextFrame
    BY <1>5, <1>6, <2>1 DEF PostFrame, HandedOut
  <2>3. Posted(c) = nextFrame[c] /\ Posted(c)' = Posted(c) + 1
    BY <1>1, <1>2, <2>1, <2>2 DEF Posted, TypeTasks
  <2>4. /\ queue'[c] = Append(queue[c], Frame(Posted(c)))
        /\ slot' = slot /\ busy' = busy
    BY <1>2, <1>6, <2>3 DEF PostFrame, TypeQueue, tasks
  <2> QED
    BY <1>3, <2>3, <2>4, OrderPosted
<1>7. CASE SubmitFrame(c)
  <2>1. capture[c] = 1
    BY <1>1, <1>5, <1>7 DEF SubmitFrame
  <2>2. /\ capture' = [capture EXCEPT ![c] = 0]
        /\ nextFrame' = [nextFrame EXCEPT ![c] = @ + 1]
    BY <1>5, <1>7, <2>1 DEF SubmitFrame, HandedOut
  <2>3. Posted(c) = nextFrame[c] + 1 /\ Posted(c)' = Posted(c)
    BY <1>1, <1>2, <2>1, <2>2 DEF Posted, TypeTasks
  <2>4. /\ queue' = queue /\ busy' = busy
        /\ slot'[c] \in {slot[c], nextFrame[c]}
    BY <1>2, <1>7 DEF SubmitFrame, TypeTasks
  <2>5. slot'[c] < Posted(c)
    BY <1>1, <1>4, <2>3, <2>4
  <2> QED
    BY <1>3, <1>4, <2>3, <2>4, <2>5, OrderKept
<1>8. CASE AlarmOver(c)
  BY <1>3, <1>4, <1>8, OrderKept DEF AlarmOver, Posted, tasks
<1>9. CASE ServeSwitch(c)
  <2>1. /\ queue' = queue /\ busy' = busy /\ Posted(c)' = Posted(c)
        /\ slot'[c] \in {slot[c], NoFrame}
    BY <1>2, <1>9 DEF ServeSwitch, TypeTasks, Posted
  <2> QED
    BY <1>3, <1>4, <2>1, OrderKept
<1>10. CASE Take(c)
  <2>1. /\ queue' = queue /\ Posted(c)' = Posted(c)
        /\ slot'[c] = NoFrame /\ busy'[c] = slot[c]
    BY <1>2, <1>10 DEF Take, TypeTasks, Posted
  <2> QED
    BY <1>3, <1>4, <2>1, OrderKept
<1>11. CASE PostResult(c)
  <2>1. busy[c] \in Nat
    BY <1>2, <1>11 DEF PostResult, TypeTasks, FrameIds
  <2>2. PICK found \in BOOLEAN :
          queue' = [queue EXCEPT ![c] = Append(@, Result(busy[c], found))]
    BY <1>11 DEF PostResult
  <2>3. queue'[c] = Append(queue[c], Result(busy[c], found))
    BY <1>2, <2>2 DEF TypeQueue
  <2>4. slot' = slot /\ busy'[c] = NoFrame /\ Posted(c)' = Posted(c)
    BY <1>2, <1>11 DEF PostResult, TypeTasks, Posted
  <2> QED
    BY <1>3, <2>1, <2>3, <2>4, OrderResult
<1> QED
  BY <1>6, <1>7, <1>8, <1>9, <1>10, <1>11 DEF Capture, Detection

\* The order is kept by what the page does.
LEMMA PageOrder ==
  ASSUME TypeOK, NEW c \in Channels, QueueInOrder(c), Page(c)
  PROVE  QueueInOrder(c)'
<1>1. TypeView /\ TypeQueue
  BY TypeParts
<1>2. /\ queue[c] # <<>> /\ queue'[c] = Tail(queue[c])
      /\ slot' = slot /\ busy' = busy /\ Posted(c)' = Posted(c)
  BY <1>1 DEF Page, OnFrameReady, OnDetectResult, Next1, Served, TypeQueue,
              Posted, tasks
<1>3. \/ /\ Head(queue[c]).kind = "frame"
         /\ latest'[c] = Head(queue[c]).id
         /\ boxes'[c] = boxes[c]
      \/ /\ Head(queue[c]).kind = "result"
         /\ latest'[c] = latest[c]
         /\ boxes'[c] \in {boxes[c], NoFrame, Head(queue[c]).id}
  BY <1>1 DEF Page, OnFrameReady, OnDetectResult, Next1, Accept, page, TypeView
<1> QED
  BY <1>2, <1>3, OrderServed

\* The steps of a channel leave the queues of the others alone.
LEMMA OtherChannels ==
  ASSUME TypeOK, NEW c \in Channels, NEW d \in Channels, c # d,
         Capture(c) \/ Detection(c) \/ Page(c)
  PROVE  /\ queue'[d] = queue[d]
         /\ latest'[d] = latest[d] /\ boxes'[d] = boxes[d]
         /\ slot'[d] = slot[d] /\ busy'[d] = busy[d]
         /\ nextFrame'[d] = nextFrame[d] /\ capture'[d] = capture[d]
<1>1. TypeView /\ TypeTasks /\ TypeQueue
  BY TypeParts
<1> USE <1>1 DEF TypeView, TypeTasks, TypeQueue
<1>2. CASE Capture(c) \/ Detection(c)
  <2>1. latest' = latest /\ boxes' = boxes
    BY <1>2, TasksLeavePage DEF page
  <2>2. ASSUME HandedOut(c)
        PROVE nextFrame'[d] = nextFrame[d] /\ capture'[d] = capture[d]
    BY <2>2 DEF HandedOut
  <2>3. CASE Capture(c)
    BY <2>1, <2>2, <2>3 DEF Capture, PostFrame, SubmitFrame, AlarmOver, tasks
  <2>4. CASE Detection(c)
    BY <2>1, <2>4 DEF Detection, ServeSwitch, Take, PostResult
  <2> QED
    BY <1>2, <2>3, <2>4
<1>3. CASE Page(c)
  BY <1>3 DEF Page, OnFrameReady, OnDetectResult, Served, Accept, page, tasks
<1> QED
  BY <1>2, <1>3

\* The order of frames and results is kept by every step.
LEMMA OrderStep ==
  ASSUME TypeOK, \A c \in Channels : QueueInOrder(c), [Next]_vars,
         NEW d \in Channels
  PROVE  QueueInOrder(d)'
<1>1. /\ latest[d] < Posted(d) /\ slot[d] < Posted(d) /\ busy[d] < Posted(d)
      /\ boxes[d] <= latest[d] /\ QueueInOrder(d)
  BY DEF QueueInOrder, FramesInOrderOf, ResultsFollowOf
<1>2. CASE UNCHANGED vars
  BY <1>1, <1>2, OrderKept DEF vars, page, tasks, Posted
<1>3. CASE Click
  <2>1. UNCHANGED Others /\ Refresh
    BY <1>3, Clicks, TypeParts DEF TypeView
  <2>2. boxes'[d] \in {boxes[d], NoFrame}
    BY <2>1 DEF Refresh
  <2>3. boxes'[d] <= latest[d]
    BY <1>1, <2>2, ChannelTypes DEF NoFrame
  <2> QED
    BY <1>1, <2>1, <2>3, OrderKept DEF Others, Posted
<1>4. ASSUME NEW c \in Channels, Capture(c) \/ Detection(c) \/ Page(c)
      PROVE  QueueInOrder(d)'
  <2>1. CASE c = d
    BY <1>1, <1>4, <2>1, TasksOrder, PageOrder
  <2>2. CASE c # d
    <3>1. /\ queue'[d] = queue[d]
          /\ latest'[d] = latest[d] /\ boxes'[d] = boxes[d]
          /\ slot'[d] = slot[d] /\ busy'[d] = busy[d]
          /\ Posted(d)' = Posted(d)
      BY <1>4, <2>2, OtherChannels DEF Posted
    <3> QED
      BY <1>1, <3>1, OrderKept
  <2> QED
    BY <2>1, <2>2
<1> QED
  BY <1>2, <1>3, <1>4, NextIs

\* The invariant is kept by every step.
LEMMA IInvStep == IInv /\ [Next]_vars => IInv'
<1> SUFFICES ASSUME IInv, [Next]_vars PROVE IInv'
  OBVIOUS
<1>1. TypeOK' /\ OffHoldsNoBoxes' /\ ShownIsCurrent' /\ SwitchConverges'
  BY TypeStep, OffStep, ShownStep, SwitchStep DEF IInv
<1>2. \A c \in Channels : QueueInOrder(c)
  BY QueueOrder DEF IInv
<1>3. \A c \in Channels : QueueInOrder(c)'
  BY <1>2, OrderStep DEF IInv
<1>4. FramesInOrder' /\ FramesArrive' /\ ResultsFollowFrames'
  BY <1>3 DEF FramesInOrder, FramesArrive, ResultsFollowFrames, QueueInOrder,
              FramesInOrderOf, FramesArriveOf, ResultsFollowOf
<1> QED
  BY <1>1, <1>4 DEF IInv

\* So it holds always.
LEMMA IInvHolds == Spec => []IInv
BY InitIInv, IInvStep, PTL DEF Spec
-----------------------------------------------------------------------------
\* Every variable of the page, the queues and the tasks keeps its type.
THEOREM TypeCorrect == Spec => []TypeOK
BY IInvHolds, PTL DEF IInv

\* The labels and the single view are repainted by every handler that changes
\* what they show (monitorwidget.cpp:496-527, 569-646).
THEOREM ScreenIsCurrent == Spec => []ShownIsCurrent
BY IInvHolds, PTL DEF IInv

\* Switching detection off takes the boxes away for good: a result that
\* arrives later is not taken (on_detect_result, monitorwidget.cpp:622-646).
THEOREM OffStaysBlank == Spec => []OffHoldsNoBoxes
BY IInvHolds, PTL DEF IInv

\* Every DetectTask ends up switched as the page wants it, in whatever order
\* toggles, selections and layouts were clicked
\* (refreshDetectionTaskEnables, monitorwidget.cpp:496-512).
THEOREM TasksConverge == Spec => []SwitchConverges
BY IInvHolds, PTL DEF IInv

\* A result never overtakes its frame on the way to the page, because
\* frameReady is connected to the page first (monitorwidget.cpp:356-363): the
\* lag that isDetectionResultExpired computes is not negative.
THEOREM LagNotNegative == Spec => []ResultsFollowFrames
BY IInvHolds, PTL DEF IInv

\* The frames of a channel are shown in the order they were captured, and
\* none is lost on the way.
THEOREM FramesShownInOrder == Spec => [](FramesInOrder /\ FramesArrive)
BY IInvHolds, PTL DEF IInv

\* What starts a recording is drawn at that moment
\* (on_detect_result, which calls notifyAnomalyDetected).
THEOREM AlarmsAreDrawn == Spec => AlarmIsShown
<1>1. ASSUME IInv, [Next]_vars, NEW c \in Channels, ~alarm[c], alarm'[c]
      PROVE  label'[c].boxes # NoFrame /\ detecting
  <2>1. TypeFlags /\ TypeCalls /\ TypeView /\ TypeTasks /\ TypeQueue
    BY <1>1, TypeParts DEF IInv
  <2>2. ASSUME alarm' = alarm PROVE FALSE
    BY <1>1, <2>2
  <2>3. CASE UNCHANGED vars
    BY <2>2, <2>3 DEF vars
  <2>4. CASE Click
    BY <2>1, <2>2, <2>4, Clicks DEF TypeView, Others
  <2>5. ASSUME NEW d \in Channels, Capture(d) \/ Detection(d) PROVE FALSE
    <3>1. CASE AlarmOver(d)
      BY <1>1, <2>1, <3>1, Zenon DEF AlarmOver, TypeFlags
    <3> QED
      BY <2>2, <2>5, <3>1 DEF Capture, Detection, PostFrame, SubmitFrame,
                              ServeSwitch, Take, PostResult
  <2>6. ASSUME NEW d \in Channels, Page(d)
        PROVE  label'[c].boxes # NoFrame /\ detecting
    <3>1. /\ OnDetectResult(d)
          /\ detecting /\ ~Expired(d, Head(queue[d]).id)
          /\ Accept(d, Head(queue[d]))
      BY <2>2, <2>6 DEF Page, OnFrameReady, OnDetectResult
    <3>2. c = d /\ Head(queue[d]).found
      <4>1. alarm'[c] = IF c = d THEN alarm[c] \/ Head(queue[d]).found
                        ELSE alarm[c]
        BY <2>1, <3>1, Zenon DEF Accept, TypeFlags
      <4> QED
        BY <1>1, <4>1, Zenon
    <3>3. Head(queue[d]).id \in Nat
      BY <2>1, <2>6, HeadTypes DEF Page, OnFrameReady, OnDetectResult, Next1
    <3>4. boxes'[d] = Head(queue[d]).id /\ boxes'[d] # NoFrame
      BY <2>1, <3>1, <3>2, <3>3 DEF Accept, TypeView, NoFrame
    <3>5. latest'[d] # NoFrame /\ detecting'
      BY <3>1 DEF Accept, Expired
    <3>6. Compose(d)'.boxes = boxes'[d]
      BY <3>5 DEF Compose
    <3>7. label'[d] = Compose(d)'
      <4> HIDE DEF Compose
      <4> QED
        BY <2>1, <3>1 DEF Accept, Paint, TypeView
    <3> QED
      BY <3>1, <3>2, <3>4, <3>6, <3>7
  <2> QED
    BY <1>1, <2>3, <2>4, <2>5, <2>6, NextIs
<1>2. ASSUME IInv, [Next]_vars
      PROVE  [\A c \in Channels :
                ~alarm[c] /\ alarm'[c] =>
                  label'[c].boxes # NoFrame /\ detecting]_vars
  BY <1>1, <1>2
<1> QED
  BY <1>2, IInvHolds, PTL DEF Spec, AlarmIsShown
=============================================================================
