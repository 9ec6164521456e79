-------------------------- MODULE DetectTaskProofs ---------------------------
(***************************************************************************)
(* The hand-over of frames, for any number of frames and of posted calls:  *)
(* the wakeup is never lost, results come in order, and the two threads    *)
(* implement the mailbox of LatestFrame.  The argument is the token of     *)
(* WakeupToken: m_processScheduled is set exactly while one of the capture *)
(* thread, the queue of posted calls and the running loop holds it.        *)
(* Then the boxes of a result: in the frame, each thing once.              *)
(***************************************************************************)
EXTENDS Boxes, TLAPS, FiniteSetTheorems, WellFoundedInduction

\* With no processLatestFrame posted, only the UI's calls are waiting.
CallsBound == ~Queued => Len(calls) <= MaxCalls

\* While detection is off the mailbox is empty, so leaving the loop then
\* forgets nothing.
OffIsEmpty == ~enable => pending = NoFrame

\* The type in two parts: a prover that handles the numbers handles no
\* Boolean variables beside them.
TypeFlags == enable \in BOOLEAN /\ scheduled \in BOOLEAN

TypeData ==
  /\ pending \in Nat \cup {NoFrame}
  /\ nextFrame \in Nat
  /\ capture \in {"idle", "post"}
  /\ calls \in Seq(Calls)
  /\ Len(calls) <= MaxCalls + 1
  /\ detector \in {"events", "loop", "detecting"}
  /\ taken \in Nat \cup {NoFrame}
  /\ result \in Nat \cup {NoFrame}

\* The inductive invariant.
IInv ==
  /\ TypeOK
  /\ WakeupToken
  /\ CallsBound
  /\ NoLostWakeup
  /\ OffIsEmpty
  /\ FrameOrder

\* Where a posted call is in the queue before and after Append and Tail.
LEMMA QueueAppend ==
  ASSUME NEW c \in Calls, calls \in Seq(Calls), calls' = Append(calls, c)
  PROVE  /\ calls' \in Seq(Calls)
         /\ Len(calls') = Len(calls) + 1
         /\ calls'[Len(calls) + 1] = c
         /\ \A i \in 1..Len(calls) : calls'[i] = calls[i]
  OBVIOUS

LEMMA QueueTail ==
  ASSUME calls \in Seq(Calls), calls # <<>>, calls' = Tail(calls)
  PROVE  /\ calls' \in Seq(Calls)
         /\ Len(calls') = Len(calls) - 1
         /\ Len(calls) >= 1
         /\ Head(calls) = calls[1]
         /\ \A i \in 1..(Len(calls) - 1) : calls'[i] = calls[i + 1]
  OBVIOUS

LEMMA InitInvariant == Init => IInv
<1> SUFFICES ASSUME Init PROVE IInv
  OBVIOUS
<1> USE DEF Init
<1>1. TypeOK
  <2>1. TypeFlags BY DEF TypeFlags
  <2>2. TypeData BY BoundsAssumption DEF TypeData, NoFrame
  <2>3. QED BY <2>1, <2>2, Zenon DEF TypeOK, TypeFlags, TypeData
<1>2. ~Queued
  BY DEF Queued
<1>3. WakeupToken
  BY <1>2 DEF WakeupToken
<1>4. CallsBound /\ NoLostWakeup /\ OffIsEmpty /\ FrameOrder
  BY BoundsAssumption
     DEF CallsBound, NoLostWakeup, OffIsEmpty, FrameOrder, NoFrame
<1>5. QED
  BY <1>1, <1>3, <1>4 DEF IInv

\* Every step of the two threads and of the UI keeps the invariant.
LEMMA StepInvariant == IInv /\ [Next]_vars => IInv'
<1> SUFFICES ASSUME IInv, [Next]_vars PROVE IInv'
  OBVIOUS
<1> USE BoundsAssumption DEF mailbox
<1>0. /\ TypeOK /\ WakeupToken /\ CallsBound
      /\ NoLostWakeup /\ OffIsEmpty /\ FrameOrder
  BY DEF IInv
<1>1. CASE SubmitFrame
  <2>1. TypeOK'
    <3>1. TypeFlags'
      BY <1>0, <1>1, Zenon DEF SubmitFrame, TypeOK, TypeFlags
    <3>2. TypeData'
      BY <1>0, <1>1 DEF SubmitFrame, TypeOK, TypeData
    <3>3. QED BY <3>1, <3>2, Zenon DEF TypeOK, TypeFlags, TypeData
  <2>2. Queued' <=> Queued
    BY <1>1 DEF SubmitFrame, Queued
  <2>3. WakeupToken' /\ CallsBound'
    BY <1>0, <1>1, <2>2 DEF SubmitFrame, TypeOK, WakeupToken, CallsBound
  <2>4. NoLostWakeup' /\ OffIsEmpty'
    BY <1>0, <1>1 DEF SubmitFrame, NoLostWakeup, OffIsEmpty
  <2>5. FrameOrder'
    BY <1>0, <1>1 DEF SubmitFrame, TypeOK, FrameOrder, NoFrame
  <2>6. QED BY <2>1, <2>3, <2>4, <2>5 DEF IInv
<1>2. CASE PostProcess
  <2>0. calls \in Seq(Calls) /\ ~Queued /\ Process \in Calls
    BY <1>0, <1>2 DEF TypeOK, PostProcess, WakeupToken, Calls
  <2>1. /\ calls' \in Seq(Calls)
        /\ Len(calls') = Len(calls) + 1
        /\ calls'[Len(calls) + 1] = Process
        /\ \A i \in 1..Len(calls) : calls'[i] = calls[i]
    BY <1>2, <2>0, QueueAppend DEF PostProcess
  <2>2. Queued'
    BY <2>0, <2>1 DEF Queued
  <2>3. \A i \in 1..Len(calls') : calls'[i] = Process => i = Len(calls')
    BY <2>0, <2>1 DEF Queued
  <2>4. TypeOK'
    BY <1>0, <1>2, <2>0, <2>1 DEF PostProcess, TypeOK, CallsBound
  <2>5. WakeupToken'
    BY <1>0, <1>2, <2>2, <2>3 DEF PostProcess, WakeupToken
  <2>6. CallsBound' /\ NoLostWakeup' /\ OffIsEmpty' /\ FrameOrder'
    BY <1>0, <1>2, <2>2 DEF PostProcess, CallsBound, NoLostWakeup, OffIsEmpty,
           FrameOrder
  <2>7. QED BY <2>4, <2>5, <2>6 DEF IInv
<1>3. CASE \E b \in BOOLEAN : ServeSetDetectEnable(b)
  <2> PICK b \in BOOLEAN : ServeSetDetectEnable(b)
    BY <1>3
  <2>0. calls \in Seq(Calls) /\ calls # <<>> /\ calls' = Tail(calls)
    BY <1>0 DEF TypeOK, ServeSetDetectEnable
  <2>1. /\ calls' \in Seq(Calls)
        /\ Len(calls') = Len(calls) - 1
        /\ Len(calls) >= 1
        /\ calls[1] # Process
        /\ \A i \in 1..(Len(calls) - 1) : calls'[i] = calls[i + 1]
    BY <2>0, QueueTail DEF ServeSetDetectEnable, SetEnable, Process
  <2>2. Queued' <=> Queued
    <3>1. ASSUME Queued PROVE Queued'
      <4> PICK i \in 1..Len(calls) : calls[i] = Process
        BY <3>1 DEF Queued
      <4>1. i - 1 \in 1..Len(calls') /\ calls'[i - 1] = Process
        BY <2>0, <2>1
      <4>2. QED BY <4>1 DEF Queued
    <3>2. ASSUME Queued' PROVE Queued
      <4> PICK i \in 1..Len(calls') : calls'[i] = Process
        BY <3>2 DEF Queued
      <4>1. i + 1 \in 1..Len(calls) /\ calls[i + 1] = Process
        BY <2>0, <2>1
      <4>2. QED BY <4>1 DEF Queued
    <3>3. QED BY <3>1, <3>2
  <2>3. \A i, j \in 1..Len(calls') :
          calls'[i] = Process /\ calls'[j] = Process => i = j
    <3> SUFFICES ASSUME NEW i \in 1..Len(calls'), NEW j \in 1..Len(calls'),
                        calls'[i] = Process, calls'[j] = Process
                 PROVE  i = j
      OBVIOUS
    <3>1. /\ i + 1 \in 1..Len(calls) /\ calls[i + 1] = Process
          /\ j + 1 \in 1..Len(calls) /\ calls[j + 1] = Process
      BY <2>0, <2>1
    <3>2. i + 1 = j + 1
      BY <1>0, <3>1 DEF WakeupToken
    <3>3. QED BY <2>0, <2>1, <3>2
  <2>4. TypeOK'
    BY <1>0, <2>0, <2>1 DEF ServeSetDetectEnable, TypeOK, NoFrame
  <2>5. WakeupToken'
    BY <1>0, <2>2, <2>3 DEF ServeSetDetectEnable, WakeupToken
  <2>6. CallsBound' /\ NoLostWakeup' /\ OffIsEmpty' /\ FrameOrder'
    BY <1>0, <2>0, <2>1, <2>2
       DEF ServeSetDetectEnable, CallsBound, NoLostWakeup, OffIsEmpty,
           FrameOrder
  <2>7. QED BY <2>4, <2>5, <2>6 DEF IInv
<1>4. CASE ServeProcess
  <2>0. calls \in Seq(Calls) /\ calls # <<>> /\ calls' = Tail(calls)
    BY <1>0, <1>4 DEF TypeOK, ServeProcess
  <2>1. /\ calls' \in Seq(Calls)
        /\ Len(calls') = Len(calls) - 1
        /\ Len(calls) >= 1
        /\ calls[1] = Process
        /\ \A i \in 1..(Len(calls) - 1) : calls'[i] = calls[i + 1]
    BY <1>4, <2>0, QueueTail DEF ServeProcess
  <2>2. Queued
    BY <2>0, <2>1 DEF Queued
  <2>3. ASSUME NEW i \in 1..Len(calls'), calls'[i] = Process PROVE FALSE
    <3>1. i + 1 \in 1..Len(calls) /\ calls[i + 1] = Process /\ i + 1 # 1
      BY <2>0, <2>1, <2>3
    <3>2. QED BY <1>0, <2>1, <3>1 DEF WakeupToken
  <2>4. ~Queued'
    BY <2>3 DEF Queued
  <2>5. TypeOK'
    BY <1>0, <1>4, <2>0, <2>1 DEF ServeProcess, TypeOK
  <2>6. WakeupToken'
    BY <1>0, <1>4, <2>2, <2>3, <2>4 DEF ServeProcess, WakeupToken
  <2>7. CallsBound' /\ NoLostWakeup' /\ OffIsEmpty' /\ FrameOrder'
    BY <1>0, <1>4, <2>0, <2>1
       DEF ServeProcess, TypeOK, CallsBound, NoLostWakeup, OffIsEmpty,
           FrameOrder
  <2>8. QED BY <2>5, <2>6, <2>7 DEF IInv
<1>5. CASE TakeFrame \/ LeaveLoop \/ EmitResult \/ SkipFrame
  <2> USE DEF TakeFrame, LeaveLoop, EmitResult, SkipFrame
  <2>1. TypeOK'
    <3>1. TypeFlags'
      BY <1>0, <1>5, Zenon DEF TypeOK, TypeFlags
    <3>2. TypeData'
      BY <1>0, <1>5 DEF TypeOK, TypeData
    <3>3. QED BY <3>1, <3>2, Zenon DEF TypeOK, TypeFlags, TypeData
  <2>2. Queued' <=> Queued
    BY <1>5 DEF Queued
  <2>3. WakeupToken' /\ CallsBound'
    BY <1>0, <1>5, <2>2 DEF TypeOK, WakeupToken, CallsBound
  <2>4. NoLostWakeup' /\ OffIsEmpty'
    BY <1>0, <1>5 DEF NoLostWakeup, OffIsEmpty, WakeupToken
  <2>5. FrameOrder'
    BY <1>0, <1>5 DEF TypeOK, FrameOrder, NoFrame
  <2>6. QED BY <2>1, <2>3, <2>4, <2>5 DEF IInv
<1>6. CASE \E b \in BOOLEAN : PostSetDetectEnable(b)
  <2> PICK b \in BOOLEAN : PostSetDetectEnable(b)
    BY <1>6
  <2>0. calls \in Seq(Calls) /\ SetEnable(b) \in Calls /\ SetEnable(b) # Process
    BY <1>0 DEF TypeOK, Calls, SetEnable, Process
  <2>1. /\ calls' \in Seq(Calls)
        /\ Len(calls') = Len(calls) + 1
        /\ calls'[Len(calls) + 1] # Process
        /\ \A i \in 1..Len(calls) : calls'[i] = calls[i]
    BY <2>0, QueueAppend DEF PostSetDetectEnable
  <2>2. \A i \in 1..Len(calls') :
          calls'[i] = Process => i \in 1..Len(calls) /\ calls[i] = Process
    BY <2>0, <2>1
  <2>3. Queued' <=> Queued
    BY <2>0, <2>1, <2>2 DEF Queued
  <2>4. TypeOK'
    BY <1>0, <2>0, <2>1 DEF PostSetDetectEnable, TypeOK
  <2>5. WakeupToken'
    BY <1>0, <2>2, <2>3 DEF PostSetDetectEnable, WakeupToken
  <2>6. CallsBound' /\ NoLostWakeup' /\ OffIsEmpty' /\ FrameOrder'
    BY <1>0, <2>0, <2>1, <2>3
       DEF PostSetDetectEnable, CallsBound, NoLostWakeup, OffIsEmpty,
           FrameOrder
  <2>7. QED BY <2>4, <2>5, <2>6 DEF IInv
<1>7. CASE UNCHANGED vars
  BY <1>0, <1>7 DEF vars, IInv, TypeOK, WakeupToken, CallsBound, Queued,
                    NoLostWakeup, OffIsEmpty, FrameOrder
<1>8. QED
  BY <1>1, <1>2, <1>3, <1>4, <1>5, <1>6, <1>7 DEF Next, Detector

LEMMA Invariant == Spec => []IInv
<1>1. QED
  BY InitInvariant, StepInvariant, PTL DEF Spec

\* Types, and at most one call beside the UI's in the detection thread's queue.
THEOREM TypeCorrect == Spec => []TypeOK
<1>1. IInv => TypeOK
  BY DEF IInv
<1>2. QED
  BY Invariant, <1>1, PTL

\* The scheduling flag stands for exactly one pending look at the mailbox.
THEOREM OneToken == Spec => []WakeupToken
<1>1. IInv => WakeupToken
  BY DEF IInv
<1>2. QED
  BY Invariant, <1>1, PTL

\* A frame in the mailbox is never forgotten by both threads.
THEOREM WakeupNotLost == Spec => []NoLostWakeup
<1>1. IInv => NoLostWakeup
  BY DEF IInv
<1>2. QED
  BY Invariant, <1>1, PTL

\* Frames pass from capture to result in the order of their ids.
THEOREM FramesInOrder == Spec => []FrameOrder
<1>1. IInv => FrameOrder
  BY DEF IInv
<1>2. QED
  BY Invariant, <1>1, PTL

\* A later result is never for an earlier frame.
THEOREM ResultsInOrder == Spec => ResultsAdvance
<1>1. IInv /\ [Next]_vars => [result' # result => result' > result]_result
  BY DEF IInv, TypeOK, FrameOrder, NoFrame, Next, Detector, SubmitFrame,
         PostProcess, ServeSetDetectEnable, ServeProcess, TakeFrame,
         LeaveLoop, EmitResult, SkipFrame, PostSetDetectEnable, vars
<1>2. QED
  BY Invariant, <1>1, PTL DEF Spec, ResultsAdvance

\* The locked part of submitFrame puts a frame into the mailbox that is newer
\* than the one it replaces, or drops it while detection is off.
LEMMA SubmitPuts ==
  ASSUME IInv, SubmitFrame
  PROVE  IF enable THEN Mailbox!Put(nextFrame) /\ nextFrame < MaxFrames
                   ELSE UNCHANGED <<enable, pending, taken>>
<1>1. CASE enable
  BY <1>1, BoundsAssumption
     DEF SubmitFrame, IInv, TypeOK, FrameOrder, NoFrame, Mailbox!Put
<1>2. CASE ~enable
  BY <1>2 DEF SubmitFrame
<1> QED
  BY <1>1, <1>2

\* What the mailbox sees of a step: a call that is posted or served as such,
\* the end of a loop, a result and a frame passed over change nothing in it.
MailboxSees ==
  \/ Mailbox!Take
  \/ \E id \in 0..(MaxFrames - 1) : Mailbox!Put(id)
  \/ \E b \in BOOLEAN : Mailbox!Switch(b)
  \/ UNCHANGED <<enable, pending, taken>>

\* The capture thread and the UI, which only fill the mailbox or post.
LEMMA CallersStep ==
  ASSUME IInv,
         SubmitFrame \/ PostProcess \/ \E b \in BOOLEAN : PostSetDetectEnable(b)
  PROVE  MailboxSees
<1>a. CASE SubmitFrame
  <2> nextFrame \in Nat
    BY DEF IInv, TypeOK
  <2> QED
    BY <1>a, SubmitPuts, BoundsAssumption DEF MailboxSees
<1>b. CASE ~SubmitFrame
  BY <1>b DEF MailboxSees, PostProcess, PostSetDetectEnable, mailbox
<1> QED
  BY <1>a, <1>b

\* The detection thread, which takes frames out and serves the switch.
LEMMA DetectorStep == Detector => MailboxSees
<1>a. TakeFrame => Mailbox!Take
  BY DEF TakeFrame, Mailbox!Take, NoFrame, Mailbox!NoFrame
<1>b. \A b \in BOOLEAN : ServeSetDetectEnable(b) => Mailbox!Switch(b)
  BY DEF ServeSetDetectEnable, Mailbox!Switch, NoFrame, Mailbox!NoFrame
<1>c. ServeProcess \/ LeaveLoop \/ EmitResult \/ SkipFrame
        => UNCHANGED <<enable, pending, taken>>
  BY DEF ServeProcess, LeaveLoop, EmitResult, SkipFrame, mailbox
<1> QED
  BY <1>a, <1>b, <1>c DEF Detector, MailboxSees

\* The two threads implement the mailbox: what they do to the shared slot is,
\* seen from outside, putting, taking and switching, one at a time.
THEOREM RefinesMailbox == Spec => Mailbox!Safety
<1> DEFINE Seen == [Mailbox!Next]_(Mailbox!vars)
<1>start. Init => Mailbox!Init
  BY DEF Init, Mailbox!Init, NoFrame, Mailbox!NoFrame
<1>step. IInv /\ [Next]_vars => Seen
  <2>a. vars' = vars => UNCHANGED <<enable, pending, taken>>
    BY DEF vars, mailbox
  <2>b. IInv /\ [Next]_vars => MailboxSees
    BY <2>a, CallersStep, DetectorStep DEF Next, MailboxSees
  <2>c. MailboxSees => Seen
    BY DEF MailboxSees, Mailbox!Next, Mailbox!vars
  <2> QED
    BY <2>b, <2>c
<1> QED
  BY Invariant, <1>start, <1>step, PTL DEF Spec, Mailbox!Safety
-----------------------------------------------------------------------------
(***************************************************************************)
(* The boxes of a result: first of one candidate, then of one that is left *)
(* out for another, then of a whole output.  The set NMSBoxes chooses      *)
(* exists, there is but one, and it is what OpenCV's loop over the sorted  *)
(* boxes computes; each is an induction over the order of the boxes, which *)
(* is made by looking at the least position where it fails.                *)
(***************************************************************************)
Rect == [x : Int, y : Int, w : Int, h : Int]

Box == [at : Nat, rect : Rect, class : TargetClasses, score : Int]

InFrame(r) ==
  /\ 0 <= r.x /\ r.x + r.w <= FrameWidth
  /\ 0 <= r.y /\ r.y + r.h <= FrameHeight

\* Truncated to pixels, a place stays a number.
LEMMA TruncIsInt == \A a \in Int : Trunc(a, PerPixel) \in Int
                                   /\ Trunc(a, 2 * PerPixel) \in Int
<1>1. \A a \in Int, b \in Nat \ {0} : Trunc(a, b) \in Int
  BY DEF Trunc
<1>2. PerPixel \in Nat \ {0} /\ 2 * PerPixel \in Nat \ {0}
  BY BoxesAssumption
<1>3. QED BY <1>1, <1>2

\* Either layout of the network's output gives a rectangle.
LEMMA PlacesAreRects ==
  ASSUME NEW c \in Candidate
  PROVE  (IF c.kind = "center" THEN FromCenter(c.place)
          ELSE FromSides(c.place)) \in Rect
<1>1. CASE c.kind = "center"
  <2>1. c.place \in [cx : Int, cy : Int, w : Int, h : Int]
    BY <1>1 DEF Candidate
  <2>2. FromCenter(c.place) \in Rect
    BY <2>1, TruncIsInt DEF FromCenter, Rect
  <2>3. QED BY <1>1, <2>2
<1>2. CASE c.kind # "center"
  <2>1. c.place \in [cx : Int, cy : Int, left : Int, top : Int,
                     right : Int, bottom : Int]
    BY <1>2 DEF Candidate
  <2>2. FromSides(c.place) \in Rect
    BY <2>1, TruncIsInt DEF FromSides, Rect
  <2>3. QED BY <1>2, <2>2
<1>3. QED BY <1>1, <1>2

\* Cutting leaves a rectangle in the frame (an empty one, if need be), and does
\* nothing to one that is there.
LEMMA CutToFrame ==
  ASSUME NEW r \in Rect
  PROVE  /\ Clip(r) \in Rect
         /\ InFrame(Clip(r))
         /\ InFrame(r) => Clip(r) = r
<1>1. FrameWidth \in Nat /\ FrameHeight \in Nat
  BY BoxesAssumption
<1>2. Clip(r) \in Rect
  BY <1>1 DEF Clip, Meet, Greater, Smaller, FrameRect, Rect
<1>3. InFrame(Clip(r))
  BY <1>1 DEF Clip, Meet, Greater, Smaller, FrameRect, Rect, InFrame
<1>4. ASSUME InFrame(r) PROVE Clip(r) = r
  BY <1>1, <1>4 DEF Clip, Meet, Greater, Smaller, FrameRect, Rect, InFrame
<1>5. QED BY <1>2, <1>3, <1>4

\* The best class is one of the classes, if there is one.
LEMMA BestIsTarget ==
  ASSUME NEW s \in [TargetClasses -> Int], BestClass(s) # NoClass
  PROVE  BestClass(s) \in TargetClasses
<1> DEFINE Best(c) == \A d \in TargetClasses :
              s[c] > s[d] \/ (s[c] = s[d] /\ c <= d)
<1>1. s[0] \in Int /\ s[2] \in Int /\ 0 \in TargetClasses
      /\ 2 \in TargetClasses
  BY DEF TargetClasses
<1>2. Best(0) \/ Best(2)
  BY <1>1 DEF TargetClasses
<1>3. \E c \in TargetClasses : Best(c)
  BY <1>1, <1>2
<1>4. BestClass(s) = CHOOSE c \in TargetClasses : Best(c)
  BY DEF BestClass
<1> HIDE DEF Best
<1>5. QED BY <1>3, <1>4

\* A candidate gives one box at most.
LEMMA DecodedAlone ==
  ASSUME NEW c \in Candidate, NEW at \in Nat, NEW b \in Decode(c, at)
  PROVE  /\ b \in Box /\ b.at = at
         /\ ~Empty(b.rect) /\ InFrame(b.rect)
         /\ Decode(c, at) = {b}
<1> DEFINE cut == Clip(IF c.kind = "center" THEN FromCenter(c.place)
                       ELSE FromSides(c.place))
           class == BestClass(c.scores)
           found == [at |-> at, rect |-> cut, class |-> class,
                     score |-> c.scores[class]]
<1>1. class # NoClass /\ ~Empty(cut) /\ Decode(c, at) = {found}
  BY DEF Decode
<1>2. b = found
  BY <1>1
<1>3. cut \in Rect /\ InFrame(cut)
  BY PlacesAreRects, CutToFrame
<1>4. c.scores \in [TargetClasses -> Int]
  BY DEF Candidate
<1>5. class \in TargetClasses
  BY <1>1, <1>4, BestIsTarget
<1>6. c.scores[class] \in Int
  BY <1>4, <1>5
<1> HIDE DEF cut, class
<1>7. QED BY <1>1, <1>2, <1>3, <1>5, <1>6 DEF Box

\* What the decoding of a candidate gives is a box that is not empty and
\* lies in the frame, wherever the network puts the candidate.
THEOREM DecodedInFrame ==
  ASSUME NEW c \in Candidate, NEW at \in Nat, NEW b \in Decode(c, at)
  PROVE  b.rect \in Rect /\ ~Empty(b.rect) /\ InFrame(b.rect)
BY DecodedAlone DEF Box

\* A rectangle with sides a and b shares d x c of them with one of areaA, and
\* the two overlap by more than the threshold: then a is less than 5 / 4 of d.
\* (That the threshold is 80 is what makes it so.)
LEMMA SidesAlike ==
  ASSUME NEW a \in Nat, NEW b \in Nat, NEW c \in Nat \ {0},
         NEW d \in Nat \ {0}, NEW areaA \in Nat,
         c <= b, c * d <= areaA,
         100 * (c * d) > 80 * (areaA + a * b - c * d)
  PROVE  80 * a < 100 * d
<1>1. 100 * (c * d) > 80 * (a * b)
  BY SMT
<1>2. a * b >= a * c
  BY SMT
<1>3. 100 * (d * c) > 80 * (a * c)
  BY <1>1, <1>2, SMT
<1>4. (100 * d) * c > (80 * a) * c
  BY <1>3, SMT
<1>5. QED
  BY <1>4, SMT
\* What two rectangles share is no larger than either.
LEMMA SharedIsSmaller ==
  ASSUME NEW a \in Rect, NEW b \in Rect
  PROVE  /\ Meet(a, b) \in Rect
         /\ Meet(a, b).w <= a.w /\ Meet(a, b).w <= b.w
         /\ Meet(a, b).h <= a.h /\ Meet(a, b).h <= b.h
BY DEF Meet, Greater, Smaller, Rect

\* Nor is a side of one then 5 / 4 of the same side of the other.
LEMMA SidesOfOverlap ==
  ASSUME NEW a \in Rect, NEW b \in Rect, ~Empty(a), ~Empty(b),
         OverlapMuch(a, b)
  PROVE  80 * b.w < 100 * a.w /\ 80 * b.h < 100 * a.h
<1> DEFINE m == Meet(a, b)
<1>1. /\ m \in Rect
      /\ m.w <= a.w /\ m.w <= b.w /\ m.h <= a.h /\ m.h <= b.h
  BY SharedIsSmaller
<1> HIDE DEF m
<1>2. /\ a.w \in Nat \ {0} /\ a.h \in Nat \ {0}
      /\ b.w \in Nat \ {0} /\ b.h \in Nat \ {0}
      /\ m.w \in Int /\ m.h \in Int
  BY <1>1 DEF Empty, Rect
<1>3. a.w * a.h \in Nat /\ b.w * b.h \in Nat
  BY <1>2
<1>4. Area(a) = a.w * a.h /\ Area(b) = b.w * b.h
  BY DEF Area
<1>5. 100 * Area(m) > 80 * (a.w * a.h + b.w * b.h - Area(m))
  BY <1>4 DEF OverlapMuch, NmsThreshold, m
<1>6. ~Empty(m)
  BY <1>3, <1>5 DEF Area
<1>7. m.w \in Nat \ {0} /\ m.h \in Nat \ {0} /\ Area(m) = m.w * m.h
  BY <1>2, <1>6 DEF Empty, Area
<1>8. m.w * m.h <= a.w * a.h
  <2>1. \A p, q, r, s \in Nat : p <= q /\ r <= s => p * r <= q * s
    <3>1. \A p, q, r \in Nat : p <= q => p * r <= q * r
      BY SMT
    <3>2. \A q, r, s \in Nat : r <= s => q * r <= q * s
      BY SMT
    <3>3. QED BY <3>1, <3>2, SMT
  <2>2. QED BY <1>1, <1>2, <1>7, <2>1
<1>9. 80 * b.w < 100 * m.w
  <2>1. 100 * (m.h * m.w) > 80 * (a.w * a.h + b.w * b.h - m.h * m.w)
    BY <1>2, <1>5, <1>7
  <2>2. m.h * m.w <= a.w * a.h
    BY <1>2, <1>7, <1>8
  <2>3. QED BY <1>1, <1>2, <1>3, <1>7, <2>1, <2>2, SidesAlike
<1>10. 80 * b.h < 100 * m.h
  <2>1. 100 * (m.w * m.h) > 80 * (a.w * a.h + b.h * b.w - m.w * m.h)
    BY <1>2, <1>5, <1>7
  <2>2. QED BY <1>1, <1>2, <1>3, <1>7, <1>8, <2>1, SidesAlike
<1>11. QED BY <1>1, <1>2, <1>9, <1>10

\* Nothing that would be shown is lost to a box that is not: what overlaps
\* with a box detectObjects drops, for being at most two pixels wide or high,
\* is dropped itself.  So that the suppression comes first does no harm.
THEOREM SmallHidesSmall ==
  ASSUME NEW c \in Candidate, NEW i \in Nat, NEW kept \in Decode(c, i),
         NEW d \in Candidate, NEW j \in Nat, NEW hidden \in Decode(d, j),
         OverlapMuch(kept.rect, hidden.rect), Visible(hidden)
  PROVE  Visible(kept)
<1>1. /\ kept.rect \in Rect /\ ~Empty(kept.rect) /\ InFrame(kept.rect)
      /\ hidden.rect \in Rect /\ ~Empty(hidden.rect) /\ InFrame(hidden.rect)
  BY DecodedInFrame
<1>2. Clip(kept.rect) = kept.rect /\ Clip(hidden.rect) = hidden.rect
  BY <1>1, CutToFrame
<1>3. /\ 80 * hidden.rect.w < 100 * kept.rect.w
      /\ 80 * hidden.rect.h < 100 * kept.rect.h
  BY <1>1, SidesOfOverlap
<1>4. QED BY <1>1, <1>2, <1>3 DEF Visible, Rect

\* A set of numbers has a least element.
LEMMA LeastNumber ==
  ASSUME NEW T \in SUBSET Nat, T # {}
  PROVE  \E n \in T : \A m \in T : n <= m
<1>1. PICK n \in T : \A m \in T : ~(<<m, n>> \in OpToRel(<, Nat))
  BY NatLessThanWellFounded, WFMin
<1>2. \A m \in T : ~(m < n)
  BY <1>1 DEF OpToRel
<1>3. QED BY <1>2

\* The boxes of an output are boxes, finitely many, and no two are from the
\* same position.
LEMMA DecodedBoxes ==
  ASSUME NEW cs \in Seq(Candidate)
  PROVE  /\ Decoded(cs) \subseteq Box
         /\ IsFiniteSet(Decoded(cs))
         /\ \A a, b \in Decoded(cs) : a.at = b.at => a = b
         /\ \A b \in Decoded(cs) : /\ b.at \in DOMAIN cs
                                   /\ cs[b.at] \in Candidate
                                   /\ b \in Decode(cs[b.at], b.at)
<1>1. /\ DOMAIN cs = 1..Len(cs) /\ Len(cs) \in Nat
      /\ \A i \in DOMAIN cs : cs[i] \in Candidate /\ i \in Nat
  OBVIOUS
<1>2. \A b \in Decoded(cs) :
        \E i \in DOMAIN cs : b \in Decode(cs[i], i)
  BY DEF Decoded
<1>3. \A b \in Decoded(cs) : /\ b.at \in DOMAIN cs /\ b \in Box
                             /\ b \in Decode(cs[b.at], b.at)
                             /\ Decode(cs[b.at], b.at) = {b}
  BY <1>1, <1>2, DecodedAlone
<1>4. \A a, b \in Decoded(cs) : a.at = b.at => a = b
  BY <1>3
<1>5. IsFiniteSet(Decoded(cs))
  <2> DEFINE at == [b \in Decoded(cs) |-> b.at]
  <2>1. at \in Injection(Decoded(cs), 1..Len(cs))
    BY <1>1, <1>3, <1>4 DEF Injection, IsInjective
  <2>2. IsFiniteSet(1..Len(cs))
    BY <1>1, FS_Interval
  <2>3. QED BY <2>1, <2>2, FS_Injection
<1>6. QED BY <1>1, <1>3, <1>4, <1>5

\* Before orders boxes strictly, and any two of different positions.
LEMMA BeforeIsOrder ==
  /\ \A a \in Box : ~Before(a, a)
  /\ \A a, b \in Box : a.at # b.at => Before(a, b) \/ Before(b, a)
  /\ \A a, b, c \in Box : Before(a, b) /\ Before(b, c) => Before(a, c)
BY DEF Before, Box

\* Overlapping by much is mutual.
LEMMA OverlapIsMutual ==
  ASSUME NEW a \in Rect, NEW b \in Rect
  PROVE  OverlapMuch(a, b) <=> OverlapMuch(b, a)
<1>1. Meet(a, b) = Meet(b, a)
  BY DEF Meet, Greater, Smaller, Rect
<1>2. Area(a) \in Int /\ Area(b) \in Int /\ Area(Meet(a, b)) \in Int
  <2>1. \A r \in Rect : Area(r) \in Int
    BY DEF Area, Rect
  <2>2. Meet(a, b) \in Rect
    BY SharedIsSmaller
  <2>3. QED BY <2>1, <2>2
<1>3. Area(a) + Area(b) - Area(Meet(a, b))
        = Area(b) + Area(a) - Area(Meet(b, a))
  BY <1>1, <1>2
<1>4. QED BY <1>1, <1>3 DEF OverlapMuch

\* Finitely many boxes can be numbered along their order: by how many are
\* before each.
LEMMA Ranked ==
  ASSUME NEW S \in SUBSET Box, IsFiniteSet(S)
  PROVE  /\ Cardinality(S) \in Nat
         /\ \E rank \in [S -> 0..(Cardinality(S) - 1)] :
              \A a, b \in S : Before(a, b) => rank[a] < rank[b]
<1> DEFINE Earlier(b) == {k \in S : Before(k, b)}
           rank == [b \in S |-> Cardinality(Earlier(b))]
<1>1. ASSUME NEW b \in S
      PROVE  /\ IsFiniteSet(Earlier(b)) /\ Cardinality(Earlier(b)) \in Nat
             /\ Cardinality(Earlier(b)) < Cardinality(S)
  <2>1. Earlier(b) \in SUBSET S /\ b \notin Earlier(b)
    BY BeforeIsOrder
  <2> HIDE DEF Earlier
  <2>2. /\ IsFiniteSet(Earlier(b))
        /\ Cardinality(Earlier(b)) <= Cardinality(S)
        /\ Cardinality(Earlier(b)) # Cardinality(S)
    BY <2>1, FS_Subset
  <2>3. Cardinality(Earlier(b)) \in Nat /\ Cardinality(S) \in Nat
    BY <2>2, FS_CardinalityType
  <2>4. QED BY <2>2, <2>3
<1>2. ASSUME NEW a \in S, NEW b \in S, Before(a, b)
      PROVE  Cardinality(Earlier(a)) < Cardinality(Earlier(b))
  <2>1. Earlier(a) \in SUBSET Earlier(b)
    BY <1>2, BeforeIsOrder
  <2>2. a \in Earlier(b) /\ a \notin Earlier(a)
    BY <1>2, BeforeIsOrder
  <2> HIDE DEF Earlier
  <2>3. /\ Cardinality(Earlier(a)) <= Cardinality(Earlier(b))
        /\ Cardinality(Earlier(a)) # Cardinality(Earlier(b))
    BY <1>1, <2>1, <2>2, FS_Subset
  <2>4. QED BY <1>1, <2>3
<1> HIDE DEF Earlier
<1>3. Cardinality(S) \in Nat
  BY FS_CardinalityType
<1>4. rank \in [S -> 0..(Cardinality(S) - 1)]
  BY <1>1, <1>3
<1>5. \A a, b \in S : Before(a, b) => rank[a] < rank[b]
  BY <1>2
<1>6. QED BY <1>3, <1>4, <1>5
-----------------------------------------------------------------------------
\* What NMSBoxes asks of the boxes it keeps of those that are sure.
IsKept(kept, sure) ==
  \A b \in sure :
    b \in kept <=> ~\E k \in kept : Before(k, b) /\ OverlapMuch(k.rect, b.rect)

Sure(found) == {b \in found : b.score > ConfThreshold}

\* There are boxes to keep: those of the first n numbers, for every n.
LEMMA KeptExists ==
  ASSUME NEW S \in SUBSET Box, IsFiniteSet(S)
  PROVE  \E kept \in SUBSET S : IsKept(kept, S)
<1>1. PICK rank \in [S -> 0..(Cardinality(S) - 1)] :
        \A a, b \in S : Before(a, b) => rank[a] < rank[b]
  BY Ranked
<1>2. Cardinality(S) \in Nat
  BY Ranked
<1>3. \A b \in S : rank[b] \in Nat /\ rank[b] < Cardinality(S)
  BY <1>2, <1>1
<1> DEFINE First(n) == {b \in S : rank[b] < n}
           Fails == {n \in Nat : ~\E kept \in SUBSET First(n) :
                                    IsKept(kept, First(n))}
<1>4. 0 \notin Fails
  <2>1. First(0) = {}
    BY <1>3
  <2>2. IsKept({}, {})
    BY DEF IsKept
  <2>3. QED BY <2>1, <2>2
<1>5. ASSUME NEW n \in Nat, n \notin Fails
      PROVE  n + 1 \notin Fails
  <2>1. PICK kept \in SUBSET First(n) : IsKept(kept, First(n))
    BY <1>5
  <2> DEFINE Hit(b, K) == \E k \in K : Before(k, b)
                                       /\ OverlapMuch(k.rect, b.rect)
             more == kept \cup {b \in S : rank[b] = n /\ ~Hit(b, kept)}
  <2>2. more \in SUBSET First(n + 1)
    BY <1>3
  <2>3. ASSUME NEW b \in First(n + 1)
        PROVE  Hit(b, more) <=> Hit(b, kept)
    <3>1. rank[b] \in Nat /\ rank[b] <= n
      BY <1>3, <2>3
    <3>2. ASSUME NEW k \in more, Before(k, b)
          PROVE  k \in kept
      <4>1. k \in S /\ rank[k] < rank[b]
        BY <1>1, <3>2
      <4>2. QED BY <1>3, <3>1, <4>1
    <3>3. QED BY <3>2
  <2>4. ASSUME NEW b \in First(n + 1)
        PROVE  b \in more <=> ~Hit(b, kept)
    <3>1. b \in S /\ rank[b] \in Nat /\ (rank[b] < n \/ rank[b] = n)
      BY <1>3, <2>4
    <3>2. CASE rank[b] < n
      <4>1. b \in First(n) /\ (b \in more <=> b \in kept)
        BY <3>1, <3>2
      <4>2. QED BY <2>1, <4>1 DEF IsKept
    <3>3. CASE rank[b] = n
      <4>1. b \notin kept
        BY <3>1, <3>3
      <4>2. QED BY <3>1, <3>3, <4>1
    <3>4. QED BY <3>1, <3>2, <3>3
  <2> HIDE DEF more
  <2>5. IsKept(more, First(n + 1))
    BY <2>3, <2>4 DEF IsKept
  <2>6. QED BY <2>2, <2>5
<1>6. Fails = {}
  <2> SUFFICES ASSUME Fails # {} PROVE FALSE
    OBVIOUS
  <2>1. Fails \in SUBSET Nat
    OBVIOUS
  <2> HIDE DEF Fails
  <2>2. PICK n \in Fails : \A m \in Fails : n <= m
    BY <2>1, LeastNumber
  <2>3. n \in Nat /\ n # 0
    BY <1>4, <2>1, <2>2
  <2>4. n - 1 \in Nat /\ n - 1 \notin Fails /\ (n - 1) + 1 = n
    BY <2>2, <2>3
  <2>5. QED BY <1>5, <2>2, <2>4
<1>7. \A n \in Nat : \E kept \in SUBSET First(n) : IsKept(kept, First(n))
  BY <1>6
<1>8. Cardinality(S) \in Nat /\ First(Cardinality(S)) = S
  BY <1>2, <1>3
<1> HIDE DEF First, Fails
<1>9. QED BY <1>7, <1>8

\* There is but one set to keep: look at the first box two of them differ in.
LEMMA KeptIsOne ==
  ASSUME NEW S \in SUBSET Box, IsFiniteSet(S),
         NEW K \in SUBSET S, IsKept(K, S), NEW L \in SUBSET S, IsKept(L, S)
  PROVE  K = L
<1>1. PICK rank \in [S -> 0..(Cardinality(S) - 1)] :
        \A a, b \in S : Before(a, b) => rank[a] < rank[b]
  BY Ranked
<1>2. \A b \in S : rank[b] \in Nat
  BY <1>1, Ranked
<1> DEFINE Differ == {n \in Nat : \E b \in S : /\ rank[b] = n
                                               /\ ~(b \in K <=> b \in L)}
<1>3. SUFFICES ASSUME Differ # {} PROVE FALSE
  BY <1>2
<1>4. PICK n \in Differ : \A m \in Differ : n <= m
  BY <1>3, LeastNumber
<1>5. PICK b \in S : rank[b] = n /\ ~(b \in K <=> b \in L)
  BY <1>4
<1>6. ASSUME NEW k \in S, Before(k, b) PROVE k \in K <=> k \in L
  <2>1. rank[k] \in Nat /\ rank[k] < n /\ n \in Nat
    BY <1>1, <1>2, <1>5, <1>6
  <2>2. rank[k] \notin Differ
    BY <1>4, <2>1
  <2>3. QED BY <2>1, <2>2
<1>7. (\E k \in K : Before(k, b) /\ OverlapMuch(k.rect, b.rect))
        <=> (\E k \in L : Before(k, b) /\ OverlapMuch(k.rect, b.rect))
  BY <1>6
<1>8. b \in K <=> b \in L
  BY <1>7 DEF IsKept
<1>9. QED BY <1>5, <1>8

\* The set NMSBoxes chooses is one that can be kept.
LEMMA Chosen ==
  ASSUME NEW found \in SUBSET Box, IsFiniteSet(found)
  PROVE  /\ Sure(found) \in SUBSET Box /\ IsFiniteSet(Sure(found))
         /\ NMSBoxes(found) \in SUBSET Sure(found)
         /\ IsKept(NMSBoxes(found), Sure(found))
<1>1. Sure(found) \in SUBSET found
  BY DEF Sure
<1>2. Sure(found) \in SUBSET Box /\ IsFiniteSet(Sure(found))
  BY <1>1, FS_Subset
<1>3. \E kept \in SUBSET Sure(found) : IsKept(kept, Sure(found))
  BY <1>2, KeptExists
<1>4. NMSBoxes(found)
        = CHOOSE kept \in SUBSET Sure(found) : IsKept(kept, Sure(found))
  BY DEF NMSBoxes, Sure, IsKept
<1>5. QED BY <1>2, <1>3, <1>4

\* The set is determined: what NMSBoxes keeps is the one set of sure boxes
\* in which a box is exactly if none before it that is in it overlaps.
THEOREM KeptIsDetermined ==
  ASSUME NEW found \in SUBSET Box, IsFiniteSet(found),
         NEW kept \in SUBSET Sure(found)
  PROVE  IsKept(kept, Sure(found)) <=> kept = NMSBoxes(found)
BY Chosen, KeptIsOne

\* Finitely many boxes of different positions can be sorted: the numbers of
\* Ranked are then all different, and none is left out.
LEMMA BoxesCanBeSorted ==
  ASSUME NEW S \in SUBSET Box, IsFiniteSet(S),
         \A a, b \in S : a.at = b.at => a = b
  PROVE  \E n \in Nat : \E order \in [1..n -> S] :
           /\ \A b \in S : \E i \in 1..n : order[i] = b
           /\ \A i, j \in 1..n : i < j => Before(order[i], order[j])
<1>1. PICK rank \in [S -> 0..(Cardinality(S) - 1)] :
        \A a, b \in S : Before(a, b) => rank[a] < rank[b]
  BY Ranked
<1> DEFINE n == Cardinality(S)
<1>2. n \in Nat
  BY FS_CardinalityType
<1>3. ASSUME NEW a \in S, NEW b \in S, a # b
      PROVE  Before(a, b) \/ Before(b, a)
  BY <1>3, BeforeIsOrder
<1>4. rank \in Injection(S, 0..(n - 1))
  BY <1>1, <1>2, <1>3 DEF Injection, IsInjective
<1>5. IsFiniteSet(0..(n - 1)) /\ Cardinality(0..(n - 1)) = n
  <2> HIDE DEF n
  <2>1. 0 \in Int /\ n - 1 \in Int
    BY <1>2
  <2>2. /\ IsFiniteSet(0..(n - 1))
        /\ Cardinality(0..(n - 1))
             = IF 0 > n - 1 THEN 0 ELSE (n - 1) - 0 + 1
    BY <2>1, FS_Interval
  <2>3. QED BY <1>2, <2>2
<1>6. rank \in Surjection(S, 0..(n - 1))
  BY <1>4, <1>5, FS_Injection
<1>7. \A i \in 1..n : \E b \in S : rank[b] = i - 1
  BY <1>2, <1>6 DEF Surjection
<1> DEFINE order == [i \in 1..n |-> CHOOSE b \in S : rank[b] = i - 1]
<1>8. \A i \in 1..n : order[i] \in S /\ rank[order[i]] = i - 1
  BY <1>7
<1> HIDE DEF order
<1>9. order \in [1..n -> S]
  BY <1>8 DEF order
<1>10. ASSUME NEW b \in S PROVE \E i \in 1..n : order[i] = b
  <2>1. rank[b] + 1 \in 1..n
    BY <1>1, <1>2
  <2>2. rank[order[rank[b] + 1]] = rank[b] /\ order[rank[b] + 1] \in S
    BY <1>1, <1>2, <1>8, <2>1
  <2>3. order[rank[b] + 1] = b
    BY <1>4, <2>2 DEF Injection, IsInjective
  <2>4. QED BY <2>1, <2>3
<1>11. ASSUME NEW i \in 1..n, NEW j \in 1..n, i < j
       PROVE  Before(order[i], order[j])
  <2>1. /\ order[i] \in S /\ order[j] \in S
        /\ rank[order[i]] < rank[order[j]]
    BY <1>2, <1>8, <1>11
  <2>2. rank[order[i]] \in Int /\ rank[order[j]] \in Int
    BY <1>1, <2>1
  <2>3. order[i] # order[j] /\ ~(rank[order[j]] < rank[order[i]])
    BY <2>1, <2>2
  <2>4. ~Before(order[j], order[i])
    BY <1>1, <2>1, <2>3
  <2>5. QED BY <1>3, <2>1, <2>3, <2>4
<1>12. QED BY <1>2, <1>9, <1>10, <1>11

\* OpenCV's loop over the sorted boxes, which keeps a box unless one kept so
\* far overlaps, ends with the set that NMSBoxes chooses.
THEOREM LoopKeepsTheSame ==
  ASSUME NEW found \in SUBSET Box, IsFiniteSet(found),
         NEW n \in Nat, NEW order \in [1..n -> Sure(found)],
         \A b \in Sure(found) : \E i \in 1..n : order[i] = b,
         \A i, j \in 1..n : i < j => Before(order[i], order[j]),
         NEW kept \in [0..n -> SUBSET Sure(found)],
         kept[0] = {},
         \A i \in 1..n :
           kept[i] = IF \E k \in kept[i - 1] :
                          OverlapMuch(k.rect, order[i].rect)
                     THEN kept[i - 1] ELSE kept[i - 1] \cup {order[i]}
  PROVE  kept[n] = NMSBoxes(found)
<1> DEFINE K == NMSBoxes(found)
           Upto(i) == {b \in K : \E j \in 1..i : order[j] = b}
           Fails == {i \in 0..n : kept[i] # Upto(i)}
<1>1. K \in SUBSET Sure(found) /\ IsKept(K, Sure(found))
      /\ Sure(found) \in SUBSET Box
  BY Chosen
<1> HIDE DEF K
<1>2. 0 \notin Fails
  <2>1. Upto(0) = {}
    OBVIOUS
  <2>2. QED BY <2>1
<1>3. ASSUME NEW i \in 1..n, i - 1 \notin Fails PROVE i \notin Fails
  <2> DEFINE b == order[i]
             Hit == \E k \in kept[i - 1] : OverlapMuch(k.rect, b.rect)
  <2>1. i - 1 \in 0..n /\ kept[i - 1] = Upto(i - 1)
    BY <1>3
  <2>2. b \in Sure(found) /\ b \in Box
    BY <1>1
  <2>3. \A k \in Upto(i - 1) : k \in K /\ Before(k, b)
    OBVIOUS
  <2>4. ASSUME NEW k \in K, Before(k, b) PROVE k \in Upto(i - 1)
    <3>1. PICK j \in 1..n : order[j] = k
      BY <1>1
    <3>2. k \in Box
      BY <1>1
    <3>3. j # i
      BY <2>2, <2>4, <3>1, BeforeIsOrder
    <3>4. ~(i < j)
      <4>1. ~Before(b, k)
        BY <2>2, <2>4, <3>2, BeforeIsOrder
      <4>2. QED BY <3>1, <4>1
    <3>5. j \in 1..(i - 1)
      BY <3>3, <3>4
    <3>6. QED BY <3>1, <3>5
  <2> HIDE DEF b
  <2>5. Hit <=> \E k \in K : Before(k, b) /\ OverlapMuch(k.rect, b.rect)
    BY <2>1, <2>3, <2>4
  <2>6. b \in K <=> ~Hit
    BY <1>1, <2>2, <2>5 DEF IsKept
  <2>7. kept[i] = IF Hit THEN kept[i - 1] ELSE kept[i - 1] \cup {b}
    BY DEF b
  <2>8. Upto(i) = IF b \in K THEN Upto(i - 1) \cup {b} ELSE Upto(i - 1)
    <3>1. \A j \in 1..i : j \in 1..(i - 1) \/ j = i
      OBVIOUS
    <3>2. i \in 1..i /\ \A j \in 1..(i - 1) : j \in 1..i
      OBVIOUS
    <3>3. QED BY <3>1, <3>2 DEF b
  <2> HIDE DEF Hit, Upto
  <2>9. QED BY <2>1, <2>6, <2>7, <2>8
<1>4. Fails = {}
  <2> SUFFICES ASSUME Fails # {} PROVE FALSE
    OBVIOUS
  <2>1. Fails \in SUBSET Nat /\ Fails \in SUBSET (0..n)
    OBVIOUS
  <2> HIDE DEF Fails
  <2>2. PICK i \in Fails : \A m \in Fails : i <= m
    BY <2>1, LeastNumber
  <2>3. i \in 1..n
    BY <1>2, <2>1, <2>2
  <2>4. i - 1 \notin Fails
    BY <2>2, <2>3
  <2>5. QED BY <1>3, <2>2, <2>3, <2>4
<1>5. kept[n] = Upto(n)
  BY <1>4
<1>6. Upto(n) = K
  BY <1>1
<1>7. QED BY <1>5, <1>6 DEF K
-----------------------------------------------------------------------------
\* Of the boxes of an output no two that are shown overlap by much.
LEMMA ShownNotTwice ==
  ASSUME NEW cs \in Seq(Candidate)
  PROVE  NotTwice(DetectObjects(cs))
<1> DEFINE kept == NMSBoxes(Decoded(cs))
<1>1. /\ Decoded(cs) \in SUBSET Box
      /\ kept \in SUBSET Sure(Decoded(cs)) /\ IsKept(kept, Sure(Decoded(cs)))
      /\ Sure(Decoded(cs)) \in SUBSET Decoded(cs)
  BY DecodedBoxes, Chosen DEF Sure
<1>2. DetectObjects(cs) \in SUBSET kept
  BY DEF DetectObjects, Detect
<1> HIDE DEF kept
<1>3. ASSUME NEW a \in kept, NEW b \in kept, Before(a, b)
      PROVE  ~OverlapMuch(a.rect, b.rect)
  BY <1>1, <1>3 DEF IsKept
<1>4. ASSUME NEW a \in kept, NEW b \in kept, a # b
      PROVE  ~OverlapMuch(a.rect, b.rect)
  <2>1. a \in Box /\ b \in Box /\ a.rect \in Rect /\ b.rect \in Rect
    BY <1>1 DEF Box
  <2>2. a.at # b.at
    BY <1>1, <1>4, DecodedBoxes
  <2>3. Before(a, b) \/ Before(b, a)
    BY <2>1, <2>2, BeforeIsOrder
  <2>4. QED BY <1>3, <2>1, <2>3, OverlapIsMutual
<1>5. QED BY <1>2, <1>4 DEF NotTwice

\* What is sure and large enough is shown, or a box in its place.
LEMMA ShownForEach ==
  ASSUME NEW cs \in Seq(Candidate)
  PROVE  NoneLost(DetectObjects(cs), cs)
<1> DEFINE kept == NMSBoxes(Decoded(cs))
<1>1. /\ Decoded(cs) \in SUBSET Box
      /\ kept \in SUBSET Sure(Decoded(cs)) /\ IsKept(kept, Sure(Decoded(cs)))
      /\ Sure(Decoded(cs)) \in SUBSET Decoded(cs)
  BY DecodedBoxes, Chosen DEF Sure
<1>2. DetectObjects(cs) = {b \in kept : Visible(b)}
  BY DEF DetectObjects, Detect
<1> HIDE DEF kept
<1>3. SUFFICES ASSUME NEW b \in Decoded(cs), b.score > ConfThreshold,
                      Visible(b)
               PROVE  \E k \in DetectObjects(cs) :
                        /\ k.score >= b.score
                        /\ k = b \/ OverlapMuch(k.rect, b.rect)
  BY DEF NoneLost
<1>4. b \in Sure(Decoded(cs)) /\ b \in Box
  BY <1>1, <1>3 DEF Sure
<1>5. CASE b \in kept
  <2>1. b \in DetectObjects(cs) /\ b.score >= b.score
    BY <1>2, <1>3, <1>4, <1>5 DEF Box
  <2>2. QED BY <2>1
<1>6. CASE b \notin kept
  <2>1. PICK k \in kept : Before(k, b) /\ OverlapMuch(k.rect, b.rect)
    BY <1>1, <1>4, <1>6 DEF IsKept
  <2>2. k \in Decoded(cs) /\ k \in Box
    BY <1>1
  <2>3. Visible(k)
    <3>1. \A d \in Decoded(cs) : /\ d.at \in Nat /\ cs[d.at] \in Candidate
                                 /\ d \in Decode(cs[d.at], d.at)
      BY <1>1, DecodedBoxes DEF Box
    <3>2. QED BY <1>3, <2>1, <2>2, <3>1, SmallHidesSmall
  <2>4. k.score >= b.score
    BY <1>4, <2>1, <2>2 DEF Before, Box
  <2>5. QED BY <1>2, <2>1, <2>3, <2>4
<1>7. QED BY <1>5, <1>6

\* What is shown of an output lies in the frame.
LEMMA ShownInFrame ==
  ASSUME NEW cs \in Seq(Candidate), NEW b \in DetectObjects(cs)
  PROVE  InFrame(b.rect)
<1>1. b \in Decoded(cs)
  BY DecodedBoxes, Chosen DEF DetectObjects, Detect, Sure
<1>2. /\ b.at \in Nat /\ cs[b.at] \in Candidate
      /\ b \in Decode(cs[b.at], b.at)
  BY <1>1, DecodedBoxes DEF Box
<1>3. QED BY <1>2, DecodedInFrame

\* No more frames are numbered than are captured.
FramesBound == nextFrame <= MaxFrames

LEMMA FramesBounded == Spec => []FramesBound
<1>1. Init => FramesBound
  BY BoundsAssumption DEF Init, FramesBound
<1>2. TypeOK /\ FramesBound /\ [Next]_vars => FramesBound'
  BY BoundsAssumption
     DEF Next, SubmitFrame, PostProcess, Detector, ServeSetDetectEnable,
         ServeProcess, TakeFrame, LeaveLoop, EmitResult, SkipFrame,
         PostSetDetectEnable, vars, TypeOK,
         FramesBound
<1>3. QED BY <1>1, <1>2, TypeCorrect, PTL DEF Spec

\* The outputs behind a result are outputs of the network.
LEMMA BehindAreOutputs ==
  ASSUME TypeOK, FrameOrder, FramesBound
  PROVE  Behind \subseteq Seq(Candidate)
<1>1. CASE result = NoFrame
  BY <1>1 DEF Behind
<1>2. CASE result # NoFrame
  <2>1. /\ result \in Nat /\ taken \in Int /\ nextFrame \in Nat
        /\ result < nextFrame
    BY <1>2 DEF TypeOK, FrameOrder, NoFrame
  <2>2. result \in 0..(MaxFrames - 1)
    BY <2>1, BoundsAssumption DEF FramesBound
  <2>3. QED BY <1>2, <2>2, OutputsAssumption DEF Behind
<1>3. QED BY <1>1, <1>2

\* The boxes of a result lie in the frame the page draws them in, for every
\* size of the frames and whatever the network finds.
THEOREM BoxesStayInFrame == Spec => []BoxesInFrame
<1>1. TypeOK /\ FrameOrder /\ FramesBound => BoxesInFrame
  BY BehindAreOutputs, ShownInFrame DEF BoxesInFrame, InFrame
<1>2. QED BY <1>1, TypeCorrect, FramesInOrder, FramesBounded, PTL

\* No thing of a frame is shown twice and none is lost to a box that is not
\* shown, whatever and however many candidates the network finds.
THEOREM ThingsShownOnce == Spec => []EachThingOnce
<1>1. TypeOK /\ FrameOrder /\ FramesBound => EachThingOnce
  BY BehindAreOutputs, ShownNotTwice, ShownForEach DEF EachThingOnce
<1>2. QED BY <1>1, TypeCorrect, FramesInOrder, FramesBounded, PTL
=============================================================================
