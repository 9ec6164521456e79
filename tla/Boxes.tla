-------------------------------- MODULE Boxes --------------------------------
(***************************************************************************)
(* From the output of the network to the boxes of a frame: Detect          *)
(* (src/tool/src/Detect.cpp) and detectObjects (src/src/service/           *)
(* detectask.cpp), as functions of a sequence of candidates.  The boxes    *)
(* are a set: each has its position in the output, which is the order the  *)
(* code finds them in; the order it returns them in is Before.             *)
(*                                                                         *)
(* The boxes belong to the frame a DetectTask has emitted its last result  *)
(* for.  A candidate has a score per class and a place, in units of the    *)
(* network's input of which PerPixel make a pixel of the frame: a centre   *)
(* and a size (outputs of three dimensions) or a centre and the distances  *)
(* of four sides (of four dimensions, dflDistance).  Scores and overlaps   *)
(* are percentages.  Abstracted: the network, layouts of its output, and   *)
(* rounding of floats other than the truncation to pixels.  A network that *)
(* cannot be loaded or run gives no boxes, and is left out.  NMSBoxes is   *)
(* OpenCV's.                                                               *)
(***************************************************************************)
EXTENDS DetectTask

CONSTANTS
  FrameWidth,   \* org_Size
  FrameHeight,
  PerPixel,     \* model_input_size over org_Size, the same both ways
  Outputs       \* the outputs the network may have for each frame

ASSUME BoxesAssumption ==
  {FrameWidth, FrameHeight, PerPixel} \subseteq Nat \ {0}

\* setThresholds of ensureDetector.
ConfThreshold == 70

\* Bug: the threshold YOLO.h has before setThresholds.
NmsThresholdDefault == 60

NmsThreshold == 80

\* kTargetClassIds: person and car, looked at in this order.
TargetClasses == {0, 2}

NoClass == -1

\* A candidate: a score per class, and a place.
Candidate ==
  [kind : {"center"}, place : [cx : Int, cy : Int, w : Int, h : Int],
   scores : [TargetClasses -> Int]]
  \cup
  [kind : {"sides"}, place : [cx : Int, cy : Int, left : Int, top : Int,
                             right : Int, bottom : Int],
   scores : [TargetClasses -> Int]]

ASSUME OutputsAssumption ==
  \A frame \in 0..(MaxFrames - 1) : Outputs[frame] \subseteq Seq(Candidate)

\* The best class of a candidate: of equal ones the first, none if no score
\* is above 0.
BestClass(scores) ==
  IF \A c \in TargetClasses : scores[c] <= 0 THEN NoClass
  ELSE CHOOSE c \in TargetClasses : \A d \in TargetClasses :
         scores[c] > scores[d] \/ (scores[c] = scores[d] /\ c <= d)

\* static_cast<int> of a / b.
Trunc(a, b) == IF a >= 0 THEN a \div b ELSE -((-a) \div b)

\* yolov8_process for three dimensions ...
FromCenter(p) ==
  [x |-> Trunc(2 * p.cx - p.w, 2 * PerPixel), w |-> Trunc(p.w, PerPixel),
   y |-> Trunc(2 * p.cy - p.h, 2 * PerPixel), h |-> Trunc(p.h, PerPixel)]

\* ... and for four.
FromSides(p) ==
  LET x1 == Trunc(p.cx - p.left, PerPixel)
      y1 == Trunc(p.cy - p.top, PerPixel)
  IN [x |-> x1, w |-> Trunc(p.cx + p.right, PerPixel) - x1,
      y |-> y1, h |-> Trunc(p.cy + p.bottom, PerPixel) - y1]

Greater(a, b) == IF a >= b THEN a ELSE b
Smaller(a, b) == IF a <= b THEN a ELSE b

\* Intersection of two rectangles, as cv::Rect and QRect have it.
Meet(a, b) ==
  LET x == Greater(a.x, b.x)
      y == Greater(a.y, b.y)
  IN [x |-> x, w |-> Smaller(a.x + a.w, b.x + b.w) - x,
      y |-> y, h |-> Smaller(a.y + a.h, b.y + b.h) - y]

FrameRect == [x |-> 0, y |-> 0, w |-> FrameWidth, h |-> FrameHeight]

\* Bug: the corner is moved into the frame, the size stays.
ClipCorner(box) == [box EXCEPT !.x = Greater(0, @), !.y = Greater(0, @)]

Clip(box) == Meet(box, FrameRect)

Empty(box) == box.w <= 0 \/ box.h <= 0

\* What becomes of the candidate at a position of the output: a box in the
\* frame, or nothing.
Decode(c, at) ==
  LET class == BestClass(c.scores)
      box == Clip(IF c.kind = "center" THEN FromCenter(c.place)
                  ELSE FromSides(c.place))
  IN IF class = NoClass THEN {}
     ELSE IF c.scores[class] < ConfThreshold \/ Empty(box) THEN {}
     ELSE {[at |-> at, rect |-> box, class |-> class,
            score |-> c.scores[class]]}
-----------------------------------------------------------------------------
Area(box) == IF Empty(box) THEN 0 ELSE box.w * box.h

\* The rectangles overlap by more than the threshold (of their union).
OverlapMuch(a, b) ==
  LET common == Area(Meet(a, b))
  IN 100 * common > NmsThreshold * (Area(a) + Area(b) - common)

\* From the best score down, of equal ones the first found.
Before(a, b) == a.score > b.score \/ (a.score = b.score /\ a.at < b.at)

\* NMSBoxes: in this order, what overlaps with none kept so far.  It wants
\* scores above the threshold, and knows nothing of classes.
NMSBoxes(found) ==
  LET sure == {b \in found : b.score > ConfThreshold}
  IN CHOOSE kept \in SUBSET sure :
       \A b \in sure :
         b \in kept <=>
           ~\E k \in kept : Before(k, b) /\ OverlapMuch(k.rect, b.rect)

Decoded(candidates) == UNION {Decode(candidates[i], i) :
                                i \in DOMAIN candidates}

\* Bug: every box of the network is taken.
DetectAll(candidates) == Decoded(candidates)

Detect(candidates) == NMSBoxes(Decoded(candidates))

\* detectObjects drops what is at most two pixels wide or high.
Visible(b) == Clip(b.rect).w > 2 /\ Clip(b.rect).h > 2

DetectObjects(candidates) == {b \in Detect(candidates) : Visible(b)}
-----------------------------------------------------------------------------
\* The outputs behind the result emitted last.
Behind == IF result = NoFrame THEN {} ELSE Outputs[result]

\* The boxes of a result lie in the frame the page draws them in.
BoxesInFrame ==
  \A candidates \in Behind : \A b \in DetectObjects(candidates) :
    /\ 0 <= b.rect.x /\ b.rect.x + b.rect.w <= FrameWidth
    /\ 0 <= b.rect.y /\ b.rect.y + b.rect.h <= FrameHeight

NotTwice(shown) ==
  \A a, b \in shown : a # b => ~OverlapMuch(a.rect, b.rect)

NoneLost(shown, candidates) ==
  \A b \in Decoded(candidates) :
    b.score > ConfThreshold /\ Visible(b) =>
      \E k \in shown : /\ k.score >= b.score
                       /\ k = b \/ OverlapMuch(k.rect, b.rect)

\* No thing of a frame is shown twice, and nothing is lost to a box that is
\* not shown: a candidate that is sure and large enough is shown itself, or
\* one that is at least as sure is shown in its place (and as a thing of that
\* one's class).
EachThingOnce ==
  \A candidates \in Behind :
    LET shown == DetectObjects(candidates)
    IN NotTwice(shown) /\ NoneLost(shown, candidates)
=============================================================================
