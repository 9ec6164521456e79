----------------------------- MODULE MCDetectTask ----------------------------
(***************************************************************************)
(* DetectTask for TLC: enough frames for one to be taken while a second    *)
(* waits and a third replaces it, and two toggles in flight.               *)
(*                                                                         *)
(* The boxes of a frame (Boxes): three candidates that overlap in a chain, *)
(* or are as thin as what is dropped, or reach over the edge of the frame, *)
(* one of them a car, in every order of scores around the threshold.       *)
(***************************************************************************)
EXTENDS Boxes, TLC

Center(x, w) ==
  [kind |-> "center",
   place |-> [cx |-> 2 * x + w, w |-> 2 * w, cy |-> 4, h |-> 8]]
Sides(x, w) ==
  [kind |-> "sides",
   place |-> [cx |-> 2 * x + 2, left |-> 2, right |-> 2 * w - 2,
              cy |-> 4, top |-> 5, bottom |-> 5]]

Chain == <<Center(0, 12), Center(1, 12), Center(2, 12)>>
Thin == <<Center(4, 2), Center(4, 3), Center(4, 3)>>
Edge == <<Center(-2, 6), Sides(-3, 7), Sides(13, 9)>>

Scored(place, person, car) ==
  [kind |-> place.kind, place |-> place.place,
   scores |-> (0 :> person) @@ (2 :> car)]

Sure(place) ==
  {<<Scored(place[1], s[1], 10), Scored(place[2], s[2], 20),
     Scored(place[3], 75, s[3])>> : s \in [1..3 -> {70, 75, 90}]}

\* Frames 0 and 3 have nothing on them.
MCOutputs ==
  [frame \in 0..4 |->
     CASE frame = 1 -> Sure(Chain) [] frame = 2 -> Sure(Thin)
       [] frame = 4 -> Sure(Edge) [] OTHER -> {<<>>}]
=============================================================================
