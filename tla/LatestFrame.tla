----------------------------- MODULE LatestFrame -----------------------------
(***************************************************************************)
(* What DetectTask promises its two callers: a mailbox that holds the      *)
(* newest frame accepted while detection is on, from which the detector    *)
(* takes frames one at a time.  Nothing is said of threads, posted calls   *)
(* or of who wakes whom.                                                   *)
(***************************************************************************)
EXTENDS Integers

CONSTANT FrameIds  \* numbers: the ids of the frames captured, in order

NoFrame == -1

VARIABLES
  on,    \* whether frames are wanted
  slot,  \* the newest frame accepted and not yet taken
  taken  \* the frame the detector took last

vars == <<on, slot, taken>>

Init ==
  /\ on = FALSE
  /\ slot = NoFrame
  /\ taken = NoFrame

\* A newer frame replaces the one that waits.
Put(id) ==
  /\ on
  /\ id > slot
  /\ id > taken
  /\ slot' = id
  /\ UNCHANGED <<on, taken>>

Take ==
  /\ on
  /\ slot # NoFrame
  /\ taken' = slot
  /\ slot' = NoFrame
  /\ UNCHANGED on

\* Switching off empties the mailbox.
Switch(b) ==
  /\ on' = b
  /\ slot' = IF b THEN slot ELSE NoFrame
  /\ UNCHANGED taken

Next ==
  \/ \E id \in FrameIds : Put(id)
  \/ Take
  \/ \E b \in BOOLEAN : Switch(b)

Safety == Init /\ [][Next]_vars

\* The mailbox is worth having because a frame in it is not left there.
Spec == Safety /\ WF_vars(Take)
=============================================================================
