---------------------------- MODULE MCMonitorTask ----------------------------
(***************************************************************************)
(* Values of MonitorTask's constants for TLC: segments of one or two       *)
(* seconds, sessions of one second, images at the first and third frame.   *)
(***************************************************************************)
EXTENDS MonitorTask

MCSegmentChoices == {0, 1}
MCImageIndices == {0, 2}
=============================================================================
