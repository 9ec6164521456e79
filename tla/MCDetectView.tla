---------------------------- MODULE MCDetectView -----------------------------
(***************************************************************************)
(* DetectView for TLC: two channels for the view switches; the first has   *)
(* enough frames for a result to be in time, late, and overtaken by clicks.*)
(***************************************************************************)
EXTENDS DetectView

MCChannels == {1, 2}
MCMaxFrames == <<3, 1>>
=============================================================================
