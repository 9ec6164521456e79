---------------------------- MODULE MCClientPages ----------------------------
(***************************************************************************)
(* ClientPages for TLC.                                                    *)
(***************************************************************************)
EXTENDS ClientPages

Image(n, channel, at, anomaly) ==
  [id |-> n, channel |-> channel, at |-> at, anomaly |-> anomaly,
   path |-> <<"jpg", n>>]
Video(n, channel, at, until, anomaly) ==
  [id |-> n, channel |-> channel, at |-> at, until |-> until,
   anomaly |-> anomaly, path |-> <<"avi", n>>]

MCStoredImages ==
  {Image(1, 1, 13, FALSE), Image(2, 2, 13, FALSE), Image(3, 1, 11, FALSE),
   Image(4, 1, 12, TRUE)}
MCStoredVideos ==
  {Video(5, 1, 10, 12, FALSE), Video(6, 1, 12, 13, TRUE)}
MCUploads ==
  {[video |-> Video(7, 2, 17, 18, TRUE), images |-> {Image(8, 2, 17, TRUE)}]}
\* A name of the user's own, and that of an image there is.
MCSaveNames == {<<"jpg", 20>>, <<"jpg", 1>>}
=============================================================================
