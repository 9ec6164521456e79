----------------------------- MODULE RecordStore -----------------------------
(***************************************************************************)
(* What the server's database means to the rest of the system: a set of    *)
(* records that are stored in units and removed one by one.  A unit is     *)
(* what one request uploads: a recorded file, or a whole anomaly session.  *)
(* Nobody ever sees part of a unit, unless its images were deleted.        *)
(***************************************************************************)
CONSTANTS
  Units,     \* the sets of rows that are stored together
  Removable  \* the rows a client may delete

VARIABLE stored  \* the rows every reader of the database sees

Init == stored = {}

Store == \E unit \in Units : stored' = stored \cup unit

Remove == \E gone \in SUBSET Removable : stored' = stored \ gone

Next == Store \/ Remove

Spec == Init /\ [][Next]_stored
=============================================================================
