---------------------------- MODULE MCSmartServer ----------------------------
(***************************************************************************)
(* SmartServer for TLC: two connections compete for the server, one        *)
(* session of two images makes every statement of the transaction fail in  *)
(* turn, and one recorded file is inserted before or after it on the same  *)
(* database connection.                                                    *)
(***************************************************************************)
EXTENDS SmartServer, TLC

CONSTANTS c1, c2, v1, s1, q1

MCClients == {c1, c2}
MCVideos == {v1}
MCSessions == {s1}
MCQueries == {q1}

\* The connections are interchangeable in every safety property.
MCSymmetry == Permutations(MCClients)
=============================================================================
