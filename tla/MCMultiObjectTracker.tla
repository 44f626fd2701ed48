------------------------ MODULE MCMultiObjectTracker ------------------------
(***************************************************************************)
(* MultiObjectTracker for TLC: three detections and three tracks, with two *)
(* distances as long as not all of them meet, and one that is too far for  *)
(* the assigner in the smallest tables.                                    *)
(***************************************************************************)
EXTENDS MultiObjectTracker

MCDistances(n, m) ==
    (IF n * m =< 6 THEN {0, 1} ELSE {0}) \cup (IF n * m =< 2 THEN {MAX_WEIGHT} ELSE {})
=============================================================================
