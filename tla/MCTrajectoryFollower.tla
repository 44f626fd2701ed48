------------------------ MODULE MCTrajectoryFollower ------------------------
(* The trajectory follower with one distance in each range of thresholds.  *)
EXTENDS TrajectoryFollower

Seen(stop_dist, running, target) ==
  [far |-> FALSE, stop_dist |-> stop_dist, running |-> running, target |-> target]

MCSituations ==
  {[far |-> TRUE, stop_dist |-> 0, running |-> FALSE, target |-> "Forward"],
   Seen(5, TRUE, "Forward"), Seen(5, FALSE, "Reverse"),
   Seen(3, TRUE, "Forward"), Seen(3, FALSE, "Zero"), Seen(2, FALSE, "Zero"),
   Seen(0, TRUE, "Zero"), Seen(0, FALSE, "Zero"),
   Seen(-3, TRUE, "Zero"), Seen(-3, FALSE, "Zero")}
=============================================================================
