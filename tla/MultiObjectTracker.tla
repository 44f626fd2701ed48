------------------------- MODULE MultiObjectTracker -------------------------
(***************************************************************************)
(* multi_object_tracker_node with MultiObjectTracker, TrackedObject, the   *)
(* DetectedObjectAssociator and the track creation policies.  The node     *)
(* has one executor, so that a callback runs to its end; a callback for    *)
(* detections predicts the tracks, calls the assigner (the steps of        *)
(* HungarianAssigner), then updates, creates and prunes tracks.            *)
(*                                                                         *)
(* Positions, shapes, filters and classes are left out: what they decide   *)
(* is which pairs of a detection and a track pass the gate and at which    *)
(* distance, and which clusters meet a region of interest of an image.     *)
(***************************************************************************)
EXTENDS HungarianAssigner

CONSTANTS
    Stamps,                     \* stamps of detections
    OdometryStamps,             \* stamps of odometry
    ImageStamps,                \* stamps of regions of interest
    MaxDetections,              \* objects in a message, at most
    Distances(_, _),            \* distances between that many detections and tracks
    pruning_time_threshold,
    pruning_ticks_threshold,
    MaxLidarEgoStateStampDiff,
    max_vision_lidar_timestamp_diff,
    PoseHistoryDepth,
    VisionCacheSize,
    Cameras                     \* frames of the regions of interest

ASSUME TrackerAssumption ==
    /\ Stamps \subseteq Nat /\ OdometryStamps \subseteq Nat /\ ImageStamps \subseteq Nat
    /\ MaxDetections \in Nat
    /\ \A n \in 0 .. MaxDetections, m \in 0 .. Capacity :
            Distances(n, m) \subseteq Nat
    /\ pruning_time_threshold \in Nat
    /\ pruning_ticks_threshold \in Nat
    /\ MaxLidarEgoStateStampDiff \in Nat
    /\ max_vision_lidar_timestamp_diff \in Nat
    /\ PoseHistoryDepth \in Nat \ {0}
    /\ VisionCacheSize \in Nat \ {0}

VARIABLES
    use_vision,            \* which policy creates tracks
    m_odom_cache,          \* stamps of the odometry
    m_vision_cache_map,    \* stamps of the images, for each camera
    m_tracks,              \* the tracks, in order
    m_last_update,
    target_time,           \* the stamp of the detections under way
    m_num_detections,
    associations,          \* of the detections under way
    m_track_associations

trackerVars == <<use_vision, m_odom_cache, m_vision_cache_map, m_tracks, m_last_update,
                 target_time, m_num_detections, associations, m_track_associations>>
vars == <<assignerVars, trackerVars>>

\* A track: how long and for how many updates it was not seen.  seen is the
\* stamp of the detections that showed it last, which the code does not keep.
Track == [time_since_last_seen : Nat, ticks_since_last_seen : Nat, seen : Stamps]

NewTrack(stamp) == [time_since_last_seen |-> 0, ticks_since_last_seen |-> 0, seen |-> stamp]

\* Mutant: the update does not restart the time.
UpdateKeepsTime(track, stamp) == [track EXCEPT !.ticks_since_last_seen = 0, !.seen = stamp]

\* Mutant: the step is subtracted.
PredictBack(track, dt) == [track EXCEPT !.time_since_last_seen = @ - dt]

predict(track, dt) == [track EXCEPT !.time_since_last_seen = @ + dt]
update(track, stamp) == NewTrack(stamp)
no_update(track) == [track EXCEPT !.ticks_since_last_seen = @ + 1]
should_be_removed(track) ==
    \/ track.time_since_last_seen >= pruning_time_threshold
    \/ track.ticks_since_last_seen >= pruning_ticks_threshold

Nothing == [matched |-> "kNothing", match_index |-> 0]
ExistingTrack(t) == [matched |-> "kExistingTrack", match_index |-> t]
OtherDetection(d) == [matched |-> "kOtherDetection", match_index |-> d]

NumTracks == Len(m_tracks)
Detections == 0 .. m_num_detections - 1
TrackIndices == 0 .. NumTracks - 1

-----------------------------------------------------------------------------
(***************************************************************************)
(* The caches of message_filters: the newest stamps, at most so many; the  *)
(* oldest goes before the new one is added.  Messages with one stamp are   *)
(* counted once, which a cache of depth one does not notice.               *)
(***************************************************************************)
CacheAdd(cache, stamp, size) ==
    (IF Cardinality(cache) >= size
     THEN cache \ {CHOOSE s \in cache : \A u \in cache : s =< u} ELSE cache) \cup {stamp}
HasWithin(cache, stamp, diff) == \E s \in cache : s - diff =< stamp /\ stamp =< s + diff

odometry_callback(stamp) ==
    /\ pc = "idle"
    /\ m_odom_cache' = CacheAdd(m_odom_cache, stamp, PoseHistoryDepth)
    /\ UNCHANGED <<assignerVars, use_vision, m_vision_cache_map, m_tracks, m_last_update,
                   target_time, m_num_detections, associations, m_track_associations>>

\* Regions that match tracks change the classes of the tracks, the others are
\* kept for the creation of tracks.
classified_roi_callback(camera, stamp) ==
    /\ pc = "idle"
    /\ use_vision
    /\ stamp >= m_last_update
    /\ m_vision_cache_map' = [m_vision_cache_map EXCEPT
            ![camera] = CacheAdd(@, stamp, VisionCacheSize)]
    /\ UNCHANGED <<assignerVars, use_vision, m_odom_cache, m_tracks, m_last_update,
                   target_time, m_num_detections, associations, m_track_associations>>

-----------------------------------------------------------------------------
(***************************************************************************)
(* clusters_callback and detected_objects_callback: detections with an     *)
(* odometry near them, not older than the last ones.  The tracks are       *)
(* predicted and handed to the assigner; too many detections or tracks for *)
(* it, or two that are too far apart, end the node by an exception.        *)
(* (Frames that do not fit make update() return before it changes          *)
(* anything.)                                                              *)
(***************************************************************************)
AreTracksRows(detections) == NumTracks =< detections
Smaller(n, m) == IF n =< m THEN n ELSE m
Larger(n, m) == IF n =< m THEN m ELSE n

\* compute_weights() gives some of the pairs <<detection, track>> a distance.
\* The assigner wants a matrix that is not tall: tracks are its rows or columns.
Weights(detections, distance) ==
    LET turned(p) == IF AreTracksRows(detections) THEN <<p[2], p[1]>> ELSE p
    IN  [s \in {turned(p) : p \in DOMAIN distance} |-> distance[turned(s)]]

\* An exception that nothing catches ends the node.
Crash ==
    /\ pc' = "crashed"
    /\ UNCHANGED <<sizes, matrices, m_assignments, covers, m_primed_zero_locs,
                   m_augment_path, round>>

\* set_weight() throws std::out_of_range, which compute_weights() does not catch.
IsTooFar(distance) == \E p \in DOMAIN distance : distance[p] >= MAX_WEIGHT

AssignDetections(n) ==
    \E considered \in SUBSET ((0 .. n - 1) \X TrackIndices) :
        \E distance \in [considered -> Distances(n, NumTracks)] :
            \/ IsTooFar(distance) /\ Crash
            \/ /\ ~IsTooFar(distance)
               /\ SetWeights(Smaller(n, NumTracks), Larger(n, NumTracks), Weights(n, distance))
               /\ pc' = "ready"

detections_callback(stamp, n) ==
    /\ pc = "idle"
    /\ HasWithin(m_odom_cache, stamp, MaxLidarEgoStateStampDiff)
    /\ stamp >= m_last_update
    /\ target_time' = stamp
    /\ m_num_detections' = n
    /\ m_tracks' = [i \in 1 .. NumTracks |-> predict(m_tracks[i], stamp - m_last_update)]
    /\ associations' = [d \in 0 .. n - 1 |-> Nothing]
    /\ m_track_associations' = [t \in TrackIndices |-> Nothing]
    /\ IF FitsCapacity(n, NumTracks) THEN AssignDetections(n) ELSE Crash
    /\ UNCHANGED <<use_vision, m_odom_cache, m_vision_cache_map, m_last_update>>

-----------------------------------------------------------------------------
(***************************************************************************)
(* extract_result(): the value assign() returned is not looked at.  The    *)
(* rows are read in order and a column counts for the first row that has   *)
(* it (for a track only if the detection is free; a detection takes its    *)
(* track in any case).  reset(), which the next call of the associator     *)
(* begins with, is done here: nothing reads the assigner before it.        *)
(***************************************************************************)
MatchedTrack(d) ==
    IF AreTracksRows(m_num_detections)
    THEN {t \in TrackIndices : /\ Assignment(t) = d
                               /\ \A u \in 0 .. t - 1 : Assignment(u) # d}
    ELSE {t \in TrackIndices : Assignment(d) = t}

\* Mutant: the tracks do not learn of it when the detections are the rows.
MatchedByRows(t) == {d \in Detections : AreTracksRows(m_num_detections) /\ t \in MatchedTrack(d)}

MatchedDetections(t) == {d \in Detections : t \in MatchedTrack(d)}
Latest(detections) == CHOOSE d \in detections : \A e \in detections : e =< d

extract_result ==
    /\ pc \in {"assigned", "failed"}
    /\ associations' = [d \in Detections |->
            IF MatchedTrack(d) = {} THEN Nothing
            ELSE ExistingTrack(CHOOSE t \in MatchedTrack(d) : TRUE)]
    /\ m_track_associations' = [t \in TrackIndices |->
            IF MatchedDetections(t) = {} THEN Nothing
            ELSE OtherDetection(Latest(MatchedDetections(t)))]
    /\ pc' = "extracted"
    /\ Reset
    /\ UNCHANGED <<use_vision, m_odom_cache, m_vision_cache_map, m_tracks, m_last_update,
                   target_time, m_num_detections>>

-----------------------------------------------------------------------------
(***************************************************************************)
(* The rest of MultiObjectTracker::update(): the tracks are updated by     *)
(* their detections or told that there was none, tracks are created and    *)
(* the tracks that were not seen for long are pruned.                      *)
(***************************************************************************)
UpdatedBy(t) == {d \in Detections : associations[d] = ExistingTrack(t)}

\* update() for each detection of the track, then no_update() by what the
\* associator says of the track.
Updated(t) ==
    LET track == m_tracks[t + 1]
        corrected == IF UpdatedBy(t) # {} THEN update(track, target_time) ELSE track
    IN  IF m_track_associations[t] = Nothing THEN no_update(corrected) ELSE corrected

Unmatched == {d \in Detections : associations[d] = Nothing}

\* A lidar-only tracker makes a track of every detection that is left, the
\* other one of those that meet a region of an image taken at about that time.
CreatedFrom(created) ==
    IF use_vision
    THEN /\ created \subseteq Unmatched
         /\ created # {} => \E c \in Cameras : HasWithin(m_vision_cache_map[c], target_time,
                                                         max_vision_lidar_timestamp_diff)
    ELSE created = Unmatched

finish_update(created) ==
    /\ pc = "extracted"
    /\ CreatedFrom(created)
    /\ m_tracks' = [i \in 1 .. NumTracks |-> Updated(i - 1)]
                   \o [i \in 1 .. Cardinality(created) |-> NewTrack(target_time)]
    /\ pc' = "pruning"
    /\ UNCHANGED <<sizes, matrices, m_assignments, covers, m_primed_zero_locs, m_augment_path,
                   round, use_vision, m_odom_cache, m_vision_cache_map, m_last_update,
                   target_time, m_num_detections, associations, m_track_associations>>

\* std::remove_if() and erase(), a track at a time.
Removable == {i \in 1 .. NumTracks : should_be_removed(m_tracks[i])}
Without(tracks, k) == [i \in 1 .. Len(tracks) - 1 |-> IF i < k THEN tracks[i] ELSE tracks[i + 1]]

remove_track ==
    /\ pc = "pruning"
    /\ Removable # {}
    /\ m_tracks' = Without(m_tracks, Lowest(Removable))
    /\ UNCHANGED <<assignerVars, use_vision, m_odom_cache, m_vision_cache_map, m_last_update,
                   target_time, m_num_detections, associations, m_track_associations>>

set_last_update ==
    /\ pc = "pruning"
    /\ Removable = {}
    /\ m_last_update' = target_time
    /\ m_num_detections' = 0
    /\ associations' = <<>>
    /\ m_track_associations' = <<>>
    /\ pc' = "idle"
    /\ UNCHANGED <<sizes, matrices, m_assignments, covers, m_primed_zero_locs, m_augment_path,
                   round, use_vision, m_odom_cache, m_vision_cache_map, m_tracks, target_time>>

-----------------------------------------------------------------------------
Init ==
    /\ pc = "idle"
    /\ Fresh
    /\ use_vision \in BOOLEAN
    /\ m_odom_cache = {}
    /\ m_vision_cache_map = [c \in Cameras |-> {}]
    /\ m_tracks = <<>>
    /\ m_last_update = 0
    /\ target_time = 0
    /\ m_num_detections = 0
    /\ associations = <<>>
    /\ m_track_associations = <<>>

Assign == AssignStep /\ UNCHANGED trackerVars

Next ==
    \/ \E s \in OdometryStamps : odometry_callback(s)
    \/ \E c \in Cameras, s \in ImageStamps : classified_roi_callback(c, s)
    \/ \E s \in Stamps, n \in 0 .. MaxDetections : detections_callback(s, n)
    \/ Assign
    \/ extract_result
    \/ \E created \in SUBSET Detections : finish_update(created)
    \/ remove_track
    \/ set_last_update

Spec == Init /\ [][Next]_vars

-----------------------------------------------------------------------------
(***************************************************************************)
(* Properties.                                                             *)
(***************************************************************************)
Match == [matched : {"kNothing", "kExistingTrack", "kOtherDetection"}, match_index : Nat]

TypeOK ==
    /\ AssignerTypeOK
    /\ use_vision \in BOOLEAN
    /\ m_odom_cache \subseteq OdometryStamps
    /\ m_vision_cache_map \in [Cameras -> SUBSET ImageStamps]
    /\ m_tracks \in Seq(Track)
    /\ m_last_update \in Nat
    /\ target_time \in Nat
    /\ m_num_detections \in 0 .. MaxDetections
    /\ pc \notin {"idle", "pruning"} => /\ associations \in [Detections -> Match]
                                        /\ m_track_associations \in [TrackIndices -> Match]

\* A track is as old as the stamps say: the sum of the steps it was predicted
\* by since a detection showed it is the time between that detection and the
\* newest ones, whatever callbacks came between, in whatever order; and one
\* that was not seen for a time has missed an update.  MultiObjectTracker
\* counts both in different places, and prunes by them.
AgesAreTrue ==
    LET now == IF pc = "idle" THEN m_last_update ELSE target_time
    IN  \A i \in 1 .. NumTracks :
            /\ m_tracks[i].time_since_last_seen = now - m_tracks[i].seen
            /\ pc \in {"idle", "pruning"} /\ m_tracks[i].time_since_last_seen > 0
                 => m_tracks[i].ticks_since_last_seen > 0

\* What the associator says of the detections and what it says of the tracks
\* agree, and are one-to-one: no track is updated by two detections, and none
\* is told that it was missed although one updated it.
EveryDetectionIsUsedOnce ==
    pc = "extracted" =>
        \A d \in Detections, t \in TrackIndices :
            associations[d] = ExistingTrack(t) <=> m_track_associations[t] = OtherDetection(d)

-----------------------------------------------------------------------------
(***************************************************************************)
(* Why the properties hold: the inductive invariant of the proofs.         *)
(***************************************************************************)
\* A track no detection updated is told so.
MissesAreTold ==
    pc = "extracted" =>
        \A t \in TrackIndices : UpdatedBy(t) = {} => m_track_associations[t] = Nothing

TargetIsAhead == pc # "idle" => target_time \in Stamps /\ m_last_update =< target_time

\* The table has a row or a column for each track and for each detection.
SizesFit ==
    pc \in {"ready", "prime", "path", "assigned"} =>
        /\ m_num_rows = Smaller(m_num_detections, NumTracks)
        /\ m_num_cols = Larger(m_num_detections, NumTracks)

InductiveInv ==
    /\ AssignerInv
    /\ TypeOK
    /\ SizesFit
    /\ TargetIsAhead
    /\ AgesAreTrue
    /\ MissesAreTold
    /\ EveryDetectionIsUsedOnce
=============================================================================
