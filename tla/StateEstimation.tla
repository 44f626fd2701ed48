--------------------------- MODULE StateEstimation ---------------------------
(***************************************************************************)
(* The state_estimation_node: a Kalman filter with a history of the events *)
(* it was fed.  Measurements of several topics come late and out of order; *)
(* each is inserted where its stamp belongs and everything after it is     *)
(* replayed.  The history is bounded and drops its oldest event.           *)
(*                                                                         *)
(* The filter is free: its state is the sequence of what it was fed, so    *)
(* that two states are equal only if every filter, with any motion model   *)
(* and any gate, agrees on them.  One thread runs all callbacks.           *)
(***************************************************************************)
EXTENDS Integers, Sequences, FiniteSets

CONSTANTS
  Topics,               \* the topics of measurements
  Period,               \* time_between_publish_requests
  HistorySizes,         \* the values of m_max_history_size; 0 is unbounded
  MaxTime,              \* bound: the clock
  MaxEvents             \* bound: events accepted

ASSUME PeriodAssumption == Period \in Nat \ {0}
ASSUME SizesAssumption == HistorySizes \subseteq Nat
ASSUME BoundsAssumption == MaxTime \in Nat /\ MaxEvents \in Nat
ASSUME TopicsAssumption == {"reset", "prediction"} \intersect Topics = {}

VARIABLES
  max_history_size,     \* m_max_history_size, from the parameters
  publish_data_driven,  \* m_publish_data_driven, a parameter
  history,              \* the stamps and events of m_history, in its order
  stored_state,         \* the stored_state of each entry of m_history
  time_grid,            \* m_first_measurement_timestamp of m_time_grid; 0: not set
  published,            \* stamp of the last odometry published; 0: none
  crashed,              \* the exception that ended the node, or "no"
  now,                  \* the clock
  next_call,            \* when m_wall_timer is ready again
  heard,                \* stamp of the last message received of each topic
  accepted              \* history: every event accepted, in order of arrival

parameters == <<max_history_size, publish_data_driven>>
filter     == <<history, stored_state, time_grid, accepted>>
vars == <<parameters, filter, published, crashed, now, next_call, heard>>

Kinds  == Topics \union {"reset", "prediction"}
Event  == [stamp : Nat, kind : Kinds]
NoFilterState == <<>>

Init ==
  /\ max_history_size \in HistorySizes
  /\ publish_data_driven \in BOOLEAN
  /\ history = <<>>
  /\ stored_state = <<>>
  /\ time_grid = 0
  /\ published = 0
  /\ crashed = "no"
  /\ now = 0
  /\ next_call = Period
  /\ heard = [t \in Topics |-> 0]
  /\ accepted = <<>>

-----------------------------------------------------------------------------
(* The history.                                                            *)

LastStamp == history[Len(history)].stamp
IsInitialized == history # <<>> /\ time_grid > 0

\* EkfStateUpdater: a reset forgets what came before, a prediction or a
\* measurement moves the filter on by dt first.
Feed(state, dt, kind) == IF kind = "reset" THEN <<kind>> ELSE Append(state, <<dt, kind>>)

\* Mutant: a history that may still take one event is left alone.
DropsOneLate == Len(history) > max_history_size /\ max_history_size > 0

DropsOldest == Len(history) >= max_history_size /\ max_history_size > 0

\* What drop_oldest_event_if_needed leaves of a sequence as long as the history.
Kept(s) == IF DropsOldest THEN [i \in 1..(Len(history) - 1) |-> s[i + 1]] ELSE s

\* Mutant: before the events with the same stamp.
LowerBound(s, stamp, p) ==
  /\ \A i \in 1..(p - 1) : s[i].stamp < stamp
  /\ \A i \in p..Len(s) : stamp <= s[i].stamp

\* A multimap inserts behind the events with the same stamp.
UpperBound(s, stamp, p) ==
  /\ \A i \in 1..(p - 1) : s[i].stamp <= stamp
  /\ \A i \in p..Len(s) : stamp < s[i].stamp

Inserted(s, p, e) ==
  [i \in 1..(Len(s) + 1) |-> IF i < p THEN s[i] ELSE IF i = p THEN e ELSE s[i - 1]]

\* Mutant: the events that follow keep the states they had.
UpdateNone(h, states, p) ==
  LET before == IF p = 1 THEN NoFilterState ELSE states[p - 1]
      dt     == IF p = 1 THEN h[p].stamp ELSE h[p].stamp - h[p - 1].stamp
  IN  Inserted(states, p, Feed(before, dt, h[p].kind))

\* The states of the events of h from p on, replayed on the one stored before.
UpdateImpacted(h, states, p) ==
  LET state[i \in 0..Len(h)] ==
        IF i = 0 THEN NoFilterState
        ELSE IF i < p THEN states[i]
        ELSE Feed(state[i - 1], h[i].stamp - (IF i = 1 THEN 0 ELSE h[i - 1].stamp), h[i].kind)
  IN  [i \in 1..Len(h) |-> state[i]]

\* An event other than a reset that would become the first of the history is
\* refused by an exception; by then the oldest event is gone.
TooOld(e, p) == p = 1 /\ e.kind # "reset"

EmplaceEvent(e) ==
  \E p \in 1..(Len(Kept(history)) + 1) :
    /\ UpperBound(Kept(history), e.stamp, p)
    /\ IF TooOld(e, p)
       THEN /\ history' = Kept(history)
            /\ stored_state' = Kept(stored_state)
            /\ crashed' = "too_old"
            /\ UNCHANGED accepted
       ELSE /\ history' = Inserted(Kept(history), p, e)
            /\ stored_state' = UpdateImpacted(history', Kept(stored_state), p)
            /\ accepted' = Append(accepted, e)
            /\ UNCHANGED crashed

-----------------------------------------------------------------------------
(* The callbacks.                                                          *)

\* Mutant: the odometry carries the stamp of the event that came last.
PublishArrival ==
  published' = IF crashed' = "no" /\ IsInitialized' THEN accepted'[Len(accepted')].stamp
                                                    ELSE published

Publish == published' = IF crashed' = "no" /\ IsInitialized' THEN LastStamp' ELSE published

\* pose_callback and relative_pos_callback: the first measurement resets the
\* filter and begins the grid.  A stamp of 0 leaves the grid unset.
OnMeasurement(topic, stamp) ==
  /\ Len(accepted) < MaxEvents
  /\ stamp \in heard[topic]..now
  /\ heard' = [heard EXCEPT ![topic] = stamp]
  /\ \/ /\ IsInitialized
        /\ EmplaceEvent([stamp |-> stamp, kind |-> topic])
        /\ UNCHANGED time_grid
     \/ /\ ~IsInitialized
        /\ EmplaceEvent([stamp |-> stamp, kind |-> "reset"])
        /\ time_grid' = stamp
  /\ IF publish_data_driven THEN Publish ELSE UNCHANGED published
  /\ UNCHANGED <<parameters, now, next_call>>

\* A message in another frame ends the node.
OnForeignFrame ==
  /\ crashed' = "frame"
  /\ UNCHANGED <<parameters, filter, published, now, next_call, heard>>

\* Mutant: one grid point too far.
NextButOneAfter(stamp) == time_grid + ((stamp - time_grid) \div Period + 2) * Period

NextTimestampAfter(stamp) == time_grid + ((stamp - time_grid) \div Period + 1) * Period

\* The wall timer: calls that were missed are not made up for.
CallTimer ==
  /\ ~publish_data_driven /\ next_call <= now
  /\ \E n \in now..(now + Period) :
       /\ next_call < n /\ (n - next_call) % Period = 0
       /\ n = next_call + Period \/ n < now + Period
       /\ next_call' = n

PredictAndPublishCurrentState ==
  /\ CallTimer
  /\ Len(accepted) < MaxEvents
  /\ \/ /\ ~IsInitialized
        /\ UNCHANGED <<filter, published, crashed>>
     \/ /\ IsInitialized
        /\ EmplaceEvent([stamp |-> NextTimestampAfter(LastStamp), kind |-> "prediction"])
        /\ UNCHANGED time_grid
        /\ Publish
  /\ UNCHANGED <<parameters, now, heard>>

Tick ==
  /\ now < MaxTime
  /\ now' = now + 1
  /\ UNCHANGED <<parameters, filter, published, crashed, next_call, heard>>

Next ==
  /\ crashed = "no"
  /\ \/ \E t \in Topics, s \in 0..MaxTime : OnMeasurement(t, s)
     \/ OnForeignFrame
     \/ PredictAndPublishCurrentState
     \/ Tick

Spec == Init /\ [][Next]_vars

-----------------------------------------------------------------------------
(* The accepted events in order of time, for comparison: no history, no    *)
(* replay.                                                                 *)

\* By stamp; of two events with the same stamp the one that arrived first.
Before(s, i, j) == s[i].stamp < s[j].stamp \/ (s[i].stamp = s[j].stamp /\ i < j)
Rank(s, j) == 1 + Cardinality({i \in DOMAIN s : Before(s, i, j)})
InOrder(s) == [k \in 1..Len(s) |-> s[CHOOSE j \in DOMAIN s : Rank(s, j) = k]]

\* The filter after the first k events of s, fed one after the other.
FedUpTo(s, k) ==
  LET fed[i \in 0..Len(s)] ==
        IF i = 0 THEN NoFilterState
        ELSE Feed(fed[i - 1], s[i].stamp - (IF i = 1 THEN 0 ELSE s[i - 1].stamp), s[i].kind)
  IN  fed[k]

FedInOrder == FedUpTo(InOrder(accepted), Len(accepted))

-----------------------------------------------------------------------------
(* Properties.                                                             *)

InStampOrder(h) == \A i, j \in DOMAIN h : i <= j => h[i].stamp <= h[j].stamp

\* The history stays in order and within its size, with a state for each event.
TypeOK ==
  /\ max_history_size \in HistorySizes
  /\ publish_data_driven \in BOOLEAN
  /\ history \in Seq(Event) /\ InStampOrder(history)
  /\ max_history_size > 0 => Len(history) <= max_history_size
  /\ DOMAIN stored_state = DOMAIN history
  /\ time_grid \in Nat
  /\ published \in Nat
  /\ crashed \in {"no", "frame", "too_old"}
  /\ now \in 0..MaxTime
  /\ next_call \in Nat
  /\ heard \in [Topics -> 0..now]
  /\ accepted \in Seq(Event)

\* Whoever follows the odometry never sees time go back, although measurements
\* are published as late and as disordered as they come.
StampsAdvance == [][published <= published']_vars

\* The node dies of an old measurement only if the size of the history is to
\* blame: all but one of the events it has room for are newer; or if nothing
\* is known of the time before.
RefuseStep ==
  \A t \in Topics, s \in 0..MaxTime :
    OnMeasurement(t, s) /\ crashed' = "too_old" =>
      LET newer == Cardinality({i \in DOMAIN accepted : accepted[i].stamp > s})
      IN  newer = Len(accepted) \/ (max_history_size > 0 /\ newer >= max_history_size - 1)
RefusesOnlyTheOldest == [][RefuseStep]_vars

\* Each call of the timer predicts one period beyond whatever came last; the
\* predictions must not run away from the clock all the same, however the calls
\* and the measurements alternate and however late a call is.
IsNotAhead == history # <<>> => LastStamp <= now + 2 * Period

\* The history has no memory of disorder: whatever the order in which
\* measurements came, and although the oldest events are dropped, the estimate
\* is the one of a filter that was fed every accepted event in order of time.
InOrderReplay ==
  crashed = "no" /\ history # <<>> => stored_state[Len(history)] = FedInOrder
=============================================================================
