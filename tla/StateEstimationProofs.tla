------------------------ MODULE StateEstimationProofs ------------------------
(***************************************************************************)
(* Theorems about state estimation for any topics, any period, any sizes   *)
(* of the history and any filter.                                          *)
(***************************************************************************)
EXTENDS StateEstimation, FiniteSetTheorems, WellFoundedInduction, TLAPS

-----------------------------------------------------------------------------
(* The operators.                                                          *)

\* The next point of the grid is after the stamp, by at most one period.
LEMMA NextGridPoint ==
  ASSUME time_grid \in Nat, NEW stamp \in Nat
  PROVE  /\ NextTimestampAfter(stamp) \in Nat
         /\ stamp < NextTimestampAfter(stamp)
         /\ NextTimestampAfter(stamp) <= stamp + Period
<1> DEFINE d == stamp - time_grid
           q == d \div Period
<1>1. Period \in Int /\ Period > 0 /\ d \in Int
  BY PeriodAssumption
<1>2. q \in Int /\ q * Period <= d /\ d < (q + 1) * Period
  BY <1>1
<1>3. (q + 1) * Period = q * Period + Period
  BY <1>1, <1>2
<1>4. NextTimestampAfter(stamp) = time_grid + (q + 1) * Period
  BY DEF NextTimestampAfter
<1>5. q * Period \in Int
  BY <1>1, <1>2
<1> HIDE DEF q
<1> QED
  BY <1>1, <1>2, <1>3, <1>4, <1>5

\* Dropping the oldest event leaves a history in order, with the same last event.
LEMMA KeptInOrder ==
  ASSUME history \in Seq(Event), InStampOrder(history), max_history_size \in Nat
  PROVE  /\ Kept(history) \in Seq(Event) /\ InStampOrder(Kept(history))
         /\ Kept(history) # <<>> => /\ history # <<>>
                                    /\ Kept(history)[Len(Kept(history))] = history[Len(history)]
         /\ max_history_size > 0 /\ Len(history) <= max_history_size
              => Len(Kept(history)) < max_history_size
<1>1. CASE ~DropsOldest
  BY <1>1 DEF Kept, DropsOldest
<1>2. CASE DropsOldest
  <2> DEFINE n == Len(history) - 1
             k == [i \in 1..n |-> history[i + 1]]
  <2>1. n \in Nat /\ Kept(history) = k
    BY <1>2 DEF DropsOldest, Kept
  <2>2. \A i \in 1..n : i + 1 \in DOMAIN history /\ history[i + 1] \in Event
    BY <2>1
  <2>3. k \in Seq(Event) /\ Len(k) = n
    BY <2>1, <2>2
  <2>4. InStampOrder(k)
    BY <2>1, <2>2, <2>3 DEF InStampOrder
  <2>5. k # <<>> => history # <<>> /\ k[n] = history[Len(history)]
    BY <2>1, <2>3
  <2> QED BY <1>2, <2>1, <2>3, <2>4, <2>5 DEF DropsOldest
<1> QED BY <1>1, <1>2

\* An event inserted behind the last one that is not younger keeps the order; the
\* last event is then the later of the two.
LEMMA InsertedInOrder ==
  ASSUME NEW s \in Seq(Event), InStampOrder(s), NEW e \in Event,
         NEW p \in 1..(Len(s) + 1), UpperBound(s, e.stamp, p)
  PROVE  /\ Inserted(s, p, e) \in Seq(Event) /\ Len(Inserted(s, p, e)) = Len(s) + 1
         /\ InStampOrder(Inserted(s, p, e))
         /\ LET last == Inserted(s, p, e)[Len(s) + 1].stamp
            IN  /\ e.stamp <= last
                /\ s # <<>> => /\ s[Len(s)].stamp <= last
                               /\ last = e.stamp \/ last = s[Len(s)].stamp
                /\ s = <<>> => last = e.stamp
<1> DEFINE n == Len(s)
           t == Inserted(s, p, e)
<1>1. n \in Nat /\ (\A i \in 1..n : s[i] \in Event /\ s[i].stamp \in Nat) /\ e.stamp \in Nat
  <2>1. n \in Nat /\ \A i \in 1..n : s[i] \in Event
    OBVIOUS
  <2>2. \A x \in Event : x.stamp \in Nat
    BY DEF Event
  <2> QED BY <2>1, <2>2
<1>2. t = [i \in 1..(n + 1) |-> IF i < p THEN s[i] ELSE IF i = p THEN e ELSE s[i - 1]]
  BY DEF Inserted
<1>3. \A i \in 1..(n + 1) : t[i] \in Event
  BY <1>1, <1>2
<1>4. t \in Seq(Event) /\ Len(t) = n + 1 /\ DOMAIN t = 1..(n + 1)
  BY <1>1, <1>2, <1>3
<1>5. \A i, j \in 1..(n + 1) : i <= j => t[i].stamp <= t[j].stamp
  <2> SUFFICES ASSUME NEW i \in 1..(n + 1), NEW j \in 1..(n + 1), i <= j
               PROVE  t[i].stamp <= t[j].stamp
    OBVIOUS
  <2>0. CASE i = j
    <3>1. t[i].stamp \in Nat
      BY <1>3 DEF Event
    <3> QED BY <2>0, <3>1
  <2>1. CASE i < p /\ j < p
    BY <1>1, <1>2, <2>1 DEF InStampOrder
  <2>2. CASE i < p /\ j = p
    BY <1>1, <1>2, <2>2 DEF UpperBound
  <2>3. CASE i < p /\ j > p
    BY <1>1, <1>2, <2>3 DEF InStampOrder
  <2>4. CASE i = p /\ i # j
    BY <1>1, <1>2, <2>4 DEF UpperBound
  <2>5. CASE i > p /\ i # j
    BY <1>1, <1>2, <2>5 DEF InStampOrder
  <2> QED BY <1>1, <2>0, <2>1, <2>2, <2>3, <2>4, <2>5
<1>6. t[n + 1] = IF p = n + 1 THEN e ELSE s[n]
  BY <1>1, <1>2
<1>7. /\ e.stamp <= t[n + 1].stamp
      /\ s # <<>> => s[n].stamp <= t[n + 1].stamp
      /\ s = <<>> => p = n + 1
  BY <1>1, <1>6 DEF UpperBound
<1> QED
  BY <1>4, <1>5, <1>6, <1>7 DEF InStampOrder

-----------------------------------------------------------------------------
(* The inductive invariant.                                                *)

\* What is published is never newer than the history, which lasts from the first
\* measurement on.
PublishedIsKept ==
  crashed = "no" /\ published > 0 => IsInitialized /\ published <= LastStamp

\* A prediction is at most one period beyond the next call of the timer, or it
\* was overtaken by a measurement.
PredictionsKeepPace ==
  /\ next_call <= now + Period
  /\ history # <<>> => LastStamp <= next_call + Period \/ LastStamp <= now

InductiveInv == TypeOK /\ PublishedIsKept /\ PredictionsKeepPace

LEMMA InitInductive == Init => InductiveInv
<1> SUFFICES ASSUME Init PROVE InductiveInv
  OBVIOUS
<1>1. TypeOK
  <2>1. next_call \in Nat /\ now \in 0..MaxTime /\ heard \in [Topics -> 0..now]
    BY PeriodAssumption, BoundsAssumption DEF Init
  <2> QED BY <2>1, SizesAssumption DEF Init, TypeOK, InStampOrder
<1> QED
  BY <1>1, PeriodAssumption DEF Init, InductiveInv, PublishedIsKept, PredictionsKeepPace

\* What an event does to the history.
LEMMA EmplaceEffect ==
  ASSUME TypeOK, NEW e \in Event, crashed = "no", EmplaceEvent(e)
  PROVE  /\ history' \in Seq(Event) /\ InStampOrder(history')
         /\ max_history_size > 0 => Len(history') <= max_history_size
         /\ DOMAIN stored_state' = DOMAIN history'
         /\ accepted' \in Seq(Event)
         /\ crashed' \in {"no", "too_old"}
         /\ history' # <<>> => \/ LastStamp' = e.stamp
                               \/ history # <<>> /\ LastStamp' = LastStamp
         /\ crashed' = "no" => /\ history' # <<>>
                               /\ history # <<>> /\ e.kind # "reset" => LastStamp <= LastStamp'
<1> DEFINE k == Kept(history)
<1>1. /\ k \in Seq(Event) /\ InStampOrder(k)
      /\ k # <<>> => history # <<>> /\ k[Len(k)] = history[Len(history)]
      /\ max_history_size > 0 => Len(k) < max_history_size
      /\ max_history_size \in Nat
  BY KeptInOrder, SizesAssumption DEF TypeOK
<1>2. PICK p \in 1..(Len(k) + 1) :
        /\ UpperBound(k, e.stamp, p)
        /\ IF TooOld(e, p)
           THEN /\ history' = k
                /\ stored_state' = Kept(stored_state)
                /\ crashed' = "too_old"
                /\ UNCHANGED accepted
           ELSE /\ history' = Inserted(k, p, e)
                /\ stored_state' = UpdateImpacted(history', Kept(stored_state), p)
                /\ accepted' = Append(accepted, e)
                /\ UNCHANGED crashed
  BY DEF EmplaceEvent
<1>3. CASE TooOld(e, p)
  <2>1. DOMAIN Kept(stored_state) = DOMAIN k
    BY DEF Kept, TypeOK
  <2>2. history' = k /\ stored_state' = Kept(stored_state) /\ crashed' = "too_old"
        /\ accepted' = accepted
    BY <1>2, <1>3
  <2>3. k # <<>> => LastStamp' = LastStamp
    BY <1>1, <2>2 DEF LastStamp
  <2>4. Len(k) \in Nat
    BY <1>1
  <2> QED BY <1>1, <2>1, <2>2, <2>3, <2>4 DEF TypeOK
<1>4. CASE ~TooOld(e, p)
  <2>1. history' = Inserted(k, p, e) /\ accepted' = Append(accepted, e) /\ crashed' = "no"
        /\ stored_state' = UpdateImpacted(history', Kept(stored_state), p)
    BY <1>2, <1>4
  <2>2. /\ history' \in Seq(Event) /\ InStampOrder(history') /\ Len(history') = Len(k) + 1
        /\ e.stamp <= LastStamp'
        /\ k # <<>> => /\ k[Len(k)].stamp <= LastStamp'
                       /\ LastStamp' = e.stamp \/ LastStamp' = k[Len(k)].stamp
        /\ k = <<>> => LastStamp' = e.stamp
    BY <1>1, <1>2, <2>1, InsertedInOrder DEF LastStamp
  <2>3. DOMAIN stored_state' = DOMAIN history'
    BY <2>1, <2>2 DEF UpdateImpacted
  <2>4. accepted' \in Seq(Event)
    BY <2>1 DEF TypeOK
  <2>5. Len(k) \in Nat /\ history' # <<>>
    BY <1>1, <2>2
  <2>6. k = <<>> /\ e.kind # "reset" => FALSE
    BY <1>1, <1>4 DEF TooOld
  <2>7. max_history_size > 0 => Len(history') <= max_history_size
    BY <1>1, <2>2, <2>5
  <2>8. k # <<>> => k[Len(k)].stamp = LastStamp
    BY <1>1 DEF LastStamp
  <2> QED BY <1>1, <2>1, <2>2, <2>3, <2>4, <2>5, <2>6, <2>7, <2>8
<1> QED BY <1>3, <1>4

\* The last stamp of a history is a stamp.
LEMMA LastIsStamp == TypeOK /\ history # <<>> => LastStamp \in Nat
<1> SUFFICES ASSUME TypeOK, history # <<>> PROVE LastStamp \in Nat
  OBVIOUS
<1>1. history[Len(history)] \in Event
  BY DEF TypeOK
<1> QED BY <1>1 DEF LastStamp, Event

\* A measurement and a prediction, with what is published after them.
LEMMA MeasurementKeepsInv ==
  ASSUME InductiveInv, crashed = "no", NEW t \in Topics, NEW s \in 0..MaxTime,
         OnMeasurement(t, s)
  PROVE  InductiveInv' /\ published <= published'
<1>1. s \in 0..now /\ s \in Nat /\ now \in Nat /\ published \in Nat
  BY DEF OnMeasurement, InductiveInv, TypeOK
<1>2. PICK e \in Event :
        /\ EmplaceEvent(e) /\ e.stamp = s
        /\ IsInitialized => e.kind # "reset" /\ time_grid' = time_grid
        /\ ~IsInitialized => time_grid' = s
  <2>1. CASE IsInitialized
    <3>1. [stamp |-> s, kind |-> t] \in Event
      BY <1>1 DEF Event, Kinds
    <3> WITNESS [stamp |-> s, kind |-> t] \in Event
    <3> QED BY <2>1, TopicsAssumption DEF OnMeasurement
  <2>2. CASE ~IsInitialized
    <3>1. [stamp |-> s, kind |-> "reset"] \in Event
      BY <1>1 DEF Event, Kinds
    <3> WITNESS [stamp |-> s, kind |-> "reset"] \in Event
    <3> QED BY <2>2 DEF OnMeasurement
  <2> QED BY <2>1, <2>2
<1>3. /\ history' \in Seq(Event) /\ InStampOrder(history')
      /\ max_history_size > 0 => Len(history') <= max_history_size
      /\ DOMAIN stored_state' = DOMAIN history'
      /\ accepted' \in Seq(Event)
      /\ crashed' \in {"no", "too_old"}
      /\ history' # <<>> => LastStamp' = s \/ (history # <<>> /\ LastStamp' = LastStamp)
      /\ crashed' = "no" => /\ history' # <<>>
                            /\ IsInitialized => LastStamp <= LastStamp'
  BY <1>2, EmplaceEffect DEF InductiveInv, IsInitialized
<1>4. history' # <<>> => LastStamp' \in Nat
  BY <1>1, <1>3, LastIsStamp DEF InductiveInv
<1>5. published' = published \/ (crashed' = "no" /\ IsInitialized' /\ published' = LastStamp')
  BY DEF OnMeasurement, Publish
<1>6. UNCHANGED <<max_history_size, publish_data_driven, now, next_call>>
      /\ heard' = [heard EXCEPT ![t] = s]
  BY DEF OnMeasurement, parameters
<1>7. TypeOK'
  <2>1. time_grid' \in Nat
    BY <1>1, <1>2 DEF InductiveInv, TypeOK
  <2>2. published' \in Nat
    BY <1>1, <1>4, <1>5 DEF IsInitialized
  <2>3. heard' \in [Topics -> 0..now]
    BY <1>1, <1>6 DEF InductiveInv, TypeOK
  <2> QED BY <1>3, <1>6, <2>1, <2>2, <2>3 DEF InductiveInv, TypeOK
<1>8. crashed' = "no" /\ IsInitialized => IsInitialized'
  BY <1>2, <1>3 DEF IsInitialized
<1>9. IsInitialized => LastStamp \in Nat
  BY LastIsStamp DEF InductiveInv, IsInitialized
<1>10. published > 0 => IsInitialized /\ published <= LastStamp
  BY DEF InductiveInv, PublishedIsKept
<1>11. PublishedIsKept' /\ published <= published'
  BY <1>1, <1>3, <1>4, <1>5, <1>8, <1>9, <1>10 DEF PublishedIsKept, IsInitialized
<1>12. PredictionsKeepPace'
  BY <1>1, <1>3, <1>6 DEF InductiveInv, PredictionsKeepPace
<1> QED BY <1>7, <1>11, <1>12 DEF InductiveInv

LEMMA PredictionKeepsInv ==
  ASSUME InductiveInv, crashed = "no", PredictAndPublishCurrentState
  PROVE  InductiveInv' /\ published <= published'
<1>1. PICK n \in now..(now + Period) :
        next_call < n /\ (n = next_call + Period \/ n < now + Period) /\ next_call' = n
        /\ next_call <= now /\ (n - next_call) % Period = 0
  BY DEF PredictAndPublishCurrentState, CallTimer
<1>2. /\ now \in Nat /\ published \in Nat /\ next_call \in Nat /\ time_grid \in Nat
      /\ Period \in Nat /\ Period > 0
  BY PeriodAssumption DEF InductiveInv, TypeOK
<1>3. UNCHANGED <<max_history_size, publish_data_driven, now, heard, time_grid>>
  BY DEF PredictAndPublishCurrentState, parameters, filter
<1>4. next_call + Period <= next_call'
  <2> DEFINE d == n - next_call
  <2>1. d \in Nat /\ d > 0 /\ d % Period = 0
    BY <1>1, <1>2
  <2>2. d < Period => d % Period = d
    BY <1>2, <2>1
  <2> QED BY <1>1, <1>2, <2>1, <2>2
<1>5. CASE ~IsInitialized
  <2>1. UNCHANGED <<history, stored_state, accepted, published, crashed>>
    BY <1>5 DEF PredictAndPublishCurrentState, filter
  <2>2. TypeOK'
    BY <1>1, <1>2, <1>3, <2>1 DEF InductiveInv, TypeOK
  <2>3. PublishedIsKept' /\ published <= published'
    BY <1>2, <1>3, <2>1 DEF InductiveInv, PublishedIsKept, IsInitialized, LastStamp
  <2>4. PredictionsKeepPace'
    <3>1. history # <<>> => LastStamp \in Nat
      BY LastIsStamp DEF InductiveInv
    <3>2. LastStamp' = LastStamp
      BY <2>1 DEF LastStamp
    <3> QED BY <1>1, <1>2, <1>3, <1>4, <2>1, <3>1, <3>2 DEF InductiveInv, PredictionsKeepPace
  <2> QED BY <2>2, <2>3, <2>4 DEF InductiveInv
<1>6. CASE IsInitialized
  <2> DEFINE s == NextTimestampAfter(LastStamp)
             e == [stamp |-> s, kind |-> "prediction"]
  <2>1. LastStamp \in Nat /\ history # <<>> /\ time_grid > 0
    BY <1>6, LastIsStamp DEF InductiveInv, IsInitialized
  <2>2. s \in Nat /\ LastStamp < s /\ s <= LastStamp + Period
    BY <1>2, <2>1, NextGridPoint
  <2>3. e \in Event /\ e.stamp = s /\ e.kind # "reset"
    BY <2>2 DEF Event, Kinds
  <2>4. EmplaceEvent(e) /\ Publish
    BY <1>6 DEF PredictAndPublishCurrentState
  <2> HIDE DEF s, e
  <2>5. /\ history' \in Seq(Event) /\ InStampOrder(history')
        /\ max_history_size > 0 => Len(history') <= max_history_size
        /\ DOMAIN stored_state' = DOMAIN history'
        /\ accepted' \in Seq(Event)
        /\ crashed' \in {"no", "too_old"}
        /\ history' # <<>> => LastStamp' = s \/ LastStamp' = LastStamp
        /\ crashed' = "no" => history' # <<>> /\ LastStamp <= LastStamp'
    BY <2>1, <2>3, <2>4, EmplaceEffect DEF InductiveInv
  <2>6. history' # <<>> => LastStamp' \in Nat
    BY <2>1, <2>2, <2>5
  <2>7. published' = IF crashed' = "no" /\ IsInitialized' THEN LastStamp' ELSE published
    BY <2>4 DEF Publish
  <2>8. published' \in Nat
    BY <1>2, <2>6, <2>7 DEF IsInitialized
  <2>9. TypeOK'
    BY <1>1, <1>2, <1>3, <2>5, <2>8 DEF InductiveInv, TypeOK
  <2>10. crashed' = "no" => IsInitialized'
    BY <1>3, <2>1, <2>5 DEF IsInitialized
  <2>11. published > 0 => published <= LastStamp
    BY DEF InductiveInv, PublishedIsKept
  <2>12. PublishedIsKept' /\ published <= published'
    BY <1>2, <2>1, <2>5, <2>6, <2>7, <2>10, <2>11 DEF PublishedIsKept, IsInitialized
  <2>13. PredictionsKeepPace'
    BY <1>1, <1>2, <1>3, <1>4, <2>1, <2>2, <2>5, <2>6 DEF InductiveInv, PredictionsKeepPace
  <2> QED BY <2>9, <2>12, <2>13 DEF InductiveInv
<1> QED BY <1>5, <1>6

LEMMA NextInductive ==
  InductiveInv /\ [Next]_vars => InductiveInv' /\ published <= published'
<1> SUFFICES ASSUME InductiveInv, [Next]_vars PROVE InductiveInv' /\ published <= published'
  OBVIOUS
<1>1. published \in Nat /\ now \in Nat /\ next_call \in Nat
  BY DEF InductiveInv, TypeOK
<1>2. CASE UNCHANGED vars
  BY <1>1, <1>2 DEF InductiveInv, TypeOK, PublishedIsKept, PredictionsKeepPace,
     IsInitialized, LastStamp, vars, parameters, filter
<1>3. ASSUME crashed = "no", NEW t \in Topics, NEW s \in 0..MaxTime, OnMeasurement(t, s)
      PROVE  InductiveInv' /\ published <= published'
  BY <1>3, MeasurementKeepsInv
<1>4. ASSUME crashed = "no", PredictAndPublishCurrentState
      PROVE  InductiveInv' /\ published <= published'
  BY <1>4, PredictionKeepsInv
<1>5. CASE OnForeignFrame
  BY <1>1, <1>5 DEF OnForeignFrame, InductiveInv, TypeOK, PublishedIsKept,
     PredictionsKeepPace, IsInitialized, LastStamp, parameters, filter
<1>6. CASE Tick
  <2>1. /\ now' = now + 1 /\ now' \in 0..MaxTime
        /\ UNCHANGED <<parameters, filter, published, crashed, next_call, heard>>
    BY <1>1, <1>6, BoundsAssumption DEF Tick, InductiveInv, TypeOK
  <2>2. TypeOK'
    BY <1>1, <2>1 DEF InductiveInv, TypeOK, parameters, filter
  <2>3. PublishedIsKept' /\ published <= published'
    BY <1>1, <2>1 DEF InductiveInv, PublishedIsKept, IsInitialized, LastStamp, filter
  <2>4. history # <<>> => LastStamp \in Nat
    BY LastIsStamp DEF InductiveInv
  <2>5. LastStamp' = LastStamp /\ history' = history
    BY <2>1 DEF LastStamp, filter
  <2>6. PredictionsKeepPace'
    BY <1>1, <2>1, <2>4, <2>5, PeriodAssumption DEF InductiveInv, PredictionsKeepPace
  <2> QED BY <2>2, <2>3, <2>6 DEF InductiveInv
<1> QED
  BY <1>2, <1>3, <1>4, <1>5, <1>6 DEF Next

-----------------------------------------------------------------------------
(* The recursions of the model: what a replay and a filter fed in order are.*)

\* A nonempty set of natural numbers has a least element.
LEMMA LeastNatural ==
  ASSUME NEW T, T \subseteq Nat, T # {}
  PROVE  \E x \in T : \A y \in T : x <= y
<1> DEFINE R == OpToRel(<, Nat)
<1>1. IsWellFoundedOn(R, Nat)
  BY NatLessThanWellFounded
<1>2. PICK x \in T : \A y \in T : ~ (<<y, x>> \in R)
  <2> HIDE DEF R
  <2> QED BY <1>1, WFMin
<1>3. \A y \in T : ~ (y < x)
  BY <1>2 DEF OpToRel
<1> QED BY <1>3

\* The states of a replay: up to p - 1 they are given, from p on each is computed from
\* the one before it.
IsReplay(g, L, p, states, dt, kind) ==
  /\ g = [i \in 0..L |-> g[i]]
  /\ \A i \in 0..L : g[i] = IF i = 0 THEN NoFilterState
                            ELSE IF i < p THEN states[i]
                            ELSE Feed(g[i - 1], dt[i], kind[i])

\* The recursion is well defined.
LEMMA ReplayExists ==
  ASSUME NEW L \in Nat, NEW p \in Nat, NEW states, NEW dt, NEW kind
  PROVE  \E g : IsReplay(g, L, p, states, dt, kind)
<1> DEFINE NextState(g, i) == IF i = 0 THEN NoFilterState
                              ELSE IF i < p THEN states[i]
                              ELSE Feed(g[i - 1], dt[i], kind[i])
           Upto(n, g) == g = [i \in 0..n |-> NextState(g, i)]
           Bad == {n \in 0..L : ~ \E g : Upto(n, g)}
<1>1. Bad = {}
  <2> SUFFICES ASSUME Bad # {} PROVE FALSE
    OBVIOUS
  <2>1. PICK n \in Bad : \A m \in Bad : n <= m
    <3>1. Bad \subseteq Nat
      OBVIOUS
    <3> HIDE DEF Bad
    <3> QED BY <3>1, LeastNatural
  <2>2. n \in 0..L /\ ~ \E g : Upto(n, g)
    OBVIOUS
  <2>3. CASE n = 0
    <3>1. Upto(0, [i \in 0..0 |-> NoFilterState])
      OBVIOUS
    <3> QED BY <2>2, <2>3, <3>1
  <2>4. CASE n > 0
    <3>1. n - 1 \in 0..L /\ n - 1 \notin Bad
      <4> HIDE DEF Bad
      <4> QED BY <2>1, <2>2, <2>4
    <3>2. PICK g : Upto(n - 1, g)
      BY <3>1
    <3> DEFINE f == [i \in 0..n |-> IF i = n THEN NextState(g, n) ELSE g[i]]
    <3>3. \A i \in 0..(n - 1) : g[i] = NextState(g, i)
      <4> HIDE DEF NextState
      <4> QED BY <3>2
    <3>4. \A i \in 0..n : NextState(f, i) = NextState(g, i)
      <4>1. \A i \in 1..n : f[i - 1] = g[i - 1]
        BY <2>2
      <4> QED BY <4>1
    <3>5. \A i \in 0..n : f[i] = NextState(f, i)
      <4> HIDE DEF NextState
      <4> QED BY <2>2, <2>4, <3>3, <3>4
    <3>6. Upto(n, f)
      <4>1. f = [i \in 0..n |-> f[i]]
        OBVIOUS
      <4> HIDE DEF NextState, f
      <4> QED BY <3>5, <4>1
    <3> QED BY <2>2, <3>6
  <2> QED BY <2>2, <2>3, <2>4
<1>2. PICK g : Upto(L, g)
  <2>1. L \in 0..L
    OBVIOUS
  <2> QED BY <1>1, <2>1
<1>3. g = [i \in 0..L |-> g[i]] /\ \A i \in 0..L : g[i] = NextState(g, i)
  <2> HIDE DEF NextState
  <2> QED BY <1>2
<1> QED BY <1>3 DEF IsReplay

\* The time a filter moves on by before the event i of s.
Elapsed(s, i) == s[i].stamp - (IF i = 1 THEN 0 ELSE s[i - 1].stamp)

\* A filter that is fed in order, step by step.
LEMMA FedStep ==
  ASSUME NEW s \in Seq(Event)
  PROVE  /\ FedUpTo(s, 0) = NoFilterState
         /\ \A k \in 1..Len(s) :
              FedUpTo(s, k) = Feed(FedUpTo(s, k - 1), Elapsed(s, k), s[k].kind)
<1>0. PICK dt, kind : /\ dt = [i \in 0..Len(s) |-> Elapsed(s, i)]
                      /\ kind = [i \in 0..Len(s) |-> s[i].kind]
  OBVIOUS
<1> DEFINE NextState(g, i) == IF i = 0 THEN NoFilterState
                              ELSE Feed(g[i - 1], Elapsed(s, i), s[i].kind)
           Upto(g) == g = [i \in 0..Len(s) |-> NextState(g, i)]
           fed == CHOOSE g : Upto(g)
<1>1. \E g : Upto(g)
  <2>1. PICK g : IsReplay(g, Len(s), 1, s, dt, kind)
    <3>1. Len(s) \in Nat /\ 1 \in Nat
      OBVIOUS
    <3> QED BY <3>1, ReplayExists
  <2>2. g = [i \in 0..Len(s) |-> g[i]]
    BY <2>1 DEF IsReplay
  <2>3. \A i \in 0..Len(s) : g[i] = NextState(g, i)
    <3> SUFFICES ASSUME NEW i \in 0..Len(s) PROVE g[i] = NextState(g, i)
      OBVIOUS
    <3>1. dt[i] = Elapsed(s, i) /\ kind[i] = s[i].kind /\ (i < 1 => i = 0)
      BY <1>0
    <3> QED BY <2>1, <3>1 DEF IsReplay
  <2>4. Upto(g)
    <3> HIDE DEF NextState
    <3> QED BY <2>2, <2>3
  <2> QED BY <2>4
<1>2. Upto(fed)
  <2> HIDE DEF Upto
  <2> QED BY <1>1
<1>3. \A k : FedUpTo(s, k) = fed[k]
  BY DEF FedUpTo, Elapsed
<1>4. \A i \in 0..Len(s) : fed[i] = NextState(fed, i)
  <2> HIDE DEF fed, NextState
  <2> QED BY <1>2
<1> HIDE DEF fed
<1> QED BY <1>3, <1>4

\* What update_impacted_events computes: the states before p stay, the others are
\* fed one after the other.
LEMMA ReplayStep ==
  ASSUME NEW h \in Seq(Event), NEW states, NEW p \in 1..Len(h),
         NEW new, new = UpdateImpacted(h, states, p)
  PROVE  /\ DOMAIN new = 1..Len(h)
         /\ \A i \in 1..(p - 1) : new[i] = states[i]
         /\ \A i \in p..Len(h) :
              new[i] = Feed(IF i = 1 THEN NoFilterState ELSE new[i - 1],
                            Elapsed(h, i), h[i].kind)
<1>0. PICK dt, kind : /\ dt = [i \in 0..Len(h) |-> Elapsed(h, i)]
                      /\ kind = [i \in 0..Len(h) |-> h[i].kind]
  OBVIOUS
<1> DEFINE NextState(g, i) == IF i = 0 THEN NoFilterState
                              ELSE IF i < p THEN states[i]
                              ELSE Feed(g[i - 1], Elapsed(h, i), h[i].kind)
           Upto(g) == g = [i \in 0..Len(h) |-> NextState(g, i)]
           state == CHOOSE g : Upto(g)
<1>1. \E g : Upto(g)
  <2>1. PICK g : IsReplay(g, Len(h), p, states, dt, kind)
    <3>1. Len(h) \in Nat /\ p \in Nat
      OBVIOUS
    <3> QED BY <3>1, ReplayExists
  <2>2. g = [i \in 0..Len(h) |-> g[i]]
    BY <2>1 DEF IsReplay
  <2>3. \A i \in 0..Len(h) : g[i] = NextState(g, i)
    BY <1>0, <2>1 DEF IsReplay
  <2>4. Upto(g)
    <3> HIDE DEF NextState
    <3> QED BY <2>2, <2>3
  <2> QED BY <2>4
<1>2. Upto(state)
  <2> HIDE DEF Upto
  <2> QED BY <1>1
<1>3. new = [i \in 1..Len(h) |-> state[i]]
  BY DEF UpdateImpacted, Elapsed
<1>4. \A i \in 0..Len(h) : state[i] = NextState(state, i)
  <2> HIDE DEF state, NextState
  <2> QED BY <1>2
<1> HIDE DEF state
<1>5. \A i \in 1..Len(h) : new[i] = state[i] /\ (i > 1 => new[i - 1] = state[i - 1])
  BY <1>3
<1> QED BY <1>3, <1>4, <1>5

-----------------------------------------------------------------------------
(* The accepted events in order of time.                                   *)

\* The stamps of a sequence of events are natural numbers.
LEMMA StampsAreNat ==
  ASSUME NEW s \in Seq(Event)
  PROVE  /\ Len(s) \in Nat /\ DOMAIN s = 1..Len(s)
         /\ \A i \in 1..Len(s) : s[i] \in Event /\ s[i].stamp \in Nat
<1>1. \A x \in Event : x.stamp \in Nat
  BY DEF Event
<1>2. \A i \in 1..Len(s) : s[i] \in Event
  OBVIOUS
<1> QED BY <1>1, <1>2

\* Each event has a rank of its own, and the ranks are the places of the sequence.
LEMMA RankIsPlace ==
  ASSUME NEW s \in Seq(Event)
  PROVE  /\ \A j \in 1..Len(s) : Rank(s, j) \in 1..Len(s)
         /\ \A i, j \in 1..Len(s) : Rank(s, i) < Rank(s, j) <=> Before(s, i, j)
         /\ \A i, j \in 1..Len(s) : Rank(s, i) = Rank(s, j) => i = j
         /\ \A k \in 1..Len(s) : \E j \in 1..Len(s) : Rank(s, j) = k
<1> DEFINE n == Len(s)
           Earlier(j) == {i \in 1..n : Before(s, i, j)}
<1>1. n \in Nat /\ DOMAIN s = 1..n /\ \A i \in 1..n : s[i].stamp \in Nat
  BY StampsAreNat
<1>2. IsFiniteSet(1..n) /\ Cardinality(1..n) = n
  BY <1>1, FS_Interval, SMTT(20)
<1>3. /\ \A i, j \in 1..n : i = j \/ Before(s, i, j) \/ Before(s, j, i)
      /\ \A i \in 1..n : ~Before(s, i, i)
      /\ \A h, i, j \in 1..n : Before(s, h, i) /\ Before(s, i, j) => Before(s, h, j)
  BY <1>1 DEF Before
<1>4. \A j \in 1..n : Rank(s, j) = 1 + Cardinality(Earlier(j))
  BY <1>1 DEF Rank
<1>5. ASSUME NEW j \in 1..n
      PROVE  /\ IsFiniteSet(Earlier(j)) /\ Cardinality(Earlier(j)) \in Nat
             /\ Cardinality(Earlier(j)) < n
  <2>1. Earlier(j) \in SUBSET (1..n) /\ Earlier(j) # 1..n
    BY <1>3
  <2> HIDE DEF Earlier
  <2>2. IsFiniteSet(Earlier(j)) /\ Cardinality(Earlier(j)) <= n /\ Cardinality(Earlier(j)) # n
    BY <1>2, <2>1, FS_Subset
  <2>3. Cardinality(Earlier(j)) \in Nat
    BY <2>2, FS_CardinalityType
  <2> QED BY <1>1, <2>2, <2>3
<1>6. \A j \in 1..n : Rank(s, j) \in 1..n
  <2> HIDE DEF Earlier
  <2> QED BY <1>1, <1>4, <1>5
<1>7. ASSUME NEW i \in 1..n, NEW j \in 1..n, Before(s, i, j)
      PROVE  Rank(s, i) < Rank(s, j)
  <2>1. Earlier(i) \in SUBSET Earlier(j) /\ i \in Earlier(j) /\ i \notin Earlier(i)
    BY <1>3, <1>7
  <2> HIDE DEF Earlier
  <2>2. Cardinality(Earlier(i)) <= Cardinality(Earlier(j))
        /\ Cardinality(Earlier(i)) # Cardinality(Earlier(j))
    BY <1>5, <2>1, FS_Subset
  <2> QED BY <1>4, <1>5, <2>2
<1>8. \A i, j \in 1..n : Rank(s, i) < Rank(s, j) <=> Before(s, i, j)
  BY <1>3, <1>6, <1>7, SMTT(20)
<1>9. \A i, j \in 1..n : Rank(s, i) = Rank(s, j) => i = j
  BY <1>3, <1>6, <1>7
<1>10. \A k \in 1..n : \E j \in 1..n : Rank(s, j) = k
  <2> DEFINE f == [j \in 1..n |-> Rank(s, j)]
  <2>1. f \in Injection(1..n, 1..n)
    BY <1>6, <1>9 DEF Injection, IsInjective
  <2>2. f \in Surjection(1..n, 1..n)
    BY <1>2, <2>1, FS_Injection
  <2> QED BY <2>2 DEF Surjection
<1> QED BY <1>6, <1>8, <1>9, <1>10

\* The accepted events in order: each is at the place its rank says, and later
\* places have later stamps.
LEMMA InOrderIsSorted ==
  ASSUME NEW s \in Seq(Event)
  PROVE  /\ InOrder(s) \in Seq(Event) /\ Len(InOrder(s)) = Len(s)
         /\ InStampOrder(InOrder(s))
         /\ \A j \in 1..Len(s) : InOrder(s)[Rank(s, j)] = s[j]
<1> DEFINE n == Len(s)
           at(k) == CHOOSE j \in 1..n : Rank(s, j) = k
<1>1. n \in Nat /\ DOMAIN s = 1..n /\ \A i \in 1..n : s[i] \in Event /\ s[i].stamp \in Nat
  BY StampsAreNat
<1>2. \A k \in 1..n : at(k) \in 1..n /\ Rank(s, at(k)) = k
  BY RankIsPlace
<1>3. InOrder(s) = [k \in 1..n |-> s[at(k)]]
  BY <1>1 DEF InOrder
<1> HIDE DEF at
<1>4. \A k \in 1..n : InOrder(s)[k] = s[at(k)] /\ s[at(k)] \in Event
  BY <1>1, <1>2, <1>3
<1>5. InOrder(s) \in Seq(Event) /\ Len(InOrder(s)) = n
  BY <1>1, <1>3, <1>4
<1>6. \A j \in 1..n : InOrder(s)[Rank(s, j)] = s[j]
  <2> SUFFICES ASSUME NEW j \in 1..n PROVE InOrder(s)[Rank(s, j)] = s[j]
    OBVIOUS
  <2>1. Rank(s, j) \in 1..n
    BY RankIsPlace
  <2>2. at(Rank(s, j)) = j
    BY <1>2, <2>1, RankIsPlace
  <2> QED BY <1>4, <2>1, <2>2
<1>7. InStampOrder(InOrder(s))
  <2> SUFFICES ASSUME NEW k \in 1..n, NEW l \in 1..n, k < l
               PROVE  InOrder(s)[k].stamp <= InOrder(s)[l].stamp
    <3>1. DOMAIN InOrder(s) = 1..n /\ \A k \in 1..n : InOrder(s)[k].stamp \in Nat
      BY <1>1, <1>2, <1>3, <1>4
    <3> QED BY <1>1, <3>1 DEF InStampOrder
  <2>1. Before(s, at(k), at(l))
    BY <1>2, RankIsPlace
  <2> QED BY <1>1, <1>2, <1>4, <2>1, SMTT(20) DEF Before
<1> QED BY <1>5, <1>6, <1>7

\* An event that arrives takes its place behind those that are not younger.
LEMMA InOrderAppend ==
  ASSUME NEW s \in Seq(Event), NEW e \in Event
  PROVE  \E q \in 1..(Len(s) + 1) :
           /\ UpperBound(InOrder(s), e.stamp, q)
           /\ InOrder(Append(s, e)) = Inserted(InOrder(s), q, e)
<1> DEFINE n == Len(s)
           t == Append(s, e)
           NotYounger == {i \in 1..n : s[i].stamp <= e.stamp}
           q == 1 + Cardinality(NotYounger)
           Earlier(r, j) == {i \in DOMAIN r : Before(r, i, j)}
<1>1. n \in Nat /\ DOMAIN s = 1..n /\ (\A i \in 1..n : s[i] \in Event /\ s[i].stamp \in Nat)
      /\ e.stamp \in Nat
  BY StampsAreNat DEF Event
<1>2. /\ t \in Seq(Event) /\ Len(t) = n + 1 /\ DOMAIN t = 1..(n + 1)
      /\ \A i \in 1..n : t[i] = s[i]
      /\ t[n + 1] = e
  OBVIOUS
<1> HIDE DEF t
<1>3. \A r, j : Rank(r, j) = 1 + Cardinality(Earlier(r, j))
  BY DEF Rank
<1>4. ASSUME NEW S \in SUBSET (1..n)
      PROVE  IsFiniteSet(S) /\ Cardinality(S) \in 0..n
  <2>1. IsFiniteSet(1..n) /\ Cardinality(1..n) = n
    <3>1. n \in Int /\ 1 \in Int /\ (1 > n => n = 0)
      BY <1>1
    <3> QED BY <3>1, FS_Interval
  <2>2. IsFiniteSet(S) /\ Cardinality(S) <= n
    BY <2>1, FS_Subset
  <2> QED BY <1>1, <2>2, FS_CardinalityType
<1>5. q \in 1..(n + 1) /\ Rank(t, n + 1) = q
  <2>1. Earlier(t, n + 1) = NotYounger
    BY <1>1, <1>2 DEF Before
  <2>2. Cardinality(NotYounger) \in 0..n
    BY <1>4
  <2> HIDE DEF NotYounger, Earlier
  <2> QED BY <1>1, <1>3, <2>1, <2>2
<1>6. ASSUME NEW j \in 1..n, s[j].stamp <= e.stamp
      PROVE  Rank(t, j) = Rank(s, j) /\ Rank(s, j) < q
  <2>1. Earlier(t, j) = Earlier(s, j)
    BY <1>1, <1>2, <1>6, SMTT(20) DEF Before
  <2>2. Rank(t, j) < Rank(t, n + 1)
    <3>1. Before(t, j, n + 1) /\ j \in 1..Len(t) /\ n + 1 \in 1..Len(t)
      BY <1>1, <1>2, <1>6 DEF Before
    <3> QED BY <1>2, <3>1, RankIsPlace
  <2> HIDE DEF Earlier, q
  <2> QED BY <1>3, <1>5, <2>1, <2>2
<1>7. ASSUME NEW j \in 1..n, e.stamp < s[j].stamp
      PROVE  Rank(t, j) = Rank(s, j) + 1 /\ q <= Rank(s, j)
  <2>1. Earlier(t, j) = Earlier(s, j) \union {n + 1} /\ n + 1 \notin Earlier(s, j)
    BY <1>1, <1>2, <1>7 DEF Before
  <2>2. IsFiniteSet(Earlier(s, j)) /\ Cardinality(Earlier(s, j)) \in 0..n
    <3>1. Earlier(s, j) \in SUBSET (1..n)
      BY <1>1
    <3> HIDE DEF Earlier
    <3> QED BY <1>4, <3>1
  <2>3. Cardinality(Earlier(t, j)) = Cardinality(Earlier(s, j)) + 1
    <3> HIDE DEF Earlier
    <3> QED BY <2>1, <2>2, FS_AddElement
  <2>4. NotYounger \in SUBSET Earlier(s, j)
    BY <1>1, <1>7 DEF Before
  <2>5. Cardinality(NotYounger) <= Cardinality(Earlier(s, j))
    <3> HIDE DEF Earlier, NotYounger
    <3> QED BY <2>2, <2>4, FS_Subset
  <2>6. Cardinality(NotYounger) \in 0..n
    BY <1>4
  <2> HIDE DEF Earlier, NotYounger
  <2> QED BY <1>3, <2>2, <2>3, <2>5, <2>6
<1> HIDE DEF q
<1> DEFINE o == InOrder(s)
<1>8. /\ o \in Seq(Event) /\ Len(o) = n /\ InStampOrder(o)
      /\ \A j \in 1..n : o[Rank(s, j)] = s[j]
      /\ \A k \in 1..n : \E j \in 1..n : Rank(s, j) = k
      /\ \A j \in 1..n : Rank(s, j) \in 1..n
  BY InOrderIsSorted, RankIsPlace
<1>9. /\ InOrder(t) \in Seq(Event) /\ Len(InOrder(t)) = n + 1
      /\ \A j \in 1..(n + 1) : InOrder(t)[Rank(t, j)] = t[j]
  BY <1>2, InOrderIsSorted
<1> HIDE DEF o
<1>10. ASSUME NEW k \in 1..n
       PROVE  \/ o[k].stamp <= e.stamp /\ k < q /\ InOrder(t)[k] = o[k]
              \/ e.stamp < o[k].stamp /\ q <= k /\ InOrder(t)[k + 1] = o[k]
  <2>1. PICK j \in 1..n : Rank(s, j) = k
    BY <1>8
  <2>2. o[k] = s[j]
    BY <1>8, <2>1
  <2>3. j \in 1..(n + 1) /\ t[j] = s[j]
    BY <1>1, <1>2
  <2>4. InOrder(t)[Rank(t, j)] = s[j]
    BY <1>9, <2>3
  <2> QED BY <1>1, <1>6, <1>7, <2>1, <2>2, <2>4
<1>11. UpperBound(o, e.stamp, q)
  <2>1. \A k \in 1..(q - 1) : o[k].stamp <= e.stamp
    <3>1. \A k \in 1..(q - 1) : k \in 1..n /\ ~(q <= k)
      BY <1>1, <1>5
    <3> QED BY <1>10, <3>1
  <2>2. \A k \in q..Len(o) : e.stamp < o[k].stamp
    <3>1. \A k \in q..n : k \in 1..n /\ ~(k < q)
      BY <1>1, <1>5
    <3> QED BY <1>8, <1>10, <3>1
  <2> QED BY <2>1, <2>2 DEF UpperBound
<1>12. InOrder(t)[q] = e
  BY <1>1, <1>2, <1>5, <1>9
<1>13. \A k \in 1..(n + 1) : InOrder(t)[k] = Inserted(o, q, e)[k]
  <2> SUFFICES ASSUME NEW k \in 1..(n + 1) PROVE InOrder(t)[k] = Inserted(o, q, e)[k]
    OBVIOUS
  <2>1. Inserted(o, q, e)[k] = IF k < q THEN o[k] ELSE IF k = q THEN e ELSE o[k - 1]
    BY <1>8 DEF Inserted
  <2>2. CASE k < q
    <3>1. k \in 1..n
      BY <1>1, <1>5, <2>2
    <3> QED BY <1>1, <1>5, <1>10, <2>1, <2>2, <3>1
  <2>3. CASE k > q
    <3>1. k - 1 \in 1..n /\ ~(k - 1 < q) /\ (k - 1) + 1 = k
      BY <1>1, <1>5, <2>3
    <3> QED BY <1>5, <1>10, <2>1, <2>3, <3>1
  <2> QED BY <1>1, <1>5, <1>12, <2>1, <2>2, <2>3
<1>14. Inserted(o, q, e) = [k \in 1..(n + 1) |-> Inserted(o, q, e)[k]]
  BY <1>8 DEF Inserted
<1>15. InOrder(t) = [k \in 1..(n + 1) |-> InOrder(t)[k]]
  BY <1>9
<1>16. InOrder(t) = Inserted(o, q, e)
  BY <1>13, <1>14, <1>15
<1> QED BY <1>5, <1>11, <1>16 DEF t, o

-----------------------------------------------------------------------------
(* The history and the accepted events.                                    *)

\* An event has one place in a history in order.
LEMMA UpperBoundIsUnique ==
  ASSUME NEW s \in Seq(Event), NEW stamp \in Nat,
         NEW p \in 1..(Len(s) + 1), NEW q \in 1..(Len(s) + 1),
         UpperBound(s, stamp, p), UpperBound(s, stamp, q)
  PROVE  p = q
<1>1. Len(s) \in Nat /\ \A i \in 1..Len(s) : s[i].stamp \in Nat
  BY StampsAreNat
<1>2. ~(p < q)
  <2> SUFFICES ASSUME p < q PROVE FALSE
    OBVIOUS
  <2>1. p \in p..Len(s) /\ p \in 1..(q - 1) /\ p \in 1..Len(s)
    BY <1>1
  <2> QED BY <1>1, <2>1 DEF UpperBound
<1>3. ~(q < p)
  <2> SUFFICES ASSUME q < p PROVE FALSE
    OBVIOUS
  <2>1. q \in q..Len(s) /\ q \in 1..(p - 1) /\ q \in 1..Len(s)
    BY <1>1
  <2> QED BY <1>1, <2>1 DEF UpperBound
<1> QED BY <1>1, <1>2, <1>3

\* What a filter was fed up to an event does not depend on the events after it.
LEMMA FedPrefix ==
  ASSUME NEW s \in Seq(Event), NEW t \in Seq(Event), NEW q \in Nat,
         q <= Len(s), q <= Len(t), \A i \in 1..q : s[i] = t[i]
  PROVE  \A k \in 0..q : FedUpTo(s, k) = FedUpTo(t, k)
<1> DEFINE Bad == {k \in 0..q : FedUpTo(s, k) # FedUpTo(t, k)}
<1>1. Bad = {}
  <2> SUFFICES ASSUME Bad # {} PROVE FALSE
    OBVIOUS
  <2>1. PICK k \in Bad : \A j \in Bad : k <= j
    <3>1. Bad \subseteq Nat
      OBVIOUS
    <3> HIDE DEF Bad
    <3> QED BY <3>1, LeastNatural
  <2>2. k \in 0..q /\ FedUpTo(s, k) # FedUpTo(t, k)
    OBVIOUS
  <2>3. k # 0
    BY <2>2, FedStep
  <2>4. k - 1 \in 0..q /\ k - 1 \notin Bad
    <3> HIDE DEF Bad
    <3> QED BY <2>1, <2>2, <2>3
  <2>5. FedUpTo(s, k - 1) = FedUpTo(t, k - 1)
    BY <2>4
  <2>6. s[k] = t[k] /\ Elapsed(s, k) = Elapsed(t, k)
    BY <2>2, <2>3 DEF Elapsed
  <2>7. k \in 1..Len(s) /\ k \in 1..Len(t)
    BY <2>2, <2>3
  <2>8. /\ FedUpTo(s, k) = Feed(FedUpTo(s, k - 1), Elapsed(s, k), s[k].kind)
        /\ FedUpTo(t, k) = Feed(FedUpTo(t, k - 1), Elapsed(t, k), t[k].kind)
    BY <2>7, FedStep
  <2> QED BY <2>2, <2>5, <2>6, <2>8
<1> QED BY <1>1

\* The history holds the newest of the accepted events, in order, with the states
\* of a filter that was fed all accepted events in order.
HistoryIsNewest ==
  LET n == Len(accepted)
      l == Len(history)
  IN  crashed = "no" =>
        /\ l <= n
        /\ l = n \/ (max_history_size > 0 /\ l = max_history_size)
        /\ \A i \in 1..l : /\ history[i] = InOrder(accepted)[n - l + i]
                           /\ stored_state[i] = FedUpTo(InOrder(accepted), n - l + i)

\* Until the grid begins every measurement is a reset; that goes on after the first
\* one only while all stamps are 0.
GridBegins ==
  crashed = "no" /\ time_grid = 0 => \A i \in 1..Len(accepted) : accepted[i].stamp = 0

\* h is what follows the first d events of o, and the first n of states are the ones
\* of a filter that was fed o from its beginning.
IsSuffix(h, o, d) == Len(o) = d + Len(h) /\ \A i \in 1..Len(h) : h[i] = o[d + i]
AreFed(states, n, o, d) == \A i \in 1..n : states[i] = FedUpTo(o, d + i)

\* A replay from p on, on states that were right before p.
LEMMA ReplayIsFed ==
  ASSUME NEW h \in Seq(Event), NEW o \in Seq(Event), NEW d \in Nat,
         IsSuffix(h, o, d),
         NEW p \in 1..Len(h), p = 1 => d = 0 \/ h[1].kind = "reset",
         NEW states, AreFed(states, p - 1, o, d),
         NEW new, new = UpdateImpacted(h, states, p)
  PROVE  AreFed(new, Len(h), o, d)
<1>0. /\ \A i \in 1..(p - 1) : new[i] = states[i]
      /\ \A i \in p..Len(h) :
           new[i] = Feed(IF i = 1 THEN NoFilterState ELSE new[i - 1], Elapsed(h, i), h[i].kind)
  BY ReplayStep
<1> USE DEF IsSuffix, AreFed
<1> DEFINE Bad == {i \in 1..Len(h) : new[i] # FedUpTo(o, d + i)}
<1>1. Bad = {}
  <2> SUFFICES ASSUME Bad # {} PROVE FALSE
    OBVIOUS
  <2>1. PICK k \in Bad : \A j \in Bad : k <= j
    <3>1. Bad \subseteq Nat
      OBVIOUS
    <3> HIDE DEF Bad
    <3> QED BY <3>1, LeastNatural
  <2>2. k \in 1..Len(h) /\ new[k] # FedUpTo(o, d + k)
    OBVIOUS
  <2>3. p <= k
    <3> HIDE DEF IsSuffix, AreFed, Bad
    <3>1. \A i \in 1..(p - 1) : states[i] = FedUpTo(o, d + i)
      BY DEF AreFed
    <3> QED BY <1>0, <2>2, <3>1
  <2>4. new[k] = Feed(IF k = 1 THEN NoFilterState ELSE new[k - 1], Elapsed(h, k), h[k].kind)
    <3>1. k \in p..Len(h)
      BY <2>2, <2>3
    <3> HIDE DEF IsSuffix, AreFed, Bad
    <3> QED BY <1>0, <3>1
  <2>5. /\ d + k \in 1..Len(o) /\ (d + k) - 1 = d + (k - 1)
        /\ FedUpTo(o, d + k) = Feed(FedUpTo(o, (d + k) - 1), Elapsed(o, d + k), o[d + k].kind)
    <3>1. d + k \in 1..Len(o) /\ (d + k) - 1 = d + (k - 1)
      BY <2>2
    <3> QED BY <3>1, FedStep
  <2>6. h[k] = o[d + k]
    BY <2>2
  <2>7. CASE k > 1
    <3>1. k - 1 \in 1..Len(h) /\ k - 1 \notin Bad
      <4> HIDE DEF Bad
      <4> QED BY <2>1, <2>2, <2>7
    <3>2. new[k - 1] = FedUpTo(o, d + (k - 1))
      BY <3>1
    <3>3. Elapsed(h, k) = Elapsed(o, d + k)
      <4>1. h[k - 1] = o[(d + k) - 1] /\ k # 1 /\ d + k # 1
        BY <2>5, <2>7, <3>1, SMTT(20)
      <4> QED BY <2>6, <4>1 DEF Elapsed
    <3> QED BY <2>2, <2>4, <2>5, <2>6, <2>7, <3>2, <3>3
  <2>8. CASE k = 1
    <3>1. p = 1 /\ (d = 0 \/ h[1].kind = "reset")
      BY <2>3, <2>8
    <3>2. CASE h[1].kind = "reset"
      BY <2>2, <2>4, <2>5, <2>6, <2>8, <3>2 DEF Feed
    <3>3. CASE d = 0
      <4>1. FedUpTo(o, (d + k) - 1) = NoFilterState
        BY <2>8, <3>3, FedStep
      <4>2. Elapsed(h, k) = Elapsed(o, d + k)
        BY <2>6, <2>8, <3>3 DEF Elapsed
      <4> QED BY <2>2, <2>4, <2>5, <2>6, <2>8, <4>1, <4>2
    <3> QED BY <3>1, <3>2, <3>3
  <2> QED BY <2>2, <2>7, <2>8
<1> QED BY <1>1

\* What is kept of the history is still the newest of the accepted events.
LEMMA KeptIsNewest ==
  ASSUME TypeOK, HistoryIsNewest, crashed = "no"
  PROVE  LET k == Kept(history)
             d == Len(accepted) - Len(k)
         IN  /\ k \in Seq(Event) /\ d \in Nat
             /\ d = 0 \/ (max_history_size > 0 /\ Len(k) = max_history_size - 1)
             /\ \A i \in 1..Len(k) : /\ k[i] = InOrder(accepted)[d + i]
                                     /\ Kept(stored_state)[i] = FedUpTo(InOrder(accepted), d + i)
<1> DEFINE n == Len(accepted)
           l == Len(history)
           k == Kept(history)
           o == InOrder(accepted)
<1>1. /\ n \in Nat /\ l \in Nat /\ l <= n /\ max_history_size \in Nat
      /\ max_history_size > 0 => l <= max_history_size
      /\ l = n \/ (max_history_size > 0 /\ l = max_history_size)
      /\ \A i \in 1..l : history[i] = o[n - l + i] /\ stored_state[i] = FedUpTo(o, n - l + i)
  <2>1. n \in Nat /\ l \in Nat
    BY DEF TypeOK
  <2>2. max_history_size \in Nat /\ (max_history_size > 0 => l <= max_history_size)
    BY SizesAssumption DEF TypeOK
  <2> QED BY <2>1, <2>2 DEF HistoryIsNewest
<1>2. k \in Seq(Event)
  BY <1>1, KeptInOrder DEF TypeOK
<1> HIDE DEF o
<1>3. CASE ~DropsOldest
  <2>1. k = history /\ Kept(stored_state) = stored_state
    BY <1>3 DEF Kept
  <2>2. l = n
    BY <1>1, <1>3 DEF DropsOldest
  <2> QED BY <1>1, <1>2, <2>1, <2>2 DEF o
<1>4. CASE DropsOldest
  <2>1. /\ k = [i \in 1..(l - 1) |-> history[i + 1]]
        /\ Kept(stored_state) = [i \in 1..(l - 1) |-> stored_state[i + 1]]
        /\ l = max_history_size /\ l > 0
    BY <1>1, <1>4 DEF Kept, DropsOldest
  <2>2. Len(k) = l - 1
    BY <1>1, <1>2, <2>1
  <2>3. \A i \in 1..(l - 1) : /\ k[i] = history[i + 1]
                              /\ Kept(stored_state)[i] = stored_state[i + 1]
                              /\ i + 1 \in 1..l
                              /\ n - l + (i + 1) = (n - (l - 1)) + i
    BY <1>1, <2>1
  <2>4. \A i \in 1..(l - 1) : /\ k[i] = o[(n - (l - 1)) + i]
                              /\ Kept(stored_state)[i] = FedUpTo(o, (n - (l - 1)) + i)
    BY <1>1, <2>3
  <2> QED BY <1>1, <1>2, <2>1, <2>2, <2>4 DEF o
<1> QED BY <1>3, <1>4

\* Insertion at p in the history is insertion in all accepted events, in order.
LEMMA EmplaceKeepsNewest ==
  ASSUME TypeOK, HistoryIsNewest, GridBegins, crashed = "no",
         NEW e \in Event, EmplaceEvent(e),
         e.kind = "reset" => history = <<>> \/ time_grid = 0,
         max_history_size' = max_history_size
  PROVE  HistoryIsNewest'
<1> SUFFICES ASSUME crashed' = "no" PROVE HistoryIsNewest'
  BY DEF HistoryIsNewest
<1> DEFINE n == Len(accepted)
           o == InOrder(accepted)
           k == Kept(history)
           d == n - Len(k)
<1>1. /\ k \in Seq(Event) /\ d \in Nat
      /\ d = 0 \/ (max_history_size > 0 /\ Len(k) = max_history_size - 1)
      /\ \A i \in 1..Len(k) : k[i] = o[d + i] /\ Kept(stored_state)[i] = FedUpTo(o, d + i)
  BY KeptIsNewest
<1>2. /\ accepted \in Seq(Event) /\ n \in Nat /\ Len(k) \in Nat /\ e.stamp \in Nat
      /\ max_history_size \in Nat /\ DOMAIN k = 1..Len(k)
      /\ \A i \in 1..n : accepted[i].stamp \in Nat
  <2>1. accepted \in Seq(Event) /\ max_history_size \in Nat
    BY SizesAssumption DEF TypeOK
  <2>2. e.stamp \in Nat
    BY DEF Event
  <2> HIDE DEF k
  <2> QED BY <1>1, <2>1, <2>2, StampsAreNat
<1>3. PICK p \in 1..(Len(k) + 1) :
        /\ UpperBound(k, e.stamp, p) /\ ~TooOld(e, p)
        /\ history' = Inserted(k, p, e)
        /\ stored_state' = UpdateImpacted(history', Kept(stored_state), p)
        /\ accepted' = Append(accepted, e)
  BY DEF EmplaceEvent
<1>4. PICK q \in 1..(n + 1) :
        UpperBound(o, e.stamp, q) /\ InOrder(accepted') = Inserted(o, q, e)
  BY <1>2, <1>3, InOrderAppend
<1>5. /\ o \in Seq(Event) /\ Len(o) = n /\ DOMAIN o = 1..n
      /\ \A i \in 1..n : o[i].stamp \in Nat
      /\ \A i, j \in 1..n : i <= j => o[i].stamp <= o[j].stamp
  BY <1>2, InOrderIsSorted, StampsAreNat DEF InStampOrder
<1>6. p = 1 => d = 0 \/ \A i \in 1..n : o[i].stamp = 0
  <2> SUFFICES ASSUME p = 1 PROVE d = 0 \/ \A i \in 1..n : o[i].stamp = 0
    OBVIOUS
  <2>1. history = <<>> \/ time_grid = 0
    BY <1>3 DEF TooOld
  <2>2. CASE history = <<>>
    <3>1. n = 0
      BY <1>2, <2>2 DEF HistoryIsNewest, TypeOK
    <3> QED BY <1>1, <1>2, <3>1
  <2>3. CASE time_grid = 0
    <3>1. \A i \in 1..n : accepted[i].stamp = 0
      BY <2>3 DEF GridBegins
    <3>2. \A i \in 1..n : \E j \in 1..n : Rank(accepted, j) = i /\ o[i] = accepted[j]
      <4> TAKE i \in 1..n
      <4>1. PICK j \in 1..n : Rank(accepted, j) = i
        BY <1>2, RankIsPlace
      <4> WITNESS j \in 1..n
      <4> QED BY <1>2, <4>1, InOrderIsSorted
    <3> QED BY <3>1, <3>2
  <2> QED BY <2>1, <2>2, <2>3
<1>15. n = d + Len(k) /\ p \in Nat /\ p >= 1 /\ p <= Len(k) + 1
  BY <1>1, <1>2
<1> HIDE DEF o, k, d, n
<1>7. q = d + p
  <2>1. d + p \in 1..(n + 1)
    BY <1>1, <1>2, <1>15
  <2>2. \A i \in 1..(d + p - 1) : o[i].stamp <= e.stamp
    <3>1. CASE p > 1
      <4>1. p - 1 \in 1..Len(k) /\ p - 1 \in 1..(p - 1) /\ d + (p - 1) \in 1..n
        BY <1>1, <1>2, <1>15, <3>1
      <4>2. o[d + (p - 1)].stamp <= e.stamp
        BY <1>1, <1>3, <4>1 DEF UpperBound
      <4>3. ASSUME NEW i \in 1..(d + p - 1) PROVE o[i].stamp <= e.stamp
        <5>1. i \in 1..n /\ i <= d + (p - 1)
          BY <1>1, <1>2, <1>15, <4>1
        <5>2. o[i].stamp <= o[d + (p - 1)].stamp
          BY <1>5, <4>1, <5>1
        <5>3. o[i].stamp \in Nat /\ o[d + (p - 1)].stamp \in Nat
          BY <1>5, <4>1, <5>1
        <5> QED BY <1>2, <4>2, <5>2, <5>3
      <4> QED BY <4>3
    <3>2. CASE p = 1
      <4>1. \A i \in 1..(d + p - 1) : i \in 1..n
        BY <1>1, <1>2, <1>15, <3>2
      <4> QED BY <1>1, <1>2, <1>6, <3>2, <4>1
    <3> QED BY <3>1, <3>2
  <2>3. \A i \in (d + p)..n : e.stamp < o[i].stamp
    <3> SUFFICES ASSUME NEW i \in (d + p)..n PROVE e.stamp < o[i].stamp
      OBVIOUS
    <3>0. i \in Int /\ d + p <= i /\ i <= n /\ d \in Int /\ p \in Int /\ Len(k) \in Int
      BY <1>1, <1>2, <1>15
    <3>1. i - d \in p..Len(k) /\ i - d \in 1..Len(k) /\ d + (i - d) = i
      BY <1>15, <3>0
    <3>2. k[i - d] = o[i]
      BY <1>1, <3>1
    <3> QED BY <1>3, <3>1, <3>2 DEF UpperBound
  <2>4. UpperBound(o, e.stamp, d + p)
    <3>1. \A i \in 1..((d + p) - 1) : o[i].stamp <= e.stamp
      <4>1. (d + p) - 1 = d + p - 1
        BY <1>1, <1>15
      <4> QED BY <2>2, <4>1
    <3>2. \A i \in (d + p)..Len(o) : e.stamp < o[i].stamp
      BY <1>5, <2>3
    <3> QED BY <3>1, <3>2 DEF UpperBound
  <2> QED BY <1>2, <1>4, <1>5, <2>1, <2>4, UpperBoundIsUnique
<1> DEFINE new == InOrder(accepted')
<1>8. /\ accepted' \in Seq(Event) /\ Len(accepted') = n + 1
      /\ new \in Seq(Event) /\ Len(new) = n + 1
  <2>1. accepted' \in Seq(Event) /\ Len(accepted') = n + 1
    BY <1>2, <1>3 DEF n
  <2> QED BY <2>1, InOrderIsSorted
<1>9. \A i \in 1..(n + 1) : new[i] = IF i < q THEN o[i] ELSE IF i = q THEN e ELSE o[i - 1]
  BY <1>4, <1>5 DEF Inserted
<1>10. history' \in Seq(Event) /\ Len(history') = Len(k) + 1
       /\ \A i \in 1..(Len(k) + 1) :
            history'[i] = IF i < p THEN k[i] ELSE IF i = p THEN e ELSE k[i - 1]
  <2>1. \A i \in 1..(Len(k) + 1) :
          /\ Inserted(k, p, e)[i] = IF i < p THEN k[i] ELSE IF i = p THEN e ELSE k[i - 1]
          /\ Inserted(k, p, e)[i] \in Event
    BY <1>1, <1>2 DEF Inserted
  <2>2. Inserted(k, p, e) = [i \in 1..(Len(k) + 1) |-> Inserted(k, p, e)[i]]
    BY DEF Inserted
  <2>3. Inserted(k, p, e) \in Seq(Event) /\ Len(Inserted(k, p, e)) = Len(k) + 1
    BY <1>2, <2>1, <2>2
  <2> QED BY <1>3, <2>1, <2>3
<1> HIDE DEF new
<1>11. \A i \in 1..(Len(k) + 1) : history'[i] = new[d + i]
  <2> SUFFICES ASSUME NEW i \in 1..(Len(k) + 1) PROVE history'[i] = new[d + i]
    OBVIOUS
  <2>1. /\ d + i \in 1..(n + 1)
        /\ d + i < q <=> i < p
        /\ d + i = q <=> i = p
    BY <1>1, <1>2, <1>7, <1>15
  <2>2. CASE i < p
    <3>1. i \in 1..Len(k)
      BY <1>2, <2>2
    <3> QED BY <1>1, <1>9, <1>10, <2>1, <2>2, <3>1
  <2>3. CASE i = p
    BY <1>9, <1>10, <2>1, <2>3
  <2>4. CASE i > p
    <3>1. i - 1 \in 1..Len(k) /\ d + (i - 1) = (d + i) - 1 /\ ~(i < p) /\ i # p
      BY <1>1, <1>2, <2>4
    <3> QED BY <1>1, <1>9, <1>10, <2>1, <2>4, <3>1
  <2> QED BY <2>2, <2>3, <2>4
<1>12. \A i \in 1..(p - 1) : Kept(stored_state)[i] = FedUpTo(new, d + i)
  <2>1. d + p - 1 \in Nat /\ d + p - 1 <= n /\ d + p - 1 <= n + 1
    BY <1>1, <1>2, <1>15
  <2>2. \A i \in 1..(d + p - 1) : new[i] = o[i]
    <3>1. \A i \in 1..(d + p - 1) : i \in 1..(n + 1) /\ i < q
      BY <1>1, <1>2, <1>7, <1>15
    <3> QED BY <1>9, <3>1
  <2>3. \A i \in 0..(d + p - 1) : FedUpTo(new, i) = FedUpTo(o, i)
    BY <1>5, <1>8, <2>1, <2>2, FedPrefix
  <2>4. \A i \in 1..(p - 1) : i \in 1..Len(k) /\ d + i \in 0..(d + p - 1)
    BY <1>1, <1>2, <1>15
  <2> QED BY <1>1, <2>3, <2>4
<1>13. \A i \in 1..(Len(k) + 1) : stored_state'[i] = FedUpTo(new, d + i)
  <2>1. p = 1 => d = 0 \/ history'[1].kind = "reset"
    BY <1>2, <1>3, <1>10 DEF TooOld
  <2>2. Len(new) = d + Len(history') /\ p \in 1..Len(history')
    BY <1>1, <1>2, <1>8, <1>10, <1>15
  <2>3. stored_state' = UpdateImpacted(history', Kept(stored_state), p)
    BY <1>3
  <2>4. \A i \in 1..Len(history') : history'[i] = new[d + i]
    BY <1>10, <1>11
  <2>5. IsSuffix(history', new, d) /\ AreFed(Kept(stored_state), p - 1, new, d)
    BY <1>12, <2>2, <2>4 DEF IsSuffix, AreFed
  <2>6. AreFed(stored_state', Len(history'), new, d)
    BY <1>1, <1>8, <1>10, <2>1, <2>2, <2>3, <2>5, ReplayIsFed
  <2> QED BY <1>10, <2>6 DEF AreFed
<1>14. /\ Len(history') <= Len(accepted') /\ Len(accepted') - Len(history') = d
       /\ Len(history') = Len(accepted') \/ (max_history_size > 0 /\ Len(history') = max_history_size)
  BY <1>1, <1>2, <1>8, <1>10, <1>15
<1> QED BY <1>10, <1>11, <1>13, <1>14 DEF HistoryIsNewest, new

\* A measurement, a prediction and every other step keep the history the newest part.
LEMMA MeasurementKeepsNewest ==
  ASSUME TypeOK, HistoryIsNewest, GridBegins, crashed = "no",
         NEW t \in Topics, NEW s \in 0..MaxTime, OnMeasurement(t, s)
  PROVE  HistoryIsNewest' /\ GridBegins'
<1>1. max_history_size' = max_history_size /\ s \in Nat
  BY DEF OnMeasurement, parameters
<1>2. accepted \in Seq(Event) /\ Len(accepted) \in Nat
  BY DEF TypeOK
<1>3. ASSUME NEW e \in Event, EmplaceEvent(e), crashed' = "no"
      PROVE  /\ accepted' = Append(accepted, e) /\ Len(accepted') = Len(accepted) + 1
             /\ \A i \in 1..Len(accepted) : accepted'[i] = accepted[i]
  <2>1. accepted' = Append(accepted, e)
    BY <1>3 DEF EmplaceEvent
  <2> QED BY <1>2, <2>1
<1>4. CASE IsInitialized
  <2> DEFINE e == [stamp |-> s, kind |-> t]
  <2>1. e \in Event /\ e.kind # "reset" /\ EmplaceEvent(e) /\ time_grid' = time_grid
    BY <1>1, <1>4, TopicsAssumption DEF OnMeasurement, Event, Kinds
  <2> HIDE DEF e
  <2>2. HistoryIsNewest'
    BY <1>1, <2>1, EmplaceKeepsNewest
  <2>3. GridBegins'
    BY <1>4, <2>1 DEF IsInitialized, GridBegins
  <2> QED BY <2>2, <2>3
<1>5. CASE ~IsInitialized
  <2> DEFINE e == [stamp |-> s, kind |-> "reset"]
  <2>1. e \in Event /\ EmplaceEvent(e) /\ time_grid' = s /\ e.stamp = s
    BY <1>1, <1>5 DEF OnMeasurement, Event, Kinds
  <2> HIDE DEF e
  <2>2. history = <<>> \/ time_grid = 0
    BY <1>5 DEF IsInitialized, TypeOK
  <2>3. HistoryIsNewest'
    BY <1>1, <2>1, <2>2, EmplaceKeepsNewest
  <2>4. \A i \in 1..Len(accepted) : accepted[i].stamp = 0
    <3>1. CASE history = <<>>
      <4>1. Len(accepted) = 0
        BY <1>2, <3>1, SizesAssumption DEF HistoryIsNewest, TypeOK
      <4> QED BY <4>1
    <3>2. CASE time_grid = 0
      BY <3>2 DEF GridBegins
    <3> QED BY <2>2, <3>1, <3>2
  <2>5. GridBegins'
    <3> SUFFICES ASSUME crashed' = "no", s = 0, NEW i \in 1..Len(accepted')
                 PROVE  accepted'[i].stamp = 0
      BY <2>1 DEF GridBegins
    <3>1. i \in 1..Len(accepted) \/ accepted'[i] = e
      BY <1>2, <1>3, <2>1
    <3> QED BY <1>3, <2>1, <2>4, <3>1
  <2> QED BY <2>3, <2>5
<1> QED BY <1>4, <1>5

LEMMA PredictionKeepsNewest ==
  ASSUME TypeOK, HistoryIsNewest, GridBegins, crashed = "no", PredictAndPublishCurrentState
  PROVE  HistoryIsNewest' /\ GridBegins'
<1>1. max_history_size' = max_history_size /\ time_grid' = time_grid
  BY DEF PredictAndPublishCurrentState, parameters, filter
<1>2. CASE ~IsInitialized
  <2>1. UNCHANGED <<history, stored_state, accepted, crashed>>
    BY <1>2 DEF PredictAndPublishCurrentState, filter
  <2> QED BY <1>1, <2>1 DEF HistoryIsNewest, GridBegins
<1>3. CASE IsInitialized
  <2> DEFINE s == NextTimestampAfter(LastStamp)
             e == [stamp |-> s, kind |-> "prediction"]
  <2>1. s \in Nat
    BY <1>3, LastIsStamp, NextGridPoint DEF TypeOK, IsInitialized
  <2>2. e \in Event /\ e.kind # "reset" /\ EmplaceEvent(e)
    BY <1>3, <2>1 DEF PredictAndPublishCurrentState, Event, Kinds
  <2> HIDE DEF e
  <2>3. HistoryIsNewest'
    BY <1>1, <2>2, EmplaceKeepsNewest
  <2> QED BY <1>1, <1>3, <2>3 DEF IsInitialized, GridBegins
<1> QED BY <1>2, <1>3

LEMMA NextKeepsNewest ==
  TypeOK /\ HistoryIsNewest /\ GridBegins /\ [Next]_vars => HistoryIsNewest' /\ GridBegins'
<1> SUFFICES ASSUME TypeOK, HistoryIsNewest, GridBegins, [Next]_vars
             PROVE  HistoryIsNewest' /\ GridBegins'
  OBVIOUS
<1>1. CASE UNCHANGED <<max_history_size, history, stored_state, accepted, crashed, time_grid>>
  BY <1>1 DEF HistoryIsNewest, GridBegins
<1>2. ASSUME crashed = "no", NEW t \in Topics, NEW s \in 0..MaxTime, OnMeasurement(t, s)
      PROVE  HistoryIsNewest' /\ GridBegins'
  BY <1>2, MeasurementKeepsNewest
<1>3. ASSUME crashed = "no", PredictAndPublishCurrentState
      PROVE  HistoryIsNewest' /\ GridBegins'
  BY <1>3, PredictionKeepsNewest
<1>4. CASE OnForeignFrame
  BY <1>4 DEF OnForeignFrame, HistoryIsNewest, GridBegins
<1>5. Tick \/ UNCHANGED vars
        => UNCHANGED <<max_history_size, history, stored_state, accepted, crashed, time_grid>>
  BY DEF Tick, vars, parameters, filter
<1> QED
  BY <1>1, <1>2, <1>3, <1>4, <1>5 DEF Next

\* As many accepted events have a rank beyond d as there are places beyond d.
LEMMA RanksBeyond ==
  ASSUME NEW s \in Seq(Event), NEW d \in 0..Len(s)
  PROVE  /\ IsFiniteSet({j \in 1..Len(s) : Rank(s, j) > d})
         /\ Cardinality({j \in 1..Len(s) : Rank(s, j) > d}) >= Len(s) - d
<1> DEFINE n == Len(s)
           T == {j \in 1..n : Rank(s, j) > d}
           f == [j \in T |-> Rank(s, j)]
<1>1. n \in Nat /\ d \in Nat /\ d <= n
  BY StampsAreNat
<1>2. IsFiniteSet(T)
  <2>1. IsFiniteSet(1..n)
    BY <1>1, FS_Interval
  <2>2. T \in SUBSET (1..n)
    OBVIOUS
  <2> HIDE DEF T
  <2> QED BY <2>1, <2>2, FS_Subset
<1>3. f \in Surjection(T, (d + 1)..n)
  <2>1. \A j \in T : Rank(s, j) \in (d + 1)..n
    BY <1>1, RankIsPlace
  <2>2. \A k \in (d + 1)..n : \E j \in T : Rank(s, j) = k
    <3> TAKE k \in (d + 1)..n
    <3>1. k \in 1..n /\ k > d
      BY <1>1
    <3>2. PICK j \in 1..n : Rank(s, j) = k
      BY <3>1, RankIsPlace
    <3> QED BY <3>1, <3>2
  <2> HIDE DEF T
  <2> QED BY <2>1, <2>2 DEF Surjection
<1>4. Cardinality((d + 1)..n) = n - d
  <2> DEFINE c == d + 1
  <2>1. c \in Int /\ n \in Int /\ (c > n => n - d = 0) /\ n - c + 1 = n - d
    BY <1>1
  <2> HIDE DEF c, n
  <2>2. Cardinality(c..n) = IF c > n THEN 0 ELSE n - c + 1
    BY <2>1, FS_Interval
  <2> QED BY <2>1, <2>2 DEF c
<1> HIDE DEF T, f
<1>5. Cardinality(T) >= n - d
  <2>1. Cardinality((d + 1)..n) <= Cardinality(T)
    BY <1>2, <1>3, FS_Surjection
  <2>2. Cardinality(T) \in Nat
    BY <1>2, FS_CardinalityType
  <2> QED BY <1>1, <1>4, <2>1, <2>2
<1> QED BY <1>2, <1>5 DEF T

\* A measurement is refused only if as many events are newer as the history keeps.
LEMMA RefusedIsOldest ==
  ASSUME TypeOK, HistoryIsNewest, crashed = "no",
         NEW t \in Topics, NEW s \in 0..MaxTime, OnMeasurement(t, s), crashed' = "too_old"
  PROVE  LET newer == Cardinality({i \in DOMAIN accepted : accepted[i].stamp > s})
         IN  newer = Len(accepted) \/ (max_history_size > 0 /\ newer >= max_history_size - 1)
<1> DEFINE n == Len(accepted)
           o == InOrder(accepted)
           k == Kept(history)
           d == n - Len(k)
           Newer == {i \in 1..n : accepted[i].stamp > s}
<1>1. /\ k \in Seq(Event) /\ d \in Nat
      /\ d = 0 \/ (max_history_size > 0 /\ Len(k) = max_history_size - 1)
      /\ \A i \in 1..Len(k) : k[i] = o[d + i]
  BY KeptIsNewest
<1>2. accepted \in Seq(Event) /\ max_history_size \in Nat /\ s \in Nat
  BY SizesAssumption DEF TypeOK
<1>3. /\ n \in Nat /\ DOMAIN accepted = 1..n /\ Len(k) \in Nat
      /\ \A i \in 1..n : accepted[i].stamp \in Nat
  <2> HIDE DEF k
  <2> QED BY <1>1, <1>2, StampsAreNat
<1>4. UpperBound(k, s, 1)
  <2>1. PICK e \in [stamp : {s}, kind : {t, "reset"}] : EmplaceEvent(e)
    BY DEF OnMeasurement
  <2>2. PICK p \in 1..(Len(k) + 1) : UpperBound(k, e.stamp, p) /\ TooOld(e, p)
    BY <2>1 DEF EmplaceEvent
  <2> QED BY <2>2 DEF TooOld
<1>5. n = d + Len(k) /\ d \in 0..n
  BY <1>1, <1>3
<1> HIDE DEF k, o, d
<1>6. \A j \in 1..n : Rank(accepted, j) > d => accepted[j].stamp > s
  <2> SUFFICES ASSUME NEW j \in 1..n, Rank(accepted, j) > d PROVE accepted[j].stamp > s
    OBVIOUS
  <2>1. Rank(accepted, j) \in 1..n /\ o[Rank(accepted, j)] = accepted[j]
    BY <1>2, RankIsPlace, InOrderIsSorted DEF o
  <2>2. Rank(accepted, j) - d \in 1..Len(k) /\ d + (Rank(accepted, j) - d) = Rank(accepted, j)
    BY <1>1, <1>3, <1>5, <2>1
  <2>3. k[Rank(accepted, j) - d] = accepted[j]
    BY <1>1, <2>1, <2>2
  <2>4. s < accepted[j].stamp
    BY <1>4, <2>2, <2>3 DEF UpperBound
  <2> QED BY <1>2, <1>3, <2>4
<1>7. IsFiniteSet(Newer) /\ Cardinality(Newer) \in 0..n
  <2>1. IsFiniteSet(1..n) /\ Cardinality(1..n) = n
    <3> HIDE DEF n
    <3>1. 1 \in Int /\ n \in Int /\ (1 > n => n = 0) /\ n - 1 + 1 = n
      BY <1>3
    <3> QED BY <3>1, FS_Interval
  <2>2. Newer \in SUBSET (1..n)
    OBVIOUS
  <2> HIDE DEF Newer
  <2>3. IsFiniteSet(Newer) /\ Cardinality(Newer) <= n
    BY <2>1, <2>2, FS_Subset
  <2> QED BY <1>3, <2>3, FS_CardinalityType
<1>8. Cardinality(Newer) >= n - d
  <2> DEFINE T == {j \in 1..n : Rank(accepted, j) > d}
  <2>1. IsFiniteSet(T) /\ Cardinality(T) >= n - d
    BY <1>2, <1>5, RanksBeyond
  <2>2. T \in SUBSET Newer
    BY <1>6
  <2> HIDE DEF T, Newer
  <2>3. Cardinality(T) <= Cardinality(Newer)
    BY <1>7, <2>2, FS_Subset
  <2>4. Cardinality(T) \in Nat
    BY <2>1, FS_CardinalityType
  <2> QED BY <1>1, <1>3, <1>7, <2>1, <2>3, <2>4
<1>9. {i \in DOMAIN accepted : accepted[i].stamp > s} = Newer
  BY <1>3
<1>10. \/ Cardinality(Newer) = n
       \/ max_history_size > 0 /\ Cardinality(Newer) >= max_history_size - 1
  <2> HIDE DEF Newer, n
  <2> QED BY <1>1, <1>2, <1>3, <1>5, <1>7, <1>8
<1> QED
  BY <1>9, <1>10

-----------------------------------------------------------------------------
(* The theorems.                                                           *)

\* The inductive invariant, of which the properties are consequences.
THEOREM InvariantCorrect == Spec => []InductiveInv
BY InitInductive, NextInductive, PTL DEF Spec

\* The history stays in order of its stamps and within its size, whatever
\* comes late, for every size of the history.
THEOREM TypeCorrect == Spec => []TypeOK
<1>1. InductiveInv => TypeOK
  BY DEF InductiveInv
<1> QED
  BY InvariantCorrect, <1>1, PTL

\* The predictions stay within two periods of the clock, for every period,
\* however late the calls of the timer are.
THEOREM PaceCorrect == Spec => []IsNotAhead
<1>1. InductiveInv => IsNotAhead
  <2> SUFFICES ASSUME InductiveInv, history # <<>> PROVE LastStamp <= now + 2 * Period
    BY DEF IsNotAhead
  <2>1. LastStamp \in Nat /\ now \in Nat /\ next_call \in Nat
    BY LastIsStamp DEF InductiveInv, TypeOK
  <2> QED BY <2>1, PeriodAssumption DEF InductiveInv, PredictionsKeepPace
<1> QED
  BY InvariantCorrect, <1>1, PTL

\* The stamps of the published odometry never go back, for any topics and any
\* disorder of the measurements.
THEOREM StampsCorrect == Spec => StampsAdvance
<1>1. InductiveInv /\ [Next]_vars => [published <= published']_vars
  BY NextInductive
<1> QED
  BY InvariantCorrect, <1>1, PTL DEF Spec, StampsAdvance

\* The history is the newest part of everything accepted, in order of time, and each of
\* its states is the one of a filter that was fed in that order from the beginning.
THEOREM NewestCorrect == Spec => [](HistoryIsNewest /\ GridBegins)
<1>1. Init => HistoryIsNewest /\ GridBegins
  BY DEF Init, HistoryIsNewest, GridBegins
<1> QED
  BY <1>1, TypeCorrect, NextKeepsNewest, PTL DEF Spec

\* The estimate is the one of a filter that was fed every accepted event in order of
\* time, for any number of events, any disorder, any size of the history and any filter.
THEOREM ReplayCorrect == Spec => []InOrderReplay
<1>1. TypeOK /\ HistoryIsNewest => InOrderReplay
  <2> SUFFICES ASSUME TypeOK, HistoryIsNewest, crashed = "no", history # <<>>
               PROVE  stored_state[Len(history)] = FedInOrder
    BY DEF InOrderReplay
  <2> DEFINE l == Len(history)
             n == Len(accepted)
  <2>1. l \in 1..l /\ n \in Nat /\ n - l + l = n
    BY DEF TypeOK
  <2>2. stored_state[l] = FedUpTo(InOrder(accepted), n)
    BY <2>1 DEF HistoryIsNewest
  <2> QED BY <2>2 DEF FedInOrder
<1> QED
  BY <1>1, TypeCorrect, NewestCorrect, PTL

\* Only a measurement older than all the history has room for ends the node.
THEOREM RefusalsCorrect == Spec => RefusesOnlyTheOldest
<1>1. TypeOK /\ HistoryIsNewest /\ [Next]_vars => [RefuseStep]_vars
  <2> SUFFICES ASSUME TypeOK, HistoryIsNewest, Next PROVE RefuseStep
    OBVIOUS
  <2>1. crashed = "no"
    BY DEF Next
  <2> QED BY <2>1, RefusedIsOldest DEF RefuseStep
<1> QED
  BY <1>1, TypeCorrect, NewestCorrect, PTL DEF Spec, RefusesOnlyTheOldest
=============================================================================
