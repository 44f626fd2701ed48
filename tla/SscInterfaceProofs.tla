------------------------- MODULE SscInterfaceProofs -------------------------
(***************************************************************************)
(* Theorems about the platform of the SSC for any debounce, any depth of   *)
(* the topics and any number of requests.                                  *)
(***************************************************************************)
EXTENDS SscInterface, TLAPS

USE DebounceAssumption, SscAssumption

-----------------------------------------------------------------------------
(* The operators.                                                          *)

\* The methods of the state machine lead from machine to machine.
LEMMA MachineType ==
  ASSUME NEW m \in DbwMachine, NEW b \in BOOLEAN
  PROVE  /\ DbwFeedback(m, b) \in DbwMachine /\ UserRequest(m, b) \in DbwMachine
         /\ ControlCmdSent(m) \in DbwMachine /\ StateCmdSent(m) \in DbwMachine
<1>1. Disabled \in DbwMachine
  BY DEF Disabled, DbwMachine, DbwStates
<1>2. DbwFeedback(m, b) \in DbwMachine
  <2> 0 \in 0..Debounce /\ "ENABLED" \in DbwStates
    BY DEF DbwStates
  <2>1. [m EXCEPT !.state = "ENABLED", !.disabled_feedback_count = 0] \in DbwMachine
    BY DEF DbwMachine
  <2>2. ASSUME m.disabled_feedback_count < Debounce
        PROVE  [m EXCEPT !.disabled_feedback_count = @ + 1] \in DbwMachine
    BY <2>2 DEF DbwMachine
  <2>3. \/ DbwFeedback(m, b) = [m EXCEPT !.state = "ENABLED", !.disabled_feedback_count = 0]
        \/ /\ m.disabled_feedback_count < Debounce
           /\ DbwFeedback(m, b) = [m EXCEPT !.disabled_feedback_count = @ + 1]
        \/ DbwFeedback(m, b) = Disabled
        \/ DbwFeedback(m, b) = m
    BY DEF DbwFeedback
  <2> QED BY <1>1, <2>1, <2>2, <2>3
<1>3. UserRequest(m, b) \in DbwMachine
  BY <1>1 DEF UserRequest, DbwMachine, DbwStates
<1>4. ControlCmdSent(m) \in DbwMachine /\ StateCmdSent(m) \in DbwMachine
  BY DEF ControlCmdSent, StateCmdSent, DbwMachine, DbwStates
<1> QED BY <1>2, <1>3, <1>4

\* A report resets the machine, moves it on from ENABLE_SENT, or leaves it alone.
LEMMA FeedbackEffect ==
  ASSUME NEW m \in DbwMachine, NEW b \in BOOLEAN
  PROVE  \/ DbwFeedback(m, b) \in {m, Disabled}
         \/ /\ m.state = "ENABLE_SENT"
            /\ DbwFeedback(m, b).state \in {"ENABLE_SENT", "ENABLED"}
  BY DEF DbwFeedback, DbwMachine

Dropped(topic) == IF Len(topic) = Depth THEN 1 ELSE 0

\* A full topic drops its first message, and every other one moves up.
LEMMA PublishedEffect ==
  ASSUME NEW S, NEW topic \in Seq(S), Len(topic) <= Depth, NEW msg \in S
  PROVE  /\ Published(topic, msg) \in Seq(S)
         /\ Len(Published(topic, msg)) \in 1..Depth
         /\ Published(topic, msg)[Len(Published(topic, msg))] = msg
         /\ Len(Published(topic, msg)) = Len(topic) + 1 - Dropped(topic)
         /\ \A i \in 1..(Len(topic) - Dropped(topic)) :
              Published(topic, msg)[i] = topic[i + Dropped(topic)]
<1> USE DEF Dropped
<1>1. CASE Len(topic) = Depth
  <2>1. topic # <<>> /\ Tail(topic) \in Seq(S) /\ Len(Tail(topic)) = Len(topic) - 1
    BY <1>1
  <2>2. \A i \in 1..(Len(topic) - 1) : Tail(topic)[i] = topic[i + 1]
    BY <2>1
  <2>3. Published(topic, msg) = Append(Tail(topic), msg)
    BY <1>1 DEF Published
  <2> QED BY <1>1, <2>1, <2>2, <2>3
<1>2. CASE Len(topic) < Depth
  BY <1>2 DEF Published
<1> QED BY <1>1, <1>2

\* The oldest message is taken off a topic.
LEMMA TakenEffect ==
  ASSUME NEW S, NEW topic \in Seq(S), Len(topic) <= Depth, topic # <<>>
  PROVE  /\ Head(topic) \in S /\ Head(topic) = topic[1]
         /\ Tail(topic) \in Seq(S)
         /\ Len(topic) \in 1..Depth /\ Len(Tail(topic)) = Len(topic) - 1
         /\ \A i \in 1..(Len(topic) - 1) : Tail(topic)[i] = topic[i + 1]
  OBVIOUS

\* The invariant speaks of commands and their requests, in steps that keep both.
QueueInv == AsksInOrder /\ NewRequestIsUnused /\ NextCommandIsAsked /\ CommandsAreAsked
RestInv == RestIsReset /\ EngagedHeard /\ GreetedFirst

-----------------------------------------------------------------------------
(* The inductive invariant.                                                *)

LEMMA InitInductive == Init => InductiveInv
<1> SUFFICES ASSUME Init PROVE InductiveInv
  OBVIOUS
<1>1. Disabled \in DbwMachine
  BY DEF Disabled, DbwMachine, DbwStates
<1>2. TypeOK
  <2>1. \A S : <<>> \in Seq(S) /\ Len(<<>>) = 0
    OBVIOUS
  <2>2. 0 \in 0..MaxAsks /\ 0 <= Depth
    OBVIOUS
  <2> QED BY <1>1, <2>1, <2>2, Zenon DEF Init, TypeOK
<1>3. dbw.state = "DISABLED" /\ ~Enabled(dbw)
  BY DEF Init, Disabled, Enabled
<1>4. AsksInOrder /\ NewRequestIsUnused /\ NextCommandIsAsked /\ CommandsAreAsked
  BY <1>3 DEF Init, AsksInOrder, NewRequestIsUnused, NextCommandIsAsked, CommandsAreAsked
<1>5. RestIsReset /\ EngagedHeard /\ GreetedFirst
  BY <1>3 DEF Init, RestIsReset, EngagedHeard, GreetedFirst
<1> QED BY <1>2, <1>4, <1>5 DEF InductiveInv

\* Type correctness is inductive by itself.
LEMMA TypeStep == TypeOK /\ [Next]_vars => TypeOK'
<1> SUFFICES ASSUME TypeOK, [Next]_vars PROVE TypeOK'
  OBVIOUS
<1> USE DEF TypeOK
<1>1. CASE SendStateCommand
  BY <1>1, MachineType DEF SendStateCommand
<1>2. CASE SendControlCommand
  <2>1. [enable |-> Enabled(dbw), ask |-> asks] \in Command
    BY DEF Command, Enabled
  <2>2. commands' \in Seq(Command) /\ Len(commands') <= Depth
    <3>1. Published(commands, [enable |-> Enabled(dbw), ask |-> asks]) \in Seq(Command)
          /\ Len(Published(commands, [enable |-> Enabled(dbw), ask |-> asks])) \in 1..Depth
      BY <2>1, PublishedEffect
    <3> QED BY <3>1, <1>2 DEF SendControlCommand
  <2> QED BY <1>2, <2>2, MachineType DEF SendControlCommand
<1>3. CASE RequestAutonomous
  <2>1. UserRequest(dbw, TRUE) \in DbwMachine
    BY MachineType
  <2>2. asks' \in 0..MaxAsks
    BY <1>3 DEF RequestAutonomous
  <2> QED BY <1>3, <2>1, <2>2, Zenon DEF RequestAutonomous
<1>4. CASE RequestManual
  <2>1. UserRequest(dbw, FALSE) \in DbwMachine
    BY MachineType
  <2> QED BY <1>4, <2>1 DEF RequestManual
<1>5. CASE OnDbwStateReport
  <2>1. Head(feedback) \in Reports /\ Tail(feedback) \in Seq(Reports)
        /\ Len(Tail(feedback)) <= Depth
    BY <1>5, TakenEffect DEF OnDbwStateReport
  <2>2. DbwFeedback(dbw, Head(feedback) = "enabled") \in DbwMachine
    BY MachineType
  <2>3. mode' \in {"none", "manual", "autonomous"}
    BY <1>5 DEF OnDbwStateReport
  <2> QED BY <1>5, <2>1, <2>2, <2>3 DEF OnDbwStateReport
<1>6. CASE TakeCommand
  <2>1. /\ Head(commands) \in Command /\ Tail(commands) \in Seq(Command)
        /\ Len(Tail(commands)) <= Depth
    BY <1>6 DEF TakeCommand
  <2>2. Head(commands).ask \in 0..MaxAsks
    BY <2>1 DEF Command
  <2>3. engaged' \in BOOLEAN /\ heard' \in {"none", "disabled", "enabled"}
    BY <1>6 DEF TakeCommand, Taken
  <2> QED BY <1>6, <2>1, <2>2, <2>3 DEF TakeCommand
<1>7. CASE ReportState
  <2> DEFINE report == IF engaged THEN "enabled" ELSE "disabled"
  <2>1. report \in Reports
    BY DEF Reports
  <2>2. Published(feedback, report) \in Seq(Reports)
        /\ Len(Published(feedback, report)) \in 1..Depth
    BY <2>1, PublishedEffect
  <2> QED BY <1>7, <2>2 DEF ReportState
<1>8. CASE TakeOver
  BY <1>8 DEF TakeOver
<1>9. CASE UNCHANGED vars
  BY <1>9 DEF vars
<1> QED BY <1>1, <1>2, <1>3, <1>4, <1>5, <1>6, <1>7, <1>8, <1>9 DEF Next

\* The numbers of a state in which the types are right.
LEMMA Numbers ==
  ASSUME TypeOK
  PROVE  /\ asks \in Nat /\ spent \in Nat /\ Len(commands) \in Nat
         /\ \A i \in 1..Len(commands) : commands[i] \in Command /\ commands[i].ask \in Nat
<1>1. asks \in Nat /\ spent \in Nat /\ commands \in Seq(Command)
  BY DEF TypeOK
<1>2. Len(commands) \in Nat /\ \A i \in 1..Len(commands) : commands[i] \in Command
  BY <1>1
<1>3. \A c \in Command : c.ask \in Nat
  BY DEF Command
<1> QED BY <1>1, <1>2, <1>3

\* A step that leaves commands and vehicle alone: the machine waits for its first
\* enabled command only for a request just made, and is enabled only after that.
LEMMA MachineMoves ==
  ASSUME TypeOK, QueueInv, UNCHANGED <<commands, heard, engaged, spent>>,
         asks' \in {asks, asks + 1},
         dbw'.state = "ENABLE_REQUESTED"
           => dbw.state = "ENABLE_REQUESTED" \/ asks' = asks + 1,
         Enabled(dbw)' => Enabled(dbw) \/ dbw.state = "ENABLE_REQUESTED"
  PROVE  QueueInv'
<1> USE DEF QueueInv
<1>1. /\ asks \in Nat /\ spent \in Nat
      /\ \A i \in 1..Len(commands) : commands[i].ask \in Nat
  BY Numbers
<1>2. AsksInOrder'
  BY <1>1 DEF AsksInOrder
<1>3. NewRequestIsUnused'
  BY <1>1 DEF NewRequestIsUnused, AsksInOrder
<1>4. NextCommandIsAsked'
  <2> SUFFICES ASSUME Enabled(dbw)'
               PROVE  /\ heard # "none" /\ ~engaged => spent < asks'
                      /\ \A i \in 1..Len(commands) : ~commands[i].enable =>
                           /\ spent < asks'
                           /\ \A j \in 1..i : commands[j].enable => commands[j].ask < asks'
    BY DEF NextCommandIsAsked
  <2>1. CASE Enabled(dbw)
    BY <1>1, <2>1 DEF NextCommandIsAsked
  <2>2. CASE dbw.state = "ENABLE_REQUESTED"
    BY <1>1, <2>2 DEF NewRequestIsUnused
  <2> QED BY <2>1, <2>2
<1>5. CommandsAreAsked'
  BY <1>1 DEF CommandsAreAsked
<1> QED BY <1>2, <1>3, <1>4, <1>5

\* A command is sent.
LEMMA SendStep == InductiveInv /\ SendControlCommand => QueueInv'
<1> SUFFICES ASSUME InductiveInv, SendControlCommand PROVE QueueInv'
  OBVIOUS
<1> DEFINE m == [enable |-> Enabled(dbw), ask |-> asks]
           n == Len(commands)
           n1 == Len(commands')
<1>1. /\ TypeOK /\ AsksInOrder /\ NewRequestIsUnused /\ NextCommandIsAsked
      /\ CommandsAreAsked
  BY DEF InductiveInv
<1>2. /\ asks \in Nat /\ spent \in Nat /\ n \in Nat
      /\ \A i \in 1..n : commands[i].ask \in Nat
  BY <1>1, Numbers
<1>3. m \in Command
  BY <1>1 DEF TypeOK, Command, Enabled
<1>4. /\ commands' = Published(commands, m)
      /\ commands \in Seq(Command) /\ n <= Depth
  BY <1>1 DEF TypeOK, SendControlCommand
<1> HIDE DEF m
<1> DEFINE d == Dropped(commands)
<1>0. d \in {0, 1}
  BY DEF Dropped
<1>5. /\ commands'[n1] = m /\ n1 \in 1..Depth /\ n1 = n + 1 - d
      /\ \A i \in 1..(n - d) : commands'[i] = commands[i + d]
  <2>1. /\ Len(Published(commands, m)) \in 1..Depth
        /\ Published(commands, m)[Len(Published(commands, m))] = m
        /\ Len(Published(commands, m)) = n + 1 - d
        /\ \A i \in 1..(n - d) : Published(commands, m)[i] = commands[i + d]
    <3>1. ASSUME NEW msg \in Command
          PROVE  /\ Len(Published(commands, msg)) \in 1..Depth
                 /\ Published(commands, msg)[Len(Published(commands, msg))] = msg
                 /\ Len(Published(commands, msg)) = n + 1 - d
                 /\ \A i \in 1..(n - d) : Published(commands, msg)[i] = commands[i + d]
      BY <1>4, PublishedEffect
    <3> QED BY <1>3, <3>1
  <2> QED BY <1>4, <2>1
<1> HIDE DEF d
<1> USE <1>0
<1>6. \A i \in 1..n1 : \/ i = n1 /\ commands'[i] = m
                       \/ /\ i < n1 /\ i + d \in 1..n
                          /\ commands'[i] = commands[i + d]
  BY <1>2, <1>5
<1>7. m.enable = Enabled(dbw) /\ m.ask = asks
  BY DEF m
<1>8. /\ dbw' = ControlCmdSent(dbw)
      /\ heard' = heard /\ engaged' = engaged /\ asks' = asks /\ spent' = spent
  BY DEF SendControlCommand
<1>9. /\ dbw'.state = "ENABLE_REQUESTED" => dbw.state = "ENABLE_REQUESTED" /\ ~Enabled(dbw)
      /\ Enabled(dbw)' => Enabled(dbw) \/ dbw.state = "ENABLE_REQUESTED"
  BY <1>1, <1>8 DEF ControlCmdSent, Enabled, BothSent, TypeOK, DbwMachine
<1>10. AsksInOrder'
  <2>1. \A i \in 1..n1 : spent <= commands'[i].ask /\ commands'[i].ask <= asks
    BY <1>1, <1>2, <1>6, <1>7 DEF AsksInOrder
  <2>2. ASSUME NEW i \in 1..n1, NEW j \in 1..n1, i < j
        PROVE  commands'[i].ask <= commands'[j].ask
    <3>1. CASE j = n1
      BY <1>5, <1>7, <2>1, <3>1
    <3>2. CASE j # n1
      <4>1. i # n1
        BY <1>5, <2>2
      <4>2. /\ i + d \in 1..n /\ commands'[i] = commands[i + d]
            /\ j + d \in 1..n /\ commands'[j] = commands[j + d]
        BY <1>6, <3>2, <4>1
      <4> QED BY <1>1, <2>2, <4>2 DEF AsksInOrder
    <3> QED BY <3>1, <3>2
  <2> QED BY <1>1, <1>8, <2>1, <2>2 DEF AsksInOrder
<1>11. NewRequestIsUnused'
  BY <1>1, <1>2, <1>6, <1>7, <1>8, <1>9 DEF NewRequestIsUnused
<1>12. NextCommandIsAsked'
  <2> SUFFICES ASSUME Enabled(dbw)'
               PROVE  /\ heard # "none" /\ ~engaged => spent < asks
                      /\ \A i \in 1..n1 : ~commands'[i].enable =>
                           /\ spent < asks
                           /\ \A j \in 1..i : commands'[j].enable => commands'[j].ask < asks
    BY <1>8 DEF NextCommandIsAsked
  <2>1. CASE dbw.state = "ENABLE_REQUESTED"
    <3>1. /\ spent < asks
          /\ \A j \in 1..n1 : commands'[j].enable /\ j < n1 => commands'[j].ask < asks
      BY <1>1, <1>2, <1>6, <2>1 DEF NewRequestIsUnused
    <3>2. ASSUME NEW i \in 1..n1, ~commands'[i].enable,
                 NEW j \in 1..i, commands'[j].enable
          PROVE  commands'[j].ask < asks
      BY <1>5, <3>1, <3>2
    <3> QED BY <3>1, <3>2
  <2>2. CASE Enabled(dbw) /\ dbw.state # "ENABLE_REQUESTED"
    <3>1. heard # "none" /\ ~engaged => spent < asks
      BY <1>1, <2>2 DEF NextCommandIsAsked
    <3>2. ASSUME NEW i \in 1..n1, ~commands'[i].enable
          PROVE  /\ spent < asks
                 /\ \A j \in 1..i : commands'[j].enable => commands'[j].ask < asks
      <4>1. i < n1 /\ i + d \in 1..n /\ commands'[i] = commands[i + d]
        BY <1>6, <1>7, <2>2, <3>2
      <4>2. /\ spent < asks
            /\ \A j \in 1..(i + d) : commands[j].enable => commands[j].ask < asks
        BY <1>1, <2>2, <3>2, <4>1 DEF NextCommandIsAsked
      <4>3. \A j \in 1..i : j + d \in 1..(i + d) /\ commands'[j] = commands[j + d]
        BY <1>2, <1>6, <4>1
      <4> QED BY <4>2, <4>3
    <3> QED BY <3>1, <3>2
  <2> QED BY <1>9, <2>1, <2>2
<1>13. CommandsAreAsked'
  <2> SUFFICES ASSUME NEW k \in 1..n1, commands'[k].enable
               PROVE  /\ heard # "none" /\ ~engaged => spent < commands'[k].ask
                      /\ \A i \in 1..k : ~commands'[i].enable =>
                           /\ spent < commands'[k].ask
                           /\ \A j \in 1..i : commands'[j].enable
                                => commands'[j].ask < commands'[k].ask
    BY <1>8 DEF CommandsAreAsked
  <2>0. \A i \in 1..k, j \in 1..k :
          i < n1 /\ j <= i => /\ i + d \in 1..n /\ j + d \in 1..(i + d)
                              /\ commands'[i] = commands[i + d]
                              /\ commands'[j] = commands[j + d]
    <3> SUFFICES ASSUME NEW i \in 1..k, NEW j \in 1..k, i < n1, j <= i
                 PROVE  /\ i + d \in 1..n /\ j + d \in 1..(i + d)
                        /\ commands'[i] = commands[i + d]
                        /\ commands'[j] = commands[j + d]
      OBVIOUS
    <3>1. i \in 1..n1 /\ j \in 1..n1 /\ i # n1 /\ j # n1
      BY <1>5, SMTT(20)
    <3>2. /\ i + d \in 1..n /\ commands'[i] = commands[i + d]
          /\ commands'[j] = commands[j + d]
      BY <1>6, <3>1
    <3> QED BY <3>1, <3>2
  <2>1. CASE k = n1
    <3>1. Enabled(dbw) /\ commands'[k].ask = asks
      BY <1>5, <1>7, <2>1
    <3>2. heard # "none" /\ ~engaged => spent < asks
      BY <1>1, <3>1 DEF NextCommandIsAsked
    <3>3. ASSUME NEW i \in 1..k, ~commands'[i].enable
          PROVE  /\ spent < asks
                 /\ \A j \in 1..i : commands'[j].enable => commands'[j].ask < asks
      <4>1. i < n1 /\ i + d \in 1..n /\ commands'[i] = commands[i + d]
        BY <1>6, <3>1, <3>3, <2>1, <1>7
      <4>2. /\ spent < asks
            /\ \A j \in 1..(i + d) : commands[j].enable => commands[j].ask < asks
        BY <1>1, <3>1, <3>3, <4>1 DEF NextCommandIsAsked
      <4>3. \A j \in 1..i : j \in 1..k /\ j <= i
        BY <1>5
      <4> QED BY <2>0, <4>1, <4>2, <4>3
    <3> QED BY <3>1, <3>2, <3>3
  <2>2. CASE k < n1
    <3>1. k + d \in 1..n /\ commands'[k] = commands[k + d]
      BY <1>6, <2>2
    <3>2. heard # "none" /\ ~engaged => spent < commands[k + d].ask
      BY <1>1, <3>1 DEF CommandsAreAsked
    <3>3. ASSUME NEW i \in 1..k, ~commands'[i].enable
          PROVE  /\ spent < commands[k + d].ask
                 /\ \A j \in 1..i : commands'[j].enable
                      => commands'[j].ask < commands[k + d].ask
      <4>1. /\ i + d \in 1..n /\ i + d \in 1..(k + d) /\ commands'[i] = commands[i + d]
        BY <1>2, <1>5, <2>0, <2>2
      <4>2. /\ spent < commands[k + d].ask
            /\ \A j \in 1..(i + d) : commands[j].enable
                 => commands[j].ask < commands[k + d].ask
        BY <1>1, <3>1, <3>3, <4>1 DEF CommandsAreAsked
      <4>3. \A j \in 1..i : j \in 1..k /\ j <= i /\ i < n1
        BY <1>5, <2>2
      <4> QED BY <2>0, <4>1, <4>2, <4>3
    <3> QED BY <3>1, <3>2, <3>3
  <2> QED BY <1>5, <2>1, <2>2
<1> QED BY <1>10, <1>11, <1>12, <1>13 DEF QueueInv

\* The vehicle takes a command.
LEMMA TakeStep == InductiveInv /\ TakeCommand => QueueInv'
<1> SUFFICES ASSUME InductiveInv, TakeCommand PROVE QueueInv'
  OBVIOUS
<1> DEFINE n == Len(commands)
           n1 == Len(commands')
           h == commands[1]
<1>1. /\ TypeOK /\ AsksInOrder /\ NewRequestIsUnused /\ NextCommandIsAsked
      /\ CommandsAreAsked /\ EngagedHeard
  BY DEF InductiveInv
<1>2. /\ asks \in Nat /\ spent \in Nat /\ n \in Nat
      /\ \A i \in 1..n : commands[i].ask \in Nat
  BY <1>1, Numbers
<1>3. /\ Head(commands) = h /\ n \in 1..Depth /\ n1 = n - 1
      /\ \A i \in 1..(n - 1) : commands'[i] = commands[i + 1]
  BY <1>1, TakenEffect DEF TypeOK, TakeCommand
<1>4. /\ heard' = Taken(h)
      /\ engaged' \in IF heard' = "enabled" THEN {engaged, TRUE} ELSE {FALSE}
      /\ spent' = IF engaged' /\ ~engaged THEN h.ask ELSE spent
      /\ dbw' = dbw /\ asks' = asks
  BY <1>3 DEF TakeCommand
<1>5. \A i \in 1..n1 : i + 1 \in 1..n /\ commands'[i] = commands[i + 1]
  BY <1>3
\* Three ways to end up with a vehicle that could engage or does.
<1>6. \/ heard' = "none" /\ spent' = spent
      \/ heard' # "none" /\ ~h.enable /\ ~engaged' /\ spent' = spent
      \/ h.enable /\ heard # "none" /\ ~engaged /\ ~engaged' /\ spent' = spent
      \/ h.enable /\ engaged /\ engaged' /\ spent' = spent
      \/ h.enable /\ heard # "none" /\ ~engaged /\ engaged' /\ spent' = h.ask
  BY <1>1, <1>4 DEF Taken, TypeOK
<1>7. heard' = "none" \/ engaged' \/ ~h.enable \/ (heard # "none" /\ ~engaged)
  BY <1>6
<1>8. spent' \in {spent, h.ask} /\ spent' \in Nat
  BY <1>2, <1>3, <1>6
<1>9. spent' = h.ask \/ spent' = spent
  BY <1>8
<1>10. spent' # spent => h.enable /\ heard # "none" /\ ~engaged
  BY <1>6
<1> HIDE DEF h
<1>11. AsksInOrder'
  <2>1. h = commands[1] /\ 1 \in 1..n
    BY <1>3 DEF h
  <2>2. h.ask \in Nat /\ h.ask <= asks /\ spent <= asks
    BY <1>1, <1>2, <2>1 DEF AsksInOrder
  <2>3. \A i \in 1..n1 : /\ spent <= commands'[i].ask /\ h.ask <= commands'[i].ask
                         /\ commands'[i].ask <= asks
    <3> SUFFICES ASSUME NEW i \in 1..n1
                 PROVE  /\ spent <= commands'[i].ask /\ h.ask <= commands'[i].ask
                        /\ commands'[i].ask <= asks
      OBVIOUS
    <3>1. 1 < i + 1 /\ i + 1 \in 1..n /\ commands'[i] = commands[i + 1]
      BY <1>3, <1>5
    <3> QED BY <1>1, <1>2, <2>1, <3>1 DEF AsksInOrder
  <2>4. ASSUME NEW i \in 1..n1, NEW j \in 1..n1, i < j
        PROVE  commands'[i].ask <= commands'[j].ask
    <3>1. i + 1 \in 1..n /\ j + 1 \in 1..n /\ i + 1 < j + 1
      BY <1>3, <1>5, <2>4
    <3>2. commands[i + 1].ask <= commands[j + 1].ask
      BY <1>1, <3>1 DEF AsksInOrder
    <3> QED BY <1>5, <3>2
  <2> QED BY <1>4, <1>8, <2>2, <2>3, <2>4 DEF AsksInOrder
<1>12. NewRequestIsUnused'
  <2> SUFFICES ASSUME dbw.state = "ENABLE_REQUESTED"
               PROVE  /\ spent' < asks
                      /\ \A i \in 1..n1 : commands'[i].enable => commands'[i].ask < asks
    BY <1>4 DEF NewRequestIsUnused
  <2>1. h = commands[1] /\ 1 \in 1..n
    BY <1>3 DEF h
  <2> QED BY <1>1, <1>5, <1>8, <1>10, <2>1 DEF NewRequestIsUnused
<1>13. NextCommandIsAsked'
  <2> SUFFICES ASSUME Enabled(dbw)
               PROVE  /\ heard' # "none" /\ ~engaged' => spent' < asks
                      /\ \A i \in 1..n1 : ~commands'[i].enable =>
                           /\ spent' < asks
                           /\ \A j \in 1..i : commands'[j].enable => commands'[j].ask < asks
    BY <1>4 DEF NextCommandIsAsked
  <2>1. h = commands[1] /\ 1 \in 1..n
    BY <1>3 DEF h
  <2>2. heard' # "none" /\ ~engaged' => spent' < asks
    <3>1. ~h.enable => spent < asks
      BY <1>1, <2>1 DEF NextCommandIsAsked
    <3>2. heard # "none" /\ ~engaged => spent < asks
      BY <1>1 DEF NextCommandIsAsked
    <3> QED BY <1>6, <3>1, <3>2
  <2>3. ASSUME NEW i \in 1..n1, ~commands'[i].enable
        PROVE  /\ spent' < asks
               /\ \A j \in 1..i : commands'[j].enable => commands'[j].ask < asks
    <3>1. /\ spent < asks
          /\ \A j \in 1..(i + 1) : commands[j].enable => commands[j].ask < asks
      BY <1>1, <1>5, <2>3 DEF NextCommandIsAsked
    <3>2. h.enable => h.ask < asks
      BY <1>3, <2>1, <3>1
    <3>3. \A j \in 1..i : j + 1 \in 1..(i + 1) /\ commands'[j] = commands[j + 1]
      BY <1>3
    <3> QED BY <1>9, <1>10, <3>1, <3>2, <3>3
  <2> QED BY <2>2, <2>3
<1>14. CommandsAreAsked'
  <2> SUFFICES ASSUME NEW k \in 1..n1, commands'[k].enable
               PROVE  /\ heard' # "none" /\ ~engaged' => spent' < commands'[k].ask
                      /\ \A i \in 1..k : ~commands'[i].enable =>
                           /\ spent' < commands'[k].ask
                           /\ \A j \in 1..i : commands'[j].enable
                                => commands'[j].ask < commands'[k].ask
    BY <1>4 DEF CommandsAreAsked
  <2>1. /\ h = commands[1] /\ 1 \in 1..(k + 1)
        /\ k + 1 \in 1..n /\ commands'[k] = commands[k + 1]
    BY <1>3, <1>5 DEF h
  <2>2. heard' # "none" /\ ~engaged' => spent' < commands[k + 1].ask
    <3>1. ~h.enable => spent < commands[k + 1].ask
      BY <1>1, <2>1 DEF CommandsAreAsked
    <3>2. heard # "none" /\ ~engaged => spent < commands[k + 1].ask
      BY <1>1, <2>1 DEF CommandsAreAsked
    <3> QED BY <1>6, <3>1, <3>2
  <2>3. ASSUME NEW i \in 1..k, ~commands'[i].enable
        PROVE  /\ spent' < commands[k + 1].ask
               /\ \A j \in 1..i : commands'[j].enable
                    => commands'[j].ask < commands[k + 1].ask
    <3>1. i + 1 \in 1..(k + 1) /\ commands'[i] = commands[i + 1]
      BY <1>3
    <3>2. /\ spent < commands[k + 1].ask
          /\ \A j \in 1..(i + 1) : commands[j].enable
               => commands[j].ask < commands[k + 1].ask
      BY <1>1, <2>1, <2>3, <3>1 DEF CommandsAreAsked
    <3>3. h.enable => h.ask < commands[k + 1].ask
      <4>1. 1 \in 1..(i + 1)
        OBVIOUS
      <4> QED BY <2>1, <3>2, <4>1
    <3>4. \A j \in 1..i : j + 1 \in 1..(i + 1) /\ commands'[j] = commands[j + 1]
      BY <1>3
    <3> QED BY <1>9, <1>10, <3>2, <3>3, <3>4
  <2> QED BY <2>1, <2>2, <2>3
<1> QED BY <1>11, <1>12, <1>13, <1>14 DEF QueueInv

\* The commands and their requests, in every step.
LEMMA QueueStep == InductiveInv /\ [Next]_vars => QueueInv'
<1> SUFFICES ASSUME InductiveInv, [Next]_vars PROVE QueueInv'
  OBVIOUS
<1>0. TypeOK /\ QueueInv /\ RestIsReset /\ dbw \in DbwMachine /\ asks \in Nat
  BY Numbers DEF InductiveInv, QueueInv, TypeOK
<1>1. CASE SendStateCommand
  BY <1>0, <1>1, MachineMoves
     DEF SendStateCommand, StateCmdSent, Enabled, BothSent, DbwMachine
<1>2. CASE SendControlCommand
  BY <1>2, SendStep
<1>3. CASE RequestAutonomous
  <2>1. dbw.state = "DISABLED" => ~BothSent(dbw)
    BY <1>0 DEF RestIsReset, Disabled, BothSent
  <2>2. dbw' = IF dbw.state = "DISABLED" THEN [dbw EXCEPT !.state = "ENABLE_REQUESTED"] ELSE dbw
    BY <1>3 DEF RequestAutonomous, UserRequest
  <2>3. Enabled(dbw)' => Enabled(dbw) \/ dbw.state = "ENABLE_REQUESTED"
    BY <1>0, <2>1, <2>2 DEF Enabled, BothSent, DbwMachine
  <2>4. UNCHANGED <<commands, heard, engaged, spent>> /\ asks' = asks + 1
    BY <1>3 DEF RequestAutonomous
  <2> QED BY <1>0, <2>3, <2>4, MachineMoves
<1>4. CASE RequestManual
  BY <1>0, <1>4, MachineMoves DEF RequestManual, UserRequest, Disabled, Enabled
<1>5. CASE OnDbwStateReport
  <2>1. /\ UNCHANGED <<commands, heard, engaged, spent>> /\ asks' = asks
        /\ \/ dbw' \in {dbw, Disabled}
           \/ dbw.state = "ENABLE_SENT" /\ dbw'.state \in {"ENABLE_SENT", "ENABLED"}
    BY <1>0, <1>5, FeedbackEffect DEF OnDbwStateReport
  <2> QED BY <1>0, <2>1, MachineMoves DEF Disabled, Enabled
<1>6. CASE TakeCommand
  BY <1>6, TakeStep
<1>7. CASE ReportState
  BY <1>0, <1>7 DEF ReportState, QueueInv, AsksInOrder, NewRequestIsUnused,
                    NextCommandIsAsked, CommandsAreAsked
<1>8. CASE TakeOver
  BY <1>0, <1>8 DEF TakeOver, QueueInv, AsksInOrder, NewRequestIsUnused,
                    NextCommandIsAsked, CommandsAreAsked
<1>9. CASE UNCHANGED vars
  BY <1>0, <1>9 DEF vars, QueueInv, AsksInOrder, NewRequestIsUnused,
                    NextCommandIsAsked, CommandsAreAsked
<1> QED BY <1>1, <1>2, <1>3, <1>4, <1>5, <1>6, <1>7, <1>8, <1>9 DEF Next

\* The machine at rest, the vehicle that is driven, and the greeting.
LEMMA RestStep == InductiveInv /\ [Next]_vars => RestInv'
<1> SUFFICES ASSUME InductiveInv, [Next]_vars PROVE RestInv'
  OBVIOUS
<1>0. /\ TypeOK /\ dbw \in DbwMachine
      /\ RestIsReset /\ EngagedHeard /\ GreetedFirst
  BY DEF InductiveInv, TypeOK
<1> USE DEF RestInv
<1>1. CASE SendStateCommand
  BY <1>0, <1>1 DEF SendStateCommand, StateCmdSent, DbwMachine, Disabled,
                    RestIsReset, EngagedHeard, GreetedFirst
<1>2. CASE SendControlCommand
  <2> DEFINE m == [enable |-> Enabled(dbw), ask |-> asks]
  <2>1. m \in Command
    BY <1>0 DEF TypeOK, Command, Enabled
  <2>2. commands' = Published(commands, m) /\ commands \in Seq(Command) /\ Len(commands) <= Depth
    BY <1>0, <1>2 DEF TypeOK, SendControlCommand
  <2>3. m.enable = Enabled(dbw)
    OBVIOUS
  <2> HIDE DEF m
  <2>4. commands' # <<>> /\ commands'[Len(commands')] = m
    <3>1. ASSUME NEW msg \in Command
          PROVE  /\ Len(Published(commands, msg)) \in 1..Depth
                 /\ Published(commands, msg)[Len(Published(commands, msg))] = msg
      BY <2>2, PublishedEffect
    <3>2. Len(commands') \in 1..Depth /\ commands'[Len(commands')] = m
      BY <2>1, <2>2, <3>1
    <3> QED BY <3>2
  <2>5. dbw'.state = "ENABLE_REQUESTED" => ~Enabled(dbw)
    BY <1>0, <1>2 DEF SendControlCommand, ControlCmdSent, Enabled, BothSent, DbwMachine
  <2>6. GreetedFirst'
    BY <2>3, <2>4, <2>5 DEF GreetedFirst
  <2>7. RestIsReset' /\ EngagedHeard'
    BY <1>0, <1>2 DEF SendControlCommand, ControlCmdSent, DbwMachine, Disabled,
                      RestIsReset, EngagedHeard
  <2> QED BY <2>6, <2>7
<1>3. CASE RequestAutonomous
  BY <1>0, <1>3 DEF RequestAutonomous, UserRequest, DbwMachine, Disabled,
                    RestIsReset, EngagedHeard, GreetedFirst
<1>4. CASE RequestManual
  BY <1>0, <1>4 DEF RequestManual, UserRequest, Disabled,
                    RestIsReset, EngagedHeard, GreetedFirst
<1>5. CASE OnDbwStateReport
  <2>1. /\ UNCHANGED <<commands, heard, engaged>>
        /\ dbw' \in {dbw, Disabled} \/ dbw'.state \in {"ENABLE_SENT", "ENABLED"}
    BY <1>0, <1>5, FeedbackEffect DEF OnDbwStateReport
  <2> QED BY <1>0, <2>1 DEF Disabled, RestIsReset, EngagedHeard, GreetedFirst
<1>6. CASE TakeCommand
  <2> DEFINE n == Len(commands)
  <2>1. /\ Head(commands) = commands[1] /\ n \in 1..Depth /\ Len(commands') = n - 1
        /\ \A i \in 1..(n - 1) : commands'[i] = commands[i + 1]
    BY <1>0, <1>6, TakenEffect DEF TypeOK, TakeCommand
  <2>2. commands # <<>> /\ (commands' = <<>> => n = 1)
    BY <1>6, <2>1 DEF TakeCommand
  <2>3. EngagedHeard' /\ RestIsReset'
    BY <1>0, <1>6 DEF TakeCommand, Taken, EngagedHeard, RestIsReset
  <2>4. CASE commands' = <<>>
    <3>1. commands[Len(commands)] = Head(commands) /\ dbw' = dbw /\ heard' = Taken(Head(commands))
      BY <1>6, <2>1, <2>2, <2>4 DEF TakeCommand
    <3>2. GreetedFirst'
      BY <1>0, <2>2, <2>4, <3>1 DEF Taken, GreetedFirst
    <3> QED BY <2>3, <3>2
  <2>5. CASE commands' # <<>>
    <3>1. n - 1 \in 1..(n - 1)
      <4>1. commands' \in Seq(Command)
        BY <1>0, TypeStep DEF TypeOK
      <4> QED BY <2>1, <2>5, <4>1
    <3>2. commands'[Len(commands')] = commands[n]
      BY <2>1, <3>1
    <3> QED BY <1>0, <1>6, <2>2, <2>3, <2>5, <3>2 DEF TakeCommand, GreetedFirst
  <2> QED BY <2>3, <2>4, <2>5
<1>7. CASE ReportState
  BY <1>0, <1>7 DEF ReportState, RestIsReset, EngagedHeard, GreetedFirst
<1>8. CASE TakeOver
  <2>1. dbw.state = "ENABLE_REQUESTED" /\ dbw.first_control_cmd_sent => commands # <<>>
    BY <1>0, <1>8 DEF TakeOver, EngagedHeard, GreetedFirst
  <2> QED BY <1>0, <1>8, <2>1 DEF TakeOver, RestIsReset, EngagedHeard, GreetedFirst
<1>9. CASE UNCHANGED vars
  BY <1>0, <1>9 DEF vars, RestIsReset, EngagedHeard, GreetedFirst
<1> QED BY <1>1, <1>2, <1>3, <1>4, <1>5, <1>6, <1>7, <1>8, <1>9 DEF Next

-----------------------------------------------------------------------------
(* The theorems.                                                           *)

\* The invariant below holds in every reachable state.
THEOREM InvariantCorrect == Spec => []InductiveInv
<1>1. InductiveInv /\ [Next]_vars => InductiveInv'
  BY TypeStep, QueueStep, RestStep DEF InductiveInv, QueueInv, RestInv
<1> QED BY InitInductive, <1>1, PTL DEF Spec

\* The state of platform and vehicle has its type: the debounce counter stays in
\* its range and no topic outgrows its depth (DbwStateMachine::dbw_feedback).
THEOREM TypeCorrect == Spec => []TypeOK
<1>1. InductiveInv => TypeOK
  BY DEF InductiveInv
<1> QED BY InvariantCorrect, <1>1, PTL

\* The first enabled command of a request follows a disabled one the vehicle takes
\* (the flags of DbwStateMachine and their reset).
THEOREM GreetingCorrect == Spec => []GreetedFirst
<1>1. InductiveInv => GreetedFirst
  BY DEF InductiveInv
<1> QED BY InvariantCorrect, <1>1, PTL

\* A step of platform and vehicle is a step of what the driver was promised: the
\* vehicle engages only on a request on which it did not engage before.
LEMMA ConsentStep == InductiveInv /\ [Next]_vars => [Consent!Next]_(Consent!vars)
<1> SUFFICES ASSUME InductiveInv, [Next]_vars
             PROVE  Consent!Next \/ UNCHANGED <<engaged, asks, spent>>
  BY DEF Consent!vars
<1>1. CASE TakeCommand
  <2> DEFINE h == commands[1]
  <2>1. TypeOK /\ AsksInOrder /\ CommandsAreAsked
    BY DEF InductiveInv
  <2>2. /\ asks \in Nat /\ spent \in Nat /\ Head(commands) = h /\ 1 \in 1..Len(commands)
        /\ h.ask \in Nat
    <3>1. Len(commands) \in 1..Depth /\ Head(commands) = h
      BY <1>1, <2>1, TakenEffect DEF TypeOK, TakeCommand
    <3> QED BY <2>1, <3>1, Numbers
  <2>3. CASE ~engaged'
    BY <1>1, <2>3 DEF TakeCommand, Consent!Next, Consent!GiveBack
  <2>4. CASE engaged' /\ engaged
    BY <1>1, <2>1, <2>4, Zenon DEF TakeCommand, TypeOK
  <2>5. CASE engaged' /\ ~engaged
    <3>1. heard' = "enabled" /\ heard' = Taken(h) /\ spent' = h.ask /\ asks' = asks
      BY <1>1, <2>2, <2>5 DEF TakeCommand
    <3>2. h.enable /\ heard # "none"
      BY <3>1 DEF Taken
    <3>3. spent < h.ask /\ h.ask <= asks
      BY <2>1, <2>2, <2>5, <3>2 DEF CommandsAreAsked, AsksInOrder
    <3>4. spent' \in (spent + 1)..asks
      BY <2>2, <3>1, <3>3
    <3> QED BY <2>5, <3>1, <3>4 DEF Consent!Next, Consent!TakeControl
  <2> QED BY <2>3, <2>4, <2>5
<1>2. CASE RequestAutonomous
  BY <1>2 DEF RequestAutonomous, Consent!Next, Consent!Ask
<1>3. CASE TakeOver
  BY <1>3 DEF TakeOver, Consent!Next, Consent!GiveBack
<1>4. CASE SendStateCommand \/ SendControlCommand \/ RequestManual \/ OnDbwStateReport
           \/ ReportState
  BY <1>4 DEF SendStateCommand, SendControlCommand, RequestManual, OnDbwStateReport,
              ReportState
<1>5. CASE UNCHANGED vars
  BY <1>5 DEF vars
<1> QED BY <1>1, <1>2, <1>3, <1>4, <1>5 DEF Next

\* The platform keeps the promise made to the driver: control is taken at most once
\* for each request (DbwStateMachine and SscInterface together implement
\* DriverConsent).
THEOREM ConsentCorrect == Spec => KeepsConsent
<1>1. Init => Consent!Init
  BY DEF Init, Consent!Init
<1> QED
  BY <1>1, ConsentStep, InvariantCorrect, PTL DEF Spec, KeepsConsent, Consent!Spec

-----------------------------------------------------------------------------
(* Why a take-over is noticed.                                             *)

\* A vehicle that is not driven reports so, and a topic that is full only loses
\* an older report.
LEMMA ReportKeepsStale ==
  ASSUME TypeOK, ReportState, ~engaged, NEW n \in 0..Depth, StaleUpTo(n)
  PROVE  StaleUpTo(n)'
<1>1. feedback \in Seq(Reports) /\ Len(feedback) <= Depth /\ "disabled" \in Reports
  BY DEF TypeOK, Reports
<1>2. PICK f : f = Published(feedback, "disabled") /\ feedback' = f
  BY DEF ReportState
<1>3. /\ Len(f) = Len(feedback) + 1 - Dropped(feedback)
      /\ f[Len(f)] = "disabled"
      /\ \A i \in 1..(Len(feedback) - Dropped(feedback)) : f[i] = feedback[i + Dropped(feedback)]
  <2>1. ASSUME NEW msg \in Reports
        PROVE  LET published == Published(feedback, msg)
               IN  /\ Len(published) = Len(feedback) + 1 - Dropped(feedback)
                   /\ published[Len(published)] = msg
                   /\ \A i \in 1..(Len(feedback) - Dropped(feedback)) :
                         published[i] = feedback[i + Dropped(feedback)]
    BY <1>1, PublishedEffect
  <2> QED BY <1>1, <1>2, <2>1
<1>4. ASSUME NEW i \in 1..Len(f), i > n PROVE f[i] = "disabled"
  <2>1. CASE i = Len(f)
    BY <1>3, <2>1
  <2>2. CASE i # Len(f)
    <3>1. Dropped(feedback) \in {0, 1} /\ Len(feedback) \in Nat
      BY <1>1 DEF Dropped
    <3>2. /\ i \in 1..(Len(feedback) - Dropped(feedback))
          /\ i + Dropped(feedback) \in 1..Len(feedback) /\ i + Dropped(feedback) > n
      BY <1>3, <1>4, <2>2, <3>1
    <3> QED BY <1>3, <3>2 DEF StaleUpTo
  <2> QED BY <2>1, <2>2
<1> QED
  BY <1>2, <1>4 DEF StaleUpTo

\* A report that is heard leaves the topic to those behind it.
LEMMA HeardReportLeaves ==
  ASSUME TypeOK, OnDbwStateReport, NEW n \in 0..Depth, StaleUpTo(n)
  PROVE  StaleUpTo(n)' /\ (n > 0 => StaleUpTo(n - 1)')
<1>1. feedback \in Seq(Reports) /\ Len(feedback) <= Depth /\ feedback # <<>>
  BY DEF TypeOK, OnDbwStateReport
<1>2. /\ Len(feedback') = Len(feedback) - 1 /\ Len(feedback) \in 1..Depth
      /\ \A i \in 1..(Len(feedback) - 1) : feedback'[i] = feedback[i + 1]
  BY <1>1, TakenEffect DEF OnDbwStateReport
<1>3. ASSUME NEW i \in 1..Len(feedback'), i + 1 > n PROVE feedback'[i] = "disabled"
  <2>1. i \in 1..(Len(feedback) - 1) /\ i + 1 \in 1..Len(feedback)
    BY <1>2
  <2> QED BY <1>2, <1>3, <2>1 DEF StaleUpTo
<1>4. Len(feedback') \in Nat
  BY <1>2
<1> QED
  BY <1>3, <1>4 DEF StaleUpTo

\* Nothing but a report that is heard changes how many are to come.
LEMMA NoticeComes ==
  ASSUME InductiveInv, [Next]_vars, Unnoticed, Unnoticed'
  PROVE  NoticeStep
<1> USE DEF Unnoticed
<1>1. TypeOK /\ dbw \in DbwMachine
  BY DEF InductiveInv, TypeOK
<1>2. CASE OnDbwStateReport
  <2>1. ASSUME StaleUpTo(0) PROVE ReportsToGo' = ReportsToGo - 1
    <3>1. feedback \in Seq(Reports) /\ Len(feedback) <= Depth /\ feedback # <<>>
      BY <1>1, <1>2 DEF TypeOK, OnDbwStateReport
    <3>2. Head(feedback) = feedback[1] /\ Len(feedback) \in 1..Depth
      BY <3>1, TakenEffect
    <3>3. Head(feedback) = "disabled"
      BY <3>2, <2>1 DEF StaleUpTo
    <3>4. dbw' = DbwFeedback(dbw, FALSE)
      BY <1>2, <3>3 DEF OnDbwStateReport
    <3>5. dbw.state = "ENABLE_SENT" /\ dbw.disabled_feedback_count < Debounce
      BY <1>1, <3>4 DEF DbwFeedback, Disabled, DbwMachine
    <3>6. dbw'.state = "ENABLE_SENT" /\ dbw'.disabled_feedback_count = dbw.disabled_feedback_count + 1
      BY <1>1, <3>4, <3>5 DEF DbwFeedback, DbwMachine
    <3>7. dbw.disabled_feedback_count \in Nat
      BY <1>1 DEF DbwMachine
    <3> QED BY <3>5, <3>6, <3>7 DEF ReportsToGo
  <2>2. \A n \in 0..Depth : StaleUpTo(n) => StaleUpTo(n)'
    BY <1>1, <1>2, HeardReportLeaves
  <2>3. \A n \in 1..Depth : StaleUpTo(n) => StaleUpTo(n - 1)'
    <3> SUFFICES ASSUME NEW n \in 1..Depth, StaleUpTo(n) PROVE StaleUpTo(n - 1)'
      OBVIOUS
    <3>1. n \in 0..Depth /\ n > 0
      OBVIOUS
    <3> QED BY <1>1, <1>2, <3>1, HeardReportLeaves
  <2> QED BY <1>2, <2>1, <2>2, <2>3 DEF NoticeStep
<1>3. CASE ReportState
  <2>1. \A n \in 0..Depth : StaleUpTo(n) => StaleUpTo(n)'
    BY <1>1, <1>3, ReportKeepsStale
  <2>2. ~OnDbwStateReport /\ ReportsToGo' = ReportsToGo
    <3>1. feedback \in Seq(Reports) /\ Len(feedback) <= Depth
      BY <1>1 DEF TypeOK
    <3>2. Len(feedback') >= Len(feedback)
      <4>1. Len(feedback') = Len(feedback) + 1 - Dropped(feedback)
        BY <1>3, <3>1, PublishedEffect DEF ReportState, Reports
      <4> QED BY <3>1, <4>1 DEF Dropped
    <3>3. OnDbwStateReport => Len(feedback') = Len(feedback) - 1
      BY <3>1, TakenEffect DEF OnDbwStateReport
    <3>4. Len(feedback) \in Nat
      BY <3>1
    <3>5. ReportsToGo' = ReportsToGo
      BY <1>3 DEF ReportState, ReportsToGo
    <3> QED BY <3>2, <3>3, <3>4, <3>5
  <2>3. ReportsToGo \in Nat
    BY <1>1 DEF ReportsToGo, DbwMachine
  <2> QED BY <2>1, <2>2, <2>3 DEF NoticeStep
<1>4. CASE UNCHANGED <<dbw, feedback>>
  <2>1. ~OnDbwStateReport
    <3>1. feedback \in Seq(Reports) /\ Len(feedback) <= Depth
      BY <1>1 DEF TypeOK
    <3>2. OnDbwStateReport => Len(feedback') = Len(feedback) - 1
      BY <3>1, TakenEffect DEF OnDbwStateReport
    <3>3. Len(feedback) \in Nat
      BY <3>1
    <3> QED BY <1>4, <3>2, <3>3
  <2>2. \A n \in 0..Depth : StaleUpTo(n)' = StaleUpTo(n)
    BY <1>4 DEF StaleUpTo
  <2>3. ReportsToGo' = ReportsToGo /\ ReportsToGo \in Nat
    BY <1>1, <1>4 DEF ReportsToGo, DbwMachine
  <2> QED BY <2>1, <2>2, <2>3 DEF NoticeStep
<1>5. ASSUME SendStateCommand \/ SendControlCommand \/ RequestAutonomous \/ RequestManual
      PROVE  UNCHANGED <<dbw, feedback>>
  BY <1>1, <1>5 DEF SendStateCommand, SendControlCommand, RequestAutonomous, RequestManual,
     StateCmdSent, ControlCmdSent, UserRequest, Disabled
<1>6. ASSUME TakeCommand \/ TakeOver \/ UNCHANGED vars
      PROVE  UNCHANGED <<dbw, feedback>>
  BY <1>6 DEF TakeCommand, TakeOver, vars
<1> QED
  BY <1>2, <1>3, <1>4, <1>5, <1>6 DEF Next

\* While the platform sends enabled commands to a vehicle that is not driven by
\* them, every report it hears brings it closer to giving the vehicle up: stale
\* reports only become fewer, and what the debounce still tolerates shrinks with
\* each of the others.  What is left of TakeOverIsNoticed without fairness.
THEOREM NoticeCorrect == Spec => NoticeComesCloser
<1>1. InductiveInv /\ [Next]_vars => [NoticeStep]_vars
  BY NoticeComes DEF NoticeStep
<1> QED
  BY <1>1, InvariantCorrect, PTL DEF Spec, NoticeComesCloser
=============================================================================
