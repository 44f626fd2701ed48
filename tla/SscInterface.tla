---------------------------- MODULE SscInterface ----------------------------
(***************************************************************************)
(* The vehicle platform of the SSC: the commands it sends, the state       *)
(* machine that decides whether they ask for control, and the reports it   *)
(* gets back.  The vehicle is modelled from what the platform expects of   *)
(* it: it takes an enabled command only after a disabled one, it may need  *)
(* several before it lets itself be driven, its driver may take over at    *)
(* any moment, and it reports whether it is being driven.  Commands and    *)
(* reports are late, and a topic that is full loses its oldest message.    *)
(*                                                                         *)
(* Speed and steering are always commanded together and with one mode: one *)
(* message stands for both.  What the commands carry besides is left out.  *)
(***************************************************************************)
EXTENDS DbwStateMachine, Sequences

CONSTANTS
  Depth,     \* depth of the topics between platform and vehicle (10 in the code)
  MaxAsks    \* bound: requests to drive autonomously

ASSUME SscAssumption == Depth \in Nat \ {0} /\ MaxAsks \in Nat

VARIABLES
  dbw,        \* m_dbw_state_machine
  mode,       \* state_report().mode
  commands,   \* control commands that are under way, oldest first
  feedback,   \* reports of the vehicle that are under way, oldest first
  heard,      \* the vehicle: the control command it took last
  engaged,    \* the vehicle: speed and steering follow the commands
  asks,       \* history: number of requests to drive autonomously
  spent       \* history: the request on which the vehicle engaged last, 0 for none

vars == <<dbw, mode, commands, feedback, heard, engaged, asks, spent>>

\* "ask" is history: the newest request when the command was sent.
Command == [enable : BOOLEAN, ask : 0..MaxAsks]
Reports == {"enabled", "disabled"}

TypeOK ==
  /\ dbw \in DbwMachine
  /\ mode \in {"none", "manual", "autonomous"}
  /\ commands \in Seq(Command) /\ Len(commands) <= Depth
  /\ feedback \in Seq(Reports) /\ Len(feedback) <= Depth
  /\ heard \in {"none", "disabled", "enabled"}
  /\ engaged \in BOOLEAN
  /\ asks \in 0..MaxAsks /\ spent \in 0..MaxAsks

Init ==
  /\ dbw = Disabled
  /\ mode = "none"
  /\ commands = <<>> /\ feedback = <<>>
  /\ heard = "none" /\ engaged = FALSE
  /\ asks = 0 /\ spent = 0

Published(topic, msg) ==
  Append(IF Len(topic) = Depth THEN Tail(topic) ELSE topic, msg)

-----------------------------------------------------------------------------
(* The platform.                                                           *)

SendStateCommand ==
  /\ dbw' = StateCmdSent(dbw)
  /\ UNCHANGED <<mode, commands, feedback, heard, engaged, asks, spent>>

SendControlCommand ==
  /\ commands' = Published(commands, [enable |-> Enabled(dbw), ask |-> asks])
  /\ dbw' = ControlCmdSent(dbw)
  /\ UNCHANGED <<mode, feedback, heard, engaged, asks, spent>>

RequestAutonomous ==
  /\ asks < MaxAsks
  /\ dbw' = UserRequest(dbw, TRUE)
  /\ asks' = asks + 1
  /\ UNCHANGED <<mode, commands, feedback, heard, engaged, spent>>

RequestManual ==
  /\ dbw' = UserRequest(dbw, FALSE)
  /\ UNCHANGED <<mode, commands, feedback, heard, engaged, asks, spent>>

OnDbwStateReport ==
  /\ feedback # <<>>
  /\ mode' = IF Head(feedback) = "enabled" THEN "autonomous" ELSE "manual"
  /\ dbw' = DbwFeedback(dbw, Head(feedback) = "enabled")
  /\ feedback' = Tail(feedback)
  /\ UNCHANGED <<commands, heard, engaged, asks, spent>>

-----------------------------------------------------------------------------
(* The vehicle and its driver.                                             *)

Taken(cmd) ==
  IF cmd.enable THEN (IF heard = "none" THEN "none" ELSE "enabled") ELSE "disabled"

\* A vehicle that takes an enabled command need not act on it at once.
TakeCommand ==
  /\ commands # <<>>
  /\ heard' = Taken(Head(commands))
  /\ engaged' \in IF heard' = "enabled" THEN {engaged, TRUE} ELSE {FALSE}
  /\ spent' = IF engaged' /\ ~engaged THEN Head(commands).ask ELSE spent
  /\ commands' = Tail(commands)
  /\ UNCHANGED <<dbw, mode, feedback, asks>>

ReportState ==
  /\ feedback' = Published(feedback, IF engaged THEN "enabled" ELSE "disabled")
  /\ UNCHANGED <<dbw, mode, commands, heard, engaged, asks, spent>>

\* The driver, or a fault, takes control away: the vehicle is to be told to
\* disable again before it takes an enabled command.
TakeOver ==
  /\ engaged
  /\ engaged' = FALSE
  /\ heard' = "none"
  /\ UNCHANGED <<dbw, mode, commands, feedback, asks, spent>>

Next ==
  \/ SendStateCommand
  \/ SendControlCommand
  \/ RequestAutonomous
  \/ RequestManual
  \/ OnDbwStateReport
  \/ TakeCommand
  \/ ReportState
  \/ TakeOver

Spec == Init /\ [][Next]_vars

\* The vehicle reports periodically and the executor serves the subscription.
FairSpec == Spec /\ WF_vars(ReportState) /\ WF_vars(OnDbwStateReport)

-----------------------------------------------------------------------------
(* Properties.                                                             *)

\* Control of the vehicle is taken at most once for each request of the driver,
\* whatever becomes of the state machine in between: a driver who took over, or
\* a report that came late, does not see the vehicle engage again on the old
\* request, commands still under way included (user_request, dbw_feedback and
\* enabled together).
Consent == INSTANCE DriverConsent
KeepsConsent == Consent!Spec

\* A driver who takes over is noticed: the platform does not go on sending
\* enabled commands to a vehicle that is not driven by them, also if reports
\* from before are still under way, and a vehicle that does not engage at all is
\* given up (dbw_feedback with its debounce).
TakeOverIsNoticed ==
  dbw.state \in {"ENABLE_SENT", "ENABLED"} /\ ~engaged
    ~> (engaged \/ dbw.state \in {"DISABLED", "ENABLE_REQUESTED"})

\* The first enabled control command of a request follows a disabled one that the
\* vehicle took, or is about to take, whatever requests, reports and take-overs
\* came before (the flags, and their reset in disable_and_reset).
GreetedFirst ==
  dbw.state = "ENABLE_REQUESTED" /\ dbw.first_control_cmd_sent
    => IF commands = <<>> THEN heard = "disabled" ELSE ~commands[Len(commands)].enable

-----------------------------------------------------------------------------
(* Why KeepsConsent and GreetedFirst hold: the inductive invariant of the  *)
(* proofs.                                                                 *)

\* The machine at rest remembers nothing, and a vehicle is driven by the enabled
\* command it took.
RestIsReset == dbw.state = "DISABLED" => dbw = Disabled
EngagedHeard == engaged => heard = "enabled"

\* The requests that commands under way were sent for are in order, and the
\* vehicle engaged on none that came later.
AsksInOrder ==
  /\ spent <= asks
  /\ \A i \in 1..Len(commands) : spent <= commands[i].ask /\ commands[i].ask <= asks
  /\ \A i, j \in 1..Len(commands) : i < j => commands[i].ask <= commands[j].ask

\* No enabled command was ever sent for a request that waits for its first one.
NewRequestIsUnused ==
  dbw.state = "ENABLE_REQUESTED" =>
    /\ spent < asks
    /\ \A i \in 1..Len(commands) : commands[i].enable => commands[i].ask < asks

\* Once the vehicle could engage anew, through an enabled command that is sent next ...
NextCommandIsAsked ==
  Enabled(dbw) =>
    /\ heard # "none" /\ ~engaged => spent < asks
    /\ \A i \in 1..Len(commands) : ~commands[i].enable =>
         /\ spent < asks
         /\ \A j \in 1..i : commands[j].enable => commands[j].ask < asks

\* ... or one that is under way, it is for a request not used before.
CommandsAreAsked ==
  \A k \in 1..Len(commands) : commands[k].enable =>
    /\ heard # "none" /\ ~engaged => spent < commands[k].ask
    /\ \A i \in 1..k : ~commands[i].enable =>
         /\ spent < commands[k].ask
         /\ \A j \in 1..i : commands[j].enable => commands[j].ask < commands[k].ask

InductiveInv ==
  /\ TypeOK /\ AsksInOrder /\ NewRequestIsUnused
  /\ NextCommandIsAsked /\ CommandsAreAsked
  /\ RestIsReset /\ EngagedHeard /\ GreetedFirst

-----------------------------------------------------------------------------
(* Why TakeOverIsNoticed holds: what every step leaves of the reports that *)
(* are to come before the platform gives up a vehicle that is not driven.  *)

Unnoticed == dbw.state \in {"ENABLE_SENT", "ENABLED"} /\ ~engaged

\* Only the first n reports under way may still say that the vehicle is driven.
StaleUpTo(n) == \A i \in 1..Len(feedback) : i > n => feedback[i] = "disabled"

\* As many reports that it is not driven end the platform's control.
ReportsToGo == IF dbw.state = "ENABLED" THEN 1 ELSE Debounce + 1 - dbw.disabled_feedback_count

\* No step adds a stale report, each report that is heard is one less of them,
\* and once there is none it brings the end closer, which nothing else delays.
NoticeStep ==
  Unnoticed /\ Unnoticed' =>
    /\ \A n \in 0..Depth : StaleUpTo(n) => StaleUpTo(n)'
    /\ OnDbwStateReport => \A n \in 1..Depth : StaleUpTo(n) => StaleUpTo(n - 1)'
    /\ StaleUpTo(0) => ReportsToGo' = ReportsToGo - IF OnDbwStateReport THEN 1 ELSE 0
NoticeComesCloser == [][NoticeStep]_vars
=============================================================================
