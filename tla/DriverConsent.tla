---------------------------- MODULE DriverConsent ----------------------------
(***************************************************************************)
(* What driving by wire promises its driver: a request to drive            *)
(* autonomously is good for taking control of the vehicle once.  Whoever   *)
(* took control back has to be asked again.                                *)
(***************************************************************************)
EXTENDS Naturals

VARIABLES
  engaged,   \* the commands drive the vehicle
  asks,      \* number of requests made so far
  spent      \* the request on which control was taken last, 0 for none

vars == <<engaged, asks, spent>>

Init == ~engaged /\ asks = 0 /\ spent = 0

Ask == asks' = asks + 1 /\ UNCHANGED <<engaged, spent>>

TakeControl ==
  /\ ~engaged /\ engaged'
  /\ spent' \in (spent + 1)..asks
  /\ UNCHANGED asks

GiveBack == ~engaged' /\ UNCHANGED <<asks, spent>>

Next == Ask \/ TakeControl \/ GiveBack

Spec == Init /\ [][Next]_vars
=============================================================================
