--------------------------- MODULE AutowareStates ---------------------------
(***************************************************************************)
(* What the state monitor promises to the nodes that read /autoware/state: *)
(* the state moves along the edges of the diagram in the design document,  *)
(* and once a shutdown has been requested the only move left is the one to *)
(* FINALIZING, which must then happen.                                     *)
(***************************************************************************)

VARIABLES state, requested

States == {"INITIALIZING", "WAITING_FOR_ROUTE", "PLANNING", "WAITING_FOR_ENGAGE",
           "DRIVING", "ARRIVED_GOAL", "FINALIZING"}

Diagram ==
  {<<"INITIALIZING", "WAITING_FOR_ROUTE">>,
   <<"WAITING_FOR_ROUTE", "PLANNING">>,
   <<"PLANNING", "WAITING_FOR_ENGAGE">>,
   <<"WAITING_FOR_ENGAGE", "DRIVING">>,
   <<"WAITING_FOR_ENGAGE", "PLANNING">>,
   <<"WAITING_FOR_ENGAGE", "ARRIVED_GOAL">>,
   <<"DRIVING", "ARRIVED_GOAL">>,
   <<"DRIVING", "WAITING_FOR_ENGAGE">>,
   <<"DRIVING", "PLANNING">>,
   <<"ARRIVED_GOAL", "WAITING_FOR_ROUTE">>}

Init == state = "INITIALIZING" /\ requested = FALSE

Move ==
  /\ ~requested
  /\ <<state, state'>> \in Diagram
  /\ UNCHANGED requested

RequestShutdown ==
  /\ requested' = TRUE
  /\ UNCHANGED state

Finalize ==
  /\ requested
  /\ state' = "FINALIZING"
  /\ UNCHANGED requested

Next == Move \/ RequestShutdown \/ Finalize

Spec == Init /\ [][Next]_<<state, requested>>
=============================================================================
