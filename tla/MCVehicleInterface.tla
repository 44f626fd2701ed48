-------------------------- MODULE MCVehicleInterface --------------------------
(* The vehicle interface with a few commands and reports.                  *)
EXTENDS VehicleInterface

Vector(gear, wiper, headlight, mode, horn) ==
  [NoVector EXCEPT !["gear"] = gear, !["wiper"] = wiper, !["headlight"] = headlight,
                   !["mode"] = mode, !["horn"] = horn]

\* Shift, wipe in the dark, ask for a mode that does not exist.
MCStateCommands ==
  {Vector("REVERSE", NoCommand, NoCommand, "AUTONOMOUS", "RELEASED"),
   Vector(NoCommand, "ENABLE_LOW", NoCommand, NoCommand, "ON"),
   Vector("LOW", NoCommand, NoCommand, "INVALID", "RELEASED")}

\* The vehicle follows or it does not.
MCVehicleReports ==
  {Vector("DRIVE", "DISABLE", "DISABLE", "MANUAL", "RELEASED"),
   Vector("REVERSE", "ENABLE_LOW", "DISABLE", "AUTONOMOUS", "ON")}

MCAccelMin == -2
MCVelocities == {-2, -1, 0, 2}
MCAccels == {-2, 0, 3}
=============================================================================
