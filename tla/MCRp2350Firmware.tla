---------------------------- MODULE MCRp2350Firmware ----------------------------
(* One report of each kind the loop tells apart: short, default and        *)
(* over-long leases, both paths, both stops, a refused value, an unknown   *)
(* command and a malformed report.                                         *)
EXTENDS Rp2350Firmware

MCReport(command, sequence, lease) ==
  [command |-> command, in_range |-> TRUE, lease |-> lease, malformed |-> FALSE,
   sequence |-> sequence]

MCReports ==
  {MCReport("Unknown", 10, 0), MCReport("SetMotorCommand", 1, 0),
   MCReport("SetMotorCommand", 2, MaxLease + 1),
   MCReport("SetArmVelocity", 3, 0), MCReport("SetArmPosition", 4, ServoMaxLease),
   MCReport("SafeOff", 5, 0), MCReport("EnterUsbBootloader", 6, 0),
   MCReport("TelemetryOn", 7, 0),
   [MCReport("SetArmVelocity", 8, 0) EXCEPT !.in_range = FALSE],
   [MCReport("SafeOff", 9, 0) EXCEPT !.malformed = TRUE]}
=============================================================================
