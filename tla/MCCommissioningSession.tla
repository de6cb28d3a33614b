------------------------ MODULE MCCommissioningSession ------------------------
(* A session drives, stops, streams telemetry, hands over to the           *)
(* bootloader, and has one value refused.                                  *)
EXTENDS CommissioningSession

MCRequest(command, in_range) ==
  [command |-> command, in_range |-> in_range, lease |-> 0]

MCRequests ==
  {MCRequest("SetMotorCommand", TRUE), MCRequest("SafeOff", TRUE),
   MCRequest("TelemetryOn", TRUE), MCRequest("EnterUsbBootloader", TRUE),
   MCRequest("SetArmVelocity", FALSE)}

(* Two sessions of the indicator and stop commands.                        *)
MCPlainRequests == {MCRequest("SetNeopixel", TRUE), MCRequest("SafeOff", TRUE)}

MCReports ==
  [command : {q.command : q \in Requests} \cup {"TelemetryOff", "SafeOff"},
   sequence : 0 .. MaxSessions * (MaxCalls + 1), in_range : BOOLEAN,
   lease : {0}, malformed : {FALSE}]
=============================================================================
