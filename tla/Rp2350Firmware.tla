--------------------------- MODULE Rp2350Firmware ---------------------------
(***************************************************************************)
(* firmware/targets/rp2350a: the main loop of the commissioning target.    *)
(* Requests arrive over USB in a one-deep slot, are executed at two points *)
(* of the loop and answered through a one-deep acknowledgement slot; a     *)
(* direct motor command or an arm servo then drives the bridge under a     *)
(* lease that the control cycle checks.  The target never asks its control *)
(* runtime for closed-loop authority, so without a lease the cycle ends in *)
(* safe-off.  The host is the environment.                                 *)
(* Deadlines are kept as the time left to them: a deadline is passed when  *)
(* the time left is negative.                                              *)
(***************************************************************************)
EXTENDS Integers, Sequences

CONSTANTS
  None,
  Reports,             \* output reports the host may send
  DefaultLease, MaxLease,             \* direct motor command
  ServoDefaultLease, ServoMaxLease,   \* arm servo
  TelemetryPeriod,     \* control cycles per telemetry report
  BootIterations,      \* passes of the loop in enter_usb_bootloader
  OutQueue             \* bound: reports in flight from the host

Commands == {"GetStatus", "TelemetryOn", "TelemetryOff", "SetMotorCommand",
             "SafeOff", "SetArmVelocity", "SetArmPosition", "SetUserLed",
             "SetNeopixel", "EnterUsbBootloader", "Unknown"}

(* A report as the host sends it: `in_range` says whether its values pass  *)
(* the range checks of its command, `lease` is duration_ms, `malformed`    *)
(* that its size, version or type is wrong.                                *)
Report == [command : Commands, sequence : Nat, in_range : BOOLEAN,
           lease : Nat, malformed : BOOLEAN]

ASSUME FirmwareAssumption ==
  /\ Reports \subseteq Report
  /\ {DefaultLease, MaxLease, ServoDefaultLease, ServoMaxLease} \subseteq Nat \ {0}
  /\ DefaultLease <= MaxLease /\ ServoDefaultLease <= ServoMaxLease
  /\ {TelemetryPeriod, BootIterations, OutQueue} \subseteq Nat \ {0}
  /\ None \notin Report /\ None \notin Int

Statuses == {"Ok", "Invalid", "Range"}
MotorCommands == {"SetMotorCommand"}
ServoCommands == {"SetArmVelocity", "SetArmPosition"}

Acks == [command : Commands, sequence : Nat, status : Statuses]
Motors == [left : Int, sequence : Nat]
Servos == [mode : ServoCommands, sequence : Nat]
Drives == [path : {"Motor", "Servo"}, sequence : Nat]

ASSUME RecordAssumption ==
  None \notin Acks /\ None \notin Motors /\ None \notin Servos /\ None \notin Drives

VARIABLES
  pc,                 \* where the main loop is
  usb_out,            \* reports on their way from the host
  request,            \* g_request while g_request_pending, else None
  ack,                \* g_ack while g_ack_pending, else None
  endpoint_busy,      \* a report waits in the HID IN endpoint (~tud_hid_ready)
  telemetry_enabled,
  telemetry_ticks,
  motor,              \* CommissioningMotor: None, or the command and its time left
  servo,              \* ArmServo: None when Off, or the mode and its command
  servo_lease,        \* ArmServoLease: time left, None when cleared
  bridge,             \* what the output last applied: None or [path, sequence]
  boot_left,          \* None, or the passes left before the ROM takes over
  host                \* FALSE once the host has disappeared

loopVars == <<pc, boot_left>>
usbVars == <<usb_out, request, ack, endpoint_busy>>
telemetryVars == <<telemetry_enabled, telemetry_ticks>>
pathVars == <<motor, servo, servo_lease>>
vars == <<loopVars, usbVars, telemetryVars, pathVars, bridge, host>>

Places == {"Task", "Service", "Cycle", "TaskAgain", "ServiceAgain", "Boot", "Rom"}

MotorOf(sequence, left) == [left |-> left, sequence |-> sequence]
ServoOf(mode, sequence) == [mode |-> mode, sequence |-> sequence]
Driven(path, sequence) == [path |-> path, sequence |-> sequence]
AckOf(r, status) == [command |-> r.command, sequence |-> r.sequence, status |-> status]

Init ==
  /\ pc = "Task"
  /\ usb_out = <<>>
  /\ request = None
  /\ ack = None
  /\ endpoint_busy = FALSE
  /\ telemetry_enabled = FALSE
  /\ telemetry_ticks = 0
  /\ motor = None
  /\ servo = None
  /\ servo_lease = None
  /\ bridge = None
  /\ boot_left = None
  /\ host = TRUE
---------------------------------------------------------------------------
(* usb::task: the stack hands over any number of received reports; one     *)
(* that finds the request slot taken, or is malformed, is dropped.         *)
Accepted(r) == request = None /\ ~r.malformed

TakeReport ==
  /\ pc \in {"Task", "TaskAgain", "Boot"}
  /\ usb_out # <<>>
  /\ request' = IF Accepted(Head(usb_out)) THEN Head(usb_out) ELSE request
  /\ usb_out' = Tail(usb_out)
  /\ UNCHANGED <<loopVars, ack, endpoint_busy, telemetryVars, pathVars, bridge, host>>

(* A CDC line "telemetry on" or "telemetry off".                           *)
CdcLine ==
  /\ host
  /\ pc \in {"Task", "TaskAgain", "Boot"}
  /\ telemetry_enabled' = ~telemetry_enabled
  /\ UNCHANGED <<loopVars, usbVars, telemetry_ticks, pathVars, bridge, host>>

TaskDone ==
  /\ pc \in {"Task", "TaskAgain"}
  /\ pc' = IF pc = "Task" THEN "Service" ELSE "ServiceAgain"
  /\ UNCHANGED <<boot_left, usbVars, telemetryVars, pathVars, bridge, host>>
---------------------------------------------------------------------------
(* service_commissioning.                                                  *)
LeaseOf(r, default) == IF r.lease = 0 THEN default ELSE r.lease

DriveCommands == MotorCommands \cup ServoCommands
Indicators == {"SetUserLed", "SetNeopixel"}

StatusOf(r) ==
  IF r.command = "Unknown" THEN "Invalid"
  ELSE IF \/ r.command \in DriveCommands \cup Indicators /\ ~r.in_range
          \/ r.command \in MotorCommands /\ LeaseOf(r, DefaultLease) > MaxLease
          \/ r.command \in ServoCommands
               /\ LeaseOf(r, ServoDefaultLease) > ServoMaxLease
  THEN "Range"
  ELSE "Ok"

(* Mutant: the drive output is left as it was until the next cycle.        *)
StopMotorPaths_KeepBridge ==
  /\ motor' = None
  /\ servo' = None
  /\ servo_lease' = None
  /\ UNCHANGED bridge

(* Mutant: the servo survives a stop.                                      *)
StopMotorPaths_KeepServo ==
  /\ motor' = None
  /\ bridge' = None
  /\ UNCHANGED <<servo, servo_lease>>

(* stop_motor_paths.                                                       *)
StopMotorPaths ==
  /\ motor' = None
  /\ servo' = None
  /\ servo_lease' = None
  /\ bridge' = None

DriveMotor(r) ==
  /\ motor' = MotorOf(r.sequence, LeaseOf(r, DefaultLease))
  /\ servo' = None
  /\ servo_lease' = None
  /\ UNCHANGED bridge

DriveServo(r) ==
  /\ motor' = None
  /\ servo' = ServoOf(r.command, r.sequence)
  /\ servo_lease' = LeaseOf(r, ServoDefaultLease)
  /\ UNCHANGED bridge

(* The effect of a request on telemetry, the paths, the bridge and boot.   *)
Effect(r) ==
  LET ok == StatusOf(r) = "Ok" IN
  \/ /\ ok /\ r.command \in MotorCommands
     /\ DriveMotor(r)
     /\ UNCHANGED <<telemetryVars, boot_left>>
  \/ /\ ok /\ r.command \in ServoCommands
     /\ DriveServo(r)
     /\ UNCHANGED <<telemetryVars, boot_left>>
  \/ /\ r.command = "SafeOff"
     /\ StopMotorPaths
     /\ UNCHANGED <<telemetryVars, boot_left>>
  \/ /\ r.command = "EnterUsbBootloader"
     /\ StopMotorPaths
     /\ boot_left' = BootIterations
     /\ UNCHANGED telemetryVars
  \/ /\ r.command \in {"TelemetryOn", "TelemetryOff"}
     /\ telemetry_enabled' = (r.command = "TelemetryOn")
     /\ UNCHANGED <<telemetry_ticks, pathVars, bridge, boot_left>>
  \/ /\ ~ok \/ r.command \in {"GetStatus"} \cup Indicators
     /\ UNCHANGED <<telemetryVars, pathVars, bridge, boot_left>>

(* commissioning::service: send the pending acknowledgement if it can be.  *)
Flush(pending) ==
  IF pending # None /\ ~endpoint_busy
    THEN endpoint_busy' = TRUE /\ ack' = None
    ELSE ack' = pending /\ UNCHANGED endpoint_busy

(* queue_ack overwrites an acknowledgement that has not been sent.         *)
Service ==
  /\ pc \in {"Service", "ServiceAgain"}
  /\ IF request = None
       THEN /\ Flush(ack)
            /\ UNCHANGED <<telemetryVars, pathVars, bridge, boot_left>>
       ELSE /\ Effect(request)
            /\ Flush(AckOf(request, StatusOf(request)))
  /\ request' = None
  /\ pc' = IF boot_left' # None THEN "Boot"
           ELSE IF pc = "Service" THEN "Cycle" ELSE "Task"
  /\ UNCHANGED <<usb_out, host>>
---------------------------------------------------------------------------
(* The control cycle: the expiry checks, then the output in its order of   *)
(* priority, then telemetry.                                               *)
Passed(left) == left # None /\ left < 0

(* Mutant: the direct command is never checked against its deadline.       *)
MotorAfterExpiry_Never == motor

MotorAfterExpiry == IF motor # None /\ Passed(motor.left) THEN None ELSE motor

(* Mutant: an expired servo is left running.                               *)
ServoExpires_Never == FALSE

ServoExpires == servo # None /\ Passed(servo_lease)

TelemetryDue == telemetry_ticks + 1 >= TelemetryPeriod

Cycle ==
  /\ pc = "Cycle"
  /\ pc' = "TaskAgain"
  /\ motor' = MotorAfterExpiry
  /\ servo' = IF ServoExpires THEN None ELSE servo
  /\ servo_lease' = IF ServoExpires THEN None ELSE servo_lease
  /\ bridge' = IF motor' # None THEN Driven("Motor", motor'.sequence)
               ELSE IF servo' # None THEN Driven("Servo", servo'.sequence)
               ELSE None
  /\ telemetry_ticks' = IF TelemetryDue THEN 0 ELSE telemetry_ticks + 1
  /\ endpoint_busy' = (endpoint_busy \/ (TelemetryDue /\ telemetry_enabled))
  /\ UNCHANGED <<boot_left, usb_out, request, ack, telemetry_enabled, host>>

(* One pass of enter_usb_bootloader after its task; then the ROM.          *)
BootPass ==
  /\ pc = "Boot"
  /\ bridge' = None
  /\ IF boot_left > 0
       THEN /\ Flush(ack)
            /\ boot_left' = boot_left - 1
            /\ UNCHANGED pc
       ELSE /\ pc' = "Rom"
            /\ UNCHANGED <<boot_left, ack, endpoint_busy>>
  /\ UNCHANGED <<usb_out, request, telemetryVars, pathVars, host>>

Firmware == TakeReport \/ TaskDone \/ Service \/ Cycle \/ BootPass
---------------------------------------------------------------------------
(* The environment: time, the host's reports, its polling and its absence. *)
Elapse(left) == IF left = None \/ left < 0 THEN left ELSE left - 1

Tick ==
  /\ motor' = IF motor = None THEN None
              ELSE MotorOf(motor.sequence, Elapse(motor.left))
  /\ servo_lease' = Elapse(servo_lease)
  /\ UNCHANGED <<loopVars, usbVars, telemetryVars, servo, bridge, host>>

Send(r) ==
  /\ host
  /\ Len(usb_out) < OutQueue
  /\ usb_out' = Append(usb_out, r)
  /\ UNCHANGED <<loopVars, request, ack, endpoint_busy, telemetryVars, pathVars,
                 bridge, host>>

Poll ==
  /\ host
  /\ endpoint_busy
  /\ endpoint_busy' = FALSE
  /\ UNCHANGED <<loopVars, usb_out, request, ack, telemetryVars, pathVars,
                 bridge, host>>

HostDisappears ==
  /\ host
  /\ host' = FALSE
  /\ UNCHANGED <<loopVars, usbVars, telemetryVars, pathVars, bridge>>

Next ==
  \/ Firmware \/ CdcLine \/ Tick \/ Poll \/ HostDisappears
  \/ \E r \in Reports : Send(r)

Spec == Init /\ [][Next]_vars

(* The loop never blocks for good and time passes; nothing is asked of the *)
(* host.                                                                   *)
FairSpec == Spec /\ WF_vars(Firmware) /\ WF_vars(Tick)
---------------------------------------------------------------------------
Leases == -1 .. MaxLease
ServoLeases == -1 .. ServoMaxLease

(* Every variable has its type; no lease is longer than the longest one    *)
(* the range checks of service_commissioning let through.                  *)
TypeOK ==
  /\ pc \in Places
  /\ usb_out \in Seq(Reports) /\ Len(usb_out) <= OutQueue
  /\ request \in Reports \cup {None}
  /\ ack \in Acks \cup {None}
  /\ endpoint_busy \in BOOLEAN
  /\ telemetry_enabled \in BOOLEAN
  /\ telemetry_ticks \in 0 .. TelemetryPeriod - 1
  /\ motor \in [left : Leases, sequence : Nat] \cup {None}
  /\ servo \in Servos \cup {None}
  /\ servo_lease \in ServoLeases \cup {None}
  /\ bridge \in Drives \cup {None}
  /\ boot_left \in 0 .. BootIterations \cup {None}
  /\ host \in BOOLEAN

(* Whatever commands arrive in whatever order, the direct command and the  *)
(* arm servo are never active together, and an active servo always holds a *)
(* lease of its own, the previous one's having gone with it                *)
(* (service_commissioning, and the expiry checks of main).                 *)
OneLeasedPath ==
  /\ motor = None \/ servo = None
  /\ servo # None <=> servo_lease # None

(* The bridge never drives on after the last path that could have driven   *)
(* it has gone: what stops a path, at whatever point of the loop, stops    *)
(* the bridge in the same step (stop_motor_paths, the output's order).     *)
DriveHasOwner == bridge # None => motor # None \/ servo # None

(* While the acknowledgement of a stop waits to be sent, and from the      *)
(* bootloader request on, nothing drives and nothing is about to: a drive  *)
(* command cannot slip in without replacing that acknowledgement           *)
(* (service_commissioning, enter_usb_bootloader).                          *)
StopHolds ==
  \/ ack # None /\ ack.command \in {"SafeOff", "EnterUsbBootloader"}
  \/ pc \in {"Boot", "Rom"}
  => bridge = None /\ motor = None /\ servo = None

(* The loop is left for the bootloader only with its countdown set.        *)
BootCounted ==
  /\ pc \notin {"Boot", "Rom"} => boot_left = None
  /\ pc = "Boot" => boot_left # None

(* The inductive invariant the proofs rest on.                             *)
IInv == TypeOK /\ OneLeasedPath /\ DriveHasOwner /\ StopHolds /\ BootCounted

(* A path lives as long as its lease has not passed.                       *)
MotorLive == motor # None /\ motor.left >= 0
ServoLive == servo # None /\ servo_lease >= 0

(* A control cycle drives the bridge for the path that lives, and for no   *)
(* other: it neither drives on a lease that has passed nor drops a command *)
(* whose lease was refreshed, or taken over, just before it (main.cpp, the *)
(* expiry checks and the output after them).                               *)
LeasedDrive ==
  [][Cycle =>
       /\ MotorLive => bridge' = Driven("Motor", motor.sequence)
       /\ ServoLive => bridge' = Driven("Servo", servo.sequence)
       /\ ~MotorLive /\ ~ServoLive => bridge' = None]_vars

(* tools/rp2350_commission/README.md: "the firmware timeout stops a stale  *)
(* command if the host disappears", whatever was on its way from the host  *)
(* and whatever the loop was doing.                                        *)
SilenceStops == ~host ~> [](bridge = None)
=============================================================================
