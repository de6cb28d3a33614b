------------------------- MODULE CommissioningSession -------------------------
(***************************************************************************)
(* tools/rp2350_commission/device.py: sessions of the host tool with the   *)
(* target.  A session numbers its commands from 1, has at most one of them *)
(* outstanding, waits for the acknowledgement that carries its number and  *)
(* gives up at a deadline.  Leaving a session, in order or by an           *)
(* exception, sends SAFE_OFF and TELEMETRY_OFF and forgives their failure; *)
(* a process that is killed sends nothing.  The firmware is the module     *)
(* extended; its environment is replaced by the session.                   *)
(*                                                                         *)
(* A model sequence number carries the session besides the number on the   *)
(* wire, so that the properties can tell apart what the two ends cannot.   *)
(***************************************************************************)
EXTENDS Rp2350Firmware

CONSTANTS
  Telemetry,    \* a telemetry report, of which only the kind matters
  Requests,     \* what a session may ask: [command, in_range, lease]
  MaxSessions,  \* bound: sessions
  MaxCalls,     \* bound: commands of a session, those of close() included
  InQueue       \* reports the host's HID driver buffers

Plain(command) == [command |-> command, in_range |-> TRUE, lease |-> 0]
ClosingRequests == {Plain("SafeOff"), Plain("TelemetryOff")}

(* What a session writes for request q under number n.                     *)
Encoded(q, n) ==
  [command |-> q.command, in_range |-> q.in_range, lease |-> q.lease,
   malformed |-> FALSE, sequence |-> n]

ASSUME SessionAssumption ==
  /\ {MaxSessions, InQueue} \subseteq Nat \ {0}
  /\ MaxCalls \in Nat /\ MaxCalls >= 2
  /\ Requests \subseteq [command : Commands, in_range : BOOLEAN, lease : Nat]
  /\ \A q \in Requests \cup ClosingRequests :
       \A n \in 1 .. MaxSessions * (MaxCalls + 1) : Encoded(q, n) \in Reports
  /\ Telemetry \notin Acks \cup {None}

VARIABLES
  phase,                \* "Closed", "Idle" or "Waiting" (in command())
  closing,              \* 0, or which of close()'s two commands is outstanding
  call,                 \* the outstanding report, None when there is none
  sequence,             \* _sequence
  bootloader_requested,
  hid_in,               \* reports the host's driver holds for the session
  endpoint,             \* the report in the HID IN endpoint while it is busy
  session,              \* number of the latest session
  executed,             \* history: the firmware has executed `call`
  stopped               \* history: a stop was acknowledged, no drive asked since

hostVars == <<phase, closing, call, sequence, bootloader_requested, session>>
sessionVars == <<vars, hostVars, hid_in, endpoint, executed, stopped>>

Numbered(n) == n * MaxSessions + (session - 1)
Wire(n) == n \div MaxSessions
Stops == {"SafeOff", "EnterUsbBootloader"}

SessionInit ==
  /\ Init
  /\ phase = "Closed"
  /\ closing = 0
  /\ call = None
  /\ sequence = 1
  /\ bootloader_requested = FALSE
  /\ hid_in = <<>>
  /\ endpoint = None
  /\ session = 0
  /\ executed = FALSE
  /\ stopped = FALSE
---------------------------------------------------------------------------
(* The device: its loop, and what it leaves in the endpoint.               *)
Flushed == IF request = None THEN ack ELSE AckOf(request, StatusOf(request))

Device ==
  \/ /\ TakeReport \/ TaskDone
     /\ UNCHANGED <<endpoint, executed>>
  \/ /\ Service
     /\ endpoint' = IF endpoint_busy' /\ ~endpoint_busy THEN Flushed ELSE endpoint
     /\ executed' = (executed \/ (request # None /\ request = call))
  \/ /\ Cycle
     /\ endpoint' = IF endpoint_busy' /\ ~endpoint_busy THEN Telemetry ELSE endpoint
     /\ UNCHANGED executed
  \/ /\ BootPass
     /\ endpoint' = IF endpoint_busy' /\ ~endpoint_busy THEN ack ELSE endpoint
     /\ UNCHANGED executed

(* The host's driver polls while the device file is open; with its buffer  *)
(* full it loses the new report or the oldest one.                         *)
DriverPoll ==
  /\ phase # "Closed" /\ pc # "Rom"
  /\ Poll
  /\ hid_in' \in IF Len(hid_in) < InQueue THEN {Append(hid_in, endpoint)}
                 ELSE {hid_in, Append(Tail(hid_in), endpoint)}
  /\ endpoint' = None
  /\ UNCHANGED <<hostVars, executed, stopped>>
---------------------------------------------------------------------------
(* The session.                                                            *)
Open ==
  /\ phase = "Closed" /\ pc # "Rom"
  /\ session < MaxSessions
  /\ session' = session + 1
  /\ phase' = "Idle"
  /\ sequence' = 1
  /\ bootloader_requested' = FALSE
  /\ hid_in' = <<>>
  /\ UNCHANGED <<vars, closing, call, endpoint, executed, stopped>>

(* command(): the number is taken whether or not the write succeeds; the   *)
(* write blocks while the endpoint has no room and fails once the device   *)
(* has left the bus.                                                       *)
Begin(q) ==
  /\ sequence' = sequence + 1
  /\ IF pc = "Rom"
       THEN UNCHANGED <<vars, phase, call, executed, stopped>>
       ELSE LET r == Encoded(q, Numbered(sequence)) IN
             /\ Send(r)
                /\ phase' = "Waiting"
                /\ call' = r
                /\ executed' = FALSE
                /\ stopped' = (stopped /\ q.command \notin DriveCommands)
  /\ UNCHANGED <<hid_in, endpoint, session>>

Call(q) ==
  /\ phase = "Idle" /\ closing = 0
  /\ sequence <= MaxCalls - 2
  /\ Begin(q)
  /\ UNCHANGED <<closing, bootloader_requested>>

(* Mutant: any acknowledgement ends the wait.                              *)
Answers_Any(report) == report # Telemetry

(* Mutant: the acknowledgement is recognised by its command.               *)
Answers_ByCommand(report) == report # Telemetry /\ report.command = call.command

Answers(report) == report # Telemetry /\ Wire(report.sequence) = Wire(call.sequence)

Accepts(report) ==
  Answers(report) /\ report.command = call.command /\ report.status = "Ok"

(* One read of the loop in command(); other reports are kept for           *)
(* read_sample or dropped.                                                 *)
Read ==
  /\ phase = "Waiting" /\ hid_in # <<>>
  /\ hid_in' = Tail(hid_in)
  /\ LET report == Head(hid_in) IN
       IF Answers(report)
       THEN /\ phase' = "Idle"
            /\ call' = None
            /\ stopped' = (stopped \/ (Accepts(report) /\ report.command \in Stops))
            /\ bootloader_requested' =
                 (bootloader_requested
                   \/ (Accepts(report) /\ report.command = "EnterUsbBootloader"))
       ELSE UNCHANGED <<phase, call, stopped, bootloader_requested>>
  /\ UNCHANGED <<vars, closing, sequence, session, endpoint, executed>>

(* The deadline passes, or the device leaves the bus, which raises.        *)
GiveUp ==
  /\ phase = "Waiting"
  /\ phase' = "Idle"
  /\ call' = None
  /\ UNCHANGED <<vars, closing, sequence, bootloader_requested, session, hid_in,
                 endpoint, executed, stopped>>

(* read_sample() between commands takes a report, whatever it is.          *)
ReadSample ==
  /\ phase = "Idle" /\ closing = 0 /\ hid_in # <<>>
  /\ hid_in' = Tail(hid_in)
  /\ UNCHANGED <<vars, hostVars, endpoint, executed, stopped>>

(* close(): two commands, each forgiven, unless the bootloader took over.  *)
CloseStep ==
  /\ phase = "Idle"
  /\ \/ /\ ~bootloader_requested
        /\ closing < 2
        /\ closing' = closing + 1
        /\ Begin(Plain(IF closing = 0 THEN "SafeOff" ELSE "TelemetryOff"))
        /\ UNCHANGED bootloader_requested
     \/ /\ bootloader_requested \/ closing = 2
        /\ phase' = "Closed"
        /\ closing' = 0
        /\ hid_in' = <<>>
        /\ UNCHANGED <<vars, call, sequence, bootloader_requested, session,
                       endpoint, executed, stopped>>

Killed ==
  /\ phase # "Closed"
  /\ phase' = "Closed"
  /\ closing' = 0
  /\ call' = None
  /\ hid_in' = <<>>
  /\ UNCHANGED <<vars, sequence, bootloader_requested, session, endpoint,
                 executed, stopped>>

Session ==
  \/ Open \/ Read \/ GiveUp \/ ReadSample \/ CloseStep \/ Killed
  \/ \E q \in Requests : Call(q)

SessionNext ==
  \/ Device /\ UNCHANGED <<hostVars, hid_in, stopped>>
  \/ Tick /\ UNCHANGED <<hostVars, hid_in, endpoint, executed, stopped>>
  \/ DriverPoll
  \/ Session

(* The firmware's loop runs and time passes; the host may stop anywhere.   *)
SessionSpec ==
  /\ SessionInit /\ [][SessionNext]_sessionVars
  /\ WF_vars(Firmware) /\ WF_vars(Tick)
---------------------------------------------------------------------------
(* Every variable has its type; a report in the endpoint is there exactly  *)
(* while the endpoint is busy, and a call is outstanding exactly while the *)
(* session waits (device.py, hid_transport.py).                            *)
SessionTypeOK ==
  /\ TypeOK
  /\ phase \in {"Closed", "Idle", "Waiting"}
  /\ closing \in 0 .. 2
  /\ call \in Reports \cup {None} /\ (call # None <=> phase = "Waiting")
  /\ sequence \in 1 .. MaxCalls + 1
  /\ bootloader_requested \in BOOLEAN
  /\ hid_in \in Seq(Acks \cup {Telemetry}) /\ Len(hid_in) <= InQueue
  /\ endpoint \in Acks \cup {Telemetry, None}
  /\ endpoint_busy <=> endpoint # None
  /\ session \in 0 .. MaxSessions
  /\ executed \in BOOLEAN
  /\ stopped \in BOOLEAN

(* An acknowledgement that ends a command's wait was made by the firmware  *)
(* for that very command, which it has therefore executed or refused:      *)
(* not for an earlier command that timed out or whose process was killed   *)
(* (Rp2350Device.command).                                                 *)
AnswersOwnCall ==
  [][Read /\ phase' = "Idle" => executed /\ Head(hid_in).sequence = call.sequence]_sessionVars

(* Nothing drives and no drive command is on its way.                      *)
Quiet ==
  /\ bridge = None /\ motor = None /\ servo = None
  /\ request # None => request.command \notin DriveCommands
  /\ \A i \in 1 .. Len(usb_out) : usb_out[i].command \notin DriveCommands

(* From the return of safe_off() or enter_usb_bootloader() until the tool  *)
(* asks for motion again nothing drives, and no drive command that timed   *)
(* out earlier is left on its way to start the motor later                 *)
(* (Rp2350Device.safe_off, close, the experiments' finally blocks).        *)
StopReturnedHolds == stopped => Quiet

(* Once the last session is over, however it ended, what it left in the    *)
(* queues and the leases it took run out and the motor stops for good      *)
(* (Rp2350Device.close suppresses failures; main.cpp's expiry checks).     *)
SessionsEndStopped ==
  phase = "Closed" /\ session = MaxSessions ~> [](bridge = None)
=============================================================================
