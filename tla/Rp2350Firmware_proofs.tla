----------------------- MODULE Rp2350Firmware_proofs ------------------------
(***************************************************************************)
(* The safety properties of Rp2350Firmware, for every set of reports,      *)
(* every lease limit, telemetry period and queue of the USB stack, and     *)
(* those of a commissioning session with it, for any number of calls.      *)
(***************************************************************************)
EXTENDS CommissioningSession, TLAPS

(* A lease that passes the range check is a lease.                         *)
LEMMA LeaseType ==
  ASSUME NEW r \in Reports, StatusOf(r) = "Ok"
  PROVE  /\ r.command \in MotorCommands => LeaseOf(r, DefaultLease) \in 0..MaxLease
         /\ r.command \in ServoCommands =>
              LeaseOf(r, ServoDefaultLease) \in 0..ServoMaxLease
BY FirmwareAssumption DEF StatusOf, LeaseOf, Report, MotorCommands,
  ServoCommands, Commands

(* An acknowledgement has the type of one, and a stop is never refused.    *)
LEMMA AckType ==
  ASSUME NEW r \in Reports
  PROVE  /\ AckOf(r, StatusOf(r)) \in Acks
         /\ AckOf(r, StatusOf(r)).command = r.command
         /\ r.command \in {"SafeOff", "EnterUsbBootloader"} => StatusOf(r) = "Ok"
BY FirmwareAssumption DEF AckOf, StatusOf, Acks, Report, Statuses, Commands,
  DriveCommands, MotorCommands, ServoCommands, Indicators

(* The time left to a deadline stays in range as it runs down.             *)
LEMMA ElapseType ==
  ASSUME NEW n \in Nat, NEW left \in (-1 .. n) \cup {None}
  PROVE  /\ Elapse(left) \in (-1 .. n) \cup {None}
         /\ Elapse(left) = None <=> left = None
         /\ left # None => Elapse(left) \in -1 .. n
BY FirmwareAssumption DEF Elapse

(* At boot nothing is asked for and nothing drives.                        *)
LEMMA InitInvariant == Init => IInv
<1> SUFFICES ASSUME Init PROVE IInv
  OBVIOUS
<1>1. TypeOK
  <2>1. usb_out \in Seq(Reports) /\ Len(usb_out) = 0
    BY DEF Init
  <2>2. 0 \in 0 .. TelemetryPeriod - 1 /\ 0 <= OutQueue
    BY FirmwareAssumption
  <2> QED
    BY <2>1, <2>2 DEF Init, TypeOK, Places
<1>2. OneLeasedPath /\ DriveHasOwner /\ StopHolds /\ BootCounted
  BY DEF Init, OneLeasedPath, DriveHasOwner, StopHolds, BootCounted
<1> QED
  BY <1>1, <1>2 DEF IInv

(* What a request does to the paths, the bridge and the countdown.         *)
LEMMA EffectStep ==
  ASSUME IInv, boot_left = None, NEW r \in Reports, Effect(r)
  PROVE  /\ motor' \in [left : Leases, sequence : Nat] \cup {None}
         /\ servo' \in Servos \cup {None}
         /\ servo_lease' \in ServoLeases \cup {None}
         /\ bridge' \in Drives \cup {None}
         /\ boot_left' \in 0 .. BootIterations \cup {None}
         /\ telemetry_enabled' \in BOOLEAN
         /\ telemetry_ticks' \in 0 .. TelemetryPeriod - 1
         /\ OneLeasedPath' /\ DriveHasOwner'
         /\ r.command \in {"SafeOff", "EnterUsbBootloader"} \/ boot_left' # None =>
              bridge' = None /\ motor' = None /\ servo' = None
<1> USE DEF IInv, TypeOK, OneLeasedPath, DriveHasOwner
<1>0. r.command \in Commands /\ r.sequence \in Nat
  BY FirmwareAssumption DEF Report
<1>1. CASE StatusOf(r) = "Ok" /\ r.command \in MotorCommands /\ DriveMotor(r)
           /\ UNCHANGED <<telemetryVars, boot_left>>
  <2>1. LeaseOf(r, DefaultLease) \in 0..MaxLease
    BY <1>1, LeaseType
  <2>2. motor' \in [left : Leases, sequence : Nat]
    BY <1>0, <1>1, <2>1, FirmwareAssumption DEF DriveMotor, MotorOf, Leases
  <2>3. motor' # None
    BY <2>2, RecordAssumption DEF Motors, Leases
  <2> QED
    BY <1>1, <2>2, <2>3, FirmwareAssumption
    DEF DriveMotor, telemetryVars, MotorCommands
<1>2. CASE StatusOf(r) = "Ok" /\ r.command \in ServoCommands /\ DriveServo(r)
           /\ UNCHANGED <<telemetryVars, boot_left>>
  <2>1. LeaseOf(r, ServoDefaultLease) \in 0..ServoMaxLease
    BY <1>2, LeaseType
  <2>2. servo' \in Servos
    BY <1>0, <1>2 DEF DriveServo, ServoOf, Servos
  <2>3. servo' # None /\ servo_lease' # None /\ servo_lease' \in ServoLeases
    BY <1>2, <2>1, <2>2, RecordAssumption, FirmwareAssumption
    DEF DriveServo, ServoLeases
  <2> QED
    BY <1>2, <2>2, <2>3, FirmwareAssumption
    DEF DriveServo, telemetryVars, ServoCommands
<1>3. CASE StopMotorPaths /\ UNCHANGED telemetryVars
           /\ (boot_left' = BootIterations \/ UNCHANGED boot_left)
  BY <1>3, FirmwareAssumption DEF StopMotorPaths, telemetryVars
<1>4. CASE /\ r.command \notin {"SafeOff", "EnterUsbBootloader"}
           /\ telemetry_enabled' \in BOOLEAN
           /\ UNCHANGED <<telemetry_ticks, pathVars, bridge, boot_left>>
  BY <1>4 DEF pathVars
<1>5. CASE /\ StatusOf(r) # "Ok" \/ r.command \in {"GetStatus"} \cup Indicators
           /\ UNCHANGED <<telemetryVars, pathVars, bridge, boot_left>>
  <2>1. r.command \notin {"SafeOff", "EnterUsbBootloader"}
    BY <1>5, AckType DEF Indicators
  <2> QED
    BY <1>5, <2>1, <1>4 DEF telemetryVars
<1> QED
  BY <1>1, <1>2, <1>3, <1>4, <1>5 DEF Effect

(* Executing a request, or none, and answering.                            *)
LEMMA ServiceStep == IInv /\ Service => IInv'
<1> SUFFICES ASSUME IInv, Service PROVE IInv'
  OBVIOUS
<1>0. boot_left = None /\ pc \notin {"Boot", "Rom"}
  BY DEF IInv, BootCounted, Service
<1>1. pc' \in Places /\ (pc' \in {"Boot", "Rom"} <=> boot_left' # None)
      /\ BootCounted'
  BY DEF Service, Places, BootCounted
<1>2. CASE request = None
  <2>1. Flush(ack) /\ UNCHANGED <<telemetryVars, pathVars, bridge, boot_left>>
        /\ request' = None /\ UNCHANGED <<usb_out, host>>
    BY <1>2 DEF Service
  <2>2. ack' \in {ack, None} /\ endpoint_busy' \in BOOLEAN
    BY <2>1 DEF Flush, IInv, TypeOK
  <2>3. TypeOK'
    BY <1>1, <2>1, <2>2 DEF IInv, TypeOK, telemetryVars, pathVars
  <2>4. OneLeasedPath' /\ DriveHasOwner'
    BY <2>1 DEF IInv, OneLeasedPath, DriveHasOwner, pathVars
  <2>5. StopHolds'
    BY <1>0, <1>1, <2>1, <2>2 DEF IInv, StopHolds, pathVars
  <2> QED
    BY <1>1, <2>3, <2>4, <2>5 DEF IInv
<1>3. CASE request # None
  <2>0. request \in Reports
    BY <1>3 DEF IInv, TypeOK
  <2>1. Effect(request) /\ Flush(AckOf(request, StatusOf(request)))
        /\ request' = None /\ UNCHANGED <<usb_out, host>>
    BY <1>3 DEF Service
  <2>2. ack' \in {AckOf(request, StatusOf(request)), None} /\ endpoint_busy' \in BOOLEAN
    BY <2>1 DEF Flush, IInv, TypeOK
  <2>3. TypeOK'
    BY <1>0, <1>1, <2>0, <2>1, <2>2, EffectStep, AckType DEF IInv, TypeOK
  <2>4. OneLeasedPath' /\ DriveHasOwner'
    BY <1>0, <2>0, <2>1, EffectStep
  <2>5. StopHolds'
    BY <1>0, <1>1, <2>0, <2>1, <2>2, EffectStep, AckType DEF StopHolds
  <2> QED
    BY <1>1, <2>3, <2>4, <2>5 DEF IInv
<1> QED
  BY <1>2, <1>3

(* The expiry checks and the output of a control cycle.                    *)
LEMMA CycleStep == IInv /\ Cycle => IInv'
<1> SUFFICES ASSUME IInv, Cycle PROVE IInv'
  OBVIOUS
<1> USE DEF IInv
<1>1. /\ motor' \in {motor, None}
      /\ \/ servo' = servo /\ servo_lease' = servo_lease
         \/ servo' = None /\ servo_lease' = None
      /\ boot_left' = boot_left /\ usb_out' = usb_out /\ request' = request
      /\ ack' = ack /\ host' = host /\ telemetry_enabled' = telemetry_enabled
      /\ pc = "Cycle" /\ pc' = "TaskAgain"
  BY DEF Cycle, MotorAfterExpiry
<1>2. motor' # None => Driven("Motor", motor'.sequence) \in Drives
  BY <1>1 DEF Driven, Drives, TypeOK
<1>3. servo' # None => Driven("Servo", servo'.sequence) \in Drives
  BY <1>1 DEF Driven, Drives, TypeOK, Servos
<1>4. /\ bridge' \in Drives \cup {None}
      /\ bridge' # None => motor' # None \/ servo' # None
      /\ motor' = None /\ servo' = None => bridge' = None
  BY <1>2, <1>3 DEF Cycle
<1>5. telemetry_ticks' \in 0 .. TelemetryPeriod - 1 /\ endpoint_busy' \in BOOLEAN
  BY FirmwareAssumption DEF Cycle, TelemetryDue, TypeOK
<1>6. TypeOK'
  BY <1>1, <1>4, <1>5 DEF TypeOK, Places
<1>7. OneLeasedPath' /\ DriveHasOwner' /\ BootCounted'
  BY <1>1, <1>4 DEF OneLeasedPath, DriveHasOwner, BootCounted
<1>8. StopHolds'
  BY <1>1, <1>4 DEF StopHolds
<1> QED
  BY <1>6, <1>7, <1>8

(* Time only shortens leases.                                              *)
LEMMA TickStep == IInv /\ Tick => IInv'
<1> SUFFICES ASSUME IInv, Tick PROVE IInv'
  OBVIOUS
<1> USE DEF IInv
<1>1. /\ motor' \in [left : Leases, sequence : Nat] \cup {None}
      /\ motor' = None <=> motor = None
  <2>1. CASE motor = None
    BY <2>1 DEF Tick
  <2>2. CASE motor # None
    <3>1. motor.left \in -1 .. MaxLease /\ motor.sequence \in Nat
      BY <2>2 DEF TypeOK, Leases
    <3>2. Elapse(motor.left) \in -1 .. MaxLease
      BY <3>1, FirmwareAssumption, ElapseType
    <3>3. motor' \in [left : Leases, sequence : Nat]
      BY <2>2, <3>1, <3>2 DEF Tick, MotorOf, Leases
    <3>4. motor' # None
      BY <3>3, RecordAssumption DEF Motors, Leases
    <3> QED
      BY <2>2, <3>3, <3>4
  <2> QED
    BY <2>1, <2>2
<1>2. /\ servo_lease' \in ServoLeases \cup {None}
      /\ servo_lease' = None <=> servo_lease = None
  BY ElapseType, FirmwareAssumption DEF Tick, TypeOK, ServoLeases
<1>3. UNCHANGED <<loopVars, usbVars, telemetryVars, servo, bridge, host>>
  BY DEF Tick
<1>4. TypeOK'
  BY <1>1, <1>2, <1>3 DEF TypeOK, loopVars, usbVars, telemetryVars
<1> QED
  BY <1>1, <1>2, <1>3, <1>4 DEF OneLeasedPath, DriveHasOwner, StopHolds,
    BootCounted, loopVars, usbVars

(* Steps that leave the paths and the bridge alone.                        *)
LEMMA TransportStep ==
  ASSUME IInv,
         \/ TakeReport \/ TaskDone \/ CdcLine \/ Poll \/ HostDisappears
         \/ \E r \in Reports : Send(r)
  PROVE  IInv'
<1> USE DEF IInv
<1>1. CASE TakeReport
  <2>1. /\ usb_out \in Seq(Reports) /\ usb_out # <<>>
        /\ Head(usb_out) \in Reports /\ Tail(usb_out) \in Seq(Reports)
        /\ Len(Tail(usb_out)) <= OutQueue
    BY <1>1, FirmwareAssumption DEF TakeReport, TypeOK
  <2>2. request' \in Reports \cup {None}
    BY <1>1, <2>1 DEF TakeReport, TypeOK
  <2>3. TypeOK'
    BY <1>1, <2>1, <2>2 DEF TakeReport, TypeOK, loopVars, telemetryVars, pathVars
  <2> QED
    BY <1>1, <2>3 DEF TakeReport, OneLeasedPath, DriveHasOwner, StopHolds,
      BootCounted, loopVars, pathVars
<1>2. CASE TaskDone
  BY <1>2 DEF TaskDone, TypeOK, Places, OneLeasedPath, DriveHasOwner, StopHolds,
    BootCounted, usbVars, telemetryVars, pathVars
<1>3. CASE CdcLine
  BY <1>3 DEF CdcLine, TypeOK, OneLeasedPath, DriveHasOwner, StopHolds,
    BootCounted, loopVars, usbVars, pathVars
<1>4. CASE Poll
  BY <1>4 DEF Poll, TypeOK, OneLeasedPath, DriveHasOwner, StopHolds,
    BootCounted, loopVars, telemetryVars, pathVars
<1>5. CASE HostDisappears
  BY <1>5 DEF HostDisappears, TypeOK, OneLeasedPath, DriveHasOwner, StopHolds,
    BootCounted, loopVars, usbVars, telemetryVars, pathVars
<1>6. ASSUME NEW r \in Reports, Send(r) PROVE IInv'
  <2>1. usb_out' \in Seq(Reports) /\ Len(usb_out') <= OutQueue
    BY <1>6, FirmwareAssumption DEF Send, TypeOK
  <2> QED
    BY <1>6, <2>1 DEF Send, TypeOK, OneLeasedPath, DriveHasOwner, StopHolds,
      BootCounted, loopVars, telemetryVars, pathVars
<1> QED
  BY <1>1, <1>2, <1>3, <1>4, <1>5, <1>6

(* The passes on the way to the ROM.                                       *)
LEMMA BootStep == IInv /\ BootPass => IInv'
<1> SUFFICES ASSUME IInv, BootPass PROVE IInv'
  OBVIOUS
<1> USE DEF IInv
<1>1. /\ ack' \in {ack, None} /\ endpoint_busy' \in BOOLEAN
      /\ boot_left' \in 0 .. BootIterations /\ pc' \in {"Boot", "Rom"}
      /\ bridge' = None /\ pc = "Boot"
      /\ UNCHANGED <<usb_out, request, telemetryVars, pathVars, host>>
  <2>1. boot_left \in 0 .. BootIterations
    BY DEF BootPass, TypeOK, BootCounted
  <2>2. CASE boot_left > 0
    <3>1. boot_left' \in 0 .. BootIterations
      BY <2>1, <2>2, FirmwareAssumption DEF BootPass
    <3>2. ack' \in {ack, None} /\ endpoint_busy' \in BOOLEAN
      BY <2>2 DEF BootPass, Flush, TypeOK
    <3>3. UNCHANGED <<usb_out, request, telemetryVars, pathVars, host>>
      BY DEF BootPass
    <3> QED
      BY <2>2, <3>1, <3>2, <3>3 DEF BootPass
  <2>3. CASE ~(boot_left > 0)
    BY <2>1, <2>3 DEF BootPass, TypeOK
  <2> QED
    BY <2>2, <2>3
<1>2. TypeOK'
  BY <1>1 DEF TypeOK, Places, telemetryVars, pathVars
<1>3. BootCounted'
  BY <1>1, FirmwareAssumption DEF BootCounted
<1> QED
  BY <1>1, <1>2, <1>3 DEF OneLeasedPath, DriveHasOwner, StopHolds, pathVars

(* Every step, of a service, a cycle or a report, keeps it.                *)
LEMMA NextInvariant == IInv /\ [Next]_vars => IInv'
<1> SUFFICES ASSUME IInv, [Next]_vars PROVE IInv'
  OBVIOUS
<1>1. CASE Next
  BY <1>1, ServiceStep, CycleStep, TickStep, TransportStep, BootStep
  DEF Next, Firmware
<1>2. CASE UNCHANGED vars
  BY <1>2 DEF vars, loopVars, usbVars, telemetryVars, pathVars, IInv, TypeOK,
    OneLeasedPath, DriveHasOwner, StopHolds, BootCounted
<1> QED
  BY <1>1, <1>2

(* IInv is inductive.                                                      *)
THEOREM Invariance == Spec => []IInv
BY InitInvariant, NextInvariant, PTL DEF Spec

(* Type correctness; in particular no lease ever exceeds its limit.        *)
THEOREM TypeCorrect == Spec => []TypeOK
<1>1. IInv => TypeOK
  BY DEF IInv
<1> QED
  BY <1>1, Invariance, PTL

(* One path at a time, each under its own lease.                           *)
THEOREM PathsExclude == Spec => []OneLeasedPath
<1>1. IInv => OneLeasedPath
  BY DEF IInv
<1> QED
  BY <1>1, Invariance, PTL

(* The bridge never drives without a path that answers for it.             *)
THEOREM DriveIsOwned == Spec => []DriveHasOwner
<1>1. IInv => DriveHasOwner
  BY DEF IInv
<1> QED
  BY <1>1, Invariance, PTL

(* A stop holds for as long as its acknowledgement is the latest one, and  *)
(* all the way into the bootloader.                                        *)
THEOREM StopsHold == Spec => []StopHolds
<1>1. IInv => StopHolds
  BY DEF IInv
<1> QED
  BY <1>1, Invariance, PTL

(* A control cycle drives the bridge for the path whose lease has not      *)
(* passed, and leaves it off when there is none.                           *)
THEOREM DriveIsLeased == Spec => LeasedDrive
<1> DEFINE Obeyed ==
      /\ MotorLive => bridge' = Driven("Motor", motor.sequence)
      /\ ServoLive => bridge' = Driven("Servo", servo.sequence)
      /\ ~MotorLive /\ ~ServoLive => bridge' = None
<1>1. ASSUME IInv, Cycle
      PROVE  Obeyed
  <2>1. motor # None => (Passed(motor.left) <=> ~MotorLive)
    BY <1>1, FirmwareAssumption DEF IInv, TypeOK, Leases, Passed, MotorLive
  <2>2. servo # None => (ServoExpires <=> ~ServoLive)
    BY <1>1, FirmwareAssumption
       DEF IInv, TypeOK, OneLeasedPath, ServoLeases, ServoExpires, Passed, ServoLive
  <2>3. CASE MotorLive
    <3>1. motor # None /\ motor' = motor /\ ~ServoLive
      BY <1>1, <2>1, <2>3
         DEF IInv, OneLeasedPath, Cycle, MotorAfterExpiry, MotorLive, ServoLive
    <3> QED
      BY <1>1, <2>3, <3>1 DEF Cycle
  <2>4. CASE ~MotorLive /\ ServoLive
    <3>1. motor' = None /\ servo # None /\ servo' = servo
      BY <1>1, <2>1, <2>2, <2>4 DEF Cycle, MotorAfterExpiry, MotorLive, ServoLive
    <3> QED
      BY <1>1, <2>4, <3>1 DEF Cycle
  <2>5. CASE ~MotorLive /\ ~ServoLive
    <3>1. motor' = None /\ servo' = None
      BY <1>1, <2>1, <2>2, <2>5 DEF Cycle, MotorAfterExpiry, ServoExpires
    <3> QED
      BY <1>1, <2>5, <3>1 DEF Cycle
  <2> QED
    BY <2>3, <2>4, <2>5
<1>2. IInv /\ [Next]_vars => [Cycle => Obeyed]_vars
  BY <1>1
<1> QED
  BY <1>2, Invariance, PTL DEF Spec, LeasedDrive
---------------------------------------------------------------------------
(* Sessions of the host tool.  The numbers a session has used and how many *)
(* of them are left to it.                                                 *)
NumbersLeft ==
  /\ sequence <= IF phase = "Closed" THEN MaxCalls + 1 ELSE MaxCalls - 1 + closing
  /\ phase # "Closed" => session # 0

(* Every number a session takes is one the host can write.                 *)
LEMMA NumbersAreWritten ==
  ASSUME SessionTypeOK, session # 0, sequence <= MaxCalls
  PROVE  Numbered(sequence) \in 1 .. MaxSessions * (MaxCalls + 1)
<1>1. /\ MaxSessions \in Nat \ {0} /\ MaxCalls \in Nat /\ sequence \in Nat \ {0}
      /\ session \in 1 .. MaxSessions
  BY SessionAssumption DEF SessionTypeOK
<1>2. ASSUME NEW m \in Nat, NEW c \in Nat, NEW n \in Nat \ {0}, n <= c
      PROVE  n * m \in Nat /\ n * m <= c * m /\ m * (c + 1) = c * m + m /\ n * m >= m
  <2>1. n * m \in Nat /\ (c - n) * m \in Nat /\ (n - 1) * m \in Nat
    BY <1>2
  <2>2. (c - n) * m = c * m - n * m /\ (n - 1) * m = n * m - m
    BY <1>2
  <2>3. m * (c + 1) = c * m + m
    BY <1>2
  <2> QED
    BY <2>1, <2>2, <2>3
<1>3. /\ sequence * MaxSessions \in Nat
      /\ sequence * MaxSessions <= MaxCalls * MaxSessions
      /\ MaxSessions * (MaxCalls + 1) = MaxCalls * MaxSessions + MaxSessions
      /\ sequence * MaxSessions >= MaxSessions
  BY <1>1, <1>2
<1>4. MaxCalls * MaxSessions \in Nat
  BY <1>1
<1> QED
  BY <1>1, <1>3, <1>4 DEF Numbered

(* What a session asks under such a number is a report.                    *)
LEMMA EncodedIsReport ==
  ASSUME NEW q \in Requests \cup ClosingRequests,
         NEW n \in 1 .. MaxSessions * (MaxCalls + 1)
  PROVE  /\ Encoded(q, n) \in Reports
         /\ Encoded(q, n).sequence = n /\ Encoded(q, n).command = q.command
         /\ Encoded(q, n) # None
<1>1. Encoded(q, n) \in Reports
  BY SessionAssumption
<1> QED
  BY <1>1, FirmwareAssumption DEF Encoded

(* Before the first session nothing has been asked.                        *)
LEMMA SessionTypeInit == SessionInit => IInv /\ SessionTypeOK /\ NumbersLeft
<1> SUFFICES ASSUME SessionInit PROVE IInv /\ SessionTypeOK /\ NumbersLeft
  OBVIOUS
<1>1. IInv
  BY InitInvariant DEF SessionInit
<1>2. endpoint_busy = FALSE
  BY DEF SessionInit, Init
<1>3. hid_in \in Seq(Acks \cup {Telemetry}) /\ Len(hid_in) <= InQueue
  BY SessionAssumption DEF SessionInit
<1>4. 1 \in 1 .. MaxCalls + 1 /\ 0 \in 0 .. MaxSessions /\ 0 \in 0 .. 2
  BY SessionAssumption
<1>5. SessionTypeOK
  BY <1>1, <1>2, <1>3, <1>4 DEF SessionInit, SessionTypeOK, IInv
<1>6. NumbersLeft
  BY SessionAssumption DEF SessionInit, NumbersLeft
<1> QED
  BY <1>1, <1>5, <1>6

(* A step of the device fills the endpoint exactly when it makes it busy.  *)
LEMMA DeviceType ==
  ASSUME IInv, SessionTypeOK, Device, UNCHANGED <<hostVars, hid_in, stopped>>
  PROVE  IInv' /\ SessionTypeOK'
<1> USE DEF Device
<1>1. IInv'
  BY TransportStep, ServiceStep, CycleStep, BootStep
<1>2. /\ endpoint' \in Acks \cup {Telemetry, None}
      /\ endpoint_busy' <=> endpoint' # None
      /\ executed' \in BOOLEAN
  <2>1. CASE TakeReport /\ UNCHANGED <<endpoint, executed>>
    BY <2>1 DEF TakeReport, SessionTypeOK
  <2>2. CASE TaskDone /\ UNCHANGED <<endpoint, executed>>
    BY <2>2 DEF TaskDone, usbVars, SessionTypeOK
  <2>3. CASE /\ Service
             /\ endpoint' = IF endpoint_busy' /\ ~endpoint_busy THEN Flushed ELSE endpoint
             /\ executed' = (executed \/ (request # None /\ request = call))
    <3>1. CASE request = None
      BY <2>3, <3>1, RecordAssumption DEF Service, Flush, Flushed, SessionTypeOK, TypeOK
    <3>2. CASE request # None
      <4>1. AckOf(request, StatusOf(request)) \in Acks
        BY <3>2, AckType DEF SessionTypeOK, TypeOK
      <4> QED
        BY <2>3, <3>2, <4>1, RecordAssumption DEF Service, Flush, Flushed, SessionTypeOK
    <3> QED
      BY <3>1, <3>2
  <2>4. CASE /\ Cycle
             /\ endpoint' = IF endpoint_busy' /\ ~endpoint_busy THEN Telemetry ELSE endpoint
             /\ UNCHANGED executed
    BY <2>4, SessionAssumption DEF Cycle, SessionTypeOK
  <2>5. CASE /\ BootPass
             /\ endpoint' = IF endpoint_busy' /\ ~endpoint_busy THEN ack ELSE endpoint
             /\ UNCHANGED executed
    BY <2>5 DEF BootPass, Flush, SessionTypeOK, TypeOK
  <2> QED
    BY <2>1, <2>2, <2>3, <2>4, <2>5
<1> QED
  BY <1>1, <1>2 DEF SessionTypeOK, hostVars, IInv

(* A command leaves with the next number, or fails with the device gone.   *)
LEMMA BeginType ==
  ASSUME IInv, SessionTypeOK, phase = "Idle", session # 0, sequence <= MaxCalls,
         NEW q \in Requests \cup ClosingRequests, Begin(q)
  PROVE  /\ IInv' /\ sequence' = sequence + 1 /\ session' = session
         /\ phase' \in {"Idle", "Waiting"}
         /\ call' \in Reports \cup {None} /\ (call' # None <=> phase' = "Waiting")
         /\ UNCHANGED <<hid_in, endpoint, endpoint_busy>>
         /\ executed' \in BOOLEAN /\ stopped' \in BOOLEAN
<1>1. Encoded(q, Numbered(sequence)) \in Reports
  BY NumbersAreWritten, EncodedIsReport
<1>2. Encoded(q, Numbered(sequence)) # None
  BY <1>1, FirmwareAssumption
<1>3. CASE pc = "Rom"
  <2>1. IInv'
    BY <1>3, NextInvariant DEF Begin
  <2> QED
    BY <1>3, <2>1 DEF Begin, SessionTypeOK, vars, usbVars
<1>4. CASE pc # "Rom"
  <2>1. Send(Encoded(q, Numbered(sequence)))
    BY <1>4 DEF Begin
  <2>2. IInv'
    BY <1>1, <2>1, TransportStep
  <2> QED
    BY <1>1, <1>2, <1>4, <2>1, <2>2 DEF Begin, SessionTypeOK, Send
<1> QED
  BY <1>3, <1>4

(* Reading, forgetting and polling keep the buffer a buffer of reports.    *)
LEMMA BufferType ==
  ASSUME SessionTypeOK
  PROVE  /\ hid_in # <<>> => /\ Tail(hid_in) \in Seq(Acks \cup {Telemetry})
                             /\ Len(Tail(hid_in)) = Len(hid_in) - 1
                             /\ Head(hid_in) \in Acks \cup {Telemetry}
         /\ \A e \in Acks \cup {Telemetry}, s \in Seq(Acks \cup {Telemetry}) :
              /\ Append(s, e) \in Seq(Acks \cup {Telemetry})
              /\ Len(Append(s, e)) = Len(s) + 1
BY DEF SessionTypeOK

(* The types hold through every step of the device and of the host.        *)
LEMMA SessionTypeNext ==
  IInv /\ SessionTypeOK /\ NumbersLeft /\ [SessionNext]_sessionVars
    => IInv' /\ SessionTypeOK' /\ NumbersLeft'
<1> SUFFICES ASSUME IInv, SessionTypeOK, NumbersLeft, [SessionNext]_sessionVars
             PROVE  IInv' /\ SessionTypeOK' /\ NumbersLeft'
  OBVIOUS
<1>0. /\ MaxSessions \in Nat \ {0} /\ InQueue \in Nat \ {0} /\ MaxCalls \in Nat
      /\ MaxCalls >= 2 /\ sequence \in Nat \ {0} /\ closing \in 0 .. 2
      /\ Len(hid_in) \in Nat
  BY SessionAssumption DEF SessionTypeOK
<1>1. UNCHANGED vars => IInv' /\ TypeOK' /\ endpoint_busy' = endpoint_busy
  BY NextInvariant DEF vars, usbVars, IInv
<1>2. CASE Device /\ UNCHANGED <<hostVars, hid_in, stopped>>
  BY <1>2, DeviceType DEF NumbersLeft, hostVars
<1>3. CASE Tick /\ UNCHANGED <<hostVars, hid_in, endpoint, executed, stopped>>
  <2>1. IInv' /\ TypeOK' /\ endpoint_busy' = endpoint_busy
    BY <1>3, TickStep DEF IInv, Tick, usbVars
  <2> QED
    BY <1>3, <2>1 DEF SessionTypeOK, NumbersLeft, hostVars
<1>4. CASE DriverPoll
  <2>1. IInv' /\ TypeOK' /\ endpoint_busy' = FALSE /\ endpoint_busy
    BY <1>4, TransportStep DEF IInv, DriverPoll, Poll
  <2>2. endpoint \in Acks \cup {Telemetry}
    BY <2>1 DEF SessionTypeOK
  <2>3. hid_in' \in Seq(Acks \cup {Telemetry}) /\ Len(hid_in') <= InQueue
    <3>1. CASE Len(hid_in) < InQueue
      <4>1. hid_in' = Append(hid_in, endpoint)
        BY <1>4, <3>1 DEF DriverPoll
      <4> QED
        BY <1>0, <2>2, <3>1, <4>1, BufferType DEF SessionTypeOK
    <3>2. CASE ~(Len(hid_in) < InQueue)
      <4>1. hid_in' \in {hid_in, Append(Tail(hid_in), endpoint)}
        BY <1>4, <3>2 DEF DriverPoll
      <4>2. hid_in # <<>>
        BY <1>0, <3>2
      <4>3. /\ Append(Tail(hid_in), endpoint) \in Seq(Acks \cup {Telemetry})
            /\ Len(Append(Tail(hid_in), endpoint)) = Len(hid_in)
        BY <1>0, <2>2, <4>2, BufferType
      <4> QED
        BY <4>1, <4>3 DEF SessionTypeOK
    <3> QED
      BY <3>1, <3>2
  <2> QED
    BY <1>4, <2>1, <2>3 DEF SessionTypeOK, NumbersLeft, DriverPoll, hostVars
<1>5. CASE Open
  <2>1. /\ session' \in 1 .. MaxSessions /\ session' \in 0 .. MaxSessions
        /\ sequence' = 1 /\ hid_in' = <<>> /\ phase' = "Idle"
    BY <1>0, <1>5 DEF Open, SessionTypeOK
  <2>2. NumbersLeft'
    BY <1>0, <1>5, <2>1 DEF Open, NumbersLeft
  <2>3. call' = None
    BY <1>5 DEF Open, SessionTypeOK
  <2>4. /\ 1 \in 1 .. MaxCalls + 1 /\ Len(<<>>) <= InQueue
        /\ <<>> \in Seq(Acks \cup {Telemetry})
    BY <1>0
  <2>5. UNCHANGED <<vars, closing, call, endpoint, executed, stopped>>
        /\ bootloader_requested' = FALSE
    BY <1>5 DEF Open
  <2>6. hid_in' \in Seq(Acks \cup {Telemetry}) /\ Len(hid_in') <= InQueue
    BY <2>1, <2>4
  <2>7. IInv' /\ TypeOK' /\ endpoint_busy' = endpoint_busy
    BY <1>1, <2>5
  <2>8. call' \in Reports \cup {None} /\ (call' # None <=> phase' = "Waiting")
    BY <2>1, <2>3
  <2> QED
    BY <2>1, <2>2, <2>4, <2>5, <2>6, <2>7, <2>8 DEF SessionTypeOK
<1>6. CASE Read \/ ReadSample
  <2>1. /\ hid_in' \in Seq(Acks \cup {Telemetry}) /\ Len(hid_in') <= InQueue
        /\ bootloader_requested' \in BOOLEAN /\ stopped' \in BOOLEAN
        /\ call' \in Reports \cup {None} /\ (call' # None <=> phase' = "Waiting")
        /\ phase' \in {phase, "Idle"} /\ (phase' = "Idle" => phase # "Closed")
        /\ UNCHANGED <<vars, closing, sequence, session, endpoint, executed>>
    <3>1. /\ hid_in # <<>> /\ hid_in' = Tail(hid_in)
          /\ UNCHANGED <<vars, closing, sequence, session, endpoint, executed>>
      BY <1>6 DEF Read, ReadSample, hostVars
    <3>2. hid_in' \in Seq(Acks \cup {Telemetry}) /\ Len(hid_in') <= InQueue
      BY <1>0, <3>1, BufferType DEF SessionTypeOK
    <3>3. CASE UNCHANGED <<phase, call, stopped, bootloader_requested>>
      BY <1>6, <3>1, <3>2, <3>3 DEF Read, ReadSample, SessionTypeOK
    <3>4. CASE /\ Read /\ phase' = "Idle" /\ call' = None
               /\ stopped' \in BOOLEAN /\ bootloader_requested' \in BOOLEAN
      BY <3>1, <3>2, <3>4 DEF Read
    <3>5. Read => \/ UNCHANGED <<phase, call, stopped, bootloader_requested>>
                  \/ /\ phase' = "Idle" /\ call' = None
                     /\ stopped' \in BOOLEAN /\ bootloader_requested' \in BOOLEAN
      BY Zenon DEF Read, SessionTypeOK
    <3> QED
      BY <1>6, <3>3, <3>4, <3>5 DEF ReadSample, hostVars
  <2>2. NumbersLeft'
    BY <2>1 DEF NumbersLeft
  <2> QED
    BY <1>1, <2>1, <2>2 DEF SessionTypeOK
<1>7. CASE GiveUp
  BY <1>1, <1>7 DEF GiveUp, SessionTypeOK, NumbersLeft
<1>8. CASE Killed
  <2>1. NumbersLeft'
    BY <1>0, <1>8 DEF Killed, NumbersLeft
  <2> QED
    BY <1>0, <1>1, <1>8, <2>1 DEF Killed, SessionTypeOK
<1>9. ASSUME NEW q \in Requests, Call(q)
      PROVE  IInv' /\ SessionTypeOK' /\ NumbersLeft'
  <2>1. /\ phase = "Idle" /\ closing = 0 /\ closing' = 0 /\ sequence <= MaxCalls - 2
        /\ Begin(q) /\ UNCHANGED bootloader_requested
    BY <1>9 DEF Call
  <2>2. session # 0 /\ sequence <= MaxCalls
    BY <1>0, <2>1 DEF NumbersLeft
  <2>3. /\ IInv' /\ sequence' = sequence + 1 /\ session' = session
        /\ phase' \in {"Idle", "Waiting"}
        /\ call' \in Reports \cup {None} /\ (call' # None <=> phase' = "Waiting")
        /\ UNCHANGED <<hid_in, endpoint, endpoint_busy>>
        /\ executed' \in BOOLEAN /\ stopped' \in BOOLEAN
    BY <2>1, <2>2, BeginType
  <2>4. NumbersLeft' /\ sequence' \in 1 .. MaxCalls + 1
    BY <1>0, <2>1, <2>2, <2>3 DEF NumbersLeft
  <2> QED
    BY <2>1, <2>3, <2>4 DEF SessionTypeOK, IInv
<1>10. CASE CloseStep
  <2>1. CASE ~bootloader_requested /\ closing < 2 /\ closing' = closing + 1
             /\ Begin(Plain(IF closing = 0 THEN "SafeOff" ELSE "TelemetryOff"))
             /\ UNCHANGED bootloader_requested
    <3>1. phase = "Idle" /\ session # 0 /\ sequence <= MaxCalls
      BY <1>0, <1>10, <2>1 DEF CloseStep, NumbersLeft
    <3>2. Plain(IF closing = 0 THEN "SafeOff" ELSE "TelemetryOff")
            \in Requests \cup ClosingRequests
      BY DEF ClosingRequests
    <3>3. /\ IInv' /\ sequence' = sequence + 1 /\ session' = session
          /\ phase' \in {"Idle", "Waiting"}
          /\ call' \in Reports \cup {None} /\ (call' # None <=> phase' = "Waiting")
          /\ UNCHANGED <<hid_in, endpoint, endpoint_busy>>
          /\ executed' \in BOOLEAN /\ stopped' \in BOOLEAN
      BY <2>1, <3>1, <3>2, BeginType
    <3>4. NumbersLeft' /\ sequence' \in 1 .. MaxCalls + 1 /\ closing' \in 0 .. 2
      BY <1>0, <2>1, <3>1, <3>3 DEF NumbersLeft
    <3> QED
      BY <2>1, <3>3, <3>4 DEF SessionTypeOK, IInv
  <2>2. CASE /\ phase' = "Closed" /\ closing' = 0 /\ hid_in' = <<>>
             /\ UNCHANGED <<vars, call, sequence, bootloader_requested, session,
                            endpoint, executed, stopped>>
    <3>1. NumbersLeft' /\ call = None
      BY <1>0, <1>10, <2>2 DEF CloseStep, NumbersLeft, SessionTypeOK
    <3>2. 0 \in 0 .. 2 /\ <<>> \in Seq(Acks \cup {Telemetry}) /\ Len(<<>>) <= InQueue
      BY <1>0
    <3> QED
      BY <1>1, <2>2, <3>1, <3>2 DEF SessionTypeOK
  <2> QED
    BY <1>10, <2>1, <2>2 DEF CloseStep
<1>11. CASE UNCHANGED sessionVars
  <2>1. UNCHANGED <<vars, hostVars, hid_in, endpoint, executed, stopped>>
    BY <1>11 DEF sessionVars
  <2> QED
    BY <1>1, <2>1 DEF SessionTypeOK, NumbersLeft, hostVars
<1> QED
  BY <1>2, <1>3, <1>4, <1>5, <1>6, <1>7, <1>8, <1>9, <1>10, <1>11
  DEF SessionNext, Session

(* Whatever the tool and the device do to each other, every variable has   *)
(* its type, a call is outstanding exactly while the session waits, and    *)
(* no session runs out of numbers.                                         *)
THEOREM SessionTypes == SessionSpec => []SessionTypeOK
<1>1. SessionSpec => [](IInv /\ SessionTypeOK /\ NumbersLeft)
  BY SessionTypeInit, SessionTypeNext, PTL DEF SessionSpec
<1> QED
  BY <1>1, PTL

(* The acknowledgements between the firmware and the session.              *)
Held ==
  ({hid_in[i] : i \in 1 .. Len(hid_in)} \cup {endpoint, ack}) \ {Telemetry, None}

(* On the way through the device the numbers keep their order: an          *)
(* acknowledgement is older than the request in the slot, that one older   *)
(* than the reports behind it, and all of them older than the next number. *)
InOrder ==
  /\ \A i \in 1 .. Len(usb_out) : usb_out[i].sequence < sequence
  /\ \A i, j \in 1 .. Len(usb_out) : i < j => usb_out[i].sequence < usb_out[j].sequence
  /\ request # None =>
       /\ request.sequence < sequence
       /\ \A i \in 1 .. Len(usb_out) : request.sequence < usb_out[i].sequence
  /\ \A a \in Held :
       /\ a.sequence < sequence
       /\ request # None => a.sequence < request.sequence
       /\ \A i \in 1 .. Len(usb_out) : a.sequence < usb_out[i].sequence

(* The outstanding call has the latest number, which no other report has;  *)
(* until it is executed every acknowledgement is older, and from then on   *)
(* nothing is left to execute, nor to drive if the call was a stop.        *)
CallIsLatest ==
  call # None =>
    /\ call.sequence = sequence - 1
    /\ \A i \in 1 .. Len(usb_out) :
         usb_out[i].sequence = call.sequence => usb_out[i] = call
    /\ request # None /\ request.sequence = call.sequence => request = call
    /\ ~executed => \A a \in Held : a.sequence < call.sequence
    /\ executed => usb_out = <<>> /\ request = None
    /\ executed /\ call.command \in Stops => Quiet

NothingBefore ==
  session = 0 =>
    phase = "Closed" /\ call = None /\ usb_out = <<>> /\ request = None /\ Held = {}

SessionInv ==
  /\ IInv /\ SessionTypeOK /\ NumbersLeft
  /\ InOrder /\ CallIsLatest /\ NothingBefore /\ StopReturnedHolds

(* Numbers are numbers.                                                    *)
LEMMA NumbersAreInt ==
  ASSUME SessionTypeOK
  PROVE  /\ sequence \in Int /\ Len(usb_out) \in Nat /\ Len(hid_in) \in Nat
         /\ \A i \in 1 .. Len(usb_out) : usb_out[i] \in Reports /\ usb_out[i].sequence \in Int
         /\ request # None => request \in Reports /\ request.sequence \in Int
         /\ call # None => call \in Reports /\ call.sequence \in Int
         /\ \A a \in Held : a \in Acks /\ a.sequence \in Int
<1>1. \A r \in Reports : r.sequence \in Int
  BY FirmwareAssumption DEF Report
<1>2. \A a \in Acks : a.sequence \in Int
  BY DEF Acks
<1>3. /\ \A i \in 1 .. Len(usb_out) : usb_out[i] \in Reports
      /\ \A i \in 1 .. Len(hid_in) : hid_in[i] \in Acks \cup {Telemetry}
      /\ Len(usb_out) \in Nat /\ Len(hid_in) \in Nat
  BY DEF SessionTypeOK, TypeOK
<1>4. Held \subseteq Acks
  BY <1>3 DEF Held, SessionTypeOK, TypeOK
<1>5. sequence \in Int
  BY SessionAssumption DEF SessionTypeOK
<1> QED
  BY <1>1, <1>2, <1>3, <1>4, <1>5 DEF SessionTypeOK, TypeOK

(* A device with nothing driving and nothing to drive stays that way: its  *)
(* own steps, time and the driver's polling start nothing.                 *)
LEMMA QuietStep ==
  ASSUME IInv, Quiet, Firmware \/ Tick \/ Poll
  PROVE  Quiet'
<1> USE DEF Quiet
<1>1. CASE TakeReport
  <2>1. usb_out \in Seq(Reports) /\ usb_out # <<>>
    BY <1>1 DEF IInv, TypeOK, TakeReport
  <2>2. /\ Head(usb_out) = usb_out[1] /\ 1 \in 1 .. Len(usb_out)
        /\ Len(Tail(usb_out)) = Len(usb_out) - 1 /\ Len(usb_out) \in Nat
        /\ \A i \in 1 .. Len(Tail(usb_out)) :
             Tail(usb_out)[i] = usb_out[i + 1] /\ i + 1 \in 1 .. Len(usb_out)
    BY <2>1
  <2>3. \A i \in 1 .. Len(usb_out') : usb_out'[i].command \notin DriveCommands
    BY <1>1, <2>2 DEF TakeReport
  <2>4. request' # None => request'.command \notin DriveCommands
    BY <1>1, <2>2 DEF TakeReport
  <2> QED
    BY <1>1, <2>3, <2>4 DEF TakeReport, pathVars
<1>2. CASE Service
  <2>1. bridge' = None /\ motor' = None /\ servo' = None
    <3>1. CASE request = None
      BY <1>2, <3>1 DEF Service, pathVars
    <3>2. CASE request # None
      <4>1. Effect(request) /\ request.command \notin DriveCommands
        BY <1>2, <3>2 DEF Service
      <4> QED
        BY <4>1 DEF Effect, StopMotorPaths, DriveCommands, pathVars
    <3> QED
      BY <3>1, <3>2
  <2> QED
    BY <1>2, <2>1 DEF Service
<1>3. CASE Cycle
  BY <1>3 DEF Cycle, MotorAfterExpiry
<1>4. CASE TaskDone \/ BootPass \/ Poll
  BY <1>4 DEF TaskDone, BootPass, Poll, usbVars, pathVars
<1>5. CASE Tick
  BY <1>5 DEF Tick, usbVars
<1> QED
  BY <1>1, <1>2, <1>3, <1>4, <1>5 DEF Firmware

(* Steps that bring nothing new on the way: the order of what stays holds. *)
LEMMA LosingStep ==
  ASSUME SessionTypeOK, InOrder, CallIsLatest, NothingBefore,
         UNCHANGED <<usb_out, request, sequence, session, executed>>,
         call' \in {call, None}, Held' \subseteq Held, Quiet => Quiet',
         session = 0 => phase' = phase
  PROVE  InOrder' /\ CallIsLatest' /\ NothingBefore'
<1>1. InOrder'
  BY DEF InOrder
<1>2. CallIsLatest'
  <2>1. CASE call' = None
    BY <2>1 DEF CallIsLatest
  <2>2. CASE call' = call /\ call # None
    BY <2>2 DEF CallIsLatest
  <2> QED
    BY <2>1, <2>2
<1>3. NothingBefore'
  BY DEF NothingBefore
<1> QED
  BY <1>1, <1>2, <1>3

(* usb::task takes the oldest report, or drops it.                         *)
LEMMA TakeKeepsOrder ==
  ASSUME SessionInv, TakeReport,
         UNCHANGED <<hostVars, hid_in, stopped, endpoint, executed>>
  PROVE  InOrder' /\ CallIsLatest' /\ NothingBefore'
<1> USE DEF SessionInv
<1>1. /\ usb_out \in Seq(Reports) /\ usb_out # <<>>
      /\ usb_out' = Tail(usb_out) /\ request' \in {request, Head(usb_out)}
      /\ request # None => request' = request
      /\ UNCHANGED <<ack, call, sequence, session, phase, hid_in, endpoint, executed>>
  BY DEF TakeReport, Accepted, IInv, TypeOK, hostVars
<1>2. /\ Head(usb_out) = usb_out[1] /\ 1 \in 1 .. Len(usb_out)
      /\ Len(usb_out') \in Nat
      /\ \A i \in 1 .. Len(usb_out') :
           usb_out'[i] = usb_out[i + 1] /\ i + 1 \in 1 .. Len(usb_out) /\ 1 < i + 1
      /\ \A i, j \in 1 .. Len(usb_out') : i < j => i + 1 < j + 1
  BY <1>1
<1>3. Held' = Held
  BY <1>1 DEF Held
<1>4. /\ \A i \in 1 .. Len(usb_out') : usb_out'[i].sequence < sequence'
      /\ \A i, j \in 1 .. Len(usb_out') :
           i < j => usb_out'[i].sequence < usb_out'[j].sequence
  BY <1>1, <1>2 DEF InOrder
<1>5. request' # None =>
        /\ request'.sequence < sequence'
        /\ \A i \in 1 .. Len(usb_out') : request'.sequence < usb_out'[i].sequence
  BY <1>1, <1>2 DEF InOrder
<1>6. \A a \in Held' :
        /\ a.sequence < sequence'
        /\ request' # None => a.sequence < request'.sequence
        /\ \A i \in 1 .. Len(usb_out') : a.sequence < usb_out'[i].sequence
  BY <1>1, <1>2, <1>3 DEF InOrder
<1>7. InOrder'
  BY <1>4, <1>5, <1>6 DEF InOrder
<1>8. CallIsLatest'
  <2>1. call # None => ~executed
    BY <1>1 DEF CallIsLatest
  <2> QED
    BY <1>1, <1>2, <1>3, <2>1 DEF CallIsLatest
<1>9. NothingBefore'
  BY <1>1 DEF NothingBefore
<1> QED
  BY <1>7, <1>8, <1>9

(* A request is executed, and its acknowledgement is the newest.           *)
LEMMA ServiceKeepsOrder ==
  ASSUME SessionInv, Service, UNCHANGED <<hostVars, hid_in, stopped>>,
         endpoint' = IF endpoint_busy' /\ ~endpoint_busy THEN Flushed ELSE endpoint,
         executed' = (executed \/ (request # None /\ request = call))
  PROVE  InOrder' /\ CallIsLatest' /\ NothingBefore'
<1> USE DEF SessionInv
<1>0. request' = None /\ UNCHANGED <<usb_out, hid_in, call, sequence, session, phase>>
  BY DEF Service, hostVars
<1>1. CASE request = None
  <2>1. Held' \subseteq Held
    BY <1>0, <1>1 DEF Held, Service, Flush, Flushed
  <2>2. executed' = executed
    BY <1>1 DEF SessionTypeOK
  <2>3. Quiet => Quiet'
    BY QuietStep DEF Firmware
  <2> QED
    BY <1>0, <1>1, <2>1, <2>2, <2>3, LosingStep
<1>2. CASE request # None
  <2> DEFINE made == AckOf(request, StatusOf(request))
  <2>1. request \in Reports /\ request.sequence \in Int /\ sequence \in Int
        /\ \A i \in 1 .. Len(usb_out) : usb_out[i].sequence \in Int
    BY <1>2, NumbersAreInt
  <2>2. made.sequence = request.sequence
    BY DEF AckOf
  <2>3. Held' \subseteq Held \cup {made}
    <3>1. ack' \in {None, made} /\ endpoint' \in {endpoint, made}
      BY <1>2 DEF Service, Flush, Flushed
    <3> QED
      BY <1>0, <3>1 DEF Held
  <2>4. InOrder'
    BY <1>0, <1>2, <2>2, <2>3 DEF InOrder
  <2>5. CallIsLatest'
    <3> SUFFICES ASSUME call # None PROVE CallIsLatest'
      BY <1>0 DEF CallIsLatest
    <3>1. call.sequence = sequence - 1 /\ ~executed
      BY <1>2 DEF CallIsLatest
    <3>2. CASE request = call
      <4>1. usb_out = <<>>
        <5>1. Len(usb_out) \in Nat /\ usb_out \in Seq(Reports)
          BY NumbersAreInt DEF IInv, TypeOK
        <5>2. ASSUME 1 \in 1 .. Len(usb_out) PROVE FALSE
          BY <1>2, <2>1, <3>1, <3>2, <5>2 DEF InOrder
        <5> QED
          BY <5>1, <5>2
      <4>2. executed'
        BY <1>2, <3>2
      <4>3. call.command \in Stops => Quiet'
        <5>1. boot_left = None /\ Effect(request)
          BY <1>2 DEF Service, IInv, BootCounted
        <5>2. call.command \in Stops => bridge' = None /\ motor' = None /\ servo' = None
          BY <2>1, <3>2, <5>1, EffectStep DEF Stops
        <5>3. Len(usb_out') = 0
          BY <1>0, <4>1
        <5> QED
          BY <1>0, <5>2, <5>3 DEF Quiet
      <4> QED
        BY <1>0, <3>1, <4>1, <4>2, <4>3 DEF CallIsLatest
    <3>3. CASE request # call
      <4>1. request.sequence < call.sequence
        BY <1>2, <2>1, <3>1, <3>3 DEF InOrder, CallIsLatest
      <4>2. ~executed'
        BY <3>1, <3>3
      <4>3. \A a \in Held' : a.sequence < call.sequence
        BY <1>2, <2>2, <2>3, <3>1, <4>1 DEF CallIsLatest
      <4> QED
        BY <1>0, <3>1, <4>2, <4>3 DEF CallIsLatest
    <3> QED
      BY <3>2, <3>3
  <2>6. NothingBefore'
    BY <1>0, <1>2 DEF NothingBefore
  <2> QED
    BY <2>4, <2>5, <2>6
<1> QED
  BY <1>1, <1>2

(* With one session a model number is the number on the wire.              *)
LEMMA OneSessionNumbers ==
  ASSUME MaxSessions = 1, SessionTypeOK, session # 0
  PROVE  /\ Numbered(sequence) = sequence
         /\ \A n \in Int : Wire(n) = n
BY SessionAssumption DEF SessionTypeOK, Numbered, Wire

(* A new command has the latest number and goes behind all others.         *)
LEMMA BeginKeepsOrder ==
  ASSUME MaxSessions = 1, SessionInv, phase = "Idle", session # 0,
         sequence <= MaxCalls, NEW q \in Requests \cup ClosingRequests, Begin(q)
  PROVE  InOrder' /\ CallIsLatest' /\ NothingBefore' /\ StopReturnedHolds'
<1> USE DEF SessionInv
<1>0. /\ call = None /\ sequence' = sequence + 1 /\ session' = session
      /\ UNCHANGED <<hid_in, endpoint>> /\ sequence \in Int
      /\ usb_out \in Seq(Reports) /\ Len(usb_out) \in Nat
  BY NumbersAreInt DEF Begin, SessionTypeOK, IInv, TypeOK
<1>1. NothingBefore'
  BY <1>0 DEF NothingBefore
<1>2. \A a \in Held : a.sequence \in Int
  BY NumbersAreInt
<1>3. /\ \A i \in 1 .. Len(usb_out) : usb_out[i] \in Reports /\ usb_out[i].sequence \in Int
      /\ request # None => request.sequence \in Int
  BY NumbersAreInt
<1>4. CASE pc = "Rom"
  <2>1. UNCHANGED <<vars, call, stopped>>
    BY <1>4 DEF Begin
  <2>2. UNCHANGED <<usb_out, request, ack, bridge, motor, servo>>
    BY <2>1 DEF vars, usbVars, pathVars
  <2>3. Held' = Held
    BY <1>0, <2>2 DEF Held
  <2>4. InOrder'
    BY <1>0, <1>2, <1>3, <2>2, <2>3 DEF InOrder
  <2>5. CallIsLatest'
    BY <1>0, <2>1 DEF CallIsLatest
  <2>6. StopReturnedHolds'
    BY <2>1, <2>2 DEF StopReturnedHolds, Quiet
  <2> QED
    BY <1>1, <2>4, <2>5, <2>6
<1>5. CASE pc # "Rom"
  <2> DEFINE r == Encoded(q, Numbered(sequence))
  <2>1. /\ r \in Reports /\ r.sequence = sequence /\ r.command = q.command /\ r # None
    BY NumbersAreWritten, EncodedIsReport, OneSessionNumbers
  <2>2. /\ Send(r) /\ call' = r /\ executed' = FALSE
        /\ stopped' = (stopped /\ q.command \notin DriveCommands)
    BY <1>5 DEF Begin
  <2> HIDE DEF r
  <2>3. /\ usb_out' = Append(usb_out, r)
        /\ UNCHANGED <<request, ack, bridge, motor, servo>>
    BY <2>2 DEF Send, pathVars
  <2>4. /\ Len(usb_out') = Len(usb_out) + 1
        /\ \A i \in 1 .. Len(usb_out') :
             IF i = Len(usb_out') THEN usb_out'[i] = r
             ELSE i \in 1 .. Len(usb_out) /\ usb_out'[i] = usb_out[i]
    BY <1>0, <2>1, <2>3
  <2>5. Held' = Held
    BY <1>0, <2>3 DEF Held
  <2>6. /\ \A i \in 1 .. Len(usb_out') : usb_out'[i].sequence < sequence'
        /\ \A i, j \in 1 .. Len(usb_out') :
             i < j => usb_out'[i].sequence < usb_out'[j].sequence
    BY <1>0, <1>3, <2>1, <2>4 DEF InOrder
  <2>7. request' # None =>
          /\ request'.sequence < sequence'
          /\ \A i \in 1 .. Len(usb_out') : request'.sequence < usb_out'[i].sequence
    BY <1>0, <1>3, <2>1, <2>3, <2>4 DEF InOrder
  <2>8. \A a \in Held' :
          /\ a.sequence < sequence'
          /\ request' # None => a.sequence < request'.sequence
          /\ \A i \in 1 .. Len(usb_out') : a.sequence < usb_out'[i].sequence
    BY <1>0, <1>2, <2>1, <2>3, <2>4, <2>5 DEF InOrder
  <2>9. InOrder'
    BY <2>6, <2>7, <2>8 DEF InOrder
  <2>10. CallIsLatest'
    BY <1>0, <1>2, <1>3, <2>1, <2>2, <2>3, <2>4, <2>5 DEF InOrder, CallIsLatest
  <2>11. StopReturnedHolds'
    BY <2>1, <2>2, <2>3, <2>4 DEF StopReturnedHolds, Quiet
  <2> QED
    BY <1>1, <2>9, <2>10, <2>11
<1> QED
  BY <1>4, <1>5

(* The device's other steps only pass acknowledgements along.              *)
LEMMA DeviceKeepsOrder ==
  ASSUME SessionInv, Device, UNCHANGED <<hostVars, hid_in, stopped>>
  PROVE  InOrder' /\ CallIsLatest' /\ NothingBefore' /\ StopReturnedHolds'
<1> USE DEF SessionInv
<1>1. Quiet => Quiet'
  BY QuietStep DEF Device, Firmware
<1>2. StopReturnedHolds'
  BY <1>1 DEF StopReturnedHolds
<1>3. CASE TakeReport /\ UNCHANGED <<endpoint, executed>>
  BY <1>2, <1>3, TakeKeepsOrder
<1>4. CASE /\ Service
           /\ endpoint' = IF endpoint_busy' /\ ~endpoint_busy THEN Flushed ELSE endpoint
           /\ executed' = (executed \/ (request # None /\ request = call))
  BY <1>2, <1>4, ServiceKeepsOrder
<1>5. CASE \/ TaskDone /\ UNCHANGED <<endpoint, executed>>
           \/ /\ Cycle
              /\ endpoint' = IF endpoint_busy' /\ ~endpoint_busy THEN Telemetry ELSE endpoint
              /\ UNCHANGED executed
           \/ /\ BootPass
              /\ endpoint' = IF endpoint_busy' /\ ~endpoint_busy THEN ack ELSE endpoint
              /\ UNCHANGED executed
  <2>1. UNCHANGED <<usb_out, request, sequence, session, executed, call, phase, hid_in>>
    BY <1>5 DEF TaskDone, Cycle, BootPass, usbVars, hostVars
  <2>2. ack' \in {ack, None} /\ endpoint' \in {endpoint, Telemetry, ack}
    BY <1>5 DEF TaskDone, Cycle, BootPass, Flush, usbVars
  <2>3. Held' \subseteq Held
    BY <2>1, <2>2 DEF Held
  <2> QED
    BY <1>1, <1>2, <2>1, <2>3, LosingStep
<1> QED
  BY <1>3, <1>4, <1>5 DEF Device

(* The driver moves the endpoint's report into its buffer, or loses one.   *)
LEMMA PollKeepsHeld ==
  ASSUME SessionInv, DriverPoll
  PROVE  Held' \subseteq Held
<1> USE DEF SessionInv
<1>1. /\ hid_in \in Seq(Acks \cup {Telemetry}) /\ Len(hid_in) \in Nat
      /\ endpoint' = None /\ ack' = ack
  BY NumbersAreInt DEF DriverPoll, Poll, SessionTypeOK
<1>2. endpoint \in Acks \cup {Telemetry}
  BY DEF DriverPoll, Poll, SessionTypeOK
<1>3. InQueue \in Nat \ {0}
  BY SessionAssumption
<1>4. \A i \in 1 .. Len(hid_in') : hid_in'[i] \in {hid_in[j] : j \in 1 .. Len(hid_in)} \cup {endpoint}
  <2>1. CASE hid_in' = hid_in
    BY <2>1
  <2>2. CASE hid_in' = Append(hid_in, endpoint)
    BY <1>1, <1>2, <2>2
  <2>3. CASE hid_in' = Append(Tail(hid_in), endpoint) /\ ~(Len(hid_in) < InQueue)
    <3>1. hid_in # <<>>
      BY <1>1, <1>3, <2>3
    <3>2. /\ Tail(hid_in) \in Seq(Acks \cup {Telemetry})
          /\ \A i \in 1 .. Len(Tail(hid_in)) :
               i + 1 \in 1 .. Len(hid_in) /\ Tail(hid_in)[i] = hid_in[i + 1]
      BY <1>1, <3>1
    <3> QED
      BY <1>2, <2>3, <3>2
  <2> QED
    BY <2>1, <2>2, <2>3 DEF DriverPoll
<1> QED
  BY <1>1, <1>4 DEF Held

(* What ends a wait of the only session is the answer to its call.         *)
LEMMA AnswerIsOwn ==
  ASSUME MaxSessions = 1, SessionInv, Read, phase' = "Idle"
  PROVE  /\ executed /\ Head(hid_in).sequence = call.sequence
         /\ Head(hid_in) \in Held /\ Answers(Head(hid_in))
<1> USE DEF SessionInv
<1>1. phase = "Waiting" /\ hid_in # <<>> /\ Answers(Head(hid_in))
  BY DEF Read
<1>2. hid_in \in Seq(Acks \cup {Telemetry}) /\ None \notin Acks
  BY RecordAssumption DEF SessionTypeOK
<1>3. Head(hid_in) = hid_in[1] /\ 1 \in 1 .. Len(hid_in) /\ hid_in[1] \in Acks \cup {Telemetry}
  BY <1>1, <1>2
<1>4. Head(hid_in) \in Held
  BY <1>1, <1>2, <1>3, SessionAssumption DEF Held, Answers
<1>5. call # None /\ call.sequence \in Int /\ Head(hid_in).sequence \in Int
  BY <1>1, <1>4, NumbersAreInt DEF SessionTypeOK
<1>6. Head(hid_in).sequence = call.sequence
  BY <1>1, <1>5, OneSessionNumbers DEF Answers, NumbersLeft
<1>7. executed
  BY <1>4, <1>5, <1>6 DEF CallIsLatest
<1> QED
  BY <1>1, <1>4, <1>6, <1>7

(* The session's other steps only forget.                                  *)
LEMMA HostKeepsOrder ==
  ASSUME MaxSessions = 1, SessionInv,
         \/ Read \/ GiveUp \/ ReadSample \/ Killed
         \/ /\ phase = "Idle" /\ phase' = "Closed" /\ hid_in' = <<>>
            /\ UNCHANGED <<vars, call, sequence, session, endpoint, executed, stopped>>
  PROVE  InOrder' /\ CallIsLatest' /\ NothingBefore' /\ StopReturnedHolds'
<1> USE DEF SessionInv
<1>1. /\ UNCHANGED <<vars, sequence, session, endpoint, executed>>
      /\ hid_in' \in {hid_in, <<>>} \/ (hid_in # <<>> /\ hid_in' = Tail(hid_in))
      /\ call' \in {call, None} /\ phase # "Closed"
  BY DEF Read, GiveUp, ReadSample, Killed, hostVars
<1>2. UNCHANGED <<usb_out, request, ack, bridge, motor, servo>>
  BY <1>1 DEF vars, usbVars, pathVars
<1>3. hid_in \in Seq(Acks \cup {Telemetry})
  BY DEF SessionTypeOK
<1>4. \A i \in 1 .. Len(hid_in') : hid_in'[i] \in {hid_in[j] : j \in 1 .. Len(hid_in)}
  <2>1. CASE hid_in' = hid_in \/ hid_in' = <<>>
    BY <2>1
  <2>2. CASE hid_in # <<>> /\ hid_in' = Tail(hid_in)
    <3>1. \A i \in 1 .. Len(Tail(hid_in)) :
            i + 1 \in 1 .. Len(hid_in) /\ Tail(hid_in)[i] = hid_in[i + 1]
      BY <1>3, <2>2
    <3> QED
      BY <2>2, <3>1
  <2> QED
    BY <1>1, <2>1, <2>2
<1>5. Held' \subseteq Held
  BY <1>1, <1>2, <1>4 DEF Held
<1>6. Quiet => Quiet'
  BY <1>2 DEF Quiet
<1>7. InOrder' /\ CallIsLatest' /\ NothingBefore'
  BY <1>1, <1>2, <1>5, <1>6, LosingStep DEF NumbersLeft
<1>8. StopReturnedHolds'
  <2>1. CASE stopped' = stopped
    BY <1>6, <2>1 DEF StopReturnedHolds
  <2>2. CASE Read /\ phase' = "Idle"
    <3>1. executed /\ Answers(Head(hid_in))
      BY <2>2, AnswerIsOwn
    <3>2. call # None
      BY <2>2 DEF Read, SessionTypeOK
    <3>3. stopped' => stopped \/ call.command \in Stops
      BY <2>2, <3>1 DEF Read, Accepts
    <3> QED
      BY <1>6, <3>1, <3>2, <3>3 DEF StopReturnedHolds, CallIsLatest
  <2>3. stopped' = stopped \/ (Read /\ phase' = "Idle")
    BY DEF Read, GiveUp, ReadSample, Killed
  <2> QED
    BY <2>1, <2>2, <2>3
<1> QED
  BY <1>7, <1>8

(* Every step of the tool and of the device keeps the numbers in order.    *)
LEMMA SessionInvNext ==
  ASSUME MaxSessions = 1
  PROVE  SessionInv /\ [SessionNext]_sessionVars => SessionInv'
<1> SUFFICES ASSUME SessionInv, [SessionNext]_sessionVars PROVE SessionInv'
  OBVIOUS
<1> USE DEF SessionInv
<1>0. IInv' /\ SessionTypeOK' /\ NumbersLeft'
  BY SessionTypeNext
<1>1. CASE Device /\ UNCHANGED <<hostVars, hid_in, stopped>>
  BY <1>0, <1>1, DeviceKeepsOrder
<1>2. CASE Tick /\ UNCHANGED <<hostVars, hid_in, endpoint, executed, stopped>>
  <2>1. Quiet => Quiet'
    BY <1>2, QuietStep
  <2>2. UNCHANGED <<usb_out, request, ack, sequence, session, executed, call, phase>>
    BY <1>2 DEF Tick, usbVars, hostVars
  <2>3. Held' = Held
    BY <1>2, <2>2 DEF Held
  <2> QED
    BY <1>0, <1>2, <2>1, <2>2, <2>3, LosingStep DEF StopReturnedHolds
<1>3. CASE DriverPoll
  <2>1. Quiet => Quiet'
    BY <1>3, QuietStep DEF DriverPoll
  <2>2. UNCHANGED <<usb_out, request, sequence, session, executed, call, phase, stopped>>
    BY <1>3 DEF DriverPoll, Poll, hostVars
  <2> QED
    BY <1>0, <1>3, <2>1, <2>2, PollKeepsHeld, LosingStep DEF StopReturnedHolds
<1>4. CASE Open
  <2>1. /\ session = 0 /\ session' = 1 /\ sequence' = 1 /\ hid_in' = <<>>
        /\ UNCHANGED <<vars, call, endpoint, executed, stopped>>
    BY <1>4 DEF Open, SessionTypeOK
  <2>2. UNCHANGED <<usb_out, request, ack, bridge, motor, servo>>
    BY <2>1 DEF vars, usbVars, pathVars
  <2>3. call = None /\ usb_out = <<>> /\ request = None /\ Held = {}
    BY <2>1 DEF NothingBefore
  <2>4. Held' = {}
    BY <2>1, <2>2, <2>3 DEF Held
  <2>5. InOrder' /\ CallIsLatest' /\ NothingBefore'
    BY <2>1, <2>2, <2>3, <2>4 DEF InOrder, CallIsLatest, NothingBefore
  <2> QED
    BY <1>0, <2>1, <2>2, <2>5 DEF StopReturnedHolds, Quiet
<1>5. CASE Read \/ GiveUp \/ ReadSample \/ Killed
  BY <1>0, <1>5, HostKeepsOrder
<1>6. ASSUME NEW q \in Requests, Call(q) PROVE SessionInv'
  <2>1. phase = "Idle" /\ session # 0 /\ sequence <= MaxCalls /\ Begin(q)
    BY <1>6, SessionAssumption DEF Call, NumbersLeft, SessionTypeOK
  <2> QED
    BY <1>0, <2>1, BeginKeepsOrder
<1>7. CASE CloseStep
  <2>1. CASE /\ closing < 2
             /\ Begin(Plain(IF closing = 0 THEN "SafeOff" ELSE "TelemetryOff"))
    <3>1. phase = "Idle" /\ session # 0 /\ sequence <= MaxCalls
      BY <1>7, <2>1, SessionAssumption DEF CloseStep, NumbersLeft, SessionTypeOK
    <3>2. Plain(IF closing = 0 THEN "SafeOff" ELSE "TelemetryOff")
            \in Requests \cup ClosingRequests
      BY DEF ClosingRequests
    <3> QED
      BY <1>0, <2>1, <3>1, <3>2, BeginKeepsOrder
  <2>2. CASE /\ phase = "Idle" /\ phase' = "Closed" /\ hid_in' = <<>>
             /\ UNCHANGED <<vars, call, sequence, session, endpoint, executed, stopped>>
    BY <1>0, <2>2, HostKeepsOrder
  <2> QED
    BY <1>7, <2>1, <2>2 DEF CloseStep
<1>8. CASE UNCHANGED sessionVars
  <2>1. /\ UNCHANGED <<usb_out, request, ack, bridge, motor, servo, stopped>>
        /\ UNCHANGED <<hid_in, endpoint, sequence, session, executed, call, phase>>
    BY <1>8 DEF sessionVars, vars, hostVars, usbVars, pathVars
  <2>2. Held' = Held /\ (Quiet => Quiet')
    BY <2>1 DEF Held, Quiet
  <2> QED
    BY <1>0, <2>1, <2>2, LosingStep DEF StopReturnedHolds
<1> QED
  BY <1>1, <1>2, <1>3, <1>4, <1>5, <1>6, <1>7, <1>8 DEF SessionNext, Session

(* Before the first session there is nothing to keep in order.             *)
LEMMA SessionInvInit == SessionInit => SessionInv
<1> SUFFICES ASSUME SessionInit PROVE SessionInv
  OBVIOUS
<1>1. IInv /\ SessionTypeOK /\ NumbersLeft
  BY SessionTypeInit
<1>2. /\ hid_in = <<>> /\ usb_out = <<>> /\ endpoint = None /\ ack = None
      /\ request = None /\ call = None /\ phase = "Closed" /\ stopped = FALSE
  BY DEF SessionInit, Init
<1>3. Held = {}
  BY <1>2 DEF Held
<1> QED
  BY <1>1, <1>2, <1>3 DEF SessionInv, InOrder, CallIsLatest, NothingBefore,
    StopReturnedHolds

(* With one session at the device an acknowledgement that ends a wait was  *)
(* made for that very command, however many timed out before it.           *)
THEOREM AnswersAreOwn ==
  ASSUME MaxSessions = 1 PROVE SessionSpec => AnswersOwnCall
<1>1. SessionInv /\ [SessionNext]_sessionVars =>
        [Read /\ phase' = "Idle" =>
           executed /\ Head(hid_in).sequence = call.sequence]_sessionVars
  BY AnswerIsOwn
<1>2. SessionInv /\ [SessionNext]_sessionVars => SessionInv'
  BY SessionInvNext
<1> QED
  BY <1>1, <1>2, SessionInvInit, PTL DEF SessionSpec, AnswersOwnCall

(* With one session at the device, nothing drives from the return of a     *)
(* stop until the tool asks for motion again, and nothing on its way will. *)
THEOREM ReturnedStopsHold ==
  ASSUME MaxSessions = 1 PROVE SessionSpec => []StopReturnedHolds
<1>1. SessionInv /\ [SessionNext]_sessionVars => SessionInv'
  BY SessionInvNext
<1>2. SessionInv => StopReturnedHolds
  BY DEF SessionInv
<1> QED
  BY <1>1, <1>2, SessionInvInit, PTL DEF SessionSpec
=============================================================================
