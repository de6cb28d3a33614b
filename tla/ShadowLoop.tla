------------------------------ MODULE ShadowLoop ------------------------------
(***************************************************************************)
(* stm32f103/src/main.rs: what one good pass of the shadow loop leaves for *)
(* others to see.  It publishes the runtime record, offers a telemetry     *)
(* packet to the UART when that is due, redraws the OLED when that is due  *)
(* and the last redraw is through, and then serves both transports for a   *)
(* bounded number of bytes.  A pass whose ADC read fails does none of this *)
(* and is a stuttering step.  The keys decide the page and whether         *)
(* telemetry is on (LocalUi); here they may do so at every pass.           *)
(***************************************************************************)
EXTENDS Integers, FiniteSetsExt

CONSTANTS
  SequenceModulus,               \* 2^32
  PacketBytes, ServiceBytes,     \* 64, and 8 per pass
  TelemetryPeriod, UiPeriod,     \* passes
  Rows, RowChunks                \* OLED pages, and service slices per page

ASSUME LoopAssumption ==
  {SequenceModulus, PacketBytes, ServiceBytes, TelemetryPeriod, UiPeriod,
   Rows, RowChunks} \subseteq Nat \ {0}

VARIABLES
  record,            \* SHADOW_*: cycle, and what its other parts are of
  telemetry_phase, ui_phase,
  next_sequence,
  pending, cursor,   \* UartTelemetryTransport: sequence in transit or -1
  received,          \* history: sequence of the last packet the host decoded
  lost,              \* history: packets the target has counted as dropped or
                     \* failed since it sent that one
  lost_before,       \* history: lost when the packet in transit was sent
  buffer, dirty, flush_page, flush_column, flush_active,   \* Ssd1315
  panel              \* display RAM, by row and chunk

telemetryVars == <<telemetry_phase, next_sequence, pending, cursor, received, lost, lost_before>>
oledVars == <<ui_phase, buffer, dirty, flush_page, flush_column, flush_active, panel>>
loopVars == <<record, telemetryVars, oledVars>>

Cycles == {"Primed", "Rejected", "Computed", "Error"}
StatusPages == {"Status", "Sensor", "Safety", "Control", "Maintenance"}
OledRows == 1..Rows
Chunks == 1..RowChunks

(* Ssd1315::new and init: the panel keeps what it had until it is sent.    *)
OledInit ==
  /\ buffer = [r \in OledRows |-> "Blank"]
  /\ dirty = OledRows
  /\ flush_page = 1 /\ flush_column = 1 /\ flush_active = FALSE
  /\ panel = [r \in OledRows |-> [c \in Chunks |-> "Noise"]]

LoopInit ==
  /\ record = [cycle |-> "Idle", state |-> "Cleared", computed |-> "Cleared",
               regime |-> "Cleared"]
  /\ telemetry_phase = 0 /\ ui_phase = 0
  /\ next_sequence = 0
  /\ pending = -1 /\ cursor = 0
  /\ received = SequenceModulus - 1
  /\ lost = 0 /\ lost_before = 0
  /\ OledInit
---------------------------------------------------------------------------
(* The record.  publish_raw overwrites the sample and with it makes every  *)
(* part that is not written again the part of an older sample; the regime  *)
(* is the controller's of an earlier pass until publish_regime writes it.  *)
Older(part) ==
  CASE part = "Own" -> "Stale"
    [] part = "Current" -> "Kept"
    [] OTHER -> part

PublishRaw(r) ==
  [r EXCEPT !.state = Older(@), !.computed = Older(@), !.regime = Older(@)]

(* A good step publishes the controller's regime too; an error does not.   *)
PublishRegime(r, outcome) == IF outcome = "Error" THEN r.regime ELSE "Current"

(* Mutant: an error clears what was computed and keeps the state.          *)
PublishOutcome_KeepsState(r, outcome) ==
  LET new == IF outcome = "Computed" THEN "Own" ELSE "Cleared"
  IN  [cycle |-> outcome, computed |-> new, regime |-> PublishRegime(r, outcome),
       state |-> IF outcome = "Error" THEN r.state ELSE new]

(* publish_cycle and publish_regime, or publish_cycle_error.               *)
PublishOutcome(r, outcome) ==
  LET new == IF outcome = "Computed" THEN "Own" ELSE "Cleared"
  IN  [cycle |-> outcome, state |-> new, computed |-> new,
       regime |-> PublishRegime(r, outcome)]

(* Telemetry as a value, so that the calls of one pass compose.            *)
Telemetry ==
  [sequence |-> next_sequence, pending |-> pending, cursor |-> cursor,
   lost |-> lost, lost_before |-> lost_before, received |-> received]

(* publish_latest: the sequence is used up whether the transport is free   *)
(* or busy.                                                                *)
Sent(t, sequence) ==
  [t EXCEPT !.pending = sequence, !.cursor = 0, !.lost_before = t.lost]
CountLost(t) == [t EXCEPT !.lost = (@ + 1) % SequenceModulus]
UseSequence(t) == [t EXCEPT !.sequence = (@ + 1) % SequenceModulus]

(* Mutant: a busy transport does not use up the sequence.                  *)
PublishLatest_Retries(t) ==
  IF t.pending # -1 THEN CountLost(t) ELSE Sent(UseSequence(t), t.sequence)

(* Mutant: a fresh packet replaces one in transit.                         *)
PublishLatest_Replaces(t) ==
  Sent(UseSequence(IF t.pending # -1 THEN CountLost(t) ELSE t), t.sequence)

PublishLatest(t) ==
  IF t.pending # -1 THEN CountLost(UseSequence(t))
  ELSE Sent(UseSequence(t), t.sequence)

(* UartTelemetryTransport::service: the UART takes some bytes and then     *)
(* blocks, or fails at the next one, which gives the packet up.  The host  *)
(* decodes whole packets and skips the beginning of one that was cut.      *)
Freed(t) == [t EXCEPT !.pending = -1, !.cursor = 0, !.lost_before = 0]

Taken(t, bytes) ==
  IF t.cursor + bytes < PacketBytes THEN [t EXCEPT !.cursor = @ + bytes]
  ELSE [Freed(t) EXCEPT !.received = t.pending,
                        !.lost = (t.lost - t.lost_before) % SequenceModulus]

Served(t, accepted) ==
  IF t.pending = -1 THEN {t}
  ELSE {Taken(t, bytes) : bytes \in accepted} \cup {CountLost(Freed(t))}

(* Telemetry may be switched off when a packet is due.                     *)
TelemetryDue == telemetry_phase + 1 >= TelemetryPeriod
Offered ==
  {Telemetry} \cup (IF TelemetryDue THEN {PublishLatest(Telemetry)} ELSE {})

TelemetryPass(accepted) ==
  /\ telemetry_phase' = IF TelemetryDue THEN 0 ELSE telemetry_phase + 1
  /\ \E offered \in Offered : \E served \in Served(offered, accepted) :
       /\ next_sequence' = served.sequence
       /\ pending' = served.pending
       /\ cursor' = served.cursor
       /\ received' = served.received
       /\ lost' = served.lost
       /\ lost_before' = served.lost_before
---------------------------------------------------------------------------
Smaller(x, y) == IF x < y THEN x ELSE y

(* A frame: the header names the page, and the rows below it show parts of *)
(* the record in this order.  Rows of one part are shown as one; command,  *)
(* authority and authorized are the part that was computed.  The rest of a *)
(* page is of this pass or never changes.                                  *)
Body(r, page) ==
  CASE page = "Status" -> <<r.cycle, r.regime, r.computed>>
    [] page = "Sensor" -> <<r.state>>
    [] page = "Safety" -> <<r.computed>>
    [] page = "Control" -> <<r.regime, r.computed>>
    [] page = "Maintenance" -> <<>>

DrawnFrame(r, page) ==
  [row \in OledRows |->
     IF row = 1 THEN page
     ELSE IF row - 1 \in DOMAIN Body(r, page) THEN Body(r, page)[row - 1]
     ELSE "Fixed"]

OledIdle == dirty = {} /\ ~flush_active

(* Mutant: a frame is also written while the last one is still going out.  *)
RedrawDue_Always == ui_phase + 1 >= UiPeriod

RedrawDue == ui_phase + 1 >= UiPeriod /\ OledIdle

(* Ssd1315::service: open the lowest dirty row if none is open, then send  *)
(* one slice of the open row; the row is clean after its last slice.       *)
SendSlice(shown, unsent, row, column) ==
  /\ flush_page' = row
  /\ panel' = [panel EXCEPT ![row][column] = shown[row]]
  /\ flush_active' = (column < RowChunks)
  /\ flush_column' = IF column < RowChunks THEN column + 1 ELSE 1
  /\ dirty' = IF column < RowChunks THEN unsent ELSE unsent \ {row}

ServiceOled(shown, unsent) ==
  \/ flush_active /\ SendSlice(shown, unsent, flush_page, flush_column)
  \/ ~flush_active /\ unsent # {} /\ SendSlice(shown, unsent, Min(unsent), 1)
  \/ /\ ~flush_active /\ unsent = {}
     /\ UNCHANGED <<dirty, flush_page, flush_column, flush_active, panel>>

(* write_frame marks the rows that differ, then the display is served.     *)
Differing(frame) == {r \in OledRows : frame[r] # buffer[r]}

WriteFrame(frame) ==
  /\ buffer' = frame
  /\ ServiceOled(frame, dirty \cup Differing(frame))

Redraw ==
  /\ RedrawDue
  /\ ui_phase' = 0
  /\ \E page \in StatusPages : WriteFrame(DrawnFrame(record', page))

KeepFrame ==
  /\ ~RedrawDue
  /\ ui_phase' = Smaller(ui_phase + 1, UiPeriod)
  /\ WriteFrame(buffer)

Pass(outcome, accepted) ==
  /\ record' = PublishOutcome(PublishRaw(record), outcome)
  /\ TelemetryPass(accepted)
  /\ Redraw \/ KeepFrame

PassAccepting(accepted) == \E outcome \in Cycles : Pass(outcome, accepted)

LoopNext == PassAccepting(0..ServiceBytes)

LoopSpec == LoopInit /\ [][LoopNext]_loopVars

(* The loop runs for ever, and a byte leaves the UART in a tenth of a      *)
(* pass, so again and again a pass finds it ready for at least one byte.   *)
FairLoopSpec == LoopSpec /\ WF_loopVars(PassAccepting(1..ServiceBytes))
---------------------------------------------------------------------------
(* The display never shows an old state or an old command: a row that      *)
(* shows one was drawn from a record whose cycle had computed it from the  *)
(* record's own sample, so no old derivative is paired with a new sample   *)
(* (runtime-observation lib.rs 83-85).  An old regime it may show, which   *)
(* publish_cycle_error leaves alone, but an idle display never shows it    *)
(* beside a new command.                                                   *)
NothingStaleIsShown ==
  /\ \A r \in OledRows, c \in Chunks : panel[r][c] # "Stale"
  /\ OledIdle => ~\E r, s \in OledRows, c, d \in Chunks :
                    panel[r][c] = "Kept" /\ panel[s][d] = "Own"

(* The host can tell from the sequence numbers alone how many packets it   *)
(* has missed: the gap is what the target has counted as dropped because   *)
(* the UART was busy or failed, through wraps of the sequence.             *)
GapsAreDrops ==
  LET in_transit == IF pending = -1 THEN 0 ELSE 1
  IN  next_sequence = (received + 1 + lost + in_transit) % SequenceModulus

(* An idle display shows exactly the frame last drawn; while one is going  *)
(* out, what differs from it is only what has not been sent yet; and a     *)
(* frame is never started before the one before has been shown in full.    *)
Unsent(row, chunk) ==
  row \in dirty /\ ~(flush_active /\ row = flush_page /\ chunk < flush_column)

ShownInFull == \A r \in OledRows, c \in Chunks : panel[r][c] = buffer[r]

ShowsWholeFrame ==
  /\ [](\A r \in OledRows, c \in Chunks : panel[r][c] = buffer[r] \/ Unsent(r, c))
  /\ [][buffer' # buffer => ShownInFull]_loopVars

(* Neither background transport ever stays busy for good, although both    *)
(* are served in slices shorter than the work they may hold: the UART      *)
(* comes free, the display comes to rest, and redraws that waited happen.  *)
BackgroundDrains ==
  /\ []<>(pending = -1)
  /\ []<>OledIdle
  /\ []<>(ui_phase = 0)
=============================================================================
