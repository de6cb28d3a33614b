-------------------------- MODULE QuadratureDecoder --------------------------
(***************************************************************************)
(* rp2350a/src/platform.cpp: the arm encoder, decoded in a GPIO interrupt. *)
(* The shaft turns whenever it likes; an edge on a pin latches that pin's  *)
(* interrupt once it is enabled, and is lost before: init reads both pins  *)
(* and then enables first A and then B (the SDK drops stale edges when it  *)
(* enables a pin).  The SDK's dispatcher acknowledges one latched pin and  *)
(* calls encoder_irq, which reads pin A, then pin B: two steps, with edges *)
(* possible in between.                                                    *)
(***************************************************************************)
EXTENDS Integers, Sequences

CONSTANT ShaftEdges   \* bound on the edges the shaft passes

ASSUME EdgesAssumption == ShaftEdges \in Nat

VARIABLES
  shaft,          \* true position in edges, from one with both pins low
  shaft_start,    \* history: where it was when init read the pins
  edges,          \* edges the shaft has passed
  enabled,        \* pins whose edge interrupt is enabled
  latched,        \* pins whose edge interrupt is pending
  reading,        \* the level of A already read by a running encoder_irq, or -1
  encoder_count, encoder_state, illegal_transitions,   \* g_encoder_*
  unseen,         \* history: pins that lost an edge and were not read since
  hurried         \* history: the shaft outran the interrupt, or its enabling

decoderVars == <<encoder_count, encoder_state, illegal_transitions>>
quadratureVars == <<shaft, shaft_start, edges, enabled, latched, reading, decoderVars,
                    unseen, hurried>>

(* The levels <<A, B>> over one cycle of the encoder.                      *)
Levels == <<<<0, 0>>, <<1, 0>>, <<1, 1>>, <<0, 1>>>>
LevelA(position) == Levels[(position % 4) + 1][1]
LevelB(position) == Levels[(position % 4) + 1][2]
StateOf(a, b) == 2 * a + b

kQuadratureDelta ==
  <<0, -1, 1, 0,   1, 0, 0, -1,   -1, 0, 0, 1,   0, 1, -1, 0>>

Delta(from, to) == kQuadratureDelta[4 * from + to + 1]

QuadratureInit ==
  /\ shaft \in 0..3
  /\ shaft_start = shaft
  /\ edges = 0
  /\ enabled = {}
  /\ latched = {}
  /\ unseen = {}
  /\ reading = -1
  /\ encoder_count = 0
  /\ encoder_state = StateOf(LevelA(shaft), LevelB(shaft))
  /\ illegal_transitions = 0
  /\ hurried = FALSE

(* Where the shaft would be if the decoder were right about it.            *)
Settled(position) ==
  encoder_state = StateOf(LevelA(position), LevelB(position))

(* The end of init: the edge interrupt of A, then that of B.               *)
Enable(pin) ==
  /\ enabled = IF pin = "A" THEN {} ELSE {"A"}
  /\ enabled' = enabled \cup {pin}
  /\ UNCHANGED <<shaft, shaft_start, edges, latched, reading, decoderVars, unseen, hurried>>

(* The shaft passes one edge.  It outruns the interrupt when it moves      *)
(* during the two reads, or moves on before the last edge was decoded.     *)
Turn(direction) ==
  /\ edges < ShaftEdges
  /\ edges' = edges + 1
  /\ shaft' = shaft + direction
  /\ LET moved == IF LevelA(shaft') # LevelA(shaft) THEN {"A"} ELSE {"B"}
     IN  /\ latched' = latched \cup (moved \cap enabled)
         /\ unseen' = unseen \cup (moved \ enabled)
         /\ hurried' = (hurried \/ reading # -1 \/ moved \cap enabled = {}
                          \/ ~(Settled(shaft) \/ Settled(shaft + direction)))
  /\ UNCHANGED <<shaft_start, enabled, reading, decoderVars>>

(* The dispatcher acknowledges a pin and encoder_irq reads A.              *)
EnterInterrupt(pin) ==
  /\ reading = -1
  /\ pin \in latched
  /\ latched' = latched \ {pin}
  /\ reading' = LevelA(shaft)
  /\ UNCHANGED <<shaft, shaft_start, edges, enabled, decoderVars, unseen, hurried>>

(* Mutant: a refused transition leaves the decoded state where it was.     *)
FinishInterrupt_KeepsState ==
  /\ reading # -1
  /\ LET next == StateOf(reading, LevelB(shaft))
         delta == Delta(encoder_state, next)
         illegal == next # encoder_state /\ delta = 0
     IN  /\ encoder_count' = encoder_count + delta
         /\ illegal_transitions' = illegal_transitions + IF illegal THEN 1 ELSE 0
         /\ encoder_state' = IF illegal THEN encoder_state ELSE next
  /\ reading' = -1
  /\ unseen' = {}
  /\ UNCHANGED <<shaft, shaft_start, edges, enabled, latched, hurried>>

(* encoder_irq reads B and decodes.                                        *)
FinishInterrupt ==
  /\ reading # -1
  /\ LET next == StateOf(reading, LevelB(shaft))
         delta == Delta(encoder_state, next)
     IN  /\ encoder_count' = encoder_count + delta
         /\ illegal_transitions' = illegal_transitions +
              IF next # encoder_state /\ delta = 0 THEN 1 ELSE 0
         /\ encoder_state' = next
  /\ reading' = -1
  /\ unseen' = {}
  /\ UNCHANGED <<shaft, shaft_start, edges, enabled, latched, hurried>>

QuadratureNext ==
  \/ \E direction \in {-1, 1} : Turn(direction)
  \/ \E pin \in {"A", "B"} : Enable(pin) \/ EnterInterrupt(pin)
  \/ FinishInterrupt

QuadratureSpec == QuadratureInit /\ [][QuadratureNext]_quadratureVars
---------------------------------------------------------------------------
(* Once no interrupt is pending or running, and one has run if an edge was *)
(* lost before the pins were enabled, the count differs from the true      *)
(* movement only by what the illegal-transition counter admits to, two     *)
(* edges for each, and by whole encoder cycles; it is exact, with no       *)
(* illegal transition reported, if the shaft never outran the interrupt    *)
(* or its enabling.                                                        *)
CountExplained ==
  latched = {} /\ reading = -1 /\ unseen = {} =>
    /\ Settled(shaft)
    /\ (encoder_count + 2 * illegal_transitions - (shaft - shaft_start)) % 4 = 0
    /\ ~hurried => encoder_count = shaft - shaft_start /\ illegal_transitions = 0
=============================================================================
