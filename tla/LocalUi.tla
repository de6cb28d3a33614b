------------------------------- MODULE LocalUi -------------------------------
(***************************************************************************)
(* firmware/ui/status and the key section of the STM32 main loop: one pass *)
(* of the loop debounces the keys and acts on their events.  KeyService    *)
(* treats every key alike and apart, so one key, chosen at the start, is   *)
(* pressed; the raw level of its pin is anything at every pass.  Ticks are *)
(* the sample index: they wrap, and a pass whose ADC read failed leaves    *)
(* the keys alone and does not count.                                      *)
(***************************************************************************)
EXTENDS Integers, Sequences

CONSTANTS
  TickModulus,                        \* 2^32
  Debounce, RepeatDelay, Repeat,      \* KEY_*_TICKS
  ContrastStep, MaxContrast, InitialContrast   \* 16, 255 and 0x7f

ASSUME KeyAssumption ==
  /\ {TickModulus, Debounce, RepeatDelay, Repeat} \subseteq Nat \ {0}
  /\ Debounce < TickModulus /\ Repeat < TickModulus /\ RepeatDelay < TickModulus
  /\ {ContrastStep, MaxContrast} \subseteq Nat
  /\ InitialContrast \in 0..MaxContrast

VARIABLES
  key,                \* the key that is used
  tick,
  raw,                \* history: the pin's level at the last pass
  held_for,           \* history: passes in a row with that level, up to Debounce + 2
  stable, candidate,  \* its bits of stable_mask and candidate_mask
  candidate_since, pressed_since, last_repeat,
  event,              \* what the last pass reported of it
  since_press, since_event,   \* history: passes since the last press, and the
                              \* last press or repeat, up to what is waited for
  page, contrast, telemetry_enabled

keyVars == <<stable, candidate, candidate_since, pressed_since, last_repeat>>
screenVars == <<page, contrast, telemetry_enabled>>
uiVars == <<key, tick, raw, held_for, keyVars, event, since_press, since_event,
  screenVars>>

Keys == {"M", "X", "Plus", "Minus", "User"}
PageOrder == <<"Status", "Sensor", "Safety", "Control", "Maintenance">>

UiInit ==
  /\ key \in Keys
  /\ tick = 0
  /\ raw = FALSE
  /\ held_for = 0
  /\ stable = FALSE /\ candidate = FALSE
  /\ candidate_since = 0 /\ pressed_since = 0 /\ last_repeat = 0
  /\ event = "None"
  /\ since_press = 0 /\ since_event = 0
  /\ page = 1
  /\ contrast = InitialContrast
  /\ telemetry_enabled = FALSE
---------------------------------------------------------------------------
(* tick.wrapping_sub(since).                                               *)
Elapsed(since, now) == (now - since) % TickModulus

(* The level differs from the candidate: the candidate starts again.       *)
(* Mutant: a bounce does not restart the debounce time.                    *)
NewCandidate_KeepsTime(pressed, now) ==
  /\ pressed # candidate
  /\ candidate' = pressed
  /\ event' = "None"
  /\ UNCHANGED <<stable, candidate_since, pressed_since, last_repeat>>

NewCandidate(pressed, now) ==
  /\ pressed # candidate
  /\ candidate' = pressed
  /\ candidate_since' = now
  /\ event' = "None"
  /\ UNCHANGED <<stable, pressed_since, last_repeat>>

Debouncing(pressed, now) ==
  /\ pressed = candidate /\ candidate # stable
  /\ Elapsed(candidate_since, now) < Debounce
  /\ event' = "None"
  /\ UNCHANGED keyVars

Accept(pressed, now) ==
  /\ pressed = candidate /\ candidate # stable
  /\ Elapsed(candidate_since, now) >= Debounce
  /\ stable' = pressed
  /\ IF pressed
       THEN event' = "Pressed" /\ pressed_since' = now /\ last_repeat' = now
       ELSE event' = "Released" /\ UNCHANGED <<pressed_since, last_repeat>>
  /\ UNCHANGED <<candidate, candidate_since>>

RepeatDue(now) ==
  /\ stable
  /\ Elapsed(pressed_since, now) >= RepeatDelay
  /\ Elapsed(last_repeat, now) >= Repeat

Hold(pressed, now) ==
  /\ pressed = candidate /\ candidate = stable
  /\ IF RepeatDue(now) THEN event' = "Repeat" /\ last_repeat' = now
     ELSE event' = "None" /\ UNCHANGED last_repeat
  /\ UNCHANGED <<stable, candidate, candidate_since, pressed_since>>

Update(pressed, now) ==
  \/ NewCandidate(pressed, now) \/ Debouncing(pressed, now)
  \/ Accept(pressed, now) \/ Hold(pressed, now)

SaturatingAdd(value, step) ==
  IF value + step > MaxContrast THEN MaxContrast ELSE value + step
SaturatingTake(value, step) == IF value < step THEN 0 ELSE value - step

(* What the main loop does with the event: pages step round, contrast      *)
(* also follows repeats and saturates, USER toggles telemetry.             *)
Turned(by) == ((page - 1 + by) % Len(PageOrder)) + 1

Act ==
  /\ page' = CASE event' = "Pressed" /\ key = "M" -> Turned(1)
               [] event' = "Pressed" /\ key = "X" -> Turned(-1)
               [] OTHER -> page
  /\ contrast' =
       CASE event' \in {"Pressed", "Repeat"} /\ key = "Plus" ->
              SaturatingAdd(contrast, ContrastStep)
         [] event' \in {"Pressed", "Repeat"} /\ key = "Minus" ->
              SaturatingTake(contrast, ContrastStep)
         [] OTHER -> contrast
  /\ telemetry_enabled' =
       (telemetry_enabled # (event' = "Pressed" /\ key = "User"))

UpTo(bound, value) == IF value > bound THEN bound ELSE value

(* One good pass of the loop: the sample index moves on, the level is      *)
(* read, the event is acted on.                                            *)
KeyPass(pressed) ==
  /\ tick' = (tick + 1) % TickModulus
  /\ Update(pressed, tick')
  /\ Act
  /\ raw' = pressed
  /\ held_for' = IF pressed = raw THEN UpTo(Debounce + 2, held_for + 1) ELSE 1
  /\ since_press' = IF event' = "Pressed" THEN 0 ELSE UpTo(RepeatDelay, since_press + 1)
  /\ since_event' = IF event' \in {"Pressed", "Repeat"} THEN 0
                    ELSE UpTo(Repeat, since_event + 1)
  /\ UNCHANGED key

UiNext == \E pressed \in BOOLEAN : KeyPass(pressed)

UiSpec == UiInit /\ [][UiNext]_uiVars
---------------------------------------------------------------------------
(* Across the tick's wrap and any bounce: a press is reported exactly when *)
(* the pin has been low for the debounce time and it was not pressed       *)
(* before, a release likewise, so no level that lasts is missed; repeats   *)
(* keep their distance; and a page or the telemetry switch moves once per  *)
(* press, never with a repeat.                                             *)
OnePressOneEvent ==
  [][/\ event' = "Pressed" => raw' /\ held_for' = Debounce + 1 /\ ~stable
     /\ event' = "Released" => ~raw' /\ held_for' = Debounce + 1 /\ stable
     /\ event' = "Repeat" =>
          stable /\ since_press' >= RepeatDelay /\ since_event + 1 >= Repeat
     /\ page' # page \/ telemetry_enabled' # telemetry_enabled =>
          raw' /\ held_for' = Debounce + 1
     /\ stable' # raw' => held_for' <= Debounce]_uiVars
=============================================================================
