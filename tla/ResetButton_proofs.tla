------------------------- MODULE ResetButton_proofs -------------------------
(***************************************************************************)
(* For all lengths of the blinks and of the hold: a button held for the    *)
(* hold and one round resets the device, and a press shorter than the hold *)
(* less one round does not.                                                *)
(***************************************************************************)
EXTENDS ResetButton, TLAPS

\* What relates the task's count to the button's own time.
Counting ==
    /\ ~erased => btn_held_ms < HoldTime
    /\ down => held <= btn_held_ms + (2 * blink - left)
    /\ ~down => held = 0

\* A count that is left from an earlier press is at most a round old, and since
\* a rest the count is at most a round ahead.
Resting ==
    /\ ~down /\ btn_held_ms > 0 => rested <= 2 * blink - left
    /\ down /\ btn_held_ms > 0 /\ rested = Enough
         => btn_held_ms + (2 * blink - left) <= held + LongestRound

\* All of it but the flags.
Measures == Lengths /\ Counting /\ Resting

\* What the arithmetic below needs of the constants, whatever they are.
LEMMA Durations ==
    /\ HoldTime \in Nat /\ LongestRound \in Nat /\ Enough \in Nat
    /\ LongestRound < HoldTime /\ LongestRound < Enough
    /\ BootBlink \in Blinks
    /\ \A b \in Blinks : b \in Nat \ {0} /\ 2 * b <= LongestRound
    BY ResetButtonAssumption DEF LongestRound, Enough, Blinks

\* A round that begins is as long as one of the blinks says.
LEMMA RoundBegins ==
    ASSUME NextRound
    PROVE  blink' \in Blinks /\ left' = 2 * blink'
    BY DEF NextRound, BlinkNow, Blinks

\* No step puts anything but a truth value into a flag.
LEMMA StepFlags == Flags /\ [Next]_vars => Flags'
<1> SUFFICES ASSUME Flags, [Next]_vars PROVE Flags'
    OBVIOUS
<1> USE DEF Flags
<1>1. CASE Press
    BY <1>1 DEF Press
<1>2. CASE Release
    BY <1>2 DEF Release
<1>3. CASE BootDone
    BY <1>3 DEF BootDone
<1>4. CASE UsbChanges
    BY <1>4 DEF UsbChanges
<1>5. CASE Tick
    BY <1>5 DEF Tick
<1>6. CASE SampleDown
    BY <1>6 DEF SampleDown
<1>7. CASE SampleUp
    BY <1>7 DEF SampleUp
<1>8. CASE Restart
    BY <1>8 DEF Restart, Boot
<1>9. CASE UNCHANGED vars
    BY <1>9 DEF vars
<1> QED BY <1>1, <1>2, <1>3, <1>4, <1>5, <1>6, <1>7, <1>8, <1>9 DEF Next

\* The device starts with everything at nought.
LEMMA InitMeasures == Init => Measures
    BY Durations DEF Init, Measures, Lengths, Counting, Resting

\* So does a restart, whether the button is down or not.
LEMMA RestartMeasures == Restart => Measures'
<1>1. Restart => Lengths'
    BY Durations DEF Restart, Boot, Lengths
<1>2. Restart => Counting'
    BY Durations DEF Restart, Boot, Counting
<1>3. Restart => Resting'
    BY Durations DEF Restart, Boot, Resting
<1> QED BY <1>1, <1>2, <1>3 DEF Measures

\* Pressing, releasing and the passing of time keep the measures related.
LEMMA TimePasses ==
    ASSUME Measures, Press \/ Release \/ Tick
    PROVE  Measures'
<1> USE Durations DEF Measures, Lengths, Counting, Resting
<1>1. CASE Press
    BY <1>1 DEF Press
<1>2. CASE Release
    BY <1>2 DEF Release
<1>3. CASE Tick /\ down
    BY <1>3 DEF Tick
<1>4. CASE Tick /\ ~down
    BY <1>4 DEF Tick
<1> QED BY <1>1, <1>2, <1>3, <1>4

\* Sampling keeps them related.
LEMMA SampleTaken ==
    ASSUME Measures, SampleDown \/ SampleUp
    PROVE  Measures'
<1>1. blink' \in Blinks /\ left' = 2 * blink'
    BY RoundBegins DEF SampleDown, SampleUp
<1>2. CASE SampleDown
  <2>1. btn_held_ms' = btn_held_ms + 2 * blink /\ left = 0 /\ ~erased /\ down /\ down'
    BY <1>2 DEF SampleDown
  <2>2. held' = held /\ rested' = rested
    BY <1>2 DEF SampleDown
  <2>3. ~erased' => btn_held_ms' < HoldTime
    <3>1. ~erased' => ~(btn_held_ms' >= HoldTime)
      BY <1>2 DEF SampleDown
    <3> QED
      BY <2>1, <3>1, Durations DEF Measures, Lengths
  <2>4. Lengths'
    BY <1>1, <2>1, <2>2, Durations DEF Measures, Lengths, Counting
  <2>5. Counting'
    BY <1>1, <2>1, <2>2, <2>3, Durations DEF Measures, Lengths, Counting
  <2>6. Resting'
    BY <1>1, <2>1, <2>2, Durations DEF Measures, Lengths, Resting
  <2> QED BY <2>4, <2>5, <2>6 DEF Measures
<1>3. CASE SampleUp
    BY <1>1, <1>3, Durations DEF Measures, Lengths, Counting, Resting, SampleUp
<1> QED BY <1>2, <1>3

\* Every step does.
LEMMA StepMeasures == Measures /\ [Next]_vars => Measures'
<1> SUFFICES ASSUME Measures, [Next]_vars PROVE Measures'
    OBVIOUS
<1>1. CASE BootDone \/ UsbChanges
    BY <1>1 DEF Measures, Lengths, Counting, Resting, BootDone, UsbChanges
<1>2. CASE UNCHANGED vars
    BY <1>2 DEF Measures, Lengths, Counting, Resting, vars
<1> QED BY <1>1, <1>2, RestartMeasures, TimePasses, SampleTaken DEF Next

ButtonInv == Flags /\ Measures

\* The invariant holds in every state.
LEMMA ButtonInvariant == Spec => []ButtonInv
<1>1. Init => ButtonInv
    BY InitMeasures DEF Init, ButtonInv, Flags
<1>2. ButtonInv /\ [Next]_vars => ButtonInv'
    BY StepFlags, StepMeasures DEF ButtonInv
<1> QED BY <1>1, <1>2, PTL DEF Spec

\* Every variable of led_button_task keeps its type; the count never exceeds the
\* hold by more than a round.
THEOREM TypeCorrect == Spec => []TypeOK
<1>1. ButtonInv => TypeOK
    BY DEF ButtonInv, Measures, TypeOK
<1> QED BY <1>1, ButtonInvariant, PTL

\* Holding the button for RESET_HOLD_MS and one round always resets the device,
\* for all lengths of the blinks and however they change meanwhile.
THEOREM HoldingAlwaysResets == Spec => []HoldingResets
<1>1. ButtonInv => HoldingResets
    BY Durations DEF ButtonInv, Measures, Lengths, Counting, HoldingResets
<1> QED BY <1>1, ButtonInvariant, PTL

\* A press shorter than RESET_HOLD_MS less one round never resets the device, if
\* the button had been up for more than a round before it.
THEOREM ShortPressIsAlwaysHarmless == Spec => ShortPressIsHarmless
<1>1. ButtonInv /\ [Next]_vars
        => [~erased /\ erased' /\ rested = Enough => held >= HoldTime - LongestRound]_vars
  <2> SUFFICES ASSUME ButtonInv, Next, ~erased, erased', rested = Enough
               PROVE  held >= HoldTime - LongestRound
    BY DEF vars
  <2>1. SampleDown
    BY DEF Next, Press, Release, BootDone, UsbChanges, Tick, SampleUp, Restart
  <2>2. btn_held_ms' = btn_held_ms + 2 * blink /\ left' = 2 * blink' /\ blink' \in Blinks
    BY <2>1, RoundBegins DEF SampleDown
  <2>3. down' /\ rested' = Enough /\ held' = held /\ btn_held_ms' >= HoldTime
    BY <2>1 DEF SampleDown
  <2>4. Measures'
    BY <2>1, SampleTaken DEF ButtonInv
  <2> QED
    BY <2>2, <2>3, <2>4, Durations DEF ButtonInv, Measures, Lengths, Resting
<1> QED BY <1>1, ButtonInvariant, PTL DEF Spec, ShortPressIsHarmless
=============================================================================
