---------------------------- MODULE ResetButton ----------------------------
(***************************************************************************)
(* led_button_task (app_main.c): the task that blinks the LED and, once a  *)
(* round, samples the button; a button seen down for RESET_HOLD_MS of      *)
(* rounds erases the configuration and restarts the device.                *)
(*                                                                         *)
(* A round lasts two blinks, whose length depends on the state of the      *)
(* device, and it is rounds that are counted.  Time is discrete and the    *)
(* task is never late: what goes wrong here does so without help.          *)
(***************************************************************************)
EXTENDS Naturals

CONSTANTS
    BootBlink, IdleBlink, UsbBlink,   \* 100, 500 and 1000 ms in the code
    HoldTime                          \* RESET_HOLD_MS

\* The blinks get longer, and the longest round is shorter than the hold.
ASSUME ResetButtonAssumption ==
    /\ {BootBlink, IdleBlink, UsbBlink, HoldTime} \subseteq Nat \ {0}
    /\ BootBlink <= IdleBlink /\ IdleBlink <= UsbBlink
    /\ 2 * UsbBlink < HoldTime

VARIABLES
    booting,       \* s_booting
    connected,     \* usb_ncm_is_connected()
    blink,         \* blink_ms of this round
    left,          \* time until the round's sample
    btn_held_ms,
    erased,        \* nvs_flash_erase has been called
    down,          \* the button's level
    held,          \* time for which it has been down, as long as it is
    rested         \* time for which it was up before that, as far as it matters

vars == <<booting, connected, blink, left, btn_held_ms, erased, down, held, rested>>

LongestRound == 2 * UsbBlink
Enough == LongestRound + 1     \* of a rest: more than any round
Blinks == {BootBlink, IdleBlink, UsbBlink}

Boot ==
    /\ booting' = TRUE /\ connected' = FALSE
    /\ blink' = BootBlink /\ left' = 2 * BootBlink
    /\ btn_held_ms' = 0 /\ erased' = FALSE
    /\ held' = 0 /\ rested' = Enough

\* At power-up the button is up: the ROM takes a press for a download request.
Init ==
    /\ booting = TRUE /\ connected = FALSE
    /\ blink = BootBlink /\ left = 2 * BootBlink
    /\ btn_held_ms = 0 /\ erased = FALSE
    /\ down = FALSE
    /\ held = 0 /\ rested = Enough
-----------------------------------------------------------------------------
(* The user and the rest of the firmware *)

Press ==
    /\ ~down
    /\ down' = TRUE /\ held' = 0
    /\ UNCHANGED <<booting, connected, blink, left, btn_held_ms, erased, rested>>

Release ==
    /\ down
    /\ down' = FALSE /\ held' = 0 /\ rested' = 0
    /\ UNCHANGED <<booting, connected, blink, left, btn_held_ms, erased>>

BootDone ==
    /\ booting
    /\ booting' = FALSE
    /\ UNCHANGED <<connected, blink, left, btn_held_ms, erased, down, held, rested>>

UsbChanges ==
    /\ connected' = ~connected
    /\ UNCHANGED <<booting, blink, left, btn_held_ms, erased, down, held, rested>>

Tick ==
    /\ left > 0 /\ ~erased
    /\ left' = left - 1
    /\ IF down THEN held' = held + 1 /\ UNCHANGED rested
       ELSE rested' = (IF rested < Enough THEN rested + 1 ELSE rested) /\ UNCHANGED held
    /\ UNCHANGED <<booting, connected, blink, btn_held_ms, erased, down>>
-----------------------------------------------------------------------------
(* The task *)

\* blink_ms of the round that begins.
BlinkNow == IF booting THEN BootBlink ELSE IF connected THEN UsbBlink ELSE IdleBlink
NextRound == blink' = BlinkNow /\ left' = 2 * BlinkNow

\* Faulty variant: one blink is counted where the round has two.
SampleDown_CountsOneBlink ==
    /\ left = 0 /\ ~erased /\ down
    /\ btn_held_ms' = btn_held_ms + blink
    /\ erased' = (btn_held_ms' >= HoldTime)
    /\ NextRound
    /\ UNCHANGED <<booting, connected, down, held, rested>>

\* Faulty variant: a count that passes over RESET_HOLD_MS goes on.
SampleDown_Exactly ==
    /\ left = 0 /\ ~erased /\ down
    /\ btn_held_ms' = btn_held_ms + 2 * blink
    /\ erased' = (btn_held_ms' = HoldTime)
    /\ NextRound
    /\ UNCHANGED <<booting, connected, down, held, rested>>

SampleDown ==
    /\ left = 0 /\ ~erased /\ down
    /\ btn_held_ms' = btn_held_ms + 2 * blink
    /\ erased' = (btn_held_ms' >= HoldTime)
    /\ NextRound
    /\ UNCHANGED <<booting, connected, down, held, rested>>

\* Faulty variant: a release does not start the count afresh.
SampleUp_KeepsCount ==
    /\ left = 0 /\ ~erased /\ ~down
    /\ NextRound
    /\ UNCHANGED <<booting, connected, btn_held_ms, erased, down, held, rested>>

SampleUp ==
    /\ left = 0 /\ ~erased /\ ~down
    /\ btn_held_ms' = 0
    /\ NextRound
    /\ UNCHANGED <<booting, connected, erased, down, held, rested>>

\* esp_restart, 500 ms after the erase.
Restart ==
    /\ erased
    /\ Boot
    /\ UNCHANGED down

Next ==
    \/ Press \/ Release \/ BootDone \/ UsbChanges \/ Tick
    \/ SampleDown \/ SampleUp \/ Restart

Spec == Init /\ [][Next]_vars
-----------------------------------------------------------------------------
(* Properties *)

Flags ==
    /\ booting \in BOOLEAN /\ connected \in BOOLEAN
    /\ erased \in BOOLEAN /\ down \in BOOLEAN

Lengths ==
    /\ blink \in Blinks
    /\ left \in 0 .. 2 * blink
    /\ btn_held_ms \in 0 .. HoldTime + LongestRound
    /\ held \in Nat /\ rested \in 0 .. Enough

\* Every variable has its type; the count ends within a round of the hold.
TypeOK == Flags /\ Lengths

\* However the blinking changes meanwhile, holding the button for RESET_HOLD_MS
\* and one round always resets the device.
HoldingResets == ~erased => held < HoldTime + LongestRound

\* A press shorter than RESET_HOLD_MS less one round never resets it, if the
\* button had been up for more than a round before: presses do not add up.
ShortPressIsHarmless ==
    [][~erased /\ erased' /\ rested = Enough => held >= HoldTime - LongestRound]_vars
=============================================================================
