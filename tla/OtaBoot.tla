------------------------------- MODULE OtaBoot -------------------------------
(***************************************************************************)
(* Firmware updates and restarts (update_post_handler, reboot_post_handler *)
(* and reboot_task in web_server.c, the end of app_main).  httpd is one    *)
(* task: while it receives an upload it serves nothing else.               *)
(*                                                                         *)
(* The bootloader and esp_ota_* are external, as the build configures them *)
(* (two app slots, CONFIG_BOOTLOADER_APP_ROLLBACK_ENABLE): a slot that has *)
(* been selected is tried once, and unless the image confirms itself the   *)
(* next boot goes back to the other slot; an image that has not confirmed  *)
(* itself cannot begin an update.  Requests refused before anything is     *)
(* changed (no data, too large, no partition) are left out.  The 3 s of    *)
(* the watchdog are not timed.                                             *)
(***************************************************************************)
EXTENDS Naturals

CONSTANTS
    Works, Crashes, \* the images that come up, and those that abort in app_main
    Factory,        \* the one the device was flashed with
    NoImage,        \* what an empty or half written slot holds
    MaxTimeouts,    \* OTA_MAX_TIMEOUTS: 5 in the code
    MaxChunks,      \* bound: pieces an upload arrives in
    MaxReboots,     \* bound: reboot tasks at a time
    MaxLosses       \* bound: power losses

ASSUME OtaBootAssumption ==
    /\ MaxTimeouts \in Nat \ {0} /\ MaxChunks \in Nat \ {0}
    /\ MaxReboots \in Nat \ {0} /\ MaxLosses \in Nat
    /\ Factory \in Works /\ Works \cap Crashes = {} /\ NoImage \notin Works \cup Crashes

VARIABLES
    slot,           \* the two app partitions
    sel, confirmed, \* otadata: the slot to boot; "new", "pending" or "valid"
    running,        \* the slot of the running image
    dev,            \* "off"; "booting" from web_server_start on; "up"
    httpd,          \* where the web server's task is
    s_ota_in_progress,
    remaining, timeouts,  \* the upload: pieces to come, timeouts in a row
    waiting,        \* reboot tasks before their trigger_rtc_reset
    armed,          \* the RTC watchdog runs
    asked,          \* history: a reboot was answered with /rebooting
    losses

vars == <<slot, sel, confirmed, running, dev, httpd, s_ota_in_progress,
          remaining, timeouts, waiting, armed, asked, losses>>

flash == <<slot, sel, confirmed>>
handler == <<remaining, timeouts>>
restart == <<waiting, armed, asked>>

Images == Works \cup Crashes
Target == 1 - running      \* esp_ota_get_next_update_partition

Init ==
    /\ slot = [s \in {0, 1} |-> IF s = 0 THEN Factory ELSE NoImage]
    /\ sel = 0 /\ confirmed = "valid" /\ running = 0
    /\ dev = "booting" /\ losses = 0
    /\ httpd = "idle" /\ s_ota_in_progress = FALSE
    /\ remaining = 0 /\ timeouts = 0
    /\ waiting = 0 /\ armed = FALSE /\ asked = FALSE
-----------------------------------------------------------------------------
(* Power and booting *)

\* What is in RAM is gone.
Off ==
    /\ dev' = "off"
    /\ httpd' = "idle" /\ s_ota_in_progress' = FALSE
    /\ remaining' = 0 /\ timeouts' = 0
    /\ waiting' = 0 /\ armed' = FALSE /\ asked' = FALSE

\* Power is lost, at any moment.
PowerLoss ==
    /\ dev # "off" /\ losses < MaxLosses
    /\ losses' = losses + 1 /\ Off
    /\ UNCHANGED <<flash, running>>

\* The watchdog resets the chip.
Reset ==
    /\ armed /\ Off
    /\ UNCHANGED <<flash, running, losses>>

\* The bootloader, and app_main up to web_server_start.
PowerUp ==
    /\ dev = "off" /\ dev' = "booting"
    /\ sel' = IF confirmed = "pending" THEN 1 - sel ELSE sel
    /\ confirmed' = IF confirmed = "new" THEN "pending" ELSE "valid"
    /\ running' = sel'
    /\ UNCHANGED <<slot, httpd, s_ota_in_progress, handler, restart, losses>>

\* An ESP_ERROR_CHECK of app_main aborts.
Abort ==
    /\ dev = "booting" /\ slot[running] \notin Works /\ Off
    /\ UNCHANGED <<flash, running, losses>>

\* Faulty variant: the image confirms itself before everything has started.
ComeUp_ConfirmsFirst ==
    /\ dev = "booting" /\ confirmed' = "valid"
    /\ dev' = IF slot[running] \in Works THEN "up" ELSE dev
    /\ UNCHANGED <<slot, sel, running, httpd, s_ota_in_progress, handler, restart, losses>>

\* The end of app_main: esp_ota_mark_app_valid_cancel_rollback.
ComeUp ==
    /\ dev = "booting" /\ slot[running] \in Works
    /\ dev' = "up" /\ confirmed' = IF sel = running THEN "valid" ELSE confirmed
    /\ UNCHANGED <<slot, sel, running, httpd, s_ota_in_progress, handler, restart, losses>>
-----------------------------------------------------------------------------
(* update_post_handler *)

\* esp_ota_begin erases the other slot, or fails and nothing has happened.
UpdateBegin ==
    /\ dev # "off" /\ httpd = "idle" /\ ~s_ota_in_progress
    /\ confirmed # "pending"
    /\ slot' = [slot EXCEPT ![Target] = NoImage]
    /\ s_ota_in_progress' = TRUE /\ httpd' = "receive"
    /\ remaining' \in 1 .. MaxChunks /\ timeouts' = 0
    /\ UNCHANGED <<sel, confirmed, running, dev, restart, losses>>

\* esp_ota_abort, an error page, and the next update may come.
GiveUp ==
    /\ s_ota_in_progress' = FALSE /\ httpd' = "idle"
    /\ remaining' = 0 /\ timeouts' = 0
    /\ UNCHANGED <<flash, running, dev, restart, losses>>

Continue(next) ==
    /\ httpd' = next
    /\ UNCHANGED <<flash, running, dev, s_ota_in_progress, restart, losses>>

\* httpd_req_recv returns data, which is written.
Receive ==
    /\ httpd = "receive" /\ remaining > 0
    /\ remaining' = remaining - 1 /\ timeouts' = 0
    /\ Continue(IF remaining' = 0 THEN "end" ELSE "receive")

\* ... or the connection or the write fails.
ReceiveFails == httpd = "receive" /\ GiveUp

\* Faulty variant: at the limit the count starts again.
ReceiveTimesOut_Wraps ==
    /\ httpd = "receive"
    /\ timeouts' = (timeouts + 1) % MaxTimeouts
    /\ Continue("receive") /\ UNCHANGED remaining

\* ... or nothing came: OTA_MAX_TIMEOUTS times in a row is the end.
ReceiveTimesOut ==
    /\ httpd = "receive"
    /\ IF timeouts + 1 >= MaxTimeouts THEN GiveUp
       ELSE /\ timeouts' = timeouts + 1
            /\ Continue("receive") /\ UNCHANGED remaining

\* esp_ota_end accepts what has been written, if it is an image ...
Validate ==
    /\ httpd = "end"
    /\ \E image \in Images : slot' = [slot EXCEPT ![Target] = image]
    /\ httpd' = "select"
    /\ UNCHANGED <<sel, confirmed, running, dev, s_ota_in_progress, handler, restart, losses>>

\* ... or does not, or esp_ota_set_boot_partition fails.
ValidateFails == httpd \in {"end", "select"} /\ GiveUp

\* Faulty variant: the flag is cleared once the update is complete.
SelectNew_ClearsFlag ==
    /\ httpd = "select" /\ httpd' = "create"
    /\ sel' = Target /\ confirmed' = "new"
    /\ s_ota_in_progress' = FALSE
    /\ UNCHANGED <<slot, running, dev, handler, restart, losses>>

\* esp_ota_set_boot_partition; the answer is "OK".
SelectNew ==
    /\ httpd = "select" /\ httpd' = "create"
    /\ sel' = Target /\ confirmed' = "new"
    /\ UNCHANGED <<slot, running, dev, s_ota_in_progress, handler, restart, losses>>

\* xTaskCreate(reboot_task), whose result is not looked at; s_ota_in_progress
\* stays set until the restart.
CreateReboot ==
    /\ httpd = "create" /\ httpd' = "idle"
    /\ \/ waiting < MaxReboots /\ waiting' = waiting + 1
       \/ UNCHANGED waiting
    /\ UNCHANGED <<flash, running, dev, s_ota_in_progress, handler, armed, asked, losses>>
-----------------------------------------------------------------------------
(* reboot_post_handler and reboot_task *)

Reboot ==
    /\ dev # "off" /\ httpd = "idle" /\ waiting < MaxReboots
    /\ waiting' = waiting + 1 /\ asked' = TRUE
    /\ UNCHANGED <<flash, running, dev, httpd, s_ota_in_progress, handler, armed, losses>>

\* Faulty variant: without a task the handler just returns.
RebootWithoutTask_GivesUp ==
    /\ dev # "off" /\ httpd = "idle"
    /\ asked' = TRUE
    /\ UNCHANGED <<flash, running, dev, httpd, s_ota_in_progress, handler, waiting, armed, losses>>

\* Without a task the handler does the task's work and never returns.
RebootWithoutTask ==
    /\ dev # "off" /\ httpd = "idle"
    /\ armed' = TRUE /\ asked' = TRUE /\ httpd' = "loop"
    /\ UNCHANGED <<flash, running, dev, s_ota_in_progress, handler, waiting, losses>>

\* reboot_task: 500 ms, trigger_rtc_reset, usb_ncm_prepare_restart (UsbNcm).
TriggerReset ==
    /\ waiting > 0
    /\ waiting' = waiting - 1 /\ armed' = TRUE
    /\ UNCHANGED <<flash, running, dev, httpd, s_ota_in_progress, handler, asked, losses>>

ReceiveStep == Receive \/ ReceiveFails \/ ReceiveTimesOut
FinishStep == Validate \/ ValidateFails \/ SelectNew \/ CreateReboot
PowerStep == Reset \/ PowerUp \/ Abort \/ ComeUp

Next ==
    \/ PowerLoss \/ PowerStep
    \/ UpdateBegin \/ ReceiveStep \/ FinishStep
    \/ Reboot \/ RebootWithoutTask \/ TriggerReset
-----------------------------------------------------------------------------
(* Properties *)

OtaType ==
    /\ slot \in [{0, 1} -> Images \cup {NoImage}]
    /\ sel \in {0, 1} /\ running \in {0, 1}
    /\ confirmed \in {"new", "pending", "valid"}
    /\ dev \in {"off", "booting", "up"}
    /\ httpd \in {"idle", "receive", "end", "select", "create", "loop"}
    /\ s_ota_in_progress \in BOOLEAN
    /\ remaining \in 0 .. MaxChunks /\ timeouts \in 0 .. MaxTimeouts - 1
    /\ waiting \in 0 .. MaxReboots /\ armed \in BOOLEAN /\ asked \in BOOLEAN
    /\ losses \in 0 .. MaxLosses

\* As long as the next image has not shown that it works, the one that has is
\* there to go back to.
FallbackWorks == confirmed # "valid" => slot[1 - sel] \in Works

\* Whatever is installed, the device comes up again, with the old image if the
\* new one aborts, once power losses stop.
ComesUpAgain == dev = "off" ~> dev = "up"

\* A reboot the page announced takes place, with or without memory for its task.
RebootHappens == asked ~> dev = "off"

\* A client that stalls, or goes on one piece at a time, does not keep the web
\* server from everybody else.
UploadEnds == httpd = "receive" ~> httpd # "receive"
-----------------------------------------------------------------------------
(* The updates as the owner of the device sees them *)

Service == INSTANCE UpdateService WITH
    Nothing <- NoImage,
    trusted <- (IF confirmed = "valid" THEN slot[sel] ELSE slot[1 - sel]),
    candidate <- (IF confirmed = "valid" THEN NoImage ELSE slot[sel]),
    tried <- (confirmed = "pending"),
    runs <- (IF dev = "off" THEN NoImage ELSE slot[running])

\* Wherever an update is cut off, slots, boot data, pieces and flags implement the
\* update of UpdateService: only what was uploaded in full is tried, nothing writes
\* to it once it has been selected, it is tried once, and only when it has come up
\* does it take the place of the image that did before.
ImplementsUpdateService == Service!Spec
=============================================================================
