------------------------------ MODULE WebServer ------------------------------
(***************************************************************************)
(* The web server's one task (httpd) between the two components that need  *)
(* it: it either receives an update or restarts the device (OtaBoot), or   *)
(* sends the log (LogRing).  The ring is in RAM and is lost with it.       *)
(***************************************************************************)
EXTENDS OtaBoot, LogRing

wsvars == <<vars, lvars>>

WebInit == Init /\ LogInit

LogLost ==
    /\ s_log_buf' = [i \in 0 .. LOG_LINES - 1 |-> NoLine]
    /\ s_log_head' = 0 /\ s_log_count' = 0 /\ s_log_mutex' = Nobody
    /\ line' = [w \in Writers |-> NoLine]
    /\ page' = "idle" /\ shown' = <<>> /\ log' = <<>>

\* A request for an update or a reboot is looked at when no page is being sent.
Request ==
    /\ page = "idle"
    /\ UpdateBegin \/ Reboot \/ RebootWithoutTask
    /\ UNCHANGED lvars

Handling == (ReceiveStep \/ FinishStep) /\ UNCHANGED lvars

Running == (PowerUp \/ ComeUp \/ TriggerReset) /\ UNCHANGED lvars

Stopping == (PowerLoss \/ Reset \/ Abort) /\ LogLost

\* Any task may log; the page is sent when httpd has nothing else to do.
Logging ==
    /\ dev # "off"
    /\ \/ \E w \in Writers : (\E text \in Lines : LogTake(w, text)) \/ LogWrite(w) \/ LogAdvance(w)
       \/ httpd = "idle" /\ (PageBegin \/ PageSend \/ PageSent \/ PageEnd)
    /\ UNCHANGED vars

WebNext == Request \/ Handling \/ Running \/ Stopping \/ Logging

WebSpec == WebInit /\ [][WebNext]_wsvars

\* httpd's receive returns within its timeout, with data or without, and its
\* handler goes on; the reboot task runs and the watchdog, once armed, fires; a
\* device that is switched on boots.  What is left of app_main after
\* web_server_start takes a fraction of the 3 s the watchdog gives it: it is not
\* cut off by reboots again and again, which takes strong fairness to say.
WebFairSpec ==
    /\ WebSpec
    /\ WF_wsvars(ReceiveStep /\ UNCHANGED lvars)
    /\ WF_wsvars(FinishStep /\ UNCHANGED lvars)
    /\ WF_wsvars(TriggerReset /\ UNCHANGED lvars)
    /\ WF_wsvars(Reset /\ LogLost)
    /\ WF_wsvars(PowerUp /\ UNCHANGED lvars)
    /\ SF_wsvars(Abort /\ LogLost)
    /\ SF_wsvars(ComeUp /\ UNCHANGED lvars)

\* Every variable has its type.
TypeOK == OtaType /\ LogType
=============================================================================
