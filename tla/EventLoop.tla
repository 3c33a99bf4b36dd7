------------------------------ MODULE EventLoop ------------------------------
(***************************************************************************)
(* The default event loop: one queue and one task for the events of the    *)
(* access point (WifiAp) and of the USB network driver (UsbNcm).           *)
(***************************************************************************)
EXTENDS WifiAp

CONSTANT Rebooters

VARIABLES s_started, s_connected, pc, netif, passage, unstarted

Usb == INSTANCE UsbNcm

uvars == <<s_started, s_connected, pc, netif, passage, unstarted>>
loopvars == <<vars, uvars>>

\* app_main: wifi_ap_start has returned, usb_ncm_start is about to.
LoopInit == Init /\ Usb!Init

\* The task of the event loop runs the handler of the event at the head.
LoopStep ==
    \/ HandlerStep /\ UNCHANGED uvars
    \/ Usb!HandlePort /\ UNCHANGED wvars

LoopNext ==
    \/ Next /\ UNCHANGED uvars
    \/ Usb!Next /\ UNCHANGED wvars

LoopSafety == LoopInit /\ [][LoopNext]_loopvars

\* The event loop, the timer task, app_main and TinyUSB's task run; a task that
\* waits for room in the queue is woken when there is some, and gets it in the
\* end.  Nothing is assumed of the stations, the host and the restarts.
LoopSpec ==
    /\ LoopSafety
    /\ WF_loopvars(LoopStep)
    /\ WF_loopvars(TimerStep /\ UNCHANGED uvars)
    /\ WF_loopvars(Usb!Install /\ UNCHANGED wvars)
    /\ \A t \in {"main", "tinyusb"} :
          SF_loopvars((Usb!StartStep(t) \/ Usb!ConnectStep(t)) /\ UNCHANGED wvars)
-----------------------------------------------------------------------------
(* Properties.  Those of WifiAp hold of the queue it shares. *)

\* Every variable has its type, and the queue its bound.
TypeOK ==
    /\ evq \in Seq(Events \cup Usb!UsbEvents) /\ Len(evq) <= QueueLen
    /\ WifiType /\ Usb!UsbType

\* The link shown and the interface agree once at rest, through restarts and again
\* after races and lost events, whatever Wi-Fi events come between (UsbNcm).
LinkAgrees == Usb!LinkAgrees

\* The USB interface is started, however many Wi-Fi events are in the way (UsbNcm).
StartIsHandled == Usb!StartIsHandled
=============================================================================
