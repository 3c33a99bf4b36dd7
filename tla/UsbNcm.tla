------------------------------- MODULE UsbNcm -------------------------------
(***************************************************************************)
(* The USB network driver (usb_ncm.c): two flags, tested and set without a *)
(* lock by app_main (usb_ncm_start), by TinyUSB's task (the host selects   *)
(* or loses the function) and by the tasks that restart the device         *)
(* (usb_ncm_prepare_restart), and the events that carry their changes to   *)
(* the network interface, through the queue of the default event loop,     *)
(* which other components post to as well.                                 *)
(*                                                                         *)
(* TinyUSB and esp_netif are external; of the interface only the last      *)
(* action performed on it is kept.  The watchdog that ends a restart       *)
(* belongs to OtaBoot.                                                     *)
(***************************************************************************)
EXTENDS Naturals, Sequences

CONSTANTS
    QueueLen,       \* room in the event loop's queue
    Rebooters       \* tasks that may restart the device

VARIABLES
    evq,            \* the event loop's queue
    s_started, s_connected,
    pc,             \* where each task is in usb_ncm.c
    netif,          \* the last esp_netif_action: what the interface takes the link for
    passage,        \* history: how the last passage of a window went, see Enter
    unstarted       \* history: there was no memory to post START

Tasks == {"main", "tinyusb"} \cup Rebooters
UsbEvents == {"START", "CONNECTED", "DISCONNECTED"}

\* Labels in usb_ncm_post_start_once, usb_ncm_post_connected_once and in the
\* detaching code; "idle" is before, "done" after them, and "absent" TinyUSB's
\* task before usb_ncm_start has installed the driver.
StartPcs == {"start", "start_set", "start_post"}
ConnectPcs == {"connect", "connect_set", "connect_post"}
DetachPcs == {"detach", "detach_set", "detach_post"}
Pcs == StartPcs \cup ConnectPcs \cup DetachPcs
           \cup {"absent", "install", "idle", "down", "done"}

\* The windows: from a test that lets the task go on to the event it posts.
WindowPcs == {"start_set", "start_post", "connect_set", "connect_post",
              "detach_set", "detach_post"}
InWindow == {t \in Tasks : pc[t] \in WindowPcs}

\* usb_ncm_netif_create has registered the handler and web_server_start has
\* returned, so that a restart may be asked for; usb_ncm_start is to come.
Init ==
    /\ s_started = FALSE /\ s_connected = FALSE
    /\ pc = [t \in Tasks |-> CASE t = "main"    -> "install"
                               [] t = "tinyusb" -> "absent"
                               [] OTHER         -> "idle"]
    /\ netif = "created"
    /\ passage = "clean" /\ unstarted = FALSE

\* Where a task goes after usb_ncm_post_connected_once.
Return(t) == IF t = "main" THEN "done" ELSE "idle"

\* Where it goes after the detaching code.
AfterDetach(t) == IF t \in Rebooters THEN "down" ELSE "idle"

GoTo(t, label) == pc' = [pc EXCEPT ![t] = label]

\* A task enters a window: "raced" if another is in one.  A passage that stays
\* alone is "open" until its event is in the queue, "clean" from then on.
Enter(t, label) ==
    GoTo(t, label) /\ passage' = IF InWindow = {} THEN "open" ELSE "raced"

Posts(event) ==
    /\ Len(evq) < QueueLen /\ evq' = Append(evq, event)
    /\ passage' = IF passage = "raced" THEN "raced" ELSE "clean"

\* No memory for the event, or no room and no timeout: no caller looks at the result.
Loses == UNCHANGED <<evq, passage>>

\* esp_event_post without a timeout.
PostNow(event) == Posts(event) \/ Loses
-----------------------------------------------------------------------------
(* usb_ncm_post_start_once *)

StartTest(t) ==
    /\ pc[t] = "start"
    /\ \/ s_started /\ GoTo(t, "connect") /\ UNCHANGED passage
       \/ ~s_started /\ Enter(t, "start_set")
    /\ UNCHANGED <<evq, s_started, s_connected, netif, unstarted>>

StartSet(t) ==
    /\ pc[t] = "start_set"
    /\ s_started' = TRUE
    /\ GoTo(t, "start_post")
    /\ UNCHANGED <<evq, s_connected, netif, passage, unstarted>>

\* Faulty variant: START is posted like the other events, without waiting.
StartPost_NoWait(t) ==
    /\ pc[t] = "start_post"
    /\ PostNow("START")
    /\ GoTo(t, "connect")
    /\ UNCHANGED <<s_started, s_connected, netif, unstarted>>

\* Waits for room (portMAX_DELAY); only for want of memory is the event lost.
StartPost(t) ==
    /\ pc[t] = "start_post"
    /\ \/ Posts("START") /\ UNCHANGED unstarted
       \/ Loses /\ unstarted' = TRUE
    /\ GoTo(t, "connect")
    /\ UNCHANGED <<s_started, s_connected, netif>>
-----------------------------------------------------------------------------
(* usb_ncm_post_connected_once *)

ConnectTest(t) ==
    /\ pc[t] = "connect"
    /\ \/ s_connected /\ GoTo(t, Return(t)) /\ UNCHANGED passage
       \/ ~s_connected /\ Enter(t, "connect_set")
    /\ UNCHANGED <<evq, s_started, s_connected, netif, unstarted>>

ConnectSet(t) ==
    /\ pc[t] = "connect_set"
    /\ s_connected' = TRUE
    /\ GoTo(t, "connect_post")
    /\ UNCHANGED <<evq, s_started, netif, passage, unstarted>>

ConnectPost(t) ==
    /\ pc[t] = "connect_post"
    /\ PostNow("CONNECTED")
    /\ GoTo(t, Return(t))
    /\ UNCHANGED <<s_started, s_connected, netif, unstarted>>
-----------------------------------------------------------------------------
(* usb_event_cb for TINYUSB_EVENT_DETACHED, and usb_ncm_prepare_restart *)

DetachTest(t) ==
    /\ pc[t] = "detach"
    /\ \/ ~s_connected /\ GoTo(t, AfterDetach(t)) /\ UNCHANGED passage
       \/ s_connected /\ Enter(t, "detach_set")
    /\ UNCHANGED <<evq, s_started, s_connected, netif, unstarted>>

\* Faulty variant: the flag stays set, as if the host were still there.
DetachSet_KeepsFlag(t) ==
    /\ pc[t] = "detach_set"
    /\ GoTo(t, "detach_post")
    /\ UNCHANGED <<evq, s_started, s_connected, netif, passage, unstarted>>

DetachSet(t) ==
    /\ pc[t] = "detach_set"
    /\ s_connected' = FALSE
    /\ GoTo(t, "detach_post")
    /\ UNCHANGED <<evq, s_started, netif, passage, unstarted>>

DetachPost(t) ==
    /\ pc[t] = "detach_post"
    /\ PostNow("DISCONNECTED")
    /\ GoTo(t, AfterDetach(t))
    /\ UNCHANGED <<s_started, s_connected, netif, unstarted>>

\* tud_disconnect, 300 ms, tinyusb_net_deinit and tinyusb_driver_uninstall, which
\* ends TinyUSB's task wherever it is, and with it the event it was about to post.
\* Without the driver, before it or after another restart, that fails and is logged.
TakeDown(t) ==
    /\ pc[t] = "down"
    /\ pc' = [pc EXCEPT ![t] = "done",
                        !["tinyusb"] = IF @ = "absent" THEN @ ELSE "done"]
    /\ UNCHANGED <<evq, s_started, s_connected, netif, passage, unstarted>>
-----------------------------------------------------------------------------
(* The callers *)

\* usb_ncm_start, first part: TinyUSB's task may run from here on.  (A callback
\* between the two calls can only be a detach, and finds s_connected clear.)
Install ==
    /\ pc["main"] = "install"
    /\ pc' = [pc EXCEPT !["main"] = "start", !["tinyusb"] = "idle"]
    /\ UNCHANGED <<evq, s_started, s_connected, netif, passage, unstarted>>

\* usb_ncm_init_cb: a host selects the function, once or again.
HostSelects ==
    /\ pc["tinyusb"] = "idle"
    /\ GoTo("tinyusb", "start")
    /\ UNCHANGED <<evq, s_started, s_connected, netif, passage, unstarted>>

\* usb_event_cb: the host is unplugged or gives the device up.
HostDetaches ==
    /\ pc["tinyusb"] = "idle"
    /\ GoTo("tinyusb", "detach")
    /\ UNCHANGED <<evq, s_started, s_connected, netif, passage, unstarted>>

\* reboot_task, or reboot_post_handler in its place, calls
\* usb_ncm_prepare_restart, at any time since the web server was started.
PrepareRestart(t) ==
    /\ t \in Rebooters /\ pc[t] = "idle"
    /\ GoTo(t, "detach")
    /\ UNCHANGED <<evq, s_started, s_connected, netif, passage, unstarted>>
-----------------------------------------------------------------------------
(* usb_ncm_port_event_handler, in the event loop's task *)

ActionOf(event) == CASE event = "START"        -> "started"
                     [] event = "CONNECTED"    -> "connected"
                     [] event = "DISCONNECTED" -> "disconnected"

HandlePort ==
    /\ evq # <<>> /\ Head(evq) \in UsbEvents
    /\ evq' = Tail(evq)
    /\ netif' = ActionOf(Head(evq))
    /\ UNCHANGED <<s_started, s_connected, pc, passage, unstarted>>

StartStep(t) == StartTest(t) \/ StartSet(t) \/ StartPost(t)
ConnectStep(t) == ConnectTest(t) \/ ConnectSet(t) \/ ConnectPost(t)
DetachStep(t) == DetachTest(t) \/ DetachSet(t) \/ DetachPost(t) \/ TakeDown(t)

Next ==
    \/ \E t \in Tasks : StartStep(t) \/ ConnectStep(t) \/ DetachStep(t)
    \/ Install \/ HostSelects \/ HostDetaches
    \/ \E t \in Rebooters : PrepareRestart(t)
    \/ HandlePort
-----------------------------------------------------------------------------
(* Properties *)

UsbType ==
    /\ s_started \in BOOLEAN /\ s_connected \in BOOLEAN
    /\ pc \in [Tasks -> Pcs]
    /\ netif \in {"created", "started", "connected", "disconnected"}
    /\ passage \in {"clean", "open", "raced"} /\ unstarted \in BOOLEAN

\* Nothing under way between a flag and the interface.
AtRest == InWindow = {} /\ \A i \in 1 .. Len(evq) : evq[i] \notin UsbEvents

\* Once at rest the flag that the LED and the pages show says what the interface,
\* and with it the DHCP server, does: from boot to restarts, hosts and restarts of
\* any tasks in any order, and after races and lost events too, from the next task
\* that passes a window alone and whose event gets through.  Until then, that is if
\* the last window overlapped another or its event was lost, the code promises
\* nothing: it takes no lock and looks at no result.
LinkAgrees == AtRest /\ passage = "clean" => (s_connected <=> netif = "connected")

\* The interface is started, however full the queue is and whichever task found
\* s_started clear, unless the driver is taken down for a restart first or there
\* was no memory for the event.
StartIsHandled == <>(netif # "created" \/ pc["tinyusb"] = "done" \/ unstarted)
=============================================================================
