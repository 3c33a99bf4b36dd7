------------------------------- MODULE WifiAp -------------------------------
(***************************************************************************)
(* The access point (wifi_ap.c): the event handler that counts stations    *)
(* and creates a one-shot timer when the access point stops, and the timer *)
(* callback that starts it again.                                          *)
(*                                                                         *)
(* The Wi-Fi driver is external.  What the code relies on: it posts its    *)
(* events in order and waits for room in the queue; it posts AP_START only *)
(* for a start that succeeded; a station has left, and is reported to      *)
(* have, before the access point stops.  The transmit power is set again   *)
(* on every restart and is not state of this module.                       *)
(***************************************************************************)
EXTENDS Integers, FiniteSets, Sequences

CONSTANTS
    MaxAttempts,    \* 3 in the code
    Stations,
    MaxConnection,  \* stations the driver admits: 4 in the code
    QueueLen,       \* room in the event loop's queue
    StartMayFail,   \* whether esp_wifi_start may fail
    TimerMayFail    \* whether xTimerCreate or xTimerStart may fail

ASSUME WifiApAssumption ==
    /\ MaxAttempts \in Nat \ {0}
    /\ IsFiniteSet(Stations)
    /\ MaxConnection \in Nat /\ QueueLen \in Nat \ {0}
    /\ StartMayFail \in BOOLEAN /\ TimerMayFail \in BOOLEAN

VARIABLES
    ap,         \* the driver: is the access point up?
    joined,     \* the driver: the stations it has admitted
    evq,        \* WIFI_EVENTs not yet handled
    attempts,   \* s_restart_attempts
    count,      \* s_sta_count
    timers,     \* restart timers that run
    failed      \* history: a start or a timer has failed

\* What only this module changes; the queue is the event loop's.
wvars == <<ap, joined, attempts, count, timers, failed>>
vars == <<evq, wvars>>

Events == {"AP_START", "AP_STOP", "AP_STACONNECTED", "AP_STADISCONNECTED"}

\* wifi_ap_start has returned: its esp_wifi_start succeeded, or the boot was
\* aborted.
Init ==
    /\ ap = TRUE /\ joined = {}
    /\ evq = <<"AP_START">>
    /\ attempts = 0 /\ count = 0 /\ timers = 0
    /\ failed = FALSE
-----------------------------------------------------------------------------
(* The driver *)

Post(event) == Len(evq) < QueueLen /\ evq' = Append(evq, event)

Join(s) ==
    /\ ap /\ s \notin joined /\ Cardinality(joined) < MaxConnection
    /\ joined' = joined \cup {s}
    /\ Post("AP_STACONNECTED")
    /\ UNCHANGED <<ap, attempts, count, timers, failed>>

Leave(s) ==
    /\ s \in joined
    /\ joined' = joined \ {s}
    /\ Post("AP_STADISCONNECTED")
    /\ UNCHANGED <<ap, attempts, count, timers, failed>>

ApStops ==
    /\ ap /\ joined = {}
    /\ ap' = FALSE
    /\ Post("AP_STOP")
    /\ UNCHANGED <<joined, attempts, count, timers, failed>>
-----------------------------------------------------------------------------
(* wifi_ap_event_handler, in the event loop's task *)

Receive(event) == evq # <<>> /\ Head(evq) = event /\ evq' = Tail(evq)

\* Faulty variant: a successful start does not end the count of attempts.
HandleStart_KeepsAttempts ==
    /\ Receive("AP_START")
    /\ UNCHANGED <<ap, joined, attempts, count, timers, failed>>

HandleStart ==
    /\ Receive("AP_START")
    /\ attempts' = 0
    /\ UNCHANGED <<ap, joined, count, timers, failed>>

\* The attempt is counted, then creating or starting its timer may fail.  At
\* the limit there is no attempt and no timer.
HandleStop ==
    /\ Receive("AP_STOP")
    /\ attempts' = IF attempts < MaxAttempts THEN attempts + 1 ELSE attempts
    /\ \/ timers' = timers + (attempts' - attempts) /\ UNCHANGED failed
       \/ /\ TimerMayFail /\ attempts' > attempts
          /\ failed' = TRUE
          /\ UNCHANGED timers
    /\ UNCHANGED <<ap, joined, count>>

\* Faulty variant: the two station events are mistaken for each other.
HandleJoin_Swapped ==
    /\ Receive("AP_STACONNECTED")
    /\ count' = count - 1
    /\ UNCHANGED <<ap, joined, attempts, timers, failed>>

HandleJoin ==
    /\ Receive("AP_STACONNECTED")
    /\ count' = count + 1
    /\ UNCHANGED <<ap, joined, attempts, timers, failed>>

\* Faulty variant: the count of the last station is not taken back.
HandleLeave_KeepsLast ==
    /\ Receive("AP_STADISCONNECTED")
    /\ count' = IF count > 1 THEN count - 1 ELSE count
    /\ UNCHANGED <<ap, joined, attempts, timers, failed>>

HandleLeave ==
    /\ Receive("AP_STADISCONNECTED")
    /\ count' = IF count > 0 THEN count - 1 ELSE count
    /\ UNCHANGED <<ap, joined, attempts, timers, failed>>
-----------------------------------------------------------------------------
(* ap_restart_timer_cb, in the timer task: esp_wifi_start, then the timer is   *)
(* deleted, whether that succeeded or not.                                   *)

\* Faulty variant: the timer goes on running.
RestartSucceeds_Periodic ==
    /\ timers > 0
    /\ IF ap THEN UNCHANGED <<ap, evq>> ELSE ap' = TRUE /\ Post("AP_START")
    /\ UNCHANGED <<joined, attempts, count, timers, failed>>

\* Starting an access point that is up is no error and changes nothing.
RestartSucceeds ==
    /\ timers > 0
    /\ timers' = timers - 1
    /\ IF ap THEN UNCHANGED <<ap, evq>> ELSE ap' = TRUE /\ Post("AP_START")
    /\ UNCHANGED <<joined, attempts, count, failed>>

RestartFails ==
    /\ StartMayFail /\ timers > 0
    /\ timers' = timers - 1
    /\ failed' = TRUE
    /\ UNCHANGED <<ap, joined, evq, attempts, count>>
-----------------------------------------------------------------------------
DriverStep == (\E s \in Stations : Join(s) \/ Leave(s)) \/ ApStops
HandlerStep == HandleStart \/ HandleStop \/ HandleJoin \/ HandleLeave
TimerStep == RestartSucceeds \/ RestartFails

Next == DriverStep \/ HandlerStep \/ TimerStep

Spec == Init /\ [][Next]_vars
-----------------------------------------------------------------------------
(* Properties *)

Pending(event) == Cardinality({i \in 1 .. Len(evq) : evq[i] = event})

WifiType ==
    /\ ap \in BOOLEAN
    /\ joined \subseteq Stations
    /\ attempts \in 0 .. MaxAttempts
    /\ count \in Nat
    /\ timers \in Nat
    /\ failed \in BOOLEAN

\* However late the handler runs, a stop leads to one restart: there is never a
\* second timer, and none (nor a stop that would create one) is left over once
\* the access point is up again.
OneRestartPending ==
    timers + Pending("AP_STOP") <= IF ap THEN 0 ELSE 1

\* The count that is logged is that of the stations, once the events are handled,
\* across restarts of the access point, which do not reset it.  It rests on what is
\* assumed of the driver above: every join and leave is reported once, and before
\* a stop.  (The pages list the stations by asking the driver, not by this count.)
StationsCounted ==
    count + Pending("AP_STACONNECTED")
        = Cardinality(joined) + Pending("AP_STADISCONNECTED")

\* As long as neither starting it nor a timer has failed, an access point that
\* stops comes back, every time.
ComesBack == ~ap ~> ap \/ failed
=============================================================================
