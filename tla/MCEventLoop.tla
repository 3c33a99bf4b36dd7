----------------------------- MODULE MCEventLoop -----------------------------
(* An instance of EventLoop for TLC: two stations want to join, one may, a *)
(* task restarts the device, and the queue has room for two events.        *)
EXTENDS EventLoop

CONSTANTS a, b, r1
=============================================================================
