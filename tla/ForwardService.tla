--------------------------- MODULE ForwardService ---------------------------
(***************************************************************************)
(* What the port forwarder promises its clients, whatever happens to its   *)
(* tasks, its sockets and its semaphores: a client that connects is either *)
(* refused or served by a rule that admits it, once, and a rule serves     *)
(* only so many clients at a time.                                         *)
(***************************************************************************)
EXTENDS Naturals, FiniteSets

CONSTANTS
    Rules, Clients,
    Limit,          \* clients a rule serves at a time
    Admitted(_)     \* the clients a rule is for

VARIABLES
    waiting,        \* clients that have connected and had no answer yet
    served          \* served[r]: the clients rule r is serving

svars == <<waiting, served>>

Busy == waiting \cup UNION {served[r] : r \in Rules}

Init == waiting = {} /\ served = [r \in Rules |-> {}]

Connect(c) ==
    /\ c \in Clients \ Busy
    /\ waiting' = waiting \cup {c}
    /\ UNCHANGED served

Refuse(c) ==
    /\ c \in waiting
    /\ waiting' = waiting \ {c}
    /\ UNCHANGED served

Serve(r, c) ==
    /\ c \in waiting /\ c \in Admitted(r)
    /\ Cardinality(served[r]) < Limit
    /\ waiting' = waiting \ {c}
    /\ served' = [served EXCEPT ![r] = served[r] \cup {c}]

Finish(r, c) ==
    /\ c \in served[r]
    /\ served' = [served EXCEPT ![r] = served[r] \ {c}]
    /\ UNCHANGED waiting

Next ==
    \/ \E c \in Clients : Connect(c) \/ Refuse(c)
    \/ \E r \in Rules : \E c \in Clients : Serve(r, c) \/ Finish(r, c)

Spec == Init /\ [][Next]_svars
=============================================================================
