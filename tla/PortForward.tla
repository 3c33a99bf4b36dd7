---------------------------- MODULE PortForward ----------------------------
(***************************************************************************)
(* The TCP port forwarder (port_forward.c): one listener task per rule,    *)
(* one session task per relayed client, a counting semaphore per rule and  *)
(* the lwIP socket table they all allocate from.                           *)
(*                                                                         *)
(* Each task is a program counter whose steps are the points where it      *)
(* touches shared state: the socket table, the semaphore, the accept       *)
(* backlog.  Its local socket descriptors are entries of "fd", keyed by    *)
(* the variable's name and its task, so that "who must still close this    *)
(* socket" can be asked of every descriptor at once.  Bytes are not        *)
(* modelled: a relay is running or over.                                   *)
(*                                                                         *)
(* port_forward_start copies each rule and the networks in the round of    *)
(* its loop that starts the rule, and nothing reads the configuration      *)
(* later.  Cfg is what it finds: the web server already runs then, and a   *)
(* save that replaces the configuration between two rounds is left out.    *)
(***************************************************************************)
EXTENDS Addressing, Integers, FiniteSets, Sequences

CONSTANTS
    NRules,            \* TAPLINK_MAX_PORT_FORWARDS
    SessionsPerRule,   \* PORT_FORWARD_SESSIONS_PER_RULE
    Cfg,               \* the taplink_config_t the tasks are started with
    Sessions,          \* session tasks the heap has room for
    NFds,              \* size of the lwIP socket table: CONFIG_LWIP_MAX_SOCKETS
    HttpdSocks,        \* sockets the web server may hold at once
    Conns,             \* TCP clients
    PeerAddr, Dials,   \* a client's source address and the port it dials
    NoConn

Rules == 0 .. NRules - 1
Fds == 0 .. NFds - 1
NoFd == -1

ASSUME PortForwardAssumption ==
    /\ NRules \in Nat
    /\ SessionsPerRule \in Nat \ {0}
    /\ IsFiniteSet(Sessions)
    /\ NFds \in Nat
    /\ NoConn \notin Conns

VARIABLES
    starter,   \* port_forward_start's loop index; NRules once s_started
    slots,     \* slots[r]: count of the rule's session_slots semaphore
    lpc,       \* where the rule's listener task is
    spc,       \* where a session task is
    srule,     \* the listener a session belongs to
    fd,        \* every task's local socket descriptors
    open,      \* lwIP: the allocated sockets
    sock,      \* lwIP: the client connection behind a socket
    backlog,   \* lwIP: connections a listening socket has not yet accepted
    conn       \* the clients: "idle", "up" or "hungup"

vars == <<starter, slots, lpc, spc, srule, fd, open, sock, backlog, conn>>

\* The descriptor variables: listener_task's listen_fd and (inside its loop)
\* client_fd, session_task's client_fd and target_fd, and the web server's.
FdVars == ({"listen_fd", "peer_fd"} \X Rules)
            \cup ({"client_fd", "target_fd"} \X Sessions)
            \cup ({"httpd_fd"} \X HttpdSocks)

ListenerPcs == {"none", "socket", "bind", "listen", "accept", "peer", "spawn",
                "drop", "dead"}
SessionPcs == {"none", "socket", "connect", "relay", "close_target",
               "close_client", "give", "free"}

Listening(r) == lpc[r] \in {"accept", "peer", "spawn", "drop"}

Init ==
    /\ starter = 0
    /\ slots = [r \in Rules |-> 0]
    /\ lpc = [r \in Rules |-> "none"]
    /\ spc = [s \in Sessions |-> "none"]
    /\ srule \in [Sessions -> {0}]
    /\ fd = [v \in FdVars |-> NoFd]
    /\ open = {}
    /\ sock = [f \in Fds |-> NoConn]
    /\ backlog = [r \in Rules |-> <<>>]
    /\ conn = [c \in Conns |-> "idle"]
-----------------------------------------------------------------------------
(* The socket API, as far as the tasks depend on it. *)

\* socket() and accept(): the first free entry of the table now belongs to v.
Allocate(f, v, c) ==
    /\ f \in Fds \ open
    /\ \A g \in Fds \ open : f <= g
    /\ open' = open \cup {f}
    /\ sock' = [sock EXCEPT ![f] = c]
    /\ fd' = [fd EXCEPT ![v] = f]

\* close(v): whatever the descriptor names is released; a client behind it is
\* disconnected.
Close(v) ==
    /\ open' = open \ {fd[v]}
    /\ conn' = [c \in Conns |->
                  IF fd[v] \in Fds /\ sock[fd[v]] = c THEN "idle" ELSE conn[c]]
    /\ sock' = [f \in Fds |-> IF f = fd[v] THEN NoConn ELSE sock[f]]
    /\ fd' = [fd EXCEPT ![v] = NoFd]

\* Faulty variant: the result of the take is ignored.
Take_Unchecked(r) == slots' = [slots EXCEPT ![r] = slots[r] - 1]

\* xSemaphoreTake(.., 0) and xSemaphoreGive of a counting semaphore, whose
\* count saturates at its maximum.
Take(r) == slots[r] > 0 /\ slots' = [slots EXCEPT ![r] = slots[r] - 1]
Give(r) == slots' = [slots EXCEPT ![r] =
                       IF slots[r] < SessionsPerRule THEN slots[r] + 1 ELSE slots[r]]

table == <<fd, open, sock>>
-----------------------------------------------------------------------------
(* port_forward_start, run once by the main task. *)

rule_is_valid(rule) ==
    /\ rule.enabled # 0
    /\ rule.listen_port \notin {0, 80} /\ rule.target_port # 0
    /\ rule.target_ip # 0
    /\ ip_in_subnet(rule.target_ip, Cfg.usb_subnet, Cfg.usb_prefix_len)

duplicate(i) ==
    \E j \in 0 .. i - 1 :
        /\ Cfg.port_forwards[j].enabled # 0
        /\ Cfg.port_forwards[j].listen_port = Cfg.port_forwards[i].listen_port

Startable(i) == rule_is_valid(Cfg.port_forwards[i]) /\ ~duplicate(i)

\* An unusable rule is passed over; so is one whose semaphore or task cannot
\* be allocated (the semaphore is then deleted again).
SkipRule ==
    /\ starter \in Rules
    /\ starter' = starter + 1
    /\ UNCHANGED <<slots, lpc, spc, srule, table, backlog, conn>>

StartRule ==
    /\ starter \in Rules /\ Startable(starter)
    /\ starter' = starter + 1
    /\ slots' = [slots EXCEPT ![starter] = SessionsPerRule]
    /\ lpc' = [lpc EXCEPT ![starter] = "socket"]
    /\ UNCHANGED <<spc, srule, table, backlog, conn>>
-----------------------------------------------------------------------------
(* listener_task *)

LGoto(r, from, to) == lpc[r] = from /\ lpc' = [lpc EXCEPT ![r] = to]

ListenSocket(r) ==
    /\ LGoto(r, "socket", "bind")
    /\ \E f \in Fds : Allocate(f, <<"listen_fd", r>>, NoConn)
    /\ UNCHANGED <<starter, slots, spc, srule, backlog, conn>>

ListenSocketFails(r) ==
    /\ LGoto(r, "socket", "dead")
    /\ UNCHANGED <<starter, slots, spc, srule, table, backlog, conn>>

Bind(r) ==
    /\ LGoto(r, "bind", "listen")
    /\ UNCHANGED <<starter, slots, spc, srule, table, backlog, conn>>

Listen(r) ==
    /\ LGoto(r, "listen", "accept")
    /\ UNCHANGED <<starter, slots, spc, srule, table, backlog, conn>>

\* Faulty variant: the socket of a listener that failed is not closed.
BindOrListenFails_Leaks(r) ==
    /\ LGoto(r, "bind", "dead") \/ LGoto(r, "listen", "dead")
    /\ UNCHANGED <<starter, slots, spc, srule, table, backlog, conn>>

\* bind or listen fails: the socket is closed and the task deletes itself.
BindOrListenFails(r) ==
    /\ \/ LGoto(r, "bind", "dead")
       \/ LGoto(r, "listen", "dead")
    /\ Close(<<"listen_fd", r>>)
    /\ UNCHANGED <<starter, slots, spc, srule, backlog>>

Accept(r) ==
    /\ backlog[r] # <<>>
    /\ LGoto(r, "accept", "peer")
    /\ \E f \in Fds : Allocate(f, <<"peer_fd", r>>, Head(backlog[r]))
    /\ backlog' = [backlog EXCEPT ![r] = Tail(backlog[r])]
    /\ UNCHANGED <<starter, slots, spc, srule, conn>>

\* accept fails for want of a socket or of memory, or because the client is
\* already gone: the stack drops the connection, the loop simply continues.
AcceptFails(r) ==
    /\ backlog[r] # <<>> /\ lpc[r] = "accept"
    /\ backlog' = [backlog EXCEPT ![r] = Tail(backlog[r])]
    /\ conn' = [conn EXCEPT ![Head(backlog[r])] = "idle"]
    /\ UNCHANGED <<starter, slots, lpc, spc, srule, table>>

FromWifi(f) ==
    ip_in_subnet(PeerAddr[sock[f]], Cfg.wifi_subnet, Cfg.wifi_prefix_len)

RejectPeer(r) ==
    /\ LGoto(r, "peer", "accept")
    /\ ~FromWifi(fd[<<"peer_fd", r>>])
    /\ Close(<<"peer_fd", r>>)
    /\ UNCHANGED <<starter, slots, spc, srule, backlog>>

\* Faulty variant: the listener waits for a slot instead of refusing.
LimitReached_Waits(r) == FALSE /\ LGoto(r, "peer", "accept")

LimitReached(r) ==
    /\ LGoto(r, "peer", "accept")
    /\ FromWifi(fd[<<"peer_fd", r>>]) /\ slots[r] = 0
    /\ Close(<<"peer_fd", r>>)
    /\ UNCHANGED <<starter, slots, spc, srule, backlog>>

\* Faulty variant: the peer's address is not checked.
TakeSlot_AnyPeer(r) ==
    /\ LGoto(r, "peer", "spawn")
    /\ Take(r)
    /\ UNCHANGED <<starter, spc, srule, table, backlog, conn>>

\* Faulty variant: the result of the take is ignored.
TakeSlot_Always(r) ==
    /\ LGoto(r, "peer", "spawn")
    /\ FromWifi(fd[<<"peer_fd", r>>])
    /\ slots' = [slots EXCEPT ![r] = IF slots[r] > 0 THEN slots[r] - 1 ELSE 0]
    /\ UNCHANGED <<starter, spc, srule, table, backlog, conn>>

TakeSlot(r) ==
    /\ LGoto(r, "peer", "spawn")
    /\ FromWifi(fd[<<"peer_fd", r>>])
    /\ Take(r)
    /\ UNCHANGED <<starter, spc, srule, table, backlog, conn>>

\* Faulty variant: the session reads the rule from a variable all share.
SpawnSession_SharedRule(r, s) ==
    /\ LGoto(r, "spawn", "accept")
    /\ spc[s] = "none"
    /\ spc' = [spc EXCEPT ![s] = "socket"]
    /\ srule' = [srule EXCEPT ![s] = 0]
    /\ fd' = [fd EXCEPT ![<<"client_fd", s>>] = fd[<<"peer_fd", r>>],
                        ![<<"peer_fd", r>>] = NoFd]
    /\ UNCHANGED <<starter, slots, open, sock, backlog, conn>>

\* xTaskCreate(session_task): the session now owns the client's socket.
SpawnSession(r, s) ==
    /\ LGoto(r, "spawn", "accept")
    /\ spc[s] = "none"
    /\ spc' = [spc EXCEPT ![s] = "socket"]
    /\ srule' = [srule EXCEPT ![s] = r]
    /\ fd' = [fd EXCEPT ![<<"client_fd", s>>] = fd[<<"peer_fd", r>>],
                        ![<<"peer_fd", r>>] = NoFd]
    /\ UNCHANGED <<starter, slots, open, sock, backlog, conn>>

\* Faulty variant: a failed xTaskCreate keeps the slot.
SpawnFails_KeepsSlot(r) ==
    /\ LGoto(r, "spawn", "drop")
    /\ UNCHANGED <<starter, slots, spc, srule, table, backlog, conn>>

\* No memory for the session or for its task: the slot goes back first, the
\* socket is closed after.
SpawnFails(r) ==
    /\ LGoto(r, "spawn", "drop")
    /\ Give(r)
    /\ UNCHANGED <<starter, spc, srule, table, backlog, conn>>

\* Faulty variant: the socket of a client without a session is forgotten.
DropClient_Leaks(r) ==
    /\ LGoto(r, "drop", "accept")
    /\ fd' = [fd EXCEPT ![<<"peer_fd", r>>] = NoFd]
    /\ UNCHANGED <<starter, slots, spc, srule, open, sock, backlog, conn>>

DropClient(r) ==
    /\ LGoto(r, "drop", "accept")
    /\ Close(<<"peer_fd", r>>)
    /\ UNCHANGED <<starter, slots, spc, srule, backlog>>
-----------------------------------------------------------------------------
(* session_task *)

SGoto(s, from, to) == spc[s] = from /\ spc' = [spc EXCEPT ![s] = to]

TargetSocket(s) ==
    /\ SGoto(s, "socket", "connect")
    /\ \E f \in Fds : Allocate(f, <<"target_fd", s>>, NoConn)
    /\ UNCHANGED <<starter, slots, lpc, srule, backlog, conn>>

\* goto done with target_fd = -1: only the client's socket is closed.
TargetSocketFails(s) ==
    /\ SGoto(s, "socket", "close_client")
    /\ UNCHANGED <<starter, slots, lpc, srule, table, backlog, conn>>

\* connect_with_timeout answers within PORT_FORWARD_CONNECT_TIMEOUT_SEC.
ConnectTarget(s) ==
    /\ \/ SGoto(s, "connect", "relay")
       \/ SGoto(s, "connect", "close_target")
    /\ UNCHANGED <<starter, slots, lpc, srule, table, backlog, conn>>

\* The relay loop breaks: end of stream or error on the target's side, a send
\* or receive timeout, or PORT_FORWARD_IDLE_TIMEOUT_SEC of silence.
RelayEnds(s) ==
    /\ SGoto(s, "relay", "close_target")
    /\ UNCHANGED <<starter, slots, lpc, srule, table, backlog, conn>>

\* Faulty variant: select watches the target only.
RelaySeesHangup_Deaf(s) == FALSE /\ RelayEnds(s)

\* ... or the client's end of stream, which select and recv report.
RelaySeesHangup(s) ==
    /\ fd[<<"client_fd", s>>] \in Fds
    /\ sock[fd[<<"client_fd", s>>]] \in Conns
    /\ conn[sock[fd[<<"client_fd", s>>]]] = "hungup"
    /\ RelayEnds(s)

\* Faulty variant: the slot is given back before the sockets are closed.
CloseTarget_GivesFirst(s) ==
    /\ SGoto(s, "close_target", "close_client")
    /\ Close(<<"target_fd", s>>)
    /\ Give(srule[s])
    /\ UNCHANGED <<starter, lpc, srule, backlog>>

CloseTarget(s) ==
    /\ SGoto(s, "close_target", "close_client")
    /\ Close(<<"target_fd", s>>)
    /\ UNCHANGED <<starter, slots, lpc, srule, backlog>>

CloseClient(s) ==
    /\ SGoto(s, "close_client", "give")
    /\ Close(<<"client_fd", s>>)
    /\ UNCHANGED <<starter, slots, lpc, srule, backlog>>

GiveSlot(s) ==
    /\ SGoto(s, "give", "free")
    /\ Give(srule[s])
    /\ UNCHANGED <<starter, lpc, srule, table, backlog, conn>>

\* free(session); vTaskDelete(NULL)
FreeSession(s) ==
    /\ SGoto(s, "free", "none")
    /\ UNCHANGED <<starter, slots, lpc, srule, table, backlog, conn>>
-----------------------------------------------------------------------------
(* The clients, and the web server as a second user of the socket table. *)

\* listen(listen_fd, PORT_FORWARD_SESSIONS_PER_RULE) bounds the backlog.
Dial(c, r) ==
    /\ conn[c] = "idle"
    /\ Listening(r) /\ Dials[c] = Cfg.port_forwards[r].listen_port
    /\ Len(backlog[r]) < SessionsPerRule
    /\ conn' = [conn EXCEPT ![c] = "up"]
    /\ backlog' = [backlog EXCEPT ![r] = Append(backlog[r], c)]
    /\ UNCHANGED <<starter, slots, lpc, spc, srule, table>>

HangUp(c) ==
    /\ conn[c] = "up"
    /\ conn' = [conn EXCEPT ![c] = "hungup"]
    /\ UNCHANGED <<starter, slots, lpc, spc, srule, table, backlog>>

HttpdOpen(h) ==
    /\ fd[<<"httpd_fd", h>>] = NoFd
    /\ \E f \in Fds : Allocate(f, <<"httpd_fd", h>>, NoConn)
    /\ UNCHANGED <<starter, slots, lpc, spc, srule, backlog, conn>>

HttpdClose(h) ==
    /\ fd[<<"httpd_fd", h>>] # NoFd
    /\ Close(<<"httpd_fd", h>>)
    /\ UNCHANGED <<starter, slots, lpc, spc, srule, backlog>>
-----------------------------------------------------------------------------
StartStep == SkipRule \/ StartRule

ListenerStep(r) ==
    \/ ListenSocket(r) \/ ListenSocketFails(r) \/ Bind(r) \/ Listen(r)
    \/ BindOrListenFails(r) \/ Accept(r) \/ AcceptFails(r)
    \/ RejectPeer(r) \/ LimitReached(r) \/ TakeSlot(r)
    \/ (\E s \in Sessions : SpawnSession(r, s)) \/ SpawnFails(r) \/ DropClient(r)

\* What a session does without waiting for the target or for silence.
SessionStep(s) ==
    \/ TargetSocket(s) \/ TargetSocketFails(s) \/ ConnectTarget(s)
    \/ RelaySeesHangup(s) \/ CloseTarget(s) \/ CloseClient(s) \/ GiveSlot(s)
    \/ FreeSession(s)

ClientStep(c) == (\E r \in Rules : Dial(c, r)) \/ HangUp(c)
HttpdStep(h) == HttpdOpen(h) \/ HttpdClose(h)

Next ==
    \/ StartStep
    \/ \E r \in Rules : ListenerStep(r)
    \/ \E s \in Sessions : SessionStep(s) \/ RelayEnds(s)
    \/ \E c \in Conns : ClientStep(c)
    \/ \E h \in HttpdSocks : HttpdStep(h)

Spec == Init /\ [][Next]_vars

\* FreeRTOS runs every ready task of the firmware; nothing is assumed of the
\* clients, of the target or of the web server.
Fairness ==
    /\ WF_vars(StartStep)
    /\ \A r \in Rules : WF_vars(ListenerStep(r))
    /\ \A s \in Sessions : WF_vars(SessionStep(s))

FairSpec == Spec /\ Fairness
-----------------------------------------------------------------------------
(* Properties *)

\* Every variable has its type.
TypeOK ==
    /\ starter \in 0 .. NRules
    /\ slots \in [Rules -> 0 .. SessionsPerRule]
    /\ lpc \in [Rules -> ListenerPcs]
    /\ spc \in [Sessions -> SessionPcs]
    /\ srule \in [Sessions -> Nat]
    /\ fd \in [FdVars -> Fds \cup {NoFd}]
    /\ open \subseteq Fds
    /\ sock \in [Fds -> Conns \cup {NoConn}]
    /\ backlog \in [Rules -> Seq(Conns)]
    /\ conn \in [Conns -> {"idle", "up", "hungup"}]

\* The sessions that have a slot of r's semaphore and have not given it back.
SlotHolders(r) ==
    {s \in Sessions : srule[s] = r /\ spc[s] \notin {"none", "free"}}

\* No slot is lost and none is given back twice, whichever way a session fails:
\* the semaphore's count, the sessions that hold a slot and the one the
\* listener holds while it creates a task always add up to the limit.
SlotAccounting ==
    \A r \in Rules : lpc[r] # "none" =>
        slots[r] + Cardinality(SlotHolders(r)) + (IF lpc[r] = "spawn" THEN 1 ELSE 0)
          = SessionsPerRule

\* A socket is in the table exactly while one variable of one task names it:
\* no path leaks a socket and none can close a descriptor another task, or the
\* web server, has since been given.
FdOwnership ==
    /\ open = {fd[v] : v \in FdVars} \ {NoFd}
    /\ \A v, w \in FdVars : v # w /\ fd[v] # NoFd => fd[v] # fd[w]

ListenerHeld(r) ==
    /\ fd[<<"listen_fd", r>>] # NoFd <=> lpc[r] \in {"bind", "listen"} \/ Listening(r)
    /\ fd[<<"peer_fd", r>>] # NoFd <=> lpc[r] \in {"peer", "spawn", "drop"}
SessionHeld(s) ==
    /\ fd[<<"client_fd", s>>] # NoFd <=> spc[s] \notin {"none", "give", "free"}
    /\ fd[<<"target_fd", s>>] # NoFd <=> spc[s] \in {"connect", "relay", "close_target"}

\* A task holds its sockets for exactly the span of its code that uses them;
\* in particular a listener or a session that has ended holds none.
HeldWhileUsed ==
    (\A r \in Rules : ListenerHeld(r)) /\ (\A s \in Sessions : SessionHeld(s))

\* Whatever descriptors are closed and reused in between, the socket a session
\* relays is that of a Wi-Fi client which dialled the session's own rule.
RelaysItsOwnClient ==
    \A s \in Sessions : fd[<<"client_fd", s>>] # NoFd =>
        LET c == sock[fd[<<"client_fd", s>>]] IN
        /\ c \in Conns
        /\ ip_in_subnet(PeerAddr[c], Cfg.wifi_subnet, Cfg.wifi_prefix_len)
        /\ Dials[c] = Cfg.port_forwards[srule[s]].listen_port

\* One rule never takes more than 2 + 2 * SessionsPerRule sockets (6 of the 24
\* in the code): a session returns its slot only after it closed its sockets.
RuleSockets(r) ==
    {v \in FdVars : fd[v] # NoFd /\ \/ v[1] \in {"listen_fd", "peer_fd"} /\ v[2] = r
                                    \/ v[1] \in {"client_fd", "target_fd"} /\ srule[v[2]] = r}
RuleSocketBudget ==
    \A r \in Rules : Cardinality(RuleSockets(r)) <= 2 + 2 * SessionsPerRule

\* A client that hangs up, queued or relayed, is always let go of in the end: a
\* dead peer does not keep a socket or a slot.
HangupIsNoticed ==
    \A c \in Conns : conn[c] = "hungup" ~> conn[c] # "hungup"

\* A queued client is always answered, even while every slot is taken and the
\* sessions that hold them never end: it is relayed or refused, never kept
\* waiting.
Queued(c) == \E r \in Rules : \E i \in 1 .. Len(backlog[r]) : backlog[r][i] = c
QueueIsDrained ==
    \A c \in Conns : Queued(c) ~> ~Queued(c)

\* The clients rule r's sessions are relaying or about to, and those that have
\* connected and belong to no session yet.
ServedBy(r) ==
    {sock[fd[<<"client_fd", s>>]] :
        s \in {t \in Sessions : srule[t] = r /\ fd[<<"client_fd", t>>] # NoFd}}
Unanswered ==
    {c \in Conns : conn[c] # "idle"} \ UNION {ServedBy(r) : r \in Rules}
AdmittedBy(r) ==
    {c \in Conns : /\ Dials[c] = Cfg.port_forwards[r].listen_port
                   /\ ip_in_subnet(PeerAddr[c], Cfg.wifi_subnet, Cfg.wifi_prefix_len)}

Service == INSTANCE ForwardService WITH
    Clients <- Conns, Limit <- SessionsPerRule, Admitted <- AdmittedBy,
    waiting <- Unanswered, served <- [r \in Rules |-> ServedBy(r)]

\* Tasks, semaphore and descriptors together do what the abstract forwarder
\* promises: a client is refused, or served once, by the rule it dialled, and
\* never more than SessionsPerRule of them at a time.
ImplementsService == Service!Spec
=============================================================================
