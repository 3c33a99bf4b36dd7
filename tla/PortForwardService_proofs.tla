--------------------- MODULE PortForwardService_proofs ----------------------
(* Whom the sessions relay: the clients of a rule's own port, each in one   *)
(* place at a time.  From this, the forwarder implements ForwardService.    *)
EXTENDS PortForward_proofs

USE DEF NoFd

Peer(r) == <<"peer_fd", r>>
Client(s) == <<"client_fd", s>>
ClientVars == ({"peer_fd"} \X Rules) \cup ({"client_fd"} \X Sessions)

Port(r) == Cfg.port_forwards[r].listen_port
Behind(v, c) == fd[v] # NoFd /\ sock[fd[v]] = c

\* A client that is up is in one place: it waits in one backlog, once, or it is
\* behind one socket, which belongs to a listener's peer_fd or a session's
\* client_fd.
BehindIsUp == \A v \in FdVars : \A c \in Conns :
                 Behind(v, c) => v \in ClientVars /\ conn[c] # "idle"
HasClient == \A v \in ClientVars : fd[v] # NoFd => sock[fd[v]] \in Conns
OneSocket == \A v, w \in ClientVars : \A c \in Conns :
                Behind(v, c) /\ Behind(w, c) => v = w
QueuedIsUp == \A r \in Rules : \A i \in 1 .. Len(backlog[r]) :
                 /\ conn[backlog[r][i]] # "idle"
                 /\ \A v \in ClientVars : ~Behind(v, backlog[r][i])
QueuedOnce == \A q, r \in Rules :
                 \A i \in 1 .. Len(backlog[q]), j \in 1 .. Len(backlog[r]) :
                    backlog[q][i] = backlog[r][j] => q = r /\ i = j

ClientInv == BehindIsUp /\ HasClient /\ OneSocket /\ QueuedIsUp /\ QueuedOnce

\* A descriptor that names the socket it named before.
SameSocket(v) == fd'[v] = fd[v] /\ (fd[v] # NoFd => sock'[fd[v]] = sock[fd[v]])

\* peer_fd and client_fd are descriptor variables.
LEMMA ClientVarsAreVars ==
    /\ ClientVars \subseteq FdVars
    /\ \A r \in Rules : Peer(r) \in ClientVars
    /\ \A s \in Sessions : Client(s) \in ClientVars
  BY DEF ClientVars, FdVars, Peer, Client

\* Allocating and closing concern one descriptor's socket and no other's.
LEMMA AllocateSocks ==
    ASSUME PortForwardAssumption, TypeOK, FdOwnership, NEW f, NEW v \in FdVars,
           NEW c \in Conns \cup {NoConn},
           fd[v] = NoFd, Allocate(f, v, c)
    PROVE  /\ fd'[v] # NoFd /\ sock'[fd'[v]] = c
           /\ \A w \in FdVars : w # v => SameSocket(w)
  <1>1. f \in Fds /\ f # NoFd /\ f \notin open
    BY DEF Allocate, Fds, PortForwardAssumption
  <1>2. fd'[v] = f /\ sock'[f] = c BY <1>1 DEF Allocate, TypeOK
  <1>3. \A w \in FdVars : fd[w] # NoFd => fd[w] # f BY <1>1 DEF FdOwnership
  <1>4. \A g \in Fds : g # f => sock'[g] = sock[g] BY DEF Allocate, TypeOK
  <1>5. \A w \in FdVars : w # v => fd'[w] = fd[w] BY DEF Allocate, TypeOK
  <1>6. \A w \in FdVars : fd[w] # NoFd => fd[w] \in Fds BY DEF TypeOK
  <1> QED BY <1>1, <1>2, <1>3, <1>4, <1>5, <1>6 DEF SameSocket

\* ... and a client behind the closed one is disconnected.
LEMMA CloseSocks ==
    ASSUME PortForwardAssumption, TypeOK, FdOwnership, NEW v \in FdVars, Close(v)
    PROVE  /\ fd'[v] = NoFd
           /\ \A w \in FdVars : w # v => SameSocket(w)
           /\ \A c \in Conns : conn'[c] = IF Behind(v, c) THEN "idle" ELSE conn[c]
  <1>1. fd'[v] = NoFd /\ \A w \in FdVars : w # v => fd'[w] = fd[w]
    BY DEF Close, TypeOK
  <1>2. \A w \in FdVars : fd[w] # NoFd <=> fd[w] \in Fds
    BY DEF TypeOK, Fds, PortForwardAssumption
  <1>3. \A w \in FdVars : w # v /\ fd[w] # NoFd => sock'[fd[w]] = sock[fd[w]]
    <2> SUFFICES ASSUME NEW w \in FdVars, w # v, fd[w] # NoFd
                 PROVE  sock'[fd[w]] = sock[fd[w]]
      OBVIOUS
    <2>1. fd[w] # fd[v] /\ fd[w] \in Fds BY <1>2 DEF FdOwnership
    <2> QED BY <2>1 DEF Close
  <1>4. \A c \in Conns : conn'[c] = IF Behind(v, c) THEN "idle" ELSE conn[c]
    BY <1>2 DEF Close, Behind
  <1> QED BY <1>1, <1>3, <1>4 DEF SameSocket
-----------------------------------------------------------------------------
(* One lemma for each way a step can treat the clients. *)

\* Sockets of clients stay, no client comes or goes.
Untouched ==
    /\ UNCHANGED <<backlog, srule>>
    /\ \A c \in Conns : conn'[c] = "idle" <=> conn[c] = "idle"
    /\ \A v \in ClientVars : SameSocket(v)
    /\ \A v \in FdVars : \/ v \in ClientVars \/ SameSocket(v)
                         \/ fd'[v] = NoFd \/ sock'[fd'[v]] = NoConn

\* ... and everything said of the clients holds as before.
LEMMA ClientsUntouched ==
    ASSUME PortForwardAssumption, TypeOK, ClientInv, Untouched
    PROVE  ClientInv'
  <1> USE DEF Untouched
  <1>1. \A v \in ClientVars : \A c : Behind(v, c)' <=> Behind(v, c)
    BY DEF SameSocket, Behind
  <1>2. \A v \in FdVars : \A c \in Conns :
           Behind(v, c)' => v \in ClientVars \/ Behind(v, c)
    BY DEF SameSocket, Behind, PortForwardAssumption
  <1>3. \A r \in Rules : \A i \in 1 .. Len(backlog[r]) : backlog[r][i] \in Conns
    BY DEF TypeOK
  <1>4. BehindIsUp'
    BY <1>1, <1>2 DEF ClientInv, BehindIsUp
  <1>5. HasClient'
    BY DEF ClientInv, HasClient, SameSocket
  <1>6. OneSocket'
    BY <1>1 DEF ClientInv, OneSocket
  <1>7. QueuedIsUp'
    BY <1>1, <1>3 DEF ClientInv, QueuedIsUp
  <1>8. QueuedOnce'
    BY DEF ClientInv, QueuedOnce
  <1> QED BY <1>4, <1>5, <1>6, <1>7, <1>8 DEF ClientInv

\* A client's socket is closed.
LEMMA ClientClosed ==
    ASSUME TypeOK, FdOwnership, ClientInv, PortForwardAssumption, UNCHANGED backlog,
           NEW v \in ClientVars, Close(v)
    PROVE  ClientInv'
  <1>0. v \in FdVars BY ClientVarsAreVars
  <1>1. /\ fd'[v] = NoFd
        /\ \A w \in FdVars : w # v => SameSocket(w)
        /\ \A c \in Conns : conn'[c] = IF Behind(v, c) THEN "idle" ELSE conn[c]
    BY <1>0, CloseSocks
  <1>2. \A w \in FdVars : \A c : Behind(w, c)' <=> Behind(w, c) /\ w # v
    BY <1>1 DEF Behind, SameSocket
  <1>3. \A r \in Rules : \A i \in 1 .. Len(backlog[r]) : backlog[r][i] \in Conns
    BY DEF TypeOK
  <1>4. BehindIsUp'
    BY <1>0, <1>1, <1>2 DEF ClientInv, BehindIsUp, OneSocket
  <1>5. HasClient'
    BY <1>1, ClientVarsAreVars DEF ClientInv, HasClient, SameSocket
  <1>6. OneSocket'
    BY <1>2, ClientVarsAreVars DEF ClientInv, OneSocket
  <1>7. QueuedIsUp'
    BY <1>1, <1>2, <1>3, ClientVarsAreVars DEF ClientInv, QueuedIsUp
  <1>8. QueuedOnce'
    BY DEF ClientInv, QueuedOnce
  <1> QED BY <1>4, <1>5, <1>6, <1>7, <1>8 DEF ClientInv

\* The rest of a backlog, by position.
LEMMA TailByPosition ==
    ASSUME TypeOK, NEW r \in Rules, backlog[r] # <<>>,
           backlog' = [backlog EXCEPT ![r] = Tail(backlog[r])]
    PROVE  /\ 1 \in 1 .. Len(backlog[r])
           /\ Head(backlog[r]) = backlog[r][1] /\ Head(backlog[r]) \in Conns
           /\ \A i \in 1 .. Len(backlog'[r]) :
                i + 1 \in 2 .. Len(backlog[r]) /\ backlog'[r][i] = backlog[r][i + 1]
           /\ \A q \in Rules : q # r => backlog'[q] = backlog[q]
  <1>1. backlog[r] \in Seq(Conns) BY DEF TypeOK
  <1>2. backlog'[r] = Tail(backlog[r]) /\ \A q \in Rules : q # r => backlog'[q] = backlog[q]
    BY DEF TypeOK
  <1>3. Len(backlog[r]) \in Nat /\ Len(backlog[r]) # 0 BY <1>1
  <1>4. Head(backlog[r]) = backlog[r][1] /\ Head(backlog[r]) \in Conns
    BY <1>1, <1>3
  <1>5. ASSUME NEW b \in Seq(Conns), Len(b) # 0
        PROVE  /\ Len(Tail(b)) = Len(b) - 1
               /\ \A i \in 1 .. Len(Tail(b)) : Tail(b)[i] = b[i + 1]
    BY <1>5
  <1>6. /\ Len(backlog'[r]) = Len(backlog[r]) - 1
        /\ \A i \in 1 .. Len(backlog'[r]) : backlog'[r][i] = backlog[r][i + 1]
    BY <1>1, <1>2, <1>3, <1>5
  <1> QED BY <1>2, <1>3, <1>4, <1>6

\* Where a client was in a backlog before the head of r's was removed.
Was(r, q, i) == IF q = r THEN i + 1 ELSE i

\* What is left is what was there, without the first client,
LEMMA StillQueued ==
    ASSUME TypeOK, ClientInv, NEW r \in Rules, backlog[r] # <<>>,
           backlog' = [backlog EXCEPT ![r] = Tail(backlog[r])],
           NEW q \in Rules, NEW i \in 1 .. Len(backlog'[q])
    PROVE  /\ Was(r, q, i) \in 1 .. Len(backlog[q])
           /\ backlog'[q][i] = backlog[q][Was(r, q, i)]
           /\ backlog[q][Was(r, q, i)] # Head(backlog[r])
  <1> USE DEF Was
  <1>1. 1 \in 1 .. Len(backlog[r]) /\ Head(backlog[r]) = backlog[r][1]
    BY TailByPosition
  <1>2. CASE q = r
    <2>1. i + 1 \in 2 .. Len(backlog[r]) /\ backlog'[r][i] = backlog[r][i + 1]
      BY <1>2, TailByPosition
    <2>2. backlog[r][i + 1] # backlog[r][1]
      BY <1>1, <2>1 DEF ClientInv, QueuedOnce
    <2> QED BY <1>1, <1>2, <2>1, <2>2
  <1>3. CASE q # r
    <2>1. backlog'[q] = backlog[q] BY <1>3, TailByPosition
    <2>2. backlog[q][i] # backlog[r][1] BY <1>1, <1>3, <2>1 DEF ClientInv, QueuedOnce
    <2> QED BY <1>1, <1>3, <2>1, <2>2
  <1> QED BY <1>2, <1>3

\* ... and still with each client once.
LEMMA TailQueue ==
    ASSUME TypeOK, ClientInv, NEW r \in Rules, backlog[r] # <<>>,
           backlog' = [backlog EXCEPT ![r] = Tail(backlog[r])]
    PROVE  QueuedOnce'
  <1> SUFFICES ASSUME NEW p \in Rules, NEW q \in Rules,
                      NEW i \in 1 .. Len(backlog'[p]), NEW j \in 1 .. Len(backlog'[q]),
                      backlog'[p][i] = backlog'[q][j]
               PROVE  p = q /\ i = j
    BY DEF QueuedOnce
  <1>1. /\ Was(r, p, i) \in 1 .. Len(backlog[p]) /\ backlog'[p][i] = backlog[p][Was(r, p, i)]
        /\ Was(r, q, j) \in 1 .. Len(backlog[q]) /\ backlog'[q][j] = backlog[q][Was(r, q, j)]
    BY StillQueued
  <1>2. p = q /\ Was(r, p, i) = Was(r, q, j)
    BY <1>1 DEF ClientInv, QueuedOnce
  <1> QED BY <1>2 DEF Was

\* The listener accepts the first client of its backlog.
LEMMA ClientAccepted ==
    ASSUME PortForwardAssumption, TypeOK, FdOwnership, ClientInv, NEW r \in Rules,
           fd[Peer(r)] = NoFd, Accept(r)
    PROVE  ClientInv'
  <1> DEFINE c == Head(backlog[r])
  <1>1. /\ backlog[r] # <<>> /\ backlog' = [backlog EXCEPT ![r] = Tail(backlog[r])]
        /\ UNCHANGED conn
    BY DEF Accept
  <1>2. c \in Conns /\ 1 \in 1 .. Len(backlog[r]) /\ c = backlog[r][1]
    BY <1>1, TailByPosition
  <1>3. fd'[Peer(r)] # NoFd /\ sock'[fd'[Peer(r)]] = c
        /\ \A w \in FdVars : w # Peer(r) => SameSocket(w)
    <2>1. PICK f : Allocate(f, Peer(r), c) BY DEF Accept, Peer
    <2> QED BY <1>2, <2>1, AllocateSocks, ClientVarsAreVars
  <1>4. conn[c] # "idle" /\ \A w \in ClientVars : ~Behind(w, c)
    BY <1>2 DEF ClientInv, QueuedIsUp
  <1>5. /\ \A w \in FdVars : \A d : w # Peer(r) => (Behind(w, d)' <=> Behind(w, d))
        /\ \A d : Behind(Peer(r), d)' <=> d = c
    BY <1>3 DEF Behind, SameSocket
  <1>6. Peer(r) \in ClientVars /\ ClientVars \subseteq FdVars BY ClientVarsAreVars
  <1> HIDE DEF c
  <1>7. BehindIsUp'
    BY <1>1, <1>4, <1>5, <1>6 DEF ClientInv, BehindIsUp
  <1>8. HasClient'
    BY <1>2, <1>3, <1>6 DEF ClientInv, HasClient, SameSocket
  <1>9. OneSocket'
    BY <1>4, <1>5, <1>6 DEF ClientInv, OneSocket
  <1>10. QueuedOnce' BY <1>1, TailQueue
  <1>11. QueuedIsUp'
    <2> SUFFICES ASSUME NEW q \in Rules, NEW i \in 1 .. Len(backlog'[q])
                 PROVE  (/\ conn[backlog[q][i]] # "idle"
                         /\ \A w \in ClientVars : ~Behind(w, backlog[q][i]))'
      BY DEF QueuedIsUp
    <2> DEFINE j == Was(r, q, i)
    <2>1. j \in 1 .. Len(backlog[q]) /\ backlog'[q][i] = backlog[q][j] /\ backlog[q][j] # c
      BY <1>1, StillQueued DEF c
    <2> HIDE DEF j
    <2> QED BY <1>1, <1>5, <1>6, <2>1 DEF ClientInv, QueuedIsUp
  <1> QED BY <1>7, <1>8, <1>9, <1>10, <1>11 DEF ClientInv

\* The stack drops the first client of a backlog.
LEMMA ClientDropped ==
    ASSUME TypeOK, ClientInv, NEW r \in Rules, AcceptFails(r)
    PROVE  ClientInv'
  <1> DEFINE c == Head(backlog[r])
  <1>1. /\ backlog[r] # <<>> /\ backlog' = [backlog EXCEPT ![r] = Tail(backlog[r])]
        /\ conn' = [conn EXCEPT ![c] = "idle"] /\ UNCHANGED <<fd, sock>>
    BY DEF AcceptFails, table
  <1>2. c \in Conns /\ 1 \in 1 .. Len(backlog[r]) /\ c = backlog[r][1]
    BY <1>1, TailByPosition
  <1>3. \A w \in ClientVars : ~Behind(w, c)
    BY <1>2 DEF ClientInv, QueuedIsUp
  <1>4. \A w, d : Behind(w, d)' <=> Behind(w, d)
    BY <1>1 DEF Behind
  <1>5. \A d \in Conns : d # c => conn'[d] = conn[d] BY <1>1 DEF TypeOK
  <1> HIDE DEF c
  <1>6. BehindIsUp'
    BY <1>3, <1>4, <1>5 DEF ClientInv, BehindIsUp
  <1>7. HasClient'
    BY <1>1 DEF ClientInv, HasClient
  <1>8. OneSocket'
    BY <1>4 DEF ClientInv, OneSocket
  <1>9. QueuedOnce' BY <1>1, TailQueue
  <1>10. QueuedIsUp'
    <2> SUFFICES ASSUME NEW q \in Rules, NEW i \in 1 .. Len(backlog'[q])
                 PROVE  (/\ conn[backlog[q][i]] # "idle"
                         /\ \A w \in ClientVars : ~Behind(w, backlog[q][i]))'
      BY DEF QueuedIsUp
    <2> DEFINE j == Was(r, q, i)
    <2>1. j \in 1 .. Len(backlog[q]) /\ backlog'[q][i] = backlog[q][j] /\ backlog[q][j] # c
      BY <1>1, StillQueued DEF c
    <2> HIDE DEF j
    <2>2. backlog[q][j] \in Conns BY <2>1 DEF TypeOK
    <2> QED BY <1>4, <1>5, <2>1, <2>2 DEF ClientInv, QueuedIsUp
  <1> QED BY <1>6, <1>7, <1>8, <1>9, <1>10 DEF ClientInv

\* A listener hands the client's socket to the session it starts.
LEMMA ClientHandedOver ==
    ASSUME TypeOK, ClientInv, NEW r \in Rules, NEW s \in Sessions,
           fd[Client(s)] = NoFd, SpawnSession(r, s)
    PROVE  /\ ClientInv'
           /\ \A c : Behind(Client(s), c)' <=> Behind(Peer(r), c)
           /\ \A w \in FdVars \ {Peer(r), Client(s)} : SameSocket(w)
           /\ fd'[Peer(r)] = NoFd
  <1>1. Peer(r) \in FdVars /\ Client(s) \in FdVars /\ Peer(r) # Client(s)
    BY ClientVarsAreVars, VarsDiffer DEF Peer, Client
  <1>2. /\ fd'[Client(s)] = fd[Peer(r)] /\ fd'[Peer(r)] = NoFd
        /\ \A w \in FdVars \ {Peer(r), Client(s)} : fd'[w] = fd[w]
        /\ UNCHANGED <<sock, backlog, conn>>
    BY <1>1 DEF SpawnSession, TypeOK, Peer, Client
  <1>3. /\ \A c : Behind(Client(s), c)' <=> Behind(Peer(r), c)
        /\ \A c : ~Behind(Peer(r), c)' /\ ~Behind(Client(s), c)
        /\ \A w \in FdVars \ {Peer(r), Client(s)} : \A c : Behind(w, c)' <=> Behind(w, c)
    BY <1>2 DEF Behind
  <1>4. Peer(r) \in ClientVars /\ Client(s) \in ClientVars /\ ClientVars \subseteq FdVars
    BY ClientVarsAreVars
  <1>5. BehindIsUp'
    BY <1>2, <1>3, <1>4 DEF ClientInv, BehindIsUp
  <1>6. HasClient'
    BY <1>2, <1>4 DEF ClientInv, HasClient
  <1>7. OneSocket'
    BY <1>3, <1>4 DEF ClientInv, OneSocket
  <1>8. QueuedIsUp'
    BY <1>2, <1>3, <1>4 DEF ClientInv, QueuedIsUp
  <1>9. QueuedOnce'
    BY <1>2 DEF ClientInv, QueuedOnce
  <1> QED BY <1>2, <1>3, <1>5, <1>6, <1>7, <1>8, <1>9 DEF ClientInv, SameSocket

\* A backlog after a client has dialled, by position.
LEMMA AppendByPosition ==
    ASSUME TypeOK, NEW r \in Rules, NEW c \in Conns,
           backlog' = [backlog EXCEPT ![r] = Append(backlog[r], c)],
           NEW q \in Rules, NEW i \in 1 .. Len(backlog'[q])
    PROVE  \/ i \in 1 .. Len(backlog[q]) /\ backlog'[q][i] = backlog[q][i]
           \/ q = r /\ i = Len(backlog[r]) + 1 /\ backlog'[q][i] = c
  <1>1. backlog[r] \in Seq(Conns) /\ backlog[q] \in Seq(Conns) BY DEF TypeOK
  <1>2. CASE q # r
    BY <1>2 DEF TypeOK
  <1>3. CASE q = r
    <2>1. backlog'[q] = Append(backlog[r], c) BY <1>3 DEF TypeOK
    <2> QED BY <1>1, <1>3, <2>1
  <1> QED BY <1>2, <1>3

\* A client dials.
LEMMA ClientDials ==
    ASSUME TypeOK, ClientInv, NEW r \in Rules, NEW c \in Conns, Dial(c, r)
    PROVE  ClientInv'
  <1>1. /\ conn[c] = "idle" /\ conn'[c] = "up" /\ \A d \in Conns : d # c => conn'[d] = conn[d]
        /\ backlog' = [backlog EXCEPT ![r] = Append(backlog[r], c)]
        /\ UNCHANGED <<fd, sock>>
    BY DEF Dial, TypeOK, table
  <1>2. \A w, d : Behind(w, d)' <=> Behind(w, d) BY <1>1 DEF Behind
  <1>3. \A w \in FdVars : ~Behind(w, c) BY <1>1 DEF ClientInv, BehindIsUp
  <1>4. ClientVars \subseteq FdVars BY ClientVarsAreVars
  <1>5. \A q \in Rules : \A i \in 1 .. Len(backlog[q]) :
           backlog[q][i] \in Conns /\ backlog[q][i] # c
    BY <1>1 DEF ClientInv, QueuedIsUp, TypeOK
  <1>6. BehindIsUp'
    BY <1>1, <1>2, <1>3 DEF ClientInv, BehindIsUp
  <1>7. HasClient'
    BY <1>1 DEF ClientInv, HasClient
  <1>8. OneSocket'
    BY <1>2 DEF ClientInv, OneSocket
  <1>9. QueuedIsUp'
    <2> SUFFICES ASSUME NEW q \in Rules, NEW i \in 1 .. Len(backlog'[q])
                 PROVE  (/\ conn[backlog[q][i]] # "idle"
                         /\ \A w \in ClientVars : ~Behind(w, backlog[q][i]))'
      BY DEF QueuedIsUp
    <2>1. CASE i \in 1 .. Len(backlog[q]) /\ backlog'[q][i] = backlog[q][i]
      BY <1>1, <1>2, <1>5, <2>1 DEF ClientInv, QueuedIsUp
    <2>2. CASE backlog'[q][i] = c
      BY <1>1, <1>2, <1>3, <1>4, <2>2
    <2> QED BY <1>1, <2>1, <2>2, AppendByPosition
  <1>10. QueuedOnce'
    <2> SUFFICES ASSUME NEW p \in Rules, NEW q \in Rules,
                        NEW i \in 1 .. Len(backlog'[p]), NEW j \in 1 .. Len(backlog'[q]),
                        backlog'[p][i] = backlog'[q][j]
                 PROVE  p = q /\ i = j
      BY DEF QueuedOnce
    <2>1. /\ \/ i \in 1 .. Len(backlog[p]) /\ backlog'[p][i] = backlog[p][i]
             \/ p = r /\ i = Len(backlog[r]) + 1 /\ backlog'[p][i] = c
          /\ \/ j \in 1 .. Len(backlog[q]) /\ backlog'[q][j] = backlog[q][j]
             \/ q = r /\ j = Len(backlog[r]) + 1 /\ backlog'[q][j] = c
      BY <1>1, AppendByPosition
    <2> QED BY <1>5, <2>1 DEF ClientInv, QueuedOnce
  <1> QED BY <1>6, <1>7, <1>8, <1>9, <1>10 DEF ClientInv
-----------------------------------------------------------------------------
(* Every step treats the clients in one of these ways. *)

\* A socket is closed that no client is behind.
LEMMA CloseOther ==
    ASSUME PortForwardAssumption, SocketInv, ClientInv, NEW v \in FdVars \ ClientVars,
           Close(v), UNCHANGED <<backlog, srule>>
    PROVE  Untouched
  <1>1. /\ fd'[v] = NoFd
        /\ \A w \in FdVars : w # v => SameSocket(w)
        /\ \A c \in Conns : conn'[c] = IF Behind(v, c) THEN "idle" ELSE conn[c]
    BY CloseSocks DEF SocketInv
  <1>2. \A c \in Conns : ~Behind(v, c) BY DEF ClientInv, BehindIsUp
  <1> QED BY <1>1, <1>2, ClientVarsAreVars DEF Untouched

\* A socket is allocated that no client is behind.
LEMMA AllocateOther ==
    ASSUME PortForwardAssumption, SocketInv, NEW v \in FdVars \ ClientVars,
           fd[v] = NoFd, NEW f, Allocate(f, v, NoConn), UNCHANGED <<backlog, srule, conn>>
    PROVE  Untouched
  <1>1. /\ fd'[v] # NoFd /\ sock'[fd'[v]] = NoConn
        /\ \A w \in FdVars : w # v => SameSocket(w)
    BY AllocateSocks DEF SocketInv
  <1> QED BY <1>1, ClientVarsAreVars DEF Untouched

\* A step that leaves sockets and backlogs alone.
LEMMA NothingTouched ==
    ASSUME UNCHANGED <<backlog, srule, fd, sock>>,
           \A c \in Conns : conn'[c] = "idle" <=> conn[c] = "idle"
    PROVE  Untouched
  BY DEF Untouched, SameSocket

\* No client is behind a listening socket, a target's or the web server's.
LEMMA OtherVars ==
    /\ \A r \in Rules : <<"listen_fd", r>> \in FdVars \ ClientVars
    /\ \A s \in Sessions : <<"target_fd", s>> \in FdVars \ ClientVars
    /\ \A h \in HttpdSocks : <<"httpd_fd", h>> \in FdVars \ ClientVars
  BY DEF FdVars, ClientVars

PeerCloses(r) == fd[Peer(r)] # NoFd /\ Close(Peer(r)) /\ UNCHANGED <<backlog, srule>>
ClientCloses(s) ==
    spc[s] = "close_client" /\ Close(Client(s)) /\ UNCHANGED <<backlog, srule>>

\* What a listener's step does to the clients.
LEMMA ListenerKinds ==
    ASSUME PortForwardAssumption, SocketInv, ClientInv, NEW r \in Rules, ListenerStep(r)
    PROVE  \/ Untouched \/ Accept(r) \/ AcceptFails(r) \/ PeerCloses(r)
           \/ \E s \in Sessions : SpawnSession(r, s)
  <1>0. ListenerHeld(r) BY DEF SocketInv, HeldWhileUsed
  <1>1. CASE ListenSocket(r)
    <2>1. fd[<<"listen_fd", r>>] = NoFd
      BY <1>0, <1>1 DEF ListenSocket, ListenerHeld, Listening, LGoto
    <2> QED BY <1>1, <2>1, AllocateOther, OtherVars DEF ListenSocket
  <1>2. CASE ListenSocketFails(r) \/ Bind(r) \/ Listen(r) \/ TakeSlot(r) \/ SpawnFails(r)
    BY <1>2, NothingTouched
    DEF ListenSocketFails, Bind, Listen, TakeSlot, SpawnFails, table
  <1>3. CASE BindOrListenFails(r)
    BY <1>3, CloseOther, OtherVars DEF BindOrListenFails
  <1>4. CASE RejectPeer(r) \/ LimitReached(r) \/ DropClient(r)
    BY <1>0, <1>4
    DEF RejectPeer, LimitReached, DropClient, PeerCloses, Peer, ListenerHeld, LGoto
  <1> QED BY <1>1, <1>2, <1>3, <1>4 DEF ListenerStep

\* What a session's step does to the clients.
LEMMA SessionKinds ==
    ASSUME PortForwardAssumption, SocketInv, ClientInv, NEW s \in Sessions,
           SessionStep(s) \/ RelayEnds(s)
    PROVE  Untouched \/ ClientCloses(s)
  <1>0. SessionHeld(s) BY DEF SocketInv, HeldWhileUsed
  <1>1. CASE TargetSocket(s)
    <2>1. fd[<<"target_fd", s>>] = NoFd
      BY <1>0, <1>1 DEF TargetSocket, SessionHeld, SGoto
    <2> QED BY <1>1, <2>1, AllocateOther, OtherVars DEF TargetSocket
  <1>2. CASE TargetSocketFails(s) \/ ConnectTarget(s) \/ RelaySeesHangup(s) \/ RelayEnds(s)
             \/ GiveSlot(s) \/ FreeSession(s)
    BY <1>2, NothingTouched
    DEF TargetSocketFails, ConnectTarget, RelaySeesHangup, RelayEnds, GiveSlot,
        FreeSession, table
  <1>3. CASE CloseTarget(s)
    BY <1>3, CloseOther, OtherVars DEF CloseTarget
  <1>4. CASE CloseClient(s)
    BY <1>4 DEF CloseClient, ClientCloses, Client, SGoto
  <1> QED BY <1>1, <1>2, <1>3, <1>4 DEF SessionStep

\* What any step does to the clients.
LEMMA StepKinds ==
    ASSUME PortForwardAssumption, SocketInv, ClientInv, [Next]_vars
    PROVE  \/ Untouched
           \/ \E r \in Rules : \/ Accept(r) \/ AcceptFails(r) \/ PeerCloses(r)
                               \/ \E s \in Sessions : SpawnSession(r, s)
                               \/ \E c \in Conns : Dial(c, r)
           \/ \E s \in Sessions : ClientCloses(s)
  <1>1. CASE StartStep
    BY <1>1, NothingTouched DEF StartStep, SkipRule, StartRule, table
  <1>2. ASSUME NEW c \in Conns, HangUp(c) PROVE Untouched
    BY <1>2, NothingTouched DEF HangUp, table, SocketInv, TypeOK
  <1>3. ASSUME NEW h \in HttpdSocks, HttpdStep(h) PROVE Untouched
    <2>1. CASE HttpdOpen(h)
      BY <2>1, AllocateOther, OtherVars DEF HttpdOpen
    <2>2. CASE HttpdClose(h)
      BY <2>2, CloseOther, OtherVars DEF HttpdClose
    <2> QED BY <1>3, <2>1, <2>2 DEF HttpdStep
  <1>4. CASE UNCHANGED vars
    BY <1>4, NothingTouched DEF vars
  <1>5. CASE \E r \in Rules : ListenerStep(r)
    BY <1>5, ListenerKinds
  <1>6. CASE \E s \in Sessions : SessionStep(s) \/ RelayEnds(s)
    BY <1>6, SessionKinds
  <1> QED BY <1>1, <1>2, <1>3, <1>4, <1>5, <1>6 DEF Next, ClientStep

\* Whatever the step, a client stays in one place.
LEMMA ClientStepInv ==
    ASSUME PortForwardAssumption, SocketInv, ClientInv, [Next]_vars
    PROVE  ClientInv'
  <1> TypeOK /\ FdOwnership BY DEF SocketInv
  <1>1. ASSUME Untouched PROVE ClientInv'
    BY <1>1, ClientsUntouched
  <1>2. ASSUME NEW r \in Rules, Accept(r) PROVE ClientInv'
    <2>1. fd[Peer(r)] = NoFd
      BY <1>2 DEF SocketInv, HeldWhileUsed, ListenerHeld, Accept, LGoto, Peer
    <2> QED BY <1>2, <2>1, ClientAccepted
  <1>3. ASSUME NEW r \in Rules, AcceptFails(r) PROVE ClientInv'
    BY <1>3, ClientDropped
  <1>4. ASSUME NEW r \in Rules, PeerCloses(r) PROVE ClientInv'
    BY <1>4, ClientClosed, ClientVarsAreVars DEF PeerCloses
  <1>5. ASSUME NEW r \in Rules, NEW s \in Sessions, SpawnSession(r, s) PROVE ClientInv'
    <2>1. fd[Client(s)] = NoFd
      BY <1>5 DEF SocketInv, HeldWhileUsed, SessionHeld, SpawnSession, Client
    <2> QED BY <1>5, <2>1, ClientHandedOver
  <1>6. ASSUME NEW r \in Rules, NEW c \in Conns, Dial(c, r) PROVE ClientInv'
    BY <1>6, ClientDials
  <1>7. ASSUME NEW s \in Sessions, ClientCloses(s) PROVE ClientInv'
    BY <1>7, ClientClosed, ClientVarsAreVars DEF ClientCloses
  <1> QED BY <1>1, <1>2, <1>3, <1>4, <1>5, <1>6, <1>7, StepKinds
-----------------------------------------------------------------------------
(* Whose clients they are *)

Wifi(c) == ip_in_subnet(PeerAddr[c], Cfg.wifi_subnet, Cfg.wifi_prefix_len)

\* Every client dialled the rule it waits for or is relayed by, and what a session
\* or a listener about to start one has is from the Wi-Fi side.
QueueRoute == \A r \in Rules : \A i \in 1 .. Len(backlog[r]) :
                 Dials[backlog[r][i]] = Port(r)
PeerRoute == \A r \in Rules : \A c \in Conns : Behind(Peer(r), c) =>
                Dials[c] = Port(r) /\ (lpc[r] = "spawn" => Wifi(c))
SessionRoute == \A s \in Sessions : \A c \in Conns : Behind(Client(s), c) =>
                   Dials[c] = Port(srule[s]) /\ Wifi(c)

RouteInv == QueueRoute /\ PeerRoute /\ SessionRoute

\* A listener comes to the point of starting a session only past both checks.
LEMMA OnlyTakeSlotSpawns ==
    ASSUME PortForwardAssumption, TypeOK, [Next]_vars, NEW r \in Rules,
           lpc[r] # "spawn", lpc'[r] = "spawn"
    PROVE  TakeSlot(r)
  <1>1. CASE StartStep
    BY <1>1 DEF StartStep, SkipRule, StartRule, TypeOK
  <1>2. ASSUME NEW q \in Rules, ListenerStep(q), ~TakeSlot(q)
        PROVE  FALSE
    BY <1>2
    DEF TypeOK, ListenerStep, ListenSocket, ListenSocketFails, Bind, Listen,
        BindOrListenFails, Accept, AcceptFails, RejectPeer, LimitReached, SpawnSession,
        SpawnFails, DropClient, LGoto
  <1>3. ASSUME NEW q \in Rules, TakeSlot(q) PROVE q = r
    BY <1>3 DEF TypeOK, TakeSlot, LGoto
  <1>4. CASE UNCHANGED lpc
    BY <1>4
  <1>5. CASE \/ \E s \in Sessions : SessionStep(s) \/ RelayEnds(s)
             \/ \E c \in Conns : ClientStep(c)
             \/ \E h \in HttpdSocks : HttpdStep(h)
    BY <1>4, <1>5
    DEF SessionStep, TargetSocket, TargetSocketFails, ConnectTarget, RelayEnds,
        RelaySeesHangup, CloseTarget, CloseClient, GiveSlot, FreeSession,
        ClientStep, Dial, HangUp, HttpdStep, HttpdOpen, HttpdClose
  <1> QED BY <1>1, <1>2, <1>3, <1>4, <1>5 DEF Next, vars

\* A step that moves no client to a new place.
LEMMA RoutesKept ==
    ASSUME PortForwardAssumption, TypeOK, RouteInv, [Next]_vars, UNCHANGED srule,
           \A v \in ClientVars : \A c : Behind(v, c)' => Behind(v, c)
    PROVE  PeerRoute' /\ SessionRoute'
  <1>1. ASSUME NEW r \in Rules, NEW c \in Conns, Behind(Peer(r), c)'
        PROVE  Dials[c] = Port(r) /\ (lpc'[r] = "spawn" => Wifi(c))
    <2>1. Behind(Peer(r), c) BY <1>1, ClientVarsAreVars
    <2>2. CASE lpc[r] = "spawn" \/ lpc'[r] # "spawn"
      BY <2>1, <2>2 DEF RouteInv, PeerRoute
    <2>3. CASE lpc[r] # "spawn" /\ lpc'[r] = "spawn"
      <3>1. TakeSlot(r) BY <2>3, OnlyTakeSlotSpawns
      <3> QED BY <2>1, <3>1 DEF RouteInv, PeerRoute, TakeSlot, FromWifi, Wifi, Behind, Peer
    <2> QED BY <2>2, <2>3
  <1>2. SessionRoute'
    BY ClientVarsAreVars DEF RouteInv, SessionRoute, Port, Wifi
  <1> QED BY <1>1, <1>2 DEF PeerRoute, Port, Wifi

\* What is left of a backlog, and what is appended to it, dialled the rule.
LEMMA QueueRouteTail ==
    ASSUME TypeOK, ClientInv, QueueRoute, NEW r \in Rules, backlog[r] # <<>>,
           backlog' = [backlog EXCEPT ![r] = Tail(backlog[r])]
    PROVE  QueueRoute'
  <1> SUFFICES ASSUME NEW q \in Rules, NEW i \in 1 .. Len(backlog'[q])
               PROVE  Dials[backlog'[q][i]] = Port(q)
    BY DEF QueueRoute, Port
  <1>1. /\ Was(r, q, i) \in 1 .. Len(backlog[q])
        /\ backlog'[q][i] = backlog[q][Was(r, q, i)]
    BY StillQueued
  <1> QED BY <1>1 DEF QueueRoute

\* Whatever the step, a client stays with the rule it dialled.
LEMMA RouteStep ==
    ASSUME PortForwardAssumption, SocketInv, ClientInv, RouteInv, [Next]_vars
    PROVE  RouteInv'
  <1> TypeOK /\ FdOwnership /\ QueueRoute BY DEF SocketInv, RouteInv
  <1> USE ClientVarsAreVars
  <1>1. ASSUME Untouched PROVE RouteInv'
    <2>1. QueueRoute' BY <1>1 DEF Untouched, QueueRoute, Port
    <2>2. \A v \in ClientVars : \A c : Behind(v, c)' => Behind(v, c)
      BY <1>1 DEF Untouched, Behind, SameSocket
    <2> QED BY <1>1, <2>1, <2>2, RoutesKept DEF RouteInv, Untouched
  <1>2. ASSUME NEW r \in Rules, Accept(r) PROVE RouteInv'
    <2>1. QueueRoute' BY <1>2, QueueRouteTail DEF Accept
    <2>2. fd[Peer(r)] = NoFd /\ lpc'[r] = "peer" /\ UNCHANGED <<srule, spc>>
          /\ \A q \in Rules : q # r => lpc'[q] = lpc[q]
      BY <1>2 DEF SocketInv, HeldWhileUsed, ListenerHeld, Accept, LGoto, Peer, TypeOK
    <2>3. PICK f : Allocate(f, Peer(r), Head(backlog[r])) BY <1>2 DEF Accept, Peer
    <2>4. /\ Head(backlog[r]) \in Conns /\ 1 \in 1 .. Len(backlog[r])
          /\ Head(backlog[r]) = backlog[r][1]
      BY <1>2, TailByPosition DEF Accept
    <2>5. /\ sock'[fd'[Peer(r)]] = Head(backlog[r])
          /\ \A w \in FdVars : w # Peer(r) => SameSocket(w)
      <3>1. Peer(r) \in FdVars /\ Head(backlog[r]) \in Conns \cup {NoConn}
        BY <2>4, ClientVarsAreVars
      <3> QED BY ONLY PortForwardAssumption, TypeOK, FdOwnership, <2>2, <2>3, <3>1,
                      AllocateSocks
    <2>6. \A w \in FdVars : \A c : w # Peer(r) => (Behind(w, c)' <=> Behind(w, c))
      BY <2>5 DEF Behind, SameSocket
    <2>7. \A c : Behind(Peer(r), c)' => Dials[c] = Port(r)
      BY <2>4, <2>5 DEF Behind, QueueRoute
    <2>8. PeerRoute'
      <3>1. \A q \in Rules : q # r => Peer(q) # Peer(r) BY DEF Peer
      <3> QED BY <2>2, <2>6, <2>7, <3>1 DEF RouteInv, PeerRoute, Port, Wifi
    <2>9. SessionRoute'
      <3>1. \A s \in Sessions : Client(s) # Peer(r) BY VarsDiffer DEF Peer, Client
      <3> QED BY <2>2, <2>6, <3>1 DEF RouteInv, SessionRoute, Port, Wifi
    <2> QED BY <2>1, <2>8, <2>9 DEF RouteInv
  <1>3. ASSUME NEW r \in Rules, AcceptFails(r) PROVE RouteInv'
    <2>1. QueueRoute' BY <1>3, QueueRouteTail DEF AcceptFails
    <2>2. UNCHANGED <<srule, fd, sock>> BY <1>3 DEF AcceptFails, table
    <2>3. \A v \in ClientVars : \A c : Behind(v, c)' => Behind(v, c) BY <2>2 DEF Behind
    <2> QED BY <2>1, <2>2, <2>3, RoutesKept DEF RouteInv
  <1>4. ASSUME NEW v \in ClientVars, Close(v), UNCHANGED <<backlog, srule>> PROVE RouteInv'
    <2>1. QueueRoute' BY <1>4 DEF QueueRoute, Port
    <2>2. \A w \in ClientVars : \A c : Behind(w, c)' => Behind(w, c)
      BY <1>4, CloseSocks DEF Behind, SameSocket
    <2> QED BY <1>4, <2>1, <2>2, RoutesKept DEF RouteInv
  <1>5. ASSUME NEW r \in Rules, NEW s \in Sessions, SpawnSession(r, s) PROVE RouteInv'
    <2>1. /\ fd[Client(s)] = NoFd /\ lpc[r] = "spawn" /\ srule'[s] = r
          /\ \A t \in Sessions : t # s => srule'[t] = srule[t]
          /\ \A q \in Rules : lpc'[q] = "spawn" => lpc[q] = "spawn"
          /\ UNCHANGED backlog
      BY <1>5 DEF SocketInv, HeldWhileUsed, SessionHeld, SpawnSession, Client, LGoto, TypeOK
    <2>2. /\ \A c : Behind(Client(s), c)' <=> Behind(Peer(r), c)
          /\ \A w \in FdVars \ {Peer(r), Client(s)} : SameSocket(w)
          /\ fd'[Peer(r)] = NoFd
      BY <1>5, <2>1, ClientHandedOver
    <2>3. \A w \in FdVars \ {Peer(r), Client(s)} : \A c : Behind(w, c)' <=> Behind(w, c)
      BY <2>2 DEF Behind, SameSocket
    <2>4. \A c : ~Behind(Peer(r), c)' BY <2>2 DEF Behind
    <2>5. QueueRoute' BY <2>1 DEF QueueRoute, Port
    <2>6. PeerRoute'
      <3>1. \A q \in Rules : Peer(q) # Client(s) BY VarsDiffer DEF Peer, Client
      <3> QED BY <2>1, <2>3, <2>4, <3>1 DEF RouteInv, PeerRoute, Port, Wifi
    <2>7. SessionRoute'
      <3>1. \A t \in Sessions : Client(t) # Peer(r) /\ (t # s => Client(t) # Client(s))
        BY VarsDiffer DEF Peer, Client
      <3>2. ASSUME NEW t \in Sessions, NEW c \in Conns, Behind(Client(t), c)'
            PROVE  Dials[c] = Port(srule'[t]) /\ Wifi(c)
        <4>1. CASE t = s
          BY <2>1, <2>2, <3>2, <4>1 DEF RouteInv, PeerRoute
        <4>2. CASE t # s
          BY <2>1, <2>3, <3>1, <3>2, <4>2 DEF RouteInv, SessionRoute
        <4> QED BY <4>1, <4>2
      <3> QED BY <3>2 DEF SessionRoute, Port, Wifi
    <2> QED BY <2>5, <2>6, <2>7 DEF RouteInv
  <1>6. ASSUME NEW r \in Rules, NEW c \in Conns, Dial(c, r) PROVE RouteInv'
    <2>1. /\ UNCHANGED <<srule, fd, sock>> /\ Dials[c] = Port(r)
          /\ backlog' = [backlog EXCEPT ![r] = Append(backlog[r], c)]
      BY <1>6 DEF Dial, table, Port
    <2>2. \A v \in ClientVars : \A d : Behind(v, d)' => Behind(v, d) BY <2>1 DEF Behind
    <2>3. QueueRoute'
      <3> SUFFICES ASSUME NEW q \in Rules, NEW i \in 1 .. Len(backlog'[q])
                   PROVE  Dials[backlog'[q][i]] = Port(q)
        BY DEF QueueRoute, Port
      <3>1. \/ i \in 1 .. Len(backlog[q]) /\ backlog'[q][i] = backlog[q][i]
            \/ q = r /\ i = Len(backlog[r]) + 1 /\ backlog'[q][i] = c
        BY <2>1, AppendByPosition
      <3> QED BY <2>1, <3>1 DEF QueueRoute
    <2> QED BY <2>1, <2>2, <2>3, RoutesKept DEF RouteInv
  <1> QED BY <1>1, <1>2, <1>3, <1>4, <1>5, <1>6, StepKinds DEF PeerCloses, ClientCloses

\* The inductive invariant behind the theorems of this module.
ServiceInv == SocketInv /\ SlotInv /\ ClientInv /\ RouteInv

\* All of it holds in every reachable state.
LEMMA ServiceInvariant ==
    ASSUME PortForwardAssumption
    PROVE  Spec => []ServiceInv
  <1>1. Init => ClientInv /\ RouteInv
    <2> SUFFICES ASSUME Init PROVE ClientInv /\ RouteInv OBVIOUS
    <2>1. \A v \in FdVars : \A c : ~Behind(v, c) BY DEF Init, Behind
    <2>2. \A r \in Rules : backlog[r] = <<>> BY DEF Init
    <2>3. \A r \in Rules : ~ \E i \in 1 .. Len(backlog[r]) : TRUE BY <2>2
    <2>4. BehindIsUp /\ HasClient /\ OneSocket
      BY <2>1, ClientVarsAreVars DEF BehindIsUp, HasClient, OneSocket, Init
    <2>5. QueuedIsUp /\ QueuedOnce BY <2>3 DEF QueuedIsUp, QueuedOnce
    <2>6. RouteInv
      BY <2>1, <2>3, ClientVarsAreVars DEF RouteInv, QueueRoute, PeerRoute, SessionRoute
    <2> QED BY <2>4, <2>5, <2>6 DEF ClientInv
  <1>2. SocketInv /\ ClientInv /\ RouteInv /\ [Next]_vars => ClientInv' /\ RouteInv'
    BY ClientStepInv, RouteStep
  <1> QED
    BY <1>1, <1>2, SocketInvariant, SlotInvariant, PTL DEF Spec, ServiceInv

\* A session relays a Wi-Fi client that dialled the session's own rule, whatever
\* descriptors were closed and given out again in between.
THEOREM OwnClientAlwaysRelayed ==
    ASSUME PortForwardAssumption
    PROVE  Spec => []RelaysItsOwnClient
  <1>1. ServiceInv => RelaysItsOwnClient
    <2> SUFFICES ASSUME ServiceInv, NEW s \in Sessions, fd[Client(s)] # NoFd
                 PROVE  /\ sock[fd[Client(s)]] \in Conns
                        /\ Wifi(sock[fd[Client(s)]])
                        /\ Dials[sock[fd[Client(s)]]] = Port(srule[s])
      BY DEF RelaysItsOwnClient, Client, Wifi, Port
    <2>1. sock[fd[Client(s)]] \in Conns
      BY ClientVarsAreVars DEF ServiceInv, ClientInv, HasClient
    <2> QED BY <2>1 DEF ServiceInv, RouteInv, SessionRoute, Behind
  <1> QED BY <1>1, ServiceInvariant, PTL
-----------------------------------------------------------------------------
(* How many sockets a rule holds, and how many clients it serves *)

\* A session with a socket of its client has a slot, which a started rule counts.
LEMMA HoldersHaveSlots ==
    ASSUME ServiceInv, NEW s \in Sessions,
           fd[Client(s)] # NoFd \/ fd[<<"target_fd", s>>] # NoFd
    PROVE  /\ s \in SlotHolders(srule[s])
           /\ srule[s] \in Rules /\ lpc[srule[s]] # "none"
  <1>1. spc[s] \notin {"none", "free"}
    BY DEF ServiceInv, SocketInv, HeldWhileUsed, SessionHeld, Client
  <1>2. srule[s] \in Rules /\ lpc[srule[s]] # "none"
    BY <1>1 DEF ServiceInv, SlotInv, SessionsOfStartedRules
  <1> QED BY <1>1, <1>2 DEF SlotHolders

\* A rule has no more slots to hand out than the limit.
LEMMA HoldersBounded ==
    ASSUME PortForwardAssumption, ServiceInv, NEW r \in Rules
    PROVE  /\ Cardinality(SlotHolders(r)) <= SessionsPerRule
           /\ lpc[r] = "spawn" => Cardinality(SlotHolders(r)) < SessionsPerRule
  <1>1. Cardinality(SlotHolders(r)) \in Nat BY HoldersFinite
  <1>2. CASE lpc[r] = "none"
    <2>1. SlotHolders(r) = {}
      BY <1>2 DEF SlotHolders, ServiceInv, SlotInv, SessionsOfStartedRules
    <2> QED BY <1>2, <2>1, FS_EmptySet DEF PortForwardAssumption
  <1>3. CASE lpc[r] # "none"
    <2>1. /\ slots[r] + Cardinality(SlotHolders(r)) + ListenerHolds(r) = SessionsPerRule
          /\ slots[r] \in Nat
      BY <1>3 DEF ServiceInv, SlotInv, SlotAccounting, ListenerHolds, TypeOK,
                  PortForwardAssumption
    <2> QED BY <1>1, <2>1 DEF ListenerHolds, PortForwardAssumption
  <1> QED BY <1>2, <1>3

\* A pair has two members.
LEMMA PairCounted ==
    ASSUME NEW a, NEW b, a # b
    PROVE  IsFiniteSet({a, b}) /\ Cardinality({a, b}) = 2
  <1>1. IsFiniteSet({a}) /\ Cardinality({a}) = 1 BY FS_Singleton
  <1>2. {a, b} = {a} \cup {b} /\ b \notin {a} OBVIOUS
  <1> QED BY <1>1, <1>2, FS_AddElement

\* A rule's two listener sockets and two per slot are all it ever takes.
THEOREM BudgetAlwaysKept ==
    ASSUME PortForwardAssumption
    PROVE  Spec => []RuleSocketBudget
  <1>1. ASSUME ServiceInv, NEW r \in Rules
        PROVE  Cardinality(RuleSockets(r)) <= 2 + 2 * SessionsPerRule
    <2> DEFINE Own == {"listen_fd", "peer_fd"} \X {r}
               Ends == {"client_fd", "target_fd"} \X SlotHolders(r)
               n == Cardinality(SlotHolders(r))
    <2>1. RuleSockets(r) \subseteq Own \cup Ends
      <3> SUFFICES ASSUME NEW v \in RuleSockets(r) PROVE v \in Own \cup Ends
        OBVIOUS
      <3>1. v \in FdVars /\ fd[v] # NoFd BY DEF RuleSockets
      <3>2. CASE v[1] \in {"listen_fd", "peer_fd"} /\ v[2] = r
        BY <3>1, <3>2 DEF FdVars
      <3>3. CASE v[1] \in {"client_fd", "target_fd"} /\ srule[v[2]] = r
        <4>1. v[2] \in Sessions /\ v = <<v[1], v[2]>> BY <3>1, <3>3 DEF FdVars
        <4>2. fd[Client(v[2])] # NoFd \/ fd[<<"target_fd", v[2]>>] # NoFd
          BY <3>1, <3>3, <4>1 DEF Client
        <4>3. v[2] \in SlotHolders(r) BY <1>1, <3>3, <4>1, <4>2, HoldersHaveSlots
        <4> QED BY <3>3, <4>1, <4>3
      <3> QED BY <3>2, <3>3 DEF RuleSockets
    <2>2. /\ IsFiniteSet({"listen_fd", "peer_fd"})
          /\ Cardinality({"listen_fd", "peer_fd"}) = 2
          /\ IsFiniteSet({"client_fd", "target_fd"})
          /\ Cardinality({"client_fd", "target_fd"}) = 2
          /\ IsFiniteSet({r}) /\ Cardinality({r}) = 1
      BY PairCounted, FS_Singleton
    <2>3. IsFiniteSet(SlotHolders(r)) /\ n \in Nat BY HoldersFinite
    <2>4. IsFiniteSet(Own) /\ Cardinality(Own) = 2 * 1
      BY <2>2, FS_Product
    <2>5. IsFiniteSet(Ends) /\ Cardinality(Ends) = 2 * n
      BY <2>2, <2>3, FS_Product
    <2> HIDE DEF Own, Ends
    <2>6. /\ IsFiniteSet(Own \cup Ends)
          /\ Cardinality(Own \cup Ends)
               = Cardinality(Own) + Cardinality(Ends) - Cardinality(Own \cap Ends)
      BY <2>4, <2>5, FS_Union
    <2>7. Cardinality(Own \cap Ends) \in Nat
      <3>1. IsFiniteSet(Own \cap Ends) BY <2>4, FS_Subset
      <3> QED BY <3>1, FS_CardinalityType
    <2>8. /\ Cardinality(RuleSockets(r)) <= Cardinality(Own \cup Ends)
          /\ Cardinality(RuleSockets(r)) \in Nat
      <3>1. IsFiniteSet(RuleSockets(r)) /\ Cardinality(RuleSockets(r)) <= Cardinality(Own \cup Ends)
        BY <2>1, <2>6, FS_Subset
      <3> QED BY <3>1, FS_CardinalityType
    <2>9. n <= SessionsPerRule BY <1>1, HoldersBounded
    <2> HIDE DEF n
    <2> QED
      BY <2>3, <2>4, <2>5, <2>6, <2>7, <2>8, <2>9 DEF PortForwardAssumption
  <1>2. ServiceInv => RuleSocketBudget
    BY <1>1 DEF RuleSocketBudget
  <1> QED BY <1>2, ServiceInvariant, PTL
-----------------------------------------------------------------------------
(* The refinement: every step is one of ForwardService or changes nothing it sees. *)

served == [r \in Rules |-> ServedBy(r)]

\* Whom a rule serves, by descriptor.
LEMMA ServedByClients ==
    ASSUME NEW r
    PROVE  \A c : c \in ServedBy(r) <=> \E s \in Sessions : srule[s] = r /\ Behind(Client(s), c)
  BY DEF ServedBy, Behind, Client

\* Who still waits for an answer, by descriptor.
LEMMA UnansweredClients ==
    \A c : c \in Unanswered <=>
              /\ c \in Conns /\ conn[c] # "idle"
              /\ ~ \E s \in Sessions : srule[s] \in Rules /\ Behind(Client(s), c)
  BY ServedByClients DEF Unanswered

\* What decides the abstract state: who is behind a session's client_fd, for
\* which rule, and who is idle.
LEMMA SeenUnchanged ==
    ASSUME UNCHANGED srule,
           \A s \in Sessions : \A c : Behind(Client(s), c)' <=> Behind(Client(s), c),
           \A c \in Conns : conn'[c] = "idle" <=> conn[c] = "idle"
    PROVE  Unanswered' = Unanswered /\ served' = served
  <1>1. \A r \in Rules : ServedBy(r)' = ServedBy(r)
    <2> TAKE r \in Rules
    <2>1. \A c : c \in ServedBy(r)' <=>
                   \E s \in Sessions : srule'[s] = r /\ Behind(Client(s), c)'
      BY DEF ServedBy, Behind, Client
    <2>2. \A c : c \in ServedBy(r)' <=> c \in ServedBy(r)
      BY <2>1, ServedByClients
    <2> QED BY <2>2
  <1>2. UNION {ServedBy(r)' : r \in Rules} = UNION {ServedBy(r) : r \in Rules}
    BY <1>1
  <1> QED BY <1>1, <1>2 DEF served, Unanswered

\* A client that is not served goes, and nothing else happens.
LEMMA ClientRefused ==
    ASSUME NEW c \in Conns, conn[c] # "idle", conn'[c] = "idle", UNCHANGED srule,
           \A s \in Sessions : \A d : Behind(Client(s), d)' <=> Behind(Client(s), d),
           \A s \in Sessions : ~Behind(Client(s), c),
           \A d \in Conns : d # c => (conn'[d] = "idle" <=> conn[d] = "idle")
    PROVE  Service!Refuse(c)
  <1>1. c \in Unanswered BY UnansweredClients
  <1>2. \A r \in Rules : ServedBy(r)' = ServedBy(r)
    <2> TAKE r \in Rules
    <2>1. \A d : d \in ServedBy(r)' <=>
                   \E s \in Sessions : srule'[s] = r /\ Behind(Client(s), d)'
      BY DEF ServedBy, Behind, Client
    <2>2. \A d : d \in ServedBy(r)' <=> d \in ServedBy(r)
      BY <2>1, ServedByClients
    <2> QED BY <2>2
  <1>3. UNION {ServedBy(r)' : r \in Rules} = UNION {ServedBy(r) : r \in Rules}
    BY <1>2
  <1>4. Unanswered' = Unanswered \ {c}
    BY <1>3 DEF Unanswered
  <1>5. served' = served BY <1>2 DEF served
  <1> QED BY <1>1, <1>4, <1>5 DEF Service!Refuse, served

\* A rule serves no more clients than its sessions have slots.
LEMMA ServedCounted ==
    ASSUME PortForwardAssumption, ServiceInv, NEW r \in Rules
    PROVE  Cardinality(ServedBy(r)) <= Cardinality(SlotHolders(r))
           /\ Cardinality(ServedBy(r)) \in Nat
  <1> DEFINE S == {s \in Sessions : srule[s] = r /\ fd[Client(s)] # NoFd}
             f == [s \in S |-> sock[fd[Client(s)]]]
  <1>1. S \subseteq SlotHolders(r) BY HoldersHaveSlots
  <1>2. IsFiniteSet(S) /\ Cardinality(S) <= Cardinality(SlotHolders(r)) /\ Cardinality(S) \in Nat
    BY <1>1, HoldersFinite, FS_Subset, FS_CardinalityType
  <1>3. f \in Surjection(S, ServedBy(r))
    <2>1. f \in [S -> ServedBy(r)] BY DEF ServedBy, Client
    <2>2. \A c \in ServedBy(r) : \E s \in S : f[s] = c BY DEF ServedBy, Client
    <2> HIDE DEF S, f
    <2> QED BY <2>1, <2>2 DEF Surjection
  <1> HIDE DEF S, f
  <1>4. IsFiniteSet(ServedBy(r)) /\ Cardinality(ServedBy(r)) <= Cardinality(S)
    BY <1>2, <1>3, FS_Surjection
  <1>5. Cardinality(ServedBy(r)) \in Nat BY <1>4, FS_CardinalityType
  <1> QED BY <1>2, <1>4, <1>5, HoldersFinite

\* xTaskCreate of a session is where a client begins to be served.
LEMMA ClientServed ==
    ASSUME PortForwardAssumption, ServiceInv, NEW r \in Rules,
           NEW s \in Sessions, SpawnSession(r, s)
    PROVE  \E c \in Conns : Service!Serve(r, c)
  <1>1. /\ fd[Client(s)] = NoFd /\ fd[Peer(r)] # NoFd /\ lpc[r] = "spawn"
        /\ srule' = [srule EXCEPT ![s] = r] /\ srule'[s] = r
        /\ \A t \in Sessions : t # s => srule'[t] = srule[t]
        /\ UNCHANGED conn
    <2>1. /\ lpc[r] = "spawn" /\ spc[s] = "none"
          /\ srule' = [srule EXCEPT ![s] = r] /\ UNCHANGED conn
      BY DEF SpawnSession, LGoto
    <2>2. fd[Client(s)] = NoFd /\ fd[Peer(r)] # NoFd
      BY <2>1 DEF ServiceInv, SocketInv, HeldWhileUsed, SessionHeld, ListenerHeld, Client, Peer
    <2> QED BY <2>1, <2>2 DEF ServiceInv, SocketInv, TypeOK
  <1>2. /\ \A d : Behind(Client(s), d)' <=> Behind(Peer(r), d)
        /\ \A w \in FdVars \ {Peer(r), Client(s)} : SameSocket(w)
    BY <1>1, ClientHandedOver DEF ServiceInv, SocketInv
  <1>3. PICK c \in Conns : c = sock[fd[Peer(r)]]
    BY <1>1, ClientVarsAreVars DEF ServiceInv, ClientInv, HasClient
  <1>4. /\ Behind(Peer(r), c) /\ \A d : Behind(Peer(r), d) => d = c
        /\ \A d : ~Behind(Client(s), d)
    BY <1>1, <1>3 DEF Behind
  <1>5. conn[c] # "idle" /\ \A t \in Sessions : ~Behind(Client(t), c)
    <2>1. \A t \in Sessions : Client(t) # Peer(r) BY VarsDiffer DEF Client, Peer
    <2> QED
      BY <1>4, <2>1, ClientVarsAreVars DEF ServiceInv, ClientInv, BehindIsUp, OneSocket
  <1>6. \A t \in Sessions : \A d : t # s => (Behind(Client(t), d)' <=> Behind(Client(t), d))
    <2>1. \A t \in Sessions : t # s => Client(t) \in FdVars \ {Peer(r), Client(s)}
      BY ClientVarsAreVars, VarsDiffer DEF Client, Peer
    <2> QED BY <1>2, <2>1 DEF Behind, SameSocket
  <1>7. \A q \in Rules : ServedBy(q)' = IF q = r THEN ServedBy(q) \cup {c} ELSE ServedBy(q)
    <2> TAKE q \in Rules
    <2>1. \A d : d \in ServedBy(q)' <=>
                   \E t \in Sessions : srule'[t] = q /\ Behind(Client(t), d)'
      BY DEF ServedBy, Behind, Client
    <2>2. \A d : d \in ServedBy(q)' <=> d \in ServedBy(q) \/ (q = r /\ d = c)
      BY <1>1, <1>2, <1>4, <1>6, <2>1, ServedByClients
    <2> QED BY <2>2
  <1>8. c \in Unanswered /\ c \in AdmittedBy(r)
    <2>1. c \in Unanswered BY <1>5, UnansweredClients
    <2>2. Dials[c] = Port(r) /\ Wifi(c)
      BY <1>1, <1>4 DEF ServiceInv, RouteInv, PeerRoute
    <2> QED BY <2>1, <2>2 DEF AdmittedBy, Port, Wifi
  <1>9. Unanswered' = Unanswered \ {c}
    <2>1. \A d : d \in UNION {ServedBy(q)' : q \in Rules} <=>
                   d \in UNION {ServedBy(q) : q \in Rules} \/ d = c
      BY <1>7
    <2> QED BY <1>1, <2>1 DEF Unanswered
  <1>10. served' = [served EXCEPT ![r] = served[r] \cup {c}]
    BY <1>7 DEF served
  <1>11. Cardinality(served[r]) < SessionsPerRule
    <2>1. served[r] = ServedBy(r) BY DEF served
    <2>2. /\ Cardinality(ServedBy(r)) <= Cardinality(SlotHolders(r))
          /\ Cardinality(ServedBy(r)) \in Nat /\ Cardinality(SlotHolders(r)) \in Nat
      BY ServedCounted, HoldersFinite
    <2>3. Cardinality(SlotHolders(r)) < SessionsPerRule BY <1>1, HoldersBounded
    <2> QED BY <2>1, <2>2, <2>3 DEF PortForwardAssumption
  <1>12. Service!Cardinality(served[r]) = Cardinality(served[r])
    BY DEF Service!Cardinality, Cardinality
  <1> QED BY <1>8, <1>9, <1>10, <1>11, <1>12 DEF Service!Serve, served

\* Closing a session's client_fd ends the service of its client.
LEMMA ClientFinished ==
    ASSUME PortForwardAssumption, ServiceInv, NEW s \in Sessions, ClientCloses(s)
    PROVE  \E r \in Rules : \E c \in Conns : Service!Finish(r, c)
  <1> DEFINE r == srule[s]
             c == sock[fd[Client(s)]]
  <1>1. fd[Client(s)] # NoFd
    BY DEF ServiceInv, SocketInv, HeldWhileUsed, SessionHeld, ClientCloses, Client
  <1>2. r \in Rules /\ c \in Conns
    BY <1>1, HoldersHaveSlots, ClientVarsAreVars DEF ServiceInv, ClientInv, HasClient
  <1>3. Behind(Client(s), c) /\ \A d : Behind(Client(s), d) => d = c
    BY <1>1 DEF Behind
  <1> HIDE DEF c, r
  <1>4. /\ fd'[Client(s)] = NoFd /\ UNCHANGED srule
        /\ \A w \in FdVars : w # Client(s) => SameSocket(w)
        /\ \A d \in Conns : conn'[d] = IF Behind(Client(s), d) THEN "idle" ELSE conn[d]
    BY CloseSocks, ClientVarsAreVars DEF ClientCloses, ServiceInv, SocketInv
  <1>5. \A t \in Sessions : t # s => Client(t) # Client(s) /\ Client(t) \in FdVars
    BY ClientVarsAreVars, VarsDiffer DEF Client
  <1>6. /\ \A t \in Sessions : \A d : t # s => (Behind(Client(t), d)' <=> Behind(Client(t), d))
        /\ \A d : ~Behind(Client(s), d)'
    BY <1>4, <1>5 DEF Behind, SameSocket
  <1>7. \A t \in Sessions : t # s => ~Behind(Client(t), c)
    BY <1>2, <1>3, <1>5, ClientVarsAreVars DEF ServiceInv, ClientInv, OneSocket
  <1>8. \A q \in Rules : ServedBy(q)' = IF q = r THEN ServedBy(q) \ {c} ELSE ServedBy(q)
    <2> TAKE q \in Rules
    <2>1. \A d : d \in ServedBy(q)' <=>
                   \E t \in Sessions : srule'[t] = q /\ Behind(Client(t), d)'
      BY DEF ServedBy, Behind, Client
    <2>2. \A d : d \in ServedBy(q)' <=> d \in ServedBy(q) /\ (q = r => d # c)
      BY <1>3, <1>4, <1>6, <1>7, <2>1, ServedByClients DEF r
    <2> QED BY <2>2
  <1>9. c \in ServedBy(r) /\ \A q \in Rules : q # r => c \notin ServedBy(q)
    BY <1>3, <1>7, ServedByClients DEF r
  <1>10. Unanswered' = Unanswered
    <2>1. \A d : d \in UNION {ServedBy(q)' : q \in Rules} <=>
                   d \in UNION {ServedBy(q) : q \in Rules} /\ d # c
      BY <1>8, <1>9
    <2>2. c \in UNION {ServedBy(q) : q \in Rules} BY <1>2, <1>9
    <2>3. \A d \in Conns : conn'[d] # "idle" <=> conn[d] # "idle" /\ d # c
      <3>1. conn[c] # "idle"
        BY <1>2, <1>3, ClientVarsAreVars DEF ServiceInv, ClientInv, BehindIsUp
      <3> QED BY <1>3, <1>4
    <2> QED BY <2>1, <2>2, <2>3 DEF Unanswered
  <1>11. served' = [served EXCEPT ![r] = served[r] \ {c}]
    BY <1>2, <1>8 DEF served
  <1> QED BY <1>2, <1>9, <1>10, <1>11 DEF Service!Finish, served

\* A client dials.
LEMMA ClientConnects ==
    ASSUME ServiceInv, NEW r \in Rules, NEW c \in Conns, Dial(c, r)
    PROVE  Service!Connect(c)
  <1>1. /\ conn[c] = "idle" /\ conn'[c] # "idle" /\ \A d \in Conns : d # c => conn'[d] = conn[d]
        /\ UNCHANGED <<srule, fd, sock>>
    BY DEF Dial, table, ServiceInv, SocketInv, TypeOK
  <1>2. \A s \in Sessions : ~Behind(Client(s), c)
    BY <1>1, ClientVarsAreVars DEF ServiceInv, ClientInv, BehindIsUp
  <1>3. \A q \in Rules : ServedBy(q)' = ServedBy(q) BY <1>1 DEF ServedBy
  <1>4. c \notin UNION {ServedBy(q) : q \in Rules} BY <1>2, ServedByClients
  <1>5. UNION {ServedBy(q)' : q \in Rules} = UNION {ServedBy(q) : q \in Rules} BY <1>3
  <1>6. Unanswered' = Unanswered \cup {c} /\ c \notin Unanswered
    BY <1>1, <1>4, <1>5 DEF Unanswered
  <1>7. UNION {served[q] : q \in Rules} = UNION {ServedBy(q) : q \in Rules}
    BY DEF served
  <1>8. served' = served BY <1>3 DEF served
  <1> QED BY <1>4, <1>6, <1>7, <1>8 DEF Service!Connect, Service!Busy, served

\* Every step of the forwarder is one of ForwardService, or none.
LEMMA ServiceStep ==
    ASSUME PortForwardAssumption, ServiceInv, [Next]_vars
    PROVE  [Service!Next]_(Service!svars)
  <1> DEFINE Same == Unanswered' = Unanswered /\ served' = served
  <1> TypeOK /\ FdOwnership /\ ClientInv /\ SocketInv BY DEF ServiceInv, SocketInv
  <1>0. \A s \in Sessions : Client(s) \in ClientVars /\ Client(s) \in FdVars
    BY ClientVarsAreVars
  <1>1. ASSUME Untouched PROVE Same
    <2>1. \A s \in Sessions : \A c : Behind(Client(s), c)' <=> Behind(Client(s), c)
      BY <1>0, <1>1 DEF Untouched, SameSocket, Behind
    <2> QED BY <1>1, <2>1, SeenUnchanged DEF Untouched
  <1>2. ASSUME NEW r \in Rules, Accept(r) PROVE Same
    <2>1. fd[Peer(r)] = NoFd /\ UNCHANGED <<srule, conn>> /\ backlog[r] # <<>>
      BY <1>2 DEF SocketInv, HeldWhileUsed, ListenerHeld, Accept, LGoto, Peer
    <2>2. Head(backlog[r]) \in Conns BY <2>1, BacklogType
    <2>3. PICK f : Allocate(f, Peer(r), Head(backlog[r])) BY <1>2 DEF Accept, Peer
    <2>4. Peer(r) \in FdVars BY ClientVarsAreVars
    <2>5. \A w \in FdVars : w # Peer(r) => SameSocket(w)
      BY <2>1, <2>2, <2>3, <2>4, AllocateSocks
    <2>6. \A s \in Sessions : Client(s) # Peer(r) BY VarsDiffer DEF Client, Peer
    <2>7. \A s \in Sessions : \A c : Behind(Client(s), c)' <=> Behind(Client(s), c)
      BY <1>0, <2>5, <2>6 DEF SameSocket, Behind
    <2> QED BY <2>1, <2>7, SeenUnchanged
  <1>3. ASSUME NEW r \in Rules, AcceptFails(r) PROVE \E c \in Conns : Service!Refuse(c)
    <2> DEFINE c == Head(backlog[r])
    <2>1. /\ backlog[r] # <<>> /\ backlog' = [backlog EXCEPT ![r] = Tail(backlog[r])]
          /\ conn' = [conn EXCEPT ![c] = "idle"] /\ UNCHANGED <<fd, sock, srule>>
      BY <1>3 DEF AcceptFails, table
    <2>2. c \in Conns /\ 1 \in 1 .. Len(backlog[r]) /\ c = backlog[r][1]
      BY <2>1, TailByPosition
    <2>3. conn[c] # "idle" /\ \A s \in Sessions : ~Behind(Client(s), c)
      BY <1>0, <2>2 DEF ClientInv, QueuedIsUp
    <2>4. conn'[c] = "idle" /\ \A d \in Conns : d # c => conn'[d] = conn[d]
      BY <2>1, <2>2 DEF TypeOK
    <2>5. \A s \in Sessions : \A d : Behind(Client(s), d)' <=> Behind(Client(s), d)
      BY <2>1 DEF Behind
    <2> HIDE DEF c
    <2> QED BY <2>1, <2>2, <2>3, <2>4, <2>5, ClientRefused
  <1>4. ASSUME NEW r \in Rules, PeerCloses(r) PROVE \E c \in Conns : Service!Refuse(c)
    <2> DEFINE c == sock[fd[Peer(r)]]
    <2>1. Peer(r) \in ClientVars /\ Peer(r) \in FdVars BY ClientVarsAreVars
    <2>2. c \in Conns /\ Behind(Peer(r), c) /\ \A d : Behind(Peer(r), d) => d = c
      BY <1>4, <2>1 DEF PeerCloses, ClientInv, HasClient, Behind
    <2> HIDE DEF c
    <2>3. /\ \A w \in FdVars : w # Peer(r) => SameSocket(w)
          /\ \A d \in Conns : conn'[d] = IF Behind(Peer(r), d) THEN "idle" ELSE conn[d]
          /\ UNCHANGED srule
      BY <1>4, <2>1, CloseSocks DEF PeerCloses
    <2>4. \A s \in Sessions : Client(s) # Peer(r) BY VarsDiffer DEF Client, Peer
    <2>5. \A s \in Sessions : \A d : Behind(Client(s), d)' <=> Behind(Client(s), d)
      BY <1>0, <2>3, <2>4 DEF SameSocket, Behind
    <2>6. conn[c] # "idle" /\ \A s \in Sessions : ~Behind(Client(s), c)
      BY <1>0, <2>1, <2>2, <2>4 DEF ClientInv, BehindIsUp, OneSocket
    <2>7. conn'[c] = "idle" /\ \A d \in Conns : d # c => conn'[d] = conn[d]
      BY <2>2, <2>3
    <2> QED BY <2>2, <2>3, <2>5, <2>6, <2>7, ClientRefused
  <1>5. ASSUME NEW r \in Rules, NEW s \in Sessions, SpawnSession(r, s)
        PROVE  \E c \in Conns : Service!Serve(r, c)
    BY <1>5, ClientServed
  <1>6. ASSUME NEW r \in Rules, NEW c \in Conns, Dial(c, r) PROVE Service!Connect(c)
    BY <1>6, ClientConnects
  <1>7. ASSUME NEW s \in Sessions, ClientCloses(s)
        PROVE  \E r \in Rules : \E c \in Conns : Service!Finish(r, c)
    BY <1>7, ClientFinished
  <1>8. Same => UNCHANGED Service!svars
    BY DEF Service!svars, served
  <1> HIDE DEF Same
  <1> QED
    BY <1>1, <1>2, <1>3, <1>4, <1>5, <1>6, <1>7, <1>8, StepKinds DEF Service!Next

\* At first nobody waits and nobody is served.
LEMMA ServiceInit == Init => Service!Init
  <1> SUFFICES ASSUME Init PROVE Service!Init OBVIOUS
  <1>1. \A r \in Rules : ServedBy(r) = {}
    BY VarsOfSession DEF Init, ServedBy
  <1>2. Unanswered = {} BY DEF Init, Unanswered
  <1> QED BY <1>1, <1>2 DEF Service!Init

\* The tasks, the semaphores and the socket table together do what ForwardService
\* promises, for any number of rules, slots, tasks, sockets and clients.
THEOREM ForwarderImplementsService ==
    ASSUME PortForwardAssumption
    PROVE  Spec => ImplementsService
  <1>1. ServiceInv /\ [Next]_vars => [Service!Next]_(Service!svars)
    BY ServiceStep
  <1> QED
    BY <1>1, ServiceInit, ServiceInvariant, PTL DEF Spec, ImplementsService, Service!Spec
=============================================================================
