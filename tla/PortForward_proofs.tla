------------------------ MODULE PortForward_proofs -------------------------
(* Proofs about PortForward, for every number of rules, sessions and sockets. *)
EXTENDS PortForward, FiniteSetTheorems, TLAPS

USE DEF NoFd

\* Allocate changes only types' members.
LEMMA AllocateType ==
    ASSUME TypeOK, NEW f, NEW v \in FdVars, NEW c \in Conns \cup {NoConn},
           Allocate(f, v, c)
    PROVE  /\ fd' \in [FdVars -> Fds \cup {NoFd}]
           /\ open' \subseteq Fds
           /\ sock' \in [Fds -> Conns \cup {NoConn}]
  BY DEF TypeOK, Allocate

\* So does Close, whatever the descriptor names.
LEMMA CloseType ==
    ASSUME TypeOK, NEW v \in FdVars, Close(v)
    PROVE  /\ fd' \in [FdVars -> Fds \cup {NoFd}]
           /\ open' \subseteq Fds
           /\ sock' \in [Fds -> Conns \cup {NoConn}]
           /\ conn' \in [Conns -> {"idle", "up", "hungup"}]
  BY DEF TypeOK, Close

\* A rule's listener has two descriptor variables.
LEMMA VarsOfRule ==
    ASSUME NEW r \in Rules
    PROVE  <<"listen_fd", r>> \in FdVars /\ <<"peer_fd", r>> \in FdVars
  BY DEF FdVars

\* A session has two descriptor variables.
LEMMA VarsOfSession ==
    ASSUME NEW s \in Sessions
    PROVE  <<"client_fd", s>> \in FdVars /\ <<"target_fd", s>> \in FdVars
  BY DEF FdVars

\* The stack's queue keeps its type.
LEMMA BacklogType ==
    ASSUME TypeOK, NEW r \in Rules, backlog[r] # <<>>
    PROVE  /\ Head(backlog[r]) \in Conns
           /\ [backlog EXCEPT ![r] = Tail(backlog[r])] \in [Rules -> Seq(Conns)]
  <1>1. backlog[r] \in Seq(Conns) BY DEF TypeOK
  <1>2. Head(backlog[r]) \in Conns /\ Tail(backlog[r]) \in Seq(Conns) BY <1>1
  <1> QED BY <1>2 DEF TypeOK

\* Every step of a listener task keeps every variable's type.
LEMMA ListenerType ==
    ASSUME PortForwardAssumption, TypeOK, NEW r \in Rules, ListenerStep(r)
    PROVE  TypeOK'
  <1> USE VarsOfRule DEF TypeOK, ListenerPcs, LGoto, table
  <1>1. CASE ListenSocket(r)
    BY <1>1, AllocateType DEF ListenSocket
  <1>2. CASE ListenSocketFails(r) \/ Bind(r) \/ Listen(r)
    BY <1>2 DEF ListenSocketFails, Bind, Listen
  <1>3. CASE BindOrListenFails(r) \/ RejectPeer(r) \/ LimitReached(r) \/ DropClient(r)
    BY <1>3, CloseType DEF BindOrListenFails, RejectPeer, LimitReached, DropClient
  <1>4. CASE Accept(r)
    <2>1. Head(backlog[r]) \in Conns /\ backlog' \in [Rules -> Seq(Conns)]
      BY <1>4, BacklogType DEF Accept
    <2> QED BY <1>4, <2>1, AllocateType DEF Accept
  <1>5. CASE AcceptFails(r)
    BY <1>5, BacklogType DEF AcceptFails
  <1>6. CASE TakeSlot(r)
    BY <1>6 DEF TakeSlot, Take, PortForwardAssumption
  <1>7. CASE SpawnFails(r)
    BY <1>7 DEF SpawnFails, Give, PortForwardAssumption
  <1>8. CASE \E s \in Sessions : SpawnSession(r, s)
    <2> PICK s \in Sessions : SpawnSession(r, s) BY <1>8
    <2>1. r \in Nat BY DEF Rules, PortForwardAssumption
    <2> QED BY <2>1, VarsOfSession DEF SpawnSession, SessionPcs
  <1> QED BY <1>1, <1>2, <1>3, <1>4, <1>5, <1>6, <1>7, <1>8 DEF ListenerStep

\* Every step of a session task keeps every variable's type.
LEMMA SessionType ==
    ASSUME PortForwardAssumption, TypeOK, NEW s \in Sessions,
           SessionStep(s) \/ RelayEnds(s)
    PROVE  TypeOK'
  <1> USE VarsOfSession DEF TypeOK, SessionPcs, SGoto, table
  <1>1. CASE TargetSocket(s)
    BY <1>1, AllocateType DEF TargetSocket
  <1>2. CASE TargetSocketFails(s) \/ ConnectTarget(s) \/ FreeSession(s)
    BY <1>2 DEF TargetSocketFails, ConnectTarget, FreeSession
  <1>3. CASE RelaySeesHangup(s) \/ RelayEnds(s)
    BY <1>3 DEF RelaySeesHangup, RelayEnds
  <1>4. CASE CloseTarget(s) \/ CloseClient(s)
    BY <1>4, CloseType DEF CloseTarget, CloseClient
  <1>5. CASE GiveSlot(s)
    <2> DEFINE n == IF slots[srule[s]] < SessionsPerRule
                      THEN slots[srule[s]] + 1 ELSE slots[srule[s]]
    <2>1. slots' = [slots EXCEPT ![srule[s]] = n]
      BY <1>5 DEF GiveSlot, Give
    <2>2. slots' \in [Rules -> 0 .. SessionsPerRule]
      <3>1. CASE srule[s] \in Rules
        <4>1. n \in 0 .. SessionsPerRule BY <3>1 DEF PortForwardAssumption
        <4> QED BY <2>1, <4>1
      <3>2. CASE srule[s] \notin Rules
        BY <2>1, <3>2
      <3> QED BY <3>1, <3>2
    <2> QED BY <1>5, <2>2 DEF GiveSlot
  <1> QED BY <1>1, <1>2, <1>3, <1>4, <1>5 DEF SessionStep

\* The state before port_forward_start runs is well typed.
LEMMA TypeInit ==
    ASSUME PortForwardAssumption, Init
    PROVE  TypeOK
  <1>1. \A r \in Rules : <<>> \in Seq(Conns) OBVIOUS
  <1> QED BY <1>1 DEF Init, TypeOK, ListenerPcs, SessionPcs, PortForwardAssumption

\* Every step of port_forward_start, of a task, of a client or of the web
\* server keeps every variable's type.
LEMMA TypeStep ==
    ASSUME PortForwardAssumption, TypeOK, [Next]_vars
    PROVE  TypeOK'
  <1>1. CASE StartStep
    <2>1. starter \in Rules /\ starter' = starter + 1
      BY <1>1 DEF StartStep, SkipRule, StartRule
    <2>2. starter' \in 0 .. NRules
      BY <2>1 DEF Rules, PortForwardAssumption
    <2>3. CASE SkipRule
      BY <2>2, <2>3 DEF SkipRule, TypeOK, table
    <2>4. CASE StartRule
      BY <2>1, <2>2, <2>4 DEF StartRule, TypeOK, table, ListenerPcs, PortForwardAssumption
    <2> QED BY <1>1, <2>3, <2>4 DEF StartStep
  <1>2. CASE \E r \in Rules : ListenerStep(r)
    BY <1>2, ListenerType
  <1>3. CASE \E s \in Sessions : SessionStep(s) \/ RelayEnds(s)
    BY <1>3, SessionType
  <1>4. CASE \E c \in Conns : ClientStep(c)
    <2>1. ASSUME NEW c \in Conns, NEW r \in Rules, Dial(c, r) PROVE TypeOK'
      BY <2>1 DEF Dial, TypeOK, table
    <2>2. ASSUME NEW c \in Conns, HangUp(c) PROVE TypeOK'
      BY <2>2 DEF HangUp, TypeOK, table
    <2> QED BY <1>4, <2>1, <2>2 DEF ClientStep
  <1>5. CASE \E h \in HttpdSocks : HttpdStep(h)
    <2> PICK h \in HttpdSocks : HttpdStep(h) BY <1>5
    <2>1. <<"httpd_fd", h>> \in FdVars BY DEF FdVars
    <2>2. CASE HttpdOpen(h)
      BY <2>1, <2>2, AllocateType DEF HttpdOpen, TypeOK
    <2>3. CASE HttpdClose(h)
      BY <2>1, <2>3, CloseType DEF HttpdClose, TypeOK
    <2> QED BY <2>2, <2>3 DEF HttpdStep
  <1>6. CASE UNCHANGED vars
    BY <1>6 DEF vars, TypeOK
  <1> QED BY <1>1, <1>2, <1>3, <1>4, <1>5, <1>6 DEF Next

\* The type invariant of the forwarder: every reachable state is well typed.
THEOREM TypeCorrect ==
    ASSUME PortForwardAssumption
    PROVE  Spec => []TypeOK
  <1>1. Init => TypeOK BY TypeInit
  <1>2. TypeOK /\ [Next]_vars => TypeOK' BY TypeStep
  <1> QED BY <1>1, <1>2, PTL DEF Spec
-----------------------------------------------------------------------------
(* The semaphore: no slot is lost, none is given back twice.               *)
(*                                                                         *)
(* SlotAccounting is not inductive by itself: StartRule sets the count of  *)
(* a rule to its maximum, which adds up only because a rule not yet        *)
(* started has no session, and FreeSession and SpawnSession move sessions  *)
(* in and out of the set only of rules that exist.                         *)

NotStartedYet ==
    \A r \in Rules : r >= starter => lpc[r] = "none"

SessionsOfStartedRules ==
    \A s \in Sessions : spc[s] # "none" =>
        srule[s] \in Rules /\ lpc[srule[s]] # "none"

SlotInv == TypeOK /\ NotStartedYet /\ SessionsOfStartedRules /\ SlotAccounting

\* The slot the listener itself holds, between xSemaphoreTake and xTaskCreate.
ListenerHolds(r) == IF lpc[r] = "spawn" THEN 1 ELSE 0

Accounted(r) == slots[r] + Cardinality(SlotHolders(r)) + ListenerHolds(r) = SessionsPerRule

\* The sessions that hold a slot of a rule can be counted.
LEMMA HoldersFinite ==
    ASSUME PortForwardAssumption, NEW r
    PROVE  /\ IsFiniteSet(SlotHolders(r))
           /\ Cardinality(SlotHolders(r)) \in Nat
  <1>1. SlotHolders(r) \subseteq Sessions BY DEF SlotHolders
  <1>2. IsFiniteSet(SlotHolders(r)) BY <1>1, FS_Subset DEF PortForwardAssumption
  <1> QED BY <1>2, FS_CardinalityType

\* A step that leaves a rule's count, its holders and its listener's share
\* alone keeps its account.
LEMMA AccountUnchanged ==
    ASSUME NEW r \in Rules, SlotAccounting, lpc[r] # "none",
           slots'[r] = slots[r], SlotHolders(r)' = SlotHolders(r),
           (lpc'[r] = "spawn") <=> (lpc[r] = "spawn")
    PROVE  Accounted(r)'
  BY DEF SlotAccounting, Accounted, ListenerHolds

\* Slot accounting of every rule is the account of each rule that has a
\* listener.
LEMMA AccountsSuffice ==
    SlotAccounting <=> \A r \in Rules : lpc[r] # "none" => Accounted(r)
  BY DEF SlotAccounting, Accounted, ListenerHolds

\* Steps that touch neither the semaphore, the listener's hold nor the set of
\* holders.
LEMMA SlotsUntouched ==
    ASSUME SlotInv, TypeOK', UNCHANGED <<starter, slots, srule>>,
           \A s \in Sessions : (spc'[s] \in {"none", "free"}) <=> (spc[s] \in {"none", "free"}),
           \A s \in Sessions : spc'[s] # "none" => spc[s] # "none",
           \A r \in Rules : /\ (lpc'[r] = "spawn") <=> (lpc[r] = "spawn")
                            /\ (lpc'[r] = "none") <=> (lpc[r] = "none")
    PROVE  SlotInv'
  <1>1. \A r \in Rules : SlotHolders(r)' = SlotHolders(r) BY DEF SlotHolders
  <1>2. NotStartedYet' /\ SessionsOfStartedRules'
    BY DEF SlotInv, NotStartedYet, SessionsOfStartedRules
  <1>3. \A r \in Rules : lpc'[r] # "none" => Accounted(r)'
    BY <1>1, AccountUnchanged DEF SlotInv
  <1>4. SlotAccounting' BY <1>3 DEF SlotAccounting, Accounted, ListenerHolds
  <1> QED BY <1>2, <1>4 DEF SlotInv

\* A listener's step keeps the account: what TakeSlot removes from the
\* semaphore passes to the session, or comes back in SpawnFails.
LEMMA ListenerSlots ==
    ASSUME PortForwardAssumption, SlotInv, TypeOK', NEW r \in Rules, ListenerStep(r)
    PROVE  SlotInv'
  <1> USE DEF LGoto, table
  <1>1. CASE \/ ListenSocket(r) \/ ListenSocketFails(r) \/ Bind(r) \/ Listen(r)
             \/ BindOrListenFails(r) \/ Accept(r) \/ AcceptFails(r)
             \/ RejectPeer(r) \/ LimitReached(r) \/ DropClient(r)
    <2>1. UNCHANGED <<starter, slots, srule, spc>>
      BY <1>1 DEF ListenSocket, ListenSocketFails, Bind, Listen, BindOrListenFails,
                  Accept, AcceptFails, RejectPeer, LimitReached, DropClient
    <2>2. \A q \in Rules : /\ (lpc'[q] = "spawn") <=> (lpc[q] = "spawn")
                           /\ (lpc'[q] = "none") <=> (lpc[q] = "none")
      BY <1>1 DEF ListenSocket, ListenSocketFails, Bind, Listen, BindOrListenFails,
                  Accept, AcceptFails, RejectPeer, LimitReached, DropClient, SlotInv, TypeOK
    <2> QED BY <2>1, <2>2, SlotsUntouched
  <1>2. CASE TakeSlot(r) \/ SpawnFails(r)
    <2>1. UNCHANGED <<starter, spc, srule>> /\ lpc[r] # "none" /\ lpc'[r] # "none"
      BY <1>2 DEF TakeSlot, SpawnFails, SlotInv, TypeOK
    <2>2. \A q \in Rules : q # r => lpc'[q] = lpc[q] /\ slots'[q] = slots[q]
      BY <1>2 DEF TakeSlot, SpawnFails, Take, Give, SlotInv, TypeOK
    <2>3. \A q \in Rules : SlotHolders(q)' = SlotHolders(q)
      BY <2>1 DEF SlotHolders
    <2>4. Accounted(r)
      BY <2>1, AccountsSuffice DEF SlotInv
    <2>5. slots[r] \in 0 .. SessionsPerRule /\ Cardinality(SlotHolders(r)) \in Nat
      BY HoldersFinite DEF SlotInv, TypeOK
    <2>6. Accounted(r)'
      <3>1. CASE TakeSlot(r)
        <4>1. slots'[r] = slots[r] - 1 /\ lpc[r] = "peer" /\ lpc'[r] = "spawn"
          BY <3>1 DEF TakeSlot, Take, SlotInv, TypeOK
        <4> QED BY <2>3, <2>4, <2>5, <4>1 DEF Accounted, ListenerHolds
      <3>2. CASE SpawnFails(r)
        <4>1. lpc[r] = "spawn" /\ lpc'[r] = "drop"
          BY <3>2 DEF SpawnFails, SlotInv, TypeOK
        <4>2. slots[r] < SessionsPerRule
          BY <2>4, <2>5, <4>1 DEF Accounted, ListenerHolds, PortForwardAssumption
        <4>3. slots'[r] = slots[r] + 1
          BY <3>2, <4>2 DEF SpawnFails, Give, SlotInv, TypeOK
        <4> QED BY <2>3, <2>4, <2>5, <4>1, <4>3 DEF Accounted, ListenerHolds
      <3> QED BY <1>2, <3>1, <3>2
    <2>7. \A q \in Rules : lpc'[q] # "none" => Accounted(q)'
      BY <2>2, <2>3, <2>6, AccountUnchanged DEF SlotInv
    <2>8. SlotAccounting' BY <2>7 DEF SlotAccounting, Accounted, ListenerHolds
    <2>9. NotStartedYet' /\ SessionsOfStartedRules'
      BY <2>1, <2>2 DEF SlotInv, NotStartedYet, SessionsOfStartedRules
    <2> QED BY <2>8, <2>9 DEF SlotInv
  <1>3. CASE \E s \in Sessions : SpawnSession(r, s)
    <2> PICK s \in Sessions : SpawnSession(r, s) BY <1>3
    <2>1. /\ UNCHANGED <<starter, slots>>
          /\ lpc[r] = "spawn" /\ lpc'[r] = "accept"
          /\ spc[s] = "none" /\ spc'[s] = "socket" /\ srule'[s] = r
          /\ \A q \in Rules : q # r => lpc'[q] = lpc[q]
          /\ \A t \in Sessions : t # s => spc'[t] = spc[t] /\ srule'[t] = srule[t]
      BY DEF SpawnSession, SlotInv, TypeOK
    <2>2. SlotHolders(r)' = SlotHolders(r) \cup {s} /\ s \notin SlotHolders(r)
      BY <2>1 DEF SlotHolders
    <2>3. Cardinality(SlotHolders(r)') = Cardinality(SlotHolders(r)) + 1
      BY <2>2, HoldersFinite, FS_AddElement
    <2>4. Accounted(r) BY <2>1, AccountsSuffice DEF SlotInv
    <2>5. slots[r] \in 0 .. SessionsPerRule /\ Cardinality(SlotHolders(r)) \in Nat
      BY HoldersFinite DEF SlotInv, TypeOK
    <2>6. Accounted(r)'
      BY <2>1, <2>3, <2>4, <2>5 DEF Accounted, ListenerHolds
    <2>7. \A q \in Rules : q # r => SlotHolders(q)' = SlotHolders(q)
      BY <2>1 DEF SlotHolders
    <2>8. \A q \in Rules : lpc'[q] # "none" => Accounted(q)'
      BY <2>1, <2>6, <2>7, AccountUnchanged DEF SlotInv
    <2>9. SlotAccounting' BY <2>8 DEF SlotAccounting, Accounted, ListenerHolds
    <2>10. NotStartedYet' /\ SessionsOfStartedRules'
      BY <2>1 DEF SlotInv, NotStartedYet, SessionsOfStartedRules
    <2> QED BY <2>9, <2>10 DEF SlotInv
  <1> QED BY <1>1, <1>2, <1>3 DEF ListenerStep

\* A session's step keeps the account: it gives its slot back once.
LEMMA SessionSlots ==
    ASSUME PortForwardAssumption, SlotInv, TypeOK', NEW s \in Sessions,
           SessionStep(s) \/ RelayEnds(s)
    PROVE  SlotInv'
  <1> USE DEF SGoto, table
  <1>1. CASE \/ TargetSocket(s) \/ TargetSocketFails(s) \/ ConnectTarget(s)
             \/ RelaySeesHangup(s) \/ RelayEnds(s) \/ CloseTarget(s) \/ CloseClient(s)
    <2>1. UNCHANGED <<starter, slots, srule, lpc>>
      BY <1>1 DEF TargetSocket, TargetSocketFails, ConnectTarget, RelaySeesHangup,
                  RelayEnds, CloseTarget, CloseClient
    <2>2. \A t \in Sessions :
            /\ (spc'[t] \in {"none", "free"}) <=> (spc[t] \in {"none", "free"})
            /\ spc'[t] # "none" => spc[t] # "none"
      BY <1>1 DEF TargetSocket, TargetSocketFails, ConnectTarget, RelaySeesHangup,
                  RelayEnds, CloseTarget, CloseClient, SlotInv, TypeOK
    <2> QED BY <2>1, <2>2, SlotsUntouched
  <1>2. CASE FreeSession(s)
    <2>1. UNCHANGED <<starter, slots, srule, lpc>>
      BY <1>2 DEF FreeSession
    <2>2. \A t \in Sessions :
            /\ (spc'[t] \in {"none", "free"}) <=> (spc[t] \in {"none", "free"})
            /\ spc'[t] # "none" => spc[t] # "none"
      BY <1>2 DEF FreeSession, SlotInv, TypeOK
    <2> QED BY <2>1, <2>2, SlotsUntouched
  <1>3. CASE GiveSlot(s)
    <2>1. /\ UNCHANGED <<starter, lpc, srule>>
          /\ spc[s] = "give" /\ spc'[s] = "free"
          /\ \A t \in Sessions : t # s => spc'[t] = spc[t]
      BY <1>3 DEF GiveSlot, SlotInv, TypeOK
    <2> PICK r \in Rules : r = srule[s] /\ lpc[r] # "none"
      BY <2>1 DEF SlotInv, SessionsOfStartedRules
    <2>3. SlotHolders(r)' = SlotHolders(r) \ {s} /\ s \in SlotHolders(r)
      BY <2>1 DEF SlotHolders
    <2>4. Cardinality(SlotHolders(r)') = Cardinality(SlotHolders(r)) - 1
      BY <2>3, HoldersFinite, FS_RemoveElement
    <2>5. Cardinality(SlotHolders(r)) # 0
      BY <2>3, HoldersFinite, FS_EmptySet
    <2>6. Accounted(r) BY AccountsSuffice DEF SlotInv
    <2>7. slots[r] \in 0 .. SessionsPerRule /\ Cardinality(SlotHolders(r)) \in Nat
      BY HoldersFinite DEF SlotInv, TypeOK
    <2>8. slots[r] < SessionsPerRule
      BY <2>5, <2>6, <2>7 DEF Accounted, ListenerHolds, PortForwardAssumption
    <2>9. slots' = [slots EXCEPT ![r] = slots[r] + 1]
      BY <1>3, <2>8 DEF GiveSlot, Give
    <2>10. slots'[r] = slots[r] + 1 /\ \A q \in Rules : q # r => slots'[q] = slots[q]
      BY <2>9 DEF SlotInv, TypeOK
    <2>11. Accounted(r)'
      BY <2>1, <2>4, <2>6, <2>7, <2>10 DEF Accounted, ListenerHolds
    <2>12. \A q \in Rules : q # r => SlotHolders(q)' = SlotHolders(q)
      BY <2>1 DEF SlotHolders
    <2>13. \A q \in Rules : lpc'[q] # "none" => Accounted(q)'
      BY <2>1, <2>10, <2>11, <2>12, AccountUnchanged DEF SlotInv
    <2>14. SlotAccounting' BY <2>13 DEF SlotAccounting, Accounted, ListenerHolds
    <2>15. NotStartedYet' /\ SessionsOfStartedRules'
      BY <2>1 DEF SlotInv, NotStartedYet, SessionsOfStartedRules
    <2> QED BY <2>14, <2>15 DEF SlotInv
  <1> QED BY <1>1, <1>2, <1>3 DEF SessionStep

\* port_forward_start opens an account with every slot free, for a rule that no
\* session has ever served.
LEMMA StarterSlots ==
    ASSUME PortForwardAssumption, SlotInv, TypeOK', StartStep
    PROVE  SlotInv'
  <1> USE DEF table
  <1> PICK r \in Rules : r = starter
    BY DEF StartStep, SkipRule, StartRule
  <1>1. starter' = r + 1 /\ UNCHANGED <<spc, srule>>
    BY DEF StartStep, SkipRule, StartRule
  <1>2. \A q \in Rules : q # r => lpc'[q] = lpc[q] /\ slots'[q] = slots[q]
    BY DEF StartStep, SkipRule, StartRule, SlotInv, TypeOK
  <1>3. \A q \in Rules : SlotHolders(q)' = SlotHolders(q)
    BY <1>1 DEF SlotHolders
  <1>4. lpc[r] = "none"
    BY DEF SlotInv, NotStartedYet, Rules, PortForwardAssumption
  <1>5. SlotHolders(r)' = {}
    BY <1>3, <1>4 DEF SlotInv, SessionsOfStartedRules, SlotHolders
  <1>6. lpc'[r] # "none" => Accounted(r)'
    <2>1. CASE SkipRule
      BY <1>4, <2>1 DEF SkipRule
    <2>2. CASE StartRule
      <3>1. slots'[r] = SessionsPerRule /\ lpc'[r] = "socket"
        BY <2>2 DEF StartRule, SlotInv, TypeOK
      <3>2. Cardinality(SlotHolders(r)') = 0
        BY <1>5, FS_EmptySet
      <3> QED BY <3>1, <3>2 DEF Accounted, ListenerHolds, PortForwardAssumption
    <2> QED BY <2>1, <2>2 DEF StartStep
  <1>7. \A q \in Rules : lpc'[q] # "none" => Accounted(q)'
    BY <1>2, <1>3, <1>6, AccountUnchanged DEF SlotInv
  <1>8. SlotAccounting' BY <1>7 DEF SlotAccounting, Accounted, ListenerHolds
  <1>9. NotStartedYet'
    BY <1>1, <1>2 DEF SlotInv, NotStartedYet, Rules, PortForwardAssumption
  <1>10. SessionsOfStartedRules'
    BY <1>1, <1>2, <1>4 DEF SlotInv, SessionsOfStartedRules
  <1> QED BY <1>8, <1>9, <1>10 DEF SlotInv

\* The account with what it needs is inductive.
LEMMA SlotInvariant ==
    ASSUME PortForwardAssumption
    PROVE  Spec => []SlotInv
  <1>1. Init => SlotInv
    BY TypeInit DEF Init, SlotInv, NotStartedYet, SessionsOfStartedRules, SlotAccounting
  <1>2. SlotInv /\ [Next]_vars => SlotInv'
    <2> SUFFICES ASSUME SlotInv, [Next]_vars PROVE SlotInv' OBVIOUS
    <2>1. TypeOK' BY TypeStep DEF SlotInv
    <2>2. CASE StartStep BY <2>1, <2>2, StarterSlots
    <2>3. CASE \E r \in Rules : ListenerStep(r) BY <2>1, <2>3, ListenerSlots
    <2>4. CASE \E s \in Sessions : SessionStep(s) \/ RelayEnds(s)
      BY <2>1, <2>4, SessionSlots
    <2>5. CASE (\E c \in Conns : ClientStep(c)) \/ (\E h \in HttpdSocks : HttpdStep(h))
      <3>1. UNCHANGED <<starter, slots, srule, spc, lpc>>
        BY <2>5 DEF ClientStep, Dial, HangUp, HttpdStep, HttpdOpen, HttpdClose
      <3> QED BY <2>1, <3>1, SlotsUntouched
    <2>6. CASE UNCHANGED vars
      BY <2>1, <2>6, SlotsUntouched DEF vars
    <2> QED BY <2>2, <2>3, <2>4, <2>5, <2>6 DEF Next
  <1> QED BY <1>1, <1>2, PTL DEF Spec

\* Slot accounting holds in every reachable state, for any number of rules,
\* any limit and any finite number of tasks.
THEOREM SlotsAccounted ==
    ASSUME PortForwardAssumption
    PROVE  Spec => []SlotAccounting
  <1>1. SlotInv => SlotAccounting BY DEF SlotInv
  <1> QED BY <1>1, SlotInvariant, PTL
-----------------------------------------------------------------------------
(* The socket table: every allocated socket has exactly one variable that  *)
(* will close it.                                                          *)
(*                                                                         *)
(* FdOwnership alone is not inductive: accept overwrites the listener's    *)
(* client_fd and xTaskCreate the session's, which loses a socket unless    *)
(* they name none at that point.  HeldWhileUsed says they do not, and      *)
(* NotStartedYet says it of the tasks port_forward_start is yet to create. *)

SocketInv == TypeOK /\ NotStartedYet /\ HeldWhileUsed /\ FdOwnership

\* A socket allocated for a variable that names none is owned by it alone.
LEMMA AllocateOwned ==
    ASSUME TypeOK, FdOwnership, NEW f, NEW v \in FdVars, NEW c,
           fd[v] = NoFd, Allocate(f, v, c)
    PROVE  FdOwnership' /\ fd'[v] # NoFd /\ \A w \in FdVars : w # v => fd'[w] = fd[w]
  <1>1. f # NoFd BY DEF Allocate, Fds
  <1>2. fd'[v] = f /\ \A w \in FdVars : w # v => fd'[w] = fd[w]
    BY DEF Allocate, TypeOK
  <1>3. f \notin open BY DEF Allocate
  <1>4. \A w \in FdVars : fd[w] # f
    BY <1>1, <1>3 DEF FdOwnership
  <1>5. open' = open \cup {f} BY DEF Allocate
  <1>6. open' = {fd'[w] : w \in FdVars} \ {NoFd}
    <2>1. \A x \in open' : x # NoFd /\ \E w \in FdVars : fd'[w] = x
      BY <1>1, <1>2, <1>5 DEF FdOwnership
    <2>2. \A w \in FdVars : fd'[w] # NoFd => fd'[w] \in open'
      BY <1>2, <1>5 DEF FdOwnership
    <2> QED BY <2>1, <2>2
  <1>7. \A w, u \in FdVars : w # u /\ fd'[w] # NoFd => fd'[w] # fd'[u]
    BY <1>2, <1>4 DEF FdOwnership
  <1> QED BY <1>1, <1>2, <1>6, <1>7 DEF FdOwnership

\* Closing releases exactly the socket the variable names.
LEMMA CloseOwned ==
    ASSUME TypeOK, FdOwnership, NEW v \in FdVars, Close(v)
    PROVE  FdOwnership' /\ fd'[v] = NoFd /\ \A w \in FdVars : w # v => fd'[w] = fd[w]
  <1>1. fd'[v] = NoFd /\ \A w \in FdVars : w # v => fd'[w] = fd[w]
    BY DEF Close, TypeOK
  <1>2. open' = open \ {fd[v]} BY DEF Close
  <1>3. open' = {fd'[w] : w \in FdVars} \ {NoFd}
    <2>1. \A x \in open' : x # NoFd /\ \E w \in FdVars : fd'[w] = x
      BY <1>1, <1>2 DEF FdOwnership
    <2>2. \A w \in FdVars : fd'[w] # NoFd => fd'[w] \in open'
      BY <1>1, <1>2 DEF FdOwnership
    <2> QED BY <2>1, <2>2
  <1>4. \A w, u \in FdVars : w # u /\ fd'[w] # NoFd => fd'[w] # fd'[u]
    BY <1>1 DEF FdOwnership
  <1> QED BY <1>1, <1>3, <1>4 DEF FdOwnership

\* Descriptor variables of different names or tasks are different.
LEMMA VarsDiffer ==
    ASSUME NEW a, NEW x, NEW b, NEW y, a # b \/ x # y
    PROVE  <<a, x>> # <<b, y>>
  OBVIOUS

\* A step that leaves a task where it is, with the descriptors it has.
SameListener(q) ==
    /\ lpc'[q] = lpc[q]
    /\ fd'[<<"listen_fd", q>>] = fd[<<"listen_fd", q>>]
    /\ fd'[<<"peer_fd", q>>] = fd[<<"peer_fd", q>>]
SameSession(s) ==
    /\ spc'[s] = spc[s]
    /\ fd'[<<"client_fd", s>>] = fd[<<"client_fd", s>>]
    /\ fd'[<<"target_fd", s>>] = fd[<<"target_fd", s>>]

\* Only the tasks a step concerns need be looked at.
LEMMA HeldElsewhere ==
    ASSUME HeldWhileUsed,
           \A q \in Rules : SameListener(q) \/ ListenerHeld(q)',
           \A s \in Sessions : SameSession(s) \/ SessionHeld(s)'
    PROVE  HeldWhileUsed'
  <1>1. \A q \in Rules : ListenerHeld(q)'
    <2> TAKE q \in Rules
    <2>1. ListenerHeld(q) BY DEF HeldWhileUsed
    <2>2. CASE SameListener(q) BY <2>1, <2>2 DEF ListenerHeld, Listening, SameListener
    <2> QED BY <2>2
  <1>2. \A s \in Sessions : SessionHeld(s)'
    <2> TAKE s \in Sessions
    <2>1. SessionHeld(s) BY DEF HeldWhileUsed
    <2>2. CASE SameSession(s) BY <2>1, <2>2 DEF SessionHeld, SameSession
    <2> QED BY <2>2
  <1> QED BY <1>1, <1>2 DEF HeldWhileUsed

\* What a listener's step changes of one of its variables v, and of no other.
LEMMA ListenerHolds1 ==
    ASSUME TypeOK, TypeOK', HeldWhileUsed, NEW r \in Rules, NEW v \in FdVars,
           v = <<"listen_fd", r>> \/ v = <<"peer_fd", r>>,
           \A w \in FdVars : w # v => fd'[w] = fd[w],
           NEW to, lpc' = [lpc EXCEPT ![r] = to], UNCHANGED spc, ListenerHeld(r)'
    PROVE  HeldWhileUsed'
  <1>1. \A q \in Rules : q # r => SameListener(q)
    <2> SUFFICES ASSUME NEW q \in Rules, q # r PROVE SameListener(q) OBVIOUS
    <2>1. <<"listen_fd", q>> # v /\ <<"peer_fd", q>> # v BY VarsDiffer
    <2> QED BY <2>1, VarsOfRule DEF TypeOK, SameListener
  <1>2. \A s \in Sessions : SameSession(s)
    <2> TAKE s \in Sessions
    <2>1. <<"client_fd", s>> # v /\ <<"target_fd", s>> # v BY VarsDiffer
    <2> QED BY <2>1, VarsOfSession DEF SameSession
  <1> QED BY <1>1, <1>2, HeldElsewhere

\* The same of a session's step.
LEMMA SessionHolds1 ==
    ASSUME TypeOK, TypeOK', HeldWhileUsed, NEW s \in Sessions, NEW v \in FdVars,
           v = <<"client_fd", s>> \/ v = <<"target_fd", s>>,
           \A w \in FdVars : w # v => fd'[w] = fd[w],
           NEW to, spc' = [spc EXCEPT ![s] = to], UNCHANGED lpc, SessionHeld(s)'
    PROVE  HeldWhileUsed'
  <1>1. \A q \in Rules : SameListener(q)
    <2> TAKE q \in Rules
    <2>1. <<"listen_fd", q>> # v /\ <<"peer_fd", q>> # v BY VarsDiffer
    <2> QED BY <2>1, VarsOfRule DEF SameListener
  <1>2. \A t \in Sessions : t # s => SameSession(t)
    <2> SUFFICES ASSUME NEW t \in Sessions, t # s PROVE SameSession(t) OBVIOUS
    <2>1. <<"client_fd", t>> # v /\ <<"target_fd", t>> # v BY VarsDiffer
    <2> QED BY <2>1, VarsOfSession DEF TypeOK, SameSession
  <1> QED BY <1>1, <1>2, HeldElsewhere

\* A listener's step keeps the table owned: one case per way it uses it.
LEMMA ListenerSockets ==
    ASSUME SocketInv, TypeOK', NEW r \in Rules, ListenerStep(r)
    PROVE  HeldWhileUsed' /\ FdOwnership'
  <1> USE DEF SocketInv, LGoto, table
  <1> DEFINE l == <<"listen_fd", r>>
             p == <<"peer_fd", r>>
  <1>0. l \in FdVars /\ p \in FdVars /\ l # p BY VarsOfRule
  <1>a. ListenerHeld(r) BY DEF HeldWhileUsed
  <1>1. CASE ListenSocket(r)
    <2>1. lpc[r] = "socket" /\ lpc' = [lpc EXCEPT ![r] = "bind"] /\ UNCHANGED spc
      BY <1>1 DEF ListenSocket
    <2>2. fd[l] = NoFd BY <1>a, <2>1 DEF ListenerHeld, Listening
    <2>3. FdOwnership' /\ fd'[l] # NoFd /\ \A w \in FdVars : w # l => fd'[w] = fd[w]
      BY <1>0, <1>1, <2>2, AllocateOwned DEF ListenSocket
    <2>4. ListenerHeld(r)'
      BY <1>0, <1>a, <2>1, <2>3 DEF ListenerHeld, Listening, TypeOK
    <2> QED BY <1>0, <2>1, <2>3, <2>4, ListenerHolds1
  <1>2. CASE ListenSocketFails(r) \/ Bind(r) \/ Listen(r) \/ AcceptFails(r)
             \/ TakeSlot(r) \/ SpawnFails(r)
    <2>1. UNCHANGED <<fd, open, spc>>
      BY <1>2 DEF ListenSocketFails, Bind, Listen, AcceptFails, TakeSlot, SpawnFails
    <2>2. \E to : lpc' = [lpc EXCEPT ![r] = to]
      <3>1. CASE AcceptFails(r)
        BY <3>1 DEF AcceptFails, TypeOK
      <3>2. CASE ~AcceptFails(r)
        BY <1>2, <3>2 DEF ListenSocketFails, Bind, Listen, TakeSlot, SpawnFails
      <3> QED BY <3>1, <3>2
    <2>3. ListenerHeld(r)'
      BY <1>a, <1>2, <2>1 DEF ListenSocketFails, Bind, Listen, AcceptFails, TakeSlot,
                              SpawnFails, ListenerHeld, Listening, TypeOK
    <2>4. HeldWhileUsed' BY <1>0, <2>1, <2>2, <2>3, ListenerHolds1
    <2> QED BY <2>1, <2>4 DEF FdOwnership
  <1>3. CASE BindOrListenFails(r)
    <2>1. lpc[r] \in {"bind", "listen"} /\ lpc' = [lpc EXCEPT ![r] = "dead"] /\ UNCHANGED spc
      BY <1>3 DEF BindOrListenFails
    <2>2. FdOwnership' /\ fd'[l] = NoFd /\ \A w \in FdVars : w # l => fd'[w] = fd[w]
      BY <1>0, <1>3, CloseOwned DEF BindOrListenFails
    <2>3. ListenerHeld(r)'
      BY <1>0, <1>a, <2>1, <2>2 DEF ListenerHeld, Listening, TypeOK
    <2> QED BY <1>0, <2>1, <2>2, <2>3, ListenerHolds1
  <1>4. CASE Accept(r)
    <2>1. lpc[r] = "accept" /\ lpc' = [lpc EXCEPT ![r] = "peer"] /\ UNCHANGED spc
      BY <1>4 DEF Accept
    <2>2. fd[p] = NoFd BY <1>a, <2>1 DEF ListenerHeld
    <2>3. FdOwnership' /\ fd'[p] # NoFd /\ \A w \in FdVars : w # p => fd'[w] = fd[w]
      BY <1>0, <1>4, <2>2, AllocateOwned DEF Accept
    <2>4. ListenerHeld(r)'
      BY <1>0, <1>a, <2>1, <2>3 DEF ListenerHeld, Listening, TypeOK
    <2> QED BY <1>0, <2>1, <2>3, <2>4, ListenerHolds1
  <1>5. CASE RejectPeer(r) \/ LimitReached(r) \/ DropClient(r)
    <2>1. /\ lpc[r] \in {"peer", "drop"} /\ lpc' = [lpc EXCEPT ![r] = "accept"]
          /\ UNCHANGED spc
      BY <1>5 DEF RejectPeer, LimitReached, DropClient
    <2>2. FdOwnership' /\ fd'[p] = NoFd /\ \A w \in FdVars : w # p => fd'[w] = fd[w]
      BY <1>0, <1>5, CloseOwned DEF RejectPeer, LimitReached, DropClient
    <2>3. ListenerHeld(r)'
      BY <1>0, <1>a, <2>1, <2>2 DEF ListenerHeld, Listening, TypeOK
    <2> QED BY <1>0, <2>1, <2>2, <2>3, ListenerHolds1
  <1>6. CASE \E s \in Sessions : SpawnSession(r, s)
    <2> PICK s \in Sessions : SpawnSession(r, s) BY <1>6
    <2> DEFINE c == <<"client_fd", s>>
    <2>0. c \in FdVars /\ c # p /\ c # l BY VarsOfSession
    <2>1. /\ lpc[r] = "spawn" /\ lpc' = [lpc EXCEPT ![r] = "accept"]
          /\ spc[s] = "none" /\ spc' = [spc EXCEPT ![s] = "socket"]
          /\ UNCHANGED open
      BY DEF SpawnSession
    <2>2. SessionHeld(s) BY DEF HeldWhileUsed
    <2>3. fd[c] = NoFd /\ fd[p] # NoFd BY <1>a, <2>1, <2>2 DEF ListenerHeld, SessionHeld
    <2>4. /\ fd'[c] = fd[p] /\ fd'[p] = NoFd
          /\ \A w \in FdVars : w # c /\ w # p => fd'[w] = fd[w]
      BY <1>0, <2>0 DEF SpawnSession, TypeOK
    <2>5. FdOwnership'
      <3> HIDE DEF c, p
      <3>1. \A x \in open : x # NoFd /\ \E w \in FdVars : fd'[w] = x
        BY <1>0, <2>0, <2>3, <2>4 DEF FdOwnership
      <3>2. \A w \in FdVars : fd'[w] # NoFd => fd'[w] \in open
        BY <1>0, <2>0, <2>3, <2>4 DEF FdOwnership
      <3>3. \A w, u \in FdVars : w # u /\ fd'[w] # NoFd => fd'[w] # fd'[u]
        BY <1>0, <2>0, <2>3, <2>4 DEF FdOwnership
      <3> QED BY <2>1, <3>1, <3>2, <3>3 DEF FdOwnership
    <2>6. ListenerHeld(r)'
      BY <1>0, <1>a, <2>0, <2>1, <2>4 DEF ListenerHeld, Listening, TypeOK
    <2>7. <<"target_fd", s>> \in FdVars /\ <<"target_fd", s>> # c /\ <<"target_fd", s>> # p
      BY VarsOfSession
    <2>8. SessionHeld(s)'
      BY <1>0, <2>0, <2>1, <2>2, <2>3, <2>4, <2>7 DEF SessionHeld, TypeOK
    <2>9. \A q \in Rules : q # r => SameListener(q)
      <3> SUFFICES ASSUME NEW q \in Rules, q # r PROVE SameListener(q) OBVIOUS
      <3>1. /\ <<"listen_fd", q>> # c /\ <<"peer_fd", q>> # c
            /\ <<"listen_fd", q>> # p /\ <<"peer_fd", q>> # p
        BY VarsDiffer
      <3> QED BY <2>1, <2>4, <3>1, VarsOfRule DEF TypeOK, SameListener
    <2>10. \A t \in Sessions : t # s => SameSession(t)
      <3> SUFFICES ASSUME NEW t \in Sessions, t # s PROVE SameSession(t) OBVIOUS
      <3>1. /\ <<"client_fd", t>> # c /\ <<"target_fd", t>> # c
            /\ <<"client_fd", t>> # p /\ <<"target_fd", t>> # p
        BY VarsDiffer
      <3> QED BY <2>1, <2>4, <3>1, VarsOfSession DEF TypeOK, SameSession
    <2>11. HeldWhileUsed' BY <2>6, <2>8, <2>9, <2>10, HeldElsewhere
    <2> QED BY <2>5, <2>11
  <1> QED BY <1>1, <1>2, <1>3, <1>4, <1>5, <1>6 DEF ListenerStep

\* So does a session's step.
LEMMA SessionSockets ==
    ASSUME SocketInv, TypeOK', NEW s \in Sessions, SessionStep(s) \/ RelayEnds(s)
    PROVE  HeldWhileUsed' /\ FdOwnership'
  <1> USE DEF SocketInv, SGoto, table
  <1> DEFINE c == <<"client_fd", s>>
             t == <<"target_fd", s>>
  <1>0. c \in FdVars /\ t \in FdVars /\ c # t BY VarsOfSession
  <1>a. SessionHeld(s) BY DEF HeldWhileUsed
  <1>1. CASE TargetSocket(s)
    <2>1. spc[s] = "socket" /\ spc' = [spc EXCEPT ![s] = "connect"] /\ UNCHANGED lpc
      BY <1>1 DEF TargetSocket
    <2>2. fd[t] = NoFd BY <1>a, <2>1 DEF SessionHeld
    <2>3. FdOwnership' /\ fd'[t] # NoFd /\ \A w \in FdVars : w # t => fd'[w] = fd[w]
      BY <1>0, <1>1, <2>2, AllocateOwned DEF TargetSocket
    <2>4. SessionHeld(s)'
      BY <1>0, <1>a, <2>1, <2>3 DEF SessionHeld, TypeOK
    <2> QED BY <1>0, <2>1, <2>3, <2>4, SessionHolds1
  <1>2. CASE TargetSocketFails(s) \/ ConnectTarget(s) \/ RelaySeesHangup(s) \/ RelayEnds(s)
             \/ GiveSlot(s) \/ FreeSession(s)
    <2>1. UNCHANGED <<fd, open, lpc>> /\ \E to : spc' = [spc EXCEPT ![s] = to]
      BY <1>2 DEF TargetSocketFails, ConnectTarget, RelaySeesHangup, RelayEnds, GiveSlot,
                  FreeSession
    <2>2. SessionHeld(s)'
      BY <1>a, <1>2, <2>1 DEF TargetSocketFails, ConnectTarget, RelaySeesHangup, RelayEnds,
                              GiveSlot, FreeSession, SessionHeld, TypeOK
    <2>3. HeldWhileUsed' BY <1>0, <2>1, <2>2, SessionHolds1
    <2> QED BY <2>1, <2>3 DEF FdOwnership
  <1>3. CASE CloseTarget(s)
    <2>1. /\ spc[s] = "close_target" /\ spc' = [spc EXCEPT ![s] = "close_client"]
          /\ UNCHANGED lpc
      BY <1>3 DEF CloseTarget
    <2>2. FdOwnership' /\ fd'[t] = NoFd /\ \A w \in FdVars : w # t => fd'[w] = fd[w]
      BY <1>0, <1>3, CloseOwned DEF CloseTarget
    <2>3. SessionHeld(s)'
      BY <1>0, <1>a, <2>1, <2>2 DEF SessionHeld, TypeOK
    <2> QED BY <1>0, <2>1, <2>2, <2>3, SessionHolds1
  <1>4. CASE CloseClient(s)
    <2>1. /\ spc[s] = "close_client" /\ spc' = [spc EXCEPT ![s] = "give"]
          /\ UNCHANGED lpc
      BY <1>4 DEF CloseClient
    <2>2. FdOwnership' /\ fd'[c] = NoFd /\ \A w \in FdVars : w # c => fd'[w] = fd[w]
      BY <1>0, <1>4, CloseOwned DEF CloseClient
    <2>3. SessionHeld(s)'
      BY <1>0, <1>a, <2>1, <2>2 DEF SessionHeld, TypeOK
    <2> QED BY <1>0, <2>1, <2>2, <2>3, SessionHolds1
  <1> QED BY <1>1, <1>2, <1>3, <1>4 DEF SessionStep

\* What the clients and the web server do to the table.
LEMMA OtherSockets ==
    ASSUME SocketInv, TypeOK',
           \/ \E c \in Conns : ClientStep(c)
           \/ \E h \in HttpdSocks : HttpdStep(h)
    PROVE  HeldWhileUsed' /\ FdOwnership'
  <1> USE DEF SocketInv, table
  <1>1. CASE \E c \in Conns : ClientStep(c)
    <2>1. UNCHANGED <<fd, open, lpc, spc>>
      BY <1>1 DEF ClientStep, Dial, HangUp
    <2> QED BY <2>1 DEF FdOwnership, HeldWhileUsed, ListenerHeld, SessionHeld, Listening
  <1>2. CASE \E h \in HttpdSocks : HttpdStep(h)
    <2> PICK h \in HttpdSocks : HttpdStep(h) BY <1>2
    <2> DEFINE v == <<"httpd_fd", h>>
    <2>1. v \in FdVars BY DEF FdVars
    <2>2. UNCHANGED <<lpc, spc>>
      BY DEF HttpdStep, HttpdOpen, HttpdClose
    <2>3. FdOwnership' /\ \A w \in FdVars : w # v => fd'[w] = fd[w]
      <3>1. CASE HttpdOpen(h) BY <2>1, <3>1, AllocateOwned DEF HttpdOpen
      <3>2. CASE HttpdClose(h) BY <2>1, <3>2, CloseOwned DEF HttpdClose
      <3> QED BY <3>1, <3>2 DEF HttpdStep
    <2>4. \A q \in Rules : SameListener(q)
      <3> TAKE q \in Rules
      <3>1. <<"listen_fd", q>> # v /\ <<"peer_fd", q>> # v BY VarsDiffer
      <3> QED BY <2>2, <2>3, <3>1, VarsOfRule DEF SameListener
    <2>5. \A s \in Sessions : SameSession(s)
      <3> TAKE s \in Sessions
      <3>1. <<"client_fd", s>> # v /\ <<"target_fd", s>> # v BY VarsDiffer
      <3> QED BY <2>2, <2>3, <3>1, VarsOfSession DEF SameSession
    <2>6. HeldWhileUsed' BY <2>4, <2>5, HeldElsewhere
    <2> QED BY <2>3, <2>6
  <1> QED BY <1>1, <1>2

\* port_forward_start creates a listener only for a rule that has none.
LEMMA StarterSockets ==
    ASSUME SocketInv, TypeOK', StartStep
    PROVE  HeldWhileUsed' /\ FdOwnership'
  <1> USE DEF SocketInv, table
  <1> PICK r \in Rules : r = starter
    BY DEF StartStep, SkipRule, StartRule
  <1>1. UNCHANGED <<fd, open, spc>>
    BY DEF StartStep, SkipRule, StartRule
  <1>2. lpc[r] = "none"
    BY DEF NotStartedYet, Rules, PortForwardAssumption
  <1>3. lpc'[r] \in {"none", "socket"} /\ \A q \in Rules \ {r} : lpc'[q] = lpc[q]
    BY <1>2 DEF StartStep, SkipRule, StartRule, TypeOK
  <1>4. ListenerHeld(r)'
    BY <1>1, <1>2, <1>3 DEF HeldWhileUsed, ListenerHeld, Listening
  <1>5. \A q \in Rules : q # r => SameListener(q) BY <1>1, <1>3 DEF SameListener
  <1>6. \A s \in Sessions : SameSession(s) BY <1>1 DEF SameSession
  <1>7. HeldWhileUsed' BY <1>4, <1>5, <1>6, HeldElsewhere
  <1> QED BY <1>1, <1>7 DEF FdOwnership

\* Rules are started in order, each once.
LEMMA StartOrder ==
    ASSUME PortForwardAssumption, TypeOK, TypeOK', NotStartedYet, Next
    PROVE  NotStartedYet'
  <1> USE DEF NotStartedYet, table
  <1>1. CASE StartStep
    <2> PICK r \in Rules : r = starter BY <1>1 DEF StartStep, SkipRule, StartRule
    <2>1. starter' = r + 1 /\ \A q \in Rules : q # r => lpc'[q] = lpc[q]
      BY <1>1 DEF StartStep, SkipRule, StartRule, TypeOK
    <2> QED BY <2>1 DEF Rules, PortForwardAssumption
  <1>2. CASE \E r \in Rules : ListenerStep(r)
    <2> PICK r \in Rules : ListenerStep(r) BY <1>2
    <2>1. starter' = starter /\ lpc[r] # "none"
      BY DEF ListenerStep, ListenSocket, ListenSocketFails, Bind, Listen, BindOrListenFails,
             Accept, AcceptFails, RejectPeer, LimitReached, TakeSlot, SpawnSession,
             SpawnFails, DropClient, LGoto
    <2>2. lpc' = lpc \/ \E to : lpc' = [lpc EXCEPT ![r] = to]
      BY DEF ListenerStep, ListenSocket, ListenSocketFails, Bind, Listen, BindOrListenFails,
             Accept, AcceptFails, RejectPeer, LimitReached, TakeSlot, SpawnSession,
             SpawnFails, DropClient, LGoto
    <2>3. \A q \in Rules : q # r => lpc'[q] = lpc[q]
      BY <2>2 DEF TypeOK
    <2> QED BY <2>1, <2>3
  <1>3. CASE \/ \E s \in Sessions : SessionStep(s) \/ RelayEnds(s)
             \/ \E c \in Conns : ClientStep(c)
             \/ \E h \in HttpdSocks : HttpdStep(h)
    <2>1. UNCHANGED <<starter, lpc>>
      BY <1>3 DEF SessionStep, TargetSocket, TargetSocketFails, ConnectTarget, RelayEnds,
                  RelaySeesHangup, CloseTarget, CloseClient, GiveSlot, FreeSession,
                  ClientStep, Dial, HangUp, HttpdStep, HttpdOpen, HttpdClose
    <2> QED BY <2>1
  <1> QED BY <1>1, <1>2, <1>3 DEF Next

\* The table's invariant, with what it needs, is inductive.
LEMMA SocketInvariant ==
    ASSUME PortForwardAssumption
    PROVE  Spec => []SocketInv
  <1>1. Init => SocketInv
    <2> SUFFICES ASSUME Init PROVE SocketInv OBVIOUS
    <2>1. NotStartedYet /\ HeldWhileUsed
      BY VarsOfRule, VarsOfSession
         DEF Init, NotStartedYet, HeldWhileUsed, ListenerHeld, SessionHeld, Listening
    <2>2. FdOwnership BY DEF Init, FdOwnership
    <2> QED BY <2>1, <2>2, TypeInit DEF SocketInv
  <1>2. SocketInv /\ [Next]_vars => SocketInv'
    <2> SUFFICES ASSUME SocketInv, [Next]_vars PROVE SocketInv' OBVIOUS
    <2>1. TypeOK' BY TypeStep DEF SocketInv
    <2>2. CASE Next
      <3>1. NotStartedYet' BY <2>1, <2>2, StartOrder DEF SocketInv
      <3>2. HeldWhileUsed' /\ FdOwnership'
        BY <2>1, <2>2, StarterSockets, ListenerSockets, SessionSockets, OtherSockets DEF Next
      <3> QED BY <2>1, <3>1, <3>2 DEF SocketInv
    <2>3. CASE UNCHANGED vars
      BY <2>1, <2>3 DEF vars, SocketInv, NotStartedYet, HeldWhileUsed, ListenerHeld,
                        SessionHeld, Listening, FdOwnership
    <2> QED BY <2>2, <2>3
  <1> QED BY <1>1, <1>2, PTL DEF Spec

\* A listener and a session hold their sockets for exactly the span of their code
\* that uses them: accept and connect overwrite no variable that names one, and
\* what has ended holds none.
THEOREM UsedSocketsHeld ==
    ASSUME PortForwardAssumption
    PROVE  Spec => []HeldWhileUsed
  <1>1. SocketInv => HeldWhileUsed BY DEF SocketInv
  <1> QED BY <1>1, SocketInvariant, PTL

\* In every reachable state the table and the tasks agree: no socket is leaked
\* and none can be closed twice, and a task that is over holds none.
THEOREM SocketsOwned ==
    ASSUME PortForwardAssumption
    PROVE  Spec => []FdOwnership
  <1>1. SocketInv => FdOwnership BY DEF SocketInv
  <1> QED BY <1>1, SocketInvariant, PTL
=============================================================================
