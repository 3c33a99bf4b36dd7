-------------------------- MODULE EventLoop_proofs --------------------------
(***************************************************************************)
(* Proofs about EventLoop: what the queue holds of each kind of event, and *)
(* from it that a stop leads to one restart, that the stations are counted *)
(* and that the link shown agrees with the interface.                      *)
(***************************************************************************)
EXTENDS EventLoop, FiniteSetTheorems, TLAPS

(* The queue by position *)

\* The positions of an event among the first k of the queue.
Within(event, k) == {i \in 1 .. k : evq[i] = event}
First(event, k) == Cardinality(Within(event, k))

QueueType == evq \in Seq(Events \cup Usb!UsbEvents)

LEMMA FirstType ==
    ASSUME NEW event, NEW k \in Int
    PROVE  IsFiniteSet(Within(event, k)) /\ First(event, k) \in Nat
  <1>1. IsFiniteSet(1 .. k) BY FS_Interval
  <1>2. IsFiniteSet(Within(event, k)) BY <1>1, FS_Subset DEF Within
  <1> QED BY <1>2, FS_CardinalityType DEF First

LEMMA PendingIsFirst ==
    \A event : Pending(event) = First(event, Len(evq))
  BY DEF Pending, First, Within

\* An event is posted behind the others.
LEMMA FirstAppend ==
    ASSUME QueueType, NEW x \in Events \cup Usb!UsbEvents, evq' = Append(evq, x),
           NEW event, NEW n, n = Len(evq)
    PROVE  /\ n \in Nat /\ Len(evq') = n + 1
           /\ \A k \in 0 .. n : First(event, k)' = First(event, k)
           /\ First(event, n + 1)' = First(event, n) + (IF x = event THEN 1 ELSE 0)
  <1>1. /\ n \in Nat /\ Len(evq') = n + 1 /\ evq'[n + 1] = x
        /\ \A i \in 1 .. n : evq'[i] = evq[i]
    BY DEF QueueType
  <1>2. ASSUME NEW k \in 0 .. n PROVE Within(event, k)' = Within(event, k)
    BY <1>1 DEF Within
  <1>3. Within(event, n + 1)' = Within(event, n) \cup (IF x = event THEN {n + 1} ELSE {})
    BY <1>1 DEF Within
  <1>4. IsFiniteSet(Within(event, n)) /\ n + 1 \notin Within(event, n)
    <2>1. IsFiniteSet(Within(event, n)) BY <1>1, FirstType
    <2>2. n + 1 \notin Within(event, n) BY <1>1 DEF Within
    <2> QED BY <2>1, <2>2
  <1>5. First(event, n + 1)' = First(event, n) + (IF x = event THEN 1 ELSE 0)
    <2>1. CASE x = event
      <3>1. Within(event, n + 1)' = Within(event, n) \cup {n + 1} BY <1>3, <2>1
      <3> QED BY <1>4, <2>1, <3>1, FS_AddElement DEF First
    <2>2. CASE x # event
      <3>1. Within(event, n + 1)' = Within(event, n) BY <1>3, <2>2
      <3>2. First(event, n) \in Nat BY <1>1, FirstType
      <3> QED BY <2>2, <3>1, <3>2 DEF First
    <2> QED BY <2>1, <2>2
  <1> QED BY <1>1, <1>2, <1>5 DEF First

\* The head of the queue is taken off.
LEMMA FirstTail ==
    ASSUME QueueType, evq # <<>>, evq' = Tail(evq), NEW event, NEW n, n = Len(evq)
    PROVE  /\ n \in Nat \ {0} /\ Len(evq') = n - 1
           /\ \A k \in 0 .. n - 1 :
                First(event, k)' = First(event, k + 1) - (IF Head(evq) = event THEN 1 ELSE 0)
  <1>1. /\ n \in Nat \ {0} /\ Len(evq') = n - 1 /\ evq[1] = Head(evq)
        /\ \A i \in 1 .. n - 1 : evq'[i] = evq[i + 1]
    BY DEF QueueType
  <1>2. ASSUME NEW k \in 0 .. n - 1
        PROVE  First(event, k)' = First(event, k + 1) - (IF Head(evq) = event THEN 1 ELSE 0)
    <2> DEFINE S == Within(event, k)'
               T == Within(event, k + 1) \ {1}
               f == [i \in S |-> i + 1]
    <2>1. f \in Bijection(S, T)
      <3>1. \A i \in S : i + 1 \in T BY <1>1, <1>2 DEF Within
      <3>2. \A i \in S : i \in Int BY DEF Within
      <3>3. \A t \in T : \E i \in S : f[i] = t
        <4> TAKE t \in T
        <4>1. t - 1 \in S /\ f[t - 1] = t BY <1>1, <1>2 DEF Within
        <4> QED BY <4>1
      <3> HIDE DEF S, T
      <3>4. f \in [S -> T] BY <3>1
      <3>5. \A i, j \in S : f[i] = f[j] => i = j BY <3>2
      <3> HIDE DEF f
      <3>6. f \in Injection(S, T) BY <3>4, <3>5 DEF Injection, IsInjective
      <3>7. f \in Surjection(S, T) BY <3>3, <3>4 DEF Surjection
      <3> QED BY <3>6, <3>7 DEF Bijection
    <2>2. IsFiniteSet(S)
      <3>1. IsFiniteSet(1 .. k) BY <1>2, FS_Interval
      <3>2. S \subseteq 1 .. k BY DEF Within
      <3> HIDE DEF S
      <3> QED BY <3>1, <3>2, FS_Subset
    <2>3. Cardinality(T) = Cardinality(S)
      <3> HIDE DEF S, T, f
      <3>1. ExistsBijection(S, T) BY <2>1 DEF ExistsBijection
      <3> QED BY <2>2, <3>1, FS_Bijection
    <2>4. IsFiniteSet(Within(event, k + 1)) BY <1>2, FirstType
    <2>5. 1 \in Within(event, k + 1) <=> Head(evq) = event BY <1>1, <1>2 DEF Within
    <2>6. Cardinality(T) =
            Cardinality(Within(event, k + 1)) - (IF Head(evq) = event THEN 1 ELSE 0)
      <3>1. Cardinality(Within(event, k + 1)) \in Nat BY <2>4, FS_CardinalityType
      <3>2. Cardinality(T) = IF 1 \in Within(event, k + 1)
                               THEN Cardinality(Within(event, k + 1)) - 1
                               ELSE Cardinality(Within(event, k + 1))
        BY <2>4, FS_RemoveElement
      <3> HIDE DEF T
      <3> QED BY <2>5, <3>1, <3>2
    <2> QED BY <2>3, <2>6 DEF First
  <1> QED BY <1>1, <1>2
-----------------------------------------------------------------------------
(* Steps of the USB network driver *)

\* What they do to the queue: nothing of Wi-Fi's comes or goes.
UsbPosts == \E x \in Usb!UsbEvents : evq' = Append(evq, x)
UsbTakes == evq # <<>> /\ Head(evq) \in Usb!UsbEvents /\ evq' = Tail(evq)

LEMMA DisjointEvents == Events \cap Usb!UsbEvents = {}
  BY DEF Events, Usb!UsbEvents

LEMMA UsbOnQueue ==
    ASSUME Usb!Next
    PROVE  evq' = evq \/ (UsbPosts /\ Len(evq) < QueueLen) \/ UsbTakes
  <1> USE DEF Usb!PostNow, Usb!Posts, Usb!Loses, UsbPosts, UsbTakes, Usb!UsbEvents
  <1>1. ASSUME NEW t \in Usb!Tasks, Usb!StartStep(t)
        PROVE  evq' = evq \/ (UsbPosts /\ Len(evq) < QueueLen)
    BY <1>1 DEF Usb!StartStep, Usb!StartTest, Usb!StartSet, Usb!StartPost
  <1>2. ASSUME NEW t \in Usb!Tasks, Usb!ConnectStep(t)
        PROVE  evq' = evq \/ (UsbPosts /\ Len(evq) < QueueLen)
    BY <1>2 DEF Usb!ConnectStep, Usb!ConnectTest, Usb!ConnectSet, Usb!ConnectPost
  <1>3. ASSUME NEW t \in Usb!Tasks, Usb!DetachStep(t)
        PROVE  evq' = evq \/ (UsbPosts /\ Len(evq) < QueueLen)
    BY <1>3 DEF Usb!DetachStep, Usb!DetachTest, Usb!DetachSet, Usb!DetachPost, Usb!TakeDown
  <1>4. ASSUME \/ Usb!Install \/ Usb!HostSelects \/ Usb!HostDetaches
               \/ \E t \in Rebooters : Usb!PrepareRestart(t)
        PROVE  evq' = evq
    BY <1>4 DEF Usb!Install, Usb!HostSelects, Usb!HostDetaches, Usb!PrepareRestart
  <1>5. ASSUME Usb!HandlePort PROVE UsbTakes BY <1>5 DEF Usb!HandlePort
  <1> QED BY <1>1, <1>2, <1>3, <1>4, <1>5 DEF Usb!Next
-----------------------------------------------------------------------------
(* Counting what is pending *)

Posted(x) == evq' = Append(evq, x)
Taken(x) == evq # <<>> /\ Head(evq) = x /\ evq' = Tail(evq)

LEMMA PendingType ==
    ASSUME QueueType, NEW event
    PROVE  Pending(event) \in Nat
  <1>1. Len(evq) \in Int BY DEF QueueType
  <1> QED BY <1>1, FirstType, PendingIsFirst

LEMMA PendingPosted ==
    ASSUME QueueType, NEW x \in Events \cup Usb!UsbEvents, Posted(x), NEW event
    PROVE  Pending(event)' = Pending(event) + (IF x = event THEN 1 ELSE 0)
  <1>1. Pending(event)' = First(event, Len(evq))' /\ Pending(event) = First(event, Len(evq))
    BY DEF Pending, First, Within
  <1> QED BY <1>1, FirstAppend DEF Posted

LEMMA PendingTaken ==
    ASSUME QueueType, NEW x, Taken(x), NEW event
    PROVE  Pending(event)' = Pending(event) - (IF x = event THEN 1 ELSE 0)
  <1>1. Pending(event)' = First(event, Len(evq))' /\ Pending(event) = First(event, Len(evq))
    BY DEF Pending, First, Within
  <1> SUFFICES ASSUME NEW n, n = Len(evq)
               PROVE  Pending(event)' = Pending(event) - (IF x = event THEN 1 ELSE 0)
    OBVIOUS
  <1>2. /\ n \in Nat \ {0} /\ Len(evq') = n - 1
        /\ \A k \in 0 .. n - 1 :
             First(event, k)' = First(event, k + 1) - (IF x = event THEN 1 ELSE 0)
    BY FirstTail DEF Taken
  <1>3. n - 1 \in 0 .. n - 1 /\ (n - 1) + 1 = n BY <1>2
  <1>4. First(event, Len(evq))' = First(event, n - 1)' BY <1>2 DEF First, Within
  <1> QED BY <1>1, <1>2, <1>3, <1>4
-----------------------------------------------------------------------------
(* Types *)

LEMMA TypeEquiv ==
    TypeOK <=> QueueType /\ Len(evq) <= QueueLen /\ WifiType /\ Usb!UsbType
  BY DEF TypeOK, QueueType

LEMMA TypeInit == LoopInit => TypeOK
  <1> SUFFICES ASSUME LoopInit PROVE TypeOK OBVIOUS
  <1>1. QueueType /\ Len(evq) <= QueueLen
    <2>1. evq = <<"AP_START">> /\ "AP_START" \in Events BY DEF LoopInit, Init, Events
    <2>2. Len(evq) = 1 BY <2>1
    <2>3. 1 <= QueueLen BY WifiApAssumption
    <2> QED BY <2>1, <2>2, <2>3 DEF QueueType
  <1>2. WifiType
    <2>1. 0 \in 0 .. MaxAttempts BY WifiApAssumption
    <2>2. /\ ap = TRUE /\ joined = {} /\ attempts = 0 /\ count = 0 /\ timers = 0
          /\ failed = FALSE
      BY DEF LoopInit, Init
    <2> QED BY <2>1, <2>2 DEF WifiType
  <1>3. Usb!UsbType
    BY DEF LoopInit, Usb!Init, Usb!UsbType, Usb!Pcs, Usb!StartPcs
  <1> QED BY <1>1, <1>2, <1>3, TypeEquiv

\* What a step does to the queue.
QueueStep ==
    \/ evq' = evq
    \/ \E x \in Events \cup Usb!UsbEvents : Posted(x) /\ Len(evq) < QueueLen
    \/ \E x \in Events \cup Usb!UsbEvents : Taken(x)

LEMMA QueueStepType ==
    ASSUME QueueType, Len(evq) <= QueueLen, QueueStep
    PROVE  QueueType' /\ Len(evq') <= QueueLen
  <1>1. QueueLen \in Nat BY WifiApAssumption
  <1>2. CASE evq' = evq BY <1>2 DEF QueueType
  <1>3. ASSUME NEW x \in Events \cup Usb!UsbEvents, Posted(x), Len(evq) < QueueLen
        PROVE  QueueType' /\ Len(evq') <= QueueLen
    BY <1>1, <1>3 DEF QueueType, Posted
  <1>4. ASSUME NEW x, Taken(x) PROVE QueueType' /\ Len(evq') <= QueueLen
    BY <1>1, <1>4 DEF QueueType, Taken
  <1> QED BY <1>2, <1>3, <1>4 DEF QueueStep

LEMMA WifiOnQueue == Next => QueueStep
  <1> USE DEF QueueStep, Posted, Taken, Post, Receive, Events
  <1>1. DriverStep => QueueStep BY DEF DriverStep, Join, Leave, ApStops
  <1>2. HandlerStep => QueueStep
    BY DEF HandlerStep, HandleStart, HandleStop, HandleJoin, HandleLeave
  <1>3. TimerStep => QueueStep BY DEF TimerStep, RestartSucceeds, RestartFails
  <1> QED BY <1>1, <1>2, <1>3 DEF Next

LEMMA WifiKeepsType == ASSUME WifiType, Next PROVE WifiType'
  <1> USE WifiApAssumption DEF WifiType
  <1>1. CASE DriverStep
    <2>1. ASSUME NEW st \in Stations, Join(st) \/ Leave(st) PROVE WifiType'
      <3>1. joined' \in {joined \cup {st}, joined \ {st}} BY <2>1 DEF Join, Leave
      <3>2. UNCHANGED <<ap, attempts, count, timers, failed>> BY <2>1 DEF Join, Leave
      <3> QED BY <3>1, <3>2
    <2>2. CASE ApStops BY <2>2 DEF ApStops
    <2> QED BY <1>1, <2>1, <2>2 DEF DriverStep
  <1>2. CASE HandleStart BY <1>2 DEF HandleStart
  <1>3. CASE HandleStop
    <2>1. attempts \in Nat /\ attempts <= MaxAttempts /\ MaxAttempts \in Nat OBVIOUS
    <2>2. attempts' \in {attempts, attempts + 1} /\ attempts' \in 0 .. MaxAttempts
      BY <1>3, <2>1 DEF HandleStop
    <2>3. timers' \in {timers, timers + 1}
      BY <1>3, <2>1, <2>2 DEF HandleStop
    <2>4. failed' \in BOOLEAN /\ UNCHANGED <<ap, joined, count>>
      BY <1>3 DEF HandleStop
    <2> QED BY <2>2, <2>3, <2>4
  <1>4. CASE HandleJoin \/ HandleLeave BY <1>4 DEF HandleJoin, HandleLeave
  <1>5. CASE TimerStep
    <2>1. /\ timers > 0 /\ timers' = timers - 1
          /\ ap' \in {ap, TRUE} /\ failed' \in {failed, TRUE}
          /\ UNCHANGED <<joined, attempts, count>>
      BY <1>5 DEF TimerStep, RestartSucceeds, RestartFails
    <2>2. timers' \in Nat BY <2>1
    <2>3. ap' \in BOOLEAN /\ failed' \in BOOLEAN BY <2>1
    <2> QED BY <2>1, <2>2, <2>3
  <1> QED BY <1>1, <1>2, <1>3, <1>4, <1>5 DEF Next, HandlerStep

LEMMA UsbKeepsType == ASSUME Usb!UsbType, Usb!Next PROVE Usb!UsbType'
  <1> USE DEF Usb!UsbType, Usb!Pcs, Usb!StartPcs, Usb!ConnectPcs, Usb!DetachPcs,
              Usb!Return, Usb!AfterDetach, Usb!PostNow, Usb!Posts, Usb!Loses,
              Usb!Enter, Usb!GoTo
  <1>1. ASSUME NEW t \in Usb!Tasks, Usb!StartStep(t) PROVE Usb!UsbType'
    BY <1>1 DEF Usb!StartStep, Usb!StartTest, Usb!StartSet, Usb!StartPost
  <1>2. ASSUME NEW t \in Usb!Tasks, Usb!ConnectStep(t) PROVE Usb!UsbType'
    BY <1>2 DEF Usb!ConnectStep, Usb!ConnectTest, Usb!ConnectSet, Usb!ConnectPost
  <1>3. ASSUME NEW t \in Usb!Tasks, Usb!DetachStep(t) PROVE Usb!UsbType'
    BY <1>3 DEF Usb!DetachStep, Usb!DetachTest, Usb!DetachSet, Usb!DetachPost, Usb!TakeDown
  <1>4. CASE Usb!Install \/ Usb!HostSelects \/ Usb!HostDetaches
    BY <1>4 DEF Usb!Install, Usb!HostSelects, Usb!HostDetaches
  <1>5. ASSUME NEW t \in Rebooters, Usb!PrepareRestart(t) PROVE Usb!UsbType'
    BY <1>5 DEF Usb!PrepareRestart
  <1>6. CASE Usb!HandlePort
    BY <1>6 DEF Usb!HandlePort, Usb!ActionOf, Usb!UsbEvents
  <1> QED BY <1>1, <1>2, <1>3, <1>4, <1>5, <1>6 DEF Usb!Next

LEMMA LoopOnQueue == [LoopNext]_loopvars => QueueStep
  <1>1. Next => QueueStep BY WifiOnQueue
  <1>2. Usb!Next => QueueStep
    BY UsbOnQueue DEF QueueStep, UsbPosts, UsbTakes, Posted, Taken
  <1>3. UNCHANGED loopvars => QueueStep BY DEF loopvars, vars, QueueStep
  <1> QED BY <1>1, <1>2, <1>3 DEF LoopNext

LEMMA TypeStep == TypeOK /\ [LoopNext]_loopvars => TypeOK'
  <1> SUFFICES ASSUME TypeOK, [LoopNext]_loopvars PROVE TypeOK' OBVIOUS
  <1>1. QueueType' /\ Len(evq') <= QueueLen BY LoopOnQueue, QueueStepType, TypeEquiv
  <1>2. WifiType /\ Usb!UsbType BY TypeEquiv
  <1>3. WifiType' /\ Usb!UsbType'
    <2>1. CASE Next /\ UNCHANGED uvars
      BY <1>2, <2>1, WifiKeepsType DEF uvars, Usb!UsbType
    <2>2. CASE Usb!Next /\ UNCHANGED wvars
      BY <1>2, <2>2, UsbKeepsType DEF wvars, WifiType
    <2>3. CASE UNCHANGED loopvars
      BY <1>2, <2>3 DEF loopvars, vars, wvars, uvars, WifiType, Usb!UsbType
    <2> QED BY <2>1, <2>2, <2>3 DEF LoopNext
  <1> QED BY <1>1, <1>3 DEF TypeOK, QueueType

\* Every variable has its type and the queue never holds more than QueueLen
\* events, whichever of the two components posts (esp_event_post waits or drops).
THEOREM LoopTypeCorrect == LoopSafety => []TypeOK
  <1>1. TypeOK /\ [LoopNext]_loopvars => TypeOK' BY TypeStep
  <1> QED BY TypeInit, <1>1, PTL DEF LoopSafety
-----------------------------------------------------------------------------
(* One restart for one stop *)

\* What a step of the USB network driver leaves of Wi-Fi's events.
LEMMA UsbKeepsPending ==
    ASSUME QueueType, Usb!Next, NEW event \in Events
    PROVE  Pending(event)' = Pending(event)
  <1>1. event \notin Usb!UsbEvents /\ Pending(event) \in Nat
    BY DisjointEvents, PendingType
  <1>2. CASE evq' = evq BY <1>2 DEF Pending
  <1>3. CASE UsbPosts
    <2>1. PICK x \in Usb!UsbEvents : Posted(x) BY <1>3 DEF UsbPosts, Posted
    <2>2. Pending(event)' = Pending(event) + (IF x = event THEN 1 ELSE 0)
      BY <2>1, PendingPosted
    <2> QED BY <1>1, <2>2
  <1>4. CASE UsbTakes
    <2>1. PICK x \in Usb!UsbEvents : Taken(x) BY <1>4 DEF UsbTakes, Taken
    <2>2. Pending(event)' = Pending(event) - (IF x = event THEN 1 ELSE 0)
      BY <2>1, PendingTaken
    <2> QED BY <1>1, <2>2
  <1> QED BY <1>2, <1>3, <1>4, UsbOnQueue

LEMMA RestartInit == LoopInit => OneRestartPending
  <1> SUFFICES ASSUME LoopInit PROVE OneRestartPending OBVIOUS
  <1>1. evq = <<"AP_START">> /\ timers = 0 /\ ap = TRUE BY DEF LoopInit, Init
  <1>2. {i \in 1 .. Len(evq) : evq[i] = "AP_STOP"} = {} BY <1>1
  <1>3. Pending("AP_STOP") = 0 BY <1>2, FS_EmptySet DEF Pending
  <1> QED BY <1>1, <1>3 DEF OneRestartPending

LEMMA RestartStep == TypeOK /\ OneRestartPending /\ [LoopNext]_loopvars => OneRestartPending'
  <1> SUFFICES ASSUME TypeOK, OneRestartPending, [LoopNext]_loopvars
               PROVE  OneRestartPending'
    OBVIOUS
  <1> DEFINE stop == "AP_STOP"
  <1>1. QueueType /\ ap \in BOOLEAN /\ timers \in Nat /\ attempts \in 0 .. MaxAttempts
    BY TypeEquiv DEF WifiType
  <1>2. Pending(stop) \in Nat BY <1>1, PendingType
  <1>3. timers + Pending(stop) <= IF ap THEN 0 ELSE 1 BY DEF OneRestartPending
  <1>4. ASSUME NEW x \in Events, Posted(x)
        PROVE  Pending(stop)' = Pending(stop) + (IF x = stop THEN 1 ELSE 0)
    BY <1>1, <1>4, PendingPosted
  <1>5. ASSUME NEW x, Taken(x)
        PROVE  Pending(stop)' = Pending(stop) - (IF x = stop THEN 1 ELSE 0)
    BY <1>1, <1>5, PendingTaken
  <1> SUFFICES timers' + Pending(stop)' <= IF ap' THEN 0 ELSE 1
    BY DEF OneRestartPending
  <1> HIDE DEF stop
  <1>6. CASE Usb!Next /\ UNCHANGED wvars
    <2>1. Pending(stop)' = Pending(stop)
      BY <1>1, <1>6, UsbKeepsPending DEF stop, Events
    <2> QED BY <1>3, <1>6, <2>1 DEF wvars
  <1>7. CASE Next
    <2> USE <1>1, <1>2, <1>3
    <2>1. ASSUME NEW st \in Stations, Join(st) \/ Leave(st)
          PROVE  timers' + Pending(stop)' <= IF ap' THEN 0 ELSE 1
      <3>1. Posted("AP_STACONNECTED") \/ Posted("AP_STADISCONNECTED")
        BY <2>1 DEF Join, Leave, Post, Posted
      <3>2. Pending(stop)' = Pending(stop)
        BY <1>4, <3>1 DEF stop, Events
      <3>3. UNCHANGED <<ap, timers>> BY <2>1 DEF Join, Leave
      <3> QED BY <3>2, <3>3
    <2>2. CASE ApStops
      <3>1. Posted(stop) /\ stop \in Events
        BY <2>2 DEF ApStops, Post, Posted, stop, Events
      <3>2. Pending(stop)' = Pending(stop) + 1 BY <1>4, <3>1
      <3>3. ap /\ ~ap' /\ timers' = timers BY <2>2 DEF ApStops
      <3> QED BY <3>2, <3>3
    <2>3. CASE HandleStop
      <3>1. Taken(stop) BY <2>3 DEF HandleStop, Receive, Taken, stop
      <3>2. Pending(stop)' = Pending(stop) - 1 BY <1>5, <3>1
      <3>3. ap' = ap /\ timers' \in {timers, timers + 1}
        BY <2>3, WifiApAssumption DEF HandleStop
      <3> QED BY <3>2, <3>3
    <2>4. CASE HandleStart \/ HandleJoin \/ HandleLeave
      <3>1. \E x \in Events \ {stop} : Taken(x)
        BY <2>4 DEF HandleStart, HandleJoin, HandleLeave, Receive, Taken, stop, Events
      <3>2. Pending(stop)' = Pending(stop) BY <1>5, <3>1
      <3>3. UNCHANGED <<ap, timers>> BY <2>4 DEF HandleStart, HandleJoin, HandleLeave
      <3> QED BY <3>2, <3>3
    <2>5. CASE RestartSucceeds
      <3>1. timers > 0 /\ timers' = timers - 1 BY <2>5 DEF RestartSucceeds
      <3>2. ~ap /\ timers = 1 /\ Pending(stop) = 0 BY <3>1
      <3>3. ap' /\ Posted("AP_START") BY <2>5, <3>2 DEF RestartSucceeds, Post, Posted
      <3>4. Pending(stop)' = Pending(stop) BY <1>4, <3>3 DEF stop, Events
      <3> QED BY <3>1, <3>2, <3>3, <3>4
    <2>6. CASE RestartFails
      <3>1. timers' = timers - 1 /\ ap' = ap /\ evq' = evq BY <2>6 DEF RestartFails
      <3>2. Pending(stop)' = Pending(stop) BY <3>1 DEF Pending
      <3> QED BY <3>1, <3>2
    <2> QED BY <1>7, <2>1, <2>2, <2>3, <2>4, <2>5, <2>6
         DEF Next, DriverStep, HandlerStep, TimerStep
  <1>8. CASE UNCHANGED loopvars
    BY <1>3, <1>8 DEF loopvars, vars, wvars, Pending
  <1> QED BY <1>6, <1>7, <1>8 DEF LoopNext

\* However late the event loop runs its handlers and whatever the USB network
\* driver posts between them, a stop of the access point leads to one restart.
THEOREM StopLeadsToOneRestart == LoopSafety => []OneRestartPending
  <1>1. TypeOK /\ OneRestartPending /\ [LoopNext]_loopvars => (TypeOK /\ OneRestartPending)'
    BY TypeStep, RestartStep
  <1>2. LoopInit => TypeOK /\ OneRestartPending BY TypeInit, RestartInit
  <1> QED BY <1>1, <1>2, PTL DEF LoopSafety
-----------------------------------------------------------------------------
(* The count of stations *)

\* No prefix of the queue holds more leaves than there are stations counted and
\* joins before them: the handler of a leave always finds a station to take off.
LeavesAreCounted ==
    \A k \in 0 .. Len(evq) :
        First("AP_STADISCONNECTED", k) <= count + First("AP_STACONNECTED", k)

StationInv == StationsCounted /\ LeavesAreCounted /\ IsFiniteSet(joined)

LEMMA EmptyPrefix == \A event : First(event, 0) = 0
  <1>1. \A event : Within(event, 0) = {} BY DEF Within
  <1> QED BY <1>1, FS_EmptySet DEF First

LEMMA StationInit == LoopInit => StationInv
  <1> SUFFICES ASSUME LoopInit PROVE StationInv OBVIOUS
  <1>1. evq = <<"AP_START">> /\ count = 0 /\ joined = {} BY DEF LoopInit, Init
  <1>2. IsFiniteSet(joined) /\ Cardinality(joined) = 0 BY <1>1, FS_EmptySet
  <1>3. Len(evq) = 1 /\ evq[1] = "AP_START" BY <1>1
  <1>4. ASSUME NEW event \in {"AP_STACONNECTED", "AP_STADISCONNECTED"}, NEW k \in 0 .. 1
        PROVE  First(event, k) = 0
    <2>1. Within(event, k) = {} BY <1>3 DEF Within
    <2> QED BY <2>1, FS_EmptySet DEF First
  <1>5. Pending("AP_STACONNECTED") = 0 /\ Pending("AP_STADISCONNECTED") = 0
    BY <1>3, <1>4, PendingIsFirst
  <1> QED BY <1>1, <1>2, <1>3, <1>4, <1>5 DEF StationInv, StationsCounted, LeavesAreCounted

\* A step that neither counts a station nor posts or takes a station event.
LEMMA StationsUntouched ==
    ASSUME QueueType, StationInv, UNCHANGED <<count, joined>>,
           \/ evq' = evq
           \/ \E x \in (Events \cup Usb!UsbEvents)
                         \ {"AP_STACONNECTED", "AP_STADISCONNECTED"} : Posted(x) \/ Taken(x),
           count \in Nat
    PROVE  StationInv'
  <1> DEFINE C == "AP_STACONNECTED"
             D == "AP_STADISCONNECTED"
  <1> SUFFICES StationsCounted' /\ LeavesAreCounted' BY DEF StationInv
  <1>1. StationsCounted /\ LeavesAreCounted BY DEF StationInv
  <1>2. CASE evq' = evq
    BY <1>1, <1>2 DEF StationsCounted, LeavesAreCounted, Pending, First, Within
  <1>3. ASSUME NEW x \in (Events \cup Usb!UsbEvents) \ {C, D}, Posted(x)
        PROVE  StationsCounted' /\ LeavesAreCounted'
    <2>1. Pending(C)' = Pending(C) /\ Pending(D)' = Pending(D)
      BY <1>3, PendingPosted, PendingType
    <2>2. SUFFICES ASSUME NEW n, n = Len(evq) PROVE LeavesAreCounted'
      BY <1>1, <2>1 DEF StationsCounted
    <2>3. /\ n \in Nat /\ Len(evq') = n + 1
          /\ \A k \in 0 .. n : First(C, k)' = First(C, k) /\ First(D, k)' = First(D, k)
          /\ First(C, n + 1)' = First(C, n) + 0 /\ First(D, n + 1)' = First(D, n) + 0
      BY <1>3, <2>2, FirstAppend DEF Posted
    <2>4. First(C, n) \in Nat /\ First(D, n) \in Nat BY <2>3, FirstType
    <2>5. \A k \in 0 .. n : First(D, k) <= count + First(C, k)
      BY <1>1, <2>2 DEF LeavesAreCounted
    <2>6. ASSUME NEW k \in 0 .. n + 1 PROVE First(D, k)' <= count + First(C, k)'
      <3>1. CASE k \in 0 .. n BY <2>3, <2>5, <3>1
      <3>2. CASE k = n + 1 BY <2>3, <2>4, <2>5, <3>2
      <3> QED BY <2>3, <3>1, <3>2
    <2> QED BY <2>3, <2>6 DEF LeavesAreCounted
  <1>4. ASSUME NEW x \in (Events \cup Usb!UsbEvents) \ {C, D}, Taken(x)
        PROVE  StationsCounted' /\ LeavesAreCounted'
    <2>1. Pending(C)' = Pending(C) /\ Pending(D)' = Pending(D)
      BY <1>4, PendingTaken, PendingType
    <2>2. SUFFICES ASSUME NEW n, n = Len(evq) PROVE LeavesAreCounted'
      BY <1>1, <2>1 DEF StationsCounted
    <2>3. /\ n \in Nat \ {0} /\ Len(evq') = n - 1
          /\ \A k \in 0 .. n - 1 : /\ First(C, k)' = First(C, k + 1) - 0
                                   /\ First(D, k)' = First(D, k + 1) - 0
      BY <1>4, <2>2, FirstTail DEF Taken
    <2>4. \A k \in 0 .. n : First(D, k) <= count + First(C, k)
      BY <1>1, <2>2 DEF LeavesAreCounted
    <2>5. ASSUME NEW k \in 0 .. n - 1 PROVE First(D, k)' <= count + First(C, k)'
      <3>1. k + 1 \in 0 .. n /\ k + 1 \in Int BY <2>3
      <3>2. First(C, k + 1) \in Nat /\ First(D, k + 1) \in Nat BY <3>1, FirstType
      <3> QED BY <2>3, <2>4, <3>1, <3>2
    <2> QED BY <2>3, <2>5 DEF LeavesAreCounted
  <1> QED BY <1>2, <1>3, <1>4

\* A station joins: the event is posted behind all leaves already there.
LEMMA JoinKeepsStations ==
    ASSUME TypeOK, StationInv, NEW s \in Stations, Join(s)
    PROVE  StationInv'
  <1> DEFINE C == "AP_STACONNECTED"
             D == "AP_STADISCONNECTED"
  <1> SUFFICES ASSUME NEW n, n = Len(evq) PROVE StationInv' OBVIOUS
  <1>1. QueueType /\ count \in Nat BY TypeEquiv DEF WifiType
  <1>2. StationsCounted /\ LeavesAreCounted /\ IsFiniteSet(joined) BY DEF StationInv
  <1>3. Posted(C) /\ count' = count /\ joined' = joined \cup {s} /\ s \notin joined
    BY DEF Join, Post, Posted
  <1>4. IsFiniteSet(joined') /\ Cardinality(joined') = Cardinality(joined) + 1
    BY <1>2, <1>3, FS_AddElement
  <1>5. Cardinality(joined) \in Nat BY <1>2, FS_CardinalityType
  <1>6. Pending(C)' = Pending(C) + 1 /\ Pending(D)' = Pending(D) + 0
    BY <1>1, <1>3, PendingPosted DEF Events
  <1>7. Pending(C) \in Nat /\ Pending(D) \in Nat BY <1>1, PendingType
  <1>8. StationsCounted'
    BY <1>1, <1>2, <1>3, <1>4, <1>5, <1>6, <1>7 DEF StationsCounted
  <1>9. LeavesAreCounted'
    <2>1. /\ n \in Nat /\ Len(evq') = n + 1
          /\ \A k \in 0 .. n : First(C, k)' = First(C, k) /\ First(D, k)' = First(D, k)
          /\ First(C, n + 1)' = First(C, n) + 1 /\ First(D, n + 1)' = First(D, n) + 0
      BY <1>1, <1>3, FirstAppend DEF Posted, Events
    <2>2. First(C, n) \in Nat /\ First(D, n) \in Nat BY <2>1, FirstType
    <2>3. \A k \in 0 .. n : First(D, k) <= count + First(C, k)
      BY <1>2 DEF LeavesAreCounted
    <2>4. ASSUME NEW k \in 0 .. n + 1 PROVE First(D, k)' <= count' + First(C, k)'
      <3>1. CASE k \in 0 .. n BY <1>3, <2>1, <2>3, <3>1
      <3>2. CASE k = n + 1 BY <1>1, <1>3, <2>1, <2>2, <2>3, <3>2
      <3> QED BY <2>1, <3>1, <3>2
    <2> QED BY <2>1, <2>4 DEF LeavesAreCounted
  <1> QED BY <1>4, <1>8, <1>9 DEF StationInv

\* A station leaves: it is one of those counted or pending, so that the leave
\* posted last finds it counted.
LEMMA LeaveKeepsStations ==
    ASSUME TypeOK, StationInv, NEW s \in Stations, Leave(s)
    PROVE  StationInv'
  <1> DEFINE C == "AP_STACONNECTED"
             D == "AP_STADISCONNECTED"
  <1> SUFFICES ASSUME NEW n, n = Len(evq) PROVE StationInv' OBVIOUS
  <1>1. QueueType /\ count \in Nat BY TypeEquiv DEF WifiType
  <1>2. StationsCounted /\ LeavesAreCounted /\ IsFiniteSet(joined) BY DEF StationInv
  <1>3. Posted(D) /\ count' = count /\ joined' = joined \ {s} /\ s \in joined
    BY DEF Leave, Post, Posted
  <1>4. IsFiniteSet(joined') /\ Cardinality(joined') = Cardinality(joined) - 1
    BY <1>2, <1>3, FS_RemoveElement
  <1>5. Cardinality(joined) \in Nat /\ Cardinality(joined') \in Nat
    BY <1>2, <1>4, FS_CardinalityType
  <1>6. Pending(C)' = Pending(C) + 0 /\ Pending(D)' = Pending(D) + 1
    BY <1>1, <1>3, PendingPosted DEF Events
  <1>7. Pending(C) \in Nat /\ Pending(D) \in Nat BY <1>1, PendingType
  <1>8. StationsCounted'
    BY <1>1, <1>2, <1>3, <1>4, <1>5, <1>6, <1>7 DEF StationsCounted
  <1>9. LeavesAreCounted'
    <2>1. /\ n \in Nat /\ Len(evq') = n + 1
          /\ \A k \in 0 .. n : First(C, k)' = First(C, k) /\ First(D, k)' = First(D, k)
          /\ First(C, n + 1)' = First(C, n) + 0 /\ First(D, n + 1)' = First(D, n) + 1
      BY <1>1, <1>3, FirstAppend DEF Posted, Events
    <2>2. First(C, n) \in Nat /\ First(D, n) \in Nat BY <2>1, FirstType
    <2>3. \A k \in 0 .. n : First(D, k) <= count + First(C, k)
      BY <1>2 DEF LeavesAreCounted
    <2>4. First(D, n) + 1 <= count + First(C, n)
      <3>1. Pending(C) = First(C, n) /\ Pending(D) = First(D, n) BY PendingIsFirst
      <3>2. Cardinality(joined) >= 1 BY <1>4, <1>5
      <3> QED BY <1>1, <1>2, <1>5, <2>2, <3>1, <3>2 DEF StationsCounted
    <2>5. ASSUME NEW k \in 0 .. n + 1 PROVE First(D, k)' <= count' + First(C, k)'
      <3>1. CASE k \in 0 .. n BY <1>3, <2>1, <2>3, <3>1
      <3>2. CASE k = n + 1 BY <1>1, <1>3, <2>1, <2>2, <2>4, <3>2
      <3> QED BY <2>1, <3>1, <3>2
    <2> QED BY <2>1, <2>5 DEF LeavesAreCounted
  <1> QED BY <1>4, <1>8, <1>9 DEF StationInv

\* A join is handled.
LEMMA HandleJoinKeepsStations ==
    ASSUME TypeOK, StationInv, HandleJoin
    PROVE  StationInv'
  <1> DEFINE C == "AP_STACONNECTED"
             D == "AP_STADISCONNECTED"
  <1> SUFFICES ASSUME NEW n, n = Len(evq) PROVE StationInv' OBVIOUS
  <1>1. QueueType /\ count \in Nat BY TypeEquiv DEF WifiType
  <1>2. StationsCounted /\ LeavesAreCounted /\ IsFiniteSet(joined) BY DEF StationInv
  <1>3. Taken(C) /\ count' = count + 1 /\ joined' = joined
    BY DEF HandleJoin, Receive, Taken
  <1>4. Pending(C)' = Pending(C) - 1 /\ Pending(D)' = Pending(D) - 0
    BY <1>1, <1>3, PendingTaken
  <1>5. Pending(C) \in Nat /\ Pending(D) \in Nat /\ Cardinality(joined) \in Nat
    BY <1>1, <1>2, PendingType, FS_CardinalityType
  <1>6. StationsCounted' BY <1>1, <1>2, <1>3, <1>4, <1>5 DEF StationsCounted
  <1>7. LeavesAreCounted'
    <2>1. /\ n \in Nat \ {0} /\ Len(evq') = n - 1
          /\ \A k \in 0 .. n - 1 : /\ First(C, k)' = First(C, k + 1) - 1
                                   /\ First(D, k)' = First(D, k + 1) - 0
      BY <1>1, <1>3, FirstTail DEF Taken
    <2>2. \A k \in 0 .. n : First(D, k) <= count + First(C, k)
      BY <1>2 DEF LeavesAreCounted
    <2>3. ASSUME NEW k \in 0 .. n - 1 PROVE First(D, k)' <= count' + First(C, k)'
      <3>1. k + 1 \in 0 .. n /\ k + 1 \in Int BY <2>1
      <3>2. First(C, k + 1) \in Nat /\ First(D, k + 1) \in Nat BY <3>1, FirstType
      <3> QED BY <1>1, <1>3, <2>1, <2>2, <3>1, <3>2
    <2> QED BY <2>1, <2>3 DEF LeavesAreCounted
  <1> QED BY <1>2, <1>3, <1>6, <1>7 DEF StationInv

\* A leave is handled: the count is not zero, by the prefix of that one event.
LEMMA HandleLeaveKeepsStations ==
    ASSUME TypeOK, StationInv, HandleLeave
    PROVE  StationInv'
  <1> DEFINE C == "AP_STACONNECTED"
             D == "AP_STADISCONNECTED"
  <1> SUFFICES ASSUME NEW n, n = Len(evq) PROVE StationInv' OBVIOUS
  <1>1. QueueType /\ count \in Nat BY TypeEquiv DEF WifiType
  <1>2. StationsCounted /\ LeavesAreCounted /\ IsFiniteSet(joined) BY DEF StationInv
  <1>3. Taken(D) /\ joined' = joined BY DEF HandleLeave, Receive, Taken
  <1>4. /\ n \in Nat \ {0} /\ Len(evq') = n - 1
        /\ \A k \in 0 .. n - 1 : /\ First(C, k)' = First(C, k + 1) - 0
                                 /\ First(D, k)' = First(D, k + 1) - 1
    BY <1>1, <1>3, FirstTail DEF Taken
  <1>5. \A k \in 0 .. n : First(D, k) <= count + First(C, k)
    BY <1>2 DEF LeavesAreCounted
  <1>6. count' = count - 1 /\ count >= 1
    <2>1. evq[1] = D /\ evq # <<>> BY <1>1, <1>3 DEF Taken, QueueType
    <2>2. Within(D, 1) = {1} /\ Within(C, 1) = {} BY <2>1 DEF Within
    <2>3. First(D, 1) = 1 /\ First(C, 1) = 0
      BY <2>2, FS_EmptySet, FS_Singleton DEF First
    <2>4. 1 <= count + 0 BY <1>4, <1>5, <2>3
    <2> QED BY <1>1, <2>4 DEF HandleLeave
  <1>7. Pending(C)' = Pending(C) - 0 /\ Pending(D)' = Pending(D) - 1
    BY <1>1, <1>3, PendingTaken
  <1>8. Pending(C) \in Nat /\ Pending(D) \in Nat /\ Cardinality(joined) \in Nat
    BY <1>1, <1>2, PendingType, FS_CardinalityType
  <1>9. StationsCounted' BY <1>1, <1>2, <1>3, <1>6, <1>7, <1>8 DEF StationsCounted
  <1>10. LeavesAreCounted'
    <2>1. ASSUME NEW k \in 0 .. n - 1 PROVE First(D, k)' <= count' + First(C, k)'
      <3>1. k + 1 \in 0 .. n /\ k + 1 \in Int BY <1>4
      <3>2. First(C, k + 1) \in Nat /\ First(D, k + 1) \in Nat BY <3>1, FirstType
      <3> QED BY <1>1, <1>4, <1>5, <1>6, <3>1, <3>2
    <2> QED BY <1>4, <2>1 DEF LeavesAreCounted
  <1> QED BY <1>2, <1>3, <1>9, <1>10 DEF StationInv

LEMMA StationStep == TypeOK /\ StationInv /\ [LoopNext]_loopvars => StationInv'
  <1> SUFFICES ASSUME TypeOK, StationInv, [LoopNext]_loopvars PROVE StationInv' OBVIOUS
  <1>1. QueueType /\ count \in Nat /\ timers \in Nat BY TypeEquiv DEF WifiType
  <1> DEFINE Others == (Events \cup Usb!UsbEvents)
                         \ {"AP_STACONNECTED", "AP_STADISCONNECTED"}
  <1>2. ASSUME NEW st \in Stations, Join(st) \/ Leave(st) PROVE StationInv'
    BY <1>2, JoinKeepsStations, LeaveKeepsStations
  <1>3. CASE HandleJoin \/ HandleLeave
    BY <1>3, HandleJoinKeepsStations, HandleLeaveKeepsStations
  <1>4. CASE ApStops \/ HandleStart \/ HandleStop \/ TimerStep
    <2>1. UNCHANGED <<count, joined>>
      BY <1>4 DEF ApStops, HandleStart, HandleStop, TimerStep, RestartSucceeds, RestartFails
    <2>2. evq' = evq \/ \E x \in {"AP_START", "AP_STOP"} : Posted(x) \/ Taken(x)
      BY <1>4 DEF ApStops, HandleStart, HandleStop, TimerStep, RestartSucceeds,
                  RestartFails, Post, Receive, Posted, Taken
    <2>3. {"AP_START", "AP_STOP"} \subseteq Others BY DEF Events
    <2> QED BY <1>1, <2>1, <2>2, <2>3, StationsUntouched
  <1>5. CASE Usb!Next /\ UNCHANGED wvars
    <2>1. Usb!UsbEvents \subseteq Others BY DEF Usb!UsbEvents
    <2>2. evq' = evq \/ \E x \in Usb!UsbEvents : Posted(x) \/ Taken(x)
      BY <1>5, UsbOnQueue DEF UsbPosts, UsbTakes, Posted, Taken
    <2> QED BY <1>1, <1>5, <2>1, <2>2, StationsUntouched DEF wvars
  <1>6. CASE UNCHANGED loopvars
    BY <1>1, <1>6, StationsUntouched DEF loopvars, vars, wvars
  <1> QED BY <1>2, <1>3, <1>4, <1>5, <1>6 DEF LoopNext, Next, DriverStep, HandlerStep

\* The count that is logged is that of the stations once the events are handled, for
\* any number of stations and across restarts, if the driver reports every join and
\* leave once: the handler's guard against a count below zero is never needed then.
THEOREM StationsAlwaysCounted == LoopSafety => []StationsCounted
  <1>1. TypeOK /\ StationInv /\ [LoopNext]_loopvars => (TypeOK /\ StationInv)'
    BY TypeStep, StationStep
  <1>2. LoopInit => TypeOK /\ StationInv BY TypeInit, StationInit
  <1>3. StationInv => StationsCounted BY DEF StationInv
  <1> QED BY <1>1, <1>2, <1>3, PTL DEF LoopSafety
-----------------------------------------------------------------------------
(* The link shown and the interface *)

\* What the interface will take the link for once the queue is handled: the last
\* event of the driver decides, or what it is now if there is none.
WillConnect ==
    \/ /\ netif = "connected"
       /\ \A i \in 1 .. Len(evq) : evq[i] \notin Usb!UsbEvents
    \/ \E i \in 1 .. Len(evq) :
          /\ evq[i] = "CONNECTED"
          /\ \A j \in i + 1 .. Len(evq) : evq[j] \notin Usb!UsbEvents

LEMMA WillConnectPosted ==
    ASSUME QueueType, NEW x \in Events \cup Usb!UsbEvents, Posted(x), netif' = netif
    PROVE  /\ x \in Events => (WillConnect' <=> WillConnect)
           /\ x \in Usb!UsbEvents => (WillConnect' <=> x = "CONNECTED")
  <1> SUFFICES ASSUME NEW n, n = Len(evq)
               PROVE  /\ x \in Events => (WillConnect' <=> WillConnect)
                      /\ x \in Usb!UsbEvents => (WillConnect' <=> x = "CONNECTED")
    OBVIOUS
  <1>1. /\ n \in Nat /\ Len(evq') = n + 1 /\ evq'[n + 1] = x
        /\ \A i \in 1 .. n : evq'[i] = evq[i]
    BY DEF QueueType, Posted
  <1>2. CASE x \in Events
    <2>1. x \notin Usb!UsbEvents /\ x # "CONNECTED" BY <1>2 DEF Events, Usb!UsbEvents
    <2> QED BY <1>1, <1>2, <2>1 DEF WillConnect
  <1>3. CASE x \in Usb!UsbEvents
    <2>1. x \notin Events BY <1>3, DisjointEvents
    <2> QED BY <1>1, <1>3, <2>1 DEF WillConnect
  <1> QED BY <1>2, <1>3

LEMMA WillConnectTaken ==
    ASSUME QueueType, NEW x, Taken(x),
           netif' = IF x \in Usb!UsbEvents THEN Usb!ActionOf(x) ELSE netif
    PROVE  WillConnect' <=> WillConnect
  <1> SUFFICES ASSUME NEW n, n = Len(evq) PROVE WillConnect' <=> WillConnect
    OBVIOUS
  <1>1. /\ n \in Nat \ {0} /\ Len(evq') = n - 1 /\ evq[1] = x
        /\ \A i \in 1 .. n - 1 : evq'[i] = evq[i + 1]
    BY DEF QueueType, Taken
  <1> DEFINE U == Usb!UsbEvents
  <1>2. netif' = "connected" <=> (x = "CONNECTED" \/ (x \notin U /\ netif = "connected"))
    BY DEF Usb!UsbEvents, Usb!ActionOf
  <1>3. "CONNECTED" \in U BY DEF Usb!UsbEvents
  <1> HIDE DEF U
  <1>4. \A i \in 2 .. n : evq[i] = evq'[i - 1] BY <1>1
  <1>5. (\A i \in 1 .. n - 1 : evq'[i] \notin U) <=> (\A i \in 2 .. n : evq[i] \notin U)
    BY <1>1, <1>4
  <1>6. ASSUME NEW k \in 1 .. n - 1
        PROVE  (\A j \in k + 1 .. n - 1 : evq'[j] \notin U)
                 <=> (\A j \in (k + 1) + 1 .. n : evq[j] \notin U)
    <2>1. ASSUME \A j \in k + 1 .. n - 1 : evq'[j] \notin U, NEW j \in (k + 1) + 1 .. n
          PROVE  evq[j] \notin U
      <3>1. j - 1 \in k + 1 .. n - 1 /\ j \in 2 .. n BY <1>1
      <3> QED BY <1>4, <2>1, <3>1
    <2>2. ASSUME \A j \in (k + 1) + 1 .. n : evq[j] \notin U, NEW j \in k + 1 .. n - 1
          PROVE  evq'[j] \notin U
      <3>1. j + 1 \in (k + 1) + 1 .. n /\ j \in 1 .. n - 1 BY <1>1
      <3> QED BY <1>1, <2>2, <3>1
    <2> QED BY <2>1, <2>2
  <1> DEFINE None == netif = "connected" /\ \A i \in 1 .. n : evq[i] \notin U
             None1 == netif' = "connected" /\ \A i \in 1 .. n - 1 : evq'[i] \notin U
             Last(i) == evq[i] = "CONNECTED" /\ \A j \in i + 1 .. n : evq[j] \notin U
             Last1(i) == evq'[i] = "CONNECTED" /\ \A j \in i + 1 .. n - 1 : evq'[j] \notin U
  <1>7. WillConnect <=> None \/ \E i \in 1 .. n : Last(i) BY DEF WillConnect, U
  <1>8. WillConnect' <=> None1 \/ \E i \in 1 .. n - 1 : Last1(i)
    BY <1>1 DEF WillConnect, U
  <1>9. \A k \in 1 .. n - 1 : Last1(k) <=> Last(k + 1) BY <1>1, <1>6
  <1>10. None1 <=> None \/ Last(1)
    <2>1. Last(1) <=> x = "CONNECTED" /\ \A j \in 2 .. n : evq[j] \notin U BY <1>1
    <2>2. (\A i \in 1 .. n : evq[i] \notin U) <=> x \notin U /\ \A i \in 2 .. n : evq[i] \notin U
      BY <1>1
    <2> QED BY <1>2, <1>3, <1>5, <2>1, <2>2
  <1> HIDE DEF None, None1, Last, Last1
  <1>11. (\E i \in 1 .. n : Last(i)) <=> Last(1) \/ \E k \in 1 .. n - 1 : Last(k + 1)
    <2>1. ASSUME NEW i \in 1 .. n, i # 1 PROVE i - 1 \in 1 .. n - 1 /\ (i - 1) + 1 = i
      BY <1>1, <2>1
    <2>2. 1 \in 1 .. n /\ \A k \in 1 .. n - 1 : k + 1 \in 1 .. n BY <1>1
    <2> QED BY <2>1, <2>2
  <1> QED BY <1>7, <1>8, <1>9, <1>10, <1>11

\* The driver is started before it connects, and connected before it detaches.
StartedFirst ==
    /\ s_connected => s_started
    /\ \A t \in Usb!Tasks :
          pc[t] \in Usb!ConnectPcs \cup {"start_post", "detach_set", "detach_post"} => s_started

\* What the label of a task that is alone in a window says of the flags.
LabelsTell ==
    \A t \in Usb!Tasks :
        /\ pc[t] = "start_set" => ~s_started
        /\ pc[t] = "connect_post" => s_connected
        /\ pc[t] \in {"start_post", "detach_post"} => ~s_connected

\* A clean passage is over and leaves flag and queue in agreement; an open one has
\* at most one task in its window, which is bound to bring them back to it.
LinkInv ==
    /\ StartedFirst
    /\ passage = "clean" => Usb!InWindow = {} /\ (s_connected <=> WillConnect)
    /\ passage = "open" => LabelsTell /\ \A t, u \in Usb!InWindow : t = u

LEMMA LinkInit == LoopInit => LinkInv
  <1> SUFFICES ASSUME LoopInit PROVE LinkInv OBVIOUS
  <1>1. /\ \A t \in Usb!Tasks : pc[t] \in {"install", "absent", "idle"}
        /\ ~s_connected /\ netif = "created" /\ passage = "clean"
        /\ evq = <<"AP_START">>
    BY DEF LoopInit, Init, Usb!Init
  <1>2. ~WillConnect BY <1>1 DEF WillConnect
  <1>3. Usb!InWindow = {} BY <1>1 DEF Usb!InWindow, Usb!WindowPcs
  <1> QED BY <1>1, <1>2, <1>3 DEF LinkInv, StartedFirst, Usb!ConnectPcs

LEMMA LinkAgreesFromInv == TypeOK /\ LinkInv => LinkAgrees
  <1> SUFFICES ASSUME LinkInv, Usb!AtRest, passage = "clean"
               PROVE  s_connected <=> netif = "connected"
    BY DEF LinkAgrees, Usb!LinkAgrees
  <1>1. WillConnect <=> netif = "connected"
    BY DEF WillConnect, Usb!AtRest, Usb!UsbEvents
  <1> QED BY <1>1 DEF LinkInv

LEMMA WifiOnlyWifi == Next => evq' = evq \/ \E x \in Events : Posted(x) \/ Taken(x)
  <1> USE DEF Posted, Taken, Post, Receive, Events
  <1>1. CASE DriverStep BY <1>1 DEF DriverStep, Join, Leave, ApStops
  <1>2. CASE HandlerStep
    BY <1>2 DEF HandlerStep, HandleStart, HandleStop, HandleJoin, HandleLeave
  <1>3. CASE TimerStep BY <1>3 DEF TimerStep, RestartSucceeds, RestartFails
  <1> QED BY <1>1, <1>2, <1>3 DEF Next

\* Steps that change neither flag, nor what the queue comes to, and bring no task
\* into a window; some may leave one.
LEMMA LinkUntouched ==
    ASSUME LinkInv, UNCHANGED <<s_started, s_connected, passage>>,
           WillConnect' <=> WillConnect,
           \A t \in Usb!Tasks :
               \/ pc'[t] = pc[t]
               \/ pc'[t] \notin Usb!WindowPcs /\ (pc'[t] = "connect" => s_started)
    PROVE  LinkInv'
  <1>1. StartedFirst' BY DEF LinkInv, StartedFirst, Usb!ConnectPcs, Usb!WindowPcs
  <1>2. LabelsTell => LabelsTell' BY DEF LabelsTell, Usb!WindowPcs
  <1>3. Usb!InWindow' \subseteq Usb!InWindow BY DEF Usb!InWindow
  <1> QED BY <1>1, <1>2, <1>3 DEF LinkInv

LEMMA WifiKeepsLink == ASSUME TypeOK, LinkInv, Next, UNCHANGED uvars PROVE LinkInv'
  <1>1. QueueType /\ netif' = netif BY TypeEquiv DEF uvars
  <1>2. WillConnect' <=> WillConnect
    <2>1. CASE evq' = evq BY <1>1, <2>1 DEF WillConnect
    <2>2. ASSUME NEW x \in Events, Posted(x) PROVE WillConnect' <=> WillConnect
      BY <1>1, <2>2, WillConnectPosted
    <2>3. ASSUME NEW x \in Events, Taken(x) PROVE WillConnect' <=> WillConnect
      <3>1. x \notin Usb!UsbEvents BY DisjointEvents
      <3> QED BY <1>1, <2>3, <3>1, WillConnectTaken
    <2> QED BY <2>1, <2>2, <2>3, WifiOnlyWifi
  <1> QED BY <1>2, LinkUntouched DEF uvars

LEMMA HandlePortKeepsLink ==
    ASSUME TypeOK, LinkInv, Usb!HandlePort PROVE LinkInv'
  <1>1. QueueType BY TypeEquiv
  <1>2. PICK x \in Usb!UsbEvents : Taken(x) /\ netif' = Usb!ActionOf(x)
    BY DEF Usb!HandlePort, Taken
  <1>3. WillConnect' <=> WillConnect BY <1>1, <1>2, WillConnectTaken
  <1> QED BY <1>3, LinkUntouched DEF Usb!HandlePort

\* A task goes on to a label outside the windows and does nothing else.
LEMMA GoToKeepsLink ==
    ASSUME TypeOK, LinkInv, NEW t \in Usb!Tasks, NEW label \in Usb!Pcs \ Usb!WindowPcs,
           label = "connect" => s_started, Usb!GoTo(t, label),
           UNCHANGED <<evq, s_started, s_connected, netif, passage>>
    PROVE  LinkInv'
  <1>1. pc \in [Usb!Tasks -> Usb!Pcs] BY TypeEquiv DEF Usb!UsbType
  <1>2. \A u \in Usb!Tasks : pc'[u] = IF u = t THEN label ELSE pc[u]
    BY <1>1 DEF Usb!GoTo
  <1>3. WillConnect' <=> WillConnect BY DEF WillConnect
  <1> QED BY <1>2, <1>3, LinkUntouched

\* A task enters a window: alone, it opens a passage.
LEMMA EnterKeepsLink ==
    ASSUME TypeOK, LinkInv, NEW t \in Usb!Tasks, NEW label \in {"start_set", "connect_set", "detach_set"},
           IF label = "start_set" THEN ~s_started ELSE s_started,
           Usb!Enter(t, label), UNCHANGED <<s_started, s_connected>>
    PROVE  LinkInv'
  <1>1. \A u \in Usb!Tasks : pc'[u] = IF u = t THEN label ELSE pc[u]
    BY TypeEquiv DEF Usb!UsbType, Usb!Enter, Usb!GoTo
  <1>2. StartedFirst' BY <1>1 DEF LinkInv, StartedFirst, Usb!ConnectPcs
  <1>3. CASE Usb!InWindow = {}
    <2>1. passage' = "open" BY <1>3 DEF Usb!Enter
    <2>2. \A u \in Usb!Tasks \ {t} : pc'[u] \notin Usb!WindowPcs
      BY <1>1, <1>3 DEF Usb!InWindow
    <2>3. LabelsTell' BY <1>1, <2>2 DEF LabelsTell, Usb!WindowPcs
    <2>4. Usb!InWindow' \subseteq {t} BY <2>2 DEF Usb!InWindow
    <2> QED BY <1>2, <2>1, <2>3, <2>4 DEF LinkInv
  <1>4. CASE Usb!InWindow # {}
    <2>1. passage' = "raced" BY <1>4 DEF Usb!Enter
    <2> QED BY <1>2, <2>1 DEF LinkInv
  <1> QED BY <1>3, <1>4

\* A task in a window changes its flag.
LEMMA SetKeepsLink ==
    ASSUME TypeOK, LinkInv, NEW t \in Usb!Tasks,
           Usb!StartSet(t) \/ Usb!ConnectSet(t) \/ Usb!DetachSet(t)
    PROVE  LinkInv'
  <1>1. /\ pc[t] \in Usb!WindowPcs /\ passage' = passage
        /\ \/ /\ pc[t] = "start_set" /\ pc' = [pc EXCEPT ![t] = "start_post"]
              /\ s_started' /\ s_connected' = s_connected
           \/ /\ pc[t] = "connect_set" /\ pc' = [pc EXCEPT ![t] = "connect_post"]
              /\ s_started' = s_started /\ s_connected'
           \/ /\ pc[t] = "detach_set" /\ pc' = [pc EXCEPT ![t] = "detach_post"]
              /\ s_started' = s_started /\ ~s_connected'
    BY DEF Usb!StartSet, Usb!ConnectSet, Usb!DetachSet, Usb!GoTo, Usb!WindowPcs
  <1>2. /\ \A u \in Usb!Tasks \ {t} : pc'[u] = pc[u]
        /\ pc'[t] \in Usb!WindowPcs /\ pc \in [Usb!Tasks -> Usb!Pcs]
    BY <1>1, TypeEquiv DEF Usb!UsbType, Usb!WindowPcs
  <1>3. StartedFirst'
    BY <1>1, <1>2 DEF LinkInv, StartedFirst, Usb!ConnectPcs
  <1>4. t \in Usb!InWindow /\ Usb!InWindow' = Usb!InWindow
    BY <1>1, <1>2 DEF Usb!InWindow
  <1>5. ASSUME passage = "open" PROVE LabelsTell'
    <2>1. \A u \in Usb!Tasks \ {t} : pc[u] \notin Usb!WindowPcs
      BY <1>4, <1>5 DEF LinkInv, Usb!InWindow
    <2>2. pc[t] = "start_set" => ~s_connected
      BY <1>5 DEF LinkInv, LabelsTell, StartedFirst
    <2> QED BY <1>1, <1>2, <2>1, <2>2 DEF LabelsTell, Usb!WindowPcs
  <1> QED BY <1>1, <1>3, <1>4, <1>5 DEF LinkInv

\* A task leaves its window with its event posted, or lost.
LEMMA PostKeepsLink ==
    ASSUME TypeOK, LinkInv, NEW t \in Usb!Tasks, NEW x \in Usb!UsbEvents,
           pc[t] \in Usb!WindowPcs, LabelsTell => (s_connected <=> x = "CONNECTED"),
           NEW label \in Usb!Pcs \ Usb!WindowPcs, label = "connect" => s_started,
           Usb!GoTo(t, label), Usb!PostNow(x),
           UNCHANGED <<s_started, s_connected, netif>>
    PROVE  LinkInv'
  <1>1. \A u \in Usb!Tasks : pc'[u] = IF u = t THEN label ELSE pc[u]
    BY TypeEquiv DEF Usb!UsbType, Usb!GoTo
  <1>2. t \in Usb!InWindow /\ Usb!InWindow' = Usb!InWindow \ {t}
    BY <1>1 DEF Usb!InWindow
  <1>3. CASE Usb!Loses
    <2>1. WillConnect' <=> WillConnect BY <1>3 DEF Usb!Loses, WillConnect
    <2> QED BY <1>1, <1>3, <2>1, LinkUntouched DEF Usb!Loses
  <1>4. CASE Usb!Posts(x)
    <2>1. StartedFirst'
      BY <1>1 DEF LinkInv, StartedFirst, Usb!ConnectPcs, Usb!WindowPcs
    <2>2. CASE passage = "open"
      <3>1. passage' = "clean" BY <1>4, <2>2 DEF Usb!Posts
      <3>2. Usb!InWindow' = {} BY <1>2, <2>2 DEF LinkInv
      <3>3. Posted(x) /\ QueueType BY <1>4, TypeEquiv DEF Usb!Posts, Posted
      <3>4. WillConnect' <=> x = "CONNECTED" BY <3>3, WillConnectPosted
      <3>5. s_connected <=> x = "CONNECTED" BY <2>2 DEF LinkInv
      <3> QED BY <2>1, <3>1, <3>2, <3>4, <3>5 DEF LinkInv
    <2>3. CASE passage = "raced"
      BY <1>4, <2>1, <2>3 DEF Usb!Posts, LinkInv
    <2>4. passage # "clean" BY <1>2 DEF LinkInv
    <2>5. passage \in {"clean", "open", "raced"} BY TypeEquiv DEF Usb!UsbType
    <2> QED BY <2>2, <2>3, <2>4, <2>5
  <1> QED BY <1>3, <1>4 DEF Usb!PostNow

\* A step of any task in usb_ncm.c.
LEMMA TaskKeepsLink ==
    ASSUME TypeOK, LinkInv, NEW t \in Usb!Tasks,
           Usb!StartStep(t) \/ Usb!ConnectStep(t) \/ Usb!DetachStep(t)
    PROVE  LinkInv'
  <1> USE DEF Usb!Pcs, Usb!StartPcs, Usb!ConnectPcs, Usb!DetachPcs, Usb!WindowPcs
  <1>1. Usb!Return(t) \in {"done", "idle"} /\ Usb!AfterDetach(t) \in {"down", "idle"}
    BY DEF Usb!Return, Usb!AfterDetach
  <1>2. StartedFirst BY DEF LinkInv
  <1>3. CASE Usb!StartTest(t)
    <2>1. CASE s_started BY <1>3, <2>1, GoToKeepsLink DEF Usb!StartTest
    <2>2. CASE ~s_started BY <1>3, <2>2, EnterKeepsLink DEF Usb!StartTest
    <2> QED BY <2>1, <2>2
  <1>4. CASE Usb!ConnectTest(t)
    <2>1. CASE s_connected BY <1>1, <1>4, <2>1, GoToKeepsLink DEF Usb!ConnectTest
    <2>2. CASE ~s_connected
      <3>1. s_started BY <1>2, <1>4 DEF Usb!ConnectTest, StartedFirst
      <3> QED BY <1>4, <2>2, <3>1, EnterKeepsLink DEF Usb!ConnectTest
    <2> QED BY <2>1, <2>2
  <1>5. CASE Usb!DetachTest(t)
    <2>1. CASE ~s_connected BY <1>1, <1>5, <2>1, GoToKeepsLink DEF Usb!DetachTest
    <2>2. CASE s_connected
      <3>1. s_started BY <1>2, <2>2 DEF StartedFirst
      <3> QED BY <1>5, <2>2, <3>1, EnterKeepsLink DEF Usb!DetachTest
    <2> QED BY <2>1, <2>2
  <1>6. CASE Usb!StartSet(t) \/ Usb!ConnectSet(t) \/ Usb!DetachSet(t)
    BY <1>6, SetKeepsLink
  <1>7. CASE Usb!StartPost(t)
    <2>1. pc[t] = "start_post" /\ Usb!GoTo(t, "connect") /\ Usb!PostNow("START")
          /\ UNCHANGED <<s_started, s_connected, netif>>
      BY <1>7 DEF Usb!StartPost, Usb!PostNow
    <2>2. s_started BY <1>2, <2>1 DEF StartedFirst
    <2>3. LabelsTell => ~s_connected BY <2>1 DEF LabelsTell
    <2>4. "START" \in Usb!UsbEvents BY DEF Usb!UsbEvents
    <2> QED BY <2>1, <2>2, <2>3, <2>4, PostKeepsLink
  <1>8. CASE Usb!ConnectPost(t)
    <2>1. pc[t] = "connect_post" /\ Usb!GoTo(t, Usb!Return(t)) /\ Usb!PostNow("CONNECTED")
          /\ UNCHANGED <<s_started, s_connected, netif>>
      BY <1>8 DEF Usb!ConnectPost
    <2>2. LabelsTell => s_connected BY <2>1 DEF LabelsTell
    <2>3. "CONNECTED" \in Usb!UsbEvents BY DEF Usb!UsbEvents
    <2> QED BY <1>1, <2>1, <2>2, <2>3, PostKeepsLink
  <1>9. CASE Usb!DetachPost(t)
    <2>1. pc[t] = "detach_post" /\ Usb!GoTo(t, Usb!AfterDetach(t)) /\ Usb!PostNow("DISCONNECTED")
          /\ UNCHANGED <<s_started, s_connected, netif>>
      BY <1>9 DEF Usb!DetachPost
    <2>2. LabelsTell => ~s_connected BY <2>1 DEF LabelsTell
    <2>3. "DISCONNECTED" \in Usb!UsbEvents BY DEF Usb!UsbEvents
    <2> QED BY <1>1, <2>1, <2>2, <2>3, PostKeepsLink
  <1>10. CASE Usb!TakeDown(t)
    <2>1. pc \in [Usb!Tasks -> Usb!Pcs] BY TypeEquiv DEF Usb!UsbType
    <2>2. \A u \in Usb!Tasks : pc'[u] = pc[u] \/ pc'[u] = "done"
      BY <1>10, <2>1 DEF Usb!TakeDown
    <2>3. WillConnect' <=> WillConnect BY <1>10 DEF Usb!TakeDown, WillConnect
    <2> QED BY <1>10, <2>2, <2>3, LinkUntouched DEF Usb!TakeDown
  <1> QED BY <1>3, <1>4, <1>5, <1>6, <1>7, <1>8, <1>9, <1>10
       DEF Usb!StartStep, Usb!ConnectStep, Usb!DetachStep

\* The driver is installed, the host selects the function or goes away, or a
\* restart begins.
LEMMA CallerKeepsLink ==
    ASSUME TypeOK, LinkInv,
           \/ Usb!Install \/ Usb!HostSelects \/ Usb!HostDetaches
           \/ \E t \in Rebooters : Usb!PrepareRestart(t)
    PROVE  LinkInv'
  <1>1. /\ \A u \in Usb!Tasks : pc'[u] = pc[u] \/ pc'[u] \in {"start", "idle", "detach"}
        /\ UNCHANGED <<evq, s_started, s_connected, netif, passage>>
    <2>1. pc \in [Usb!Tasks -> Usb!Pcs] BY TypeEquiv DEF Usb!UsbType
    <2> QED BY <2>1 DEF Usb!Install, Usb!HostSelects, Usb!HostDetaches, Usb!PrepareRestart,
                        Usb!GoTo
  <1>2. WillConnect' <=> WillConnect BY <1>1 DEF WillConnect
  <1> QED BY <1>1, <1>2, LinkUntouched DEF Usb!WindowPcs

LEMMA LinkStep == TypeOK /\ LinkInv /\ [LoopNext]_loopvars => LinkInv'
  <1> SUFFICES ASSUME TypeOK, LinkInv, [LoopNext]_loopvars PROVE LinkInv' OBVIOUS
  <1>1. CASE Next /\ UNCHANGED uvars BY <1>1, WifiKeepsLink
  <1>2. CASE Usb!Next
    BY <1>2, TaskKeepsLink, CallerKeepsLink, HandlePortKeepsLink DEF Usb!Next
  <1>3. CASE UNCHANGED loopvars
    <2>1. WillConnect' <=> WillConnect BY <1>3 DEF loopvars, vars, uvars, WillConnect
    <2> QED BY <1>3, <2>1, LinkUntouched DEF loopvars, uvars
  <1> QED BY <1>1, <1>2, <1>3 DEF LoopNext

\* Once at rest, the flag that the LED and the pages show agrees with the interface
\* whenever the last passage from a test of usb_ncm.c to its event overlapped no
\* other and its event reached the queue: for any number of tasks that restart the
\* device, at any time since the web server runs, any hosts and any room in the
\* queue, and whatever races and lost events came before that passage.
THEOREM LinkAlwaysAgrees == LoopSafety => []LinkAgrees
  <1>1. TypeOK /\ LinkInv /\ [LoopNext]_loopvars => (TypeOK /\ LinkInv)'
    BY TypeStep, LinkStep
  <1>2. LoopInit => TypeOK /\ LinkInv BY TypeInit, LinkInit
  <1>3. TypeOK /\ LinkInv => LinkAgrees BY LinkAgreesFromInv
  <1> QED BY <1>1, <1>2, <1>3, PTL DEF LoopSafety
=============================================================================
