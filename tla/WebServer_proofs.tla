-------------------------- MODULE WebServer_proofs --------------------------
(***************************************************************************)
(* Proofs about WebServer: whatever is uploaded, and wherever it is cut    *)
(* off, the slot the next boot takes is complete and a working image is    *)
(* there to go back to; and the log page shows the last lines, whatever    *)
(* the size of the ring that holds them.                                   *)
(***************************************************************************)
EXTENDS WebServer, SequenceTheorems, TLAPS

-----------------------------------------------------------------------------
(* The ring by itself *)

\* The position x steps on from 0, for x below twice the length of the ring.
Wrap(x) == IF x < LOG_LINES THEN x ELSE x - LOG_LINES

LEMMA ModIsWrap == ASSUME NEW x \in 0 .. 2 * LOG_LINES - 1
                   PROVE  x % LOG_LINES = Wrap(x) /\ Wrap(x) \in 0 .. LOG_LINES - 1
<1>1. CASE x \in 0 .. LOG_LINES - 1
  BY <1>1, LogRingAssumption DEF Wrap
<1>2. CASE x \in LOG_LINES .. 2 * LOG_LINES - 1
  BY <1>2, LogRingAssumption DEF Wrap
<1> QED BY <1>1, <1>2, LogRingAssumption

Start == IF s_log_count < LOG_LINES THEN 0 ELSE s_log_head

\* Where the i-th of the last lines is.
Place(i) == Wrap(Start + i - 1)

RingType ==
    /\ s_log_buf \in [0 .. LOG_LINES - 1 -> Lines \cup {NoLine}]
    /\ s_log_head \in 0 .. LOG_LINES - 1 /\ s_log_count \in 0 .. LOG_LINES
    /\ s_log_mutex \in Writers \cup {Page, Nobody}
    /\ line \in [Writers -> Lines \cup {NoLine}]
    /\ page \in {"idle", "sending", "sent"}
    /\ shown \in Seq(Lines \cup {NoLine}) /\ log \in Seq(Lines \cup {NoLine})

\* Whoever writes or sends holds the mutex.
LockInv ==
    /\ \A w \in Writers : line[w] # NoLine => s_log_mutex = w
    /\ page # "idle" => s_log_mutex = Page

\* The ring holds the log, but for the oldest line while a writer is at its place.
PlaceInv ==
    /\ Len(log) = s_log_count
    /\ s_log_count < LOG_LINES => s_log_head = s_log_count
    /\ \A i \in 1 .. s_log_count :
          \/ s_log_buf[Place(i)] = log[i]
          \/ s_log_mutex \in Writers /\ Place(i) = s_log_head

ShownInv ==
    /\ page = "idle" => shown = <<>>
    /\ Len(shown) <= s_log_count
    /\ \A i \in 1 .. Len(shown) : shown[i] = log[i]
    /\ page = "sent" => Len(shown) = s_log_count

LogInv == RingType /\ LockInv /\ PlaceInv /\ ShownInv

LEMMA PlaceInRing == ASSUME RingType, NEW i \in 1 .. s_log_count
                     PROVE  Place(i) \in 0 .. LOG_LINES - 1
  BY ModIsWrap, LogRingAssumption DEF RingType, Place, Start

LEMMA LogEmpty == ASSUME LogInit PROVE LogInv
<1> USE LogRingAssumption DEF LogInit
<1>1. RingType
  BY EmptySeq DEF RingType
<1>2. LockInv /\ PlaceInv /\ ShownInv
  BY DEF LockInv, PlaceInv, ShownInv
<1> QED BY <1>1, <1>2 DEF LogInv

LEMMA LogTakeKeeps == ASSUME LogInv, NEW w \in Writers, NEW text \in Lines, LogTake(w, text)
                      PROVE  LogInv'
<1> USE LogRingAssumption DEF LogInv, LogTake
<1>1. RingType'
  BY DEF RingType
<1>2. page = "idle"
  BY DEF LockInv
<1>3. LockInv'
  BY <1>2 DEF LockInv, RingType
<1>4. PlaceInv'
  BY DEF PlaceInv, Place, Start
<1>5. ShownInv'
  BY DEF ShownInv
<1> QED BY <1>1, <1>3, <1>4, <1>5

LEMMA LogWriteKeeps == ASSUME LogInv, NEW w \in Writers, LogWrite(w) PROVE LogInv'
<1> USE LogRingAssumption DEF LogInv, LogWrite
<1>1. RingType' /\ LockInv' /\ ShownInv'
  BY DEF RingType, LockInv, ShownInv
<1>2. s_log_mutex = w
  BY DEF LockInv
<1>3. PlaceInv'
  <2> SUFFICES ASSUME NEW i \in 1 .. s_log_count
               PROVE  \/ s_log_buf'[Place(i)] = log[i]
                      \/ Place(i) = s_log_head
    BY <1>2 DEF PlaceInv, Place, Start
  <2>1. Place(i) \in 0 .. LOG_LINES - 1
    BY PlaceInRing
  <2>2. s_log_buf[Place(i)] = log[i] \/ Place(i) = s_log_head
    BY DEF PlaceInv
  <2> QED BY <2>1, <2>2 DEF RingType
<1> QED BY <1>1, <1>3

LEMMA LogAdvanceKeeps == ASSUME LogInv, NEW w \in Writers, LogAdvance(w) PROVE LogInv'
<1> USE LogRingAssumption DEF LogInv
<1>1. s_log_mutex = w /\ page = "idle" /\ line[w] \in Lines
  BY DEF LogAdvance, LockInv, RingType
<1> DEFINE all == Append(log, line[w])
<1>2. /\ all \in Seq(Lines \cup {NoLine}) /\ Len(all) = s_log_count + 1
      /\ \A i \in 1 .. s_log_count : all[i] = log[i]
      /\ all[s_log_count + 1] = line[w]
  BY <1>1 DEF RingType, PlaceInv
<1>3. /\ s_log_head' = Wrap(s_log_head + 1) /\ s_log_head' \in 0 .. LOG_LINES - 1
      /\ s_log_buf' = s_log_buf /\ s_log_buf[s_log_head] = line[w]
      /\ s_log_mutex' = Nobody /\ page' = page /\ shown' = shown
      /\ line' = [line EXCEPT ![w] = NoLine]
  BY ModIsWrap DEF LogAdvance, RingType
<1>6. LockInv'
  BY <1>1, <1>3 DEF LockInv, RingType
<1>7. shown = <<>> /\ Len(shown) = 0
  BY <1>1 DEF ShownInv
<1>8. ASSUME s_log_count' \in Nat PROVE ShownInv'
  BY <1>1, <1>3, <1>7, <1>8 DEF ShownInv
<1>4. CASE s_log_count < LOG_LINES
  <2>1. s_log_count' = s_log_count + 1 /\ log' = all /\ s_log_head = s_log_count
    BY <1>2, <1>4 DEF LogAdvance, RingType, PlaceInv
  <2>2. s_log_count' < LOG_LINES => s_log_head' = s_log_count'
    BY <1>3, <2>1 DEF Wrap, RingType
  <2>3. Start' = 0
    BY <1>3, <2>1 DEF Start, Wrap, RingType
  <2>4. ASSUME NEW i \in 1 .. s_log_count + 1
        PROVE  s_log_buf[Wrap(0 + i - 1)] = all[i]
    <3>1. Wrap(0 + i - 1) = i - 1
      BY <1>4 DEF Wrap, RingType
    <3>2. CASE i = s_log_count + 1
      BY <1>2, <1>3, <2>1, <3>1, <3>2 DEF RingType
    <3>3. CASE i \in 1 .. s_log_count
      <4>1. Place(i) = i - 1
        BY <1>4, <3>1, <3>3 DEF Place, Start
      <4> QED BY <1>2, <2>1, <3>1, <3>3, <4>1 DEF PlaceInv, RingType
    <3>4. i = s_log_count + 1 \/ i \in 1 .. s_log_count
      BY DEF RingType
    <3> QED BY <3>2, <3>3, <3>4
  <2>5. RingType' /\ PlaceInv'
    BY <1>2, <1>3, <2>1, <2>2, <2>3, <2>4 DEF RingType, PlaceInv, Place
  <2> QED BY <1>6, <1>8, <2>1, <2>5 DEF RingType
<1>5. CASE s_log_count = LOG_LINES
  <2>1. s_log_count' = s_log_count /\ log' = Tail(all)
    BY <1>2, <1>5 DEF LogAdvance, RingType
  <2>2. /\ Tail(all) \in Seq(Lines \cup {NoLine}) /\ Len(Tail(all)) = s_log_count
        /\ \A i \in 1 .. s_log_count : Tail(all)[i] = all[i + 1]
    BY <1>2, <1>5, HeadTailProperties, EmptySeq DEF RingType
  <2>3. Start' = Wrap(s_log_head + 1)
    BY <1>3, <1>5, <2>1 DEF Start
  <2>4. ASSUME NEW i \in 1 .. s_log_count
        PROVE  s_log_buf[Wrap(Wrap(s_log_head + 1) + i - 1)] = all[i + 1]
    <3>1. CASE i = s_log_count
      <4>1. Wrap(Wrap(s_log_head + 1) + i - 1) = s_log_head
        BY <1>5, <3>1 DEF Wrap, RingType
      <4> QED BY <1>2, <1>3, <3>1, <4>1
    <3>2. CASE i \in 1 .. s_log_count - 1
      <4>1. Place(i + 1) = Wrap(Wrap(s_log_head + 1) + i - 1)
            /\ Place(i + 1) # s_log_head
        BY <1>5, <3>2 DEF Place, Start, Wrap, RingType
      <4>2. i + 1 \in 1 .. s_log_count
        BY <3>2 DEF RingType
      <4> QED BY <1>2, <4>1, <4>2 DEF PlaceInv
    <3>3. i = s_log_count \/ i \in 1 .. s_log_count - 1
      BY DEF RingType
    <3> QED BY <3>1, <3>2, <3>3
  <2>5. RingType' /\ PlaceInv'
    BY <1>2, <1>3, <1>5, <2>1, <2>2, <2>3, <2>4 DEF RingType, PlaceInv, Place
  <2> QED BY <1>6, <1>8, <2>1, <2>5 DEF RingType
<1> QED BY <1>4, <1>5 DEF RingType

LEMMA PageSendKeeps == ASSUME LogInv, PageSend PROVE LogInv'
<1> USE LogRingAssumption DEF LogInv
<1> DEFINE n == Len(shown)
<1> DEFINE next == s_log_buf[(Start + n) % LOG_LINES]
<1>1. /\ page = "sending" /\ n \in Nat /\ n < s_log_count
      /\ shown' = Append(shown, next)
      /\ UNCHANGED <<s_log_buf, s_log_head, s_log_count, s_log_mutex, line, page, log>>
  BY DEF PageSend, Start, RingType
<1>2. s_log_mutex = Page
  BY <1>1 DEF LockInv
<1>3. (Start + n) % LOG_LINES = Place(n + 1)
  <2>1. Start + n \in 0 .. 2 * LOG_LINES - 1 /\ Start + (n + 1) - 1 = Start + n
    BY <1>1 DEF Start, RingType
  <2> QED BY <2>1, ModIsWrap DEF Place
<1>4. next = log[n + 1]
  <2>1. n + 1 \in 1 .. s_log_count
    BY <1>1 DEF RingType
  <2> QED BY <1>2, <1>3, <2>1 DEF PlaceInv
<1>5. next \in Lines \cup {NoLine}
  BY <1>1, <1>3, PlaceInRing DEF RingType
<1>6. RingType'
  BY <1>1, <1>5 DEF RingType
<1>7. LockInv' /\ PlaceInv'
  BY <1>1 DEF LockInv, PlaceInv, Place, Start
<1>8. ShownInv'
  <2>1. Len(shown') = n + 1
    BY <1>1, <1>5 DEF RingType
  <2>2. ASSUME NEW i \in 1 .. n + 1 PROVE shown'[i] = log[i]
    <3>1. CASE i = n + 1
      BY <1>1, <1>4, <1>5, <3>1 DEF RingType
    <3>2. CASE i \in 1 .. n
      BY <1>1, <1>5, <3>2 DEF RingType, ShownInv
    <3> QED BY <1>1, <3>1, <3>2
  <2> QED BY <1>1, <2>1, <2>2 DEF ShownInv, RingType
<1> QED BY <1>6, <1>7, <1>8

LEMMA PageKeeps == ASSUME LogInv, PageBegin \/ PageSent \/ PageEnd PROVE LogInv'
<1> USE LogRingAssumption DEF LogInv
<1>1. CASE PageBegin
  BY <1>1 DEF PageBegin, RingType, LockInv, PlaceInv, Place, Start, ShownInv
<1>2. CASE PageSent
  BY <1>2 DEF PageSent, RingType, LockInv, PlaceInv, Place, Start, ShownInv
<1>3. CASE PageEnd
  <2>1. shown' = <<>> /\ s_log_mutex = Page
    BY <1>3 DEF PageEnd, LockInv
  <2> QED BY <1>3, <2>1, EmptySeq DEF PageEnd, RingType, LockInv, PlaceInv, Place, Start, ShownInv
<1> QED BY <1>1, <1>2, <1>3

LEMMA LogUnchanged == ASSUME LogInv, UNCHANGED lvars PROVE LogInv'
  BY DEF LogInv, lvars, RingType, LockInv, PlaceInv, Place, Start, ShownInv

LEMMA LogInvType == ASSUME LogInv PROVE LogType
  BY LogRingAssumption DEF LogInv, RingType, PlaceInv, ShownInv, LogType

LEMMA LogInvShows == ASSUME LogInv PROVE PageShowsLastLines
  BY SeqEqual DEF LogInv, RingType, PlaceInv, ShownInv, PageShowsLastLines
-----------------------------------------------------------------------------
(* Updates *)

\* Of a running device: the other slot is selected exactly when an update has
\* been completed, and then no further one can begin; an update is going on only
\* while the running image has confirmed itself.
UpdateInv ==
    /\ dev = "off" => httpd = "idle" /\ ~s_ota_in_progress
    /\ dev # "off" => (confirmed = "new" <=> sel # running)
    /\ dev # "off" /\ confirmed = "new" => s_ota_in_progress
    /\ httpd \in {"receive", "end", "select"} => s_ota_in_progress /\ confirmed = "valid"
    /\ httpd = "create" => s_ota_in_progress
    /\ httpd = "select" => slot[Target] \in Images

\* An image that has confirmed itself works; one that has not leaves one that did.
ImageInv ==
    /\ slot[sel] \in Images
    /\ confirmed = "valid" => slot[sel] \in Works
    /\ confirmed # "valid" => slot[1 - sel] \in Works

OtaInv == OtaType /\ UpdateInv /\ ImageInv

LEMMA OtaInitially == ASSUME Init PROVE OtaInv
<1> USE DEF Init
<1>1. OtaType
  <2>1. 0 \in 0 .. MaxTimeouts - 1 /\ 0 \in 0 .. MaxChunks
        /\ 0 \in 0 .. MaxReboots /\ 0 \in 0 .. MaxLosses
    BY OtaBootAssumption
  <2> QED BY <2>1, OtaBootAssumption DEF OtaType, Images
<1>2. UpdateInv
  BY DEF UpdateInv
<1>3. ImageInv
  BY OtaBootAssumption DEF ImageInv, Images
<1> QED BY <1>1, <1>2, <1>3 DEF OtaInv

LEMMA OtaOff == ASSUME OtaInv, Off, UNCHANGED flash, UNCHANGED running, losses' \in 0 .. MaxLosses
                PROVE  OtaInv'
<1> USE DEF OtaInv, Off, flash
<1>1. OtaType'
  <2>1. 0 \in 0 .. MaxTimeouts - 1 /\ 0 \in 0 .. MaxChunks /\ 0 \in 0 .. MaxReboots
    BY OtaBootAssumption
  <2> QED BY <2>1 DEF OtaType
<1>2. UpdateInv'
  BY DEF UpdateInv
<1>3. ImageInv'
  BY DEF ImageInv
<1> QED BY <1>1, <1>2, <1>3

LEMMA OtaPowerUp == ASSUME OtaInv, PowerUp PROVE OtaInv'
<1> USE DEF OtaInv, OtaType, UpdateInv, ImageInv, PowerUp, handler, restart
<1>1. /\ sel' \in {0, 1} /\ running' = sel' /\ slot' = slot /\ dev' = "booting"
      /\ httpd' = "idle" /\ ~s_ota_in_progress'
  OBVIOUS
<1>2. CASE confirmed = "pending"
  BY <1>1, <1>2 DEF Target, Images
<1>3. CASE confirmed = "new"
  BY <1>1, <1>3 DEF Target
<1>4. CASE confirmed = "valid"
  BY <1>1, <1>4 DEF Target
<1> QED BY <1>2, <1>3, <1>4

LEMMA OtaComeUp == ASSUME OtaInv, ComeUp PROVE OtaInv'
  BY DEF OtaInv, OtaType, UpdateInv, ImageInv, ComeUp, handler, restart, Target

LEMMA OtaUpdateBegin ==
    ASSUME OtaInv, UpdateBegin PROVE OtaInv'
<1> USE DEF OtaInv, OtaType, UpdateInv, ImageInv, UpdateBegin, restart
<1>1. confirmed = "valid" /\ sel = running
  OBVIOUS
<1>2. /\ slot' \in [{0, 1} -> Images \cup {NoImage}]
      /\ slot'[sel] = slot[sel]
  BY <1>1 DEF Target
<1>3. timeouts' \in 0 .. MaxTimeouts - 1 /\ remaining' \in 0 .. MaxChunks
  BY OtaBootAssumption
<1> QED BY <1>1, <1>2, <1>3

LEMMA OtaGiveUp ==
    ASSUME OtaInv, httpd \in {"receive", "end", "select"}, GiveUp PROVE OtaInv'
<1> USE DEF OtaInv, GiveUp, flash, restart
<1>1. OtaType'
  <2>1. 0 \in 0 .. MaxTimeouts - 1 /\ 0 \in 0 .. MaxChunks
    BY OtaBootAssumption
  <2> QED BY <2>1 DEF OtaType
<1>2. UpdateInv'
  BY DEF UpdateInv
<1>3. ImageInv'
  BY DEF ImageInv
<1> QED BY <1>1, <1>2, <1>3

LEMMA OtaReceive == ASSUME OtaInv, ReceiveStep PROVE OtaInv'
<1> USE OtaBootAssumption DEF OtaInv, OtaType, UpdateInv, ImageInv, restart, flash, Target
<1>1. CASE httpd = "receive" /\ GiveUp
  BY <1>1, OtaGiveUp
<1>2. CASE Receive
  <2>1. remaining' \in 0 .. MaxChunks /\ timeouts' \in 0 .. MaxTimeouts - 1
    BY <1>2 DEF Receive
  <2> QED BY <1>2, <2>1 DEF Receive, Continue
<1>3. CASE ReceiveTimesOut /\ ~GiveUp
  <2>1. timeouts' = timeouts + 1 /\ timeouts + 1 < MaxTimeouts
    BY <1>3 DEF ReceiveTimesOut
  <2>2. timeouts' \in 0 .. MaxTimeouts - 1
    BY <2>1
  <2>3. httpd = "receive" /\ Continue("receive") /\ UNCHANGED remaining
    BY <1>3 DEF ReceiveTimesOut
  <2> QED BY <2>2, <2>3 DEF Continue
<1> QED BY <1>1, <1>2, <1>3 DEF ReceiveStep, ReceiveFails, ReceiveTimesOut

LEMMA OtaFinish == ASSUME OtaInv, FinishStep PROVE OtaInv'
<1> USE OtaBootAssumption DEF OtaInv, OtaType, UpdateInv, ImageInv, restart, flash, Target
<1>1. CASE Validate
  <2>1. confirmed = "valid" /\ sel = running /\ running \in {0, 1}
    BY <1>1 DEF Validate
  <2>2. /\ slot' \in [{0, 1} -> Images \cup {NoImage}]
        /\ slot'[sel] = slot[sel] /\ slot'[Target] \in Images
    BY <1>1, <2>1 DEF Validate
  <2> QED BY <1>1, <2>1, <2>2 DEF Validate, handler
<1>2. CASE ValidateFails
  BY <1>2, OtaGiveUp DEF ValidateFails
<1>3. CASE SelectNew
  <2>1. sel = running /\ slot[1 - sel'] \in Works /\ sel' # running /\ sel' \in {0, 1}
    BY <1>3 DEF SelectNew
  <2> QED BY <1>3, <2>1 DEF SelectNew, handler
<1>4. CASE CreateReboot
  <2>1. waiting' \in 0 .. MaxReboots
    BY <1>4 DEF CreateReboot
  <2> QED BY <1>4, <2>1 DEF CreateReboot, handler
<1> QED BY <1>1, <1>2, <1>3, <1>4 DEF FinishStep

LEMMA OtaReboot == ASSUME OtaInv, Reboot \/ RebootWithoutTask \/ TriggerReset PROVE OtaInv'
<1> USE OtaBootAssumption DEF OtaInv, OtaType, UpdateInv, ImageInv, flash, handler, Target
<1>1. CASE Reboot
  BY <1>1 DEF Reboot
<1>2. CASE RebootWithoutTask
  BY <1>2 DEF RebootWithoutTask
<1>3. CASE TriggerReset
  BY <1>3 DEF TriggerReset
<1> QED BY <1>1, <1>2, <1>3

LEMMA OtaUnchanged == ASSUME OtaInv, UNCHANGED vars PROVE OtaInv'
  BY DEF OtaInv, OtaType, UpdateInv, ImageInv, vars, Target

\* Every step of the web server keeps the invariant.
LEMMA OtaStep == ASSUME OtaInv, [WebNext]_wsvars PROVE OtaInv'
<1>1. CASE Request
  BY <1>1, OtaUpdateBegin, OtaReboot DEF Request
<1>2. CASE Handling
  BY <1>2, OtaReceive, OtaFinish DEF Handling
<1>3. CASE Running
  BY <1>3, OtaPowerUp, OtaComeUp, OtaReboot DEF Running
<1>4. CASE Stopping
  <2>1. /\ Off /\ UNCHANGED flash /\ UNCHANGED running
        /\ losses' \in 0 .. MaxLosses
    BY <1>4, OtaBootAssumption
    DEF Stopping, PowerLoss, Reset, Abort, OtaInv, OtaType, flash
  <2> QED BY <2>1, OtaOff
<1>5. CASE Logging
  BY <1>5, OtaUnchanged DEF Logging
<1>6. CASE UNCHANGED wsvars
  BY <1>6, OtaUnchanged DEF wsvars
<1> QED BY <1>1, <1>2, <1>3, <1>4, <1>5, <1>6 DEF WebNext

LEMMA OtaInvariant == WebSpec => []OtaInv
<1>1. WebInit => OtaInv
  BY OtaInitially DEF WebInit
<1>2. OtaInv /\ [WebNext]_wsvars => OtaInv'
  BY OtaStep
<1> QED BY <1>1, <1>2, PTL DEF WebSpec

\* Until the next image has confirmed itself at the end of app_main, the one that
\* has is there to go back to.
THEOREM FallbackAlwaysWorks == WebSpec => []FallbackWorks
<1>1. OtaInv => FallbackWorks
  BY DEF OtaInv, ImageInv, FallbackWorks
<1> QED BY <1>1, OtaInvariant, PTL
-----------------------------------------------------------------------------
(* The updates implement UpdateService *)

LEMMA OtaInitMaps == ASSUME Init PROVE Service!Init
BY OtaBootAssumption DEF Init, Service!Init

\* A running device runs the image of the selected slot, unless another has been
\* selected meanwhile.
LEMMA WhatRuns ==
    ASSUME OtaInv, dev # "off"
    PROVE  /\ slot[running] # NoImage
           /\ confirmed = "pending" => running = sel
           /\ confirmed = "valid" => running = sel
           /\ confirmed = "new" => running = 1 - sel
<1> USE DEF OtaInv, OtaType, UpdateInv, ImageInv
<1>1. running \in {0, 1} /\ sel \in {0, 1} /\ confirmed \in {"new", "pending", "valid"}
  OBVIOUS
<1>2. confirmed = "new" => running = 1 - sel
  BY <1>1
<1>3. confirmed # "new" => running = sel
  BY <1>1
<1>4. slot[sel] # NoImage /\ (confirmed # "valid" => slot[1 - sel] # NoImage)
  BY OtaBootAssumption DEF Images
<1> QED BY <1>1, <1>2, <1>3, <1>4

\* A step that changes neither slots nor boot data nor what runs is none to the owner.
LEMMA OtaStutters ==
    ASSUME UNCHANGED <<flash, running, dev>> PROVE UNCHANGED Service!uvars
BY DEF flash, Service!uvars

\* An update touches the other slot only, while the running image is trusted.
LEMMA UpdateMaps ==
    ASSUME OtaInv, OtaInv', UpdateBegin \/ ReceiveStep \/ FinishStep
    PROVE  [Service!Next]_(Service!uvars)
<1> USE DEF OtaInv, OtaType, UpdateInv, ImageInv
<1>1. ASSUME dev # "off", confirmed = "valid", NEW content,
             slot' = [slot EXCEPT ![Target] = content], UNCHANGED <<sel, confirmed, running, dev>>
      PROVE  UNCHANGED Service!uvars
  <2>1. running = sel /\ sel \in {0, 1} /\ Target # sel
    BY <1>1 DEF Target
  <2>2. slot'[sel] = slot[sel]
    BY <1>1, <2>1
  <2> QED BY <1>1, <2>1, <2>2 DEF Service!uvars
<1>2. CASE UpdateBegin
  <2>1. confirmed = "valid" /\ dev # "off"
    BY <1>2 DEF UpdateBegin
  <2> QED BY <1>1, <1>2, <2>1 DEF UpdateBegin
<1>3. CASE ReceiveStep \/ ValidateFails \/ CreateReboot
  BY <1>3, OtaStutters
  DEF ReceiveStep, Receive, ReceiveFails, ReceiveTimesOut, Continue, GiveUp, ValidateFails, CreateReboot
<1>4. CASE Validate
  <2>1. confirmed = "valid" /\ dev # "off"
    BY <1>4 DEF Validate
  <2> QED BY <1>1, <1>4, <2>1 DEF Validate
<1>5. CASE SelectNew
  <2>1. /\ dev # "off" /\ confirmed = "valid" /\ confirmed' = "new"
        /\ sel \in {0, 1} /\ running = sel /\ sel' = 1 - sel /\ 1 - sel' = sel
        /\ slot[1 - sel] \in Images
        /\ UNCHANGED <<slot, running, dev>>
    BY <1>5 DEF SelectNew, Target
  <2>2. Service!Install
    BY <2>1 DEF Service!Install
  <2> QED BY <2>2 DEF Service!Next
<1> QED BY <1>2, <1>3, <1>4, <1>5 DEF FinishStep

\* The bootloader decides between the trusted image and the candidate.
LEMMA PowerUpMaps == ASSUME OtaInv, PowerUp PROVE Service!Next
<1> USE DEF OtaInv, OtaType
<1>1. /\ dev = "off" /\ dev' = "booting" /\ running' = sel' /\ slot' = slot
      /\ sel \in {0, 1} /\ 1 - (1 - sel) = sel
      /\ slot[sel] # NoImage
  BY OtaBootAssumption DEF PowerUp, ImageInv, Images
<1>2. CASE confirmed = "valid"
  <2>1. sel' = sel /\ confirmed' = "valid"
    BY <1>2 DEF PowerUp
  <2> QED BY <1>1, <1>2, <2>1 DEF Service!Next, Service!Start
<1>3. CASE confirmed = "new"
  <2>1. sel' = sel /\ confirmed' = "pending"
    BY <1>3 DEF PowerUp
  <2> QED BY <1>1, <1>3, <2>1 DEF Service!Next, Service!Try
<1>4. CASE confirmed = "pending"
  <2>1. sel' = 1 - sel /\ confirmed' = "valid"
    BY <1>4 DEF PowerUp
  <2> QED BY <1>1, <1>4, <2>1 DEF Service!Next, Service!GoBack
<1> QED BY <1>2, <1>3, <1>4

LEMMA ComeUpMaps == ASSUME OtaInv, ComeUp PROVE [Service!Next]_(Service!uvars)
<1>1. /\ dev = "booting" /\ dev' = "up" /\ slot[running] \in Works
      /\ confirmed' = (IF sel = running THEN "valid" ELSE confirmed)
      /\ UNCHANGED <<slot, sel, running>>
  BY DEF ComeUp
<1>2. CASE confirmed = "pending"
  <2>1. running = sel /\ confirmed' = "valid"
    BY <1>1, <1>2, WhatRuns
  <2> QED BY <1>1, <1>2, <2>1 DEF Service!Next, Service!Confirm
<1>3. CASE confirmed \in {"valid", "new"}
  <2>1. confirmed' = confirmed
    BY <1>1, <1>3, WhatRuns DEF OtaInv, OtaType
  <2> QED BY <1>1, <2>1 DEF Service!uvars
<1> QED BY <1>2, <1>3 DEF OtaInv, OtaType

\* What a step of the web server or of the device is to the owner.
LEMMA OtaStepMaps ==
    ASSUME OtaInv, OtaInv', [WebNext]_wsvars
    PROVE  [Service!Next]_(Service!uvars)
<1>1. CASE Request
  BY <1>1, UpdateMaps, OtaStutters DEF Request, Reboot, RebootWithoutTask
<1>2. CASE Handling
  BY <1>2, UpdateMaps DEF Handling
<1>3. CASE Running
  BY <1>3, PowerUpMaps, ComeUpMaps, OtaStutters DEF Running, TriggerReset
<1>4. CASE Stopping
  <2>1. dev' = "off" /\ UNCHANGED <<flash, running>>
    BY <1>4 DEF Stopping, PowerLoss, Reset, Abort, Off
  <2>2. CASE dev = "off"
    BY <2>1, <2>2, OtaStutters
  <2>3. CASE dev # "off"
    BY <2>1, <2>3, WhatRuns DEF flash, Service!Next, Service!Stop
  <2> QED BY <2>2, <2>3
<1>5. CASE UNCHANGED vars
  BY <1>5, OtaStutters DEF vars, flash
<1> QED BY <1>1, <1>2, <1>3, <1>4, <1>5 DEF WebNext, Logging, wsvars

\* For any images, any number of pieces, timeouts, reboot tasks and power losses, an
\* update is to the owner what UpdateService promises.
THEOREM UpdatesImplementService == WebSpec => ImplementsUpdateService
<1>1. WebInit => Service!Init
  BY OtaInitMaps DEF WebInit
<1>2. OtaInv /\ OtaInv' /\ [WebNext]_wsvars => [Service!Next]_(Service!uvars)
  BY OtaStepMaps
<1> QED
  BY <1>1, <1>2, OtaInvariant, PTL DEF WebSpec, ImplementsUpdateService, Service!Spec
-----------------------------------------------------------------------------
(* The log *)

LEMMA LogIsLost == ASSUME LogLost PROVE LogInv'
<1> USE LogRingAssumption DEF LogLost
<1>1. RingType'
  BY EmptySeq DEF RingType
<1>2. LockInv' /\ PlaceInv' /\ ShownInv'
  BY DEF LockInv, PlaceInv, ShownInv
<1> QED BY <1>1, <1>2 DEF LogInv

LEMMA LogStep == ASSUME LogInv, [WebNext]_wsvars PROVE LogInv'
<1>1. CASE UNCHANGED lvars
  BY <1>1, LogUnchanged
<1>2. CASE Stopping
  BY <1>2, LogIsLost DEF Stopping
<1>3. CASE Logging
  BY <1>3, LogTakeKeeps, LogWriteKeeps, LogAdvanceKeeps, PageSendKeeps, PageKeeps DEF Logging
<1> QED BY <1>1, <1>2, <1>3 DEF WebNext, Request, Handling, Running, wsvars

LEMMA LogInvariant == WebSpec => []LogInv
<1>1. WebInit => LogInv
  BY LogEmpty DEF WebInit
<1>2. LogInv /\ [WebNext]_wsvars => LogInv'
  BY LogStep
<1> QED BY <1>1, <1>2, PTL DEF WebSpec

\* A page that has been sent shows the last lines stored, all of them and oldest
\* first, for any size of the ring and any number of tasks that log meanwhile.
THEOREM PageAlwaysShowsLastLines == WebSpec => []PageShowsLastLines
<1>1. LogInv => PageShowsLastLines
  BY LogInvShows
<1> QED BY <1>1, LogInvariant, PTL

\* Every variable of the web server's two components keeps its type.
THEOREM TypeCorrect == WebSpec => []TypeOK
<1>1. OtaInv /\ LogInv => TypeOK
  BY LogInvType DEF OtaInv, TypeOK
<1> QED BY <1>1, OtaInvariant, LogInvariant, PTL
=============================================================================
