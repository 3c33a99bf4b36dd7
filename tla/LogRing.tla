------------------------------- MODULE LogRing -------------------------------
(***************************************************************************)
(* The log behind the diagnostics page (log_vprintf and the end of         *)
(* diag_handler in web_server.c): every task that logs writes into a ring  *)
(* of lines under a mutex it waits 10 ms for, and the page sends the ring  *)
(* to a client while it holds that mutex.  A line is a model value; the    *)
(* copy that always goes to the console is left out.                       *)
(***************************************************************************)
EXTENDS Naturals, Sequences

CONSTANTS
    LOG_LINES,      \* 30 in the code
    Lines,          \* what tasks log
    Writers,        \* tasks that log
    Page,           \* httpd's task, which may log while it sends the page
    NoLine, Nobody

ASSUME LogRingAssumption ==
    /\ LOG_LINES \in Nat \ {0}
    /\ NoLine \notin Lines /\ Page \notin Writers
    /\ Nobody \notin Writers \cup {Page}

VARIABLES
    s_log_buf, s_log_head, s_log_count,
    s_log_mutex,    \* the task that holds it, or Nobody
    line,           \* line[w]: what writer w is storing, NoLine when it is not
    page,           \* the page: "idle", "sending" or "sent"
    shown,          \* the lines sent so far
    log             \* history: the last LOG_LINES lines stored

lvars == <<s_log_buf, s_log_head, s_log_count, s_log_mutex, line, page, shown, log>>

LogInit ==
    /\ s_log_buf = [i \in 0 .. LOG_LINES - 1 |-> NoLine]
    /\ s_log_head = 0 /\ s_log_count = 0 /\ s_log_mutex = Nobody
    /\ line = [w \in Writers |-> NoLine]
    /\ page = "idle" /\ shown = <<>> /\ log = <<>>
-----------------------------------------------------------------------------
(* log_vprintf.  A task that does not get the mutex within 10 ms goes on        *)
(* without storing its line: no step.                                         *)

LogTake(w, text) ==
    /\ line[w] = NoLine /\ s_log_mutex = Nobody
    /\ s_log_mutex' = w
    /\ line' = [line EXCEPT ![w] = text]
    /\ UNCHANGED <<s_log_buf, s_log_head, s_log_count, page, shown, log>>

\* vsnprintf into the line at the head (no step when the same text is there).
LogWrite(w) ==
    /\ line[w] # NoLine /\ s_log_buf[s_log_head] # line[w]
    /\ s_log_buf' = [s_log_buf EXCEPT ![s_log_head] = line[w]]
    /\ UNCHANGED <<s_log_head, s_log_count, s_log_mutex, line, page, shown, log>>

\* Faulty variant: the head runs off the end of the ring.
LogAdvance_NoWrap(w) ==
    /\ line[w] # NoLine /\ s_log_buf[s_log_head] = line[w]
    /\ s_log_head' = s_log_head + 1
    /\ s_log_count' = IF s_log_count < LOG_LINES THEN s_log_count + 1 ELSE s_log_count
    /\ s_log_mutex' = Nobody
    /\ log' = Append(log, line[w])
    /\ line' = [line EXCEPT ![w] = NoLine]
    /\ UNCHANGED <<s_log_buf, page, shown>>

\* The head moves on and the mutex is given.
LogAdvance(w) ==
    /\ line[w] # NoLine /\ s_log_buf[s_log_head] = line[w]
    /\ s_log_head' = (s_log_head + 1) % LOG_LINES
    /\ s_log_count' = IF s_log_count < LOG_LINES THEN s_log_count + 1 ELSE s_log_count
    /\ s_log_mutex' = Nobody
    /\ log' = LET all == Append(log, line[w])
              IN  IF Len(all) > LOG_LINES THEN Tail(all) ELSE all
    /\ line' = [line EXCEPT ![w] = NoLine]
    /\ UNCHANGED <<s_log_buf, page, shown>>
-----------------------------------------------------------------------------
(* diag_handler, "Recent logs"; the section stays empty when the mutex is not *)
(* to be had in 100 ms: no step.                                             *)

\* Faulty variant: the page does not take the mutex.
PageBegin_NoLock ==
    /\ page = "idle" /\ page' = "sending"
    /\ UNCHANGED <<s_log_buf, s_log_head, s_log_count, s_log_mutex, line, shown, log>>

PageBegin ==
    /\ page = "idle" /\ s_log_mutex = Nobody
    /\ page' = "sending" /\ s_log_mutex' = Page
    /\ UNCHANGED <<s_log_buf, s_log_head, s_log_count, line, shown, log>>

\* One line after the other, each as slowly as the client takes it.
PageSend ==
    /\ page = "sending" /\ Len(shown) < s_log_count
    /\ LET start == IF s_log_count < LOG_LINES THEN 0 ELSE s_log_head
       IN  shown' = Append(shown, s_log_buf[(start + Len(shown)) % LOG_LINES])
    /\ UNCHANGED <<s_log_buf, s_log_head, s_log_count, s_log_mutex, line, page, log>>

PageSent ==
    /\ page = "sending" /\ Len(shown) = s_log_count
    /\ page' = "sent"
    /\ UNCHANGED <<s_log_buf, s_log_head, s_log_count, s_log_mutex, line, shown, log>>

PageEnd ==
    /\ page = "sent"
    /\ page' = "idle" /\ shown' = <<>> /\ s_log_mutex' = Nobody
    /\ UNCHANGED <<s_log_buf, s_log_head, s_log_count, line, log>>

LogNext ==
    \/ \E w \in Writers : (\E text \in Lines : LogTake(w, text)) \/ LogWrite(w) \/ LogAdvance(w)
    \/ PageBegin \/ PageSend \/ PageSent \/ PageEnd
-----------------------------------------------------------------------------
(* Properties *)

LogType ==
    /\ s_log_buf \in [0 .. LOG_LINES - 1 -> Lines \cup {NoLine}]
    /\ s_log_head \in 0 .. LOG_LINES - 1 /\ s_log_count \in 0 .. LOG_LINES
    /\ s_log_mutex \in Writers \cup {Page, Nobody}
    /\ line \in [Writers -> Lines \cup {NoLine}]
    /\ page \in {"idle", "sending", "sent"}
    /\ Len(shown) <= LOG_LINES /\ Len(log) <= LOG_LINES

\* "last 30 log lines from the ring buffer" (docs/docs/web-interface.md:62): a
\* page that has been sent shows the last lines stored, all of them, oldest first,
\* although other tasks log while a slow client receives it.
PageShowsLastLines == page = "sent" => shown = log
=============================================================================
