--------------------------- MODULE ConfigDownload ---------------------------
(***************************************************************************)
(* How the program gets its coins.  main() calls ServerApi::init(), which  *)
(* asks a server for the pools of every coin, in a nested event loop that  *)
(* the answer, a timer of ten seconds, an abort or an interrupt may end;   *)
(* later a timer of the DownloadManager asks again every hour, or every    *)
(* five seconds after an error.  Every query aborts the one before it, and *)
(* an abort ends a reply like any other end: with the HTTP code it has, if *)
(* its header has come, and the part of the answer that has come.          *)
(*                                                                         *)
(* All of it runs on the main thread.  The handlers are operators from the *)
(* state to the next state; between two of them the loop may return.       *)
(***************************************************************************)
EXTENDS Naturals

CONSTANT MaxQueries \* 5: the last query of init() is not waited for

ASSUME ConfigAssumption == MaxQueries \in Nat \ {0}

VARIABLE api

vars == <<api>>

Init ==
  api = [phase |-> "init",      \* main(): in init(), "loop" in its event loop,
                                \* "start" after it, "run" in app.exec(), "ended"
         queries |-> 0, stop |-> FALSE,
         code |-> "none",       \* what the loop was told to return, if it was
         quitNow |-> FALSE,     \* Qt: the thread's loops are to quit
         reply |-> "none",      \* m_reply: "sent", "head" with a code of 200, "over"
         interval |-> "hour", active |-> FALSE,  \* m_timer
         loaded |-> FALSE,      \* the CoinManager has coins
         unusable |-> FALSE,    \* history: the last reply had code 200, and no configuration
         interrupted |-> FALSE, \* history
         aborted |-> FALSE]     \* history

-----------------------------------------------------------------------------
(* The end of a reply: poolResp, then the loop of init() *)

\* What a reply may end with.  "cut", "empty": a code of 200 whose data is not a
\* configuration, or none at all.  "token": the error that restarts the program.
Whole == {"config", "cut", "empty"}
Failures == {"error", "token"}

\* setInterval
Every(s, interval) == [s EXCEPT !.interval = interval, !.active = TRUE]

\* QCoreApplication::quit()
Quit(s) ==
  [s EXCEPT !.quitNow = TRUE,
            !.code = IF s.phase = "loop" THEN "0" ELSE @,
            !.phase = IF @ = "run" THEN "ended" ELSE @]

\* Mutation of PoolResp: the interval stays short after an error.
PoolRespKeepingInterval(s, kind) ==
  CASE kind = "config" -> [s EXCEPT !.loaded = TRUE]
    [] kind = "cut"    -> s
    [] kind = "empty"  -> Every(s, "short")
    [] kind = "error"  -> Every(s, "short")
    [] kind = "token"  -> Every(Quit(s), "short")

PoolResp(s, kind) ==
  CASE kind = "config" ->
         LET t == [s EXCEPT !.loaded = TRUE]
         IN  IF s.interval = "hour" THEN t ELSE Every(t, "hour")
    [] kind = "cut"    -> s
    [] kind = "empty"  -> Every(s, "short")
    [] kind = "error"  -> Every(s, "short")
    [] kind = "token"  -> Every(Quit(s), "short")

\* Mutation of Ended: every answer ends the loop as a success.
EndedWell(s, kind) ==
  LET t == PoolResp([s EXCEPT !.reply = "over", !.unusable = kind \in {"cut", "empty"}], kind)
  IN  [t EXCEPT !.code = IF t.phase = "loop" THEN "0" ELSE @]

\* finished(): the code goes to poolResp and to the loop.  exit() of a loop that is
\* not running is forgotten.
Ended(s, kind) ==
  LET t == PoolResp([s EXCEPT !.reply = "over", !.unusable = kind \in {"cut", "empty"}], kind)
  IN  [t EXCEPT !.code = IF t.phase # "loop" THEN @
                         ELSE IF kind \in Whole THEN "0" ELSE "1"]

-----------------------------------------------------------------------------
(* The DownloadManager *)

\* QNetworkReply::abort: a reply under way ends, with what it has.
Aborted(s) ==
  CASE s.reply = "sent" -> {Ended(s, "error")}
    [] s.reply = "head" -> {Ended(s, kind) : kind \in {"cut", "empty"}}
    [] OTHER -> {s}

\* Mutation of Query: a timer that was stopped is not started.
QueryOnce(s) == {[t EXCEPT !.reply = "sent"] : t \in Aborted(s)}

\* get()
Query(s) == {[t EXCEPT !.reply = "sent", !.active = TRUE] : t \in Aborted(s)}

\* abort(): the timer is stopped first, and started again if the reply ends with an
\* error.  abortSignal tells the loop.
Abort(s) ==
  {[t EXCEPT !.reply = "none", !.aborted = TRUE,
             !.stop = @ \/ t.phase = "loop",
             !.code = IF t.phase = "loop" THEN "1" ELSE @]
     : t \in Aborted([s EXCEPT !.active = FALSE])}

-----------------------------------------------------------------------------
(* main() and ServerApi::init() *)

\* Mutation of InitQuery: the queries are not counted.
InitQueryForEver ==
  /\ api.phase = "init"
  /\ \E s \in Query(api) :
       api' = [s EXCEPT !.code = "none",
                        !.phase = IF s.stop \/ s.quitNow THEN "ended" ELSE "loop"]

\* A query, and loop.exec(), which returns at once when the thread is to quit.  The
\* last query, and the one after an abort, are given up as soon as they are sent.
InitQuery ==
  /\ api.phase = "init"
  /\ \E s \in Query([api EXCEPT !.queries = @ + 1]) :
       api' = [s EXCEPT !.code = "none",
                        !.phase = IF s.queries = MaxQueries \/ s.stop \/ s.quitNow
                                    THEN "ended" ELSE "loop"]

\* The loop returns; other events may have come since it was told to.
LoopReturns ==
  /\ api.phase = "loop" /\ api.code # "none"
  /\ api' = [api EXCEPT !.phase = IF api.code = "1" THEN "init" ELSE "start"]

\* The coins named on the command line are looked up and started.  exec() forgets
\* an earlier quit().
Start ==
  /\ api.phase = "start"
  /\ api' = [api EXCEPT !.phase = IF api.loaded THEN "run" ELSE "ended", !.quitNow = FALSE]

-----------------------------------------------------------------------------
(* Events *)

Looping == api.phase \in {"loop", "run"}

\* pool_timer
PoolTimer == api.phase = "loop" /\ api' = [api EXCEPT !.code = "1"]

\* m_timer
Timer == Looping /\ api.active /\ api' \in Query(api)

\* ServerApi::abort(), which the library offers and the program does not use.
AbortCall == Looping /\ api.reply # "none" /\ api' \in Abort(api)

\* SIGINT
Interrupt == api.phase # "ended" /\ api' = [Quit(api) EXCEPT !.interrupted = TRUE]

\* The server answers: a header of code 200 and later the rest, or an error.
Header == Looping /\ api.reply = "sent" /\ api' = [api EXCEPT !.reply = "head"]

Answer(kind) ==
  /\ Looping
  /\ IF kind \in Whole THEN api.reply = "head" ELSE api.reply = "sent"
  /\ api' = Ended(api, kind)

Next ==
  \/ InitQuery \/ LoopReturns \/ Start
  \/ PoolTimer \/ Timer \/ AbortCall \/ Interrupt
  \/ Header \/ \E kind \in Whole \cup Failures : Answer(kind)

\* The loops go on and their timers fire; the server is well again and again.
Spec ==
  /\ Init /\ [][Next]_vars
  /\ WF_vars(InitQuery \/ LoopReturns \/ Start) /\ WF_vars(PoolTimer) /\ WF_vars(Timer)
  /\ SF_vars(Header) /\ SF_vars(Answer("config"))

-----------------------------------------------------------------------------
(* Properties *)

\* init() that succeeds has brought the coins, unless the last reply had a code of 200
\* and no configuration in it -- the five-second timer's own query cuts a slow answer off so --
\* or SIGINT ended the loop, which then returns the code of a success.
InitTellsTruth ==
  api.phase \in {"start", "run"} => api.loaded \/ api.unusable \/ api.interrupted

\* The program goes on asking: only an abort stops its timer.  (An abort that makes a
\* reply end with an error does not: poolResp starts the timer again.)
KeepsAsking ==
  api.phase = "run" => api.active \/ api.aborted

\* init() ends, whatever the server does: the loop by its timer, the queries by their
\* number, although each query cuts the one before and is cut by the timers.
InitEnds == api.phase \in {"init", "loop"} ~> api.phase \notin {"init", "loop"}

\* After errors the program asks every five seconds until an answer comes through, and
\* then every hour again, unless it ends or its timer is stopped.
Refreshed ==
  api.phase = "run" /\ api.interval = "short"
    ~> api.phase = "ended" \/ api.interval = "hour" \/ ~api.active
=============================================================================
