---------------------------- MODULE ConfigProofs ----------------------------
(***************************************************************************)
(* What holds of the download of the configuration for any number of       *)
(* queries that init() may make: it succeeds only with the coins or for a  *)
(* named reason, it asks no more often than it may, and the timer that     *)
(* goes on asking is stopped by an abort only.                             *)
(***************************************************************************)
EXTENDS ConfigDownload, TLAPS

Kinds == Whole \cup Failures

Api ==
  [phase : {"init", "loop", "start", "run", "ended"}, queries : Nat, stop : BOOLEAN,
   code : {"none", "0", "1"}, quitNow : BOOLEAN, reply : {"none", "sent", "head", "over"},
   interval : {"hour", "short"}, active : BOOLEAN, loaded : BOOLEAN, unusable : BOOLEAN,
   interrupted : BOOLEAN, aborted : BOOLEAN]

\* Why init() may be told that it succeeded.
Reason(s) == s.loaded \/ s.unusable \/ s.interrupted

\* The loop is told of a success for a reason, which lasts until it returns, and
\* nothing runs without coins.
Truthful(s) ==
  /\ s.phase = "loop" /\ s.code = "0" => Reason(s)
  /\ s.phase = "start" => Reason(s)
  /\ s.phase = "run" => s.loaded

\* Once init() has asked, the timer runs unless an abort stopped it.
Asking(s) == s.phase \in {"loop", "start", "run"} => s.active \/ s.aborted

\* init() waits for none but the first MaxQueries - 1 queries, and for none at all once
\* it was aborted or the program told to quit.
Ending(s) ==
  /\ s.queries <= MaxQueries
  /\ s.phase = "loop" => s.queries > 0
  /\ s.phase \in {"init", "loop"} => s.queries < MaxQueries
  /\ s.phase = "loop" /\ (s.stop \/ s.quitNow) => s.code # "none"

Good(s) == s \in Api /\ Truthful(s) /\ Asking(s) /\ Ending(s)

-----------------------------------------------------------------------------
\* A reply that ends: whether the timer still runs, and what the loop is told.
LEMMA PoolRespEffect ==
  ASSUME NEW s \in Api, NEW kind \in Kinds
  PROVE  LET t == PoolResp(s, kind)
         IN  /\ t \in Api
             /\ t.phase = IF kind = "token" /\ s.phase = "run" THEN "ended" ELSE s.phase
             /\ t.queries = s.queries /\ t.stop = s.stop /\ t.aborted = s.aborted
             /\ t.interrupted = s.interrupted /\ t.unusable = s.unusable
             /\ t.loaded = (s.loaded \/ kind = "config")
             /\ (s.active => t.active)
             /\ (s.phase # "loop" => t.code = s.code)
<1> DEFINE t == PoolResp(s, kind)
<1>1. CASE kind = "config"
  <2>1. t = LET u == [s EXCEPT !.loaded = TRUE]
            IN  IF s.interval = "hour" THEN u ELSE Every(u, "hour")
    BY <1>1 DEF PoolResp
  <2> QED
    BY <1>1, <2>1 DEF Every, Api
<1>2. CASE kind = "cut"
  <2>1. t = s
    BY <1>2 DEF PoolResp
  <2> QED
    BY <1>2, <2>1 DEF Api
<1>3. CASE kind \in {"empty", "error"}
  <2>1. t = Every(s, "short")
    BY <1>3 DEF PoolResp
  <2> QED
    BY <1>3, <2>1 DEF Every, Api
<1>4. CASE kind = "token"
  <2>1. t = Every(Quit(s), "short")
    BY <1>4 DEF PoolResp
  <2> QED
    BY <1>4, <2>1 DEF Every, Quit, Api
<1> QED
  BY <1>1, <1>2, <1>3, <1>4 DEF Kinds, Whole, Failures

\* ... and the loop of init(), which is told of a success with data of code 200.
LEMMA EndedEffect ==
  ASSUME NEW s \in Api, NEW kind \in Kinds
  PROVE  LET t == Ended(s, kind)
         IN  /\ t \in Api
             /\ t.phase = IF kind = "token" /\ s.phase = "run" THEN "ended" ELSE s.phase
             /\ t.queries = s.queries /\ t.stop = s.stop /\ t.aborted = s.aborted
             /\ t.interrupted = s.interrupted
             /\ (s.loaded => t.loaded) /\ (s.active => t.active)
             /\ (t.phase = "loop" /\ t.code = "0" => Reason(t))
             /\ (t.phase = "loop" => t.code # "none")
             /\ (s.phase # "loop" => t.code = s.code)
<1> DEFINE bad == kind \in {"cut", "empty"}
          u == [s EXCEPT !.reply = "over", !.unusable = bad]
          v == PoolResp(u, kind)
          code == IF v.phase # "loop" THEN v.code ELSE IF kind \in Whole THEN "0" ELSE "1"
          t == [v EXCEPT !.code = code]
<1>1. bad \in BOOLEAN
  OBVIOUS
<1>d. Ended(s, kind) = t
  BY DEF Ended
<1>b. bad <=> kind \in {"cut", "empty"}
  OBVIOUS
<1> HIDE DEF bad
<1>2. /\ u \in Api /\ u.phase = s.phase /\ u.queries = s.queries /\ u.stop = s.stop
      /\ u.aborted = s.aborted /\ u.interrupted = s.interrupted /\ u.unusable = bad
      /\ u.loaded = s.loaded /\ u.active = s.active /\ u.code = s.code
  BY <1>1 DEF Api
<1> HIDE DEF u
<1>3. /\ v \in Api
      /\ v.phase = IF kind = "token" /\ s.phase = "run" THEN "ended" ELSE s.phase
      /\ v.queries = s.queries /\ v.stop = s.stop /\ v.aborted = s.aborted
      /\ v.interrupted = s.interrupted /\ v.unusable = bad
      /\ v.loaded = (s.loaded \/ kind = "config")
      /\ (s.active => v.active)
      /\ (s.phase # "loop" => v.code = s.code)
  BY <1>2, PoolRespEffect
<1> HIDE DEF v
<1>4. code \in {"none", "0", "1"} /\ (v.phase # "loop" => code = v.code)
      /\ (v.phase = "loop" => code # "none" /\ (code = "0" => kind \in Whole))
  BY <1>3 DEF Api
<1> HIDE DEF code
<1>5. /\ t \in Api /\ t.phase = v.phase /\ t.queries = v.queries /\ t.stop = v.stop
      /\ t.aborted = v.aborted /\ t.interrupted = v.interrupted /\ t.unusable = v.unusable
      /\ t.loaded = v.loaded /\ t.active = v.active /\ t.code = code
  BY <1>3, <1>4 DEF Api
<1> HIDE DEF t
<1>6. ASSUME t.phase = "loop", t.code = "0" PROVE Reason(t)
  BY <1>3, <1>4, <1>5, <1>6, <1>b DEF Whole, Reason
<1>7. s.phase # "loop" => v.phase # "loop"
  BY <1>3
<1> QED
  BY <1>3, <1>4, <1>5, <1>6, <1>7, <1>d

\* An answer keeps the invariant.
LEMMA EndedGood ==
  ASSUME NEW s, Good(s), NEW kind \in Kinds, s.phase \in {"init", "loop", "run"}
  PROVE  Good(Ended(s, kind))
<1> DEFINE t == Ended(s, kind)
<1>1. s \in Api /\ Truthful(s) /\ Asking(s) /\ Ending(s)
  BY DEF Good
<1>2. /\ t \in Api
      /\ t.phase = IF kind = "token" /\ s.phase = "run" THEN "ended" ELSE s.phase
      /\ t.queries = s.queries /\ t.stop = s.stop /\ t.aborted = s.aborted
      /\ t.interrupted = s.interrupted
      /\ (s.loaded => t.loaded) /\ (s.active => t.active)
      /\ (t.phase = "loop" /\ t.code = "0" => Reason(t))
      /\ (t.phase = "loop" => t.code # "none")
      /\ (s.phase # "loop" => t.code = s.code)
  BY <1>1, EndedEffect
<1> HIDE DEF t
<1>3. Truthful(t)
  BY <1>1, <1>2 DEF Truthful
<1>4. Asking(t) /\ Ending(t)
  BY <1>1, <1>2 DEF Asking, Ending
<1> QED
  BY <1>2, <1>3, <1>4 DEF Good, t

\* An abort ends the reply under way, if there is one, and never with a bad token.
LEMMA AbortedIs ==
  ASSUME NEW s, NEW t \in Aborted(s)
  PROVE  t = s \/ \E kind \in Kinds \ {"token"} : t = Ended(s, kind)
<1>1. CASE s.reply = "sent"
  BY <1>1 DEF Aborted, Kinds, Failures, Whole
<1>2. CASE s.reply = "head"
  BY <1>2 DEF Aborted, Kinds, Failures, Whole
<1>3. CASE s.reply # "sent" /\ s.reply # "head"
  <2>1. Aborted(s) = {s}
    BY <1>3, Zenon DEF Aborted
  <2> QED
    BY <2>1
<1> QED
  BY <1>1, <1>2, <1>3

\* So does an abort's end of the reply, if there is one, which never ends the program.
LEMMA AbortedGood ==
  ASSUME NEW s, Good(s), NEW t \in Aborted(s), s.phase \in {"init", "loop", "run"}
  PROVE  /\ Good(t) /\ t.phase = s.phase /\ t.queries = s.queries
         /\ t.aborted = s.aborted /\ t.stop = s.stop
<1>1. ASSUME NEW kind \in Kinds \ {"token"}, t = Ended(s, kind)
      PROVE  /\ Good(t) /\ t.phase = s.phase /\ t.queries = s.queries
             /\ t.aborted = s.aborted /\ t.stop = s.stop
  BY <1>1, EndedGood, EndedEffect DEF Good
<1> QED
  BY <1>1, AbortedIs

\* A query leaves the timer running.
LEMMA QueryGood ==
  ASSUME NEW s, Good(s), NEW t \in Query(s), s.phase \in {"init", "loop", "run"}
  PROVE  Good(t) /\ t.phase = s.phase /\ t.queries = s.queries /\ t.active
<1>1. PICK u \in Aborted(s) : t = [u EXCEPT !.reply = "sent", !.active = TRUE]
  BY DEF Query
<1>2. Good(u) /\ u.phase = s.phase /\ u.queries = s.queries
  BY <1>1, AbortedGood
<1>3. u \in Api
  BY <1>2 DEF Good
<1>4. /\ t \in Api /\ t.phase = u.phase /\ t.queries = u.queries /\ t.active
      /\ t.loaded = u.loaded /\ t.unusable = u.unusable /\ t.interrupted = u.interrupted
      /\ t.code = u.code /\ t.stop = u.stop /\ t.quitNow = u.quitNow
  BY <1>1, <1>3 DEF Api
<1> QED
  BY <1>2, <1>4 DEF Good, Truthful, Reason, Asking, Ending

\* An abort says so, whatever the end of the reply does to the timer.
LEMMA AbortGood ==
  ASSUME NEW s, Good(s), NEW t \in Abort(s), s.phase \in {"loop", "run"}
  PROVE  Good(t)
<1> DEFINE s0 == [s EXCEPT !.active = FALSE]
<1>1. s \in Api /\ Truthful(s) /\ Ending(s)
  BY DEF Good
<1>2. PICK u \in Aborted(s0) :
        t = [u EXCEPT !.reply = "none", !.aborted = TRUE,
                      !.stop = @ \/ u.phase = "loop",
                      !.code = IF u.phase = "loop" THEN "1" ELSE @]
  BY DEF Abort
<1>3. /\ s0 \in Api /\ s0.phase = s.phase /\ s0.queries = s.queries /\ s0.code = s.code
      /\ s0.loaded = s.loaded /\ s0.unusable = s.unusable /\ s0.interrupted = s.interrupted
      /\ s0.reply = s.reply
  BY <1>1 DEF Api
<1> HIDE DEF s0
<1>4. u = s0 \/ \E kind \in Kinds \ {"token"} : u = Ended(s0, kind)
  BY <1>2, AbortedIs
<1>5. u \in Api /\ u.phase = s.phase /\ u.queries = s.queries /\ (s.loaded => u.loaded)
  BY <1>3, <1>4, EndedEffect
<1> DEFINE stop == u.stop \/ u.phase = "loop"
          code == IF u.phase = "loop" THEN "1" ELSE u.code
<1>6. stop \in BOOLEAN /\ code \in {"none", "0", "1"} /\ (u.phase = "loop" => code = "1")
  BY <1>5 DEF Api
<1>t. t = [u EXCEPT !.reply = "none", !.aborted = TRUE, !.stop = stop, !.code = code]
  BY <1>2
<1> HIDE DEF stop, code
<1>7. /\ t \in Api /\ t.phase = u.phase /\ t.queries = u.queries /\ t.aborted
      /\ t.loaded = u.loaded /\ t.code = code
  BY <1>5, <1>6, <1>t DEF Api
<1>8. Truthful(t)
  BY <1>1, <1>5, <1>6, <1>7 DEF Truthful
<1>9. Asking(t) /\ Ending(t)
  BY <1>1, <1>5, <1>6, <1>7 DEF Asking, Ending
<1> QED
  BY <1>7, <1>8, <1>9 DEF Good

-----------------------------------------------------------------------------
\* A query of init() more, and at the last it does not wait.
LEMMA InitQueryGood ==
  ASSUME Good(api), InitQuery
  PROVE  Good(api')
<1> DEFINE a == [api EXCEPT !.queries = api.queries + 1]
<1>1. api \in Api /\ api.phase = "init" /\ api.queries < MaxQueries
  BY DEF Good, Ending, InitQuery
<1>2. /\ a \in Api /\ a.phase = "init" /\ a.queries = api.queries + 1
  BY <1>1 DEF Api
<1> DEFINE phase(s) == IF s.queries = MaxQueries \/ s.stop \/ s.quitNow THEN "ended" ELSE "loop"
<1>3. PICK s \in Query(a) : api' = [s EXCEPT !.code = "none", !.phase = phase(s)]
  BY DEF InitQuery
<1>4. PICK u \in Aborted(a) : s = [u EXCEPT !.reply = "sent", !.active = TRUE]
  BY DEF Query
<1> HIDE DEF a
<1>5. u = a \/ \E kind \in Kinds \ {"token"} : u = Ended(a, kind)
  BY <1>4, AbortedIs
<1>6. u \in Api /\ u.queries = a.queries
  BY <1>2, <1>5, EndedEffect
<1>7. s \in Api /\ s.queries = a.queries /\ s.active
  BY <1>4, <1>6 DEF Api
<1>8. phase(s) \in {"loop", "ended"} /\ (phase(s) = "loop" => s.queries # MaxQueries /\ ~s.stop /\ ~s.quitNow)
  OBVIOUS
<1> HIDE DEF phase
<1>9. /\ api' \in Api /\ api'.phase = phase(s) /\ api'.queries = s.queries
      /\ api'.active = s.active /\ api'.code = "none" /\ api'.stop = s.stop
      /\ api'.quitNow = s.quitNow
  BY <1>3, <1>7, <1>8 DEF Api
<1>10. api.queries \in Nat /\ MaxQueries \in Nat
  BY <1>1, ConfigAssumption DEF Api
<1>11. Ending(api')
  BY <1>1, <1>2, <1>7, <1>8, <1>9, <1>10 DEF Ending
<1> QED
  BY <1>7, <1>8, <1>9, <1>11 DEF Good, Truthful, Asking

\* The loop returns what it was told.
LEMMA LoopReturnsGood ==
  ASSUME Good(api), LoopReturns
  PROVE  Good(api')
<1> DEFINE phase == IF api.code = "1" THEN "init" ELSE "start"
<1>1. api \in Api /\ api.phase = "loop" /\ api.code # "none" /\ Truthful(api) /\ Asking(api)
      /\ Ending(api) /\ api' = [api EXCEPT !.phase = phase]
  BY DEF Good, LoopReturns
<1>2. phase \in {"init", "start"} /\ (phase = "start" => api.code = "0")
  BY <1>1 DEF Api
<1> HIDE DEF phase
<1>3. /\ api' \in Api /\ api'.phase = phase /\ api'.queries = api.queries
      /\ api'.loaded = api.loaded /\ api'.unusable = api.unusable
      /\ api'.interrupted = api.interrupted /\ api'.active = api.active
      /\ api'.aborted = api.aborted
  BY <1>1, <1>2 DEF Api
<1> QED
  BY <1>1, <1>2, <1>3 DEF Good, Truthful, Reason, Asking, Ending

\* The program runs with coins.
LEMMA StartGood ==
  ASSUME Good(api), Start
  PROVE  Good(api')
<1> DEFINE phase == IF api.loaded THEN "run" ELSE "ended"
<1>1. api \in Api /\ api.phase = "start" /\ Asking(api) /\ Ending(api)
      /\ api' = [api EXCEPT !.phase = phase, !.quitNow = FALSE]
  BY DEF Good, Start
<1>2. phase \in {"run", "ended"} /\ (phase = "run" => api.loaded)
  OBVIOUS
<1> HIDE DEF phase
<1>3. /\ api' \in Api /\ api'.phase = phase /\ api'.queries = api.queries
      /\ api'.loaded = api.loaded /\ api'.active = api.active /\ api'.aborted = api.aborted
  BY <1>1, <1>2 DEF Api
<1> QED
  BY <1>1, <1>2, <1>3 DEF Good, Truthful, Asking, Ending

\* An interrupt is a reason.
LEMMA InterruptGood ==
  ASSUME Good(api), Interrupt
  PROVE  Good(api')
<1> DEFINE code == IF api.phase = "loop" THEN "0" ELSE api.code
          phase == IF api.phase = "run" THEN "ended" ELSE api.phase
<1>1. /\ api \in Api /\ Truthful(api) /\ Asking(api) /\ Ending(api)
      /\ api' = [Quit(api) EXCEPT !.interrupted = TRUE]
  BY DEF Good, Interrupt
<1>2. Quit(api) = [api EXCEPT !.quitNow = TRUE, !.code = code, !.phase = phase]
  BY <1>1 DEF Quit, Api
<1>3. /\ code \in {"none", "0", "1"} /\ phase # "run"
      /\ phase \in {"init", "loop", "start", "ended"} /\ (phase = "ended" \/ phase = api.phase)
      /\ (phase = "loop" => code # "none")
  BY <1>1 DEF Api
<1> HIDE DEF code, phase
<1>4. /\ api' \in Api /\ api'.phase = phase /\ api'.queries = api.queries
      /\ api'.interrupted /\ api'.active = api.active /\ api'.aborted = api.aborted
      /\ api'.code = code
  BY <1>1, <1>2, <1>3 DEF Api
<1> QED
  BY <1>1, <1>3, <1>4 DEF Good, Truthful, Reason, Asking, Ending

\* Every step keeps the inductive invariant.
LEMMA NextGood ==
  ASSUME Good(api), [Next]_vars
  PROVE  Good(api')
<1>0. api \in Api /\ Truthful(api) /\ Asking(api) /\ Ending(api)
  BY DEF Good
<1>1. ASSUME PoolTimer PROVE Good(api')
  <2>1. /\ api' \in Api /\ api'.phase = "loop" /\ api.phase = "loop" /\ api'.code = "1"
        /\ api'.queries = api.queries /\ api'.active = api.active /\ api'.aborted = api.aborted
    BY <1>0, <1>1 DEF PoolTimer, Api
  <2> QED
    BY <1>0, <2>1 DEF Good, Truthful, Asking, Ending
<1>2. ASSUME Timer PROVE Good(api')
  BY <1>2, QueryGood DEF Timer, Looping
<1>3. ASSUME AbortCall PROVE Good(api')
  BY <1>3, AbortGood DEF AbortCall, Looping
<1>4. ASSUME Header PROVE Good(api')
  <2>1. /\ api' \in Api /\ api'.phase = api.phase /\ api'.code = api.code
        /\ api'.queries = api.queries /\ api'.active = api.active /\ api'.aborted = api.aborted
        /\ api'.loaded = api.loaded /\ api'.unusable = api.unusable
        /\ api'.interrupted = api.interrupted /\ api'.stop = api.stop
        /\ api'.quitNow = api.quitNow
    BY <1>0, <1>4 DEF Header, Api
  <2> QED
    BY <1>0, <2>1 DEF Good, Truthful, Reason, Asking, Ending
<1>5. ASSUME NEW kind \in Kinds, Answer(kind) PROVE Good(api')
  BY <1>5, EndedGood DEF Answer, Looping
<1>6. ASSUME UNCHANGED vars PROVE Good(api')
  BY <1>6 DEF vars
<1> QED
  BY <1>1, <1>2, <1>3, <1>4, <1>5, <1>6, InitQueryGood, LoopReturnsGood, StartGood,
     InterruptGood DEF Next, Kinds

\* The inductive invariant.
ConfigInv == Good(api)

\* Every reachable state has it.
THEOREM AlwaysGood == Spec => []ConfigInv
<1>1. Init => ConfigInv
  BY ConfigAssumption DEF Init, ConfigInv, Good, Api, Truthful, Asking, Ending
<1>2. ConfigInv /\ [Next]_vars => ConfigInv'
  BY NextGood DEF ConfigInv
<1> QED
  BY <1>1, <1>2, PTL DEF Spec

\* init() that succeeds has brought the coins, or for one of the reasons has not.
THEOREM SpecInitTellsTruth == Spec => []InitTellsTruth
<1>1. ConfigInv => InitTellsTruth
  BY DEF ConfigInv, Good, Truthful, Reason, InitTellsTruth
<1> QED
  BY <1>1, AlwaysGood, PTL

\* Only an abort stops the timer of the program.
THEOREM SpecKeepsAsking == Spec => []KeepsAsking
<1>1. ConfigInv => KeepsAsking
  BY DEF ConfigInv, Good, Asking, KeepsAsking
<1> QED
  BY <1>1, AlwaysGood, PTL

\* What bounds init(): it makes at most MaxQueries queries and waits for fewer, and once
\* aborted or told to quit, it does not wait for its timer.  (That the loop does return
\* then is a matter of fairness.)
InitBounded ==
  /\ api.queries <= MaxQueries
  /\ api.phase = "loop" => api.queries < MaxQueries
  /\ api.phase = "loop" /\ (api.stop \/ api.quitNow) => api.code # "none"

\* init()'s waits are bounded, with interrupts, aborts and timers in any order.
THEOREM SpecInitBounded == Spec => []InitBounded
<1>1. ConfigInv => InitBounded
  BY DEF ConfigInv, Good, Ending, InitBounded
<1> QED
  BY <1>1, AlwaysGood, PTL

=============================================================================
