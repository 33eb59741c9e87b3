----------------------------- MODULE CoinProofs -----------------------------
(* Proofs about Coin, for any number of coins, calls and queued signals.   *)
EXTENDS Coin, FiniteSetTheorems, FunctionTheorems, TLAPS

Fields == {"coin", "posted", "used", "leaked", "quit"}

\* The shape of the state; the two counters of cores are counted further down.
Shape(s) ==
  /\ s = [x \in Fields |-> s[x]]
  /\ s.coin \in [Coins -> CoinRecord] /\ s.posted \in Seq(Signal) /\ s.quit \in BOOLEAN

\* What holds of each coin by itself.
Sound(k) ==
  /\ k.pool = "none" => k.threads = 0 /\ ~k.listening
  /\ ~k.misled =>
       /\ (k.listening <=> k.threads > 0)
       /\ k.threads > 0 => k.pool = k.merged /\ k.running

Honest(k) ==
  /\ k.cpu = "Running" => k.threads > 0
  /\ k.threads > 0 => k.cpu \in {"Running", "Error"} \/ k.misled

\* The last signal queued for a coin tells the truth; without one, its shown state does.
Of(s, c) == {i \in 1..Len(s.posted) : s.posted[i].coin = c}

Told(s, c) ==
  /\ Of(s, c) = {} => Honest(s.coin[c])
  /\ \A i \in Of(s, c) :
       (\A j \in Of(s, c) : j <= i) => ((s.posted[i].state = "Stopped") <=> (s.coin[c].threads = 0))

Exclusive(s) ==
  \A c, d \in Ether :
    c # d /\ s.coin[c].threads > 0 /\ s.coin[d].threads > 0
    => s.coin[c].misled \/ s.coin[d].misled

Core(s) == Shape(s) /\ Exclusive(s) /\ \A c \in Coins : Sound(s.coin[c])

Good(s) == Core(s) /\ (~s.quit => \A c \in Coins : Told(s, c))

\* Writing one coin keeps the shape of the state.
LEMMA PutShape ==
  ASSUME NEW s, Shape(s), NEW c \in Coins, NEW k \in CoinRecord
  PROVE  /\ Shape(Put(s, c, k))
         /\ Put(s, c, k).coin[c] = k
         /\ \A d \in Coins \ {c} : Put(s, c, k).coin[d] = s.coin[d]
         /\ Put(s, c, k).posted = s.posted
         /\ Put(s, c, k).quit = s.quit
BY DEF Put, Shape, Fields

\* Queueing a signal keeps the shape of the state.
LEMMA PostShape ==
  ASSUME NEW s, Shape(s), NEW c \in Coins, NEW state \in States
  PROVE  /\ Shape(Post(s, c, state))
         /\ Post(s, c, state).coin = s.coin
         /\ Post(s, c, state).posted = Append(s.posted, [coin |-> c, state |-> state])
         /\ Post(s, c, state).quit = s.quit
<1> DEFINE e == [coin |-> c, state |-> state]
<1>1. e \in Signal
  BY DEF Signal, States
<1>2. Append(s.posted, e) \in Seq(Signal)
  BY <1>1 DEF Shape
<1>3. Post(s, c, state) = [s EXCEPT !.posted = Append(s.posted, e)]
  BY DEF Post
<1> HIDE DEF e
<1>4. QED
  BY <1>2, <1>3 DEF Shape, Fields, e

\* What a new signal leaves of the promises: its own coin's is the new one's.
LEMMA PostTold ==
  ASSUME NEW s, Shape(s), NEW t, Shape(t), NEW c \in Coins, NEW state \in States,
         t.posted = Append(s.posted, [coin |-> c, state |-> state]),
         (state = "Stopped") <=> (t.coin[c].threads = 0),
         \A d \in Coins \ {c} : t.coin[d] = s.coin[d] /\ Told(s, d)
  PROVE  \A d \in Coins : Told(t, d)
<1> DEFINE e == [coin |-> c, state |-> state]
          n == Len(s.posted)
<1>1. e \in Signal /\ s.posted \in Seq(Signal) /\ n \in Nat
  BY DEF Signal, States, Shape
<1>2. /\ Len(t.posted) = n + 1
      /\ t.posted[n + 1] = e
      /\ \A i \in 1..n : t.posted[i] = s.posted[i]
  BY <1>1
<1>3. e.coin = c /\ e.state = state
  OBVIOUS
<1> HIDE DEF e, n
<1>4. n + 1 \in Of(t, c) /\ \A i \in Of(t, c) : i \in 1..(n + 1)
  BY <1>1, <1>2, <1>3 DEF Of
<1>5. Told(t, c)
  <2>1. ASSUME NEW i \in Of(t, c), \A j \in Of(t, c) : j <= i
        PROVE  (t.posted[i].state = "Stopped") <=> (t.coin[c].threads = 0)
    <3>1. i = n + 1
      BY <1>1, <1>4, <2>1
    <3> QED
      BY <3>1, <1>2, <1>3
  <2> QED
    BY <2>1, <1>4 DEF Told
<1>6. ASSUME NEW d \in Coins \ {c} PROVE Told(t, d)
  <2>1. Of(t, d) = Of(s, d)
    BY <1>1, <1>2, <1>3 DEF Of, n
  <2>2. \A i \in Of(s, d) : t.posted[i] = s.posted[i]
    BY <1>2 DEF Of, n
  <2>3. t.coin[d] = s.coin[d] /\ Told(s, d)
    OBVIOUS
  <2> QED
    BY <2>1, <2>2, <2>3 DEF Told
<1> QED
  BY <1>5, <1>6

\* A change of a coin that posts nothing and keeps its threads and its shown state.
LEMMA QuietTold ==
  ASSUME NEW s, Shape(s), NEW t, Shape(t), t.posted = s.posted,
         NEW c \in Coins, Told(s, c),
         t.coin[c].threads = s.coin[c].threads,
         Honest(s.coin[c]) => Honest(t.coin[c])
  PROVE  Told(t, c)
BY DEF Told, Of

-----------------------------------------------------------------------------
\* The check of merged mining changes shown states only.
LEMMA CheckMergeShape ==
  ASSUME NEW s, Shape(s)
  PROVE  /\ Shape(CheckMerge(s))
         /\ \A m \in Coins : CheckMerge(s).coin[m] = [s.coin[m] EXCEPT !.cpu = MergeState(s, m)]
         /\ CheckMerge(s).posted = s.posted /\ CheckMerge(s).quit = s.quit
<1> DEFINE f == [m \in Coins |-> [s.coin[m] EXCEPT !.cpu = MergeState(s, m)]]
          t == CheckMerge(s)
<1>1. \A m \in Coins : MergeState(s, m) \in States \cup {"MergedMining"}
  BY DEF MergeState, Shape, CoinRecord, States
<1>2. ASSUME NEW m \in Coins PROVE f[m] \in CoinRecord
  BY <1>1 DEF CoinRecord, Shape
<1>3. f \in [Coins -> CoinRecord]
  BY <1>2
<1>4. t = [s EXCEPT !.coin = f, !.leaked = s.leaked + CoresOf(s, Overtaken(s))]
  BY DEF CheckMerge
<1> HIDE DEF f, t
<1>5. t.coin = f /\ t.posted = s.posted /\ t.quit = s.quit /\ t = [x \in Fields |-> t[x]]
  BY <1>4 DEF Shape, Fields
<1> QED
  BY <1>3, <1>5 DEF Shape, t, f

\* A coin that mines by its settings keeps its shown state; none becomes Running.
LEMMA CheckMergeGood ==
  ASSUME NEW s, Good(s)
  PROVE  Good(CheckMerge(s))
<1> DEFINE t == CheckMerge(s)
<1>0. Shape(s) /\ Exclusive(s) /\ (\A c \in Coins : Sound(s.coin[c]))
      /\ (~s.quit => \A c \in Coins : Told(s, c))
  BY DEF Good, Core
<1>1. /\ Shape(t) /\ t.posted = s.posted /\ t.quit = s.quit
      /\ \A m \in Coins : t.coin[m] = [s.coin[m] EXCEPT !.cpu = MergeState(s, m)]
  BY <1>0, CheckMergeShape
<1> HIDE DEF t
<1>2. ASSUME NEW m \in Coins
      PROVE  /\ t.coin[m].pool = s.coin[m].pool /\ t.coin[m].threads = s.coin[m].threads
             /\ t.coin[m].listening = s.coin[m].listening /\ t.coin[m].misled = s.coin[m].misled
             /\ t.coin[m].merged = s.coin[m].merged /\ t.coin[m].running = s.coin[m].running
             /\ t.coin[m].cpu = MergeState(s, m)
  <2> DEFINE v == MergeState(s, m)
            k == s.coin[m]
  <2>1. k \in CoinRecord
    BY <1>0 DEF Shape
  <2>2. t.coin[m] = [k EXCEPT !.cpu = v]
    BY <1>1
  <2> HIDE DEF v, k
  <2>3. /\ t.coin[m].pool = k.pool /\ t.coin[m].threads = k.threads
        /\ t.coin[m].listening = k.listening /\ t.coin[m].misled = k.misled
        /\ t.coin[m].merged = k.merged /\ t.coin[m].running = k.running
        /\ t.coin[m].cpu = v
    BY <2>1, <2>2 DEF CoinRecord
  <2> QED
    BY <2>3 DEF v, k
<1>3. Exclusive(t)
  BY <1>0, <1>2, CoinAssumption DEF Exclusive
<1>4. ASSUME NEW m \in Coins PROVE Sound(t.coin[m])
  BY <1>0, <1>2 DEF Sound
<1>5. ASSUME NEW m \in Coins, Honest(s.coin[m]) PROVE Honest(t.coin[m])
  BY <1>0, <1>2, <1>5 DEF Honest, Sound, MergeState
<1>6. ~t.quit => \A m \in Coins : Told(t, m)
  BY <1>0, <1>1, <1>2, <1>5, QuietTold
<1> QED
  BY <1>1, <1>3, <1>4, <1>6 DEF Good, Core, t

-----------------------------------------------------------------------------
\* A coin that mines honestly was mining honestly, or no other coin of its family mines.
Alone(s, t, c) ==
  c \in Ether /\ t.coin[c].threads > 0 /\ ~t.coin[c].misled =>
    \/ s.coin[c].threads > 0 /\ ~s.coin[c].misled
    \/ \A d \in Ether \ {c} : s.coin[d].threads = 0

\* One coin changes: what is left to show of it.
LEMMA OneCoinCore ==
  ASSUME NEW s, Core(s), NEW t, Shape(t), NEW c \in Coins,
         \A d \in Coins \ {c} : t.coin[d] = s.coin[d],
         Sound(t.coin[c]), Alone(s, t, c)
  PROVE  Core(t)
<1>0. Shape(s) /\ Exclusive(s) /\ (\A d \in Coins : Sound(s.coin[d]))
  BY DEF Core
<1>1. \A d \in Coins : Sound(t.coin[d])
  BY <1>0
<1>2. \A d \in Coins : s.coin[d].threads \in Nat /\ t.coin[d].threads \in Nat
  BY <1>0, CoinAssumption DEF Shape, CoinRecord
<1>3. ASSUME NEW d \in Ether, NEW e \in Ether, d # e,
             t.coin[d].threads > 0, t.coin[e].threads > 0
      PROVE  t.coin[d].misled \/ t.coin[e].misled
  <2>0. d \in Coins /\ e \in Coins
    BY CoinAssumption
  <2>1. CASE d # c /\ e # c
    <3>1. t.coin[d] = s.coin[d] /\ t.coin[e] = s.coin[e]
      BY <2>0, <2>1
    <3> QED
      BY <3>1, <1>0, <1>3 DEF Exclusive
  <2>2. CASE d = c
    <3>1. t.coin[e] = s.coin[e]
      BY <2>0, <2>2, <1>3
    <3>2. ~s.coin[c].misled /\ s.coin[c].threads > 0 => s.coin[e].misled
      BY <3>1, <2>2, <1>0, <1>3 DEF Exclusive
    <3> QED
      BY <3>1, <3>2, <2>2, <1>2, <1>3, <2>0 DEF Alone
  <2>3. CASE e = c
    <3>1. t.coin[d] = s.coin[d]
      BY <2>0, <2>3, <1>3
    <3>2. ~s.coin[c].misled /\ s.coin[c].threads > 0 => s.coin[d].misled
      BY <3>1, <2>3, <1>0, <1>3 DEF Exclusive
    <3> QED
      BY <3>1, <3>2, <2>3, <1>2, <1>3, <2>0 DEF Alone
  <2> QED
    BY <2>1, <2>2, <2>3
<1>4. Exclusive(t)
  BY <1>3 DEF Exclusive
<1> QED
  BY <1>1, <1>4 DEF Core

\* ... and, for a change that queues at most one signal, what is told of the coin.
LEMMA OneCoin ==
  ASSUME NEW s, Good(s), NEW t, Shape(t), t.quit = s.quit, NEW c \in Coins,
         \A d \in Coins \ {c} : t.coin[d] = s.coin[d],
         Sound(t.coin[c]), Alone(s, t, c),
         ~s.quit =>
           \/ t.posted = s.posted /\ Told(t, c)
           \/ \E state \in States :
                /\ t.posted = Append(s.posted, [coin |-> c, state |-> state])
                /\ (state = "Stopped") <=> (t.coin[c].threads = 0)
  PROVE  Good(t)
<1>0. Shape(s) /\ Exclusive(s) /\ (\A d \in Coins : Sound(s.coin[d]))
      /\ (~s.quit => \A d \in Coins : Told(s, d))
  BY DEF Good, Core
<1>1. Core(t)
  BY OneCoinCore DEF Good
<1>5. ASSUME ~t.quit PROVE \A d \in Coins : Told(t, d)
  <2>0. (\A d \in Coins : Told(s, d)) /\ ~s.quit
    BY <1>0, <1>5
  <2>1. CASE t.posted = s.posted /\ Told(t, c)
    <3>1. ASSUME NEW d \in Coins \ {c} PROVE Told(t, d)
      <4>1. t.coin[d] = s.coin[d] /\ Told(s, d)
        BY <2>0
      <4> QED
        BY <4>1, <2>1, <1>0, QuietTold
    <3> QED
      BY <3>1, <2>1
  <2>2. CASE \E state \in States :
               /\ t.posted = Append(s.posted, [coin |-> c, state |-> state])
               /\ (state = "Stopped") <=> (t.coin[c].threads = 0)
    BY <2>0, <2>2, <1>0, PostTold
  <2> QED
    BY <2>0, <2>1, <2>2
<1> QED
  BY <1>1, <1>5 DEF Good

\* stopCpu, with or without waiting, leaves a coin without workers.
LEMMA StopGood ==
  ASSUME NEW s, Good(s), NEW c \in Coins, NEW sync \in BOOLEAN
  PROVE  /\ Good(StopCpu(s, c, sync))
         /\ StopCpu(s, c, sync).coin[c].threads = 0
         /\ \A d \in Coins \ {c} : StopCpu(s, c, sync).coin[d] = s.coin[d]
         /\ StopCpu(s, c, sync).quit = s.quit
<1> DEFINE k0 == s.coin[c]
          k1 == [k0 EXCEPT !.timer = FALSE, !.running = k0.running /\ sync]
          s1 == Put(s, c, k1)
          k2 == [k1 EXCEPT !.threads = 0, !.listening = FALSE, !.misled = FALSE]
          s2 == Put(s1, c, k2)
          t == Post(s2, c, "Stopped")
<1>0. Shape(s) /\ Sound(k0) /\ (~s.quit => Told(s, c))
  BY DEF Good, Core
<1>1. k0 \in CoinRecord
  BY <1>0 DEF Shape
<1>2. k1 \in CoinRecord
  BY <1>1 DEF CoinRecord
<1>3. k2 \in CoinRecord
  <2>1. 0 \in 0..MaxCores
    BY CoinAssumption
  <2> HIDE DEF k1
  <2> QED
    BY <1>2, <2>1 DEF CoinRecord
<1> HIDE DEF k0
<1>4. k1.pool = k0.pool /\ k1.threads = k0.threads /\ k1.listening = k0.listening
      /\ k1.misled = k0.misled /\ k1.cpu = k0.cpu /\ k1.merged = k0.merged
  BY <1>1 DEF CoinRecord
<1>5. k2.threads = 0 /\ k2.listening = FALSE /\ k2.misled = FALSE
  BY <1>2 DEF CoinRecord
<1> HIDE DEF k1
<1>6. /\ Shape(s1) /\ s1.coin[c] = k1 /\ s1.posted = s.posted /\ s1.quit = s.quit
      /\ \A d \in Coins \ {c} : s1.coin[d] = s.coin[d]
  BY <1>0, <1>2, PutShape
<1>7. StopCpu(s, c, sync) = IF k1.pool = "none" THEN s1 ELSE t
  <2>1. StopCpu(s, c, sync) = ImplStop(s1, c, sync)
    BY DEF StopCpu, s1, k1, k0
  <2> HIDE DEF s1
  <2> QED
    BY <2>1, <1>6 DEF ImplStop
<1> HIDE DEF s1, k2
<1>8. CASE k1.pool = "none"
  <2>1. k0.threads = 0 /\ ~k0.listening
    BY <1>0, <1>4, <1>8 DEF Sound
  <2>2. Sound(k1) /\ k1.threads = 0
    BY <2>1, <1>4 DEF Sound
  <2>3. Honest(k0) => Honest(k1)
    BY <1>4 DEF Honest
  <2>4. ~s.quit => Told(s1, c)
    BY <2>3, <1>0, <1>4, <1>6, QuietTold DEF k0
  <2>5. Alone(s, s1, c)
    BY <2>2, <1>6 DEF Alone
  <2>6. Good(s1)
    BY <2>2, <2>4, <2>5, <1>6, OneCoin
  <2> QED
    BY <2>2, <2>6, <1>6, <1>7, <1>8
<1>9. CASE k1.pool # "none"
  <2>1. /\ Shape(s2) /\ s2.coin[c] = k2 /\ s2.posted = s.posted /\ s2.quit = s.quit
        /\ \A d \in Coins \ {c} : s2.coin[d] = s.coin[d]
    BY <1>3, <1>6, PutShape
  <2> HIDE DEF s2
  <2>2. "Stopped" \in States
    BY DEF States
  <2>3. /\ Shape(t) /\ t.coin = s2.coin /\ t.quit = s.quit
        /\ t.posted = Append(s.posted, [coin |-> c, state |-> "Stopped"])
    BY <2>1, <2>2, PostShape
  <2> HIDE DEF t
  <2>4. t.coin[c] = k2 /\ \A d \in Coins \ {c} : t.coin[d] = s.coin[d]
    BY <2>1, <2>3
  <2>5. Sound(k2)
    BY <1>5 DEF Sound
  <2>6. Alone(s, t, c)
    BY <1>5, <2>4 DEF Alone
  <2>7. Good(t)
    BY <1>5, <2>2, <2>3, <2>4, <2>5, <2>6, OneCoin
  <2> QED
    BY <1>5, <1>7, <1>9, <2>3, <2>4, <2>7
<1> QED
  BY <1>8, <1>9

\* The exclusion leaves no other coin of the Ethereum family with workers.
LEMMA ExcludeGood ==
  ASSUME NEW s, Good(s), NEW c \in Coins
  PROVE  /\ Good(Exclude(s, c)) /\ Exclude(s, c).quit = s.quit
         /\ c \in Ether => \A d \in Ether \ {c} : Exclude(s, c).coin[d].threads = 0
<1>1. CASE c \in Ether /\ Ether \ {c} # {}
  <2> DEFINE d == CHOOSE d \in Ether \ {c} : TRUE
  <2>1. d \in Ether \ {c}
    BY <1>1
  <2>2. Exclude(s, c) = StopCpu(s, d, TRUE)
    BY <1>1 DEF Exclude
  <2> HIDE DEF d
  <2>3. d \in Coins /\ \A e \in Ether \ {c} : e = d
    BY <1>1, <2>1, CoinAssumption
  <2>4. /\ Good(StopCpu(s, d, TRUE)) /\ StopCpu(s, d, TRUE).coin[d].threads = 0
        /\ StopCpu(s, d, TRUE).quit = s.quit
    BY <2>3, StopGood
  <2> QED
    BY <2>2, <2>3, <2>4
<1>2. CASE ~(c \in Ether /\ Ether \ {c} # {})
  BY <1>2 DEF Exclude
<1> QED
  BY <1>1, <1>2

\* startCpu: the coin mines on its pool, alone in its family.
LEMMA StartGood ==
  ASSUME NEW s, Good(s), NEW c \in Coins
  PROVE  Good(StartCpu(s, c))
<1> DEFINE x == Exclude(s, c)
          k0 == x.coin[c]
          k1 == [k0 EXCEPT !.timer = TRUE, !.running = TRUE]
          x1 == Put(x, c, k1)
          n == IF k1.threads < k1.cores THEN k1.cores ELSE k1.threads
          h == k1.listening /\ k1.pool # k1.merged
          k2 == [k1 EXCEPT !.pool = k1.merged, !.listening = TRUE, !.threads = n, !.misled = h]
          x2 == Put(x1, c, k2)
          t == Post(x2, c, "Running")
<1>0. /\ Good(x) /\ x.quit = s.quit
      /\ c \in Ether => \A d \in Ether \ {c} : x.coin[d].threads = 0
  BY ExcludeGood
<1>s. StartCpu(s, c) = ImplStart(x1, c)
  BY DEF StartCpu
<1> HIDE DEF x
<1>1. Shape(x) /\ k0 \in CoinRecord
  BY <1>0 DEF Good, Core, Shape
<1> HIDE DEF k0
<1>2. k1 \in CoinRecord /\ k1.running = TRUE
  BY <1>1 DEF CoinRecord
<1> HIDE DEF k1
<1>3. k1.merged \in Pools /\ k1.cores \in 1..MaxCores /\ k1.threads \in 0..MaxCores
  BY <1>2 DEF CoinRecord, Pools
<1>4. n \in 0..MaxCores /\ n > 0 /\ h \in BOOLEAN
  BY <1>3, <1>2, CoinAssumption DEF CoinRecord
<1> HIDE DEF n, h
<1>5. k2 \in CoinRecord
  BY <1>2, <1>3, <1>4 DEF CoinRecord
<1>6. k2.pool = k1.merged /\ k2.merged = k1.merged /\ k2.listening = TRUE /\ k2.threads = n
      /\ k2.misled = h /\ k2.running = TRUE
  BY <1>2 DEF CoinRecord
<1>7. /\ Shape(x1) /\ x1.coin[c] = k1 /\ x1.posted = x.posted /\ x1.quit = x.quit
      /\ \A d \in Coins \ {c} : x1.coin[d] = x.coin[d]
  BY <1>1, <1>2, PutShape
<1> HIDE DEF x1
<1>8. ImplStart(x1, c) = t
  BY <1>7 DEF ImplStart, CurrentPool, n, h
<1> HIDE DEF k2
<1>9. /\ Shape(x2) /\ x2.coin[c] = k2 /\ x2.posted = x.posted /\ x2.quit = x.quit
      /\ \A d \in Coins \ {c} : x2.coin[d] = x.coin[d]
  BY <1>5, <1>7, PutShape
<1> HIDE DEF x2
<1>10. "Running" \in States
  BY DEF States
<1>11. /\ Shape(t) /\ t.coin = x2.coin /\ t.quit = x.quit
       /\ t.posted = Append(x.posted, [coin |-> c, state |-> "Running"])
  BY <1>9, <1>10, PostShape
<1> HIDE DEF t
<1>12. t.coin[c] = k2 /\ (\A d \in Coins \ {c} : t.coin[d] = x.coin[d]) /\ t.coin[c].threads # 0
  BY <1>4, <1>6, <1>9, <1>11
<1>13. Sound(k2)
  <2>1. k2.pool # "none"
    BY <1>2, <1>6, CoinAssumption DEF CoinRecord
  <2> QED
    BY <2>1, <1>4, <1>6 DEF Sound
<1>14. Alone(x, t, c)
  BY <1>0 DEF Alone
<1> QED
  BY <1>0, <1>s, <1>8, <1>10, <1>11, <1>12, <1>13, <1>14, OneCoin

\* A coin whose client moves: the threads and the shown state stay.
LEMMA SwitchCore ==
  ASSUME NEW s, Shape(s), NEW c \in Coins, NEW r, Core(r),
         \A d \in Coins \ {c} : r.coin[d] = s.coin[d],
         r.coin[c].threads = s.coin[c].threads, r.coin[c].running = s.coin[c].running,
         r.coin[c].misled = s.coin[c].misled, r.coin[c].listening = s.coin[c].listening
  PROVE  LET t == SwitchToPool(s, c)
         IN  /\ Core(t) /\ t.posted = s.posted /\ t.quit = s.quit
             /\ \A d \in Coins \ {c} : t.coin[d] = s.coin[d]
             /\ t.coin[c].threads = s.coin[c].threads /\ t.coin[c].cpu = s.coin[c].cpu
             /\ Honest(s.coin[c]) => Honest(t.coin[c])
<1> DEFINE k == s.coin[c]
          h == k.misled \/ k.threads = 0
          k1 == [k EXCEPT !.pool = k.merged, !.listening = TRUE, !.misled = h]
          t == Put(s, c, k1)
<1>0. Shape(r) /\ Sound(r.coin[c])
  BY DEF Core
<1>1. k \in CoinRecord
  BY DEF Shape
<1>2. SwitchToPool(s, c) = IF k.pool = k.merged THEN s ELSE t
  BY DEF SwitchToPool, CurrentPool
<1>3. /\ r.coin[c].threads = k.threads /\ r.coin[c].misled = k.misled
      /\ r.coin[c].listening = k.listening /\ r.coin[c].running = k.running
  OBVIOUS
<1>k. s.coin[c] = k
  OBVIOUS
<1> HIDE DEF k
<1>4. h \in BOOLEAN /\ k.merged \in Pools /\ k.threads \in 0..MaxCores /\ k.merged # "none"
  BY <1>1, CoinAssumption DEF CoinRecord, Pools
<1>h. h <=> (k.misled \/ k.threads = 0)
  OBVIOUS
<1> HIDE DEF h
<1>5. k1 \in CoinRecord
  BY <1>1, <1>4 DEF CoinRecord
<1>6. /\ k1.pool = k.merged /\ k1.merged = k.merged /\ k1.listening = TRUE /\ k1.misled = h
      /\ k1.threads = k.threads /\ k1.cpu = k.cpu /\ k1.running = k.running
  BY <1>1 DEF CoinRecord
<1> HIDE DEF k1
<1>7. /\ Shape(t) /\ t.coin[c] = k1 /\ t.posted = s.posted /\ t.quit = s.quit
      /\ \A d \in Coins \ {c} : t.coin[d] = s.coin[d]
  BY <1>5, PutShape
<1> HIDE DEF t
<1>8. CASE k.pool = k.merged
  <2>2. Sound(s.coin[c])
    BY <1>k, <1>0, <1>3, <1>4, <1>8 DEF Sound
  <2>3. Alone(r, s, c)
    BY <1>3, <1>k DEF Alone
  <2>5. Core(s)
    BY <2>2, <2>3, OneCoinCore
  <2> QED
    BY <2>5, <1>2, <1>8
<1>9. CASE k.pool # k.merged
  <2>2. Sound(t.coin[c])
    BY <1>0, <1>3, <1>4, <1>h, <1>6, <1>7 DEF Sound
  <2>3. Alone(r, t, c)
    BY <1>3, <1>4, <1>6, <1>7, <1>h DEF Alone
  <2>4. Honest(s.coin[c]) => Honest(t.coin[c])
    BY <1>k, <1>4, <1>6, <1>7, <1>h DEF Honest
  <2>5. Core(t)
    BY <2>2, <2>3, <1>7, OneCoinCore
  <2> QED
    BY <2>4, <2>5, <1>2, <1>6, <1>7, <1>9, <1>k
<1> QED
  BY <1>8, <1>9

\* setMergedMining: a coin shown as running moves, another waits and is misled.
LEMMA SetMergedGood ==
  ASSUME NEW s, Good(s), NEW c \in Coins, NEW m \in Partners(c)
  PROVE  Good(SetMergedMining(s, c, m))
<1> DEFINE k0 == s.coin[c]
          k == [k0 EXCEPT !.merged = m]
          k1 == [k EXCEPT !.pool = IF k.pool = "none" THEN k.merged ELSE k.pool]
          h == k.misled \/ k.threads > 0
          k2 == [k EXCEPT !.misled = h]
          s1 == Put(s, c, k1)
          s2 == Put(s, c, k2)
<1>0. Shape(s) /\ Sound(k0) /\ (~s.quit => Told(s, c))
  BY DEF Good, Core
<1>1. k0 \in CoinRecord
  BY <1>0 DEF Shape
<1>k. s.coin[c] = k0
  OBVIOUS
<1>d. SetMergedMining(s, c, m) = IF k.cpu = "Running" THEN SwitchToPool(s1, c) ELSE s2
  BY DEF SetMergedMining, Made, CurrentPool
<1> HIDE DEF k0
<1>2. k \in CoinRecord
  BY <1>1, CoinAssumption DEF CoinRecord, Partners
<1>3. /\ k.merged = m /\ k.pool = k0.pool /\ k.threads = k0.threads /\ k.listening = k0.listening
      /\ k.misled = k0.misled /\ k.cpu = k0.cpu /\ k.running = k0.running
  BY <1>1 DEF CoinRecord
<1> HIDE DEF k
<1>4. CASE k.cpu = "Running" /\ k.pool # "none"
  <2>1. k1 = k
    BY <1>2, <1>4 DEF CoinRecord
  <2> HIDE DEF k1
  <2>2. /\ Shape(s1) /\ s1.coin[c] = k /\ s1.posted = s.posted /\ s1.quit = s.quit
        /\ \A d \in Coins \ {c} : s1.coin[d] = s.coin[d]
    BY <1>0, <1>2, <2>1, PutShape
  <2> HIDE DEF s1
  <2> DEFINE x == SwitchToPool(s1, c)
  <2>3. /\ Core(x) /\ x.posted = s1.posted /\ x.quit = s.quit
        /\ x.coin[c].threads = k.threads /\ (Honest(k) => Honest(x.coin[c]))
        /\ \A d \in Coins \ {c} : x.coin[d] = s.coin[d]
    BY <1>k, <1>3, <1>4, <2>2, SwitchCore DEF Good
  <2> HIDE DEF x
  <2>4. Honest(k0) => Honest(k)
    BY <1>3 DEF Honest
  <2>5. ASSUME ~x.quit, NEW d \in Coins PROVE Told(x, d)
    <3>1. Told(s, d) /\ Shape(x)
      BY <2>3, <2>5 DEF Good, Core
    <3>2. x.coin[d].threads = s.coin[d].threads /\ (Honest(s.coin[d]) => Honest(x.coin[d]))
      <4>1. CASE d = c
        BY <4>1, <1>k, <1>3, <2>3, <2>4
      <4>2. CASE d # c
        BY <4>2, <2>3
      <4> QED
        BY <4>1, <4>2
    <3> QED
      BY <1>0, <2>2, <2>3, <3>1, <3>2, QuietTold
  <2> QED
    BY <1>d, <1>4, <2>3, <2>5 DEF Good, x
<1>5. CASE k.cpu = "Running" /\ k.pool = "none"
  <2>1. k1 \in CoinRecord
    BY <1>2, <1>5 DEF CoinRecord, Pools
  <2>2. /\ k1.pool = k1.merged /\ k1.threads = k.threads /\ k1.listening = k.listening
        /\ k1.misled = k.misled /\ k1.cpu = k.cpu /\ k1.merged = k.merged
    BY <1>2, <1>5 DEF CoinRecord
  <2> HIDE DEF k1
  <2>3. /\ Shape(s1) /\ s1.coin[c] = k1 /\ s1.posted = s.posted /\ s1.quit = s.quit
        /\ \A d \in Coins \ {c} : s1.coin[d] = s.coin[d]
    BY <1>0, <2>1, PutShape
  <2> HIDE DEF s1
  <2>4. SwitchToPool(s1, c) = s1
    BY <2>2, <2>3 DEF SwitchToPool, CurrentPool
  <2>5. k1.threads = 0 /\ ~k1.listening
    BY <1>0, <1>3, <1>5, <2>2 DEF Sound
  <2>6. Sound(k1)
    BY <2>5 DEF Sound
  <2>7. Alone(s, s1, c)
    BY <2>3, <2>5 DEF Alone
  <2>8. ~s.quit => Told(s1, c)
    <3>1. Honest(s.coin[c]) => Honest(s1.coin[c])
      BY <1>k, <1>3, <2>2, <2>3 DEF Honest
    <3> QED
      BY <1>0, <1>k, <1>3, <2>2, <2>3, <3>1, QuietTold
  <2>9. Good(s1)
    BY <2>3, <2>6, <2>7, <2>8, OneCoin
  <2> QED
    BY <1>d, <1>5, <2>4, <2>9
<1>6. CASE k.cpu # "Running"
  <2>0. h \in BOOLEAN /\ (h <=> (k.misled \/ k.threads > 0))
    BY <1>2 DEF CoinRecord
  <2> HIDE DEF h
  <2>1. k2 \in CoinRecord
    BY <1>2, <2>0 DEF CoinRecord
  <2>2. /\ k2.pool = k.pool /\ k2.threads = k.threads /\ k2.listening = k.listening
        /\ k2.misled = h /\ k2.cpu = k.cpu
    BY <1>2 DEF CoinRecord
  <2> HIDE DEF k2
  <2>3. /\ Shape(s2) /\ s2.coin[c] = k2 /\ s2.posted = s.posted /\ s2.quit = s.quit
        /\ \A d \in Coins \ {c} : s2.coin[d] = s.coin[d]
    BY <1>0, <2>1, PutShape
  <2> HIDE DEF s2
  <2>6. Sound(k2)
    BY <1>0, <1>3, <2>0, <2>2 DEF Sound
  <2>7. Alone(s, s2, c)
    BY <2>0, <2>2, <2>3 DEF Alone
  <2>8. ~s.quit => Told(s2, c)
    <3>1. Honest(s.coin[c]) => Honest(s2.coin[c])
      BY <1>k, <1>3, <2>0, <2>2, <2>3 DEF Honest
    <3> QED
      BY <1>0, <1>k, <1>3, <2>2, <2>3, <3>1, QuietTold
  <2>9. Good(s2)
    BY <2>3, <2>6, <2>7, <2>8, OneCoin
  <2> QED
    BY <1>d, <1>6, <2>9
<1> QED
  BY <1>4, <1>5, <1>6

\* setCpuCores: a coin shown as running that had no workers left is misled.
LEMMA SetCoresGood ==
  ASSUME NEW s, Good(s), NEW c \in Coins, NEW n \in 1..MaxCores
  PROVE  Good(SetCpuCores(s, c, n))
<1> DEFINE k0 == s.coin[c]
          k == [k0 EXCEPT !.cores = n]
          w == Put(s, c, k)
          u == [w EXCEPT !.used = s.used - k0.cores + n]
          k1 == [k EXCEPT !.pool = IF k.pool = "none" THEN k.merged ELSE k.pool]
          h == k1.misled \/ k1.threads = 0
          k2 == [k1 EXCEPT !.threads = n, !.misled = h]
          r == Put(u, c, k2)
          t == Post(r, c, "Running")
<1>0. Shape(s) /\ Sound(k0) /\ (~s.quit => Told(s, c))
  BY DEF Good, Core
<1>1. k0 \in CoinRecord
  BY <1>0 DEF Shape
<1>k. s.coin[c] = k0
  OBVIOUS
<1>d. SetCpuCores(s, c, n) = CheckMerge(IF k0.cpu = "Running" THEN ImplResize(u, c, n) ELSE w)
  BY DEF SetCpuCores
<1> HIDE DEF k0
<1>2. k \in CoinRecord
  BY <1>1 DEF CoinRecord
<1>3. /\ k.merged = k0.merged /\ k.pool = k0.pool /\ k.threads = k0.threads
      /\ k.listening = k0.listening /\ k.misled = k0.misled /\ k.cpu = k0.cpu
      /\ k.running = k0.running
  BY <1>1 DEF CoinRecord
<1> HIDE DEF k
<1>4. /\ Shape(w) /\ w.coin[c] = k /\ w.posted = s.posted /\ w.quit = s.quit
      /\ \A d \in Coins \ {c} : w.coin[d] = s.coin[d]
  BY <1>0, <1>2, PutShape
<1> HIDE DEF w
<1>5. CASE k0.cpu # "Running"
  <2>1. Sound(k)
    BY <1>0, <1>3 DEF Sound
  <2>2. Alone(s, w, c)
    BY <1>3, <1>4, <1>k DEF Alone
  <2>3. ~s.quit => Told(w, c)
    <3>1. Honest(s.coin[c]) => Honest(w.coin[c])
      BY <1>k, <1>3, <1>4 DEF Honest
    <3> QED
      BY <1>0, <1>k, <1>3, <1>4, <3>1, QuietTold
  <2>4. Good(w)
    BY <1>4, <2>1, <2>2, <2>3, OneCoin
  <2> QED
    BY <1>d, <1>5, <2>4, CheckMergeGood
<1>6. CASE k0.cpu = "Running"
  <2>1. /\ Shape(u) /\ u.coin = w.coin /\ u.posted = s.posted /\ u.quit = s.quit
    BY <1>4 DEF Shape, Fields
  <2> HIDE DEF u
  <2>2. k1 \in CoinRecord
    BY <1>2 DEF CoinRecord, Pools
  <2>3. /\ k1.merged = k.merged /\ k1.threads = k.threads
        /\ k1.listening = k.listening /\ k1.misled = k.misled
        /\ k1.running = k.running /\ k1.pool # "none"
        /\ (k.pool # "none" => k1.pool = k.pool)
    BY <1>2, CoinAssumption DEF CoinRecord
  <2>4. ImplResize(u, c, n) = t
    BY <1>4, <2>1 DEF ImplResize, Made, CurrentPool
  <2> HIDE DEF k1
  <2>5. h \in BOOLEAN /\ (h <=> (k1.misled \/ k1.threads = 0)) /\ n \in 0..MaxCores /\ n > 0
    BY <2>2, CoinAssumption DEF CoinRecord
  <2> HIDE DEF h
  <2>6. k2 \in CoinRecord
    BY <2>2, <2>5 DEF CoinRecord
  <2>7. /\ k2.merged = k1.merged /\ k2.threads = n /\ k2.pool = k1.pool
        /\ k2.listening = k1.listening /\ k2.misled = h /\ k2.running = k1.running
    BY <2>2 DEF CoinRecord
  <2> HIDE DEF k2
  <2>8. /\ Shape(r) /\ r.coin[c] = k2 /\ r.posted = s.posted /\ r.quit = s.quit
        /\ \A d \in Coins \ {c} : r.coin[d] = s.coin[d]
    BY <1>4, <2>1, <2>6, PutShape
  <2> HIDE DEF r
  <2>9. "Running" \in States
    BY DEF States
  <2>10. /\ Shape(t) /\ t.coin = r.coin /\ t.quit = s.quit
         /\ t.posted = Append(s.posted, [coin |-> c, state |-> "Running"])
    BY <2>8, <2>9, PostShape
  <2> HIDE DEF t
  <2>11. t.coin[c] = k2 /\ (\A d \in Coins \ {c} : t.coin[d] = s.coin[d]) /\ t.coin[c].threads # 0
    BY <2>5, <2>7, <2>8, <2>10
  <2>12. k1.threads \in Nat /\ (k1.threads > 0 => k.pool # "none")
    BY <1>0, <1>3, <2>2, <2>3, CoinAssumption DEF Sound, CoinRecord
  <2>13. Sound(k2)
    BY <1>0, <1>3, <2>3, <2>5, <2>7, <2>12 DEF Sound
  <2>14. Alone(s, t, c)
    BY <1>k, <1>3, <2>3, <2>5, <2>7, <2>11, <2>12 DEF Alone
  <2>15. Good(t)
    BY <2>9, <2>10, <2>11, <2>13, <2>14, OneCoin
  <2> QED
    BY <1>d, <1>6, <2>4, <2>15, CheckMergeGood
<1> QED
  BY <1>5, <1>6

-----------------------------------------------------------------------------
\* The oldest signal leaves the queue: its coin is promised what it says.
LEMMA TailTold ==
  ASSUME NEW s, Shape(s), s.posted # <<>>, NEW t, Shape(t), t.posted = Tail(s.posted),
         NEW c \in Coins, Told(s, c), t.coin[c].threads = s.coin[c].threads,
         IF c = Head(s.posted).coin
           THEN ((Head(s.posted).state = "Stopped") <=> (s.coin[c].threads = 0)) => Honest(t.coin[c])
           ELSE Honest(s.coin[c]) => Honest(t.coin[c])
  PROVE  Told(t, c)
<1> DEFINE n == Len(s.posted)
<1>1. s.posted \in Seq(Signal)
  BY DEF Shape
<1>2. /\ n \in Nat /\ n > 0 /\ Len(t.posted) = n - 1 /\ Head(s.posted) = s.posted[1]
      /\ \A i \in 1..(n - 1) : t.posted[i] = s.posted[i + 1]
  BY <1>1
<1> HIDE DEF n
<1>3. \A i \in Of(t, c) : i \in 1..(n - 1) /\ i + 1 \in Of(s, c)
  BY <1>2 DEF Of, n
<1>4. \A i \in Of(s, c) : i \in 1..n /\ (i # 1 => i - 1 \in Of(t, c))
  <2>1. ASSUME NEW i \in Of(s, c), i # 1
        PROVE  i - 1 \in Of(t, c)
    <3>1. i \in 1..n /\ s.posted[i].coin = c
      BY DEF Of, n
    <3>2. i - 1 \in 1..(n - 1) /\ (i - 1) + 1 = i
      BY <3>1, <2>1, <1>2
    <3>3. t.posted[i - 1] = s.posted[i]
      BY <3>2, <1>2
    <3> QED
      BY <3>1, <3>2, <3>3, <1>2 DEF Of
  <2> QED
    BY <2>1 DEF Of, n
<1>5. ASSUME Of(t, c) = {} PROVE Honest(t.coin[c])
  <2>1. \A i \in Of(s, c) : i = 1
    BY <1>4, <1>5
  <2>2. CASE c = Head(s.posted).coin
    <3>1. 1 \in Of(s, c)
      BY <1>2, <2>2 DEF Of, n
    <3>2. \A j \in Of(s, c) : j <= 1
      BY <2>1
    <3>3. (s.posted[1].state = "Stopped") <=> (s.coin[c].threads = 0)
      BY <3>1, <3>2 DEF Told
    <3> QED
      BY <3>3, <1>2, <2>2
  <2>3. CASE c # Head(s.posted).coin
    <3>1. 1 \notin Of(s, c)
      BY <1>2, <2>3 DEF Of
    <3>2. Of(s, c) = {}
      BY <3>1, <2>1
    <3> QED
      BY <3>2, <2>3 DEF Told
  <2> QED
    BY <2>2, <2>3
<1>6. ASSUME NEW i \in Of(t, c), \A j \in Of(t, c) : j <= i
      PROVE  (t.posted[i].state = "Stopped") <=> (t.coin[c].threads = 0)
  <2>1. i \in 1..(n - 1) /\ i + 1 \in Of(s, c) /\ t.posted[i] = s.posted[i + 1]
    BY <1>2, <1>3
  <2>2. ASSUME NEW j \in Of(s, c) PROVE j <= i + 1
    <3>1. j \in 1..n /\ (j # 1 => j - 1 <= i)
      BY <1>4, <1>6
    <3> QED
      BY <3>1, <2>1, <1>2
  <2>3. (s.posted[i + 1].state = "Stopped") <=> (s.coin[c].threads = 0)
    BY <2>1, <2>2 DEF Told
  <2> QED
    BY <2>1, <2>3
<1> QED
  BY <1>5, <1>6 DEF Told

\* The state a signal or an error shows.
LEMMA ShowShape ==
  ASSUME NEW s, Shape(s), NEW c \in Coins, NEW state \in States
  PROVE  LET t == ShowState(s, c, state)
         IN  /\ Shape(t) /\ t.posted = s.posted /\ t.quit = s.quit
             /\ \A d \in Coins \ {c} : t.coin[d] = s.coin[d]
             /\ t.coin[c] = [s.coin[c] EXCEPT !.cpu = state]
<1> DEFINE k == s.coin[c]
          p == Put(s, c, [k EXCEPT !.cpu = state])
          u == CASE state = "Running" -> s.used + k.cores
                 [] state # "Running" /\ k.cpu = "Running" -> s.used - k.cores
                 [] OTHER -> s.used
          t == [p EXCEPT !.used = u]
<1>1. k \in CoinRecord
  BY DEF Shape
<1> HIDE DEF k
<1>2. [k EXCEPT !.cpu = state] \in CoinRecord
  BY <1>1 DEF CoinRecord, States
<1>3. /\ Shape(p) /\ p.posted = s.posted /\ p.quit = s.quit
      /\ \A d \in Coins \ {c} : p.coin[d] = s.coin[d]
      /\ p.coin[c] = [k EXCEPT !.cpu = state]
  BY <1>2, PutShape
<1>4. ShowState(s, c, state) = t
  BY DEF ShowState, k
<1> HIDE DEF p, u
<1>5. Shape(t) /\ t.coin = p.coin /\ t.posted = p.posted /\ t.quit = p.quit
  BY <1>3 DEF Shape, Fields
<1> HIDE DEF t
<1> QED
  BY <1>3, <1>4, <1>5 DEF k

\* Showing a state moves neither workers nor clients.
LEMMA ShowCore ==
  ASSUME NEW s, Core(s), NEW c \in Coins, NEW state \in States
  PROVE  LET t == ShowState(s, c, state)
         IN  /\ Core(t) /\ t.posted = s.posted /\ t.quit = s.quit
             /\ \A d \in Coins \ {c} : t.coin[d] = s.coin[d]
             /\ t.coin[c].threads = s.coin[c].threads /\ t.coin[c].cpu = state
<1> DEFINE k == s.coin[c]
          t == ShowState(s, c, state)
<1>1. Shape(s) /\ k \in CoinRecord /\ Sound(k)
  BY DEF Core, Shape
<1>2. /\ Shape(t) /\ t.posted = s.posted /\ t.quit = s.quit
      /\ \A d \in Coins \ {c} : t.coin[d] = s.coin[d]
      /\ t.coin[c] = [k EXCEPT !.cpu = state]
  BY <1>1, ShowShape
<1>k. s.coin[c] = k
  OBVIOUS
<1> HIDE DEF k, t
<1>3. /\ t.coin[c].threads = k.threads /\ t.coin[c].cpu = state /\ t.coin[c].pool = k.pool
      /\ t.coin[c].misled = k.misled /\ t.coin[c].listening = k.listening
      /\ t.coin[c].merged = k.merged /\ t.coin[c].running = k.running
  BY <1>1, <1>2 DEF CoinRecord
<1>4. Sound(t.coin[c])
  BY <1>1, <1>3 DEF Sound
<1>5. Alone(s, t, c)
  BY <1>k, <1>3 DEF Alone
<1>6. Core(t)
  BY <1>2, <1>4, <1>5, OneCoinCore
<1> QED
  BY <1>k, <1>2, <1>3, <1>6 DEF t

-----------------------------------------------------------------------------
(* The actions *)

\* A delivered signal shows its coin's last word, unless another is queued behind it.
LEMMA DeliverGood ==
  ASSUME Good(sys), Deliver
  PROVE  Good(sys')
<1> DEFINE e == Head(sys.posted)
          s == [sys EXCEPT !.posted = Tail(@)]
          x == IF e.state = "Error" THEN SwitchToPool(s, e.coin) ELSE s
          t == ShowState(x, e.coin, e.state)
<1>0. /\ Core(sys) /\ Shape(sys) /\ ~sys.quit /\ sys.posted # <<>>
      /\ \A d \in Coins : Told(sys, d)
      /\ sys' = SetCpuState(x, e.coin, e.state)
  BY DEF Deliver, Event, Good, Core
<1>1. e \in Signal /\ Tail(sys.posted) \in Seq(Signal)
  BY <1>0 DEF Shape
<1>2. e.coin \in Coins /\ e.state \in States
  BY <1>1 DEF Signal
<1> DEFINE c == e.coin
          state == e.state
<1>3. Shape(s) /\ s.coin = sys.coin /\ s.posted = Tail(sys.posted) /\ s.quit = sys.quit
  BY <1>0, <1>1 DEF Shape, Fields
<1> HIDE DEF e, s
<1>4. Core(s)
  BY <1>0, <1>3 DEF Core, Exclusive
<1>5. /\ Core(x) /\ x.posted = s.posted /\ x.quit = sys.quit
      /\ \A d \in Coins \ {c} : x.coin[d] = sys.coin[d]
      /\ x.coin[c].threads = sys.coin[c].threads
  <2>1. CASE state = "Error"
    BY <2>1, <1>2, <1>3, <1>4, SwitchCore
  <2>2. CASE state # "Error"
    BY <2>2, <1>3, <1>4
  <2> QED
    BY <2>1, <2>2
<1>6. /\ Core(t) /\ t.posted = x.posted /\ t.quit = x.quit
      /\ \A d \in Coins \ {c} : t.coin[d] = x.coin[d]
      /\ t.coin[c].threads = x.coin[c].threads /\ t.coin[c].cpu = state
  BY <1>2, <1>5, ShowCore
<1> HIDE DEF x, t
\* Whatever the queue and the threads say of the others, e is told by y.
<1>7. ASSUME NEW y, Core(y), y.posted = Tail(sys.posted), y.quit = sys.quit,
             \A d \in Coins \ {c} : y.coin[d] = sys.coin[d],
             y.coin[c].threads = sys.coin[c].threads, y.coin[c].cpu = state
      PROVE  Good(y)
  <2>1. Shape(y)
    BY <1>7 DEF Core
  <2>2. sys.coin[c].threads \in Nat
    BY <1>0, <1>2, CoinAssumption DEF Shape, CoinRecord
  <2>3. ((state = "Stopped") <=> (sys.coin[c].threads = 0)) => Honest(y.coin[c])
    BY <1>2, <1>7, <2>2 DEF Honest, States
  <2>4. Told(y, c)
    BY <1>0, <1>2, <1>7, <2>1, <2>3, TailTold DEF e
  <2>5. ASSUME NEW d \in Coins, d # c PROVE Told(y, d)
    <3>1. y.coin[d] = sys.coin[d] /\ d # Head(sys.posted).coin
      BY <1>7, <2>5 DEF e
    <3> QED
      BY <1>0, <1>7, <2>1, <3>1, TailTold
  <2> QED
    BY <1>7, <2>4, <2>5 DEF Good
<1>8. CASE x.coin[c].cpu = state
  <2>1. Good(x)
    BY <1>3, <1>5, <1>7, <1>8
  <2> QED
    BY <1>0, <1>8, <2>1 DEF SetCpuState
<1>9. CASE x.coin[c].cpu # state
  <2>1. Good(t)
    <3>1. /\ t.posted = Tail(sys.posted) /\ t.quit = sys.quit
          /\ \A d \in Coins \ {c} : t.coin[d] = sys.coin[d]
          /\ t.coin[c].threads = sys.coin[c].threads
      BY <1>3, <1>5, <1>6
    <3> QED
      BY <3>1, <1>6, <1>7
  <2>2. sys' = CheckMerge(t)
    BY <1>0, <1>9 DEF SetCpuState, t
  <2> QED
    BY <2>1, <2>2, CheckMergeGood
<1> QED
  BY <1>8, <1>9

\* The pool client speaks for a coin with workers.
LEMMA PoolStateGood ==
  ASSUME Good(sys), NEW c \in Coins, NEW state \in {"Running", "Error"}, PoolState(c, state)
  PROVE  Good(sys')
<1>1. Shape(sys) /\ Sound(sys.coin[c]) /\ sys' = Post(sys, c, state) /\ sys.coin[c].threads > 0
  BY DEF Good, Core, PoolState
<1>2. state \in States /\ state # "Stopped"
  BY DEF States
<1> DEFINE t == Post(sys, c, state)
<1>3. /\ Shape(t) /\ t.coin = sys.coin /\ t.quit = sys.quit
      /\ t.posted = Append(sys.posted, [coin |-> c, state |-> state])
  BY <1>1, <1>2, PostShape
<1> HIDE DEF t
<1>4. Alone(sys, t, c)
  BY <1>3 DEF Alone
<1>5. t.coin[c].threads # 0 /\ Sound(t.coin[c])
  BY <1>1, <1>3
<1>6. Good(t)
  BY <1>2, <1>3, <1>4, <1>5, OneCoin
<1> QED
  BY <1>1, <1>6 DEF t

\* A failed preparation is shown as an error, and the workers stay.
LEMMA PreparingErrorGood ==
  ASSUME Good(sys), NEW c \in Coins, PreparingError(c)
  PROVE  Good(sys')
<1>1. /\ Shape(sys) /\ Core(sys) /\ ~sys.quit /\ \A d \in Coins : Told(sys, d)
      /\ sys.coin[c].cpu = "Running" /\ sys' = SetCpuState(sys, c, "Error")
  BY DEF Good, Core, PreparingError, Event
<1>2. "Error" \in States
  BY DEF States
<1> DEFINE t == ShowState(sys, c, "Error")
<1>3. /\ Core(t) /\ t.posted = sys.posted /\ t.quit = sys.quit
      /\ \A d \in Coins \ {c} : t.coin[d] = sys.coin[d]
      /\ t.coin[c].threads = sys.coin[c].threads /\ t.coin[c].cpu = "Error"
  BY <1>1, <1>2, ShowCore
<1>4. sys' = CheckMerge(t)
  BY <1>1 DEF SetCpuState
<1> HIDE DEF t
<1>5. Shape(t) /\ Honest(t.coin[c])
  BY <1>3 DEF Core, Honest
<1>6. ASSUME NEW d \in Coins PROVE Told(t, d)
  <2>1. t.coin[d].threads = sys.coin[d].threads /\ (Honest(sys.coin[d]) => Honest(t.coin[d]))
    <3>1. CASE d = c
      BY <3>1, <1>3, <1>5
    <3>2. CASE d # c
      BY <3>2, <1>3
    <3> QED
      BY <3>1, <3>2
  <2> QED
    BY <2>1, <1>1, <1>3, <1>5, QuietTold
<1>7. Good(t)
  BY <1>3, <1>6 DEF Good
<1> QED
  BY <1>4, <1>7, CheckMergeGood

\* The setting main writes is that of a coin that never ran.
LEMMA SetRunningGood ==
  ASSUME Good(sys), NEW c \in Coins, SetRunning(c)
  PROVE  Good(sys')
<1> DEFINE k0 == sys.coin[c]
<1>1. /\ Shape(sys) /\ Sound(k0) /\ (~sys.quit => Told(sys, c)) /\ k0.pool = "none"
      /\ k0 \in CoinRecord
  BY DEF Good, Core, SetRunning, Shape
<1>2. PICK on \in BOOLEAN : sys' = Put(sys, c, [k0 EXCEPT !.running = on])
  BY DEF SetRunning
<1> DEFINE k == [k0 EXCEPT !.running = on]
          t == Put(sys, c, k)
<1>k. sys.coin[c] = k0
  OBVIOUS
<1> HIDE DEF k0
<1>3. k \in CoinRecord
  BY <1>1 DEF CoinRecord
<1>4. /\ k.pool = k0.pool /\ k.threads = k0.threads /\ k.listening = k0.listening
      /\ k.misled = k0.misled /\ k.cpu = k0.cpu
  BY <1>1 DEF CoinRecord
<1> HIDE DEF k
<1>5. /\ Shape(t) /\ t.coin[c] = k /\ t.posted = sys.posted /\ t.quit = sys.quit
      /\ \A d \in Coins \ {c} : t.coin[d] = sys.coin[d]
  BY <1>1, <1>3, PutShape
<1>t. sys' = t
  BY <1>2 DEF k
<1> HIDE DEF t
<1>6. Sound(k) /\ k.threads = 0
  BY <1>1, <1>4 DEF Sound
<1>7. Alone(sys, t, c)
  BY <1>5, <1>6 DEF Alone
<1>8. ~sys.quit => Told(t, c)
  <2>1. Honest(sys.coin[c]) => Honest(t.coin[c])
    BY <1>k, <1>4, <1>5 DEF Honest
  <2> QED
    BY <1>k, <1>1, <1>4, <1>5, <2>1, QuietTold
<1> QED
  BY <1>t, <1>5, <1>6, <1>7, <1>8, OneCoin

\* At the exit every coin stops, and what they post is not delivered any more.
LEMMA ExitGood ==
  ASSUME Good(sys), Exit
  PROVE  Good(sys')
<1> DEFINE f == [c \in Coins |-> StopCpu(sys, c, TRUE).coin[c]]
<1>1. Shape(sys) /\ sys' = [sys EXCEPT !.quit = TRUE, !.coin = f]
  BY DEF Exit, Good, Core
<1>2. ASSUME NEW c \in Coins
      PROVE  f[c] \in CoinRecord /\ Sound(f[c]) /\ f[c].threads = 0
  <2>1. Good(StopCpu(sys, c, TRUE)) /\ StopCpu(sys, c, TRUE).coin[c].threads = 0
    BY StopGood
  <2> QED
    BY <2>1 DEF Good, Core, Shape
<1>3. f \in [Coins -> CoinRecord]
  BY <1>2
<1> HIDE DEF f
<1>4. Shape(sys') /\ sys'.coin = f /\ sys'.quit
  BY <1>1, <1>3 DEF Shape, Fields
<1>5. Exclusive(sys')
  BY <1>2, <1>4, CoinAssumption DEF Exclusive
<1> QED
  BY <1>2, <1>4, <1>5 DEF Good, Core

\* The settings of an earlier session.
LEMMA InitGood ==
  ASSUME Init
  PROVE  Good(sys)
<1>1. PICK running \in [Coins -> BOOLEAN], merged \in [Coins -> Coins \cup {NoCoin}] :
        sys = [coin |-> [c \in Coins |-> NewCoin(running[c], merged[c])],
               posted |-> <<>>, used |-> 0, leaked |-> 0, quit |-> FALSE]
  BY DEF Init
<1>2. ASSUME NEW c \in Coins
      PROVE  /\ NewCoin(running[c], merged[c]) \in CoinRecord
             /\ Sound(NewCoin(running[c], merged[c])) /\ Honest(NewCoin(running[c], merged[c]))
             /\ NewCoin(running[c], merged[c]).threads = 0
  BY CoinAssumption DEF NewCoin, CoinRecord, Sound, Honest, Pools, States
<1>3. Shape(sys)
  <2>1. [c \in Coins |-> NewCoin(running[c], merged[c])] \in [Coins -> CoinRecord]
    BY <1>2
  <2>2. <<>> \in Seq(Signal)
    OBVIOUS
  <2>3. /\ sys.coin = [c \in Coins |-> NewCoin(running[c], merged[c])]
        /\ sys.posted = <<>> /\ sys.quit = FALSE
    BY <1>1
  <2>4. sys = [x \in Fields |-> sys[x]]
    BY <1>1 DEF Fields
  <2> QED
    BY <2>1, <2>2, <2>3, <2>4 DEF Shape
<1>4. \A c \in Coins : sys.coin[c] = NewCoin(running[c], merged[c])
  BY <1>1
<1>5. \A c \in Coins : Told(sys, c)
  BY <1>1, <1>2, <1>4 DEF Told, Of
<1>6. Exclusive(sys)
  BY <1>2, <1>4, CoinAssumption DEF Exclusive
<1> QED
  BY <1>2, <1>3, <1>4, <1>5, <1>6 DEF Good, Core

\* Every step keeps the inductive invariant.
LEMMA NextGood ==
  ASSUME Good(sys), [Next]_vars
  PROVE  Good(sys')
<1>1. ASSUME NEW c \in Coins, Start(c) PROVE Good(sys')
  BY <1>1, StartGood DEF Start
<1>2. ASSUME NEW c \in Coins, Stop(c) PROVE Good(sys')
  BY <1>2, StopGood DEF Stop
<1>3. ASSUME NEW c \in Coins, SetCores(c) PROVE Good(sys')
  BY <1>3, SetCoresGood DEF SetCores
<1>4. ASSUME NEW c \in Coins, SetMerged(c) PROVE Good(sys')
  BY <1>4, SetMergedGood DEF SetMerged
<1>5. ASSUME NEW c \in Coins, Tick(c) PROVE Good(sys')
  BY <1>5, CheckMergeGood DEF Tick
<1>6. ASSUME UNCHANGED vars PROVE Good(sys')
  BY <1>6 DEF vars
<1> QED
  BY <1>1, <1>2, <1>3, <1>4, <1>5, <1>6, SetRunningGood, PoolStateGood, PreparingErrorGood,
     DeliverGood, ExitGood DEF Next

\* The inductive invariant: the shape of the state, what holds of every coin by
\* itself and of the two of one family, and what the queued signals promise.
IInv == Good(sys)

\* Every reachable state has it.
THEOREM AlwaysGood == Spec => []IInv
<1>1. Init => IInv
  BY InitGood DEF IInv
<1>2. IInv /\ [Next]_vars => IInv'
  BY NextGood DEF IInv
<1> QED
  BY <1>1, <1>2, PTL DEF Spec

-----------------------------------------------------------------------------
(* The cores in use *)

Cells(s, D) == {x \in D \X (1..MaxCores) : x[2] <= s.coin[x[1]].cores}

\* What is in use is what was leaked and the cores of the coins shown as running.
Counted(s) == s.leaked \in Nat /\ s.used = s.leaked + CoresOf(s, Shown(s))

\* t shows the same states as s, of the same numbers of cores, and counts no more.
Steady(s, t) ==
  /\ t.used = s.used /\ t.leaked = s.leaked
  /\ \A c \in Coins : t.coin[c].cpu = s.coin[c].cpu /\ t.coin[c].cores = s.coin[c].cores

\* A set of coins has finitely many cores.
LEMMA CoresFinite ==
  ASSUME NEW s, NEW D \in SUBSET Coins
  PROVE  IsFiniteSet(Cells(s, D)) /\ CoresOf(s, D) = Cardinality(Cells(s, D)) /\ CoresOf(s, D) \in Nat
<1>1. IsFiniteSet(D)
  BY CoinAssumption, FS_Subset
<1>2. IsFiniteSet(1..MaxCores)
  BY CoinAssumption, FS_Interval
<1>3. IsFiniteSet(D \X (1..MaxCores))
  BY <1>1, <1>2, FS_Product
<1>4. Cells(s, D) \in SUBSET (D \X (1..MaxCores))
  BY DEF Cells
<1>5. IsFiniteSet(Cells(s, D))
  BY <1>3, <1>4, FS_Subset
<1>6. CoresOf(s, D) = Cardinality(Cells(s, D))
  BY DEF CoresOf, Cells
<1> QED
  BY <1>5, <1>6, FS_CardinalityType

\* Coins of two disjoint sets have the cores of both.
LEMMA CoresUnion ==
  ASSUME NEW s, NEW D \in SUBSET Coins, NEW E \in SUBSET Coins, D \cap E = {}
  PROVE  CoresOf(s, D \cup E) = CoresOf(s, D) + CoresOf(s, E)
<1>1. Cells(s, D \cup E) = Cells(s, D) \cup Cells(s, E)
  BY DEF Cells
<1>2. Cells(s, D) \cap Cells(s, E) = {}
  BY DEF Cells
<1>3. Cardinality(Cells(s, D) \cap Cells(s, E)) = 0
  BY <1>2, FS_EmptySet
<1>f. IsFiniteSet(Cells(s, D)) /\ IsFiniteSet(Cells(s, E))
  BY CoresFinite
<1>4. Cardinality(Cells(s, D) \cup Cells(s, E)) =
        Cardinality(Cells(s, D)) + Cardinality(Cells(s, E))
        - Cardinality(Cells(s, D) \cap Cells(s, E))
  BY <1>f, FS_Union
<1>5. /\ CoresOf(s, D) = Cardinality(Cells(s, D)) /\ CoresOf(s, D) \in Nat
      /\ CoresOf(s, E) = Cardinality(Cells(s, E)) /\ CoresOf(s, E) \in Nat
      /\ CoresOf(s, D \cup E) = Cardinality(Cells(s, D \cup E))
  <2>1. D \cup E \in SUBSET Coins
    OBVIOUS
  <2> QED
    BY <2>1, CoresFinite
<1> DEFINE a == Cardinality(Cells(s, D))
          b == Cardinality(Cells(s, E))
          ab == Cardinality(Cells(s, D) \cup Cells(s, E))
<1>6. a \in Nat /\ b \in Nat /\ ab = a + b - 0
  BY <1>3, <1>4, <1>5
<1>7. CoresOf(s, D) = a /\ CoresOf(s, E) = b /\ CoresOf(s, D \cup E) = ab
  BY <1>1, <1>5
<1> HIDE DEF a, b, ab
<1> QED
  BY <1>6, <1>7

\* One coin has its own.
LEMMA CoresOfOne ==
  ASSUME NEW s, NEW c \in Coins, s.coin[c].cores \in 1..MaxCores
  PROVE  CoresOf(s, {c}) = s.coin[c].cores
<1> DEFINE n == s.coin[c].cores
          f == [i \in 1..n |-> <<c, i>>]
          T == Cells(s, {c})
<1>1. T = {x \in {c} \X (1..MaxCores) : x[2] <= n}
  BY DEF Cells
<1>2. n \in 1..MaxCores
  OBVIOUS
<1> HIDE DEF n, T
<1>3. f \in [1..n -> T]
  BY <1>1, <1>2, CoinAssumption
<1>4. \A x \in T : \E i \in 1..n : f[i] = x
  BY <1>1, <1>2, CoinAssumption
<1>5. \A i, j \in 1..n : f[i] = f[j] => i = j
  OBVIOUS
<1>6. f \in Bijection(1..n, T)
  BY <1>3, <1>4, <1>5, Fun_IsBij
<1>7. ExistsBijection(1..n, T)
  BY <1>6 DEF ExistsBijection
<1>8. IsFiniteSet(1..n) /\ Cardinality(1..n) = n
  BY <1>2, CoinAssumption, FS_Interval
<1>9. Cardinality(T) = n
  BY <1>7, <1>8, FS_Bijection
<1> QED
  BY <1>9, CoresFinite DEF n, T

\* Only the cores of the coins counted matter.
LEMMA CoresSame ==
  ASSUME NEW s, NEW t, NEW D \in SUBSET Coins, \A c \in D : t.coin[c].cores = s.coin[c].cores
  PROVE  CoresOf(t, D) = CoresOf(s, D)
<1>1. Cells(t, D) = Cells(s, D)
  BY DEF Cells
<1> QED
  BY <1>1, CoresFinite

\* What neither shows a state nor changes a number of cores keeps the count.
LEMMA SteadyCounted ==
  ASSUME NEW s, Counted(s), NEW t, Steady(s, t)
  PROVE  Counted(t)
<1>1. Shown(t) = Shown(s) /\ Shown(s) \in SUBSET Coins
  BY DEF Shown, Steady
<1>2. CoresOf(t, Shown(s)) = CoresOf(s, Shown(s))
  BY <1>1, CoresSame DEF Steady
<1> QED
  BY <1>1, <1>2 DEF Counted, Steady

\* One coin c changes, shown or not before, shown or not after.
LEMMA OneCounted ==
  ASSUME NEW s, Shape(s), Counted(s), NEW t, Shape(t), NEW c \in Coins,
         \A d \in Coins \ {c} : t.coin[d].cpu = s.coin[d].cpu /\ t.coin[d].cores = s.coin[d].cores,
         t.leaked = s.leaked,
         t.used = s.used - (IF s.coin[c].cpu = "Running" THEN s.coin[c].cores ELSE 0)
                         + (IF t.coin[c].cpu = "Running" THEN t.coin[c].cores ELSE 0)
  PROVE  Counted(t)
<1> DEFINE R == Shown(s) \ {c}
<1>1. s.coin[c].cores \in 1..MaxCores /\ t.coin[c].cores \in 1..MaxCores
  BY DEF Shape, CoinRecord
<1>2. R \in SUBSET Coins /\ R = Shown(t) \ {c}
  BY DEF Shown
<1>3. CoresOf(t, R) = CoresOf(s, R) /\ CoresOf(s, R) \in Nat
  BY <1>2, CoresSame, CoresFinite
<1>4. CoresOf(s, {c}) = s.coin[c].cores /\ CoresOf(t, {c}) = t.coin[c].cores
  BY <1>1, CoresOfOne
<1>5. CoresOf(s, R \cup {c}) = CoresOf(s, R) + CoresOf(s, {c})
  BY <1>2, CoresUnion
<1>6. CoresOf(t, R \cup {c}) = CoresOf(t, R) + CoresOf(t, {c})
  BY <1>2, CoresUnion
<1>7. Shown(s) = (IF s.coin[c].cpu = "Running" THEN R \cup {c} ELSE R)
  BY DEF Shown
<1>8. Shown(t) = (IF t.coin[c].cpu = "Running" THEN R \cup {c} ELSE R)
  BY <1>2 DEF Shown
<1> HIDE DEF R
<1>9. s.coin[c].cores \in Nat /\ t.coin[c].cores \in Nat
  BY <1>1, CoinAssumption
<1>10. /\ s.leaked \in Nat /\ s.used = s.leaked + CoresOf(s, Shown(s))
  BY DEF Counted
<1>11. CoresOf(s, Shown(s)) = CoresOf(s, R) + (IF s.coin[c].cpu = "Running" THEN s.coin[c].cores ELSE 0)
  BY <1>3, <1>4, <1>5, <1>7
<1>12. CoresOf(t, Shown(t)) = CoresOf(s, R) + (IF t.coin[c].cpu = "Running" THEN t.coin[c].cores ELSE 0)
  BY <1>3, <1>4, <1>6, <1>8
<1>13. t.used = t.leaked + CoresOf(t, Shown(t))
  BY <1>3, <1>9, <1>10, <1>11, <1>12
<1> QED
  BY <1>10, <1>13 DEF Counted

\* Writing what is neither the shown state nor the number of cores.
LEMMA PutSteady ==
  ASSUME NEW s, Shape(s), NEW c \in Coins, NEW k \in CoinRecord,
         k.cpu = s.coin[c].cpu, k.cores = s.coin[c].cores
  PROVE  Shape(Put(s, c, k)) /\ Put(s, c, k).coin[c] = k /\ Steady(s, Put(s, c, k))
<1>1. Put(s, c, k).used = s.used /\ Put(s, c, k).leaked = s.leaked
  BY DEF Put, Shape, Fields
<1> QED
  BY <1>1, PutShape DEF Steady

\* Queueing a signal.
LEMMA PostSteady ==
  ASSUME NEW s, Shape(s), NEW c \in Coins, NEW state \in States
  PROVE  Shape(Post(s, c, state)) /\ Steady(s, Post(s, c, state))
<1>1. Post(s, c, state).used = s.used /\ Post(s, c, state).leaked = s.leaked
  BY DEF Post, Shape, Fields
<1> QED
  BY <1>1, PostShape DEF Steady

\* One after the other.
LEMMA SteadyTrans ==
  ASSUME NEW s, NEW t, NEW u, Steady(s, t), Steady(t, u)
  PROVE  Steady(s, u)
BY DEF Steady

\* stopCpu counts nothing: the cores come back with the signal it queues.
LEMMA StopSteady ==
  ASSUME NEW s, Shape(s), NEW c \in Coins, NEW sync \in BOOLEAN
  PROVE  Steady(s, StopCpu(s, c, sync))
<1> DEFINE k0 == s.coin[c]
          k1 == [k0 EXCEPT !.timer = FALSE, !.running = k0.running /\ sync]
          s1 == Put(s, c, k1)
          k2 == [k1 EXCEPT !.threads = 0, !.listening = FALSE, !.misled = FALSE]
          s2 == Put(s1, c, k2)
          t == Post(s2, c, "Stopped")
<1>1. k0 \in CoinRecord
  BY DEF Shape
<1>2. k1 \in CoinRecord /\ k1.cpu = k0.cpu /\ k1.cores = k0.cores
  BY <1>1 DEF CoinRecord
<1>0. k0 = s.coin[c]
  OBVIOUS
<1>s. StopCpu(s, c, sync) = ImplStop(s1, c, sync)
  BY DEF StopCpu
<1> HIDE DEF k1, k0
<1>3. Shape(s1) /\ s1.coin[c] = k1 /\ Steady(s, s1)
  BY <1>0, <1>2, PutSteady
<1> HIDE DEF s1
<1>4. 0 \in 0..MaxCores
  BY CoinAssumption
<1>5. k2 \in CoinRecord /\ k2.cpu = k1.cpu /\ k2.cores = k1.cores
  BY <1>2, <1>4 DEF CoinRecord
<1>6. ImplStop(s1, c, sync) = IF k1.pool = "none" THEN s1 ELSE t
  BY <1>3 DEF ImplStop
<1> HIDE DEF k2
<1>7. Shape(s2) /\ Steady(s1, s2)
  BY <1>3, <1>5, PutSteady
<1>8. "Stopped" \in States
  BY DEF States
<1> HIDE DEF s2
<1>9. Steady(s2, t)
  BY <1>7, <1>8, PostSteady
<1> HIDE DEF t
<1> QED
  BY <1>3, <1>6, <1>7, <1>9, <1>s, SteadyTrans

\* startCpu counts nothing either.
LEMMA StartSteady ==
  ASSUME NEW s, Good(s), NEW c \in Coins
  PROVE  Steady(s, StartCpu(s, c))
<1> DEFINE x == Exclude(s, c)
          k0 == x.coin[c]
          k1 == [k0 EXCEPT !.timer = TRUE, !.running = TRUE]
          x1 == Put(x, c, k1)
          n == IF k1.threads < k1.cores THEN k1.cores ELSE k1.threads
          h == k1.listening /\ k1.pool # k1.merged
          k2 == [k1 EXCEPT !.pool = k1.merged, !.listening = TRUE, !.threads = n, !.misled = h]
          x2 == Put(x1, c, k2)
          t == Post(x2, c, "Running")
<1>1. Steady(s, x)
  <2>1. CASE c \in Ether /\ Ether \ {c} # {}
    <3> DEFINE d == CHOOSE d \in Ether \ {c} : TRUE
    <3>1. d \in Ether \ {c}
      BY <2>1
    <3>2. Exclude(s, c) = StopCpu(s, d, TRUE)
      BY <2>1 DEF Exclude
    <3> HIDE DEF d
    <3>3. d \in Coins
      BY <3>1, CoinAssumption
    <3> QED
      BY <3>2, <3>3, StopSteady DEF Good, Core
  <2>2. CASE ~(c \in Ether /\ Ether \ {c} # {})
    BY <2>2 DEF Exclude, Steady
  <2> QED
    BY <2>1, <2>2
<1>2. Shape(x) /\ StartCpu(s, c) = ImplStart(x1, c)
  BY ExcludeGood DEF Good, Core, StartCpu
<1> HIDE DEF x
<1>3. k0 \in CoinRecord /\ k0 = x.coin[c]
  BY <1>2 DEF Shape
<1> HIDE DEF k0
<1>4. k1 \in CoinRecord /\ k1.cpu = k0.cpu /\ k1.cores = k0.cores
  BY <1>3 DEF CoinRecord
<1> HIDE DEF k1
<1>5. Shape(x1) /\ x1.coin[c] = k1 /\ Steady(x, x1)
  BY <1>2, <1>3, <1>4, PutSteady
<1> HIDE DEF x1
<1>6. ImplStart(x1, c) = t
  BY <1>5 DEF ImplStart, CurrentPool
<1>7. n \in 0..MaxCores /\ h \in BOOLEAN /\ k1.merged \in Pools
  BY <1>4, CoinAssumption DEF CoinRecord, Pools
<1> HIDE DEF n, h
<1>8. k2 \in CoinRecord /\ k2.cpu = k1.cpu /\ k2.cores = k1.cores
  BY <1>4, <1>7 DEF CoinRecord
<1> HIDE DEF k2
<1>9. Shape(x2) /\ Steady(x1, x2)
  BY <1>5, <1>8, PutSteady
<1> HIDE DEF x2
<1>10. Steady(x2, t)
  BY <1>9, PostSteady DEF States
<1> HIDE DEF t
<1> QED
  BY <1>1, <1>2, <1>5, <1>6, <1>9, <1>10, SteadyTrans

\* Nor does a client that moves.
LEMMA SwitchSteady ==
  ASSUME NEW s, Shape(s), NEW c \in Coins
  PROVE  Shape(SwitchToPool(s, c)) /\ Steady(s, SwitchToPool(s, c))
<1> DEFINE k == s.coin[c]
          h == k.misled \/ k.threads = 0
          k1 == [k EXCEPT !.pool = k.merged, !.listening = TRUE, !.misled = h]
          t == Put(s, c, k1)
<1>1. SwitchToPool(s, c) = IF k.pool = k.merged THEN s ELSE t
  BY DEF SwitchToPool, CurrentPool
<1>2. k \in CoinRecord /\ k = s.coin[c]
  BY DEF Shape
<1> HIDE DEF k
<1>3. h \in BOOLEAN /\ k.merged \in Pools
  BY <1>2 DEF CoinRecord, Pools
<1> HIDE DEF h
<1>4. k1 \in CoinRecord /\ k1.cpu = k.cpu /\ k1.cores = k.cores
  BY <1>2, <1>3 DEF CoinRecord
<1> HIDE DEF k1
<1>5. Shape(t) /\ Steady(s, t)
  BY <1>2, <1>4, PutSteady
<1>6. Steady(s, s)
  BY DEF Steady
<1> QED
  BY <1>1, <1>5, <1>6

\* Nor setMergedMining.
LEMMA SetMergedSteady ==
  ASSUME NEW s, Shape(s), NEW c \in Coins, NEW m \in Partners(c)
  PROVE  Steady(s, SetMergedMining(s, c, m))
<1> DEFINE k0 == s.coin[c]
          k == [k0 EXCEPT !.merged = m]
          k1 == [k EXCEPT !.pool = IF k.pool = "none" THEN k.merged ELSE k.pool]
          h == k.misled \/ k.threads > 0
          k2 == [k EXCEPT !.misled = h]
          s1 == Put(s, c, k1)
          s2 == Put(s, c, k2)
<1>1. SetMergedMining(s, c, m) = IF k.cpu = "Running" THEN SwitchToPool(s1, c) ELSE s2
  BY DEF SetMergedMining, Made, CurrentPool
<1>2. k0 \in CoinRecord /\ k0 = s.coin[c]
  BY DEF Shape
<1> HIDE DEF k0
<1>3. k \in CoinRecord /\ k.cpu = k0.cpu /\ k.cores = k0.cores
  BY <1>2, CoinAssumption DEF CoinRecord, Partners
<1> HIDE DEF k
<1>4. k1 \in CoinRecord /\ k1.cpu = k.cpu /\ k1.cores = k.cores
  BY <1>3 DEF CoinRecord, Pools
<1>h. h \in BOOLEAN
  BY <1>3 DEF CoinRecord
<1> HIDE DEF k1, h
<1>5. k2 \in CoinRecord /\ k2.cpu = k.cpu /\ k2.cores = k.cores
  BY <1>3, <1>h DEF CoinRecord
<1> HIDE DEF k2
<1>6. Shape(s1) /\ Steady(s, s1) /\ Steady(s, s2)
  BY <1>2, <1>3, <1>4, <1>5, PutSteady
<1> HIDE DEF s1, s2
<1> QED
  BY <1>1, <1>6, SwitchSteady, SteadyTrans

-----------------------------------------------------------------------------
\* Showing another state takes the coin's cores or gives them back.
LEMMA ShowCounted ==
  ASSUME NEW s, Shape(s), Counted(s), NEW c \in Coins, NEW state \in States,
         s.coin[c].cpu # state
  PROVE  Counted(ShowState(s, c, state))
<1> DEFINE k == s.coin[c]
          t == ShowState(s, c, state)
<1>1. k \in CoinRecord
  BY DEF Shape
<1>2. /\ Shape(t) /\ t.coin[c] = [k EXCEPT !.cpu = state]
      /\ \A d \in Coins \ {c} : t.coin[d] = s.coin[d]
  BY ShowShape
<1>l. t.leaked = s.leaked
  BY DEF ShowState, Put, Shape, Fields
<1> DEFINE u == CASE state = "Running" -> s.used + k.cores
                  [] state # "Running" /\ k.cpu = "Running" -> s.used - k.cores
                  [] OTHER -> s.used
          p == Put(s, c, [k EXCEPT !.cpu = state])
<1>t. t = [p EXCEPT !.used = u] /\ "used" \in DOMAIN p
  BY DEF ShowState, Put, Shape, Fields
<1> HIDE DEF p
<1>u. u = IF state = "Running" THEN s.used + k.cores
          ELSE IF k.cpu = "Running" THEN s.used - k.cores ELSE s.used
  BY Zenon
<1>4. k.cores \in Nat
  BY <1>1, CoinAssumption DEF CoinRecord
<1>5. s.used \in Nat
  <2>1. Shown(s) \in SUBSET Coins
    BY DEF Shown
  <2> QED
    BY <2>1, CoresFinite DEF Counted
<1>k. k = s.coin[c]
  OBVIOUS
<1> HIDE DEF k, t, u
<1>3. t.used = u
  BY <1>t
<1>6. t.coin[c].cpu = state /\ t.coin[c].cores = k.cores
  BY <1>1, <1>2 DEF CoinRecord
<1>7. t.used = s.used - (IF s.coin[c].cpu = "Running" THEN s.coin[c].cores ELSE 0)
                      + (IF t.coin[c].cpu = "Running" THEN t.coin[c].cores ELSE 0)
  BY <1>3, <1>u, <1>4, <1>5, <1>6, <1>k
<1>o. \A d \in Coins \ {c} : t.coin[d].cpu = s.coin[d].cpu /\ t.coin[d].cores = s.coin[d].cores
  BY <1>2
<1>x. Shape(t)
  BY <1>2
<1>8. Counted(t)
  BY <1>x, <1>l, <1>o, <1>7, OneCounted
<1> QED
  BY <1>8 DEF t

\* The check of merged mining leaks the cores of the coins it overtakes.
LEMMA CheckMergeCounted ==
  ASSUME NEW s, Shape(s), Counted(s)
  PROVE  Counted(CheckMerge(s))
<1> DEFINE t == CheckMerge(s)
          O == Overtaken(s)
          R == Shown(s) \ O
<1>1. \A m \in Coins : t.coin[m] = [s.coin[m] EXCEPT !.cpu = MergeState(s, m)]
  BY CheckMergeShape
<1>2. t.leaked = s.leaked + CoresOf(s, O) /\ t.used = s.used
  BY DEF CheckMerge, Shape, Fields
<1> HIDE DEF t
<1>3. ASSUME NEW m \in Coins
      PROVE  t.coin[m].cpu = MergeState(s, m) /\ t.coin[m].cores = s.coin[m].cores
  <2> DEFINE k == s.coin[m]
            v == MergeState(s, m)
  <2>1. k \in CoinRecord /\ t.coin[m] = [k EXCEPT !.cpu = v]
    BY <1>1 DEF Shape
  <2> HIDE DEF k, v
  <2>2. t.coin[m].cpu = v /\ t.coin[m].cores = k.cores
    BY <2>1 DEF CoinRecord
  <2> QED
    BY <2>2 DEF k, v
<1>4. Shown(s) = O \cup R /\ O \cap R = {} /\ O \in SUBSET Coins /\ R \in SUBSET Coins
  BY DEF Overtaken, Shown
<1>5. \A m \in Coins : MergeState(s, m) = "Running" => s.coin[m].cpu = "Running"
  BY DEF MergeState
<1>6. Shown(t) = R
  BY <1>3, <1>5 DEF Shown, Overtaken
<1> HIDE DEF O, R
<1>7. CoresOf(s, O \cup R) = CoresOf(s, O) + CoresOf(s, R)
  BY <1>4, CoresUnion
<1>8. CoresOf(t, R) = CoresOf(s, R) /\ CoresOf(s, R) \in Nat /\ CoresOf(s, O) \in Nat
  BY <1>3, <1>4, CoresSame, CoresFinite
<1>9. s.leaked \in Nat /\ s.used = s.leaked + CoresOf(s, O \cup R)
  BY <1>4 DEF Counted
<1>10. t.leaked \in Nat /\ t.used = t.leaked + CoresOf(t, R)
  BY <1>2, <1>7, <1>8, <1>9
<1> QED
  BY <1>6, <1>10 DEF Counted, t

\* setCpuCores: a coin shown as running is counted with its new number of cores.
LEMMA SetCoresCounted ==
  ASSUME NEW s, Shape(s), Counted(s), NEW c \in Coins, NEW n \in 1..MaxCores
  PROVE  Counted(SetCpuCores(s, c, n))
<1> DEFINE k0 == s.coin[c]
          k == [k0 EXCEPT !.cores = n]
          w == Put(s, c, k)
          u == [w EXCEPT !.used = s.used - k0.cores + n]
          k1 == [k EXCEPT !.pool = IF k.pool = "none" THEN k.merged ELSE k.pool]
          h == k1.misled \/ k1.threads = 0
          k2 == [k1 EXCEPT !.threads = n, !.misled = h]
          r == Put(u, c, k2)
          t == Post(r, c, "Running")
<1>1. k0 \in CoinRecord /\ k0 = s.coin[c]
  BY DEF Shape
<1>d. SetCpuCores(s, c, n) = CheckMerge(IF k0.cpu = "Running" THEN ImplResize(u, c, n) ELSE w)
  BY DEF SetCpuCores
<1> HIDE DEF k0
<1>2. k \in CoinRecord /\ k.cpu = k0.cpu /\ k.cores = n
  BY <1>1 DEF CoinRecord
<1> HIDE DEF k
<1>3. /\ Shape(w) /\ w.coin[c] = k /\ w.used = s.used /\ w.leaked = s.leaked
      /\ \A d \in Coins \ {c} : w.coin[d] = s.coin[d]
  <2>1. w.used = s.used /\ w.leaked = s.leaked
    BY DEF Put, Shape, Fields
  <2> QED
    BY <1>2, <2>1, PutShape
<1>4. s.used \in Nat /\ k0.cores \in Nat /\ n \in Nat
  <2>1. Shown(s) \in SUBSET Coins
    BY DEF Shown
  <2> QED
    BY <1>1, <2>1, CoresFinite, CoinAssumption DEF Counted, CoinRecord
<1> HIDE DEF w
<1>5. CASE k0.cpu # "Running"
  <2>1. w.used = s.used - (IF s.coin[c].cpu = "Running" THEN s.coin[c].cores ELSE 0)
                        + (IF w.coin[c].cpu = "Running" THEN w.coin[c].cores ELSE 0)
    BY <1>1, <1>2, <1>3, <1>4, <1>5
  <2>2. Counted(w)
    BY <1>3, <2>1, OneCounted
  <2> QED
    BY <1>d, <1>3, <1>5, <2>2, CheckMergeCounted
<1>6. CASE k0.cpu = "Running"
  <2>1. /\ Shape(u) /\ u.coin = w.coin /\ u.leaked = s.leaked /\ u.used = s.used - k0.cores + n
    BY <1>3 DEF Shape, Fields
  <2> HIDE DEF u
  <2>d. ImplResize(u, c, n) = t
    BY <1>3, <2>1 DEF ImplResize, Made, CurrentPool
  <2>2. u.used = s.used - (IF s.coin[c].cpu = "Running" THEN s.coin[c].cores ELSE 0)
                        + (IF u.coin[c].cpu = "Running" THEN u.coin[c].cores ELSE 0)
    BY <1>1, <1>2, <1>3, <1>4, <1>6, <2>1
  <2>3. Counted(u)
    BY <1>3, <2>1, <2>2, OneCounted
  <2>4. k1 \in CoinRecord /\ k1.cpu = k.cpu /\ k1.cores = k.cores
    BY <1>2 DEF CoinRecord, Pools
  <2> HIDE DEF k1
  <2>5. h \in BOOLEAN /\ n \in 0..MaxCores
    BY <2>4, CoinAssumption DEF CoinRecord
  <2> HIDE DEF h
  <2>6. k2 \in CoinRecord /\ k2.cpu = k1.cpu /\ k2.cores = k1.cores
    BY <2>4, <2>5 DEF CoinRecord
  <2> HIDE DEF k2
  <2>7. Shape(r) /\ Steady(u, r)
    BY <1>3, <2>1, <2>4, <2>6, PutSteady
  <2> HIDE DEF r
  <2>8. Shape(t) /\ Steady(r, t)
    BY <2>7, PostSteady DEF States
  <2> HIDE DEF t
  <2>9. Counted(t)
    BY <2>3, <2>7, <2>8, SteadyCounted
  <2> QED
    BY <1>d, <1>6, <2>d, <2>8, <2>9, CheckMergeCounted
<1> QED
  BY <1>5, <1>6

\* A delivered signal, an error's change of pool included.
LEMMA DeliverCounted ==
  ASSUME Shape(sys), Counted(sys), Deliver
  PROVE  Counted(sys')
<1> DEFINE e == Head(sys.posted)
          s == [sys EXCEPT !.posted = Tail(@)]
          x == IF e.state = "Error" THEN SwitchToPool(s, e.coin) ELSE s
<1>1. e \in Signal /\ Tail(sys.posted) \in Seq(Signal)
  BY DEF Shape, Deliver
<1>2. e.coin \in Coins /\ e.state \in States
  BY <1>1 DEF Signal
<1>3. sys' = SetCpuState(x, e.coin, e.state)
  BY DEF Deliver
<1>4. Shape(s) /\ Steady(sys, s)
  BY <1>1 DEF Shape, Fields, Steady
<1> HIDE DEF e, s
<1>5. Shape(x) /\ (x = s \/ Steady(s, x))
  BY <1>2, <1>4, SwitchSteady
<1>6. Counted(x)
  BY <1>4, <1>5, SteadyCounted
<1> HIDE DEF x
<1>7. CASE x.coin[e.coin].cpu = e.state
  BY <1>3, <1>6, <1>7 DEF SetCpuState
<1>8. CASE x.coin[e.coin].cpu # e.state
  <2>1. /\ Counted(ShowState(x, e.coin, e.state)) /\ Shape(ShowState(x, e.coin, e.state))
    BY <1>2, <1>5, <1>6, <1>8, ShowCounted, ShowShape
  <2> QED
    BY <1>3, <1>8, <2>1, CheckMergeCounted DEF SetCpuState
<1> QED
  BY <1>7, <1>8

\* At the exit the shown states stay as they are.
LEMMA ExitSteady ==
  ASSUME Good(sys), Exit
  PROVE  Steady(sys, sys')
<1> DEFINE f == [c \in Coins |-> StopCpu(sys, c, TRUE).coin[c]]
<1>1. Shape(sys) /\ sys' = [sys EXCEPT !.quit = TRUE, !.coin = f]
  BY DEF Exit, Good, Core
<1>2. \A c \in Coins : f[c].cpu = sys.coin[c].cpu /\ f[c].cores = sys.coin[c].cores
  BY <1>1, StopSteady DEF Steady
<1> HIDE DEF f
<1>3. sys'.coin = f /\ sys'.used = sys.used /\ sys'.leaked = sys.leaked
  BY <1>1 DEF Shape, Fields
<1> QED
  BY <1>2, <1>3 DEF Steady

\* Every step keeps the count.
LEMMA NextCounted ==
  ASSUME Good(sys), Counted(sys), [Next]_vars
  PROVE  Counted(sys')
<1>0. Shape(sys)
  BY DEF Good, Core
<1>1. ASSUME NEW c \in Coins, Start(c) PROVE Counted(sys')
  BY <1>1, StartSteady, SteadyCounted DEF Start
<1>2. ASSUME NEW c \in Coins, Stop(c) PROVE Counted(sys')
  BY <1>0, <1>2, StopSteady, SteadyCounted DEF Stop
<1>3. ASSUME NEW c \in Coins, SetCores(c) PROVE Counted(sys')
  BY <1>0, <1>3, SetCoresCounted DEF SetCores
<1>4. ASSUME NEW c \in Coins, SetMerged(c) PROVE Counted(sys')
  BY <1>0, <1>4, SetMergedSteady, SteadyCounted DEF SetMerged
<1>5. ASSUME NEW c \in Coins, SetRunning(c) PROVE Counted(sys')
  <2> DEFINE k0 == sys.coin[c]
  <2>1. PICK on \in BOOLEAN : sys' = Put(sys, c, [k0 EXCEPT !.running = on])
    BY <1>5 DEF SetRunning
  <2>2. k0 \in CoinRecord /\ k0 = sys.coin[c]
    BY <1>0 DEF Shape
  <2> HIDE DEF k0
  <2> DEFINE k == [k0 EXCEPT !.running = on]
  <2>3. k \in CoinRecord /\ k.cpu = k0.cpu /\ k.cores = k0.cores
    BY <2>2 DEF CoinRecord
  <2>k. sys' = Put(sys, c, k)
    BY <2>1
  <2> HIDE DEF k
  <2>4. Steady(sys, Put(sys, c, k))
    BY <1>0, <2>2, <2>3, PutSteady
  <2> QED
    BY <2>k, <2>4, SteadyCounted
<1>6. ASSUME NEW c \in Coins, NEW state \in {"Running", "Error"}, PoolState(c, state)
      PROVE  Counted(sys')
  BY <1>0, <1>6, PostSteady, SteadyCounted DEF PoolState, States
<1>7. ASSUME NEW c \in Coins, Tick(c) PROVE Counted(sys')
  BY <1>0, <1>7, CheckMergeCounted DEF Tick
<1>8. ASSUME NEW c \in Coins, PreparingError(c) PROVE Counted(sys')
  <2>1. sys' = CheckMerge(ShowState(sys, c, "Error")) /\ sys.coin[c].cpu # "Error"
    BY <1>8 DEF PreparingError, SetCpuState
  <2>2. Counted(ShowState(sys, c, "Error")) /\ Shape(ShowState(sys, c, "Error"))
    BY <1>0, <2>1, ShowCounted, ShowShape DEF States
  <2> QED
    BY <2>1, <2>2, CheckMergeCounted
<1>9. ASSUME Deliver PROVE Counted(sys')
  BY <1>0, <1>9, DeliverCounted
<1>10. ASSUME Exit PROVE Counted(sys')
  BY <1>10, ExitSteady, SteadyCounted
<1>11. ASSUME UNCHANGED vars PROVE Counted(sys')
  BY <1>11 DEF vars
<1> QED
  BY <1>1, <1>2, <1>3, <1>4, <1>5, <1>6, <1>7, <1>8, <1>9, <1>10, <1>11 DEF Next

\* The count of cores, with the bound of the calls.
CountInv == Counted(sys) /\ calls \in 0..MaxCalls

\* Every reachable state has the count right.
THEOREM AlwaysCounted == Spec => []CountInv
<1>1. Init => CountInv
  <2>1. ASSUME Init PROVE Counted(sys)
    <3>1. sys.used = 0 /\ sys.leaked = 0 /\ \A c \in Coins : sys.coin[c].cpu = "Stopped"
      BY <2>1 DEF Init, NewCoin
    <3>2. Shown(sys) = {}
      BY <3>1 DEF Shown
    <3>3. Cells(sys, {}) = {}
      BY DEF Cells
    <3>4. CoresOf(sys, {}) = 0
      BY <3>3, CoresFinite, FS_EmptySet
    <3> QED
      BY <3>1, <3>2, <3>4 DEF Counted
  <2>2. Init => calls \in 0..MaxCalls
    BY CoinAssumption DEF Init
  <2> QED
    BY <2>1, <2>2 DEF CountInv
<1>2. IInv /\ CountInv /\ [Next]_vars => CountInv'
  <2>1. ASSUME IInv, CountInv, [Next]_vars PROVE calls' \in 0..MaxCalls
    <3>1. Call \/ UNCHANGED calls
      BY <2>1
      DEF Next, vars, Start, Stop, SetCores, SetMerged, SetRunning, PoolState, Tick,
          PreparingError, Deliver, Exit, Event
    <3>2. calls \in 0..MaxCalls /\ MaxCalls \in Nat
      BY <2>1, CoinAssumption DEF CountInv
    <3>3. CASE Call
      BY <3>2, <3>3 DEF Call
    <3> QED
      BY <3>1, <3>2, <3>3
  <2> QED
    BY <2>1, NextCounted DEF IInv, CountInv
<1> QED
  BY <1>1, <1>2, AlwaysGood, PTL DEF Spec

-----------------------------------------------------------------------------
\* eth and etc never mine together, unless a resize revived one of them.
THEOREM SpecEtherExclusive == Spec => []EtherExclusive
<1>1. IInv => EtherExclusive
  BY DEF IInv, Good, Core, Exclusive, EtherExclusive
<1> QED
  BY <1>1, AlwaysGood, PTL

\* A coin that mines has a listening client, on the pool of its settings.
THEOREM SpecMinesOnItsPool == Spec => []MinesOnItsPool
<1>1. IInv => MinesOnItsPool
  BY DEF IInv, Good, Core, Sound, MinesOnItsPool
<1> QED
  BY <1>1, AlwaysGood, PTL

\* With no signal on its way, the shown states are true.
THEOREM SpecSettledTruth == Spec => []SettledTruth
<1>1. ASSUME IInv, sys.posted = <<>>, ~sys.quit, NEW c \in Coins
      PROVE  Honest(sys.coin[c])
  BY <1>1 DEF IInv, Good, Told, Of
<1>2. IInv => SettledTruth
  BY <1>1 DEF Honest, SettledTruth
<1> QED
  BY <1>2, AlwaysGood, PTL

\* The cores in use are those of the coins shown as running and those leaked, through
\* any number of signals, errors, merges and changes of the number of cores.
THEOREM SpecCoresAccounted == Spec => []CoresAccounted
<1>1. CountInv => CoresAccounted
  BY DEF CountInv, Counted, CoresAccounted
<1> QED
  BY <1>1, AlwaysCounted, PTL

\* The types of the fields: the unsigned count of cores never falls below zero.
THEOREM SpecCoinTypeOK == Spec => []CoinTypeOK
<1>1. ASSUME IInv, CountInv PROVE CoinTypeOK
  <2>1. Shape(sys) /\ sys.leaked \in Nat
    BY <1>1 DEF IInv, Good, Core, CountInv, Counted
  <2>2. Shown(sys) \in SUBSET Coins
    BY DEF Shown
  <2>3. sys.used \in Nat
    BY <1>1, <2>1, <2>2, CoresFinite DEF CountInv, Counted
  <2> QED
    BY <1>1, <2>1, <2>3 DEF Shape, Fields, CountInv, CoinTypeOK
<1> QED
  BY <1>1, AlwaysGood, AlwaysCounted, PTL

=============================================================================
