-------------------------------- MODULE Coin --------------------------------
(***************************************************************************)
(* The coins of a machine without GPUs: what the user asks of a Coin, what *)
(* its engine asks of the MinerImpl, and how the states the MinerImpls     *)
(* announce come back, through queued signals, to the Coins, to the count  *)
(* of cores in use and to the merged-mining check of the CoinManager.      *)
(*                                                                         *)
(* Everything here runs on the main thread.  What makes it hard is that a  *)
(* Coin decides by its m_cpuState, which is as old as the signals that are *)
(* still queued, and that setCpuState, checkMergeMiningInProgress and the  *)
(* signals between them nest.  So the handlers are operators from the      *)
(* state to the next state, and each action is one call or one event.      *)
(*                                                                         *)
(* A MinerImpl is the number of its workers that are not in Exit, and its  *)
(* pool client is the pool it is set to and whether it listens; their      *)
(* inside is in MinerWorker, StratumClient and PoolClient.                 *)
(***************************************************************************)
EXTENDS Integers, Sequences, FiniteSets

CONSTANTS
  Coins,      \* the coin keys
  Ether,      \* the two of the Ethereum family
  Merges,     \* pairs <<c, m>>: c can be mined merged with m
  MaxCores,   \* QThread::idealThreadCount
  NoCoin,     \* no merged mining
  MaxPosted,  \* bound: queued signals
  MaxCalls    \* bound: calls of the user's

ASSUME CoinAssumption ==
  /\ IsFiniteSet(Coins) /\ Ether \subseteq Coins /\ Merges \subseteq Coins \X Coins
  /\ NoCoin \notin Coins /\ "none" \notin Coins \cup {NoCoin}
  /\ \A c, d, e \in Ether : c # d /\ c # e => d = e
  /\ MaxCores \in Nat \ {0} /\ MaxPosted \in Nat \ {0} /\ MaxCalls \in Nat

VARIABLES sys, calls

vars == <<sys, calls>>

Partners(c) == {NoCoin} \cup {m \in Coins : <<c, m>> \in Merges}
Pools == Coins \cup {NoCoin, "none"}

\* A coin as the settings file of an earlier session leaves it, before any start.
NewCoin(running, merged) ==
  [running |-> running, cores |-> 1, merged |-> merged,  \* Settings
   cpu |-> "Stopped",      \* m_cpuState
   timer |-> FALSE,        \* m_hrTimer
   threads |-> 0,          \* getRunningThreadsCount of the MinerImpl
   pool |-> "none",        \* the partner whose pool the client is set to; "none": no MinerImpl
   listening |-> FALSE,    \* the pool client was started and not stopped
   misled |-> FALSE]       \* history: a call acted on what was not, or no longer, so

Init ==
  /\ \E running \in [Coins -> BOOLEAN], merged \in [Coins -> Coins \cup {NoCoin}] :
       /\ \A c \in Coins : merged[c] \in Partners(c)
       /\ sys = [coin |-> [c \in Coins |-> NewCoin(running[c], merged[c])],
                 posted |-> <<>>,   \* cpuStateChangedSignals queued for the engines
                 used |-> 0,        \* msUsedCores
                 leaked |-> 0,      \* history: cores msUsedCores will never give back
                 quit |-> FALSE]
  /\ calls = 0

-----------------------------------------------------------------------------
(* The MinerImpl and its pool client *)

\* Coin c becomes k.
Put(s, c, k) == [s EXCEPT !.coin[c] = k]

Post(s, c, state) == [s EXCEPT !.posted = Append(@, [coin |-> c, state |-> state])]

\* currentPool(): the partner's pool, by the settings.
CurrentPool(k) == k.merged

\* getMinerImpl(): made at the first use, on the current pool.
Made(k) == [k EXCEPT !.pool = IF k.pool = "none" THEN CurrentPool(k) ELSE k.pool]

\* The URL is set, the client is told to listen, the workers are started.  A client
\* that listens already keeps the connection it has, to another pool perhaps.
ImplStart(s, c) ==
  LET k == s.coin[c]
  IN  Post(Put(s, c, [k EXCEPT !.pool = CurrentPool(k), !.listening = TRUE,
                               !.threads = IF k.threads < k.cores THEN k.cores ELSE k.threads,
                               !.misled = k.listening /\ k.pool # CurrentPool(k)]),
           c, "Running")

\* Mutation of ImplStop: a stop that waits for the threads is not announced.
ImplStopSilently(s, c, sync) ==
  LET k == s.coin[c]
      stopped == Put(s, c, [k EXCEPT !.threads = 0, !.listening = FALSE, !.misled = FALSE])
  IN  IF k.pool = "none" THEN s
      ELSE IF sync THEN stopped ELSE Post(stopped, c, "Stopped")

ImplStop(s, c, sync) ==
  LET k == s.coin[c]
  IN  IF k.pool = "none" THEN s
      ELSE Post(Put(s, c, [k EXCEPT !.threads = 0, !.listening = FALSE, !.misled = FALSE]),
                c, "Stopped")

\* setThreadCount: it starts workers, and neither their client nor their threads.
ImplResize(s, c, n) ==
  LET k == Made(s.coin[c])
  IN  Post(Put(s, c, [k EXCEPT !.threads = n, !.misled = k.misled \/ k.threads = 0]),
           c, "Running")

\* switchToPool: a client on another pool is stopped, moved and started.
SwitchToPool(s, c) ==
  LET k == s.coin[c]
  IN  IF k.pool = CurrentPool(k) THEN s
      ELSE Put(s, c, [k EXCEPT !.pool = CurrentPool(k), !.listening = TRUE,
                               !.misled = k.misled \/ k.threads = 0])

-----------------------------------------------------------------------------
(* The shown state, the cores in use and merged mining *)

\* checkMergeMiningInProgress: the partner of a running coin is shown as merged
\* mining, unless it runs itself; a coin so shown that nobody mines is stopped.
MergeState(s, m) ==
  IF \E c \in Coins : s.coin[c].running /\ s.coin[c].merged = m
    THEN IF s.coin[m].running THEN s.coin[m].cpu ELSE "MergedMining"
    ELSE IF s.coin[m].cpu = "MergedMining" THEN "Stopped" ELSE s.coin[m].cpu

Shown(s) == {c \in Coins : s.coin[c].cpu = "Running"}

\* The cores of the coins D together: a pair <<c, i>> for each.
CoresOf(s, D) == Cardinality({x \in D \X (1..MaxCores) : x[2] <= s.coin[x[1]].cores})

\* setCpuState(MergedMining) of a coin shown as running gives no cores back.
Overtaken(s) == {m \in Shown(s) : MergeState(s, m) # "Running"}

CheckMerge(s) ==
  [s EXCEPT !.coin = [m \in Coins |-> [s.coin[m] EXCEPT !.cpu = MergeState(s, m)]],
            !.leaked = @ + CoresOf(s, Overtaken(s))]

\* setCpuState up to its signal: the cores are counted, the state is set.
ShowState(s, c, state) ==
  LET k == s.coin[c]
  IN  [Put(s, c, [k EXCEPT !.cpu = state])
         EXCEPT !.used = CASE state = "Running" -> s.used + k.cores
                           [] state # "Running" /\ k.cpu = "Running" -> s.used - k.cores
                           [] OTHER -> s.used]

\* setCpuState.  Its stateChangedSignal reaches minerStateChanged at once.
SetCpuState(s, c, state) ==
  IF s.coin[c].cpu = state THEN s ELSE CheckMerge(ShowState(s, c, state))

-----------------------------------------------------------------------------
(* The Coin's operations *)

StopCpu(s, c, sync) ==
  LET k == s.coin[c]
  IN  ImplStop(Put(s, c, [k EXCEPT !.timer = FALSE, !.running = k.running /\ sync]), c, sync)

\* stopAll() of the other coin of the Ethereum family.
Exclude(s, c) ==
  IF c \in Ether /\ Ether \ {c} # {}
    THEN StopCpu(s, CHOOSE d \in Ether \ {c} : TRUE, TRUE) ELSE s

\* Mutation of StartCpu: eth and etc are not excluded.
StartCpuNotExcluding(s, c) ==
  ImplStart(Put(s, c, [s.coin[c] EXCEPT !.timer = TRUE, !.running = TRUE]), c)

\* startCpu, which stops the other coin of the Ethereum family first.
StartCpu(s, c) ==
  LET x == Exclude(s, c)
  IN  ImplStart(Put(x, c, [x.coin[c] EXCEPT !.timer = TRUE, !.running = TRUE]), c)

\* Mutation of SetCpuCores: the old number of cores is not given back.
SetCpuCoresAdding(s, c, n) ==
  LET written == Put(s, c, [s.coin[c] EXCEPT !.cores = n])
  IN  CheckMerge(IF s.coin[c].cpu = "Running"
                   THEN ImplResize([written EXCEPT !.used = s.used + n], c, n)
                   ELSE written)

\* setCpuCores, whose cpuCoresChangedSignal reaches minerStateChanged.
SetCpuCores(s, c, n) ==
  LET written == Put(s, c, [s.coin[c] EXCEPT !.cores = n])
  IN  CheckMerge(IF s.coin[c].cpu = "Running"
                   THEN ImplResize([written EXCEPT !.used = s.used - s.coin[c].cores + n], c, n)
                   ELSE written)

\* Mutation of SetMergedMining: the setting is written and the client not moved.
SetMergedMiningOnly(s, c, m) == Put(s, c, [s.coin[c] EXCEPT !.merged = m])

\* setMergedMining: a coin shown as running restarts, that is switches its pool.
SetMergedMining(s, c, m) ==
  LET k == [s.coin[c] EXCEPT !.merged = m]
  IN  IF k.cpu = "Running" THEN SwitchToPool(Put(s, c, Made(k)), c)
      ELSE Put(s, c, [k EXCEPT !.misled = k.misled \/ k.threads > 0])

-----------------------------------------------------------------------------
(* Actions: calls of the user's *)

Call == ~sys.quit /\ calls < MaxCalls /\ Len(sys.posted) < MaxPosted /\ calls' = calls + 1

Start(c) == Call /\ sys' = StartCpu(sys, c)

Stop(c) == Call /\ sys' = StopCpu(sys, c, FALSE)

SetCores(c) ==
  Call /\ \E n \in 1..MaxCores \ {sys.coin[c].cores} : sys' = SetCpuCores(sys, c, n)

SetMerged(c) ==
  Call /\ \E m \in Partners(c) \ {sys.coin[c].merged} : sys' = SetMergedMining(sys, c, m)

\* setCpuRunning, which main calls before the coin's first start.
SetRunning(c) ==
  /\ Call /\ sys.coin[c].pool = "none"
  /\ \E on \in BOOLEAN : sys' = Put(sys, c, [sys.coin[c] EXCEPT !.running = on])

-----------------------------------------------------------------------------
(* Actions: events *)

Event == ~sys.quit /\ UNCHANGED calls

\* poolClientStateChanged, announced when a worker runs.
PoolState(c, state) ==
  /\ Event /\ Len(sys.posted) < MaxPosted
  /\ sys.coin[c].listening /\ sys.coin[c].threads > 0
  /\ sys' = Post(sys, c, state)

\* The engine's cpuStateChanged.  An error switches to the current pool.
Deliver ==
  /\ Event /\ sys.posted # <<>>
  /\ LET e == Head(sys.posted)
         s == [sys EXCEPT !.posted = Tail(@)]
     IN  sys' = SetCpuState(IF e.state = "Error" THEN SwitchToPool(s, e.coin) ELSE s,
                            e.coin, e.state)

\* The hash-rate timer's stateChangedSignal.
Tick(c) == Event /\ sys.coin[c].timer /\ sys' = CheckMerge(sys)

\* A DAG could not be prepared: the coin is shown in error, its workers go on.
PreparingError(c) ==
  /\ Event /\ c \in Ether /\ sys.coin[c].pool # "none" /\ sys.coin[c].cpu = "Running"
  /\ sys' = SetCpuState(sys, c, "Error")

\* CoinManager::exit stops every coin and waits; no loop delivers what they post.
Exit ==
  /\ Event
  /\ sys' = [sys EXCEPT !.quit = TRUE,
                        !.coin = [c \in Coins |-> StopCpu(sys, c, TRUE).coin[c]]]

Next ==
  \/ \E c \in Coins : \/ Start(c) \/ Stop(c) \/ SetCores(c) \/ SetMerged(c) \/ SetRunning(c)
                      \/ PoolState(c, "Running") \/ PoolState(c, "Error")
                      \/ Tick(c) \/ PreparingError(c)
  \/ Deliver \/ Exit

Spec == Init /\ [][Next]_vars

-----------------------------------------------------------------------------
(* Properties *)

States == {"Stopped", "Running", "Error"}
CoinRecord ==
  [running : BOOLEAN, cores : 1..MaxCores, merged : Coins \cup {NoCoin},
   cpu : States \cup {"MergedMining"}, timer : BOOLEAN, threads : 0..MaxCores,
   pool : Pools, listening : BOOLEAN, misled : BOOLEAN]
Signal == [coin : Coins, state : States]

\* The types of the fields.  The count of cores, unsigned in the code, never wraps.
CoinTypeOK ==
  /\ sys \in [coin : [Coins -> CoinRecord], posted : Seq(Signal), used : Nat, leaked : Nat,
              quit : BOOLEAN]
  /\ calls \in 0..MaxCalls

\* msUsedCores, from which the overload of the CPU is told, is the sum of the cores of
\* the coins shown as running, through errors, merged mining and changes of the number
\* of cores, plus those of coins that merged mining has overtaken while still shown
\* as running, whose stop is queued: those are never given back.
CoresAccounted == sys.used = sys.leaked + CoresOf(sys, Shown(sys))

\* When no signal is queued the shown states are true: a coin shown as running has
\* workers, and one that has workers is shown as running or in error.
SettledTruth ==
  sys.posted = <<>> /\ ~sys.quit =>
    \A c \in Coins :
      /\ sys.coin[c].cpu = "Running" => sys.coin[c].threads > 0
      /\ sys.coin[c].threads > 0 => sys.coin[c].cpu \in {"Running", "Error"} \/ sys.coin[c].misled

\* "check for only one running - eth or etc": the two never mine together, unless
\* setCpuCores revived one whose stop was still queued.
EtherExclusive ==
  \A c, d \in Ether :
    c # d /\ sys.coin[c].threads > 0 /\ sys.coin[d].threads > 0
    => sys.coin[c].misled \/ sys.coin[d].misled

\* A coin that mines has a listening client, on the pool of its settings, and the
\* client of a coin that does not mine is stopped, unless a call acted on a shown state
\* that was out of date: setThreadCount starts workers and no client, a restart starts
\* the client of a stopped coin, and a change made in an error waits for the next one.
MinesOnItsPool ==
  \A c \in Coins :
    ~sys.coin[c].misled =>
      /\ (sys.coin[c].listening <=> sys.coin[c].threads > 0)
      /\ sys.coin[c].threads > 0 => sys.coin[c].pool = sys.coin[c].merged /\ sys.coin[c].running
=============================================================================
