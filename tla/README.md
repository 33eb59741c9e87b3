# minergate-cli in TLA+

`minergate-cli` is a console miner: it connects to a mining pool for each coin it
mines, receives jobs, searches nonces on CPU threads and GPUs, and sends the
shares it finds back to the pool.  This directory holds TLA+ modules that model
its core, TLC configurations that check them on small instances, and theorems
proved with TLAPS.  Paths below are relative to `src/sources/`.

## 1. The system

| Component | State it keeps | Operations | Hard because |
|---|---|---|---|
| **Console application** `miner-console-application/src/main.cpp` | the coins named on the command line | start the coins, `exitProc` | stops every coin synchronously from an exit handler |
| **Coin manager** `miner-core/src/coinmanager.cpp` | all coins, the coins running when it was locked | `init`, `lock`, `exit`, `checkMergeMiningInProgress`, `loggedIn` | tells which coins mine merged, from states that arrive late |
| **Coin** `miner-core/src/coin.cpp` | CPU and GPU states, the number of cores, the static `msUsedCores` | `startCpu`, `stopCpu`, `setCpuCores`, `setCpuState`, `setMergedMining`, GPU analogues | core accounting over many transitions; ETH and ETC exclude each other |
| **Engine** `miner-core/src/abstractminerengine.cpp` | the MinerImpl of the coin | forwards, queues the states back | every state arrives through a queued connection |
| **MinerImpl** `miner-impl/src/abstractminerimpl.cpp`, `.../cryptonoteminerimpl.cpp` | current job, fee job, worker list, pool clients | `startCpu`, `stopCpu(sync)`, `setThreadCount`, `updateJob`, `updateFeeJob`, `poolClientStateChanged`, `onShareEvent` | writes the fields of running threads; waits for them without a timeout |
| **CPU workers** `miner-abstract/src/abstractcpuminerworker_p.cpp`, `abstractminerworker.cpp`, `miner-impl/src/cryptonote/cryptonoteworker.cpp` | atomic `m_state`, `m_job`, `m_feeJob`, locals of `startMining` | `startMining`, `search`, setters called by MinerImpl | two threads write `m_state` with no compare-and-set |
| **GPU workers** `miner-abstract/src/gpuminerworker.cpp`, `cudaminer/`, `openclminer/` | the same and device buffers | `start`, `stop`, `updateJob` | the same protocol, with device errors |
| **Nonce control** `miner-abstract/src/noncectl.cpp` | `m_nonce`, `m_isInvalid`, one pair per coin | `nextNonce`, `invalidate`, `restart` | atomic loads and stores, no atomic addition |
| **JSON-RPC client** `qjsonrpc/src/qjsonrpcclient.cpp` | socket, queue of requests, requests in progress, `m_bytes_to_write`, request timer, connect timer | `connectToHost`, `disconnectFromHost`, `reset`, `jsonRpcMethod`, slots of socket and timers | two timers, reconnection, callbacks that reset the client while it reads |
| **Pool client** `miner-impl/src/cryptonote/stratumclient.cpp` | session id, current job id, login timer | `start`, `stop`, `switchToPool`, `submitShare`, adapter slots | login, retry and errors run inside the slots of the JSON-RPC client |
| **Ethereum pool client** `miner-impl/src/ethereum/poolclient.cpp`, `poolthread.cpp` | the same | the same, in its own thread | the same, a worker id that a job may set, and calls that arrive from another thread |
| **DAG controller** `ethereum/ethutils/dagcontroller.cpp` | the DAG of the epoch, the preparation thread | `prepareDag`, `prepareNext`, `clearDag`, `dag` | minutes of work in the background against new epochs and stops |
| **Web API** `miner-core/src/serverapi.cpp`, `networkutils/src/downloadmanager.cpp` | the reply in flight, its timer and interval, the nested loop of `init` | `init`, `poolResp`, `get`, `abort` | each query aborts the one before; an aborted reply ends like any other |
| **Hash rate counter** `miner-abstract/src/hrcounter.cpp` | samples | `append`, average | boundary of the window |
| Settings, logger, hardware info, hash functions and blockchain libraries | | | third-party code, or code without an order of steps |

How they interact.  The main thread runs the console application, the coins, the
MinerImpl of every coin and the CryptoNote pool client, all on one Qt event loop.
Each CPU worker is a `QThread` with its own event loop.  MinerImpl calls setters
of the workers directly, from its own thread; the start goes through a queued
signal, the shares come back as posted events.  The pool client derives from the
JSON-RPC client: the latter's `readyRead` calls an adapter object, whose signals
reach the pool client's slots at once, and whose requests reach the JSON-RPC
client through *queued* connections.  So within one pass of `readyRead` a line can
stop the client, while a request it asks for is queued for later.

What makes the parts correct:

* *workers*: a stop stops, a start starts, a worker is on the job it was last
  given, a share names the pool whose job it solves, a share of the current job
  reaches the pool, the synchronous stop returns;
* *JSON-RPC client*: requests are written in order and once, and settled at most once,
  the timers exclude each other, the count of unwritten bytes never blocks the queue;
* *pool clients*: a client that should mine is never stuck, a stopped one stays
  stopped, a session belongs to a connection;
* *nonce control*: every thread gets a range that has nonces in it, in spite of
  wrapping sums and interleaved loads and stores (that ranges are distinct is
  nowhere promised, and does not hold);
* *coin*: `msUsedCores` is the sum of the running coins' cores, ETH and ETC never
  mine together, a coin mines on the pool of its settings, and the state it shows is
  true once its signals have come;
* *GPU*: a device has one coin's miner at a time, mines only for a coin that asked, a
  stop is obeyed, and a miner that ends by itself is noticed;
* *Web API*: `init()` returns, tells the truth, and the program goes on asking;
* *DAG*: a preparation that fails or is aborted leaves the coin able to mine; a worker
  searches with the DAG of its job's epoch (and never without one, which does not hold).

`PROJECT.json` lists the hazards behind these, each at its line.

## 2. How the modules fit together

| Module | What | Runs | Proofs |
|---|---|---|---|
| `MinerWorker` | MinerImpl and its CPU workers, statement by statement | `worker_safe`, `worker_live`, `worker_fee_job` | `MinerWorkerProofs` |
| `NonceCtl` | the nonce ranges of a coin, load by load and store by store | `nonce_range` | `MinerWorkerProofs` |
| `Requests` | the abstract specification: what becomes of a request | (a property of `pool`) | `JsonRpcProofs` |
| `JsonRpcClient` | the JSON-RPC client, with any adapter and application | through its two adapters | `JsonRpcProofs` |
| `StratumClient` | the CryptoNote pool client, first adapter | `stratum`, `stratum_sleep` | `StratumProofs` |
| `PoolClient` | the Ethereum pool client, second adapter | `pool` | `PoolProofs` |
| `EthereumDag` | DAG controller, EthereumMinerImpl and its workers | `dag`, `dag_null` | `EthereumDagProofs` |
| `Coin` | coins, engines and coin manager: states, cores, exclusion, merged mining | `coin` | `CoinProofs` |
| `GpuMining` | a device and the coins that mine on it | `gpu` | `GpuMiningProofs` |
| `ConfigDownload` | `ServerApi::init`, `poolResp` and the DownloadManager | `config` | `ConfigProofs` |

The pool clients compose with the JSON-RPC client by extension: their slots run inside
its slots.  There are three levels, each shown to implement the next:

    StratumSpec  =>  RpcSpec  =>  Requests!Spec
    PoolSpec     =>  RpcSpec  =>  Requests!Spec

The other modules cut the system where the code does: `Coin` sees of a MinerImpl the
number of workers out of Exit and of a pool client its URL and whether it listens;
`MinerWorker` and `EthereumDag` see of a pool client jobs, shares and errors;
`MinerWorker` sees of a nonce range its length, which `NonceCtl` shows to be positive.

## 3. The modules and the code

### MinerWorker

One coin: MinerImpl on the main thread and `N` worker threads.  `ctl` is the main
thread's program counter: an operation of MinerImpl is a loop over the workers,
each iteration several statements, and every statement that touches a field a
worker reads is a step.  `run[w]` is `startMining` of worker `w`: program counter,
`m_currentJob`, the saved job of a fee search, the fee flag and how much of the
nonce range is left.

| Action | Code |
|---|---|
| `DeliverStart` | the queued `startSignal` enters `startMining`, which stores `UpdateJob` |
| `Switch`, `CopyJob`, `CheckExit`, `SetMining` | the `switch` of `startMining`, the copy under `m_jobMutex`, the test for Exit, the unguarded store of `Mining` |
| `SearchMain`, `SearchFee` | the draw for the fee, the swap of `m_currentJob` |
| `SearchNext`, `Hash`, `SearchEnd` | the loop of `search()`, a posted ShareEvent, the swap back |
| `FinishThread` | the event loop of a quit thread ends |
| `Begin...`, `UpdateFeeJob`, `PoolConnected`, `DeliverCpuState` | the entries of MinerImpl, called by the coin and by the pool clients |
| `StartThread`, `CheckState`, `StopWorker`, `StoreJob`, `RaiseUpdate`, `StoreFeeJob`, `PostStart`, `QuitThread`, `WaitThread`, `Finish` | their statements |
| `OnShareEvent` | the share goes to the pool or is dropped |

`note`, `lost` and `want` are history: the last command the main thread wrote and
the worker has not read, the command a worker's own store wiped out, and the
user's last wish.  No action reads them.

Abstractions: a nonce range is its length; whether a hash meets the target and
whether a round is a fee round are free; jobs are model values; Ethereum's DAG and
the hash counter are left out.  `setThreadCount` and `stopCpu` change the state of
GPU workers nowhere.

### JsonRpcClient

The client lives in one thread, so a slot is atomic, and every slot is an operator
from the client's record `rpc` to its next value (`SendRequest`, `ConnectToHost`,
`SocketError`, ...), composed as the C++ functions call each other.  The exception
is `readyRead`, which calls the adapter after each line: it is `BeginRead`, then one
step for each line, then `HandleEndRead`, with `reading` set in between and every
other slot disabled.

A line is an id and a type; a request an id and a method.  `toServer` and
`fromServer` are the two directions of the TCP connection, `unsent` what the
socket has not reported as written, `lines` what `readyRead`'s text stream has
buffered, which outlives an abort of the socket.  The ids of the code count up
for ever; the model takes one no message holds any longer, which cannot be told
apart and keeps the state space finite.  Host name lookup is part of `Connecting`.
Every request has length 1, so that "partly written" does not occur for one
request, while two requests may be unsent at once when the count was zeroed by
`connectToHost`.

The adapter and the application are unconstrained: a line may lead to a posted
request, to `reset(true)`, `reset(false)` or `disconnectFromHost` (`Reactions`), and
the application may connect, disconnect, or post a request at any time.  That makes
`RpcSpec` the abstract specification of what any pool client can do.

The server answers in order, or not at all, and may notify or fail at any time.

### Requests

The abstract specification has three variables: `open`, the queue of ids and the ids
that wait for an answer.  Its steps are `Proceed` (a request is asked for, the oldest may
be written), `Open`, `Settle` and `Drop`.  `JsonRpcClient!Life` is the instance under
the mapping: `open` is a connected socket, `queue` and `waiting` are the ids of the
client's `queue` and `inProgress`.  `RequestsKept` is its specification.  It says that
requests are written in the order they were asked for, once, on a live connection;
that each is settled at most once; that nothing written outlives its connection; and
that what was dropped never comes back.  Timers, counters, posted calls and `readyRead`
do not occur in it.

### StratumClient

`pool` holds the session id (as a flag) and the login timer; the rest is history:
`served` (the pool has answered a login on this connection), `miscounted`
(`start()` zeroed the count of bytes on a live connection), `want` and `clean`.

| Action | Code |
|---|---|
| `Start`, `Stop`, `SwitchToPool`, `UpdateProxy`, `SubmitShare` | the functions of that name |
| `LoginTimer`, `OnConnected` | `tryLogin`, on the timer and on `connected` |
| `Login`, `GetJob`, `OtherAnswer` | the response slots; `SetNewJob` drops the unwritten requests when the job is new |
| `ShareError`, `SleepError` | the cases of `error()` |
| `Handle(slot)` | the slots of JsonRpcClient the pool client takes no part in |
| `PoolAnswers`, `PoolNotifies`, `PoolIgnores` | the pool |

The pool is assumed to answer, notify and reject shares only on a connection whose
login it has answered; it may answer a login with an error or a refusal, ignore any
request, and fail at any time.  It rejects a share only while fewer than `MaxPending`
requests pend, as the client posts a request for each rejection.

### PoolClient

The Ethereum client runs in a thread of its own (`PoolThread`), whose event loop
delivers the calls of the MinerImpl between two slots: hence the `Idle` in each.

| Action | Code |
|---|---|
| `StartListen`, `StopListen`, `SwitchToPool`, `UpdateProxy`, `SubmitShare` | the calls PoolThread delivers |
| `LoginTimer`, `OnConnected` | `tryLogin`, on the timer and on `connected` |
| `Login`, `GetJob`, `OtherAnswer`, `ShareError`, `SleepError` | the adapter's slots |
| `OnSocketError` | `socketError`, which forgets the worker id |
| `OwnSlot` | the slots of JsonRpcClient the pool client takes no part in |
| `PoolAnswers`, `PoolNotifies`, `PoolIgnores` | the pool, as in StratumClient |

It differs from the CryptoNote client in two ways the model keeps: every job, not only a
new one, drops the requests not yet written, and a job may set the worker id as well as a
login.  A line handled
after `error()` has stopped the client, in the same `readyRead`, may set the worker id of
a stopped client, and `startListen` returns early on it: `WorkerHasConnection` is what
makes that harmless, as `readyRead` then connects.  `miscounted` is history here too: since
the connection came up, `startListen()` zeroed its count of bytes.

### NonceCtl

`nonce` and `invalid` are the atomics of NonceCtlPrivate; `call[t]` is where thread
`t` is in `nextNonce`, its `newNonce` and the last value returned; `main` is how far
`updateJob` is between `invalidate` and the two stores of `restart`.

| Action | Code |
|---|---|
| `Enter` | the call of `nextNonce`; a GPU thread sees `isValid()` first, a CPU thread never looks |
| `Load`, `CheckOverflow`, `Store`, `Return` | `nextNonce`, one access of `m_nonce` each: it is loaded three times and stored once |
| `Invalidate`, `RestartNonce`, `Revalidate` | `updateJob` and `restart` |

A nonce has `Size` values for the 2^64 of a `quint64`, and sums wrap at `Size`.
`raced` is history: a restart fell into a call.  The worker's loop over a range is in
MinerWorker, as a length.

### EthereumDag

`ctl` is DagController: the DAG by its epoch, the seed hash and the progress, which is
0 or 100, as only 100 is ever tested.  `preps[p]` is a preparation thread: its job and
where it is in `prepareDag`.  `impl` is EthereumMinerImpl's job and
`m_preparingInProgress`; `update` is how far `updateJob` is on the main thread, and its job:
preparations and workers run between its statements, while events and the user's calls wait
for its end; `events` is the main thread's queue of jobs and of finished
threads.  A worker is that of MinerWorker without fee, nonces and shares, and with
`m_currentDag`.

| Action | Code |
|---|---|
| `DeliverStart`, `Switch`, `CopyJob`, `CheckExit`, `SetMining` | `startMining`, as in MinerWorker |
| `PrepareCalculation`, `Search` | EthereumWorker's overrides; a search without a DAG ends the program |
| `EnterPrepareDag`, `PrepareFails`, `PrepareCallback`, `PrepareCompletes` | the parts of `prepareDag` between which others may run |
| `ThreadFinishes` | the end of the lambda, and `dagThreadFinished` |
| `HandleJob` | `EthereumMinerImpl::updateJob` as far as `m_preparingInProgress`, which the main thread alone writes: the empty job is given, any other dropped or to be tested |
| `UpdateJob`: `TestProgress`, `TestSeed`, `TestDag` | its looks at DagController's progress, seed hash and DAG, each under the mutex anew |
| `UpdateJob`: `StoreJob`, `StartPreparation` | its ends: the job goes to the workers, or a thread is started |
| `DagThreadFinishedHandler` | the handler: give the job, or only clear the flag |
| `StartCpu`, `SetThreadCount`, `StopCpu` | AbstractMinerImpl's functions, one step each: MinerWorker has their statements |
| `PoolObeys`, `PoolSends` | the pool thread: listens or not, sends a job or, on an error, the empty one |

`overlap` is history: a preparation was started while another had not been handled.
`want` is the user's last command; `setThreadCount` is called for a running coin only.
The hash library rounds its percentage up and then writes the file, so that the
progress may be 100 before `m_dag` is set: hence the 100 of `PrepareCallback`.
Which of the free threads a preparation gets cannot be told apart, and is a CHOOSE.
Left out: the second coin of the DagController, which `eth` and `etc` share (the model has
one coin, and `Coin` the exclusion of the two), the file `prepareNext` writes, `m_isReady`
(which nobody reads), GPUs, the exit of the application, and what the coin shows of the
progress.

### Coin

`sys.coin[c]` is a coin with its settings, its shown state `m_cpuState`, and what matters of
its MinerImpl and pool client; `sys.posted` is the queue of states on their way from the
MinerImpls to the engines; `sys.used` is `msUsedCores`.  All of it is on the main
thread, so each action is one call or one event, and the handlers are operators that call
each other as the code's do: `Deliver` is `SetCpuState`, whose signal reaches
`minerStateChanged` and from there `checkMergeMiningInProgress` at once.

| Action | Code |
|---|---|
| `Start`, `Stop`, `SetCores`, `SetMerged`, `SetRunning` | `startCpu`, `stopCpu`, `setCpuCores`, `setMergedMining`, `setCpuRunning` |
| `PoolState` | `poolClientStateChanged` of a MinerImpl with workers |
| `Deliver` | the engine's `cpuStateChanged`: `setCpuState`, the pool switch on an error |
| `Tick`, `PreparingError` | the hash rate timer, a DAG that could not be prepared |
| `Exit` | `CoinManager::exit` |

The calls are the public interface of the library `miner-core`; the console program uses
some of them (it starts the coins of its command line and those of the settings: with
`--eth 0` a coin starts all the same, with its stored number of cores, `main.cpp:409`
and `:436`), and a graphical front end the rest.  `lock()` and the slot `loggedIn` hang on
signals nothing in the repository emits; `addCustomMiner` and `removeCustomMiner` are
called by nothing, so that the table of coins is fixed.

`misled` and `leaked` are history, and mark two weaknesses the properties are worded
around.  `misled`: `setCpuCores` and `setMergedMining` ask `m_cpuState`, which
stays Running until the queued Stopped comes; called in between, they start the
workers of a stopped coin without its client, or its client without workers.
`leaked`: a coin shown as Running whose stop is queued becomes MergedMining when its
partner is told of, and its cores are then never given back to `msUsedCores`.

### GpuMining

One device and the coins that may have it.  `st[c]` is `m_state` of coin `c`'s worker for
the device, `worker[c]` its thread (place in the loop, queued starts, event loop),
`coin[c]` what the main thread keeps: the persisted setting `gpuRunning`, whether the pool
client listens, finished signals and half-second timers on their way.  `main` is the
operation of the main thread under way and its next statement.

| Action | Code |
|---|---|
| `Deliver`, `Enter` | the start signal: `GPUMinerWorker::startMining` up to the call of the miner |
| `Leave`, `CopyJob`, `Check`, `Store`, `Fail` | the miners' loops: each look at `m_state`, the store of Mining, the failures |
| `Left`, `Finish`, `EndLoop` | the end of `startMining`, the end of the thread's event loop |
| `StartGpu`, `StopGpu` | `Coin::startGpu` with the stop of the coin that has the device, `Coin::stopGpu` |
| `Look`, `Tell`, `Quit`, `Wait`, `Unlisten`, `Begin`, `Post` | the statements of `AbstractMinerImpl::stopGpu` and `startGpu` |
| `Finished`, `TimerFires` | the slots of `finishedSignal` and of its timer |
| `UpdateJob`, `Job` | `updateJob` for this worker |

The four miners (CUDA and OpenCL, CryptoNote and Ethereum) share this control flow; kernels
and buffers are left out.  What a reader of the properties should know of the code: the
device is taken from the *first* coin whose setting says that it runs, and settings
survive a session, so that a coin which only ran yesterday, or the starting coin itself,
may hide the one that runs; a stop right after a start still sees Exit and tells the worker
nothing; a Stopping stored after the worker's Exit stays, and makes every later start
return; the wait of a stop, 2 s, is shorter than the miner's sleep without a job, 3 s; a
start posted to a thread that is quitting waits for the thread's next start.  `missed`
records the cases in which a stop does not reach the worker.

Left out: several devices, coins of different hash families on one device, the exclusion of
`eth` and `etc` (in `Coin`), a coin that mines on CPU and GPU at once, the exit of the
program, and the GPU states a coin shows.

### ConfigDownload

`api` is the main thread: `main()`'s phase, the nested loop of `ServerApi::init` (what it
was told to return), the DownloadManager's reply and timer.  Handlers are operators from the
state to the next, as `QNetworkReply::abort` emits `finished` within the call.

| Action | Code |
|---|---|
| `InitQuery`, `LoopReturns` | the loop of `init()`: query, `loop.exec()`, its return |
| `Start` | `main()` looks up its coins and enters `app.exec()` |
| `PoolTimer`, `Timer`, `AbortCall`, `Interrupt` | the ten seconds of `init`, the DownloadManager's timer, `ServerApi::abort` (a library function the program does not call), SIGINT |
| `Header`, `Answer` | the server |

What a reader of `InitTellsTruth` should know: a reply that is aborted after its header has
the code 200, and so ends `init()` as a success without coins; the DownloadManager's own
five-second timer aborts so.  An empty or malformed answer and SIGINT do the same.  The
fifth query is sent and never waited for; a SIGINT between `init()` and `app.exec()` is
forgotten.

## 4. The runs

| Run | Checks | What it shows | Bounds |
|---|---|---|---|
| `worker_safe` | `CommandsInForce`, `StaleOnlyIfOverwritten`, `ShareNamesItsPool`, `JobNeverRevives` | every interleaving of job updates, starts, stops and resizes with a worker; a stop stays in force until a start or the worker's own store, who was started is in the loop or called to it, and a synchronous stop waits only for workers it has stopped; the only way to a stale job is the worker's own store of `Mining` (or the instant between the two statements of `updateJob`); searches for the user and the fee pool file every share correctly; a job update never revives a stopped worker | 1 worker, 2 jobs and a fee job, ranges of 1 nonce, 2 starts and 1 share queued |
| `worker_live` | `StopObeyed`, `StartObeyed`, `SyncStopReturns`, `ShareDelivered` | stops, starts, the synchronous stop and shares get through; the exceptions each property names are the overwrites above | 1 worker, 1 job |
| `worker_fee_job` | `FeeJobReachesWorker` (violated) | a fee job that comes after the start never reaches the worker | 1 worker |
| `stratum` | `NeverStranded`, `SessionHasConnection`, `CleanStopIsFinal`, `QueueMoves`, `RpcSpec`, `LoginRequested`, `QueueDrains` | the pool client always has a way to a login, a session has its connection, a clean stop is final; a queued request always has a cause that will write or drop it; it implements the JSON-RPC client with any adapter; it logs in again and again; requests leave the queue | 3 ids, 1 request pending, 1 line on its way |
| `stratum_sleep` | `SleepsAfterError` (violated) | after an error the client connects at once | the same |
| `pool` | `PoolNeverStranded`, `WriteAccounted`, `TimersExclude`, `WrittenOnce`, `RequestsKept` | the Ethereum client is never stranded; the JSON-RPC client below it keeps its counter, its timers and its requests, and implements `Requests` | 3 ids, 2 requests pending, 2 lines on their way |
| `nonce_range` | `WholeRange` | no range is empty unless a restart fell into the call | 2 CPU threads and a GPU, ranges of 2 of 7 nonces, random restarts |
| `dag` | `NeverDeaf`, `DagOfSeed`, `SharesOfTheirEpoch`, `JobsComeWithDag`, `MinesAgain` | jobs are dropped only while a preparation exists; a job is taken over only with the DAG of its epoch, or as named below; shares are of the right DAG; the job the pool goes on sending is mined with its DAG, whatever went before | 1 worker, a job of each of 2 epochs, 2 preparations, 1 start and 1 job queued, without overlap |
| `dag_null` | `SearchHasDag` (violated) | a worker searches with no DAG | the same |
| `coin` | `CoresAccounted`, `SettledTruth`, `EtherExclusive`, `MinesOnItsPool` | the count of cores is the sum, the shown states become true, `eth` and `etc` never mine together, and a coin mines on its pool, except for the two weaknesses named above | 4 coins (the Ethereum pair; one coin merged with another), 2 cores, 3 signals queued, 4 calls |
| `gpu` | `OneCoinPerDevice`, `MinesOnlyIfAsked`, `DarkIsNoticed`, `StopStays`, `StopIsObeyed`, `DarkEnds` | a device has one coin's miner unless a stop was missed in one of the named ways; no job wipes out a stop before the miner has found it; a miner that ended is noticed and given up | 2 coins, 3 calls |
| `config` | `InitTellsTruth`, `KeepsAsking`, `InitEnds`, `Refreshed` | `init()` ends and succeeds only with coins or for the reasons named; the program goes on asking and returns to the hour | the 5 queries of the code |

The type invariants (`TypeOK`, `NonceTypeOK`, `RpcTypeOK`, `DagTypeOK`, `CoinTypeOK`,
`GpuTypeOK`) are in no run, because they are theorems (section 5); so are
`WorkerHasConnection`, `PoolStopIsFinal` and `PoolQueueMoves` of the Ethereum client, whose
siblings `stratum` checks.

Why the bounds are enough.  A worker's conflicts are with the main thread only, so
one worker shows all of them; that the order of MinerImpl's loop over several adds nothing
to the safety properties is proved (section 5).  Two jobs tell an old from a new one, and a
range of one nonce has a first step, a last step and an interruption.  Two queued starts are
needed for "a start older than a stop, and a newer one".

For the clients, three ids let one request be queued, one be in progress and one be
answered.  Two requests pending and two unsent bytes are what a miscount needs, and two
lines in one `readyRead` are what "a line handled after a line that stopped the client"
needs: `pool` has both.  `stratum` keeps one line and one posted call for its liveness
properties; its safety properties are proved for every bound.  Ranges of 2 do not divide
7 nonces, so that sums wrap at every offset, and a few calls of two threads pass the whole
width while a third stands between two accesses.

Workers of EthereumDag never meet, so one is enough; a job queued beside a finished thread
gives both orders of the two, and two epochs are what a change takes.  A job in `updateJob`
and a disowned thread that has not entered `prepareDag` give the race between the two.  The run leaves a
behaviour where preparations begin to overlap (`NoOverlap`): only `NeverDeaf` says anything
of what follows, and `AlwaysListens` proves it.

In `coin` three queued signals are a start, a stop and a start of one coin, or those of
two coins mixed; four calls are two coins started, one changed and one stopped.  In `gpu`
two coins conflict over the device and three calls are start, take over, and stop or start
again; `GpuMiningProofs` has any number of each.  `MaxQueries` is the code's own.

The three properties the code violates (`findings` in `PROJECT.json`):

* `abstractcpuminerworker_p.cpp:51` says 2% of the CPU time goes to the fee pool;
  `updateFeeJob` (`abstractminerimpl.cpp:332`) keeps the job in MinerImpl, so
  workers that are already running never get one;
* `stratumclient.cpp:243` (and `:248`) logs "disconnect and sleep...", but `error()` runs inside
  `readyRead`, whose last statement `sendRequest()` connects again;
* `ethereumworker.cpp:54` asserts that a search has a DAG; a preparation for the next
  epoch drops the old DAG at once, so a worker that has just copied the previous job, or
  is started by `setThreadCount` meanwhile, takes a null one.

Behaviour of the code the properties are worded around, worth knowing: a stop may
be lost to a worker's store of `Mining` (`want = "revived"`), and the synchronous
stop then waits for ever; a stopped pool client may reconnect through a request
timer that was left running, a request posted before the stop, or a proxy change
(`clean`); `start()` on a live connection makes the byte count pass by 0
(`miscounted`); a refused login leaves the client connected and silent: `NeverStranded`
promises a running request timer, or a posted call that will start it, until a login is
answered on the connection, and nothing of the connection afterwards.  Any answer
stops the one timer (`qjsonrpcclient.cpp:272`); that none but the login's comes first is the
assumption on the pool above.  The overflow check
of `noncectl.cpp:43` compares the sum with a second load of `m_nonce`: when other threads
have taken two ranges since the first, the counter falls back to its first range without an
overflow, and hashes are computed again.

Preparations overlap although `ethereumminerimpl.cpp:122` and `:128` drop jobs while one
is under way: a stop clears `m_preparingInProgress`, and the progress is 100 until the
first thread has entered `prepareDag` and again from its last callback on.  Then `m_dag`
may end up of another epoch than `m_seedHashData`, and every job of that epoch is mined
with the wrong DAG until the epoch changes: that is what `overlap` excepts from
`DagOfSeed` and `SharesOfTheirEpoch`.

A thread disowned so may also wait for its turn until `updateJob` has found the seed hash
and the DAG of a new job in place (`ethereumminerimpl.cpp:133`), and then drop the DAG
(`dagcontroller.cpp:151`) before the job is stored (`abstractminerimpl.cpp:314`).  The job
is then taken over without its DAG, although no preparations overlap: the second exception
of `JobsComeWithDag` (`At("store") /\ Entered`).  A worker that takes the DAG meanwhile
finds none, as in `dag_null`, or the one of the disowned thread's epoch until that thread's
end is handled, which `SharesOfTheirEpoch` excepts; `MinesAgain` says that the coin recovers.

### Fairness

`MinerWorker!FairSpec`: weak fairness of each worker thread and of the main
thread's current operation, as the operating system schedules threads and every
loop ends by itself or on a state it reads; strong fairness of `OnShareEvent`,
because a posted event is handled although other events come before it.  The
user and the pools are free never to act.

`StratumClient!FairStratumSpec`: weak fairness of the steps of `readyRead`, of the
connect and request timers and of the posted calls, which the event loop visits in
turn; strong fairness where lines that keep arriving, or connections that keep
failing, disable a slot in between: the bytes written, and the calls posted while
the client is connected.  Strong fairness of `OnConnected` says that the host is
reachable again and again; without it nothing could be promised.  The pool need not
answer, the application need not act, and the login timer need not fire: the client
logs in without it, because it reconnects at once after an error.

`EthereumDag!FairDagSpec`: weak fairness of every worker, of every preparation thread
and of the main thread, which handles its queue and goes through `updateJob`, as the operating system schedules
threads and an event loop takes its events in order; and weak fairness of the end of a
preparation, as the callback may report only so much progress.  The user, the pool and
failures are free; `MinesAgain` assumes of them what it says.

`GpuMining!Spec`: weak fairness of the main thread and of each worker's own steps; copying a
job is left out of the latter, as a pool need not send one and the miner then sleeps and
looks again.  `DarkEnds` and `StopIsObeyed` need nothing of the user or the pools.

`ConfigDownload!Spec`: weak fairness of `init`'s steps and of the two timers; strong fairness
of a header and of a good answer, that is, the server is well again and again.  `InitEnds`
does not need the latter: the timers and the count of queries end it.

`Coin` and `PoolClient` have no liveness property: what `SettledTruth` says of the moments
when no signal is queued needs no fairness, and the liveness of the pool client is checked
on its CryptoNote sibling.

## 5. The proofs

`MinerWorkerProofs` proves, for any number of workers, any jobs, any length of range
and any bound on queues (`MinerWorkerAssumption`):

* `TypeCorrect`: `Spec => []TypeOK`, by one step per action;
* `SharesFiled`: `Spec => []ShareNamesItsPool`.  The inductive invariant `KindInv`
  says where each pool's jobs may be: the fields of MinerImpl and `m_job` hold the
  user's jobs and `m_feeJob` the fee pool's (`FieldKinds`); the worker's copy and
  saved job agree with its fee flag at every program point (`RunKinds`); a worker
  that searches has a job at all (`MiningInv`), or it would report a share of the
  empty job;
* `StaleJobs`: `Spec => []StaleOnlyIfOverwritten`.  Its invariant `StaleInv` adds
  that the copy equals `m_job` unless an `UpdateJob` or Exit is unread (`CopyInv`) and
  that the main thread's loop is where its operation can be (`IdleInv`);
* `UpdateNeverRevives`: `Spec => JobNeverRevives`, an action property.  Only the main
  thread stores Exit, and between the test and the store of `updateJob` it is there;
* `CommandsStayInForce`: `Spec => []CommandsInForce`, the safety half of the stops and starts
  that `worker_live` checks.  Its invariant `CommandInv` ties the user's last command to
  the state and the place of each worker (`CommandOf`), and says how far the main thread is
  with the workers: between `updateJob`'s test and store its target stays out of Exit
  (`TargetRuns`), and in a stop those before `ctl.i` have been told (`StopProgress`).

The same module proves of `NonceCtl`, for any number of threads, any length of range and
any width of a nonce larger than the range (`NonceCtlAssumption`):

* `NonceTypeCorrect`: `NonceSpec => []NonceTypeOK`;
* `RangesWhole`: `NonceSpec => []WholeRange`.  `WholeRange` only speaks of the value
  returned last.  Its invariant `AtLeastReserve` follows the value through the call:
  a sum that has wrapped is below `m_nonce` at the check, and stays so whatever the
  others store, as they store at least `Reserve`; hence so does this thread.

`EthereumDagProofs` proves, for any number of workers, jobs, epochs and preparation
threads (`EthereumDagAssumption`):

* `DagTypeCorrect`: `DagSpec => []DagTypeOK`, with the fact that a preparation has a job;
* `JobsHaveTheirDag`: `DagSpec => JobsComeWithDag`, an action property, from `EpochInv` below:
  its part `UpdateOfDag` says that what `updateJob` has seen between its statements, the seed
  hash and then the DAG, holds still, or a preparation has entered `prepareDag` (`Entered`);
* `AlwaysListens`: `DagSpec => []NeverDeaf`.  Its invariant `EventInv` says that a
  finished event in the queue names a thread that has ended, and that there is one at
  most for each: otherwise the handler could give back a thread that is at work;
* `SeedDescribesDag`: `DagSpec => []DagOfSeed`.  `EpochInv` says that without overlap one
  preparation exists (`OnePrep`), what each part of `prepareDag` has left in the
  controller (`PrepDag`), and that the main thread's job fits the DAG (`JobOfDag`);
* `SharesFitEpoch`: `DagSpec => []SharesOfTheirEpoch`.  `WorkerInv` adds that a worker
  whose state is Mining has got past `SetMining`, so that every change of the main
  thread's job ends its mining before it can use a DAG of another epoch.

`JsonRpcProofs` proves, for any methods, ids and bounds, with any adapter and application:

* `AlwaysGood`: the inductive invariant `IInv`, and from it `SpecRpcTypeOK`,
  `SpecWriteAccounted`, `SpecTimersExclude` and `SpecWrittenOnce`.  Four parts: `Shape` (the
  types), `Counted` (the byte count is right from the start of an attempt to connect, not
  only on a connection: an attempt may succeed while the count of the last one is left),
  `OneTimer`, and `Distinct` (no request is both queued and in progress, nor queued
  twice).  One lemma for each slot function says that it keeps the invariant of its
  argument and what it does to the requests; the slots are then composed as the code
  composes them;
* `ImplementsRequests`: `RpcSpec => RequestsKept`, the refinement.  Each lemma above also
  classifies its slot (`Same`, `Cleared`, `Sent`, `Settled`, ...), and `StepMaps` maps each
  class to an abstract step; `Distinct` is needed, as without it settling one request could
  take another of the same id along.

A last section of `JsonRpcProofs` holds what both clients need for the movement of the
queue.  `Counted` only bounds the count of bytes; `Flow` is exact: unless `connectToHost` was
called on this connection with bytes unsent, the count is that of the socket, 0 or 1, and a
queued request has a connection on its way, a posted call, or a byte unreported.  One
lemma per function shows that it keeps `Flow`, also between the lines of one `readyRead`.

`StratumProofs` and `PoolProofs` prove, for any ids and bounds:

* `StratumIsRpc`, `PoolIsRpc`: each client implements `RpcSpec`, so that everything above
  holds of it; `StratumKeepsRequests` and `PoolKeepsRequests` go on to `Requests`;
* `SpecNeverStranded`, `SpecSessionHasConnection`, `SpecCleanStopIsFinal`, and for the
  Ethereum client `SpecPoolNeverStranded`, `SpecWorkerHasConnection`, `SpecPoolStopIsFinal`.
  Each module's invariant `PInv` rests on `Link`, which ties the connection to what is in
  flight: only a connection carries anything, and while the login of one is unanswered the
  request timer runs, or a call is posted that will be written and start it.  `Link` is kept by
  each function of the JSON-RPC client by a lemma of `JsonRpcProofs`, so that both
  clients use it;
* `SpecQueueMoves` and `SpecPoolQueueMoves`, from `Flow`: `miscounted` covers every way in
  which the count can be forgotten on a live connection.

`CoinProofs` proves, for any coins, partners, cores, calls and queued signals
(`CoinAssumption`):

* `AlwaysGood`: the invariant `IInv`.  Its heart is `Told`: the *last* signal queued for a
  coin tells whether it has workers, and without one the shown state does;
* `SpecSettledTruth`, `SpecEtherExclusive`, `SpecMinesOnItsPool` from it;
* `AlwaysCounted`, and from it `SpecCoresAccounted` and `SpecCoinTypeOK`.  A sum over the coins
  shown as running would be a fold, which only an induction could open; the model counts
  instead the pairs of a coin and one of its cores, so that a change of one coin is the
  difference of two disjoint finite sets, and the theorems on cardinalities apply.  Hence
  the assumption that the coins are finitely many.  `leaked` carries the cores that merged
  mining leaves behind.  The unsigned count of the code never passes below 0.

`GpuMiningProofs` proves, for any number of coins and calls (`GpuAssumption`):

* `SpecGpuTypeOK`, `SpecOneCoinPerDevice`, `SpecMinesOnlyIfAsked`, `SpecDarkIsNoticed`, and the
  action property `SpecStopStays`, from the invariant `GInv`. A coin is `Down` when its
  worker will not enter the miner again or will leave it; `Apart` says that of two coins
  one is down, `Ordered` what the main thread has achieved at each statement: after a stop
  its coin is down, and before a start all the others are. That a coin found by its
  setting exists takes a least element, by the well-founded induction of the library. For
  `SpecStopStays`, `Ordered` also says that when `updateJob` is about to store, and
  Stopping has come since its test, the worker is on its way out: the test takes no lock,
  and what is stored after it is a failing miner's own.

`ConfigProofs` proves, for any number of queries (`ConfigAssumption`):

* `AlwaysGood`: the invariant `Good` of `api`, by one lemma for each handler, which `abort`
  composes as the code does;
* `SpecInitTellsTruth`, `SpecKeepsAsking`, and `SpecInitBounded`: `init()` makes at most
  `MaxQueries` queries and, once aborted or told to quit, waits no longer.

Each action has its own step, and each conjunct the action can disturb its own
sub-step; the temporal step is `PTL`.

Model-checked only: the liveness properties, as TLAPS 1.4.5 proves neither ENABLED nor
what follows from fairness.  Every invariant and action property of a passing run is a
theorem, and of most liveness properties the safety half is one of them: that what fairness
is to bring about is always on its way.

| Liveness (TLC) | What is proved of it |
|---|---|
| `StopObeyed`, `StartObeyed`, `SyncStopReturns` | `CommandsInForce` |
| `LoginRequested` | `NeverStranded` |
| `QueueDrains` | `QueueMoves` |
| `MinesAgain` | `NeverDeaf`, `JobsComeWithDag` |
| `StopIsObeyed` | `StopStays` |
| `DarkEnds` | `DarkIsNoticed` |
| `InitEnds` | `InitBounded` |
| `Refreshed` | `KeepsAsking` |
| `ShareDelivered` | nothing: only that a share is filed under the right pool (`ShareNamesItsPool`) |

The violated properties are refuted by TLC's behaviours and need no proof.

## 6. Not modelled

* The hash functions and blockchain libraries (most of the repository's lines: a fork of
  the CryptoNote node, Crypto++ and ethash): third-party code of which the miner calls the
  hashes.  A hash is a step of a search whose outcome is free.
* OpenCL and CUDA calls, kernels, the tuning of a batch.
* `hrcounter.cpp`: an average of doubles for display, which decides nothing.
* `main.cpp`: command line and output; its calls are among the free calls of the models.
* Settings, logging, hardware queries, the text of JSON messages.
* Of `ServerApi`, what is behind a login, and `DownloadManager::post`: nothing in the
  repository reaches them.
* `CoinManager::lock`, `addCustomMiner`, `removeCustomMiner` and the slots of login signals, for
  the same reason.
* Of `EthereumDag`: the file `prepareNext` writes for the next epoch, the benchmark's DAG, and
  the second coin: `eth` and `etc` share one DagController, of which the model has one user.
* Whether two threads search the same nonces: they may (section 4), and nothing in the
  repository says they must not.
* A range that crosses 2^32, which `cryptonoteworker.cpp:37` cuts to 32 bits: `NonceCtl` has
  one width.
