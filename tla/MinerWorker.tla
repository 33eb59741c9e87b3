---------------------------- MODULE MinerWorker ----------------------------
(***************************************************************************)
(* The CPU mining workers of one coin and the MinerImpl that drives them.  *)
(*                                                                         *)
(* MinerImpl runs on the main thread.  Its operations (startCpu, stopCpu,  *)
(* setThreadCount, updateJob, updateFeeJob, poolClientStateChanged) write  *)
(* the fields of every worker one after the other while the workers run,   *)
(* so each operation is a loop here too: ctl says which operation is under *)
(* way, at which worker and at which statement.                            *)
(*                                                                         *)
(* A worker is a QThread whose event loop runs startMining when a queued   *)
(* startSignal is delivered.  Between the two sides there is no protocol   *)
(* but the atomic m_state, which both write, and two mutexes that make the *)
(* copies of the jobs atomic.                                              *)
(***************************************************************************)
EXTENDS Naturals, Sequences

CONSTANTS
  N,          \* number of workers (QThread::idealThreadCount)
  MainJobs,   \* jobs of the user's pool
  FeeJobs,    \* jobs of the developer-fee pool
  NoJob,      \* the default-constructed MiningJob, whose job_id is empty
  Fee,        \* m_fee: this coin mines for the fee pool too
  Interval,   \* nonces of one range, NONCE_INTERVAL in the code
  MaxStarts,  \* bound: startSignals queued at one worker
  MaxShares   \* bound: ShareEvents queued at the MinerImpl

ASSUME MinerWorkerAssumption ==
  /\ N \in Nat \ {0} /\ Interval \in Nat \ {0}
  /\ MaxStarts \in Nat \ {0} /\ MaxShares \in Nat \ {0}
  /\ MainJobs \cap FeeJobs = {}
  /\ NoJob \notin MainJobs \cup FeeJobs
  /\ Fee \in BOOLEAN

Workers == 1..N
Jobs == MainJobs \cup FeeJobs \cup {NoJob}

VARIABLES
  m_state,   \* [Workers -> {"Exit", "UpdateJob", "Mining"}], written by both threads
  m_job,     \* under m_jobMutex
  m_feeJob,  \* under m_feeJobMutex
  run,       \* startMining of each worker: where it is, m_currentJob and the locals
  starts,    \* queued startSignals of each worker
  thread,    \* "running", "quitting" (after quit) or "finished"
  impl,      \* the MinerImpl's own fields
  ctl,       \* the operation the main thread is in
  shares,    \* ShareEvents posted to the MinerImpl and not yet handled
  \* history, read by no action but of use to the properties
  note,      \* the last command written to m_state, until the worker reads it
  lost,      \* the command a worker overwrote
  want       \* the last command of the user's, "run" or "stop"; "revived" once the
             \* worker itself has overwritten a stop

history == <<note, lost, want>>
vars == <<m_state, m_job, m_feeJob, run, starts, thread, impl, ctl, shares, history>>

NotMining == [pc |-> "idle", currentJob |-> NoJob, originJob |-> NoJob,
              feeMode |-> FALSE, left |-> 0]

Idle == [op |-> "none", step |-> "none", i |-> 1, n |-> 0, sync |-> FALSE]

Init ==
  /\ m_state = [w \in Workers |-> "Exit"]
  /\ m_job = [w \in Workers |-> NoJob]
  /\ m_feeJob = [w \in Workers |-> NoJob]
  /\ run = [w \in Workers |-> NotMining]
  /\ starts = [w \in Workers |-> 0]
  /\ thread = [w \in Workers |-> "running"]
  /\ impl = [job |-> NoJob, feeJob |-> NoJob, emitted |-> "Stopped",
             coinState |-> "Stopped", sent |-> NoJob]
  /\ ctl = Idle
  /\ shares = <<>>
  /\ note = [w \in Workers |-> "none"]
  /\ lost = [w \in Workers |-> "none"]
  /\ want = [w \in Workers |-> "stop"]

-----------------------------------------------------------------------------
(* The worker's thread.  It writes run, m_state, starts, thread and shares. *)

Goto(w, label) == run' = [run EXCEPT ![w].pc = label]

Read(w) == note' = [note EXCEPT ![w] = "none"]

\* The event loop delivers a startSignal: startMining is entered and m_state set.
\* When the last command was a stop, the signal is older than that stop.
DeliverStart(w) ==
  /\ run[w].pc = "idle" /\ starts[w] > 0 /\ thread[w] # "finished"
  /\ starts' = [starts EXCEPT ![w] = @ - 1]
  /\ m_state' = [m_state EXCEPT ![w] = "UpdateJob"]
  /\ want' = [want EXCEPT ![w] = IF @ = "stop" THEN "revived" ELSE @]
  /\ Read(w) /\ Goto(w, "switch")
  /\ UNCHANGED <<thread, shares, lost>>

\* Mutation of Switch: no case for Exit, which falls through to the search.
SwitchIgnoringExit(w) ==
  /\ run[w].pc = "switch"
  /\ Goto(w, IF m_state[w] = "UpdateJob" THEN "copy" ELSE "choose") /\ Read(w)
  /\ UNCHANGED <<m_state, starts, thread, shares, lost, want>>

\* switch (m_state)
Switch(w) ==
  /\ run[w].pc = "switch"
  /\ Goto(w, CASE m_state[w] = "Exit"      -> "idle"
               [] m_state[w] = "UpdateJob" -> "copy"
               [] m_state[w] = "Mining"    -> "choose")
  /\ Read(w)
  /\ UNCHANGED <<m_state, starts, thread, shares, lost, want>>

\* The copy of m_job, under m_jobMutex.  A job update posted up to here is seen.
CopyJob(w) ==
  /\ run[w].pc = "copy"
  /\ run' = [run EXCEPT ![w].pc = "check", ![w].currentJob = m_job[w]]
  /\ note' = [note EXCEPT ![w] = IF @ = "job" THEN "none" ELSE @]
  /\ lost' = [lost EXCEPT ![w] = IF @ = "job" THEN "none" ELSE @]
  /\ UNCHANGED <<m_state, starts, thread, shares, want>>

\* if (m_state == Exit) return
CheckExit(w) ==
  /\ run[w].pc = "check"
  /\ IF m_state[w] = "Exit" THEN Goto(w, "idle") /\ Read(w)
                            ELSE Goto(w, "set") /\ UNCHANGED note
  /\ UNCHANGED <<m_state, starts, thread, shares, lost, want>>

\* With a job, m_state becomes Mining whatever it holds by now: a command written
\* since it was read is gone.  Without a job the worker sleeps and goes round.
SetMining(w) ==
  /\ run[w].pc = "set"
  /\ IF run[w].currentJob = NoJob
       THEN Goto(w, "switch") /\ UNCHANGED <<m_state, note, lost, want>>
       ELSE /\ m_state' = [m_state EXCEPT ![w] = "Mining"]
            /\ lost' = [lost EXCEPT ![w] = IF note[w] = "none" THEN @ ELSE note[w]]
            /\ want' = [want EXCEPT ![w] = IF note[w] = "stop" THEN "revived" ELSE @]
            /\ Read(w) /\ Goto(w, "choose")
  /\ UNCHANGED <<starts, thread, shares>>

\* A range from the coin's NonceCtl, searched for the user's pool.
SearchMain(w) ==
  /\ run[w].pc = "choose"
  /\ run' = [run EXCEPT ![w].pc = "search", ![w].feeMode = FALSE, ![w].left = Interval]
  /\ UNCHANGED <<m_state, starts, thread, shares, note, lost, want>>

\* 2 rounds of 100: the fee job takes the place of the current one.  Without a
\* fee job the current one is put back and the loop continues.
SearchFee(w) ==
  /\ run[w].pc = "choose" /\ Fee
  /\ IF m_feeJob[w] = NoJob
       THEN Goto(w, "switch")
       ELSE run' = [run EXCEPT ![w] = [pc |-> "search", currentJob |-> m_feeJob[w],
                                       originJob |-> run[w].currentJob, feeMode |-> TRUE,
                                       left |-> Interval]]
  /\ UNCHANGED <<m_state, starts, thread, shares, note, lost, want>>

\* The head of search()'s loop: the next nonce while m_state is Mining.
SearchNext(w) ==
  /\ run[w].pc = "search" /\ run[w].left > 0 /\ m_state[w] = "Mining"
  /\ run' = [run EXCEPT ![w].pc = "hash", ![w].left = @ - 1]
  /\ UNCHANGED <<m_state, starts, thread, shares, note, lost, want>>

\* One hash.  When it meets the target a ShareEvent is posted to MinerImpl.
Hash(w) ==
  /\ run[w].pc = "hash"
  /\ \/ UNCHANGED shares
     \/ /\ Len(shares) < MaxShares
        /\ shares' = Append(shares, [job |-> run[w].currentJob, fee |-> run[w].feeMode])
  /\ Goto(w, "search")
  /\ UNCHANGED <<m_state, starts, thread, note, lost, want>>

\* Mutation of SearchEnd: the fee job stays in m_currentJob.
SearchEndKeepingFeeJob(w) ==
  /\ run[w].pc = "search"
  /\ run[w].left = 0 \/ m_state[w] # "Mining"
  /\ run' = [run EXCEPT ![w] = [NotMining EXCEPT !.pc = "switch", !.currentJob = run[w].currentJob]]
  /\ UNCHANGED <<m_state, starts, thread, shares, note, lost, want>>

\* search() returns: the range is done or m_state is no longer Mining.  After a
\* fee search the user's job is put back.  The locals go out of scope.
SearchEnd(w) ==
  /\ run[w].pc = "search"
  /\ run[w].left = 0 \/ m_state[w] # "Mining"
  /\ LET job == IF run[w].feeMode THEN run[w].originJob ELSE run[w].currentJob
     IN  run' = [run EXCEPT ![w] = [NotMining EXCEPT !.pc = "switch", !.currentJob = job]]
  /\ UNCHANGED <<m_state, starts, thread, shares, note, lost, want>>

\* A quit thread leaves exec() once startMining has returned; a startSignal still
\* queued may be delivered first or stay in the queue.
FinishThread(w) ==
  /\ run[w].pc = "idle" /\ thread[w] = "quitting"
  /\ thread' = [thread EXCEPT ![w] = "finished"]
  /\ UNCHANGED <<m_state, run, starts, shares, note, lost, want>>

Worker(w) ==
  /\ \/ DeliverStart(w) \/ Switch(w) \/ CopyJob(w) \/ CheckExit(w) \/ SetMining(w)
     \/ SearchMain(w) \/ SearchFee(w) \/ SearchNext(w) \/ Hash(w) \/ SearchEnd(w)
     \/ FinishThread(w)
  /\ UNCHANGED <<m_job, m_feeJob, impl, ctl>>

-----------------------------------------------------------------------------
(* The main thread: what the user and the pools ask of it. *)

Begin(op, n, sync) ==
  ctl' = [op |-> op, step |-> "worker", i |-> 1, n |-> n, sync |-> sync]

RoomForStart(n) == \A w \in 1..n : starts[w] < MaxStarts

BeginStartCpu(n) ==
  /\ RoomForStart(n)
  /\ Begin("start", n, FALSE)
  /\ UNCHANGED impl

BeginStopCpu(sync) == Begin("stop", 0, sync) /\ UNCHANGED impl

\* Coin::setCpuCores calls setThreadCount when the state it knows is Running.
BeginSetThreadCount(n) ==
  /\ impl.coinState = "Running" /\ RoomForStart(n)
  /\ Begin("resize", n, FALSE)
  /\ UNCHANGED impl

\* newJobSignal of the pool client, which stays connected to updateJob when mining
\* is stopped; the empty job is what the client sends on a pool error.
BeginUpdateJob(job) ==
  /\ Begin("update", 0, FALSE)
  /\ impl' = [impl EXCEPT !.job = job]

\* newJobSignal of the fee client: stored, and that is all.
UpdateFeeJob(job) ==
  /\ Fee
  /\ impl' = [impl EXCEPT !.feeJob = job]
  /\ UNCHANGED ctl

RunningThreads == {w \in Workers : m_state[w] # "Exit"}

PoolConnected ==
  /\ RunningThreads # {}
  /\ impl' = [impl EXCEPT !.emitted = "Running"]
  /\ UNCHANGED ctl

\* PoolState::Error: the workers get the empty job, then the state is announced.
BeginPoolError ==
  /\ Begin("error", 0, FALSE)
  /\ impl' = [impl EXCEPT !.job = NoJob]

\* cpuStateChanged reaches the Coin through a queued connection.
DeliverCpuState ==
  /\ impl.coinState # impl.emitted
  /\ impl' = [impl EXCEPT !.coinState = impl.emitted]
  /\ UNCHANGED ctl

Environment ==
  /\ ctl.op = "none"
  /\ \/ \E n \in 1..N : BeginStartCpu(n) \/ BeginSetThreadCount(n)
     \/ \E sync \in BOOLEAN : BeginStopCpu(sync)
     \/ \E job \in MainJobs \cup {NoJob} : BeginUpdateJob(job)
     \/ \E job \in FeeJobs \cup {NoJob} : UpdateFeeJob(job)
     \/ PoolConnected \/ BeginPoolError \/ DeliverCpuState
  /\ UNCHANGED <<m_state, m_job, m_feeJob, run, starts, thread, shares, history>>

-----------------------------------------------------------------------------
(* The main thread: the loop over the workers, one statement at a time. *)

GotoStep(step) == ctl' = [ctl EXCEPT !.step = step]

\* The next worker of the loop, or the statements after the loop.
NextWorker(step, after) ==
  ctl' = IF ctl.i < (IF ctl.op = "start" THEN ctl.n ELSE N)
           THEN [ctl EXCEPT !.i = @ + 1, !.step = step]
           ELSE [ctl EXCEPT !.i = 1, !.step = after]

\* What the main thread writes into m_state is a command the worker must read.
Command(w, state, kind) ==
  /\ m_state' = [m_state EXCEPT ![w] = state]
  /\ note' = [note EXCEPT ![w] = kind]
  /\ lost' = [lost EXCEPT ![w] = "none"]

StartThread ==
  /\ ctl.op = "start" /\ ctl.step = "worker"
  /\ thread' = [thread EXCEPT ![ctl.i] = IF @ = "finished" THEN "running" ELSE @]
  /\ GotoStep("job")
  /\ UNCHANGED <<m_state, m_job, m_feeJob, starts, impl, history>>

\* Mutation of CheckState: a job goes to every worker, the stopped ones too.
CheckNothing ==
  /\ ctl.op \in {"update", "error"} /\ ctl.step = "worker"
  /\ GotoStep("job")
  /\ UNCHANGED <<m_state, m_job, m_feeJob, starts, thread, impl, history>>

\* getState() against Exit, read here and acted upon in the next steps: a job goes
\* to the workers that run, setThreadCount starts those that do not.
CheckState ==
  /\ ctl.step = "worker"
  /\ ctl.op \in {"update", "error"} \/ (ctl.op = "resize" /\ ctl.i <= ctl.n)
  /\ IF (m_state[ctl.i] = "Exit") = (ctl.op = "resize")
       THEN GotoStep("job") ELSE NextWorker("worker", "finish")
  /\ UNCHANGED <<m_state, m_job, m_feeJob, starts, thread, impl, history>>

\* stop(): setState(Exit)
StopWorker ==
  /\ ctl.step = "worker"
  /\ ctl.op = "stop" \/ (ctl.op = "resize" /\ ctl.i > ctl.n)
  /\ Command(ctl.i, "Exit", "stop")
  /\ want' = [want EXCEPT ![ctl.i] = "stop"]
  /\ NextWorker("worker", IF ctl.sync THEN "quit" ELSE "finish")
  /\ UNCHANGED <<m_job, m_feeJob, starts, thread, impl>>

\* updateJob(): the job under m_jobMutex ...
StoreJob ==
  /\ ctl.step = "job"
  /\ m_job' = [m_job EXCEPT ![ctl.i] = impl.job]
  /\ GotoStep("state")
  /\ UNCHANGED <<m_state, m_feeJob, starts, thread, impl, history>>

Starting == ctl.op \in {"start", "resize"}

\* Mutation of RaiseUpdate: a worker that already mines is not interrupted.
RaiseUnlessMining ==
  /\ ctl.step = "state"
  /\ IF m_state[ctl.i] = "Mining" THEN UNCHANGED <<m_state, note, lost>>
                                  ELSE Command(ctl.i, "UpdateJob", "job")
  /\ want' = [want EXCEPT ![ctl.i] = IF Starting THEN "run" ELSE @]
  /\ IF Starting THEN GotoStep("fee") ELSE NextWorker("worker", "finish")
  /\ UNCHANGED <<m_job, m_feeJob, starts, thread, impl>>

\* ... then, with the mutex released, setState(UpdateJob).
RaiseUpdate ==
  /\ ctl.step = "state"
  /\ Command(ctl.i, "UpdateJob", "job")
  /\ want' = [want EXCEPT ![ctl.i] = IF Starting THEN "run" ELSE @]
  /\ IF Starting THEN GotoStep("fee") ELSE NextWorker("worker", "finish")
  /\ UNCHANGED <<m_job, m_feeJob, starts, thread, impl>>

\* updateFeeJob(), under m_feeJobMutex
StoreFeeJob ==
  /\ ctl.step = "fee"
  /\ m_feeJob' = [m_feeJob EXCEPT ![ctl.i] = impl.feeJob]
  /\ GotoStep("post")
  /\ UNCHANGED <<m_state, m_job, starts, thread, impl, history>>

\* Mutation of PostStart: no signal to a worker that "runs", updateJob having
\* just taken it out of Exit.
PostStartIfStopped ==
  /\ ctl.step = "post"
  /\ starts' = [starts EXCEPT ![ctl.i] = IF m_state[ctl.i] = "Exit" THEN @ + 1 ELSE @]
  /\ NextWorker("worker", "finish")
  /\ UNCHANGED <<m_state, m_job, m_feeJob, thread, impl, history>>

\* start(): a queued startSignal
PostStart ==
  /\ ctl.step = "post"
  /\ starts' = [starts EXCEPT ![ctl.i] = @ + 1]
  /\ NextWorker("worker", "finish")
  /\ UNCHANGED <<m_state, m_job, m_feeJob, thread, impl, history>>

\* Mutation of QuitThread: the event loop is not told to quit.
QuitForgotten ==
  /\ ctl.step = "quit"
  /\ NextWorker("quit", "wait")
  /\ UNCHANGED <<m_state, m_job, m_feeJob, starts, thread, impl, history>>

QuitThread ==
  /\ ctl.step = "quit"
  /\ thread' = [thread EXCEPT ![ctl.i] = IF @ = "finished" THEN @ ELSE "quitting"]
  /\ NextWorker("quit", "wait")
  /\ UNCHANGED <<m_state, m_job, m_feeJob, starts, impl, history>>

\* thread->wait() without a timeout
WaitThread ==
  /\ ctl.step = "wait" /\ thread[ctl.i] = "finished"
  /\ NextWorker("wait", "finish")
  /\ UNCHANGED <<m_state, m_job, m_feeJob, starts, thread, impl, history>>

\* The signal each operation ends with.  stopCpu also drops the MinerImpl's job.
Finish ==
  /\ ctl.step = "finish"
  /\ impl' = CASE Starting          -> [impl EXCEPT !.emitted = "Running"]
               [] ctl.op = "stop"   -> [impl EXCEPT !.emitted = "Stopped", !.job = NoJob]
               [] ctl.op = "error"  -> [impl EXCEPT
                                         !.emitted = IF RunningThreads # {} THEN "Error" ELSE @]
               [] OTHER             -> impl
  /\ ctl' = Idle
  /\ UNCHANGED <<m_state, m_job, m_feeJob, starts, thread, history>>

Proceed ==
  /\ \/ StartThread \/ CheckState \/ StopWorker \/ StoreJob \/ RaiseUpdate
     \/ StoreFeeJob \/ PostStart \/ QuitThread \/ WaitThread \/ Finish
  /\ UNCHANGED <<run, shares>>

\* Mutation of OnShareEvent: the user's shares are compared with the fee job.
OnShareEventSwapped ==
  /\ ctl.op = "none" /\ shares # <<>>
  /\ impl' = [impl EXCEPT !.sent = IF Head(shares).job = impl.feeJob THEN impl.feeJob ELSE @]
  /\ shares' = Tail(shares)
  /\ UNCHANGED <<m_state, m_job, m_feeJob, run, starts, thread, ctl, history>>

\* onShareEvent: a share goes to the pool its flag names, or is dropped when that
\* pool has moved to another job.
OnShareEvent ==
  /\ ctl.op = "none" /\ shares # <<>>
  /\ LET s == Head(shares)
         current == IF s.fee THEN impl.feeJob ELSE impl.job
     IN  impl' = [impl EXCEPT !.sent = IF s.job = current THEN s.job ELSE @]
  /\ shares' = Tail(shares)
  /\ UNCHANGED <<m_state, m_job, m_feeJob, run, starts, thread, ctl, history>>

Next ==
  \/ \E w \in Workers : Worker(w)
  \/ Environment
  \/ Proceed
  \/ OnShareEvent

Spec == Init /\ [][Next]_vars

\* A thread that can run does; the main thread's event loop comes back to every
\* posted event.  Nothing makes the user or the pool act.
FairSpec ==
  /\ Spec
  /\ \A w \in Workers : WF_vars(Worker(w))
  /\ WF_vars(Proceed)
  /\ SF_vars(OnShareEvent)

-----------------------------------------------------------------------------
(* Properties *)

Labels == {"idle", "switch", "copy", "check", "set", "choose", "search", "hash"}
Steps == {"none", "worker", "job", "state", "fee", "post", "quit", "wait", "finish"}
Commands == {"none", "job", "stop"}

RunRecord == [pc : Labels, currentJob : Jobs, originJob : Jobs, feeMode : BOOLEAN,
              left : 0..Interval]
ImplRecord == [job : Jobs, feeJob : Jobs,
               emitted : {"Stopped", "Running", "Error"},
               coinState : {"Stopped", "Running", "Error"}, sent : Jobs]
CtlRecord == [op : {"none", "start", "stop", "resize", "update", "error"}, step : Steps,
              i : Workers, n : 0..N, sync : BOOLEAN]
ShareEvent == [job : Jobs, fee : BOOLEAN]

\* The types of the variables.
TypeOK ==
  /\ m_state \in [Workers -> {"Exit", "UpdateJob", "Mining"}]
  /\ m_job \in [Workers -> Jobs]
  /\ m_feeJob \in [Workers -> Jobs]
  /\ run \in [Workers -> RunRecord]
  /\ starts \in [Workers -> Nat]
  /\ thread \in [Workers -> {"running", "quitting", "finished"}]
  /\ impl \in ImplRecord
  /\ ctl \in CtlRecord
  /\ shares \in Seq(ShareEvent)
  /\ note \in [Workers -> Commands]
  /\ lost \in [Workers -> Commands]
  /\ want \in [Workers -> {"run", "stop", "revived"}]

\* The user's job a worker is on: during a fee search it is in originJob.
BaseJob(w) == IF run[w].feeMode THEN run[w].originJob ELSE run[w].currentJob

\* A ShareEvent's fee flag says whose job it solves: startMining swaps m_currentJob
\* for a fee search and swaps it back whatever ends the search, so no share is
\* filed under the wrong pool, where onShareEvent would drop it.
ShareNamesItsPool ==
  \A k \in 1..Len(shares) :
    shares[k].job \in (IF shares[k].fee THEN FeeJobs ELSE MainJobs)

\* A worker that mines (m_state is Mining) is on the job it was last given, unless
\* startMining's own unguarded store of Mining wiped out the UpdateJob or Exit
\* written after its copy, or updateJob has stored the job and is about to raise
\* UpdateJob.
StaleOnlyIfOverwritten ==
  \A w \in Workers :
    /\ m_state[w] = "Mining"
    /\ run[w].pc \in {"switch", "choose", "search", "hash"}
    /\ BaseJob(w) # m_job[w]
    => lost[w] # "none" \/ (ctl.step = "state" /\ ctl.i = w)

\* A stopped worker (m_state is Exit) comes back only through startCpu or
\* setThreadCount, or through startMining's own stores: MinerImpl::updateJob never
\* revives one, although it tests getState() well before it writes UpdateJob.
JobNeverRevives ==
  [][\A w \in Workers :
       m_state[w] = "Exit" /\ m_state'[w] # "Exit"
       => (Starting /\ ctl.i = w) \/ run'[w].pc # run[w].pc]_vars

\* The command a worker was last given stays in force while both sides write m_state:
\* a stop is undone by a start or by the worker's own store only; who was started is in
\* startMining, or is called to it, or is about to be; and stopCpu(true) waits, without
\* a timeout, only for threads told to quit whose workers were told to stop.
CommandsInForce ==
  \A w \in Workers :
    /\ want[w] = "stop" => m_state[w] = "Exit"
    /\ \/ want[w] = "stop" \/ run[w].pc # "idle" \/ starts[w] > 0
       \/ Starting /\ ctl.step \in {"fee", "post"} /\ ctl.i = w
    /\ ctl.step = "wait" => thread[w] # "running" /\ want[w] # "run"

\* A worker told to stop leaves startMining, unless it is started again or it
\* overwrote the Exit itself.
StopObeyed ==
  \A w \in Workers :
    want[w] = "stop" ~> (run[w].pc = "idle" \/ want[w] # "stop")

\* A worker told to start enters startMining (its thread being alive), unless it
\* is stopped first.
StartObeyed ==
  \A w \in Workers :
    (want[w] = "run" /\ thread[w] = "running")
      ~> (run[w].pc # "idle" \/ want[w] # "run" \/ thread[w] # "running")

\* stopCpu(true), which waits for the threads without a timeout, returns unless a
\* worker it waits for overwrote the Exit.
SyncStopReturns ==
  (ctl.step = "wait") ~> (ctl.step # "wait" \/ \E w \in Workers : want[w] = "revived")

\* A share of a job that stays the current one reaches the pool, unless the main
\* thread is in a synchronous stop, which drops the job.
ShareDelivered ==
  \A job \in MainJobs :
    (impl.job = job /\ \E k \in 1..Len(shares) : shares[k] = [job |-> job, fee |-> FALSE])
      ~> (impl.job # job \/ ctl.step = "wait" \/ impl.sent = job)

\* "dev fee enable for others pools -  2% of CPU time": once the fee pool has given
\* a job, a worker that keeps running gets one to spend its 2% on.
FeeJobReachesWorker ==
  \A w \in Workers :
    (impl.feeJob # NoJob) ~> (m_feeJob[w] # NoJob \/ m_state[w] = "Exit"
                              \/ impl.feeJob = NoJob)
=============================================================================
