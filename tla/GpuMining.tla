------------------------------ MODULE GpuMining ------------------------------
(***************************************************************************)
(* One GPU and the coins that may mine on it.  Each coin's MinerImpl keeps  *)
(* a GPUMinerWorker for the device in a thread of its own; the worker runs  *)
(* the miner, a loop that never returns to the thread's event loop while    *)
(* it mines.  The main thread talks to it through m_state, read and written *)
(* without a lock, through queued start signals, and by quitting and        *)
(* restarting the thread.                                                   *)
(*                                                                          *)
(* Besides the stop that the miner may overwrite, as on a CPU, there is the *)
(* bookkeeping around it: the setting that says a coin runs on the device,  *)
(* by which the next coin finds whom to stop, the half second after which   *)
(* a miner that ended by itself is given up, and the two seconds a stop     *)
(* waits for a miner that may sleep for three.                              *)
(*                                                                          *)
(* All the coins are of one hash family, so that they share one             *)
(* AbstractGPUMiner and its last error.                                     *)
(***************************************************************************)
EXTENDS Integers

CONSTANTS
  N,          \* the coins are 1..N, in the order of their keys
  MaxCalls    \* bound: calls of the user's and jobs of the pools'

ASSUME GpuAssumption == N \in Nat \ {0} /\ MaxCalls \in Nat

Coins == 1..N

VARIABLES
  st,         \* m_state of each coin's worker
  worker,     \* the worker's thread: place, queued starts, the thread's own state
  coin,       \* what the main thread keeps of each coin
  main,       \* what the main thread is doing
  low,        \* m_lastError of the device's miner is NoMemory
  missed,     \* history: a stop meant for the coin's worker did not reach it
  calls

vars == <<st, worker, coin, main, low, missed, calls>>

Free == [op |-> "free", of |-> 0, sync |-> FALSE, next |-> 0]

\* The settings are those of an earlier session; a MinerImpl is made at the first start.
Init ==
  /\ st = [c \in Coins |-> "Exit"]
  /\ worker = [c \in Coins |-> [pc |-> "idle", starts |-> 0, thread |-> "running"]]
  /\ \E s \in [Coins -> BOOLEAN] :
       coin = [c \in Coins |-> [setting |-> s[c], made |-> FALSE, listening |-> FALSE,
                                finished |-> 0, timers |-> 0, lowShown |-> FALSE]]
  /\ main = Free /\ low = FALSE
  /\ missed = [c \in Coins |-> FALSE]
  /\ calls = 0

Called == calls < MaxCalls /\ calls' = calls + 1

-----------------------------------------------------------------------------
(* The worker's thread *)

At(c, from, to) == worker[c].pc = from /\ worker' = [worker EXCEPT ![c].pc = to]

\* A queued startSignal: startMining returns when it finds Stopping.
Deliver(c) ==
  /\ worker[c].pc = "idle" /\ worker[c].thread # "finished" /\ worker[c].starts > 0
  /\ worker' = [worker EXCEPT ![c].starts = @ - 1,
                              ![c].pc = IF st[c] = "Stopping" THEN "idle" ELSE "enter"]
  /\ UNCHANGED <<st, coin, main, low, missed, calls>>

\* setState(UpdateJob).  The initialisation of the device may clear the last error.
Enter(c) ==
  /\ At(c, "enter", "load")
  /\ st' = [st EXCEPT ![c] = "UpdateJob"]
  /\ missed' = [missed EXCEPT ![c] = @ \/ st[c] = "Stopping"]
  /\ low' \in {low, FALSE}
  /\ UNCHANGED <<coin, main, calls>>

\* Mutation of Leave: the miner's loop looks for Exit only.
LeaveOnExit(c) ==
  /\ st[c] = "Exit" /\ At(c, "load", "left")
  /\ UNCHANGED <<st, coin, main, low, missed, calls>>

\* The miner's loop finds that it is to end.
Leave(c) ==
  /\ st[c] \in {"Exit", "Stopping"} /\ At(c, "load", "left")
  /\ UNCHANGED <<st, coin, main, low, missed, calls>>

\* A job is copied.  (An empty one makes the loop sleep for three seconds.)
CopyJob(c) ==
  /\ st[c] = "UpdateJob" /\ At(c, "load", "check")
  /\ UNCHANGED <<st, coin, main, low, missed, calls>>

\* The miner looks at m_state once more, and stores Mining in a step of its own.
Check(c) ==
  /\ At(c, "check", IF st[c] = "UpdateJob" THEN "store" ELSE "load")
  /\ UNCHANGED <<st, coin, main, low, missed, calls>>

Store(c) ==
  /\ At(c, "store", "load")
  /\ st' = [st EXCEPT ![c] = "Mining"]
  /\ missed' = [missed EXCEPT ![c] = @ \/ st[c] = "Stopping"]
  /\ UNCHANGED <<coin, main, low, calls>>

\* The device, the job or a batch fails: the miner returns, and only some of its
\* failures are told to m_state or to the last error.
Fail(c) ==
  /\ worker[c].pc \in {"load", "check"}
  /\ worker' = [worker EXCEPT ![c].pc = "left"]
  /\ \E s \in {st[c], "Exit", "Stopping"} :
       /\ st' = [st EXCEPT ![c] = s]
       /\ missed' = [missed EXCEPT ![c] = @ \/ (st[c] = "Stopping" /\ s = "Exit")]
  /\ low' \in {low, TRUE}
  /\ UNCHANGED <<coin, main, calls>>

\* Mutation of Left: queued starts are not delivered before the end.
LeftWithoutEvents(c) ==
  /\ At(c, "left", "exit")
  /\ UNCHANGED <<st, coin, main, low, missed, calls>>

\* "prevent run start again": starts queued before the stop find Stopping, and return.
Left(c) ==
  /\ worker[c].pc = "left"
  /\ worker' = [worker EXCEPT ![c].pc = "exit",
                              ![c].starts = IF st[c] = "Stopping" THEN 0 ELSE @]
  /\ UNCHANGED <<st, coin, main, low, missed, calls>>

\* setState(Exit), and finishedSignal to the main thread.
Finish(c) ==
  /\ At(c, "exit", "idle")
  /\ st' = [st EXCEPT ![c] = "Exit"]
  /\ coin' = [coin EXCEPT ![c].finished = @ + 1]
  /\ missed' = [missed EXCEPT ![c] = @ /\ worker[c].starts > 0]
  /\ UNCHANGED <<main, low, calls>>

\* The event loop of a thread that was told to quit, starts delivered or not.
EndLoop(c) ==
  /\ worker[c].pc = "idle" /\ worker[c].thread = "quitting"
  /\ worker' = [worker EXCEPT ![c].thread = "finished"]
  /\ UNCHANGED <<st, coin, main, low, missed, calls>>

-----------------------------------------------------------------------------
(* The main thread: calls and events *)

Stopping(c, sync, next) == [op |-> "look", of |-> c, sync |-> sync, next |-> next]
Starting(c) == [op |-> "begin", of |-> c, sync |-> FALSE, next |-> 0]

\* minerHasGpuRunned: the first coin whose setting says that it runs.
FirstRunning == CHOOSE d \in Coins : coin[d].setting /\ \A e \in 1..(d - 1) : ~coin[e].setting

\* Mutation of StartGpu: the device is not taken from the coin that has it.
StartGpuAtOnce(c) ==
  /\ main.op = "free" /\ Called /\ main' = Starting(c)
  /\ UNCHANGED <<st, worker, coin, low, missed>>

\* Coin::startGpu: "stopping this devices, if it is running on other coins".  One coin
\* is found and stopped, perhaps this one; others that run are missed.
StartGpu(c) ==
  /\ main.op = "free" /\ Called
  /\ LET running == {d \in Coins : coin[d].setting}
     IN  IF running = {} THEN main' = Starting(c) /\ UNCHANGED <<coin, missed>>
         ELSE /\ main' = IF coin[FirstRunning].made THEN Stopping(FirstRunning, TRUE, c)
                         ELSE Starting(c)
              /\ coin' = [coin EXCEPT ![FirstRunning].lowShown = FALSE]
              /\ missed' = [d \in Coins |->
                              missed[d] \/ (d \in running /\ d # c /\ d # FirstRunning)]
  /\ UNCHANGED <<st, worker, low>>

\* Coin::stopGpu by the user.
StopGpu(c) ==
  /\ main.op = "free" /\ coin[c].made /\ Called
  /\ main' = Stopping(c, FALSE, 0)
  /\ coin' = [coin EXCEPT ![c].lowShown = FALSE]
  /\ UNCHANGED <<st, worker, low, missed>>

\* Mutation of Finished: a miner that ended is not given up.
FinishedUnnoticed(c) ==
  /\ main.op = "free" /\ coin[c].finished > 0
  /\ coin' = [coin EXCEPT ![c].finished = @ - 1, ![c].lowShown = @ \/ low]
  /\ UNCHANGED <<st, worker, main, low, missed, calls>>

\* The finishedSignal: a miner that ended is given up after half a second, unless the
\* device is out of memory, which is only shown.
Finished(c) ==
  /\ main.op = "free" /\ coin[c].finished > 0
  /\ coin' = [coin EXCEPT ![c].finished = @ - 1,
                          ![c].timers = IF low THEN @ ELSE @ + 1,
                          ![c].lowShown = @ \/ low]
  /\ UNCHANGED <<st, worker, main, low, missed, calls>>

\* Mutation of TimerFires: nobody is stopped.
TimerForgets(c) ==
  /\ main.op = "free" /\ coin[c].timers > 0
  /\ coin' = [coin EXCEPT ![c].timers = @ - 1]
  /\ UNCHANGED <<st, worker, main, low, missed, calls>>

TimerFires(c) ==
  /\ main.op = "free" /\ coin[c].timers > 0
  /\ coin' = [coin EXCEPT ![c].timers = @ - 1]
  /\ main' = IF coin[c].setting THEN Stopping(c, FALSE, 0) ELSE main
  /\ UNCHANGED <<st, worker, low, missed, calls>>

\* Mutation of UpdateJob: a job is given to a worker in any state.
UpdateJobAlways(c) ==
  /\ main.op = "free" /\ coin[c].listening /\ Called
  /\ main' = [Free EXCEPT !.op = "job", !.of = c]
  /\ UNCHANGED <<st, worker, coin, low, missed>>

\* A job of the pool's is for a worker that mines or waits for one.
UpdateJob(c) ==
  /\ main.op = "free" /\ coin[c].listening /\ st[c] \in {"Mining", "UpdateJob"} /\ Called
  /\ main' = [Free EXCEPT !.op = "job", !.of = c]
  /\ UNCHANGED <<st, worker, coin, low, missed>>

-----------------------------------------------------------------------------
(* The main thread: the steps of AbstractMinerImpl *)

\* stopGpu looks at m_state; a worker whose start is still queued is in Exit.
Look ==
  /\ main.op = "look"
  /\ LET c == main.of
     IN  /\ main' = [main EXCEPT !.op = IF st[c] = "Exit" THEN "quit" ELSE "tell"]
         /\ missed' = [missed EXCEPT
              ![c] = @ \/ (st[c] = "Exit" /\ (worker[c].starts > 0 \/ worker[c].pc = "enter"))]
  /\ UNCHANGED <<st, worker, coin, low, calls>>

\* stop(), which a worker about to store Exit overwrites, queued starts or not.
Tell ==
  /\ main.op = "tell"
  /\ LET c == main.of
     IN  /\ st' = [st EXCEPT ![c] = "Stopping"]
         /\ missed' = [missed EXCEPT
              ![c] = @ \/ (worker[c].pc = "exit" /\ worker[c].starts > 0)]
  /\ main' = [main EXCEPT !.op = "quit"]
  /\ UNCHANGED <<worker, coin, low, calls>>

\* A stop that waits quits the thread; another one withdraws the setting at once.
Quit ==
  /\ main.op = "quit"
  /\ LET c == main.of
     IN  IF main.sync
           THEN /\ worker' = [worker EXCEPT
                      ![c].thread = IF @ = "running" THEN "quitting" ELSE @]
                /\ main' = [main EXCEPT !.op = "wait"]
                /\ UNCHANGED coin
           ELSE /\ coin' = [coin EXCEPT ![c].setting = FALSE]
                /\ main' = [main EXCEPT !.op = "unlisten"]
                /\ UNCHANGED worker
  /\ UNCHANGED <<st, low, missed, calls>>

\* wait(2000) ends with the thread, or by its time when the worker is not idle.
Wait ==
  /\ main.op = "wait"
  /\ worker[main.of].thread = "finished" \/ worker[main.of].pc # "idle"
  /\ coin' = [coin EXCEPT ![main.of].setting = FALSE]
  /\ main' = [main EXCEPT !.op = "unlisten"]
  /\ UNCHANGED <<st, worker, low, missed, calls>>

\* The pool client stops, unless the worker runs; then a coin that waits for the device.
Unlisten ==
  /\ main.op = "unlisten"
  /\ coin' = [coin EXCEPT ![main.of].listening = @ /\ st[main.of] \notin {"Exit", "Stopping"}]
  /\ main' = IF main.next = 0 THEN Free ELSE Starting(main.next)
  /\ UNCHANGED <<st, worker, low, missed, calls>>

\* startGpu, of which a worker that mines needs nothing.  main sets the setting after it.
Begin ==
  /\ main.op = "begin"
  /\ LET c == main.of
     IN  IF st[c] = "Mining"
           THEN /\ coin' = [coin EXCEPT ![c].setting = TRUE, ![c].made = TRUE]
                /\ main' = Free /\ UNCHANGED worker
           ELSE /\ coin' = [coin EXCEPT ![c].made = TRUE, ![c].listening = TRUE]
                /\ worker' = [worker EXCEPT
                      ![c].thread = IF @ = "finished" THEN "running" ELSE @]
                /\ main' = [main EXCEPT !.op = IF st[c] = "UpdateJob" THEN "job" ELSE "post",
                                        !.next = c]
  /\ UNCHANGED <<st, low, missed, calls>>

\* The worker's updateJob stores UpdateJob, whatever became of the worker.
Job ==
  /\ main.op = "job"
  /\ st' = [st EXCEPT ![main.of] = "UpdateJob"]
  /\ main' = IF main.next = 0 THEN Free ELSE [main EXCEPT !.op = "post"]
  /\ UNCHANGED <<worker, coin, low, missed, calls>>

\* The startSignal is queued, and main calls setGpuRunning(true).
Post ==
  /\ main.op = "post"
  /\ worker' = [worker EXCEPT ![main.of].starts = @ + 1]
  /\ coin' = [coin EXCEPT ![main.of].setting = TRUE]
  /\ missed' = [missed EXCEPT ![main.of] = FALSE]
  /\ main' = Free
  /\ UNCHANGED <<st, low, calls>>

\* What goes on by itself: a worker with something to do, and the main thread.
Worker(c) ==
  Deliver(c) \/ Enter(c) \/ Leave(c) \/ Check(c) \/ Store(c) \/ Left(c) \/ Finish(c) \/ EndLoop(c)

Main ==
  \/ Look \/ Tell \/ Quit \/ Wait \/ Unlisten \/ Begin \/ Job \/ Post
  \/ \E c \in Coins : Finished(c) \/ TimerFires(c)

Next ==
  \/ Main
  \/ \E c \in Coins : \/ Worker(c) \/ CopyJob(c) \/ Fail(c)
                      \/ StartGpu(c) \/ StopGpu(c) \/ UpdateJob(c)

\* Threads are scheduled and the event loop delivers; a job need not come.
Spec == Init /\ [][Next]_vars /\ WF_vars(Main) /\ \A c \in Coins : WF_vars(Worker(c))

-----------------------------------------------------------------------------
(* Properties *)

States == {"Exit", "UpdateJob", "Mining", "Stopping"}
Inside == {"load", "check", "store"}
Ops == {"free", "look", "tell", "quit", "wait", "unlisten", "begin", "job", "post"}

\* The types, among them that signals and timers are counted in Nat.
GpuTypeOK ==
  /\ st \in [Coins -> States]
  /\ worker \in [Coins -> [pc : {"idle", "enter", "left", "exit"} \cup Inside, starts : Nat,
                           thread : {"running", "quitting", "finished"}]]
  /\ coin \in [Coins -> [setting : BOOLEAN, made : BOOLEAN, listening : BOOLEAN,
                         finished : Nat, timers : Nat, lowShown : BOOLEAN]]
  /\ main \in [op : Ops, of : 0..N, sync : BOOLEAN, next : 0..N]
  /\ main.op = "free" \/ main.of \in Coins
  /\ low \in BOOLEAN /\ missed \in [Coins -> BOOLEAN] /\ calls \in 0..MaxCalls

\* The miner of a coin has the device and was not told to end.
Mines(c) == worker[c].pc \in Inside /\ st[c] \in {"UpdateJob", "Mining"}

Busy(c) == main.op # "free" /\ c \in {main.of, main.next}

\* A device that runs on another coin is stopped first: two coins mine on it only when
\* a stop meant for one of them was overwritten, came before its queued start, or was
\* kept from it by a setting that named another coin.
OneCoinPerDevice ==
  \A c, d \in Coins : c # d /\ Mines(c) /\ Mines(d) => missed[c] \/ missed[d]

\* A miner that was not told to end was asked for: its coin's setting says so, and its
\* pool client listens; starts queued before a stop do not start it again.
MinesOnlyIfAsked ==
  \A c \in Coins :
    Mines(c) /\ ~missed[c] => Busy(c) \/ (coin[c].setting /\ coin[c].listening)

\* No miner and no start that would bring one.  (A start queued for a thread that ends,
\* as its worker slept when it was told to quit, waits for the thread's next start.)
Dark(c) == worker[c].pc = "idle" /\ worker[c].starts = 0

\* A coin that is said to run on the device and has no miner there will be withdrawn: the
\* signal or the half second is on its way.  Otherwise the user sees that the memory is
\* low, or the worker is stuck in the Stopping that came after its Exit.
DarkIsNoticed ==
  \A c \in Coins :
    coin[c].setting /\ coin[c].made /\ Dark(c) /\ ~Busy(c) =>
      \/ coin[c].finished > 0 \/ coin[c].timers > 0 \/ coin[c].lowShown
      \/ st[c] = "Stopping"

\* A stop that has reached a miner stays in m_state, whatever is written there, a job of
\* the pool's by the main thread above all, until the miner has found it: only the
\* worker's own stores undo it, and they count as missed.
StopStays ==
  [][\A c \in Coins :
       worker[c].pc \in {"enter"} \cup Inside /\ st[c] = "Stopping"
       => st'[c] = "Stopping" \/ missed'[c]]_vars

\* A miner that is told to end ends, unless the store of Mining overwrites it.
StopIsObeyed ==
  \A c \in Coins :
    worker[c].pc \in Inside /\ st[c] = "Stopping" ~> worker[c].pc \notin Inside \/ missed[c]

\* ... and a coin without a miner does not stay said to run.
DarkEnds ==
  \A c \in Coins :
    coin[c].setting /\ coin[c].made /\ Dark(c) ~>
      ~coin[c].setting \/ ~Dark(c) \/ coin[c].lowShown \/ st[c] = "Stopping"
=============================================================================
