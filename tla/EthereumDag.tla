---------------------------- MODULE EthereumDag ----------------------------
(***************************************************************************)
(* Ethereum mining: a worker needs the DAG of its job's epoch, a file of   *)
(* gigabytes that a thread of its own prepares whenever the epoch changes, *)
(* while workers go on, jobs arrive and the user stops and starts.         *)
(*                                                                         *)
(* DagController is shared by all threads, under a mutex.  MinerImpl runs  *)
(* on the main thread, which handles queued events one at a time; the      *)
(* functions it inherits from AbstractMinerImpl are one step each here, as *)
(* MinerWorker has their statements.  Its own updateJob, the workers and   *)
(* the preparations run statement by statement: each look at the           *)
(* DagController takes the mutex anew.                                     *)
(***************************************************************************)
EXTENDS Naturals, Sequences

CONSTANTS
  N,         \* number of workers
  Jobs,      \* the jobs of the pool
  Epochs,    \* seed hashes
  EpochOf,   \* the seed hash of each job, MiningJob::blob
  NoJob,     \* the empty MiningJob
  NoDag,     \* the null DagType
  Preps,     \* bound: the preparation threads that exist at a time
  MaxEvents, \* bound: events queued at the main thread when the pool sends another
  MaxStarts  \* bound: startSignals queued at one worker

ASSUME EthereumDagAssumption ==
  /\ N \in Nat \ {0} /\ MaxEvents \in Nat \ {0} /\ MaxStarts \in Nat \ {0}
  /\ EpochOf \in [Jobs -> Epochs]
  /\ NoJob \notin Jobs /\ NoDag \notin Epochs

Workers == 1..N

VARIABLES
  ctl,     \* DagController: m_dag, m_seedHashData and m_progress, 0 standing for all below 100
  preps,   \* prepareDag of each preparation thread, its job and where it is
  impl,    \* MinerImpl: m_currentJob and m_preparingInProgress
  update,  \* EthereumMinerImpl::updateJob on the main thread: where it is, and its job
  events,  \* queued at the main thread: jobs, and threads that have finished
  m_state, m_job, starts,  \* fields of the workers, as in MinerWorker
  run,     \* startMining of each worker: where it is, m_currentJob, m_currentDag
  listens, \* whether the pool thread listens
  want,    \* history: the user's last command
  overlap  \* history: a preparation was started while another had not been handled

vars == <<ctl, preps, impl, update, events, m_state, m_job, starts, run, listens, want, overlap>>
workers == <<m_state, m_job, starts, run>>

JobEvent(j) == [kind |-> "job", job |-> j]
FinishedEvent(p) == [kind |-> "finished", prep |-> p]

DagInit ==
  /\ ctl = [dag |-> NoDag, seed |-> NoDag, progress |-> 100]
  /\ preps = [p \in Preps |-> [pc |-> "free", job |-> NoJob]]
  /\ impl = [job |-> NoJob, preparing |-> FALSE]
  /\ update = [pc |-> "none", job |-> NoJob]
  /\ events = <<>>
  /\ m_state = [w \in Workers |-> "Exit"]
  /\ m_job = [w \in Workers |-> NoJob]
  /\ starts = [w \in Workers |-> 0]
  /\ run = [w \in Workers |-> [pc |-> "idle", job |-> NoJob, dag |-> NoDag]]
  /\ listens = FALSE
  /\ want = "stop" /\ overlap = FALSE

-----------------------------------------------------------------------------
(* A worker's thread: startMining with EthereumWorker's overrides. *)

Goto(w, label) == run' = [run EXCEPT ![w].pc = label]

DeliverStart(w) ==
  /\ run[w].pc = "idle" /\ starts[w] > 0
  /\ starts' = [starts EXCEPT ![w] = @ - 1]
  /\ m_state' = [m_state EXCEPT ![w] = "UpdateJob"]
  /\ Goto(w, "switch") /\ UNCHANGED m_job

Switch(w) ==
  /\ run[w].pc = "switch"
  /\ Goto(w, CASE m_state[w] = "Exit"      -> "idle"
               [] m_state[w] = "UpdateJob" -> "copy"
               [] m_state[w] = "Mining"    -> "search")
  /\ UNCHANGED <<m_state, m_job, starts>>

CopyJob(w) ==
  /\ run[w].pc = "copy"
  /\ run' = [run EXCEPT ![w] = [pc |-> "check", job |-> m_job[w], dag |-> NoDag]]
  /\ UNCHANGED <<m_state, m_job, starts>>

CheckExit(w) ==
  /\ run[w].pc = "check"
  /\ Goto(w, IF m_state[w] = "Exit" THEN "idle" ELSE "set")
  /\ UNCHANGED <<m_state, m_job, starts>>

SetMining(w) ==
  /\ run[w].pc = "set"
  /\ IF run[w].job = NoJob
       THEN Goto(w, "switch") /\ UNCHANGED m_state
       ELSE Goto(w, "prepare") /\ m_state' = [m_state EXCEPT ![w] = "Mining"]
  /\ UNCHANGED <<m_job, starts>>

\* m_currentDag = DagController::dag(), which is of whichever epoch, or null.
PrepareCalculation(w) ==
  /\ run[w].pc = "prepare"
  /\ run' = [run EXCEPT ![w].pc = "search", ![w].dag = ctl.dag]
  /\ UNCHANGED <<m_state, m_job, starts>>

\* search(): breaks off unless Mining; otherwise it takes the DAG, a null one too.
Search(w) ==
  /\ run[w].pc = "search"
  /\ Goto(w, IF m_state[w] = "Mining" /\ run[w].dag = NoDag THEN "crashed" ELSE "switch")
  /\ UNCHANGED <<m_state, m_job, starts>>

Worker(w) ==
  /\ \/ DeliverStart(w) \/ Switch(w) \/ CopyJob(w) \/ CheckExit(w)
     \/ SetMining(w) \/ PrepareCalculation(w) \/ Search(w)
  /\ UNCHANGED <<ctl, preps, impl, update, events, listens, want, overlap>>

-----------------------------------------------------------------------------
(* A preparation thread: prepareDag, then the end of the lambda that called it. *)

Preparing(p) == preps[p].pc = "prepare"

\* Mutation of EnterPrepareDag: the old DAG stays until there is a new one.
EnterKeepingDag(p) ==
  /\ preps[p].pc = "started"
  /\ preps' = [preps EXCEPT ![p].pc = "prepare"]
  /\ ctl' = [ctl EXCEPT !.seed = EpochOf[preps[p].job], !.progress = 0]
  /\ UNCHANGED <<impl, events>>

\* Under the mutex: the old DAG goes, the seed hash is the new job's.
EnterPrepareDag(p) ==
  /\ preps[p].pc = "started"
  /\ preps' = [preps EXCEPT ![p].pc = "prepare"]
  /\ ctl' = [dag |-> NoDag, seed |-> EpochOf[preps[p].job], progress |-> 0]
  /\ UNCHANGED <<impl, events>>

\* Mutation of PrepareFails: the progress stays where it was.
PrepareFailsSilently(p) ==
  /\ Preparing(p)
  /\ preps' = [preps EXCEPT ![p].pc = "failed"]
  /\ UNCHANGED <<ctl, impl, events>>

\* No room on the disk, no memory, or an exception of the library.
PrepareFails(p) ==
  /\ Preparing(p)
  /\ preps' = [preps EXCEPT ![p].pc = "failed"]
  /\ ctl' = [ctl EXCEPT !.progress = 100]
  /\ UNCHANGED <<impl, events>>

\* The callback: the computation is aborted when m_preparingInProgress is no longer
\* set, by an exception that is handled as any other; or the progress is stored.  The
\* library rounds it up: 100 comes before the last items and the writing of the file.
PrepareCallback(p) ==
  /\ Preparing(p)
  /\ IF impl.preparing
       THEN ctl' \in {[ctl EXCEPT !.progress = pc] : pc \in {0, 100}} /\ UNCHANGED preps
       ELSE /\ ctl' = [ctl EXCEPT !.progress = 100]
            /\ preps' = [preps EXCEPT ![p].pc = "failed"]
  /\ UNCHANGED <<impl, events>>

\* The DAG has been computed, or was in the cache of EthashAux.
PrepareCompletes(p) ==
  /\ Preparing(p)
  /\ preps' = [preps EXCEPT ![p].pc = "ready"]
  /\ ctl' = [ctl EXCEPT !.dag = EpochOf[preps[p].job], !.progress = 100]
  /\ UNCHANGED <<impl, events>>

\* The thread's finished signal is queued as dagThreadFinished.  Why a preparation gave
\* up matters to what the coin shows only.
ThreadFinishes(p) ==
  /\ preps[p].pc \in {"failed", "ready"}
  /\ preps' = [preps EXCEPT ![p].pc = IF @ = "failed" THEN "gaveUp" ELSE "done"]
  /\ events' = Append(events, FinishedEvent(p))
  /\ UNCHANGED <<ctl, impl>>

Preparation(p) ==
  /\ \/ EnterPrepareDag(p) \/ PrepareFails(p) \/ PrepareCallback(p)
     \/ PrepareCompletes(p) \/ ThreadFinishes(p)
  /\ UNCHANGED <<workers, update, listens, want, overlap>>

-----------------------------------------------------------------------------
(* The main thread: MinerImpl and the user's calls *)

\* AbstractMinerImpl::updateJob, without the nonces.
GiveJob(j) ==
  /\ m_job' = [w \in Workers |-> IF m_state[w] = "Exit" THEN m_job[w] ELSE j]
  /\ m_state' = [w \in Workers |-> IF m_state[w] = "Exit" THEN "Exit" ELSE "UpdateJob"]
  /\ UNCHANGED <<starts, run>>

\* The first n workers get MinerImpl's job and a startSignal.
StartWorkers(chosen) ==
  /\ \A w \in chosen : starts[w] < MaxStarts
  /\ m_job' = [w \in Workers |-> IF w \in chosen THEN impl.job ELSE m_job[w]]
  /\ starts' = [w \in Workers |-> IF w \in chosen THEN starts[w] + 1 ELSE starts[w]]

StartCpu(n) ==
  /\ StartWorkers(1..n)
  /\ m_state' = [w \in Workers |-> IF w <= n THEN "UpdateJob" ELSE m_state[w]]
  /\ want' = "run"
  /\ UNCHANGED <<ctl, preps, impl, update, events, run, listens, overlap>>

\* setThreadCount, for a coin that shows as running: workers that exit are started,
\* those above n stopped.
SetThreadCount(n) ==
  /\ want = "run"
  /\ StartWorkers({w \in 1..n : m_state[w] = "Exit"})
  /\ m_state' = [w \in Workers |-> IF w > n THEN "Exit"
                                   ELSE IF m_state[w] = "Exit" THEN "UpdateJob" ELSE m_state[w]]
  /\ UNCHANGED <<ctl, preps, impl, update, events, run, listens, want, overlap>>

StopCpu ==
  /\ m_state' = [w \in Workers |-> "Exit"]
  /\ impl' = [job |-> NoJob, preparing |-> FALSE]
  /\ want' = "stop"
  /\ UNCHANGED <<ctl, preps, update, events, m_job, starts, run, listens, overlap>>

\* EthereumMinerImpl::updateJob.  It looks at the progress, the seed hash and the DAG one
\* after the other, and a preparation whose flag stopCpu has cleared may run in between.
At(label) == update.pc = label
Return == update' = [pc |-> "none", job |-> NoJob]
GoOn(label) == update' = [update EXCEPT !.pc = label]

Adopt(j) == GiveJob(j) /\ impl' = [impl EXCEPT !.job = j]

\* m_preparingInProgress is the main thread's own.  A pool error brings the empty job.
HandleJob ==
  /\ At("none") /\ events # <<>> /\ Head(events).kind = "job"
  /\ events' = Tail(events)
  /\ LET j == Head(events).job IN
       \/ j = NoJob /\ Adopt(j) /\ UNCHANGED update
       \/ j # NoJob /\ impl.preparing /\ UNCHANGED <<workers, impl, update>>
       \/ /\ j # NoJob /\ ~impl.preparing /\ update' = [pc |-> "progress", job |-> j]
          /\ UNCHANGED <<workers, impl>>
  /\ UNCHANGED <<ctl, preps, listens, want, overlap>>

TestProgress ==
  /\ At("progress")
  /\ IF ctl.progress = 100 THEN GoOn("seed") ELSE Return
  /\ UNCHANGED <<workers, impl, preps, overlap>>

\* Mutation of TestSeed: a DAG of any epoch will do.
TestNoSeed ==
  /\ At("seed") /\ GoOn("dag")
  /\ UNCHANGED <<workers, impl, preps, overlap>>

TestSeed ==
  /\ At("seed") /\ GoOn(IF ctl.seed = EpochOf[update.job] THEN "dag" ELSE "start")
  /\ UNCHANGED <<workers, impl, preps, overlap>>

TestDag ==
  /\ At("dag") /\ GoOn(IF ctl.dag # NoDag THEN "store" ELSE "start")
  /\ UNCHANGED <<workers, impl, preps, overlap>>

StoreJob == At("store") /\ Adopt(update.job) /\ Return /\ UNCHANGED <<preps, overlap>>

\* Which of the threads that are free is immaterial.
StartPreparation ==
  /\ At("start") /\ \E p \in Preps : preps[p].pc = "free"
  /\ LET p == CHOOSE q \in Preps : preps[q].pc = "free" IN
       preps' = [preps EXCEPT ![p] = [pc |-> "started", job |-> update.job]]
  /\ impl' = [impl EXCEPT !.preparing = TRUE]
  /\ overlap' = (overlap \/ \E q \in Preps : preps[q].pc # "free")
  /\ Return /\ UNCHANGED workers

UpdateJob ==
  /\ TestProgress \/ TestSeed \/ TestDag \/ StoreJob \/ StartPreparation
  /\ UNCHANGED <<ctl, events, listens, want>>

\* Mutation of DagThreadFinishedHandler: a preparation that gave up returns too early.
HandlerReturnsEarly ==
  /\ At("none") /\ events # <<>> /\ Head(events).kind = "finished"
  /\ events' = Tail(events)
  /\ LET p == Head(events).prep IN
       /\ preps' = [preps EXCEPT ![p] = [pc |-> "free", job |-> NoJob]]
       /\ IF preps[p].pc = "done"
            THEN impl' = [job |-> preps[p].job, preparing |-> FALSE] /\ GiveJob(preps[p].job)
            ELSE UNCHANGED <<impl, workers>>
  /\ UNCHANGED <<ctl, update, listens, want, overlap>>

\* Mutation of DagThreadFinishedHandler: how the preparation ended does not matter.
HandlerWithoutResult ==
  /\ At("none") /\ events # <<>> /\ Head(events).kind = "finished"
  /\ events' = Tail(events)
  /\ LET p == Head(events).prep IN
       /\ preps' = [preps EXCEPT ![p] = [pc |-> "free", job |-> NoJob]]
       /\ impl' = [job |-> preps[p].job, preparing |-> FALSE] /\ GiveJob(preps[p].job)
  /\ UNCHANGED <<ctl, update, listens, want, overlap>>

\* The job goes to the workers now, also when the user has stopped in between.
DagThreadFinishedHandler ==
  /\ At("none") /\ events # <<>> /\ Head(events).kind = "finished"
  /\ events' = Tail(events)
  /\ LET p == Head(events).prep IN
       /\ preps' = [preps EXCEPT ![p] = [pc |-> "free", job |-> NoJob]]
       /\ IF preps[p].pc = "done"
            THEN impl' = [job |-> preps[p].job, preparing |-> FALSE] /\ GiveJob(preps[p].job)
            ELSE impl' = [impl EXCEPT !.preparing = FALSE] /\ UNCHANGED workers
  /\ UNCHANGED <<ctl, update, listens, want, overlap>>

-----------------------------------------------------------------------------
(* The pool thread and the pool *)

\* startListen or stopListen, invoked through the pool thread's queue.
PoolObeys ==
  /\ listens' = (want = "run") /\ listens' # listens
  /\ UNCHANGED <<ctl, preps, impl, update, events, workers, want, overlap>>

\* A job, or the empty one when the pool fails.
PoolSends(j) ==
  /\ listens /\ Len(events) < MaxEvents
  /\ events' = Append(events, JobEvent(j))
  /\ UNCHANGED <<ctl, preps, impl, update, workers, listens, want, overlap>>

-----------------------------------------------------------------------------
\* A null DAG ends the program.
Alive == \A w \in Workers : run[w].pc # "crashed"

\* The user's calls wait while the main thread is in updateJob.
User == At("none") /\ (StopCpu \/ \E n \in Workers : StartCpu(n) \/ SetThreadCount(n))

DagNext ==
  \/ \E w \in Workers : Alive /\ Worker(w)
  \/ \E p \in Preps : Alive /\ Preparation(p)
  \/ Alive /\ User
  \/ Alive /\ HandleJob
  \/ Alive /\ UpdateJob
  \/ Alive /\ DagThreadFinishedHandler
  \/ Alive /\ PoolObeys
  \/ \E j \in Jobs \cup {NoJob} : Alive /\ PoolSends(j)

DagSpec == DagInit /\ [][DagNext]_vars

\* Every thread runs, and the main thread handles its events.  PrepareCallback may go on
\* reporting progress, but the computation is finite.  The user and the pool need not act.
FairDagSpec ==
  /\ DagSpec
  /\ \A w \in Workers : WF_vars(Alive /\ Worker(w))
  /\ \A p \in Preps : /\ WF_vars(Alive /\ Preparation(p))
                      /\ WF_vars(Alive /\ (PrepareCompletes(p) \/ PrepareFails(p))
                                 /\ UNCHANGED <<workers, update, listens, want, overlap>>)
  /\ WF_vars(Alive /\ (HandleJob \/ UpdateJob \/ DagThreadFinishedHandler))
  /\ WF_vars(Alive /\ PoolObeys)

-----------------------------------------------------------------------------
(* Properties *)

DagCtl == [dag : Epochs \cup {NoDag}, seed : Epochs \cup {NoDag}, progress : {0, 100}]
Prep == [pc : {"free", "started", "prepare", "failed", "ready", "gaveUp", "done"},
         job : Jobs \cup {NoJob}]
Impl == [job : Jobs \cup {NoJob}, preparing : BOOLEAN]
Update == [pc : {"progress", "seed", "dag", "store", "start"}, job : Jobs]
          \cup [pc : {"none"}, job : {NoJob}]
Event == [kind : {"job"}, job : Jobs \cup {NoJob}] \cup [kind : {"finished"}, prep : Preps]
Run == [pc : {"idle", "switch", "copy", "check", "set", "prepare", "search", "crashed"},
        job : Jobs \cup {NoJob}, dag : Epochs \cup {NoDag}]

DagTypeOK ==
  /\ ctl \in DagCtl
  /\ preps \in [Preps -> Prep]
  /\ impl \in Impl
  /\ update \in Update
  /\ events \in Seq(Event)
  /\ m_state \in [Workers -> {"Exit", "UpdateJob", "Mining"}]
  /\ m_job \in [Workers -> Jobs \cup {NoJob}]
  /\ starts \in [Workers -> 0..MaxStarts]
  /\ run \in [Workers -> Run]
  /\ listens \in BOOLEAN
  /\ want \in {"run", "stop"}
  /\ overlap \in BOOLEAN

\* While m_preparingInProgress is set, or the progress is below 100, every job is dropped.
\* So there must be a preparation to come, or the coin would never mine again.
NeverDeaf ==
  /\ impl.preparing => \E p \in Preps : preps[p].pc # "free"
  /\ ctl.progress # 100 => \E p \in Preps : Preparing(p)

\* The DAG and the seed hash that decides whether it fits a job agree, or every job of
\* that epoch would be mined in vain; unless two preparations overlapped.
DagOfSeed == ctl.dag # NoDag => ctl.dag = ctl.seed \/ overlap

\* prepareDag has reset the DagController on a thread whose end is still to be handled.
Entered == \E p \in Preps : preps[p].pc \notin {"free", "started"}

\* The MinerImpl takes a job over, from the pool or at the end of a preparation, only when
\* the DAG of its epoch is there, whatever other preparations, stops and starts there were
\* since the job came.  One exception: between updateJob's tests and its store, a
\* preparation that was started before them and disowned by a stop, so that neither the
\* flag nor the progress told of it, may drop the DAG.  The other is overlap.
JobsComeWithDag ==
  [][impl'.job # impl.job /\ impl'.job # NoJob
     => ctl.dag = EpochOf[impl'.job] \/ overlap \/ (At("store") /\ Entered)]_vars

\* A worker that mines the current job searches with the DAG of its epoch, if it has
\* one: the shares it finds are valid.  The exceptions are the moment between a
\* preparation and the handling of its end, and overlap.
SharesOfTheirEpoch ==
  \A w \in Workers :
    /\ run[w].pc = "search" /\ m_state[w] = "Mining"
    /\ run[w].job = impl.job /\ run[w].dag # NoDag
    => \/ run[w].dag = EpochOf[run[w].job] \/ overlap
       \/ \E p \in Preps : preps[p].pc \in {"ready", "done"}

\* ethereumworker.cpp:54, Q_ASSERT(m_currentDag): a search has a DAG.
SearchHasDag == \A w \in Workers : run[w].pc = "search" => run[w].dag # NoDag

\* When the user leaves things as they are, preparations succeed and the pool sends one
\* job again and again, that job is mined again and again with its DAG, whatever was
\* dropped, aborted or overtaken before.
Disturbed(j) ==
  User \/ (\E p \in Preps : PrepareFails(p)) \/ \E i \in (Jobs \cup {NoJob}) \ {j} : PoolSends(i)

MinesAgain == \A j \in Jobs :
  (/\ <>[](want = "run" /\ Alive /\ ~overlap)
   /\ <>[][~Disturbed(j)]_vars /\ []<><<PoolSends(j)>>_vars)
  => []<>(\E w \in Workers : run[w].pc = "search" /\ run[w].job = j /\ run[w].dag = EpochOf[j])
=============================================================================
