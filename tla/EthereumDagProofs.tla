-------------------------- MODULE EthereumDagProofs --------------------------
(***************************************************************************)
(* NeverDeaf, DagOfSeed and SharesOfTheirEpoch for any number of workers,  *)
(* jobs, epochs and preparation threads.                                   *)
(***************************************************************************)
EXTENDS EthereumDag, TLAPS

\* A preparation that has been started has a job.
PrepHasJob == \A p \in Preps : preps[p].pc # "free" => preps[p].job \in Jobs

TypeInv == DagTypeOK /\ PrepHasJob

\* The event at the head of the main thread's queue, and those left behind it.
LEMMA HeadEvent ==
  ASSUME events \in Seq(Event), events # <<>>
  PROVE  /\ Head(events) \in Event
         /\ Tail(events) \in Seq(Event)
         /\ Head(events) = events[1]
         /\ Len(Tail(events)) + 1 = Len(events)
         /\ \A i \in 1..Len(Tail(events)) : Tail(events)[i] = events[i + 1]
OBVIOUS

LEMMA AppendEvent ==
  ASSUME events \in Seq(Event), NEW e \in Event
  PROVE  /\ Append(events, e) \in Seq(Event)
         /\ Len(Append(events, e)) = Len(events) + 1
         /\ Append(events, e)[Len(events) + 1] = e
         /\ \A i \in 1..Len(events) : Append(events, e)[i] = events[i]
OBVIOUS

LEMMA EventKinds ==
  ASSUME NEW e \in Event
  PROVE  /\ e.kind = "job" => e.job \in Jobs \cup {NoJob}
         /\ e.kind = "finished" => e.prep \in Preps
BY DEF Event

\* Every step of a worker keeps the types of its fields.
LEMMA WorkerTypes ==
  ASSUME DagTypeOK, NEW w \in Workers, Worker(w)
  PROVE  /\ m_state' \in [Workers -> {"Exit", "UpdateJob", "Mining"}]
         /\ starts' \in [Workers -> 0..MaxStarts]
         /\ run' \in [Workers -> Run]
<1> USE DEF DagTypeOK
<1>0. run[w] \in Run /\ m_job[w] \in Jobs \cup {NoJob} /\ ctl.dag \in Epochs \cup {NoDag}
  BY DEF DagCtl
<1>1. CASE DeliverStart(w)
  <2>1. starts[w] - 1 \in 0..MaxStarts
    BY <1>1, EthereumDagAssumption DEF DeliverStart
  <2>2. [run[w] EXCEPT !.pc = "switch"] \in Run
    BY <1>0 DEF Run
  <2> QED BY <1>1, <2>1, <2>2 DEF DeliverStart, Goto
<1>2. CASE Switch(w)
  <2>1. ASSUME NEW label \in {"idle", "copy", "search"}
        PROVE  [run[w] EXCEPT !.pc = label] \in Run
    BY <1>0 DEF Run
  <2>2. PICK label \in {"idle", "copy", "search"} : Goto(w, label)
    <3>1. CASE m_state[w] = "Exit"
      BY <1>2, <3>1 DEF Switch
    <3>2. CASE m_state[w] = "UpdateJob"
      BY <1>2, <3>2 DEF Switch
    <3>3. CASE m_state[w] = "Mining"
      BY <1>2, <3>3 DEF Switch
    <3> QED BY <3>1, <3>2, <3>3
  <2> QED BY <1>2, <2>1, <2>2 DEF Switch, Goto
<1>3. CASE CopyJob(w)
  <2>1. [pc |-> "check", job |-> m_job[w], dag |-> NoDag] \in Run
    BY <1>0 DEF Run
  <2> QED BY <1>3, <2>1 DEF CopyJob
<1>4. CASE CheckExit(w)
  <2>1. [run[w] EXCEPT !.pc = "idle"] \in Run /\ [run[w] EXCEPT !.pc = "set"] \in Run
    BY <1>0 DEF Run
  <2> QED BY <1>4, <2>1 DEF CheckExit, Goto
<1>5. CASE SetMining(w)
  <2>1. [run[w] EXCEPT !.pc = "switch"] \in Run /\ [run[w] EXCEPT !.pc = "prepare"] \in Run
    BY <1>0 DEF Run
  <2> QED BY <1>5, <2>1 DEF SetMining, Goto
<1>6. CASE PrepareCalculation(w)
  <2>1. [run[w] EXCEPT !.pc = "search", !.dag = ctl.dag] \in Run
    BY <1>0 DEF Run
  <2> QED BY <1>6, <2>1 DEF PrepareCalculation
<1>7. CASE Search(w)
  <2>1. [run[w] EXCEPT !.pc = "crashed"] \in Run /\ [run[w] EXCEPT !.pc = "switch"] \in Run
    BY <1>0 DEF Run
  <2> QED BY <1>7, <2>1 DEF Search, Goto
<1> QED
  BY <1>1, <1>2, <1>3, <1>4, <1>5, <1>6, <1>7 DEF Worker

\* Every step of a preparation keeps the types of what it writes, and its job.
LEMMA PreparationTypes ==
  ASSUME TypeInv, NEW p \in Preps, Preparation(p)
  PROVE  /\ ctl' \in DagCtl
         /\ preps' \in [Preps -> Prep]
         /\ events' \in Seq(Event)
         /\ impl' = impl
         /\ PrepHasJob'
<1> USE DEF TypeInv, DagTypeOK, PrepHasJob
<1>0. /\ preps[p] \in Prep /\ ctl.dag \in Epochs \cup {NoDag}
      /\ ctl.seed \in Epochs \cup {NoDag}
      /\ ctl = [dag |-> ctl.dag, seed |-> ctl.seed, progress |-> ctl.progress]
  BY DEF DagCtl
<1>00. ASSUME NEW label \in {"prepare", "failed", "ready", "gaveUp", "done"}
       PROVE  [preps[p] EXCEPT !.pc = label] \in Prep
  BY <1>0 DEF Prep
<1>a. ASSUME NEW pc \in {0, 100} PROVE [ctl EXCEPT !.progress = pc] \in DagCtl
  BY <1>0 DEF DagCtl
<1>1. CASE EnterPrepareDag(p)
  <2>1. EpochOf[preps[p].job] \in Epochs
    BY <1>1, EthereumDagAssumption DEF EnterPrepareDag
  <2>2. [dag |-> NoDag, seed |-> EpochOf[preps[p].job], progress |-> 0] \in DagCtl
    BY <2>1 DEF DagCtl
  <2> QED BY <1>00, <1>1, <2>2 DEF EnterPrepareDag, Prep
<1>2. CASE PrepareFails(p)
  BY <1>00, <1>a, <1>2 DEF PrepareFails, Preparing, Prep
<1>3. CASE PrepareCallback(p)
  <2>1. CASE impl.preparing
    BY <1>a, <1>3, <2>1 DEF PrepareCallback
  <2>2. CASE ~impl.preparing
    BY <1>00, <1>a, <1>3, <2>2 DEF PrepareCallback, Preparing, Prep
  <2> QED BY <2>1, <2>2
<1>4. CASE PrepareCompletes(p)
  <2>1. EpochOf[preps[p].job] \in Epochs
    BY <1>4, EthereumDagAssumption DEF PrepareCompletes, Preparing
  <2>2. [ctl EXCEPT !.dag = EpochOf[preps[p].job], !.progress = 100] \in DagCtl
    BY <1>0, <2>1 DEF DagCtl
  <2> QED BY <1>00, <1>4, <2>2 DEF PrepareCompletes, Preparing, Prep
<1>5. CASE ThreadFinishes(p)
  <2>1. FinishedEvent(p) \in Event
    BY DEF FinishedEvent, Event
  <2>2. events' \in Seq(Event)
    BY <1>5, <2>1, AppendEvent DEF ThreadFinishes
  <2>3. preps' \in [Preps -> Prep] /\ PrepHasJob'
    BY <1>00, <1>5 DEF ThreadFinishes, Prep
  <2> QED BY <1>5, <2>2, <2>3 DEF ThreadFinishes
<1> QED
  BY <1>1, <1>2, <1>3, <1>4, <1>5 DEF Preparation

\* What AbstractMinerImpl::updateJob does: every worker has the job, none is Mining.
LEMMA GivenJob ==
  ASSUME DagTypeOK, NEW j \in Jobs \cup {NoJob}, GiveJob(j)
  PROVE  /\ m_job' \in [Workers -> Jobs \cup {NoJob}]
         /\ m_state' \in [Workers -> {"Exit", "UpdateJob"}]
         /\ starts' = starts /\ run' = run
BY DEF DagTypeOK, GiveJob

\* The beginning of updateJob of EthereumMinerImpl: the empty job goes to the workers,
\* any other is dropped or will be tested.
LEMMA HandledJob ==
  ASSUME TypeInv, HandleJob
  PROVE  /\ events # <<>> /\ events' = Tail(events) /\ events' \in Seq(Event)
         /\ UNCHANGED <<ctl, preps, listens, want, overlap>>
         /\ update' \in Update /\ update'.pc \in {"none", "progress"}
         /\ \/ UNCHANGED <<workers, impl>>
            \/ GiveJob(NoJob) /\ impl' = [impl EXCEPT !.job = NoJob]
<1> USE DEF TypeInv, DagTypeOK
<1>1. /\ events # <<>> /\ events' = Tail(events) /\ At("none")
      /\ UNCHANGED <<ctl, preps, listens, want, overlap>>
  BY DEF HandleJob
<1>2. events' \in Seq(Event) /\ Head(events).job \in Jobs \cup {NoJob}
  BY <1>1, HeadEvent, EventKinds DEF HandleJob
<1>3. CASE UNCHANGED update
  <2>1. update' \in Update /\ update'.pc = "none"
    BY <1>1, <1>3 DEF At
  <2>2. UNCHANGED <<workers, impl>> \/ (GiveJob(NoJob) /\ impl' = [impl EXCEPT !.job = NoJob])
    <3>1. Head(events).job # NoJob => ~(update' = [pc |-> "progress", job |-> Head(events).job])
      BY <2>1
    <3> QED BY <3>1 DEF HandleJob, Adopt
  <2> QED BY <1>1, <1>2, <2>1, <2>2
<1>4. CASE ~UNCHANGED update
  <2>1. /\ update' = [pc |-> "progress", job |-> Head(events).job]
        /\ Head(events).job # NoJob /\ UNCHANGED <<workers, impl>>
    BY <1>4 DEF HandleJob
  <2>2. update' \in Update /\ update'.pc = "progress"
    BY <1>2, <2>1 DEF Update
  <2> QED BY <1>1, <1>2, <2>1, <2>2
<1> QED
  BY <1>3, <1>4

\* What the steps of updateJob do: tests, the store of a job, or a preparation.
LEMMA UpdatedJob ==
  ASSUME TypeInv, UpdateJob
  PROVE  /\ UNCHANGED <<ctl, events, listens, want>>
         /\ update' \in Update /\ update.job \in Jobs
         /\ \/ UNCHANGED <<workers, impl, preps, overlap>>
            \/ /\ At("store") /\ GiveJob(update.job)
               /\ impl' = [impl EXCEPT !.job = update.job] /\ UNCHANGED <<preps, overlap>>
            \/ /\ impl' = [impl EXCEPT !.preparing = TRUE] /\ UNCHANGED workers
               /\ overlap' = (overlap \/ \E q \in Preps : preps[q].pc # "free")
               /\ \E p \in Preps :
                    /\ preps[p].pc = "free"
                    /\ preps' = [preps EXCEPT ![p] = [pc |-> "started", job |-> update.job]]
<1> USE DEF TypeInv, DagTypeOK
<1>1. UNCHANGED <<ctl, events, listens, want>>
  BY DEF UpdateJob
<1>2. update.pc # "none" /\ update.job \in Jobs
  BY DEF UpdateJob, TestProgress, TestSeed, TestDag, StoreJob, StartPreparation, At, Update
<1>3. [pc |-> "none", job |-> NoJob] \in Update
  BY DEF Update
<1>4. ASSUME NEW label \in {"seed", "dag", "store", "start"}
      PROVE  [update EXCEPT !.pc = label] \in Update
  BY <1>2 DEF Update
<1>5. CASE TestProgress \/ TestSeed \/ TestDag
  <2>1. UNCHANGED <<workers, impl, preps, overlap>>
    BY <1>5 DEF TestProgress, TestSeed, TestDag
  <2>2. update' \in Update
    <3>1. CASE TestProgress
      <4>1. CASE ctl.progress = 100
        BY <1>4, <3>1, <4>1 DEF TestProgress, GoOn
      <4>2. CASE ctl.progress # 100
        BY <1>3, <3>1, <4>2 DEF TestProgress, Return
      <4> QED BY <4>1, <4>2
    <3>2. CASE TestSeed
      <4>1. CASE ctl.seed = EpochOf[update.job]
        BY <1>4, <3>2, <4>1 DEF TestSeed, GoOn
      <4>2. CASE ctl.seed # EpochOf[update.job]
        BY <1>4, <3>2, <4>2 DEF TestSeed, GoOn
      <4> QED BY <4>1, <4>2
    <3>3. CASE TestDag
      <4>1. CASE ctl.dag # NoDag
        BY <1>4, <3>3, <4>1 DEF TestDag, GoOn
      <4>2. CASE ctl.dag = NoDag
        BY <1>4, <3>3, <4>2 DEF TestDag, GoOn
      <4> QED BY <4>1, <4>2
    <3> QED BY <1>5, <3>1, <3>2, <3>3
  <2> QED BY <1>1, <1>2, <2>1, <2>2
<1>6. CASE StoreJob
  BY <1>1, <1>2, <1>3, <1>6 DEF StoreJob, Adopt, Return
<1>7. CASE StartPreparation
  <2>1. DEFINE p == CHOOSE q \in Preps : preps[q].pc = "free"
  <2>2. p \in Preps /\ preps[p].pc = "free"
    BY <1>7 DEF StartPreparation
  <2>3. preps' = [preps EXCEPT ![p] = [pc |-> "started", job |-> update.job]]
    BY <1>7 DEF StartPreparation
  <2>4. /\ impl' = [impl EXCEPT !.preparing = TRUE] /\ UNCHANGED workers
        /\ overlap' = (overlap \/ \E q \in Preps : preps[q].pc # "free")
    BY <1>7 DEF StartPreparation
  <2>5. update' \in Update
    BY <1>3, <1>7 DEF StartPreparation, Return
  <2> HIDE DEF p
  <2> QED BY <1>1, <1>2, <2>2, <2>3, <2>4, <2>5
<1> QED
  BY <1>5, <1>6, <1>7 DEF UpdateJob

LEMMA UpdateJobTypes ==
  ASSUME TypeInv, UpdateJob
  PROVE  /\ preps' \in [Preps -> Prep] /\ PrepHasJob'
         /\ impl' \in Impl
         /\ m_state' \in [Workers -> {"Exit", "UpdateJob", "Mining"}]
         /\ m_job' \in [Workers -> Jobs \cup {NoJob}]
         /\ starts' = starts /\ run' = run
         /\ overlap' \in BOOLEAN
<1> USE DEF TypeInv, DagTypeOK, PrepHasJob
<1>0. update.job \in Jobs
  BY UpdatedJob
<1>1. CASE UNCHANGED <<workers, impl, preps, overlap>>
  BY <1>1 DEF workers
<1>2. CASE /\ GiveJob(update.job) /\ impl' = [impl EXCEPT !.job = update.job]
           /\ UNCHANGED <<preps, overlap>>
  <2>1. impl' \in Impl
    BY <1>0, <1>2 DEF Impl
  <2> QED BY <1>0, <1>2, <2>1, GivenJob
<1>3. CASE /\ impl' = [impl EXCEPT !.preparing = TRUE] /\ UNCHANGED workers
           /\ overlap' = (overlap \/ \E q \in Preps : preps[q].pc # "free")
           /\ \E p \in Preps :
                preps' = [preps EXCEPT ![p] = [pc |-> "started", job |-> update.job]]
  <2>1. [pc |-> "started", job |-> update.job] \in Prep
    BY <1>0 DEF Prep
  <2>2. impl' \in Impl
    BY <1>3 DEF Impl
  <2>3. preps' \in [Preps -> Prep] /\ PrepHasJob'
    BY <1>0, <1>3, <2>1
  <2>4. overlap' \in BOOLEAN
    BY <1>3
  <2> QED BY <1>3, <2>2, <2>3, <2>4 DEF workers
<1> QED
  BY <1>1, <1>2, <1>3, UpdatedJob

\* The two ways in which dagThreadFinishedHandler ends.
LEMMA Handled ==
  ASSUME TypeInv, DagThreadFinishedHandler
  PROVE  \E p \in Preps :
           /\ events # <<>> /\ Head(events).kind = "finished" /\ p = Head(events).prep
           /\ preps' = [preps EXCEPT ![p] = [pc |-> "free", job |-> NoJob]]
           /\ preps[p].job \in Jobs \cup {NoJob}
           /\ \/ /\ preps[p].pc = "done" /\ GiveJob(preps[p].job)
                 /\ impl' = [job |-> preps[p].job, preparing |-> FALSE]
              \/ /\ preps[p].pc # "done" /\ UNCHANGED workers
                 /\ impl' = [impl EXCEPT !.preparing = FALSE]
<1> USE DEF TypeInv, DagTypeOK
<1>1. events # <<>> /\ Head(events).kind = "finished"
  BY DEF DagThreadFinishedHandler
<1>2. Head(events).prep \in Preps
  BY <1>1, HeadEvent, EventKinds
<1>3. preps[Head(events).prep].job \in Jobs \cup {NoJob}
  BY <1>2 DEF Prep
<1> QED
  BY <1>1, <1>2, <1>3 DEF DagThreadFinishedHandler

\* That a preparation has a job is part of the invariant: the seed hash it stores is
\* that job's.
LEMMA TypeInvariant == DagSpec => []TypeInv
<1>1. DagInit => TypeInv
  <2> SUFFICES ASSUME DagInit PROVE TypeInv
    OBVIOUS
  <2>1. ctl \in DagCtl
    BY DEF DagInit, DagCtl
  <2>2. preps \in [Preps -> Prep] /\ PrepHasJob
    BY DEF DagInit, Prep, PrepHasJob
  <2>3. impl \in Impl /\ update \in Update /\ events \in Seq(Event)
    BY DEF DagInit, Impl, Update
  <2>4. run \in [Workers -> Run]
    BY DEF DagInit, Run
  <2>5. starts \in [Workers -> 0..MaxStarts]
    BY EthereumDagAssumption DEF DagInit
  <2>6. m_state \in [Workers -> {"Exit", "UpdateJob", "Mining"}]
        /\ m_job \in [Workers -> Jobs \cup {NoJob}]
    BY DEF DagInit
  <2> QED
    BY <2>1, <2>2, <2>3, <2>4, <2>5, <2>6 DEF DagInit, TypeInv, DagTypeOK
<1>2. TypeInv /\ [DagNext]_vars => TypeInv'
  <2> SUFFICES ASSUME TypeInv, [DagNext]_vars PROVE TypeInv'
    OBVIOUS
  <2> USE DEF TypeInv, DagTypeOK
  <2>1. ASSUME NEW w \in Workers, Worker(w) PROVE TypeInv'
    <3>1. m_job' = m_job /\ UNCHANGED <<ctl, preps, impl, update, events, listens, want, overlap>>
      BY <2>1 DEF Worker, DeliverStart, Switch, CopyJob, CheckExit, SetMining,
                  PrepareCalculation, Search
    <3> QED BY <2>1, <3>1, WorkerTypes DEF PrepHasJob
  <2>2. ASSUME NEW p \in Preps, Preparation(p) PROVE TypeInv'
    <3>1. UNCHANGED <<m_state, m_job, starts, run, update, listens, want, overlap>>
      BY <2>2 DEF Preparation, workers
    <3> QED BY <2>2, <3>1, PreparationTypes
  <2>3. ASSUME NEW n \in Workers, StartCpu(n) \/ SetThreadCount(n) PROVE TypeInv'
    <3>1. /\ UNCHANGED <<ctl, preps, impl, update, events, run, listens, overlap>>
          /\ want' \in {"run", "stop"}
      BY <2>3 DEF StartCpu, SetThreadCount
    <3>2. m_state' \in [Workers -> {"Exit", "UpdateJob", "Mining"}]
      BY <2>3 DEF StartCpu, SetThreadCount
    <3>3. PICK chosen : StartWorkers(chosen)
      BY <2>3 DEF StartCpu, SetThreadCount
    <3>4. impl.job \in Jobs \cup {NoJob}
      BY DEF Impl
    <3>5. m_job' \in [Workers -> Jobs \cup {NoJob}]
      BY <3>3, <3>4 DEF StartWorkers
    <3>6. starts' \in [Workers -> 0..MaxStarts]
      BY <3>3, EthereumDagAssumption DEF StartWorkers
    <3> QED BY <3>1, <3>2, <3>5, <3>6 DEF PrepHasJob
  <2>4. CASE StopCpu
    <3>1. impl' \in Impl
      BY <2>4 DEF StopCpu, Impl
    <3> QED BY <2>4, <3>1 DEF StopCpu, PrepHasJob
  <2>5. CASE HandleJob
    <3>1. /\ UNCHANGED <<ctl, preps, listens, want, overlap>> /\ events' \in Seq(Event)
          /\ update' \in Update
          /\ \/ UNCHANGED <<workers, impl>>
             \/ GiveJob(NoJob) /\ impl' = [impl EXCEPT !.job = NoJob]
      BY <2>5, HandledJob
    <3>2. CASE UNCHANGED <<workers, impl>>
      BY <3>1, <3>2 DEF workers, PrepHasJob
    <3>3. CASE GiveJob(NoJob) /\ impl' = [impl EXCEPT !.job = NoJob]
      <4>1. impl' \in Impl
        BY <3>3 DEF Impl
      <4>2. /\ m_state' \in [Workers -> {"Exit", "UpdateJob", "Mining"}]
            /\ m_job' \in [Workers -> Jobs \cup {NoJob}]
            /\ starts' = starts /\ run' = run
        BY <3>3, GivenJob
      <4> QED BY <3>1, <4>1, <4>2 DEF PrepHasJob
    <3> QED BY <3>1, <3>2, <3>3
  <2>10. CASE UpdateJob
    <3>1. UNCHANGED <<ctl, events, listens, want>> /\ update' \in Update
      BY <2>10, UpdatedJob
    <3> QED BY <2>10, <3>1, UpdateJobTypes
  <2>6. CASE DagThreadFinishedHandler
    <3>1. PICK p \in Preps :
            /\ events # <<>>
            /\ preps' = [preps EXCEPT ![p] = [pc |-> "free", job |-> NoJob]]
            /\ preps[p].job \in Jobs \cup {NoJob}
            /\ \/ /\ preps[p].pc = "done" /\ GiveJob(preps[p].job)
                  /\ impl' = [job |-> preps[p].job, preparing |-> FALSE]
               \/ /\ preps[p].pc # "done" /\ UNCHANGED workers
                  /\ impl' = [impl EXCEPT !.preparing = FALSE]
      BY <2>6, Handled
    <3>2. [pc |-> "free", job |-> NoJob] \in Prep
      BY DEF Prep
    <3>3. preps' \in [Preps -> Prep] /\ PrepHasJob'
      BY <3>1, <3>2 DEF PrepHasJob
    <3>4. events' \in Seq(Event) /\ UNCHANGED <<ctl, update, listens, want, overlap>>
      BY <2>6, HeadEvent DEF DagThreadFinishedHandler
    <3>5. impl' \in Impl
      <4>1. CASE impl' = [job |-> preps[p].job, preparing |-> FALSE]
        BY <3>1, <4>1 DEF Impl
      <4>2. CASE impl' = [impl EXCEPT !.preparing = FALSE]
        BY <4>2 DEF Impl
      <4> QED BY <3>1, <4>1, <4>2
    <3>6. /\ m_state' \in [Workers -> {"Exit", "UpdateJob", "Mining"}]
          /\ m_job' \in [Workers -> Jobs \cup {NoJob}]
          /\ starts' = starts /\ run' = run
      BY <3>1, GivenJob DEF workers
    <3> QED BY <3>3, <3>4, <3>5, <3>6
  <2>7. CASE PoolObeys
    BY <2>7 DEF PoolObeys, workers, PrepHasJob
  <2>8. ASSUME NEW j \in Jobs \cup {NoJob}, PoolSends(j) PROVE TypeInv'
    <3>1. JobEvent(j) \in Event
      BY DEF JobEvent, Event
    <3> QED BY <2>8, <3>1, AppendEvent DEF PoolSends, workers, PrepHasJob
  <2>9. CASE UNCHANGED vars
    BY <2>9 DEF vars, PrepHasJob
  <2> QED
    BY <2>1, <2>2, <2>3, <2>4, <2>5, <2>6, <2>7, <2>8, <2>9, <2>10 DEF DagNext, User
<1> QED
  BY <1>1, <1>2, PTL DEF DagSpec

\* DagTypeOK, of the whole module: what the handlers, prepareDag and the workers store.
THEOREM DagTypeCorrect == DagSpec => []DagTypeOK
BY TypeInvariant, PTL DEF TypeInv

-----------------------------------------------------------------------------
(* NeverDeaf.  A preparation is given back when its one event is handled, which *)
(* it has queued after it has ended.                                            *)

Ended(p) == preps[p].pc \in {"gaveUp", "done"}

EventOfEnded == \A i \in 1..Len(events) : events[i].kind = "finished" => Ended(events[i].prep)

EventOnce == \A i, k \in 1..Len(events) :
  events[i].kind = "finished" /\ events[k].kind = "finished" /\ events[i].prep = events[k].prep
  => i = k

EventInv == EventOfEnded /\ EventOnce

\* What updateJob does to the preparations: at most it starts a free one.
LEMMA StartsFree ==
  ASSUME TypeInv, UpdateJob
  PROVE  \/ UNCHANGED preps /\ impl'.preparing = impl.preparing
         \/ \E p \in Preps, j \in Jobs :
              /\ preps[p].pc = "free"
              /\ preps' = [preps EXCEPT ![p] = [pc |-> "started", job |-> j]]
<1>1. impl \in Impl
  BY DEF TypeInv, DagTypeOK
<1> QED
  BY <1>1, UpdatedJob DEF Impl

LEMMA EventInvariant == TypeInv /\ EventInv /\ [DagNext]_vars => EventInv'
<1> SUFFICES ASSUME TypeInv, EventInv, [DagNext]_vars PROVE EventInv'
  OBVIOUS
<1> USE DEF TypeInv, DagTypeOK
<1>0. /\ \A i \in 1..Len(events) : events[i] \in Event
      /\ Len(events) \in Nat
  OBVIOUS
<1>1. CASE UNCHANGED <<preps, events>>
  BY <1>1 DEF EventInv, EventOfEnded, EventOnce, Ended
<1>2. ASSUME NEW p \in Preps, Preparation(p), ~ThreadFinishes(p) PROVE EventInv'
  <2>1. ~Ended(p) /\ events' = events /\ \A q \in Preps \ {p} : preps'[q] = preps[q]
    BY <1>2 DEF Preparation, EnterPrepareDag, PrepareFails, PrepareCallback,
                PrepareCompletes, Preparing, Ended
  <2>2. \A i \in 1..Len(events) : events[i].kind = "finished" => events[i].prep \in Preps \ {p}
    BY <1>0, <2>1, EventKinds DEF EventInv, EventOfEnded
  <2> QED BY <2>1, <2>2 DEF EventInv, EventOfEnded, EventOnce, Ended
<1>3. ASSUME NEW p \in Preps, ThreadFinishes(p) PROVE EventInv'
  <2>1. ~Ended(p) /\ Ended(p)' /\ \A q \in Preps \ {p} : preps'[q] = preps[q]
    BY <1>3 DEF ThreadFinishes, Ended
  <2>2. \A i \in 1..Len(events) : events[i].kind = "finished" => events[i].prep \in Preps \ {p}
    BY <1>0, <2>1, EventKinds DEF EventInv, EventOfEnded
  <2>3. FinishedEvent(p) \in Event /\ FinishedEvent(p).kind = "finished" /\ FinishedEvent(p).prep = p
    BY DEF FinishedEvent, Event
  <2>4. /\ Len(events') = Len(events) + 1
        /\ events'[Len(events) + 1] = FinishedEvent(p)
        /\ \A i \in 1..Len(events) : events'[i] = events[i]
    BY <1>3, <2>3, AppendEvent DEF ThreadFinishes
  <2>5. \A i \in 1..Len(events') : i \in 1..Len(events) \/ i = Len(events) + 1
    BY <1>0, <2>4
  <2>6. EventOfEnded'
    BY <2>1, <2>2, <2>3, <2>4, <2>5 DEF EventInv, EventOfEnded, Ended
  <2>7. EventOnce'
    BY <2>2, <2>3, <2>4, <2>5 DEF EventInv, EventOnce
  <2> QED BY <2>6, <2>7 DEF EventInv
<1>4. ASSUME events # <<>>, events' = Tail(events) PROVE
        /\ EventOnce'
        /\ \A i \in 1..Len(events') : /\ i + 1 \in 1..Len(events) /\ i + 1 # 1
                                     /\ events'[i] = events[i + 1]
  <2>1. \A i \in 1..Len(events') : /\ i + 1 \in 1..Len(events) /\ i + 1 # 1
                                   /\ events'[i] = events[i + 1]
    BY <1>0, <1>4, HeadEvent
  <2>2. EventOnce'
    BY <2>1 DEF EventInv, EventOnce
  <2> QED BY <2>1, <2>2
<1>5. CASE HandleJob
  <2>1. events # <<>> /\ events' = Tail(events)
    BY <1>5 DEF HandleJob
  <2>2. preps' = preps
    BY <1>5, HandledJob
  <2>3. \A i \in 1..Len(events) : events[i].kind = "finished" => events[i].prep \in Preps
    BY <1>0, EventKinds
  <2> QED BY <1>4, <2>1, <2>2, <2>3 DEF EventInv, EventOfEnded, Ended
<1>8. CASE UpdateJob
  <2>1. events' = events
    BY <1>8, UpdatedJob
  <2>2. \A q \in Preps : Ended(q) => Ended(q)'
    <3>1. \/ UNCHANGED preps
          \/ \E p \in Preps, j \in Jobs :
               /\ preps[p].pc = "free"
               /\ preps' = [preps EXCEPT ![p] = [pc |-> "started", job |-> j]]
      BY <1>8, StartsFree
    <3> QED BY <3>1 DEF Ended
  <2>3. \A i \in 1..Len(events) : events[i].kind = "finished" => events[i].prep \in Preps
    BY <1>0, EventKinds
  <2> QED BY <2>1, <2>2, <2>3 DEF EventInv, EventOfEnded, EventOnce
<1>6. CASE DagThreadFinishedHandler
  <2>1. events # <<>> /\ events' = Tail(events)
    BY <1>6 DEF DagThreadFinishedHandler
  <2>2. PICK p \in Preps :
          /\ Head(events).kind = "finished" /\ p = Head(events).prep
          /\ preps' = [preps EXCEPT ![p] = [pc |-> "free", job |-> NoJob]]
    BY <1>6, Handled
  <2>3. 1 \in 1..Len(events) /\ Head(events) = events[1]
    BY <1>0, <2>1, HeadEvent
  <2>4. \A i \in 1..Len(events') : events'[i].kind = "finished" => events'[i].prep \in Preps \ {p}
    BY <1>0, <1>4, <2>1, <2>2, <2>3, EventKinds DEF EventInv, EventOnce
  <2>5. \A q \in Preps \ {p} : Ended(q) => Ended(q)'
    BY <2>2 DEF Ended
  <2> QED BY <1>4, <2>1, <2>4, <2>5 DEF EventInv, EventOfEnded
<1>7. ASSUME NEW j \in Jobs \cup {NoJob}, PoolSends(j) PROVE EventInv'
  <2>1. JobEvent(j) \in Event /\ JobEvent(j).kind = "job"
    BY DEF JobEvent, Event
  <2>2. /\ Len(events') = Len(events) + 1
        /\ events'[Len(events) + 1] = JobEvent(j)
        /\ \A i \in 1..Len(events) : events'[i] = events[i]
    BY <1>7, <2>1, AppendEvent DEF PoolSends
  <2>3. \A i \in 1..Len(events') : i \in 1..Len(events) \/ i = Len(events) + 1
    BY <1>0, <2>2
  <2>4. preps' = preps
    BY <1>7 DEF PoolSends
  <2>5. EventOfEnded'
    BY <2>1, <2>2, <2>3, <2>4 DEF EventInv, EventOfEnded, Ended
  <2>6. EventOnce'
    BY <2>1, <2>2, <2>3 DEF EventInv, EventOnce
  <2> QED BY <2>5, <2>6 DEF EventInv
<1> QED
  BY <1>1, <1>2, <1>3, <1>5, <1>6, <1>7, <1>8 DEF DagNext, vars, User, Worker, StartCpu,
     SetThreadCount, StopCpu, PoolObeys

\* A preparation thread touches no other, and does not give itself back.
LEMMA PreparationFrame ==
  ASSUME TypeInv, NEW p \in Preps, Preparation(p)
  PROVE  /\ impl' = impl /\ UNCHANGED overlap /\ UNCHANGED workers
         /\ preps[p].pc # "free" /\ preps'[p].pc # "free" /\ preps'[p].job = preps[p].job
         /\ \A q \in Preps \ {p} : preps'[q] = preps[q]
<1> USE DEF TypeInv, DagTypeOK
<1>1. CASE EnterPrepareDag(p)
  BY <1>1 DEF EnterPrepareDag, Preparation, Prep
<1>2. CASE PrepareFails(p) \/ PrepareCompletes(p)
  BY <1>2 DEF PrepareFails, PrepareCompletes, Preparing, Preparation, Prep
<1>3. CASE PrepareCallback(p)
  BY <1>3 DEF PrepareCallback, Preparing, Preparation, Prep
<1>4. CASE ThreadFinishes(p)
  BY <1>4 DEF ThreadFinishes, Preparation, Prep
<1> QED
  BY <1>1, <1>2, <1>3, <1>4 DEF Preparation

\* NeverDeaf: jobs are dropped only while a preparation exists, whatever was stopped,
\* aborted or started in between.
THEOREM AlwaysListens == DagSpec => []NeverDeaf
<1>1. DagInit => EventInv /\ NeverDeaf
  BY DEF DagInit, EventInv, EventOfEnded, EventOnce, NeverDeaf
<1>2. TypeInv /\ EventInv /\ NeverDeaf /\ [DagNext]_vars => NeverDeaf'
  <2> SUFFICES ASSUME TypeInv, EventInv, NeverDeaf, [DagNext]_vars PROVE NeverDeaf'
    OBVIOUS
  <2> USE DEF TypeInv, DagTypeOK
  <2>1. CASE UNCHANGED <<ctl, preps, impl>>
    BY <2>1 DEF NeverDeaf, Preparing
  <2>2. ASSUME NEW p \in Preps, Preparation(p) PROVE NeverDeaf'
    <3>1. impl' = impl /\ preps'[p].pc # "free" /\ \A q \in Preps \ {p} : preps'[q] = preps[q]
      BY <2>2, PreparationFrame
    <3>2. CASE EnterPrepareDag(p)
      BY <3>1, <3>2 DEF EnterPrepareDag, Preparing, NeverDeaf
    <3>3. CASE PrepareFails(p) \/ PrepareCompletes(p)
      <4>1. ctl'.progress = 100
        <5>1. CASE PrepareFails(p)
          BY <5>1 DEF PrepareFails, DagCtl
        <5>2. CASE PrepareCompletes(p)
          BY <5>2 DEF PrepareCompletes, DagCtl
        <5> QED BY <3>3, <5>1, <5>2
      <4> QED BY <3>1, <4>1 DEF NeverDeaf
    <3>4. CASE PrepareCallback(p)
      <4>1. CASE impl.preparing
        BY <3>1, <3>4, <4>1 DEF PrepareCallback, Preparing, NeverDeaf
      <4>2. CASE ~impl.preparing
        <5>1. ctl'.progress = 100
          BY <3>4, <4>2 DEF PrepareCallback, DagCtl
        <5> QED BY <3>1, <5>1 DEF NeverDeaf
      <4> QED BY <4>1, <4>2
    <3>5. CASE ThreadFinishes(p)
      <4>1. ctl' = ctl /\ ~Preparing(p)
        BY <3>5 DEF ThreadFinishes, Preparing
      <4> QED BY <3>1, <4>1 DEF NeverDeaf, Preparing
    <3> QED BY <2>2, <3>2, <3>3, <3>4, <3>5 DEF Preparation
  <2>3. CASE StopCpu
    <3>1. impl'.preparing = FALSE /\ ctl' = ctl /\ preps' = preps
      BY <2>3 DEF StopCpu
    <3> QED BY <3>1 DEF NeverDeaf, Preparing
  <2>4. CASE HandleJob
    <3>1. ctl' = ctl /\ preps' = preps /\ impl'.preparing = impl.preparing
      BY <2>4, HandledJob DEF Impl
    <3> QED BY <3>1 DEF NeverDeaf, Preparing
  <2>6. CASE UpdateJob
    <3>1. ctl' = ctl
      BY <2>6, UpdatedJob
    <3>2. CASE UNCHANGED preps /\ impl'.preparing = impl.preparing
      BY <3>1, <3>2 DEF NeverDeaf, Preparing
    <3>3. CASE \E p \in Preps, j \in Jobs :
                 /\ preps[p].pc = "free"
                 /\ preps' = [preps EXCEPT ![p] = [pc |-> "started", job |-> j]]
      BY <3>1, <3>3 DEF NeverDeaf, Preparing
    <3> QED BY <2>6, <3>2, <3>3, StartsFree
  <2>5. CASE DagThreadFinishedHandler
    <3>1. PICK p \in Preps :
            /\ events # <<>> /\ Head(events).kind = "finished" /\ p = Head(events).prep
            /\ preps' = [preps EXCEPT ![p] = [pc |-> "free", job |-> NoJob]]
            /\ \/ impl' = [job |-> preps[p].job, preparing |-> FALSE]
               \/ impl' = [impl EXCEPT !.preparing = FALSE]
      BY <2>5, Handled
    <3>2. 1 \in 1..Len(events) /\ Head(events) = events[1]
      BY <3>1, HeadEvent
    <3>3. ~Preparing(p)
      BY <3>1, <3>2 DEF EventInv, EventOfEnded, Ended, Preparing
    <3>4. impl'.preparing = FALSE /\ ctl' = ctl
      BY <2>5, <3>1 DEF DagThreadFinishedHandler, Impl
    <3> QED BY <3>1, <3>3, <3>4 DEF NeverDeaf, Preparing
  <2> QED
    BY <2>1, <2>2, <2>3, <2>4, <2>5, <2>6 DEF DagNext, vars, User, Worker, StartCpu,
       SetThreadCount, PoolObeys, PoolSends
<1> QED
  BY <1>1, <1>2, TypeInvariant, EventInvariant, PTL DEF DagSpec

-----------------------------------------------------------------------------
(* DagOfSeed and SharesOfTheirEpoch.  Without overlap only one thread touches *)
(* the DAG, so what it holds can be told from where that thread is.           *)

Busies(p) == preps[p].pc # "free"

OnePrep == \A p, q \in Preps : Busies(p) /\ Busies(q) => p = q

\* What each part of prepareDag has left in the controller.
PrepDag == \A p \in Preps :
  /\ preps[p].pc = "prepare" => ctl.seed = EpochOf[preps[p].job]
  /\ preps[p].pc \in {"prepare", "failed", "gaveUp"} => ctl.dag = NoDag
  /\ preps[p].pc \in {"ready", "done"} => ctl.dag = EpochOf[preps[p].job]

\* The DAG is computed, and its job has not been given yet.
JobToCome == \E p \in Preps : preps[p].pc \in {"ready", "done"}

\* The main thread's job fits the DAG, or there is none.
JobOfDag == ctl.dag # NoDag /\ impl.job # NoJob => ctl.dag = EpochOf[impl.job] \/ JobToCome

SeedOfDag == ctl.dag # NoDag => ctl.dag = ctl.seed

\* What updateJob has seen holds still, or a disowned preparation has reset the DAG since.
UpdateOfDag ==
  /\ At("dag") => ctl.seed = EpochOf[update.job] \/ Entered
  /\ At("store") => ctl.dag = EpochOf[update.job] \/ Entered

EpochInv == ~overlap => OnePrep /\ PrepDag /\ JobOfDag /\ SeedOfDag /\ UpdateOfDag

\* Once a preparation has entered prepareDag, it is there until its end is handled: its
\* own steps and those of others leave what updateJob has seen, or make Entered true.
LEMMA EnteredStays ==
  ASSUME TypeInv, ~overlap => UpdateOfDag, NEW p \in Preps, Preparation(p)
  PROVE  ~overlap => UpdateOfDag'
<1> USE DEF TypeInv, DagTypeOK
<1>1. update' = update
  BY DEF Preparation
<1>2. preps[p].pc \notin {"free", "started"} => preps'[p].pc \notin {"free", "started"}
  <2>1. CASE EnterPrepareDag(p)
    BY <2>1 DEF EnterPrepareDag
  <2>2. CASE PrepareFails(p) \/ PrepareCompletes(p)
    BY <2>2 DEF PrepareFails, PrepareCompletes, Prep
  <2>3. CASE PrepareCallback(p)
    BY <2>3 DEF PrepareCallback, Prep
  <2>4. CASE ThreadFinishes(p)
    BY <2>4 DEF ThreadFinishes, Prep
  <2> QED BY <2>1, <2>2, <2>3, <2>4 DEF Preparation
<1>3. Entered => Entered'
  BY <1>2, PreparationFrame DEF Entered
<1>4. (ctl'.dag = ctl.dag /\ ctl'.seed = ctl.seed) \/ Entered'
  <2>1. CASE EnterPrepareDag(p)
    <3>1. preps'[p].pc = "prepare"
      BY <2>1 DEF EnterPrepareDag
    <3> QED BY <3>1 DEF Entered
  <2>2. CASE PrepareFails(p)
    BY <2>2 DEF PrepareFails, DagCtl
  <2>3. CASE PrepareCompletes(p)
    <3>1. preps'[p].pc = "ready"
      BY <2>3 DEF PrepareCompletes
    <3> QED BY <3>1 DEF Entered
  <2>4. CASE PrepareCallback(p)
    BY <2>4 DEF PrepareCallback, DagCtl
  <2>5. CASE ThreadFinishes(p)
    BY <2>5 DEF ThreadFinishes
  <2> QED BY <2>1, <2>2, <2>3, <2>4, <2>5 DEF Preparation
<1> QED
  BY <1>1, <1>3, <1>4 DEF UpdateOfDag, At

\* The tests of updateJob, as far as it remembers them.
LEMMA TestsRemembered ==
  ASSUME TypeInv, EpochInv, UpdateJob
  PROVE  ~overlap => UpdateOfDag'
<1> SUFFICES ASSUME ~overlap PROVE UpdateOfDag'
  OBVIOUS
<1> USE DEF TypeInv, DagTypeOK
<1>1. SeedOfDag /\ UpdateOfDag /\ ctl' = ctl
  BY UpdatedJob DEF EpochInv
<1>2. CASE update'.pc \in {"none", "seed", "start"}
  BY <1>2 DEF UpdateOfDag, At
<1>3. CASE TestProgress
  BY <1>2, <1>3 DEF TestProgress, GoOn, Return, Update
<1>4. CASE TestSeed
  <2>1. preps' = preps
    BY <1>4 DEF TestSeed
  <2>2. CASE ctl.seed = EpochOf[update.job]
    <3>1. update'.pc = "dag" /\ update'.job = update.job
      BY <1>4, <2>2 DEF TestSeed, GoOn, Update
    <3> QED BY <1>1, <2>2, <3>1 DEF UpdateOfDag, At
  <2>3. CASE ctl.seed # EpochOf[update.job]
    BY <1>2, <1>4, <2>3 DEF TestSeed, GoOn, Update
  <2> QED BY <2>2, <2>3
<1>5. CASE TestDag
  <2>1. preps' = preps /\ At("dag")
    BY <1>5 DEF TestDag
  <2>2. CASE ctl.dag # NoDag
    <3>1. update'.pc = "store" /\ update'.job = update.job
      BY <1>5, <2>2 DEF TestDag, GoOn, Update
    <3>2. ctl.dag = EpochOf[update.job] \/ Entered
      BY <1>1, <2>1, <2>2 DEF SeedOfDag, UpdateOfDag
    <3> QED BY <1>1, <2>1, <3>1, <3>2 DEF UpdateOfDag, At, Entered
  <2>3. CASE ctl.dag = NoDag
    BY <1>2, <1>5, <2>3 DEF TestDag, GoOn, Update
  <2> QED BY <2>2, <2>3
<1>6. CASE StoreJob \/ StartPreparation
  BY <1>2, <1>6 DEF StoreJob, StartPreparation, Return
<1> QED
  BY <1>3, <1>4, <1>5, <1>6 DEF UpdateJob

LEMMA EpochInvariant == TypeInv /\ EventInv /\ EpochInv /\ [DagNext]_vars => EpochInv'
<1> SUFFICES ASSUME TypeInv, EventInv, EpochInv, [DagNext]_vars PROVE EpochInv'
  OBVIOUS
<1> USE DEF TypeInv, DagTypeOK
<1>0. \A p \in Preps : Busies(p) => EpochOf[preps[p].job] # NoDag
  BY EthereumDagAssumption DEF PrepHasJob, Busies
<1>1. CASE UNCHANGED <<ctl, preps, impl, update, overlap>>
  BY <1>1 DEF EpochInv, OnePrep, Busies, PrepDag, JobOfDag, JobToCome, SeedOfDag, UpdateOfDag,
              At, Entered
<1>2. ASSUME NEW p \in Preps, Preparation(p) PROVE EpochInv'
  <2> SUFFICES ASSUME ~overlap PROVE (OnePrep /\ PrepDag /\ JobOfDag /\ SeedOfDag)'
    <3>1. ~overlap => UpdateOfDag'
      BY <1>2, EnteredStays DEF EpochInv
    <3> QED BY <1>2, <3>1, PreparationFrame DEF EpochInv
  <2>1. OnePrep /\ PrepDag /\ JobOfDag /\ SeedOfDag
    BY DEF EpochInv
  <2>2. /\ impl' = impl /\ Busies(p) /\ Busies(p)' /\ preps'[p].job = preps[p].job
        /\ \A q \in Preps \ {p} : preps'[q] = preps[q]
    BY <1>2, PreparationFrame DEF Busies
  <2>3. \A q \in Preps \ {p} : preps[q].pc = "free" /\ preps'[q].pc = "free"
    BY <2>1, <2>2 DEF OnePrep, Busies
  <2>4. OnePrep'
    BY <2>3 DEF OnePrep, Busies
  <2>5. CASE EnterPrepareDag(p)
    <3>1. preps'[p].pc = "prepare" /\ ctl'.dag = NoDag /\ ctl'.seed = EpochOf[preps[p].job]
      BY <2>5 DEF EnterPrepareDag
    <3> QED BY <2>2, <2>3, <2>4, <3>1 DEF PrepDag, JobOfDag, SeedOfDag
  <2>6. CASE preps[p].pc = "prepare" /\ preps'[p].pc = "failed" /\ ctl' = [ctl EXCEPT !.progress = 100]
    <3>1. ctl'.dag = ctl.dag /\ ctl.dag = NoDag
      BY <2>1, <2>6 DEF PrepDag, DagCtl
    <3> QED BY <2>2, <2>3, <2>4, <2>6, <3>1 DEF PrepDag, JobOfDag, SeedOfDag
  <2>7. CASE PrepareFails(p)
    BY <2>6, <2>7 DEF PrepareFails, Preparing
  <2>8. CASE PrepareCallback(p)
    <3>1. CASE impl.preparing
      <4>1. preps' = preps /\ ctl'.dag = ctl.dag /\ ctl'.seed = ctl.seed
        BY <2>8, <3>1 DEF PrepareCallback, DagCtl
      <4> QED BY <2>1, <2>2, <2>4, <4>1 DEF PrepDag, JobOfDag, JobToCome, SeedOfDag
    <3>2. CASE ~impl.preparing
      <4>1. /\ preps[p].pc = "prepare" /\ preps'[p].pc = "failed"
            /\ ctl' = [ctl EXCEPT !.progress = 100]
        <5>1. /\ Preparing(p) /\ ctl' = [ctl EXCEPT !.progress = 100]
              /\ preps' = [preps EXCEPT ![p].pc = "failed"]
          BY <2>8, <3>2 DEF PrepareCallback
        <5>2. preps \in [Preps -> Prep] /\ preps[p] \in Prep
          OBVIOUS
        <5> QED BY <5>1, <5>2 DEF Preparing, Prep
      <4> QED BY <2>6, <4>1
    <3> QED BY <3>1, <3>2
  <2>9. CASE PrepareCompletes(p)
    <3>1. /\ preps[p].pc = "prepare" /\ preps'[p].pc = "ready"
          /\ ctl'.dag = EpochOf[preps[p].job] /\ ctl'.seed = ctl.seed
      BY <2>9 DEF PrepareCompletes, Preparing, DagCtl
    <3>2. ctl.seed = EpochOf[preps[p].job]
      BY <2>1, <3>1 DEF PrepDag
    <3> QED BY <2>2, <2>3, <2>4, <3>1, <3>2 DEF PrepDag, JobOfDag, JobToCome, SeedOfDag
  <2>10. CASE ThreadFinishes(p)
    <3>1. /\ ctl' = ctl
          /\ \/ preps[p].pc = "failed" /\ preps'[p].pc = "gaveUp"
             \/ preps[p].pc = "ready" /\ preps'[p].pc = "done"
      BY <2>10 DEF ThreadFinishes, Prep
    <3>2. PrepDag'
      BY <2>1, <2>2, <2>3, <3>1 DEF PrepDag
    <3>3. JobOfDag'
      BY <2>1, <2>2, <2>3, <3>1 DEF JobOfDag, JobToCome
    <3> QED BY <2>1, <2>4, <3>1, <3>2, <3>3 DEF SeedOfDag
  <2> QED
    BY <1>2, <2>5, <2>7, <2>8, <2>9, <2>10 DEF Preparation
<1>3. CASE StopCpu
  <2>1. ctl' = ctl /\ preps' = preps /\ overlap' = overlap /\ impl'.job = NoJob /\ update' = update
    BY <1>3 DEF StopCpu
  <2> QED BY <2>1 DEF EpochInv, OnePrep, Busies, PrepDag, JobOfDag, SeedOfDag, UpdateOfDag, At,
                      Entered
<1>4. CASE UpdateJob
  <2>1. ctl' = ctl /\ update.job \in Jobs
    BY <1>4, UpdatedJob
  <2>2. CASE UNCHANGED <<workers, impl, preps, overlap>>
    <3>1. ~overlap => UpdateOfDag'
      BY <1>4, <2>2, TestsRemembered
    <3> QED BY <2>1, <2>2, <3>1 DEF EpochInv, OnePrep, Busies, PrepDag, JobOfDag, JobToCome, SeedOfDag
  <2>3. CASE /\ At("store") /\ impl' = [impl EXCEPT !.job = update.job]
             /\ UNCHANGED <<preps, overlap>>
    <3> SUFFICES ASSUME ~overlap
                 PROVE  (OnePrep /\ PrepDag /\ JobOfDag /\ SeedOfDag /\ UpdateOfDag)'
      BY <2>3 DEF EpochInv
    <3>1. OnePrep /\ PrepDag /\ JobOfDag /\ SeedOfDag /\ UpdateOfDag
      BY DEF EpochInv
    <3>2. impl'.job = update.job
      BY <2>3 DEF Impl
    <3>3. ctl.dag = EpochOf[update.job] \/ ctl.dag = NoDag \/ JobToCome
      BY <2>3, <3>1 DEF UpdateOfDag, Entered, PrepDag, JobToCome, Prep
    <3>4. JobOfDag'
      BY <2>1, <2>3, <3>2, <3>3 DEF JobOfDag, JobToCome
    <3>5. UpdateOfDag'
      BY <1>4, <2>3, TestsRemembered
    <3> QED BY <2>1, <2>3, <3>1, <3>4, <3>5 DEF OnePrep, Busies, PrepDag, SeedOfDag
  <2>4. CASE /\ impl' = [impl EXCEPT !.preparing = TRUE]
             /\ overlap' = (overlap \/ \E q \in Preps : preps[q].pc # "free")
             /\ \E p \in Preps :
                  preps' = [preps EXCEPT ![p] = [pc |-> "started", job |-> update.job]]
    <3> SUFFICES ASSUME ~overlap'
                 PROVE  (OnePrep /\ PrepDag /\ JobOfDag /\ SeedOfDag /\ UpdateOfDag)'
      BY DEF EpochInv
    <3>1. PICK p \in Preps :
            preps' = [preps EXCEPT ![p] = [pc |-> "started", job |-> update.job]]
      BY <2>4
    <3>2. ~overlap /\ \A q \in Preps : preps[q].pc = "free"
      BY <2>4
    <3>3. OnePrep /\ PrepDag /\ JobOfDag /\ SeedOfDag
      BY <3>2 DEF EpochInv
    <3>4. impl'.job = impl.job
      BY <2>4 DEF Impl
    <3>5. preps'[p].pc = "started" /\ \A q \in Preps \ {p} : preps'[q].pc = "free"
      BY <3>1, <3>2
    <3>6. UpdateOfDag'
      BY <1>4, <3>2, TestsRemembered
    <3> QED
      BY <2>1, <3>2, <3>3, <3>4, <3>5, <3>6
         DEF OnePrep, Busies, PrepDag, JobOfDag, JobToCome, SeedOfDag
  <2> QED BY <1>4, <2>2, <2>3, <2>4, UpdatedJob
<1>5. CASE HandleJob
  <2>1. /\ UNCHANGED <<ctl, preps, overlap>> /\ update'.pc \in {"none", "progress"}
        /\ impl'.job \in {impl.job, NoJob}
    BY <1>5, HandledJob DEF Impl
  <2> QED BY <2>1 DEF EpochInv, OnePrep, Busies, PrepDag, JobOfDag, JobToCome, SeedOfDag,
                      UpdateOfDag, At
<1>6. CASE DagThreadFinishedHandler
  <2> SUFFICES ASSUME ~overlap PROVE (OnePrep /\ PrepDag /\ JobOfDag /\ SeedOfDag)'
    BY <1>6 DEF EpochInv, DagThreadFinishedHandler, UpdateOfDag, At
  <2>1. OnePrep /\ PrepDag /\ JobOfDag /\ SeedOfDag
    BY DEF EpochInv
  <2>2. PICK p \in Preps :
          /\ events # <<>> /\ Head(events).kind = "finished" /\ p = Head(events).prep
          /\ preps' = [preps EXCEPT ![p] = [pc |-> "free", job |-> NoJob]]
          /\ \/ preps[p].pc = "done" /\ impl' = [job |-> preps[p].job, preparing |-> FALSE]
             \/ preps[p].pc # "done" /\ impl' = [impl EXCEPT !.preparing = FALSE]
    BY <1>6, Handled
  <2>3. ctl' = ctl
    BY <1>6 DEF DagThreadFinishedHandler
  <2>4. preps'[p].pc = "free" /\ \A q \in Preps \ {p} : preps'[q] = preps[q]
    BY <2>2
  <2>5. OnePrep' /\ PrepDag' /\ SeedOfDag'
    BY <2>1, <2>3, <2>4 DEF OnePrep, Busies, PrepDag, SeedOfDag
  <2>6. CASE preps[p].pc = "done"
    BY <2>1, <2>2, <2>3, <2>5, <2>6 DEF PrepDag, JobOfDag
  <2>7. CASE preps[p].pc # "done"
    <3>1. impl'.job = impl.job
      BY <2>2, <2>7 DEF Impl
    <3>2. 1 \in 1..Len(events) /\ Head(events) = events[1]
      BY <2>2, HeadEvent
    <3>3. preps[p].pc = "gaveUp"
      BY <2>2, <2>7, <3>2 DEF EventInv, EventOfEnded, Ended
    <3>4. JobToCome => JobToCome'
      BY <2>4, <3>3 DEF JobToCome
    <3> QED BY <2>1, <2>3, <2>5, <3>1, <3>4 DEF JobOfDag
  <2> QED BY <2>6, <2>7
<1> QED
  BY <1>1, <1>2, <1>3, <1>4, <1>5, <1>6 DEF DagNext, vars, User, Worker, StartCpu,
     SetThreadCount, PoolObeys, PoolSends

LEMMA DagInvariant == DagSpec => [](TypeInv /\ EventInv /\ EpochInv)
<1>1. DagInit => EventInv /\ EpochInv
  BY DEF DagInit, EventInv, EventOfEnded, EventOnce, EpochInv, OnePrep, Busies, PrepDag,
         JobOfDag, SeedOfDag, UpdateOfDag, At
<1> QED
  BY <1>1, TypeInvariant, EventInvariant, EpochInvariant, PTL DEF DagSpec

\* DagOfSeed: updateJob compares the new job with the seed hash of the DAG there is,
\* or the job would be mined in vain.
THEOREM SeedDescribesDag == DagSpec => []DagOfSeed
<1>1. EpochInv => DagOfSeed
  BY DEF EpochInv, SeedOfDag, DagOfSeed
<1> QED
  BY <1>1, DagInvariant, PTL

\* JobsComeWithDag: updateJob stores the job only when it has seen its seed hash and then
\* a DAG, which only a preparation that enters prepareDag in between can have dropped; and
\* a preparation that is done has left its DAG there, whatever was stopped, aborted or
\* sent in between.
THEOREM JobsHaveTheirDag == DagSpec => JobsComeWithDag
<1>1. ASSUME TypeInv, EventInv, EpochInv, DagNext, ~overlap,
             impl'.job # impl.job, impl'.job # NoJob
      PROVE  ctl.dag = EpochOf[impl'.job] \/ (At("store") /\ Entered)
  <2>0. impl \in Impl /\ events \in Seq(Event) /\ PrepDag /\ SeedOfDag /\ UpdateOfDag
    BY <1>1 DEF TypeInv, DagTypeOK, EpochInv
  <2>1. CASE HandleJob
    <3>1. impl'.job \in {impl.job, NoJob}
      BY <1>1, <2>0, <2>1, HandledJob DEF Impl
    <3> QED BY <1>1, <3>1
  <2>5. CASE UpdateJob
    <3>1. impl'.job # impl.job => At("store") /\ impl'.job = update.job
      BY <1>1, <2>0, <2>5, UpdatedJob DEF Impl
    <3> QED BY <1>1, <2>0, <3>1 DEF UpdateOfDag
  <2>2. CASE DagThreadFinishedHandler
    <3>1. PICK p \in Preps :
            \/ preps[p].pc = "done" /\ impl' = [job |-> preps[p].job, preparing |-> FALSE]
            \/ impl' = [impl EXCEPT !.preparing = FALSE]
      BY <1>1, <2>2, Handled
    <3>2. [impl EXCEPT !.preparing = FALSE].job = impl.job
      BY <2>0 DEF Impl
    <3>3. preps[p].pc = "done" /\ impl' = [job |-> preps[p].job, preparing |-> FALSE]
      <4>1. impl' # [impl EXCEPT !.preparing = FALSE]
        BY <1>1, <3>2, Zenon
      <4> QED BY <3>1, <4>1, Zenon
    <3>4. impl'.job = preps[p].job
      BY <3>3
    <3> QED BY <2>0, <3>3, <3>4 DEF PrepDag
  <2>3. CASE StopCpu
    BY <1>1, <2>3 DEF StopCpu
  <2>4. CASE impl' = impl
    BY <1>1, <2>4
  <2> QED
    BY <1>1, <2>1, <2>2, <2>3, <2>4, <2>5 DEF DagNext, Worker, Preparation, User, StartCpu,
       SetThreadCount, PoolObeys, PoolSends, EnterPrepareDag, PrepareFails, PrepareCallback,
       PrepareCompletes, ThreadFinishes
<1>2. TypeInv /\ EventInv /\ EpochInv /\ [DagNext]_vars
      => [impl'.job # impl.job /\ impl'.job # NoJob
          => ctl.dag = EpochOf[impl'.job] \/ overlap \/ (At("store") /\ Entered)]_vars
  BY <1>1
<1> QED
  BY <1>2, DagInvariant, PTL DEF DagSpec, JobsComeWithDag

-----------------------------------------------------------------------------
(* The workers: one that mines has passed prepareCalculation since it was last told *)
(* of a job, and every change of the main thread's job ends its mining.             *)

MiningPc == \A w \in Workers :
  /\ m_state[w] = "Mining" => run[w].pc \in {"prepare", "search", "switch", "crashed"}
  /\ run[w].pc = "prepare" => run[w].job # NoJob

MineInv == ~overlap => \A w \in Workers :
  /\ run[w].pc \in {"switch", "search"} /\ m_state[w] = "Mining"
  /\ run[w].job = impl.job /\ run[w].dag # NoDag
  => run[w].dag = EpochOf[run[w].job] \/ JobToCome

WorkerInv == MiningPc /\ MineInv

\* A worker's own steps.
LEMMA WorkerStep ==
  ASSUME TypeInv, EpochInv, WorkerInv, NEW w \in Workers, Worker(w)
  PROVE  WorkerInv'
<1> USE DEF TypeInv, DagTypeOK
<1>1. UNCHANGED <<ctl, preps, impl, overlap>>
  BY DEF Worker
<1>2. /\ \A v \in Workers \ {w} : run'[v] = run[v] /\ m_state'[v] = m_state[v]
      /\ JobToCome' = JobToCome
      /\ run[w] \in Run
  BY <1>1 DEF Worker, DeliverStart, Switch, CopyJob, CheckExit, SetMining, PrepareCalculation,
              Search, Goto, JobToCome
<1> SUFFICES
      /\ m_state'[w] = "Mining" => run'[w].pc \in {"prepare", "search", "switch", "crashed"}
      /\ run'[w].pc = "prepare" => run'[w].job # NoJob
      /\ ~overlap /\ run'[w].pc \in {"switch", "search"} /\ m_state'[w] = "Mining"
         /\ run'[w].job = impl.job /\ run'[w].dag # NoDag
         => run'[w].dag = EpochOf[run'[w].job] \/ JobToCome
  BY <1>1, <1>2 DEF WorkerInv, MiningPc, MineInv
<1>3. /\ m_state[w] = "Mining" => run[w].pc \in {"prepare", "search", "switch", "crashed"}
      /\ run[w].pc = "prepare" => run[w].job # NoJob
      /\ ~overlap /\ run[w].pc \in {"switch", "search"} /\ m_state[w] = "Mining"
         /\ run[w].job = impl.job /\ run[w].dag # NoDag
         => run[w].dag = EpochOf[run[w].job] \/ JobToCome
  BY DEF WorkerInv, MiningPc, MineInv
<1>4. CASE DeliverStart(w)
  BY <1>2, <1>4 DEF DeliverStart, Goto, Run
<1>5. CASE Switch(w)
  <2>1. CASE m_state[w] = "Exit"
    BY <1>2, <1>5, <2>1 DEF Switch, Goto, Run
  <2>2. CASE m_state[w] = "UpdateJob"
    BY <1>2, <1>5, <2>2 DEF Switch, Goto, Run
  <2>3. CASE m_state[w] = "Mining"
    <3>1. /\ run[w].pc = "switch" /\ m_state' = m_state
          /\ run'[w].pc = "search" /\ run'[w].job = run[w].job /\ run'[w].dag = run[w].dag
      BY <1>2, <1>5, <2>3 DEF Switch, Goto, Run
    <3> QED BY <1>3, <3>1
  <2> QED BY <2>1, <2>2, <2>3
<1>6. CASE CopyJob(w)
  BY <1>2, <1>3, <1>6 DEF CopyJob
<1>7. CASE CheckExit(w)
  BY <1>2, <1>3, <1>7 DEF CheckExit, Goto, Run
<1>8. CASE SetMining(w)
  <2>1. CASE run[w].job = NoJob
    BY <1>2, <1>3, <1>8, <2>1 DEF SetMining, Goto, Run
  <2>2. CASE run[w].job # NoJob
    <3>1. run'[w].pc = "prepare" /\ run'[w].job = run[w].job
      BY <1>2, <1>8, <2>2 DEF SetMining, Goto, Run
    <3> QED BY <2>2, <3>1
  <2> QED BY <2>1, <2>2
<1>9. CASE PrepareCalculation(w)
  <2>1. /\ run[w].pc = "prepare" /\ m_state' = m_state /\ run'[w].pc = "search"
        /\ run'[w].job = run[w].job /\ run'[w].dag = ctl.dag
    BY <1>2, <1>9 DEF PrepareCalculation, Run
  <2>2. ~overlap => JobOfDag
    BY DEF EpochInv
  <2> QED BY <1>3, <2>1, <2>2 DEF JobOfDag
<1>10. CASE Search(w)
  <2>1. CASE m_state[w] = "Mining" /\ run[w].dag = NoDag
    BY <1>2, <1>10, <2>1 DEF Search, Goto, Run
  <2>2. CASE ~(m_state[w] = "Mining" /\ run[w].dag = NoDag)
    <3>1. /\ run[w].pc = "search" /\ m_state' = m_state
          /\ run'[w].pc = "switch" /\ run'[w].job = run[w].job /\ run'[w].dag = run[w].dag
      BY <1>2, <1>10, <2>2 DEF Search, Goto, Run
    <3> QED BY <1>3, <3>1
  <2> QED BY <2>1, <2>2
<1> QED
  BY <1>4, <1>5, <1>6, <1>7, <1>8, <1>9, <1>10 DEF Worker

\* A step of another thread that ends the mining of all, or keeps the main thread's
\* job and starts workers at most, which are then not Mining.
LEMMA OtherStep ==
  ASSUME TypeInv, WorkerInv, run' = run, overlap' \in BOOLEAN, overlap => overlap',
         JobToCome /\ impl'.job = impl.job => JobToCome',
         \A w \in Workers : m_state'[w] = "Mining" => m_state[w] = "Mining" /\ impl'.job = impl.job
  PROVE  WorkerInv'
BY DEF WorkerInv, MiningPc, MineInv, TypeInv, DagTypeOK

LEMMA WorkerInvariant == TypeInv /\ EventInv /\ EpochInv /\ WorkerInv /\ [DagNext]_vars => WorkerInv'
<1> SUFFICES ASSUME TypeInv, EventInv, EpochInv, WorkerInv, [DagNext]_vars PROVE WorkerInv'
  OBVIOUS
<1>t. overlap \in BOOLEAN /\ impl \in Impl /\ events \in Seq(Event)
  BY DEF TypeInv, DagTypeOK
<1>1. ASSUME NEW w \in Workers, Worker(w) PROVE WorkerInv'
  BY <1>1, WorkerStep
<1>2. ASSUME NEW p \in Preps, Preparation(p) PROVE WorkerInv'
  <2>1. /\ run' = run /\ m_state' = m_state /\ impl' = impl /\ overlap' = overlap
        /\ \A q \in Preps \ {p} : preps'[q] = preps[q]
    BY <1>2, PreparationFrame DEF workers
  <2>2. preps[p].pc \in {"ready", "done"} => preps'[p].pc \in {"ready", "done"}
    BY <1>2 DEF Preparation, EnterPrepareDag, PrepareFails, PrepareCallback, PrepareCompletes,
                Preparing, ThreadFinishes, TypeInv, DagTypeOK, Prep
  <2>3. JobToCome => JobToCome'
    BY <2>1, <2>2 DEF JobToCome
  <2> QED BY <1>t, <2>1, <2>3, OtherStep
<1>3. CASE StopCpu
  <2>1. /\ run' = run /\ overlap' = overlap
        /\ \A w \in Workers : m_state'[w] # "Mining"
    BY <1>3 DEF StopCpu
  <2>2. JobToCome => JobToCome'
    BY <1>3 DEF StopCpu, JobToCome
  <2> QED BY <1>t, <2>1, <2>2, OtherStep
<1>4. ASSUME NEW n \in Workers, StartCpu(n) \/ SetThreadCount(n) PROVE WorkerInv'
  <2>1. UNCHANGED <<run, impl, preps, overlap>>
    BY <1>4 DEF StartCpu, SetThreadCount
  <2>2. \A w \in Workers : m_state'[w] = "Mining" => m_state[w] = "Mining"
    BY <1>4 DEF StartCpu, SetThreadCount
  <2> QED BY <1>t, <2>1, <2>2, OtherStep DEF JobToCome
<1>5. CASE HandleJob
  <2>1. UNCHANGED <<preps, overlap>>
    BY <1>5, HandledJob
  <2>2. CASE UNCHANGED <<workers, impl>>
    BY <1>t, <2>1, <2>2, OtherStep DEF workers, JobToCome
  <2>3. CASE GiveJob(NoJob)
    <3>1. run' = run /\ \A w \in Workers : m_state'[w] # "Mining"
      BY <2>3, GivenJob DEF TypeInv
    <3> QED BY <1>t, <2>1, <3>1, OtherStep DEF JobToCome
  <2> QED BY <1>5, <2>2, <2>3, HandledJob
<1>8. CASE UpdateJob
  <2>1. update.job \in Jobs
    BY <1>8, UpdatedJob
  <2>2. CASE UNCHANGED <<workers, impl, preps, overlap>>
    BY <1>t, <2>2, OtherStep DEF workers, JobToCome
  <2>3. CASE GiveJob(update.job) /\ UNCHANGED <<preps, overlap>>
    <3>1. run' = run /\ \A w \in Workers : m_state'[w] # "Mining"
      BY <2>1, <2>3, GivenJob DEF TypeInv
    <3> QED BY <1>t, <2>3, <3>1, OtherStep DEF JobToCome
  <2>4. CASE /\ impl' = [impl EXCEPT !.preparing = TRUE] /\ UNCHANGED workers
             /\ overlap' = (overlap \/ \E q \in Preps : preps[q].pc # "free")
             /\ \E p \in Preps :
                  /\ preps[p].pc = "free"
                  /\ preps' = [preps EXCEPT ![p] = [pc |-> "started", job |-> update.job]]
    <3>1. impl'.job = impl.job
      BY <1>t, <2>4 DEF Impl
    <3>2. JobToCome => JobToCome'
      BY <2>4 DEF JobToCome, TypeInv, DagTypeOK
    <3>3. overlap' \in BOOLEAN /\ (overlap => overlap')
      BY <2>4
    <3> QED BY <2>4, <3>1, <3>2, <3>3, OtherStep DEF workers
  <2> QED BY <1>8, <2>2, <2>3, <2>4, UpdatedJob
<1>6. CASE DagThreadFinishedHandler
  <2>1. PICK p \in Preps :
          /\ events # <<>> /\ Head(events).kind = "finished" /\ p = Head(events).prep
          /\ preps' = [preps EXCEPT ![p] = [pc |-> "free", job |-> NoJob]]
          /\ preps[p].job \in Jobs \cup {NoJob}
          /\ \/ preps[p].pc = "done" /\ GiveJob(preps[p].job)
             \/ /\ preps[p].pc # "done" /\ UNCHANGED workers
                /\ impl' = [impl EXCEPT !.preparing = FALSE]
    BY <1>6, Handled
  <2>2. overlap' = overlap
    BY <1>6 DEF DagThreadFinishedHandler
  <2>3. CASE preps[p].pc = "done" /\ GiveJob(preps[p].job)
    <3>1. run' = run /\ \A w \in Workers : m_state'[w] # "Mining"
      BY <2>1, <2>3, GivenJob DEF TypeInv
    <3> QED BY <2>2, <3>1 DEF WorkerInv, MiningPc, MineInv
  <2>4. CASE preps[p].pc # "done" /\ UNCHANGED workers /\ impl' = [impl EXCEPT !.preparing = FALSE]
    <3>1. 1 \in 1..Len(events) /\ Head(events) = events[1]
      BY <1>t, <2>1, HeadEvent
    <3>2. preps[p].pc = "gaveUp"
      BY <2>1, <2>4, <3>1 DEF EventInv, EventOfEnded, Ended
    <3>3. JobToCome => JobToCome'
      BY <2>1, <3>2 DEF JobToCome, TypeInv, DagTypeOK
    <3>4. impl'.job = impl.job
      BY <1>t, <2>4 DEF Impl
    <3> QED BY <1>t, <2>2, <2>4, <3>3, <3>4, OtherStep DEF workers
  <2> QED BY <2>1, <2>3, <2>4
<1>7. CASE UNCHANGED <<workers, impl, preps, overlap>>
  BY <1>t, <1>7, OtherStep DEF workers, JobToCome
<1> QED
  BY <1>1, <1>2, <1>3, <1>4, <1>5, <1>6, <1>7, <1>8 DEF DagNext, vars, workers, User, PoolObeys,
     PoolSends

\* SharesOfTheirEpoch: what search() finds for the current job is of its epoch, for
\* any interleaving of new epochs, preparations, stops and starts.
THEOREM SharesFitEpoch == DagSpec => []SharesOfTheirEpoch
<1>1. DagInit => WorkerInv
  BY DEF DagInit, WorkerInv, MiningPc, MineInv
<1>2. WorkerInv => SharesOfTheirEpoch
  BY DEF WorkerInv, MineInv, SharesOfTheirEpoch, JobToCome
<1> QED
  BY <1>1, <1>2, DagInvariant, WorkerInvariant, PTL DEF DagSpec
=============================================================================
