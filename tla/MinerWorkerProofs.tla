------------------------- MODULE MinerWorkerProofs -------------------------
(***************************************************************************)
(* What holds of the CPU workers for any number of workers and any jobs:   *)
(* the types, that every share is filed under the pool whose job it        *)
(* solves, that a stale job is mined only after a worker's own store       *)
(* overwrote a command, that a job update revives no stopped worker, and   *)
(* that a command stays in force until the next or the worker's own store; *)
(* and, of the controller that gives the workers their nonces, that none   *)
(* gets an empty range, for any length of range and any width of a nonce.  *)
(***************************************************************************)
EXTENDS MinerWorker, NonceCtl, TLAPS

\* Only Mining workers search: the label a worker may be at under each m_state.
MiningInv ==
  \A w \in Workers : m_state[w] = "Mining" => run[w].pc \in {"switch", "choose", "search", "hash"}

\* Which pool's jobs the fields hold, at each label of startMining.
FieldKinds ==
  /\ impl.job \in MainJobs \cup {NoJob}
  /\ impl.feeJob \in FeeJobs \cup {NoJob}
  /\ \A w \in Workers : /\ m_job[w] \in MainJobs \cup {NoJob}
                        /\ m_feeJob[w] \in FeeJobs \cup {NoJob}
RunKinds ==
  \A w \in Workers :
    /\ run[w].feeMode => /\ run[w].pc \in {"search", "hash"}
                         /\ run[w].currentJob \in FeeJobs
                         /\ run[w].originJob \in MainJobs
    /\ ~run[w].feeMode => run[w].currentJob \in MainJobs \cup {NoJob}
    /\ run[w].pc \in {"choose", "search", "hash"} => BaseJob(w) \in MainJobs
    /\ run[w].pc = "switch" /\ m_state[w] = "Mining" => run[w].currentJob \in MainJobs
KindInv == MiningInv /\ FieldKinds /\ RunKinds /\ ShareNamesItsPool

\* A copy that is already old has a command behind it that is still unread.
CopyInv ==
  \A w \in Workers :
    run[w].pc \in {"check", "set"} /\ run[w].currentJob # m_job[w]
    => note[w] # "none" \/ (ctl.step = "state" /\ ctl.i = w)

\* Between operations the main thread is at no statement.
IdleInv == ctl.op = "none" => ctl.step = "none"

StaleInv == CopyInv /\ IdleInv /\ StaleOnlyIfOverwritten

-----------------------------------------------------------------------------
(* Types *)

\* Moving a worker to a label keeps its record well typed.
LEMMA GotoType ==
  ASSUME TypeOK, NEW w \in Workers, NEW label \in Labels, Goto(w, label)
  PROVE  run' \in [Workers -> RunRecord]
<1>1. run[w] \in RunRecord
  BY DEF TypeOK
<1>2. [run[w] EXCEPT !.pc = label] \in RunRecord
  BY <1>1 DEF RunRecord
<1> QED BY <1>2 DEF TypeOK, Goto

\* The initial states are well typed.
LEMMA InitType == Init => TypeOK
<1> SUFFICES ASSUME Init PROVE TypeOK
  OBVIOUS
<1>1. run \in [Workers -> RunRecord]
  BY MinerWorkerAssumption DEF Init, NotMining, RunRecord, Labels, Jobs
<1>2. impl \in ImplRecord
  BY DEF Init, ImplRecord, Jobs
<1>3. ctl \in CtlRecord
  BY MinerWorkerAssumption DEF Init, Idle, CtlRecord, Steps, Workers
<1>4. m_job \in [Workers -> Jobs] /\ m_feeJob \in [Workers -> Jobs]
  BY DEF Init, Jobs
<1> QED BY <1>1, <1>2, <1>3, <1>4 DEF Init, TypeOK, Commands

\* A step of a worker's thread preserves the types.
LEMMA WorkerType ==
  ASSUME TypeOK, NEW w \in Workers, Worker(w)
  PROVE  TypeOK'
<1>0. UNCHANGED <<m_job, m_feeJob, impl, ctl>>
  BY DEF Worker
<1>1. CASE DeliverStart(w)
  <2>1. run' \in [Workers -> RunRecord]
    BY <1>1, GotoType DEF DeliverStart, Labels
  <2>2. starts' \in [Workers -> Nat]
    BY <1>1 DEF TypeOK, DeliverStart
  <2>3. want' \in [Workers -> {"run", "stop", "revived"}]
    BY <1>1 DEF TypeOK, DeliverStart
  <2>4. note' \in [Workers -> Commands]
    BY <1>1 DEF TypeOK, DeliverStart, Read, Commands
  <2> QED BY <1>0, <1>1, <2>1, <2>2, <2>3, <2>4 DEF TypeOK, DeliverStart
<1>2. CASE Switch(w)
  <2>1. run' \in [Workers -> RunRecord]
    BY <1>2, GotoType DEF Switch, TypeOK, Labels
  <2> QED BY <1>0, <1>2, <2>1 DEF TypeOK, Switch, Read, Commands
<1>3. CASE CopyJob(w)
  <2>1. [run[w] EXCEPT !.pc = "check", !.currentJob = m_job[w]] \in RunRecord
    BY DEF TypeOK, RunRecord, Labels
  <2>2. run' \in [Workers -> RunRecord]
    BY <1>3, <2>1 DEF CopyJob, TypeOK
  <2> QED BY <1>0, <1>3, <2>2 DEF TypeOK, CopyJob, Commands
<1>4. CASE CheckExit(w)
  <2>1. run' \in [Workers -> RunRecord]
    BY <1>4, GotoType DEF CheckExit, Labels
  <2> QED BY <1>0, <1>4, <2>1 DEF TypeOK, CheckExit, Read, Commands
<1>5. CASE SetMining(w)
  <2>1. run' \in [Workers -> RunRecord]
    BY <1>5, GotoType DEF SetMining, Labels
  <2>2. lost' \in [Workers -> Commands]
    BY <1>5 DEF TypeOK, SetMining, Commands
  <2>3. note' \in [Workers -> Commands]
    BY <1>5 DEF TypeOK, SetMining, Read, Commands
  <2>4. want' \in [Workers -> {"run", "stop", "revived"}]
    BY <1>5 DEF TypeOK, SetMining
  <2> QED BY <1>0, <1>5, <2>1, <2>2, <2>3, <2>4 DEF TypeOK, SetMining
<1>6. CASE SearchMain(w)
  <2>1. [run[w] EXCEPT !.pc = "search", !.feeMode = FALSE, !.left = Interval] \in RunRecord
    <3>1. run[w] \in RunRecord /\ Interval \in 0..Interval
      BY MinerWorkerAssumption DEF TypeOK
    <3> QED BY <3>1 DEF RunRecord, Labels
  <2>2. run' \in [Workers -> RunRecord]
    BY <1>6, <2>1 DEF SearchMain, TypeOK
  <2> QED BY <1>0, <1>6, <2>2 DEF TypeOK, SearchMain
<1>7. CASE SearchFee(w)
  <2>1. run' \in [Workers -> RunRecord]
    <3>1. CASE m_feeJob[w] = NoJob
      BY <1>7, <3>1, GotoType DEF SearchFee, Labels
    <3>2. CASE m_feeJob[w] # NoJob
      <4>1. [pc |-> "search", currentJob |-> m_feeJob[w], originJob |-> run[w].currentJob,
             feeMode |-> TRUE, left |-> Interval] \in RunRecord
        BY MinerWorkerAssumption DEF TypeOK, RunRecord, Labels
      <4> QED BY <1>7, <3>2, <4>1 DEF SearchFee, TypeOK
    <3> QED BY <3>1, <3>2
  <2> QED BY <1>0, <1>7, <2>1 DEF TypeOK, SearchFee
<1>8. CASE SearchNext(w)
  <2>1. [run[w] EXCEPT !.pc = "hash", !.left = @ - 1] \in RunRecord
    <3>1. run[w] \in RunRecord /\ run[w].left > 0 /\ Interval \in Nat
      BY <1>8, MinerWorkerAssumption DEF SearchNext, TypeOK
    <3>2. run[w].left \in 0..Interval
      BY <3>1 DEF RunRecord
    <3>3. run[w].left - 1 \in 0..Interval
      BY <3>1, <3>2
    <3> QED BY <3>1, <3>3 DEF RunRecord, Labels
  <2>2. run' \in [Workers -> RunRecord]
    BY <1>8, <2>1 DEF SearchNext, TypeOK
  <2> QED BY <1>0, <1>8, <2>2 DEF TypeOK, SearchNext
<1>9. CASE Hash(w)
  <2>1. run' \in [Workers -> RunRecord]
    BY <1>9, GotoType DEF Hash, Labels
  <2>2. shares' \in Seq(ShareEvent)
    <3> DEFINE e == [job |-> run[w].currentJob, fee |-> run[w].feeMode]
    <3>1. e \in ShareEvent
      BY DEF TypeOK, RunRecord, ShareEvent
    <3>2. shares' = shares \/ shares' = Append(shares, e)
      BY <1>9 DEF Hash
    <3>3. shares \in Seq(ShareEvent)
      BY DEF TypeOK
    <3> HIDE DEF e
    <3> QED BY <3>1, <3>2, <3>3
  <2> QED BY <1>0, <1>9, <2>1, <2>2 DEF TypeOK, Hash
<1>10. CASE SearchEnd(w)
  <2> DEFINE job == IF run[w].feeMode THEN run[w].originJob ELSE run[w].currentJob
             r   == [NotMining EXCEPT !.pc = "switch", !.currentJob = job]
  <2>1. r \in RunRecord
    <3>1. run[w] \in RunRecord /\ 0 \in 0..Interval /\ NoJob \in Jobs
      BY MinerWorkerAssumption DEF TypeOK, Jobs
    <3>2. job \in Jobs
      BY <3>1 DEF RunRecord
    <3> HIDE DEF job
    <3> QED BY <3>1, <3>2 DEF NotMining, RunRecord, Labels
  <2>2. run' = [run EXCEPT ![w] = r]
    BY <1>10 DEF SearchEnd
  <2> HIDE DEF r
  <2>3. run' \in [Workers -> RunRecord]
    BY <2>1, <2>2 DEF TypeOK
  <2> QED BY <1>0, <1>10, <2>3 DEF TypeOK, SearchEnd
<1>11. CASE FinishThread(w)
  BY <1>0, <1>11 DEF TypeOK, FinishThread
<1> QED
  BY <1>1, <1>2, <1>3, <1>4, <1>5, <1>6, <1>7, <1>8, <1>9, <1>10, <1>11 DEF Worker

\* The loop of MinerImpl never leaves the list of workers.
LEMMA NextWorkerType ==
  ASSUME TypeOK, NEW step \in Steps, NEW after \in Steps, NextWorker(step, after)
  PROVE  ctl' \in CtlRecord
<1> USE DEF TypeOK, CtlRecord
<1>1. CASE ctl.i < (IF ctl.op = "start" THEN ctl.n ELSE N)
  <2>1. ctl.i + 1 \in Workers
    BY <1>1, MinerWorkerAssumption DEF Workers
  <2> QED BY <1>1, <2>1 DEF NextWorker
<1>2. CASE ~(ctl.i < (IF ctl.op = "start" THEN ctl.n ELSE N))
  <2>1. 1 \in Workers
    BY MinerWorkerAssumption DEF Workers
  <2> QED BY <1>2, <2>1 DEF NextWorker
<1> QED BY <1>1, <1>2

\* Another statement of the same operation.
LEMMA GotoStepType ==
  ASSUME TypeOK, NEW step \in Steps, GotoStep(step)
  PROVE  ctl' \in CtlRecord
BY DEF TypeOK, CtlRecord, GotoStep

\* A request to the main thread preserves the types.
LEMMA EnvironmentType ==
  ASSUME TypeOK, Environment
  PROVE  TypeOK'
<1>0. UNCHANGED <<m_state, m_job, m_feeJob, run, starts, thread, shares, history>>
  BY DEF Environment
<1>1. ASSUME NEW op \in {"start", "stop", "resize", "update", "error"}, NEW n \in 0..N,
             NEW sync \in BOOLEAN, Begin(op, n, sync)
      PROVE  ctl' \in CtlRecord
  BY <1>1, MinerWorkerAssumption DEF Begin, CtlRecord, Steps, Workers
<1>i. impl \in ImplRecord /\ ctl \in CtlRecord /\ NoJob \in Jobs
      /\ MainJobs \subseteq Jobs /\ FeeJobs \subseteq Jobs
  BY DEF TypeOK, Jobs
<1>n. 0 \in 0..N /\ \A n \in 1..N : n \in 0..N
  BY MinerWorkerAssumption
<1>2. ctl' \in CtlRecord /\ impl' \in ImplRecord
  <2>1. ASSUME NEW n \in 1..N, BeginStartCpu(n)
        PROVE  ctl' \in CtlRecord /\ impl' \in ImplRecord
    BY <1>1, <1>i, <1>n, <2>1 DEF BeginStartCpu, ImplRecord
  <2>2. ASSUME NEW n \in 1..N, BeginSetThreadCount(n)
        PROVE  ctl' \in CtlRecord /\ impl' \in ImplRecord
    BY <1>1, <1>i, <1>n, <2>2 DEF BeginSetThreadCount
  <2>3. ASSUME NEW sync \in BOOLEAN, BeginStopCpu(sync)
        PROVE  ctl' \in CtlRecord /\ impl' \in ImplRecord
    BY <1>1, <1>i, <1>n, <2>3 DEF BeginStopCpu
  <2>4. ASSUME NEW job \in MainJobs \cup {NoJob}, BeginUpdateJob(job)
        PROVE  ctl' \in CtlRecord /\ impl' \in ImplRecord
    BY <1>1, <1>i, <1>n, <2>4 DEF BeginUpdateJob, ImplRecord
  <2>5. ASSUME NEW job \in FeeJobs \cup {NoJob}, UpdateFeeJob(job)
        PROVE  ctl' \in CtlRecord /\ impl' \in ImplRecord
    BY <1>i, <2>5 DEF UpdateFeeJob, ImplRecord
  <2>6. CASE PoolConnected
    BY <1>i, <2>6 DEF PoolConnected, ImplRecord
  <2>7. CASE BeginPoolError
    BY <1>1, <1>i, <1>n, <2>7 DEF BeginPoolError, ImplRecord
  <2>8. CASE DeliverCpuState
    BY <1>i, <2>8 DEF DeliverCpuState, ImplRecord
  <2> QED
    BY <2>1, <2>2, <2>3, <2>4, <2>5, <2>6, <2>7, <2>8 DEF Environment
<1> QED BY <1>0, <1>2 DEF TypeOK, history

\* A statement of the main thread preserves the types.
LEMMA ProceedType ==
  ASSUME TypeOK, Proceed
  PROVE  TypeOK'
<1>0. UNCHANGED <<run, shares>>
  BY DEF Proceed
<1> USE <1>0
<1>i. ctl.i \in Workers
  BY DEF TypeOK, CtlRecord
<1>1. CASE StartThread
  <2>1. ctl' \in CtlRecord
    BY <1>1, GotoStepType DEF StartThread, Steps
  <2> QED BY <1>1, <2>1 DEF TypeOK, StartThread, history
<1>2. CASE CheckState
  <2>1. ctl' \in CtlRecord
    BY <1>2, GotoStepType, NextWorkerType DEF CheckState, Steps
  <2> QED BY <1>2, <2>1 DEF TypeOK, CheckState, history
<1>3. CASE StopWorker
  <2>1. ctl' \in CtlRecord
    BY <1>3, NextWorkerType DEF StopWorker, Steps
  <2> QED BY <1>3, <2>1, <1>i DEF TypeOK, StopWorker, Command, Commands
<1>4. CASE StoreJob
  <2>1. ctl' \in CtlRecord
    BY <1>4, GotoStepType DEF StoreJob, Steps
  <2>2. impl.job \in Jobs
    BY DEF TypeOK, ImplRecord
  <2> QED BY <1>4, <2>1, <2>2 DEF TypeOK, StoreJob, history
<1>5. CASE RaiseUpdate
  <2>1. ctl' \in CtlRecord
    BY <1>5, GotoStepType, NextWorkerType DEF RaiseUpdate, Steps
  <2>2. want' \in [Workers -> {"run", "stop", "revived"}]
    BY <1>5 DEF TypeOK, RaiseUpdate
  <2> QED BY <1>5, <2>1, <2>2, <1>i DEF TypeOK, RaiseUpdate, Command, Commands
<1>6. CASE StoreFeeJob
  <2>1. ctl' \in CtlRecord
    BY <1>6, GotoStepType DEF StoreFeeJob, Steps
  <2>2. impl.feeJob \in Jobs
    BY DEF TypeOK, ImplRecord
  <2> QED BY <1>6, <2>1, <2>2 DEF TypeOK, StoreFeeJob, history
<1>7. CASE PostStart
  <2>1. ctl' \in CtlRecord
    BY <1>7, NextWorkerType DEF PostStart, Steps
  <2> QED BY <1>7, <2>1, <1>i DEF TypeOK, PostStart, history
<1>8. CASE QuitThread
  <2>1. ctl' \in CtlRecord
    BY <1>8, NextWorkerType DEF QuitThread, Steps
  <2> QED BY <1>8, <2>1 DEF TypeOK, QuitThread, history
<1>9. CASE WaitThread
  <2>1. ctl' \in CtlRecord
    BY <1>9, NextWorkerType DEF WaitThread, Steps
  <2> QED BY <1>9, <2>1 DEF TypeOK, WaitThread, history
<1>10. CASE Finish
  <2>1. ctl' \in CtlRecord
    BY <1>10, MinerWorkerAssumption DEF Finish, Idle, CtlRecord, Steps, Workers
  <2>2. impl' \in ImplRecord
    BY <1>10 DEF Finish, TypeOK, ImplRecord, Jobs
  <2> QED BY <1>10, <2>1, <2>2 DEF TypeOK, Finish, history
<1> QED
  BY <1>1, <1>2, <1>3, <1>4, <1>5, <1>6, <1>7, <1>8, <1>9, <1>10 DEF Proceed

\* The head of a non-empty queue of events is an event.
LEMMA OnShareEventType ==
  ASSUME TypeOK, OnShareEvent
  PROVE  TypeOK'
<1>1. Head(shares) \in ShareEvent /\ shares' \in Seq(ShareEvent)
  BY DEF TypeOK, OnShareEvent
<1>2. impl' \in ImplRecord
  BY <1>1 DEF OnShareEvent, TypeOK, ImplRecord, ShareEvent
<1> QED BY <1>1, <1>2 DEF TypeOK, OnShareEvent, history

\* The variables keep their types, for any number of workers and any jobs.
THEOREM TypeCorrect == Spec => []TypeOK
<1>1. TypeOK /\ [Next]_vars => TypeOK'
  <2> SUFFICES ASSUME TypeOK, [Next]_vars PROVE TypeOK'
    OBVIOUS
  <2>1. CASE UNCHANGED vars
    BY <2>1 DEF vars, history, TypeOK
  <2> QED
    BY <2>1, WorkerType, EnvironmentType, ProceedType, OnShareEventType DEF Next
<1> QED BY <1>1, InitType, PTL DEF Spec

-----------------------------------------------------------------------------
(* Whose job a worker is on *)

\* What KindInv says of one worker.
KindOf(w) ==
  /\ m_state[w] = "Mining" => run[w].pc \in {"switch", "choose", "search", "hash"}
  /\ run[w].feeMode => /\ run[w].pc \in {"search", "hash"}
                       /\ run[w].currentJob \in FeeJobs
                       /\ run[w].originJob \in MainJobs
  /\ ~run[w].feeMode => run[w].currentJob \in MainJobs \cup {NoJob}
  /\ run[w].pc \in {"choose", "search", "hash"} => BaseJob(w) \in MainJobs
  /\ run[w].pc = "switch" /\ m_state[w] = "Mining" => run[w].currentJob \in MainJobs

LEMMA KindInvByWorker ==
  KindInv <=> FieldKinds /\ ShareNamesItsPool /\ \A w \in Workers : KindOf(w)
BY DEF KindInv, MiningInv, RunKinds, KindOf

\* A step of worker w leaves the others, and the fields MinerImpl writes, alone.
LEMMA OtherWorkers ==
  ASSUME TypeOK, NEW w \in Workers, Worker(w)
  PROVE  /\ \A v \in Workers \ {w} : /\ run'[v] = run[v] /\ m_state'[v] = m_state[v]
                                    /\ note'[v] = note[v] /\ lost'[v] = lost[v]
         /\ UNCHANGED <<m_job, m_feeJob, impl, ctl>>
<1>1. UNCHANGED <<m_job, m_feeJob, impl, ctl>>
  BY DEF Worker
<1>2. ASSUME NEW v \in Workers \ {w}
      PROVE  /\ run'[v] = run[v] /\ m_state'[v] = m_state[v]
             /\ note'[v] = note[v] /\ lost'[v] = lost[v]
  <2> USE <1>2 DEF Goto, Read, TypeOK
  <2>1. CASE DeliverStart(w) BY <2>1 DEF DeliverStart
  <2>2. CASE Switch(w) BY <2>2 DEF Switch
  <2>3. CASE CopyJob(w) BY <2>3 DEF CopyJob
  <2>4. CASE CheckExit(w) BY <2>4 DEF CheckExit
  <2>5. CASE SetMining(w) BY <2>5 DEF SetMining
  <2>6. CASE SearchMain(w) BY <2>6 DEF SearchMain
  <2>7. CASE SearchFee(w) BY <2>7 DEF SearchFee
  <2>8. CASE SearchNext(w) BY <2>8 DEF SearchNext
  <2>9. CASE Hash(w) BY <2>9 DEF Hash
  <2>10. CASE SearchEnd(w) BY <2>10 DEF SearchEnd
  <2>11. CASE FinishThread(w) BY <2>11 DEF FinishThread
  <2> QED
    BY <2>1, <2>2, <2>3, <2>4, <2>5, <2>6, <2>7, <2>8, <2>9, <2>10, <2>11 DEF Worker
<1> QED BY <1>1, <1>2

\* Each step of a worker keeps the kind of job its label calls for.
LEMMA KindOfStep ==
  ASSUME TypeOK, NEW w \in Workers, Worker(w), KindOf(w), FieldKinds
  PROVE  KindOf(w)'
<1>0. /\ run[w] \in RunRecord /\ m_job[w] \in MainJobs \cup {NoJob}
      /\ m_feeJob[w] \in FeeJobs \cup {NoJob}
      /\ run \in [Workers -> RunRecord]
      /\ m_state \in [Workers -> {"Exit", "UpdateJob", "Mining"}]
  BY DEF TypeOK, FieldKinds
<1> USE <1>0 DEF KindOf, BaseJob, RunRecord, Labels
<1>1. CASE DeliverStart(w)
  BY <1>1 DEF DeliverStart, Goto
<1>2. CASE Switch(w)
  BY <1>2 DEF Switch, Goto
<1>3. CASE CopyJob(w)
  BY <1>3 DEF CopyJob
<1>4. CASE CheckExit(w)
  BY <1>4 DEF CheckExit, Goto
<1>5. CASE SetMining(w)
  BY <1>5 DEF SetMining, Goto
<1>6. CASE SearchMain(w)
  BY <1>6 DEF SearchMain
<1>7. CASE SearchFee(w)
  BY <1>7 DEF SearchFee, Goto
<1>8. CASE SearchNext(w)
  BY <1>8 DEF SearchNext
<1>9. CASE Hash(w)
  BY <1>9 DEF Hash, Goto
<1>10. CASE SearchEnd(w)
  BY <1>10 DEF SearchEnd, NotMining
<1>11. CASE FinishThread(w)
  BY <1>11 DEF FinishThread
<1> QED
  BY <1>1, <1>2, <1>3, <1>4, <1>5, <1>6, <1>7, <1>8, <1>9, <1>10, <1>11 DEF Worker

\* A share is posted with the job being hashed and the mode it is hashed in.
LEMMA SharesStep ==
  ASSUME TypeOK, NEW w \in Workers, Worker(w), KindOf(w), ShareNamesItsPool
  PROVE  ShareNamesItsPool'
<1>1. CASE UNCHANGED shares
  BY <1>1 DEF ShareNamesItsPool
<1>2. CASE /\ run[w].pc = "hash"
           /\ shares' = Append(shares, [job |-> run[w].currentJob, fee |-> run[w].feeMode])
  <2> DEFINE e == [job |-> run[w].currentJob, fee |-> run[w].feeMode]
  <2>1. e.job \in (IF e.fee THEN FeeJobs ELSE MainJobs)
    BY <1>2 DEF KindOf, BaseJob
  <2>2. shares' = Append(shares, e) /\ shares \in Seq(ShareEvent)
    BY <1>2 DEF TypeOK
  <2> HIDE DEF e
  <2>3. ASSUME NEW k \in 1..Len(shares')
        PROVE  shares'[k].job \in (IF shares'[k].fee THEN FeeJobs ELSE MainJobs)
    <3>1. CASE k = Len(shares) + 1
      BY <2>1, <2>2, <3>1
    <3>2. CASE k # Len(shares) + 1
      <4>1. k \in 1..Len(shares) /\ shares'[k] = shares[k]
        BY <2>2, <2>3, <3>2
      <4> QED BY <4>1 DEF ShareNamesItsPool
    <3> QED BY <3>1, <3>2
  <2> QED BY <2>3 DEF ShareNamesItsPool
<1> QED
  BY <1>1, <1>2 DEF Worker, DeliverStart, Switch, CopyJob, CheckExit, SetMining,
     SearchMain, SearchFee, SearchNext, Hash, SearchEnd, FinishThread

\* Nothing the main thread does makes a worker mine or changes what it is on.
LEMMA MainStep ==
  ASSUME TypeOK, Environment \/ Proceed \/ OnShareEvent
  PROVE  /\ UNCHANGED run
         /\ \A w \in Workers : m_state'[w] = "Mining" => m_state[w] = "Mining"
         /\ FieldKinds => FieldKinds'
         /\ ShareNamesItsPool => ShareNamesItsPool'
<1>i. /\ ctl.i \in Workers /\ m_state \in [Workers -> {"Exit", "UpdateJob", "Mining"}]
      /\ m_job \in [Workers -> Jobs] /\ m_feeJob \in [Workers -> Jobs]
      /\ impl \in ImplRecord
  BY DEF TypeOK, CtlRecord
<1>1. CASE Environment
  <2>1. UNCHANGED <<run, m_state, m_job, m_feeJob, shares>>
    BY <1>1 DEF Environment
  <2>2. FieldKinds => FieldKinds'
    <3> SUFFICES ASSUME FieldKinds
                 PROVE  /\ impl'.job \in MainJobs \cup {NoJob}
                        /\ impl'.feeJob \in FeeJobs \cup {NoJob}
      BY <2>1 DEF FieldKinds
    <3> QED
      BY <1>1, <1>i DEF FieldKinds, Environment, BeginStartCpu, BeginSetThreadCount,
         BeginStopCpu, BeginUpdateJob, UpdateFeeJob, PoolConnected, BeginPoolError,
         DeliverCpuState, ImplRecord
  <2> QED BY <2>1, <2>2 DEF ShareNamesItsPool
<1>2. CASE Proceed
  <2>1. UNCHANGED <<run, shares>>
    BY <1>2 DEF Proceed
  <2>2. \A w \in Workers : m_state'[w] = "Mining" => m_state[w] = "Mining"
    BY <1>2, <1>i DEF Proceed, StartThread, CheckState, StopWorker, StoreJob, RaiseUpdate,
       StoreFeeJob, PostStart, QuitThread, WaitThread, Finish, Command
  <2>3. FieldKinds => FieldKinds'
    <3>1. CASE StoreJob
      BY <3>1, <1>i DEF StoreJob, FieldKinds
    <3>2. CASE StoreFeeJob
      BY <3>2, <1>i DEF StoreFeeJob, FieldKinds
    <3>3. CASE Finish
      BY <3>3, <1>i DEF Finish, FieldKinds, ImplRecord
    <3> QED
      BY <1>2, <3>1, <3>2, <3>3 DEF Proceed, StartThread, CheckState, StopWorker,
         RaiseUpdate, PostStart, QuitThread, WaitThread, FieldKinds
  <2> QED BY <2>1, <2>2, <2>3 DEF ShareNamesItsPool
<1>3. CASE OnShareEvent
  <2>1. UNCHANGED <<run, m_state, m_job, m_feeJob>>
    BY <1>3 DEF OnShareEvent
  <2>2. FieldKinds => FieldKinds'
    BY <1>3, <2>1, <1>i DEF OnShareEvent, FieldKinds, ImplRecord
  <2>3. ShareNamesItsPool => ShareNamesItsPool'
    <3>1. shares' = Tail(shares) /\ shares # <<>> /\ shares \in Seq(ShareEvent)
      BY <1>3 DEF OnShareEvent, TypeOK
    <3>2. \A k \in 1..Len(shares') : k + 1 \in 1..Len(shares) /\ shares'[k] = shares[k + 1]
      BY <3>1
    <3> QED BY <3>2 DEF ShareNamesItsPool
  <2> QED BY <2>1, <2>2, <2>3
<1> QED BY <1>1, <1>2, <1>3

\* KindInv is inductive.
LEMMA KindInvInductive == TypeOK /\ KindInv /\ [Next]_vars => KindInv'
<1> SUFFICES ASSUME TypeOK, KindInv, [Next]_vars PROVE KindInv'
  OBVIOUS
<1>0. FieldKinds /\ ShareNamesItsPool /\ \A w \in Workers : KindOf(w)
  BY KindInvByWorker
<1>1. ASSUME NEW w \in Workers, Worker(w)
      PROVE  KindInv'
  <2>1. FieldKinds'
    BY <1>0, <1>1, OtherWorkers DEF FieldKinds
  <2>2. ShareNamesItsPool'
    BY <1>0, <1>1, SharesStep
  <2>3. ASSUME NEW v \in Workers PROVE KindOf(v)'
    <3>1. CASE v = w
      BY <1>0, <1>1, <3>1, KindOfStep
    <3>2. CASE v # w
      BY <1>0, <1>1, <3>2, OtherWorkers DEF KindOf, BaseJob
    <3> QED BY <3>1, <3>2
  <2> QED BY <2>1, <2>2, <2>3 DEF KindInv, MiningInv, RunKinds, KindOf
<1>2. CASE Environment \/ Proceed \/ OnShareEvent
  <2>1. FieldKinds' /\ ShareNamesItsPool'
    BY <1>0, <1>2, MainStep
  <2>2. ASSUME NEW w \in Workers PROVE KindOf(w)'
    BY <1>0, <1>2, MainStep DEF KindOf, BaseJob
  <2> QED BY <2>1, <2>2 DEF KindInv, MiningInv, RunKinds, KindOf
<1>3. CASE UNCHANGED vars
  BY <1>0, <1>3 DEF vars, KindInv, MiningInv, RunKinds, FieldKinds, ShareNamesItsPool, BaseJob
<1> QED BY <1>1, <1>2, <1>3 DEF Next

\* Every share is filed under the pool whose job it solves, whatever interleaving
\* of startMining and MinerImpl posted it.
THEOREM SharesFiled == Spec => []ShareNamesItsPool
<1>1. Init => KindInv
  BY DEF Init, KindInv, MiningInv, FieldKinds, RunKinds, ShareNamesItsPool, NotMining, BaseJob
<1>2. KindInv => ShareNamesItsPool
  BY DEF KindInv
<1> QED BY <1>1, <1>2, KindInvInductive, TypeCorrect, PTL DEF Spec

-----------------------------------------------------------------------------
(* A stale job is mined only after a worker overwrote a command *)

\* updateJob has stored w's job and is about to raise UpdateJob.
Raising(w) == ctl.step = "state" /\ ctl.i = w

\* What StaleInv says of one worker.
FreshOf(w) ==
  /\ run[w].pc \in {"check", "set"} /\ run[w].currentJob # m_job[w]
     => note[w] # "none" \/ Raising(w)
  /\ /\ m_state[w] = "Mining"
     /\ run[w].pc \in {"switch", "choose", "search", "hash"}
     /\ BaseJob(w) # m_job[w]
     => lost[w] # "none" \/ Raising(w)

LEMMA StaleInvByWorker == StaleInv <=> IdleInv /\ \A w \in Workers : FreshOf(w)
BY DEF StaleInv, CopyInv, StaleOnlyIfOverwritten, FreshOf, Raising

\* A worker's own steps: an old copy is taken to Mining only over a command.
LEMMA FreshOfStep ==
  ASSUME TypeOK, NEW w \in Workers, Worker(w), KindOf(w), FreshOf(w)
  PROVE  FreshOf(w)'
<1>0. /\ run[w] \in RunRecord /\ run \in [Workers -> RunRecord]
      /\ m_state \in [Workers -> {"Exit", "UpdateJob", "Mining"}]
      /\ note \in [Workers -> Commands] /\ lost \in [Workers -> Commands]
  BY DEF TypeOK
<1>j. m_job' = m_job /\ ctl' = ctl
  BY DEF Worker
<1> USE <1>0, <1>j DEF FreshOf, Raising, BaseJob, RunRecord
<1>1. CASE DeliverStart(w)
  BY <1>1 DEF DeliverStart, Goto
<1>2. CASE Switch(w)
  BY <1>2 DEF Switch, Goto
<1>3. CASE CopyJob(w)
  BY <1>3 DEF CopyJob
<1>4. CASE CheckExit(w)
  BY <1>4 DEF CheckExit, Goto, KindOf
<1>5. CASE SetMining(w)
  <2>1. run[w].pc = "set" /\ ~run[w].feeMode /\ m_state[w] # "Mining"
    BY <1>5 DEF SetMining, KindOf
  <2>2. CASE run[w].currentJob = NoJob
    BY <1>5, <2>1, <2>2 DEF SetMining, Goto
  <2>3. CASE run[w].currentJob # NoJob
    BY <1>5, <2>1, <2>3 DEF SetMining, Goto
  <2> QED BY <2>2, <2>3
<1>6. CASE SearchMain(w)
  BY <1>6 DEF SearchMain, KindOf
<1>7. CASE SearchFee(w)
  BY <1>7 DEF SearchFee, Goto, KindOf
<1>8. CASE SearchNext(w)
  BY <1>8 DEF SearchNext
<1>9. CASE Hash(w)
  BY <1>9 DEF Hash, Goto
<1>10. CASE SearchEnd(w)
  BY <1>10 DEF SearchEnd, NotMining
<1>11. CASE FinishThread(w)
  BY <1>11 DEF FinishThread
<1> QED
  BY <1>1, <1>2, <1>3, <1>4, <1>5, <1>6, <1>7, <1>8, <1>9, <1>10, <1>11 DEF Worker

\* The main thread's steps: a job is stored only where UpdateJob is raised next.
LEMMA FreshMainStep ==
  ASSUME TypeOK, IdleInv, Proceed, NEW w \in Workers, FreshOf(w)
  PROVE  FreshOf(w)' /\ IdleInv'
<1>0. /\ run' = run /\ ctl.i \in Workers /\ ctl \in CtlRecord
      /\ m_state \in [Workers -> {"Exit", "UpdateJob", "Mining"}]
      /\ note \in [Workers -> Commands] /\ lost \in [Workers -> Commands]
      /\ m_job \in [Workers -> Jobs]
  BY DEF TypeOK, CtlRecord, Proceed
<1>1. CASE StopWorker
  <2>1. ctl'.op = ctl.op /\ ctl.op # "none" /\ ctl.step # "state"
    BY <1>0, <1>1 DEF StopWorker, NextWorker, CtlRecord, IdleInv
  <2>2. m_job' = m_job /\ (w # ctl.i => note'[w] = note[w] /\ lost'[w] = lost[w]
                                        /\ m_state'[w] = m_state[w])
    BY <1>0, <1>1 DEF StopWorker, Command
  <2>3. w = ctl.i => note'[w] # "none" /\ m_state'[w] # "Mining"
    BY <1>0, <1>1 DEF StopWorker, Command
  <2> QED BY <1>0, <2>1, <2>2, <2>3 DEF FreshOf, BaseJob, Raising, IdleInv
<1>2. CASE RaiseUpdate
  <2>1. ctl'.op = ctl.op /\ ctl.op # "none"
    BY <1>0, <1>2 DEF RaiseUpdate, GotoStep, NextWorker, CtlRecord, IdleInv
  <2>2. m_job' = m_job /\ (w # ctl.i => note'[w] = note[w] /\ lost'[w] = lost[w]
                                        /\ m_state'[w] = m_state[w])
    BY <1>0, <1>2 DEF RaiseUpdate, Command
  <2>3. w = ctl.i => note'[w] # "none" /\ m_state'[w] # "Mining"
    BY <1>0, <1>2 DEF RaiseUpdate, Command
  <2> QED BY <1>0, <2>1, <2>2, <2>3 DEF FreshOf, BaseJob, Raising, IdleInv
<1>3. CASE StoreJob
  <2>1. ctl'.op = ctl.op /\ ctl.op # "none" /\ ctl'.step = "state" /\ ctl'.i = ctl.i
    BY <1>0, <1>3 DEF StoreJob, GotoStep, CtlRecord, IdleInv
  <2>2. /\ w # ctl.i => m_job'[w] = m_job[w]
        /\ m_state' = m_state /\ note' = note /\ lost' = lost /\ ctl.step # "state"
    BY <1>0, <1>3 DEF StoreJob, history
  <2> QED BY <1>0, <2>1, <2>2 DEF FreshOf, BaseJob, Raising, IdleInv
<1>4. CASE StartThread \/ CheckState \/ StoreFeeJob \/ PostStart \/ QuitThread
           \/ WaitThread \/ Finish
  <2>1. ctl.step # "state" /\ m_job' = m_job /\ m_state' = m_state /\ note' = note
        /\ lost' = lost
    BY <1>4 DEF StartThread, CheckState, StoreFeeJob, PostStart, QuitThread, WaitThread,
       Finish, history
  <2>2. IdleInv'
    <3>1. CASE Finish
      BY <3>1 DEF Finish, Idle, IdleInv
    <3>2. CASE StartThread \/ CheckState \/ StoreFeeJob \/ PostStart \/ QuitThread \/ WaitThread
      <4>1. ctl.op # "none"
        BY <3>2 DEF StartThread, CheckState, StoreFeeJob, PostStart, QuitThread, WaitThread,
           IdleInv
      <4>2. ctl'.op = ctl.op
        <5>1. ASSUME NEW step, GotoStep(step) PROVE ctl'.op = ctl.op
          BY <1>0, <5>1 DEF GotoStep, CtlRecord
        <5>2. ASSUME NEW step, NEW after, NextWorker(step, after) PROVE ctl'.op = ctl.op
          BY <1>0, <5>2 DEF NextWorker, CtlRecord
        <5> QED BY <3>2, <5>1, <5>2 DEF StartThread, CheckState, StoreFeeJob, PostStart,
               QuitThread, WaitThread
      <4> QED BY <4>1, <4>2 DEF IdleInv
    <3> QED BY <1>4, <3>1, <3>2
  <2> QED BY <1>0, <2>1, <2>2 DEF FreshOf, BaseJob, Raising
<1> QED BY <1>1, <1>2, <1>3, <1>4 DEF Proceed

\* StaleInv is inductive, given the types and KindInv.
LEMMA StaleInvInductive == TypeOK /\ KindInv /\ StaleInv /\ [Next]_vars => StaleInv'
<1> SUFFICES ASSUME TypeOK, KindInv, StaleInv, [Next]_vars PROVE StaleInv'
  OBVIOUS
<1>0. IdleInv /\ \A w \in Workers : FreshOf(w) /\ KindOf(w)
  BY KindInvByWorker, StaleInvByWorker
<1>q. ASSUME IdleInv', \A w \in Workers : FreshOf(w)'
      PROVE  StaleInv'
  BY <1>q DEF StaleInv, CopyInv, StaleOnlyIfOverwritten, FreshOf, Raising
<1>1. ASSUME NEW w \in Workers, Worker(w)
      PROVE  StaleInv'
  <2>1. IdleInv'
    BY <1>0, <1>1, OtherWorkers DEF IdleInv
  <2>2. ASSUME NEW v \in Workers PROVE FreshOf(v)'
    <3>1. CASE v = w
      BY <1>0, <1>1, <3>1, FreshOfStep
    <3>2. CASE v # w
      BY <1>0, <1>1, <3>2, OtherWorkers DEF FreshOf, BaseJob, Raising
    <3> QED BY <3>1, <3>2
  <2> QED BY <1>q, <2>1, <2>2
<1>2. CASE Environment
  <2>1. UNCHANGED <<m_state, m_job, run, note, lost>> /\ ctl.op = "none"
    BY <1>2 DEF Environment, history
  <2>2. ctl.step # "state"
    BY <1>0, <2>1 DEF IdleInv
  <2>3. IdleInv'
    BY <1>0, <1>2 DEF IdleInv, Environment, BeginStartCpu, BeginSetThreadCount, BeginStopCpu,
       BeginUpdateJob, UpdateFeeJob, PoolConnected, BeginPoolError, DeliverCpuState, Begin
  <2>4. \A w \in Workers : FreshOf(w)'
    BY <1>0, <2>1, <2>2 DEF FreshOf, BaseJob, Raising
  <2> QED BY <1>q, <2>3, <2>4
<1>3. CASE Proceed
  <2>1. IdleInv'
    BY <1>0, <1>3, FreshMainStep, MinerWorkerAssumption DEF Workers
  <2>2. \A w \in Workers : FreshOf(w)'
    BY <1>0, <1>3, FreshMainStep
  <2> QED BY <1>q, <2>1, <2>2
<1>4. CASE OnShareEvent \/ UNCHANGED vars
  <2>1. UNCHANGED <<m_state, m_job, run, note, lost, ctl>>
    BY <1>4 DEF OnShareEvent, vars, history
  <2> QED BY <1>0, <1>q, <2>1 DEF FreshOf, BaseJob, Raising, IdleInv
<1> QED BY <1>1, <1>2, <1>3, <1>4 DEF Next

\* A worker mines another job than the one it was last given only between
\* updateJob's two statements, or after startMining's own store of Mining has
\* overwritten the command that came with the job.
THEOREM StaleJobs == Spec => []StaleOnlyIfOverwritten
<1>1. Init => KindInv /\ StaleInv
  BY DEF Init, KindInv, MiningInv, FieldKinds, RunKinds, ShareNamesItsPool, NotMining,
     BaseJob, StaleInv, CopyInv, IdleInv, StaleOnlyIfOverwritten, Idle
<1>2. StaleInv => StaleOnlyIfOverwritten
  BY DEF StaleInv
<1> QED
  BY <1>1, <1>2, KindInvInductive, StaleInvInductive, TypeCorrect, PTL DEF Spec

-----------------------------------------------------------------------------
(* A job update revives no worker *)

\* Between updateJob's test of getState() and its store, the worker stays out of Exit:
\* only the main thread stores Exit, and it is in updateJob.
TargetRuns ==
  ctl.step \in {"job", "state"} /\ ~Starting => m_state[ctl.i] # "Exit"

\* No worker's thread stores Exit, and one that leaves Exit moves on in startMining.
LEMMA WorkerNeverExits ==
  ASSUME TypeOK, NEW w \in Workers, Worker(w), NEW v \in Workers
  PROVE  /\ m_state[v] # "Exit" => m_state'[v] # "Exit"
         /\ m_state[v] = "Exit" /\ m_state'[v] # "Exit" => run'[v].pc # run[v].pc
<1>1. CASE DeliverStart(w)
  <2>1. m_state' = [m_state EXCEPT ![w] = "UpdateJob"]
    BY <1>1 DEF DeliverStart
  <2>2. run[w].pc = "idle" /\ run'[w].pc = "switch"
    BY <1>1 DEF DeliverStart, Goto, TypeOK, RunRecord
  <2> QED BY <2>1, <2>2 DEF TypeOK
<1>2. CASE SetMining(w)
  <2>1. m_state' = m_state \/ m_state' = [m_state EXCEPT ![w] = "Mining"]
    BY <1>2 DEF SetMining
  <2>2. run[w].pc = "set" /\ run'[w].pc \in {"switch", "choose"}
    BY <1>2 DEF SetMining, Goto, TypeOK, RunRecord
  <2> QED BY <2>1, <2>2 DEF TypeOK
<1>3. CASE ~DeliverStart(w) /\ ~SetMining(w)
  <2>1. m_state' = m_state
    BY <1>3 DEF Worker, Switch, CopyJob, CheckExit, SearchMain, SearchFee, SearchNext, Hash,
       SearchEnd, FinishThread
  <2> QED BY <2>1
<1> QED BY <1>1, <1>2, <1>3

\* The main thread's statements keep TargetRuns, and only those of startCpu and
\* setThreadCount take a worker out of Exit.
LEMMA MainNeverRevives ==
  ASSUME TypeOK, TargetRuns, Proceed
  PROVE  /\ TargetRuns'
         /\ \A v \in Workers : m_state[v] = "Exit" /\ m_state'[v] # "Exit"
                               => Starting /\ ctl.i = v
<1>0. ctl \in CtlRecord /\ m_state \in [Workers -> {"Exit", "UpdateJob", "Mining"}]
  BY DEF TypeOK
<1>1. CASE StartThread
  <2>1. ctl' = [ctl EXCEPT !.step = "job"] /\ ctl.op = "start" /\ m_state' = m_state
    BY <1>1 DEF StartThread, GotoStep
  <2> QED BY <1>0, <2>1 DEF TargetRuns, Starting, CtlRecord
<1>2. CASE CheckState
  <2>1. m_state' = m_state
    BY <1>2 DEF CheckState
  <2>2. CASE (m_state[ctl.i] = "Exit") = (ctl.op = "resize")
    <3>1. ctl' = [ctl EXCEPT !.step = "job"]
      BY <1>2, <2>2 DEF CheckState, GotoStep
    <3>2. ctl.op # "resize" => m_state[ctl.i] # "Exit"
      BY <2>2
    <3> QED BY <1>0, <2>1, <3>1, <3>2 DEF TargetRuns, Starting, CtlRecord
  <2>3. CASE (m_state[ctl.i] = "Exit") # (ctl.op = "resize")
    <3>1. ctl'.step \in {"worker", "finish"}
      BY <1>0, <1>2, <2>3 DEF CheckState, NextWorker, CtlRecord
    <3> QED BY <2>1, <3>1 DEF TargetRuns
  <2> QED BY <2>2, <2>3
<1>3. CASE StopWorker
  <2>1. m_state' = [m_state EXCEPT ![ctl.i] = "Exit"]
    BY <1>3 DEF StopWorker, Command
  <2>2. ctl'.step \in {"worker", "quit", "finish"}
    BY <1>0, <1>3 DEF StopWorker, NextWorker, CtlRecord
  <2> QED BY <1>0, <2>1, <2>2 DEF TargetRuns
<1>4. CASE StoreJob
  <2>1. ctl' = [ctl EXCEPT !.step = "state"] /\ ctl.step = "job" /\ m_state' = m_state
    BY <1>4 DEF StoreJob, GotoStep
  <2> QED BY <1>0, <2>1 DEF TargetRuns, Starting, CtlRecord
<1>5. CASE RaiseUpdate
  <2>1. m_state' = [m_state EXCEPT ![ctl.i] = "UpdateJob"] /\ ctl.step = "state"
    BY <1>5 DEF RaiseUpdate, Command
  <2>2. ctl'.step \in {"fee", "worker", "finish"}
    BY <1>0, <1>5 DEF RaiseUpdate, GotoStep, NextWorker, CtlRecord
  <2>3. Starting \/ m_state[ctl.i] # "Exit"
    BY <2>1 DEF TargetRuns
  <2> QED BY <1>0, <2>1, <2>2, <2>3 DEF TargetRuns
<1>6. CASE StoreFeeJob \/ PostStart \/ QuitThread \/ WaitThread \/ Finish
  <2>1. m_state' = m_state
    BY <1>6 DEF StoreFeeJob, PostStart, QuitThread, WaitThread, Finish
  <2>2. ctl'.step \notin {"job", "state"}
    <3>1. CASE StoreFeeJob
      BY <1>0, <3>1 DEF StoreFeeJob, GotoStep, CtlRecord
    <3>2. CASE Finish
      BY <3>2 DEF Finish, Idle
    <3>3. CASE PostStart \/ QuitThread \/ WaitThread
      <4>1. ASSUME NEW step \in {"worker", "quit", "wait"}, NEW after \in {"finish", "wait"},
                   NextWorker(step, after)
            PROVE  ctl'.step \notin {"job", "state"}
        BY <1>0, <4>1 DEF NextWorker, CtlRecord
      <4> QED BY <3>3, <4>1 DEF PostStart, QuitThread, WaitThread
    <3> QED BY <1>6, <3>1, <3>2, <3>3
  <2> QED BY <2>1, <2>2 DEF TargetRuns
<1> QED BY <1>1, <1>2, <1>3, <1>4, <1>5, <1>6 DEF Proceed

\* Every step keeps TargetRuns and revives a stopped worker in the two ways listed.
LEMMA NeverRevivesStep ==
  ASSUME TypeOK, TargetRuns, [Next]_vars
  PROVE  /\ TargetRuns'
         /\ \A v \in Workers : m_state[v] = "Exit" /\ m_state'[v] # "Exit"
                               => (Starting /\ ctl.i = v) \/ run'[v].pc # run[v].pc
<1>1. ASSUME NEW w \in Workers, Worker(w)
      PROVE  /\ TargetRuns'
             /\ \A v \in Workers : m_state[v] = "Exit" /\ m_state'[v] # "Exit"
                                   => run'[v].pc # run[v].pc
  <2>1. ctl' = ctl /\ ctl.i \in Workers
    BY <1>1 DEF Worker, TypeOK, CtlRecord
  <2>2. \A v \in Workers :
          /\ m_state[v] # "Exit" => m_state'[v] # "Exit"
          /\ m_state[v] = "Exit" /\ m_state'[v] # "Exit" => run'[v].pc # run[v].pc
    BY <1>1, WorkerNeverExits
  <2> QED BY <2>1, <2>2 DEF TargetRuns, Starting
<1>2. CASE Environment
  <2>1. m_state' = m_state
    BY <1>2 DEF Environment
  <2>2. ctl' = ctl \/ ctl'.step = "worker"
    BY <1>2 DEF Environment, BeginStartCpu, BeginSetThreadCount, BeginStopCpu, BeginUpdateJob,
       UpdateFeeJob, PoolConnected, BeginPoolError, DeliverCpuState, Begin
  <2> QED BY <2>1, <2>2 DEF TargetRuns, Starting
<1>3. CASE Proceed
  BY <1>3, MainNeverRevives
<1>4. CASE OnShareEvent \/ UNCHANGED vars
  <2>1. m_state' = m_state /\ ctl' = ctl
    BY <1>4 DEF OnShareEvent, vars
  <2> QED BY <2>1 DEF TargetRuns, Starting
<1> QED BY <1>1, <1>2, <1>3, <1>4 DEF Next

\* MinerImpl::updateJob, which tests getState() well before it raises UpdateJob, never
\* takes a stopped worker out of Exit, for any number of workers.
THEOREM UpdateNeverRevives == Spec => JobNeverRevives
<1>1. Init => TargetRuns
  BY DEF Init, Idle, TargetRuns
<1>2. TypeOK /\ TargetRuns /\ [Next]_vars => TargetRuns'
  BY NeverRevivesStep
<1>3. TypeOK /\ TargetRuns /\ [Next]_vars
      => [\A w \in Workers :
            m_state[w] = "Exit" /\ m_state'[w] # "Exit"
            => (Starting /\ ctl.i = w) \/ run'[w].pc # run[w].pc]_vars
  BY NeverRevivesStep
<1> QED BY <1>1, <1>2, <1>3, TypeCorrect, PTL DEF Spec, JobNeverRevives

-----------------------------------------------------------------------------
(* The commands stay in force *)

\* start() between its stores and its signal.
Posting(w) == Starting /\ ctl.step \in {"fee", "post"} /\ ctl.i = w

\* m_state is Exit from a stop to the next start, or to the worker's own store, which
\* a worker at that store has not yet noted; and whoever was started is called.
CommandOf(w) ==
  /\ m_state[w] = "Exit" <=> want[w] = "stop"
  /\ run[w].pc = "set" /\ want[w] = "stop" => note[w] = "stop"
  /\ want[w] # "stop" => run[w].pc # "idle" \/ starts[w] > 0 \/ Posting(w)

\* How far a stop has come: the workers told to stop, then the threads told to quit.
StopProgress ==
  /\ ctl.sync => ctl.op = "stop"
  /\ ctl.step \in {"quit", "wait"} => ctl.op = "stop"
  /\ ctl.op = "stop" =>
       /\ ctl.step \in {"worker", "quit", "wait", "finish"}
       /\ \A w \in Workers : want[w] = "run" => ctl.step = "worker" /\ w >= ctl.i
       /\ \A w \in Workers :
            thread[w] = "running" =>
              ctl.step \in {"worker", "finish"} \/ (ctl.step = "quit" /\ w >= ctl.i)

CommandInv == TargetRuns /\ StopProgress /\ \A w \in Workers : CommandOf(w)

\* What a step of worker w leaves to the others, besides what OtherWorkers names.
LEMMA OtherCommands ==
  ASSUME TypeOK, NEW w \in Workers, Worker(w)
  PROVE  /\ \A v \in Workers \ {w} : starts'[v] = starts[v] /\ want'[v] = want[v]
         /\ \A v \in Workers : /\ want'[v] = "run" => want[v] = "run"
                               /\ thread'[v] = "running" => thread[v] = "running"
<1> USE DEF TypeOK
<1>1. CASE DeliverStart(w)
  BY <1>1 DEF DeliverStart
<1>2. CASE SetMining(w)
  BY <1>2 DEF SetMining
<1>3. CASE FinishThread(w)
  BY <1>3 DEF FinishThread
<1>4. CASE ~DeliverStart(w) /\ ~SetMining(w) /\ ~FinishThread(w)
  <2>1. starts' = starts /\ want' = want /\ thread' = thread
    BY <1>4 DEF Worker, Switch, CopyJob, CheckExit, SearchMain, SearchFee, SearchNext, Hash,
       SearchEnd
  <2> QED BY <2>1
<1> QED BY <1>1, <1>2, <1>3, <1>4

\* A worker leaves startMining on reading Exit only, and knows when it overwrites one.
LEMMA WorkerCommand ==
  ASSUME TypeOK, NEW w \in Workers, Worker(w), CommandOf(w)
  PROVE  CommandOf(w)'
<1>0. /\ run \in [Workers -> RunRecord] /\ run[w] \in RunRecord
      /\ m_state \in [Workers -> {"Exit", "UpdateJob", "Mining"}]
      /\ starts \in [Workers -> Nat] /\ note \in [Workers -> Commands]
      /\ want \in [Workers -> {"run", "stop", "revived"}]
  BY DEF TypeOK
<1>p. Posting(w)' <=> Posting(w)
  BY DEF Worker, Posting, Starting
<1>1. CASE DeliverStart(w)
  <2>1. run'[w].pc = "switch"
    BY <1>0, <1>1 DEF DeliverStart, Goto, RunRecord
  <2>2. m_state'[w] = "UpdateJob" /\ want'[w] # "stop"
    BY <1>0, <1>1 DEF DeliverStart
  <2> QED BY <2>1, <2>2 DEF CommandOf
<1>2. CASE Switch(w)
  <2>1. m_state' = m_state /\ want' = want /\ starts' = starts
    BY <1>2 DEF Switch
  <2>2. run'[w].pc \in {"idle", "copy", "choose"} /\ (run'[w].pc = "idle" => m_state[w] = "Exit")
    BY <1>0, <1>2 DEF Switch, Goto, RunRecord
  <2> QED BY <2>1, <2>2 DEF CommandOf
<1>3. CASE CopyJob(w)
  <2>1. m_state' = m_state /\ want' = want /\ starts' = starts
    BY <1>3 DEF CopyJob
  <2>2. run'[w].pc = "check"
    BY <1>0, <1>3 DEF CopyJob, RunRecord
  <2> QED BY <2>1, <2>2 DEF CommandOf
<1>4. CASE CheckExit(w)
  <2>1. m_state' = m_state /\ want' = want /\ starts' = starts
    BY <1>4 DEF CheckExit
  <2>2. run'[w].pc \in {"idle", "set"} /\ (run'[w].pc = "idle" <=> m_state[w] = "Exit")
    BY <1>0, <1>4 DEF CheckExit, Goto, RunRecord
  <2> QED BY <2>1, <2>2 DEF CommandOf
<1>5. CASE SetMining(w)
  <2>1. starts' = starts /\ run[w].pc = "set" /\ run'[w].pc \in {"switch", "choose"}
    BY <1>0, <1>5 DEF SetMining, Goto, RunRecord
  <2>2. CASE run[w].currentJob = NoJob
    <3>1. m_state' = m_state /\ want' = want
      BY <1>5, <2>2 DEF SetMining
    <3> QED BY <2>1, <3>1 DEF CommandOf
  <2>3. CASE run[w].currentJob # NoJob
    <3>1. /\ m_state'[w] = "Mining"
          /\ want'[w] = IF note[w] = "stop" THEN "revived" ELSE want[w]
      BY <1>0, <1>5, <2>3 DEF SetMining
    <3> QED BY <2>1, <3>1 DEF CommandOf
  <2> QED BY <2>2, <2>3
<1>6. CASE SearchMain(w) \/ SearchFee(w) \/ SearchNext(w) \/ Hash(w) \/ SearchEnd(w)
  <2>1. m_state' = m_state /\ want' = want /\ starts' = starts
    BY <1>6 DEF SearchMain, SearchFee, SearchNext, Hash, SearchEnd
  <2>2. run'[w].pc \in {"search", "switch", "hash"}
    <3>1. CASE SearchMain(w) BY <1>0, <3>1 DEF SearchMain, RunRecord
    <3>2. CASE SearchFee(w) BY <1>0, <3>2 DEF SearchFee, Goto, RunRecord
    <3>3. CASE SearchNext(w) BY <1>0, <3>3 DEF SearchNext, RunRecord
    <3>4. CASE Hash(w) BY <1>0, <3>4 DEF Hash, Goto, RunRecord
    <3>5. CASE SearchEnd(w) BY <1>0, <3>5 DEF SearchEnd, NotMining, RunRecord
    <3> QED BY <1>6, <3>1, <3>2, <3>3, <3>4, <3>5
  <2> QED BY <2>1, <2>2 DEF CommandOf
<1>7. CASE FinishThread(w)
  BY <1>p, <1>7 DEF FinishThread, CommandOf
<1> QED
  BY <1>1, <1>2, <1>3, <1>4, <1>5, <1>6, <1>7 DEF Worker

\* Whoever is told nothing by a statement of the main thread keeps its promise.
LEMMA SameCommand ==
  ASSUME CommandInv, UNCHANGED <<m_state, run, starts, note, want>>, NEW w \in Workers,
         Posting(w) => Posting(w)'
  PROVE  CommandOf(w)'
BY DEF CommandInv, CommandOf

\* The loop's next worker, or what comes after the last one.
LEMMA NextWorkerIs ==
  ASSUME TypeOK, NEW step, NEW after, NextWorker(step, after)
  PROVE  /\ ctl'.op = ctl.op /\ ctl'.sync = ctl.sync
         /\ \/ ctl'.step = step /\ ctl'.i = ctl.i + 1
            \/ ctl'.step = after /\ ctl'.i = 1 /\ (ctl.op # "start" => ctl.i = N)
<1>1. ctl \in CtlRecord /\ N \in Nat
  BY MinerWorkerAssumption DEF TypeOK
<1> DEFINE last == IF ctl.op = "start" THEN ctl.n ELSE N
<1>2. last \in Nat /\ (ctl.op # "start" => last = N) /\ ctl.i \in 1..N
  BY <1>1 DEF CtlRecord, Workers
<1>3. ctl' = IF ctl.i < last THEN [ctl EXCEPT !.i = ctl.i + 1, !.step = step]
             ELSE [ctl EXCEPT !.i = 1, !.step = after]
  BY DEF NextWorker
<1> HIDE DEF last
<1> QED
  BY <1>1, <1>2, <1>3 DEF CtlRecord

\* The statements of the main thread, one after the other.
LEMMA MainCommand ==
  ASSUME TypeOK, CommandInv, Proceed
  PROVE  StopProgress' /\ \A w \in Workers : CommandOf(w)'
<1>0. /\ ctl \in CtlRecord /\ N \in Nat /\ ctl.i \in 1..N /\ ctl.i \in Workers
      /\ m_state \in [Workers -> {"Exit", "UpdateJob", "Mining"}]
      /\ starts \in [Workers -> Nat] /\ note \in [Workers -> Commands]
      /\ want \in [Workers -> {"run", "stop", "revived"}]
      /\ thread \in [Workers -> {"running", "quitting", "finished"}]
      /\ run' = run
  BY MinerWorkerAssumption DEF TypeOK, CtlRecord, Workers, Proceed
<1>c. StopProgress /\ TargetRuns /\ \A w \in Workers : CommandOf(w)
  BY DEF CommandInv
<1>1. CASE StartThread
  <2>1. ctl' = [ctl EXCEPT !.step = "job"] /\ ctl.op = "start" /\ ctl.step = "worker"
    BY <1>1 DEF StartThread, GotoStep
  <2>2. ctl'.op = "start" /\ ctl'.step = "job" /\ ctl'.sync = ctl.sync
    BY <1>0, <2>1 DEF CtlRecord
  <2>3. StopProgress'
    BY <1>c, <2>1, <2>2 DEF StopProgress
  <2>4. \A w \in Workers : CommandOf(w)'
    BY <1>0, <1>1, <2>1, SameCommand DEF StartThread, history, Posting
  <2> QED BY <2>3, <2>4
<1>2. CASE CheckState
  <2>1. UNCHANGED <<m_state, starts, note, want, thread>> /\ ctl.step = "worker" /\ ctl.op # "stop"
    BY <1>2 DEF CheckState, history
  <2>2. ctl'.op = ctl.op /\ ctl'.sync = ctl.sync /\ ctl'.step \in {"job", "worker", "finish"}
    <3>1. CASE GotoStep("job")
      BY <1>0, <3>1 DEF GotoStep, CtlRecord
    <3>2. CASE NextWorker("worker", "finish")
      BY <3>2, NextWorkerIs
    <3> QED BY <1>2, <3>1, <3>2 DEF CheckState
  <2>3. StopProgress'
    BY <1>c, <2>1, <2>2 DEF StopProgress
  <2>4. \A w \in Workers : CommandOf(w)'
    BY <1>0, <2>1, SameCommand DEF Posting
  <2> QED BY <2>3, <2>4
<1>3. CASE StopWorker
  <2>1. /\ m_state' = [m_state EXCEPT ![ctl.i] = "Exit"] /\ note' = [note EXCEPT ![ctl.i] = "stop"]
        /\ want' = [want EXCEPT ![ctl.i] = "stop"] /\ starts' = starts /\ thread' = thread
        /\ ctl.step = "worker" /\ ctl.op \in {"stop", "resize"}
        /\ NextWorker("worker", IF ctl.sync THEN "quit" ELSE "finish")
    BY <1>3 DEF StopWorker, Command
  <2>2. /\ ctl'.op = ctl.op /\ ctl'.sync = ctl.sync
        /\ \/ ctl'.step = "worker" /\ ctl'.i = ctl.i + 1
           \/ ctl'.step \in {"quit", "finish"} /\ ctl'.i = 1 /\ ctl.i = N
              /\ (ctl'.step = "quit" => ctl.sync)
    BY <2>1, NextWorkerIs
  <2>3. StopProgress'
    <3>1. ASSUME ctl.op = "stop", NEW w \in Workers, want'[w] = "run"
          PROVE  ctl'.step = "worker" /\ w >= ctl'.i
      <4>1. w # ctl.i /\ want[w] = "run" /\ w \in 1..N
        BY <1>0, <2>1, <3>1 DEF Workers
      <4>2. w >= ctl.i
        BY <1>c, <3>1, <4>1 DEF StopProgress
      <4> QED BY <1>0, <2>2, <4>1, <4>2
    <3>2. ASSUME NEW w \in Workers, ctl'.step = "quit" PROVE w >= ctl'.i
      BY <1>0, <2>2, <3>2 DEF Workers
    <3> QED BY <1>c, <2>1, <2>2, <3>1, <3>2 DEF StopProgress
  <2>4. ASSUME NEW w \in Workers PROVE CommandOf(w)'
    <3>1. CASE w = ctl.i
      BY <1>0, <2>1, <3>1 DEF CommandOf
    <3>2. CASE w # ctl.i
      <4>1. ~Posting(w)
        BY <2>1 DEF Posting
      <4>2. /\ m_state'[w] = m_state[w] /\ note'[w] = note[w] /\ want'[w] = want[w]
            /\ starts'[w] = starts[w] /\ run'[w] = run[w]
        BY <1>0, <2>1, <3>2
      <4> QED BY <1>c, <4>1, <4>2 DEF CommandOf
    <3> QED BY <3>1, <3>2
  <2> QED BY <2>3, <2>4
<1>4. CASE StoreJob
  <2>1. ctl' = [ctl EXCEPT !.step = "state"] /\ ctl.step = "job"
    BY <1>4 DEF StoreJob, GotoStep
  <2>2. ctl'.op = ctl.op /\ ctl'.step = "state" /\ ctl'.sync = ctl.sync
    BY <1>0, <2>1 DEF CtlRecord
  <2>3. StopProgress'
    BY <1>c, <2>1, <2>2 DEF StopProgress
  <2>4. \A w \in Workers : CommandOf(w)'
    BY <1>0, <1>4, <2>1, SameCommand DEF StoreJob, history, Posting
  <2> QED BY <2>3, <2>4
<1>5. CASE RaiseUpdate
  <2>1. /\ m_state' = [m_state EXCEPT ![ctl.i] = "UpdateJob"]
        /\ want' = [want EXCEPT ![ctl.i] = IF Starting THEN "run" ELSE @]
        /\ note' = [note EXCEPT ![ctl.i] = "job"] /\ starts' = starts /\ thread' = thread
        /\ ctl.step = "state"
    BY <1>5 DEF RaiseUpdate, Command
  <2>2. /\ ctl'.op = ctl.op /\ ctl'.sync = ctl.sync /\ ctl'.step \in {"fee", "worker", "finish"}
        /\ (Starting => ctl'.step = "fee" /\ ctl'.i = ctl.i)
    <3>1. CASE Starting
      BY <1>0, <1>5, <3>1 DEF RaiseUpdate, GotoStep, CtlRecord
    <3>2. CASE ~Starting
      BY <1>5, <3>2, NextWorkerIs DEF RaiseUpdate
    <3> QED BY <3>1, <3>2
  <2>3. StopProgress'
    BY <1>c, <2>1, <2>2 DEF StopProgress
  <2>4. ASSUME NEW w \in Workers PROVE CommandOf(w)'
    <3>1. CASE w = ctl.i /\ Starting
      <4>1. m_state'[w] = "UpdateJob" /\ want'[w] = "run" /\ Posting(w)'
        BY <1>0, <2>1, <2>2, <3>1 DEF Posting, Starting
      <4> QED BY <4>1 DEF CommandOf
    <3>2. CASE w = ctl.i /\ ~Starting
      <4>1. m_state'[w] = "UpdateJob" /\ want'[w] = want[w] /\ starts'[w] = starts[w] /\ run' = run
        BY <1>0, <2>1, <3>2
      <4>2. m_state[w] # "Exit" /\ ~Posting(w)
        BY <1>c, <2>1, <3>2 DEF TargetRuns, Posting
      <4> QED BY <1>c, <4>1, <4>2 DEF CommandOf
    <3>3. CASE w # ctl.i
      <4>1. /\ m_state'[w] = m_state[w] /\ note'[w] = note[w] /\ want'[w] = want[w]
            /\ starts'[w] = starts[w] /\ run'[w] = run[w]
        BY <1>0, <2>1, <3>3
      <4> QED BY <1>c, <3>3, <4>1 DEF CommandOf, Posting
    <3> QED BY <3>1, <3>2, <3>3
  <2> QED BY <2>3, <2>4
<1>6. CASE StoreFeeJob
  <2>1. ctl' = [ctl EXCEPT !.step = "post"] /\ ctl.step = "fee"
    BY <1>6 DEF StoreFeeJob, GotoStep
  <2>2. ctl'.op = ctl.op /\ ctl'.step = "post" /\ ctl'.sync = ctl.sync /\ ctl'.i = ctl.i
    BY <1>0, <2>1 DEF CtlRecord
  <2>3. StopProgress'
    BY <1>c, <2>1, <2>2 DEF StopProgress
  <2>4. \A w \in Workers : CommandOf(w)'
    BY <1>0, <1>6, <2>1, <2>2, SameCommand DEF StoreFeeJob, history, Posting, Starting
  <2> QED BY <2>3, <2>4
<1>7. CASE PostStart
  <2>1. /\ UNCHANGED <<m_state, note, want>> /\ starts' = [starts EXCEPT ![ctl.i] = @ + 1]
        /\ ctl.step = "post" /\ NextWorker("worker", "finish")
    BY <1>7 DEF PostStart, history
  <2>2. ctl'.op = ctl.op /\ ctl'.sync = ctl.sync /\ ctl'.step \in {"worker", "finish"}
    BY <2>1, NextWorkerIs
  <2>3. StopProgress'
    BY <1>c, <2>1, <2>2 DEF StopProgress
  <2>4. ASSUME NEW w \in Workers PROVE CommandOf(w)'
    <3>1. CASE w = ctl.i
      <4>1. starts'[w] > 0
        BY <1>0, <2>1, <3>1
      <4> QED BY <1>0, <1>c, <2>1, <4>1 DEF CommandOf
    <3>2. CASE w # ctl.i
      <4>1. starts'[w] = starts[w] /\ ~Posting(w)
        BY <1>0, <2>1, <3>2 DEF Posting
      <4> QED BY <1>0, <1>c, <2>1, <4>1 DEF CommandOf
    <3> QED BY <3>1, <3>2
  <2> QED BY <2>3, <2>4
<1>8. CASE QuitThread
  <2>1. /\ UNCHANGED <<m_state, starts, note, want>> /\ ctl.step = "quit"
        /\ thread' = [thread EXCEPT ![ctl.i] = IF @ = "finished" THEN @ ELSE "quitting"]
        /\ NextWorker("quit", "wait")
    BY <1>8 DEF QuitThread, history
  <2>2. ctl.op = "stop" /\ \A w \in Workers : want[w] # "run"
    BY <1>c, <2>1 DEF StopProgress
  <2>3. /\ ctl'.op = "stop" /\ ctl'.sync = ctl.sync
        /\ \/ ctl'.step = "quit" /\ ctl'.i = ctl.i + 1
           \/ ctl'.step = "wait" /\ ctl.i = N
    BY <2>1, <2>2, NextWorkerIs
  <2>4. ASSUME NEW w \in Workers, thread'[w] = "running" PROVE ctl'.step = "quit" /\ w >= ctl'.i
    <3>1. w # ctl.i /\ thread[w] = "running" /\ w \in 1..N
      BY <1>0, <2>1, <2>4 DEF Workers
    <3>2. w >= ctl.i
      BY <1>c, <2>1, <2>2, <3>1 DEF StopProgress
    <3> QED BY <1>0, <2>3, <3>1, <3>2
  <2>5. StopProgress'
    BY <2>1, <2>2, <2>3, <2>4 DEF StopProgress
  <2>6. \A w \in Workers : CommandOf(w)'
    BY <1>0, <2>1, SameCommand DEF Posting
  <2> QED BY <2>5, <2>6
<1>9. CASE WaitThread
  <2>1. UNCHANGED <<m_state, starts, note, want, thread>> /\ ctl.step = "wait"
        /\ NextWorker("wait", "finish")
    BY <1>9 DEF WaitThread, history
  <2>2. ctl.op = "stop" /\ \A w \in Workers : want[w] # "run" /\ thread[w] # "running"
    BY <1>c, <2>1 DEF StopProgress
  <2>3. ctl'.op = "stop" /\ ctl'.sync = ctl.sync /\ ctl'.step \in {"wait", "finish"}
    BY <2>1, <2>2, NextWorkerIs
  <2>4. StopProgress'
    BY <2>1, <2>2, <2>3 DEF StopProgress
  <2>5. \A w \in Workers : CommandOf(w)'
    BY <1>0, <2>1, SameCommand DEF Posting
  <2> QED BY <2>4, <2>5
<1>10. CASE Finish
  <2>1. UNCHANGED <<m_state, starts, note, want, thread>> /\ ctl.step = "finish" /\ ctl' = Idle
    BY <1>10 DEF Finish, history
  <2>2. StopProgress'
    BY <2>1 DEF StopProgress, Idle
  <2>3. \A w \in Workers : CommandOf(w)'
    BY <1>0, <2>1, SameCommand DEF Posting
  <2> QED BY <2>2, <2>3
<1> QED
  BY <1>1, <1>2, <1>3, <1>4, <1>5, <1>6, <1>7, <1>8, <1>9, <1>10 DEF Proceed

\* Every step keeps the commands in force.
LEMMA CommandInvInductive == TypeOK /\ CommandInv /\ [Next]_vars => CommandInv'
<1> SUFFICES ASSUME TypeOK, CommandInv, [Next]_vars PROVE CommandInv'
  OBVIOUS
<1>0. TargetRuns'
  BY NeverRevivesStep DEF CommandInv
<1>1. ASSUME NEW w \in Workers, Worker(w) PROVE CommandInv'
  <2>1. ctl' = ctl
    BY <1>1 DEF Worker
  <2>2. StopProgress'
    BY <1>1, <2>1, OtherCommands DEF CommandInv, StopProgress
  <2>3. ASSUME NEW v \in Workers, v # w PROVE CommandOf(v)'
    <3>1. /\ m_state'[v] = m_state[v] /\ note'[v] = note[v] /\ want'[v] = want[v]
          /\ starts'[v] = starts[v] /\ run'[v] = run[v]
      BY <1>1, <2>3, OtherWorkers, OtherCommands
    <3> QED BY <2>1, <3>1 DEF CommandInv, CommandOf, Posting, Starting
  <2>4. CommandOf(w)'
    BY <1>1, WorkerCommand DEF CommandInv
  <2> QED BY <1>0, <2>2, <2>3, <2>4 DEF CommandInv
<1>2. CASE Environment
  <2>1. UNCHANGED <<m_state, run, starts, note, want, thread>> /\ ctl.op = "none"
    BY <1>2 DEF Environment, history
  <2>2. \/ ctl' = ctl
        \/ \E n, op : op # "stop" /\ Begin(op, n, FALSE)
        \/ \E sync : Begin("stop", 0, sync)
    <3>1. ASSUME NEW n \in 1..N, BeginStartCpu(n) \/ BeginSetThreadCount(n)
          PROVE  \E m, op : op # "stop" /\ Begin(op, m, FALSE)
      BY <3>1 DEF BeginStartCpu, BeginSetThreadCount
    <3>2. ASSUME NEW sync \in BOOLEAN, BeginStopCpu(sync) PROVE Begin("stop", 0, sync)
      BY <3>2 DEF BeginStopCpu
    <3>3. ASSUME NEW job, BeginUpdateJob(job) \/ BeginPoolError
          PROVE  \E op : op # "stop" /\ Begin(op, 0, FALSE)
      BY <3>3 DEF BeginUpdateJob, BeginPoolError
    <3>4. ASSUME NEW job, UpdateFeeJob(job) \/ PoolConnected \/ DeliverCpuState
          PROVE  ctl' = ctl
      BY <3>4 DEF UpdateFeeJob, PoolConnected, DeliverCpuState
    <3> QED BY <1>2, <3>1, <3>2, <3>3, <3>4, Zenon DEF Environment
  <2>3. StopProgress'
    <3>1. CASE ctl' = ctl
      BY <2>1, <3>1 DEF CommandInv, StopProgress
    <3>2. ASSUME NEW n, NEW op, op # "stop", Begin(op, n, FALSE) PROVE StopProgress'
      BY <3>2 DEF Begin, StopProgress
    <3>3. ASSUME NEW sync, Begin("stop", 0, sync) PROVE StopProgress'
      BY <3>3 DEF Begin, StopProgress, Workers
    <3> QED BY <2>2, <3>1, <3>2, <3>3
  <2>4. \A w \in Workers : CommandOf(w)'
    BY <2>1, SameCommand DEF Posting, Starting
  <2> QED BY <1>0, <2>3, <2>4 DEF CommandInv
<1>3. CASE Proceed
  BY <1>0, <1>3, MainCommand DEF CommandInv
<1>4. CASE OnShareEvent \/ UNCHANGED vars
  <2>1. UNCHANGED <<m_state, run, starts, note, want, thread, ctl>>
    BY <1>4 DEF OnShareEvent, vars, history
  <2>2. \A w \in Workers : CommandOf(w)'
    BY <2>1, SameCommand DEF Posting, Starting
  <2> QED BY <1>0, <2>1, <2>2 DEF CommandInv, StopProgress
<1> QED BY <1>1, <1>2, <1>3, <1>4 DEF Next

\* Stops and starts stay in force, and a synchronous stop waits for threads that were
\* told to quit and workers that were told to stop, however many workers there are.
THEOREM CommandsStayInForce == Spec => []CommandsInForce
<1>1. Init => CommandInv
  BY DEF Init, Idle, NotMining, CommandInv, TargetRuns, StopProgress, CommandOf
<1>2. CommandInv => CommandsInForce
  BY DEF CommandInv, StopProgress, CommandOf, CommandsInForce, Posting
<1> QED
  BY <1>1, <1>2, CommandInvInductive, TypeCorrect, PTL DEF Spec

-----------------------------------------------------------------------------
(* The nonce controller *)

\* The arithmetic of a nonce stays within its width.
LEMMA Width ==
  ASSUME NEW m \in Nonces
  PROVE  /\ Reserve \in Nonces
         /\ Plus(m, Reserve) \in Nonces
         /\ Plus(m, Reserve) >= Reserve \/ Plus(m, Reserve) < m
BY NonceCtlAssumption, SMT DEF Nonces, Plus

\* NonceTypeOK: what nextNonce and updateJob store stays a quint64.
THEOREM NonceTypeCorrect == NonceSpec => []NonceTypeOK
<1>1. NonceInit => NonceTypeOK
  <2>1. 0 \in Nonces /\ Reserve \in Nonces
    BY NonceCtlAssumption, SMT DEF Nonces
  <2>2. [pc |-> "idle", new |-> 0, last |-> Reserve] \in Call
    BY <2>1 DEF Call
  <2>3. QED
    BY <2>1, <2>2 DEF NonceInit, NonceTypeOK
<1>2. NonceTypeOK /\ [NonceNext]_nonceVars => NonceTypeOK'
  <2> SUFFICES ASSUME NonceTypeOK, [NonceNext]_nonceVars PROVE NonceTypeOK'
    OBVIOUS
  <2> USE DEF NonceTypeOK
  <2>0. 0 \in Nonces /\ Reserve \in Nonces
    BY NonceCtlAssumption, SMT DEF Nonces
  <2>1. ASSUME NEW t \in Threads, Enter(t) PROVE NonceTypeOK'
    BY <2>0, <2>1 DEF Enter, Call
  <2>2. ASSUME NEW t \in Threads, Load(t) PROVE NonceTypeOK'
    <3>1. Plus(nonce, Reserve) \in Nonces
      BY Width
    <3> QED BY <2>2, <3>1 DEF Load, Call
  <2>3. ASSUME NEW t \in Threads, CheckOverflow(t) PROVE NonceTypeOK'
    <3>1. call[t].new \in Nonces
      BY DEF Call
    <3>2. (IF call[t].new < nonce THEN Reserve ELSE call[t].new) \in Nonces
      BY <2>0, <3>1
    <3> QED BY <2>3, <3>2 DEF CheckOverflow, Call
  <2>4. ASSUME NEW t \in Threads, Store(t) PROVE NonceTypeOK'
    BY <2>4 DEF Store, Call
  <2>5. ASSUME NEW t \in Threads, Return(t) PROVE NonceTypeOK'
    BY <2>0, <2>5 DEF Return, Call
  <2>6. CASE Invalidate
    BY <2>6 DEF Invalidate
  <2>7. CASE RestartNonce
    <3>1. nonce' \in Nonces
      BY <2>0, <2>7 DEF RestartNonce
    <3> QED BY <2>7, <3>1 DEF RestartNonce
  <2>8. CASE Revalidate
    BY <2>8 DEF Revalidate
  <2>9. CASE UNCHANGED nonceVars
    BY <2>9 DEF nonceVars
  <2> QED
    BY <2>1, <2>2, <2>3, <2>4, <2>5, <2>6, <2>7, <2>8, <2>9 DEF NonceNext
<1> QED
  BY <1>1, <1>2, PTL DEF NonceSpec

\* Unless a restart fell into a call, m_nonce is at least Reserve from the first
\* store on, so a sum that has wrapped is below both; what is stored and returned
\* is at least Reserve.
ThreadAtLeastReserve(t) ==
  /\ call[t].last >= Reserve
  /\ call[t].pc = "check" => call[t].new >= Reserve \/ call[t].new < nonce
  /\ call[t].pc = "store" => call[t].new >= Reserve
  /\ call[t].pc = "return" => nonce >= Reserve

AtLeastReserve == ~raced => \A t \in Threads : ThreadAtLeastReserve(t)

\* A range that ends at least Reserve above zero holds its own end.
LEMMA LastSearched ==
  ASSUME NEW m \in Nonces, m >= Reserve
  PROVE  Minus(m, Reserve) <= m
BY NonceCtlAssumption, SMT DEF Nonces, Minus

\* WholeRange: whatever the order in which the threads' loads and stores of m_nonce
\* meet in nextNonce, no thread gets a range without a nonce to search.
THEOREM RangesWhole == NonceSpec => []WholeRange
<1>1. NonceInit => AtLeastReserve
  <2>1. Reserve >= Reserve
    BY NonceCtlAssumption
  <2>2. ASSUME NonceInit, NEW t \in Threads
        PROVE  call[t].pc = "idle" /\ call[t].last = Reserve
    BY <2>2 DEF NonceInit
  <2>3. QED
    BY <2>1, <2>2 DEF AtLeastReserve, ThreadAtLeastReserve
<1>2. NonceTypeOK /\ AtLeastReserve /\ [NonceNext]_nonceVars => AtLeastReserve'
  <2> SUFFICES ASSUME NonceTypeOK, AtLeastReserve, [NonceNext]_nonceVars, ~raced',
                      NEW s \in Threads
               PROVE  ThreadAtLeastReserve(s)'
    BY DEF AtLeastReserve
  <2>0. ~raced
    BY DEF NonceTypeOK, NonceNext, nonceVars, Enter, Load, CheckOverflow, Store, Return,
           Invalidate, RestartNonce, Revalidate
  <2>1. \A t \in Threads : ThreadAtLeastReserve(t)
    BY <2>0 DEF AtLeastReserve
  <2>2. /\ Reserve \in Int /\ nonce \in Nonces
        /\ call \in [Threads -> Call]
        /\ \A t \in Threads : call[t].new \in Int /\ call[t].last \in Int
    BY NonceCtlAssumption, SMT DEF NonceTypeOK, Nonces, Call
  <2>3. nonce \in Int
    BY <2>2, SMT DEF Nonces
  <2>4. ASSUME NEW t \in Threads, Enter(t) PROVE ThreadAtLeastReserve(s)'
    BY <2>1, <2>2, <2>3, <2>4, SMT DEF Enter, ThreadAtLeastReserve, Call
  <2>5. ASSUME NEW t \in Threads, Load(t) PROVE ThreadAtLeastReserve(s)'
    <3>1. Plus(nonce, Reserve) >= Reserve \/ Plus(nonce, Reserve) < nonce
      BY <2>2, Width
    <3>2. QED
      BY <2>1, <2>2, <2>5, <3>1 DEF Load, ThreadAtLeastReserve, Call
  <2>6. ASSUME NEW t \in Threads, CheckOverflow(t) PROVE ThreadAtLeastReserve(s)'
    <3> DEFINE checked == IF call[t].new < nonce THEN Reserve ELSE call[t].new
    <3>1. checked >= Reserve
      BY <2>1, <2>2, <2>3, <2>6, SMT DEF CheckOverflow, ThreadAtLeastReserve
    <3>2. call' = [call EXCEPT ![t] = [@ EXCEPT !.pc = "store", !.new = checked]]
      BY <2>6 DEF CheckOverflow
    <3> HIDE DEF checked
    <3>3. QED
      BY <2>1, <2>2, <2>6, <3>1, <3>2 DEF CheckOverflow, ThreadAtLeastReserve, Call
  <2>7. ASSUME NEW t \in Threads, Store(t) PROVE ThreadAtLeastReserve(s)'
    <3>1. nonce' = call[t].new /\ call[t].new >= Reserve
      BY <2>1, <2>7 DEF Store, ThreadAtLeastReserve
    <3>2. /\ call'[s].last = call[s].last /\ call'[s].new = call[s].new
          /\ call'[s].pc = IF s = t THEN "return" ELSE call[s].pc
      BY <2>2, <2>7 DEF Store, Call
    <3>3. QED
      BY <2>1, <2>2, <2>3, <3>1, <3>2, SMT DEF ThreadAtLeastReserve
  <2>8. ASSUME NEW t \in Threads, Return(t) PROVE ThreadAtLeastReserve(s)'
    BY <2>1, <2>2, <2>8 DEF Return, ThreadAtLeastReserve, Call
  <2>9. CASE Invalidate \/ Revalidate \/ UNCHANGED nonceVars
    BY <2>1, <2>9 DEF Invalidate, Revalidate, nonceVars, ThreadAtLeastReserve
  <2>10. CASE RestartNonce
    <3>1. call[s].pc = "idle" /\ call' = call
      BY <2>10 DEF RestartNonce
    <3>2. QED
      BY <2>1, <3>1 DEF ThreadAtLeastReserve
  <2>11. QED
    BY <2>4, <2>5, <2>6, <2>7, <2>8, <2>9, <2>10 DEF NonceNext
<1>3. NonceTypeOK /\ AtLeastReserve => WholeRange
  <2> SUFFICES ASSUME NonceTypeOK, AtLeastReserve, ~raced, NEW t \in Threads
               PROVE  Searched(t) # {}
    BY DEF WholeRange
  <2>1. call[t].last \in Nonces /\ call[t].last >= Reserve
    BY DEF NonceTypeOK, Call, AtLeastReserve, ThreadAtLeastReserve
  <2>2. Minus(call[t].last, Reserve) <= call[t].last
    BY <2>1, LastSearched
  <2>3. call[t].last \in Searched(t)
    BY <2>1, <2>2, SMT DEF Searched, Nonces
  <2>4. QED
    BY <2>3
<1>4. QED
  BY <1>1, <1>2, <1>3, NonceTypeCorrect, PTL DEF NonceSpec
=============================================================================
