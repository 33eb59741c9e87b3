----------------------------- MODULE PoolProofs -----------------------------
(* Proofs about PoolClient, for any ids and bounds: the Ethereum pool       *)
(* client is a JSON-RPC client, and it is never stranded.                  *)
EXTENDS PoolClient, JsonRpcProofs

-----------------------------------------------------------------------------
(* The pool client is a client: every step is one of JsonRpcClient's or     *)
(* leaves the client alone.                                                 *)

LEMMA StepIsRpc ==
  ASSUME PoolNext
  PROVE  RpcNext \/ rpc' = rpc
<1>1. \A c : c \in MaybePost(c) /\ \A m \in PoolMethods : Post(c, m) \in MaybePost(c)
  BY PoolAssumption DEF MaybePost
<1>2. \A c : /\ {c, Reset(c, FALSE), DisconnectFromHost(c)} \subseteq Reactions(c)
             /\ \A m \in PoolMethods : Post(Reset(c, FALSE), m) \in Reactions(c)
  <2> TAKE c
  <2>1. \A d \in {c, Reset(c, FALSE), Reset(c, TRUE), DisconnectFromHost(c)} :
          MaybePost(d) \subseteq Reactions(c)
    BY DEF Reactions
  <2>2. /\ c \in Reactions(c) /\ Reset(c, FALSE) \in Reactions(c)
        /\ DisconnectFromHost(c) \in Reactions(c)
    BY <1>1, <2>1
  <2>3. ASSUME NEW m \in PoolMethods PROVE Post(Reset(c, FALSE), m) \in Reactions(c)
    <3>1. Post(Reset(c, FALSE), m) \in MaybePost(Reset(c, FALSE))
      BY <1>1
    <3>2. QED
      BY <2>1, <3>1
  <2>4. QED
    BY <2>2, <2>3
<1>3. "login" \in PoolMethods /\ "eth_getWork" \in PoolMethods /\ "eth_submitWork" \in PoolMethods
  BY DEF PoolMethods
<1>4. CASE StartListen \/ StopListen \/ SwitchToPool \/ UpdateProxy
  BY <1>4 DEF StartListen, StopListen, SwitchToPool, UpdateProxy, RpcNext, Application
<1>5. CASE SubmitShare \/ LoginTimer
  <2>1. Idle /\ rpc' \in MaybePost(rpc)
    BY <1>1, <1>3, <1>5 DEF SubmitShare, LoginTimer
  <2>2. QED
    BY <2>1 DEF RpcNext, Application
<1>6. CASE OnConnected
  <2>1. Post(rpc, "login") \in MaybePost(rpc)
    BY <1>1, <1>3
  <2>2. QED
    BY <1>6, <2>1 DEF OnConnected, HandleConnected, RpcNext
<1>7. CASE OnSocketError
  BY <1>7 DEF OnSocketError, HandleSocketError, RpcNext
<1>8. CASE Login \/ GetJob \/ OtherAnswer \/ ShareError \/ SleepError
  <2>1. rpc.lines # <<>>
    BY <1>8 DEF Login, GetJob, OtherAnswer, ShareError, SleepError, NextLine, NextResult
  <2>2. rpc' \in Reactions(Processed)
    <3>1. rpc' \in {Processed, Reset(Processed, FALSE), DisconnectFromHost(Processed),
                    Post(Reset(Processed, FALSE), "eth_getWork")}
      BY <1>8 DEF Login, GetJob, OtherAnswer, ShareError, SleepError, SetNewJob
    <3> HIDE DEF Processed
    <3>2. QED
      BY <1>2, <1>3, <3>1
  <2>3. QED
    BY <2>1, <2>2 DEF HandleLine, Processed, RpcNext
<1>9. CASE OwnSlot
  BY <1>9 DEF OwnSlot, Transport, RpcNext
<1>10. CASE PoolNotifies \/ PoolIgnores \/ \E type \in {"result", "error"} : PoolAnswers(type)
  BY <1>10 DEF PoolNotifies, PoolIgnores, PoolAnswers, Server, RpcNext
<1>11. QED
  BY <1>4, <1>5, <1>6, <1>7, <1>8, <1>9, <1>10 DEF PoolNext

\* The pool client implements the JSON-RPC client with any adapter, so that all that is
\* proved of the latter holds of it.
THEOREM PoolIsRpc == PoolSpec => RpcSpec
<1>1. PoolInit => RpcInit
  BY DEF PoolInit
<1>2. [PoolNext]_vars => [RpcNext]_rpc
  BY StepIsRpc DEF vars
<1>3. QED
  BY <1>1, <1>2, PTL DEF PoolSpec, RpcSpec

\* Among it: requests are written in order, once, on a live connection, and settled at
\* most once.
THEOREM PoolKeepsRequests == PoolSpec => RequestsKept
BY PoolIsRpc, ImplementsRequests

-----------------------------------------------------------------------------
(* The inductive invariant *)

PoolTypeOK ==
  pool \in [worker : BOOLEAN, loginTimer : BOOLEAN, served : BOOLEAN, miscounted : BOOLEAN,
            want : {"run", "stop"}, clean : BOOLEAN]

\* A client that is to run and is away will be asked to come back.
Recovers ==
  pool.want = "run" =>
    ~Away(rpc) \/ rpc.requestTimer \/ pool.loginTimer \/ rpc.posted # <<>>

\* A client that is stopped and clean does nothing.
Rests == pool.want = "stop" /\ pool.clean => Quiet(rpc) /\ ~pool.loginTimer /\ ~pool.worker

PInv ==
  /\ PoolTypeOK /\ Good(rpc) /\ Link(rpc, pool.served)
  /\ pool.worker => ~Away(rpc)
  /\ Recovers
  /\ Rests

LEMMA InitPInv == PoolInit => PInv
<1> SUFFICES ASSUME PoolInit PROVE PInv
  OBVIOUS
<1>1. Good(rpc)
  BY InitGood DEF PoolInit, IInv
<1>2. Link(rpc, pool.served) /\ Quiet(rpc)
  BY DEF PoolInit, RpcInit, Link, Quiet, Away, Up
<1>3. PoolTypeOK /\ pool.want = "stop" /\ ~pool.worker /\ ~pool.loginTimer
  BY DEF PoolInit, PoolTypeOK
<1>4. QED
  BY <1>1, <1>2, <1>3 DEF PInv, Recovers, Rests

\* A step of a client that is not at rest, to one that is not away, without a call of
\* start or stop.
LEMMA Awake ==
  ASSUME PInv, PoolTypeOK', Good(rpc'), Link(rpc', pool'.served), ~Away(rpc'), ~Quiet(rpc),
         pool'.want = pool.want, pool'.clean = pool.clean
  PROVE  PInv'
BY DEF PInv, Recovers, Rests

\* The calls of the application.
LEMMA CallPInv ==
  ASSUME PInv, StartListen \/ StopListen \/ SwitchToPool \/ UpdateProxy \/ SubmitShare, Good(rpc')
  PROVE  PInv'
<1>0. /\ Good(rpc) /\ Link(rpc, pool.served) /\ pool.served \in BOOLEAN /\ PoolTypeOK
      /\ pool.worker => ~Away(rpc)
  BY DEF PInv, PoolTypeOK
<1>1. CASE StartListen
  <2>1. /\ PoolTypeOK' /\ pool'.want = "run"
        /\ pool'.worker = pool.worker /\ pool'.served = pool.served
    BY <1>0, <1>1 DEF StartListen, PoolTypeOK
  <2>2. Link(rpc', pool.served) /\ ~Away(rpc')
    <3>1. CASE pool.worker
      BY <1>0, <1>1, <3>1 DEF StartListen
    <3>2. CASE ~pool.worker
      BY <1>0, <1>1, <3>2, ConnectLink DEF StartListen, Away
    <3>3. QED
      BY <3>1, <3>2
  <2>3. QED
    BY <2>1, <2>2 DEF PInv, Recovers, Rests
<1> DEFINE d == DisconnectFromHost(rpc)
<1>2. /\ Good(d) /\ Link(d, pool.served) /\ d.sock = "Unconnected" /\ ~d.connectTimer
      /\ d.requestTimer = rpc.requestTimer /\ d.posted = rpc.posted /\ d.reading = rpc.reading
  BY <1>0, DisconnectLink, DisconnectGood
<1>3. CASE StopListen
  <2>1. /\ PoolTypeOK' /\ pool'.want = "stop" /\ ~pool'.worker /\ ~pool'.loginTimer
        /\ pool'.served = pool.served
        /\ pool'.clean = (~rpc.requestTimer /\ rpc.posted = <<>>)
    BY <1>0, <1>3 DEF StopListen, Stopped, PoolTypeOK
  <2>2. rpc' = d /\ ~rpc.reading
    BY <1>3 DEF StopListen, Idle
  <2>3. pool'.clean => Quiet(rpc')
    BY <1>2, <2>1, <2>2 DEF Quiet, Away
  <2>4. QED
    BY <1>2, <2>1, <2>2, <2>3 DEF PInv, Recovers, Rests
<1>4. CASE SwitchToPool \/ UpdateProxy
  <2>1. /\ PoolTypeOK' /\ pool'.served = pool.served /\ (pool'.want = "run" \/ ~pool'.clean)
    BY <1>0, <1>4 DEF SwitchToPool, UpdateProxy, Stopped, PoolTypeOK
  <2>2. rpc' = ConnectToHost(d, FALSE)
    BY <1>4 DEF SwitchToPool, UpdateProxy
  <2> HIDE DEF d
  <2>3. Link(rpc', pool.served) /\ ~Away(rpc')
    BY <1>0, <1>2, <2>2, ConnectLink DEF Away
  <2>4. QED
    BY <2>1, <2>3 DEF PInv, Recovers, Rests
<1>5. CASE SubmitShare
  <2>1. rpc' = Post(rpc, "eth_submitWork") /\ pool' = pool /\ pool.worker
    BY <1>5 DEF SubmitShare
  <2>2. Link(rpc', pool.served) /\ \A x \in Fields \ {"posted"} : rpc'[x] = rpc[x]
    BY <1>0, <2>1, PostLink, PoolAssumption DEF PoolMethods
  <2>3. ~Away(rpc') /\ ~Quiet(rpc)
    BY <1>0, <2>1, <2>2 DEF Away, Quiet, Fields
  <2>4. PoolTypeOK' /\ pool'.served = pool.served
    BY <1>0, <2>1 DEF PoolTypeOK
  <2>5. QED
    BY <2>1, <2>2, <2>3, <2>4, Awake
<1>6. QED
  BY <1>1, <1>3, <1>4, <1>5

\* The lines that are read.
LEMMA LinePInv ==
  ASSUME PInv, Login \/ GetJob \/ OtherAnswer \/ ShareError \/ SleepError, Good(rpc')
  PROVE  PInv'
<1> DEFINE c == Processed
<1>0. /\ Good(rpc) /\ Link(rpc, pool.served) /\ pool.served \in BOOLEAN /\ PoolTypeOK
      /\ rpc.lines # <<>>
  BY DEF PInv, PoolTypeOK, Login, GetJob, OtherAnswer, ShareError, SleepError, NextLine, NextResult
<1>1. Good(c) /\ Link(c, pool.served) /\ c.reading /\ rpc.reading
  BY <1>0, ProcessDataLink, ProcessDataGood DEF Processed
<1>2. /\ PoolTypeOK' /\ pool'.served = pool.served
      /\ pool'.want = pool.want /\ pool'.clean = pool.clean
  BY <1>0 DEF Login, GetJob, OtherAnswer, ShareError, SleepError, Stopped, PoolTypeOK
<1>3. rpc' \in {c, Reset(c, FALSE), DisconnectFromHost(c), Post(Reset(c, FALSE), "eth_getWork")}
  BY DEF Login, GetJob, OtherAnswer, ShareError, SleepError, SetNewJob
<1> HIDE DEF c
<1>4. Link(rpc', pool.served) /\ rpc'.reading
  <2>1. CASE rpc' = c
    BY <1>1, <2>1
  <2>2. CASE rpc' = Reset(c, FALSE)
    BY <1>0, <1>1, <2>2, ResetLink
  <2>3. CASE rpc' = DisconnectFromHost(c)
    BY <1>0, <1>1, <2>3, DisconnectLink
  <2>4. CASE rpc' = Post(Reset(c, FALSE), "eth_getWork")
    <3> DEFINE e == Reset(c, FALSE)
    <3>1. Good(e) /\ Link(e, pool.served) /\ e.reading
      BY <1>0, <1>1, ResetLink
    <3>2. "eth_getWork" \in Methods /\ "reading" \in Fields \ {"posted"}
      BY PoolAssumption DEF PoolMethods, Fields
    <3> HIDE DEF e
    <3>3. Link(Post(e, "eth_getWork"), pool.served) /\ Post(e, "eth_getWork")["reading"] = e["reading"]
      BY <1>0, <3>1, <3>2, PostLink
    <3>4. QED
      BY <2>4, <3>1, <3>3 DEF e
  <2>5. QED
    BY <1>3, <2>1, <2>2, <2>3, <2>4
<1>5. ~Away(rpc') /\ ~Quiet(rpc)
  BY <1>1, <1>4 DEF Away, Quiet
<1>6. QED
  BY <1>2, <1>4, <1>5, Awake

\* The timers, the socket and the pool.
LEMMA SlotPInv ==
  ASSUME PInv, Good(rpc'),
         \/ LoginTimer \/ OnConnected \/ OnSocketError
         \/ OwnSlot
         \/ PoolNotifies \/ PoolIgnores \/ \E type \in {"result", "error"} : PoolAnswers(type)
  PROVE  PInv'
<1>0. Good(rpc) /\ Link(rpc, pool.served) /\ pool.served \in BOOLEAN /\ PoolTypeOK
  BY DEF PInv, PoolTypeOK
<1>a. "login" \in Methods
  BY PoolAssumption DEF PoolMethods
<1>b. pool' = pool => PoolTypeOK'
  BY <1>0 DEF PoolTypeOK
<1>1. CASE LoginTimer
  <2>1. rpc' = Post(rpc, "login") /\ pool' = pool /\ pool.loginTimer
    BY <1>1 DEF LoginTimer
  <2>2. Link(rpc', pool.served) /\ rpc'.posted # <<>>
    BY <1>0, <1>a, <2>1, PostLink
  <2>3. pool.worker => ~Away(rpc')
    <3>1. \A x \in Fields \ {"posted"} : rpc'[x] = rpc[x]
      BY <1>0, <1>a, <2>1, PostLink
    <3>2. QED
      BY <3>1 DEF PInv, Away, Fields
  <2>4. QED
    BY <1>b, <2>1, <2>2, <2>3 DEF PInv, Recovers, Rests
<1>2. CASE OnConnected
  <2> DEFINE e == Post(rpc, "login")
  <2>1. Good(e) /\ Link(e, pool.served) /\ e.posted # <<>>
    BY <1>0, <1>a, PostGood, PostLink
  <2>2. e.sock = "Connecting" /\ ~e.reading
    <3>1. e.sock = rpc.sock /\ e.reading = rpc.reading
      BY <1>0 DEF Post, Good, Shape, Fields
    <3>2. QED
      BY <1>2, <3>1 DEF OnConnected, Idle
  <2>3. /\ rpc' = Connected(e) /\ PoolTypeOK' /\ pool'.served = FALSE
        /\ pool'.want = pool.want /\ pool'.clean = pool.clean
    BY <1>0, <1>2 DEF OnConnected, PoolTypeOK
  <2> HIDE DEF e
  <2>4. Link(rpc', FALSE) /\ Up(rpc')
    BY <1>0, <2>1, <2>2, <2>3, ConnectedLink
  <2>5. ~Away(rpc') /\ ~Quiet(rpc)
    BY <1>2, <2>4 DEF Away, Quiet, Up, OnConnected
  <2>6. QED
    BY <2>3, <2>4, <2>5, Awake
<1>3. CASE OnSocketError
  <2>1. /\ rpc' = SocketError(rpc) /\ PoolTypeOK' /\ pool'.served = pool.served
        /\ pool'.want = pool.want /\ pool'.clean = pool.clean
    BY <1>0, <1>3 DEF OnSocketError, PoolTypeOK
  <2>2. Link(rpc', pool.served) /\ rpc'.connectTimer
    BY <1>0, <2>1, SocketErrorLink
  <2>3. ~Away(rpc') /\ ~Quiet(rpc)
    BY <1>3, <2>2 DEF Away, Quiet, OnSocketError
  <2>4. QED
    BY <2>1, <2>2, <2>3, Awake
<1>4. CASE OwnSlot
  <2>1. Transport /\ pool' = pool
    BY <1>4 DEF OwnSlot, Transport
  <2>2. Link(rpc', pool.served) /\ ~Away(rpc') /\ ~Quiet(rpc)
    BY <1>0, <2>1, TransportLink, QuietStays
  <2>3. QED
    BY <1>b, <2>1, <2>2, Awake
<1>5. CASE PoolNotifies \/ PoolIgnores \/ \E type \in {"result", "error"} : PoolAnswers(type)
  <2>1. /\ PoolTypeOK' /\ pool'.want = pool.want /\ pool'.clean = pool.clean
        /\ Link(rpc', pool'.served) /\ Still(rpc, rpc') /\ Up(rpc)
    <3>1. CASE PoolNotifies
      <4>1. pool' = pool /\ Link(rpc, TRUE) /\ pool.served = TRUE /\ Notify
        BY <1>0, <3>1 DEF PoolNotifies
      <4>2. QED
        BY <1>0, <1>b, <4>1, NotifyLink
    <3>2. CASE PoolIgnores
      <4>1. pool' = pool /\ IgnoreRequest
        BY <3>2 DEF PoolIgnores
      <4>2. QED
        BY <1>0, <1>b, <4>1, IgnoreLink
    <3>3. ASSUME NEW type \in {"result", "error"}, PoolAnswers(type)
          PROVE  /\ PoolTypeOK' /\ pool'.want = pool.want /\ pool'.clean = pool.clean
                 /\ Link(rpc', pool'.served) /\ Still(rpc, rpc') /\ Up(rpc)
      <4> DEFINE w == pool.served \/ (Head(rpc.toServer).method = "login" /\ type = "result")
      <4>1. /\ Answer(type) /\ pool' = [pool EXCEPT !.served = w]
            /\ type = "result" => w
        BY <3>3 DEF PoolAnswers
      <4>2. w \in BOOLEAN /\ (pool.served => w) /\ (w \/ type = "error")
        BY <4>1
      <4> HIDE DEF w
      <4>3. /\ PoolTypeOK' /\ pool'.want = pool.want /\ pool'.clean = pool.clean
            /\ pool'.served = w
        BY <1>0, <4>1, <4>2 DEF PoolTypeOK
      <4>4. Link(rpc', w) /\ Still(rpc, rpc') /\ Up(rpc)
        BY <1>0, <4>1, <4>2, AnswerLink
      <4>5. QED
        BY <4>3, <4>4
    <3>4. QED
      BY <1>5, <3>1, <3>2, <3>3
  <2>2. ~Away(rpc') /\ ~Quiet(rpc)
    BY <2>1 DEF Still, Up, Away, Quiet
  <2>3. QED
    BY <2>1, <2>2, Awake
<1>6. QED
  BY <1>1, <1>2, <1>3, <1>4, <1>5

LEMMA StepPInv ==
  ASSUME PInv, [PoolNext]_vars
  PROVE  PInv'
<1>1. CASE PoolNext
  <2>1. Good(rpc')
    <3>1. CASE RpcNext
      BY <3>1, StepGood DEF IInv, PInv
    <3>2. CASE rpc' = rpc
      BY <3>2 DEF PInv
    <3>3. QED
      BY <1>1, <3>1, <3>2, StepIsRpc
  <2>2. QED
    BY <1>1, <2>1, CallPInv, LinePInv, SlotPInv DEF PoolNext
<1>2. CASE UNCHANGED vars
  BY <1>2 DEF vars, PInv, PoolTypeOK, Recovers, Rests
<1>3. QED
  BY <1>1, <1>2

LEMMA AlwaysPInv == PoolSpec => []PInv
<1>1. PInv /\ [PoolNext]_vars => PInv'
  BY StepPInv
<1>2. QED
  BY <1>1, InitPInv, PTL DEF PoolSpec

-----------------------------------------------------------------------------
(* The properties *)

\* A client that is to mine always has something under way that leads to a login, and until
\* one is answered, a connection has the request timer running or a call to write.
THEOREM SpecPoolNeverStranded == PoolSpec => []PoolNeverStranded
<1>1. PInv => PoolNeverStranded
  <2> SUFFICES ASSUME PInv, pool.want = "run" PROVE PoolNeverStranded
    BY DEF PoolNeverStranded
  <2>1. rpc.sock \in {"Unconnected", "Connecting", "Connected"}
    BY DEF PInv, Good, Shape
  <2>2. CASE Away(rpc)
    BY <2>2 DEF PInv, Recovers, Away, PoolNeverStranded
  <2>3. CASE ~Away(rpc) /\ rpc.sock # "Connected"
    BY <2>1, <2>3 DEF Away, PoolNeverStranded
  <2>4. CASE rpc.sock = "Connected"
    BY <2>4 DEF PInv, Link, Up, PoolNeverStranded
  <2>5. QED
    BY <2>2, <2>3, <2>4
<1>2. QED
  BY <1>1, AlwaysPInv, PTL

\* A worker id never outlives its connection without a way to another.
THEOREM SpecWorkerHasConnection == PoolSpec => []WorkerHasConnection
<1>1. PInv => WorkerHasConnection
  BY DEF PInv, Away, WorkerHasConnection
<1>2. QED
  BY <1>1, AlwaysPInv, PTL

\* A stop that leaves nothing behind is final.
THEOREM SpecPoolStopIsFinal == PoolSpec => []PoolStopIsFinal
<1>1. PInv => PoolStopIsFinal
  BY DEF PInv, Rests, Quiet, Away, PoolStopIsFinal
<1>2. QED
  BY <1>1, AlwaysPInv, PTL
-----------------------------------------------------------------------------
(* The queue moves *)

FInv == Flow(rpc, pool.miscounted)

\* The calls of the application.
LEMMA CallFlow ==
  ASSUME PInv, FInv, StartListen \/ StopListen \/ SwitchToPool \/ UpdateProxy \/ SubmitShare
  PROVE  FInv'
<1>0. /\ Good(rpc) /\ Link(rpc, pool.served) /\ pool.served \in BOOLEAN
      /\ pool.miscounted \in BOOLEAN /\ Flow(rpc, pool.miscounted) /\ PoolTypeOK
  BY DEF PInv, PoolTypeOK, FInv
<1>1. CASE StartListen
  <2> DEFINE w == pool.miscounted \/ (Up(rpc) /\ rpc'.toWrite < rpc.unsent)
  <2>1. pool'.miscounted = w /\ w \in BOOLEAN
    BY <1>0, <1>1 DEF StartListen, PoolTypeOK, Up
  <2>2. Flow(rpc', w)
    <3>1. CASE pool.worker
      <4>1. rpc' = rpc
        BY <1>1, <3>1 DEF StartListen
      <4>2. QED
        BY <1>0, <4>1 DEF Flow
    <3>2. CASE ~pool.worker
      <4>1. rpc' = ConnectToHost(rpc, FALSE)
        BY <1>1, <3>2 DEF StartListen
      <4>2. QED
        BY <1>0, <2>1, <4>1, ConnectFlow
    <3>3. QED
      BY <3>1, <3>2
  <2>3. QED
    BY <2>1, <2>2 DEF FInv
<1>2. CASE StopListen \/ SwitchToPool \/ UpdateProxy
  <2>1. pool'.miscounted \in BOOLEAN
    BY <1>0, <1>2 DEF StopListen, SwitchToPool, UpdateProxy, Stopped, PoolTypeOK
  <2>2. rpc' \in {DisconnectFromHost(rpc), ConnectToHost(DisconnectFromHost(rpc), FALSE)}
    BY <1>2 DEF StopListen, SwitchToPool, UpdateProxy
  <2>3. QED
    BY <1>0, <2>1, <2>2, DropFlow DEF FInv
<1>3. CASE SubmitShare
  <2>1. rpc' = Post(rpc, "eth_submitWork") /\ pool' = pool
    BY <1>3 DEF SubmitShare
  <2>2. "eth_submitWork" \in Methods
    BY PoolAssumption DEF PoolMethods
  <2>3. QED
    BY <1>0, <2>1, <2>2, PostFlow DEF FInv
<1>4. QED
  BY <1>1, <1>2, <1>3

\* The lines that are read.
LEMMA LineFlow ==
  ASSUME PInv, FInv, Login \/ GetJob \/ OtherAnswer \/ ShareError \/ SleepError
  PROVE  FInv'
<1> DEFINE c == Processed
<1>0. /\ Good(rpc) /\ Link(rpc, pool.served) /\ pool.served \in BOOLEAN
      /\ pool.miscounted \in BOOLEAN /\ Flow(rpc, pool.miscounted) /\ PoolTypeOK
      /\ rpc.lines # <<>>
  BY DEF PInv, PoolTypeOK, FInv, Login, GetJob, OtherAnswer, ShareError, SleepError,
         NextLine, NextResult
<1>1. Good(c) /\ Link(c, pool.served) /\ Flow(c, pool.miscounted)
  BY <1>0, ProcessDataLink, ProcessDataGood, ProcessDataFlow DEF Processed
<1>2. pool'.miscounted = pool.miscounted
  BY <1>0 DEF Login, GetJob, OtherAnswer, ShareError, SleepError, Stopped, PoolTypeOK
<1>3. rpc' \in {c, Reset(c, FALSE), DisconnectFromHost(c), Post(Reset(c, FALSE), "eth_getWork")}
  BY DEF Login, GetJob, OtherAnswer, ShareError, SleepError, SetNewJob
<1> HIDE DEF c
<1>4. Flow(Reset(c, FALSE), pool.miscounted) /\ Flow(DisconnectFromHost(c), pool.miscounted)
  BY <1>0, <1>1, ResetFlow, DropFlow
<1>5. Flow(Post(Reset(c, FALSE), "eth_getWork"), pool.miscounted)
  <2>1. Good(Reset(c, FALSE)) /\ Link(Reset(c, FALSE), pool.served)
    BY <1>0, <1>1, ResetLink
  <2>2. "eth_getWork" \in Methods
    BY PoolAssumption DEF PoolMethods
  <2>3. QED
    BY <1>0, <1>4, <2>1, <2>2, PostFlow
<1>6. QED
  BY <1>1, <1>2, <1>3, <1>4, <1>5 DEF FInv

\* The timers, the connection, the client's own slots and the pool.
LEMMA SlotFlow ==
  ASSUME PInv, FInv,
         \/ LoginTimer \/ OnConnected \/ OnSocketError
         \/ OwnSlot
         \/ PoolNotifies \/ PoolIgnores \/ \E type \in {"result", "error"} : PoolAnswers(type)
  PROVE  FInv'
<1>0. /\ Good(rpc) /\ Link(rpc, pool.served) /\ pool.served \in BOOLEAN
      /\ pool.miscounted \in BOOLEAN /\ Flow(rpc, pool.miscounted) /\ PoolTypeOK
  BY DEF PInv, PoolTypeOK, FInv
<1>a. "login" \in Methods
  BY PoolAssumption DEF PoolMethods
<1>1. CASE LoginTimer
  <2>1. rpc' = Post(rpc, "login") /\ pool' = pool
    BY <1>1 DEF LoginTimer
  <2>2. QED
    BY <1>0, <1>a, <2>1, PostFlow DEF FInv
<1>2. CASE OnConnected
  <2> DEFINE e == Post(rpc, "login")
  <2>1. Good(e) /\ Link(e, pool.served) /\ e.posted # <<>>
    BY <1>0, <1>a, PostGood, PostLink
  <2>2. e.sock = "Connecting" /\ ~e.reading
    <3>1. e.sock = rpc.sock /\ e.reading = rpc.reading
      BY <1>0 DEF Post, Good, Shape, Fields
    <3>2. QED
      BY <1>2, <3>1 DEF OnConnected, Idle
  <2>3. rpc' = Connected(e) /\ pool'.miscounted = FALSE
    BY <1>0, <1>2 DEF OnConnected, PoolTypeOK
  <2> HIDE DEF e
  <2>4. QED
    BY <1>0, <2>1, <2>2, <2>3, ConnectedFlow DEF FInv
<1>3. CASE OnSocketError
  <2>1. rpc' = SocketError(rpc) /\ pool'.miscounted = pool.miscounted
    BY <1>0, <1>3 DEF OnSocketError, PoolTypeOK
  <2>2. QED
    BY <1>0, <2>1, DropFlow DEF FInv
<1>4. CASE OwnSlot
  <2>1. Transport /\ pool' = pool
    BY <1>4 DEF OwnSlot, Transport
  <2>2. QED
    BY <1>0, <2>1, TransportFlow DEF FInv
<1>5. CASE PoolNotifies \/ PoolIgnores \/ \E type \in {"result", "error"} : PoolAnswers(type)
  <2>1. Server
    BY <1>5 DEF PoolNotifies, PoolIgnores, PoolAnswers, Server
  <2>2. pool'.miscounted = pool.miscounted
    BY <1>0, <1>5 DEF PoolNotifies, PoolIgnores, PoolAnswers, PoolTypeOK
  <2>3. QED
    BY <1>0, <2>1, <2>2, ServerFlow DEF FInv
<1>6. QED
  BY <1>1, <1>2, <1>3, <1>4, <1>5

LEMMA AlwaysFInv == PoolSpec => []FInv
<1>1. PoolInit => FInv
  BY EmptyFlow DEF PoolInit, RpcInit, FInv, Flow, Exact, Up
<1>2. PInv /\ FInv /\ [PoolNext]_vars => FInv'
  <2>1. CASE UNCHANGED vars
    BY <2>1 DEF vars, FInv
  <2>2. CASE PoolNext
    BY <2>2, CallFlow, LineFlow, SlotFlow DEF PoolNext
  <2>3. QED
    BY <2>1, <2>2
<1>3. QED
  BY <1>1, <1>2, AlwaysPInv, PTL DEF PoolSpec

\* No request is left in the queue with nothing that would write or drop it, unless a
\* start on a live connection made the client forget the bytes it had written.
THEOREM SpecPoolQueueMoves == PoolSpec => []PoolQueueMoves
<1>1. PInv /\ FInv => PoolQueueMoves
  <2> SUFFICES ASSUME PInv, FInv, rpc.queue # <<>>, ~pool.miscounted PROVE PoolQueueMoves
    BY DEF PoolQueueMoves
  <2>1. /\ rpc.sock # "Unconnected" \/ rpc.connectTimer
        /\ Exact(rpc) /\ (Up(rpc) => rpc.posted # <<>> \/ rpc.toWrite = 1)
    BY DEF FInv, Flow
  <2>2. rpc.sock \in {"Unconnected", "Connecting", "Connected"}
    BY DEF PInv, Good, Shape
  <2>3. CASE rpc.sock = "Unconnected"
    BY <2>1, <2>3 DEF PoolQueueMoves
  <2>4. CASE rpc.sock = "Connecting"
    BY <2>4 DEF PoolQueueMoves
  <2>5. CASE rpc.sock = "Connected"
    BY <2>1, <2>5 DEF PoolQueueMoves, Exact, Up
  <2>6. QED
    BY <2>2, <2>3, <2>4, <2>5
<1>2. QED
  BY <1>1, AlwaysPInv, AlwaysFInv, PTL
=============================================================================
