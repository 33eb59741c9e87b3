----------------------------- MODULE PoolClient -----------------------------
(***************************************************************************)
(* The Ethereum pool client: the second adapter of JsonRpcClient.  It runs *)
(* in a thread of its own, PoolThread, whose event loop delivers what the  *)
(* MinerImpl asks (start, stop, another pool, a share) as queued calls,    *)
(* each of which runs between two slots: here, when the client is idle.    *)
(*                                                                         *)
(* Unlike the CryptoNote client it keeps a worker id that a notification   *)
(* may set as well as a login, and drops the requests not yet written at   *)
(* every job.  The signals to the MinerImpl are outputs and left out.      *)
(***************************************************************************)
EXTENDS JsonRpcClient

CONSTANT MaxPending \* bound: calls posted and requests queued

VARIABLE pool

vars == <<rpc, pool>>

PoolMethods == {"login", "eth_getWork", "eth_submitWork"}

ASSUME PoolAssumption == Methods = PoolMethods /\ MaxPending \in Nat \ {0}

Pending(c) == Len(c.posted) + Len(c.queue)

PoolInit ==
  /\ RpcInit
  /\ pool = [worker |-> FALSE,      \* m_currentWorkerId is not null
             loginTimer |-> FALSE,
             served |-> FALSE,      \* history: the pool has answered this connection's login
             miscounted |-> FALSE,  \* history: startListen forgot bytes of this connection
             want |-> "stop",       \* history: the application's last start or stop
             clean |-> TRUE]        \* history: the last stop left nothing behind

-----------------------------------------------------------------------------
(* The calls PoolThread delivers *)

StartListen ==
  /\ Idle /\ rpc.unsent < MaxUnsent
  /\ rpc' = IF pool.worker THEN rpc ELSE ConnectToHost(rpc, FALSE)
  /\ pool' = [pool EXCEPT !.want = "run",
                          !.miscounted = @ \/ (rpc.sock = "Connected" /\ rpc'.toWrite < rpc.unsent)]

\* What stop() does to the pool client's own fields.
Stopped(p) == [p EXCEPT !.worker = FALSE, !.loginTimer = FALSE]

StopListen ==
  /\ Idle
  /\ rpc' = DisconnectFromHost(rpc)
  /\ pool' = [Stopped(pool) EXCEPT !.want = "stop",
                                   !.clean = ~rpc.requestTimer /\ rpc.posted = <<>>]

\* To a pool with another URL: stop(), setUrl(), start().
SwitchToPool ==
  /\ Idle
  /\ rpc' = ConnectToHost(DisconnectFromHost(rpc), FALSE)
  /\ pool' = [Stopped(pool) EXCEPT !.want = "run"]

\* setProxy, which knows of no worker.
UpdateProxy ==
  /\ Idle
  /\ rpc' = ConnectToHost(DisconnectFromHost(rpc), FALSE)
  /\ pool' = [pool EXCEPT !.clean = FALSE]

SubmitShare ==
  /\ Idle /\ pool.worker /\ Pending(rpc) < MaxPending
  /\ rpc' = Post(rpc, "eth_submitWork")
  /\ UNCHANGED pool

-----------------------------------------------------------------------------
(* The slots *)

LoginTimer ==
  /\ Idle /\ pool.loginTimer /\ Pending(rpc) < MaxPending
  /\ rpc' = Post(rpc, "login")
  /\ UNCHANGED pool

\* tryLogin
OnConnected ==
  /\ Idle /\ rpc.sock = "Connecting" /\ Len(rpc.posted) < MaxPending
  /\ rpc' = Connected(Post(rpc, "login"))
  /\ pool' = [pool EXCEPT !.served = FALSE, !.miscounted = FALSE]

OnSocketError ==
  /\ Idle /\ rpc.sock # "Unconnected"
  /\ rpc' = SocketError(rpc)
  /\ pool' = [pool EXCEPT !.worker = FALSE]

NextLine(type) == rpc.lines # <<>> /\ Head(rpc.lines).type = type

\* The next line is the result of a request of this method.
NextResult(method) ==
  NextLine("result") /\ \E r \in Answered(rpc, Head(rpc.lines)) : r.method = method

Processed == ProcessData(rpc, Head(rpc.lines))

\* setNewJob: every job drops the requests not yet written.
SetNewJob == rpc' = Reset(Processed, FALSE)

Login ==
  /\ NextResult("login")
  /\ SetNewJob
  /\ pool' = [pool EXCEPT !.worker = TRUE, !.loginTimer = FALSE]

\* A job may name a worker.
GetJob ==
  /\ NextResult("eth_getWork") \/ NextLine("notification")
  /\ SetNewJob
  /\ \E named \in BOOLEAN : pool' = [pool EXCEPT !.worker = @ \/ named]

\* submit(), answers that answer nothing, and an error with the code NoError.
OtherAnswer ==
  /\ \/ NextResult("eth_submitWork")
     \/ NextLine("error") /\ pool.served
     \/ NextLine("result") /\ Answered(rpc, Head(rpc.lines)) = {}
  /\ rpc' = Processed
  /\ UNCHANGED pool

\* A rejected share: the requests not yet written are dropped, work is asked for.
ShareError ==
  /\ NextLine("error") /\ Head(rpc.lines).answers = "eth_submitWork" /\ pool.served
  /\ rpc' = Post(Reset(Processed, FALSE), "eth_getWork")
  /\ UNCHANGED pool

\* Any other error: stop() and the login timer.
SleepError ==
  /\ NextLine("error")
  /\ rpc' = DisconnectFromHost(Processed)
  /\ pool' = [Stopped(pool) EXCEPT !.loginTimer = TRUE]

\* The slots of JsonRpcClient that do not reach the adapter.
OwnSlot ==
  /\ \/ HandleJsonRpcMethod \/ HandleBytesWritten \/ HandleConnectTimer
     \/ HandleRequestTimer \/ BeginRead \/ HandleEndRead
  /\ UNCHANGED pool

-----------------------------------------------------------------------------
(* The pool: it serves a connection once it has answered its login. *)

PoolAnswers(type) ==
  /\ Answer(type)
  /\ LET login == Head(rpc.toServer).method = "login"
     IN  /\ IF type = "result" THEN login \/ pool.served ELSE login \/ Pending(rpc) < MaxPending
         /\ pool' = [pool EXCEPT !.served = @ \/ (login /\ type = "result")]

PoolNotifies == pool.served /\ Notify /\ UNCHANGED pool

PoolIgnores == IgnoreRequest /\ UNCHANGED pool

PoolNext ==
  \/ StartListen \/ StopListen \/ SwitchToPool \/ UpdateProxy \/ SubmitShare
  \/ LoginTimer \/ OnConnected \/ OnSocketError
  \/ Login \/ GetJob \/ OtherAnswer \/ ShareError \/ SleepError \/ OwnSlot
  \/ PoolNotifies \/ PoolIgnores \/ \E type \in {"result", "error"} : PoolAnswers(type)

PoolSpec == PoolInit /\ [][PoolNext]_vars

-----------------------------------------------------------------------------
(* Properties *)

\* While the application wants to mine, and although each job drops the requests in the
\* queue, a login among them, the client is never left with nothing that will ever move
\* it: disconnected, it has a timer, a posted call or the end of readyRead to come;
\* connected, and until the pool has answered a login on this connection, it has the
\* request timer running or a call to write, which starts it.
PoolNeverStranded ==
  pool.want = "run" =>
    /\ rpc.sock = "Unconnected" =>
         \/ rpc.connectTimer \/ rpc.requestTimer \/ pool.loginTimer
         \/ rpc.posted # <<>> \/ rpc.reading
    /\ rpc.sock = "Connected" /\ ~pool.served => rpc.requestTimer \/ rpc.posted # <<>>

\* startListen returns early when there is a worker id.  A line read after error()
\* has stopped the client may set the id again, so the id says little; but it is
\* never left without a connection that is up or on its way.
WorkerHasConnection ==
  pool.worker => rpc.sock # "Unconnected" \/ rpc.connectTimer \/ rpc.reading

\* A stop that finds no request in flight and no call posted is final: the client
\* stays disconnected with its timers off until it is started again.
PoolStopIsFinal ==
  pool.want = "stop" /\ pool.clean
  => rpc.sock = "Unconnected" /\ ~rpc.connectTimer /\ ~pool.loginTimer /\ ~pool.worker

\* A request in the queue has what will write or drop it: a connection on its way, a call
\* posted, which sends the oldest request first, or bytes the socket has yet to report;
\* unless startListen was called on a live connection and zeroed the count of its bytes.
PoolQueueMoves ==
  rpc.queue # <<>> /\ ~pool.miscounted =>
    CASE rpc.sock = "Unconnected" -> rpc.connectTimer
      [] rpc.sock = "Connecting"  -> TRUE
      [] rpc.sock = "Connected"   -> rpc.posted # <<>> \/ (rpc.toWrite > 0 /\ rpc.toWrite = rpc.unsent)
=============================================================================
