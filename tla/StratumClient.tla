--------------------------- MODULE StratumClient ---------------------------
(***************************************************************************)
(* The CryptoNote pool client, a JsonRpcClient whose adapter logs in,      *)
(* receives jobs and submits shares.  Its slots run inside the slots of    *)
(* JsonRpcClient, so an action here is a JsonRpcClient action with the     *)
(* adapter's reaction made definite, and the specification implements      *)
(* RpcSpec.                                                                *)
(*                                                                         *)
(* stop() is called by the application and by error(); after an error the  *)
(* client sleeps until its login timer asks for a login, which connects.   *)
(*                                                                         *)
(* Jobs and shares carry no data here: what matters is which requests live *)
(* and die with a job, a session and a connection.                         *)
(***************************************************************************)
EXTENDS JsonRpcClient

CONSTANT MaxPending \* bound: calls posted and requests queued, by the timer, by shares and by their rejection

VARIABLE pool

vars == <<rpc, pool>>

StratumMethods == {"login", "getjob", "submit"}

ASSUME StratumAssumption == Methods = StratumMethods /\ MaxPending \in Nat \ {0}

Pending(c) == Len(c.posted) + Len(c.queue)

StratumInit ==
  /\ RpcInit
  /\ pool = [session |-> FALSE,     \* m_current_session_id is not null
             loginTimer |-> FALSE,
             served |-> FALSE,      \* history: the pool has answered this connection's login
             miscounted |-> FALSE,  \* history: start() forgot bytes of this connection
             want |-> "stop",       \* history: the application's last start or stop
             clean |-> TRUE]        \* history: the last stop left nothing behind

-----------------------------------------------------------------------------
(* The application *)

Start ==
  /\ Idle /\ rpc.unsent < MaxUnsent
  /\ rpc' = IF pool.session THEN rpc ELSE ConnectToHost(rpc, FALSE)
  /\ pool' = [pool EXCEPT !.want = "run",
                          !.miscounted = @ \/ (rpc.sock = "Connected" /\ rpc'.toWrite < rpc.unsent)]

\* Mutation of Stopped: the session id is kept.
StoppedKeepingSession(p) == [p EXCEPT !.loginTimer = FALSE]

\* What stop() does to the pool client's own fields.
Stopped(p) == [p EXCEPT !.session = FALSE, !.loginTimer = FALSE]

Stop ==
  /\ Idle
  /\ rpc' = DisconnectFromHost(rpc)
  /\ pool' = [Stopped(pool) EXCEPT !.want = "stop",
                                   !.clean = ~rpc.requestTimer /\ rpc.posted = <<>>]

\* To another pool: stop(), setUrl(), start().
SwitchToPool ==
  /\ Idle
  /\ rpc' = ConnectToHost(DisconnectFromHost(rpc), FALSE)
  /\ pool' = [Stopped(pool) EXCEPT !.want = "run"]

\* updateProxy: JsonRpcClient::setProxy, which knows of no session.
UpdateProxy ==
  /\ Idle
  /\ rpc' = ConnectToHost(DisconnectFromHost(rpc), FALSE)
  /\ pool' = [pool EXCEPT !.clean = FALSE]

SubmitShare ==
  /\ Idle /\ pool.session /\ Pending(rpc) < MaxPending
  /\ rpc' = Post(rpc, "submit")
  /\ UNCHANGED pool

-----------------------------------------------------------------------------
(* The slots *)

LoginTimer ==
  /\ Idle /\ pool.loginTimer /\ Pending(rpc) < MaxPending
  /\ rpc' = Post(rpc, "login")
  /\ UNCHANGED pool

\* Mutation of OnConnected: only a client without a session logs in.
OnConnectedWithoutSession ==
  /\ Idle /\ rpc.sock = "Connecting" /\ Len(rpc.posted) < MaxPending
  /\ rpc' = Connected(IF pool.session THEN rpc ELSE Post(rpc, "login"))
  /\ pool' = [pool EXCEPT !.served = FALSE, !.miscounted = FALSE]

\* tryLogin
OnConnected ==
  /\ Idle /\ rpc.sock = "Connecting" /\ Len(rpc.posted) < MaxPending
  /\ rpc' = Connected(Post(rpc, "login"))
  /\ pool' = [pool EXCEPT !.served = FALSE, !.miscounted = FALSE]

OnSocketError ==
  /\ Idle /\ rpc.sock # "Unconnected"
  /\ rpc' = SocketError(rpc)
  /\ pool' = [pool EXCEPT !.session = FALSE]

\* The next line is of this type.
NextLine(type) == rpc.lines # <<>> /\ Head(rpc.lines).type = type

\* The next line is the result of a request of this method.
NextResult(method) ==
  NextLine("result") /\ \E r \in Answered(rpc, Head(rpc.lines)) : r.method = method

Processed == ProcessData(rpc, Head(rpc.lines))

\* setNewJob: a new job drops the requests not yet written, the same one does not.
SetNewJob == rpc' \in {Processed, Reset(Processed, FALSE)}

Login ==
  /\ NextResult("login")
  /\ \/ /\ SetNewJob
        /\ pool' = [pool EXCEPT !.session = TRUE, !.loginTimer = FALSE]
     \/ /\ rpc' = Processed
        /\ pool' = [pool EXCEPT !.loginTimer = FALSE]

GetJob ==
  /\ NextResult("getjob") \/ NextLine("notification")
  /\ SetNewJob
  /\ UNCHANGED pool

\* submit(), answers that answer nothing, and an error with the code NoError, which
\* a pool may send to a client it serves.
OtherAnswer ==
  /\ \/ NextResult("submit")
     \/ NextLine("error") /\ pool.served
     \/ NextLine("result") /\ Answered(rpc, Head(rpc.lines)) = {}
  /\ rpc' = Processed
  /\ UNCHANGED pool

\* A rejected share: the requests not yet written are dropped, a job is asked for.
\* The pool so answers a share of a client it knows, and nothing else.
ShareError ==
  /\ NextLine("error") /\ Head(rpc.lines).answers = "submit" /\ pool.served
  /\ rpc' = Post(Reset(Processed, FALSE), "getjob")
  /\ UNCHANGED pool

\* Mutation of SleepError: the socket is aborted and the requests stay.
SleepErrorKeepingRequests ==
  /\ NextLine("error")
  /\ rpc' = Abort(Processed)
  /\ pool' = [Stopped(pool) EXCEPT !.loginTimer = TRUE]

\* Any other error: stop() and the login timer.
SleepError ==
  /\ NextLine("error")
  /\ rpc' = DisconnectFromHost(Processed)
  /\ pool' = [Stopped(pool) EXCEPT !.loginTimer = TRUE]

\* The slots of JsonRpcClient that do not reach the adapter.
Handle(slot) ==
  /\ CASE slot = "call"    -> HandleJsonRpcMethod
       [] slot = "bytes"   -> HandleBytesWritten
       [] slot = "connect" -> HandleConnectTimer
       [] slot = "request" -> HandleRequestTimer
       [] slot = "read"    -> BeginRead
       [] slot = "end"     -> HandleEndRead
  /\ UNCHANGED pool

Slots == {"call", "bytes", "connect", "request", "read", "end"}

-----------------------------------------------------------------------------
(* The pool: it serves a connection once it has answered its login.  The      *)
(* client asks for a job for each share the pool rejects, hence the bound.   *)

PoolAnswers(type) ==
  /\ Answer(type)
  /\ LET login == Head(rpc.toServer).method = "login"
     IN  /\ IF type = "result" THEN login \/ pool.served ELSE login \/ Pending(rpc) < MaxPending
         /\ pool' = [pool EXCEPT !.served = @ \/ (login /\ type = "result")]

PoolNotifies == pool.served /\ Notify /\ UNCHANGED pool

PoolIgnores == IgnoreRequest /\ UNCHANGED pool

StratumNext ==
  \/ Start \/ Stop \/ SwitchToPool \/ UpdateProxy \/ SubmitShare
  \/ LoginTimer \/ OnConnected \/ OnSocketError
  \/ Login \/ GetJob \/ OtherAnswer \/ ShareError \/ SleepError
  \/ \E slot \in Slots : Handle(slot)
  \/ PoolNotifies \/ PoolIgnores \/ \E type \in {"result", "error"} : PoolAnswers(type)

StratumSpec == StratumInit /\ [][StratumNext]_vars

\* readyRead ends, and the event loop comes back to the timers and the posted calls;
\* although lines keep arriving, to the bytes written and to the calls posted while
\* the client is connected; and the host can be reached again and again.  Nothing
\* makes the application act or the pool answer, nor the login timer fire.
FairStratumSpec ==
  /\ StratumSpec
  /\ WF_vars(Login \/ GetJob \/ OtherAnswer \/ ShareError \/ SleepError)
  /\ \A slot \in {"read", "end", "call", "connect", "request"} : WF_vars(Handle(slot))
  /\ SF_vars(Handle("bytes"))
  /\ SF_vars(rpc.sock = "Connected" /\ Handle("call"))
  /\ SF_vars(OnConnected)

-----------------------------------------------------------------------------
(* Properties *)

\* While the application wants to mine, the client is never left with nothing that will
\* ever move it: disconnected, it has a timer, a posted call or the end of readyRead to
\* come; connected, and until the pool has answered a login on this connection, it has
\* the request timer running, whichever answers have stopped it, or a call to write,
\* which starts it.  An answered login, be it refused, ends the promise.
NeverStranded ==
  pool.want = "run" =>
    /\ rpc.sock = "Unconnected" =>
         \/ rpc.connectTimer \/ rpc.requestTimer \/ pool.loginTimer
         \/ rpc.posted # <<>> \/ rpc.reading
    /\ rpc.sock = "Connected" /\ ~pool.served => rpc.requestTimer \/ rpc.posted # <<>>

\* A session without a connection makes start() return early, so there is none
\* unless the client is on its way to a new connection.
SessionHasConnection ==
  pool.session => rpc.sock # "Unconnected" \/ rpc.connectTimer \/ rpc.reading

\* A stop that finds no request in flight and no call posted is final: the client
\* stays disconnected with its timers off until it is started again.
CleanStopIsFinal ==
  pool.want = "stop" /\ pool.clean
  => rpc.sock = "Unconnected" /\ ~rpc.connectTimer /\ ~pool.loginTimer /\ ~pool.session

\* While the application wants to mine the client logs in again and again: there is
\* a live connection that has a login to write or to be answered, or has been
\* answered, or the application stops mining.
LoginRequested ==
  (pool.want = "run")
    ~> \/ pool.want = "stop"
       \/ /\ rpc.sock = "Connected"
          /\ pool.served \/ \E r \in ToSet(rpc.queue) \cup rpc.inProgress : r.method = "login"

\* A request that was asked for is written or dropped: it does not stay in the queue,
\* unless start() was called on a live connection and zeroed the count of its bytes,
\* which then passes by 0 and does not send the next request.
QueueDrains ==
  \A i \in Ids : (\E r \in ToSet(rpc.queue) : r.id = i)
                ~> pool.miscounted \/ ~\E r \in ToSet(rpc.queue) : r.id = i

\* A request in the queue has what will write or drop it: a connection on its way, a call
\* posted, which sends the oldest request first, or bytes the socket has yet to report.
\* (The connect timer that brought the connection holds the first request back.)
QueueMoves ==
  rpc.queue # <<>> /\ ~pool.miscounted =>
    CASE rpc.sock = "Unconnected" -> rpc.connectTimer
      [] rpc.sock = "Connecting"  -> TRUE
      [] rpc.sock = "Connected"   -> rpc.posted # <<>> \/ (rpc.toWrite > 0 /\ rpc.toWrite = rpc.unsent)

\* "disconnect and sleep...": after an error the client does not connect again in
\* the same pass of readyRead.
SleepsAfterError ==
  [][pool.loginTimer /\ rpc.sock = "Unconnected" /\ rpc'.sock # "Unconnected" => ~rpc.reading]_vars
=============================================================================
