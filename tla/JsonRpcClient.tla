--------------------------- MODULE JsonRpcClient ---------------------------
(***************************************************************************)
(* The JSON-RPC client the pool clients derive from: one TCP connection, a *)
(* queue of requests not yet written, a map of requests that wait for an   *)
(* answer, a timer that guards the answer (10 s, single shot) and a timer  *)
(* that reconnects (3 s, repeating).                                       *)
(*                                                                         *)
(* The client lives in one thread: every slot runs to its end, except that *)
(* readyRead calls back into the adapter after each line, and the adapter  *)
(* may reset the client, disconnect it or ask for requests.  So the slots  *)
(* are operators from the state of the client to its next state, which the *)
(* actions here and those of StratumClient compose, and readyRead is a     *)
(* loop of steps.                                                          *)
(*                                                                         *)
(* A request is its id and its method.  Ids count up in the code; here the *)
(* next id is one that no message holds any longer, which keeps the model  *)
(* finite and cannot be told apart.  Host name lookup is part of           *)
(* "Connecting", and all requests have the same length, 1.                 *)
(***************************************************************************)
EXTENDS Integers, Sequences, SequencesExt, FiniteSets

CONSTANTS
  Methods,    \* the methods of the adapter
  Ids,        \* bound: ids in use at the same time
  MaxLines,   \* bound: lines on their way from the server
  MaxUnsent   \* bound: bytes unsent when the application calls connectToHost

ASSUME JsonRpcAssumption ==
  /\ Ids \subseteq Nat \ {0}
  /\ MaxLines \in Nat \ {0} /\ MaxUnsent \in Nat \ {0}

VARIABLE rpc

Request == [id : Ids, method : Methods]

\* A line of the server's.  A notification has no id, written 0; answers to is the
\* method of the request the server answers, which the client does not see.
Line == [id : Ids \cup {0}, type : {"result", "error", "notification"}, answers : Methods \cup {"none"}]

RpcInit ==
  rpc = [sock |-> "Unconnected",
         connectTimer |-> FALSE, requestTimer |-> FALSE,
         posted |-> <<>>,         \* jsonRpcMethod calls in the event queue
         queue |-> <<>>,          \* m_req_queue
         inProgress |-> {},       \* m_req_in_progress
         toWrite |-> 0,           \* m_bytes_to_write
         unsent |-> 0,            \* bytes the socket has yet to report as written
         toServer |-> <<>>, fromServer |-> <<>>,
         reading |-> FALSE,       \* in readyRead's loop
         lines |-> <<>>]          \* what its QTextStream has buffered

-----------------------------------------------------------------------------
(* The slots *)

IdsInUse(c) ==
  {r.id : r \in ToSet(c.queue) \cup c.inProgress \cup ToSet(c.toServer)
                \cup ToSet(c.fromServer) \cup ToSet(c.lines)}

FreshId(c) == CHOOSE i \in Ids \ IdsInUse(c) : TRUE

\* An adapter signal: it reaches jsonRpcMethod through queued connections.
Post(c, method) == [c EXCEPT !.posted = Append(@, method)]

\* QAbstractSocket::abort: what is on its way is gone; the text stream keeps its buffer.
Abort(c) ==
  [c EXCEPT !.sock = "Unconnected", !.unsent = 0, !.toServer = <<>>, !.fromServer = <<>>]

\* Mutation of Reset: the requests that wait for an answer are kept.
ResetKeepingSent(c, full) == [c EXCEPT !.queue = <<>>]

Reset(c, full) ==
  [c EXCEPT !.queue = <<>>, !.inProgress = IF full THEN {} ELSE @]

\* Mutation of ConnectToHost: m_bytes_to_write survives the connection.
ConnectKeepingCounter(c, byTimer) ==
  [c EXCEPT !.sock = IF @ = "Connected" \/ (c.connectTimer /\ ~byTimer) THEN @ ELSE "Connecting"]

\* An attempt under way is aborted and begun again.
ConnectToHost(c, byTimer) ==
  [c EXCEPT !.toWrite = 0,
            !.sock = IF @ = "Connected" \/ (c.connectTimer /\ ~byTimer) THEN @ ELSE "Connecting"]

\* Mutation of DisconnectFromHost: the connect timer runs on.
DisconnectKeepingTimer(c) == Reset(Abort(c), TRUE)

\* The request timer is left as it is.
DisconnectFromHost(c) == Reset(Abort([c EXCEPT !.connectTimer = FALSE]), TRUE)

\* Mutation of SendRequest: the request written stays at the head of the queue.
SendWithoutDequeue(c) ==
  CASE c.connectTimer                    -> c
    [] ~c.connectTimer /\ c.sock # "Connected" -> ConnectToHost(c, FALSE)
    [] OTHER -> IF c.toWrite > 0 \/ c.queue = <<>> THEN c
                ELSE LET r == Head(c.queue)
                     IN  [c EXCEPT !.inProgress = @ \cup {r}, !.toWrite = 1,
                                   !.unsent = @ + 1, !.toServer = Append(@, r),
                                   !.requestTimer = TRUE]

\* One request at a time, when the one before it has left the socket's buffer.
SendRequest(c) ==
  CASE c.connectTimer                    -> c
    [] ~c.connectTimer /\ c.sock # "Connected" -> ConnectToHost(c, FALSE)
    [] OTHER -> IF c.toWrite > 0 \/ c.queue = <<>> THEN c
                ELSE LET r == Head(c.queue)
                     IN  [c EXCEPT !.queue = Tail(@), !.inProgress = @ \cup {r},
                                   !.toWrite = 1, !.unsent = @ + 1,
                                   !.toServer = Append(@, r), !.requestTimer = TRUE]

JsonRpcMethod(c) ==
  SendRequest([c EXCEPT !.posted = Tail(@),
                        !.queue = Append(@, [id |-> FreshId(c), method |-> Head(c.posted)])])

\* sendRequest runs before the connect timer is stopped, and returns if it is active.
Connected(c) ==
  [SendRequest([c EXCEPT !.sock = "Connected"]) EXCEPT !.connectTimer = FALSE]

BytesWritten(c, n) ==
  LET written == [c EXCEPT !.unsent = @ - n, !.toWrite = @ - n]
  IN  IF written.toWrite = 0 THEN SendRequest(written) ELSE written

\* Mutation of SocketError: the request timer runs on.
SocketErrorKeepingTimer(c) == [Reset(Abort(c), TRUE) EXCEPT !.connectTimer = TRUE]

\* The socket has failed: error().
SocketError(c) ==
  [Reset(Abort(c), TRUE) EXCEPT !.requestTimer = FALSE, !.connectTimer = TRUE]

\* Mutation of ResetRequest: the slot waits for the next request to reconnect.
ResetOnly(c) == Reset(Abort([c EXCEPT !.requestTimer = FALSE]), TRUE)

ResetRequest(c) ==
  ConnectToHost(Reset(Abort([c EXCEPT !.requestTimer = FALSE]), TRUE), FALSE)

\* The request a line answers; none, if the client no longer waits for it.
Answered(c, line) == {r \in c.inProgress : r.id = line.id}

\* processData up to the call of the adapter.  Only an answer without an error
\* stops the request timer.
ProcessData(c, line) ==
  [c EXCEPT !.lines = Tail(@),
            !.inProgress = @ \ Answered(c, line),
            !.requestTimer = @ /\ line.type # "result"]

\* The end of readyRead.
EndRead(c) == SendRequest([c EXCEPT !.reading = FALSE])

-----------------------------------------------------------------------------
(* The actions that do not call the adapter *)

Idle == ~rpc.reading

HandleJsonRpcMethod ==
  Idle /\ rpc.posted # <<>> /\ Ids \ IdsInUse(rpc) # {} /\ rpc' = JsonRpcMethod(rpc)

HandleBytesWritten ==
  Idle /\ \E n \in 1..rpc.unsent : rpc' = BytesWritten(rpc, n)

HandleConnectTimer == Idle /\ rpc.connectTimer /\ rpc' = ConnectToHost(rpc, TRUE)

HandleRequestTimer == Idle /\ rpc.requestTimer /\ rpc' = ResetRequest(rpc)

\* Some of the lines that are on their way have arrived.
BeginRead ==
  /\ Idle /\ rpc.fromServer # <<>>
  /\ \E n \in 1..Len(rpc.fromServer) :
       rpc' = [rpc EXCEPT !.reading = TRUE,
                          !.lines = SubSeq(rpc.fromServer, 1, n),
                          !.fromServer = SubSeq(@, n + 1, Len(@))]

HandleEndRead == rpc.reading /\ rpc.lines = <<>> /\ rpc' = EndRead(rpc)

\* The server answers requests in the order it gets them, or never.
Answer(type) ==
  /\ Idle /\ rpc.toServer # <<>> /\ Len(rpc.fromServer) < MaxLines
  /\ LET r == Head(rpc.toServer)
     IN  rpc' = [rpc EXCEPT !.toServer = Tail(@),
                            !.fromServer = Append(@, [id |-> r.id, type |-> type,
                                                      answers |-> r.method])]

IgnoreRequest ==
  Idle /\ rpc.toServer # <<>> /\ rpc' = [rpc EXCEPT !.toServer = Tail(@)]

Notify ==
  /\ Idle /\ rpc.sock = "Connected" /\ Len(rpc.fromServer) < MaxLines
  /\ rpc' = [rpc EXCEPT !.fromServer = Append(@, [id |-> 0, type |-> "notification",
                                                  answers |-> "none"])]

Transport ==
  \/ HandleJsonRpcMethod \/ HandleBytesWritten \/ HandleConnectTimer \/ HandleRequestTimer
  \/ BeginRead \/ HandleEndRead

-----------------------------------------------------------------------------
(* The client with any adapter *)

\* What an adapter may do when it is called: the client and the calls it posts.
MaybePost(c) == {c} \cup {Post(c, m) : m \in Methods}
Reactions(c) ==
  UNION {MaybePost(d) : d \in {c, Reset(c, FALSE), Reset(c, TRUE), DisconnectFromHost(c)}}

HandleConnected ==
  Idle /\ rpc.sock = "Connecting" /\ \E c \in MaybePost(rpc) : rpc' = Connected(c)

HandleSocketError == Idle /\ rpc.sock # "Unconnected" /\ rpc' = SocketError(rpc)

HandleLine == rpc.lines # <<>> /\ rpc' \in Reactions(ProcessData(rpc, Head(rpc.lines)))

\* connectToHost, disconnectFromHost, setProxy and requests of the application's.
Application ==
  /\ Idle
  /\ \/ rpc.unsent < MaxUnsent /\ rpc' = ConnectToHost(rpc, FALSE)
     \/ rpc' \in {DisconnectFromHost(rpc), ConnectToHost(DisconnectFromHost(rpc), FALSE)}
     \/ rpc' \in MaybePost(rpc)

Server == IgnoreRequest \/ Notify \/ \E type \in {"result", "error"} : Answer(type)

RpcNext == Transport \/ Server \/ HandleConnected \/ HandleSocketError \/ HandleLine \/ Application

RpcSpec == RpcInit /\ [][RpcNext]_rpc

-----------------------------------------------------------------------------
(* Properties *)

\* The types of the client's fields.
RpcTypeOK ==
  rpc \in [sock : {"Unconnected", "Connecting", "Connected"},
           connectTimer : BOOLEAN, requestTimer : BOOLEAN, posted : Seq(Methods),
           queue : Seq(Request), inProgress : SUBSET Request, toWrite : Int, unsent : Nat,
           toServer : Seq(Request), fromServer : Seq(Line), reading : BOOLEAN,
           lines : Seq(Line)]

\* m_bytes_to_write never waits for bytes the socket will not report: while the
\* client is connected it is at most what the socket still has to write, or
\* sendRequest would hold every further request back.
WriteAccounted == rpc.sock = "Connected" => rpc.toWrite <= rpc.unsent

\* The connect timer and the request timer exclude each other: while the client
\* waits to reconnect, no request of its is out.
TimersExclude == ~(rpc.connectTimer /\ rpc.requestTimer)

\* A request is never both to be written and waiting for its answer, and no two
\* requests share an id: each is written at most once.
WrittenOnce ==
  /\ \A r \in ToSet(rpc.queue), s \in rpc.inProgress : r.id # s.id
  /\ \A i, j \in DOMAIN rpc.queue : i # j => rpc.queue[i].id # rpc.queue[j].id

\* What a client promises about its requests, and a connection: the abstract
\* specification this one implements.
Life ==
  INSTANCE Requests WITH
    open <- rpc.sock = "Connected",
    queue <- [k \in DOMAIN rpc.queue |-> rpc.queue[k].id],
    waiting <- {r.id : r \in rpc.inProgress}

\* Requests are written in order, once, on a live connection, and settled at most
\* once, whatever the adapter, the timers and the server do.
RequestsKept == Life!Spec
=============================================================================
