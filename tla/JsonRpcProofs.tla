--------------------------- MODULE JsonRpcProofs ---------------------------
(* Proofs about JsonRpcClient, for any methods, ids and bounds, and for any *)
(* adapter.                                                                *)
EXTENDS JsonRpcClient, SequenceTheorems, TLAPS

-----------------------------------------------------------------------------
(* The inductive invariant, of a state c of the client *)

Fields ==
  {"sock", "connectTimer", "requestTimer", "posted", "queue", "inProgress", "toWrite",
   "unsent", "toServer", "fromServer", "reading", "lines"}

Shape(c) ==
  /\ c = [x \in Fields |-> c[x]]
  /\ c.sock \in {"Unconnected", "Connecting", "Connected"}
  /\ c.connectTimer \in BOOLEAN /\ c.requestTimer \in BOOLEAN /\ c.reading \in BOOLEAN
  /\ c.posted \in Seq(Methods)
  /\ c.queue \in Seq(Request) /\ c.inProgress \in SUBSET Request
  /\ c.toWrite \in Int /\ c.unsent \in Nat
  /\ c.toServer \in Seq(Request) /\ c.fromServer \in Seq(Line) /\ c.lines \in Seq(Line)

\* The count is right from the beginning of an attempt to connect, not only on a
\* connection; a lost connection leaves it as it was.
Counted(c) == c.sock # "Unconnected" => c.toWrite <= c.unsent

OneTimer(c) == ~(c.connectTimer /\ c.requestTimer)

Distinct(c) ==
  /\ \A i \in 1..Len(c.queue), s \in c.inProgress : c.queue[i].id # s.id
  /\ \A i, j \in 1..Len(c.queue) : i # j => c.queue[i].id # c.queue[j].id

Good(c) == Shape(c) /\ Counted(c) /\ OneTimer(c) /\ Distinct(c)

IInv == Good(rpc)

\* A shape is a record of the type invariant's.
LEMMA ShapeIsType ==
  Shape(rpc) => RpcTypeOK
BY DEF Shape, Fields, RpcTypeOK

\* An empty sequence is one of any type.
LEMMA Empty ==
  /\ <<>> \in Seq(Request) /\ <<>> \in Seq(Line)
  /\ 1..Len(<<>>) = {}
OBVIOUS

\* A client with nothing to write has nothing to write twice.
LEMMA EmptyDistinct ==
  ASSUME NEW c, c.queue = <<>>
  PROVE  Distinct(c)
BY Empty DEF Distinct

-----------------------------------------------------------------------------
(* What each slot keeps, and what it does to the requests *)

Up(c) == c.sock = "Connected"

\* The requests are as they were.
Same(c, d) == d.queue = c.queue /\ d.inProgress = c.inProgress /\ (Up(d) <=> Up(c))

\* They are given up, perhaps with the connection.
Cleared(c, d) == d.queue = <<>> /\ d.inProgress = {} /\ (Up(d) => Up(c))

\* The oldest one may have been written.
Sent(c, d) ==
  /\ Up(d) <=> Up(c)
  /\ \/ d.queue = c.queue /\ d.inProgress = c.inProgress
     \/ /\ Up(c) /\ c.queue # <<>>
        /\ d.queue = Tail(c.queue) /\ d.inProgress = c.inProgress \cup {Head(c.queue)}

\* A call that is posted.
LEMMA PostGood ==
  ASSUME NEW c, Good(c), NEW m \in Methods
  PROVE  Good(Post(c, m)) /\ Same(c, Post(c, m))
<1>1. Append(c.posted, m) \in Seq(Methods)
  BY DEF Good, Shape
<1>2. Shape(Post(c, m))
  BY <1>1 DEF Good, Shape, Fields, Post
<1>3. QED
  BY <1>2 DEF Good, Shape, Fields, Counted, OneTimer, Distinct, Post, Same, Up

\* The connection is given up, and with it all requests: from any count.
LEMMA AbortGood ==
  ASSUME NEW c, Shape(c), OneTimer(c)
  PROVE  Good(Reset(Abort(c), TRUE)) /\ Cleared(c, Reset(Abort(c), TRUE))
<1> DEFINE d == Reset(Abort(c), TRUE)
<1>1. d = [c EXCEPT !.sock = "Unconnected", !.unsent = 0, !.toServer = <<>>, !.fromServer = <<>>,
                    !.queue = <<>>, !.inProgress = {}]
  BY DEF Reset, Abort, Shape, Fields
<1> HIDE DEF d
<1>2. /\ d = [x \in Fields |-> d[x]]
      /\ d.queue = <<>> /\ d.inProgress = {} /\ d.sock = "Unconnected" /\ d.unsent = 0
      /\ d.toServer = <<>> /\ d.fromServer = <<>> /\ d.toWrite = c.toWrite
      /\ d.posted = c.posted /\ d.reading = c.reading /\ d.lines = c.lines
      /\ d.connectTimer = c.connectTimer /\ d.requestTimer = c.requestTimer
  BY <1>1 DEF Shape, Fields
<1>3. d.sock \in {"Unconnected", "Connecting", "Connected"} /\ d.unsent \in Nat /\ d.toWrite \in Int
  BY <1>2 DEF Shape
<1>4. d.connectTimer \in BOOLEAN /\ d.requestTimer \in BOOLEAN /\ d.reading \in BOOLEAN
  BY <1>2 DEF Shape
<1>5. d.queue \in Seq(Request) /\ d.inProgress \in SUBSET Request /\ d.posted \in Seq(Methods)
  BY <1>2, Empty DEF Shape
<1>6. d.toServer \in Seq(Request) /\ d.fromServer \in Seq(Line) /\ d.lines \in Seq(Line)
  BY <1>2, Empty DEF Shape
<1>7. Shape(d)
  BY <1>2, <1>3, <1>4, <1>5, <1>6 DEF Shape
<1>8. QED
  BY <1>2, <1>7, EmptyDistinct DEF Good, Counted, OneTimer, Cleared, Up, d

\* Requests that are dropped.
LEMMA ResetGood ==
  ASSUME NEW c, Good(c), NEW full \in BOOLEAN
  PROVE  Good(Reset(c, full))
<1> DEFINE d == Reset(c, full)
<1>1. Shape(d) /\ d.queue = <<>> /\ d.sock = c.sock /\ d.toWrite = c.toWrite /\ d.unsent = c.unsent
      /\ d.connectTimer = c.connectTimer /\ d.requestTimer = c.requestTimer
  BY Empty DEF Good, Shape, Fields, Reset
<1>2. Distinct(d)
  BY <1>1, EmptyDistinct
<1>3. QED
  BY <1>1, <1>2 DEF Good, Counted, OneTimer

\* An attempt to connect: the count begins at 0, and on a live connection it does not grow.
LEMMA ConnectGood ==
  ASSUME NEW c, Good(c), NEW byTimer \in BOOLEAN
  PROVE  LET d == ConnectToHost(c, byTimer)
         IN  Good(d) /\ Same(c, d)
<1> DEFINE d == ConnectToHost(c, byTimer)
           sock == IF c.sock = "Connected" \/ (c.connectTimer /\ ~byTimer) THEN c.sock ELSE "Connecting"
<1>0. sock \in {"Unconnected", "Connecting", "Connected"} /\ (sock = "Connected" <=> c.sock = "Connected")
  BY DEF Good, Shape
<1>a. d = [c EXCEPT !.toWrite = 0, !.sock = sock]
  BY DEF ConnectToHost
<1> HIDE DEF d, sock
<1>1. /\ Shape(d) /\ d.toWrite = 0 /\ d.unsent = c.unsent
      /\ d.queue = c.queue /\ d.inProgress = c.inProgress
      /\ d.connectTimer = c.connectTimer /\ d.requestTimer = c.requestTimer
      /\ (d.sock = "Connected") <=> (c.sock = "Connected")
  <2>1. /\ d = [x \in Fields |-> d[x]]
        /\ d.sock = sock /\ d.toWrite = 0 /\ d.unsent = c.unsent
        /\ d.queue = c.queue /\ d.inProgress = c.inProgress
        /\ d.connectTimer = c.connectTimer /\ d.requestTimer = c.requestTimer
        /\ d.posted = c.posted /\ d.toServer = c.toServer /\ d.fromServer = c.fromServer
        /\ d.reading = c.reading /\ d.lines = c.lines
    BY <1>a DEF Good, Shape, Fields
  <2>2. QED
    BY <1>0, <2>1 DEF Good, Shape
<1>2. Counted(d)
  BY <1>1 DEF Counted, Shape
<1>3. QED
  BY <1>1, <1>2 DEF Good, OneTimer, Distinct, Same, Up, d

\* The timers are of no concern to the rest.
LEMMA TimersGood ==
  ASSUME NEW c, Good(c), NEW a \in BOOLEAN, NEW b \in BOOLEAN, ~(a /\ b),
         NEW d, d = [c EXCEPT !.connectTimer = a, !.requestTimer = b]
  PROVE  Good(d) /\ Same(c, d)
<1>1. /\ d = [x \in Fields |-> d[x]]
      /\ d.sock = c.sock /\ d.toWrite = c.toWrite /\ d.unsent = c.unsent
      /\ d.queue = c.queue /\ d.inProgress = c.inProgress
      /\ d.connectTimer = a /\ d.requestTimer = b
      /\ d.posted = c.posted /\ d.toServer = c.toServer /\ d.fromServer = c.fromServer
      /\ d.reading = c.reading /\ d.lines = c.lines
  BY DEF Good, Shape, Fields
<1>2. Shape(d)
  BY <1>1 DEF Good, Shape
<1>3. QED
  BY <1>1, <1>2 DEF Good, Counted, OneTimer, Distinct, Same, Up

\* A request is written when nothing is left to write: the count is 1, and 1 at least
\* is unsent; the request guarded by the timer; and its id is no other's.
LEMMA WriteGood ==
  ASSUME NEW c, Good(c), ~c.connectTimer, Up(c), ~(c.toWrite > 0), c.queue # <<>>
  PROVE  LET r == Head(c.queue)
             d == [c EXCEPT !.queue = Tail(@), !.inProgress = @ \cup {r}, !.toWrite = 1,
                            !.unsent = @ + 1, !.toServer = Append(@, r), !.requestTimer = TRUE]
         IN  Good(d) /\ Sent(c, d)
<1> DEFINE r == Head(c.queue)
           q == Tail(c.queue)
           s == Append(c.toServer, r)
           d == [c EXCEPT !.queue = Tail(@), !.inProgress = @ \cup {r}, !.toWrite = 1,
                          !.unsent = @ + 1, !.toServer = Append(@, r), !.requestTimer = TRUE]
<1>1. c.queue \in Seq(Request) /\ c.toServer \in Seq(Request) /\ c.queue # <<>>
  BY DEF Good, Shape
<1>2. /\ r \in Request /\ q \in Seq(Request) /\ s \in Seq(Request)
      /\ 1 \in 1..Len(c.queue) /\ r = c.queue[1]
      /\ \A i \in 1..Len(q) : i + 1 \in 1..Len(c.queue) /\ i + 1 # 1 /\ q[i] = c.queue[i + 1]
  BY <1>1
<1>3. /\ d = [x \in Fields |-> d[x]]
      /\ d.sock = c.sock /\ d.toWrite = 1 /\ d.unsent = c.unsent + 1
      /\ d.queue = q /\ d.inProgress = c.inProgress \cup {r}
      /\ d.connectTimer = c.connectTimer /\ d.requestTimer = TRUE
      /\ d.posted = c.posted /\ d.toServer = s /\ d.fromServer = c.fromServer
      /\ d.reading = c.reading /\ d.lines = c.lines
  BY DEF Good, Shape, Fields
<1> HIDE DEF d, q, r, s
<1>4. Shape(d)
  <2>1. c.inProgress \cup {r} \in SUBSET Request
    BY <1>2 DEF Good, Shape
  <2>2. c.unsent + 1 \in Nat /\ 1 \in Int
    BY DEF Good, Shape
  <2>3. QED
    BY <1>2, <1>3, <2>1, <2>2 DEF Good, Shape
<1>5. Distinct(d)
  <2>1. \A i \in 1..Len(q), t \in c.inProgress \cup {r} : q[i].id # t.id
    <3> SUFFICES ASSUME NEW i \in 1..Len(q), NEW t \in c.inProgress \cup {r}
                 PROVE  q[i].id # t.id
      OBVIOUS
    <3>1. i + 1 \in 1..Len(c.queue) /\ i + 1 # 1 /\ q[i] = c.queue[i + 1]
      BY <1>2
    <3>2. Distinct(c) /\ 1 \in 1..Len(c.queue) /\ r = c.queue[1]
      BY <1>2 DEF Good
    <3>3. CASE t = r
      BY <3>1, <3>2, <3>3 DEF Distinct
    <3>4. CASE t \in c.inProgress
      BY <3>1, <3>2, <3>4 DEF Distinct
    <3>5. QED
      BY <3>3, <3>4
  <2>2. \A i, j \in 1..Len(q) : i # j => q[i].id # q[j].id
    <3> SUFFICES ASSUME NEW i \in 1..Len(q), NEW j \in 1..Len(q), i # j
                 PROVE  q[i].id # q[j].id
      OBVIOUS
    <3>1. i + 1 # j + 1
      OBVIOUS
    <3>2. QED
      BY <1>2, <3>1 DEF Good, Distinct
  <2>3. QED
    BY <1>3, <2>1, <2>2 DEF Distinct
<1>6. Counted(d) /\ OneTimer(d)
  BY <1>3 DEF Good, Shape, Counted, OneTimer
<1>7. QED
  BY <1>3, <1>4, <1>5, <1>6 DEF Good, Sent, Up, d, q, r, s

\* sendRequest: it waits, connects or writes.
LEMMA SendGood ==
  ASSUME NEW c, Good(c)
  PROVE  Good(SendRequest(c)) /\ Sent(c, SendRequest(c))
<1>1. CASE c.connectTimer
  BY <1>1 DEF SendRequest, Sent
<1>2. CASE ~c.connectTimer /\ ~Up(c)
  BY <1>2, ConnectGood DEF SendRequest, Sent, Same, Up
<1>3. CASE ~c.connectTimer /\ Up(c) /\ (c.toWrite > 0 \/ c.queue = <<>>)
  BY <1>3 DEF SendRequest, Sent, Up
<1>4. CASE ~c.connectTimer /\ Up(c) /\ ~(c.toWrite > 0) /\ c.queue # <<>>
  BY <1>4, WriteGood DEF SendRequest, Up
<1>5. QED
  BY <1>1, <1>2, <1>3, <1>4

\* A request that was asked for gets an id of its own, and may be written.
Asked(c, d) ==
  \E q \in {c.queue} \cup
           {Append(c.queue, r) : r \in {x \in Request : x.id \notin IdsInUse(c)}} :
    Sent([c EXCEPT !.queue = q], d)

LEMMA AppendGood ==
  ASSUME NEW c, Good(c), NEW r \in Request, r.id \notin IdsInUse(c), NEW p \in Seq(Methods)
  PROVE  Good([c EXCEPT !.posted = p, !.queue = Append(@, r)])
<1> DEFINE q == Append(c.queue, r)
           d == [c EXCEPT !.posted = p, !.queue = Append(@, r)]
<1>1. c.queue \in Seq(Request)
  BY DEF Good, Shape
<1>2. /\ q \in Seq(Request) /\ Len(q) = Len(c.queue) + 1 /\ Len(c.queue) \in Nat
      /\ \A i \in 1..Len(c.queue) : q[i] = c.queue[i]
      /\ q[Len(c.queue) + 1] = r
  BY <1>1
<1>3. /\ d = [x \in Fields |-> d[x]]
      /\ d.sock = c.sock /\ d.toWrite = c.toWrite /\ d.unsent = c.unsent
      /\ d.queue = q /\ d.inProgress = c.inProgress
      /\ d.connectTimer = c.connectTimer /\ d.requestTimer = c.requestTimer
      /\ d.posted = p /\ d.toServer = c.toServer /\ d.fromServer = c.fromServer
      /\ d.reading = c.reading /\ d.lines = c.lines
  BY DEF Good, Shape, Fields
<1>4. /\ \A i \in 1..Len(c.queue) : c.queue[i].id # r.id
      /\ \A s \in c.inProgress : s.id # r.id
  <2>1. \A s \in ToSet(c.queue) \cup c.inProgress : s.id \in IdsInUse(c)
    BY DEF IdsInUse
  <2>2. \A i \in 1..Len(c.queue) : c.queue[i] \in ToSet(c.queue)
    BY <1>1 DEF ToSet
  <2>3. QED
    BY <2>1, <2>2
<1> HIDE DEF d, q
<1>5. Shape(d)
  BY <1>2, <1>3 DEF Good, Shape
<1>6. Distinct(d)
  <2>1. \A i \in 1..Len(q) : i \in 1..Len(c.queue) \/ i = Len(c.queue) + 1
    BY <1>2
  <2>2. \A i \in 1..Len(q), s \in c.inProgress : q[i].id # s.id
    BY <1>2, <1>4, <2>1 DEF Good, Distinct
  <2>3. \A i, j \in 1..Len(q) : i # j => q[i].id # q[j].id
    BY <1>2, <1>4, <2>1 DEF Good, Distinct
  <2>4. QED
    BY <1>3, <2>2, <2>3 DEF Distinct
<1>7. QED
  BY <1>3, <1>5, <1>6 DEF Good, Counted, OneTimer, d

LEMMA JsonRpcMethodGood ==
  ASSUME NEW c, Good(c), c.posted # <<>>, Ids \ IdsInUse(c) # {}
  PROVE  Good(JsonRpcMethod(c)) /\ Asked(c, JsonRpcMethod(c))
<1> DEFINE r == [id |-> FreshId(c), method |-> Head(c.posted)]
           b == [c EXCEPT !.posted = Tail(@), !.queue = Append(@, r)]
           a == [c EXCEPT !.queue = Append(c.queue, r)]
<1>1. FreshId(c) \in Ids \ IdsInUse(c)
  BY DEF FreshId
<1>2. c.posted \in Seq(Methods) /\ Head(c.posted) \in Methods /\ Tail(c.posted) \in Seq(Methods)
  BY DEF Good, Shape
<1>3. r \in Request /\ r.id \notin IdsInUse(c)
  BY <1>1, <1>2 DEF Request
<1>4. Good(b)
  BY <1>2, <1>3, AppendGood
<1>5. JsonRpcMethod(c) = SendRequest(b)
  BY DEF JsonRpcMethod
<1>6. Good(SendRequest(b)) /\ Sent(b, SendRequest(b))
  BY <1>4, SendGood
<1>7. a.queue = b.queue /\ a.inProgress = b.inProgress /\ (Up(a) <=> Up(b))
  BY DEF Good, Shape, Fields, Up
<1>8. Sent(a, SendRequest(b))
  BY <1>6, <1>7 DEF Sent
<1>9. QED
  BY <1>3, <1>5, <1>6, <1>8 DEF Asked

\* A connection that comes up: the oldest request may be written at once.
Opened(c, d) ==
  Up(d) /\ Sent([c EXCEPT !.sock = "Connected"], d)

LEMMA ConnectedGood ==
  ASSUME NEW c, Good(c), c.sock = "Connecting"
  PROVE  Good(Connected(c)) /\ Opened(c, Connected(c))
<1> DEFINE b == [c EXCEPT !.sock = "Connected"]
           d == SendRequest(b)
           e == [d EXCEPT !.connectTimer = FALSE]
<1>1. /\ b = [x \in Fields |-> b[x]]
      /\ b.sock = "Connected" /\ b.toWrite = c.toWrite /\ b.unsent = c.unsent
      /\ b.queue = c.queue /\ b.inProgress = c.inProgress
      /\ b.connectTimer = c.connectTimer /\ b.requestTimer = c.requestTimer
      /\ b.posted = c.posted /\ b.toServer = c.toServer /\ b.fromServer = c.fromServer
      /\ b.reading = c.reading /\ b.lines = c.lines
  BY DEF Good, Shape, Fields
<1>2. Shape(b)
  <2> HIDE DEF b
  <2>1. QED
    BY <1>1 DEF Good, Shape
<1>3. Good(b)
  <2> HIDE DEF b
  <2>1. QED
    BY <1>1, <1>2 DEF Good, Counted, OneTimer, Distinct
<1>4. Good(d) /\ Sent(b, d)
  BY <1>3, SendGood
<1> HIDE DEF b, d
<1>5. e = [d EXCEPT !.connectTimer = FALSE, !.requestTimer = d.requestTimer]
  BY <1>4 DEF Good, Shape, Fields
<1> HIDE DEF e
<1>a. d.requestTimer \in BOOLEAN /\ ~(FALSE /\ d.requestTimer)
  BY <1>4 DEF Good, Shape
<1>6. Good(e) /\ Same(d, e)
  BY <1>4, <1>5, <1>a, TimersGood
<1>7. Connected(c) = e
  BY DEF Connected, b, d, e
<1>8. Up(e) /\ Sent(b, e)
  BY <1>1, <1>4, <1>6 DEF Same, Sent, Up
<1>9. QED
  BY <1>6, <1>7, <1>8 DEF Opened, b

LEMMA BytesWrittenGood ==
  ASSUME NEW c, Good(c), NEW n \in 1..c.unsent
  PROVE  Good(BytesWritten(c, n)) /\ Sent(c, BytesWritten(c, n))
<1> DEFINE b == [c EXCEPT !.unsent = @ - n, !.toWrite = @ - n]
<1>1. c.toWrite \in Int /\ c.unsent \in Nat /\ n \in Int /\ n <= c.unsent
  BY DEF Good, Shape
<1>2. /\ c.toWrite - n \in Int /\ c.unsent - n \in Nat
      /\ c.sock # "Unconnected" => c.toWrite - n <= c.unsent - n
  BY <1>1 DEF Good, Counted
<1>3. /\ b = [x \in Fields |-> b[x]]
      /\ b.sock = c.sock /\ b.toWrite = c.toWrite - n /\ b.unsent = c.unsent - n
      /\ b.queue = c.queue /\ b.inProgress = c.inProgress
      /\ b.connectTimer = c.connectTimer /\ b.requestTimer = c.requestTimer
      /\ b.posted = c.posted /\ b.toServer = c.toServer /\ b.fromServer = c.fromServer
      /\ b.reading = c.reading /\ b.lines = c.lines
  BY DEF Good, Shape, Fields
<1>4. Good(b)
  <2> HIDE DEF b
  <2>1. Shape(b)
    BY <1>2, <1>3 DEF Good, Shape
  <2>2. QED
    BY <1>2, <1>3, <2>1 DEF Good, Counted, OneTimer, Distinct
<1>5. Good(SendRequest(b)) /\ Sent(b, SendRequest(b))
  BY <1>4, SendGood
<1>6. BytesWritten(c, n) \in {b, SendRequest(b)}
  BY DEF BytesWritten
<1> HIDE DEF b
<1>7. Sent(c, b) /\ Sent(c, SendRequest(b))
  BY <1>3, <1>5 DEF Sent, Up
<1>8. QED
  BY <1>4, <1>5, <1>6, <1>7

LEMMA DisconnectGood ==
  ASSUME NEW c, Good(c)
  PROVE  Good(DisconnectFromHost(c)) /\ Cleared(c, DisconnectFromHost(c))
<1> DEFINE b == [c EXCEPT !.connectTimer = FALSE]
<1>1. b = [c EXCEPT !.connectTimer = FALSE, !.requestTimer = c.requestTimer]
  BY DEF Good, Shape, Fields
<1>a. c.connectTimer \in BOOLEAN /\ c.requestTimer \in BOOLEAN
  BY DEF Good, Shape
<1>2. Good(b) /\ Same(c, b)
  <2> HIDE DEF b
  <2>1. QED
    BY <1>1, <1>a, TimersGood
<1>3. QED
  BY <1>2, AbortGood DEF Good, DisconnectFromHost, Same, Cleared

LEMMA ResetRequestGood ==
  ASSUME NEW c, Good(c)
  PROVE  Good(ResetRequest(c)) /\ Cleared(c, ResetRequest(c))
<1> DEFINE b == [c EXCEPT !.requestTimer = FALSE]
           a == Reset(Abort(b), TRUE)
<1>1. b = [c EXCEPT !.connectTimer = c.connectTimer, !.requestTimer = FALSE]
  BY DEF Good, Shape, Fields
<1>a. c.connectTimer \in BOOLEAN /\ c.requestTimer \in BOOLEAN
  BY DEF Good, Shape
<1>2. Good(b) /\ Same(c, b)
  <2> HIDE DEF b
  <2>1. QED
    BY <1>1, <1>a, TimersGood
<1>3. Good(a) /\ Cleared(b, a)
  BY <1>2, AbortGood DEF Good
<1>4. Good(ConnectToHost(a, FALSE)) /\ Same(a, ConnectToHost(a, FALSE))
  BY <1>3, ConnectGood
<1>5. ResetRequest(c) = ConnectToHost(a, FALSE)
  BY DEF ResetRequest
<1>6. QED
  BY <1>2, <1>3, <1>4, <1>5 DEF Same, Cleared

LEMMA SocketErrorGood ==
  ASSUME NEW c, Good(c)
  PROVE  Good(SocketError(c)) /\ Cleared(c, SocketError(c))
<1> DEFINE a == Reset(Abort(c), TRUE)
<1>1. Good(a) /\ Cleared(c, a)
  BY AbortGood DEF Good
<1>2. SocketError(c) = [a EXCEPT !.connectTimer = TRUE, !.requestTimer = FALSE]
  BY <1>1 DEF SocketError, Good, Shape, Fields
<1> HIDE DEF a
<1>3. Good(SocketError(c)) /\ Same(a, SocketError(c))
  BY <1>1, <1>2, TimersGood
<1>4. QED
  BY <1>1, <1>3 DEF Same, Cleared

\* The requests a line answers are settled; those not yet written may be dropped.
Settled(c, d, line) ==
  /\ Up(d) <=> Up(c)
  /\ d.queue \in {c.queue, <<>>}
  /\ d.inProgress = c.inProgress \ Answered(c, line)

LEMMA ProcessDataGood ==
  ASSUME NEW c, Good(c), c.lines # <<>>
  PROVE  LET d == ProcessData(c, Head(c.lines))
         IN  Good(d) /\ Settled(c, d, Head(c.lines))
<1> DEFINE line == Head(c.lines)
           d == ProcessData(c, line)
           timer == c.requestTimer /\ line.type # "result"
<1>1. c.lines \in Seq(Line) /\ Tail(c.lines) \in Seq(Line)
  BY DEF Good, Shape
<1>2. timer \in BOOLEAN /\ (timer => c.requestTimer)
  OBVIOUS
<1>3. Answered(c, line) \subseteq c.inProgress
  BY DEF Answered
<1>4. d = [c EXCEPT !.lines = Tail(c.lines), !.inProgress = c.inProgress \ Answered(c, line),
                    !.requestTimer = timer]
  BY DEF ProcessData, Good, Shape, Fields
<1> HIDE DEF d, line, timer
<1>5. /\ d = [x \in Fields |-> d[x]]
      /\ d.sock = c.sock /\ d.toWrite = c.toWrite /\ d.unsent = c.unsent
      /\ d.queue = c.queue /\ d.inProgress = c.inProgress \ Answered(c, line)
      /\ d.connectTimer = c.connectTimer /\ d.requestTimer = timer
      /\ d.posted = c.posted /\ d.toServer = c.toServer /\ d.fromServer = c.fromServer
      /\ d.reading = c.reading /\ d.lines = Tail(c.lines)
  BY <1>4 DEF Good, Shape, Fields
<1>6. Shape(d)
  BY <1>1, <1>2, <1>3, <1>5 DEF Good, Shape
<1>7. Distinct(d)
  <2>1. Distinct(c)
    BY DEF Good
  <2>2. d.queue = c.queue /\ d.inProgress \subseteq c.inProgress
    BY <1>5
  <2>3. \A i \in 1..Len(c.queue), t \in d.inProgress : c.queue[i].id # t.id
    BY <2>1, <2>2 DEF Distinct
  <2>4. QED
    BY <2>1, <2>2, <2>3 DEF Distinct
<1>8. Counted(d) /\ OneTimer(d)
  BY <1>2, <1>5 DEF Good, Counted, OneTimer
<1>9. QED
  BY <1>5, <1>6, <1>7, <1>8 DEF Good, Settled, Up, d, line

\* What is left of readyRead, and what the socket and the server do to the lines.
LEMMA LinesGood ==
  ASSUME NEW c, Good(c), NEW b \in BOOLEAN, NEW s \in Seq(Request), NEW f \in Seq(Line),
         NEW l \in Seq(Line), NEW d,
         d = [c EXCEPT !.reading = b, !.toServer = s, !.fromServer = f, !.lines = l]
  PROVE  Good(d) /\ Same(c, d)
<1>1. /\ d = [x \in Fields |-> d[x]]
      /\ d.sock = c.sock /\ d.toWrite = c.toWrite /\ d.unsent = c.unsent
      /\ d.queue = c.queue /\ d.inProgress = c.inProgress
      /\ d.connectTimer = c.connectTimer /\ d.requestTimer = c.requestTimer
      /\ d.posted = c.posted /\ d.toServer = s /\ d.fromServer = f
      /\ d.reading = b /\ d.lines = l
  BY DEF Good, Shape, Fields
<1>2. Shape(d)
  BY <1>1 DEF Good, Shape
<1>3. QED
  BY <1>1, <1>2 DEF Good, Counted, OneTimer, Distinct, Same, Up

LEMMA EndReadGood ==
  ASSUME NEW c, Good(c)
  PROVE  Good(EndRead(c)) /\ Sent(c, EndRead(c))
<1> DEFINE b == [c EXCEPT !.reading = FALSE]
<1>1. b = [c EXCEPT !.reading = FALSE, !.toServer = c.toServer, !.fromServer = c.fromServer,
                    !.lines = c.lines]
  BY DEF Good, Shape, Fields
<1>2. c.toServer \in Seq(Request) /\ c.fromServer \in Seq(Line) /\ c.lines \in Seq(Line)
  BY DEF Good, Shape
<1>3. Good(b) /\ Same(c, b)
  <2> HIDE DEF b
  <2>1. QED
    BY <1>1, <1>2, LinesGood
<1>4. Good(SendRequest(b)) /\ Sent(b, SendRequest(b))
  BY <1>3, SendGood
<1>5. EndRead(c) = SendRequest(b)
  BY DEF EndRead
<1> HIDE DEF b
<1>6. QED
  BY <1>3, <1>4, <1>5 DEF Same, Sent

-----------------------------------------------------------------------------
(* The actions: what a step may do to the requests *)

Kinds(c, d) ==
  \/ Same(c, d) \/ Cleared(c, d) \/ Sent(c, d) \/ Asked(c, d)
  \/ ~Up(c) /\ Opened(c, d)
  \/ \E line : Settled(c, d, line)

LEMMA TransportGood ==
  ASSUME IInv, Transport
  PROVE  IInv' /\ Kinds(rpc, rpc')
<1> USE DEF IInv
<1>1. CASE HandleJsonRpcMethod
  BY <1>1, JsonRpcMethodGood DEF HandleJsonRpcMethod, Kinds
<1>2. CASE HandleBytesWritten
  BY <1>2, BytesWrittenGood DEF HandleBytesWritten, Kinds
<1>3. CASE HandleConnectTimer
  BY <1>3, ConnectGood DEF HandleConnectTimer, Kinds
<1>4. CASE HandleRequestTimer
  BY <1>4, ResetRequestGood DEF HandleRequestTimer, Kinds
<1>5. CASE BeginRead
  <2>1. PICK n \in 1..Len(rpc.fromServer) :
          rpc' = [rpc EXCEPT !.reading = TRUE,
                             !.lines = SubSeq(rpc.fromServer, 1, n),
                             !.fromServer = SubSeq(@, n + 1, Len(@))]
    BY <1>5 DEF BeginRead
  <2> DEFINE l == SubSeq(rpc.fromServer, 1, n)
             f == SubSeq(rpc.fromServer, n + 1, Len(rpc.fromServer))
  <2>2. rpc.fromServer \in Seq(Line) /\ rpc.toServer \in Seq(Request)
    BY DEF Good, Shape
  <2>3. l \in Seq(Line) /\ f \in Seq(Line)
    BY <2>2
  <2>4. rpc' = [rpc EXCEPT !.reading = TRUE, !.toServer = rpc.toServer, !.fromServer = f, !.lines = l]
    BY <2>1 DEF Good, Shape, Fields
  <2> HIDE DEF l, f
  <2>5. QED
    BY <2>2, <2>3, <2>4, LinesGood DEF Kinds
<1>6. CASE HandleEndRead
  BY <1>6, EndReadGood DEF HandleEndRead, Kinds
<1>7. QED
  BY <1>1, <1>2, <1>3, <1>4, <1>5, <1>6 DEF Transport

LEMMA ServerGood ==
  ASSUME IInv, Server
  PROVE  IInv' /\ Same(rpc, rpc')
<1> USE DEF IInv
<1>1. /\ rpc.fromServer \in Seq(Line) /\ rpc.toServer \in Seq(Request)
      /\ rpc.lines \in Seq(Line) /\ rpc.reading \in BOOLEAN
  BY DEF Good, Shape
<1>2. CASE IgnoreRequest
  <2>1. rpc' = [rpc EXCEPT !.reading = rpc.reading, !.toServer = Tail(rpc.toServer),
                           !.fromServer = rpc.fromServer, !.lines = rpc.lines]
    BY <1>2 DEF IgnoreRequest, Good, Shape, Fields
  <2>2. Tail(rpc.toServer) \in Seq(Request)
    BY <1>1, <1>2 DEF IgnoreRequest
  <2>3. QED
    BY <1>1, <2>1, <2>2, LinesGood
<1>3. CASE Notify
  <2> DEFINE l == [id |-> 0, type |-> "notification", answers |-> "none"]
             f == Append(rpc.fromServer, l)
  <2>1. l \in Line
    BY DEF Line
  <2>2. f \in Seq(Line)
    BY <1>1, <2>1
  <2>3. rpc' = [rpc EXCEPT !.reading = rpc.reading, !.toServer = rpc.toServer,
                           !.fromServer = f, !.lines = rpc.lines]
    BY <1>3 DEF Notify, Good, Shape, Fields
  <2> HIDE DEF f
  <2>4. QED
    BY <1>1, <2>2, <2>3, LinesGood
<1>4. ASSUME NEW type \in {"result", "error"}, Answer(type)
      PROVE  Good(rpc') /\ Same(rpc, rpc')
  <2> DEFINE r == Head(rpc.toServer)
             l == [id |-> r.id, type |-> type, answers |-> r.method]
             f == Append(rpc.fromServer, l)
             t == Tail(rpc.toServer)
  <2>1. r \in Request /\ t \in Seq(Request)
    BY <1>1, <1>4 DEF Answer
  <2>2. l \in Line
    BY <2>1 DEF Line, Request
  <2>3. f \in Seq(Line)
    BY <1>1, <2>2
  <2>4. rpc' = [rpc EXCEPT !.reading = rpc.reading, !.toServer = t, !.fromServer = f,
                           !.lines = rpc.lines]
    BY <1>4 DEF Answer, Good, Shape, Fields
  <2> HIDE DEF f, t
  <2>5. QED
    BY <1>1, <2>1, <2>3, <2>4, LinesGood
<1>5. QED
  BY <1>2, <1>3, <1>4 DEF Server

\* A call may be posted beside anything.
LEMMA MaybePostGood ==
  ASSUME NEW c, Good(c), NEW d \in MaybePost(c)
  PROVE  Good(d) /\ Same(c, d)
BY PostGood DEF MaybePost, Same

\* What the adapter may do after a line settles the line's request, or gives up all.
LEMMA ReactionGood ==
  ASSUME NEW c, Good(c), c.lines # <<>>, NEW d \in Reactions(ProcessData(c, Head(c.lines)))
  PROVE  Good(d) /\ Kinds(c, d)
<1> DEFINE line == Head(c.lines)
           p == ProcessData(c, line)
<1>1. Good(p) /\ Settled(c, p, line)
  BY ProcessDataGood
<1> HIDE DEF p, line
<1>2. PICK e \in {p, Reset(p, FALSE), Reset(p, TRUE), DisconnectFromHost(p)} : d \in MaybePost(e)
  BY DEF Reactions, p, line
<1>3. Good(e) /\ (Settled(c, e, line) \/ Cleared(c, e))
  <2>1. CASE e = p
    BY <1>1, <2>1
  <2>2. CASE e = Reset(p, FALSE)
    <3>1. e.queue = <<>> /\ e.inProgress = p.inProgress /\ (Up(e) <=> Up(p))
      BY <1>1, <2>2 DEF Reset, Good, Shape, Fields, Up
    <3>2. QED
      BY <1>1, <2>2, <3>1, ResetGood DEF Settled
  <2>3. CASE e = Reset(p, TRUE)
    <3>1. e.queue = <<>> /\ e.inProgress = {} /\ (Up(e) <=> Up(p))
      BY <1>1, <2>3 DEF Reset, Good, Shape, Fields, Up
    <3>2. QED
      BY <1>1, <2>3, <3>1, ResetGood DEF Settled, Cleared
  <2>4. CASE e = DisconnectFromHost(p)
    BY <1>1, <2>4, DisconnectGood DEF Settled, Cleared
  <2>5. QED
    BY <1>2, <2>1, <2>2, <2>3, <2>4
<1>4. Good(d) /\ Same(e, d)
  BY <1>2, <1>3, MaybePostGood
<1>5. QED
  BY <1>3, <1>4 DEF Same, Settled, Cleared, Kinds

\* A client that is given up and connects again.
LEMMA ReconnectGood ==
  ASSUME NEW c, Good(c)
  PROVE  LET d == ConnectToHost(DisconnectFromHost(c), FALSE)
         IN  Good(d) /\ Cleared(c, d)
<1> DEFINE e == DisconnectFromHost(c)
<1>1. Good(e) /\ Cleared(c, e)
  BY DisconnectGood
<1> HIDE DEF e
<1>2. Good(ConnectToHost(e, FALSE)) /\ Same(e, ConnectToHost(e, FALSE))
  BY <1>1, ConnectGood
<1>3. QED
  BY <1>1, <1>2 DEF Same, Cleared, e

LEMMA ApplicationGood ==
  ASSUME IInv, Application
  PROVE  IInv' /\ Kinds(rpc, rpc')
<1> USE DEF IInv
<1>1. CASE rpc' = ConnectToHost(rpc, FALSE)
  BY <1>1, ConnectGood DEF Kinds
<1>2. CASE rpc' = DisconnectFromHost(rpc)
  BY <1>2, DisconnectGood DEF Kinds
<1>3. CASE rpc' = ConnectToHost(DisconnectFromHost(rpc), FALSE)
  BY <1>3, ReconnectGood DEF Kinds
<1>4. CASE rpc' \in MaybePost(rpc)
  BY <1>4, MaybePostGood DEF Kinds
<1>5. QED
  BY <1>1, <1>2, <1>3, <1>4 DEF Application

LEMMA StepGood ==
  ASSUME IInv, RpcNext
  PROVE  IInv' /\ Kinds(rpc, rpc')
<1>1. CASE Transport
  BY <1>1, TransportGood
<1>2. CASE Server
  BY <1>2, ServerGood DEF Kinds
<1>3. CASE HandleConnected
  <2>1. PICK c \in MaybePost(rpc) : rpc' = Connected(c)
    BY <1>3 DEF HandleConnected
  <2>2. Good(c) /\ Same(rpc, c) /\ c.sock = "Connecting"
    <3>1. Good(c) /\ Same(rpc, c)
      BY <2>1, MaybePostGood DEF IInv
    <3>2. c.sock = rpc.sock
      BY <2>1 DEF MaybePost, Post, IInv, Good, Shape, Fields
    <3>3. QED
      BY <1>3, <3>1, <3>2 DEF HandleConnected
  <2>3. Good(rpc') /\ Opened(c, rpc')
    BY <2>1, <2>2, ConnectedGood
  <2>4. ~Up(rpc)
    BY <1>3 DEF HandleConnected, Up
  <2>5. Opened(rpc, rpc')
    <3> DEFINE a == [rpc EXCEPT !.sock = "Connected"]
               b == [c EXCEPT !.sock = "Connected"]
    <3>1. Up(a) /\ a.queue = rpc.queue /\ a.inProgress = rpc.inProgress
      BY DEF IInv, Good, Shape, Fields, Up
    <3>2. Up(b) /\ b.queue = c.queue /\ b.inProgress = c.inProgress
      BY <2>2 DEF Good, Shape, Fields, Up
    <3>3. Up(rpc') /\ Sent(b, rpc')
      BY <2>3 DEF Opened
    <3> HIDE DEF a, b
    <3>4. Sent(a, rpc')
      BY <2>2, <3>1, <3>2, <3>3 DEF Same, Sent
    <3>5. QED
      BY <3>3, <3>4 DEF Opened, a
  <2>6. QED
    BY <2>3, <2>4, <2>5 DEF IInv, Kinds
<1>4. CASE HandleSocketError
  BY <1>4, SocketErrorGood DEF HandleSocketError, IInv, Kinds
<1>5. CASE HandleLine
  BY <1>5, ReactionGood DEF HandleLine, IInv
<1>6. CASE Application
  BY <1>6, ApplicationGood
<1>7. QED
  BY <1>1, <1>2, <1>3, <1>4, <1>5, <1>6 DEF RpcNext

-----------------------------------------------------------------------------
(* The theorems *)

LEMMA InitGood == RpcInit => IInv
<1> SUFFICES ASSUME RpcInit PROVE Good(rpc)
  BY DEF IInv
<1>1. <<>> \in Seq(Methods)
  OBVIOUS
<1>2. Shape(rpc)
  BY <1>1, Empty DEF RpcInit, Shape, Fields
<1>3. QED
  BY <1>2, EmptyDistinct DEF RpcInit, Good, Counted, OneTimer

\* Whatever the adapter, the timers, the socket and the server do: the inductive
\* invariant of the client.
THEOREM AlwaysGood == RpcSpec => []IInv
<1>1. IInv /\ [RpcNext]_rpc => IInv'
  BY StepGood DEF IInv
<1>2. QED
  BY <1>1, InitGood, PTL DEF RpcSpec

\* The fields of the client have their types.
THEOREM SpecRpcTypeOK == RpcSpec => []RpcTypeOK
<1>1. IInv => RpcTypeOK
  BY ShapeIsType DEF IInv, Good
<1>2. QED
  BY <1>1, AlwaysGood, PTL

\* m_bytes_to_write never waits for bytes that will not be reported.
THEOREM SpecWriteAccounted == RpcSpec => []WriteAccounted
<1>1. IInv => WriteAccounted
  BY DEF IInv, Good, Counted, WriteAccounted
<1>2. QED
  BY <1>1, AlwaysGood, PTL

\* The two timers never run together.
THEOREM SpecTimersExclude == RpcSpec => []TimersExclude
<1>1. IInv => TimersExclude
  BY DEF IInv, Good, OneTimer, TimersExclude
<1>2. QED
  BY <1>1, AlwaysGood, PTL

\* No request is written twice.
THEOREM SpecWrittenOnce == RpcSpec => []WrittenOnce
<1>1. IInv => WrittenOnce
  <2> SUFFICES ASSUME IInv PROVE WrittenOnce
    OBVIOUS
  <2>1. rpc.queue \in Seq(Request)
    BY DEF IInv, Good, Shape
  <2>2. DOMAIN rpc.queue = 1..Len(rpc.queue)
    BY <2>1
  <2>3. ToSet(rpc.queue) = {rpc.queue[i] : i \in 1..Len(rpc.queue)}
    BY <2>2 DEF ToSet
  <2>4. QED
    BY <2>2, <2>3 DEF IInv, Good, Distinct, WrittenOnce
<1>2. QED
  BY <1>1, AlwaysGood, PTL

-----------------------------------------------------------------------------
(* The client implements Requests *)

IdsOf(q) == [k \in DOMAIN q |-> q[k].id]

WaitsOf(w) == {r.id : r \in w}

\* The ids of a queue follow what is done to the queue.
LEMMA IdsOfQueue ==
  ASSUME NEW q \in Seq(Request)
  PROVE  /\ IdsOf(q) \in Seq(Ids) /\ Len(IdsOf(q)) = Len(q)
         /\ \A r \in Request : IdsOf(Append(q, r)) = Append(IdsOf(q), r.id)
         /\ q # <<>> => /\ IdsOf(q) # <<>> /\ IdsOf(Tail(q)) = Tail(IdsOf(q))
                        /\ Head(IdsOf(q)) = Head(q).id
         /\ ToSet(IdsOf(q)) = {r.id : r \in ToSet(q)}
<1> DEFINE n == Len(q)
<1>0. n \in Nat /\ DOMAIN q = 1..n /\ \A k \in 1..n : q[k] \in Request
  OBVIOUS
<1>1. n \in Nat /\ DOMAIN q = 1..n /\ \A k \in 1..n : q[k] \in Request /\ q[k].id \in Ids
  BY <1>0 DEF Request
<1>2. IdsOf(q) \in [1..n -> Ids]
  BY <1>1 DEF IdsOf
<1>3. IdsOf(q) \in Seq(Ids) /\ Len(IdsOf(q)) = n
  BY <1>1, <1>2
<1>4. \A r \in Request : IdsOf(Append(q, r)) = Append(IdsOf(q), r.id)
  <2> SUFFICES ASSUME NEW r \in Request PROVE IdsOf(Append(q, r)) = Append(IdsOf(q), r.id)
    OBVIOUS
  <2>1. r.id \in Ids
    BY DEF Request
  <2>2. /\ DOMAIN Append(q, r) = 1..(n + 1)
        /\ \A k \in 1..(n + 1) : Append(q, r)[k] = IF k = n + 1 THEN r ELSE q[k]
    BY <1>1
  <2>3. /\ DOMAIN Append(IdsOf(q), r.id) = 1..(n + 1)
        /\ Append(IdsOf(q), r.id) \in Seq(Ids)
        /\ \A k \in 1..(n + 1) : Append(IdsOf(q), r.id)[k] = IF k = n + 1 THEN r.id ELSE IdsOf(q)[k]
    BY <1>3, <2>1
  <2>4. Append(IdsOf(q), r.id) = [k \in 1..(n + 1) |-> IF k = n + 1 THEN r.id ELSE IdsOf(q)[k]]
    BY <2>3
  <2>5. IdsOf(Append(q, r)) = [k \in 1..(n + 1) |-> IF k = n + 1 THEN r.id ELSE q[k].id]
    BY <2>2 DEF IdsOf
  <2>6. \A k \in 1..(n + 1) : k # n + 1 => IdsOf(q)[k] = q[k].id
    BY <1>1 DEF IdsOf
  <2>7. QED
    BY <2>4, <2>5, <2>6
<1>5. ASSUME q # <<>>
      PROVE  /\ IdsOf(q) # <<>> /\ IdsOf(Tail(q)) = Tail(IdsOf(q))
             /\ Head(IdsOf(q)) = Head(q).id
  <2>1. n > 0
    BY <1>1, <1>5
  <2>2. Head(q) = q[1] /\ Head(IdsOf(q)) = IdsOf(q)[1] /\ IdsOf(q)[1] = q[1].id
    BY <1>1, <1>3, <2>1 DEF IdsOf
  <2>a. /\ Tail(q) \in Seq(Request) /\ DOMAIN Tail(q) = 1..(n - 1)
        /\ \A k \in 1..(n - 1) : Tail(q)[k] = q[k + 1]
    BY <1>1, <2>1
  <2>b. /\ Tail(IdsOf(q)) \in Seq(Ids) /\ DOMAIN Tail(IdsOf(q)) = 1..(n - 1)
        /\ \A k \in 1..(n - 1) : Tail(IdsOf(q))[k] = IdsOf(q)[k + 1]
    BY <1>3, <2>1
  <2>3. n - 1 \in Nat /\ Tail(IdsOf(q)) \in [1..(n - 1) -> Ids]
    <3>1. n - 1 \in Nat /\ Len(Tail(IdsOf(q))) = n - 1
      BY <1>1, <1>3, <2>1
    <3>2. QED
      BY <2>b, <3>1, LenProperties
  <2>4. Tail(IdsOf(q)) = [k \in 1..(n - 1) |-> IdsOf(q)[k + 1]]
    BY <2>b, <2>3
  <2>5. \A k \in 1..(n - 1) : IdsOf(q)[k + 1] = q[k + 1].id
    BY <1>1 DEF IdsOf
  <2>6. IdsOf(Tail(q)) = [k \in 1..(n - 1) |-> q[k + 1].id]
    BY <2>a DEF IdsOf
  <2>7. QED
    BY <1>3, <2>1, <2>2, <2>4, <2>5, <2>6
<1>6. ToSet(IdsOf(q)) = {r.id : r \in ToSet(q)}
  <2>1. ToSet(IdsOf(q)) = {IdsOf(q)[k] : k \in 1..n}
    BY <1>2 DEF ToSet
  <2>2. ToSet(q) = {q[k] : k \in 1..n}
    BY <1>1 DEF ToSet
  <2>3. \A k \in 1..n : IdsOf(q)[k] = q[k].id
    BY <1>1 DEF IdsOf
  <2>4. QED
    BY <2>1, <2>2, <2>3
<1>7. QED
  BY <1>3, <1>4, <1>5, <1>6

\* What may become of the requests when one may be written: Requests' Write.
LEMMA SentWrites ==
  ASSUME NEW a, NEW d, a.queue \in Seq(Request), Sent(a, d)
  PROVE  \/ IdsOf(d.queue) = IdsOf(a.queue) /\ WaitsOf(d.inProgress) = WaitsOf(a.inProgress)
         \/ /\ Up(d) /\ IdsOf(a.queue) # <<>> /\ IdsOf(d.queue) = Tail(IdsOf(a.queue))
            /\ WaitsOf(d.inProgress) = WaitsOf(a.inProgress) \cup {Head(IdsOf(a.queue))}
<1>1. CASE d.queue = a.queue /\ d.inProgress = a.inProgress
  BY <1>1
<1>2. CASE /\ Up(a) /\ a.queue # <<>>
           /\ d.queue = Tail(a.queue) /\ d.inProgress = a.inProgress \cup {Head(a.queue)}
  <2>1. WaitsOf(d.inProgress) = WaitsOf(a.inProgress) \cup {Head(a.queue).id}
    BY <1>2 DEF WaitsOf
  <2>2. Up(d)
    BY <1>2 DEF Sent
  <2>3. QED
    BY <1>2, <2>1, <2>2, IdsOfQueue
<1>3. QED
  BY <1>1, <1>2 DEF Sent

\* The state of Requests, in terms of the client's.
LEMMA Mapping ==
  /\ Life!Init <=> ~Up(rpc) /\ IdsOf(rpc.queue) = <<>> /\ WaitsOf(rpc.inProgress) = {}
  /\ UNCHANGED Life!requests <=>
       /\ Up(rpc') <=> Up(rpc)
       /\ IdsOf(rpc'.queue) = IdsOf(rpc.queue) /\ WaitsOf(rpc'.inProgress) = WaitsOf(rpc.inProgress)
  /\ Life!Asked = {IdsOf(rpc.queue)} \cup
                  {Append(IdsOf(rpc.queue), i) :
                     i \in Ids \ (ToSet(IdsOf(rpc.queue)) \cup WaitsOf(rpc.inProgress))}
  /\ \A q : Life!Write(q) <=>
       \/ IdsOf(rpc'.queue) = q /\ WaitsOf(rpc'.inProgress) = WaitsOf(rpc.inProgress)
       \/ /\ Up(rpc') /\ q # <<>> /\ IdsOf(rpc'.queue) = Tail(q)
          /\ WaitsOf(rpc'.inProgress) = WaitsOf(rpc.inProgress) \cup {Head(q)}
  /\ Life!Proceed <=> (Up(rpc') <=> Up(rpc)) /\ \E q \in Life!Asked : Life!Write(q)
  /\ Life!Open <=> ~Up(rpc) /\ Up(rpc') /\ Life!Write(IdsOf(rpc.queue))
  /\ Life!Settle <=>
       /\ Up(rpc') <=> Up(rpc)
       /\ \/ WaitsOf(rpc'.inProgress) = WaitsOf(rpc.inProgress)
          \/ \E i \in WaitsOf(rpc.inProgress) :
                WaitsOf(rpc'.inProgress) = WaitsOf(rpc.inProgress) \ {i}
       /\ IdsOf(rpc'.queue) \in {IdsOf(rpc.queue), <<>>}
  /\ Life!Drop <=> /\ Up(rpc') => Up(rpc)
                   /\ IdsOf(rpc'.queue) = <<>> /\ WaitsOf(rpc'.inProgress) = {}
<1>1. Life!Init <=> ~Up(rpc) /\ IdsOf(rpc.queue) = <<>> /\ WaitsOf(rpc.inProgress) = {}
  BY DEF Life!Init, Up, IdsOf, WaitsOf
<1>2. UNCHANGED Life!requests <=>
       /\ Up(rpc') <=> Up(rpc)
       /\ IdsOf(rpc'.queue) = IdsOf(rpc.queue) /\ WaitsOf(rpc'.inProgress) = WaitsOf(rpc.inProgress)
  BY DEF Life!requests, Up, IdsOf, WaitsOf
<1>3. Life!Asked = {IdsOf(rpc.queue)} \cup
                  {Append(IdsOf(rpc.queue), i) :
                     i \in Ids \ (ToSet(IdsOf(rpc.queue)) \cup WaitsOf(rpc.inProgress))}
  BY DEF Life!Asked, Life!ToSet, ToSet, IdsOf, WaitsOf
<1>4. \A q : Life!Write(q) <=>
       \/ IdsOf(rpc'.queue) = q /\ WaitsOf(rpc'.inProgress) = WaitsOf(rpc.inProgress)
       \/ /\ Up(rpc') /\ q # <<>> /\ IdsOf(rpc'.queue) = Tail(q)
          /\ WaitsOf(rpc'.inProgress) = WaitsOf(rpc.inProgress) \cup {Head(q)}
  BY DEF Life!Write, Up, IdsOf, WaitsOf
<1>5. Life!Proceed <=> (Up(rpc') <=> Up(rpc)) /\ \E q \in Life!Asked : Life!Write(q)
  BY DEF Life!Proceed, Up
<1>6. Life!Open <=> ~Up(rpc) /\ Up(rpc') /\ Life!Write(IdsOf(rpc.queue))
  BY DEF Life!Open, Up, IdsOf
<1>7. Life!Settle <=>
       /\ Up(rpc') <=> Up(rpc)
       /\ \/ WaitsOf(rpc'.inProgress) = WaitsOf(rpc.inProgress)
          \/ \E i \in WaitsOf(rpc.inProgress) :
                WaitsOf(rpc'.inProgress) = WaitsOf(rpc.inProgress) \ {i}
       /\ IdsOf(rpc'.queue) \in {IdsOf(rpc.queue), <<>>}
  BY DEF Life!Settle, Up, IdsOf, WaitsOf
<1>8. Life!Drop <=> /\ Up(rpc') => Up(rpc)
                   /\ IdsOf(rpc'.queue) = <<>> /\ WaitsOf(rpc'.inProgress) = {}
  BY DEF Life!Drop, Up, IdsOf, WaitsOf
<1>9. QED
  BY <1>1, <1>2, <1>3, <1>4, <1>5, <1>6, <1>7, <1>8

\* A request that may be written is Requests' Write.
LEMMA WriteMaps ==
  ASSUME NEW a, a.queue \in Seq(Request), a.inProgress = rpc.inProgress, Sent(a, rpc')
  PROVE  Life!Write(IdsOf(a.queue))
<1> DEFINE p == IdsOf(a.queue)
           Kept == IdsOf(rpc'.queue) = p /\ WaitsOf(rpc'.inProgress) = WaitsOf(rpc.inProgress)
           Written == /\ Up(rpc') /\ p # <<>> /\ IdsOf(rpc'.queue) = Tail(p)
                      /\ WaitsOf(rpc'.inProgress) = WaitsOf(rpc.inProgress) \cup {Head(p)}
<1>1. Kept \/ Written
  BY SentWrites
<1>2. Life!Write(p) <=> (Kept \/ Written)
  BY DEF Life!Write, Up, IdsOf, WaitsOf
<1> HIDE DEF Kept, Written
<1>3. QED
  BY <1>1, <1>2

\* Every step of the client is a step of Requests, or none.
LEMMA StepMaps ==
  ASSUME IInv, Kinds(rpc, rpc')
  PROVE  [Life!Next]_(Life!requests)
<1> DEFINE q == rpc.queue
<1>1. q \in Seq(Request)
  BY DEF IInv, Good, Shape
<1>2. IdsOf(<<>>) = <<>>
  BY DEF IdsOf
<1>3. CASE Same(rpc, rpc')
  BY <1>3, Mapping DEF Same
<1>4. CASE Cleared(rpc, rpc')
  <2>1. Life!Drop
    BY <1>2, <1>4, Mapping DEF Cleared, WaitsOf
  <2>2. QED
    BY <2>1 DEF Life!Next
<1>5. CASE Sent(rpc, rpc') \/ Asked(rpc, rpc')
  <2>0. Sent([rpc EXCEPT !.queue = q], rpc') \/ Asked(rpc, rpc')
    BY <1>5 DEF Sent, Up, IInv, Good, Shape, Fields
  <2>1. PICK p \in {q} \cup {Append(q, r) : r \in {x \in Request : x.id \notin IdsInUse(rpc)}} :
          Sent([rpc EXCEPT !.queue = p], rpc')
    BY <2>0 DEF Asked
  <2> DEFINE a == [rpc EXCEPT !.queue = p]
  <2>a. p \in Seq(Request)
    BY <1>1, <2>1
  <2>2. a.queue = p /\ a.inProgress = rpc.inProgress /\ (Up(a) <=> Up(rpc))
    BY DEF IInv, Good, Shape, Fields, Up
  <2>3. IdsOf(p) \in Life!Asked
    <3>1. CASE p = q
      BY <3>1, Mapping
    <3>2. ASSUME NEW r \in Request, r.id \notin IdsInUse(rpc), p = Append(q, r)
          PROVE  IdsOf(p) \in Life!Asked
      <4>1. IdsOf(p) = Append(IdsOf(q), r.id) /\ r.id \in Ids
        BY <1>1, <3>2, IdsOfQueue DEF Request
      <4>2. r.id \notin {x.id : x \in ToSet(q)} /\ r.id \notin {x.id : x \in rpc.inProgress}
        BY <3>2 DEF IdsInUse
      <4>3. r.id \notin ToSet(IdsOf(q)) /\ r.id \notin WaitsOf(rpc.inProgress)
        BY <1>1, <4>2, IdsOfQueue DEF WaitsOf
      <4>4. QED
        BY <4>1, <4>3, Mapping
    <3>3. QED
      BY <2>1, <3>1, <3>2
  <2>4. Sent(a, rpc')
    BY <2>1
  <2> HIDE DEF a
  <2>5. Life!Write(IdsOf(p))
    BY <2>a, <2>2, <2>4, WriteMaps
  <2>b. Up(rpc') <=> Up(rpc)
    BY <2>2, <2>4 DEF Sent
  <2>6. Life!Proceed
    BY <2>3, <2>5, <2>b, Mapping, Zenon
  <2>7. QED
    BY <2>6 DEF Life!Next
<1>7. CASE ~Up(rpc) /\ Opened(rpc, rpc')
  <2> DEFINE a == [rpc EXCEPT !.sock = "Connected"]
  <2>1. a.queue = q /\ a.inProgress = rpc.inProgress
    BY DEF IInv, Good, Shape, Fields
  <2>2. Sent(a, rpc') /\ Up(rpc')
    BY <1>7 DEF Opened
  <2> HIDE DEF a
  <2>3. \/ IdsOf(rpc'.queue) = IdsOf(q) /\ WaitsOf(rpc'.inProgress) = WaitsOf(rpc.inProgress)
        \/ /\ Up(rpc') /\ IdsOf(q) # <<>> /\ IdsOf(rpc'.queue) = Tail(IdsOf(q))
           /\ WaitsOf(rpc'.inProgress) = WaitsOf(rpc.inProgress) \cup {Head(IdsOf(q))}
    BY <1>1, <2>1, <2>2, SentWrites
  <2>4. Life!Open
    BY <1>7, <2>2, <2>3 DEF Life!Open, Life!Write, Up, IdsOf, WaitsOf
  <2>5. QED
    BY <2>4 DEF Life!Next
<1>8. ASSUME NEW line, Settled(rpc, rpc', line)
      PROVE  [Life!Next]_(Life!requests)
  <2> DEFINE w == WaitsOf(rpc.inProgress)
             v == WaitsOf(rpc'.inProgress)
  <2>1. v = w \/ v = w \ {line.id}
    BY <1>8 DEF Settled, Answered, WaitsOf
  <2>2. v = w \/ \E i \in w : v = w \ {i}
    BY <2>1
  <2>3. IdsOf(rpc'.queue) \in {IdsOf(rpc.queue), <<>>}
    BY <1>2, <1>8 DEF Settled
  <2>4. Life!Settle
    BY <1>8, <2>2, <2>3, Mapping DEF Settled
  <2>5. QED
    BY <2>4 DEF Life!Next
<1>9. QED
  BY <1>3, <1>4, <1>5, <1>7, <1>8 DEF Kinds

\* The client, with any adapter, implements Requests: written in order, once, on a live
\* connection, and settled at most once.
THEOREM ImplementsRequests == RpcSpec => RequestsKept
<1>1. RpcInit => Life!Init
  <2> SUFFICES ASSUME RpcInit PROVE Life!Init
    OBVIOUS
  <2>1. ~Up(rpc) /\ rpc.queue = <<>> /\ rpc.inProgress = {}
    BY DEF RpcInit, Up
  <2>2. IdsOf(<<>>) = <<>> /\ WaitsOf({}) = {}
    BY DEF IdsOf, WaitsOf
  <2>3. QED
    BY <2>1, <2>2, Mapping
<1>2. IInv /\ [RpcNext]_rpc => [Life!Next]_(Life!requests)
  <2> SUFFICES ASSUME IInv, [RpcNext]_rpc PROVE [Life!Next]_(Life!requests)
    OBVIOUS
  <2>1. CASE RpcNext
    BY <2>1, StepGood, StepMaps
  <2>2. CASE UNCHANGED rpc
    BY <2>2, Mapping
  <2>3. QED
    BY <2>1, <2>2
<1>3. QED
  BY <1>1, <1>2, AlwaysGood, PTL DEF RpcSpec, RequestsKept, Life!Spec

-----------------------------------------------------------------------------
(* What the pool clients rest on: the state of a connection on which the   *)
(* pool has answered a login (served), or not yet                          *)

\* A line of a pool that has not answered a login yet is an error.
Refused(lines) == \A i \in 1..Len(lines) : lines[i].type = "error"

\* Lines are read in readyRead only; only a connection carries anything; and one that
\* is not served has a request out, guarded by the timer, or a call to be handled
\* with which it will.
Link(c, served) ==
  /\ c.lines # <<>> => c.reading
  /\ ~Up(c) => c.toServer = <<>> /\ c.fromServer = <<>> /\ c.unsent = 0
  /\ c.sock = "Connecting" => c.toWrite = 0
  /\ Up(c) => ~c.connectTimer
  /\ Up(c) /\ ~served =>
       /\ Refused(c.lines) /\ Refused(c.fromServer)
       /\ ~c.requestTimer => c.posted # <<>> /\ c.toWrite = 0 /\ c.unsent = 0

LEMMA PostLink ==
  ASSUME NEW c, Good(c), NEW v \in BOOLEAN, Link(c, v), NEW m \in Methods
  PROVE  /\ Link(Post(c, m), v) /\ Post(c, m).posted # <<>>
         /\ \A x \in Fields \ {"posted"} : Post(c, m)[x] = c[x]
<1> DEFINE d == Post(c, m)
<1>1. Append(c.posted, m) # <<>>
  <2>1. c.posted \in Seq(Methods)
    BY DEF Good, Shape
  <2>2. QED
    BY <2>1, AppendProperties
<1>2. d.posted = Append(c.posted, m) /\ \A x \in Fields \ {"posted"} : d[x] = c[x]
  BY DEF Post, Good, Shape, Fields
<1> HIDE DEF d
<1>3. /\ d.sock = c.sock /\ d.toWrite = c.toWrite /\ d.unsent = c.unsent
      /\ d.connectTimer = c.connectTimer /\ d.requestTimer = c.requestTimer
      /\ d.toServer = c.toServer /\ d.fromServer = c.fromServer
      /\ d.reading = c.reading /\ d.lines = c.lines
  BY <1>2 DEF Fields
<1>4. Link(d, v)
  BY <1>1, <1>2, <1>3 DEF Link, Up
<1>5. QED
  BY <1>1, <1>2, <1>4 DEF d

\* A client that is given up: nothing is on its way, whatever the adapter does next.
LEMMA DisconnectLink ==
  ASSUME NEW c, Good(c), NEW v \in BOOLEAN, Link(c, v), NEW w \in BOOLEAN
  PROVE  LET d == DisconnectFromHost(c)
         IN  /\ Link(d, w) /\ d.sock = "Unconnected" /\ ~d.connectTimer
             /\ d.requestTimer = c.requestTimer /\ d.posted = c.posted /\ d.reading = c.reading
<1> DEFINE d == DisconnectFromHost(c)
<1>1. /\ d.sock = "Unconnected" /\ d.unsent = 0 /\ d.toServer = <<>> /\ d.fromServer = <<>>
      /\ d.connectTimer = FALSE /\ d.requestTimer = c.requestTimer
      /\ d.posted = c.posted /\ d.reading = c.reading /\ d.lines = c.lines
  BY DEF DisconnectFromHost, Reset, Abort, Good, Shape, Fields
<1> HIDE DEF d
<1>2. QED
  BY <1>1 DEF Link, Up, d

LEMMA SocketErrorLink ==
  ASSUME NEW c, Good(c), NEW v \in BOOLEAN, Link(c, v)
  PROVE  Link(SocketError(c), v) /\ SocketError(c).connectTimer
<1> DEFINE d == SocketError(c)
<1>1. /\ d.sock = "Unconnected" /\ d.unsent = 0 /\ d.toServer = <<>> /\ d.fromServer = <<>>
      /\ d.connectTimer = TRUE /\ d.requestTimer = FALSE
      /\ d.posted = c.posted /\ d.reading = c.reading /\ d.lines = c.lines
  BY DEF SocketError, Reset, Abort, Good, Shape, Fields
<1> HIDE DEF d
<1>2. QED
  BY <1>1 DEF Link, Up, d

\* A client that may connect does, or waits for its timer.
LEMMA ConnectLink ==
  ASSUME NEW c, Good(c), NEW v \in BOOLEAN, Link(c, v), NEW byTimer \in BOOLEAN
  PROVE  LET d == ConnectToHost(c, byTimer)
         IN  /\ Link(d, v) /\ (d.sock = "Unconnected" => d.connectTimer)
             /\ d.posted = c.posted /\ d.reading = c.reading
             /\ d.connectTimer = c.connectTimer /\ d.requestTimer = c.requestTimer
<1> DEFINE d == ConnectToHost(c, byTimer)
<1>1. /\ d.sock = IF Up(c) \/ (c.connectTimer /\ ~byTimer) THEN c.sock ELSE "Connecting"
      /\ d.toWrite = 0 /\ d.unsent = c.unsent
      /\ d.toServer = c.toServer /\ d.fromServer = c.fromServer
      /\ d.connectTimer = c.connectTimer /\ d.requestTimer = c.requestTimer
      /\ d.posted = c.posted /\ d.reading = c.reading /\ d.lines = c.lines
  BY DEF ConnectToHost, Up, Good, Shape, Fields
<1> HIDE DEF d
<1>2. Up(d) <=> Up(c)
  BY <1>1 DEF Up
<1>3. d.sock = "Unconnected" => d.connectTimer
  BY <1>1 DEF Up
<1>4. Link(d, v)
  BY <1>1, <1>2 DEF Link, Up
<1>5. QED
  BY <1>1, <1>3, <1>4 DEF d

LEMMA ResetRequestLink ==
  ASSUME NEW c, Good(c), NEW v \in BOOLEAN, Link(c, v)
  PROVE  LET d == ResetRequest(c)
         IN  Link(d, v) /\ (d.sock = "Unconnected" => d.connectTimer)
<1> DEFINE d == ResetRequest(c)
<1>1. /\ d.sock = IF c.connectTimer THEN "Unconnected" ELSE "Connecting"
      /\ d.toWrite = 0 /\ d.unsent = 0 /\ d.toServer = <<>> /\ d.fromServer = <<>>
      /\ d.connectTimer = c.connectTimer
      /\ d.posted = c.posted /\ d.reading = c.reading /\ d.lines = c.lines
  BY DEF ResetRequest, ConnectToHost, Reset, Abort, Good, Shape, Fields
<1> HIDE DEF d
<1>2. ~Up(d) /\ (d.sock = "Unconnected" => d.connectTimer)
  BY <1>1 DEF Up
<1>3. Link(d, v)
  BY <1>1, <1>2 DEF Link, Good, Shape
<1>4. QED
  BY <1>2, <1>3 DEF d

\* What sendRequest does to the connection and the timers.
Waits(c, d) == d = c /\ (c.connectTimer \/ (Up(c) /\ (c.toWrite > 0 \/ c.queue = <<>>)))

Connects(c, d) ==
  /\ ~Up(c) /\ ~c.connectTimer
  /\ d.sock = "Connecting" /\ d.toWrite = 0 /\ d.unsent = c.unsent
  /\ d.connectTimer = c.connectTimer /\ d.requestTimer = c.requestTimer
  /\ d.toServer = c.toServer /\ d.fromServer = c.fromServer
  /\ d.posted = c.posted /\ d.reading = c.reading /\ d.lines = c.lines

Writes(c, d) ==
  /\ Up(c) /\ ~c.connectTimer /\ Up(d) /\ ~d.connectTimer /\ d.requestTimer
  /\ d.fromServer = c.fromServer
  /\ d.posted = c.posted /\ d.reading = c.reading /\ d.lines = c.lines

LEMMA SendCases ==
  ASSUME NEW c, Good(c)
  PROVE  LET d == SendRequest(c) IN Waits(c, d) \/ Connects(c, d) \/ Writes(c, d)
<1> DEFINE d == SendRequest(c)
<1>1. CASE c.connectTimer
  BY <1>1 DEF SendRequest, Waits
<1>2. CASE ~c.connectTimer /\ ~Up(c)
  <2>1. d = ConnectToHost(c, FALSE)
    BY <1>2 DEF SendRequest, Up
  <2>2. QED
    BY <1>2, <2>1 DEF ConnectToHost, Connects, Up, Good, Shape, Fields
<1>3. CASE ~c.connectTimer /\ Up(c) /\ (c.toWrite > 0 \/ c.queue = <<>>)
  BY <1>3 DEF SendRequest, Waits, Up
<1>4. CASE ~c.connectTimer /\ Up(c) /\ ~(c.toWrite > 0) /\ c.queue # <<>>
  <2> DEFINE r == Head(c.queue)
  <2>1. d = [c EXCEPT !.queue = Tail(@), !.inProgress = @ \cup {r}, !.toWrite = 1,
                      !.unsent = @ + 1, !.toServer = Append(@, r), !.requestTimer = TRUE]
    BY <1>4 DEF SendRequest, Up
  <2>2. QED
    BY <1>4, <2>1 DEF Writes, Up, Good, Shape, Fields
<1>5. QED
  BY <1>1, <1>2, <1>3, <1>4

\* A posted call is handled: what is not connected connects or waits for its timer, what
\* is not served has written a request.
LEMMA JsonRpcMethodLink ==
  ASSUME NEW c, Good(c), NEW v \in BOOLEAN, Link(c, v), ~c.reading,
         c.posted # <<>>, Ids \ IdsInUse(c) # {}
  PROVE  LET d == JsonRpcMethod(c)
         IN  Link(d, v) /\ (d.sock = "Unconnected" => d.connectTimer) /\ ~d.reading
<1> DEFINE r == [id |-> FreshId(c), method |-> Head(c.posted)]
           b == [c EXCEPT !.posted = Tail(@), !.queue = Append(@, r)]
           d == SendRequest(b)
<1>1. FreshId(c) \in Ids \ IdsInUse(c)
  BY DEF FreshId
<1>2. c.posted \in Seq(Methods) /\ Head(c.posted) \in Methods /\ Tail(c.posted) \in Seq(Methods)
  BY DEF Good, Shape
<1>3. r \in Request /\ r.id \notin IdsInUse(c)
  BY <1>1, <1>2 DEF Request
<1>4. Good(b)
  BY <1>2, <1>3, AppendGood
<1>5. b.queue # <<>>
  <2>1. b.queue = Append(c.queue, r) /\ c.queue \in Seq(Request)
    BY DEF Good, Shape, Fields
  <2>2. QED
    BY <1>3, <2>1, AppendProperties
<1>6. /\ b.sock = c.sock /\ b.toWrite = c.toWrite /\ b.unsent = c.unsent
      /\ b.connectTimer = c.connectTimer /\ b.requestTimer = c.requestTimer
      /\ b.toServer = c.toServer /\ b.fromServer = c.fromServer
      /\ b.reading = c.reading /\ b.lines = c.lines
  BY DEF Good, Shape, Fields
<1>7. JsonRpcMethod(c) = d
  BY DEF JsonRpcMethod
<1>8. Waits(b, d) \/ Connects(b, d) \/ Writes(b, d)
  BY <1>4, SendCases
<1>9. Link(d, v) /\ (d.sock = "Unconnected" => d.connectTimer) /\ ~d.reading
  <2> HIDE DEF b, d
  <2>1. CASE Waits(b, d)
    BY <1>5, <1>6, <2>1 DEF Waits, Link, Up
  <2>2. CASE Connects(b, d)
    BY <1>6, <2>2 DEF Connects, Link, Up
  <2>3. CASE Writes(b, d)
    BY <1>6, <2>3 DEF Writes, Link, Up
  <2>4. QED
    BY <1>8, <2>1, <2>2, <2>3
<1>10. QED
  BY <1>7, <1>9

\* A connection comes up while a call is posted: nothing of it is served yet.
LEMMA ConnectedLink ==
  ASSUME NEW c, Good(c), NEW v \in BOOLEAN, Link(c, v), c.sock = "Connecting", ~c.reading,
         c.posted # <<>>
  PROVE  LET d == Connected(c) IN Link(d, FALSE) /\ Up(d) /\ d.posted = c.posted /\ ~d.reading
<1> DEFINE b == [c EXCEPT !.sock = "Connected"]
           d == SendRequest(b)
           e == [d EXCEPT !.connectTimer = FALSE]
<1>1. Good(b)
  <2>1. /\ b = [x \in Fields |-> b[x]]
        /\ b.sock = "Connected" /\ b.toWrite = c.toWrite /\ b.unsent = c.unsent
        /\ b.queue = c.queue /\ b.inProgress = c.inProgress
        /\ b.connectTimer = c.connectTimer /\ b.requestTimer = c.requestTimer
        /\ b.posted = c.posted /\ b.toServer = c.toServer /\ b.fromServer = c.fromServer
        /\ b.reading = c.reading /\ b.lines = c.lines
    BY DEF Good, Shape, Fields
  <2> HIDE DEF b
  <2>2. Shape(b)
    BY <2>1 DEF Good, Shape
  <2>3. QED
    BY <2>1, <2>2 DEF Good, Counted, OneTimer, Distinct
<1>2. /\ Up(b) /\ b.toWrite = 0 /\ b.unsent = 0 /\ b.fromServer = <<>> /\ b.lines = <<>>
      /\ b.reading = FALSE /\ b.posted = c.posted /\ b.requestTimer = c.requestTimer
  BY DEF Link, Up, Good, Shape, Fields
<1>3. Good(d) /\ (Waits(b, d) \/ Connects(b, d) \/ Writes(b, d))
  BY <1>1, SendGood, SendCases
<1> HIDE DEF b, d
<1>4. /\ e.sock = d.sock /\ e.toWrite = d.toWrite /\ e.unsent = d.unsent
      /\ e.connectTimer = FALSE /\ e.requestTimer = d.requestTimer
      /\ e.posted = d.posted /\ e.fromServer = d.fromServer
      /\ e.reading = d.reading /\ e.lines = d.lines
  BY <1>3 DEF Good, Shape, Fields
<1>5. Refused(<<>>)
  BY Empty DEF Refused
<1>6. Up(d) /\ d.fromServer = <<>> /\ d.lines = <<>> /\ ~d.reading /\ d.posted = c.posted
      /\ (d.requestTimer \/ (d.toWrite = 0 /\ d.unsent = 0))
  BY <1>2, <1>3 DEF Waits, Connects, Writes
<1> HIDE DEF e
<1>7. Link(e, FALSE) /\ Up(e) /\ e.posted = c.posted /\ ~e.reading
  BY <1>4, <1>5, <1>6 DEF Link, Up
<1>8. QED
  BY <1>7 DEF Connected, b, d, e

LEMMA BytesWrittenLink ==
  ASSUME NEW c, Good(c), NEW v \in BOOLEAN, Link(c, v), NEW n \in 1..c.unsent
  PROVE  Link(BytesWritten(c, n), v) /\ Up(BytesWritten(c, n))
<1> DEFINE b == [c EXCEPT !.unsent = @ - n, !.toWrite = @ - n]
           d == SendRequest(b)
<1>1. c.toWrite \in Int /\ c.unsent \in Nat /\ n \in Int /\ 1 <= n /\ n <= c.unsent
  BY DEF Good, Shape
<1>2. /\ c.toWrite - n \in Int /\ c.unsent - n \in Nat
      /\ c.sock # "Unconnected" => c.toWrite - n <= c.unsent - n
  BY <1>1 DEF Good, Counted
<1>3. /\ b = [x \in Fields |-> b[x]]
      /\ b.sock = c.sock /\ b.toWrite = c.toWrite - n /\ b.unsent = c.unsent - n
      /\ b.queue = c.queue /\ b.inProgress = c.inProgress
      /\ b.connectTimer = c.connectTimer /\ b.requestTimer = c.requestTimer
      /\ b.posted = c.posted /\ b.toServer = c.toServer /\ b.fromServer = c.fromServer
      /\ b.reading = c.reading /\ b.lines = c.lines
  BY DEF Good, Shape, Fields
<1>4. Good(b)
  <2> HIDE DEF b
  <2>1. Shape(b)
    BY <1>2, <1>3 DEF Good, Shape
  <2>2. QED
    BY <1>2, <1>3, <2>1 DEF Good, Counted, OneTimer, Distinct
<1>5. BytesWritten(c, n) \in {b, d}
  BY DEF BytesWritten
<1> HIDE DEF b
<1>6. Up(c) /\ ~c.connectTimer /\ (v \/ c.requestTimer)
  BY <1>1 DEF Link
<1>7. Up(b) /\ Link(b, v)
  BY <1>3, <1>6 DEF Link, Up
<1>8. Waits(b, d) \/ Connects(b, d) \/ Writes(b, d)
  BY <1>4, SendCases
<1> HIDE DEF d
<1>9. Link(d, v) /\ Up(d)
  <2>1. CASE Waits(b, d)
    BY <1>7, <2>1 DEF Waits
  <2>2. CASE Connects(b, d)
    BY <1>7, <2>2 DEF Connects
  <2>3. CASE Writes(b, d)
    BY <1>7, <2>3 DEF Writes, Link, Up
  <2>4. QED
    BY <1>8, <2>1, <2>2, <2>3
<1>10. QED
  BY <1>5, <1>7, <1>9

\* readyRead ends: a client that a line has stopped connects again.
LEMMA EndReadLink ==
  ASSUME NEW c, Good(c), NEW v \in BOOLEAN, Link(c, v), c.lines = <<>>
  PROVE  LET d == EndRead(c)
         IN  Link(d, v) /\ (d.sock = "Unconnected" => d.connectTimer)
<1> DEFINE b == [c EXCEPT !.reading = FALSE]
           d == SendRequest(b)
<1>1. b = [c EXCEPT !.reading = FALSE, !.toServer = c.toServer, !.fromServer = c.fromServer,
                    !.lines = c.lines]
  BY DEF Good, Shape, Fields
<1>2. c.toServer \in Seq(Request) /\ c.fromServer \in Seq(Line) /\ c.lines \in Seq(Line)
  BY DEF Good, Shape
<1>3. Good(b)
  <2> HIDE DEF b
  <2>1. QED
    BY <1>1, <1>2, LinesGood
<1>4. /\ b.sock = c.sock /\ b.toWrite = c.toWrite /\ b.unsent = c.unsent
      /\ b.connectTimer = c.connectTimer /\ b.requestTimer = c.requestTimer
      /\ b.posted = c.posted /\ b.toServer = c.toServer /\ b.fromServer = c.fromServer
      /\ b.reading = FALSE /\ b.lines = <<>>
  BY DEF Good, Shape, Fields
<1>5. Waits(b, d) \/ Connects(b, d) \/ Writes(b, d)
  BY <1>3, SendCases
<1>6. EndRead(c) = d
  BY DEF EndRead
<1> HIDE DEF b, d
<1>7. Link(b, v)
  BY <1>4 DEF Link, Up
<1>8. CASE Waits(b, d)
  BY <1>6, <1>7, <1>8 DEF Waits, Up
<1>9. CASE Connects(b, d)
  BY <1>6, <1>7, <1>9 DEF Connects, Link, Up
<1>10. CASE Writes(b, d)
  BY <1>6, <1>7, <1>10 DEF Writes, Link, Up
<1>11. QED
  BY <1>5, <1>8, <1>9, <1>10

\* A line is taken: only the result of a request stops the timer, and an unserved
\* connection has none.
LEMMA ProcessDataLink ==
  ASSUME NEW c, Good(c), NEW v \in BOOLEAN, Link(c, v), c.lines # <<>>
  PROVE  LET d == ProcessData(c, Head(c.lines))
         IN  /\ Link(d, v) /\ d.reading /\ c.reading
             /\ Up(c) /\ Head(c.lines).type # "error" => v
             /\ Up(d) <=> Up(c)
<1> DEFINE line == Head(c.lines)
           rest == Tail(c.lines)
           d == ProcessData(c, line)
<1>1. c.lines \in Seq(Line) /\ c.lines # <<>>
  BY DEF Good, Shape
<1>2. /\ 1 \in 1..Len(c.lines) /\ line = c.lines[1]
      /\ \A i \in 1..Len(rest) : i + 1 \in 1..Len(c.lines) /\ rest[i] = c.lines[i + 1]
  BY <1>1
<1>3. /\ d.sock = c.sock /\ d.toWrite = c.toWrite /\ d.unsent = c.unsent
      /\ d.connectTimer = c.connectTimer
      /\ d.requestTimer = (c.requestTimer /\ line.type # "result")
      /\ d.posted = c.posted /\ d.toServer = c.toServer /\ d.fromServer = c.fromServer
      /\ d.reading = c.reading /\ d.lines = rest
  BY DEF ProcessData, Good, Shape, Fields
<1>4. c.reading /\ (Refused(c.lines) => line.type = "error" /\ Refused(rest))
  BY <1>2 DEF Link, Refused
<1> HIDE DEF d, line, rest
<1>5. Link(d, v) /\ (Up(c) /\ line.type # "error" => v)
  BY <1>3, <1>4 DEF Link, Up
<1>6. QED
  BY <1>3, <1>4, <1>5 DEF Up, d, line

\* Requests that are dropped leave the connection and the timers alone.
LEMMA ResetLink ==
  ASSUME NEW c, Good(c), NEW v \in BOOLEAN, Link(c, v)
  PROVE  LET d == Reset(c, FALSE)
         IN  Link(d, v) /\ d.reading = c.reading /\ d.posted = c.posted /\ Good(d)
<1> DEFINE d == Reset(c, FALSE)
<1>1. /\ d.sock = c.sock /\ d.toWrite = c.toWrite /\ d.unsent = c.unsent
      /\ d.connectTimer = c.connectTimer /\ d.requestTimer = c.requestTimer
      /\ d.posted = c.posted /\ d.toServer = c.toServer /\ d.fromServer = c.fromServer
      /\ d.reading = c.reading /\ d.lines = c.lines
  BY DEF Reset, Good, Shape, Fields
<1>2. Good(d)
  BY ResetGood
<1> HIDE DEF d
<1>3. QED
  BY <1>1, <1>2 DEF Link, Up, d

\* Lines are read while there is a connection, and from it.
LEMMA BeginReadLink ==
  ASSUME NEW v \in BOOLEAN, Good(rpc), Link(rpc, v), BeginRead
  PROVE  Link(rpc', v) /\ rpc'.reading
<1>1. PICK n \in 1..Len(rpc.fromServer) :
        rpc' = [rpc EXCEPT !.reading = TRUE,
                           !.lines = SubSeq(rpc.fromServer, 1, n),
                           !.fromServer = SubSeq(@, n + 1, Len(@))]
  BY DEF BeginRead
<1> DEFINE front == SubSeq(rpc.fromServer, 1, n)
           back == SubSeq(rpc.fromServer, n + 1, Len(rpc.fromServer))
<1>2. rpc.fromServer \in Seq(Line) /\ rpc.fromServer # <<>>
  BY DEF Good, Shape, BeginRead
<1>3. /\ \A i \in 1..Len(front) : i \in 1..Len(rpc.fromServer) /\ front[i] = rpc.fromServer[i]
      /\ \A i \in 1..Len(back) : /\ n + i \in 1..Len(rpc.fromServer)
                                 /\ back[i] = rpc.fromServer[n + i]
  BY <1>2
<1>4. /\ rpc'.sock = rpc.sock /\ rpc'.toWrite = rpc.toWrite /\ rpc'.unsent = rpc.unsent
      /\ rpc'.connectTimer = rpc.connectTimer /\ rpc'.requestTimer = rpc.requestTimer
      /\ rpc'.posted = rpc.posted /\ rpc'.toServer = rpc.toServer
      /\ rpc'.reading = TRUE /\ rpc'.lines = front /\ rpc'.fromServer = back
  BY <1>1 DEF Good, Shape, Fields
<1>5. Refused(rpc.fromServer) => Refused(front) /\ Refused(back)
  BY <1>3 DEF Refused
<1>6. Up(rpc)
  BY <1>2 DEF Link
<1> HIDE DEF front, back
<1>7. QED
  BY <1>4, <1>5, <1>6 DEF Link, Up

\* What keeps the client away from the pool: no connection, and no step of its own
\* that would begin one.
Away(c) == c.sock = "Unconnected" /\ ~c.connectTimer /\ ~c.reading

\* A client that does nothing until it is called.
Quiet(c) == Away(c) /\ ~c.requestTimer /\ c.posted = <<>>

\* None of the client's own slots leaves it away.
LEMMA TransportLink ==
  ASSUME NEW v \in BOOLEAN, Good(rpc), Link(rpc, v), Transport
  PROVE  Link(rpc', v) /\ ~Away(rpc')
<1>1. CASE HandleJsonRpcMethod
  BY <1>1, JsonRpcMethodLink DEF HandleJsonRpcMethod, Idle, Away
<1>2. CASE HandleBytesWritten
  <2>1. PICK n \in 1..rpc.unsent : rpc' = BytesWritten(rpc, n)
    BY <1>2 DEF HandleBytesWritten
  <2>2. QED
    BY <2>1, BytesWrittenLink DEF Away, Up
<1>3. CASE HandleConnectTimer
  <2>1. rpc' = ConnectToHost(rpc, TRUE)
    BY <1>3 DEF HandleConnectTimer
  <2>2. Link(rpc', v) /\ (rpc'.sock = "Unconnected" => rpc'.connectTimer)
    BY <2>1, ConnectLink
  <2>3. QED
    BY <2>2 DEF Away
<1>4. CASE HandleRequestTimer
  BY <1>4, ResetRequestLink DEF HandleRequestTimer, Away
<1>5. CASE BeginRead
  BY <1>5, BeginReadLink DEF Away
<1>6. CASE HandleEndRead
  BY <1>6, EndReadLink DEF HandleEndRead, Away
<1>7. QED
  BY <1>1, <1>2, <1>3, <1>4, <1>5, <1>6 DEF Transport

\* What a step of the server's leaves alone.
Still(c, d) ==
  /\ d.sock = c.sock /\ d.connectTimer = c.connectTimer /\ d.requestTimer = c.requestTimer
  /\ d.posted = c.posted /\ d.reading = c.reading

\* A server that answers anything but an error serves the connection.
LEMMA AnswerLink ==
  ASSUME NEW v \in BOOLEAN, NEW w \in BOOLEAN, NEW type \in {"result", "error"},
         Good(rpc), Link(rpc, v), Answer(type), v => w, w \/ type = "error"
  PROVE  Link(rpc', w) /\ Still(rpc, rpc') /\ Up(rpc)
<1> DEFINE r == Head(rpc.toServer)
           line == [id |-> r.id, type |-> type, answers |-> r.method]
<1>1. rpc' = [rpc EXCEPT !.toServer = Tail(@), !.fromServer = Append(@, line)]
  BY DEF Answer
<1>2. rpc.fromServer \in Seq(Line) /\ rpc.toServer # <<>>
  BY DEF Good, Shape, Answer
<1>3. \A i \in 1..Len(Append(rpc.fromServer, line)) :
        \/ i \in 1..Len(rpc.fromServer) /\ Append(rpc.fromServer, line)[i] = rpc.fromServer[i]
        \/ Append(rpc.fromServer, line)[i] = line
  BY <1>2
<1>4. /\ rpc'.fromServer = Append(rpc.fromServer, line)
      /\ rpc'.toWrite = rpc.toWrite /\ rpc'.unsent = rpc.unsent /\ rpc'.lines = rpc.lines
      /\ Still(rpc, rpc')
  BY <1>1 DEF Still, Good, Shape, Fields
<1>5. line.type = "error" /\ Refused(rpc.fromServer) => Refused(Append(rpc.fromServer, line))
  <2> HIDE DEF line
  <2>1. QED
    BY <1>3 DEF Refused
<1>6. line.type = type
  OBVIOUS
<1>7. Up(rpc)
  BY <1>2 DEF Link
<1> HIDE DEF line
<1>8. QED
  BY <1>4, <1>5, <1>6, <1>7 DEF Link, Still, Up

LEMMA NotifyLink ==
  ASSUME Good(rpc), Link(rpc, TRUE), Notify
  PROVE  Link(rpc', TRUE) /\ Still(rpc, rpc') /\ Up(rpc)
<1>1. /\ rpc'.toServer = rpc.toServer
      /\ rpc'.toWrite = rpc.toWrite /\ rpc'.unsent = rpc.unsent /\ rpc'.lines = rpc.lines
      /\ Still(rpc, rpc') /\ Up(rpc)
  BY DEF Notify, Still, Up, Good, Shape, Fields
<1>2. QED
  BY <1>1 DEF Link, Still, Up

LEMMA IgnoreLink ==
  ASSUME NEW v \in BOOLEAN, Good(rpc), Link(rpc, v), IgnoreRequest
  PROVE  Link(rpc', v) /\ Still(rpc, rpc') /\ Up(rpc)
<1>1. /\ rpc'.fromServer = rpc.fromServer
      /\ rpc'.toWrite = rpc.toWrite /\ rpc'.unsent = rpc.unsent /\ rpc'.lines = rpc.lines
      /\ Still(rpc, rpc') /\ rpc.toServer # <<>>
  BY DEF IgnoreRequest, Still, Good, Shape, Fields
<1>2. Up(rpc)
  BY <1>1 DEF Link
<1>3. QED
  BY <1>1, <1>2 DEF Link, Still, Up

\* Nothing happens to a quiet client but calls of its own methods.
LEMMA QuietStays ==
  ASSUME NEW v \in BOOLEAN, Good(rpc), Link(rpc, v), Quiet(rpc)
  PROVE  /\ ~Transport /\ ~Up(rpc) /\ rpc.lines = <<>> /\ rpc.sock = "Unconnected"
<1>1. /\ ~Up(rpc) /\ rpc.lines = <<>> /\ rpc.fromServer = <<>> /\ rpc.unsent = 0
      /\ rpc.sock = "Unconnected"
  BY DEF Quiet, Away, Link, Up
<1>2. ~HandleJsonRpcMethod /\ ~HandleConnectTimer /\ ~HandleRequestTimer /\ ~HandleEndRead
  BY DEF Quiet, Away, HandleJsonRpcMethod, HandleConnectTimer, HandleRequestTimer, HandleEndRead
<1>3. ~HandleBytesWritten /\ ~BeginRead
  BY <1>1 DEF HandleBytesWritten, BeginRead
<1>4. QED
  BY <1>1, <1>2, <1>3 DEF Transport

-----------------------------------------------------------------------------
(* The queue moves: what the pool clients rest on for it.  forgot says that *)
(* connectToHost was called on this connection with bytes unsent.          *)

\* The count of bytes is that of the socket, and of one request at most.
Exact(c) == Up(c) => c.toWrite = c.unsent /\ c.unsent \in {0, 1}

Flow(c, forgot) ==
  /\ c.queue # <<>> => c.sock # "Unconnected" \/ c.connectTimer
  /\ forgot \/ Exact(c)
  /\ c.queue # <<>> /\ Up(c) => forgot \/ c.posted # <<>> \/ c.toWrite = 1

\* What Flow is about.
Flowing == {"sock", "connectTimer", "posted", "queue", "toWrite", "unsent"}

LEMMA SameFlow ==
  ASSUME NEW c, NEW d, NEW m \in BOOLEAN, Flow(c, m), \A x \in Flowing : d[x] = c[x]
  PROVE  Flow(d, m)
<1>1. /\ d.sock = c.sock /\ d.connectTimer = c.connectTimer /\ d.posted = c.posted
      /\ d.queue = c.queue /\ d.toWrite = c.toWrite /\ d.unsent = c.unsent
  BY DEF Flowing
<1>2. QED
  BY <1>1 DEF Flow, Exact, Up

\* A client whose connection and requests are given up.
LEMMA EmptyFlow ==
  ASSUME NEW c, NEW m \in BOOLEAN, c.queue = <<>>, ~Up(c)
  PROVE  Flow(c, m)
BY DEF Flow, Exact

\* sendRequest leaves a request in the queue only if another is being written, or if
\* there is no connection.
LEMMA SendFlow ==
  ASSUME NEW c, Good(c), NEW m \in BOOLEAN, m \/ Exact(c), Up(c) => ~c.connectTimer
  PROVE  Flow(SendRequest(c), m)
<1> DEFINE d == SendRequest(c)
<1>0. c.toWrite \in Int /\ c.unsent \in Nat
  BY DEF Good, Shape
<1>1. CASE c.connectTimer
  <2>1. d = c
    BY <1>1 DEF SendRequest
  <2>2. QED
    BY <1>1, <2>1 DEF Flow, Exact
<1>2. CASE ~c.connectTimer /\ ~Up(c)
  <2>1. d = ConnectToHost(c, FALSE)
    BY <1>2 DEF SendRequest, Up
  <2>2. d.sock = "Connecting"
    BY <1>2, <2>1 DEF ConnectToHost, Up, Good, Shape, Fields
  <2> HIDE DEF d
  <2>3. QED
    BY <2>2 DEF Flow, Exact, Up, d
<1>3. CASE ~c.connectTimer /\ Up(c) /\ (c.toWrite > 0 \/ c.queue = <<>>)
  <2>1. d = c
    BY <1>3 DEF SendRequest, Up
  <2>2. c.toWrite > 0 => m \/ c.toWrite = 1
    BY <1>0, <1>3 DEF Exact
  <2>3. QED
    BY <1>3, <2>1, <2>2 DEF Flow, Up
<1>4. CASE ~c.connectTimer /\ Up(c) /\ ~(c.toWrite > 0) /\ c.queue # <<>>
  <2> DEFINE r == Head(c.queue)
  <2>1. d = [c EXCEPT !.queue = Tail(@), !.inProgress = @ \cup {r}, !.toWrite = 1,
                      !.unsent = @ + 1, !.toServer = Append(@, r), !.requestTimer = TRUE]
    BY <1>4 DEF SendRequest, Up
  <2>2. d.sock = c.sock /\ d.toWrite = 1 /\ d.unsent = c.unsent + 1
    BY <2>1 DEF Good, Shape, Fields
  <2>3. m \/ c.unsent = 0
    BY <1>0, <1>4 DEF Exact
  <2> HIDE DEF d
  <2>4. Flow(d, m)
    BY <1>0, <1>4, <2>2, <2>3 DEF Flow, Exact, Up
  <2>5. QED
    BY <2>4 DEF d
<1>5. QED
  BY <1>1, <1>2, <1>3, <1>4

LEMMA PostFlow ==
  ASSUME NEW c, Good(c), NEW v \in BOOLEAN, Link(c, v), NEW k \in Methods,
         NEW m \in BOOLEAN, Flow(c, m)
  PROVE  Flow(Post(c, k), m)
<1> DEFINE d == Post(c, k)
<1>1. d.posted # <<>> /\ \A x \in Fields \ {"posted"} : d[x] = c[x]
  BY PostLink
<1> HIDE DEF d
<1>2. /\ d.sock = c.sock /\ d.connectTimer = c.connectTimer
      /\ d.queue = c.queue /\ d.toWrite = c.toWrite /\ d.unsent = c.unsent
  BY <1>1 DEF Fields
<1>3. Flow(d, m)
  BY <1>1, <1>2 DEF Flow, Exact, Up
<1>4. QED
  BY <1>3 DEF d

LEMMA ResetFlow ==
  ASSUME NEW c, Good(c), NEW m \in BOOLEAN, Flow(c, m)
  PROVE  Flow(Reset(c, FALSE), m)
<1> DEFINE d == Reset(c, FALSE)
<1>1. d.queue = <<>> /\ d.sock = c.sock /\ d.toWrite = c.toWrite /\ d.unsent = c.unsent
  BY DEF Reset, Good, Shape, Fields
<1> HIDE DEF d
<1>2. Flow(d, m)
  BY <1>1 DEF Flow, Exact, Up
<1>3. QED
  BY <1>2 DEF d

LEMMA ProcessDataFlow ==
  ASSUME NEW c, Good(c), NEW m \in BOOLEAN, Flow(c, m), NEW line
  PROVE  Flow(ProcessData(c, line), m)
<1>1. \A x \in Flowing : ProcessData(c, line)[x] = c[x]
  BY DEF ProcessData, Good, Shape, Fields, Flowing
<1>2. QED
  BY <1>1, SameFlow

\* What is given up has no request left, whether it connects again or not.
LEMMA DropFlow ==
  ASSUME NEW c, Good(c), NEW m \in BOOLEAN
  PROVE  /\ Flow(DisconnectFromHost(c), m) /\ Flow(SocketError(c), m) /\ Flow(ResetRequest(c), m)
         /\ Flow(ConnectToHost(DisconnectFromHost(c), FALSE), m)
<1> DEFINE d == DisconnectFromHost(c)
           e == SocketError(c)
           f == ResetRequest(c)
           g == ConnectToHost(d, FALSE)
<1>1. d.queue = <<>> /\ ~Up(d)
  BY DEF DisconnectFromHost, Reset, Abort, Up, Good, Shape, Fields
<1>2. e.queue = <<>> /\ ~Up(e)
  BY DEF SocketError, Reset, Abort, Up, Good, Shape, Fields
<1>3. f.queue = <<>> /\ ~Up(f)
  BY DEF ResetRequest, ConnectToHost, Reset, Abort, Up, Good, Shape, Fields
<1>4. g.queue = <<>> /\ ~Up(g)
  <2>1. Good(d)
    BY DisconnectGood
  <2> HIDE DEF d
  <2>2. QED
    BY <1>1, <2>1 DEF ConnectToHost, Up, Good, Shape, Fields
<1> HIDE DEF d, e, f, g
<1>5. Flow(d, m) /\ Flow(e, m) /\ Flow(f, m) /\ Flow(g, m)
  BY <1>1, <1>2, <1>3, <1>4, EmptyFlow
<1>6. QED
  BY <1>5 DEF d, e, f, g

\* connectToHost of the application's: on a live connection it forgets the bytes unsent.
LEMMA ConnectFlow ==
  ASSUME NEW c, Good(c), NEW v \in BOOLEAN, Link(c, v), NEW m \in BOOLEAN, Flow(c, m),
         NEW w \in BOOLEAN, w = (m \/ (Up(c) /\ ConnectToHost(c, FALSE).toWrite < c.unsent))
  PROVE  Flow(ConnectToHost(c, FALSE), w)
<1> DEFINE d == ConnectToHost(c, FALSE)
<1>1. /\ d.sock = IF Up(c) \/ c.connectTimer THEN c.sock ELSE "Connecting"
      /\ d.toWrite = 0 /\ d.unsent = c.unsent /\ d.queue = c.queue
      /\ d.connectTimer = c.connectTimer /\ d.posted = c.posted
  BY DEF ConnectToHost, Up, Good, Shape, Fields
<1>2. c.unsent \in Nat /\ w = (m \/ (Up(c) /\ d.toWrite < c.unsent))
  BY DEF Good, Shape
<1> HIDE DEF d
<1>3. Up(d) <=> Up(c)
  BY <1>1 DEF Up
<1>4. Up(c) /\ ~w => ~m /\ c.unsent = 0
  <2>1. Up(c) /\ ~w => ~m /\ ~(d.toWrite < c.unsent)
    BY <1>2, Zenon
  <2>2. ~(d.toWrite < c.unsent) => c.unsent = 0
    BY <1>1, <1>2
  <2>3. QED
    BY <2>1, <2>2
<1>5. (d.sock = "Unconnected" => d.connectTimer) /\ (m => w)
  BY <1>1, <1>2 DEF Up
<1>6. w \/ Exact(d)
  BY <1>1, <1>3, <1>4 DEF Exact
<1>7. c.queue # <<>> /\ Up(c) /\ ~w => c.posted # <<>>
  BY <1>4 DEF Flow, Exact
<1>8. Flow(d, w)
  BY <1>1, <1>3, <1>5, <1>6, <1>7 DEF Flow
<1>9. QED
  BY <1>8 DEF d

\* A connection comes up with a call posted: requests that waited for it are written
\* then, if the connect timer held them back.
LEMMA ConnectedFlow ==
  ASSUME NEW c, Good(c), NEW v \in BOOLEAN, Link(c, v), c.sock = "Connecting", ~c.reading,
         c.posted # <<>>, NEW m \in BOOLEAN
  PROVE  Flow(Connected(c), m)
<1> DEFINE b == [c EXCEPT !.sock = "Connected"]
           s == SendRequest(b)
           d == Connected(c)
<1>1. d = [s EXCEPT !.connectTimer = FALSE]
  BY DEF Connected
<1>2. Up(d) /\ d.posted = c.posted
  BY ConnectedLink
<1>3. b.toWrite = 0 /\ b.unsent = 0
  BY DEF Link, Up, Good, Shape, Fields
<1>4. \/ s = b
      \/ s.toWrite = 1 /\ s.unsent = 1
  BY <1>3 DEF SendRequest, Good, Shape, Fields
<1>5. d.toWrite = s.toWrite /\ d.unsent = s.unsent
  BY <1>1, <1>4 DEF SendRequest, Good, Shape, Fields
<1> HIDE DEF b, s, d
<1>6. Flow(d, m)
  BY <1>2, <1>3, <1>4, <1>5 DEF Flow, Exact, Up
<1>7. QED
  BY <1>6 DEF d

LEMMA BytesWrittenFlow ==
  ASSUME NEW c, Good(c), NEW v \in BOOLEAN, Link(c, v), NEW n \in 1..c.unsent,
         NEW m \in BOOLEAN, Flow(c, m)
  PROVE  Flow(BytesWritten(c, n), m)
<1> DEFINE b == [c EXCEPT !.unsent = @ - n, !.toWrite = @ - n]
<1>1. c.toWrite \in Int /\ c.unsent \in Nat /\ n \in Int /\ 1 <= n /\ n <= c.unsent
  BY DEF Good, Shape
<1>2. Up(c) /\ ~c.connectTimer
  BY <1>1 DEF Link
<1>3. /\ b = [x \in Fields |-> b[x]]
      /\ b.sock = c.sock /\ b.toWrite = c.toWrite - n /\ b.unsent = c.unsent - n
      /\ b.queue = c.queue /\ b.inProgress = c.inProgress
      /\ b.connectTimer = c.connectTimer /\ b.requestTimer = c.requestTimer
      /\ b.posted = c.posted /\ b.toServer = c.toServer /\ b.fromServer = c.fromServer
      /\ b.reading = c.reading /\ b.lines = c.lines
  BY DEF Good, Shape, Fields
<1>4. BytesWritten(c, n) = IF b.toWrite = 0 THEN SendRequest(b) ELSE b
  BY DEF BytesWritten
<1> HIDE DEF b
<1>5. Good(b)
  <2>1. c.toWrite - n \in Int /\ c.unsent - n \in Nat /\ c.toWrite - n <= c.unsent - n
    BY <1>1, <1>2 DEF Good, Counted, Up
  <2>2. Shape(b)
    BY <1>3, <2>1 DEF Good, Shape
  <2>3. QED
    BY <1>3, <2>1, <2>2 DEF Good, Counted, OneTimer, Distinct
<1>6. m \/ (b.toWrite = 0 /\ b.unsent = 0)
  BY <1>1, <1>2, <1>3 DEF Flow, Exact
<1>7. m \/ Exact(b)
  BY <1>6 DEF Exact
<1>8. Up(b) /\ ~b.connectTimer
  BY <1>2, <1>3 DEF Up
<1>9. CASE b.toWrite = 0
  BY <1>4, <1>5, <1>7, <1>8, <1>9, SendFlow
<1>10. CASE b.toWrite # 0
  <2>1. m /\ b.sock # "Unconnected"
    BY <1>6, <1>8, <1>10 DEF Up
  <2>2. QED
    BY <1>4, <1>10, <2>1 DEF Flow
<1>11. QED
  BY <1>9, <1>10

\* Every slot of the client's leaves the queue moving.
LEMMA TransportFlow ==
  ASSUME NEW v \in BOOLEAN, Good(rpc), Link(rpc, v), NEW m \in BOOLEAN, Flow(rpc, m), Transport
  PROVE  Flow(rpc', m)
<1>0. (Up(rpc) => ~rpc.connectTimer) /\ (m \/ Exact(rpc))
  BY DEF Link, Flow
<1>1. CASE HandleJsonRpcMethod
  <2> DEFINE r == [id |-> FreshId(rpc), method |-> Head(rpc.posted)]
             b == [rpc EXCEPT !.posted = Tail(@), !.queue = Append(@, r)]
  <2>1. rpc' = SendRequest(b) /\ rpc.posted # <<>> /\ Ids \ IdsInUse(rpc) # {}
    BY <1>1 DEF HandleJsonRpcMethod, JsonRpcMethod
  <2>2. FreshId(rpc) \in Ids \ IdsInUse(rpc)
    BY <2>1 DEF FreshId
  <2>3. /\ rpc.posted \in Seq(Methods) /\ Head(rpc.posted) \in Methods
        /\ Tail(rpc.posted) \in Seq(Methods)
    BY <2>1 DEF Good, Shape
  <2>4. r \in Request /\ r.id \notin IdsInUse(rpc)
    BY <2>2, <2>3 DEF Request
  <2>5. Good(b)
    BY <2>3, <2>4, AppendGood
  <2>6. /\ b.sock = rpc.sock /\ b.toWrite = rpc.toWrite /\ b.unsent = rpc.unsent
        /\ b.connectTimer = rpc.connectTimer
    BY DEF Good, Shape, Fields
  <2> HIDE DEF b
  <2>7. (Up(b) => ~b.connectTimer) /\ (m \/ Exact(b))
    BY <1>0, <2>6 DEF Up, Exact
  <2>8. QED
    BY <2>1, <2>5, <2>7, SendFlow
<1>2. CASE HandleBytesWritten
  BY <1>2, BytesWrittenFlow DEF HandleBytesWritten
<1>3. CASE HandleConnectTimer
  <2>1. rpc' = ConnectToHost(rpc, TRUE) /\ ~Up(rpc)
    BY <1>0, <1>3 DEF HandleConnectTimer
  <2>2. rpc'.sock = "Connecting"
    BY <2>1 DEF ConnectToHost, Up, Good, Shape, Fields
  <2>3. QED
    BY <2>2 DEF Flow, Exact, Up
<1>4. CASE HandleRequestTimer
  BY <1>4, DropFlow DEF HandleRequestTimer
<1>5. CASE BeginRead
  <2>1. \A x \in Flowing : rpc'[x] = rpc[x]
    BY <1>5 DEF BeginRead, Good, Shape, Fields, Flowing
  <2>2. QED
    BY <2>1, SameFlow
<1>6. CASE HandleEndRead
  <2> DEFINE b == [rpc EXCEPT !.reading = FALSE]
  <2>1. rpc' = SendRequest(b)
    BY <1>6 DEF HandleEndRead, EndRead
  <2>2. b = [rpc EXCEPT !.reading = FALSE, !.toServer = rpc.toServer,
                        !.fromServer = rpc.fromServer, !.lines = rpc.lines]
    BY DEF Good, Shape, Fields
  <2>3. rpc.toServer \in Seq(Request) /\ rpc.fromServer \in Seq(Line) /\ rpc.lines \in Seq(Line)
    BY DEF Good, Shape
  <2>4. /\ b.sock = rpc.sock /\ b.toWrite = rpc.toWrite /\ b.unsent = rpc.unsent
        /\ b.connectTimer = rpc.connectTimer
    BY DEF Good, Shape, Fields
  <2> HIDE DEF b
  <2>5. Good(b)
    BY <2>2, <2>3, LinesGood
  <2>6. (Up(b) => ~b.connectTimer) /\ (m \/ Exact(b))
    BY <1>0, <2>4 DEF Up, Exact
  <2>7. QED
    BY <2>1, <2>5, <2>6, SendFlow
<1>7. QED
  BY <1>1, <1>2, <1>3, <1>4, <1>5, <1>6 DEF Transport

\* The server's steps are not about the queue.
LEMMA ServerFlow ==
  ASSUME Good(rpc), NEW m \in BOOLEAN, Flow(rpc, m), Server
  PROVE  Flow(rpc', m)
<1>1. \A x \in Flowing : rpc'[x] = rpc[x]
  <2>1. CASE IgnoreRequest
    BY <2>1 DEF IgnoreRequest, Good, Shape, Fields, Flowing
  <2>2. CASE Notify
    BY <2>2 DEF Notify, Good, Shape, Fields, Flowing
  <2>3. CASE \E type \in {"result", "error"} : Answer(type)
    BY <2>3 DEF Answer, Good, Shape, Fields, Flowing
  <2>4. QED
    BY <2>1, <2>2, <2>3 DEF Server
<1>2. QED
  BY <1>1, SameFlow
=============================================================================
