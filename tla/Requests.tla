------------------------------ MODULE Requests ------------------------------
(***************************************************************************)
(* What the JSON-RPC client promises about requests and its connection,    *)
(* and nothing of how it keeps the promise: requests are written in the    *)
(* order they were asked for, each at most once and on a live connection;  *)
(* a request that was written waits for its answer on that connection and  *)
(* is settled at most once; nothing that was written outlives the          *)
(* connection, and nothing that was dropped comes back.                    *)
(*                                                                         *)
(* JsonRpcClient implements this specification.                            *)
(***************************************************************************)
EXTENDS Naturals, Sequences, SequencesExt

CONSTANT Ids

VARIABLES
  open,     \* the connection is up
  queue,    \* ids of the requests asked for, oldest first
  waiting   \* ids of those written and not yet settled

requests == <<open, queue, waiting>>

Init == open = FALSE /\ queue = <<>> /\ waiting = {}

\* A request is asked for under an id that no other request has.
Asked == {queue} \cup {Append(queue, i) : i \in Ids \ (ToSet(queue) \cup waiting)}

\* The oldest request may be written, on a live connection.
Write(q) ==
  \/ queue' = q /\ waiting' = waiting
  \/ open' /\ q # <<>> /\ queue' = Tail(q) /\ waiting' = waiting \cup {Head(q)}

\* A request is asked for, or may be written, or both.
Proceed == open' = open /\ \E q \in Asked : Write(q)

Open == ~open /\ open' = TRUE /\ Write(queue)

\* A waiting request is settled, by its answer; the queue may be dropped too.
Settle ==
  /\ open' = open
  /\ waiting' = waiting \/ \E i \in waiting : waiting' = waiting \ {i}
  /\ queue' \in {queue, <<>>}

\* All that was asked for is given up; the connection may be lost.
Drop == open' \in {open, FALSE} /\ queue' = <<>> /\ waiting' = {}

Next == Proceed \/ Open \/ Settle \/ Drop

Spec == Init /\ [][Next]_requests
=============================================================================
