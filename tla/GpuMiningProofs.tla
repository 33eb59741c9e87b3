-------------------------- MODULE GpuMiningProofs --------------------------
(* Proofs about GpuMining, for any number of coins and any bound.          *)
EXTENDS GpuMining, WellFoundedInduction, TLAPS

-----------------------------------------------------------------------------
(* The coin that minerHasGpuRunned finds *)

LEMMA Least ==
  ASSUME NEW T, T \subseteq Nat, T # {}
  PROVE  \E x \in T : \A y \in T : ~(y < x)
<1> DEFINE R == OpToRel(<, Nat)
<1>1. IsWellFoundedOn(R, Nat)
  BY NatLessThanWellFounded
<1>2. \A x, y \in Nat : y < x => <<y, x>> \in R
  BY DEF OpToRel
<1> HIDE DEF R
<1>3. PICK x \in T : \A y \in T : ~(<<y, x>> \in R)
  BY <1>1, WFMin
<1>4. \A y \in T : ~(y < x)
  <2> TAKE y \in T
  <2>1. x \in Nat /\ y \in Nat
    OBVIOUS
  <2>2. <<y, x>> \notin R
    BY <1>3
  <2>3. QED
    BY <1>2, <2>1, <2>2
<1>5. QED
  BY <1>4

\* There is one when a setting says that a coin runs.
LEMMA FirstRunningIsOne ==
  ASSUME {d \in Coins : coin[d].setting} # {}
  PROVE  FirstRunning \in Coins /\ coin[FirstRunning].setting
<1> DEFINE running == {d \in Coins : coin[d].setting}
<1>1. running \subseteq Nat /\ running # {} /\ N \in Nat
  BY GpuAssumption DEF Coins
<1>2. PICK x \in running : \A y \in running : ~(y < x)
  BY <1>1, Least
<1>3. x \in Coins /\ coin[x].setting /\ \A e \in 1..(x - 1) : ~coin[e].setting
  BY <1>1, <1>2 DEF Coins
<1>4. QED
  BY <1>3 DEF FirstRunning

-----------------------------------------------------------------------------
(* The types, of a worker, of what is kept of a coin and of the main thread *)

Places == {"idle", "enter", "load", "check", "store", "left", "exit"}

Workers == [pc : Places, starts : Nat, thread : {"running", "quitting", "finished"}]

Kept == [setting : BOOLEAN, made : BOOLEAN, listening : BOOLEAN,
         finished : Nat, timers : Nat, lowShown : BOOLEAN]

Tasks == [op : Ops, of : 0..N, sync : BOOLEAN, next : 0..N]

Typed ==
  /\ st \in [Coins -> States] /\ worker \in [Coins -> Workers] /\ coin \in [Coins -> Kept]
  /\ main \in Tasks /\ (main.op = "free" \/ main.of \in Coins)
  /\ low \in BOOLEAN /\ missed \in [Coins -> BOOLEAN] /\ calls \in 0..MaxCalls

LEMMA TypedIsType == Typed <=> GpuTypeOK
<1>1. Places = {"idle", "enter", "left", "exit"} \cup Inside
  BY DEF Places, Inside
<1>2. QED
  BY <1>1 DEF Typed, GpuTypeOK, Workers, Kept, Tasks

LEMMA InitTyped == Init => Typed
<1> SUFFICES ASSUME Init PROVE Typed
  OBVIOUS
<1>1. N \in Nat /\ MaxCalls \in Nat
  BY GpuAssumption
<1>2. PICK s \in [Coins -> BOOLEAN] :
        coin = [c \in Coins |-> [setting |-> s[c], made |-> FALSE, listening |-> FALSE,
                                 finished |-> 0, timers |-> 0, lowShown |-> FALSE]]
  BY DEF Init
<1>3. coin \in [Coins -> Kept]
  BY <1>2 DEF Kept
<1>4. st \in [Coins -> States] /\ worker \in [Coins -> Workers]
  BY DEF Init, States, Workers, Places
<1>5. main \in Tasks /\ main.op = "free"
  BY <1>1 DEF Init, Free, Tasks, Ops
<1>6. low \in BOOLEAN /\ calls = 0
  BY DEF Init
<1>7. missed \in [Coins -> BOOLEAN]
  BY DEF Init
<1>8. calls \in 0..MaxCalls
  BY <1>1, <1>6
<1>9. QED
  BY <1>3, <1>4, <1>5, <1>6, <1>7, <1>8 DEF Typed

\* One coin's part of a function changes.
LEMMA OneChanges ==
  ASSUME NEW S, NEW f \in [Coins -> S], NEW c \in Coins, NEW x \in S
  PROVE  /\ [f EXCEPT ![c] = x] \in [Coins -> S]
         /\ [f EXCEPT ![c] = x][c] = x
         /\ \A d \in Coins \ {c} : [f EXCEPT ![c] = x][d] = f[d]
OBVIOUS

-----------------------------------------------------------------------------
(* The inductive invariant *)

\* The worker of c will not enter its miner: no start is queued, or it finds Stopping.
Done(c) == missed[c] \/ (worker[c].starts = 0 /\ worker[c].pc \in {"idle", "left", "exit"})

Down(c) == Done(c) \/ (st[c] = "Stopping" /\ worker[c].pc # "exit")

\* Of each coin.
Sound(c) ==
  /\ worker[c].pc \in Inside => st[c] # "Exit"
  /\ worker[c].pc = "idle" => st[c] # "Mining"
  /\ ~coin[c].made => Dark(c)

Asked(c) ==
  /\ coin[c].listening \/ Down(c)
  /\ Busy(c) \/ coin[c].setting \/ Down(c)

\* A job that is being stored for a worker does not keep it from being noticed.
Noticed(c) ==
  coin[c].setting /\ coin[c].made /\ Dark(c) =>
    \/ coin[c].finished > 0 \/ coin[c].timers > 0 \/ coin[c].lowShown
    \/ st[c] = "Stopping"
    \/ Busy(c) /\ ~(main.op = "job" /\ main.next = 0)

\* Of two coins.
Apart(c, d) == c # d => Down(c) \/ Down(d)

\* Of the main thread: what it stops ends up down, and all but the coin it starts are down.
OthersDown(c) == \A d \in Coins \ {c, main.of} : Down(d)

Starts == main.op \in {"begin", "post"} \/ (main.op = "job" /\ main.next # 0)

Stops == main.op \in {"look", "tell", "quit", "wait", "unlisten"}

Ordered ==
  /\ Stops /\ main.next # 0 => OthersDown(main.next)
  /\ Starts => OthersDown(main.of)
  /\ main.op = "begin" => main.next = 0
  /\ main.op = "post" => main.next = main.of
  /\ main.op = "job" => main.next \in {0, main.of}
  /\ main.op \in {"quit", "wait", "unlisten"} => Down(main.of)
  /\ main.op = "unlisten" => ~coin[main.of].setting
  /\ Starts /\ main.op # "begin" => coin[main.of].listening /\ coin[main.of].made
  /\ main.op = "job" /\ main.next = 0 =>
       \/ Done(main.of)
       \/ coin[main.of].setting /\ coin[main.of].listening /\ OthersDown(main.of)
  /\ main.op = "job" /\ st[main.of] = "Stopping" => worker[main.of].pc \in {"left", "exit"}

GInv ==
  /\ Typed
  /\ \A c \in Coins : Sound(c) /\ Asked(c) /\ Noticed(c)
  /\ \A c, d \in Coins : Apart(c, d)
  /\ Ordered

-----------------------------------------------------------------------------
(* The steps of a worker *)

\* A step of c's worker, or of its miner, changes only what is c's.
Own(c) ==
  /\ main' = main
  /\ \A d \in Coins \ {c} : /\ worker'[d] = worker[d] /\ st'[d] = st[d]
                            /\ coin'[d] = coin[d] /\ missed'[d] = missed[d]
  /\ coin'[c].setting = coin[c].setting /\ coin'[c].made = coin[c].made
  /\ coin'[c].listening = coin[c].listening /\ coin'[c].timers = coin[c].timers
  /\ coin'[c].lowShown = coin[c].lowShown /\ coin'[c].finished >= coin[c].finished

\* What is kept of c by such a step.
Moves(c) ==
  /\ worker'[c].pc \in Inside => st'[c] # "Exit"
  /\ worker'[c].pc = "idle" => st'[c] # "Mining"
  /\ Dark(c) => Dark(c)'
  /\ Done(c) => Done(c)'
  /\ Down(c) => Down(c)'
  /\ st'[c] = "Stopping" /\ worker'[c].pc \notin {"left", "exit"} =>
       st[c] = "Stopping" /\ worker[c].pc \notin {"left", "exit"}
  /\ Dark(c)' => \/ st'[c] = "Stopping" \/ coin'[c].finished > 0
                 \/ Dark(c) /\ st'[c] = st[c]

\* A step of a worker or of its miner.
Thread(c) ==
  \/ Deliver(c) \/ Enter(c) \/ Leave(c) \/ CopyJob(c) \/ Check(c) \/ Store(c) \/ Fail(c)
  \/ Left(c) \/ Finish(c) \/ EndLoop(c)

\* The worker moves and nothing else.
LEMMA OnlyMoves ==
  ASSUME Typed, NEW c \in Coins, NEW w \in Workers, worker' = [worker EXCEPT ![c] = w],
         UNCHANGED <<st, coin, main, low, missed, calls>>
  PROVE  Typed' /\ Own(c) /\ worker'[c] = w
<1>1. worker' \in [Coins -> Workers] /\ worker'[c] = w
      /\ \A d \in Coins \ {c} : worker'[d] = worker[d]
  BY OneChanges DEF Typed
<1>2. coin[c].finished \in Nat
  BY DEF Typed, Kept
<1>3. QED
  BY <1>1, <1>2 DEF Typed, Own

LEMMA DeliverMoves ==
  ASSUME Typed, NEW c \in Coins, Sound(c), Deliver(c)
  PROVE  Typed' /\ Own(c) /\ Moves(c)
<1> DEFINE p == IF st[c] = "Stopping" THEN "idle" ELSE "enter"
           n == worker[c].starts - 1
           w == [worker[c] EXCEPT !.starts = n, !.pc = p]
<1>1. worker[c] \in Workers /\ worker[c].starts \in Nat /\ worker[c].starts > 0
      /\ worker[c].pc = "idle"
  BY DEF Typed, Workers, Deliver
<1>2. n \in Nat /\ p \in Places
  BY <1>1 DEF Places
<1>3. worker' = [worker EXCEPT ![c] = w]
  BY DEF Deliver
<1>4. w \in Workers /\ w.pc = p /\ w.starts = n
  <2> HIDE DEF p, n
  <2>1. QED
    BY <1>1, <1>2 DEF Workers
<1> HIDE DEF w
<1>5. Typed' /\ Own(c) /\ worker'[c] = w
  BY <1>3, <1>4, OnlyMoves DEF Deliver
<1>6. Moves(c)
  BY <1>1, <1>4, <1>5 DEF Moves, Done, Down, Dark, Inside, Deliver
<1>7. QED
  BY <1>5, <1>6

\* A worker goes to another place.
LEMMA Goes ==
  ASSUME Typed, NEW c \in Coins, NEW p \in Places, worker' = [worker EXCEPT ![c].pc = p]
  PROVE  \E w \in Workers : /\ worker' = [worker EXCEPT ![c] = w]
                            /\ w.pc = p /\ w.starts = worker[c].starts
<1> DEFINE w == [worker[c] EXCEPT !.pc = p]
<1>1. worker[c] \in Workers
  BY DEF Typed
<1>2. w \in Workers /\ w.pc = p /\ w.starts = worker[c].starts
  BY <1>1 DEF Workers
<1>3. worker' = [worker EXCEPT ![c] = w]
  OBVIOUS
<1>4. QED
  BY <1>2, <1>3

\* A worker moves and stores its state.
LEMMA Changes ==
  ASSUME Typed, NEW c \in Coins, NEW w \in Workers, NEW s \in States, NEW m \in BOOLEAN,
         worker' = [worker EXCEPT ![c] = w], st' = [st EXCEPT ![c] = s],
         missed' = [missed EXCEPT ![c] = m], low' \in BOOLEAN, UNCHANGED <<coin, main, calls>>
  PROVE  Typed' /\ Own(c) /\ worker'[c] = w /\ st'[c] = s /\ missed'[c] = m
<1>1. worker' \in [Coins -> Workers] /\ worker'[c] = w
      /\ \A d \in Coins \ {c} : worker'[d] = worker[d]
  BY OneChanges DEF Typed
<1>2. st' \in [Coins -> States] /\ st'[c] = s /\ \A d \in Coins \ {c} : st'[d] = st[d]
  BY OneChanges DEF Typed
<1>3. missed' \in [Coins -> BOOLEAN] /\ missed'[c] = m
      /\ \A d \in Coins \ {c} : missed'[d] = missed[d]
  BY OneChanges DEF Typed
<1>4. coin[c].finished \in Nat
  BY DEF Typed, Kept
<1>5. QED
  BY <1>1, <1>2, <1>3, <1>4 DEF Typed, Own

LEMMA WalksTo ==
  ASSUME Typed, NEW c \in Coins, Sound(c), NEW p \in Places, p \in {"left", "check", "store", "load"},
         worker[c].pc \in {"load", "check"}, worker' = [worker EXCEPT ![c].pc = p],
         p = "left" => st[c] \in {"Exit", "Stopping"},
         UNCHANGED <<st, coin, main, low, missed, calls>>
  PROVE  Typed' /\ Own(c) /\ Moves(c)
<1> DEFINE w == [worker[c] EXCEPT !.pc = p]
<1>a. worker[c] \in Workers /\ worker' = [worker EXCEPT ![c] = w]
  BY DEF Typed
<1>1. w \in Workers /\ w.pc = p /\ w.starts = worker[c].starts
  BY <1>a DEF Workers
<1> HIDE DEF w
<1>2. Typed' /\ Own(c) /\ worker'[c] = w
  BY <1>a, <1>1, OnlyMoves
<1>3. Moves(c)
  BY <1>1, <1>2 DEF Moves, Done, Down, Dark, Inside, Sound
<1>4. QED
  BY <1>2, <1>3

LEMMA WalkMoves ==
  ASSUME Typed, NEW c \in Coins, Sound(c), Leave(c) \/ CopyJob(c) \/ Check(c)
  PROVE  Typed' /\ Own(c) /\ Moves(c)
<1>1. UNCHANGED <<st, coin, main, low, missed, calls>>
  BY DEF Leave, CopyJob, Check
<1>2. CASE Leave(c)
  BY <1>1, <1>2, WalksTo DEF Leave, At, Places
<1>3. CASE CopyJob(c)
  BY <1>1, <1>3, WalksTo DEF CopyJob, At, Places
<1>4. CASE Check(c)
  <2> DEFINE p == IF st[c] = "UpdateJob" THEN "store" ELSE "load"
  <2>1. worker[c].pc = "check" /\ worker' = [worker EXCEPT ![c].pc = p]
    BY <1>4 DEF Check, At
  <2>2. p \in Places /\ p \in {"store", "load"}
    BY DEF Places
  <2> HIDE DEF p
  <2>3. QED
    BY <1>1, <2>1, <2>2, WalksTo
<1>5. QED
  BY <1>2, <1>3, <1>4

LEMMA StoreMoves ==
  ASSUME Typed, NEW c \in Coins, Sound(c), Enter(c) \/ Store(c)
  PROVE  Typed' /\ Own(c) /\ Moves(c)
<1> DEFINE m == missed[c] \/ st[c] = "Stopping"
<1>1. PICK s \in {"UpdateJob", "Mining"} :
        /\ worker[c].pc \in {"enter", "store"} /\ worker' = [worker EXCEPT ![c].pc = "load"]
        /\ st' = [st EXCEPT ![c] = s]
  BY DEF Enter, Store, At
<1>2. missed' = [missed EXCEPT ![c] = m] /\ UNCHANGED <<coin, main, calls>>
  BY DEF Enter, Store
<1>3. low' \in BOOLEAN
  BY DEF Enter, Store, Typed
<1>4. PICK w \in Workers :
        worker' = [worker EXCEPT ![c] = w] /\ w.pc = "load" /\ w.starts = worker[c].starts
  BY <1>1, Goes DEF Places
<1>5. m \in BOOLEAN /\ s \in States
  BY <1>1 DEF Typed, States
<1>6. Typed' /\ Own(c) /\ worker'[c] = w /\ st'[c] = s /\ missed'[c] = m
  <2> HIDE DEF m
  <2>1. QED
    BY <1>1, <1>2, <1>3, <1>4, <1>5, Changes
<1>7. Moves(c)
  BY <1>1, <1>4, <1>6 DEF Moves, Done, Down, Dark, Inside
<1>8. QED
  BY <1>6, <1>7

LEMMA FailMoves ==
  ASSUME Typed, NEW c \in Coins, Sound(c), Fail(c)
  PROVE  Typed' /\ Own(c) /\ Moves(c)
<1>1. PICK s \in {st[c], "Exit", "Stopping"} :
        /\ st' = [st EXCEPT ![c] = s]
        /\ missed' = [missed EXCEPT ![c] = @ \/ (st[c] = "Stopping" /\ s = "Exit")]
  BY DEF Fail
<1> DEFINE m == missed[c] \/ (st[c] = "Stopping" /\ s = "Exit")
<1>2. /\ worker[c].pc \in {"load", "check"} /\ worker' = [worker EXCEPT ![c].pc = "left"]
      /\ missed' = [missed EXCEPT ![c] = m] /\ UNCHANGED <<coin, main, calls>>
  BY <1>1 DEF Fail
<1>3. low' \in BOOLEAN
  BY DEF Fail, Typed
<1>4. PICK w \in Workers :
        worker' = [worker EXCEPT ![c] = w] /\ w.pc = "left" /\ w.starts = worker[c].starts
  BY <1>2, Goes DEF Places
<1>5. m \in BOOLEAN /\ s \in States
  BY <1>1 DEF Typed, States
<1>6. Typed' /\ Own(c) /\ worker'[c] = w /\ st'[c] = s /\ missed'[c] = m
  <2> HIDE DEF m
  <2>1. st' = [st EXCEPT ![c] = s]
    BY <1>1
  <2>2. QED
    BY <1>2, <1>3, <1>4, <1>5, <2>1, Changes
<1>7. Moves(c)
  BY <1>1, <1>2, <1>4, <1>6 DEF Moves, Done, Down, Dark, Inside
<1>8. QED
  BY <1>6, <1>7

LEMMA LeftMoves ==
  ASSUME Typed, NEW c \in Coins, Sound(c), Left(c)
  PROVE  Typed' /\ Own(c) /\ Moves(c)
<1> DEFINE n == IF st[c] = "Stopping" THEN 0 ELSE worker[c].starts
           w == [worker[c] EXCEPT !.pc = "exit", !.starts = n]
<1>1. worker[c] \in Workers /\ worker[c].starts \in Nat /\ worker[c].pc = "left"
  BY DEF Typed, Workers, Left
<1>2. n \in Nat
  BY <1>1
<1>3. worker' = [worker EXCEPT ![c] = w]
  BY DEF Left
<1>4. w \in Workers /\ w.pc = "exit" /\ w.starts = n
  <2> HIDE DEF n
  <2>1. QED
    BY <1>1, <1>2 DEF Workers, Places
<1> HIDE DEF w
<1>5. Typed' /\ Own(c) /\ worker'[c] = w
  BY <1>3, <1>4, OnlyMoves DEF Left
<1>6. Moves(c)
  BY <1>1, <1>4, <1>5 DEF Moves, Done, Down, Dark, Inside, Left
<1>7. QED
  BY <1>5, <1>6

LEMMA FinishMoves ==
  ASSUME Typed, NEW c \in Coins, Sound(c), Finish(c)
  PROVE  Typed' /\ Own(c) /\ Moves(c)
<1> DEFINE m == missed[c] /\ worker[c].starts > 0
           k == [coin[c] EXCEPT !.finished = coin[c].finished + 1]
<1>1. /\ worker[c].pc = "exit" /\ worker' = [worker EXCEPT ![c].pc = "idle"]
      /\ st' = [st EXCEPT ![c] = "Exit"] /\ coin' = [coin EXCEPT ![c] = k]
      /\ missed' = [missed EXCEPT ![c] = m] /\ UNCHANGED <<main, low, calls>>
  BY DEF Finish, At
<1>2. PICK w \in Workers :
        worker' = [worker EXCEPT ![c] = w] /\ w.pc = "idle" /\ w.starts = worker[c].starts
  BY <1>1, Goes DEF Places
<1>3. worker' \in [Coins -> Workers] /\ worker'[c] = w
      /\ \A d \in Coins \ {c} : worker'[d] = worker[d]
  BY <1>2, OneChanges DEF Typed
<1>4. st' \in [Coins -> States] /\ st'[c] = "Exit" /\ \A d \in Coins \ {c} : st'[d] = st[d]
  <2>1. "Exit" \in States
    BY DEF States
  <2>2. QED
    BY <1>1, <2>1, OneChanges DEF Typed
<1>5. missed' \in [Coins -> BOOLEAN] /\ missed'[c] = m
      /\ \A d \in Coins \ {c} : missed'[d] = missed[d]
  <2>1. m \in BOOLEAN
    BY DEF Typed
  <2> HIDE DEF m
  <2>2. QED
    BY <1>1, <2>1, OneChanges DEF Typed
<1>6. k \in Kept /\ k.finished > 0 /\ k.finished >= coin[c].finished
      /\ k.setting = coin[c].setting /\ k.made = coin[c].made /\ k.listening = coin[c].listening
      /\ k.timers = coin[c].timers /\ k.lowShown = coin[c].lowShown
  <2>1. coin[c] \in Kept /\ coin[c].finished \in Nat
    BY DEF Typed, Kept
  <2>2. QED
    BY <2>1 DEF Kept
<1>7. coin' \in [Coins -> Kept] /\ coin'[c] = k /\ \A d \in Coins \ {c} : coin'[d] = coin[d]
  <2> HIDE DEF k
  <2>1. QED
    BY <1>1, <1>6, OneChanges DEF Typed
<1> HIDE DEF k
<1>8. Typed' /\ Own(c)
  BY <1>1, <1>3, <1>4, <1>5, <1>6, <1>7 DEF Typed, Own
<1>9. worker[c].starts \in Nat
  BY DEF Typed, Workers
<1>10. Moves(c)
  <2>1. worker'[c].pc = "idle" /\ worker'[c].starts = worker[c].starts /\ st'[c] = "Exit"
    BY <1>2, <1>3, <1>4
  <2>2. coin'[c].finished > 0
    BY <1>6, <1>7
  <2>3. Done(c) => Done(c)'
    <3>1. CASE worker[c].starts = 0
      BY <2>1, <3>1 DEF Done
    <3>2. CASE worker[c].starts > 0
      <4>1. missed[c] => missed'[c]
        BY <1>5, <3>2
      <4>2. Done(c) => missed[c]
        BY <3>2 DEF Done
      <4>3. QED
        BY <4>1, <4>2 DEF Done
    <3>3. QED
      BY <1>9, <3>1, <3>2
  <2>4. QED
    BY <1>1, <2>1, <2>2, <2>3 DEF Moves, Down, Dark, Inside
<1>11. QED
  BY <1>8, <1>10

LEMMA EndLoopMoves ==
  ASSUME Typed, NEW c \in Coins, Sound(c), EndLoop(c)
  PROVE  Typed' /\ Own(c) /\ Moves(c)
<1> DEFINE w == [worker[c] EXCEPT !.thread = "finished"]
<1>1. worker[c] \in Workers /\ worker' = [worker EXCEPT ![c] = w]
  BY DEF Typed, EndLoop
<1>2. w \in Workers /\ w.pc = worker[c].pc /\ w.starts = worker[c].starts
  BY <1>1 DEF Workers
<1> HIDE DEF w
<1>3. Typed' /\ Own(c) /\ worker'[c] = w
  BY <1>1, <1>2, OnlyMoves DEF EndLoop
<1>4. Moves(c)
  BY <1>2, <1>3 DEF Moves, Done, Down, Dark, Inside, Sound, EndLoop
<1>5. QED
  BY <1>3, <1>4

\* No step of a worker disturbs the invariant: for the other coins nothing changes.
LEMMA ThreadGood ==
  ASSUME GInv, NEW c \in Coins, Thread(c)
  PROVE  GInv'
<1>1. Typed /\ Sound(c)
  BY DEF GInv
<1>2. Typed' /\ Own(c) /\ Moves(c)
  BY <1>1, DeliverMoves, StoreMoves, WalkMoves, FailMoves, LeftMoves, FinishMoves, EndLoopMoves
     DEF Thread
<1>3. \A d \in Coins : /\ Down(d) => Down(d)'
                       /\ Done(d) => Done(d)'
                       /\ Busy(d)' <=> Busy(d)
  BY <1>2 DEF Own, Moves, Down, Done, Busy
<1>4. \A d \in Coins : (Sound(d) /\ Asked(d) /\ Noticed(d))'
  <2> SUFFICES ASSUME NEW d \in Coins PROVE (Sound(d) /\ Asked(d) /\ Noticed(d))'
    OBVIOUS
  <2>1. CASE d = c
    <3>1. Sound(c) /\ Asked(c) /\ Noticed(c)
      BY DEF GInv
    <3>2. Sound(c)'
      BY <1>2, <3>1 DEF Own, Moves, Sound
    <3>3. Asked(c)'
      BY <1>2, <1>3, <3>1 DEF Own, Asked
    <3>4. coin[c].finished \in Nat /\ coin'[c].finished \in Nat
      BY <1>1, <1>2 DEF Typed, Kept
    <3>5. Noticed(c)'
      BY <1>2, <1>3, <3>1, <3>4 DEF Own, Moves, Noticed
    <3>6. QED
      BY <2>1, <3>2, <3>3, <3>5
  <2>2. CASE d # c
    <3>1. Sound(d) /\ Asked(d) /\ Noticed(d)
      BY DEF GInv
    <3>2. QED
      BY <1>2, <1>3, <2>2, <3>1 DEF Own, Sound, Asked, Noticed, Dark, Down, Done
  <2>3. QED
    BY <2>1, <2>2
<1>5. \A d, e \in Coins : Apart(d, e)'
  BY <1>3 DEF GInv, Apart
<1>6. Ordered'
  <2>1. main' = main /\ (main.op = "free" \/ main.of \in Coins)
    BY <1>1, <1>2 DEF Own, Typed
  <2>2. \A d : OthersDown(d) => OthersDown(d)'
    BY <1>3, <2>1 DEF OthersDown
  <2>3. \A d \in Coins : /\ coin'[d].setting = coin[d].setting
                         /\ coin'[d].listening = coin[d].listening /\ coin'[d].made = coin[d].made
                         /\ st'[d] = "Stopping" /\ worker'[d].pc \notin {"left", "exit"} =>
                              st[d] = "Stopping" /\ worker[d].pc \notin {"left", "exit"}
    BY <1>2 DEF Own, Moves
  <2>4. Ordered
    BY DEF GInv
  <2>5. Starts' <=> Starts
    BY <2>1 DEF Starts
  <2>6. Stops' <=> Stops
    BY <2>1 DEF Stops
  <2>7. CASE main.op = "free"
    BY <2>1, <2>7 DEF Ordered, Starts, Stops
  <2>8. CASE main.of \in Coins
    BY <1>3, <2>1, <2>2, <2>3, <2>4, <2>5, <2>6, <2>8 DEF Ordered
  <2>9. QED
    BY <2>1, <2>7, <2>8
<1>7. QED
  BY <1>2, <1>4, <1>5, <1>6 DEF GInv

-----------------------------------------------------------------------------
(* The steps of the main thread *)

\* The workers are where they were.
Resting ==
  \A d \in Coins : /\ worker'[d].pc = worker[d].pc /\ worker'[d].starts = worker[d].starts
                   /\ st'[d] = st[d] /\ (missed[d] => missed'[d])

LEMMA RestingKeeps ==
  ASSUME Resting
  PROVE  \A d \in Coins : /\ Down(d) => Down(d)'
                          /\ Done(d) => Done(d)'
                          /\ Dark(d)' <=> Dark(d)
BY DEF Resting, Down, Done, Dark

\* What the main thread keeps of a coin, but for what the user sees and what is on its way.
SameKept(d) ==
  /\ coin'[d].setting = coin[d].setting /\ coin'[d].made = coin[d].made
  /\ coin'[d].listening = coin[d].listening

SameNotice(d) ==
  /\ coin'[d].finished = coin[d].finished /\ coin'[d].timers = coin[d].timers
  /\ coin'[d].lowShown = coin[d].lowShown

\* A free main thread begins to stop a coin.
LEMMA BeginsToStop ==
  ASSUME GInv, NEW c \in Coins, main.op = "free", Typed',
         main'.op = "look", main'.of = c, main'.next = 0, Resting,
         \A d \in Coins : SameKept(d), \A d \in Coins \ {c} : SameNotice(d)
  PROVE  GInv'
<1>1. \A d \in Coins : /\ Down(d) => Down(d)'
                       /\ Done(d) => Done(d)'
                       /\ Dark(d)' <=> Dark(d)
  BY RestingKeeps
<1>2. \A d \in Coins : ~Busy(d) /\ (Busy(d)' <=> d = c)
  BY DEF Busy, Coins
<1>3. \A d \in Coins : (Sound(d) /\ Asked(d) /\ Noticed(d))'
  <2> SUFFICES ASSUME NEW d \in Coins PROVE (Sound(d) /\ Asked(d) /\ Noticed(d))'
    OBVIOUS
  <2>1. Sound(d) /\ Asked(d) /\ Noticed(d)
    BY DEF GInv
  <2>2. Sound(d)'
    BY <1>1, <2>1 DEF Sound, Resting, SameKept
  <2>3. Asked(d)'
    BY <1>1, <1>2, <2>1 DEF Asked, SameKept
  <2>4. Noticed(d)'
    BY <1>1, <1>2, <2>1 DEF Noticed, SameKept, SameNotice, Resting
  <2>5. QED
    BY <2>2, <2>3, <2>4
<1>4. \A d, e \in Coins : Apart(d, e)'
  BY <1>1 DEF GInv, Apart
<1>5. Ordered'
  BY DEF Ordered, Starts, Stops
<1>6. QED
  BY <1>3, <1>4, <1>5 DEF GInv

\* One coin's record changes.
LEMMA OneKept ==
  ASSUME Typed, NEW c \in Coins, NEW k \in Kept, coin' = [coin EXCEPT ![c] = k]
  PROVE  /\ coin' \in [Coins -> Kept] /\ coin'[c] = k
         /\ \A d \in Coins \ {c} : coin'[d] = coin[d]
BY OneChanges DEF Typed

LEMMA NullCoin == 0 \notin Coins /\ Coins \subseteq 0..N /\ 0 \in 0..N
BY GpuAssumption DEF Coins

LEMMA StopGpuGood ==
  ASSUME GInv, NEW c \in Coins, StopGpu(c)
  PROVE  GInv'
<1> DEFINE k == [coin[c] EXCEPT !.lowShown = FALSE]
<1>1. Typed /\ coin[c] \in Kept
  BY DEF GInv, Typed
<1>2. /\ k \in Kept /\ k.setting = coin[c].setting /\ k.made = coin[c].made
      /\ k.listening = coin[c].listening
  BY <1>1 DEF Kept
<1>3. coin' = [coin EXCEPT ![c] = k]
  BY DEF StopGpu
<1> HIDE DEF k
<1>4. coin' \in [Coins -> Kept] /\ coin'[c] = k /\ \A d \in Coins \ {c} : coin'[d] = coin[d]
  BY <1>1, <1>2, <1>3, OneKept
<1>5. /\ main.op = "free" /\ main' = Stopping(c, FALSE, 0)
      /\ UNCHANGED <<st, worker, low, missed>> /\ calls' \in 0..MaxCalls
  BY <1>1, GpuAssumption DEF StopGpu, Called, Typed
<1>6. main' \in Tasks /\ main'.op = "look" /\ main'.of = c /\ main'.next = 0
  BY <1>5, NullCoin DEF Stopping, Tasks, Ops
<1>7. Typed'
  BY <1>1, <1>4, <1>5, <1>6 DEF Typed
<1>8. Resting
  BY <1>5 DEF Resting
<1>9. \A d \in Coins : SameKept(d) /\ (d # c => SameNotice(d))
  BY <1>2, <1>4 DEF SameKept, SameNotice
<1>10. QED
  BY <1>5, <1>6, <1>7, <1>8, <1>9, BeginsToStop

\* The main thread stays free, or takes a job, while what is on its way changes.
LEMMA StaysFree ==
  ASSUME GInv, NEW c \in Coins, main.op = "free", Typed', main' = main, Resting,
         \A d \in Coins : SameKept(d), \A d \in Coins \ {c} : SameNotice(d),
         coin[c].setting =>
           coin'[c].finished > 0 \/ coin'[c].timers > 0 \/ coin'[c].lowShown
  PROVE  GInv'
<1>1. \A d \in Coins : /\ Down(d) => Down(d)'
                       /\ Done(d) => Done(d)'
                       /\ Dark(d)' <=> Dark(d)
  BY RestingKeeps
<1>2. \A d \in Coins : ~Busy(d) /\ ~Busy(d)'
  BY DEF Busy
<1>3. \A d \in Coins : (Sound(d) /\ Asked(d) /\ Noticed(d))'
  <2> SUFFICES ASSUME NEW d \in Coins PROVE (Sound(d) /\ Asked(d) /\ Noticed(d))'
    OBVIOUS
  <2>1. Sound(d) /\ Asked(d) /\ Noticed(d)
    BY DEF GInv
  <2>2. Sound(d)'
    BY <1>1, <2>1 DEF Sound, Resting, SameKept
  <2>3. Asked(d)'
    BY <1>1, <1>2, <2>1 DEF Asked, SameKept
  <2>4. Noticed(d)'
    BY <1>1, <1>2, <2>1 DEF Noticed, SameKept, SameNotice, Resting
  <2>5. QED
    BY <2>2, <2>3, <2>4
<1>4. \A d, e \in Coins : Apart(d, e)'
  BY <1>1 DEF GInv, Apart
<1>5. Ordered'
  BY DEF Ordered, Starts, Stops
<1>6. QED
  BY <1>3, <1>4, <1>5 DEF GInv

LEMMA FinishedGood ==
  ASSUME GInv, NEW c \in Coins, Finished(c)
  PROVE  GInv'
<1> DEFINE t == IF low THEN coin[c].timers ELSE coin[c].timers + 1
           k == [coin[c] EXCEPT !.finished = coin[c].finished - 1, !.timers = t,
                                !.lowShown = coin[c].lowShown \/ low]
<1>1. /\ Typed /\ coin[c] \in Kept /\ coin[c].finished \in Nat /\ coin[c].finished > 0
      /\ coin[c].timers \in Nat /\ coin[c].lowShown \in BOOLEAN /\ low \in BOOLEAN
  BY DEF GInv, Typed, Kept, Finished
<1>2. coin' = [coin EXCEPT ![c] = k]
  BY DEF Finished
<1>3. t \in Nat /\ (low \/ t > 0) /\ coin[c].finished - 1 \in Nat
  BY <1>1
<1>4. /\ k \in Kept /\ k.setting = coin[c].setting /\ k.made = coin[c].made
      /\ k.listening = coin[c].listening /\ k.timers = t
      /\ k.lowShown = (coin[c].lowShown \/ low)
  <2> HIDE DEF t
  <2>1. (coin[c].lowShown \/ low) \in BOOLEAN
    BY <1>1
  <2>2. QED
    BY <1>1, <1>3, <2>1 DEF Kept
<1> HIDE DEF k, t
<1>5. coin' \in [Coins -> Kept] /\ coin'[c] = k /\ \A d \in Coins \ {c} : coin'[d] = coin[d]
  BY <1>1, <1>2, <1>4, OneKept
<1>6. main.op = "free" /\ UNCHANGED <<st, worker, main, low, missed, calls>>
  BY DEF Finished
<1>7. Typed'
  BY <1>1, <1>5, <1>6 DEF Typed
<1>8. Resting
  BY <1>6 DEF Resting
<1>9. \A d \in Coins : SameKept(d) /\ (d # c => SameNotice(d))
  BY <1>4, <1>5 DEF SameKept, SameNotice
<1>10. coin'[c].timers > 0 \/ coin'[c].lowShown
  BY <1>3, <1>4, <1>5
<1>11. QED
  BY <1>6, <1>7, <1>8, <1>9, <1>10, StaysFree

LEMMA TimerFiresGood ==
  ASSUME GInv, NEW c \in Coins, TimerFires(c)
  PROVE  GInv'
<1> DEFINE k == [coin[c] EXCEPT !.timers = coin[c].timers - 1]
<1>1. /\ Typed /\ coin[c] \in Kept /\ coin[c].timers \in Nat /\ coin[c].timers > 0
  BY DEF GInv, Typed, Kept, TimerFires
<1>2. coin' = [coin EXCEPT ![c] = k]
  BY DEF TimerFires
<1>3. /\ k \in Kept /\ k.setting = coin[c].setting /\ k.made = coin[c].made
      /\ k.listening = coin[c].listening
  BY <1>1 DEF Kept
<1> HIDE DEF k
<1>4. coin' \in [Coins -> Kept] /\ coin'[c] = k /\ \A d \in Coins \ {c} : coin'[d] = coin[d]
  BY <1>1, <1>2, <1>3, OneKept
<1>5. /\ main.op = "free" /\ UNCHANGED <<st, worker, low, missed, calls>>
      /\ main' = IF coin[c].setting THEN Stopping(c, FALSE, 0) ELSE main
  BY DEF TimerFires
<1>6. main' \in Tasks /\ (main'.op = "free" \/ main'.of = c)
  BY <1>1, <1>5, NullCoin DEF Stopping, Tasks, Ops, Typed
<1>7. Typed'
  BY <1>1, <1>4, <1>5, <1>6 DEF Typed
<1>8. Resting
  BY <1>5 DEF Resting
<1>9. \A d \in Coins : SameKept(d) /\ (d # c => SameNotice(d))
  BY <1>3, <1>4 DEF SameKept, SameNotice
<1>10. CASE coin[c].setting
  <2>1. main'.op = "look" /\ main'.of = c /\ main'.next = 0
    BY <1>5, <1>10 DEF Stopping
  <2>2. QED
    BY <1>5, <1>7, <1>8, <1>9, <2>1, BeginsToStop
<1>11. CASE ~coin[c].setting
  BY <1>5, <1>7, <1>8, <1>9, <1>11, StaysFree
<1>12. QED
  BY <1>10, <1>11

\* A job is for a worker that is asked for, or that will not mine whatever it is told.
LEMMA UpdateJobGood ==
  ASSUME GInv, NEW c \in Coins, UpdateJob(c)
  PROVE  GInv'
<1>1. /\ Typed /\ main.op = "free" /\ coin[c].listening /\ st[c] \in {"Mining", "UpdateJob"}
      /\ UNCHANGED <<st, worker, coin, low, missed>> /\ calls' \in 0..MaxCalls
      /\ main' = [Free EXCEPT !.op = "job", !.of = c]
  BY GpuAssumption DEF GInv, Typed, UpdateJob, Called
<1>2. main' \in Tasks /\ main'.op = "job" /\ main'.of = c /\ main'.next = 0
  BY <1>1, NullCoin DEF Free, Tasks, Ops
<1>3. Typed'
  BY <1>1, <1>2 DEF Typed
<1>4. \A d \in Coins : /\ Down(d)' <=> Down(d)
                       /\ Done(d)' <=> Done(d)
                       /\ Dark(d)' <=> Dark(d)
  BY <1>1 DEF Down, Done, Dark
<1>5. \A d \in Coins : ~Busy(d) /\ (Busy(d)' <=> d = c)
  BY <1>1, <1>2, NullCoin DEF Busy
<1>6. \A d \in Coins : (Sound(d) /\ Asked(d) /\ Noticed(d))'
  <2> SUFFICES ASSUME NEW d \in Coins PROVE (Sound(d) /\ Asked(d) /\ Noticed(d))'
    OBVIOUS
  <2>1. Sound(d) /\ Asked(d) /\ Noticed(d)
    BY DEF GInv
  <2>2. QED
    BY <1>1, <1>2, <1>4, <1>5, <2>1 DEF Sound, Asked, Noticed
<1>7. \A d, e \in Coins : Apart(d, e)'
  BY <1>4 DEF GInv, Apart
<1>8. Ordered'
  <2>1. Asked(c) /\ \A d \in Coins : Apart(c, d)
    BY DEF GInv
  <2>2. Done(c) \/ ~Down(c)
    BY <1>1 DEF Down
  <2>3. Done(c) \/ (coin[c].setting /\ coin[c].listening /\ \A d \in Coins \ {c} : Down(d))
    BY <1>1, <1>5, <2>1, <2>2 DEF Asked, Apart
  <2>4. Done(c)' \/ (coin'[c].setting /\ coin'[c].listening /\ OthersDown(c)')
    BY <1>1, <1>2, <1>4, <2>3 DEF OthersDown
  <2>5. st'[c] # "Stopping"
    BY <1>1
  <2>6. QED
    BY <1>2, <2>4, <2>5 DEF Ordered, Starts, Stops
<1>9. QED
  BY <1>3, <1>6, <1>7, <1>8 DEF GInv

\* A free main thread takes up a coin, perhaps after another that is to be stopped.
LEMMA BeginsToStart ==
  ASSUME GInv, NEW c \in Coins, main.op = "free", Typed', Resting,
         \A d \in Coins : SameKept(d),
         \A d \in Coins : SameNotice(d) \/ d = main'.of \/ ~coin[d].made,
         \/ main'.op = "look" /\ main'.of \in Coins /\ main'.next = c
         \/ main'.op = "begin" /\ main'.of = c /\ main'.next = 0,
         \A d \in Coins \ {c, main'.of} : Down(d)'
  PROVE  GInv'
<1>1. \A d \in Coins : /\ Down(d) => Down(d)'
                       /\ Done(d) => Done(d)'
                       /\ Dark(d)' <=> Dark(d)
  BY RestingKeeps
<1>2. \A d \in Coins : ~Busy(d) /\ (Busy(d)' <=> d \in {c, main'.of})
  BY NullCoin DEF Busy
<1>3. \A d \in Coins : (Sound(d) /\ Asked(d) /\ Noticed(d))'
  <2> SUFFICES ASSUME NEW d \in Coins PROVE (Sound(d) /\ Asked(d) /\ Noticed(d))'
    OBVIOUS
  <2>1. Sound(d) /\ Asked(d) /\ Noticed(d) /\ SameKept(d)
    BY DEF GInv
  <2>2. Sound(d)'
    BY <1>1, <2>1 DEF Sound, Resting, SameKept
  <2>3. Asked(d)'
    BY <1>1, <1>2, <2>1 DEF Asked, SameKept
  <2>4. CASE Busy(d)'
    BY <2>2, <2>3, <2>4 DEF Noticed
  <2>5. CASE ~Busy(d)'
    <3>1. SameNotice(d) \/ ~coin[d].made
      BY <1>2, <2>5
    <3>2. Noticed(d)'
      BY <1>1, <1>2, <2>1, <3>1 DEF Noticed, SameKept, SameNotice, Resting
    <3>3. QED
      BY <2>2, <2>3, <3>2
  <2>6. QED
    BY <2>4, <2>5
<1>4. \A d, e \in Coins : Apart(d, e)'
  BY <1>1 DEF GInv, Apart
<1>5. Ordered'
  <2>1. CASE main'.op = "look"
    <3>1. main'.next = c
      BY <2>1
    <3>2. OthersDown(c)'
      BY DEF OthersDown
    <3>3. QED
      BY <2>1, <3>1, <3>2 DEF Ordered, Starts, Stops
  <2>2. CASE main'.op = "begin"
    <3>1. main'.of = c /\ main'.next = 0
      BY <2>2
    <3>2. OthersDown(c)'
      BY <3>1 DEF OthersDown
    <3>3. QED
      BY <2>2, <3>1, <3>2 DEF Ordered, Starts, Stops
  <2>3. QED
    BY <2>1, <2>2
<1>6. QED
  BY <1>3, <1>4, <1>5 DEF GInv

LEMMA StartGpuGood ==
  ASSUME GInv, NEW c \in Coins, StartGpu(c)
  PROVE  GInv'
<1> DEFINE running == {d \in Coins : coin[d].setting}
<1>1. /\ Typed /\ main.op = "free" /\ UNCHANGED <<st, worker, low>> /\ calls' \in 0..MaxCalls
  BY GpuAssumption DEF GInv, Typed, StartGpu, Called
<1>2. \A d \in Coins \ running : Down(d)
  BY <1>1 DEF GInv, Asked, Busy
<1>3. CASE running = {}
  <2>1. main' = Starting(c) /\ UNCHANGED <<coin, missed>>
    BY <1>3 DEF StartGpu
  <2>2. main' \in Tasks /\ main'.op = "begin" /\ main'.of = c /\ main'.next = 0
    BY <2>1, NullCoin DEF Starting, Tasks, Ops
  <2>3. Typed'
    BY <1>1, <2>1, <2>2 DEF Typed
  <2>4. Resting
    BY <1>1, <2>1 DEF Resting
  <2>5. \A d \in Coins : SameKept(d) /\ SameNotice(d)
    BY <2>1 DEF SameKept, SameNotice
  <2>6. \A d \in Coins : Down(d)'
    BY <1>2, <1>3, <2>4, RestingKeeps
  <2> HIDE DEF running
  <2>7. QED
    BY <1>1, <2>2, <2>3, <2>4, <2>5, <2>6, BeginsToStart
<1>4. CASE running # {}
  <2> DEFINE f == FirstRunning
             k == [coin[f] EXCEPT !.lowShown = FALSE]
  <2>1. f \in Coins
    BY <1>4, FirstRunningIsOne
  <2>2. /\ main' = (IF coin[f].made THEN Stopping(f, TRUE, c) ELSE Starting(c))
        /\ coin' = [coin EXCEPT ![f].lowShown = FALSE]
        /\ missed' = [d \in Coins |-> missed[d] \/ (d \in running /\ d # c /\ d # f)]
    BY <1>4 DEF StartGpu
  <2> HIDE DEF f, running
  <2>3. coin' = [coin EXCEPT ![f] = k] /\ coin[f] \in Kept
    BY <1>1, <2>1, <2>2 DEF Typed
  <2>4. /\ k \in Kept /\ k.setting = coin[f].setting /\ k.made = coin[f].made
        /\ k.listening = coin[f].listening
    BY <2>3 DEF Kept
  <2> HIDE DEF k
  <2>5. coin' \in [Coins -> Kept] /\ coin'[f] = k /\ \A d \in Coins \ {f} : coin'[d] = coin[d]
    BY <1>1, <2>1, <2>3, <2>4, OneKept
  <2>6. /\ main' \in Tasks /\ main'.of \in Coins
        /\ \/ main'.op = "look" /\ main'.of = f /\ main'.next = c
           \/ main'.op = "begin" /\ main'.of = c /\ main'.next = 0 /\ ~coin[f].made
    BY <2>1, <2>2, NullCoin DEF Stopping, Starting, Tasks, Ops
  <2>7. missed' \in [Coins -> BOOLEAN] /\ \A d \in Coins : missed[d] => missed'[d]
    BY <2>2
  <2>8. Typed'
    BY <1>1, <2>5, <2>6, <2>7 DEF Typed
  <2>9. Resting
    BY <1>1, <2>7 DEF Resting
  <2>10. \A d \in Coins : SameKept(d) /\ (d # f => SameNotice(d))
    BY <2>4, <2>5 DEF SameKept, SameNotice
  <2>11. ASSUME NEW d \in Coins \ {c, main'.of} PROVE Down(d)'
    <3>1. CASE d \notin running
      BY <1>2, <2>9, <3>1, RestingKeeps
    <3>2. CASE d \in running /\ d # f
      BY <2>2, <2>11, <3>2 DEF Down, Done
    <3>3. CASE d = f
      <4>1. ~coin[f].made
        BY <2>6, <2>11, <3>3
      <4>2. Down(f)
        BY <2>1, <4>1 DEF GInv, Sound, Down, Done, Dark
      <4>3. QED
        BY <2>1, <2>9, <3>3, <4>2, RestingKeeps
    <3>4. QED
      BY <3>1, <3>2, <3>3
  <2>12. \A d \in Coins : SameNotice(d) \/ d = main'.of \/ ~coin[d].made
    BY <2>6, <2>10
  <2>13. \/ main'.op = "look" /\ main'.of \in Coins /\ main'.next = c
         \/ main'.op = "begin" /\ main'.of = c /\ main'.next = 0
    BY <2>1, <2>6
  <2>14. QED
    BY <1>1, <2>8, <2>9, <2>10, <2>11, <2>12, <2>13, BeginsToStart
<1>5. QED
  BY <1>3, <1>4

\* The main thread goes on with the coin it stops: its setting may be withdrawn.
LEMMA GoesOn ==
  ASSUME GInv, NEW c \in Coins, c = main.of, Typed', Resting,
         main.op # "free", main'.op \in Ops \ {"free", "job"},
         main'.of = main.of, main'.next = main.next,
         \A d \in Coins \ {c} : coin'[d] = coin[d],
         coin'[c].made = coin[c].made, coin'[c].listening = coin[c].listening,
         Ordered'
  PROVE  GInv'
<1>1. \A d \in Coins : /\ Down(d) => Down(d)'
                       /\ Done(d) => Done(d)'
                       /\ Dark(d)' <=> Dark(d)
  BY RestingKeeps
<1>2. \A d \in Coins : (Busy(d)' <=> Busy(d)) /\ (d = c => Busy(d)')
  BY DEF Busy
<1>3. \A d \in Coins : (Sound(d) /\ Asked(d) /\ Noticed(d))'
  <2> SUFFICES ASSUME NEW d \in Coins PROVE (Sound(d) /\ Asked(d) /\ Noticed(d))'
    OBVIOUS
  <2>1. Sound(d) /\ Asked(d) /\ Noticed(d)
    BY DEF GInv
  <2>2. CASE d = c
    BY <1>1, <1>2, <2>1, <2>2 DEF Sound, Asked, Noticed, Resting
  <2>3. CASE d # c
    BY <1>1, <1>2, <2>1, <2>3 DEF Sound, Asked, Noticed, Resting
  <2>4. QED
    BY <2>2, <2>3
<1>4. \A d, e \in Coins : Apart(d, e)'
  BY <1>1 DEF GInv, Apart
<1>5. QED
  BY <1>3, <1>4 DEF GInv

\* The main thread's record when only its place changes.
LEMMA TaskMoves ==
  ASSUME NEW m \in Tasks, NEW o \in Ops
  PROVE  LET x == [m EXCEPT !.op = o]
         IN  x \in Tasks /\ x.op = o /\ x.of = m.of /\ x.next = m.next /\ x.sync = m.sync
BY DEF Tasks

\* While it goes on, what is to be down stays so.
LEMMA StillOrdered ==
  ASSUME GInv, Resting, Stops, main'.of = main.of, main'.next = main.next,
         main'.op \in {"tell", "quit", "wait", "unlisten"},
         main'.op # "tell" => Down(main.of)',
         main'.op = "unlisten" => ~coin'[main.of].setting
  PROVE  Ordered'
<1>1. main.next # 0 => OthersDown(main.next)'
  BY RestingKeeps DEF GInv, Ordered, OthersDown
<1>2. QED
  BY <1>1 DEF Ordered, Starts, Stops

LEMMA LookGood ==
  ASSUME GInv, Look
  PROVE  GInv'
<1> DEFINE c == main.of
           o == IF st[c] = "Exit" THEN "quit" ELSE "tell"
           m == missed[c] \/ (st[c] = "Exit" /\ (worker[c].starts > 0 \/ worker[c].pc = "enter"))
<1>1. /\ Typed /\ main.op = "look" /\ main' = [main EXCEPT !.op = o]
      /\ UNCHANGED <<st, worker, coin, low, calls>> /\ missed' = [missed EXCEPT ![c] = m]
  BY DEF GInv, Look
<1>2. c \in Coins /\ main \in Tasks
  BY <1>1 DEF Typed
<1>3. o \in {"quit", "tell"} /\ {"quit", "tell"} \subseteq Ops /\ m \in BOOLEAN
  BY <1>1, <1>2 DEF Ops, Typed
<1>4. /\ main' \in Tasks /\ main'.op = o /\ main'.of = main.of /\ main'.next = main.next
  <2> HIDE DEF o
  <2>1. QED
    BY <1>1, <1>2, <1>3, TaskMoves
<1>5. missed' \in [Coins -> BOOLEAN] /\ missed'[c] = m /\ \A d \in Coins \ {c} : missed'[d] = missed[d]
  <2> HIDE DEF m, c
  <2>1. QED
    BY <1>1, <1>2, <1>3, OneChanges DEF Typed
<1>6. Typed'
  BY <1>1, <1>2, <1>4, <1>5 DEF Typed
<1>7. Resting
  BY <1>1, <1>5 DEF Resting
<1>8. o = "quit" => Down(c)'
  <2>1. worker[c].starts \in Nat /\ worker[c].pc \in Places /\ Sound(c)
    BY <1>1, <1>2 DEF Typed, Workers, GInv
  <2>2. CASE st[c] = "Exit" /\ (worker[c].starts > 0 \/ worker[c].pc = "enter")
    <3>1. missed'[c]
      BY <1>5, <2>2
    <3>2. QED
      BY <1>4, <3>1 DEF Down, Done
  <2>3. CASE st[c] = "Exit" /\ ~(worker[c].starts > 0 \/ worker[c].pc = "enter")
    <3>1. worker[c].starts = 0 /\ worker[c].pc \in {"idle", "left", "exit"}
      BY <2>1, <2>3 DEF Sound, Places, Inside
    <3>2. QED
      BY <1>1, <1>4, <1>7, <3>1 DEF Down, Done, Resting
  <2>4. QED
    BY <2>2, <2>3
<1>9. Stops
  BY <1>1 DEF Stops
<1>10. Ordered'
  <2> HIDE DEF o
  <2>1. QED
    BY <1>3, <1>4, <1>7, <1>8, <1>9, StillOrdered
<1>11. main'.op \in Ops \ {"free", "job"}
  BY <1>3, <1>4
<1> HIDE DEF c, o, m
<1>12. QED
  BY <1>1, <1>2, <1>4, <1>6, <1>7, <1>10, <1>11, GoesOn DEF c

LEMMA QuitGood ==
  ASSUME GInv, Quit
  PROVE  GInv'
<1> DEFINE c == main.of
           t == IF worker[c].thread = "running" THEN "quitting" ELSE worker[c].thread
           w == [worker[c] EXCEPT !.thread = t]
           k == [coin[c] EXCEPT !.setting = FALSE]
<1>1. /\ Typed /\ main.op = "quit" /\ UNCHANGED <<st, low, missed, calls>>
      /\ \/ /\ worker' = [worker EXCEPT ![c] = w]
            /\ main' = [main EXCEPT !.op = "wait"] /\ UNCHANGED coin
         \/ /\ coin' = [coin EXCEPT ![c] = k]
            /\ main' = [main EXCEPT !.op = "unlisten"] /\ UNCHANGED worker
  BY DEF GInv, Quit
<1>2. c \in Coins /\ main \in Tasks /\ worker[c] \in Workers /\ coin[c] \in Kept
  BY <1>1 DEF Typed
<1>3. w \in Workers /\ w.pc = worker[c].pc /\ w.starts = worker[c].starts
  <2>1. t \in {"running", "quitting", "finished"}
    BY <1>2 DEF Workers
  <2> HIDE DEF t
  <2>2. QED
    BY <1>2, <2>1 DEF Workers
<1>4. /\ k \in Kept /\ k.setting = FALSE /\ k.made = coin[c].made
      /\ k.listening = coin[c].listening
  BY <1>2 DEF Kept
<1>5. Down(c) /\ Stops
  BY <1>1 DEF GInv, Ordered, Stops
<1> HIDE DEF w, k, c
<1>6. CASE worker' = [worker EXCEPT ![c] = w] /\ main' = [main EXCEPT !.op = "wait"] /\ coin' = coin
  <2>1. worker' \in [Coins -> Workers] /\ worker'[c] = w
        /\ \A d \in Coins \ {c} : worker'[d] = worker[d]
    BY <1>1, <1>2, <1>3, <1>6, OneChanges DEF Typed
  <2>2. main' \in Tasks /\ main'.op = "wait" /\ main'.of = main.of /\ main'.next = main.next
        /\ "wait" \in Ops
    BY <1>2, <1>6, TaskMoves DEF Ops
  <2>3. Typed' /\ Resting
    BY <1>1, <1>2, <1>3, <1>6, <2>1, <2>2 DEF Typed, Resting, c
  <2>4. Ordered'
    BY <1>2, <1>5, <2>2, <2>3, RestingKeeps, StillOrdered DEF c
  <2>5. QED
    BY <1>1, <1>2, <1>6, <2>2, <2>3, <2>4, GoesOn DEF c
<1>7. CASE coin' = [coin EXCEPT ![c] = k] /\ main' = [main EXCEPT !.op = "unlisten"]
           /\ worker' = worker
  <2>1. coin' \in [Coins -> Kept] /\ coin'[c] = k /\ \A d \in Coins \ {c} : coin'[d] = coin[d]
    BY <1>1, <1>2, <1>4, <1>7, OneKept
  <2>2. main' \in Tasks /\ main'.op = "unlisten" /\ main'.of = main.of /\ main'.next = main.next
        /\ "unlisten" \in Ops
    BY <1>2, <1>7, TaskMoves DEF Ops
  <2>3. Typed' /\ Resting
    BY <1>1, <1>2, <1>7, <2>1, <2>2 DEF Typed, Resting, c
  <2>4. Ordered'
    BY <1>2, <1>4, <1>5, <2>1, <2>2, <2>3, RestingKeeps, StillOrdered DEF c
  <2>5. QED
    BY <1>1, <1>2, <1>4, <2>1, <2>2, <2>3, <2>4, GoesOn DEF c
<1>8. QED
  BY <1>1, <1>6, <1>7

LEMMA WaitGood ==
  ASSUME GInv, Wait
  PROVE  GInv'
<1> DEFINE c == main.of
           k == [coin[c] EXCEPT !.setting = FALSE]
<1>1. /\ Typed /\ main.op = "wait" /\ UNCHANGED <<st, worker, low, missed, calls>>
      /\ coin' = [coin EXCEPT ![c] = k] /\ main' = [main EXCEPT !.op = "unlisten"]
  BY DEF GInv, Wait
<1>2. c \in Coins /\ main \in Tasks /\ coin[c] \in Kept
  BY <1>1 DEF Typed
<1>3. /\ k \in Kept /\ k.setting = FALSE /\ k.made = coin[c].made
      /\ k.listening = coin[c].listening
  BY <1>2 DEF Kept
<1>4. Down(c) /\ Stops
  BY <1>1 DEF GInv, Ordered, Stops
<1> HIDE DEF k, c
<1>5. coin' \in [Coins -> Kept] /\ coin'[c] = k /\ \A d \in Coins \ {c} : coin'[d] = coin[d]
  BY <1>1, <1>2, <1>3, OneKept
<1>6. main' \in Tasks /\ main'.op = "unlisten" /\ main'.of = main.of /\ main'.next = main.next
      /\ "unlisten" \in Ops
  BY <1>1, <1>2, TaskMoves DEF Ops
<1>7. Typed' /\ Resting
  BY <1>1, <1>2, <1>5, <1>6 DEF Typed, Resting, c
<1>8. Ordered'
  BY <1>2, <1>3, <1>4, <1>5, <1>6, <1>7, RestingKeeps, StillOrdered DEF c
<1>9. QED
  BY <1>1, <1>2, <1>3, <1>5, <1>6, <1>7, <1>8, GoesOn DEF c

\* What belongs to the other coins stays.
LEMMA OthersKeep ==
  ASSUME NEW c, NEW d, worker'[d].pc = worker[d].pc, worker'[d].starts = worker[d].starts,
         st'[d] = st[d], missed'[d] = missed[d]
  PROVE  (Down(d)' <=> Down(d)) /\ (Done(d)' <=> Done(d)) /\ (Dark(d)' <=> Dark(d))
BY DEF Down, Done, Dark

LEMMA TellGood ==
  ASSUME GInv, NEW c, c = main.of, Tell
  PROVE  GInv'
<1> DEFINE m == missed[c] \/ (worker[c].pc = "exit" /\ worker[c].starts > 0)
<1>1. /\ Typed /\ main.op = "tell" /\ main' = [main EXCEPT !.op = "quit"]
      /\ UNCHANGED <<worker, coin, low, calls>>
      /\ st' = [st EXCEPT ![c] = "Stopping"] /\ missed' = [missed EXCEPT ![c] = m]
  BY DEF GInv, Tell
<1>2. c \in Coins /\ main \in Tasks
  BY <1>1 DEF Typed
<1>3. m \in BOOLEAN /\ "Stopping" \in States /\ "quit" \in Ops
  BY <1>1, <1>2 DEF Typed, States, Ops
<1>4. main' \in Tasks /\ main'.op = "quit" /\ main'.of = main.of /\ main'.next = main.next
  BY <1>1, <1>2, <1>3, TaskMoves
<1>5. c = main'.of
  BY <1>4
<1>6. missed' \in [Coins -> BOOLEAN] /\ missed'[c] = m
      /\ \A d \in Coins \ {c} : missed'[d] = missed[d]
  <2> HIDE DEF m
  <2>1. QED
    BY <1>1, <1>2, <1>3, OneChanges DEF Typed
<1>7. st' \in [Coins -> States] /\ st'[c] = "Stopping" /\ \A d \in Coins \ {c} : st'[d] = st[d]
  <2> HIDE DEF m
  <2>1. QED
    BY <1>1, <1>2, <1>3, OneChanges DEF Typed
<1>8. Typed'
  BY <1>1, <1>2, <1>4, <1>6, <1>7 DEF Typed
<1>9. worker[c].pc = "exit" => missed'[c] \/ worker[c].starts = 0
  <2>1. worker[c].starts \in Nat
    BY <1>1, <1>2 DEF Typed, Workers
  <2>2. CASE worker[c].starts > 0
    BY <1>6, <2>2
  <2>3. QED
    BY <2>1, <2>2
<1> HIDE DEF m
<1>10. Down(c)'
  BY <1>1, <1>5, <1>7, <1>9 DEF Down, Done
<1>11. \A d \in Coins : Down(d) => Down(d)'
  <2> SUFFICES ASSUME NEW d \in Coins, d # c PROVE Down(d) => Down(d)'
    BY <1>10
  <2>1. QED
    BY <1>1, <1>6, <1>7, OthersKeep
<1>12. \A d \in Coins : (Busy(d)' <=> Busy(d)) /\ (Dark(d)' <=> Dark(d))
  BY <1>1, <1>4 DEF Busy, Dark
<1>13. \A d \in Coins : (Sound(d) /\ Asked(d) /\ Noticed(d))'
  <2> SUFFICES ASSUME NEW d \in Coins PROVE (Sound(d) /\ Asked(d) /\ Noticed(d))'
    OBVIOUS
  <2>1. Sound(d) /\ Asked(d) /\ Noticed(d)
    BY DEF GInv
  <2>2. CASE d = c
    BY <1>1, <1>7, <1>10, <1>12, <2>1, <2>2 DEF Sound, Asked, Noticed
  <2>3. CASE d # c
    BY <1>1, <1>4, <1>7, <1>11, <1>12, <2>1, <2>3 DEF Sound, Asked, Noticed
  <2>4. QED
    BY <2>2, <2>3
<1>14. \A d, e \in Coins : Apart(d, e)'
  BY <1>11 DEF GInv, Apart
<1>15. Ordered'
  <2>1. main.next # 0 => OthersDown(main.next)'
    BY <1>1, <1>4, <1>11 DEF GInv, Ordered, OthersDown, Stops
  <2>2. Down(main.of)'
    BY <1>5, <1>10
  <2>3. QED
    BY <1>4, <2>1, <2>2 DEF Ordered, Starts, Stops
<1>16. QED
  BY <1>8, <1>13, <1>14, <1>15 DEF GInv

LEMMA UnlistenGood ==
  ASSUME GInv, Unlisten
  PROVE  GInv'
<1> DEFINE c == main.of
           l == coin[c].listening /\ st[c] \notin {"Exit", "Stopping"}
           k == [coin[c] EXCEPT !.listening = l]
<1>1. /\ Typed /\ main.op = "unlisten" /\ UNCHANGED <<st, worker, low, missed, calls>>
      /\ coin' = [coin EXCEPT ![c] = k]
      /\ main' = IF main.next = 0 THEN Free ELSE Starting(main.next)
  BY DEF GInv, Unlisten
<1>2. c \in Coins /\ main \in Tasks /\ coin[c] \in Kept
  BY <1>1 DEF Typed
<1>3. /\ k \in Kept /\ k.setting = coin[c].setting /\ k.made = coin[c].made
      /\ k.finished = coin[c].finished /\ k.timers = coin[c].timers
      /\ k.lowShown = coin[c].lowShown
  <2>1. l \in BOOLEAN
    BY <1>2 DEF Kept
  <2> HIDE DEF l
  <2>2. QED
    BY <1>2, <2>1 DEF Kept
<1>4. Down(c) /\ ~coin[c].setting /\ (main.next # 0 => OthersDown(main.next))
  BY <1>1 DEF GInv, Ordered, Stops
<1> HIDE DEF k, c
<1>5. coin' \in [Coins -> Kept] /\ coin'[c] = k /\ \A d \in Coins \ {c} : coin'[d] = coin[d]
  BY <1>1, <1>2, <1>3, OneKept
<1>6. main.next \in 0..N /\ (main.next # 0 => main.next \in Coins)
  BY <1>2 DEF Tasks, Coins
<1>7. /\ main' \in Tasks
      /\ \/ main.next = 0 /\ main'.op = "free"
         \/ /\ main.next \in Coins /\ main'.op = "begin"
            /\ main'.of = main.next /\ main'.next = 0
  BY <1>1, <1>6, NullCoin DEF Free, Starting, Tasks, Ops
<1>8. Typed'
  BY <1>1, <1>5, <1>7 DEF Typed
<1>9. \A d \in Coins : (Down(d)' <=> Down(d)) /\ (Dark(d)' <=> Dark(d))
  BY <1>1 DEF Down, Done, Dark
<1>10. \A d \in Coins : (Busy(d) <=> d \in {c, main.next}) /\ (Busy(d)' <=> d = main.next)
  BY <1>1, <1>7, NullCoin DEF Busy, c
<1>11. \A d \in Coins : (Sound(d) /\ Asked(d) /\ Noticed(d))'
  <2> SUFFICES ASSUME NEW d \in Coins PROVE (Sound(d) /\ Asked(d) /\ Noticed(d))'
    OBVIOUS
  <2>1. Sound(d) /\ Asked(d) /\ Noticed(d)
    BY DEF GInv
  <2>2. CASE d = c
    BY <1>1, <1>3, <1>4, <1>5, <1>9, <2>1, <2>2 DEF Sound, Asked, Noticed
  <2>3. CASE d # c
    <3>1. coin'[d] = coin[d] /\ st'[d] = st[d] /\ worker'[d] = worker[d]
      BY <1>1, <1>5, <2>3
    <3>2. Busy(d)' <=> Busy(d)
      BY <1>10, <2>3
    <3>3. Sound(d)' /\ Asked(d)'
      BY <1>9, <2>1, <3>1, <3>2 DEF Sound, Asked
    <3>4. Noticed(d)'
      BY <1>7, <1>9, <2>1, <3>1, <3>2 DEF Noticed
    <3>5. QED
      BY <3>3, <3>4
  <2>4. QED
    BY <2>2, <2>3
<1>12. \A d, e \in Coins : Apart(d, e)'
  BY <1>9 DEF GInv, Apart
<1>13. Ordered'
  <2>1. CASE main'.op = "free"
    BY <2>1 DEF Ordered, Starts, Stops
  <2>2. CASE main'.op = "begin"
    <3>1. main'.of = main.next /\ main.next # 0 /\ main'.next = 0
      BY <1>7, <2>2, NullCoin
    <3>2. \A d \in Coins \ {main.next} : Down(d)'
      BY <1>2, <1>4, <1>9, <3>1 DEF OthersDown, c
    <3>3. OthersDown(main.of)'
      BY <3>1, <3>2 DEF OthersDown
    <3>4. QED
      BY <2>2, <3>1, <3>3 DEF Ordered, Starts, Stops
  <2>3. QED
    BY <1>7, <2>1, <2>2
<1>14. QED
  BY <1>8, <1>11, <1>12, <1>13 DEF GInv

\* startGpu on a worker that mines: it is asked for again.
LEMMA BeginMiningGood ==
  ASSUME GInv, NEW c, c = main.of, Begin, st[c] = "Mining"
  PROVE  GInv'
<1> DEFINE k == [coin[c] EXCEPT !.setting = TRUE, !.made = TRUE]
<1>1. /\ Typed /\ main.op = "begin" /\ UNCHANGED <<st, worker, low, missed, calls>>
      /\ coin' = [coin EXCEPT ![c] = k] /\ main' = Free
  BY DEF GInv, Begin
<1>2. c \in Coins /\ coin[c] \in Kept
  BY <1>1 DEF Typed
<1>3. k \in Kept /\ k.setting = TRUE /\ k.made = TRUE /\ k.listening = coin[c].listening
  BY <1>2 DEF Kept
<1> HIDE DEF k
<1>4. coin' \in [Coins -> Kept] /\ coin'[c] = k /\ \A d \in Coins \ {c} : coin'[d] = coin[d]
  BY <1>1, <1>2, <1>3, OneKept
<1>5. main' \in Tasks /\ main'.op = "free"
  BY <1>1, NullCoin DEF Free, Tasks, Ops
<1>6. Typed'
  BY <1>1, <1>4, <1>5 DEF Typed
<1>7. \A d \in Coins : (Down(d)' <=> Down(d)) /\ (Dark(d)' <=> Dark(d))
  BY <1>1 DEF Down, Done, Dark
<1>8. \A d \in Coins : (Busy(d) <=> d = c) /\ ~Busy(d)'
  BY <1>1, <1>5, NullCoin DEF Busy, GInv, Ordered
<1>9. \A d \in Coins : (Sound(d) /\ Asked(d) /\ Noticed(d))'
  <2> SUFFICES ASSUME NEW d \in Coins PROVE (Sound(d) /\ Asked(d) /\ Noticed(d))'
    OBVIOUS
  <2>1. Sound(d) /\ Asked(d) /\ Noticed(d)
    BY DEF GInv
  <2>2. CASE d = c
    <3>1. ~Dark(c)
      BY <2>1, <2>2 DEF Sound, Dark
    <3>2. QED
      BY <1>1, <1>3, <1>4, <1>7, <2>1, <2>2, <3>1 DEF Sound, Asked, Noticed
  <2>3. CASE d # c
    BY <1>1, <1>4, <1>7, <1>8, <2>1, <2>3 DEF Sound, Asked, Noticed
  <2>4. QED
    BY <2>2, <2>3
<1>10. \A d, e \in Coins : Apart(d, e)'
  BY <1>7 DEF GInv, Apart
<1>11. Ordered'
  BY <1>5 DEF Ordered, Starts, Stops
<1>12. QED
  BY <1>6, <1>9, <1>10, <1>11 DEF GInv

\* startGpu on a worker that does not: its pool client listens, its thread runs.
LEMMA BeginOtherGood ==
  ASSUME GInv, NEW c, c = main.of, Begin, st[c] # "Mining"
  PROVE  GInv'
<1> DEFINE k == [coin[c] EXCEPT !.made = TRUE, !.listening = TRUE]
           t == IF worker[c].thread = "finished" THEN "running" ELSE worker[c].thread
           w == [worker[c] EXCEPT !.thread = t]
           o == IF st[c] = "UpdateJob" THEN "job" ELSE "post"
<1>1. /\ Typed /\ main.op = "begin" /\ UNCHANGED <<st, low, missed, calls>>
      /\ coin' = [coin EXCEPT ![c] = k] /\ worker' = [worker EXCEPT ![c] = w]
      /\ main' = [main EXCEPT !.op = o, !.next = c]
  BY DEF GInv, Begin
<1>2. c \in Coins /\ coin[c] \in Kept /\ worker[c] \in Workers /\ main \in Tasks
  BY <1>1 DEF Typed
<1>3. k \in Kept /\ k.setting = coin[c].setting /\ k.made = TRUE /\ k.listening = TRUE
  BY <1>2 DEF Kept
<1>4. w \in Workers /\ w.pc = worker[c].pc /\ w.starts = worker[c].starts
  <2>1. t \in {"running", "quitting", "finished"}
    BY <1>2 DEF Workers
  <2> HIDE DEF t
  <2>2. QED
    BY <1>2, <2>1 DEF Workers
<1>5. main' \in Tasks /\ main'.op = o /\ main'.of = c /\ main'.next = c
  <2>1. o \in Ops /\ c \in 0..N
    BY <1>2, NullCoin DEF Ops
  <2> HIDE DEF o
  <2>2. QED
    BY <1>1, <1>2, <2>1 DEF Tasks
<1>6. o \in {"job", "post"} /\ (o = "job" => st[c] = "UpdateJob") /\ c # 0
  BY <1>2, NullCoin
<1> HIDE DEF k, w, o
<1>7. coin' \in [Coins -> Kept] /\ coin'[c] = k /\ \A d \in Coins \ {c} : coin'[d] = coin[d]
  BY <1>1, <1>2, <1>3, OneKept
<1>8. worker' \in [Coins -> Workers] /\ worker'[c] = w
      /\ \A d \in Coins \ {c} : worker'[d] = worker[d]
  BY <1>1, <1>2, <1>4, OneChanges DEF Typed
<1>9. Typed'
  BY <1>1, <1>2, <1>5, <1>7, <1>8 DEF Typed
<1>10. Resting
  BY <1>1, <1>4, <1>8 DEF Resting
<1>11. \A d \in Coins : /\ Down(d) => Down(d)'
                        /\ Done(d) => Done(d)'
                        /\ Dark(d)' <=> Dark(d)
  BY <1>10, RestingKeeps
<1>12. \A d \in Coins : (Busy(d) <=> d = c) /\ (Busy(d)' <=> d = c)
  BY <1>1, <1>5, <1>6, NullCoin DEF Busy, GInv, Ordered
<1>13. \A d \in Coins : (Sound(d) /\ Asked(d) /\ Noticed(d))'
  <2> SUFFICES ASSUME NEW d \in Coins PROVE (Sound(d) /\ Asked(d) /\ Noticed(d))'
    OBVIOUS
  <2>1. Sound(d) /\ Asked(d) /\ Noticed(d)
    BY DEF GInv
  <2>2. CASE d = c
    BY <1>1, <1>3, <1>4, <1>5, <1>6, <1>7, <1>8, <1>11, <1>12, <2>1, <2>2
       DEF Sound, Asked, Noticed
  <2>3. CASE d # c
    BY <1>1, <1>5, <1>7, <1>8, <1>11, <1>12, <2>1, <2>3 DEF Sound, Asked, Noticed
  <2>4. QED
    BY <2>2, <2>3
<1>14. \A d, e \in Coins : Apart(d, e)'
  BY <1>11 DEF GInv, Apart
<1>15. Ordered'
  <2>1. OthersDown(main.of)
    BY <1>1 DEF GInv, Ordered, Starts
  <2>2. OthersDown(main.of)'
    BY <1>5, <1>11, <2>1 DEF OthersDown
  <2>3. coin'[c].listening /\ coin'[c].made
    BY <1>3, <1>7
  <2>4. main'.op = "job" => st'[c] # "Stopping"
    BY <1>1, <1>5, <1>6
  <2>5. QED
    BY <1>5, <1>6, <2>2, <2>3, <2>4 DEF Ordered, Starts, Stops
<1>16. QED
  BY <1>9, <1>13, <1>14, <1>15 DEF GInv

LEMMA JobGood ==
  ASSUME GInv, NEW c, c = main.of, Job
  PROVE  GInv'
<1>1. /\ Typed /\ main.op = "job" /\ UNCHANGED <<worker, coin, low, missed, calls>>
      /\ st' = [st EXCEPT ![c] = "UpdateJob"]
      /\ main' = IF main.next = 0 THEN Free ELSE [main EXCEPT !.op = "post"]
      /\ main.next \in {0, c}
  BY DEF GInv, Job, Ordered
<1>2. c \in Coins /\ main \in Tasks /\ c # 0
  BY <1>1, NullCoin DEF Typed
<1>3. st' \in [Coins -> States] /\ st'[c] = "UpdateJob" /\ \A d \in Coins \ {c} : st'[d] = st[d]
  <2>1. "UpdateJob" \in States
    BY DEF States
  <2>2. QED
    BY <1>1, <1>2, <2>1, OneChanges DEF Typed
<1>4. \A d \in Coins \ {c} : Down(d)' <=> Down(d)
  BY <1>1, <1>3, OthersKeep
<1>5. \A d \in Coins : (Done(d)' <=> Done(d)) /\ (Dark(d)' <=> Dark(d))
  BY <1>1 DEF Done, Dark
<1>6. \A d \in Coins : Sound(d) /\ Asked(d) /\ Noticed(d)
  BY DEF GInv
<1>7. CASE main.next = 0
  <2>1. main' \in Tasks /\ main'.op = "free"
    BY <1>1, <1>7, NullCoin DEF Free, Tasks, Ops
  <2>2. Typed'
    BY <1>1, <1>3, <2>1 DEF Typed
  <2>3. \/ Done(c)
        \/ coin[c].setting /\ coin[c].listening /\ \A d \in Coins \ {c} : Down(d)
    BY <1>1, <1>7 DEF GInv, Ordered, OthersDown
  <2>4. worker[c].pc = "idle" => st[c] # "Stopping"
    BY <1>1 DEF GInv, Ordered
  <2>5. Done(c) => Down(c)'
    BY <1>2, <1>5 DEF Down
  <2>6. \A d \in Coins : (Busy(d) <=> d = c) /\ ~Busy(d)'
    BY <1>1, <1>7, <2>1, NullCoin DEF Busy
  <2>7. (Sound(c) /\ Asked(c) /\ Noticed(c))'
    <3>1. Sound(c)'
      BY <1>1, <1>2, <1>3, <1>5, <1>6 DEF Sound
    <3>2. Asked(c)'
      BY <1>1, <2>3, <2>5 DEF Asked
    <3>3. Noticed(c)'
      BY <1>1, <1>2, <1>5, <1>6, <1>7, <2>4 DEF Noticed, Dark
    <3>4. QED
      BY <3>1, <3>2, <3>3
  <2>8. \A d \in Coins \ {c} : (Sound(d) /\ Asked(d) /\ Noticed(d))'
    BY <1>1, <1>3, <1>4, <1>5, <1>6, <2>6 DEF Sound, Asked, Noticed
  <2>9. \A d, e \in Coins : Apart(d, e)'
    BY <1>4, <2>3, <2>5 DEF GInv, Apart
  <2>10. Ordered'
    BY <2>1 DEF Ordered, Starts, Stops
  <2>11. QED
    BY <2>2, <2>7, <2>8, <2>9, <2>10 DEF GInv
<1>8. CASE main.next = c
  <2>1. main' \in Tasks /\ main'.op = "post" /\ main'.of = c /\ main'.next = c
    <3>1. "post" \in Ops /\ main' = [main EXCEPT !.op = "post"]
      BY <1>1, <1>2, <1>8 DEF Ops
    <3>2. QED
      BY <1>2, <1>8, <3>1, TaskMoves
  <2>2. Typed'
    BY <1>1, <1>2, <1>3, <2>1 DEF Typed
  <2>3. /\ coin[c].listening /\ coin[c].made /\ \A d \in Coins \ {c} : Down(d)
    BY <1>1, <1>2, <1>8 DEF GInv, Ordered, OthersDown, Starts
  <2>4. \A d \in Coins : (Busy(d) <=> d = c) /\ (Busy(d)' <=> d = c)
    BY <1>1, <1>8, <2>1 DEF Busy
  <2>5. (Sound(c) /\ Asked(c) /\ Noticed(c))'
    BY <1>1, <1>2, <1>3, <1>5, <1>6, <2>1, <2>3, <2>4 DEF Sound, Asked, Noticed
  <2>6. \A d \in Coins \ {c} : (Sound(d) /\ Asked(d) /\ Noticed(d))'
    BY <1>1, <1>3, <1>4, <1>5, <1>6, <2>1, <2>4 DEF Sound, Asked, Noticed
  <2>7. \A d, e \in Coins : Apart(d, e)'
    BY <1>4, <2>3 DEF Apart
  <2>8. Ordered'
    <3>1. OthersDown(c)'
      BY <1>4, <2>3 DEF OthersDown
    <3>2. coin'[c].listening /\ coin'[c].made
      BY <1>1, <2>3
    <3>3. QED
      BY <2>1, <3>1, <3>2 DEF Ordered, Starts, Stops
  <2>9. QED
    BY <2>2, <2>5, <2>6, <2>7, <2>8 DEF GInv
<1>9. QED
  BY <1>1, <1>7, <1>8

LEMMA PostGpuGood ==
  ASSUME GInv, NEW c, c = main.of, Post
  PROVE  GInv'
<1> DEFINE n == worker[c].starts + 1
           w == [worker[c] EXCEPT !.starts = n]
           k == [coin[c] EXCEPT !.setting = TRUE]
<1>1. /\ Typed /\ main.op = "post" /\ UNCHANGED <<st, low, calls>> /\ main' = Free
      /\ worker' = [worker EXCEPT ![c] = w] /\ coin' = [coin EXCEPT ![c] = k]
      /\ missed' = [missed EXCEPT ![c] = FALSE]
  BY DEF GInv, Post
<1>2. c \in Coins /\ worker[c] \in Workers /\ worker[c].starts \in Nat /\ coin[c] \in Kept
  BY <1>1 DEF Typed, Workers
<1>3. n \in Nat /\ n # 0
  BY <1>2
<1>4. w \in Workers /\ w.pc = worker[c].pc /\ w.starts = n
  <2> HIDE DEF n
  <2>1. QED
    BY <1>2, <1>3 DEF Workers
<1>5. k \in Kept /\ k.setting = TRUE /\ k.made = coin[c].made /\ k.listening = coin[c].listening
  BY <1>2 DEF Kept
<1> HIDE DEF n, w, k
<1>6. worker' \in [Coins -> Workers] /\ worker'[c] = w
      /\ \A d \in Coins \ {c} : worker'[d] = worker[d]
  BY <1>1, <1>2, <1>4, OneChanges DEF Typed
<1>7. coin' \in [Coins -> Kept] /\ coin'[c] = k /\ \A d \in Coins \ {c} : coin'[d] = coin[d]
  BY <1>1, <1>2, <1>5, OneKept
<1>8. missed' \in [Coins -> BOOLEAN] /\ \A d \in Coins \ {c} : missed'[d] = missed[d]
  BY <1>1, <1>2, OneChanges DEF Typed
<1>9. main' \in Tasks /\ main'.op = "free"
  BY <1>1, NullCoin DEF Free, Tasks, Ops
<1>10. Typed'
  BY <1>1, <1>6, <1>7, <1>8, <1>9 DEF Typed
<1>11. /\ coin[c].listening /\ coin[c].made /\ main.next = c
       /\ \A d \in Coins \ {c} : Down(d)
  BY <1>1 DEF GInv, Ordered, Starts, OthersDown
<1>12. \A d \in Coins \ {c} : (Down(d)' <=> Down(d)) /\ (Dark(d)' <=> Dark(d))
  BY <1>1, <1>6, <1>8, OthersKeep
<1>13. \A d \in Coins : (Busy(d) <=> d = c) /\ ~Busy(d)'
  BY <1>1, <1>9, <1>11 DEF Busy
<1>14. \A d \in Coins : Sound(d) /\ Asked(d) /\ Noticed(d)
  BY DEF GInv
<1>15. (Sound(c) /\ Asked(c) /\ Noticed(c))'
  <2>1. ~Dark(c)'
    BY <1>3, <1>4, <1>6 DEF Dark
  <2>2. QED
    BY <1>1, <1>2, <1>4, <1>5, <1>6, <1>7, <1>11, <1>14, <2>1 DEF Sound, Asked, Noticed
<1>16. \A d \in Coins \ {c} : (Sound(d) /\ Asked(d) /\ Noticed(d))'
  BY <1>1, <1>6, <1>7, <1>12, <1>13, <1>14 DEF Sound, Asked, Noticed
<1>17. \A d, e \in Coins : Apart(d, e)'
  BY <1>11, <1>12 DEF Apart
<1>18. Ordered'
  BY <1>9 DEF Ordered, Starts, Stops
<1>19. QED
  BY <1>10, <1>15, <1>16, <1>17, <1>18 DEF GInv

LEMMA BeginGood ==
  ASSUME GInv, NEW c, c = main.of, Begin
  PROVE  GInv'
BY BeginMiningGood, BeginOtherGood

-----------------------------------------------------------------------------
(* The specification *)

LEMMA InitGInv == Init => GInv
<1> SUFFICES ASSUME Init PROVE GInv
  OBVIOUS
<1>1. Typed
  BY InitTyped
<1>2. main.op = "free"
  BY DEF Init, Free
<1>3. \A c \in Coins : worker[c].pc = "idle" /\ worker[c].starts = 0 /\ st[c] = "Exit"
  BY DEF Init
<1>4. \A c \in Coins : coin[c].made = FALSE
  BY DEF Init
<1>5. \A c \in Coins : Down(c) /\ Sound(c)
  BY <1>3, <1>4 DEF Down, Done, Sound, Dark, Inside
<1>6. \A c \in Coins : Asked(c) /\ Noticed(c)
  BY <1>4, <1>5 DEF Asked, Noticed
<1>7. \A c, d \in Coins : Apart(c, d)
  BY <1>5 DEF Apart
<1>8. Ordered
  BY <1>2 DEF Ordered, Starts, Stops
<1>9. QED
  BY <1>1, <1>5, <1>6, <1>7, <1>8 DEF GInv

LEMMA MainGood ==
  ASSUME GInv, Main
  PROVE  GInv'
<1>1. CASE Look
  BY <1>1, LookGood
<1>2. CASE Tell
  BY <1>2, TellGood
<1>3. CASE Quit
  BY <1>3, QuitGood
<1>4. CASE Wait
  BY <1>4, WaitGood
<1>5. CASE Unlisten
  BY <1>5, UnlistenGood
<1>6. CASE Begin
  BY <1>6, BeginGood
<1>7. CASE Job
  BY <1>7, JobGood
<1>8. CASE Post
  BY <1>8, PostGpuGood
<1>9. CASE \E d \in Coins : Finished(d) \/ TimerFires(d)
  BY <1>9, FinishedGood, TimerFiresGood
<1>10. QED
  BY <1>1, <1>2, <1>3, <1>4, <1>5, <1>6, <1>7, <1>8, <1>9 DEF Main

LEMMA StepGInv ==
  ASSUME GInv, [Next]_vars
  PROVE  GInv'
<1>1. CASE Main
  BY <1>1, MainGood
<1>2. CASE \E c \in Coins : Worker(c) \/ CopyJob(c) \/ Fail(c)
  BY <1>2, ThreadGood DEF Worker, Thread
<1>3. CASE \E c \in Coins : StartGpu(c) \/ StopGpu(c) \/ UpdateJob(c)
  BY <1>3, StartGpuGood, StopGpuGood, UpdateJobGood
<1>4. CASE UNCHANGED vars
  BY <1>4 DEF vars, GInv, Typed, Sound, Asked, Noticed, Apart, Ordered, Starts, Stops,
              OthersDown, Down, Done, Dark, Busy
<1>5. QED
  BY <1>1, <1>2, <1>3, <1>4 DEF Next

LEMMA AlwaysGInv == Spec => []GInv
<1>1. GInv /\ [Next]_vars => GInv'
  BY StepGInv
<1>2. QED
  BY <1>1, InitGInv, PTL DEF Spec

\* The types, among them that signals, starts and timers are never counted below 0.
THEOREM SpecGpuTypeOK == Spec => []GpuTypeOK
<1>1. GInv => GpuTypeOK
  BY TypedIsType DEF GInv
<1>2. QED
  BY <1>1, AlwaysGInv, PTL

\* A coin whose miner has the device is not down, unless its stop was missed.
LEMMA MinesIsUp ==
  ASSUME GInv, NEW c \in Coins, Mines(c), ~missed[c]
  PROVE  ~Down(c)
BY DEF Mines, Down, Done, Inside

\* Two coins mine on a device only when a stop was lost.
THEOREM SpecOneCoinPerDevice == Spec => []OneCoinPerDevice
<1>1. GInv => OneCoinPerDevice
  BY MinesIsUp DEF GInv, Apart, OneCoinPerDevice
<1>2. QED
  BY <1>1, AlwaysGInv, PTL

\* A miner runs for a coin that is said to run and whose pool client listens.
THEOREM SpecMinesOnlyIfAsked == Spec => []MinesOnlyIfAsked
<1>1. GInv => MinesOnlyIfAsked
  BY MinesIsUp DEF GInv, Asked, MinesOnlyIfAsked
<1>2. QED
  BY <1>1, AlwaysGInv, PTL

\* A coin that is said to run and has no miner is about to be withdrawn.
THEOREM SpecDarkIsNoticed == Spec => []DarkIsNoticed
<1>1. GInv => DarkIsNoticed
  BY DEF GInv, Noticed, DarkIsNoticed
<1>2. QED
  BY <1>1, AlwaysGInv, PTL
-----------------------------------------------------------------------------
(* A stop stays *)

\* No step takes a stop back from a miner that runs but the miner's own stores: a job or
\* a start of the main thread never does.
THEOREM SpecStopStays == Spec => StopStays
<1>1. ASSUME GInv, Next, NEW c \in Coins,
             worker[c].pc \in {"enter"} \cup Inside, st[c] = "Stopping"
      PROVE  st'[c] = "Stopping" \/ missed'[c]
  <2>0. /\ st \in [Coins -> States] /\ worker \in [Coins -> Workers]
        /\ missed \in [Coins -> BOOLEAN] /\ main \in Tasks
        /\ main.op = "free" \/ main.of \in Coins
    BY <1>1 DEF GInv, Typed
  <2>1. ASSUME NEW d \in Coins, Worker(d) \/ CopyJob(d) \/ Fail(d)
        PROVE  st'[c] = "Stopping" \/ missed'[c]
    <3>1. CASE Deliver(d) \/ EndLoop(d) \/ Leave(d) \/ CopyJob(d) \/ Check(d) \/ Left(d)
      BY <1>1, <3>1 DEF Deliver, EndLoop, Leave, CopyJob, Check, Left
    <3>2. CASE Enter(d) \/ Store(d)
      BY <1>1, <2>0, <3>2 DEF Enter, Store
    <3>3. CASE Fail(d)
      <4>1. PICK s \in {st[d], "Exit", "Stopping"} :
              /\ st' = [st EXCEPT ![d] = s]
              /\ missed' = [missed EXCEPT ![d] = @ \/ (st[d] = "Stopping" /\ s = "Exit")]
        BY <3>3 DEF Fail
      <4>2. CASE c = d
        BY <1>1, <2>0, <4>1, <4>2
      <4>3. CASE c # d
        BY <1>1, <2>0, <4>1, <4>3
      <4>4. QED
        BY <4>2, <4>3
    <3>4. CASE Finish(d)
      <4>1. c # d
        BY <1>1, <3>4 DEF Finish, At, Inside
      <4>2. QED
        BY <1>1, <2>0, <3>4, <4>1 DEF Finish
    <3>5. QED
      BY <2>1, <3>1, <3>2, <3>3, <3>4 DEF Worker
  <2>2. CASE \E d \in Coins : StartGpu(d) \/ StopGpu(d) \/ UpdateJob(d)
    BY <1>1, <2>2 DEF StartGpu, StopGpu, UpdateJob
  <2>3. CASE Look \/ Quit \/ Wait \/ Unlisten \/ Begin \/ Post
    BY <1>1, <2>3 DEF Look, Quit, Wait, Unlisten, Begin, Post
  <2>4. CASE Tell
    BY <1>1, <2>0, <2>4 DEF Tell
  <2>5. CASE Job
    <3>1. c # main.of
      BY <1>1, <2>5 DEF Job, GInv, Ordered, Inside
    <3>2. QED
      BY <1>1, <2>0, <2>5, <3>1 DEF Job
  <2>6. CASE \E d \in Coins : Finished(d) \/ TimerFires(d)
    BY <1>1, <2>6 DEF Finished, TimerFires
  <2>7. QED
    BY <1>1, <2>1, <2>2, <2>3, <2>4, <2>5, <2>6 DEF Next, Main
<1>2. GInv /\ [Next]_vars
      => [\A c \in Coins :
            worker[c].pc \in {"enter"} \cup Inside /\ st[c] = "Stopping"
            => st'[c] = "Stopping" \/ missed'[c]]_vars
  BY <1>1
<1>3. QED
  BY <1>2, AlwaysGInv, PTL DEF Spec, StopStays
=============================================================================
