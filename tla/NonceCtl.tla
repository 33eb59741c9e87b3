------------------------------ MODULE NonceCtl ------------------------------
(***************************************************************************)
(* The nonce controller of a coin.  CPU and GPU threads ask it for the end *)
(* of a range of nonces, while the main thread restarts it for a new job.  *)
(* m_nonce and m_isInvalid are atomic, the functions are not: each load    *)
(* and each store is a step.                                               *)
(*                                                                         *)
(* A Nonce is a quint64; here it has Size values, 0 .. Size - 1.           *)
(***************************************************************************)
EXTENDS Integers

CONSTANTS
  Threads,     \* the threads that search
  Gpus,        \* those of them on a GPU, which look at isValid() first
  Reserve,     \* nonces of one range
  Size,        \* number of values of a Nonce, 2^64
  RandomStart  \* m_startNonceIsRandom: Ethereum starts anywhere

ASSUME NonceCtlAssumption ==
  /\ Gpus \subseteq Threads
  /\ Reserve \in Nat \ {0} /\ Size \in Nat /\ Reserve < Size
  /\ RandomStart \in BOOLEAN

VARIABLES
  nonce,    \* m_nonce
  invalid,  \* m_isInvalid
  main,     \* updateJob: "idle", "update" after invalidate(), "valid" before the last store
  call,     \* nextNonce of each thread: where it is, newNonce, the last value it returned
  raced     \* history: m_nonce was restarted while a thread was in nextNonce

nonceVars == <<nonce, invalid, main, call, raced>>

Nonces == 0..(Size - 1)

\* Unsigned addition and subtraction.
Plus(m, n) == IF m + n < Size THEN m + n ELSE m + n - Size
Minus(m, n) == IF m >= n THEN m - n ELSE m - n + Size

NonceInit ==
  /\ nonce = 0 /\ invalid = FALSE /\ main = "idle" /\ raced = FALSE
  /\ call = [t \in Threads |-> [pc |-> "idle", new |-> 0, last |-> Reserve]]

-----------------------------------------------------------------------------
(* nextNonce *)

\* The range searched before is done.  A GPU polls isValid() until it is, then calls nextNonce; a CPU just calls it.
Enter(t) ==
  /\ call[t].pc = "idle"
  /\ t \in Gpus => ~invalid
  /\ call' = [call EXCEPT ![t] = [@ EXCEPT !.pc = "load", !.last = Reserve]]
  /\ UNCHANGED <<nonce, invalid, main, raced>>

Load(t) ==
  /\ call[t].pc = "load"
  /\ call' = [call EXCEPT ![t] = [@ EXCEPT !.pc = "check", !.new = Plus(nonce, Reserve)]]
  /\ UNCHANGED <<nonce, invalid, main, raced>>

\* Mutation of CheckOverflow: the sum is stored as it is.
CheckNoOverflow(t) ==
  /\ call[t].pc = "check"
  /\ call' = [call EXCEPT ![t] = [@ EXCEPT !.pc = "store"]]
  /\ UNCHANGED <<nonce, invalid, main, raced>>

\* newNonce < m_nonce, which is loaded a second time, counts as an overflow.
CheckOverflow(t) ==
  /\ call[t].pc = "check"
  /\ call' = [call EXCEPT ![t] = [@ EXCEPT !.pc = "store",
                                           !.new = IF call[t].new < nonce THEN Reserve ELSE call[t].new]]
  /\ UNCHANGED <<nonce, invalid, main, raced>>

Store(t) ==
  /\ call[t].pc = "store"
  /\ nonce' = call[t].new
  /\ call' = [call EXCEPT ![t] = [@ EXCEPT !.pc = "return"]]
  /\ UNCHANGED <<invalid, main, raced>>

\* The value returned is loaded a third time.
Return(t) ==
  /\ call[t].pc = "return"
  /\ call' = [call EXCEPT ![t] = [@ EXCEPT !.pc = "idle", !.new = 0, !.last = nonce]]
  /\ UNCHANGED <<nonce, invalid, main, raced>>

-----------------------------------------------------------------------------
(* AbstractMinerImpl::updateJob *)

Invalidate ==
  /\ main = "idle" /\ main' = "update"
  /\ invalid' = TRUE
  /\ UNCHANGED <<nonce, call, raced>>

RestartNonce ==
  /\ main = "update" /\ main' = "valid"
  /\ nonce' \in (IF RandomStart THEN Nonces ELSE {0})
  /\ raced' = (raced \/ \E t \in Threads : call[t].pc # "idle")
  /\ UNCHANGED <<invalid, call>>

Revalidate ==
  /\ main = "valid" /\ main' = "idle"
  /\ invalid' = FALSE
  /\ UNCHANGED <<nonce, call, raced>>

NonceNext ==
  \/ \E t \in Threads : Enter(t) \/ Load(t) \/ CheckOverflow(t) \/ Store(t) \/ Return(t)
  \/ Invalidate \/ RestartNonce \/ Revalidate

NonceSpec == NonceInit /\ [][NonceNext]_nonceVars

-----------------------------------------------------------------------------
(* Properties *)

Call == [pc : {"idle", "load", "check", "store", "return"},
         new : Nonces, last : Nonces]

\* The types of the variables.
NonceTypeOK ==
  /\ nonce \in Nonces
  /\ invalid \in BOOLEAN
  /\ main \in {"idle", "update", "valid"}
  /\ call \in [Threads -> Call]
  /\ raced \in BOOLEAN

\* A CPU searches from last - Reserve to last, both included (a GPU leaves out the
\* first); its loop does nothing when the subtraction has wrapped.
Searched(t) == {n \in Nonces : Minus(call[t].last, Reserve) <= n /\ n <= call[t].last}

\* The threads race on m_nonce, and lose or repeat ranges, but none gets an empty
\* one: the overflow check catches every sum that has wrapped, also when m_nonce has
\* moved on before it is compared.  The exception is a restart in the middle of a
\* call, which zeroes the m_nonce that nextNonce loads for the return.
WholeRange == \A t \in Threads : Searched(t) = {} => raced
=============================================================================
