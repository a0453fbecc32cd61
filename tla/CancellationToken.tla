-------------------------- MODULE CancellationToken --------------------------
(***************************************************************************)
(* tvtime_extractor/models.py, class CancellationToken, at the grain of    *)
(* the reads and writes its methods make.  The token is shared by the main *)
(* thread of the helper, which commits (seal_for_commit, try_finish) and   *)
(* polls (raise_if_cancelled), by its control reader threads, which cancel *)
(* and poll, and by the signal handler, which Python runs on the main      *)
(* thread between any two bytecodes, also while that thread holds the      *)
(* token's non-reentrant lock.                                             *)
(***************************************************************************)
EXTENDS Naturals

CONSTANTS Main,      \* the thread that commits; signal handlers run on it
          Readers,   \* the control reader threads
          NoThread,  \* the lock's owner when it is free
          MaxSignals \* how many SIGINT and SIGTERM the parent sends

ASSUME ThreadsAssumption == /\ Main \notin Readers
                            /\ NoThread \notin Readers \cup {Main}
                            /\ MaxSignals \in Nat

Threads == Readers \cup {Main}

Causes == {"none", "protocol"}    \* the exception handed to cancel, if any

\* The methods each thread calls (helper_main.py and service.py).
Ops(t) == IF t = Main
          THEN {"seal_for_commit", "try_finish", "raise_if_cancelled"}
          ELSE {"cancel", "raise_if_cancelled"}

VARIABLES
  tokenState,     \* _state: "active", "cancelled", "sealed" or "finished"
  tokenCause,     \* _cause
  tokenSignal,    \* _signal_pending
  lock,           \* the owner of _lock
  signals,        \* how many signals have arrived
  handler,        \* is the signal handler on top of the main thread's stack?
  tokenPc,        \* tokenPc[t]: the next step of thread t inside a method
  op,             \* op[t]: the method thread t is in
  result,         \* result[t]: what that method found out
  wins,           \* history: the outcomes callers have been told
  owed            \* history: was a signal waiting when t's call began?

fields == <<tokenState, tokenCause, tokenSignal>>
tokenVars == <<fields, lock, signals, handler, tokenPc, op, result, wins, owed>>

AllOps == {"seal_for_commit", "try_finish", "raise_if_cancelled", "cancel"}
Results == {"unknown", "refused", "cancelled", "committed"}

TokenTypeOK ==
  /\ tokenState \in {"active", "cancelled", "sealed", "finished"}
  /\ tokenCause \in Causes
  /\ tokenSignal \in BOOLEAN
  /\ lock \in Threads \cup {NoThread}
  /\ signals \in 0..MaxSignals
  /\ handler \in BOOLEAN
  /\ tokenPc \in [Threads -> {"idle", "acquire", "test", "clear", "apply", "decide", "release"}]
  /\ op \in [Threads -> AllOps]
  /\ result \in [Threads -> Results]
  /\ wins \subseteq {"cancelled", "committed"}
  /\ owed \in [Threads -> BOOLEAN]

TokenInit ==
  /\ tokenState = "active"
  /\ tokenCause = "none"
  /\ tokenSignal = FALSE
  /\ lock = NoThread
  /\ signals = 0
  /\ handler = FALSE
  /\ tokenPc = [t \in Threads |-> "idle"]
  /\ op = [t \in Threads |-> "raise_if_cancelled"]
  /\ result = [t \in Threads |-> "unknown"]
  /\ wins = {}
  /\ owed = [t \in Threads |-> FALSE]

\* A thread runs unless the signal handler sits on top of its stack.
Runs(t) == t = Main => ~handler

At(t, here, there) ==
  /\ Runs(t)
  /\ tokenPc[t] = here
  /\ tokenPc' = [tokenPc EXCEPT ![t] = there]

Call(t, o) ==
  /\ At(t, "idle", "acquire")
  /\ op' = [op EXCEPT ![t] = o]
  /\ result' = [result EXCEPT ![t] = "unknown"]
  /\ owed' = [owed EXCEPT ![t] = tokenSignal /\ tokenState = "active"]
  /\ UNCHANGED <<fields, lock, signals, handler, wins>>

\* Mutant: try_finish forgets to apply the pending signal first.
AcquireSkippingSignal(t) ==
  /\ lock = NoThread
  /\ lock' = t
  /\ At(t, "acquire", IF op[t] \in {"cancel", "try_finish"} THEN "decide" ELSE "test")
  /\ UNCHANGED <<fields, signals, handler, op, result, wins, owed>>

\* with self._lock: cancel goes straight to its body, the others first apply
\* a pending signal.
Acquire(t) ==
  /\ lock = NoThread
  /\ lock' = t
  /\ At(t, "acquire", IF op[t] = "cancel" THEN "decide" ELSE "test")
  /\ UNCHANGED <<fields, signals, handler, op, result, wins, owed>>

\* _apply_pending_signal_locked reads the flag, clears it, then cancels.
TestSignal(t) ==
  /\ At(t, "test", IF tokenSignal THEN "clear" ELSE "decide")
  /\ UNCHANGED <<fields, lock, signals, handler, op, result, wins, owed>>

ClearSignal(t) ==
  /\ At(t, "clear", "apply")
  /\ tokenSignal' = FALSE
  /\ UNCHANGED <<tokenState, tokenCause, lock, signals, handler, op, result, wins, owed>>

ApplyPendingSignal(t) ==
  /\ At(t, "apply", "decide")
  /\ tokenState' = IF tokenState = "active" THEN "cancelled" ELSE tokenState
  /\ tokenCause' = IF tokenState = "active" THEN "none" ELSE tokenCause
  /\ UNCHANGED <<tokenSignal, lock, signals, handler, op, result, wins, owed>>

Told(t, r) == result' = [result EXCEPT ![t] = r]

\* Mutant: cancel still wins against a sealed token.
CancelUnlessFinished(t, c) ==
  /\ op[t] = "cancel"
  /\ IF tokenState \in {"active", "sealed"}
     THEN tokenState' = "cancelled" /\ tokenCause' = c /\ Told(t, "cancelled")
     ELSE UNCHANGED <<tokenState, tokenCause>> /\ Told(t, "refused")

Cancel(t, c) ==
  /\ op[t] = "cancel"
  /\ IF tokenState = "active"
     THEN tokenState' = "cancelled" /\ tokenCause' = c /\ Told(t, "cancelled")
     ELSE UNCHANGED <<tokenState, tokenCause>> /\ Told(t, "refused")

SealForCommit(t) ==
  /\ op[t] = "seal_for_commit"
  /\ IF tokenState = "cancelled"
     THEN UNCHANGED tokenState /\ Told(t, "cancelled")
     ELSE /\ tokenState' = IF tokenState = "active" THEN "sealed" ELSE tokenState
          /\ Told(t, "committed")
  /\ UNCHANGED tokenCause

TryToFinish(t) ==
  /\ op[t] = "try_finish"
  /\ IF tokenState = "cancelled"
     THEN UNCHANGED tokenState /\ Told(t, "cancelled")
     ELSE tokenState' = "finished" /\ Told(t, "committed")
  /\ UNCHANGED tokenCause

RaiseIfCancelled(t) ==
  /\ op[t] = "raise_if_cancelled"
  /\ Told(t, IF tokenState = "cancelled" THEN "cancelled" ELSE "refused")
  /\ UNCHANGED <<tokenState, tokenCause>>

\* The body of the method, under the lock.
Decide(t) ==
  /\ At(t, "decide", "release")
  /\ \/ \E c \in Causes : Cancel(t, c)
     \/ SealForCommit(t)
     \/ TryToFinish(t)
     \/ RaiseIfCancelled(t)
  /\ UNCHANGED <<tokenSignal, lock, signals, handler, op, wins, owed>>

\* The method lets go of the lock and its caller learns the outcome.
Return(t) ==
  /\ At(t, "release", "idle")
  /\ lock' = NoThread
  /\ wins' = wins \cup ({result[t]} \cap {"cancelled", "committed"})
  /\ UNCHANGED <<fields, signals, handler, op, result, owed>>

\* SIGINT or SIGTERM: Python enters the handler on the main thread ...
EnterHandler ==
  /\ ~handler
  /\ signals < MaxSignals
  /\ signals' = signals + 1
  /\ handler' = TRUE
  /\ UNCHANGED <<fields, lock, tokenPc, op, result, wins, owed>>

\* Mutant: the handler takes the token's lock before it sets the flag.
MarkSignalUnderLock ==
  /\ handler
  /\ lock = NoThread
  /\ handler' = FALSE
  /\ tokenSignal' = TRUE
  /\ UNCHANGED <<tokenState, tokenCause, lock, signals, tokenPc, op, result, wins, owed>>

\* ... where mark_signal_pending sets the flag without taking the lock.
MarkSignalPending ==
  /\ handler
  /\ handler' = FALSE
  /\ tokenSignal' = TRUE
  /\ UNCHANGED <<tokenState, tokenCause, lock, signals, tokenPc, op, result, wins, owed>>

Inside(t) ==
  \/ TestSignal(t)
  \/ ClearSignal(t)
  \/ ApplyPendingSignal(t)
  \/ Decide(t)
  \/ Return(t)

TokenNext ==
  \/ \E t \in Threads : \/ \E o \in Ops(t) : Call(t, o)
                        \/ Acquire(t)
                        \/ Inside(t)
  \/ EnterHandler
  \/ MarkSignalPending

TokenSpec == TokenInit /\ [][TokenNext]_tokenVars

\* A thread inside the lock keeps running, and so does the handler.  Between two
\* calls a thread does work or sleeps, so a waiting thread gets the lock.
TokenFairness ==
  /\ \A t \in Threads : WF_tokenVars(Inside(t)) /\ SF_tokenVars(Acquire(t))
  /\ WF_tokenVars(MarkSignalPending)

FairTokenSpec == TokenSpec /\ TokenFairness
-----------------------------------------------------------------------------
\* No two callers are ever told opposite outcomes: once one learnt that it may
\* commit, no other learns of a cancellation, and the other way round
\* (models.py: "let cancellation or the final directory commit win, never both").
NeverBoth == ~({"cancelled", "committed"} \subseteq wins)

\* A signal that arrived before a commit call began, while the token was still
\* active, defeats that commit: the lock-free flag is never overlooked or lost.
EarlierSignalWins ==
  \A t \in Threads :
    tokenPc[t] = "release" /\ result[t] = "committed" => ~owed[t]

\* Every call returns, although the signal handler may run on a thread that
\* holds the lock (helper_main.py, the comment in request_cancel).
CallsReturn == \A t \in Threads : (tokenPc[t] = "acquire") ~> (tokenPc[t] = "idle")

\* The token implements the one-shot decision.
decisionBar == CASE tokenState = "active" -> "open"
                 [] tokenState = "cancelled" -> "cancelled"
                 [] OTHER -> "committed"

Decision == INSTANCE CommitDecision WITH decision <- decisionBar
ImplementsDecision == Decision!Spec
=============================================================================
