------------------------ MODULE RecoveryHelperProofs ------------------------
(***************************************************************************)
(* RecoveryHelper.tla for every set of actions: a cancelled token is never *)
(* followed by success, what is visible on disk is whole at every moment,  *)
(* a completed event describes a complete output.  Without acquisitions    *)
(* the event pipe and the disk show one decision.                          *)
(*                                                                         *)
(* CancellationToken.tla for any number of control readers and signals: no *)
(* two callers are told opposite outcomes, a signal that arrived before a  *)
(* commit call began defeats it, and the token implements the one-shot     *)
(* decision.                                                               *)
(***************************************************************************)
EXTENDS RecoveryHelper, CancellationToken, TLAPS

DiskIs(r, t, a, s) == run = r /\ tables = t /\ analysis = a /\ staging = s

Empty == DiskIs("none", FALSE, "none", "none")
Whole == DiskIs("complete", FALSE, "report", "none")

\* The disk at each program point of the stages.
DiskInv ==
  /\ pc \in {"boot", "request", "bind", "secret", "preflight", "root", "layout"} => Empty
  /\ pc \in {"copy", "seal_run"} => DiskIs("incomplete", FALSE, "none", "none")
  /\ pc = "analyze" => DiskIs("complete", FALSE, "none", "none")
  /\ pc = "promote_tables" => DiskIs("complete", TRUE, "none", "none")
  /\ pc = "open_report" => DiskIs("complete", FALSE, "tables", "none")
  /\ pc = "mark_report" => DiskIs("complete", FALSE, "none", "open")
  /\ pc \in {"final_check", "commit", "publish"} => DiskIs("complete", FALSE, "none", "marked")
  /\ pc \in {"published", "close_root", "report_done"} => Whole
  /\ pc \in {"finish", "terminal"} => IF action = "preflight" THEN Empty ELSE Whole
  /\ VisibleReportIsWhole
  /\ action = "preflight" =>
       /\ Empty
       /\ pc \in {"boot", "request", "bind", "preflight", "finish", "terminal", "unwind",
                  "exiting", "exited"}

\* Where the outcome is still open, and what it says once it is not.
OutcomeInv ==
  /\ pc \notin {"unwind", "exiting", "exited"} => raised = "none"
  /\ pc \notin {"exiting", "exited"} => terminal = "none"
  /\ pc # "exited" => exit = "running"
  /\ pc = "unwind" => raised # "none"
  /\ terminal = "completed" => raised = "none" /\ state = "finished"
  /\ terminal = "completed" /\ action # "preflight" => Whole
  /\ pc = "exiting" /\ raised = "none" => terminal = "completed"
  /\ exit = "success" => terminal = "completed"
  /\ raised = "cancelled" => state = "cancelled"
  /\ terminal = "cancelled" => raised = "cancelled"

\* The token where main holds its answer.
TokenInv ==
  /\ pc \in {"terminal", "report_done"} => state = "finished"
  /\ action = "recover" /\ pc = "close_root" => state = "finished"
  /\ action = "recover" /\ (pc = "publish" \/ analysis = "report")
       => state \in {"sealed", "finished"}

IInv == TypeOK /\ DiskInv /\ OutcomeInv /\ TokenInv
-----------------------------------------------------------------------------
\* The variables hold values of their types in every reachable state.
THEOREM TypeCorrect == Spec => []TypeOK
<1>1. Init => TypeOK
  BY DEF Init, TypeOK, Points
<1>2. TypeOK /\ [Next]_vars => TypeOK'
  <2> SUFFICES ASSUME TypeOK, [Next]_vars PROVE TypeOK'
    OBVIOUS
  <2> USE DEF TypeOK, Proceed, client, token, disk, outcome
  <2>1. CASE WriteReady \/ ReadRequest \/ Bind \/ ReadSecret \/ Preflight
    BY <2>1 DEF WriteReady, ReadRequest, Bind, ReadSecret, Preflight, Passes, Points
  <2>2. CASE CreateRoot \/ CreateLayout \/ CopyFiles \/ SealRun
    BY <2>2 DEF CreateRoot, CreateLayout, CopyFiles, SealRun, Passes, Points
  <2>3. CASE StageTables \/ PromoteTables \/ OpenReport \/ MarkReport \/ FinalCheck
    BY <2>3 DEF StageTables, PromoteTables, OpenReport, MarkReport, FinalCheck, Passes, Points
  <2>4. CASE Commit \/ Publish \/ CheckPublished \/ CloseRoot \/ TryFinish \/ ReportDone
    BY <2>4 DEF Commit, Publish, CheckPublished, CloseRoot, TryFinish, AfterFinish,
                ReportDone, Passes, Claim, Points
  <2>5. CASE WriteCompleted \/ WriteError \/ Exit
    BY <2>5 DEF WriteCompleted, WriteError, Exit, Points
  <2>6. CASE StopMain
    BY <2>6 DEF StopMain, StopAt, ApplySignal, Raise, RaisedByToken, Points
  <2>7. CASE Fail
    BY <2>7 DEF Fail, Raise, Points
  <2>8. CASE ReadControl \/ PollControl
    BY <2>8 DEF ReadControl, PollControl, CancelToken, CauseOf, ApplySignal
  <2>9. CASE SendControl \/ CloseEvents \/ Signal \/ Kill \/ Exited
    BY <2>9 DEF SendControl, CloseEvents, Signal, Kill, Exited, vars, Points
  <2>10. CASE UNCHANGED vars
    BY <2>10 DEF vars
  <2> QED
    BY <2>1, <2>2, <2>3, <2>4, <2>5, <2>6, <2>7, <2>8, <2>9, <2>10 DEF Next, MainStep
<1> QED BY <1>1, <1>2, PTL DEF Spec

LEMMA InitIInv == Init /\ TypeOK => IInv
  BY DEF Init, IInv, DiskInv, OutcomeInv, TokenInv, DiskIs, Empty, Whole, VisibleReportIsWhole

\* One step of the helper keeps the invariant: the main thread's stages move the
\* disk with pc, everybody else leaves pc and the disk alone.
LEMMA StepIInv == IInv /\ TypeOK' /\ [Next]_vars => IInv'
<1> SUFFICES ASSUME IInv, TypeOK', [Next]_vars PROVE DiskInv' /\ OutcomeInv' /\ TokenInv'
  BY DEF IInv
<1> USE DEF IInv, TypeOK, Proceed, client, token, disk, outcome,
            DiskInv, OutcomeInv, TokenInv, DiskIs, Empty, Whole, VisibleReportIsWhole
<1>1. CASE WriteReady \/ ReadRequest \/ Bind \/ ReadSecret \/ Preflight
  BY <1>1 DEF WriteReady, ReadRequest, Bind, ReadSecret, Preflight, Passes
<1>2. CASE CreateRoot \/ CreateLayout \/ CopyFiles \/ SealRun
  BY <1>2 DEF CreateRoot, CreateLayout, CopyFiles, SealRun, Passes
<1>3. CASE StageTables \/ PromoteTables \/ OpenReport \/ MarkReport \/ FinalCheck
  BY <1>3 DEF StageTables, PromoteTables, OpenReport, MarkReport, FinalCheck, Passes
<1>4. CASE Commit \/ Publish \/ CheckPublished \/ CloseRoot \/ TryFinish \/ ReportDone
  <2>1. CASE Commit BY <2>1 DEF Commit, Passes, Claim
  <2>2. CASE Publish BY <2>2 DEF Publish
  <2>3. CASE CheckPublished BY <2>3 DEF CheckPublished
  <2>4. CASE CloseRoot BY <2>4 DEF CloseRoot
  <2>5. CASE TryFinish BY <2>5 DEF TryFinish, AfterFinish, Claim, Cancelled
  <2>6. CASE ReportDone BY <2>6 DEF ReportDone
  <2> QED BY <1>4, <2>1, <2>2, <2>3, <2>4, <2>5, <2>6
<1>5. CASE WriteCompleted \/ WriteError \/ Exit
  BY <1>5 DEF WriteCompleted, WriteError, Exit
<1>6. CASE StopMain
  BY <1>6 DEF StopMain, StopAt, Checkpoints, ApplySignal, Cancelled, Raise, RaisedByToken
<1>7. CASE Fail
  BY <1>7 DEF Fail, FailurePoints, Raise
<1>8. CASE ReadControl \/ PollControl
  BY <1>8 DEF ReadControl, PollControl, CancelToken, ApplySignal, Cancelled
<1>9. CASE SendControl \/ CloseEvents \/ Signal \/ Kill \/ Exited
  BY <1>9 DEF SendControl, CloseEvents, Signal, Kill, Exited, vars, Running
<1>10. CASE UNCHANGED vars
  BY <1>10 DEF vars
<1> QED
  BY <1>1, <1>2, <1>3, <1>4, <1>5, <1>6, <1>7, <1>8, <1>9, <1>10 DEF Next, MainStep

THEOREM Invariance == Spec => []IInv
<1> QED BY InitIInv, StepIInv, TypeCorrect, PTL DEF Spec
-----------------------------------------------------------------------------
\* Once the token is cancelled the run never succeeds, for every action.
THEOREM CancelledNeverSucceedsHolds == Spec => []CancelledNeverSucceeds
<1>1. IInv => CancelledNeverSucceeds
  BY DEF IInv, OutcomeInv, CancelledNeverSucceeds
<1> QED BY <1>1, Invariance, PTL

\* A completed event describes an output with both markers and no staging.
THEOREM CompletedIsWholeHolds == Spec => []CompletedIsWhole
<1>1. IInv => CompletedIsWhole
  BY DEF IInv, OutcomeInv, Whole, DiskIs, CompletedIsWhole
<1> QED BY <1>1, Invariance, PTL

\* Whatever is visible under analysis/ is whole, also after a crash.
THEOREM VisibleReportIsWholeHolds == Spec => []VisibleReportIsWhole
<1>1. IInv => VisibleReportIsWhole
  BY DEF IInv, DiskInv
<1> QED BY <1>1, Invariance, PTL

\* The event pipe shows one decision, once; outside of acquisitions it agrees with
\* what the disk shows.
THEOREM OneDecision == Spec => ObservesOneDecision
<1>1. Init => CD!Init
  BY DEF Init, CD!Init, observedDecision
<1>2. IInv /\ IInv' /\ [Next]_vars => [CD!Next]_observedDecision
  <2> SUFFICES ASSUME IInv, IInv', [Next]_vars
               PROVE  \/ UNCHANGED observedDecision
                      \/ /\ observedDecision = "open"
                         /\ observedDecision' \in {"cancelled", "committed"}
    BY DEF CD!Next, CD!Cancel, CD!Commit
  <2> USE DEF observedDecision, IInv, Proceed, client, token, disk, outcome
  <2>0. action \in {"preflight", "recover", "acquire"}
    BY ActionsAssumption DEF TypeOK
  <2>1. CASE WriteReady \/ ReadRequest \/ Bind \/ ReadSecret \/ Preflight
    BY <2>1 DEF WriteReady, ReadRequest, Bind, ReadSecret, Preflight
  <2>2. CASE CreateRoot \/ CreateLayout \/ CopyFiles \/ SealRun
    BY <2>2 DEF CreateRoot, CreateLayout, CopyFiles, SealRun
  <2>3. CASE StageTables \/ PromoteTables \/ OpenReport \/ MarkReport \/ FinalCheck
    <3>1. terminal = "none" /\ analysis # "report"
      BY <2>3 DEF StageTables, PromoteTables, OpenReport, MarkReport, FinalCheck,
                  DiskInv, OutcomeInv, DiskIs
    <3> QED BY <2>3, <3>1
         DEF StageTables, PromoteTables, OpenReport, MarkReport, FinalCheck
  <2>4. CASE Commit \/ Publish \/ CheckPublished \/ CloseRoot \/ TryFinish \/ ReportDone
    <3>1. CASE Publish
      <4>1. terminal = "none" /\ analysis = "none"
        BY <3>1 DEF Publish, DiskInv, OutcomeInv, DiskIs
      <4> QED BY <3>1, <4>1 DEF Publish
    <3> QED BY <2>4, <3>1 DEF Commit, CheckPublished, CloseRoot, TryFinish, ReportDone
  <2>5. CASE WriteCompleted
    <3>1. terminal = "none" BY <2>5 DEF WriteCompleted, OutcomeInv
    <3> QED BY <2>5, <3>1 DEF WriteCompleted
  <2>6. CASE WriteError
    <3>1. terminal = "none" /\ raised # "none"
      BY <2>6 DEF WriteError, OutcomeInv
    <3>2. raised = "cancelled" => analysis # "report" \/ action = "acquire"
      BY <2>0 DEF OutcomeInv, TokenInv, DiskInv, Empty, DiskIs
    <3>3. raised \in {"failed", "cancelled"}
      BY <3>1 DEF TypeOK
    <3> QED BY <2>6, <3>1, <3>2, <3>3 DEF WriteError
  <2>7. CASE Exit \/ StopMain \/ Fail
    BY <2>7 DEF Exit, StopMain, StopAt, Fail
  <2>8. CASE ReadControl \/ PollControl
    BY <2>8 DEF ReadControl, PollControl
  <2>9. CASE SendControl \/ CloseEvents \/ Signal \/ Kill \/ Exited
    BY <2>9 DEF SendControl, CloseEvents, Signal, Kill, Exited, vars
  <2>10. CASE UNCHANGED vars
    BY <2>10 DEF vars
  <2> QED
    BY <2>1, <2>2, <2>3, <2>4, <2>5, <2>6, <2>7, <2>8, <2>9, <2>10 DEF Next, MainStep
<1> QED BY <1>1, <1>2, Invariance, PTL DEF Spec, ObservesOneDecision, CD!Spec
-----------------------------------------------------------------------------
(***************************************************************************)
(* The token the helper shares with its readers and its signal handler,    *)
(* step by step (CancellationToken.tla), for any readers and signals.      *)
(***************************************************************************)
Locked == {"test", "clear", "apply", "decide", "release"}

\* The lock's owner is the one thread inside a critical section.
LockInv == \A t \in Threads : (tokenPc[t] \in Locked) <=> (lock = t)

\* What a caller was told still holds of the state: the state never leaves
\* "cancelled", nor the pair "sealed" and "finished".
ToldInv ==
  /\ \A t \in Threads :
       /\ op[t] \in Ops(t)
       /\ result[t] = "cancelled" => tokenState = "cancelled"
       /\ result[t] = "committed" => t = Main /\ tokenState \in {"sealed", "finished"}
  /\ "cancelled" \in wins => tokenState = "cancelled"
  /\ "committed" \in wins => tokenState \in {"sealed", "finished"}

\* The signal a commit call owes stays on its way until the token is cancelled:
\* still pending, or in the hands of the thread about to apply it.
OwedInv ==
  owed[Main] /\ tokenPc[Main] # "idle" =>
    \/ tokenState = "cancelled"
    \/ /\ tokenState = "active"
       /\ \/ /\ tokenPc[Main] \in {"acquire", "test"}
             /\ tokenSignal \/ \E t \in Threads : tokenPc[t] = "apply"
          \/ tokenPc[Main] \in {"clear", "apply"}

TokenIInv == TokenTypeOK /\ LockInv /\ ToldInv /\ OwedInv
-----------------------------------------------------------------------------
\* The variables hold values of their types in every reachable state.
THEOREM TokenTypeCorrect == TokenSpec => []TokenTypeOK
<1>1. TokenInit => TokenTypeOK
  <2> SUFFICES ASSUME TokenInit PROVE TokenTypeOK
    OBVIOUS
  <2>1. signals \in 0..MaxSignals
    BY ThreadsAssumption DEF TokenInit
  <2> QED BY <2>1 DEF TokenInit, TokenTypeOK, Causes, AllOps, Results
<1>2. TokenTypeOK /\ [TokenNext]_tokenVars => TokenTypeOK'
  <2> SUFFICES ASSUME TokenTypeOK, [TokenNext]_tokenVars PROVE TokenTypeOK'
    OBVIOUS
  <2> USE ThreadsAssumption DEF TokenTypeOK, At
  <2>1. ASSUME NEW t \in Threads, NEW o \in Ops(t), Call(t, o) PROVE TokenTypeOK'
    BY <2>1 DEF Call, fields, Ops, AllOps, Results
  <2>2. ASSUME NEW t \in Threads, Acquire(t) PROVE TokenTypeOK'
    BY <2>2 DEF Acquire, fields
  <2>3. ASSUME NEW t \in Threads, Inside(t) PROVE TokenTypeOK'
    <3>1. CASE TestSignal(t)  BY <3>1 DEF TestSignal, fields
    <3>2. CASE ClearSignal(t) BY <3>2 DEF ClearSignal
    <3>3. CASE ApplyPendingSignal(t) BY <3>3 DEF ApplyPendingSignal, Causes
    <3>4. CASE Decide(t)
      BY <3>4 DEF Decide, Cancel, SealForCommit, TryToFinish, RaiseIfCancelled, Told, Results
    <3>5. CASE Return(t)      BY <3>5 DEF Return, fields
    <3> QED BY <2>3, <3>1, <3>2, <3>3, <3>4, <3>5 DEF Inside
  <2>4. CASE EnterHandler            BY <2>4 DEF EnterHandler, fields
  <2>5. CASE MarkSignalPending BY <2>5 DEF MarkSignalPending
  <2>6. CASE UNCHANGED tokenVars    BY <2>6 DEF tokenVars, fields
  <2> QED BY <2>1, <2>2, <2>3, <2>4, <2>5, <2>6 DEF TokenNext
<1> QED BY <1>1, <1>2, PTL DEF TokenSpec

LEMMA InitTokenIInv == TokenInit /\ TokenTypeOK => TokenIInv
<1> SUFFICES ASSUME TokenInit, TokenTypeOK PROVE LockInv /\ ToldInv /\ OwedInv
  BY DEF TokenIInv
<1>1. LockInv
  BY ThreadsAssumption DEF TokenInit, LockInv, Locked, Threads
<1>2. ToldInv
  BY DEF TokenInit, ToldInv, Ops
<1>3. OwedInv
  BY DEF TokenInit, OwedInv, Threads
<1> QED BY <1>1, <1>2, <1>3

\* The strengthened invariant is inductive, one step of the token at a time.
LEMMA StepTokenIInv == TokenIInv /\ TokenTypeOK' /\ [TokenNext]_tokenVars => TokenIInv'
<1> SUFFICES ASSUME TokenIInv, TokenTypeOK', [TokenNext]_tokenVars PROVE LockInv' /\ ToldInv' /\ OwedInv'
  BY DEF TokenIInv
<1> USE ThreadsAssumption DEF TokenIInv, At, Threads
<1>1. ASSUME NEW t \in Threads, NEW o \in Ops(t), Call(t, o)
      PROVE  LockInv' /\ ToldInv' /\ OwedInv'
  <2> USE <1>1 DEF Call, fields, TokenTypeOK
  <2>1. LockInv' BY DEF LockInv, Locked
  <2>2. ToldInv' BY DEF ToldInv, Ops
  <2>3. OwedInv'
    <3>1. CASE t = Main BY <3>1 DEF OwedInv
    <3>2. CASE t # Main BY <3>2 DEF OwedInv
    <3> QED BY <3>1, <3>2
  <2> QED BY <2>1, <2>2, <2>3
<1>2. ASSUME NEW t \in Threads, Acquire(t)
      PROVE  LockInv' /\ ToldInv' /\ OwedInv'
  <2> USE <1>2 DEF Acquire, fields, TokenTypeOK
  <2>1. LockInv' BY DEF LockInv, Locked
  <2>2. ToldInv' BY DEF ToldInv, Ops
  <2>3. OwedInv'
    <3>1. op[Main] # "cancel" BY DEF ToldInv, Ops
    <3>2. CASE t = Main BY <3>1, <3>2 DEF OwedInv
    <3>3. CASE t # Main BY <3>3 DEF OwedInv
    <3> QED BY <3>2, <3>3
  <2> QED BY <2>1, <2>2, <2>3
<1>3. ASSUME NEW t \in Threads, TestSignal(t)
      PROVE  LockInv' /\ ToldInv' /\ OwedInv'
  <2> USE <1>3 DEF TestSignal, fields, TokenTypeOK
  <2>1. LockInv' BY DEF LockInv, Locked
  <2>2. ToldInv' BY DEF ToldInv, Ops
  <2>3. OwedInv'
    <3>1. CASE t = Main
      <4>1. \A u \in Threads : tokenPc[u] # "apply"
        BY <3>1 DEF LockInv, Locked
      <4> QED BY <3>1, <4>1 DEF OwedInv
    <3>2. CASE t # Main BY <3>2 DEF OwedInv
    <3> QED BY <3>1, <3>2
  <2> QED BY <2>1, <2>2, <2>3
<1>4. ASSUME NEW t \in Threads, ClearSignal(t)
      PROVE  LockInv' /\ ToldInv' /\ OwedInv'
  <2> USE <1>4 DEF ClearSignal, TokenTypeOK
  <2>1. LockInv' BY DEF LockInv, Locked
  <2>2. ToldInv' BY DEF ToldInv, Ops
  <2>3. OwedInv'
    <3>1. tokenPc'[t] = "apply" OBVIOUS
    <3>2. CASE t = Main BY <3>1, <3>2 DEF OwedInv
    <3>3. CASE t # Main BY <3>1, <3>3 DEF OwedInv
    <3> QED BY <3>2, <3>3
  <2> QED BY <2>1, <2>2, <2>3
<1>5. ASSUME NEW t \in Threads, ApplyPendingSignal(t)
      PROVE  LockInv' /\ ToldInv' /\ OwedInv'
  <2> USE <1>5 DEF ApplyPendingSignal, TokenTypeOK
  <2>1. LockInv' BY DEF LockInv, Locked
  <2>2. ToldInv' BY DEF ToldInv, Ops
  <2>3. OwedInv' BY DEF OwedInv
  <2> QED BY <2>1, <2>2, <2>3
<1>6. ASSUME NEW t \in Threads, Decide(t)
      PROVE  LockInv' /\ ToldInv' /\ OwedInv'
  <2> USE <1>6 DEF Decide, TokenTypeOK
  <2>1. LockInv' BY DEF LockInv, Locked
  <2>2. ToldInv'
    <3>1. CASE \E c \in Causes : Cancel(t, c)
      BY <3>1 DEF ToldInv, Ops, Cancel, Told
    <3>2. CASE SealForCommit(t) BY <3>2 DEF ToldInv, Ops, SealForCommit, Told
    <3>3. CASE TryToFinish(t) BY <3>3 DEF ToldInv, Ops, TryToFinish, Told
    <3>4. CASE RaiseIfCancelled(t) BY <3>4 DEF ToldInv, Ops, RaiseIfCancelled, Told
    <3> QED BY <3>1, <3>2, <3>3, <3>4
  <2>3. OwedInv'
    <3>1. CASE t = Main
      <4>1. owed[Main] => tokenState = "cancelled" BY <3>1 DEF OwedInv
      <4> QED BY <3>1, <4>1
           DEF OwedInv, Cancel, SealForCommit, TryToFinish, RaiseIfCancelled
    <3>2. CASE t # Main
      <4>1. op[t] \in {"cancel", "raise_if_cancelled"} BY <3>2 DEF ToldInv, Ops
      <4>2. tokenState' = tokenState \/ (tokenState = "active" /\ tokenState' = "cancelled")
        BY <4>1 DEF Cancel, SealForCommit, TryToFinish, RaiseIfCancelled
      <4> QED BY <3>2, <4>2 DEF OwedInv
    <3> QED BY <3>1, <3>2
  <2> QED BY <2>1, <2>2, <2>3
<1>7. ASSUME NEW t \in Threads, Return(t)
      PROVE  LockInv' /\ ToldInv' /\ OwedInv'
  <2> USE <1>7 DEF Return, fields, TokenTypeOK
  <2>1. LockInv' BY DEF LockInv, Locked
  <2>2. ToldInv' BY DEF ToldInv, Ops
  <2>3. OwedInv' BY DEF OwedInv
  <2> QED BY <2>1, <2>2, <2>3
<1>8. CASE EnterHandler
  BY <1>8 DEF EnterHandler, fields, LockInv, ToldInv, OwedInv
<1>9. CASE MarkSignalPending
  BY <1>9 DEF MarkSignalPending, LockInv, ToldInv, OwedInv
<1>10. CASE UNCHANGED tokenVars
  BY <1>10 DEF tokenVars, fields, LockInv, ToldInv, OwedInv
<1> QED
  BY <1>1, <1>2, <1>3, <1>4, <1>5, <1>6, <1>7, <1>8, <1>9, <1>10 DEF TokenNext, Inside

THEOREM TokenInvariance == TokenSpec => []TokenIInv
<1> QED BY InitTokenIInv, StepTokenIInv, TokenTypeCorrect, PTL DEF TokenSpec
-----------------------------------------------------------------------------
\* No two callers of the token are ever told opposite outcomes.
THEOREM NeverBothHolds == TokenSpec => []NeverBoth
<1>1. TokenIInv => NeverBoth
  BY DEF TokenIInv, ToldInv, NeverBoth
<1> QED BY <1>1, TokenInvariance, PTL

\* A commit call that began after a signal arrived on an active token is refused.
THEOREM EarlierSignalWinsHolds == TokenSpec => []EarlierSignalWins
<1>1. TokenIInv => EarlierSignalWins
  BY DEF TokenIInv, ToldInv, OwedInv, EarlierSignalWins
<1> QED BY <1>1, TokenInvariance, PTL

\* The token implements the one-shot decision of CommitDecision.tla.
THEOREM DecisionRefined == TokenSpec => ImplementsDecision
<1>1. TokenInit => Decision!Init
  BY DEF TokenInit, Decision!Init, decisionBar
<1>2. TokenIInv /\ [TokenNext]_tokenVars => [Decision!Next]_decisionBar
  <2> SUFFICES ASSUME TokenIInv, [TokenNext]_tokenVars PROVE [Decision!Next]_decisionBar
    OBVIOUS
  <2> USE DEF TokenIInv, TokenTypeOK, decisionBar, Decision!Next, Decision!Cancel, Decision!Commit
  <2>1. ASSUME NEW t \in Threads, NEW o \in Ops(t), Call(t, o) PROVE UNCHANGED tokenState
    BY <2>1 DEF Call, fields
  <2>2. ASSUME NEW t \in Threads, Acquire(t) PROVE UNCHANGED tokenState
    BY <2>2 DEF Acquire, fields
  <2>3. ASSUME NEW t \in Threads, Inside(t)
        PROVE  \/ UNCHANGED tokenState
               \/ tokenState = "active" /\ tokenState' \in {"cancelled", "sealed", "finished"}
               \/ tokenState = "sealed" /\ tokenState' = "finished"
    BY <2>3 DEF Inside, TestSignal, ClearSignal, ApplyPendingSignal, Decide, Return, fields,
                Cancel, SealForCommit, TryToFinish, RaiseIfCancelled
  <2>4. CASE EnterHandler BY <2>4 DEF EnterHandler, fields
  <2>5. CASE MarkSignalPending BY <2>5 DEF MarkSignalPending
  <2>6. CASE UNCHANGED tokenVars BY <2>6 DEF tokenVars, fields
  <2> QED BY <2>1, <2>2, <2>3, <2>4, <2>5, <2>6 DEF TokenNext
<1> QED BY <1>1, <1>2, TokenInvariance, PTL DEF TokenSpec, ImplementsDecision, Decision!Spec
=============================================================================
