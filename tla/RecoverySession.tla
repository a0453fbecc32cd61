--------------------------- MODULE RecoverySession ---------------------------
(***************************************************************************)
(* The macOS app's session: class RecoverySession (macos/Sources/          *)
(* TVTimeRecoveryCore/RecoverySession.swift), the views and the            *)
(* application's delegate that call it, and the helper client it consumes, *)
(* which is HelperStream: an operation of the session is a run of it.      *)
(*                                                                         *)
(* The session's methods run one at a time on the main actor, and share it *)
(* with the operations' tasks, which give it up while they wait for an     *)
(* event or for the validation of the output.  A view shows the phase of   *)
(* its last update, so that a click may come from an earlier one.          *)
(*                                                                         *)
(* Left out: what is only displayed, diagnostics, the source's             *)
(* security-scoped lease, and selectBackup(_:), selectDestinationParent,   *)
(* goBackToDestinationSelection and their phase, which no view reaches.    *)
(***************************************************************************)
EXTENDS Naturals, Sequences, FiniteSets

CONSTANTS MaxOps,      \* bound: operations started
          Capacity,    \* of the client's streams
          Sources,     \* the backups the user may choose
          Scopes       \* bound: what may happen around the operations; one behaviour has one of these

\* A scope's routes[n] is what the user may start as his n-th operation, "recover" or
\* "acquire", and with which backup; viewsLag says whether views may show an earlier
\* phase; callers who else may interrupt him; outcomes what may come of an operation:
\* events, "error": the client throws, "unsafe": the check of the destination does.
ASSUME SessionAssumption == /\ MaxOps \in Nat \ {0} /\ Capacity \in Nat \ {0}
                            /\ 0 \notin Sources
                            /\ Scopes \subseteq
                                 [routes : Seq(SUBSET ({"recover", "acquire"} \X Sources)),
                                  viewsLag : BOOLEAN, callers : SUBSET {"window", "quit"},
                                  outcomes : SUBSET {"progress", "completed", "failed",
                                                     "cancelled", "error", "unsafe"}]

Ops == 1..MaxOps
Outputs == 1..(MaxOps + 2)      \* names of recovery folders, in the order they are tried
Actions == {"preflight", "recover", "acquire"}

VARIABLES
  session,     \* the session's fields, and its callers' that wait for an answer
  request,     \* request[o]: what operation o asked of the helper
  task,        \* task[o]: where its task stands
  validator,   \* validator[o]: the detached validation of its output
  view,        \* the phase the views show
  creators,    \* the operations whose helper created the output folder
  confirmed,   \* history: the operations the user cancelled
  current, stream, consumer, result, asked    \* of the client

Client == INSTANCE HelperStream WITH MaxRuns <- MaxOps
client == <<current, stream, consumer, result, asked>>
vars == <<session, request, task, validator, view, creators, confirmed, client>>

Done == {"completed", "acquisitionCompleted"}
Busy(phase) == phase \in {"preflighting", "running", "validating", "cancelling"}
Phases == {"chooseBackup", "confirm", "failed"} \cup Done
            \cup {"preflighting", "running", "validating", "cancelling"}

\* One failure of the helper per route of its recovery plan, and the session's own.
HelperFailures == {"source_changed", "recovery_failed", "invalid_input"}
Failures == HelperFailures \cup {"cancelled", "preflight_cancelled", "output_validation_failed",
                                 "local_helper_error", "unsafe_path"}
RouteOf(code) ==
  CASE code = "source_changed" -> "chooseBackup"
    [] code = "preflight_cancelled" -> "retrySamePreflight"
    [] code \in {"invalid_input", "unsafe_path"} -> "startOverOnly"
    [] OTHER -> "retryWithFreshOutput"

Origins == <<"cancelButton", "windowClose", "applicationQuit">>     \* by rank
Rank(origin) == CHOOSE i \in 1..3 : Origins[i] = origin

NoRequest == [action |-> "none", source |-> 0, output |-> 0, receipt |-> 0]
Started == {o \in Ops : request[o] # NoRequest}
Last == Cardinality(Started)
Allowed(route, b) ==
  LET routes == session.scope.routes
  IN Last < Len(routes) /\ <<route, b>> \in routes[Last + 1]

Sessions ==
  [phase : Phases, failure : Failures \cup {"none"},
   source : Sources \cup {0}, output : Outputs \cup {0},
   receipt : Ops \cup {0},                   \* the preflight that returned it
   activeAction : {"none", "preflight", "recover"}, isAcquisitionRoute : BOOLEAN,
   cancellationSignalSent : BOOLEAN,
   prompt : {"none", "cancelButton", "windowClose", "applicationQuit"},
   handlers : SUBSET {"window", "quit"},     \* cancellationDecisionHandlers
   operationTask : Ops \cup {0}, stopped : SUBSET Ops,    \* tasks that were cancelled
   validationTask : Ops \cup {0},
   leases : SUBSET Ops, retained : Ops \cup {0},   \* destination leases not stopped
   closeRequestPending : BOOLEAN, closeWhenSafe : BOOLEAN,
   quit : {"no", "asked", "waiting", "terminated"},
   scope : Scopes]                           \* not the session's: the bounds

TypeOK ==
  /\ session \in Sessions
  /\ request \in [Ops -> {NoRequest} \cup
       [action : Actions, source : Sources, output : Outputs, receipt : Ops \cup {0}]]
  /\ task \in [Ops -> {"none", "iterating", "validating", "done"}]
  /\ validator \in [Ops -> {"none", "running", "cancelled", "passed", "failed", "stopped"}]
  /\ view \in Phases
  /\ creators \subseteq Ops /\ confirmed \subseteq Ops

Init ==
  /\ \E scope \in Scopes : session =
       [phase |-> "chooseBackup", failure |-> "none", source |-> 0, output |-> 0, receipt |-> 0,
        activeAction |-> "none", isAcquisitionRoute |-> FALSE, cancellationSignalSent |-> FALSE,
        prompt |-> "none", handlers |-> {}, operationTask |-> 0, stopped |-> {},
        validationTask |-> 0, leases |-> {}, retained |-> 0,
        closeRequestPending |-> FALSE, closeWhenSafe |-> FALSE, quit |-> "no",
        scope |-> scope]
  /\ request = [o \in Ops |-> NoRequest]
  /\ task = [o \in Ops |-> "none"]
  /\ validator = [o \in Ops |-> "none"]
  /\ view = "chooseBackup"
  /\ creators = {} /\ confirmed = {}
  /\ Client!Init
-----------------------------------------------------------------------------
\* The session's private methods, from a session to a session.

Shown == IF session.scope.viewsLag THEN view ELSE session.phase

\* The callers' decision handlers: a confirmed quit waits until the session is idle,
\* a confirmed close until its view shows that it is.
Answer(s, who, yes) ==
  [s EXCEPT
     !.quit = IF "quit" \in who THEN IF yes THEN "waiting" ELSE "no" ELSE @,
     !.closeRequestPending = @ /\ "window" \notin who,
     !.closeWhenSafe = IF "window" \in who THEN yes /\ Busy(Shown) ELSE @]

ResolvePrompt(s, yes) ==
  [Answer(s, s.handlers, yes) EXCEPT !.prompt = "none", !.handlers = {}]

\* Mutant: the end of the operation grants the pending requests.
GrantInterruptions(s) == ResolvePrompt(s, TRUE)

CancelInterruptions(s) == ResolvePrompt(s, FALSE)

Failed(s, code) ==
  [CancelInterruptions(s) EXCEPT !.receipt = 0, !.phase = "failed", !.failure = code]

FailSafely(s, code) == [Failed(s, code) EXCEPT !.activeAction = "none"]

DropRetained(s) == [s EXCEPT !.leases = @ \ {s.retained}, !.retained = 0]

PrepareForOperation(s) == [ResolvePrompt(s, FALSE) EXCEPT !.cancellationSignalSent = FALSE]

\* Mutant: the folders that are there are not looked at.
FreshOutputUnseen(excluded) ==
  CHOOSE n \in Outputs \ {excluded} : \A m \in Outputs \ {excluded} : n <= m

\* The first name that is neither excluded nor there.
FreshOutput(excluded) ==
  CHOOSE n \in Outputs :
    LET free == Outputs \ ({request[o].output : o \in creators} \cup {excluded})
    IN n \in free /\ \A m \in free : n <= m

Home(s) ==
  [DropRetained(ResolvePrompt(s, FALSE)) EXCEPT
     !.stopped = @ \cup ({s.operationTask} \ {0}), !.operationTask = 0,
     !.cancellationSignalSent = FALSE, !.source = 0, !.output = 0, !.receipt = 0,
     !.isAcquisitionRoute = FALSE, !.phase = "chooseBackup", !.failure = "none"]

Alive == session.quit # "terminated"

unstarted == <<request, task, client>>

\* events(for:), which throws when the client is busy or has no helper, and consume.
Launch(s, action, phase) ==
  \/ LET o == Last + 1
     IN /\ o \in Ops /\ o <= Len(s.scope.routes)
        /\ Client!Begin(o)
        /\ request' = [request EXCEPT ![o] = [action |-> action, source |-> s.source,
                                              output |-> s.output, receipt |-> s.receipt]]
        /\ task' = [task EXCEPT ![o] = "iterating"]
        /\ session' = [s EXCEPT !.phase = phase, !.failure = "none",
                                !.leases = @ \cup {o}, !.operationTask = o,
                                !.stopped = @ \cup ({s.operationTask} \ {0})]
  \/ /\ current # 0 \/ "error" \in s.scope.outcomes
     /\ session' = FailSafely(s, "local_helper_error")
     /\ UNCHANGED unstarted

\* The destination is checked again by each operation, and may fail the check.
RefuseDestination(s) ==
  /\ "unsafe" \in s.scope.outcomes
  /\ session' = FailSafely(s, "unsafe_path")
  /\ UNCHANGED unstarted

StartPreflight(s) ==
  LET t == [s EXCEPT !.receipt = 0]
  IN \/ RefuseDestination(t)
     \/ Launch([PrepareForOperation(t) EXCEPT !.isAcquisitionRoute = FALSE,
                                              !.activeAction = "preflight"],
               "preflight", "preflighting")

RetryPreflight(s, output) ==
  IF s.source = 0 \/ s.output = 0
  THEN session' = Home(s) /\ UNCHANGED unstarted
  ELSE StartPreflight([DropRetained(PrepareForOperation(s)) EXCEPT !.receipt = 0, !.output = output])

\* Mutant: the helper is not told.
BeginCancellationSilently(s) ==
  IF Busy(s.phase) /\ ~s.cancellationSignalSent
  THEN /\ session' = [s EXCEPT !.cancellationSignalSent = TRUE, !.phase = "cancelling"]
       /\ confirmed' = confirmed \cup {Last}
       /\ UNCHANGED <<validator, client>>
  ELSE session' = s /\ UNCHANGED <<confirmed, validator, client>>

BeginCancellation(s) ==
  IF Busy(s.phase) /\ ~s.cancellationSignalSent
  THEN /\ session' = [s EXCEPT !.cancellationSignalSent = TRUE, !.phase = "cancelling"]
       /\ confirmed' = confirmed \cup {Last}
       /\ IF s.phase = "validating"
          THEN /\ validator' = [o \in Ops |-> IF o = s.validationTask /\ validator[o] = "running"
                                              THEN "cancelled" ELSE validator[o]]
               /\ UNCHANGED client
          ELSE /\ IF current = 0 THEN UNCHANGED client
                  ELSE Client!Cancel /\ result'[current] \in s.scope.outcomes \cup {"none"}
               /\ UNCHANGED validator
  ELSE session' = s /\ UNCHANGED <<confirmed, validator, client>>
-----------------------------------------------------------------------------
\* What the views call.

\* Mutant: a click from a view that still shows the selection is not refused.
SelectBackupAnyway(b) ==
  /\ Alive /\ Allowed("recover", b)
  /\ Shown = "chooseBackup"
  /\ StartPreflight([DropRetained(session) EXCEPT !.source = b, !.output = FreshOutput(0),
                                                  !.receipt = 0])
  /\ UNCHANGED <<validator, view, creators, confirmed>>

SelectBackup(b) ==
  /\ Alive /\ Allowed("recover", b)
  /\ Shown = "chooseBackup" /\ ~Busy(session.phase)
  /\ StartPreflight([DropRetained(session) EXCEPT !.source = b, !.output = FreshOutput(0),
                                                  !.receipt = 0])
  /\ UNCHANGED <<validator, view, creators, confirmed>>

StartRecovery ==
  /\ Alive
  /\ Shown = "confirm" /\ session.phase = "confirm"
  /\ session.source # 0 /\ session.output # 0 /\ session.receipt # 0
  /\ \/ RefuseDestination(session)
     \/ Launch([PrepareForOperation(session) EXCEPT !.isAcquisitionRoute = FALSE,
                                                    !.activeAction = "recover"],
               "recover", "running")
  /\ UNCHANGED <<validator, view, creators, confirmed>>

StartAcquisition(b) ==
  /\ Alive /\ Allowed("acquire", b)
  /\ Shown = "chooseBackup" /\ ~Busy(session.phase)
  /\ \/ RefuseDestination(session)
     \/ Launch([PrepareForOperation([session EXCEPT !.source = b, !.output = FreshOutput(0)])
                  EXCEPT !.isAcquisitionRoute = TRUE, !.activeAction = "recover"],
               "acquire", "running")
  /\ UNCHANGED <<validator, view, creators, confirmed>>

ReturnToBackupSelection ==
  /\ Alive
  /\ Shown \in {"confirm", "failed"} \cup Done /\ ~Busy(session.phase)
  /\ session' = Home(session)
  /\ UNCHANGED <<request, task, validator, view, creators, confirmed, client>>

RecoverFromFailure ==
  /\ Alive
  /\ Shown = "failed" /\ session.phase = "failed"
  /\ LET route == RouteOf(session.failure)
     IN IF session.isAcquisitionRoute \/ route = "chooseBackup"
        THEN session' = Home(session) /\ UNCHANGED unstarted
        ELSE \/ /\ route = "retryWithFreshOutput"
                /\ RetryPreflight(session, FreshOutput(session.output))
             \/ /\ route = "retrySamePreflight"
                /\ RetryPreflight(session, session.output)
  /\ UNCHANGED <<validator, view, creators, confirmed>>

\* requestCancellation for a caller with a decision handler, or without (who = {}).
RequestCancellation(s, origin, who) ==
  CASE s.phase = "preflighting" -> BeginCancellation(Answer(s, who, TRUE))
    [] s.phase \in {"running", "validating"} ->
         /\ session' = [s EXCEPT !.handlers = @ \cup who,
                                 !.prompt = IF @ # "none" /\ Rank(@) >= Rank(origin) THEN @ ELSE origin]
         /\ UNCHANGED <<confirmed, validator, client>>
    [] s.phase = "cancelling" ->
         session' = Answer(s, who, TRUE) /\ UNCHANGED <<confirmed, validator, client>>
    [] OTHER ->
         /\ session' = Answer(s, who, origin # "cancelButton")
         /\ UNCHANGED <<confirmed, validator, client>>

CancelButton ==
  /\ Alive
  /\ Shown \in {"preflighting", "running", "validating"}
  /\ RequestCancellation(session, "cancelButton", {})
  /\ UNCHANGED <<request, task, view, creators>>

\* windowShouldClose: a window whose view shows an idle session just closes.
AskClose ==
  /\ Alive /\ "window" \in session.scope.callers
  /\ Busy(Shown) /\ ~session.closeRequestPending
  /\ RequestCancellation([session EXCEPT !.closeRequestPending = TRUE], "windowClose", {"window"})
  /\ UNCHANGED <<request, task, view, creators>>

\* applicationShouldTerminate
AskQuit ==
  /\ Alive /\ "quit" \in session.scope.callers
  /\ IF Busy(session.phase)
     THEN /\ session.quit = "no"
          /\ RequestCancellation([session EXCEPT !.quit = "asked"], "applicationQuit", {"quit"})
     ELSE /\ session' = [session EXCEPT !.quit = "terminated"]
          /\ UNCHANGED <<confirmed, validator, client>>
  /\ UNCHANGED <<request, task, view, creators>>

\* Mutant: the wait ends although the session is busy.
TerminateAfterDelay ==
  /\ session.quit = "waiting"
  /\ session' = [session EXCEPT !.quit = "terminated"]
  /\ UNCHANGED <<request, task, validator, view, creators, confirmed, client>>

\* waitForSafeTermination
TerminateWhenIdle ==
  /\ session.quit = "waiting" /\ ~Busy(session.phase)
  /\ session' = [session EXCEPT !.quit = "terminated"]
  /\ UNCHANGED <<request, task, validator, view, creators, confirmed, client>>

\* The two buttons of the prompt, and its dismissal, which is the first one.
ContinueRecovery ==
  /\ Alive
  /\ session.prompt # "none"
  /\ session' = ResolvePrompt(session, FALSE)
  /\ UNCHANGED <<request, task, validator, view, creators, confirmed, client>>

ConfirmCancellation ==
  /\ Alive
  /\ session.prompt # "none"
  /\ BeginCancellation(ResolvePrompt(session, TRUE))
  /\ UNCHANGED <<request, task, view, creators>>

UpdateView ==
  /\ Alive
  /\ session.scope.viewsLag /\ view # session.phase
  /\ view' = session.phase
  /\ session' = [session EXCEPT !.closeWhenSafe = @ /\ Busy(session.phase)]
  /\ UNCHANGED <<request, task, validator, creators, confirmed, client>>
-----------------------------------------------------------------------------
\* The operations' tasks.

\* The last event of a run that completed; the client has seen that it is the one
\* its action ends with.
Completed(o, s) ==
  IF request[o].action = "preflight"
  THEN /\ session' = [s EXCEPT !.receipt = o, !.phase = "confirm"]
       /\ UNCHANGED <<task, validator>>
  ELSE LET t == [s EXCEPT !.receipt = IF request[o].action = "recover" THEN 0 ELSE @]
       IN IF t.cancellationSignalSent \/ t.output = 0
          THEN /\ session' = Failed(t, IF t.cancellationSignalSent THEN "cancelled"
                                                          ELSE "output_validation_failed")
               /\ UNCHANGED <<task, validator>>
          ELSE /\ session' = [t EXCEPT !.phase = "validating", !.validationTask = o]
               /\ validator' = [validator EXCEPT ![o] = "running"]
               /\ task' = [task EXCEPT ![o] = "validating"]

HandleProgress(o) ==
  /\ session' = [session EXCEPT !.phase =
                   IF @ \in {"preflighting", "cancelling", "validating"} THEN @ ELSE "running"]
  /\ UNCHANGED <<task, validator>>

HandleEnd(o, e) ==
  LET s == [CancelInterruptions(session) EXCEPT !.activeAction = "none"]
  IN \/ e = "completed" /\ Completed(o, s)
     \/ /\ e = "failed"
        /\ \E code \in HelperFailures : session' = Failed(s, code)
        /\ UNCHANGED <<task, validator>>
     \/ /\ e = "cancelled"
        /\ session' = Failed(s, IF session.activeAction = "preflight" THEN "preflight_cancelled"
                                                                     ELSE "cancelled")
        /\ UNCHANGED <<task, validator>>

Handle(o) ==
  /\ Alive
  /\ task[o] = "iterating"
  /\ Client!Take(o)
  /\ LET e == Head(stream[o]) IN IF e = "progress" THEN HandleProgress(o) ELSE HandleEnd(o, e)
  /\ UNCHANGED <<request, view, creators, confirmed>>

\* The detached validation reads the output; once cancelled it may notice.
ValidatorEnds(o) ==
  /\ \/ validator[o] \in {"running", "cancelled"} /\ validator' = [validator EXCEPT ![o] = "failed"]
     \/ /\ validator[o] \in {"running", "cancelled"} /\ o \in creators
        /\ validator' = [validator EXCEPT ![o] = "passed"]
     \/ validator[o] = "cancelled" /\ validator' = [validator EXCEPT ![o] = "stopped"]
  /\ UNCHANGED <<session, request, task, view, creators, confirmed, client>>

\* Mutants: a validation that passed is published although it was cancelled; the
\* prompt is left up.
ValidatedRegardless(o, s) ==
  IF validator[o] = "passed" THEN [CancelInterruptions(s) EXCEPT !.phase = "completed"]
  ELSE Failed(s, "cancelled")
ValidatedBehindPrompt(o, s) ==
  IF validator[o] = "passed" /\ s.phase = "validating" THEN [s EXCEPT !.phase = "completed"]
  ELSE Failed(s, "cancelled")

\* What the validation makes of the session: published unless it was cancelled meanwhile.
Validated(o, s) ==
  LET publish == validator[o] = "passed" /\ ~s.cancellationSignalSent /\ s.phase = "validating"
  IN IF request[o].action = "recover"
     THEN CASE publish -> [CancelInterruptions(s) EXCEPT !.phase = "completed", !.validationTask = 0]
            [] ~publish /\ validator[o] = "failed" /\ ~s.cancellationSignalSent ->
                 [Failed(s, "output_validation_failed") EXCEPT !.validationTask = 0]
            [] OTHER -> [Failed(s, "cancelled") EXCEPT !.validationTask = 0]
     ELSE CASE publish -> [s EXCEPT !.phase = "acquisitionCompleted", !.validationTask = 0]
            [] validator[o] = "failed" -> Failed(s, "output_validation_failed")
            [] validator[o] = "stopped" -> Failed(s, "cancelled")
            [] OTHER -> [Failed(s, "cancelled") EXCEPT !.validationTask = 0]

ValidationReturns(o) ==
  /\ Alive
  /\ task[o] = "validating"
  /\ validator[o] \in {"passed", "failed", "stopped"}
  /\ task' = [task EXCEPT ![o] = "iterating"]
  /\ session' = Validated(o, session)
  /\ UNCHANGED <<request, validator, view, creators, confirmed, client>>

\* The stream ended: the task gives the destination up, unless the result is shown.
StreamEnds(o) ==
  /\ Alive
  /\ task[o] = "iterating"
  /\ stream[o] = <<>>
  /\ result[o] # "none" \/ consumer[o] = "cancelled"
  /\ task' = [task EXCEPT ![o] = "done"]
  /\ LET s == [session EXCEPT !.operationTask = 0]
     IN session' =
          IF result[o] = "error" /\ consumer[o] # "cancelled"
          THEN FailSafely([s EXCEPT !.leases = @ \ {o}], "local_helper_error")
          ELSE IF request[o].action # "preflight" /\ session.phase \in Done
          THEN [DropRetained(s) EXCEPT !.retained = o]
          ELSE [s EXCEPT !.leases = @ \ {o}]
  /\ UNCHANGED <<request, validator, view, creators, confirmed, client>>

\* A cancelled task stops consuming its stream.
StopTask(o) ==
  /\ Alive
  /\ o \in session.stopped
  /\ task[o] = "iterating"
  /\ Client!Stop(o)
  /\ UNCHANGED <<session, request, task, validator, view, creators, confirmed>>
-----------------------------------------------------------------------------
\* The helper, as the client shows it.

unobserved == <<session, request, task, validator, view, confirmed>>

CreateOutput(o) ==
  /\ current = o /\ o \notin creators
  /\ request[o].action # "preflight"
  /\ creators' = creators \cup {o}
  /\ UNCHANGED <<unobserved, client>>

HelperProgress(o) ==
  /\ "progress" \in session.scope.outcomes
  /\ Client!Progress(o)
  /\ UNCHANGED <<unobserved, creators>>

HelperEnds(o) ==
  /\ \E end \in session.scope.outcomes \ {"progress", "unsafe"} : Client!End(o, end)
  /\ UNCHANGED <<unobserved, creators>>

Resume(o) == Handle(o) \/ StreamEnds(o) \/ ValidationReturns(o) \/ StopTask(o)

Terminated == ~Alive /\ UNCHANGED vars

\* The scope is used up, and the user has left the last result.
AtRest ==
  /\ session.phase = "chooseBackup"
  /\ \A route \in {"recover", "acquire"}, b \in Sources : ~Allowed(route, b)
  /\ UNCHANGED vars

Next ==
  \/ \E b \in Sources : SelectBackup(b) \/ StartAcquisition(b)
  \/ StartRecovery \/ ReturnToBackupSelection \/ RecoverFromFailure
  \/ CancelButton \/ AskClose \/ AskQuit \/ TerminateWhenIdle
  \/ ContinueRecovery \/ ConfirmCancellation \/ UpdateView
  \/ \E o \in Ops : \/ Resume(o) \/ ValidatorEnds(o)
                    \/ CreateOutput(o) \/ HelperProgress(o) \/ HelperEnds(o)
  \/ Terminated \/ AtRest

Spec == Init /\ [][Next]_vars

\* The main actor resumes its tasks, validations end, and so does the helper of a
\* cancelled run (the client's promise).  Nothing is assumed of the user.
Fairness ==
  \A o \in Ops :
    /\ WF_vars(Resume(o)) /\ WF_vars(ValidatorEnds(o))
    /\ WF_vars(o \in asked /\ HelperEnds(o))

FairSpec == Spec /\ Fairness
-----------------------------------------------------------------------------
\* Preflight p completed, and was of this source and output.
WasChecked(p, source, output) ==
  /\ p \in Started /\ result[p] = "completed"
  /\ request[p] = [action |-> "preflight", source |-> source, output |-> output, receipt |-> 0]

\* A recovery is only asked for what the user saw checked: its receipt is that of the
\* preflight of its source and output that completed just before it.  And a receipt that
\* the session keeps is of the selection it has: selecting another backup, retrying and
\* failing clear it.  (Two things do not.  A cancellation: a preflight that completes all
\* the same goes to the confirmation with its receipt.  And an acquisition, started from
\* a view that still shows the selection: it keeps a receipt it has no use for.)
ReceiptIsOfSelection ==
  /\ \A o \in Started : request[o].action = "recover" =>
       request[o].receipt = o - 1 /\ WasChecked(o - 1, request[o].source, request[o].output)
  /\ session.receipt # 0 /\ ~session.isAcquisitionRoute =>
       WasChecked(session.receipt, session.source, session.output)

\* Success is only shown for an output of this very operation, which the helper
\* completed, which passed its validation, and which nobody cancelled, not even
\* while it was validated.
SuccessIsValidated ==
  session.phase \in Done =>
    /\ result[Last] = "completed" /\ validator[Last] = "passed"
    /\ Last \notin confirmed \cup asked
    /\ session.output = request[Last].output

\* A folder that a helper created is never given to another recovery: every retry
\* is into a fresh one.
OutputIsFresh ==
  \A o, p \in Started : o < p /\ request[o].output = request[p].output =>
    o \notin creators

\* An application that quits leaves no helper and no validation behind.
QuitLeavesNothing ==
  session.quit = "terminated" =>
    current = 0 /\ \A o \in Ops : task[o] # "validating"

\* A request to close or to quit is granted only by the user's confirmation, or when
\* there is nothing left to lose: a helper's last event is not a consent.
GrantIsConfirmed ==
  [][(session'.quit = "waiting" /\ session.quit # "waiting")
       \/ (session'.closeWhenSafe /\ ~session.closeWhenSafe)
     => Last \in confirmed' \/ ~Busy(session.phase)]_vars

\* Completion wins: an operation that finishes while a confirmation is visible answers
\* the requests to close or to quit, and takes the confirmation away.
CompletionWins ==
  session.phase \in Done => session.prompt = "none" /\ session.handlers = {}

\* That holds of a recovery, on whichever side of its end the confirmation appears.
RecoveryWins ==
  session.phase = "completed" => session.prompt = "none" /\ session.handlers = {}

\* A cancellation comes to an end.
CancellingEnds == session.phase = "cancelling" ~> ~Busy(session.phase)
=============================================================================
