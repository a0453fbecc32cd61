--------------------------- MODULE RecoveryHelper ---------------------------
(***************************************************************************)
(* One run of the helper process (tvtime_extractor/helper_main.py) from    *)
(* its ready event to its exit: the main thread through the stages of a    *)
(* preflight, an iOS recovery (service.py) or the acquisition of another   *)
(* source (acquisition.py); the daemon thread that reads the control pipe; *)
(* the signal handler; the parent, which may cancel, send an unsupported   *)
(* frame, close either pipe, signal or kill.  Each call of the             *)
(* cancellation token is one step here: CancellationToken.tla shows that   *)
(* its methods are atomic decisions.  On disk only what a reader of the    *)
(* output can tell apart is kept: the two completion markers and the       *)
(* directories that hold them.                                             *)
(***************************************************************************)
EXTENDS Naturals

CONSTANT Actions   \* the actions the parent may request

ASSUME ActionsAssumption == Actions \subseteq {"preflight", "recover", "acquire"}

VARIABLES
  action,         \* what the request frame asks for
  pc,             \* where the main thread is
  raised,         \* the exception on its way up: "none", "failed", "cancelled"
  control,        \* first frame on the control pipe after the request
  stdoutOpen,     \* does the parent still read the event pipe?
  signalled,      \* history: has a SIGINT or SIGTERM arrived?
  reader,         \* the control reader thread: "off", "reading", "done"
  state,          \* the token's state ...
  cause,          \* ... the exception handed to cancel ...
  signalPending,  \* ... and its lock-free signal flag
  run,            \* status in metadata/run_state.json
  tables,         \* does the staging directory .analysis-incomplete exist?
  analysis,       \* analysis/: "none", "tables", or the promoted "report"
  staging,        \* .report-incomplete/: "none", "open", or "marked" complete
  terminal,       \* the terminal event on the event pipe
  exit            \* exit status: "running", "success", "failure", "killed"

client == <<control, stdoutOpen, signalled>>
token == <<state, cause, signalPending>>
disk == <<run, tables, analysis, staging>>
outcome == <<terminal, exit>>
vars == <<action, pc, raised, client, reader, token, disk, outcome>>

\* The main thread's program points.  "unwind" is the except clause of main.
Points == {"boot", "request", "bind", "secret", "preflight", "root", "layout", "copy",
           "seal_run", "analyze", "promote_tables", "open_report", "mark_report",
           "final_check", "commit", "publish", "published", "finish", "close_root",
           "report_done", "terminal", "unwind", "exiting", "exited"}

TypeOK ==
  /\ action \in Actions
  /\ pc \in Points
  /\ raised \in {"none", "failed", "cancelled"}
  /\ control \in {"nothing", "cancel", "garbage", "eof"}
  /\ stdoutOpen \in BOOLEAN
  /\ signalled \in BOOLEAN
  /\ reader \in {"off", "reading", "done"}
  /\ state \in {"active", "cancelled", "sealed", "finished"}
  /\ cause \in {"none", "protocol"}
  /\ signalPending \in BOOLEAN
  /\ run \in {"none", "incomplete", "complete"}
  /\ tables \in BOOLEAN
  /\ analysis \in {"none", "tables", "report"}
  /\ staging \in {"none", "open", "marked"}
  /\ terminal \in {"none", "completed", "failed", "cancelled"}
  /\ exit \in {"running", "success", "failure", "killed"}

Init ==
  /\ action \in Actions
  /\ pc = "boot"
  /\ raised = "none"
  /\ control = "nothing" /\ stdoutOpen = TRUE /\ signalled = FALSE
  /\ reader = "off"
  /\ state = "active" /\ cause = "none" /\ signalPending = FALSE
  /\ run = "none" /\ tables = FALSE /\ analysis = "none" /\ staging = "none"
  /\ terminal = "none" /\ exit = "running"
-----------------------------------------------------------------------------
\* The token, one method per operator (models.py).

\* Is the token cancelled once a pending signal has been applied?
Cancelled == state = "cancelled" \/ (state = "active" /\ signalPending)

ApplySignal ==
  /\ signalPending' = FALSE
  /\ state' = IF Cancelled THEN "cancelled" ELSE state
  /\ cause' = IF state = "cancelled" THEN cause ELSE "none"

\* cancel(cause) refuses unless the token is still active.
CancelToken(c) ==
  /\ IF state = "active"
     THEN state' = "cancelled" /\ cause' = c
     ELSE UNCHANGED <<state, cause>>
  /\ UNCHANGED signalPending

\* What raise_if_cancelled raises: the recorded cause, else RecoveryCancelled,
\* which _safe_error_payload tells apart by its code.
RaisedByToken == IF cause' = "protocol" THEN "failed" ELSE "cancelled"

\* seal_for_commit and try_finish: FALSE, or the new state.
Claim(new) ==
  /\ signalPending' = FALSE
  /\ ~Cancelled
  /\ state' = new
  /\ UNCHANGED cause
-----------------------------------------------------------------------------
\* The main thread.

Raise(kind) ==
  /\ pc' = "unwind"
  /\ raised' = kind

Proceed(here, there) ==
  /\ pc = here
  /\ pc' = there
  /\ UNCHANGED <<action, raised, client, outcome>>

\* token.raise_if_cancelled at program point here, when the token is cancelled.
StopAt(here) ==
  /\ pc = here
  /\ Cancelled
  /\ ApplySignal
  /\ Raise(RaisedByToken)
  /\ UNCHANGED <<action, client, reader, disk, outcome>>

\* The same call when it is not: the flag is clear and nothing changes.
Passes == ~Cancelled /\ signalPending' = FALSE /\ UNCHANGED <<state, cause>>

\* The request frame; main reads it before the control reader exists.
ReadRequest ==
  /\ Proceed("request", "bind")
  /\ Passes
  /\ UNCHANGED <<reader, disk>>

\* Hold the destination's parent, then start the control reader.
Bind ==
  /\ Proceed("bind", IF action = "preflight" THEN "preflight" ELSE "secret")
  /\ reader' = "reading"
  /\ UNCHANGED <<token, disk>>

\* recover reads the backup password, an acquisition only the password of a
\* source that has one.
ReadSecret ==
  /\ Proceed("secret", "preflight")
  /\ Passes \/ (action = "acquire" /\ UNCHANGED token)
  /\ UNCHANGED <<reader, disk>>

\* RecoveryService.preflight, or the inspection of an acquisition source.
Preflight ==
  /\ Proceed("preflight", IF action = "preflight" THEN "finish" ELSE "root")
  /\ Passes
  /\ UNCHANGED <<reader, disk>>

\* A fresh, empty output root below the bound parent; an acquisition does not
\* look at the token again before it.
CreateRoot ==
  /\ Proceed("root", "layout")
  /\ Passes \/ (action = "acquire" /\ UNCHANGED token)
  /\ UNCHANGED <<reader, disk>>

\* The extraction layout with its run marker.
CreateLayout ==
  /\ Proceed("layout", "copy")
  /\ run' = "incomplete"
  /\ UNCHANGED <<reader, token, tables, analysis, staging>>

CopyFiles ==
  /\ Proceed("copy", "seal_run")
  /\ Passes
  /\ UNCHANGED <<reader, disk>>

\* The run marker is replaced once every selected file was copied; the tree is
\* read again right before, under cancellation checks.
SealRun ==
  /\ Proceed("seal_run", "analyze")
  /\ Passes
  /\ run' = "complete"
  /\ UNCHANGED <<reader, tables, analysis, staging>>

StageTables ==
  /\ Proceed("analyze", "promote_tables")
  /\ Passes
  /\ tables' = TRUE
  /\ UNCHANGED <<reader, run, analysis, staging>>

PromoteTables ==
  /\ Proceed("promote_tables", "open_report")
  /\ Passes
  /\ tables' = FALSE
  /\ analysis' = "tables"
  /\ UNCHANGED <<reader, run, staging>>

\* The report is built in the tables' directory under another name.
OpenReport ==
  /\ Proceed("open_report", "mark_report")
  /\ Passes
  /\ analysis' = "none"
  /\ staging' = "open"
  /\ UNCHANGED <<reader, run, tables>>

\* recovery_state.json says complete, still inside the staging directory.
MarkReport ==
  /\ Proceed("mark_report", "final_check")
  /\ Passes
  /\ staging' = "marked"
  /\ UNCHANGED <<reader, run, tables, analysis>>

FinalCheck ==
  /\ Proceed("final_check", "commit")
  /\ Passes
  /\ UNCHANGED <<reader, disk>>

\* Mutant: the recovery commits as an acquisition does, without the seal.
CommitUnsealed ==
  /\ Proceed("commit", "publish")
  /\ Passes
  /\ UNCHANGED <<reader, disk>>

\* Only the iOS recovery hands the report a commit seal; an acquisition makes
\* do with one more cancellation check.
Commit ==
  /\ Proceed("commit", "publish")
  /\ IF action = "recover" THEN Claim("sealed") ELSE Passes
  /\ UNCHANGED <<reader, disk>>

\* Mutant: the marked staging directory is copied, not renamed.
PublishCopy ==
  /\ Proceed("publish", "published")
  /\ analysis' = "report"
  /\ UNCHANGED <<reader, token, run, tables, staging>>

\* The atomic, no-replace rename to analysis/.
Publish ==
  /\ Proceed("publish", "published")
  /\ staging' = "none"
  /\ analysis' = "report"
  /\ UNCHANGED <<reader, token, run, tables>>

\* The checks after the rename: identities, fsync, permissions.  The recovery
\* finishes inside its anchored output root, the acquisition outside.
CheckPublished ==
  /\ Proceed("published", IF action = "recover" THEN "finish" ELSE "close_root")
  /\ UNCHANGED <<reader, token, disk>>

\* The output root must still be visible under its name.
CloseRoot ==
  /\ Proceed("close_root", IF action = "recover" THEN "report_done" ELSE "finish")
  /\ UNCHANGED <<reader, token, disk>>

AfterFinish == IF action = "recover" THEN "close_root" ELSE "terminal"

\* Mutant: success is reported whatever the token says.
FinishAnyway ==
  /\ Proceed("finish", AfterFinish)
  /\ UNCHANGED <<reader, token, disk>>

TryFinish ==
  /\ Proceed("finish", AfterFinish)
  /\ Claim("finished")
  /\ UNCHANGED <<reader, disk>>

\* recover's last progress event.
ReportDone ==
  /\ Proceed("report_done", "terminal")
  /\ stdoutOpen
  /\ UNCHANGED <<reader, token, disk>>

\* Writing an event fails once the parent closed the pipe.
WriteCompleted ==
  /\ pc = "terminal"
  /\ stdoutOpen
  /\ pc' = "exiting"
  /\ terminal' = "completed"
  /\ UNCHANGED <<action, raised, client, reader, token, disk, exit>>

\* The except clause writes the error event, if the pipe still takes it.
WriteError ==
  /\ pc = "unwind"
  /\ pc' = "exiting"
  /\ terminal' = IF stdoutOpen THEN raised ELSE "none"
  /\ UNCHANGED <<action, raised, client, reader, token, disk, exit>>

\* The exit status is 0 only behind a completed event.
Exit ==
  /\ pc = "exiting"
  /\ pc' = "exited"
  /\ exit' = IF raised = "none" THEN "success" ELSE "failure"
  /\ UNCHANGED <<action, raised, client, reader, token, disk, terminal>>

\* The ready event is written before main catches anything.
WriteReady ==
  /\ pc = "boot"
  /\ pc' = IF stdoutOpen THEN "request" ELSE "exited"
  /\ exit' = IF stdoutOpen THEN exit ELSE "failure"
  /\ UNCHANGED <<action, raised, client, reader, token, disk, terminal>>

\* Points at which main calls raise_if_cancelled.
Checkpoints == {"request", "secret", "preflight", "root", "copy", "seal_run",
                "analyze", "promote_tables", "open_report", "mark_report",
                "final_check", "commit", "finish"}

StopMain ==
  \E here \in Checkpoints : StopAt(here) /\ (here = "root" => action = "recover")

\* Points at which the work of the stage can fail: a malformed or missing
\* request, the source, the file system, a check that no longer holds, or a
\* progress event nobody reads any more.
FailurePoints == {"request", "bind", "secret", "preflight", "root", "layout", "copy",
                  "seal_run", "analyze", "promote_tables", "open_report", "mark_report",
                  "final_check", "publish", "published", "close_root"}

Fail ==
  /\ \/ pc \in FailurePoints
     \/ pc \in {"report_done", "terminal"} /\ ~stdoutOpen
  /\ Raise("failed")
  /\ UNCHANGED <<action, client, reader, token, disk, outcome>>

MainStep ==
  \/ WriteReady \/ ReadRequest \/ Bind \/ ReadSecret \/ Preflight
  \/ CreateRoot \/ CreateLayout \/ CopyFiles \/ SealRun
  \/ StageTables \/ PromoteTables
  \/ OpenReport \/ MarkReport \/ FinalCheck \/ Commit \/ Publish \/ CheckPublished
  \/ CloseRoot \/ TryFinish \/ ReportDone
  \/ WriteCompleted \/ WriteError \/ Exit
  \/ StopMain \/ Fail
-----------------------------------------------------------------------------
\* The control reader thread; it dies with the process.

Running == exit = "running"

\* A cancel frame and the end of the pipe are cancellations, any other frame a
\* protocol error.
CauseOf(frame) == IF frame = "garbage" THEN "protocol" ELSE "none"

ReadControl ==
  /\ Running
  /\ reader = "reading"
  /\ control # "nothing"
  /\ CancelToken(CauseOf(control))
  /\ reader' = "done"
  /\ UNCHANGED <<action, pc, raised, client, disk, outcome>>

\* While it waits for a frame the reader polls the token, too.
PollControl ==
  /\ Running
  /\ reader = "reading"
  /\ Cancelled
  /\ ApplySignal
  /\ reader' = "done"
  /\ UNCHANGED <<action, pc, raised, client, disk, outcome>>
-----------------------------------------------------------------------------
\* The parent process and the operating system.

SendControl ==
  /\ Running
  /\ control = "nothing"
  /\ control' \in {"cancel", "garbage", "eof"}
  /\ UNCHANGED <<action, pc, raised, stdoutOpen, signalled, reader, token, disk, outcome>>

CloseEvents ==
  /\ Running
  /\ stdoutOpen
  /\ stdoutOpen' = FALSE
  /\ UNCHANGED <<action, pc, raised, control, signalled, reader, token, disk, outcome>>

\* SIGINT or SIGTERM, once main has installed its handlers.
Signal ==
  /\ Running
  /\ pc # "boot"
  /\ signalPending' = TRUE
  /\ signalled' = TRUE
  /\ UNCHANGED <<action, pc, raised, control, stdoutOpen, reader, state, cause, disk, outcome>>

\* SIGKILL, a crash, or power loss: the disk stays as it is.
Kill ==
  /\ Running
  /\ pc' = "exited"
  /\ exit' = "killed"
  /\ UNCHANGED <<action, raised, client, reader, token, disk, terminal>>

Exited == ~Running /\ UNCHANGED vars

Next ==
  \/ MainStep
  \/ ReadControl
  \/ PollControl
  \/ SendControl
  \/ CloseEvents
  \/ Signal
  \/ Kill
  \/ Exited

Spec == Init /\ [][Next]_vars

\* The main thread never waits for ever: every read of a pipe has a deadline.
Fairness == WF_vars(MainStep)

FairSpec == Spec /\ Fairness
-----------------------------------------------------------------------------
\* Once the token is cancelled the run never succeeds: neither the completed
\* event nor exit status 0 follows, whichever thread cancelled it and when.
CancelledNeverSucceeds ==
  state = "cancelled" => terminal # "completed" /\ exit # "success"

\* A completed recovery or acquisition has both markers complete and no staging
\* directory left (docs/output-reference.md, "A successful full recovery ...").
CompletedIsWhole ==
  terminal = "completed" /\ action # "preflight" =>
    run = "complete" /\ analysis = "report" /\ staging = "none" /\ ~tables

\* Whenever the process stops, also by a crash between two steps: a final report
\* is only ever visible over a complete extraction and without its own staging
\* directory, and a marker that says complete is not visible before the rename.
VisibleReportIsWhole ==
  /\ analysis # "none" => run = "complete" /\ ~tables
  /\ analysis = "report" => staging = "none"

\* A cancelled run stops, by its exit or by a kill.
CancelStops == (state = "cancelled") ~> (exit \in {"failure", "killed"})

\* What the terminal event shows decided and, in the actions that seal before they
\* rename, what the output shows.
observedDecision ==
  CASE terminal = "cancelled" -> "cancelled"
    [] terminal = "completed" \/ (analysis = "report" /\ action # "acquire") -> "committed"
    [] OTHER -> "open"

CD == INSTANCE CommitDecision WITH decision <- observedDecision
ObservesOneDecision == CD!Spec

\* The promise of seal_for_commit, "let cancellation or the final directory commit
\* win, never both", for every action of the helper.
CancelOrCommit == ~(terminal = "cancelled" /\ analysis = "report")
=============================================================================
