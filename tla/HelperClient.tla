---------------------------- MODULE HelperClient ----------------------------
(***************************************************************************)
(* The macOS app's side of the helper process: class HelperProcessClient   *)
(* (macos/Sources/TVTimeRecoveryCore/HelperProcessClient.swift).  Its      *)
(* methods run one at a time on the main actor; a detached task per run    *)
(* reads the event pipe; the consumer of the run's stream may stop at any  *)
(* time; the helper may write anything, hang, crash or exit at any time.   *)
(*                                                                         *)
(* A run is named by a number, for which the code takes the process's      *)
(* identifier: no identifier is reused while a task of its earlier run is  *)
(* still queued.  Timers may fire at any time.  Writes to the helper       *)
(* succeed or fail, but do not block.                                      *)
(***************************************************************************)
EXTENDS Naturals, Sequences

CONSTANTS MaxRuns,    \* bound: helper processes the client starts
          MaxFrames,  \* bounds: frames the helper of run r writes
          Written,    \* the frames it may write
          Capacity    \* the stream's buffer: .bufferingNewest(Capacity)

ASSUME ClientAssumption == /\ MaxRuns \in Nat \ {0}
                           /\ MaxFrames \in [1..MaxRuns -> Nat]
                           /\ Written \subseteq {"completed", "failed", "cancelled", "progress", "bad"}
                           /\ Capacity \in Nat \ {0}

Runs == 1..MaxRuns
Kinds == {"completed", "failed", "cancelled"}    \* terminal events
Frames == Kinds \cup {"progress", "bad"}         \* "bad": whatever the decoder refuses

VARIABLES
  active,      \* activeRun, or NoRun
  process,     \* process[r]: "none", "running", "zombie" or "reaped"
  status,      \* status[r]: its exit status: "none", "ok", "error" or "signal"
  pipe,        \* pipe[r]: frames in the event pipe
  written,     \* written[r]: all frames the helper wrote
  hasClosed,   \* the runs whose helper closed its end of the event pipe
  reader,      \* reader[r]: the detached reader: "off", "reading", "done"
  outcome,     \* outcome[r]: the terminal event it has seen, and its error
  tasks,       \* the tasks queued for the main actor
  escalation,  \* escalation[r]: what its shutdown task sends next, "off", or "sent"
  orphans,     \* the runs whose launch failed
  stream,      \* stream[r]: events buffered for the consumer
  consumer,    \* consumer[r]: "none", "iterating" or "cancelled"
  result,      \* result[r]: how the stream ended: "none", a kind, or "error"
  asked,       \* history: the runs somebody asked to cancel
  warned,      \* history: the runs whose helper was sent a cancel frame
  signals      \* history: the runs whose process was sent a signal

helper == <<process, status, pipe, written, hasClosed>>
reading == <<reader, outcome>>
consuming == <<stream, consumer, result>>
history == <<asked, warned, signals>>
vars == <<active, helper, reading, tasks, escalation, orphans, consuming, history>>

NoRun == [id |-> 0]
NewRun(r) == [id |-> r, readerFinished |-> FALSE, processFinished |-> FALSE,
              readerError |-> FALSE, terminalKind |-> "none", waitStatus |-> "none",
              cancellationRequested |-> FALSE]
NoOutcome == [kind |-> "none", error |-> FALSE]

Tasks == {"onTermination", "terminalEventObserved", "eventReaderFinished"} \X Runs

TypeOK ==
  /\ active \in {NoRun} \cup
       [id : Runs, readerFinished : BOOLEAN, processFinished : BOOLEAN, readerError : BOOLEAN,
        terminalKind : Kinds \cup {"none"}, waitStatus : {"none", "ok", "error", "signal"},
        cancellationRequested : BOOLEAN]
  /\ process \in [Runs -> {"none", "running", "zombie", "reaped"}]
  /\ status \in [Runs -> {"none", "ok", "error", "signal"}]
  /\ pipe \in [Runs -> Seq(Frames)] /\ written \in [Runs -> Seq(Frames)]
  /\ hasClosed \subseteq Runs
  /\ reader \in [Runs -> {"off", "reading", "done"}]
  /\ outcome \in [Runs -> [kind : Kinds \cup {"none"}, error : BOOLEAN]]
  /\ tasks \subseteq Tasks
  /\ escalation \in [Runs -> {"off", "SIGINT", "SIGTERM", "SIGKILL", "sent"}]
  /\ orphans \subseteq Runs
  /\ stream \in [Runs -> Seq(Frames)]
  /\ \A r \in Runs : Len(stream[r]) <= Capacity
  /\ consumer \in [Runs -> {"none", "iterating", "cancelled"}]
  /\ result \in [Runs -> Kinds \cup {"none", "error"}]
  /\ asked \subseteq Runs /\ warned \subseteq Runs /\ signals \subseteq Runs

Init ==
  /\ active = NoRun
  /\ process = [r \in Runs |-> "none"] /\ status = [r \in Runs |-> "none"]
  /\ pipe = [r \in Runs |-> <<>>] /\ written = [r \in Runs |-> <<>>] /\ hasClosed = {}
  /\ reader = [r \in Runs |-> "off"] /\ outcome = [r \in Runs |-> NoOutcome]
  /\ tasks = {}
  /\ escalation = [r \in Runs |-> "off"]
  /\ orphans = {}
  /\ stream = [r \in Runs |-> <<>>]
  /\ consumer = [r \in Runs |-> "none"] /\ result = [r \in Runs |-> "none"]
  /\ asked = {} /\ warned = {} /\ signals = {}
-----------------------------------------------------------------------------
\* A process ends, and its end of the event pipe with it.
Dies(r, how) ==
  /\ process' = [process EXCEPT ![r] = "zombie"]
  /\ status' = [status EXCEPT ![r] = how]
  /\ hasClosed' = hasClosed \cup {r}

\* The active run.

Finished(run) == run.readerFinished /\ run.processFinished

\* waitpid with WNOHANG: has the process exited?
Reconciled(run) ==
  IF ~run.processFinished /\ process[run.id] = "zombie"
  THEN [run EXCEPT !.processFinished = TRUE, !.waitStatus = status[run.id]]
  ELSE run

\* Mutant: the exit status is not compared with the terminal event.
EndOfEvents(run) == IF run.readerError \/ run.terminalKind = "none" THEN "error" ELSE run.terminalKind

\* What the stream ends with: a terminal event whose exit status agrees with it.
EndOf(run) ==
  IF run.readerError \/ run.terminalKind = "none"
       \/ run.waitStatus # (IF run.terminalKind = "completed" THEN "ok" ELSE "error")
  THEN "error"
  ELSE run.terminalKind

\* Mutant: a full buffer takes no more events.
BufferedOldest(events, e) == IF Len(events) < Capacity THEN Append(events, e) ELSE events

\* A full buffer loses its oldest event.
Buffered(events, e) == Append(IF Len(events) < Capacity THEN events ELSE Tail(events), e)

\* continuation.yield: a consumer that stopped gets nothing.
Yielded(r, e) ==
  IF consumer[r] = "iterating" THEN [stream EXCEPT ![r] = Buffered(@, e)] ELSE stream

\* The active run becomes run: processFinished when its process was reaped, then
\* finishRunIfReady.
Continue(run) ==
  /\ process' = [process EXCEPT ![run.id] = IF run.processFinished THEN "reaped" ELSE @]
  /\ IF Finished(run)
     THEN /\ active' = NoRun
          /\ result' = [result EXCEPT ![run.id] = EndOf(run)]
          /\ stream' = IF EndOf(run) = "error" THEN stream ELSE Yielded(run.id, EndOf(run))
     ELSE /\ active' = run
          /\ UNCHANGED <<result, stream>>

\* startShutdownEscalation, and its end with the process.
Escalate(run, start) ==
  escalation' = [escalation EXCEPT ![run.id] =
    IF run.processFinished THEN "off" ELSE IF start /\ @ = "off" THEN "SIGINT" ELSE @]

\* cancelIfActive for a run whose process was just seen running: the cancel frame,
\* which may fail, and the escalation.  Once is enough.
Cancel(run) ==
  /\ Continue([run EXCEPT !.cancellationRequested = TRUE])
  /\ Escalate(run, ~run.cancellationRequested)
  /\ warned' \in {warned} \cup (IF run.cancellationRequested THEN {} ELSE {warned \cup {run.id}})

\* The run goes on, or ends here.
KeepOn(run, escalate) ==
  /\ Continue(run)
  /\ Escalate(run, escalate)
  /\ UNCHANGED warned

CancelIfActive ==
  LET run == Reconciled(active)
  IN IF run.processFinished THEN KeepOn(run, FALSE) ELSE Cancel(run)

unmoved == <<status, pipe, written, hasClosed, reading, orphans, consumer, signals>>
-----------------------------------------------------------------------------
\* The methods the app calls, and the tasks of the main actor.

\* events(for:secret:): a client that is busy refuses; else the helper is spawned
\* and sent its request and secret.
Start(r) ==
  /\ active = NoRun
  /\ process[r] = "none"
  /\ \A s \in Runs : s < r => process[s] # "none"
  /\ active' = NewRun(r)
  /\ process' = [process EXCEPT ![r] = "running"]
  /\ reader' = [reader EXCEPT ![r] = "reading"]
  /\ consumer' = [consumer EXCEPT ![r] = "iterating"]
  /\ UNCHANGED <<status, pipe, written, hasClosed, outcome, tasks, escalation, orphans,
                 stream, result, history>>

\* The request or the secret cannot be written: the run is given up at once, and
\* its process is left to a detached task.
LaunchFails(r) ==
  /\ active = NoRun
  /\ process[r] = "none"
  /\ \A s \in Runs : s < r => process[s] # "none"
  /\ process' = [process EXCEPT ![r] = "running"]
  /\ orphans' = orphans \cup {r}
  /\ UNCHANGED <<active, status, pipe, written, hasClosed, reading, tasks, escalation,
                 consuming, history>>

\* cancel()
AskCancel ==
  /\ active # NoRun
  /\ CancelIfActive
  /\ asked' = asked \cup {active.id}
  /\ UNCHANGED <<tasks, unmoved>>

Take(kind, r) ==
  /\ <<kind, r>> \in tasks
  /\ tasks' = tasks \ {<<kind, r>>}

\* Mutant: whatever run is active is cancelled.
OnTerminationOfAny(r) ==
  /\ Take("onTermination", r)
  /\ active # NoRun
  /\ CancelIfActive
  /\ UNCHANGED <<unmoved, asked>>

\* The consumer of the stream stopped.
OnTermination(r) ==
  /\ Take("onTermination", r)
  /\ active.id = r
  /\ CancelIfActive
  /\ UNCHANGED <<unmoved, asked>>

\* The reader saw the terminal event: the helper has two seconds to exit.
TerminalEventObserved(r) ==
  /\ Take("terminalEventObserved", r)
  /\ active.id = r
  /\ LET run == Reconciled([active EXCEPT !.terminalKind = outcome[r].kind])
     IN IF active.terminalKind = "none" THEN KeepOn(run, TRUE) ELSE KeepOn(active, FALSE)
  /\ UNCHANGED <<unmoved, asked>>

\* The reader is done: a run without an error waits for the exit, and hurries it;
\* an error cancels the run.
EventReaderFinished(r) ==
  /\ Take("eventReaderFinished", r)
  /\ active.id = r
  /\ LET run == Reconciled([active EXCEPT !.readerFinished = TRUE,
                                         !.readerError = outcome[r].error,
                                         !.terminalKind = outcome[r].kind])
     IN IF run.readerError /\ ~run.processFinished THEN Cancel(run) ELSE KeepOn(run, TRUE)
  /\ UNCHANGED <<unmoved, asked>>

\* Tasks of a run that is not the active one have no effect.
DropStaleTask ==
  /\ \E t \in tasks : active.id # t[2] /\ tasks' = tasks \ {t}
  /\ UNCHANGED <<active, helper, reading, escalation, orphans, consuming, history>>

\* The process monitor's poll, when it finds something.
Monitor ==
  /\ active # NoRun
  /\ Reconciled(active) # active
  /\ KeepOn(Reconciled(active), FALSE)
  /\ UNCHANGED <<tasks, unmoved, asked>>

\* Mutant: the escalation ends with SIGTERM.
NextSignalPolite(s) == IF s = "SIGINT" THEN "SIGTERM" ELSE "sent"

NextSignal(s) ==
  CASE s = "SIGINT" -> "SIGTERM" [] s = "SIGTERM" -> "SIGKILL" [] s = "SIGKILL" -> "sent"

\* The escalation's next signal.  signalIfActive looks for the exit first, which is
\* Monitor; a helper may survive all signals but the last.
Signal(r) ==
  /\ escalation[r] \in {"SIGINT", "SIGTERM", "SIGKILL"}
  /\ active.id = r
  /\ process[r] = "running"
  /\ escalation' = [escalation EXCEPT ![r] = NextSignal(@)]
  /\ signals' = signals \cup {r}
  /\ IF escalation[r] = "SIGKILL" THEN Dies(r, "signal") ELSE UNCHANGED <<process, status, hasClosed>>
  /\ UNCHANGED <<active, pipe, written, reading, tasks, orphans, consuming, asked, warned>>

\* terminateAndReapAfterLaunchFailure: SIGTERM, a second, SIGKILL, and waitpid.
KillOrphan(r) ==
  /\ r \in orphans
  /\ process[r] = "running"
  /\ Dies(r, "signal")
  /\ UNCHANGED <<active, pipe, written, reading, tasks, escalation, orphans, consuming, history>>

ReapOrphan(r) ==
  /\ r \in orphans
  /\ process[r] = "zombie"
  /\ process' = [process EXCEPT ![r] = "reaped"]
  /\ UNCHANGED <<active, status, pipe, written, hasClosed, reading, tasks, escalation, orphans,
                 consuming, history>>
-----------------------------------------------------------------------------
\* The detached reader: readEvents.

\* A frame that is malformed, out of sequence or behind the terminal event ends it.
ReadFrame(r) ==
  /\ reader[r] = "reading"
  /\ pipe[r] # <<>>
  /\ pipe' = [pipe EXCEPT ![r] = Tail(@)]
  /\ LET e == Head(pipe[r])
     IN \/ /\ e = "bad" \/ outcome[r].kind # "none"
           /\ outcome' = [outcome EXCEPT ![r].error = TRUE]
           /\ reader' = [reader EXCEPT ![r] = "done"]
           /\ tasks' = tasks \cup {<<"eventReaderFinished", r>>}
           /\ UNCHANGED stream
        \/ /\ e = "progress" /\ outcome[r].kind = "none"
           /\ stream' = Yielded(r, e)
           /\ UNCHANGED <<outcome, reader, tasks>>
        \/ /\ e \in Kinds /\ outcome[r].kind = "none"
           /\ outcome' = [outcome EXCEPT ![r].kind = e]
           /\ tasks' = tasks \cup {<<"terminalEventObserved", r>>}
           /\ UNCHANGED <<reader, stream>>
  /\ UNCHANGED <<active, process, status, written, hasClosed, escalation, orphans,
                 consumer, result, history>>

\* The end of the pipe is an error before a terminal event.
ReadEnd(r) ==
  /\ reader[r] = "reading"
  /\ pipe[r] = <<>> /\ r \in hasClosed
  /\ outcome' = [outcome EXCEPT ![r].error = outcome[r].kind = "none"]
  /\ reader' = [reader EXCEPT ![r] = "done"]
  /\ tasks' = tasks \cup {<<"eventReaderFinished", r>>}
  /\ UNCHANGED <<active, helper, escalation, orphans, consuming, history>>
-----------------------------------------------------------------------------
\* The stream's consumer.

TakeEvent(r) ==
  /\ consumer[r] = "iterating"
  /\ stream[r] # <<>>
  /\ stream' = [stream EXCEPT ![r] = Tail(@)]
  /\ UNCHANGED <<active, helper, reading, tasks, escalation, orphans, consumer, result, history>>

\* Its task is cancelled; a stream that already ended is not terminated again.
StopConsuming(r) ==
  /\ consumer[r] = "iterating"
  /\ consumer' = [consumer EXCEPT ![r] = "cancelled"]
  /\ stream' = [stream EXCEPT ![r] = <<>>]
  /\ tasks' = IF result[r] = "none" THEN tasks \cup {<<"onTermination", r>>} ELSE tasks
  /\ asked' = asked \cup {r}
  /\ UNCHANGED <<active, helper, reading, escalation, orphans, result, warned, signals>>
-----------------------------------------------------------------------------
\* The helper process.

\* Once the reader is done the pipe is broken.
Write(r, e) ==
  /\ process[r] = "running"
  /\ r \notin hasClosed \cup orphans
  /\ reader[r] = "reading"
  /\ Len(written[r]) < MaxFrames[r]
  /\ written' = [written EXCEPT ![r] = Append(@, e)]
  /\ pipe' = [pipe EXCEPT ![r] = Append(@, e)]
  /\ UNCHANGED <<active, process, status, hasClosed, reading, tasks, escalation, orphans,
                 consuming, history>>

CloseEvents(r) ==
  /\ process[r] = "running"
  /\ hasClosed' = hasClosed \cup {r}
  /\ UNCHANGED <<active, process, status, pipe, written, reading, tasks, escalation, orphans,
                 consuming, history>>

Exit(r) ==
  /\ process[r] = "running"
  /\ \E code \in {"ok", "error", "signal"} : Dies(r, code)
  /\ UNCHANGED <<active, pipe, written, reading, tasks, escalation, orphans, consuming, history>>

Rest ==
  /\ active = NoRun /\ tasks = {}
  /\ \A r \in Runs : process[r] = "reaped"
  /\ UNCHANGED vars

Actor(r) == OnTermination(r) \/ TerminalEventObserved(r) \/ EventReaderFinished(r)

Next ==
  \/ AskCancel \/ Monitor \/ DropStaleTask
  \/ \E r \in Runs :
       \/ Start(r) \/ LaunchFails(r)
       \/ Actor(r) \/ Signal(r) \/ KillOrphan(r) \/ ReapOrphan(r)
       \/ ReadFrame(r) \/ ReadEnd(r) \/ TakeEvent(r) \/ StopConsuming(r)
       \/ CloseEvents(r) \/ Exit(r)
       \/ \E e \in Written : Write(r, e)
  \/ Rest

Spec == Init /\ [][Next]_vars

\* The main actor runs its tasks, timers fire, and the reader reads.  Nothing is
\* assumed of the helper or of the consumer.
Fairness ==
  /\ WF_vars(Monitor)
  /\ \A r \in Runs :
       /\ WF_vars(OnTermination(r)) /\ WF_vars(TerminalEventObserved(r))
       /\ WF_vars(EventReaderFinished(r))
       /\ WF_vars(Signal(r)) /\ WF_vars(KillOrphan(r)) /\ WF_vars(ReapOrphan(r))
       /\ WF_vars(ReadFrame(r) \/ ReadEnd(r))

FairSpec == Spec /\ Fairness
-----------------------------------------------------------------------------
\* What the stream ends with is what the helper said and did: its one terminal
\* event, behind which it wrote nothing, and an exit status that agrees.
ResultIsTheHelpers ==
  \A r \in Runs : result[r] \in Kinds =>
    /\ written[r] # <<>> /\ written[r][Len(written[r])] = result[r]
    /\ \A i \in 1..(Len(written[r]) - 1) : written[r][i] = "progress"
    /\ status[r] = IF result[r] = "completed" THEN "ok" ELSE "error"

\* A helper is only told to stop, or signalled, on behalf of its own run: because
\* someone cancelled that run, or its reader failed or saw the terminal event.  A
\* task of an earlier run never stops a later one.
StoppedForCause ==
  \A r \in warned \cup signals : r \in asked \/ outcome[r] # NoOutcome

\* A run that was cancelled, or whose helper said its last word, stopped talking or
\* died, ends, although the helper may ignore everything but SIGKILL; a helper whose
\* launch failed is reaped.
RunsEnd ==
  \A r \in Runs :
    (r \in asked \cup hasClosed \/ \E i \in DOMAIN written[r] : written[r][i] \in Kinds)
      ~> (result[r] # "none" \/ (r \in orphans /\ process[r] = "reaped"))

\* Refinement: to its user the client is HelperStream, whose run is the active one.
Stream == INSTANCE HelperStream WITH current <- active.id
ImplementsStream == Stream!Spec
=============================================================================
