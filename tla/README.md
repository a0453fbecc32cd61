# A verification of tvtime-backup-extractor in TLA+

`tvtime-backup-extractor` recovers a user's TV Time history from an encrypted
iOS backup (and, since 0.3, from Android devices, folders and legacy caches).
A Python core does the work; a macOS app (Swift) and a Windows app (C#) run
that core as a helper process and talk to it over pipes; a command line runs
it in its own process.

This directory models the parts of the program whose correctness depends on
the order of things: cancellation against commit, a backup that changes while
it is read, an output that must never look complete when it is not, a helper
process that may hang or die, a phone that is exchanged, directories other
programs move; and the derivation of the tables, which depends on the order
responses are read in. TLC checks the models on small instances; the
theorems in the `*Proofs` modules are checked by TLAPS for every value of the
constants.

## 1. Inventory

| Component | Source | State it keeps | Operations | What is hard |
|---|---|---|---|---|
| Cancellation token | `tvtime_extractor/models.py` | state, cause, lock-free signal flag, lock | cancel, mark_signal_pending, seal_for_commit, try_finish, raise_if_cancelled | three threads of control, one of them a signal handler on top of another |
| Native helper process | `helper_main.py`, `protocol.py` | token, control reader thread, event sequence, exit status | ready, read request and secret, run an action, terminal event | cancel frames, closed pipes and signals at any moment; the event, the exit status and the disk must agree |
| Recovery service, source binding | `service.py`, `extract.py` | prepared preflight, receipt, held descriptor, per-file states | preflight, match receipt, hold root, extract, verify, seal | another process edits files and renames directories; two helper processes |
| Recovery service, stages | `service.py`, `analyze.py`, `report.py`, `acquisition.py` | markers and staging directories on disk | extract, analyze, report, seal, promote | crash between two steps; failure of one file of many |
| Output tree and anchoring | `safety.py`, `integrity.py` | the output directory, its identity, manifests | create root, no-replace promotion, atomic JSON, reconcile | another process creates or renames entries |
| Analysis and reports | `analyze.py`, `legacy_cache.py`, `report.py`, `visual_report.py`, `suite_tv.py`, `refract.py` | none between runs | derive and merge tables, render | the same record in many responses, with ties and without identifiers; two accounts; the catalogue against the account |
| Source acquisition | `acquisition.py` | preflight and its identities, raw tree, inventory | inspect, open, copy, stream, read, verify, seal | files are edited and directories renamed between the readings; containers that end early |
| Device capture | `android_device.py` | probed phone, captured file, the bridge | probe, relist, create, spawn, wait, inspect | phones come and go; the bridge hangs, or reports success for a part |
| macOS helper client | `macos/Sources/TVTimeRecoveryCore/HelperProcessClient.swift` | active run, pid, timers, stream | events, cancel, monitor, escalate | exit, end of events, timers and stale tasks in any order |
| macOS recovery session | `RecoverySession.swift` | stage, receipt, operation task | select, start, cancel, confirm, validate | late events after a cancellation, tasks of an earlier operation |
| macOS output validation | `RecoveryOutputValidator.swift`, ... | none | validate | sequential checks of contents |
| Output validation script | `script/validate_recovery_output.py` | what it has read, staging directories in the output | eight gates | files edited between gates; another validator, or a killed one |
| Windows output directories | `safety.py`, `windows_native.py` | a handle for each directory of the output | create, retain, write, promote, delete | share modes; closed handles during a promotion; other programs |
| macOS and Windows user interface | `macos/Sources/TVTimeRecoveryApp`, `windows/TVTimeRecovery.Windows` | view state | - | the state shown is the session's |
| Windows coordinator | `RecoveryCoordinator.cs`, `NativeHelperProcess.cs` | process, streams, cancellation token | recover, acquire, cancel, dispose | cancel against other control writes, exit against reading |
| Command line | `cli.py` | - | commands | one confirmation between preflight and run |
| Packaging, release scripts | `script/`, `scripts/` | - | - | build tools |

How they interact: an app starts a helper process with a request frame (and,
for a recovery, the backup password on a pipe of its own), reads JSON events
from its standard output until a terminal one, and may write a cancel frame,
close the control pipe, or signal it. The helper's main thread runs the
service; a daemon thread reads the control pipe; both share the token. A native
recovery takes two helper processes: the first runs the preflight, its receipt
goes to the user and back, the second runs a preflight of its own and compares.

What makes each correct, in short: the token gives one answer to everybody; the
helper's event, exit status and output agree with it; an output says complete
only if it is; the plaintext is that of the confirmed backup, at one moment; what
is sealed of a phone's backup is what the phone gave; a table holds the best of the
records that repeat one another; what the validator accepts was whole at one moment;
no directory of an output is replaced under the program, and none of others deleted;
an error never denies plaintext that was written; the client reports only what the helper
did, delivers it, and never waits for ever. `PROJECT.json` lists every hazard
with its line and the properties that cover it.

## 2. Modules

```
CommitDecision            the promise: cancelled or committed, once
  ^ refined by
CancellationToken         models.py, step by step
  ^ abstracted to atomic calls in
RecoveryHelper            helper_main.py and stages   + RecoveryHelperProofs (of both)
SourceBinding             service.py, extract.py      + SourceBindingProofs
OutputTree                safety.py, analyze.py, report.py  + OutputTreeProofs
RetainedDirectories       safety.py, windows_native.py: the same output on Windows
                                                      + RetainedDirectoriesProofs
DeviceCapture             android_device.py
  ^ composed in CapturedRecovery with
Acquisition               acquisition.py              + AcquisitionProofs
DerivedTables             analyze.py, legacy_cache.py: operators, no state
  ^ used by
OutputValidator           validate_recovery_output.py + OutputValidatorProofs
HelperStream              the promise of protocol RecoveryHelperClient
  ^ implemented by          ^ used by
HelperClient              RecoverySession           RecoverySession.swift and its callers
(HelperProcessClient.swift)
+ HelperClientProofs      + RecoverySessionProofs
```

Each `MC*` module extends one of these for TLC; the `.cfg` files give the
constants. Constants that a proof uses have a named assumption beside their
declaration. `PROJECT.json` maps each definition to the lines it models.
Definitions commented as a *mutant* are plausible bugs of the definition below
them: with the mutant in its place, the named property fails.

### CommitDecision

One variable, `decision`, that leaves `"open"` once. It is what the docstring
of `seal_for_commit` promises: "Atomically let cancellation or the final
directory commit win, never both."

### CancellationToken

`_state`, `_cause`, `_signal_pending` (`tokenState`, `tokenCause`, `tokenSignal`) and
`_lock` of the class, and for each thread which method it is in (`op`) and its next
step (`tokenPc`). A method is:
acquire the lock, test, clear and apply the pending signal (three steps),
decide, release. The signal handler (`EnterHandler`, `MarkSignalPending`) runs on the
main thread between any two steps, also inside the lock, and the main thread
does not go on before it returned. `wins` and `owed` are history: what callers
were told, and whether a signal was waiting when a call began.

### RecoveryHelper

One helper process. `pc` is the main thread's program point, one per stage at
which the order matters; a stage ends by success (`Proceed`), by a cancellation
check that raises (`StopAt`, with the exception the token holds) or by any
failure (`Fail`). `run`, `tables`, `analysis`, `staging` are what is on disk:
`metadata/run_state.json`, the staging directory of the tables, `analysis/`,
and the report's staging directory with its `recovery_state.json`. The control
reader (`ReadControl`, `PollControl`), the signal handler, the parent
(`SendControl`, `CloseEvents`) and `Kill` interleave with it.
A call of the token is one step; CancellationToken justifies that.
The `recover` action claims the token (`sealed`) before its final rename, the
`acquire` action does not: section 6.

### SourceBinding

From the first look at the backup to the sealed extraction. Each file is a
directory (the chosen one or another that is put in its place) and a version
that grows with every edit. The three captures by path (`capture`, `recapture`,
`current`) read through the name; those by descriptor (`critical`,
`verify_control`) read below the held directory and require the name to lead
there still. The captures read one file per step, so that an edit or a rename
can fall between any two reads. `Edit` and `Swap` are the other processes.
`atCreate` and `atEnd` are history: the held directory at the moment the
output root was created and at the moment the last file had been copied.

### HelperClient

`activeRun` of the Swift class as a record; the processes with their exit
status as the kernel keeps it; the event pipe; the detached reader; the tasks
queued for the main actor, taken in any order; the shutdown escalation; the
stream with its bounded buffer and its consumer. Every method of the main actor
is one step, as the actor guarantees. `Continue` is `processFinished` followed
by `finishRunIfReady`, which every path ends with. The helper is arbitrary: it
writes any frames, closes its pipe, hangs, crashes, exits with any status.

### OutputTree

The output as the commands find it: `tree[t]` has the completion marker, the
version of the raw tree, and the directory each of three names (`analysis` and
the two staging names) stands for; `contents[d]` is what a directory holds,
`visible` what the selected path names. A process runs one command at a time;
`recover` creates its root and goes through both stages, `analyze` and `report`
open the tree the path names. Every step is one check, one rename, or one opening
or closing of files, and looks the names up again, because that is what the code
does relative to the held root: `Secure` is `secure_directory`, which makes a
directory where the name has none, `Promote` the rename that replaces nothing.
A command may stop at any step (`Stop`: a kill, an error, a cancellation). All
tables are one file here, and all report artifacts another; a file that is open
is partial. Windows pins its directories: RetainedDirectories.

Two commands may overlap, since nothing in the code excludes it. `overlapped`
remembers it, and separates what holds regardless (`SealedReportIsWhole` for the
summary and the artifacts, `TablesAreOfTheSource` for a sealed report) from what
holds for commands that run one after the other. `FinishedReportStays` is of the
latter: when commands overlap a finished report may go (`output_race`).

### RetainedDirectories

The Windows side of the output. `place[d]` is where a directory is: the directory it is
in and its name there. A path leads from the folder of outputs (`Desk`) along its names
(`Walk`). `bound[path]` is the directory the program retains as a path
(`_WindowsBoundOutputState`), and `Handles` what is open with which share mode: an open
asks for deletion or not, and shares deletion or not, and Windows refuses what is not
`Compatible`. `Renamable` is Windows' rule that nothing is open below a directory that
is renamed, which is why `Promote` closes the descendants and `Resume` opens them again
and compares. A call of the program (`secure`, `write`, `promote`, `delete`, `remove`)
takes as many steps as it looks at the file system; a program (`Programs`) is the calls
of a stage. `stack` is the recursion of `delete_private_tree`. Other programs make, move
and open directories where the share modes let them.

`written` is history, of what a recovery means to keep: the deletion of a temporary tree
takes the tree's entries out of it. What such a tree held need not be deleted, indeed:
its handles are closed before it is listed (`safety.py:2125`), and a directory two levels
down can be moved out of it in between. What is deleted is in the tree then
(`OnlyTheTreeIsDeleted`).

### DeviceCapture, Acquisition, CapturedRecovery

`DeviceCapture` is the capture: `cap.at` is the step of `probe_android_device`
and `capture_legacy_android_backup`, `probed` and `asked` the phones; the bridge
writes what it likes through the descriptor, exits when it likes, or hangs; the
file at the destination's path may be replaced.

`Acquisition` is the recovery from a snapshot (a directory with files in one of
several places), an archive or an export: a program of reads for each kind
(`Program`), with the creation of the root, the layout and the seal between
them. A read holds one descriptor, and is two steps, so that an edit falls within
it: what was read from a file that changed is anything, and the read fails at its
end (`Ends`), as `regular_binary_reader` does. `Bound` is where the identity of
the preflight is demanded and where it is not. An archive is its members in
order, whether it is compressed, and whether it was cut, at a member's boundary
or inside of one.

`CapturedRecovery` composes them: the file a capture leaves, successful or not,
is the archive the recovery starts from.

### DerivedTables

Operators for the whole of the analysis: merging (`KeepBest` with the identity
and the score of each table: `Kept` goes through the records as the code's loops do,
and keeps their positions in the dictionary's order), the selection of the account
and the conversion of the older URL cache (`Normalized`), the order of records
(`Records`), the refusals (`Analyzable`) and the tables (`Tables`). Of a record it
has the fields that decide which one is kept.

### OutputValidator

The script's gates as a program of steps (`Gates`), each of which reads one file
of the output; `val[v].read` is what it keeps of them. `CompareStaged` is a step
in whose course a staging directory is in the output (`Stage`). Files of the output
hold what a recovery writes (`SoundOutput`), or what others put there. What is
derived from a cache is computed with DerivedTables, and a digest leaves the times
of the files out, as `_canonical_tree_digest` does: two caches that differ in times
only have one digest and may have different tables. The two programs do not escape and
read texts by the same rules, so how the paths and texts of a cache begin is modelled
(`Paths`, `Texts`): `Cell` is what the recovery writes, `SourceIntegrity` and
`ReadCsvRows` what the validator takes back. The derivation itself is one operator for
both: that the validator's copy of it agrees with the recovery's is assumed. When
`analyzed` is a cache, no output is validated, and the state is there for the tables'
properties.

### HelperStream

What the session may rely on: one helper at a time; for each run a stream that
ends once, with the terminal event behind all others or with an error; a run
that was cancelled ends. HelperClient implements it (`ImplementsStream`): the
many processes, tasks and timers of the client map to `active.id`, the streams
and the set of cancelled runs.

### RecoverySession

The class with the views, the window and the application that call it, composed
with the actions of HelperStream: an operation of the session is a run of the
client. `session` holds the class's fields by their names, and the two callers
that wait for an answer (`closeRequestPending`, `closeWhenSafe`, `quit`). Its
private methods are functions from a session to a session; the actions are the
methods that are called from outside, and the pieces of the operations' tasks
between two suspension points: `Handle` takes one event, `ValidationReturns`
continues after the detached validation, `StreamEnds` is the end of the loop.
`view` is the phase that is on the screen: SwiftUI redraws later, so a click's
guard is `Shown`, while the method's own guard is on the phase. `creators` are
the operations whose helper has created its folder; `confirmed` is history.

The last part of an operation that is not in HelperStream is what the helper
does to the disk (`CreateOutput`): it may create its folder until it ends.

## 3. Runs

| Run | Instance | Checks | Shows |
|---|---|---|---|
| `token` | main thread, one reader, two signals | `EarlierSignalWins`, `ImplementsDecision`, `CallsReturn` | the token is a one-shot decision; a signal that came before a commit call defeats it; no handler or call hangs |
| `helper` | all three actions | `CancelledNeverSucceeds`, `VisibleReportIsWhole`, `CancelStops`, `ObservesOneDecision` | token, event and disk tell one story, after any crash; what the parent sees refines CommitDecision |
| `helper_acquire` | acquire | `CancelOrCommit` is violated | section 6 |
| `source` | two control files, two payload files, two edits, two renames, both clients | `CompleteIsOneMoment`, `PlaintextIsOfConfirmed`, `NothingIsDenied`, `UntouchedIsAccepted` | no timing of edits and renames mixes versions or backups |
| `output` | three commands, at most two at a time; an edit, a rename, two trees | `SealedReportIsWhole`, `AnalysisIsWhole`, `TablesAreOfTheSource`, `ReportIsThereAlone`, `FinishedReportStays` | leftovers of stopped commands are never taken for results or completed; a success names its report |
| `output_race` | the same, without edits and renames | `ReportIsThere` is violated | section 6 |
| `client` | two runs, two frames and none, buffer of one | `ResultIsTheHelpers`, `StoppedForCause`, `RunsEnd`, `ImplementsStream` | each stream ends, with what its helper said and did; no task of an earlier run touches a later one; the client keeps HelperStream's promise, so a slow consumer still gets the terminal event |
| `session` | two operations with lagging views and both callers; three over two backups; an acquisition after a preflight | `SuccessIsValidated`, `ReceiptIsOfSelection`, `OutputIsFresh`, `QuitLeavesNothing`, `RecoveryWins`, `GrantIsConfirmed`, `CancellingEnds` | no click, close or quit at any moment loses a helper, a consent or the meaning of a result; a recovery gets the receipt and folder that were checked |
| `session_prompt` | one acquisition, both callers | `CompletionWins` is violated | section 6 |
| `acquisition` | two phones, one required database and one sidecar in two places, ten archives, five exports; at most two disturbances of any kind | `OnlyCandidatesAreAsked`, `SealedIsWhatThePhoneGave`, `SealedIsOneMoment`, `NothingIsDropped`, `CaptureEnds` | the right phone is asked; what is sealed is of one moment, however the bridge and other processes behave, and whole but for databases whose directory was away while they were copied; a hanging bridge is killed |
| `validator` | two validators over outputs of four caches, two disturbances; and 3,511 caches | `AcceptedIsOneMoment`, `RefusedForCause`, `TablesKeepTheBest`, `SeenIsTheAccounts` | what is accepted was whole at one moment, what is refused has a cause, of which two are texts the validator reads otherwise than they are escaped; each table keeps the best record of each identity, and what was seen is what the account says |
| `retained` | the calls of extraction, analysis and report over eight directories, three acts of others | `RetainedInPlace`, `WrittenIsReachable`, `FailsForCause`, `OnlyTheTreeIsDeleted` | share modes keep the directories in place without standing in the program's own way; a promotion notices a swapped directory; only what is in a temporary tree is deleted |

**Bounds.** The token needs one reader because a helper starts one; two signals
are one for each position relative to a clear of the flag; the theorems drop
both bounds. `RecoveryHelper` has no counter: its runs are complete except that
the parent sends at most one frame after the request (the reader stops at the
first). In `source` an edit and a second one bring `Status.plist` from finished
to unfinished and back, and two renames put the directory back: that is what
the comparisons must see through; the theorems drop the bounds. In `output` three
commands are one that stops, one that meets its leftovers, and one that overlaps
or follows; five directories are more than they ever have at a time (TLC would
stop at a `CHOOSE` without a choice). In `client` two frames are an event and a
terminal one, in either order; a buffer of one is full with the first event; the
second run writes nothing and is there for the tasks the first one left behind.
In `session` three scopes (`MCScopes`) divide what no machine explores together.
With lagging views and both callers the first operation is a preflight or an
acquisition and the second a recovery or another preflight, so that there are
results, failures and folders of an earlier operation. With three operations over
two backups there are also the receipt of another backup and the retry of a failed
recovery, for a user who only has the cancel button. The third lets an acquisition
follow a preflight, and the destination be refused. In
`acquisition` two edits, two renames (a directory is put away and back), or one
of each, fall anywhere into the readings; a capture sees two plugs, or one and a
replaced file. One optional database stands for all of them: the code treats
each on its own. In `validator` two disturbances are an edit and the edit back,
a killed validator and a second one, or a touch and an edit; the four caches have a text
of each beginning and a path of both a path can have. The image cache has one content
in the run, so that it is deleted there but never swapped for another; the theorem is for
any. Two rows, or one row and two archives, give two records of one identity with every
order of their scores, from either source. In `retained` three acts let another program make a
directory, move one out of the way, and move its own there; the eight
directories are those of the longest program and the others'. The earlier output has
exactly as many directories as may be retained.

**Fairness.** `token`: every thread runs and the lock is handed on, which is
what Python's threads do. `helper`: weak fairness of the main thread only; each
of its waits has a deadline (`read_control_request`, `_read_secret`). `client`:
the main actor runs its queue, timers fire, the reader reads; nothing is
assumed of the helper or the consumer, and SIGKILL ends a process. `session`: the
main actor resumes tasks that have something to do, the validation ends, and the
helper of a cancelled run ends, which is what the client promises; nothing is
assumed of the user or of a helper that was not cancelled. That the
main actor keeps running supposes that a write to the helper does not block,
see section 5. `acquisition`: the program's thread goes on while a capture is at
work, and its deadline passes (`android_device.py:147`); nothing is assumed of
the bridge, the phones and the other processes.

Deadlock is checked in every run but `output` and `output_race`, which stop when
their commands are used up; elsewhere an end is a stuttering step with a guard of
its own (`Exited`, `Ended`, `Rest`, `Terminated`).

## 4. Proofs

`RecoveryHelperProofs` proves about the token and the helper. The token: for any set of
readers and any number of signals, `TokenTypeOK`, `NeverBoth` (no two callers are told
opposite outcomes, which the run checks as part of the refinement), `EarlierSignalWins`,
and the refinement of CommitDecision. The inductive invariant ties the lock's owner to
the threads inside, `wins` to the state, and a waiting signal to the point of the call
that owes it an answer.

The helper: for any set of actions, `TypeOK`,
`CancelledNeverSucceeds`, `CompletedIsWhole`, `VisibleReportIsWhole`, and the refinement
of CommitDecision by what the parent sees. The inductive
invariant gives the disk at each program point (`DiskInv`), where the outcome is
still open (`OutcomeInv`) and which state of the token the main thread relies on
(`TokenInv`).

`SourceBindingProofs`: for any control and payload files, any clients and any
number of edits and renames, `TypeOK`, `CompleteIsOneMoment`,
`PlaintextIsOfConfirmed`, `NothingIsDenied` and `UntouchedIsAccepted`. Versions only grow
(`VersionsGrow`); whatever was read is not newer than the disk (`PastInv`); so a
file that compares equal before and after a moment has at that moment the
version compared. `CreateInv` uses this around the creation of the output root,
`EndInv` around the end of the copying; the captures by path alone would not do,
because they may read through a renamed directory, and it is the capture by
descriptor after the root's creation that pins the directory. The last theorem is
the other direction: `UntouchedInv` follows what both processes have read of a
backup nothing touches, and each of their comparisons is of equal states. It is about
refusals that claim a change: of a file that cannot be read, or a failure that says
nothing of the source, it says nothing either.

`OutputTreeProofs`: for any number of commands, stopped anywhere, and any number of
directories, edits and renames, `TypeOK` and all five properties of the run
`output`. The inductive invariant is `Sound`. Its first part, `Safe`, holds however
commands overlap. The point is that a report's exclusive use of its staging
directory follows from the renames alone: `TakeAnalysis` needs the name free, so at
most one command per tree is between it and `PromoteReport` (`OneReporter`), and
nobody else removes the name (`Staged`) or reaches the directory by another
(`Distinct`). What that command has written stays (`Progress`), and the marker
comes last: `SealedReportIsWhole`. `Provenance` bounds the versions of the raw tree
a directory was made from by the tree's own; so a report that finds the tree as the
marker binds it before it promotes was made of that version, which is
`TablesAreOfTheSource` for a sealed report. The rest, `Alone`, speaks of
runs without overlap only: who is at work is the only one, and finds what it left
(`Position`), and what is in place is whole (`InPlace`). `AnalysisIsWhole`,
`ReportIsThereAlone` and `FinishedReportStays`, two of them action properties,
follow from it; without that condition `ReportIsThere` is violated (section 6), so it
is not an artefact of the proof. The steps fall into kinds, each with a lemma for
each part of the invariant: those that touch no report being made (`Elsewhere`), the
report's own (`AtWork`), the renames (`Renamed`), the openings, closings and markings.

`AcquisitionProofs`: for any databases and places, archives and exports, phones, and any
number of edits, moves and plugs, `TypeOK`, `SealedIsOneMoment` and `NothingIsDropped`
of Acquisition, and `OnlyCandidatesAreAsked` and `SealedIsWhatThePhoneGave` of
CapturedRecovery, where the first two and `CapturedTypeOK` hold too. The program is
a sequence of reads built from the set of databases, so the first lemmas say what
it is at each index (`SnapshotProgram`, `Order`). `OneMoment` says that a file with the
identity the preflight noted is as it was when the output was created
(`IsAsCreated`), and what was read well ended at that identity (`IsBound`). `NoneDropped`
adds what counting and copying have in common: of each database the one file that
was counted is copied, or was in a directory that was away, or has lost its identity
(`CopiedOrGone`), which the verification then cannot find (`FoundIsAnother`). For
the composition, `GivenByPhone` and `ReadToItsEnd` follow the file from the bridge to
the reader: the bridge may leave a part and say it succeeded, but only a file that
has an end is read to it.

`HelperClientProofs`: for any number of runs, frames and any buffer, `TypeOK`,
`ResultIsTheHelpers`, `StoppedForCause`, and that the initial states and every step are
those of HelperStream or a stutter, which is `ImplementsStream` but for its fairness. The
invariant says that what the reader has read and the pipe still holds make up what the
helper wrote (`HaveRead`), that a task queued for the main actor may be late but is never
false (`Queued`), and that what the active run has noted stays so (`Noted`). The
methods of the main actor end in one common form, `MainSteps`, proved once: the
handlers (`PollIsMain`, `CancelIsMain`, ...) are shown to have it.

`RecoverySessionProofs`: for any number of operations, sources, lagging views or not,
`TypeOK`, `SuccessIsValidated`, `ReceiptIsOfSelection`, `OutputIsFresh`,
`QuitLeavesNothing`, `RecoveryWins` and the action property `GrantIsConfirmed`. The
operations follow each other: the phase is busy exactly while the last one is not
settled (`Present`), and an earlier one, whose task may still be there, has nothing left
in its stream that could change anything (`Past`). What the user confirmed is tied to the
phase and the client by `Confirmations`; `Checked` and `CancelledPreflight` tie the
receipt to the operation before. `Retained`, proved on top of that, says of the receipt
the session keeps that it is of the selection it has: every step clears it, leaves it
with its source and output, or shows the confirmation (`Kept`).

`OutputValidatorProofs`: for any caches, images and validators and any number of
disturbances, `AcceptedIsOneMoment`, `RefusedForCause` and `TablesKeepTheBest`. A file
that has left a content never has it again while nothing came back; so a digest compared
before a moment, and again after it, was right at it. `Compared` says so file by file
along the 28 steps of the program. For the other property `Faithful` says that what was
read of an undisturbed output is what a recovery wrote, and that is what every gate
compares it with (`AcceptsSound`); that each text which is not among the two exceptions
is read back as it was escaped is `ReadsBack`. How the tables are derived does not matter
to either.

For the third they do, and it is proved of every sequence of responses of the types that
DerivedTables names. The positions of the records that are kept of the first m
hold of each identity one, the last of the best score (`KeptOf`). One position more
keeps that (`KeptStep`) since scores can be compared and what is at least another is at
least all the other is (`ScoresAreOrdered`): without that a record could be lost to one
that is worse than a third. `KeptAreBest` says that these are the positions the
property asks for, `MergedTable` carries it to the records, and one lemma for each merge
says that its scores are of numbers (`LatestWatchEventsIsBest` and the others). The movies
and the series of the library are two parts of one merged sequence, so no identity is in
both (`LibraryHas`). The recursive functions here, `FlattenSeq` of the community modules
among them, exist by the lemma `Recursion`, and what holds of all their values climbs
from the first (`Climb`).

`RetainedDirectoriesProofs`: for any finite set of directories, any calls a recovery makes
and any number of acts of others, `TypeOK`, `RetainedInPlace`, `WrittenIsReachable` and
the action property `OnlyTheTreeIsDeleted`. The inductive invariant `IInv` has

* `Apart`: no two directories have one place, and what is to be deleted has one;
* `Held`: what is retained exists, and is retained as one path; its handle shares no
  deletion, which is why `Move` is no step on it;
* `Chain`: the directories a deletion is in are each in the one before, and no longer
  retained;
* `Progress` and `Promoting`: which call may be in progress when, and that a promotion has
  both ends in one retained directory and closed all that was retained below;
* `RetainedInPlace`, and `Kept`: what was written to stays retained as the path it was
  written as, or is closed for the promotion in progress, which takes it from one path
  to the other and fails unless it opens the same directory there again.

A path is right if each of its names is: the lemmas about `Walk` go along its names, those
about `Within` along the levels below a directory. Both are recursive functions, and each
of these lemmas takes the least number at which its claim would fail
(lemma `Least`), since the library's induction takes an operator.

**Assumptions.** The proofs assume what the `ASSUME`s beside the constants say, nothing
else, and TLC evaluates each in a run. Bounds are natural numbers; names that stand for
nothing (`Absent`, `NoPhone`) and for the container file are none of the names they
stand beside (`ContainerAssumption`; `AbsentAssumption`: no file a recovery writes
is what stands for a missing one). `RecordsAssumption` asks that a cache, its archives
turned into responses, has responses of the types of DerivedTables: the code takes what
is an object only, and compares its fields as texts and numbers whatever they hold
(`isinstance`, `str`, `_integer`). That the conversion of typed archives yields typed
responses is part of the assumption: it sorts and groups with choices over finite sets.
Only `TablesKeepTheBest` rests on it. No theorem needs a bound to be small, a set to
be of a certain size, or fairness; only the databases must be finitely many, to be
walked through; and the directories, so that the levels below one come to an end. Of
paths and programs `PathsAssumption` asks what the callers do: every directory but the
root has the one above it among the paths, temporary directories are not the root, a
promotion gives another name beside it, and what is below comes to one of the paths too.

The type invariants of the proved modules, and `CompletedIsWhole` of RecoveryHelper (a
completed event is written only over complete markers), are theorems and in no run.

**Only model-checked**, with the reason:

* liveness (`CallsReturn`, `CancelStops`, `RunsEnd`, `CancellingEnds`, `CaptureEnds`) and
  the fairness HelperStream asks for: neither fairness nor ENABLED is in the prover's
  reach;
* `SeenIsTheAccounts`: it relates the tables to the archives of the older cache, which are
  sorted, grouped by show and folded into one object for each (`Normalized`), and what
  these yield for every input needs induction over data;
* `FailsForCause` of RetainedDirectories: it is a property of the calls a stage makes as
  much as of the directories. A recovery that asks to remove a directory it wrote below
  fails without anyone's doing, and no assumption on single calls excludes that.

## 5. What is not modelled

* Cryptography, the backup's database, plists, the bytes of CSV, HTML and PDF: data.
* The framing of the pipes: a frame is good or bad. The helper numbers its
  events, and a frame refused for its size uses up a number
  (`protocol.py:230`); events are not numbered here.
* Writes that block: HelperProcessClient writes the request and the secret on
  the main actor; a helper that reads neither, with more bytes than a pipe holds,
  would stop the actor. HelperClient lets writes succeed or fail.
* The reuse of process identifiers: the client names runs by pid. HelperClient
  assumes that no identifier comes back while a task of its earlier run is
  queued.
* Size, space and permission checks: a failure of any of them is a `Fail`; the validator's
  own limits and permission checks are left out, so `RefusedForCause` says nothing of
  them. The limit of 4,096 directories that are retained on Windows is modelled
  (`WithinLimit`), where an earlier output is taken up. An analysis or a report that
  follows the extraction in one command goes through the tree again under the same limit
  (`safety.py:2820`); that second pass is left out.
* In the output: links, volumes, extended ACLs on macOS, and an edit of a raw file
  that is undone before the next comparison. On Windows: the bytes of ACLs and
  listings, ambiguous and short names, cloud placeholders, volume queries.
* In the acquisition: the relay thread through which the bridge's output goes outside
  Windows when the caller brings an executor of its own, as tests do
  (`android_device.py:243-274`; its `join` has a timeout, line 228), the parsing of an export's
  rows, and disk space.
* In the tables: what is only shown (names, genres, countries), the rows of the
  image and media tables, and the files for other applications
  (`suite_tv.py`, `refract.py`), which are pure conversions.
* In the validator: that the time of the output's directory is put back, and the
  forms of CSV, HTML and PDF. A file that is changed and changed back between two
  readings is not noticed by the code either.
* In the session: diagnostics, what is only displayed, the lease on the source,
  the window's own closing, and three methods nothing in the app calls
  (`selectBackup(_:)`, `selectDestinationParent`, `goBackToDestinationSelection`).
* The Windows coordinator (`RecoveryCoordinator.cs`, `NativeHelperProcess.cs`): it
  speaks the protocol HelperClient models, with threads and a lock in place of an
  actor. The views, and packaging and release scripts.

## 6. Where the code and its words differ

* `helper_acquire`: an acquisition builds its report without a commit seal
  (`acquisition.py:1535`). A cancellation that arrives after the last check is
  reported as *cancelled* although the complete report is in place, which
  `seal_for_commit`'s docstring rules out.
* `output_race`: a `report` that passed its checks while another one was at work
  takes the finished report away as its own input, and then refuses it
  (`report.py:1816`; the artifacts were looked for at line 1811). The first command
  succeeds, but the path it prints is gone, or names an empty directory that
  `secure_directory` made (line 2287). In the same way two overlapping analyses may
  promote a half-written one, although the staging directory is "promoted only
  after full analysis" (`safety.py:3771`).
* `session_prompt`: an acquisition whose validation passes is published without
  answering the pending requests (`RecoverySession.swift:824`; the iOS branch does,
  at line 781). The confirmation stays up over the finished result, although
  "completion wins" (`docs/macos.md:168`).
* Seen while modelling, without a run of their own:
  * The copy of a snapshot passes over an optional database that it does not see and
    does not ask whether the preflight counted it (`acquisition.py:1396-1402`). If only
    its directory was renamed away just then and is back when the source is hashed again
    (1428), the acquisition is sealed as complete without it; the run reaches this
    (`hidden`), and `NothingIsDropped` states the rest. A directory that is away at both
    hashings takes its optional databases with it too (`acquisition.py:768`).
  * A backup without compression that stops between two members cannot be told from a
    whole one (`acquisition.py:425`).
  * The validator refuses outputs that nobody touched. A path of the raw tree that begins
    like a formula is written as `./path` (`integrity.py:44-52`, `74-83`), and
    `reconcile_raw_tree` and the report restore it; but the validator reads the rows once
    more and takes `./path` for a path that is not canonical
    (`validate_recovery_output.py:965-967`). A cell that begins with a line feed is escaped
    (`spreadsheet.py:5`), and the validator takes an escape back only before `=`, `+`, `-`,
    `@`, a tab or a carriage return (line 929). `RefusedForCause` names both
    (`ReadDifferently`), and the run reaches both.
  * It also refuses a sound output after another validator was killed, or while one is at
    work (its staging directory is an entry the layout does not know), when times of the
    raw files changed, or where PDFs can be rendered and could not be before.
  * On Windows an output with more than 4,096 directories cannot be taken up again
    (`safety.py:2186`), though an extraction may make as many (`FailsForCause`). A promotion
    that finds a directory replaced fails when the destination is visible already
    (`safety.py:1477`), another program's handle may make a recovery fail, and
    `secure_directory` adopts a directory another program of the same user made
    (`safety.py:3344`).
  * A check after the final rename that fails ends the run as failed over a complete
    output (`report.py:2287`; `CheckPublished`).
  * A preflight that completes after its cancellation was asked for goes to the
    confirmation with its receipt (`RecoverySession.swift:748`), while `docs/macos.md:101`
    says that cancelling clears it. An acquisition started from a view that still shows
    the selection keeps one, too (`RecoverySession.swift:419`), and nothing uses it
    (`ReceiptIsOfSelection` names both).
* What errors say of the output, as far as `NothingIsDenied` cannot ask it. When the
  status changed right before the extraction, the text is "No output was created"
  (`extract.py:1973`), but the root exists by then and stays. A file that is away,
  unreadable or changes under the reader is one text, "Preserve the incomplete output"
  (`extract.py:293-296`, `315-319`, `368-371`, `387-390`), also when only the empty root is
  there (called from `extract.py:665-672`), and on Windows when there is no output at all
  (`196-199`, `217-228`, called from `service.py:214-231`). The helper sends its own text for
  each kind of error, and SOURCE_CHANGED speaks of an incomplete output
  (`helper_main.py:72`) where `service.py:729` and `746` say that none was created.

## 7. Plan

In this order; each with its runs, and proofs where they say so.

1. **WindowsCoordinator**: cancel against control writes, reading to completion,
   exit, disposal; shown to implement HelperStream.
2. **OutputLifecycle**, an abstract specification of OutputTree (an output only moves
   from nothing to incomplete to extracted to analysed to reported, and says so).
3. **Algorithms** against reference definitions: framing with its limits and
   numbers, the rows of an export, the receipt's counts.
