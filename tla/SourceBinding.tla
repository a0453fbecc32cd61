---------------------------- MODULE SourceBinding ----------------------------
(***************************************************************************)
(* How a recovery stays bound to the backup that was confirmed: preflight  *)
(* and _run_with_preflight_binding (service.py), the held backup root and  *)
(* _extract_backup (extract.py), while another process edits the backup's  *)
(* files or renames directories.  The native apps run a preflight in one   *)
(* helper process, carry its receipt and recover in a second process; the  *)
(* command line keeps the preflight's result inside one process.           *)
(*                                                                         *)
(* A file is a directory and a version: every edit gives a new version,    *)
(* because a snapshot holds identity, times, size and digest.  Which files *)
(* the manifest selects, what they hold, and the file count and byte total *)
(* of the receipt are left out; a mismatch of the latter is a Fail.        *)
(* Of an error, claim keeps what its text says of the output, as service.py *)
(* or extract.py raises it: the command line prints that text, the helper  *)
(* one of its own for each kind of error (helper_main.py, SOURCE_CHANGED:  *)
(* "Preserve the incomplete output").                                      *)
(***************************************************************************)
EXTENDS Naturals

CONSTANTS Control,   \* the control files of a backup
          Status,    \* the one that says whether the backup is finished
          Payload,   \* the encrypted files the manifest selects
          Clients,   \* who drives the service
          MaxEdits,  \* bound: edits of files, in all directories
          MaxSwaps   \* bound: renames that put another directory in place

ASSUME SourceAssumption == /\ Status \in Control
                           /\ Control \cap Payload = {}
                           /\ Clients \subseteq {"native", "cli"}
                           /\ MaxEdits \in Nat
                           /\ MaxSwaps \in Nat

Files == Control \cup Payload
Dirs == {"chosen", "other"}

VARIABLES
  disk,      \* disk[d][f]: the version of file f in directory d
  visible,   \* the directory the selected path names
  edits,     \* how many edits there were
  swaps,     \* how many renames there were
  client,    \* who drives the service
  process,   \* the native app's helper process: "preflight", then "recover"
  pc,        \* where the service is
  root,      \* the directory noted at the start of the capture under way
  seen,      \* seen[f]: what the capture under way has read
  snapshot,  \* the snapshot this process prepared
  receipt,   \* the snapshot that was confirmed
  held,      \* the directory held open by descriptor
  states,    \* states[f]: selected_source_states
  copied,    \* copied[f]: what was copied or decrypted into the output
  failures,  \* the files that could not be copied
  output,    \* the output: nothing, its root, its marker "incomplete", "complete"
  claim,     \* what the error that ended the run says of the output: Claims
  atCreate,  \* history: the held directory when the output root was created ...
  atEnd      \* ... and when the last file had been copied

source == <<disk, visible, edits, swaps>>
history == <<atCreate, atEnd>>
vars == <<source, client, process, pc, root, seen, snapshot, receipt, held, states,
          copied, failures, output, claim, history>>

Unread == [dir |-> "none", version |-> 0]
FileStates == [dir : Dirs, version : Nat] \cup {Unread}
Nothing == [f \in Files |-> Unread]
NoSnapshot == [root |-> "none", files |-> [f \in Control |-> Unread]]
Snapshots == [root : Dirs \cup {"none"}, files : [Control -> FileStates]]

\* Captures by path read below the selected path, those by descriptor below the
\* held directory.
ByPath == {"capture", "recapture", "current"}
ByDescriptor == {"critical", "verify_control"}
Working == ByPath \cup ByDescriptor \cup
  {"inspect", "prepared", "confirm", "match", "hold", "bound", "create", "status", "layout",
   "control", "survey", "extract", "verify_payload", "seal_status", "seal_root", "seal"}

\* The texts: "No output was created" of service.py, and of extract.py about the
\* status; "No plaintext was written"; "Preserve the incomplete output" where files
\* are compared, and where a file could not be read ("unread").
Claims == {"none", "no_output", "no_output_status", "no_plaintext", "incomplete", "unread"}

TypeOK ==
  /\ disk \in [Dirs -> [Files -> Nat]]
  /\ visible \in Dirs
  /\ edits \in Nat
  /\ swaps \in Nat
  /\ client \in Clients
  /\ process \in {"preflight", "recover"}
  /\ pc \in Working \cup {"done", "stopped"}
  /\ root \in Dirs \cup {"none"}
  /\ seen \in [Files -> FileStates]
  /\ snapshot \in Snapshots
  /\ receipt \in Snapshots
  /\ held \in Dirs \cup {"none"}
  /\ states \in [Files -> FileStates]
  /\ copied \in [Files -> FileStates]
  /\ failures \subseteq Payload
  /\ output \in {"none", "root", "incomplete", "complete"}
  /\ claim \in Claims
  /\ atCreate \in [Files -> FileStates]
  /\ atEnd \in [Files -> FileStates]

Init ==
  /\ disk = [d \in Dirs |-> [f \in Files |-> 0]]
  /\ visible = "chosen"
  /\ edits = 0 /\ swaps = 0
  /\ client \in Clients
  /\ process = "preflight"
  /\ pc = "capture"
  /\ root = "none" /\ seen = Nothing
  /\ snapshot = NoSnapshot /\ receipt = NoSnapshot
  /\ held = "none"
  /\ states = Nothing /\ copied = Nothing /\ failures = {}
  /\ output = "none" /\ claim = "none"
  /\ atCreate = Nothing /\ atEnd = Nothing
-----------------------------------------------------------------------------
StateOf(d, f) == [dir |-> d, version |-> disk[d][f]]

\* Status.plist alternates between finished and not: a backup that starts over
\* rewrites it, and rewrites it again when it is complete.
Finished(state) == state.version % 2 = 0

Proceed(here, there) ==
  /\ pc = here
  /\ pc' = there

Raise(c) ==
  /\ pc' = "stopped"
  /\ claim' = c
-----------------------------------------------------------------------------
\* Captures of the control files.

\* A capture by path notes the root's identity; one by descriptor requires that
\* the held root is still the visible one.
BeginCapture ==
  /\ pc \in ByPath \cup ByDescriptor
  /\ root = "none"
  /\ pc \in ByDescriptor => visible = held
  /\ root' = visible
  /\ UNCHANGED <<source, client, process, pc, seen, snapshot, receipt, held, states,
                 copied, failures, output, claim, history>>

\* Each file is read, and hashed, between two looks at its metadata, so that a
\* read is of one version; the order of the files does not matter here.
ReadControl(f) ==
  /\ pc \in ByPath \cup ByDescriptor
  /\ root # "none"
  /\ seen[f] = Unread
  /\ LET d == IF pc \in ByPath THEN visible ELSE held
     IN seen' = [seen EXCEPT ![f] = StateOf(d, f)]
  /\ UNCHANGED <<source, client, process, pc, root, snapshot, receipt, held, states,
                 copied, failures, output, claim, history>>

Captured == [root |-> root, files |-> [f \in Control |-> seen[f]]]

\* The capture is complete and its root still visible; one by descriptor also
\* refuses a status that is not finished.
EndCapture(here) ==
  /\ pc = here
  /\ root # "none"
  /\ \A f \in Control : seen[f] # Unread
  /\ visible = root
  /\ here \in ByDescriptor => Finished(seen[Status])
  /\ root' = "none"
  /\ seen' = Nothing

Require(condition, there, c) ==
  IF condition THEN pc' = there /\ UNCHANGED claim ELSE Raise(c)
-----------------------------------------------------------------------------
\* Preflight.

FirstCapture ==
  /\ EndCapture("capture")
  /\ pc' = "inspect"
  /\ snapshot' = Captured
  /\ UNCHANGED <<source, client, process, receipt, held, states, copied, failures,
                 output, claim, history>>

\* The backup must be finished; then its tree is walked.
Inspect ==
  /\ Proceed("inspect", "recapture")
  /\ Finished(snapshot.files[Status])
  /\ UNCHANGED <<source, client, process, root, seen, snapshot, receipt, held, states,
                 copied, failures, output, claim, history>>

SecondCapture ==
  /\ EndCapture("recapture")
  /\ Require(Captured = snapshot, "prepared", "none")
  /\ UNCHANGED <<source, client, process, snapshot, receipt, held, states, copied,
                 failures, output, history>>

\* Mutant: the receipt is not handed on.
PreparedWithoutReceipt ==
  /\ Proceed("prepared", IF process = "preflight" THEN "confirm" ELSE "match")
  /\ UNCHANGED <<source, client, process, root, seen, snapshot, receipt, held, states,
                 copied, failures, output, claim, history>>

\* The first preflight is what the user confirms; the second helper process
\* compares its own with the receipt it was given.
Prepared ==
  /\ Proceed("prepared", IF process = "preflight" THEN "confirm" ELSE "match")
  /\ receipt' = IF process = "preflight" THEN snapshot ELSE receipt
  /\ UNCHANGED <<source, client, process, root, seen, snapshot, held, states, copied,
                 failures, output, claim, history>>

\* The user confirms: the native app starts a second helper process, the command
\* line goes on with the prepared preflight.
Confirm ==
  /\ Proceed("confirm", IF client = "native" THEN "capture" ELSE "hold")
  /\ process' = IF client = "native" THEN "recover" ELSE process
  /\ snapshot' = IF client = "native" THEN NoSnapshot ELSE snapshot
  /\ UNCHANGED <<source, client, root, seen, receipt, held, states, copied, failures,
                 output, claim, history>>
-----------------------------------------------------------------------------
\* _run_with_preflight_binding.

\* Mutant: the receipt is not compared.
MatchAnyReceipt ==
  /\ Proceed("match", "hold")
  /\ UNCHANGED <<source, client, process, root, seen, snapshot, receipt, held, states,
                 copied, failures, output, claim, history>>

MatchReceipt ==
  /\ pc = "match"
  /\ Require(receipt = snapshot, "hold", "no_output")
  /\ UNCHANGED <<source, client, process, root, seen, snapshot, receipt, held, states,
                 copied, failures, output, history>>

\* _held_backup_root opens the selected path and expects the prepared identity.
HoldRoot ==
  /\ Proceed("hold", "current")
  /\ visible = snapshot.root
  /\ held' = visible
  /\ UNCHANGED <<source, client, process, root, seen, snapshot, receipt, states, copied,
                 failures, output, claim, history>>

CurrentCapture ==
  /\ EndCapture("current")
  /\ Require(Captured = snapshot, "bound", "no_output")
  /\ UNCHANGED <<source, client, process, snapshot, receipt, held, states, copied,
                 failures, output, history>>

\* _require_bound_backup_root: before the output root is created, and before the
\* extraction looks at the status.
RequireBound(here, there) ==
  /\ Proceed(here, there)
  /\ visible = held

BoundBeforeOutput ==
  /\ RequireBound("bound", "create")
  /\ UNCHANGED <<source, client, process, root, seen, snapshot, receipt, held, states,
                 copied, failures, output, claim, history>>

\* Mutant: the output root is created with its layout in it.
CreateRootAndLayout ==
  /\ Proceed("create", "status")
  /\ output' = "incomplete"
  /\ atCreate' = [f \in Files |-> StateOf(held, f)]
  /\ UNCHANGED <<source, client, process, root, seen, snapshot, receipt, held, states,
                 copied, failures, claim, atEnd>>

\* anchored_bound_output_root: nothing removes the root after a later failure.
CreateRoot ==
  /\ Proceed("create", "status")
  /\ output' = "root"
  /\ atCreate' = [f \in Files |-> StateOf(held, f)]
  /\ UNCHANGED <<source, client, process, root, seen, snapshot, receipt, held, states,
                 copied, failures, claim, atEnd>>
-----------------------------------------------------------------------------
\* extract_backup and _extract_backup.

CheckStatus ==
  /\ pc = "status"
  /\ visible = held
  /\ Finished(StateOf(held, Status))
  /\ Require(StateOf(held, Status) = snapshot.files[Status], "critical", "no_output_status")
  /\ UNCHANGED <<source, client, process, root, seen, snapshot, receipt, held, states,
                 copied, failures, output, history>>

CriticalCapture ==
  /\ EndCapture("critical")
  /\ Require(Captured = snapshot, "layout", "no_plaintext")
  /\ UNCHANGED <<source, client, process, snapshot, receipt, held, states, copied,
                 failures, output, history>>

CreateLayout ==
  /\ Proceed("layout", "control")
  /\ output' = "incomplete"
  /\ UNCHANGED <<source, client, process, root, seen, snapshot, receipt, held, states,
                 copied, failures, claim, history>>

\* The dependency decrypts a private copy of the control files.
CopyControl(f) ==
  /\ pc = "control"
  /\ copied[f] = Unread
  /\ Require(StateOf(held, f) = snapshot.files[f], "control", "incomplete")
  /\ copied' = [copied EXCEPT ![f] = StateOf(held, f)]
  /\ UNCHANGED <<source, client, process, root, seen, snapshot, receipt, held, states,
                 failures, output, history>>

ControlCopied ==
  /\ Proceed("control", "survey")
  /\ \A f \in Control : copied[f] # Unread
  /\ UNCHANGED <<source, client, process, root, seen, snapshot, receipt, held, states,
                 copied, failures, output, claim, history>>

\* The state of every selected file is noted before the first is copied.
Survey(f) ==
  /\ pc = "survey"
  /\ states[f] = Unread
  /\ states' = [states EXCEPT ![f] = StateOf(held, f)]
  /\ UNCHANGED <<source, client, process, pc, root, seen, snapshot, receipt, held,
                 copied, failures, output, claim, history>>

Surveyed ==
  /\ Proceed("survey", "extract")
  /\ \A f \in Payload : states[f] # Unread
  /\ UNCHANGED <<source, client, process, root, seen, snapshot, receipt, held, states,
                 copied, failures, output, claim, history>>

\* _extract_one_file copies a file that is as surveyed.
ExtractFile(f) ==
  /\ pc = "extract"
  /\ f \notin failures
  /\ copied[f] = Unread
  /\ StateOf(held, f) = states[f]
  /\ copied' = [copied EXCEPT ![f] = states[f]]
  /\ UNCHANGED <<source, client, process, pc, root, seen, snapshot, receipt, held,
                 states, failures, output, claim, history>>

\* A file that changed, or cannot be decrypted or written, is recorded.
FailFile(f) ==
  /\ pc = "extract"
  /\ f \notin failures
  /\ copied[f] = Unread
  /\ failures' = failures \cup {f}
  /\ UNCHANGED <<source, client, process, pc, root, seen, snapshot, receipt, held,
                 states, copied, output, claim, history>>

Extracted ==
  /\ Proceed("extract", "verify_control")
  /\ \A f \in Payload : f \in failures \/ copied[f] # Unread
  /\ atEnd' = [f \in Files |-> StateOf(held, f)]
  /\ UNCHANGED <<source, client, process, root, seen, snapshot, receipt, held, states,
                 copied, failures, output, claim, atCreate>>

VerifyControl ==
  /\ EndCapture("verify_control")
  /\ Require(Captured = snapshot, "verify_payload", "incomplete")
  /\ UNCHANGED <<source, client, process, snapshot, receipt, held, states, copied,
                 failures, output, history>>

\* Mutant: the payload files are read again but not compared.
ReadPayloadAgain(f) ==
  /\ pc = "verify_payload"
  /\ seen[f] = Unread
  /\ seen' = [seen EXCEPT ![f] = StateOf(held, f)]
  /\ UNCHANGED <<source, client, process, pc, root, snapshot, receipt, held, states,
                 copied, failures, output, claim, history>>

VerifyPayload(f) ==
  /\ pc = "verify_payload"
  /\ seen[f] = Unread
  /\ seen' = [seen EXCEPT ![f] = StateOf(held, f)]
  /\ Require(StateOf(held, f) = states[f], "verify_payload", "incomplete")
  /\ UNCHANGED <<source, client, process, root, snapshot, receipt, held, states, copied,
                 failures, output, history>>

\* The run is sealed only without failures: else it stays incomplete.
Verified ==
  /\ pc = "verify_payload"
  /\ \A f \in Payload : seen[f] # Unread
  /\ Require(failures = {}, "seal_status", "incomplete")
  /\ UNCHANGED <<source, client, process, root, seen, snapshot, receipt, held, states,
                 copied, failures, output, history>>

\* revalidate_finished_status, right before the marker is replaced.
SealStatus ==
  /\ pc = "seal_status"
  /\ Require(StateOf(held, Status) = snapshot.files[Status], "seal_root", "incomplete")
  /\ UNCHANGED <<source, client, process, root, seen, snapshot, receipt, held, states,
                 copied, failures, output, history>>

SealRoot ==
  /\ RequireBound("seal_root", "seal")
  /\ UNCHANGED <<source, client, process, root, seen, snapshot, receipt, held, states,
                 copied, failures, output, claim, history>>

SealRun ==
  /\ Proceed("seal", "done")
  /\ output' = "complete"
  /\ UNCHANGED <<source, client, process, root, seen, snapshot, receipt, held, states,
                 copied, failures, claim, history>>

\* A control or payload file is away, cannot be read, or changes while it is read.
\* _source_payload_state and _windows_source_payload have one text for it, whatever
\* there is of an output when they are called: by the captures by descriptor (but for
\* the status, which has texts of its own: Fail), by the copies, the survey and the
\* last verification; and, on Windows, by the captures by path.
FailRead(f) ==
  /\ \/ /\ pc \in ByPath \cup ByDescriptor
        /\ root # "none" /\ seen[f] = Unread
        /\ f \in IF pc \in ByPath THEN Control ELSE Control \ {Status}
     \/ pc = "control" /\ f \in Control /\ copied[f] = Unread
     \/ pc = "survey" /\ f \in Payload /\ states[f] = Unread
     \/ pc = "verify_payload" /\ f \in Payload /\ seen[f] = Unread
  /\ Raise("unread")
  /\ UNCHANGED <<source, client, process, root, seen, snapshot, receipt, held, states,
                 copied, failures, output, history>>

\* Every other error, a check above that refuses without a word on the output, a
\* cancellation, or a user who does not confirm.
Fail ==
  /\ pc \in Working
  /\ pc' = "stopped"
  /\ UNCHANGED <<source, client, process, root, seen, snapshot, receipt, held, states,
                 copied, failures, output, claim, history>>

Step ==
  \/ BeginCapture
  \/ \E f \in Control : ReadControl(f) \/ CopyControl(f)
  \/ FirstCapture \/ Inspect \/ SecondCapture \/ Prepared \/ Confirm
  \/ MatchReceipt \/ HoldRoot \/ CurrentCapture \/ BoundBeforeOutput \/ CreateRoot
  \/ CheckStatus \/ CriticalCapture \/ CreateLayout \/ ControlCopied
  \/ \E f \in Payload : Survey(f) \/ ExtractFile(f) \/ FailFile(f) \/ VerifyPayload(f)
  \/ Surveyed \/ Extracted \/ VerifyControl \/ Verified
  \/ SealStatus \/ SealRoot \/ SealRun
  \/ Fail \/ \E f \in Files : FailRead(f)
-----------------------------------------------------------------------------
\* The other processes, while the run lasts.

service == <<client, process, pc, root, seen, snapshot, receipt, held, states, copied,
             failures, output, claim, history>>

Edit(d, f) ==
  /\ pc \in Working
  /\ edits < MaxEdits
  /\ edits' = edits + 1
  /\ disk' = [disk EXCEPT ![d][f] = @ + 1]
  /\ UNCHANGED <<visible, swaps, service>>

Swap ==
  /\ pc \in Working
  /\ swaps < MaxSwaps
  /\ swaps' = swaps + 1
  /\ visible' \in Dirs \ {visible}
  /\ UNCHANGED <<disk, edits, service>>

Ended == pc \in {"done", "stopped"} /\ UNCHANGED vars

Next ==
  \/ Step
  \/ \E d \in Dirs, f \in Files : Edit(d, f)
  \/ Swap
  \/ Ended

Spec == Init /\ [][Next]_vars
-----------------------------------------------------------------------------
\* What a complete extraction holds is what the held backup held at one moment,
\* when the last file had been copied, and that backup was finished: no edit in
\* between, however it is timed, mixes two versions of the backup.
CompleteIsOneMoment ==
  output = "complete" => copied = atEnd /\ Finished(atEnd[Status])

\* Plaintext is only ever written for the backup that was confirmed: the control
\* files in its receipt are those the held directory had, all at once, when the
\* output root was created, also if the receipt came from another process.
PlaintextIsOfConfirmed ==
  output \in {"incomplete", "complete"} =>
    receipt = [root |-> held, files |-> [f \in Control |-> atCreate[f]]]

\* An error never denies what is there.  "No output was created" (service.py) is raised
\* while there is no output, "No plaintext was written" over an empty root at most;
\* "No output was created" of extract.py's look at the status too: it is wrong about the
\* root, which was created before it, but not about plaintext.  Where files are compared
\* "the incomplete output" is there, laid out.  The text for a file that could not be
\* read is used before that as well, over an empty root or nothing; never over a
\* complete output.
NothingIsDenied ==
  /\ claim = "no_output" => output = "none"
  /\ claim \in {"no_output_status", "no_plaintext"} => output = "root"
  /\ claim = "incomplete" => output = "incomplete"
  /\ claim = "unread" => output # "complete"

\* An untouched backup is never refused as changed, whichever path through the
\* two processes the run takes: every comparison of its files is of equal states.  (A
\* file that cannot be read, or decrypted, need not have been touched.)
UntouchedIsAccepted ==
  claim \notin {"none", "unread"} /\ failures = {} => edits + swaps > 0
=============================================================================
