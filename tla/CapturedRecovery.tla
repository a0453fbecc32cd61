-------------------------- MODULE CapturedRecovery --------------------------
(***************************************************************************)
(* A backup captured from a phone (DeviceCapture) and then recovered as an *)
(* Android archive (Acquisition): two commands of the command line, with   *)
(* the captured file between them.  A capture that fails leaves its file   *)
(* where it is, and the recovery may be started with it all the same.  The *)
(* other sources are recovered without a capture.                          *)
(***************************************************************************)
EXTENDS Acquisition, DeviceCapture

CONSTANTS Held,           \* the backup each phone gives
          MaxDisturbances \* bound: what phones and other processes do, all together

\* What a file holds when a backup stops between two members or inside of one.
CutAt(a, n, cut) == [a EXCEPT !.members = SubSeq(@, 1, n), !.cut = cut]
Unreadable == {a \in Archives : a.header = "malformed"}

\* What the captured file is to the recovery.
Left(captured, amount, held) ==
  CASE captured = "none" -> {Absent}
    [] captured = "other" -> Archives
    [] captured = "ours" /\ amount \in {"none", "headless", "oversized"} -> Unreadable
    [] captured = "ours" /\ amount = "whole" -> {held}
    [] captured = "ours" /\ amount \in {"inside", "boundary"} ->
         {CutAt(held, n, amount) : n \in 1..(Len(held.members) - 1)}

ASSUME HeldAssumption ==
  /\ MaxDisturbances \in Nat
  /\ Held \in [Phones -> Archives] /\ Unreadable # {}
  /\ \A p \in Phones, cut \in {"boundary", "inside"} : Left("ours", cut, Held[p]) \subseteq Archives

allVars == <<vars, captureVars>>

CapturedInit ==
  \E status \in {"unused", "running"} :
    /\ Init /\ CaptureInit(status)
    /\ status = "unused" => attached = {} /\ app = CHOOSE f \in Installed : TRUE
    /\ status = "running" => run.kind = "archive" /\ source[ContainerFile].content = Absent

\* The end of the capture is where the recovery's source comes from.
Capture ==
  /\ CaptureNext
  /\ IF cap'.status = "running" THEN UNCHANGED vars
     ELSE /\ \E c \in Left(file'.path, file'.stored, IF cap.asked = NoPhone THEN Absent ELSE Held[cap.asked]) :
               source' = [source EXCEPT ![ContainerFile].content = c]
          /\ UNCHANGED <<away, edits, moves, run, raw, output, moment, hidden>>

Recover ==
  /\ cap.status # "running" /\ bridge # "running"
  /\ Next
  /\ UNCHANGED captureVars

CapturedNext ==
  /\ Capture \/ Recover
  /\ plugs' + swaps' + edits' + moves' <= MaxDisturbances

\* The program goes on and its deadline passes.  Nothing is assumed of the bridge, the
\* phones and the other processes.
CapturedSpec == CapturedInit /\ [][CapturedNext]_allVars /\ WF_allVars(Capture /\ CaptureStep)
-----------------------------------------------------------------------------
CapturedTypeOK == TypeOK /\ CaptureTypeOK

\* Only a phone whose app was found to be a candidate is asked for a backup, although
\* another one may have been plugged in since it was looked at.
OnlyCandidatesAreAsked == bridge # "none" => app[cap.asked] = "candidate"

\* A capture ends: a bridge that hangs is killed.
CaptureEnds == <>(cap.status # "running" /\ bridge # "running")

\* What is sealed after a capture is what the phone gave, whole, though the bridge
\* reports success for a part of it: only the recovery reads the backup to its end.
\* (A backup that is not compressed and stops between two members cannot be told.)
SealedIsWhatThePhoneGave ==
  /\ cap.status = "done" \/ (cap.status = "failed" /\ swaps = 0)
  /\ edits = 0 /\ output = "complete"
  /\ Held[cap.asked].compressed
  => raw = TakenFromArchive(Held[cap.asked])
=============================================================================
