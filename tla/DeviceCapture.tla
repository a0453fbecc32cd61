---------------------------- MODULE DeviceCapture ----------------------------
(***************************************************************************)
(* The capture of an Android backup from a phone                           *)
(* (tvtime_extractor/android_device.py): the phone and the app on it are   *)
(* probed, the list of phones is read again, a fresh private file is made, *)
(* the device bridge (adb) is started with the file as its output, and     *)
(* what it left there is inspected through the descriptor held on it.      *)
(*                                                                         *)
(* Phones are plugged in and pulled out at any time.  The bridge may write *)
(* the backup whole, in part, more than is allowed, or not at all; it may  *)
(* hang; and it exits with success whatever it wrote.  Another process may *)
(* rename another file over the one that is being captured.                *)
(*                                                                         *)
(* External: adb, of which only what the program gives it and reads from   *)
(* it is modelled.  The bytes of a backup are how much of it there is.     *)
(* Modelled for a POSIX host and its own executor, whose bridge inherits   *)
(* the descriptor; the relay a test's executor writes through is not.      *)
(***************************************************************************)
EXTENDS Naturals, FiniteSets

CONSTANTS Phones,    \* serial numbers
          NoPhone,
          Installed, \* what may be on the phones: functions from Phones to Apps
          MaxPlugs,  \* bound: phones plugged in or pulled out
          MaxSwaps   \* bound: files renamed over the captured one

\* What the probe makes of the app on a phone.
Apps == {"missing", "unreadable", "backup_disabled", "modern_release_app", "unknown", "candidate"}

ASSUME CaptureAssumption ==
  /\ NoPhone \notin Phones /\ Installed \subseteq [Phones -> Apps]
  /\ MaxPlugs \in Nat /\ MaxSwaps \in Nat

\* How much of a backup a file holds.  A backup stops between two members or inside of
\* one, or before its header is there.
Amounts == {"none", "headless", "inside", "boundary", "whole", "oversized"}
More == [none |-> {"headless"}, headless |-> {"inside"}, inside |-> {"boundary", "whole"},
         boundary |-> {"inside", "whole"}, whole |-> {"oversized"}, oversized |-> {}]

VARIABLES
  attached,   \* the authorized phones adb lists
  app,        \* the app on each phone
  plugs, swaps,
  cap,        \* the program: its step, the phone it probed, the phone it captures
  bridge,     \* adb: "none", "running", "exited", "failed", "killed"
  file        \* the destination: what is at the path, what the descriptor's file holds

captureVars == <<attached, app, plugs, swaps, cap, bridge, file>>

CaptureSteps == {"version", "devices", "path", "dump", "relist", "fresh", "create", "spawn",
                 "wait", "identity", "inspect", "again"}

CaptureTypeOK ==
  /\ attached \subseteq Phones /\ app \in [Phones -> Apps]
  /\ plugs \in 0..MaxPlugs /\ swaps \in 0..MaxSwaps
  /\ cap \in [status : {"unused", "running", "done", "failed"}, at : CaptureSteps,
              probed : Phones \cup {NoPhone}, asked : Phones \cup {NoPhone}]
  /\ bridge \in {"none", "running", "exited", "failed", "killed"}
  /\ file \in [path : {"none", "ours", "other"}, stored : Amounts]

CaptureInit(status) ==
  /\ attached \in SUBSET Phones /\ app \in Installed
  /\ plugs = 0 /\ swaps = 0
  /\ cap = [status |-> status, at |-> "version", probed |-> NoPhone, asked |-> NoPhone]
  /\ bridge = "none" /\ file = [path |-> "none", stored |-> "none"]
-----------------------------------------------------------------------------
At(step) == cap.status = "running" /\ cap.at = step
To(step) == cap' = [cap EXCEPT !.at = step]
Stops == cap' = [cap EXCEPT !.status = "failed"]

bystanders == <<attached, app, plugs, swaps>>

\* Each command of the bridge may fail or run out of its time; a file may not be made.
CaptureFails ==
  /\ cap.status = "running" /\ bridge # "running"
  /\ Stops
  /\ UNCHANGED <<bystanders, bridge, file>>

Version ==
  /\ At("version") /\ To("devices")
  /\ UNCHANGED <<bystanders, bridge, file>>

\* Exactly one authorized phone, or there is no candidate.
ListDevices ==
  /\ At("devices")
  /\ IF Cardinality(attached) = 1
     THEN \E p \in attached : cap' = [cap EXCEPT !.at = "path", !.probed = p]
     ELSE Stops
  /\ UNCHANGED <<bystanders, bridge, file>>

PackagePath ==
  /\ At("path")
  /\ IF cap.probed \in attached /\ app[cap.probed] # "missing" THEN To("dump") ELSE Stops
  /\ UNCHANGED <<bystanders, bridge, file>>

\* A legacy backup is only tried of an app that allows it and is old enough or debuggable.
DumpPackage ==
  /\ At("dump")
  /\ IF cap.probed \in attached /\ app[cap.probed] = "candidate" THEN To("relist") ELSE Stops
  /\ UNCHANGED <<bystanders, bridge, file>>

\* Mutant: whatever single phone is listed now is captured.
RelistAny ==
  /\ At("relist")
  /\ IF Cardinality(attached) = 1
     THEN \E p \in attached : cap' = [cap EXCEPT !.at = "fresh", !.asked = p]
     ELSE Stops
  /\ UNCHANGED <<bystanders, bridge, file>>

Relist ==
  /\ At("relist")
  /\ IF attached = {cap.probed}
     THEN cap' = [cap EXCEPT !.at = "fresh", !.asked = cap.probed]
     ELSE Stops
  /\ UNCHANGED <<bystanders, bridge, file>>

CheckFresh ==
  /\ At("fresh")
  /\ IF file.path = "none" THEN To("create") ELSE Stops
  /\ UNCHANGED <<bystanders, bridge, file>>

\* The file is made exclusively, then compared with what is at the path.
CreateFile ==
  /\ At("create")
  /\ IF file.path = "none"
     THEN file' = [path |-> "ours", stored |-> "none"] /\ To("spawn")
     ELSE Stops /\ UNCHANGED file
  /\ UNCHANGED <<bystanders, bridge>>

Spawn ==
  /\ At("spawn")
  /\ IF file.path = "ours" THEN bridge' = "running" /\ To("wait") ELSE Stops /\ UNCHANGED bridge
  /\ UNCHANGED <<bystanders, file>>

\* Mutant: the wait has no deadline.
NoDeadline == FALSE /\ UNCHANGED captureVars

Deadline ==
  /\ At("wait") /\ bridge = "running"
  /\ bridge' = "killed" /\ Stops
  /\ UNCHANGED <<bystanders, file>>

\* Found while the bridge runs, or after it exited.
Oversize ==
  /\ At("wait") /\ file.stored = "oversized"
  /\ bridge' = IF bridge = "running" THEN "killed" ELSE bridge
  /\ Stops
  /\ UNCHANGED <<bystanders, file>>

\* The identity of the path comes before the exit code.
BridgeEnded ==
  /\ At("wait") /\ bridge \in {"exited", "failed"} /\ file.stored # "oversized"
  /\ To("identity")
  /\ UNCHANGED <<bystanders, bridge, file>>

CheckIdentity ==
  /\ At("identity")
  /\ IF file.path = "ours" /\ bridge = "exited" THEN To("inspect") ELSE Stops
  /\ UNCHANGED <<bystanders, bridge, file>>

\* The inspection reads every byte, but of their meaning only the header's.
InspectCapture ==
  /\ At("inspect")
  /\ IF file.stored \notin {"none", "headless"} THEN To("again") ELSE Stops
  /\ UNCHANGED <<bystanders, bridge, file>>

Done ==
  /\ At("again")
  /\ IF file.path = "ours" THEN cap' = [cap EXCEPT !.status = "done"] ELSE Stops
  /\ UNCHANGED <<bystanders, bridge, file>>

CaptureStep ==
  \/ Version \/ ListDevices \/ PackagePath \/ DumpPackage \/ Relist \/ CheckFresh
  \/ CreateFile \/ Spawn \/ Deadline \/ Oversize \/ BridgeEnded \/ CheckIdentity
  \/ InspectCapture \/ Done
-----------------------------------------------------------------------------
(***************************************************************************)
(* The phones, the bridge and other processes.                             *)
(***************************************************************************)

Plug(p) ==
  /\ cap.status = "running" /\ plugs < MaxPlugs
  /\ plugs' = plugs + 1
  /\ attached' = IF p \in attached THEN attached \ {p} ELSE attached \cup {p}
  /\ UNCHANGED <<app, swaps, cap, bridge, file>>

\* The bridge writes through the descriptor, whatever is at the path by now.
BridgeWrites ==
  /\ bridge = "running" /\ cap.asked \in attached
  /\ \E amount \in More[file.stored] : file' = [file EXCEPT !.stored = amount]
  /\ UNCHANGED <<bystanders, cap, bridge>>

BridgeExits ==
  /\ bridge = "running"
  /\ bridge' \in {"exited", "failed"}
  /\ UNCHANGED <<bystanders, cap, file>>

Swap ==
  /\ cap.status = "running" /\ swaps < MaxSwaps
  /\ swaps' = swaps + 1
  /\ file' = [file EXCEPT !.path = "other"]
  /\ UNCHANGED <<attached, app, plugs, cap, bridge>>

CaptureNext ==
  \/ CaptureStep \/ CaptureFails
  \/ BridgeWrites \/ BridgeExits \/ Swap
  \/ \E p \in Phones : Plug(p)
=============================================================================
