------------------------ MODULE SourceBindingProofs ------------------------
(***************************************************************************)
(* SourceBinding.tla for every set of files, clients and any number of     *)
(* edits and renames: errors that deny nothing, plaintext only for the     *)
(* the confirmed backup, and a complete output that is one moment of it.   *)
(*                                                                         *)
(* The versions of a file only grow.  The control files compared before    *)
(* the output root is created and again after it have, in between, the     *)
(* version of both comparisons; the same holds for all files around the    *)
(* moment when the last of them had been copied.                           *)
(***************************************************************************)
EXTENDS SourceBinding, TLAPS

Before == {"capture", "inspect", "recapture", "prepared", "confirm", "match", "hold",
           "current", "bound", "create"}
Rooted == {"status", "critical", "layout"}
Copying == {"control", "survey", "extract"}
Checking == {"verify_control", "verify_payload", "seal_status", "seal_root", "seal"}
Held == {"current", "bound", "create"} \cup Rooted \cup Copying \cup Checking

HeldInv == pc \in Held => held \in Dirs

\* The output at each program point.
OutputInv ==
  /\ pc \in Before => output = "none"
  /\ pc \in Rooted => output = "root"
  /\ pc \in Copying \cup Checking => output = "incomplete"
  /\ pc = "done" => output = "complete"
  /\ pc # "stopped" => claim = "none"
  /\ NothingIsDenied

\* The snapshot is the confirmed one from the comparison on; a capture starts with
\* nothing read.
BindingInv ==
  /\ pc \in {"confirm", "hold"} \cup Held => receipt = snapshot
  /\ pc \in Held => held = snapshot.root
  /\ pc \in Working \ (ByPath \cup ByDescriptor) => root = "none"
  /\ pc \in Working \ {"verify_payload", "seal_status", "seal_root", "seal"} /\ root = "none"
       => seen = Nothing
  /\ pc = "verify_payload" => \A f \in Control : seen[f] = Unread

\* What was read is not newer than what is there.
Past(s, f) == s # Unread => s.version <= disk[s.dir][f]

PastInv ==
  /\ \A f \in Files : Past(seen[f], f) /\ Past(states[f], f)
  /\ \A f \in Control : Past(snapshot.files[f], f)

\* s is an earlier state of f in the held directory than t.
NoLater(s, t) == s.dir = held => s.version <= t.version

\* Around the creation of the output root.
CreateInv ==
  /\ pc \in Rooted \cup Copying \cup Checking =>
       \A f \in Control : /\ atCreate[f].dir = held
                          /\ atCreate[f].version <= disk[held][f]
                          /\ NoLater(snapshot.files[f], atCreate[f])
  /\ pc = "critical" =>
       \A f \in Control : seen[f] # Unread => /\ seen[f].dir = held
                                              /\ NoLater(atCreate[f], seen[f])
  /\ pc \in {"layout"} \cup Copying \cup Checking =>
       \A f \in Control : snapshot.files[f] = atCreate[f]
  /\ PlaintextIsOfConfirmed

\* What was copied is what was noted of each file.
CopyInv ==
  /\ pc \in Before \cup Rooted => copied = Nothing
  /\ pc \in Before \cup Rooted \cup {"control"} => states = Nothing
  /\ pc = "control" => \A f \in Control : copied[f] \in {Unread, snapshot.files[f]}
  /\ pc \in {"control", "survey"} => \A f \in Payload : copied[f] = Unread
  /\ pc \in {"survey", "extract"} \cup Checking =>
       \A f \in Control : copied[f] = snapshot.files[f]
  /\ pc \in Copying \cup Checking =>
       \A f \in Payload : states[f] # Unread => states[f].dir = held
  /\ pc = "extract" => \A f \in Payload : copied[f] \in {Unread, states[f]}
  /\ pc \in {"extract"} \cup Checking => \A f \in Payload : states[f] # Unread
  /\ pc \in Checking => \A f \in Payload : f \in failures \/ copied[f] = states[f]

\* Around the moment when the last file had been copied.
EndInv ==
  /\ pc \in Checking =>
       /\ \A f \in Files : /\ atEnd[f].dir = held
                           /\ atEnd[f].version <= disk[held][f]
       /\ \A f \in Control : snapshot.files[f].version <= atEnd[f].version
       /\ \A f \in Payload : states[f].version <= atEnd[f].version
  /\ pc = "verify_control" =>
       \A f \in Control : seen[f] # Unread => /\ seen[f].dir = held
                                              /\ NoLater(atEnd[f], seen[f])
  /\ pc \in Checking \ {"verify_control"} =>
       /\ \A f \in Control : snapshot.files[f] = atEnd[f]
       /\ Finished(atEnd[Status])
  /\ pc = "verify_payload" =>
       \A f \in Payload : seen[f] # Unread => states[f] = atEnd[f]
  /\ pc \in {"seal_status", "seal_root", "seal"} =>
       \A f \in Payload : f \notin failures /\ states[f] = atEnd[f]
  /\ CompleteIsOneMoment

IInv == TypeOK /\ HeldInv /\ OutputInv /\ BindingInv /\ PastInv /\ CreateInv /\ CopyInv /\ EndInv
-----------------------------------------------------------------------------
\* The types of the variables are kept; a held directory is one from HoldRoot on.
LEMMA TypeStep == TypeOK /\ HeldInv /\ [Next]_vars => TypeOK' /\ HeldInv'
<1> SUFFICES ASSUME TypeOK, HeldInv, [Next]_vars PROVE TypeOK' /\ HeldInv'
  OBVIOUS
<1> USE DEF TypeOK, HeldInv, Claims,
            Held, Rooted, Copying, Checking, source, history, Proceed, Require, Raise
<1>a. Unread \in FileStates /\ Nothing \in [Files -> FileStates] /\ NoSnapshot \in Snapshots
  BY DEF Unread, FileStates, Nothing, NoSnapshot, Snapshots, Files
<1>b. \A d \in Dirs, f \in Files : StateOf(d, f) \in FileStates
  BY DEF StateOf, FileStates
<1>c. Captured \in Snapshots
  BY DEF Captured, Snapshots, Files
<1>1. CASE BeginCapture
  BY <1>1 DEF BeginCapture
<1>2. ASSUME NEW f \in Control, ReadControl(f) PROVE TypeOK' /\ HeldInv'
  <2>1. f \in Files /\ seen' \in [Files -> FileStates]
    BY <1>2, <1>b DEF ReadControl, Files, ByPath, ByDescriptor
  <2> QED BY <1>2, <2>1 DEF ReadControl
<1>3. ASSUME NEW f \in Control, CopyControl(f) PROVE TypeOK' /\ HeldInv'
  <2>1. f \in Files
    BY DEF Files
  <2> QED BY <1>3, <2>1, <1>b DEF CopyControl, Working
<1>4. CASE FirstCapture \/ SecondCapture
  BY <1>4, <1>a, <1>c DEF FirstCapture, SecondCapture, EndCapture, Working, ByPath
<1>5. CASE Inspect \/ Prepared \/ Confirm \/ MatchReceipt \/ HoldRoot
  BY <1>5, <1>a DEF Inspect, Prepared, Confirm, MatchReceipt, HoldRoot, Working, ByPath
<1>6. CASE CurrentCapture \/ CriticalCapture \/ VerifyControl
  BY <1>6, <1>a DEF CurrentCapture, CriticalCapture, VerifyControl, EndCapture, Working
<1>7. CASE BoundBeforeOutput \/ CheckStatus \/ CreateLayout \/ ControlCopied
  BY <1>7 DEF BoundBeforeOutput, RequireBound, CheckStatus, CreateLayout, ControlCopied,
              Working, ByDescriptor
<1>8. CASE CreateRoot
  BY <1>8, <1>b DEF CreateRoot, Working
<1>9. ASSUME NEW f \in Payload, Survey(f) \/ VerifyPayload(f) PROVE TypeOK' /\ HeldInv'
  <2>1. f \in Files
    BY DEF Files
  <2> QED BY <1>9, <2>1, <1>b DEF Survey, VerifyPayload, Working
<1>10. ASSUME NEW f \in Payload, ExtractFile(f) \/ FailFile(f) PROVE TypeOK' /\ HeldInv'
  <2>1. f \in Files
    BY DEF Files
  <2> QED BY <1>10, <2>1 DEF ExtractFile, FailFile
<1>11. CASE Extracted
  BY <1>11, <1>b DEF Extracted, Working, ByDescriptor
<1>12. CASE Surveyed \/ Verified \/ SealStatus \/ SealRoot \/ SealRun \/ Fail
           \/ (\E f \in Files : FailRead(f))
  BY <1>12 DEF Surveyed, Verified, SealStatus, SealRoot, RequireBound, SealRun, Fail, FailRead,
              Working, Claims
<1>13. ASSUME NEW d \in Dirs, NEW f \in Files, Edit(d, f) PROVE TypeOK' /\ HeldInv'
  BY <1>13 DEF Edit, service
<1>14. CASE Swap \/ Ended \/ UNCHANGED vars
  BY <1>14 DEF Swap, Ended, service, vars
<1> QED
  BY <1>1, <1>2, <1>3, <1>4, <1>5, <1>6, <1>7, <1>8, <1>9, <1>10, <1>11, <1>12, <1>13,
     <1>14 DEF Next, Step

LEMMA TypeInit == Init => TypeOK /\ HeldInv
  BY SourceAssumption DEF Init, TypeOK, HeldInv, Held, Rooted, Copying, Checking, Working, Claims,
     ByPath, ByDescriptor, Nothing, NoSnapshot, Snapshots, FileStates, Unread, Dirs

\* The variables hold values of their types in every reachable state.
THEOREM TypeCorrect == Spec => []TypeOK
  BY TypeInit, TypeStep, PTL DEF Spec
-----------------------------------------------------------------------------
\* What the output is, and what an error says of it, follows the program point.
LEMMA OutputStep == TypeOK /\ OutputInv /\ [Next]_vars => OutputInv'
<1> SUFFICES ASSUME TypeOK, OutputInv, [Next]_vars PROVE OutputInv'
  OBVIOUS
<1> USE DEF TypeOK, OutputInv, NothingIsDenied, Before, Rooted, Copying, Checking, source, history,
            Proceed, Require, Raise
<1>1. CASE BeginCapture \/ \E f \in Control : ReadControl(f) \/ CopyControl(f)
  BY <1>1 DEF BeginCapture, ReadControl, CopyControl
<1>2. CASE FirstCapture \/ SecondCapture \/ CurrentCapture \/ CriticalCapture \/ VerifyControl
  BY <1>2 DEF FirstCapture, SecondCapture, CurrentCapture, CriticalCapture, VerifyControl,
              EndCapture
<1>3. CASE Inspect \/ Prepared \/ Confirm \/ MatchReceipt \/ HoldRoot
  BY <1>3 DEF Inspect, Prepared, Confirm, MatchReceipt, HoldRoot
<1>4. CASE BoundBeforeOutput \/ CreateRoot \/ CheckStatus \/ CreateLayout \/ ControlCopied
  BY <1>4 DEF BoundBeforeOutput, RequireBound, CreateRoot, CheckStatus, CreateLayout,
              ControlCopied
<1>5. CASE \E f \in Payload : Survey(f) \/ ExtractFile(f) \/ FailFile(f) \/ VerifyPayload(f)
  BY <1>5 DEF Survey, ExtractFile, FailFile, VerifyPayload
<1>6. CASE Surveyed \/ Extracted \/ Verified \/ SealStatus \/ SealRoot \/ SealRun
  BY <1>6 DEF Surveyed, Extracted, Verified, SealStatus, SealRoot, RequireBound, SealRun
<1>7. CASE Fail \/ (\E f \in Files : FailRead(f))
  BY <1>7 DEF Fail, FailRead, Working, ByPath, ByDescriptor
<1>8. CASE (\E d \in Dirs, f \in Files : Edit(d, f)) \/ Swap \/ Ended \/ UNCHANGED vars
  BY <1>8 DEF Edit, Swap, Ended, service, vars
<1> QED BY <1>1, <1>2, <1>3, <1>4, <1>5, <1>6, <1>7, <1>8 DEF Next, Step

\* The snapshot under work is the confirmed one, of the held directory.
LEMMA BindingStep == TypeOK /\ BindingInv /\ [Next]_vars => BindingInv'
<1> SUFFICES ASSUME TypeOK, BindingInv, [Next]_vars PROVE BindingInv'
  OBVIOUS
<1> USE SourceAssumption DEF TypeOK, BindingInv, Held, Rooted, Copying, Checking, Working,
        ByPath, ByDescriptor, source, history, Proceed, Require, Raise
<1>a. \A f \in Control : f \in Files /\ f \notin Payload /\ Nothing[f] = Unread
  BY DEF Files, Nothing
<1>1. CASE BeginCapture \/ \E f \in Control : ReadControl(f) \/ CopyControl(f)
  BY <1>1 DEF BeginCapture, ReadControl, CopyControl
<1>2. CASE FirstCapture \/ SecondCapture \/ CurrentCapture \/ CriticalCapture \/ VerifyControl
  BY <1>2, <1>a DEF FirstCapture, SecondCapture, CurrentCapture, CriticalCapture,
                    VerifyControl, EndCapture
<1>3. CASE Inspect \/ Prepared \/ Confirm \/ MatchReceipt \/ HoldRoot
  BY <1>3 DEF Inspect, Prepared, Confirm, MatchReceipt, HoldRoot
<1>4. CASE BoundBeforeOutput \/ CreateRoot \/ CheckStatus \/ CreateLayout \/ ControlCopied
  BY <1>4 DEF BoundBeforeOutput, RequireBound, CreateRoot, CheckStatus, CreateLayout,
              ControlCopied
<1>5. CASE \E f \in Payload : Survey(f) \/ ExtractFile(f) \/ FailFile(f) \/ VerifyPayload(f)
  BY <1>5, <1>a DEF Survey, ExtractFile, FailFile, VerifyPayload
<1>6. CASE Surveyed \/ Extracted \/ Verified \/ SealStatus \/ SealRoot \/ SealRun
  BY <1>6 DEF Surveyed, Extracted, Verified, SealStatus, SealRoot, RequireBound, SealRun
<1>7. CASE Fail \/ (\E f \in Files : FailRead(f))
  BY <1>7 DEF Fail, FailRead
<1>8. CASE (\E d \in Dirs, f \in Files : Edit(d, f)) \/ Swap \/ Ended \/ UNCHANGED vars
  BY <1>8 DEF Edit, Swap, Ended, service, vars
<1> QED BY <1>1, <1>2, <1>3, <1>4, <1>5, <1>6, <1>7, <1>8 DEF Next, Step
-----------------------------------------------------------------------------
\* Nothing makes a version smaller.
LEMMA VersionsGrow ==
  TypeOK /\ [Next]_vars =>
    \A d \in Dirs, f \in Files : disk'[d][f] \in Nat /\ disk[d][f] <= disk'[d][f]
<1> DEFINE Grown == \A d \in Dirs, f \in Files :
                      disk'[d][f] \in Nat /\ disk[d][f] <= disk'[d][f]
<1> SUFFICES ASSUME TypeOK, [Next]_vars PROVE Grown
  OBVIOUS
<1>a. \A d \in Dirs, f \in Files : disk[d][f] \in Nat
  BY DEF TypeOK
<1>1. CASE UNCHANGED disk
  BY <1>1, <1>a
<1>2. ASSUME NEW d \in Dirs, NEW f \in Files, Edit(d, f)
      PROVE Grown
  BY <1>2, <1>a DEF Edit, TypeOK
<1>3. CASE Step
  <2>1. UNCHANGED source
    BY <1>3 DEF Step, BeginCapture, ReadControl, CopyControl, FirstCapture, Inspect,
       SecondCapture, Prepared, Confirm, MatchReceipt, HoldRoot, CurrentCapture,
       BoundBeforeOutput, CreateRoot, CheckStatus, CriticalCapture, CreateLayout,
       ControlCopied, Survey, ExtractFile, FailFile, VerifyPayload, Surveyed, Extracted,
       VerifyControl, Verified, SealStatus, SealRoot, RequireBound, SealRun, Fail, FailRead
  <2> QED BY <2>1, <1>1 DEF source
<1>4. CASE Swap \/ Ended \/ UNCHANGED vars
  BY <1>4, <1>1 DEF Swap, Ended, vars, source
<1> QED BY <1>2, <1>3, <1>4 DEF Next

\* A state that is not newer than the disk stays so.
LEMMA PastStays ==
  ASSUME TypeOK, [Next]_vars, NEW f \in Files, NEW s \in FileStates, Past(s, f)
  PROVE  s # Unread => s.version <= disk'[s.dir][f]
<1> SUFFICES ASSUME s # Unread PROVE s.version <= disk'[s.dir][f]
  OBVIOUS
<1>1. s.dir \in Dirs /\ s.version \in Nat
  BY DEF FileStates
<1>2. disk[s.dir][f] <= disk'[s.dir][f] /\ s.version <= disk[s.dir][f]
  BY <1>1, VersionsGrow DEF Past
<1>3. disk[s.dir][f] \in Nat
  BY <1>1 DEF TypeOK
<1>4. disk'[s.dir][f] \in Nat
  BY <1>1, VersionsGrow
<1> QED BY <1>1, <1>2, <1>3, <1>4

\* What a capture reads, what a survey notes and what a preflight prepared are states
\* the disk has had.
LEMMA PastStep == TypeOK /\ HeldInv /\ PastInv /\ [Next]_vars => PastInv'
<1> SUFFICES ASSUME TypeOK, HeldInv, PastInv, [Next]_vars PROVE PastInv'
  OBVIOUS
<1> USE DEF TypeOK, source, history, Proceed, Require, Raise
<1>a. \A f \in Control : f \in Files /\ seen[f] \in FileStates /\ Nothing[f] = Unread
  BY DEF Files, Nothing
<1>b. \A f \in Files : seen[f] \in FileStates /\ states[f] \in FileStates /\ Nothing[f] = Unread
  BY DEF Nothing
<1>c. \A f \in Control : snapshot.files[f] \in FileStates /\ NoSnapshot.files[f] = Unread
  BY DEF Snapshots, NoSnapshot
<1>d. \A d \in Dirs, f \in Files : Past(StateOf(d, f), f)
  BY DEF Past, StateOf
<1>1. CASE UNCHANGED <<seen, states, snapshot>>
  BY <1>1, <1>a, <1>b, <1>c, PastStays DEF PastInv, Past
<1>2. ASSUME NEW f \in Control, ReadControl(f) PROVE PastInv'
  <2>1. PICK d \in Dirs : seen' = [seen EXCEPT ![f] = StateOf(d, f)]
    BY <1>2 DEF ReadControl, HeldInv, Held, Rooted, Checking, ByPath, ByDescriptor
  <2> QED BY <1>2, <2>1, <1>a, <1>b, <1>d DEF ReadControl, PastInv, Past
<1>3. CASE FirstCapture \/ SecondCapture \/ CurrentCapture \/ CriticalCapture \/ VerifyControl
  <2>1. disk' = disk /\ states' = states /\ seen' = Nothing /\ snapshot' \in {snapshot, Captured}
    BY <1>3 DEF FirstCapture, SecondCapture, CurrentCapture, CriticalCapture, VerifyControl,
                EndCapture
  <2>2. \A f \in Control : Captured.files[f] = seen[f]
    BY DEF Captured
  <2> QED BY <2>1, <2>2, <1>a, <1>b DEF PastInv, Past
<1>4. CASE Confirm
  BY <1>4, <1>c DEF Confirm, PastInv, Past
<1>5. ASSUME NEW f \in Payload, Survey(f) \/ VerifyPayload(f) PROVE PastInv'
  <2>1. f \in Files /\ held \in Dirs
    BY <1>5 DEF Files, Survey, VerifyPayload, HeldInv, Held, Copying, Checking
  <2> QED BY <1>5, <2>1, <1>b, <1>d DEF Survey, VerifyPayload, PastInv, Past
<1>6. CASE UNCHANGED vars \/ Ended \/ Swap \/ \E d \in Dirs, f \in Files : Edit(d, f)
  BY <1>6, <1>1 DEF vars, Ended, Swap, Edit, service
<1>7. CASE BeginCapture \/ \E f \in Control : CopyControl(f)
  BY <1>7, <1>1 DEF BeginCapture, CopyControl
<1>8. CASE Inspect \/ Prepared \/ MatchReceipt \/ HoldRoot \/ BoundBeforeOutput \/ CreateRoot
           \/ CheckStatus \/ CreateLayout \/ ControlCopied
  BY <1>8, <1>1 DEF Inspect, Prepared, MatchReceipt, HoldRoot, BoundBeforeOutput, RequireBound,
     CreateRoot, CheckStatus, CreateLayout, ControlCopied
<1>9. CASE Surveyed \/ Extracted \/ Verified \/ SealStatus \/ SealRoot \/ SealRun \/ Fail
           \/ (\E f \in Files : FailRead(f)) \/ \E f \in Payload : ExtractFile(f) \/ FailFile(f)
  BY <1>9, <1>1 DEF Surveyed, Extracted, Verified, SealStatus, SealRoot, RequireBound, SealRun,
     Fail, FailRead, ExtractFile, FailFile
<1> QED BY <1>2, <1>3, <1>4, <1>5, <1>6, <1>7, <1>8, <1>9 DEF Next, Step

\* The control files compared on both sides of the creation of the output root were
\* those in between.
LEMMA CreateStep ==
  TypeOK /\ HeldInv /\ OutputInv /\ BindingInv /\ PastInv /\ CreateInv /\ [Next]_vars
    => CreateInv'
<1> SUFFICES ASSUME TypeOK, HeldInv, OutputInv, BindingInv, PastInv, CreateInv, [Next]_vars
             PROVE CreateInv'
  OBVIOUS
<1> USE DEF TypeOK, Rooted, Copying, Checking, source, history, Proceed, Require, Raise
<1>a. \A f \in Control : /\ f \in Files
                         /\ seen[f] \in FileStates /\ snapshot.files[f] \in FileStates
                         /\ atCreate[f] \in FileStates
  BY DEF Files, Snapshots
<1>b. pc \in Rooted \cup Copying \cup Checking \cup {"create"} => held \in Dirs
  BY DEF HeldInv, Held
<1>c. \A d \in Dirs, f \in Control : /\ disk[d][f] \in Nat /\ disk'[d][f] \in Nat
                                     /\ disk[d][f] <= disk'[d][f]
  BY <1>a, VersionsGrow
<1>d. \A s \in FileStates : s.version \in Nat
  BY DEF FileStates, Unread
<1>1. ASSUME pc' \in {pc, "stopped"}, UNCHANGED <<snapshot, held, atCreate, seen, receipt, output>>
      PROVE CreateInv'
  BY <1>1, <1>a, <1>b, <1>c, <1>d DEF CreateInv, NoLater, PlaintextIsOfConfirmed
<1>2. ASSUME pc' \notin Rooted \cup Copying \cup Checking, output = "none", output' = "none"
      PROVE CreateInv'
  BY <1>2 DEF CreateInv, PlaintextIsOfConfirmed
<1>3. CASE BeginCapture \/ Fail \/ (\E f \in Files : FailRead(f))
  BY <1>3, <1>1 DEF BeginCapture, Fail, FailRead
<1>4. ASSUME NEW f \in Control, ReadControl(f) PROVE CreateInv'
  BY <1>4, <1>a, <1>b, <1>c, <1>d DEF ReadControl, CreateInv, NoLater, PlaintextIsOfConfirmed,
     StateOf, ByPath
<1>5. CASE FirstCapture \/ SecondCapture \/ CurrentCapture
  BY <1>5, <1>2 DEF FirstCapture, SecondCapture, CurrentCapture, EndCapture, OutputInv, Before
<1>6. CASE Inspect \/ Prepared \/ Confirm \/ MatchReceipt \/ HoldRoot \/ BoundBeforeOutput
  BY <1>6, <1>2 DEF Inspect, Prepared, Confirm, MatchReceipt, HoldRoot, BoundBeforeOutput,
     RequireBound, OutputInv, Before
<1>7. CASE CreateRoot
  <2>1. snapshot.root = held /\ receipt = snapshot
    BY <1>7 DEF CreateRoot, BindingInv, Held
  <2>2. \A f \in Control : /\ atCreate'[f].dir = held /\ atCreate'[f].version = disk[held][f]
                           /\ snapshot.files[f].dir = held =>
                                snapshot.files[f].version <= disk[held][f]
    BY <1>7, <1>a, <1>b DEF CreateRoot, StateOf, PastInv, Past, Unread, Dirs
  <2> QED BY <1>7, <2>2, <1>a, <1>b, <1>c DEF CreateRoot, CreateInv, NoLater, PlaintextIsOfConfirmed
<1>8. CASE CheckStatus
  <2>1. pc' = "critical" => seen = Nothing
    BY <1>8 DEF CheckStatus, BindingInv, Working, ByPath, ByDescriptor
  <2>2. \A f \in Control : Nothing[f] = Unread
    BY <1>a DEF Nothing
  <2> QED BY <1>8, <2>1, <2>2, <1>a DEF CheckStatus, CreateInv, NoLater, PlaintextIsOfConfirmed
<1>9. CASE CriticalCapture
  <2>1. CASE pc' = "layout"
    <3>1. /\ snapshot.root = held /\ receipt = snapshot
          /\ \A f \in Control : snapshot.files[f] = seen[f] /\ seen[f] # Unread
      BY <1>9, <2>1 DEF CriticalCapture, EndCapture, Captured, BindingInv, Held
    <3>2. ASSUME NEW f \in Control PROVE snapshot.files[f] = atCreate[f]
      <4>1. snapshot.files[f].dir = held /\ atCreate[f].dir = held /\ held \in Dirs
        BY <3>1, <1>9, <1>b DEF CriticalCapture, EndCapture, CreateInv
      <4>2. snapshot.files[f].version = atCreate[f].version
        <5>1. /\ atCreate[f].version \in Nat /\ snapshot.files[f].version \in Nat
              /\ NoLater(snapshot.files[f], atCreate[f]) /\ NoLater(atCreate[f], snapshot.files[f])
          BY <3>1, <1>9, <1>a, <1>d DEF CriticalCapture, EndCapture, CreateInv
        <5> HIDE DEF TypeOK
        <5> QED BY <4>1, <5>1 DEF NoLater
      <4> QED BY <4>1, <4>2, <1>a DEF FileStates, Unread, Dirs
    <3> QED BY <1>9, <2>1, <3>1, <3>2, <1>a
            DEF CriticalCapture, EndCapture, CreateInv, NoLater, PlaintextIsOfConfirmed
  <2>2. CASE pc' = "stopped"
    BY <1>9, <2>2 DEF CriticalCapture, EndCapture, CreateInv, PlaintextIsOfConfirmed
  <2> QED BY <1>9, <2>1, <2>2 DEF CriticalCapture
<1>10. CASE CreateLayout
  <2>1. snapshot.root = held /\ receipt = snapshot
    BY <1>10 DEF CreateLayout, BindingInv, Held
  <2>2. snapshot = [root |-> snapshot.root, files |-> [f \in Control |-> snapshot.files[f]]]
    BY DEF Snapshots
  <2>3. snapshot = [root |-> held, files |-> [f \in Control |-> atCreate[f]]]
    BY <1>10, <2>1, <2>2 DEF CreateLayout, CreateInv
  <2> QED BY <1>10, <2>1, <2>3, <1>a DEF CreateLayout, CreateInv, NoLater, PlaintextIsOfConfirmed
<1>11. CASE \E f \in Control : CopyControl(f)
  BY <1>11, <1>1 DEF CopyControl
<1>12. CASE ControlCopied \/ Surveyed \/ Extracted
  BY <1>12, <1>a DEF ControlCopied, Surveyed, Extracted, CreateInv, NoLater, PlaintextIsOfConfirmed
<1>13. CASE \E f \in Payload : Survey(f) \/ ExtractFile(f) \/ FailFile(f)
  BY <1>13, <1>1 DEF Survey, ExtractFile, FailFile
<1>14. CASE VerifyControl \/ \E f \in Payload : VerifyPayload(f)
  BY <1>14, <1>a DEF VerifyControl, EndCapture, VerifyPayload, CreateInv, NoLater,
     PlaintextIsOfConfirmed
<1>15. CASE Verified \/ SealStatus \/ SealRoot
  BY <1>15, <1>a DEF Verified, SealStatus, SealRoot, RequireBound, CreateInv, NoLater,
     PlaintextIsOfConfirmed
<1>16. CASE SealRun
  BY <1>16, <1>a DEF SealRun, CreateInv, OutputInv, PlaintextIsOfConfirmed
<1>17. CASE (\E d \in Dirs, f \in Files : Edit(d, f)) \/ Swap \/ Ended \/ UNCHANGED vars
  BY <1>17, <1>1 DEF Edit, Swap, Ended, service, vars
<1> QED BY <1>3, <1>4, <1>5, <1>6, <1>7, <1>8, <1>9, <1>10, <1>11, <1>12, <1>13, <1>14, <1>15,
           <1>16, <1>17 DEF Next, Step

\* What is copied is what the snapshot or the survey says of the file.
LEMMA CopyStep ==
  TypeOK /\ HeldInv /\ CreateInv /\ CopyInv /\ [Next]_vars => CopyInv'
<1> SUFFICES ASSUME TypeOK, HeldInv, CreateInv, CopyInv, [Next]_vars PROVE CopyInv'
  OBVIOUS
<1> USE SourceAssumption DEF TypeOK, Before, Rooted, Copying, Checking, source, history, Proceed,
        Require, Raise
<1>a. \A f \in Control \cup Payload : f \in Files /\ Nothing[f] = Unread
  BY DEF Files, Nothing
<1>1. ASSUME pc' \in {pc, "stopped"}, UNCHANGED <<snapshot, held, states, copied, failures>>
      PROVE CopyInv'
  BY <1>1 DEF CopyInv
<1>2. ASSUME pc \in Before, pc' \in Before \cup Rooted \cup {"stopped"}, UNCHANGED <<states, copied>>
      PROVE CopyInv'
  BY <1>2 DEF CopyInv
<1>3. CASE BeginCapture \/ Fail \/ (\E f \in Files : FailRead(f)) \/ \E f \in Control : ReadControl(f)
  BY <1>3, <1>1 DEF BeginCapture, Fail, FailRead, ReadControl
<1>4. CASE FirstCapture \/ SecondCapture \/ CurrentCapture \/ CreateRoot
  BY <1>4, <1>2 DEF FirstCapture, SecondCapture, CurrentCapture, EndCapture, CreateRoot
<1>5. CASE Inspect \/ Prepared \/ Confirm \/ MatchReceipt \/ HoldRoot \/ BoundBeforeOutput
  BY <1>5, <1>2 DEF Inspect, Prepared, Confirm, MatchReceipt, HoldRoot, BoundBeforeOutput,
     RequireBound
<1>6. CASE CheckStatus \/ CriticalCapture \/ CreateLayout
  BY <1>6, <1>a DEF CheckStatus, CriticalCapture, EndCapture, CreateLayout, CopyInv
<1>7. ASSUME NEW f \in Control, CopyControl(f) PROVE CopyInv'
  <2>1. CASE pc' = "control"
    <3>1. StateOf(held, f) = snapshot.files[f] /\ f \in Files /\ f \notin Payload
      BY <1>7, <2>1, <1>a DEF CopyControl
    <3> QED BY <1>7, <2>1, <3>1, <1>a DEF CopyControl, CopyInv
  <2>2. CASE pc' = "stopped"
    BY <2>2 DEF CopyInv
  <2> QED BY <1>7, <2>1, <2>2 DEF CopyControl
<1>8. CASE ControlCopied
  BY <1>8 DEF ControlCopied, CopyInv
<1>9. ASSUME NEW f \in Payload, Survey(f) PROVE CopyInv'
  <2>1. f \in Files /\ StateOf(held, f).dir = held
    BY <1>a DEF StateOf
  <2> QED BY <1>9, <2>1, <1>a DEF Survey, CopyInv
<1>10. CASE Surveyed
  BY <1>10 DEF Surveyed, CopyInv
<1>11. ASSUME NEW f \in Payload, ExtractFile(f) \/ FailFile(f) PROVE CopyInv'
  <2>1. f \in Files /\ f \notin Control
    BY <1>a
  <2> QED BY <1>11, <2>1, <1>a DEF ExtractFile, FailFile, CopyInv
<1>12. CASE Extracted
  BY <1>12 DEF Extracted, CopyInv
<1>13. CASE VerifyControl \/ Verified \/ SealStatus \/ SealRoot \/ SealRun
  BY <1>13 DEF VerifyControl, EndCapture, Verified, SealStatus, SealRoot, RequireBound, SealRun,
     CopyInv
<1>14. CASE \E f \in Payload : VerifyPayload(f)
  BY <1>14, <1>1 DEF VerifyPayload
<1>15. CASE (\E d \in Dirs, f \in Files : Edit(d, f)) \/ Swap \/ Ended \/ UNCHANGED vars
  BY <1>15, <1>1 DEF Edit, Swap, Ended, service, vars
<1> QED BY <1>3, <1>4, <1>5, <1>6, <1>7, <1>8, <1>9, <1>10, <1>11, <1>12, <1>13, <1>14, <1>15
        DEF Next, Step

\* The files compared on both sides of the moment when the last was copied were those
\* of that moment.
LEMMA EndStep == IInv /\ [Next]_vars => EndInv'
<1> SUFFICES ASSUME IInv, [Next]_vars PROVE EndInv'
  OBVIOUS
<1> USE SourceAssumption DEF IInv, TypeOK, Rooted, Copying, Checking, source, history, Proceed,
        Require, Raise
<1>a. \A f \in Files : /\ seen[f] \in FileStates /\ states[f] \in FileStates
                       /\ atEnd[f] \in FileStates
  OBVIOUS
<1>b. \A f \in Control : f \in Files /\ f \notin Payload /\ snapshot.files[f] \in FileStates
  BY DEF Files, Snapshots
<1>c. \A f \in Payload : f \in Files /\ f \notin Control
  BY DEF Files
<1>d. pc \in Copying \cup Checking => held \in Dirs
  BY DEF HeldInv, Held
<1>e. \A d \in Dirs, f \in Files : /\ disk[d][f] \in Nat /\ disk'[d][f] \in Nat
                                   /\ disk[d][f] <= disk'[d][f]
  BY VersionsGrow
<1>f. \A s \in FileStates : s.version \in Nat
  BY DEF FileStates, Unread
<1>g. pc # "seal" => output # "complete" \/ pc \in {"done", "stopped"}
  BY DEF OutputInv, Before, Working, ByPath, ByDescriptor
<1>1. ASSUME pc' \in {pc, "stopped"},
             UNCHANGED <<snapshot, held, states, atEnd, seen, copied, failures, output>>
      PROVE EndInv'
  BY <1>1, <1>a, <1>b, <1>c, <1>d, <1>e, <1>f DEF EndInv, NoLater, CompleteIsOneMoment
<1>2. ASSUME pc' \notin Checking, output' # "complete"
      PROVE EndInv'
  BY <1>2 DEF EndInv, CompleteIsOneMoment
<1>3. CASE BeginCapture \/ Fail \/ (\E f \in Files : FailRead(f))
  BY <1>3, <1>1 DEF BeginCapture, Fail, FailRead
<1>4. ASSUME NEW f \in Control, ReadControl(f) PROVE EndInv'
  BY <1>4, <1>2, <1>a, <1>b, <1>d, <1>e, <1>f, <1>g
     DEF ReadControl, EndInv, NoLater, StateOf, ByPath, ByDescriptor, CompleteIsOneMoment
<1>5. CASE FirstCapture \/ SecondCapture \/ CurrentCapture \/ CriticalCapture
  BY <1>5, <1>2, <1>g DEF FirstCapture, SecondCapture, CurrentCapture, CriticalCapture, EndCapture,
     CompleteIsOneMoment
<1>6. CASE Inspect \/ Prepared \/ Confirm \/ MatchReceipt \/ HoldRoot \/ BoundBeforeOutput
           \/ CreateRoot \/ CheckStatus \/ CreateLayout \/ ControlCopied \/ Surveyed
  BY <1>6, <1>2, <1>g DEF Inspect, Prepared, Confirm, MatchReceipt, HoldRoot, BoundBeforeOutput,
     RequireBound, CreateRoot, CheckStatus, CreateLayout, ControlCopied, Surveyed
<1>7. CASE \E f \in Control : CopyControl(f)
  BY <1>7, <1>2, <1>g DEF CopyControl
<1>8. CASE \E f \in Payload : Survey(f) \/ ExtractFile(f) \/ FailFile(f)
  BY <1>8, <1>2, <1>g DEF Survey, ExtractFile, FailFile
<1>9. CASE Extracted
  <2>1. \A f \in Files : atEnd'[f].dir = held /\ atEnd'[f].version = disk[held][f]
    BY <1>9 DEF Extracted, StateOf
  <2>2. \A f \in Control : snapshot.files[f].dir = held /\ snapshot.files[f] # Unread
    BY <1>9, <1>d DEF Extracted, CreateInv, Unread, Dirs
  <2>3. \A f \in Payload : states[f] # Unread /\ states[f].dir = held
    BY <1>9 DEF Extracted, CopyInv
  <2>4. /\ \A f \in Control : snapshot.files[f].version <= disk[held][f]
        /\ \A f \in Payload : states[f].version <= disk[held][f]
    BY <2>2, <2>3, <1>c DEF PastInv, Past
  <2>5. \A f \in Control : seen[f] = Unread
    BY <1>9, <1>b DEF Extracted, BindingInv, Working, ByPath, ByDescriptor, Nothing
  <2>6. /\ pc' = "verify_control" /\ output' # "complete"
        /\ UNCHANGED <<disk, held, states, snapshot, seen>>
    BY <1>9, <1>g DEF Extracted
  <2>7. \A f \in Files : atEnd'[f].version <= disk'[held'][f]
    BY <2>1, <2>6, <1>9, <1>d, <1>e DEF Extracted
  <2> HIDE DEF IInv, TypeOK
  <2> QED BY <1>b, <1>c, <2>1, <2>4, <2>5, <2>6, <2>7 DEF EndInv, CompleteIsOneMoment
<1>10. CASE VerifyControl
  <2>1. CASE pc' = "verify_payload"
    <3>1. \A f \in Control : snapshot.files[f] = seen[f] /\ seen[f] # Unread
      BY <1>10, <2>1 DEF VerifyControl, EndCapture, Captured
    <3>2. ASSUME NEW f \in Control PROVE snapshot.files[f] = atEnd[f]
      <4>1. seen[f].dir = held /\ atEnd[f].dir = held /\ held \in Dirs
        BY <3>1, <1>10, <1>b, <1>d DEF VerifyControl, EndCapture, EndInv
      <4>2. snapshot.files[f].version = atEnd[f].version
        <5>1. /\ atEnd[f].version \in Nat /\ snapshot.files[f].version \in Nat
              /\ snapshot.files[f].version <= atEnd[f].version
              /\ NoLater(atEnd[f], snapshot.files[f])
          BY <3>1, <1>10, <1>a, <1>b, <1>f DEF VerifyControl, EndCapture, EndInv
        <5> HIDE DEF IInv, TypeOK
        <5> QED BY <4>1, <5>1 DEF NoLater
      <4> QED BY <3>1, <4>1, <4>2, <1>a, <1>b DEF FileStates, Unread, Dirs
    <3>3. Finished(atEnd[Status])
      BY <3>1, <3>2, <1>10 DEF VerifyControl, EndCapture, ByDescriptor
    <3>4. \A f \in Payload : seen'[f] = Unread
      BY <1>10, <1>c DEF VerifyControl, EndCapture, Nothing
    <3>5. Finished(atEnd[Status])'
      BY <1>10, <3>3 DEF VerifyControl, Finished
    <3> QED BY <1>10, <2>1, <3>2, <3>4, <3>5, <1>g
            DEF VerifyControl, EndCapture, EndInv, CompleteIsOneMoment
  <2>2. CASE pc' = "stopped"
    BY <1>10, <2>2, <1>2, <1>g DEF VerifyControl, EndCapture
  <2> QED BY <1>10, <2>1, <2>2 DEF VerifyControl
<1>11. ASSUME NEW f \in Payload, VerifyPayload(f) PROVE EndInv'
  <2>1. CASE pc' = "verify_payload"
    <3>1. StateOf(held, f) = states[f] /\ states[f] = [dir |-> held, version |-> disk[held][f]]
      BY <1>11, <2>1 DEF VerifyPayload, StateOf
    <3>2. /\ atEnd[f].dir = held /\ held \in Dirs
          /\ atEnd[f].version <= states[f].version /\ states[f].version <= atEnd[f].version
      BY <1>11, <1>c, <1>d, <3>1 DEF VerifyPayload, EndInv
    <3>3. states[f] = atEnd[f]
      <4>1. states[f] \in FileStates /\ atEnd[f] \in FileStates
        BY <1>a, <1>c
      <4>2. states[f].version = atEnd[f].version
        <5>1. states[f].version \in Nat /\ atEnd[f].version \in Nat
          BY <4>1, <1>f
        <5> HIDE DEF IInv, TypeOK
        <5> QED BY <3>2, <5>1
      <4>3. states[f].dir = atEnd[f].dir
        BY <3>1, <3>2
      <4> QED BY <3>2, <4>1, <4>2, <4>3 DEF FileStates, Unread, Dirs
    <3> QED BY <1>11, <2>1, <3>3, <1>b, <1>c, <1>g DEF VerifyPayload, EndInv, CompleteIsOneMoment, Finished
  <2>2. CASE pc' = "stopped"
    BY <1>11, <2>2, <1>2, <1>g DEF VerifyPayload
  <2> QED BY <1>11, <2>1, <2>2 DEF VerifyPayload
<1>12. CASE Verified \/ SealStatus \/ SealRoot
  BY <1>12, <1>g DEF Verified, SealStatus, SealRoot, RequireBound, EndInv, CompleteIsOneMoment, Finished
<1>13. CASE SealRun
  <2>1. \A f \in Files : copied[f] = atEnd[f]
    BY <1>13 DEF SealRun, CopyInv, EndInv, Files
  <2>2. copied = atEnd
    BY <2>1
  <2>3. Finished(atEnd[Status])'
    BY <1>13 DEF SealRun, EndInv, Finished
  <2> QED BY <1>13, <2>2, <2>3 DEF SealRun, EndInv, CompleteIsOneMoment
<1>14. CASE (\E d \in Dirs, f \in Files : Edit(d, f)) \/ Swap \/ Ended \/ UNCHANGED vars
  BY <1>14, <1>1 DEF Edit, Swap, Ended, service, vars
<1> QED BY <1>3, <1>4, <1>5, <1>6, <1>7, <1>8, <1>9, <1>10, <1>11, <1>12, <1>13, <1>14
        DEF Next, Step
-----------------------------------------------------------------------------
LEMMA InitIInv == Init => IInv
<1> SUFFICES ASSUME Init PROVE IInv
  OBVIOUS
<1>1. TypeOK /\ HeldInv
  BY TypeInit
<1>2. OutputInv /\ BindingInv
  BY DEF Init, OutputInv, NothingIsDenied, BindingInv, Before, Held, Rooted, Copying, Checking
<1>3. PastInv
  BY <1>1 DEF Init, PastInv, Past, NoSnapshot, Nothing, Files
<1>4. CreateInv /\ CopyInv /\ EndInv
  BY DEF Init, CreateInv, CopyInv, EndInv, PlaintextIsOfConfirmed, CompleteIsOneMoment, Rooted,
     Copying, Checking
<1> QED BY <1>1, <1>2, <1>3, <1>4 DEF IInv

\* The inductive invariant holds in every reachable state.
THEOREM Invariance == Spec => []IInv
<1>1. IInv /\ [Next]_vars => IInv'
  BY TypeStep, OutputStep, BindingStep, PastStep, CreateStep, CopyStep, EndStep DEF IInv
<1> QED BY InitIInv, <1>1, PTL DEF Spec

\* A complete extraction is one moment of the held backup, for any files and however
\* often they are edited or the directory is renamed (_extract_backup's surveys).
THEOREM CompleteIsOneMomentHolds == Spec => []CompleteIsOneMoment
<1>1. IInv => CompleteIsOneMoment
  BY DEF IInv, EndInv
<1> QED BY <1>1, Invariance, PTL

\* Plaintext is only written for the backup whose receipt was confirmed
\* (_run_with_preflight_binding and the critical snapshot of _extract_backup).
THEOREM PlaintextIsOfConfirmedHolds == Spec => []PlaintextIsOfConfirmed
<1>1. IInv => PlaintextIsOfConfirmed
  BY DEF IInv, CreateInv
<1> QED BY <1>1, Invariance, PTL

\* No error of service.py and extract.py denies an output, or plaintext, that is there, nor
\* calls a complete output incomplete; those that compare files are right about it.
THEOREM NothingIsDeniedHolds == Spec => []NothingIsDenied
<1>1. IInv => NothingIsDenied
  BY DEF IInv, OutputInv
<1> QED BY <1>1, Invariance, PTL
-----------------------------------------------------------------------------
(***************************************************************************)
(* A backup nothing touches: every reading sees the same state of a file.  *)
(***************************************************************************)
AsFound == [dir |-> "chosen", version |-> 0]
WholeAsFound == [root |-> "chosen", files |-> [f \in Control |-> AsFound]]

UntouchedInv ==
  edits = 0 /\ swaps = 0 =>
    /\ visible = "chosen"
    /\ \A f \in Files : disk["chosen"][f] = 0
    /\ root \in {"none", "chosen"}
    /\ \A f \in Files : seen[f] \in {Unread, AsFound} /\ states[f] \in {Unread, AsFound}
    /\ pc \in Working \ {"capture"} => snapshot = WholeAsFound
    /\ pc = "match" => process = "recover"
    /\ pc \in Working /\ process = "recover" => receipt = WholeAsFound
    /\ claim \in {"none", "unread"} \/ failures # {}

\* Without an edit or a rename the comparisons of both processes compare equal states.
LEMMA UntouchedStep == IInv /\ UntouchedInv /\ [Next]_vars => UntouchedInv'
<1> SUFFICES ASSUME IInv, UntouchedInv, [Next]_vars, edits' = 0 /\ swaps' = 0 PROVE UntouchedInv'
  BY DEF UntouchedInv
<1> USE SourceAssumption DEF source, history, Proceed, Require, Raise
<1>t. TypeOK
  BY DEF IInv
<1>0. edits = 0 /\ swaps = 0
  <2>1. CASE Step
    <3>1. UNCHANGED source
      BY <2>1 DEF Step, BeginCapture, ReadControl, CopyControl, FirstCapture, Inspect,
         SecondCapture, Prepared, Confirm, MatchReceipt, HoldRoot, CurrentCapture,
         BoundBeforeOutput, CreateRoot, CheckStatus, CriticalCapture, CreateLayout,
         ControlCopied, Survey, ExtractFile, FailFile, VerifyPayload, Surveyed, Extracted,
         VerifyControl, Verified, SealStatus, SealRoot, RequireBound, SealRun, Fail, FailRead
    <3> QED BY <3>1
  <2>2. edits \in Nat /\ swaps \in Nat
    BY <1>t DEF TypeOK
  <2> QED BY <2>1, <2>2 DEF Next, Edit, Swap, Ended, vars
<1> USE <1>0
<1>a. \A f \in Control \cup Payload : f \in Files /\ Nothing[f] = Unread
  BY DEF Files, Nothing
<1>b. pc \in Held => held = "chosen"
  BY DEF IInv, BindingInv, UntouchedInv, WholeAsFound, Held, Rooted, Copying, Checking, Working,
     ByPath, ByDescriptor
<1>c. \A f \in Files : StateOf("chosen", f) = AsFound
  BY DEF UntouchedInv, StateOf, AsFound
<1>d. pc \in {"confirm"} => receipt = WholeAsFound
  BY DEF IInv, BindingInv, UntouchedInv, Working
<1>e. claim = "none" \/ pc = "stopped"
  BY DEF IInv, OutputInv
<1>f. AsFound # Unread
  BY DEF AsFound, Unread
<1>1. ASSUME NEW here, EndCapture(here) PROVE Captured = WholeAsFound
  <2>1. \A f \in Control : seen[f] = AsFound
    BY <1>1, <1>a DEF EndCapture, UntouchedInv
  <2>2. root = "chosen"
    BY <1>1 DEF EndCapture, UntouchedInv
  <2> QED BY <2>1, <2>2 DEF Captured, WholeAsFound
<1>2. ASSUME UNCHANGED <<disk, visible, seen, states, snapshot, receipt, process, claim, failures>>,
             pc' \in {pc, "stopped", "done"}, root' \in {root, "chosen"}
      PROVE UntouchedInv'
  BY <1>2 DEF UntouchedInv, Working, ByPath, ByDescriptor
<1>3. ASSUME UNCHANGED <<disk, visible, root, snapshot, receipt, process, claim>>,
             pc \in Working \ {"capture"}, pc' # "match",
             \A f \in Files : seen'[f] \in {seen[f], Unread, AsFound},
             \A f \in Files : states'[f] \in {states[f], Unread, AsFound}
      PROVE UntouchedInv'
  BY <1>3, <1>e DEF UntouchedInv, Working, ByPath, ByDescriptor
<1>4. CASE BeginCapture
  BY <1>4, <1>2 DEF BeginCapture, UntouchedInv
<1>5. ASSUME NEW f \in Control, ReadControl(f) PROVE UntouchedInv'
  <2>1. seen' = [seen EXCEPT ![f] = AsFound]
    BY <1>5, <1>a, <1>b, <1>c DEF ReadControl, UntouchedInv, Held, Rooted, Checking, ByPath, ByDescriptor
  <2> QED BY <1>5, <2>1, <1>e, <1>t DEF ReadControl, UntouchedInv, TypeOK
<1>6. ASSUME NEW f \in Control, CopyControl(f) PROVE UntouchedInv'
  <2>1. snapshot.files[f] = AsFound /\ StateOf(held, f) = AsFound
    BY <1>6, <1>a, <1>b, <1>c DEF CopyControl, UntouchedInv, WholeAsFound, Held, Copying, Working
  <2> QED BY <1>6, <2>1, <1>3 DEF CopyControl, Working
<1>7. CASE FirstCapture
  <2>1. snapshot' = WholeAsFound
    BY <1>7, <1>1 DEF FirstCapture
  <2> QED BY <1>7, <2>1, <1>a, <1>e DEF FirstCapture, EndCapture, UntouchedInv, Nothing, Working, ByPath
<1>8. CASE SecondCapture \/ CurrentCapture \/ CriticalCapture \/ VerifyControl
  <2>1. Captured = snapshot
    BY <1>8, <1>1 DEF SecondCapture, CurrentCapture, CriticalCapture, VerifyControl, EndCapture,
       UntouchedInv, Working, ByPath, ByDescriptor
  <2>2. /\ pc' \in {"prepared", "bound", "layout", "verify_payload"} /\ pc \in Working \ {"capture"}
        /\ root' = "none" /\ seen' = Nothing
        /\ UNCHANGED <<disk, visible, states, snapshot, receipt, process, claim, failures>>
    BY <1>8, <2>1 DEF SecondCapture, CurrentCapture, CriticalCapture, VerifyControl, EndCapture,
       Working, ByPath, ByDescriptor
  <2> QED BY <2>2, <1>e DEF UntouchedInv, Nothing, Working, ByPath, ByDescriptor
<1>9. CASE Prepared \/ Confirm
  <2>1. pc \in Working \ {"capture"} /\ claim = "none" /\ snapshot = WholeAsFound
    BY <1>9, <1>e DEF Prepared, Confirm, Working, UntouchedInv
  <2>2. CASE Prepared
    <3>1. process \in {"preflight", "recover"}
      BY <1>t DEF TypeOK
    <3> QED BY <2>1, <2>2, <3>1 DEF Prepared, UntouchedInv, Working
  <2>3. CASE Confirm
    BY <2>1, <2>3, <1>d DEF Confirm, UntouchedInv, Working, ByPath
  <2> QED BY <1>9, <2>2, <2>3
<1>10. CASE MatchReceipt
  <2>1. receipt = snapshot
    BY <1>10 DEF MatchReceipt, UntouchedInv, Working
  <2> QED BY <1>10, <2>1, <1>3 DEF MatchReceipt, Working
<1>11. CASE Inspect \/ HoldRoot \/ BoundBeforeOutput \/ CreateRoot \/ CreateLayout \/ ControlCopied
  BY <1>11, <1>3 DEF Inspect, HoldRoot, BoundBeforeOutput, RequireBound, CreateRoot, CreateLayout,
     ControlCopied, Working
<1>12. CASE CheckStatus \/ SealStatus
  <2>1. snapshot.files[Status] = AsFound /\ StateOf(held, Status) = AsFound
    BY <1>12, <1>a, <1>b, <1>c DEF CheckStatus, SealStatus, UntouchedInv, WholeAsFound, Held,
       Rooted, Checking, Working
  <2> QED BY <1>12, <2>1, <1>3 DEF CheckStatus, SealStatus, Working
<1>13. ASSUME NEW f \in Payload, Survey(f) PROVE UntouchedInv'
  <2>1. StateOf(held, f) = AsFound /\ states \in [Files -> FileStates]
    BY <1>13, <1>a, <1>b, <1>c, <1>t DEF Survey, Held, Copying, TypeOK
  <2> QED BY <1>13, <2>1, <1>3 DEF Survey, Working
<1>14. ASSUME NEW f \in Payload, ExtractFile(f) \/ FailFile(f) PROVE UntouchedInv'
  BY <1>14, <1>3 DEF ExtractFile, FailFile, Working
<1>15. CASE Surveyed \/ Extracted \/ SealRoot
  BY <1>15, <1>3 DEF Surveyed, Extracted, SealRoot, RequireBound, Working
<1>16. ASSUME NEW f \in Payload, VerifyPayload(f) PROVE UntouchedInv'
  <2>1. StateOf(held, f) = AsFound /\ states[f] = AsFound
    BY <1>16, <1>a, <1>b, <1>c DEF VerifyPayload, UntouchedInv, IInv, CopyInv, Held, Checking
  <2>2. seen \in [Files -> FileStates]
    BY <1>t DEF TypeOK
  <2> QED BY <1>16, <2>1, <2>2, <1>3 DEF VerifyPayload, Working, ByDescriptor
<1>17. CASE Verified
  BY <1>17 DEF Verified, UntouchedInv, Working
<1>18. CASE SealRun \/ Fail \/ (\E f \in Files : FailRead(f))
  <2>1. CASE SealRun \/ Fail
    BY <2>1, <1>2 DEF SealRun, Fail
  <2>2. CASE \E f \in Files : FailRead(f)
    <3>1. /\ pc' = "stopped" /\ claim' = "unread"
          /\ UNCHANGED <<disk, visible, edits, swaps, root, seen, snapshot, receipt, held, states>>
          /\ UNCHANGED <<process, failures>>
      BY <2>2 DEF FailRead, Raise, source
    <3> QED BY <3>1, <1>e DEF UntouchedInv, Working, ByPath, ByDescriptor
  <2> QED BY <1>18, <2>1, <2>2
<1>19. CASE (\E d \in Dirs, f \in Files : Edit(d, f)) \/ Swap
  <2>1. edits \in Nat /\ swaps \in Nat
    BY <1>t DEF TypeOK
  <2> QED BY <1>19, <2>1 DEF Edit, Swap
<1>20. CASE Ended \/ UNCHANGED vars
  BY <1>20, <1>2 DEF Ended, vars
<1> QED BY <1>4, <1>5, <1>6, <1>7, <1>8, <1>9, <1>10, <1>11, <1>12, <1>13, <1>14, <1>15, <1>16,
           <1>17, <1>18, <1>19, <1>20 DEF Next, Step

\* A run that refuses its source as changed, with no file it could not copy, met an edit
\* or a rename: an untouched backup passes every comparison of service.py and extract.py,
\* also those of the second helper process with the first one's receipt.
THEOREM UntouchedIsAcceptedHolds == Spec => []UntouchedIsAccepted
<1>1. Init => UntouchedInv
  BY SourceAssumption DEF Init, UntouchedInv, Nothing, Dirs, Working
<1>2. IInv /\ UntouchedInv => UntouchedIsAccepted
  <2> SUFFICES ASSUME IInv, UntouchedInv PROVE UntouchedIsAccepted
    OBVIOUS
  <2>1. edits \in Nat /\ swaps \in Nat
    BY DEF IInv, TypeOK
  <2> QED BY <2>1 DEF UntouchedInv, UntouchedIsAccepted
<1> QED BY <1>1, <1>2, UntouchedStep, Invariance, PTL DEF Spec
=============================================================================
