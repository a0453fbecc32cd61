--------------------------- MODULE OutputTreeProofs ---------------------------
(***************************************************************************)
(* Proofs about OutputTree, for any number of commands that stop at any    *)
(* step, of edits and of renames.  However commands overlap: the types,    *)
(* that a visible directory with a recovery marker holds a whole report,   *)
(* and that its tables are of the raw tree the extraction's marker binds.  *)
(* As long as none overlapped: that what is in place is whole, that a      *)
(* report which succeeds is there, and that a finished one stays.          *)
(*                                                                         *)
(* The invariant is Sound, in five parts: TypedState; Safe, who works in   *)
(* which directory and how far; Provenance, which versions of raw the      *)
(* tables of a directory come from; Stages; and Alone, what is in place    *)
(* and what the only command at work finds of what it left.                *)
(***************************************************************************)
EXTENDS OutputTree, TLAPS

\* The positions between the renames of the analysis away and of the report back.
Inside == {"secure_staging", "read", "artifacts", "artifacts_open", "version", "bind",
           "mark", "check", "final", "promote_report"}

\* A command that works on a tree has one.
Placed == \A p \in Processes :
  proc[p].pc \notin Ended \cup {"create", "anchor"} => proc[p].tree \in Trees

\* No directory has two names.
Distinct == \A t, u \in Trees : \A m, n \in Names :
  tree[t].entry[m] = tree[u].entry[n] /\ tree[t].entry[m] # NoDirectory => t = u /\ m = n

\* A report works on a staging directory that nobody else takes away or works on.
Staged == \A p \in Processes : proc[p].pc \in Inside => Dir(p, "report_staging") # NoDirectory
OneReporter == \A p, q \in Processes :
  proc[p].pc \in Inside /\ proc[q].pc \in Inside /\ proc[p].tree = proc[q].tree => p = q

\* What a report has done to it so far.
WorkDone(c, r) ==
  /\ r.pc = "artifacts" => c.artifacts = "absent" /\ ~c.sealed
  /\ r.pc = "artifacts_open" => c.reporters = {r.run}
  /\ r.pc \in {"version", "bind", "mark"} => c.artifacts = "whole"
  /\ r.pc \in {"bind", "mark"} => c.summary = "whole" /\ c.versioned
Progress == \A p \in Processes :
  /\ proc[p].pc \in Inside => WorkDone(contents[Dir(p, "report_staging")], proc[p])
  /\ proc[p].pc = "artifacts_open" => proc[p].open = Dir(p, "report_staging")

\* Directories are sealed when their report is whole, and analyses being made never are.
Authored == \A d \in Directories : contents[d].artifacts = "absent" => contents[d].reporters = {}
StagingUnsealed == \A t \in Trees : \A d \in Directories :
  tree[t].entry["analysis_staging"] = d => ~contents[d].sealed
SealedIsWhole == \A d \in Directories : contents[d].sealed =>
  contents[d].summary = "whole" /\ contents[d].versioned /\ contents[d].artifacts = "whole"

\* The inductive invariant, but for the types.
Safe == Placed /\ Distinct /\ Staged /\ OneReporter /\ Progress /\ Authored
        /\ StagingUnsealed /\ SealedIsWhole
-----------------------------------------------------------------------------
\* Types of the parts of the state.

TreeRecords == [marker : {"none", "absent", "incomplete", "complete"}, raw : Nat,
                entry : [Names -> Directories \cup {NoDirectory}]]
ProcRecords ==
  [command : Commands \cup {"none"}, pc : Positions, stage : {"none", "analysis", "report"},
   tree : Trees \cup {"none"}, run : Nat, read : Nat,
   open : Directories \cup {NoDirectory}, bound : Contents]

TypedWorld == visible \in Trees \cup {"none"} /\ {starts, edits, swaps} \subseteq Nat
              /\ overlapped \in BOOLEAN
TypedState == /\ tree \in [Trees -> TreeRecords] /\ contents \in [Directories -> Contents]
              /\ TypedWorld /\ proc \in [Processes -> ProcRecords]

\* TypeOK by its parts.
LEMMA TypeParts == TypeOK <=> TypedState
  BY DEF TypeOK, TypedState, TypedWorld, TreeRecords, ProcRecords

\* The name of no directory is none's.
LEMMA NoDirectoryIsNone == NoDirectory \notin Directories
  BY OutputAssumption DEF NoDirectory, Directories

\* The initial records.
LEMMA EmptyTyped == Empty \in Contents /\ Idle \in ProcRecords
  BY SMT DEF Empty, Contents, FileStates, Idle, ProcRecords, Positions, Ended

\* Where the positions that steps go to belong.
LEMMA Positioned ==
  /\ Ended \subseteq Positions /\ Analysing \subseteq Positions /\ Reporting \subseteq Positions
  /\ {"create", "created", "layout_root", "extract", "anchor", "validate", "leave"}
       \subseteq Positions
  /\ {"refused", "done", "stopped"} \subseteq Ended
  /\ "layout" \in Analysing /\ "mark" \in Reporting
  BY DEF Positions, Ended, Analysing, Reporting

\* A command at a step has one of the processes' records, and its tree is one.
LEMMA GotoTyped ==
  ASSUME TypedState, NEW p \in Processes, NEW there \in Positions
  PROVE  [proc EXCEPT ![p].pc = there] \in [Processes -> ProcRecords]
  BY SMT DEF TypedState, ProcRecords

\* A step may set another field of its process with the position.
LEMMA MoveTyped ==
  ASSUME TypedState, NEW p \in Processes, NEW there \in Positions
  PROVE  /\ \A t \in Trees \cup {"none"} :
              [proc EXCEPT ![p].pc = there, ![p].tree = t] \in [Processes -> ProcRecords]
         /\ \A n \in Nat :
              [proc EXCEPT ![p].pc = there, ![p].read = n] \in [Processes -> ProcRecords]
         /\ \A d \in Directories \cup {NoDirectory} :
              [proc EXCEPT ![p].pc = there, ![p].open = d] \in [Processes -> ProcRecords]
         /\ \A c \in Contents :
              [proc EXCEPT ![p].pc = there, ![p].bound = c] \in [Processes -> ProcRecords]
<1> DEFINE moved == [proc EXCEPT ![p].pc = there]
<1>1. moved \in [Processes -> ProcRecords]
  BY GotoTyped
<1>2. /\ \A t : [proc EXCEPT ![p].pc = there, ![p].tree = t] = [moved EXCEPT ![p].tree = t]
      /\ \A n : [proc EXCEPT ![p].pc = there, ![p].read = n] = [moved EXCEPT ![p].read = n]
      /\ \A d : [proc EXCEPT ![p].pc = there, ![p].open = d] = [moved EXCEPT ![p].open = d]
      /\ \A c : [proc EXCEPT ![p].pc = there, ![p].bound = c] = [moved EXCEPT ![p].bound = c]
  OBVIOUS
<1> HIDE DEF moved
<1>3. /\ \A t \in Trees \cup {"none"} : [moved EXCEPT ![p].tree = t] \in [Processes -> ProcRecords]
      /\ \A n \in Nat : [moved EXCEPT ![p].read = n] \in [Processes -> ProcRecords]
  BY <1>1, SMT DEF ProcRecords
<1>4. /\ \A d \in Directories \cup {NoDirectory} :
           [moved EXCEPT ![p].open = d] \in [Processes -> ProcRecords]
      /\ \A c \in Contents : [moved EXCEPT ![p].bound = c] \in [Processes -> ProcRecords]
  BY <1>1, SMT DEF ProcRecords
<1> QED
  BY <1>2, <1>3, <1>4

\* An end of a command, and a check's two outcomes.
LEMMA EndTyped ==
  ASSUME TypedState, NEW p \in Processes, NEW how \in Positions, End(p, how)
  PROVE  proc' \in [Processes -> ProcRecords]
  BY EmptyTyped, SMT DEF TypedState, ProcRecords, End

LEMMA CheckTyped ==
  ASSUME TypedState, NEW p \in Processes, NEW there \in Positions,
         Goto(p, there) \/ End(p, "refused")
  PROVE  proc' \in [Processes -> ProcRecords]
  BY GotoTyped, EndTyped, Positioned DEF Goto

\* A directory that is emptied, and one that gets a field's new value.
LEMMA ContentsTyped ==
  ASSUME TypedState, NEW d \in Directories \cup {NoDirectory}
  PROVE  [contents EXCEPT ![d] = Empty] \in [Directories -> Contents]
  BY EmptyTyped DEF TypedState

LEMMA FieldsTyped ==
  ASSUME NEW f \in [Directories -> Contents], NEW d \in Directories
  PROVE  /\ \A v \in BOOLEAN : /\ [f EXCEPT ![d].versioned = v] \in [Directories -> Contents]
                               /\ [f EXCEPT ![d].sealed = v] \in [Directories -> Contents]
         /\ \A v \in SUBSET Nat : [f EXCEPT ![d].from = v] \in [Directories -> Contents]
<1>1. ASSUME NEW c \in Contents, NEW v \in BOOLEAN
      PROVE  [c EXCEPT !.versioned = v] \in Contents /\ [c EXCEPT !.sealed = v] \in Contents
  BY SMT DEF Contents
<1>2. ASSUME NEW c \in Contents, NEW v \in SUBSET Nat PROVE [c EXCEPT !.from = v] \in Contents
  BY SMT DEF Contents
<1> QED
  BY <1>1, <1>2

\* A name that is made to stand for another directory.
LEMMA EntryTyped ==
  ASSUME TypedState, NEW t \in Trees, NEW n \in Names, NEW d \in Directories \cup {NoDirectory}
  PROVE  [tree EXCEPT ![t].entry[n] = d] \in [Trees -> TreeRecords]
  BY SMT DEF TypedState, TreeRecords

\* secure_directory: the directory the name had, untouched, or an empty one that
\* nothing named.
LEMMA SecuredFacts ==
  ASSUME TypedState, NEW p \in Processes, NEW n \in Names, proc[p].tree \in Trees, Room(p, n)
  PROVE  /\ Secured(p, n) \in Directories
         /\ SecuredTree(p, n) \in [Trees -> TreeRecords]
         /\ SecuredContents(p, n) \in [Directories -> Contents]
         /\ \A t \in Trees, m \in Names :
              SecuredTree(p, n)[t].entry[m] = IF t = proc[p].tree /\ m = n THEN Secured(p, n)
                                              ELSE tree[t].entry[m]
         /\ \/ /\ Dir(p, n) # NoDirectory /\ Secured(p, n) = Dir(p, n)
               /\ SecuredContents(p, n) = contents
            \/ /\ Dir(p, n) = NoDirectory /\ ~Reachable(Secured(p, n))
               /\ SecuredContents(p, n) = [contents EXCEPT ![Secured(p, n)] = Empty]
<1>1. Dir(p, n) \in Directories \cup {NoDirectory}
  BY DEF TypedState, TreeRecords, Dir
<1>2. Dir(p, n) = NoDirectory => Fresh \in Directories /\ ~Reachable(Fresh)
  BY DEF Room, Fresh
<1>3. /\ Secured(p, n) \in Directories
      /\ \/ Dir(p, n) # NoDirectory /\ Secured(p, n) = Dir(p, n)
         \/ Dir(p, n) = NoDirectory /\ ~Reachable(Secured(p, n)) /\ Secured(p, n) = Fresh
  BY <1>1, <1>2 DEF Secured
<1>4. SecuredTree(p, n) \in [Trees -> TreeRecords]
  BY <1>3, EntryTyped DEF SecuredTree
<1>5. SecuredContents(p, n) \in [Directories -> Contents]
  BY <1>3, EmptyTyped, SMT DEF SecuredContents, TypedState
<1>6. \A t \in Trees, m \in Names :
        SecuredTree(p, n)[t].entry[m] = IF t = proc[p].tree /\ m = n THEN Secured(p, n)
                                        ELSE tree[t].entry[m]
  BY SMT DEF SecuredTree, TypedState, TreeRecords
<1> QED
  BY <1>3, <1>4, <1>5, <1>6 DEF SecuredContents
-----------------------------------------------------------------------------
\* Every step keeps the types.
LEMMA TypeStep == TypedState /\ Placed /\ [Next]_vars => TypedState'
<1> SUFFICES ASSUME TypedState, Placed, [Next]_vars PROVE TypedState'
  OBVIOUS
<1> USE DEF world, TypedWorld
<1>1. ASSUME NEW p \in Processes, Step(p) PROVE TypedState'
  <2> p \in Processes
    BY <1>1
  <2>1. proc[p].pc \notin Ended \cup {"create", "anchor"} => proc[p].tree \in Trees
    BY DEF Placed
  <2>2. ASSUME tree' = tree, contents' = contents, UNCHANGED world,
               proc' \in [Processes -> ProcRecords]
        PROVE  TypedState'
    BY <2>2 DEF TypedState
  <2>3. ASSUME NEW there \in Positions, proc' = [proc EXCEPT ![p].pc = there]
        PROVE  proc' \in [Processes -> ProcRecords]
    BY <2>3, GotoTyped
  <2>4. ASSUME NEW n \in Names, proc[p].tree \in Trees, Room(p, n)
        PROVE  /\ SecuredTree(p, n) \in [Trees -> TreeRecords]
               /\ SecuredContents(p, n) \in [Directories -> Contents]
               /\ Secured(p, n) \in Directories
    BY <2>4, SecuredFacts
  <2>5. CASE CreateRoot(p)
    <3>1. proc' \in [Processes -> ProcRecords]
      <4>1. "created" \in Positions /\ "refused" \in Positions /\ "ours" \in Trees
        BY Positioned DEF Trees
      <4>2. CASE visible = "none"
        BY <2>5, <4>1, <4>2, SMT DEF CreateRoot, TypedState, ProcRecords
      <4>3. CASE visible # "none"
        BY <2>5, <4>1, <4>3, EndTyped DEF CreateRoot
      <4> QED
        BY <4>2, <4>3
    <3> QED
      BY <2>5, <3>1, SMT DEF CreateRoot, TypedState, TreeRecords, Trees
  <2>6. CASE \/ RequireCreated(p) \/ Validate(p) \/ AnalysisLayout(p) \/ ReconcileAgain(p)
             \/ ReportPreflight(p) \/ ReadAnalysis(p) \/ CheckSealed(p) \/ CheckFinalPath(p)
    <3>1. PICK there \in Positions : \E here, passed : Check(p, here, passed, there)
      BY <2>6 DEF RequireCreated, Validate, AnalysisLayout, ReconcileAgain, ReportPreflight,
        ReadAnalysis, CheckSealed, CheckFinalPath, Positions, Analysing, Reporting
    <3>2. proc' \in [Processes -> ProcRecords]
      BY <3>1, CheckTyped DEF Check
    <3> QED
      BY <2>2, <2>6, <3>2 DEF RequireCreated, Validate, AnalysisLayout, ReconcileAgain,
        ReportPreflight, ReadAnalysis, CheckSealed, CheckFinalPath
  <2>7. CASE LayoutRoot(p) \/ Extract(p)
    <3>1. proc' \in [Processes -> ProcRecords]
      BY <2>7, <2>3, Positioned DEF LayoutRoot, Extract, Goto
    <3>2. tree' \in [Trees -> TreeRecords]
      <4>0. proc[p].tree \in Trees
        BY <2>1, <2>7 DEF LayoutRoot, Extract, Ended
      <4>1. CASE LayoutRoot(p)
        BY <4>0, <4>1, SMT DEF LayoutRoot, TypedState, TreeRecords
      <4>2. CASE Extract(p)
        BY <4>0, <4>2, SMT DEF Extract, TypedState, TreeRecords
      <4> QED
        BY <2>7, <4>1, <4>2
    <3> QED
      BY <2>7, <3>1, <3>2 DEF LayoutRoot, Extract, TypedState
  <2>8. CASE Anchor(p) \/ ParseRaw(p) \/ BindArtifacts(p) \/ LeaveTree(p)
    <3>1. CASE Anchor(p)
      <4> DEFINE held == IF proc[p].command = "recover" THEN proc[p].tree ELSE visible
      <4>1. "validate" \in Positions /\ "refused" \in Positions /\ proc[p] \in ProcRecords
        BY Positioned DEF TypedState
      <4>2. held \in Trees \cup {"none"}
        BY <4>1 DEF TypedState, ProcRecords
      <4>3. CASE held = "none"
        BY <3>1, <2>2, <4>1, <4>3, EndTyped DEF Anchor
      <4>4. CASE held # "none"
        <5>1. proc' = [proc EXCEPT ![p].pc = "validate", ![p].tree = held]
          BY <3>1, <4>4 DEF Anchor
        <5>2. proc' \in [Processes -> ProcRecords]
          <6> HIDE DEF held
          <6> QED BY <5>1, <4>1, <4>2, MoveTyped
        <5> QED
          BY <3>1, <2>2, <5>2 DEF Anchor
      <4> QED
        BY <4>3, <4>4
    <3>2. CASE ParseRaw(p)
      <4>1. "layout" \in Positions /\ proc[p].tree \in Trees
        BY <3>2, <2>1, Positioned DEF ParseRaw, Ended
      <4>2. tree[proc[p].tree].raw \in Nat
        BY <4>1 DEF TypedState, TreeRecords
      <4>3. proc' \in [Processes -> ProcRecords]
        BY <3>2, <4>1, <4>2, MoveTyped DEF ParseRaw
      <4> QED
        BY <3>2, <2>2, <4>3 DEF ParseRaw
    <3>3. CASE BindArtifacts(p)
      <4> DEFINE d == Dir(p, "report_staging")
      <4>1. "mark" \in Positions /\ "refused" \in Positions /\ proc[p].tree \in Trees
        BY <3>3, <2>1, Positioned DEF BindArtifacts, Ended
      <4>2. CASE Reconciled(p) /\ AllThere(d)
        <5>1. d \in Directories
          BY <4>1, <4>2 DEF AllThere, Dir, TypedState, TreeRecords, Names
        <5>2. contents[d] \in Contents
          BY <5>1 DEF TypedState
        <5>3. proc' \in [Processes -> ProcRecords]
          <6>1. proc' = [proc EXCEPT ![p].pc = "mark", ![p].bound = contents[d]]
            BY <3>3, <4>2 DEF BindArtifacts
          <6> HIDE DEF d
          <6> QED BY <6>1, <4>1, <5>2, MoveTyped
        <5> QED
          BY <3>3, <2>2, <5>3 DEF BindArtifacts
      <4>3. CASE ~(Reconciled(p) /\ AllThere(d))
        BY <3>3, <2>2, <4>1, <4>3, EndTyped DEF BindArtifacts
      <4> QED
        BY <4>2, <4>3
    <3>4. CASE LeaveTree(p)
      <4>1. "anchor" \in Positions /\ "done" \in Positions /\ "refused" \in Positions
        BY Positioned
      <4>2. CASE proc[p].command = "recover" /\ proc[p].stage = "analysis"
        <5>1. proc' \in [Processes -> ProcRecords]
          BY <3>4, <4>1, <4>2, SMT DEF LeaveTree, TypedState, ProcRecords
        <5> QED
          BY <3>4, <2>2, <5>1 DEF LeaveTree
      <4>3. CASE ~(proc[p].command = "recover" /\ proc[p].stage = "analysis")
        BY <3>4, <2>2, <4>1, <4>3, CheckTyped DEF LeaveTree, Check
      <4> QED
        BY <4>2, <4>3
    <3> QED
      BY <2>8, <3>1, <3>2, <3>3, <3>4
  <2>9. CASE StageAnalysis(p) \/ SecureAnalysis(p) \/ SecureStaging(p) \/ SecureReport(p)
    <3>1. PICK n \in Names, there \in Positions, here \in Analysing \cup Reporting :
            Secure(p, here, n, there)
      BY <2>9 DEF StageAnalysis, SecureAnalysis, SecureStaging, SecureReport, Names, Positions,
        Analysing, Reporting
    <3>2. proc[p].tree \in Trees /\ proc' \in [Processes -> ProcRecords]
      BY <2>1, <2>3, <3>1 DEF Secure, Goto, Analysing, Reporting, Ended
    <3> QED
      BY <2>4, <3>1, <3>2 DEF Secure, TypedState
  <2>10. CASE PromoteAnalysis(p) \/ TakeAnalysis(p) \/ PromoteReport(p)
    <3>1. PICK from, to \in Names, there \in Positions, here \in Analysing \cup Reporting :
            Promote(p, here, from, to, there)
      BY <2>10 DEF PromoteAnalysis, TakeAnalysis, PromoteReport, Names, Positions, Analysing,
        Reporting
    <3>2. proc[p].tree \in Trees /\ proc' \in [Processes -> ProcRecords]
      <4>1. proc[p].pc = here /\ here \notin Ended \cup {"create", "anchor"}
        BY <3>1 DEF Promote, Check, Analysing, Reporting, Ended
      <4> QED
        BY <2>1, <3>1, <4>1, CheckTyped DEF Promote, Check
    <3>3. tree' \in [Trees -> TreeRecords]
      <4> DEFINE t == proc[p].tree
      <4>1. t \in Trees /\ Dir(p, from) \in Directories \cup {NoDirectory}
        BY <3>2 DEF Dir, TypedState, TreeRecords
      <4>2. tree' \in {tree, [tree EXCEPT ![t].entry[from] = NoDirectory,
                                         ![t].entry[to] = Dir(p, from)]}
        BY <3>1 DEF Promote
      <4> HIDE DEF t
      <4> QED
        BY <4>1, <4>2, SMTT(30) DEF TypedState, TreeRecords
    <3> QED
      BY <3>1, <3>2, <3>3 DEF Promote, TypedState
  <2>11. CASE WriteTables(p) \/ WriteSummary(p) \/ WriteArtifacts(p)
    <3> DEFINE Files == {"tables", "summary", "artifacts"}
    <3>1. CASE \E here \in Analysing \cup Reporting, n \in Names, file \in Files,
                  authors \in {"analysts", "reporters"}, there \in Positions :
                OpenFiles(p, here, n, file, authors, there)
      <4>1. PICK here \in Analysing \cup Reporting, n \in Names, file \in Files,
                 authors \in {"analysts", "reporters"}, there \in Positions :
                   OpenFiles(p, here, n, file, authors, there)
        BY <3>1
      <4>2. proc[p].tree \in Trees /\ Room(p, n)
        BY <2>1, <4>1 DEF OpenFiles, Analysing, Reporting, Ended
      <4> DEFINE d == Secured(p, n)
                 before == SecuredContents(p, n)
      <4>3. d \in Directories /\ before \in [Directories -> Contents]
            /\ SecuredTree(p, n) \in [Trees -> TreeRecords]
        BY <2>4, <4>2
      <4>4. proc[p] \in ProcRecords /\ proc[p].run \in Nat /\ proc[p].read \in Nat
        BY DEF TypedState, ProcRecords
      <4>5. contents' = [before EXCEPT
              ![d][file] = "partial",
              ![d][authors] = @ \cup {proc[p].run},
              ![d].from = IF file = "tables" THEN @ \cup {proc[p].read} ELSE @]
        BY <4>1 DEF OpenFiles
      <4>6. proc' = [proc EXCEPT ![p].pc = there, ![p].open = d]
        BY <4>1 DEF OpenFiles
      <4>7. contents' \in [Directories -> Contents]
        <5> DEFINE first == [before EXCEPT ![d][file] = "partial"]
                   second == [first EXCEPT ![d][authors] = @ \cup {proc[p].run}]
        <5>1. contents' = [second EXCEPT ![d].from = IF file = "tables" THEN @ \cup {proc[p].read}
                                                     ELSE @]
          BY <4>5
        <5> HIDE DEF d, before
        <5>2. first \in [Directories -> Contents]
          BY <4>1, <4>3, SMT DEF Contents, FileStates
        <5> HIDE DEF first
        <5>3. second \in [Directories -> Contents]
          BY <4>1, <4>3, <4>4, <5>2, SMTT(30) DEF Contents
        <5> HIDE DEF second
        <5> DEFINE v == IF file = "tables" THEN second[d].from \cup {proc[p].read}
                        ELSE second[d].from
        <5>4. v \in SUBSET Nat
          BY <4>3, <4>4, <5>3, SMT DEF Contents
        <5>5. contents' = [second EXCEPT ![d].from = v]
          BY <4>3, <5>1, <5>3
        <5> HIDE DEF v
        <5> QED
          BY <4>3, <5>3, <5>4, <5>5, FieldsTyped
      <4>8. proc' \in [Processes -> ProcRecords]
        <5> HIDE DEF d
        <5> QED BY <4>1, <4>3, <4>6, MoveTyped
      <4> QED
        BY <4>1, <4>3, <4>7, <4>8 DEF OpenFiles, TypedState
    <3>2. CASE \E here \in Analysing \cup Reporting, file \in Files,
                  authors \in {"analysts", "reporters"}, there \in Positions :
                CloseFiles(p, here, file, authors, there)
      <4>1. PICK here \in Analysing \cup Reporting, file \in Files,
                 authors \in {"analysts", "reporters"}, there \in Positions :
                   CloseFiles(p, here, file, authors, there)
        BY <3>2
      <4> DEFINE d == proc[p].open
      <4>2. d \in Directories \cup {NoDirectory}
        BY DEF TypedState, ProcRecords
      <4>3. proc' \in [Processes -> ProcRecords]
        BY <4>1, MoveTyped DEF CloseFiles
      <4>4. PICK state \in {contents[d][file], "whole"} :
              contents' = [contents EXCEPT ![d][file] = state]
        BY <4>1 DEF CloseFiles
      <4>5. contents' \in [Directories -> Contents]
        <5>1. d \in Directories => state \in FileStates
          BY <4>4, SMT DEF TypedState, Contents, FileStates
        <5> HIDE DEF d
        <5>2. CASE d \in Directories
          BY <4>1, <4>4, <5>1, <5>2, SMT DEF TypedState, Contents
        <5>3. CASE d \notin Directories
          <6>1. contents' = contents
            BY <4>4, <5>3, Zenon DEF TypedState
          <6> QED
            BY <6>1 DEF TypedState
        <5> QED
          BY <5>2, <5>3
      <4> QED
        BY <4>1, <4>3, <4>5 DEF CloseFiles, TypedState
    <3> QED
      BY <2>11, <3>1, <3>2 DEF WriteTables, WriteSummary, WriteArtifacts, Names, Positions,
        Analysing, Reporting
  <2>12. CASE VersionSummary(p) \/ MarkRecovery(p)
    <3>1. /\ proc[p].tree \in Trees /\ Room(p, "report_staging")
          /\ proc' \in [Processes -> ProcRecords]
      BY <2>1, <2>3, <2>12 DEF VersionSummary, MarkRecovery, Goto, Positions, Reporting, Ended
    <3>2. contents' \in [Directories -> Contents]
      <4> DEFINE d == Secured(p, "report_staging")
                 before == SecuredContents(p, "report_staging")
      <4>1. d \in Directories /\ before \in [Directories -> Contents]
        BY <2>4, <3>1 DEF Names
      <4>2. \/ contents' = [before EXCEPT ![d].summary = "whole", ![d].versioned = TRUE]
            \/ contents' = [before EXCEPT ![d].sealed = TRUE]
        BY <2>12 DEF VersionSummary, MarkRecovery
      <4> HIDE DEF d, before
      <4> QED
        <5> DEFINE whole == [before EXCEPT ![d].summary = "whole"]
        <5>1. whole \in [Directories -> Contents]
          BY <4>1, SMT DEF Contents, FileStates
        <5>2. \/ contents' = [whole EXCEPT ![d].versioned = TRUE]
              \/ contents' = [before EXCEPT ![d].sealed = TRUE]
          BY <4>2
        <5> HIDE DEF whole
        <5>3. CASE contents' = [whole EXCEPT ![d].versioned = TRUE]
          BY <4>1, <5>1, <5>3, FieldsTyped
        <5>4. CASE contents' = [before EXCEPT ![d].sealed = TRUE]
          BY <4>1, <5>4, FieldsTyped
        <5> QED
          BY <5>2, <5>3, <5>4
    <3> QED
      BY <2>4, <2>12, <3>1, <3>2 DEF VersionSummary, MarkRecovery, TypedState, Names
  <2> QED
    BY <1>1, <2>5, <2>6, <2>7, <2>8, <2>9, <2>10, <2>11, <2>12 DEF Step
<1>2. ASSUME NEW p \in Processes, Stop(p) PROVE TypedState'
  BY <1>2, EndTyped, Positioned DEF Stop, TypedState
<1>3. ASSUME NEW p \in Processes, NEW c \in Commands, Start(p, c) PROVE TypedState'
  <2> p \in Processes /\ c \in Commands
    BY <1>3
  <2>1. starts' \in Nat
    BY <1>3, SMT DEF Start, TypedState
  <2> DEFINE begun == [Idle EXCEPT !.command = c, !.run = starts',
                                   !.pc = IF c = "recover" THEN "create" ELSE "anchor",
                                   !.stage = IF c = "report" THEN "report" ELSE "analysis"]
  <2>2. begun \in ProcRecords
    <3>1. "create" \in Positions /\ "anchor" \in Positions
      BY Positioned
    <3> DEFINE first == [Idle EXCEPT !.command = c]
               second == [first EXCEPT !.run = starts']
               third == [second EXCEPT !.pc = IF c = "recover" THEN "create" ELSE "anchor"]
    <3>2. begun = [third EXCEPT !.stage = IF c = "report" THEN "report" ELSE "analysis"]
      OBVIOUS
    <3>3. first \in ProcRecords
      BY EmptyTyped, SMT DEF ProcRecords
    <3> HIDE DEF first
    <3>4. second \in ProcRecords
      BY <2>1, <3>3, SMT DEF ProcRecords
    <3> HIDE DEF second
    <3>5. third \in ProcRecords
      BY <3>1, <3>4, SMT DEF ProcRecords
    <3> HIDE DEF third
    <3>6. \A stage \in {"analysis", "report"} : [third EXCEPT !.stage = stage] \in ProcRecords
      BY <3>5, SMT DEF ProcRecords
    <3> QED
      BY <3>2, <3>6
  <2>3. proc' \in [Processes -> ProcRecords]
    <3>1. proc' = [proc EXCEPT ![p] = begun]
      BY <1>3 DEF Start
    <3> HIDE DEF begun
    <3> QED BY <2>2, <3>1 DEF TypedState
  <2> QED
    BY <1>3, <2>1, <2>3, SMT DEF Start, TypedState
<1>4. ASSUME NEW t \in Trees, EditRaw(t) \/ SwapTree(t) \/ MoveAside(t) PROVE TypedState'
  <2>1. CASE EditRaw(t)
    BY <2>1, SMT DEF EditRaw, TypedState, TreeRecords
  <2>2. CASE SwapTree(t)
    BY <2>2, SMT DEF SwapTree, TypedState
  <2>3. CASE MoveAside(t)
    <3>1. tree' \in [Trees -> TreeRecords]
      BY <2>3, EntryTyped DEF MoveAside, Names
    <3>2. contents' \in [Directories -> Contents]
      BY <2>3, ContentsTyped DEF MoveAside, TypedState, TreeRecords, Names
    <3> QED
      BY <2>3, <3>1, <3>2 DEF MoveAside, TypedState
  <2> QED
    BY <1>4, <2>1, <2>2, <2>3
<1>5. CASE UNCHANGED vars
  BY <1>5 DEF vars, TypedState
<1> QED
  BY <1>1, <1>2, <1>3, <1>4, <1>5 DEF Next
-----------------------------------------------------------------------------
\* What the kinds of steps do to the other conjuncts of the invariant.

Entry(t, n) == tree[t].entry[n]

\* A step leaves what counts in d alone, or takes d for a new directory.
Kept(d) ==
  /\ contents'[d].sealed = contents[d].sealed
  /\ contents'[d].artifacts = contents[d].artifacts
  /\ contents'[d].reporters = contents[d].reporters
  /\ (\A t \in Trees : Entry(t, "analysis_staging") # d) =>
       /\ contents[d].summary = "whole" => contents'[d].summary = "whole"
       /\ contents[d].versioned => contents'[d].versioned
New(d) ==
  /\ \A t \in Trees, n \in Names : Entry(t, n) # d
  /\ ~contents'[d].sealed /\ contents'[d].artifacts = "absent" /\ contents'[d].reporters = {}

\* A command's next position, where it neither takes an analysis nor opens artifacts.
Moved(p) ==
  /\ proc'[p].pc \notin Ended \cup {"create", "anchor"} => proc'[p].tree \in Trees
  /\ proc'[p].pc \in Inside =>
       /\ proc[p].pc \in Inside /\ proc'[p].tree = proc[p].tree
       /\ WorkDone(contents'[Dir(p, "report_staging")], proc'[p])
  /\ proc'[p].pc # "artifacts_open"

\* Steps that touch no report being made, and may make one directory.
LEMMA Elsewhere ==
  ASSUME TypedState, TypedState', Safe,
         \A p \in Processes : proc'[p] = proc[p] \/ Moved(p),
         \A d \in Directories : Kept(d) \/ New(d),
         NEW u \in Trees, NEW m \in Names,
         \A t \in Trees, n \in Names : t # u \/ n # m => Entry(t, n)' = Entry(t, n),
         \/ Entry(u, m)' = Entry(u, m)
         \/ Entry(u, m) = NoDirectory /\ Entry(u, m)' \in Directories /\ New(Entry(u, m)')
  PROVE  Safe'
<1> USE DEF Safe
<1>1. \A t \in Trees, n \in Names :
        /\ Entry(t, n) \in Directories \cup {NoDirectory}
        /\ Entry(t, n) # NoDirectory => Entry(t, n)' = Entry(t, n)
        /\ Entry(t, n)' # Entry(t, n) => t = u /\ n = m /\ New(Entry(t, n)')
                                         /\ Entry(t, n)' \in Directories
  BY DEF TypedState, TreeRecords, Entry
<1>2. Placed'
  BY DEF Placed, Moved
<1>3. Distinct'
  <2>0. \A t, v \in Trees : \A n, k \in Names :
          Entry(t, n) = Entry(v, k) /\ Entry(t, n) # NoDirectory => t = v /\ n = k
    BY DEF Distinct, Entry
  <2>1. ASSUME NEW t \in Trees, NEW v \in Trees, NEW n \in Names, NEW k \in Names,
               Entry(t, n)' = Entry(v, k)', Entry(t, n)' # NoDirectory
        PROVE  t = v /\ n = k
    <3>1. CASE Entry(t, n)' = Entry(t, n) /\ Entry(v, k)' = Entry(v, k)
      <4>1. Entry(t, n) = Entry(v, k) /\ Entry(t, n) # NoDirectory
        BY <2>1, <3>1
      <4> QED
        BY <2>0, <2>1, <4>1
    <3>2. CASE Entry(t, n)' # Entry(t, n)
      BY <1>1, <2>1, <3>2 DEF New
    <3>3. CASE Entry(v, k)' # Entry(v, k)
      BY <1>1, <2>1, <3>3 DEF New
    <3> QED
      BY <3>1, <3>2, <3>3
  <2> QED
    BY <2>1 DEF Distinct, Entry
<1>4. ASSUME NEW p \in Processes, proc'[p].pc \in Inside
      PROVE  /\ proc[p].pc \in Inside /\ proc'[p].tree = proc[p].tree /\ proc[p].tree \in Trees
             /\ Dir(p, "report_staging") \in Directories
             /\ Dir(p, "report_staging")' = Dir(p, "report_staging")
             /\ Kept(Dir(p, "report_staging"))
             /\ \A t \in Trees : Entry(t, "analysis_staging") # Dir(p, "report_staging")
  <2> p \in Processes
    BY <1>4
  <2>1. proc[p].pc \in Inside /\ proc'[p].tree = proc[p].tree
    BY <1>4 DEF Moved
  <2>2. proc[p].tree \in Trees
    BY <2>1 DEF Placed, Inside, Ended
  <2>3. PICK t \in Trees : /\ Dir(p, "report_staging") = Entry(t, "report_staging")
                           /\ Dir(p, "report_staging")' = Entry(t, "report_staging")'
    BY <2>1, <2>2 DEF Dir, Entry
  <2>4. Dir(p, "report_staging") # NoDirectory
    BY <2>1 DEF Staged
  <2>5. /\ Dir(p, "report_staging") \in Directories
        /\ Dir(p, "report_staging")' = Dir(p, "report_staging")
    BY <1>1, <2>2, <2>3, <2>4 DEF Names
  <2>6. ~New(Dir(p, "report_staging"))
    BY <2>2, <2>3 DEF New, Names
  <2>7. \A v \in Trees : Entry(v, "analysis_staging") # Dir(p, "report_staging")
    BY <2>3, <2>4 DEF Distinct, Entry, Names
  <2> QED
    BY <2>1, <2>2, <2>5, <2>6, <2>7
<1>5. Staged'
  BY <1>4, NoDirectoryIsNone DEF Staged
<1>6. OneReporter'
  BY <1>4 DEF OneReporter
<1>7. Progress'
  <2> SUFFICES ASSUME NEW p \in Processes, proc'[p].pc \in Inside
               PROVE  /\ WorkDone(contents'[Dir(p, "report_staging")'], proc'[p])
                      /\ proc'[p].pc = "artifacts_open" => proc'[p].open = Dir(p, "report_staging")'
    BY DEF Progress, Inside
  <2>1. CASE proc'[p] = proc[p]
    <3>1. WorkDone(contents[Dir(p, "report_staging")], proc[p])
          /\ (proc[p].pc = "artifacts_open" => proc[p].open = Dir(p, "report_staging"))
      BY <1>4 DEF Progress
    <3> QED
      BY <1>4, <2>1, <3>1 DEF WorkDone, Kept
  <2>2. CASE Moved(p)
    BY <1>4, <2>2 DEF Moved
  <2> QED
    BY <2>1, <2>2
<1>8. Authored'
  BY DEF Authored, Kept, New
<1>9. StagingUnsealed'
  <2> SUFFICES ASSUME NEW t \in Trees, NEW d \in Directories, Entry(t, "analysis_staging")' = d
               PROVE  ~contents'[d].sealed
    BY DEF StagingUnsealed, Entry
  <2>1. CASE Entry(t, "analysis_staging") = d
    BY <2>1, SMT DEF StagingUnsealed, Kept, New, Entry, Names
  <2>2. CASE Entry(t, "analysis_staging") # d
    BY <1>1, <2>2 DEF New, Names
  <2> QED
    BY <2>1, <2>2
<1>10. SealedIsWhole'
  <2> SUFFICES ASSUME NEW d \in Directories, contents'[d].sealed
               PROVE  contents'[d].summary = "whole" /\ contents'[d].versioned
                      /\ contents'[d].artifacts = "whole"
    BY DEF SealedIsWhole
  <2>1. Kept(d) /\ contents[d].sealed
    BY DEF Kept, New
  <2>2. \A t \in Trees : Entry(t, "analysis_staging") # d
    BY <2>1 DEF StagingUnsealed, Entry
  <2> QED
    BY <2>1, <2>2 DEF Kept, SealedIsWhole
<1> QED
  BY <1>2, <1>3, <1>5, <1>6, <1>7, <1>8, <1>9, <1>10

\* Steps of a report in the directory it works on.
LEMMA AtWork ==
  ASSUME TypedState, TypedState', Safe, NEW p \in Processes, proc[p].pc \in Inside,
         \A t \in Trees, n \in Names : Entry(t, n)' = Entry(t, n),
         \A q \in Processes : q # p => proc'[q] = proc[q],
         NEW d \in Directories, d = Dir(p, "report_staging"),
         \A e \in Directories : e # d => contents'[e] = contents[e],
         contents'[d].artifacts = "absent" => contents'[d].reporters = {},
         contents'[d].sealed => contents'[d].summary = "whole" /\ contents'[d].versioned
                                /\ contents'[d].artifacts = "whole",
         proc'[p].pc \in Inside, proc'[p].tree = proc[p].tree,
         WorkDone(contents'[d], proc'[p]),
         proc'[p].pc = "artifacts_open" => proc'[p].open = d
  PROVE  Safe'
<1> USE DEF Safe
<1>0. \A t, v \in Trees : \A n, k \in Names :
        Entry(t, n) = Entry(v, k) /\ Entry(t, n) # NoDirectory => t = v /\ n = k
  BY DEF Distinct, Entry
<1>1. PICK u \in Trees : u = proc[p].tree /\ d = Entry(u, "report_staging")
  BY DEF Placed, Inside, Ended, Dir, Entry
<1>2. Placed'
  BY <1>1 DEF Placed
<1>3. Distinct'
  <2>1. \A t, v \in Trees : \A n, k \in Names :
          Entry(t, n)' = Entry(v, k)' /\ Entry(t, n)' # NoDirectory => t = v /\ n = k
    BY <1>0
  <2> QED
    BY <2>1 DEF Distinct, Entry
<1>4. ASSUME NEW q \in Processes, proc'[q].pc \in Inside, q # p
      PROVE  /\ proc'[q] = proc[q] /\ proc[q].tree \in Trees /\ proc[q].tree # u
             /\ Dir(q, "report_staging") \in Directories
             /\ Dir(q, "report_staging")' = Dir(q, "report_staging")
             /\ Dir(q, "report_staging") # d
  <2> q \in Processes
    BY <1>4
  <2>1. proc'[q] = proc[q] /\ proc[q].pc \in Inside
    BY <1>4
  <2>2. proc[q].tree # u
    BY <1>1, <1>4, <2>1 DEF OneReporter
  <2>3. PICK t \in Trees : /\ t = proc[q].tree
                           /\ Dir(q, "report_staging") = Entry(t, "report_staging")
                           /\ Dir(q, "report_staging")' = Entry(t, "report_staging")'
    BY <2>1 DEF Placed, Inside, Ended, Dir, Entry
  <2>4. Entry(t, "report_staging") # NoDirectory
    BY <2>1, <2>3 DEF Staged
  <2>5. Entry(t, "report_staging") \in Directories
    BY <2>4 DEF TypedState, TreeRecords, Entry, Names
  <2>6. Entry(t, "report_staging") # d
    BY <1>0, <1>1, <2>2, <2>3, <2>4 DEF Names
  <2> QED
    BY <2>1, <2>2, <2>3, <2>5, <2>6 DEF Names
<1>5. Dir(p, "report_staging")' = d
  BY <1>1 DEF Dir, Entry, Names
<1>6. Staged'
  BY <1>4, <1>5, NoDirectoryIsNone DEF Staged
<1>7. OneReporter'
  BY <1>1, <1>4 DEF OneReporter
<1>8. Progress'
  <2> SUFFICES ASSUME NEW q \in Processes, proc'[q].pc \in Inside
               PROVE  /\ WorkDone(contents'[Dir(q, "report_staging")'], proc'[q])
                      /\ proc'[q].pc = "artifacts_open" => proc'[q].open = Dir(q, "report_staging")'
    BY DEF Progress, Inside
  <2>1. CASE q = p
    BY <1>5, <2>1
  <2>2. CASE q # p
    BY <1>4, <2>2 DEF Progress
  <2> QED
    BY <2>1, <2>2
<1>9. Authored'
  BY DEF Authored
<1>10. StagingUnsealed'
  <2> SUFFICES ASSUME NEW t \in Trees, NEW e \in Directories, Entry(t, "analysis_staging") = e
               PROVE  ~contents'[e].sealed
    BY DEF StagingUnsealed, Entry, Names
  <2>1. e # d
    BY <1>0, <1>1, NoDirectoryIsNone DEF Names
  <2> QED
    BY <2>1 DEF StagingUnsealed, Entry
<1>11. SealedIsWhole'
  BY DEF SealedIsWhole
<1> QED
  BY <1>2, <1>3, <1>6, <1>7, <1>8, <1>9, <1>10, <1>11

\* The three renames.
LEMMA Renamed ==
  ASSUME TypedState, TypedState', Safe, contents' = contents,
         NEW p \in Processes, NEW u \in Trees, u = proc[p].tree, proc'[p].tree = u,
         \A q \in Processes : q # p => proc'[q] = proc[q],
         NEW from \in Names, NEW to \in Names \ {"analysis_staging"}, from # to,
         Entry(u, from) # NoDirectory, Entry(u, to) = NoDirectory,
         Entry(u, from)' = NoDirectory, Entry(u, to)' = Entry(u, from),
         \A t \in Trees, n \in Names : (t = u /\ n \in {from, to}) \/ Entry(t, n)' = Entry(t, n),
         to = "report_staging" => proc'[p].pc = "secure_staging",
         to # "report_staging" => proc'[p].pc \notin Inside,
         from = "report_staging" => proc[p].pc \in Inside
  PROVE  Safe'
<1> USE DEF Safe
<1>0. \A t, v \in Trees : \A n, k \in Names :
        Entry(t, n) = Entry(v, k) /\ Entry(t, n) # NoDirectory => t = v /\ n = k
  BY DEF Distinct, Entry
<1>1. Placed'
  BY DEF Placed
<1>2. Distinct'
  <2>1. ASSUME NEW t \in Trees, NEW n \in Names, Entry(t, n)' # NoDirectory
        PROVE  \/ t = u /\ n = to
               \/ (t # u \/ n \notin {from, to}) /\ Entry(t, n)' = Entry(t, n)
    BY <2>1
  <2>2. \A t, v \in Trees : \A n, k \in Names :
          Entry(t, n)' = Entry(v, k)' /\ Entry(t, n)' # NoDirectory => t = v /\ n = k
    <3> SUFFICES ASSUME NEW t \in Trees, NEW v \in Trees, NEW n \in Names, NEW k \in Names,
                        Entry(t, n)' = Entry(v, k)', Entry(t, n)' # NoDirectory
                 PROVE  t = v /\ n = k
      OBVIOUS
    <3>1. CASE t = u /\ n = to
      <4>1. Entry(v, k)' = Entry(u, from)
        BY <3>1
      <4>2. CASE v = u /\ k = to
        BY <3>1, <4>2
      <4>3. CASE (v # u \/ k \notin {from, to}) /\ Entry(v, k)' = Entry(v, k)
        <5>1. Entry(v, k) = Entry(u, from) /\ Entry(v, k) # NoDirectory
          BY <4>1, <4>3
        <5> QED
          BY <1>0, <4>3, <5>1
      <4> QED
        BY <2>1, <4>2, <4>3
    <3>2. CASE (t # u \/ n \notin {from, to}) /\ Entry(t, n)' = Entry(t, n)
      <4>1. CASE v = u /\ k = to
        <5>1. Entry(t, n) = Entry(u, from) /\ Entry(t, n) # NoDirectory
          BY <3>2, <4>1
        <5> QED
          BY <1>0, <3>2, <5>1
      <4>2. CASE Entry(v, k)' = Entry(v, k)
        <5>1. Entry(t, n) = Entry(v, k) /\ Entry(t, n) # NoDirectory
          BY <3>2, <4>2
        <5> QED
          BY <1>0, <5>1
      <4> QED
        BY <2>1, <4>1, <4>2
    <3> QED
      BY <2>1, <3>1, <3>2
  <2> QED
    BY <2>2 DEF Distinct, Entry
<1>3. ASSUME NEW q \in Processes, q # p, proc'[q].pc \in Inside
      PROVE  /\ proc'[q] = proc[q] /\ proc[q].tree \in Trees
             /\ to = "report_staging" => proc[q].tree # u
             /\ Dir(q, "report_staging") # NoDirectory
             /\ Dir(q, "report_staging")' = Dir(q, "report_staging")
  <2> q \in Processes
    BY <1>3
  <2>1. proc'[q] = proc[q] /\ proc[q].pc \in Inside
    BY <1>3
  <2>2. PICK t \in Trees : /\ t = proc[q].tree
                           /\ Dir(q, "report_staging") = Entry(t, "report_staging")
                           /\ Dir(q, "report_staging")' = Entry(t, "report_staging")'
    BY <2>1 DEF Placed, Inside, Ended, Dir, Entry
  <2>3. Entry(t, "report_staging") # NoDirectory
    BY <2>1, <2>2 DEF Staged
  <2>4. t = u => "report_staging" \notin {from, to}
    BY <1>3, <2>1, <2>2, <2>3 DEF OneReporter
  <2> QED
    BY <2>1, <2>2, <2>3, <2>4 DEF Names
<1>4. proc'[p].pc \in Inside => /\ to = "report_staging" /\ proc'[p].pc = "secure_staging"
                                /\ Dir(p, "report_staging")' = Entry(u, from)
  BY DEF Dir, Entry
<1>5. Staged'
  BY <1>3, <1>4 DEF Staged
<1>6. OneReporter'
  BY <1>3, <1>4 DEF OneReporter
<1>7. Progress'
  <2> SUFFICES ASSUME NEW q \in Processes, proc'[q].pc \in Inside
               PROVE  /\ WorkDone(contents[Dir(q, "report_staging")'], proc'[q])
                      /\ proc'[q].pc = "artifacts_open" => proc'[q].open = Dir(q, "report_staging")'
    BY DEF Progress, Inside
  <2>1. CASE q = p
    BY <1>4, <2>1 DEF WorkDone
  <2>2. CASE q # p
    BY <1>3, <2>2 DEF Progress
  <2> QED
    BY <2>1, <2>2
<1>8. StagingUnsealed'
  <2>1. \A t \in Trees : Entry(t, "analysis_staging")' # NoDirectory =>
          Entry(t, "analysis_staging")' = Entry(t, "analysis_staging")
    BY DEF Names
  <2> QED
    BY <2>1, NoDirectoryIsNone DEF StagingUnsealed, Entry
<1>9. Authored' /\ SealedIsWhole'
  BY DEF Authored, SealedIsWhole
<1> QED
  BY <1>1, <1>2, <1>5, <1>6, <1>7, <1>8, <1>9

\* Steps that touch neither names nor contents.
LEMMA Quiet ==
  ASSUME TypedState, TypedState', Safe, contents' = contents,
         \A t \in Trees, n \in Names : Entry(t, n)' = Entry(t, n),
         \A p \in Processes : proc'[p] = proc[p] \/ Moved(p)
  PROVE  Safe'
<1>1. "ours" \in Trees /\ "analysis" \in Names
  BY DEF Trees, Names
<1>2. \A d \in Directories : Kept(d)
  BY DEF Kept
<1> QED
  BY <1>1, <1>2, Elsewhere

\* Names are what the tree says.
LEMMA SameTree == tree' = tree => \A t \in Trees, n \in Names : Entry(t, n)' = Entry(t, n)
  BY DEF Entry

\* What the small steps do to the processes: going on, ...
LEMMA GotoFacts ==
  ASSUME TypedState, NEW p \in Processes, NEW there, Goto(p, there)
  PROVE  /\ \A q \in Processes : q # p => proc'[q] = proc[q]
         /\ proc'[p].pc = there /\ proc'[p].tree = proc[p].tree
         /\ proc'[p].run = proc[p].run /\ proc'[p].open = proc[p].open
  BY SMT DEF Goto, TypedState, ProcRecords

\* ... ending, ...
LEMMA EndFacts ==
  ASSUME TypedState, NEW p \in Processes, NEW how \in Ended, End(p, how)
  PROVE  \A q \in Processes : proc'[q] = proc[q] \/ Moved(q)
<1>1. proc'[p].pc = how /\ \A q \in Processes : q # p => proc'[q] = proc[q]
  BY SMT DEF End, TypedState, Idle
<1>2. how \notin Inside /\ how # "artifacts_open"
  BY DEF Ended, Inside
<1> QED
  BY <1>1, <1>2 DEF Moved

\* ... and a check that passes, which goes on in the same tree.
LEMMA CheckFacts ==
  ASSUME TypedState, Safe, NEW p \in Processes, NEW here, NEW passed, NEW there,
         Check(p, here, passed, there), here \notin Ended \cup {"create", "anchor"},
         there # "artifacts_open",
         passed /\ there \in Inside => here \in Inside,
         passed /\ there \in Inside /\ proc'[p].pc = there /\ proc'[p].tree = proc[p].tree =>
           WorkDone(contents'[Dir(p, "report_staging")], proc'[p])
  PROVE  \A q \in Processes : proc'[q] = proc[q] \/ Moved(q)
<1>1. CASE passed
  <2>1. Goto(p, there) /\ proc[p].pc = here
    BY <1>1 DEF Check
  <2>2. proc[p].tree \in Trees
    BY <2>1 DEF Safe, Placed
  <2> QED
    BY <1>1, <2>1, <2>2, GotoFacts DEF Moved
<1>2. CASE ~passed
  BY <1>2, EndFacts DEF Check, Ended
<1> QED
  BY <1>1, <1>2
-----------------------------------------------------------------------------
\* secure_directory and the opening of files touch nothing else that counts.

\* secure_directory by itself.
LEMMA SecureSafe ==
  ASSUME TypedState, TypedState', Safe, NEW p \in Processes, NEW n \in Names,
         NEW here \in Analysing \cup Reporting, NEW there, Secure(p, here, n, there),
         there \notin {"artifacts", "artifacts_open", "version", "bind", "mark"},
         there \in Inside => here \in Inside
  PROVE  Safe'
<1>1. proc[p].pc = here /\ Room(p, n) /\ Goto(p, there) /\ tree' = SecuredTree(p, n)
      /\ contents' = SecuredContents(p, n)
  BY DEF Secure
<1>2. proc[p].tree \in Trees
  BY <1>1 DEF Safe, Placed, Analysing, Reporting, Ended
<1>3. PICK u \in Trees : u = proc[p].tree
  BY <1>2
<1>4. \A t \in Trees, m \in Names :
        Entry(t, m)' = IF t = u /\ m = n THEN Secured(p, n) ELSE Entry(t, m)
  BY <1>1, <1>2, <1>3, SecuredFacts DEF Entry
<1>5. Secured(p, n) \in Directories
  BY <1>1, <1>2, SecuredFacts
<1>6. \A q \in Processes : proc'[q] = proc[q] \/ Moved(q)
  BY <1>1, <1>2, GotoFacts DEF Moved, WorkDone
<1>7. CASE Dir(p, n) # NoDirectory
  <2>1. contents' = contents /\ Secured(p, n) = Dir(p, n)
    BY <1>1, <1>2, <1>7, SecuredFacts
  <2>2. \A t \in Trees, m \in Names : Entry(t, m)' = Entry(t, m)
    BY <1>3, <1>4, <2>1 DEF Entry, Dir
  <2> QED
    BY <1>6, <2>1, <2>2, Quiet
<1>8. CASE Dir(p, n) = NoDirectory
  <2>1. /\ contents' = [contents EXCEPT ![Secured(p, n)] = Empty]
        /\ \A t \in Trees, m \in Names : Entry(t, m) # Secured(p, n)
    BY <1>1, <1>2, <1>8, SecuredFacts DEF Reachable, Entry
  <2>2. contents'[Secured(p, n)] = Empty
    BY <1>5, <2>1 DEF TypedState
  <2>3. New(Secured(p, n))
    BY <2>1, <2>2 DEF New, Empty
  <2>4. \A d \in Directories : Kept(d) \/ New(d)
    BY <1>5, <2>1, <2>3 DEF Kept, TypedState
  <2>5. Entry(u, n) = NoDirectory /\ Entry(u, n)' = Secured(p, n)
    BY <1>3, <1>4, <1>8 DEF Entry, Dir
  <2> QED
    BY <1>4, <1>5, <1>6, <2>3, <2>4, <2>5, Elsewhere
<1> QED
  BY <1>7, <1>8

\* The analysis's files, opened ...
LEMMA OpenSafe ==
  ASSUME TypedState, TypedState', Safe, NEW p \in Processes,
         NEW here \in Analysing, NEW file \in {"tables", "summary"},
         NEW there \in {"tables_open", "summary_open"},
         OpenFiles(p, here, "analysis_staging", file, "analysts", there)
  PROVE  Safe'
<1> DEFINE n == "analysis_staging"
           d == Secured(p, n)
           before == SecuredContents(p, n)
<1>1. proc[p].pc = here /\ Room(p, n) /\ tree' = SecuredTree(p, n) /\ n \in Names
  BY DEF OpenFiles, Names
<1>2. proc[p].tree \in Trees
  BY <1>1 DEF Safe, Placed, Analysing, Ended
<1>3. PICK u \in Trees : u = proc[p].tree
  BY <1>2
<1>4. \A t \in Trees, m \in Names : Entry(t, m)' = IF t = u /\ m = n THEN d ELSE Entry(t, m)
  BY <1>1, <1>2, <1>3, SecuredFacts DEF Entry
<1>5. d \in Directories /\ before \in [Directories -> Contents]
  BY <1>1, <1>2, SecuredFacts
<1>6. \A q \in Processes : proc'[q] = proc[q] \/ Moved(q)
  <2>1. /\ \A q \in Processes : q # p => proc'[q] = proc[q]
        /\ proc'[p].pc = there /\ proc'[p].tree = proc[p].tree
    BY SMT DEF OpenFiles, TypedState, ProcRecords
  <2> QED
    BY <1>2, <2>1 DEF Moved, Inside
<1>7. /\ \A e \in Directories : e # d => contents'[e] = before[e]
      /\ contents'[d].sealed = before[d].sealed
      /\ contents'[d].artifacts = before[d].artifacts
      /\ contents'[d].reporters = before[d].reporters
  <2>1. contents' = [before EXCEPT
          ![d][file] = "partial",
          ![d]["analysts"] = @ \cup {proc[p].run},
          ![d].from = IF file = "tables" THEN @ \cup {proc[p].read} ELSE @]
    BY DEF OpenFiles
  <2> HIDE DEF d, before
  <2> QED
    BY <1>5, <2>1, SMT DEF Contents
<1>8. CASE Dir(p, n) # NoDirectory
  <2>1. before = contents /\ d = Dir(p, n)
    BY <1>1, <1>2, <1>8, SecuredFacts
  <2>2. d = Entry(u, n)
    BY <1>3, <2>1 DEF Entry, Dir
  <2>3. Entry(u, n)' = Entry(u, n)
    BY <1>1, <1>4, <2>2
  <2> HIDE DEF d, before
  <2>4. \A e \in Directories : Kept(e)
    BY <1>7, <2>1, <2>2 DEF Kept
  <2> QED
    BY <1>1, <1>4, <1>6, <2>3, <2>4, Elsewhere
<1>9. CASE Dir(p, n) = NoDirectory
  <2>1. /\ before = [contents EXCEPT ![d] = Empty]
        /\ \A t \in Trees, m \in Names : Entry(t, m) # d
    BY <1>1, <1>2, <1>9, SecuredFacts DEF Reachable, Entry
  <2>2. Entry(u, n) = NoDirectory /\ Entry(u, n)' = d
    BY <1>1, <1>3, <1>4, <1>9 DEF Entry, Dir
  <2> HIDE DEF d, before
  <2>3. before[d] = Empty /\ \A e \in Directories : e # d => before[e] = contents[e]
    BY <1>5, <2>1 DEF TypedState
  <2>4. New(d)
    BY <1>7, <2>1, <2>3 DEF New, Empty
  <2>5. \A e \in Directories : Kept(e) \/ New(e)
    BY <1>7, <2>3, <2>4 DEF Kept
  <2> QED
    BY <1>1, <1>4, <1>5, <1>6, <2>2, <2>4, <2>5, Elsewhere
<1> QED
  BY <1>8, <1>9

\* ... and closed.
LEMMA CloseSafe ==
  ASSUME TypedState, TypedState', Safe, NEW p \in Processes,
         NEW here \in Analysing, NEW file \in {"tables", "summary"},
         NEW there \in {"summary", "reconcile"},
         CloseFiles(p, here, file, "analysts", there)
  PROVE  Safe'
<1> DEFINE d == proc[p].open
<1>1. proc[p].pc = here /\ tree' = tree
  BY DEF CloseFiles
<1>2. proc[p].tree \in Trees
  BY <1>1 DEF Safe, Placed, Analysing, Ended
<1>3. PICK state \in {contents[d][file], "whole"} : contents' = [contents EXCEPT ![d][file] = state]
  BY DEF CloseFiles
<1>4. \A q \in Processes : proc'[q] = proc[q] \/ Moved(q)
  <2>1. /\ \A q \in Processes : q # p => proc'[q] = proc[q]
        /\ proc'[p].pc = there /\ proc'[p].tree = proc[p].tree
    BY SMT DEF CloseFiles, TypedState, ProcRecords
  <2> QED
    BY <1>2, <2>1 DEF Moved, Inside
<1>5. \A e \in Directories : Kept(e)
  <2> HIDE DEF d
  <2>1. \A e \in Directories : e # d => contents'[e] = contents[e]
    BY <1>3 DEF TypedState
  <2>2. d \in Directories => /\ contents'[d].sealed = contents[d].sealed
                             /\ contents'[d].artifacts = contents[d].artifacts
                             /\ contents'[d].reporters = contents[d].reporters
                             /\ contents'[d].versioned = contents[d].versioned
                             /\ contents[d].summary = "whole" => contents'[d].summary = "whole"
    BY <1>3, SMT DEF TypedState, Contents
  <2> QED
    BY <2>1, <2>2 DEF Kept
<1>6. "ours" \in Trees /\ "analysis" \in Names
  BY DEF Trees, Names
<1> QED
  BY <1>1, <1>4, <1>5, <1>6, SameTree, Elsewhere
-----------------------------------------------------------------------------
\* What a report writes, it writes in the directory it took.

\* A report that is under way has its directory.
LEMMA InsideFacts ==
  ASSUME TypedState, Safe, NEW p \in Processes, proc[p].pc \in Inside
  PROVE  /\ proc[p].tree \in Trees /\ Dir(p, "report_staging") \in Directories
         /\ Dir(p, "report_staging") # NoDirectory
         /\ WorkDone(contents[Dir(p, "report_staging")], proc[p])
<1>1. proc[p].tree \in Trees
  BY DEF Safe, Placed, Inside, Ended
<1>2. Dir(p, "report_staging") # NoDirectory
  BY DEF Safe, Staged
<1>3. Dir(p, "report_staging") \in Directories
  BY <1>1, <1>2 DEF Dir, TypedState, TreeRecords, Names
<1> QED
  BY <1>1, <1>2, <1>3 DEF Safe, Progress

\* There, a path below the staging name means the directory that was taken.
LEMMA InsideSecured ==
  ASSUME TypedState, Safe, NEW p \in Processes, proc[p].pc \in Inside, Room(p, "report_staging")
  PROVE  /\ Secured(p, "report_staging") = Dir(p, "report_staging")
         /\ SecuredContents(p, "report_staging") = contents
         /\ \A t \in Trees, n \in Names :
              SecuredTree(p, "report_staging")[t].entry[n] = tree[t].entry[n]
<1>1. proc[p].tree \in Trees /\ Dir(p, "report_staging") # NoDirectory
  BY InsideFacts
<1>2. "report_staging" \in Names
  BY DEF Names
<1> QED
  BY <1>1, <1>2, SecuredFacts DEF Dir

\* The artifacts: opened, they are the only ones there; closed, they are whole.
LEMMA ArtifactsSafe ==
  ASSUME TypedState, TypedState', Safe, NEW p \in Processes, WriteArtifacts(p)
  PROVE  Safe'
<1> DEFINE d == Dir(p, "report_staging")
<1>0. proc[p].pc \in {"artifacts", "artifacts_open"}
  BY DEF WriteArtifacts, OpenFiles, CloseFiles
<1>1. proc[p].pc \in Inside /\ d \in Directories /\ WorkDone(contents[d], proc[p])
  BY <1>0, InsideFacts DEF Inside
<1>2. CASE OpenFiles(p, "artifacts", "report_staging", "artifacts", "reporters", "artifacts_open")
  <2>1. proc[p].pc = "artifacts" /\ Room(p, "report_staging")
    BY <1>2 DEF OpenFiles
  <2>2. /\ Secured(p, "report_staging") = d
        /\ SecuredContents(p, "report_staging") = contents
        /\ \A t \in Trees, n \in Names : Entry(t, n)' = Entry(t, n)
    BY <1>1, <1>2, <2>1, InsideSecured DEF OpenFiles, Entry
  <2>3. contents[d].reporters = {} /\ ~contents[d].sealed
    BY <1>1, <2>1 DEF WorkDone, Safe, Authored
  <2>4. contents' = [contents EXCEPT ![d]["artifacts"] = "partial",
                                     ![d]["reporters"] = @ \cup {proc[p].run},
                                     ![d].from = IF "artifacts" = "tables" THEN @ \cup {proc[p].read}
                                                 ELSE @]
    BY <1>2, <2>2 DEF OpenFiles
  <2>5. /\ \A q \in Processes : q # p => proc'[q] = proc[q]
        /\ proc'[p].pc = "artifacts_open" /\ proc'[p].tree = proc[p].tree
        /\ proc'[p].run = proc[p].run /\ proc'[p].open = d
    <3>1. proc' = [proc EXCEPT ![p].pc = "artifacts_open", ![p].open = d]
      BY <1>2, <2>2 DEF OpenFiles
    <3> HIDE DEF d
    <3> QED
      BY <3>1, SMT DEF TypedState, ProcRecords
  <2>6. /\ \A e \in Directories : e # d => contents'[e] = contents[e]
        /\ contents'[d].sealed = contents[d].sealed /\ contents'[d].artifacts = "partial"
        /\ contents'[d].reporters = {proc[p].run}
    <3> DEFINE first == [contents EXCEPT ![d]["artifacts"] = "partial"]
               second == [first EXCEPT ![d]["reporters"] = @ \cup {proc[p].run}]
               v == IF "artifacts" = "tables" THEN second[d].from \cup {proc[p].read}
                    ELSE second[d].from
    <3>1. contents' = [second EXCEPT ![d].from = v]
      BY <2>4
    <3> HIDE DEF d
    <3>2. /\ first \in [Directories -> Contents]
          /\ \A e \in Directories : e # d => first[e] = contents[e]
          /\ first[d].sealed = contents[d].sealed /\ first[d].artifacts = "partial"
          /\ first[d].reporters = {}
      BY <1>1, <2>3, SMTT(30) DEF TypedState, Contents, FileStates
    <3> HIDE DEF first
    <3>3. /\ second \in [Directories -> Contents]
          /\ \A e \in Directories : e # d => second[e] = first[e]
          /\ second[d].sealed = first[d].sealed /\ second[d].artifacts = first[d].artifacts
          /\ second[d].reporters = {proc[p].run}
      <4>1. proc[p].run \in Nat
        BY DEF TypedState, ProcRecords
      <4>2. first[d]["reporters"] \cup {proc[p].run} = {proc[p].run}
        <5>1. first[d]["reporters"] = {}
          BY <3>2
        <5> QED
          BY <5>1
      <4>3. second = [first EXCEPT ![d]["reporters"] = first[d]["reporters"] \cup {proc[p].run}]
        OBVIOUS
      <4> HIDE DEF second
      <4> QED
        BY <1>1, <3>2, <4>1, <4>2, <4>3, SMT DEF Contents
    <3> HIDE DEF second, v
    <3>4. /\ \A e \in Directories : e # d => contents'[e] = second[e]
          /\ contents'[d].sealed = second[d].sealed /\ contents'[d].artifacts = second[d].artifacts
          /\ contents'[d].reporters = second[d].reporters
      BY <1>1, <3>1, <3>3, SMT DEF Contents
    <3> QED
      BY <3>2, <3>3, <3>4
  <2>7. WorkDone(contents'[d], proc'[p]) /\ proc'[p].pc \in Inside
    BY <2>5, <2>6 DEF WorkDone, Inside
  <2> HIDE DEF d
  <2> QED
    BY <1>1, <2>2, <2>3, <2>5, <2>6, <2>7, AtWork DEF d
<1>3. CASE CloseFiles(p, "artifacts_open", "artifacts", "reporters", "version")
  <2>1. proc[p].pc = "artifacts_open" /\ tree' = tree
    BY <1>3 DEF CloseFiles
  <2>2. proc[p].open = d /\ contents[d].reporters = {proc[p].run}
    BY <1>1, <2>1 DEF WorkDone, Safe, Progress
  <2>3. contents' = [contents EXCEPT ![d]["artifacts"] = "whole"]
    BY <1>3, <2>2 DEF CloseFiles
  <2>4. /\ \A q \in Processes : q # p => proc'[q] = proc[q]
        /\ proc'[p].pc = "version" /\ proc'[p].tree = proc[p].tree
    BY <1>3, SMT DEF CloseFiles, TypedState, ProcRecords
  <2>5. /\ \A e \in Directories : e # d => contents'[e] = contents[e]
        /\ contents'[d].sealed = contents[d].sealed /\ contents'[d].artifacts = "whole"
        /\ contents'[d].summary = contents[d].summary
        /\ contents'[d].versioned = contents[d].versioned
    <3> HIDE DEF d
    <3> QED
      BY <1>1, <2>3, SMT DEF TypedState, Contents
  <2>6. WorkDone(contents'[d], proc'[p]) /\ proc'[p].pc \in Inside
    BY <2>4, <2>5 DEF WorkDone, Inside
  <2>7. contents'[d].sealed => contents'[d].summary = "whole" /\ contents'[d].versioned
    BY <1>1, <2>5 DEF Safe, SealedIsWhole
  <2>8. \A t \in Trees, n \in Names : Entry(t, n)' = Entry(t, n)
    BY <2>1, SameTree
  <2> QED
    BY <1>1, <2>4, <2>5, <2>6, <2>7, <2>8, AtWork
<1> QED
  BY <1>2, <1>3 DEF WriteArtifacts

\* The summary's contract and the recovery marker, which comes last.
LEMMA MarkersSafe ==
  ASSUME TypedState, TypedState', Safe, NEW p \in Processes, VersionSummary(p) \/ MarkRecovery(p)
  PROVE  Safe'
<1> DEFINE d == Dir(p, "report_staging")
<1>0. proc[p].pc \in {"version", "mark"} /\ Room(p, "report_staging")
  BY DEF VersionSummary, MarkRecovery
<1>1. proc[p].pc \in Inside /\ d \in Directories /\ WorkDone(contents[d], proc[p])
  BY <1>0, InsideFacts DEF Inside
<1>2. /\ Secured(p, "report_staging") = d
      /\ SecuredContents(p, "report_staging") = contents
      /\ \A t \in Trees, n \in Names : Entry(t, n)' = Entry(t, n)
  BY <1>0, <1>1, InsideSecured DEF VersionSummary, MarkRecovery, Entry
<1>3. contents[d].artifacts = "whole"
  BY <1>0, <1>1 DEF WorkDone
<1>4. CASE VersionSummary(p)
  <2>1. contents' = [contents EXCEPT ![d].summary = "whole", ![d].versioned = TRUE]
        /\ Goto(p, "bind")
    BY <1>2, <1>4 DEF VersionSummary
  <2>2. /\ \A e \in Directories : e # d => contents'[e] = contents[e]
        /\ contents'[d].sealed = contents[d].sealed
        /\ contents'[d].artifacts = contents[d].artifacts
        /\ contents'[d].reporters = contents[d].reporters
        /\ contents'[d].summary = "whole" /\ contents'[d].versioned
    <3> HIDE DEF d
    <3> QED
      BY <1>1, <2>1, SMT DEF TypedState, Contents
  <2>3. /\ \A q \in Processes : q # p => proc'[q] = proc[q]
        /\ proc'[p].pc = "bind" /\ proc'[p].tree = proc[p].tree
    BY <2>1, GotoFacts
  <2>4. WorkDone(contents'[d], proc'[p]) /\ proc'[p].pc \in Inside
    BY <1>3, <2>2, <2>3 DEF WorkDone, Inside
  <2> QED
    BY <1>1, <1>2, <1>3, <2>2, <2>3, <2>4, AtWork
<1>5. CASE MarkRecovery(p)
  <2>1. contents' = [contents EXCEPT ![d].sealed = TRUE] /\ Goto(p, "check")
        /\ proc[p].pc = "mark"
    BY <1>2, <1>5 DEF MarkRecovery
  <2>2. /\ \A e \in Directories : e # d => contents'[e] = contents[e]
        /\ contents'[d].artifacts = contents[d].artifacts
        /\ contents'[d].summary = contents[d].summary
        /\ contents'[d].versioned = contents[d].versioned
    <3> HIDE DEF d
    <3> QED
      BY <1>1, <2>1, SMT DEF TypedState, Contents
  <2>3. /\ \A q \in Processes : q # p => proc'[q] = proc[q]
        /\ proc'[p].pc = "check" /\ proc'[p].tree = proc[p].tree
    BY <2>1, GotoFacts
  <2>4. contents[d].summary = "whole" /\ contents[d].versioned
    BY <1>1, <2>1 DEF WorkDone
  <2>5. WorkDone(contents'[d], proc'[p]) /\ proc'[p].pc \in Inside
    BY <2>3 DEF WorkDone, Inside
  <2> QED
    BY <1>1, <1>2, <1>3, <2>2, <2>3, <2>4, <2>5, AtWork
<1> QED
  BY <1>4, <1>5
-----------------------------------------------------------------------------
\* A promotion that is refused ends the command, another one is a rename.

LEMMA PromoteSafe ==
  ASSUME TypedState, TypedState', Safe, NEW p \in Processes,
         NEW here \in Analysing \cup Reporting, NEW from \in Names,
         NEW to \in Names \ {"analysis_staging"}, from # to, NEW there,
         Promote(p, here, from, to, there), there \notin Ended,
         to = "report_staging" => there = "secure_staging",
         to # "report_staging" => there \notin Inside,
         from = "report_staging" => here \in Inside
  PROVE  Safe'
<1> DEFINE possible == Dir(p, from) # NoDirectory /\ Dir(p, to) = NoDirectory
<1>1. proc[p].pc = here /\ contents' = contents
  BY DEF Promote, Check
<1>2. PICK u \in Trees : u = proc[p].tree
  BY <1>1 DEF Safe, Placed, Analysing, Reporting, Ended
<1>3. Dir(p, from) = Entry(u, from) /\ Dir(p, to) = Entry(u, to)
  BY <1>2 DEF Dir, Entry
<1>4. CASE possible
  <2>1. Goto(p, there)
    BY <1>4 DEF Promote, Check
  <2>2. tree' = [tree EXCEPT ![u].entry[from] = NoDirectory, ![u].entry[to] = Entry(u, from)]
    BY <1>2, <1>3, <1>4 DEF Promote
  <2>3. /\ Entry(u, from)' = NoDirectory /\ Entry(u, to)' = Entry(u, from)
        /\ \A t \in Trees, n \in Names : (t = u /\ n \in {from, to}) \/ Entry(t, n)' = Entry(t, n)
    BY <2>2, SMT DEF Entry, TypedState, TreeRecords
  <2>4. /\ \A q \in Processes : q # p => proc'[q] = proc[q]
        /\ proc'[p].pc = there /\ proc'[p].tree = u
    BY <1>2, <2>1, GotoFacts
  <2> QED
    <3>1. Entry(u, from) # NoDirectory /\ Entry(u, to) = NoDirectory
      BY <1>3, <1>4
    <3>2. /\ to = "report_staging" => proc'[p].pc = "secure_staging"
          /\ to # "report_staging" => proc'[p].pc \notin Inside
          /\ from = "report_staging" => proc[p].pc \in Inside
      BY <1>1, <2>4
    <3> HIDE DEF possible
    <3> QED
      BY <1>1, <1>2, <2>3, <2>4, <3>1, <3>2, Renamed
<1>5. CASE ~possible
  <2>1. End(p, "refused") /\ tree' = tree
    BY <1>5 DEF Promote, Check
  <2> QED
    BY <1>1, <2>1, EndFacts, SameTree, Quiet DEF Ended
<1> QED
  BY <1>4, <1>5

\* Every step keeps the invariant.
LEMMA SafeStep == TypedState /\ TypedState' /\ Safe /\ [Next]_vars => Safe'
<1> SUFFICES ASSUME TypedState, TypedState', Safe, [Next]_vars PROVE Safe'
  OBVIOUS
<1>1. ASSUME NEW p \in Processes, Step(p) PROVE Safe'
  <2> p \in Processes
    BY <1>1
  <2>1. CASE CreateRoot(p)
    <3>1. \A t \in Trees, n \in Names : Entry(t, n)' = Entry(t, n)
      <4>1. tree' \in {tree, [tree EXCEPT !["ours"].marker = "absent"]}
        BY <2>1 DEF CreateRoot
      <4> QED
        BY <4>1, SMT DEF Entry, TypedState, TreeRecords
    <3>2. \A q \in Processes : proc'[q] = proc[q] \/ Moved(q)
      <4>1. CASE visible = "none"
        <5>1. /\ \A q \in Processes : q # p => proc'[q] = proc[q]
              /\ proc'[p].pc = "created" /\ proc'[p].tree = "ours"
          BY <2>1, <4>1, SMT DEF CreateRoot, TypedState, ProcRecords
        <5> QED
          BY <5>1 DEF Moved, Inside, Trees
      <4>2. CASE visible # "none"
        BY <2>1, <4>2, EndFacts DEF CreateRoot, Ended
      <4> QED
        BY <4>1, <4>2
    <3> QED
      BY <2>1, <3>1, <3>2, Quiet DEF CreateRoot
  <2>2. CASE LayoutRoot(p) \/ Extract(p)
    <3>1. \A t \in Trees, n \in Names : Entry(t, n)' = Entry(t, n)
      <4>1. CASE LayoutRoot(p)
        BY <4>1, SMT DEF LayoutRoot, Entry, TypedState, TreeRecords
      <4>2. CASE Extract(p)
        BY <4>2, SMT DEF Extract, Entry, TypedState, TreeRecords
      <4> QED
        BY <2>2, <4>1, <4>2
    <3>2. PICK there \in {"extract", "anchor"} : Goto(p, there)
      BY <2>2 DEF LayoutRoot, Extract
    <3>3. proc[p].tree \in Trees
      BY <2>2 DEF LayoutRoot, Extract, Safe, Placed, Ended
    <3>4. \A q \in Processes : proc'[q] = proc[q] \/ Moved(q)
      BY <3>2, <3>3, GotoFacts DEF Moved, Inside
    <3> QED
      BY <2>2, <3>1, <3>4, Quiet DEF LayoutRoot, Extract
  <2>3. CASE Anchor(p)
    <3> DEFINE held == IF proc[p].command = "recover" THEN proc[p].tree ELSE visible
    <3>1. held \in Trees \cup {"none"}
      BY DEF TypedState, TypedWorld, ProcRecords
    <3>2. \A q \in Processes : proc'[q] = proc[q] \/ Moved(q)
      <4>1. CASE held = "none"
        BY <2>3, <4>1, EndFacts DEF Anchor, Ended
      <4>2. CASE held # "none"
        <5>1. proc' = [proc EXCEPT ![p].pc = "validate", ![p].tree = held]
          BY <2>3, <4>2 DEF Anchor
        <5>2. /\ \A q \in Processes : q # p => proc'[q] = proc[q]
              /\ proc'[p].pc = "validate" /\ proc'[p].tree = held
          <6> HIDE DEF held
          <6> QED
            BY <5>1, SMT DEF TypedState, ProcRecords
        <5> QED
          BY <3>1, <4>2, <5>2 DEF Moved, Inside
      <4> QED
        BY <4>1, <4>2
    <3> QED
      BY <2>3, <3>2, SameTree, Quiet DEF Anchor
  <2>4. CASE \/ RequireCreated(p) \/ Validate(p) \/ AnalysisLayout(p) \/ ReconcileAgain(p)
             \/ ReportPreflight(p)
    <3>1. PICK here \in {"created", "validate", "layout", "reconcile", "preflight"},
               there \in {"layout_root", "parse", "preflight", "stage", "promote_analysis", "take"} :
                 \E passed : Check(p, here, passed, there)
      BY <2>4 DEF RequireCreated, Validate, AnalysisLayout, ReconcileAgain, ReportPreflight
    <3>2. here \notin Ended \cup {"create", "anchor"} /\ there \notin Inside
          /\ there # "artifacts_open"
      BY <3>1 DEF Ended, Inside
    <3>3. \A q \in Processes : proc'[q] = proc[q] \/ Moved(q)
      BY <3>1, <3>2, CheckFacts
    <3>4. tree' = tree /\ contents' = contents
      BY <2>4 DEF RequireCreated, Validate, AnalysisLayout, ReconcileAgain, ReportPreflight
    <3> QED
      BY <3>3, <3>4, SameTree, Quiet
  <2>5. CASE ParseRaw(p)
    <3>1. proc[p].tree \in Trees
      BY <2>5 DEF ParseRaw, Safe, Placed, Ended
    <3>2. /\ \A q \in Processes : q # p => proc'[q] = proc[q]
          /\ proc'[p].pc = "layout" /\ proc'[p].tree = proc[p].tree
      BY <2>5, SMT DEF ParseRaw, TypedState, ProcRecords
    <3>3. \A q \in Processes : proc'[q] = proc[q] \/ Moved(q)
      BY <3>1, <3>2 DEF Moved, Inside
    <3> QED
      BY <2>5, <3>3, SameTree, Quiet DEF ParseRaw
  <2>6. CASE ReadAnalysis(p)
    <3> DEFINE d == Dir(p, "report_staging")
    <3>1. /\ proc[p].pc = "read" /\ proc[p].pc \in Inside
          /\ contents' = contents /\ tree' = tree
          /\ (Goto(p, "artifacts") /\ PreReport(contents[d])) \/ End(p, "refused")
      BY <2>6 DEF ReadAnalysis, Check, Inside
    <3>2. proc[p].tree \in Trees
      BY <3>1, InsideFacts
    <3>3. \A q \in Processes : proc'[q] = proc[q] \/ Moved(q)
      <4>1. CASE Goto(p, "artifacts") /\ PreReport(contents[d])
        <5>1. contents'[d].artifacts = "absent" /\ ~contents'[d].sealed
          BY <3>1, <4>1 DEF PreReport
        <5>2. /\ \A q \in Processes : q # p => proc'[q] = proc[q]
              /\ proc'[p].pc = "artifacts" /\ proc'[p].tree = proc[p].tree
          BY <4>1, GotoFacts
        <5>3. WorkDone(contents'[d], proc'[p])
          BY <5>1, <5>2 DEF WorkDone
        <5> QED
          BY <3>1, <3>2, <5>2, <5>3 DEF Moved
      <4>2. CASE End(p, "refused")
        BY <4>2, EndFacts DEF Ended
      <4> QED
        BY <3>1, <4>1, <4>2
    <3> QED
      BY <3>1, <3>3, SameTree, Quiet
  <2>7. CASE BindArtifacts(p)
    <3> DEFINE d == Dir(p, "report_staging")
    <3>1. proc[p].pc \in Inside /\ proc[p].pc = "bind"
      BY <2>7 DEF BindArtifacts, Inside
    <3>2. proc[p].tree \in Trees /\ WorkDone(contents[d], proc[p])
      BY <3>1, InsideFacts
    <3>3. \A q \in Processes : proc'[q] = proc[q] \/ Moved(q)
      <4>1. CASE Reconciled(p) /\ AllThere(d)
        <5>1. proc' = [proc EXCEPT ![p].pc = "mark", ![p].bound = contents[d]]
          BY <2>7, <4>1 DEF BindArtifacts
        <5>2. /\ \A q \in Processes : q # p => proc'[q] = proc[q]
              /\ proc'[p].pc = "mark" /\ proc'[p].tree = proc[p].tree
          <6> HIDE DEF d
          <6> QED
            BY <5>1, SMT DEF TypedState, ProcRecords
        <5>3. WorkDone(contents'[d], proc'[p])
          BY <2>7, <3>1, <3>2, <5>2 DEF WorkDone, BindArtifacts
        <5> QED
          BY <3>1, <3>2, <5>2, <5>3 DEF Moved
      <4>2. CASE ~(Reconciled(p) /\ AllThere(d))
        BY <2>7, <4>2, EndFacts DEF BindArtifacts, Ended
      <4> QED
        BY <4>1, <4>2
    <3> QED
      BY <2>7, <3>3, SameTree, Quiet DEF BindArtifacts
  <2>8. CASE CheckSealed(p) \/ CheckFinalPath(p)
    <3>1. PICK here \in {"check", "final"}, there \in {"final", "promote_report"} :
                 \E passed : Check(p, here, passed, there)
      BY <2>8 DEF CheckSealed, CheckFinalPath
    <3>2. /\ here \notin Ended \cup {"create", "anchor"} /\ here \in Inside
          /\ there # "artifacts_open"
      BY <3>1 DEF Ended, Inside
    <3>3. proc'[p].pc = there => WorkDone(contents'[Dir(p, "report_staging")], proc'[p])
      BY <3>1 DEF WorkDone
    <3>4. \A q \in Processes : proc'[q] = proc[q] \/ Moved(q)
      BY <3>1, <3>2, <3>3, CheckFacts
    <3>5. tree' = tree /\ contents' = contents
      BY <2>8 DEF CheckSealed, CheckFinalPath
    <3> QED
      BY <3>4, <3>5, SameTree, Quiet
  <2>9. CASE LeaveTree(p)
    <3>1. \A q \in Processes : proc'[q] = proc[q] \/ Moved(q)
      <4>1. CASE proc[p].command = "recover" /\ proc[p].stage = "analysis"
        <5>1. /\ \A q \in Processes : q # p => proc'[q] = proc[q]
              /\ proc'[p].pc = "anchor"
          BY <2>9, <4>1, SMT DEF LeaveTree, TypedState, ProcRecords
        <5> QED
          BY <5>1 DEF Moved, Inside
      <4>2. CASE ~(proc[p].command = "recover" /\ proc[p].stage = "analysis")
        <5>1. Goto(p, "done") \/ End(p, "refused")
          BY <2>9, <4>2 DEF LeaveTree, Check
        <5> QED
          BY <5>1, GotoFacts, EndFacts DEF Moved, Inside, Ended
      <4> QED
        BY <4>1, <4>2
    <3> QED
      BY <2>9, <3>1, SameTree, Quiet DEF LeaveTree
  <2>10. CASE StageAnalysis(p) \/ SecureAnalysis(p) \/ SecureStaging(p) \/ SecureReport(p)
    BY <2>10, SecureSafe DEF StageAnalysis, SecureAnalysis, SecureStaging, SecureReport, Names,
      Analysing, Reporting, Inside
  <2>11. CASE WriteTables(p) \/ WriteSummary(p)
    BY <2>11, OpenSafe, CloseSafe DEF WriteTables, WriteSummary, Analysing
  <2>12. CASE WriteArtifacts(p)
    BY <2>12, ArtifactsSafe
  <2>13. CASE VersionSummary(p) \/ MarkRecovery(p)
    BY <2>13, MarkersSafe
  <2>14. CASE PromoteAnalysis(p)
    BY <2>14, PromoteSafe DEF PromoteAnalysis, Names, Analysing, Ended, Inside
  <2>15. CASE TakeAnalysis(p)
    BY <2>15, PromoteSafe DEF TakeAnalysis, Names, Reporting, Ended, Inside
  <2>16. CASE PromoteReport(p)
    BY <2>16, PromoteSafe DEF PromoteReport, Names, Reporting, Ended, Inside
  <2> QED
    BY <1>1, <2>1, <2>2, <2>3, <2>4, <2>5, <2>6, <2>7, <2>8, <2>9, <2>10, <2>11, <2>12, <2>13,
       <2>14, <2>15, <2>16 DEF Step
<1>2. ASSUME NEW p \in Processes, Stop(p) PROVE Safe'
  BY <1>2, EndFacts, SameTree, Quiet DEF Stop, Ended
<1>3. ASSUME NEW p \in Processes, NEW c \in Commands, Start(p, c) PROVE Safe'
  <2>1. /\ \A q \in Processes : q # p => proc'[q] = proc[q]
        /\ proc'[p].pc \in {"create", "anchor"}
    BY <1>3, SMT DEF Start, TypedState, Idle
  <2>2. \A q \in Processes : proc'[q] = proc[q] \/ Moved(q)
    BY <2>1 DEF Moved, Inside
  <2> QED
    BY <1>3, <2>2, SameTree, Quiet DEF Start
<1>4. ASSUME NEW u \in Trees, EditRaw(u) \/ SwapTree(u) PROVE Safe'
  <2>1. \A t \in Trees, n \in Names : Entry(t, n)' = Entry(t, n)
    BY <1>4, SMT DEF EditRaw, SwapTree, Entry, TypedState, TreeRecords
  <2> QED
    BY <1>4, <2>1, Quiet DEF EditRaw, SwapTree
<1>5. ASSUME NEW u \in Trees, MoveAside(u) PROVE Safe'
  <2> u \in Trees
    BY <1>5
  <2> DEFINE d == tree[u].entry["analysis"]
  <2>1. /\ proc' = proc /\ \A p \in Processes : proc[p].pc \in Ended
        /\ tree' = [tree EXCEPT ![u].entry["analysis"] = NoDirectory]
        /\ contents' = [contents EXCEPT ![d] = Empty]
    BY <1>5 DEF MoveAside, Running
  <2>2. d \in Directories /\ d = Entry(u, "analysis") /\ "analysis" \in Names
    BY <1>5 DEF MoveAside, TypedState, TreeRecords, Names, Entry
  <2>3. \A t \in Trees, n \in Names :
          Entry(t, n)' = IF t = u /\ n = "analysis" THEN NoDirectory ELSE Entry(t, n)
    BY <2>1, SMT DEF Entry, TypedState, TreeRecords
  <2>4. /\ \A e \in Directories : e # d => contents'[e] = contents[e]
        /\ contents'[d] = Empty
    BY <2>1, <2>2 DEF TypedState
  <2>5. ~Empty.sealed /\ Empty.reporters = {}
    BY DEF Empty
  <2>6. \A p \in Processes : proc'[p].pc \notin Inside /\ proc'[p].pc # "artifacts_open"
    BY <2>1 DEF Ended, Inside
  <2> HIDE DEF d
  <2>7. Placed' /\ Staged' /\ OneReporter' /\ Progress'
    BY <2>1, <2>6 DEF Placed, Staged, OneReporter, Progress
  <2>8. Distinct'
    <3>1. \A t, v \in Trees : \A n, k \in Names :
            Entry(t, n) = Entry(v, k) /\ Entry(t, n) # NoDirectory => t = v /\ n = k
      BY DEF Safe, Distinct, Entry
    <3>2. \A t, v \in Trees : \A n, k \in Names :
            Entry(t, n)' = Entry(v, k)' /\ Entry(t, n)' # NoDirectory => t = v /\ n = k
      BY <2>3, <3>1
    <3> QED
      BY <3>2 DEF Distinct, Entry
  <2>9. Authored' /\ SealedIsWhole'
    BY <2>4, <2>5 DEF Safe, Authored, SealedIsWhole
  <2>10. StagingUnsealed'
    <3>1. \A t \in Trees : Entry(t, "analysis_staging")' = Entry(t, "analysis_staging")
      BY <2>3 DEF Names
    <3> QED
      BY <2>4, <2>5, <3>1 DEF Safe, StagingUnsealed, Entry
  <2> QED
    BY <2>7, <2>8, <2>9, <2>10 DEF Safe
<1>6. CASE UNCHANGED vars
  BY <1>6, SameTree, Quiet DEF vars
<1> QED
  BY <1>1, <1>2, <1>3, <1>4, <1>5, <1>6 DEF Next
-----------------------------------------------------------------------------
(***************************************************************************)
(* Where the tables of a directory come from, however commands overlap.    *)
(***************************************************************************)

\* The versions of raw a directory was made from are no later than the one of the tree
\* it is named in; a directory whose report is about to be marked, and every sealed one,
\* was made from the version the extraction's marker binds.
Provenance ==
  /\ \A t \in Trees, n \in Names : Entry(t, n) # NoDirectory =>
       \A v \in contents[Entry(t, n)].from : v <= tree[t].raw
  /\ \A p \in Processes : proc[p].pc \in {"layout", "stage", "tables"} =>
       proc[p].read <= tree[proc[p].tree].raw
  /\ \A p \in Processes : proc[p].pc = "mark" =>
       contents[Dir(p, "report_staging")].from \subseteq {0}
  /\ \A d \in Directories : contents[d].sealed => contents[d].from \subseteq {0}

\* A command that analyses knows that it does.
Stages == \A p \in Processes : proc[p].pc \in Analysing => proc[p].stage = "analysis"

(***************************************************************************)
(* As long as no two commands overlapped: what is in place is whole, and a *)
(* command finds what it left.                                             *)
(***************************************************************************)
Making == {"tables", "tables_open", "summary", "summary_open", "reconcile", "promote_analysis"}

OneRuns == \A p, q \in Processes : Running(p) /\ Running(q) => p = q

Analysed(c) == /\ c.tables = "whole" /\ c.from \subseteq {0}
               /\ c.sealed \/ PreReport(c)

InPlace == \A t \in Trees :
  /\ Entry(t, "analysis") # NoDirectory => /\ Entry(t, "analysis_staging") = NoDirectory
                                           /\ Analysed(contents[Entry(t, "analysis")])
  /\ Entry(t, "report_staging") # NoDirectory =>
       /\ contents[Entry(t, "report_staging")].tables = "whole"
       /\ contents[Entry(t, "report_staging")].from \subseteq {0}

\* What an analysis has done to its staging directory so far.
Made(c, r) ==
  /\ ~c.versioned /\ c.artifacts = "absent" /\ ~c.sealed
  /\ c.analysts = IF r.pc = "tables" THEN {} ELSE {r.run}
  /\ r.pc \notin {"tables", "tables_open"} => c.tables = "whole"
  /\ r.pc \in {"reconcile", "promote_analysis"} => c.summary = "whole"
  /\ r.pc = "promote_analysis" => c.from \subseteq {0}

Position(p) ==
  /\ proc[p].pc = "stage" => /\ Dir(p, "analysis") = NoDirectory
                             /\ Dir(p, "analysis_staging") = NoDirectory
  /\ proc[p].pc \in Making => /\ Dir(p, "analysis_staging") # NoDirectory
                              /\ Made(contents[Dir(p, "analysis_staging")], proc[p])
  /\ proc[p].pc \in {"tables_open", "summary_open"} => proc[p].open = Dir(p, "analysis_staging")
  /\ proc[p].pc = "take" => /\ Dir(p, "analysis") # NoDirectory
                            /\ PreReport(contents[Dir(p, "analysis")])
  /\ proc[p].pc \in Inside => /\ Dir(p, "analysis") = NoDirectory
                              /\ Dir(p, "analysis_staging") = NoDirectory
  /\ proc[p].pc \in {"final", "promote_report"} => contents[Dir(p, "report_staging")].sealed
  /\ proc[p].pc \in {"secure_analysis", "secure_report"} => Dir(p, "analysis") # NoDirectory
  /\ proc[p].pc = "secure_report" \/ (proc[p].pc = "leave" /\ proc[p].stage = "report") =>
       /\ Dir(p, "analysis") # NoDirectory /\ contents[Dir(p, "analysis")].sealed
       /\ Dir(p, "report_staging") = NoDirectory

Alone == ~overlapped => OneRuns /\ InPlace /\ \A p \in Processes : Position(p)

\* The positions Position says nothing about.
Plain == Ended \cup {"create", "created", "layout_root", "extract", "anchor", "validate",
                     "parse", "layout", "preflight"}
-----------------------------------------------------------------------------
\* What the kinds of steps do, for all of the above.

Others(p) == \A q \in Processes : q # p => proc'[q] = proc[q]

Goes(p, there) ==
  /\ Others(p)
  /\ proc'[p].pc = there /\ proc'[p].tree = proc[p].tree /\ proc'[p].stage = proc[p].stage
  /\ proc'[p].run = proc[p].run /\ proc'[p].read = proc[p].read

Ends(p) == Others(p) /\ proc'[p].pc \in Ended

SameNames == \A t \in Trees, n \in Names : Entry(t, n)' = Entry(t, n)
SameRaw == \A t \in Trees : tree'[t].raw = tree[t].raw
OnlyIn(d) == \A e \in Directories : e # d => contents'[e] = contents[e]

LEMMA Going ==
  ASSUME TypedState, NEW p \in Processes, NEW there, Goto(p, there)
  PROVE  Goes(p, there) /\ proc'[p].open = proc[p].open
  BY SMT DEF Goto, TypedState, ProcRecords, Goes, Others

LEMMA Ending ==
  ASSUME TypedState, NEW p \in Processes, NEW how \in Ended, End(p, how)
  PROVE  Ends(p)
  BY SMT DEF End, TypedState, Idle, Ends, Others

LEMMA Checking ==
  ASSUME TypedState, NEW p \in Processes, NEW here, NEW passed, NEW there,
         Check(p, here, passed, there)
  PROVE  proc[p].pc = here /\ ((passed /\ Goes(p, there)) \/ (~passed /\ Ends(p)))
  BY Going, Ending DEF Check, Ended

LEMMA SameTreeSame == tree' = tree => SameNames /\ SameRaw
  BY SameTree DEF SameNames, SameRaw

\* The directory of a command is what its tree's name says.
LEMMA DirIsEntry ==
  ASSUME TypedState, NEW p \in Processes, NEW n \in Names, proc[p].tree \in Trees
  PROVE  /\ Dir(p, n) = Entry(proc[p].tree, n)
         /\ Dir(p, n) \in Directories \cup {NoDirectory}
         /\ Dir(p, n) # NoDirectory => Dir(p, n) \in Directories
  BY DEF Dir, Entry, TypedState, TreeRecords

\* secure_directory keeps the directory of the name, or makes an empty one.
LEMMA Secures ==
  ASSUME TypedState, NEW p \in Processes, NEW n \in Names, NEW u \in Trees, u = proc[p].tree,
         NEW here, NEW there, Secure(p, here, n, there)
  PROVE  /\ Goes(p, there) /\ SameRaw
         /\ \/ Entry(u, n) # NoDirectory /\ SameNames /\ contents' = contents
            \/ \E d \in Directories :
                 /\ Entry(u, n) = NoDirectory /\ Entry(u, n)' = d
                 /\ \A t \in Trees, m \in Names :
                      Entry(t, m) # d /\ ((t = u /\ m = n) \/ Entry(t, m)' = Entry(t, m))
                 /\ OnlyIn(d) /\ contents'[d] = Empty
<1>1. /\ Room(p, n) /\ Goto(p, there) /\ tree' = SecuredTree(p, n)
      /\ contents' = SecuredContents(p, n)
  BY DEF Secure
<1>2. SameRaw
  BY <1>1, SMT DEF SecuredTree, SameRaw, TypedState, TreeRecords
<1>3. \A t \in Trees, m \in Names :
        Entry(t, m)' = IF t = u /\ m = n THEN Secured(p, n) ELSE Entry(t, m)
  BY <1>1, SecuredFacts DEF Entry
<1>4. Secured(p, n) \in Directories /\ Dir(p, n) = Entry(u, n)
  BY <1>1, SecuredFacts, DirIsEntry
<1>5. CASE Dir(p, n) # NoDirectory
  <2>1. contents' = contents /\ Secured(p, n) = Dir(p, n)
    BY <1>1, <1>5, SecuredFacts
  <2>2. SameNames
    BY <1>3, <1>4, <2>1 DEF SameNames
  <2> QED
    BY <1>1, <1>2, <1>4, <1>5, <2>1, <2>2, Going
<1>6. CASE Dir(p, n) = NoDirectory
  <2>1. /\ contents' = [contents EXCEPT ![Secured(p, n)] = Empty]
        /\ \A t \in Trees, m \in Names : Entry(t, m) # Secured(p, n)
    BY <1>1, <1>6, SecuredFacts DEF Reachable, Entry
  <2>2. contents'[Secured(p, n)] = Empty /\ OnlyIn(Secured(p, n))
    BY <1>4, <2>1 DEF TypedState, OnlyIn
  <2> QED
    BY <1>1, <1>2, <1>3, <1>4, <1>6, <2>1, <2>2, Going
<1> QED
  BY <1>5, <1>6

\* The fields of a directory's contents, and one that gets another value.
Fields == {"tables", "from", "summary", "versioned", "artifacts", "sealed", "analysts", "reporters"}

LEMMA ContentsFields == \A b \in Contents : DOMAIN b = Fields
  BY DEF Contents, Fields

LEMMA Rewritten ==
  ASSUME NEW b, DOMAIN b = Fields, NEW f \in Fields, NEW v
  PROVE  /\ [b EXCEPT ![f] = v][f] = v /\ DOMAIN [b EXCEPT ![f] = v] = Fields
         /\ \A g \in Fields \ {f} : [b EXCEPT ![f] = v][g] = b[g]
  OBVIOUS

\* What opening does to a directory's contents b.
Opened(b, c, file, authors, r) ==
  /\ c[file] = "partial"
  /\ c[authors] = b[authors] \cup {r.run}
  /\ c.from = IF file = "tables" THEN b.from \cup {r.read} ELSE b.from
  /\ file # "tables" => c.tables = b.tables
  /\ file # "summary" => c.summary = b.summary
  /\ file # "artifacts" => c.artifacts = b.artifacts
  /\ authors # "analysts" => c.analysts = b.analysts
  /\ c.versioned = b.versioned /\ c.sealed = b.sealed

\* The files are opened in the directory the name has, or in an empty new one.
LEMMA Opens ==
  ASSUME TypedState, NEW p \in Processes, NEW n \in Names, NEW u \in Trees, u = proc[p].tree,
         NEW here, NEW there, NEW file \in {"tables", "summary", "artifacts"},
         NEW authors \in {"analysts", "reporters"}, OpenFiles(p, here, n, file, authors, there)
  PROVE  /\ Goes(p, there) /\ SameRaw
         /\ \E d \in Directories :
              /\ proc'[p].open = d /\ OnlyIn(d)
              /\ \/ /\ Entry(u, n) = d /\ SameNames
                    /\ Opened(contents[d], contents'[d], file, authors, proc[p])
                 \/ /\ Entry(u, n) = NoDirectory /\ Entry(u, n)' = d
                    /\ \A t \in Trees, m \in Names :
                         Entry(t, m) # d /\ ((t = u /\ m = n) \/ Entry(t, m)' = Entry(t, m))
                    /\ Opened(Empty, contents'[d], file, authors, proc[p])
<1> DEFINE d == Secured(p, n)
           before == SecuredContents(p, n)
<1>1. Room(p, n) /\ tree' = SecuredTree(p, n)
  BY DEF OpenFiles
<1>2. SameRaw
  BY <1>1, SMT DEF SecuredTree, SameRaw, TypedState, TreeRecords
<1>3. \A t \in Trees, m \in Names : Entry(t, m)' = IF t = u /\ m = n THEN d ELSE Entry(t, m)
  BY <1>1, SecuredFacts DEF Entry
<1>4. d \in Directories /\ Dir(p, n) = Entry(u, n) /\ before \in [Directories -> Contents]
  BY <1>1, SecuredFacts, DirIsEntry
<1>5. Goes(p, there) /\ proc'[p].open = d
  <2>1. proc' = [proc EXCEPT ![p].pc = there, ![p].open = d]
    BY DEF OpenFiles
  <2> HIDE DEF d
  <2> QED
    BY <2>1, SMT DEF TypedState, ProcRecords, Goes, Others
<1>6. /\ \A e \in Directories : e # d => contents'[e] = before[e]
      /\ Opened(before[d], contents'[d], file, authors, proc[p])
  <2> DEFINE first == [before EXCEPT ![d][file] = "partial"]
             second == [first EXCEPT ![d][authors] = @ \cup {proc[p].run}]
             v == IF file = "tables" THEN second[d].from \cup {proc[p].read} ELSE second[d].from
  <2>1. contents' = [second EXCEPT ![d].from = IF file = "tables" THEN @ \cup {proc[p].read}
                                               ELSE @]
    BY DEF OpenFiles
  <2> HIDE DEF d, before
  <2>2. /\ \A e \in Directories : e # d => first[e] = before[e]
        /\ first[d] = [before[d] EXCEPT ![file] = "partial"]
        /\ first \in [Directories -> Contents]
    BY <1>4, SMT DEF Contents, FileStates
  <2> HIDE DEF first
  <2>3. /\ \A e \in Directories : e # d => second[e] = first[e]
        /\ second[d] = [first[d] EXCEPT ![authors] = @ \cup {proc[p].run}]
    BY <1>4, <2>2
  <2>4. DOMAIN second = Directories
    BY <2>2
  <2> HIDE DEF second
  <2>5. contents' = [second EXCEPT ![d].from = v]
    BY <1>4, <2>1, <2>4
  <2>6. /\ \A e \in Directories : e # d => contents'[e] = second[e]
        /\ contents'[d] = [second[d] EXCEPT !.from = v]
    BY <1>4, <2>4, <2>5
  <2>7. before[d] \in Contents
    BY <1>4
  <2>8. Opened(before[d], contents'[d], file, authors, proc[p])
    <3>1. file \in Fields /\ authors \in Fields /\ "from" \in Fields
      BY DEF Fields
    <3>2. DOMAIN before[d] = Fields
      BY <2>7, ContentsFields
    <3>3. /\ first[d][file] = "partial" /\ DOMAIN first[d] = Fields
          /\ \A g \in Fields \ {file} : first[d][g] = before[d][g]
      BY <2>2, <3>1, <3>2, Rewritten
    <3>4. /\ second[d][authors] = first[d][authors] \cup {proc[p].run} /\ DOMAIN second[d] = Fields
          /\ \A g \in Fields \ {authors} : second[d][g] = first[d][g]
      BY <2>3, <3>1, <3>3, Rewritten
    <3>5. contents'[d]["from"] = v /\ \A g \in Fields \ {"from"} : contents'[d][g] = second[d][g]
      BY <2>6, <3>1, <3>4, Rewritten
    <3>6. second[d].from = before[d].from
      BY <3>3, <3>4 DEF Fields
    <3>7. first[d][authors] = before[d][authors]
      BY <3>1, <3>3
    <3>8. contents'[d].from = IF file = "tables" THEN before[d].from \cup {proc[p].read}
                              ELSE before[d].from
      BY <3>5, <3>6
    <3>9. contents'[d][file] = "partial" /\ contents'[d][authors] = before[d][authors] \cup {proc[p].run}
      BY <3>1, <3>3, <3>4, <3>5, <3>7
    <3>10. \A g \in Fields \ {file, authors, "from"} : contents'[d][g] = before[d][g]
      BY <3>3, <3>4, <3>5
    <3> QED
      BY <3>8, <3>9, <3>10 DEF Opened, Fields
  <2> QED
    BY <2>2, <2>3, <2>6, <2>8
<1>7. CASE Dir(p, n) # NoDirectory
  <2>1. before = contents /\ d = Dir(p, n)
    BY <1>1, <1>7, SecuredFacts
  <2>2. SameNames
    BY <1>3, <1>4, <2>1 DEF SameNames
  <2> HIDE DEF d, before
  <2> QED
    BY <1>2, <1>4, <1>5, <1>6, <2>1, <2>2 DEF OnlyIn
<1>8. CASE Dir(p, n) = NoDirectory
  <2>1. /\ before = [contents EXCEPT ![d] = Empty]
        /\ \A t \in Trees, m \in Names : Entry(t, m) # d
    BY <1>1, <1>8, SecuredFacts DEF Reachable, Entry
  <2> HIDE DEF d, before
  <2>2. before[d] = Empty /\ \A e \in Directories : e # d => before[e] = contents[e]
    BY <1>4, <2>1 DEF TypedState
  <2>3. OnlyIn(d)
    BY <1>6, <2>2 DEF OnlyIn
  <2> QED
    BY <1>2, <1>3, <1>4, <1>5, <1>6, <1>8, <2>1, <2>2, <2>3
<1> QED
  BY <1>7, <1>8

\* What closing does: one file changes.
Closed(b, c, file) ==
  /\ file # "tables" => c.tables = b.tables
  /\ file # "summary" => c.summary = b.summary
  /\ file # "artifacts" => c.artifacts = b.artifacts
  /\ c.from = b.from /\ c.analysts = b.analysts
  /\ c.versioned = b.versioned /\ c.sealed = b.sealed

LEMMA Closes ==
  ASSUME TypedState, NEW p \in Processes, NEW here, NEW there,
         NEW file \in {"tables", "summary", "artifacts"},
         NEW authors \in {"analysts", "reporters"}, CloseFiles(p, here, file, authors, there)
  PROVE  /\ Goes(p, there) /\ SameRaw /\ SameNames
         /\ OnlyIn(proc[p].open)
         /\ proc[p].open \in Directories =>
              /\ Closed(contents[proc[p].open], contents'[proc[p].open], file)
              /\ contents[proc[p].open][authors] = {proc[p].run} =>
                   contents'[proc[p].open][file] = "whole"
<1> DEFINE d == proc[p].open
<1>1. Goes(p, there)
  BY SMT DEF CloseFiles, TypedState, ProcRecords, Goes, Others
<1>2. SameRaw /\ SameNames
  BY SameTreeSame DEF CloseFiles
<1>3. PICK state : /\ contents' = [contents EXCEPT ![d][file] = state]
                   /\ contents[d][authors] = {proc[p].run} => state = "whole"
  BY DEF CloseFiles
<1> HIDE DEF d
<1>4. OnlyIn(d)
  BY <1>3 DEF OnlyIn, TypedState
<1>5. ASSUME d \in Directories
      PROVE  /\ Closed(contents[d], contents'[d], file)
             /\ contents[d][authors] = {proc[p].run} => contents'[d][file] = "whole"
  <2>1. contents'[d] = [contents[d] EXCEPT ![file] = state] /\ contents[d] \in Contents
    BY <1>3, <1>5 DEF TypedState
  <2>2. CASE file = "tables"
    BY <1>3, <2>1, <2>2, SMT DEF Contents, Closed
  <2>3. CASE file = "summary"
    BY <1>3, <2>1, <2>3, SMT DEF Contents, Closed
  <2>4. CASE file = "artifacts"
    BY <1>3, <2>1, <2>4, SMT DEF Contents, Closed
  <2> QED
    BY <2>2, <2>3, <2>4
<1> QED
  BY <1>1, <1>2, <1>4, <1>5 DEF d

\* A rename moves a directory within its tree, or the command is refused.
LEMMA Promotes ==
  ASSUME TypedState, NEW p \in Processes, NEW u \in Trees, u = proc[p].tree,
         NEW from \in Names, NEW to \in Names, from # to, NEW here, NEW there,
         Promote(p, here, from, to, there)
  PROVE  /\ contents' = contents /\ SameRaw
         /\ \/ /\ Goes(p, there)
               /\ Entry(u, from) # NoDirectory /\ Entry(u, to) = NoDirectory
               /\ Entry(u, from)' = NoDirectory /\ Entry(u, to)' = Entry(u, from)
               /\ \A t \in Trees, n \in Names :
                    (t = u /\ n \in {from, to}) \/ Entry(t, n)' = Entry(t, n)
            \/ Ends(p) /\ SameNames
<1> DEFINE possible == Dir(p, from) # NoDirectory /\ Dir(p, to) = NoDirectory
<1>1. contents' = contents /\ Dir(p, from) = Entry(u, from) /\ Dir(p, to) = Entry(u, to)
  BY DirIsEntry DEF Promote
<1>2. CASE possible
  <2>1. Goto(p, there)
    BY <1>2 DEF Promote, Check
  <2>2. tree' = [tree EXCEPT ![u].entry[from] = NoDirectory, ![u].entry[to] = Entry(u, from)]
    BY <1>1, <1>2 DEF Promote
  <2>3. /\ Entry(u, from)' = NoDirectory /\ Entry(u, to)' = Entry(u, from)
        /\ \A t \in Trees, n \in Names : (t = u /\ n \in {from, to}) \/ Entry(t, n)' = Entry(t, n)
        /\ SameRaw
    BY <2>2, SMTT(30) DEF Entry, SameRaw, TypedState, TreeRecords
  <2> QED
    BY <1>1, <1>2, <2>1, <2>3, Going
<1>3. CASE ~possible
  <2>1. End(p, "refused") /\ tree' = tree
    BY <1>3 DEF Promote, Check
  <2> QED
    BY <1>1, <2>1, Ending, SameTreeSame DEF Ended
<1> QED
  BY <1>2, <1>3

\* The two writes of single files of a report.
LEMMA Marks ==
  ASSUME TypedState, Safe, NEW p \in Processes, VersionSummary(p) \/ MarkRecovery(p)
  PROVE  /\ SameNames /\ SameRaw /\ proc[p].pc \in Inside
         /\ Dir(p, "report_staging") \in Directories /\ OnlyIn(Dir(p, "report_staging"))
         /\ contents'[Dir(p, "report_staging")].tables = contents[Dir(p, "report_staging")].tables
         /\ contents'[Dir(p, "report_staging")].from = contents[Dir(p, "report_staging")].from
         /\ \/ /\ proc[p].pc = "version" /\ Goes(p, "bind")
               /\ contents'[Dir(p, "report_staging")].sealed
                    = contents[Dir(p, "report_staging")].sealed
            \/ proc[p].pc = "mark" /\ Goes(p, "check")
<1> DEFINE d == Dir(p, "report_staging")
<1>0. proc[p].pc \in {"version", "mark"} /\ Room(p, "report_staging")
  BY DEF VersionSummary, MarkRecovery
<1>1. proc[p].pc \in Inside /\ d \in Directories /\ proc[p].tree \in Trees
  BY <1>0, InsideFacts DEF Inside
<1>2. /\ Secured(p, "report_staging") = d
      /\ SecuredContents(p, "report_staging") = contents
      /\ SameNames
  BY <1>0, <1>1, InsideSecured DEF VersionSummary, MarkRecovery, Entry, SameNames
<1>3. SameRaw
  <2>1. tree' = SecuredTree(p, "report_staging")
    BY DEF VersionSummary, MarkRecovery
  <2> QED
    BY <2>1, SMT DEF SecuredTree, SameRaw, TypedState, TreeRecords
<1>4. CASE VersionSummary(p)
  <2>1. /\ contents' = [contents EXCEPT ![d].summary = "whole", ![d].versioned = TRUE]
        /\ Goto(p, "bind") /\ proc[p].pc = "version"
    BY <1>2, <1>4 DEF VersionSummary
  <2>2. /\ OnlyIn(d) /\ contents'[d].sealed = contents[d].sealed
        /\ contents'[d].tables = contents[d].tables /\ contents'[d].from = contents[d].from
    <3> HIDE DEF d
    <3> QED
      BY <1>1, <2>1, SMT DEF TypedState, Contents, OnlyIn
  <2> QED
    BY <1>1, <1>2, <1>3, <2>1, <2>2, Going
<1>5. CASE MarkRecovery(p)
  <2>1. /\ contents' = [contents EXCEPT ![d].sealed = TRUE]
        /\ Goto(p, "check") /\ proc[p].pc = "mark"
    BY <1>2, <1>5 DEF MarkRecovery
  <2>2. /\ OnlyIn(d) /\ contents'[d].tables = contents[d].tables
        /\ contents'[d].from = contents[d].from
    <3> HIDE DEF d
    <3> QED
      BY <1>1, <2>1, SMT DEF TypedState, Contents, OnlyIn
  <2> QED
    BY <1>1, <1>2, <1>3, <2>1, <2>2, Going
<1> QED
  BY <1>4, <1>5
-----------------------------------------------------------------------------
\* Provenance is kept by what steps do to the sets `from`.

\* A directory's tables are not made from another version, or from one read in its tree.
FromKept(d) == contents'[d].from \subseteq contents[d].from
FromRead(d) == \E t \in Trees : /\ Entry(t, "analysis_staging")' = d
                                /\ \A v \in contents'[d].from : v <= tree[t].raw

\* What a command has read is in its tree's past; what it is about to mark is checked.
Reads(p) ==
  /\ proc'[p].pc \in {"layout", "stage", "tables"} =>
       proc'[p].read <= tree'[proc'[p].tree].raw
  /\ proc'[p].pc = "mark" => contents'[Dir(p, "report_staging")'].from \subseteq {0}

LEMMA RawTyped == TypedState => \A t \in Trees : tree[t].raw \in Nat
  BY DEF TypedState, TreeRecords

LEMMA FromTyped == TypedState => \A d \in Directories : contents[d].from \subseteq Nat
  BY DEF TypedState, Contents

LEMMA ReadTyped == TypedState => \A p \in Processes : proc[p].read \in Nat
  BY DEF TypedState, ProcRecords

LEMMA EntryTypes ==
  TypedState => \A t \in Trees, n \in Names : Entry(t, n) \in Directories \cup {NoDirectory}
  BY DEF TypedState, TreeRecords, Entry

LEMMA Provenant ==
  ASSUME TypedState, TypedState', Safe, Safe', Provenance,
         \A t \in Trees : tree[t].raw <= tree'[t].raw,
         \A q \in Processes : proc'[q] = proc[q] \/ Reads(q),
         \A t \in Trees, n \in Names : Entry(t, n)' # NoDirectory =>
           \/ \E m \in Names : Entry(t, m) = Entry(t, n)'
           \/ contents'[Entry(t, n)'].from = {}
           \/ FromRead(Entry(t, n)'),
         \A d \in Directories : FromKept(d) \/ FromRead(d),
         \A d \in Directories : contents'[d].sealed =>
           contents[d].sealed \/ contents'[d].from \subseteq {0},
         \A q \in Processes : proc[q].pc = "mark" /\ proc'[q] = proc[q] =>
           Dir(q, "report_staging")' = Dir(q, "report_staging")
  PROVE  Provenance'
<1>a. \A t \in Trees : tree[t].raw \in Nat /\ tree'[t].raw \in Nat
  BY RawTyped, RawTyped DEF TypedState, TreeRecords
<1>b. \A d \in Directories : contents'[d].from \subseteq Nat
  BY DEF TypedState, Contents
<1>c. \A t \in Trees, n \in Names : Entry(t, n)' # NoDirectory => Entry(t, n)' \in Directories
  BY DEF TypedState, TreeRecords, Entry
<1>d. \A t, u \in Trees : \A m, n \in Names :
        Entry(t, m)' = Entry(u, n)' /\ Entry(t, m)' # NoDirectory => t = u /\ m = n
  BY DEF Safe, Distinct, Entry
<1>1. ASSUME NEW t \in Trees, NEW n \in Names, Entry(t, n)' # NoDirectory,
             NEW v \in contents'[Entry(t, n)'].from
      PROVE  v <= tree'[t].raw
  <2> DEFINE d == Entry(t, n)'
  <2>1. d \in Directories /\ v \in Nat /\ d # NoDirectory
    BY <1>1, <1>b, <1>c
  <2>2. CASE FromRead(d)
    <3>1. PICK u \in Trees : /\ Entry(u, "analysis_staging")' = d
                             /\ \A w \in contents'[d].from : w <= tree[u].raw
      BY <2>2 DEF FromRead
    <3>2. u = t
      BY <1>d, <2>1, <3>1 DEF Names
    <3>3. v <= tree[t].raw
      BY <1>1, <3>1, <3>2
    <3>4. tree[t].raw <= tree'[t].raw /\ tree[t].raw \in Nat /\ tree'[t].raw \in Nat
      BY <1>1, <1>a
    <3> QED
      BY <2>1, <3>3, <3>4
  <2>3. CASE FromKept(d) /\ \E m \in Names : Entry(t, m) = d
    <3>1. v \in contents[d].from
      BY <1>1, <2>3 DEF FromKept
    <3>2. v <= tree[t].raw
      BY <1>1, <2>1, <2>3, <3>1 DEF Provenance
    <3>3. tree[t].raw <= tree'[t].raw /\ tree[t].raw \in Nat /\ tree'[t].raw \in Nat
      BY <1>1, <1>a
    <3> QED
      BY <2>1, <3>2, <3>3
  <2>4. contents'[d].from # {}
    BY <1>1
  <2>5. FromKept(d) \/ FromRead(d)
    BY <2>1
  <2>6. (\E m \in Names : Entry(t, m) = d) \/ FromRead(d)
    BY <1>1, <2>4
  <2> QED
    BY <2>2, <2>3, <2>5, <2>6
<1>2. ASSUME NEW p \in Processes, proc'[p].pc \in {"layout", "stage", "tables"}
      PROVE  proc'[p].read <= tree'[proc'[p].tree].raw
  <2>1. CASE proc'[p] = proc[p]
    <3>1. proc[p].read <= tree[proc[p].tree].raw
      BY <1>2, <2>1 DEF Provenance
    <3>2. proc[p].tree \in Trees
      BY <1>2, <2>1 DEF Safe, Placed, Ended
    <3>3. /\ tree[proc[p].tree].raw <= tree'[proc[p].tree].raw
          /\ tree[proc[p].tree].raw \in Nat /\ tree'[proc[p].tree].raw \in Nat
          /\ proc[p].read \in Nat
      BY <3>2, <1>a, ReadTyped
    <3> QED
      BY <2>1, <3>1, <3>3
  <2>2. CASE Reads(p)
    BY <1>2, <2>2 DEF Reads
  <2> QED
    BY <2>1, <2>2
<1>3. ASSUME NEW p \in Processes, proc'[p].pc = "mark"
      PROVE  contents'[Dir(p, "report_staging")'].from \subseteq {0}
  <2>1. CASE proc'[p] = proc[p]
    <3> DEFINE d == Dir(p, "report_staging")
    <3>1. proc[p].pc = "mark" /\ d' = d /\ contents[d].from \subseteq {0}
      BY <1>3, <2>1 DEF Provenance
    <3>2. d \in Directories /\ d # NoDirectory
      BY <3>1, InsideFacts DEF Inside
    <3>3. ~FromRead(d)
      <4>1. PICK t \in Trees : t = proc'[p].tree
        BY <1>3 DEF Safe, Placed, Ended
      <4>2. d = Entry(t, "report_staging")'
        BY <3>1, <4>1 DEF Dir, Entry
      <4> QED
        BY <1>d, <3>2, <4>1, <4>2 DEF FromRead, Names
    <3>4. FromKept(d)
      BY <3>2, <3>3
    <3> QED
      BY <3>1, <3>4 DEF FromKept
  <2>2. CASE Reads(p)
    BY <1>3, <2>2 DEF Reads
  <2> QED
    BY <2>1, <2>2
<1>4. ASSUME NEW d \in Directories, contents'[d].sealed PROVE contents'[d].from \subseteq {0}
  <2>1. CASE contents[d].sealed
    <3>1. contents[d].from \subseteq {0}
      BY <2>1 DEF Provenance
    <3>2. ~FromRead(d)
      <4>1. \A t \in Trees : Entry(t, "analysis_staging")' # d
        BY <1>4 DEF Safe, StagingUnsealed, Entry
      <4> QED
        BY <4>1 DEF FromRead
    <3> QED
      BY <3>1, <3>2 DEF FromKept
  <2>2. CASE contents'[d].from \subseteq {0}
    BY <2>2
  <2> QED
    BY <1>4, <2>1, <2>2
<1> QED
  BY <1>1, <1>2, <1>3, <1>4 DEF Provenance, Entry

\* Steps that move no directory and add no version.
LEMMA ProvenantQuiet ==
  ASSUME TypedState, TypedState', Safe, Safe', Provenance, SameNames,
         \A t \in Trees : tree[t].raw <= tree'[t].raw,
         \A q \in Processes : proc'[q] = proc[q] \/ Reads(q),
         \A d \in Directories : contents'[d].from \subseteq contents[d].from,
         \A d \in Directories : contents'[d].sealed =>
           contents[d].sealed \/ contents'[d].from \subseteq {0}
  PROVE  Provenance'
<1>1. ASSUME NEW q \in Processes, proc[q].pc = "mark", proc'[q] = proc[q]
      PROVE  Dir(q, "report_staging")' = Dir(q, "report_staging")
  <2>1. proc[q].tree \in Trees
    BY <1>1 DEF Safe, Placed, Ended
  <2> QED
    BY <1>1, <2>1 DEF Dir, SameNames, Entry, Names
<1>2. \A t \in Trees, n \in Names : \E m \in Names : Entry(t, m) = Entry(t, n)'
  BY DEF SameNames
<1>3. \A d \in Directories : FromKept(d)
  BY DEF FromKept
<1> QED
  BY <1>1, <1>2, <1>3, Provenant

\* The next position of a command that has not just read, nor is about to mark.
LEMMA ReadsOn ==
  ASSUME TypedState, TypedState', Safe', Provenance, NEW p \in Processes, NEW there,
         Goes(p, there), there # "mark", SameRaw,
         there \in {"layout", "stage", "tables"} =>
           proc[p].pc \in {"layout", "stage", "tables"}
  PROVE  \A q \in Processes : proc'[q] = proc[q] \/ Reads(q)
<1>1. proc'[p].pc \in {"layout", "stage", "tables"} => proc'[p].tree \in Trees
  BY DEF Safe, Placed, Ended
<1>2. Reads(p)
  BY <1>1 DEF Reads, Goes, SameRaw, Provenance
<1> QED
  BY <1>2 DEF Goes, Others

LEMMA ReadsEnd ==
  ASSUME NEW p \in Processes, Ends(p)
  PROVE  \A q \in Processes : proc'[q] = proc[q] \/ Reads(q)
  BY DEF Ends, Others, Reads, Ended

LEMMA RawStays == TypedState /\ SameRaw => \A t \in Trees : tree[t].raw <= tree'[t].raw
  BY RawTyped DEF SameRaw

\* A name's directory that is there stays, where one name gets a new one.
LEMMA MarksStay ==
  ASSUME TypedState, Safe, NEW u \in Trees, NEW n \in Names, Entry(u, n) = NoDirectory,
         \A t \in Trees, m \in Names : (t = u /\ m = n) \/ Entry(t, m)' = Entry(t, m),
         NEW q \in Processes, proc[q].pc = "mark", proc'[q] = proc[q]
  PROVE  Dir(q, "report_staging")' = Dir(q, "report_staging")
<1>1. proc[q].tree \in Trees /\ Dir(q, "report_staging") # NoDirectory
  BY InsideFacts DEF Inside
<1>2. Dir(q, "report_staging") = Entry(proc[q].tree, "report_staging")
  BY DEF Dir, Entry
<1>3. Dir(q, "report_staging")' = Entry(proc[q].tree, "report_staging")'
  BY DEF Dir, Entry
<1>4. ~(proc[q].tree = u /\ "report_staging" = n)
  BY <1>1, <1>2
<1> QED
  BY <1>1, <1>2, <1>3, <1>4 DEF Names
-----------------------------------------------------------------------------
\* Every step keeps Provenance.

\* A name that gets an empty directory brings no version with it.
LEMMA SecureProvenance ==
  ASSUME TypedState, TypedState', Safe, Safe', Provenance, NEW p \in Processes, NEW n \in Names,
         NEW here \in Analysing \cup Reporting, NEW there, Secure(p, here, n, there),
         there \notin {"mark", "layout", "stage"}, there = "tables" => here = "stage"
  PROVE  Provenance'
<1>1. PICK u \in Trees : u = proc[p].tree
  BY DEF Secure, Safe, Placed, Analysing, Reporting, Ended
<1>2. Goes(p, there) /\ SameRaw
  BY <1>1, Secures
<1>3. proc[p].pc = here
  BY DEF Secure
<1>4. \A q \in Processes : proc'[q] = proc[q] \/ Reads(q)
  BY <1>2, <1>3, ReadsOn
<1>5. \A t \in Trees : tree[t].raw <= tree'[t].raw
  BY <1>2, RawStays
<1>6. CASE SameNames /\ contents' = contents
  BY <1>4, <1>5, <1>6, ProvenantQuiet
<1>7. ASSUME NEW d \in Directories, Entry(u, n) = NoDirectory, Entry(u, n)' = d,
             \A t \in Trees, m \in Names :
               Entry(t, m) # d /\ ((t = u /\ m = n) \/ Entry(t, m)' = Entry(t, m)),
             OnlyIn(d), contents'[d] = Empty
      PROVE  Provenance'
  <2>1. contents'[d].from = {} /\ ~contents'[d].sealed
    BY <1>7 DEF Empty
  <2>2. \A e \in Directories : FromKept(e) /\ (contents'[e].sealed => contents[e].sealed)
    BY <1>7, <2>1 DEF OnlyIn, FromKept
  <2>3. \A t \in Trees, m \in Names : \/ \E k \in Names : Entry(t, k) = Entry(t, m)'
                                      \/ contents'[Entry(t, m)'].from = {}
    BY <1>7, <2>1
  <2>4. \A q \in Processes : proc[q].pc = "mark" /\ proc'[q] = proc[q] =>
          Dir(q, "report_staging")' = Dir(q, "report_staging")
    BY <1>7, MarksStay
  <2> QED
    BY <1>4, <1>5, <2>2, <2>3, <2>4, Provenant
<1> QED
  BY <1>1, <1>6, <1>7, Secures

\* The tables are made from what their writer has read.
LEMMA OpenProvenance ==
  ASSUME TypedState, TypedState', Safe, Safe', Provenance, NEW p \in Processes,
         NEW here \in Analysing, NEW file \in {"tables", "summary"},
         NEW there \in {"tables_open", "summary_open"}, file = "tables" => here = "tables",
         OpenFiles(p, here, "analysis_staging", file, "analysts", there)
  PROVE  Provenance'
<1> DEFINE n == "analysis_staging"
<1>0. n \in Names /\ proc[p].pc = here
  BY DEF Names, OpenFiles
<1>1. PICK u \in Trees : u = proc[p].tree
  BY <1>0 DEF Safe, Placed, Analysing, Ended
<1>2. PICK d \in Directories :
        /\ Goes(p, there) /\ SameRaw /\ OnlyIn(d)
        /\ \/ /\ Entry(u, n) = d /\ SameNames
              /\ Opened(contents[d], contents'[d], file, "analysts", proc[p])
           \/ /\ Entry(u, n) = NoDirectory /\ Entry(u, n)' = d
              /\ \A t \in Trees, m \in Names :
                   Entry(t, m) # d /\ ((t = u /\ m = n) \/ Entry(t, m)' = Entry(t, m))
              /\ Opened(Empty, contents'[d], file, "analysts", proc[p])
  BY <1>0, <1>1, Opens
<1>3. \A q \in Processes : proc'[q] = proc[q] \/ Reads(q)
  BY <1>2, ReadsOn
<1>4. \A t \in Trees : tree[t].raw <= tree'[t].raw
  BY <1>2, RawStays
<1>5. file = "tables" => proc[p].read <= tree[u].raw
  BY <1>0, <1>1 DEF Provenance
<1>6. Entry(u, n)' = d
  BY <1>0, <1>2 DEF SameNames
<1>7. \A v \in contents'[d].from : v <= tree[u].raw
  <2>1. CASE Opened(Empty, contents'[d], file, "analysts", proc[p])
    BY <2>1, <1>5 DEF Opened, Empty
  <2>2. CASE Entry(u, n) = d /\ Opened(contents[d], contents'[d], file, "analysts", proc[p])
    <3>1. \A v \in contents[d].from : v <= tree[u].raw
      BY <1>0, <2>2, NoDirectoryIsNone DEF Provenance
    <3> QED
      BY <2>2, <3>1, <1>5 DEF Opened
  <2> QED
    BY <1>2, <2>1, <2>2
<1>8. FromRead(d)
  BY <1>6, <1>7 DEF FromRead
<1>9. \A e \in Directories : FromKept(e) \/ FromRead(e)
  BY <1>2, <1>8 DEF FromKept, OnlyIn
<1>10. \A t \in Trees, m \in Names : \/ \E k \in Names : Entry(t, k) = Entry(t, m)'
                                     \/ FromRead(Entry(t, m)')
  BY <1>2, <1>8 DEF SameNames
<1>11. \A e \in Directories : contents'[e].sealed => contents[e].sealed
  BY <1>2 DEF OnlyIn, Opened, Empty
<1>12. \A q \in Processes : proc[q].pc = "mark" /\ proc'[q] = proc[q] =>
         Dir(q, "report_staging")' = Dir(q, "report_staging")
  <2>1. CASE SameNames
    BY <2>1 DEF SameNames, Safe, Placed, Ended, Dir, Entry, Names
  <2>2. CASE ~SameNames
    BY <1>0, <1>2, <2>2, MarksStay
  <2> QED
    BY <2>1, <2>2
<1> QED
  BY <1>3, <1>4, <1>9, <1>10, <1>11, <1>12, Provenant

\* A rename keeps a directory in its tree, and does not touch another report's.
LEMMA PromoteProvenance ==
  ASSUME TypedState, TypedState', Safe, Safe', Provenance, NEW p \in Processes,
         NEW here \in Analysing \cup Reporting, NEW from \in Names, NEW to \in Names, from # to,
         NEW there, Promote(p, here, from, to, there),
         there \notin {"mark", "layout", "stage", "tables"}, here # "mark",
         from = "report_staging" => here \in Inside
  PROVE  Provenance'
<1>0. proc[p].pc = here
  BY DEF Promote, Check
<1>1. PICK u \in Trees : u = proc[p].tree
  BY <1>0 DEF Safe, Placed, Analysing, Reporting, Ended
<1>2. contents' = contents /\ SameRaw
  BY <1>1, Promotes
<1>3. \A t \in Trees : tree[t].raw <= tree'[t].raw
  BY <1>2, RawStays
<1>4. CASE Ends(p) /\ SameNames
  BY <1>2, <1>3, <1>4, ReadsEnd, ProvenantQuiet
<1>5. CASE /\ Goes(p, there)
           /\ Entry(u, from) # NoDirectory /\ Entry(u, to) = NoDirectory
           /\ Entry(u, from)' = NoDirectory /\ Entry(u, to)' = Entry(u, from)
           /\ \A t \in Trees, n \in Names :
                (t = u /\ n \in {from, to}) \/ Entry(t, n)' = Entry(t, n)
  <2>1. \A q \in Processes : proc'[q] = proc[q] \/ Reads(q)
    BY <1>2, <1>5, ReadsOn
  <2>2. \A t \in Trees, n \in Names : Entry(t, n)' # NoDirectory =>
          \E m \in Names : Entry(t, m) = Entry(t, n)'
    BY <1>5
  <2>3. \A d \in Directories : FromKept(d) /\ (contents'[d].sealed => contents[d].sealed)
    BY <1>2 DEF FromKept
  <2>4. ASSUME NEW q \in Processes, proc[q].pc = "mark", proc'[q] = proc[q]
        PROVE  Dir(q, "report_staging")' = Dir(q, "report_staging")
    <3>1. proc[q].tree \in Trees /\ Dir(q, "report_staging") # NoDirectory
      BY <2>4, InsideFacts DEF Inside
    <3>2. /\ Dir(q, "report_staging") = Entry(proc[q].tree, "report_staging")
          /\ Dir(q, "report_staging")' = Entry(proc[q].tree, "report_staging")'
      BY DEF Dir, Entry
    <3>3. q # p
      BY <1>0, <2>4
    <3>4. proc[q].pc \in Inside
      BY <2>4 DEF Inside
    <3>5. proc[q].tree = u => from # "report_staging"
      BY <1>0, <1>1, <3>3, <3>4 DEF Safe, OneReporter
    <3>6. proc[q].tree = u => to # "report_staging"
      BY <1>5, <3>1, <3>2
    <3>7. PICK t \in Trees : t = proc[q].tree
      BY <3>1
    <3>8. Entry(t, "report_staging")' = Entry(t, "report_staging")
      BY <1>5, <3>5, <3>6, <3>7 DEF Names
    <3> QED
      BY <2>4, <3>2, <3>7, <3>8 DEF Entry
  <2> QED
    BY <1>3, <2>1, <2>2, <2>3, <2>4, Provenant
<1> QED
  BY <1>1, <1>4, <1>5, Promotes

\* What is checked between two positions.
LEMMA CheckSteps ==
  ASSUME NEW p \in Processes,
         \/ RequireCreated(p) \/ Validate(p) \/ AnalysisLayout(p) \/ ReconcileAgain(p)
         \/ ReportPreflight(p) \/ ReadAnalysis(p) \/ CheckSealed(p) \/ CheckFinalPath(p)
  PROVE  /\ tree' = tree /\ contents' = contents /\ UNCHANGED world
         /\ \E here, there, passed :
              /\ Check(p, here, passed, there)
              /\ here \notin Ended /\ there \notin {"mark", "layout", "tables", "tables_open"}
              /\ there = "stage" => here = "layout"
<1>1. tree' = tree /\ contents' = contents /\ UNCHANGED world
  BY DEF RequireCreated, Validate, AnalysisLayout, ReconcileAgain, ReportPreflight, ReadAnalysis,
         CheckSealed, CheckFinalPath
<1>2. \E here \in {"created", "validate", "layout", "reconcile", "preflight", "read", "check", "final"},
         there \in {"layout_root", "parse", "preflight", "stage", "promote_analysis", "take",
                   "artifacts", "final", "promote_report"} :
        (\E passed : Check(p, here, passed, there)) /\ (there = "stage" => here = "layout")
  <2>1. CASE RequireCreated(p) \/ Validate(p)
    BY <2>1 DEF RequireCreated, Validate
  <2>2. CASE AnalysisLayout(p) \/ ReconcileAgain(p)
    BY <2>2 DEF AnalysisLayout, ReconcileAgain
  <2>3. CASE ReportPreflight(p) \/ ReadAnalysis(p)
    BY <2>3 DEF ReportPreflight, ReadAnalysis
  <2>4. CASE CheckSealed(p) \/ CheckFinalPath(p)
    BY <2>4 DEF CheckSealed, CheckFinalPath
  <2> QED
    BY <2>1, <2>2, <2>3, <2>4
<1> QED
  BY <1>1, <1>2 DEF Ended

\* Another marker of the extraction.
LEMMA MarkerOnly ==
  ASSUME TypedState, tree' = tree \/ \E u, m : tree' = [tree EXCEPT ![u].marker = m]
  PROVE  SameNames /\ SameRaw
<1>1. \A t \in Trees : tree'[t].entry = tree[t].entry /\ tree'[t].raw = tree[t].raw
  <2> SUFFICES ASSUME NEW t \in Trees
               PROVE  tree'[t].entry = tree[t].entry /\ tree'[t].raw = tree[t].raw
    OBVIOUS
  <2>1. tree[t] \in TreeRecords
    BY DEF TypedState
  <2>2. ASSUME NEW u, NEW m, tree' = [tree EXCEPT ![u].marker = m]
        PROVE  tree'[t] = tree[t] \/ tree'[t] = [tree[t] EXCEPT !.marker = m]
    BY <2>2 DEF TypedState
  <2>3. tree'[t] = tree[t] \/ \E m : tree'[t] = [tree[t] EXCEPT !.marker = m]
    BY <2>2
  <2>4. \A m : [tree[t] EXCEPT !.marker = m].entry = tree[t].entry
             /\ [tree[t] EXCEPT !.marker = m].raw = tree[t].raw
    BY <2>1, SMT DEF TreeRecords
  <2> QED
    BY <2>3, <2>4
<1> QED
  BY <1>1 DEF SameNames, SameRaw, Entry

\* The steps of a recovery before its stages, which name and write nothing.
LEMMA RootSteps ==
  ASSUME TypedState, NEW p \in Processes,
         CreateRoot(p) \/ LayoutRoot(p) \/ Extract(p) \/ Anchor(p)
  PROVE  /\ contents' = contents /\ SameNames /\ SameRaw /\ UNCHANGED overlapped
         /\ Others(p)
         /\ proc'[p].pc \in Ended \cup {"created", "extract", "anchor", "validate"}
<1>1. CASE CreateRoot(p)
  <2>1. tree' = tree \/ \E u, m : tree' = [tree EXCEPT ![u].marker = m]
    BY <1>1 DEF CreateRoot
  <2>2. SameNames /\ SameRaw
    BY <2>1, MarkerOnly
  <2>3. CASE visible = "none"
    <3>1. Others(p) /\ proc'[p].pc = "created"
      BY <1>1, <2>3, SMT DEF CreateRoot, TypedState, ProcRecords, Others
    <3> QED
      BY <1>1, <2>2, <3>1 DEF CreateRoot
  <2>4. CASE visible # "none"
    <3>1. Ends(p)
      BY <1>1, <2>4, Ending DEF CreateRoot, Ended
    <3> QED
      BY <1>1, <2>2, <3>1 DEF CreateRoot, Ends
  <2> QED
    BY <2>3, <2>4
<1>2. CASE LayoutRoot(p) \/ Extract(p)
  <2>1. PICK there \in {"extract", "anchor"} : Goto(p, there)
    BY <1>2 DEF LayoutRoot, Extract
  <2>2. SameNames /\ SameRaw
    <3>1. \E u, m : tree' = [tree EXCEPT ![u].marker = m]
      BY <1>2 DEF LayoutRoot, Extract
    <3> QED
      BY <3>1, MarkerOnly
  <2>3. Goes(p, there)
    BY <2>1, Going
  <2> QED
    BY <1>2, <2>2, <2>3 DEF LayoutRoot, Extract, Goes, world
<1>3. CASE Anchor(p)
  <2> DEFINE held == IF proc[p].command = "recover" THEN proc[p].tree ELSE visible
  <2>1. CASE held = "none"
    <3>1. Ends(p)
      BY <1>3, <2>1, Ending DEF Anchor, Ended
    <3> QED
      BY <1>3, <3>1, SameTreeSame DEF Anchor, Ends, world
  <2>2. CASE held # "none"
    <3>1. proc' = [proc EXCEPT ![p].pc = "validate", ![p].tree = held]
      BY <1>3, <2>2 DEF Anchor
    <3>2. Others(p) /\ proc'[p].pc = "validate"
      <4> HIDE DEF held
      <4> QED
        BY <3>1, SMT DEF TypedState, ProcRecords, Others
    <3> QED
      BY <1>3, <3>2, SameTreeSame DEF Anchor, world
  <2> QED
    BY <2>1, <2>2
<1> QED
  BY <1>1, <1>2, <1>3

\* A stage's end, in the tree it was in.
LEMMA Leaves ==
  ASSUME TypedState, NEW p \in Processes, LeaveTree(p)
  PROVE  /\ contents' = contents /\ SameNames /\ SameRaw /\ UNCHANGED overlapped
         /\ Others(p) /\ proc[p].pc = "leave"
         /\ \/ proc'[p].pc \in {"anchor", "refused"}
            \/ proc'[p].pc = "done" /\ visible = proc[p].tree
<1>1. CASE proc[p].command = "recover" /\ proc[p].stage = "analysis"
  <2>1. Others(p) /\ proc'[p].pc = "anchor"
    BY <1>1, SMT DEF LeaveTree, TypedState, ProcRecords, Others
  <2> QED
    BY <2>1, SameTreeSame DEF LeaveTree, world
<1>2. CASE ~(proc[p].command = "recover" /\ proc[p].stage = "analysis")
  <2>1. CASE visible = proc[p].tree
    <3>1. Goto(p, "done")
      BY <1>2, <2>1 DEF LeaveTree, Check
    <3> QED
      BY <2>1, <3>1, Going, SameTreeSame DEF LeaveTree, world, Goes
  <2>2. CASE visible # proc[p].tree
    <3>1. End(p, "refused")
      BY <1>2, <2>2 DEF LeaveTree, Check
    <3>2. Others(p) /\ proc'[p].pc = "refused"
      BY <3>1, SMT DEF End, TypedState, Idle, Others
    <3> QED
      BY <3>2, SameTreeSame DEF LeaveTree, world
  <2> QED
    BY <2>1, <2>2
<1> QED
  BY <1>1, <1>2

\* The user moves an analysis aside.
LEMMA MovesAside ==
  ASSUME TypedState, NEW u \in Trees, MoveAside(u)
  PROVE  \E d \in Directories :
           /\ \A p \in Processes : ~Running(p)
           /\ proc' = proc /\ UNCHANGED overlapped /\ SameRaw
           /\ d = Entry(u, "analysis") /\ Entry(u, "analysis")' = NoDirectory
           /\ \A t \in Trees, n \in Names :
                (t = u /\ n = "analysis") \/ Entry(t, n)' = Entry(t, n)
           /\ OnlyIn(d) /\ contents'[d] = Empty
<1> DEFINE d == tree[u].entry["analysis"]
<1>1. /\ proc' = proc /\ \A p \in Processes : ~Running(p)
      /\ tree' = [tree EXCEPT ![u].entry["analysis"] = NoDirectory]
      /\ contents' = [contents EXCEPT ![d] = Empty]
  BY DEF MoveAside
<1>2. d \in Directories /\ d = Entry(u, "analysis") /\ "analysis" \in Names
  BY DEF MoveAside, TypedState, TreeRecords, Names, Entry
<1>3. /\ Entry(u, "analysis")' = NoDirectory
      /\ \A t \in Trees, n \in Names : (t = u /\ n = "analysis") \/ Entry(t, n)' = Entry(t, n)
      /\ SameRaw
  <2>1. \A t \in Trees : tree[t] \in TreeRecords /\ tree'[t] =
          IF t = u THEN [tree[u] EXCEPT !.entry["analysis"] = NoDirectory] ELSE tree[t]
    BY <1>1 DEF TypedState
  <2> HIDE DEF d
  <2> QED
    BY <2>1, SMT DEF Entry, TreeRecords, SameRaw, Names
<1>4. OnlyIn(d) /\ contents'[d] = Empty
  BY <1>1, <1>2 DEF TypedState, OnlyIn
<1> HIDE DEF d
<1> QED
  BY <1>1, <1>2, <1>3, <1>4 DEF MoveAside, world

LEMMA ProvenanceStep ==
  ASSUME TypedState, TypedState', Safe, Safe', Provenance, [Next]_vars
  PROVE  Provenance'
<1>1. ASSUME NEW p \in Processes, Step(p) PROVE Provenance'
  <2> p \in Processes
    BY <1>1
  <2>1. CASE CreateRoot(p) \/ LayoutRoot(p) \/ Extract(p) \/ Anchor(p) \/ LeaveTree(p)
    <3>1. /\ contents' = contents /\ SameNames /\ SameRaw /\ Others(p)
          /\ proc'[p].pc \notin {"layout", "stage", "tables", "mark"}
      BY <2>1, RootSteps, Leaves DEF Ended
    <3>2. \A q \in Processes : proc'[q] = proc[q] \/ Reads(q)
      BY <3>1 DEF Others, Reads
    <3> QED
      BY <3>1, <3>2, RawStays, ProvenantQuiet
  <2>2. CASE \/ RequireCreated(p) \/ Validate(p) \/ AnalysisLayout(p) \/ ReconcileAgain(p)
             \/ ReportPreflight(p) \/ ReadAnalysis(p) \/ CheckSealed(p) \/ CheckFinalPath(p)
    <3>1. PICK here, there, passed :
            /\ Check(p, here, passed, there)
            /\ here \notin Ended /\ there \notin {"mark", "layout", "tables", "tables_open"}
            /\ there = "stage" => here = "layout"
      BY <2>2, CheckSteps
    <3>2. tree' = tree /\ contents' = contents
      BY <2>2, CheckSteps
    <3>3. proc[p].pc = here /\ (Goes(p, there) \/ Ends(p))
      BY <3>1, Checking
    <3>4. SameNames /\ SameRaw
      BY <3>2, SameTreeSame
    <3>5. \A q \in Processes : proc'[q] = proc[q] \/ Reads(q)
      BY <3>1, <3>3, <3>4, ReadsOn, ReadsEnd
    <3> QED
      BY <3>2, <3>4, <3>5, RawStays, ProvenantQuiet
  <2>3. CASE ParseRaw(p)
    <3>1. tree' = tree /\ contents' = contents
      BY <2>3 DEF ParseRaw
    <3>2. /\ Others(p) /\ proc'[p].pc = "layout" /\ proc'[p].tree = proc[p].tree
          /\ proc'[p].read = tree[proc[p].tree].raw
      BY <2>3, SMT DEF ParseRaw, TypedState, ProcRecords, Others
    <3>3. proc[p].tree \in Trees
      BY <2>3 DEF ParseRaw, Safe, Placed, Ended
    <3>4. tree[proc[p].tree].raw \in Nat
      BY <3>3, RawTyped
    <3>5. Reads(p)
      BY <3>1, <3>2, <3>4 DEF Reads
    <3>6. \A q \in Processes : proc'[q] = proc[q] \/ Reads(q)
      BY <3>2, <3>5 DEF Others
    <3>7. SameNames /\ SameRaw
      BY <3>1, SameTreeSame
    <3> QED
      BY <3>1, <3>6, <3>7, RawStays, ProvenantQuiet
  <2>4. CASE BindArtifacts(p)
    <3> DEFINE d == Dir(p, "report_staging")
    <3>1. tree' = tree /\ contents' = contents /\ proc[p].pc = "bind"
      BY <2>4 DEF BindArtifacts
    <3>2. proc[p].tree \in Trees /\ d \in Directories /\ d # NoDirectory
      BY <3>1, InsideFacts DEF Inside
    <3>3. ASSUME Reconciled(p) /\ AllThere(d)
          PROVE  \A q \in Processes : proc'[q] = proc[q] \/ Reads(q)
      <4>1. proc' = [proc EXCEPT ![p].pc = "mark", ![p].bound = contents[d]]
        BY <2>4, <3>3 DEF BindArtifacts
      <4>2. Others(p) /\ proc'[p].pc = "mark" /\ proc'[p].tree = proc[p].tree
        <5> HIDE DEF d
        <5> QED
          BY <4>1, SMT DEF TypedState, ProcRecords, Others
      <4>3. \A v \in contents[d].from : v \in Nat /\ v <= 0
        <5>1. d = Entry(proc[p].tree, "report_staging")
          BY DEF Dir, Entry
        <5>2. tree[proc[p].tree].raw = 0
          BY <3>3 DEF Reconciled
        <5> QED
          BY <3>2, <5>1, <5>2, FromTyped DEF Provenance, Names
      <4>4. d' = d
        BY <3>1, <4>2 DEF Dir
      <4>5. contents'[d'].from \subseteq {0}
        <5> HIDE DEF d
        <5> QED
          BY <3>1, <4>3, <4>4
      <4>6. Reads(p)
        BY <4>2, <4>5 DEF Reads
      <4> QED
        BY <4>2, <4>6 DEF Others
    <3>4. ASSUME ~(Reconciled(p) /\ AllThere(d))
          PROVE  \A q \in Processes : proc'[q] = proc[q] \/ Reads(q)
      <4>1. Ends(p)
        BY <2>4, <3>4, Ending DEF BindArtifacts, Ended
      <4> QED
        BY <4>1, ReadsEnd
    <3>5. \A q \in Processes : proc'[q] = proc[q] \/ Reads(q)
      BY <3>3, <3>4
    <3>6. SameNames /\ SameRaw
      BY <3>1, SameTreeSame
    <3> QED
      BY <3>1, <3>5, <3>6, RawStays, ProvenantQuiet
  <2>5. CASE StageAnalysis(p) \/ SecureAnalysis(p) \/ SecureStaging(p) \/ SecureReport(p)
    BY <2>5, SecureProvenance DEF StageAnalysis, SecureAnalysis, SecureStaging, SecureReport, Names,
       Analysing, Reporting
  <2>6. CASE PromoteAnalysis(p) \/ TakeAnalysis(p) \/ PromoteReport(p)
    BY <2>6, PromoteProvenance DEF PromoteAnalysis, TakeAnalysis, PromoteReport, Names,
       Analysing, Reporting, Inside
  <2>7. CASE \/ OpenFiles(p, "tables", "analysis_staging", "tables", "analysts", "tables_open")
             \/ OpenFiles(p, "summary", "analysis_staging", "summary", "analysts", "summary_open")
    BY <2>7, OpenProvenance DEF Analysing
  <2>8. CASE \/ CloseFiles(p, "tables_open", "tables", "analysts", "summary")
             \/ CloseFiles(p, "summary_open", "summary", "analysts", "reconcile")
             \/ CloseFiles(p, "artifacts_open", "artifacts", "reporters", "version")
    <3>1. ASSUME NEW here, NEW there \in {"summary", "reconcile", "version"},
                 NEW file \in {"tables", "summary", "artifacts"},
                 NEW authors \in {"analysts", "reporters"},
                 CloseFiles(p, here, file, authors, there)
          PROVE  Provenance'
      <4>1. /\ Goes(p, there) /\ SameRaw /\ SameNames /\ OnlyIn(proc[p].open)
            /\ proc[p].open \in Directories =>
                 Closed(contents[proc[p].open], contents'[proc[p].open], file)
        BY <3>1, Closes
      <4>2. \A q \in Processes : proc'[q] = proc[q] \/ Reads(q)
        BY <4>1, ReadsOn
      <4>3. \A d \in Directories : /\ contents'[d].from = contents[d].from
                                   /\ contents'[d].sealed = contents[d].sealed
        BY <4>1 DEF OnlyIn, Closed
      <4> QED
        BY <4>1, <4>2, <4>3, RawStays, ProvenantQuiet
    <3> QED
      BY <2>8, <3>1
  <2>9. CASE OpenFiles(p, "artifacts", "report_staging", "artifacts", "reporters", "artifacts_open")
    <3>1. proc[p].pc = "artifacts"
      BY <2>9 DEF OpenFiles
    <3>2. PICK u \in Trees : u = proc[p].tree /\ Entry(u, "report_staging") # NoDirectory
      BY <3>1, InsideFacts DEF Inside, Dir, Entry
    <3>3. PICK d \in Directories :
            /\ Goes(p, "artifacts_open") /\ SameRaw /\ OnlyIn(d) /\ SameNames
            /\ Opened(contents[d], contents'[d], "artifacts", "reporters", proc[p])
      BY <2>9, <3>2, Opens DEF Names
    <3>4. \A q \in Processes : proc'[q] = proc[q] \/ Reads(q)
      BY <3>3, ReadsOn
    <3>5. \A e \in Directories : /\ contents'[e].from = contents[e].from
                                 /\ contents'[e].sealed = contents[e].sealed
      BY <3>3 DEF OnlyIn, Opened
    <3> QED
      BY <3>3, <3>4, <3>5, RawStays, ProvenantQuiet
  <2>10. CASE VersionSummary(p) \/ MarkRecovery(p)
    <3> DEFINE d == Dir(p, "report_staging")
    <3>1. /\ SameNames /\ SameRaw /\ d \in Directories /\ OnlyIn(d)
          /\ contents'[d].from = contents[d].from
          /\ \/ Goes(p, "bind") /\ contents'[d].sealed = contents[d].sealed
             \/ proc[p].pc = "mark" /\ Goes(p, "check")
      BY <2>10, Marks
    <3>2. \A q \in Processes : proc'[q] = proc[q] \/ Reads(q)
      BY <3>1, ReadsOn
    <3>3. contents'[d].sealed => contents[d].sealed \/ contents'[d].from \subseteq {0}
      BY <3>1 DEF Provenance
    <3> HIDE DEF d
    <3>4. \A e \in Directories :
            /\ contents'[e].from = contents[e].from
            /\ contents'[e].sealed => contents[e].sealed \/ contents'[e].from \subseteq {0}
      BY <3>1, <3>3 DEF OnlyIn
    <3> QED
      BY <3>1, <3>2, <3>4, RawStays, ProvenantQuiet
  <2> QED
    BY <1>1, <2>1, <2>2, <2>3, <2>4, <2>5, <2>6, <2>7, <2>8, <2>9, <2>10
       DEF Step, WriteTables, WriteSummary, WriteArtifacts
<1>2. ASSUME NEW p \in Processes, Stop(p) PROVE Provenance'
  <2>1. Ends(p) /\ tree' = tree /\ contents' = contents
    BY <1>2, Ending DEF Stop, Ended
  <2> QED
    BY <2>1, ReadsEnd, SameTreeSame, RawStays, ProvenantQuiet
<1>3. ASSUME NEW p \in Processes, NEW c \in Commands, Start(p, c) PROVE Provenance'
  <2>1. Others(p) /\ proc'[p].pc \in {"create", "anchor"}
    BY <1>3, SMT DEF Start, TypedState, Idle, Others
  <2>2. \A q \in Processes : proc'[q] = proc[q] \/ Reads(q)
    BY <2>1 DEF Others, Reads
  <2>3. tree' = tree /\ contents' = contents
    BY <1>3 DEF Start
  <2> QED
    BY <2>2, <2>3, SameTreeSame, RawStays, ProvenantQuiet
<1>4. ASSUME NEW u \in Trees, EditRaw(u) PROVE Provenance'
  <2>1. contents' = contents /\ proc' = proc
    BY <1>4 DEF EditRaw
  <2>2. SameNames /\ \A t \in Trees : tree'[t].raw \in {tree[t].raw, tree[t].raw + 1}
    BY <1>4, SMT DEF EditRaw, TypedState, TreeRecords, SameNames, Entry
  <2>3. \A t \in Trees : tree[t].raw <= tree'[t].raw
    BY <2>2, RawTyped
  <2> QED
    BY <2>1, <2>2, <2>3, ProvenantQuiet
<1>5. ASSUME NEW u \in Trees, SwapTree(u) PROVE Provenance'
  <2>1. tree' = tree /\ contents' = contents /\ proc' = proc
    BY <1>5 DEF SwapTree
  <2> QED
    BY <2>1, SameTreeSame, RawStays, ProvenantQuiet
<1>6. ASSUME NEW u \in Trees, MoveAside(u) PROVE Provenance'
  <2>1. PICK d \in Directories :
          /\ \A p \in Processes : ~Running(p)
          /\ proc' = proc /\ SameRaw
          /\ Entry(u, "analysis")' = NoDirectory
          /\ \A t \in Trees, n \in Names : (t = u /\ n = "analysis") \/ Entry(t, n)' = Entry(t, n)
          /\ OnlyIn(d) /\ contents'[d] = Empty
    BY <1>6, MovesAside
  <2>2. \A e \in Directories : FromKept(e) /\ (contents'[e].sealed => contents[e].sealed)
    BY <2>1 DEF OnlyIn, FromKept, Empty
  <2>3. \A q \in Processes : proc[q].pc # "mark"
    BY <2>1 DEF Running, Ended
  <2> QED
    BY <2>1, <2>2, <2>3, RawStays, Provenant
<1>7. CASE UNCHANGED vars
  <2>1. tree' = tree /\ contents' = contents /\ proc' = proc
    BY <1>7 DEF vars
  <2> QED
    BY <2>1, SameTreeSame, RawStays, ProvenantQuiet
<1> QED
  BY <1>1, <1>2, <1>3, <1>4, <1>5, <1>6, <1>7 DEF Next
-----------------------------------------------------------------------------
\* Steps of a command that has been alone keep InPlace and its own Position, and no
\* sealed analysis moves or changes.

Stays == \A t \in Trees : Sealed(t) =>
  /\ Entry(t, "analysis")' = Entry(t, "analysis")
  /\ contents'[Entry(t, "analysis")] = contents[Entry(t, "analysis")]

LEMMA DirStays ==
  ASSUME NEW p \in Processes, proc[p].tree \in Trees, proc'[p].tree = proc[p].tree, SameNames
  PROVE  \A n \in Names : Dir(p, n)' = Dir(p, n)
  BY DEF Dir, SameNames, Entry

LEMMA Still == InPlace /\ SameNames /\ contents' = contents => InPlace' /\ Stays
<1> SUFFICES ASSUME InPlace, SameNames, contents' = contents PROVE InPlace' /\ Stays
  OBVIOUS
<1>1. \A t \in Trees : /\ Entry(t, "analysis")' = Entry(t, "analysis")
                       /\ Entry(t, "analysis_staging")' = Entry(t, "analysis_staging")
                       /\ Entry(t, "report_staging")' = Entry(t, "report_staging")
  BY DEF SameNames, Names
<1> QED
  BY <1>1 DEF InPlace, Stays, Entry, Analysed, PreReport

\* Where Position says nothing.
LEMMA PlainPosition ==
  ASSUME NEW p \in Processes, proc'[p].pc \in Plain
  PROVE  Position(p)'
<1>1. /\ proc'[p].pc \notin Making /\ proc'[p].pc \notin Inside
      /\ proc'[p].pc \notin {"stage", "take", "secure_analysis", "secure_report", "leave"}
  BY DEF Plain, Ended, Making, Inside
<1>2. Making = {"tables", "tables_open", "summary", "summary_open", "reconcile", "promote_analysis"}
  BY DEF Making
<1>3. {"final", "promote_report"} \subseteq Inside
  BY DEF Inside
<1> QED
  BY <1>1, <1>2, <1>3 DEF Position

\* Writing in a staging directory.
LEMMA InStaging ==
  ASSUME TypedState, Safe, InPlace, NEW u \in Trees, NEW n \in {"analysis_staging", "report_staging"},
         NEW d \in Directories, d = Entry(u, n), SameNames, OnlyIn(d),
         n = "report_staging" => /\ contents'[d].tables = contents[d].tables
                                 /\ contents'[d].from = contents[d].from
  PROVE  InPlace' /\ Stays
<1>1. \A t \in Trees : /\ Entry(t, "analysis")' = Entry(t, "analysis")
                       /\ Entry(t, "analysis_staging")' = Entry(t, "analysis_staging")
                       /\ Entry(t, "report_staging")' = Entry(t, "report_staging")
  BY DEF SameNames, Names
<1>2. \A t \in Trees, m \in Names : Entry(t, m) \in Directories \cup {NoDirectory}
  BY EntryTypes
<1>3. d # NoDirectory
  BY NoDirectoryIsNone
<1>4. \A t \in Trees : /\ Entry(t, "analysis") # d
                       /\ n = "analysis_staging" => Entry(t, "report_staging") # d
  BY <1>3 DEF Safe, Distinct, Entry, Names
<1>5. ASSUME NEW t \in Trees, Entry(t, "analysis") # NoDirectory
      PROVE  contents'[Entry(t, "analysis")] = contents[Entry(t, "analysis")]
  BY <1>2, <1>4, <1>5 DEF OnlyIn, Names
<1>6. ASSUME NEW t \in Trees, Entry(t, "report_staging") # NoDirectory
      PROVE  /\ contents'[Entry(t, "report_staging")].tables = contents[Entry(t, "report_staging")].tables
             /\ contents'[Entry(t, "report_staging")].from = contents[Entry(t, "report_staging")].from
  BY <1>2, <1>4, <1>6 DEF OnlyIn, Names
<1>7. InPlace'
  <2>1. ASSUME NEW t \in Trees
        PROVE  /\ Entry(t, "analysis")' # NoDirectory =>
                    /\ Entry(t, "analysis_staging")' = NoDirectory
                    /\ Analysed(contents'[Entry(t, "analysis")'])
               /\ Entry(t, "report_staging")' # NoDirectory =>
                    /\ contents'[Entry(t, "report_staging")'].tables = "whole"
                    /\ contents'[Entry(t, "report_staging")'].from \subseteq {0}
    BY <1>1, <1>5, <1>6, <2>1 DEF InPlace
  <2> QED
    BY <2>1 DEF InPlace, Entry, Analysed, PreReport
<1>8. Stays
  BY <1>1, <1>5 DEF Stays, Sealed, Entry
<1> QED
  BY <1>7, <1>8

\* Steps before the stages of a command, and its end.
LEMMA PlainSolo ==
  ASSUME InPlace, NEW p \in Processes, SameNames, contents' = contents, proc'[p].pc \in Plain
  PROVE  InPlace' /\ Position(p)' /\ Stays
  BY Still, PlainPosition

\* The checks.
LEMMA CheckSolo ==
  ASSUME TypedState, TypedState', Safe, Safe', Provenance, InPlace, NEW p \in Processes, Position(p),
         \/ RequireCreated(p) \/ Validate(p) \/ AnalysisLayout(p) \/ ReconcileAgain(p)
         \/ ReportPreflight(p) \/ ReadAnalysis(p) \/ CheckSealed(p) \/ CheckFinalPath(p)
  PROVE  InPlace' /\ Position(p)' /\ Stays
<1>1. tree' = tree /\ contents' = contents /\ SameNames
  BY CheckSteps, SameTreeSame
<1>2. InPlace' /\ Stays
  BY <1>1, Still
<1>3. CASE proc'[p].pc \in Plain
  BY <1>2, <1>3, PlainPosition
<1>4. ASSUME NEW there, Goes(p, there), proc[p].pc \notin Ended \cup {"create", "anchor"}
      PROVE  /\ proc[p].tree \in Trees
             /\ \A n \in Names : Dir(p, n)' = Dir(p, n)
  BY <1>1, <1>4, DirStays DEF Safe, Placed, Goes
<1>5. Ended \subseteq Plain
  BY DEF Plain
<1>6. CASE RequireCreated(p)
  <2>1. proc'[p].pc \in {"layout_root"} \cup Ended
    BY <1>6, Checking DEF RequireCreated, Goes, Ends
  <2> QED
    BY <1>3, <2>1 DEF Plain
<1>7. CASE Validate(p)
  <2>1. proc'[p].pc \in {"parse", "preflight"} \cup Ended
    BY <1>7, Checking DEF Validate, Goes, Ends
  <2> QED
    BY <1>3, <2>1 DEF Plain
<1>8. CASE AnalysisLayout(p)
  <2>1. /\ proc[p].pc = "layout"
        /\ \/ Ends(p)
           \/ /\ Goes(p, "stage")
              /\ Dir(p, "analysis") = NoDirectory /\ Dir(p, "analysis_staging") = NoDirectory
    BY <1>8, Checking DEF AnalysisLayout
  <2>2. CASE Ends(p)
    BY <1>3, <1>5, <2>2 DEF Ends
  <2>3. CASE Goes(p, "stage") /\ Dir(p, "analysis") = NoDirectory
             /\ Dir(p, "analysis_staging") = NoDirectory
    <3>1. Dir(p, "analysis")' = NoDirectory /\ Dir(p, "analysis_staging")' = NoDirectory
      BY <1>4, <2>1, <2>3 DEF Ended, Names
    <3> QED
      BY <1>2, <2>3, <3>1 DEF Position, Goes, Making, Inside
  <2> QED
    BY <2>1, <2>2, <2>3
<1>9. CASE ReconcileAgain(p)
  <2>1. /\ proc[p].pc = "reconcile"
        /\ Ends(p) \/ (Goes(p, "promote_analysis") /\ Reconciled(p))
    BY <1>9, Checking DEF ReconcileAgain
  <2>2. CASE Ends(p)
    BY <1>3, <1>5, <2>2 DEF Ends
  <2>3. CASE Goes(p, "promote_analysis") /\ Reconciled(p)
    <3> DEFINE d == Dir(p, "analysis_staging")
    <3>1. proc[p].tree \in Trees /\ d' = d
      BY <1>4, <2>1, <2>3 DEF Ended, Names
    <3>2. d # NoDirectory /\ Made(contents[d], proc[p])
      BY <2>1 DEF Position, Making
    <3>3. d \in Directories
      BY <3>1, <3>2, DirIsEntry DEF Names
    <3>4. contents[d].from \subseteq {0}
      <4>1. d = Entry(proc[p].tree, "analysis_staging") /\ tree[proc[p].tree].raw = 0
        BY <2>3 DEF Dir, Entry, Reconciled
      <4>2. \A v \in contents[d].from : v \in Nat /\ v <= 0
        BY <3>1, <3>2, <3>3, <4>1, FromTyped DEF Provenance, Names
      <4> QED
        BY <4>2
    <3> HIDE DEF d
    <3>5. Made(contents'[d], proc'[p])
      BY <1>1, <2>1, <2>3, <3>2, <3>4 DEF Made, Goes
    <3>6. Made(contents'[d'], proc'[p]) /\ d' # NoDirectory
      BY <3>1, <3>2, <3>5
    <3> QED
      BY <1>2, <2>3, <3>6 DEF Position, Goes, Making, Inside, d
  <2> QED
    BY <2>1, <2>2, <2>3
<1>10. CASE ReportPreflight(p)
  <2> DEFINE d == Dir(p, "analysis")
  <2>1. /\ proc[p].pc = "preflight"
        /\ Ends(p) \/ (Goes(p, "take") /\ d # NoDirectory /\ PreReport(contents[d]))
    BY <1>10, Checking DEF ReportPreflight
  <2>2. CASE Ends(p)
    BY <1>3, <1>5, <2>2 DEF Ends
  <2>3. CASE Goes(p, "take") /\ d # NoDirectory /\ PreReport(contents[d])
    <3>1. d' = d
      BY <1>4, <2>1, <2>3 DEF Ended, Names
    <3>2. d' # NoDirectory /\ PreReport(contents'[d'])
      <4> HIDE DEF d
      <4> QED
        BY <1>1, <2>3, <3>1
    <3> QED
      BY <1>2, <2>3, <3>2 DEF Position, Goes, Making, Inside, PreReport
  <2> QED
    BY <2>1, <2>2, <2>3
<1>11. CASE ReadAnalysis(p) \/ CheckSealed(p) \/ CheckFinalPath(p)
  <2>1. /\ proc[p].pc \in {"read", "check", "final"}
        /\ \/ Ends(p)
           \/ Goes(p, "artifacts")
           \/ Goes(p, "final") /\ contents[Dir(p, "report_staging")].sealed
           \/ Goes(p, "promote_report") /\ proc[p].pc = "final"
    <3>1. CASE ReadAnalysis(p)
      BY <3>1, Checking DEF ReadAnalysis
    <3>2. CASE CheckSealed(p)
      BY <3>2, Checking DEF CheckSealed
    <3>3. CASE CheckFinalPath(p)
      BY <3>3, Checking DEF CheckFinalPath
    <3> QED
      BY <1>11, <3>1, <3>2, <3>3
  <2>2. CASE Ends(p)
    BY <1>3, <1>5, <2>2 DEF Ends
  <2>3. ASSUME NEW there \in {"artifacts", "final", "promote_report"}, Goes(p, there),
               there # "artifacts" => contents[Dir(p, "report_staging")].sealed
        PROVE  Position(p)'
    <3> DEFINE d == Dir(p, "report_staging")
    <3>1. d' = d /\ Dir(p, "analysis")' = NoDirectory /\ Dir(p, "analysis_staging")' = NoDirectory
      BY <1>4, <2>1, <2>3 DEF Ended, Names, Position, Inside
    <3>2. there # "artifacts" => contents'[d'].sealed
      <4> HIDE DEF d
      <4> QED
        BY <1>1, <2>3, <3>1 DEF d
    <3> QED
      BY <2>3, <3>1, <3>2 DEF Position, Goes, Making, Inside
  <2>4. proc[p].pc = "final" => contents[Dir(p, "report_staging")].sealed
    BY DEF Position
  <2> QED
    BY <1>2, <2>1, <2>2, <2>3, <2>4
<1> QED
  BY <1>6, <1>7, <1>8, <1>9, <1>10, <1>11

\* A new, empty directory for an analysis.
LEMMA NewStaging ==
  ASSUME TypedState, InPlace, NEW u \in Trees, NEW d \in Directories,
         Entry(u, "analysis") = NoDirectory,
         \A t \in Trees, m \in Names :
           Entry(t, m) # d /\ ((t = u /\ m = "analysis_staging") \/ Entry(t, m)' = Entry(t, m)),
         OnlyIn(d)
  PROVE  InPlace' /\ Stays
<1>1. \A t \in Trees : /\ Entry(t, "analysis")' = Entry(t, "analysis")
                       /\ Entry(t, "report_staging")' = Entry(t, "report_staging")
                       /\ t # u => Entry(t, "analysis_staging")' = Entry(t, "analysis_staging")
  BY DEF Names
<1>2. \A t \in Trees, m \in Names :
        Entry(t, m) # NoDirectory => contents'[Entry(t, m)] = contents[Entry(t, m)]
  BY EntryTypes DEF OnlyIn
<1>3. ASSUME NEW t \in Trees
      PROVE  /\ Entry(t, "analysis")' # NoDirectory =>
                  /\ Entry(t, "analysis_staging")' = NoDirectory
                  /\ Analysed(contents'[Entry(t, "analysis")'])
             /\ Entry(t, "report_staging")' # NoDirectory =>
                  /\ contents'[Entry(t, "report_staging")'].tables = "whole"
                  /\ contents'[Entry(t, "report_staging")'].from \subseteq {0}
  BY <1>1, <1>2 DEF InPlace, Names
<1>4. Stays
  BY <1>1, <1>2 DEF Stays, Sealed, Entry, Names
<1> QED
  BY <1>3, <1>4 DEF InPlace, Entry, Analysed, PreReport

\* secure_directory: a new directory for the analysis, and later the one that is there.
LEMMA SecureSolo ==
  ASSUME TypedState, Safe, Stages, InPlace, NEW p \in Processes, Position(p),
         StageAnalysis(p) \/ SecureAnalysis(p) \/ SecureStaging(p) \/ SecureReport(p)
  PROVE  InPlace' /\ Position(p)' /\ Stays
<1>1. proc[p].pc \in {"stage", "secure_analysis", "secure_staging", "secure_report"}
  BY DEF StageAnalysis, SecureAnalysis, SecureStaging, SecureReport, Secure
<1>2. PICK u \in Trees : u = proc[p].tree
  BY <1>1 DEF Safe, Placed, Ended
<1>3. /\ Dir(p, "analysis") = Entry(u, "analysis")
      /\ Dir(p, "analysis_staging") = Entry(u, "analysis_staging")
      /\ Dir(p, "report_staging") = Entry(u, "report_staging")
  BY <1>2 DEF Dir, Entry
<1>4. CASE StageAnalysis(p)
  <2>1. /\ proc[p].pc = "stage" /\ Entry(u, "analysis") = NoDirectory
        /\ Entry(u, "analysis_staging") = NoDirectory
    BY <1>3, <1>4 DEF StageAnalysis, Secure, Position
  <2>2. Secure(p, "stage", "analysis_staging", "tables")
    BY <1>4 DEF StageAnalysis
  <2>3. /\ Goes(p, "tables")
        /\ \E d \in Directories :
             /\ Entry(u, "analysis_staging")' = d
             /\ \A t \in Trees, m \in Names :
                  Entry(t, m) # d /\ ((t = u /\ m = "analysis_staging") \/ Entry(t, m)' = Entry(t, m))
             /\ OnlyIn(d) /\ contents'[d] = Empty
    <3>1. "analysis_staging" \in Names
      BY DEF Names
    <3> QED
      BY <1>2, <2>1, <2>2, <3>1, Secures
  <2>4. PICK d \in Directories :
             /\ Entry(u, "analysis_staging")' = d
             /\ \A t \in Trees, m \in Names :
                  Entry(t, m) # d /\ ((t = u /\ m = "analysis_staging") \/ Entry(t, m)' = Entry(t, m))
             /\ OnlyIn(d) /\ contents'[d] = Empty
    BY <2>3
  <2>5. InPlace' /\ Stays
    BY <1>2, <2>1, <2>4, NewStaging
  <2>6. Dir(p, "analysis_staging")' = d
    BY <1>2, <2>3, <2>4 DEF Dir, Entry, Goes
  <2>7. Made(contents'[d], proc'[p])
    BY <2>3, <2>4 DEF Made, Empty, Goes
  <2>8. d # NoDirectory
    BY NoDirectoryIsNone
  <2>9. Dir(p, "analysis_staging")' # NoDirectory /\ Made(contents'[Dir(p, "analysis_staging")'], proc'[p])
    BY <2>6, <2>7, <2>8
  <2> QED
    BY <2>3, <2>5, <2>9 DEF Position, Goes, Making, Inside
<1>5. ASSUME NEW n \in Names, NEW here, NEW there, Secure(p, here, n, there),
             Entry(u, n) # NoDirectory
      PROVE  /\ Goes(p, there) /\ InPlace' /\ Stays /\ contents' = contents
             /\ \A m \in Names : Dir(p, m)' = Dir(p, m)
  <2>1. Goes(p, there) /\ SameNames /\ contents' = contents
    BY <1>2, <1>5, Secures
  <2>2. InPlace' /\ Stays
    BY <2>1, Still
  <2> QED
    BY <1>2, <2>1, <2>2, DirStays DEF Goes
<1>6. CASE SecureAnalysis(p)
  <2>1. /\ proc[p].pc = "secure_analysis" /\ Entry(u, "analysis") # NoDirectory
        /\ proc[p].stage = "analysis"
    BY <1>3, <1>6 DEF SecureAnalysis, Secure, Position, Stages, Analysing
  <2>2. Goes(p, "leave") /\ InPlace' /\ Stays
    BY <1>5, <1>6, <2>1 DEF SecureAnalysis, Names
  <2> QED
    BY <2>1, <2>2 DEF Position, Goes, Making, Inside
<1>7. CASE SecureStaging(p)
  <2>1. /\ proc[p].pc = "secure_staging" /\ Entry(u, "report_staging") # NoDirectory
        /\ Dir(p, "analysis") = NoDirectory /\ Dir(p, "analysis_staging") = NoDirectory
    BY <1>3, <1>7 DEF SecureStaging, Secure, Position, Safe, Staged, Inside
  <2>2. /\ Goes(p, "read") /\ InPlace' /\ Stays
        /\ \A m \in Names : Dir(p, m)' = Dir(p, m)
    BY <1>5, <1>7, <2>1 DEF SecureStaging, Names
  <2>3. Dir(p, "analysis")' = NoDirectory /\ Dir(p, "analysis_staging")' = NoDirectory
    BY <2>1, <2>2 DEF Names
  <2> QED
    BY <2>2, <2>3 DEF Position, Goes, Making, Inside
<1>8. CASE SecureReport(p)
  <2>1. /\ proc[p].pc = "secure_report" /\ Entry(u, "analysis") # NoDirectory
        /\ contents[Dir(p, "analysis")].sealed /\ Dir(p, "report_staging") = NoDirectory
    BY <1>3, <1>8 DEF SecureReport, Secure, Position
  <2>2. /\ Goes(p, "leave") /\ InPlace' /\ Stays /\ contents' = contents
        /\ \A m \in Names : Dir(p, m)' = Dir(p, m)
    BY <1>5, <1>8, <2>1 DEF SecureReport, Names
  <2>3. /\ Dir(p, "analysis")' # NoDirectory /\ contents'[Dir(p, "analysis")'].sealed
        /\ Dir(p, "report_staging")' = NoDirectory
    BY <1>3, <2>1, <2>2 DEF Names
  <2> QED
    BY <2>2, <2>3 DEF Position, Goes, Making, Inside
<1> QED
  BY <1>4, <1>6, <1>7, <1>8

\* Opening the tables or the summary of the analysis a command made.
LEMMA OpenAnalysisSolo ==
  ASSUME TypedState, Safe, InPlace, NEW p \in Processes, Position(p),
         NEW file \in {"tables", "summary"}, NEW there \in {"tables_open", "summary_open"},
         NEW here \in {"tables", "summary"},
         here = "tables" <=> file = "tables", here = "tables" <=> there = "tables_open",
         OpenFiles(p, here, "analysis_staging", file, "analysts", there)
  PROVE  InPlace' /\ Position(p)' /\ Stays
<1>1. proc[p].pc = here
  BY DEF OpenFiles
<1>2. PICK u \in Trees : u = proc[p].tree
  BY <1>1 DEF Safe, Placed, Ended
<1>3. /\ Dir(p, "analysis_staging") = Entry(u, "analysis_staging")
      /\ Entry(u, "analysis_staging") # NoDirectory
      /\ Made(contents[Entry(u, "analysis_staging")], proc[p])
  BY <1>1, <1>2 DEF Dir, Entry, Position, Making
<1>4. /\ Goes(p, there)
      /\ \E d \in Directories :
           /\ proc'[p].open = d /\ OnlyIn(d)
           /\ Entry(u, "analysis_staging") = d /\ SameNames
           /\ Opened(contents[d], contents'[d], file, "analysts", proc[p])
  <2>1. "analysis_staging" \in Names
    BY DEF Names
  <2> QED
    BY <1>2, <1>3, <2>1, Opens
<1>5. PICK d \in Directories :
           /\ proc'[p].open = d /\ OnlyIn(d)
           /\ Entry(u, "analysis_staging") = d /\ SameNames
           /\ Opened(contents[d], contents'[d], file, "analysts", proc[p])
  BY <1>4
<1>6. InPlace' /\ Stays
  BY <1>5, InStaging
<1>7. Dir(p, "analysis_staging")' = d
  BY <1>2, <1>4, <1>5 DEF Dir, Entry, Goes, SameNames, Names
<1>8. Made(contents'[d], proc'[p])
  <2>1. /\ proc'[p].pc = there /\ proc'[p].run = proc[p].run
        /\ Made(contents[d], proc[p])
    BY <1>3, <1>4, <1>5 DEF Goes
  <2>2. Opened(contents[d], contents'[d], file, "analysts", proc[p])
    BY <1>5
  <2>3. CASE file = "tables"
    BY <1>1, <2>1, <2>2, <2>3 DEF Made, Opened
  <2>4. CASE file = "summary"
    BY <1>1, <2>1, <2>2, <2>4 DEF Made, Opened
  <2> QED
    BY <2>3, <2>4
<1>9. d # NoDirectory
  BY NoDirectoryIsNone
<1>10. /\ Dir(p, "analysis_staging")' # NoDirectory
       /\ Made(contents'[Dir(p, "analysis_staging")'], proc'[p])
       /\ proc'[p].open = Dir(p, "analysis_staging")'
  BY <1>5, <1>7, <1>8, <1>9
<1> QED
  BY <1>4, <1>6, <1>10 DEF Position, Goes, Making, Inside

\* Closing them: nobody else opened them.
LEMMA CloseAnalysisSolo ==
  ASSUME TypedState, Safe, InPlace, NEW p \in Processes, Position(p),
         NEW file \in {"tables", "summary"}, NEW here \in {"tables_open", "summary_open"},
         NEW there \in {"summary", "reconcile"},
         here = "tables_open" <=> file = "tables", here = "tables_open" <=> there = "summary",
         CloseFiles(p, here, file, "analysts", there)
  PROVE  InPlace' /\ Position(p)' /\ Stays
<1>1. proc[p].pc = here
  BY DEF CloseFiles
<1>2. PICK u \in Trees : u = proc[p].tree
  BY <1>1 DEF Safe, Placed, Ended
<1>3. PICK d \in Directories : d = Entry(u, "analysis_staging")
  BY <1>1, <1>2, EntryTypes DEF Dir, Entry, Position, Making, Names
<1>4. /\ d # NoDirectory /\ proc[p].open = d
      /\ Made(contents[d], proc[p])
  BY <1>1, <1>2, <1>3 DEF Dir, Entry, Position, Making
<1>5. contents[d].analysts = {proc[p].run}
  BY <1>1, <1>4 DEF Made
<1>6. /\ Goes(p, there) /\ SameNames /\ OnlyIn(d)
      /\ Closed(contents[d], contents'[d], file) /\ contents'[d][file] = "whole"
  BY <1>4, <1>5, Closes
<1>7. InPlace' /\ Stays
  BY <1>3, <1>6, InStaging
<1>8. Dir(p, "analysis_staging")' = d
  BY <1>2, <1>3, <1>6 DEF Dir, Entry, Goes, SameNames, Names
<1>9. Made(contents'[d], proc'[p])
  <2>1. proc'[p].pc = there /\ proc'[p].run = proc[p].run
    BY <1>6 DEF Goes
  <2>2. CASE file = "tables"
    BY <1>1, <1>4, <1>6, <2>1, <2>2 DEF Made, Closed
  <2>3. CASE file = "summary"
    BY <1>1, <1>4, <1>6, <2>1, <2>3 DEF Made, Closed
  <2> QED
    BY <2>2, <2>3
<1>10. /\ Dir(p, "analysis_staging")' # NoDirectory
       /\ Made(contents'[Dir(p, "analysis_staging")'], proc'[p])
  BY <1>4, <1>8, <1>9
<1> QED
  BY <1>6, <1>7, <1>10 DEF Position, Goes, Making, Inside

\* The writes of a report, and its binding, in the directory it took.
LEMMA ReportSolo ==
  ASSUME TypedState, Safe, InPlace, NEW p \in Processes, Position(p),
         \/ WriteArtifacts(p) \/ VersionSummary(p) \/ BindArtifacts(p) \/ MarkRecovery(p)
  PROVE  InPlace' /\ Position(p)' /\ Stays
<1>1. proc[p].pc \in {"artifacts", "artifacts_open", "version", "bind", "mark"}
  BY DEF WriteArtifacts, OpenFiles, CloseFiles, VersionSummary, BindArtifacts, MarkRecovery
<1>2. PICK u \in Trees : u = proc[p].tree
  BY <1>1 DEF Safe, Placed, Ended
<1>3. /\ Dir(p, "report_staging") = Entry(u, "report_staging")
      /\ Entry(u, "report_staging") # NoDirectory
      /\ Dir(p, "analysis") = NoDirectory /\ Dir(p, "analysis_staging") = NoDirectory
      /\ proc[p].pc = "artifacts_open" => proc[p].open = Dir(p, "report_staging")
  BY <1>1, <1>2 DEF Dir, Entry, Position, Inside, Safe, Staged, Progress
<1>4. PICK d \in Directories : d = Entry(u, "report_staging")
  BY <1>3, EntryTypes DEF Names
<1>5. ASSUME NEW there \in {"artifacts_open", "version", "bind", "mark", "check"},
             Goes(p, there), SameNames, OnlyIn(d),
             contents'[d].tables = contents[d].tables, contents'[d].from = contents[d].from
      PROVE  InPlace' /\ Position(p)' /\ Stays
  <2>1. InPlace' /\ Stays
    BY <1>4, <1>5, InStaging
  <2>2. Dir(p, "analysis")' = NoDirectory /\ Dir(p, "analysis_staging")' = NoDirectory
    BY <1>2, <1>3, <1>5 DEF Dir, Entry, Goes, SameNames, Names
  <2> QED
    BY <1>5, <2>1, <2>2 DEF Position, Goes, Making, Inside
<1>6. CASE OpenFiles(p, "artifacts", "report_staging", "artifacts", "reporters", "artifacts_open")
  <2>1. /\ Goes(p, "artifacts_open")
        /\ \E e \in Directories :
             /\ OnlyIn(e) /\ Entry(u, "report_staging") = e /\ SameNames
             /\ Opened(contents[e], contents'[e], "artifacts", "reporters", proc[p])
    <3>1. "report_staging" \in Names
      BY DEF Names
    <3> QED
      BY <1>2, <1>3, <1>6, <3>1, Opens
  <2> QED
    BY <1>4, <1>5, <2>1 DEF Opened
<1>7. CASE CloseFiles(p, "artifacts_open", "artifacts", "reporters", "version")
  <2>1. proc[p].open = d
    BY <1>3, <1>4, <1>7 DEF CloseFiles
  <2>2. /\ Goes(p, "version") /\ SameNames /\ OnlyIn(d)
        /\ Closed(contents[d], contents'[d], "artifacts")
    BY <1>7, <2>1, Closes
  <2> QED
    BY <1>5, <2>2 DEF Closed
<1>8. CASE VersionSummary(p) \/ MarkRecovery(p)
  <2>1. /\ Goes(p, "bind") \/ Goes(p, "check")
        /\ contents'[d].tables = contents[d].tables /\ contents'[d].from = contents[d].from
        /\ SameNames /\ OnlyIn(d)
    BY <1>3, <1>4, <1>8, Marks
  <2> QED
    BY <1>5, <2>1
<1>9. CASE BindArtifacts(p)
  <2> DEFINE e == Dir(p, "report_staging")
  <2>1. tree' = tree /\ contents' = contents /\ SameNames
    BY <1>9, SameTreeSame DEF BindArtifacts
  <2>2. CASE Reconciled(p) /\ AllThere(e)
    <3>1. proc' = [proc EXCEPT ![p].pc = "mark", ![p].bound = contents[e]]
      BY <1>9, <2>2 DEF BindArtifacts
    <3>2. Goes(p, "mark")
      <4> HIDE DEF e
      <4> QED
        BY <3>1, SMT DEF TypedState, ProcRecords, Goes, Others
    <3> QED
      BY <1>5, <2>1, <3>2 DEF OnlyIn
  <2>3. CASE ~(Reconciled(p) /\ AllThere(e))
    <3>1. Ends(p)
      BY <1>9, <2>3, Ending DEF BindArtifacts, Ended
    <3> QED
      BY <2>1, <3>1, PlainSolo DEF Plain, Ends
  <2> QED
    BY <2>2, <2>3
<1> QED
  BY <1>6, <1>7, <1>8, <1>9 DEF WriteArtifacts

\* The renames.
LEMMA PromoteSolo ==
  ASSUME TypedState, Safe, InPlace, NEW p \in Processes, Position(p),
         PromoteAnalysis(p) \/ TakeAnalysis(p) \/ PromoteReport(p)
  PROVE  InPlace' /\ Position(p)' /\ Stays
<1>1. proc[p].pc \in {"promote_analysis", "take", "promote_report"}
  BY DEF PromoteAnalysis, TakeAnalysis, PromoteReport, Promote, Check
<1>2. PICK u \in Trees : u = proc[p].tree
  BY <1>1 DEF Safe, Placed, Ended
<1>3. /\ Dir(p, "analysis") = Entry(u, "analysis")
      /\ Dir(p, "analysis_staging") = Entry(u, "analysis_staging")
      /\ Dir(p, "report_staging") = Entry(u, "report_staging")
  BY <1>2 DEF Dir, Entry
<1>4. ASSUME Ends(p), SameNames, contents' = contents
      PROVE  InPlace' /\ Position(p)' /\ Stays
  BY <1>4, PlainSolo DEF Plain, Ends
<1>5. ASSUME NEW there, Goes(p, there)
      PROVE  /\ Dir(p, "analysis")' = Entry(u, "analysis")'
             /\ Dir(p, "analysis_staging")' = Entry(u, "analysis_staging")'
             /\ Dir(p, "report_staging")' = Entry(u, "report_staging")'
  BY <1>2, <1>5 DEF Goes, Dir, Entry
<1>6. ASSUME NEW from \in Names, NEW to \in Names,
             \A t \in Trees, n \in Names : (t = u /\ n \in {from, to}) \/ Entry(t, n)' = Entry(t, n),
             contents' = contents, ~Sealed(u),
             Entry(u, "analysis")' # NoDirectory =>
               Entry(u, "analysis_staging")' = NoDirectory /\ Analysed(contents[Entry(u, "analysis")']),
             Entry(u, "report_staging")' # NoDirectory =>
               /\ contents[Entry(u, "report_staging")'].tables = "whole"
               /\ contents[Entry(u, "report_staging")'].from \subseteq {0}
      PROVE  InPlace' /\ Stays
  <2>1. \A t \in Trees : t # u =>
          /\ Entry(t, "analysis")' = Entry(t, "analysis")
          /\ Entry(t, "analysis_staging")' = Entry(t, "analysis_staging")
          /\ Entry(t, "report_staging")' = Entry(t, "report_staging")
    BY <1>6 DEF Names
  <2>2. ASSUME NEW t \in Trees
        PROVE  /\ Entry(t, "analysis")' # NoDirectory =>
                    /\ Entry(t, "analysis_staging")' = NoDirectory
                    /\ Analysed(contents[Entry(t, "analysis")'])
               /\ Entry(t, "report_staging")' # NoDirectory =>
                    /\ contents[Entry(t, "report_staging")'].tables = "whole"
                    /\ contents[Entry(t, "report_staging")'].from \subseteq {0}
    BY <1>6, <2>1 DEF InPlace
  <2>3. Stays
    BY <1>6, <2>1 DEF Stays
  <2> QED
    BY <1>6, <2>2, <2>3 DEF InPlace, Entry, Analysed, PreReport
<1>7. CASE PromoteAnalysis(p)
  <2>1. /\ proc[p].pc = "promote_analysis"
        /\ Made(contents[Entry(u, "analysis_staging")], proc[p])
    BY <1>3, <1>7 DEF PromoteAnalysis, Promote, Check, Position, Making
  <2>2. /\ contents' = contents
        /\ \/ /\ Goes(p, "secure_analysis")
              /\ Entry(u, "analysis_staging") # NoDirectory /\ Entry(u, "analysis") = NoDirectory
              /\ Entry(u, "analysis_staging")' = NoDirectory
              /\ Entry(u, "analysis")' = Entry(u, "analysis_staging")
              /\ \A t \in Trees, n \in Names :
                   (t = u /\ n \in {"analysis_staging", "analysis"}) \/ Entry(t, n)' = Entry(t, n)
           \/ Ends(p) /\ SameNames
    <3>1. "analysis_staging" \in Names /\ "analysis" \in Names
      BY DEF Names
    <3> QED
      BY <1>2, <1>7, <3>1, Promotes DEF PromoteAnalysis
  <2>3. CASE Ends(p) /\ SameNames
    BY <1>4, <2>2, <2>3
  <2>4. CASE /\ Goes(p, "secure_analysis")
             /\ Entry(u, "analysis_staging") # NoDirectory /\ Entry(u, "analysis") = NoDirectory
             /\ Entry(u, "analysis_staging")' = NoDirectory
             /\ Entry(u, "analysis")' = Entry(u, "analysis_staging")
             /\ \A t \in Trees, n \in Names :
                  (t = u /\ n \in {"analysis_staging", "analysis"}) \/ Entry(t, n)' = Entry(t, n)
    <3>1. Analysed(contents[Entry(u, "analysis_staging")])
      BY <2>1 DEF Made, Analysed, PreReport
    <3>2. Entry(u, "report_staging")' = Entry(u, "report_staging")
      BY <2>4 DEF Names
    <3>3. ~Sealed(u)
      BY <2>4 DEF Sealed, Entry
    <3>4. InPlace' /\ Stays
      <4>1. Analysed(contents[Entry(u, "analysis")'])
        BY <2>4, <3>1
      <4>2. Entry(u, "report_staging")' # NoDirectory =>
               /\ contents[Entry(u, "report_staging")'].tables = "whole"
               /\ contents[Entry(u, "report_staging")'].from \subseteq {0}
        BY <3>2 DEF InPlace
      <4>3. "analysis_staging" \in Names /\ "analysis" \in Names
        BY DEF Names
      <4> QED
        BY <1>6, <2>2, <2>4, <3>3, <4>1, <4>2, <4>3
    <3>5. Dir(p, "analysis")' # NoDirectory
      BY <1>5, <2>4
    <3> QED
      BY <2>4, <3>4, <3>5 DEF Position, Goes, Making, Inside
  <2> QED
    BY <2>2, <2>3, <2>4
<1>8. CASE TakeAnalysis(p)
  <2>1. /\ proc[p].pc = "take" /\ Entry(u, "analysis") # NoDirectory
        /\ PreReport(contents[Entry(u, "analysis")])
    BY <1>3, <1>8 DEF TakeAnalysis, Promote, Check, Position
  <2>2. /\ contents' = contents
        /\ \/ /\ Goes(p, "secure_staging")
              /\ Entry(u, "analysis")' = NoDirectory
              /\ Entry(u, "report_staging")' = Entry(u, "analysis")
              /\ \A t \in Trees, n \in Names :
                   (t = u /\ n \in {"analysis", "report_staging"}) \/ Entry(t, n)' = Entry(t, n)
           \/ Ends(p) /\ SameNames
    <3>1. "report_staging" \in Names /\ "analysis" \in Names
      BY DEF Names
    <3> QED
      BY <1>2, <1>8, <3>1, Promotes DEF TakeAnalysis
  <2>3. CASE Ends(p) /\ SameNames
    BY <1>4, <2>2, <2>3
  <2>4. CASE /\ Goes(p, "secure_staging")
             /\ Entry(u, "analysis")' = NoDirectory
             /\ Entry(u, "report_staging")' = Entry(u, "analysis")
             /\ \A t \in Trees, n \in Names :
                  (t = u /\ n \in {"analysis", "report_staging"}) \/ Entry(t, n)' = Entry(t, n)
    <3>1. /\ Analysed(contents[Entry(u, "analysis")])
          /\ Entry(u, "analysis_staging") = NoDirectory
      BY <2>1 DEF InPlace
    <3>2. Entry(u, "analysis_staging")' = NoDirectory
      BY <2>4, <3>1 DEF Names
    <3>3. ~Sealed(u)
      BY <2>1 DEF Sealed, Entry, PreReport
    <3>4. /\ contents[Entry(u, "report_staging")'].tables = "whole"
          /\ contents[Entry(u, "report_staging")'].from \subseteq {0}
      BY <2>4, <3>1 DEF Analysed
    <3>5. InPlace' /\ Stays
      <4>1. "report_staging" \in Names /\ "analysis" \in Names
        BY DEF Names
      <4> QED
        BY <1>6, <2>2, <2>4, <3>3, <3>4, <4>1
    <3>6. Dir(p, "analysis")' = NoDirectory /\ Dir(p, "analysis_staging")' = NoDirectory
      BY <1>5, <2>4, <3>2
    <3> QED
      BY <2>4, <3>5, <3>6 DEF Position, Goes, Making, Inside
  <2> QED
    BY <2>2, <2>3, <2>4
<1>9. CASE PromoteReport(p)
  <2>1. /\ proc[p].pc = "promote_report" /\ Entry(u, "analysis_staging") = NoDirectory
        /\ Entry(u, "analysis") = NoDirectory
        /\ contents[Entry(u, "report_staging")].sealed
    BY <1>3, <1>9 DEF PromoteReport, Promote, Check, Position, Inside
  <2>2. /\ contents' = contents
        /\ \/ /\ Goes(p, "secure_report")
              /\ Entry(u, "report_staging") # NoDirectory
              /\ Entry(u, "report_staging")' = NoDirectory
              /\ Entry(u, "analysis")' = Entry(u, "report_staging")
              /\ \A t \in Trees, n \in Names :
                   (t = u /\ n \in {"report_staging", "analysis"}) \/ Entry(t, n)' = Entry(t, n)
           \/ Ends(p) /\ SameNames
    <3>1. "report_staging" \in Names /\ "analysis" \in Names
      BY DEF Names
    <3> QED
      BY <1>2, <1>9, <3>1, Promotes DEF PromoteReport
  <2>3. CASE Ends(p) /\ SameNames
    BY <1>4, <2>2, <2>3
  <2>4. CASE /\ Goes(p, "secure_report")
             /\ Entry(u, "report_staging") # NoDirectory
             /\ Entry(u, "report_staging")' = NoDirectory
             /\ Entry(u, "analysis")' = Entry(u, "report_staging")
             /\ \A t \in Trees, n \in Names :
                  (t = u /\ n \in {"report_staging", "analysis"}) \/ Entry(t, n)' = Entry(t, n)
    <3>1. Analysed(contents[Entry(u, "analysis")'])
      BY <2>1, <2>4 DEF Analysed, InPlace
    <3>2. Entry(u, "analysis_staging")' = NoDirectory
      BY <2>1, <2>4 DEF Names
    <3>3. ~Sealed(u)
      BY <2>1 DEF Sealed, Entry
    <3>4. InPlace' /\ Stays
      <4>1. "report_staging" \in Names /\ "analysis" \in Names
        BY DEF Names
      <4> QED
        BY <1>6, <2>2, <2>4, <3>1, <3>2, <3>3, <4>1
    <3>5. /\ Dir(p, "analysis")' # NoDirectory /\ contents'[Dir(p, "analysis")'].sealed
          /\ Dir(p, "report_staging")' = NoDirectory
      BY <1>5, <2>1, <2>2, <2>4
    <3> QED
      BY <2>4, <3>4, <3>5 DEF Position, Goes, Making, Inside
  <2> QED
    BY <2>2, <2>3, <2>4
<1> QED
  BY <1>7, <1>8, <1>9

\* Every step of a command that has been alone.
LEMMA SoloStep ==
  ASSUME TypedState, TypedState', Safe, Safe', Provenance, Stages, InPlace,
         NEW p \in Processes, Position(p), Step(p)
  PROVE  InPlace' /\ Position(p)' /\ Stays
<1>1. CASE CreateRoot(p) \/ LayoutRoot(p) \/ Extract(p) \/ Anchor(p)
  <2>1. contents' = contents /\ SameNames /\ proc'[p].pc \in Plain
    BY <1>1, RootSteps DEF Plain
  <2> QED
    BY <2>1, PlainSolo
<1>2. CASE \/ RequireCreated(p) \/ Validate(p) \/ AnalysisLayout(p) \/ ReconcileAgain(p)
           \/ ReportPreflight(p) \/ ReadAnalysis(p) \/ CheckSealed(p) \/ CheckFinalPath(p)
  BY <1>2, CheckSolo
<1>3. CASE ParseRaw(p)
  <2>1. tree' = tree /\ contents' = contents /\ proc'[p].pc = "layout"
    BY <1>3, SMT DEF ParseRaw, TypedState, ProcRecords
  <2> QED
    BY <2>1, SameTreeSame, PlainSolo DEF Plain
<1>4. CASE StageAnalysis(p) \/ SecureAnalysis(p) \/ SecureStaging(p) \/ SecureReport(p)
  BY <1>4, SecureSolo
<1>5. CASE WriteTables(p) \/ WriteSummary(p)
  <2>1. CASE OpenFiles(p, "tables", "analysis_staging", "tables", "analysts", "tables_open")
    BY <2>1, OpenAnalysisSolo
  <2>2. CASE CloseFiles(p, "tables_open", "tables", "analysts", "summary")
    BY <2>2, CloseAnalysisSolo
  <2>3. CASE OpenFiles(p, "summary", "analysis_staging", "summary", "analysts", "summary_open")
    BY <2>3, OpenAnalysisSolo
  <2>4. CASE CloseFiles(p, "summary_open", "summary", "analysts", "reconcile")
    BY <2>4, CloseAnalysisSolo
  <2> QED
    BY <1>5, <2>1, <2>2, <2>3, <2>4 DEF WriteTables, WriteSummary
<1>6. CASE WriteArtifacts(p) \/ VersionSummary(p) \/ BindArtifacts(p) \/ MarkRecovery(p)
  BY <1>6, ReportSolo
<1>7. CASE PromoteAnalysis(p) \/ TakeAnalysis(p) \/ PromoteReport(p)
  BY <1>7, PromoteSolo
<1>8. CASE LeaveTree(p)
  <2>1. contents' = contents /\ SameNames /\ proc'[p].pc \in Plain
    BY <1>8, Leaves DEF Plain, Ended
  <2> QED
    BY <2>1, PlainSolo
<1> QED
  BY <1>1, <1>2, <1>3, <1>4, <1>5, <1>6, <1>7, <1>8 DEF Step

\* A move to another position in the same stage.
Onward(p, here, there) ==
  /\ proc[p].pc = here
  /\ \/ Ends(p)
     \/ Others(p) /\ proc'[p].pc = there /\ proc'[p].stage = proc[p].stage

LEMMA MovesOn ==
  ASSUME TypedState, NEW p \in Processes, NEW there,
         \/ Goto(p, there)
         \/ \E e : proc' = [proc EXCEPT ![p].pc = there, ![p].open = e]
         \/ \E n : proc' = [proc EXCEPT ![p].pc = there, ![p].read = n]
         \/ \E c : proc' = [proc EXCEPT ![p].pc = there, ![p].bound = c]
  PROVE  Others(p) /\ proc'[p].pc = there /\ proc'[p].stage = proc[p].stage
  BY SMT DEF Goto, TypedState, ProcRecords, Others

\* What every step of a command does to the command itself, and to nobody else's.
LEMMA StepMoves ==
  ASSUME TypedState, Safe, Stages, NEW p \in Processes, Step(p)
  PROVE  /\ Running(p) /\ Others(p) /\ UNCHANGED overlapped
         /\ proc'[p].pc \in Analysing => proc'[p].stage = "analysis"
         /\ proc[p].pc = "leave" => LeaveTree(p)
<1> DEFINE Stepped == /\ Running(p) /\ Others(p) /\ UNCHANGED overlapped
                      /\ proc'[p].pc \in Analysing => proc'[p].stage = "analysis"
                      /\ proc[p].pc = "leave" => LeaveTree(p)
<1>1. CASE CreateRoot(p) \/ LayoutRoot(p) \/ Extract(p) \/ Anchor(p)
  <2>1. proc[p].pc \in {"create", "layout_root", "extract", "anchor"}
    BY <1>1 DEF CreateRoot, LayoutRoot, Extract, Anchor
  <2>2. /\ UNCHANGED overlapped /\ Others(p)
        /\ proc'[p].pc \in Ended \cup {"created", "extract", "anchor", "validate"}
    BY <1>1, RootSteps
  <2> QED
    BY <2>1, <2>2 DEF Running, Ended, Analysing
<1>2. ASSUME UNCHANGED world, NEW here, NEW there, Onward(p, here, there),
             here \notin Ended \cup {"leave"},
             there \in Analysing => here \in Analysing \/ proc[p].stage = "analysis"
      PROVE  Stepped
  BY <1>2 DEF Onward, Ends, Ended, Analysing, Running, world, Stages
<1>3. CASE \/ RequireCreated(p) \/ Validate(p) \/ AnalysisLayout(p) \/ ReconcileAgain(p)
           \/ ReportPreflight(p) \/ ReadAnalysis(p) \/ CheckSealed(p) \/ CheckFinalPath(p)
  <2>1. UNCHANGED world
    BY <1>3, CheckSteps
  <2>2. ASSUME NEW here, NEW passed, NEW there, Check(p, here, passed, there)
        PROVE  Onward(p, here, there)
    BY <2>2, Checking DEF Onward, Goes
  <2>3. CASE RequireCreated(p)
    BY <1>2, <2>1, <2>2, <2>3 DEF RequireCreated, Ended, Analysing
  <2>4. CASE Validate(p)
    BY <1>2, <2>1, <2>2, <2>4 DEF Validate, Ended, Analysing
  <2>5. CASE AnalysisLayout(p) \/ ReconcileAgain(p)
    BY <1>2, <2>1, <2>2, <2>5 DEF AnalysisLayout, ReconcileAgain, Ended, Analysing
  <2>6. CASE ReportPreflight(p) \/ ReadAnalysis(p)
    BY <1>2, <2>1, <2>2, <2>6 DEF ReportPreflight, ReadAnalysis, Ended, Analysing
  <2>7. CASE CheckSealed(p) \/ CheckFinalPath(p)
    <3>1. Onward(p, "check", "final") \/ Onward(p, "final", "promote_report")
      BY <2>2, <2>7 DEF CheckSealed, CheckFinalPath
    <3> QED
      BY <1>2, <2>1, <3>1 DEF Ended, Analysing
  <2> QED
    BY <1>3, <2>3, <2>4, <2>5, <2>6, <2>7
<1>4. CASE ParseRaw(p) \/ BindArtifacts(p)
  <2>1. UNCHANGED world
    BY <1>4 DEF ParseRaw, BindArtifacts
  <2>2. Onward(p, "parse", "layout") \/ Onward(p, "bind", "mark")
    <3>1. CASE ParseRaw(p)
      BY <3>1, MovesOn DEF ParseRaw, Onward
    <3>2. CASE BindArtifacts(p)
      <4>1. End(p, "refused") => Ends(p)
        BY Ending DEF Ended
      <4> QED
        BY <3>2, <4>1, MovesOn DEF BindArtifacts, Onward
    <3> QED
      BY <1>4, <3>1, <3>2
  <2> QED
    BY <1>2, <2>1, <2>2 DEF Ended, Analysing
<1>5. ASSUME NEW here, NEW n, NEW there, Secure(p, here, n, there)
      PROVE  UNCHANGED world /\ Onward(p, here, there)
  BY <1>5, MovesOn DEF Secure, Onward
<1>6. CASE StageAnalysis(p) \/ SecureAnalysis(p) \/ SecureStaging(p) \/ SecureReport(p)
  <2>1. /\ UNCHANGED world
        /\ \/ Onward(p, "stage", "tables") \/ Onward(p, "secure_analysis", "leave")
           \/ Onward(p, "secure_staging", "read") \/ Onward(p, "secure_report", "leave")
    BY <1>5, <1>6 DEF StageAnalysis, SecureAnalysis, SecureStaging, SecureReport
  <2> QED
    BY <1>2, <2>1 DEF Ended, Analysing
<1>7. ASSUME NEW here, NEW n, NEW file, NEW authors, NEW there,
             \/ OpenFiles(p, here, n, file, authors, there)
             \/ CloseFiles(p, here, file, authors, there)
      PROVE  UNCHANGED world /\ Onward(p, here, there)
  <2>1. /\ UNCHANGED world /\ proc[p].pc = here
        /\ \E e : proc' = [proc EXCEPT ![p].pc = there, ![p].open = e]
    BY <1>7 DEF OpenFiles, CloseFiles
  <2> QED
    BY <2>1, MovesOn DEF Onward
<1>8. CASE WriteTables(p) \/ WriteSummary(p) \/ WriteArtifacts(p)
  <2>1. /\ UNCHANGED world
        /\ \/ Onward(p, "tables", "tables_open") \/ Onward(p, "tables_open", "summary")
           \/ Onward(p, "summary", "summary_open") \/ Onward(p, "summary_open", "reconcile")
           \/ Onward(p, "artifacts", "artifacts_open") \/ Onward(p, "artifacts_open", "version")
    BY <1>7, <1>8 DEF WriteTables, WriteSummary, WriteArtifacts
  <2> QED
    BY <1>2, <2>1 DEF Ended, Analysing
<1>9. CASE VersionSummary(p) \/ MarkRecovery(p)
  <2>1. /\ UNCHANGED world
        /\ Onward(p, "version", "bind") \/ Onward(p, "mark", "check")
    BY <1>9, MovesOn DEF VersionSummary, MarkRecovery, Onward
  <2> QED
    BY <1>2, <2>1 DEF Ended, Analysing
<1>10. ASSUME NEW here, NEW from, NEW to, NEW there, Promote(p, here, from, to, there)
       PROVE  UNCHANGED world /\ Onward(p, here, there)
  <2>1. UNCHANGED world /\ \E passed : Check(p, here, passed, there)
    BY <1>10 DEF Promote
  <2> QED
    BY <2>1, Checking DEF Onward, Goes
<1>11. CASE PromoteAnalysis(p) \/ TakeAnalysis(p) \/ PromoteReport(p)
  <2>1. /\ UNCHANGED world
        /\ \/ Onward(p, "promote_analysis", "secure_analysis")
           \/ Onward(p, "take", "secure_staging") \/ Onward(p, "promote_report", "secure_report")
    BY <1>10, <1>11 DEF PromoteAnalysis, TakeAnalysis, PromoteReport
  <2> QED
    BY <1>2, <2>1 DEF Ended, Analysing
<1>12. CASE LeaveTree(p)
  <2>1. /\ UNCHANGED overlapped /\ Others(p) /\ proc[p].pc = "leave"
        /\ proc'[p].pc \in {"anchor", "refused", "done"}
    BY <1>12, Leaves
  <2> QED
    BY <1>12, <2>1 DEF Running, Ended, Analysing
<1> HIDE DEF Stepped
<1> QED
  BY <1>1, <1>3, <1>4, <1>6, <1>8, <1>9, <1>11, <1>12 DEF Step

\* The steps that are not a command's own: nothing is renamed or written.
Around ==
  \/ \E p \in Processes : Stop(p) \/ \E c \in Commands : Start(p, c)
  \/ \E t \in Trees : EditRaw(t) \/ SwapTree(t)
  \/ UNCHANGED vars

LEMMA AroundSteps ==
  ASSUME TypedState, Around
  PROVE  /\ SameNames /\ contents' = contents /\ (overlapped => overlapped')
         /\ \A q \in Processes : proc'[q] = proc[q] \/ proc'[q].pc \in Ended \cup {"create", "anchor"}
         /\ OneRuns /\ ~overlapped' => OneRuns'
<1>1. ASSUME NEW p \in Processes, Stop(p)
      PROVE  /\ SameNames /\ contents' = contents /\ (overlapped => overlapped')
             /\ Others(p) /\ proc'[p].pc \in Ended
  <2>1. Ends(p) /\ tree' = tree /\ contents' = contents /\ UNCHANGED overlapped
    BY <1>1, Ending DEF Stop, Ended, world
  <2> QED
    BY <2>1, SameTreeSame DEF Ends
<1>2. ASSUME NEW p \in Processes, NEW c \in Commands, Start(p, c)
      PROVE  /\ SameNames /\ contents' = contents /\ (overlapped => overlapped')
             /\ Others(p) /\ proc'[p].pc \in {"create", "anchor"}
             /\ ~overlapped' => \A q \in Processes : ~Running(q)
  <2>1. Others(p) /\ proc'[p].pc \in {"create", "anchor"}
    BY <1>2, SMT DEF Start, TypedState, Idle, Others
  <2>2. /\ tree' = tree /\ contents' = contents
        /\ overlapped' = (overlapped \/ \E q \in Processes : Running(q))
    BY <1>2 DEF Start
  <2> QED
    BY <2>1, <2>2, SameTreeSame
<1>3. ASSUME NEW u \in Trees, EditRaw(u) \/ SwapTree(u)
      PROVE  SameNames /\ contents' = contents /\ (overlapped => overlapped') /\ proc' = proc
  <2>1. CASE EditRaw(u)
    BY <2>1, SMT DEF EditRaw, TypedState, TreeRecords, SameNames, Entry
  <2>2. CASE SwapTree(u)
    BY <2>2, SameTreeSame DEF SwapTree
  <2> QED
    BY <1>3, <2>1, <2>2
<1>4. CASE UNCHANGED vars
  BY <1>4, SameTreeSame DEF vars, world, OneRuns, Running
<1>5. CASE \E p \in Processes : Stop(p)
  <2>1. PICK p \in Processes : Stop(p)
    BY <1>5
  <2>2. /\ Others(p) /\ proc'[p].pc \in Ended
    BY <1>1, <2>1
  <2>3. OneRuns => OneRuns'
    BY <2>2 DEF OneRuns, Running, Others
  <2> QED
    BY <1>1, <2>1, <2>2, <2>3 DEF Others
<1>6. CASE \E p \in Processes : \E c \in Commands : Start(p, c)
  <2>1. PICK p \in Processes, c \in Commands : Start(p, c)
    BY <1>6
  <2>2. /\ Others(p) /\ proc'[p].pc \in {"create", "anchor"}
        /\ ~overlapped' => \A q \in Processes : ~Running(q)
    BY <1>2, <2>1
  <2>3. ~overlapped' => OneRuns'
    BY <2>2 DEF OneRuns, Running, Others
  <2> QED
    BY <1>2, <2>1, <2>2, <2>3 DEF Others
<1>7. CASE \E t \in Trees : EditRaw(t) \/ SwapTree(t)
  BY <1>3, <1>7 DEF OneRuns, Running
<1> QED
  BY <1>4, <1>5, <1>6, <1>7 DEF Around

\* What Position says of a command that stands still, nothing is renamed or written.
LEMMA PositionStays ==
  ASSUME TypedState, Safe, NEW p \in Processes, Position(p),
         SameNames, contents' = contents, proc'[p] = proc[p]
  PROVE  Position(p)'
<1>1. CASE proc[p].pc \in Plain
  BY <1>1, PlainPosition
<1>2. CASE proc[p].pc \notin Plain
  <2>1. proc[p].tree \in Trees
    BY <1>2 DEF Plain, Ended, Safe, Placed
  <2>2. /\ Dir(p, "analysis")' = Dir(p, "analysis")
        /\ Dir(p, "analysis_staging")' = Dir(p, "analysis_staging")
        /\ Dir(p, "report_staging")' = Dir(p, "report_staging")
    BY <2>1, DirStays DEF Names
  <2> QED
    BY <2>2 DEF Position, Made, PreReport
<1> QED
  BY <1>1, <1>2

\* No sealed analysis moves or changes, but where the user moves one and no command runs.
LEMMA AloneStays ==
  ASSUME TypedState, TypedState', Safe, Safe', Provenance, Stages, Alone, [Next]_vars
  PROVE  /\ overlapped => overlapped'
         /\ ~overlapped' => Alone' /\ (Stays \/ \A p \in Processes : ~Running(p))
<1>1. ASSUME NEW p \in Processes, Step(p)
      PROVE  /\ overlapped' = overlapped
             /\ ~overlapped' => Alone' /\ Stays
  <2>1. /\ Running(p) /\ Others(p) /\ overlapped' = overlapped
    BY <1>1, StepMoves
  <2>2. ASSUME ~overlapped'
        PROVE  OneRuns' /\ InPlace' /\ Stays /\ \A q \in Processes : Position(q)'
    <3>1. OneRuns /\ InPlace /\ Position(p)
      BY <1>1, <2>1, <2>2 DEF Alone
    <3>2. InPlace' /\ Position(p)' /\ Stays
      BY <1>1, <3>1, SoloStep
    <3>3. ASSUME NEW q \in Processes, q # p
          PROVE  ~Running(q)' /\ Position(q)'
      <4>1. proc'[q] = proc[q] /\ ~Running(q)
        BY <1>1, <2>1, <3>1, <3>3 DEF Others, OneRuns
      <4>2. proc'[q].pc \in Ended
        BY <4>1 DEF Running
      <4> QED
        BY <4>2, PlainPosition DEF Plain, Running
    <3> QED
      BY <3>2, <3>3 DEF OneRuns
  <2> QED
    BY <2>1, <2>2 DEF Alone
<1>2. ASSUME NEW u \in Trees, MoveAside(u)
      PROVE  /\ overlapped' = overlapped
             /\ ~overlapped' => Alone'
             /\ \A p \in Processes : ~Running(p)
  <2>1. PICK d \in Directories :
          /\ \A p \in Processes : ~Running(p)
          /\ proc' = proc /\ overlapped' = overlapped
          /\ d = Entry(u, "analysis") /\ Entry(u, "analysis")' = NoDirectory
          /\ \A t \in Trees, n \in Names : (t = u /\ n = "analysis") \/ Entry(t, n)' = Entry(t, n)
          /\ OnlyIn(d)
    BY <1>2, MovesAside
  <2>2. OneRuns' /\ \A q \in Processes : Position(q)'
    <3>1. \A q \in Processes : proc'[q].pc \in Ended
      BY <2>1 DEF Running
    <3> QED
      BY <3>1, PlainPosition DEF Plain, OneRuns, Running
  <2>3. ASSUME InPlace PROVE InPlace'
    <3>1. d # NoDirectory
      BY NoDirectoryIsNone
    <3>2. \A t \in Trees : \A n \in Names :
            (t = u /\ n = "analysis") \/ Entry(t, n) = NoDirectory
            \/ contents'[Entry(t, n)] = contents[Entry(t, n)]
      <4>1. \A t \in Trees, n \in Names : Entry(t, n) = d => t = u /\ n = "analysis"
        BY <2>1, <3>1 DEF Safe, Distinct, Entry, Names
      <4> QED
        BY <2>1, <4>1, EntryTypes DEF OnlyIn
    <3>3. ASSUME NEW t \in Trees
          PROVE  /\ Entry(t, "analysis")' # NoDirectory =>
                      /\ Entry(t, "analysis_staging")' = NoDirectory
                      /\ Analysed(contents'[Entry(t, "analysis")'])
                 /\ Entry(t, "report_staging")' # NoDirectory =>
                      /\ contents'[Entry(t, "report_staging")'].tables = "whole"
                      /\ contents'[Entry(t, "report_staging")'].from \subseteq {0}
      <4>1. /\ Entry(t, "analysis_staging")' = Entry(t, "analysis_staging")
            /\ Entry(t, "report_staging")' = Entry(t, "report_staging")
            /\ t = u \/ Entry(t, "analysis")' = Entry(t, "analysis")
        BY <2>1 DEF Names
      <4>2. /\ Entry(t, "report_staging") = NoDirectory
               \/ contents'[Entry(t, "report_staging")] = contents[Entry(t, "report_staging")]
            /\ t = u \/ Entry(t, "analysis") = NoDirectory
               \/ contents'[Entry(t, "analysis")] = contents[Entry(t, "analysis")]
        BY <3>2 DEF Names
      <4> QED
        BY <2>1, <2>3, <4>1, <4>2 DEF InPlace
    <3> QED
      BY <3>3 DEF InPlace, Entry, Analysed, PreReport
  <2> QED
    BY <2>1, <2>2, <2>3 DEF Alone
<1>3. CASE Around
  <2>1. /\ SameNames /\ contents' = contents /\ (overlapped => overlapped')
        /\ \A q \in Processes : proc'[q] = proc[q] \/ proc'[q].pc \in Ended \cup {"create", "anchor"}
        /\ OneRuns /\ ~overlapped' => OneRuns'
    BY <1>3, AroundSteps
  <2>2. ASSUME ~overlapped'
        PROVE  OneRuns' /\ InPlace' /\ Stays /\ \A q \in Processes : Position(q)'
    <3>1. OneRuns /\ InPlace /\ \A q \in Processes : Position(q)
      BY <2>1, <2>2 DEF Alone
    <3>2. InPlace' /\ Stays
      BY <2>1, <3>1, Still
    <3>3. ASSUME NEW q \in Processes PROVE Position(q)'
      <4>1. CASE proc'[q] = proc[q]
        BY <2>1, <3>1, <4>1, PositionStays
      <4>2. CASE proc'[q].pc \in Ended \cup {"create", "anchor"}
        BY <4>2, PlainPosition DEF Plain
      <4> QED
        BY <2>1, <4>1, <4>2
    <3> QED
      BY <2>1, <2>2, <3>1, <3>2, <3>3
  <2> QED
    BY <2>1, <2>2 DEF Alone
<1> QED
  BY <1>1, <1>2, <1>3 DEF Next, Around

LEMMA StagesStep ==
  ASSUME TypedState, Safe, Stages, [Next]_vars
  PROVE  Stages'
<1>1. CASE Around
  <2>1. \A q \in Processes : proc'[q] = proc[q] \/ proc'[q].pc \in Ended \cup {"create", "anchor"}
    BY <1>1, AroundSteps
  <2> QED
    BY <2>1 DEF Stages, Ended, Analysing
<1>2. ASSUME NEW p \in Processes, Step(p) PROVE Stages'
  BY <1>2, StepMoves DEF Others, Stages
<1>3. ASSUME NEW u \in Trees, MoveAside(u) PROVE Stages'
  BY <1>3 DEF MoveAside, Stages
<1> QED
  BY <1>1, <1>2, <1>3 DEF Next, Around
-----------------------------------------------------------------------------
\* The initial states.
LEMMA Initially == Init => TypedState /\ Safe
<1> SUFFICES ASSUME Init PROVE TypedState /\ Safe
  OBVIOUS
<1>1. \A p \in Processes : proc[p] = Idle
  BY DEF Init
<1>2. Idle.pc \notin Inside /\ Idle.pc \in Ended /\ Idle.pc # "artifacts_open"
  BY DEF Idle, Inside, Ended
<1>3. \A t \in Trees, n \in Names : tree[t].entry[n] = NoDirectory
  BY SMT DEF Init, NoEntries
<1>4. \A d \in Directories : contents[d] = Empty
  BY DEF Init
<1>5. ~Empty.sealed /\ Empty.reporters = {}
  BY DEF Empty
<1>6. TypedState
  <2>1. tree \in [Trees -> TreeRecords]
    BY SMT DEF Init, TreeRecords, NoEntries
  <2>2. TypedWorld
    <3>1. overlapped \in BOOLEAN /\ visible \in Trees \cup {"none"}
      BY DEF Init, Trees
    <3>2. {starts, edits, swaps} \subseteq Nat
      BY DEF Init
    <3> QED
      BY <3>1, <3>2 DEF TypedWorld
  <2> QED
    BY <2>1, <2>2, EmptyTyped DEF Init, TypedState
<1>7. Placed /\ Staged /\ OneReporter /\ Progress
  BY <1>1, <1>2 DEF Placed, Staged, OneReporter, Progress
<1>8. Distinct
  BY <1>3 DEF Distinct
<1>9. Authored /\ StagingUnsealed /\ SealedIsWhole
  BY <1>4, <1>5 DEF Authored, StagingUnsealed, SealedIsWhole
<1> QED
  BY <1>6, <1>7, <1>8, <1>9 DEF Safe

\* The whole inductive invariant.
Sound == TypedState /\ Safe /\ Provenance /\ Stages /\ Alone

LEMMA InitiallySound == Init => Sound
<1> SUFFICES ASSUME Init PROVE Sound
  OBVIOUS
<1>1. TypedState /\ Safe
  BY Initially
<1>2. \A p \in Processes : proc[p].pc \in Ended
  BY DEF Init, Idle, Ended
<1>3. \A t \in Trees, n \in Names : Entry(t, n) = NoDirectory
  BY SMT DEF Init, NoEntries, Entry
<1>4. \A d \in Directories : contents[d] = Empty
  BY DEF Init
<1>5. Provenance
  BY <1>2, <1>3, <1>4 DEF Provenance, Ended, Empty
<1>6. Stages /\ OneRuns
  BY <1>2 DEF Stages, OneRuns, Running, Ended, Analysing
<1>7. InPlace
  BY <1>3 DEF InPlace, Names
<1>8. \A p \in Processes : Position(p)
  BY <1>2 DEF Position, Ended, Making, Inside
<1> QED
  BY <1>1, <1>5, <1>6, <1>7, <1>8 DEF Sound, Alone

LEMMA SoundStep == Sound /\ [Next]_vars => Sound'
<1> SUFFICES ASSUME Sound, [Next]_vars PROVE Sound'
  OBVIOUS
<1>1. TypedState /\ Safe /\ Provenance /\ Stages /\ Alone
  BY DEF Sound
<1>2. TypedState' /\ Safe'
  BY <1>1, TypeStep, SafeStep DEF Safe
<1>3. Provenance' /\ Stages'
  BY <1>1, <1>2, ProvenanceStep, StagesStep
<1>4. Alone'
  <2>1. ~overlapped' => Alone'
    BY <1>1, <1>2, AloneStays
  <2> QED
    BY <2>1 DEF Alone
<1> QED
  BY <1>2, <1>3, <1>4 DEF Sound

\* The invariant holds in every reachable state.
THEOREM AlwaysSound == Spec => []Sound
  BY InitiallySound, SoundStep, PTL DEF Spec

\* The variables keep their types.
THEOREM TypeCorrect == Spec => []TypeOK
<1>1. Sound => TypeOK
  BY TypeParts DEF Sound
<1> QED
  BY <1>1, AlwaysSound, PTL

\* A directory named analysis with a recovery marker holds a whole report: for any
\* commands that overlap, stop and start again (report.py, the promotion of
\* .report-incomplete).
THEOREM SealedReportIsWholeHolds == Spec => []SealedReportIsWhole
<1>1. Sound => SealedReportIsWhole
  BY DEF Sound, TypedState, TreeRecords, Safe, SealedIsWhole, SealedReportIsWhole, Analyses, Names
<1> QED
  BY <1>1, AlwaysSound, PTL

\* The tables of a directory named analysis were made from the raw tree that the
\* extraction's marker binds: those of a report always, those of an analysis if no
\* commands overlapped (analyze.py and report.py, reconcile_raw_tree before parsing and
\* before each promotion).
THEOREM TablesAreOfTheSourceHolds == Spec => []TablesAreOfTheSource
<1>1. Sound => TablesAreOfTheSource
  <2> SUFFICES ASSUME Sound, NEW d \in Analyses, contents[d].sealed \/ ~overlapped
               PROVE  contents[d].from \subseteq {0}
    BY DEF TablesAreOfTheSource
  <2>1. PICK t \in Trees : d = Entry(t, "analysis") /\ d # NoDirectory
    BY DEF Analyses, Entry
  <2>2. d \in Directories
    BY <2>1, EntryTypes DEF Sound, Names
  <2>3. CASE contents[d].sealed
    BY <2>2, <2>3 DEF Sound, Provenance
  <2>4. CASE ~overlapped
    BY <2>1, <2>4 DEF Sound, Alone, InPlace, Analysed
  <2> QED
    BY <2>3, <2>4
<1> QED
  BY <1>1, AlwaysSound, PTL

\* As long as no commands overlapped, a directory named analysis has whole tables and is
\* either sealed or just an analysis, whatever command stopped where
\* (prepare_analysis_layout and the promotion of .analysis-incomplete, analyze.py).
THEOREM AnalysisIsWholeHolds == Spec => []AnalysisIsWhole
<1>1. Sound => AnalysisIsWhole
  BY DEF Sound, Alone, InPlace, Analysed, AnalysisIsWhole, Analyses, Entry
<1> QED
  BY <1>1, AlwaysSound, PTL

\* Where a report succeeds and no commands overlapped, the selected path names a sealed
\* analysis with nothing in staging, whatever was renamed meanwhile (the last check of
\* the anchored path, safety.py, after the promotion, report.py).
THEOREM ReportIsThereAloneHolds == Spec => ReportIsThereAlone
<1> DEFINE There == ~overlapped => \A p \in Processes : Reports(p) =>
             /\ visible \in Trees
             /\ Sealed(visible)
             /\ tree[visible].entry["analysis_staging"] = NoDirectory
             /\ tree[visible].entry["report_staging"] = NoDirectory
<1>1. Sound /\ [Next]_vars => [There]_vars
  <2> SUFFICES ASSUME Sound, [Next]_vars, ~overlapped, NEW p \in Processes, Reports(p)
               PROVE  /\ visible \in Trees
                      /\ Sealed(visible)
                      /\ tree[visible].entry["analysis_staging"] = NoDirectory
                      /\ tree[visible].entry["report_staging"] = NoDirectory
    OBVIOUS
  <2>1. TypedState /\ Safe /\ Stages /\ InPlace /\ Position(p)
    BY DEF Sound, Alone
  <2>2. /\ proc[p].pc = "leave" /\ proc[p].stage = "report" /\ proc'[p].pc = "done"
    BY DEF Reports
  <2>3. Step(p)
    <3>1. CASE Around
      <4>1. PICK q \in Processes : Stop(q)
        <5>1. proc' # proc
          BY <2>2
        <5>2. ASSUME NEW q \in Processes, NEW c \in Commands, Start(q, c) PROVE FALSE
          <6>1. Others(q) /\ proc'[q].pc \in {"create", "anchor"}
            BY <2>1, <5>2, SMT DEF Start, TypedState, Idle, Others
          <6> QED
            BY <2>2, <6>1 DEF Others
        <5> QED
          BY <3>1, <5>1, <5>2 DEF Around, EditRaw, SwapTree, vars
      <4>2. End(q, "stopped")
        BY <4>1 DEF Stop
      <4>3. Others(q) /\ proc'[q].pc = "stopped"
        BY <2>1, <4>2, SMT DEF End, TypedState, Idle, Others
      <4> QED
        BY <2>2, <4>3 DEF Others
    <3>2. ASSUME NEW q \in Processes, Step(q) PROVE Step(p)
      <4>1. Others(q)
        BY <2>1, <3>2, StepMoves
      <4> QED
        BY <2>2, <3>2, <4>1 DEF Others
    <3>3. ASSUME NEW u \in Trees, MoveAside(u) PROVE FALSE
      BY <2>2, <3>3 DEF MoveAside
    <3> QED
      BY <3>1, <3>2, <3>3 DEF Next, Around
  <2>4. LeaveTree(p)
    BY <2>1, <2>2, <2>3, StepMoves
  <2>5. visible = proc[p].tree
    BY <2>1, <2>2, <2>4, Leaves
  <2>6. visible \in Trees
    BY <2>1, <2>2, <2>5 DEF Safe, Placed, Ended
  <2>7. /\ tree[visible].entry["analysis"] # NoDirectory
        /\ contents[tree[visible].entry["analysis"]].sealed
        /\ tree[visible].entry["report_staging"] = NoDirectory
    BY <2>1, <2>2, <2>5 DEF Position, Dir
  <2>8. tree[visible].entry["analysis_staging"] = NoDirectory
    BY <2>1, <2>6, <2>7 DEF InPlace, Entry
  <2> QED
    BY <2>6, <2>7, <2>8 DEF Sealed
<1>2. Spec => [][There]_vars
  <2> HIDE DEF There
  <2> QED
    BY <1>1, AlwaysSound, PTL DEF Spec
<1> QED
  BY <1>2 DEF ReportIsThereAlone

\* As long as no commands overlap, no command moves or changes a sealed analysis; only the
\* user moves one aside, and then no command runs (the checks for existing report output,
\* report.py, and of the layout, analyze.py).
THEOREM FinishedReportStaysHolds == Spec => FinishedReportStays
<1> DEFINE Remains == ~overlapped' => \A t \in Trees : Sealed(t) =>
       \/ tree'[t].entry["analysis"] = tree[t].entry["analysis"]
          /\ contents'[tree[t].entry["analysis"]] = contents[tree[t].entry["analysis"]]
       \/ \A p \in Processes : ~Running(p)
<1>1. Sound /\ [Next]_vars => [Remains]_vars
  <2> SUFFICES ASSUME Sound, [Next]_vars PROVE Remains
    OBVIOUS
  <2>1. Sound'
    BY SoundStep
  <2>2. ~overlapped' => Stays \/ \A p \in Processes : ~Running(p)
    BY <2>1, AloneStays DEF Sound
  <2> QED
    BY <2>2 DEF Stays, Entry
<1>2. Spec => [][Remains]_vars
  <2> HIDE DEF Remains
  <2> QED
    BY <1>1, AlwaysSound, PTL DEF Spec
<1> QED
  BY <1>2 DEF FinishedReportStays
=============================================================================
