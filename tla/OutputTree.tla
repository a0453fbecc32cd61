------------------------------ MODULE OutputTree ------------------------------
(***************************************************************************)
(* The private output: the root a recovery creates, the completion marker  *)
(* of the extraction, the staging directories and the promotions of the    *)
(* analysis and the report (safety.py, analyze.py, report.py), when the    *)
(* commands recover, analyze and report run one after the other or at the  *)
(* same time, stop at any step, and another process edits the raw tree or  *)
(* renames directories.  This is the POSIX route, without directory pins.  *)
(*                                                                         *)
(* A directory has an identity; a tree says which directory each of its    *)
(* names is now, and a name is looked up at every use.  The tables and the *)
(* artifacts stand for the files of the analysis and of the report, with   *)
(* one write each.  How an extraction comes to be complete is             *)
(* SourceBinding's.                                                        *)
(***************************************************************************)
EXTENDS Naturals, FiniteSets

CONSTANTS Processes,       \* processes that run commands
          MaxDirectories,  \* bound: analysis and staging directories at a time
          MaxStarts,       \* bound: commands started
          MaxEdits,        \* bound: edits of raw trees by another process
          MaxSwaps         \* bound: renames that put another tree in place

ASSUME OutputAssumption == /\ {MaxDirectories, MaxStarts, MaxEdits, MaxSwaps} \subseteq Nat

Trees == {"ours", "other"}
Names == {"analysis", "analysis_staging", "report_staging"}
Directories == 1 .. MaxDirectories
NoDirectory == 0

VARIABLES
  tree,       \* tree[t]: completion marker, version of raw, what its names are
  contents,   \* contents[d]: what a directory holds
  visible,    \* the tree the selected path names
  proc,       \* proc[p]: the command process p runs and where it is
  starts,     \* how many commands were started
  edits,      \* how many edits there were
  swaps,      \* how many renames there were
  overlapped  \* history: two commands have run at the same time

world == <<visible, starts, edits, swaps, overlapped>>
vars == <<tree, contents, world, proc>>

FileStates == {"absent", "partial", "whole"}
Contents ==
  [tables : FileStates,          \* the CSV tables
   from : SUBSET Nat,            \* the versions of raw their writers had read
   summary : FileStates,         \* analysis_summary.json
   versioned : BOOLEAN,          \* ... with the report's contract
   artifacts : FileStates,       \* archives, Markdown, HTML, PDF, reference tables
   sealed : BOOLEAN,             \* recovery_state.json, status "complete"
   analysts : SUBSET Nat,        \* history: the commands that wrote tables ...
   reporters : SUBSET Nat]       \* ... and those that wrote artifacts
Empty == [tables |-> "absent", from |-> {}, summary |-> "absent", versioned |-> FALSE,
          artifacts |-> "absent", sealed |-> FALSE, analysts |-> {}, reporters |-> {}]

Commands == {"recover", "analyze", "report"}
Ended == {"idle", "done", "refused", "stopped"}
Analysing == {"parse", "layout", "stage", "tables", "tables_open", "summary", "summary_open",
              "reconcile", "promote_analysis", "secure_analysis"}
Reporting == {"preflight", "take", "secure_staging", "read", "artifacts", "artifacts_open",
              "version", "bind", "mark", "check", "final", "promote_report", "secure_report"}
Positions == Ended \cup Analysing \cup Reporting \cup
  {"create", "created", "layout_root", "extract", "anchor", "validate", "leave"}

Idle == [command |-> "none", pc |-> "idle", stage |-> "none", tree |-> "none", run |-> 0,
         read |-> 0, open |-> NoDirectory, bound |-> Empty]

TypeOK ==
  /\ tree \in [Trees -> [marker : {"none", "absent", "incomplete", "complete"}, raw : Nat,
                         entry : [Names -> Directories \cup {NoDirectory}]]]
  /\ contents \in [Directories -> Contents]
  /\ visible \in Trees \cup {"none"}
  /\ proc \in [Processes ->
       [command : Commands \cup {"none"}, pc : Positions, stage : {"none", "analysis", "report"},
        tree : Trees \cup {"none"}, run : Nat, read : Nat,
        open : Directories \cup {NoDirectory}, bound : Contents]]
  /\ {starts, edits, swaps} \subseteq Nat
  /\ overlapped \in BOOLEAN

NoEntries == [n \in Names |-> NoDirectory]

\* The selected path names nothing, for a recovery, or a finished extraction.
Init ==
  /\ visible \in {"none", "ours"}
  /\ tree = [t \in Trees |->
       [marker |-> IF t = "ours" /\ visible = "none" THEN "none" ELSE "complete",
        raw |-> 0, entry |-> NoEntries]]
  /\ contents = [d \in Directories |-> Empty]
  /\ proc = [p \in Processes |-> Idle]
  /\ starts = 0 /\ edits = 0 /\ swaps = 0
  /\ overlapped = FALSE
-----------------------------------------------------------------------------
Running(p) == proc[p].pc \notin Ended

Dir(p, n) == tree[proc[p].tree].entry[n]

Goto(p, there) == proc' = [proc EXCEPT ![p].pc = there]

End(p, how) == proc' = [proc EXCEPT ![p] = [Idle EXCEPT !.pc = how]]

\* One check of the code: it passes, or the command ends with an error.
Check(p, here, condition, there) ==
  /\ proc[p].pc = here
  /\ IF condition THEN Goto(p, there) ELSE End(p, "refused")

Reachable(d) == \/ \E t \in Trees, n \in Names : tree[t].entry[n] = d
                \/ \E p \in Processes : proc[p].open = d
Fresh == CHOOSE d \in Directories : ~Reachable(d)

\* The bound MaxDirectories: a new directory needs one that nothing names.
Room(p, n) == Dir(p, n) = NoDirectory => \E d \in Directories : ~Reachable(d)

\* secure_directory makes the directory where the name has none, and hardens it
\* where it has one, whoever made it.
Secured(p, n) == IF Dir(p, n) = NoDirectory THEN Fresh ELSE Dir(p, n)

SecuredTree(p, n) == [tree EXCEPT ![proc[p].tree].entry[n] = Secured(p, n)]

SecuredContents(p, n) ==
  IF Dir(p, n) = NoDirectory THEN [contents EXCEPT ![Fresh] = Empty] ELSE contents

Secure(p, here, n, there) ==
  /\ proc[p].pc = here /\ Room(p, n)
  /\ tree' = SecuredTree(p, n)
  /\ contents' = SecuredContents(p, n)
  /\ Goto(p, there)
  /\ UNCHANGED world

\* Renames a directory without replacing anything.
Promote(p, here, from, to, there) ==
  /\ LET possible == Dir(p, from) # NoDirectory /\ Dir(p, to) = NoDirectory
     IN  /\ Check(p, here, possible, there)
         /\ tree' = IF possible
                    THEN [tree EXCEPT ![proc[p].tree].entry[from] = NoDirectory,
                                      ![proc[p].tree].entry[to] = Dir(p, from)]
                    ELSE tree
  /\ UNCHANGED <<contents, world>>

\* Opens files for writing below a name, whose directory is made if it is gone,
\* and truncates them; the writes then go to the opened files.
OpenFiles(p, here, n, file, authors, there) ==
  /\ proc[p].pc = here /\ Room(p, n)
  /\ tree' = SecuredTree(p, n)
  /\ contents' = [SecuredContents(p, n) EXCEPT
       ![Secured(p, n)][file] = "partial",
       ![Secured(p, n)][authors] = @ \cup {proc[p].run},
       ![Secured(p, n)].from = IF file = "tables" THEN @ \cup {proc[p].read} ELSE @]
  /\ proc' = [proc EXCEPT ![p].pc = there, ![p].open = Secured(p, n)]
  /\ UNCHANGED world

\* The last write makes a file whole, unless another command truncated it too;
\* writing the same bytes again does no harm to a whole one.
CloseFiles(p, here, file, authors, there) ==
  /\ proc[p].pc = here
  /\ \E state \in IF contents[proc[p].open][authors] = {proc[p].run}
                  THEN {"whole"}
                  ELSE {contents[proc[p].open][file], "whole"} :
       contents' = [contents EXCEPT ![proc[p].open][file] = state]
  /\ proc' = [proc EXCEPT ![p].pc = there, ![p].open = NoDirectory]
  /\ UNCHANGED <<tree, world>>
-----------------------------------------------------------------------------
\* Commands start and, at any step, stop: cancelled, failed or killed.

Start(p, c) ==
  /\ ~Running(p)
  /\ starts < MaxStarts
  /\ starts' = starts + 1
  /\ overlapped' = (overlapped \/ \E q \in Processes : Running(q))
  /\ proc' = [proc EXCEPT ![p] =
       [Idle EXCEPT !.command = c, !.run = starts',
                    !.pc = IF c = "recover" THEN "create" ELSE "anchor",
                    !.stage = IF c = "report" THEN "report" ELSE "analysis"]]
  /\ UNCHANGED <<tree, contents, visible, edits, swaps>>

Stop(p) ==
  /\ Running(p)
  /\ End(p, "stopped")
  /\ UNCHANGED <<tree, contents, world>>
-----------------------------------------------------------------------------
\* recover creates its root and extracts.

\* mkdir below the held parent, which fails when the name exists.
CreateRoot(p) ==
  /\ proc[p].pc = "create"
  /\ IF visible = "none"
     THEN /\ tree' = [tree EXCEPT !["ours"].marker = "absent"]
          /\ visible' = "ours"
          /\ proc' = [proc EXCEPT ![p].pc = "created", ![p].tree = "ours"]
     ELSE /\ End(p, "refused")
          /\ UNCHANGED <<tree, visible>>
  /\ UNCHANGED <<contents, starts, edits, swaps, overlapped>>

RequireCreated(p) ==
  /\ Check(p, "created", visible = proc[p].tree, "layout_root")
  /\ UNCHANGED <<tree, contents, world>>

\* The extraction directories, and the marker that begins as incomplete.
LayoutRoot(p) ==
  /\ proc[p].pc = "layout_root"
  /\ tree' = [tree EXCEPT ![proc[p].tree].marker = "incomplete"]
  /\ Goto(p, "extract")
  /\ UNCHANGED <<contents, world>>

Extract(p) ==
  /\ proc[p].pc = "extract"
  /\ tree' = [tree EXCEPT ![proc[p].tree].marker = "complete"]
  /\ Goto(p, "anchor")
  /\ UNCHANGED <<contents, world>>
-----------------------------------------------------------------------------
\* A command of its own opens the tree the path names; the stages of recover stay
\* relative to the root it holds.
Anchor(p) ==
  /\ LET held == IF proc[p].command = "recover" THEN proc[p].tree ELSE visible
     IN  /\ proc[p].pc = "anchor"
         /\ IF held = "none"
            THEN End(p, "refused")
            ELSE proc' = [proc EXCEPT ![p].pc = "validate", ![p].tree = held]
  /\ UNCHANGED <<tree, contents, world>>

\* The marker is complete and the raw tree is the one it binds.
Reconciled(p) == tree[proc[p].tree].raw = 0

Validate(p) ==
  /\ Check(p, "validate",
           tree[proc[p].tree].marker = "complete" /\ Reconciled(p),
           IF proc[p].stage = "analysis" THEN "parse" ELSE "preflight")
  /\ UNCHANGED <<tree, contents, world>>
-----------------------------------------------------------------------------
\* _analyze_extraction

ParseRaw(p) ==
  /\ proc[p].pc = "parse"
  /\ proc' = [proc EXCEPT ![p].pc = "layout", ![p].read = tree[proc[p].tree].raw]
  /\ UNCHANGED <<tree, contents, world>>

AnalysisLayout(p) ==
  /\ Check(p, "layout",
           /\ Dir(p, "analysis") = NoDirectory
           /\ Dir(p, "analysis_staging") = NoDirectory,
           "stage")
  /\ UNCHANGED <<tree, contents, world>>

\* Mutant: the final directory is made before the tables.
StageAnalysisInPlace(p) == Secure(p, "stage", "analysis", "tables")

StageAnalysis(p) == Secure(p, "stage", "analysis_staging", "tables")

WriteTables(p) ==
  \/ OpenFiles(p, "tables", "analysis_staging", "tables", "analysts", "tables_open")
  \/ CloseFiles(p, "tables_open", "tables", "analysts", "summary")

WriteSummary(p) ==
  \/ OpenFiles(p, "summary", "analysis_staging", "summary", "analysts", "summary_open")
  \/ CloseFiles(p, "summary_open", "summary", "analysts", "reconcile")

\* Mutant: the raw tree is not compared again.
ReconcileOnce(p) ==
  /\ Check(p, "reconcile", TRUE, "promote_analysis")
  /\ UNCHANGED <<tree, contents, world>>

ReconcileAgain(p) ==
  /\ Check(p, "reconcile", Reconciled(p), "promote_analysis")
  /\ UNCHANGED <<tree, contents, world>>

PromoteAnalysis(p) ==
  Promote(p, "promote_analysis", "analysis_staging", "analysis", "secure_analysis")

SecureAnalysis(p) == Secure(p, "secure_analysis", "analysis", "leave")
-----------------------------------------------------------------------------
\* _build_report

\* Exactly the files of an analysis.
PreReport(c) == /\ c.summary = "whole" /\ ~c.versioned
                /\ c.artifacts = "absent"
                /\ ~c.sealed

\* Mutant: existing artifacts are not looked for.
ReportPreflightOverReport(p) ==
  /\ LET d == Dir(p, "analysis")
     IN  Check(p, "preflight",
               /\ d # NoDirectory
               /\ contents[d].tables # "absent" /\ contents[d].summary = "whole"
               /\ Dir(p, "report_staging") = NoDirectory,
               "take")
  /\ UNCHANGED <<tree, contents, world>>

\* The checks before anything is moved; of the tables, only that they are there.
ReportPreflight(p) ==
  /\ LET d == Dir(p, "analysis")
     IN  Check(p, "preflight",
               /\ d # NoDirectory
               /\ contents[d].tables # "absent"
               /\ PreReport(contents[d])
               /\ Dir(p, "report_staging") = NoDirectory,
               "take")
  /\ UNCHANGED <<tree, contents, world>>

TakeAnalysis(p) == Promote(p, "take", "analysis", "report_staging", "secure_staging")

SecureStaging(p) == Secure(p, "secure_staging", "report_staging", "read")

\* Membership and every table; a table that lost its last rows is noticed if the
\* summary counts it.
ReadAnalysis(p) ==
  /\ LET d == Dir(p, "report_staging")
     IN  \E noticed \in BOOLEAN :
           Check(p, "read",
                 /\ d # NoDirectory
                 /\ contents[d].tables \in {"whole"} \cup (IF noticed THEN {} ELSE {"partial"})
                 /\ PreReport(contents[d]),
                 "artifacts")
  /\ UNCHANGED <<tree, contents, world>>

WriteArtifacts(p) ==
  \/ OpenFiles(p, "artifacts", "report_staging", "artifacts", "reporters", "artifacts_open")
  \/ CloseFiles(p, "artifacts_open", "artifacts", "reporters", "version")

\* Mutant: the summary keeps the analysis's form.
VersionSummaryNever(p) ==
  /\ proc[p].pc = "version"
  /\ Goto(p, "bind")
  /\ UNCHANGED <<tree, contents, world>>

\* An atomic replacement of a file below the staging directory.
VersionSummary(p) ==
  /\ proc[p].pc = "version" /\ Room(p, "report_staging")
  /\ tree' = SecuredTree(p, "report_staging")
  /\ contents' = [SecuredContents(p, "report_staging") EXCEPT
       ![Secured(p, "report_staging")].summary = "whole",
       ![Secured(p, "report_staging")].versioned = TRUE]
  /\ Goto(p, "bind")
  /\ UNCHANGED world

\* What a binding compares: the bytes of every file but the marker.
Bytes(c) == <<c.tables, c.summary, c.versioned, c.artifacts>>

\* Every file the sealed directory is to hold.
AllThere(d) == /\ d # NoDirectory
               /\ "absent" \notin {contents[d].tables, contents[d].summary, contents[d].artifacts}

BindArtifacts(p) ==
  /\ LET d == Dir(p, "report_staging")
     IN  /\ proc[p].pc = "bind"
         /\ IF Reconciled(p) /\ AllThere(d)
            THEN proc' = [proc EXCEPT ![p].pc = "mark", ![p].bound = contents[d]]
            ELSE End(p, "refused")
  /\ UNCHANGED <<tree, contents, world>>

MarkRecovery(p) ==
  /\ proc[p].pc = "mark" /\ Room(p, "report_staging")
  /\ tree' = SecuredTree(p, "report_staging")
  /\ contents' = [SecuredContents(p, "report_staging") EXCEPT
                    ![Secured(p, "report_staging")].sealed = TRUE]
  /\ Goto(p, "check")
  /\ UNCHANGED world

CheckSealed(p) ==
  /\ LET d == Dir(p, "report_staging")
     IN  Check(p, "check",
               /\ Reconciled(p)
               /\ AllThere(d) /\ contents[d].sealed
               /\ Bytes(contents[d]) = Bytes(proc[p].bound),
               "final")
  /\ UNCHANGED <<tree, contents, world>>

\* The last check before the commit decision, which may be a cancellation (Stop).
CheckFinalPath(p) ==
  /\ Check(p, "final", Dir(p, "analysis") = NoDirectory, "promote_report")
  /\ UNCHANGED <<tree, contents, world>>

PromoteReport(p) ==
  Promote(p, "promote_report", "report_staging", "analysis", "secure_report")

SecureReport(p) == Secure(p, "secure_report", "analysis", "leave")
-----------------------------------------------------------------------------
\* Mutant: the path is not looked at again.
LeaveTreeUnseen(p) ==
  /\ proc[p].pc = "leave"
  /\ IF proc[p].command = "recover" /\ proc[p].stage = "analysis"
     THEN proc' = [proc EXCEPT ![p].pc = "anchor", ![p].stage = "report"]
     ELSE Check(p, "leave", TRUE, "done")
  /\ UNCHANGED <<tree, contents, world>>

\* A stage ends: recover goes on to the report; otherwise the selected path must
\* still name the tree that was held, and the command succeeds.
LeaveTree(p) ==
  /\ proc[p].pc = "leave"
  /\ IF proc[p].command = "recover" /\ proc[p].stage = "analysis"
     THEN proc' = [proc EXCEPT ![p].pc = "anchor", ![p].stage = "report"]
     ELSE Check(p, "leave", visible = proc[p].tree, "done")
  /\ UNCHANGED <<tree, contents, world>>

Step(p) ==
  \/ CreateRoot(p) \/ RequireCreated(p) \/ LayoutRoot(p) \/ Extract(p)
  \/ Anchor(p) \/ Validate(p)
  \/ ParseRaw(p) \/ AnalysisLayout(p) \/ StageAnalysis(p) \/ WriteTables(p)
  \/ WriteSummary(p) \/ ReconcileAgain(p) \/ PromoteAnalysis(p) \/ SecureAnalysis(p)
  \/ ReportPreflight(p) \/ TakeAnalysis(p) \/ SecureStaging(p) \/ ReadAnalysis(p)
  \/ WriteArtifacts(p) \/ VersionSummary(p) \/ BindArtifacts(p) \/ MarkRecovery(p)
  \/ CheckSealed(p) \/ CheckFinalPath(p) \/ PromoteReport(p) \/ SecureReport(p)
  \/ LeaveTree(p)
-----------------------------------------------------------------------------
\* Other processes, and the user.

EditRaw(t) ==
  /\ edits < MaxEdits
  /\ tree[t].marker = "complete"
  /\ tree' = [tree EXCEPT ![t].raw = @ + 1]
  /\ edits' = edits + 1
  /\ UNCHANGED <<contents, proc, visible, starts, swaps, overlapped>>

\* The tree the path names is renamed away, and another may take its place.
SwapTree(t) ==
  /\ swaps < MaxSwaps
  /\ visible # t
  /\ tree[t].marker # "none"
  /\ visible' = t
  /\ swaps' = swaps + 1
  /\ UNCHANGED <<tree, contents, proc, starts, edits, overlapped>>

\* What AnalysisLayout's message advises, while no command runs.
MoveAside(t) ==
  /\ \A p \in Processes : ~Running(p)
  /\ tree[t].entry["analysis"] # NoDirectory
  /\ tree' = [tree EXCEPT ![t].entry["analysis"] = NoDirectory]
  /\ contents' = [contents EXCEPT ![tree[t].entry["analysis"]] = Empty]
  /\ UNCHANGED <<proc, world>>

Next ==
  \/ \E p \in Processes : Step(p) \/ Stop(p) \/ \E c \in Commands : Start(p, c)
  \/ \E t \in Trees : EditRaw(t) \/ SwapTree(t) \/ MoveAside(t)

Spec == Init /\ [][Next]_vars
-----------------------------------------------------------------------------
\* Invariants

Analyses == {tree[t].entry["analysis"] : t \in Trees} \ {NoDirectory}

\* A directory named analysis with a recovery marker holds every file of a
\* report, written to the end, however many commands overlapped.
\* (promotion of .report-incomplete, report.py)
SealedReportIsWhole ==
  \A d \in Analyses : contents[d].sealed =>
    /\ contents[d].summary = "whole" /\ contents[d].versioned
    /\ contents[d].artifacts = "whole"

\* Its tables are whole, and without a recovery marker there is nothing of a report
\* in it: what a stopped command left stays under a staging name.
\* (prepare_analysis_layout, promotion of .analysis-incomplete)
AnalysisIsWhole ==
  ~overlapped => \A d \in Analyses : /\ contents[d].tables = "whole"
                                     /\ contents[d].sealed \/ PreReport(contents[d])

\* The tables of a report, and those of an analysis if no commands overlapped,
\* were all made from the raw tree that the extraction's marker binds.
\* (reconcile_raw_tree before parsing and before promotions)
TablesAreOfTheSource ==
  \A d \in Analyses : contents[d].sealed \/ ~overlapped => contents[d].from \subseteq {0}
-----------------------------------------------------------------------------
\* Action properties

Sealed(t) == LET d == tree[t].entry["analysis"]
             IN  d # NoDirectory /\ contents[d].sealed

Reports(p) == proc[p].pc = "leave" /\ proc[p].stage = "report" /\ proc'[p].pc = "done"

\* Where a report succeeds, the path its user gave names a sealed analysis and no
\* staging directory is left.  (docs/output-reference.md:120)
ReportIsThere ==
  [][\A p \in Processes : Reports(p) =>
       /\ visible \in Trees
       /\ Sealed(visible)
       /\ tree[visible].entry["analysis_staging"] = NoDirectory
       /\ tree[visible].entry["report_staging"] = NoDirectory]_vars

\* The same where no commands overlapped.
ReportIsThereAlone ==
  [][~overlapped => \A p \in Processes : Reports(p) =>
       /\ visible \in Trees
       /\ Sealed(visible)
       /\ tree[visible].entry["analysis_staging"] = NoDirectory
       /\ tree[visible].entry["report_staging"] = NoDirectory]_vars

\* No command takes a finished report away or changes it; only the user moves it.
\* (the checks for existing report output, report.py)  Of commands that overlapped this
\* says nothing: they may take one another's report, as ReportIsThere shows.
FinishedReportStays ==
  [][~overlapped' => \A t \in Trees : Sealed(t) =>
       \/ tree'[t].entry["analysis"] = tree[t].entry["analysis"]
          /\ contents'[tree[t].entry["analysis"]] = contents[tree[t].entry["analysis"]]
       \/ \A p \in Processes : ~Running(p)]_vars
=============================================================================
