--------------------------- MODULE OutputValidator ---------------------------
(***************************************************************************)
(* The validation of a finished output (script/validate_recovery_output.py)*)
(* a program apart from the recovery that reads the output again, derives  *)
(* the tables from the raw cache, renders the reports, and compares.       *)
(*                                                                         *)
(* It reads one file after the other, while others may edit them, touch    *)
(* their times, or validate the same output; and it may be killed.  To     *)
(* read a database or to render the PDF it makes a private staging         *)
(* directory in the output itself, and removes it.                         *)
(*                                                                         *)
(* Abstracted: the files of the output are grouped by what they are        *)
(* compared with; a digest is the content it was made of, and what is      *)
(* derived from a cache is named by a cache it is derived from: the        *)
(* validator's own derivation of the tables is taken to agree with the     *)
(* recovery's.  Of the texts in the CSV files is kept how they begin, as   *)
(* both programs escape them by it, each in its own way.  A file is read   *)
(* in one step: the validator compares its identity before and after, but  *)
(* for the copies of the databases, which the last comparison of the raw   *)
(* tree covers.  That the time of the output's directory is put back is    *)
(* left out.                                                               *)
(***************************************************************************)
EXTENDS DerivedTables

CONSTANTS Caches,      \* what the cache database and the URL cache may hold
          Named,       \* the caches of the outputs that are validated, by their names
          Paths,       \* how the paths in the raw tree of each named cache begin
          Texts,       \* how the texts in its tables begin
          Images,      \* what the image cache may hold
          Validators,
          Absent,      \* what a file that is not there holds
          MaxDisturbances  \* bound: edits, touches, kills and validators after the first

ASSUME ValidatorAssumption ==
  /\ \A name \in DOMAIN Named : Analyzable(Named[name])
  /\ Absent \notin Images /\ Absent \notin Caches
  /\ MaxDisturbances \in Nat

\* What the rows and the archives hold has the types of DerivedTables.
ASSUME RecordsAssumption ==
  \A cache \in Caches : Records(cache) \in Seq([source : Nat, payload : Responses])

Files == {"raw", "images", "metadata", "tables", "summary", "report", "pdf", "marker"}
Bound == {"metadata", "tables", "summary", "report", "pdf"}

VARIABLES
  analyzed,   \* a cache whose tables are looked at, when no output is validated
  output,     \* what each file holds
  past,       \* history: what each file has held
  cameBack,   \* history: whether a file was given what it had held before
  staging,    \* the validators whose staging directory is in the output
  val,        \* val[v]: the validator's state
  host,       \* whether PDFs can be rendered where the output is validated
  edits, touched, starts, kills,
  alone,      \* history: the validators that never saw another one at work
  moment      \* history: the output when a validator began its last comparison

validatorVars == <<analyzed, output, past, cameBack, staging, val, host, edits, touched, starts, kills, alone, moment>>
-----------------------------------------------------------------------------
(***************************************************************************)
(* What the recovery writes.                                               *)
(***************************************************************************)

Names == DOMAIN Named

\* What a cache yields has the name of one of the caches that yield it.
Yielded(Yield(_)) ==
  [n \in Names |-> CHOOSE m \in Names : Yield(Named[m]) = Yield(Named[n])]

\* How a text begins: like a formula (with = + - @, a tab or a carriage return), with a line
\* feed, or otherwise.
Beginnings == {"plain", "formula", "newline"}
SpreadsheetFormulaPrefixes == {"formula", "newline"}

\* A text is escaped in a CSV file by how it begins: a path of the raw tree by "./" before
\* it, a cell of a table by an apostrophe, which the summary records.
Cell(begins) == [begins |-> begins, escaped |-> begins \in SpreadsheetFormulaPrefixes]
CellsOf(beginnings) == {Cell(begins) : begins \in beginnings}

\* A digest of the raw tree does not cover the times of its files.
Untimed(cache) ==
  [cache EXCEPT !.archives = [i \in DOMAIN @ |-> [@[i] EXCEPT !.time = 0]]]
Lengths(tables) == [name \in DOMAIN tables |-> Len(tables[name])]
CountsOfTables(cache) == Lengths(Tables(cache))

Digest == Yielded(Untimed)
Derived == Yielded(Tables)
Counts == Yielded(CountsOfTables)

\* The same tree has the same paths, and the same tables the same texts.
ASSUME TextsAssumption ==
  /\ Paths \in [Names -> SUBSET Beginnings] /\ Texts \in [Names -> SUBSET Beginnings]
  /\ \A m, n \in Names : /\ Digest[m] = Digest[n] => Paths[m] = Paths[n]
                         /\ Derived[m] = Derived[n] => Texts[m] = Texts[n]

\* The raw tree's digest, and its inventory.
SnapshotOf(cache, images) ==
  [raw |-> Digest[cache], images |-> images, inventory |-> CellsOf(Paths[cache])]

Tabulated(cache, images) ==
  [tables |-> Derived[cache], images |-> images, cells |-> CellsOf(Texts[cache])]

\* A report shows the tables, and what it was told of the images.
Rendered(tables, images) == [tables |-> tables, images |-> images]

Marker(snapshot, tables, images, generated, bound) ==
  [snapshot |-> snapshot, counts |-> Counts[tables], images |-> images,
   generated |-> generated, bound |-> bound]

SoundOutput(cache, images, generated) ==
  LET snapshot == SnapshotOf(cache, images)
      tables == Derived[cache]
      model == Rendered(tables, images)
      files == [metadata |-> snapshot,
                tables |-> Tabulated(cache, images),
                summary |-> Counts[tables],
                report |-> model,
                pdf |-> IF generated THEN model ELSE Absent]
      rest == [raw |-> cache, images |-> images,
               marker |-> Marker(snapshot, tables, images, generated, files)]
  IN [f \in Files |-> IF f \in Bound THEN files[f] ELSE rest[f]]

\* What a recovery writes to a file is not what stands for a file that is not there.
ASSUME AbsentAssumption ==
  \A cache \in Names, images \in Images, generated \in BOOLEAN, f \in Files \ {"pdf"} :
    SoundOutput(cache, images, generated)[f] # Absent

-----------------------------------------------------------------------------
(***************************************************************************)
(* The validator: gates of steps, each of which reads a file.              *)
(***************************************************************************)

Do(what, file) == [what |-> what, file |-> file]
EachBound(what) == [i \in 1..5 |-> Do(what, <<"metadata", "summary", "tables", "report", "pdf">>[i])]

\* root_layout, completion_contracts, source_integrity, artifact_bindings, data_parity,
\* visual_reports, pdf_report, final_immutability
Gates ==
  <<Do("layout", "marker"), Do("read", "metadata"), Do("read", "summary"),
    Do("bytes", "marker"), Do("contract", "marker"), Do("source", "raw")>>
  \o EachBound("bound")
  \o <<Do("read", "tables"), Do("stage", "raw"), Do("parity", "raw"),
       Do("stage", "images"), Do("parity", "images"), Do("visual", "report"),
       Do("pdf", "pdf"), Do("stage", "pdf"), Do("render", "pdf"),
       Do("again", "raw"), Do("layout", "marker"), Do("same", "marker")>>
  \o EachBound("bound")

\* Mutant: the artifacts are not compared again at the end.
UnboundAtTheEnd == SubSeq(Gates, 1, Len(Gates) - 5)

Program == Gates

Unread == [f \in Files |-> Absent]
Idle == [status |-> "idle", at |-> 1, read |-> Unread, bytes |-> Absent]

Init ==
  /\ \/ /\ analyzed = Absent /\ host \in BOOLEAN
        /\ \E cache \in Names, images \in Images, generated \in BOOLEAN :
             output = SoundOutput(cache, images, generated)
     \/ analyzed \in Caches /\ output = Unread /\ host = TRUE
  /\ past = [f \in Files |-> {output[f]}] /\ cameBack = FALSE
  /\ staging = {} /\ val = [v \in Validators |-> Idle]
  /\ edits = 0 /\ touched = FALSE /\ starts = 0 /\ kills = 0
  /\ alone = {} /\ moment = [v \in Validators |-> Unread]

Running(v) == val[v].status = "running"
Now(v) == Program[val[v].at]

Passed(v, read, bytes) ==
  val' = [val EXCEPT ![v] =
            [status |-> IF @.at = Len(Program) THEN "pass" ELSE "running",
             at |-> IF @.at = Len(Program) THEN @.at ELSE @.at + 1,
             read |-> read, bytes |-> bytes]]
Refused(v) == val' = [val EXCEPT ![v].status = "fail"]

history == <<analyzed, past, cameBack, host, edits, touched, starts, kills, alone>>

Start(v) ==
  /\ val[v].status = "idle" /\ analyzed = Absent
  /\ starts' = starts + 1
  /\ val' = [val EXCEPT ![v].status = "running"]
  /\ LET others == {w \in Validators : Running(w)}
     IN alone' = IF others = {} THEN alone \cup {v} ELSE alone \ others
  /\ UNCHANGED <<analyzed, output, past, cameBack, staging, host, edits, touched, kills, moment>>

\* The output's root holds nothing else: no staging directory is in it.
RootLayout == staging = {} /\ output.metadata # Absent /\ output.marker # Absent

\* The analysis holds its files and no other: a PDF only if the marker tells of one.
AnalysisLayout(marker) ==
  /\ \A f \in {"tables", "summary", "report"} : output[f] # Absent
  /\ marker.generated <=> output.pdf # Absent

\* The two markers tell of the same raw tree.
CompletionContract(v) ==
  /\ output.marker # Absent /\ output.marker.snapshot = val[v].read.metadata
  /\ AnalysisLayout(output.marker)

\* The raw tree is the one that was extracted, file by file: here escaped paths are restored.
ReconcileRawTree(v) ==
  /\ output.raw # Absent /\ output.images # Absent
  /\ SnapshotOf(output.raw, output.images) = val[v].read.metadata

\* Then the inventory's rows are read once more, and here an escaped path is not a canonical one.
SourceIntegrity(v) ==
  ReconcileRawTree(v) /\ \A cell \in val[v].read.metadata.inventory : ~cell.escaped

\* An artifact's bytes are those the marker was written for.
IsBound(v, file) == output[file] = val[v].read.marker.bound[file]

\* A table's escape is taken back only where it is before what the validator escapes itself.
ReadCsvRows(cells) == \A cell \in cells : cell.escaped => cell.begins = "formula"

\* The tables are derived from the raw cache again; the summary and the marker count them.
CacheParity(v) ==
  LET tables == val[v].read.tables.tables
  IN /\ output.raw # Absent
     /\ tables = Derived[output.raw]
     /\ {cell.begins : cell \in val[v].read.tables.cells} = Texts[output.raw]
     /\ val[v].read.summary = Counts[tables]
     /\ val[v].read.marker.counts = Counts[tables]

ImageParity(v) ==
  /\ output.images # Absent
  /\ val[v].read.tables.images = output.images /\ val[v].read.marker.images = output.images

Model(v) == Rendered(val[v].read.tables.tables, val[v].read.tables.images)
VisualReport(v) == output.report = Model(v)

\* A PDF that was written is rendered again byte for byte; one that was omitted must not
\* be possible to render here either.
PdfReport(v) ==
  IF val[v].read.marker.generated THEN host /\ val[v].read.pdf = Model(v) ELSE ~host

\* What each step asks of the file it reads, and of what was read before.
Accepts(v) ==
  LET file == Now(v).file
      content == output[file]
      read == val[v].read
  IN CASE Now(v).what = "layout" ->
            RootLayout /\ (read.marker # Absent => AnalysisLayout(read.marker))
       [] Now(v).what \in {"read", "bytes"} ->
            content # Absent /\ (file = "tables" => ReadCsvRows(content.cells))
       [] Now(v).what = "contract" -> CompletionContract(v)
       [] Now(v).what = "pdf" -> read.marker.generated <=> content # Absent
       [] Now(v).what = "source" -> SourceIntegrity(v)
       [] Now(v).what = "again" -> ReconcileRawTree(v)
       [] Now(v).what = "bound" -> IsBound(v, file)
       [] Now(v).what = "parity" -> IF file = "raw" THEN CacheParity(v) ELSE ImageParity(v)
       [] Now(v).what = "visual" -> VisualReport(v)
       [] Now(v).what = "render" -> PdfReport(v)
       [] Now(v).what = "same" -> content = val[v].bytes

Keeps == {"read", "contract", "pdf"}

Step(v) ==
  /\ Running(v) /\ Now(v).what \notin {"stage", "render", "parity"}
  /\ IF Accepts(v)
     THEN Passed(v, IF Now(v).what \in Keeps
                    THEN [val[v].read EXCEPT ![Now(v).file] = output[Now(v).file]]
                    ELSE val[v].read,
                 IF Now(v).what = "bytes" THEN output.marker ELSE val[v].bytes)
     ELSE Refused(v)
  /\ moment' = IF Now(v).what = "again" THEN [moment EXCEPT ![v] = output] ELSE moment
  /\ UNCHANGED <<output, staging, history>>

Stage(v) ==
  /\ Running(v) /\ Now(v).what = "stage"
  /\ staging' = staging \cup {v}
  /\ Passed(v, val[v].read, val[v].bytes)
  /\ UNCHANGED <<output, moment, history>>

\* Mutant: the staging directory stays when the comparison fails or ends.
StagingStays(v) == UNCHANGED staging

Unstage(v) == staging' = staging \ {v}

\* A database was copied, opened and compared, or the PDF was rendered again.
CompareStaged(v) ==
  /\ Running(v) /\ Now(v).what \in {"parity", "render"}
  /\ IF Accepts(v) THEN Passed(v, val[v].read, val[v].bytes) ELSE Refused(v)
  /\ Unstage(v)
  /\ UNCHANGED <<output, moment, history>>
-----------------------------------------------------------------------------
(***************************************************************************)
(* Others.                                                                 *)
(***************************************************************************)

May == \E v \in Validators : Running(v)

\* A file is deleted, or replaced by what another recovery would have written.
Others(f) ==
  {Absent} \cup {SoundOutput(cache, images, generated)[f] :
                   cache \in Names, images \in Images, generated \in BOOLEAN}

Edit(f) ==
  /\ May
  /\ edits' = edits + 1
  /\ \E content \in Others(f) \ {output[f]} :
       /\ output' = [output EXCEPT ![f] = content]
       /\ past' = [past EXCEPT ![f] = @ \cup {content}]
       /\ cameBack' = (cameBack \/ content \in past[f])
  /\ UNCHANGED <<analyzed, staging, val, host, touched, starts, kills, alone, moment>>

\* The times of the raw tree's files change, as when the output is copied.
Touch ==
  /\ May /\ output.raw # Absent /\ ~touched
  /\ touched' = TRUE
  /\ \E cache \in Names \ {output.raw} :
       /\ Digest[cache] = Digest[output.raw]
       /\ output' = [output EXCEPT !.raw = cache]
  /\ UNCHANGED <<analyzed, past, cameBack, staging, val, host, edits, starts, kills, alone, moment>>

Kill(v) ==
  /\ Running(v)
  /\ kills' = kills + 1
  /\ val' = [val EXCEPT ![v].status = "killed"]
  /\ UNCHANGED <<analyzed, output, past, cameBack, staging, host, edits, touched, starts, alone, moment>>

Ended == ~(\E v \in Validators : Running(v)) /\ UNCHANGED validatorVars

Disturbances(e, t, s, k) == e + (IF t THEN 1 ELSE 0) + (IF s > 1 THEN s - 1 ELSE 0) + k

Next ==
  /\ \/ \E v \in Validators : Start(v) \/ Step(v) \/ Stage(v) \/ CompareStaged(v) \/ Kill(v)
     \/ \E f \in Files : Edit(f)
     \/ Touch
     \/ Ended
  /\ Disturbances(edits', touched', starts', kills') <= MaxDisturbances

Spec == Init /\ [][Next]_validatorVars
-----------------------------------------------------------------------------
\* An accepted output was whole at one moment, but for the times of the raw tree's files:
\* every file was what the raw cache yields then, although each was read at a time of its
\* own, and others wrote to them.  (A file that is changed and changed back between two
\* readings is not noticed.)
AcceptedIsOneMoment ==
  \A v \in Validators :
    val[v].status = "pass" /\ ~cameBack =>
      \E cache \in Names :
        /\ Digest[cache] = Digest[moment[v].raw]
        /\ [moment[v] EXCEPT !.raw = cache]
             = SoundOutput(cache, moment[v].images, moment[v].pdf # Absent)

\* What the two programs read differently: a path that the recovery escaped, at all, and a
\* cell of a table that it escaped for a line feed.
ReadDifferently ==
  \/ \E cell \in output.metadata.inventory : cell.begins \in {"formula", "newline"}
  \/ \E cell \in output.tables.cells : cell.begins = "newline"

\* What a recovery wrote is refused only for a cause: a file or a time was changed, another
\* validator was at work, a killed one left its staging directory, the PDF can be rendered
\* where it could not be before, or no longer; or the output has a path or a cell that the
\* two programs read differently.  The last is no fault of the output: the validator refuses
\* it whenever it is read, although nobody touched it.  Any other text is escaped and read
\* back alike.
RefusedForCause ==
  \A v \in Validators :
    val[v].status = "fail" =>
      \/ edits > 0 \/ touched \/ v \notin alone
      \/ \E w \in staging : val[w].status = "killed"
      \/ host # (output.pdf # Absent)
      \/ ReadDifferently

\* What the analysis makes of each cache it does not refuse.
Analysis ==
  [cache \in {c \in Caches : Analyzable(c)} |-> [records |-> Records(cache), tables |-> Tables(cache)]]

Yields == analyzed \in DOMAIN Analysis

\* The positions of the records a table is to have, by their identities and scores: of the
\* best score among those of their identity, and of these the last one.
Best(n, identity, score) ==
  {i \in 1..n :
     \A k \in 1..n : identity[k] = identity[i] =>
       /\ AtLeast(score[i], score[k])
       /\ k > i => ~AtLeast(score[k], score[i])}

BestOf(items, Identity(_), Score(_)) ==
  {items[i] : i \in Best(Len(items), [i \in DOMAIN items |-> Identity(items[i])],
                         [i \in DOMAIN items |-> Score(items[i])])}

\* A table has some records, and of each identity one.
Has(table, records, Identity(_)) ==
  /\ {table[i] : i \in DOMAIN table} = records
  /\ \A i, j \in DOMAIN table : Identity(table[i]) = Identity(table[j]) => i = j

IsBest(table, items, Identity(_), Score(_)) == Has(table, BestOf(items, Identity, Score), Identity)

KeepsTheBest(records, merged) ==
  /\ IsBest(merged.watch_events, Taken(records, IsWatch), WatchIdentity, Updated)
  /\ Has(merged.movie_library \o merged.series_library,
         {item \in BestOf(Taken(records, IsLibrary), ItemIdentity, Updated) :
            item.entity \in {"movie", "series"}},
         ItemIdentity)
  /\ IsBest(merged.favorite_movies, Taken(records, IsFavoriteMovies), FavoriteIdentity, FavoriteScore)
  /\ IsBest(merged.favorite_shows, Taken(records, IsFavoriteShows), FavoriteIdentity, FavoriteScore)
  /\ IsBest(merged.episode_cache_unique, merged.episode_cache, EpisodeIdentity, Seen)

\* Of the records that repeat one another exactly one is in a table: of the best score,
\* and of those the one that was read last.
TablesKeepTheBest ==
  Yields => KeepsTheBest(Analysis[analyzed].records, Analysis[analyzed].tables)

\* An episode is shown as seen exactly if a response of the account says so, whatever the
\* catalogue says and whichever of them was stored last.  (Of an episode without an
\* identifier this says nothing: its rows have no identity to be told apart by.)
SeenIsTheAccounts ==
  Yields =>
    LET cache == analyzed
        merged == Analysis[analyzed].tables
        own == {i \in DOMAIN cache.archives : cache.archives[i].path = "profile"}
        ofAccount ==
          UNION {ToSet(EpisodesOf(show, TRUE)) :
                   show \in UNION {{s \in ToSet(cache.archives[i].shows) : s.id # 0} : i \in own}}
        ofDatabase ==
          UNION {ToSet(cache.rows[i].payload.objects) :
                   i \in {j \in DOMAIN cache.rows : cache.rows[j].payload.is = "episodes"}}
    IN \A row \in ToSet(merged.episode_cache_unique) :
         row.id # 0 =>
           (row.seen <=> \E e \in ofAccount \cup ofDatabase :
                            e.seen /\ e.id = row.id /\ e.show = row.show)
=============================================================================
