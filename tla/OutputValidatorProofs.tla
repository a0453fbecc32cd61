------------------------- MODULE OutputValidatorProofs -------------------------
(***************************************************************************)
(* Proofs about the validation of a finished output, for any caches, any   *)
(* validators and any number of edits, touches and kills: what it accepts  *)
(* was whole at one moment, and what a recovery wrote it refuses only for  *)
(* a cause.  For these the tables may be any; that they keep the best of   *)
(* the records that repeat one another is proved behind them.              *)
(*                                                                         *)
(* A file that has left a content it had while ~cameBack holds never has   *)
(* it again: so a digest that is compared before and after a moment was    *)
(* right at it.  That is what Compared says, file by file.                 *)
(***************************************************************************)
EXTENDS OutputValidator, SequenceTheorems, WellFoundedInduction, TLAPS

Statuses == {"idle", "running", "pass", "fail", "killed"}
Contents == UNION {Others(f) : f \in Files}
Views == [Files -> Contents]
ValRecords == [status : Statuses, at : 1 .. 28, read : Views, bytes : Contents]

\* Every file, and what was read of it, is of some recovery's output.
Typed ==
  /\ val \in [Validators -> ValRecords]
  /\ output \in Views /\ moment \in [Validators -> Views]
  /\ past \in [Files -> SUBSET Contents]
  /\ edits \in Nat /\ staging \subseteq Validators /\ alone \subseteq Validators
Genuine ==
  /\ \A f \in Files : output[f] \in Others(f)
  /\ \A v \in Validators : /\ val[v].bytes \in Others("marker")
                           /\ \A f \in Files : /\ val[v].read[f] \in Others(f)
                                               /\ moment[v][f] \in Others(f)

\* v is past position i of the program.
Past(v, i) == val[v].at > i \/ val[v].status = "pass"

\* Where a file is compared with its digest for the first time (the second is 17 later),
\* and where it is read to be kept.
Compares == [metadata |-> 7, summary |-> 8, tables |-> 9, report |-> 10, pdf |-> 11]
Reads == [metadata |-> 2, summary |-> 3, marker |-> 5, tables |-> 12, pdf |-> 18]

\* The moment's content of f was c, or f has left c for good.
LeftOr(v, f, c) == moment[v][f] = c \/ output[f] # c

Compared(v) ==
  LET marker == val[v].read.marker
      bytes == val[v].bytes
  IN /\ Past(v, 4) => bytes \in past.marker
     /\ Past(v, 5) => marker # Absent
     /\ \A f \in Bound : Past(v, Compares[f]) => marker.bound[f] \in past[f]
     /\ Past(v, 21) =>
          /\ moment[v].raw # Absent /\ moment[v].images # Absent
          /\ SnapshotOf(moment[v].raw, moment[v].images) = val[v].read.metadata
     /\ Past(v, 5) => marker.snapshot = val[v].read.metadata
     /\ ~cameBack =>
          /\ Past(v, 5) => marker = bytes \/ output.marker # bytes
          /\ Past(v, 21) => LeftOr(v, "marker", bytes)
          /\ Past(v, 21) => \A f \in Bound : LeftOr(v, f, marker.bound[f])
          /\ Past(v, 23) => marker = bytes /\ moment[v].marker = bytes
          /\ \A f \in Bound : Past(v, Compares[f] + 17) => moment[v][f] = marker.bound[f]

\* Whatever a file holds, its history has.
Recorded == \A f \in Files \ {"raw"} : output[f] \in past[f]

\* While nothing was edited or touched the output is a recovery's, and it was read so.
Undisturbed == edits = 0 /\ ~touched
Sound == \E cache \in Names, images \in Images, generated \in BOOLEAN :
  output = SoundOutput(cache, images, generated)
ReadSo(v) ==
  /\ \A f \in DOMAIN Reads : Past(v, Reads[f]) => val[v].read[f] = output[f]
  /\ val[v].read.marker \in {Absent, output.marker}
  /\ Past(v, 4) => val[v].bytes = output.marker
Faithful == Undisturbed => /\ \A v \in Validators : ReadSo(v)
                           /\ analyzed = Absent => Sound

\* Who has seen nobody else is at work alone; what is staged is being compared or was left.
Solitary == \A v \in alone : /\ val[v].status # "idle"
                             /\ Running(v) => \A w \in Validators : Running(w) => w = v
Staged == \A v \in staging : val[v].status = "killed" \/ (Running(v) /\ val[v].at \in {14, 16, 20})
Begun == \A v \in Validators : val[v].status # "idle" => analyzed = Absent

Inv == /\ Typed /\ Genuine /\ Recorded /\ (\A v \in Validators : Compared(v))
       /\ Faithful /\ Solitary /\ Staged /\ Begun /\ RefusedForCause
-----------------------------------------------------------------------------
\* The program and the outputs.

LEMMA Positions ==
  /\ Len(Program) = 28
  /\ \A i \in {1, 22} : Program[i] = Do("layout", "marker")
  /\ Program[2] = Do("read", "metadata") /\ Program[3] = Do("read", "summary")
  /\ Program[4] = Do("bytes", "marker") /\ Program[5] = Do("contract", "marker")
  /\ Program[6] = Do("source", "raw") /\ Program[21] = Do("again", "raw")
  /\ \A i \in {7, 24} : Program[i] = Do("bound", "metadata")
  /\ \A i \in {8, 25} : Program[i] = Do("bound", "summary")
  /\ \A i \in {9, 26} : Program[i] = Do("bound", "tables")
  /\ \A i \in {10, 27} : Program[i] = Do("bound", "report")
  /\ \A i \in {11, 28} : Program[i] = Do("bound", "pdf")
  /\ Program[12] = Do("read", "tables")
  /\ Program[13] = Do("stage", "raw") /\ Program[14] = Do("parity", "raw")
  /\ Program[15] = Do("stage", "images") /\ Program[16] = Do("parity", "images")
  /\ Program[17] = Do("visual", "report") /\ Program[18] = Do("pdf", "pdf")
  /\ Program[19] = Do("stage", "pdf") /\ Program[20] = Do("render", "pdf")
  /\ Program[23] = Do("same", "marker")
  BY SMT DEF Program, Gates, EachBound

\* What each step does, by the position it is at.
LEMMA Kinds ==
  /\ \A i \in 1 .. 28 :
       /\ Program[i].what = "stage" <=> i \in {13, 15, 19}
       /\ Program[i].what \in {"parity", "render"} <=> i \in {14, 16, 20}
       /\ Program[i].what = "layout" <=> i \in {1, 22}
       /\ Program[i].what = "bytes" <=> i = 4
       /\ Program[i].what = "contract" <=> i = 5
       /\ Program[i].what = "again" <=> i = 21
       /\ Program[i].what \in {"source", "again"} <=> i \in {6, 21}
       /\ Program[i].what = "same" <=> i = 23
       /\ Program[i].what = "bound" <=> i \in 7 .. 11 \cup 24 .. 28
       /\ Program[i].what \in Keeps <=> i \in {2, 3, 5, 12, 18}
       /\ Program[i].file \in Files
<1>1. ASSUME NEW i \in 1 .. 28
      PROVE  i \in {1, 2, 3, 4, 5, 6, 7, 8, 9, 10, 11, 12, 13, 14, 15, 16, 17, 18, 19, 20, 21, 22,
                    23, 24, 25, 26, 27, 28}
  OBVIOUS
<1> QED
  BY <1>1, Positions, SMT DEF Do, Files, Keeps

LEMMA SoundFiles ==
  ASSUME NEW cache, NEW images, NEW generated
  PROVE  LET tables == Derived[cache]
             model == Rendered(tables, images)
             sound == SoundOutput(cache, images, generated)
             marker == sound["marker"]
         IN  /\ DOMAIN sound = Files
             /\ sound["raw"] = cache /\ sound["images"] = images
             /\ sound["metadata"] = SnapshotOf(cache, images) /\ sound["summary"] = Counts[tables]
             /\ sound["tables"] = Tabulated(cache, images) /\ sound["report"] = model
             /\ sound["pdf"] = IF generated THEN model ELSE Absent
             /\ marker.snapshot = SnapshotOf(cache, images) /\ marker.counts = Counts[tables]
             /\ marker.images = images /\ marker.generated = generated
             /\ \A f \in Bound : marker.bound[f] = sound[f]
  BY SMT DEF SoundOutput, Files, Bound, Marker

LEMMA OthersFacts ==
  /\ \A f \in Files : Absent \in Others(f) /\ Others(f) \subseteq Contents
  /\ \A cache \in Names, images \in Images, generated \in BOOLEAN : \A f \in Files :
       SoundOutput(cache, images, generated)[f] \in Others(f)
  BY DEF Others, Contents

\* A read file's content is of one recovery, if it is there.
LEMMA OfOne ==
  ASSUME NEW f \in Files, NEW content \in Others(f), content # Absent
  PROVE  \E cache \in Names, images \in Images, generated \in BOOLEAN :
           content = SoundOutput(cache, images, generated)[f]
  BY DEF Others
-----------------------------------------------------------------------------
\* Steps of a validator.

Only(v) == \A w \in Validators : w # v => val'[w] = val[w]

LEMMA Advances ==
  ASSUME Typed, NEW v \in Validators, Running(v), NEW read, NEW bytes, Passed(v, read, bytes)
  PROVE  /\ Only(v) /\ val'[v].read = read /\ val'[v].bytes = bytes
         /\ \/ val[v].at = 28 /\ val'[v].status = "pass" /\ val'[v].at = 28
            \/ val[v].at < 28 /\ val'[v].status = "running" /\ val'[v].at = val[v].at + 1
         /\ \A i \in 1 .. 28 : Past(v, i)' <=> Past(v, i) \/ i = val[v].at
         /\ read \in Views /\ bytes \in Contents => val' \in [Validators -> ValRecords]
<1>1. Len(Program) = 28
  BY Positions
<1>2. val[v].at \in 1 .. 28 /\ val[v].status = "running"
  BY DEF Typed, ValRecords, Running
<1>3. /\ Only(v)
      /\ val'[v] = [status |-> IF val[v].at = 28 THEN "pass" ELSE "running",
                    at |-> IF val[v].at = 28 THEN val[v].at ELSE val[v].at + 1,
                    read |-> read, bytes |-> bytes]
  BY <1>1 DEF Passed, Typed, Only
<1>4. ASSUME read \in Views, bytes \in Contents PROVE val' \in [Validators -> ValRecords]
  <2>1. val'[v] \in ValRecords
    BY <1>2, <1>3, <1>4 DEF ValRecords, Statuses
  <2>2. val' \in [Validators -> ValRecords] <=> \A w \in Validators : val'[w] \in ValRecords
    BY DEF Passed, Typed
  <2> QED
    BY <1>3, <2>1, <2>2 DEF Typed, Only
<1> QED
  BY <1>2, <1>3, <1>4 DEF Past

LEMMA Refuses ==
  ASSUME Typed, NEW v \in Validators, Refused(v)
  PROVE  /\ Only(v) /\ val'[v].status = "fail" /\ val'[v].at = val[v].at
         /\ val'[v].read = val[v].read /\ val'[v].bytes = val[v].bytes
         /\ val' \in [Validators -> ValRecords]
  BY SMT DEF Refused, Typed, ValRecords, Statuses, Only

\* What a step of v that v passes has seen, and what of it is kept.
Passes(v) ==
  LET at == val[v].at
      read == val[v].read
  IN /\ Running(v) /\ Only(v)
     /\ \/ at = 28 /\ val'[v].status = "pass" /\ val'[v].at = 28
        \/ at < 28 /\ val'[v].status = "running" /\ val'[v].at = at + 1
     /\ \A i \in 1 .. 28 : Past(v, i)' <=> Past(v, i) \/ i = at
     /\ val'[v].bytes = IF at = 4 THEN output.marker ELSE val[v].bytes
     /\ \A f \in Files : val'[v].read[f] = IF f \in DOMAIN Reads /\ at = Reads[f] THEN output[f] ELSE read[f]
     /\ val' \in [Validators -> ValRecords]
     /\ at = 5 => CompletionContract(v)
     /\ at = 21 => ReconcileRawTree(v)
     /\ at = 23 => output.marker = val[v].bytes
     /\ \A f \in Bound : at \in {Compares[f], Compares[f] + 17} => IsBound(v, f)

\* What a step of v that is refused leaves.
Fails(v) ==
  /\ Running(v) /\ Only(v) /\ ~Accepts(v)
  /\ val'[v].status = "fail" /\ val'[v].at = val[v].at
  /\ val'[v].read = val[v].read /\ val'[v].bytes = val[v].bytes
  /\ val' \in [Validators -> ValRecords]

\* What every step leaves alone, and where the moment is taken.
Quiet(v) ==
  /\ output' = output /\ UNCHANGED history
  /\ moment' = IF val[v].at = 21 THEN [moment EXCEPT ![v] = output] ELSE moment

LEMMA AcceptsWhat ==
  ASSUME Typed, NEW v \in Validators, Accepts(v)
  PROVE  /\ val[v].at = 5 => CompletionContract(v)
         /\ val[v].at = 21 => ReconcileRawTree(v)
         /\ val[v].at = 23 => output.marker = val[v].bytes
         /\ \A f \in Bound : val[v].at \in {Compares[f], Compares[f] + 17} => IsBound(v, f)
<1>1. ASSUME val[v].at = 5 PROVE CompletionContract(v)
  BY <1>1, Positions DEF Accepts, Now, Do
<1>2. ASSUME val[v].at = 21 PROVE ReconcileRawTree(v)
  BY <1>2, Positions DEF Accepts, Now, Do
<1>3. ASSUME val[v].at = 23 PROVE output.marker = val[v].bytes
  BY <1>3, Positions DEF Accepts, Now, Do
<1>4. ASSUME NEW f \in Bound, val[v].at \in {Compares[f], Compares[f] + 17} PROVE IsBound(v, f)
  <2>1. Now(v) = Do("bound", f)
    BY <1>4, Positions, SMT DEF Now, Bound, Compares
  <2> QED
    BY <2>1 DEF Accepts, Do
<1> QED
  BY <1>1, <1>2, <1>3, <1>4

LEMMA ValidatorSteps ==
  ASSUME Typed, NEW v \in Validators, Step(v) \/ Stage(v) \/ CompareStaged(v)
  PROVE  Quiet(v) /\ (Passes(v) \/ Fails(v))
<1>1. val[v].at \in 1 .. 28 /\ val[v].read \in Views /\ val[v].bytes \in Contents
  BY DEF Typed, ValRecords
<1>2. /\ Now(v).what = "stage" <=> val[v].at \in {13, 15, 19}
      /\ Now(v).what \in {"parity", "render"} <=> val[v].at \in {14, 16, 20}
      /\ Now(v).what = "again" <=> val[v].at = 21
      /\ Now(v).what \in Keeps <=> val[v].at \in {2, 3, 5, 12, 18}
      /\ Now(v).what = "bytes" <=> val[v].at = 4
      /\ Now(v).file \in Files
  BY <1>1, Kinds DEF Now
<1>3. \A f \in Bound : /\ Compares[f] \in 7 .. 11
                       /\ Compares[f] + 17 \in 24 .. 28
  BY DEF Bound, Compares
<1>4. \A f \in DOMAIN Reads : Reads[f] \in {2, 3, 5, 12, 18}
  BY DEF Reads
<1>5. CASE Step(v) /\ Accepts(v)
  <2> DEFINE read == IF Now(v).what \in Keeps
                     THEN [val[v].read EXCEPT ![Now(v).file] = output[Now(v).file]]
                     ELSE val[v].read
             bytes == IF Now(v).what = "bytes" THEN output.marker ELSE val[v].bytes
  <2>1. Running(v) /\ Passed(v, read, bytes)
    BY <1>5 DEF Step
  <2>2. \A f \in Files : read[f] = IF f \in DOMAIN Reads /\ val[v].at = Reads[f] THEN output[f]
                                   ELSE val[v].read[f]
    <3>1. CASE val[v].at \notin {2, 3, 5, 12, 18}
      BY <1>2, <1>4, <3>1
    <3>2. CASE val[v].at \in {2, 3, 5, 12, 18}
      <4>1. /\ Now(v).file \in DOMAIN Reads /\ Reads[Now(v).file] = val[v].at
            /\ \A f \in DOMAIN Reads : Reads[f] = val[v].at => f = Now(v).file
        BY <3>2, Positions, SMT DEF Now, Do, Reads
      <4>2. read = [val[v].read EXCEPT ![Now(v).file] = output[Now(v).file]]
        BY <1>2, <3>2
      <4>3. \A f \in Files : read[f] = IF f = Now(v).file THEN output[f] ELSE val[v].read[f]
        BY <1>1, <1>2, <4>2 DEF Views
      <4> QED
        BY <4>1, <4>3
    <3> QED
      BY <3>1, <3>2
  <2>3. read \in Views /\ bytes \in Contents
    BY <1>1, <1>2 DEF Typed, Views, Files
  <2>4. bytes = IF val[v].at = 4 THEN output.marker ELSE val[v].bytes
    BY <1>2
  <2>5. Quiet(v)
    BY <1>2, <1>5 DEF Step, Quiet
  <2> HIDE DEF read, bytes
  <2>6. Passes(v)
    BY <1>5, <2>1, <2>2, <2>3, <2>4, Advances, AcceptsWhat DEF Passes
  <2> QED
    BY <2>5, <2>6
<1>6. ASSUME Running(v), Passed(v, val[v].read, val[v].bytes),
             val[v].at \in {13, 15, 19} \cup {14, 16, 20}
      PROVE  Passes(v)
  <2>1. /\ val[v].at \notin {4, 5, 21, 23}
        /\ \A f \in DOMAIN Reads : val[v].at # Reads[f]
        /\ \A f \in Bound : val[v].at \notin {Compares[f], Compares[f] + 17}
    BY <1>3, <1>4, <1>6
  <2> QED
    BY <1>1, <1>6, <2>1, Advances DEF Passes
<1>7. CASE Stage(v)
  BY <1>2, <1>6, <1>7 DEF Stage, Quiet
<1>8. CASE CompareStaged(v) /\ Accepts(v)
  BY <1>2, <1>6, <1>8 DEF CompareStaged, Quiet
<1>9. CASE (Step(v) \/ CompareStaged(v)) /\ ~Accepts(v)
  <2>1. Running(v) /\ Refused(v) /\ Quiet(v)
    BY <1>2, <1>9 DEF Step, CompareStaged, Quiet
  <2> QED
    BY <1>9, <2>1, Refuses DEF Fails
<1> QED
  BY <1>5, <1>7, <1>8, <1>9

\* Others neither read nor compare, and a file that left a content does not come back to it.
NeverBack ==
  /\ cameBack => cameBack'
  /\ \A f \in Files \ {"raw"} :
       /\ past[f] \subseteq past'[f]
       /\ \A c \in past[f] : output[f] # c /\ ~cameBack' => output'[f] # c

Resting(v) == /\ val'[v].read = val[v].read /\ val'[v].bytes = val[v].bytes
              /\ val'[v].at = val[v].at
              /\ val'[v].status \in {val[v].status, "running", "killed", "fail"}
              /\ moment'[v] = moment[v]

LEMMA PastRests == ASSUME NEW v, Resting(v) PROVE \A i : Past(v, i)' => Past(v, i)
  BY DEF Resting, Past

LEMMA Edits ==
  ASSUME Typed, Genuine, Recorded, NEW f \in Files, Edit(f)
  PROVE  /\ NeverBack /\ Recorded' /\ edits' > 0
         /\ val' = val /\ UNCHANGED <<analyzed, staging, alone, host, moment>>
         /\ edits' \in Nat /\ output' \in Views /\ past' \in [Files -> SUBSET Contents]
         /\ \A g \in Files : output'[g] \in Others(g)
<1>1. PICK content \in Others(f) : /\ output' = [output EXCEPT ![f] = content]
                                   /\ past' = [past EXCEPT ![f] = @ \cup {content}]
                                   /\ cameBack' = (cameBack \/ content \in past[f])
  BY DEF Edit
<1>2. content \in Contents
  BY OthersFacts
<1>3. \A g \in Files : /\ output'[g] = IF g = f THEN content ELSE output[g]
                       /\ past'[g] = IF g = f THEN past[f] \cup {content} ELSE past[g]
  BY <1>1 DEF Typed, Views
<1>4. /\ output' \in Views /\ past' \in [Files -> SUBSET Contents]
      /\ \A g \in Files : output'[g] \in Others(g)
  <2>1. output' \in Views
    BY <1>1, <1>2 DEF Typed, Views
  <2>2. past' \in [Files -> SUBSET Contents]
    BY <1>1, <1>2 DEF Typed
  <2> QED
    BY <1>3, <2>1, <2>2 DEF Genuine
<1>5. Recorded'
  BY <1>3 DEF Recorded
<1>6. (cameBack => cameBack') /\ (~cameBack' => content \notin past[f])
  BY <1>1
<1>7. NeverBack
  BY <1>3, <1>6 DEF NeverBack
<1> QED
  BY <1>4, <1>5, <1>7 DEF Edit, Typed

LEMMA Touches ==
  ASSUME Typed, Genuine, Recorded, Begun, Touch
  PROVE  /\ NeverBack /\ Recorded' /\ touched'
         /\ val' = val /\ UNCHANGED <<analyzed, past, edits, staging, alone, host, moment>>
         /\ output' \in Views /\ \A g \in Files : output'[g] \in Others(g)
<1>1. PICK cache \in Names : output' = [output EXCEPT !.raw = cache]
  BY DEF Touch
<1>2. output.raw # Absent /\ output.raw \in Others("raw")
  BY DEF Touch, Genuine, Files
<1>3. PICK images \in Images, generated \in BOOLEAN : TRUE
  BY <1>2, OfOne DEF Files
<1>4. cache \in Others("raw") /\ cache \in Contents
  BY <1>3, OthersFacts, SoundFiles DEF Files
<1>5. \A g \in Files : output'[g] = IF g = "raw" THEN cache ELSE output[g]
  BY <1>1 DEF Typed, Views
<1>6. output' \in Views /\ \A g \in Files : output'[g] \in Others(g)
  BY <1>1, <1>4, <1>5 DEF Typed, Views, Genuine
<1>7. past' = past /\ cameBack' = cameBack
  BY DEF Touch
<1>8. NeverBack /\ Recorded'
  BY <1>5, <1>7 DEF NeverBack, Recorded
<1> QED
  BY <1>6, <1>8 DEF Touch

LEMMA StartsOrKills ==
  ASSUME Typed, NEW v \in Validators, Start(v) \/ Kill(v)
  PROVE  /\ UNCHANGED <<analyzed, output, past, cameBack, staging, host, edits, touched, moment>>
         /\ Only(v) /\ val' \in [Validators -> ValRecords]
         /\ \A w \in Validators : Resting(w)
         /\ Start(v) => val[v].status = "idle" /\ val'[v].status = "running"
         /\ Kill(v) => val[v].status = "running" /\ val'[v].status = "killed" /\ alone' = alone
<1>1. PICK status \in {"running", "killed"} : val' = [val EXCEPT ![v].status = status]
  BY DEF Start, Kill
<1>2. /\ Only(v) /\ val' \in [Validators -> ValRecords] /\ val'[v].status = status
      /\ \A w \in Validators : /\ val'[w].read = val[w].read /\ val'[w].bytes = val[w].bytes
                               /\ val'[w].at = val[w].at
                               /\ val'[w].status \in {val[w].status, status}
  BY <1>1, SMT DEF Typed, ValRecords, Statuses, Only
<1>3. \A w \in Validators : Resting(w)
  BY <1>2 DEF Resting, Start, Kill
<1>4. Start(v) => val[v].status = "idle" /\ val'[v].status = "running"
  BY SMT DEF Start, Typed, ValRecords
<1>5. Kill(v) => val[v].status = "running" /\ val'[v].status = "killed" /\ alone' = alone
  BY SMT DEF Kill, Typed, ValRecords, Running
<1> QED
  BY <1>2, <1>3, <1>4, <1>5 DEF Start, Kill
-----------------------------------------------------------------------------
\* Comparisons.

LEMMA ComparedRests ==
  ASSUME Typed, NEW v \in Validators, Compared(v), NeverBack, Resting(v)
  PROVE  Compared(v)'
<1>1. \A i : Past(v, i)' => Past(v, i)
  BY PastRests
<1>2. /\ "marker" \in Files \ {"raw"} /\ Bound \subseteq Files \ {"raw"}
      /\ \A f \in Bound : Compares[f] \in 7 .. 11
  BY DEF Files, Bound, Compares
<1>3. val[v].at \in 1 .. 28
  BY DEF Typed, ValRecords
<1>4. \A f \in Bound : Past(v, 21) => Past(v, Compares[f])
  BY <1>2, <1>3 DEF Past
<1>5. Past(v, 5) => Past(v, 4)
  BY <1>3 DEF Past
<1>6. Past(v, 21) => Past(v, 4)
  BY <1>3 DEF Past
<1> DEFINE marker == val[v].read.marker
           bytes == val[v].bytes
<1>7. val'[v].read = val[v].read /\ val'[v].bytes = bytes /\ moment'[v] = moment[v]
  BY DEF Resting
<1>8. Past(v, 4)' => bytes \in past'.marker
  BY <1>1, <1>2 DEF Compared, NeverBack
<1>9. \A f \in Bound : Past(v, Compares[f])' => marker.bound[f] \in past'[f]
  BY <1>1, <1>2 DEF Compared, NeverBack
<1>10. ASSUME ~cameBack' PROVE ~cameBack
  BY <1>10 DEF NeverBack
<1>11. ASSUME ~cameBack', Past(v, 5)' PROVE marker = bytes \/ output'.marker # bytes
  <2>1. bytes \in past.marker /\ (marker = bytes \/ output.marker # bytes)
    BY <1>1, <1>5, <1>10, <1>11 DEF Compared
  <2> QED
    BY <1>2, <1>11, <2>1 DEF NeverBack
<1>12. ASSUME ~cameBack', Past(v, 21)' PROVE LeftOr(v, "marker", bytes)'
  <2>1. bytes \in past.marker /\ (moment[v].marker = bytes \/ output.marker # bytes)
    BY <1>1, <1>6, <1>10, <1>12 DEF Compared, LeftOr
  <2>2. moment'[v].marker = bytes \/ output'.marker # bytes
    BY <1>2, <1>7, <1>12, <2>1 DEF NeverBack
  <2> QED
    BY <1>7, <2>2 DEF LeftOr
<1>13. ASSUME ~cameBack', Past(v, 21)', NEW f \in Bound
       PROVE  LeftOr(v, f, marker.bound[f])'
  <2>1. /\ marker.bound[f] \in past[f]
        /\ moment[v][f] = marker.bound[f] \/ output[f] # marker.bound[f]
    BY <1>1, <1>4, <1>10, <1>13 DEF Compared, LeftOr
  <2>2. moment'[v][f] = marker.bound[f] \/ output'[f] # marker.bound[f]
    BY <1>2, <1>7, <1>13, <2>1 DEF NeverBack
  <2> QED
    BY <1>7, <2>2 DEF LeftOr
<1> QED
  BY <1>1, <1>7, <1>8, <1>9, <1>10, <1>11, <1>12, <1>13 DEF Compared

LEMMA ComparedPasses ==
  ASSUME Typed, Recorded, NEW v \in Validators, Compared(v), Quiet(v), Passes(v)
  PROVE  Compared(v)'
<1> DEFINE at == val[v].at
           marker == val[v].read.marker
           bytes == val[v].bytes
<1>1. at \in 1 .. 28 /\ val[v].status = "running"
  BY DEF Typed, ValRecords, Passes, Running
<1>2. \A i \in 1 .. 28 : /\ Past(v, i)' <=> at >= i
                         /\ Past(v, i) <=> at > i
  BY <1>1 DEF Passes, Past
<1>3. /\ output' = output /\ past' = past /\ cameBack' = cameBack
      /\ moment'[v] = IF at = 21 THEN output ELSE moment[v]
  BY DEF Quiet, history, Typed
<1>4. /\ val'[v].bytes = IF at = 4 THEN output.marker ELSE bytes
      /\ val'[v].read.marker = IF at = 5 THEN output.marker ELSE marker
      /\ val'[v].read.metadata = IF at = 2 THEN output.metadata ELSE val[v].read.metadata
  BY DEF Passes, Reads, Files
<1>5. /\ \A f \in Bound : /\ Compares[f] \in 7 .. 11
                          /\ Compares[f] + 17 \in 24 .. 28
      /\ "marker" \in Files \ {"raw"} /\ Bound \subseteq Files \ {"raw"}
  BY DEF Bound, Compares, Files
<1>6. Past(v, 4)' => val'[v].bytes \in past.marker
  BY <1>1, <1>2, <1>4, <1>5 DEF Compared, Recorded
<1>7. Past(v, 5)' => /\ val'[v].read.marker # Absent
                     /\ val'[v].read.marker.snapshot = val'[v].read.metadata
                     /\ ~cameBack => \/ val'[v].read.marker = val'[v].bytes
                                     \/ output.marker # val'[v].bytes
  <2>1. CASE at = 5
    BY <1>4, <2>1 DEF Passes, CompletionContract
  <2>2. CASE at > 5
    BY <1>1, <1>2, <1>4, <2>2 DEF Compared
  <2> QED
    BY <1>1, <1>2, <2>1, <2>2
<1>8. \A f \in Bound : Past(v, Compares[f])' => val'[v].read.marker.bound[f] \in past[f]
  <2> SUFFICES ASSUME NEW f \in Bound, Past(v, Compares[f])'
               PROVE  val'[v].read.marker.bound[f] \in past[f]
    OBVIOUS
  <2>1. at >= Compares[f] /\ at # 5
    BY <1>1, <1>2, <1>5
  <2>2. CASE at = Compares[f]
    BY <1>4, <1>5, <2>1, <2>2 DEF Passes, IsBound, Recorded
  <2>3. CASE at > Compares[f]
    BY <1>1, <1>2, <1>4, <1>5, <2>1, <2>3 DEF Compared
  <2> QED
    BY <1>1, <1>5, <2>1, <2>2, <2>3
<1>9. Past(v, 21)' => /\ moment'[v].raw # Absent /\ moment'[v].images # Absent
                      /\ SnapshotOf(moment'[v].raw, moment'[v].images) = val'[v].read.metadata
  <2>1. CASE at = 21
    BY <1>3, <1>4, <2>1 DEF Passes, ReconcileRawTree
  <2>2. CASE at > 21
    BY <1>1, <1>2, <1>3, <1>4, <2>2 DEF Compared
  <2> QED
    BY <1>1, <1>2, <2>1, <2>2
<1>10. ASSUME ~cameBack, Past(v, 21)'
       PROVE  /\ moment'[v].marker = bytes \/ output.marker # bytes
              /\ \A f \in Bound : moment'[v][f] = marker.bound[f] \/ output[f] # marker.bound[f]
              /\ val'[v].bytes = bytes /\ val'[v].read.marker = marker
  <2>1. CASE at = 21
    BY <1>3, <1>4, <2>1
  <2>2. CASE at > 21
    BY <1>1, <1>2, <1>3, <1>4, <1>10, <2>2 DEF Compared, LeftOr
  <2> QED
    BY <1>1, <1>2, <1>10, <2>1, <2>2
<1>11. ASSUME ~cameBack, Past(v, 23)' PROVE marker = bytes /\ moment'[v].marker = bytes
  <2>1. CASE at = 23
    BY <1>1, <1>2, <1>10, <1>11, <2>1 DEF Passes, Compared
  <2>2. CASE at > 23
    BY <1>1, <1>2, <1>3, <1>11, <2>2 DEF Compared
  <2> QED
    BY <1>1, <1>2, <1>11, <2>1, <2>2
<1>12. ASSUME ~cameBack, NEW f \in Bound, Past(v, Compares[f] + 17)'
       PROVE  moment'[v][f] = marker.bound[f]
  <2>1. at >= Compares[f] + 17 /\ at > 21
    BY <1>1, <1>2, <1>5, <1>12
  <2>2. CASE at = Compares[f] + 17
    BY <1>1, <1>2, <1>10, <1>12, <2>1, <2>2 DEF Passes, IsBound
  <2>3. CASE at > Compares[f] + 17
    BY <1>1, <1>2, <1>3, <1>5, <1>12, <2>1, <2>3 DEF Compared
  <2> QED
    BY <1>1, <1>5, <2>1, <2>2, <2>3
<1>13. \A f \in Bound : Past(v, Compares[f] + 17)' \/ Past(v, 23)' => Past(v, 21)'
  BY <1>1, <1>2, <1>5
<1> HIDE DEF at, marker, bytes
<1>14. ASSUME ~cameBack'
       PROVE  /\ Past(v, 5)' => \/ val'[v].read.marker = val'[v].bytes
                                \/ output'.marker # val'[v].bytes
              /\ Past(v, 21)' => \/ moment'[v].marker = val'[v].bytes
                                 \/ output'.marker # val'[v].bytes
              /\ Past(v, 21)' => \A f \in Bound :
                   \/ moment'[v][f] = val'[v].read.marker.bound[f]
                   \/ output'[f] # val'[v].read.marker.bound[f]
              /\ Past(v, 23)' => /\ val'[v].read.marker = val'[v].bytes
                                 /\ moment'[v].marker = val'[v].bytes
              /\ \A f \in Bound : Past(v, Compares[f] + 17)' =>
                   moment'[v][f] = val'[v].read.marker.bound[f]
  <2>1. ~cameBack /\ output' = output
    BY <1>3, <1>14
  <2>2. /\ Past(v, 21)' => \/ moment'[v].marker = val'[v].bytes
                            \/ output'.marker # val'[v].bytes
        /\ Past(v, 21)' => \A f \in Bound :
             \/ moment'[v][f] = val'[v].read.marker.bound[f]
             \/ output'[f] # val'[v].read.marker.bound[f]
    BY <1>10, <2>1
  <2>3. Past(v, 23)' => /\ val'[v].read.marker = val'[v].bytes
                        /\ moment'[v].marker = val'[v].bytes
    BY <1>1, <1>2, <1>10, <1>11, <2>1
  <2>4. \A f \in Bound : Past(v, Compares[f] + 17)' =>
             moment'[v][f] = val'[v].read.marker.bound[f]
    BY <1>10, <1>12, <1>13, <2>1
  <2> QED
    BY <1>7, <2>1, <2>2, <2>3, <2>4
<1>15. /\ Past(v, 4)' => val'[v].bytes \in past'.marker
       /\ \A f \in Bound : Past(v, Compares[f])' => val'[v].read.marker.bound[f] \in past'[f]
  BY <1>3, <1>6, <1>8
<1> QED
  BY <1>7, <1>9, <1>14, <1>15 DEF Compared, LeftOr

\* A validator, or what it has read, that a step of another one leaves alone.
LEMMA Elsewhere ==
  ASSUME Typed, NEW v \in Validators, NEW w \in Validators, w # v, Only(v), Quiet(v)
  PROVE  Resting(w)
  BY DEF Only, Quiet, Resting, Typed

LEMMA SameNeverBack == output' = output /\ past' = past /\ cameBack' = cameBack => NeverBack
  BY DEF NeverBack
-----------------------------------------------------------------------------
\* What a recovery wrote is accepted, step by step.

\* Why v may refuse an output that a recovery wrote.
Cause(v) == \/ edits > 0 \/ touched \/ v \notin alone
            \/ \E w \in staging : val[w].status = "killed"
            \/ host # (output.pdf # Absent)
            \/ ReadDifferently

\* What is not read differently is read back as it was written.
LEMMA ReadsBack ==
  ASSUME NEW cache \in Names, NEW images
  PROVE  LET inventory == SnapshotOf(cache, images).inventory
             cells == Tabulated(cache, images).cells
         IN  /\ (\A cell \in inventory : cell.begins \notin {"formula", "newline"}) =>
                  \A cell \in inventory : ~cell.escaped
             /\ (\A cell \in cells : cell.begins # "newline") => ReadCsvRows(cells)
             /\ {cell.begins : cell \in cells} = Texts[cache]
<1>1. ASSUME NEW begins
      PROVE  /\ Cell(begins).begins = begins
             /\ Cell(begins).escaped <=> begins \in {"formula", "newline"}
  BY DEF Cell, SpreadsheetFormulaPrefixes
<1>2. ASSUME NEW beginnings
      PROVE  /\ \A cell \in CellsOf(beginnings) : \E begins \in beginnings : cell = Cell(begins)
             /\ \A begins \in beginnings : Cell(begins) \in CellsOf(beginnings)
  BY DEF CellsOf
<1>3. ASSUME NEW beginnings, NEW cell \in CellsOf(beginnings)
      PROVE  /\ cell.begins \in beginnings
             /\ cell.escaped <=> cell.begins \in {"formula", "newline"}
  <2>1. PICK begins \in beginnings : cell = Cell(begins)
    BY <1>2
  <2> QED
    BY <1>1, <2>1
<1>4. {cell.begins : cell \in CellsOf(Texts[cache])} = Texts[cache]
  <2>1. ASSUME NEW begins \in Texts[cache]
        PROVE  \E cell \in CellsOf(Texts[cache]) : begins = cell.begins
    BY <1>1, <1>2
  <2>2. \A cell \in CellsOf(Texts[cache]) : cell.begins \in Texts[cache]
    BY <1>3
  <2> QED
    BY <2>1, <2>2
<1>5. /\ SnapshotOf(cache, images).inventory = CellsOf(Paths[cache])
      /\ Tabulated(cache, images).cells = CellsOf(Texts[cache])
  BY DEF SnapshotOf, Tabulated
<1> QED
  BY <1>3, <1>4, <1>5 DEF ReadCsvRows

LEMMA AcceptsSound ==
  ASSUME Typed, Faithful, Solitary, Staged, Begun, NEW v \in Validators, Running(v), ~Cause(v),
         val[v].at \notin {13, 15, 19}
  PROVE  Accepts(v)
<1> DEFINE at == val[v].at
           read == val[v].read
           file == Now(v).file
<1>1. at \in 1 .. 28 /\ edits = 0 /\ ~touched /\ v \in alone /\ host = (output.pdf # Absent)
  BY DEF Typed, ValRecords, Cause
<1>2. analyzed = Absent /\ ReadSo(v)
  BY <1>1 DEF Begun, Running, Faithful, Undisturbed
<1>3. PICK cache \in Names, images \in Images, generated \in BOOLEAN :
        output = SoundOutput(cache, images, generated)
  BY <1>1, <1>2 DEF Faithful, Undisturbed, Sound
<1> DEFINE tables == Derived[cache]
           model == Rendered(tables, images)
<1>4. /\ output["raw"] = cache /\ output["images"] = images
      /\ output["metadata"] = SnapshotOf(cache, images) /\ output["summary"] = Counts[tables]
      /\ output["tables"] = Tabulated(cache, images) /\ output["report"] = model
      /\ output["pdf"] = IF generated THEN model ELSE Absent
      /\ output["marker"].snapshot = SnapshotOf(cache, images)
      /\ output["marker"].counts = Counts[tables]
      /\ output["marker"].images = images /\ output["marker"].generated = generated
      /\ \A f \in Bound : output["marker"].bound[f] = output[f]
  BY <1>3, SoundFiles
<1>5. /\ \A f \in Files \ {"pdf"} : output[f] # Absent
      /\ model # Absent
  BY <1>3, <1>4, AbsentAssumption DEF Files
<1>6. generated <=> output.pdf # Absent
  BY <1>4, <1>5
<1>7. /\ at > 2 => read.metadata = output.metadata
      /\ at > 3 => read.summary = output.summary
      /\ at > 4 => val[v].bytes = output.marker
      /\ at > 5 => read.marker = output.marker
      /\ at > 12 => read.tables = output.tables
      /\ at > 18 => read.pdf = output.pdf
      /\ read.marker \in {Absent, output.marker}
  BY <1>2, SMT DEF ReadSo, Past, Reads
<1>8. AnalysisLayout(output.marker)
  BY <1>4, <1>5, <1>6 DEF AnalysisLayout, Files
<1>9. ASSUME at \in {1, 22} PROVE RootLayout
  <2>1. \A w \in staging : FALSE
    <3> SUFFICES ASSUME NEW w \in staging PROVE FALSE
      OBVIOUS
    <3>1. Running(w) /\ val[w].at \in {14, 16, 20}
      BY DEF Staged, Cause
    <3>2. w = v
      BY <1>1, <3>1 DEF Solitary, Typed
    <3> QED
      BY <1>9, <3>1, <3>2
  <2> QED
    BY <1>5, <2>1 DEF RootLayout, Files
<1>10. ReconcileRawTree(v) <=> SnapshotOf(cache, images) = read.metadata
  BY <1>4, <1>5 DEF ReconcileRawTree, Files
<1>20. /\ \A cell \in output["metadata"].inventory : ~cell.escaped
       /\ ReadCsvRows(output["tables"].cells)
       /\ {cell.begins : cell \in output["tables"].cells} = Texts[cache]
  <2>1. /\ \A cell \in output["metadata"].inventory : cell.begins \notin {"formula", "newline"}
        /\ \A cell \in output["tables"].cells : cell.begins # "newline"
    BY DEF Cause, ReadDifferently
  <2> QED
    BY <1>4, <2>1, ReadsBack
<1> HIDE DEF tables, model
<1>11. CASE at \in {1, 22}
  <2>1. Now(v) = Do("layout", "marker")
    BY <1>11, Positions DEF Now
  <2> QED
    BY <1>7, <1>8, <1>9, <1>11, <2>1 DEF Accepts, Do
<1>12. CASE at \in {2, 3, 4, 12}
  <2>1. Now(v).what \in {"read", "bytes"} /\ file \in Files \ {"pdf"}
    BY <1>12, Positions DEF Now, Do, Files
  <2>2. file = "tables" => ReadCsvRows(output[file].cells)
    BY <1>20
  <2> QED
    BY <1>5, <2>1, <2>2 DEF Accepts
<1>13. CASE at = 5
  <2>1. Now(v) = Do("contract", "marker")
    BY <1>13, Positions DEF Now
  <2>2. CompletionContract(v)
    BY <1>4, <1>5, <1>7, <1>8, <1>13 DEF CompletionContract, Files
  <2> QED
    BY <2>1, <2>2 DEF Accepts, Do
<1>14. CASE at \in {6, 21}
  <2>1. Now(v).what \in {"source", "again"}
    BY <1>14, Positions DEF Now, Do
  <2>2. ReconcileRawTree(v) /\ SourceIntegrity(v)
    BY <1>4, <1>7, <1>10, <1>14, <1>20 DEF SourceIntegrity
  <2> QED
    BY <2>1, <2>2 DEF Accepts
<1>15. CASE at \in 7 .. 11 \cup 24 .. 28
  <2>1. at \in {7, 8, 9, 10, 11, 24, 25, 26, 27, 28}
    BY <1>15
  <2>2. Now(v).what = "bound" /\ file \in Bound
    BY <2>1, Positions DEF Now, Do, Bound
  <2>3. read.marker = output.marker
    BY <1>7, <2>1
  <2>4. IsBound(v, file)
    BY <1>4, <2>2, <2>3 DEF IsBound
  <2> QED
    BY <2>2, <2>4 DEF Accepts
<1>16. CASE at \in {14, 16}
  <2>1. /\ read.tables = output.tables /\ read.marker = output.marker
        /\ read.summary = output.summary
    BY <1>7, <1>16
  <2>2. CacheParity(v)
    BY <1>4, <1>5, <1>20, <2>1 DEF CacheParity, Tabulated, Files, tables
  <2>3. ImageParity(v)
    BY <1>4, <1>5, <2>1 DEF ImageParity, Tabulated, Files
  <2>4. Now(v).what = "parity"
    BY <1>16, Positions DEF Now, Do
  <2> QED
    BY <2>2, <2>3, <2>4 DEF Accepts
<1>17. CASE at \in {17, 18, 20}
  <2>1. read.tables = output.tables /\ read.marker = output.marker
    BY <1>7, <1>17
  <2>2. Model(v) = model
    BY <1>4, <2>1 DEF Model, Rendered, Tabulated, model, tables
  <2>3. CASE at = 17
    <3>1. Now(v).what = "visual"
      BY <2>3, Positions DEF Now, Do
    <3> QED
      BY <1>4, <2>2, <3>1 DEF Accepts, VisualReport
  <2>4. CASE at = 18
    <3>1. Now(v) = Do("pdf", "pdf")
      BY <2>4, Positions DEF Now
    <3> QED
      BY <1>4, <1>6, <2>1, <3>1 DEF Accepts, Do
  <2>5. CASE at = 20
    <3>1. Now(v).what = "render"
      BY <2>5, Positions DEF Now, Do
    <3>2. read.pdf = output.pdf
      BY <1>7, <2>5
    <3>3. PdfReport(v)
      BY <1>1, <1>4, <1>6, <2>1, <2>2, <3>2 DEF PdfReport
    <3> QED
      BY <3>1, <3>3 DEF Accepts
  <2> QED
    BY <1>17, <2>3, <2>4, <2>5
<1>18. CASE at = 23
  <2>1. Now(v) = Do("same", "marker")
    BY <1>18, Positions DEF Now
  <2> QED
    BY <1>7, <1>18, <2>1 DEF Accepts, Do
<1>19. at \in {1, 22} \cup {2, 3, 4, 12} \cup {5} \cup {6, 21} \cup (7 .. 11 \cup 24 .. 28)
              \cup {14, 16} \cup {17, 18, 20} \cup {23}
  BY <1>1
<1> QED
  BY <1>11, <1>12, <1>13, <1>14, <1>15, <1>16, <1>17, <1>18, <1>19

\* A cause stays one.
LEMMA CauseStays ==
  ASSUME Typed, NEW v \in Validators, Cause(v),
         edits > 0 => edits' > 0, touched => touched', host' = host,
         v \notin alone => v \notin alone',
         \A w \in staging : val[w].status = "killed" => w \in staging' /\ val'[w].status = "killed",
         output' = output \/ edits' > 0 \/ touched'
  PROVE  Cause(v)'
  BY DEF Cause, ReadDifferently

LEMMA RefusedIsCause == RefusedForCause <=> \A v \in Validators : val[v].status = "fail" => Cause(v)
  BY DEF RefusedForCause, Cause
-----------------------------------------------------------------------------
\* Every step keeps the invariant.

\* A validator's step.
LEMMA ValidatorKeeps ==
  ASSUME Inv, NEW v \in Validators, Step(v) \/ Stage(v) \/ CompareStaged(v)
  PROVE  Inv'
<1>1. Typed /\ Genuine /\ Recorded /\ Faithful /\ Solitary /\ Staged /\ Begun
  BY DEF Inv
<1>2. Quiet(v) /\ (Passes(v) \/ Fails(v))
  BY <1>1, ValidatorSteps
<1>3. /\ output' = output /\ past' = past /\ cameBack' = cameBack /\ analyzed' = analyzed
      /\ host' = host /\ edits' = edits /\ touched' = touched /\ alone' = alone
      /\ moment' = IF val[v].at = 21 THEN [moment EXCEPT ![v] = output] ELSE moment
      /\ Running(v) /\ Only(v) /\ val' \in [Validators -> ValRecords]
  BY <1>2 DEF Quiet, history, Passes, Fails
<1>4. val[v].at \in 1 .. 28 /\ val[v].status = "running"
  BY <1>1, <1>3 DEF Typed, ValRecords, Running
<1>5. /\ \A w \in Validators, f \in Files : moment'[w][f] \in {moment[w][f], output[f]}
      /\ moment' \in [Validators -> Views]
  BY <1>1, <1>3 DEF Typed
<1>6. \A f \in Files : val'[v].read[f] \in {val[v].read[f], output[f]}
  BY <1>2 DEF Passes, Fails
<1>7. val'[v].bytes \in {val[v].bytes, output.marker}
  BY <1>2 DEF Passes, Fails
<1>8. /\ \/ Stage(v) /\ staging' = staging \cup {v} /\ val[v].at \in {13, 15, 19}
         \/ Step(v) /\ staging' = staging /\ val[v].at \notin {13, 14, 15, 16, 19, 20}
         \/ CompareStaged(v) /\ staging' = staging \ {v} /\ val[v].at \in {14, 16, 20}
  <2>1. /\ Now(v).what = "stage" <=> val[v].at \in {13, 15, 19}
        /\ Now(v).what \in {"parity", "render"} <=> val[v].at \in {14, 16, 20}
    BY <1>4, Kinds DEF Now
  <2> QED
    BY <2>1 DEF Stage, Step, CompareStaged, Unstage
<1>9. Typed'
  BY <1>1, <1>3, <1>5, <1>8 DEF Typed
<1>10. Genuine'
  <2>1. \A f \in Files : output'[f] \in Others(f)
    BY <1>1, <1>3 DEF Genuine
  <2>2. ASSUME NEW w \in Validators
        PROVE  /\ val'[w].bytes \in Others("marker")
               /\ \A f \in Files : val'[w].read[f] \in Others(f) /\ moment'[w][f] \in Others(f)
    <3>1. \A f \in Files : moment'[w][f] \in Others(f)
      BY <1>1, <1>5 DEF Genuine
    <3>2. CASE w = v
      BY <1>1, <1>6, <1>7, <3>1, <3>2 DEF Genuine, Files
    <3>3. CASE w # v
      BY <1>1, <1>3, <3>1, <3>3 DEF Genuine, Only
    <3> QED
      BY <3>2, <3>3
  <2> QED
    BY <2>1, <2>2 DEF Genuine, Others
<1>11. Recorded'
  BY <1>1, <1>3 DEF Recorded
<1>12. ASSUME NEW w \in Validators PROVE Compared(w)'
  <2>1. Compared(w) /\ NeverBack
    BY <1>3, SameNeverBack DEF Inv
  <2>2. CASE w # v
    BY <1>1, <1>2, <1>3, <2>1, <2>2, Elsewhere, ComparedRests
  <2>3. CASE w = v /\ Passes(v)
    BY <1>1, <1>2, <2>1, <2>3, ComparedPasses
  <2>4. CASE w = v /\ Fails(v)
    <3>1. val[v].at # 21 => Resting(v)
      BY <1>3, <2>4 DEF Resting, Fails
    <3>2. ASSUME val[v].at = 21 PROVE Compared(v)'
      <4>1. \A i : Past(v, i)' => Past(v, i)
        BY <1>4, <2>4 DEF Fails, Past
      <4>2. \A i : Past(v, i) => 21 > i
        BY <1>4, <3>2 DEF Past
      <4>3. /\ ~Past(v, 21)' /\ ~Past(v, 23)'
            /\ \A f \in Bound : ~Past(v, Compares[f] + 17)'
        BY <4>1, <4>2 DEF Bound, Compares
      <4>4. val'[v].read = val[v].read /\ val'[v].bytes = val[v].bytes
        BY <2>4 DEF Fails
      <4> QED
        BY <1>3, <2>1, <2>4, <4>1, <4>3, <4>4 DEF Compared
    <3> QED
      BY <1>1, <2>1, <2>4, <3>1, <3>2, ComparedRests
  <2> QED
    BY <1>2, <2>2, <2>3, <2>4
<1>13. Faithful'
  <2> SUFFICES ASSUME Undisturbed'
               PROVE  (\A w \in Validators : ReadSo(w)') /\ (analyzed' = Absent => Sound')
    BY DEF Faithful
  <2>1. Undisturbed /\ \A w \in Validators : ReadSo(w)
    BY <1>1, <1>3 DEF Undisturbed, Faithful
  <2>2. analyzed' = Absent => Sound'
    BY <1>1, <1>3, <2>1 DEF Faithful, Sound
  <2>3. ASSUME NEW w \in Validators, w # v PROVE ReadSo(w)'
    BY <1>3, <2>1, <2>3 DEF ReadSo, Only, Past
  <2>4. CASE Passes(v)
    <3>1. \A f \in DOMAIN Reads : f \in Files /\ Reads[f] \in 1 .. 28
      BY DEF Reads, Files
    <3>2. \A f \in DOMAIN Reads : Past(v, Reads[f])' => val'[v].read[f] = output[f]
      BY <2>1, <2>4, <3>1 DEF ReadSo, Passes
    <3>3. val'[v].read.marker \in {Absent, output.marker}
      BY <1>6, <2>1 DEF ReadSo, Files
    <3>4. Past(v, 4)' => val'[v].bytes = output.marker
      BY <2>1, <2>4 DEF ReadSo, Passes
    <3>5. ReadSo(v)'
      BY <1>3, <3>2, <3>3, <3>4 DEF ReadSo
    <3> QED
      BY <2>2, <2>3, <3>5
  <2>5. CASE Fails(v)
    <3>1. ReadSo(v)'
      BY <1>3, <1>4, <2>1, <2>5 DEF ReadSo, Fails, Past
    <3> QED
      BY <2>2, <2>3, <3>1
  <2> QED
    BY <1>2, <2>4, <2>5
<1>14. /\ \A w \in Validators : Running(w)' => Running(w)
       /\ \A w \in Validators : val'[w].status # "idle" <=> val[w].status # "idle"
       /\ \A w \in Validators : val'[w].status = "killed" <=> val[w].status = "killed"
  BY <1>2, <1>4 DEF Passes, Fails, Only, Running
<1>15. Solitary' /\ Begun'
  BY <1>1, <1>3, <1>14 DEF Solitary, Begun, Typed
<1>16. Staged'
  <2> SUFFICES ASSUME NEW w \in staging'
               PROVE  val'[w].status = "killed" \/ (Running(w)' /\ val'[w].at \in {14, 16, 20})
    BY DEF Staged
  <2>1. w \in Validators
    BY <1>9 DEF Typed
  <2>2. CASE w # v
    <3>1. w \in staging /\ val'[w] = val[w]
      BY <1>3, <1>8, <2>1, <2>2 DEF Only
    <3> QED
      BY <1>1, <3>1 DEF Staged, Running
  <2>3. CASE w = v
    <3>1. val[v].at \in {13, 15, 19} /\ Stage(v)
      <4>1. v \in staging => val[v].at \in {14, 16, 20}
        BY <1>1, <1>4 DEF Staged
      <4> QED
        BY <1>8, <2>3, <4>1
    <3>2. Running(v) /\ Passed(v, val[v].read, val[v].bytes)
      BY <3>1 DEF Stage
    <3>3. val'[v].status = "running" /\ val'[v].at = val[v].at + 1
      BY <1>1, <1>4, <3>1, <3>2, Advances
    <3> QED
      BY <2>3, <3>1, <3>3 DEF Running
  <2> QED
    BY <2>2, <2>3
<1>17. RefusedForCause'
  <2>1. \A w \in staging : val[w].status = "killed" => w \in staging' /\ val'[w].status = "killed"
    <3>1. v \notin {w \in staging : val[w].status = "killed"}
      BY <1>4
    <3> QED
      BY <1>1, <1>8, <1>14, <3>1 DEF Typed
  <2>2. \A w \in Validators : Cause(w) => Cause(w)'
    BY <1>1, <1>3, <2>1, CauseStays
  <2>3. ASSUME NEW w \in Validators, val'[w].status = "fail" PROVE Cause(w)'
    <3>1. CASE w # v
      <4>1. val[w].status = "fail"
        BY <1>3, <2>3, <3>1 DEF Only
      <4> QED
        BY <2>2, <2>3, <4>1, RefusedIsCause DEF Inv
    <3>2. CASE w = v
      <4>1. ~Accepts(v) /\ ~Stage(v)
        <5>1. Fails(v)
          BY <1>2, <2>3, <3>2 DEF Passes
        <5>2. ASSUME Stage(v) PROVE FALSE
          <6>1. Running(v) /\ Passed(v, val[v].read, val[v].bytes)
            BY <5>2 DEF Stage
          <6>2. val'[v].status \in {"running", "pass"}
            BY <1>1, <6>1, Advances
          <6> QED
            BY <5>1, <6>2 DEF Fails
        <5> QED
          BY <5>1, <5>2 DEF Fails
      <4>2. val[v].at \notin {13, 15, 19}
        BY <1>8, <4>1
      <4>3. Cause(v)
        BY <1>1, <1>3, <4>1, <4>2, AcceptsSound
      <4> QED
        BY <2>2, <3>2, <4>3
    <3> QED
      BY <3>1, <3>2
  <2>4. \A w \in Validators : val'[w].status = "fail" => Cause(w)'
    BY <2>3
  <2> QED
    BY <2>4 DEF RefusedForCause, Cause
<1> QED
  BY <1>9, <1>10, <1>11, <1>12, <1>13, <1>15, <1>16, <1>17 DEF Inv

\* The steps of others, of which validators see only what became of the files.
LEMMA OthersKeep ==
  ASSUME Inv,
         (\E f \in Files : Edit(f)) \/ Touch \/ (\E v \in Validators : Start(v) \/ Kill(v))
         \/ UNCHANGED validatorVars
  PROVE  Inv'
<1>1. Typed /\ Genuine /\ Recorded /\ Faithful /\ Solitary /\ Staged /\ Begun
  BY DEF Inv
<1>2. ASSUME NeverBack, Recorded', edits' > 0 \/ touched', edits > 0 => edits' > 0,
             touched => touched', edits' \in Nat,
             val' = val, UNCHANGED <<analyzed, staging, alone, host, moment>>,
             output' \in Views, past' \in [Files -> SUBSET Contents],
             \A g \in Files : output'[g] \in Others(g)
      PROVE  Inv'
  <2>1. Typed'
    BY <1>1, <1>2 DEF Typed
  <2>2. Genuine'
    BY <1>1, <1>2 DEF Genuine, Others
  <2>3. \A v \in Validators : Resting(v)
    BY <1>2 DEF Resting
  <2>4. \A v \in Validators : Compared(v)'
    BY <1>1, <1>2, <2>3, ComparedRests DEF Inv
  <2>5. Faithful'
    <3>1. ~(Undisturbed')
      BY <1>2 DEF Undisturbed
    <3> QED
      BY <3>1 DEF Faithful
  <2>6. Solitary' /\ Staged' /\ Begun'
    BY <1>1, <1>2 DEF Solitary, Staged, Begun, Running
  <2>7. \A v \in Validators : val'[v].status = "fail" => Cause(v)'
    BY <1>2 DEF Cause
  <2>8. RefusedForCause'
    BY <2>7 DEF RefusedForCause, Cause
  <2> QED
    BY <1>2, <2>1, <2>2, <2>4, <2>5, <2>6, <2>8 DEF Inv
<1>3. ASSUME NEW f \in Files, Edit(f) PROVE Inv'
  <2>1. touched' = touched
    BY <1>3 DEF Edit
  <2> QED
    BY <1>1, <1>2, <1>3, <2>1, Edits
<1>4. CASE Touch
  <2>1. edits \in Nat /\ past \in [Files -> SUBSET Contents]
    BY <1>1 DEF Typed
  <2> QED
    BY <1>1, <1>2, <1>4, <2>1, Touches
<1>5. ASSUME UNCHANGED <<analyzed, output, past, cameBack, staging, host, edits, touched, moment>>,
             val' \in [Validators -> ValRecords], alone' \subseteq Validators,
             \A w \in Validators : Resting(w),
             \A w \in Validators : val'[w].status = "fail" => val[w].status = "fail",
             \A w \in Validators : val[w].status = "killed" => val'[w].status = "killed",
             \A w \in Validators : val[w].status = "fail" /\ w \in alone' => w \in alone,
             Solitary', Staged', Begun'
      PROVE  Inv'
  <2>1. Typed' /\ Recorded'
    BY <1>1, <1>5 DEF Typed, Recorded
  <2>2. Genuine'
    <3>1. ASSUME NEW w \in Validators
          PROVE  /\ val'[w].bytes \in Others("marker")
                 /\ \A f \in Files : val'[w].read[f] \in Others(f) /\ moment'[w][f] \in Others(f)
      <4>1. val'[w].read = val[w].read /\ val'[w].bytes = val[w].bytes /\ moment' = moment
        BY <1>5 DEF Resting
      <4> QED
        BY <1>1, <4>1 DEF Genuine
    <3>2. \A f \in Files : output'[f] \in Others(f)
      BY <1>1, <1>5 DEF Genuine
    <3> QED
      BY <3>1, <3>2 DEF Genuine, Others
  <2>3. \A v \in Validators : Compared(v)'
    BY <1>1, <1>5, SameNeverBack, ComparedRests DEF Inv
  <2>4. Faithful'
    <3>1. Sound' <=> Sound
      BY <1>5 DEF Sound
    <3>2. \A w \in Validators : ReadSo(w) => ReadSo(w)'
      BY <1>5, PastRests DEF ReadSo, Resting
    <3> QED
      BY <1>1, <1>5, <3>1, <3>2 DEF Faithful, Undisturbed
  <2>5. \A w \in Validators : val'[w].status = "fail" => Cause(w)'
    <3> SUFFICES ASSUME NEW w \in Validators, val'[w].status = "fail" PROVE Cause(w)'
      OBVIOUS
    <3>1. val[w].status = "fail" /\ Cause(w)
      BY <1>5, RefusedIsCause DEF Inv
    <3>2. \A x \in staging : val[x].status = "killed" => x \in staging' /\ val'[x].status = "killed"
      BY <1>1, <1>5 DEF Typed
    <3> QED
      BY <1>1, <1>5, <3>1, <3>2, CauseStays
  <2>6. RefusedForCause'
    BY <2>5 DEF RefusedForCause, Cause
  <2> QED
    BY <1>5, <2>1, <2>2, <2>3, <2>4, <2>6 DEF Inv
<1>6. ASSUME NEW v \in Validators, Start(v) PROVE Inv'
  <2>1. /\ UNCHANGED <<analyzed, output, past, cameBack, staging, host, edits, touched, moment>>
        /\ Only(v) /\ val' \in [Validators -> ValRecords]
        /\ \A w \in Validators : Resting(w)
        /\ val[v].status = "idle" /\ val'[v].status = "running"
    BY <1>1, <1>6, StartsOrKills
  <2> DEFINE others == {w \in Validators : Running(w)}
  <2>2. analyzed = Absent /\ alone' = IF others = {} THEN alone \cup {v} ELSE alone \ others
    BY <1>6 DEF Start
  <2>3. alone \subseteq Validators /\ v \notin alone /\ ~Running(v)
    BY <1>1, <2>1 DEF Typed, Solitary, Running
  <2>4. Solitary'
    <3> SUFFICES ASSUME NEW w \in alone'
                 PROVE  /\ val'[w].status # "idle"
                        /\ Running(w)' => \A x \in Validators : Running(x)' => x = w
      BY DEF Solitary
    <3>1. w \in Validators
      BY <2>2, <2>3
    <3>2. CASE others = {}
      BY <1>1, <2>1, <2>2, <2>3, <3>1, <3>2 DEF Solitary, Running, Only
    <3>3. CASE others # {}
      <4>1. w \in alone /\ w # v /\ ~Running(w)
        BY <2>2, <2>3, <3>1, <3>3
      <4>2. val'[w] = val[w]
        BY <2>1, <3>1, <4>1 DEF Only
      <4> QED
        BY <1>1, <4>1, <4>2 DEF Solitary, Running
    <3> QED
      BY <3>2, <3>3
  <2>5. Staged'
    BY <1>1, <2>1 DEF Staged, Typed, Only, Running
  <2>6. Begun'
    BY <1>1, <2>1, <2>2 DEF Begun, Only
  <2>7. \A w \in Validators : val'[w].status = "fail" => val[w].status = "fail"
    BY <2>1 DEF Only
  <2>8. \A w \in Validators : val[w].status \in {"fail", "killed"} => w # v /\ val'[w] = val[w]
    BY <2>1 DEF Only
  <2>9. alone' \subseteq Validators
        /\ \A w \in Validators : val[w].status = "fail" /\ w \in alone' => w \in alone
    BY <2>2, <2>3, <2>8
  <2> QED
    BY <1>5, <2>1, <2>4, <2>5, <2>6, <2>7, <2>8, <2>9
<1>7. ASSUME NEW v \in Validators, Kill(v) PROVE Inv'
  <2>1. /\ UNCHANGED <<analyzed, output, past, cameBack, staging, host, edits, touched, moment>>
        /\ Only(v) /\ val' \in [Validators -> ValRecords]
        /\ \A w \in Validators : Resting(w)
        /\ val[v].status = "running" /\ val'[v].status = "killed" /\ alone' = alone
    BY <1>1, <1>7, StartsOrKills
  <2>2. Solitary'
    BY <1>1, <2>1 DEF Solitary, Running, Only, Typed
  <2>3. Staged'
    BY <1>1, <2>1 DEF Staged, Typed, Only, Running
  <2>4. Begun'
    BY <1>1, <2>1 DEF Begun, Only
  <2>5. alone' \subseteq Validators
        /\ \A w \in Validators : val'[w].status = "fail" => val[w].status = "fail"
    BY <1>1, <2>1 DEF Only, Typed
  <2>6. \A w \in Validators : val[w].status = "killed" => val'[w].status = "killed"
    BY <2>1 DEF Only
  <2> QED
    BY <1>5, <2>1, <2>2, <2>3, <2>4, <2>5, <2>6
<1>8. CASE UNCHANGED validatorVars
  <2>1. /\ val' = val /\ alone' = alone /\ moment' = moment
        /\ UNCHANGED <<analyzed, output, past, cameBack, staging, host, edits, touched, moment>>
    BY <1>8 DEF validatorVars
  <2>2. Solitary' /\ Staged' /\ Begun'
    BY <1>1, <2>1 DEF Solitary, Staged, Begun, Running
  <2>3. \A w \in Validators : Resting(w)
    BY <2>1 DEF Resting
  <2>4. val' \in [Validators -> ValRecords] /\ alone' \subseteq Validators
    BY <1>1, <2>1 DEF Typed
  <2> QED
    BY <1>5, <2>1, <2>2, <2>3, <2>4
<1> QED
  BY <1>3, <1>4, <1>6, <1>7, <1>8

LEMMA InvStep == Inv /\ [Next]_validatorVars => Inv'
  BY ValidatorKeeps, OthersKeep DEF Next, Ended

LEMMA Initially == Init => Inv
<1> SUFFICES ASSUME Init PROVE Inv
  OBVIOUS
<1>1. /\ past = [f \in Files |-> {output[f]}] /\ ~cameBack /\ staging = {} /\ alone = {}
      /\ val = [v \in Validators |-> Idle] /\ edits = 0
      /\ moment = [v \in Validators |-> Unread]
  BY DEF Init
<1>2. \A f \in Files : Unread[f] = Absent /\ Absent \in Others(f) /\ Others(f) \subseteq Contents
  BY OthersFacts DEF Unread
<1>3. Unread \in Views /\ "marker" \in Files
  BY <1>2 DEF Unread, Views, Files
<1>4. output \in Views /\ \A f \in Files : output[f] \in Others(f)
  <2>1. CASE output = Unread
    BY <1>2, <1>3, <2>1
  <2>2. CASE \E cache \in Names, images \in Images, generated \in BOOLEAN :
               output = SoundOutput(cache, images, generated)
    <3>1. PICK cache \in Names, images \in Images, generated \in BOOLEAN :
               output = SoundOutput(cache, images, generated)
      BY <2>2
    <3>2. \A f \in Files : output[f] \in Others(f)
      BY <3>1, OthersFacts
    <3>3. output = [f \in Files |-> output[f]]
      BY <3>1 DEF SoundOutput
    <3> QED
      BY <1>2, <3>2, <3>3 DEF Views
  <2> QED
    BY <2>1, <2>2 DEF Init
<1>5. Idle \in ValRecords /\ Idle.at = 1 /\ Idle.status = "idle" /\ Idle.read = Unread
      /\ Idle.bytes = Absent
  BY <1>2, <1>3 DEF Idle, ValRecords, Statuses
<1>6. \A v \in Validators : val[v] = Idle /\ moment[v] = Unread
  BY <1>1
<1>7. Typed
  BY <1>1, <1>2, <1>3, <1>4, <1>5 DEF Typed
<1>8. Genuine
  BY <1>2, <1>3, <1>4, <1>5, <1>6 DEF Genuine
<1>9. Recorded
  BY <1>1 DEF Recorded
<1>10. \A v \in Validators : \A i \in 1 .. 28 : ~Past(v, i)
  BY <1>5, <1>6 DEF Past
<1>11. \A v \in Validators : Compared(v)
  <2>1. \A f \in Bound : Compares[f] \in 1 .. 28 /\ Compares[f] + 17 \in 1 .. 28
    BY DEF Bound, Compares
  <2> QED
    BY <1>10, <2>1 DEF Compared
<1>12. Faithful
  <2>1. \A f \in DOMAIN Reads : Reads[f] \in 1 .. 28
    BY DEF Reads
  <2>2. \A v \in Validators : ReadSo(v)
    BY <1>2, <1>3, <1>5, <1>6, <1>10, <2>1 DEF ReadSo
  <2>3. analyzed = Absent => Sound
    <3>1. analyzed \in Caches => analyzed # Absent
      BY ValidatorAssumption
    <3> QED
      BY <3>1 DEF Init, Sound
  <2> QED
    BY <2>2, <2>3 DEF Faithful
<1>13. Solitary /\ Staged /\ Begun /\ RefusedForCause
  BY <1>1, <1>5, <1>6 DEF Solitary, Staged, Begun, RefusedForCause
<1> QED
  BY <1>7, <1>8, <1>9, <1>11, <1>12, <1>13 DEF Inv

\* The invariant holds in every reachable state.
THEOREM Inductive == Spec => []Inv
  BY Initially, InvStep, PTL DEF Spec

\* What a recovery wrote is refused only for a cause, for any number of validators of the
\* same output, of which some may be killed (the gates of validate_recovery_output.py and
\* its private staging directories).
THEOREM RefusedForCauseHolds == Spec => []RefusedForCause
<1>1. Inv => RefusedForCause
  BY DEF Inv
<1> QED
  BY <1>1, Inductive, PTL

\* What is accepted was whole at one moment, the one the raw tree was compared again, but
\* for files that were changed and changed back: the readings before and after it were of
\* the same contents (final_immutability, validate_recovery_output.py).
THEOREM AcceptedIsOneMomentHolds == Spec => []AcceptedIsOneMoment
<1>1. Inv => AcceptedIsOneMoment
  <2> SUFFICES ASSUME Inv, NEW v \in Validators, val[v].status = "pass", ~cameBack
               PROVE  \E cache \in Names :
                        /\ Digest[cache] = Digest[moment[v].raw]
                        /\ [moment[v] EXCEPT !.raw = cache]
                             = SoundOutput(cache, moment[v].images, moment[v].pdf # Absent)
    BY DEF AcceptedIsOneMoment
  <2> DEFINE marker == val[v].read.marker
             whole == moment[v]
  <2>1. Typed /\ Genuine /\ Compared(v) /\ \A i : Past(v, i)
    BY DEF Inv, Past
  <2>2. /\ marker # Absent /\ marker.snapshot = val[v].read.metadata
        /\ SnapshotOf(whole.raw, whole.images) = val[v].read.metadata
        /\ whole.marker = marker /\ \A f \in Bound : whole[f] = marker.bound[f]
    BY <2>1 DEF Compared
  <2>3. marker \in Others("marker") /\ "marker" \in Files
    BY <2>1 DEF Genuine, Files
  <2>4. PICK cache \in Names, images \in Images, generated \in BOOLEAN :
          marker = SoundOutput(cache, images, generated)["marker"]
    BY <2>2, <2>3, OfOne
  <2> DEFINE sound == SoundOutput(cache, images, generated)
  <2>5. /\ DOMAIN sound = Files /\ sound["raw"] = cache /\ sound["images"] = images
        /\ sound["marker"].snapshot = SnapshotOf(cache, images)
        /\ \A f \in Bound : sound["marker"].bound[f] = sound[f]
        /\ sound["pdf"] = IF generated THEN sound["report"] ELSE Absent
    BY SoundFiles
  <2>6. whole.images = images /\ Digest[cache] = Digest[whole.raw]
    BY <2>2, <2>4, <2>5 DEF SnapshotOf
  <2>7. \A f \in Files \ {"raw"} : whole[f] = sound[f]
    BY <2>2, <2>4, <2>5, <2>6 DEF Files, Bound
  <2>8. generated = (whole.pdf # Absent)
    <3>1. sound["report"] # Absent
      BY AbsentAssumption DEF Files
    <3> QED
      BY <2>5, <2>7, <3>1 DEF Files
  <2>9. [whole EXCEPT !.raw = cache] = sound
    <3>1. whole \in [Files -> Contents]
      BY <2>1 DEF Typed, Views
    <3>2. sound = [f \in Files |-> sound[f]]
      BY DEF SoundOutput
    <3> HIDE DEF sound, whole
    <3> QED
      BY <2>5, <2>7, <3>1, <3>2
  <2> QED
    BY <2>6, <2>8, <2>9
<1> QED
  BY <1>1, Inductive, PTL
-----------------------------------------------------------------------------
(***************************************************************************)
(* The tables: what is kept of the records that repeat one another is, of  *)
(* each identity, the last of the best score.  The positions that are kept *)
(* of the first m are so (KeptOf), and each position more keeps that,      *)
(* because scores are ordered: what replaces another has at least its      *)
(* score, and so at least that of all the other replaced before it.  The   *)
(* tables are those of the items at these positions.                       *)
(***************************************************************************)

\* A nonempty set of numbers has a least one.
LEMMA Least ==
  ASSUME NEW T, T \subseteq Nat, T # {}
  PROVE  \E n \in T : \A m \in T : n <= m
<1>1. PICK n \in T : \A m \in T : <<m, n>> \notin OpToRel(<, Nat)
  BY WFMin, NatLessThanWellFounded, Zenon
<1>2. \A m \in T : ~(m < n)
  BY <1>1, Zenon DEF OpToRel
<1> QED BY <1>2

\* What holds of the first number, and of each one if of the one before, holds of all.
LEMMA Climb ==
  ASSUME NEW a \in Nat, NEW n \in Nat, NEW T, a \in T,
         \A m \in a + 1 .. n : m - 1 \in T => m \in T
  PROVE  \A m \in a..n : m \in T
<1> DEFINE Bad == {m \in a..n : m \notin T}
<1>1. Bad \subseteq Nat
  OBVIOUS
<1>2. SUFFICES ASSUME Bad # {} PROVE FALSE
  OBVIOUS
<1>3. PICK m \in Bad : \A k \in Bad : m <= k
  <2> HIDE DEF Bad
  <2> QED BY <1>1, <1>2, Least
<1>4. m \in a..n /\ m \notin T
  OBVIOUS
<1>5. m # a /\ m \in a + 1 .. n /\ m - 1 \in a..n /\ ~(m <= m - 1)
  BY <1>4
<1>6. m - 1 \notin Bad
  <2> HIDE DEF Bad
  <2> QED BY <1>3, <1>5
<1> QED BY <1>4, <1>5, <1>6

\* A function that is defined by what it was one number before.
Recurs(f, a, n, first, step) ==
  f = [m \in a..n |-> IF m = a THEN first ELSE step[m][f[m - 1]]]

\* There is one, of values in D.
LEMMA Recursion ==
  ASSUME NEW D, NEW first \in D, NEW a \in Nat, NEW n \in Nat, a <= n,
         NEW step \in [a + 1 .. n -> [D -> D]]
  PROVE  \E f \in [a..n -> D] : Recurs(f, a, n, first, step)
<1> DEFINE Is(f, m) == f[a] = first /\ \A i \in a + 1 .. m : f[i] = step[i][f[i - 1]]
           T == {m \in a..n : \E f \in [a..m -> D] : Is(f, m)}
<1>1. a \in T
  <2>1. [i \in a..a |-> first] \in [a..a -> D] /\ Is([i \in a..a |-> first], a)
    OBVIOUS
  <2>2. a \in a..n
    OBVIOUS
  <2> HIDE DEF Is
  <2> QED BY <2>1, <2>2
<1>2. ASSUME NEW m \in a + 1 .. n, m - 1 \in T PROVE m \in T
  <2>1. PICK f \in [a..m - 1 -> D] : Is(f, m - 1)
    BY <1>2
  <2> DEFINE g == [i \in a..m |-> IF i = m THEN step[m][f[m - 1]] ELSE f[i]]
  <2>2. f[m - 1] \in D
    OBVIOUS
  <2>3. step[m][f[m - 1]] \in D
    BY <2>2
  <2>4. g \in [a..m -> D]
    BY <2>3
  <2>5. g[a] = first
    BY <2>1
  <2>6. ASSUME NEW i \in a + 1 .. m PROVE g[i] = step[i][g[i - 1]]
    <3>1. i \in a..m /\ i - 1 \in a..m /\ i - 1 # m /\ g[i - 1] = f[i - 1]
      OBVIOUS
    <3>2. CASE i = m
      BY <3>1, <3>2
    <3>3. CASE i # m
      <4>1. i \in a + 1 .. m - 1
        BY <3>3
      <4> QED BY <2>1, <3>1, <3>3, <4>1
    <3> QED BY <3>2, <3>3
  <2> HIDE DEF g
  <2>7. Is(g, m)
    BY <2>5, <2>6
  <2>8. m \in a..n
    OBVIOUS
  <2> QED BY <2>4, <2>7, <2>8
<1>3. n \in T
  <2>1. n \in a..n
    OBVIOUS
  <2> HIDE DEF T
  <2> QED BY <1>1, <1>2, <2>1, Climb
<1>4. PICK f \in [a..n -> D] : Is(f, n)
  BY <1>3
<1>5. \A m \in a..n : f[m] = IF m = a THEN first ELSE step[m][f[m - 1]]
  BY <1>4
<1>6. Recurs(f, a, n, first, step)
  BY <1>4, <1>5 DEF Recurs
<1> QED BY <1>4, <1>6

-----------------------------------------------------------------------------
\* Any two scores can be compared.
Ordered(S) ==
  /\ \A s, t \in S : AtLeast(s, t) \/ AtLeast(t, s)
  /\ \A s, t, u \in S : AtLeast(s, t) /\ AtLeast(t, u) => AtLeast(s, u)

\* Scores of one length are.
LEMMA ScoresAreOrdered ==
  ASSUME NEW l \in Nat
  PROVE  Ordered([1..l -> Nat])
<1> DEFINE S == [1..l -> Nat]
<1>1. ASSUME NEW s \in S, NEW t \in S PROVE AtLeast(s, t) \/ AtLeast(t, s)
  <2> DEFINE Differ == {i \in 1..l : s[i] # t[i]}
  <2>1. CASE Differ = {}
    <3>1. \A i \in 1..l : s[i] = t[i]
      BY <2>1
    <3>2. s = t
      BY <3>1
    <3> QED BY <3>2 DEF AtLeast
  <2>2. CASE Differ # {}
    <3>1. PICK i \in Differ : \A j \in Differ : i <= j
      <4>1. Differ \subseteq Nat
        OBVIOUS
      <4> HIDE DEF Differ
      <4> QED BY <2>2, <4>1, Least
    <3>2. i \in 1..l /\ s[i] # t[i] /\ s[i] \in Nat /\ t[i] \in Nat
      OBVIOUS
    <3>3. \A j \in 1..(i - 1) : s[j] = t[j]
      BY <3>1, <3>2
    <3>4. s[i] > t[i] \/ t[i] > s[i]
      BY <3>2
    <3> QED BY <3>2, <3>3, <3>4 DEF AtLeast
  <2> QED BY <2>1, <2>2
<1>2. ASSUME NEW s \in S, NEW t \in S, NEW u \in S, AtLeast(s, t), AtLeast(t, u)
      PROVE  AtLeast(s, u)
  <2>1. CASE s = t \/ t = u
    BY <1>2, <2>1
  <2>2. CASE s # t /\ t # u
    <3>1. PICK i \in 1..l : s[i] > t[i] /\ \A j \in 1..(i - 1) : s[j] = t[j]
      BY <1>2, <2>2 DEF AtLeast
    <3>2. PICK k \in 1..l : t[k] > u[k] /\ \A j \in 1..(k - 1) : t[j] = u[j]
      BY <1>2, <2>2 DEF AtLeast
    <3>3. \A j \in 1..l : s[j] \in Nat /\ t[j] \in Nat /\ u[j] \in Nat
      OBVIOUS
    <3>4. CASE i < k
      <4>1. t[i] = u[i] /\ \A j \in 1..(i - 1) : s[j] = u[j]
        BY <3>1, <3>2, <3>4
      <4> QED BY <3>1, <4>1 DEF AtLeast
    <3>5. CASE k < i
      <4>1. s[k] = t[k] /\ \A j \in 1..(k - 1) : s[j] = u[j]
        BY <3>1, <3>2, <3>5
      <4> QED BY <3>2, <4>1 DEF AtLeast
    <3>6. CASE i = k
      <4>1. s[i] > u[i] /\ \A j \in 1..(i - 1) : s[j] = u[j]
        BY <3>1, <3>2, <3>3, <3>6
      <4> QED BY <4>1 DEF AtLeast
    <3> QED BY <3>4, <3>5, <3>6
  <2> QED BY <2>1, <2>2
<1> QED BY <1>1, <1>2 DEF Ordered

\* The positions that are kept of the first m.
KeptOf(kept, m, identity, score) ==
  /\ kept \in Seq(1..m)
  /\ \A i, j \in DOMAIN kept : identity[kept[i]] = identity[kept[j]] => i = j
  /\ \A k \in 1..m : \E j \in DOMAIN kept : identity[kept[j]] = identity[k]
  /\ \A j \in DOMAIN kept, k \in 1..m : identity[k] = identity[kept[j]] =>
       /\ AtLeast(score[kept[j]], score[k])
       /\ k > kept[j] => ~AtLeast(score[k], score[kept[j]])

\* One record more is merged (latest_by_uuid and its like) into what is so.
LEMMA KeptStep ==
  ASSUME NEW S, Ordered(S), NEW n \in Nat, NEW identity, NEW score \in [1..n -> S],
         NEW m \in 1..n, NEW kept, KeptOf(kept, m - 1, identity, score)
  PROVE  KeptOf(KeptWith(kept, m, identity, score), m, identity, score)
<1> DEFINE at == {i \in DOMAIN kept : identity[kept[i]] = identity[m]}
           new == KeptWith(kept, m, identity, score)
           l == Len(kept)
<1>1. /\ kept \in Seq(1..m - 1) /\ l \in Nat /\ DOMAIN kept = 1..l
      /\ \A i \in 1..l : kept[i] \in 1..m - 1
  <2>1. kept \in Seq(1..m - 1)
    BY DEF KeptOf
  <2> QED BY <2>1
<1>2. kept \in Seq(1..m)
  <2>1. \A i \in 1..l : kept[i] \in 1..m
    BY <1>1
  <2> QED BY <1>1, <2>1, SeqDef
<1>3. /\ \A s, t \in S : AtLeast(s, t) \/ AtLeast(t, s)
      /\ \A s, t, u \in S : AtLeast(s, t) /\ AtLeast(t, u) => AtLeast(s, u)
      /\ \A k \in 1..m : score[k] \in S
  BY DEF Ordered
<1>4. CASE at = {}
  <2>1. new = Append(kept, m)
    BY <1>4 DEF KeptWith
  <2>2. /\ new \in Seq(1..m) /\ DOMAIN new = 1..l + 1 /\ new[l + 1] = m
        /\ \A i \in 1..l : new[i] = kept[i]
    BY <1>1, <1>2, <2>1
  <2> HIDE DEF new
  <2>3. \A i \in 1..l : identity[kept[i]] # identity[m]
    BY <1>1, <1>4
  <2>4. \A i, j \in DOMAIN new : identity[new[i]] = identity[new[j]] => i = j
    <3> SUFFICES ASSUME NEW i \in 1..l + 1, NEW j \in 1..l + 1, identity[new[i]] = identity[new[j]]
                 PROVE  i = j
      BY <2>2
    <3>1. CASE i \in 1..l /\ j \in 1..l
      <4>1. \A p, q \in 1..l : identity[kept[p]] = identity[kept[q]] => p = q
        BY <1>1 DEF KeptOf
      <4>2. new[i] = kept[i] /\ new[j] = kept[j]
        BY <2>2, <3>1
      <4> QED BY <3>1, <4>1, <4>2
    <3>2. CASE i = l + 1 /\ j \in 1..l
      BY <2>2, <2>3, <3>2
    <3>3. CASE i \in 1..l /\ j = l + 1
      BY <2>2, <2>3, <3>3
    <3> QED BY <1>1, <3>1, <3>2, <3>3
  <2>5. \A k \in 1..m : \E j \in DOMAIN new : identity[new[j]] = identity[k]
    <3> SUFFICES ASSUME NEW k \in 1..m PROVE \E j \in 1..l + 1 : identity[new[j]] = identity[k]
      BY <2>2
    <3>1. CASE k = m
      <4>1. l + 1 \in 1..l + 1 /\ identity[new[l + 1]] = identity[k]
        BY <1>1, <2>2, <3>1
      <4> QED BY <4>1
    <3>2. CASE k # m
      <4> k \in 1..m - 1
        BY <3>2
      <4>1. \A q \in 1..m - 1 : \E j \in 1..l : identity[kept[j]] = identity[q]
        BY <1>1 DEF KeptOf
      <4>2. PICK j \in 1..l : identity[kept[j]] = identity[k]
        BY <4>1
      <4>3. j \in 1..l + 1 /\ new[j] = kept[j]
        BY <1>1, <2>2
      <4> QED BY <4>2, <4>3
    <3> QED BY <3>1, <3>2
  <2>6. ASSUME NEW j \in 1..l + 1, NEW k \in 1..m, identity[k] = identity[new[j]]
        PROVE  /\ AtLeast(score[new[j]], score[k])
               /\ k > new[j] => ~AtLeast(score[k], score[new[j]])
    <3>1. CASE j = l + 1
      <4>1. k = m
        <5> SUFFICES ASSUME k # m PROVE FALSE
          OBVIOUS
        <5> k \in 1..m - 1
          OBVIOUS
        <5>1. PICK i \in 1..l : identity[kept[i]] = identity[k]
          BY <1>1 DEF KeptOf
        <5> QED BY <2>2, <2>3, <2>6, <3>1, <5>1
      <4> QED BY <2>2, <3>1, <4>1 DEF AtLeast
    <3>2. CASE j \in 1..l
      <4>1. k # m
        BY <2>2, <2>3, <2>6, <3>2
      <4>2. k \in 1..m - 1
        BY <4>1
      <4>3. new[j] = kept[j] /\ j \in DOMAIN kept
        BY <1>1, <2>2, <3>2
      <4> QED BY <2>6, <4>2, <4>3 DEF KeptOf
    <3> QED BY <1>1, <3>1, <3>2
  <2>7. KeptOf(new, m, identity, score)
    BY <2>2, <2>4, <2>5, <2>6 DEF KeptOf
  <2> QED BY <2>7 DEF new
<1>5. CASE at # {}
  <2> DEFINE i == CHOOSE i \in at : TRUE
  <2>1. i \in 1..l /\ identity[kept[i]] = identity[m]
    BY <1>1, <1>5
  <2>2. \A j \in 1..l : identity[kept[j]] = identity[m] => j = i
    BY <1>1, <2>1 DEF KeptOf
  <2>3. new = IF AtLeast(score[m], score[kept[i]]) THEN [kept EXCEPT ![i] = m] ELSE kept
    BY <1>5 DEF KeptWith, Takes
  <2> HIDE DEF i, at, new
  <2>4. CASE ~AtLeast(score[m], score[kept[i]])
    <3>1. new = kept
      BY <2>3, <2>4
    <3>2. AtLeast(score[kept[i]], score[m])
      BY <1>1, <1>3, <2>1, <2>4
    <3>3. \A k \in 1..m : \E j \in DOMAIN kept : identity[kept[j]] = identity[k]
      <4> SUFFICES ASSUME NEW k \in 1..m PROVE \E j \in DOMAIN kept : identity[kept[j]] = identity[k]
        OBVIOUS
      <4>1. CASE k = m
        BY <1>1, <2>1, <4>1
      <4>2. CASE k \in 1..m - 1
        BY <4>2 DEF KeptOf
      <4> QED BY <4>1, <4>2
    <3>4. ASSUME NEW j \in DOMAIN kept, NEW k \in 1..m, identity[k] = identity[kept[j]]
          PROVE  /\ AtLeast(score[kept[j]], score[k])
                 /\ k > kept[j] => ~AtLeast(score[k], score[kept[j]])
      <4>1. CASE k = m
        <5>1. j = i
          BY <1>1, <2>2, <3>4, <4>1
        <5> QED BY <2>4, <3>2, <4>1, <5>1
      <4>2. CASE k \in 1..m - 1
        BY <3>4, <4>2 DEF KeptOf
      <4> QED BY <4>1, <4>2
    <3>5. \A j, k \in DOMAIN kept : identity[kept[j]] = identity[kept[k]] => j = k
      BY DEF KeptOf
    <3>6. KeptOf(kept, m, identity, score)
      BY <1>2, <3>3, <3>4, <3>5 DEF KeptOf
    <3> QED BY <3>1, <3>6 DEF new
  <2>5. CASE AtLeast(score[m], score[kept[i]])
    <3>1. /\ DOMAIN new = 1..l /\ new[i] = m /\ \A j \in 1..l : j # i => new[j] = kept[j]
          /\ \A j \in 1..l : new[j] \in 1..m
      BY <1>1, <2>1, <2>3, <2>5
    <3>2. new \in Seq(1..m)
      <4>1. m \in 1..m /\ i \in 1..Len(kept)
        BY <2>1
      <4>2. [kept EXCEPT ![i] = m] \in Seq(1..m)
        BY <1>2, <4>1, ExceptSeq
      <4> QED BY <2>3, <2>5, <4>2
    <3>3. \A j \in 1..l : identity[new[j]] = identity[kept[j]]
      BY <2>1, <3>1
    <3>4. \A j, k \in DOMAIN new : identity[new[j]] = identity[new[k]] => j = k
      BY <1>1, <3>1, <3>3 DEF KeptOf
    <3>5. \A k \in 1..m : \E j \in DOMAIN new : identity[new[j]] = identity[k]
      <4> SUFFICES ASSUME NEW k \in 1..m PROVE \E j \in 1..l : identity[kept[j]] = identity[k]
        <5>1. DOMAIN new = 1..l /\ \A j \in 1..l : identity[new[j]] = identity[kept[j]]
          BY <3>1, <3>3
        <5> QED BY <5>1
      <4>1. CASE k = m
        BY <2>1, <4>1
      <4>2. CASE k \in 1..m - 1
        BY <1>1, <4>2 DEF KeptOf
      <4> QED BY <4>1, <4>2
    <3>6. ASSUME NEW j \in 1..l, NEW k \in 1..m, identity[k] = identity[new[j]]
          PROVE  /\ AtLeast(score[new[j]], score[k])
                 /\ k > new[j] => ~AtLeast(score[k], score[new[j]])
      <4>1. CASE j = i /\ k = m
        BY <3>1, <4>1 DEF AtLeast
      <4>2. CASE j = i /\ k \in 1..m - 1
        <5>1. AtLeast(score[kept[i]], score[k])
          BY <1>1, <2>1, <3>3, <3>6, <4>2 DEF KeptOf
        <5>2. AtLeast(score[m], score[k])
          BY <1>1, <1>3, <2>1, <2>5, <5>1
        <5>3. ~(k > m)
          BY <4>2
        <5> QED BY <3>1, <4>2, <5>2, <5>3
      <4>3. CASE j # i
        <5>1. new[j] = kept[j] /\ k # m
          BY <2>1, <2>2, <3>1, <3>6, <4>3
        <5>2. k \in 1..m - 1 /\ j \in DOMAIN kept
          BY <1>1, <5>1
        <5> QED BY <3>6, <5>1, <5>2 DEF KeptOf
      <4> QED BY <4>1, <4>2, <4>3
    <3>7. KeptOf(new, m, identity, score)
      BY <3>1, <3>2, <3>4, <3>5, <3>6 DEF KeptOf
    <3> QED BY <3>7 DEF new
  <2> QED BY <2>4, <2>5
<1> QED BY <1>4, <1>5

\* So much is true of what is kept of all.
LEMMA KeptIsOf ==
  ASSUME NEW S, Ordered(S), NEW n \in Nat, NEW identity, NEW score \in [1..n -> S]
  PROVE  KeptOf(Kept(n, identity, score), n, identity, score)
<1> DEFINE Is(f) == f = [m \in 0..n |->
                           IF m = 0 THEN <<>> ELSE KeptWith(f[m - 1], m, identity, score)]
           kept == CHOOSE f : Is(f)
           D == Seq(1..n)
           step == [m \in 1..n |-> [k \in D |-> KeptWith(k, m, identity, score)]]
           T == {m \in 0..n : KeptOf(kept[m], m, identity, score)}
<1>1. step \in [0 + 1 .. n -> [D -> D]]
  <2>1. ASSUME NEW m \in 1..n, NEW k \in D PROVE KeptWith(k, m, identity, score) \in D
    <3> DEFINE at == {i \in DOMAIN k : identity[k[i]] = identity[m]}
               i == CHOOSE i \in at : TRUE
    <3>1. k \in Seq(1..n) /\ Append(k, m) \in Seq(1..n)
      OBVIOUS
    <3>2. CASE at = {}
      BY <3>1, <3>2 DEF KeptWith
    <3>3. CASE at # {}
      <4>1. i \in 1..Len(k)
        BY <3>3
      <4> HIDE DEF i
      <4>2. [k EXCEPT ![i] = m] \in D
        BY <3>1, <4>1, ExceptSeq
      <4> QED BY <3>1, <3>3, <4>2 DEF KeptWith, i
    <3> QED BY <3>2, <3>3
  <2> QED BY <2>1
<1>2. \E f : Is(f)
  <2>1. <<>> \in D /\ 0 \in Nat /\ 0 <= n
    OBVIOUS
  <2> HIDE DEF D, step
  <2>2. PICK f \in [0..n -> D] : Recurs(f, 0, n, <<>>, step)
    BY <1>1, <2>1, Recursion
  <2>3. ASSUME NEW m \in 1..n PROVE step[m][f[m - 1]] = KeptWith(f[m - 1], m, identity, score)
    <3>1. f[m - 1] \in D
      BY <2>2
    <3> QED BY <3>1 DEF step
  <2>4. \A m \in 0..n : (IF m = 0 THEN <<>> ELSE step[m][f[m - 1]])
                        = (IF m = 0 THEN <<>> ELSE KeptWith(f[m - 1], m, identity, score))
    BY <2>3
  <2>5. Is(f)
    BY <2>2, <2>4 DEF Recurs
  <2> QED BY <2>5
<1>3. Is(kept)
  BY <1>2
<1> HIDE DEF kept
<1>4. kept[0] = <<>> /\ \A m \in 1..n : kept[m] = KeptWith(kept[m - 1], m, identity, score)
  BY <1>3
<1>5. 0 \in T
  <2>1. <<>> \in Seq(1..0) /\ DOMAIN <<>> = {} /\ 1..0 = {}
    OBVIOUS
  <2>2. KeptOf(<<>>, 0, identity, score)
    BY <2>1 DEF KeptOf
  <2> QED BY <1>4, <2>2
<1>6. ASSUME NEW m \in 0 + 1 .. n, m - 1 \in T PROVE m \in T
  <2>1. m \in 1..n /\ m \in 0..n
    OBVIOUS
  <2>2. KeptOf(kept[m - 1], m - 1, identity, score)
    BY <1>6
  <2>3. KeptOf(KeptWith(kept[m - 1], m, identity, score), m, identity, score)
    BY <2>1, <2>2, KeptStep
  <2> QED BY <1>4, <2>1, <2>3
<1>7. n \in T
  <2> HIDE DEF T
  <2> QED BY <1>5, <1>6, Climb
<1> QED BY <1>7 DEF Kept, kept

\* What is kept is the best of each identity, once.
LEMMA KeptAreBest ==
  ASSUME NEW S, Ordered(S), NEW n \in Nat, NEW identity, NEW score \in [1..n -> S],
         NEW kept, kept = Kept(n, identity, score)
  PROVE  /\ kept \in Seq(1..n)
         /\ \A j \in DOMAIN kept : kept[j] \in Best(n, identity, score)
         /\ \A i \in Best(n, identity, score) : \E j \in DOMAIN kept : kept[j] = i
         /\ \A i, j \in DOMAIN kept : identity[kept[i]] = identity[kept[j]] => i = j
<1>1. KeptOf(kept, n, identity, score)
  BY KeptIsOf
<1>2. kept \in Seq(1..n) /\ \A j \in DOMAIN kept : kept[j] \in 1..n
  <2>1. kept \in Seq(1..n)
    BY <1>1 DEF KeptOf
  <2>2. kept \in [1..Len(kept) -> 1..n]
    BY <2>1, LenProperties
  <2> QED BY <2>1, <2>2
<1>3. ASSUME NEW j \in DOMAIN kept PROVE kept[j] \in Best(n, identity, score)
  BY <1>1, <1>2 DEF KeptOf, Best
<1>4. ASSUME NEW i \in Best(n, identity, score) PROVE \E j \in DOMAIN kept : kept[j] = i
  <2>1. i \in 1..n
    BY DEF Best
  <2>2. PICK j \in DOMAIN kept : identity[kept[j]] = identity[i]
    BY <1>1, <2>1 DEF KeptOf
  <2>3. kept[j] \in 1..n
    BY <1>2
  <2>4. /\ AtLeast(score[kept[j]], score[i])
        /\ i > kept[j] => ~AtLeast(score[i], score[kept[j]])
    BY <1>1, <2>1, <2>2 DEF KeptOf
  <2>5. /\ AtLeast(score[i], score[kept[j]])
        /\ kept[j] > i => ~AtLeast(score[kept[j]], score[i])
    BY <2>2, <2>3 DEF Best
  <2>6. kept[j] = i
    BY <2>1, <2>3, <2>4, <2>5
  <2> QED BY <2>6
<1> QED BY <1>1, <1>2, <1>3, <1>4 DEF KeptOf

\* A sequence of sequences, one behind the other.
LEMMA FlattenType ==
  ASSUME NEW U, NEW seqs \in Seq(Seq(U))
  PROVE  FlattenSeq(seqs) \in Seq(U)
<1> DEFINE n == Len(seqs)
           D == Seq(U)
<1>1. n \in Nat /\ \A i \in 1..n : seqs[i] \in D
  OBVIOUS
<1>2. CASE n = 0
  <2>1. FlattenSeq(seqs) = seqs /\ seqs = <<>>
    BY <1>2 DEF FlattenSeq
  <2> QED BY <2>1
<1>3. CASE n # 0
  <2> DEFINE Is(f) == f = [i \in 1..n |-> IF i = 1 THEN seqs[i] ELSE f[i - 1] \o seqs[i]]
             flatten == CHOOSE f : Is(f)
             step == [i \in 2..n |-> [s \in D |-> s \o seqs[i]]]
             T == {i \in 1..n : flatten[i] \in D}
  <2>1. step \in [1 + 1 .. n -> [D -> D]]
    <3>1. ASSUME NEW i \in 2..n, NEW s \in D PROVE s \o seqs[i] \in D
      <4>1. seqs[i] \in D
        BY <1>1
      <4> QED BY <4>1
    <3> QED BY <3>1
  <2>2. \E f : Is(f)
    <3> HIDE DEF step, D, n
    <3>1. seqs[1] \in D /\ 1 \in Nat /\ 1 <= n
      BY <1>1, <1>3
    <3>2. PICK f \in [1..n -> D] : Recurs(f, 1, n, seqs[1], step)
      BY <1>1, <2>1, <3>1, Recursion
    <3>3. ASSUME NEW i \in 2..n PROVE step[i][f[i - 1]] = f[i - 1] \o seqs[i]
      <4>1. f[i - 1] \in D
        BY <1>1, <3>2
      <4> QED BY <4>1 DEF step
    <3>4. \A i \in 1..n : (IF i = 1 THEN seqs[1] ELSE step[i][f[i - 1]])
                          = (IF i = 1 THEN seqs[i] ELSE f[i - 1] \o seqs[i])
      <4> SUFFICES ASSUME NEW i \in 1..n
                   PROVE  (IF i = 1 THEN seqs[1] ELSE step[i][f[i - 1]])
                          = (IF i = 1 THEN seqs[i] ELSE f[i - 1] \o seqs[i])
        OBVIOUS
      <4>1. CASE i = 1
        BY <4>1
      <4>2. CASE i # 1
        <5>1. i \in 2..n
          BY <1>1, <4>2
        <5> QED BY <3>3, <4>2, <5>1
      <4> QED BY <4>1, <4>2
    <3>5. Is(f)
      BY <3>2, <3>4 DEF Recurs
    <3> QED BY <3>5
  <2>3. Is(flatten)
    BY <2>2
  <2> HIDE DEF flatten
  <2>4. 1 \in T
    BY <1>1, <1>3, <2>3
  <2>5. ASSUME NEW i \in 1 + 1 .. n, i - 1 \in T PROVE i \in T
    <3>1. flatten[i] = flatten[i - 1] \o seqs[i] /\ seqs[i] \in D /\ flatten[i - 1] \in D
      <4>1. i \in 1..n /\ i # 1
        OBVIOUS
      <4> QED BY <1>1, <2>3, <2>5, <4>1
    <3>2. flatten[i] \in D
      BY <3>1, ConcatProperties
    <3> QED BY <3>2
  <2>6. n \in T
    <3>1. n \in 1..n /\ 1 \in Nat
      BY <1>1, <1>3
    <3> HIDE DEF T, n
    <3> QED BY <1>1, <2>4, <2>5, <3>1, Climb
  <2> QED BY <1>1, <1>3, <2>6 DEF FlattenSeq, flatten
<1> QED BY <1>2, <1>3

\* Which positions, up to m, the items of a table are from.
FromThe(at, table, items, positions, m) ==
  /\ at \in [DOMAIN table -> (1..m) \cap positions]
  /\ \A i \in DOMAIN table : table[i] = items[at[i]]
  /\ \A i, j \in DOMAIN table : at[i] = at[j] => i = j
  /\ \A p \in (1..m) \cap positions : \E i \in DOMAIN table : at[i] = p

\* The items at some positions are each from one of them, and of each one.
LEMMA ThoseAreFromThe ==
  ASSUME NEW U, NEW items \in Seq(U), NEW positions
  PROVE  /\ Those(items, positions) \in Seq(U)
         /\ \E at : FromThe(at, Those(items, positions), items, positions, Len(items))
<1> DEFINE n == Len(items)
           D == Seq(U)
           Taking(s, m) == IF m \in positions THEN Append(s, items[m]) ELSE s
           Is(f) == f = [m \in 0..n |-> IF m = 0 THEN <<>>
                                        ELSE IF m \in positions THEN Append(f[m - 1], items[m])
                                        ELSE f[m - 1]]
           those == CHOOSE f : Is(f)
           step == [m \in 1..n |-> [s \in D |-> Taking(s, m)]]
           T == {m \in 0..n : those[m] \in D /\ \E at : FromThe(at, those[m], items, positions, m)}
<1>1. n \in Nat /\ \A m \in 1..n : items[m] \in U
  OBVIOUS
<1>2. \A m \in 1..n : \A s \in D : Taking(s, m) \in D
  BY <1>1
<1>3. \E f : Is(f)
  <2>1. step \in [0 + 1 .. n -> [D -> D]]
    BY <1>2
  <2>2. <<>> \in D
    OBVIOUS
  <2> HIDE DEF D, step, n
  <2>3. PICK f \in [0..n -> D] : Recurs(f, 0, n, <<>>, step)
    <3>1. 0 \in Nat /\ 0 <= n
      BY <1>1
    <3> QED BY <1>1, <2>1, <2>2, <3>1, Recursion
  <2>4. ASSUME NEW m \in 1..n PROVE step[m][f[m - 1]] = Taking(f[m - 1], m)
    <3>1. f[m - 1] \in D
      BY <1>1, <2>3
    <3> QED BY <3>1 DEF step
  <2>5. ASSUME NEW m \in 0..n
        PROVE  (IF m = 0 THEN <<>> ELSE step[m][f[m - 1]])
               = (IF m = 0 THEN <<>> ELSE Taking(f[m - 1], m))
    <3>1. CASE m = 0
      BY <3>1
    <3>2. CASE m # 0
      <4>1. m \in 1..n
        BY <1>1, <3>2
      <4> QED BY <2>4, <3>2, <4>1
    <3> QED BY <3>1, <3>2
  <2>6. Is(f)
    BY <2>3, <2>5 DEF Recurs
  <2> QED BY <2>6
<1>4. Is(those)
  BY <1>3
<1> HIDE DEF those
<1>5. those[0] = <<>> /\ \A m \in 1..n : those[m] = Taking(those[m - 1], m)
  <2> SUFFICES ASSUME those = [m \in 0..n |-> IF m = 0 THEN <<>>
                                              ELSE IF m \in positions THEN Append(those[m - 1], items[m])
                                              ELSE those[m - 1]]
               PROVE  those[0] = <<>> /\ \A m \in 1..n : those[m] = Taking(those[m - 1], m)
    BY <1>4
  <2> HIDE DEF n
  <2>1. those[0] = <<>>
    BY <1>1
  <2>2. ASSUME NEW m \in 1..n PROVE those[m] = Taking(those[m - 1], m)
    <3>1. m \in 0..n /\ m # 0
      BY <1>1
    <3> QED BY <3>1
  <2> QED BY <2>1, <2>2
<1>6. 0 \in T
  <2>1. FromThe(<<>>, <<>>, items, positions, 0)
    BY DEF FromThe
  <2>2. <<>> \in D /\ 0 \in 0..n
    BY <1>1
  <2> QED BY <1>5, <2>1, <2>2
<1>7. ASSUME NEW m \in 0 + 1 .. n, m - 1 \in T PROVE m \in T
  <2> DEFINE old == those[m - 1]
             new == those[m]
             l == Len(old)
  <2>1. m \in 1..n /\ m \in 0..n /\ old \in D /\ new = Taking(old, m) /\ new \in D
    <3>1. m \in 1..n /\ m \in 0..n
      BY <1>1
    <3>2. old \in D
      BY <1>7
    <3>3. new = Taking(old, m)
      BY <1>5, <3>1
    <3>4. Taking(old, m) \in D
      <4> HIDE DEF old, D
      <4> QED BY <1>2, <3>1, <3>2
    <3> QED BY <3>1, <3>2, <3>3, <3>4
  <2>2. PICK at : FromThe(at, old, items, positions, m - 1)
    BY <1>7
  <2>3. l \in Nat /\ DOMAIN old = 1..l
    BY <2>1
  <2> HIDE DEF old, new, l, n, D
  <2>4. CASE m \notin positions
    <3>1. (1..m) \cap positions = (1..m - 1) \cap positions
      BY <1>1, <2>1, <2>4
    <3>2. new = old
      BY <2>1, <2>4
    <3>3. FromThe(at, new, items, positions, m)
      BY <2>2, <3>1, <3>2 DEF FromThe
    <3> QED BY <2>1, <3>3 DEF new
  <2>5. CASE m \in positions
    <3> DEFINE more == [i \in 1..l + 1 |-> IF i = l + 1 THEN m ELSE at[i]]
    <3>1. /\ DOMAIN new = 1..l + 1 /\ new[l + 1] = items[m]
          /\ \A i \in 1..l : new[i] = old[i]
      BY <2>1, <2>3, <2>5 DEF D, l
    <3>2. (1..m) \cap positions = ((1..m - 1) \cap positions) \cup {m}
      BY <1>1, <2>1, <2>5
    <3>3. /\ at \in [1..l -> (1..m - 1) \cap positions]
          /\ \A i \in 1..l : old[i] = items[at[i]]
          /\ \A i, j \in 1..l : at[i] = at[j] => i = j
          /\ \A p \in (1..m - 1) \cap positions : \E i \in 1..l : at[i] = p
      BY <2>2, <2>3 DEF FromThe
    <3>4. \A i \in 1..l : i # l + 1 /\ more[i] = at[i] /\ at[i] # m /\ at[i] \in (1..m - 1) \cap positions
      BY <1>1, <2>1, <2>3, <3>3
    <3>5. \A i \in 1..l + 1 : i = l + 1 \/ i \in 1..l
      BY <2>3
    <3>6. l + 1 \in 1..l + 1 /\ more[l + 1] = m
      BY <2>3
    <3> HIDE DEF more
    <3>7. more \in [1..l + 1 -> (1..m) \cap positions]
      <4>1. \A i \in 1..l + 1 : more[i] \in (1..m) \cap positions
        BY <3>2, <3>4, <3>5, <3>6
      <4> QED BY <4>1 DEF more
    <3>8. \A i \in 1..l + 1 : new[i] = items[more[i]]
      BY <3>1, <3>3, <3>4, <3>5, <3>6
    <3>9. \A i, j \in 1..l + 1 : more[i] = more[j] => i = j
      BY <3>3, <3>4, <3>5, <3>6
    <3>10. \A p \in (1..m) \cap positions : \E i \in 1..l + 1 : more[i] = p
      <4> SUFFICES ASSUME NEW p \in (1..m) \cap positions PROVE \E i \in 1..l + 1 : more[i] = p
        OBVIOUS
      <4>1. CASE p = m
        BY <3>6, <4>1
      <4>2. CASE p # m
        <5>1. PICK i \in 1..l : at[i] = p
          BY <3>2, <3>3, <4>2
        <5>2. i \in 1..l + 1
          BY <2>3
        <5> QED BY <3>4, <5>1, <5>2
      <4> QED BY <4>1, <4>2
    <3>11. FromThe(more, new, items, positions, m)
      BY <3>1, <3>7, <3>8, <3>9, <3>10 DEF FromThe
    <3> QED BY <2>1, <3>11 DEF new
  <2> QED BY <2>4, <2>5
<1>8. n \in T
  <2>1. n \in 0..n /\ 0 \in Nat
    BY <1>1
  <2> HIDE DEF T, n
  <2> QED BY <1>1, <1>6, <1>7, <2>1, Climb
<1>9. Those(items, positions) = those[n]
  BY DEF Those, those
<1> QED BY <1>8, <1>9

\* A function on the first numbers is a sequence.
LEMMA IsSequence ==
  ASSUME NEW U, NEW m \in Nat, NEW s \in [1..m -> U]
  PROVE  s \in Seq(U)
OBVIOUS

\* The items at some positions; what an item is identified by; what is listed.
ItemsAt(kept, items) == [i \in DOMAIN kept |-> items[kept[i]]]

Identified(ids, identity, items) == \A i \in DOMAIN items : identity[i] = ids[items[i]]

Lists(table, items, positions) == {table[j] : j \in DOMAIN table} = {items[i] : i \in positions}

\* The table of what is merged has the best records, of each identity one.
LEMMA MergedTable ==
  ASSUME NEW U, NEW items \in Seq(U), NEW n, n = Len(items), NEW ids, NEW S, Ordered(S),
         NEW identity, Identified(ids, identity, items),
         NEW score \in [1..n -> S],
         NEW kept, kept = Kept(n, identity, score),
         NEW table, table = ItemsAt(kept, items)
  PROVE  /\ table \in Seq(U)
         /\ Lists(table, items, Best(n, identity, score))
         /\ \A i, j \in DOMAIN table : ids[table[i]] = ids[table[j]] => i = j
<1>1. n \in Nat /\ DOMAIN items = 1..n /\ \A i \in 1..n : items[i] \in U
  OBVIOUS
<1>2. /\ kept \in Seq(1..n)
      /\ \A j \in DOMAIN kept : kept[j] \in Best(n, identity, score)
      /\ \A i \in Best(n, identity, score) : \E j \in DOMAIN kept : kept[j] = i
      /\ \A i, j \in DOMAIN kept : identity[kept[i]] = identity[kept[j]] => i = j
  <2> HIDE DEF Best
  <2> QED BY <1>1, KeptAreBest
<1>3. Len(kept) \in Nat /\ DOMAIN kept = 1..Len(kept) /\ \A i \in DOMAIN kept : kept[i] \in 1..n
  <2>1. kept \in [1..Len(kept) -> 1..n] /\ Len(kept) \in Nat
    BY <1>2, LenProperties
  <2> QED BY <2>1
<1>4. DOMAIN table = DOMAIN kept /\ \A i \in DOMAIN kept : table[i] = items[kept[i]]
  BY DEF ItemsAt
<1>5. table \in Seq(U)
  <2>1. table \in [1..Len(kept) -> U] /\ Len(kept) \in Nat
    BY <1>1, <1>3 DEF ItemsAt
  <2> QED BY <2>1, IsSequence
<1>6. \A i \in DOMAIN table : ids[table[i]] = identity[kept[i]]
  BY <1>1, <1>3, <1>4 DEF Identified
<1>7. \A i, j \in DOMAIN table : ids[table[i]] = ids[table[j]] => i = j
  <2> SUFFICES ASSUME NEW i \in DOMAIN table, NEW j \in DOMAIN table, ids[table[i]] = ids[table[j]]
               PROVE  i = j
    OBVIOUS
  <2>1. i \in DOMAIN kept /\ j \in DOMAIN kept
    BY <1>4
  <2>2. identity[kept[i]] = identity[kept[j]]
    BY <1>6
  <2> QED BY <1>2, <2>1, <2>2
<1>8. \A j \in DOMAIN table : \E i \in Best(n, identity, score) : table[j] = items[i]
  BY <1>2, <1>4
<1>9. \A i \in Best(n, identity, score) : \E j \in DOMAIN table : table[j] = items[i]
  <2> SUFFICES ASSUME NEW i \in Best(n, identity, score) PROVE \E j \in DOMAIN table : table[j] = items[i]
    OBVIOUS
  <2>1. PICK j \in DOMAIN kept : kept[j] = i
    BY <1>2
  <2>2. j \in DOMAIN table /\ table[j] = items[i]
    BY <1>4, <2>1
  <2> QED BY <2>2
<1>10. Lists(table, items, Best(n, identity, score))
  BY <1>8, <1>9 DEF Lists
<1> QED BY <1>5, <1>7, <1>10

\* A row of an episode is the episode and where it is from.
EpisodeRecords ==
  [id : Nat, show : Nat, number : Nat, air : Nat, seen : BOOLEAN, date : Nat, source : Nat]

\* The merge of the watch events.
LEMMA LatestWatchEventsIsBest ==
  ASSUME NEW items \in Seq(WatchEvents)
  PROVE  /\ LatestWatchEvents(items) \in Seq(WatchEvents)
         /\ IsBest(LatestWatchEvents(items), items, WatchIdentity, Updated)
<1> DEFINE n == Len(items)
           S == [1..1 -> Nat]
           ids == [u \in WatchEvents |-> WatchIdentity(u)]
           identity == [i \in DOMAIN items |-> WatchIdentity(items[i])]
           score == [i \in DOMAIN items |-> Updated(items[i])]
           kept == Kept(n, identity, score)
           table == ItemsAt(kept, items)
<1>1. n \in Nat /\ DOMAIN items = 1..n /\ \A i \in 1..n : items[i] \in WatchEvents
  OBVIOUS
<1>2. Ordered(S)
  BY ScoresAreOrdered
<1>3. score \in [1..n -> S]
  <2>1. \A u \in WatchEvents : Updated(u) \in S
    BY DEF Updated, WatchEvents
  <2> HIDE DEF S, n
  <2> QED BY <1>1, <2>1
<1>4. Identified(ids, identity, items)
  <2> HIDE DEF n
  <2> QED BY <1>1 DEF Identified
<1>5. LatestWatchEvents(items) = table
  BY DEF LatestWatchEvents, KeepBest, ItemsAt
<1> HIDE DEF n, S, ids, identity, score, kept, table
<1>6. /\ table \in Seq(WatchEvents)
      /\ Lists(table, items, Best(n, identity, score))
      /\ \A i, j \in DOMAIN table : ids[table[i]] = ids[table[j]] => i = j
  <2>1. n = Len(items) /\ kept = Kept(n, identity, score) /\ table = ItemsAt(kept, items)
    BY DEF n, kept, table
  <2>2. table \in Seq(WatchEvents)
    BY <1>2, <1>3, <1>4, <2>1, MergedTable
  <2>3. Lists(table, items, Best(n, identity, score))
    BY <1>2, <1>3, <1>4, <2>1, MergedTable
  <2>4. \A i, j \in DOMAIN table : ids[table[i]] = ids[table[j]] => i = j
    BY <1>2, <1>3, <1>4, <2>1, MergedTable
  <2> QED BY <2>2, <2>3, <2>4
<1>7. \A i \in DOMAIN table : ids[table[i]] = WatchIdentity(table[i])
  <2>1. \A i \in DOMAIN table : table[i] \in WatchEvents
    BY <1>6
  <2> QED BY <2>1 DEF ids
<1>8. BestOf(items, WatchIdentity, Updated) = {items[i] : i \in Best(n, identity, score)}
  BY DEF BestOf, n, identity, score
<1>9. Has(table, BestOf(items, WatchIdentity, Updated), WatchIdentity)
  <2>1. {table[i] : i \in DOMAIN table} = BestOf(items, WatchIdentity, Updated)
    BY <1>6, <1>8 DEF Lists
  <2>2. \A i, j \in DOMAIN table : WatchIdentity(table[i]) = WatchIdentity(table[j]) => i = j
    <3> SUFFICES ASSUME NEW i \in DOMAIN table, NEW j \in DOMAIN table,
                        WatchIdentity(table[i]) = WatchIdentity(table[j])
                 PROVE  i = j
      OBVIOUS
    <3>1. ids[table[i]] = ids[table[j]]
      BY <1>7
    <3> QED BY <1>6, <3>1
  <2> QED BY <2>1, <2>2 DEF Has
<1> QED BY <1>5, <1>6, <1>9 DEF IsBest

\* The merge of the library items.
LEMMA LatestByUuidIsBest ==
  ASSUME NEW items \in Seq(LibraryItems)
  PROVE  /\ LatestByUuid(items) \in Seq(LibraryItems)
         /\ IsBest(LatestByUuid(items), items, ItemIdentity, Updated)
<1> DEFINE n == Len(items)
           S == [1..1 -> Nat]
           ids == [u \in LibraryItems |-> ItemIdentity(u)]
           identity == [i \in DOMAIN items |-> ItemIdentity(items[i])]
           score == [i \in DOMAIN items |-> Updated(items[i])]
           kept == Kept(n, identity, score)
           table == ItemsAt(kept, items)
<1>1. n \in Nat /\ DOMAIN items = 1..n /\ \A i \in 1..n : items[i] \in LibraryItems
  OBVIOUS
<1>2. Ordered(S)
  BY ScoresAreOrdered
<1>3. score \in [1..n -> S]
  <2>1. \A u \in LibraryItems : Updated(u) \in S
    BY DEF Updated, LibraryItems
  <2> HIDE DEF S, n
  <2> QED BY <1>1, <2>1
<1>4. Identified(ids, identity, items)
  <2> HIDE DEF n
  <2> QED BY <1>1 DEF Identified
<1>5. LatestByUuid(items) = table
  BY DEF LatestByUuid, KeepBest, ItemsAt
<1> HIDE DEF n, S, ids, identity, score, kept, table
<1>6. /\ table \in Seq(LibraryItems)
      /\ Lists(table, items, Best(n, identity, score))
      /\ \A i, j \in DOMAIN table : ids[table[i]] = ids[table[j]] => i = j
  <2>1. n = Len(items) /\ kept = Kept(n, identity, score) /\ table = ItemsAt(kept, items)
    BY DEF n, kept, table
  <2>2. table \in Seq(LibraryItems)
    BY <1>2, <1>3, <1>4, <2>1, MergedTable
  <2>3. Lists(table, items, Best(n, identity, score))
    BY <1>2, <1>3, <1>4, <2>1, MergedTable
  <2>4. \A i, j \in DOMAIN table : ids[table[i]] = ids[table[j]] => i = j
    BY <1>2, <1>3, <1>4, <2>1, MergedTable
  <2> QED BY <2>2, <2>3, <2>4
<1>7. \A i \in DOMAIN table : ids[table[i]] = ItemIdentity(table[i])
  <2>1. \A i \in DOMAIN table : table[i] \in LibraryItems
    BY <1>6
  <2> QED BY <2>1 DEF ids
<1>8. BestOf(items, ItemIdentity, Updated) = {items[i] : i \in Best(n, identity, score)}
  BY DEF BestOf, n, identity, score
<1>9. Has(table, BestOf(items, ItemIdentity, Updated), ItemIdentity)
  <2>1. {table[i] : i \in DOMAIN table} = BestOf(items, ItemIdentity, Updated)
    BY <1>6, <1>8 DEF Lists
  <2>2. \A i, j \in DOMAIN table : ItemIdentity(table[i]) = ItemIdentity(table[j]) => i = j
    <3> SUFFICES ASSUME NEW i \in DOMAIN table, NEW j \in DOMAIN table,
                        ItemIdentity(table[i]) = ItemIdentity(table[j])
                 PROVE  i = j
      OBVIOUS
    <3>1. ids[table[i]] = ids[table[j]]
      BY <1>7
    <3> QED BY <1>6, <3>1
  <2> QED BY <2>1, <2>2 DEF Has
<1> QED BY <1>5, <1>6, <1>9 DEF IsBest

\* The merge of the favourites.
LEMMA UniqueFavoritesIsBest ==
  ASSUME NEW items \in Seq(Favorites)
  PROVE  /\ UniqueFavorites(items) \in Seq(Favorites)
         /\ IsBest(UniqueFavorites(items), items, FavoriteIdentity, FavoriteScore)
<1> DEFINE n == Len(items)
           S == [1..3 -> Nat]
           ids == [u \in Favorites |-> FavoriteIdentity(u)]
           identity == [i \in DOMAIN items |-> FavoriteIdentity(items[i])]
           score == [i \in DOMAIN items |-> FavoriteScore(items[i])]
           kept == Kept(n, identity, score)
           table == ItemsAt(kept, items)
<1>1. n \in Nat /\ DOMAIN items = 1..n /\ \A i \in 1..n : items[i] \in Favorites
  OBVIOUS
<1>2. Ordered(S)
  BY ScoresAreOrdered
<1>3. score \in [1..n -> S]
  <2>1. \A u \in Favorites : FavoriteScore(u) \in S
    BY DEF FavoriteScore, Favorites
  <2> HIDE DEF S, n
  <2> QED BY <1>1, <2>1
<1>4. Identified(ids, identity, items)
  <2> HIDE DEF n
  <2> QED BY <1>1 DEF Identified
<1>5. UniqueFavorites(items) = table
  BY DEF UniqueFavorites, KeepBest, ItemsAt
<1> HIDE DEF n, S, ids, identity, score, kept, table
<1>6. /\ table \in Seq(Favorites)
      /\ Lists(table, items, Best(n, identity, score))
      /\ \A i, j \in DOMAIN table : ids[table[i]] = ids[table[j]] => i = j
  <2>1. n = Len(items) /\ kept = Kept(n, identity, score) /\ table = ItemsAt(kept, items)
    BY DEF n, kept, table
  <2>2. table \in Seq(Favorites)
    BY <1>2, <1>3, <1>4, <2>1, MergedTable
  <2>3. Lists(table, items, Best(n, identity, score))
    BY <1>2, <1>3, <1>4, <2>1, MergedTable
  <2>4. \A i, j \in DOMAIN table : ids[table[i]] = ids[table[j]] => i = j
    BY <1>2, <1>3, <1>4, <2>1, MergedTable
  <2> QED BY <2>2, <2>3, <2>4
<1>7. \A i \in DOMAIN table : ids[table[i]] = FavoriteIdentity(table[i])
  <2>1. \A i \in DOMAIN table : table[i] \in Favorites
    BY <1>6
  <2> QED BY <2>1 DEF ids
<1>8. BestOf(items, FavoriteIdentity, FavoriteScore) = {items[i] : i \in Best(n, identity, score)}
  BY DEF BestOf, n, identity, score
<1>9. Has(table, BestOf(items, FavoriteIdentity, FavoriteScore), FavoriteIdentity)
  <2>1. {table[i] : i \in DOMAIN table} = BestOf(items, FavoriteIdentity, FavoriteScore)
    BY <1>6, <1>8 DEF Lists
  <2>2. \A i, j \in DOMAIN table : FavoriteIdentity(table[i]) = FavoriteIdentity(table[j]) => i = j
    <3> SUFFICES ASSUME NEW i \in DOMAIN table, NEW j \in DOMAIN table,
                        FavoriteIdentity(table[i]) = FavoriteIdentity(table[j])
                 PROVE  i = j
      OBVIOUS
    <3>1. ids[table[i]] = ids[table[j]]
      BY <1>7
    <3> QED BY <1>6, <3>1
  <2> QED BY <2>1, <2>2 DEF Has
<1> QED BY <1>5, <1>6, <1>9 DEF IsBest

\* The merge of the episodes.
LEMMA UniqueEpisodesIsBest ==
  ASSUME NEW items \in Seq(EpisodeRecords)
  PROVE  /\ UniqueEpisodes(items) \in Seq(EpisodeRecords)
         /\ IsBest(UniqueEpisodes(items), items, EpisodeIdentity, Seen)
<1> DEFINE n == Len(items)
           S == [1..2 -> Nat]
           ids == [u \in EpisodeRecords |-> EpisodeIdentity(u)]
           identity == [i \in DOMAIN items |-> EpisodeIdentity(items[i])]
           score == [i \in DOMAIN items |-> Seen(items[i])]
           kept == Kept(n, identity, score)
           table == ItemsAt(kept, items)
<1>1. n \in Nat /\ DOMAIN items = 1..n /\ \A i \in 1..n : items[i] \in EpisodeRecords
  OBVIOUS
<1>2. Ordered(S)
  BY ScoresAreOrdered
<1>3. score \in [1..n -> S]
  <2>1. \A u \in EpisodeRecords : Seen(u) \in S
    BY DEF Seen, EpisodeRecords
  <2> HIDE DEF S, n
  <2> QED BY <1>1, <2>1
<1>4. Identified(ids, identity, items)
  <2> HIDE DEF n
  <2> QED BY <1>1 DEF Identified
<1>5. UniqueEpisodes(items) = table
  BY DEF UniqueEpisodes, KeepBest, ItemsAt
<1> HIDE DEF n, S, ids, identity, score, kept, table
<1>6. /\ table \in Seq(EpisodeRecords)
      /\ Lists(table, items, Best(n, identity, score))
      /\ \A i, j \in DOMAIN table : ids[table[i]] = ids[table[j]] => i = j
  <2>1. n = Len(items) /\ kept = Kept(n, identity, score) /\ table = ItemsAt(kept, items)
    BY DEF n, kept, table
  <2>2. table \in Seq(EpisodeRecords)
    BY <1>2, <1>3, <1>4, <2>1, MergedTable
  <2>3. Lists(table, items, Best(n, identity, score))
    BY <1>2, <1>3, <1>4, <2>1, MergedTable
  <2>4. \A i, j \in DOMAIN table : ids[table[i]] = ids[table[j]] => i = j
    BY <1>2, <1>3, <1>4, <2>1, MergedTable
  <2> QED BY <2>2, <2>3, <2>4
<1>7. \A i \in DOMAIN table : ids[table[i]] = EpisodeIdentity(table[i])
  <2>1. \A i \in DOMAIN table : table[i] \in EpisodeRecords
    BY <1>6
  <2> QED BY <2>1 DEF ids
<1>8. BestOf(items, EpisodeIdentity, Seen) = {items[i] : i \in Best(n, identity, score)}
  BY DEF BestOf, n, identity, score
<1>9. Has(table, BestOf(items, EpisodeIdentity, Seen), EpisodeIdentity)
  <2>1. {table[i] : i \in DOMAIN table} = BestOf(items, EpisodeIdentity, Seen)
    BY <1>6, <1>8 DEF Lists
  <2>2. \A i, j \in DOMAIN table : EpisodeIdentity(table[i]) = EpisodeIdentity(table[j]) => i = j
    <3> SUFFICES ASSUME NEW i \in DOMAIN table, NEW j \in DOMAIN table,
                        EpisodeIdentity(table[i]) = EpisodeIdentity(table[j])
                 PROVE  i = j
      OBVIOUS
    <3>1. ids[table[i]] = ids[table[j]]
      BY <1>7
    <3> QED BY <1>6, <3>1
  <2> QED BY <2>1, <2>2 DEF Has
<1> QED BY <1>5, <1>6, <1>9 DEF IsBest


\* Records of the types of DerivedTables.
TypedRecords == [source : Nat, payload : Responses]

\* Parts, one for each record, one behind the other.
LEMMA PartsType ==
  ASSUME NEW U, NEW m \in Nat, NEW parts \in [1..m -> Seq(U)]
  PROVE  FlattenSeq(parts) \in Seq(U)
<1>1. parts \in Seq(Seq(U))
  <2> DEFINE D == Seq(U)
  <2>1. parts \in [1..m -> D]
    OBVIOUS
  <2> HIDE DEF D
  <2>2. parts \in Seq(D)
    BY <2>1, IsSequence
  <2> QED BY <2>2 DEF D
<1> QED BY <1>1, FlattenType

\* The tables before they are merged are of one type each.
LEMMA TypesOfTables ==
  ASSUME NEW records \in Seq(TypedRecords)
  PROVE  /\ Taken(records, IsWatch) \in Seq(WatchEvents)
         /\ Taken(records, IsLibrary) \in Seq(LibraryItems)
         /\ Taken(records, IsFavoriteMovies) \in Seq(Favorites)
         /\ Taken(records, IsFavoriteShows) \in Seq(Favorites)
         /\ EpisodeRows(records) \in Seq(EpisodeRecords)
<1> DEFINE m == Len(records)
<1>1. /\ m \in Nat /\ DOMAIN records = 1..m
      /\ \A i \in 1..m : records[i].source \in Nat /\ records[i].payload \in Responses
  <2>1. \A i \in 1..Len(records) : records[i] \in TypedRecords
    OBVIOUS
  <2> QED BY <2>1 DEF TypedRecords
<1> HIDE DEF m
<1>2. Taken(records, IsWatch) \in Seq(WatchEvents)
  <2> DEFINE parts == [i \in DOMAIN records |->
                         IF IsWatch(records[i].payload) THEN records[i].payload.objects ELSE <<>>]
  <2>1. \A p \in Responses : IsWatch(p) => p.objects \in Seq(WatchEvents)
    BY DEF Responses, IsWatch, FavoriteLists
  <2>2. <<>> \in Seq(WatchEvents)
    OBVIOUS
  <2>3. parts \in [1..m -> Seq(WatchEvents)]
    BY <1>1, <2>1, <2>2
  <2>4. Taken(records, IsWatch) = FlattenSeq(parts)
    BY DEF Taken
  <2> HIDE DEF parts
  <2> QED BY <1>1, <2>3, <2>4, PartsType
<1>3. Taken(records, IsLibrary) \in Seq(LibraryItems)
  <2> DEFINE parts == [i \in DOMAIN records |->
                         IF IsLibrary(records[i].payload) THEN records[i].payload.objects ELSE <<>>]
  <2>1. \A p \in Responses : IsLibrary(p) => p.objects \in Seq(LibraryItems)
    BY DEF Responses, IsLibrary, FavoriteLists
  <2>2. <<>> \in Seq(LibraryItems)
    OBVIOUS
  <2>3. parts \in [1..m -> Seq(LibraryItems)]
    BY <1>1, <2>1, <2>2
  <2>4. Taken(records, IsLibrary) = FlattenSeq(parts)
    BY DEF Taken
  <2> HIDE DEF parts
  <2> QED BY <1>1, <2>3, <2>4, PartsType
<1>4. Taken(records, IsFavoriteMovies) \in Seq(Favorites)
  <2> DEFINE parts == [i \in DOMAIN records |->
                         IF IsFavoriteMovies(records[i].payload) THEN records[i].payload.objects ELSE <<>>]
  <2>1. \A p \in Responses : IsFavoriteMovies(p) => p.objects \in Seq(Favorites)
    BY DEF Responses, IsFavoriteMovies, FavoriteLists
  <2>2. <<>> \in Seq(Favorites)
    OBVIOUS
  <2>3. parts \in [1..m -> Seq(Favorites)]
    BY <1>1, <2>1, <2>2
  <2>4. Taken(records, IsFavoriteMovies) = FlattenSeq(parts)
    BY DEF Taken
  <2> HIDE DEF parts
  <2> QED BY <1>1, <2>3, <2>4, PartsType
<1>5. Taken(records, IsFavoriteShows) \in Seq(Favorites)
  <2> DEFINE parts == [i \in DOMAIN records |->
                         IF IsFavoriteShows(records[i].payload) THEN records[i].payload.objects ELSE <<>>]
  <2>1. \A p \in Responses : IsFavoriteShows(p) => p.objects \in Seq(Favorites)
    BY DEF Responses, IsFavoriteShows, FavoriteLists
  <2>2. <<>> \in Seq(Favorites)
    OBVIOUS
  <2>3. parts \in [1..m -> Seq(Favorites)]
    BY <1>1, <2>1, <2>2
  <2>4. Taken(records, IsFavoriteShows) = FlattenSeq(parts)
    BY DEF Taken
  <2> HIDE DEF parts
  <2> QED BY <1>1, <2>3, <2>4, PartsType
<1>6. EpisodeRows(records) \in Seq(EpisodeRecords)
  <2> DEFINE parts == [i \in DOMAIN records |->
                         IF records[i].payload.is = "episodes" THEN RowsOf(records[i]) ELSE <<>>]
  <2>1. ASSUME NEW i \in 1..m, records[i].payload.is = "episodes"
        PROVE  RowsOf(records[i]) \in Seq(EpisodeRecords)
    <3> DEFINE objects == records[i].payload.objects
               rows == [j \in DOMAIN objects |-> EpisodeRow(objects[j], records[i].source)]
    <3>1. objects \in Seq(EpisodeObjects)
      <4>1. \A p \in Responses : p.is = "episodes" => p.objects \in Seq(EpisodeObjects)
        BY DEF Responses
      <4> QED BY <1>1, <2>1, <4>1
    <3> HIDE DEF objects
    <3>2. /\ Len(objects) \in Nat /\ DOMAIN objects = 1..Len(objects)
          /\ \A j \in 1..Len(objects) : objects[j] \in EpisodeObjects
      BY <3>1
    <3>3. \A e \in EpisodeObjects : EpisodeRow(e, records[i].source) \in EpisodeRecords
      BY <1>1 DEF EpisodeObjects, EpisodeRow, EpisodeRecords
    <3>4. rows \in [1..Len(objects) -> EpisodeRecords]
      BY <3>2, <3>3
    <3>5. RowsOf(records[i]) = rows
      BY DEF RowsOf, objects
    <3> HIDE DEF rows
    <3> QED BY <3>2, <3>4, <3>5, IsSequence
  <2>2. <<>> \in Seq(EpisodeRecords)
    OBVIOUS
  <2>3. parts \in [1..m -> Seq(EpisodeRecords)]
    BY <1>1, <2>1, <2>2
  <2>4. EpisodeRows(records) = FlattenSeq(parts)
    BY DEF EpisodeRows
  <2> HIDE DEF parts
  <2> QED BY <1>1, <2>3, <2>4, PartsType
<1> QED BY <1>2, <1>3, <1>4, <1>5, <1>6

\* What the tables of a cache are.
LEMMA TablesAre ==
  ASSUME NEW cache, NEW records, records = Records(cache)
  PROVE  LET merged == Tables(cache)
             items == LatestByUuid(Taken(records, IsLibrary))
         IN /\ merged.watch_events = LatestWatchEvents(Taken(records, IsWatch))
            /\ merged.movie_library = OfEntity(items, "movie")
            /\ merged.series_library = OfEntity(items, "series")
            /\ merged.favorite_movies = UniqueFavorites(Taken(records, IsFavoriteMovies))
            /\ merged.favorite_shows = UniqueFavorites(Taken(records, IsFavoriteShows))
            /\ merged.episode_cache = EpisodeRows(records)
            /\ merged.episode_cache_unique = UniqueEpisodes(EpisodeRows(records))
BY DEF Tables, TablesOf

\* The movies and the series of a library, the one behind the other.
LEMMA LibraryHas ==
  ASSUME NEW items \in Seq(LibraryItems), NEW best,
         Has(items, best, ItemIdentity)
  PROVE  Has(OfEntity(items, "movie") \o OfEntity(items, "series"),
             {item \in best : item.entity \in {"movie", "series"}}, ItemIdentity)
<1> DEFINE n == Len(items)
           a == {i \in DOMAIN items : items[i].entity = "movie"}
           b == {i \in DOMAIN items : items[i].entity = "series"}
           s == Those(items, a)
           t == Those(items, b)
           both == s \o t
<1>1. n \in Nat /\ DOMAIN items = 1..n /\ \A i \in 1..n : items[i] \in LibraryItems
  OBVIOUS
<1>2. a \subseteq 1..n /\ b \subseteq 1..n /\ a \cap b = {}
  <2> HIDE DEF n
  <2> QED BY <1>1
<1> HIDE DEF a, b, s, t, n
<1>3. s \in Seq(LibraryItems) /\ t \in Seq(LibraryItems)
  BY ThoseAreFromThe DEF s, t
<1>4. PICK x : FromThe(x, s, items, a, n)
  BY ThoseAreFromThe DEF s, n
<1>5. PICK y : FromThe(y, t, items, b, n)
  BY ThoseAreFromThe DEF t, n
<1>6. (1..n) \cap a = a /\ (1..n) \cap b = b
  BY <1>2
<1> DEFINE k == Len(s)
           l == Len(t)
           z == [i \in 1..k + l |-> IF i <= k THEN x[i] ELSE y[i - k]]
<1>7. k \in Nat /\ l \in Nat /\ DOMAIN s = 1..k /\ DOMAIN t = 1..l
  BY <1>3
<1>8. /\ \A i \in 1..k : x[i] \in a /\ s[i] = items[x[i]]
      /\ \A i, j \in 1..k : x[i] = x[j] => i = j
      /\ \A p \in a : \E i \in 1..k : x[i] = p
  BY <1>4, <1>6, <1>7 DEF FromThe
<1>9. /\ \A i \in 1..l : y[i] \in b /\ t[i] = items[y[i]]
      /\ \A i, j \in 1..l : y[i] = y[j] => i = j
      /\ \A p \in b : \E i \in 1..l : y[i] = p
  BY <1>5, <1>6, <1>7 DEF FromThe
<1>10. /\ DOMAIN both = 1..k + l
       /\ \A i \in 1..k + l : both[i] = IF i <= k THEN s[i] ELSE t[i - k]
  <2>1. /\ both \in Seq(LibraryItems) /\ Len(both) = k + l
        /\ \A i \in 1..k + l : both[i] = IF i <= k THEN s[i] ELSE t[i - k]
    BY <1>3, ConcatProperties
  <2> HIDE DEF both
  <2> QED BY <2>1
<1> HIDE DEF both, k, l
<1>11. \A i \in 1..k + l : \/ i <= k /\ i \in 1..k
                           \/ ~(i <= k) /\ i - k \in 1..l
  BY <1>7
<1>12. ASSUME NEW i \in 1..k + l PROVE z[i] \in a \cup b /\ z[i] \in 1..n /\ both[i] = items[z[i]]
  <2>1. CASE i <= k
    BY <1>2, <1>8, <1>10, <1>11, <2>1
  <2>2. CASE ~(i <= k)
    BY <1>2, <1>9, <1>10, <1>11, <2>2
  <2> QED BY <2>1, <2>2
<1>13. ASSUME NEW i \in 1..k + l, NEW j \in 1..k + l, z[i] = z[j] PROVE i = j
  <2>1. CASE i <= k /\ j <= k
    BY <1>8, <1>11, <1>13, <2>1
  <2>2. CASE i <= k /\ ~(j <= k)
    BY <1>2, <1>8, <1>9, <1>11, <1>13, <2>2
  <2>3. CASE ~(i <= k) /\ j <= k
    BY <1>2, <1>8, <1>9, <1>11, <1>13, <2>3
  <2>4. CASE ~(i <= k) /\ ~(j <= k)
    <3>1. i - k = j - k
      BY <1>9, <1>11, <1>13, <2>4
    <3> QED BY <1>7, <3>1
  <2> QED BY <2>1, <2>2, <2>3, <2>4
<1>14. ASSUME NEW p \in a \cup b PROVE \E i \in 1..k + l : z[i] = p
  <2>1. CASE p \in a
    <3>1. PICK i \in 1..k : x[i] = p
      BY <1>8, <2>1
    <3>2. i \in 1..k + l /\ i <= k
      BY <1>7
    <3> QED BY <3>1, <3>2
  <2>2. CASE p \in b
    <3>1. PICK i \in 1..l : y[i] = p
      BY <1>9, <2>2
    <3>2. i + k \in 1..k + l /\ ~(i + k <= k) /\ (i + k) - k = i
      BY <1>7
    <3> QED BY <3>1, <3>2
  <2> QED BY <2>1, <2>2
<1> HIDE DEF z
<1>15. /\ best = {items[i] : i \in 1..n}
       /\ \A i, j \in 1..n : ItemIdentity(items[i]) = ItemIdentity(items[j]) => i = j
  BY <1>1 DEF Has
<1>16. \A i \in 1..n : i \in a \cup b <=> items[i].entity \in {"movie", "series"}
  BY <1>1 DEF a, b
<1>17. {both[i] : i \in DOMAIN both} = {item \in best : item.entity \in {"movie", "series"}}
  <2>1. ASSUME NEW i \in DOMAIN both
        PROVE  both[i] \in best /\ both[i].entity \in {"movie", "series"}
    BY <1>10, <1>12, <1>15, <1>16
  <2>2. ASSUME NEW item \in best, item.entity \in {"movie", "series"}
        PROVE  \E i \in DOMAIN both : both[i] = item
    <3>1. PICK p \in 1..n : item = items[p]
      BY <1>15
    <3>2. p \in a \cup b
      BY <1>16, <2>2, <3>1
    <3>3. PICK i \in 1..k + l : z[i] = p
      BY <1>14, <3>2
    <3> QED BY <1>10, <1>12, <3>1, <3>3
  <2> QED BY <2>1, <2>2
<1>18. ASSUME NEW i \in DOMAIN both, NEW j \in DOMAIN both,
              ItemIdentity(both[i]) = ItemIdentity(both[j])
       PROVE  i = j
  <2>1. z[i] \in 1..n /\ z[j] \in 1..n /\ both[i] = items[z[i]] /\ both[j] = items[z[j]]
    BY <1>10, <1>12
  <2>2. z[i] = z[j]
    BY <1>15, <1>18, <2>1
  <2> QED BY <1>10, <1>13, <2>2
<1>19. Has(both, {item \in best : item.entity \in {"movie", "series"}}, ItemIdentity)
  BY <1>17, <1>18 DEF Has
<1> QED BY <1>19 DEF OfEntity, both, s, t, a, b

\* The tables that _analyze_extraction writes have of the records that repeat one another
\* exactly one, of the best score and of those the one that was read last: for every cache
\* whose records have the types of what the code reads.
THEOREM TablesKeepTheBestHolds == Spec => []TablesKeepTheBest
<1>1. TablesKeepTheBest
  <2> SUFFICES ASSUME Yields
               PROVE  KeepsTheBest(Analysis[analyzed].records, Analysis[analyzed].tables)
    BY DEF TablesKeepTheBest
  <2> DEFINE records == Records(analyzed)
             merged == Tables(analyzed)
  <2>1. analyzed \in Caches /\ Analysis[analyzed] = [records |-> records, tables |-> merged]
    BY DEF Yields, Analysis
  <2>2. records \in Seq(TypedRecords)
    BY <2>1, RecordsAssumption DEF TypedRecords
  <2> HIDE DEF records, merged
  <2>3. /\ Taken(records, IsWatch) \in Seq(WatchEvents)
        /\ Taken(records, IsLibrary) \in Seq(LibraryItems)
        /\ Taken(records, IsFavoriteMovies) \in Seq(Favorites)
        /\ Taken(records, IsFavoriteShows) \in Seq(Favorites)
        /\ EpisodeRows(records) \in Seq(EpisodeRecords)
    BY <2>2, TypesOfTables
  <2> DEFINE items == LatestByUuid(Taken(records, IsLibrary))
  <2>4. /\ merged.watch_events = LatestWatchEvents(Taken(records, IsWatch))
        /\ merged.movie_library = OfEntity(items, "movie")
        /\ merged.series_library = OfEntity(items, "series")
        /\ merged.favorite_movies = UniqueFavorites(Taken(records, IsFavoriteMovies))
        /\ merged.favorite_shows = UniqueFavorites(Taken(records, IsFavoriteShows))
        /\ merged.episode_cache = EpisodeRows(records)
        /\ merged.episode_cache_unique = UniqueEpisodes(EpisodeRows(records))
    BY TablesAre DEF records, merged
  <2>5. IsBest(merged.watch_events, Taken(records, IsWatch), WatchIdentity, Updated)
    BY <2>3, <2>4, LatestWatchEventsIsBest
  <2>6. /\ items \in Seq(LibraryItems)
        /\ IsBest(items, Taken(records, IsLibrary), ItemIdentity, Updated)
    BY <2>3, LatestByUuidIsBest
  <2> HIDE DEF items
  <2>7. Has(merged.movie_library \o merged.series_library,
            {item \in BestOf(Taken(records, IsLibrary), ItemIdentity, Updated) :
               item.entity \in {"movie", "series"}},
            ItemIdentity)
    <3> DEFINE best == BestOf(Taken(records, IsLibrary), ItemIdentity, Updated)
    <3>1. Has(items, best, ItemIdentity)
      BY <2>6 DEF IsBest
    <3> HIDE DEF best
    <3>2. Has(OfEntity(items, "movie") \o OfEntity(items, "series"),
              {item \in best : item.entity \in {"movie", "series"}}, ItemIdentity)
      BY <2>6, <3>1, LibraryHas
    <3> QED BY <2>4, <3>2 DEF best
  <2>8. IsBest(merged.favorite_movies, Taken(records, IsFavoriteMovies), FavoriteIdentity, FavoriteScore)
    BY <2>3, <2>4, UniqueFavoritesIsBest
  <2>9. IsBest(merged.favorite_shows, Taken(records, IsFavoriteShows), FavoriteIdentity, FavoriteScore)
    BY <2>3, <2>4, UniqueFavoritesIsBest
  <2>10. IsBest(merged.episode_cache_unique, merged.episode_cache, EpisodeIdentity, Seen)
    BY <2>3, <2>4, UniqueEpisodesIsBest
  <2>11. KeepsTheBest(records, merged)
    BY <2>5, <2>7, <2>8, <2>9, <2>10 DEF KeepsTheBest
  <2> QED BY <2>1, <2>11
<1> QED BY <1>1, PTL
=============================================================================
