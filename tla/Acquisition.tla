----------------------------- MODULE Acquisition -----------------------------
(***************************************************************************)
(* The acquisition of an Android source or an official export              *)
(* (tvtime_extractor/acquisition.py, recover_acquired_source): a preflight *)
(* hashes the source and notes its identity, the databases are copied or   *)
(* taken out of their container into a private layout, the source is       *)
(* hashed again, and only then the layout is sealed as complete.           *)
(*                                                                         *)
(* A "snapshot" is a directory with one file for each database, each in    *)
(* one of several places; an "archive" (an Android backup) and an "export" *)
(* are one file.  While the program works other processes write files,     *)
(* delete them, and rename a directory of the source away and back.        *)
(*                                                                         *)
(* A read holds one descriptor; it fails when, at its end, the descriptor  *)
(* or the path shows another file state than at its beginning.  What was   *)
(* read from a file that changes meanwhile is anything.                    *)
(*                                                                         *)
(* Abstracted: bytes are contents of a small set, a digest is the content  *)
(* it was made of; a file's identity (device, inode, times) is its place   *)
(* and a number that every change of the file makes new.  The looks at the *)
(* places of one database are one step.  The checks of the destination and *)
(* the stages after the seal are OutputTree's.                             *)
(***************************************************************************)
EXTENDS Naturals, Sequences, FiniteSets

CONSTANTS Kinds,      \* of source the user may choose: "snapshot", "archive", "export"
          Main,       \* the required database, DioCache.db
          Optional,   \* the other files of the allowlist: its sidecars, the image cache
          Places,     \* where a snapshot may have them: db/, databases/, the root
          Versions,   \* contents of a database that is not empty
          Firsts,     \* those a database may have when the program starts
          Absent,     \* what a file that is not there holds
          Archives,   \* contents of an Android backup
          Exports,    \* contents of an official export
          MaxEdits,   \* bound: files written or deleted
          MaxMoves    \* bound: directories renamed away or back

ASSUME AcquisitionAssumption ==
  /\ Kinds \subseteq {"snapshot", "archive", "export"}
  /\ Main \notin Optional /\ IsFiniteSet(Optional) /\ Places # {}
  /\ Versions \cap {Absent, "empty"} = {} /\ Firsts \subseteq Versions
  /\ MaxEdits \in Nat /\ MaxMoves \in Nat

Databases == {Main} \cup Optional
Contents == Versions \cup {Absent, "empty"}

(* An archive's members in their order.  A cut one ends at the boundary of *)
(* a member or inside of one; only a compressed one has a trailer to miss. *)
Members == [name : Databases \cup {"other"}, regular : BOOLEAN, content : Versions \cup {"empty"}]
ArchiveShape(a) ==
  /\ DOMAIN a = {"header", "compressed", "members", "cut"}
  /\ a.header \in {"supported", "encrypted", "malformed"}
  /\ a.compressed \in BOOLEAN
  /\ a.members \in Seq(Members)
  /\ a.cut \in {"no", "boundary", "inside"}

\* An export's tracking files; its rows may be unsupported.
Tracking == {"records", "records-v2"}
ExportShape(x) ==
  /\ DOMAIN x = {"files", "repeated", "encrypted", "supported"}
  /\ x.files \subseteq Tracking
  /\ x.repeated \in BOOLEAN /\ x.encrypted \in BOOLEAN /\ x.supported \in BOOLEAN

ASSUME ContainersAssumption == /\ \A a \in Archives : ArchiveShape(a)
                               /\ \A x \in Exports : ExportShape(x)

\* The order in which the files of a snapshot are looked for.
Targets == CHOOSE s \in [1..Cardinality(Databases) -> Databases] :
             s[1] = Main /\ \A i, j \in DOMAIN s : s[i] = s[j] => i = j

VARIABLES
  source,     \* source[f]: each file's content and identity
  away,       \* the places that are renamed away
  edits, moves,
  run,        \* the program
  raw,        \* what the output's raw tree and inventory hold
  output,     \* "none", "root", "incomplete", "complete"
  moment,     \* history: the source when the output was created
  hidden      \* history: the counted databases that the copy did not see, for their
              \* directory was away just then

vars == <<source, away, edits, moves, run, raw, output, moment, hidden>>

Container == "container"
ASSUME ContainerAssumption == Container \notin Databases

ContainerFile == <<Container, Container>>
FilesOf(kind) == IF kind = "snapshot" THEN Databases \X Places ELSE {ContainerFile}
ContentsOf(kind) ==
  CASE kind = "snapshot" -> Contents
    [] kind = "archive" -> Archives \cup {Absent}
    [] OTHER -> Exports \cup {Absent}

FirstsOf(kind) == IF kind = "snapshot" THEN Firsts \cup {Absent, "empty"} ELSE ContentsOf(kind)

\* What one kind of source is read for, in order: each step is a read of one file, except
\* the creation of the output's root and layout, the writing of an export, and the seal.
Step(what, name) == [what |-> what, name |-> name]
EachTarget(what) == [i \in DOMAIN Targets |-> Step(what, Targets[i])]
Each(whats) == [i \in DOMAIN whats |-> Step(whats[i], Container)]
Program(kind) ==
  CASE kind = "snapshot" ->
         EachTarget("inspect") \o Each(<<"root", "layout">>)
           \o EachTarget("copy") \o EachTarget("verify") \o Each(<<"seal">>)
    [] kind = "archive" ->
         Each(<<"inspect", "header", "root", "header", "layout", "stream", "verify", "seal">>)
    [] OTHER ->
         Each(<<"inspect", "members", "root", "members", "payloads", "layout", "write",
                "verify", "seal">>)
Reads == {"inspect", "header", "members", "copy", "stream", "payloads", "verify"}

Nothing == [x \in {} |-> Absent]
Put(f, x, value) == [y \in DOMAIN f \cup {x} |-> IF y = x THEN value ELSE f[y]]
Closed == [open |-> FALSE, file |-> ContainerFile, id |-> 0]

TypeOK ==
  LET files == FilesOf(run.kind)
      names == {f[1] : f \in files}
      places == {f[2] : f \in files}
      receipts == [content : ContentsOf(run.kind), place : places, id : 0..edits]
  IN /\ edits \in 0..MaxEdits /\ moves \in 0..MaxMoves
     /\ away \subseteq places
     /\ source \in [files -> [content : ContentsOf(run.kind), id : 0..edits]]
     /\ run.kind \in Kinds /\ run.status \in {"running", "sealed", "failed"}
     /\ run.at \in DOMAIN Program(run.kind)
     /\ run.fd \in [open : BOOLEAN, file : files \cup {ContainerFile}, id : 0..edits]
     /\ \A map \in {run.preflight, run.found} :
          DOMAIN map \subseteq names /\ \A n \in DOMAIN map : map[n] \in receipts
     /\ run.payload \in Exports \cup {Absent}
     /\ DOMAIN raw \subseteq Databases \cup Tracking \cup {"cache"}
     /\ output \in {"none", "root", "incomplete", "complete"}
     /\ hidden \subseteq Optional

Init ==
  /\ \E kind \in Kinds :
       /\ source \in [FilesOf(kind) -> [content : FirstsOf(kind), id : {0}]]
       /\ run = [kind |-> kind, status |-> "running", at |-> 1, fd |-> Closed,
                 preflight |-> Nothing, found |-> Nothing, payload |-> Absent]
       /\ moment = [f \in FilesOf(kind) |-> Absent]
  /\ away = {} /\ edits = 0 /\ moves = 0
  /\ raw = Nothing /\ output = "none" /\ hidden = {}
-----------------------------------------------------------------------------
(***************************************************************************)
(* What is made of a container's bytes.                                    *)
(***************************************************************************)

DatabaseMembers(a) == {i \in DOMAIN a.members : a.members[i].name \in Databases}

\* Mutant: nothing is read after the last database.
ReadToTheLast(a) ==
  /\ \A i \in DatabaseMembers(a) : a.members[i].regular
  /\ \A i, j \in DatabaseMembers(a) : a.members[i].name = a.members[j].name => i = j
  /\ \E i \in DatabaseMembers(a) : a.members[i].name = Main /\ a.members[i].content # "empty"

\* Each required member is a regular file, there once, and the stream is read to its
\* end: a compressed one must have its trailer, of another one only the data of the
\* members must be there.
Extractable(a) ==
  /\ \A i \in DatabaseMembers(a) : a.members[i].regular
  /\ \A i, j \in DatabaseMembers(a) : a.members[i].name = a.members[j].name => i = j
  /\ \E i \in DatabaseMembers(a) : a.members[i].name = Main /\ a.members[i].content # "empty"
  /\ a.cut = "no" \/ (a.cut = "boundary" /\ ~a.compressed)

TakenFromArchive(a) ==
  LET taken == {i \in DatabaseMembers(a) : a.members[i].content # "empty"}
  IN [n \in {a.members[i].name : i \in taken} |->
        a.members[CHOOSE i \in taken : a.members[i].name = n].content]

\* An export's files are kept as they are, next to the cache their rows are turned into.
TakenFromExport(x) == [n \in x.files \cup {"cache"} |-> x]
-----------------------------------------------------------------------------
(***************************************************************************)
(* The program.                                                            *)
(***************************************************************************)

Running == run.status = "running"
Now == Program(run.kind)[run.at]
Visible(f) == source[f].content # Absent /\ f[2] \notin away
Present(name) == {f \in FilesOf(run.kind) : f[1] = name /\ Visible(f)}

Advanced(r) == [r EXCEPT !.at = @ + 1, !.fd = Closed]
Failed(r) == [r EXCEPT !.status = "failed", !.fd = Closed]

environment == <<source, away, edits, moves>>

Fail ==
  /\ Running
  /\ run' = Failed(run)
  /\ UNCHANGED <<environment, raw, output, moment, hidden>>

\* The identity a file must still have when it is opened again after the preflight.
\* A snapshot's file that the preflight did not count is only looked at.
Bound(what, f) ==
  \/ what \in {"inspect", "verify"}
  \/ what = "copy" /\ f[1] \notin DOMAIN run.preflight
  \/ f[2] = run.preflight[f[1]].place /\ source[f].id = run.preflight[f[1]].id

Open ==
  /\ Running /\ ~run.fd.open /\ Now.what \in Reads
  /\ \E f \in FilesOf(run.kind) :
       /\ Present(Now.name) = {f}
       /\ run' = IF Bound(Now.what, f)
                 THEN [run EXCEPT !.fd = [open |-> TRUE, file |-> f, id |-> source[f].id]]
                 ELSE Failed(run)
  /\ UNCHANGED <<environment, raw, output, moment, hidden>>

\* The file the preflight counted is as it was, in a directory that is away.
IsHidden(name) ==
  /\ name \in DOMAIN run.preflight
  /\ LET f == <<name, run.preflight[name].place>>
     IN f[2] \in away /\ source[f].id = run.preflight[name].id

\* An optional database that is not there is passed over, whatever the preflight found.
PassOver ==
  /\ Running /\ ~run.fd.open /\ Now.what \in Reads
  /\ Now.name \in Optional /\ Present(Now.name) = {}
  /\ run' = Advanced(run)
  /\ hidden' = hidden \cup {n \in {Now.name} : Now.what = "copy" /\ IsHidden(n)}
  /\ UNCHANGED <<environment, raw, output, moment>>

\* The required file is missing, or a database is in several places.
Refuse ==
  /\ Running /\ ~run.fd.open /\ Now.what \in Reads
  /\ Present(Now.name) = {} => Now.name \notin Optional
  /\ Cardinality(Present(Now.name)) # 1
  /\ run' = Failed(run)
  /\ UNCHANGED <<environment, raw, output, moment, hidden>>

Unchanged(f) == Visible(f) /\ source[f].id = run.fd.id

\* What a read may have returned.
BytesOf(f) == IF Unchanged(f) THEN {source[f].content} ELSE ContentsOf(run.kind) \ {Absent}

\* Mutant: the end of a read does not look at the file again.
EndsUnseen(f) == TRUE

Ends(f) == Unchanged(f)

\* A snapshot's empty optional file is as good as none; the required one is refused.
Counted(name, c) == name = Container \/ c # "empty"

Noted(r, what, name, c) ==
  LET receipt == [content |-> c, place |-> r.fd.file[2], id |-> r.fd.id]
  IN IF what = "inspect" THEN [r EXCEPT !.preflight = Put(@, name, receipt)]
                         ELSE [r EXCEPT !.found = Put(@, name, receipt)]

CloseHashed ==
  /\ Running /\ run.fd.open /\ Now.what \in {"inspect", "verify"}
  /\ \E c \in BytesOf(run.fd.file) :
       run' = CASE ~Ends(run.fd.file) -> Failed(run)
                [] Ends(run.fd.file) /\ ~Counted(Now.name, c) ->
                     IF Now.name \in Optional THEN Advanced(run) ELSE Failed(run)
                [] OTHER -> Advanced(Noted(run, Now.what, Now.name, c))
  /\ UNCHANGED <<environment, raw, output, moment, hidden>>

\* The container's header or its list of members is checked again before it is used.
CloseListed ==
  /\ Running /\ run.fd.open /\ Now.what \in {"header", "members"}
  /\ \E c \in BytesOf(run.fd.file) :
       LET fits == IF Now.what = "header" THEN c.header = "supported"
                   ELSE ~c.repeated /\ c.files # {}
       IN run' = IF Ends(run.fd.file) /\ fits THEN Advanced(run) ELSE Failed(run)
  /\ UNCHANGED <<environment, raw, output, moment, hidden>>

CloseCopied ==
  /\ Running /\ run.fd.open /\ Now.what = "copy"
  /\ \E c \in BytesOf(run.fd.file) :
       IF Now.name \in DOMAIN run.preflight /\ Counted(Now.name, c)
       THEN /\ raw' = Put(raw, Now.name, c)
            /\ run' = IF Ends(run.fd.file) THEN Advanced(run) ELSE Failed(run)
       ELSE /\ run' = IF /\ Ends(run.fd.file) /\ Now.name \in Optional \ DOMAIN run.preflight
                         /\ ~Counted(Now.name, c)
                      THEN Advanced(run) ELSE Failed(run)
            /\ UNCHANGED raw
  /\ UNCHANGED <<environment, output, moment, hidden>>

CloseStreamed ==
  /\ Running /\ run.fd.open /\ Now.what = "stream"
  /\ \E a \in BytesOf(run.fd.file) :
       /\ raw' = TakenFromArchive(a)
       /\ run' = IF Ends(run.fd.file) /\ Extractable(a) THEN Advanced(run) ELSE Failed(run)
  /\ UNCHANGED <<environment, output, moment, hidden>>

\* The password the user gave may be wrong.
CloseRead ==
  /\ Running /\ run.fd.open /\ Now.what = "payloads"
  /\ \E x \in BytesOf(run.fd.file), right \in BOOLEAN :
       run' = IF Ends(run.fd.file) /\ x.supported /\ (x.encrypted => right)
              THEN Advanced([run EXCEPT !.payload = x]) ELSE Failed(run)
  /\ UNCHANGED <<environment, raw, output, moment, hidden>>

CreateRoot ==
  /\ Running /\ Now.what = "root"
  /\ output' = "root"
  /\ moment' = [f \in FilesOf(run.kind) |-> source[f].content]
  /\ run' = Advanced(run)
  /\ UNCHANGED <<environment, raw, hidden>>

CreateLayout ==
  /\ Running /\ Now.what = "layout"
  /\ output' = "incomplete"
  /\ run' = Advanced(run)
  /\ UNCHANGED <<environment, raw, moment, hidden>>

WriteExport ==
  /\ Running /\ Now.what = "write"
  /\ raw' = TakenFromExport(run.payload)
  /\ run' = Advanced(run)
  /\ UNCHANGED <<environment, output, moment, hidden>>

\* Mutant: the digests are compared, the identities are not.
SealByContent ==
  /\ Running /\ Now.what = "seal"
  /\ IF /\ DOMAIN run.found = DOMAIN run.preflight
        /\ \A n \in DOMAIN run.found : run.found[n].content = run.preflight[n].content
     THEN output' = "complete" /\ run' = [run EXCEPT !.status = "sealed"]
     ELSE run' = Failed(run) /\ UNCHANGED output
  /\ UNCHANGED <<environment, raw, moment, hidden>>

\* The source is sealed only as it was inspected: the same files, contents, identities.
Seal ==
  /\ Running /\ Now.what = "seal"
  /\ IF run.found = run.preflight
     THEN output' = "complete" /\ run' = [run EXCEPT !.status = "sealed"]
     ELSE run' = Failed(run) /\ UNCHANGED output
  /\ UNCHANGED <<environment, raw, moment, hidden>>
-----------------------------------------------------------------------------
(***************************************************************************)
(* Other processes.                                                        *)
(***************************************************************************)

Edit(f) ==
  /\ Running /\ edits < MaxEdits
  /\ edits' = edits + 1
  /\ \E c \in ContentsOf(run.kind) :
       /\ c = Absent => Visible(f)
       /\ source' = [source EXCEPT ![f] = [content |-> c, id |-> edits']]
  /\ f[2] \notin away
  /\ UNCHANGED <<away, moves, run, raw, output, moment, hidden>>

Move(place) ==
  /\ Running /\ moves < MaxMoves
  /\ moves' = moves + 1
  /\ away' = IF place \in away THEN away \ {place} ELSE away \cup {place}
  /\ UNCHANGED <<source, edits, run, raw, output, moment, hidden>>

Ended == ~Running /\ UNCHANGED vars

Next ==
  \/ Fail \/ Open \/ PassOver \/ Refuse
  \/ CloseHashed \/ CloseListed \/ CloseCopied \/ CloseStreamed \/ CloseRead
  \/ CreateRoot \/ CreateLayout \/ WriteExport \/ Seal
  \/ \E f \in FilesOf(run.kind) : Edit(f) \/ Move(f[2])
  \/ Ended

Spec == Init /\ [][Next]_vars
-----------------------------------------------------------------------------
TakenFromContainer(kind, c) == IF kind = "archive" THEN TakenFromArchive(c) ELSE TakenFromExport(c)

\* A sealed acquisition is of one moment: everything in it was in the source together,
\* when the output was created, although each file was hashed, copied and hashed again
\* at times of its own, and others wrote to them.
SealedIsOneMoment ==
  output = "complete" =>
    IF run.kind = "snapshot"
    THEN \A n \in DOMAIN raw : \E place \in Places : raw[n] = moment[<<n, place>>]
    ELSE raw = TakenFromContainer(run.kind, moment[ContainerFile])

\* Nothing is dropped: what is sealed of a snapshot is the required database and every
\* other one the preflight counted, as it was counted, however others delete, write and
\* create files and move directories between the preflight, the copy and the verification;
\* and of an archive every database in it.  One is missing all the same: the copy passes
\* over an optional database that it does not see without asking whether it was counted.
\* If only its directory was away just then, the verification finds it as it was, and the
\* acquisition is sealed as complete without it.
NothingIsDropped ==
  output = "complete" =>
    IF run.kind = "snapshot"
    THEN /\ Main \in DOMAIN raw
         /\ DOMAIN run.preflight \ hidden \subseteq DOMAIN raw
         /\ \A n \in DOMAIN raw : n \in DOMAIN run.preflight /\ raw[n] = run.preflight[n].content
    ELSE LET c == moment[ContainerFile]
         IN run.kind = "archive" =>
              \A i \in DOMAIN c.members :
                c.members[i].name \in Databases /\ c.members[i].content # "empty"
                  => c.members[i].name \in DOMAIN raw
=============================================================================
