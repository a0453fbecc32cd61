-------------------------- MODULE RetainedDirectories --------------------------
(***************************************************************************)
(* The directories of an output on Windows (safety.py, windows_native.py). *)
(*                                                                         *)
(* There is no working directory to anchor to: a recovery keeps a handle   *)
(* to the output's root and to every directory below it, and does not      *)
(* share deletion, so that none of them can be renamed or replaced.  A     *)
(* directory with open handles below it cannot be renamed either, so a     *)
(* promotion closes the handles below what it renames, and opens them      *)
(* again; a temporary tree is deleted through handles only.                *)
(*                                                                         *)
(* Other programs of the same user make directories, move those they can,  *)
(* and open them to look.                                                  *)
(*                                                                         *)
(* Abstracted: a path is a sequence of names below the folder of outputs,  *)
(* which the recovery holds all the time; of the files only the directory  *)
(* they were written to is kept; CloseHandle never fails; links, cloud     *)
(* placeholders, short names and ambiguous names are left out; and so is   *)
(* that an analysis that follows the extraction in one command goes        *)
(* through the directories of the tree, which it already retains, again.   *)
(***************************************************************************)
EXTENDS Naturals, FiniteSets, SequencesExt

CONSTANTS Dirs,        \* the identities of directories
          Root,        \* the path of the output
          Paths,       \* the paths a recovery makes directories at
          Programs,    \* the calls a recovery may make, one after the other
          Temporary,   \* the paths of its temporary directories
          Earlier,     \* an earlier output: where each of its directories is
          OtherNames,  \* the names others give
          Desk,        \* the folder of outputs
          None,
          MaxRetained, \* how many directories of an earlier output are retained at most
          MaxMeddling  \* bound: what others do

Above(path) == Front(path)
Below(path, other) == IsStrictPrefix(path, other)
Replaced(path, from, to) == to \o SubSeq(path, Len(from) + 1, Len(path))

\* A call's arguments.  A directory is promoted to another name beside it.
Requests ==
  {r \in [call : {"secure", "write", "delete", "remove", "promote"}, path : Paths, to : Paths] :
     r.call = "promote" =>
       /\ Above(r.to) = Above(r.path)
       /\ \A path \in Paths : Below(r.path, path) => Replaced(path, r.path, r.to) \in Paths}

ASSUME PathsAssumption ==
  /\ IsFiniteSet(Dirs) /\ None \notin Dirs /\ Desk \notin Dirs /\ Desk # None
  /\ None \notin [up : Dirs \cup {Desk}, name : STRING]
  /\ Paths \subseteq Seq(STRING) /\ OtherNames \subseteq STRING
  /\ Len(Root) = 1
  /\ \A path \in Paths : path # Root => Below(Root, path) /\ Above(path) \in Paths
  /\ Root \in Paths /\ Temporary \subseteq Paths \ {Root}
  /\ \A program \in Programs : program.fresh \in BOOLEAN /\ program.calls \in Seq(Requests)
  /\ DOMAIN Earlier \subseteq Dirs
  /\ \A d \in DOMAIN Earlier : Earlier[d] \in [up : Dirs \cup {Desk}, name : STRING]
  /\ \A d, e \in DOMAIN Earlier : Earlier[d] = Earlier[e] => d = e
  /\ MaxRetained \in Nat /\ MaxMeddling \in Nat

VARIABLES
  place,     \* place[d]: the directory it is in and its name, or None
  pending,   \* directories that are deleted once others close them
  private,   \* directories with the access control of a private one
  fresh,     \* whether the recovery makes the root, or processes an earlier output
  bound,     \* bound[path]: the directory that is retained as path, or None
  calls,     \* the calls to come
  doing,     \* the call in progress
  stack,     \* the directories a deletion is in, with the entries it has yet to delete
  scans,     \* the handles of others
  written,   \* history: the directories files were written to, and their paths, except for
             \* those in a temporary tree that was deleted since
  status, meddled

filesystem == <<place, pending, private>>
retainedVars == <<place, pending, private, fresh, bound, calls, doing, stack, scans, written, status, meddled>>
-----------------------------------------------------------------------------
(***************************************************************************)
(* The file system, external.                                              *)
(***************************************************************************)

In(d, name) == [up |-> d, name |-> name]

\* Which directory has a place, and what a path leads to, if the directories are at places.
Holder(places, here) ==
  IF \E c \in Dirs : places[c] = here THEN CHOOSE c \in Dirs : places[c] = here ELSE None
Walk(places, path) ==
  LET reached[i \in 0..Len(path)] ==
        IF i = 0 THEN Desk ELSE Holder(places, In(reached[i - 1], path[i]))
  IN reached[Len(path)]

Child(d, name) == Holder(place, In(d, name))
At(path) == Walk(place, path)

Entries(d) == {[dir |-> c, name |-> place[c].name] : c \in {e \in Dirs : place[e] # None /\ place[e].up = d}}

\* The directories below a directory, and it itself.
Within(d) ==
  LET level[i \in 0..Cardinality(Dirs)] ==
        IF i = 0 THEN {d}
        ELSE LET S == level[i - 1]
             IN S \cup {c \in Dirs : place[c] # None /\ place[c].up \in S}
  IN level[Cardinality(Dirs)]

Exists(d) == d = Desk \/ (d \in Dirs /\ place[d] # None /\ d \notin pending)

Handle(d, delete, share) == [of |-> d, delete |-> delete, share |-> share]

\* An open that asks for deletion needs everyone to share it, and shares with who asked.
Compatible(new, old) == (new.delete => old.share) /\ (old.delete => new.share)

\* Mutant: a retained handle shares deletion.
SharedHandle(path, d) == Handle(d, path # Root \/ fresh, TRUE)

\* The root of an earlier output is retained without asking for deletion.
RetainedHandle(path, d) == Handle(d, path # Root \/ fresh, FALSE)

\* Mutant: an entry that is deleted can be moved away meanwhile.
SharedCleanup(d) == Handle(d, TRUE, TRUE)

CleanupHandle(d) == Handle(d, TRUE, FALSE)

Handles ==
  {RetainedHandle(path, bound[path]) : path \in {p \in Paths : bound[p] # None}}
  \cup {CleanupHandle(stack[i].dir) : i \in DOMAIN stack}
  \cup scans

Opens(new) == Exists(new.of) /\ \A old \in Handles : old.of = new.of => Compatible(new, old)

\* Nothing may be open below a directory that is renamed.
Renamable(d, up, name) ==
  /\ Exists(d) /\ Exists(up) /\ Child(up, name) = None
  /\ up \notin Within(d)
  /\ \A h \in Handles : h.of \notin Within(d) \ {d}

\* A deleted directory stays while others have it open.
Deleted(d) ==
  IF \E h \in scans : h.of = d
  THEN pending' = pending \cup {d} /\ UNCHANGED place
  ELSE place' = [place EXCEPT ![d] = None] /\ UNCHANGED pending

Unused == {d \in Dirs : place[d] = None /\ \A w \in written : w.dir # d}
New == CHOOSE d \in Unused : TRUE
-----------------------------------------------------------------------------
Rest == [call |-> "none"]

Init ==
  /\ \E program \in Programs : fresh = program.fresh /\ calls = program.calls
  /\ IF fresh THEN place = [d \in Dirs |-> None] /\ private = {}
     ELSE /\ place = [d \in Dirs |-> IF d \in DOMAIN Earlier THEN Earlier[d] ELSE None]
          /\ private = DOMAIN Earlier
  /\ pending = {} /\ bound = [path \in Paths |-> None] /\ doing = Rest /\ stack = <<>>
  /\ scans = {} /\ written = {} /\ status = "new" /\ meddled = 0

Fails == status' = "failing" /\ doing' = Rest /\ stack' = <<>>

\* The next call begins.
Calls(call) ==
  /\ doing = Rest /\ status = "open" /\ calls # <<>>
  /\ Head(calls).call = call /\ calls' = Tail(calls)

\* Mutant: the transient open does not share deletion.
VisibleAlone(path, d) == At(path) = d /\ Opens(Handle(d, FALSE, FALSE))

\* A transient open, by the visible path, that shares deletion with the retained handle.
Visible(path, d) == At(path) = d /\ Opens(Handle(d, FALSE, TRUE))

IsRetained(path) == bound[path] # None
Retain(path, d) == bound' = [bound EXCEPT ![path] = d]

\* The root is created in the folder of outputs, or not at all.
CreateRoot ==
  /\ status = "new" /\ fresh /\ doing = Rest /\ Unused # {}
  /\ IF Child(Desk, Last(Root)) # None
     THEN status' = "failed" /\ UNCHANGED <<filesystem, bound>>
     ELSE /\ place' = [place EXCEPT ![New] = In(Desk, Last(Root))]
          /\ private' = private \cup {New} /\ Retain(Root, New) /\ status' = "open"
          /\ UNCHANGED pending
  /\ UNCHANGED <<fresh, calls, doing, stack, scans, written, meddled>>

\* An earlier output: the root is looked up, then retained.
FindRoot ==
  /\ status = "new" /\ ~fresh /\ doing = Rest
  /\ IF At(Root) = None
     THEN status' = "failed" /\ UNCHANGED doing
     ELSE /\ doing' = [call |-> "retain", queue |-> {}, listed |-> {[path |-> Root, dir |-> At(Root)]}]
          /\ UNCHANGED status
  /\ UNCHANGED <<filesystem, fresh, bound, calls, stack, scans, written, meddled>>

\* Directories are retained from the root downwards.
AboveIsRetained(path) == path = Root \/ IsRetained(Above(path))

\* The directories below the root are counted as they are retained.
WithinLimit(path) ==
  path = Root \/ Cardinality({p \in Paths : p # Root /\ IsRetained(p)}) < MaxRetained

\* What is retained is private, and is what was listed.
RetainListed ==
  /\ doing.call = "retain"
  /\ \E entry \in doing.listed :
       LET d == At(entry.path)
       IN IF /\ WithinLimit(entry.path) /\ AboveIsRetained(entry.path)
             /\ d = entry.dir /\ d \in private /\ Opens(RetainedHandle(entry.path, d))
          THEN /\ Retain(entry.path, d)
               /\ doing' = [doing EXCEPT !.listed = @ \ {entry}, !.queue = @ \cup {entry.path}]
               /\ UNCHANGED <<stack, status>>
          ELSE Fails /\ UNCHANGED bound
  /\ UNCHANGED <<filesystem, fresh, calls, scans, written, meddled>>

ListNext ==
  /\ doing.call = "retain" /\ doing.listed = {}
  /\ IF doing.queue = {}
     THEN doing' = Rest /\ status' = "open"
     ELSE /\ \E path \in doing.queue :
               doing' = [doing EXCEPT !.queue = @ \ {path},
                           !.listed = {entry \in [path : Paths, dir : Dirs] :
                                         /\ entry.path # Root /\ Above(entry.path) = path
                                         /\ place[entry.dir] = In(bound[path], Last(entry.path))}]
          /\ UNCHANGED status
  /\ UNCHANGED <<filesystem, fresh, bound, calls, stack, scans, written, meddled>>

\* secure_directory looks which directories of the path are missing, and creates them; or it
\* repairs the access control of the one that is there, and retains it.
Secure ==
  /\ Calls("secure")
  /\ LET path == Head(calls).path
         missing == {p \in Paths : (p = path \/ Below(p, path)) /\ At(p) = None}
     IN doing' = IF missing # {} THEN [call |-> "create", missing |-> missing]
                 ELSE [call |-> "repair", path |-> path]
  /\ UNCHANGED <<filesystem, fresh, bound, stack, scans, written, status, meddled>>

\* The highest one is created below the handle of the directory above it.  (What was created
\* is retained at once, so that it stays visible.)
CreateMissing ==
  /\ doing.call = "create" /\ Unused # {}
  /\ \E path \in doing.missing :
       /\ \A other \in doing.missing : Len(path) <= Len(other)
       /\ IF \/ path = Root \/ ~IsRetained(Above(path))
             \/ Child(bound[Above(path)], Last(path)) # None
          THEN Fails /\ UNCHANGED <<filesystem, bound>>
          ELSE /\ place' = [place EXCEPT ![New] = In(bound[Above(path)], Last(path))]
               /\ private' = private \cup {New} /\ Retain(path, New)
               /\ doing' = IF doing.missing = {path} THEN Rest
                           ELSE [doing EXCEPT !.missing = @ \ {path}]
               /\ UNCHANGED <<pending, stack, status>>
  /\ UNCHANGED <<fresh, calls, scans, written, meddled>>

\* The handle for the repair shares deletion exactly if the directory is retained.
Repair ==
  /\ doing.call = "repair"
  /\ LET path == doing.path
         d == At(path)
     IN IF d # None /\ Opens(Handle(d, FALSE, IsRetained(path)))
        THEN /\ private' = private \cup {d}
             /\ doing' = [call |-> "hold", path |-> path]
             /\ UNCHANGED <<stack, status>>
        ELSE Fails /\ UNCHANGED private
  /\ UNCHANGED <<place, pending, fresh, bound, calls, scans, written, meddled>>

\* What the path names then is retained, if it is private.
Hold ==
  /\ doing.call = "hold"
  /\ LET path == doing.path
         d == At(path)
         good == IF IsRetained(path) THEN Visible(path, bound[path])
                 ELSE /\ AboveIsRetained(path) /\ d # None /\ d \in private
                      /\ Opens(RetainedHandle(path, d))
     IN IF good
        THEN Retain(path, d) /\ doing' = Rest /\ UNCHANGED <<stack, status>>
        ELSE Fails /\ UNCHANGED bound
  /\ UNCHANGED <<filesystem, fresh, calls, scans, written, meddled>>

\* A file is created below the root's handle, by the names of the path.
Write ==
  /\ Calls("write")
  /\ LET path == Head(calls).path
         d == At(path)
     IN IF IsRetained(path) /\ d # None /\ Opens(Handle(d, FALSE, TRUE)) /\ d \in private
        THEN /\ written' = written \cup {[path |-> path, dir |-> d]}
             /\ UNCHANGED <<doing, stack, status>>
        ELSE Fails /\ UNCHANGED written
  /\ UNCHANGED <<filesystem, fresh, bound, scans, meddled>>
-----------------------------------------------------------------------------
(***************************************************************************)
(* Promotion.                                                              *)
(***************************************************************************)

Retained(path) == {p \in Paths : Below(path, p) /\ IsRetained(p)}

Promote ==
  /\ Calls("promote")
  /\ LET from == Head(calls).path
         to == Head(calls).to
     IN IF /\ from # Root /\ IsRetained(from) /\ Visible(from, bound[from]) /\ At(to) = None
           /\ \A p \in Retained(from) : Visible(p, bound[p])
        THEN /\ doing' = [call |-> "rename", from |-> from, to |-> to,
                          closed |-> {[path |-> p, dir |-> bound[p]] : p \in Retained(from)}]
             /\ bound' = [p \in Paths |-> IF p \in Retained(from) THEN None ELSE bound[p]]
             /\ UNCHANGED <<stack, status>>
        ELSE Fails /\ UNCHANGED bound
  /\ UNCHANGED <<filesystem, fresh, scans, written, meddled>>

Resuming(base, closed, failed) ==
  doing' = [call |-> "resume", base |-> base, closed |-> closed, failed |-> failed]

Rename ==
  /\ doing.call = "rename"
  /\ LET d == bound[doing.from]
         up == bound[Above(doing.to)]
     IN IF Visible(Above(doing.to), up) /\ Renamable(d, up, Last(doing.to))
        THEN /\ place' = [place EXCEPT ![d] = In(up, Last(doing.to))]
             /\ doing' = [doing EXCEPT !.call = "rebind"]
        ELSE /\ Resuming(doing.from, doing.closed, TRUE)
             /\ UNCHANGED place
  /\ UNCHANGED <<pending, private, fresh, bound, calls, stack, scans, written, status, meddled>>

Rebind ==
  /\ doing.call = "rebind"
  /\ IF At(doing.from) # None
     THEN Fails /\ UNCHANGED <<bound, written>>
     ELSE /\ bound' = [bound EXCEPT ![doing.from] = None, ![doing.to] = bound[doing.from]]
          /\ LET Moved(path) == Replaced(path, doing.from, doing.to)
             IN /\ Resuming(doing.to, {[path |-> Moved(c.path), dir |-> c.dir] : c \in doing.closed}, FALSE)
                /\ written' = {IF w.path = doing.from \/ Below(doing.from, w.path)
                               THEN [w EXCEPT !.path = Moved(@)] ELSE w : w \in written}
          /\ UNCHANGED <<stack, status>>
  /\ UNCHANGED <<filesystem, fresh, calls, scans, meddled>>

\* Mutant: what is opened again is not compared with what was closed.
IsWhateverIsThere(closed, d) == d # None

IsWhatWasClosed(closed, d) == d = closed.dir

Resume ==
  /\ doing.call = "resume"
  /\ \E c \in doing.closed :
       /\ \A other \in doing.closed : Len(c.path) <= Len(other.path)
       /\ LET d == At(c.path)
          IN IF d # None /\ Opens(RetainedHandle(c.path, d)) /\ d \in private /\ IsWhatWasClosed(c, d)
             THEN /\ Retain(c.path, d)
                  /\ doing' = [doing EXCEPT !.closed = @ \ {c}]
                  /\ UNCHANGED <<stack, status>>
             ELSE Fails /\ UNCHANGED bound
  /\ UNCHANGED <<filesystem, fresh, calls, scans, written, meddled>>

Promoted ==
  /\ doing.call = "resume" /\ doing.closed = {}
  /\ IF ~doing.failed /\ Visible(doing.base, bound[doing.base])
     THEN doing' = Rest /\ UNCHANGED <<stack, status>> ELSE Fails
  /\ UNCHANGED <<filesystem, fresh, bound, calls, scans, written, meddled>>
-----------------------------------------------------------------------------
(***************************************************************************)
(* Temporary directories, and the end.                                     *)
(***************************************************************************)

Level(d) == [dir |-> d, todo |-> Entries(d)]

CleanedUp(path) == ~IsRetained(path) \/ \E p \in Retained(path) \cup {path} : ~Visible(p, bound[p])

\* Also when a call failed: the deletion is in a finally clause.
DeleteTree ==
  /\ doing = Rest
  /\ \E path \in Temporary :
       /\ \/ Calls("delete") /\ Head(calls).path = path
          \/ status = "failing" /\ ~CleanedUp(path) /\ UNCHANGED calls
       /\ IF CleanedUp(path) THEN Fails /\ UNCHANGED <<bound, written>>
          ELSE /\ bound' = [p \in Paths |-> IF p \in Retained(path) \cup {path} THEN None ELSE bound[p]]
               /\ stack' = <<Level(bound[path])>>
               /\ doing' = [call |-> "delete", path |-> path]
               /\ written' = {w \in written : w.path # path /\ ~Below(path, w.path)}
               /\ UNCHANGED status
  /\ UNCHANGED <<filesystem, fresh, scans, meddled>>

\* An entry is opened below its parent's handle, and must be what was listed.
DeleteEntry ==
  /\ doing.call = "delete" /\ stack # <<>>
  /\ LET top == Last(stack)
     IN \E entry \in top.todo :
          IF Child(top.dir, entry.name) = entry.dir /\ Opens(Handle(entry.dir, TRUE, FALSE))
          THEN /\ stack' = Append(Front(stack), [top EXCEPT !.todo = @ \ {entry}]) \o <<Level(entry.dir)>>
               /\ UNCHANGED <<doing, status>>
          ELSE Fails
  /\ UNCHANGED <<filesystem, fresh, bound, calls, scans, written, meddled>>

\* A directory is deleted once it is empty.
DeleteEmptied ==
  /\ doing.call = "delete" /\ stack # <<>> /\ Last(stack).todo = {}
  /\ LET d == Last(stack).dir
     IN IF Entries(d) = {}
        THEN /\ Deleted(d) /\ stack' = Front(stack)
             /\ UNCHANGED <<doing, status>>
        ELSE Fails /\ UNCHANGED <<place, pending>>
  /\ UNCHANGED <<private, fresh, bound, calls, scans, written, meddled>>

TreeDeleted ==
  /\ doing.call = "delete" /\ stack = <<>>
  /\ IF At(doing.path) = None THEN doing' = Rest /\ UNCHANGED <<stack, status>> ELSE Fails
  /\ UNCHANGED <<filesystem, fresh, bound, calls, scans, written, meddled>>

\* An empty directory is deleted through the handle that retains it; not the root.
RemoveEmpty ==
  /\ Calls("remove")
  /\ LET path == Head(calls).path
         d == bound[path]
     IN IF path # Root /\ IsRetained(path) /\ Retained(path) = {} /\ Visible(path, d) /\ Entries(d) = {}
        THEN /\ Deleted(d) /\ bound' = [bound EXCEPT ![path] = None]
             /\ doing' = [call |-> "delete", path |-> path]
             /\ UNCHANGED <<stack, status>>
        ELSE Fails /\ UNCHANGED <<place, pending, bound>>
  /\ UNCHANGED <<private, fresh, scans, written, meddled>>

\* Whatever was retained is compared with what is visible, and closed.
Close ==
  /\ doing = Rest
  /\ \/ status = "open" /\ calls = <<>>
     \/ status = "failing" /\ \A path \in Temporary : CleanedUp(path)
  /\ status' = IF status = "open" /\ \A p \in Paths : IsRetained(p) => Visible(p, bound[p])
               THEN "succeeded" ELSE "failed"
  /\ bound' = [p \in Paths |-> None]
  /\ UNCHANGED <<filesystem, fresh, calls, doing, stack, scans, written, meddled>>
-----------------------------------------------------------------------------
(***************************************************************************)
(* Other programs.                                                         *)
(***************************************************************************)

Ended == status \in {"succeeded", "failed"}
Meddle == ~Ended /\ meddled < MaxMeddling /\ meddled' = meddled + 1
ours == <<fresh, bound, calls, doing, stack, written, status>>

Make(up, name) ==
  /\ Meddle /\ Exists(up) /\ Child(up, name) = None /\ Cardinality(Unused) > 1
  /\ place' = [place EXCEPT ![New] = In(up, name)]
  /\ UNCHANGED <<pending, private, scans, ours>>

Move(d, up, name) ==
  /\ Meddle
  /\ Opens(Handle(d, TRUE, TRUE)) /\ Renamable(d, up, name)
  /\ place' = [place EXCEPT ![d] = In(up, name)]
  /\ UNCHANGED <<pending, private, scans, ours>>

Scan(d, share) ==
  /\ Meddle /\ Opens(Handle(d, FALSE, share))
  /\ scans' = scans \cup {Handle(d, FALSE, share)}
  /\ UNCHANGED <<filesystem, ours>>

EndScan(h) ==
  /\ ~Ended /\ h \in scans
  /\ scans' = scans \ {h}
  /\ IF h.of \in pending /\ \A other \in scans' : other.of # h.of
     THEN place' = [place EXCEPT ![h.of] = None] /\ pending' = pending \ {h.of}
     ELSE UNCHANGED <<place, pending>>
  /\ UNCHANGED <<private, ours, meddled>>

Recovery ==
  \/ CreateRoot \/ FindRoot \/ RetainListed \/ ListNext
  \/ CreateMissing \/ Repair \/ Hold
  \/ Secure \/ Write \/ Promote \/ Rename \/ Rebind \/ Resume \/ Promoted
  \/ DeleteTree \/ DeleteEntry \/ DeleteEmptied \/ TreeDeleted \/ RemoveEmpty \/ Close

Others ==
  \/ \E up \in Dirs \cup {Desk}, name \in OtherNames :
       Make(up, name) \/ \E d \in Dirs : Move(d, up, name)
  \/ \E d \in Dirs, share \in BOOLEAN : Scan(d, share)
  \/ \E h \in scans : EndScan(h)

Next == Recovery \/ Others \/ (Ended /\ UNCHANGED retainedVars)

Spec == Init /\ [][Next]_retainedVars
-----------------------------------------------------------------------------
Bindings == [path : Paths, dir : Dirs]
Doings ==
  {Rest}
  \cup [call : {"retain"}, queue : SUBSET Paths, listed : SUBSET Bindings]
  \cup [call : {"create"}, missing : SUBSET Paths]
  \cup [call : {"repair", "hold", "delete"}, path : Paths]
  \cup [call : {"rename", "rebind"}, from : Paths, to : Paths, closed : SUBSET Bindings]
  \cup [call : {"resume"}, base : Paths, closed : SUBSET Bindings, failed : BOOLEAN]

TypeOK ==
  /\ place \in [Dirs -> [up : Dirs \cup {Desk}, name : STRING] \cup {None}]
  /\ pending \subseteq Dirs /\ private \subseteq Dirs /\ fresh \in BOOLEAN
  /\ bound \in [Paths -> Dirs \cup {None}]
  /\ calls \in Seq(Requests) /\ doing \in Doings
  /\ stack \in Seq([dir : Dirs, todo : SUBSET [dir : Dirs, name : STRING]])
  /\ scans \subseteq [of : Dirs, delete : {FALSE}, share : BOOLEAN]
  /\ written \subseteq Bindings
  /\ status \in {"new", "open", "failing", "succeeded", "failed"}
  /\ meddled \in 0..MaxMeddling

\* While a recovery has not failed, each retained directory is where its path says, and so
\* is the directory above it: no other program moved or replaced one.  (Between a renaming
\* and the rebinding a directory has its old path.)
RetainedInPlace ==
  status # "failing" =>
    \A path \in Paths :
      IsRetained(path) /\ ~(doing.call = "rebind" /\ path = doing.from) =>
        /\ place[bound[path]] = In(IF path = Root THEN Desk ELSE bound[Above(path)], Last(path))
        /\ path # Root => IsRetained(Above(path))

\* When a recovery succeeds, each directory it wrote to is where it promoted it to, although
\* the handles below a promoted directory were closed for a while.
WrittenIsReachable ==
  status = "succeeded" => \A w \in written : Exists(w.dir) => At(w.path) = w.dir

\* What is deleted is in the temporary tree, then too, and not just when it was listed; or
\* it is an empty directory that is retained.
OnlyTheTreeIsDeleted ==
  [][\A d \in Dirs :
       Exists(d) /\ ~Exists(d)' =>
         \/ stack # <<>> /\ d \in Within(Head(stack).dir)
         \/ \E path \in Paths : bound[path] = d /\ Entries(d) = {}]_retainedVars

\* A recovery fails only if another program did something, or if the earlier output has more
\* directories than are retained: its own handles never stand in its way.  (The second is no
\* one's doing: an extraction may make as many, and is then not analysed.)
FailsForCause ==
  status \in {"failing", "failed"} =>
    meddled > 0 \/ (~fresh /\ Cardinality(DOMAIN Earlier) > MaxRetained + 1)
=============================================================================
