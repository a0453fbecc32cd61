---------------------------- MODULE MCAcquisition ----------------------------
(***************************************************************************)
(* An instance of CapturedRecovery: two phones, one required database and  *)
(* one sidecar, in one of two places; archives that are whole, cut,        *)
(* without an optional member, with a repeated or irregular one, with a    *)
(* bad header; exports that are whole or lack what each check looks for.   *)
(***************************************************************************)
EXTENDS CapturedRecovery

M(name, content) == [name |-> name, regular |-> TRUE, content |-> content]

Whole == [header |-> "supported", compressed |-> TRUE, cut |-> "no",
          members |-> <<M("dio", "v1"), M("wal", "v1")>>]
Plain == [Whole EXCEPT !.compressed = FALSE]
Cuts(a) == {CutAt(a, n, cut) : n \in 1..1, cut \in {"boundary", "inside"}}

MCArchives ==
  Cuts(Whole) \cup Cuts(Plain) \cup
  {Whole, Plain,
   [Whole EXCEPT !.members = <<M("wal", "empty"), M("other", "v1"), M("dio", "v2")>>],
   [Whole EXCEPT !.members = <<M("dio", "v1"), M("dio", "v2")>>],
   [Whole EXCEPT !.members[2] = [M("wal", "v1") EXCEPT !.regular = FALSE]],
   [Whole EXCEPT !.header = "malformed"]}

X == [files |-> {"records", "records-v2"}, repeated |-> FALSE, encrypted |-> FALSE, supported |-> TRUE]

MCExports == {X, [X EXCEPT !.files = {"records"}, !.encrypted = TRUE], [X EXCEPT !.repeated = TRUE],
              [X EXCEPT !.supported = FALSE], [X EXCEPT !.files = {}]}

MCHeld == [p \in Phones |-> IF p = "p1" THEN Whole ELSE Plain]

MCInstalled ==
  {[p \in Phones |-> IF p = "p1" THEN f ELSE g] :
     <<f, g>> \in {<<"candidate", "modern_release_app">>, <<"missing", "candidate">>}}
=============================================================================
