--------------------------- MODULE CommitDecision ---------------------------
(***************************************************************************)
(* What tvtime_extractor promises about the race between cancelling a      *)
(* recovery and committing its final directory: there is one decision, it  *)
(* is taken at most once, and nobody can take it back.  The promise is the *)
(* docstring of CancellationToken.seal_for_commit in                       *)
(* tvtime_extractor/models.py; CancellationToken.tla and RecoveryHelper.tla *)
(* implement it.                                                           *)
(***************************************************************************)

VARIABLE decision   \* "open" until either side wins

TypeOK == decision \in {"open", "cancelled", "committed"}

Init == decision = "open"

Cancel ==
  /\ decision = "open"
  /\ decision' = "cancelled"

Commit ==
  /\ decision = "open"
  /\ decision' = "committed"

Next == Cancel \/ Commit

Spec == Init /\ [][Next]_decision
=============================================================================
