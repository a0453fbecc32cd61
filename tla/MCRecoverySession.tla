------------------------- MODULE MCRecoverySession -------------------------
(***************************************************************************)
(* The session in three scopes.  In one an acquisition or a preflight      *)
(* comes first, and a preflight or a recovery second, with lagging views,  *)
(* both callers and every end of an operation.  Another has a third        *)
(* operation and a second backup, for receipts and folders of an earlier   *)
(* selection, and only its own cancel button and final events.  In the     *)
(* last an acquisition follows a preflight, and a destination may be       *)
(* refused.  MCPrompt is one acquisition.                                  *)
(***************************************************************************)
EXTENDS RecoverySession

MCAll == {"progress", "completed", "failed", "cancelled", "error", "unsafe"}
MCScopes ==
  {[routes |-> <<{"recover", "acquire"} \X {1}, {<<"recover", 2>>}>>, viewsLag |-> TRUE,
    callers |-> {"window", "quit"}, outcomes |-> MCAll \ {"unsafe"}],
   [routes |-> <<{<<"recover", 1>>}, {<<"recover", 2>>}, {}>>, viewsLag |-> FALSE,
    callers |-> {}, outcomes |-> {"completed", "failed", "cancelled"}],
   [routes |-> <<{<<"recover", 1>>}, {<<"acquire", 2>>}>>, viewsLag |-> TRUE,
    callers |-> {}, outcomes |-> {"completed", "failed", "unsafe"}]}
MCPrompt ==
  {[routes |-> <<{<<"acquire", 1>>}>>, viewsLag |-> TRUE, callers |-> {"window", "quit"},
    outcomes |-> MCAll]}
=============================================================================
