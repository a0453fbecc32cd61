------------------------- MODULE MCCancellationToken -------------------------
(***************************************************************************)
(* One helper process: the main thread, its control reader and any number  *)
(* of signals.                                                             *)
(***************************************************************************)
EXTENDS CancellationToken
=============================================================================
