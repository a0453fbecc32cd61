--------------------------- MODULE MCHelperClient ---------------------------
(***************************************************************************)
(* Two runs of the helper, one after the other.  The first helper writes   *)
(* up to two frames, which is enough for an event behind the terminal one; *)
(* the second is there for the tasks that the first run left behind.       *)
(***************************************************************************)
EXTENDS HelperClient

MCMaxFrames == <<2, 0>>
=============================================================================
