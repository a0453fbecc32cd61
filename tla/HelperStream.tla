---------------------------- MODULE HelperStream ----------------------------
(***************************************************************************)
(* What protocol RecoveryHelperClient promises its user: one helper at a   *)
(* time, and for each run a stream of events that ends once, with the      *)
(* terminal event behind all others, or with an error.  A run that was     *)
(* cancelled does end.  HelperClient implements it, RecoverySession is     *)
(* built on it.                                                            *)
(***************************************************************************)
EXTENDS Naturals, Sequences

CONSTANTS MaxRuns,    \* bound: runs of a helper
          Capacity    \* events the stream buffers

VARIABLES
  current,     \* the run whose helper is active, or 0
  stream,      \* stream[r]: events buffered for the consumer
  consumer,    \* consumer[r]: "none", "iterating" or "cancelled"
  result,      \* result[r]: how its stream ended: "none", a kind, or "error"
  asked        \* the runs somebody asked to cancel

vars == <<current, stream, consumer, result, asked>>

Runs == 1..MaxRuns
Kinds == {"completed", "failed", "cancelled"}

Init ==
  /\ current = 0
  /\ stream = [r \in Runs |-> <<>>]
  /\ consumer = [r \in Runs |-> "none"]
  /\ result = [r \in Runs |-> "none"]
  /\ asked = {}

Yielded(r, e) ==
  IF consumer[r] = "iterating"
  THEN [stream EXCEPT ![r] = Append(IF Len(@) < Capacity THEN @ ELSE Tail(@), e)]
  ELSE stream

Begin(r) ==
  /\ current = 0
  /\ consumer[r] = "none"
  /\ current' = r
  /\ consumer' = [consumer EXCEPT ![r] = "iterating"]
  /\ UNCHANGED <<stream, result, asked>>

Progress(r) ==
  /\ current = r
  /\ stream' = Yielded(r, "progress")
  /\ UNCHANGED <<current, consumer, result, asked>>

Ends(r, end) ==
  /\ current' = 0
  /\ result' = [result EXCEPT ![r] = end]
  /\ stream' = IF end = "error" THEN stream ELSE Yielded(r, end)

End(r, end) ==
  /\ current = r
  /\ Ends(r, end)
  /\ UNCHANGED <<consumer, asked>>

\* Whoever cancels a run may find that its helper is gone, which ends it.
Cancel ==
  /\ current # 0
  /\ asked' = asked \cup {current}
  /\ \/ UNCHANGED <<current, result, stream>>
     \/ \E end \in Kinds \cup {"error"} : Ends(current, end)
  /\ UNCHANGED consumer

Take(r) ==
  /\ consumer[r] = "iterating"
  /\ stream[r] # <<>>
  /\ stream' = [stream EXCEPT ![r] = Tail(@)]
  /\ UNCHANGED <<current, consumer, result, asked>>

\* The consumer's task is cancelled.
Stop(r) ==
  /\ consumer[r] = "iterating"
  /\ consumer' = [consumer EXCEPT ![r] = "cancelled"]
  /\ stream' = [stream EXCEPT ![r] = <<>>]
  /\ asked' = asked \cup {r}
  /\ UNCHANGED <<current, result>>

EndAny(r) == \E end \in Kinds \cup {"error"} : End(r, end)

Next ==
  \/ Cancel
  \/ \E r \in Runs : Begin(r) \/ Progress(r) \/ EndAny(r) \/ Take(r) \/ Stop(r)

Spec ==
  /\ Init /\ [][Next]_vars
  /\ \A r \in Runs : WF_vars(r \in asked /\ EndAny(r))
=============================================================================
