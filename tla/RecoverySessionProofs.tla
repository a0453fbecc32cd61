------------------------ MODULE RecoverySessionProofs ------------------------
(***************************************************************************)
(* Proofs about RecoverySession: what is shown as a success was validated, *)
(* a recovery is asked for what was checked, no output folder is given out *)
(* twice, an application that quits leaves nothing behind, and nobody is   *)
(* let go without a confirmation.                                          *)
(*                                                                         *)
(* The argument is that the operations follow each other.  The phase is    *)
(* busy exactly while the last operation is not settled (Present); one     *)
(* that is settled has handled all its stream will ever hold (Past), so    *)
(* that its task, which may still be there when the next operation         *)
(* starts, changes nothing any more.                                       *)
(***************************************************************************)
EXTENDS RecoverySession, FiniteSetTheorems, WellFoundedInduction, TLAPS

Ends == {"completed", "failed", "cancelled"}
Events == Ends \cup {"progress"}

ClientTyped ==
  /\ current \in Ops \cup {0}
  /\ stream \in [Ops -> Seq(Events)]
  /\ consumer \in [Ops -> {"none", "iterating", "cancelled"}]
  /\ result \in [Ops -> Ends \cup {"none", "error"}]
  /\ asked \subseteq Ops

\* The operations are numbered as they start.
Numbered == Last \in 0..MaxOps /\ Started = 1..Last

\* Nothing is known of an operation that was not started.
Future ==
  \A o \in Ops : o > Last =>
    /\ consumer[o] = "none" /\ stream[o] = <<>> /\ result[o] = "none" /\ task[o] = "none"
    /\ o \notin asked \cup session.stopped \cup creators \cup confirmed /\ session.operationTask # o

\* Behind the terminal event of a settled operation there is nothing to handle.
Settled(o) ==
  /\ result[o] # "none"
  /\ task[o] = "done" \/ (task[o] = "iterating" /\ stream[o] = <<>> /\ result[o] \in Ends)

Past == \A o \in 1..Last : o # Last \/ ~Busy(session.phase) => Settled(o)

\* The events of an operation whose end was not handled.
PendingIn(events, end) ==
  IF end \in Ends
  THEN /\ events # <<>> /\ events[Len(events)] = end
       /\ \A i \in 1..(Len(events) - 1) : events[i] = "progress"
  ELSE \A i \in 1..Len(events) : events[i] = "progress"

\* The operation under way.
Present ==
  Busy(session.phase) =>
    /\ Last # 0 /\ consumer[Last] = "iterating" /\ Last \notin session.stopped
    /\ session.output = request[Last].output
    /\ session.activeAction = "preflight" => request[Last].action = "preflight"
    /\ \/ /\ task[Last] = "iterating" /\ session.phase # "validating"
          /\ PendingIn(stream[Last], result[Last])
          /\ session.source = request[Last].source
       \/ /\ task[Last] = "validating" /\ session.phase \in {"validating", "cancelling"}
          /\ stream[Last] = <<>> /\ result[Last] = "completed" /\ request[Last].action # "preflight"

Confirmations ==
  Busy(session.phase) =>
    /\ session.cancellationSignalSent <=> Last \in confirmed
    /\ Last \in asked => Last \in confirmed
    /\ session.phase = "cancelling" => Last \in confirmed

ClientRuns ==
  current # 0 => current = Last /\ Busy(session.phase) /\ result[Last] = "none" /\ task[Last] = "iterating"

Creators == \A o \in creators : o \in 1..Last /\ request[o].action # "preflight"

Success ==
  session.phase \in Done =>
    /\ Last # 0 /\ result[Last] = "completed" /\ validator[Last] = "passed"
    /\ Last \notin confirmed \cup asked \cup session.stopped
    /\ session.output = request[Last].output

\* What the user sees checked is the last operation.
Checked ==
  session.phase = "confirm" =>
    /\ Last # 0 /\ session.receipt = Last /\ result[Last] = "completed"
    /\ request[Last] = [action |-> "preflight", source |-> session.source,
                        output |-> session.output, receipt |-> 0]

Preflights == \A o \in 1..Last : request[o].action = "preflight" => request[o].receipt = 0

\* A recovery is asked for with the receipt of the preflight before it.
Requested ==
  \A o \in Started : request[o].action = "recover" =>
    LET p == request[o].receipt
    IN /\ p = o - 1 /\ p \in Started /\ result[p] = "completed"
       /\ request[p] = [action |-> "preflight", source |-> request[o].source,
                        output |-> request[o].output, receipt |-> 0]

\* The same preflight may be tried again, since it created nothing.
CancelledPreflight ==
  session.phase = "failed" /\ session.failure = "preflight_cancelled" =>
    Last # 0 /\ request[Last].action = "preflight" /\ session.output = request[Last].output

QuitWhenIdle == session.quit = "terminated" => ~Busy(session.phase)

IInv ==
  /\ TypeOK /\ ClientTyped /\ Numbered /\ Future /\ Past /\ Present /\ Confirmations
  /\ ClientRuns /\ Creators /\ Success /\ Checked /\ Preflights /\ CancelledPreflight
  /\ QuitWhenIdle /\ Requested /\ OutputIsFresh /\ RecoveryWins
-----------------------------------------------------------------------------
(***************************************************************************)
(* The session's private methods, from a session to a session.             *)
(***************************************************************************)

\* What the argument about the operations tells apart in a session.
Core(s) == <<s.phase, s.failure, s.source, s.output, s.receipt, s.activeAction,
             s.cancellationSignalSent, s.operationTask, s.stopped>>

\* Only a confirmation lets a caller go, and nothing else terminates.
Grants(s, t) == (t.quit = "waiting" /\ s.quit # "waiting") \/ (t.closeWhenSafe /\ ~s.closeWhenSafe)

Settles(s, t, yes) ==
  /\ t \in Sessions
  /\ t.quit = "terminated" => s.quit = "terminated"
  /\ Grants(s, t) => yes

\* A session is a session, whichever of its fields is set.
LEMMA Setters ==
  ASSUME NEW s \in Sessions
  PROVE  /\ \A v \in Phases : [s EXCEPT !.phase = v] \in Sessions
         /\ \A v \in Failures \cup {"none"} : [s EXCEPT !.failure = v] \in Sessions
         /\ \A v \in Sources \cup {0} : [s EXCEPT !.source = v] \in Sessions
         /\ \A v \in Outputs \cup {0} : [s EXCEPT !.output = v] \in Sessions
         /\ \A v \in Ops \cup {0} : [s EXCEPT !.receipt = v] \in Sessions
         /\ \A v \in {"none", "preflight", "recover"} : [s EXCEPT !.activeAction = v] \in Sessions
         /\ \A v \in BOOLEAN : [s EXCEPT !.isAcquisitionRoute = v] \in Sessions
         /\ \A v \in BOOLEAN : [s EXCEPT !.cancellationSignalSent = v] \in Sessions
         /\ \A v \in {"none", "cancelButton", "windowClose", "applicationQuit"} : [s EXCEPT !.prompt = v] \in Sessions
         /\ \A v \in SUBSET {"window", "quit"} : [s EXCEPT !.handlers = v] \in Sessions
         /\ \A v \in Ops \cup {0} : [s EXCEPT !.operationTask = v] \in Sessions
         /\ \A v \in SUBSET Ops : [s EXCEPT !.stopped = v] \in Sessions
         /\ \A v \in Ops \cup {0} : [s EXCEPT !.validationTask = v] \in Sessions
         /\ \A v \in SUBSET Ops : [s EXCEPT !.leases = v] \in Sessions
         /\ \A v \in Ops \cup {0} : [s EXCEPT !.retained = v] \in Sessions
         /\ \A v \in BOOLEAN : [s EXCEPT !.closeRequestPending = v] \in Sessions
         /\ \A v \in BOOLEAN : [s EXCEPT !.closeWhenSafe = v] \in Sessions
         /\ \A v \in {"no", "asked", "waiting", "terminated"} : [s EXCEPT !.quit = v] \in Sessions
<1>1. \A v \in Phases : [s EXCEPT !.phase = v] \in Sessions
  BY DEF Sessions
<1>2. \A v \in Failures \cup {"none"} : [s EXCEPT !.failure = v] \in Sessions
  BY DEF Sessions
<1>3. \A v \in Sources \cup {0} : [s EXCEPT !.source = v] \in Sessions
  BY DEF Sessions
<1>4. \A v \in Outputs \cup {0} : [s EXCEPT !.output = v] \in Sessions
  BY DEF Sessions
<1>5. \A v \in Ops \cup {0} : [s EXCEPT !.receipt = v] \in Sessions
  BY DEF Sessions
<1>6. \A v \in {"none", "preflight", "recover"} : [s EXCEPT !.activeAction = v] \in Sessions
  BY DEF Sessions
<1>7. \A v \in BOOLEAN : [s EXCEPT !.isAcquisitionRoute = v] \in Sessions
  BY DEF Sessions
<1>8. \A v \in BOOLEAN : [s EXCEPT !.cancellationSignalSent = v] \in Sessions
  BY DEF Sessions
<1>9. \A v \in {"none", "cancelButton", "windowClose", "applicationQuit"} : [s EXCEPT !.prompt = v] \in Sessions
  BY DEF Sessions
<1>10. \A v \in SUBSET {"window", "quit"} : [s EXCEPT !.handlers = v] \in Sessions
  BY DEF Sessions
<1>11. \A v \in Ops \cup {0} : [s EXCEPT !.operationTask = v] \in Sessions
  BY DEF Sessions
<1>12. \A v \in SUBSET Ops : [s EXCEPT !.stopped = v] \in Sessions
  BY DEF Sessions
<1>13. \A v \in Ops \cup {0} : [s EXCEPT !.validationTask = v] \in Sessions
  BY DEF Sessions
<1>14. \A v \in SUBSET Ops : [s EXCEPT !.leases = v] \in Sessions
  BY DEF Sessions
<1>15. \A v \in Ops \cup {0} : [s EXCEPT !.retained = v] \in Sessions
  BY DEF Sessions
<1>16. \A v \in BOOLEAN : [s EXCEPT !.closeRequestPending = v] \in Sessions
  BY DEF Sessions
<1>17. \A v \in BOOLEAN : [s EXCEPT !.closeWhenSafe = v] \in Sessions
  BY DEF Sessions
<1>18. \A v \in {"no", "asked", "waiting", "terminated"} : [s EXCEPT !.quit = v] \in Sessions
  BY DEF Sessions
<1> QED BY <1>1, <1>2, <1>3, <1>4, <1>5, <1>6, <1>7, <1>8, <1>9, <1>10, <1>11, <1>12, <1>13, <1>14, <1>15, <1>16, <1>17, <1>18

LEMMA AnswerIs ==
  ASSUME NEW s \in Sessions, NEW who \in SUBSET {"window", "quit"}, NEW yes \in BOOLEAN
  PROVE  LET t == Answer(s, who, yes)
         IN Settles(s, t, yes) /\ Core(t) = Core(s) /\ t.prompt = s.prompt /\ t.handlers = s.handlers
<1> DEFINE quit == IF "quit" \in who THEN IF yes THEN "waiting" ELSE "no" ELSE s.quit
           pending == s.closeRequestPending /\ "window" \notin who
           close == IF "window" \in who THEN yes /\ Busy(Shown) ELSE s.closeWhenSafe
           t == Answer(s, who, yes)
<1>0. /\ quit \in {"no", "asked", "waiting", "terminated"}
      /\ pending \in BOOLEAN /\ close \in BOOLEAN
  BY DEF Sessions, Busy
<1>1. t \in Sessions
  <2>1. t = [s EXCEPT !.quit = quit, !.closeRequestPending = pending, !.closeWhenSafe = close]
    BY DEF Answer
  <2> HIDE DEF quit, pending, close, t
  <2> QED BY <1>0, <2>1, Setters
<1>2. /\ t.quit = IF "quit" \in who THEN IF yes THEN "waiting" ELSE "no" ELSE s.quit
      /\ t.closeWhenSafe = IF "window" \in who THEN yes /\ Busy(Shown) ELSE s.closeWhenSafe
      /\ t.prompt = s.prompt /\ t.handlers = s.handlers
  BY DEF Answer, Sessions
<1>3. Core(t) = Core(s)
  BY DEF Answer, Sessions, Core
<1> HIDE DEF t
<1>4. Settles(s, t, yes)
  BY <1>1, <1>2 DEF Settles, Grants
<1> QED BY <1>2, <1>3, <1>4 DEF t

LEMMA ResolvePromptIs ==
  ASSUME NEW s \in Sessions, NEW yes \in BOOLEAN
  PROVE  LET t == ResolvePrompt(s, yes)
         IN Settles(s, t, yes) /\ Core(t) = Core(s) /\ t.prompt = "none" /\ t.handlers = {}
<1> DEFINE r == Answer(s, s.handlers, yes)
           t == [r EXCEPT !.prompt = "none", !.handlers = {}]
<1>1. s.handlers \in SUBSET {"window", "quit"}
  BY DEF Sessions
<1>2. Settles(s, r, yes) /\ Core(r) = Core(s)
  BY <1>1, AnswerIs
<1> HIDE DEF r
<1>3. r \in Sessions
  BY <1>2 DEF Settles
<1>4. /\ t \in Sessions /\ Core(t) = Core(r) /\ t.prompt = "none" /\ t.handlers = {}
      /\ t.quit = r.quit /\ t.closeWhenSafe = r.closeWhenSafe
  <2>1. t \in Sessions
    BY <1>3, Setters
  <2>2. /\ t.prompt = "none" /\ t.handlers = {}
        /\ t.quit = r.quit /\ t.closeWhenSafe = r.closeWhenSafe
    BY <1>3 DEF Sessions
  <2>3. Core(t) = Core(r)
    BY <1>3 DEF Sessions, Core
  <2> QED BY <2>1, <2>2, <2>3
<1>5. t = ResolvePrompt(s, yes)
  BY DEF ResolvePrompt, r
<1> HIDE DEF t
<1>6. Settles(s, t, yes)
  BY <1>2, <1>4 DEF Settles, Grants
<1> QED BY <1>2, <1>4, <1>5, <1>6

LEMMA Names ==
  /\ {"chooseBackup", "confirm", "failed", "completed", "acquisitionCompleted", "preflighting",
      "running", "validating", "cancelling"} = Phases
  /\ ~Busy("chooseBackup") /\ ~Busy("confirm") /\ ~Busy("failed")
  /\ ~Busy("completed") /\ ~Busy("acquisitionCompleted")
  /\ \A phase \in Phases : ~Busy(phase) => phase \in {"chooseBackup", "confirm", "failed"} \cup Done
  /\ Client!Runs = Ops /\ Client!Kinds = Ends
BY DEF Phases, Done, Busy, Client!Runs, Ops, Client!Kinds, Ends

LEMMA FailedIs ==
  ASSUME NEW s \in Sessions, NEW code \in Failures
  PROVE  LET t == Failed(s, code)
         IN /\ Settles(s, t, FALSE) /\ t.phase = "failed" /\ t.failure = code
            /\ t.output = s.output /\ t.operationTask = s.operationTask /\ t.stopped = s.stopped
            /\ t.prompt = "none" /\ t.handlers = {}
<1> DEFINE r == CancelInterruptions(s)
           t == [r EXCEPT !.receipt = 0, !.phase = "failed", !.failure = code]
<1>1. /\ Settles(s, r, FALSE) /\ Core(r) = Core(s) /\ r \in Sessions
      /\ r.prompt = "none" /\ r.handlers = {}
  BY ResolvePromptIs DEF CancelInterruptions, Settles
<1> HIDE DEF r
<1>2. /\ t \in Sessions /\ t.phase = "failed" /\ t.failure = code
      /\ t.output = r.output /\ t.operationTask = r.operationTask /\ t.stopped = r.stopped
      /\ t.prompt = r.prompt /\ t.handlers = r.handlers
      /\ t.quit = r.quit /\ t.closeWhenSafe = r.closeWhenSafe
  <2>1. t \in Sessions
    BY <1>1, Setters, Names
  <2> QED BY <1>1, <2>1 DEF Sessions
<1>3. t = Failed(s, code)
  BY DEF Failed, r
<1> HIDE DEF t
<1>4. Settles(s, t, FALSE)
  BY <1>1, <1>2 DEF Settles, Grants
<1> QED BY <1>1, <1>2, <1>3, <1>4 DEF Core

LEMMA FailSafelyIs ==
  ASSUME NEW s \in Sessions, NEW code \in Failures
  PROVE  LET t == FailSafely(s, code)
         IN /\ Settles(s, t, FALSE) /\ t.phase = "failed" /\ t.failure = code
            /\ t.output = s.output /\ t.operationTask = s.operationTask /\ t.stopped = s.stopped
            /\ t.prompt = "none" /\ t.handlers = {}
<1> DEFINE r == Failed(s, code)
           t == [r EXCEPT !.activeAction = "none"]
<1>1. /\ Settles(s, r, FALSE) /\ r \in Sessions /\ r.phase = "failed" /\ r.failure = code
      /\ r.output = s.output /\ r.operationTask = s.operationTask /\ r.stopped = s.stopped
      /\ r.prompt = "none" /\ r.handlers = {}
  BY FailedIs DEF Settles
<1> HIDE DEF r
<1>2. /\ t \in Sessions /\ t.phase = r.phase /\ t.failure = r.failure
      /\ t.output = r.output /\ t.operationTask = r.operationTask /\ t.stopped = r.stopped
      /\ t.prompt = r.prompt /\ t.handlers = r.handlers
      /\ t.quit = r.quit /\ t.closeWhenSafe = r.closeWhenSafe
  <2>1. t \in Sessions
    BY <1>1, Setters
  <2> QED BY <1>1, <2>1 DEF Sessions
<1>3. t = FailSafely(s, code)
  BY DEF FailSafely, r
<1> HIDE DEF t
<1>4. Settles(s, t, FALSE)
  BY <1>1, <1>2 DEF Settles, Grants
<1> QED BY <1>1, <1>2, <1>3, <1>4

LEMMA PrepareIs ==
  ASSUME NEW s \in Sessions
  PROVE  LET t == PrepareForOperation(s)
         IN /\ Settles(s, t, FALSE) /\ t.phase = s.phase /\ ~t.cancellationSignalSent
            /\ t.source = s.source /\ t.output = s.output /\ t.receipt = s.receipt
            /\ t.operationTask = s.operationTask /\ t.stopped = s.stopped
<1> DEFINE r == ResolvePrompt(s, FALSE)
           t == [r EXCEPT !.cancellationSignalSent = FALSE]
<1>1. Settles(s, r, FALSE) /\ r \in Sessions /\ Core(r) = Core(s)
  BY ResolvePromptIs DEF Settles
<1> HIDE DEF r
<1>2. /\ t \in Sessions /\ ~t.cancellationSignalSent /\ t.phase = r.phase
      /\ t.source = r.source /\ t.output = r.output /\ t.receipt = r.receipt
      /\ t.operationTask = r.operationTask /\ t.stopped = r.stopped
      /\ t.quit = r.quit /\ t.closeWhenSafe = r.closeWhenSafe
  <2>1. t \in Sessions
    BY <1>1, Setters
  <2> QED BY <1>1, <2>1 DEF Sessions
<1>3. t = PrepareForOperation(s)
  BY DEF PrepareForOperation, r
<1> HIDE DEF t
<1>4. Settles(s, t, FALSE)
  BY <1>1, <1>2 DEF Settles, Grants
<1> QED BY <1>1, <1>2, <1>3, <1>4 DEF Core

LEMMA DropRetainedIs ==
  ASSUME NEW s \in Sessions
  PROVE  LET t == DropRetained(s)
         IN /\ t \in Sessions /\ Core(t) = Core(s) /\ t.prompt = s.prompt /\ t.handlers = s.handlers
            /\ t.quit = s.quit /\ t.closeWhenSafe = s.closeWhenSafe
BY ZenonT(30) DEF DropRetained, Sessions, Core

LEMMA HomeIs ==
  ASSUME NEW s \in Sessions
  PROVE  LET t == Home(s)
         IN /\ Settles(s, t, FALSE) /\ t.phase = "chooseBackup"
            /\ t.operationTask = 0 /\ t.stopped = s.stopped \cup ({s.operationTask} \ {0})
<1> DEFINE p == ResolvePrompt(s, FALSE)
           r == DropRetained(p)
           t == [r EXCEPT !.stopped = @ \cup ({s.operationTask} \ {0}), !.operationTask = 0,
                          !.cancellationSignalSent = FALSE, !.source = 0, !.output = 0, !.receipt = 0,
                          !.isAcquisitionRoute = FALSE, !.phase = "chooseBackup", !.failure = "none"]
<1>1. Settles(s, p, FALSE) /\ p \in Sessions /\ Core(p) = Core(s)
  BY ResolvePromptIs DEF Settles
<1> HIDE DEF p
<1>2. r \in Sessions /\ Core(r) = Core(p) /\ r.quit = p.quit /\ r.closeWhenSafe = p.closeWhenSafe
  BY <1>1, DropRetainedIs
<1> HIDE DEF r
<1>3. s.operationTask \in Ops \cup {0}
  BY DEF Sessions
<1>4. /\ t \in Sessions /\ t.phase = "chooseBackup" /\ t.operationTask = 0
      /\ t.stopped = r.stopped \cup ({s.operationTask} \ {0})
      /\ t.quit = r.quit /\ t.closeWhenSafe = r.closeWhenSafe
  <2>1. r.stopped \cup ({s.operationTask} \ {0}) \in SUBSET Ops
    BY <1>2, <1>3 DEF Sessions
  <2> DEFINE u == [r EXCEPT !.stopped = r.stopped \cup ({s.operationTask} \ {0}), !.operationTask = 0,
                             !.cancellationSignalSent = FALSE, !.source = 0]
             v == [u EXCEPT !.output = 0, !.receipt = 0, !.isAcquisitionRoute = FALSE]
  <2>2. t = [v EXCEPT !.phase = "chooseBackup", !.failure = "none"]
    OBVIOUS
  <2> HIDE DEF t
  <2>3. /\ u \in Sessions /\ u.operationTask = 0
        /\ u.stopped = r.stopped \cup ({s.operationTask} \ {0})
        /\ u.quit = r.quit /\ u.closeWhenSafe = r.closeWhenSafe
    <3>1. u \in Sessions
      BY <1>2, <2>1, Setters
    <3> QED BY <1>2, <3>1 DEF Sessions
  <2> HIDE DEF u
  <2>4. /\ v \in Sessions /\ v.operationTask = 0 /\ v.stopped = u.stopped
        /\ v.quit = u.quit /\ v.closeWhenSafe = u.closeWhenSafe
    <3>1. v \in Sessions
      BY <2>3, Setters
    <3> QED BY <2>3, <3>1 DEF Sessions
  <2> HIDE DEF v
  <2>5. /\ t \in Sessions /\ t.phase = "chooseBackup" /\ t.operationTask = 0 /\ t.stopped = v.stopped
        /\ t.quit = v.quit /\ t.closeWhenSafe = v.closeWhenSafe
    <3>1. t \in Sessions
      BY <2>2, <2>4, Setters, Names
    <3> QED BY <2>2, <2>4, <3>1 DEF Sessions
  <2> QED BY <2>3, <2>4, <2>5
<1>5. t = Home(s)
  BY DEF Home, r, p
<1> HIDE DEF t
<1>6. Settles(s, t, FALSE)
  BY <1>1, <1>2, <1>4 DEF Settles, Grants
<1> QED BY ZenonT(30), <1>1, <1>2, <1>4, <1>5, <1>6 DEF Core

LEMMA FreshOutputIs ==
  ASSUME TypeOK, Creators, Last \in Nat, NEW excluded \in Outputs \cup {0}
  PROVE  /\ FreshOutput(excluded) \in Outputs
         /\ \A o \in creators : request[o].output # FreshOutput(excluded)
<1> DEFINE f == [o \in creators |-> request[o].output]
           used == {request[o].output : o \in creators}
           free == Outputs \ (used \cup {excluded})
<1>1. MaxOps \in Nat /\ Outputs = 1..(MaxOps + 2) /\ Ops = 1..MaxOps /\ creators \subseteq Ops
  BY SessionAssumption DEF Outputs, Ops, TypeOK
<1>2. /\ IsFiniteSet(creators) /\ Cardinality(creators) <= MaxOps
      /\ Cardinality(creators) \in Nat
  <2>1. IsFiniteSet(Ops) /\ Cardinality(Ops) = MaxOps
    BY <1>1, SessionAssumption, FS_Interval
  <2>2. creators \in SUBSET Ops
    BY <1>1
  <2>3. IsFiniteSet(creators) /\ Cardinality(creators) <= Cardinality(Ops)
    BY <2>1, <2>2, FS_Subset
  <2> QED BY <2>1, <2>3, FS_CardinalityType
<1>3. IsFiniteSet(used) /\ Cardinality(used) <= Cardinality(creators)
  <2>1. f \in Surjection(creators, used)
    BY DEF Surjection
  <2> QED BY <1>2, <2>1, FS_Surjection
<1>4. IsFiniteSet(used \cup {excluded}) /\ Cardinality(used \cup {excluded}) <= MaxOps + 1
  <2> HIDE DEF used
  <2>1. /\ IsFiniteSet(used \cup {excluded})
        /\ Cardinality(used \cup {excluded}) \in {Cardinality(used), Cardinality(used) + 1}
    BY <1>3, FS_AddElement
  <2> QED BY <1>1, <1>2, <1>3, <2>1, FS_CardinalityType
<1>5. free # {}
  <2> HIDE DEF used
  <2>1. ASSUME Outputs \subseteq used \cup {excluded} PROVE FALSE
    <3>1. Cardinality(Outputs) = MaxOps + 2
      BY <1>1, FS_Interval
    <3>2. Cardinality(Outputs) <= Cardinality(used \cup {excluded})
      BY <1>4, <2>1, FS_Subset
    <3> QED BY <1>1, <1>4, <3>1, <3>2, FS_CardinalityType
  <2> QED BY <2>1
<1>6. \E n \in free : \A m \in free : n <= m
  <2>1. free \subseteq Nat
    BY <1>1
  <2> HIDE DEF free
  <2>2. PICK n \in free : \A m \in free : <<m, n>> \notin OpToRel(<, Nat)
    BY <1>5, <2>1, WFMin, NatLessThanWellFounded
  <2>3. \A m \in free : ~(m < n)
    BY <2>1, <2>2 DEF OpToRel
  <2> QED BY <2>1, <2>3
<1>7. FreshOutput(excluded) = CHOOSE n \in Outputs : n \in free /\ \A m \in free : n <= m
  BY DEF FreshOutput
<1>8. FreshOutput(excluded) \in free
  <2>1. free \subseteq Outputs
    OBVIOUS
  <2> HIDE DEF free
  <2> QED BY <1>6, <1>7, <2>1
<1> QED BY <1>8
-----------------------------------------------------------------------------
(***************************************************************************)
(* What a step leaves of the invariant.                                    *)
(***************************************************************************)

LEMMA OpsAre ==
  ASSUME Numbered
  PROVE  /\ MaxOps \in Nat \ {0} /\ Ops = 1..MaxOps /\ Last \in Nat /\ 1..Last \subseteq Ops
         /\ Last # 0 => Last \in 1..Last /\ Last \in Ops
BY SessionAssumption DEF Numbered, Ops

\* The requests of an operation under way, and the results of those that ended, stay.
LEMMA RequestsStay ==
  ASSUME IInv, request' = request, creators' = creators,
         \A o \in Ops : result[o] # "none" => result'[o] = result[o]
  PROVE  /\ Last' = Last /\ Started' = Started
         /\ Numbered' /\ Preflights' /\ Creators' /\ OutputIsFresh' /\ Requested'
<1>1. Last' = Last /\ Started' = Started
  BY DEF Last, Started
<1>2. Numbered' /\ Preflights' /\ Creators'
  BY <1>1 DEF IInv, Numbered, Preflights, Creators
<1>3. OutputIsFresh'
  BY <1>1 DEF IInv, OutputIsFresh
<1>4. Requested'
  <2>1. Started \subseteq Ops
    BY DEF Started
  <2> QED BY <1>1, <2>1 DEF IInv, Requested
<1> QED BY <1>1, <1>2, <1>3, <1>4

\* The session is idle behind the step: all that was started is settled.
LEMMA IdleKeeps ==
  ASSUME IInv, request' = request, creators' = creators,
         \A o \in Ops : result[o] # "none" => result'[o] = result[o],
         TypeOK', ClientTyped', Future', ~Busy(session'.phase), current' = 0,
         \A o \in 1..Last : Settled(o)',
         Success', Checked', CancelledPreflight', RecoveryWins'
  PROVE  IInv'
<1>1. /\ Last' = Last
      /\ Numbered' /\ Preflights' /\ Creators' /\ OutputIsFresh' /\ Requested'
  BY RequestsStay
<1>2. Past' /\ Present' /\ Confirmations' /\ ClientRuns' /\ QuitWhenIdle'
  BY <1>1 DEF Past, Present, Confirmations, ClientRuns, QuitWhenIdle
<1> QED BY <1>1, <1>2 DEF IInv

\* Only the session changes, from an idle one to an idle one that shows nothing.
LEMMA LeavingKeeps ==
  ASSUME IInv, ~Busy(session.phase), session' \in Sessions,
         session'.phase \in {"chooseBackup", "failed"},
         session'.phase = "failed" => session'.failure # "preflight_cancelled",
         session'.operationTask \in {0, session.operationTask},
         session'.stopped \subseteq session.stopped \cup {session.operationTask},
         UNCHANGED <<request, task, validator, view, creators, confirmed, client>>
  PROVE  IInv'
<1>1. UNCHANGED <<request, task, validator, view, creators, confirmed, current, stream, consumer, result, asked>>
  BY DEF client
<1>2. TypeOK' /\ ClientTyped'
  BY <1>1 DEF IInv, TypeOK, ClientTyped
<1>3. Last' = Last
  BY <1>1, RequestsStay
<1>4. Future'
  <2>1. \A o \in Ops : o > Last => o # 0
    BY DEF IInv, OpsAre, Ops
  <2> QED BY <1>1, <1>3, <2>1 DEF IInv, Future
<1>5. ~Busy(session'.phase) /\ session'.phase \notin Done /\ session'.phase # "confirm"
      /\ session'.phase # "completed"
  BY Names DEF Done
<1>6. current' = 0
  BY <1>1 DEF IInv, ClientRuns
<1>7. \A o \in 1..Last : Settled(o)'
  BY <1>1 DEF IInv, Past, Settled
<1>8. Success' /\ Checked' /\ CancelledPreflight' /\ RecoveryWins'
  BY <1>5 DEF Success, Checked, CancelledPreflight, RecoveryWins
<1> QED BY <1>1, <1>2, <1>4, <1>5, <1>6, <1>7, <1>8, IdleKeeps

\* Only the requests to close or to quit, and what the views show, change.
LEMMA QuietKeeps ==
  ASSUME IInv, session' \in Sessions, Core(session') = Core(session), view' \in Phases,
         session.phase = "completed" => session'.prompt = "none" /\ session'.handlers = {},
         session'.quit = "terminated" => ~Busy(session.phase),
         UNCHANGED <<request, task, validator, creators, confirmed, client>>
  PROVE  IInv'
<1>1. UNCHANGED <<request, task, validator, creators, confirmed, current, stream, consumer, result, asked>>
  BY DEF client
<1>2. /\ session'.phase = session.phase /\ session'.failure = session.failure
      /\ session'.source = session.source /\ session'.output = session.output
      /\ session'.receipt = session.receipt /\ session'.activeAction = session.activeAction
      /\ session'.cancellationSignalSent = session.cancellationSignalSent
      /\ session'.operationTask = session.operationTask /\ session'.stopped = session.stopped
  BY DEF Core
<1>3. /\ Last' = Last
      /\ Numbered' /\ Preflights' /\ Creators' /\ OutputIsFresh' /\ Requested'
  BY <1>1, RequestsStay
<1>4. TypeOK' /\ ClientTyped'
  BY <1>1 DEF IInv, TypeOK, ClientTyped
<1>5. Future' /\ Past'
  BY <1>1, <1>2, <1>3 DEF IInv, Future, Past, Settled
<1>6. Present' /\ Confirmations'
  BY <1>1, <1>2, <1>3 DEF IInv, Present, Confirmations
<1>7. ClientRuns' /\ Success' /\ Checked' /\ CancelledPreflight' /\ QuitWhenIdle' /\ RecoveryWins'
  BY <1>1, <1>2, <1>3 DEF IInv, ClientRuns, Success, Checked, CancelledPreflight, QuitWhenIdle, RecoveryWins
<1> QED BY <1>3, <1>4, <1>5, <1>6, <1>7 DEF IInv
-----------------------------------------------------------------------------
(***************************************************************************)
(* The events of a stream.                                                 *)
(***************************************************************************)

\* What is handled is progress, or the one terminal event, behind which there is nothing.
LEMMA PendingHead ==
  ASSUME NEW events \in Seq(Events), NEW end, events # <<>>, PendingIn(events, end)
  PROVE  /\ Head(events) \in Events /\ Tail(events) \in Seq(Events)
         /\ Head(events) = "progress" => PendingIn(Tail(events), end)
         /\ Head(events) # "progress" => Head(events) = end /\ Tail(events) = <<>>
<1> DEFINE n == Len(events)
           t == Tail(events)
<1>1. /\ n \in Nat \ {0} /\ Head(events) = events[1] /\ events[1] \in Events
      /\ t \in Seq(Events) /\ Len(t) = n - 1 /\ \A i \in 1..(n - 1) : t[i] = events[i + 1]
  OBVIOUS
<1>2. "progress" \notin Ends
  BY DEF Ends
<1> HIDE DEF t, n
<1>3. ASSUME n = 1 PROVE t = <<>>
  <2>1. Len(t) = 0
    BY <1>1, <1>3
  <2> QED BY <1>1, <2>1
<1>4. ASSUME n > 1 PROVE t # <<>> /\ t[n - 1] = events[n]
  <2>1. Len(t) # 0 /\ n - 1 \in 1..(n - 1) /\ (n - 1) + 1 = n
    BY <1>1, <1>4
  <2>2. t[n - 1] = events[(n - 1) + 1]
    BY <1>1, <2>1
  <2> QED BY <2>1, <2>2
<1>5. CASE end \in Ends
  <2>1. events[n] = end /\ \A i \in 1..(n - 1) : events[i] = "progress"
    BY <1>5 DEF PendingIn, n
  <2>2. CASE n = 1
    <3>1. t = <<>> /\ Head(events) = end
      BY <1>1, <1>3, <2>1, <2>2
    <3> QED BY <1>1, <1>2, <1>5, <3>1 DEF t
  <2>3. CASE n > 1
    <3>1. Head(events) = "progress"
      BY <1>1, <2>1, <2>3
    <3>2. t # <<>> /\ t[Len(t)] = end /\ \A i \in 1..(Len(t) - 1) : t[i] = "progress"
      <4>1. Len(t) = n - 1 /\ n \in Nat
        BY <1>1
      <4>2. t # <<>> /\ t[Len(t)] = end
        BY <1>4, <2>1, <2>3, <4>1
      <4>3. ASSUME NEW i \in 1..(Len(t) - 1) PROVE t[i] = "progress"
        <5>1. i \in 1..(n - 1) /\ i + 1 \in 1..(n - 1)
          BY <4>1, <4>3
        <5>2. t[i] = events[i + 1]
          BY <1>1, <5>1
        <5> QED
          BY <2>1, <5>1, <5>2
      <4> QED
        BY <4>2, <4>3
    <3>3. PendingIn(t, end)
      BY <1>5, <3>2 DEF PendingIn
    <3> QED BY <1>1, <3>1, <3>3 DEF t
  <2> QED BY <1>1, <2>2, <2>3
<1>6. CASE end \notin Ends
  <2>1. \A i \in 1..n : events[i] = "progress"
    BY <1>6 DEF PendingIn, n
  <2>2. Head(events) = "progress" /\ \A i \in 1..Len(t) : t[i] = "progress"
    BY <1>1, <2>1
  <2>3. PendingIn(t, end)
    BY <1>6, <2>2 DEF PendingIn
  <2> QED BY <1>1, <2>2, <2>3 DEF t
<1> QED BY <1>5, <1>6

\* The newest event is never the one a full buffer loses.
LEMMA PendingLast ==
  ASSUME NEW events \in Seq(Events), NEW end, NEW e \in Events, end \notin Ends, PendingIn(events, end)
  PROVE  LET q == Append(IF Len(events) < Capacity THEN events ELSE Tail(events), e)
         IN /\ q \in Seq(Events)
            /\ e = "progress" => PendingIn(q, end)
            /\ e # "progress" => PendingIn(q, e)
<1> DEFINE p == IF Len(events) < Capacity THEN events ELSE Tail(events)
           q == Append(p, e)
<1>1. Len(events) \in Nat /\ Capacity \in Nat \ {0} /\ \A i \in 1..Len(events) : events[i] = "progress"
  BY SessionAssumption DEF PendingIn
<1>2. p \in Seq(Events) /\ \A i \in 1..Len(p) : p[i] = "progress"
  <2>1. CASE Len(events) < Capacity
    BY <1>1, <2>1
  <2>2. CASE ~(Len(events) < Capacity)
    <3>1. events # <<>>
      BY <1>1, <2>2
    <3>2. /\ Tail(events) \in Seq(Events) /\ Len(Tail(events)) = Len(events) - 1
          /\ \A i \in 1..(Len(events) - 1) : Tail(events)[i] = events[i + 1]
      BY <3>1
    <3>3. \A i \in 1..Len(Tail(events)) : Tail(events)[i] = "progress"
      BY <1>1, <3>2
    <3> QED BY <2>2, <3>2, <3>3
  <2> QED BY <2>1, <2>2
<1> HIDE DEF p
<1>3. /\ q \in Seq(Events) /\ Len(p) \in Nat /\ Len(q) = Len(p) + 1 /\ q[Len(p) + 1] = e
      /\ \A i \in 1..Len(p) : q[i] = p[i]
  BY <1>2
<1> HIDE DEF q
<1>4. q # <<>> /\ q[Len(q)] = e /\ \A i \in 1..(Len(q) - 1) : q[i] = "progress"
  BY <1>2, <1>3
<1>5. e = "progress" => \A i \in 1..Len(q) : q[i] = "progress"
  BY <1>3, <1>4
<1>6. (e = "progress" => PendingIn(q, end)) /\ (e # "progress" => PendingIn(q, e))
  BY <1>4, <1>5 DEF PendingIn, Events
<1> QED BY <1>3, <1>6 DEF q, p
-----------------------------------------------------------------------------
(***************************************************************************)
(* An operation starts.                                                    *)
(***************************************************************************)

Launched(s, action, phase) ==
  LET o == Last + 1
  IN /\ o \in Ops
     /\ Client!Begin(o)
     /\ request' = [request EXCEPT ![o] = [action |-> action, source |-> s.source,
                                           output |-> s.output, receipt |-> s.receipt]]
     /\ task' = [task EXCEPT ![o] = "iterating"]
     /\ session' = [s EXCEPT !.phase = phase, !.failure = "none",
                             !.leases = @ \cup {o}, !.operationTask = o,
                             !.stopped = @ \cup ({s.operationTask} \ {0})]

LEMMA LaunchedKeeps ==
  ASSUME IInv, ~Busy(session.phase), NEW s \in Sessions,
         s.stopped = session.stopped, s.operationTask = session.operationTask,
         ~s.cancellationSignalSent, s.quit # "terminated", s.source \in Sources, s.output \in Outputs,
         NEW action \in Actions, NEW phase \in {"preflighting", "running"},
         s.activeAction = "preflight" => action = "preflight",
         \A o \in creators : request[o].output # s.output,
         action = "preflight" => s.receipt = 0,
         action = "recover" =>
           /\ Last # 0 /\ s.receipt = Last /\ result[Last] = "completed"
           /\ request[Last] = [action |-> "preflight", source |-> s.source,
                               output |-> s.output, receipt |-> 0],
         Launched(s, action, phase), UNCHANGED <<validator, view, creators, confirmed>>
  PROVE  IInv'
<1> DEFINE o == Last + 1
           rec == [action |-> action, source |-> s.source, output |-> s.output, receipt |-> s.receipt]
<1>1. /\ o \in Ops /\ Last \in Nat /\ MaxOps \in Nat /\ Ops = 1..MaxOps /\ o # 0
      /\ Numbered /\ TypeOK /\ ClientTyped
  BY OpsAre DEF Launched, IInv
<1>2. /\ rec \in [action : Actions, source : Sources, output : Outputs, receipt : Ops \cup {0}]
      /\ rec # NoRequest
      /\ rec.action = action /\ rec.source = s.source /\ rec.output = s.output /\ rec.receipt = s.receipt
  <2>1. s.receipt \in Ops \cup {0}
    BY DEF Sessions
  <2> QED BY <2>1 DEF NoRequest, Actions
<1>3. /\ request' = [request EXCEPT ![o] = rec] /\ task' = [task EXCEPT ![o] = "iterating"]
      /\ current' = o /\ consumer' = [consumer EXCEPT ![o] = "iterating"]
      /\ UNCHANGED <<stream, result, asked>>
  BY DEF Launched, Client!Begin
<1> HIDE DEF rec
<1>4. /\ request' \in [Ops -> {NoRequest} \cup
           [action : Actions, source : Sources, output : Outputs, receipt : Ops \cup {0}]]
      /\ request'[o] = rec /\ \A p \in Ops : p # o => request'[p] = request[p]
  BY <1>1, <1>2, <1>3 DEF TypeOK
<1>5. /\ task' \in [Ops -> {"none", "iterating", "validating", "done"}]
      /\ task'[o] = "iterating" /\ \A p \in Ops : p # o => task'[p] = task[p]
      /\ consumer' \in [Ops -> {"none", "iterating", "cancelled"}]
      /\ consumer'[o] = "iterating" /\ \A p \in Ops : p # o => consumer'[p] = consumer[p]
  BY <1>1, <1>3 DEF TypeOK, ClientTyped
<1>6. /\ session' \in Sessions /\ session'.phase = phase /\ session'.operationTask = o
      /\ session'.stopped = s.stopped \cup ({s.operationTask} \ {0})
      /\ session'.source = s.source /\ session'.output = s.output
      /\ session'.activeAction = s.activeAction
      /\ session'.cancellationSignalSent = s.cancellationSignalSent
      /\ session'.quit = s.quit /\ Busy(phase)
      /\ phase \notin {"validating", "cancelling", "confirm", "failed", "completed"} \cup Done
  <2>1. /\ session' = [s EXCEPT !.phase = phase, !.failure = "none",
                                !.leases = @ \cup {o}, !.operationTask = o,
                                !.stopped = @ \cup ({s.operationTask} \ {0})]
        /\ phase \in Phases
    BY Names DEF Launched
  <2>2. s.leases \cup {o} \in SUBSET Ops /\ s.stopped \cup ({s.operationTask} \ {0}) \in SUBSET Ops
    BY <1>1 DEF Sessions
  <2> HIDE DEF o
  <2>3. session' \in Sessions
    BY <1>1, <2>1, <2>2, Setters
  <2> QED BY <2>1, <2>3 DEF Sessions, Busy, Done
<1>7. Started' = 1..o /\ Last' = o
  <2>1. Started' = {p \in Ops : request'[p] # NoRequest}
    BY DEF Started
  <2>2. \A p \in Ops : request'[p] # NoRequest <=> p \in Started \/ p = o
    BY <1>2, <1>4 DEF Started
  <2>3. Started' = (1..Last) \cup {o}
    BY <1>1, <2>1, <2>2 DEF Numbered, Started
  <2>4. Started' = 1..o
    BY <1>1, <2>3
  <2>5. Cardinality(1..o) = o
    BY <1>1, FS_Interval
  <2> QED BY <2>4, <2>5 DEF Last
<1>8. Future /\ Past /\ Creators
  BY DEF IInv
<1>9. \A p \in Ops : p > o => p > Last /\ p # o /\ p # 0
  BY <1>1
<1>10. \A p \in 1..Last : p \in Ops /\ p # o /\ p < o /\ Settled(p)
  BY <1>1, <1>8 DEF Past, Numbered
<1>11. /\ o > Last /\ stream[o] = <<>> /\ result[o] = "none"
       /\ o \notin asked \cup session.stopped \cup creators \cup confirmed /\ session.operationTask # o
  BY <1>1, <1>8 DEF Future
<1>12. \A p \in 1..o : p \in 1..Last \/ p = o
  BY <1>1
<1> HIDE DEF o
<1>13. TypeOK' /\ ClientTyped'
  <2>1. current' \in Ops
    BY <1>1, <1>3
  <2>2. TypeOK'
    BY <1>1, <1>4, <1>5, <1>6 DEF TypeOK
  <2> QED BY <1>1, <1>3, <1>5, <2>1, <2>2 DEF ClientTyped
<1>14. Numbered'
  BY <1>1, <1>7 DEF Numbered
<1>15. Future'
  BY <1>3, <1>5, <1>6, <1>7, <1>8, <1>9 DEF Future
<1>16. Past'
  <2>1. \A p \in 1..Last : Settled(p)'
    BY <1>3, <1>5, <1>10 DEF Settled
  <2> QED BY <1>6, <1>7, <1>12, <2>1 DEF Past
<1>17. Present'
  <2>1. PendingIn(stream[o], result[o])
    BY <1>11 DEF PendingIn, Ends
  <2> QED BY <1>1, <1>2, <1>3, <1>4, <1>5, <1>6, <1>7, <1>11, <2>1 DEF Present
<1>18. Confirmations'
  BY <1>3, <1>6, <1>7, <1>11 DEF Confirmations
<1>19. ClientRuns'
  BY <1>3, <1>5, <1>6, <1>7, <1>11 DEF ClientRuns
<1>20. Creators' /\ Preflights'
  <2>1. \A p \in 1..Last : p \in 1..o /\ request'[p] = request[p]
    BY <1>1, <1>4, <1>10 DEF o
  <2>2. Creators'
    BY <1>7, <1>8, <2>1 DEF Creators
  <2>3. Preflights'
    BY <1>2, <1>4, <1>7, <1>12, <2>1 DEF IInv, Preflights
  <2> QED BY <2>2, <2>3
<1>21. Success' /\ Checked' /\ CancelledPreflight' /\ QuitWhenIdle' /\ RecoveryWins'
  BY <1>6 DEF Success, Checked, CancelledPreflight, QuitWhenIdle, RecoveryWins, Done
<1>22. OutputIsFresh'
  <2> SUFFICES ASSUME NEW p \in 1..o, NEW q \in 1..o, p < q, request'[p].output = request'[q].output
               PROVE  p \notin creators
    BY <1>7 DEF OutputIsFresh
  <2>1. p \in 1..Last /\ request'[p] = request[p]
    BY <1>1, <1>4, <1>10, <1>12 DEF o
  <2>2. CASE q = o
    BY <1>2, <1>4, <2>1, <2>2
  <2>3. CASE q \in 1..Last
    <3>1. request'[q] = request[q]
      BY <1>4, <1>10, <2>3
    <3> QED BY <1>1, <2>1, <2>3, <3>1 DEF IInv, OutputIsFresh, Numbered
  <2> QED BY <1>12, <2>2, <2>3
<1>23. Requested'
  <2> SUFFICES ASSUME NEW p \in 1..o, request'[p].action = "recover"
               PROVE  LET q == request'[p].receipt
                      IN /\ q = p - 1 /\ q \in 1..o /\ result[q] = "completed"
                         /\ request'[q] = [action |-> "preflight", source |-> request'[p].source,
                                           output |-> request'[p].output, receipt |-> 0]
    BY <1>3, <1>7 DEF Requested
  <2>1. CASE p = o
    <3>1. action = "recover" /\ Last # 0
      BY <1>2, <1>4, <2>1
    <3>2. Last \in 1..Last /\ Last \in 1..o /\ Last = p - 1
      BY <1>1, <2>1, <3>1 DEF o
    <3>3. request'[Last] = request[Last]
      BY <1>4, <1>10, <3>2
    <3> QED BY <1>2, <1>4, <2>1, <3>1, <3>2, <3>3
  <2>2. CASE p \in 1..Last
    <3>1. request'[p] = request[p] /\ p \in Started
      BY <1>1, <1>4, <1>10, <2>2 DEF Numbered
    <3> DEFINE q == request[p].receipt
    <3>2. /\ q = p - 1 /\ q \in Started /\ result[q] = "completed"
          /\ request[q] = [action |-> "preflight", source |-> request[p].source,
                           output |-> request[p].output, receipt |-> 0]
      BY <3>1 DEF IInv, Requested
    <3> HIDE DEF q
    <3>3. q \in 1..Last /\ q \in 1..o
      BY <1>1, <3>2 DEF Numbered, o
    <3>4. request'[q] = request[q]
      BY <1>4, <1>10, <3>3
    <3> QED BY <3>1, <3>2, <3>3, <3>4 DEF q
  <2> QED BY <1>12, <2>1, <2>2
<1> QED BY <1>13, <1>14, <1>15, <1>16, <1>17, <1>18, <1>19, <1>20, <1>21, <1>22, <1>23 DEF IInv
-----------------------------------------------------------------------------
(***************************************************************************)
(* An operation under way.                                                 *)
(***************************************************************************)

\* The last operation stays under way behind the step.
LEMMA BusyKeeps ==
  ASSUME IInv, Busy(session.phase), Busy(session'.phase), request' = request, creators' = creators,
         TypeOK', ClientTyped',
         \A o \in Ops : o # Last => task'[o] = task[o] /\ stream'[o] = stream[o] /\ result'[o] = result[o],
         result[Last] # "none" => result'[Last] = result[Last],
         consumer' = consumer, asked' \subseteq asked \cup {Last}, confirmed' \subseteq confirmed \cup {Last},
         session'.stopped = session.stopped, session'.operationTask = session.operationTask,
         session'.quit # "terminated",
         current' = 0 \/ (current' = current /\ result'[Last] = result[Last] /\ task'[Last] = task[Last]),
         Present', Confirmations'
  PROVE  IInv'
<1>1. /\ Last' = Last
      /\ Numbered' /\ Preflights' /\ Creators' /\ OutputIsFresh' /\ Requested'
  <2>1. \A o \in Ops : result[o] # "none" => result'[o] = result[o]
    OBVIOUS
  <2> QED BY <2>1, RequestsStay
<1>2. Last \in Nat /\ 1..Last \subseteq Ops
  BY OpsAre DEF IInv
<1>3. Future'
  <2>1. \A o \in Ops : o > Last => o # Last
    BY <1>2 DEF Ops
  <2> QED BY <1>1, <2>1 DEF IInv, Future
<1>4. Past'
  <2>1. \A o \in 1..Last : o # Last => Settled(o)'
    BY <1>2 DEF IInv, Past, Settled
  <2> QED BY <1>1, <2>1 DEF Past
<1>5. ClientRuns'
  BY <1>1 DEF IInv, ClientRuns
<1>6. session'.phase \notin Done \cup {"confirm", "failed", "completed"}
  BY DEF Busy, Done
<1>7. Success' /\ Checked' /\ CancelledPreflight' /\ QuitWhenIdle' /\ RecoveryWins'
  BY <1>6 DEF Success, Checked, CancelledPreflight, QuitWhenIdle, RecoveryWins
<1> QED BY <1>1, <1>3, <1>4, <1>5, <1>7 DEF IInv

\* The end of a run is the last event of its stream.
LEMMA ClientEnds ==
  ASSUME IInv, current # 0, NEW end \in Ends \cup {"error"}, Client!Ends(current, end)
  PROVE  /\ current = Last /\ Last \in Ops /\ current' = 0
         /\ stream' \in [Ops -> Seq(Events)] /\ result' \in [Ops -> Ends \cup {"none", "error"}]
         /\ \A o \in Ops : o # Last => result'[o] = result[o] /\ stream'[o] = stream[o]
         /\ result[Last] = "none" /\ result'[Last] = end /\ PendingIn(stream'[Last], end)
<1>1. /\ current = Last /\ Busy(session.phase) /\ result[Last] = "none" /\ task[Last] = "iterating"
      /\ current \in Ops /\ stream \in [Ops -> Seq(Events)] /\ result \in [Ops -> Ends \cup {"none", "error"}]
  BY DEF IInv, ClientRuns, ClientTyped
<1>2. consumer[Last] = "iterating" /\ PendingIn(stream[Last], "none")
  BY <1>1 DEF IInv, Present
<1>3. current' = 0 /\ result' = [result EXCEPT ![Last] = end]
  BY <1>1 DEF Client!Ends
<1>4. /\ result' \in [Ops -> Ends \cup {"none", "error"}] /\ result'[Last] = end
      /\ \A o \in Ops : o # Last => result'[o] = result[o]
  BY <1>1, <1>3
<1>5. CASE end = "error"
  <2>1. stream' = stream
    BY <1>5 DEF Client!Ends
  <2>2. PendingIn(stream[Last], end)
    BY <1>2, <1>5 DEF PendingIn, Ends
  <2> QED BY <1>1, <1>3, <1>4, <2>1, <2>2
<1>6. CASE end # "error"
  <2> DEFINE q == Append(IF Len(stream[Last]) < Capacity THEN stream[Last] ELSE Tail(stream[Last]), end)
  <2>1. stream' = [stream EXCEPT ![Last] = q]
    BY <1>1, <1>2, <1>6 DEF Client!Ends, Client!Yielded
  <2>2. end \in Events /\ end # "progress" /\ "none" \notin Ends /\ stream[Last] \in Seq(Events)
    BY <1>1, <1>6 DEF Events, Ends
  <2>3. q \in Seq(Events) /\ PendingIn(q, end)
    BY <1>2, <2>2, PendingLast
  <2> HIDE DEF q
  <2>4. /\ stream' \in [Ops -> Seq(Events)] /\ stream'[Last] = q
        /\ \A o \in Ops : o # Last => stream'[o] = stream[o]
    BY <1>1, <2>1, <2>3
  <2> QED BY <1>1, <1>3, <1>4, <2>3, <2>4
<1> QED BY <1>5, <1>6

LEMMA BeginCancellationKeeps ==
  ASSUME IInv, NEW s \in Sessions, Core(s) = Core(session), view' \in Phases,
         session.phase = "completed" => s.prompt = "none" /\ s.handlers = {},
         s.quit = "terminated" => session.quit = "terminated",
         BeginCancellation(s), UNCHANGED <<request, task, creators>>
  PROVE  /\ IInv'
         /\ session'.quit = s.quit /\ session'.closeWhenSafe = s.closeWhenSafe
         /\ Busy(session.phase) => Last \in confirmed'
<1>1. /\ s.phase = session.phase /\ s.output = session.output /\ s.activeAction = session.activeAction
      /\ s.source = session.source /\ s.cancellationSignalSent = session.cancellationSignalSent
      /\ s.operationTask = session.operationTask /\ s.stopped = session.stopped
  BY DEF Core
<1>2. s.quit = "terminated" => ~Busy(session.phase)
  BY DEF IInv, QuitWhenIdle
<1>3. CASE ~(Busy(s.phase) /\ ~s.cancellationSignalSent)
  <2>1. session' = s /\ UNCHANGED <<confirmed, validator, client>>
    BY <1>3 DEF BeginCancellation
  <2>2. IInv'
    BY <1>2, <2>1, QuietKeeps
  <2>3. Busy(session.phase) => Last \in confirmed'
    BY <1>1, <1>3, <2>1 DEF IInv, Confirmations
  <2> QED BY <2>1, <2>2, <2>3
<1>4. CASE Busy(s.phase) /\ ~s.cancellationSignalSent
  <2>1. /\ session' = [s EXCEPT !.cancellationSignalSent = TRUE, !.phase = "cancelling"]
        /\ confirmed' = confirmed \cup {Last}
        /\ Busy(session.phase) /\ session.phase # "cancelling" /\ Last # 0 /\ Last \in Ops
        /\ Last \notin session.stopped
    BY <1>1, <1>4, OpsAre DEF BeginCancellation, IInv, Confirmations, Present
  <2>2. session' \in Sessions
    BY <2>1, Setters, Names
  <2>3. /\ session'.phase = "cancelling" /\ session'.cancellationSignalSent
        /\ session'.output = session.output /\ session'.activeAction = session.activeAction
        /\ session'.source = session.source /\ session'.quit = s.quit
        /\ session'.operationTask = session.operationTask /\ session'.stopped = session.stopped
        /\ session'.closeWhenSafe = s.closeWhenSafe
    BY <1>1, <2>1 DEF Sessions
  <2>4. confirmed' \subseteq Ops /\ Busy(session'.phase) /\ session'.quit # "terminated" /\ Last' = Last
    BY <1>2, <2>1, <2>3, RequestsStay DEF IInv, TypeOK, Busy, Last, Started
  <2>5. Confirmations'
    BY <2>1, <2>3, <2>4 DEF Confirmations
  <2>6. CASE s.phase = "validating"
    <3>1. /\ UNCHANGED <<current, stream, consumer, result, asked>>
          /\ validator' = [o \in Ops |-> IF o = s.validationTask /\ validator[o] = "running"
                                         THEN "cancelled" ELSE validator[o]]
      BY <1>4, <2>6 DEF BeginCancellation, client
    <3>2. TypeOK' /\ ClientTyped'
      BY <2>2, <2>4, <3>1 DEF IInv, TypeOK, ClientTyped
    <3>3. Present'
      BY <1>1, <2>1, <2>3, <2>4, <2>6, <3>1 DEF IInv, Present
    <3>4. IInv'
      BY <2>1, <2>3, <2>4, <2>5, <3>1, <3>2, <3>3, BusyKeeps
    <3> QED BY <2>1, <2>3, <3>4
  <2>7. CASE s.phase # "validating"
    <3>1. /\ validator' = validator
          /\ UNCHANGED client \/ (current # 0 /\ Client!Cancel)
      BY <1>4, <2>7 DEF BeginCancellation
    <3>2. /\ task[Last] = "iterating" /\ session.phase # "validating"
          /\ PendingIn(stream[Last], result[Last]) /\ session.source = request[Last].source
      BY <1>1, <2>1, <2>7 DEF IInv, Present
    <3>3. /\ asked' \in {asked, asked \cup {current}} /\ consumer' = consumer
          /\ \/ UNCHANGED <<current, result, stream>>
             \/ current # 0 /\ \E end \in Ends \cup {"error"} : Client!Ends(current, end)
      BY <3>1, Names DEF client, Client!Cancel
    <3>4. ASSUME UNCHANGED <<current, result, stream>>
          PROVE  /\ current' \in Ops \cup {0} /\ stream' \in [Ops -> Seq(Events)]
                 /\ result' \in [Ops -> Ends \cup {"none", "error"}]
                 /\ \A o \in Ops : o # Last => stream'[o] = stream[o] /\ result'[o] = result[o]
                 /\ result[Last] # "none" => result'[Last] = result[Last]
                 /\ PendingIn(stream'[Last], result'[Last])
                 /\ current' = 0 \/ (current' = current /\ result'[Last] = result[Last])
      BY <3>2, <3>4 DEF IInv, ClientTyped
    <3>5. ASSUME current # 0, NEW end \in Ends \cup {"error"}, Client!Ends(current, end)
          PROVE  /\ current' \in Ops \cup {0} /\ stream' \in [Ops -> Seq(Events)]
                 /\ result' \in [Ops -> Ends \cup {"none", "error"}]
                 /\ \A o \in Ops : o # Last => stream'[o] = stream[o] /\ result'[o] = result[o]
                 /\ result[Last] # "none" => result'[Last] = result[Last]
                 /\ PendingIn(stream'[Last], result'[Last])
                 /\ current' = 0 \/ (current' = current /\ result'[Last] = result[Last])
      BY <3>5, ClientEnds
    <3>6. /\ current' \in Ops \cup {0} /\ stream' \in [Ops -> Seq(Events)]
          /\ result' \in [Ops -> Ends \cup {"none", "error"}]
          /\ \A o \in Ops : o # Last => stream'[o] = stream[o] /\ result'[o] = result[o]
          /\ result[Last] # "none" => result'[Last] = result[Last]
          /\ PendingIn(stream'[Last], result'[Last])
          /\ current' = 0 \/ (current' = current /\ result'[Last] = result[Last])
      BY <3>3, <3>4, <3>5
    <3>7. asked' \subseteq Ops /\ asked' \subseteq asked \cup {Last}
      BY <2>1, <3>1, <3>3 DEF IInv, ClientRuns, ClientTyped, client, Client!Cancel
    <3>8. TypeOK'
      BY <2>2, <2>4, <3>1 DEF IInv, TypeOK
    <3>9. ClientTyped'
      BY <3>3, <3>6, <3>7 DEF IInv, ClientTyped
    <3>10. Present'
      BY <2>1, <2>3, <2>4, <3>2, <3>3, <3>6 DEF IInv, Present
    <3>11. IInv'
      BY <2>1, <2>3, <2>4, <2>5, <3>3, <3>6, <3>7, <3>8, <3>9, <3>10, BusyKeeps
    <3> QED BY <2>1, <2>3, <3>11
  <2> QED BY <2>6, <2>7
<1> QED BY <1>3, <1>4
-----------------------------------------------------------------------------
(***************************************************************************)
(* The operations' tasks.                                                  *)
(***************************************************************************)

\* The end of the last operation was handled.
LEMMA SettlingKeeps ==
  ASSUME IInv, current = 0, session' \in Sessions, ~Busy(session'.phase),
         session'.stopped = session.stopped, session'.operationTask \in {0, session.operationTask},
         UNCHANGED <<request, validator, view, creators, confirmed, current, consumer, result, asked>>,
         task' \in [Ops -> {"none", "iterating", "validating", "done"}],
         stream' \in [Ops -> Seq(Events)],
         \A o \in Ops : o # Last => task'[o] = task[o] /\ stream'[o] = stream[o],
         Settled(Last)', Success', Checked', CancelledPreflight', RecoveryWins'
  PROVE  IInv'
<1>1. TypeOK' /\ ClientTyped'
  BY DEF IInv, TypeOK, ClientTyped
<1>2. Last \in Nat /\ 1..Last \subseteq Ops /\ Last' = Last /\ \A o \in Ops : o # 0
  BY OpsAre, RequestsStay DEF IInv, Ops
<1>3. Future'
  <2>1. \A o \in Ops : o > Last => o # Last /\ o # 0
    BY <1>2 DEF Ops
  <2> QED BY <1>2, <2>1 DEF IInv, Future
<1>4. \A o \in 1..Last : Settled(o)'
  <2> TAKE o \in 1..Last
  <2>1. CASE o # Last
    <3>1. Settled(o)
      BY <2>1 DEF IInv, Past
    <3> QED BY <1>2, <2>1, <3>1 DEF Settled
  <2>2. CASE o = Last
    <3>1. result'[Last] # "none" /\ (task'[Last] = "done" \/
             (task'[Last] = "iterating" /\ stream'[Last] = <<>> /\ result'[Last] \in Ends))
      BY <1>2 DEF Settled
    <3> QED BY <2>2, <3>1 DEF Settled
  <2> QED BY <2>1, <2>2
<1> QED BY <1>1, <1>3, <1>4, IdleKeeps

\* Only the last operation still has something to handle.
LEMMA UnsettledIsLast ==
  ASSUME IInv, NEW o \in Ops, task[o] \in {"iterating", "validating"}, ~Settled(o)
  PROVE  /\ o = Last /\ Busy(session.phase) /\ Last # 0 /\ Last \in Started
         /\ consumer[o] = "iterating" /\ o \notin session.stopped
<1>1. Last \in Nat /\ Ops = 1..MaxOps /\ Started = 1..Last
  BY OpsAre DEF IInv, Numbered
<1>2. ~(o > Last)
  BY DEF IInv, Future
<1>3. o \in 1..Last
  BY <1>1, <1>2
<1>4. o = Last /\ Busy(session.phase)
  BY <1>3 DEF IInv, Past
<1> QED BY <1>1, <1>3, <1>4 DEF IInv, Present

\* What the end of an operation leaves of the session before it says more.
LEMMA ReleasedIs ==
  LET s == [CancelInterruptions(session) EXCEPT !.activeAction = "none"]
  IN TypeOK =>
       /\ Settles(session, s, FALSE) /\ s.prompt = "none" /\ s.handlers = {}
       /\ s.phase = session.phase /\ s.source = session.source /\ s.output = session.output
       /\ s.receipt = session.receipt /\ s.cancellationSignalSent = session.cancellationSignalSent
       /\ s.operationTask = session.operationTask /\ s.stopped = session.stopped
       /\ s.activeAction = "none"
<1> DEFINE r == CancelInterruptions(session)
           s == [r EXCEPT !.activeAction = "none"]
<1> SUFFICES ASSUME TypeOK
             PROVE /\ Settles(session, s, FALSE) /\ s.prompt = "none" /\ s.handlers = {}
                   /\ s.phase = session.phase /\ s.source = session.source /\ s.output = session.output
                   /\ s.receipt = session.receipt /\ s.cancellationSignalSent = session.cancellationSignalSent
                   /\ s.operationTask = session.operationTask /\ s.stopped = session.stopped
                   /\ s.activeAction = "none"
  OBVIOUS
<1>1. /\ Settles(session, r, FALSE) /\ Core(r) = Core(session) /\ r \in Sessions
      /\ r.prompt = "none" /\ r.handlers = {}
  BY ResolvePromptIs DEF CancelInterruptions, Settles, TypeOK
<1> HIDE DEF r
<1>2. s \in Sessions
  BY <1>1, Setters
<1>3. /\ s.phase = r.phase /\ s.source = r.source /\ s.output = r.output /\ s.receipt = r.receipt
      /\ s.cancellationSignalSent = r.cancellationSignalSent
      /\ s.operationTask = r.operationTask /\ s.stopped = r.stopped /\ s.activeAction = "none"
      /\ s.prompt = r.prompt /\ s.handlers = r.handlers
      /\ s.quit = r.quit /\ s.closeWhenSafe = r.closeWhenSafe
  BY <1>1 DEF Sessions
<1> HIDE DEF s
<1>4. Settles(session, s, FALSE)
  BY <1>1, <1>2, <1>3 DEF Settles, Grants
<1> QED BY <1>1, <1>3, <1>4 DEF Core

LEMMA HandleProgressKeeps ==
  ASSUME IInv, NEW o \in Ops, Handle(o), Head(stream[o]) = "progress"
  PROVE  IInv' /\ ~Grants(session, session')
<1>1. /\ task[o] = "iterating" /\ stream[o] # <<>>
      /\ stream' = [stream EXCEPT ![o] = Tail(stream[o])]
      /\ UNCHANGED <<request, task, validator, view, creators, confirmed, current, consumer, result, asked>>
      /\ session' = [session EXCEPT !.phase =
           IF session.phase \in {"preflighting", "cancelling", "validating"} THEN session.phase ELSE "running"]
      /\ session.quit # "terminated"
  BY DEF Handle, Alive, Client!Take, HandleProgress
<1>2. /\ o = Last /\ Busy(session.phase) /\ consumer[o] = "iterating" /\ ~Settled(o)
      /\ session.phase # "validating" /\ PendingIn(stream[o], result[o])
      /\ session.source = request[o].source /\ stream[o] \in Seq(Events) /\ TypeOK /\ ClientTyped
  <2>1. ~Settled(o)
    BY <1>1 DEF Settled
  <2>2. o = Last /\ Busy(session.phase) /\ consumer[o] = "iterating"
    BY <1>1, <2>1, UnsettledIsLast
  <2> QED BY <1>1, <2>1, <2>2 DEF IInv, Present, ClientTyped
<1>3. session.phase \in {"preflighting", "running", "cancelling"}
  BY <1>2 DEF Busy
<1>4. /\ session' \in Sessions /\ session'.phase = session.phase
      /\ session'.output = session.output /\ session'.source = session.source
      /\ session'.activeAction = session.activeAction /\ session'.stopped = session.stopped
      /\ session'.operationTask = session.operationTask /\ session'.quit = session.quit
      /\ session'.closeWhenSafe = session.closeWhenSafe
      /\ session'.cancellationSignalSent = session.cancellationSignalSent
  <2>1. session' = [session EXCEPT !.phase = session.phase] /\ session \in Sessions
    BY <1>1, <1>2, <1>3 DEF TypeOK
  <2> QED BY <2>1 DEF Sessions
<1>5. PendingIn(Tail(stream[o]), result[o]) /\ Tail(stream[o]) \in Seq(Events)
  BY <1>1, <1>2, PendingHead
<1>6. /\ stream' \in [Ops -> Seq(Events)] /\ stream'[o] = Tail(stream[o])
      /\ \A p \in Ops : p # o => stream'[p] = stream[p]
  BY <1>1, <1>2, <1>5 DEF ClientTyped
<1>7. TypeOK' /\ ClientTyped'
  BY <1>1, <1>2, <1>4, <1>6 DEF TypeOK, ClientTyped
<1>8. Last' = Last
  BY <1>1 DEF Last, Started
<1>9. Present'
  BY <1>1, <1>2, <1>4, <1>5, <1>6, <1>8 DEF IInv, Present
<1>10. Confirmations'
  BY <1>1, <1>4, <1>8 DEF IInv, Confirmations
<1>11. IInv'
  BY <1>1, <1>2, <1>4, <1>6, <1>7, <1>9, <1>10, BusyKeeps
<1> QED BY <1>4, <1>11 DEF Grants

LEMMA HandleEndKeeps ==
  ASSUME IInv, NEW o \in Ops, Handle(o), Head(stream[o]) # "progress"
  PROVE  IInv' /\ ~Grants(session, session')
<1> DEFINE s == [CancelInterruptions(session) EXCEPT !.activeAction = "none"]
<1>1. /\ task[o] = "iterating" /\ stream[o] # <<>>
      /\ stream' = [stream EXCEPT ![o] = Tail(stream[o])]
      /\ UNCHANGED <<request, view, creators, confirmed, current, consumer, result, asked>>
      /\ HandleEnd(o, Head(stream[o]))
      /\ session.quit # "terminated"
  BY DEF Handle, Alive, Client!Take
<1>2. /\ o = Last /\ Last # 0 /\ Last \in Started /\ Busy(session.phase) /\ consumer[o] = "iterating"
      /\ session.phase # "validating" /\ PendingIn(stream[o], result[o])
      /\ session.output = request[o].output /\ session.source = request[o].source
      /\ session.activeAction = "preflight" => request[o].action = "preflight"
      /\ stream[o] \in Seq(Events) /\ TypeOK /\ ClientTyped
  <2>1. ~Settled(o)
    BY <1>1 DEF Settled
  <2>2. o = Last /\ Last # 0 /\ Last \in Started /\ Busy(session.phase) /\ consumer[o] = "iterating"
    BY <1>1, <2>1, UnsettledIsLast
  <2> QED BY <1>1, <2>2 DEF IInv, Present, ClientTyped
<1>3. Head(stream[o]) = result[o] /\ Tail(stream[o]) = <<>> /\ result[o] \in Ends /\ "none" \notin Ends
  BY <1>1, <1>2, PendingHead DEF Events, Ends
<1>4. current = 0
  BY <1>2, <1>3 DEF IInv, ClientRuns
<1>5. /\ stream' \in [Ops -> Seq(Events)] /\ stream'[o] = <<>>
      /\ \A p \in Ops : p # o => stream'[p] = stream[p]
  <2>1. <<>> \in Seq(Events)
    OBVIOUS
  <2>2. stream' = [stream EXCEPT ![o] = <<>>]
    BY <1>1, <1>3, Zenon
  <2> QED BY <1>2, <2>1, <2>2 DEF ClientTyped
<1>6. /\ Settles(session, s, FALSE) /\ s \in Sessions /\ s.prompt = "none" /\ s.handlers = {}
      /\ s.source = session.source /\ s.output = session.output /\ s.receipt = session.receipt
      /\ s.cancellationSignalSent = session.cancellationSignalSent
      /\ s.operationTask = session.operationTask /\ s.stopped = session.stopped
      /\ s.activeAction = "none"
  BY <1>2, ReleasedIs DEF Settles
<1>7. \/ result[o] = "completed" /\ Completed(o, s)
      \/ /\ \E code \in Failures : session' = Failed(s, code) /\
              (code = "preflight_cancelled" => session.activeAction = "preflight")
         /\ UNCHANGED <<task, validator>>
  BY <1>1, <1>3 DEF HandleEnd, HelperFailures, Failures
<1> HIDE DEF s
<1>8. Last' = Last
  BY <1>1 DEF Last, Started
<1>9. ASSUME NEW t \in Sessions, Settles(session, t, FALSE), t.output = session.output,
             t.operationTask = session.operationTask, t.stopped = session.stopped,
             NEW code \in Failures, code = "preflight_cancelled" => session.activeAction = "preflight",
             session' = Failed(t, code), UNCHANGED <<task, validator>>
      PROVE  IInv' /\ ~Grants(session, session')
  <2>1. /\ Settles(t, session', FALSE) /\ session' \in Sessions
        /\ session'.phase = "failed" /\ session'.failure = code
        /\ session'.output = t.output /\ session'.operationTask = t.operationTask
        /\ session'.stopped = t.stopped
    BY <1>9, FailedIs DEF Settles
  <2>2. ~Busy("failed") /\ "failed" \notin Done
    BY DEF Busy, Done
  <2>3. Settled(Last)'
    BY <1>1, <1>2, <1>3, <1>5, <1>8, <1>9 DEF Settled
  <2>4. Success' /\ Checked' /\ RecoveryWins'
    BY <2>1, <2>2 DEF Success, Checked, RecoveryWins
  <2>5. CancelledPreflight'
    BY <1>1, <1>2, <1>8, <1>9, <2>1 DEF CancelledPreflight
  <2>6. IInv'
    BY <1>1, <1>2, <1>4, <1>5, <1>9, <2>1, <2>2, <2>3, <2>4, <2>5, SettlingKeeps DEF TypeOK
  <2>7. ~Grants(session, session')
    BY <1>9, <2>1 DEF Settles, Grants
  <2> QED BY <2>6, <2>7
<1>10. CASE result[o] = "completed" /\ Completed(o, s)
  <2>1. CASE request[o].action = "preflight"
    <3>1. /\ session' = [s EXCEPT !.receipt = o, !.phase = "confirm"]
          /\ UNCHANGED <<task, validator>>
      BY <1>10, <2>1 DEF Completed
    <3>2. session' \in Sessions
      BY <1>6, <3>1, Setters, Names
    <3>3. /\ session'.phase = "confirm" /\ session'.receipt = o
          /\ session'.source = s.source /\ session'.output = s.output
          /\ session'.operationTask = s.operationTask /\ session'.stopped = s.stopped
          /\ session'.quit = s.quit /\ session'.closeWhenSafe = s.closeWhenSafe
      BY <1>6, <3>1 DEF Sessions
    <3>4. ~Busy("confirm") /\ "confirm" \notin Done
      BY DEF Busy, Done
    <3>5. request[o] = [action |-> "preflight", source |-> session.source,
                        output |-> session.output, receipt |-> 0]
      <4>1. /\ request[o] \in [action : Actions, source : Sources, output : Outputs, receipt : Ops \cup {0}]
            /\ o \in 1..Last
        BY <1>2 DEF TypeOK, Started, IInv, Numbered
      <4>2. request[o].receipt = 0
        BY <2>1, <4>1 DEF IInv, Preflights
      <4> QED BY <1>2, <2>1, <4>1, <4>2
    <3>6. Settled(Last)'
      BY <1>1, <1>2, <1>3, <1>5, <1>8, <3>1 DEF Settled
    <3>7. Success' /\ RecoveryWins' /\ CancelledPreflight'
      BY <3>3, <3>4 DEF Success, RecoveryWins, CancelledPreflight
    <3>8. Checked'
      BY <1>1, <1>2, <1>6, <1>8, <1>10, <3>3, <3>5 DEF Checked
    <3>9. IInv'
      BY <1>1, <1>2, <1>4, <1>5, <1>6, <3>1, <3>2, <3>3, <3>4, <3>6, <3>7, <3>8, SettlingKeeps DEF TypeOK
    <3>10. ~Grants(session, session')
      BY <1>6, <3>3 DEF Settles, Grants
    <3> QED BY <3>9, <3>10
  <2>2. CASE request[o].action # "preflight"
    <3> DEFINE t == [s EXCEPT !.receipt = IF request[o].action = "recover" THEN 0 ELSE @]
    <3>1. t \in Sessions
      <4>1. t = [s EXCEPT !.receipt = IF request[o].action = "recover" THEN 0 ELSE s.receipt]
        OBVIOUS
      <4>2. (IF request[o].action = "recover" THEN 0 ELSE s.receipt) \in Ops \cup {0}
        BY <1>6 DEF Sessions
      <4> HIDE DEF t
      <4> QED BY <1>6, <4>1, <4>2, Setters
    <3>2. /\ t.output = s.output /\ t.operationTask = s.operationTask /\ t.stopped = s.stopped
          /\ t.quit = s.quit /\ t.closeWhenSafe = s.closeWhenSafe /\ t.activeAction = "none"
          /\ t.cancellationSignalSent = s.cancellationSignalSent
      BY <1>6 DEF Sessions
    <3>3. Completed(o, s) =>
            IF t.cancellationSignalSent \/ t.output = 0
            THEN /\ session' = Failed(t, IF t.cancellationSignalSent THEN "cancelled"
                                                              ELSE "output_validation_failed")
                 /\ UNCHANGED <<task, validator>>
            ELSE /\ session' = [t EXCEPT !.phase = "validating", !.validationTask = o]
                 /\ validator' = [validator EXCEPT ![o] = "running"]
                 /\ task' = [task EXCEPT ![o] = "validating"]
      BY <2>2 DEF Completed
    <3> HIDE DEF t
    <3>4. Settles(session, t, FALSE)
      BY <1>6, <3>1, <3>2 DEF Settles, Grants
    <3>5. CASE t.cancellationSignalSent \/ t.output = 0
      <4>1. \E code \in {"cancelled", "output_validation_failed"} : session' = Failed(t, code)
        BY <1>10, <3>3, <3>5
      <4>2. UNCHANGED <<task, validator>>
        BY <1>10, <3>3, <3>5
      <4> QED BY <1>6, <1>9, <3>1, <3>2, <3>4, <4>1, <4>2 DEF Failures
    <3>6. CASE ~(t.cancellationSignalSent \/ t.output = 0)
      <4>1. /\ session' = [t EXCEPT !.phase = "validating", !.validationTask = o]
            /\ validator' = [validator EXCEPT ![o] = "running"]
            /\ task' = [task EXCEPT ![o] = "validating"]
        BY <1>10, <3>3, <3>6
      <4>2. session' \in Sessions
        BY <3>1, <4>1, Setters, Names
      <4>3. /\ session'.phase = "validating" /\ session'.output = t.output
            /\ session'.activeAction = "none" /\ ~session'.cancellationSignalSent
            /\ session'.operationTask = t.operationTask /\ session'.stopped = t.stopped
            /\ session'.quit = t.quit /\ session'.closeWhenSafe = t.closeWhenSafe
        BY <3>1, <3>2, <3>6, <4>1 DEF Sessions
      <4>4. /\ task' \in [Ops -> {"none", "iterating", "validating", "done"}] /\ task'[o] = "validating"
            /\ \A p \in Ops : p # o => task'[p] = task[p]
            /\ validator' \in [Ops -> {"none", "running", "cancelled", "passed", "failed", "stopped"}]
        BY <1>2, <4>1 DEF TypeOK
      <4>5. TypeOK' /\ ClientTyped'
        BY <1>1, <1>2, <1>5, <4>2, <4>4 DEF TypeOK, ClientTyped
      <4>6. Present'
        <5>1. Last \notin session.stopped
          BY <1>2 DEF IInv, Present
        <5> QED BY <1>1, <1>2, <1>5, <1>6, <1>8, <1>10, <2>2, <3>2, <4>3, <4>4, <5>1 DEF Present
      <4>7. Confirmations'
        <5>1. Last \notin confirmed /\ Last \notin asked
          BY <1>2, <1>6, <3>2, <3>6 DEF IInv, Confirmations
        <5> QED BY <1>1, <1>8, <4>3, <5>1 DEF Confirmations
      <4>8. Busy(session'.phase) /\ current' = 0 /\ session'.quit # "terminated"
        BY <1>1, <1>4, <1>6, <3>2, <4>3 DEF Busy, Settles
      <4>9. IInv'
        BY <1>1, <1>2, <1>5, <1>6, <3>2, <4>3, <4>4, <4>5, <4>6, <4>7, <4>8, BusyKeeps
      <4>10. ~Grants(session, session')
        BY <1>6, <3>2, <4>3 DEF Settles, Grants
      <4> QED BY <4>9, <4>10
    <3> QED BY <3>5, <3>6
  <2> QED BY <2>1, <2>2
<1> QED BY <1>6, <1>7, <1>9, <1>10

LEMMA ValidatorEndsKeeps ==
  ASSUME IInv, NEW o \in Ops, ValidatorEnds(o)
  PROVE  IInv' /\ session' = session
<1>1. /\ UNCHANGED <<session, request, task, view, creators, confirmed, current, stream, consumer, result, asked>>
      /\ validator[o] # "passed"
      /\ \E end \in {"failed", "passed", "stopped"} : validator' = [validator EXCEPT ![o] = end]
  BY DEF ValidatorEnds, client
<1>2. /\ validator' \in [Ops -> {"none", "running", "cancelled", "passed", "failed", "stopped"}]
      /\ \A p \in Ops : validator[p] = "passed" => validator'[p] = "passed"
  BY <1>1 DEF IInv, TypeOK
<1>3. /\ Last' = Last
      /\ Numbered' /\ Preflights' /\ Creators' /\ OutputIsFresh' /\ Requested'
  BY <1>1, RequestsStay
<1>4. TypeOK' /\ ClientTyped' /\ Future' /\ Past'
  BY <1>1, <1>2, <1>3 DEF IInv, TypeOK, ClientTyped, Future, Past, Settled
<1>5. Present' /\ Confirmations' /\ ClientRuns' /\ Checked' /\ CancelledPreflight' /\ QuitWhenIdle' /\ RecoveryWins'
  BY <1>1, <1>3 DEF IInv, Present, Confirmations, ClientRuns, Checked, CancelledPreflight, QuitWhenIdle, RecoveryWins
<1>6. Success'
  BY <1>1, <1>2, <1>3, OpsAre DEF IInv, Success
<1> QED BY <1>1, <1>3, <1>4, <1>5, <1>6 DEF IInv

LEMMA ValidationReturnsKeeps ==
  ASSUME IInv, NEW o \in Ops, ValidationReturns(o)
  PROVE  IInv' /\ ~Grants(session, session')
<1>1. /\ task[o] = "validating" /\ validator[o] \in {"passed", "failed", "stopped"}
      /\ task' = [task EXCEPT ![o] = "iterating"] /\ session' = Validated(o, session)
      /\ UNCHANGED <<request, validator, view, creators, confirmed, current, stream, consumer, result, asked>>
  BY DEF ValidationReturns, client
<1>2. /\ o = Last /\ Last # 0 /\ Busy(session.phase) /\ TypeOK /\ ClientTyped /\ session \in Sessions
      /\ stream[o] = <<>> /\ result[o] = "completed" /\ request[o].action # "preflight"
      /\ session.output = request[o].output /\ o \notin session.stopped
  <2>1. ~Settled(o)
    BY <1>1 DEF Settled
  <2>2. o = Last /\ Last # 0 /\ Busy(session.phase) /\ o \notin session.stopped
    BY <1>1, <2>1, UnsettledIsLast
  <2> QED BY <1>1, <2>2 DEF IInv, Present, TypeOK
<1>3. current = 0
  BY <1>2 DEF IInv, ClientRuns
<1>4. /\ task' \in [Ops -> {"none", "iterating", "validating", "done"}] /\ task'[o] = "iterating"
      /\ \A p \in Ops : p # o => task'[p] = task[p]
  BY <1>1, <1>2 DEF TypeOK
<1>5. Last' = Last /\ Settled(Last)'
  <2>1. Last' = Last
    BY <1>1 DEF Last, Started
  <2> QED BY <1>1, <1>2, <1>4, <2>1 DEF Settled, Ends
<1>6. /\ ~Busy("failed") /\ "failed" \notin Done /\ ~Busy("completed") /\ ~Busy("acquisitionCompleted")
      /\ "completed" \in Done /\ "acquisitionCompleted" \in Done
  BY DEF Busy, Done
<1>7. ASSUME NEW code \in {"cancelled", "output_validation_failed"}, NEW t,
             t = Failed(session, code), session' \in {t, [t EXCEPT !.validationTask = 0]}
      PROVE  IInv' /\ ~Grants(session, session')
  <2>1. /\ Settles(session, t, FALSE) /\ t \in Sessions /\ t.phase = "failed" /\ t.failure = code
        /\ t.operationTask = session.operationTask /\ t.stopped = session.stopped
    BY <1>2, <1>7, FailedIs DEF Settles, Failures
  <2>2. session' \in Sessions
    <3>1. [t EXCEPT !.validationTask = 0] \in Sessions
      BY <2>1, Setters
    <3> QED BY <1>7, <2>1, <3>1
  <2>3. /\ session'.phase = "failed" /\ session'.failure = code
        /\ session'.operationTask = session.operationTask /\ session'.stopped = session.stopped
        /\ session'.quit = t.quit /\ session'.closeWhenSafe = t.closeWhenSafe
    BY <1>7, <2>1 DEF Sessions
  <2>4. Success' /\ Checked' /\ RecoveryWins' /\ CancelledPreflight'
    BY <1>6, <2>3 DEF Success, Checked, RecoveryWins, CancelledPreflight
  <2>5. IInv'
    BY <1>1, <1>2, <1>3, <1>4, <1>5, <1>6, <2>2, <2>3, <2>4, SettlingKeeps DEF ClientTyped
  <2>6. ~Grants(session, session')
    BY <2>1, <2>3 DEF Settles, Grants
  <2> QED BY <2>5, <2>6
<1>8. ASSUME NEW t \in Sessions, Settles(session, t, FALSE), t.output = session.output,
             t.operationTask = session.operationTask, t.stopped = session.stopped,
             NEW phase \in Done, phase = "completed" => t.prompt = "none" /\ t.handlers = {},
             session' = [t EXCEPT !.phase = phase, !.validationTask = 0],
             validator[o] = "passed", ~session.cancellationSignalSent
      PROVE  IInv' /\ ~Grants(session, session')
  <2>1. phase \in Phases /\ ~Busy(phase) /\ phase \notin {"confirm", "failed"}
    BY <1>6 DEF Done, Phases
  <2>2. session' \in Sessions
    BY <1>8, <2>1, Setters
  <2>3. /\ session'.phase = phase /\ session'.output = session.output
        /\ session'.operationTask = session.operationTask /\ session'.stopped = session.stopped
        /\ session'.prompt = t.prompt /\ session'.handlers = t.handlers
        /\ session'.quit = t.quit /\ session'.closeWhenSafe = t.closeWhenSafe
    BY <1>8 DEF Sessions
  <2>4. Last \notin confirmed \cup asked
    BY <1>2, <1>8 DEF IInv, Confirmations
  <2>5. Success'
    BY <1>1, <1>2, <1>5, <1>8, <2>3, <2>4 DEF Success
  <2>6. Checked' /\ RecoveryWins' /\ CancelledPreflight'
    BY <1>8, <2>1, <2>3 DEF Checked, RecoveryWins, CancelledPreflight
  <2>7. IInv'
    BY <1>1, <1>2, <1>3, <1>4, <1>5, <2>1, <2>2, <2>3, <2>5, <2>6, SettlingKeeps DEF ClientTyped
  <2>8. ~Grants(session, session')
    BY <1>8, <2>3 DEF Settles, Grants
  <2> QED BY <2>7, <2>8
<1> DEFINE publish == validator[o] = "passed" /\ ~session.cancellationSignalSent /\ session.phase = "validating"
<1>9. CASE publish /\ request[o].action = "recover"
  <2> DEFINE t == CancelInterruptions(session)
  <2>1. session' = [t EXCEPT !.phase = "completed", !.validationTask = 0]
    BY <1>1, <1>9 DEF Validated
  <2>2. /\ Settles(session, t, FALSE) /\ t \in Sessions /\ Core(t) = Core(session)
        /\ t.prompt = "none" /\ t.handlers = {}
    BY <1>2, ResolvePromptIs DEF CancelInterruptions, Settles
  <2> HIDE DEF t
  <2>3. t.output = session.output /\ t.operationTask = session.operationTask /\ t.stopped = session.stopped
    BY <2>2 DEF Core
  <2> QED BY <1>6, <1>8, <1>9, <2>1, <2>2, <2>3
<1>10. CASE publish /\ request[o].action # "recover"
  <2>1. session' = [session EXCEPT !.phase = "acquisitionCompleted", !.validationTask = 0]
    BY <1>1, <1>10 DEF Validated
  <2>2. Settles(session, session, FALSE)
    BY <1>2 DEF Settles, Grants
  <2> QED BY <1>2, <1>6, <1>8, <1>10, <2>1, <2>2
<1>11. CASE ~publish
  <2>1. \E code \in {"cancelled", "output_validation_failed"} :
          session' \in {Failed(session, code), [Failed(session, code) EXCEPT !.validationTask = 0]}
    <3>1. CASE request[o].action = "recover"
      BY <1>1, <1>11, <3>1 DEF Validated
    <3>2. CASE request[o].action # "recover"
      BY <1>1, <1>11, <3>2 DEF Validated
    <3> QED BY <3>1, <3>2
  <2> QED BY <1>7, <2>1
<1> QED BY <1>9, <1>10, <1>11

LEMMA StreamEndsKeeps ==
  ASSUME IInv, NEW o \in Ops, StreamEnds(o)
  PROVE  IInv' /\ ~Grants(session, session')
<1> DEFINE s == [session EXCEPT !.operationTask = 0]
           failing == result[o] = "error" /\ consumer[o] # "cancelled"
<1>1. /\ task[o] = "iterating" /\ stream[o] = <<>> /\ (result[o] # "none" \/ consumer[o] = "cancelled")
      /\ task' = [task EXCEPT ![o] = "done"]
      /\ UNCHANGED <<request, validator, view, creators, confirmed, current, stream, consumer, result, asked>>
      /\ session' = IF failing THEN FailSafely([s EXCEPT !.leases = @ \ {o}], "local_helper_error")
                    ELSE IF request[o].action # "preflight" /\ session.phase \in Done
                    THEN [DropRetained(s) EXCEPT !.retained = o]
                    ELSE [s EXCEPT !.leases = @ \ {o}]
  BY DEF StreamEnds, client
<1>2. TypeOK /\ ClientTyped /\ session \in Sessions /\ "none" \notin Ends /\ "error" \notin Ends
  BY DEF IInv, TypeOK, Ends
<1>3. /\ task' \in [Ops -> {"none", "iterating", "validating", "done"}] /\ task'[o] = "done"
      /\ \A p \in Ops : p # o => task'[p] = task[p]
  BY <1>1, <1>2 DEF TypeOK
<1>4. /\ s \in Sessions /\ s.operationTask = 0 /\ s.phase = session.phase /\ s.failure = session.failure
      /\ s.source = session.source /\ s.output = session.output /\ s.receipt = session.receipt
      /\ s.activeAction = session.activeAction /\ s.stopped = session.stopped
      /\ s.cancellationSignalSent = session.cancellationSignalSent
      /\ s.prompt = session.prompt /\ s.handlers = session.handlers
      /\ s.quit = session.quit /\ s.closeWhenSafe = session.closeWhenSafe
  <2>1. s \in Sessions
    BY <1>2, Setters
  <2> QED BY <1>2, <2>1 DEF Sessions
<1> HIDE DEF s
<1>5. Last' = Last /\ Last \in Nat /\ 1..Last \subseteq Ops /\ Ops = 1..MaxOps
  <2>1. Last' = Last
    BY <1>1 DEF Last, Started
  <2> QED BY <2>1, OpsAre DEF IInv
<1>6. CASE failing
  <2>1. o = Last /\ Last # 0 /\ Busy(session.phase)
    <3>1. ~Settled(o)
      BY <1>1, <1>2, <1>6 DEF Settled
    <3> QED BY <1>1, <3>1, UnsettledIsLast
  <2>2. current = 0
    BY <1>6, <2>1 DEF IInv, ClientRuns
  <2> DEFINE t == [s EXCEPT !.leases = @ \ {o}]
  <2>3. /\ t \in Sessions /\ t.operationTask = 0 /\ t.stopped = session.stopped
        /\ t.quit = session.quit /\ t.closeWhenSafe = session.closeWhenSafe
    <3>1. s.leases \ {o} \in SUBSET Ops
      BY <1>4 DEF Sessions
    <3>2. t = [s EXCEPT !.leases = s.leases \ {o}]
      OBVIOUS
    <3>3. t \in Sessions
      <4> HIDE DEF t
      <4> QED BY <1>4, <3>1, <3>2, Setters
    <3> QED BY <1>4, <3>3 DEF Sessions
  <2>4. session' = FailSafely(t, "local_helper_error")
    BY <1>1, <1>6
  <2> HIDE DEF t
  <2>5. /\ Settles(t, session', FALSE) /\ session' \in Sessions
        /\ session'.phase = "failed" /\ session'.failure = "local_helper_error"
        /\ session'.operationTask = 0 /\ session'.stopped = session.stopped
    BY <2>3, <2>4, FailSafelyIs DEF Settles, Failures
  <2>6. ~Busy("failed") /\ "failed" \notin Done
    BY DEF Busy, Done
  <2>7. Settled(Last)'
    BY <1>1, <1>3, <1>5, <1>6, <2>1 DEF Settled
  <2>8. Success' /\ Checked' /\ RecoveryWins' /\ CancelledPreflight'
    BY <2>5, <2>6 DEF Success, Checked, RecoveryWins, CancelledPreflight
  <2>9. IInv'
    BY <1>1, <1>2, <1>3, <2>1, <2>2, <2>5, <2>6, <2>7, <2>8, SettlingKeeps DEF ClientTyped
  <2>10. ~Grants(session, session')
    BY <2>3, <2>5 DEF Settles, Grants
  <2> QED BY <2>9, <2>10
<1>7. CASE ~failing
  <2>1. Settled(o) /\ (o = Last => ~Busy(session.phase)) /\ ~(o > Last)
    <3>1. ASSUME ~Settled(o) PROVE FALSE
      <4>1. o = Last /\ Busy(session.phase) /\ consumer[o] = "iterating"
        BY <1>1, <3>1, UnsettledIsLast
      <4>2. PendingIn(<<>>, result[o])
        BY <1>1, <4>1 DEF IInv, Present
      <4>3. result[o] \notin Ends
        BY <4>2 DEF PendingIn
      <4> QED BY <1>1, <1>2, <1>7, <4>1, <4>3 DEF ClientTyped
    <3>2. o = Last /\ Busy(session.phase) => FALSE
      <4> SUFFICES ASSUME o = Last, Busy(session.phase) PROVE FALSE
        OBVIOUS
      <4>1. PendingIn(<<>>, result[o])
        BY <1>1 DEF IInv, Present
      <4>2. result[o] \notin Ends
        BY <4>1 DEF PendingIn
      <4> QED BY <1>1, <3>1, <4>2 DEF Settled
    <3>3. ~(o > Last)
      BY <1>1 DEF IInv, Future
    <3> QED BY <3>1, <3>2, <3>3
  <2>2. /\ session' \in Sessions /\ session'.phase = s.phase /\ session'.failure = s.failure
        /\ session'.source = s.source /\ session'.output = s.output /\ session'.receipt = s.receipt
        /\ session'.activeAction = s.activeAction /\ session'.stopped = s.stopped
        /\ session'.cancellationSignalSent = s.cancellationSignalSent
        /\ session'.operationTask = 0
        /\ session'.prompt = s.prompt /\ session'.handlers = s.handlers
        /\ session'.quit = s.quit /\ session'.closeWhenSafe = s.closeWhenSafe
    <3>1. CASE session' = [DropRetained(s) EXCEPT !.retained = o]
      <4> DEFINE t == DropRetained(s)
      <4>1. /\ t \in Sessions /\ Core(t) = Core(s) /\ t.prompt = s.prompt /\ t.handlers = s.handlers
            /\ t.quit = s.quit /\ t.closeWhenSafe = s.closeWhenSafe
        BY <1>4, DropRetainedIs
      <4>2. session' = [t EXCEPT !.retained = o]
        BY <3>1
      <4> HIDE DEF t
      <4>3. session' \in Sessions
        BY <4>1, <4>2, Setters
      <4>4. /\ t.phase = s.phase /\ t.failure = s.failure /\ t.source = s.source /\ t.output = s.output
            /\ t.receipt = s.receipt /\ t.activeAction = s.activeAction /\ t.stopped = s.stopped
            /\ t.cancellationSignalSent = s.cancellationSignalSent /\ t.operationTask = s.operationTask
        BY <4>1 DEF Core
      <4>5. /\ session'.phase = t.phase /\ session'.failure = t.failure
            /\ session'.source = t.source /\ session'.output = t.output /\ session'.receipt = t.receipt
            /\ session'.activeAction = t.activeAction /\ session'.stopped = t.stopped
            /\ session'.cancellationSignalSent = t.cancellationSignalSent
            /\ session'.operationTask = t.operationTask
            /\ session'.prompt = t.prompt /\ session'.handlers = t.handlers
            /\ session'.quit = t.quit /\ session'.closeWhenSafe = t.closeWhenSafe
        BY <4>1, <4>2 DEF Sessions
      <4> QED BY <1>4, <4>1, <4>3, <4>4, <4>5
    <3>2. CASE session' = [s EXCEPT !.leases = @ \ {o}]
      <4>1. s.leases \ {o} \in SUBSET Ops /\ session' = [s EXCEPT !.leases = s.leases \ {o}]
        BY <1>4, <3>2 DEF Sessions
      <4>2. session' \in Sessions
        BY <1>4, <4>1, Setters
      <4> QED BY <1>4, <4>1, <4>2 DEF Sessions
    <3> QED BY <1>1, <1>7, <3>1, <3>2
  <2>3. /\ session'.phase = session.phase /\ session'.failure = session.failure
        /\ session'.source = session.source /\ session'.output = session.output
        /\ session'.receipt = session.receipt /\ session'.activeAction = session.activeAction
        /\ session'.cancellationSignalSent = session.cancellationSignalSent
        /\ session'.operationTask = 0 /\ session'.stopped = session.stopped
        /\ session'.prompt = session.prompt /\ session'.handlers = session.handlers
        /\ session'.quit = session.quit /\ session'.closeWhenSafe = session.closeWhenSafe
    BY <1>4, <2>2
  <2>4. /\ Numbered' /\ Preflights' /\ Creators' /\ OutputIsFresh' /\ Requested'
    BY <1>1, RequestsStay
  <2>5. TypeOK' /\ ClientTyped'
    BY <1>1, <1>2, <1>3, <2>2 DEF TypeOK, ClientTyped
  <2>6. Future'
    <3>1. \A p \in Ops : p > Last => p # o /\ p # 0
      BY <1>5, <2>1
    <3> QED BY <1>1, <1>3, <1>5, <2>3, <3>1 DEF IInv, Future
  <2>7. Past'
    <3>1. Settled(o)'
      BY <1>1, <1>3, <2>1 DEF Settled
    <3>2. \A p \in 1..Last : Settled(p) => Settled(p)'
      BY <1>1, <1>3, <1>5, <3>1 DEF Settled
    <3> QED BY <1>5, <2>3, <3>2 DEF IInv, Past
  <2>8. Present' /\ ClientRuns'
    <3>1. Busy(session.phase) => task'[Last] = task[Last]
      BY <1>3, <1>5, <2>1, OpsAre DEF IInv, Present
    <3>2. Present'
      BY <1>1, <1>5, <2>3, <3>1 DEF IInv, Present
    <3>3. ClientRuns'
      BY <1>1, <1>5, <2>3, <3>1 DEF IInv, Present, ClientRuns
    <3> QED BY <3>2, <3>3
  <2>9. Confirmations' /\ Success' /\ Checked' /\ CancelledPreflight' /\ QuitWhenIdle' /\ RecoveryWins'
    <3>1. Confirmations' /\ Success'
      BY <1>1, <1>5, <2>3 DEF IInv, Confirmations, Success
    <3>2. Checked' /\ CancelledPreflight'
      BY <1>1, <1>5, <2>3 DEF IInv, Checked, CancelledPreflight
    <3>3. QuitWhenIdle' /\ RecoveryWins'
      BY <2>3 DEF IInv, QuitWhenIdle, RecoveryWins
    <3> QED BY <3>1, <3>2, <3>3
  <2>10. IInv'
    BY <2>4, <2>5, <2>6, <2>7, <2>8, <2>9 DEF IInv
  <2> QED BY <2>3, <2>10 DEF Grants
<1> QED BY <1>6, <1>7

LEMMA StopTaskKeeps ==
  ASSUME IInv, NEW o \in Ops, StopTask(o)
  PROVE  IInv' /\ session' = session
<1>1. /\ o \in session.stopped /\ task[o] = "iterating"
      /\ consumer' = [consumer EXCEPT ![o] = "cancelled"] /\ stream' = [stream EXCEPT ![o] = <<>>]
      /\ asked' = asked \cup {o}
      /\ UNCHANGED <<session, request, task, validator, view, creators, confirmed, current, result>>
  BY DEF StopTask, Client!Stop
<1>2. /\ Settled(o) /\ ~(o > Last)
      /\ Busy(session.phase) \/ session.phase \in Done => o # Last
  <2>1. Settled(o)
    BY <1>1, UnsettledIsLast
  <2> QED BY <1>1, <2>1 DEF IInv, Future, Present, Success
<1>3. TypeOK /\ ClientTyped /\ stream[o] = <<>>
  BY <1>1, <1>2 DEF Settled, IInv
<1>4. /\ stream' = stream
      /\ consumer' \in [Ops -> {"none", "iterating", "cancelled"}]
      /\ \A p \in Ops : p # o => consumer'[p] = consumer[p]
      /\ asked' \subseteq Ops
  <2>1. stream' = stream
    BY <1>1, <1>3 DEF ClientTyped
  <2> QED BY <1>1, <1>3, <2>1 DEF ClientTyped
<1>5. /\ Last' = Last
      /\ Numbered' /\ Preflights' /\ Creators' /\ OutputIsFresh' /\ Requested'
  BY <1>1, RequestsStay
<1>6. TypeOK' /\ ClientTyped'
  BY <1>1, <1>3, <1>4 DEF TypeOK, ClientTyped
<1>7. Future'
  BY <1>1, <1>2, <1>4, <1>5 DEF IInv, Future
<1>8. Past' /\ ClientRuns' /\ Checked' /\ CancelledPreflight' /\ QuitWhenIdle' /\ RecoveryWins'
  BY <1>1, <1>4, <1>5 DEF IInv, Past, Settled, ClientRuns, Checked, CancelledPreflight, QuitWhenIdle, RecoveryWins
<1>9. Present' /\ Confirmations' /\ Success'
  <2>1. Last # 0 => Last \in Ops
    BY OpsAre DEF IInv
  <2>2. Present'
    BY <1>1, <1>2, <1>4, <1>5, <2>1 DEF IInv, Present
  <2>3. Confirmations' /\ Success'
    BY <1>1, <1>2, <1>5 DEF IInv, Confirmations, Success
  <2> QED BY <2>2, <2>3
<1> QED BY <1>1, <1>5, <1>6, <1>7, <1>8, <1>9 DEF IInv
-----------------------------------------------------------------------------
(***************************************************************************)
(* The helper.                                                             *)
(***************************************************************************)

LEMMA CreateOutputKeeps ==
  ASSUME IInv, NEW o \in Ops, CreateOutput(o)
  PROVE  IInv' /\ session' = session
<1>1. /\ o = Last /\ request[o].action # "preflight" /\ creators' = creators \cup {o}
      /\ UNCHANGED <<session, request, task, validator, view, confirmed, current, stream, consumer, result, asked>>
  BY DEF CreateOutput, unobserved, client, IInv, ClientRuns, Ops
<1>2. /\ Last' = Last /\ Started' = Started /\ Started = 1..Last /\ Last \in Nat /\ o \in 1..Last
  BY <1>1, OpsAre DEF Last, Started, IInv, Numbered, Ops
<1>3. TypeOK' /\ ClientTyped' /\ Numbered' /\ Preflights'
  BY <1>1, <1>2 DEF IInv, TypeOK, ClientTyped, Numbered, Preflights
<1>4. Future'
  <2>1. \A p \in Ops : p > Last => p # o
    BY <1>2 DEF Ops
  <2> QED BY <1>1, <1>2, <2>1 DEF IInv, Future
<1>5. Past' /\ Present' /\ Confirmations' /\ ClientRuns'
  BY <1>1, <1>2 DEF IInv, Past, Settled, Present, Confirmations, ClientRuns
<1>6. Success' /\ Checked' /\ CancelledPreflight' /\ QuitWhenIdle' /\ RecoveryWins' /\ Requested'
  BY <1>1, <1>2 DEF IInv, Success, Checked, CancelledPreflight, QuitWhenIdle, RecoveryWins, Requested
<1>7. Creators'
  BY <1>1, <1>2 DEF IInv, Creators
<1>8. OutputIsFresh'
  <2>1. \A p, q \in 1..Last : p < q => p # o
    BY <1>1, <1>2
  <2> QED BY <1>1, <1>2, <2>1 DEF IInv, OutputIsFresh
<1> QED BY <1>1, <1>3, <1>4, <1>5, <1>6, <1>7, <1>8 DEF IInv

\* Whatever the helper does is only handled later.
LEMMA HelperKeeps ==
  ASSUME IInv, NEW o \in Ops, HelperProgress(o) \/ HelperEnds(o)
  PROVE  IInv' /\ session' = session
<1>1. /\ current = o /\ current # 0
      /\ UNCHANGED <<session, request, task, validator, view, creators, confirmed, consumer, asked>>
  BY DEF HelperProgress, HelperEnds, unobserved, Client!Progress, Client!End, Ops
<1>2. /\ o = Last /\ Busy(session.phase) /\ result[o] = "none" /\ task[o] = "iterating"
      /\ consumer[o] = "iterating" /\ PendingIn(stream[o], result[o]) /\ TypeOK /\ ClientTyped
      /\ stream[o] \in Seq(Events) /\ "none" \notin Ends
  BY <1>1 DEF IInv, ClientRuns, Present, ClientTyped, Ends
<1>3. Last' = Last /\ Confirmations'
  <2>1. Last' = Last
    BY <1>1 DEF Last, Started
  <2> QED BY <1>1, <2>1 DEF IInv, Confirmations
<1>4. ASSUME stream' \in [Ops -> Seq(Events)], result' \in [Ops -> Ends \cup {"none", "error"}],
             \A p \in Ops : p # Last => stream'[p] = stream[p] /\ result'[p] = result[p],
             PendingIn(stream'[Last], result'[Last]),
             current' = 0 \/ (current' = current /\ result' = result)
      PROVE  IInv'
  <2>1. TypeOK' /\ ClientTyped'
    BY <1>1, <1>2, <1>4 DEF TypeOK, ClientTyped
  <2>2. Present'
    BY <1>1, <1>2, <1>3, <1>4 DEF IInv, Present
  <2>3. session'.quit # "terminated"
    BY <1>1, <1>2 DEF IInv, QuitWhenIdle
  <2> QED BY <1>1, <1>2, <1>3, <1>4, <2>1, <2>2, <2>3, BusyKeeps
<1>5. CASE HelperProgress(o)
  <2> DEFINE q == Append(IF Len(stream[o]) < Capacity THEN stream[o] ELSE Tail(stream[o]), "progress")
  <2>1. /\ stream' = [stream EXCEPT ![o] = q] /\ current' = current /\ result' = result
    BY <1>2, <1>5 DEF HelperProgress, Client!Progress, Client!Yielded
  <2>2. q \in Seq(Events) /\ PendingIn(q, result[o])
    BY <1>2, PendingLast DEF Events
  <2> HIDE DEF q
  <2>3. /\ stream' \in [Ops -> Seq(Events)] /\ stream'[o] = q
        /\ \A p \in Ops : p # o => stream'[p] = stream[p]
    BY <1>2, <2>1, <2>2 DEF ClientTyped
  <2> QED BY <1>1, <1>2, <1>4, <2>1, <2>2, <2>3 DEF ClientTyped
<1>6. CASE HelperEnds(o)
  <2>1. PICK end \in session.scope.outcomes \ {"progress", "unsafe"} : Client!Ends(current, end)
    BY <1>1, <1>6 DEF HelperEnds, Client!End
  <2>2. session.scope.outcomes \subseteq Ends \cup {"progress", "error", "unsafe"}
    BY <1>2, SessionAssumption DEF TypeOK, Sessions, Ends
  <2>3. end \in Ends \cup {"error"}
    BY <2>2
  <2> QED BY <1>1, <1>4, <2>1, <2>3, ClientEnds
<1> QED BY <1>1, <1>5, <1>6
-----------------------------------------------------------------------------
(***************************************************************************)
(* What the views and the application's delegate call.                     *)
(***************************************************************************)

LEMMA RefusedKeeps ==
  ASSUME IInv, ~Busy(session.phase), NEW s \in Sessions,
         s.stopped = session.stopped, s.operationTask = session.operationTask,
         NEW code \in Failures \ {"preflight_cancelled"}, session' = FailSafely(s, code),
         UNCHANGED unstarted, UNCHANGED <<validator, view, creators, confirmed>>
  PROVE  IInv'
<1>1. /\ session' \in Sessions /\ session'.phase = "failed" /\ session'.failure = code
      /\ session'.operationTask = session.operationTask /\ session'.stopped = session.stopped
  BY FailSafelyIs DEF Settles
<1>2. UNCHANGED <<request, task, client>>
  BY DEF unstarted
<1> QED BY <1>1, <1>2, LeavingKeeps

LEMMA HomeKeeps ==
  ASSUME IInv, ~Busy(session.phase), session' = Home(session),
         UNCHANGED unstarted, UNCHANGED <<validator, view, creators, confirmed>>
  PROVE  IInv'
<1>1. /\ session' \in Sessions /\ session'.phase = "chooseBackup" /\ session'.operationTask = 0
      /\ session'.stopped = session.stopped \cup ({session.operationTask} \ {0})
  BY HomeIs DEF Settles, IInv, TypeOK
<1>2. UNCHANGED <<request, task, client>>
  BY DEF unstarted
<1> QED BY <1>1, <1>2, LeavingKeeps

LEMMA LaunchKeeps ==
  ASSUME IInv, ~Busy(session.phase), NEW s \in Sessions,
         s.stopped = session.stopped, s.operationTask = session.operationTask,
         ~s.cancellationSignalSent, s.quit # "terminated", s.source \in Sources, s.output \in Outputs,
         NEW action \in Actions, NEW phase \in {"preflighting", "running"},
         s.activeAction = "preflight" => action = "preflight",
         \A o \in creators : request[o].output # s.output,
         action = "preflight" => s.receipt = 0,
         action = "recover" =>
           /\ Last # 0 /\ s.receipt = Last /\ result[Last] = "completed"
           /\ request[Last] = [action |-> "preflight", source |-> s.source,
                               output |-> s.output, receipt |-> 0],
         Launch(s, action, phase), UNCHANGED <<validator, view, creators, confirmed>>
  PROVE  IInv'
<1>1. \/ Launched(s, action, phase)
      \/ session' = FailSafely(s, "local_helper_error") /\ UNCHANGED unstarted
  BY DEF Launch, Launched
<1>2. "local_helper_error" \in Failures \ {"preflight_cancelled"}
  BY DEF Failures
<1>3. CASE Launched(s, action, phase)
  BY <1>3, LaunchedKeeps
<1>4. CASE session' = FailSafely(s, "local_helper_error") /\ UNCHANGED unstarted
  BY <1>2, <1>4, RefusedKeeps
<1> QED BY <1>1, <1>3, <1>4

LEMMA StartPreflightKeeps ==
  ASSUME IInv, ~Busy(session.phase), NEW x \in Sessions,
         x.stopped = session.stopped, x.operationTask = session.operationTask,
         x.quit # "terminated", x.source \in Sources, x.output \in Outputs,
         \A o \in creators : request[o].output # x.output,
         StartPreflight(x), UNCHANGED <<validator, view, creators, confirmed>>
  PROVE  IInv'
<1> DEFINE t == [x EXCEPT !.receipt = 0]
           p == PrepareForOperation(t)
           s == [p EXCEPT !.isAcquisitionRoute = FALSE, !.activeAction = "preflight"]
<1>1. RefuseDestination(t) \/ Launch(s, "preflight", "preflighting")
  BY DEF StartPreflight
<1>2. /\ t \in Sessions /\ t.receipt = 0 /\ t.stopped = x.stopped /\ t.operationTask = x.operationTask
      /\ t.quit = x.quit /\ t.source = x.source /\ t.output = x.output
  <2>1. t \in Sessions
    BY Setters
  <2> QED BY <2>1 DEF Sessions
<1> HIDE DEF t
<1>3. /\ p \in Sessions /\ ~p.cancellationSignalSent /\ p.quit # "terminated"
      /\ p.source = t.source /\ p.output = t.output /\ p.receipt = t.receipt
      /\ p.operationTask = t.operationTask /\ p.stopped = t.stopped
  BY <1>2, PrepareIs DEF Settles
<1> HIDE DEF p
<1>4. /\ s \in Sessions /\ ~s.cancellationSignalSent /\ s.quit # "terminated"
      /\ s.source = p.source /\ s.output = p.output /\ s.receipt = p.receipt
      /\ s.operationTask = p.operationTask /\ s.stopped = p.stopped
  <2>1. s \in Sessions
    BY <1>3, Setters
  <2> QED BY <1>3, <2>1 DEF Sessions
<1> HIDE DEF s
<1>5. CASE RefuseDestination(t)
  <2>1. session' = FailSafely(t, "unsafe_path") /\ UNCHANGED unstarted
    BY <1>5 DEF RefuseDestination
  <2>2. "unsafe_path" \in Failures \ {"preflight_cancelled"}
    BY DEF Failures
  <2> QED BY <1>2, <2>1, <2>2, RefusedKeeps
<1>6. CASE Launch(s, "preflight", "preflighting")
  <2>1. "preflight" \in Actions /\ "preflighting" \in {"preflighting", "running"} /\ "preflight" # "recover"
    BY DEF Actions
  <2>2. /\ s.stopped = session.stopped /\ s.operationTask = session.operationTask
        /\ s.source \in Sources /\ s.output \in Outputs /\ s.receipt = 0
        /\ \A o \in creators : request[o].output # s.output
    BY <1>2, <1>3, <1>4
  <2> QED BY <1>4, <1>6, <2>1, <2>2, LaunchKeeps
<1> QED BY <1>1, <1>5, <1>6

LEMMA SelectBackupKeeps ==
  ASSUME IInv, NEW b \in Sources, SelectBackup(b)
  PROVE  IInv' /\ ~Busy(session.phase)
<1> DEFINE d == DropRetained(session)
           x == [d EXCEPT !.source = b, !.output = FreshOutput(0), !.receipt = 0]
<1>1. /\ ~Busy(session.phase) /\ session.quit # "terminated" /\ StartPreflight(x)
      /\ UNCHANGED <<validator, view, creators, confirmed>>
  BY DEF SelectBackup, Alive
<1>2. FreshOutput(0) \in Outputs /\ \A o \in creators : request[o].output # FreshOutput(0)
  BY FreshOutputIs, OpsAre DEF IInv
<1>3. d \in Sessions /\ Core(d) = Core(session) /\ d.quit = session.quit
  BY DropRetainedIs DEF IInv, TypeOK
<1> HIDE DEF d
<1>4. /\ x \in Sessions /\ x.source = b /\ x.output = FreshOutput(0) /\ x.quit = d.quit
      /\ x.stopped = d.stopped /\ x.operationTask = d.operationTask
  <2>1. x \in Sessions
    BY <1>2, <1>3, Setters
  <2> QED BY <1>3, <2>1 DEF Sessions
<1> HIDE DEF x
<1>5. x.stopped = session.stopped /\ x.operationTask = session.operationTask
  BY <1>3, <1>4 DEF Core
<1> QED BY <1>1, <1>2, <1>3, <1>4, <1>5, StartPreflightKeeps

\* What was only checked was not created.
LEMMA CheckedIsUnused ==
  ASSUME IInv, Last # 0, request[Last].action = "preflight"
  PROVE  \A o \in creators : request[o].output # request[Last].output
<1>1. Last \in Nat /\ Started = 1..Last
  BY OpsAre DEF IInv, Numbered
<1>2. ASSUME NEW o \in creators, request[o].output = request[Last].output PROVE FALSE
  <2>1. o \in 1..Last /\ o # Last
    BY DEF IInv, Creators
  <2>2. o < Last /\ o \in Started /\ Last \in Started
    BY <1>1, <2>1
  <2> QED BY <1>2, <2>2 DEF IInv, OutputIsFresh
<1> QED BY <1>2

LEMMA StartRecoveryKeeps ==
  ASSUME IInv, StartRecovery
  PROVE  IInv' /\ ~Busy(session.phase)
<1> DEFINE p == PrepareForOperation(session)
           s == [p EXCEPT !.isAcquisitionRoute = FALSE, !.activeAction = "recover"]
<1>1. /\ session.phase = "confirm" /\ ~Busy(session.phase) /\ session.quit # "terminated"
      /\ session.source # 0 /\ session.output # 0 /\ session \in Sessions
      /\ RefuseDestination(session) \/ Launch(s, "recover", "running")
      /\ UNCHANGED <<validator, view, creators, confirmed>>
  BY DEF StartRecovery, Alive, Busy, IInv, TypeOK
<1>2. /\ p \in Sessions /\ ~p.cancellationSignalSent /\ p.quit # "terminated"
      /\ p.source = session.source /\ p.output = session.output /\ p.receipt = session.receipt
      /\ p.operationTask = session.operationTask /\ p.stopped = session.stopped
  BY <1>1, PrepareIs DEF Settles
<1> HIDE DEF p
<1>3. /\ s \in Sessions /\ ~s.cancellationSignalSent /\ s.quit # "terminated"
      /\ s.source = p.source /\ s.output = p.output /\ s.receipt = p.receipt
      /\ s.operationTask = p.operationTask /\ s.stopped = p.stopped /\ s.activeAction = "recover"
  <2>1. s \in Sessions
    BY <1>2, Setters
  <2> QED BY <1>2, <2>1 DEF Sessions
<1> HIDE DEF s
<1>4. CASE RefuseDestination(session)
  <2>1. session' = FailSafely(session, "unsafe_path") /\ UNCHANGED unstarted
    BY <1>4 DEF RefuseDestination
  <2>2. "unsafe_path" \in Failures \ {"preflight_cancelled"}
    BY DEF Failures
  <2> QED BY <1>1, <2>1, <2>2, RefusedKeeps
<1>5. CASE Launch(s, "recover", "running")
  <2>1. "recover" \in Actions /\ "running" \in {"preflighting", "running"} /\ "recover" # "preflight"
    BY DEF Actions
  <2>2. /\ s.stopped = session.stopped /\ s.operationTask = session.operationTask
        /\ s.source \in Sources /\ s.output \in Outputs
    BY <1>1, <1>2, <1>3 DEF Sessions
  <2>3. /\ Last # 0 /\ s.receipt = Last /\ result[Last] = "completed"
        /\ request[Last] = [action |-> "preflight", source |-> s.source,
                            output |-> s.output, receipt |-> 0]
    BY <1>1, <1>2, <1>3 DEF IInv, Checked
  <2>4. \A o \in creators : request[o].output # s.output
    BY <2>3, CheckedIsUnused
  <2> QED BY <1>1, <1>3, <1>5, <2>1, <2>2, <2>3, <2>4, LaunchKeeps
<1> QED BY <1>1, <1>4, <1>5

LEMMA StartAcquisitionKeeps ==
  ASSUME IInv, NEW b \in Sources, StartAcquisition(b)
  PROVE  IInv' /\ ~Busy(session.phase)
<1> DEFINE x == [session EXCEPT !.source = b, !.output = FreshOutput(0)]
           p == PrepareForOperation(x)
           s == [p EXCEPT !.isAcquisitionRoute = TRUE, !.activeAction = "recover"]
<1>1. /\ ~Busy(session.phase) /\ session.quit # "terminated" /\ session \in Sessions
      /\ RefuseDestination(session) \/ Launch(s, "acquire", "running")
      /\ UNCHANGED <<validator, view, creators, confirmed>>
  BY DEF StartAcquisition, Alive, IInv, TypeOK
<1>2. FreshOutput(0) \in Outputs /\ \A o \in creators : request[o].output # FreshOutput(0)
  BY FreshOutputIs, OpsAre DEF IInv
<1>3. /\ x \in Sessions /\ x.source = b /\ x.output = FreshOutput(0) /\ x.quit = session.quit
      /\ x.stopped = session.stopped /\ x.operationTask = session.operationTask
  <2>1. x \in Sessions
    BY <1>1, <1>2, Setters
  <2> QED BY <1>1, <2>1 DEF Sessions
<1> HIDE DEF x
<1>4. /\ p \in Sessions /\ ~p.cancellationSignalSent /\ p.quit # "terminated"
      /\ p.source = x.source /\ p.output = x.output
      /\ p.operationTask = x.operationTask /\ p.stopped = x.stopped
  BY <1>1, <1>3, PrepareIs DEF Settles
<1> HIDE DEF p
<1>5. /\ s \in Sessions /\ ~s.cancellationSignalSent /\ s.quit # "terminated"
      /\ s.source = p.source /\ s.output = p.output
      /\ s.operationTask = p.operationTask /\ s.stopped = p.stopped /\ s.activeAction = "recover"
  <2>1. s \in Sessions
    BY <1>4, Setters
  <2> QED BY <1>4, <2>1 DEF Sessions
<1> HIDE DEF s
<1>6. CASE RefuseDestination(session)
  <2>1. session' = FailSafely(session, "unsafe_path") /\ UNCHANGED unstarted
    BY <1>6 DEF RefuseDestination
  <2>2. "unsafe_path" \in Failures \ {"preflight_cancelled"}
    BY DEF Failures
  <2> QED BY <1>1, <2>1, <2>2, RefusedKeeps
<1>7. CASE Launch(s, "acquire", "running")
  <2>1. /\ "acquire" \in Actions /\ "running" \in {"preflighting", "running"}
        /\ "acquire" # "recover" /\ "acquire" # "preflight" /\ "recover" # "preflight"
    BY DEF Actions
  <2>2. /\ s.stopped = session.stopped /\ s.operationTask = session.operationTask
        /\ s.source \in Sources /\ s.output \in Outputs
        /\ \A o \in creators : request[o].output # s.output
    BY <1>2, <1>3, <1>4, <1>5
  <2> QED BY <1>1, <1>5, <1>7, <2>1, <2>2, LaunchKeeps
<1> QED BY <1>1, <1>6, <1>7

LEMMA RetryPreflightKeeps ==
  ASSUME IInv, ~Busy(session.phase), session.quit # "terminated", NEW output \in Outputs,
         session.source # 0 /\ session.output # 0 =>
           \A o \in creators : request[o].output # output,
         RetryPreflight(session, output), UNCHANGED <<validator, view, creators, confirmed>>
  PROVE  IInv'
<1>0. session \in Sessions
  BY DEF IInv, TypeOK
<1>1. CASE session.source = 0 \/ session.output = 0
  BY <1>1, HomeKeeps DEF RetryPreflight
<1>2. CASE ~(session.source = 0 \/ session.output = 0)
  <2> DEFINE p == PrepareForOperation(session)
             d == DropRetained(p)
             x == [d EXCEPT !.receipt = 0, !.output = output]
  <2>1. StartPreflight(x)
    BY <1>2 DEF RetryPreflight
  <2>2. /\ p \in Sessions /\ p.quit # "terminated" /\ p.source = session.source
        /\ p.operationTask = session.operationTask /\ p.stopped = session.stopped
    BY <1>0, PrepareIs DEF Settles
  <2> HIDE DEF p
  <2>3. d \in Sessions /\ Core(d) = Core(p) /\ d.quit = p.quit
    BY <2>2, DropRetainedIs
  <2> HIDE DEF d
  <2>4. /\ x \in Sessions /\ x.output = output /\ x.source = d.source /\ x.quit = d.quit
        /\ x.operationTask = d.operationTask /\ x.stopped = d.stopped
    <3>1. x \in Sessions
      BY <2>3, Setters
    <3> QED BY <2>3, <3>1 DEF Sessions
  <2> HIDE DEF x
  <2>5. /\ x.source = session.source /\ x.operationTask = session.operationTask
        /\ x.stopped = session.stopped /\ x.source \in Sources
    BY <1>0, <1>2, <2>2, <2>3, <2>4 DEF Core, Sessions
  <2> QED BY <1>2, <2>1, <2>2, <2>3, <2>4, <2>5, StartPreflightKeeps
<1> QED BY <1>1, <1>2

LEMMA RecoverFromFailureKeeps ==
  ASSUME IInv, RecoverFromFailure
  PROVE  IInv' /\ ~Busy(session.phase)
<1>1. /\ session.phase = "failed" /\ ~Busy(session.phase) /\ session.quit # "terminated"
      /\ session \in Sessions /\ UNCHANGED <<validator, view, creators, confirmed>>
  BY DEF RecoverFromFailure, Alive, Busy, IInv, TypeOK
<1>2. \/ session' = Home(session) /\ UNCHANGED unstarted
      \/ RetryPreflight(session, FreshOutput(session.output))
      \/ RouteOf(session.failure) = "retrySamePreflight" /\ RetryPreflight(session, session.output)
  BY DEF RecoverFromFailure
<1>3. CASE session' = Home(session) /\ UNCHANGED unstarted
  BY <1>1, <1>3, HomeKeeps
<1>4. CASE RetryPreflight(session, FreshOutput(session.output))
  <2>1. session.output \in Outputs \cup {0}
    BY <1>1 DEF Sessions
  <2>2. /\ FreshOutput(session.output) \in Outputs
        /\ \A o \in creators : request[o].output # FreshOutput(session.output)
    BY <2>1, FreshOutputIs, OpsAre DEF IInv
  <2> QED BY <1>1, <1>4, <2>2, RetryPreflightKeeps
<1>5. CASE RouteOf(session.failure) = "retrySamePreflight" /\ RetryPreflight(session, session.output)
  <2>1. session.failure = "preflight_cancelled"
    BY <1>5 DEF RouteOf
  <2>2. Last # 0 /\ request[Last].action = "preflight" /\ session.output = request[Last].output
    BY <1>1, <2>1 DEF IInv, CancelledPreflight
  <2>3. session.output \in Outputs /\ \A o \in creators : request[o].output # session.output
    <3>1. request[Last] # NoRequest /\ Last \in Ops
      BY <2>2, OpsAre DEF IInv, Numbered, Started
    <3>2. request[Last].output \in Outputs
      BY <3>1 DEF IInv, TypeOK
    <3> QED BY <2>2, <3>2, CheckedIsUnused
  <2> QED BY <1>1, <1>5, <2>3, RetryPreflightKeeps
<1> QED BY <1>1, <1>2, <1>3, <1>4, <1>5

\* Someone who asks is let go when the operation is cancelled, or when there is none.
LEMMA RequestCancellationKeeps ==
  ASSUME IInv, NEW s \in Sessions, Core(s) = Core(session), s.prompt = session.prompt,
         s.handlers = session.handlers, s.closeWhenSafe = session.closeWhenSafe,
         s.quit # "terminated", s.quit = "waiting" => session.quit = "waiting",
         NEW origin \in {"cancelButton", "windowClose", "applicationQuit"},
         NEW who \in SUBSET {"window", "quit"}, RequestCancellation(s, origin, who),
         UNCHANGED <<request, task, view, creators>>
  PROVE  /\ IInv'
         /\ Grants(session, session') => Last \in confirmed' \/ ~Busy(session.phase)
<1>1. /\ s.phase = session.phase /\ view \in Phases /\ TypeOK
      /\ session.phase = "completed" => s.prompt = "none" /\ s.handlers = {}
  BY DEF Core, IInv, TypeOK, RecoveryWins
<1>2. ASSUME NEW yes \in BOOLEAN, session' = Answer(s, who, yes), UNCHANGED <<confirmed, validator, client>>,
             ~Busy(session.phase) \/ session.phase = "cancelling"
      PROVE  IInv' /\ (Grants(session, session') => Last \in confirmed' \/ ~Busy(session.phase))
  <2>1. /\ session' \in Sessions /\ Core(session') = Core(s) /\ session'.prompt = s.prompt
        /\ session'.handlers = s.handlers /\ session'.quit # "terminated"
    BY <1>2, AnswerIs DEF Settles
  <2>2. IInv'
    BY <1>1, <1>2, <2>1, QuietKeeps
  <2>3. session.phase = "cancelling" => Last \in confirmed
    BY DEF IInv, Confirmations, Busy
  <2> QED BY <1>2, <2>2, <2>3
<1>3. CASE s.phase = "preflighting"
  <2> DEFINE t == Answer(s, who, TRUE)
  <2>1. BeginCancellation(t)
    BY <1>3 DEF RequestCancellation
  <2>2. /\ t \in Sessions /\ Core(t) = Core(session) /\ t.prompt = s.prompt /\ t.handlers = s.handlers
        /\ t.quit # "terminated"
    BY AnswerIs DEF Settles
  <2> HIDE DEF t
  <2>3. IInv' /\ (Busy(session.phase) => Last \in confirmed')
    BY <1>1, <2>1, <2>2, BeginCancellationKeeps
  <2> QED BY <2>3
<1>4. CASE s.phase \in {"running", "validating"}
  <2> DEFINE prompt == IF s.prompt # "none" /\ Rank(s.prompt) >= Rank(origin) THEN s.prompt ELSE origin
             handlers == s.handlers \cup who
  <2>1. session' = [s EXCEPT !.handlers = handlers, !.prompt = prompt] /\ UNCHANGED <<confirmed, validator, client>>
    BY <1>4 DEF RequestCancellation
  <2>2. /\ handlers \in SUBSET {"window", "quit"}
        /\ prompt \in {"none", "cancelButton", "windowClose", "applicationQuit"}
    BY DEF Sessions
  <2> HIDE DEF prompt, handlers
  <2>3. session' \in Sessions
    BY <2>1, <2>2, Setters
  <2>4. Core(session') = Core(s)
    BY <2>1 DEF Sessions, Core
  <2>5. session'.quit = s.quit /\ session'.closeWhenSafe = s.closeWhenSafe
    BY <2>1 DEF Sessions
  <2>6. IInv'
    BY <1>1, <1>4, <2>1, <2>3, <2>4, <2>5, QuietKeeps
  <2> QED BY <2>5, <2>6 DEF Grants
<1>5. CASE s.phase = "cancelling"
  <2>1. session' = Answer(s, who, TRUE) /\ UNCHANGED <<confirmed, validator, client>>
    BY <1>5 DEF RequestCancellation
  <2> QED BY <1>1, <1>2, <1>5, <2>1
<1>6. CASE s.phase \notin {"preflighting", "running", "validating", "cancelling"}
  <2>1. session' = Answer(s, who, origin # "cancelButton") /\ UNCHANGED <<confirmed, validator, client>>
    BY <1>6 DEF RequestCancellation
  <2>2. (origin # "cancelButton") \in BOOLEAN /\ ~Busy(session.phase)
    BY <1>1, <1>6 DEF Busy
  <2> QED BY <1>2, <2>1, <2>2
<1> QED BY <1>3, <1>4, <1>5, <1>6

LEMMA CallersKeep ==
  ASSUME IInv, CancelButton \/ AskClose \/ AskQuit \/ TerminateWhenIdle
                 \/ ContinueRecovery \/ ConfirmCancellation \/ UpdateView
  PROVE  /\ IInv'
         /\ Grants(session, session') => Last \in confirmed' \/ ~Busy(session.phase)
<1>1. /\ TypeOK /\ session \in Sessions /\ view \in Phases
      /\ session.phase = "completed" => session.prompt = "none" /\ session.handlers = {}
  BY DEF IInv, TypeOK, RecoveryWins
<1>2. CASE CancelButton
  <2>1. /\ RequestCancellation(session, "cancelButton", {}) /\ UNCHANGED <<request, task, view, creators>>
        /\ session.quit # "terminated" /\ {} \in SUBSET {"window", "quit"}
    BY <1>2 DEF CancelButton, Alive
  <2> QED BY <1>1, <2>1, RequestCancellationKeeps
<1>3. CASE AskClose
  <2> DEFINE s == [session EXCEPT !.closeRequestPending = TRUE]
  <2>1. /\ RequestCancellation(s, "windowClose", {"window"}) /\ UNCHANGED <<request, task, view, creators>>
        /\ session.quit # "terminated" /\ {"window"} \in SUBSET {"window", "quit"}
    BY <1>3 DEF AskClose, Alive
  <2>2. s \in Sessions
    BY <1>1, Setters
  <2>3. Core(s) = Core(session)
    BY <1>1 DEF Sessions, Core
  <2>4. /\ s.prompt = session.prompt /\ s.handlers = session.handlers
        /\ s.closeWhenSafe = session.closeWhenSafe /\ s.quit = session.quit
    BY <1>1 DEF Sessions
  <2> HIDE DEF s
  <2> QED BY <2>1, <2>2, <2>3, <2>4, RequestCancellationKeeps
<1>4. CASE AskQuit /\ Busy(session.phase)
  <2> DEFINE s == [session EXCEPT !.quit = "asked"]
  <2>1. /\ RequestCancellation(s, "applicationQuit", {"quit"}) /\ UNCHANGED <<request, task, view, creators>>
        /\ {"quit"} \in SUBSET {"window", "quit"}
    BY <1>4 DEF AskQuit
  <2>2. s \in Sessions
    BY <1>1, Setters
  <2>3. Core(s) = Core(session)
    BY <1>1 DEF Sessions, Core
  <2>4. /\ s.prompt = session.prompt /\ s.handlers = session.handlers
        /\ s.closeWhenSafe = session.closeWhenSafe /\ s.quit = "asked"
    BY <1>1 DEF Sessions
  <2> HIDE DEF s
  <2> QED BY <2>1, <2>2, <2>3, <2>4, RequestCancellationKeeps
<1>5. CASE (AskQuit /\ ~Busy(session.phase)) \/ TerminateWhenIdle
  <2>1. /\ session' = [session EXCEPT !.quit = "terminated"] /\ ~Busy(session.phase)
        /\ UNCHANGED <<request, task, validator, view, creators, confirmed, client>>
    BY <1>5 DEF AskQuit, TerminateWhenIdle
  <2>2. session' \in Sessions
    BY <1>1, <2>1, Setters
  <2>3. Core(session') = Core(session)
    BY <1>1, <2>1 DEF Sessions, Core
  <2>4. session'.prompt = session.prompt /\ session'.handlers = session.handlers
    BY <1>1, <2>1 DEF Sessions
  <2> QED BY <1>1, <2>1, <2>2, <2>3, <2>4, QuietKeeps
<1>6. CASE ContinueRecovery
  <2>1. /\ session' = ResolvePrompt(session, FALSE) /\ session.quit # "terminated"
        /\ UNCHANGED <<request, task, validator, view, creators, confirmed, client>>
    BY <1>6 DEF ContinueRecovery, Alive
  <2>2. /\ Settles(session, session', FALSE) /\ Core(session') = Core(session)
        /\ session'.prompt = "none" /\ session'.handlers = {}
    BY <1>1, <2>1, ResolvePromptIs
  <2>3. IInv'
    BY <1>1, <2>1, <2>2, QuietKeeps DEF Settles
  <2> QED BY <2>2, <2>3 DEF Settles
<1>7. CASE ConfirmCancellation
  <2> DEFINE s == ResolvePrompt(session, TRUE)
  <2>1. /\ BeginCancellation(s) /\ UNCHANGED <<request, task, view, creators>>
        /\ session.quit # "terminated"
    BY <1>7 DEF ConfirmCancellation, Alive
  <2>2. /\ Settles(session, s, TRUE) /\ Core(s) = Core(session) /\ s.prompt = "none" /\ s.handlers = {}
    BY <1>1, ResolvePromptIs
  <2> HIDE DEF s
  <2>3. IInv' /\ (Busy(session.phase) => Last \in confirmed')
    BY <1>1, <2>1, <2>2, BeginCancellationKeeps DEF Settles
  <2> QED BY <2>3
<1>8. CASE UpdateView
  <2> DEFINE close == session.closeWhenSafe /\ Busy(session.phase)
  <2>1. /\ session' = [session EXCEPT !.closeWhenSafe = close] /\ session.quit # "terminated"
        /\ view' = session.phase
        /\ UNCHANGED <<request, task, validator, creators, confirmed, client>>
    BY <1>8 DEF UpdateView, Alive
  <2>2. close \in BOOLEAN /\ (close => session.closeWhenSafe)
    BY DEF Busy
  <2> HIDE DEF close
  <2>3. session' \in Sessions /\ view' \in Phases
    <3>1. session' \in Sessions
      BY <1>1, <2>1, <2>2, Setters
    <3>2. session.phase \in Phases
      BY <1>1 DEF Sessions
    <3> QED BY <2>1, <3>1, <3>2
  <2>4. Core(session') = Core(session)
    BY <1>1, <2>1 DEF Sessions, Core
  <2>5. /\ session'.prompt = session.prompt /\ session'.handlers = session.handlers
        /\ session'.quit = session.quit /\ session'.closeWhenSafe = close
    BY <1>1, <2>1 DEF Sessions
  <2>6. IInv'
    BY <1>1, <2>1, <2>3, <2>4, <2>5, QuietKeeps
  <2> QED BY <2>2, <2>5, <2>6 DEF Grants
<1> QED BY <1>2, <1>3, <1>4, <1>5, <1>6, <1>7, <1>8
-----------------------------------------------------------------------------
(***************************************************************************)
(* The receipt the session keeps.                                          *)
(***************************************************************************)

Retained ==
  session.receipt # 0 /\ ~session.isAcquisitionRoute =>
    WasChecked(session.receipt, session.source, session.output)

Binding(s) == <<s.source, s.output, s.receipt, s.isAcquisitionRoute>>

\* A session's private methods clear its receipt, or leave it with what it is of.
LEMMA BindingStays ==
  ASSUME NEW s \in Sessions
  PROVE  /\ \A who \in SUBSET {"window", "quit"}, yes \in BOOLEAN :
              Binding(Answer(s, who, yes)) = Binding(s)
         /\ \A yes \in BOOLEAN : Binding(ResolvePrompt(s, yes)) = Binding(s)
         /\ Binding(DropRetained(s)) = Binding(s)
         /\ Binding(PrepareForOperation(s)) = Binding(s)
<1>1. \A who \in SUBSET {"window", "quit"}, yes \in BOOLEAN :
        Binding(Answer(s, who, yes)) = Binding(s)
  BY DEF Answer, Sessions, Binding
<1>2. ASSUME NEW yes \in BOOLEAN PROVE Binding(ResolvePrompt(s, yes)) = Binding(s)
  <2> DEFINE r == Answer(s, s.handlers, yes)
  <2>1. s.handlers \in SUBSET {"window", "quit"}
    BY DEF Sessions
  <2>2. r \in Sessions /\ Binding(r) = Binding(s)
    BY <1>1, <2>1, AnswerIs DEF Settles
  <2>3. ResolvePrompt(s, yes) = [r EXCEPT !.prompt = "none", !.handlers = {}]
    BY DEF ResolvePrompt
  <2> HIDE DEF r
  <2> QED BY <2>2, <2>3 DEF Sessions, Binding
<1>3. Binding(DropRetained(s)) = Binding(s)
  BY DEF DropRetained, Sessions, Binding
<1>4. Binding(PrepareForOperation(s)) = Binding(s)
  <2> DEFINE r == ResolvePrompt(s, FALSE)
  <2>1. r \in Sessions /\ Binding(r) = Binding(s)
    BY <1>2, ResolvePromptIs DEF Settles
  <2>2. PrepareForOperation(s) = [r EXCEPT !.cancellationSignalSent = FALSE]
    BY DEF PrepareForOperation
  <2> HIDE DEF r
  <2> QED BY <2>1, <2>2 DEF Sessions, Binding
<1> QED BY <1>1, <1>2, <1>3, <1>4

LEMMA FailingClears ==
  ASSUME NEW s \in Sessions, NEW code \in Failures
  PROVE  Failed(s, code).receipt = 0 /\ FailSafely(s, code).receipt = 0
<1> DEFINE r == CancelInterruptions(s)
           f == Failed(s, code)
<1>1. r \in Sessions
  BY ResolvePromptIs DEF CancelInterruptions, Settles
<1>2. f = [r EXCEPT !.receipt = 0, !.phase = "failed", !.failure = code]
  BY DEF Failed
<1> HIDE DEF r
<1>3. f.receipt = 0
  BY <1>1, <1>2 DEF Sessions
<1>4. f \in Sessions
  BY FailedIs DEF Settles
<1>5. FailSafely(s, code) = [f EXCEPT !.activeAction = "none"]
  BY DEF FailSafely
<1> HIDE DEF f
<1>6. FailSafely(s, code).receipt = 0
  BY <1>3, <1>4, <1>5 DEF Sessions
<1> QED BY <1>3, <1>6 DEF f

LEMMA HomeClears == \A s \in Sessions : Home(s).receipt = 0
<1> SUFFICES ASSUME NEW s \in Sessions PROVE Home(s).receipt = 0
  OBVIOUS
<1> DEFINE r == DropRetained(ResolvePrompt(s, FALSE))
<1>1. r \in Sessions
  BY ResolvePromptIs, DropRetainedIs DEF Settles
<1>2. Home(s) = [r EXCEPT
         !.stopped = @ \cup ({s.operationTask} \ {0}), !.operationTask = 0,
         !.cancellationSignalSent = FALSE, !.source = 0, !.output = 0, !.receipt = 0,
         !.isAcquisitionRoute = FALSE, !.phase = "chooseBackup", !.failure = "none"]
  BY DEF Home
<1> HIDE DEF r
<1> QED BY <1>1, <1>2 DEF Sessions

\* A launch that is refused clears the receipt; one that is not keeps what it was given.
LEMMA LaunchedBinding ==
  ASSUME NEW s \in Sessions, NEW action, NEW phase, Launch(s, action, phase)
  PROVE  session'.receipt = 0 \/ Binding(session') = Binding(s)
<1>1. CASE session' = FailSafely(s, "local_helper_error")
  BY <1>1, FailingClears DEF Failures
<1>2. CASE session' = [s EXCEPT !.phase = phase, !.failure = "none",
                                !.leases = @ \cup {Last + 1}, !.operationTask = Last + 1,
                                !.stopped = @ \cup ({s.operationTask} \ {0})]
  BY <1>2 DEF Sessions, Binding
<1> QED BY <1>1, <1>2 DEF Launch

LEMMA StartPreflightClears ==
  ASSUME NEW x \in Sessions, StartPreflight(x)
  PROVE  session'.receipt = 0
<1> DEFINE t == [x EXCEPT !.receipt = 0]
           p == PrepareForOperation(t)
           s == [p EXCEPT !.isAcquisitionRoute = FALSE, !.activeAction = "preflight"]
<1>1. RefuseDestination(t) \/ Launch(s, "preflight", "preflighting")
  BY DEF StartPreflight
<1>2. t \in Sessions /\ t.receipt = 0
  <2>1. t \in Sessions
    BY Setters
  <2> QED BY <2>1 DEF Sessions
<1> HIDE DEF t
<1>3. p \in Sessions /\ p.receipt = 0
  BY <1>2, PrepareIs DEF Settles
<1> HIDE DEF p
<1>4. s \in Sessions /\ s.receipt = 0
  <2>1. s \in Sessions
    BY <1>3, Setters
  <2> QED BY <1>3, <2>1 DEF Sessions
<1> HIDE DEF s
<1>5. CASE RefuseDestination(t)
  BY <1>2, <1>5, FailingClears DEF RefuseDestination, Failures
<1>6. CASE Launch(s, "preflight", "preflighting")
  BY <1>4, <1>6, LaunchedBinding DEF Binding
<1> QED BY <1>1, <1>5, <1>6

\* How a step leaves the receipt.
Kept ==
  \/ session'.receipt = 0 \/ session'.isAcquisitionRoute \/ Binding(session') = Binding(session)
  \/ session'.phase = "confirm"
  \/ /\ session.phase = "confirm" /\ session'.receipt = session.receipt
     /\ session'.source = session.source /\ session'.output = session.output

LEMMA UserKeepsReceipt ==
  ASSUME TypeOK, Creators, Last \in Nat,
         \/ \E b \in Sources : SelectBackup(b) \/ StartAcquisition(b)
         \/ StartRecovery \/ ReturnToBackupSelection \/ RecoverFromFailure
  PROVE  Kept
<1>0. session \in Sessions
  BY DEF TypeOK
<1>1. ASSUME NEW b \in Sources, SelectBackup(b) PROVE Kept
  <2> DEFINE d == DropRetained(session)
             x == [d EXCEPT !.source = b, !.output = FreshOutput(0), !.receipt = 0]
  <2>1. StartPreflight(x)
    BY <1>1 DEF SelectBackup
  <2>2. d \in Sessions /\ FreshOutput(0) \in Outputs
    BY <1>0, DropRetainedIs, FreshOutputIs
  <2> HIDE DEF d
  <2>3. x \in Sessions
    BY <2>2, Setters
  <2> HIDE DEF x
  <2> QED BY <2>1, <2>3, StartPreflightClears DEF Kept
<1>2. ASSUME NEW b \in Sources, StartAcquisition(b) PROVE Kept
  <2> DEFINE x == [session EXCEPT !.source = b, !.output = FreshOutput(0)]
             p == PrepareForOperation(x)
             s == [p EXCEPT !.isAcquisitionRoute = TRUE, !.activeAction = "recover"]
  <2>1. RefuseDestination(session) \/ Launch(s, "acquire", "running")
    BY <1>2 DEF StartAcquisition
  <2>2. x \in Sessions
    BY <1>0, FreshOutputIs, Setters
  <2> HIDE DEF x
  <2>3. p \in Sessions
    BY <2>2, PrepareIs DEF Settles
  <2> HIDE DEF p
  <2>4. s \in Sessions /\ s.isAcquisitionRoute
    <3>1. s \in Sessions
      BY <2>3, Setters
    <3> QED BY <2>3, <3>1 DEF Sessions
  <2> HIDE DEF s
  <2>5. CASE RefuseDestination(session)
    BY <1>0, <2>5, FailingClears DEF RefuseDestination, Failures, Kept
  <2>6. CASE Launch(s, "acquire", "running")
    BY <2>4, <2>6, LaunchedBinding DEF Binding, Kept
  <2> QED BY <2>1, <2>5, <2>6
<1>3. CASE StartRecovery
  <2> DEFINE p == PrepareForOperation(session)
             s == [p EXCEPT !.isAcquisitionRoute = FALSE, !.activeAction = "recover"]
  <2>1. session.phase = "confirm" /\ (RefuseDestination(session) \/ Launch(s, "recover", "running"))
    BY <1>3 DEF StartRecovery
  <2>2. /\ p \in Sessions /\ p.source = session.source /\ p.output = session.output
        /\ p.receipt = session.receipt
    BY <1>0, PrepareIs DEF Settles
  <2> HIDE DEF p
  <2>3. /\ s \in Sessions /\ s.source = session.source /\ s.output = session.output
        /\ s.receipt = session.receipt
    <3>1. s \in Sessions
      BY <2>2, Setters
    <3> QED BY <2>2, <3>1 DEF Sessions
  <2> HIDE DEF s
  <2>4. CASE RefuseDestination(session)
    BY <1>0, <2>4, FailingClears DEF RefuseDestination, Failures, Kept
  <2>5. CASE Launch(s, "recover", "running")
    BY <2>1, <2>3, <2>5, LaunchedBinding DEF Binding, Kept
  <2> QED BY <2>1, <2>4, <2>5
<1>4. CASE ReturnToBackupSelection
  BY <1>0, <1>4, HomeClears DEF ReturnToBackupSelection, Kept
<1>5. CASE RecoverFromFailure
  <2>1. ASSUME NEW output \in Outputs, RetryPreflight(session, output) PROVE Kept
    <3> DEFINE d == DropRetained(PrepareForOperation(session))
               x == [d EXCEPT !.receipt = 0, !.output = output]
    <3>1. d \in Sessions
      BY <1>0, PrepareIs, DropRetainedIs DEF Settles
    <3>2. session' = Home(session) \/ StartPreflight(x)
      BY <2>1 DEF RetryPreflight
    <3> HIDE DEF d
    <3>3. x \in Sessions
      BY <3>1, Setters
    <3> HIDE DEF x
    <3> QED BY <1>0, <3>2, <3>3, HomeClears, StartPreflightClears DEF Kept
  <2>2. session' = Home(session) \/ \E output \in Outputs \cup {0} : RetryPreflight(session, output)
    <3>1. session.output \in Outputs \cup {0}
      BY <1>0 DEF Sessions
    <3> QED BY <1>5, <3>1, FreshOutputIs DEF RecoverFromFailure
  <2>3. ASSUME RetryPreflight(session, 0) PROVE Kept
    <3> DEFINE d == DropRetained(PrepareForOperation(session))
               x == [d EXCEPT !.receipt = 0, !.output = 0]
    <3>1. d \in Sessions
      BY <1>0, PrepareIs, DropRetainedIs DEF Settles
    <3>2. session' = Home(session) \/ StartPreflight(x)
      BY <2>3 DEF RetryPreflight
    <3> HIDE DEF d
    <3>3. x \in Sessions
      BY <3>1, Setters
    <3> HIDE DEF x
    <3> QED BY <1>0, <3>2, <3>3, HomeClears, StartPreflightClears DEF Kept
  <2> QED BY <1>0, <2>1, <2>2, <2>3, HomeClears DEF Kept
<1> QED BY <1>1, <1>2, <1>3, <1>4, <1>5

LEMMA CancellationKeepsReceipt ==
  ASSUME NEW s \in Sessions, Binding(s) = Binding(session)
  PROVE  /\ BeginCancellation(s) => Binding(session') = Binding(session)
         /\ \A origin \in {"cancelButton", "windowClose", "applicationQuit"},
               who \in SUBSET {"window", "quit"} :
              RequestCancellation(s, origin, who) => Binding(session') = Binding(session)
<1>1. ASSUME NEW t \in Sessions, Binding(t) = Binding(session), BeginCancellation(t)
      PROVE  Binding(session') = Binding(session)
  <2>1. session' \in {t, [t EXCEPT !.cancellationSignalSent = TRUE, !.phase = "cancelling"]}
    BY <1>1 DEF BeginCancellation
  <2> QED BY <1>1, <2>1 DEF Sessions, Binding
<1>2. ASSUME NEW origin \in {"cancelButton", "windowClose", "applicationQuit"},
             NEW who \in SUBSET {"window", "quit"}, RequestCancellation(s, origin, who)
      PROVE  Binding(session') = Binding(session)
  <2>1. \A yes \in BOOLEAN : Answer(s, who, yes) \in Sessions /\ Binding(Answer(s, who, yes)) = Binding(session)
    BY AnswerIs, BindingStays DEF Settles
  <2>2. CASE s.phase = "preflighting"
    BY <1>1, <1>2, <2>1, <2>2 DEF RequestCancellation
  <2>3. CASE s.phase \in {"running", "validating"}
    <3>1. \E prompt : session' = [s EXCEPT !.handlers = s.handlers \cup who, !.prompt = prompt]
      BY <1>2, <2>3 DEF RequestCancellation
    <3> QED BY <3>1 DEF Sessions, Binding
  <2>4. CASE s.phase \notin {"preflighting", "running", "validating"}
    <3>1. \E yes \in BOOLEAN : session' = Answer(s, who, yes)
      BY <1>2, <2>4 DEF RequestCancellation
    <3> QED BY <2>1, <3>1
  <2> QED BY <2>2, <2>3, <2>4
<1> QED BY <1>1, <1>2

LEMMA CallersKeepReceipt ==
  ASSUME TypeOK, CancelButton \/ AskClose \/ AskQuit \/ TerminateWhenIdle
                   \/ ContinueRecovery \/ ConfirmCancellation \/ UpdateView
  PROVE  Kept
<1>0. session \in Sessions
  BY DEF TypeOK
<1>1. /\ [session EXCEPT !.closeRequestPending = TRUE] \in Sessions
      /\ Binding([session EXCEPT !.closeRequestPending = TRUE]) = Binding(session)
  <2>1. [session EXCEPT !.closeRequestPending = TRUE] \in Sessions
    BY <1>0, Setters
  <2>2. Binding([session EXCEPT !.closeRequestPending = TRUE]) = Binding(session)
    BY <1>0 DEF Sessions, Binding
  <2> QED BY <2>1, <2>2
<1>2. /\ [session EXCEPT !.quit = "asked"] \in Sessions
      /\ Binding([session EXCEPT !.quit = "asked"]) = Binding(session)
  <2>1. [session EXCEPT !.quit = "asked"] \in Sessions
    BY <1>0, Setters
  <2>2. Binding([session EXCEPT !.quit = "asked"]) = Binding(session)
    BY <1>0 DEF Sessions, Binding
  <2> QED BY <2>1, <2>2
<1>3. CASE CancelButton
  BY <1>0, <1>3, CancellationKeepsReceipt DEF CancelButton, Kept
<1>4. CASE AskClose
  BY <1>1, <1>4, CancellationKeepsReceipt DEF AskClose, Kept
<1>5. CASE AskQuit /\ Busy(session.phase)
  BY <1>2, <1>5, CancellationKeepsReceipt DEF AskQuit, Kept
<1>6. CASE (AskQuit /\ ~Busy(session.phase)) \/ TerminateWhenIdle
  <2>1. session' = [session EXCEPT !.quit = "terminated"]
    BY <1>6 DEF AskQuit, TerminateWhenIdle
  <2> QED BY <1>0, <2>1 DEF Sessions, Binding, Kept
<1>7. CASE ContinueRecovery
  BY <1>0, <1>7, BindingStays DEF ContinueRecovery, Kept
<1>8. CASE ConfirmCancellation
  <2>1. ResolvePrompt(session, TRUE) \in Sessions /\ Binding(ResolvePrompt(session, TRUE)) = Binding(session)
    BY <1>0, ResolvePromptIs, BindingStays DEF Settles
  <2> QED BY <1>8, <2>1, CancellationKeepsReceipt DEF ConfirmCancellation, Kept
<1>9. CASE UpdateView
  <2>1. \E close : session' = [session EXCEPT !.closeWhenSafe = close]
    BY <1>9 DEF UpdateView
  <2> QED BY <1>0, <2>1 DEF Sessions, Binding, Kept
<1> QED BY <1>3, <1>4, <1>5, <1>6, <1>7, <1>8, <1>9

LEMMA TasksKeepReceipt ==
  ASSUME TypeOK, NEW o \in Ops, Resume(o)
  PROVE  Kept
<1>0. session \in Sessions
  BY DEF TypeOK
<1>1. CASE Handle(o) /\ Head(stream[o]) = "progress"
  <2>1. \E phase : session' = [session EXCEPT !.phase = phase]
    BY <1>1 DEF Handle, HandleProgress
  <2> QED BY <1>0, <2>1 DEF Sessions, Binding, Kept
<1>2. CASE Handle(o) /\ Head(stream[o]) # "progress"
  <2> DEFINE r == CancelInterruptions(session)
             s == [r EXCEPT !.activeAction = "none"]
  <2>1. r \in Sessions /\ Binding(r) = Binding(session)
    BY <1>0, ResolvePromptIs, BindingStays DEF CancelInterruptions, Settles
  <2>2. Completed(o, s) \/ \E code \in Failures : session' = Failed(s, code)
    BY <1>2 DEF Handle, HandleEnd, HelperFailures, Failures
  <2> HIDE DEF r
  <2>3. s \in Sessions /\ Binding(s) = Binding(session)
    <3>1. s \in Sessions
      BY <2>1, Setters
    <3>2. Binding(s) = Binding(r)
      BY <2>1 DEF Sessions, Binding
    <3> QED BY <2>1, <3>1, <3>2
  <2> HIDE DEF s
  <2>4. CASE \E code \in Failures : session' = Failed(s, code)
    BY <2>3, <2>4, FailingClears DEF Kept
  <2>5. CASE Completed(o, s) /\ request[o].action = "preflight"
    <3>1. session' = [s EXCEPT !.receipt = o, !.phase = "confirm"]
      BY <2>5 DEF Completed
    <3> QED BY <2>3, <3>1 DEF Sessions, Kept
  <2>6. CASE Completed(o, s) /\ request[o].action # "preflight"
    <3> DEFINE t == [s EXCEPT !.receipt = IF request[o].action = "recover" THEN 0 ELSE @]
    <3>1. /\ t \in Sessions /\ t.receipt \in {0, s.receipt} /\ t.source = s.source
          /\ t.output = s.output /\ t.isAcquisitionRoute = s.isAcquisitionRoute
      BY <2>3 DEF Sessions
    <3>2. \/ \E code \in Failures : session' = Failed(t, code)
          \/ session' = [t EXCEPT !.phase = "validating", !.validationTask = o]
      BY <2>6 DEF Completed, Failures
    <3> HIDE DEF t
    <3>3. CASE session' = [t EXCEPT !.phase = "validating", !.validationTask = o]
      <4>1. /\ session'.receipt = t.receipt /\ session'.source = t.source /\ session'.output = t.output
            /\ session'.isAcquisitionRoute = t.isAcquisitionRoute
        BY <3>1, <3>3 DEF Sessions
      <4> QED BY <2>3, <3>1, <4>1 DEF Binding, Kept
    <3>4. CASE \E code \in Failures : session' = Failed(t, code)
      BY <3>1, <3>4, FailingClears DEF Kept
    <3> QED BY <3>2, <3>3, <3>4
  <2> QED BY <2>2, <2>4, <2>5, <2>6
<1>3. CASE ValidationReturns(o)
  <2> DEFINE r == CancelInterruptions(session)
  <2>1. r \in Sessions /\ Binding(r) = Binding(session)
    BY <1>0, ResolvePromptIs, BindingStays DEF CancelInterruptions, Settles
  <2>2. \/ session' = [r EXCEPT !.phase = "completed", !.validationTask = 0]
        \/ session' = [session EXCEPT !.phase = "acquisitionCompleted", !.validationTask = 0]
        \/ \E code \in {"cancelled", "output_validation_failed"} :
             session' \in {Failed(session, code), [Failed(session, code) EXCEPT !.validationTask = 0]}
    <3>1. session' = Validated(o, session)
      BY <1>3 DEF ValidationReturns
    <3>2. CASE request[o].action = "recover"
      BY <3>1, <3>2 DEF Validated
    <3>3. CASE request[o].action # "recover"
      BY <3>1, <3>3 DEF Validated
    <3> QED BY <3>2, <3>3
  <2> HIDE DEF r
  <2>3. ASSUME NEW code \in {"cancelled", "output_validation_failed"},
               session' \in {Failed(session, code), [Failed(session, code) EXCEPT !.validationTask = 0]}
        PROVE  Kept
    <3>1. Failed(session, code) \in Sessions /\ Failed(session, code).receipt = 0
      BY <1>0, FailedIs, FailingClears DEF Settles, Failures
    <3> QED BY <2>3, <3>1 DEF Sessions, Kept
  <2>4. CASE session' = [r EXCEPT !.phase = "completed", !.validationTask = 0]
    BY <2>1, <2>4 DEF Sessions, Binding, Kept
  <2>5. CASE session' = [session EXCEPT !.phase = "acquisitionCompleted", !.validationTask = 0]
    BY <1>0, <2>5 DEF Sessions, Binding, Kept
  <2> QED BY <2>2, <2>3, <2>4, <2>5
<1>4. CASE StreamEnds(o)
  <2> DEFINE s == [session EXCEPT !.operationTask = 0]
             t == [s EXCEPT !.leases = @ \ {o}]
             d == DropRetained(s)
  <2>1. s \in Sessions /\ Binding(s) = Binding(session)
    <3>1. s \in Sessions
      BY <1>0, Setters
    <3> QED BY <1>0, <3>1 DEF Sessions, Binding
  <2>2. session' = FailSafely(t, "local_helper_error") \/ session' = t \/ session' = [d EXCEPT !.retained = o]
    BY <1>4 DEF StreamEnds
  <2> HIDE DEF s
  <2>3. t \in Sessions /\ Binding(t) = Binding(session)
    BY <2>1 DEF Sessions, Binding
  <2>4. d \in Sessions /\ Binding(d) = Binding(session)
    BY <2>1, DropRetainedIs, BindingStays
  <2> HIDE DEF t, d
  <2>5. CASE session' = [d EXCEPT !.retained = o]
    BY <2>4, <2>5 DEF Sessions, Binding, Kept
  <2> QED BY <2>2, <2>3, <2>5, FailingClears DEF Kept, Failures
<1>5. CASE StopTask(o)
  BY <1>5 DEF StopTask, Kept
<1> QED BY <1>1, <1>2, <1>3, <1>4, <1>5 DEF Resume

\* What was asked stays asked, and what came of it stays.
LEMMA HistoryStays ==
  ASSUME IInv, [Next]_vars
  PROVE  /\ \A o \in Started : request'[o] = request[o]
         /\ \A o \in Ops : result[o] # "none" => result'[o] = result[o]
<1>1. /\ request \in [Ops -> {NoRequest} \cup
            [action : Actions, source : Sources, output : Outputs, receipt : Ops \cup {0}]]
      /\ result \in [Ops -> Ends \cup {"none", "error"}]
      /\ Started = 1..Last /\ Last \in Nat /\ Ops = 1..MaxOps
  BY OpsAre DEF IInv, TypeOK, ClientTyped, Numbered
<1>2. ASSUME request' = request, result' = result
      PROVE  /\ \A o \in Started : request'[o] = request[o]
             /\ \A o \in Ops : result[o] # "none" => result'[o] = result[o]
  BY <1>2
<1>3. ASSUME NEW s, NEW action, NEW phase, Launch(s, action, phase)
      PROVE  /\ \A o \in Started : request'[o] = request[o]
             /\ \A o \in Ops : result[o] # "none" => result'[o] = result[o]
  <2>1. CASE UNCHANGED unstarted
    BY <1>2, <2>1 DEF unstarted, client
  <2>2. CASE Client!Begin(Last + 1) /\ \E rec : request' = [request EXCEPT ![Last + 1] = rec]
    <3>1. result' = result
      BY <2>2 DEF Client!Begin
    <3>2. \A o \in Started : o # Last + 1 /\ o \in Ops
      BY <1>1 DEF Started
    <3> QED BY <1>1, <2>2, <3>1, <3>2
  <2> QED BY <1>3, <2>1, <2>2 DEF Launch
<1>4. ASSUME NEW s, RefuseDestination(s)
      PROVE  request' = request /\ result' = result
  BY <1>4 DEF RefuseDestination, unstarted, client
<1>5. ASSUME NEW s, StartPreflight(s)
      PROVE  /\ \A o \in Started : request'[o] = request[o]
             /\ \A o \in Ops : result[o] # "none" => result'[o] = result[o]
  BY <1>2, <1>3, <1>4, <1>5 DEF StartPreflight
<1>6. ASSUME NEW output, RetryPreflight(session, output)
      PROVE  /\ \A o \in Started : request'[o] = request[o]
             /\ \A o \in Ops : result[o] # "none" => result'[o] = result[o]
  <2>1. CASE UNCHANGED unstarted
    BY <1>2, <2>1 DEF unstarted, client
  <2> QED BY <1>5, <1>6, <2>1 DEF RetryPreflight
<1>7. CASE \E b \in Sources : SelectBackup(b) \/ StartAcquisition(b)
  BY <1>2, <1>3, <1>4, <1>5, <1>7 DEF SelectBackup, StartAcquisition
<1>8. CASE StartRecovery \/ ReturnToBackupSelection \/ RecoverFromFailure
  <2>1. CASE StartRecovery
    BY <1>2, <1>3, <1>4, <2>1 DEF StartRecovery
  <2>2. CASE ReturnToBackupSelection
    BY <1>2, <2>2 DEF ReturnToBackupSelection, client
  <2>3. CASE RecoverFromFailure
    <3>1. CASE UNCHANGED unstarted
      BY <1>2, <3>1 DEF unstarted, client
    <3> QED BY <1>6, <2>3, <3>1 DEF RecoverFromFailure
  <2> QED BY <1>8, <2>1, <2>2, <2>3
<1>9. ASSUME NEW end, Client!Ends(current, end), current # 0
      PROVE  \A o \in Ops : result[o] # "none" => result'[o] = result[o]
  <2>1. result' = [result EXCEPT ![current] = end] /\ result[current] = "none"
    BY <1>9 DEF Client!Ends, IInv, ClientRuns
  <2> QED BY <1>1, <2>1
<1>10. ASSUME NEW s, BeginCancellation(s)
       PROVE  \A o \in Ops : result[o] # "none" => result'[o] = result[o]
  <2>1. UNCHANGED client \/ (current # 0 /\ Client!Cancel)
    BY <1>10 DEF BeginCancellation
  <2>2. result' = result \/ (current # 0 /\ \E end : Client!Ends(current, end))
    BY <2>1 DEF client, Client!Cancel
  <2> QED BY <1>9, <2>2
<1>11. ASSUME NEW s, NEW origin, NEW who, RequestCancellation(s, origin, who)
       PROVE  \A o \in Ops : result[o] # "none" => result'[o] = result[o]
  <2>1. CASE result' = result
    BY <2>1
  <2>2. CASE s.phase = "preflighting"
    BY <1>10, <1>11, <2>2 DEF RequestCancellation
  <2>3. CASE s.phase # "preflighting"
    <3>1. UNCHANGED client
      BY <1>11, <2>3 DEF RequestCancellation
    <3> QED BY <2>1, <3>1 DEF client
  <2> QED BY <2>2, <2>3
<1>12. CASE CancelButton \/ AskClose \/ AskQuit \/ TerminateWhenIdle
              \/ ContinueRecovery \/ ConfirmCancellation \/ UpdateView
  <2>1. request' = request
    BY <1>12 DEF CancelButton, AskClose, AskQuit, TerminateWhenIdle, ContinueRecovery,
                 ConfirmCancellation, UpdateView
  <2>2. CASE CancelButton \/ AskClose \/ ConfirmCancellation
    BY <1>10, <1>11, <2>1, <2>2 DEF CancelButton, AskClose, ConfirmCancellation
  <2>3. CASE AskQuit
    <3>1. CASE UNCHANGED client
      BY <1>2, <2>1, <3>1 DEF client
    <3> QED BY <1>11, <2>1, <2>3, <3>1 DEF AskQuit
  <2>4. CASE TerminateWhenIdle \/ ContinueRecovery \/ UpdateView
    BY <1>2, <2>1, <2>4 DEF TerminateWhenIdle, ContinueRecovery, UpdateView, client
  <2> QED BY <1>12, <2>2, <2>3, <2>4
<1>13. ASSUME NEW o \in Ops,
              Resume(o) \/ ValidatorEnds(o) \/ CreateOutput(o) \/ HelperProgress(o) \/ HelperEnds(o)
       PROVE  /\ \A p \in Started : request'[p] = request[p]
              /\ \A p \in Ops : result[p] # "none" => result'[p] = result[p]
  <2>1. request' = request
    BY <1>13 DEF Resume, Handle, StreamEnds, ValidationReturns, StopTask, ValidatorEnds,
                 CreateOutput, HelperProgress, HelperEnds, unobserved
  <2>2. CASE Resume(o) \/ ValidatorEnds(o) \/ CreateOutput(o) \/ HelperProgress(o)
    <3>1. result' = result
      BY <2>2 DEF Resume, Handle, StreamEnds, ValidationReturns, StopTask, ValidatorEnds,
                  CreateOutput, HelperProgress, client, Client!Take, Client!Stop, Client!Progress
    <3> QED BY <1>2, <2>1, <3>1
  <2>3. CASE HelperEnds(o)
    <3>1. current # 0 /\ \E end : Client!Ends(current, end)
      BY <1>1, <2>3 DEF HelperEnds, Client!End
    <3> QED BY <1>9, <2>1, <3>1
  <2> QED BY <1>13, <2>2, <2>3
<1>14. CASE UNCHANGED vars
  BY <1>2, <1>14 DEF vars, client
<1> QED BY <1>7, <1>8, <1>12, <1>13, <1>14 DEF Next, Terminated, AtRest

LEMMA RetainedNext ==
  ASSUME IInv, IInv', Retained, [Next]_vars
  PROVE  Retained'
<1>0. TypeOK /\ Creators /\ Last \in Nat
  BY OpsAre DEF IInv
<1>1. Kept
  <2>1. CASE \/ \E b \in Sources : SelectBackup(b) \/ StartAcquisition(b)
             \/ StartRecovery \/ ReturnToBackupSelection \/ RecoverFromFailure
    BY <1>0, <2>1, UserKeepsReceipt
  <2>2. CASE CancelButton \/ AskClose \/ AskQuit \/ TerminateWhenIdle
               \/ ContinueRecovery \/ ConfirmCancellation \/ UpdateView
    BY <1>0, <2>2, CallersKeepReceipt
  <2>3. CASE \E o \in Ops : Resume(o)
    BY <1>0, <2>3, TasksKeepReceipt
  <2>4. CASE session' = session
    BY <2>4 DEF Kept
  <2>5. ASSUME NEW o \in Ops, ValidatorEnds(o) \/ CreateOutput(o) \/ HelperProgress(o) \/ HelperEnds(o)
        PROVE  session' = session
    BY <2>5 DEF ValidatorEnds, CreateOutput, HelperProgress, HelperEnds, unobserved
  <2> QED BY <2>1, <2>2, <2>3, <2>4, <2>5 DEF Next, Terminated, AtRest, vars
<1>2. ASSUME NEW p, NEW source, NEW output, WasChecked(p, source, output)
      PROVE  WasChecked(p, source, output)'
  <2>1. p \in Started /\ p \in Ops /\ request[p] # NoRequest /\ result[p] = "completed"
    BY <1>2 DEF WasChecked, Started
  <2>2. request'[p] = request[p] /\ result'[p] = result[p]
    BY <2>1, HistoryStays
  <2> QED BY <1>2, <2>1, <2>2 DEF WasChecked, Started
<1>3. Checked /\ session.phase = "confirm" => WasChecked(session.receipt, session.source, session.output)
  <2>1. Last # 0 => Last \in Started
    BY <1>0, OpsAre DEF IInv, Numbered
  <2> QED BY <2>1 DEF Checked, WasChecked
<1>4. session'.phase = "confirm" => WasChecked(session.receipt, session.source, session.output)'
  <2>1. Last' # 0 => Last' \in Started'
    BY SessionAssumption DEF IInv, Numbered
  <2> QED BY <2>1 DEF IInv, Checked, WasChecked
<1>5. CASE Binding(session') = Binding(session)
  <2>1. /\ session'.receipt = session.receipt /\ session'.source = session.source
        /\ session'.output = session.output /\ session'.isAcquisitionRoute = session.isAcquisitionRoute
    BY <1>5 DEF Binding
  <2>2. ASSUME WasChecked(session.receipt, session.source, session.output)
        PROVE  Retained'
    <3>1. /\ result'[session.receipt] = "completed" /\ session.receipt \in Started'
          /\ request'[session.receipt] = [action |-> "preflight", source |-> session.source,
                                          output |-> session.output, receipt |-> 0]
      BY <1>2, <2>2 DEF WasChecked
    <3> QED BY <2>1, <3>1 DEF Retained, WasChecked
  <2> QED BY <2>1, <2>2 DEF Retained
<1>6. CASE /\ session.phase = "confirm" /\ session'.receipt = session.receipt
           /\ session'.source = session.source /\ session'.output = session.output
  <2>1. WasChecked(session.receipt, session.source, session.output)
    BY <1>3, <1>6 DEF IInv
  <2>2. /\ result'[session.receipt] = "completed" /\ session.receipt \in Started'
        /\ request'[session.receipt] = [action |-> "preflight", source |-> session.source,
                                        output |-> session.output, receipt |-> 0]
    BY <1>2, <2>1 DEF WasChecked
  <2> QED BY <1>6, <2>2 DEF Retained, WasChecked
<1> QED BY <1>1, <1>4, <1>5, <1>6 DEF Kept, Retained
-----------------------------------------------------------------------------
(***************************************************************************)
(* The theorems.                                                           *)
(***************************************************************************)

LEMMA InitKeeps == Init => IInv
<1> SUFFICES ASSUME Init PROVE IInv
  OBVIOUS
<1> USE DEF Init, Client!Init
<1>1. Started = {} /\ Last = 0
  <2>1. Started = {}
    BY DEF Started
  <2> QED BY <2>1, FS_EmptySet DEF Last
<1>2. session \in Sessions
  BY DEF Sessions, Phases
<1>3. TypeOK
  BY <1>2, Names DEF TypeOK
<1>4. ClientTyped
  <2>1. <<>> \in Seq(Events)
    OBVIOUS
  <2> QED BY <2>1, Names DEF ClientTyped
<1>5. Numbered
  BY <1>1, SessionAssumption DEF Numbered
<1>6. Future
  BY Names DEF Future, Ops
<1>7. /\ session.phase = "chooseBackup" /\ session.quit = "no" /\ current = 0 /\ creators = {}
      /\ "chooseBackup" \notin Done /\ ~Busy("chooseBackup")
  BY DEF Done, Busy
<1>8. Past /\ Preflights
  BY <1>1 DEF Past, Preflights
<1>9. Present /\ Confirmations /\ ClientRuns /\ Creators /\ Success /\ Checked /\ CancelledPreflight
  BY <1>7 DEF Present, Confirmations, ClientRuns, Creators, Success, Checked, CancelledPreflight
<1>10. QuitWhenIdle /\ Requested /\ OutputIsFresh /\ RecoveryWins
  BY <1>1, <1>7 DEF QuitWhenIdle, Requested, OutputIsFresh, RecoveryWins
<1> QED BY <1>3, <1>4, <1>5, <1>6, <1>8, <1>9, <1>10 DEF IInv

LEMMA NextKeeps ==
  ASSUME IInv, [Next]_vars
  PROVE  /\ IInv'
         /\ Grants(session, session') => Last \in confirmed' \/ ~Busy(session.phase)
<1>1. CASE \E b \in Sources : SelectBackup(b) \/ StartAcquisition(b)
  BY <1>1, SelectBackupKeeps, StartAcquisitionKeeps
<1>2. CASE StartRecovery \/ RecoverFromFailure
  BY <1>2, StartRecoveryKeeps, RecoverFromFailureKeeps
<1>3. CASE ReturnToBackupSelection
  BY <1>3, HomeKeeps DEF ReturnToBackupSelection, unstarted
<1>4. CASE CancelButton \/ AskClose \/ AskQuit \/ TerminateWhenIdle
             \/ ContinueRecovery \/ ConfirmCancellation \/ UpdateView
  BY <1>4, CallersKeep
<1>5. ASSUME NEW o \in Ops,
             Resume(o) \/ ValidatorEnds(o) \/ CreateOutput(o) \/ HelperProgress(o) \/ HelperEnds(o)
      PROVE  IInv' /\ ~Grants(session, session')
  <2>1. ASSUME session' = session PROVE ~Grants(session, session')
    BY <2>1 DEF Grants
  <2>2. CASE Handle(o)
    BY <2>2, HandleProgressKeeps, HandleEndKeeps
  <2>3. CASE StreamEnds(o) \/ ValidationReturns(o)
    BY <2>3, StreamEndsKeeps, ValidationReturnsKeeps
  <2>4. CASE StopTask(o) \/ ValidatorEnds(o) \/ CreateOutput(o) \/ HelperProgress(o) \/ HelperEnds(o)
    BY <2>1, <2>4, StopTaskKeeps, ValidatorEndsKeeps, CreateOutputKeeps, HelperKeeps
  <2> QED BY <1>5, <2>2, <2>3, <2>4 DEF Resume
<1>6. CASE UNCHANGED vars
  <2>1. UNCHANGED <<session, request, task, validator, view, creators, confirmed, client>>
    BY <1>6 DEF vars
  <2>2. /\ session' \in Sessions /\ view' \in Phases
        /\ session.phase = "completed" => session'.prompt = "none" /\ session'.handlers = {}
        /\ session'.quit = "terminated" => ~Busy(session.phase)
    BY <2>1 DEF IInv, TypeOK, RecoveryWins, QuitWhenIdle
  <2>3. IInv'
    BY <2>1, <2>2, QuietKeeps
  <2> QED BY <2>1, <2>3 DEF Grants
<1> QED BY <1>1, <1>2, <1>3, <1>4, <1>5, <1>6 DEF Next, Terminated, AtRest

LEMMA Invariance == Spec => []IInv
<1>1. IInv /\ [Next]_vars => IInv'
  BY NextKeeps
<1> QED BY <1>1, InitKeeps, PTL DEF Spec

\* The session's fields, requests, tasks and validations are always of their types: it
\* never runs out of names for a fresh output folder.
THEOREM TypeCorrect == Spec => []TypeOK
<1>1. IInv => TypeOK
  BY DEF IInv
<1> QED BY <1>1, Invariance, PTL

\* consume, validateRecovery: success is shown only for the last operation, which its helper
\* completed and whose output passed, and which nobody cancelled, however its end, its
\* validation and a cancellation are interleaved, and although an earlier task may linger.
THEOREM SuccessValidated == Spec => []SuccessIsValidated
<1>1. IInv => SuccessIsValidated
  BY DEF IInv, Success, SuccessIsValidated
<1> QED BY <1>1, Invariance, PTL

\* startRecovery: the source, the output and the receipt of a recovery are those of the
\* preflight that completed just before it.  And whatever backups are selected, retried,
\* cancelled or failed, a receipt the session keeps, but on the way of an acquisition, is
\* that of a completed preflight of the source and the output it has.
THEOREM ReceiptOfSelection == Spec => []ReceiptIsOfSelection
<1>1. Init => Retained
  BY DEF Init, Retained
<1>2. IInv /\ IInv' /\ Retained /\ [Next]_vars => Retained'
  BY RetainedNext
<1>3. IInv /\ Retained => ReceiptIsOfSelection
  BY DEF IInv, Requested, Retained, ReceiptIsOfSelection, WasChecked
<1> QED BY <1>1, <1>2, <1>3, Invariance, PTL DEF Spec

\* freshOutput and retryPreflight: no operation is given a folder that the helper of an
\* earlier one created; trying a cancelled preflight again in the same folder is safe,
\* since a preflight creates none.
THEOREM OutputFresh == Spec => []OutputIsFresh
<1>1. IInv => OutputIsFresh
  BY DEF IInv
<1> QED BY <1>1, Invariance, PTL

\* waitForSafeTermination: when the application has quit no helper runs and no output is
\* being validated.
THEOREM QuitLeaves == Spec => []QuitLeavesNothing
<1>1. IInv => QuitLeavesNothing
  <2> SUFFICES ASSUME IInv, session.quit = "terminated"
               PROVE  current = 0 /\ \A o \in Ops : task[o] # "validating"
    BY DEF QuitLeavesNothing
  <2>1. ~Busy(session.phase)
    BY DEF IInv, QuitWhenIdle
  <2>2. ASSUME NEW o \in Ops, task[o] = "validating" PROVE FALSE
    <3>1. ~Settled(o)
      BY <2>2 DEF Settled
    <3> QED BY <2>1, <2>2, <3>1, UnsettledIsLast
  <2> QED BY <2>1, <2>2 DEF IInv, ClientRuns
<1> QED BY <1>1, Invariance, PTL

\* A recovery that is published takes the confirmation away that was asked for meanwhile.
THEOREM RecoveryPublished == Spec => []RecoveryWins
<1>1. IInv => RecoveryWins
  BY DEF IInv
<1> QED BY <1>1, Invariance, PTL

\* requestCancellation and its handlers: a step that lets the window close or the
\* application quit is the confirmation of a cancellation of the operation under way, or
\* finds none under way; the end of the operation alone never lets them go.
THEOREM GrantConfirmed == Spec => GrantIsConfirmed
<1>1. IInv /\ [Next]_vars =>
        [(session'.quit = "waiting" /\ session.quit # "waiting")
           \/ (session'.closeWhenSafe /\ ~session.closeWhenSafe)
         => Last \in confirmed' \/ ~Busy(session.phase)]_vars
  BY NextKeeps DEF Grants
<1> QED BY <1>1, Invariance, PTL DEF Spec, GrantIsConfirmed
=============================================================================
