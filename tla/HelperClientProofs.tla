------------------------- MODULE HelperClientProofs -------------------------
(***************************************************************************)
(* Proofs about HelperClient: what a stream ends with is what the helper   *)
(* said and did, a helper is only stopped for a cause of its own run, and  *)
(* each step of the client is one of HelperStream or none.                 *)
(*                                                                         *)
(* The reader has read a part of what the helper wrote (HaveRead), and     *)
(* says so to the main actor by a task that may come late (Queued).  What  *)
(* the active run has noted of its reader and of its process is what they  *)
(* came to (NotedOf), which is final when it ends the stream (Endings).    *)
(***************************************************************************)
EXTENDS HelperClient, TLAPS

RunRecords ==
  [id : Runs, readerFinished : BOOLEAN, processFinished : BOOLEAN, readerError : BOOLEAN,
   terminalKind : Kinds \cup {"none"}, waitStatus : {"none", "ok", "error", "signal"},
   cancellationRequested : BOOLEAN]

\* What a run has noted is so, and stays.
NotedOf(run) ==
  /\ run.processFinished => /\ process[run.id] \in {"zombie", "reaped"}
                            /\ run.waitStatus = status[run.id]
  /\ run.readerFinished => /\ reader[run.id] = "done"
                           /\ run.readerError = outcome[run.id].error
                           /\ run.terminalKind = outcome[run.id].kind
  /\ run.terminalKind # "none" => run.terminalKind = outcome[run.id].kind

Noted == active # NoRun => NotedOf(active) /\ process[active.id] # "none"

Unstarted == \A r \in Runs : process[r] = "none" => reader[r] = "off" /\ consumer[r] = "none"

\* Only the active run is read, to the first error or to the end of the pipe.
Readers ==
  \A r \in Runs :
    /\ reader[r] = "off" => outcome[r] = NoOutcome
    /\ reader[r] = "reading" => active.id = r /\ ~outcome[r].error
    /\ reader[r] = "done" => outcome[r] # NoOutcome /\ (~outcome[r].error => pipe[r] = <<>>)

\* What is in the pipe is the end of what was written; what was read without an error is
\* progress, and the terminal event behind it.
HaveReadOf(w, p, o) ==
  LET k == Len(w) - Len(p)
  IN /\ k \in Nat
     /\ \A i \in 1..Len(p) : p[i] = w[k + i]
     /\ ~o.error =>
          IF o.kind = "none" THEN \A i \in 1..k : w[i] = "progress"
          ELSE k >= 1 /\ w[k] = o.kind /\ \A i \in 1..(k - 1) : w[i] = "progress"

HaveRead == \A r \in Runs : HaveReadOf(written[r], pipe[r], outcome[r])

Endings ==
  \A r \in Runs : result[r] \in Kinds =>
    /\ reader[r] = "done" /\ ~outcome[r].error /\ outcome[r].kind = result[r]
    /\ process[r] = "reaped" /\ status[r] = IF result[r] = "completed" THEN "ok" ELSE "error"

Queued ==
  \A r \in Runs :
    /\ <<"onTermination", r>> \in tasks => r \in asked
    /\ <<"terminalEventObserved", r>> \in tasks => outcome[r].kind # "none"
    /\ <<"eventReaderFinished", r>> \in tasks => reader[r] = "done"

Caused(r) == r \in asked \/ outcome[r] # NoOutcome
Causes == \A r \in Runs : r \in warned \cup signals \/ escalation[r] # "off" => Caused(r)

IInv == TypeOK /\ Noted /\ Unstarted /\ Readers /\ HaveRead /\ Endings /\ Queued /\ Causes
-----------------------------------------------------------------------------
(***************************************************************************)
(* Sequences of frames and the runs' records.                              *)
(***************************************************************************)

Outcomes == [kind : Kinds \cup {"none"}, error : BOOLEAN]

LEMMA WrittenLater ==
  ASSUME NEW w \in Seq(Frames), NEW p \in Seq(Frames), NEW o \in Outcomes, NEW e \in Frames,
         HaveReadOf(w, p, o)
  PROVE  HaveReadOf(Append(w, e), Append(p, e), o)
<1> DEFINE k == Len(w) - Len(p)
           W == Append(w, e)
           P == Append(p, e)
<1>1. /\ Len(w) \in Nat /\ Len(p) \in Nat /\ k \in Nat
      /\ Len(W) = Len(w) + 1 /\ Len(P) = Len(p) + 1
      /\ Len(W) - Len(P) = k
  BY DEF HaveReadOf
<1>2. /\ \A i \in 1..Len(w) : W[i] = w[i]
      /\ \A i \in 1..Len(p) : P[i] = p[i]
      /\ W[Len(w) + 1] = e /\ P[Len(p) + 1] = e
  OBVIOUS
<1> HIDE DEF W, P
<1>3. \A i \in 1..Len(P) : P[i] = W[k + i]
  <2> TAKE i \in 1..Len(P)
  <2>1. CASE i \in 1..Len(p)
    <3>1. k + i \in 1..Len(w)
      BY <1>1, <2>1
    <3> QED BY <1>2, <2>1, <3>1 DEF HaveReadOf
  <2>2. CASE i = Len(p) + 1
    <3>1. k + i = Len(w) + 1
      BY <1>1, <2>2
    <3> QED BY <1>2, <2>2, <3>1
  <2> QED BY <1>1, <2>1, <2>2
<1>4. \A i \in 1..k : i \in 1..Len(w)
  BY <1>1
<1>5. \A i \in 1..k : W[i] = w[i]
  BY <1>2, <1>4
<1>6. /\ ~o.error /\ o.kind = "none" => \A i \in 1..k : w[i] = "progress"
      /\ ~o.error /\ o.kind # "none" => k >= 1 /\ w[k] = o.kind /\ \A i \in 1..(k - 1) : w[i] = "progress"
  BY DEF HaveReadOf
<1>7. k \in Nat /\ Len(W) - Len(P) = k
  BY <1>1
<1> HIDE DEF k
<1>8. /\ ~o.error /\ o.kind = "none" => \A i \in 1..k : W[i] = "progress"
      /\ ~o.error /\ o.kind # "none" => k >= 1 /\ W[k] = o.kind /\ \A i \in 1..(k - 1) : W[i] = "progress"
  BY <1>5, <1>6, <1>7
<1>9. HaveReadOf(W, P, o)
  BY <1>3, <1>7, <1>8 DEF HaveReadOf
<1> QED BY <1>9 DEF W, P

LEMMA ReadOne ==
  ASSUME NEW w \in Seq(Frames), NEW p \in Seq(Frames), NEW o \in Outcomes, p # <<>>,
         HaveReadOf(w, p, o), ~o.error
  PROVE  /\ HaveReadOf(w, Tail(p), [o EXCEPT !.error = TRUE])
         /\ o.kind = "none" /\ Head(p) = "progress" => HaveReadOf(w, Tail(p), o)
         /\ o.kind = "none" /\ Head(p) \in Kinds => HaveReadOf(w, Tail(p), [o EXCEPT !.kind = Head(p)])
<1> DEFINE k == Len(w) - Len(p)
           P == Tail(p)
<1>1. /\ Len(w) \in Nat /\ Len(p) \in Nat \ {0} /\ k \in Nat
      /\ Len(P) = Len(p) - 1 /\ Len(w) - Len(P) = k + 1
  BY DEF HaveReadOf
<1>2. /\ \A i \in 1..Len(P) : P[i] = p[i + 1]
      /\ Head(p) = p[1]
  OBVIOUS
<1> HIDE DEF P
<1>3. \A i \in 1..Len(P) : P[i] = w[(k + 1) + i]
  <2> TAKE i \in 1..Len(P)
  <2>1. i + 1 \in 1..Len(p) /\ k + (i + 1) = (k + 1) + i
    BY <1>1
  <2> QED BY <1>2, <2>1 DEF HaveReadOf
<1>4. Head(p) = w[k + 1]
  <2>1. 1 \in 1..Len(p)
    BY <1>1
  <2> QED BY <1>2, <2>1 DEF HaveReadOf
<1>5. HaveReadOf(w, P, [o EXCEPT !.error = TRUE])
  BY <1>1, <1>3 DEF HaveReadOf, Outcomes
<1>6. o.kind = "none" => \A i \in 1..k : w[i] = "progress"
  BY DEF HaveReadOf
<1>7. ASSUME o.kind = "none", Head(p) = "progress" PROVE HaveReadOf(w, P, o)
  <2>1. \A i \in 1..(k + 1) : w[i] = "progress"
    BY <1>1, <1>4, <1>6, <1>7
  <2> QED BY <1>1, <1>3, <1>7, <2>1 DEF HaveReadOf
<1>8. ASSUME o.kind = "none", Head(p) \in Kinds PROVE HaveReadOf(w, P, [o EXCEPT !.kind = Head(p)])
  <2> DEFINE q == [o EXCEPT !.kind = Head(p)]
  <2>1. q.kind = Head(p) /\ q.kind # "none" /\ k + 1 >= 1 /\ (k + 1) - 1 = k
    BY <1>1, <1>8 DEF Outcomes, Kinds
  <2> HIDE DEF q
  <2>2. HaveReadOf(w, P, q)
    BY <1>1, <1>3, <1>4, <1>6, <1>8, <2>1 DEF HaveReadOf
  <2> QED BY <2>2 DEF q
<1> QED BY <1>5, <1>7, <1>8 DEF P

LEMMA YieldedTyped ==
  ASSUME TypeOK, NEW r \in Runs, NEW e \in Frames
  PROVE  /\ Yielded(r, e) \in [Runs -> Seq(Frames)]
         /\ \A s \in Runs : Len(Yielded(r, e)[s]) <= Capacity
<1>1. /\ stream \in [Runs -> Seq(Frames)] /\ Capacity \in Nat \ {0}
      /\ \A s \in Runs : Len(stream[s]) <= Capacity
  BY ClientAssumption DEF TypeOK
<1>2. /\ Buffered(stream[r], e) \in Seq(Frames)
      /\ Len(Buffered(stream[r], e)) <= Capacity
  <2>1. stream[r] \in Seq(Frames) /\ Len(stream[r]) \in Nat /\ Len(stream[r]) <= Capacity
    BY <1>1
  <2>2. CASE Len(stream[r]) < Capacity
    BY <1>1, <2>1, <2>2 DEF Buffered
  <2>3. CASE ~(Len(stream[r]) < Capacity)
    <3>1. stream[r] # <<>> /\ Len(stream[r]) = Capacity
      BY <1>1, <2>1, <2>3
    <3>2. Tail(stream[r]) \in Seq(Frames) /\ Len(Tail(stream[r])) = Capacity - 1
      BY <2>1, <3>1
    <3> QED BY <1>1, <2>3, <3>2 DEF Buffered
  <2> QED BY <2>2, <2>3
<1> HIDE DEF Buffered
<1> QED BY <1>1, <1>2 DEF Yielded

\* A run's identifier is that of a run; none has zero.
LEMMA ActiveIs ==
  ASSUME TypeOK
  PROVE  /\ active # NoRun => active \in RunRecords /\ active.id \in Runs
         /\ active = NoRun => active.id = 0
         /\ \A r \in Runs : active.id = r => active # NoRun
BY DEF TypeOK, RunRecords, NoRun, Runs

\* A poll of the process notes its exit.
LEMMA ReconciledIs ==
  ASSUME TypeOK, NEW run \in RunRecords, NotedOf(run)
  PROVE  LET q == Reconciled(run)
         IN /\ q \in RunRecords /\ q.id = run.id /\ NotedOf(q)
            /\ q.readerFinished = run.readerFinished /\ q.readerError = run.readerError
            /\ q.cancellationRequested = run.cancellationRequested
<1>1. run.id \in Runs /\ status[run.id] \in {"none", "ok", "error", "signal"}
  BY DEF TypeOK, RunRecords
<1>2. CASE ~run.processFinished /\ process[run.id] = "zombie"
  <2> DEFINE q == [run EXCEPT !.processFinished = TRUE, !.waitStatus = status[run.id]]
  <2>1. /\ q \in RunRecords /\ q.id = run.id /\ q.processFinished /\ q.waitStatus = status[run.id]
        /\ q.readerFinished = run.readerFinished /\ q.readerError = run.readerError
        /\ q.terminalKind = run.terminalKind /\ q.cancellationRequested = run.cancellationRequested
    BY <1>1 DEF RunRecords
  <2> HIDE DEF q
  <2>2. NotedOf(q)
    BY <1>2, <2>1 DEF NotedOf
  <2>3. Reconciled(run) = q
    BY <1>2 DEF Reconciled, q
  <2> QED BY <2>1, <2>2, <2>3
<1>3. CASE ~(~run.processFinished /\ process[run.id] = "zombie")
  <2>1. Reconciled(run) = run
    BY <1>3 DEF Reconciled
  <2> QED BY <2>1
<1> QED BY <1>2, <1>3
-----------------------------------------------------------------------------
(***************************************************************************)
(* The main actor: the active run notes what it learnt, and ends when its  *)
(* reader and its process have.                                            *)
(***************************************************************************)

\* What a method or a task of the main actor does, once it knows what the run has noted.
MainStep(run, start) ==
  /\ Continue(run)
  /\ escalation' = [escalation EXCEPT ![run.id] =
       IF run.processFinished THEN "off" ELSE IF start /\ @ = "off" THEN "SIGINT" ELSE @]
  /\ warned' \in {warned, warned \cup {run.id}} /\ (warned' # warned => start)

\* It starts stopping the helper only for a cause.
MainSteps == \E run \in RunRecords, start \in BOOLEAN :
  /\ run.id = active.id /\ NotedOf(run) /\ MainStep(run, start)
  /\ start => run.id \in asked' \/ outcome[run.id] # NoOutcome

LEMMA MainKeeps ==
  ASSUME IInv, active # NoRun, MainSteps, UNCHANGED unmoved,
         tasks' \subseteq tasks, asked \subseteq asked', asked' \subseteq Runs
  PROVE  IInv'
<1> PICK run \in RunRecords, start \in BOOLEAN :
      /\ run.id = active.id /\ NotedOf(run) /\ MainStep(run, start)
      /\ start => run.id \in asked' \/ outcome[run.id] # NoOutcome
  BY DEF MainSteps
<1> DEFINE a == run.id
<1>1. a \in Runs /\ a = active.id /\ TypeOK /\ process[a] # "none"
  BY ActiveIs DEF IInv, Noted
<1>2. /\ process' = [process EXCEPT ![a] = IF run.processFinished THEN "reaped" ELSE @]
      /\ UNCHANGED <<status, pipe, written, hasClosed, reader, outcome, orphans, consumer, signals>>
  BY DEF MainStep, Continue, unmoved, reading
<1>3. /\ process' \in [Runs -> {"none", "running", "zombie", "reaped"}]
      /\ process'[a] = IF run.processFinished THEN "reaped" ELSE process[a]
      /\ \A r \in Runs : r # a => process'[r] = process[r]
  BY <1>1, <1>2 DEF TypeOK
<1>4. /\ EndOf(run) \in Kinds \cup {"error"}
      /\ EndOf(run) \in Kinds => /\ ~run.readerError /\ EndOf(run) = run.terminalKind
                                 /\ run.waitStatus = IF EndOf(run) = "completed" THEN "ok" ELSE "error"
      /\ "error" \notin Kinds /\ "none" \notin Kinds
  BY DEF EndOf, RunRecords, Kinds
<1>5. IF Finished(run)
      THEN /\ active' = NoRun
           /\ result' = [result EXCEPT ![a] = EndOf(run)]
           /\ stream' = IF EndOf(run) = "error" THEN stream ELSE Yielded(a, EndOf(run))
      ELSE active' = run /\ UNCHANGED <<result, stream>>
  BY DEF MainStep, Continue
<1>6. NotedOf(run)' /\ process'[a] # "none"
  BY <1>1, <1>2, <1>3 DEF NotedOf
<1>7. TypeOK'
  <2>1. stream' \in [Runs -> Seq(Frames)] /\ \A r \in Runs : Len(stream'[r]) <= Capacity
    <3>1. CASE stream' = stream
      BY <1>1, <3>1 DEF TypeOK
    <3>2. CASE stream' = Yielded(a, EndOf(run)) /\ EndOf(run) \in Kinds
      <4>1. EndOf(run) \in Frames
        BY <3>2 DEF Frames
      <4> QED BY <1>1, <3>2, <4>1, YieldedTyped
    <3> QED BY <1>4, <1>5, <3>1, <3>2
  <2>2. result' \in [Runs -> Kinds \cup {"none", "error"}]
    <3>1. result' = result \/ result' = [result EXCEPT ![a] = EndOf(run)]
      BY <1>5
    <3>2. EndOf(run) \in Kinds \cup {"none", "error"}
      BY <1>4
    <3>3. result \in [Runs -> Kinds \cup {"none", "error"}] /\ a \in Runs
      BY <1>1 DEF TypeOK
    <3> HIDE DEF a
    <3> QED BY <3>1, <3>2, <3>3
  <2>3. active' \in {NoRun} \cup RunRecords
    BY <1>5
  <2>4. escalation' \in [Runs -> {"off", "SIGINT", "SIGTERM", "SIGKILL", "sent"}]
    BY <1>1 DEF MainStep, TypeOK
  <2>5. warned' \subseteq Runs
    BY <1>1 DEF MainStep, TypeOK
  <2> QED BY <1>1, <1>2, <1>3, <2>1, <2>2, <2>3, <2>4, <2>5 DEF TypeOK, RunRecords
<1>8. Noted'
  <2>1. CASE Finished(run)
    BY <1>5, <2>1 DEF Noted
  <2>2. CASE ~Finished(run)
    <3>1. active' = run
      BY <1>5, <2>2
    <3> QED BY <1>6, <3>1 DEF Noted, NotedOf
  <2> QED BY <2>1, <2>2
<1>9. Unstarted'
  BY <1>1, <1>2, <1>3 DEF IInv, Unstarted
<1>10. Readers'
  <2>1. \A r \in Runs : reader[r] = "reading" => active'.id = r
    <3> TAKE r \in Runs
    <3> HAVE reader[r] = "reading"
    <3>1. r = a
      BY <1>1 DEF IInv, Readers
    <3>2. ~Finished(run)
      BY <3>1 DEF Finished, NotedOf
    <3> QED BY <1>5, <3>1, <3>2
  <2> QED BY <1>2, <2>1 DEF IInv, Readers
<1>11. HaveRead'
  BY <1>2 DEF IInv, HaveRead
<1>12. Endings'
  <2> SUFFICES ASSUME NEW r \in Runs, result'[r] \in Kinds
               PROVE  /\ reader[r] = "done" /\ ~outcome[r].error /\ outcome[r].kind = result'[r]
                      /\ process'[r] = "reaped" /\ status[r] = IF result'[r] = "completed" THEN "ok" ELSE "error"
    BY <1>2 DEF Endings
  <2>1. CASE r = a /\ Finished(run)
    <3>1. result'[r] = EndOf(run)
      BY <1>1, <1>5, <2>1 DEF TypeOK
    <3>2. run.readerFinished /\ run.processFinished
      BY <2>1 DEF Finished
    <3> QED BY <1>1, <1>3, <1>4, <2>1, <3>1, <3>2 DEF NotedOf
  <2>2. CASE ~(r = a /\ Finished(run))
    <3>1. result'[r] = result[r]
      BY <1>1, <1>5, <2>2 DEF TypeOK
    <3>2. process[r] = "reaped" => process'[r] = "reaped"
      BY <1>3
    <3> QED BY <3>1, <3>2 DEF IInv, Endings
  <2> QED BY <2>1, <2>2
<1>13. Queued'
  BY <1>2 DEF IInv, Queued
<1>14. Causes'
  <2>1. /\ \A r \in Runs : r # a => escalation'[r] = escalation[r]
        /\ escalation'[a] # "off" => escalation[a] # "off" \/ start
    BY <1>1 DEF MainStep, TypeOK
  <2>2. \A r \in warned' : r \in warned \/ (r = a /\ start)
    BY DEF MainStep
  <2> QED BY <1>1, <1>2, <2>1, <2>2 DEF IInv, Causes, Caused
<1> QED BY <1>7, <1>8, <1>9, <1>10, <1>11, <1>12, <1>13, <1>14 DEF IInv

\* The exit that a poll finds is noted.
LEMMA PollIsMain ==
  ASSUME TypeOK, NEW run \in RunRecords, run.id = active.id, NotedOf(run), NEW start \in BOOLEAN,
         KeepOn(Reconciled(run), start), start => run.id \in asked' \/ outcome[run.id] # NoOutcome
  PROVE  MainSteps
<1> DEFINE q == Reconciled(run)
<1>1. q \in RunRecords /\ q.id = run.id /\ NotedOf(q)
  BY ReconciledIs
<1> HIDE DEF q
<1>2. KeepOn(q, start)
  BY DEF q
<1>3. MainStep(q, start)
  BY <1>2 DEF MainStep, KeepOn, Escalate
<1> QED BY <1>1, <1>3 DEF MainSteps

LEMMA CancelIsMain ==
  ASSUME TypeOK, NEW run \in RunRecords, run.id = active.id, NotedOf(run), Cancel(run),
         run.id \in asked' \/ outcome[run.id] # NoOutcome
  PROVE  MainSteps
<1> DEFINE q == [run EXCEPT !.cancellationRequested = TRUE]
           start == ~run.cancellationRequested
<1>1. /\ q \in RunRecords /\ q.id = run.id /\ q.processFinished = run.processFinished
      /\ NotedOf(q) /\ start \in BOOLEAN
  BY DEF RunRecords, NotedOf
<1>2. MainStep(q, start)
  BY <1>1 DEF Cancel, MainStep, Escalate
<1> HIDE DEF q, start
<1> QED BY <1>1, <1>2 DEF MainSteps

LEMMA CancelIfActiveIsMain ==
  ASSUME TypeOK, Noted, active # NoRun, CancelIfActive,
         active.id \in asked' \/ outcome[active.id] # NoOutcome
  PROVE  MainSteps
<1>1. active \in RunRecords /\ NotedOf(active)
  BY ActiveIs DEF Noted
<1> DEFINE q == Reconciled(active)
<1>2. q \in RunRecords /\ q.id = active.id /\ NotedOf(q)
  BY <1>1, ReconciledIs
<1>3. CASE q.processFinished
  BY <1>1, <1>3, PollIsMain DEF CancelIfActive
<1>4. CASE ~q.processFinished
  <2>1. Cancel(q)
    BY <1>4 DEF CancelIfActive
  <2> HIDE DEF q
  <2> QED BY <1>2, <2>1, CancelIsMain
<1> QED BY <1>3, <1>4

LEMMA AskCancelIsMain == ASSUME IInv, AskCancel PROVE active # NoRun /\ MainSteps
BY CancelIfActiveIsMain DEF AskCancel, IInv

LEMMA MonitorIsMain == ASSUME IInv, Monitor PROVE active # NoRun /\ MainSteps
<1>1. active # NoRun /\ active \in RunRecords /\ NotedOf(active) /\ TypeOK
  BY ActiveIs DEF Monitor, IInv, Noted
<1> QED BY <1>1, PollIsMain DEF Monitor

LEMMA OnTerminationIsMain ==
  ASSUME IInv, NEW r \in Runs, OnTermination(r) PROVE active # NoRun /\ MainSteps
<1>1. active # NoRun /\ active.id = r /\ r \in asked /\ asked' = asked
  BY ActiveIs DEF OnTermination, IInv, Take, Queued
<1> QED BY <1>1, CancelIfActiveIsMain DEF OnTermination, IInv

LEMMA TerminalEventIsMain ==
  ASSUME IInv, NEW r \in Runs, TerminalEventObserved(r) PROVE active # NoRun /\ MainSteps
<1>1. /\ active # NoRun /\ active.id = r /\ active \in RunRecords /\ NotedOf(active) /\ TypeOK
      /\ outcome[r].kind \in Kinds
  <2>1. outcome[r].kind # "none" /\ active.id = r /\ TypeOK /\ Noted
    BY DEF TerminalEventObserved, IInv, Take, Queued
  <2>2. outcome[r] \in Outcomes
    BY <2>1 DEF TypeOK, Outcomes
  <2> QED BY <2>1, <2>2, ActiveIs DEF Outcomes, Noted
<1> DEFINE run == [active EXCEPT !.terminalKind = outcome[r].kind]
<1>2. run \in RunRecords /\ run.id = active.id /\ NotedOf(run)
  BY <1>1 DEF RunRecords, NotedOf
<1>3. outcome[r] # NoOutcome
  BY <1>1 DEF NoOutcome, Kinds
<1> HIDE DEF run
<1>4. CASE active.terminalKind = "none"
  <2>1. KeepOn(Reconciled(run), TRUE)
    BY <1>4 DEF TerminalEventObserved, run
  <2> QED BY <1>1, <1>2, <1>3, <2>1, PollIsMain
<1>5. CASE active.terminalKind # "none"
  <2>1. KeepOn(active, FALSE)
    BY <1>5 DEF TerminalEventObserved
  <2>2. MainStep(active, FALSE)
    BY <2>1 DEF KeepOn, MainStep, Escalate
  <2> QED BY <1>1, <2>2 DEF MainSteps
<1> QED BY <1>1, <1>4, <1>5

LEMMA ReaderFinishedIsMain ==
  ASSUME IInv, NEW r \in Runs, EventReaderFinished(r) PROVE active # NoRun /\ MainSteps
<1>1. /\ active # NoRun /\ active.id = r /\ active \in RunRecords /\ NotedOf(active) /\ TypeOK
      /\ reader[r] = "done" /\ outcome[r] # NoOutcome
      /\ outcome[r].kind \in Kinds \cup {"none"} /\ outcome[r].error \in BOOLEAN
  BY ActiveIs DEF EventReaderFinished, IInv, Take, Queued, Noted, Readers, TypeOK
<1> DEFINE run == [active EXCEPT !.readerFinished = TRUE, !.readerError = outcome[r].error,
                                 !.terminalKind = outcome[r].kind]
           q == Reconciled(run)
<1>2. run \in RunRecords /\ run.id = active.id /\ NotedOf(run)
  BY <1>1 DEF RunRecords, NotedOf
<1> HIDE DEF run
<1>3. q \in RunRecords /\ q.id = active.id /\ NotedOf(q)
  BY <1>1, <1>2, ReconciledIs
<1>4. IF q.readerError /\ ~q.processFinished THEN Cancel(q) ELSE KeepOn(q, TRUE)
  BY DEF EventReaderFinished, run
<1>5. CASE q.readerError /\ ~q.processFinished
  <2> HIDE DEF q
  <2> QED BY <1>1, <1>3, <1>4, <1>5, CancelIsMain
<1>6. CASE ~(q.readerError /\ ~q.processFinished)
  BY <1>1, <1>2, <1>4, <1>6, PollIsMain
<1> QED BY <1>1, <1>5, <1>6
-----------------------------------------------------------------------------
(***************************************************************************)
(* Every step keeps the invariant.                                         *)
(***************************************************************************)

\* What ends a process leaves what the runs have noted of it.
LEMMA DiesKeeps ==
  ASSUME IInv, NEW r \in Runs, process[r] = "running", NEW how \in {"ok", "error", "signal"}, Dies(r, how),
         UNCHANGED <<active, pipe, written, reading, tasks, orphans, consuming, asked, warned>>,
         signals' \in {signals, signals \cup {r}}, signals' # signals => escalation[r] # "off",
         escalation' \in [Runs -> {"off", "SIGINT", "SIGTERM", "SIGKILL", "sent"}],
         \A s \in Runs : escalation'[s] # "off" => escalation[s] # "off"
  PROVE  IInv'
<1>1. /\ process' \in [Runs -> {"none", "running", "zombie", "reaped"}] /\ process'[r] = "zombie"
      /\ status' \in [Runs -> {"none", "ok", "error", "signal"}]
      /\ \A s \in Runs : s # r => process'[s] = process[s] /\ status'[s] = status[s]
      /\ hasClosed' \subseteq Runs
  BY DEF Dies, IInv, TypeOK
<1>2. TypeOK'
  BY <1>1 DEF IInv, TypeOK, reading, consuming
<1>3. Noted'
  <2> SUFFICES ASSUME active # NoRun PROVE NotedOf(active)' /\ process'[active.id] # "none"
    BY DEF Noted
  <2>1. active.id \in Runs /\ NotedOf(active) /\ process[active.id] # "none"
    BY ActiveIs DEF IInv, Noted
  <2>2. active.processFinished => active.id # r
    BY <2>1 DEF NotedOf
  <2> QED BY <1>1, <2>1, <2>2 DEF NotedOf, reading
<1>4. Unstarted' /\ Readers' /\ HaveRead' /\ Queued'
  BY <1>1 DEF IInv, Unstarted, Readers, HaveRead, Queued, reading, consuming
<1>5. Endings'
  BY <1>1 DEF IInv, Endings, reading, consuming
<1>6. Causes'
  BY DEF IInv, Causes, Caused, reading
<1> QED BY <1>2, <1>3, <1>4, <1>5, <1>6 DEF IInv

\* A process is started, as the active run or as an orphan.
LEMMA StartKeeps ==
  ASSUME IInv, NEW r \in Runs, Start(r) \/ LaunchFails(r)
  PROVE  IInv'
<1>1. /\ active = NoRun /\ process[r] = "none" /\ TypeOK /\ reader[r] = "off" /\ consumer[r] = "none"
      /\ process' = [process EXCEPT ![r] = "running"]
      /\ UNCHANGED <<status, pipe, written, hasClosed, outcome, tasks, escalation, stream, result, history>>
  BY DEF Start, LaunchFails, IInv, Unstarted, reading, consuming
<1>2. /\ process' \in [Runs -> {"none", "running", "zombie", "reaped"}] /\ process'[r] = "running"
      /\ \A s \in Runs : s # r => process'[s] = process[s]
  BY <1>1 DEF TypeOK
<1>3. /\ Queued' /\ HaveRead' /\ Causes'
      /\ Unstarted' /\ Endings'
  <2>1. \A s \in Runs : s # r => reader'[s] = reader[s] /\ consumer'[s] = consumer[s]
    BY <1>1 DEF Start, LaunchFails, TypeOK, reading, consuming
  <2>2. \A s \in Runs : reader[s] = "done" => reader'[s] = "done"
    BY <1>1, <2>1
  <2>3. Queued'
    BY <1>1, <2>2 DEF IInv, Queued, history
  <2>4. HaveRead' /\ Causes'
    BY <1>1 DEF IInv, HaveRead, Causes, Caused, history
  <2>5. Unstarted'
    BY <1>2, <2>1 DEF IInv, Unstarted
  <2>6. Endings'
    BY <1>1, <1>2, <2>2 DEF IInv, Endings
  <2> QED BY <2>3, <2>4, <2>5, <2>6
<1>4. CASE Start(r)
  <2>1. /\ active' = NewRun(r) /\ NewRun(r) \in RunRecords /\ NewRun(r).id = r
        /\ reader' = [reader EXCEPT ![r] = "reading"]
        /\ consumer' = [consumer EXCEPT ![r] = "iterating"] /\ orphans' = orphans
    BY <1>4 DEF Start, NewRun, RunRecords
  <2>2. NotedOf(active)' /\ active'.id = r
    BY <2>1 DEF NotedOf, NewRun
  <2>3. TypeOK'
    BY <1>1, <1>2, <2>1 DEF TypeOK, RunRecords, history
  <2>4. Noted'
    BY <1>2, <2>2 DEF Noted
  <2>5. Readers'
    <3>1. \A s \in Runs : s # r => reader[s] # "reading"
      BY <1>1, ActiveIs DEF IInv, Readers
    <3>2. ~outcome[r].error
      BY <1>1 DEF IInv, Readers, NoOutcome
    <3> QED BY <1>1, <2>1, <2>2, <3>1, <3>2 DEF IInv, Readers, TypeOK
  <2> QED BY <1>3, <2>3, <2>4, <2>5 DEF IInv
<1>5. CASE LaunchFails(r)
  <2>1. UNCHANGED <<active, reader, consumer>> /\ orphans' = orphans \cup {r}
    BY <1>5 DEF LaunchFails, reading, consuming
  <2>2. TypeOK'
    BY <1>1, <1>2, <2>1 DEF TypeOK, history
  <2>3. Noted' /\ Readers'
    BY <1>1, <2>1 DEF IInv, Noted, Readers
  <2> QED BY <1>3, <2>2, <2>3 DEF IInv
<1> QED BY <1>4, <1>5

\* The reader reads a frame.
LEMMA ReadKeeps ==
  ASSUME IInv, NEW r \in Runs, ReadFrame(r)
  PROVE  IInv'
<1>1. /\ TypeOK /\ reader[r] = "reading" /\ pipe[r] # <<>> /\ ~outcome[r].error
      /\ pipe[r] \in Seq(Frames) /\ written[r] \in Seq(Frames) /\ outcome[r] \in Outcomes
      /\ HaveReadOf(written[r], pipe[r], outcome[r]) /\ active.id = r
  BY DEF ReadFrame, IInv, TypeOK, Readers, HaveRead, Outcomes
<1>2. /\ pipe' = [pipe EXCEPT ![r] = Tail(@)]
      /\ UNCHANGED <<active, process, status, written, hasClosed, escalation, orphans, consumer, result, history>>
  BY DEF ReadFrame
<1>3. /\ Head(pipe[r]) \in Frames /\ Tail(pipe[r]) \in Seq(Frames)
      /\ pipe' \in [Runs -> Seq(Frames)] /\ pipe'[r] = Tail(pipe[r])
      /\ \A s \in Runs : s # r => pipe'[s] = pipe[s]
  BY <1>1, <1>2 DEF TypeOK
<1>4. active # NoRun /\ NotedOf(active) /\ process[r] # "none"
  BY <1>1, ActiveIs DEF IInv, Noted
<1>5. ~active.readerFinished
  BY <1>1, <1>4 DEF NotedOf
<1>6. result[r] \notin Kinds
  BY <1>1 DEF IInv, Endings
<1> DEFINE e == Head(pipe[r])
<1>7. CASE /\ outcome' = [outcome EXCEPT ![r].error = TRUE]
           /\ reader' = [reader EXCEPT ![r] = "done"]
           /\ tasks' = tasks \cup {<<"eventReaderFinished", r>>}
           /\ UNCHANGED stream
  <2>1. /\ outcome' \in [Runs -> Outcomes] /\ outcome'[r] = [outcome[r] EXCEPT !.error = TRUE]
        /\ outcome'[r].error /\ outcome'[r].kind = outcome[r].kind
        /\ \A s \in Runs : s # r => outcome'[s] = outcome[s] /\ reader'[s] = reader[s]
        /\ reader' \in [Runs -> {"off", "reading", "done"}] /\ reader'[r] = "done"
    <3> DEFINE q == [outcome[r] EXCEPT !.error = TRUE]
    <3>1. q \in Outcomes /\ q.error /\ q.kind = outcome[r].kind
      BY <1>1 DEF Outcomes
    <3>2. outcome' = [outcome EXCEPT ![r] = q]
      BY <1>7
    <3>3. outcome \in [Runs -> Outcomes] /\ reader \in [Runs -> {"off", "reading", "done"}]
      BY <1>1 DEF TypeOK, Outcomes
    <3> HIDE DEF q
    <3>4. /\ outcome' \in [Runs -> Outcomes] /\ outcome'[r] = q
          /\ \A s \in Runs : s # r => outcome'[s] = outcome[s]
      BY <3>1, <3>2, <3>3
    <3>5. /\ reader' \in [Runs -> {"off", "reading", "done"}] /\ reader'[r] = "done"
          /\ \A s \in Runs : s # r => reader'[s] = reader[s]
      BY <1>7, <3>3
    <3> QED BY <3>1, <3>4, <3>5 DEF q
  <2>2. outcome'[r] # NoOutcome
    BY <2>1 DEF NoOutcome
  <2>3. TypeOK'
    BY <1>1, <1>2, <1>3, <1>7, <2>1 DEF TypeOK, Tasks, Outcomes, history
  <2>4. Noted'
    BY <1>1, <1>2, <1>4, <1>5, <2>1 DEF Noted, NotedOf
  <2>5. Unstarted'
    BY <1>2, <1>4, <2>1 DEF IInv, Unstarted
  <2>6. Readers'
    <3> SUFFICES ASSUME NEW s \in Runs
                 PROVE  /\ reader'[s] = "off" => outcome'[s] = NoOutcome
                        /\ reader'[s] = "reading" => active.id = s /\ ~outcome'[s].error
                        /\ reader'[s] = "done" =>
                             outcome'[s] # NoOutcome /\ (~outcome'[s].error => pipe'[s] = <<>>)
      BY <1>2 DEF Readers
    <3>1. CASE s = r
      BY <2>1, <2>2, <3>1
    <3>2. CASE s # r
      BY <1>3, <2>1, <3>2 DEF IInv, Readers
    <3> QED BY <3>1, <3>2
  <2>7. HaveRead'
    <3>1. HaveReadOf(written[r], Tail(pipe[r]), [outcome[r] EXCEPT !.error = TRUE])
      BY <1>1, ReadOne
    <3> QED BY <1>2, <1>3, <2>1, <3>1 DEF IInv, HaveRead
  <2>8. Endings'
    BY <1>2, <1>6, <2>1 DEF IInv, Endings
  <2>9. Queued'
    BY <1>2, <1>7, <2>1 DEF IInv, Queued, history
  <2>10. Causes'
    BY <1>2, <2>1, <2>2 DEF IInv, Causes, Caused, history
  <2> QED BY <2>3, <2>4, <2>5, <2>6, <2>7, <2>8, <2>9, <2>10 DEF IInv
<1>8. CASE /\ e = "progress" /\ outcome[r].kind = "none" /\ stream' = Yielded(r, e)
           /\ UNCHANGED <<outcome, reader, tasks>>
  <2>1. TypeOK'
    BY <1>1, <1>2, <1>3, <1>8, YieldedTyped DEF TypeOK, history
  <2>2. Noted' /\ Unstarted' /\ Endings' /\ Queued' /\ Causes'
    BY <1>2, <1>8 DEF IInv, Noted, NotedOf, Unstarted, Endings, Queued, Causes, Caused, history
  <2>3. Readers'
    BY <1>1, <1>2, <1>3, <1>8 DEF IInv, Readers
  <2>4. HaveRead'
    <3>1. HaveReadOf(written[r], Tail(pipe[r]), outcome[r])
      BY <1>1, <1>8, ReadOne
    <3> QED BY <1>2, <1>3, <1>8, <3>1 DEF IInv, HaveRead
  <2> QED BY <2>1, <2>2, <2>3, <2>4 DEF IInv
<1>9. CASE /\ e \in Kinds /\ outcome[r].kind = "none"
           /\ outcome' = [outcome EXCEPT ![r].kind = e]
           /\ tasks' = tasks \cup {<<"terminalEventObserved", r>>}
           /\ UNCHANGED <<reader, stream>>
  <2>0. "none" \notin Kinds
    BY DEF Kinds
  <2>1. /\ outcome' \in [Runs -> Outcomes] /\ outcome'[r] = [outcome[r] EXCEPT !.kind = e]
        /\ ~outcome'[r].error /\ outcome'[r].kind = e
        /\ \A s \in Runs : s # r => outcome'[s] = outcome[s]
    <3> DEFINE q == [outcome[r] EXCEPT !.kind = e]
    <3>1. q \in Outcomes /\ ~q.error /\ q.kind = e
      BY <1>1, <1>9 DEF Outcomes
    <3>2. outcome' = [outcome EXCEPT ![r] = q]
      BY <1>9
    <3>3. outcome \in [Runs -> Outcomes]
      BY <1>1 DEF TypeOK, Outcomes
    <3> HIDE DEF q
    <3>4. /\ outcome' \in [Runs -> Outcomes] /\ outcome'[r] = q
          /\ \A s \in Runs : s # r => outcome'[s] = outcome[s]
      BY <3>1, <3>2, <3>3
    <3> QED BY <3>1, <3>4 DEF q
  <2>2. outcome'[r] # NoOutcome
    BY <1>9, <2>0, <2>1 DEF NoOutcome
  <2>3. TypeOK'
    BY <1>1, <1>2, <1>3, <1>9, <2>1 DEF TypeOK, Tasks, Outcomes, history
  <2>4. Noted'
    BY <1>1, <1>2, <1>4, <1>5, <1>9, <2>1 DEF Noted, NotedOf
  <2>5. Unstarted'
    BY <1>2, <1>9 DEF IInv, Unstarted
  <2>6. Readers'
    BY <1>1, <1>2, <1>3, <1>9, <2>1 DEF IInv, Readers
  <2>7. HaveRead'
    <3>1. HaveReadOf(written[r], Tail(pipe[r]), [outcome[r] EXCEPT !.kind = e])
      BY <1>1, <1>9, ReadOne
    <3> QED BY <1>2, <1>3, <2>1, <3>1 DEF IInv, HaveRead
  <2>8. Endings'
    BY <1>2, <1>6, <1>9, <2>1 DEF IInv, Endings
  <2>9. Queued'
    BY <1>2, <1>9, <2>0, <2>1 DEF IInv, Queued, history
  <2>10. Causes'
    BY <1>2, <2>1, <2>2 DEF IInv, Causes, Caused, history
  <2> QED BY <2>3, <2>4, <2>5, <2>6, <2>7, <2>8, <2>9, <2>10 DEF IInv
<1> QED BY <1>7, <1>8, <1>9 DEF ReadFrame

\* The end of the pipe, behind which nothing is written.
LEMMA EndKeeps ==
  ASSUME IInv, NEW r \in Runs, ReadEnd(r)
  PROVE  IInv'
<1>1. /\ TypeOK /\ reader[r] = "reading" /\ pipe[r] = <<>> /\ ~outcome[r].error
      /\ outcome[r] \in Outcomes /\ HaveReadOf(written[r], pipe[r], outcome[r]) /\ active.id = r
  BY DEF ReadEnd, IInv, TypeOK, Readers, HaveRead, Outcomes
<1>2. /\ reader' = [reader EXCEPT ![r] = "done"]
      /\ tasks' = tasks \cup {<<"eventReaderFinished", r>>}
      /\ UNCHANGED <<active, helper, escalation, orphans, consuming, history>>
  BY DEF ReadEnd
<1>3. active # NoRun /\ NotedOf(active) /\ process[r] # "none"
  BY <1>1, ActiveIs DEF IInv, Noted
<1>4. ~active.readerFinished
  BY <1>1, <1>3 DEF NotedOf
<1>5. result[r] \notin Kinds
  BY <1>1 DEF IInv, Endings
<1> DEFINE q == [outcome[r] EXCEPT !.error = outcome[r].kind = "none"]
<1>6. q \in Outcomes /\ q.error = (outcome[r].kind = "none") /\ q.kind = outcome[r].kind
  BY <1>1 DEF Outcomes
<1>7. outcome' = [outcome EXCEPT ![r] = q]
  BY DEF ReadEnd
<1>8. q # NoOutcome
  BY <1>6 DEF NoOutcome
<1>9. HaveReadOf(written[r], pipe[r], q)
  <2> HIDE DEF q
  <2>1. CASE outcome[r].kind = "none"
    BY <1>1, <1>6, <2>1 DEF HaveReadOf
  <2>2. CASE outcome[r].kind # "none"
    <3>1. q = outcome[r]
      BY <1>1, <1>6, <2>2 DEF Outcomes
    <3> QED BY <1>1, <3>1
  <2> QED BY <2>1, <2>2
<1> HIDE DEF q
<1>10. /\ outcome' \in [Runs -> Outcomes] /\ outcome'[r] = q
       /\ \A s \in Runs : s # r => outcome'[s] = outcome[s]
  <2>1. outcome \in [Runs -> Outcomes]
    BY <1>1 DEF TypeOK, Outcomes
  <2> QED BY <1>6, <1>7, <2>1
<1>11. /\ reader' \in [Runs -> {"off", "reading", "done"}] /\ reader'[r] = "done"
       /\ \A s \in Runs : s # r => reader'[s] = reader[s]
  BY <1>1, <1>2 DEF TypeOK
<1>12. TypeOK'
  <2>1. tasks' \subseteq Tasks
    BY <1>1, <1>2 DEF TypeOK, Tasks
  <2>2. UNCHANGED <<active, process, status, pipe, written, hasClosed, escalation, orphans,
                    stream, consumer, result, asked, warned, signals>>
    BY <1>2 DEF helper, consuming, history
  <2> QED BY <1>1, <1>10, <1>11, <2>1, <2>2 DEF TypeOK, Outcomes
<1>13. Noted'
  BY <1>1, <1>2, <1>3, <1>4, <1>6, <1>10, <1>11 DEF Noted, NotedOf, helper
<1>14. Unstarted'
  BY <1>2, <1>3, <1>11 DEF IInv, Unstarted, helper, consuming
<1>15. Readers'
  <2> SUFFICES ASSUME NEW s \in Runs
               PROVE  /\ reader'[s] = "off" => outcome'[s] = NoOutcome
                      /\ reader'[s] = "reading" => active.id = s /\ ~outcome'[s].error
                      /\ reader'[s] = "done" =>
                           outcome'[s] # NoOutcome /\ (~outcome'[s].error => pipe[s] = <<>>)
    BY <1>2 DEF Readers, helper
  <2>1. CASE s = r
    BY <1>1, <1>8, <1>10, <1>11, <2>1
  <2>2. CASE s # r
    BY <1>10, <1>11, <2>2 DEF IInv, Readers
  <2> QED BY <2>1, <2>2
<1>16. HaveRead'
  BY <1>2, <1>9, <1>10 DEF IInv, HaveRead, helper
<1>17. Endings'
  BY <1>2, <1>5, <1>10, <1>11 DEF IInv, Endings, helper, consuming
<1>18. Queued'
  BY <1>2, <1>6, <1>10, <1>11 DEF IInv, Queued, history
<1>19. Causes'
  BY <1>2, <1>8, <1>10 DEF IInv, Causes, Caused, history
<1> QED BY <1>12, <1>13, <1>14, <1>15, <1>16, <1>17, <1>18, <1>19 DEF IInv

\* The helper writes a frame that is read later.
LEMMA WriteKeeps ==
  ASSUME IInv, NEW r \in Runs, NEW e \in Written, Write(r, e)
  PROVE  IInv'
<1>1. /\ TypeOK /\ reader[r] = "reading" /\ e \in Frames /\ outcome[r] \in Outcomes
      /\ pipe[r] \in Seq(Frames) /\ written[r] \in Seq(Frames)
      /\ HaveReadOf(written[r], pipe[r], outcome[r])
  BY ClientAssumption DEF Write, IInv, TypeOK, HaveRead, Outcomes, Frames, Kinds
<1>2. /\ written' = [written EXCEPT ![r] = Append(@, e)]
      /\ pipe' = [pipe EXCEPT ![r] = Append(@, e)]
      /\ UNCHANGED <<active, process, status, hasClosed, reader, outcome, tasks, escalation, orphans,
                     consuming, history>>
  BY DEF Write, reading
<1>3. /\ written' \in [Runs -> Seq(Frames)] /\ pipe' \in [Runs -> Seq(Frames)]
      /\ written'[r] = Append(written[r], e) /\ pipe'[r] = Append(pipe[r], e)
      /\ \A s \in Runs : s # r => written'[s] = written[s] /\ pipe'[s] = pipe[s]
  BY <1>1, <1>2 DEF TypeOK
<1>4. TypeOK'
  BY <1>1, <1>2, <1>3 DEF TypeOK, consuming, history
<1>5. Noted' /\ Unstarted' /\ Endings' /\ Queued' /\ Causes'
  BY <1>2 DEF IInv, Noted, NotedOf, Unstarted, Endings, Queued, Causes, Caused, consuming, history
<1>6. Readers'
  BY <1>1, <1>2, <1>3 DEF IInv, Readers
<1>7. HaveRead'
  <2>1. HaveReadOf(written'[r], pipe'[r], outcome[r])
    BY <1>1, <1>3, WrittenLater
  <2> QED BY <1>2, <1>3, <2>1 DEF IInv, HaveRead
<1> QED BY <1>4, <1>5, <1>6, <1>7 DEF IInv

\* The consumer takes an event, or stops.
LEMMA ConsumeKeeps ==
  ASSUME IInv, NEW r \in Runs, TakeEvent(r) \/ StopConsuming(r)
  PROVE  IInv'
<1>1. /\ TypeOK /\ consumer[r] = "iterating" /\ stream[r] \in Seq(Frames) /\ Len(stream[r]) <= Capacity
      /\ Len(stream[r]) \in Nat /\ Capacity \in Nat
  BY ClientAssumption DEF TakeEvent, StopConsuming, IInv, TypeOK
<1>2. UNCHANGED <<active, helper, reading, escalation, orphans, result, warned, signals>>
  BY DEF TakeEvent, StopConsuming, history
<1>3. /\ process[r] # "none"
  BY <1>1 DEF IInv, Unstarted
<1>4. \A events \in Seq(Frames) : Len(events) <= Capacity /\ stream' = [stream EXCEPT ![r] = events] =>
        stream' \in [Runs -> Seq(Frames)] /\ \A s \in Runs : Len(stream'[s]) <= Capacity
  <2>1. stream \in [Runs -> Seq(Frames)] /\ \A s \in Runs : Len(stream[s]) <= Capacity
    BY <1>1 DEF TypeOK
  <2> QED BY <2>1
<1>5. stream' \in [Runs -> Seq(Frames)] /\ \A s \in Runs : Len(stream'[s]) <= Capacity
  <2>1. CASE TakeEvent(r)
    <3>1. stream[r] # <<>> /\ stream' = [stream EXCEPT ![r] = Tail(stream[r])]
      BY <2>1 DEF TakeEvent
    <3>2. Tail(stream[r]) \in Seq(Frames) /\ Len(Tail(stream[r])) = Len(stream[r]) - 1
      BY <1>1, <3>1
    <3>3. Len(Tail(stream[r])) <= Capacity
      BY <1>1, <3>2
    <3> QED BY <1>4, <3>1, <3>2, <3>3
  <2>2. CASE StopConsuming(r)
    <3>1. <<>> \in Seq(Frames) /\ Len(<<>>) = 0
      OBVIOUS
    <3>2. Len(<<>>) <= Capacity /\ stream' = [stream EXCEPT ![r] = <<>>]
      BY <1>1, <2>2, <3>1 DEF StopConsuming
    <3> QED BY <1>4, <3>1, <3>2
  <2> QED BY <2>1, <2>2
<1>6. /\ consumer' = consumer \/ consumer' = [consumer EXCEPT ![r] = "cancelled"]
      /\ asked \subseteq asked' /\ asked' \subseteq Runs
      /\ tasks' \in {tasks, tasks \cup {<<"onTermination", r>>}} /\ (tasks' # tasks => r \in asked')
  BY <1>1 DEF TakeEvent, StopConsuming, history, TypeOK
<1>7. TypeOK'
  BY <1>1, <1>2, <1>5, <1>6 DEF TypeOK, Tasks, helper, reading
<1>8. Noted' /\ Readers' /\ HaveRead' /\ Endings'
  BY <1>2 DEF IInv, Noted, NotedOf, Readers, HaveRead, Endings, helper, reading
<1>9. Unstarted'
  BY <1>1, <1>2, <1>3, <1>6 DEF IInv, Unstarted, helper, reading, TypeOK
<1>10. Queued'
  <2>1. reader' = reader /\ outcome' = outcome
    BY <1>2 DEF reading
  <2>2. \A t \in tasks' : t \in tasks \/ (t = <<"onTermination", r>> /\ r \in asked')
    BY <1>6
  <2> SUFFICES ASSUME NEW s \in Runs
               PROVE  /\ <<"onTermination", s>> \in tasks' => s \in asked'
                      /\ <<"terminalEventObserved", s>> \in tasks' => outcome[s].kind # "none"
                      /\ <<"eventReaderFinished", s>> \in tasks' => reader[s] = "done"
    BY <2>1 DEF Queued
  <2>3. <<"onTermination", s>> \in tasks' => s \in asked'
    BY <1>6, <2>2 DEF IInv, Queued
  <2>4. <<"terminalEventObserved", s>> \in tasks' => <<"terminalEventObserved", s>> \in tasks
    BY <2>2
  <2>5. <<"eventReaderFinished", s>> \in tasks' => <<"eventReaderFinished", s>> \in tasks
    BY <2>2
  <2> QED BY <2>3, <2>4, <2>5 DEF IInv, Queued
<1>11. Causes'
  BY <1>2, <1>6 DEF IInv, Causes, Caused, reading
<1> QED BY <1>7, <1>8, <1>9, <1>10, <1>11 DEF IInv

\* A helper process closes its end of the pipe, or an orphan is reaped.
LEMMA ProcessKeeps ==
  ASSUME IInv, NEW r \in Runs, CloseEvents(r) \/ ReapOrphan(r)
  PROVE  IInv'
<1>1. /\ UNCHANGED <<active, status, pipe, written, reader, outcome, tasks, escalation, orphans,
                     stream, consumer, result, asked, warned, signals>>
      /\ hasClosed' \in {hasClosed, hasClosed \cup {r}}
      /\ process' = process \/ (process[r] = "zombie" /\ process' = [process EXCEPT ![r] = "reaped"])
  BY DEF CloseEvents, ReapOrphan, reading, consuming, history
<1>2. /\ process' \in [Runs -> {"none", "running", "zombie", "reaped"}]
      /\ \A s \in Runs : \/ process'[s] = process[s]
                         \/ process[s] = "zombie" /\ process'[s] = "reaped"
  <2>1. process \in [Runs -> {"none", "running", "zombie", "reaped"}]
    BY DEF IInv, TypeOK
  <2>2. CASE process' = process
    BY <2>1, <2>2
  <2>3. CASE process[r] = "zombie" /\ process' = [process EXCEPT ![r] = "reaped"]
    BY <2>1, <2>3
  <2> QED BY <1>1, <2>2, <2>3
<1>3. TypeOK'
  BY <1>1, <1>2 DEF IInv, TypeOK
<1>4. Noted'
  <2> SUFFICES ASSUME active # NoRun PROVE NotedOf(active)' /\ process'[active.id] # "none"
    BY <1>1 DEF Noted
  <2>1. active.id \in Runs /\ NotedOf(active) /\ process[active.id] # "none"
    BY ActiveIs DEF IInv, Noted
  <2> QED BY <1>1, <1>2, <2>1 DEF NotedOf
<1>5. Unstarted' /\ Readers' /\ HaveRead' /\ Endings' /\ Queued' /\ Causes'
  BY <1>1, <1>2 DEF IInv, Unstarted, Readers, HaveRead, Endings, Queued, Causes, Caused
<1> QED BY <1>3, <1>4, <1>5 DEF IInv

LEMMA DropKeeps == ASSUME IInv, DropStaleTask PROVE IInv'
<1>1. /\ UNCHANGED <<active, process, status, pipe, written, hasClosed, reader, outcome, escalation,
                     orphans, stream, consumer, result, asked, warned, signals>>
      /\ tasks' \subseteq tasks
  BY DEF DropStaleTask, helper, reading, consuming, history
<1>2. TypeOK'
  BY <1>1 DEF IInv, TypeOK
<1>3. Noted' /\ Unstarted' /\ Readers' /\ HaveRead' /\ Endings' /\ Queued' /\ Causes'
  BY <1>1 DEF IInv, Noted, NotedOf, Unstarted, Readers, HaveRead, Endings, Queued, Causes, Caused
<1> QED BY <1>2, <1>3 DEF IInv

LEMMA SignalKeeps == ASSUME IInv, NEW r \in Runs, Signal(r) PROVE IInv'
<1>1. /\ escalation[r] \in {"SIGINT", "SIGTERM", "SIGKILL"} /\ process[r] = "running"
      /\ escalation' = [escalation EXCEPT ![r] = NextSignal(escalation[r])]
      /\ signals' = signals \cup {r}
      /\ UNCHANGED <<active, pipe, written, reader, outcome, tasks, orphans, stream, consumer,
                     result, asked, warned>>
  BY DEF Signal, reading, consuming
<1>2. NextSignal(escalation[r]) \in {"SIGTERM", "SIGKILL", "sent"}
  BY <1>1 DEF NextSignal
<1>3. /\ escalation' \in [Runs -> {"off", "SIGINT", "SIGTERM", "SIGKILL", "sent"}]
      /\ \A s \in Runs : escalation'[s] # "off" => escalation[s] # "off"
  BY <1>1, <1>2 DEF IInv, TypeOK
<1>4. CASE escalation[r] = "SIGKILL"
  <2>1. Dies(r, "signal")
    BY <1>4 DEF Signal
  <2> QED BY <1>1, <1>3, <2>1, DiesKeeps DEF reading, consuming
<1>5. CASE escalation[r] # "SIGKILL"
  <2>1. UNCHANGED <<process, status, hasClosed>>
    BY <1>5 DEF Signal
  <2>2. TypeOK'
    BY <1>1, <1>3, <2>1 DEF IInv, TypeOK
  <2>3. Noted' /\ Unstarted' /\ Readers' /\ HaveRead' /\ Endings' /\ Queued'
    BY <1>1, <2>1 DEF IInv, Noted, NotedOf, Unstarted, Readers, HaveRead, Endings, Queued
  <2>4. Causes'
    BY <1>1, <1>3 DEF IInv, Causes, Caused
  <2> QED BY <2>2, <2>3, <2>4 DEF IInv
<1> QED BY <1>4, <1>5

LEMMA DeathKeeps == ASSUME IInv, NEW r \in Runs, KillOrphan(r) \/ Exit(r) PROVE IInv'
<1>1. /\ process[r] = "running"
      /\ UNCHANGED <<active, pipe, written, reading, tasks, escalation, orphans, consuming, asked, warned, signals>>
      /\ \E how \in {"ok", "error", "signal"} : Dies(r, how)
  BY DEF KillOrphan, Exit, history
<1>2. escalation \in [Runs -> {"off", "SIGINT", "SIGTERM", "SIGKILL", "sent"}]
  BY DEF IInv, TypeOK
<1> QED BY <1>1, <1>2, DiesKeeps

\* The tasks that act for the active run take themselves off the queue.
LEMMA ActsAreMain ==
  ASSUME IInv, AskCancel \/ Monitor \/ \E r \in Runs : Actor(r)
  PROVE  /\ active # NoRun /\ MainSteps /\ UNCHANGED unmoved
         /\ tasks' \subseteq tasks /\ asked \subseteq asked' /\ asked' \subseteq Runs
<1>0. TypeOK /\ asked \subseteq Runs
  BY DEF IInv, TypeOK
<1>1. CASE AskCancel
  <2>1. active # NoRun /\ MainSteps
    BY <1>1, AskCancelIsMain
  <2>2. active.id \in Runs
    BY <1>0, <2>1, ActiveIs
  <2> QED BY <1>0, <1>1, <2>1, <2>2 DEF AskCancel
<1>2. CASE Monitor
  BY <1>0, <1>2, MonitorIsMain DEF Monitor
<1>3. ASSUME NEW r \in Runs, Actor(r)
      PROVE  active # NoRun /\ MainSteps /\ UNCHANGED <<unmoved, asked>> /\ tasks' \subseteq tasks
  <2>1. active # NoRun /\ MainSteps
    BY <1>3, OnTerminationIsMain, TerminalEventIsMain, ReaderFinishedIsMain DEF Actor
  <2>2. UNCHANGED <<unmoved, asked>> /\ tasks' \subseteq tasks
    BY <1>3 DEF Actor, OnTermination, TerminalEventObserved, EventReaderFinished, Take
  <2> QED BY <2>1, <2>2
<1> QED BY <1>0, <1>1, <1>2, <1>3

LEMMA InitKeeps == Init => IInv
<1> SUFFICES ASSUME Init PROVE IInv
  OBVIOUS
<1> USE DEF Init
<1>1. <<>> \in Seq(Frames) /\ Len(<<>>) = 0 /\ Capacity \in Nat \ {0}
  BY ClientAssumption
<1>2. TypeOK
  BY <1>1 DEF TypeOK, NoOutcome
<1>3. \A r \in Runs : HaveReadOf(<<>>, <<>>, NoOutcome)
  BY <1>1 DEF HaveReadOf, NoOutcome
<1>4. HaveRead
  BY <1>3 DEF HaveRead
<1>5. Noted /\ Unstarted /\ Readers /\ Endings /\ Queued /\ Causes
  BY DEF Noted, Unstarted, Readers, Endings, Kinds, Queued, Causes
<1> QED BY <1>2, <1>4, <1>5 DEF IInv

LEMMA StutterKeeps == ASSUME IInv, UNCHANGED vars PROVE IInv'
<1>1. UNCHANGED <<active, process, status, pipe, written, hasClosed, reader, outcome, tasks, escalation,
                  orphans, stream, consumer, result, asked, warned, signals>>
  BY DEF vars, helper, reading, consuming, history
<1>2. TypeOK'
  BY <1>1 DEF IInv, TypeOK
<1>3. Noted' /\ Unstarted' /\ Readers' /\ HaveRead' /\ Endings' /\ Queued' /\ Causes'
  BY <1>1 DEF IInv, Noted, NotedOf, Unstarted, Readers, HaveRead, Endings, Queued, Causes, Caused
<1> QED BY <1>2, <1>3 DEF IInv

LEMMA NextKeeps == IInv /\ [Next]_vars => IInv'
<1> SUFFICES ASSUME IInv, [Next]_vars PROVE IInv'
  OBVIOUS
<1>1. CASE AskCancel \/ Monitor \/ \E r \in Runs : Actor(r)
  BY <1>1, ActsAreMain, MainKeeps
<1>2. CASE DropStaleTask
  BY <1>2, DropKeeps
<1>3. ASSUME NEW r \in Runs,
             \/ Start(r) \/ LaunchFails(r) \/ Signal(r) \/ KillOrphan(r) \/ ReapOrphan(r)
             \/ ReadFrame(r) \/ ReadEnd(r) \/ TakeEvent(r) \/ StopConsuming(r)
             \/ CloseEvents(r) \/ Exit(r)
             \/ \E e \in Written : Write(r, e)
      PROVE  IInv'
  <2>1. CASE Start(r) \/ LaunchFails(r)
    BY <2>1, StartKeeps
  <2>2. CASE Signal(r)
    BY <2>2, SignalKeeps
  <2>3. CASE KillOrphan(r) \/ Exit(r)
    BY <2>3, DeathKeeps
  <2>4. CASE ReapOrphan(r) \/ CloseEvents(r)
    BY <2>4, ProcessKeeps
  <2>5. CASE ReadFrame(r)
    BY <2>5, ReadKeeps
  <2>6. CASE ReadEnd(r)
    BY <2>6, EndKeeps
  <2>7. CASE TakeEvent(r) \/ StopConsuming(r)
    BY <2>7, ConsumeKeeps
  <2>8. CASE \E e \in Written : Write(r, e)
    BY <2>8, WriteKeeps
  <2> QED BY <1>3, <2>1, <2>2, <2>3, <2>4, <2>5, <2>6, <2>7, <2>8
<1>4. CASE UNCHANGED vars
  BY <1>4, StutterKeeps
<1> QED BY <1>1, <1>2, <1>3, <1>4 DEF Next, Rest

LEMMA Invariance == Spec => []IInv
BY InitKeeps, NextKeeps, PTL DEF Spec

\* The client's state is always of its type: a run that is noted, told or ended is one
\* that was started, and no stream holds more events than its buffer.
THEOREM TypeCorrect == Spec => []TypeOK
<1>1. IInv => TypeOK
  BY DEF IInv
<1> QED BY <1>1, Invariance, PTL

\* finishRunIfReady: a stream that ends with a terminal event ends with the one event the
\* helper wrote last, behind nothing but progress, and its exit status agrees; however late
\* the reader's tasks come to the main actor, and whichever poll finds the exit.
THEOREM ResultOfTheHelper == Spec => []ResultIsTheHelpers
<1>1. IInv => ResultIsTheHelpers
  <2> SUFFICES ASSUME IInv, NEW r \in Runs, result[r] \in Kinds
               PROVE  /\ written[r] # <<>> /\ written[r][Len(written[r])] = result[r]
                      /\ \A i \in 1..(Len(written[r]) - 1) : written[r][i] = "progress"
                      /\ status[r] = IF result[r] = "completed" THEN "ok" ELSE "error"
    BY DEF ResultIsTheHelpers
  <2>1. /\ reader[r] = "done" /\ ~outcome[r].error /\ outcome[r].kind = result[r]
        /\ status[r] = IF result[r] = "completed" THEN "ok" ELSE "error"
    BY DEF IInv, Endings
  <2>2. pipe[r] = <<>> /\ outcome[r].kind # "none"
    BY <2>1 DEF IInv, Readers, Kinds
  <2>3. HaveReadOf(written[r], <<>>, outcome[r]) /\ written[r] \in Seq(Frames)
    BY <2>2 DEF IInv, HaveRead, TypeOK
  <2>4. Len(written[r]) - Len(<<>>) = Len(written[r]) /\ Len(written[r]) \in Nat
    BY <2>3
  <2>5. /\ Len(written[r]) >= 1 /\ written[r][Len(written[r])] = result[r]
        /\ \A i \in 1..(Len(written[r]) - 1) : written[r][i] = "progress"
    BY <2>1, <2>2, <2>3, <2>4 DEF HaveReadOf
  <2>6. written[r] # <<>>
    BY <2>5
  <2> QED BY <2>1, <2>5, <2>6
<1> QED BY <1>1, Invariance, PTL

\* cancelIfActive, startShutdownEscalation and signalIfActive: a helper is sent a cancel
\* frame or a signal only when someone cancelled its own run, or its reader saw a terminal
\* event or failed; a task that was queued for an earlier run stops no later one.
THEOREM StoppedOnlyForCause == Spec => []StoppedForCause
<1>1. IInv => StoppedForCause
  BY DEF IInv, TypeOK, Causes, Caused, StoppedForCause
<1> QED BY <1>1, Invariance, PTL
-----------------------------------------------------------------------------
(***************************************************************************)
(* Each step is a step of HelperStream, or none.                           *)
(***************************************************************************)

LEMMA InitImplements == Init => Stream!Init
BY DEF Init, Stream!Init, Stream!Runs, Runs, NoRun

\* What the main actor does ends the active run's stream, or leaves it.
LEMMA MainEnds ==
  ASSUME IInv, active # NoRun, MainSteps
  PROVE  \/ UNCHANGED <<active.id, result, stream>>
         \/ \E end \in Stream!Kinds \cup {"error"} : Stream!Ends(active.id, end)
<1> PICK run \in RunRecords, start \in BOOLEAN : run.id = active.id /\ MainStep(run, start)
  BY DEF MainSteps
<1>1. CASE ~Finished(run)
  <2>1. active' = run /\ UNCHANGED <<result, stream>>
    BY <1>1 DEF MainStep, Continue
  <2> QED BY <2>1
<1>2. CASE Finished(run)
  <2> DEFINE end == EndOf(run)
  <2>1. end \in Stream!Kinds \cup {"error"}
    BY DEF EndOf, RunRecords, Kinds, Stream!Kinds
  <2>2. /\ active' = NoRun /\ result' = [result EXCEPT ![active.id] = end]
        /\ stream' = IF end = "error" THEN stream ELSE Yielded(active.id, end)
    BY <1>2 DEF MainStep, Continue
  <2>3. active'.id = 0
    BY <2>2 DEF NoRun
  <2> HIDE DEF end
  <2>4. Stream!Ends(active.id, end)
    BY <2>2, <2>3 DEF Stream!Ends, Stream!Yielded, Yielded, Buffered
  <2> QED BY <2>1, <2>4
<1> QED BY <1>1, <1>2

LEMMA NextImplements == IInv /\ [Next]_vars => [Stream!Next]_(Stream!vars)
<1> SUFFICES ASSUME IInv, [Next]_vars PROVE [Stream!Next]_(Stream!vars)
  OBVIOUS
<1>0. TypeOK /\ Stream!Runs = Runs
  BY DEF IInv, Stream!Runs, Runs
<1>1. CASE AskCancel
  <2>1. /\ active # NoRun /\ MainSteps /\ asked' = asked \cup {active.id} /\ consumer' = consumer
    BY <1>1, AskCancelIsMain DEF AskCancel, unmoved
  <2>2. active.id # 0
    BY <1>0, <2>1, ActiveIs DEF Runs
  <2>3. Stream!Cancel
    BY <2>1, <2>2, MainEnds DEF Stream!Cancel
  <2> QED BY <2>3 DEF Stream!Next
<1>2. CASE Monitor \/ \E r \in Runs : Actor(r)
  <2>1. active # NoRun /\ MainSteps /\ consumer' = consumer
    BY <1>2, ActsAreMain DEF unmoved
  <2>2. asked' = asked
    BY <1>2 DEF Monitor, Actor, OnTermination, TerminalEventObserved, EventReaderFinished
  <2>3. active.id \in Runs
    BY <1>0, <2>1, ActiveIs
  <2>4. CASE UNCHANGED <<active.id, result, stream>>
    BY <2>1, <2>2, <2>4 DEF Stream!vars
  <2>5. ASSUME NEW end \in Stream!Kinds \cup {"error"}, Stream!Ends(active.id, end)
        PROVE  Stream!EndAny(active.id)
    BY <2>1, <2>2, <2>5 DEF Stream!EndAny, Stream!End
  <2> QED BY <1>0, <2>1, <2>3, <2>4, <2>5, MainEnds DEF Stream!Next
<1>3. ASSUME NEW r \in Runs, Start(r) PROVE Stream!Begin(r)
  <2>1. /\ active = NoRun /\ consumer[r] = "none"
        /\ active' = NewRun(r) /\ consumer' = [consumer EXCEPT ![r] = "iterating"]
        /\ UNCHANGED <<stream, result, asked>>
    BY <1>3 DEF Start, IInv, Unstarted, history
  <2> QED BY <2>1 DEF Stream!Begin, NoRun, NewRun
<1>4. ASSUME NEW r \in Runs, ReadFrame(r) PROVE Stream!Progress(r) \/ UNCHANGED Stream!vars
  <2>1. UNCHANGED <<active, consumer, result, asked>> /\ active.id = r
    BY <1>4 DEF ReadFrame, IInv, Readers, history
  <2>2. stream' = stream \/ stream' = Yielded(r, "progress")
    BY <1>4 DEF ReadFrame
  <2> QED BY <2>1, <2>2 DEF Stream!Progress, Stream!vars, Stream!Yielded, Yielded, Buffered
<1>5. ASSUME NEW r \in Runs, TakeEvent(r) PROVE Stream!Take(r)
  BY <1>5 DEF TakeEvent, Stream!Take, history
<1>6. ASSUME NEW r \in Runs, StopConsuming(r) PROVE Stream!Stop(r)
  BY <1>6 DEF StopConsuming, Stream!Stop
<1>7. ASSUME NEW r \in Runs,
             \/ LaunchFails(r) \/ Signal(r) \/ KillOrphan(r) \/ ReapOrphan(r) \/ ReadEnd(r)
             \/ CloseEvents(r) \/ Exit(r) \/ \E e \in Written : Write(r, e)
      PROVE  UNCHANGED Stream!vars
  BY <1>7 DEF LaunchFails, Signal, KillOrphan, ReapOrphan, ReadEnd, CloseEvents, Exit, Write,
              consuming, history, Stream!vars
<1>8. CASE DropStaleTask \/ UNCHANGED vars
  BY <1>8 DEF DropStaleTask, vars, consuming, history, Stream!vars
<1> QED BY <1>0, <1>1, <1>2, <1>3, <1>4, <1>5, <1>6, <1>7, <1>8 DEF Next, Rest, Stream!Next

\* To its user the client is HelperStream: one helper at a time, events in their order
\* behind which the stream ends once, with a terminal event or with an error, and each step
\* of the processes, the reader and the timers is one of the stream's or none.  (That a
\* cancelled run ends is checked on the run only: it rests on the fairness.)
THEOREM StepsImplementStream == Spec => Stream!Init /\ [][Stream!Next]_(Stream!vars)
BY Invariance, InitImplements, NextImplements, PTL DEF Spec
=============================================================================
