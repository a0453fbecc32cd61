------------------------- MODULE AcquisitionProofs -------------------------
(***************************************************************************)
(* Proofs about Acquisition and CapturedRecovery: what is sealed is of one *)
(* moment, nothing is dropped, only a candidate phone is asked, and what   *)
(* is sealed after a capture is what the phone gave.                       *)
(*                                                                         *)
(* The argument has three parts.  The program is a sequence of reads, so   *)
(* the program point tells what has been read (Order).  A write gives its  *)
(* file an identity it never had, so a file with the identity the          *)
(* preflight noted is unchanged since then (IsAsCreated, IsAsCounted).     *)
(* And a read that ends well ended at that identity (IsBound), so what was *)
(* taken is what was counted.                                              *)
(***************************************************************************)
EXTENDS CapturedRecovery, FiniteSetTheorems, SequenceTheorems, TLAPS

K == Cardinality(Databases)
Whats == Reads \cup {"root", "layout", "write", "seal"}
Steps == [what : Whats, name : Databases \cup {Container}]

LEMMA SequenceOf ==
  ASSUME NEW S, NEW n \in Nat, NEW f \in [1..n -> S]
  PROVE  f \in Seq(S) /\ Len(f) = n
<1>1. f \in Seq(S)
  <2>1. [1..n -> S] \in {[1..m -> S] : m \in Nat}
    OBVIOUS
  <2>2. f \in UNION {[1..m -> S] : m \in Nat}
    BY <2>1
  <2> QED BY <2>2, SeqDef
<1>2. DOMAIN f = 1..Len(f) /\ Len(f) \in Nat
  BY <1>1, LenProperties
<1> QED BY <1>2

\* The order of the files is one: all of them, each once, the required one first.
LEMMA TargetsExist ==
  /\ K \in Nat \ {0}
  /\ Targets \in [1..K -> Databases]
  /\ Targets[1] = Main
  /\ \A i, j \in 1..K : Targets[i] = Targets[j] => i = j
  /\ \A n \in Databases : \E i \in 1..K : Targets[i] = n
<1> DEFINE IsOrder(s) == s[1] = Main /\ \A i, j \in DOMAIN s : s[i] = s[j] => i = j
<1>1. IsFiniteSet(Databases) /\ Main \in Databases
  BY AcquisitionAssumption, FS_Singleton, FS_Union DEF Databases
<1>2. K \in Nat /\ K # 0
  BY <1>1, FS_CardinalityType, FS_EmptySet DEF K
<1>3. PICK s \in Bijection(1..K, Databases) : TRUE
  BY <1>1, FS_CardinalityType DEF ExistsBijection, K
<1>4. /\ s \in [1..K -> Databases]
      /\ \A i, j \in 1..K : s[i] = s[j] => i = j
      /\ \A n \in Databases : \E i \in 1..K : s[i] = n
  BY <1>3 DEF Bijection, Injection, Surjection, IsInjective
<1>5. PICK m \in 1..K : s[m] = Main
  BY <1>1, <1>4
<1> DEFINE t == [i \in 1..K |-> IF i = 1 THEN Main ELSE IF i = m THEN s[1] ELSE s[i]]
<1>6. t \in [1..K -> Databases] /\ IsOrder(t)
  BY <1>1, <1>2, <1>4, <1>5
<1>7. Targets \in [1..K -> Databases] /\ IsOrder(Targets)
  <2>1. \E u \in [1..K -> Databases] : IsOrder(u)
    BY <1>6
  <2> QED BY <2>1 DEF Targets, K
<1>8. Targets \in Injection(1..K, Databases)
  BY <1>7 DEF Injection, IsInjective
<1>9. Targets \in Surjection(1..K, Databases)
  <2>1. Cardinality(1..K) = K /\ IsFiniteSet(1..K)
    BY <1>2, FS_Interval
  <2> QED BY <2>1, <1>1, <1>8, FS_Injection DEF K
<1> QED BY <1>2, <1>7, <1>9 DEF Surjection

\* What a snapshot is read for at each step.
LEMMA ConcatOf ==
  ASSUME NEW s \in Seq(Steps), NEW t \in Seq(Steps)
  PROVE  /\ s \o t \in Seq(Steps) /\ Len(s \o t) = Len(s) + Len(t)
         /\ \A i \in 1..Len(s) : (s \o t)[i] = s[i]
         /\ \A i \in 1..Len(t) : (s \o t)[Len(s) + i] = t[i]
<1>1. /\ s \o t \in Seq(Steps) /\ Len(s \o t) = Len(s) + Len(t)
      /\ \A i \in 1..(Len(s) + Len(t)) : (s \o t)[i] = IF i <= Len(s) THEN s[i] ELSE t[i - Len(s)]
  BY ConcatProperties
<1>2. Len(s) \in Nat /\ Len(t) \in Nat
  BY LenProperties
<1>3. ASSUME NEW i \in 1..Len(t) PROVE (s \o t)[Len(s) + i] = t[i]
  <2>1. Len(s) + i \in 1..(Len(s) + Len(t)) /\ ~(Len(s) + i <= Len(s)) /\ (Len(s) + i) - Len(s) = i
    BY <1>2
  <2> QED BY <1>1, <2>1
<1> QED BY <1>1, <1>2, <1>3

LEMMA SnapshotProgram ==
  /\ Program("snapshot") \in Seq(Steps)
  /\ DOMAIN Program("snapshot") = 1..(3 * K + 3)
  /\ \A i \in 1..K :
       /\ Program("snapshot")[i] = Step("inspect", Targets[i])
       /\ Program("snapshot")[K + 2 + i] = Step("copy", Targets[i])
       /\ Program("snapshot")[2 * K + 2 + i] = Step("verify", Targets[i])
  /\ Program("snapshot")[K + 1] = Step("root", Container)
  /\ Program("snapshot")[K + 2] = Step("layout", Container)
  /\ Program("snapshot")[3 * K + 3] = Step("seal", Container)
<1> DEFINE A == EachTarget("inspect")
           m == Each(<<"root", "layout">>)
           B == EachTarget("copy")
           C == EachTarget("verify")
           e == Each(<<"seal">>)
<1>1. ASSUME NEW what \in Whats
      PROVE  /\ EachTarget(what) \in Seq(Steps) /\ Len(EachTarget(what)) = K
             /\ \A i \in 1..K : EachTarget(what)[i] = Step(what, Targets[i])
  <2>1. EachTarget(what) = [i \in 1..K |-> Step(what, Targets[i])]
    BY TargetsExist DEF EachTarget
  <2>2. \A i \in 1..K : Step(what, Targets[i]) \in Steps
    BY TargetsExist DEF Step, Steps
  <2>3. EachTarget(what) \in [1..K -> Steps]
    BY <2>1, <2>2
  <2> QED BY <2>1, <2>3, SequenceOf, TargetsExist
<1>2. /\ m \in Seq(Steps) /\ Len(m) = 2
      /\ m[1] = Step("root", Container) /\ m[2] = Step("layout", Container)
  <2>1. m = [i \in 1..2 |-> Step(<<"root", "layout">>[i], Container)]
    BY DEF Each
  <2>2. \A i \in 1..2 : Step(<<"root", "layout">>[i], Container) \in Steps
    BY DEF Step, Steps, Whats
  <2>3. m \in [1..2 -> Steps]
    BY <2>1, <2>2
  <2>4. m[1] = Step("root", Container) /\ m[2] = Step("layout", Container)
    BY <2>1
  <2>5. 2 \in Nat
    OBVIOUS
  <2> HIDE DEF m
  <2> QED BY <2>3, <2>4, <2>5, SequenceOf
<1>3. e \in Seq(Steps) /\ Len(e) = 1 /\ e[1] = Step("seal", Container)
  <2>1. e = [i \in 1..1 |-> Step(<<"seal">>[i], Container)]
    BY DEF Each
  <2>2. \A i \in 1..1 : Step(<<"seal">>[i], Container) \in Steps
    BY DEF Step, Steps, Whats
  <2>3. e \in [1..1 -> Steps]
    BY <2>1, <2>2
  <2>4. e[1] = Step("seal", Container)
    BY <2>1
  <2>5. 1 \in Nat
    OBVIOUS
  <2> HIDE DEF e
  <2> QED BY <2>3, <2>4, <2>5, SequenceOf
<1>4. Program("snapshot") = A \o m \o B \o C \o e
  BY DEF Program
<1>5. /\ A \in Seq(Steps) /\ Len(A) = K /\ \A i \in 1..K : A[i] = Step("inspect", Targets[i])
      /\ B \in Seq(Steps) /\ Len(B) = K /\ \A i \in 1..K : B[i] = Step("copy", Targets[i])
      /\ C \in Seq(Steps) /\ Len(C) = K /\ \A i \in 1..K : C[i] = Step("verify", Targets[i])
  <2>1. "inspect" \in Whats /\ "copy" \in Whats /\ "verify" \in Whats
    BY DEF Whats, Reads
  <2> QED BY <2>1, <1>1
<1>6. K \in Nat \ {0}
  BY TargetsExist
<1> HIDE DEF A, m, B, C, e
<1> DEFINE Am == A \o m
           AmB == Am \o B
           AmBC == AmB \o C
           P == AmBC \o e
<1>7. /\ Am \in Seq(Steps) /\ Len(Am) = K + 2
      /\ \A i \in 1..K : Am[i] = A[i]
      /\ \A i \in 1..2 : Am[K + i] = m[i]
  <2>1. /\ K \in Nat /\ A \in Seq(Steps) /\ Len(A) = K
        /\ m \in Seq(Steps) /\ Len(m) = 2
    BY <1>2, <1>5, <1>6
  <2> QED BY <2>1, ConcatOf
<1> HIDE DEF Am
<1>8. /\ AmB \in Seq(Steps) /\ Len(AmB) = K + 2 + K
      /\ \A i \in 1..(K + 2) : AmB[i] = Am[i]
      /\ \A i \in 1..K : AmB[(K + 2) + i] = B[i]
  <2>1. /\ Am \in Seq(Steps) /\ Len(Am) = K + 2
        /\ B \in Seq(Steps) /\ Len(B) = K
    BY <1>5, <1>7
  <2>2. /\ AmB \in Seq(Steps) /\ Len(AmB) = Len(Am) + Len(B)
        /\ \A i \in 1..Len(Am) : AmB[i] = Am[i]
        /\ \A i \in 1..Len(B) : AmB[Len(Am) + i] = B[i]
    BY <2>1, ConcatOf
  <2> HIDE DEF AmB
  <2> QED BY <2>1, <2>2
<1> HIDE DEF AmB
<1>9. /\ AmBC \in Seq(Steps) /\ Len(AmBC) = (K + 2) + K + K
      /\ \A i \in 1..((K + 2) + K) : AmBC[i] = AmB[i]
      /\ \A i \in 1..K : AmBC[((K + 2) + K) + i] = C[i]
  <2>1. /\ AmB \in Seq(Steps) /\ Len(AmB) = (K + 2) + K
        /\ C \in Seq(Steps) /\ Len(C) = K
    BY <1>5, <1>8
  <2>2. /\ AmBC \in Seq(Steps) /\ Len(AmBC) = Len(AmB) + Len(C)
        /\ \A i \in 1..Len(AmB) : AmBC[i] = AmB[i]
        /\ \A i \in 1..Len(C) : AmBC[Len(AmB) + i] = C[i]
    BY <2>1, ConcatOf
  <2> HIDE DEF AmBC
  <2> QED BY <2>1, <2>2
<1> HIDE DEF AmBC
<1>10. /\ P \in Seq(Steps) /\ Len(P) = 3 * K + 3
       /\ \A i \in 1..(((K + 2) + K) + K) : P[i] = AmBC[i]
       /\ P[3 * K + 3] = e[1]
  <2>1. /\ AmBC \in Seq(Steps) /\ Len(AmBC) = ((K + 2) + K) + K
        /\ e \in Seq(Steps) /\ Len(e) = 1
    BY <1>3, <1>9
  <2>2. /\ P \in Seq(Steps) /\ Len(P) = Len(AmBC) + Len(e)
        /\ \A i \in 1..Len(AmBC) : P[i] = AmBC[i]
        /\ \A i \in 1..Len(e) : P[Len(AmBC) + i] = e[i]
    BY <2>1, ConcatOf
  <2> HIDE DEF P
  <2>3. P[Len(AmBC) + 1] = e[1]
    BY <2>1, <2>2
  <2>4. Len(AmBC) + 1 = 3 * K + 3
    BY <1>6, <2>1
  <2> QED BY <2>1, <2>2, <2>3, <2>4
<1>11. Program("snapshot") = P
  BY <1>4 DEF Am, AmB, AmBC
<1> HIDE DEF P
<1>12. ASSUME NEW i \in 1..K
       PROVE  P[i] = A[i] /\ P[K + 2 + i] = B[i] /\ P[2 * K + 2 + i] = C[i]
  <2>1. /\ i \in 1..(K + 2) /\ i \in 1..((K + 2) + K) /\ i \in 1..(((K + 2) + K) + K)
        /\ (K + 2) + i \in 1..((K + 2) + K) /\ (K + 2) + i \in 1..(((K + 2) + K) + K)
        /\ ((K + 2) + K) + i \in 1..(((K + 2) + K) + K)
        /\ 2 * K + 2 + i = ((K + 2) + K) + i
    BY <1>6
  <2>2. P[i] = A[i]
    BY <2>1, <1>7, <1>8, <1>9, <1>10
  <2>3. P[(K + 2) + i] = B[i]
    BY <2>1, <1>8, <1>9, <1>10
  <2>4. P[((K + 2) + K) + i] = C[i]
    BY <2>1, <1>9, <1>10
  <2> QED BY <2>1, <2>2, <2>3, <2>4
<1>13. P[K + 1] = m[1] /\ P[K + 2] = m[2]
  <2>1. ASSUME NEW i \in 1..2 PROVE P[K + i] = m[i]
    <3>1. K + i \in 1..(K + 2) /\ K + i \in 1..((K + 2) + K) /\ K + i \in 1..(((K + 2) + K) + K)
      BY <1>6
    <3> QED BY SMTT(30), <3>1, <1>7, <1>8, <1>9, <1>10
  <2> QED BY <2>1
<1>14. DOMAIN P = 1..(3 * K + 3)
  BY <1>10, LenProperties
<1> QED BY <1>2, <1>3, <1>5, <1>10, <1>11, <1>12, <1>13, <1>14

\* The output's root is created behind the preflight and before anything is taken.
NamesOf(kind) == IF kind = "snapshot" THEN Databases ELSE {Container}
RootAt(kind) == IF kind = "snapshot" THEN K + 1 ELSE 3

\* What the program point tells of the step, for a snapshot.
LEMMA SnapshotOrder ==
  ASSUME NEW i \in DOMAIN Program("snapshot")
  PROVE  LET now == Program("snapshot")[i]
         IN /\ i \in 1..(3 * K + 3)
            /\ now.what = "inspect" <=> i \in 1..K
            /\ now.what = "root" <=> i = K + 1
            /\ now.what = "layout" <=> i = K + 2
            /\ now.what = "copy" <=> i \in (K + 3)..(2 * K + 2)
            /\ now.what = "verify" <=> i \in (2 * K + 3)..(3 * K + 2)
            /\ now.what = "seal" <=> i = 3 * K + 3
            /\ now.what \in {"inspect", "root", "layout", "copy", "verify", "seal"}
            /\ now.what = "inspect" => now.name = Targets[i]
            /\ now.what = "copy" => now.name = Targets[i - (K + 2)]
            /\ now.what = "verify" => now.name = Targets[i - (2 * K + 2)]
            /\ now.what \in Reads => now.name \in Databases
<1> DEFINE P == Program("snapshot")
<1>0. K \in Nat \ {0} /\ i \in 1..(3 * K + 3)
  BY TargetsExist, SnapshotProgram
<1>1. CASE i \in 1..K
  <2>1. P[i] = Step("inspect", Targets[i]) /\ Targets[i] \in Databases
    BY <1>1, SnapshotProgram, TargetsExist
  <2> HIDE DEF P
  <2>2. P[i].what = "inspect" /\ P[i].name = Targets[i]
    BY <2>1 DEF Step
  <2> QED BY <1>0, <1>1, <2>1, <2>2 DEF P
<1>2. CASE i = K + 1
  <2>1. P[i] = Step("root", Container)
    BY <1>2, SnapshotProgram
  <2> HIDE DEF P
  <2>2. P[i].what = "root"
    BY <2>1 DEF Step
  <2> QED BY <1>0, <1>2, <2>2 DEF P, Reads
<1>3. CASE i = K + 2
  <2>1. P[i] = Step("layout", Container)
    BY <1>3, SnapshotProgram
  <2> HIDE DEF P
  <2>2. P[i].what = "layout"
    BY <2>1 DEF Step
  <2> QED BY <1>0, <1>3, <2>2 DEF P, Reads
<1>4. CASE i \in (K + 3)..(2 * K + 2)
  <2> DEFINE j == i - (K + 2)
  <2>0. j \in 1..K /\ i = K + 2 + j
    BY <1>0, <1>4
  <2> HIDE DEF j
  <2>1. P[i] = Step("copy", Targets[j]) /\ Targets[j] \in Databases
    BY <2>0, SnapshotProgram, TargetsExist
  <2> HIDE DEF P
  <2>2. P[i].what = "copy" /\ P[i].name = Targets[j]
    BY <2>1 DEF Step
  <2> QED BY <1>0, <1>4, <2>1, <2>2 DEF P, j
<1>5. CASE i \in (2 * K + 3)..(3 * K + 2)
  <2> DEFINE j == i - (2 * K + 2)
  <2>0. j \in 1..K /\ i = 2 * K + 2 + j
    BY <1>0, <1>5
  <2> HIDE DEF j
  <2>1. P[i] = Step("verify", Targets[j]) /\ Targets[j] \in Databases
    BY <2>0, SnapshotProgram, TargetsExist
  <2> HIDE DEF P
  <2>2. P[i].what = "verify" /\ P[i].name = Targets[j]
    BY <2>1 DEF Step
  <2> QED BY <1>0, <1>5, <2>1, <2>2 DEF P, j
<1>6. CASE i = 3 * K + 3
  <2>1. P[i] = Step("seal", Container)
    BY <1>6, SnapshotProgram
  <2> HIDE DEF P
  <2>2. P[i].what = "seal"
    BY <2>1 DEF Step
  <2> QED BY <1>0, <1>6, <2>2 DEF P, Reads
<1> QED BY <1>0, <1>1, <1>2, <1>3, <1>4, <1>5, <1>6

\* The same for a container.
LEMMA ContainerOrder ==
  /\ DOMAIN Program("archive") = 1..8
  /\ \A i \in 1..8 : Program("archive")[i] =
       Step(<<"inspect", "header", "root", "header", "layout", "stream", "verify", "seal">>[i], Container)
  /\ DOMAIN Program("export") = 1..9
  /\ \A i \in 1..9 : Program("export")[i] =
       Step(<<"inspect", "members", "root", "members", "payloads", "layout", "write",
              "verify", "seal">>[i], Container)
BY DEF Program, Each

\* What of the order of the steps the invariants need, for every kind of source.
LEMMA Order ==
  ASSUME NEW kind \in Kinds, NEW i \in DOMAIN Program(kind)
  PROVE  LET now == Program(kind)[i]
         IN /\ i \in Nat /\ i >= 1
            /\ now.what # "seal" => i + 1 \in DOMAIN Program(kind)
            /\ now.what \in Reads => now.name \in NamesOf(kind)
            /\ now.what = "inspect" => i < RootAt(kind)
            /\ now.what = "root" <=> i = RootAt(kind)
            /\ now.what \in {"copy", "stream", "payloads", "layout", "write", "verify", "seal"}
                 => i > RootAt(kind)
            /\ now.what = "copy" => kind = "snapshot"
            /\ kind # "snapshot" => (now.what = "inspect" <=> i = 1)
            /\ now.what \in {"header", "stream"} => kind = "archive"
            /\ now.what \in {"members", "payloads", "write"} => kind = "export"
            /\ kind = "archive" => /\ now.what = "header" <=> i \in {2, 4}
                                   /\ now.what = "stream" <=> i = 6
                                   /\ now.what = "verify" <=> i = 7
                                   /\ now.what = "seal" <=> i = 8
            /\ kind = "export" => /\ now.what = "payloads" <=> i = 5
                                  /\ now.what = "write" <=> i = 7
                                  /\ now.what = "verify" <=> i = 8
                                  /\ now.what = "seal" <=> i = 9
<1>1. kind \in {"snapshot", "archive", "export"}
  BY AcquisitionAssumption
<1>2. CASE kind = "snapshot"
  <2>1. K \in Nat \ {0} /\ DOMAIN Program("snapshot") = 1..(3 * K + 3)
    BY TargetsExist, SnapshotProgram
  <2> QED BY <1>2, <2>1, SnapshotOrder DEF RootAt, NamesOf
<1>3. CASE kind = "archive"
  <2>1. i \in 1..8 /\ DOMAIN Program(kind) = 1..8 /\ RootAt(kind) = 3 /\ NamesOf(kind) = {Container}
    BY <1>3, ContainerOrder DEF RootAt, NamesOf
  <2>2. /\ Program(kind)[i].what = <<"inspect", "header", "root", "header", "layout", "stream", "verify", "seal">>[i]
        /\ Program(kind)[i].name = Container
    BY <1>3, <2>1, ContainerOrder DEF Step
  <2>3. i \in {1, 2, 3, 4, 5, 6, 7, 8}
    BY <2>1
  <2> QED BY <1>3, <2>1, <2>2, <2>3
<1>4. CASE kind = "export"
  <2>1. i \in 1..9 /\ DOMAIN Program(kind) = 1..9 /\ RootAt(kind) = 3 /\ NamesOf(kind) = {Container}
    BY <1>4, ContainerOrder DEF RootAt, NamesOf
  <2>2. /\ Program(kind)[i].what = <<"inspect", "members", "root", "members", "payloads", "layout", "write", "verify", "seal">>[i]
        /\ Program(kind)[i].name = Container
    BY <1>4, <2>1, ContainerOrder DEF Step
  <2>3. i \in {1, 2, 3, 4, 5, 6, 7, 8, 9}
    BY <2>1
  <2> QED BY <1>4, <2>1, <2>2, <2>3
<1> QED BY <1>1, <1>2, <1>3, <1>4
-----------------------------------------------------------------------------
(***************************************************************************)
(* The types.                                                              *)
(***************************************************************************)

PlacesIn(kind) == {f[2] : f \in FilesOf(kind)}
States(kind, e) == [content : ContentsOf(kind), id : 0..e]
Receipts(kind, e) == [content : ContentsOf(kind), place : PlacesIn(kind), id : 0..e]
Maps(kind, e) == UNION {[names -> Receipts(kind, e)] : names \in SUBSET NamesOf(kind)}
Descriptors(kind, e) == [open : BOOLEAN, file : FilesOf(kind) \cup {ContainerFile}, id : 0..e]

TypedRun(r, e) ==
  /\ r \in [kind : Kinds, status : {"running", "sealed", "failed"}, at : Nat,
            fd : Descriptors(r.kind, e), preflight : Maps(r.kind, e), found : Maps(r.kind, e),
            payload : Exports \cup {Absent}]
  /\ r.at \in DOMAIN Program(r.kind)

\* An open descriptor is of a file that the step reads.
Opened(r) ==
  r.fd.open => /\ r.status = "running" /\ Program(r.kind)[r.at].what \in Reads
               /\ r.fd.file \in FilesOf(r.kind)
               /\ r.fd.file[1] = Program(r.kind)[r.at].name

\* What was taken from an export is there when it is written.
Taken(r) == r.kind = "export" /\ r.at > 5 => r.payload \in Exports

Typed ==
  /\ edits \in 0..MaxEdits /\ moves \in 0..MaxMoves
  /\ away \subseteq {f[2] : f \in FilesOf(run.kind)}
  /\ source \in [FilesOf(run.kind) -> States(run.kind, edits)]
  /\ hidden \subseteq Optional
  /\ TypedRun(run, edits) /\ Opened(run) /\ Taken(run)
  /\ DOMAIN raw \subseteq Databases \cup Tracking \cup {"cache"}
  /\ output \in {"none", "root", "incomplete", "complete"}

LEMMA PutTyped ==
  ASSUME NEW kind, NEW e, NEW f \in Maps(kind, e), NEW x \in NamesOf(kind), NEW v \in Receipts(kind, e)
  PROVE  Put(f, x, v) \in Maps(kind, e)
<1>1. PICK names \in SUBSET NamesOf(kind) : f \in [names -> Receipts(kind, e)]
  BY DEF Maps
<1>2. Put(f, x, v) \in [names \cup {x} -> Receipts(kind, e)]
  BY <1>1 DEF Put
<1>3. names \cup {x} \in SUBSET NamesOf(kind)
  OBVIOUS
<1> QED BY <1>2, <1>3 DEF Maps

LEMMA MapFacts ==
  ASSUME NEW kind, NEW e, NEW f \in Maps(kind, e)
  PROVE  DOMAIN f \subseteq NamesOf(kind) /\ \A n \in DOMAIN f : f[n] \in Receipts(kind, e)
BY DEF Maps

\* The descriptor is closed when the program fails, and at the end of a step.
LEMMA FailedTyped ==
  ASSUME NEW r, NEW e \in Nat, TypedRun(r, e), Taken(r)
  PROVE  /\ TypedRun(Failed(r), e) /\ Opened(Failed(r)) /\ Taken(Failed(r))
         /\ Failed(r).kind = r.kind
<1>1. Closed \in Descriptors(r.kind, e) /\ ~Closed.open
  BY DEF Closed, Descriptors
<1> HIDE DEF Closed
<1> QED BY <1>1 DEF Failed, TypedRun, Opened, Taken

LEMMA AdvancedTyped ==
  ASSUME NEW r, NEW e \in Nat, TypedRun(r, e), Taken(r),
         Program(r.kind)[r.at].what # "seal",
         Program(r.kind)[r.at].what = "payloads" => r.payload \in Exports
  PROVE  /\ TypedRun(Advanced(r), e) /\ Opened(Advanced(r)) /\ Taken(Advanced(r))
         /\ Advanced(r).kind = r.kind
<1>1. Closed \in Descriptors(r.kind, e) /\ ~Closed.open
  BY DEF Closed, Descriptors
<1>2. /\ r.at \in Nat /\ r.at + 1 \in DOMAIN Program(r.kind)
      /\ r.kind = "export" => (Program(r.kind)[r.at].what = "payloads" <=> r.at = 5)
  BY Order DEF TypedRun
<1> HIDE DEF Closed
<1> DEFINE next == r.at + 1
           a == [r EXCEPT !.at = next, !.fd = Closed]
<1>0. Advanced(r) = a /\ next \in Nat
  BY <1>2 DEF Advanced
<1> HIDE DEF next
<1>3. /\ a.kind = r.kind /\ a.at = next /\ a.fd = Closed /\ a.payload = r.payload
      /\ a \in [kind : Kinds, status : {"running", "sealed", "failed"}, at : Nat,
               fd : Descriptors(r.kind, e), preflight : Maps(r.kind, e), found : Maps(r.kind, e),
               payload : Exports \cup {Absent}]
  BY <1>0, <1>1 DEF TypedRun
<1> HIDE DEF a
<1>4. TypedRun(a, e) /\ Opened(a) /\ Taken(a) /\ a.kind = r.kind
  BY <1>1, <1>2, <1>3 DEF TypedRun, Opened, Taken, next
<1> QED BY <1>0, <1>4

\* A receipt is noted under the name that was read.
LEMMA NotedTyped ==
  ASSUME NEW r, NEW e \in Nat, TypedRun(r, e), Taken(r), NEW what, NEW name \in NamesOf(r.kind),
         NEW c \in ContentsOf(r.kind), r.fd.file \in FilesOf(r.kind)
  PROVE  /\ TypedRun(Noted(r, what, name, c), e) /\ Taken(Noted(r, what, name, c))
         /\ Noted(r, what, name, c).kind = r.kind /\ Noted(r, what, name, c).at = r.at
         /\ Noted(r, what, name, c).payload = r.payload
<1> DEFINE receipt == [content |-> c, place |-> r.fd.file[2], id |-> r.fd.id]
<1>1. receipt \in Receipts(r.kind, e)
  BY DEF Receipts, PlacesIn, TypedRun, Descriptors
<1> HIDE DEF receipt
<1>2. Put(r.preflight, name, receipt) \in Maps(r.kind, e) /\ Put(r.found, name, receipt) \in Maps(r.kind, e)
  BY <1>1, PutTyped DEF TypedRun
<1>3. Noted(r, what, name, c) =
        IF what = "inspect" THEN [r EXCEPT !.preflight = Put(@, name, receipt)]
                            ELSE [r EXCEPT !.found = Put(@, name, receipt)]
  BY DEF Noted, receipt
<1> QED BY <1>2, <1>3 DEF TypedRun, Taken

\* Identities are no greater later.
LEMMA TypedLater ==
  ASSUME NEW r, NEW e \in Nat, TypedRun(r, e)
  PROVE  TypedRun(r, e + 1) /\ States(r.kind, e) \subseteq States(r.kind, e + 1)
<1>1. 0..e \subseteq 0..(e + 1)
  OBVIOUS
<1>2. /\ States(r.kind, e) \subseteq States(r.kind, e + 1)
      /\ Receipts(r.kind, e) \subseteq Receipts(r.kind, e + 1)
      /\ Descriptors(r.kind, e) \subseteq Descriptors(r.kind, e + 1)
  BY <1>1 DEF States, Receipts, Descriptors
<1>3. Maps(r.kind, e) \subseteq Maps(r.kind, e + 1)
  BY <1>2 DEF Maps
<1> QED BY <1>2, <1>3 DEF TypedRun

LEMMA FilesFacts ==
  ASSUME NEW kind \in Kinds
  PROVE  /\ kind = "snapshot" => FilesOf(kind) = Databases \X Places /\ ContentsOf(kind) = Contents
         /\ kind # "snapshot" => FilesOf(kind) = {ContainerFile} /\ ContainerFile[1] = Container
         /\ \A f \in FilesOf(kind) : f[1] \in NamesOf(kind)
BY DEF FilesOf, ContentsOf, ContainerFile, NamesOf

\* What a read returns is something the file may hold; that of a file that did not change
\* is what it holds.
LEMMA BytesFacts ==
  ASSUME NEW f \in FilesOf(run.kind), NEW c \in BytesOf(f), Typed
  PROVE  /\ c \in ContentsOf(run.kind) \ {Absent}
         /\ Ends(f) => c = source[f].content /\ Visible(f) /\ source[f].id = run.fd.id
<1>1. source[f] \in States(run.kind, edits)
  BY DEF Typed
<1> QED BY <1>1 DEF BytesOf, Ends, Unchanged, Visible, States

LEMMA TypedStep == Typed /\ [Next]_vars => Typed'
<1> SUFFICES ASSUME Typed, [Next]_vars PROVE Typed'
  OBVIOUS
<1>0. /\ edits \in Nat /\ TypedRun(run, edits) /\ Taken(run) /\ run.kind \in Kinds
      /\ run.at \in DOMAIN Program(run.kind)
  BY AcquisitionAssumption DEF Typed, TypedRun
<1>a. /\ Now.what \in Reads => Now.name \in NamesOf(run.kind) /\ Now.what # "seal"
      /\ Now.what \in {"copy", "stream"} => Now.what # "payloads"
  BY <1>0, Order DEF Now, Reads
<1>b. /\ TypedRun(Failed(run), edits) /\ Opened(Failed(run)) /\ Taken(Failed(run))
      /\ Failed(run).kind = run.kind
  BY <1>0, FailedTyped
<1>c. Now.what # "seal" /\ Now.what # "payloads" =>
        /\ TypedRun(Advanced(run), edits) /\ Opened(Advanced(run)) /\ Taken(Advanced(run))
        /\ Advanced(run).kind = run.kind
  BY <1>0, AdvancedTyped DEF Now
<1> DEFINE Same == source' = source /\ away' = away /\ edits' = edits /\ moves' = moves
           Good(r) == TypedRun(r, edits) /\ Opened(r) /\ Taken(r) /\ r.kind = run.kind
<1>d. ASSUME Same, Good(run'), DOMAIN raw' \subseteq Databases \cup Tracking \cup {"cache"},
             output' \in {"none", "root", "incomplete", "complete"}, hidden' \subseteq Optional
      PROVE  Typed'
  BY <1>d DEF Typed
<1>1. CASE Fail
  BY <1>1, <1>b, <1>d DEF Fail, environment, Typed
<1>2. CASE Open
  <2>1. PICK f \in FilesOf(run.kind) :
          /\ Present(Now.name) = {f}
          /\ run' = IF Bound(Now.what, f)
                    THEN [run EXCEPT !.fd = [open |-> TRUE, file |-> f, id |-> source[f].id]]
                    ELSE Failed(run)
    BY <1>2 DEF Open
  <2>2. f[1] = Now.name /\ source[f].id \in 0..edits
    BY <2>1 DEF Present, Typed, States
  <2> DEFINE d == [open |-> TRUE, file |-> f, id |-> source[f].id]
             o == [run EXCEPT !.fd = d]
  <2>3. d \in Descriptors(run.kind, edits) /\ d.file = f
    BY <2>2 DEF Descriptors
  <2> HIDE DEF d
  <2>4. Good(o)
    BY <1>0, <1>2, <2>2, <2>3 DEF TypedRun, Opened, Taken, Open, Running, Now
  <2> HIDE DEF o
  <2>5. Good(run')
    BY <2>1, <2>4, <1>b DEF d, o
  <2> QED BY <1>2, <2>5, <1>d DEF Open, environment, Typed
<1>3. CASE PassOver
  <2>1. run.kind = "snapshot"
    BY <1>3, <1>a, ContainerAssumption DEF PassOver, NamesOf, Databases
  <2>2. Now.what # "seal" /\ Now.what # "payloads"
    BY <1>0, <1>3, <1>a, <2>1, Order DEF PassOver, Now
  <2>3. hidden' \subseteq Optional
    BY <1>3 DEF PassOver, Typed
  <2> QED BY <1>3, <1>c, <1>d, <2>2, <2>3 DEF PassOver, environment, Typed
<1>4. CASE Refuse
  BY <1>4, <1>b, <1>d DEF Refuse, environment, Typed
<1>5. CASE CloseHashed
  <2>1. PICK c \in BytesOf(run.fd.file) :
          run' = CASE ~Ends(run.fd.file) -> Failed(run)
                   [] Ends(run.fd.file) /\ ~Counted(Now.name, c) ->
                        IF Now.name \in Optional THEN Advanced(run) ELSE Failed(run)
                   [] OTHER -> Advanced(Noted(run, Now.what, Now.name, c))
    BY <1>5 DEF CloseHashed
  <2>2. c \in ContentsOf(run.kind) /\ Now.name \in NamesOf(run.kind) /\ run.fd.file \in FilesOf(run.kind)
    BY <1>5, <1>a, BytesFacts DEF CloseHashed, Typed, Opened, Reads
  <2> DEFINE n == Noted(run, Now.what, Now.name, c)
  <2>3. /\ TypedRun(n, edits) /\ Taken(n) /\ n.kind = run.kind /\ n.at = run.at
    BY <1>0, <2>2, NotedTyped
  <2>4. Program(n.kind)[n.at].what \notin {"seal", "payloads"}
    BY <1>5, <2>3 DEF CloseHashed, Now
  <2> HIDE DEF n
  <2>5. Good(Advanced(n))
    BY <1>0, <2>3, <2>4, AdvancedTyped
  <2>6. Good(run')
    BY <1>5, <1>b, <1>c, <2>1, <2>5 DEF n, CloseHashed
  <2> QED BY <1>5, <2>6, <1>d DEF CloseHashed, environment, Typed
<1>6. CASE CloseListed
  BY <1>6, <1>b, <1>c, <1>d DEF CloseListed, environment, Typed
<1>7. CASE CloseCopied
  <2>1. Good(run')
    BY <1>7, <1>b, <1>c DEF CloseCopied
  <2>2. DOMAIN raw' \subseteq DOMAIN raw \cup {Now.name} /\ Now.name \in Databases
    <3>1. Now.name \in Databases
      BY <1>0, <1>7, <1>a, Order DEF CloseCopied, Now, NamesOf, Reads
    <3> QED BY <1>7, <3>1 DEF CloseCopied, Put
  <2> QED BY <1>7, <2>1, <2>2, <1>d DEF CloseCopied, environment, Typed
<1>8. CASE CloseStreamed
  <2>1. Good(run')
    BY <1>8, <1>b, <1>c DEF CloseStreamed
  <2>2. DOMAIN raw' \subseteq Databases
    BY <1>8 DEF CloseStreamed, TakenFromArchive, DatabaseMembers
  <2> QED BY <1>8, <2>1, <2>2, <1>d DEF CloseStreamed, environment, Typed
<1>9. CASE CloseRead
  <2>1. PICK x \in BytesOf(run.fd.file), right \in BOOLEAN :
          run' = IF Ends(run.fd.file) /\ x.supported /\ (x.encrypted => right)
                 THEN Advanced([run EXCEPT !.payload = x]) ELSE Failed(run)
    BY <1>9 DEF CloseRead
  <2>2. x \in Exports
    <3>1. run.kind = "export" /\ run.fd.file \in FilesOf(run.kind)
      BY <1>0, <1>9, Order DEF CloseRead, Now, Typed, Opened
    <3> QED BY <3>1, BytesFacts DEF ContentsOf
  <2> DEFINE n == [run EXCEPT !.payload = x]
  <2>3. /\ TypedRun(n, edits) /\ Taken(n) /\ n.kind = run.kind /\ n.at = run.at /\ n.payload = x
    BY <1>0, <2>2 DEF TypedRun, Taken
  <2>4. Program(n.kind)[n.at].what # "seal"
    BY <1>9, <2>3 DEF CloseRead, Now
  <2> HIDE DEF n
  <2>5. Good(Advanced(n))
    BY <1>0, <2>2, <2>3, <2>4, AdvancedTyped
  <2>6. Good(run')
    BY <1>b, <2>1, <2>5 DEF n
  <2> QED BY <1>9, <2>6, <1>d DEF CloseRead, environment, Typed
<1>10. CASE CreateRoot
  BY <1>10, <1>c, <1>d DEF CreateRoot, environment, Typed
<1>11. CASE CreateLayout
  BY <1>11, <1>c, <1>d DEF CreateLayout, environment, Typed
<1>12. CASE WriteExport
  <2>1. run.payload \in Exports
    BY <1>0, <1>12, Order DEF WriteExport, Now, Taken
  <2>2. DOMAIN raw' \subseteq Tracking \cup {"cache"}
    BY <1>12, <2>1, ContainersAssumption DEF WriteExport, TakenFromExport, ExportShape
  <2> QED BY <1>12, <1>c, <1>d, <2>2 DEF WriteExport, environment, Typed
<1>13. CASE Seal
  <2>1. ~run.fd.open
    BY <1>13 DEF Seal, Typed, Opened, Now, Reads
  <2>2. Good([run EXCEPT !.status = "sealed"])
    BY <1>0, <2>1 DEF TypedRun, Opened, Taken
  <2>3. Good(run')
    BY <1>13, <1>b, <2>2 DEF Seal
  <2> QED BY <1>13, <2>3, <1>d DEF Seal, environment, Typed
<1>14. ASSUME NEW f \in FilesOf(run.kind), Edit(f) PROVE Typed'
  <2>1. /\ edits' = edits + 1 /\ edits' \in 0..MaxEdits
    BY <1>0, <1>14, AcquisitionAssumption DEF Edit, Typed
  <2>2. TypedRun(run, edits + 1) /\ States(run.kind, edits) \subseteq States(run.kind, edits + 1)
    BY <1>0, TypedLater
  <2>3. source' \in [FilesOf(run.kind) -> States(run.kind, edits + 1)]
    <3>1. PICK c \in ContentsOf(run.kind) : source' = [source EXCEPT ![f] = [content |-> c, id |-> edits']]
      BY <1>14 DEF Edit
    <3>2. [content |-> c, id |-> edits'] \in States(run.kind, edits + 1)
      BY <1>0, <2>1 DEF States
    <3> QED BY <3>1, <3>2, <2>2 DEF Typed
  <2> QED BY <1>14, <2>1, <2>2, <2>3 DEF Edit, Typed
<1>15. ASSUME NEW f \in FilesOf(run.kind), Move(f[2]) PROVE Typed'
  BY <1>15, AcquisitionAssumption DEF Move, Typed
<1>16. CASE UNCHANGED vars
  BY <1>16 DEF vars, Typed
<1> QED BY <1>1, <1>2, <1>3, <1>4, <1>5, <1>6, <1>7, <1>8, <1>9, <1>10, <1>11, <1>12, <1>13,
           <1>14, <1>15, <1>16 DEF Next, Ended

LEMMA TypedInit == Init => Typed
<1> SUFFICES ASSUME Init PROVE Typed
  OBVIOUS
<1>1. PICK kind \in Kinds :
        /\ source \in [FilesOf(kind) -> [content : FirstsOf(kind), id : {0}]]
        /\ run = [kind |-> kind, status |-> "running", at |-> 1, fd |-> Closed,
                  preflight |-> Nothing, found |-> Nothing, payload |-> Absent]
  BY DEF Init
<1>2. Nothing \in Maps(kind, 0)
  BY DEF Nothing, Maps
<1>3. Closed \in Descriptors(kind, 0) /\ ~Closed.open
  BY DEF Closed, Descriptors
<1>4. FirstsOf(kind) \subseteq ContentsOf(kind)
  BY AcquisitionAssumption DEF FirstsOf, ContentsOf, Contents
<1>5. 1 \in DOMAIN Program(kind)
  <2>1. kind \in {"snapshot", "archive", "export"}
    BY AcquisitionAssumption
  <2>2. 1 \in 1..(3 * K + 3) /\ 1 \in 1..8 /\ 1 \in 1..9
    BY TargetsExist
  <2>3. /\ DOMAIN Program("snapshot") = 1..(3 * K + 3) /\ DOMAIN Program("archive") = 1..8
        /\ DOMAIN Program("export") = 1..9
    BY SnapshotProgram, ContainerOrder
  <2> QED BY <2>1, <2>2, <2>3
<1> HIDE DEF Closed, Nothing
<1>6. TypedRun(run, 0) /\ Opened(run) /\ Taken(run) /\ run.kind = kind
  BY <1>1, <1>2, <1>3, <1>5 DEF TypedRun, Opened, Taken
<1>7. edits = 0 /\ moves = 0 /\ away = {} /\ raw = Nothing /\ output = "none" /\ hidden = {} /\ DOMAIN Nothing = {}
  BY DEF Init, Nothing
<1>8. source \in [FilesOf(kind) -> States(kind, 0)]
  BY <1>1, <1>4 DEF States
<1> QED BY <1>6, <1>7, <1>8, AcquisitionAssumption DEF Typed

\* Typed is TypeOK by its parts.
LEMMA TypedIsTypeOK == Typed => TypeOK
<1> SUFFICES ASSUME Typed PROVE TypeOK
  OBVIOUS
<1>1. {f[1] : f \in FilesOf(run.kind)} = NamesOf(run.kind)
  <2>1. run.kind \in Kinds /\ \E p \in Places : TRUE
    BY AcquisitionAssumption DEF Typed, TypedRun
  <2>2. CASE run.kind = "snapshot"
    <3>1. \A n \in Databases : \E f \in FilesOf(run.kind) : f[1] = n
      <4> TAKE n \in Databases
      <4>1. PICK p \in Places : TRUE
        BY <2>1
      <4>2. <<n, p>> \in FilesOf(run.kind) /\ <<n, p>>[1] = n
        BY <2>2 DEF FilesOf
      <4> QED BY <4>2
    <3>2. \A f \in FilesOf(run.kind) : f[1] \in Databases
      BY <2>1, <2>2, FilesFacts DEF NamesOf
    <3> QED BY <2>2, <3>1, <3>2 DEF NamesOf
  <2>3. CASE run.kind # "snapshot"
    BY <2>3 DEF FilesOf, NamesOf, ContainerFile
  <2> QED BY <2>2, <2>3
<1>2. /\ [content : ContentsOf(run.kind), id : 0..edits] = States(run.kind, edits)
      /\ [content : ContentsOf(run.kind), place : {f[2] : f \in FilesOf(run.kind)}, id : 0..edits]
           = Receipts(run.kind, edits)
  BY DEF States, Receipts, PlacesIn
<1>3. \A map \in {run.preflight, run.found} :
        DOMAIN map \subseteq NamesOf(run.kind) /\ \A n \in DOMAIN map : map[n] \in Receipts(run.kind, edits)
  BY MapFacts DEF Typed, TypedRun
<1> QED BY <1>1, <1>2, <1>3 DEF TypeOK, Typed, TypedRun, Descriptors

\* The state is what the type invariant says, from the descriptor's file to the names under
\* which digests are noted.
THEOREM TypeCorrect == Spec => []TypeOK
<1>1. Typed => TypeOK
  BY TypedIsTypeOK
<1>2. Typed /\ [Next]_vars => Typed'
  BY TypedStep
<1> QED BY <1>1, <1>2, TypedInit, PTL DEF Spec
-----------------------------------------------------------------------------
(***************************************************************************)
(* One moment.  A file that still has the identity it had at the preflight *)
(* has not been written since, so it holds what it held when the output    *)
(* was created; the copy and the second reading of a container are bound   *)
(* to that identity at both their ends.                                    *)
(***************************************************************************)

\* What is read after the preflight is what the preflight counted.
IsBound ==
  /\ run.fd.open /\ Now.what \notin {"inspect", "verify"} /\ run.fd.file[1] \in DOMAIN run.preflight
       => LET receipt == run.preflight[run.fd.file[1]]
          IN run.fd.file[2] = receipt.place /\ run.fd.id = receipt.id
  /\ run.kind # "snapshot" /\ run.at > 1 => Container \in DOMAIN run.preflight

\* From the output's creation on, a file of a counted identity is as it was then.
IsAsCreated ==
  run.at > RootAt(run.kind) =>
    \A f \in FilesOf(run.kind) :
      f[1] \in DOMAIN run.preflight /\ source[f].id = run.preflight[f[1]].id
        => source[f].content = moment[f]

\* So is whatever was taken.
IsOfTheMoment ==
  run.status # "failed" =>
    CASE run.kind = "snapshot" ->
           /\ run.at <= RootAt(run.kind) => raw = Nothing
           /\ \A n \in DOMAIN raw : \E place \in Places : raw[n] = moment[<<n, place>>]
      [] run.kind = "archive" ->
           run.at > 6 => raw = TakenFromArchive(moment[ContainerFile])
      [] OTHER ->
           /\ run.at > 5 => run.payload = moment[ContainerFile]
           /\ run.at > 7 => raw = TakenFromExport(moment[ContainerFile])

IsSealed ==
  /\ output = "complete" => run.status = "sealed"
  /\ run.status = "sealed" => Now.what = "seal" /\ run.found = run.preflight

OneMoment == IsBound /\ IsAsCreated /\ IsOfTheMoment /\ IsSealed

\* What a step leaves of the program's record.
LEMMA FailedIs ==
  ASSUME NEW r, NEW e, TypedRun(r, e)
  PROVE  LET f == Failed(r)
         IN /\ f.status = "failed" /\ ~f.fd.open /\ f.kind = r.kind /\ f.at = r.at
            /\ f.preflight = r.preflight /\ f.found = r.found /\ f.payload = r.payload
BY DEF Failed, TypedRun, Closed

LEMMA AdvancedIs ==
  ASSUME NEW r, NEW e, TypedRun(r, e)
  PROVE  LET a == Advanced(r)
         IN /\ a.at = r.at + 1 /\ ~a.fd.open /\ a.kind = r.kind /\ a.status = r.status
            /\ a.preflight = r.preflight /\ a.found = r.found /\ a.payload = r.payload
BY DEF Advanced, TypedRun, Closed

LEMMA NotedIs ==
  ASSUME NEW r, NEW e, TypedRun(r, e), NEW what, NEW name, NEW c
  PROVE  LET n == Noted(r, what, name, c)
             receipt == [content |-> c, place |-> r.fd.file[2], id |-> r.fd.id]
         IN /\ n.at = r.at /\ n.kind = r.kind /\ n.status = r.status /\ n.payload = r.payload
            /\ n.preflight = IF what = "inspect" THEN Put(r.preflight, name, receipt) ELSE r.preflight
            /\ n.found = IF what = "inspect" THEN r.found ELSE Put(r.found, name, receipt)
BY DEF Noted, TypedRun

\* What was read at a counted identity is what the file held when the output was created.
LEMMA TakenIsAsCreated ==
  ASSUME Typed, IsBound, IsAsCreated, run.fd.open, Now.what \notin {"inspect", "verify"},
         run.fd.file[1] \in DOMAIN run.preflight, run.at > RootAt(run.kind),
         NEW c \in BytesOf(run.fd.file), Ends(run.fd.file)
  PROVE  c = moment[run.fd.file]
<1>1. run.fd.file \in FilesOf(run.kind)
  BY DEF Typed, Opened
<1>2. c = source[run.fd.file].content /\ source[run.fd.file].id = run.fd.id
  BY <1>1, BytesFacts
<1> QED BY <1>1, <1>2 DEF IsBound, IsAsCreated

LEMMA MomentFailed ==
  ASSUME Typed, OneMoment, Running, run' = Failed(run),
         source' = source, moment' = moment, output' = output
  PROVE  OneMoment'
<1>1. TypedRun(run, edits)
  BY DEF Typed
<1>2. LET f == run'
      IN /\ f.status = "failed" /\ ~f.fd.open /\ f.kind = run.kind /\ f.at = run.at
         /\ f.preflight = run.preflight
  BY <1>1, FailedIs
<1>3. output' # "complete"
  BY DEF OneMoment, IsSealed, Running
<1> QED BY <1>2, <1>3 DEF OneMoment, IsBound, IsAsCreated, IsOfTheMoment, IsSealed

LEMMA MomentAdvanced ==
  ASSUME Typed, OneMoment, Running, run' = Advanced(run), Now.what \notin {"inspect", "root", "seal"},
         source' = source, moment' = moment, output' # "complete", IsOfTheMoment'
  PROVE  OneMoment'
<1>1. TypedRun(run, edits) /\ run.at \in DOMAIN Program(run.kind) /\ run.kind \in Kinds
  BY DEF Typed, TypedRun
<1>2. LET a == run'
      IN /\ a.at = run.at + 1 /\ ~a.fd.open /\ a.kind = run.kind /\ a.status = "running"
         /\ a.preflight = run.preflight
  BY <1>1, AdvancedIs DEF Running
<1>3. /\ run.at \in Nat /\ run.at >= 1 /\ run.at # RootAt(run.kind)
      /\ run.kind # "snapshot" => run.at # 1
  BY <1>1, Order DEF Now
<1>4. RootAt(run.kind) \in Nat
  BY TargetsExist DEF RootAt
<1> QED BY <1>2, <1>3, <1>4 DEF OneMoment, IsBound, IsAsCreated, IsSealed

\* A step that takes nothing, behind the preflight.
LEMMA MomentKept ==
  ASSUME Typed, OneMoment, Running, run' = Advanced(run), raw' = raw,
         Now.what \notin {"inspect", "root", "stream", "payloads", "write", "seal"},
         source' = source, moment' = moment, output' # "complete"
  PROVE  OneMoment'
<1>1. TypedRun(run, edits) /\ run.at \in DOMAIN Program(run.kind) /\ run.kind \in Kinds
  BY DEF Typed, TypedRun
<1>2. LET a == run'
      IN /\ a.at = run.at + 1 /\ a.kind = run.kind /\ a.status = "running" /\ a.payload = run.payload
  BY <1>1, AdvancedIs DEF Running
<1>3. /\ run.at \in Nat
      /\ run.kind = "archive" => run.at # 6
      /\ run.kind = "export" => run.at # 5 /\ run.at # 7
  BY <1>1, Order DEF Now
<1>4. RootAt(run.kind) \in Nat /\ run.status = "running"
  BY TargetsExist DEF RootAt, Running
<1>5. run.kind \in {"snapshot", "archive", "export"}
  BY <1>1, AcquisitionAssumption
<1>6. IsOfTheMoment'
  <2>1. CASE run.kind = "snapshot"
    BY <1>2, <1>3, <1>4, <2>1 DEF OneMoment, IsOfTheMoment
  <2>2. CASE run.kind = "archive"
    BY <1>2, <1>3, <1>4, <2>2 DEF OneMoment, IsOfTheMoment
  <2>3. CASE run.kind = "export"
    BY <1>2, <1>3, <1>4, <2>3 DEF OneMoment, IsOfTheMoment
  <2> QED BY <1>5, <2>1, <2>2, <2>3
<1> QED BY <1>6, MomentAdvanced

\* A digest is noted: before the output exists, or at the verification.
LEMMA MomentHashed ==
  ASSUME Typed, OneMoment, CloseHashed
  PROVE  OneMoment'
<1>0. /\ TypedRun(run, edits) /\ run.at \in DOMAIN Program(run.kind) /\ run.kind \in Kinds
      /\ Running /\ output # "complete"
  BY DEF Typed, TypedRun, CloseHashed, OneMoment, IsSealed, Running
<1>1. PICK c \in BytesOf(run.fd.file) :
        run' = CASE ~Ends(run.fd.file) -> Failed(run)
                 [] Ends(run.fd.file) /\ ~Counted(Now.name, c) ->
                      IF Now.name \in Optional THEN Advanced(run) ELSE Failed(run)
                 [] OTHER -> Advanced(Noted(run, Now.what, Now.name, c))
  BY DEF CloseHashed
<1> DEFINE n == Noted(run, Now.what, Now.name, c)
           receipt == [content |-> c, place |-> run.fd.file[2], id |-> run.fd.id]
<1>2. /\ n.at = run.at /\ n.kind = run.kind /\ n.status = run.status /\ n.payload = run.payload
      /\ n.preflight = IF Now.what = "inspect" THEN Put(run.preflight, Now.name, receipt) ELSE run.preflight
  BY <1>0, NotedIs
<1>3. c \in ContentsOf(run.kind) /\ Now.name \in NamesOf(run.kind) /\ run.fd.file \in FilesOf(run.kind)
  BY <1>0, Order, BytesFacts DEF CloseHashed, Now, Typed, Opened, Reads
<1>4. TypedRun(n, edits)
  BY <1>0, <1>3, NotedTyped, AcquisitionAssumption DEF Typed
<1>5. LET a == Advanced(n)
      IN /\ a.at = run.at + 1 /\ ~a.fd.open /\ a.kind = run.kind /\ a.status = "running"
         /\ a.preflight = n.preflight /\ a.payload = run.payload
  BY <1>0, <1>2, <1>4, AdvancedIs DEF Running
<1>6. LET a == Advanced(run)
      IN /\ a.at = run.at + 1 /\ ~a.fd.open /\ a.kind = run.kind /\ a.status = "running"
         /\ a.preflight = run.preflight /\ a.payload = run.payload
  BY <1>0, AdvancedIs DEF Running
<1>7. UNCHANGED <<source, raw, output, moment>>
  BY DEF CloseHashed, environment
<1>8. /\ run.at \in Nat /\ run.at >= 1 /\ RootAt(run.kind) \in Nat
      /\ Now.what = "inspect" => run.at < RootAt(run.kind)
      /\ Now.what = "verify" => run.at > RootAt(run.kind)
      /\ run.kind # "snapshot" => (Now.what = "inspect" <=> run.at = 1)
      /\ run.kind = "archive" /\ Now.what = "verify" => run.at = 7
      /\ run.kind = "export" /\ Now.what = "verify" => run.at = 8
      /\ run.kind # "snapshot" => RootAt(run.kind) = 3
  BY <1>0, Order, TargetsExist DEF Now, RootAt
<1>9. /\ run.kind \in {"snapshot", "archive", "export"} /\ Now.what \in {"inspect", "verify"}
      /\ run.status = "running"
  BY <1>0, AcquisitionAssumption DEF CloseHashed, Running
<1> DEFINE Fine(r) == /\ r.at = run.at + 1 /\ ~r.fd.open /\ r.kind = run.kind /\ r.status = "running"
                      /\ r.payload = run.payload
                      /\ Now.what = "verify" => r.preflight = run.preflight
                      /\ run.kind # "snapshot" /\ run.at = 1 => Container \in DOMAIN r.preflight
<1>10. ASSUME Fine(run') PROVE OneMoment'
  <2>1. IsBound'
    <3>1. run.kind # "snapshot" => Container \in DOMAIN run'.preflight
      BY <1>8, <1>9, <1>10 DEF OneMoment, IsBound
    <3> QED BY <1>10, <3>1 DEF IsBound
  <2>2. IsAsCreated'
    BY <1>7, <1>8, <1>9, <1>10 DEF OneMoment, IsAsCreated
  <2>3. IsOfTheMoment'
    BY <1>7, <1>8, <1>9, <1>10 DEF OneMoment, IsOfTheMoment
  <2>4. IsSealed'
    BY <1>0, <1>7, <1>10 DEF IsSealed
  <2> QED BY <2>1, <2>2, <2>3, <2>4 DEF OneMoment
<1>11. CASE run' = Failed(run)
  BY <1>0, <1>7, <1>11, MomentFailed
<1>12. CASE run' = Advanced(run) /\ ~Counted(Now.name, c) /\ Now.name \in Optional
  <2>1. run.kind = "snapshot"
    BY <1>3, <1>12, ContainerAssumption DEF NamesOf, Databases
  <2> QED BY <1>6, <1>10, <1>12, <2>1
<1>13. CASE run' = Advanced(n)
  <2>1. run.kind # "snapshot" => Now.name = Container
    BY <1>3 DEF NamesOf
  <2>2. Now.what = "inspect" => Now.name \in DOMAIN n.preflight
    <3> HIDE DEF n, receipt
    <3> QED BY <1>2 DEF Put
  <2> HIDE DEF n
  <2>3. run.kind # "snapshot" /\ run.at = 1 => Container \in DOMAIN n.preflight
    BY <1>8, <2>1, <2>2
  <2> QED BY <1>2, <1>5, <1>9, <1>10, <1>13, <2>3
<1> QED BY <1>1, <1>11, <1>12, <1>13

LEMMA OneMomentStep == Typed /\ OneMoment /\ [Next]_vars => OneMoment'
<1> SUFFICES ASSUME Typed, OneMoment, [Next]_vars PROVE OneMoment'
  OBVIOUS
<1>0. /\ TypedRun(run, edits) /\ run.at \in DOMAIN Program(run.kind) /\ run.kind \in Kinds
      /\ edits \in Nat
  BY AcquisitionAssumption DEF Typed, TypedRun
<1>a. /\ Running => output # "complete"
      /\ run.kind \in {"snapshot", "archive", "export"}
      /\ RootAt(run.kind) \in Nat /\ run.at \in Nat /\ run.at >= 1
  <2>1. Running => output # "complete"
    BY DEF OneMoment, IsSealed, Running
  <2>2. run.kind \in {"snapshot", "archive", "export"}
    BY <1>0, AcquisitionAssumption
  <2>3. RootAt(run.kind) \in Nat
    BY TargetsExist DEF RootAt
  <2>4. run.at \in Nat /\ run.at >= 1
    BY <1>0, Order
  <2> QED BY <2>1, <2>2, <2>3, <2>4
<1>b. LET a == Advanced(run)
      IN /\ a.at = run.at + 1 /\ ~a.fd.open /\ a.kind = run.kind /\ a.status = run.status
         /\ a.preflight = run.preflight /\ a.payload = run.payload
  BY <1>0, AdvancedIs
<1>1. CASE Fail
  BY <1>1, MomentFailed DEF Fail, environment
<1>2. CASE Open
  <2>1. PICK f \in FilesOf(run.kind) :
          /\ Present(Now.name) = {f}
          /\ run' = IF Bound(Now.what, f)
                    THEN [run EXCEPT !.fd = [open |-> TRUE, file |-> f, id |-> source[f].id]]
                    ELSE Failed(run)
    BY <1>2 DEF Open
  <2>2. CASE ~Bound(Now.what, f)
    BY <1>2, <2>1, <2>2, MomentFailed DEF Open, environment
  <2>3. CASE Bound(Now.what, f)
    <3>1. /\ run'.kind = run.kind /\ run'.at = run.at /\ run'.preflight = run.preflight
          /\ run'.found = run.found /\ run'.status = run.status /\ run'.payload = run.payload
          /\ run'.fd = [open |-> TRUE, file |-> f, id |-> source[f].id]
      BY <1>0, <2>1, <2>3 DEF TypedRun
    <3>2. IsBound'
      BY <2>3, <3>1 DEF OneMoment, IsBound, Bound, Now
    <3>3. IsAsCreated' /\ IsOfTheMoment' /\ IsSealed'
      BY <1>2, <3>1 DEF OneMoment, IsAsCreated, IsOfTheMoment, IsSealed, Open, environment, Now
    <3> QED BY <3>2, <3>3 DEF OneMoment
  <2> QED BY <2>2, <2>3
<1>3. CASE PassOver
  <2>1. run.kind = "snapshot"
    BY <1>0, <1>3, Order, ContainerAssumption DEF PassOver, NamesOf, Databases, Now
  <2>2. run'.kind = run.kind /\ run'.preflight = run.preflight /\ run'.at = run.at + 1
        /\ run'.status = "running" /\ ~run'.fd.open
    BY <1>b, <1>3 DEF PassOver, Running
  <2>3. IsBound' /\ IsSealed'
    BY <1>a, <1>3, <2>1, <2>2 DEF OneMoment, IsBound, IsSealed, PassOver
  <2>4. IsAsCreated'
    <3>1. run.at # RootAt(run.kind)
      BY <1>0, <1>3, Order DEF PassOver, Now, Reads
    <3> QED BY <1>a, <1>3, <2>2, <3>1 DEF OneMoment, IsAsCreated, PassOver, environment
  <2>5. IsOfTheMoment'
    BY SMTT(30), <1>a, <1>3, <2>1, <2>2 DEF OneMoment, IsOfTheMoment, PassOver, Running
  <2> QED BY <2>3, <2>4, <2>5 DEF OneMoment
<1>4. CASE Refuse
  BY <1>4, MomentFailed DEF Refuse, environment
<1>5. CASE CloseHashed
  BY <1>5, MomentHashed
<1>6. CASE CloseListed
  <2>1. CASE run' = Failed(run)
    BY <1>6, <2>1, MomentFailed DEF CloseListed, environment
  <2>2. CASE run' = Advanced(run)
    BY <1>a, <1>6, <2>2, MomentKept DEF CloseListed, environment
  <2> QED BY <1>6, <2>1, <2>2 DEF CloseListed
<1>7. CASE CloseCopied
  <2>0. /\ run.kind = "snapshot" /\ run.at > RootAt(run.kind) /\ Running /\ Now.what = "copy"
        /\ run.fd.file \in FilesOf(run.kind) /\ run.fd.file[1] = Now.name /\ run.fd.open
        /\ source' = source /\ moment' = moment /\ output' = output /\ run.status = "running"
    BY <1>0, <1>7, Order DEF CloseCopied, Now, Typed, Opened, environment, Running
  <2>1. CASE run' = Failed(run)
    BY <2>0, <2>1, MomentFailed
  <2>2. CASE run' = Advanced(run) /\ raw' = raw
    BY <1>a, <2>0, <2>2, MomentKept
  <2>3. ASSUME NEW c \in BytesOf(run.fd.file), Now.name \in DOMAIN run.preflight, Ends(run.fd.file),
               raw' = Put(raw, Now.name, c), run' = Advanced(run)
        PROVE  OneMoment'
    <3>1. c = moment[run.fd.file]
      BY <2>0, <2>3, TakenIsAsCreated DEF OneMoment
    <3>2. PICK place \in Places : run.fd.file = <<Now.name, place>>
      BY <2>0 DEF FilesOf
    <3>3. \A n \in DOMAIN raw' : \E p \in Places : raw'[n] = moment[<<n, p>>]
      <4> TAKE n \in DOMAIN raw'
      <4>1. CASE n = Now.name
        BY <2>3, <3>1, <3>2, <4>1 DEF Put
      <4>2. CASE n # Now.name
        <5>1. n \in DOMAIN raw /\ raw'[n] = raw[n]
          BY <2>3, <4>2 DEF Put
        <5> QED BY <2>0, <5>1 DEF OneMoment, IsOfTheMoment
      <4> QED BY <4>1, <4>2
    <3>4. IsOfTheMoment'
      BY <1>a, <1>b, <2>0, <2>3, <3>3 DEF IsOfTheMoment
    <3> QED BY <1>a, <2>0, <2>3, <3>4, MomentAdvanced
  <2> QED BY <1>7, <2>1, <2>2, <2>3 DEF CloseCopied
<1>8. CASE CloseStreamed
  <2>1. PICK a \in BytesOf(run.fd.file) :
          /\ raw' = TakenFromArchive(a)
          /\ run' = IF Ends(run.fd.file) /\ Extractable(a) THEN Advanced(run) ELSE Failed(run)
    BY <1>8 DEF CloseStreamed
  <2>2. /\ run.kind = "archive" /\ run.at = 6 /\ Running /\ Now.what = "stream"
        /\ run.fd.file \in FilesOf(run.kind) /\ run.fd.open
        /\ source' = source /\ moment' = moment /\ output' = output
    BY <1>0, <1>8, Order DEF CloseStreamed, Now, Typed, Opened, environment
  <2>3. CASE run' = Failed(run)
    BY <2>2, <2>3, MomentFailed
  <2>4. CASE run' = Advanced(run) /\ Ends(run.fd.file)
    <3>1. run.fd.file = ContainerFile /\ run.fd.file[1] \in DOMAIN run.preflight
      BY <2>2 DEF FilesOf, OneMoment, IsBound, ContainerFile
    <3>2. a = moment[ContainerFile]
      BY <2>1, <2>2, <2>4, <3>1, TakenIsAsCreated DEF OneMoment, RootAt
    <3>3. IsOfTheMoment'
      BY <1>b, <2>1, <2>2, <2>4, <3>2 DEF IsOfTheMoment
    <3> QED BY <1>a, <2>2, <2>4, <3>3, MomentAdvanced
  <2> QED BY <2>1, <2>3, <2>4
<1>9. CASE CloseRead
  <2>1. PICK x \in BytesOf(run.fd.file), right \in BOOLEAN :
          run' = IF Ends(run.fd.file) /\ x.supported /\ (x.encrypted => right)
                 THEN Advanced([run EXCEPT !.payload = x]) ELSE Failed(run)
    BY <1>9 DEF CloseRead
  <2>2. /\ run.kind = "export" /\ run.at = 5 /\ Running /\ Now.what = "payloads"
        /\ run.fd.file \in FilesOf(run.kind) /\ run.fd.open
        /\ source' = source /\ moment' = moment /\ output' = output /\ raw' = raw
    BY <1>0, <1>9, Order DEF CloseRead, Now, Typed, Opened, environment
  <2>3. CASE run' = Failed(run)
    BY <2>2, <2>3, MomentFailed
  <2>4. CASE run' = Advanced([run EXCEPT !.payload = x]) /\ Ends(run.fd.file)
    <3>1. run.fd.file = ContainerFile /\ run.fd.file[1] \in DOMAIN run.preflight
      BY <2>2 DEF FilesOf, OneMoment, IsBound, ContainerFile
    <3>2. x = moment[ContainerFile]
      BY <2>1, <2>2, <2>4, <3>1, TakenIsAsCreated DEF OneMoment, RootAt
    <3> DEFINE n == [run EXCEPT !.payload = x]
    <3>3. /\ n.kind = run.kind /\ n.at = run.at /\ n.preflight = run.preflight /\ n.payload = x
          /\ n.status = run.status /\ n.fd = run.fd /\ n.found = run.found
          /\ x \in Exports
      BY <1>0, <2>2, BytesFacts DEF TypedRun, ContentsOf
    <3>4. TypedRun(n, edits)
      BY <1>0, <3>3 DEF TypedRun
    <3> HIDE DEF n
    <3>5. LET a == Advanced(n)
          IN /\ a.at = run.at + 1 /\ ~a.fd.open /\ a.kind = run.kind /\ a.status = run.status
             /\ a.preflight = run.preflight /\ a.payload = x
      BY <3>3, <3>4, AdvancedIs
    <3>6. run' = Advanced(n)
      BY <2>4 DEF n
    <3>7. IsBound' /\ IsAsCreated'
      BY <2>2, <3>5, <3>6 DEF OneMoment, IsBound, IsAsCreated, RootAt
    <3>8. IsOfTheMoment' /\ IsSealed'
      BY <1>a, <2>2, <3>2, <3>5, <3>6 DEF IsOfTheMoment, IsSealed, Running
    <3> QED BY <3>7, <3>8 DEF OneMoment
  <2> QED BY <2>1, <2>3, <2>4
<1>10. CASE CreateRoot
  <2>1. run.at = RootAt(run.kind) /\ run.status = "running"
    BY <1>0, <1>10, Order DEF CreateRoot, Now, Running
  <2>2. /\ source' = source /\ raw' = raw /\ output' = "root"
        /\ moment' = [f \in FilesOf(run.kind) |-> source[f].content]
        /\ run'.kind = run.kind /\ run'.preflight = run.preflight /\ run'.at = run.at + 1
        /\ run'.status = "running" /\ ~run'.fd.open
    BY <1>b, <1>10, <2>1 DEF CreateRoot, environment
  <2>3. IsBound'
    BY <1>a, <2>1, <2>2 DEF OneMoment, IsBound, RootAt
  <2>4. IsAsCreated' /\ IsSealed'
    BY <2>2 DEF IsAsCreated, IsSealed
  <2>5. IsOfTheMoment'
    <3>1. CASE run.kind = "snapshot"
      <4>1. raw = Nothing
        BY <1>a, <2>1, <3>1 DEF OneMoment, IsOfTheMoment
      <4>2. DOMAIN raw = {}
        BY <4>1 DEF Nothing
      <4> QED BY <1>a, <2>1, <2>2, <3>1, <4>2 DEF IsOfTheMoment
    <3>2. CASE run.kind # "snapshot"
      BY <1>a, <2>1, <2>2, <3>2 DEF IsOfTheMoment, RootAt
    <3> QED BY <3>1, <3>2
  <2> QED BY <2>3, <2>4, <2>5 DEF OneMoment
<1>11. CASE CreateLayout
  BY <1>11, MomentKept DEF CreateLayout, environment
<1>12. CASE WriteExport
  <2>1. run.at = 7 /\ run.kind = "export" /\ run.status = "running"
    BY <1>0, <1>12, Order DEF WriteExport, Now, Running
  <2>2. IsOfTheMoment'
    BY <1>b, <1>12, <2>1 DEF WriteExport, environment, OneMoment, IsOfTheMoment
  <2> QED BY <1>a, <1>12, <2>2, MomentAdvanced DEF WriteExport, environment
<1>13. CASE Seal
  <2>1. CASE run.found # run.preflight
    BY <1>13, <2>1, MomentFailed DEF Seal, environment
  <2>2. CASE run.found = run.preflight
    <3>1. /\ run'.kind = run.kind /\ run'.at = run.at /\ run'.preflight = run.preflight
          /\ run'.found = run.found /\ run'.status = "sealed" /\ run'.payload = run.payload
          /\ run'.fd = run.fd /\ UNCHANGED <<source, raw, moment>>
      BY <1>0, <1>13, <2>2 DEF TypedRun, Seal, environment
    <3>2. IsBound' /\ IsAsCreated' /\ IsOfTheMoment'
      BY <1>13, <3>1 DEF OneMoment, IsBound, IsAsCreated, IsOfTheMoment, Now, Seal, Running
    <3>3. IsSealed'
      BY <1>13, <2>2, <3>1 DEF IsSealed, Seal, Now
    <3> QED BY <3>2, <3>3 DEF OneMoment
  <2> QED BY <2>1, <2>2
<1>14. ASSUME NEW f \in FilesOf(run.kind), Edit(f) PROVE OneMoment'
  <2>1. PICK content : source' = [source EXCEPT ![f] = [content |-> content, id |-> edits + 1]]
    BY <1>14 DEF Edit
  <2>2. /\ UNCHANGED <<run, raw, output, moment>>
        /\ \A g \in FilesOf(run.kind) : g # f => source'[g] = source[g]
        /\ source'[f].id = edits + 1
    BY <1>14, <2>1 DEF Edit, Typed
  <2>3. \A n \in DOMAIN run.preflight : run.preflight[n].id # edits + 1
    BY <1>0, MapFacts DEF TypedRun, Receipts
  <2>4. IsAsCreated'
    BY <2>2, <2>3 DEF OneMoment, IsAsCreated
  <2> QED BY <2>2, <2>4 DEF OneMoment, IsBound, IsOfTheMoment, IsSealed, Now
<1>15. ASSUME NEW f \in FilesOf(run.kind), Move(f[2]) PROVE OneMoment'
  BY <1>15 DEF Move, OneMoment, IsBound, IsAsCreated, IsOfTheMoment, IsSealed, Now
<1>16. CASE UNCHANGED vars
  BY <1>16 DEF vars, OneMoment, IsBound, IsAsCreated, IsOfTheMoment, IsSealed, Now
<1> QED BY <1>1, <1>2, <1>3, <1>4, <1>5, <1>6, <1>7, <1>8, <1>9, <1>10, <1>11, <1>12, <1>13,
           <1>14, <1>15, <1>16 DEF Next, Ended

LEMMA OneMomentInit == Init => OneMoment
<1> SUFFICES ASSUME Init PROVE OneMoment
  OBVIOUS
<1>1. /\ run.kind \in Kinds /\ run.status = "running" /\ run.at = 1 /\ ~run.fd.open
      /\ raw = Nothing /\ output = "none"
  BY DEF Init, Closed
<1>2. DOMAIN raw = {} /\ RootAt(run.kind) >= 1 /\ RootAt(run.kind) \in Nat
  BY <1>1, TargetsExist DEF Nothing, RootAt
<1> QED BY <1>1, <1>2 DEF OneMoment, IsBound, IsAsCreated, IsOfTheMoment, IsSealed

LEMMA SealedOneMoment == Typed /\ OneMoment => SealedIsOneMoment
<1> SUFFICES ASSUME Typed, OneMoment, output = "complete"
             PROVE  IF run.kind = "snapshot"
                    THEN \A n \in DOMAIN raw : \E place \in Places : raw[n] = moment[<<n, place>>]
                    ELSE raw = TakenFromContainer(run.kind, moment[ContainerFile])
  BY DEF SealedIsOneMoment
<1>1. /\ run.status = "sealed" /\ Now.what = "seal"
      /\ run.kind \in Kinds /\ run.at \in DOMAIN Program(run.kind)
  BY DEF OneMoment, IsSealed, Typed, TypedRun
<1>2. run.kind \in {"snapshot", "archive", "export"}
  BY <1>1, AcquisitionAssumption
<1>3. /\ run.kind = "archive" => run.at = 8
      /\ run.kind = "export" => run.at = 9
  BY <1>1, Order DEF Now
<1> QED BY <1>1, <1>2, <1>3 DEF OneMoment, IsOfTheMoment, TakenFromContainer

\* A sealed acquisition is of one moment, that of the output's creation, however the reads
\* of its files and the writes of other processes interleave.
THEOREM SealedMoment == Spec => []SealedIsOneMoment
<1>1. Init => Typed /\ OneMoment
  BY TypedInit, OneMomentInit
<1>2. Typed /\ OneMoment /\ [Next]_vars => (Typed /\ OneMoment)'
  BY TypedStep, OneMomentStep
<1>3. Typed /\ OneMoment => SealedIsOneMoment
  BY SealedOneMoment
<1> QED BY <1>1, <1>2, <1>3, PTL DEF Spec
-----------------------------------------------------------------------------
(***************************************************************************)
(* Nothing is dropped.  A counted file that was not seen when it was to be *)
(* copied was in a directory that was away, or it is another one by now;   *)
(* that one has another identity, which the verification finds.            *)
(***************************************************************************)

CountedFile(n) == <<n, run.preflight[n].place>>

\* A file of a counted identity is as it was counted.
IsAsCounted ==
  \A n \in DOMAIN run.preflight :
    /\ run.preflight[n].content # Absent
    /\ source[CountedFile(n)].id = run.preflight[n].id
         => source[CountedFile(n)].content = run.preflight[n].content

CopiedWasCounted ==
  run.status # "failed" =>
    \A n \in DOMAIN raw : n \in DOMAIN run.preflight /\ raw[n] = run.preflight[n].content

\* A counted file that was passed over at the copy was hidden, or is another one.
CopiedOrGone ==
  run.status # "failed" =>
    \A j \in 1..K : run.at > K + 2 + j =>
      /\ Targets[j] = Main => Main \in DOMAIN raw
      /\ Targets[j] \in DOMAIN run.preflight \ (DOMAIN raw \cup hidden)
           => source[CountedFile(Targets[j])].id # run.preflight[Targets[j]].id

FoundIsAnother ==
  run.status # "failed" =>
    /\ run.at <= 2 * K + 2 => run.found = Nothing
    /\ \A n \in (DOMAIN run.found \cap DOMAIN run.preflight) \ (DOMAIN raw \cup hidden) :
         run.found[n] # run.preflight[n]

AllCopied == IsAsCounted /\ CopiedWasCounted /\ CopiedOrGone /\ FoundIsAnother

NoneDropped == run.kind = "snapshot" => AllCopied

\* A counted file is one of the snapshot's.
LEMMA CountedFileIs ==
  ASSUME Typed, run.kind = "snapshot", NEW n \in DOMAIN run.preflight
  PROVE  /\ CountedFile(n) \in FilesOf("snapshot") /\ run.preflight[n].id \in 0..edits
         /\ CountedFile(n)[1] = n /\ CountedFile(n)[2] = run.preflight[n].place
<1>1. n \in Databases /\ run.preflight[n] \in Receipts("snapshot", edits)
  BY MapFacts DEF Typed, TypedRun, NamesOf
<1>2. run.preflight[n].place \in Places /\ run.preflight[n].id \in 0..edits
  BY <1>1 DEF Receipts, PlacesIn, FilesOf
<1> QED BY <1>1, <1>2 DEF CountedFile, FilesOf

\* A failure leaves nothing to be sealed.
LEMMA CopiedFailed ==
  ASSUME Typed, AllCopied, run' = Failed(run), source' = source
  PROVE  AllCopied'
<1>1. LET f == run'
      IN f.status = "failed" /\ f.preflight = run.preflight
  BY FailedIs DEF Typed
<1> QED BY <1>1 DEF AllCopied, IsAsCounted, CountedFile, CopiedWasCounted, CopiedOrGone, FoundIsAnother

\* A step that copies nothing and notes nothing.
LEMMA CopiedKept ==
  ASSUME Typed, AllCopied, run.kind = "snapshot", Running, run' = Advanced(run), raw' = raw,
         Now.what \notin {"copy", "seal"}, source' = source, hidden' = hidden
  PROVE  AllCopied'
<1>1. TypedRun(run, edits) /\ run.at \in DOMAIN Program("snapshot")
  BY DEF Typed, TypedRun
<1>2. LET a == run'
      IN /\ a.at = run.at + 1 /\ a.status = "running"
         /\ a.preflight = run.preflight /\ a.found = run.found
  BY <1>1, AdvancedIs DEF Running
<1>3. /\ run.at \in Nat /\ run.at \notin (K + 3)..(2 * K + 2)
      /\ K \in Nat /\ run.status = "running"
  BY <1>1, SnapshotOrder, TargetsExist DEF Now, Running
<1>4. IsAsCounted' /\ CopiedWasCounted'
  BY <1>2, <1>3 DEF AllCopied, IsAsCounted, CountedFile, CopiedWasCounted
<1>5. CopiedOrGone'
  <2>1. \A j \in 1..K : run.at + 1 > K + 2 + j => run.at > K + 2 + j
    BY <1>3
  <2> QED BY <1>2, <1>3, <2>1 DEF AllCopied, CopiedOrGone, CountedFile
<1>6. FoundIsAnother'
  BY <1>2, <1>3 DEF AllCopied, FoundIsAnother
<1> QED BY <1>4, <1>5, <1>6 DEF AllCopied

\* A copy step that is over has copied its file, or has found it hidden, gone or not counted.
LEMMA CopiedOne ==
  ASSUME Typed, AllCopied, run.kind = "snapshot", Running, Now.what = "copy", run' = Advanced(run),
         source' = source, DOMAIN raw \subseteq DOMAIN raw', hidden \subseteq hidden',
         \A n \in DOMAIN raw' : n \in DOMAIN run.preflight /\ raw'[n] = run.preflight[n].content,
         Now.name = Main => Main \in DOMAIN raw',
         Now.name \in DOMAIN run.preflight \ (DOMAIN raw' \cup hidden')
           => source[CountedFile(Now.name)].id # run.preflight[Now.name].id
  PROVE  AllCopied'
<1>1. TypedRun(run, edits) /\ run.at \in DOMAIN Program("snapshot")
  BY DEF Typed, TypedRun
<1>2. LET a == run'
      IN /\ a.at = run.at + 1 /\ a.status = "running"
         /\ a.preflight = run.preflight /\ a.found = run.found
  BY <1>1, AdvancedIs DEF Running
<1>3. /\ run.at \in (K + 3)..(2 * K + 2) /\ Now.name = Targets[run.at - (K + 2)]
      /\ K \in Nat /\ run.status = "running"
  BY <1>1, SnapshotOrder, TargetsExist DEF Now, Running
<1>4. IsAsCounted' /\ CopiedWasCounted'
  BY <1>2 DEF AllCopied, IsAsCounted, CountedFile, CopiedWasCounted
<1>5. CopiedOrGone'
  <2> SUFFICES ASSUME NEW j \in 1..K, run.at + 1 > K + 2 + j
               PROVE  /\ Targets[j] = Main => Main \in DOMAIN raw'
                      /\ Targets[j] \in DOMAIN run.preflight \ (DOMAIN raw' \cup hidden')
                           => source[CountedFile(Targets[j])].id # run.preflight[Targets[j]].id
    BY <1>2 DEF CopiedOrGone, CountedFile
  <2>1. CASE run.at = K + 2 + j
    <3>1. Targets[j] = Now.name
      <4>1. run.at - (K + 2) = j
        BY <1>3, <2>1
      <4> QED BY <1>3, <4>1
    <3> QED BY <3>1
  <2>2. CASE run.at # K + 2 + j
    <3>1. run.at > K + 2 + j
      BY <1>3, <2>2
    <3> QED BY <1>3, <3>1 DEF AllCopied, CopiedOrGone
  <2> QED BY <2>1, <2>2
<1>6. FoundIsAnother'
  <2>1. run.found = Nothing
    BY <1>3 DEF AllCopied, FoundIsAnother
  <2>2. DOMAIN run.found = {}
    BY <2>1 DEF Nothing
  <2>3. run'.at <= 2 * K + 2 => run'.found = Nothing
    BY <1>2, <2>1
  <2> QED BY <1>2, <2>2, <2>3 DEF FoundIsAnother
<1> QED BY <1>4, <1>5, <1>6 DEF AllCopied

\* What the preflight counts is there, and what the verification finds is not a file that
\* had gone.
LEMMA CopiedHashed ==
  ASSUME Typed, OneMoment, NoneDropped, run.kind = "snapshot", CloseHashed
  PROVE  AllCopied'
<1>0. /\ TypedRun(run, edits) /\ run.at \in DOMAIN Program("snapshot") /\ run.kind \in Kinds
      /\ Running /\ AllCopied /\ run.status = "running" /\ edits \in Nat
  BY AcquisitionAssumption DEF Typed, TypedRun, CloseHashed, NoneDropped, Running
<1>1. PICK c \in BytesOf(run.fd.file) :
        run' = CASE ~Ends(run.fd.file) -> Failed(run)
                 [] Ends(run.fd.file) /\ ~Counted(Now.name, c) ->
                      IF Now.name \in Optional THEN Advanced(run) ELSE Failed(run)
                 [] OTHER -> Advanced(Noted(run, Now.what, Now.name, c))
  BY DEF CloseHashed
<1> DEFINE receipt == [content |-> c, place |-> run.fd.file[2], id |-> run.fd.id]
           name == Now.name
           n == Noted(run, Now.what, name, c)
<1>2. /\ n.at = run.at /\ n.kind = run.kind /\ n.status = run.status
      /\ n.preflight = IF Now.what = "inspect" THEN Put(run.preflight, name, receipt) ELSE run.preflight
      /\ n.found = IF Now.what = "inspect" THEN run.found ELSE Put(run.found, name, receipt)
  BY <1>0, NotedIs
<1>3. /\ c \in ContentsOf(run.kind) /\ name \in NamesOf(run.kind)
      /\ run.fd.file \in FilesOf(run.kind) /\ run.fd.open
      /\ run.fd.file[1] = name /\ run.fd.file = <<name, run.fd.file[2]>>
  <2>1. /\ c \in ContentsOf(run.kind) /\ name \in NamesOf(run.kind)
        /\ run.fd.file \in FilesOf(run.kind) /\ run.fd.open /\ run.fd.file[1] = name
    BY <1>0, Order, BytesFacts DEF CloseHashed, Now, Typed, Opened, Reads
  <2>2. run.fd.file = <<run.fd.file[1], run.fd.file[2]>>
    BY <2>1 DEF FilesOf
  <2> QED BY <2>1, <2>2
<1>4. TypedRun(n, edits)
  BY <1>0, <1>3, NotedTyped DEF Typed
<1> HIDE DEF n
<1>5. LET a == Advanced(n)
      IN /\ a.at = run.at + 1 /\ a.status = "running"
         /\ a.preflight = n.preflight /\ a.found = n.found
  BY <1>0, <1>2, <1>4, AdvancedIs
<1>6. UNCHANGED <<source, raw, hidden>>
  BY DEF CloseHashed, environment
<1>7. CASE run' = Failed(run)
  BY <1>0, <1>6, <1>7, CopiedFailed
<1>8. CASE run' = Advanced(run)
  BY <1>0, <1>6, <1>8, CopiedKept DEF CloseHashed
<1>9. CASE run' = Advanced(n) /\ Ends(run.fd.file)
  <2>0. source[run.fd.file].content = c /\ source[run.fd.file].id = run.fd.id /\ c # Absent
    BY <1>0, <1>3, <1>9, BytesFacts
  <2>2. CASE Now.what = "inspect"
    <3>0. /\ run.at \in 1..K /\ K \in Nat
          /\ n.preflight = Put(run.preflight, name, receipt) /\ n.found = run.found
      BY <1>0, <1>2, <2>2, SnapshotOrder, TargetsExist DEF Now
    <3>1. IsAsCounted'
      <4> SUFFICES ASSUME NEW m \in DOMAIN n.preflight
                   PROVE  LET f == <<m, n.preflight[m].place>>
                          IN /\ n.preflight[m].content # Absent
                             /\ source[f].id = n.preflight[m].id
                                  => source[f].content = n.preflight[m].content
        BY <1>5, <1>6, <1>9 DEF IsAsCounted, CountedFile
      <4>1. CASE m = name
        <5>1. /\ n.preflight[m].content = c /\ n.preflight[m].id = run.fd.id
              /\ n.preflight[m].place = run.fd.file[2]
          BY <3>0, <4>1 DEF Put
        <5>2. <<m, n.preflight[m].place>> = run.fd.file
          BY <1>3, <4>1, <5>1
        <5> QED BY <2>0, <5>1, <5>2
      <4>2. CASE m # name
        <5>1. m \in DOMAIN run.preflight /\ n.preflight[m] = run.preflight[m]
          BY <3>0, <4>2 DEF Put
        <5> QED BY <1>0, <5>1 DEF AllCopied, IsAsCounted, CountedFile
      <4> QED BY <4>1, <4>2
    <3>2. raw = Nothing /\ run.found = Nothing
      BY <1>0, <3>0 DEF OneMoment, IsOfTheMoment, RootAt, AllCopied, FoundIsAnother
    <3>3. DOMAIN raw = {} /\ DOMAIN run.found = {}
      BY <3>2 DEF Nothing
    <3>4. CopiedWasCounted' /\ FoundIsAnother'
      BY <1>5, <1>6, <1>9, <3>0, <3>2, <3>3 DEF CopiedWasCounted, FoundIsAnother
    <3>5. CopiedOrGone'
      BY <1>5, <1>9, <3>0 DEF CopiedOrGone
    <3> QED BY <3>1, <3>4, <3>5 DEF AllCopied
  <2>3. CASE Now.what = "verify"
    <3>0. /\ run.at \in (2 * K + 3)..(3 * K + 2) /\ K \in Nat
          /\ n.preflight = run.preflight /\ n.found = Put(run.found, name, receipt)
      BY <1>0, <1>2, <2>3, SnapshotOrder, TargetsExist DEF Now
    <3>1. IsAsCounted' /\ CopiedWasCounted'
      BY <1>0, <1>5, <1>6, <1>9, <3>0 DEF AllCopied, IsAsCounted, CountedFile, CopiedWasCounted
    <3>2. CopiedOrGone'
      BY <1>0, <1>5, <1>6, <1>9, <3>0 DEF AllCopied, CopiedOrGone, CountedFile
    <3>3. FoundIsAnother'
      <4> SUFFICES ASSUME NEW m \in (DOMAIN n.found \cap DOMAIN run.preflight) \ (DOMAIN raw \cup hidden)
                   PROVE  n.found[m] # run.preflight[m]
        BY <1>5, <1>6, <1>9, <3>0 DEF FoundIsAnother
      <4>1. CASE m = name
        <5>1. n.found[m].id = run.fd.id /\ n.found[m].place = run.fd.file[2]
          BY <3>0, <4>1 DEF Put
        <5>2. PICK j \in 1..K : Targets[j] = m
          BY <1>3, <4>1, TargetsExist DEF NamesOf
        <5>3. source[CountedFile(m)].id # run.preflight[m].id
          BY <1>0, <3>0, <5>2 DEF AllCopied, CopiedOrGone
        <5>4. n.found[m] = run.preflight[m] => CountedFile(m) = run.fd.file
          BY <1>3, <4>1, <5>1 DEF CountedFile
        <5> QED BY <2>0, <5>1, <5>3, <5>4
      <4>2. CASE m # name
        <5>1. m \in DOMAIN run.found /\ n.found[m] = run.found[m]
          BY <3>0, <4>2 DEF Put
        <5> QED BY <1>0, <5>1 DEF AllCopied, FoundIsAnother
      <4> QED BY <4>1, <4>2
    <3> QED BY <3>1, <3>2, <3>3 DEF AllCopied
  <2> QED BY <2>2, <2>3 DEF CloseHashed
<1> QED BY <1>1, <1>7, <1>8, <1>9 DEF n

\* What a step passes over at the copy is not counted, hidden, or another file by now.
LEMMA CopiedPassed ==
  ASSUME Typed, AllCopied, run.kind = "snapshot", PassOver
  PROVE  AllCopied'
<1>0. UNCHANGED <<source, raw>> /\ run' = Advanced(run) /\ Running
  BY DEF PassOver, environment
<1>1. CASE Now.what # "copy"
  <2>1. hidden' = hidden
    BY <1>1 DEF PassOver
  <2> QED BY <1>0, <1>1, <2>1, CopiedKept DEF PassOver, Reads
<1>2. CASE Now.what = "copy"
  <2>1. Now.name # Main /\ hidden \subseteq hidden'
    BY AcquisitionAssumption DEF PassOver
  <2>2. \A n \in DOMAIN raw : n \in DOMAIN run.preflight /\ raw[n] = run.preflight[n].content
    BY <1>0 DEF AllCopied, CopiedWasCounted, Running
  <2>3. ASSUME Now.name \in DOMAIN run.preflight \ (DOMAIN raw \cup hidden'),
               source[CountedFile(Now.name)].id = run.preflight[Now.name].id
        PROVE  FALSE
    <3>1. /\ CountedFile(Now.name) \in FilesOf(run.kind) /\ CountedFile(Now.name)[1] = Now.name
          /\ CountedFile(Now.name)[2] = run.preflight[Now.name].place
      BY <2>3, CountedFileIs
    <3>2. source[CountedFile(Now.name)].content # Absent
      BY <2>3 DEF AllCopied, IsAsCounted
    <3>3. CountedFile(Now.name) \notin Present(Now.name)
      BY DEF PassOver
    <3>4. CountedFile(Now.name)[2] \in away
      BY <3>1, <3>2, <3>3 DEF Present, Visible
    <3>5. IsHidden(Now.name)
      BY <2>3, <3>1, <3>4 DEF IsHidden, CountedFile
    <3> QED BY <1>2, <2>3, <3>5 DEF PassOver
  <2> QED BY <1>0, <1>2, <2>1, <2>2, <2>3, CopiedOne
<1> QED BY <1>1, <1>2

LEMMA CopiedNext ==
  ASSUME Typed, OneMoment, NoneDropped, run.kind = "snapshot", Next
  PROVE  AllCopied'
<1>0. /\ TypedRun(run, edits) /\ run.at \in DOMAIN Program("snapshot") /\ run.kind \in Kinds
      /\ AllCopied /\ edits \in Nat
  BY AcquisitionAssumption DEF Typed, TypedRun, NoneDropped
<1>1. CASE Fail
  BY <1>0, <1>1, CopiedFailed DEF Fail, environment
<1>2. CASE Open
  <2>1. PICK f \in FilesOf(run.kind) :
          /\ Present(Now.name) = {f}
          /\ run' = IF Bound(Now.what, f)
                    THEN [run EXCEPT !.fd = [open |-> TRUE, file |-> f, id |-> source[f].id]]
                    ELSE Failed(run)
    BY <1>2 DEF Open
  <2>2. CASE ~Bound(Now.what, f)
    BY <1>0, <1>2, <2>1, <2>2, CopiedFailed DEF Open, environment
  <2>3. CASE Bound(Now.what, f)
    <3>1. /\ run'.kind = run.kind /\ run'.at = run.at /\ run'.preflight = run.preflight
          /\ run'.found = run.found /\ run'.status = run.status
          /\ UNCHANGED <<source, raw, hidden>>
      BY <1>0, <1>2, <2>1, <2>3 DEF TypedRun, Open, environment
    <3> QED BY <1>0, <3>1 DEF AllCopied, IsAsCounted, CountedFile, CopiedWasCounted, CopiedOrGone,
                              FoundIsAnother
  <2> QED BY <2>2, <2>3
<1>3. CASE PassOver
  BY <1>0, <1>3, CopiedPassed
<1>4. CASE Refuse
  BY <1>0, <1>4, CopiedFailed DEF Refuse, environment
<1>5. CASE CloseHashed
  BY <1>5, CopiedHashed
<1>6. CASE CloseListed
  <2>1. CASE run' = Failed(run)
    BY <1>0, <1>6, <2>1, CopiedFailed DEF CloseListed, environment
  <2>2. CASE run' = Advanced(run)
    BY <1>0, <1>6, <2>2, CopiedKept DEF CloseListed, environment
  <2> QED BY <1>6, <2>1, <2>2 DEF CloseListed
<1>7. CASE CloseCopied
  <2>0. /\ Running /\ Now.what = "copy" /\ UNCHANGED <<source, hidden>> /\ run.fd.open
        /\ run.fd.file \in FilesOf(run.kind) /\ run.fd.file[1] = Now.name
        /\ \A n \in DOMAIN raw : n \in DOMAIN run.preflight /\ raw[n] = run.preflight[n].content
    BY <1>0, <1>7 DEF CloseCopied, Typed, Opened, environment, AllCopied, CopiedWasCounted, Running, Now
  <2>1. CASE run' = Failed(run)
    BY <1>0, <2>0, <2>1, CopiedFailed
  <2>2. CASE run' = Advanced(run) /\ raw' = raw /\ Now.name \in Optional \ DOMAIN run.preflight
    <3>1. Now.name # Main
      BY <2>2, AcquisitionAssumption
    <3> QED BY <1>0, <2>0, <2>2, <3>1, CopiedOne
  <2>3. ASSUME NEW c \in BytesOf(run.fd.file), Now.name \in DOMAIN run.preflight, Ends(run.fd.file),
               raw' = Put(raw, Now.name, c), run' = Advanced(run)
        PROVE  AllCopied'
    <3>1. /\ source[run.fd.file].content = c
          /\ source[run.fd.file].id = run.preflight[Now.name].id
          /\ run.fd.file[2] = run.preflight[Now.name].place
      BY <2>0, <2>3, BytesFacts DEF OneMoment, IsBound
    <3>2. run.fd.file = CountedFile(Now.name)
      BY <2>0, <3>1 DEF CountedFile, FilesOf
    <3>3. c = run.preflight[Now.name].content
      BY <1>0, <2>3, <3>1, <3>2 DEF AllCopied, IsAsCounted
    <3>4. DOMAIN raw' = DOMAIN raw \cup {Now.name}
      BY <2>3 DEF Put
    <3>5. \A n \in DOMAIN raw' : n \in DOMAIN run.preflight /\ raw'[n] = run.preflight[n].content
      BY <2>0, <2>3, <3>3 DEF Put
    <3> QED BY <1>0, <2>0, <2>3, <3>4, <3>5, CopiedOne
  <2> QED BY <1>7, <2>1, <2>2, <2>3 DEF CloseCopied
<1>8. CASE CloseStreamed \/ CloseRead \/ WriteExport
  BY <1>0, <1>8, Order DEF CloseStreamed, CloseRead, WriteExport, Now
<1>9. CASE CreateRoot \/ CreateLayout
  BY <1>0, <1>9, CopiedKept DEF CreateRoot, CreateLayout, environment
<1>10. CASE Seal
  <2>1. CASE run.found # run.preflight
    BY <1>0, <1>10, <2>1, CopiedFailed DEF Seal, environment
  <2>2. CASE run.found = run.preflight
    <3>1. /\ run'.kind = run.kind /\ run'.at = run.at /\ run'.preflight = run.preflight
          /\ run'.found = run.found /\ run'.status = "sealed"
          /\ UNCHANGED <<source, raw, hidden>>
      BY <1>0, <1>10, <2>2 DEF TypedRun, Seal, environment
    <3> QED BY <1>0, <1>10, <3>1 DEF AllCopied, IsAsCounted, CountedFile, CopiedWasCounted,
            CopiedOrGone, FoundIsAnother, Seal, Running
  <2> QED BY <2>1, <2>2
<1>11. ASSUME NEW f \in FilesOf(run.kind), Edit(f) PROVE AllCopied'
  <2>1. PICK content : source' = [source EXCEPT ![f] = [content |-> content, id |-> edits + 1]]
    BY <1>11 DEF Edit
  <2>2. /\ UNCHANGED <<run, raw, hidden>>
        /\ \A g \in FilesOf("snapshot") : source'[g] = source[g] \/ source'[g].id = edits + 1
    BY <1>11, <2>1 DEF Edit, Typed
  <2>3. \A n \in DOMAIN run.preflight :
          CountedFile(n) \in FilesOf("snapshot") /\ run.preflight[n].id # edits + 1
    BY <1>0, CountedFileIs
  <2>4. IsAsCounted'
    BY <1>0, <2>2, <2>3 DEF AllCopied, IsAsCounted, CountedFile
  <2>5. CopiedOrGone'
    BY <1>0, <2>2, <2>3 DEF AllCopied, CopiedOrGone, CountedFile
  <2> QED BY <1>0, <2>2, <2>4, <2>5 DEF AllCopied, CopiedWasCounted, FoundIsAnother
<1>12. ASSUME NEW f \in FilesOf(run.kind), Move(f[2]) PROVE AllCopied'
  <2>1. UNCHANGED <<source, run, raw, hidden>>
    BY <1>12 DEF Move
  <2> QED BY <1>0, <2>1 DEF AllCopied, IsAsCounted, CountedFile, CopiedWasCounted,
          CopiedOrGone, FoundIsAnother
<1>13. CASE Ended
  BY <1>0, <1>13 DEF Ended, vars, AllCopied, IsAsCounted, CountedFile, CopiedWasCounted,
          CopiedOrGone, FoundIsAnother
<1> QED BY <1>1, <1>2, <1>3, <1>4, <1>5, <1>6, <1>7, <1>8, <1>9, <1>10, <1>11, <1>12, <1>13 DEF Next

\* The kind of the source stays.
LEMMA KindKept ==
  ASSUME Typed, [Next]_vars
  PROVE  run'.kind = run.kind
<1>0. TypedRun(run, edits)
  BY DEF Typed
<1>1. Failed(run).kind = run.kind /\ Advanced(run).kind = run.kind
  BY <1>0, FailedIs, AdvancedIs
<1>3. ASSUME NEW what, NEW name, NEW c
      PROVE  Advanced(Noted(run, what, name, c)).kind = run.kind
  BY <1>0 DEF Advanced, Noted, TypedRun
<1>4. CASE Fail \/ PassOver \/ Refuse \/ CloseListed \/ CloseStreamed
  BY <1>1, <1>4 DEF Fail, PassOver, Refuse, CloseListed, CloseStreamed
<1>5. CASE Open
  BY <1>0, <1>1, <1>5 DEF Open, TypedRun
<1>6. CASE CloseHashed
  BY <1>1, <1>3, <1>6 DEF CloseHashed
<1>7. CASE CloseCopied \/ CreateRoot \/ CreateLayout \/ WriteExport
  BY <1>1, <1>7 DEF CloseCopied, CreateRoot, CreateLayout, WriteExport
<1>8. CASE CloseRead
  <2>1. \A x : Advanced([run EXCEPT !.payload = x]).kind = run.kind
    BY <1>0 DEF Advanced, TypedRun
  <2> QED BY <1>1, <1>8, <2>1 DEF CloseRead
<1>9. CASE Seal
  BY <1>0, <1>1, <1>9 DEF Seal, TypedRun
<1>10. ASSUME NEW f, Edit(f) \/ Move(f[2])
       PROVE  run'.kind = run.kind
  BY <1>10 DEF Edit, Move
<1>11. CASE UNCHANGED vars
  BY <1>11 DEF vars
<1> QED BY <1>4, <1>5, <1>6, <1>7, <1>8, <1>9, <1>10, <1>11 DEF Next, Ended

LEMMA NoneDroppedStep == Typed /\ OneMoment /\ NoneDropped /\ [Next]_vars => NoneDropped'
<1> SUFFICES ASSUME Typed, OneMoment, NoneDropped, [Next]_vars PROVE NoneDropped'
  OBVIOUS
<1>1. run'.kind = run.kind
  BY KindKept
<1>2. CASE Next
  BY <1>1, <1>2, CopiedNext DEF NoneDropped
<1>3. CASE UNCHANGED vars
  BY <1>3 DEF vars, NoneDropped, AllCopied, IsAsCounted, CountedFile, CopiedWasCounted,
          CopiedOrGone, FoundIsAnother
<1> QED BY <1>2, <1>3

LEMMA NoneDroppedInit == Init => NoneDropped
<1> SUFFICES ASSUME Init PROVE NoneDropped
  OBVIOUS
<1>1. /\ run.status = "running" /\ run.at = 1
      /\ raw = Nothing /\ run.preflight = Nothing /\ run.found = Nothing
  BY DEF Init
<1>2. DOMAIN raw = {} /\ DOMAIN run.preflight = {} /\ DOMAIN run.found = {}
  BY <1>1 DEF Nothing
<1>3. K \in Nat
  BY TargetsExist
<1> QED BY <1>1, <1>2, <1>3 DEF NoneDropped, AllCopied, IsAsCounted, CopiedWasCounted, CopiedOrGone,
        FoundIsAnother

LEMMA NothingDropped == Typed /\ OneMoment /\ NoneDropped => NothingIsDropped
<1> SUFFICES ASSUME Typed, OneMoment, NoneDropped, output = "complete" PROVE NothingIsDropped
  BY DEF NothingIsDropped
<1>1. /\ run.status = "sealed" /\ Now.what = "seal" /\ run.found = run.preflight
      /\ TypedRun(run, edits) /\ run.kind \in Kinds /\ run.at \in DOMAIN Program(run.kind)
  BY DEF OneMoment, IsSealed, Typed, TypedRun
<1>2. CASE run.kind = "snapshot"
  <2>1. run.at = 3 * K + 3 /\ K \in Nat \ {0} /\ AllCopied
    BY <1>1, <1>2, SnapshotOrder, TargetsExist DEF Now, NoneDropped
  <2>2. Main \in DOMAIN raw
    <3>1. 1 \in 1..K /\ run.at > K + 2 + 1 /\ Targets[1] = Main
      BY <2>1, TargetsExist
    <3> QED BY <1>1, <2>1, <3>1 DEF AllCopied, CopiedOrGone
  <2>3. \A n \in DOMAIN raw : n \in DOMAIN run.preflight /\ raw[n] = run.preflight[n].content
    BY <1>1, <2>1 DEF AllCopied, CopiedWasCounted
  <2>4. DOMAIN run.preflight \ hidden \subseteq DOMAIN raw
    BY <1>1, <2>1 DEF AllCopied, FoundIsAnother
  <2> QED BY <1>2, <2>2, <2>3, <2>4 DEF NothingIsDropped
<1>3. CASE run.kind # "snapshot"
  <2> SUFFICES ASSUME run.kind = "archive", NEW i \in DOMAIN moment[ContainerFile].members,
                      moment[ContainerFile].members[i].name \in Databases,
                      moment[ContainerFile].members[i].content # "empty"
               PROVE  moment[ContainerFile].members[i].name \in DOMAIN raw
    BY <1>3 DEF NothingIsDropped
  <2>1. raw = TakenFromArchive(moment[ContainerFile])
    BY <1>3, SealedOneMoment DEF SealedIsOneMoment, TakenFromContainer
  <2> QED BY <2>1 DEF TakenFromArchive, DatabaseMembers
<1> QED BY <1>2, <1>3

\* Nothing is dropped, whatever others do meanwhile: the required database, each one the
\* preflight counted and each of an archive is in the sealed acquisition, as it was counted;
\* except for those whose directory was away just when the copy looked for them, which the
\* code passes over and seals without.
THEOREM SealedWhole == Spec => []NothingIsDropped
<1>1. Init => Typed /\ OneMoment /\ NoneDropped
  BY TypedInit, OneMomentInit, NoneDroppedInit
<1>2. Typed /\ OneMoment /\ NoneDropped /\ [Next]_vars => (Typed /\ OneMoment /\ NoneDropped)'
  BY TypedStep, OneMomentStep, NoneDroppedStep
<1>3. Typed /\ OneMoment /\ NoneDropped => NothingIsDropped
  BY NothingDropped
<1> QED BY <1>1, <1>2, <1>3, PTL DEF Spec
-----------------------------------------------------------------------------
(***************************************************************************)
(* The capture and the recovery in a row.  While the capture runs, the     *)
(* recovery is in an initial state; its end makes another initial state,   *)
(* with what the capture left as the source, so the recovery's invariants  *)
(* are those of the composition.                                           *)
(***************************************************************************)

\* The bridge runs only while the program waits for it, and it was asked about the phone
\* whose app was looked at.
AskedAfterProbe ==
  /\ cap \in [status : {"unused", "running", "done", "failed"}, at : CaptureSteps,
              probed : Phones \cup {NoPhone}, asked : Phones \cup {NoPhone}]
  /\ bridge = "running" => cap.status = "running" /\ cap.at = "wait"
  /\ cap.at \in {"path", "dump"} => cap.probed \in Phones
  /\ cap.at \in {"relist", "fresh", "create", "spawn", "wait", "identity", "inspect", "again"} =>
       cap.probed \in Phones /\ app[cap.probed] = "candidate"
  /\ cap.at \in {"fresh", "create", "spawn", "wait", "identity", "inspect", "again"} =>
       cap.asked = cap.probed
  /\ bridge # "none" => cap.at \in {"wait", "identity", "inspect", "again"}
  /\ attached \subseteq Phones

\* The captured file is made for a phone; without a swap there is no other one.
CapturedFile ==
  /\ file \in [path : {"none", "ours", "other"}, stored : Amounts]
  /\ file.path = "ours" => cap.at \in {"spawn", "wait", "identity", "inspect", "again"}
  /\ swaps \in Nat /\ (swaps = 0 => file.path # "other")
  /\ cap.status = "done" => file.path = "ours"

Capturing == cap.status = "running" => Init /\ run.kind = "archive"

\* What an archive that nobody else wrote to is, when it is read after a capture.
AfterCapture == cap.status = "done" \/ (cap.status = "failed" /\ swaps = 0)
GivenOrPart(c, held) ==
  \/ c = Absent \/ c.header = "malformed" \/ c = held
  \/ c.compressed = held.compressed /\ c.cut # "no"
GivenByPhone ==
  AfterCapture /\ edits = 0 =>
    run.kind = "archive" /\ GivenOrPart(source[ContainerFile].content, Held[cap.asked])

\* What has been read of such an archive.
ReadToItsEnd ==
  run.kind = "archive" /\ edits = 0 /\ run.status # "failed" =>
    LET c == source[ContainerFile].content
    IN /\ run.at > 2 => c # Absent /\ c.header = "supported"
       /\ run.at > 6 => Extractable(c) /\ raw = TakenFromArchive(c)

Captured == AskedAfterProbe /\ CapturedFile /\ Capturing /\ GivenByPhone /\ ReadToItsEnd

\* The steps of the program's capture, with the phone it may have noted.
LEMMA CapAfter ==
  ASSUME AskedAfterProbe, NEW step \in CaptureSteps
  PROVE  /\ LET c == [cap EXCEPT !.at = step]
            IN /\ c.at = step /\ c.status = cap.status /\ c.probed = cap.probed /\ c.asked = cap.asked
               /\ c \in [status : {"unused", "running", "done", "failed"}, at : CaptureSteps,
                         probed : Phones \cup {NoPhone}, asked : Phones \cup {NoPhone}]
         /\ LET c == [cap EXCEPT !.status = "failed"]
            IN /\ c.at = cap.at /\ c.status = "failed" /\ c.probed = cap.probed /\ c.asked = cap.asked
               /\ c \in [status : {"unused", "running", "done", "failed"}, at : CaptureSteps,
                         probed : Phones \cup {NoPhone}, asked : Phones \cup {NoPhone}]
BY DEF AskedAfterProbe

LEMMA CaptureKeeps ==
  ASSUME AskedAfterProbe, CapturedFile, CaptureNext
  PROVE  AskedAfterProbe' /\ CapturedFile'
<1>1. /\ {"version", "devices", "path", "dump", "relist", "fresh", "create", "spawn", "wait",
          "identity", "inspect", "again"} = CaptureSteps
      /\ cap.at \in CaptureSteps
      /\ swaps \in Nat
  BY DEF CaptureSteps, AskedAfterProbe, CapturedFile
<1>a. ASSUME Stops, UNCHANGED <<bystanders, file>>, bridge' # "running",
             bridge' # "none" => cap.at \in {"wait", "identity", "inspect", "again"}
      PROVE  AskedAfterProbe' /\ CapturedFile'
  <2>1. /\ cap'.at = cap.at /\ cap'.status = "failed" /\ cap'.probed = cap.probed /\ cap'.asked = cap.asked
        /\ cap' \in [status : {"unused", "running", "done", "failed"}, at : CaptureSteps,
                     probed : Phones \cup {NoPhone}, asked : Phones \cup {NoPhone}]
    BY <1>1, <1>a, CapAfter DEF Stops
  <2> QED BY <1>a, <2>1 DEF AskedAfterProbe, CapturedFile, bystanders
<1>2. CASE CaptureFails
  BY <1>2, <1>a DEF CaptureFails, AskedAfterProbe
<1>3. CASE Version
  <2>1. cap' = [cap EXCEPT !.at = "devices"] /\ cap.at = "version"
    BY <1>3 DEF Version, To, At
  <2> QED BY <1>1, <1>3, <2>1, CapAfter DEF Version, AskedAfterProbe, CapturedFile, bystanders
<1>4. CASE ListDevices
  <2>1. CASE Stops
    BY <1>4, <2>1, <1>a DEF ListDevices, AskedAfterProbe, At
  <2>2. ASSUME NEW p \in attached, cap' = [cap EXCEPT !.at = "path", !.probed = p]
        PROVE  AskedAfterProbe' /\ CapturedFile'
    <3>1. /\ cap'.at = "path" /\ cap'.status = "running" /\ cap'.probed = p /\ p \in Phones
          /\ cap' \in [status : {"unused", "running", "done", "failed"}, at : CaptureSteps,
                       probed : Phones \cup {NoPhone}, asked : Phones \cup {NoPhone}]
      BY <1>1, <1>4, <2>2 DEF AskedAfterProbe, ListDevices, At
    <3> QED BY <1>4, <3>1 DEF AskedAfterProbe, CapturedFile, ListDevices, At, bystanders
  <2> QED BY <1>4, <2>1, <2>2 DEF ListDevices
<1>5. CASE PackagePath
  <2>1. CASE Stops
    BY <1>5, <2>1, <1>a DEF PackagePath, AskedAfterProbe, At
  <2>2. CASE To("dump")
    BY <1>1, <1>5, <2>2, CapAfter DEF PackagePath, To, At, AskedAfterProbe, CapturedFile, bystanders
  <2> QED BY <1>5, <2>1, <2>2 DEF PackagePath
<1>6. CASE DumpPackage
  <2>1. CASE Stops
    BY <1>6, <2>1, <1>a DEF DumpPackage, AskedAfterProbe, At
  <2>2. CASE To("relist") /\ app[cap.probed] = "candidate"
    BY <1>1, <1>6, <2>2, CapAfter DEF DumpPackage, To, At, AskedAfterProbe, CapturedFile, bystanders
  <2> QED BY <1>6, <2>1, <2>2 DEF DumpPackage
<1>7. CASE Relist
  <2>1. CASE Stops
    BY <1>7, <2>1, <1>a DEF Relist, AskedAfterProbe, At
  <2>2. CASE cap' = [cap EXCEPT !.at = "fresh", !.asked = cap.probed]
    <3>1. /\ cap'.at = "fresh" /\ cap'.status = "running" /\ cap'.probed = cap.probed
          /\ cap'.asked = cap.probed
          /\ cap' \in [status : {"unused", "running", "done", "failed"}, at : CaptureSteps,
                       probed : Phones \cup {NoPhone}, asked : Phones \cup {NoPhone}]
      BY <1>1, <1>7, <2>2 DEF AskedAfterProbe, Relist, At
    <3> QED BY <1>7, <3>1 DEF AskedAfterProbe, CapturedFile, Relist, At, bystanders
  <2> QED BY <1>7, <2>1, <2>2 DEF Relist
<1>8. CASE CheckFresh
  <2>1. CASE Stops
    BY <1>8, <2>1, <1>a DEF CheckFresh, AskedAfterProbe, At
  <2>2. CASE To("create")
    BY <1>1, <1>8, <2>2, CapAfter DEF CheckFresh, To, At, AskedAfterProbe, CapturedFile, bystanders
  <2> QED BY <1>8, <2>1, <2>2 DEF CheckFresh
<1>9. CASE CreateFile
  <2>1. CASE Stops /\ UNCHANGED file
    BY <1>9, <2>1, <1>a DEF CreateFile, AskedAfterProbe, At
  <2>2. CASE To("spawn") /\ file' = [path |-> "ours", stored |-> "none"]
    BY <1>1, <1>9, <2>2, CapAfter DEF CreateFile, To, At, AskedAfterProbe, CapturedFile, bystanders, Amounts
  <2> QED BY <1>9, <2>1, <2>2 DEF CreateFile
<1>10. CASE Spawn
  <2>1. CASE Stops /\ UNCHANGED bridge
    BY <1>10, <2>1, <1>a DEF Spawn, AskedAfterProbe, At
  <2>2. CASE To("wait") /\ bridge' = "running"
    BY <1>1, <1>10, <2>2, CapAfter DEF Spawn, To, At, AskedAfterProbe, CapturedFile, bystanders
  <2> QED BY <1>10, <2>1, <2>2 DEF Spawn
<1>11. CASE Deadline
  BY <1>11, <1>a DEF Deadline, At
<1>12. CASE Oversize
  BY <1>12, <1>a DEF Oversize, At
<1>13. CASE BridgeEnded
  BY <1>1, <1>13, CapAfter DEF BridgeEnded, To, At, AskedAfterProbe, CapturedFile, bystanders
<1>14. CASE CheckIdentity
  <2>1. CASE Stops
    BY <1>14, <2>1, <1>a DEF CheckIdentity, AskedAfterProbe, At
  <2>2. CASE To("inspect")
    BY <1>1, <1>14, <2>2, CapAfter DEF CheckIdentity, To, At, AskedAfterProbe, CapturedFile, bystanders
  <2> QED BY <1>14, <2>1, <2>2 DEF CheckIdentity
<1>15. CASE InspectCapture
  <2>1. CASE Stops
    BY <1>15, <2>1, <1>a DEF InspectCapture, AskedAfterProbe, At
  <2>2. CASE To("again")
    BY <1>1, <1>15, <2>2, CapAfter DEF InspectCapture, To, At, AskedAfterProbe, CapturedFile, bystanders
  <2> QED BY <1>15, <2>1, <2>2 DEF InspectCapture
<1>16. CASE Done
  <2>1. CASE Stops
    BY <1>16, <2>1, <1>a DEF Done, AskedAfterProbe, At
  <2>2. CASE cap' = [cap EXCEPT !.status = "done"] /\ file.path = "ours"
    <3>1. /\ cap'.at = cap.at /\ cap'.status = "done" /\ cap'.probed = cap.probed /\ cap'.asked = cap.asked
          /\ cap' \in [status : {"unused", "running", "done", "failed"}, at : CaptureSteps,
                       probed : Phones \cup {NoPhone}, asked : Phones \cup {NoPhone}]
      BY <2>2 DEF AskedAfterProbe
    <3> QED BY <1>16, <2>2, <3>1 DEF Done, At, AskedAfterProbe, CapturedFile, bystanders
  <2> QED BY <1>16, <2>1, <2>2 DEF Done
<1>17. CASE BridgeWrites
  <2>1. \A amount \in More[file.stored] : amount \in Amounts
    BY DEF CapturedFile, More, Amounts
  <2> QED BY <1>17, <2>1 DEF BridgeWrites, AskedAfterProbe, CapturedFile, bystanders
<1>18. CASE BridgeExits
  BY <1>18 DEF BridgeExits, AskedAfterProbe, CapturedFile, bystanders
<1>19. CASE Swap
  BY <1>1, <1>19 DEF Swap, AskedAfterProbe, CapturedFile
<1>20. ASSUME NEW p \in Phones, Plug(p) PROVE AskedAfterProbe' /\ CapturedFile'
  BY <1>20 DEF Plug, AskedAfterProbe, CapturedFile
<1> QED BY <1>2, <1>3, <1>4, <1>5, <1>6, <1>7, <1>8, <1>9, <1>10, <1>11, <1>12, <1>13, <1>14,
           <1>15, <1>16, <1>17, <1>18, <1>19, <1>20 DEF CaptureNext, CaptureStep

\* Only a running capture goes on, and its end changes nothing but its status.
LEMMA CaptureStopped ==
  ASSUME AskedAfterProbe, CaptureNext
  PROVE  cap.status = "running" /\ (cap'.status # "running" => cap'.asked = cap.asked)
<1>1. cap.status = "running"
  BY DEF CaptureNext, CaptureStep, CaptureFails, BridgeWrites, BridgeExits, Swap, Plug, AskedAfterProbe,
         Version, ListDevices, PackagePath, DumpPackage, Relist, CheckFresh, CreateFile, Spawn,
         Deadline, Oversize, BridgeEnded, CheckIdentity, InspectCapture, Done, At
<1>2. \A step : To(step) => cap'.status = cap.status
  BY DEF To, AskedAfterProbe
<1>3. Stops => cap'.asked = cap.asked
  BY DEF Stops, AskedAfterProbe
<1>4. CASE CaptureStep \/ CaptureFails
  <2>1. CASE ListDevices
    BY <1>1, <1>3, <2>1 DEF ListDevices, AskedAfterProbe
  <2>2. CASE Relist
    BY <1>1, <1>3, <2>2 DEF Relist, AskedAfterProbe
  <2>3. CASE Done
    BY <1>1, <1>3, <2>3 DEF Done, AskedAfterProbe
  <2> QED BY <1>1, <1>2, <1>3, <1>4, <2>1, <2>2, <2>3 DEF CaptureStep, CaptureFails, Version,
          PackagePath, DumpPackage, CheckFresh, CreateFile, Spawn, Deadline, Oversize, BridgeEnded,
          CheckIdentity, InspectCapture
<1>5. CASE BridgeWrites \/ BridgeExits \/ Swap \/ \E p \in Phones : Plug(p)
  BY <1>1, <1>5 DEF BridgeWrites, BridgeExits, Swap, Plug
<1> QED BY <1>1, <1>4, <1>5 DEF CaptureNext

\* A capture leaves an archive or nothing: what the phone gave, or a part of it that a
\* reader can tell, unless another file was renamed over it.
LEMMA LeftIs ==
  ASSUME NEW captured \in {"none", "ours", "other"}, NEW amount \in Amounts, NEW phone,
         captured = "ours" => phone \in Phones, NEW held, captured = "ours" => held = Held[phone],
         NEW c \in Left(captured, amount, held)
  PROVE  /\ c \in Archives \cup {Absent}
         /\ captured # "other" => GivenOrPart(c, Held[phone])
<1>1. CASE captured = "none"
  BY <1>1 DEF Left, GivenOrPart
<1>2. CASE captured = "other"
  BY <1>2 DEF Left
<1>3. CASE captured = "ours" /\ amount \in {"none", "headless", "oversized"}
  BY <1>3 DEF Left, Unreadable, GivenOrPart
<1>4. CASE captured = "ours" /\ amount = "whole"
  BY <1>4, HeldAssumption DEF Left, GivenOrPart
<1>5. CASE captured = "ours" /\ amount \in {"inside", "boundary"}
  <2>1. Left("ours", amount, Held[phone]) \subseteq Archives
    BY <1>5, HeldAssumption
  <2>2. Held[phone] \in Archives /\ ArchiveShape(Held[phone])
    BY <1>5, HeldAssumption, ContainersAssumption
  <2>3. PICK n : c = CutAt(Held[phone], n, amount)
    BY <1>5 DEF Left
  <2>4. c.compressed = Held[phone].compressed /\ c.cut = amount
    BY <2>2, <2>3 DEF CutAt, ArchiveShape
  <2> QED BY <1>5, <2>1, <2>4 DEF GivenOrPart
<1> QED BY <1>1, <1>2, <1>3, <1>4, <1>5 DEF Amounts

\* The end of the capture is the beginning of the recovery.
LEMMA RecoveryBegins ==
  ASSUME Init, run.kind = "archive", NEW c \in Archives \cup {Absent},
         source' = [source EXCEPT ![ContainerFile].content = c],
         UNCHANGED <<away, edits, moves, run, raw, output, moment, hidden>>
  PROVE  Init' /\ source'[ContainerFile].content = c
<1>1. PICK kind \in Kinds :
        /\ source \in [FilesOf(kind) -> [content : FirstsOf(kind), id : {0}]]
        /\ run = [kind |-> kind, status |-> "running", at |-> 1, fd |-> Closed,
                  preflight |-> Nothing, found |-> Nothing, payload |-> Absent]
        /\ moment = [f \in FilesOf(kind) |-> Absent]
  BY DEF Init
<1>2. /\ kind = "archive" /\ FilesOf(kind) = {ContainerFile}
      /\ FirstsOf(kind) = Archives \cup {Absent}
  BY <1>1 DEF FilesOf, FirstsOf, ContentsOf
<1>3. /\ source' \in [FilesOf(kind) -> [content : FirstsOf(kind), id : {0}]]
      /\ source'[ContainerFile].content = c
  BY <1>1, <1>2
<1>4. /\ run' = [kind |-> kind, status |-> "running", at |-> 1, fd |-> Closed,
                 preflight |-> Nothing, found |-> Nothing, payload |-> Absent]
      /\ moment' = [f \in FilesOf(kind) |-> Absent]
  BY <1>1
<1>5. away' = {} /\ edits' = 0 /\ moves' = 0 /\ raw' = Nothing /\ output' = "none" /\ hidden' = {}
  BY DEF Init
<1>6. Init'
  BY <1>3, <1>4, <1>5 DEF Init
<1> QED BY <1>3, <1>6

LEMMA BegunLater == Init' => Typed' /\ OneMoment' /\ NoneDropped'
<1>1. Init => Typed /\ OneMoment /\ NoneDropped
  BY TypedInit, OneMomentInit, NoneDroppedInit
<1> QED BY <1>1, PTL

LEMMA CaptureStepCaptured ==
  ASSUME Captured, Capture, Typed, OneMoment, NoneDropped
  PROVE  Captured' /\ Typed' /\ OneMoment' /\ NoneDropped'
<1>1. AskedAfterProbe' /\ CapturedFile' /\ cap.status = "running" /\ Init /\ run.kind = "archive"
  BY CaptureKeeps, CaptureStopped DEF Captured, Capture, Capturing
<1>2. CASE cap'.status = "running"
  <2>1. UNCHANGED vars
    BY <1>2 DEF Capture
  <2>2. Typed' /\ OneMoment' /\ NoneDropped'
    BY <2>1, TypedStep, OneMomentStep, NoneDroppedStep
  <2>3. Init' /\ run'.kind = "archive"
    BY <1>1, <2>1 DEF vars, Init
  <2>4. ReadToItsEnd'
    BY <2>1 DEF vars, Captured, ReadToItsEnd
  <2> QED BY <1>1, <1>2, <2>2, <2>3, <2>4 DEF Captured, Capturing, GivenByPhone, AfterCapture
<1>3. CASE cap'.status # "running"
  <2> DEFINE held == IF cap.asked = NoPhone THEN Absent ELSE Held[cap.asked]
  <2>1. PICK c \in Left(file'.path, file'.stored, held) :
          source' = [source EXCEPT ![ContainerFile].content = c]
    BY <1>3 DEF Capture
  <2>2. UNCHANGED <<away, edits, moves, run, raw, output, moment, hidden>>
    BY <1>3 DEF Capture
  <2>3. cap'.asked = cap.asked
    BY <1>3, CaptureStopped DEF Captured, Capture
  <2>4. file'.path = "ours" => cap.asked \in Phones /\ cap.asked # NoPhone
    BY <1>1, <2>3, CaptureAssumption DEF AskedAfterProbe, CapturedFile
  <2>5. file'.path \in {"none", "ours", "other"} /\ file'.stored \in Amounts
    BY <1>1 DEF CapturedFile
  <2>6. file'.path = "ours" => held = Held[cap.asked]
    BY <2>4
  <2> HIDE DEF held
  <2>7. c \in Archives \cup {Absent} /\ (file'.path # "other" => GivenOrPart(c, Held[cap.asked]))
    BY <2>4, <2>5, <2>6, LeftIs
  <2>8. Init' /\ source'[ContainerFile].content = c
    BY <1>1, <2>1, <2>2, <2>7, RecoveryBegins
  <2>9. Typed' /\ OneMoment' /\ NoneDropped'
    BY <2>8, BegunLater
  <2>10. run'.kind = "archive" /\ run'.at = 1
    BY <1>1, <2>2 DEF Init
  <2>11. GivenByPhone'
    BY <1>1, <2>3, <2>7, <2>8, <2>10 DEF GivenByPhone, AfterCapture, CapturedFile
  <2>12. ReadToItsEnd'
    BY <2>10 DEF ReadToItsEnd
  <2> QED BY <1>1, <1>3, <2>9, <2>11, <2>12 DEF Captured, Capturing
<1> QED BY <1>2, <1>3

\* An archive nobody wrote to is read from its header to its end.
LEMMA ReadStep ==
  ASSUME Typed, OneMoment, ReadToItsEnd, Next
  PROVE  ReadToItsEnd'
<1> SUFFICES ASSUME run'.kind = "archive", edits' = 0, run'.status # "failed" PROVE ReadToItsEnd'
  BY DEF ReadToItsEnd
<1>0. /\ TypedRun(run, edits) /\ run.at \in DOMAIN Program(run.kind) /\ run.kind \in Kinds
      /\ run.kind = "archive" /\ run.at \in Nat /\ edits \in Nat
  <2>1. run'.kind = run.kind
    BY KindKept
  <2> QED BY <2>1, AcquisitionAssumption, Order DEF Typed, TypedRun
<1>1. /\ Failed(run).status = "failed"
      /\ Advanced(run).at = run.at + 1 /\ Advanced(run).kind = run.kind /\ Advanced(run).status = run.status
  BY <1>0, FailedIs, AdvancedIs
<1>2. /\ Now.what = "header" <=> run.at \in {2, 4}
      /\ Now.what = "stream" <=> run.at = 6
      /\ Now.what \notin {"copy", "members", "payloads", "write"}
      /\ Now.what = "seal" => run.at = 8
      /\ Now.what \in Reads => Now.name = Container
  BY <1>0, Order DEF Now, NamesOf
<1> DEFINE c == source[ContainerFile].content
           Read(at) == /\ at > 2 => c # Absent /\ c.header = "supported"
                       /\ at > 6 => Extractable(c) /\ raw' = TakenFromArchive(c)
<1>3. run.status # "failed" /\ edits = 0 =>
        /\ run.at > 2 => c # Absent /\ c.header = "supported"
        /\ run.at > 6 => Extractable(c) /\ raw = TakenFromArchive(c)
  BY <1>0 DEF ReadToItsEnd
<1>4. ASSUME source' = source, Read(run'.at) PROVE ReadToItsEnd'
  BY <1>4 DEF ReadToItsEnd
<1>5. ASSUME run.status = "running", UNCHANGED <<source, edits, raw>>, run'.at = run.at + 1, run.at \notin {2, 6}
      PROVE  ReadToItsEnd'
  BY <1>0, <1>3, <1>4, <1>5
<1>6. ASSUME run.status # "failed", UNCHANGED <<source, edits, raw>>, run'.at = run.at
      PROVE  ReadToItsEnd'
  BY <1>3, <1>4, <1>6
<1>7. CASE Fail \/ Refuse
  BY <1>1, <1>7 DEF Fail, Refuse
<1>8. CASE Open
  BY <1>0, <1>1, <1>6, <1>8 DEF Open, TypedRun, Running, environment
<1>9. CASE PassOver
  BY <1>2, <1>9, ContainerAssumption DEF PassOver, Databases
<1>10. CASE CloseHashed
  <2>1. \A name, d : Advanced(Noted(run, Now.what, name, d)).at = run.at + 1
    BY <1>0 DEF Advanced, Noted, TypedRun
  <2>2. run'.at = run.at + 1
    BY <1>1, <1>10, <2>1 DEF CloseHashed
  <2> QED BY <1>2, <1>5, <1>10, <2>2 DEF CloseHashed, Running, environment
<1>11. CASE CloseListed
  <2>1. PICK d \in BytesOf(run.fd.file) :
          run' = IF Ends(run.fd.file) /\ d.header = "supported" THEN Advanced(run) ELSE Failed(run)
    BY <1>2, <1>11 DEF CloseListed
  <2>2. run.fd.file = ContainerFile /\ ContainerFile \in FilesOf(run.kind)
    BY <1>0, <1>11 DEF CloseListed, Typed, Opened, FilesOf
  <2>3. run' = Advanced(run) /\ d = c /\ d.header = "supported" /\ d # Absent
    BY <1>1, <2>1, <2>2, BytesFacts
  <2> QED BY <1>0, <1>1, <1>2, <1>3, <1>4, <1>11, <2>3 DEF CloseListed, Running, environment
<1>12. CASE CloseStreamed
  <2>1. PICK a \in BytesOf(run.fd.file) :
          /\ raw' = TakenFromArchive(a)
          /\ run' = IF Ends(run.fd.file) /\ Extractable(a) THEN Advanced(run) ELSE Failed(run)
    BY <1>12 DEF CloseStreamed
  <2>2. run.fd.file = ContainerFile /\ ContainerFile \in FilesOf(run.kind)
    BY <1>0, <1>12 DEF CloseStreamed, Typed, Opened, FilesOf
  <2>3. run' = Advanced(run) /\ a = c /\ Extractable(a)
    BY <1>1, <2>1, <2>2, BytesFacts
  <2> QED BY <1>0, <1>1, <1>2, <1>3, <1>4, <1>12, <2>1, <2>3 DEF CloseStreamed, Running, environment
<1>13. CASE CloseCopied \/ CloseRead \/ WriteExport
  BY <1>2, <1>13 DEF CloseCopied, CloseRead, WriteExport
<1>14. CASE CreateRoot \/ CreateLayout
  BY <1>1, <1>2, <1>5, <1>14 DEF CreateRoot, CreateLayout, Running, environment
<1>15. CASE Seal
  BY <1>0, <1>1, <1>6, <1>15 DEF Seal, TypedRun, Running, environment
<1>16. ASSUME NEW f, Edit(f) PROVE ReadToItsEnd'
  BY <1>0, <1>16 DEF Edit
<1>17. ASSUME NEW f, Move(f) PROVE ReadToItsEnd'
  BY <1>6, <1>17 DEF Move, Running
<1>18. CASE Ended
  BY <1>18 DEF Ended, vars, ReadToItsEnd
<1> QED BY <1>7, <1>8, <1>9, <1>10, <1>11, <1>12, <1>13, <1>14, <1>15, <1>16, <1>17, <1>18 DEF Next

\* Without a write, the source stays what it is.
LEMMA UneditedKept ==
  ASSUME Typed, Next, edits' = 0
  PROVE  edits = 0 /\ source' = source
BY AcquisitionAssumption DEF Typed, Next, Fail, Open, PassOver, Refuse, CloseHashed, CloseListed, CloseCopied,
   CloseStreamed, CloseRead, CreateRoot, CreateLayout, WriteExport, Seal, Edit, Move, Ended,
   environment, vars

LEMMA RecoverCaptured ==
  ASSUME Captured, Recover, Typed, OneMoment, NoneDropped
  PROVE  Captured' /\ Typed' /\ OneMoment' /\ NoneDropped'
<1>1. Next /\ UNCHANGED captureVars /\ cap.status # "running"
  BY DEF Recover
<1>2. Typed' /\ OneMoment' /\ NoneDropped' /\ ReadToItsEnd'
  BY <1>1, TypedStep, OneMomentStep, NoneDroppedStep, ReadStep DEF Captured
<1>3. AskedAfterProbe' /\ CapturedFile' /\ Capturing'
  BY <1>1 DEF Captured, captureVars, AskedAfterProbe, CapturedFile, Capturing
<1>4. GivenByPhone'
  BY <1>1, KindKept, UneditedKept DEF Captured, captureVars, GivenByPhone, AfterCapture
<1> QED BY <1>2, <1>3, <1>4 DEF Captured

LEMMA CapturedBegins == CapturedInit => Captured /\ Typed /\ OneMoment /\ NoneDropped
<1> SUFFICES ASSUME CapturedInit PROVE Captured /\ Typed /\ OneMoment /\ NoneDropped
  OBVIOUS
<1>1. PICK status \in {"unused", "running"} :
        /\ Init /\ CaptureInit(status)
        /\ status = "running" => run.kind = "archive"
  BY DEF CapturedInit
<1>2. AskedAfterProbe /\ CapturedFile /\ Capturing
  BY <1>1 DEF CaptureInit, AskedAfterProbe, CapturedFile, Capturing, CaptureSteps, Amounts
<1>3. cap.status \in {"unused", "running"} /\ run.at = 1
  BY <1>1 DEF CaptureInit, Init
<1>4. GivenByPhone /\ ReadToItsEnd
  BY <1>3 DEF GivenByPhone, AfterCapture, ReadToItsEnd
<1> QED BY <1>1, <1>2, <1>4, TypedInit, OneMomentInit, NoneDroppedInit DEF Captured

LEMMA CapturedStep ==
  Captured /\ Typed /\ OneMoment /\ NoneDropped /\ [CapturedNext]_allVars
    => (Captured /\ Typed /\ OneMoment /\ NoneDropped)'
<1> SUFFICES ASSUME Captured, Typed, OneMoment, NoneDropped, [CapturedNext]_allVars
             PROVE  (Captured /\ Typed /\ OneMoment /\ NoneDropped)'
  OBVIOUS
<1>1. CASE UNCHANGED allVars
  <2>1. UNCHANGED vars /\ UNCHANGED captureVars
    BY <1>1 DEF allVars
  <2>2. Typed' /\ OneMoment' /\ NoneDropped'
    BY <2>1, TypedStep, OneMomentStep, NoneDroppedStep
  <2>3. Captured'
    BY <2>1 DEF vars, captureVars, Captured, AskedAfterProbe, CapturedFile, Capturing, GivenByPhone,
                AfterCapture, ReadToItsEnd, Init
  <2> QED BY <2>2, <2>3
<1>2. CASE CapturedNext
  BY <1>2, CaptureStepCaptured, RecoverCaptured DEF CapturedNext
<1> QED BY <1>1, <1>2

\* Only a phone whose app was found to be a candidate is asked for a backup: the list that
\* is read again must still be of the phone that was probed, whatever was plugged meanwhile.
THEOREM OnlyCandidates == CapturedSpec => []OnlyCandidatesAreAsked
<1>1. Captured => OnlyCandidatesAreAsked
  BY DEF Captured, AskedAfterProbe, OnlyCandidatesAreAsked
<1> QED BY <1>1, CapturedBegins, CapturedStep, PTL DEF CapturedSpec

\* What is sealed after a capture is what the phone gave, whole: a part of a compressed
\* backup is told by the reader, though the bridge reports success.
THEOREM SealedWhatWasGiven == CapturedSpec => []SealedIsWhatThePhoneGave
<1>1. Captured /\ Typed /\ OneMoment => SealedIsWhatThePhoneGave
  <2> SUFFICES ASSUME Captured, Typed, OneMoment, AfterCapture, edits = 0, output = "complete",
                      Held[cap.asked].compressed
               PROVE  raw = TakenFromArchive(Held[cap.asked])
    BY DEF SealedIsWhatThePhoneGave, AfterCapture
  <2> DEFINE c == source[ContainerFile].content
  <2>1. run.status = "sealed" /\ Now.what = "seal" /\ run.kind = "archive" /\ GivenOrPart(c, Held[cap.asked])
    BY DEF OneMoment, IsSealed, Captured, GivenByPhone
  <2>2. run.at = 8
    BY <2>1, Order DEF Now, Typed, TypedRun
  <2>3. c # Absent /\ c.header = "supported" /\ Extractable(c) /\ raw = TakenFromArchive(c)
    BY <2>1, <2>2 DEF Captured, ReadToItsEnd
  <2>4. c = Held[cap.asked]
    BY <2>1, <2>3 DEF GivenOrPart, Extractable
  <2> QED BY <2>3, <2>4
<1> QED BY <1>1, CapturedBegins, CapturedStep, PTL DEF CapturedSpec

\* What holds of an acquisition holds of one behind a capture.
THEOREM CapturedSealedMoment == CapturedSpec => [](SealedIsOneMoment /\ NothingIsDropped)
<1>1. Typed /\ OneMoment /\ NoneDropped => SealedIsOneMoment /\ NothingIsDropped
  BY SealedOneMoment, NothingDropped
<1> QED BY <1>1, CapturedBegins, CapturedStep, PTL DEF CapturedSpec

\* What Captured does not say of the types of the phones and the bridge.
World ==
  /\ app \in [Phones -> Apps] /\ plugs \in 0..MaxPlugs /\ swaps \in 0..MaxSwaps
  /\ bridge \in {"none", "running", "exited", "failed", "killed"}

LEMMA WorldStep == World /\ [CapturedNext]_allVars => World'
<1> SUFFICES ASSUME World, [CapturedNext]_allVars PROVE World'
  OBVIOUS
<1>1. CASE UNCHANGED captureVars
  BY <1>1 DEF World, captureVars
<1>2. CASE CaptureNext
  <2>1. CASE CaptureStep \/ CaptureFails
    BY <2>1 DEF World, bystanders, CaptureStep, CaptureFails, Version, ListDevices, PackagePath,
       DumpPackage, Relist, CheckFresh, CreateFile, Spawn, Deadline, Oversize, BridgeEnded,
       CheckIdentity, InspectCapture, Done
  <2>2. CASE BridgeWrites \/ BridgeExits
    BY <2>2 DEF World, bystanders, BridgeWrites, BridgeExits
  <2>3. CASE Swap \/ \E p \in Phones : Plug(p)
    <3>1. MaxPlugs \in Nat /\ MaxSwaps \in Nat
      BY CaptureAssumption
    <3> QED BY <2>3, <3>1 DEF World, Swap, Plug
  <2> QED BY <1>2, <2>1, <2>2, <2>3 DEF CaptureNext
<1> QED BY <1>1, <1>2 DEF CapturedNext, Capture, Recover, allVars

LEMMA WorldBegins == CapturedInit => World
BY CaptureAssumption DEF CapturedInit, CaptureInit, World

\* The variables of the capture keep their types too: the bounds on plugs and swaps, and
\* the phone that is noted before it is asked.
THEOREM CapturedTyped == CapturedSpec => []CapturedTypeOK
<1>1. Captured /\ World => CaptureTypeOK
  BY DEF Captured, AskedAfterProbe, CapturedFile, World, CaptureTypeOK
<1>2. Typed => TypeOK
  BY TypedIsTypeOK
<1> QED BY <1>1, <1>2, CapturedBegins, CapturedStep, WorldBegins, WorldStep, PTL
        DEF CapturedSpec, CapturedTypeOK
=============================================================================
