----------------------- MODULE RetainedDirectoriesProofs -----------------------
(***************************************************************************)
(* Proofs about the directories that are retained on Windows.              *)
(*                                                                         *)
(* The argument: a retained handle does not share deletion, so that no one *)
(* moves or deletes what it keeps (HeldStep); the directory above is       *)
(* retained as well, so that a path leads to what is retained as it        *)
(* (Reached), and what is retained next is where its path says (PlaceStep).*)
(* A promotion closes the handles below a directory, and retains again     *)
(* what it closed, from the top downwards, or fails: what was written is   *)
(* retained or closed for a while (KeptStep), and the last step compares   *)
(* all that is retained with what is visible (ReachableStep).  A deletion  *)
(* goes down a chain of directories it has open (Chain), so that what it   *)
(* deletes is in the tree then (LastIsWithin).                             *)
(*                                                                         *)
(* Walk and Within are recursive functions; what is proved of them is by   *)
(* their least counterexample (Least), as the well-founded order of the    *)
(* numbers has one.                                                        *)
(***************************************************************************)
EXTENDS RetainedDirectories, FiniteSetTheorems, SequenceTheorems, WellFoundedInduction, TLAPS

-----------------------------------------------------------------------------
(***************************************************************************)
(* Numbers and paths.                                                      *)
(***************************************************************************)

\* A nonempty set of numbers has a least one.
LEMMA Least ==
  ASSUME NEW T, T \subseteq Nat, T # {}
  PROVE  \E n \in T : \A m \in T : n <= m
<1>1. PICK n \in T : \A m \in T : <<m, n>> \notin OpToRel(<, Nat)
  BY WFMin, NatLessThanWellFounded
<1>2. \A m \in T : ~(m < n)
  BY <1>1 DEF OpToRel
<1> QED BY <1>2

\* A nonempty set of paths has a shortest one.
LEMMA Shortest ==
  ASSUME NEW S, S # {}, \A s \in S : Len(s) \in Nat
  PROVE  \E s \in S : \A r \in S : Len(s) <= Len(r)
<1> DEFINE T == {n \in Nat : \E s \in S : Len(s) = n}
<1>1. T \subseteq Nat
  OBVIOUS
<1>2. T # {}
  <2>1. PICK s \in S : Len(s) \in Nat
    OBVIOUS
  <2> QED BY <2>1
<1>3. PICK n \in T : \A m \in T : n <= m
  <2> HIDE DEF T
  <2> QED BY <1>1, <1>2, Least
<1>4. PICK s \in S : Len(s) = n
  BY <1>3
<1>5. \A r \in S : Len(r) \in T
  OBVIOUS
<1> QED BY <1>3, <1>4, <1>5

\* A path that is not empty has its parent's names and one more.
LEMMA Parent ==
  ASSUME NEW path \in Seq(STRING), path # <<>>
  PROVE  /\ Len(path) \in Nat \ {0} /\ Above(path) \in Seq(STRING)
         /\ Len(Above(path)) = Len(path) - 1 /\ Last(path) = path[Len(path)]
         /\ Last(path) \in STRING
         /\ \A i \in 1..Len(path) - 1 : Above(path)[i] = path[i]
<1>1. Len(path) \in Nat /\ Len(path) # 0
  BY EmptySeq
<1>2. Above(path) = [i \in 1..Len(path) - 1 |-> path[i]]
  BY <1>1 DEF Above, Front
<1>3. \A i \in 1..Len(path) : path[i] \in STRING
  OBVIOUS
<1>4. Above(path) \in Seq(STRING) /\ Len(Above(path)) = Len(path) - 1
  <2>1. Len(path) - 1 \in Nat /\ 1 <= Len(path) - 1 + 1
    BY <1>1
  <2>2. Above(path) \in [1..Len(path) - 1 -> STRING]
    BY <1>2, <1>3, <2>1
  <2> QED BY <2>1, <2>2
<1> QED BY <1>1, <1>2, <1>3, <1>4 DEF Last

\* One path is strictly below another.
LEMMA BelowDef ==
  ASSUME NEW p \in Seq(STRING), NEW q \in Seq(STRING)
  PROVE  Below(p, q) <=> Len(p) < Len(q) /\ \A i \in 1..Len(p) : p[i] = q[i]
<1>1. IsPrefix(p, q) <=> Len(p) <= Len(q) /\ \A i \in 1..Len(p) : p[i] = q[i]
  <2>1. Len(p) \in Nat /\ Len(q) \in Nat
    OBVIOUS
  <2>2. ASSUME Len(p) <= Len(q)
        PROVE  /\ SubSeq(p, 1, Len(p)) = [i \in 1..Len(p) |-> p[i]]
               /\ SubSeq(q, 1, Len(p)) = [i \in 1..Len(p) |-> q[i]]
    BY <2>1, <2>2
  <2> QED BY <2>1, <2>2 DEF IsPrefix
<1>2. p = q <=> Len(p) = Len(q) /\ \A i \in 1..Len(p) : p[i] = q[i]
  BY SeqEqual
<1> QED BY <1>1, <1>2 DEF Below, IsStrictPrefix


-----------------------------------------------------------------------------
(***************************************************************************)
(* What a path leads to.                                                   *)
(***************************************************************************)

\* The directories on the way along the first n names of a path.
Way(f, places, path, n) ==
  f = [i \in 0..n |-> IF i = 0 THEN Desk ELSE Holder(places, In(f[i - 1], path[i]))]

LEMMA WayExists ==
  ASSUME NEW places, NEW path, NEW n \in Nat
  PROVE  \E f : Way(f, places, path, n)
<1> DEFINE Bad == {m \in Nat : ~\E f : Way(f, places, path, m)}
<1> SUFFICES ASSUME Bad # {} PROVE FALSE
  OBVIOUS
<1>1. PICK m \in Bad : \A k \in Bad : m <= k
  <2>1. Bad \subseteq Nat
    OBVIOUS
  <2> HIDE DEF Bad
  <2> QED BY <2>1, Least
<1>2. m \in Nat /\ ~\E f : Way(f, places, path, m)
  BY <1>1
<1>3. CASE m = 0
  <2>1. Way([i \in 0..0 |-> Desk], places, path, 0)
    BY DEF Way
  <2> QED BY <1>2, <1>3, <2>1
<1>4. CASE m # 0
  <2>1. m - 1 \in Nat /\ m - 1 \notin Bad
    BY <1>1, <1>2, <1>4
  <2>2. PICK f : Way(f, places, path, m - 1)
    BY <2>1
  <2> DEFINE g == [i \in 0..m |-> IF i = m THEN Holder(places, In(f[m - 1], path[m])) ELSE f[i]]
  <2>3. \A i \in 0..m : g[i] = IF i = 0 THEN Desk ELSE Holder(places, In(g[i - 1], path[i]))
    <3> SUFFICES ASSUME NEW i \in 0..m
                 PROVE  g[i] = IF i = 0 THEN Desk ELSE Holder(places, In(g[i - 1], path[i]))
      OBVIOUS
    <3>1. CASE i = 0
      BY <1>2, <1>4, <2>2, <3>1 DEF Way
    <3>2. CASE i # 0 /\ i # m
      <4>1. i \in 0..m - 1 /\ i - 1 \in 0..m - 1 /\ i - 1 \in 0..m /\ i - 1 # m
        BY <1>2, <3>2
      <4>2. f[i] = Holder(places, In(f[i - 1], path[i]))
        BY <2>2, <3>2, <4>1 DEF Way
      <4>3. g[i] = f[i] /\ g[i - 1] = f[i - 1]
        BY <3>2, <4>1
      <4> QED BY <3>2, <4>2, <4>3
    <3>3. CASE i = m
      <4>1. m - 1 \in 0..m /\ m - 1 # m
        BY <1>2, <1>4
      <4>2. g[m - 1] = f[m - 1]
        BY <4>1
      <4> QED BY <1>4, <3>3, <4>2
    <3> QED BY <3>1, <3>2, <3>3
  <2>4. g = [i \in 0..m |-> IF i = 0 THEN Desk ELSE Holder(places, In(g[i - 1], path[i]))]
    <3>1. g = [i \in 0..m |-> g[i]]
      OBVIOUS
    <3> HIDE DEF g
    <3> QED BY <2>3, <3>1
  <2>5. Way(g, places, path, m)
    BY <2>4 DEF Way
  <2> QED BY <1>2, <2>5
<1> QED BY <1>3, <1>4

\* A path leads to its last name in the directory its parent leads to.
LEMMA WalkStep ==
  ASSUME NEW places, NEW path \in Seq(STRING), path # <<>>
  PROVE  Walk(places, path) = Holder(places, In(Walk(places, Above(path)), Last(path)))
<1> DEFINE n == Len(path)
           f == CHOOSE reached : Way(reached, places, path, n)
           g == CHOOSE reached : Way(reached, places, Above(path), n - 1)
<1>1. n \in Nat /\ n # 0 /\ n - 1 \in Nat /\ Len(Above(path)) = n - 1 /\ Last(path) = path[n]
  BY Parent
<1>2. Way(f, places, path, n) /\ Way(g, places, Above(path), n - 1)
  <2>1. (\E reached : Way(reached, places, path, n)) /\ (\E reached : Way(reached, places, Above(path), n - 1))
    BY <1>1, WayExists
  <2> QED BY <2>1
<1>3. Walk(places, path) = f[n] /\ Walk(places, Above(path)) = g[n - 1]
  BY <1>1 DEF Walk, Way
<1> HIDE DEF n, f, g
<1>4. \A i \in 0..n - 1 : f[i] = g[i]
  <2> DEFINE Bad == {i \in 0..n - 1 : f[i] # g[i]}
  <2> SUFFICES ASSUME Bad # {} PROVE FALSE
    OBVIOUS
  <2>1. Bad \subseteq Nat
    BY <1>1
  <2>2. PICK i \in Bad : \A k \in Bad : i <= k
    <3> HIDE DEF Bad
    <3> QED BY <2>1, Least
  <2>3. i \in 0..n - 1 /\ f[i] # g[i]
    BY <2>2
  <2>4. i # 0
    BY <1>1, <1>2, <2>3 DEF Way
  <2>5. i - 1 \in 0..n - 1 /\ i \in 0..n /\ i \in 1..n - 1
    BY <1>1, <2>3, <2>4
  <2>6. f[i - 1] = g[i - 1]
    BY <2>2, <2>5
  <2>7. Above(path)[i] = path[i]
    BY <2>5, Parent DEF n
  <2>8. f[i] = Holder(places, In(f[i - 1], path[i]))
    BY <1>2, <2>4, <2>5 DEF Way
  <2>9. g[i] = Holder(places, In(g[i - 1], Above(path)[i]))
    BY <1>2, <2>3, <2>4 DEF Way
  <2> QED BY <2>3, <2>6, <2>7, <2>8, <2>9
<1>5. f[n] = Holder(places, In(f[n - 1], path[n]))
  BY <1>1, <1>2 DEF Way
<1>6. f[n - 1] = g[n - 1]
  BY <1>1, <1>4
<1> QED BY <1>1, <1>3, <1>5, <1>6

LEMMA WalkNowhere ==
  ASSUME NEW places PROVE Walk(places, <<>>) = Desk
<1> DEFINE f == CHOOSE reached : Way(reached, places, <<>>, 0)
<1>1. Way(f, places, <<>>, 0)
  <2>1. \E reached : Way(reached, places, <<>>, 0)
    BY WayExists
  <2> QED BY <2>1
<1>2. Walk(places, <<>>) = f[0]
  BY EmptySeq DEF Walk, Way
<1> HIDE DEF f
<1> QED BY <1>1, <1>2 DEF Way

-----------------------------------------------------------------------------
(***************************************************************************)
(* What is below a directory.                                              *)
(***************************************************************************)

\* The directories within one, by how far they are below it at most.
Levels(f, d, n) ==
  f = [i \in 0..n |->
         IF i = 0 THEN {d}
         ELSE f[i - 1] \cup {c \in Dirs : place[c] # None /\ place[c].up \in f[i - 1]}]

LEMMA LevelsExist ==
  ASSUME NEW d, NEW n \in Nat
  PROVE  \E f : Levels(f, d, n)
<1> DEFINE Bad == {m \in Nat : ~\E f : Levels(f, d, m)}
           More(S) == S \cup {c \in Dirs : place[c] # None /\ place[c].up \in S}
<1> SUFFICES ASSUME Bad # {} PROVE FALSE
  OBVIOUS
<1>1. PICK m \in Bad : \A k \in Bad : m <= k
  <2>1. Bad \subseteq Nat
    OBVIOUS
  <2> HIDE DEF Bad
  <2> QED BY <2>1, Least
<1>2. m \in Nat /\ ~\E f : Levels(f, d, m)
  BY <1>1
<1>3. CASE m = 0
  <2>1. Levels([i \in 0..0 |-> {d}], d, 0)
    BY DEF Levels
  <2> QED BY <1>2, <1>3, <2>1
<1>4. CASE m # 0
  <2>1. m - 1 \in Nat /\ m - 1 \notin Bad
    BY <1>1, <1>2, <1>4
  <2>2. PICK f : f = [i \in 0..m - 1 |-> IF i = 0 THEN {d} ELSE More(f[i - 1])]
    BY <2>1 DEF Levels
  <2> HIDE DEF More
  <2> DEFINE g == [i \in 0..m |-> IF i = m THEN More(f[m - 1]) ELSE f[i]]
  <2>3. \A i \in 0..m : g[i] = IF i = 0 THEN {d} ELSE More(g[i - 1])
    <3> SUFFICES ASSUME NEW i \in 0..m
                 PROVE  g[i] = IF i = 0 THEN {d} ELSE More(g[i - 1])
      OBVIOUS
    <3>1. CASE i = 0
      BY <1>2, <1>4, <2>2, <3>1
    <3>2. CASE i # 0 /\ i # m
      <4>1. i \in 0..m - 1 /\ i - 1 \in 0..m - 1 /\ i - 1 \in 0..m /\ i - 1 # m
        BY <1>2, <3>2
      <4>2. f[i] = More(f[i - 1])
        BY <2>2, <3>2, <4>1
      <4>3. g[i] = f[i] /\ g[i - 1] = f[i - 1]
        BY <3>2, <4>1
      <4> QED BY <3>2, <4>2, <4>3
    <3>3. CASE i = m
      <4>1. m - 1 \in 0..m /\ m - 1 # m
        BY <1>2, <1>4
      <4>2. g[m - 1] = f[m - 1]
        BY <4>1
      <4> QED BY <1>4, <3>3, <4>2
    <3> QED BY <3>1, <3>2, <3>3
  <2>4. g = [i \in 0..m |-> IF i = 0 THEN {d} ELSE More(g[i - 1])]
    <3>1. g = [i \in 0..m |-> g[i]]
      OBVIOUS
    <3> HIDE DEF g
    <3> QED BY <2>3, <3>1
  <2>5. Levels(g, d, m)
    BY <2>4 DEF Levels, More
  <2> QED BY <1>2, <2>5
<1> QED BY <1>3, <1>4

\* The last of a chain of directories, each in the one before, is within the first.
LEMMA ChainWithin ==
  ASSUME IsFiniteSet(Dirs), NEW n \in Nat \ {0}, NEW chain \in [1..n -> Dirs],
         \A i, j \in 1..n : chain[i] = chain[j] => i = j,
         \A i \in 2..n : place[chain[i]] # None /\ place[chain[i]].up = chain[i - 1]
  PROVE  chain[n] \in Within(chain[1])
<1> DEFINE size == Cardinality(Dirs)
           f == CHOOSE g : Levels(g, chain[1], size)
<1>1. size \in Nat
  BY FS_CardinalityType
<1>2. n <= size
  <2>1. chain \in Injection(1..n, Dirs)
    BY DEF Injection, IsInjective
  <2>2. Cardinality(1..n) <= size
    BY <2>1, FS_Injection
  <2>3. Cardinality(1..n) = n
    BY FS_Interval
  <2> QED BY <2>2, <2>3
<1>3. Levels(f, chain[1], size)
  <2>1. \E g : Levels(g, chain[1], size)
    BY <1>1, LevelsExist
  <2> QED BY <2>1
<1>4. Within(chain[1]) = f[size]
  BY DEF Within, Levels
<1> HIDE DEF f, size
<1>5. /\ chain[1] \in f[0]
      /\ \A i \in 1..size : /\ f[i - 1] \subseteq f[i]
                           /\ \A c \in Dirs : place[c] # None /\ place[c].up \in f[i - 1] => c \in f[i]
  <2>1. f[0] = {chain[1]}
    BY <1>1, <1>3 DEF Levels
  <2>2. ASSUME NEW i \in 1..size
        PROVE  f[i] = f[i - 1] \cup {c \in Dirs : place[c] # None /\ place[c].up \in f[i - 1]}
    BY <1>1, <1>3 DEF Levels
  <2> QED BY <2>1, <2>2
<1>6. \A i \in 0..size : chain[IF i < n THEN i + 1 ELSE n] \in f[i]
  <2> DEFINE at(i) == chain[IF i < n THEN i + 1 ELSE n]
             Bad == {i \in 0..size : at(i) \notin f[i]}
  <2> SUFFICES ASSUME Bad # {} PROVE FALSE
    OBVIOUS
  <2>1. Bad \subseteq Nat
    BY <1>1
  <2>2. PICK i \in Bad : \A k \in Bad : i <= k
    <3> HIDE DEF Bad
    <3> QED BY <2>1, Least
  <2>3. i \in 0..size /\ at(i) \notin f[i]
    BY <2>2
  <2>4. i # 0
    BY <1>5, <2>3
  <2>5. i - 1 \in 0..size /\ i \in 1..size
    BY <1>1, <2>3, <2>4
  <2>6. at(i - 1) \in f[i - 1]
    BY <2>2, <2>5
  <2>7. CASE i < n
    <3>1. at(i) = chain[i + 1] /\ at(i - 1) = chain[i] /\ i + 1 \in 2..n /\ i + 1 \in 1..n
      BY <2>4, <2>5, <2>7
    <3>2. place[chain[i + 1]] # None /\ place[chain[i + 1]].up = chain[i]
      BY <3>1
    <3> QED BY <1>5, <2>3, <2>5, <2>6, <3>1, <3>2
  <2>8. CASE ~(i < n)
    <3>1. at(i - 1) = chain[n] /\ at(i) = chain[n]
      BY <2>5, <2>8
    <3> QED BY <1>5, <2>3, <2>5, <2>6, <3>1
  <2> QED BY <2>7, <2>8
<1>7. chain[n] \in f[size]
  BY <1>1, <1>2, <1>6
<1> QED BY <1>4, <1>7

-----------------------------------------------------------------------------
(***************************************************************************)
(* Places and paths of the model.                                          *)
(***************************************************************************)

LEMMA HolderType ==
  ASSUME PathsAssumption, NEW places, NEW here
  PROVE  /\ Holder(places, here) \in Dirs \cup {None}
         /\ Holder(places, here) # None => places[Holder(places, here)] = here
         /\ \A d \in Dirs : places[d] = here => Holder(places, here) # None
<1>1. CASE \E c \in Dirs : places[c] = here
  BY <1>1 DEF Holder, PathsAssumption
<1>2. CASE ~\E c \in Dirs : places[c] = here
  BY <1>2 DEF Holder, PathsAssumption
<1> QED BY <1>1, <1>2

\* Every path of the model begins with the root's.
LEMMA PathsAre ==
  ASSUME PathsAssumption, NEW path \in Paths
  PROVE  /\ path \in Seq(STRING) /\ path # <<>> /\ Last(path) \in STRING /\ Len(path) \in Nat
         /\ path = Root => Len(path) = 1 /\ Above(path) = <<>>
         /\ path # Root => /\ Above(path) \in Paths /\ Len(Above(path)) = Len(path) - 1
                          /\ Below(Above(path), path) /\ Above(path) # path /\ Len(path) > 1
<1>1. path \in Seq(STRING) /\ Root \in Seq(STRING) /\ Len(Root) = 1
  BY DEF PathsAssumption
<1>2. path # Root => Below(Root, path) /\ Above(path) \in Paths
  BY DEF PathsAssumption
<1>3. path # Root => Len(path) > 1
  BY <1>1, <1>2, BelowDef
<1>4. path # <<>>
  <2>1. Len(path) # 0
    BY <1>1, <1>3
  <2> QED BY <2>1, EmptySeq
<1>5. /\ Len(path) \in Nat \ {0} /\ Above(path) \in Seq(STRING)
      /\ Len(Above(path)) = Len(path) - 1 /\ Last(path) \in STRING
      /\ \A i \in 1..Len(path) - 1 : Above(path)[i] = path[i]
  BY <1>1, <1>4, Parent
<1>6. path = Root => Above(path) = <<>>
  <2>1. Above(path) # <<>> => Len(Above(path)) # 0
    BY <1>5, EmptySeq
  <2> QED BY <1>1, <1>5, <2>1
<1>7. Below(Above(path), path)
  <2>1. Below(Above(path), path) <=>
          Len(Above(path)) < Len(path) /\ \A i \in 1..Len(Above(path)) : Above(path)[i] = path[i]
    BY <1>1, <1>5, BelowDef
  <2> QED BY <1>5, <2>1
<1>8. Above(path) # path
  BY <1>5
<1> QED BY <1>1, <1>2, <1>3, <1>4, <1>5, <1>6, <1>7, <1>8

\* What is below a path is the path's own child, or below it with its parent.
LEMMA BelowParent ==
  ASSUME NEW p \in Seq(STRING), NEW q \in Seq(STRING), q # <<>>
  PROVE  Below(p, q) <=> Above(q) = p \/ Below(p, Above(q))
<1>1. /\ Len(q) \in Nat \ {0} /\ Above(q) \in Seq(STRING)
      /\ Len(Above(q)) = Len(q) - 1 /\ \A i \in 1..Len(q) - 1 : Above(q)[i] = q[i]
  BY Parent
<1>2. Len(p) \in Nat
  OBVIOUS
<1>3. Above(q) = p <=> Len(p) = Len(q) - 1 /\ \A i \in 1..Len(p) : p[i] = Above(q)[i]
  BY <1>1, SeqEqual
<1>4. Below(p, q) <=> Len(p) < Len(q) /\ \A i \in 1..Len(p) : p[i] = q[i]
  BY BelowDef
<1>5. Below(p, Above(q)) <=> Len(p) < Len(Above(q)) /\ \A i \in 1..Len(p) : p[i] = Above(q)[i]
  BY <1>1, BelowDef
<1>6. Len(p) < Len(q) => \A i \in 1..Len(p) : Above(q)[i] = q[i]
  BY <1>1, <1>2
<1>7. Len(p) < Len(q) <=> Len(p) = Len(q) - 1 \/ Len(p) < Len(q) - 1
  BY <1>1, <1>2
<1> HIDE DEF Above, Below
<1> QED BY <1>1, <1>3, <1>4, <1>5, <1>6, <1>7

LEMMA AtStep ==
  ASSUME PathsAssumption, NEW path \in Paths
  PROVE  /\ path = Root => At(path) = Holder(place, In(Desk, Last(path)))
         /\ path # Root => At(path) = Holder(place, In(At(Above(path)), Last(path)))
<1>1. At(path) = Holder(place, In(Walk(place, Above(path)), Last(path)))
  BY PathsAre, WalkStep DEF At
<1> QED BY <1>1, PathsAre, WalkNowhere DEF At

\* What a path below a promoted directory becomes is below the directory's new path.
LEMMA ReplacedIs ==
  ASSUME NEW p \in Seq(STRING), NEW from \in Seq(STRING), NEW to \in Seq(STRING),
         Below(from, p)
  PROVE  /\ Below(to, Replaced(p, from, to))
         /\ Above(p) = from => Above(Replaced(p, from, to)) = to
         /\ Above(p) # from => /\ Below(from, Above(p))
                              /\ Above(Replaced(p, from, to)) = Replaced(Above(p), from, to)
<1> DEFINE moved(q) == Replaced(q, from, to)
<1>1. /\ Len(p) \in Nat /\ Len(from) \in Nat /\ Len(to) \in Nat /\ Len(from) < Len(p)
      /\ p # <<>>
  <2>1. Len(from) < Len(p)
    BY BelowDef
  <2> QED BY <2>1, EmptySeq
<1>2. ASSUME NEW q \in Seq(STRING), Len(from) <= Len(q)
      PROVE  /\ moved(q) \in Seq(STRING) /\ Len(moved(q)) = Len(to) + Len(q) - Len(from)
             /\ \A i \in 1..Len(moved(q)) :
                  moved(q)[i] = IF i <= Len(to) THEN to[i] ELSE q[i - Len(to) + Len(from)]
  <2> DEFINE rest == SubSeq(q, Len(from) + 1, Len(q))
  <2>1. Len(q) \in Nat
    OBVIOUS
  <2>2. /\ rest \in Seq(STRING) /\ Len(rest) = Len(q) - Len(from)
        /\ \A i \in 1..Len(rest) : rest[i] = q[i + Len(from)]
    BY <1>1, <1>2, <2>1
  <2>3. moved(q) = to \o rest
    BY DEF Replaced
  <2> HIDE DEF rest, moved
  <2>4. /\ moved(q) \in Seq(STRING) /\ Len(moved(q)) = Len(to) + Len(rest)
        /\ \A i \in 1..Len(moved(q)) : moved(q)[i] = IF i <= Len(to) THEN to[i] ELSE rest[i - Len(to)]
    <3>1. /\ Len(to \o rest) = Len(to) + Len(rest) /\ to \o rest \in Seq(STRING)
          /\ \A i \in 1..Len(to) + Len(rest) :
               (to \o rest)[i] = IF i <= Len(to) THEN to[i] ELSE rest[i - Len(to)]
      <4>1. rest \in Seq(STRING) /\ to \in Seq(STRING)
        BY <2>2
      <4> QED BY <4>1
    <3> QED BY <2>3, <3>1
  <2>5. ASSUME NEW i \in 1..Len(moved(q)), ~(i <= Len(to))
        PROVE  rest[i - Len(to)] = q[i - Len(to) + Len(from)]
    <3>1. i - Len(to) \in 1..Len(rest)
      BY <1>1, <2>1, <2>2, <2>4, <2>5
    <3> QED BY <2>2, <3>1
  <2> QED BY <1>1, <2>1, <2>2, <2>4, <2>5
<1>3. /\ Above(p) \in Seq(STRING) /\ Len(Above(p)) = Len(p) - 1
      /\ \A i \in 1..Len(p) - 1 : Above(p)[i] = p[i]
  BY <1>1, Parent
<1>4. /\ moved(p) \in Seq(STRING) /\ Len(moved(p)) = Len(to) + Len(p) - Len(from)
      /\ \A i \in 1..Len(moved(p)) :
           moved(p)[i] = IF i <= Len(to) THEN to[i] ELSE p[i - Len(to) + Len(from)]
  BY <1>1, <1>2
<1>5. moved(p) # <<>> /\ Above(moved(p)) \in Seq(STRING) /\ Len(Above(moved(p))) = Len(moved(p)) - 1
      /\ \A i \in 1..Len(moved(p)) - 1 : Above(moved(p))[i] = moved(p)[i]
  <2>1. Len(moved(p)) # 0
    BY <1>1, <1>4
  <2>2. moved(p) # <<>>
    BY <2>1, EmptySeq
  <2> QED BY <1>4, <2>2, Parent
<1> HIDE DEF moved
<1>6. Below(to, moved(p))
  <2>1. Len(to) < Len(moved(p))
    BY <1>1, <1>4
  <2>2. ASSUME NEW i \in 1..Len(to) PROVE to[i] = moved(p)[i]
    <3>1. i \in 1..Len(moved(p)) /\ i <= Len(to)
      BY <1>1, <1>4, <2>1
    <3> QED BY <1>4, <3>1
  <2> QED BY <1>4, <2>1, <2>2, BelowDef
<1>7. ASSUME Above(p) = from PROVE Above(moved(p)) = to
  <2>1. Len(Above(moved(p))) = Len(to)
    <3>1. Len(from) = Len(p) - 1
      BY <1>3, <1>7
    <3>2. Len(moved(p)) = Len(to) + 1
      BY <1>1, <1>4, <3>1
    <3> QED BY <1>1, <1>5, <3>2
  <2>2. \A i \in 1..Len(to) : Above(moved(p))[i] = to[i]
    BY SMTT(30), <1>1, <1>4, <1>5, <2>1
  <2> QED BY <1>5, <2>1, <2>2, SeqEqual
<1>8. ASSUME Above(p) # from
      PROVE  Below(from, Above(p)) /\ Above(moved(p)) = moved(Above(p))
  <2>1. Below(from, Above(p))
    BY <1>1, <1>8, BelowParent
  <2>2. Len(from) < Len(Above(p))
    BY <1>3, <2>1, BelowDef
  <2>3. /\ moved(Above(p)) \in Seq(STRING)
        /\ Len(moved(Above(p))) = Len(to) + Len(Above(p)) - Len(from)
        /\ \A i \in 1..Len(moved(Above(p))) :
             moved(Above(p))[i] = IF i <= Len(to) THEN to[i] ELSE Above(p)[i - Len(to) + Len(from)]
    <3>1. Len(from) <= Len(Above(p))
      BY <1>1, <1>3, <2>2
    <3> QED BY <1>2, <1>3, <3>1
  <2>4. Len(Above(moved(p))) = Len(moved(Above(p)))
    BY <1>1, <1>3, <1>4, <1>5, <2>3
  <2>5. ASSUME NEW i \in 1..Len(Above(moved(p)))
        PROVE  Above(moved(p))[i] = moved(Above(p))[i]
    <3>1. i \in 1..Len(moved(p)) /\ i \in 1..Len(moved(p)) - 1 /\ i \in 1..Len(moved(Above(p)))
      BY <1>1, <1>4, <1>5, <2>4
    <3>2. ~(i <= Len(to)) => i - Len(to) + Len(from) \in 1..Len(p) - 1
      BY <1>1, <1>3, <1>4, <1>5
    <3> QED BY <1>3, <1>4, <1>5, <2>3, <3>1, <3>2
  <2> QED BY <1>5, <2>1, <2>3, <2>4, <2>5, SeqEqual
<1> QED BY <1>6, <1>7, <1>8 DEF moved

LEMMA ReplacedItself ==
  ASSUME NEW from \in Seq(STRING), NEW to \in Seq(STRING)
  PROVE  Replaced(from, from, to) = to
<1>1. SubSeq(from, Len(from) + 1, Len(from)) = <<>>
  BY SubSeqEmpty
<1> QED BY <1>1, ConcatEmptySeq DEF Replaced

\* An identity that is not in use.
LEMMA NewIs ==
  ASSUME Unused # {}
  PROVE  New \in Dirs /\ place[New] = None /\ \A w \in written : w.dir # New
BY DEF New, Unused

\* Others leave an identity for the recovery.
LEMMA MakeLeavesOne ==
  ASSUME NEW up, NEW name, Make(up, name)
  PROVE  Unused # {}
<1>1. Cardinality({}) = 0
  BY FS_EmptySet
<1>2. Cardinality(Unused) > 1
  BY DEF Make
<1>3. ~(0 > 1)
  OBVIOUS
<1> QED BY <1>1, <1>2, <1>3

-----------------------------------------------------------------------------
(***************************************************************************)
(* The inductive invariant.                                                *)
(***************************************************************************)

\* No two directories are at the same place, and one that is about to be deleted has its own.
Apart ==
  /\ \A c, d \in Dirs : place[c] # None /\ place[c] = place[d] => c = d
  /\ \A d \in pending : place[d] # None

\* A retained directory exists, and is retained once.
Held ==
  /\ \A path \in Paths : IsRetained(path) => Exists(bound[path])
  /\ \A p, q \in Paths : IsRetained(p) /\ bound[p] = bound[q] => p = q

\* The directories a deletion is in: each is in the one before.
Chain ==
  /\ stack # <<>> => doing.call = "delete"
  /\ \A i \in DOMAIN stack :
       /\ Exists(stack[i].dir)
       /\ \A path \in Paths : bound[path] # stack[i].dir
       /\ i > 1 => place[stack[i].dir].up = stack[i - 1].dir
       /\ \A j \in DOMAIN stack : stack[j].dir = stack[i].dir => j = i

\* What is in progress, by how far the recovery is.
Progress ==
  /\ status = "new" => /\ doing.call \in {"none", "retain"} /\ written = {}
                       /\ doing.call = "none" => \A path \in Paths : ~IsRetained(path)
  /\ status = "open" => doing.call # "retain"
  /\ status = "failing" => doing.call \in {"none", "delete"}
  /\ Ended => doing = Rest /\ \A path \in Paths : ~IsRetained(path)

\* The handles that were closed for a promotion, from the top downwards.
ClosedBelow(base) ==
  \A c \in doing.closed :
    /\ Below(base, c.path)
    /\ IsRetained(Above(c.path)) \/ \E other \in doing.closed : other.path = Above(c.path)

Promoting ==
  /\ doing.call \in {"rename", "rebind"} =>
       /\ doing.from # Root /\ IsRetained(doing.from) /\ Above(doing.to) = Above(doing.from)
       /\ \A path \in Paths : Below(doing.from, path) =>
            ~IsRetained(path) /\ Replaced(path, doing.from, doing.to) \in Paths
       /\ ClosedBelow(doing.from)
  /\ doing.call = "rebind" =>
       /\ place[bound[doing.from]] = In(bound[Above(doing.to)], Last(doing.to))
       /\ ~IsRetained(doing.to) /\ IsRetained(Above(doing.to))
  /\ doing.call = "resume" => IsRetained(doing.base) /\ ClosedBelow(doing.base)

\* What is written stays retained, or is about to be retained again.
Kept ==
  status = "open" =>
    \A w \in written : Exists(w.dir) =>
      \/ bound[w.path] = w.dir
      \/ doing.call \in {"rename", "rebind", "resume"} /\ w \in doing.closed

IInv == /\ TypeOK /\ Apart /\ Held /\ Chain /\ Progress /\ Promoting /\ RetainedInPlace /\ Kept
        /\ WrittenIsReachable

-----------------------------------------------------------------------------
(***************************************************************************)
(* Types.                                                                  *)
(***************************************************************************)

\* What is known of the call in progress, by its kind.
LEMMA DoingIs ==
  ASSUME TypeOK
  PROVE  /\ doing.call = "retain" =>
              doing \in [call : {"retain"}, queue : SUBSET Paths, listed : SUBSET Bindings]
         /\ doing.call = "create" => doing \in [call : {"create"}, missing : SUBSET Paths]
         /\ doing.call \in {"repair", "hold", "delete"} =>
              doing \in [call : {"repair", "hold", "delete"}, path : Paths]
         /\ doing.call \in {"rename", "rebind"} =>
              doing \in [call : {"rename", "rebind"}, from : Paths, to : Paths, closed : SUBSET Bindings]
         /\ doing.call = "resume" =>
              doing \in [call : {"resume"}, base : Paths, closed : SUBSET Bindings, failed : BOOLEAN]
  BY DEF TypeOK, Doings, Rest

LEMMA AtType ==
  ASSUME PathsAssumption, NEW path \in Paths
  PROVE  At(path) \in Dirs \cup {None}
  BY AtStep, HolderType

\* The call that begins, and its arguments.
LEMMA CallIs ==
  ASSUME TypeOK, NEW call, Calls(call)
  PROVE  /\ Head(calls) \in Requests /\ Head(calls).path \in Paths /\ Head(calls).to \in Paths
         /\ Head(calls).call = call /\ calls' \in Seq(Requests)
         /\ doing = Rest /\ status = "open"
<1>1. calls \in Seq(Requests) /\ calls # <<>> /\ calls' = Tail(calls) /\ Head(calls).call = call
      /\ doing = Rest /\ status = "open"
  BY DEF TypeOK, Calls
<1>2. Head(calls) \in Requests /\ calls' \in Seq(Requests)
  <2> HIDE DEF Requests
  <2> QED BY <1>1
<1> QED BY <1>1, <1>2 DEF Requests

LEMMA FailsType == TypeOK /\ Fails => /\ doing' \in Doings /\ status' = "failing"
                                     /\ stack' \in Seq([dir : Dirs, todo : SUBSET [dir : Dirs, name : STRING]])
  BY DEF Fails, Doings

\* What a directory's entries are, when it is listed.
LEMMA LevelType ==
  ASSUME TypeOK, NEW d \in Dirs
  PROVE  Level(d) \in [dir : Dirs, todo : SUBSET [dir : Dirs, name : STRING]]
<1>1. Entries(d) \subseteq [dir : Dirs, name : STRING]
  BY DEF Entries, TypeOK
<1> QED BY <1>1 DEF Level

\* The last element of a sequence, and what is before it.
LEMMA FrontLast ==
  ASSUME NEW S, NEW s \in Seq(S), s # <<>>
  PROVE  /\ Last(s) \in S /\ Front(s) \in Seq(S) /\ Len(s) \in Nat \ {0} /\ Last(s) = s[Len(s)]
         /\ Len(Front(s)) = Len(s) - 1 /\ \A i \in 1..Len(s) - 1 : Front(s)[i] = s[i]
<1>1. Len(s) \in Nat \ {0}
  BY EmptySeq
<1>2. \A i \in 1..Len(s) : s[i] \in S
  OBVIOUS
<1>3. Front(s) = [i \in 1..Len(s) - 1 |-> s[i]]
  BY DEF Front
<1>4. Front(s) \in Seq(S) /\ Len(Front(s)) = Len(s) - 1
  <2>1. Len(s) - 1 \in Nat
    BY <1>1
  <2>2. Front(s) \in [1..Len(s) - 1 -> S]
    BY <1>1, <1>2, <1>3
  <2> QED BY <2>1, <2>2
<1>5. Last(s) = s[Len(s)] /\ s[Len(s)] \in S
  BY <1>1, <1>2 DEF Last
<1> QED BY <1>1, <1>3, <1>4, <1>5

LEMMA StackType ==
  ASSUME TypeOK
  PROVE  /\ stack \in Seq([dir : Dirs, todo : SUBSET [dir : Dirs, name : STRING]])
         /\ DOMAIN stack = 1..Len(stack) /\ Len(stack) \in Nat
         /\ \A i \in DOMAIN stack : stack[i].dir \in Dirs
<1> DEFINE Listed == [dir : Dirs, todo : SUBSET [dir : Dirs, name : STRING]]
<1>1. stack \in Seq(Listed)
  BY DEF TypeOK
<1>2. \A e \in Listed : e.dir \in Dirs
  OBVIOUS
<1> HIDE DEF Listed
<1>3. DOMAIN stack = 1..Len(stack) /\ Len(stack) \in Nat /\ \A i \in DOMAIN stack : stack[i] \in Listed
  BY <1>1
<1> QED BY <1>1, <1>2, <1>3 DEF Listed

LEMMA DeletedType ==
  ASSUME TypeOK, NEW d \in Dirs, Deleted(d)
  PROVE  /\ place' \in [Dirs -> [up : Dirs \cup {Desk}, name : STRING] \cup {None}]
         /\ pending' \subseteq Dirs
  BY DEF Deleted, TypeOK

LEMMA InitType == Init => TypeOK
<1> SUFFICES ASSUME Init PROVE TypeOK
  OBVIOUS
<1> USE PathsAssumption
<1>1. place \in [Dirs -> [up : Dirs \cup {Desk}, name : STRING] \cup {None}] /\ private \subseteq Dirs
  BY DEF Init, PathsAssumption
<1>2. fresh \in BOOLEAN /\ calls \in Seq(Requests)
  BY DEF Init, PathsAssumption
<1>3. meddled \in 0..MaxMeddling
  BY DEF Init, PathsAssumption
<1>4. doing \in Doings /\ stack \in Seq([dir : Dirs, todo : SUBSET [dir : Dirs, name : STRING]])
  BY DEF Init, Doings
<1> QED BY <1>1, <1>2, <1>3, <1>4 DEF Init, TypeOK

\* One step keeps the types.  (A promoted directory's new paths are paths of the model.)
LEMMA TypeStep == TypeOK /\ Promoting /\ [Next]_retainedVars => TypeOK'
<1> SUFFICES ASSUME TypeOK, Promoting, [Next]_retainedVars PROVE TypeOK'
  OBVIOUS
<1> USE PathsAssumption DEF filesystem, ours
<1>1. CASE CreateRoot
  <2>1. CASE status' = "failed" /\ UNCHANGED <<filesystem, bound>>
    BY <1>1, <2>1 DEF CreateRoot, TypeOK
  <2>2. CASE /\ place' = [place EXCEPT ![New] = In(Desk, Last(Root))]
             /\ private' = private \cup {New} /\ Retain(Root, New) /\ status' = "open"
             /\ UNCHANGED pending
    <3>1. New \in Dirs /\ In(Desk, Last(Root)) \in [up : Dirs \cup {Desk}, name : STRING]
      BY <1>1, NewIs, PathsAre DEF CreateRoot, PathsAssumption, In
    <3> QED BY <1>1, <2>2, <3>1 DEF CreateRoot, TypeOK, Retain
  <2> QED BY <1>1, <2>1, <2>2 DEF CreateRoot
<1>2. CASE FindRoot
  <2>1. At(Root) # None => [call |-> "retain", queue |-> {}, listed |-> {[path |-> Root, dir |-> At(Root)]}] \in Doings
    BY AtType DEF PathsAssumption, Doings, Bindings
  <2> QED BY <1>2, <2>1 DEF FindRoot, TypeOK
<1>3. CASE RetainListed
  <2>1. PICK entry \in doing.listed :
          \/ /\ Retain(entry.path, At(entry.path)) /\ At(entry.path) = entry.dir
             /\ doing' = [doing EXCEPT !.listed = @ \ {entry}, !.queue = @ \cup {entry.path}]
             /\ UNCHANGED <<stack, status>>
          \/ Fails /\ UNCHANGED bound
    BY <1>3 DEF RetainListed
  <2>2. doing \in [call : {"retain"}, queue : SUBSET Paths, listed : SUBSET Bindings]
    BY <1>3, DoingIs DEF RetainListed
  <2>3. entry.path \in Paths /\ entry.dir \in Dirs
    BY <2>2 DEF Bindings
  <2>4. [doing EXCEPT !.listed = @ \ {entry}, !.queue = @ \cup {entry.path}] \in Doings
    BY <2>2, <2>3 DEF Doings
  <2> QED BY <1>3, <2>1, <2>3, <2>4, FailsType DEF RetainListed, TypeOK, Retain
<1>4. CASE ListNext
  <2>1. doing \in [call : {"retain"}, queue : SUBSET Paths, listed : SUBSET Bindings]
    BY <1>4, DoingIs DEF ListNext
  <2>2. doing' \in Doings
    <3>1. CASE doing.queue = {}
      BY <1>4, <3>1 DEF ListNext, Doings
    <3>2. CASE doing.queue # {}
      <4>1. PICK path \in doing.queue :
              doing' = [doing EXCEPT !.queue = @ \ {path},
                         !.listed = {entry \in [path : Paths, dir : Dirs] :
                                       /\ entry.path # Root /\ Above(entry.path) = path
                                       /\ place[entry.dir] = In(bound[path], Last(entry.path))}]
        BY <1>4, <3>2 DEF ListNext
      <4> DEFINE found == {entry \in [path : Paths, dir : Dirs] :
                             /\ entry.path # Root /\ Above(entry.path) = path
                             /\ place[entry.dir] = In(bound[path], Last(entry.path))}
      <4>2. found \subseteq Bindings
        BY DEF Bindings
      <4> HIDE DEF found
      <4>3. [doing EXCEPT !.queue = @ \ {path}, !.listed = found] \in Doings
        BY <2>1, <4>2 DEF Doings
      <4> QED BY <4>1, <4>3 DEF found
    <3> QED BY <3>1, <3>2
  <2> QED BY <1>4, <2>2 DEF ListNext, TypeOK
<1>5. CASE Secure
  <2>1. doing' \in Doings
    BY <1>5, CallIs DEF Secure, Doings
  <2> QED BY <1>5, <2>1, CallIs DEF Secure, TypeOK
<1>6. CASE CreateMissing
  <2>1. PICK path \in doing.missing :
          \/ Fails /\ UNCHANGED <<filesystem, bound>>
          \/ /\ path # Root /\ IsRetained(Above(path))
             /\ place' = [place EXCEPT ![New] = In(bound[Above(path)], Last(path))]
             /\ private' = private \cup {New} /\ Retain(path, New)
             /\ doing' = IF doing.missing = {path} THEN Rest
                         ELSE [doing EXCEPT !.missing = @ \ {path}]
             /\ UNCHANGED <<pending, stack, status>>
    BY <1>6 DEF CreateMissing
  <2>2. doing \in [call : {"create"}, missing : SUBSET Paths]
    BY <1>6, DoingIs DEF CreateMissing
  <2>3. CASE Fails /\ UNCHANGED <<filesystem, bound>>
    BY <1>6, <2>3, FailsType DEF CreateMissing, TypeOK
  <2>4. CASE ~(Fails /\ UNCHANGED <<filesystem, bound>>)
    <3>1. New \in Dirs /\ path \in Paths
      BY <1>6, <2>2, NewIs DEF CreateMissing
    <3>2. In(bound[Above(path)], Last(path)) \in [up : Dirs \cup {Desk}, name : STRING]
      <4>1. Above(path) \in Paths /\ Last(path) \in STRING
        BY <2>1, <2>4, <3>1, PathsAre
      <4>2. bound[Above(path)] \in Dirs
        BY <2>1, <2>4, <4>1 DEF TypeOK, IsRetained
      <4> QED BY <4>1, <4>2 DEF In
    <3>3. doing' \in Doings
      <4>1. [doing EXCEPT !.missing = @ \ {path}] \in Doings
        BY <2>2 DEF Doings
      <4> QED BY <2>1, <2>4, <4>1 DEF Doings
    <3>4. bound' \in [Paths -> Dirs \cup {None}]
      BY ZenonT(30), <2>1, <2>4, <3>1 DEF TypeOK, Retain
    <3>5. place' \in [Dirs -> [up : Dirs \cup {Desk}, name : STRING] \cup {None}]
      <4> DEFINE there == In(bound[Above(path)], Last(path))
                 Places == [up : Dirs \cup {Desk}, name : STRING] \cup {None}
      <4>1. place' = [place EXCEPT ![New] = there] /\ there \in Places
        BY <2>1, <2>4, <3>2
      <4>2. place \in [Dirs -> Places]
        BY DEF TypeOK
      <4> HIDE DEF there, Places
      <4>3. place' \in [Dirs -> Places]
        BY <4>1, <4>2
      <4> QED BY <4>3 DEF Places
    <3>6. private' \subseteq Dirs
      BY <2>1, <2>4, <3>1 DEF TypeOK
    <3> QED BY <1>6, <2>1, <2>4, <3>3, <3>4, <3>5, <3>6 DEF CreateMissing, TypeOK
  <2> QED BY <2>3, <2>4
<1>7. CASE Repair
  <2>1. doing \in [call : {"repair", "hold", "delete"}, path : Paths]
    BY <1>7, DoingIs DEF Repair
  <2>2. At(doing.path) \in Dirs \cup {None} /\ [call |-> "hold", path |-> doing.path] \in Doings
    BY <2>1, AtType DEF Doings
  <2>3. \/ /\ At(doing.path) # None /\ private' = private \cup {At(doing.path)}
           /\ doing' = [call |-> "hold", path |-> doing.path] /\ UNCHANGED <<stack, status>>
        \/ Fails /\ UNCHANGED private
    BY <1>7 DEF Repair
  <2> QED BY <1>7, <2>2, <2>3, FailsType DEF Repair, TypeOK
<1>8. CASE Hold
  <2>1. doing.path \in Paths
    BY <1>8, DoingIs DEF Hold
  <2>2. At(doing.path) \in Dirs \cup {None} /\ Rest \in Doings
    BY <2>1, AtType DEF Doings
  <2>3. \/ Retain(doing.path, At(doing.path)) /\ doing' = Rest /\ UNCHANGED <<stack, status>>
        \/ Fails /\ UNCHANGED bound
    BY <1>8 DEF Hold
  <2>4. bound' \in [Paths -> Dirs \cup {None}]
    BY <2>1, <2>2, <2>3 DEF TypeOK, Retain
  <2>5. doing' \in Doings /\ stack' \in Seq([dir : Dirs, todo : SUBSET [dir : Dirs, name : STRING]])
        /\ status' \in {status, "failing"}
    BY <2>2, <2>3, FailsType DEF TypeOK
  <2> QED BY <1>8, <2>4, <2>5 DEF Hold, TypeOK
<1>9. CASE Write
  <2>1. Head(calls).path \in Paths /\ calls' \in Seq(Requests)
    BY <1>9, CallIs DEF Write
  <2>2. At(Head(calls).path) \in Dirs \cup {None}
    BY <2>1, AtType
  <2>3. \/ /\ At(Head(calls).path) # None
           /\ written' = written \cup {[path |-> Head(calls).path, dir |-> At(Head(calls).path)]}
           /\ UNCHANGED <<doing, stack, status>>
        \/ Fails /\ UNCHANGED written
    BY <1>9 DEF Write
  <2>4. written' \subseteq Bindings
    BY <2>1, <2>2, <2>3 DEF TypeOK, Bindings
  <2> QED BY <1>9, <2>1, <2>3, <2>4, FailsType DEF Write, TypeOK
<1>10. CASE Promote
  <2>1. Head(calls).path \in Paths /\ Head(calls).to \in Paths /\ calls' \in Seq(Requests)
    BY <1>10, CallIs DEF Promote
  <2> DEFINE from == Head(calls).path
             closed == {[path |-> p, dir |-> bound[p]] : p \in Retained(from)}
  <2>2. closed \subseteq Bindings
    BY DEF Retained, IsRetained, Bindings, TypeOK
  <2>3. \/ /\ doing' = [call |-> "rename", from |-> from, to |-> Head(calls).to, closed |-> closed]
           /\ bound' = [p \in Paths |-> IF p \in Retained(from) THEN None ELSE bound[p]]
           /\ UNCHANGED <<stack, status>>
        \/ Fails /\ UNCHANGED bound
    BY <1>10 DEF Promote
  <2>4. [call |-> "rename", from |-> from, to |-> Head(calls).to, closed |-> closed] \in Doings
    BY <2>1, <2>2 DEF Doings
  <2>5. bound' \in [Paths -> Dirs \cup {None}]
    BY <2>3 DEF TypeOK
  <2> QED BY <1>10, <2>1, <2>3, <2>4, <2>5, FailsType DEF Promote, TypeOK
<1>11. CASE Rename
  <2>1. doing \in [call : {"rename", "rebind"}, from : Paths, to : Paths, closed : SUBSET Bindings]
    BY <1>11, DoingIs DEF Rename
  <2> DEFINE up == bound[Above(doing.to)]
  <2>2. CASE /\ Visible(Above(doing.to), up) /\ Renamable(bound[doing.from], up, Last(doing.to))
             /\ place' = [place EXCEPT ![bound[doing.from]] = In(up, Last(doing.to))]
             /\ doing' = [doing EXCEPT !.call = "rebind"]
    <3>1. up \in Dirs \cup {Desk} /\ Last(doing.to) \in STRING
      BY <2>1, <2>2, PathsAre DEF Renamable, Exists
    <3>2. In(up, Last(doing.to)) \in [up : Dirs \cup {Desk}, name : STRING]
      BY <3>1 DEF In
    <3>3. [doing EXCEPT !.call = "rebind"] \in Doings
      BY <2>1 DEF Doings
    <3> QED BY <1>11, <2>2, <3>2, <3>3 DEF Rename, TypeOK
  <2>3. CASE Resuming(doing.from, doing.closed, TRUE) /\ UNCHANGED place
    <3>1. doing' \in Doings
      BY <2>1, <2>3 DEF Resuming, Doings
    <3> QED BY <1>11, <2>3, <3>1 DEF Rename, TypeOK
  <2> QED BY <1>11, <2>2, <2>3 DEF Rename
<1>12. CASE Rebind
  <2>1. doing \in [call : {"rename", "rebind"}, from : Paths, to : Paths, closed : SUBSET Bindings]
    BY <1>12, DoingIs DEF Rebind
  <2>2. CASE Fails /\ UNCHANGED <<bound, written>>
    BY <1>12, <2>2, FailsType DEF Rebind, TypeOK
  <2>3. CASE ~(Fails /\ UNCHANGED <<bound, written>>)
    <3> DEFINE Moved(path) == Replaced(path, doing.from, doing.to)
    <3>1. /\ bound' = [bound EXCEPT ![doing.from] = None, ![doing.to] = bound[doing.from]]
          /\ Resuming(doing.to, {[path |-> Moved(c.path), dir |-> c.dir] : c \in doing.closed}, FALSE)
          /\ written' = {IF w.path = doing.from \/ Below(doing.from, w.path)
                         THEN [w EXCEPT !.path = Moved(@)] ELSE w : w \in written}
          /\ UNCHANGED <<stack, status>>
      BY <1>12, <2>3 DEF Rebind
    <3>2. Moved(doing.from) = doing.to
      BY <2>1, ReplacedItself, PathsAre
    <3>3. \A path \in Paths : Below(doing.from, path) => Moved(path) \in Paths
      BY <1>12 DEF Rebind, Promoting
    <3>4. \A c \in doing.closed : Moved(c.path) \in Paths /\ c.dir \in Dirs
      BY <1>12, <2>1, <3>3 DEF Rebind, Promoting, ClosedBelow, Bindings
    <3> HIDE DEF Moved
    <3>5. {[path |-> Moved(c.path), dir |-> c.dir] : c \in doing.closed} \subseteq Bindings
      BY <3>4 DEF Bindings
    <3>6. doing' \in Doings
      BY <2>1, <3>1, <3>5 DEF Resuming, Doings
    <3>7. written' \subseteq Bindings
      <4> SUFFICES ASSUME NEW w \in written
                   PROVE  (IF w.path = doing.from \/ Below(doing.from, w.path)
                           THEN [w EXCEPT !.path = Moved(@)] ELSE w) \in Bindings
        BY ZenonT(30), <3>1
      <4>1. w \in [path : Paths, dir : Dirs]
        BY DEF TypeOK, Bindings
      <4>2. w.path = doing.from \/ Below(doing.from, w.path) => Moved(w.path) \in Paths
        BY <2>1, <3>2, <3>3, <4>1
      <4> QED BY <4>1, <4>2 DEF Bindings
    <3>8. bound' \in [Paths -> Dirs \cup {None}]
      BY <2>1, <3>1 DEF TypeOK
    <3> QED BY <1>12, <3>1, <3>6, <3>7, <3>8 DEF Rebind, TypeOK
  <2> QED BY <2>2, <2>3
<1>13. CASE Resume
  <2>1. doing \in [call : {"resume"}, base : Paths, closed : SUBSET Bindings, failed : BOOLEAN]
    BY <1>13, DoingIs DEF Resume
  <2>2. PICK c \in doing.closed :
          \/ /\ At(c.path) # None /\ Retain(c.path, At(c.path))
             /\ doing' = [doing EXCEPT !.closed = @ \ {c}] /\ UNCHANGED <<stack, status>>
          \/ Fails /\ UNCHANGED bound
    BY <1>13 DEF Resume
  <2>3. c.path \in Paths /\ At(c.path) \in Dirs \cup {None} /\ [doing EXCEPT !.closed = @ \ {c}] \in Doings
    BY <2>1, AtType DEF Bindings, Doings
  <2>4. bound' \in [Paths -> Dirs \cup {None}]
    BY <2>2, <2>3 DEF TypeOK, Retain, Fails
  <2>5. doing' \in Doings /\ stack' \in Seq([dir : Dirs, todo : SUBSET [dir : Dirs, name : STRING]])
        /\ status' \in {status, "failing"}
    BY <2>2, <2>3, FailsType DEF TypeOK
  <2> QED BY <1>13, <2>4, <2>5 DEF Resume, TypeOK
<1>14. CASE Promoted
  BY <1>14, FailsType DEF Promoted, TypeOK, Doings

<1>15. CASE DeleteTree
  <2>1. PICK path \in Temporary :
          \/ Fails /\ UNCHANGED <<bound, written>>
          \/ /\ ~CleanedUp(path)
             /\ bound' = [p \in Paths |-> IF p \in Retained(path) \cup {path} THEN None ELSE bound[p]]
             /\ stack' = <<Level(bound[path])>>
             /\ doing' = [call |-> "delete", path |-> path]
             /\ written' = {w \in written : w.path # path /\ ~Below(path, w.path)}
             /\ UNCHANGED status
    BY <1>15 DEF DeleteTree
  <2>2. path \in Paths
    BY DEF PathsAssumption
  <2>3. calls' \in Seq(Requests)
    <3>1. UNCHANGED calls \/ Calls("delete")
      BY <1>15 DEF DeleteTree
    <3> QED BY <3>1, CallIs DEF TypeOK
  <2>4. CASE Fails /\ UNCHANGED <<bound, written>>
    BY <1>15, <2>3, <2>4, FailsType DEF DeleteTree, TypeOK
  <2>5. CASE ~(Fails /\ UNCHANGED <<bound, written>>)
    <3>1. bound[path] \in Dirs
      BY <2>1, <2>2, <2>5 DEF CleanedUp, IsRetained, TypeOK
    <3>2. stack' \in Seq([dir : Dirs, todo : SUBSET [dir : Dirs, name : STRING]])
      <4> DEFINE Listed == [dir : Dirs, todo : SUBSET [dir : Dirs, name : STRING]]
      <4>1. Level(bound[path]) \in Listed
        BY <3>1, LevelType
      <4> HIDE DEF Listed
      <4>2. <<Level(bound[path])>> \in Seq(Listed)
        BY <4>1
      <4> QED BY <2>1, <2>5, <4>2 DEF Listed
    <3>3. doing' \in Doings
      BY <2>1, <2>2, <2>5 DEF Doings
    <3>4. bound' \in [Paths -> Dirs \cup {None}] /\ written' \subseteq Bindings
      BY <2>1, <2>5 DEF TypeOK
    <3> QED BY <1>15, <2>1, <2>3, <2>5, <3>2, <3>3, <3>4 DEF DeleteTree, TypeOK
  <2> QED BY <2>4, <2>5
<1>16. CASE DeleteEntry
  <2> DEFINE Listed == [dir : Dirs, todo : SUBSET [dir : Dirs, name : STRING]]
             top == Last(stack)
  <2>1. PICK entry \in top.todo :
          \/ /\ stack' = Append(Front(stack), [top EXCEPT !.todo = @ \ {entry}]) \o <<Level(entry.dir)>>
             /\ UNCHANGED <<doing, status>>
          \/ Fails
    BY <1>16 DEF DeleteEntry
  <2>2. stack \in Seq(Listed) /\ stack # <<>>
    BY <1>16 DEF DeleteEntry, TypeOK
  <2>3. top \in Listed /\ Front(stack) \in Seq(Listed)
    BY <2>2, FrontLast
  <2>4. entry.dir \in Dirs /\ [top EXCEPT !.todo = @ \ {entry}] \in Listed
    BY <2>3
  <2>5. Level(entry.dir) \in Listed
    BY <2>4, LevelType
  <2> HIDE DEF Listed, top
  <2>6. Append(Front(stack), [top EXCEPT !.todo = @ \ {entry}]) \in Seq(Listed)
    BY <2>3, <2>4
  <2>7. Append(Front(stack), [top EXCEPT !.todo = @ \ {entry}]) \o <<Level(entry.dir)>> \in Seq(Listed)
    BY <2>5, <2>6
  <2>8. stack' \in Seq(Listed) /\ doing' \in Doings /\ status' \in {status, "failing"}
    BY <2>1, <2>7, FailsType DEF Listed, TypeOK
  <2> QED BY <1>16, <2>8 DEF DeleteEntry, TypeOK, Listed
<1>17. CASE DeleteEmptied
  <2> DEFINE Listed == [dir : Dirs, todo : SUBSET [dir : Dirs, name : STRING]]
             d == Last(stack).dir
  <2>1. \/ Deleted(d) /\ stack' = Front(stack) /\ UNCHANGED <<doing, status>>
        \/ Fails /\ UNCHANGED <<place, pending>>
    BY <1>17 DEF DeleteEmptied
  <2>2. Last(stack) \in Listed /\ Front(stack) \in Seq(Listed)
    BY <1>17, FrontLast DEF DeleteEmptied, TypeOK
  <2>3. d \in Dirs
    BY <2>2
  <2>4. Deleted(d) => /\ place' \in [Dirs -> [up : Dirs \cup {Desk}, name : STRING] \cup {None}]
                      /\ pending' \subseteq Dirs
    BY <2>3, DeletedType
  <2> QED BY <1>17, <2>1, <2>2, <2>4, FailsType DEF DeleteEmptied, TypeOK
<1>18. CASE TreeDeleted
  BY <1>18, FailsType DEF TreeDeleted, TypeOK, Doings
<1>19. CASE RemoveEmpty
  <2> DEFINE path == Head(calls).path
             d == bound[path]
  <2>1. path \in Paths /\ calls' \in Seq(Requests)
    BY <1>19, CallIs DEF RemoveEmpty
  <2>2. CASE Fails /\ UNCHANGED <<place, pending, bound>>
    BY <1>19, <2>1, <2>2, FailsType DEF RemoveEmpty, TypeOK
  <2>3. CASE /\ IsRetained(path) /\ Deleted(d) /\ bound' = [bound EXCEPT ![path] = None]
             /\ doing' = [call |-> "delete", path |-> path] /\ UNCHANGED <<stack, status>>
    <3>1. d \in Dirs
      BY <2>1, <2>3 DEF IsRetained, TypeOK
    <3>2. /\ place' \in [Dirs -> [up : Dirs \cup {Desk}, name : STRING] \cup {None}]
          /\ pending' \subseteq Dirs
      BY <2>3, <3>1, DeletedType
    <3>3. doing' \in Doings /\ bound' \in [Paths -> Dirs \cup {None}]
      BY <2>1, <2>3 DEF Doings, TypeOK
    <3> QED BY <1>19, <2>1, <2>3, <3>2, <3>3 DEF RemoveEmpty, TypeOK
  <2> QED BY <1>19, <2>2, <2>3 DEF RemoveEmpty
<1>20. CASE Close
  BY <1>20 DEF Close, TypeOK
<1>21. ASSUME NEW up \in Dirs \cup {Desk}, NEW name \in OtherNames, Make(up, name) PROVE TypeOK'
  <2>1. New \in Dirs /\ In(up, name) \in [up : Dirs \cup {Desk}, name : STRING]
    <3>1. Unused # {}
      BY <1>21, MakeLeavesOne
    <3> QED BY <3>1, NewIs DEF In, PathsAssumption
  <2>2. meddled' \in 0..MaxMeddling
    BY <1>21 DEF Make, Meddle, TypeOK, PathsAssumption
  <2> QED BY <1>21, <2>1, <2>2 DEF Make, TypeOK
<1>22. ASSUME NEW d \in Dirs, NEW up \in Dirs \cup {Desk}, NEW name \in OtherNames, Move(d, up, name)
       PROVE  TypeOK'
  <2>1. In(up, name) \in [up : Dirs \cup {Desk}, name : STRING]
    BY DEF In, PathsAssumption
  <2>2. meddled' \in 0..MaxMeddling
    BY <1>22 DEF Move, Meddle, TypeOK, PathsAssumption
  <2> QED BY <1>22, <2>1, <2>2 DEF Move, TypeOK
<1>23. ASSUME NEW d \in Dirs, NEW share \in BOOLEAN, Scan(d, share) PROVE TypeOK'
  <2>1. meddled' \in 0..MaxMeddling
    BY <1>23 DEF Scan, Meddle, TypeOK, PathsAssumption
  <2>2. Handle(d, FALSE, share) \in [of : Dirs, delete : {FALSE}, share : BOOLEAN]
    BY DEF Handle
  <2>3. scans' \subseteq [of : Dirs, delete : {FALSE}, share : BOOLEAN]
    BY <1>23, <2>2 DEF Scan, TypeOK
  <2> QED BY <1>23, <2>1, <2>3 DEF Scan, TypeOK
<1>24. ASSUME NEW h \in scans, EndScan(h) PROVE TypeOK'
  <2>1. h.of \in Dirs
    BY DEF TypeOK
  <2> QED BY <1>24, <2>1 DEF EndScan, TypeOK
<1>25. CASE UNCHANGED retainedVars
  BY <1>25 DEF retainedVars, TypeOK
<1> QED
  BY <1>1, <1>2, <1>3, <1>4, <1>5, <1>6, <1>7, <1>8, <1>9, <1>10, <1>11, <1>12, <1>13, <1>14,
     <1>15, <1>16, <1>17, <1>18, <1>19, <1>20, <1>21, <1>22, <1>23, <1>24, <1>25
     DEF Next, Recovery, Others

-----------------------------------------------------------------------------
(***************************************************************************)
(* What is retained stays, and no one else deletes it or moves it.         *)
(***************************************************************************)

LEMMA PlaceIsNotNone ==
  ASSUME PathsAssumption, NEW up \in Dirs \cup {Desk}, NEW name \in STRING
  PROVE  In(up, name) # None
BY DEF PathsAssumption, In

\* A directory that is retained is not opened for deletion, and only with sharing.
LEMMA RetainedHandleBlocks ==
  ASSUME NEW new, Opens(new), NEW path \in Paths, IsRetained(path), bound[path] = new.of
  PROVE  ~new.delete /\ (path # Root \/ fresh => new.share)
<1>1. RetainedHandle(path, bound[path]) \in Handles
  BY DEF Handles, IsRetained
<1>2. Compatible(new, RetainedHandle(path, bound[path]))
  BY <1>1 DEF Opens, RetainedHandle, Handle
<1> QED BY <1>2 DEF Compatible, RetainedHandle, Handle

\* Nor is one that a deletion is in.
LEMMA CleanupHandleBlocks ==
  ASSUME NEW new, Opens(new), NEW i \in DOMAIN stack, stack[i].dir = new.of
  PROVE  ~new.delete /\ new.share
<1>1. CleanupHandle(stack[i].dir) \in Handles
  BY DEF Handles
<1>2. Compatible(new, CleanupHandle(stack[i].dir))
  BY <1>1 DEF Opens, CleanupHandle, Handle
<1> QED BY <1>2 DEF Compatible, CleanupHandle, Handle

\* A directory that gets a place no other has.
LEMMA PlacedApart ==
  ASSUME PathsAssumption, TypeOK, Apart, NEW d \in Dirs, NEW up \in Dirs \cup {Desk}, NEW name \in STRING,
         Child(up, name) = None, place' = [place EXCEPT ![d] = In(up, name)], UNCHANGED pending
  PROVE  /\ Apart' /\ place'[d] = In(up, name) /\ place'[d] # None
         /\ \A c \in Dirs \ {d} : place'[c] = place[c]
<1>1. \A c \in Dirs : place[c] # In(up, name)
  BY HolderType DEF Child
<1>2. place'[d] = In(up, name) /\ \A c \in Dirs \ {d} : place'[c] = place[c]
  BY DEF TypeOK
<1>3. place'[d] # None
  BY <1>2, PlaceIsNotNone
<1>4. \A c, e \in Dirs : place'[c] # None /\ place'[c] = place'[e] => c = e
  BY <1>1, <1>2 DEF Apart
<1>5. \A c \in pending' : place'[c] # None
  BY <1>2, <1>3 DEF Apart, TypeOK
<1> QED BY <1>2, <1>3, <1>4, <1>5 DEF Apart

\* A directory that is deleted: the places of the others stay.
LEMMA DeletedApart ==
  ASSUME PathsAssumption, TypeOK, Apart, NEW d \in Dirs, Exists(d), Deleted(d)
  PROVE  /\ Apart' /\ ~Exists(d)'
         /\ \A c \in Dirs \ {d} : place'[c] = place[c] /\ (Exists(c)' <=> Exists(c))
<1>1. place[d] # None /\ d \notin pending /\ d # Desk
  BY DEF Exists, PathsAssumption
<1>2. CASE pending' = pending \cup {d} /\ UNCHANGED place
  BY <1>1, <1>2 DEF Apart, Exists
<1>3. CASE place' = [place EXCEPT ![d] = None] /\ UNCHANGED pending
  <2>1. place'[d] = None /\ \A c \in Dirs \ {d} : place'[c] = place[c]
    BY <1>3 DEF TypeOK
  <2>2. Apart'
    <3>1. \A c \in pending' : place'[c] # None
      BY <1>1, <1>3, <2>1 DEF Apart, TypeOK
    <3>2. \A c, e \in Dirs : place'[c] # None /\ place'[c] = place'[e] => c = e
      BY <2>1 DEF Apart
    <3> QED BY <3>1, <3>2 DEF Apart
  <2> QED BY <1>1, <1>3, <2>1, <2>2 DEF Exists
<1> QED BY <1>2, <1>3 DEF Deleted

\* If the file system and the retained handles are as before, and a deletion goes on or ends.
LEMMA HeldSame ==
  ASSUME Apart, Held, Chain, UNCHANGED <<place, pending, bound>>,
         \/ stack' = stack /\ (stack # <<>> => doing'.call = "delete")
         \/ stack' = <<>>
  PROVE  Apart' /\ Held' /\ Chain'
<1>1. Apart' /\ Held'
  BY DEF Apart, Held, IsRetained, Exists
<1>2. Chain'
  <2>1. CASE stack' = <<>>
    BY <2>1 DEF Chain
  <2>2. CASE stack' = stack /\ (stack # <<>> => doing'.call = "delete")
    BY <2>2 DEF Chain, Exists
  <2> QED BY <2>1, <2>2
<1> QED BY <1>1, <1>2

\* If some handles are closed.
LEMMA HeldLess ==
  ASSUME TypeOK, Held, UNCHANGED <<place, pending>>, NEW gone,
         bound' = [p \in Paths |-> IF p \in gone THEN None ELSE bound[p]]
  PROVE  Held'
BY DEF Held, IsRetained, Exists, TypeOK

\* If a directory is made and retained.
LEMMA HeldNew ==
  ASSUME PathsAssumption, TypeOK, Apart, Held, NEW path \in Paths, NEW d \in Dirs, place[d] = None,
         place'[d] # None, \A c \in Dirs \ {d} : place'[c] = place[c], UNCHANGED pending, Retain(path, d)
  PROVE  Held'
<1>1. \A p \in Paths : IsRetained(p) => bound[p] # d
  BY DEF Held, Exists, PathsAssumption
<1>2. \A p \in Paths : bound'[p] = IF p = path THEN d ELSE bound[p]
  BY DEF Retain, TypeOK
<1>3. \A p \in Paths : IsRetained(p)' => Exists(bound[p])'
  BY <1>1, <1>2 DEF Apart, Held, Exists, IsRetained, TypeOK
<1>4. \A p, q \in Paths : IsRetained(p)' /\ bound'[p] = bound'[q] => p = q
  BY <1>1, <1>2 DEF Held, IsRetained, PathsAssumption
<1> QED BY <1>3, <1>4 DEF Held

\* If a directory that is there is retained, or still is.
LEMMA HeldMore ==
  ASSUME PathsAssumption, TypeOK, Held, UNCHANGED <<place, pending>>,
         NEW path \in Paths, NEW d \in Dirs, Retain(path, d),
         Opens(RetainedHandle(path, d)) \/ bound[path] = d
  PROVE  Held'
<1>1. \A p \in Paths : bound'[p] = IF p = path THEN d ELSE bound[p]
  BY DEF Retain, TypeOK
<1>2. \A p \in Paths : IsRetained(p) /\ bound[p] = d => p = path
  <2>1. CASE bound[path] = d
    BY <2>1 DEF Held
  <2>2. CASE Opens(RetainedHandle(path, d))
    <3> SUFFICES ASSUME NEW p \in Paths, IsRetained(p), bound[p] = d
                 PROVE  p = path
      OBVIOUS
    <3>1. RetainedHandle(path, d) = [of |-> d, delete |-> (path # Root \/ fresh), share |-> FALSE]
      BY DEF RetainedHandle, Handle
    <3> DEFINE new == RetainedHandle(path, d)
    <3>3. new.of = d /\ new.delete = (path # Root \/ fresh) /\ new.share = FALSE
      BY <3>1
    <3> HIDE DEF new
    <3>4. Opens(new)
      BY <2>2 DEF new
    <3>5. ~new.delete /\ (p # Root \/ fresh => new.share)
      BY <3>3, <3>4, RetainedHandleBlocks
    <3>2. ~(path # Root \/ fresh) /\ ~(p # Root \/ fresh)
      BY <3>3, <3>5
    <3> QED BY <3>2
  <2> QED BY <2>1, <2>2
<1>3. Exists(d)
  BY DEF Opens, RetainedHandle, Handle, Held, IsRetained, PathsAssumption
<1>4. \A p \in Paths : IsRetained(p)' => Exists(bound[p])'
  BY <1>1, <1>3 DEF Held, Exists, IsRetained
<1>5. \A p, q \in Paths : IsRetained(p)' /\ bound'[p] = bound'[q] => p = q
  BY <1>1, <1>2 DEF Held, IsRetained, PathsAssumption
<1> QED BY <1>4, <1>5 DEF Held

LEMMA NoDeletion == Chain /\ doing.call # "delete" => stack = <<>>
  BY DEF Chain

LEMMA NoChain == stack' = <<>> => Chain'
  BY DEF Chain

\* A failure in the course of a call, with nothing else changed.
LEMMA HeldFails ==
  ASSUME Apart, Held, Chain, Fails, UNCHANGED <<place, pending, bound>>
  PROVE  Apart' /\ Held' /\ Chain'
BY HeldSame DEF Fails

\* What other programs do to directories that are neither retained nor being deleted.
LEMMA HeldOthers ==
  ASSUME TypeOK, Held, Chain, Apart', UNCHANGED <<bound, stack, doing>>,
         \A c \in Dirs : \/ place'[c] = place[c] /\ (Exists(c) => Exists(c)')
                        \/ /\ \A path \in Paths : bound[path] # c
                           /\ \A i \in DOMAIN stack : stack[i].dir # c
  PROVE  Held' /\ Chain'
<1>1. Held'
  <2>1. \A path \in Paths : IsRetained(path) => bound[path] \in Dirs
    BY DEF IsRetained, TypeOK
  <2>2. \A path \in Paths : IsRetained(path) => Exists(bound[path])'
    <3> SUFFICES ASSUME NEW path \in Paths, IsRetained(path) PROVE Exists(bound[path])'
      OBVIOUS
    <3>1. Exists(bound[path]) /\ bound[path] \in Dirs
      BY <2>1 DEF Held
    <3> QED BY <3>1 DEF Exists
  <2> QED BY <2>2 DEF Held, IsRetained
<1>2. Chain'
  <2>1. \A i \in DOMAIN stack : stack[i].dir \in Dirs
    BY StackType
  <2>2. \A i \in DOMAIN stack : Exists(stack[i].dir)' /\ place'[stack[i].dir] = place[stack[i].dir]
    <3> SUFFICES ASSUME NEW i \in DOMAIN stack
                 PROVE  Exists(stack[i].dir)' /\ place'[stack[i].dir] = place[stack[i].dir]
      OBVIOUS
    <3>1. stack[i].dir \in Dirs /\ Exists(stack[i].dir)
      BY <2>1 DEF Chain
    <3>2. place'[stack[i].dir] = place[stack[i].dir] /\ (Exists(stack[i].dir) => Exists(stack[i].dir)')
      BY <3>1
    <3> QED BY <3>1, <3>2
  <2> QED BY <2>2 DEF Chain
<1> QED BY <1>1, <1>2

LEMMA HeldInit == Init => Apart /\ Held /\ Chain
<1> SUFFICES ASSUME Init PROVE Apart /\ Held /\ Chain
  OBVIOUS
<1>1. Apart
  BY PathsAssumption DEF Init, Apart, PathsAssumption
<1>2. Held /\ Chain
  BY DEF Init, Held, Chain, IsRetained
<1> QED BY <1>1, <1>2

LEMMA HeldCreate ==
  ASSUME TypeOK, Apart, Held, Chain, CreateRoot \/ CreateMissing
  PROVE  Apart' /\ Held' /\ Chain'
<1> USE PathsAssumption DEF filesystem
<1>1. stack = <<>>
  BY NoDeletion DEF CreateRoot, CreateMissing, Rest
<1>2. ASSUME NEW path \in Paths, NEW up \in Dirs \cup {Desk}, Unused # {}, Child(up, Last(path)) = None,
             place' = [place EXCEPT ![New] = In(up, Last(path))], Retain(path, New), UNCHANGED <<pending, stack>>
      PROVE  Apart' /\ Held' /\ Chain'
  <2>1. New \in Dirs /\ place[New] = None /\ Last(path) \in STRING
    BY <1>2, NewIs, PathsAre
  <2>2. /\ Apart' /\ place'[New] # None
        /\ \A c \in Dirs \ {New} : place'[c] = place[c]
    <3>1. PICK d \in Dirs, name \in STRING : d = New /\ name = Last(path)
      BY <2>1
    <3>2. Child(up, name) = None /\ place' = [place EXCEPT ![d] = In(up, name)] /\ UNCHANGED pending
      BY <1>2, <3>1
    <3>3. Apart' /\ place'[d] # None /\ \A c \in Dirs \ {d} : place'[c] = place[c]
      BY <3>2, PlacedApart
    <3> QED BY <3>1, <3>3
  <2>3. Held'
    BY <1>2, <2>1, <2>2, HeldNew
  <2> QED BY <1>1, <1>2, <2>2, <2>3, NoChain
<1>3. CASE CreateRoot
  <2>1. CASE UNCHANGED <<filesystem, bound>>
    BY <1>1, <1>3, <2>1, HeldSame DEF CreateRoot
  <2>2. CASE Child(Desk, Last(Root)) = None
    <3>1. Root \in Paths
      BY DEF PathsAssumption
    <3> QED BY <1>2, <1>3, <2>2, <3>1 DEF CreateRoot
  <2> QED BY <1>3, <2>1, <2>2 DEF CreateRoot
<1>4. CASE CreateMissing
  <2>1. PICK path \in doing.missing :
          \/ Fails /\ UNCHANGED <<filesystem, bound>>
          \/ /\ path # Root /\ IsRetained(Above(path)) /\ Child(bound[Above(path)], Last(path)) = None
             /\ place' = [place EXCEPT ![New] = In(bound[Above(path)], Last(path))]
             /\ Retain(path, New) /\ UNCHANGED <<pending, stack>>
    BY <1>4 DEF CreateMissing
  <2>2. path \in Paths
    BY <1>4, DoingIs DEF CreateMissing
  <2>3. CASE Fails /\ UNCHANGED <<filesystem, bound>>
    BY <2>3, HeldFails
  <2>4. CASE ~(Fails /\ UNCHANGED <<filesystem, bound>>)
    <3>1. bound[Above(path)] \in Dirs
      BY <2>1, <2>2, <2>4, PathsAre DEF IsRetained, TypeOK
    <3>2. Unused # {}
      BY <1>4 DEF CreateMissing
    <3> QED BY <1>2, <2>1, <2>2, <2>4, <3>1, <3>2
  <2> QED BY <2>3, <2>4
<1> QED BY <1>3, <1>4

\* Retaining what is there, and a promotion.
LEMMA HeldRetain ==
  ASSUME TypeOK, Apart, Held, Chain, RetainListed \/ Hold \/ Resume
  PROVE  Apart' /\ Held' /\ Chain'
<1> USE PathsAssumption DEF filesystem
<1>1. stack = <<>>
  BY NoDeletion DEF RetainListed, Hold, Resume
<1>2. ASSUME NEW path \in Paths, NEW d \in Dirs, Retain(path, d), UNCHANGED <<place, pending, stack>>,
             Opens(RetainedHandle(path, d)) \/ bound[path] = d
      PROVE  Apart' /\ Held' /\ Chain'
  <2>1. Held'
    BY <1>2, HeldMore
  <2>2. Apart'
    BY <1>2 DEF Apart
  <2> QED BY <1>1, <1>2, <2>1, <2>2, NoChain
<1>3. CASE RetainListed
  <2>1. PICK entry \in doing.listed :
          \/ /\ Retain(entry.path, At(entry.path)) /\ At(entry.path) = entry.dir
             /\ Opens(RetainedHandle(entry.path, At(entry.path))) /\ UNCHANGED stack
          \/ Fails /\ UNCHANGED bound
    BY <1>3 DEF RetainListed
  <2>2. entry.path \in Paths /\ entry.dir \in Dirs
    BY <1>3, DoingIs DEF RetainListed, Bindings
  <2>3. UNCHANGED <<place, pending>>
    BY <1>3 DEF RetainListed
  <2>4. CASE Fails /\ UNCHANGED bound
    BY <2>3, <2>4, HeldFails
  <2> QED BY <1>2, <2>1, <2>2, <2>3, <2>4
<1>4. CASE Hold
  <2>1. doing.path \in Paths /\ UNCHANGED <<place, pending>>
    BY <1>4, DoingIs DEF Hold
  <2> DEFINE path == doing.path
             d == At(path)
  <2>2. CASE Fails /\ UNCHANGED bound
    BY <2>1, <2>2, HeldFails
  <2>3. CASE ~(Fails /\ UNCHANGED bound)
    <3>1. Retain(path, d) /\ UNCHANGED stack
      BY <1>4, <2>3 DEF Hold
    <3>2. \/ IsRetained(path) /\ Visible(path, bound[path])
          \/ d # None /\ Opens(RetainedHandle(path, d))
      BY <1>4, <2>3 DEF Hold
    <3>3. Opens(RetainedHandle(path, d)) \/ bound[path] = d
      BY <3>2 DEF Visible
    <3>4. d \in Dirs
      BY <2>1, <3>2, AtType DEF Visible, IsRetained, TypeOK
    <3> QED BY <1>2, <2>1, <3>1, <3>3, <3>4
  <2> QED BY <2>2, <2>3
<1>5. CASE Resume
  <2>1. PICK c \in doing.closed :
          \/ /\ At(c.path) # None /\ Opens(RetainedHandle(c.path, At(c.path)))
             /\ Retain(c.path, At(c.path)) /\ UNCHANGED stack
          \/ Fails /\ UNCHANGED bound
    BY <1>5 DEF Resume
  <2>2. c.path \in Paths /\ UNCHANGED <<place, pending>>
    BY <1>5, DoingIs DEF Resume, Bindings
  <2>3. At(c.path) \in Dirs \cup {None}
    BY <2>2, AtType
  <2>4. CASE Fails /\ UNCHANGED bound
    BY <2>2, <2>4, HeldFails
  <2> QED BY <1>2, <2>1, <2>2, <2>3, <2>4
<1> QED BY <1>3, <1>4, <1>5

LEMMA HeldPromotion ==
  ASSUME TypeOK, Apart, Held, Chain, Promoting, Promote \/ Rename \/ Rebind
  PROVE  Apart' /\ Held' /\ Chain'
<1> USE PathsAssumption DEF filesystem
<1>1. stack = <<>>
  <2>1. Promote => doing.call = "none"
    BY DEF Promote, Calls, Rest
  <2>2. Rename => doing.call = "rename"
    BY DEF Rename
  <2>3. Rebind => doing.call = "rebind"
    BY DEF Rebind
  <2> QED BY <2>1, <2>2, <2>3, NoDeletion
<1>2. CASE Promote
  <2>1. UNCHANGED <<place, pending>>
    BY <1>2 DEF Promote
  <2>2. CASE Fails /\ UNCHANGED bound
    BY <2>1, <2>2, HeldFails
  <2>3. CASE ~(Fails /\ UNCHANGED bound)
    <3>1. /\ bound' = [p \in Paths |-> IF p \in Retained(Head(calls).path) THEN None ELSE bound[p]]
          /\ UNCHANGED stack
      BY <1>2, <2>3 DEF Promote
    <3>2. Held'
      BY <2>1, <3>1, HeldLess
    <3>3. Apart'
      BY <2>1 DEF Apart
    <3> QED BY <1>1, <3>1, <3>2, <3>3, NoChain
  <2> QED BY <2>2, <2>3
<1>3. CASE Rename
  <2> DEFINE up == bound[Above(doing.to)]
             name == Last(doing.to)
             d == bound[doing.from]
  <2>1. doing.from \in Paths /\ doing.to \in Paths /\ d \in Dirs /\ name \in STRING /\ UNCHANGED <<pending, bound, stack>>
    BY <1>3, DoingIs, PathsAre DEF Rename, Promoting, IsRetained, TypeOK
  <2>2. CASE UNCHANGED place
    BY <1>1, <2>1, <2>2, HeldSame
  <2>3. CASE Renamable(d, up, name) /\ place' = [place EXCEPT ![d] = In(up, name)]
    <3>1. up \in Dirs \cup {Desk} /\ Child(up, name) = None /\ Exists(d)
      BY <2>3 DEF Renamable, Exists
    <3> HIDE DEF up, name, d
    <3>2. PICK e \in Dirs, u \in Dirs \cup {Desk}, n \in STRING : e = d /\ u = up /\ n = name
      BY <2>1, <3>1
    <3>3. Child(u, n) = None /\ place' = [place EXCEPT ![e] = In(u, n)] /\ UNCHANGED pending
      BY <2>1, <2>3, <3>1, <3>2
    <3>4. Apart' /\ place'[e] # None /\ \A c \in Dirs \ {e} : place'[c] = place[c]
      BY <3>3, PlacedApart
    <3>5. \A c \in Dirs : Exists(c) => Exists(c)'
      BY <2>1, <3>4 DEF Exists
    <3>6. Held'
      BY <2>1, <3>5 DEF Held, IsRetained, TypeOK
    <3> QED BY <1>1, <2>1, <3>4, <3>6, NoChain
  <2> QED BY <1>3, <2>2, <2>3 DEF Rename
<1>4. CASE Rebind
  <2>1. UNCHANGED <<place, pending>>
    BY <1>4 DEF Rebind
  <2>2. CASE Fails /\ UNCHANGED bound
    BY <2>1, <2>2, HeldFails
  <2>3. CASE ~(Fails /\ UNCHANGED bound)
    <3>1. bound' = [bound EXCEPT ![doing.from] = None, ![doing.to] = bound[doing.from]] /\ UNCHANGED stack
      BY <1>4, <2>3 DEF Rebind
    <3>2. doing.from \in Paths /\ doing.to \in Paths /\ doing.from # doing.to /\ IsRetained(doing.from)
      BY <1>4, DoingIs DEF Rebind, Promoting
    <3>3. \A p \in Paths : bound'[p] = IF p = doing.to THEN bound[doing.from]
                                       ELSE IF p = doing.from THEN None ELSE bound[p]
      BY <3>1, <3>2 DEF TypeOK
    <3>4. \A p \in Paths : IsRetained(p)' => Exists(bound[p])'
      BY <2>1, <3>2, <3>3 DEF Held, IsRetained, Exists
    <3>5. \A p, q \in Paths : IsRetained(p)' /\ bound'[p] = bound'[q] => p = q
      BY <3>2, <3>3 DEF Held, IsRetained
    <3>6. Apart'
      BY <2>1 DEF Apart
    <3> QED BY <1>1, <3>1, <3>4, <3>5, <3>6, NoChain DEF Held
  <2> QED BY <2>2, <2>3
<1> QED BY <1>2, <1>3, <1>4

\* A deletion: what is in its way is neither retained nor opened twice.
LEMMA HeldDelete ==
  ASSUME TypeOK, Apart, Held, Chain, DeleteTree \/ DeleteEntry \/ DeleteEmptied \/ RemoveEmpty
  PROVE  Apart' /\ Held' /\ Chain'
<1> USE PathsAssumption DEF filesystem
<1>1. CASE DeleteTree
  <2>1. PICK path \in Temporary :
          \/ Fails /\ UNCHANGED bound
          \/ /\ ~CleanedUp(path)
             /\ bound' = [p \in Paths |-> IF p \in Retained(path) \cup {path} THEN None ELSE bound[p]]
             /\ stack' = <<Level(bound[path])>>
             /\ doing' = [call |-> "delete", path |-> path]
    BY <1>1 DEF DeleteTree
  <2>2. path \in Paths /\ UNCHANGED <<place, pending>>
    BY <1>1 DEF PathsAssumption, DeleteTree
  <2>3. CASE Fails /\ UNCHANGED bound
    BY <2>2, <2>3, HeldFails
  <2>4. CASE ~(Fails /\ UNCHANGED bound)
    <3>1. /\ IsRetained(path) /\ stack' = <<Level(bound[path])>> /\ doing'.call = "delete"
          /\ bound' = [p \in Paths |-> IF p \in Retained(path) \cup {path} THEN None ELSE bound[p]]
      BY <2>1, <2>4 DEF CleanedUp
    <3>2. Held'
      BY <2>2, <3>1, HeldLess
    <3>3. Apart'
      BY <2>2 DEF Apart
    <3>4. PICK d : d = bound[path]
      OBVIOUS
    <3>5. DOMAIN stack' = {1} /\ stack'[1].dir = d
      <4>1. DOMAIN stack' = {1} /\ stack'[1] = Level(bound[path])
        BY <3>1
      <4> QED BY <3>4, <4>1 DEF Level
    <3>6. \A p \in Paths : bound'[p] # d
      BY <2>2, <3>1, <3>4 DEF Held, IsRetained
    <3>7. Exists(d)'
      <4>1. Exists(d)
        BY <2>2, <3>1, <3>4 DEF Held
      <4> QED BY <2>2, <4>1 DEF Exists
    <3>8. Chain'
      BY <3>1, <3>5, <3>6, <3>7 DEF Chain
    <3> QED BY <3>2, <3>3, <3>8
  <2> QED BY <2>3, <2>4
<1>2. CASE DeleteEntry
  <2> DEFINE top == Last(stack)
             n == Len(stack)
  <2>1. PICK entry \in top.todo :
          \/ /\ Child(top.dir, entry.name) = entry.dir /\ Opens(Handle(entry.dir, TRUE, FALSE))
             /\ stack' = Append(Front(stack), [top EXCEPT !.todo = @ \ {entry}]) \o <<Level(entry.dir)>>
             /\ UNCHANGED <<doing, status>>
          \/ Fails
    BY <1>2 DEF DeleteEntry
  <2>2. UNCHANGED <<place, pending, bound>> /\ doing.call = "delete"
    BY <1>2 DEF DeleteEntry
  <2>3. CASE Fails
    BY <2>2, <2>3, HeldFails
  <2>4. CASE ~Fails
    <3>1. Apart' /\ Held'
      BY <2>2 DEF Apart, Held, IsRetained, Exists
    <3> DEFINE Listed == [dir : Dirs, todo : SUBSET [dir : Dirs, name : STRING]]
               rest == [top EXCEPT !.todo = @ \ {entry}]
               last == Level(entry.dir)
    <3>2. stack \in Seq(Listed) /\ stack # <<>>
      BY <1>2 DEF DeleteEntry, TypeOK
    <3>0. \A e \in Listed : \A f \in e.todo :
            f.dir \in Dirs /\ [e EXCEPT !.todo = @ \ {f}] \in Listed /\ [e EXCEPT !.todo = @ \ {f}].dir = e.dir
      OBVIOUS
    <3> HIDE DEF Listed
    <3>3. /\ top \in Listed /\ Front(stack) \in Seq(Listed) /\ n \in Nat \ {0} /\ top = stack[n]
          /\ Len(Front(stack)) = n - 1 /\ \A i \in 1..n - 1 : Front(stack)[i] = stack[i]
      <4> HIDE DEF top, n
      <4>1. top = Last(stack) /\ n = Len(stack)
        BY DEF top, n
      <4>2. /\ Last(stack) \in Listed /\ Front(stack) \in Seq(Listed) /\ Len(stack) \in Nat \ {0}
            /\ Last(stack) = stack[Len(stack)] /\ Len(Front(stack)) = Len(stack) - 1
            /\ \A i \in 1..Len(stack) - 1 : Front(stack)[i] = stack[i]
        <5>1. /\ Last(stack) \in Listed /\ Front(stack) \in Seq(Listed) /\ Len(stack) \in Nat \ {0}
              /\ Last(stack) = stack[Len(stack)] /\ Len(Front(stack)) = Len(stack) - 1
          BY <3>2, FrontLast
        <5>2. \A i \in 1..Len(stack) - 1 : Front(stack)[i] = stack[i]
          BY DEF Front
        <5> QED BY <5>1, <5>2
      <4> QED BY <4>1, <4>2
    <3>4. entry.dir \in Dirs /\ rest \in Listed /\ rest.dir = top.dir
      BY <3>3, <3>0
    <3>5. last \in Listed /\ last.dir = entry.dir
      BY <3>4, LevelType DEF Level, Listed
    <3>6. stack' = Append(Front(stack), rest) \o <<last>>
      BY <2>1, <2>4
    <3> HIDE DEF rest, last, top, n
    <3>7. /\ DOMAIN stack' = 1..n + 1 /\ stack'[n + 1] = last /\ stack'[n] = rest
          /\ \A i \in 1..n - 1 : stack'[i] = stack[i]
      <4>1. /\ Append(Front(stack), rest) \in Seq(Listed) /\ Len(Append(Front(stack), rest)) = n
            /\ Append(Front(stack), rest)[n] = rest
            /\ \A i \in 1..n - 1 : Append(Front(stack), rest)[i] = Front(stack)[i]
        BY <3>3, <3>4
      <4> DEFINE first == Append(Front(stack), rest)
      <4>2. first \in Seq(Listed) /\ Len(first) = n
        BY <4>1
      <4>3. /\ DOMAIN (first \o <<last>>) = 1..n + 1 /\ (first \o <<last>>)[n + 1] = last
            /\ \A i \in 1..n : (first \o <<last>>)[i] = first[i]
        <5> HIDE DEF first
        <5> QED BY <3>3, <3>5, <4>2
      <4>4. /\ DOMAIN stack' = 1..n + 1 /\ stack'[n + 1] = last
            /\ \A i \in 1..n : stack'[i] = Append(Front(stack), rest)[i]
        BY <3>6, <4>3
      <4>5. n \in 1..n /\ \A i \in 1..n - 1 : i \in 1..n
        BY <3>3
      <4> HIDE DEF first
      <4> QED BY <3>3, <4>1, <4>4, <4>5
    <3>8. \A i \in 1..n : stack'[i].dir = stack[i].dir
      BY <3>3, <3>4, <3>7
    <3>9. DOMAIN stack = 1..n
      BY <3>2 DEF n
    <3>10. /\ place[entry.dir].up = stack[n].dir /\ Exists(entry.dir)
           /\ \A path \in Paths : bound[path] # entry.dir
           /\ \A i \in DOMAIN stack : stack[i].dir # entry.dir
      <4>1. place[entry.dir] = In(top.dir, entry.name)
        <5>1. Holder(place, In(top.dir, entry.name)) = entry.dir /\ entry.dir # None
          BY <2>1, <2>4, <3>4 DEF Child, PathsAssumption
        <5> QED BY <5>1, HolderType
      <4> DEFINE new == Handle(entry.dir, TRUE, FALSE)
      <4>2. Opens(new) /\ new.of = entry.dir /\ new.delete = TRUE
        BY <2>1, <2>4 DEF Handle
      <4>3. Exists(entry.dir)
        BY <4>2 DEF Opens
      <4> HIDE DEF new
      <4>4. \A path \in Paths : bound[path] # entry.dir
        BY <3>4, <4>2, RetainedHandleBlocks DEF IsRetained, PathsAssumption
      <4>5. \A i \in DOMAIN stack : stack[i].dir # entry.dir
        BY <4>2, CleanupHandleBlocks
      <4> QED BY <3>3, <4>1, <4>3, <4>4, <4>5 DEF In
    <3>11. ASSUME NEW i \in 1..n + 1
           PROVE  /\ Exists(stack'[i].dir)
                  /\ \A path \in Paths : bound[path] # stack'[i].dir
                  /\ i > 1 => place[stack'[i].dir].up = stack'[i - 1].dir
                  /\ \A j \in 1..n + 1 : stack'[j].dir = stack'[i].dir => j = i
      <4>1. CASE i = n + 1
        <5>1. stack'[i].dir = entry.dir /\ stack'[i - 1].dir = stack[n].dir
          BY <3>3, <3>5, <3>7, <3>8, <4>1
        <5>2. \A j \in 1..n : stack'[j].dir # entry.dir
          BY <3>8, <3>9, <3>10
        <5>3. \A j \in 1..n + 1 : stack'[j].dir = entry.dir => j = i
          BY <3>3, <4>1, <5>2
        <5> QED BY <3>10, <5>1, <5>3
      <4>2. CASE i # n + 1
        <5>1. i \in 1..n /\ (i > 1 => i - 1 \in 1..n)
          BY <3>3, <4>2
        <5>2. stack'[i].dir = stack[i].dir /\ (i > 1 => stack'[i - 1].dir = stack[i - 1].dir)
          BY <3>8, <5>1
        <5>3. \A j \in 1..n : stack'[j].dir = stack'[i].dir => j = i
          BY <3>8, <3>9, <5>1 DEF Chain
        <5>4. stack'[n + 1].dir # stack'[i].dir
          BY <3>5, <3>7, <3>9, <3>10, <5>1, <5>2
        <5>5. \A j \in 1..n + 1 : stack'[j].dir = stack'[i].dir => j = i
          BY <3>3, <5>3, <5>4
        <5>6. /\ Exists(stack[i].dir) /\ \A path \in Paths : bound[path] # stack[i].dir
              /\ i > 1 => place[stack[i].dir].up = stack[i - 1].dir
          BY <3>9, <5>1 DEF Chain
        <5> QED BY <5>2, <5>5, <5>6
      <4> QED BY <4>1, <4>2
    <3>12. doing'.call = "delete"
      BY <2>1, <2>2, <2>4
    <3>13. Chain'
      BY <2>2, <3>7, <3>11, <3>12 DEF Chain, Exists
    <3> QED BY <3>1, <3>13
  <2> QED BY <2>3, <2>4
<1>3. CASE DeleteEmptied
  <2> DEFINE n == Len(stack)
  <2> HIDE DEF n
  <2>1. /\ n \in Nat \ {0} /\ Last(stack) = stack[n] /\ DOMAIN stack = 1..n
        /\ Len(Front(stack)) = n - 1 /\ DOMAIN Front(stack) = 1..n - 1
        /\ \A i \in 1..n - 1 : Front(stack)[i] = stack[i]
    <3> DEFINE Listed == [dir : Dirs, todo : SUBSET [dir : Dirs, name : STRING]]
    <3>1. stack \in Seq(Listed) /\ stack # <<>>
      BY <1>3 DEF DeleteEmptied, TypeOK
    <3> HIDE DEF Listed
    <3>2. /\ n \in Nat \ {0} /\ Last(stack) = stack[n] /\ Front(stack) \in Seq(Listed)
          /\ Len(Front(stack)) = n - 1 /\ \A i \in 1..n - 1 : Front(stack)[i] = stack[i]
      <4>1. n = Len(stack)
        BY DEF n
      <4>2. /\ Front(stack) \in Seq(Listed) /\ Len(stack) \in Nat \ {0} /\ Last(stack) = stack[Len(stack)]
            /\ Len(Front(stack)) = Len(stack) - 1
            /\ \A i \in 1..Len(stack) - 1 : Front(stack)[i] = stack[i]
        <5>1. PICK t \in Seq(Listed) : t = stack /\ t # <<>>
          BY <3>1
        <5>2. /\ Front(t) \in Seq(Listed) /\ Len(t) \in Nat \ {0} /\ Last(t) = t[Len(t)]
              /\ Len(Front(t)) = Len(t) - 1
              /\ \A i \in 1..Len(t) - 1 : Front(t)[i] = t[i]
          BY SMTT(30), <5>1, FrontLast
        <5> QED BY <5>1, <5>2
      <4> QED BY <4>1, <4>2
    <3>3. DOMAIN stack = 1..n /\ DOMAIN Front(stack) = 1..n - 1
      BY <3>1, <3>2 DEF n
    <3> QED BY <3>2, <3>3
  <2>2. UNCHANGED bound /\ doing.call = "delete"
    BY <1>3 DEF DeleteEmptied
  <2>3. CASE Fails /\ UNCHANGED <<place, pending>>
    BY <2>2, <2>3, HeldFails
  <2>4. CASE ~(Fails /\ UNCHANGED <<place, pending>>)
    <3>1. Deleted(stack[n].dir) /\ stack' = Front(stack) /\ UNCHANGED doing
      BY <1>3, <2>1, <2>4 DEF DeleteEmptied
    <3>2. PICK d \in Dirs : d = stack[n].dir
      BY <2>1, StackType
    <3>3. Exists(d) /\ \A path \in Paths : bound[path] # d
      BY <2>1, <3>2 DEF Chain
    <3>4. Apart' /\ \A c \in Dirs \ {d} : place'[c] = place[c] /\ (Exists(c)' <=> Exists(c))
      BY <3>1, <3>2, <3>3, PathsAssumption, DeletedApart
    <3>5. Held'
      <4>1. ASSUME NEW path \in Paths, IsRetained(path) PROVE Exists(bound[path])'
        <5>1. PICK c \in Dirs \ {d} : c = bound[path]
          BY <3>3, <4>1 DEF IsRetained, TypeOK
        <5>2. Exists(c)'
          BY <3>4, <4>1, <5>1 DEF Held
        <5> QED BY <2>2, <5>1, <5>2 DEF Exists
      <4> QED BY <2>2, <4>1 DEF Held, IsRetained
    <3>6. \A i \in 1..n - 1 : /\ stack'[i] = stack[i] /\ i \in 1..n
                             /\ stack[i].dir \in Dirs \ {d}
      <4> SUFFICES ASSUME NEW i \in 1..n - 1
                   PROVE  stack'[i] = stack[i] /\ i \in 1..n /\ stack[i].dir \in Dirs \ {d}
        OBVIOUS
      <4>1. i \in 1..n /\ n \in 1..n /\ i # n
        BY <2>1
      <4>2. stack[i].dir # stack[n].dir
        BY <2>1, <4>1 DEF Chain
      <4> QED BY <2>1, <3>1, <3>2, <4>1, <4>2, StackType
    <3>7. ASSUME NEW i \in 1..n - 1
          PROVE  /\ Exists(stack[i].dir)'
                 /\ \A path \in Paths : bound'[path] # stack'[i].dir
                 /\ i > 1 => place'[stack'[i].dir].up = stack'[i - 1].dir
                 /\ \A j \in 1..n - 1 : stack'[j].dir = stack'[i].dir => j = i
      <4>1. PICK c \in Dirs \ {d} : c = stack[i].dir
        BY <3>6
      <4>2. Exists(c)'
        BY <2>1, <3>4, <3>6, <4>1 DEF Chain
      <4>3. stack'[i].dir = c
        BY <3>6, <4>1
      <4>4. \A path \in Paths : bound'[path] # stack'[i].dir
        BY <2>1, <2>2, <3>6 DEF Chain
      <4>5. i > 1 => place'[stack'[i].dir].up = stack'[i - 1].dir
        <5>1. i > 1 => i - 1 \in 1..n - 1
          BY <2>1
        <5>2. place'[c] = place[c] /\ (i > 1 => place[c].up = stack[i - 1].dir)
          BY <2>1, <3>4, <3>6, <4>1 DEF Chain
        <5> QED BY <3>6, <4>1, <5>1, <5>2
      <4>6. \A j \in 1..n - 1 : stack'[j].dir = stack'[i].dir => j = i
        BY <2>1, <3>6 DEF Chain
      <4>7. Exists(stack[i].dir)'
        BY <4>2, <4>3 DEF Exists
      <4> QED BY <4>4, <4>5, <4>6, <4>7
    <3>8. Chain'
      <4>1. DOMAIN stack' = 1..n - 1
        BY <2>1, <3>1
      <4>2. doing'.call = "delete"
        BY <2>2, <3>1
      <4> QED BY <3>7, <4>1, <4>2 DEF Chain
    <3> QED BY <3>4, <3>5, <3>8
  <2> QED BY <2>3, <2>4
<1>4. CASE RemoveEmpty
  <2>1. doing = Rest
    BY <1>4 DEF RemoveEmpty, Calls
  <2>2. stack = <<>>
    BY <2>1, NoDeletion DEF Rest
  <2> DEFINE path == Head(calls).path
  <2>3. path \in Paths
    BY <1>4, CallIs DEF RemoveEmpty
  <2>4. CASE Fails /\ UNCHANGED <<place, pending, bound>>
    BY <2>4, HeldFails
  <2>5. CASE ~(Fails /\ UNCHANGED <<place, pending, bound>>)
    <3>1. IsRetained(path) /\ Deleted(bound[path]) /\ bound' = [bound EXCEPT ![path] = None] /\ UNCHANGED stack
      BY <1>4, <2>5 DEF RemoveEmpty
    <3>2. PICK d \in Dirs : d = bound[path]
      BY <2>3, <3>1 DEF IsRetained, TypeOK
    <3>3. Exists(d) /\ \A p \in Paths : bound[p] = d => p = path
      BY <2>3, <3>1, <3>2 DEF Held
    <3>4. Apart' /\ \A c \in Dirs \ {d} : place'[c] = place[c] /\ (Exists(c)' <=> Exists(c))
      BY <3>1, <3>2, <3>3, PathsAssumption, DeletedApart
    <3>5. \A p \in Paths : bound'[p] = IF p = path THEN None ELSE bound[p]
      BY <2>3, <3>1 DEF TypeOK
    <3>6. ASSUME NEW p \in Paths, IsRetained(p)' PROVE Exists(bound[p])'
      <4>1. PICK c \in Dirs \ {d} : c = bound[p] /\ c = bound'[p]
        BY <3>3, <3>5, <3>6 DEF IsRetained, TypeOK
      <4>2. Exists(c)'
        BY <3>4, <3>5, <3>6, <4>1 DEF Held, IsRetained
      <4> QED BY <4>1, <4>2 DEF Exists
    <3>7. \A p, q \in Paths : IsRetained(p)' /\ bound'[p] = bound'[q] => p = q
      BY <3>5 DEF Held, IsRetained
    <3> QED BY <2>2, <3>1, <3>4, <3>6, <3>7, NoChain DEF Held
  <2> QED BY <2>4, <2>5
<1> QED BY <1>1, <1>2, <1>3, <1>4

LEMMA OthersOurs == Others => UNCHANGED ours
<1> USE DEF ours
<1>1. \A up \in Dirs \cup {Desk}, name \in OtherNames : Make(up, name) => UNCHANGED ours
  BY DEF Make
<1>2. \A up \in Dirs \cup {Desk}, name \in OtherNames, d \in Dirs : Move(d, up, name) => UNCHANGED ours
  BY DEF Move
<1>3. \A d \in Dirs, share \in BOOLEAN : Scan(d, share) => UNCHANGED ours
  BY DEF Scan
<1>4. \A h \in scans : EndScan(h) => UNCHANGED ours
  BY DEF EndScan
<1> QED BY <1>1, <1>2, <1>3, <1>4 DEF Others

\* What other programs leave alone: what is retained, and what a deletion is in; and they
\* give no directory the identity of one that was written to.
LEMMA OthersSpare ==
  ASSUME TypeOK, Apart, Held, Chain, Others
  PROVE  /\ Apart' /\ UNCHANGED ours
         /\ \A c \in Dirs : \/ place'[c] = place[c] /\ (Exists(c) => Exists(c)')
                           \/ /\ \A path \in Paths : bound[path] # c
                              /\ \A i \in DOMAIN stack : stack[i].dir # c
         /\ \A w \in written : ~Exists(w.dir) => ~Exists(w.dir)'
<1> USE PathsAssumption DEF filesystem, ours
<1>0. \A w \in written : w.dir \in Dirs /\ w.dir # Desk
  BY DEF TypeOK, Bindings, PathsAssumption
<1>1. ASSUME NEW up \in Dirs \cup {Desk}, NEW name \in OtherNames, Make(up, name)
      PROVE  /\ Apart' /\ \A c \in Dirs : \/ place'[c] = place[c] /\ (Exists(c) => Exists(c)')
                                          \/ /\ \A path \in Paths : bound[path] # c
                                             /\ \A i \in DOMAIN stack : stack[i].dir # c
             /\ \A w \in written : ~Exists(w.dir) => ~Exists(w.dir)'
  <2>1. PICK d \in Dirs : d = New /\ place[d] = None /\ \A w \in written : w.dir # d
    BY <1>1, MakeLeavesOne, NewIs
  <2>2. name \in STRING
    BY DEF PathsAssumption
  <2>3. Child(up, name) = None /\ place' = [place EXCEPT ![d] = In(up, name)] /\ UNCHANGED pending
    BY <1>1, <2>1 DEF Make
  <2>4. Apart' /\ \A c \in Dirs \ {d} : place'[c] = place[c]
    BY <2>2, <2>3, PlacedApart
  <2>5. ~Exists(d)
    BY <2>1 DEF Exists, PathsAssumption
  <2>6. /\ \A path \in Paths : bound[path] # d
        /\ \A i \in DOMAIN stack : stack[i].dir # d
    BY <2>5 DEF Held, Chain, IsRetained, PathsAssumption
  <2>7. \A c \in Dirs \ {d} : place'[c] = place[c] /\ (Exists(c) <=> Exists(c)')
    BY <2>3, <2>4 DEF Exists
  <2>8. \A w \in written : w.dir \in Dirs \ {d}
    BY <1>0, <2>1
  <2> QED BY <2>4, <2>6, <2>7, <2>8
<1>2. ASSUME NEW d \in Dirs, NEW up \in Dirs \cup {Desk}, NEW name \in OtherNames, Move(d, up, name)
      PROVE  /\ Apart' /\ \A c \in Dirs : \/ place'[c] = place[c] /\ (Exists(c) => Exists(c)')
                                          \/ /\ \A path \in Paths : bound[path] # c
                                             /\ \A i \in DOMAIN stack : stack[i].dir # c
             /\ \A w \in written : ~Exists(w.dir) => ~Exists(w.dir)'
  <2>1. name \in STRING
    BY DEF PathsAssumption
  <2>2. /\ Child(up, name) = None /\ place' = [place EXCEPT ![d] = In(up, name)]
        /\ Exists(d) /\ UNCHANGED pending
    BY <1>2 DEF Move, Renamable
  <2>3. Apart' /\ \A c \in Dirs \ {d} : place'[c] = place[c]
    BY <2>1, <2>2, PlacedApart
  <2>4. \A c \in Dirs \ {d} : place'[c] = place[c] /\ (Exists(c) <=> Exists(c)')
    BY <2>2, <2>3 DEF Exists
  <2>5. /\ \A path \in Paths : bound[path] # d
        /\ \A i \in DOMAIN stack : stack[i].dir # d
    <3> DEFINE new == Handle(d, TRUE, TRUE)
    <3>1. Opens(new) /\ new.of = d /\ new.delete = TRUE
      BY <1>2 DEF Move, Handle
    <3> HIDE DEF new
    <3> QED BY <3>1, RetainedHandleBlocks, CleanupHandleBlocks DEF IsRetained, PathsAssumption
  <2>6. \A w \in written : ~Exists(w.dir) => w.dir \in Dirs \ {d}
    BY <1>0, <2>2
  <2> QED BY <2>3, <2>4, <2>5, <2>6
<1>3. ASSUME NEW d \in Dirs, NEW share \in BOOLEAN, Scan(d, share)
      PROVE  Apart' /\ UNCHANGED <<place, pending>>
  <2>1. UNCHANGED <<place, pending>>
    BY <1>3 DEF Scan
  <2> QED BY <2>1 DEF Apart
<1>4. ASSUME NEW h \in scans, EndScan(h)
      PROVE  /\ Apart' /\ \A c \in Dirs : \/ place'[c] = place[c] /\ (Exists(c) => Exists(c)')
                                          \/ /\ \A path \in Paths : bound[path] # c
                                             /\ \A i \in DOMAIN stack : stack[i].dir # c
             /\ \A w \in written : ~Exists(w.dir) => ~Exists(w.dir)'
  <2>1. CASE UNCHANGED <<place, pending>>
    BY <2>1 DEF Apart, Exists
  <2>2. CASE h.of \in pending /\ place' = [place EXCEPT ![h.of] = None] /\ pending' = pending \ {h.of}
    <3>1. h.of \in Dirs /\ ~Exists(h.of)
      BY <2>2 DEF TypeOK, Exists, PathsAssumption
    <3>2. place'[h.of] = None /\ \A c \in Dirs \ {h.of} : place'[c] = place[c]
      BY <2>2, <3>1 DEF TypeOK
    <3>3. Apart'
      <4>1. \A c, e \in Dirs : place'[c] # None /\ place'[c] = place'[e] => c = e
        BY <3>1, <3>2 DEF Apart
      <4>2. \A c \in pending' : place'[c] # None
        BY <2>2, <3>2 DEF Apart, TypeOK
      <4> QED BY <4>1, <4>2 DEF Apart
    <3>4. \A c \in Dirs \ {h.of} : place'[c] = place[c] /\ (Exists(c) <=> Exists(c)')
      BY <2>2, <3>2 DEF Exists
    <3>5. /\ \A path \in Paths : bound[path] # h.of
          /\ \A i \in DOMAIN stack : stack[i].dir # h.of
      BY <3>1 DEF Held, Chain, IsRetained, PathsAssumption
    <3>6. PICK e \in Dirs : e = h.of
      BY <3>1
    <3>7. ~Exists(e)'
      BY <3>2, <3>6 DEF Exists, PathsAssumption
    <3>8. \A w \in written : w.dir = e \/ w.dir \in Dirs \ {h.of}
      BY <1>0, <3>6
    <3> QED BY <3>3, <3>4, <3>5, <3>7, <3>8
  <2> QED BY <1>4, <2>1, <2>2 DEF EndScan
<1>5. UNCHANGED ours
  BY OthersOurs
<1>6. ASSUME UNCHANGED <<place, pending>>
      PROVE  /\ \A c \in Dirs : place'[c] = place[c] /\ (Exists(c) <=> Exists(c)')
             /\ \A w \in written : ~Exists(w.dir) => ~Exists(w.dir)'
  BY <1>0, <1>6 DEF Exists
<1> QED BY <1>1, <1>2, <1>3, <1>4, <1>5, <1>6 DEF Others

\* No step takes a retained directory away, or one that a deletion is in.
LEMMA HeldStep ==
  TypeOK /\ Apart /\ Held /\ Chain /\ Promoting /\ [Next]_retainedVars => Apart' /\ Held' /\ Chain'
<1> SUFFICES ASSUME TypeOK, Apart, Held, Chain, Promoting, [Next]_retainedVars
             PROVE  Apart' /\ Held' /\ Chain'
  OBVIOUS
<1> USE PathsAssumption DEF filesystem, ours
<1>1. CASE CreateRoot \/ CreateMissing
  BY <1>1, HeldCreate
<1>2. CASE RetainListed \/ Hold \/ Resume
  BY <1>2, HeldRetain
<1>3. CASE Promote \/ Rename \/ Rebind
  BY <1>3, HeldPromotion
<1>4. CASE DeleteTree \/ DeleteEntry \/ DeleteEmptied \/ RemoveEmpty
  BY <1>4, HeldDelete
<1>5. CASE FindRoot \/ ListNext \/ Secure
  <2>1. UNCHANGED <<place, pending, bound, stack>>
    BY <1>5 DEF FindRoot, ListNext, Secure
  <2>2. doing.call # "delete"
    <3>1. FindRoot => doing.call # "delete"
      BY DEF FindRoot, Rest
    <3>2. ListNext => doing.call # "delete"
      BY DEF ListNext
    <3>3. Secure => doing.call # "delete"
      BY DEF Secure, Calls, Rest
    <3> QED BY <1>5, <3>1, <3>2, <3>3
  <2> QED BY <2>1, <2>2, HeldSame, NoDeletion
<1>6. CASE Repair \/ Write \/ Promoted \/ TreeDeleted
  <2>1. UNCHANGED <<place, pending, bound>>
    BY <1>6 DEF Repair, Write, Promoted, TreeDeleted
  <2>2. Fails \/ UNCHANGED stack
    BY <1>6 DEF Repair, Write, Promoted, TreeDeleted
  <2>3. stack = <<>>
    <3>1. Write => doing.call # "delete"
      BY DEF Write, Calls, Rest
    <3>2. TreeDeleted => stack = <<>>
      BY DEF TreeDeleted
    <3>3. Repair \/ Promoted => doing.call # "delete"
      BY DEF Repair, Promoted
    <3> QED BY <1>6, <3>1, <3>2, <3>3, NoDeletion
  <2> QED BY <2>1, <2>2, <2>3, HeldSame, HeldFails
<1>7. CASE Close
  <2>1. UNCHANGED <<place, pending, stack, doing>> /\ bound' = [p \in Paths |-> None] /\ doing = Rest
    BY <1>7 DEF Close
  <2>2. Apart' /\ Held'
    BY <2>1 DEF Apart, Held, IsRetained
  <2>3. stack = <<>>
    BY <2>1, NoDeletion DEF Rest
  <2> QED BY <2>1, <2>2, <2>3, NoChain
<1>8. CASE Others
  <2>1. UNCHANGED <<bound, stack, doing>>
    BY <1>8, OthersSpare DEF ours
  <2> QED BY <1>8, <2>1, OthersSpare, HeldOthers
<1>9. CASE UNCHANGED retainedVars
  <2>1. UNCHANGED <<place, pending, bound, stack, doing>>
    BY <1>9 DEF retainedVars
  <2> QED BY <2>1, HeldSame DEF Chain
<1> QED BY <1>1, <1>2, <1>3, <1>4, <1>5, <1>6, <1>7, <1>8, <1>9 DEF Next, Recovery

-----------------------------------------------------------------------------
(***************************************************************************)
(* Where the retained directories are.                                     *)
(***************************************************************************)

\* Each retained directory is where its path says.
LEMMA InPlace ==
  ASSUME RetainedInPlace, status # "failing", doing.call # "rebind", NEW path \in Paths, IsRetained(path)
  PROVE  /\ place[bound[path]] = In(IF path = Root THEN Desk ELSE bound[Above(path)], Last(path))
         /\ path # Root => IsRetained(Above(path))
BY DEF RetainedInPlace

\* What is at a place is found there.
LEMMA HolderIs ==
  ASSUME PathsAssumption, Apart, NEW d \in Dirs, place[d] # None
  PROVE  Holder(place, place[d]) = d
<1>1. Holder(place, place[d]) \in Dirs /\ place[Holder(place, place[d])] = place[d]
  BY HolderType
<1> QED BY <1>1 DEF Apart

\* Hence the path of a retained directory leads to it.
LEMMA Reached ==
  ASSUME TypeOK, Apart, Held, RetainedInPlace, status # "failing", doing.call # "rebind",
         NEW path \in Paths, IsRetained(path)
  PROVE  At(path) = bound[path]
<1> USE PathsAssumption
<1> DEFINE Bad == {p \in Paths : IsRetained(p) /\ At(p) # bound[p]}
<1> SUFFICES ASSUME Bad # {} PROVE FALSE
  OBVIOUS
<1>1. PICK p \in Bad : \A q \in Bad : Len(p) <= Len(q)
  <2>1. \A p \in Bad : Len(p) \in Nat
    BY PathsAre
  <2> HIDE DEF Bad
  <2> QED BY <2>1, Shortest
<1>2. p \in Paths /\ IsRetained(p) /\ At(p) # bound[p]
  BY <1>1
<1> DEFINE d == bound[p]
<1>3. d \in Dirs /\ place[d] # None
  <2>1. d \in Dirs
    BY <1>2 DEF IsRetained, TypeOK
  <2>2. Exists(d)
    BY <1>2 DEF Held
  <2> QED BY <2>1, <2>2 DEF Exists, PathsAssumption
<1>4. Holder(place, place[d]) = d
  BY <1>3, HolderIs
<1>5. place[d] = In(IF p = Root THEN Desk ELSE bound[Above(p)], Last(p)) /\ (p # Root => IsRetained(Above(p)))
  BY <1>2, InPlace
<1>6. CASE p = Root
  BY <1>2, <1>4, <1>5, <1>6, AtStep
<1>7. CASE p # Root
  <2>1. Above(p) \in Paths /\ Len(Above(p)) < Len(p) /\ Len(p) \in Nat
    BY <1>2, <1>7, PathsAre
  <2>2. Above(p) \notin Bad
    <3>1. ~(Len(p) <= Len(Above(p)))
      BY <1>2, <1>7, PathsAre
    <3> QED BY <1>1, <3>1
  <2>3. At(Above(p)) = bound[Above(p)]
    BY <1>5, <1>7, <2>1, <2>2
  <2> QED BY <1>2, <1>4, <1>5, <1>7, <2>3, AtStep
<1> QED BY <1>6, <1>7

\* A directory that a path leads to, below one that is retained, or at the root.
LEMMA FoundInPlace ==
  ASSUME TypeOK, Apart, Held, RetainedInPlace, status # "failing", doing.call # "rebind",
         NEW path \in Paths, AboveIsRetained(path), At(path) # None
  PROVE  /\ At(path) \in Dirs
         /\ place[At(path)] = In(IF path = Root THEN Desk ELSE bound[Above(path)], Last(path))
<1> USE PathsAssumption
<1>1. At(path) = Holder(place, In(IF path = Root THEN Desk ELSE bound[Above(path)], Last(path)))
  <2>1. path # Root => Above(path) \in Paths /\ IsRetained(Above(path))
    BY PathsAre DEF AboveIsRetained
  <2>2. path # Root => At(Above(path)) = bound[Above(path)]
    BY <2>1, Reached
  <2> QED BY <2>2, AtStep
<1> QED BY <1>1, AtType, HolderType

\* What the directories below a closed path are retained as stays.
LEMMA AboveNotBelow ==
  ASSUME PathsAssumption, NEW p \in Paths, NEW q \in Paths, q # Root, ~Below(p, q)
  PROVE  Above(q) # p /\ ~Below(p, Above(q))
BY PathsAre, BelowParent

\* The root is below no path.
LEMMA NothingAboveRoot ==
  ASSUME PathsAssumption, NEW p \in Paths, NEW q \in Paths, Below(p, q)
  PROVE  q # Root
<1>1. p \in Seq(STRING) /\ q \in Seq(STRING) /\ Len(p) \in Nat /\ Len(q) \in Nat /\ Len(p) # 0
  <2>1. p \in Seq(STRING) /\ q \in Seq(STRING) /\ p # <<>>
    BY PathsAre
  <2> QED BY <2>1, EmptySeq
<1>2. Len(p) < Len(q)
  BY <1>1, BelowDef
<1>3. Len(q) # 1
  BY <1>1, <1>2
<1> QED BY <1>3 DEF PathsAssumption

LEMMA NotBelowItself ==
  ASSUME PathsAssumption, NEW p \in Paths
  PROVE  ~Below(p, p)
BY PathsAre, BelowDef

-----------------------------------------------------------------------------
(***************************************************************************)
(* How far the recovery is.                                                *)
(***************************************************************************)

\* When each call is in progress.
LEMMA WhileDoing ==
  ASSUME TypeOK, Progress
  PROVE  /\ doing.call = "retain" => status = "new"
         /\ doing.call = "delete" => status \in {"open", "failing"}
         /\ doing.call \in {"create", "repair", "hold", "rename", "rebind", "resume"} => status = "open"
BY DEF TypeOK, Progress, Ended, Rest

LEMMA ProgressInit == Init => Progress
BY DEF Init, Progress, Rest, Ended, IsRetained

LEMMA ProgressFails == Fails => Progress'
BY DEF Fails, Progress, Rest, Ended

LEMMA ProgressStep == TypeOK /\ Progress /\ [Next]_retainedVars => Progress'
<1> SUFFICES ASSUME TypeOK, Progress, [Next]_retainedVars PROVE Progress'
  OBVIOUS
<1> USE DEF filesystem
<1>1. CASE CreateRoot
  BY <1>1 DEF CreateRoot, Progress, Rest, Ended, IsRetained
<1>2. CASE FindRoot
  BY <1>2 DEF FindRoot, Progress, Rest, Ended, IsRetained
<1>3. CASE RetainListed
  <2>1. PICK entry \in doing.listed :
          \/ doing' = [doing EXCEPT !.listed = @ \ {entry}, !.queue = @ \cup {entry.path}] /\ UNCHANGED status
          \/ Fails
    BY <1>3 DEF RetainListed
  <2>2. /\ doing \in [call : {"retain"}, queue : SUBSET Paths, listed : SUBSET Bindings]
        /\ status = "new" /\ written = {}
    BY <1>3, DoingIs, WhileDoing DEF RetainListed, Progress
  <2>3. CASE Fails
    BY <2>3, ProgressFails
  <2>4. CASE ~Fails
    <3>1. doing'.call = "retain" /\ status' = "new" /\ written' = {}
      BY <1>3, <2>1, <2>2, <2>4 DEF RetainListed
    <3> QED BY <3>1 DEF Progress, Ended
  <2> QED BY <2>3, <2>4
<1>4. CASE ListNext
  <2>1. /\ doing \in [call : {"retain"}, queue : SUBSET Paths, listed : SUBSET Bindings]
        /\ status = "new" /\ written = {} /\ written' = written
    BY <1>4, DoingIs, WhileDoing DEF ListNext, Progress
  <2>2. CASE doing' = Rest /\ status' = "open"
    BY <2>2 DEF Progress, Rest, Ended
  <2>3. CASE ~(doing' = Rest /\ status' = "open")
    <3>1. doing'.call = "retain" /\ status' = status
      BY <1>4, <2>1, <2>3 DEF ListNext
    <3> QED BY <2>1, <3>1 DEF Progress, Ended
  <2> QED BY <2>2, <2>3
<1>5. CASE Secure
  <2>1. status = "open" /\ status' = status /\ doing'.call # "retain"
    BY <1>5, CallIs DEF Secure
  <2> QED BY <2>1 DEF Progress, Ended
<1>6. CASE CreateMissing \/ Repair \/ Hold \/ Resume
  <2>1. status = "open"
    BY <1>6, WhileDoing DEF CreateMissing, Repair, Hold, Resume
  <2>2. CASE Fails
    BY <2>2, ProgressFails
  <2>3. CASE ~Fails
    <3>1. CASE Repair \/ Hold
      <4>1. Repair => status' = status /\ doing'.call = "hold"
        <5>1. Repair => status' = status /\ doing' = [call |-> "hold", path |-> doing.path]
          BY <2>3 DEF Repair
        <5> QED BY <5>1
      <4>2. Hold => status' = status /\ doing' = Rest
        BY <2>3 DEF Hold
      <4>3. status' = "open" /\ doing'.call \in {"hold", "none"}
        BY <2>1, <3>1, <4>1, <4>2 DEF Rest
      <4> QED BY <4>3 DEF Progress, Ended
    <3>2. CASE CreateMissing
      <4>1. doing \in [call : {"create"}, missing : SUBSET Paths]
        BY <3>2, DoingIs DEF CreateMissing
      <4>2. PICK path \in doing.missing :
              /\ doing' = IF doing.missing = {path} THEN Rest ELSE [doing EXCEPT !.missing = @ \ {path}]
              /\ UNCHANGED status
        BY <2>3, <3>2 DEF CreateMissing
      <4>3. doing'.call \in {"none", "create"}
        BY <4>1, <4>2 DEF Rest
      <4> QED BY <2>1, <4>2, <4>3 DEF Progress, Ended
    <3>3. CASE Resume
      <4>1. doing \in [call : {"resume"}, base : Paths, closed : SUBSET Bindings, failed : BOOLEAN]
        BY <3>3, DoingIs DEF Resume
      <4>2. PICK c \in doing.closed : doing' = [doing EXCEPT !.closed = @ \ {c}] /\ UNCHANGED status
        BY <2>3, <3>3 DEF Resume
      <4>3. doing'.call = "resume"
        BY <4>1, <4>2
      <4> QED BY <2>1, <4>2, <4>3 DEF Progress, Ended
    <3> QED BY <1>6, <3>1, <3>2, <3>3
  <2> QED BY <2>2, <2>3
<1>7. CASE Write \/ Promote \/ RemoveEmpty
  <2>1. status = "open" /\ doing = Rest
    BY <1>7 DEF Write, Promote, RemoveEmpty, Calls
  <2>2. CASE Fails
    BY <2>2, ProgressFails
  <2>3. CASE ~Fails
    <3>1. status' = status /\ doing'.call \in {"none", "rename", "delete"}
      <4>1. Write => status' = status /\ doing' = Rest
        BY <2>1, <2>3 DEF Write
      <4>2. Promote => status' = status /\ doing'.call = "rename"
        BY <2>3 DEF Promote
      <4>3. RemoveEmpty => status' = status /\ doing'.call = "delete"
        BY <2>3 DEF RemoveEmpty
      <4> QED BY <1>7, <4>1, <4>2, <4>3 DEF Rest
    <3> QED BY <2>1, <3>1 DEF Progress, Ended
  <2> QED BY <2>2, <2>3
<1>8. CASE Rename \/ Rebind \/ Promoted
  <2>1. status = "open"
    BY <1>8, WhileDoing DEF Rename, Rebind, Promoted
  <2>2. CASE Fails
    BY <2>2, ProgressFails
  <2>3. CASE ~Fails
    <3>1. CASE Rename
      <4>1. doing \in [call : {"rename", "rebind"}, from : Paths, to : Paths, closed : SUBSET Bindings]
        BY <3>1, DoingIs DEF Rename
      <4>2. doing' = [doing EXCEPT !.call = "rebind"] \/ Resuming(doing.from, doing.closed, TRUE)
        BY <3>1 DEF Rename
      <4>3. doing'.call \in {"rebind", "resume"} /\ status' = status
        BY <3>1, <4>1, <4>2 DEF Rename, Resuming
      <4> QED BY <2>1, <4>3 DEF Progress, Ended
    <3>2. CASE Rebind
      <4>1. doing'.call = "resume" /\ status' = status
        BY <2>3, <3>2 DEF Rebind, Resuming
      <4> QED BY <2>1, <4>1 DEF Progress, Ended
    <3>3. CASE Promoted
      BY <2>1, <2>3, <3>3 DEF Promoted, Progress, Ended, Rest
    <3> QED BY <1>8, <3>1, <3>2, <3>3
  <2> QED BY <2>2, <2>3
<1>9. CASE DeleteTree
  <2>1. status \in {"open", "failing"}
    BY <1>9 DEF DeleteTree, Calls
  <2>2. CASE Fails
    BY <2>2, ProgressFails
  <2>3. CASE ~Fails
    <3>1. doing'.call = "delete" /\ status' = status
      BY <1>9, <2>3 DEF DeleteTree
    <3> QED BY <2>1, <3>1 DEF Progress, Ended
  <2> QED BY <2>2, <2>3
<1>10. CASE DeleteEntry \/ DeleteEmptied \/ TreeDeleted
  <2>1. status \in {"open", "failing"} /\ doing.call = "delete"
    BY <1>10, WhileDoing DEF DeleteEntry, DeleteEmptied, TreeDeleted
  <2>2. CASE Fails
    BY <2>2, ProgressFails
  <2>3. CASE ~Fails
    <3>1. status' = status /\ (doing' = doing \/ doing' = Rest)
      BY <1>10, <2>3 DEF DeleteEntry, DeleteEmptied, TreeDeleted
    <3> QED BY <2>1, <3>1 DEF Progress, Ended, Rest
  <2> QED BY <2>2, <2>3
<1>11. CASE Close
  BY <1>11 DEF Close, Progress, Ended, Rest, IsRetained
<1>12. CASE Others \/ UNCHANGED retainedVars
  <2>1. Others => UNCHANGED ours
    BY OthersOurs
  <2>2. UNCHANGED <<bound, doing, status, written>>
    BY <1>12, <2>1 DEF ours, retainedVars
  <2> QED BY <2>2 DEF Progress, Ended, IsRetained
<1> QED BY <1>1, <1>2, <1>3, <1>4, <1>5, <1>6, <1>7, <1>8, <1>9, <1>10, <1>11, <1>12 DEF Next, Recovery

-----------------------------------------------------------------------------
(***************************************************************************)
(* Each step leaves the retained directories where they are.               *)
(***************************************************************************)

LEMMA PlaceInit == Init => RetainedInPlace /\ Promoting
BY DEF Init, RetainedInPlace, Promoting, IsRetained, Rest

LEMMA PlaceFails == Fails => RetainedInPlace' /\ Promoting'
BY DEF Fails, RetainedInPlace, Promoting, Rest

\* If what is retained is as before, outside a promotion.
LEMMA PlaceSame ==
  ASSUME RetainedInPlace, UNCHANGED bound, status # "failing", doing.call # "rebind",
         UNCHANGED place \/ \A path \in Paths : IsRetained(path) => place'[bound[path]] = place[bound[path]],
         doing'.call \notin {"rename", "rebind", "resume"}
  PROVE  RetainedInPlace' /\ Promoting'
<1>1. RetainedInPlace'
  <2> SUFFICES ASSUME NEW path \in Paths, IsRetained(path)'
               PROVE  /\ place'[bound'[path]] = In(IF path = Root THEN Desk ELSE bound'[Above(path)], Last(path))
                      /\ path # Root => IsRetained(Above(path))'
    BY DEF RetainedInPlace
  <2> QED BY InPlace DEF IsRetained
<1>2. Promoting'
  BY DEF Promoting
<1> QED BY <1>1, <1>2

\* If a directory is retained that is where its path says, or was retained already.
LEMMA PlaceMore ==
  ASSUME PathsAssumption, TypeOK, RetainedInPlace, status # "failing", doing.call # "rebind", doing'.call # "rebind",
         NEW path \in Paths, NEW d \in Dirs, Retain(path, d), AboveIsRetained(path),
         bound[path] \in {None, d},
         place'[d] = In(IF path = Root THEN Desk ELSE bound[Above(path)], Last(path)),
         \A q \in Paths : IsRetained(q) => place'[bound[q]] = place[bound[q]]
  PROVE  RetainedInPlace'
<1>1. \A q \in Paths : bound'[q] = IF q = path THEN d ELSE bound[q]
  BY DEF Retain, TypeOK
<1>2. \A q \in Paths : IsRetained(q) => bound'[q] = bound[q]
  BY <1>1 DEF IsRetained
<1>3. ASSUME NEW q \in Paths, IsRetained(q)'
      PROVE  /\ place'[bound'[q]] = In(IF q = Root THEN Desk ELSE bound'[Above(q)], Last(q))
             /\ q # Root => IsRetained(Above(q))'
  <2>1. q # Root => Above(q) \in Paths
    BY PathsAre
  <2>2. CASE q = path
    <3>1. q # Root => IsRetained(Above(q)) /\ bound'[Above(q)] = bound[Above(q)]
      BY <1>2, <2>1, <2>2 DEF AboveIsRetained
    <3>2. bound'[q] = d
      BY <1>1, <2>2
    <3> QED BY <2>2, <3>1, <3>2 DEF IsRetained
  <2>3. CASE q # path
    <3>1. IsRetained(q) /\ bound'[q] = bound[q]
      BY <1>1, <1>3, <2>3 DEF IsRetained
    <3>2. /\ place[bound[q]] = In(IF q = Root THEN Desk ELSE bound[Above(q)], Last(q))
          /\ q # Root => IsRetained(Above(q))
      BY <3>1, InPlace
    <3>3. q # Root => bound'[Above(q)] = bound[Above(q)]
      BY <1>2, <2>1, <3>2
    <3> QED BY <3>1, <3>2, <3>3 DEF IsRetained
  <2> QED BY <2>2, <2>3
<1> QED BY <1>3 DEF RetainedInPlace

\* If handles are closed, with those below them.
LEMMA PlaceLess ==
  ASSUME PathsAssumption, TypeOK, RetainedInPlace, status # "failing", doing.call # "rebind", doing'.call # "rebind",
         NEW gone,
         bound' = [q \in Paths |-> IF q \in gone THEN None ELSE bound[q]],
         \A q \in Paths : q # Root /\ IsRetained(q) /\ Above(q) \in gone => q \in gone,
         \A q \in Paths \ gone : IsRetained(q) => place'[bound[q]] = place[bound[q]]
  PROVE  RetainedInPlace'
<1>1. ASSUME NEW q \in Paths, IsRetained(q)'
      PROVE  /\ place'[bound'[q]] = In(IF q = Root THEN Desk ELSE bound'[Above(q)], Last(q))
             /\ q # Root => IsRetained(Above(q))'
  <2>1. q \notin gone /\ bound'[q] = bound[q] /\ IsRetained(q)
    BY <1>1 DEF IsRetained
  <2>2. /\ place[bound[q]] = In(IF q = Root THEN Desk ELSE bound[Above(q)], Last(q))
        /\ q # Root => IsRetained(Above(q))
    BY <2>1, InPlace
  <2>3. q # Root => Above(q) \in Paths /\ Above(q) \notin gone
    BY <2>1, PathsAre
  <2>4. q # Root => bound'[Above(q)] = bound[Above(q)]
    BY <2>3
  <2> QED BY <2>1, <2>2, <2>4 DEF IsRetained
<1> QED BY <1>1 DEF RetainedInPlace

\* After a failure only deletions go on.
LEMMA PlaceFailing ==
  ASSUME TypeOK, Progress, Progress', Next, status = "failing"
  PROVE  RetainedInPlace' /\ Promoting'
<1>1. CASE Others \/ UNCHANGED retainedVars
  <2>1. UNCHANGED <<status, doing>>
    BY <1>1, OthersOurs DEF ours, retainedVars
  <2> QED BY <2>1 DEF RetainedInPlace, Promoting, Progress
<1>2. CASE Recovery
  <2>1. doing.call \in {"none", "delete"}
    BY DEF Progress
  <2>2. DeleteTree \/ DeleteEntry \/ DeleteEmptied \/ TreeDeleted \/ Close
    <3>1. ~(CreateRoot \/ FindRoot \/ Secure \/ Write \/ Promote \/ RemoveEmpty)
      BY DEF CreateRoot, FindRoot, Secure, Write, Promote, RemoveEmpty, Calls
    <3>2. ~(RetainListed \/ ListNext \/ CreateMissing \/ Repair \/ Hold \/ Rename \/ Rebind \/ Resume \/ Promoted)
      BY <2>1 DEF RetainListed, ListNext, CreateMissing, Repair, Hold, Rename, Rebind, Resume, Promoted
    <3> QED BY <1>2, <3>1, <3>2 DEF Recovery
  <2>3. CASE DeleteTree \/ DeleteEntry \/ DeleteEmptied \/ TreeDeleted
    <3>1. status' = "failing"
      BY <2>3 DEF DeleteTree, DeleteEntry, DeleteEmptied, TreeDeleted, Fails
    <3> QED BY <3>1 DEF RetainedInPlace, Promoting, Progress
  <2>4. CASE Close
    BY <2>4 DEF Close, RetainedInPlace, Promoting, IsRetained, Rest
  <2> QED BY <2>2, <2>3, <2>4
<1> QED BY <1>1, <1>2 DEF Next

\* Where there is no directory, none is retained.
LEMMA NothingThere ==
  ASSUME TypeOK, Held, RetainedInPlace, status # "failing", doing.call # "rebind", NEW path \in Paths, NEW up,
         up = IF path = Root THEN Desk ELSE bound[Above(path)], Child(up, Last(path)) = None
  PROVE  bound[path] = None
<1> SUFFICES ASSUME IsRetained(path) PROVE FALSE
  BY DEF IsRetained
<1>1. place[bound[path]] = In(up, Last(path)) /\ bound[path] \in Dirs
  BY InPlace DEF IsRetained, TypeOK
<1>2. Holder(place, In(up, Last(path))) # None
  BY <1>1, PathsAssumption, HolderType
<1> QED BY <1>2 DEF Child

LEMMA PlaceCreate ==
  ASSUME TypeOK, Apart, Held, Progress, RetainedInPlace, status # "failing", CreateRoot \/ CreateMissing
  PROVE  RetainedInPlace' /\ Promoting'
<1> USE PathsAssumption DEF filesystem
<1>1. ASSUME NEW path \in Paths, NEW up \in Dirs \cup {Desk}, Unused # {}, Child(up, Last(path)) = None,
             place' = [place EXCEPT ![New] = In(up, Last(path))], Retain(path, New),
             AboveIsRetained(path), up = IF path = Root THEN Desk ELSE bound[Above(path)],
             doing.call # "rebind", doing'.call # "rebind"
      PROVE  RetainedInPlace'
  <2>1. PICK d \in Dirs : d = New /\ place[d] = None
    BY <1>1, NewIs
  <2>2. place'[d] = In(up, Last(path)) /\ \A c \in Dirs \ {d} : place'[c] = place[c]
    BY <1>1, <2>1 DEF TypeOK
  <2>3. \A q \in Paths : IsRetained(q) => bound[q] \in Dirs \ {d} /\ place[bound[q]] # None
    BY <2>1 DEF Held, Exists, IsRetained, TypeOK, PathsAssumption
  <2>4. bound[path] = None
    BY <1>1, NothingThere
  <2>5. Retain(path, d) /\ place'[d] = In(IF path = Root THEN Desk ELSE bound[Above(path)], Last(path))
    BY <1>1, <2>1, <2>2
  <2> QED BY <1>1, <2>2, <2>3, <2>4, <2>5, PlaceMore
<1>2. CASE CreateRoot
  <2>1. doing = Rest /\ doing' = Rest /\ Root \in Paths
    BY <1>2 DEF CreateRoot, PathsAssumption
  <2>2. CASE UNCHANGED <<filesystem, bound>>
    BY <2>1, <2>2, PlaceSame DEF Rest
  <2>3. CASE ~UNCHANGED <<filesystem, bound>>
    <3>1. /\ Unused # {} /\ Child(Desk, Last(Root)) = None /\ Retain(Root, New)
          /\ place' = [place EXCEPT ![New] = In(Desk, Last(Root))]
      BY <1>2, <2>3 DEF CreateRoot
    <3>2. RetainedInPlace'
      BY <1>1, <2>1, <3>1 DEF AboveIsRetained, Rest
    <3> QED BY <2>1, <3>2 DEF Promoting, Rest
  <2> QED BY <2>2, <2>3
<1>3. CASE CreateMissing
  <2>1. PICK path \in doing.missing :
          \/ Fails
          \/ /\ path # Root /\ IsRetained(Above(path)) /\ Child(bound[Above(path)], Last(path)) = None
             /\ place' = [place EXCEPT ![New] = In(bound[Above(path)], Last(path))]
             /\ Retain(path, New)
             /\ doing' = IF doing.missing = {path} THEN Rest ELSE [doing EXCEPT !.missing = @ \ {path}]
    BY <1>3 DEF CreateMissing
  <2>2. doing \in [call : {"create"}, missing : SUBSET Paths] /\ Unused # {}
    BY <1>3, DoingIs DEF CreateMissing
  <2>3. CASE Fails
    BY <2>3, PlaceFails
  <2>4. CASE ~Fails
    <3>1. path \in Paths /\ bound[Above(path)] \in Dirs
      BY <2>1, <2>2, <2>4, PathsAre DEF IsRetained, TypeOK
    <3>2. doing.call = "create" /\ doing'.call \in {"none", "create"}
      BY <2>1, <2>2, <2>4 DEF Rest
    <3>3. RetainedInPlace'
      BY <1>1, <2>1, <2>2, <2>4, <3>1, <3>2 DEF AboveIsRetained
    <3> QED BY <3>2, <3>3 DEF Promoting
  <2> QED BY <2>3, <2>4
<1> QED BY <1>2, <1>3

\* What is retained again or anew is where its path says.
LEMMA PlaceRetain ==
  ASSUME TypeOK, Apart, Held, RetainedInPlace, status # "failing", doing.call # "rebind", doing'.call # "rebind",
         UNCHANGED place, NEW path \in Paths, At(path) # None, Retain(path, At(path)), AboveIsRetained(path)
  PROVE  RetainedInPlace'
<1> USE PathsAssumption
<1>1. PICK d \in Dirs : d = At(path)
  BY FoundInPlace
<1>2. place[d] = In(IF path = Root THEN Desk ELSE bound[Above(path)], Last(path))
  BY <1>1, FoundInPlace
<1>3. bound[path] \in {None, d}
  BY <1>1, Reached DEF IsRetained
<1>4. Retain(path, d) /\ \A c : place'[c] = place[c]
  BY <1>1
<1> QED BY <1>2, <1>3, <1>4, PlaceMore

LEMMA PlacePromotion ==
  ASSUME TypeOK, Apart, Held, Progress, Promoting, RetainedInPlace, status # "failing",
         Promote \/ Rename \/ Rebind \/ Resume
  PROVE  RetainedInPlace' /\ Promoting'
<1> USE PathsAssumption DEF filesystem
<1>1. CASE Promote
  <2>0. Head(calls) \in Requests /\ Head(calls).call = "promote" /\ doing = Rest
    BY <1>1, CallIs DEF Promote
  <2>1. PICK from \in Paths, to \in Paths : from = Head(calls).path /\ to = Head(calls).to
    BY <1>1, CallIs DEF Promote
  <2>2. CASE Fails
    BY <2>2, PlaceFails
  <2>3. CASE ~Fails
    <3>1. /\ from # Root /\ IsRetained(from) /\ UNCHANGED place
          /\ doing' = [call |-> "rename", from |-> from, to |-> to,
                       closed |-> {[path |-> p, dir |-> bound[p]] : p \in Retained(from)}]
          /\ bound' = [p \in Paths |-> IF p \in Retained(from) THEN None ELSE bound[p]]
      BY <1>1, <2>1, <2>3 DEF Promote
    <3>2. /\ doing'.call = "rename" /\ doing'.from = from /\ doing'.to = to
          /\ doing'.closed = {[path |-> p, dir |-> bound[p]] : p \in Retained(from)}
      BY <3>1
    <3>3. \A q \in Paths : q # Root /\ IsRetained(q) /\ Above(q) \in Retained(from) => q \in Retained(from)
      BY <2>1, AboveNotBelow DEF Retained
    <3>4. RetainedInPlace'
      <4>1. doing.call # "rebind" /\ doing'.call # "rebind"
        BY <2>0, <3>2 DEF Rest
      <4>2. \A q \in Paths : place'[bound[q]] = place[bound[q]]
        BY <3>1
      <4> QED BY <3>1, <3>3, <4>1, <4>2, PlaceLess
    <3>5. /\ Above(to) = Above(from)
          /\ \A path \in Paths : Below(from, path) => Replaced(path, from, to) \in Paths
      BY <2>0, <2>1 DEF Requests
    <3>6. from \notin Retained(from)
      BY <2>1, NotBelowItself DEF Retained
    <3>7. IsRetained(from)'
      BY <2>1, <3>1, <3>6 DEF IsRetained
    <3>8. \A path \in Paths : Below(from, path) => ~IsRetained(path)'
      BY <3>1 DEF IsRetained, Retained
    <3>9. ASSUME NEW c \in doing'.closed
          PROVE  /\ Below(from, c.path)
                 /\ IsRetained(Above(c.path))' \/ \E other \in doing'.closed : other.path = Above(c.path)
      <4>1. PICK p \in Retained(from) : c.path = p
        BY <3>2, <3>9
      <4>2. p \in Paths /\ Below(from, p) /\ IsRetained(p)
        BY <4>1 DEF Retained
      <4>3. p # Root
        BY <2>1, <4>2, NothingAboveRoot
      <4>4. Above(p) \in Paths /\ IsRetained(Above(p))
        BY <2>0, <4>2, <4>3, PathsAre, InPlace DEF Rest
      <4>5. Above(p) = from \/ Below(from, Above(p))
        BY <2>1, <4>2, PathsAre, BelowParent
      <4>6. CASE Above(p) = from
        BY <3>7, <4>1, <4>2, <4>6
      <4>7. CASE Below(from, Above(p))
        <5>1. Above(p) \in Retained(from)
          BY <4>4, <4>7 DEF Retained
        <5>2. [path |-> Above(p), dir |-> bound[Above(p)]] \in doing'.closed
          BY <3>2, <5>1
        <5>3. \E other \in doing'.closed : other.path = Above(p)
          BY <5>2
        <5> QED BY <4>1, <4>2, <5>3
      <4> QED BY <4>5, <4>6, <4>7
    <3>10. Promoting'
      BY <3>1, <3>2, <3>5, <3>7, <3>8, <3>9 DEF Promoting, ClosedBelow
    <3> QED BY <3>4, <3>10
  <2> QED BY <2>2, <2>3
<1>2. CASE Rename
  <2> DEFINE up == bound[Above(doing.to)]
             name == Last(doing.to)
             d == bound[doing.from]
  <2>1. /\ doing \in [call : {"rename", "rebind"}, from : Paths, to : Paths, closed : SUBSET Bindings]
        /\ doing.call = "rename" /\ UNCHANGED bound
    BY <1>2, DoingIs DEF Rename
  <2>2. /\ doing.from # Root /\ IsRetained(doing.from) /\ Above(doing.to) = Above(doing.from)
        /\ doing.from \in Paths /\ doing.to \in Paths
        /\ \A path \in Paths : Below(doing.from, path) =>
             ~IsRetained(path) /\ Replaced(path, doing.from, doing.to) \in Paths
        /\ ClosedBelow(doing.from)
    BY <2>1 DEF Promoting
  <2>3. CASE Resuming(doing.from, doing.closed, TRUE) /\ UNCHANGED place
    <3>1. doing'.call = "resume" /\ doing'.base = doing.from /\ doing'.closed = doing.closed
      BY <2>3 DEF Resuming
    <3>2. RetainedInPlace'
      <4> SUFFICES ASSUME NEW path \in Paths, IsRetained(path)'
                   PROVE  /\ place'[bound'[path]] = In(IF path = Root THEN Desk ELSE bound'[Above(path)], Last(path))
                          /\ path # Root => IsRetained(Above(path))'
        BY DEF RetainedInPlace
      <4> QED BY <2>1, <2>3, InPlace DEF IsRetained
    <3>3. Promoting'
      BY <2>1, <2>2, <3>1 DEF Promoting, ClosedBelow, IsRetained
    <3> QED BY <3>2, <3>3
  <2>4. CASE /\ Visible(Above(doing.to), up) /\ Renamable(d, up, name)
             /\ place' = [place EXCEPT ![d] = In(up, name)]
             /\ doing' = [doing EXCEPT !.call = "rebind"]
    <3>1. /\ doing'.call = "rebind" /\ doing'.from = doing.from /\ doing'.to = doing.to
          /\ doing'.closed = doing.closed
      BY <2>1, <2>4
    <3>2. d \in Dirs
      BY <2>2 DEF IsRetained, TypeOK
    <3>3. place'[d] = In(up, name) /\ \A c \in Dirs \ {d} : place'[c] = place[c]
      BY <2>4, <3>2 DEF TypeOK
    <3>4. \A p \in Paths : IsRetained(p) /\ p # doing.from => bound[p] \in Dirs \ {d}
      BY <2>2 DEF IsRetained, TypeOK, Held
    <3>5. RetainedInPlace'
      <4> SUFFICES ASSUME NEW path \in Paths, IsRetained(path)', path # doing.from
                   PROVE  /\ place'[bound'[path]] = In(IF path = Root THEN Desk ELSE bound'[Above(path)], Last(path))
                          /\ path # Root => IsRetained(Above(path))'
        BY <3>1 DEF RetainedInPlace
      <4>1. IsRetained(path) /\ place'[bound[path]] = place[bound[path]]
        BY <2>1, <3>3, <3>4 DEF IsRetained
      <4> QED BY <2>1, <4>1, InPlace DEF IsRetained
    <3>6. IsRetained(Above(doing.from))
      BY <2>1, <2>2, InPlace
    <3>7. ~IsRetained(doing.to)
      <4>1. doing.to # Root
        <5>1. Above(doing.from) \in Paths /\ Above(doing.from) # <<>>
          BY <2>2, PathsAre
        <5> QED BY <2>2, <5>1, PathsAre
      <4>2. PICK u : u = up
        OBVIOUS
      <4>3. Child(u, Last(doing.to)) = None /\ u = bound[Above(doing.to)]
        BY <2>4, <4>2 DEF Renamable
      <4> QED BY <2>1, <2>2, <4>1, <4>3, NothingThere DEF IsRetained
    <3>8. Promoting'
      <4>1. /\ bound'[doing'.from] # None /\ bound'[doing'.to] = None /\ bound'[Above(doing'.to)] # None
            /\ \A path : IsRetained(path)' <=> IsRetained(path)
        BY <2>1, <2>2, <3>1, <3>6, <3>7 DEF IsRetained
      <4>2. \A c \in doing'.closed :
              /\ Below(doing'.from, c.path)
              /\ bound'[Above(c.path)] # None \/ \E other \in doing'.closed : other.path = Above(c.path)
        BY <2>1, <2>2, <3>1 DEF ClosedBelow, IsRetained
      <4>3. place'[bound'[doing'.from]] = In(bound'[Above(doing'.to)], Last(doing'.to))
        BY <2>1, <3>1, <3>3
      <4> QED BY <2>2, <3>1, <4>1, <4>2, <4>3 DEF Promoting, ClosedBelow, IsRetained
    <3> QED BY <3>5, <3>8
  <2> QED BY <1>2, <2>3, <2>4 DEF Rename
<1>3. CASE Rebind
  <2>1. doing \in [call : {"rename", "rebind"}, from : Paths, to : Paths, closed : SUBSET Bindings]
        /\ doing.call = "rebind"
    BY <1>3, DoingIs DEF Rebind
  <2>2. PICK from \in Paths, to \in Paths : from = doing.from /\ to = doing.to
    BY <2>1
  <2>3. /\ from # Root /\ IsRetained(from) /\ Above(to) = Above(from)
        /\ \A path \in Paths : Below(from, path) => ~IsRetained(path) /\ Replaced(path, from, to) \in Paths
        /\ ClosedBelow(from)
        /\ place[bound[from]] = In(bound[Above(to)], Last(to))
        /\ ~IsRetained(to) /\ IsRetained(Above(to))
    BY <2>1, <2>2 DEF Promoting
  <2>4. CASE Fails
    BY <2>4, PlaceFails
  <2>5. CASE ~Fails
    <3> DEFINE Moved(path) == Replaced(path, from, to)
    <3>1. /\ UNCHANGED place
          /\ bound' = [bound EXCEPT ![from] = None, ![to] = bound[from]]
          /\ Resuming(to, {[path |-> Moved(c.path), dir |-> c.dir] : c \in doing.closed}, FALSE)
      <4>1. /\ UNCHANGED place
            /\ bound' = [bound EXCEPT ![doing.from] = None, ![doing.to] = bound[doing.from]]
            /\ Resuming(doing.to, {[path |-> Replaced(c.path, doing.from, doing.to), dir |-> c.dir]
                                   : c \in doing.closed}, FALSE)
        BY <1>3, <2>5 DEF Rebind
      <4> QED BY ZenonT(30), <2>2, <4>1
    <3> HIDE DEF Moved
    <3>2. /\ doing'.call = "resume" /\ doing'.base = to
          /\ doing'.closed = {[path |-> Moved(c.path), dir |-> c.dir] : c \in doing.closed}
      BY <3>1 DEF Resuming
    <3>3. \A q \in Paths : bound'[q] = IF q = to THEN bound[from] ELSE IF q = from THEN None ELSE bound[q]
      BY <3>1 DEF TypeOK
    <3>4. to # Root /\ Above(from) \in Paths /\ Above(from) # from /\ Above(to) # to
      <4>1. Above(from) \in Paths /\ Above(from) # from
        BY <2>3, PathsAre
      <4>2. Above(from) # <<>>
        BY <4>1, PathsAre
      <4>3. to # Root
        BY <2>3, <4>2, PathsAre
      <4> QED BY <4>1, <4>3, PathsAre
    <3>5. RetainedInPlace'
      <4> SUFFICES ASSUME NEW path \in Paths, IsRetained(path)'
                   PROVE  /\ place'[bound'[path]] = In(IF path = Root THEN Desk ELSE bound'[Above(path)], Last(path))
                          /\ path # Root => IsRetained(Above(path))'
        BY DEF RetainedInPlace
      <4>1. CASE path = to
        <5>1. bound'[Above(to)] = bound[Above(to)]
          BY <2>3, <3>3, <3>4
        <5> QED BY <2>3, <3>1, <3>3, <3>4, <4>1, <5>1 DEF IsRetained
      <4>2. CASE path # to
        <5>1. path # from /\ bound'[path] = bound[path] /\ IsRetained(path)
          BY <3>3, <4>2 DEF IsRetained
        <5>2. /\ place[bound[path]] = In(IF path = Root THEN Desk ELSE bound[Above(path)], Last(path))
              /\ path # Root => IsRetained(Above(path))
          BY <2>2, <5>1 DEF RetainedInPlace
        <5>3. ASSUME path # Root PROVE bound'[Above(path)] = bound[Above(path)]
          <6>1. Above(path) \in Paths /\ Above(path) # to
            BY <2>3, <5>2, <5>3, PathsAre
          <6>2. Above(path) # from
            BY <2>3, <5>1, <5>3, PathsAre
          <6> QED BY <3>3, <6>1, <6>2
        <5> QED BY <3>1, <5>1, <5>2, <5>3 DEF IsRetained
      <4> QED BY <4>1, <4>2
    <3>6. ASSUME NEW c \in doing'.closed
          PROVE  /\ Below(to, c.path)
                 /\ IsRetained(Above(c.path))' \/ \E other \in doing'.closed : other.path = Above(c.path)
      <4>1. PICK old \in doing.closed : c.path = Moved(old.path)
        BY <3>2
      <4>2. PICK p \in Paths : p = old.path /\ Below(from, p)
        BY <2>1, <2>3 DEF ClosedBelow, Bindings
      <4>3. from \in Seq(STRING) /\ to \in Seq(STRING) /\ p \in Seq(STRING)
        BY PathsAre
      <4>4. /\ Below(to, Moved(p))
            /\ Above(p) = from => Above(Moved(p)) = to
            /\ Above(p) # from => Below(from, Above(p)) /\ Above(Moved(p)) = Moved(Above(p))
        BY <4>2, <4>3, ReplacedIs DEF Moved
      <4>5. CASE Above(p) = from
        <5>1. Above(c.path) = to
          BY <4>1, <4>2, <4>4, <4>5
        <5>2. bound'[Above(c.path)] # None
          BY <2>3, <3>3, <5>1 DEF IsRetained
        <5> QED BY <4>1, <4>2, <4>4, <5>2 DEF IsRetained
      <4>6. CASE Above(p) # from
        <5>1. p # Root
          BY <4>2, NothingAboveRoot
        <5>2. Above(p) \in Paths /\ ~IsRetained(Above(p))
          BY <2>3, <4>4, <4>6, <5>1, PathsAre
        <5>3. PICK other \in doing.closed : other.path = Above(p)
          BY <2>3, <4>2, <5>2 DEF ClosedBelow
        <5>4. [path |-> Moved(other.path), dir |-> other.dir] \in doing'.closed
          BY <3>2
        <5>5. Moved(other.path) = Above(c.path)
          BY <4>1, <4>2, <4>4, <4>6, <5>3
        <5>6. \E o \in doing'.closed : o.path = Above(c.path)
          BY <5>4, <5>5
        <5> QED BY <4>1, <4>2, <4>4, <5>6
      <4> QED BY <4>5, <4>6
    <3>7. Promoting'
      <4>1. bound'[doing'.base] # None
        BY <2>3, <3>2, <3>3 DEF IsRetained
      <4> QED BY <3>2, <3>6, <4>1 DEF Promoting, ClosedBelow, IsRetained
    <3> QED BY <3>5, <3>7
  <2> QED BY <2>4, <2>5
<1>4. CASE Resume
  <2>1. doing \in [call : {"resume"}, base : Paths, closed : SUBSET Bindings, failed : BOOLEAN]
    BY <1>4, DoingIs DEF Resume
  <2>2. IsRetained(doing.base) /\ ClosedBelow(doing.base)
    BY <2>1 DEF Promoting
  <2>3. PICK c \in doing.closed :
          /\ \A other \in doing.closed : Len(c.path) <= Len(other.path)
          /\ \/ /\ At(c.path) # None /\ Retain(c.path, At(c.path))
                /\ doing' = [doing EXCEPT !.closed = @ \ {c}]
             \/ Fails
    BY <1>4 DEF Resume
  <2>4. c.path \in Paths /\ UNCHANGED place
    BY <1>4, <2>1 DEF Resume, Bindings
  <2>5. CASE Fails
    BY <2>5, PlaceFails
  <2>6. CASE ~Fails
    <3>1. At(c.path) # None /\ Retain(c.path, At(c.path)) /\ doing' = [doing EXCEPT !.closed = @ \ {c}]
      BY <2>3, <2>6
    <3>2. doing'.call = "resume" /\ doing'.base = doing.base /\ doing'.closed = doing.closed \ {c}
      BY <2>1, <3>1
    <3>3. IsRetained(Above(c.path))
      <4>1. c.path # Root
        <5>1. Below(doing.base, c.path) /\ doing.base \in Paths
          BY <2>1, <2>2 DEF ClosedBelow
        <5> QED BY <2>4, <5>1, NothingAboveRoot
      <4>2. Len(Above(c.path)) = Len(c.path) - 1 /\ Len(c.path) \in Nat
        BY <2>4, <4>1, PathsAre
      <4>3. ~\E other \in doing.closed : other.path = Above(c.path)
        <5>1. ~(Len(c.path) <= Len(Above(c.path)))
          BY <4>2
        <5> QED BY <2>3, <5>1
      <4> QED BY <2>2, <4>3 DEF ClosedBelow
    <3>4. RetainedInPlace'
      <4>1. AboveIsRetained(c.path) /\ doing.call # "rebind" /\ doing'.call # "rebind"
        BY <2>1, <3>2, <3>3 DEF AboveIsRetained
      <4> QED BY <2>4, <3>1, <4>1, PlaceRetain
    <3>5. \A q \in Paths : IsRetained(q) \/ q = c.path => bound'[q] # None
      BY <2>4, <3>1 DEF Retain, IsRetained, TypeOK
    <3>6. ASSUME NEW x \in doing'.closed
          PROVE  /\ Below(doing.base, x.path)
                 /\ bound'[Above(x.path)] # None \/ \E other \in doing'.closed : other.path = Above(x.path)
      <4>1. x \in doing.closed /\ Below(doing.base, x.path)
        BY <2>2, <3>2 DEF ClosedBelow
      <4>2. Above(x.path) \in Paths
        <5>1. PICK p \in Paths : p = x.path
          BY <2>1, <4>1 DEF Bindings
        <5>2. doing.base \in Paths /\ Below(doing.base, p)
          BY <2>1, <4>1, <5>1
        <5>3. p # Root
          BY <5>2, NothingAboveRoot
        <5> QED BY <5>1, <5>3, PathsAre
      <4>3. IsRetained(Above(x.path)) \/ \E other \in doing.closed : other.path = Above(x.path)
        BY <2>2, <4>1 DEF ClosedBelow
      <4> QED BY <3>2, <3>5, <4>1, <4>2, <4>3
    <3>7. Promoting'
      <4>1. bound'[doing'.base] # None
        BY <2>1, <2>2, <3>2, <3>5
      <4> QED BY <3>2, <3>6, <4>1 DEF Promoting, ClosedBelow, IsRetained
    <3> QED BY <3>4, <3>7
  <2> QED BY <2>5, <2>6
<1> QED BY <1>1, <1>2, <1>3, <1>4

\* A step that deletes, or closes the handles of what is deleted.
LEMMA PlaceDelete ==
  ASSUME TypeOK, Apart, Held, Chain, RetainedInPlace, status # "failing",
         DeleteTree \/ DeleteEntry \/ DeleteEmptied \/ RemoveEmpty
  PROVE  RetainedInPlace' /\ Promoting'
<1> USE PathsAssumption DEF filesystem
<1>1. CASE DeleteTree
  <2>1. PICK path \in Temporary :
          \/ Fails
          \/ /\ bound' = [p \in Paths |-> IF p \in Retained(path) \cup {path} THEN None ELSE bound[p]]
             /\ doing' = [call |-> "delete", path |-> path]
    BY <1>1 DEF DeleteTree
  <2>2. path \in Paths /\ UNCHANGED place /\ doing.call = "none"
    BY <1>1 DEF PathsAssumption, DeleteTree, Rest
  <2>3. CASE Fails
    BY <2>3, PlaceFails
  <2>4. CASE ~Fails
    <3>1. \A q \in Paths : q # Root /\ IsRetained(q) /\ Above(q) \in Retained(path) \cup {path}
            => q \in Retained(path) \cup {path}
      BY <2>2, AboveNotBelow DEF Retained
    <3>2. RetainedInPlace'
      <4>1. PICK gone : gone = Retained(path) \cup {path}
        OBVIOUS
      <4>2. doing'.call = "delete" /\ bound' = [p \in Paths |-> IF p \in gone THEN None ELSE bound[p]]
        BY <2>1, <2>4, <4>1
      <4>3. \A q \in Paths : place'[bound[q]] = place[bound[q]]
        BY <2>2
      <4>4. \A q \in Paths : q # Root /\ IsRetained(q) /\ Above(q) \in gone => q \in gone
        BY <3>1, <4>1
      <4>5. doing.call # "rebind" /\ doing'.call # "rebind"
        BY <2>2, <4>2
      <4> QED BY <4>2, <4>3, <4>4, <4>5, PlaceLess
    <3> QED BY <2>1, <2>4, <3>2 DEF Promoting
  <2> QED BY <2>3, <2>4
<1>2. CASE DeleteEntry
  <2>1. UNCHANGED <<place, bound>> /\ doing.call = "delete" /\ (Fails \/ UNCHANGED doing)
    BY <1>2 DEF DeleteEntry
  <2> QED BY <2>1, PlaceSame, PlaceFails
<1>3. CASE DeleteEmptied
  <2>0. UNCHANGED bound /\ doing.call = "delete"
    BY <1>3 DEF DeleteEmptied
  <2>1. Fails \/ (Deleted(Last(stack).dir) /\ UNCHANGED doing)
    BY <1>3 DEF DeleteEmptied
  <2>2. CASE Fails
    BY <2>2, PlaceFails
  <2>3. CASE Deleted(Last(stack).dir) /\ UNCHANGED doing
    <3>1. Last(stack) = stack[Len(stack)] /\ Len(stack) \in DOMAIN stack
      <4>1. stack # <<>>
        BY <1>3 DEF DeleteEmptied
      <4> QED BY <4>1, StackType, EmptySeq DEF Last
    <3>2. PICK d \in Dirs : d = Last(stack).dir
      BY <3>1, StackType
    <3>3. Exists(d) /\ \A path \in Paths : bound[path] # d
      BY <3>1, <3>2 DEF Chain
    <3>4. \A c \in Dirs \ {d} : place'[c] = place[c]
      BY <2>3, <3>2, <3>3, DeletedApart
    <3>5. \A path \in Paths : IsRetained(path) => place'[bound[path]] = place[bound[path]]
      BY <3>3, <3>4 DEF IsRetained, TypeOK
    <3> QED BY <2>0, <2>3, <3>5, PlaceSame
  <2> QED BY <2>1, <2>2, <2>3
<1>4. CASE RemoveEmpty
  <2>1. doing.call = "none"
    BY <1>4 DEF RemoveEmpty, Calls, Rest
  <2>2. PICK path \in Paths : path = Head(calls).path
    BY <1>4, CallIs DEF RemoveEmpty
  <2>3. CASE Fails
    BY <2>3, PlaceFails
  <2>4. CASE ~Fails
    <3>1. /\ IsRetained(path) /\ Retained(path) = {} /\ Deleted(bound[path])
          /\ bound' = [bound EXCEPT ![path] = None] /\ doing' = [call |-> "delete", path |-> path]
      BY <1>4, <2>2, <2>4 DEF RemoveEmpty
    <3>2. PICK d \in Dirs : d = bound[path]
      BY <3>1 DEF IsRetained, TypeOK
    <3>3. Exists(d) /\ \A p \in Paths : bound[p] = d => p = path
      BY <3>1, <3>2 DEF Held
    <3>4. \A c \in Dirs \ {d} : place'[c] = place[c]
      BY <3>1, <3>2, <3>3, DeletedApart
    <3>5. bound' = [q \in Paths |-> IF q \in {path} THEN None ELSE bound[q]]
      BY <3>1 DEF TypeOK
    <3>6. \A q \in Paths : q # Root /\ IsRetained(q) /\ Above(q) \in {path} => q \in {path}
      BY <3>1, AboveNotBelow DEF Retained
    <3>7. \A q \in Paths \ {path} : IsRetained(q) => place'[bound[q]] = place[bound[q]]
      BY <3>2, <3>3, <3>4 DEF IsRetained, TypeOK
    <3>8. RetainedInPlace'
      <4>1. doing.call # "rebind" /\ doing'.call # "rebind"
        BY <2>1, <3>1
      <4> QED BY <3>5, <3>6, <3>7, <4>1, PlaceLess
    <3> QED BY <3>1, <3>8 DEF Promoting
  <2> QED BY <2>3, <2>4
<1> QED BY <1>1, <1>2, <1>3, <1>4

LEMMA PlaceStep ==
  /\ TypeOK /\ Apart /\ Held /\ Chain /\ Progress /\ Progress' /\ Promoting /\ RetainedInPlace
  /\ [Next]_retainedVars
  => RetainedInPlace' /\ Promoting'
<1> SUFFICES ASSUME TypeOK, Apart, Held, Chain, Progress, Progress', Promoting, RetainedInPlace,
                    [Next]_retainedVars
             PROVE  RetainedInPlace' /\ Promoting'
  OBVIOUS
<1> USE PathsAssumption DEF filesystem
<1>1. CASE UNCHANGED retainedVars
  BY <1>1 DEF retainedVars, RetainedInPlace, Promoting, ClosedBelow, IsRetained
<1>2. CASE Others
  <2>1. UNCHANGED <<bound, doing, status>>
    BY <1>2, OthersOurs DEF ours
  <2>2. \A path \in Paths : IsRetained(path) => place'[bound[path]] = place[bound[path]]
    <3>1. \A c \in Dirs : place'[c] = place[c] \/ \A path \in Paths : bound[path] # c
      BY <1>2, OthersSpare
    <3> QED BY <3>1 DEF IsRetained, TypeOK
  <2>3. RetainedInPlace'
    BY <2>1, <2>2 DEF RetainedInPlace, IsRetained
  <2>4. Promoting'
    <3>1. doing.call = "rebind" => doing.from \in Paths
      BY DoingIs
    <3> QED BY <2>1, <2>2, <3>1 DEF Promoting, ClosedBelow, IsRetained
  <2> QED BY <2>3, <2>4
<1>3. CASE Recovery /\ status = "failing"
  BY <1>3, PlaceFailing DEF Next
<1>4. ASSUME status # "failing", Recovery
      PROVE  RetainedInPlace' /\ Promoting'
  <2>1. CASE CreateRoot \/ CreateMissing
    BY <1>4, <2>1, PlaceCreate
  <2>2. CASE Promote \/ Rename \/ Rebind \/ Resume
    BY <1>4, <2>2, PlacePromotion
  <2>3. CASE DeleteTree \/ DeleteEntry \/ DeleteEmptied \/ RemoveEmpty
    BY <1>4, <2>3, PlaceDelete
  <2>4. CASE FindRoot \/ ListNext \/ Secure \/ Repair \/ Write \/ Promoted \/ TreeDeleted
    <3>1. UNCHANGED <<place, bound>>
      BY <2>4 DEF FindRoot, ListNext, Secure, Repair, Write, Promoted, TreeDeleted
    <3>2. doing.call # "rebind"
      <4>1. FindRoot \/ Secure \/ Write => doing.call # "rebind"
        <5>1. (FindRoot => doing = Rest) /\ (Secure => doing = Rest) /\ (Write => doing = Rest)
          BY DEF FindRoot, Secure, Write, Calls
        <5> QED BY <5>1 DEF Rest
      <4>2. ListNext \/ Repair \/ Promoted \/ TreeDeleted => doing.call # "rebind"
        BY DEF ListNext, Repair, Promoted, TreeDeleted
      <4> QED BY <2>4, <4>1, <4>2
    <3>3. Fails \/ doing'.call \notin {"rename", "rebind", "resume"}
      <4>1. FindRoot => doing'.call \in {"none", "retain"}
        BY DEF FindRoot, Rest
      <4>2. ListNext => doing'.call \in {"none", "retain"}
        <5>1. ListNext => doing \in [call : {"retain"}, queue : SUBSET Paths, listed : SUBSET Bindings]
          BY DoingIs DEF ListNext
        <5>2. ASSUME ListNext, doing' # Rest
              PROVE  doing'.call = "retain"
          <6>1. PICK path, found : doing' = [doing EXCEPT !.queue = @ \ {path}, !.listed = found]
            BY <5>2 DEF ListNext
          <6> QED BY <5>1, <5>2, <6>1
        <5> QED BY <5>2 DEF Rest
      <4>3. Secure => doing'.call \in {"create", "repair"}
        BY DEF Secure
      <4>4. Repair => Fails \/ doing' = [call |-> "hold", path |-> doing.path]
        BY DEF Repair
      <4>5. Write \/ Promoted \/ TreeDeleted => Fails \/ doing'.call = "none"
        <5>1. Write => Fails \/ doing' = Rest
          BY DEF Write, Calls
        <5>2. Promoted => Fails \/ doing' = Rest
          BY DEF Promoted
        <5>3. TreeDeleted => Fails \/ doing' = Rest
          BY DEF TreeDeleted
        <5> QED BY <5>1, <5>2, <5>3 DEF Rest
      <4> QED BY <2>4, <4>1, <4>2, <4>3, <4>4, <4>5
    <3> QED BY <1>4, <3>1, <3>2, <3>3, PlaceSame, PlaceFails
  <2>5. CASE RetainListed
    <3>1. doing \in [call : {"retain"}, queue : SUBSET Paths, listed : SUBSET Bindings] /\ UNCHANGED place
      BY <2>5, DoingIs DEF RetainListed
    <3>2. PICK entry \in doing.listed :
            \/ /\ AboveIsRetained(entry.path) /\ At(entry.path) = entry.dir /\ Retain(entry.path, At(entry.path))
               /\ doing' = [doing EXCEPT !.listed = @ \ {entry}, !.queue = @ \cup {entry.path}]
            \/ Fails
      BY <2>5 DEF RetainListed
    <3>3. PICK path \in Paths, d \in Dirs : path = entry.path /\ d = entry.dir
      BY <3>1 DEF Bindings
    <3>4. CASE ~Fails
      <4>1. AboveIsRetained(path) /\ At(path) # None /\ Retain(path, At(path))
        BY <3>2, <3>3, <3>4 DEF PathsAssumption
      <4>2. doing.call = "retain" /\ doing'.call = "retain"
        BY <3>1, <3>2, <3>4
      <4>3. RetainedInPlace'
        BY <1>4, <3>1, <4>1, <4>2, PlaceRetain
      <4> QED BY <4>2, <4>3 DEF Promoting
    <3> QED BY <3>4, PlaceFails
  <2>6. CASE Hold
    <3>1. PICK path \in Paths : path = doing.path
      BY <2>6, DoingIs DEF Hold
    <3>2. UNCHANGED place /\ doing.call = "hold"
      BY <2>6 DEF Hold
    <3>3. CASE ~Fails
      <4>1. /\ Retain(path, At(path)) /\ doing' = Rest
            /\ \/ IsRetained(path) /\ Visible(path, bound[path])
               \/ AboveIsRetained(path) /\ At(path) # None
        BY <2>6, <3>1, <3>3 DEF Hold
      <4>2. AboveIsRetained(path) /\ At(path) # None
        <5>1. IsRetained(path) => AboveIsRetained(path)
          BY <1>4, <3>2, InPlace DEF AboveIsRetained
        <5> QED BY <4>1, <5>1 DEF Visible, IsRetained
      <4>3. RetainedInPlace'
        BY <1>4, <3>2, <4>1, <4>2, PlaceRetain DEF Rest
      <4> QED BY <4>1, <4>3 DEF Promoting, Rest
    <3> QED BY <3>3, PlaceFails
  <2>7. CASE Close
    BY <2>7 DEF Close, RetainedInPlace, Promoting, IsRetained, Rest
  <2> QED BY <1>4, <2>1, <2>2, <2>3, <2>4, <2>5, <2>6, <2>7 DEF Recovery
<1> QED BY <1>1, <1>2, <1>3, <1>4 DEF Next

-----------------------------------------------------------------------------
(***************************************************************************)
(* What was written stays retained.                                        *)
(***************************************************************************)

\* A step that leaves alone what was written, outside a promotion.
LEMMA KeptSame ==
  ASSUME Kept, status = "open", UNCHANGED written,
         \A w \in written : ~Exists(w.dir) => ~Exists(w.dir)',
         \A w \in written : Exists(w.dir) /\ bound[w.path] = w.dir => bound'[w.path] = w.dir \/ ~Exists(w.dir)',
         \/ doing.call \notin {"rename", "rebind", "resume"}
         \/ doing.closed = {}
  PROVE  Kept'
BY DEF Kept

LEMMA KeptFails == Fails => Kept'
BY DEF Fails, Kept

\* The file system as it was.
LEMMA ExistsSame ==
  ASSUME UNCHANGED <<place, pending>>, NEW d
  PROVE  Exists(d)' <=> Exists(d)
BY DEF Exists

\* A promotion keeps what was written, or closes it for a while.
LEMMA KeptPromotion ==
  ASSUME TypeOK, Apart, Held, Promoting, RetainedInPlace, Kept, status = "open",
         Promote \/ Rename \/ Rebind \/ Resume \/ Promoted
  PROVE  Kept'
<1> USE PathsAssumption DEF filesystem
<1>0. \A w \in written : w.path \in Paths /\ w.dir \in Dirs /\ w = [path |-> w.path, dir |-> w.dir]
  BY DEF TypeOK, Bindings
<1>1. CASE Promote
  <2>1. PICK from \in Paths : from = Head(calls).path /\ doing.call = "none"
    BY <1>1, CallIs DEF Promote, Rest
  <2>2. CASE ~Fails
    <3>1. PICK to :
            /\ UNCHANGED <<place, pending, written>>
            /\ doing' = [call |-> "rename", from |-> from, to |-> to,
                         closed |-> {[path |-> p, dir |-> bound[p]] : p \in Retained(from)}]
            /\ bound' = [p \in Paths |-> IF p \in Retained(from) THEN None ELSE bound[p]]
      BY <1>1, <2>1, <2>2 DEF Promote
    <3>2. doing'.call = "rename" /\ doing'.closed = {[path |-> p, dir |-> bound[p]] : p \in Retained(from)}
      BY <3>1
    <3>3. ASSUME NEW w \in written, Exists(w.dir)
          PROVE  bound'[w.path] = w.dir \/ w \in doing'.closed
      <4>1. bound[w.path] = w.dir
        BY <2>1, <3>3 DEF Kept
      <4>2. w.path \in Retained(from) => w \in doing'.closed
        BY <1>0, <3>2, <4>1
      <4> QED BY <1>0, <3>1, <4>1, <4>2
    <3> QED BY <3>1, <3>2, <3>3, ExistsSame DEF Kept
  <2> QED BY <2>2, KeptFails
<1>2. CASE Rename
  <2>1. /\ doing \in [call : {"rename", "rebind"}, from : Paths, to : Paths, closed : SUBSET Bindings]
        /\ doing.call = "rename" /\ UNCHANGED <<bound, written, pending>>
    BY <1>2, DoingIs DEF Rename
  <2>2. doing'.call \in {"rebind", "resume"} /\ doing'.closed = doing.closed
    <3>1. doing' = [doing EXCEPT !.call = "rebind"] \/ Resuming(doing.from, doing.closed, TRUE)
      BY <1>2 DEF Rename
    <3> QED BY <2>1, <3>1 DEF Resuming
  <2>3. PICK d \in Dirs : d = bound[doing.from]
    BY <2>1 DEF Promoting, IsRetained, TypeOK
  <2>4. Exists(d) /\ d \notin pending /\ place[d] # None
    BY <2>1, <2>3 DEF Promoting, Held, Exists, PathsAssumption
  <2>5. \A c \in Dirs : place'[c] # None => place[c] # None
    <3>1. UNCHANGED place \/ \E there : place' = [place EXCEPT ![d] = there]
      BY <1>2, <2>3 DEF Rename
    <3> QED BY <2>4, <3>1 DEF TypeOK
  <2>6. \A w \in written : Exists(w.dir)' => Exists(w.dir)
    BY <1>0, <2>1, <2>5 DEF Exists
  <2> QED BY <2>1, <2>2, <2>6 DEF Kept
<1>3. CASE Rebind
  <2>1. doing \in [call : {"rename", "rebind"}, from : Paths, to : Paths, closed : SUBSET Bindings]
        /\ doing.call = "rebind"
    BY <1>3, DoingIs DEF Rebind
  <2>2. PICK from \in Paths, to \in Paths : from = doing.from /\ to = doing.to
    BY <2>1
  <2>3. /\ IsRetained(from) /\ ~IsRetained(to) /\ \A path \in Paths : Below(from, path) => ~IsRetained(path)
        /\ \A c \in doing.closed : Below(from, c.path)
    BY <2>1, <2>2 DEF Promoting, ClosedBelow
  <2>4. CASE ~Fails
    <3> DEFINE Moved(path) == Replaced(path, from, to)
               Renamed(w) == IF w.path = from \/ Below(from, w.path) THEN [w EXCEPT !.path = Moved(@)] ELSE w
    <3>1. /\ UNCHANGED <<place, pending>>
          /\ bound' = [bound EXCEPT ![from] = None, ![to] = bound[from]]
          /\ Resuming(to, {[path |-> Moved(c.path), dir |-> c.dir] : c \in doing.closed}, FALSE)
          /\ written' = {Renamed(w) : w \in written}
      <4>1. /\ UNCHANGED <<place, pending>>
            /\ bound' = [bound EXCEPT ![doing.from] = None, ![doing.to] = bound[doing.from]]
            /\ Resuming(doing.to, {[path |-> Replaced(c.path, doing.from, doing.to), dir |-> c.dir]
                                   : c \in doing.closed}, FALSE)
            /\ written' = {IF w.path = doing.from \/ Below(doing.from, w.path)
                           THEN [w EXCEPT !.path = Replaced(@, doing.from, doing.to)] ELSE w : w \in written}
        BY <1>3, <2>4 DEF Rebind
      <4>2. written' = {Renamed(w) : w \in written}
        BY <2>2, <4>1
      <4>3. Resuming(to, {[path |-> Moved(c.path), dir |-> c.dir] : c \in doing.closed}, FALSE)
        BY ZenonT(30), <2>2, <4>1
      <4>4. bound' = [bound EXCEPT ![from] = None, ![to] = bound[from]]
        BY <2>2, <4>1
      <4> QED BY <4>1, <4>2, <4>3, <4>4
    <3>2. \A w \in written : Renamed(w) = [path |-> IF w.path = from \/ Below(from, w.path) THEN Moved(w.path) ELSE w.path,
                                           dir |-> w.dir]
      BY <1>0
    <3>3. Moved(from) = to
      BY ReplacedItself, PathsAre
    <3> HIDE DEF Moved, Renamed
    <3>4. /\ doing'.call = "resume"
          /\ doing'.closed = {[path |-> Moved(c.path), dir |-> c.dir] : c \in doing.closed}
      BY <3>1 DEF Resuming
    <3>5. bound'[to] = bound[from] /\ \A q \in Paths \ {from, to} : bound'[q] = bound[q]
      BY <3>1 DEF TypeOK
    <3>6. ASSUME NEW v \in written', Exists(v.dir)
          PROVE  bound'[v.path] = v.dir \/ v \in doing'.closed
      <4>1. PICK w \in written : v = Renamed(w)
        BY <3>1
      <4>2. v = [path |-> IF w.path = from \/ Below(from, w.path) THEN Moved(w.path) ELSE w.path, dir |-> w.dir]
        BY <3>2, <4>1
      <4>3. bound[w.path] = w.dir \/ w \in doing.closed
        <5>1. v.dir = w.dir
          BY <4>2
        <5> QED BY <3>6, <5>1 DEF Kept
      <4>4. w.path \in Paths /\ w.dir \in Dirs /\ w.dir # None
        BY <1>0 DEF PathsAssumption
      <4>5. CASE w \in doing.closed
        <5>1. v = [path |-> Moved(w.path), dir |-> w.dir]
          BY <2>3, <4>2, <4>5
        <5> QED BY <3>4, <4>5, <5>1
      <4>6. CASE bound[w.path] = w.dir
        <5>1. IsRetained(w.path) /\ ~Below(from, w.path) /\ w.path # to
          BY <2>3, <4>4, <4>6 DEF IsRetained
        <5>2. CASE w.path = from
          BY <3>3, <3>5, <4>2, <4>6, <5>2
        <5>3. CASE w.path # from
          BY <3>5, <4>2, <4>4, <4>6, <5>1, <5>3
        <5> QED BY <5>2, <5>3
      <4> QED BY <4>3, <4>5, <4>6
    <3> QED BY <3>1, <3>4, <3>6, ExistsSame DEF Kept
  <2> QED BY <2>4, KeptFails
<1>4. CASE Resume
  <2>1. doing \in [call : {"resume"}, base : Paths, closed : SUBSET Bindings, failed : BOOLEAN]
    BY <1>4, DoingIs DEF Resume
  <2>2. CASE ~Fails
    <3>1. PICK c \in doing.closed :
            /\ At(c.path) = c.dir /\ Retain(c.path, At(c.path))
            /\ doing' = [doing EXCEPT !.closed = @ \ {c}]
      BY <1>4, <2>2 DEF Resume, IsWhatWasClosed
    <3>2. UNCHANGED <<place, pending, written>>
      BY <1>4 DEF Resume
    <3>3. c.path \in Paths /\ (IsRetained(c.path) => At(c.path) = bound[c.path])
      BY <2>1, Reached DEF Bindings
    <3>4. \A q \in Paths : bound'[q] = IF q = c.path THEN c.dir ELSE bound[q]
      BY <3>1, <3>3 DEF Retain, TypeOK
    <3>5. doing'.call = "resume" /\ doing'.closed = doing.closed \ {c}
      BY <2>1, <3>1
    <3>6. ASSUME NEW w \in written, Exists(w.dir)
          PROVE  bound'[w.path] = w.dir \/ w \in doing'.closed
      <4>1. bound[w.path] = w.dir \/ w \in doing.closed
        BY <3>6 DEF Kept
      <4>2. w.path \in Paths /\ w.dir # None
        BY <1>0 DEF PathsAssumption
      <4>3. CASE bound[w.path] = w.dir
        BY <3>1, <3>3, <3>4, <4>2, <4>3 DEF IsRetained
      <4>4. CASE w \in doing.closed
        BY <3>4, <3>5, <4>2, <4>4
      <4> QED BY <4>1, <4>3, <4>4
    <3> QED BY <3>2, <3>5, <3>6, ExistsSame DEF Kept
  <2> QED BY <2>2, KeptFails
<1>5. CASE Promoted
  <2>1. UNCHANGED <<place, pending, bound, written>> /\ doing.closed = {}
    BY <1>5 DEF Promoted
  <2> QED BY <2>1, KeptSame, ExistsSame
<1> QED BY <1>1, <1>2, <1>3, <1>4, <1>5

\* The other steps of an open recovery.
LEMMA KeptOpen ==
  ASSUME TypeOK, Apart, Held, Chain, Progress, RetainedInPlace, Kept, status = "open",
         \/ Secure \/ CreateMissing \/ Repair \/ Hold \/ Write
         \/ DeleteTree \/ DeleteEntry \/ DeleteEmptied \/ TreeDeleted \/ RemoveEmpty
  PROVE  Kept'
<1> USE PathsAssumption DEF filesystem
<1>0. \A w \in written : w.path \in Paths /\ w.dir \in Dirs /\ w.dir # None /\ w.dir # Desk
  BY DEF TypeOK, Bindings, PathsAssumption
<1>1. CASE Secure \/ Repair \/ TreeDeleted
  <2>1. UNCHANGED <<place, pending, bound, written>>
    BY <1>1 DEF Secure, Repair, TreeDeleted
  <2>2. doing.call \notin {"rename", "rebind", "resume"}
    <3>1. Secure => doing.call = "none"
      BY DEF Secure, Calls, Rest
    <3>2. Repair \/ TreeDeleted => doing.call \in {"repair", "delete"}
      BY DEF Repair, TreeDeleted
    <3> QED BY <1>1, <3>1, <3>2
  <2> QED BY <2>1, <2>2, KeptSame, ExistsSame
<1>2. CASE CreateMissing
  <2>1. doing \in [call : {"create"}, missing : SUBSET Paths] /\ Unused # {} /\ UNCHANGED written
    BY <1>2, DoingIs DEF CreateMissing
  <2>2. CASE ~Fails
    <3>1. PICK path \in doing.missing :
            /\ path # Root /\ Child(bound[Above(path)], Last(path)) = None
            /\ place' = [place EXCEPT ![New] = In(bound[Above(path)], Last(path))]
            /\ Retain(path, New) /\ UNCHANGED pending
      BY <1>2, <2>2 DEF CreateMissing
    <3>2. PICK u : u = bound[Above(path)]
      OBVIOUS
    <3>3. path \in Paths /\ bound[path] = None
      <4>1. path \in Paths
        BY <2>1
      <4>2. Child(u, Last(path)) = None /\ u = IF path = Root THEN Desk ELSE bound[Above(path)]
        BY <3>1, <3>2
      <4> QED BY <2>1, <4>1, <4>2, NothingThere
    <3>4. PICK d \in Dirs : d = New /\ \A w \in written : w.dir # d
      BY <2>1, NewIs
    <3>5. \A c \in Dirs \ {d} : place'[c] = place[c]
      BY <3>1, <3>4 DEF TypeOK
    <3>6. \A w \in written : Exists(w.dir)' <=> Exists(w.dir)
      BY <1>0, <3>1, <3>4, <3>5 DEF Exists
    <3>7. \A w \in written : bound[w.path] = w.dir => bound'[w.path] = w.dir
      BY <1>0, <3>1, <3>3 DEF Retain, TypeOK
    <3> QED BY <2>1, <3>6, <3>7, KeptSame
  <2> QED BY <2>2, KeptFails
<1>3. CASE Hold
  <2>1. PICK path \in Paths : path = doing.path
    BY <1>3, DoingIs DEF Hold
  <2>2. UNCHANGED <<place, pending, written>> /\ doing.call = "hold"
    BY <1>3 DEF Hold
  <2>3. CASE ~Fails
    <3>1. Retain(path, At(path))
      BY <1>3, <2>1, <2>3 DEF Hold
    <3>2. IsRetained(path) => At(path) = bound[path]
      BY <2>2, Reached
    <3>3. \A w \in written : bound[w.path] = w.dir => bound'[w.path] = w.dir
      BY <1>0, <3>1, <3>2 DEF Retain, IsRetained, TypeOK
    <3> QED BY <2>2, <3>3, KeptSame, ExistsSame
  <2> QED BY <2>3, KeptFails
<1>4. CASE Write
  <2>1. PICK path \in Paths : path = Head(calls).path
    BY <1>4, CallIs DEF Write
  <2>2. UNCHANGED <<place, pending, bound>> /\ doing = Rest
    BY <1>4 DEF Write, Calls
  <2>3. CASE ~Fails
    <3>1. IsRetained(path) /\ written' = written \cup {[path |-> path, dir |-> At(path)]}
      BY <1>4, <2>1, <2>3 DEF Write
    <3>2. At(path) = bound[path]
      BY <2>2, <3>1, Reached DEF Rest
    <3>3. \A w \in written : Exists(w.dir) => bound[w.path] = w.dir
      BY <2>2 DEF Kept, Rest
    <3>4. \A w \in written' : Exists(w.dir) => bound[w.path] = w.dir
      BY <3>1, <3>2, <3>3
    <3> QED BY <2>2, <3>4, ExistsSame DEF Kept
  <2> QED BY <2>3, KeptFails
<1>5. CASE DeleteTree
  <2>1. PICK path \in Temporary :
          \/ Fails
          \/ /\ bound' = [p \in Paths |-> IF p \in Retained(path) \cup {path} THEN None ELSE bound[p]]
             /\ written' = {w \in written : w.path # path /\ ~Below(path, w.path)}
    BY <1>5 DEF DeleteTree
  <2>2. UNCHANGED <<place, pending>> /\ doing = Rest
    BY <1>5 DEF DeleteTree
  <2>3. CASE ~Fails
    <3>1. \A w \in written : Exists(w.dir) => bound[w.path] = w.dir
      BY <2>2 DEF Kept, Rest
    <3>2. \A w \in written' : Exists(w.dir) => bound'[w.path] = w.dir
      BY <1>0, <2>1, <2>3, <3>1 DEF Retained
    <3> QED BY <2>2, <3>2, ExistsSame DEF Kept
  <2> QED BY <2>3, KeptFails
<1>6. CASE DeleteEntry
  <2>1. UNCHANGED <<place, pending, bound, written>> /\ doing.call = "delete"
    BY <1>6 DEF DeleteEntry
  <2> QED BY <2>1, KeptSame, ExistsSame
<1>7. CASE DeleteEmptied
  <2>1. UNCHANGED <<bound, written>> /\ doing.call = "delete" /\ stack # <<>>
    BY <1>7 DEF DeleteEmptied
  <2>2. CASE ~Fails
    <3>1. Last(stack) = stack[Len(stack)] /\ Len(stack) \in DOMAIN stack
      BY <2>1, StackType, EmptySeq DEF Last
    <3>2. PICK d \in Dirs : d = Last(stack).dir /\ Deleted(d)
      BY <1>7, <2>2, <3>1, StackType DEF DeleteEmptied
    <3>3. Exists(d)
      BY <3>1, <3>2 DEF Chain
    <3>4. ~Exists(d)' /\ \A c \in Dirs \ {d} : Exists(c)' <=> Exists(c)
      BY <3>2, <3>3, DeletedApart
    <3>5. \A w \in written : ~Exists(w.dir) => ~Exists(w.dir)'
      BY <1>0, <3>4
    <3> QED BY <2>1, <3>5, KeptSame
  <2> QED BY <2>2, KeptFails
<1>8. CASE RemoveEmpty
  <2>1. PICK path \in Paths : path = Head(calls).path
    BY <1>8, CallIs DEF RemoveEmpty
  <2>2. UNCHANGED written /\ doing = Rest
    BY <1>8 DEF RemoveEmpty, Calls
  <2>3. CASE ~Fails
    <3>1. IsRetained(path) /\ Deleted(bound[path]) /\ bound' = [bound EXCEPT ![path] = None]
      BY <1>8, <2>1, <2>3 DEF RemoveEmpty
    <3>2. PICK d \in Dirs : d = bound[path]
      BY <3>1 DEF IsRetained, TypeOK
    <3>3. Exists(d)
      BY <3>1, <3>2 DEF Held
    <3>4. ~Exists(d)' /\ \A c \in Dirs \ {d} : Exists(c)' <=> Exists(c)
      BY <3>1, <3>2, <3>3, DeletedApart
    <3>5. \A w \in written : ~Exists(w.dir) => ~Exists(w.dir)'
      BY <1>0, <3>4
    <3>6. \A w \in written : bound[w.path] = w.dir => bound'[w.path] = w.dir \/ w.dir = d
      BY <1>0, <3>1, <3>2 DEF TypeOK
    <3>7. \A w \in written : w.dir = d => ~Exists(w.dir)'
      BY <3>4
    <3> QED BY <2>2, <3>5, <3>6, <3>7, KeptSame DEF Rest
  <2> QED BY <2>3, KeptFails
<1> QED BY <1>1, <1>2, <1>3, <1>4, <1>5, <1>6, <1>7, <1>8

LEMMA KeptStep ==
  /\ TypeOK /\ Apart /\ Held /\ Chain /\ Progress /\ Promoting /\ RetainedInPlace /\ Kept
  /\ [Next]_retainedVars
  => Kept'
<1> SUFFICES ASSUME TypeOK, Apart, Held, Chain, Progress, Promoting, RetainedInPlace, Kept,
                    [Next]_retainedVars
             PROVE  Kept'
  OBVIOUS
<1>1. CASE UNCHANGED retainedVars
  BY <1>1 DEF retainedVars, Kept, Exists
<1>2. CASE Others
  <2>1. UNCHANGED <<bound, doing, status, written>>
    BY <1>2, OthersOurs DEF ours
  <2>2. \A w \in written : ~Exists(w.dir) => ~Exists(w.dir)'
    BY <1>2, OthersSpare
  <2> QED BY <2>1, <2>2 DEF Kept
<1>3. ASSUME Recovery, status # "open"
      PROVE  Kept'
  <2>1. status' # "open" \/ written' = {}
    <3>1. CASE CreateRoot \/ FindRoot \/ RetainListed \/ ListNext
      <4>1. UNCHANGED written
        BY <3>1 DEF CreateRoot, FindRoot, RetainListed, ListNext
      <4>2. status = "new"
        BY <3>1, WhileDoing DEF CreateRoot, FindRoot, RetainListed, ListNext
      <4> QED BY <4>1, <4>2 DEF Progress
    <3>2. CASE Secure \/ Write \/ Promote \/ RemoveEmpty
      BY <1>3, <3>2 DEF Secure, Write, Promote, RemoveEmpty, Calls
    <3>3. CASE CreateMissing \/ Repair \/ Hold \/ Rename \/ Rebind \/ Resume \/ Promoted
      BY <1>3, <3>3, WhileDoing DEF CreateMissing, Repair, Hold, Rename, Rebind, Resume, Promoted
    <3>4. CASE DeleteTree \/ DeleteEntry \/ DeleteEmptied \/ TreeDeleted
      <4>1. Fails \/ UNCHANGED status
        BY <3>4 DEF DeleteTree, DeleteEntry, DeleteEmptied, TreeDeleted
      <4> QED BY <1>3, <4>1 DEF Fails
    <3>5. CASE Close
      BY <3>5 DEF Close
    <3> QED BY <1>3, <3>1, <3>2, <3>3, <3>4, <3>5 DEF Recovery
  <2> QED BY <2>1 DEF Kept
<1>4. ASSUME Recovery, status = "open"
      PROVE  Kept'
  <2>1. CASE Promote \/ Rename \/ Rebind \/ Resume \/ Promoted
    BY <1>4, <2>1, KeptPromotion
  <2>2. CASE \/ Secure \/ CreateMissing \/ Repair \/ Hold \/ Write
             \/ DeleteTree \/ DeleteEntry \/ DeleteEmptied \/ TreeDeleted \/ RemoveEmpty
    BY <1>4, <2>2, KeptOpen
  <2>3. CASE CreateRoot \/ FindRoot \/ RetainListed \/ ListNext
    <3>1. status = "new"
      BY <2>3, WhileDoing DEF CreateRoot, FindRoot, RetainListed, ListNext
    <3> QED BY <1>4, <3>1
  <2>4. CASE Close
    BY <2>4 DEF Close, Kept
  <2> QED BY <1>4, <2>1, <2>2, <2>3, <2>4 DEF Recovery
<1> QED BY <1>1, <1>2, <1>3, <1>4 DEF Next

-----------------------------------------------------------------------------
(***************************************************************************)
(* The end, and what is deleted.                                           *)
(***************************************************************************)

\* Once it has ended a recovery does nothing, nor do the others.
LEMMA NothingAfterTheEnd ==
  ASSUME Progress, Ended, Next
  PROVE  UNCHANGED retainedVars
<1>1. doing = Rest /\ status \in {"succeeded", "failed"}
  BY DEF Progress, Ended
<1>2. ~Others
  <2>1. \A up \in Dirs \cup {Desk}, name \in OtherNames : ~Make(up, name)
    BY DEF Make, Meddle
  <2>2. \A up \in Dirs \cup {Desk}, name \in OtherNames, d \in Dirs : ~Move(d, up, name)
    BY DEF Move, Meddle
  <2>3. \A d \in Dirs, share \in BOOLEAN : ~Scan(d, share)
    BY DEF Scan, Meddle
  <2>4. \A h \in scans : ~EndScan(h)
    BY DEF EndScan
  <2> QED BY <2>1, <2>2, <2>3, <2>4 DEF Others
<1>3. ~Recovery
  <2>1. ~(CreateRoot \/ FindRoot \/ Secure \/ Write \/ Promote \/ RemoveEmpty)
    BY <1>1 DEF CreateRoot, FindRoot, Secure, Write, Promote, RemoveEmpty, Calls
  <2>2. doing.call = "none"
    BY <1>1 DEF Rest
  <2>3. ~(RetainListed \/ ListNext \/ CreateMissing \/ Repair \/ Hold \/ Rename \/ Rebind \/ Resume \/ Promoted)
    BY <2>2 DEF RetainListed, ListNext, CreateMissing, Repair, Hold, Rename, Rebind, Resume, Promoted
  <2>4. ~(DeleteEntry \/ DeleteEmptied \/ TreeDeleted)
    BY <2>2 DEF DeleteEntry, DeleteEmptied, TreeDeleted
  <2>5. ~DeleteTree /\ ~Close
    BY <1>1 DEF DeleteTree, Close, Calls
  <2> QED BY <2>1, <2>3, <2>4, <2>5 DEF Recovery
<1> QED BY <1>2, <1>3 DEF Next

\* Only the last step succeeds.
LEMMA OnlyCloseSucceeds ==
  ASSUME TypeOK, Progress, Next, ~Ended, status' = "succeeded"
  PROVE  Close /\ status = "open"
<1>1. ~Others
  BY OthersOurs DEF ours, Ended
<1>2. Recovery
  BY <1>1 DEF Next
<1>3. ~Fails
  BY DEF Fails
<1>4. status # "succeeded"
  BY DEF Ended
<1>5. ~(CreateRoot \/ FindRoot \/ RetainListed \/ ListNext \/ CreateMissing)
  BY <1>3, <1>4 DEF CreateRoot, FindRoot, RetainListed, ListNext, CreateMissing
<1>6. ~(Secure \/ Repair \/ Hold \/ Write \/ Promote)
  BY <1>3, <1>4 DEF Secure, Repair, Hold, Write, Promote
<1>7. ~(Rename \/ Rebind \/ Resume \/ Promoted)
  BY <1>3, <1>4 DEF Rename, Rebind, Resume, Promoted
<1>8. ~(DeleteTree \/ DeleteEntry \/ DeleteEmptied \/ TreeDeleted \/ RemoveEmpty)
  BY <1>3, <1>4 DEF DeleteTree, DeleteEntry, DeleteEmptied, TreeDeleted, RemoveEmpty
<1>9. Close
  BY <1>2, <1>5, <1>6, <1>7, <1>8 DEF Recovery
<1> QED BY <1>9 DEF Close

LEMMA ReachableStep ==
  TypeOK /\ Progress /\ Kept /\ WrittenIsReachable /\ [Next]_retainedVars => WrittenIsReachable'
<1> SUFFICES ASSUME TypeOK, Progress, Kept, WrittenIsReachable, [Next]_retainedVars, status' = "succeeded"
             PROVE  \A w \in written' : Exists(w.dir)' => At(w.path)' = w.dir
  BY DEF WrittenIsReachable
<1>1. CASE UNCHANGED retainedVars
  BY <1>1 DEF retainedVars, WrittenIsReachable, Exists, At
<1>2. CASE Next /\ Ended
  BY <1>1, <1>2, NothingAfterTheEnd
<1>3. CASE Next /\ ~Ended
  <2>1. Close /\ status = "open"
    BY <1>3, OnlyCloseSucceeds
  <2>2. /\ UNCHANGED <<place, pending, written>> /\ doing = Rest
        /\ \A p \in Paths : IsRetained(p) => Visible(p, bound[p])
    BY <2>1 DEF Close, filesystem
  <2>3. ASSUME NEW w \in written, Exists(w.dir)
        PROVE  At(w.path) = w.dir
    <3>1. bound[w.path] = w.dir
      BY <2>1, <2>2, <2>3 DEF Kept, Rest
    <3>2. w.path \in Paths /\ w.dir # None
      BY PathsAssumption DEF TypeOK, Bindings, PathsAssumption
    <3> QED BY <2>2, <3>1, <3>2 DEF IsRetained, Visible
  <2> QED BY <2>2, <2>3 DEF Exists, At
<1> QED BY <1>1, <1>2, <1>3

\* The directory a deletion is in is within the one it began with.
LEMMA LastIsWithin ==
  ASSUME TypeOK, Chain, stack # <<>>
  PROVE  Last(stack).dir \in Within(Head(stack).dir)
<1> DEFINE chain == [i \in 1..Len(stack) |-> stack[i].dir]
<1>1. Len(stack) \in Nat \ {0} /\ DOMAIN stack = 1..Len(stack)
  BY StackType, EmptySeq
<1>2. PICK n \in Nat \ {0} : n = Len(stack)
  BY <1>1
<1>3. chain \in [1..n -> Dirs]
  BY <1>1, <1>2, StackType
<1>4. \A i, j \in 1..n : chain[i] = chain[j] => i = j
  BY <1>1, <1>2 DEF Chain
<1>5. \A i \in 2..n : place[chain[i]] # None /\ place[chain[i]].up = chain[i - 1]
  <2> SUFFICES ASSUME NEW i \in 2..n
               PROVE  place[chain[i]] # None /\ place[chain[i]].up = chain[i - 1]
    OBVIOUS
  <2>1. i \in 1..n /\ i - 1 \in 1..n /\ i > 1
    BY <1>2
  <2>2. chain[i] = stack[i].dir /\ chain[i - 1] = stack[i - 1].dir
    BY <1>2, <2>1
  <2>3. Exists(stack[i].dir) /\ place[stack[i].dir].up = stack[i - 1].dir /\ stack[i].dir \in Dirs
    BY <1>1, <1>2, <2>1, StackType DEF Chain
  <2> QED BY <2>2, <2>3, PathsAssumption DEF Exists, PathsAssumption
<1>6. chain[1] = Head(stack).dir /\ chain[n] = Last(stack).dir
  BY <1>1, <1>2, StackType DEF Last
<1> HIDE DEF chain
<1>7. chain[n] \in Within(chain[1])
  <2>1. IsFiniteSet(Dirs)
    BY PathsAssumption DEF PathsAssumption
  <2>2. PICK c \in [1..n -> Dirs] : c = chain
    BY <1>3
  <2>3. /\ \A i, j \in 1..n : c[i] = c[j] => i = j
        /\ \A i \in 2..n : place[c[i]] # None /\ place[c[i]].up = c[i - 1]
    BY <1>4, <1>5, <2>2
  <2>4. c[n] \in Within(c[1])
    BY <1>2, <2>1, <2>3, ChainWithin
  <2> QED BY <2>2, <2>4
<1> QED BY <1>6, <1>7

\* A directory that gets a place stays or begins to exist.
LEMMA PlacedExists ==
  ASSUME PathsAssumption, TypeOK, NEW e \in Dirs, NEW up \in Dirs \cup {Desk}, NEW name \in STRING,
         place' = [place EXCEPT ![e] = In(up, name)], UNCHANGED pending
  PROVE  \A d \in Dirs : Exists(d) => Exists(d)'
<1>1. place'[e] # None /\ \A c \in Dirs \ {e} : place'[c] = place[c]
  BY PlaceIsNotNone DEF TypeOK
<1> QED BY <1>1 DEF Exists

\* What a step may delete.
Deletes(d) ==
  \/ stack # <<>> /\ d \in Within(Head(stack).dir)
  \/ \E path \in Paths : bound[path] = d /\ Entries(d) = {}

LEMMA DeletedStep ==
  TypeOK /\ Apart /\ Held /\ Chain /\ Promoting /\ [Next]_retainedVars
  => \A d \in Dirs : Exists(d) /\ ~Exists(d)' => Deletes(d)
<1> SUFFICES ASSUME TypeOK, Apart, Held, Chain, Promoting, [Next]_retainedVars
             PROVE  \A d \in Dirs : Exists(d) /\ ~Exists(d)' => Deletes(d)
  OBVIOUS
<1> USE PathsAssumption DEF filesystem
<1>1. CASE UNCHANGED <<place, pending>>
  BY <1>1 DEF Exists
<1>2. CASE CreateRoot \/ CreateMissing
  <2>1. CASE ~UNCHANGED <<place, pending>>
    <3>1. PICK up \in Dirs \cup {Desk}, path \in Paths :
            place' = [place EXCEPT ![New] = In(up, Last(path))] /\ UNCHANGED pending
      <4>1. CASE CreateRoot
        <5>1. Root \in Paths
          BY DEF PathsAssumption
        <5>2. place' = [place EXCEPT ![New] = In(Desk, Last(Root))] /\ UNCHANGED pending
          BY <2>1, <4>1 DEF CreateRoot
        <5> QED BY <5>1, <5>2
      <4>2. CASE CreateMissing
        <5>1. doing \in [call : {"create"}, missing : SUBSET Paths]
          BY <4>2, DoingIs DEF CreateMissing
        <5>2. PICK path \in doing.missing :
                /\ path # Root /\ IsRetained(Above(path)) /\ UNCHANGED pending
                /\ place' = [place EXCEPT ![New] = In(bound[Above(path)], Last(path))]
          BY <2>1, <4>2 DEF CreateMissing
        <5>3. path \in Paths /\ bound[Above(path)] \in Dirs
          BY <5>1, <5>2, PathsAre DEF IsRetained, TypeOK
        <5> QED BY <5>2, <5>3
      <4> QED BY <1>2, <4>1, <4>2
    <3>2. Unused # {}
      BY <1>2 DEF CreateRoot, CreateMissing
    <3>3. PICK e \in Dirs, name \in STRING : e = New /\ name = Last(path)
      BY <3>2, NewIs, PathsAre
    <3>4. place' = [place EXCEPT ![e] = In(up, name)] /\ UNCHANGED pending
      BY <3>1, <3>3
    <3>5. \A d \in Dirs : Exists(d) => Exists(d)'
      BY <3>4, PlacedExists
    <3> QED BY <3>5
  <2> QED BY <1>1, <2>1
<1>3. CASE Rename
  <2>1. PICK to \in Paths, e \in Dirs : to = doing.to /\ e = bound[doing.from]
    BY <1>3, DoingIs DEF Rename, Promoting, IsRetained, TypeOK
  <2>2. UNCHANGED pending
    BY <1>3 DEF Rename
  <2>3. CASE ~UNCHANGED place
    <3>1. PICK up, name : up = bound[Above(to)] /\ name = Last(to)
      OBVIOUS
    <3>2. Renamable(e, up, name) /\ place' = [place EXCEPT ![e] = In(up, name)]
      BY <1>3, <2>1, <2>3, <3>1 DEF Rename
    <3>3. up \in Dirs \cup {Desk} /\ name \in STRING
      BY <2>1, <3>1, <3>2, PathsAre DEF Renamable, Exists
    <3> QED BY <2>2, <3>2, <3>3, PlacedExists
  <2> QED BY <1>1, <2>2, <2>3
<1>4. CASE DeleteEmptied
  <2>1. CASE ~UNCHANGED <<place, pending>>
    <3>1. stack # <<>> /\ Deleted(Last(stack).dir)
      BY <1>4, <2>1 DEF DeleteEmptied
    <3>2. Last(stack) = stack[Len(stack)] /\ Len(stack) \in DOMAIN stack
      BY <3>1, StackType, EmptySeq DEF Last
    <3>3. PICK e \in Dirs : e = Last(stack).dir /\ Exists(e)
      BY <3>2, StackType DEF Chain
    <3>4. \A c \in Dirs \ {e} : Exists(c)' <=> Exists(c)
      BY <3>1, <3>3, DeletedApart
    <3>5. Deletes(e)
      BY <3>1, <3>3, LastIsWithin DEF Deletes
    <3> QED BY <3>4, <3>5
  <2> QED BY <1>1, <2>1
<1>5. CASE RemoveEmpty
  <2>1. PICK path \in Paths : path = Head(calls).path
    BY <1>5, CallIs DEF RemoveEmpty
  <2>2. CASE ~UNCHANGED <<place, pending>>
    <3>1. IsRetained(path) /\ Entries(bound[path]) = {} /\ Deleted(bound[path])
      BY <1>5, <2>1, <2>2 DEF RemoveEmpty
    <3>2. PICK e \in Dirs : e = bound[path]
      BY <3>1 DEF IsRetained, TypeOK
    <3>3. Exists(e)
      BY <3>1, <3>2 DEF Held
    <3>4. \A c \in Dirs \ {e} : Exists(c)' <=> Exists(c)
      BY <3>1, <3>2, <3>3, DeletedApart
    <3>5. Deletes(e)
      BY <3>1, <3>2 DEF Deletes
    <3> QED BY <3>4, <3>5
  <2> QED BY <1>1, <2>2
<1>6. CASE Others
  <2>1. ASSUME NEW up \in Dirs \cup {Desk}, NEW name \in OtherNames, Make(up, name)
        PROVE  \A d \in Dirs : Exists(d) => Exists(d)'
    <3>1. PICK e \in Dirs : e = New
      BY <2>1, MakeLeavesOne, NewIs
    <3>2. name \in STRING /\ place' = [place EXCEPT ![e] = In(up, name)] /\ UNCHANGED pending
      BY <2>1, <3>1 DEF Make, PathsAssumption
    <3> QED BY <3>2, PlacedExists
  <2>2. ASSUME NEW up \in Dirs \cup {Desk}, NEW name \in OtherNames, NEW e \in Dirs, Move(e, up, name)
        PROVE  \A d \in Dirs : Exists(d) => Exists(d)'
    <3>1. name \in STRING /\ place' = [place EXCEPT ![e] = In(up, name)] /\ UNCHANGED pending
      BY <2>2 DEF Move, PathsAssumption
    <3> QED BY <3>1, PlacedExists
  <2>3. ASSUME NEW e \in Dirs, NEW share \in BOOLEAN, Scan(e, share)
        PROVE  UNCHANGED <<place, pending>>
    BY <2>3 DEF Scan
  <2>4. ASSUME NEW h \in scans, EndScan(h)
        PROVE  \A d \in Dirs : Exists(d) => Exists(d)'
    <3>1. CASE UNCHANGED <<place, pending>>
      BY <3>1 DEF Exists
    <3>2. CASE h.of \in pending /\ place' = [place EXCEPT ![h.of] = None] /\ pending' = pending \ {h.of}
      <4>1. h.of \in Dirs /\ ~Exists(h.of)
        BY <3>2 DEF TypeOK, Exists, PathsAssumption
      <4>2. \A c \in Dirs \ {h.of} : place'[c] = place[c]
        BY <3>2, <4>1 DEF TypeOK
      <4> QED BY <3>2, <4>1, <4>2 DEF Exists
    <3> QED BY <2>4, <3>1, <3>2 DEF EndScan
  <2> QED BY <1>1, <1>6, <2>1, <2>2, <2>3, <2>4 DEF Others
<1>7. CASE FindRoot \/ RetainListed \/ ListNext \/ Secure \/ Repair \/ Hold
  <2>1. UNCHANGED <<place, pending>>
    BY <1>7 DEF FindRoot, RetainListed, ListNext, Secure, Repair, Hold
  <2> QED BY <1>1, <2>1
<1>8. CASE Write \/ Promote \/ Rebind \/ Resume \/ Promoted
  <2>1. UNCHANGED <<place, pending>>
    BY <1>8 DEF Write, Promote, Rebind, Resume, Promoted
  <2> QED BY <1>1, <2>1
<1>9. CASE DeleteTree \/ DeleteEntry \/ TreeDeleted \/ Close \/ UNCHANGED retainedVars
  <2>1. UNCHANGED <<place, pending>>
    BY <1>9 DEF DeleteTree, DeleteEntry, TreeDeleted, Close, retainedVars
  <2> QED BY <1>1, <2>1
<1> QED BY <1>2, <1>3, <1>4, <1>5, <1>6, <1>7, <1>8, <1>9 DEF Next, Recovery

-----------------------------------------------------------------------------
(***************************************************************************)
(* The theorems.                                                           *)
(***************************************************************************)

LEMMA Initially == Init => IInv
<1> SUFFICES ASSUME Init PROVE IInv
  OBVIOUS
<1>1. Kept /\ WrittenIsReachable
  BY DEF Init, Kept, WrittenIsReachable
<1> QED BY <1>1, InitType, HeldInit, ProgressInit, PlaceInit DEF IInv

LEMMA Inductive == IInv /\ [Next]_retainedVars => IInv'
<1> SUFFICES ASSUME IInv, [Next]_retainedVars PROVE IInv'
  OBVIOUS
<1> USE DEF IInv
<1>1. TypeOK'
  BY TypeStep
<1>2. Apart' /\ Held' /\ Chain'
  BY HeldStep
<1>3. Progress'
  BY ProgressStep
<1>4. RetainedInPlace' /\ Promoting'
  BY <1>3, PlaceStep
<1>5. Kept'
  BY KeptStep
<1>6. WrittenIsReachable'
  BY ReachableStep
<1> QED BY <1>1, <1>2, <1>3, <1>4, <1>5, <1>6

\* The inductive invariant holds in every behaviour, whatever calls a recovery makes and
\* whatever the others do between them.
THEOREM Invariance == Spec => []IInv
<1>1. Init => IInv
  BY Initially
<1>2. IInv /\ [Next]_retainedVars => IInv'
  BY Inductive
<1> QED BY <1>1, <1>2, PTL DEF Spec

\* The variables have their types: above all, a promotion gives what is below a directory a path
\* a recovery may make directories at.
THEOREM TypeCorrect == Spec => []TypeOK
<1>1. IInv => TypeOK
  BY DEF IInv
<1> QED BY <1>1, Invariance, PTL

\* While a recovery has not failed, each retained directory is where its path says, in a
\* directory that is retained as well: no one moved or replaced one
\* (_windows_hold_bound_descendant_directory and _windows_resume_bound_descendants).
THEOREM RetainedInPlaceHolds == Spec => []RetainedInPlace
<1>1. IInv => RetainedInPlace
  BY DEF IInv
<1> QED BY <1>1, Invariance, PTL

\* When a recovery succeeds, each path it wrote to leads to the directory it wrote to, although
\* a promotion closes the handles below what it renames (_windows_suspend_bound_descendants).
THEOREM WrittenIsReachableHolds == Spec => []WrittenIsReachable
<1>1. IInv => WrittenIsReachable
  BY DEF IInv
<1> QED BY <1>1, Invariance, PTL

\* What a step deletes is within the temporary tree at that time, or is a retained directory
\* that is empty (windows_delete_bound_private_tree and remove_empty_private_directory).
THEOREM OnlyTheTreeIsDeletedHolds == Spec => OnlyTheTreeIsDeleted
<1> DEFINE Step == \A d \in Dirs :
                     Exists(d) /\ ~Exists(d)' =>
                       \/ stack # <<>> /\ d \in Within(Head(stack).dir)
                       \/ \E path \in Paths : bound[path] = d /\ Entries(d) = {}
<1>1. IInv /\ [Next]_retainedVars => [Step]_retainedVars
  BY DeletedStep DEF IInv, Deletes
<1>2. Spec => [][Step]_retainedVars
  <2> HIDE DEF Step
  <2> QED BY <1>1, Invariance, PTL DEF Spec
<1> QED BY <1>2 DEF OnlyTheTreeIsDeleted

================================================================================
