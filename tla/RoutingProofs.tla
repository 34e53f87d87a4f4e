---------------------------- MODULE RoutingProofs ----------------------------
(***************************************************************************)
(* Theorems about Routing, for every configuration, every tree of files,   *)
(* every uri and any number of reads: what a page may show, how many       *)
(* requests the gateway gets, and for whom it is asked.                    *)
(***************************************************************************)
EXTENDS Routing, AnySequenceProofs, SequenceTheorems, TLAPS

-----------------------------------------------------------------------------
(* Least and greatest numbers. *)

LEMMA MinIs ==
  ASSUME NEW S, S \subseteq Nat, S # {}
  PROVE  Min(S) \in S /\ \A m \in S : Min(S) <= m
<1>1. PICK n \in S : \A m \in S : n <= m
  BY LeastMember
<1> QED  BY <1>1 DEF Min

LEMMA MinUnique ==
  ASSUME NEW S, S \subseteq Nat, NEW n \in S, \A m \in S : n <= m
  PROVE  Min(S) = n
<1>1. Min(S) \in S /\ Min(S) <= n
  BY MinIs
<1>2. n <= Min(S) /\ n \in Nat /\ Min(S) \in Nat
  BY <1>1
<1> QED  BY <1>1, <1>2

LEMMA MaxIs ==
  ASSUME NEW S, S # {}, NEW n \in Nat, S \subseteq 1 .. n
  PROVE  Max(S) \in S /\ \A m \in S : m <= Max(S)
<1> DEFINE T == {n - m : m \in S}
<1>1. T \subseteq Nat /\ T # {}
  <2>1. \A m \in S : n - m \in Nat
    OBVIOUS
  <2>2. PICK m : m \in S
    OBVIOUS
  <2>3. n - m \in T
    BY <2>2
  <2> QED  BY <2>1, <2>3
<1>2. PICK t \in T : \A u \in T : t <= u
  BY <1>1, LeastMember
<1>3. PICK k \in S : t = n - k
  BY <1>2
<1>4. \A m \in S : n - k <= n - m
  BY <1>2, <1>3
<1>5. \A m \in S : k >= m
  BY <1>4
<1> QED  BY <1>5 DEF Max

LEMMA MaxFromZero ==
  ASSUME NEW n \in Nat, NEW S, S \subseteq 1 .. n
  PROVE  Max({0} \cup S) \in 0 .. n
<1> DEFINE T == {m + 1 : m \in {0} \cup S}
           M == {0} \cup S
<1>1. T \subseteq 1 .. n + 1 /\ T # {} /\ n + 1 \in Nat
  OBVIOUS
<1>2. Max(T) \in T /\ \A m \in T : m <= Max(T)
  <2> HIDE DEF T
  <2> QED  BY <1>1, MaxIs
<1>3. PICK k \in M : Max(T) = k + 1
  BY <1>2
<1>4. \A m \in M : m <= k
  <2> TAKE m \in M
  <2>1. m + 1 \in T /\ m \in Nat /\ k \in Nat
    OBVIOUS
  <2>2. m + 1 <= k + 1
    BY <1>2, <1>3, <2>1
  <2> QED  BY <2>1, <2>2
<1>5. M \subseteq 0 .. n
  OBVIOUS
<1> HIDE DEF M
<1> QED  BY <1>3, <1>4, <1>5 DEF Max, M

-----------------------------------------------------------------------------
(* Paths. *)

NameEnds(path, p) == path[p] # "/" /\ (p = Len(path) \/ path[p + 1] = "/")
NameAt(path, p) == SubSeq(path, 1 + Max({0} \cup {q \in 1 .. p : path[q] = "/"}), p)
Splits(names, path) ==
  /\ names[0] = <<>>
  /\ \A p \in 1 .. Len(path) :
       names[p] = IF NameEnds(path, p) THEN Append(names[p - 1], NameAt(path, p)) ELSE names[p - 1]
  /\ Names(path) = names[Len(path)]

\* The names found so far.
LEMMA NamesFound ==
  ASSUME NEW C, NEW path \in Seq(C)
  PROVE  Names(path) \in Seq(Seq(C)) /\ \E names : Splits(names, path)
<1> DEFINE Ends(p) == path[p] # "/" /\ (p = Len(path) \/ path[p + 1] = "/")
           Name(p) == SubSeq(path, 1 + Max({0} \cup {q \in 1 .. p : path[q] = "/"}), p)
           last == Len(path)
           V == Seq(Seq(C))
           Step(v, p) == IF Ends(p) THEN Append(v, Name(p)) ELSE v
           step == [x \in V \X (1 .. last) |-> Step(x[1], x[2])]
           Steps(k) == k = [p \in 0 .. last |->
                              IF p = 0 THEN <<>>
                              ELSE IF Ends(p) THEN Append(k[p - 1], Name(p)) ELSE k[p - 1]]
<1>1. last \in Nat /\ <<>> \in V
  OBVIOUS
<1>2. ASSUME NEW p \in 1 .. last PROVE Name(p) \in Seq(C)
  <2> DEFINE Q == {q \in 1 .. p : path[q] = "/"}
             m == Max({0} \cup Q)
  <2>1. m \in Nat
    <3>1. Q \subseteq 1 .. p /\ p \in Nat
      OBVIOUS
    <3> HIDE DEF Q
    <3>2. m \in 0 .. p
      BY ONLY <3>1, MaxFromZero
    <3> QED  BY <3>1, <3>2
  <2>2. \A q \in 1 + m .. p : path[q] \in C
    <3>1. \A q \in 1 .. last : path[q] \in C
      OBVIOUS
    <3> HIDE DEF m
    <3> QED  BY <1>1, <2>1, <3>1
  <2> HIDE DEF m
  <2>3. 1 + m \in Int /\ p \in Int
    BY <2>1
  <2>4. SubSeq(path, 1 + m, p) \in Seq(C)
    BY <2>2, <2>3, SubSeqProperties
  <2> QED  BY <2>4 DEF m
<1> HIDE DEF Ends, Name
<1>3. ASSUME NEW v \in V, NEW p \in 1 .. last PROVE Step(v, p) \in V
  BY <1>2, <1>3
<1> HIDE DEF V, last, Step
<1>4. \A v \in V, p \in 1 .. last : step[<<v, p>>] = Step(v, p) /\ step[<<v, p>>] \in V
  BY <1>3
<1> HIDE DEF step
<1>5. PICK k : StepsUpto(k, V, <<>>, step, last)
  BY <1>1, <1>4, RecursionExists
<1>6. Steps(k)
  <2>1. /\ k \in [0 .. last -> V] /\ k[0] = <<>>
        /\ \A i \in 1 .. last : k[i] = step[<<k[i - 1], i>>]
    BY <1>5 DEF StepsUpto
  <2>2. ASSUME NEW i \in 0 .. last
        PROVE  k[i] = IF i = 0 THEN <<>>
                      ELSE IF Ends(i) THEN Append(k[i - 1], Name(i)) ELSE k[i - 1]
    <3>1. CASE i = 0
      BY <2>1, <3>1
    <3>2. CASE i # 0
      <4>1. i \in 1 .. last /\ i - 1 \in 0 .. last
        BY <1>1, <3>2
      <4>2. k[i - 1] \in V /\ k[i] = step[<<k[i - 1], i>>]
        BY <2>1, <4>1
      <4>3. k[i] = Step(k[i - 1], i)
        BY <1>4, <4>1, <4>2
      <4> QED  BY <3>2, <4>3 DEF Step
    <3> QED  BY <3>1, <3>2
  <2>3. k = [i \in 0 .. last |-> k[i]]
    BY <2>1
  <2> QED  BY <2>2, <2>3
<1> DEFINE names == CHOOSE k_1 : Steps(k_1)
<1>7. Steps(names)
  BY <1>6
<1> HIDE DEF names
<1>8. names[0] = <<>> /\ \A i \in 1 .. last : names[i] = Step(names[i - 1], i)
  <2>1. \A p \in 0 .. last : names[p] = IF p = 0 THEN <<>>
                                     ELSE IF Ends(p) THEN Append(names[p - 1], Name(p))
                                     ELSE names[p - 1]
    BY <1>7
  <2>2. names[0] = <<>>
    <3>1. 0 \in 0 .. last
      BY <1>1
    <3> QED  BY ONLY <2>1, <3>1
  <2>3. \A i \in 1 .. last : i \in 0 .. last /\ i # 0
    BY <1>1
  <2> QED  BY <2>1, <2>2, <2>3 DEF Step
<1> DEFINE S == {i \in Nat : names[i] \in V}
<1>9. \A i \in 1 .. last : (i = 1 \/ i - 1 \in S) => i \in S
  BY <1>1, <1>3, <1>8
<1> HIDE DEF S
<1>10. \A i \in 1 .. last : i \in S
  BY <1>1, <1>9, InductionUpto
<1>11. names[last] \in V
  BY <1>1, <1>8, <1>10 DEF S
<1>12. Names(path) = names[last]
  BY ONLY DEF Names, names, last, Ends, Name
<1>13. /\ names[0] = <<>>
       /\ \A p \in 1 .. last :
            names[p] = IF Ends(p) THEN Append(names[p - 1], Name(p)) ELSE names[p - 1]
  BY <1>8 DEF Step
<1>14. Splits(names, path)
  <2>1. \A p : Ends(p) = NameEnds(path, p) /\ Name(p) = NameAt(path, p)
    BY DEF Ends, Name, NameEnds, NameAt
  <2>2. /\ names[0] = <<>>
        /\ \A p \in 1 .. last :
             names[p] = IF NameEnds(path, p) THEN Append(names[p - 1], NameAt(path, p))
                        ELSE names[p - 1]
    BY <1>13, <2>1
  <2>3. Names(path) = names[last]
    BY <1>12
  <2> QED  BY <2>2, <2>3 DEF Splits, last
<1>15. Names(path) \in Seq(Seq(C))
  BY <1>11, <1>12 DEF V
<1> QED  BY <1>14, <1>15

LEMMA NamesTyped == ASSUME NEW path \in Path PROVE Names(path) \in Seq(Path)
BY NamesFound DEF Path

NoNodeIsNone == NoNode \notin Tree

LEMMA NoNodeOpens == NoNodeIsNone
<1>1. NoNode \notin Seq(Path \ {<<>>})
  <2> SUFFICES ASSUME NoNode \in Seq(Path \ {<<>>}) PROVE FALSE
    OBVIOUS
  <2>1. 1 \in 1 .. Len(NoNode) /\ NoNode[1] = <<>>
    BY DEF NoNode
  <2>2. NoNode[1] \in Path \ {<<>>}
    BY <2>1
  <2> QED  BY <2>1, <2>2
<1> QED  BY <1>1, TreeAssumption DEF NoNodeIsNone

\* What is above what is in the tree.
LEMMA Above ==
  ASSUME NEW node \in Tree
  PROVE  /\ node \in Seq(Path \ {<<>>}) /\ Len(node) \in Nat
         /\ \A k \in 0 .. Len(node) - 1 : SubSeq(node, 1, k) \in Directories
         /\ <<>> \in Directories /\ Directories \subseteq Tree
<1>1. /\ node \in Seq(Path \ {<<>>})
      /\ \A k \in 0 .. Len(node) - 1 : SubSeq(node, 1, k) \in Directories
  BY TreeAssumption
<1>2. Len(node) \in Nat
  BY <1>1
<1>3. Directories \subseteq Tree
  BY DEF Tree
<1>4. <<>> \in Directories
  BY TreeAssumption
<1> QED  BY <1>1, <1>2, <1>3, <1>4

LEMMA EnterTyped ==
  ASSUME NEW node \in Tree \cup {NoNode}, NEW name
  PROVE  Enter(node, name) \in Tree \cup {NoNode}
<1>1. CASE node \notin Directories
  BY <1>1 DEF Enter
<1>2. CASE node \in Directories
  <2>1. node \in Tree
    BY <1>2 DEF Tree
  <2>2. /\ node \in Seq(Path \ {<<>>}) /\ Len(node) \in Nat
        /\ \A k \in 0 .. Len(node) - 1 : SubSeq(node, 1, k) \in Directories
    BY <2>1, Above
  <2>3. SubSeq(node, 1, Len(node) - 1) \in Directories
    <3>1. CASE Len(node) = 0
      <4>1. node = <<>> /\ SubSeq(node, 1, Len(node) - 1) = <<>>
        BY <2>2, <3>1
      <4> QED  BY <1>2, <4>1
    <3>2. CASE Len(node) # 0
      <4>1. Len(node) - 1 \in 0 .. Len(node) - 1
        BY <2>2, <3>2
      <4> QED  BY <2>2, <4>1
    <3> QED  BY <3>1, <3>2
  <2> QED  BY <2>1, <2>3 DEF Enter, Tree
<1> QED  BY <1>1, <1>2

\* The nodes on the way, one for every name.
Start(directory, path) == IF path[1] = "/" THEN <<>> ELSE directory
Walk(w, start, names) ==
  w[0] = start /\ \A i \in 1 .. Len(names) : w[i] = Enter(w[i - 1], names[i])
ForDirectory(path) == path[Len(path)] = "/"

LEMMA WalkExists ==
  ASSUME NEW directory \in Directories, NEW path, path # <<>>, Len(Names(path)) \in Nat
  PROVE  \E w : /\ Walk(w, Start(directory, path), Names(path))
                /\ \A i \in 0 .. Len(Names(path)) : w[i] \in Tree \cup {NoNode}
                /\ Resolve(directory, path) =
                     IF ForDirectory(path) /\ w[Len(Names(path))] \notin Directories
                     THEN NoNode ELSE w[Len(Names(path))]
<1> DEFINE names == Names(path)
           last == Len(names)
           V == Tree \cup {NoNode}
           step == [x \in V \X (1 .. last) |-> Enter(x[1], names[x[2]])]
           Steps(k) == k = [i \in 0 .. last |->
                              IF i > 0 THEN Enter(k[i - 1], names[i])
                              ELSE IF path[1] = "/" THEN <<>> ELSE directory]
           start == Start(directory, path)
<1>1. last \in Nat
  OBVIOUS
<1>2. start \in V
  <2>1. <<>> \in Directories
    BY TreeAssumption
  <2> QED  BY <2>1 DEF Start, Tree
<1>3. start = IF path[1] = "/" THEN <<>> ELSE directory
  BY DEF Start
<1> HIDE DEF start, names, last
<1>4. \A v \in V, i \in 1 .. last : step[<<v, i>>] = Enter(v, names[i]) /\ step[<<v, i>>] \in V
  BY EnterTyped
<1> HIDE DEF step, V
<1>5. PICK k : StepsUpto(k, V, start, step, last)
  BY <1>1, <1>2, <1>4, RecursionExists
<1>6. Steps(k)
  <2>1. /\ k \in [0 .. last -> V] /\ k[0] = start
        /\ \A i \in 1 .. last : k[i] = step[<<k[i - 1], i>>]
    BY <1>5 DEF StepsUpto
  <2>2. ASSUME NEW i \in 0 .. last
        PROVE  k[i] = IF i > 0 THEN Enter(k[i - 1], names[i])
                      ELSE IF path[1] = "/" THEN <<>> ELSE directory
    <3>1. CASE i = 0
      <4>1. ~(i > 0)
        BY <3>1
      <4> QED  BY <1>3, <2>1, <3>1, <4>1
    <3>2. CASE i # 0
      <4>1. i \in 1 .. last /\ i - 1 \in 0 .. last /\ i > 0
        BY <1>1, <3>2
      <4>2. k[i - 1] \in V /\ k[i] = step[<<k[i - 1], i>>]
        BY <2>1, <4>1
      <4> QED  BY <1>4, <4>1, <4>2
    <3> QED  BY <3>1, <3>2
  <2>3. k = [i \in 0 .. last |-> k[i]]
    BY <2>1
  <2> QED  BY <2>2, <2>3
<1> DEFINE walk == CHOOSE k_1 : Steps(k_1)
<1>7. Steps(walk)
  BY <1>6
<1> HIDE DEF walk
<1>8. walk[0] = start /\ \A i \in 1 .. last : walk[i] = Enter(walk[i - 1], names[i])
  <2>1. \A i \in 0 .. last : walk[i] = IF i > 0 THEN Enter(walk[i - 1], names[i])
                                       ELSE IF path[1] = "/" THEN <<>> ELSE directory
    BY <1>7
  <2>2. 0 \in 0 .. last /\ ~(0 > 0)
    BY <1>1
  <2>3. \A i \in 1 .. last : i \in 0 .. last /\ i > 0
    BY <1>1
  <2> QED  BY <1>3, <2>1, <2>2, <2>3
<1> DEFINE S == {i \in Nat : walk[i] \in V}
<1>9. \A i \in 1 .. last : (i = 1 \/ i - 1 \in S) => i \in S
  <2> SUFFICES ASSUME NEW i \in 1 .. last, i = 1 \/ i - 1 \in S PROVE i \in S
    OBVIOUS
  <2>1. walk[i - 1] \in V /\ i \in Nat
    BY <1>2, <1>8
  <2>2. Enter(walk[i - 1], names[i]) \in V
    BY <2>1, EnterTyped DEF V
  <2> QED  BY <1>8, <2>1, <2>2
<1> HIDE DEF S
<1>10. \A i \in 1 .. last : i \in S
  BY <1>1, <1>9, InductionUpto
<1>11. \A i \in 0 .. last : walk[i] \in V
  <2> TAKE i \in 0 .. last
  <2>1. CASE i = 0
    BY <1>2, <1>8, <2>1
  <2>2. CASE i # 0
    <3>1. i \in 1 .. last
      BY <1>1, <2>2
    <3> QED  BY <1>10, <3>1 DEF S
  <2> QED  BY <2>1, <2>2
<1>12. Resolve(directory, path) = IF path[Len(path)] = "/" /\ walk[last] \notin Directories THEN NoNode
                                  ELSE walk[last]
  <2>1. Resolve(directory, path) =
          IF path = <<>> \/ (path[Len(path)] = "/" /\ walk[last] \notin Directories) THEN NoNode
          ELSE walk[last]
    BY ONLY DEF Resolve, walk, last, names
  <2> HIDE DEF walk, last
  <2> QED  BY <2>1
<1>13. Walk(walk, start, names)
  BY <1>8 DEF Walk, last
<1> QED  BY <1>11, <1>12, <1>13 DEF start, names, last, V, ForDirectory

LEMMA ResolveTyped ==
  ASSUME NEW directory \in Directories, NEW path
  PROVE  path \in Path => Resolve(directory, path) \in Tree \cup {NoNode}
<1> SUFFICES ASSUME path \in Path, path # <<>>
             PROVE  Resolve(directory, path) \in Tree \cup {NoNode}
  BY DEF Resolve
<1> DEFINE n == Len(Names(path))
<1>1. PICK w : /\ \A i \in 0 .. n : w[i] \in Tree \cup {NoNode}
               /\ Resolve(directory, path) =
                    IF ForDirectory(path) /\ w[n] \notin Directories THEN NoNode ELSE w[n]
  <2>1. Len(Names(path)) \in Nat
    BY NamesTyped
  <2> QED  BY <2>1, WalkExists
<1>2. n \in 0 .. n
  BY NamesTyped
<1> HIDE DEF n
<1> QED  BY <1>1, <1>2

\* How deep a path has gone after each name.
Sinks(name) == IF name = <<".">> THEN 0 ELSE IF name = <<".", ".">> THEN -1 ELSE 1
Sounding(d, names) ==
  d[0] = 0 /\ \A i \in 1 .. Len(names) : d[i] \in Int /\ d[i] = d[i - 1] + Sinks(names[i])

LEMMA SinksInt == \A name : Sinks(name) \in Int
BY DEF Sinks

LEMMA DepthExists ==
  ASSUME NEW path \in Path, ~Climbs(path)
  PROVE  \E d : Sounding(d, Names(path)) /\ \A i \in 0 .. Len(Names(path)) : d[i] \in Int /\ d[i] >= 0
<1> DEFINE names == Names(path)
           last == Len(names)
           step == [x \in Int \X (1 .. last) |-> x[1] + Sinks(names[x[2]])]
           Steps(k) == k = [i \in 0 .. last |->
                              IF i = 0 THEN 0
                              ELSE IF names[i] = <<".">> THEN k[i - 1]
                              ELSE IF names[i] = <<".", ".">> THEN k[i - 1] - 1 ELSE k[i - 1] + 1]
<1>1. last \in Nat
  BY NamesTyped
<1> HIDE DEF names, last
<1>2. \A v \in Int, i \in 1 .. last :
        step[<<v, i>>] = v + Sinks(names[i]) /\ step[<<v, i>>] \in Int
  BY SinksInt
<1> HIDE DEF step
<1>3. PICK k : StepsUpto(k, Int, 0, step, last)
  <2>1. 0 \in Int /\ \A v \in Int, i \in 1 .. last : step[<<v, i>>] \in Int
    BY <1>2
  <2> QED  BY ONLY <1>1, <2>1, RecursionExists
<1>4. /\ k \in [0 .. last -> Int] /\ k[0] = 0
      /\ \A i \in 1 .. last : k[i] = step[<<k[i - 1], i>>]
  BY <1>3 DEF StepsUpto
<1>5. Steps(k)
  <2>1. ASSUME NEW i \in 0 .. last
        PROVE  k[i] = IF i = 0 THEN 0
                      ELSE IF names[i] = <<".">> THEN k[i - 1]
                      ELSE IF names[i] = <<".", ".">> THEN k[i - 1] - 1 ELSE k[i - 1] + 1
    <3>1. CASE i = 0
      BY <1>4, <3>1
    <3>2. CASE i # 0
      <4>1. i \in 1 .. last /\ i - 1 \in 0 .. last
        BY <1>1, <3>2
      <4>2. k[i - 1] \in Int /\ k[i] = step[<<k[i - 1], i>>]
        BY <1>4, <4>1
      <4>3. k[i] = k[i - 1] + Sinks(names[i])
        BY <1>2, <4>1, <4>2
      <4> QED  BY <3>2, <4>2, <4>3 DEF Sinks
    <3> QED  BY <3>1, <3>2
  <2>2. k = [i \in 0 .. last |-> k[i]]
    BY <1>4
  <2> QED  BY <2>1, <2>2
<1> DEFINE depth == CHOOSE k_1 : Steps(k_1)
<1>6. Steps(depth)
  BY <1>5
<1> HIDE DEF depth
<1>7. \A i \in DOMAIN depth : ~(depth[i] < 0)
  BY DEF Climbs, depth, last, names
<1>8. DOMAIN depth = 0 .. last /\ depth[0] = 0
  BY <1>1, <1>6
<1>9. \A i \in 1 .. last : depth[i] = IF names[i] = <<".">> THEN depth[i - 1]
                                      ELSE IF names[i] = <<".", ".">> THEN depth[i - 1] - 1
                                      ELSE depth[i - 1] + 1
  <2>1. \A i \in 1 .. last : i \in 0 .. last /\ i # 0
    BY <1>1
  <2> QED  BY <1>6, <2>1
<1> DEFINE S == {i \in Nat : depth[i] \in Int}
<1>10. \A i \in 1 .. last : (i = 1 \/ i - 1 \in S) => i \in S
  BY <1>8, <1>9
<1> HIDE DEF S
<1>11. \A i \in 1 .. last : i \in S
  BY <1>1, <1>10, InductionUpto
<1>12. \A i \in 0 .. last : depth[i] \in Int
  <2> TAKE i \in 0 .. last
  <2>1. i = 0 \/ i \in 1 .. last
    BY <1>1
  <2> QED  BY <1>8, <1>11, <2>1 DEF S
<1>13. \A i \in 0 .. last : depth[i] >= 0
  BY <1>7, <1>8, <1>12
<1>14. ASSUME NEW i \in 1 .. last PROVE depth[i] = depth[i - 1] + Sinks(names[i])
  <2>1. i - 1 \in 0 .. last
    BY <1>1
  <2>2. depth[i - 1] \in Int
    BY <1>12, <2>1
  <2> QED  BY <1>9, <2>2 DEF Sinks
<1>15. Sounding(depth, names)
  <2>1. \A i \in 1 .. last : depth[i] \in Int
    BY <1>11 DEF S
  <2> QED  BY <1>8, <1>14, <2>1 DEF Sounding, last
<1> QED  BY <1>12, <1>13, <1>15 DEF names, last

LEMMA PrefixOfLonger ==
  ASSUME NEW S, NEW s \in Seq(S), NEW t \in Seq(S), IsPrefixOf(s, t), NEW x \in S
  PROVE  IsPrefixOf(s, Append(t, x))
<1>1. Len(s) \in Nat /\ Len(t) \in Nat /\ Len(s) <= Len(t) /\ SubSeq(t, 1, Len(s)) = s
  BY DEF IsPrefixOf
<1>2. SubSeq(Append(t, x), 1, Len(s)) = SubSeq(t, 1, Len(s))
  <2>1. /\ Append(t, x) \in Seq(S) /\ Len(Append(t, x)) = Len(t) + 1
        /\ \A i \in 1 .. Len(t) : Append(t, x)[i] = t[i]
    BY AppendProperties
  <2> DEFINE u == Append(t, x)
  <2> HIDE DEF u
  <2>2. /\ u \in Seq(S) /\ Len(u) = Len(t) + 1 /\ \A i \in 1 .. Len(t) : u[i] = t[i]
    BY <2>1 DEF u
  <2>3. Len(s) \in 0 .. Len(u) /\ Len(s) \in 0 .. Len(t)
    BY <1>1, <2>2
  <2>4. /\ SubSeq(u, 1, Len(s)) \in Seq(S) /\ Len(SubSeq(u, 1, Len(s))) = Len(s)
        /\ \A i \in 1 .. Len(s) : SubSeq(u, 1, Len(s))[i] = u[i]
    BY <2>2, <2>3, PrefixIs
  <2>5. /\ SubSeq(t, 1, Len(s)) \in Seq(S) /\ Len(SubSeq(t, 1, Len(s))) = Len(s)
        /\ \A i \in 1 .. Len(s) : SubSeq(t, 1, Len(s))[i] = t[i]
    BY <2>3, PrefixIs
  <2>6. \A i \in 1 .. Len(s) : SubSeq(u, 1, Len(s))[i] = SubSeq(t, 1, Len(s))[i]
    BY <1>1, <2>2, <2>4, <2>5
  <2>7. SubSeq(u, 1, Len(s)) = SubSeq(t, 1, Len(s))
    BY <2>4, <2>5, <2>6, SeqEqual
  <2> QED  BY <2>7 DEF u
<1>3. Len(s) <= Len(Append(t, x))
  BY <1>1
<1> QED  BY <1>1, <1>2, <1>3 DEF IsPrefixOf

LEMMA PrefixOfShorter ==
  ASSUME NEW S, NEW s \in Seq(S), NEW t \in Seq(S), IsPrefixOf(s, t), Len(s) < Len(t)
  PROVE  IsPrefixOf(s, SubSeq(t, 1, Len(t) - 1))
<1> DEFINE u == SubSeq(t, 1, Len(t) - 1)
<1>1. Len(s) \in Nat /\ Len(t) \in Nat /\ Len(s) <= Len(t) /\ SubSeq(t, 1, Len(s)) = s
  BY DEF IsPrefixOf
<1>2. Len(t) - 1 \in 0 .. Len(t) /\ Len(s) \in 0 .. Len(t) - 1 /\ Len(s) \in 0 .. Len(t)
  BY <1>1
<1>3. u \in Seq(S) /\ Len(u) = Len(t) - 1 /\ \A i \in 1 .. Len(t) - 1 : u[i] = t[i]
  BY <1>2, PrefixIs
<1> HIDE DEF u
<1>4. /\ SubSeq(u, 1, Len(s)) \in Seq(S) /\ Len(SubSeq(u, 1, Len(s))) = Len(s)
      /\ \A i \in 1 .. Len(s) : SubSeq(u, 1, Len(s))[i] = u[i]
  BY <1>2, <1>3, PrefixIs
<1>5. \A i \in 1 .. Len(s) : SubSeq(t, 1, Len(s))[i] = t[i]
  BY <1>2, PrefixIs
<1>6. \A i \in 1 .. Len(s) : SubSeq(u, 1, Len(s))[i] = s[i]
  BY <1>1, <1>2, <1>3, <1>4, <1>5
<1>7. SubSeq(u, 1, Len(s)) = s
  BY <1>4, <1>6, SeqEqual
<1> QED  BY <1>2, <1>3, <1>7 DEF IsPrefixOf, u

LEMMA PrefixOfPrefix ==
  ASSUME NEW S, NEW s \in Seq(S), NEW t \in Seq(S), NEW u \in Seq(S),
         IsPrefixOf(s, t), IsPrefixOf(t, u)
  PROVE  IsPrefixOf(s, u)
<1>1. /\ Len(s) \in Nat /\ Len(t) \in Nat /\ Len(u) \in Nat /\ Len(s) <= Len(t) /\ Len(t) <= Len(u)
      /\ SubSeq(t, 1, Len(s)) = s /\ SubSeq(u, 1, Len(t)) = t
  BY DEF IsPrefixOf
<1>2. Len(s) \in 0 .. Len(t) /\ Len(s) \in 0 .. Len(u) /\ Len(t) \in 0 .. Len(u)
  BY <1>1
<1>3. \A i \in 1 .. Len(s) : s[i] = t[i]
  <2>1. \A i \in 1 .. Len(s) : SubSeq(t, 1, Len(s))[i] = t[i]
    BY <1>2, PrefixIs
  <2> QED  BY <1>1, <2>1
<1>4. \A i \in 1 .. Len(t) : t[i] = u[i]
  <2>1. \A i \in 1 .. Len(t) : SubSeq(u, 1, Len(t))[i] = u[i]
    BY <1>2, PrefixIs
  <2> QED  BY <1>1, <2>1
<1>5. /\ SubSeq(u, 1, Len(s)) \in Seq(S) /\ Len(SubSeq(u, 1, Len(s))) = Len(s)
      /\ \A i \in 1 .. Len(s) : SubSeq(u, 1, Len(s))[i] = u[i]
  BY <1>2, PrefixIs
<1>6. \A i \in 1 .. Len(s) : SubSeq(u, 1, Len(s))[i] = s[i]
  BY <1>1, <1>3, <1>4, <1>5
<1>7. SubSeq(u, 1, Len(s)) = s
  BY <1>5, <1>6, SeqEqual
<1>8. Len(s) <= Len(u)
  BY <1>1
<1> QED  BY <1>7, <1>8 DEF IsPrefixOf

\* A path that neither is absolute nor climbs stays below where it starts.
LEMMA EnterBelow ==
  ASSUME NEW directory \in Tree, NEW node \in Tree, NEW name, NEW d \in Nat,
         IsPrefixOf(directory, node), Len(node) = Len(directory) + d, d + Sinks(name) >= 0,
         Enter(node, name) # NoNode
  PROVE  /\ IsPrefixOf(directory, Enter(node, name))
         /\ Len(Enter(node, name)) = Len(directory) + (d + Sinks(name))
<1>1. /\ directory \in Seq(Path \ {<<>>}) /\ node \in Seq(Path \ {<<>>})
      /\ Len(directory) \in Nat /\ Len(node) \in Nat
  BY Above
<1>2. node \in Directories
  BY DEF Enter
<1>3. CASE name = <<".">>
  <2>1. Enter(node, name) = node /\ Sinks(name) = 0
    BY <1>2, <1>3 DEF Enter, Sinks
  <2> QED  BY <2>1
<1>4. CASE name = <<".", ".">>
  <2>1. Enter(node, name) = SubSeq(node, 1, Len(node) - 1) /\ Sinks(name) = -1
    BY <1>2, <1>4 DEF Enter, Sinks
  <2>2. Len(directory) < Len(node) /\ Len(node) - 1 \in 0 .. Len(node)
    BY <1>1, <2>1
  <2>3. IsPrefixOf(directory, SubSeq(node, 1, Len(node) - 1))
    BY <1>1, <2>2, PrefixOfShorter
  <2>4. Len(SubSeq(node, 1, Len(node) - 1)) = Len(node) - 1
    BY <1>1, <2>2, PrefixIs
  <2> QED  BY <1>1, <2>1, <2>3, <2>4
<1>5. CASE name # <<".">> /\ name # <<".", ".">>
  <2>1. Enter(node, name) = Append(node, name) /\ Append(node, name) \in Tree /\ Sinks(name) = 1
    BY <1>2, <1>5 DEF Enter, Sinks
  <2>2. Append(node, name) \in Seq(Path \ {<<>>})
    BY <2>1, TreeAssumption
  <2>3. Len(Append(node, name)) = Len(node) + 1 /\ Append(node, name)[Len(node) + 1] = name
    BY <1>1, Appended DEF IsSequence
  <2>4. name \in Path \ {<<>>}
    <3>1. Len(node) + 1 \in 1 .. Len(Append(node, name))
      BY <1>1, <2>3
    <3> QED  BY <2>2, <2>3, <3>1
  <2>5. IsPrefixOf(directory, Append(node, name))
    BY <1>1, <2>4, PrefixOfLonger
  <2> QED  BY <1>1, <2>1, <2>3, <2>5
<1> QED  BY <1>3, <1>4, <1>5

BelowAt(directory, node, d) == IsPrefixOf(directory, node) /\ Len(node) = Len(directory) + d

LEMMA ResolveBelow ==
  ASSUME NEW directory \in Directories, NEW path \in Path, ~LeavesRoot(path),
         Resolve(directory, path) # NoNode
  PROVE  IsPrefixOf(directory, Resolve(directory, path))
<1>1. path # <<>> /\ path[1] # "/" /\ ~Climbs(path)
  BY DEF LeavesRoot, IsAbsolute, Resolve
<1> DEFINE names == Names(path)
           n == Len(names)
<1>2. Start(directory, path) = directory
  BY <1>1 DEF Start
<1>3. Len(names) \in Nat
  BY NamesTyped
<1>4. PICK w : /\ Walk(w, directory, names)
               /\ \A i \in 0 .. n : w[i] \in Tree \cup {NoNode}
               /\ Resolve(directory, path) =
                    IF ForDirectory(path) /\ w[n] \notin Directories THEN NoNode ELSE w[n]
  BY <1>3, <1>1, <1>2, WalkExists
<1>5. PICK d : Sounding(d, names) /\ \A i \in 0 .. n : d[i] \in Int /\ d[i] >= 0
  BY <1>1, DepthExists
<1>6. n \in Nat
  BY NamesTyped
<1>7. directory \in Tree /\ directory \in Seq(Path \ {<<>>}) /\ Len(directory) \in Nat
  BY Above DEF Tree
<1> HIDE DEF names
<1> DEFINE S == {i \in Nat : w[i] # NoNode => BelowAt(directory, w[i], d[i])}
<1>8. BelowAt(directory, w[0], d[0])
  <2>1. w[0] = directory /\ d[0] = 0
    BY <1>4, <1>5 DEF Walk, Sounding
  <2>2. SubSeq(directory, 1, Len(directory)) = directory
    BY <1>7, SubSeqFull
  <2> QED  BY <1>7, <2>1, <2>2 DEF IsPrefixOf, BelowAt
<1>9. ASSUME NEW i \in 1 .. n, i = 1 \/ i - 1 \in S PROVE i \in S
  <2> SUFFICES ASSUME w[i] # NoNode PROVE BelowAt(directory, w[i], d[i])
    OBVIOUS
  <2>1. i - 1 \in 0 .. n /\ i \in 0 .. n
    BY <1>6
  <2>2. w[i] = Enter(w[i - 1], names[i]) /\ d[i] = d[i - 1] + Sinks(names[i])
    BY <1>4, <1>5 DEF Walk, Sounding
  <2>3. w[i - 1] \in Tree
    <3>1. NoNode \notin Directories
      BY NoNodeOpens DEF NoNodeIsNone, Tree
    <3>2. w[i - 1] # NoNode
      BY <2>2, <3>1 DEF Enter
    <3> QED  BY <1>4, <2>1, <3>2
  <2>4. BelowAt(directory, w[i - 1], d[i - 1])
    <3>1. w[i - 1] # NoNode
      BY <2>3, NoNodeOpens DEF NoNodeIsNone
    <3>2. CASE i = 1
      BY <1>8, <3>2
    <3>3. CASE i - 1 \in S
      BY <3>1, <3>3
    <3> QED  BY <1>9, <3>2, <3>3
  <2>5. d[i - 1] \in Nat /\ d[i - 1] + Sinks(names[i]) >= 0
    BY <1>5, <2>1, <2>2
  <2> DEFINE node == w[i - 1]
             name == names[i]
             e == d[i - 1]
  <2>6. /\ node \in Tree /\ e \in Nat /\ e + Sinks(name) >= 0 /\ Enter(node, name) # NoNode
        /\ IsPrefixOf(directory, node) /\ Len(node) = Len(directory) + e
        /\ w[i] = Enter(node, name) /\ d[i] = e + Sinks(name)
    BY <2>2, <2>3, <2>4, <2>5 DEF BelowAt
  <2> HIDE DEF node, name, e, S
  <2>7. /\ IsPrefixOf(directory, Enter(node, name))
        /\ Len(Enter(node, name)) = Len(directory) + (e + Sinks(name))
    BY <1>7, <2>6, EnterBelow
  <2> QED  BY <2>6, <2>7 DEF BelowAt
<1> HIDE DEF S, n
<1>10. \A i \in 1 .. n : i \in S
  BY <1>6, <1>9, InductionUpto
<1>11. w[n] # NoNode => BelowAt(directory, w[n], d[n])
  <2>1. CASE n = 0
    BY <1>8, <2>1
  <2>2. CASE n # 0
    <3>1. n \in S
      BY <1>6, <1>10, <2>2
    <3> QED  BY <3>1 DEF S
  <2> QED  BY <2>1, <2>2
<1> QED  BY <1>4, <1>11 DEF BelowAt

\* The nodes that ordinary names lead to.
Down(directory, names, i) == directory \o SubSeq(names, 1, i)

LEMMA DownStep ==
  ASSUME NEW directory \in Seq(Path), NEW names \in Seq(Path), NEW i \in 1 .. Len(names)
  PROVE  /\ Down(directory, names, i) = Append(Down(directory, names, i - 1), names[i])
         /\ Len(Down(directory, names, i)) = Len(directory) + i
         /\ SubSeq(Down(directory, names, i), 1, Len(directory) + i - 1)
              = Down(directory, names, i - 1)
<1> DEFINE a == SubSeq(names, 1, i)
           b == SubSeq(names, 1, i - 1)
           x == names[i]
<1>1. /\ Len(names) \in Nat /\ Len(directory) \in Nat /\ i \in Nat /\ i \in 0 .. Len(names)
      /\ i - 1 \in 0 .. Len(names) /\ x \in Path
  OBVIOUS
<1>2. /\ a \in Seq(Path) /\ Len(a) = i /\ \A j \in 1 .. i : a[j] = names[j]
      /\ b \in Seq(Path) /\ Len(b) = i - 1 /\ \A j \in 1 .. i - 1 : b[j] = names[j]
  BY <1>1, PrefixIs
<1> HIDE DEF a, b, x
<1>3. /\ Append(b, x) \in Seq(Path) /\ Len(Append(b, x)) = i
      /\ \A j \in 1 .. i - 1 : Append(b, x)[j] = b[j]
      /\ Append(b, x)[i] = x
  BY <1>1, <1>2, AppendProperties
<1>4. a = Append(b, x)
  <2>1. ASSUME NEW j \in 1 .. i PROVE a[j] = Append(b, x)[j]
    <3>1. CASE j = i
      BY <1>2, <1>3, <3>1 DEF x
    <3>2. CASE j # i
      <4>1. j \in 1 .. i - 1
        BY <1>1, <3>2
      <4> QED  BY <1>2, <1>3, <4>1
    <3> QED  BY <3>1, <3>2
  <2> QED  BY <1>2, <1>3, <2>1, SeqEqual
<1> DEFINE u == directory \o b
<1>5. directory \o a = Append(u, x)
  <2>1. AppendsToBoth(Path)
    BY AppendedToBoth
  <2>2. Append(u, x) = directory \o Append(b, x)
    BY <1>1, <1>2, <2>1 DEF AppendsToBoth
  <2> QED  BY <1>4, <2>2
<1>6. u \in Seq(Path) /\ Len(u) = Len(directory) + (i - 1)
  BY <1>2, ConcatProperties
<1> HIDE DEF u
<1> DEFINE v == Append(u, x)
<1>7. /\ v \in Seq(Path) /\ Len(v) = Len(u) + 1
      /\ \A j \in 1 .. Len(u) : v[j] = u[j]
  BY <1>1, <1>6, AppendProperties
<1> HIDE DEF v
<1>8. SubSeq(v, 1, Len(u)) = u
  <2>1. Len(u) \in 0 .. Len(v)
    BY <1>1, <1>6, <1>7
  <2>2. /\ SubSeq(v, 1, Len(u)) \in Seq(Path) /\ Len(SubSeq(v, 1, Len(u))) = Len(u)
        /\ \A j \in 1 .. Len(u) : SubSeq(v, 1, Len(u))[j] = v[j]
    BY <1>7, <2>1, PrefixIs
  <2> QED  BY <1>6, <1>7, <2>2, SeqEqual
<1>9. Len(u) = Len(directory) + i - 1 /\ Len(v) = Len(directory) + i
  BY <1>1, <1>6, <1>7
<1>10. directory \o a = v /\ u = directory \o b
  BY <1>5 DEF u, v
<1>11. SubSeq(directory \o a, 1, Len(directory) + i - 1) = directory \o b
  BY <1>8, <1>9, <1>10
<1> QED  BY <1>9, <1>10, <1>11 DEF Down, a, b, u, v, x

\* One step down, to what is there.
Opened(node) == IF node \in Tree THEN node ELSE NoNode

LEMMA EnterDown ==
  ASSUME NEW directory \in Seq(Path), NEW names \in Seq(Path), NEW i \in 1 .. Len(names),
         names[i] \notin {<<".">>, <<".", ".">>}
  PROVE  Enter(Opened(Down(directory, names, i - 1)), names[i]) = Opened(Down(directory, names, i))
<1> DEFINE above == Down(directory, names, i - 1)
           node == Down(directory, names, i)
           x == names[i]
<1>1. /\ node = Append(above, x) /\ Len(node) = Len(directory) + i
      /\ SubSeq(node, 1, Len(directory) + i - 1) = above
  BY DownStep
<1>2. x # <<".">> /\ x # <<".", ".">>
  OBVIOUS
<1>3. Len(directory) \in Nat /\ i \in Nat /\ i >= 1
  OBVIOUS
<1> HIDE DEF above, node, x
<1>4. NoNode \notin Directories /\ NoNode \notin Tree
  BY NoNodeOpens DEF NoNodeIsNone, Tree
<1>5. CASE node \in Tree
  <2>1. above \in Directories
    <3>1. Len(directory) + i - 1 \in 0 .. Len(node) - 1
      BY <1>1, <1>3
    <3> QED  BY <1>1, <1>5, <3>1, Above
  <2>2. Opened(above) = above
    BY <2>1 DEF Opened, Tree
  <2> QED  BY <1>1, <1>2, <1>5, <2>1, <2>2 DEF Enter, Opened, above, node, x
<1>6. CASE node \notin Tree
  <2>1. Opened(node) = NoNode
    BY <1>6 DEF Opened
  <2>2. Enter(Opened(above), x) = NoNode
    <3>1. CASE Opened(above) \notin Directories
      BY <3>1 DEF Enter
    <3>2. CASE Opened(above) \in Directories
      <4>1. Opened(above) = above
        BY <1>4, <3>2 DEF Opened
      <4> QED  BY <1>1, <1>2, <1>6, <3>2, <4>1 DEF Enter
    <3> QED  BY <3>1, <3>2
  <2> QED  BY <2>1, <2>2 DEF above, node, x
<1> QED  BY <1>5, <1>6

\* Names that only go down lead to what they name.
LEMMA ResolveDown ==
  ASSUME NEW directory \in Directories, NEW path \in Path, Descends(path)
  PROVE  Resolve(directory, path) =
           IF IsThere(directory, path) THEN Named(directory, path) ELSE NoNode
<1> DEFINE names == Names(path)
           n == Len(names)
<1>1. path # <<>> /\ Start(directory, path) = directory
  BY DEF Descends, Start
<1>2. Len(names) \in Nat
  BY NamesTyped
<1>3. PICK w : /\ Walk(w, directory, names)
               /\ Resolve(directory, path) =
                    IF ForDirectory(path) /\ w[n] \notin Directories THEN NoNode ELSE w[n]
  BY <1>2, <1>1, WalkExists
<1>4. names \in Seq(Path) /\ n \in Nat /\ DOMAIN names = 1 .. n
  BY NamesTyped
<1>5. \A i \in 1 .. n : names[i] \notin {<<".">>, <<".", ".">>}
  BY <1>4 DEF Descends
<1>6. directory \in Tree /\ directory \in Seq(Path) /\ NoNode \notin Directories
  <2>1. directory \in Seq(Path \ {<<>>})
    BY Above DEF Tree
  <2> QED  BY <2>1, NoNodeOpens DEF Tree, NoNodeIsNone
<1> HIDE DEF names
<1> DEFINE S == {i \in Nat : w[i] = Opened(Down(directory, names, i))}
<1>7. w[0] = Opened(Down(directory, names, 0))
  <2>1. SubSeq(names, 1, 0) = <<>>
    BY <1>4
  <2>2. Down(directory, names, 0) = directory
    BY <1>6, <2>1 DEF Down
  <2> QED  BY <1>3, <1>6, <2>2 DEF Walk, Opened
<1>8. ASSUME NEW i \in 1 .. n, i = 1 \/ i - 1 \in S PROVE i \in S
  <2>1. w[i] = Enter(w[i - 1], names[i])
    BY <1>3 DEF Walk
  <2>2. w[i - 1] = Opened(Down(directory, names, i - 1))
    BY <1>7, <1>8
  <2>3. Enter(Opened(Down(directory, names, i - 1)), names[i]) = Opened(Down(directory, names, i))
    BY <1>4, <1>5, <1>6, EnterDown
  <2> QED  BY <2>1, <2>2, <2>3
<1> HIDE DEF S
<1>9. \A i \in 1 .. n : i \in S
  BY <1>4, <1>8, InductionUpto
<1>10. w[n] = Opened(Down(directory, names, n))
  <2>1. CASE n = 0
    BY <1>7, <2>1
  <2>2. CASE n # 0
    <3>1. n \in S
      BY <1>4, <1>9, <2>2
    <3> QED  BY <3>1 DEF S
  <2> QED  BY <2>1, <2>2
<1>11. Down(directory, names, n) = Named(directory, path)
  <2>1. SubSeq(names, 1, n) = names
    BY <1>4, SubSeqFull
  <2> QED  BY <2>1 DEF Down, Named, names
<1>12. IsThere(directory, path) =
         IF ForDirectory(path) THEN Named(directory, path) \in Directories
         ELSE Named(directory, path) \in Tree
  BY <1>1 DEF IsThere, ForDirectory
<1>13. Directories \subseteq Tree
  BY DEF Tree
<1> HIDE DEF n
<1> QED  BY <1>3, <1>6, <1>10, <1>11, <1>12, <1>13 DEF Opened

LEMMA OneName == ASSUME NEW c, c # "/" PROVE Names(<<c>>) = << <<c>> >>
<1> DEFINE path == <<c>>
<1>1. path \in Seq({c}) /\ Len(path) = 1 /\ path[1] = c /\ SubSeq(path, 1, 1) = path
  <2>1. path \in Seq({c}) /\ Len(path) = 1 /\ path[1] = c
    OBVIOUS
  <2> QED  BY <2>1, SubSeqFull
<1> HIDE DEF path
<1>2. NameEnds(path, 1) /\ NameAt(path, 1) = path
  <2> DEFINE Q == {q \in 1 .. 1 : path[q] = "/"}
  <2>1. Q = {}
    BY <1>1
  <2> HIDE DEF Q
  <2>2. Max({0} \cup Q) = 0
    <3>1. Q \subseteq 1 .. 0 /\ 0 \in Nat
      BY <2>1
    <3>2. Max({0} \cup Q) \in 0 .. 0
      BY ONLY <3>1, MaxFromZero
    <3> QED  BY <3>2
  <2>3. NameAt(path, 1) = SubSeq(path, 1 + Max({0} \cup Q), 1)
    BY DEF NameAt, Q
  <2>4. NameAt(path, 1) = path
    <3>1. NameAt(path, 1) = SubSeq(path, 1 + 0, 1)
      BY <2>2, <2>3
    <3> QED  BY <1>1, <3>1
  <2> QED  BY <1>1, <2>4 DEF NameEnds
<1>3. PICK names : Splits(names, path)
  BY <1>1, NamesFound
<1>4. names[1] = Append(names[0], path) /\ names[0] = <<>> /\ Names(path) = names[1]
  <2>1. 1 \in 1 .. Len(path) /\ 1 - 1 = 0
    BY <1>1
  <2> QED  BY <1>1, <1>2, <1>3, <2>1 DEF Splits
<1>5. Append(<<>>, path) = <<path>>
  OBVIOUS
<1> QED  BY <1>4, <1>5 DEF path

\* "." is the directory it is opened in.
LEMMA ResolveDot ==
  ASSUME NEW directory \in Directories
  PROVE  Resolve(directory, <<".">>) = directory
<1> DEFINE dot == <<".">>
<1>1. Len(dot) = 1 /\ dot[1] = "." /\ dot # <<>>
  OBVIOUS
<1>2. "." # "/"
  OBVIOUS
<1>3. Names(dot) = <<dot>>
  BY <1>2, OneName
<1> HIDE DEF dot
<1>4. PICK w : /\ Walk(w, Start(directory, dot), <<dot>>)
               /\ Resolve(directory, dot) =
                    IF ForDirectory(dot) /\ w[Len(<<dot>>)] \notin Directories THEN NoNode
                    ELSE w[Len(<<dot>>)]
  <2>1. Len(Names(dot)) \in Nat
    BY <1>3
  <2> QED  BY <1>1, <1>3, <2>1, WalkExists
<1>5. Start(directory, dot) = directory /\ ~ForDirectory(dot) /\ Len(<<dot>>) = 1
  BY <1>1, <1>2 DEF Start, ForDirectory
<1>6. w[1] = Enter(directory, dot)
  <2>1. 1 \in 1 .. Len(<<dot>>) /\ <<dot>>[1] = dot
    OBVIOUS
  <2>2. w[0] = directory /\ \A i \in 1 .. Len(<<dot>>) : w[i] = Enter(w[i - 1], <<dot>>[i])
    BY <1>4, <1>5 DEF Walk
  <2>3. w[1] = Enter(w[1 - 1], <<dot>>[1])
    BY <2>1, <2>2
  <2> QED  BY <2>1, <2>2, <2>3
<1>7. Enter(directory, dot) = directory
  BY DEF Enter, dot
<1> QED  BY <1>4, <1>5, <1>6, <1>7 DEF dot

\* The uri "/" has no names.
LEMMA NoNames == Names(<<>>) = <<>>
<1>1. <<>> \in Seq({}) /\ Len(<<>>) = 0
  OBVIOUS
<1>2. PICK names : Splits(names, <<>>)
  BY <1>1, NamesFound
<1> QED  BY <1>1, <1>2 DEF Splits

-----------------------------------------------------------------------------
(* The sites as they are kept. *)

LEMMA SwitchedOnTyped ==
  ASSUME NEW gateways \in Seq(FcgiConfig)
  PROVE  SwitchedOn(gateways) \in Seq(FcgiConfig)
<1> DEFINE last == Len(gateways)
           V == Seq(FcgiConfig)
           Step(v, i) == IF gateways[i].enable THEN Append(v, gateways[i]) ELSE v
           step == [p \in V \X (1 .. last) |-> Step(p[1], p[2])]
           Steps(k) == k = [i \in 0 .. last |-> IF i = 0 THEN <<>> ELSE Step(k[i - 1], i)]
<1>1. ASSUME NEW v \in V, NEW i \in 1 .. last PROVE Step(v, i) \in V
  BY <1>1
<1>2. last \in Nat /\ <<>> \in V
  OBVIOUS
<1> HIDE DEF Step, V, last
<1>3. \A v \in V, i \in 1 .. last : step[<<v, i>>] = Step(v, i) /\ step[<<v, i>>] \in V
  BY <1>1
<1> HIDE DEF step
<1>4. PICK k : StepsUpto(k, V, <<>>, step, last)
  BY <1>2, <1>3, RecursionExists
<1>5. Steps(k)
  <2>1. /\ k \in [0 .. last -> V] /\ k[0] = <<>>
        /\ \A i \in 1 .. last : k[i] = step[<<k[i - 1], i>>]
    BY <1>4 DEF StepsUpto
  <2>2. ASSUME NEW i \in 0 .. last
        PROVE  k[i] = IF i = 0 THEN <<>> ELSE Step(k[i - 1], i)
    <3>1. CASE i = 0
      BY <2>1, <3>1
    <3>2. CASE i # 0
      <4>1. i \in 1 .. last /\ i - 1 \in 0 .. last
        BY <1>2, <3>2
      <4>2. k[i - 1] \in V /\ k[i] = step[<<k[i - 1], i>>]
        BY <2>1, <4>1
      <4> QED  BY <1>3, <3>2, <4>1, <4>2
    <3> QED  BY <3>1, <3>2
  <2>3. k = [i \in 0 .. last |-> k[i]]
    BY <2>1
  <2> QED  BY <2>2, <2>3
<1> DEFINE on == CHOOSE k_1 : Steps(k_1)
<1>6. Steps(on)
  BY <1>5
<1> HIDE DEF on
<1>7. on[0] = <<>> /\ \A i \in 1 .. last : on[i] = Step(on[i - 1], i)
  BY <1>2, <1>6
<1> DEFINE S == {i \in Nat : on[i] \in V}
<1>8. \A i \in 1 .. last : (i = 1 \/ i - 1 \in S) => i \in S
  BY <1>1, <1>2, <1>7
<1> HIDE DEF S
<1>9. \A i \in 1 .. last : i \in S
  BY <1>2, <1>8, InductionUpto
<1>10. on[last] \in V
  BY <1>2, <1>7, <1>9 DEF S
<1> QED  BY <1>10 DEF SwitchedOn, on, last, Step, V

LEMMA LoadedTyped ==
  ASSUME NEW site \in HostConfig
  PROVE  Loaded(site) \in HostConfig /\ Loaded(site).host = site.host
<1>1. SwitchedOn(site.fastcgi) \in Seq(FcgiConfig)
  BY SwitchedOnTyped DEF HostConfig
<1> QED  BY <1>1 DEF Loaded, HostConfig

\* The sites that were read.
HostsRead ==
  /\ sites \in Configs /\ sites \in Seq(HostConfig) /\ at \in Nat /\ at >= 1
  /\ hosts \in Seq(HostConfig)
  /\ anyhost => Len(hosts) = 1 /\ ~Loading

LEMMA LoadedSite ==
  ASSUME HostsRead, Loading
  PROVE  /\ at \in 1 .. Len(sites) /\ sites[at] \in HostConfig
         /\ Loaded(sites[at]) \in HostConfig /\ Loaded(sites[at]).host = sites[at].host
<1>1. at \in 1 .. Len(sites) /\ sites[at] \in HostConfig
  BY DEF HostsRead, Loading
<1> QED  BY <1>1, LoadedTyped

LEMMA HostsStep == ASSUME HostsRead, [Next]_vars PROVE HostsRead'
<1>1. CASE SkipSite
  BY <1>1 DEF SkipSite, Loads, HostsRead
<1>2. CASE AddSite
  <2> DEFINE h == Loaded(sites[at])
  <2>1. /\ h \in HostConfig /\ hosts' = Append(hosts, h) /\ at' = at + 1
        /\ UNCHANGED <<sites, anyhost>> /\ Loading
    BY <1>2, LoadedSite DEF AddSite, Loads
  <2> HIDE DEF h
  <2>2. hosts' \in Seq(HostConfig) /\ ~anyhost'
    BY <2>1, AppendProperties DEF HostsRead
  <2> QED  BY <2>1, <2>2 DEF HostsRead
<1>3. CASE AddAnySite
  <2> DEFINE h == Loaded(sites[at])
  <2>1. /\ h \in HostConfig /\ hosts' = <<h>> /\ at' = Len(sites) + 1 /\ UNCHANGED sites
    BY <1>3, LoadedSite DEF AddAnySite, Loads
  <2> HIDE DEF h
  <2>2. hosts' \in Seq(HostConfig) /\ Len(hosts') = 1
    BY <2>1
  <2> QED  BY <2>1, <2>2 DEF HostsRead, Loading
<1>4. CASE \E r \in (IF reads = 0 THEN Requests ELSE Later) : Serve(r)
  BY <1>4 DEF Serve, config, HostsRead, Loading
<1>5. CASE ReadPart \/ Ask \/ UNCHANGED vars
  BY <1>5 DEF ReadPart, Ask, config, vars, HostsRead, Loading
<1> QED  BY <1>1, <1>2, <1>3, <1>4, <1>5 DEF Next

LEMMA HostIsRead ==
  ASSUME HostsRead, NEW name, AdaptHost(name).kind # Nothing
  PROVE  AdaptHost(name) \in HostConfig
<1>1. CASE anyhost
  <2>1. Len(hosts) = 1 /\ AdaptHost(name) = hosts[1] /\ hosts \in Seq(HostConfig)
    BY <1>1 DEF HostsRead, AdaptHost
  <2>2. 1 \in 1 .. Len(hosts)
    BY <2>1
  <2> QED  BY <2>1, <2>2
<1>2. CASE ~anyhost
  <2> DEFINE found == {i \in DOMAIN hosts : hosts[i].host = name}
  <2>1. AdaptHost(name) = IF found = {} THEN [kind |-> Nothing] ELSE hosts[Min(found)]
    BY <1>2 DEF AdaptHost, FirstOf
  <2>2. found # {}
    BY <2>1
  <2>3. hosts \in Seq(HostConfig) /\ DOMAIN hosts = 1 .. Len(hosts)
    BY DEF HostsRead
  <2>4. found \subseteq Nat
    BY <2>3
  <2>5. Min(found) \in 1 .. Len(hosts)
    BY <2>2, <2>3, <2>4, MinIs
  <2> QED  BY <2>1, <2>2, <2>3, <2>5
<1> QED  BY <1>1, <1>2

-----------------------------------------------------------------------------
(* Pages. *)

LEMMA UriOpens ==
  ASSUME NEW root \in Directories, NEW uri \in Path
  PROVE  /\ Resolve(root, GetUri(uri)) \in Tree \cup {NoNode}
         /\ Resolve(root, GetUri(uri)) # NoNode /\ ~LeavesRoot(GetUri(uri))
              => IsPrefixOf(root, Resolve(root, GetUri(uri)))
<1>1. root \in Tree /\ root \in Seq(Path \ {<<>>}) /\ Len(root) \in Nat
  BY Above DEF Tree
<1>2. CASE Len(uri) = 1
  <2>1. Resolve(root, GetUri(uri)) = root
    BY <1>2, ResolveDot DEF GetUri
  <2>2. SubSeq(root, 1, Len(root)) = root
    BY <1>1, SubSeqFull
  <2> QED  BY <1>1, <2>1, <2>2 DEF IsPrefixOf
<1>3. CASE Len(uri) # 1
  <2>1. GetUri(uri) \in Path
    <3>1. uri # <<>> => Tail(uri) \in Path
      BY DEF Path
    <3> QED  BY <1>3, <3>1 DEF GetUri
  <2> QED  BY <2>1, ResolveTyped, ResolveBelow
<1> QED  BY <1>2, <1>3

\* A default file opens when it is found.
LEMMA DefaultFileOpens ==
  ASSUME NEW host \in HostConfig, NEW directory, DefaultFile(host, directory) # NoNode
  PROVE  \E i \in DOMAIN host.defaults :
           /\ host.defaults[i] \in Path
           /\ DefaultFile(host, directory) = Resolve(directory, host.defaults[i])
<1> DEFINE found == DefaultsThatOpen(host, directory)
<1>1. found # {}
  BY DEF DefaultFile
<1>2. host.defaults \in Seq(Path) /\ DOMAIN host.defaults = 1 .. Len(host.defaults)
  BY DEF HostConfig
<1>3. found \subseteq 1 .. Len(host.defaults) /\ found \subseteq Nat
  BY <1>2 DEF DefaultsThatOpen
<1>4. Min(found) \in found
  BY <1>1, <1>3, MinIs
<1>5. DefaultFile(host, directory) = Resolve(directory, host.defaults[Min(found)])
  BY <1>1 DEF DefaultFile
<1> HIDE DEF found
<1>6. host.defaults[Min(found)] \in Path
  <2>1. Min(found) \in 1 .. Len(host.defaults)
    BY <1>3, <1>4
  <2>2. \A i \in 1 .. Len(host.defaults) : host.defaults[i] \in Path
    BY ONLY <1>2
  <2> QED  BY ONLY <2>1, <2>2
<1> QED  BY <1>2, <1>3, <1>4, <1>5, <1>6

AllowedFile(site, uri, file) ==
  /\ file \in Tree
  /\ \/ IsPrefixOf(site.root, file)
     \/ LeavesRoot(GetUri(uri))
     \/ \E i \in DOMAIN site.defaults : LeavesRoot(site.defaults[i])

LEMMA StaticFileAllowed ==
  ASSUME NEW host \in HostConfig, NEW uri \in Path, StaticFile(host, GetUri(uri)) # NoNode
  PROVE  AllowedFile(host, uri, StaticFile(host, GetUri(uri)))
<1> DEFINE node == Resolve(host.root, GetUri(uri))
           file == StaticFile(host, GetUri(uri))
<1>1. host.root \in Directories
  BY DEF HostConfig
<1>2. /\ node \in Tree \cup {NoNode}
      /\ node # NoNode /\ ~LeavesRoot(GetUri(uri)) => IsPrefixOf(host.root, node)
  BY <1>1, UriOpens
<1>3. file = IF node \in Directories THEN DefaultFile(host, node) ELSE node
  BY DEF StaticFile
<1> HIDE DEF node, file
<1>4. CASE node \notin Directories
  <2>1. file = node /\ node # NoNode
    BY <1>3, <1>4 DEF file
  <2> QED  BY <1>2, <2>1 DEF AllowedFile, file
<1>5. CASE node \in Directories
  <2>1. file = DefaultFile(host, node) /\ file # NoNode
    BY <1>3, <1>5 DEF file
  <2>2. PICK i \in DOMAIN host.defaults :
          host.defaults[i] \in Path /\ file = Resolve(node, host.defaults[i])
    BY <2>1, DefaultFileOpens
  <2>3. file \in Tree
    BY <1>5, <2>1, <2>2, ResolveTyped
  <2>4. ASSUME ~LeavesRoot(GetUri(uri)), ~LeavesRoot(host.defaults[i])
        PROVE  IsPrefixOf(host.root, file)
    <3>1. node \in Tree /\ node # NoNode /\ host.root \in Tree
      BY <1>1, <1>5, NoNodeOpens DEF Tree, NoNodeIsNone
    <3>2. IsPrefixOf(host.root, node)
      BY <1>2, <2>4, <3>1
    <3>3. IsPrefixOf(node, file)
      BY <1>5, <2>1, <2>2, <2>4, ResolveBelow
    <3>4. /\ host.root \in Seq(Path \ {<<>>}) /\ node \in Seq(Path \ {<<>>})
          /\ file \in Seq(Path \ {<<>>})
      BY <2>3, <3>1, Above
    <3> QED  BY <3>2, <3>3, <3>4, PrefixOfPrefix
  <2> QED  BY <2>3, <2>4 DEF AllowedFile, file
<1> QED  BY <1>4, <1>5

AllowedAnswer(answer) ==
  /\ answer.request.good
  /\ answer.request.uri \notin answer.site.forbidden
  /\ AllowedFile(answer.site, answer.request.uri, answer.file)

LEMMA AnswerIsAllowed ==
  ASSUME HostsRead, NEW r, r.uri \in Path, ~r.good => r.code # 200, NEW name,
         Answer(r, NewUri(r), name).kind = "page"
  PROVE  AllowedAnswer(Answer(r, NewUri(r), name))
<1> DEFINE uri == NewUri(r)
           host == AdaptHost(name)
           file == IF host.kind = Nothing THEN NoNode ELSE StaticFile(host, GetUri(uri))
           code == CodeOf(r, host, uri, file)
           answer == Answer(r, uri, name)
<1>1. answer.request = r /\ answer.site = host /\ answer.file = file /\ code = 200
  BY DEF Answer
<1>2. r.good /\ ~IsForbidden(host, uri) /\ HasGateway(host) /\ file # NoNode
  BY <1>1 DEF CodeOf
<1>3. uri = r.uri /\ host.kind # Nothing /\ file = StaticFile(host, GetUri(uri))
  BY <1>2 DEF NewUri, HasGateway
<1>4. host \in HostConfig
  BY <1>3, HostIsRead
<1> HIDE DEF host, uri, file, answer
<1>5. AllowedFile(host, uri, file)
  BY <1>2, <1>3, <1>4, StaticFileAllowed
<1>6. AllowedAnswer(answer)
  BY <1>1, <1>2, <1>3, <1>5 DEF IsForbidden, AllowedAnswer
<1> QED  BY <1>6 DEF answer, uri

LEMMA InitHostsRead == Init => HostsRead
BY ConfigsAssumption DEF Init, HostsRead

LEMMA PagesAre == PagesAllowed <=> (reply.kind = "page" => AllowedAnswer(reply))
BY DEF PagesAllowed, AllowedAnswer, AllowedFile

LEMMA PagesStep ==
  ASSUME HostsRead, reply.kind = "page" => AllowedAnswer(reply), [Next]_vars
  PROVE  reply'.kind = "page" => AllowedAnswer(reply')
<1>1. CASE \E r \in (IF reads = 0 THEN Requests ELSE Later) : Serve(r)
  <2>1. PICK r \in Requests \cup Later : Serve(r)
    BY <1>1
  <2>2. PICK name : reply' = Answer(r, NewUri(r), name)
    BY <2>1 DEF Serve
  <2>3. r.uri \in Path /\ (~r.good => r.code # 200)
    BY RequestsAssumption
  <2> DEFINE answer == Answer(r, NewUri(r), name)
  <2>4. answer.kind = "page" => AllowedAnswer(answer)
    BY <2>3, AnswerIsAllowed
  <2> HIDE DEF answer
  <2>5. reply' = answer
    BY <2>2 DEF answer
  <2> QED  BY <2>4, <2>5
<1>2. CASE SkipSite \/ AddSite \/ AddAnySite \/ ReadPart \/ Ask \/ UNCHANGED vars
  <2>1. reply' = reply
    BY <1>2 DEF SkipSite, AddSite, AddAnySite, Loads, ReadPart, Ask, vars
  <2> QED  BY <2>1
<1> QED  BY <1>1, <1>2 DEF Next

\* For every configuration, every tree of files and every sequence of requests: a
\* page is in the tree, was asked for by a good request that is not forbidden, and
\* is below its wwwroot unless a path that was followed is absolute or climbs.
THEOREM OnlyAllowedPages == Spec => []PagesAllowed
<1> DEFINE Pages == reply.kind = "page" => AllowedAnswer(reply)
<1>1. Init => HostsRead
  BY InitHostsRead
<1>2. Init => Pages
  BY DEF Init, Nothing
<1>3. HostsRead /\ Pages /\ [Next]_vars => Pages'
  BY PagesStep
<1>4. Pages => PagesAllowed
  BY PagesAre
<1> HIDE DEF Pages
<1> QED  BY <1>1, <1>2, <1>3, <1>4, HostsStep, PTL DEF Spec

-----------------------------------------------------------------------------
(* The gateway. *)

\* The induction: the mark is set by the first answer from a gateway and stays;
\* a provider that waits is for the request that is there, or a later one came.
Delegated ==
  /\ reads \in Nat /\ first \in Nat /\ first <= reads
  /\ mark \in BOOLEAN /\ (mark <=> first # 0)
  /\ asked.count \in Nat /\ reply.read \in Nat /\ reply.read <= reads
  /\ IsSequence(pending)
  /\ \A i \in 1 .. Len(pending) :
       /\ pending[i].read \in Nat /\ pending[i].read <= reads
       /\ pending[i].uri # request.uri => pending[i].read < reply.read
  /\ QuestionsCounted /\ AskedForItsRequest

LEMMA DelegatesKeeps ==
  ASSUME Delegated, NEW uri, NEW marks \in BOOLEAN, Delegates(marks, uri),
         reads' = reads + 1, UNCHANGED asked, request'.uri = uri,
         reply'.read = reads + 1 \/ UNCHANGED <<request, reply>>,
         first' = IF first = 0 /\ marks THEN reads + 1 ELSE first,
         first # 0 => marks
  PROVE  Delegated'
<1> DEFINE e == [uri |-> uri, read |-> reads + 1]
<1>1. /\ reads \in Nat /\ first \in Nat /\ first <= reads /\ asked.count \in Nat
      /\ reply.read \in Nat /\ reply.read <= reads
      /\ IsSequence(pending) /\ Len(pending) \in Nat
  BY LengthIs DEF Delegated
<1>2. mark' = marks /\ (marks <=> first' # 0) /\ first' \in Nat /\ first' <= reads'
  BY <1>1 DEF Delegates
<1>3. reply'.read \in Nat /\ reply'.read <= reads' /\ reply.read <= reply'.read
  BY <1>1
<1>4. \A i \in 1 .. Len(pending) :
        /\ pending[i].read \in Nat /\ pending[i].read <= reads'
        /\ pending[i].uri # request'.uri => pending[i].read < reply'.read
  BY <1>1 DEF Delegated
<1>5. /\ IsSequence(pending')
      /\ Len(pending') = Len(pending) + (IF marks THEN 1 ELSE 0)
      /\ \A i \in 1 .. Len(pending') :
           /\ pending'[i].read \in Nat /\ pending'[i].read <= reads'
           /\ pending'[i].uri # request'.uri => pending'[i].read < reply'.read
  <2>1. CASE marks
    <3>1. e.uri = request'.uri /\ e.read = reads'
      OBVIOUS
    <3>2. pending' = Append(pending, e)
      BY <2>1 DEF Delegates
    <3> HIDE DEF e
    <3>3. /\ IsSequence(pending') /\ Len(pending') = Len(pending) + 1
          /\ \A i \in 1 .. Len(pending) : pending'[i] = pending[i]
          /\ pending'[Len(pending) + 1] = e
      BY <1>1, <3>2, Appended
    <3>4. ASSUME NEW i \in 1 .. Len(pending')
          PROVE  /\ pending'[i].read \in Nat /\ pending'[i].read <= reads'
                 /\ pending'[i].uri # request'.uri => pending'[i].read < reply'.read
      <4>1. CASE i = Len(pending) + 1
        BY <1>1, <3>1, <3>3, <4>1
      <4>2. CASE i \in 1 .. Len(pending)
        BY <1>4, <3>3, <4>2
      <4> QED  BY <1>1, <3>3, <4>1, <4>2
    <3> QED  BY <1>1, <2>1, <3>3, <3>4
  <2>2. CASE ~marks
    <3>1. pending' = pending
      BY <2>2 DEF Delegates
    <3> QED  BY <1>1, <1>4, <2>2, <3>1
  <2> QED  BY <2>1, <2>2
<1>6. QuestionsCounted'
  BY <1>1, <1>5 DEF Delegated, QuestionsCounted
<1>7. AskedForItsRequest'
  BY DEF Delegated, AskedForItsRequest
<1> QED  BY <1>1, <1>2, <1>3, <1>5, <1>6, <1>7 DEF Delegated

LEMMA AskKeeps == ASSUME Delegated, Ask PROVE Delegated'
<1>1. /\ IsSequence(pending) /\ Len(pending) \in Nat /\ pending # <<>>
      /\ asked.count \in Nat /\ UNCHANGED <<reads, first, mark, request, reply>>
  BY LengthIs DEF Delegated, Ask
<1>2. /\ IsSequence(pending') /\ Len(pending) >= 1 /\ Len(pending') = Len(pending) - 1
      /\ \A i \in 1 .. Len(pending) - 1 : pending'[i] = pending[i + 1]
  <2>1. PICK S : pending \in Seq(S)
    BY <1>1 DEF IsSequence
  <2>2. pending' = Tail(pending)
    BY DEF Ask
  <2>3. pending' \in Seq(S)
    BY <1>1, <2>1, <2>2
  <2> QED  BY <1>1, <2>1, <2>2, <2>3 DEF IsSequence
<1>3. /\ asked'.count = asked.count + 1
      /\ asked'.for = pending[1].uri /\ asked'.uri = request.uri
      /\ asked'.overtaken = (pending[1].read < reply.read)
  BY DEF Ask
<1>4. QuestionsCounted'
  BY <1>1, <1>2, <1>3 DEF Delegated, QuestionsCounted
<1>5. AskedForItsRequest'
  <2>1. 1 \in 1 .. Len(pending)
    BY <1>1, <1>2
  <2>2. pending[1].uri # request.uri => pending[1].read < reply.read
    BY <2>1 DEF Delegated
  <2> QED  BY <1>3, <2>2 DEF AskedForItsRequest
<1>6. ASSUME NEW i \in 1 .. Len(pending')
      PROVE  /\ pending'[i].read \in Nat /\ pending'[i].read <= reads
             /\ pending'[i].uri # request.uri => pending'[i].read < reply.read
  <2>1. i + 1 \in 1 .. Len(pending) /\ pending'[i] = pending[i + 1]
    BY <1>1, <1>2
  <2> QED  BY <2>1 DEF Delegated
<1> QED  BY <1>1, <1>2, <1>3, <1>4, <1>5, <1>6 DEF Delegated

LEMMA ServeKeeps == ASSUME Delegated, NEW r, Serve(r) PROVE Delegated'
<1> DEFINE marks == Marks(reply')
<1>1. /\ reads' = reads + 1 /\ UNCHANGED asked
      /\ Delegates(marks, NewUri(r)) /\ request'.uri = NewUri(r)
      /\ first' = IF first = 0 /\ reply'.kind = "gateway" THEN reads + 1 ELSE first
  BY DEF Serve
<1>2. reply'.read = reads + 1
  BY DEF Serve, Answer
<1>3. mark \in BOOLEAN /\ (mark <=> first # 0)
  BY DEF Delegated
<1>4. /\ marks \in BOOLEAN
      /\ first' = IF first = 0 /\ marks THEN reads + 1 ELSE first
      /\ first # 0 => marks
  BY <1>1, <1>3 DEF Marks
<1> HIDE DEF marks
<1> QED  BY <1>1, <1>2, <1>4, DelegatesKeeps

LEMMA ReadPartKeeps == ASSUME Delegated, ReadPart PROVE Delegated'
<1>1. /\ reads' = reads + 1 /\ UNCHANGED <<asked, request, reply, first>>
      /\ Delegates(mark, request.uri) /\ request'.uri = request.uri
  BY DEF ReadPart
<1>2. mark \in BOOLEAN /\ (mark <=> first # 0)
  BY DEF Delegated
<1> QED  BY <1>1, <1>2, DelegatesKeeps

LEMMA DelegatedStep == ASSUME Delegated, [Next]_vars PROVE Delegated'
<1>1. CASE SkipSite \/ AddSite \/ AddAnySite \/ UNCHANGED vars
  BY <1>1 DEF SkipSite, AddSite, AddAnySite, Loads, vars, Delegated, QuestionsCounted,
              AskedForItsRequest
<1>2. CASE \E r \in (IF reads = 0 THEN Requests ELSE Later) : Serve(r)
  BY <1>2, ServeKeeps
<1>3. CASE ReadPart \/ Ask
  BY <1>3, ReadPartKeeps, AskKeeps
<1> QED  BY <1>1, <1>2, <1>3 DEF Next

LEMMA DelegatedInit == Init => Delegated
<1> SUFFICES ASSUME Init PROVE Delegated
  OBVIOUS
<1>1. IsSequence(pending) /\ Len(pending) = 0
  BY EmptyIs DEF Init
<1>2. /\ reads = 0 /\ first = 0 /\ mark = FALSE
      /\ asked.count = 0 /\ reply.read = 0 /\ asked.for = asked.uri
  BY DEF Init
<1>3. QuestionsCounted /\ AskedForItsRequest
  BY <1>1, <1>2 DEF QuestionsCounted, AskedForItsRequest
<1>4. 1 .. Len(pending) = {}
  BY <1>1
<1>5. /\ reads \in Nat /\ first \in Nat /\ first <= reads
      /\ asked.count \in Nat /\ reply.read \in Nat /\ reply.read <= reads
  BY <1>2
<1>6. mark \in BOOLEAN /\ (mark <=> first # 0)
  BY <1>2
<1>7. \A i \in 1 .. Len(pending) :
        /\ pending[i].read \in Nat /\ pending[i].read <= reads
        /\ pending[i].uri # request.uri => pending[i].read < reply.read
  BY <1>4
<1> QED  BY <1>1, <1>3, <1>5, <1>6, <1>7 DEF Delegated

\* However many requests come on a connection and whenever the gateway's sockets
\* are ready, from the first one for a gateway on every read sends exactly one
\* more request to it, and none before.
THEOREM EveryReadAsks == Spec => []QuestionsCounted
<1>1. Delegated => QuestionsCounted
  BY DEF Delegated
<1> QED  BY <1>1, DelegatedInit, DelegatedStep, PTL DEF Spec

\* The gateway is asked for another request than it was chosen for only when the
\* connection went on to a later one before makeRequest ran.
THEOREM AskedLate == Spec => []AskedForItsRequest
<1>1. Delegated => AskedForItsRequest
  BY DEF Delegated
<1> QED  BY <1>1, DelegatedInit, DelegatedStep, PTL DEF Spec

-----------------------------------------------------------------------------
(* Types. *)

FromSites(host) == \E j \in DOMAIN sites : host = Loaded(sites[j])
ConfigTyped ==
  /\ at <= Len(sites) + 1 /\ anyhost \in BOOLEAN
  /\ \A i \in 1 .. Len(hosts) : FromSites(hosts[i])
AnswersTyped ==
  /\ reply.kind \in {Nothing, "gateway", "page", "error"}
  /\ reads <= MaxReads
  /\ \A i \in 1 .. Len(pending) : pending[i].read >= 1

LEMMA ConfigStep == ASSUME HostsRead, ConfigTyped, [Next]_vars PROVE ConfigTyped'
<1>1. /\ Len(sites) \in Nat /\ DOMAIN sites = 1 .. Len(sites) /\ at \in Nat /\ at >= 1
      /\ IsSequence(hosts) /\ Len(hosts) \in Nat
  BY LengthIs DEF HostsRead, IsSequence
<1>2. CASE SkipSite
  BY <1>1, <1>2 DEF SkipSite, Loading, Loads, ConfigTyped, FromSites
<1> DEFINE h == Loaded(sites[at])
<1>3. Loading => FromSites(h)
  BY <1>1 DEF Loading, FromSites
<1> HIDE DEF h
<1>4. CASE AddSite
  <2>1. /\ Loading /\ hosts' = Append(hosts, h) /\ at' = at + 1 /\ UNCHANGED <<sites, anyhost>>
    BY <1>4 DEF AddSite, Loads, h
  <2>2. /\ Len(hosts') = Len(hosts) + 1
        /\ \A i \in 1 .. Len(hosts) : hosts'[i] = hosts[i]
        /\ hosts'[Len(hosts) + 1] = h
    BY <1>1, <2>1, Appended
  <2>3. ASSUME NEW i \in 1 .. Len(hosts') PROVE FromSites(hosts'[i])
    <3>1. CASE i \in 1 .. Len(hosts)
      BY <2>2, <3>1 DEF ConfigTyped
    <3>2. CASE i = Len(hosts) + 1
      BY <1>3, <2>1, <2>2, <3>2
    <3> QED  BY <1>1, <2>2, <3>1, <3>2
  <2> QED  BY <1>1, <2>1, <2>3 DEF ConfigTyped, FromSites, Loading
<1>5. CASE AddAnySite
  <2>1. /\ Loading /\ hosts' = <<h>> /\ at' = Len(sites) + 1 /\ anyhost' = TRUE
        /\ UNCHANGED sites
    BY <1>5 DEF AddAnySite, Loads, h
  <2>2. \A i \in 1 .. Len(hosts') : hosts'[i] = h
    BY <2>1
  <2>3. \A i \in 1 .. Len(hosts') : FromSites(hosts'[i])
    BY <1>3, <2>1, <2>2
  <2> QED  BY <1>1, <2>1, <2>3 DEF ConfigTyped, FromSites
<1>6. CASE \E r \in (IF reads = 0 THEN Requests ELSE Later) : Serve(r)
  BY <1>6 DEF Serve, config, ConfigTyped, FromSites
<1>7. CASE ReadPart \/ Ask \/ UNCHANGED vars
  BY <1>7 DEF ReadPart, Ask, config, vars, ConfigTyped, FromSites
<1> QED  BY <1>2, <1>4, <1>5, <1>6, <1>7 DEF Next

LEMMA PendingStep ==
  ASSUME Delegated, \A i \in 1 .. Len(pending) : pending[i].read >= 1, NEW uri, NEW marks,
         Delegates(marks, uri)
  PROVE  \A i \in 1 .. Len(pending') : pending'[i].read >= 1
<1>1. CASE marks
  <2> DEFINE e == [uri |-> uri, read |-> reads + 1]
  <2>1. e.read >= 1 /\ pending' = Append(pending, e)
    BY <1>1 DEF Delegates, Delegated
  <2> HIDE DEF e
  <2>2. /\ Len(pending) \in Nat /\ Len(pending') = Len(pending) + 1
        /\ \A i \in 1 .. Len(pending) : pending'[i] = pending[i]
        /\ pending'[Len(pending) + 1] = e
    BY <2>1, Appended, LengthIs DEF Delegated
  <2>3. \A i \in 1 .. Len(pending') : i \in 1 .. Len(pending) \/ i = Len(pending) + 1
    BY <2>2
  <2> QED  BY <2>1, <2>2, <2>3
<1>2. CASE ~marks
  BY <1>2 DEF Delegates
<1> QED  BY <1>1, <1>2

LEMMA AnswersStep == ASSUME Delegated, AnswersTyped, [Next]_vars PROVE AnswersTyped'
<1>1. CASE \E r \in (IF reads = 0 THEN Requests ELSE Later) : Serve(r)
  <2>1. PICK r : Serve(r)
    BY <1>1
  <2>2. reply'.kind \in {"gateway", "page", "error"}
    BY <2>1 DEF Serve, Answer
  <2>3. reads' <= MaxReads
    BY <2>1, ReadsAssumption DEF Serve, Delegated
  <2>4. \A i \in 1 .. Len(pending') : pending'[i].read >= 1
    BY <2>1, PendingStep DEF Serve, AnswersTyped
  <2> QED  BY <2>2, <2>3, <2>4 DEF AnswersTyped
<1>2. CASE ReadPart
  <2>1. \A i \in 1 .. Len(pending') : pending'[i].read >= 1
    BY <1>2, PendingStep DEF ReadPart, AnswersTyped
  <2>2. reads' <= MaxReads /\ reply' = reply
    BY <1>2, ReadsAssumption DEF ReadPart, Delegated
  <2> QED  BY <2>1, <2>2 DEF AnswersTyped
<1>3. CASE Ask
  <2>1. PICK S : pending \in Seq(S)
    BY DEF Delegated, IsSequence
  <2>2. pending # <<>> /\ pending' = Tail(pending) /\ UNCHANGED <<reply, reads>>
    BY <1>3 DEF Ask
  <2>3. /\ Len(pending') = Len(pending) - 1 /\ Len(pending) \in Nat
        /\ \A i \in 1 .. Len(pending') : pending'[i] = pending[i + 1]
    BY <2>1, <2>2
  <2>4. \A i \in 1 .. Len(pending') : i + 1 \in 1 .. Len(pending)
    BY <2>3
  <2> QED  BY <2>2, <2>3, <2>4 DEF AnswersTyped
<1>4. CASE SkipSite \/ AddSite \/ AddAnySite \/ UNCHANGED vars
  BY <1>4 DEF SkipSite, AddSite, AddAnySite, Loads, vars, AnswersTyped
<1> QED  BY <1>1, <1>2, <1>3, <1>4 DEF Next

LEMMA InitConfigTyped == Init => ConfigTyped
<1> SUFFICES ASSUME Init PROVE ConfigTyped
  OBVIOUS
<1>1. at = 1 /\ anyhost = FALSE
  BY DEF Init
<1>2. anyhost \in BOOLEAN
  BY <1>1, Zenon
<1>3. at <= Len(sites) + 1
  <2>1. Len(sites) \in Nat
    BY ConfigsAssumption DEF Init
  <2> QED  BY <1>1, <2>1
<1>4. \A i \in 1 .. Len(hosts) : FromSites(hosts[i])
  <2>1. Len(hosts) = 0
    BY EmptyIs DEF Init
  <2>2. 1 .. Len(hosts) = {}
    BY <2>1
  <2> QED  BY <2>2
<1> QED  BY <1>2, <1>3, <1>4 DEF ConfigTyped

\* The configuration that was read, the answers and the providers that wait keep
\* their types: every host is a site of the file, and the only one when it is <any>.
THEOREM RoutingTyped == Spec => []TypeOK
<1>1. Init => HostsRead /\ ConfigTyped /\ AnswersTyped
  <2> SUFFICES ASSUME Init PROVE HostsRead /\ ConfigTyped /\ AnswersTyped
    OBVIOUS
  <2>1. Len(hosts) = 0 /\ Len(pending) = 0 /\ HostsRead
    BY EmptyIs, InitHostsRead DEF Init
  <2>2. 1 .. Len(hosts) = {} /\ 1 .. Len(pending) = {}
    BY <2>1
  <2>3. ConfigTyped
    BY InitConfigTyped
  <2>4. AnswersTyped
    BY <2>2, ReadsAssumption DEF Init, AnswersTyped
  <2> QED  BY <2>1, <2>3, <2>4
<1>2. HostsRead /\ ConfigTyped /\ AnswersTyped /\ Delegated => TypeOK
  <2> SUFFICES ASSUME HostsRead, ConfigTyped, AnswersTyped, Delegated PROVE TypeOK
    OBVIOUS
  <2>1. DOMAIN hosts = 1 .. Len(hosts) /\ DOMAIN pending = 1 .. Len(pending)
    BY DEF HostsRead, Delegated, IsSequence
  <2>2. Len(sites) \in Nat
    BY ConfigsAssumption DEF HostsRead
  <2>3. sites \in Configs /\ at \in 1 .. Len(sites) + 1 /\ anyhost \in BOOLEAN
    BY <2>2 DEF HostsRead, ConfigTyped
  <2>4. \A i \in DOMAIN hosts : \E j \in DOMAIN sites : hosts[i] = Loaded(sites[j])
    BY <2>1 DEF ConfigTyped, FromSites
  <2>5. /\ mark \in BOOLEAN /\ reads \in 0 .. MaxReads
        /\ first \in 0 .. reads /\ reply.read \in 0 .. reads
    BY ReadsAssumption DEF Delegated, AnswersTyped
  <2>6. \A i \in DOMAIN pending : pending[i].read \in 1 .. reads
    BY <2>1 DEF Delegated, AnswersTyped
  <2> QED  BY <2>3, <2>4, <2>5, <2>6 DEF TypeOK, HostsRead, AnswersTyped
<1> QED
  BY <1>1, <1>2, DelegatedInit, HostsStep, ConfigStep, DelegatedStep, AnswersStep, PTL DEF Spec

-----------------------------------------------------------------------------
(* The configuration as it is meant.                                         *)

\* What RoutedAsConfigured says of an answer, for sites s.
AnyIn(s) == {i \in DOMAIN s : s[i].enable /\ s[i].host = AnyHost}
NamedIn(s, name) == {i \in DOMAIN s : s[i].enable /\ s[i].host = name}
MeantIn(s, name) == IF AnyIn(s) # {} THEN AnyIn(s) ELSE NamedIn(s, name)

Takers(site, uri) == {i \in DOMAIN site.fastcgi : Suffix(uri) \in site.fastcgi[i].extends}
AllDescend(s) == \A i \in DOMAIN s : \A j \in DOMAIN s[i].defaults : Descends(s[i].defaults[j])

RoutedAt(site, answer, uri) ==
  IF site.fastcgi = <<>> THEN answer.kind = "error" /\ answer.code = 404
  ELSE IF Takers(site, uri) # {}
  THEN answer.kind = "gateway" /\ answer.gateway = site.fastcgi[Min(Takers(site, uri))]
  ELSE IF ~answer.request.good THEN answer.kind = "error" /\ answer.code = answer.request.code
  ELSE IF uri \in site.forbidden
  THEN answer.kind = "error" /\ answer.code = 403
  ELSE IF Meant(site, uri) = NoNode
  THEN answer.kind = "error" /\ answer.code = 404
  ELSE /\ answer.kind = "page" /\ answer.file = Meant(site, uri)
       /\ Suffix(uri) # <<>> => TypeIsListed(answer.mime, Suffix(uri))

RoutedNamed(s, answer, uri, name) ==
  IF MeantIn(s, name) = {} THEN answer.kind = "error" /\ answer.code = 404
  ELSE /\ answer.site = Loaded(s[Min(MeantIn(s, name))])
       /\ RoutedAt(Loaded(s[Min(MeantIn(s, name))]), answer, uri)

RoutedIn(s, answer, uri, names) ==
  /\ answer.kind # Nothing /\ AllDescend(s)
  /\ Plain(uri) \/ (~answer.request.good /\ uri = <<>>)
  => \E name \in HostValues(names) : RoutedNamed(s, answer, uri, name)

LEMMA RoutedIs == RoutedAsConfigured <=> RoutedIn(sites, reply, request.uri, request.hosts)
<1>1. ASSUME NEW name
      PROVE  RoutedFor(name) <=> RoutedNamed(sites, reply, request.uri, name)
  BY Zenon DEF RoutedFor, RoutedNamed, RoutedAt, MeantIn, AnyIn, NamedIn, ConfiguredSites,
               AnySites, SitesOf, Enabled, Takers
<1>2. DefaultsDescend <=> AllDescend(sites)
  BY Zenon DEF DefaultsDescend, AllDescend
<1> QED  BY <1>1, <1>2, Zenon DEF RoutedAsConfigured, RoutedIn

\* The hosts kept so far answer to the names that the sites read so far have.
SitesBefore(name) == {i \in 1 .. at - 1 : sites[i].enable /\ sites[i].host = name}
HostsFor(name) == {i \in DOMAIN hosts : hosts[i].host = name}
HostsMeant ==
  /\ anyhost => AnyIn(sites) # {} /\ hosts[1] = Loaded(sites[Min(AnyIn(sites))])
  /\ ~anyhost =>
       /\ SitesBefore(AnyHost) = {}
       /\ \A name : /\ HostsFor(name) = {} <=> SitesBefore(name) = {}
                    /\ HostsFor(name) # {} =>
                         hosts[Min(HostsFor(name))] = Loaded(sites[Min(SitesBefore(name))])

LEMMA InitHostsMeant == Init => HostsMeant
<1> SUFFICES ASSUME Init PROVE HostsMeant
  OBVIOUS
<1>1. anyhost = FALSE /\ at = 1 /\ DOMAIN hosts = {}
  BY DEF Init
<1>2. \A name : SitesBefore(name) = {} /\ HostsFor(name) = {}
  BY <1>1 DEF SitesBefore, HostsFor
<1> QED  BY <1>1, <1>2 DEF HostsMeant

LEMMA AddSiteMeant ==
  ASSUME HostsRead, HostsMeant, AddSite
  PROVE  HostsMeant'
<1> DEFINE h == Loaded(sites[at])
           n == Len(hosts) + 1
<1>1. /\ at \in 1 .. Len(sites) /\ h.host = sites[at].host /\ h.host # AnyHost
      /\ sites[at].enable /\ hosts' = Append(hosts, h) /\ at' = at + 1
      /\ sites' = sites /\ anyhost' = anyhost /\ Loading
  BY LoadedSite DEF AddSite, Loads
<1>2. ~anyhost /\ ~anyhost' /\ at \in Nat /\ sites \in Seq(HostConfig) /\ hosts \in Seq(HostConfig)
  BY <1>1 DEF HostsRead
<1> HIDE DEF h
<1>3. /\ Len(hosts) \in Nat /\ DOMAIN hosts = 1 .. Len(hosts) /\ DOMAIN hosts' = 1 .. n
      /\ hosts'[n] = h /\ \A i \in 1 .. Len(hosts) : hosts'[i] = hosts[i]
  BY <1>1, <1>2, Appended DEF IsSequence
<1>4. \A name : HostsFor(name)' = HostsFor(name) \cup (IF h.host = name THEN {n} ELSE {})
  BY <1>3 DEF HostsFor
<1>5. \A name : SitesBefore(name)' = SitesBefore(name) \cup (IF h.host = name THEN {at} ELSE {})
  BY <1>1, <1>2 DEF SitesBefore
<1>6. SitesBefore(AnyHost)' = {}
  BY <1>1, <1>2, <1>5 DEF HostsMeant
<1>7. ASSUME NEW name
      PROVE  /\ HostsFor(name)' = {} <=> SitesBefore(name)' = {}
             /\ HostsFor(name)' # {} =>
                  hosts'[Min(HostsFor(name)')] = Loaded(sites'[Min(SitesBefore(name)')])
  <2>1. /\ HostsFor(name) = {} <=> SitesBefore(name) = {}
        /\ HostsFor(name) # {} =>
             hosts[Min(HostsFor(name))] = Loaded(sites[Min(SitesBefore(name))])
    BY <1>2 DEF HostsMeant
  <2>2. CASE h.host # name
    <3>1. HostsFor(name)' = HostsFor(name) /\ SitesBefore(name)' = SitesBefore(name)
      BY <1>4, <1>5, <2>2
    <3>2. HostsFor(name) # {} => Min(HostsFor(name)) \in 1 .. Len(hosts)
      <4>1. HostsFor(name) \subseteq 1 .. Len(hosts) /\ HostsFor(name) \subseteq Nat
        BY <1>3 DEF HostsFor
      <4> QED  BY <4>1, MinIs
    <3> QED  BY <1>1, <1>3, <2>1, <3>1, <3>2
  <2>3. CASE h.host = name /\ HostsFor(name) = {}
    <3>1. HostsFor(name)' = {n} /\ SitesBefore(name)' = {at}
      BY <1>4, <1>5, <2>1, <2>3
    <3>2. Min({n}) = n /\ Min({at}) = at
      <4>1. \A k \in Nat : Min({k}) = k
        <5> TAKE k \in Nat
        <5>1. {k} \subseteq Nat /\ k \in {k} /\ \A m \in {k} : k <= m
          OBVIOUS
        <5> QED  BY <5>1, MinUnique
      <4>2. n \in Nat /\ at \in Nat
        BY <1>2, <1>3
      <4> QED  BY <4>1, <4>2
    <3> QED  BY <1>1, <1>3, <3>1, <3>2 DEF h
  <2>4. CASE h.host = name /\ HostsFor(name) # {}
    <3> DEFINE H == HostsFor(name)
               B == SitesBefore(name)
    <3>1. HostsFor(name)' = H \cup {n} /\ SitesBefore(name)' = B \cup {at}
      BY <1>4, <1>5, <2>4
    <3>2. H # {} /\ B # {} /\ hosts[Min(H)] = Loaded(sites[Min(B)])
      BY <2>1, <2>4
    <3>3. H \subseteq 1 .. Len(hosts) /\ H \subseteq Nat /\ H \cup {n} \subseteq Nat
      BY <1>3 DEF HostsFor
    <3>4. B \subseteq 1 .. at - 1 /\ B \subseteq Nat /\ B \cup {at} \subseteq Nat
      BY <1>2 DEF SitesBefore
    <3> HIDE DEF H, B
    <3>5. Min(H) \in 1 .. Len(hosts) /\ Min(H) \in H \cup {n} /\ \A m \in H \cup {n} : Min(H) <= m
      <4>1. Min(H) \in H /\ \A m \in H : Min(H) <= m
        BY <3>2, <3>3, MinIs
      <4>2. Min(H) <= n
        BY <1>3, <3>3, <4>1
      <4> QED  BY <3>3, <4>1, <4>2
    <3>6. Min(B) \in B \cup {at} /\ \A m \in B \cup {at} : Min(B) <= m
      <4>1. Min(B) \in B /\ \A m \in B : Min(B) <= m
        BY <3>2, <3>4, MinIs
      <4>2. Min(B) \in 1 .. at - 1
        BY <3>4, <4>1
      <4>3. Min(B) <= at
        BY <1>2, <4>2
      <4> QED  BY <4>1, <4>3
    <3>7. Min(H \cup {n}) = Min(H)
      BY <3>3, <3>5, MinUnique
    <3>8. Min(B \cup {at}) = Min(B)
      BY <3>4, <3>6, MinUnique
    <3>9. hosts'[Min(H)] = hosts[Min(H)]
      BY <1>3, <3>5
    <3> QED  BY <1>1, <3>1, <3>2, <3>7, <3>8, <3>9
  <2> QED  BY <2>2, <2>3, <2>4
<1> QED  BY <1>2, <1>6, <1>7 DEF HostsMeant

LEMMA AddAnySiteMeant ==
  ASSUME HostsRead, HostsMeant, AddAnySite
  PROVE  HostsMeant'
<1>1. /\ at \in 1 .. Len(sites) /\ sites[at].enable /\ sites[at].host = AnyHost
      /\ hosts' = <<Loaded(sites[at])>> /\ sites' = sites /\ anyhost' = TRUE /\ Loading
  BY LoadedSite DEF AddAnySite, Loads
<1>2. ~anyhost /\ at \in Nat /\ sites \in Seq(HostConfig)
  BY <1>1 DEF HostsRead
<1>3. SitesBefore(AnyHost) = {}
  BY <1>2 DEF HostsMeant
<1>4. at \in AnyIn(sites) /\ AnyIn(sites) \subseteq Nat
  BY <1>1, <1>2 DEF AnyIn
<1>5. ASSUME NEW m \in AnyIn(sites) PROVE at <= m
  <2>1. m \in 1 .. Len(sites) /\ sites[m].enable /\ sites[m].host = AnyHost
    BY <1>2 DEF AnyIn
  <2>2. m \notin 1 .. at - 1
    BY <1>3, <2>1 DEF SitesBefore
  <2> QED  BY <1>2, <2>1, <2>2
<1>6. Min(AnyIn(sites)) = at
  BY <1>4, <1>5, MinUnique
<1>7. AnyIn(sites)' = AnyIn(sites)
  BY <1>1 DEF AnyIn
<1>8. hosts'[1] = Loaded(sites[at])
  BY <1>1
<1> QED  BY <1>1, <1>4, <1>6, <1>7, <1>8 DEF HostsMeant

LEMMA MeantStep == ASSUME HostsRead, HostsMeant, [Next]_vars PROVE HostsMeant'
<1>1. CASE SkipSite
  <2>1. /\ Loading /\ ~sites[at].enable /\ at' = at + 1
        /\ UNCHANGED <<sites, hosts, anyhost>>
    BY <1>1 DEF SkipSite, Loads
  <2>2. ~anyhost /\ at \in Nat /\ at >= 1
    BY <2>1 DEF HostsRead
  <2>3. \A name : SitesBefore(name)' = SitesBefore(name)
    BY <2>1, <2>2 DEF SitesBefore
  <2>4. \A name : HostsFor(name)' = HostsFor(name)
    BY <2>1 DEF HostsFor
  <2>5. ~anyhost'
    BY <2>1, <2>2
  <2>6. /\ SitesBefore(AnyHost) = {}
        /\ \A name : /\ HostsFor(name) = {} <=> SitesBefore(name) = {}
                     /\ HostsFor(name) # {} =>
                          hosts[Min(HostsFor(name))] = Loaded(sites[Min(SitesBefore(name))])
    BY <2>2 DEF HostsMeant
  <2>7. /\ SitesBefore(AnyHost)' = {}
        /\ \A name : /\ HostsFor(name)' = {} <=> SitesBefore(name)' = {}
                     /\ HostsFor(name)' # {} =>
                          hosts'[Min(HostsFor(name)')] = Loaded(sites'[Min(SitesBefore(name)')])
    BY <2>1, <2>3, <2>4, <2>6
  <2> QED  BY <2>5, <2>7 DEF HostsMeant
<1>2. CASE (\E r \in (IF reads = 0 THEN Requests ELSE Later) : Serve(r)) \/ ReadPart \/ Ask
           \/ UNCHANGED vars
  <2>1. UNCHANGED config
    BY <1>2 DEF Serve, ReadPart, Ask, vars, config
  <2>2. sites' = sites /\ at' = at /\ hosts' = hosts /\ anyhost' = anyhost
    BY <2>1 DEF config
  <2>3. \A x : HostsFor(x)' = HostsFor(x)
    BY <2>2 DEF HostsFor
  <2>4. \A x : SitesBefore(x)' = SitesBefore(x)
    BY <2>2 DEF SitesBefore
  <2>5. AnyIn(sites)' = AnyIn(sites)
    BY <2>2 DEF AnyIn
  <2>6. anyhost => AnyIn(sites)' # {} /\ hosts'[1] = Loaded(sites'[Min(AnyIn(sites)')])
    BY <2>2, <2>5 DEF HostsMeant
  <2>7. ~anyhost =>
          /\ SitesBefore(AnyHost)' = {}
          /\ \A name : /\ HostsFor(name)' = {} <=> SitesBefore(name)' = {}
                       /\ HostsFor(name)' # {} =>
                            hosts'[Min(HostsFor(name)')] = Loaded(sites'[Min(SitesBefore(name)')])
    BY <2>2, <2>3, <2>4 DEF HostsMeant
  <2> QED  BY <2>2, <2>6, <2>7 DEF HostsMeant
<1> QED  BY <1>1, <1>2, AddSiteMeant, AddAnySiteMeant DEF Next

\* A name is answered by the site that the configuration has for it.
LEMMA HostIsMeant ==
  ASSUME HostsRead, HostsMeant, at = Len(sites) + 1, NEW name
  PROVE  AdaptHost(name) = IF MeantIn(sites, name) = {} THEN [kind |-> Nothing]
                           ELSE Loaded(sites[Min(MeantIn(sites, name))])
<1>1. CASE anyhost
  BY <1>1 DEF HostsMeant, MeantIn, AdaptHost
<1>2. CASE ~anyhost
  <2>1. sites \in Seq(HostConfig) /\ DOMAIN sites = 1 .. at - 1
    BY DEF HostsRead
  <2>2. \A x : SitesBefore(x) = NamedIn(sites, x)
    BY <2>1 DEF SitesBefore, NamedIn
  <2>3. AnyIn(sites) = {}
    BY <1>2, <2>2 DEF HostsMeant, AnyIn, NamedIn
  <2>4. MeantIn(sites, name) = SitesBefore(name)
    BY <2>2, <2>3 DEF MeantIn
  <2>5. /\ HostsFor(name) = {} <=> SitesBefore(name) = {}
        /\ HostsFor(name) # {} =>
             hosts[Min(HostsFor(name))] = Loaded(sites[Min(SitesBefore(name))])
    BY <1>2 DEF HostsMeant
  <2>6. AdaptHost(name) = IF HostsFor(name) = {} THEN [kind |-> Nothing]
                          ELSE hosts[Min(HostsFor(name))]
    BY <1>2 DEF AdaptHost, FirstOf, HostsFor
  <2> QED  BY <2>4, <2>5, <2>6
<1> QED  BY <1>1, <1>2

LEMMA ElementOf == ASSUME NEW S, NEW s \in Seq(S), NEW i \in DOMAIN s PROVE s[i] \in S
OBVIOUS

LEMMA DomainOf == ASSUME NEW S, NEW s \in Seq(S) PROVE DOMAIN s = 1 .. Len(s)
OBVIOUS

\* The search for the extension finds the suffix of a plain uri.
LEMMA FileExtendsIsSuffix ==
  ASSUME NEW uri \in Path, Plain(uri)
  PROVE  FileExtends(uri) = Suffix(uri)
<1> DEFINE dots == {p \in 2 .. Len(uri) : uri[p] = "."}
           n == Len(uri)
<1>1. n \in Nat /\ DOMAIN uri = 1 .. n /\ uri[1] # "."
  BY DEF Path, Plain
<1>2. \A p \in 1 .. n : uri[p] = "." => p \in dots
  BY <1>1
<1>3. \A p \in 1 .. n : uri[p] \in STRING
  BY DEF Path
<1>4. CASE dots = {}
  <2>1. "." \notin Range(uri)
    BY <1>1, <1>2, <1>4 DEF Range
  <2> QED  BY <1>4, <2>1 DEF FileExtends, Suffix
<1>5. CASE dots # {}
  <2> DEFINE m == Max(dots)
             t == SubSeq(uri, m, n)
             Tails == {SubSeq(uri, p, n) : p \in DOMAIN uri}
             Dotted(s) == s[1] = "." /\ "." \notin Range(Tail(s))
  <2>1. dots \subseteq 1 .. n
    BY <1>1
  <2>2. m \in dots /\ \A p \in dots : p <= m
    BY <1>1, <1>5, <2>1, MaxIs
  <2> HIDE DEF m
  <2>3. m \in 2 .. n /\ uri[m] = "."
    BY <2>2
  <2>4. \A p \in m .. n : IsFilename(uri[p])
    <3> SUFFICES ASSUME NEW p \in m .. n PROVE IsFilename(uri[p])
      OBVIOUS
    <3>1. p \in DOMAIN uri /\ m \in DOMAIN uri
      BY <1>1, <2>3
    <3>2. CASE p = m
      BY <2>3, <3>2 DEF IsFilename
    <3>3. CASE p # m
      <4>1. p > m
        BY <1>1, <2>3, <3>3
      <4>2. uri[p] # "/"
        BY <2>3, <3>1, <4>1 DEF Plain
      <4> QED  BY <3>1, <4>2 DEF Plain
    <3> QED  BY <3>2, <3>3
  <2>5. FileExtends(uri) = t
    <3>1. {p \in Max(dots) .. n : ~IsFilename(uri[p])} = {}
      BY <2>4 DEF m
    <3> QED  BY <1>5, <3>1 DEF FileExtends, m
  <2> DEFINE Ends(p) == SubSeq(uri, p, n)
  <2>6. ASSUME NEW p \in 1 .. n
        PROVE  /\ Ends(p)[1] = uri[p] /\ Tail(Ends(p)) \in Seq(STRING) /\ Len(Tail(Ends(p))) = n - p
               /\ \A i \in 1 .. n - p : Tail(Ends(p))[i] = uri[p + i]
    <3> DEFINE s == Ends(p)
    <3>1. /\ s \in Seq(STRING) /\ Len(s) = n - p + 1
          /\ \A i \in 1 .. n - p + 1 : s[i] = uri[p + i - 1]
      <4>1. p \in Int /\ n \in Int /\ \A i \in p .. n : uri[i] \in STRING
        BY <1>1, <1>3
      <4>2. /\ SubSeq(uri, p, n) \in Seq(STRING)
            /\ Len(SubSeq(uri, p, n)) = IF p <= n THEN n - p + 1 ELSE 0
            /\ \A i \in 1 .. n - p + 1 : SubSeq(uri, p, n)[i] = uri[p + i - 1]
        BY <4>1, SubSeqProperties
      <4> QED  BY <1>1, <4>2
    <3> HIDE DEF s
    <3>2. s # <<>> /\ 1 \in 1 .. n - p + 1
      BY <1>1, <3>1
    <3>3. /\ Tail(s) \in Seq(STRING) /\ Len(Tail(s)) = Len(s) - 1
          /\ \A i \in 1 .. Len(Tail(s)) : Tail(s)[i] = s[i + 1]
      BY <3>1, <3>2, HeadTailProperties
    <3>4. s[1] = uri[p]
      BY <1>1, <3>1, <3>2
    <3>5. ASSUME NEW i \in 1 .. n - p PROVE Tail(s)[i] = uri[p + i]
      <4>1. i \in 1 .. Len(Tail(s)) /\ i + 1 \in 1 .. n - p + 1 /\ p + (i + 1) - 1 = p + i
        BY <1>1, <3>1, <3>3
      <4> QED  BY <3>1, <3>3, <4>1
    <3>6. Len(Tail(s)) = n - p
      BY <1>1, <3>1, <3>3
    <3> QED  BY <3>3, <3>4, <3>5, <3>6 DEF s
  <2> HIDE DEF Ends
  <2>7. t = Ends(m) /\ m \in 1 .. n /\ Tails = {Ends(p) : p \in 1 .. n}
    BY <1>1, <2>3 DEF Ends
  <2>8. Dotted(t)
    <3>1. ASSUME "." \in Range(Tail(t)) PROVE FALSE
      <4>1. PICK i \in 1 .. n - m : Tail(t)[i] = "."
        BY <2>6, <2>7, <3>1 DEF Range
      <4>2. uri[m + i] = "." /\ m + i \in 1 .. n /\ m + i > m
        <5>1. m + i \in 1 .. n /\ m + i > m
          BY <1>1, <2>3, <4>1
        <5>2. Tail(Ends(m))[i] = uri[m + i]
          BY <2>6, <2>7, <4>1
        <5> QED  BY <2>7, <4>1, <5>1, <5>2
      <4>3. m + i \in dots /\ m + i <= m
        BY <1>2, <2>2, <4>2
      <4> QED  BY <1>1, <2>3, <4>1, <4>2, <4>3
    <3> QED  BY <2>3, <2>6, <2>7, <3>1
  <2>9. ASSUME NEW s \in Tails, Dotted(s) PROVE s = t
    <3>1. PICK p \in 1 .. n : s = Ends(p)
      BY <2>7
    <3>2. uri[p] = "." /\ "." \notin Range(Tail(Ends(p)))
      BY <2>6, <2>9, <3>1
    <3>3. p \in dots /\ p <= m
      BY <1>2, <2>2, <3>2
    <3>4. ASSUME p < m PROVE FALSE
      <4>1. m - p \in 1 .. n - p /\ p + (m - p) = m
        BY <1>1, <2>3, <3>4
      <4>2. Tail(Ends(p))[m - p] = "."
        BY <2>3, <2>6, <4>1
      <4>3. DOMAIN Tail(Ends(p)) = 1 .. n - p
        <5>1. Tail(Ends(p)) \in Seq(STRING) /\ Len(Tail(Ends(p))) = n - p
          BY <2>6
        <5> QED  BY <5>1, DomainOf
      <4> QED  BY <3>2, <4>1, <4>2, <4>3 DEF Range
    <3>5. p = m
      BY <2>3, <3>3, <3>4
    <3> QED  BY <2>7, <3>1, <3>5
  <2>10. "." \in Range(uri)
    BY <1>1, <2>3 DEF Range
  <2> HIDE DEF t, Dotted
  <2>11. t \in Tails
    BY <2>7
  <2>12. (CHOOSE s \in Tails : Dotted(s)) = t
    BY <2>8, <2>9, <2>11
  <2> QED  BY <2>5, <2>10, <2>12 DEF Suffix, Dotted
<1> QED  BY <1>4, <1>5

LEMMA NoUriNoSuffix == FileExtends(<<>>) = <<>> /\ Suffix(<<>>) = <<>>
<1>1. {p \in 2 .. Len(<<>>) : <<>>[p] = "."} = {}
  OBVIOUS
<1>2. "." \notin Range(<<>>)
  BY DEF Range
<1> QED  BY <1>1, <1>2 DEF FileExtends, Suffix

\* The type of a page is the one the table lists for the suffix.
LEMMA MimeIsMeant ==
  ASSUME NEW uri \in Path, Plain(uri), Suffix(uri) # <<>>
  PROVE  TypeIsListed(AdaptMIME(uri), Suffix(uri))
<1> DEFINE ext == Suffix(uri)
           found == {i \in DOMAIN MimeTable : IsPrefixOf(ext, MimeTable[i].ext)}
<1>1. FileExtends(uri) = ext
  BY FileExtendsIsSuffix
<1>2. MimeTable \in Seq([ext : Seq(STRING), mime : STRING])
  BY MimeAssumption
<1> SUFFICES ASSUME NEW i \in DOMAIN MimeTable, MimeTable[i].ext = ext,
                    \A j \in 1 .. i - 1 : ~IsPrefixOf(ext, MimeTable[j].ext)
             PROVE  AdaptMIME(uri) = MimeTable[i].mime
  BY DEF TypeIsListed
<1>3. DOMAIN MimeTable = 1 .. Len(MimeTable) /\ Len(MimeTable) \in Nat
  BY <1>2
<1>4. ext \in Seq(STRING)
  <2> HIDE DEF ext
  <2>1. MimeTable[i] \in [ext : Seq(STRING), mime : STRING]
    BY <1>2, ElementOf
  <2> QED  BY <2>1
<1>5. i \in found
  <2> HIDE DEF ext
  <2>1. SubSeq(ext, 1, Len(ext)) = ext /\ Len(ext) <= Len(ext)
    BY <1>4, SubSeqFull
  <2> QED  BY <2>1 DEF IsPrefixOf
<1>6. ASSUME NEW m \in found PROVE i <= m
  <2>1. m \in Nat /\ m >= 1 /\ i \in Nat /\ m \notin 1 .. i - 1
    BY <1>3
  <2> QED  BY <2>1
<1>7. found \subseteq Nat
  BY <1>3
<1>8. AdaptMIME(uri) = MimeTable[Min(found)].mime
  BY <1>1, <1>5 DEF AdaptMIME
<1> HIDE DEF found
<1>9. Min(found) = i
  BY <1>5, <1>6, <1>7, MinUnique
<1> QED  BY <1>8, <1>9

\* The file of a plain uri is the one it means.
LEMMA FileIsMeant ==
  ASSUME NEW site \in HostConfig, NEW uri \in Path, Plain(uri),
         \A i \in DOMAIN site.defaults : Descends(site.defaults[i])
  PROVE  StaticFile(site, GetUri(uri)) = Meant(site, uri)
<1> DEFINE path == Tail(uri)
           node == Named(site.root, path)
           Defaults == {i \in DOMAIN site.defaults : IsThere(node, site.defaults[i])}
<1>1. site.root \in Directories /\ site.defaults \in Seq(Path)
  BY DEF HostConfig
<1>2. uri # <<>> /\ uri[1] = "/" /\ (Len(uri) > 1 => Descends(path))
  BY DEF Plain
<1>3. path \in Path /\ Len(uri) \in Nat /\ Len(path) = Len(uri) - 1 /\ Len(uri) >= 1
  BY <1>2 DEF Path
<1>4. Resolve(site.root, GetUri(uri)) = IF IsThere(site.root, path) THEN node ELSE NoNode
  <2>1. CASE Len(uri) = 1
    <3>1. Resolve(site.root, GetUri(uri)) = site.root
      BY <1>1, <2>1, ResolveDot DEF GetUri
    <3>2. path = <<>>
      <4> HIDE DEF path
      <4>1. path \in Seq(STRING) /\ Len(path) = 0
        BY <1>3, <2>1 DEF Path
      <4> QED  BY ONLY <4>1
    <3>3. site.root \in Seq(Path \ {<<>>}) /\ site.root \in Tree
      BY <1>1, Above DEF Tree
    <3>4. node = site.root
      <4> HIDE DEF path
      <4> QED  BY <3>2, <3>3, NoNames DEF Named
    <3> HIDE DEF node
    <3>5. IsThere(site.root, path)
      BY <3>2, <3>3, <3>4 DEF IsThere, node
    <3> QED  BY <3>1, <3>4, <3>5
  <2>2. CASE Len(uri) # 1
    <3>1. Descends(path) /\ GetUri(uri) = path
      BY <1>2, <1>3, <2>2 DEF GetUri
    <3> QED  BY <1>1, <1>3, <3>1, ResolveDown
  <2> QED  BY <2>1, <2>2
<1> HIDE DEF node, path
<1>5. NoNode \notin Directories /\ NoNode \notin Tree /\ Directories \subseteq Tree
  BY NoNodeOpens DEF NoNodeIsNone, Tree
<1>6. Meant(site, uri) =
        IF ~IsThere(site.root, path) THEN NoNode
        ELSE IF node \notin Directories THEN node
        ELSE IF Defaults = {} THEN NoNode ELSE Named(node, site.defaults[Min(Defaults)])
  BY Zenon DEF Meant, node, path
<1>7. CASE ~IsThere(site.root, path)
  BY <1>4, <1>5, <1>6, <1>7 DEF StaticFile
<1>8. CASE IsThere(site.root, path) /\ node \notin Directories
  BY <1>4, <1>6, <1>8 DEF StaticFile
<1>9. CASE IsThere(site.root, path) /\ node \in Directories
  <2>1. StaticFile(site, GetUri(uri)) = DefaultFile(site, node)
    BY <1>4, <1>9 DEF StaticFile
  <2>2. ASSUME NEW i \in DOMAIN site.defaults
        PROVE  /\ IsThere(node, site.defaults[i]) <=> Resolve(node, site.defaults[i]) # NoNode
               /\ IsThere(node, site.defaults[i])
                    => Resolve(node, site.defaults[i]) = Named(node, site.defaults[i])
    <3>1. site.defaults[i] \in Path /\ Descends(site.defaults[i])
      BY <1>1, ElementOf
    <3>2. Resolve(node, site.defaults[i]) =
            IF IsThere(node, site.defaults[i]) THEN Named(node, site.defaults[i]) ELSE NoNode
      BY <1>9, <3>1, ResolveDown
    <3>3. IsThere(node, site.defaults[i]) => Named(node, site.defaults[i]) \in Tree
      BY <1>5 DEF IsThere
    <3> QED  BY <1>5, <3>2, <3>3
  <2>3. Defaults = DefaultsThatOpen(site, node)
    BY <2>2 DEF DefaultsThatOpen
  <2>4. CASE Defaults = {}
    BY <1>6, <1>9, <2>1, <2>3, <2>4 DEF DefaultFile
  <2>5. CASE Defaults # {}
    <3>1. DOMAIN site.defaults = 1 .. Len(site.defaults)
      BY <1>1
    <3>2. Defaults \subseteq Nat
      BY <3>1
    <3>3. Min(Defaults) \in Defaults
      BY <2>5, <3>2, MinIs
    <3>4. Resolve(node, site.defaults[Min(Defaults)]) = Named(node, site.defaults[Min(Defaults)])
      BY <2>2, <3>3
    <3>5. DefaultFile(site, node) = Resolve(node, site.defaults[Min(Defaults)])
      BY <2>3, <2>5 DEF DefaultFile
    <3> HIDE DEF Defaults
    <3> QED  BY <1>6, <1>9, <2>1, <2>5, <3>4, <3>5
  <2> QED  BY <2>4, <2>5
<1> QED  BY <1>7, <1>8, <1>9

\* A site answers as it is configured.
LEMMA AnswerAtSite ==
  ASSUME HostsRead, NEW r, ~r.good => r.code # 200, NEW name, NEW uri \in Path,
         r.good => uri = r.uri,
         Plain(uri) \/ (~r.good /\ uri = <<>>),
         NEW site \in HostConfig, AdaptHost(name) = site,
         \A i \in DOMAIN site.defaults : Descends(site.defaults[i])
  PROVE  Answer(r, uri, name).site = site /\ RoutedAt(site, Answer(r, uri, name), uri)
<1> DEFINE answer == Answer(r, uri, name)
           gateway == Gateway(site, uri)
           file == StaticFile(site, GetUri(uri))
           code == CodeOf(r, site, uri, file)
<1>1. site.kind = "site" /\ site.fastcgi \in Seq(FcgiConfig) /\ Nothing = "nothing"
  BY DEF HostConfig, Nothing
<1>2. /\ answer.request = r /\ answer.site = site /\ answer.gateway = gateway
      /\ answer.code = code /\ answer.file = file /\ answer.mime = AdaptMIME(uri)
      /\ answer.kind = IF gateway.kind # Nothing THEN "gateway"
                       ELSE IF code = 200 THEN "page" ELSE "error"
  BY <1>1 DEF Answer
<1>3. FileExtends(uri) = Suffix(uri)
  BY FileExtendsIsSuffix, NoUriNoSuffix
<1> HIDE DEF answer, gateway, file, code
<1>4. CASE site.fastcgi = <<>>
  <2>1. gateway.kind = Nothing /\ code = 404
    BY <1>4 DEF gateway, code, Gateway, CodeOf, HasGateway
  <2>2. answer.kind = "error" /\ answer.code = 404
    BY <1>2, <2>1
  <2> QED  BY <1>2, <1>4, <2>2 DEF RoutedAt, answer
<1>5. CASE site.fastcgi # <<>>
  <2>1. HasGateway(site)
    BY <1>1, <1>5 DEF HasGateway
  <2>2. gateway = IF Takers(site, uri) = {} THEN [kind |-> Nothing]
                  ELSE site.fastcgi[Min(Takers(site, uri))]
    BY <1>3, <2>1 DEF gateway, Gateway, AdaptFcgi, FirstOf, Takers
  <2>3. CASE Takers(site, uri) # {}
    <3>1. DOMAIN site.fastcgi = 1 .. Len(site.fastcgi) /\ Len(site.fastcgi) \in Nat
      BY <1>1
    <3>2. Takers(site, uri) \subseteq 1 .. Len(site.fastcgi) /\ Takers(site, uri) \subseteq Nat
      BY <3>1 DEF Takers
    <3>3. Min(Takers(site, uri)) \in 1 .. Len(site.fastcgi)
      BY <2>3, <3>2, MinIs
    <3>4. site.fastcgi[Min(Takers(site, uri))] \in FcgiConfig
      BY <1>1, <3>3
    <3>5. gateway.kind # Nothing
      BY <1>1, <2>2, <2>3, <3>4 DEF FcgiConfig
    <3>6. answer.kind = "gateway" /\ answer.gateway = site.fastcgi[Min(Takers(site, uri))]
      BY <1>2, <2>2, <2>3, <3>5
    <3> QED  BY <1>2, <1>5, <2>3, <3>6 DEF RoutedAt, answer
  <2>4. CASE Takers(site, uri) = {}
    <3>1. gateway.kind = Nothing
      BY <2>2, <2>4
    <3>2. answer.kind = IF code = 200 THEN "page" ELSE "error"
      BY <1>2, <3>1
    <3>3. code = IF ~r.good THEN r.code
                 ELSE IF uri \in site.forbidden THEN 403
                 ELSE IF file = NoNode THEN 404 ELSE 200
      BY <2>1 DEF code, CodeOf, IsForbidden
    <3>4. CASE ~r.good
      <4>1. answer.kind = "error" /\ answer.code = r.code
        BY <1>2, <3>2, <3>3, <3>4
      <4> QED  BY <1>2, <1>5, <2>4, <3>4, <4>1 DEF RoutedAt, answer
    <3>5. CASE r.good /\ uri \in site.forbidden
      <4>1. answer.kind = "error" /\ answer.code = 403
        BY <1>2, <3>2, <3>3, <3>5
      <4> QED  BY <1>2, <1>5, <2>4, <3>5, <4>1 DEF RoutedAt, answer
    <3>6. CASE r.good /\ uri \notin site.forbidden
      <4>1. Plain(uri)
        BY <3>6
      <4>2. file = Meant(site, uri)
        BY <4>1, FileIsMeant DEF file
      <4>3. Suffix(uri) # <<>> => TypeIsListed(answer.mime, Suffix(uri))
        BY <1>2, <4>1, MimeIsMeant
      <4>4. CASE file = NoNode
        <5>1. answer.kind = "error" /\ answer.code = 404
          BY <1>2, <3>2, <3>3, <3>6, <4>4
        <5> QED  BY <1>2, <1>5, <2>4, <3>6, <4>2, <4>4, <5>1 DEF RoutedAt, answer
      <4>5. CASE file # NoNode
        <5>1. answer.kind = "page" /\ answer.file = file
          BY <1>2, <3>2, <3>3, <3>6, <4>5
        <5> QED  BY <1>2, <1>5, <2>4, <3>6, <4>2, <4>3, <4>5, <5>1 DEF RoutedAt, answer
      <4> QED  BY <4>4, <4>5
    <3> QED  BY <3>4, <3>5, <3>6
  <2> QED  BY <2>3, <2>4
<1> QED  BY <1>4, <1>5

LEMMA AnswerRouted ==
  ASSUME HostsRead, HostsMeant, ~Loading, at <= Len(sites) + 1,
         NEW r, ~r.good => r.code # 200, NEW name, NEW uri \in Path, r.good => uri = r.uri,
         Plain(uri) \/ (~r.good /\ uri = <<>>), AllDescend(sites)
  PROVE  RoutedNamed(sites, Answer(r, uri, name), uri, name)
<1>1. at = Len(sites) + 1 /\ sites \in Seq(HostConfig)
  BY DEF HostsRead, Loading
<1>2. AdaptHost(name) = IF MeantIn(sites, name) = {} THEN [kind |-> Nothing]
                        ELSE Loaded(sites[Min(MeantIn(sites, name))])
  BY <1>1, HostIsMeant
<1>3. CASE MeantIn(sites, name) = {}
  <2>1. AdaptHost(name).kind = Nothing
    BY <1>2, <1>3
  <2>2. ~HasGateway(AdaptHost(name))
    BY <2>1 DEF HasGateway
  <2>3. Answer(r, uri, name).kind = "error" /\ Answer(r, uri, name).code = 404
    BY <2>1, <2>2 DEF Answer, Gateway, CodeOf
  <2> QED  BY <1>3, <2>3 DEF RoutedNamed
<1>4. CASE MeantIn(sites, name) # {}
  <2> DEFINE m == Min(MeantIn(sites, name))
  <2>1. MeantIn(sites, name) \subseteq DOMAIN sites
    BY DEF MeantIn, AnyIn, NamedIn
  <2>2. MeantIn(sites, name) \subseteq Nat
    BY <1>1, <2>1
  <2>3. m \in DOMAIN sites
    BY <1>4, <2>1, <2>2, MinIs
  <2>4. sites[m] \in HostConfig
    BY <1>1, <2>3
  <2>5. Loaded(sites[m]) \in HostConfig
    BY <2>4, LoadedTyped
  <2>6. \A i \in DOMAIN Loaded(sites[m]).defaults : Descends(Loaded(sites[m]).defaults[i])
    <3>1. Loaded(sites[m]).defaults = sites[m].defaults
      BY <2>4 DEF Loaded, HostConfig
    <3> QED  BY <2>3, <3>1 DEF AllDescend
  <2> HIDE DEF m
  <2>7. AdaptHost(name) = Loaded(sites[m])
    BY <1>2, <1>4 DEF m
  <2> DEFINE site == Loaded(sites[m])
  <2> HIDE DEF site
  <2>8. /\ site \in HostConfig /\ AdaptHost(name) = site
        /\ \A i \in DOMAIN site.defaults : Descends(site.defaults[i])
    BY <2>5, <2>6, <2>7 DEF site
  <2>9. Answer(r, uri, name).site = site /\ RoutedAt(site, Answer(r, uri, name), uri)
    BY <2>8, AnswerAtSite
  <2> QED  BY <1>4, <2>9 DEF RoutedNamed, site, m
<1> QED  BY <1>3, <1>4

LEMMA RoutedStep ==
  ASSUME HostsRead, ConfigTyped, HostsMeant, request.uri \in Path, [Next]_vars,
         RoutedIn(sites, reply, request.uri, request.hosts)
  PROVE  RoutedIn(sites', reply', request'.uri, request'.hosts) /\ request'.uri \in Path
<1>1. CASE \E r \in (IF reads = 0 THEN Requests ELSE Later) : Serve(r)
  <2>1. PICK r \in Requests \cup Later : Serve(r)
    BY <1>1
  <2>2. PICK name \in HostValues(request'.hosts) : reply' = Answer(r, NewUri(r), name)
    BY <2>1 DEF Serve
  <2>3. /\ r.uri \in Path /\ (~r.good => r.code # 200)
        /\ NewUri(r) \in Path /\ (r.good => NewUri(r) = r.uri)
    BY RequestsAssumption DEF NewUri
  <2>4. ~Loading /\ at <= Len(sites) + 1 /\ sites' = sites /\ request'.uri = NewUri(r)
    BY <2>1 DEF Serve, config, ConfigTyped
  <2> DEFINE answer == Answer(r, NewUri(r), name)
  <2>5. answer.request = r
    BY DEF Answer
  <2>6. ASSUME AllDescend(sites), Plain(NewUri(r)) \/ (~answer.request.good /\ NewUri(r) = <<>>)
        PROVE  RoutedNamed(sites, answer, NewUri(r), name)
    BY <2>3, <2>4, <2>5, <2>6, AnswerRouted
  <2> HIDE DEF answer
  <2>7. RoutedIn(sites, answer, NewUri(r), request'.hosts)
    BY <2>2, <2>6 DEF RoutedIn
  <2>8. reply' = answer
    BY <2>2 DEF answer
  <2> QED  BY <2>3, <2>4, <2>7, <2>8
<1>2. CASE SkipSite \/ AddSite \/ AddAnySite \/ ReadPart \/ Ask \/ UNCHANGED vars
  <2>1. sites' = sites /\ reply' = reply /\ request' = request
    BY <1>2 DEF SkipSite, AddSite, AddAnySite, Loads, ReadPart, Ask, config, vars
  <2> QED  BY <2>1
<1> QED  BY <1>1, <1>2 DEF Next

\* For every configuration, tree of files, table of types and sequence of
\* requests: the answer to a request with a plain uri is the one that the
\* configuration asks for, for a host that was received on the connection.
THEOREM AnsweredAsConfigured == Spec => []RoutedAsConfigured
<1> DEFINE Routes == request.uri \in Path /\ RoutedIn(sites, reply, request.uri, request.hosts)
<1>1. Init => HostsRead /\ ConfigTyped /\ HostsMeant /\ Routes
  <2>1. Init => Routes
    BY DEF Init, RoutedIn, Path
  <2> QED  BY <2>1, InitHostsRead, InitHostsMeant, InitConfigTyped
<1>2. HostsRead /\ ConfigTyped /\ HostsMeant /\ Routes /\ [Next]_vars => Routes'
  BY RoutedStep
<1>3. Routes => RoutedAsConfigured
  BY RoutedIs
<1> HIDE DEF Routes
<1> QED  BY <1>1, <1>2, <1>3, HostsStep, ConfigStep, MeantStep, PTL DEF Spec

=============================================================================
