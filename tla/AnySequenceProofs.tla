-------------------------- MODULE AnySequenceProofs --------------------------
(***************************************************************************)
(* What the other proofs know about sequences and numbers: what Append,    *)
(* SubSeq and EXCEPT do to a sequence of values of which nothing is known; *)
(* induction over a set of numbers, which needs no operator as a parameter *)
(* and so can be cited; and the recursive functions it justifies.          *)
(***************************************************************************)
EXTENDS Integers, Sequences, SequencesExt, Streams, SequenceTheorems, WellFoundedInduction, TLAPS

IsSequence(s) == \E S : s \in Seq(S)

LEMMA EmptyIs == IsSequence(<<>>) /\ Len(<<>>) = 0
BY DEF IsSequence

LEMMA LengthIs == ASSUME NEW s, IsSequence(s) PROVE Len(s) \in Nat
BY DEF IsSequence

LEMMA NoneLeft == ASSUME NEW s, IsSequence(s), Len(s) = 0 PROVE s = <<>>
BY DEF IsSequence

LEMMA OneLess == ASSUME NEW n \in Nat, n >= 1, n # 1 PROVE n - 1 \in 1 .. n
OBVIOUS

LEMMA Appended ==
  ASSUME NEW s, IsSequence(s), NEW e
  PROVE  /\ IsSequence(Append(s, e))
         /\ Len(Append(s, e)) = Len(s) + 1
         /\ \A i \in 1 .. Len(s) : Append(s, e)[i] = s[i]
         /\ Append(s, e)[Len(s) + 1] = e
<1>1. PICK S : s \in Seq(S)
  BY DEF IsSequence
<1>2. s \in Seq(S \cup {e})
  BY <1>1
<1>3. Append(s, e) \in Seq(S \cup {e})
  BY <1>2
<1> QED  BY <1>2, <1>3 DEF IsSequence

LEMMA Shortened ==
  ASSUME NEW s, IsSequence(s), NEW n \in 0 .. Len(s)
  PROVE  /\ IsSequence(SubSeq(s, 1, n))
         /\ Len(SubSeq(s, 1, n)) = n
         /\ \A i \in 1 .. n : SubSeq(s, 1, n)[i] = s[i]
<1>1. PICK S : s \in Seq(S)
  BY DEF IsSequence
<1>2. SubSeq(s, 1, n) \in Seq(S)
  BY <1>1
<1> QED  BY <1>1, <1>2 DEF IsSequence

LEMMA LastReplaced ==
  ASSUME NEW s, IsSequence(s), Len(s) >= 1, NEW e
  PROVE  /\ IsSequence([s EXCEPT ![Len(s)] = e])
         /\ Len([s EXCEPT ![Len(s)] = e]) = Len(s)
         /\ \A i \in 1 .. Len(s) : [s EXCEPT ![Len(s)] = e][i] = IF i = Len(s) THEN e ELSE s[i]
<1>1. PICK S : s \in Seq(S)
  BY DEF IsSequence
<1>2. s \in Seq(S \cup {e}) /\ Len(s) \in Nat
  BY <1>1
<1>3. [s EXCEPT ![Len(s)] = e] \in Seq(S \cup {e})
  BY <1>2
<1> QED  BY <1>2, <1>3 DEF IsSequence

LEMMA Concatenated ==
  ASSUME NEW s, IsSequence(s), NEW t, IsSequence(t)
  PROVE  /\ IsSequence(s \o t)
         /\ Len(s \o t) = Len(s) + Len(t)
         /\ \A i \in 1 .. Len(s) : (s \o t)[i] = s[i]
         /\ \A i \in 1 .. Len(t) : (s \o t)[Len(s) + i] = t[i]
<1>1. PICK S : s \in Seq(S)
  BY DEF IsSequence
<1>2. PICK T : t \in Seq(T)
  BY DEF IsSequence
<1>3. s \in Seq(S \cup T) /\ t \in Seq(S \cup T)
  BY <1>1, <1>2
<1>4. s \o t \in Seq(S \cup T)
  BY <1>3
<1> QED  BY <1>3, <1>4 DEF IsSequence

-----------------------------------------------------------------------------
(* Induction. *)

LEMMA LeastMember ==
  ASSUME NEW S, S \subseteq Nat, S # {}
  PROVE  \E n \in S : \A m \in S : n <= m
<1> DEFINE R == OpToRel(<, Nat)
<1>1. \A m, n \in Nat : m < n => <<m, n>> \in R
  BY DEF OpToRel
<1> HIDE DEF R
<1>2. IsWellFoundedOn(R, Nat)
  BY NatLessThanWellFounded DEF R
<1>3. PICK n \in S : \A m \in S : ~(<<m, n>> \in R)
  BY <1>2, WFMin
<1>4. ASSUME NEW m \in S PROVE n <= m
  <2>1. m \in Nat /\ n \in Nat
    OBVIOUS
  <2>2. ~(m < n)
    BY <1>1, <1>3, <2>1
  <2> QED  BY <2>1, <2>2
<1> QED  BY <1>4

\* A set of numbers that has zero and every successor has all.
LEMMA Induction ==
  ASSUME NEW S, 0 \in S, \A n \in Nat : n \in S => n + 1 \in S
  PROVE  \A n \in Nat : n \in S
<1> SUFFICES ASSUME Nat \ S # {} PROVE FALSE
  OBVIOUS
<1>1. PICK n \in Nat \ S : \A m \in Nat \ S : n <= m
  BY LeastMember
<1>2. n - 1 \in Nat /\ ~(n <= n - 1)
  BY <1>1
<1>3. n - 1 \in S
  BY <1>1, <1>2
<1> QED  BY <1>1, <1>2, <1>3

\* f is what a recursion from base over the steps up to n defines.
StepsUpto(f, V, base, step, n) ==
  /\ f \in [0 .. n -> V]
  /\ f[0] = base
  /\ \A i \in 1 .. n : f[i] = step[<<f[i - 1], i>>]

LEMMA StepsExtend ==
  ASSUME NEW V, NEW base, NEW step, NEW k \in Nat,
         \A v \in V : step[<<v, k + 1>>] \in V,
         NEW f, StepsUpto(f, V, base, step, k)
  PROVE  \E g : StepsUpto(g, V, base, step, k + 1)
<1> DEFINE last == step[<<f[k], k + 1>>]
           g == [i \in 0 .. k + 1 |-> IF i = k + 1 THEN last ELSE f[i]]
<1>1. f[k] \in V /\ last \in V
  BY DEF StepsUpto
<1>2. last = step[<<f[k], k + 1>>]
  OBVIOUS
<1> HIDE DEF last
<1>3. (\A i \in 0 .. k : g[i] = f[i]) /\ g[k + 1] = last
  OBVIOUS
<1>8. g = [i \in 0 .. k + 1 |-> g[i]]
  OBVIOUS
<1> HIDE DEF g
<1>4. \A i \in 0 .. k + 1 : g[i] \in V
  <2> TAKE i \in 0 .. k + 1
  <2>1. i \in 0 .. k \/ i = k + 1
    OBVIOUS
  <2> QED  BY <2>1, <1>1, <1>3 DEF StepsUpto
<1>5. g[0] = base
  BY <1>3 DEF StepsUpto
<1>6. \A i \in 1 .. k + 1 : g[i] = step[<<g[i - 1], i>>]
  <2> TAKE i \in 1 .. k + 1
  <2>1. i - 1 \in 0 .. k /\ g[i - 1] = f[i - 1]
    BY <1>3
  <2>2. i \in 1 .. k \/ i = k + 1
    OBVIOUS
  <2>3. ASSUME i \in 1 .. k PROVE g[i] = step[<<g[i - 1], i>>]
    <3>1. g[i] = f[i] /\ f[i] = step[<<f[i - 1], i>>]
      BY <1>3, <2>3 DEF StepsUpto
    <3> QED  BY <2>1, <3>1
  <2>4. ASSUME i = k + 1 PROVE g[i] = step[<<g[i - 1], i>>]
    BY <1>2, <1>3, <2>1, <2>4
  <2> QED  BY <2>2, <2>3, <2>4
<1>7. g \in [0 .. k + 1 -> V]
  BY <1>4, <1>8
<1>9. StepsUpto(g, V, base, step, k + 1)
  BY <1>5, <1>6, <1>7 DEF StepsUpto
<1> QED  BY <1>9

\* A function may be defined by its value at zero and a step from each number
\* to the next.
LEMMA RecursionExists ==
  ASSUME NEW V, NEW base \in V, NEW n \in Nat, NEW step,
         \A v \in V, i \in 1 .. n : step[<<v, i>>] \in V
  PROVE  \E f : StepsUpto(f, V, base, step, n)
<1> DEFINE S == {k \in Nat : k <= n => \E f : StepsUpto(f, V, base, step, k)}
<1>1. 0 \in S
  <2> DEFINE f == [i \in 0 .. 0 |-> base]
  <2>1. StepsUpto(f, V, base, step, 0)
    BY DEF StepsUpto
  <2> QED  BY <2>1
<1>2. \A k \in Nat : k \in S => k + 1 \in S
  <2> TAKE k \in Nat
  <2>1. CASE k \in S /\ k + 1 <= n
    <3>1. PICK f : StepsUpto(f, V, base, step, k)
      BY <2>1
    <3>2. \A v \in V : step[<<v, k + 1>>] \in V
      BY <2>1
    <3>3. \E g : StepsUpto(g, V, base, step, k + 1)
      BY <3>1, <3>2, StepsExtend
    <3> QED  BY <3>3
  <2>2. CASE ~(k + 1 <= n)
    BY <2>2
  <2> QED  BY <2>1, <2>2
<1>3. \A k \in Nat : k \in S
  <2> HIDE DEF S
  <2> QED  BY <1>1, <1>2, Induction
<1> QED  BY <1>3

\* The same up to n, from one.
LEMMA InductionUpto ==
  ASSUME NEW n \in Nat, NEW S, \A k \in 1 .. n : (k = 1 \/ k - 1 \in S) => k \in S
  PROVE  \A k \in 1 .. n : k \in S
<1> DEFINE T == {k \in Nat : k + 1 <= n => k + 1 \in S}
<1>1. 0 \in T
  OBVIOUS
<1>2. \A k \in Nat : k \in T => k + 1 \in T
  <2> TAKE k \in Nat
  <2>1. CASE k \in T /\ (k + 1) + 1 <= n
    <3>1. (k + 1) + 1 \in 1 .. n /\ ((k + 1) + 1) - 1 = k + 1 /\ k + 1 <= n
      BY <2>1
    <3>2. k + 1 \in S
      BY <2>1, <3>1
    <3>3. (k + 1) + 1 \in S
      BY <3>1, <3>2
    <3> QED  BY <3>3
  <2>2. CASE ~((k + 1) + 1 <= n)
    BY <2>2
  <2> QED  BY <2>1, <2>2
<1>3. \A k \in Nat : k \in T
  <2> HIDE DEF T
  <2> QED  BY <1>1, <1>2, Induction
<1>4. ASSUME NEW k \in 1 .. n PROVE k \in S
  <2>1. k - 1 \in Nat /\ (k - 1) + 1 = k /\ k <= n
    OBVIOUS
  <2>2. k - 1 \in T
    BY <1>3, <2>1
  <2> QED  BY <2>1, <2>2
<1> QED  BY <1>4

\* Two functions that start alike and take the same steps are alike.
StepAlike(f, g, n) ==
  f[0] = g[0] /\ \A i \in 1 .. n : f[i - 1] = g[i - 1] => f[i] = g[i]

LEMMA RecursionAgrees ==
  ASSUME NEW n \in Nat, NEW f, NEW g, StepAlike(f, g, n)
  PROVE  \A i \in 0 .. n : f[i] = g[i]
<1> DEFINE S == {k \in Nat : f[k] = g[k]}
<1>0. f[0] = g[0] /\ \A i \in 1 .. n : f[i - 1] = g[i - 1] => f[i] = g[i]
  BY DEF StepAlike
<1>1. \A k \in 1 .. n : (k = 1 \/ k - 1 \in S) => k \in S
  <2> TAKE k \in 1 .. n
  <2>1. CASE k = 1
    <3>1. k - 1 = 0
      BY <2>1
    <3> QED  BY <1>0, <3>1
  <2> QED  BY <1>0, <2>1
<1>2. \A k \in 1 .. n : k \in S
  <2> HIDE DEF S
  <2> QED  BY <1>1, InductionUpto
<1> QED  BY <1>0, <1>2

-----------------------------------------------------------------------------
(* FlattenSeq. *)

\* f is the recursive function FlattenSeq is defined by.
Flattens(f, s) ==
  f = [i \in 1 .. Len(s) |-> IF i = 1 THEN s[i] ELSE f[i - 1] \o s[i]]

LEMMA FlattensExists ==
  ASSUME NEW S, NEW s \in Seq(Seq(S))
  PROVE  \E f : Flattens(f, s)
<1> DEFINE n == Len(s)
           V == Seq(S)
           step == [p \in V \X (1 .. n) |-> p[1] \o s[p[2]]]
<1>1. n \in Nat /\ <<>> \in V
  OBVIOUS
<1>2. \A v \in V, i \in 1 .. n : step[<<v, i>>] = v \o s[i] /\ v \o s[i] \in V
  <2> TAKE v \in V, i \in 1 .. n
  <2>1. s[i] \in Seq(S)
    OBVIOUS
  <2>2. v \o s[i] \in V
    BY <2>1
  <2> HIDE DEF V
  <2>3. step[<<v, i>>] = v \o s[i]
    BY Zenon
  <2> QED  BY <2>2, <2>3
<1> HIDE DEF step
<1>3. PICK g : StepsUpto(g, V, <<>>, step, n)
  BY <1>1, <1>2, RecursionExists
<1> DEFINE f == [i \in 1 .. n |-> g[i]]
<1>4. \A i \in 1 .. n : g[i] = g[i - 1] \o s[i]
  <2> TAKE i \in 1 .. n
  <2>1. i - 1 \in 0 .. n /\ g[i - 1] \in V
    <3>1. i - 1 \in 0 .. n
      BY <1>1
    <3>2. g \in [0 .. n -> V]
      BY <1>3 DEF StepsUpto
    <3> HIDE DEF V, n
    <3> QED  BY <3>1, <3>2
  <2> QED  BY <1>2, <1>3, <2>1 DEF StepsUpto
<1>5. \A i \in 1 .. n : g[i] = IF i = 1 THEN s[i] ELSE f[i - 1] \o s[i]
  <2> TAKE i \in 1 .. n
  <2>1. ASSUME i = 1 PROVE g[i] = s[i]
    <3>1. g[0] = <<>>
      BY <1>3 DEF StepsUpto
    <3>2. s[i] \in Seq(S)
      OBVIOUS
    <3>3. i - 1 = 0
      BY <2>1
    <3>4. g[i] = <<>> \o s[i]
      BY <1>4, <3>1, <3>3
    <3> QED  BY <3>2, <3>4
  <2>2. ASSUME i # 1 PROVE g[i] = f[i - 1] \o s[i]
    <3>1. i - 1 \in 1 .. n
      BY <1>1, <2>2
    <3> QED  BY <1>4, <3>1
  <2> QED  BY <2>1, <2>2
<1>6. f = [i \in 1 .. n |-> IF i = 1 THEN s[i] ELSE f[i - 1] \o s[i]]
  BY <1>5
<1> QED  BY <1>6 DEF Flattens

LEMMA FlattenSeqIs ==
  ASSUME NEW S, NEW s \in Seq(Seq(S)), s # <<>>
  PROVE  \E f : Flattens(f, s) /\ FlattenSeq(s) = f[Len(s)]
<1> DEFINE f == CHOOSE f : f = [i \in 1 .. Len(s) |-> IF i = 1 THEN s[i] ELSE f[i - 1] \o s[i]]
<1>1. \E g : g = [i \in 1 .. Len(s) |-> IF i = 1 THEN s[i] ELSE g[i - 1] \o s[i]]
  BY FlattensExists DEF Flattens
<1>2. f = [i \in 1 .. Len(s) |-> IF i = 1 THEN s[i] ELSE f[i - 1] \o s[i]]
  BY <1>1
<1>3. Len(s) # 0
  OBVIOUS
<1>4. FlattenSeq(s) = f[Len(s)]
  BY <1>3, Zenon DEF FlattenSeq
<1> HIDE DEF f
<1> QED  BY <1>2, <1>4 DEF Flattens

LEMMA FlattensAgree ==
  ASSUME NEW s, NEW t, Len(s) \in Nat, Len(t) = Len(s) + 1, \A i \in 1 .. Len(s) : s[i] = t[i],
         NEW f, Flattens(f, s), NEW g, Flattens(g, t)
  PROVE  \A i \in 1 .. Len(s) : f[i] = g[i]
<1> DEFINE n == Len(s)
           S == {k \in 1 .. n : f[k] = g[k]}
<1>1. ASSUME NEW i \in 1 .. n
      PROVE  /\ f[i] = IF i = 1 THEN s[i] ELSE f[i - 1] \o s[i]
             /\ g[i] = IF i = 1 THEN t[i] ELSE g[i - 1] \o t[i]
  <2>1. i \in 1 .. Len(s) /\ i \in 1 .. Len(t)
    OBVIOUS
  <2>2. f[i] = IF i = 1 THEN s[i] ELSE f[i - 1] \o s[i]
    BY <2>1, Zenon DEF Flattens
  <2>3. g[i] = IF i = 1 THEN t[i] ELSE g[i - 1] \o t[i]
    BY <2>1, Zenon DEF Flattens
  <2> QED  BY <2>2, <2>3
<1>2. \A k \in 1 .. n : (k = 1 \/ k - 1 \in S) => k \in S
  BY <1>1
<1>3. \A k \in 1 .. n : k \in S
  <2> HIDE DEF S
  <2> QED  BY <1>2, InductionUpto
<1> QED  BY <1>3

LEMMA FlattensTyped ==
  ASSUME NEW S, NEW s \in Seq(Seq(S)), NEW f, Flattens(f, s)
  PROVE  \A i \in 1 .. Len(s) : f[i] \in Seq(S)
<1> DEFINE T == {k \in 1 .. Len(s) : f[k] \in Seq(S)}
<1>1. \A i \in 1 .. Len(s) : f[i] = IF i = 1 THEN s[i] ELSE f[i - 1] \o s[i]
  BY DEF Flattens
<1>2. \A i \in 1 .. Len(s) : s[i] \in Seq(S)
  OBVIOUS
<1>3. \A k \in 1 .. Len(s) : (k = 1 \/ k - 1 \in T) => k \in T
  <2> TAKE k \in 1 .. Len(s)
  <2>1. CASE k = 1
    BY <1>1, <1>2, <2>1
  <2>2. CASE k # 1 /\ k - 1 \in T
    <3>1. f[k] = f[k - 1] \o s[k] /\ s[k] \in Seq(S) /\ f[k - 1] \in Seq(S)
      BY <1>1, <1>2, <2>2
    <3>2. \A u, v \in Seq(S) : u \o v \in Seq(S)
      OBVIOUS
    <3>3. f[k] \in Seq(S)
      BY <3>1, <3>2, Zenon
    <3> QED  BY <3>3
  <2> QED  BY <2>1, <2>2
<1>4. \A k \in 1 .. Len(s) : k \in T
  <2>1. Len(s) \in Nat
    OBVIOUS
  <2> HIDE DEF T
  <2> QED  BY <1>3, <2>1, InductionUpto
<1> QED  BY <1>4

LEMMA Flattened ==
  ASSUME NEW S, NEW s \in Seq(Seq(S))
  PROVE  FlattenSeq(s) \in Seq(S)
<1>1. CASE s = <<>>
  BY <1>1 DEF FlattenSeq
<1>2. CASE s # <<>>
  <2>1. PICK f : Flattens(f, s) /\ FlattenSeq(s) = f[Len(s)]
    BY <1>2, FlattenSeqIs
  <2>2. Len(s) \in 1 .. Len(s)
    BY <1>2
  <2> QED  BY <2>1, <2>2, FlattensTyped
<1> QED  BY <1>1, <1>2

LEMMA FlattenedAppend ==
  ASSUME NEW S, NEW s \in Seq(Seq(S)), NEW x \in Seq(S)
  PROVE  FlattenSeq(Append(s, x)) = FlattenSeq(s) \o x
<1> DEFINE t == Append(s, x)
           n == Len(s)
<1>1. /\ t \in Seq(Seq(S)) /\ t # <<>> /\ Len(t) = n + 1 /\ n \in Nat
      /\ t[n + 1] = x /\ \A i \in 1 .. n : s[i] = t[i]
  <2>1. t \in Seq(Seq(S)) /\ Len(t) = n + 1 /\ n \in Nat
    OBVIOUS
  <2>2. t[n + 1] = x
    OBVIOUS
  <2>3. \A i \in 1 .. n : s[i] = t[i]
    OBVIOUS
  <2>4. t # <<>>
    <3> HIDE DEF t
    <3> QED  BY <2>1
  <2> QED  BY <2>1, <2>2, <2>3, <2>4
<1> HIDE DEF t
<1>2. PICK g : Flattens(g, t) /\ FlattenSeq(t) = g[n + 1]
  BY <1>1, FlattenSeqIs
<1>3. g[n + 1] = IF n + 1 = 1 THEN x ELSE g[n] \o x
  <2>1. n + 1 \in 1 .. Len(t) /\ (n + 1) - 1 = n
    BY <1>1
  <2> QED  BY <1>1, <1>2, <2>1 DEF Flattens
<1>4. CASE s = <<>>
  <2>1. FlattenSeq(s) = <<>>
    BY <1>4 DEF FlattenSeq
  <2>2. g[n + 1] = x
    BY <1>3, <1>4
  <2> QED  BY <1>2, <2>1, <2>2 DEF t
<1>5. CASE s # <<>>
  <2>1. PICK f : Flattens(f, s) /\ FlattenSeq(s) = f[n]
    BY <1>5, FlattenSeqIs
  <2>2. n \in 1 .. n /\ n + 1 # 1 /\ n <= Len(t)
    BY <1>1, <1>5
  <2>3. f[n] = g[n]
    <3>1. Len(s) \in Nat
      BY <1>1
    <3>2. Len(t) = Len(s) + 1
      BY <1>1
    <3>3. \A i \in 1 .. Len(s) : s[i] = t[i]
      BY <1>1
    <3>4. Flattens(f, s)
      BY <2>1
    <3>5. Flattens(g, t)
      BY <1>2
    <3> HIDE DEF n
    <3>6. \A i \in 1 .. Len(s) : f[i] = g[i]
      BY <3>1, <3>2, <3>3, <3>4, <3>5, FlattensAgree, SMT
    <3> QED  BY <2>2, <3>6 DEF n
  <2> QED  BY <1>2, <1>3, <2>1, <2>2, <2>3 DEF t
<1> QED  BY <1>4, <1>5

\* Where the members of s are in FlattenSeq(s): behind those before.
LEMMA FlattenedAt ==
  ASSUME NEW S, NEW s \in Seq(Seq(S))
  PROVE  \E o \in [0 .. Len(s) -> Nat] :
           /\ o[0] = 0 /\ o[Len(s)] = Len(FlattenSeq(s))
           /\ \A i \in 1 .. Len(s) :
                /\ o[i] = o[i - 1] + Len(s[i]) /\ o[i] <= Len(FlattenSeq(s))
                /\ \A j \in 1 .. Len(s[i]) : FlattenSeq(s)[o[i - 1] + j] = s[i][j]
<1> DEFINE n == Len(s)
           flat == FlattenSeq(s)
<1>0. n \in Nat /\ \A i \in 1 .. n : s[i] \in Seq(S)
  OBVIOUS
<1>1. CASE s = <<>>
  <2> DEFINE o == [i \in 0 .. 0 |-> 0]
  <2>1. n = 0 /\ flat = <<>>
    BY <1>1 DEF FlattenSeq
  <2>2. o \in [0 .. 0 -> Nat] /\ o[0] = 0 /\ Len(<<>>) = 0
    OBVIOUS
  <2>3. 1 .. n = {} /\ 0 .. n = 0 .. 0 /\ Len(flat) = 0
    BY <2>1, <2>2
  <2>4. o \in [0 .. n -> Nat] /\ o[0] = 0 /\ o[n] = Len(flat)
    BY <2>1, <2>2, <2>3
  <2> HIDE DEF o, n, flat
  <2> QED  BY <2>3, <2>4 DEF n, flat
<1>2. CASE s # <<>>
  <2>1. PICK f : Flattens(f, s) /\ flat = f[n]
    BY <1>2, FlattenSeqIs
  <2>2. \A i \in 1 .. n : f[i] = IF i = 1 THEN s[i] ELSE f[i - 1] \o s[i]
    BY <2>1 DEF Flattens
  <2>3. \A i \in 1 .. n : f[i] \in Seq(S)
    BY <2>1, FlattensTyped
  <2> DEFINE o == [i \in 0 .. n |-> IF i = 0 THEN 0 ELSE Len(f[i])]
  <2>4. /\ o \in [0 .. n -> Nat] /\ o[0] = 0
        /\ \A i \in 1 .. n : o[i] = Len(f[i])
    <3>1. \A i \in 0 .. n : i # 0 => i \in 1 .. n
      BY <1>0
    <3>2. \A i \in 1 .. n : Len(f[i]) \in Nat
      BY <2>3
    <3>3. \A i \in 1 .. n : i \in 0 .. n /\ i # 0
      BY <1>0
    <3>4. 0 \in 0 .. n
      BY <1>0
    <3> HIDE DEF n
    <3> QED  BY <3>1, <3>2, <3>3, <3>4
  <2> HIDE DEF o, flat, n
  <2>5. ASSUME NEW i \in 1 .. n
        PROVE  /\ o[i] = o[i - 1] + Len(s[i])
               /\ \A j \in 1 .. Len(s[i]) : f[i][o[i - 1] + j] = s[i][j]
               /\ i # 1 => \A j \in 1 .. o[i - 1] : f[i][j] = f[i - 1][j]
    <3>1. CASE i = 1
      <4>1. f[i] = s[i] /\ o[i - 1] = 0 /\ o[i] = Len(s[i]) /\ s[i] \in Seq(S)
        BY <1>0, <2>2, <2>4, <3>1
      <4>2. Len(s[i]) \in Nat
        BY <4>1
      <4> QED  BY <3>1, <4>1, <4>2
    <3>2. CASE i # 1
      <4>1. i - 1 \in 1 .. n /\ f[i] = f[i - 1] \o s[i]
        <5>1. i - 1 \in 1 .. n
          BY <1>0, <3>2
        <5>2. f[i] = f[i - 1] \o s[i]
          BY <2>2, <3>2, Zenon
        <5> QED  BY <5>1, <5>2
      <4>2. f[i - 1] \in Seq(S) /\ s[i] \in Seq(S) /\ o[i - 1] = Len(f[i - 1]) /\ o[i] = Len(f[i])
        BY <1>0, <2>3, <2>4, <4>1
      <4>3. ASSUME NEW u \in Seq(S), NEW v \in Seq(S)
            PROVE  /\ Len(u \o v) = Len(u) + Len(v)
                   /\ \A j \in 1 .. Len(v) : (u \o v)[Len(u) + j] = v[j]
                   /\ \A j \in 1 .. Len(u) : (u \o v)[j] = u[j]
        OBVIOUS
      <4>4. /\ Len(f[i - 1] \o s[i]) = Len(f[i - 1]) + Len(s[i])
            /\ \A j \in 1 .. Len(s[i]) : (f[i - 1] \o s[i])[Len(f[i - 1]) + j] = s[i][j]
            /\ \A j \in 1 .. Len(f[i - 1]) : (f[i - 1] \o s[i])[j] = f[i - 1][j]
        BY <4>2, <4>3
      <4> QED  BY <4>1, <4>2, <4>4
    <3> QED  BY <3>1, <3>2
  <2> DEFINE K == {k \in 1 .. n : \A i \in 1 .. k :
                     o[i] <= o[k] /\ \A j \in 1 .. o[i] : f[k][j] = f[i][j]}
  <2>6. \A k \in 1 .. n : (k = 1 \/ k - 1 \in K) => k \in K
    <3> TAKE k \in 1 .. n
    <3>0. o[k] \in Nat
      BY <1>0, <2>4
    <3>1. CASE k = 1
      <4>1. \A i \in 1 .. k : i = k
        BY <3>1
      <4> QED  BY <3>0, <4>1
    <3>2. CASE k # 1 /\ k - 1 \in K
      <4>1. /\ k - 1 \in 1 .. n /\ o[k - 1] \in Nat /\ Len(s[k]) \in Nat
        <5>1. k - 1 \in 1 .. n
          BY <1>0, <3>2
        <5>2. o[k - 1] \in Nat
          BY <1>0, <2>4, <5>1
        <5>3. s[k] \in Seq(S)
          BY <1>0
        <5>4. Len(s[k]) \in Nat
          BY <5>3
        <5> QED  BY <5>1, <5>2, <5>4
      <4>2. o[k] = o[k - 1] + Len(s[k]) /\ \A j \in 1 .. o[k - 1] : f[k][j] = f[k - 1][j]
        BY <2>5, <3>2
      <4>3. ASSUME NEW i \in 1 .. k
            PROVE  o[i] <= o[k] /\ \A j \in 1 .. o[i] : f[k][j] = f[i][j]
        <5>1. CASE i = k
          BY <3>0, <5>1
        <5>2. CASE i # k
          <6>1. i \in 1 .. k - 1 /\ i \in 1 .. n
            BY <1>0, <5>2
          <6>2. o[i] \in Nat /\ o[i] <= o[k - 1] /\ \A j \in 1 .. o[i] : f[k - 1][j] = f[i][j]
            BY <1>0, <2>4, <3>2, <6>1
          <6>3. \A j \in 1 .. o[i] : j \in 1 .. o[k - 1]
            BY <4>1, <6>2
          <6> QED  BY <3>0, <4>1, <4>2, <6>2, <6>3
        <5> QED  BY <5>1, <5>2
      <4> QED  BY <4>3
    <3> QED  BY <3>1, <3>2
  <2>7. \A k \in 1 .. n : k \in K
    <3> HIDE DEF K
    <3> QED  BY <1>0, <2>6, InductionUpto
  <2>8. n \in 1 .. n /\ o[n] = Len(flat)
    <3>1. n # 0
      BY <1>2 DEF n
    <3> QED  BY <1>0, <2>1, <2>4, <3>1
  <2>9. ASSUME NEW i \in 1 .. n
        PROVE  /\ o[i] = o[i - 1] + Len(s[i]) /\ o[i] <= Len(flat)
               /\ \A j \in 1 .. Len(s[i]) : flat[o[i - 1] + j] = s[i][j]
    <3>1. /\ o[i] = o[i - 1] + Len(s[i])
          /\ \A j \in 1 .. Len(s[i]) : f[i][o[i - 1] + j] = s[i][j]
      BY <2>5
    <3>2. o[i] <= o[n] /\ \A j \in 1 .. o[i] : f[n][j] = f[i][j]
      <4>1. n \in K /\ i \in 1 .. n
        BY <2>7, <2>8
      <4> QED  BY <4>1
    <3>3. o[i - 1] \in Nat /\ s[i] \in Seq(S)
      BY <1>0, <2>4
    <3>4. \A j \in 1 .. Len(s[i]) : o[i - 1] + j \in 1 .. o[i]
      <4>1. Len(s[i]) \in Nat
        BY <3>3
      <4> QED  BY <3>1, <3>3, <4>1
    <3> QED  BY <2>1, <2>8, <3>1, <3>2, <3>4
  <2> QED  BY <2>4, <2>8, <2>9 DEF n, flat
<1> QED  BY <1>1, <1>2

-----------------------------------------------------------------------------
(* What is kept of a stream of bytes. *)

\* kept is the recursive function Kept is defined by.
Keeps(kept, s, S) ==
  kept = [i \in 0 .. Len(s) |->
            IF i = 0 THEN <<>>
            ELSE IF s[i] \in S THEN Append(kept[i - 1], s[i]) ELSE kept[i - 1]]

LEMMA KeepsExists ==
  ASSUME NEW T, NEW s \in Seq(T), NEW S
  PROVE  \E kept : Keeps(kept, s, S)
<1> DEFINE n == Len(s)
           V == Seq(T)
           step == [p \in V \X (1 .. n) |->
                      IF s[p[2]] \in S THEN Append(p[1], s[p[2]]) ELSE p[1]]
<1>1. n \in Nat /\ <<>> \in V
  OBVIOUS
<1>2. \A v \in V, i \in 1 .. n :
        /\ step[<<v, i>>] = IF s[i] \in S THEN Append(v, s[i]) ELSE v
        /\ step[<<v, i>>] \in V
  <2> TAKE v \in V, i \in 1 .. n
  <2>1. s[i] \in T
    OBVIOUS
  <2>2. Append(v, s[i]) \in V
    BY <2>1
  <2> HIDE DEF V
  <2>3. step[<<v, i>>] = IF s[i] \in S THEN Append(v, s[i]) ELSE v
    BY Zenon
  <2> QED  BY <2>2, <2>3
<1> HIDE DEF step, V
<1>3. PICK f : StepsUpto(f, V, <<>>, step, n)
  BY <1>1, <1>2, RecursionExists
<1>4. \A i \in 0 .. n : f[i] = IF i = 0 THEN <<>>
                              ELSE IF s[i] \in S THEN Append(f[i - 1], s[i]) ELSE f[i - 1]
  <2> TAKE i \in 0 .. n
  <2>1. CASE i = 0
    BY <1>3, <2>1 DEF StepsUpto
  <2>2. CASE i # 0
    <3>1. i \in 1 .. n /\ i - 1 \in 0 .. n
      BY <2>2
    <3>2. f[i - 1] \in V /\ f[i] = step[<<f[i - 1], i>>]
      BY <1>3, <3>1 DEF StepsUpto
    <3> QED  BY <1>2, <2>2, <3>1, <3>2
  <2> QED  BY <2>1, <2>2
<1>5. f = [i \in 0 .. n |-> f[i]]
  BY <1>3 DEF StepsUpto
<1> QED  BY <1>4, <1>5 DEF Keeps

LEMMA KeptIs ==
  ASSUME NEW T, NEW s \in Seq(T), NEW S
  PROVE  \E kept : Keeps(kept, s, S) /\ Kept(s, S) = kept[Len(s)]
<1> DEFINE kept == CHOOSE kept : kept =
                     [i \in 0 .. Len(s) |->
                        IF i = 0 THEN <<>>
                        ELSE IF s[i] \in S THEN Append(kept[i - 1], s[i]) ELSE kept[i - 1]]
<1>1. \E f : f = [i \in 0 .. Len(s) |->
                   IF i = 0 THEN <<>>
                   ELSE IF s[i] \in S THEN Append(f[i - 1], s[i]) ELSE f[i - 1]]
  <2>1. PICK f : Keeps(f, s, S)
    BY KeepsExists
  <2> QED  BY <2>1, Zenon DEF Keeps
<1>2. kept = [i \in 0 .. Len(s) |->
                IF i = 0 THEN <<>>
                ELSE IF s[i] \in S THEN Append(kept[i - 1], s[i]) ELSE kept[i - 1]]
  BY <1>1
<1>3. Kept(s, S) = kept[Len(s)]
  BY Zenon DEF Kept
<1> HIDE DEF kept
<1> QED  BY <1>2, <1>3 DEF Keeps

LEMMA KeepsStep ==
  ASSUME NEW s, Len(s) \in Nat, NEW S, NEW kept, Keeps(kept, s, S)
  PROVE  /\ kept[0] = <<>>
         /\ \A i \in 1 .. Len(s) :
              kept[i] = IF s[i] \in S THEN Append(kept[i - 1], s[i]) ELSE kept[i - 1]
<1>1. \A i \in 0 .. Len(s) :
        kept[i] = IF i = 0 THEN <<>>
                  ELSE IF s[i] \in S THEN Append(kept[i - 1], s[i]) ELSE kept[i - 1]
  BY DEF Keeps
<1>2. ASSUME NEW i \in 1 .. Len(s)
      PROVE  kept[i] = IF s[i] \in S THEN Append(kept[i - 1], s[i]) ELSE kept[i - 1]
  <2>1. i \in 0 .. Len(s) /\ i # 0
    OBVIOUS
  <2> QED  BY <1>1, <2>1
<1> QED  BY <1>1, <1>2

LEMMA KeepsTyped ==
  ASSUME NEW T, NEW s \in Seq(T), NEW S, NEW kept, Keeps(kept, s, S)
  PROVE  \A i \in 0 .. Len(s) : kept[i] \in Seq(T)
<1> DEFINE n == Len(s)
           K == {k \in 1 .. n : kept[k] \in Seq(T)}
<1>1. /\ n \in Nat /\ kept[0] = <<>>
      /\ \A i \in 1 .. n : kept[i] = IF s[i] \in S THEN Append(kept[i - 1], s[i]) ELSE kept[i - 1]
  BY KeepsStep
<1>2. \A k \in 1 .. n : (k = 1 \/ k - 1 \in K) => k \in K
  <2> TAKE k \in 1 .. n
  <2>1. s[k] \in T /\ \A v \in Seq(T) : Append(v, s[k]) \in Seq(T)
    OBVIOUS
  <2>2. kept[k] = IF s[k] \in S THEN Append(kept[k - 1], s[k]) ELSE kept[k - 1]
    BY <1>1
  <2>3. k = 1 => kept[k - 1] \in Seq(T)
    <3>1. k = 1 => k - 1 = 0
      OBVIOUS
    <3>2. <<>> \in Seq(T)
      OBVIOUS
    <3> QED  BY <1>1, <3>1, <3>2, Zenon
  <2>4. kept[k - 1] \in Seq(T) => kept[k] \in Seq(T)
    BY <2>1, <2>2, Zenon
  <2> QED  BY <2>3, <2>4
<1>3. \A k \in 1 .. n : k \in K
  <2> HIDE DEF K
  <2> QED  BY <1>1, <1>2, InductionUpto
<1>4. \A i \in 0 .. n : i = 0 \/ i \in 1 .. n
  BY <1>1
<1>5. <<>> \in Seq(T)
  OBVIOUS
<1> QED  BY <1>1, <1>3, <1>4, <1>5

LEMMA KeptTyped ==
  ASSUME NEW T, NEW s \in Seq(T), NEW S
  PROVE  Kept(s, S) \in Seq(T)
<1>1. PICK kept : Keeps(kept, s, S) /\ Kept(s, S) = kept[Len(s)]
  BY KeptIs
<1>2. Len(s) \in 0 .. Len(s)
  OBVIOUS
<1> QED  BY <1>1, <1>2, KeepsTyped

\* Nothing is kept of bytes that are not in the set.
LEMMA KeptNothing ==
  ASSUME NEW T, NEW s \in Seq(T), NEW S, \A b \in T : b \notin S
  PROVE  Kept(s, S) = <<>>
<1>1. PICK kept : Keeps(kept, s, S) /\ Kept(s, S) = kept[Len(s)]
  BY KeptIs
<1> DEFINE n == Len(s)
           K == {k \in 1 .. n : kept[k] = <<>>}
<1>2. /\ n \in Nat /\ kept[0] = <<>>
      /\ \A i \in 1 .. n : kept[i] = IF s[i] \in S THEN Append(kept[i - 1], s[i]) ELSE kept[i - 1]
  BY <1>1, KeepsStep
<1>3. \A k \in 1 .. n : (k = 1 \/ k - 1 \in K) => k \in K
  <2> TAKE k \in 1 .. n
  <2>1. s[k] \notin S
    OBVIOUS
  <2>2. k = 1 => k - 1 = 0
    OBVIOUS
  <2> QED  BY <1>2, <2>1, <2>2
<1>4. \A k \in 1 .. n : k \in K
  <2> HIDE DEF K
  <2> QED  BY <1>2, <1>3, InductionUpto
<1>5. n = 0 \/ n \in 1 .. n
  BY <1>2
<1> QED  BY <1>1, <1>2, <1>4, <1>5

\* All is kept of bytes that are.
LEMMA KeptAll ==
  ASSUME NEW S, NEW s \in Seq(S)
  PROVE  Kept(s, S) = s
<1>1. PICK kept : Keeps(kept, s, S) /\ Kept(s, S) = kept[Len(s)]
  BY KeptIs
<1> DEFINE n == Len(s)
           K == {k \in 1 .. n : kept[k] = SubSeq(s, 1, k)}
<1>2. /\ n \in Nat /\ kept[0] = <<>>
      /\ \A i \in 1 .. n : kept[i] = IF s[i] \in S THEN Append(kept[i - 1], s[i]) ELSE kept[i - 1]
  BY <1>1, KeepsStep
<1>3. \A k \in 1 .. n : (k = 1 \/ k - 1 \in K) => k \in K
  <2> TAKE k \in 1 .. n
  <2>1. kept[k] = Append(kept[k - 1], s[k])
    <3>1. s[k] \in S
      OBVIOUS
    <3> QED  BY <1>2, <3>1
  <2>2. SubSeq(s, 1, k) = Append(SubSeq(s, 1, k - 1), s[k])
    OBVIOUS
  <2>3. k = 1 => kept[k - 1] = SubSeq(s, 1, k - 1)
    <3>1. k = 1 => k - 1 = 0 /\ SubSeq(s, 1, 0) = <<>>
      OBVIOUS
    <3> QED  BY <1>2, <3>1
  <2> QED  BY <2>1, <2>2, <2>3
<1>4. \A k \in 1 .. n : k \in K
  <2> HIDE DEF K
  <2> QED  BY <1>2, <1>3, InductionUpto
<1>5. CASE n = 0
  <2>1. s = <<>>
    BY <1>5
  <2> QED  BY <1>1, <1>2, <1>5, <2>1
<1>6. CASE n # 0
  <2>1. n \in 1 .. n /\ SubSeq(s, 1, n) = s
    BY <1>2, <1>6
  <2> QED  BY <1>1, <1>4, <2>1
<1> QED  BY <1>5, <1>6

LEMMA NothingKept == \A S : Kept(<<>>, S) = <<>>
<1> TAKE S
<1>1. <<>> \in Seq(S)
  OBVIOUS
<1> QED  BY <1>1, KeptAll

LEMMA Associative ==
  ASSUME NEW T, NEW u \in Seq(T), NEW v \in Seq(T), NEW w \in Seq(T)
  PROVE  (u \o v) \o w = u \o (v \o w)
BY ConcatAssociative

AppendsToBoth(T) == \A u, v \in Seq(T), x \in T : Append(u \o v, x) = u \o Append(v, x)
LEMMA AppendedToBoth == ASSUME NEW T PROVE AppendsToBoth(T)
BY DEF AppendsToBoth

LEMMA KeptOfBoth ==
  ASSUME NEW T, NEW a \in Seq(T), NEW b \in Seq(T), NEW S
  PROVE  Kept(a \o b, S) = Kept(a, S) \o Kept(b, S)
<1> DEFINE c == a \o b
           n == Len(a)
           m == Len(b)
<1>0. AppendsToBoth(T)
  BY AppendedToBoth
<1>1. /\ c \in Seq(T) /\ Len(c) = n + m /\ n \in Nat /\ m \in Nat
      /\ \A i \in 1 .. n : c[i] = a[i]
      /\ \A i \in 1 .. m : c[n + i] = b[i]
  OBVIOUS
<1>2. PICK f : Keeps(f, a, S) /\ Kept(a, S) = f[n]
  BY KeptIs
<1>3. PICK g : Keeps(g, b, S) /\ Kept(b, S) = g[m]
  BY KeptIs
<1> HIDE DEF c
<1>4. PICK h : Keeps(h, c, S) /\ Kept(c, S) = h[n + m]
  BY <1>1, KeptIs
<1>5. f[0] = <<>> /\ \A i \in 1 .. n : f[i] = IF a[i] \in S THEN Append(f[i - 1], a[i]) ELSE f[i - 1]
  BY <1>1, <1>2, KeepsStep
<1>6. g[0] = <<>> /\ \A i \in 1 .. m : g[i] = IF b[i] \in S THEN Append(g[i - 1], b[i]) ELSE g[i - 1]
  BY <1>1, <1>3, KeepsStep
<1>7. h[0] = <<>> /\ \A i \in 1 .. n + m : h[i] = IF c[i] \in S THEN Append(h[i - 1], c[i]) ELSE h[i - 1]
  <2>1. Len(c) \in Nat
    BY <1>1
  <2>2. /\ h[0] = <<>>
        /\ \A i \in 1 .. Len(c) : h[i] = IF c[i] \in S THEN Append(h[i - 1], c[i]) ELSE h[i - 1]
    BY <1>4, <2>1, KeepsStep
  <2> QED  BY <1>1, <2>2
<1>8. \A i \in 0 .. n : h[i] = f[i]
  <2> HIDE DEF n, m
  <2>1. ASSUME NEW i \in 1 .. n, h[i - 1] = f[i - 1] PROVE h[i] = f[i]
    <3>1. i \in 1 .. n + m
      BY <1>1
    <3>2. /\ h[i] = IF c[i] \in S THEN Append(h[i - 1], c[i]) ELSE h[i - 1]
          /\ f[i] = IF a[i] \in S THEN Append(f[i - 1], a[i]) ELSE f[i - 1]
          /\ c[i] = a[i]
      BY <1>1, <1>5, <1>7, <3>1
    <3> QED  BY <2>1, <3>2
  <2>2. n \in Nat /\ h[0] = f[0]
    BY <1>1, <1>5, <1>7
  <2>3. StepAlike(h, f, n)
    BY <2>1, <2>2 DEF StepAlike
  <2> QED  BY <2>2, <2>3, RecursionAgrees
<1>9. f[n] \in Seq(T) /\ \A i \in 0 .. m : g[i] \in Seq(T)
  BY <1>1, <1>2, <1>3, KeptTyped, KeepsTyped
<1> DEFINE K == {k \in 1 .. m : h[n + k] = f[n] \o g[k]}
<1>10. \A k \in 1 .. m : (k = 1 \/ k - 1 \in K) => k \in K
  <2> HIDE DEF n, m
  <2> TAKE k \in 1 .. m
  <2>1. b[k] \in T /\ k - 1 \in 0 .. m /\ g[k - 1] \in Seq(T)
    <3>1. b[k] \in T
      BY DEF m
    <3>2. k - 1 \in 0 .. m
      BY <1>1
    <3> QED  BY <1>9, <3>1, <3>2
  <2>2. n + k \in 1 .. n + m /\ (n + k) - 1 = n + (k - 1)
    BY <1>1
  <2>3. /\ g[k] = IF b[k] \in S THEN Append(g[k - 1], b[k]) ELSE g[k - 1]
        /\ h[n + k] = IF b[k] \in S THEN Append(h[n + (k - 1)], b[k]) ELSE h[n + (k - 1)]
    BY <1>1, <1>6, <1>7, <2>2
  <2>4. k = 1 => h[n + (k - 1)] = f[n] \o g[k - 1]
    <3>1. k = 1 => k - 1 = 0 /\ n + (k - 1) = n
      BY <1>1
    <3>2. h[n] = f[n] /\ f[n] \o <<>> = f[n]
      BY <1>1, <1>8, <1>9
    <3> QED  BY <1>6, <3>1, <3>2
  <2>5. Append(f[n] \o g[k - 1], b[k]) = f[n] \o Append(g[k - 1], b[k])
    <3>1. f[n] \in Seq(T) /\ g[k - 1] \in Seq(T) /\ b[k] \in T
      BY <1>9, <2>1
    <3> QED  BY ONLY <1>0, <3>1, Zenon DEF AppendsToBoth
  <2>6. h[n + (k - 1)] = f[n] \o g[k - 1] => h[n + k] = f[n] \o g[k]
    BY <2>3, <2>5, Zenon
  <2> QED  BY <2>4, <2>6
<1>11. \A k \in 1 .. m : k \in K
  <2> HIDE DEF K
  <2> QED  BY <1>1, <1>10, InductionUpto
<1>12. h[n + m] = f[n] \o g[m]
  <2> HIDE DEF n, m
  <2>1. CASE m = 0
    <3>1. f[n] \o <<>> = f[n] /\ n + m = n
      BY <1>1, <1>9, <2>1
    <3>2. h[n] = f[n]
      BY <1>1, <1>8
    <3> QED  BY <1>6, <2>1, <3>1, <3>2
  <2>2. CASE m # 0
    <3>1. m \in 1 .. m
      BY <1>1, <2>2
    <3> QED  BY <1>11, <3>1
  <2> QED  BY <2>1, <2>2
<1> QED  BY <1>2, <1>3, <1>4, <1>12 DEF c

LEMMA KeptOfThree ==
  ASSUME NEW T, NEW a \in Seq(T), NEW b \in Seq(T), NEW c \in Seq(T), NEW S
  PROVE  Kept(a \o b \o c, S) = (Kept(a, S) \o Kept(b, S)) \o Kept(c, S)
<1> DEFINE ab == a \o b
<1>1. ab \in Seq(T)
  OBVIOUS
<1>2. Kept(ab, S) = Kept(a, S) \o Kept(b, S)
  BY KeptOfBoth
<1> HIDE DEF ab
<1>3. Kept(ab \o c, S) = Kept(ab, S) \o Kept(c, S)
  BY <1>1, KeptOfBoth
<1> QED  BY <1>2, <1>3 DEF ab

\* What is kept of s is in the set.
LEMMA KeptInside ==
  ASSUME NEW T, NEW s \in Seq(T), NEW S
  PROVE  Kept(s, S) \in Seq(S)
<1>1. PICK kept : Keeps(kept, s, S) /\ Kept(s, S) = kept[Len(s)]
  BY KeptIs
<1> DEFINE n == Len(s)
           K == {k \in 1 .. n : kept[k] \in Seq(S)}
<1>2. /\ n \in Nat /\ kept[0] = <<>>
      /\ \A i \in 1 .. n : kept[i] = IF s[i] \in S THEN Append(kept[i - 1], s[i]) ELSE kept[i - 1]
  BY <1>1, KeepsStep
<1>3. <<>> \in Seq(S)
  OBVIOUS
<1>4. \A k \in 1 .. n : (k = 1 \/ k - 1 \in K) => k \in K
  <2> TAKE k \in 1 .. n
  <2>1. \A v \in Seq(S), x \in S : Append(v, x) \in Seq(S)
    OBVIOUS
  <2>2. kept[k] = IF s[k] \in S THEN Append(kept[k - 1], s[k]) ELSE kept[k - 1]
    BY <1>2
  <2>3. k = 1 => kept[k - 1] \in Seq(S)
    <3>1. k = 1 => k - 1 = 0
      OBVIOUS
    <3> QED  BY <1>2, <1>3, <3>1, Zenon
  <2>4. kept[k - 1] \in Seq(S) => kept[k] \in Seq(S)
    BY <2>1, <2>2, Zenon
  <2> QED  BY <2>3, <2>4
<1>5. \A k \in 1 .. n : k \in K
  <2> HIDE DEF K
  <2> QED  BY <1>2, <1>4, InductionUpto
<1>6. n = 0 \/ n \in 1 .. n
  BY <1>2
<1> QED  BY <1>1, <1>2, <1>3, <1>5, <1>6

-----------------------------------------------------------------------------
(* Ends of a stream of bytes. *)

LEMMA SuffixIs ==
  ASSUME NEW T, NEW s \in Seq(T), NEW n \in 0 .. Len(s)
  PROVE  /\ SubSeq(s, n + 1, Len(s)) \in Seq(T)
         /\ Len(SubSeq(s, n + 1, Len(s))) = Len(s) - n
         /\ \A i \in 1 .. Len(s) - n : SubSeq(s, n + 1, Len(s))[i] = s[n + i]
<1>1. Len(s) \in Nat
  OBVIOUS
<1> DEFINE t == SubSeq(s, n + 1, Len(s))
<1>2. t \in Seq(T) /\ Len(t) = Len(s) - n
  OBVIOUS
<1>3. \A i \in 1 .. Len(s) - n : t[i] = s[n + i]
  OBVIOUS
<1> QED  BY <1>2, <1>3

LEMMA PrefixIs ==
  ASSUME NEW T, NEW s \in Seq(T), NEW n \in 0 .. Len(s)
  PROVE  /\ SubSeq(s, 1, n) \in Seq(T) /\ Len(SubSeq(s, 1, n)) = n
         /\ \A i \in 1 .. n : SubSeq(s, 1, n)[i] = s[i]
         /\ SubSeq(s, 1, n) \o SubSeq(s, n + 1, Len(s)) = s
<1> DEFINE t == SubSeq(s, 1, n)
           u == SubSeq(s, n + 1, Len(s))
<1>1. t \in Seq(T) /\ Len(t) = n /\ \A i \in 1 .. n : t[i] = s[i]
  OBVIOUS
<1>2. u \in Seq(T) /\ Len(u) = Len(s) - n /\ \A i \in 1 .. Len(s) - n : u[i] = s[n + i]
  BY SuffixIs
<1>3. Len(s) \in Nat
  OBVIOUS
<1> HIDE DEF t, u
<1>4. t \o u \in Seq(T) /\ Len(t \o u) = Len(s)
  BY <1>1, <1>2, <1>3
<1>5. ASSUME NEW i \in 1 .. Len(s) PROVE (t \o u)[i] = s[i]
  <2>1. CASE i <= n
    BY <1>1, <1>2, <1>3, <2>1
  <2>2. CASE ~(i <= n)
    <3>1. i - n \in 1 .. Len(s) - n /\ n + (i - n) = i
      BY <1>3, <2>2
    <3>2. (t \o u)[i] = u[i - n]
      BY <1>1, <1>2, <1>3, <2>2
    <3> QED  BY <1>2, <3>1, <3>2
  <2> QED  BY <2>1, <2>2
<1>6. t \o u = s
  BY <1>4, <1>5, SeqEqual
<1> QED  BY <1>1, <1>6 DEF t, u

\* An end grows with the stream, and its own ends are ends.
LEMMA EndsWithMore ==
  ASSUME NEW T, NEW s \in Seq(T), NEW t, NEW x \in Seq(T), EndsWith(s, t)
  PROVE  EndsWith(s \o x, t \o x)
<1>1. PICK n \in 0 .. Len(s) : t = SubSeq(s, n + 1, Len(s))
  BY DEF EndsWith
<1>2. /\ t \in Seq(T) /\ Len(t) = Len(s) - n
      /\ \A i \in 1 .. Len(s) - n : t[i] = s[n + i]
  BY <1>1, SuffixIs
<1>3. Len(s) \in Nat /\ Len(x) \in Nat
  OBVIOUS
<1> DEFINE u == s \o x
<1>4. /\ u \in Seq(T) /\ Len(u) = Len(s) + Len(x)
      /\ \A i \in 1 .. Len(s) : u[i] = s[i]
      /\ \A i \in 1 .. Len(x) : u[Len(s) + i] = x[i]
  OBVIOUS
<1> HIDE DEF u
<1> DEFINE v == SubSeq(u, n + 1, Len(u))
           w == t \o x
<1>5. n \in 0 .. Len(u)
  BY <1>3, <1>4
<1>6. /\ v \in Seq(T) /\ Len(v) = Len(u) - n
      /\ \A i \in 1 .. Len(u) - n : v[i] = u[n + i]
  BY <1>4, <1>5, SuffixIs
<1>7. /\ w \in Seq(T) /\ Len(w) = (Len(s) - n) + Len(x)
      /\ \A i \in 1 .. Len(s) - n : w[i] = t[i]
      /\ \A i \in 1 .. Len(x) : w[(Len(s) - n) + i] = x[i]
  <2>1. /\ w \in Seq(T) /\ Len(w) = Len(t) + Len(x)
        /\ \A i \in 1 .. Len(t) : w[i] = t[i]
        /\ \A i \in 1 .. Len(x) : w[Len(t) + i] = x[i]
    <3>1. t \in Seq(T)
      BY <1>2
    <3> QED  BY <3>1
  <2> HIDE DEF w
  <2> QED  BY <1>2, <2>1
<1> HIDE DEF v, w
<1>8. ASSUME NEW i \in 1 .. Len(w) PROVE w[i] = v[i]
  <2>1. i \in 1 .. Len(u) - n
    BY <1>3, <1>4, <1>7
  <2>2. CASE i \in 1 .. Len(s) - n
    <3>1. n + i \in 1 .. Len(s)
      BY <1>3, <2>2
    <3> QED  BY <1>2, <1>4, <1>6, <1>7, <2>1, <2>2, <3>1
  <2>3. CASE ~(i \in 1 .. Len(s) - n)
    <3> DEFINE j == i - (Len(s) - n)
    <3>1. j \in 1 .. Len(x) /\ (Len(s) - n) + j = i /\ Len(s) + j = n + i
      BY <1>3, <1>7, <2>3
    <3> HIDE DEF j
    <3>2. w[i] = x[j]
      BY <1>7, <3>1
    <3>3. v[i] = x[j]
      BY <1>4, <1>6, <2>1, <3>1
    <3> QED  BY <3>2, <3>3
  <2> QED  BY <2>2, <2>3
<1>9. Len(w) = Len(v)
  BY <1>3, <1>4, <1>6, <1>7
<1>10. w = v
  BY <1>6, <1>7, <1>8, <1>9, SeqEqual
<1> QED  BY <1>5, <1>10 DEF EndsWith, u, v, w

LEMMA EndsWithLess ==
  ASSUME NEW T, NEW s \in Seq(T), NEW t \in Seq(T), NEW m \in 0 .. Len(t), EndsWith(s, t)
  PROVE  EndsWith(s, SubSeq(t, m + 1, Len(t)))
<1>1. PICK n \in 0 .. Len(s) : t = SubSeq(s, n + 1, Len(s))
  BY DEF EndsWith
<1>2. /\ t \in Seq(T) /\ Len(t) = Len(s) - n
      /\ \A i \in 1 .. Len(s) - n : t[i] = s[n + i]
  BY <1>1, SuffixIs
<1>3. Len(s) \in Nat
  OBVIOUS
<1> DEFINE u == SubSeq(t, m + 1, Len(t))
           k == n + m
           v == SubSeq(s, k + 1, Len(s))
<1>4. /\ u \in Seq(T) /\ Len(u) = Len(t) - m
      /\ \A i \in 1 .. Len(t) - m : u[i] = t[m + i]
  BY SuffixIs
<1>5. k \in 0 .. Len(s)
  BY <1>2, <1>3
<1>6. /\ v \in Seq(T) /\ Len(v) = Len(s) - k
      /\ \A i \in 1 .. Len(s) - k : v[i] = s[k + i]
  <2> HIDE DEF k
  <2> QED  BY <1>5, SuffixIs
<1> HIDE DEF u, v
<1>7. Len(u) = Len(v)
  BY <1>2, <1>3, <1>4, <1>6
<1>8. ASSUME NEW i \in 1 .. Len(u) PROVE u[i] = v[i]
  <2>1. /\ i \in 1 .. Len(t) - m /\ m + i \in 1 .. Len(s) - n /\ i \in 1 .. Len(s) - k
        /\ n + (m + i) = k + i
    BY <1>2, <1>3, <1>4
  <2> QED  BY <1>2, <1>4, <1>6, <2>1
<1>9. u = v
  BY <1>4, <1>6, <1>7, <1>8, SeqEqual
<1> QED  BY <1>5, <1>9 DEF EndsWith, u, v
=============================================================================
