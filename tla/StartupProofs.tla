---------------------------- MODULE StartupProofs ----------------------------
(***************************************************************************)
(* Theorems about the reading of the configuration file, for every file    *)
(* and every size of the read buffer: the stack of the document always     *)
(* holds what the calls under way pushed, the stream shows the file, and   *)
(* the document that is read is what the text means.                       *)
(*                                                                         *)
(* First what a text means, without the reader: which run of characters is *)
(* what, and how a value goes on behind its first character (JsonText).    *)
(* Then the reader: its calls and its stack, the stream, the sites, and    *)
(* last the calls under way as so many promises of what the text means.    *)
(***************************************************************************)
EXTENDS Startup, AnySequenceProofs, TLAPS

-----------------------------------------------------------------------------
(* What a text means: the positions of its characters. *)

LEMMA ShowsWithin ==
  ASSUME NEW t, IsSequence(t), NEW p \in 0 .. Len(t), Shows(t, p) # NUL
  PROVE  p + 1 \in 0 .. Len(t) /\ Len(t) \in Nat
<1>1. Len(t) \in Nat
  BY LengthIs
<1>2. p < Len(t)
  BY DEF Shows
<1> QED  BY <1>1, <1>2

\* q is where the run of characters of S from p on ends.
EndsRun(t, p, S, q) ==
  q \in p .. Len(t) /\ Shows(t, q) \notin S /\ \A i \in p .. q - 1 : Shows(t, i) \in S

LEMMA RunsAgree ==
  ASSUME NEW t, NEW p \in Nat, NEW S, NEW q, EndsRun(t, p, S, q), NEW r, EndsRun(t, p, S, r)
  PROVE  q = r
<1>1. q \in Int /\ r \in Int /\ p <= q /\ p <= r
  BY DEF EndsRun
<1>2. ASSUME q < r PROVE FALSE
  <2>1. q \in p .. r - 1
    BY <1>1, <1>2
  <2> QED  BY <2>1 DEF EndsRun
<1>3. ASSUME r < q PROVE FALSE
  <2>1. r \in p .. q - 1
    BY <1>1, <1>3
  <2> QED  BY <2>1 DEF EndsRun
<1> QED  BY <1>1, <1>2, <1>3

LEMMA PastIs ==
  ASSUME NEW t, IsSequence(t), NEW p \in 0 .. Len(t), NEW S, NUL \notin S
  PROVE  EndsRun(t, p, S, Past(t, p, S))
<1> DEFINE E == {q \in p .. Len(t) : Shows(t, q) \notin S}
<1>1. Len(t) \in Nat
  BY LengthIs
<1>2. Shows(t, Len(t)) = NUL
  BY <1>1 DEF Shows
<1>3. Len(t) \in E /\ E \subseteq Nat
  BY <1>1, <1>2
<1> HIDE DEF E
<1>4. PICK q \in E : \A r \in E : q <= r
  BY <1>3, LeastMember
<1> USE DEF E
<1>5. \A i \in p .. q - 1 : Shows(t, i) \in S
  <2> SUFFICES ASSUME NEW i \in p .. q - 1, Shows(t, i) \notin S PROVE FALSE
    OBVIOUS
  <2>1. i \in p .. Len(t) /\ ~(q <= i)
    BY <1>1
  <2>2. i \in E
    BY <2>1
  <2> QED  BY <1>4, <2>1, <2>2
<1>6. EndsRun(t, p, S, q)
  BY <1>4, <1>5 DEF EndsRun
<1>7. Past(t, p, S) = CHOOSE r \in p .. Len(t) : EndsRun(t, p, S, r)
  BY DEF Past, EndsRun
<1> HIDE DEF E
<1> QED  BY <1>6, <1>7 DEF EndsRun

LEMMA PastStays ==
  ASSUME NEW t, IsSequence(t), NEW p \in 0 .. Len(t), NEW S, NUL \notin S, Shows(t, p) \notin S
  PROVE  Past(t, p, S) = p
<1>1. EndsRun(t, p, S, p)
  BY LengthIs DEF EndsRun
<1> QED  BY <1>1, PastIs, RunsAgree

LEMMA PastOver ==
  ASSUME NEW t, IsSequence(t), NEW p \in 0 .. Len(t), NEW S, NUL \notin S,
         NEW r \in p .. Len(t), \A i \in p .. r - 1 : Shows(t, i) \in S
  PROVE  Past(t, p, S) = Past(t, r, S)
<1> DEFINE q == Past(t, r, S)
<1>1. r \in 0 .. Len(t)
  OBVIOUS
<1>2. EndsRun(t, r, S, q)
  BY <1>1, PastIs
<1> HIDE DEF q
<1>3. EndsRun(t, p, S, q)
  <2>1. q \in p .. Len(t) /\ Shows(t, q) \notin S
    BY <1>2 DEF EndsRun
  <2>2. ASSUME NEW i \in p .. q - 1 PROVE Shows(t, i) \in S
    <3>1. i \in p .. r - 1 \/ i \in r .. q - 1
      BY <2>1
    <3> QED  BY <1>2, <3>1 DEF EndsRun
  <2> QED  BY <2>1, <2>2 DEF EndsRun
<1>4. Past(t, p, S) = q
  BY <1>3, PastIs, RunsAgree
<1> QED  BY <1>4 DEF q

LEMMA PastMoves ==
  ASSUME NEW t, IsSequence(t), NEW p \in 0 .. Len(t), NEW S, NUL \notin S, Shows(t, p) \in S
  PROVE  p + 1 \in 0 .. Len(t) /\ Past(t, p, S) = Past(t, p + 1, S)
<1>1. p + 1 \in 0 .. Len(t) /\ Len(t) \in Nat
  BY ShowsWithin
<1>2. \A i \in p .. (p + 1) - 1 : Shows(t, i) \in S
  <2> TAKE i \in p .. (p + 1) - 1
  <2>1. i = p
    OBVIOUS
  <2> QED  BY <2>1
<1>3. p + 1 \in p .. Len(t)
  BY <1>1
<1> QED  BY <1>1, <1>2, <1>3, PastOver

-----------------------------------------------------------------------------
(* What a rule finds: nothing, or something that ends further on. *)

Proper(t, p, r) == r.ok \in BOOLEAN /\ (r.ok => r.next \in p + 1 .. Len(t))

LEMMA GotIs ==
  ASSUME NEW of, NEW next
  PROVE  Got(of, next).ok /\ Got(of, next).of = of /\ Got(of, next).next = next
BY DEF Got

LEMMA FailedIs == Failed.ok = FALSE
BY DEF Failed

LEMMA ProperGot ==
  ASSUME NEW t, NEW p, NEW of, NEW next \in p + 1 .. Len(t)
  PROVE  Proper(t, p, Got(of, next))
BY GotIs DEF Proper, Got

LEMMA ProperFailed == ASSUME NEW t, NEW p PROVE Proper(t, p, Failed)
BY FailedIs DEF Proper

LEMMA LiteralProper ==
  ASSUME NEW t, IsSequence(t), NEW p \in 0 .. Len(t), Shows(t, p) \in DOMAIN Literals
  PROVE  Proper(t, p, LiteralAt(t, p))
<1> DEFINE word == Literals[Shows(t, p)]
           rest == word[2]
<1>1. Len(t) \in Nat
  BY LengthIs
<1>2. LiteralAt(t, p) = IF \A i \in DOMAIN rest : Shows(t, p + i) = rest[i]
                          THEN Got(Value(word[1]), p + 1 + Len(rest)) ELSE Failed
  BY DEF LiteralAt
<1>3. /\ Len(rest) \in Nat /\ Len(rest) >= 1 /\ DOMAIN rest = 1 .. Len(rest)
      /\ rest[Len(rest)] # NUL
  <2>1. Shows(t, p) = "n" \/ Shows(t, p) = "t" \/ Shows(t, p) = "f"
    BY DEF Literals
  <2>2. CASE Shows(t, p) = "n"
    <3>1. rest = <<"u", "l", "l">>
      BY <2>2 DEF Literals
    <3> HIDE DEF rest
    <3> QED  BY <3>1 DEF NUL
  <2>3. CASE Shows(t, p) = "t"
    <3>1. rest = <<"r", "u", "e">>
      BY <2>3 DEF Literals
    <3> HIDE DEF rest
    <3> QED  BY <3>1 DEF NUL
  <2>4. CASE Shows(t, p) = "f"
    <3>1. rest = <<"a", "l", "s", "e">>
      BY <2>4 DEF Literals
    <3> HIDE DEF rest
    <3> QED  BY <3>1 DEF NUL
  <2> QED  BY <2>1, <2>2, <2>3, <2>4
<1> HIDE DEF word, rest
<1>4. CASE \A i \in DOMAIN rest : Shows(t, p + i) = rest[i]
  <2>1. Shows(t, p + Len(rest)) # NUL
    BY <1>3, <1>4
  <2>2. p + Len(rest) < Len(t)
    BY <2>1 DEF Shows
  <2>3. p + 1 + Len(rest) \in p + 1 .. Len(t)
    BY <1>1, <1>3, <2>2
  <2> QED  BY <1>2, <1>4, <2>3, ProperGot
<1>5. CASE ~\A i \in DOMAIN rest : Shows(t, p + i) = rest[i]
  BY <1>2, <1>5, ProperFailed
<1> QED  BY <1>4, <1>5

Decimal == Range(Digits)

LEMMA CharactersAre ==
  /\ NUL \notin Blanks /\ NUL \notin Decimal
  /\ "0" \in Decimal
  /\ Decimal = {"0", "1", "2", "3", "4", "5", "6", "7", "8", "9"}
<1>1. Decimal = {"0", "1", "2", "3", "4", "5", "6", "7", "8", "9"}
  <2>1. DOMAIN Digits = 1 .. 10
    BY DEF Digits
  <2>2. ASSUME NEW d \in Decimal PROVE d \in {"0", "1", "2", "3", "4", "5", "6", "7", "8", "9"}
    <3>1. PICK i \in 1 .. 10 : d = Digits[i]
      BY <2>1 DEF Decimal, Range
    <3> QED  BY <3>1 DEF Digits
  <2>3. ASSUME NEW i \in 1 .. 10 PROVE Digits[i] \in Decimal
    BY <2>1 DEF Decimal, Range
  <2>4. \A d \in {"0", "1", "2", "3", "4", "5", "6", "7", "8", "9"} : \E i \in 1 .. 10 : d = Digits[i]
    <3>1. /\ Digits[1] = "0" /\ Digits[2] = "1" /\ Digits[3] = "2" /\ Digits[4] = "3"
          /\ Digits[5] = "4" /\ Digits[6] = "5" /\ Digits[7] = "6" /\ Digits[8] = "7"
          /\ Digits[9] = "8" /\ Digits[10] = "9"
      BY DEF Digits
    <3> QED  BY <3>1
  <2>5. {"0", "1", "2", "3", "4", "5", "6", "7", "8", "9"} \subseteq Decimal
    BY <2>3, <2>4
  <2> QED  BY <2>2, <2>5
<1> QED  BY <1>1 DEF NUL, Blanks

LEMMA CharacterProper ==
  ASSUME NEW t, IsSequence(t), NEW p \in 0 .. Len(t)
  PROVE  /\ Proper(t, p, CharacterAt(t, p))
         /\ CharacterAt(t, p).ok => IsSequence(CharacterAt(t, p).of)
<1> DEFINE c == CharacterAt(t, p)
<1>1. Len(t) \in Nat
  BY LengthIs
<1>2. \A k \in 0 .. 11 : Shows(t, p + k) # NUL => p + k + 1 \in p + 1 .. Len(t)
  BY <1>1 DEF Shows
<1>3. /\ \A e : IsSequence(<<e>>)
      /\ \A e, f : IsSequence(<<e>> \o [i \in 1 .. 4 |-> f[i]])
      /\ \A e, f : IsSequence(<<e>> \o [i \in 1 .. 8 |-> f[i]])
  <2>1. ASSUME NEW e PROVE IsSequence(<<e>>)
    <3>1. <<e>> \in Seq({e})
      OBVIOUS
    <3> QED  BY <3>1 DEF IsSequence
  <2>2. ASSUME NEW f, NEW n \in {4, 8} PROVE IsSequence([i \in 1 .. n |-> f[i]])
    <3>1. [i \in 1 .. n |-> f[i]] \in Seq({f[i] : i \in 1 .. n})
      OBVIOUS
    <3> QED  BY <3>1 DEF IsSequence
  <2>3. ASSUME NEW e, NEW f, NEW n \in {4, 8} PROVE IsSequence(<<e>> \o [i \in 1 .. n |-> f[i]])
    BY <2>1, <2>2, Concatenated
  <2> QED  BY <2>1, <2>3
<1>4. \A e, q : IsSequence(<<e>> \o UnitDigits(t, q)) /\ IsSequence(<<e>> \o PairDigits(t, q))
  <2> TAKE e, q
  <2> DEFINE f == [i \in 1 .. 8 |-> Shows(t, q + 1 + i)]
             g == [i \in 1 .. 8 |-> Shows(t, q + (IF i <= 4 THEN 1 ELSE 3) + i)]
  <2>1. UnitDigits(t, q) = [i \in 1 .. 4 |-> f[i]] /\ PairDigits(t, q) = [i \in 1 .. 8 |-> g[i]]
    BY DEF UnitDigits, PairDigits
  <2> QED  BY <1>3, <2>1
<1>5. NUL \notin Escapes /\ NUL \notin HexDigits
  BY CharactersAre DEF NUL, Escapes, Escape, HexDigits, Decimal
<1>6. CASE Shows(t, p) \notin {"\"", "\\", NUL} \cup Controls
  <2>1. c = Got(<<Shows(t, p)>>, p + 1)
    BY <1>6 DEF CharacterAt
  <2>2. p + 1 \in p + 1 .. Len(t)
    <3>1. Shows(t, p) # NUL
      BY <1>6
    <3> QED  BY <3>1, ShowsWithin
  <2> QED  BY <1>3, <2>1, <2>2, ProperGot, GotIs
<1>7. CASE Shows(t, p) = "\\" /\ Shows(t, p + 1) \in Escapes
  <2>1. c = Got(<<Escaped(Shows(t, p + 1))>>, p + 2)
    BY <1>7 DEF CharacterAt
  <2>2. p + 2 \in p + 1 .. Len(t)
    BY <1>2, <1>5, <1>7
  <2> QED  BY <1>3, <2>1, <2>2, ProperGot, GotIs
<1>8. CASE /\ Shows(t, p) \in {"\"", "\\", NUL} \cup Controls
           /\ ~(Shows(t, p) = "\\" /\ Shows(t, p + 1) \in Escapes)
           /\ Unit(t, p) /\ ~HighSurrogate(UnitDigits(t, p))
  <2>1. c = Got(<<"\\u">> \o UnitDigits(t, p), p + 6)
    BY <1>8 DEF CharacterAt
  <2>2. Shows(t, p + 5) # NUL
    BY <1>5, <1>8 DEF Unit
  <2>3. p + 6 \in p + 1 .. Len(t)
    BY <1>2, <2>2
  <2> QED  BY <1>4, <2>1, <2>3, ProperGot, GotIs
<1>9. CASE /\ Shows(t, p) \in {"\"", "\\", NUL} \cup Controls
           /\ ~(Shows(t, p) = "\\" /\ Shows(t, p + 1) \in Escapes)
           /\ ~(Unit(t, p) /\ ~HighSurrogate(UnitDigits(t, p)))
           /\ Unit(t, p) /\ Unit(t, p + 6) /\ LowSurrogate(UnitDigits(t, p + 6))
  <2>1. c = Got(<<"\\u">> \o PairDigits(t, p), p + 12)
    BY <1>9 DEF CharacterAt
  <2>2. Shows(t, p + 11) # NUL
    <3>1. Shows(t, (p + 6) + 5) \in HexDigits
      BY <1>9 DEF Unit
    <3>2. (p + 6) + 5 = p + 11
      OBVIOUS
    <3> QED  BY <1>5, <3>1, <3>2
  <2>3. p + 12 \in p + 1 .. Len(t)
    BY <1>2, <2>2
  <2> QED  BY <1>4, <2>1, <2>3, ProperGot, GotIs
<1>10. CASE /\ Shows(t, p) \in {"\"", "\\", NUL} \cup Controls
            /\ ~(Shows(t, p) = "\\" /\ Shows(t, p + 1) \in Escapes)
            /\ ~(Unit(t, p) /\ ~HighSurrogate(UnitDigits(t, p)))
            /\ ~(Unit(t, p) /\ Unit(t, p + 6) /\ LowSurrogate(UnitDigits(t, p + 6)))
  <2>1. c = Failed
    BY <1>10 DEF CharacterAt
  <2> QED  BY <2>1, ProperFailed, FailedIs
<1> QED  BY <1>6, <1>7, <1>8, <1>9, <1>10

\* The parts of a number.
NumberFirst(t, p) == IF Shows(t, p) = "-" THEN p + 1 ELSE p
NumberWhole(t, p) ==
  LET first == NumberFirst(t, p) IN
  IF Shows(t, first) = "0" THEN first + 1 ELSE Past(t, first, Decimal)
NumberFraction(t, whole) == IF Shows(t, whole) = "." THEN Past(t, whole + 1, Decimal) ELSE whole
NumberExponent(t, fraction) ==
  IF Shows(t, fraction + 1) \in {"+", "-"} THEN fraction + 2 ELSE fraction + 1
NumberEnd(t, fraction) ==
  IF Shows(t, fraction) \in {"e", "E"} THEN Past(t, NumberExponent(t, fraction), Decimal) ELSE fraction

NumberBad(t, p, whole, fraction) ==
  LET exponent == NumberExponent(t, fraction)
      end == NumberEnd(t, fraction)
      power == Shows(t, fraction) \in {"e", "E"} IN
  \/ whole = NumberFirst(t, p)
  \/ Shows(t, whole) = "." /\ fraction = whole + 1
  \/ power /\ end = exponent
  \/ /\ power /\ Shows(t, fraction + 1) # "-"
     /\ TooGreat(t, exponent, end, IF Shows(t, whole) = "." THEN fraction - whole - 1 ELSE 0)

Limit(t, p) == IF Shows(t, p) = "-" THEN MaxInt + 1 ELSE MaxUint
Signed(t, p, amount) == IF Shows(t, p) = "-" THEN -amount ELSE amount
NumberValue(t, p, whole, fraction) ==
  LET amount == Amount(t, NumberFirst(t, p), whole) IN
  IF Shows(t, whole) = "." \/ Shows(t, fraction) \in {"e", "E"} THEN Value("double")
  ELSE IF amount > Limit(t, p) THEN Value("wide")
  ELSE IntValue(Signed(t, p, amount))

LEMMA NumberIs ==
  ASSUME NEW t, NEW p
  PROVE  LET whole == NumberWhole(t, p)
             fraction == NumberFraction(t, whole) IN
         NumberAt(t, p) = IF NumberBad(t, p, whole, fraction) THEN Failed
                          ELSE Got(NumberValue(t, p, whole, fraction), NumberEnd(t, fraction))
BY DEF NumberAt, NumberWhole, NumberFirst, NumberFraction, NumberExponent, NumberEnd, NumberBad,
       NumberValue, Limit, Signed, Decimal

LEMMA NumberPlaces ==
  ASSUME NEW t, IsSequence(t), NEW p \in 0 .. Len(t)
  PROVE  LET first == NumberFirst(t, p)
             whole == NumberWhole(t, p)
             fraction == NumberFraction(t, whole)
             exponent == NumberExponent(t, fraction)
             end == NumberEnd(t, fraction) IN
         /\ first \in p .. Len(t) /\ whole \in first .. Len(t) /\ fraction \in whole .. Len(t)
         /\ end \in fraction .. Len(t)
         /\ Shows(t, whole) = "." => whole + 1 \in 0 .. Len(t) /\ fraction \in whole + 1 .. Len(t)
         /\ Shows(t, fraction) \in {"e", "E"} =>
              exponent \in fraction + 1 .. Len(t) /\ end \in exponent .. Len(t)
<1> DEFINE first == NumberFirst(t, p)
           whole == NumberWhole(t, p)
           fraction == NumberFraction(t, whole)
           exponent == NumberExponent(t, fraction)
           end == NumberEnd(t, fraction)
<1>0. Len(t) \in Nat /\ NUL \notin Decimal /\ NUL \notin {"-", "0", ".", "e", "E", "+"}
  BY LengthIs, CharactersAre DEF NUL
<1>1. first \in p .. Len(t) /\ first \in 0 .. Len(t)
  <2>1. CASE Shows(t, p) = "-"
    <3>1. p + 1 \in 0 .. Len(t)
      BY <1>0, <2>1, ShowsWithin
    <3> QED  BY <2>1, <3>1 DEF NumberFirst
  <2>2. CASE Shows(t, p) # "-"
    BY <1>0, <2>2 DEF NumberFirst
  <2> QED  BY <2>1, <2>2
<1>2. whole = IF Shows(t, first) = "0" THEN first + 1 ELSE Past(t, first, Decimal)
  BY DEF NumberWhole
<1>3. fraction = IF Shows(t, whole) = "." THEN Past(t, whole + 1, Decimal) ELSE whole
  BY DEF NumberFraction
<1>4. exponent = IF Shows(t, fraction + 1) \in {"+", "-"} THEN fraction + 2 ELSE fraction + 1
  BY DEF NumberExponent
<1>5. end = IF Shows(t, fraction) \in {"e", "E"} THEN Past(t, exponent, Decimal) ELSE fraction
  BY DEF NumberEnd
<1> HIDE DEF first, whole, fraction, exponent, end
<1>6. whole \in first .. Len(t) /\ whole \in 0 .. Len(t)
  <2>1. CASE Shows(t, first) = "0"
    <3>1. first + 1 \in 0 .. Len(t)
      BY <1>0, <1>1, <2>1, ShowsWithin
    <3> QED  BY <1>1, <1>2, <2>1, <3>1
  <2>2. CASE Shows(t, first) # "0"
    <3>1. EndsRun(t, first, Decimal, Past(t, first, Decimal))
      BY <1>0, <1>1, PastIs
    <3> QED  BY <1>1, <1>2, <2>2, <3>1 DEF EndsRun
  <2> QED  BY <2>1, <2>2
<1>7. /\ fraction \in whole .. Len(t) /\ fraction \in 0 .. Len(t)
      /\ Shows(t, whole) = "." => whole + 1 \in 0 .. Len(t) /\ fraction \in whole + 1 .. Len(t)
  <2>1. CASE Shows(t, whole) = "."
    <3>1. whole + 1 \in 0 .. Len(t)
      BY <1>0, <1>6, <2>1, ShowsWithin
    <3>2. EndsRun(t, whole + 1, Decimal, Past(t, whole + 1, Decimal))
      BY <1>0, <3>1, PastIs
    <3>3. fraction \in whole + 1 .. Len(t)
      BY <1>3, <2>1, <3>2 DEF EndsRun
    <3> QED  BY <1>6, <3>1, <3>3
  <2>2. CASE Shows(t, whole) # "."
    BY <1>0, <1>3, <1>6, <2>2
  <2> QED  BY <2>1, <2>2
<1>8. /\ end \in fraction .. Len(t)
      /\ Shows(t, fraction) \in {"e", "E"} =>
           exponent \in fraction + 1 .. Len(t) /\ end \in exponent .. Len(t)
  <2>1. CASE Shows(t, fraction) \in {"e", "E"}
    <3>1. fraction + 1 \in 0 .. Len(t)
      BY <1>0, <1>7, <2>1, ShowsWithin
    <3>2. exponent \in 0 .. Len(t) /\ exponent \in fraction + 1 .. Len(t)
      <4>1. CASE Shows(t, fraction + 1) \in {"+", "-"}
        <5>1. (fraction + 1) + 1 \in 0 .. Len(t)
          BY <1>0, <3>1, <4>1, ShowsWithin
        <5> QED  BY <1>4, <1>7, <4>1, <5>1
      <4>2. CASE Shows(t, fraction + 1) \notin {"+", "-"}
        BY <1>4, <1>7, <3>1, <4>2
      <4> QED  BY <4>1, <4>2
    <3>3. EndsRun(t, exponent, Decimal, Past(t, exponent, Decimal))
      BY <1>0, <3>2, PastIs
    <3>4. end \in exponent .. Len(t)
      BY <1>5, <2>1, <3>3 DEF EndsRun
    <3> QED  BY <1>7, <3>2, <3>4
  <2>2. CASE Shows(t, fraction) \notin {"e", "E"}
    BY <1>0, <1>5, <1>7, <2>2
  <2> QED  BY <2>1, <2>2
<1> QED  BY <1>1, <1>6, <1>7, <1>8 DEF first, whole, fraction, exponent, end

LEMMA NumberProper ==
  ASSUME NEW t, IsSequence(t), NEW p \in 0 .. Len(t)
  PROVE  Proper(t, p, NumberAt(t, p))
<1> DEFINE whole == NumberWhole(t, p)
           fraction == NumberFraction(t, whole)
           end == NumberEnd(t, fraction)
<1>1. NumberAt(t, p) = IF NumberBad(t, p, whole, fraction) THEN Failed
                       ELSE Got(NumberValue(t, p, whole, fraction), end)
  BY NumberIs
<1>2. /\ NumberFirst(t, p) \in p .. Len(t) /\ whole \in NumberFirst(t, p) .. Len(t)
      /\ fraction \in whole .. Len(t) /\ end \in fraction .. Len(t)
  BY NumberPlaces
<1>3. whole = NumberFirst(t, p) => NumberBad(t, p, whole, fraction)
  BY DEF NumberBad
<1> HIDE DEF whole, fraction, end
<1>4. ~NumberBad(t, p, whole, fraction) => end \in p + 1 .. Len(t)
  BY <1>2, <1>3
<1> QED  BY <1>1, <1>4, ProperGot, ProperFailed

-----------------------------------------------------------------------------
(* The rules that refer to each other have a reading: what stands at a     *)
(* position is settled by what stands behind it.                           *)

\* What a reading says from position p on.
Row(t, p, r) == Proper(t, p, r) /\ (r.ok => IsSequence(r.of))
Settled(t, g, p) == \A q \in p .. Len(t), rule \in Rules : Row(t, q, g[q][rule])
Alike(t, g, h, p) == \A q \in p .. Len(t) : g[q] = h[q]

LEMMA FurtherProper ==
  ASSUME NEW t, NEW p \in Nat, NEW q \in Nat, p <= q, NEW r, Proper(t, q, r)
  PROVE  Proper(t, p, r)
BY DEF Proper

LEMMA RowAt ==
  ASSUME NEW t, NEW g, NEW p, Settled(t, g, p), NEW q \in p .. Len(t), NEW rule \in Rules
  PROVE  Row(t, q, g[q][rule])
BY DEF Settled

LEMMA AlikeAt ==
  ASSUME NEW t, NEW g, NEW h, NEW p, Alike(t, g, h, p), NEW q \in p .. Len(t)
  PROVE  g[q] = h[q]
BY DEF Alike

LEMMA FurtherSettled ==
  ASSUME NEW t, NEW g, NEW p \in Nat, Settled(t, g, p), NEW q \in Nat, p <= q
  PROVE  Settled(t, g, q)
BY DEF Settled

LEMMA FurtherAlike ==
  ASSUME NEW t, NEW g, NEW h, NEW p \in Nat, Alike(t, g, h, p), NEW q \in Nat, p <= q
  PROVE  Alike(t, g, h, q)
BY DEF Alike

LEMMA ThenProper ==
  ASSUME NEW t, NEW p \in Nat, NEW s, IsSequence(s), NEW q \in Nat, p <= q, NEW r, Row(t, q, r)
  PROVE  Row(t, p, Then(s, r))
<1>1. CASE r.ok
  <2>1. Then(s, r) = Got(s \o r.of, r.next) /\ r.next \in p + 1 .. Len(t)
    BY <1>1 DEF Then, Row, Proper
  <2>2. IsSequence(s \o r.of)
    BY <1>1, Concatenated DEF Row
  <2> QED  BY <2>1, <2>2, ProperGot, GotIs DEF Row
<1>2. CASE ~r.ok
  BY <1>2, ProperFailed, FailedIs DEF Then, Row
<1> QED  BY <1>1, <1>2

LEMMA AsTextProper ==
  ASSUME NEW t, NEW p \in Nat, NEW q \in Nat, p <= q, NEW r, Row(t, q, r)
  PROVE  Proper(t, p, AsText(r))
<1>1. CASE r.ok
  <2>1. r.next \in p + 1 .. Len(t)
    BY <1>1 DEF Row, Proper
  <2> QED  BY <1>1, <2>1, ProperGot DEF AsText
<1>2. CASE ~r.ok
  BY <1>2, ProperFailed DEF AsText
<1> QED  BY <1>1, <1>2

LEMMA AsProper ==
  ASSUME NEW t, NEW p \in Nat, NEW q \in Nat, p <= q, NEW r, Row(t, q, r), NEW type
  PROVE  Proper(t, p, As(type, r))
<1>1. CASE r.ok
  <2>1. r.next \in p + 1 .. Len(t)
    BY <1>1 DEF Row, Proper
  <2> QED  BY <1>1, <2>1, ProperGot DEF As
<1>2. CASE ~r.ok
  BY <1>2, ProperFailed DEF As
<1> QED  BY <1>1, <1>2

LEMMA BlanksPassed ==
  ASSUME NEW t, IsSequence(t), NEW p \in 0 .. Len(t)
  PROVE  /\ Past(t, p, Blanks) \in p .. Len(t) /\ Past(t, p, Blanks) \in 0 .. Len(t)
         /\ Shows(t, Past(t, p, Blanks)) \notin Blanks
<1>1. EndsRun(t, p, Blanks, Past(t, p, Blanks))
  BY PastIs, CharactersAre
<1> QED  BY <1>1 DEF EndsRun

LEMMA BehindBlanks ==
  ASSUME NEW t, IsSequence(t), NEW p \in 0 .. Len(t), Shows(t, Past(t, p, Blanks)) # NUL
  PROVE  LET q == Past(t, p, Blanks) + 1 IN
         q \in 0 .. Len(t) /\ q \in p + 1 .. Len(t)
<1>1. Past(t, p, Blanks) \in p .. Len(t) /\ Past(t, p, Blanks) \in 0 .. Len(t)
  BY BlanksPassed
<1>2. Past(t, p, Blanks) + 1 \in 0 .. Len(t)
  BY <1>1, ShowsWithin
<1> QED  BY <1>1, <1>2

LEMMA EmptyRow ==
  ASSUME NEW t, NEW p, NEW next \in p + 1 .. Len(t)
  PROVE  Row(t, p, Got(<<>>, next))
BY ProperGot, GotIs, EmptyIs DEF Row

LEMMA FailedRow == ASSUME NEW t, NEW p PROVE Row(t, p, Failed)
BY ProperFailed, FailedIs DEF Row

LEMMA NestedSettled ==
  ASSUME NEW t, IsSequence(t), NEW p \in 0 .. Len(t), NEW type \in {"array", "object"},
         NEW g, Settled(t, g, p), NEW h, Alike(t, g, h, p)
  PROVE  /\ Proper(t, p, NestedAt(t, g, p, type))
         /\ NestedAt(t, h, p, type) = NestedAt(t, g, p, type)
<1> DEFINE q == Past(t, p, Blanks)
           inner == IF Shows(t, q) = Close[type] THEN Got(<<>>, q + 1) ELSE g[p][type]
<1>1. NestedAt(t, g, p, type) = As(type, inner)
  BY DEF NestedAt
<1>2. p \in p .. Len(t) /\ type \in Rules /\ p \in Nat
  BY LengthIs DEF Rules
<1>3. NestedAt(t, h, p, type) = As(type, inner)
  BY <1>2, AlikeAt DEF NestedAt
<1>4. Row(t, p, inner)
  <2>1. CASE Shows(t, q) = Close[type]
    <3>1. Shows(t, q) # NUL
      <4>1. type = "array" \/ type = "object"
        OBVIOUS
      <4>2. Close["array"] = "]" /\ Close["object"] = "}"
        BY DEF Close
      <4> QED  BY <2>1, <4>1, <4>2 DEF NUL
    <3>2. q + 1 \in p + 1 .. Len(t)
      BY <3>1, BehindBlanks
    <3> QED  BY <2>1, <3>2, EmptyRow
  <2>2. CASE Shows(t, q) # Close[type]
    BY <1>2, <2>2, RowAt
  <2> QED  BY <2>1, <2>2
<1> HIDE DEF inner
<1>5. Proper(t, p, As(type, inner))
  BY <1>2, <1>4, AsProper
<1> QED  BY <1>1, <1>3, <1>5

LEMMA ValueSettled ==
  ASSUME NEW t, IsSequence(t), NEW p \in 0 .. Len(t),
         NEW g, Settled(t, g, p + 1), NEW h, Alike(t, g, h, p + 1)
  PROVE  Proper(t, p, ValueAt(t, g, p)) /\ ValueAt(t, h, p) = ValueAt(t, g, p)
<1> DEFINE q == Past(t, p, Blanks)
           c == Shows(t, q)
<1>1. /\ ValueAt(t, g, p) = IF c = "{" THEN NestedAt(t, g, q + 1, "object")
                            ELSE IF c = "[" THEN NestedAt(t, g, q + 1, "array")
                            ELSE IF c = "\"" THEN AsText(g[q + 1]["text"])
                            ELSE IF c \in DOMAIN Literals THEN LiteralAt(t, q)
                            ELSE NumberAt(t, q)
      /\ ValueAt(t, h, p) = IF c = "{" THEN NestedAt(t, h, q + 1, "object")
                            ELSE IF c = "[" THEN NestedAt(t, h, q + 1, "array")
                            ELSE IF c = "\"" THEN AsText(h[q + 1]["text"])
                            ELSE IF c \in DOMAIN Literals THEN LiteralAt(t, q)
                            ELSE NumberAt(t, q)
  BY DEF ValueAt
<1>2. q \in p .. Len(t) /\ q \in 0 .. Len(t) /\ p \in Nat /\ q \in Nat /\ p <= q /\ p + 1 \in Nat
  BY BlanksPassed, LengthIs
<1>3. c \in {"{", "[", "\""} => /\ q + 1 \in 0 .. Len(t) /\ q + 1 \in p + 1 .. Len(t)
                                /\ q + 1 \in Nat /\ p + 1 <= q + 1 /\ p <= q + 1
  <2>1. c \in {"{", "[", "\""} => c # NUL
    BY DEF NUL
  <2>2. c # NUL => q + 1 \in 0 .. Len(t) /\ q + 1 \in p + 1 .. Len(t)
    BY BehindBlanks
  <2> HIDE DEF q, c
  <2>3. q + 1 \in Nat /\ p + 1 <= q + 1 /\ p <= q + 1
    BY <1>2
  <2> QED  BY <2>1, <2>2, <2>3
<1> HIDE DEF q, c
<1>4. ASSUME c \in {"{", "["}, NEW type \in {"array", "object"}
      PROVE  /\ Proper(t, p, NestedAt(t, g, q + 1, type))
             /\ NestedAt(t, h, q + 1, type) = NestedAt(t, g, q + 1, type)
  <2>1. Settled(t, g, q + 1) /\ Alike(t, g, h, q + 1)
    BY <1>2, <1>3, <1>4, FurtherSettled, FurtherAlike
  <2>2. /\ Proper(t, q + 1, NestedAt(t, g, q + 1, type))
        /\ NestedAt(t, h, q + 1, type) = NestedAt(t, g, q + 1, type)
    BY <1>3, <1>4, <2>1, NestedSettled
  <2>3. Proper(t, p, NestedAt(t, g, q + 1, type))
    BY <1>2, <1>3, <1>4, <2>2, FurtherProper
  <2> QED  BY <2>2, <2>3
<1>5. CASE c = "{"
  BY <1>1, <1>4, <1>5
<1>6. CASE c = "["
  BY <1>1, <1>4, <1>6
<1>7. CASE c = "\""
  <2>0. "text" \in Rules /\ q + 1 \in p + 1 .. Len(t)
    BY <1>3, <1>7 DEF Rules
  <2>1. g[q + 1] = h[q + 1] /\ Row(t, q + 1, g[q + 1]["text"])
    BY <2>0, AlikeAt, RowAt
  <2>2. Proper(t, p, AsText(g[q + 1]["text"]))
    BY <1>2, <1>3, <1>7, <2>1, AsTextProper
  <2> QED  BY <1>1, <1>7, <2>1, <2>2
<1>8. CASE c \notin {"{", "[", "\""}
  <2>1. ValueAt(t, h, p) = ValueAt(t, g, p)
    <3>1. c # "{" /\ c # "[" /\ c # "\""
      BY <1>8
    <3>2. CASE c \in DOMAIN Literals
      BY <1>1, <3>1, <3>2
    <3>3. CASE c \notin DOMAIN Literals
      BY <1>1, <3>1, <3>3
    <3> QED  BY <3>2, <3>3
  <2>2. Proper(t, q, ValueAt(t, g, p))
    BY <1>1, <1>2, <1>8, LiteralProper, NumberProper DEF c
  <2> QED  BY <1>2, <2>1, <2>2, FurtherProper
<1> QED  BY <1>5, <1>6, <1>7, <1>8

LEMMA MoreSettled ==
  ASSUME NEW t, IsSequence(t), NEW p \in 0 .. Len(t), NEW type \in {"array", "object"},
         NEW g, Settled(t, g, p + 1), NEW h, Alike(t, g, h, p + 1)
  PROVE  /\ Row(t, p, MoreAt(t, g, p, type))
         /\ MoreAt(t, h, p, type) = MoreAt(t, g, p, type)
<1> DEFINE q == Past(t, p, Blanks)
           c == Shows(t, q)
<1>1. /\ MoreAt(t, g, p, type) = IF c = "," THEN g[q + 1][type]
                                 ELSE IF c = Close[type] THEN Got(<<>>, q + 1) ELSE Failed
      /\ MoreAt(t, h, p, type) = IF c = "," THEN h[q + 1][type]
                                 ELSE IF c = Close[type] THEN Got(<<>>, q + 1) ELSE Failed
  BY DEF MoreAt
<1>2. Close[type] # NUL /\ "," # NUL /\ type \in Rules
  <2>1. type = "array" \/ type = "object"
    OBVIOUS
  <2>2. Close["array"] = "]" /\ Close["object"] = "}"
    BY DEF Close
  <2> QED  BY <2>1, <2>2 DEF NUL, Rules
<1>3. c # NUL => q + 1 \in p + 1 .. Len(t)
  BY BehindBlanks
<1>4. p \in Nat /\ q \in p .. Len(t)
  BY BlanksPassed, LengthIs
<1> HIDE DEF q, c
<1>5. CASE c = ","
  <2>0. q + 1 \in p + 1 .. Len(t) /\ type \in Rules
    BY <1>2, <1>3, <1>5
  <2>1. g[q + 1] = h[q + 1] /\ Row(t, q + 1, g[q + 1][type])
    BY <2>0, AlikeAt, RowAt
  <2>2. Row(t, p, g[q + 1][type])
    <3>1. p \in Nat /\ q + 1 \in Nat /\ p <= q + 1
      BY <1>4
    <3> QED  BY <2>1, <3>1, FurtherProper DEF Row
  <2> QED  BY <1>1, <1>5, <2>1, <2>2
<1>6. CASE c # "," /\ c = Close[type]
  <2>1. Row(t, p, Got(<<>>, q + 1))
    BY <1>2, <1>3, <1>6, EmptyRow
  <2> QED  BY <1>1, <1>6, <2>1
<1>7. CASE c # "," /\ c # Close[type]
  BY <1>1, <1>7, FailedRow
<1> QED  BY <1>5, <1>6, <1>7

LEMMA Alone == ASSUME NEW v PROVE IsSequence(<<v>>) /\ Len(<<v>>) = 1
<1>1. <<v>> \in Seq({v})
  OBVIOUS
<1> QED  BY <1>1 DEF IsSequence

LEMMA WithSettled ==
  ASSUME NEW t, IsSequence(t), NEW p \in 0 .. Len(t), NEW type \in {"array", "object"},
         NEW g, Settled(t, g, p + 1), NEW h, Alike(t, g, h, p + 1), NEW v, Proper(t, p, v)
  PROVE  Row(t, p, With(t, g, v, type)) /\ With(t, h, v, type) = With(t, g, v, type)
<1>1. CASE v.ok
  <2>1. v.next \in 0 .. Len(t) /\ v.next \in Nat /\ p \in Nat /\ p <= v.next /\ p + 1 <= v.next + 1
        /\ p + 1 \in Nat /\ v.next + 1 \in Nat
    BY <1>1 DEF Proper
  <2>2. Settled(t, g, v.next + 1) /\ Alike(t, g, h, v.next + 1)
    BY <2>1, FurtherSettled, FurtherAlike
  <2>3. /\ Row(t, v.next, MoreAt(t, g, v.next, type))
        /\ MoreAt(t, h, v.next, type) = MoreAt(t, g, v.next, type)
    BY <2>1, <2>2, MoreSettled
  <2>4. Row(t, p, Then(<<v.of>>, MoreAt(t, g, v.next, type)))
    BY <2>1, <2>3, Alone, ThenProper
  <2> QED  BY <1>1, <2>3, <2>4 DEF With
<1>2. CASE ~v.ok
  BY <1>2, FailedRow DEF With
<1> QED  BY <1>1, <1>2

LEMMA NamedSettled ==
  ASSUME NEW t, IsSequence(t), NEW p \in 0 .. Len(t),
         NEW g, Settled(t, g, p + 1), NEW h, Alike(t, g, h, p + 1), NEW name, Proper(t, p, name)
  PROVE  Row(t, p, NamedAt(t, g, name)) /\ NamedAt(t, h, name) = NamedAt(t, g, name)
<1> DEFINE q == Past(t, name.next, Blanks)
<1>1. CASE name.ok /\ Shows(t, q) = ":"
  <2>1. name.next \in 0 .. Len(t) /\ name.next \in p + 1 .. Len(t)
    BY <1>1 DEF Proper
  <2>2. q + 1 \in 0 .. Len(t) /\ q + 1 \in name.next + 1 .. Len(t)
    <3>1. Shows(t, q) # NUL
      BY <1>1 DEF NUL
    <3> QED  BY <2>1, <3>1, BehindBlanks
  <2> DEFINE at == q + 1
  <2>3. NamedAt(t, g, name) = Then(<<name.of>>, With(t, g, ValueAt(t, g, at), "object"))
        /\ NamedAt(t, h, name) = Then(<<name.of>>, With(t, h, ValueAt(t, h, at), "object"))
    BY <1>1 DEF NamedAt
  <2> HIDE DEF q
  <2>4. at \in 0 .. Len(t) /\ at \in Nat /\ p \in Nat /\ p <= at /\ p + 1 \in Nat /\ at + 1 \in Nat
        /\ p + 1 <= at + 1
    BY <2>1, <2>2
  <2> HIDE DEF at
  <2>5. Settled(t, g, at + 1) /\ Alike(t, g, h, at + 1)
    BY <2>4, FurtherSettled, FurtherAlike
  <2>6. Proper(t, at, ValueAt(t, g, at)) /\ ValueAt(t, h, at) = ValueAt(t, g, at)
    BY <2>4, <2>5, ValueSettled
  <2> DEFINE v == ValueAt(t, g, at)
  <2>7. Row(t, at, With(t, g, v, "object")) /\ With(t, h, v, "object") = With(t, g, v, "object")
    <3> HIDE DEF v
    <3>1. Proper(t, at, v)
      BY <2>6 DEF v
    <3> QED  BY <2>4, <2>5, <3>1, WithSettled
  <2>8. Row(t, p, Then(<<name.of>>, With(t, g, v, "object")))
    BY <2>4, <2>7, Alone, ThenProper
  <2> QED  BY <2>3, <2>6, <2>7, <2>8
<1>2. CASE ~(name.ok /\ Shows(t, q) = ":")
  BY <1>2, FailedRow DEF NamedAt
<1> QED  BY <1>1, <1>2

LEMMA MembersSettled ==
  ASSUME NEW t, IsSequence(t), NEW p \in 0 .. Len(t),
         NEW g, Settled(t, g, p + 1), NEW h, Alike(t, g, h, p + 1)
  PROVE  Row(t, p, MembersAt(t, g, p)) /\ MembersAt(t, h, p) = MembersAt(t, g, p)
<1> DEFINE q == Past(t, p, Blanks)
<1>1. CASE Shows(t, q) = "\""
  <2>1. q + 1 \in p + 1 .. Len(t)
    <3>1. Shows(t, q) # NUL
      BY <1>1 DEF NUL
    <3> QED  BY <3>1, BehindBlanks
  <2> DEFINE name == AsText(g[q + 1]["text"])
  <2>2. g[q + 1] = h[q + 1] /\ Row(t, q + 1, g[q + 1]["text"])
    <3>1. "text" \in Rules
      BY DEF Rules
    <3> QED  BY <2>1, <3>1, AlikeAt, RowAt
  <2>3. MembersAt(t, g, p) = NamedAt(t, g, name) /\ MembersAt(t, h, p) = NamedAt(t, h, name)
    BY <1>1, <2>2 DEF MembersAt
  <2>4. Proper(t, p, name)
    <3>1. p \in Nat /\ q + 1 \in Nat /\ p <= q + 1
      BY <2>1, LengthIs
    <3> HIDE DEF q
    <3> QED  BY <2>2, <3>1, AsTextProper
  <2> HIDE DEF name
  <2> QED  BY <2>3, <2>4, NamedSettled
<1>2. CASE Shows(t, q) # "\""
  BY <1>2, FailedRow DEF MembersAt
<1> QED  BY <1>1, <1>2

LEMMA TextSettled ==
  ASSUME NEW t, IsSequence(t), NEW p \in 0 .. Len(t),
         NEW g, Settled(t, g, p + 1), NEW h, Alike(t, g, h, p + 1)
  PROVE  Row(t, p, TextAt(t, g, p)) /\ TextAt(t, h, p) = TextAt(t, g, p)
<1> DEFINE c == CharacterAt(t, p)
<1>1. CASE Shows(t, p) = "\""
  <2>1. TextAt(t, g, p) = Got(<<>>, p + 1) /\ TextAt(t, h, p) = Got(<<>>, p + 1)
    BY <1>1 DEF TextAt
  <2>2. p + 1 \in p + 1 .. Len(t)
    <3>1. Shows(t, p) # NUL
      BY <1>1 DEF NUL
    <3> QED  BY <3>1, ShowsWithin
  <2> QED  BY <2>1, <2>2, EmptyRow
<1>2. CASE Shows(t, p) # "\"" /\ c.ok
  <2>1. /\ TextAt(t, g, p) = Then(c.of, g[c.next]["text"])
        /\ TextAt(t, h, p) = Then(c.of, h[c.next]["text"])
    BY <1>2 DEF TextAt
  <2>2. c.next \in p + 1 .. Len(t) /\ IsSequence(c.of)
    BY <1>2, CharacterProper DEF Proper
  <2>3. g[c.next] = h[c.next] /\ Row(t, c.next, g[c.next]["text"])
    <3>1. "text" \in Rules
      BY DEF Rules
    <3> QED  BY <2>2, <3>1, AlikeAt, RowAt
  <2> HIDE DEF c
  <2>4. p \in Nat /\ c.next \in Nat /\ p <= c.next
    BY <2>2
  <2>5. Row(t, p, Then(c.of, g[c.next]["text"]))
    BY <2>2, <2>3, <2>4, ThenProper
  <2> QED  BY <2>1, <2>3, <2>5
<1>3. CASE Shows(t, p) # "\"" /\ ~c.ok
  <2>1. TextAt(t, g, p) = Failed /\ TextAt(t, h, p) = Failed
    BY <1>3 DEF TextAt
  <2> QED  BY <2>1, FailedRow
<1> QED  BY <1>1, <1>2, <1>3

LEMMA RuleSettled ==
  ASSUME NEW t, IsSequence(t), NEW p \in 0 .. Len(t), NEW rule \in Rules,
         NEW g, Settled(t, g, p + 1), NEW h, Alike(t, g, h, p + 1)
  PROVE  Row(t, p, RuleAt(t, g, p, rule)) /\ RuleAt(t, h, p, rule) = RuleAt(t, g, p, rule)
<1>1. CASE rule = "text"
  BY <1>1, TextSettled DEF RuleAt
<1>2. CASE rule = "array"
  <2> DEFINE v == ValueAt(t, g, p)
  <2>1. Proper(t, p, v) /\ ValueAt(t, h, p) = v
    BY ValueSettled
  <2>2. RuleAt(t, g, p, rule) = With(t, g, v, "array") /\ RuleAt(t, h, p, rule) = With(t, h, v, "array")
    BY <1>2, <2>1 DEF RuleAt
  <2> HIDE DEF v
  <2> QED  BY <2>1, <2>2, WithSettled
<1>3. CASE rule = "object"
  BY <1>3, MembersSettled DEF RuleAt
<1> QED  BY <1>1, <1>2, <1>3 DEF Rules

\* What is settled behind p can be settled at p.
LEMMA ReadingExtends ==
  ASSUME NEW t, IsSequence(t), NEW p \in 0 .. Len(t), NEW g, Settled(t, g, p + 1),
         \A q \in p + 1 .. Len(t) : g[q] = [rule \in Rules |-> RuleAt(t, g, q, rule)]
  PROVE  \E h : /\ Settled(t, h, p)
                /\ \A q \in p .. Len(t) : h[q] = [rule \in Rules |-> RuleAt(t, h, q, rule)]
<1> DEFINE row == [rule \in Rules |-> RuleAt(t, g, p, rule)]
           h == [q \in 0 .. Len(t) |-> IF q = p THEN row ELSE g[q]]
<1>1. h[p] = row /\ \A q \in p + 1 .. Len(t) : q \in 0 .. Len(t) /\ h[q] = g[q]
  OBVIOUS
<1>2. \A q \in p .. Len(t) : q = p \/ q \in p + 1 .. Len(t)
  OBVIOUS
<1>3. \A rule \in Rules : row[rule] = RuleAt(t, g, p, rule)
  OBVIOUS
<1> HIDE DEF h, row
<1>4. ASSUME NEW q \in p .. Len(t), NEW rule \in Rules
      PROVE  RuleAt(t, h, q, rule) = RuleAt(t, g, q, rule) /\ Row(t, q, RuleAt(t, g, q, rule))
  <2>1. q \in 0 .. Len(t) /\ q + 1 \in Nat /\ p + 1 \in Nat /\ p + 1 <= q + 1
    OBVIOUS
  <2>2. Settled(t, g, q + 1)
    BY <2>1, FurtherSettled
  <2>3. Alike(t, g, h, q + 1)
    BY <1>1 DEF Alike
  <2> QED  BY <2>1, <2>2, <2>3, RuleSettled
<1>5. ASSUME NEW q \in p .. Len(t)
      PROVE  h[q] = [rule \in Rules |-> RuleAt(t, h, q, rule)]
  <2>1. h[q] = [rule \in Rules |-> RuleAt(t, g, q, rule)]
    <3>1. CASE q = p
      BY <1>1, <3>1 DEF row
    <3>2. CASE q \in p + 1 .. Len(t)
      BY <1>1, <3>2
    <3> QED  BY <1>2, <3>1, <3>2
  <2>2. [rule \in Rules |-> RuleAt(t, g, q, rule)] = [rule \in Rules |-> RuleAt(t, h, q, rule)]
    BY <1>4
  <2> QED  BY <2>1, <2>2
<1>6. Settled(t, h, p)
  <2>1. ASSUME NEW q \in p .. Len(t), NEW rule \in Rules PROVE Row(t, q, h[q][rule])
    <3>1. h[q][rule] = RuleAt(t, h, q, rule)
      BY <1>5
    <3> QED  BY <1>4, <3>1
  <2> QED  BY <2>1 DEF Settled
<1> QED  BY <1>5, <1>6

LEMMA ReadingExists ==
  ASSUME NEW t, IsSequence(t)
  PROVE  \E g : /\ Settled(t, g, 0)
                /\ \A q \in 0 .. Len(t) : g[q] = [rule \in Rules |-> RuleAt(t, g, q, rule)]
<1> DEFINE Reads(p, g) == /\ Settled(t, g, p)
                          /\ \A q \in p .. Len(t) : g[q] = [rule \in Rules |-> RuleAt(t, g, q, rule)]
           S == {n \in Nat : n <= Len(t) + 1 => \E g : Reads(Len(t) + 1 - n, g)}
<1>0. Len(t) \in Nat
  BY LengthIs
<1>1. 0 \in S
  <2>1. Reads(Len(t) + 1 - 0, <<>>)
    <3>1. \A q \in Len(t) + 1 - 0 .. Len(t) : FALSE
      BY <1>0
    <3> QED  BY <3>1 DEF Settled
  <2> QED  BY <2>1
<1>2. ASSUME NEW n \in Nat, n \in S PROVE n + 1 \in S
  <2>1. CASE n + 1 <= Len(t) + 1
    <3> DEFINE p == Len(t) - n
    <3>1. p \in 0 .. Len(t) /\ Len(t) + 1 - n = p + 1 /\ Len(t) + 1 - (n + 1) = p
          /\ n <= Len(t) + 1
      BY <1>0, <2>1
    <3>2. PICK g : Reads(p + 1, g)
      BY <1>2, <3>1
    <3> HIDE DEF p, Reads
    <3>3. \E h : Reads(p, h)
      BY <3>1, <3>2, ReadingExtends DEF Reads
    <3>4. n + 1 <= Len(t) + 1 => \E h : Reads(Len(t) + 1 - (n + 1), h)
      BY <3>1, <3>3
    <3> QED  BY <1>2, <3>4
  <2>2. CASE ~(n + 1 <= Len(t) + 1)
    BY <2>2
  <2> QED  BY <2>1, <2>2
<1>3. \A n \in Nat : n \in S
  <2> HIDE DEF S
  <2> QED  BY <1>1, <1>2, Induction
<1>4. \E g : Reads(Len(t) + 1 - (Len(t) + 1), g)
  BY <1>0, <1>3
<1>5. Len(t) + 1 - (Len(t) + 1) = 0
  BY <1>0
<1> QED  BY <1>4, <1>5

\* read is the recursive function ReadingOf is defined by.
IsReading(t, read) == read = [p \in 0 .. Len(t) |-> [rule \in Rules |-> RuleAt(t, read, p, rule)]]

\* ReadingOf(t) satisfies the equation it is defined by.
LEMMA ReadingIs ==
  ASSUME NEW t, IsSequence(t)
  PROVE  /\ \A p \in 0 .. Len(t), rule \in Rules :
              ReadingOf(t)[p][rule] = RuleAt(t, ReadingOf(t), p, rule)
         /\ \A p \in 0 .. Len(t), rule \in Rules : Row(t, p, ReadingOf(t)[p][rule])
<1>1. PICK g : /\ Settled(t, g, 0)
               /\ \A q \in 0 .. Len(t) : g[q] = [rule \in Rules |-> RuleAt(t, g, q, rule)]
  BY ReadingExists
<1> DEFINE h == [p \in 0 .. Len(t) |-> [rule \in Rules |-> RuleAt(t, g, p, rule)]]
<1>2. \A q \in 0 .. Len(t) : h[q] = g[q]
  BY <1>1
<1>3. ASSUME NEW p \in 0 .. Len(t), NEW rule \in Rules
      PROVE  RuleAt(t, h, p, rule) = RuleAt(t, g, p, rule) /\ Row(t, p, RuleAt(t, g, p, rule))
  <2> HIDE DEF h
  <2>1. Settled(t, g, p + 1)
    <3>1. 0 \in Nat /\ p + 1 \in Nat /\ 0 <= p + 1
      OBVIOUS
    <3> QED  BY <1>1, <3>1, FurtherSettled
  <2>2. Alike(t, g, h, p + 1)
    BY <1>2 DEF Alike
  <2> QED  BY <2>1, <2>2, RuleSettled
<1>4. IsReading(t, h)
  BY <1>3 DEF IsReading
<1>5. ReadingOf(t) = CHOOSE read : IsReading(t, read)
  BY DEF ReadingOf, IsReading
<1>6. IsReading(t, ReadingOf(t))
  <2> HIDE DEF h
  <2> QED  BY <1>4, <1>5
<1> DEFINE r == ReadingOf(t)
<1>7. ASSUME NEW f, IsReading(t, f)
      PROVE  \A p \in 0 .. Len(t), rule \in Rules : f[p][rule] = RuleAt(t, f, p, rule)
  <2> DEFINE cell(p, rule) == RuleAt(t, f, p, rule)
  <2>1. f = [p \in 0 .. Len(t) |-> [rule \in Rules |-> cell(p, rule)]]
    BY <1>7 DEF IsReading
  <2> HIDE DEF cell
  <2>2. \A p \in 0 .. Len(t), rule \in Rules : f[p][rule] = cell(p, rule)
    BY <2>1
  <2> QED  BY <2>2 DEF cell
<1>8. \A p \in 0 .. Len(t), rule \in Rules : r[p][rule] = RuleAt(t, r, p, rule)
  BY <1>6, <1>7

<1>9. Len(t) \in Nat
  BY LengthIs
<1>10. Settled(t, r, 0)
  <2> DEFINE S == {n \in Nat : n <= Len(t) + 1 => Settled(t, r, Len(t) + 1 - n)}
  <2>1. 0 \in S
    <3>1. \A q \in Len(t) + 1 - 0 .. Len(t) : FALSE
      BY <1>9
    <3> QED  BY <3>1 DEF Settled
  <2>2. ASSUME NEW n \in Nat, n \in S PROVE n + 1 \in S
    <3>1. CASE n + 1 <= Len(t) + 1
      <4> DEFINE p == Len(t) - n
      <4>1. p \in 0 .. Len(t) /\ Len(t) + 1 - n = p + 1 /\ Len(t) + 1 - (n + 1) = p
            /\ n <= Len(t) + 1
        BY <1>9, <3>1
      <4>2. Settled(t, r, p + 1)
        BY <2>2, <4>1
      <4> HIDE DEF p, r
      <4>3. Alike(t, r, r, p + 1)
        BY DEF Alike
      <4>4. \A rule \in Rules : Row(t, p, r[p][rule])
        BY <1>8, <4>1, <4>2, <4>3, RuleSettled
      <4>5. Settled(t, r, p)
        <5>1. ASSUME NEW q \in p .. Len(t), NEW rule \in Rules PROVE Row(t, q, r[q][rule])
          <6>1. q = p \/ q \in p + 1 .. Len(t)
            BY <4>1
          <6> QED  BY <4>2, <4>4, <6>1, RowAt
        <5> QED  BY <5>1 DEF Settled
      <4> QED  BY <4>1, <4>5
    <3>2. CASE ~(n + 1 <= Len(t) + 1)
      BY <3>2
    <3> QED  BY <3>1, <3>2
  <2>3. \A n \in Nat : n \in S
    <3> HIDE DEF S
    <3> QED  BY <2>1, <2>2, Induction
  <2>4. Settled(t, r, Len(t) + 1 - (Len(t) + 1))
    BY <1>9, <2>3
  <2>5. Len(t) + 1 - (Len(t) + 1) = 0
    BY <1>9
  <2> QED  BY <2>4, <2>5
<1>11. ASSUME NEW p \in 0 .. Len(t), NEW rule \in Rules PROVE Row(t, p, r[p][rule])
  BY <1>10, RowAt
<1> QED  BY <1>8, <1>11

Nested(c) == c.fn \in {"object", "array"}
-----------------------------------------------------------------------------
(* What the calls under way will return. *)

\* The values on the stack above the height `low`, up to the height `high`.
Between(s, low, high) == [j \in 1 .. high - low |-> s[low + j]]
\* How high the stack was when a call's own members were to come.
Own(c) == IF Nested(c) THEN c.base + 1 ELSE c.base

LEMMA BetweenIs ==
  ASSUME NEW s, NEW low \in Nat, NEW high \in Nat, low <= high
  PROVE  /\ IsSequence(Between(s, low, high)) /\ Len(Between(s, low, high)) = high - low
         /\ \A j \in 1 .. high - low : Between(s, low, high)[j] = s[low + j]
<1> DEFINE n == high - low
           b == [j \in 1 .. n |-> s[low + j]]
<1>1. n \in Nat
  OBVIOUS
<1>2. Between(s, low, high) = b
  BY DEF Between
<1> HIDE DEF n
<1> DEFINE S == {s[low + j] : j \in 1 .. n}
<1>3. \A j \in 1 .. n : s[low + j] \in S /\ b[j] = s[low + j]
  OBVIOUS
<1> HIDE DEF S
<1>4. b \in [1 .. n -> S]
  BY <1>3
<1> HIDE DEF b
<1>5. b \in Seq(S) /\ Len(b) = n
  BY <1>1, <1>4
<1> QED  BY <1>2, <1>3, <1>5 DEF IsSequence, n

LEMMA BetweenAlike ==
  ASSUME NEW s, NEW u, NEW low \in Nat, NEW high \in Nat,
         \A i \in 1 .. high : u[i] = s[i]
  PROVE  Between(u, low, high) = Between(s, low, high)
<1>1. ASSUME NEW j \in 1 .. high - low PROVE u[low + j] = s[low + j]
  OBVIOUS
<1> QED  BY <1>1 DEF Between

\* Two sequences are the same when their lengths and members are.
LEMMA SameMembers ==
  ASSUME NEW a, IsSequence(a), NEW b, IsSequence(b), Len(a) = Len(b),
         \A i \in 1 .. Len(a) : a[i] = b[i]
  PROVE  a = b
<1>1. PICK S : a \in Seq(S)
  BY DEF IsSequence
<1>2. PICK T : b \in Seq(T)
  BY DEF IsSequence
<1>3. a = [i \in 1 .. Len(a) |-> a[i]] /\ b = [i \in 1 .. Len(b) |-> b[i]]
  BY <1>1, <1>2
<1> QED  BY <1>3

LEMMA BetweenGrows ==
  ASSUME NEW s, NEW u, NEW low \in Nat, NEW high \in Nat, low <= high,
         \A i \in 1 .. high : u[i] = s[i]
  PROVE  Between(u, low, high + 1) = Append(Between(s, low, high), u[high + 1])
<1> DEFINE a == Between(u, low, high + 1)
           b == Between(s, low, high)
           e == u[high + 1]
<1>0. IsSequence(a) /\ Len(a) = high + 1 - low /\ \A j \in 1 .. high + 1 - low : a[j] = u[low + j]
  <2> DEFINE h == high + 1
  <2>1. h \in Nat /\ low <= h
    OBVIOUS
  <2> HIDE DEF h
  <2>2. /\ IsSequence(Between(u, low, h)) /\ Len(Between(u, low, h)) = h - low
        /\ \A j \in 1 .. h - low : Between(u, low, h)[j] = u[low + j]
    BY <2>1, BetweenIs
  <2> QED  BY <2>2 DEF h
<1>1. IsSequence(b) /\ Len(b) = high - low /\ \A j \in 1 .. high - low : b[j] = s[low + j]
  BY BetweenIs
<1>2. /\ IsSequence(Append(b, e)) /\ Len(Append(b, e)) = Len(b) + 1
      /\ \A i \in 1 .. Len(b) : Append(b, e)[i] = b[i]
      /\ Append(b, e)[Len(b) + 1] = e
  BY <1>1, Appended
<1>3. Len(a) = Len(Append(b, e))
  BY <1>0, <1>1, <1>2
<1>4. ASSUME NEW i \in 1 .. Len(a) PROVE a[i] = Append(b, e)[i]
  <2> HIDE DEF a, b
  <2>1. a[i] = u[low + i] /\ i \in 1 .. high + 1 - low
    BY <1>0
  <2>2. CASE i <= high - low
    <3>1. i \in 1 .. high - low /\ i \in 1 .. Len(b) /\ low + i \in 1 .. high
      BY <1>1, <2>1, <2>2
    <3>2. b[i] = s[low + i] /\ Append(b, e)[i] = b[i] /\ u[low + i] = s[low + i]
      BY <1>1, <1>2, <3>1
    <3> QED  BY <2>1, <3>2
  <2>3. CASE i = Len(b) + 1
    <3>1. low + i = high + 1
      BY <1>1, <2>3
    <3> QED  BY <1>2, <2>1, <2>3, <3>1 DEF e
  <2> QED  BY <1>1, <2>1, <2>2, <2>3
<1> HIDE DEF a, b
<1>5. a = Append(b, e)
  BY <1>0, <1>2, <1>3, <1>4, SameMembers
<1> QED  BY <1>5 DEF a, b

LEMMA NothingBetween == ASSUME NEW s, NEW n \in Nat PROVE Between(s, n, n) = <<>>
<1>1. IsSequence(Between(s, n, n)) /\ Len(Between(s, n, n)) = n - n
  <2>1. n <= n
    OBVIOUS
  <2> QED  BY <2>1, BetweenIs
<1> QED  BY <1>1, NoneLeft

-----------------------------------------------------------------------------
(* What is read, and joined to what was read. *)

LEMMA ThenIs ==
  ASSUME NEW a, NEW s, s.ok
  PROVE  Then(a, s).ok /\ Then(a, s).of = a \o s.of /\ Then(a, s).next = s.next
<1> DEFINE of == a \o s.of
<1>1. Then(a, s) = Got(of, s.next)
  BY DEF Then
<1> HIDE DEF of
<1>2. Got(of, s.next).ok /\ Got(of, s.next).of = of /\ Got(of, s.next).next = s.next
  BY GotIs
<1> QED  BY <1>1, <1>2 DEF of

LEMMA ThenNothing ==
  ASSUME NEW t, NEW p, NEW s, Row(t, p, s), NEW type
  PROVE  As(type, Then(<<>>, s)) = As(type, s) /\ AsText(Then(<<>>, s)) = AsText(s)
<1>1. CASE s.ok
  <2>1. PICK S : s.of \in Seq(S)
    BY <1>1 DEF Row, IsSequence
  <2>2. <<>> \o s.of = s.of
    BY <2>1
  <2>3. Then(<<>>, s).ok /\ Then(<<>>, s).of = s.of /\ Then(<<>>, s).next = s.next
    BY <1>1, <2>2, ThenIs
  <2> QED  BY <1>1, <2>3 DEF As, AsText
<1>2. CASE ~s.ok
  <2>1. ~Then(<<>>, s).ok
    BY <1>2, FailedIs DEF Then
  <2> QED  BY <1>2, <2>1 DEF As, AsText
<1> QED  BY <1>1, <1>2

LEMMA ThenThen ==
  ASSUME NEW t, NEW p, NEW s, Row(t, p, s), NEW a, IsSequence(a), NEW b, IsSequence(b)
  PROVE  Then(a, Then(b, s)) = Then(a \o b, s)
<1>1. CASE s.ok
  <2>1. PICK S : s.of \in Seq(S)
    BY <1>1 DEF Row, IsSequence
  <2>2. PICK A : a \in Seq(A)
    BY DEF IsSequence
  <2>3. PICK B : b \in Seq(B)
    BY DEF IsSequence
  <2> DEFINE T == S \cup A \cup B
  <2>4. s.of \in Seq(T) /\ a \in Seq(T) /\ b \in Seq(T)
    BY <2>1, <2>2, <2>3
  <2> HIDE DEF T
  <2> DEFINE o == s.of
  <2>5. (a \o b) \o o = a \o (b \o o)
    <3>1. o \in Seq(T)
      BY <2>4
    <3> HIDE DEF o
    <3> QED  BY <2>4, <3>1, Associative
  <2>6. Then(b, s).ok /\ Then(b, s).of = b \o s.of /\ Then(b, s).next = s.next
    BY <1>1, ThenIs
  <2> QED  BY <1>1, <2>5, <2>6 DEF Then
<1>2. CASE ~s.ok
  <2>1. ~Then(b, s).ok
    BY <1>2, FailedIs DEF Then
  <2> QED  BY <1>2, <2>1 DEF Then
<1> QED  BY <1>1, <1>2

LEMMA AppendIsJoin ==
  ASSUME NEW a, IsSequence(a), NEW v
  PROVE  Append(a, v) = a \o <<v>>
<1>1. PICK S : a \in Seq(S)
  BY DEF IsSequence
<1>2. a \in Seq(S \cup {v}) /\ v \in S \cup {v}
  BY <1>1
<1> QED  BY <1>2

LEMMA ThenOne ==
  ASSUME NEW t, NEW p, NEW s, Row(t, p, s), NEW a, IsSequence(a), NEW v
  PROVE  Then(a, Then(<<v>>, s)) = Then(Append(a, v), s)
<1>1. Then(a, Then(<<v>>, s)) = Then(a \o <<v>>, s)
  BY ThenThen, Alone
<1>2. Append(a, v) = a \o <<v>>
  BY AppendIsJoin
<1> QED  BY <1>1, <1>2

LEMMA NothingFurther ==
  ASSUME NEW a, IsSequence(a), NEW next
  PROVE  Then(a, Got(<<>>, next)) = Got(a, next)
<1>1. PICK S : a \in Seq(S)
  BY DEF IsSequence
<1>2. a \o <<>> = a
  BY <1>1
<1> DEFINE s == Got(<<>>, next)
<1>3. s.ok /\ s.of = <<>> /\ s.next = next
  BY GotIs
<1> HIDE DEF s
<1>4. Then(a, s) = Got(a \o s.of, s.next)
  BY <1>3 DEF Then
<1> QED  BY <1>2, <1>3, <1>4 DEF s

LEMMA NeverThen ==
  ASSUME NEW s, ~s.ok, NEW a, NEW type
  PROVE  ~Then(a, s).ok /\ ~As(type, s).ok /\ ~AsText(s).ok
BY FailedIs DEF Then, As, AsText

\* What stands at a position, by the rule of its kind.
LEMMA ReadingSettled ==
  ASSUME NEW t, IsSequence(t), NEW p \in Nat
  PROVE  Settled(t, ReadingOf(t), p) /\ Alike(t, ReadingOf(t), ReadingOf(t), p)
<1>1. ASSUME NEW q \in p .. Len(t), NEW rule \in Rules PROVE Row(t, q, ReadingOf(t)[q][rule])
  <2>1. q \in 0 .. Len(t)
    OBVIOUS
  <2> QED  BY <2>1, ReadingIs
<1> QED  BY <1>1 DEF Settled, Alike

LEMMA ReadingAt ==
  ASSUME NEW t, IsSequence(t), NEW p \in 0 .. Len(t), NEW rule \in Rules
  PROVE  /\ ReadingOf(t)[p][rule] = RuleAt(t, ReadingOf(t), p, rule)
         /\ Row(t, p, ReadingOf(t)[p][rule])
BY ReadingIs

LEMMA KindsAreRules == "text" \in Rules /\ "array" \in Rules /\ "object" \in Rules
BY DEF Rules

LEMMA ReadsText ==
  ASSUME NEW t, IsSequence(t), NEW p \in 0 .. Len(t)
  PROVE  ReadingOf(t)[p]["text"] = TextAt(t, ReadingOf(t), p) /\ Row(t, p, ReadingOf(t)[p]["text"])
BY ReadingAt, KindsAreRules DEF RuleAt

LEMMA ReadsArray ==
  ASSUME NEW t, IsSequence(t), NEW p \in 0 .. Len(t)
  PROVE  /\ ReadingOf(t)[p]["array"] = With(t, ReadingOf(t), ValueAt(t, ReadingOf(t), p), "array")
         /\ Row(t, p, ReadingOf(t)[p]["array"])
BY ReadingAt, KindsAreRules DEF RuleAt

LEMMA ReadsObject ==
  ASSUME NEW t, IsSequence(t), NEW p \in 0 .. Len(t)
  PROVE  /\ ReadingOf(t)[p]["object"] = MembersAt(t, ReadingOf(t), p)
         /\ Row(t, p, ReadingOf(t)[p]["object"])
BY ReadingAt, KindsAreRules DEF RuleAt

LEMMA ReadsMore ==
  ASSUME NEW t, IsSequence(t), NEW p \in 0 .. Len(t), NEW type \in {"array", "object"}
  PROVE  Row(t, p, MoreAt(t, ReadingOf(t), p, type))
BY ReadingSettled, MoreSettled

LEMMA ReadsValue ==
  ASSUME NEW t, IsSequence(t), NEW p \in 0 .. Len(t)
  PROVE  Proper(t, p, ValueAt(t, ReadingOf(t), p))
BY ReadingSettled, ValueSettled

LEMMA ReadsWith ==
  ASSUME NEW t, IsSequence(t), NEW p \in 0 .. Len(t), NEW type \in {"array", "object"},
         NEW v, Proper(t, p, v)
  PROVE  Row(t, p, With(t, ReadingOf(t), v, type))
BY ReadingSettled, WithSettled

\* Behind a name: its colon and its value, and what follows.
NamedOn(t, p) ==
  LET q == Past(t, p, Blanks) IN
  IF Shows(t, q) = ":" THEN With(t, ReadingOf(t), ValueAt(t, ReadingOf(t), q + 1), "object") ELSE Failed

LEMMA NamedOnIs ==
  ASSUME NEW t, NEW name
  PROVE  NamedAt(t, ReadingOf(t), name)
           = IF name.ok THEN Then(<<name.of>>, NamedOn(t, name.next)) ELSE Failed
<1>1. Then(<<name.of>>, Failed) = Failed
  BY FailedIs DEF Then
<1> QED  BY <1>1 DEF NamedAt, NamedOn

LEMMA NamedOnRow ==
  ASSUME NEW t, IsSequence(t), NEW p \in 0 .. Len(t)
  PROVE  Row(t, p, NamedOn(t, p))
<1> DEFINE q == Past(t, p, Blanks)
<1>1. CASE Shows(t, q) = ":"
  <2>1. Shows(t, q) # NUL
    BY <1>1 DEF NUL
  <2>2. q + 1 \in 0 .. Len(t) /\ q + 1 \in p + 1 .. Len(t)
    BY <2>1, BehindBlanks
  <2>3. NamedOn(t, p) = With(t, ReadingOf(t), ValueAt(t, ReadingOf(t), q + 1), "object")
    BY <1>1 DEF NamedOn
  <2> HIDE DEF q
  <2>4. Row(t, q + 1, NamedOn(t, p))
    BY <2>2, <2>3, ReadsValue, ReadsWith
  <2>5. p \in Nat /\ q + 1 \in Nat /\ p <= q + 1
    BY <2>2
  <2> QED  BY <2>4, <2>5, FurtherProper DEF Row
<1>2. CASE Shows(t, q) # ":"
  BY <1>2, FailedRow DEF NamedOn
<1> QED  BY <1>1, <1>2

\* A blank in front changes nothing.
LEMMA BlankPassed ==
  ASSUME NEW t, IsSequence(t), NEW p \in 0 .. Len(t), Shows(t, p) \in Blanks
  PROVE  /\ p + 1 \in 0 .. Len(t)
         /\ Past(t, p, Blanks) = Past(t, p + 1, Blanks)
         /\ ValueAt(t, ReadingOf(t), p) = ValueAt(t, ReadingOf(t), p + 1)
         /\ NamedOn(t, p) = NamedOn(t, p + 1)
         /\ \A type : MoreAt(t, ReadingOf(t), p, type) = MoreAt(t, ReadingOf(t), p + 1, type)
<1>1. p + 1 \in 0 .. Len(t) /\ Past(t, p, Blanks) = Past(t, p + 1, Blanks)
  BY CharactersAre, PastMoves
<1>2. ValueAt(t, ReadingOf(t), p) = ValueAt(t, ReadingOf(t), p + 1)
  BY <1>1 DEF ValueAt
<1>3. NamedOn(t, p) = NamedOn(t, p + 1)
  BY <1>1 DEF NamedOn
<1>4. ASSUME NEW type PROVE MoreAt(t, ReadingOf(t), p, type) = MoreAt(t, ReadingOf(t), p + 1, type)
  BY <1>1 DEF MoreAt
<1> QED  BY <1>1, <1>2, <1>3, <1>4

LEMMA BlankRow ==
  ASSUME NEW t, IsSequence(t), NEW p \in 0 .. Len(t), Shows(t, p) \in Blanks,
         NEW type \in {"array", "object"}
  PROVE  /\ ReadingOf(t)[p][type] = ReadingOf(t)[p + 1][type]
         /\ NestedAt(t, ReadingOf(t), p, type) = NestedAt(t, ReadingOf(t), p + 1, type)
<1>1. /\ p + 1 \in 0 .. Len(t) /\ Past(t, p, Blanks) = Past(t, p + 1, Blanks)
      /\ ValueAt(t, ReadingOf(t), p) = ValueAt(t, ReadingOf(t), p + 1)
  BY BlankPassed
<1>2. ReadingOf(t)[p]["array"] = ReadingOf(t)[p + 1]["array"]
  BY <1>1, ReadsArray
<1>3. ReadingOf(t)[p]["object"] = ReadingOf(t)[p + 1]["object"]
  <2>1. MembersAt(t, ReadingOf(t), p) = MembersAt(t, ReadingOf(t), p + 1)
    BY <1>1 DEF MembersAt
  <2> QED  BY <1>1, <2>1, ReadsObject
<1>4. ReadingOf(t)[p][type] = ReadingOf(t)[p + 1][type]
  BY <1>2, <1>3
<1> QED  BY <1>1, <1>4 DEF NestedAt

-----------------------------------------------------------------------------
(* The document, arrays and objects. *)

\* What a call returns when the call it waits for returns v.
Waits(t, c, held, v, r) ==
  \/ c.fn = "root" /\ c.at = "after" /\ r = DocumentOf(t, v)
  \/ Nested(c) /\ c.at = "after" /\ r = As(c.fn, Then(held, With(t, ReadingOf(t), v, c.fn)))
  \/ c.fn = "object" /\ c.at = "colon" /\ r = As("object", Then(held, NamedAt(t, ReadingOf(t), v)))

\* What it returns when it stands at p itself, the values in held behind it.
RootComes(t, c, held, p, r) ==
  \/ c.at = "start" /\ r = DocumentOf(t, ValueAt(t, ReadingOf(t), p))
  \/ c.at = "after" /\ \E q \in 0 .. Len(t) : /\ Past(t, q, Blanks) = Past(t, p, Blanks)
                                               /\ r = DocumentOf(t, Got(held[1], q))
NestedComes(t, c, held, p, r) ==
  \/ c.at = "first" /\ held = <<>> /\ r = NestedAt(t, ReadingOf(t), p, c.fn)
  \/ /\ \/ c.fn = "object" /\ c.at = "key"
        \/ c.fn = "array" /\ c.at = "value"
     /\ r = As(c.fn, Then(held, ReadingOf(t)[p][c.fn]))
  \/ c.at = "after" /\ r = As(c.fn, Then(held, MoreAt(t, ReadingOf(t), p, c.fn)))
  \/ c.fn = "object" /\ c.at = "colon" /\ r = As("object", Then(held, NamedOn(t, p)))
  \/ /\ c.fn = "object" /\ c.at = "value"
     /\ r = As("object", Then(held, With(t, ReadingOf(t), ValueAt(t, ReadingOf(t), p), "object")))

LEMMA RootPassesBlank ==
  ASSUME NEW t, IsSequence(t), NEW p \in 0 .. Len(t), Shows(t, p) \in Blanks,
         NEW c, NEW held, NEW r, RootComes(t, c, held, p, r)
  PROVE  RootComes(t, c, held, p + 1, r)
BY BlankPassed DEF RootComes

LEMMA NestedPassesBlank ==
  ASSUME NEW t, IsSequence(t), NEW p \in 0 .. Len(t), Shows(t, p) \in Blanks,
         NEW c, Nested(c), NEW held, NEW r, NestedComes(t, c, held, p, r)
  PROVE  NestedComes(t, c, held, p + 1, r)
<1>1. c.fn \in {"array", "object"}
  BY DEF Nested
<1>2. /\ ReadingOf(t)[p][c.fn] = ReadingOf(t)[p + 1][c.fn]
      /\ NestedAt(t, ReadingOf(t), p, c.fn) = NestedAt(t, ReadingOf(t), p + 1, c.fn)
  BY <1>1, BlankRow
<1>3. /\ ValueAt(t, ReadingOf(t), p) = ValueAt(t, ReadingOf(t), p + 1)
      /\ NamedOn(t, p) = NamedOn(t, p + 1)
      /\ MoreAt(t, ReadingOf(t), p, c.fn) = MoreAt(t, ReadingOf(t), p + 1, c.fn)
  BY BlankPassed
<1> QED  BY <1>2, <1>3 DEF NestedComes

\* The call that waited goes on with what it is given.
LEMMA RootReceives ==
  ASSUME NEW t, NEW q \in 0 .. Len(t), NEW c, c.fn = "root", NEW held, Len(held) = 0, IsSequence(held),
         NEW v, NEW r, Waits(t, c, held, Got(v, q), r)
  PROVE  RootComes(t, c, Append(held, v), q, r)
<1>1. c.at = "after" /\ r = DocumentOf(t, Got(v, q))
  BY DEF Waits, Nested
<1>2. Append(held, v)[1] = v
  BY Appended
<1> QED  BY <1>1, <1>2 DEF RootComes

LEMMA NestedReceives ==
  ASSUME NEW t, IsSequence(t), NEW q \in 0 .. Len(t), NEW c, Nested(c), NEW held, IsSequence(held),
         NEW v, NEW r, Waits(t, c, held, Got(v, q), r)
  PROVE  NestedComes(t, c, Append(held, v), q, r)
<1> DEFINE g == Got(v, q)
<1>0. g.ok /\ g.of = v /\ g.next = q
  BY GotIs
<1>1. c.fn # "root" /\ c.fn \in {"array", "object"}
  BY DEF Nested
<1>2. CASE c.at = "after"
  <2>1. With(t, ReadingOf(t), g, c.fn) = Then(<<v>>, MoreAt(t, ReadingOf(t), q, c.fn))
    BY <1>0 DEF With
  <2>2. r = As(c.fn, Then(held, With(t, ReadingOf(t), g, c.fn)))
    BY <1>1, <1>2 DEF Waits
  <2>3. Then(held, Then(<<v>>, MoreAt(t, ReadingOf(t), q, c.fn)))
          = Then(Append(held, v), MoreAt(t, ReadingOf(t), q, c.fn))
    <3> DEFINE s == MoreAt(t, ReadingOf(t), q, c.fn)
    <3>1. Row(t, q, s)
      BY <1>1, ReadsMore
    <3> HIDE DEF s
    <3>2. Then(held, Then(<<v>>, s)) = Then(Append(held, v), s)
      BY <3>1, ThenOne
    <3> QED  BY <3>2 DEF s
  <2> QED  BY <1>2, <2>1, <2>2, <2>3 DEF NestedComes
<1>3. CASE c.fn = "object" /\ c.at = "colon"
  <2>1. NamedAt(t, ReadingOf(t), g) = Then(<<v>>, NamedOn(t, q))
    BY <1>0, NamedOnIs
  <2>2. r = As("object", Then(held, NamedAt(t, ReadingOf(t), g)))
    BY <1>1, <1>3 DEF Waits
  <2>3. Then(held, Then(<<v>>, NamedOn(t, q))) = Then(Append(held, v), NamedOn(t, q))
    <3> DEFINE s == NamedOn(t, q)
    <3>1. Row(t, q, s)
      BY NamedOnRow
    <3> HIDE DEF s
    <3>2. Then(held, Then(<<v>>, s)) = Then(Append(held, v), s)
      BY <3>1, ThenOne
    <3> QED  BY <3>2 DEF s
  <2> QED  BY <1>3, <2>1, <2>2, <2>3 DEF NestedComes
<1> QED  BY <1>1, <1>2, <1>3 DEF Waits

LEMMA WaitsFails ==
  ASSUME NEW t, NEW c, NEW held, NEW v, ~v.ok, NEW r, Waits(t, c, held, v, r)
  PROVE  ~r.ok
<1>1. ~With(t, ReadingOf(t), v, c.fn).ok /\ ~NamedAt(t, ReadingOf(t), v).ok /\ ~DocumentOf(t, v).ok
  BY FailedIs DEF With, NamedAt, DocumentOf
<1>2. ~As(c.fn, Then(held, With(t, ReadingOf(t), v, c.fn))).ok
  <2> DEFINE s == With(t, ReadingOf(t), v, c.fn)
  <2>1. ~s.ok
    BY <1>1
  <2> HIDE DEF s
  <2>2. ~As(c.fn, Then(held, s)).ok
    BY <2>1, FailedIs DEF Then, As
  <2> QED  BY <2>2 DEF s
<1>3. ~As("object", Then(held, NamedAt(t, ReadingOf(t), v))).ok
  <2> DEFINE s == NamedAt(t, ReadingOf(t), v)
  <2>1. ~s.ok
    BY <1>1
  <2> HIDE DEF s
  <2>2. ~As("object", Then(held, s)).ok
    BY <2>1, FailedIs DEF Then, As
  <2> QED  BY <2>2 DEF s
<1> QED  BY <1>1, <1>2, <1>3 DEF Waits

\* No blank to pass.
LEMMA AtOnce ==
  ASSUME NEW t, IsSequence(t), NEW p \in 0 .. Len(t), Shows(t, p) \notin Blanks
  PROVE  Past(t, p, Blanks) = p
BY CharactersAre, PastStays

LEMMA NextPlace ==
  ASSUME NEW t, IsSequence(t), NEW p \in 0 .. Len(t),
         Shows(t, p) \in {"{", "[", "\"", ",", ":", "]", "}", "\\", "u", "-", ".", "+"}
  PROVE  p + 1 \in 0 .. Len(t)
<1>1. Shows(t, p) # NUL
  BY DEF NUL
<1> QED  BY <1>1, ShowsWithin

\* A value is due: the call waits for what stands at p.
LEMMA ValueStarts ==
  ASSUME NEW t, IsSequence(t), NEW p \in 0 .. Len(t), Shows(t, p) \notin Blanks,
         NEW c, NEW held, NEW r, NEW d, d.fn = c.fn, d.at = "after",
         \/ c.fn = "root" /\ c.at = "start" /\ RootComes(t, c, held, p, r)
         \/ /\ NestedComes(t, c, held, p, r)
            /\ \/ c.fn = "array" /\ c.at = "first" /\ Shows(t, p) # "]"
               \/ c.fn \in {"array", "object"} /\ c.at = "value"
  PROVE  Waits(t, d, held, ValueAt(t, ReadingOf(t), p), r)
<1> DEFINE v == ValueAt(t, ReadingOf(t), p)
<1>1. CASE c.fn = "root" /\ c.at = "start" /\ RootComes(t, c, held, p, r)
  BY <1>1 DEF RootComes, Waits
<1>2. CASE NestedComes(t, c, held, p, r) /\ c.fn = "array" /\ c.at = "first" /\ Shows(t, p) # "]"
  <2>1. r = NestedAt(t, ReadingOf(t), p, "array") /\ held = <<>>
    BY <1>2 DEF NestedComes
  <2>2. Past(t, p, Blanks) = p /\ Close["array"] = "]"
    BY AtOnce DEF Close
  <2>3. NestedAt(t, ReadingOf(t), p, "array") = As("array", ReadingOf(t)[p]["array"])
    BY <1>2, <2>2 DEF NestedAt
  <2> DEFINE s == With(t, ReadingOf(t), v, "array")
  <2>4. ReadingOf(t)[p]["array"] = s /\ Row(t, p, s)
    BY ReadsArray
  <2>5. r = As("array", s)
    BY <2>1, <2>3, <2>4
  <2> HIDE DEF s
  <2>6. r = As("array", Then(held, s))
    BY <2>1, <2>4, <2>5, ThenNothing
  <2> QED  BY <1>2, <2>6 DEF Waits, Nested, s
<1>3. CASE NestedComes(t, c, held, p, r) /\ c.fn = "array" /\ c.at = "value"
  <2>1. r = As("array", Then(held, ReadingOf(t)[p]["array"]))
    BY <1>3 DEF NestedComes
  <2>2. ReadingOf(t)[p]["array"] = With(t, ReadingOf(t), v, "array")
    BY ReadsArray
  <2> QED  BY <1>3, <2>1, <2>2 DEF Waits, Nested
<1>4. CASE NestedComes(t, c, held, p, r) /\ c.fn = "object" /\ c.at = "value"
  <2>1. r = As("object", Then(held, With(t, ReadingOf(t), v, "object")))
    BY <1>4 DEF NestedComes
  <2> QED  BY <1>4, <2>1 DEF Waits, Nested
<1> QED  BY <1>1, <1>2, <1>3, <1>4

LEMMA NameStarts ==
  ASSUME NEW t, IsSequence(t), NEW p \in 0 .. Len(t), Shows(t, p) = "\"",
         NEW c, c.fn = "object", c.at \in {"first", "key"}, NEW held, NEW r, NestedComes(t, c, held, p, r),
         NEW d, d.fn = "object", d.at = "colon"
  PROVE  Waits(t, d, held, AsText(ReadingOf(t)[p + 1]["text"]), r)
<1> DEFINE name == AsText(ReadingOf(t)[p + 1]["text"])
           s == NamedAt(t, ReadingOf(t), name)
<1>1. Past(t, p, Blanks) = p /\ Close["object"] = "}"
  <2>1. Shows(t, p) \notin Blanks
    BY DEF Blanks
  <2> QED  BY <2>1, AtOnce DEF Close
<1>2. ReadingOf(t)[p]["object"] = s /\ Row(t, p, s)
  BY <1>1, ReadsObject DEF MembersAt
<1>3. CASE c.at = "first"
  <2>1. r = NestedAt(t, ReadingOf(t), p, "object") /\ held = <<>>
    BY <1>3 DEF NestedComes
  <2>2. NestedAt(t, ReadingOf(t), p, "object") = As("object", ReadingOf(t)[p]["object"])
    BY <1>1 DEF NestedAt
  <2>3. r = As("object", s)
    BY <1>2, <2>1, <2>2
  <2> HIDE DEF s
  <2>4. r = As("object", Then(held, s))
    BY <1>2, <2>1, <2>3, ThenNothing
  <2> QED  BY <2>4 DEF Waits, s
<1>4. CASE c.at = "key"
  <2>1. r = As("object", Then(held, ReadingOf(t)[p]["object"]))
    BY <1>4 DEF NestedComes
  <2> QED  BY <1>2, <2>1 DEF Waits
<1> QED  BY <1>3, <1>4

LEMMA ColonComes ==
  ASSUME NEW t, IsSequence(t), NEW p \in 0 .. Len(t), Shows(t, p) \notin Blanks,
         NEW c, c.fn = "object", c.at = "colon", NEW held, NEW r, NestedComes(t, c, held, p, r),
         NEW d, d.fn = "object", d.at = "value"
  PROVE  IF Shows(t, p) = ":" THEN NestedComes(t, d, held, p + 1, r) ELSE ~r.ok
<1>1. r = As("object", Then(held, NamedOn(t, p))) /\ Past(t, p, Blanks) = p
  BY AtOnce DEF NestedComes
<1>2. CASE Shows(t, p) = ":"
  <2>1. NamedOn(t, p) = With(t, ReadingOf(t), ValueAt(t, ReadingOf(t), p + 1), "object")
    BY <1>1, <1>2 DEF NamedOn
  <2> QED  BY <1>1, <1>2, <2>1 DEF NestedComes
<1>3. CASE Shows(t, p) # ":"
  <2>1. NamedOn(t, p) = Failed
    BY <1>1, <1>3 DEF NamedOn
  <2> QED  BY <1>1, <1>3, <2>1, FailedIs DEF Then, As
<1> QED  BY <1>2, <1>3

\* Behind an element or a member.
LEMMA MoreComes ==
  ASSUME NEW t, IsSequence(t), NEW p \in 0 .. Len(t), Shows(t, p) \notin Blanks,
         NEW c, Nested(c), c.at = "after", NEW held, IsSequence(held),
         NEW r, NestedComes(t, c, held, p, r),
         NEW d, d.fn = c.fn, d.at = IF c.fn = "object" THEN "key" ELSE "value"
  PROVE  IF Shows(t, p) = "," THEN NestedComes(t, d, held, p + 1, r)
         ELSE IF Shows(t, p) = Close[c.fn] THEN r = Got(Holding(c.fn, held), p + 1)
         ELSE ~r.ok
<1>1. r = As(c.fn, Then(held, MoreAt(t, ReadingOf(t), p, c.fn))) /\ Past(t, p, Blanks) = p
  BY AtOnce DEF NestedComes
<1>2. CASE Shows(t, p) = ","
  <2>1. MoreAt(t, ReadingOf(t), p, c.fn) = ReadingOf(t)[p + 1][c.fn]
    BY <1>1, <1>2 DEF MoreAt
  <2> QED  BY <1>1, <1>2, <2>1 DEF NestedComes, Nested
<1>3. CASE Shows(t, p) # "," /\ Shows(t, p) = Close[c.fn]
  <2>1. MoreAt(t, ReadingOf(t), p, c.fn) = Got(<<>>, p + 1)
    BY <1>1, <1>3 DEF MoreAt
  <2>2. Then(held, Got(<<>>, p + 1)) = Got(held, p + 1)
    BY NothingFurther
  <2>3. As(c.fn, Got(held, p + 1)) = Got(Holding(c.fn, held), p + 1)
    BY GotIs DEF As
  <2> QED  BY <1>1, <1>3, <2>1, <2>2, <2>3
<1>4. CASE Shows(t, p) # "," /\ Shows(t, p) # Close[c.fn]
  <2>1. MoreAt(t, ReadingOf(t), p, c.fn) = Failed
    BY <1>1, <1>4 DEF MoreAt
  <2> QED  BY <1>1, <1>4, <2>1, FailedIs DEF Then, As
<1> QED  BY <1>2, <1>3, <1>4

\* Behind the opening bracket.
LEMMA NothingComes ==
  ASSUME NEW t, IsSequence(t), NEW p \in 0 .. Len(t), Shows(t, p) \notin Blanks,
         NEW c, Nested(c), c.at = "first", Shows(t, p) = Close[c.fn],
         NEW held, NEW r, NestedComes(t, c, held, p, r)
  PROVE  r = Got(Holding(c.fn, held), p + 1) /\ held = <<>>
<1>1. r = NestedAt(t, ReadingOf(t), p, c.fn) /\ held = <<>> /\ Past(t, p, Blanks) = p
  BY AtOnce DEF NestedComes, Nested
<1>2. NestedAt(t, ReadingOf(t), p, c.fn) = As(c.fn, Got(<<>>, p + 1))
  BY <1>1 DEF NestedAt
<1>3. As(c.fn, Got(<<>>, p + 1)) = Got(Holding(c.fn, <<>>), p + 1)
  BY GotIs DEF As
<1> QED  BY <1>1, <1>2, <1>3

LEMMA NoNameComes ==
  ASSUME NEW t, IsSequence(t), NEW p \in 0 .. Len(t), Shows(t, p) \notin Blanks,
         NEW c, c.fn = "object", c.at \in {"first", "key"}, Shows(t, p) # "\"",
         c.at = "first" => Shows(t, p) # "}",
         NEW held, NEW r, NestedComes(t, c, held, p, r)
  PROVE  ~r.ok
<1>1. Past(t, p, Blanks) = p /\ Close["object"] = "}"
  BY AtOnce DEF Close
<1>2. ReadingOf(t)[p]["object"] = Failed
  BY <1>1, ReadsObject DEF MembersAt
<1>3. CASE c.at = "first"
  <2>1. r = NestedAt(t, ReadingOf(t), p, "object")
    BY <1>3 DEF NestedComes
  <2>2. r = As("object", Failed)
    BY <1>1, <1>2, <1>3, <2>1 DEF NestedAt
  <2> QED  BY <2>2, FailedIs DEF As
<1>4. CASE c.at = "key"
  <2>1. r = As("object", Then(held, Failed))
    BY <1>2, <1>4 DEF NestedComes
  <2> QED  BY <2>1, FailedIs DEF Then, As
<1> QED  BY <1>3, <1>4

\* Behind the document's value.
LEMMA DocumentComes ==
  ASSUME NEW t, IsSequence(t), NEW p \in 0 .. Len(t), Shows(t, p) \notin Blanks,
         NEW c, c.at = "after", NEW held, NEW r, RootComes(t, c, held, p, r)
  PROVE  IF Shows(t, p) = NUL THEN r.ok /\ r.of = held[1] ELSE ~r.ok
<1>1. PICK q \in 0 .. Len(t) : Past(t, q, Blanks) = p /\ r = DocumentOf(t, Got(held[1], q))
  BY AtOnce DEF RootComes
<1> DEFINE g == Got(held[1], q)
<1>2. g.ok /\ g.of = held[1] /\ g.next = q
  BY GotIs
<1> HIDE DEF g
<1>3. r = IF Shows(t, p) = NUL THEN g ELSE Failed
  BY <1>1, <1>2 DEF DocumentOf, g
<1> QED  BY <1>2, <1>3, FailedIs

LEMMA NoDocumentComes ==
  ASSUME NEW t, IsSequence(t), NEW p \in 0 .. Len(t), Shows(t, p) = NUL,
         NEW c, c.at = "start", NEW held, NEW r, RootComes(t, c, held, p, r)
  PROVE  ~r.ok
<1>1. r = DocumentOf(t, ValueAt(t, ReadingOf(t), p))
  BY DEF RootComes
<1>2. Past(t, p, Blanks) = p
  BY CharactersAre, AtOnce
<1>3. ValueAt(t, ReadingOf(t), p) = NumberAt(t, p)
  <2>1. NUL \notin {"{", "[", "\""} /\ NUL \notin DOMAIN Literals
    BY DEF NUL, Literals
  <2> QED  BY <1>2, <2>1 DEF ValueAt
<1>4. NumberAt(t, p) = Failed
  <2>1. Shows(t, p) # "-" /\ Shows(t, p) # "0"
    BY DEF NUL
  <2>2. NumberFirst(t, p) = p
    BY <2>1 DEF NumberFirst
  <2>3. Past(t, p, Decimal) = p
    BY CharactersAre, PastStays
  <2>4. NumberWhole(t, p) = p
    BY <2>1, <2>2, <2>3 DEF NumberWhole
  <2> QED  BY <2>2, <2>4, NumberIs DEF NumberBad
<1> QED  BY <1>1, <1>3, <1>4, FailedIs DEF DocumentOf

\* The calls a value begins with.
LEMMA ValueIs ==
  ASSUME NEW t, IsSequence(t), NEW p \in 0 .. Len(t), Shows(t, p) \notin Blanks
  PROVE  LET v == ValueAt(t, ReadingOf(t), p) IN
         /\ Shows(t, p) = "{" => v = NestedAt(t, ReadingOf(t), p + 1, "object")
         /\ Shows(t, p) = "[" => v = NestedAt(t, ReadingOf(t), p + 1, "array")
         /\ Shows(t, p) = "\"" => v = AsText(ReadingOf(t)[p + 1]["text"])
         /\ Shows(t, p) \in DOMAIN Literals => v = LiteralAt(t, p)
         /\ Shows(t, p) \notin {"{", "[", "\""} \cup DOMAIN Literals => v = NumberAt(t, p)
<1>1. Past(t, p, Blanks) = p
  BY AtOnce
<1>2. Shows(t, p) \in DOMAIN Literals => Shows(t, p) \notin {"{", "[", "\""}
  BY DEF Literals
<1> DEFINE c == Shows(t, p)
           v == ValueAt(t, ReadingOf(t), p)
<1>3. v = IF c = "{" THEN NestedAt(t, ReadingOf(t), p + 1, "object")
          ELSE IF c = "[" THEN NestedAt(t, ReadingOf(t), p + 1, "array")
          ELSE IF c = "\"" THEN AsText(ReadingOf(t)[p + 1]["text"])
          ELSE IF c \in DOMAIN Literals THEN LiteralAt(t, p)
          ELSE NumberAt(t, p)
  BY <1>1 DEF ValueAt
<1> HIDE DEF v, c
<1>4. c = "{" => v = NestedAt(t, ReadingOf(t), p + 1, "object")
  BY <1>3
<1>5. c = "[" => v = NestedAt(t, ReadingOf(t), p + 1, "array")
  BY <1>3
<1>6. c = "\"" => v = AsText(ReadingOf(t)[p + 1]["text"])
  BY <1>3
<1>7. c \in DOMAIN Literals => v = LiteralAt(t, p)
  BY <1>2, <1>3 DEF c
<1>8. c \notin {"{", "[", "\""} \cup DOMAIN Literals => v = NumberAt(t, p)
  BY <1>3
<1> QED  BY <1>4, <1>5, <1>6, <1>7, <1>8 DEF c, v

-----------------------------------------------------------------------------
(* Literals and strings. *)

LEMMA TailIs ==
  ASSUME NEW s, IsSequence(s), Len(s) >= 1
  PROVE  /\ IsSequence(Tail(s)) /\ Len(Tail(s)) = Len(s) - 1
         /\ \A i \in 1 .. Len(s) - 1 : Tail(s)[i] = s[i + 1]
<1>1. PICK S : s \in Seq(S)
  BY DEF IsSequence
<1>2. s # <<>>
  BY <1>1
<1>3. Tail(s) \in Seq(S) /\ Len(Tail(s)) = Len(s) - 1
  BY <1>1, <1>2
<1>4. \A i \in 1 .. Len(s) - 1 : Tail(s)[i] = s[i + 1]
  BY <1>1, <1>2
<1> QED  BY <1>3, <1>4 DEF IsSequence

\* What is left of the word stands at p.
Stands(t, word, p) == \A i \in 1 .. Len(word) : Shows(t, p - 1 + i) = word[i]
Letters(word) == \A i \in 1 .. Len(word) : word[i] # NUL
LiteralComes(t, c, p, r) ==
  /\ IsSequence(c.text) /\ Len(c.text) >= 1 /\ Letters(c.text)
  /\ r = IF Stands(t, c.text, p) THEN Got(Value(c.result), p + Len(c.text)) ELSE Failed

LEMMA LiteralStarts ==
  ASSUME NEW t, NEW p \in Nat, Shows(t, p) \in DOMAIN Literals, NEW c,
         c.text = Literals[Shows(t, p)][2], c.result = Literals[Shows(t, p)][1]
  PROVE  LiteralComes(t, c, p + 1, LiteralAt(t, p))
<1> DEFINE word == c.text
<1>1. word \in Seq({"u", "l", "r", "e", "a", "s"}) /\ Len(word) >= 1
  <2>1. Shows(t, p) \in {"n", "t", "f"}
    BY DEF Literals
  <2>2. word = <<"u", "l", "l">> \/ word = <<"r", "u", "e">> \/ word = <<"a", "l", "s", "e">>
    BY <2>1 DEF Literals
  <2> DEFINE S == {"u", "l", "r", "e", "a", "s"}
  <2>3. "u" \in S /\ "l" \in S /\ "r" \in S /\ "e" \in S /\ "a" \in S /\ "s" \in S
    OBVIOUS
  <2> HIDE DEF word, S
  <2>4. word = <<"u", "l", "l">> => word \in Seq(S) /\ Len(word) >= 1
    BY <2>3
  <2>5. word = <<"r", "u", "e">> => word \in Seq(S) /\ Len(word) >= 1
    BY <2>3
  <2>6. word = <<"a", "l", "s", "e">> => word \in Seq(S) /\ Len(word) >= 1
    BY <2>3
  <2>7. word \in Seq(S) /\ Len(word) >= 1
    BY <2>2, <2>4, <2>5, <2>6
  <2> QED  BY <2>7 DEF S
<1>2. DOMAIN word = 1 .. Len(word) /\ Len(word) \in Nat
  BY <1>1
<1>3. LiteralAt(t, p) = IF \A i \in 1 .. Len(word) : Shows(t, p + i) = word[i]
                          THEN Got(Value(c.result), p + 1 + Len(word)) ELSE Failed
  BY <1>2 DEF LiteralAt
<1> HIDE DEF word
<1>4. (\A i \in 1 .. Len(word) : Shows(t, p + i) = word[i]) <=> Stands(t, word, p + 1)
  <2>1. ASSUME NEW i \in 1 .. Len(word) PROVE Shows(t, p + i) = Shows(t, p + 1 - 1 + i)
    <3>1. p + 1 - 1 + i = p + i
      BY ONLY <1>2, p \in Nat
    <3> QED  BY ONLY <3>1
  <2> QED  BY ONLY <2>1 DEF Stands
<1>5. IsSequence(word)
  BY <1>1 DEF IsSequence
<1>6. Letters(word)
  <2>1. \A i \in 1 .. Len(word) : word[i] \in {"u", "l", "r", "e", "a", "s"}
    BY <1>1
  <2> QED  BY <2>1 DEF Letters, NUL
<1> QED  BY <1>1, <1>3, <1>4, <1>5, <1>6 DEF LiteralComes, word

LEMMA LetterComes ==
  ASSUME NEW t, NEW p \in Nat, NEW c, NEW r, LiteralComes(t, c, p, r)
  PROVE  IF Shows(t, p) # c.text[1] THEN ~r.ok
         ELSE IF Len(c.text) > 1
         THEN \A d : d.text = Tail(c.text) /\ d.result = c.result => LiteralComes(t, d, p + 1, r)
         ELSE r = Got(Value(c.result), p + 1)
<1> DEFINE word == c.text
<1>1. IsSequence(word) /\ Len(word) >= 1 /\ Len(word) \in Nat
  BY LengthIs DEF LiteralComes
<1>2. r = IF Stands(t, word, p) THEN Got(Value(c.result), p + Len(word)) ELSE Failed
  BY DEF LiteralComes
<1>3. 1 \in 1 .. Len(word) /\ p - 1 + 1 = p
  BY <1>1
<1> HIDE DEF word
<1>4. CASE Shows(t, p) # word[1]
  <2>1. ~Stands(t, word, p)
    BY <1>3, <1>4 DEF Stands
  <2> QED  BY <1>2, <1>4, <2>1, FailedIs DEF word
<1>5. CASE Shows(t, p) = word[1] /\ Len(word) > 1
  <2> DEFINE rest == Tail(word)
  <2>1. IsSequence(rest) /\ Len(rest) = Len(word) - 1 /\ \A i \in 1 .. Len(word) - 1 : rest[i] = word[i + 1]
    BY <1>1, TailIs
  <2> HIDE DEF rest
  <2>2. Stands(t, word, p) <=> Stands(t, rest, p + 1)
    <3>1. ASSUME Stands(t, word, p), NEW i \in 1 .. Len(rest) PROVE Shows(t, p + 1 - 1 + i) = rest[i]
      <4>1. i + 1 \in 1 .. Len(word) /\ i \in 1 .. Len(word) - 1 /\ p + 1 - 1 + i = p - 1 + (i + 1)
        BY <1>1, <2>1
      <4>2. Shows(t, p - 1 + (i + 1)) = word[i + 1]
        BY <3>1, <4>1 DEF Stands
      <4> QED  BY <2>1, <4>1, <4>2
    <3>2. ASSUME Stands(t, rest, p + 1), NEW i \in 1 .. Len(word) PROVE Shows(t, p - 1 + i) = word[i]
      <4>1. CASE i = 1
        BY <1>3, <1>5, <4>1
      <4>2. CASE i # 1
        <5>1. i - 1 \in 1 .. Len(rest) /\ i - 1 \in 1 .. Len(word) - 1
              /\ p + 1 - 1 + (i - 1) = p - 1 + i /\ i - 1 + 1 = i
          BY <1>1, <2>1, <4>2
        <5>2. Shows(t, p + 1 - 1 + (i - 1)) = rest[i - 1]
          BY <3>2, <5>1 DEF Stands
        <5> QED  BY <2>1, <5>1, <5>2
      <4> QED  BY <4>1, <4>2
    <3> QED  BY <3>1, <3>2 DEF Stands
  <2>3. p + 1 + Len(rest) = p + Len(word) /\ Len(rest) >= 1
    BY <1>1, <1>5, <2>1
  <2>4. Letters(rest)
    <3>1. ASSUME NEW i \in 1 .. Len(rest) PROVE rest[i] # NUL
      <4>1. i + 1 \in 1 .. Len(word) /\ rest[i] = word[i + 1]
        BY <1>1, <2>1
      <4> QED  BY <4>1 DEF LiteralComes, Letters, word
    <3> QED  BY <3>1 DEF Letters
  <2>5. ASSUME NEW d, d.text = rest, d.result = c.result PROVE LiteralComes(t, d, p + 1, r)
    BY <1>2, <2>1, <2>2, <2>3, <2>4, <2>5 DEF LiteralComes
  <2> QED  BY <1>5, <2>5 DEF word, rest
<1>6. CASE Shows(t, p) = word[1] /\ ~(Len(word) > 1)
  <2>1. Len(word) = 1
    BY <1>1, <1>6
  <2>2. Stands(t, word, p)
    <3>1. \A i \in 1 .. Len(word) : i = 1
      BY <2>1
    <3> QED  BY <1>3, <1>6, <3>1 DEF Stands
  <2> QED  BY <1>2, <1>6, <2>1, <2>2 DEF word
<1> QED  BY <1>4, <1>5, <1>6 DEF word

\* The digits of a unit that begins at q, or of a pair.
SpelledFrom(t, hex, q) ==
  \A i \in 1 .. Len(hex) : /\ hex[i] = Shows(t, q + (IF i <= 4 THEN 1 ELSE 3) + i)
                           /\ hex[i] \in HexDigits
\* The character that is being read begins at q.
Behind(t, c, q, p) ==
  /\ IsSequence(c.hex) /\ SpelledFrom(t, c.hex, q)
  /\ c.at # "chars" => Shows(t, q) = "\\"
  /\ \/ c.at = "chars" /\ c.hex = <<>> /\ p = q
     \/ c.at = "escape" /\ c.hex = <<>> /\ p = q + 1
     \/ /\ c.at = "hex" /\ Len(c.hex) <= 3 /\ p = q + 2 + Len(c.hex)
        /\ Shows(t, q + 1) = "u"
     \/ /\ HighSurrogate(c.hex) /\ Shows(t, q + 1) = "u"
        /\ \/ c.at = "pair" /\ Len(c.hex) = 4 /\ p = q + 6
           \/ /\ c.at = "pairu" /\ Len(c.hex) = 4 /\ p = q + 7
              /\ Shows(t, q + 6) = "\\"
           \/ /\ c.at = "hex" /\ Len(c.hex) \in 4 .. 7 /\ p = q + 4 + Len(c.hex)
              /\ Shows(t, q + 6) = "\\" /\ Shows(t, q + 7) = "u"
StringComes(t, c, p, r) ==
  /\ IsSequence(c.text)
  /\ \E q \in 0 .. Len(t) : Behind(t, c, q, p) /\ r = AsText(Then(c.text, ReadingOf(t)[q]["text"]))

LEMMA SpelledUnit ==
  ASSUME NEW t, NEW q \in Nat, Shows(t, q) = "\\", Shows(t, q + 1) = "u",
         NEW hex, IsSequence(hex), Len(hex) >= 4, SpelledFrom(t, hex, q)
  PROVE  /\ Unit(t, q)
         /\ HighSurrogate(UnitDigits(t, q)) <=> HighSurrogate(hex)
         /\ Len(hex) = 4 => UnitDigits(t, q) = hex
<1>1. Len(hex) \in Nat
  BY LengthIs
<1>2. ASSUME NEW i \in 1 .. 4 PROVE hex[i] = Shows(t, q + 1 + i) /\ hex[i] \in HexDigits
  <2>1. i \in 1 .. Len(hex) /\ i <= 4
    BY <1>1
  <2> QED  BY <2>1 DEF SpelledFrom
<1>3. ASSUME NEW i \in 2 .. 5 PROVE Shows(t, q + i) \in HexDigits
  <2>1. i - 1 \in 1 .. 4 /\ q + 1 + (i - 1) = q + i
    OBVIOUS
  <2> QED  BY <1>2, <2>1
<1>4. Unit(t, q)
  BY <1>3 DEF Unit
<1> DEFINE u == UnitDigits(t, q)
<1>5. u = [i \in 1 .. 4 |-> hex[i]]
  BY <1>2 DEF UnitDigits
<1>6. u[1] = hex[1] /\ u[2] = hex[2]
  BY <1>5
<1>7. HighSurrogate(u) <=> HighSurrogate(hex)
  BY <1>6 DEF HighSurrogate
<1>8. Len(hex) = 4 => u = hex
  <2>1. PICK S : hex \in Seq(S)
    BY DEF IsSequence
  <2>2. hex = [i \in 1 .. Len(hex) |-> hex[i]]
    BY <2>1
  <2> QED  BY <1>5, <2>2
<1> QED  BY <1>4, <1>7, <1>8

LEMMA SpelledPair ==
  ASSUME NEW t, NEW q \in Nat, Shows(t, q + 6) = "\\", Shows(t, q + 7) = "u",
         NEW hex, IsSequence(hex), Len(hex) = 8, SpelledFrom(t, hex, q)
  PROVE  /\ Unit(t, q + 6)
         /\ LowSurrogate(UnitDigits(t, q + 6)) <=> LowSurrogate(SubSeq(hex, 5, 8))
         /\ PairDigits(t, q) = hex
<1>1. PICK S : hex \in Seq(S)
  BY DEF IsSequence
<1>2. ASSUME NEW i \in 1 .. 8
      PROVE  hex[i] = Shows(t, q + (IF i <= 4 THEN 1 ELSE 3) + i) /\ hex[i] \in HexDigits
  BY DEF SpelledFrom
<1>3. ASSUME NEW i \in 2 .. 5 PROVE Shows(t, q + 6 + i) = hex[i + 3] /\ hex[i + 3] \in HexDigits
  <2>1. i + 3 \in 1 .. 8 /\ ~(i + 3 <= 4) /\ q + 3 + (i + 3) = q + 6 + i
    OBVIOUS
  <2>2. hex[i + 3] = Shows(t, q + 3 + (i + 3)) /\ hex[i + 3] \in HexDigits
    BY <1>2, <2>1
  <2> QED  BY <2>1, <2>2
<1>4. q + 6 + 1 = q + 7
  OBVIOUS
<1>5. Unit(t, q + 6)
  BY <1>3, <1>4 DEF Unit
<1> DEFINE u == UnitDigits(t, q + 6)
           low == SubSeq(hex, 5, 8)
<1>6. u[1] = hex[5] /\ u[2] = hex[6]
  <2>1. u[1] = Shows(t, q + 6 + 1 + 1) /\ u[2] = Shows(t, q + 6 + 1 + 2)
    BY DEF UnitDigits
  <2>2. q + 6 + 1 + 1 = q + 6 + 2 /\ q + 6 + 1 + 2 = q + 6 + 3 /\ 2 \in 2 .. 5 /\ 3 \in 2 .. 5
        /\ 2 + 3 = 5 /\ 3 + 3 = 6
    OBVIOUS
  <2>3. Shows(t, q + 6 + 2) = hex[2 + 3] /\ Shows(t, q + 6 + 3) = hex[3 + 3]
    BY <1>3, <2>2
  <2> HIDE DEF u
  <2> QED  BY <2>1, <2>2, <2>3
<1>7. low[1] = hex[5] /\ low[2] = hex[6]
  BY <1>1
<1>8. LowSurrogate(u) <=> LowSurrogate(low)
  <2> HIDE DEF u, low
  <2> QED  BY <1>6, <1>7 DEF LowSurrogate
<1>9. PairDigits(t, q) = hex
  <2>1. hex = [i \in 1 .. 8 |-> hex[i]]
    BY <1>1
  <2> QED  BY <1>2, <2>1 DEF PairDigits
<1> QED  BY <1>5, <1>8, <1>9

\* The character at q, and where the next one begins.
Quoted(t, q) == Shows(t, q) = "\""
Spells(t, q, spelt, place) == CharacterAt(t, q) = Got(spelt, place)

\* One more character of the string.
LEMMA TextGoesOn ==
  ASSUME NEW t, IsSequence(t), NEW q \in 0 .. Len(t), ~Quoted(t, q),
         NEW spelt, NEW place, Spells(t, q, spelt, place), NEW front, IsSequence(front)
  PROVE  /\ place \in 0 .. Len(t) /\ IsSequence(spelt) /\ IsSequence(front \o spelt)
         /\ Then(front, ReadingOf(t)[q]["text"]) = Then(front \o spelt, ReadingOf(t)[place]["text"])
<1> DEFINE c == CharacterAt(t, q)
<1>0. c = Got(spelt, place) /\ Proper(t, q, c) /\ (c.ok => IsSequence(c.of))
  BY CharacterProper DEF Spells
<1> HIDE DEF c
<1>1. c.ok /\ c.of = spelt /\ c.next = place
  BY <1>0, GotIs
<1>2. Proper(t, q, c) /\ IsSequence(spelt)
  BY <1>0, <1>1
<1>3. place \in 0 .. Len(t)
  <2>1. place \in q + 1 .. Len(t)
    BY <1>1, <1>2 DEF Proper
  <2> QED  BY <2>1, LengthIs
<1>4. ReadingOf(t)[q]["text"] = Then(spelt, ReadingOf(t)[place]["text"])
  BY <1>1, ReadsText DEF TextAt, Quoted, c
<1> DEFINE s == ReadingOf(t)[place]["text"]
<1>5. Row(t, place, s)
  BY <1>3, ReadsText
<1> HIDE DEF s
<1>6. Then(front, Then(spelt, s)) = Then(front \o spelt, s)
  BY <1>2, <1>5, ThenThen
<1>7. IsSequence(front \o spelt)
  BY <1>2, Concatenated
<1> QED  BY <1>2, <1>3, <1>4, <1>6, <1>7 DEF s

LEMMA NoText ==
  ASSUME NEW t, IsSequence(t), NEW q \in 0 .. Len(t), ~Quoted(t, q),
         CharacterAt(t, q) = Failed, NEW front
  PROVE  ~AsText(Then(front, ReadingOf(t)[q]["text"])).ok
<1>1. ReadingOf(t)[q]["text"] = Failed
  BY ReadsText, FailedIs DEF TextAt, Quoted
<1> QED  BY <1>1, FailedIs DEF Then, AsText

\* The string goes on behind the character.
LEMMA TextPut ==
  ASSUME NEW t, IsSequence(t), NEW q \in 0 .. Len(t), ~Quoted(t, q),
         NEW spelt, NEW place, Spells(t, q, spelt, place), NEW front, IsSequence(front),
         NEW d, d.at = "chars", d.hex = <<>>, d.text = front \o spelt
  PROVE  StringComes(t, d, place, AsText(Then(front, ReadingOf(t)[q]["text"])))
<1>0. place \in 0 .. Len(t) /\ IsSequence(front \o spelt)
  BY TextGoesOn
<1>1. Then(front, ReadingOf(t)[q]["text"]) = Then(front \o spelt, ReadingOf(t)[place]["text"])
  BY TextGoesOn
<1>2. Behind(t, d, place, place)
  <2>1. Len(d.hex) = 0 /\ IsSequence(d.hex)
    BY EmptyIs
  <2>2. SpelledFrom(t, d.hex, place)
    BY <2>1 DEF SpelledFrom
  <2> QED  BY <2>1, <2>2 DEF Behind
<1> QED  BY <1>0, <1>1, <1>2 DEF StringComes

LEMMA StringStarts ==
  ASSUME NEW t, IsSequence(t), NEW p \in 0 .. Len(t), NEW c, c.at = "chars", c.hex = <<>>, c.text = <<>>
  PROVE  StringComes(t, c, p, AsText(ReadingOf(t)[p]["text"]))
<1>1. Row(t, p, ReadingOf(t)[p]["text"])
  BY ReadsText
<1>2. AsText(Then(<<>>, ReadingOf(t)[p]["text"])) = AsText(ReadingOf(t)[p]["text"])
  BY <1>1, ThenNothing
<1>3. Behind(t, c, p, p)
  <2>1. Len(c.hex) = 0 /\ IsSequence(c.hex)
    BY EmptyIs
  <2> QED  BY <2>1 DEF Behind, SpelledFrom
<1> QED  BY <1>2, <1>3, EmptyIs DEF StringComes

\* Between two characters.
LEMMA CharsAt ==
  ASSUME NEW t, NEW p, NEW c, c.at = "chars", NEW r, StringComes(t, c, p, r)
  PROVE  IsSequence(c.text) /\ p \in 0 .. Len(t) /\ r = AsText(Then(c.text, ReadingOf(t)[p]["text"]))
BY DEF StringComes, Behind

LEMMA CharacterComes ==
  ASSUME NEW t, IsSequence(t), NEW p, NEW c, c.at = "chars", NEW r, StringComes(t, c, p, r),
         Shows(t, p) \notin {"\"", "\\", NUL} \cup Controls,
         NEW d, d.at = "chars", d.hex = <<>>, d.text = c.text \o <<Shows(t, p)>>
  PROVE  StringComes(t, d, p + 1, r)
<1>1. IsSequence(c.text) /\ p \in 0 .. Len(t) /\ r = AsText(Then(c.text, ReadingOf(t)[p]["text"]))
  BY CharsAt
<1>2. Spells(t, p, <<Shows(t, p)>>, p + 1) /\ ~Quoted(t, p)
  BY DEF CharacterAt, Spells, Quoted
<1> QED  BY <1>1, <1>2, TextPut

LEMMA QuoteComes ==
  ASSUME NEW t, IsSequence(t), NEW p, NEW c, c.at = "chars", NEW r, StringComes(t, c, p, r),
         Shows(t, p) = "\""
  PROVE  r = Got(TextValue(c.text), p + 1)
<1>1. IsSequence(c.text) /\ p \in 0 .. Len(t) /\ r = AsText(Then(c.text, ReadingOf(t)[p]["text"]))
  BY CharsAt
<1>2. ReadingOf(t)[p]["text"] = Got(<<>>, p + 1)
  BY <1>1, ReadsText DEF TextAt
<1>3. r = AsText(Got(c.text, p + 1))
  <2>1. Then(c.text, Got(<<>>, p + 1)) = Got(c.text, p + 1)
    BY <1>1, NothingFurther
  <2> QED  BY <1>1, <1>2, <2>1
<1> DEFINE g == Got(c.text, p + 1)
<1>4. g.ok /\ g.of = c.text /\ g.next = p + 1
  BY ONLY GotIs
<1> HIDE DEF g
<1>5. AsText(g) = Got(TextValue(c.text), p + 1)
  BY <1>4 DEF AsText
<1> QED  BY <1>3, <1>5 DEF g

LEMMA NoCharacterComes ==
  ASSUME NEW t, IsSequence(t), NEW p, NEW c, c.at = "chars", NEW r, StringComes(t, c, p, r),
         Shows(t, p) \in {NUL} \cup Controls
  PROVE  ~r.ok
<1>1. IsSequence(c.text) /\ p \in 0 .. Len(t) /\ r = AsText(Then(c.text, ReadingOf(t)[p]["text"]))
  BY CharsAt
<1>2. ~Quoted(t, p) /\ Shows(t, p) # "\\" /\ Shows(t, p) \in {"\"", "\\", NUL} \cup Controls
  BY DEF NUL, Controls, Quoted
<1>3. CharacterAt(t, p) = Failed
  <2>1. ~Unit(t, p)
    BY <1>2 DEF Unit
  <2> QED  BY <1>2, <2>1 DEF CharacterAt
<1> QED  BY <1>1, <1>2, <1>3, NoText

\* A backslash, and what stands behind it.
Slashed(t, p) == Shows(t, p) = "\\"

LEMMA BackslashComes ==
  ASSUME NEW t, IsSequence(t), NEW p, NEW c, c.at \in {"chars", "pair"}, NEW r, StringComes(t, c, p, r),
         Slashed(t, p),
         NEW d, d.at = (IF c.at = "pair" THEN "pairu" ELSE "escape"), d.hex = c.hex, d.text = c.text
  PROVE  StringComes(t, d, p + 1, r)
<1>1. PICK q \in 0 .. Len(t) : Behind(t, c, q, p) /\ r = AsText(Then(c.text, ReadingOf(t)[q]["text"]))
  BY DEF StringComes
<1>2. Shows(t, p) = "\\"
  BY DEF Slashed
<1>3. Behind(t, d, q, p + 1)
  <2>1. CASE c.at = "chars"
    <3>1. c.hex = <<>> /\ p = q
      BY <1>1, <2>1 DEF Behind
    <3> QED  BY <1>1, <1>2, <2>1, <3>1 DEF Behind
  <2>2. CASE c.at = "pair"
    <3>1. Len(c.hex) = 4 /\ p = q + 6 /\ HighSurrogate(c.hex) /\ Shows(t, q + 1) = "u"
      BY <1>1, <2>2 DEF Behind
    <3>2. p + 1 = q + 7 /\ Shows(t, q) = "\\"
      BY <1>1, <2>2, <3>1 DEF Behind
    <3> QED  BY <1>1, <1>2, <2>2, <3>1, <3>2 DEF Behind
  <2> QED  BY <2>1, <2>2
<1> QED  BY <1>1, <1>3 DEF StringComes

LEMMA UnicodeComes ==
  ASSUME NEW t, IsSequence(t), NEW p, NEW c, c.at \in {"escape", "pairu"}, NEW r, StringComes(t, c, p, r),
         Shows(t, p) = "u", NEW d, d.at = "hex", d.hex = c.hex, d.text = c.text
  PROVE  StringComes(t, d, p + 1, r)
<1>1. PICK q \in 0 .. Len(t) : Behind(t, c, q, p) /\ r = AsText(Then(c.text, ReadingOf(t)[q]["text"]))
  BY DEF StringComes
<1>2. Behind(t, d, q, p + 1)
  <2>1. CASE c.at = "escape"
    <3>1. c.hex = <<>> /\ p = q + 1 /\ Shows(t, q) = "\\"
      BY <1>1, <2>1 DEF Behind
    <3>2. Len(c.hex) = 0 /\ p + 1 = q + 2 + 0
      BY <3>1, EmptyIs
    <3> QED  BY <1>1, <3>1, <3>2 DEF Behind
  <2>2. CASE c.at = "pairu"
    <3>1. Len(c.hex) = 4 /\ p = q + 7 /\ HighSurrogate(c.hex) /\ Shows(t, q + 1) = "u"
          /\ Shows(t, q + 6) = "\\" /\ Shows(t, q) = "\\"
      BY <1>1, <2>2 DEF Behind
    <3>2. p + 1 = q + 4 + 4 /\ 4 \in 4 .. 7
      BY <3>1
    <3> QED  BY <1>1, <2>2, <3>1, <3>2 DEF Behind
  <2> QED  BY <2>1, <2>2
<1> QED  BY <1>1, <1>2 DEF StringComes

LEMMA EscapedComes ==
  ASSUME NEW t, IsSequence(t), NEW p, NEW c, c.at = "escape", NEW r, StringComes(t, c, p, r),
         Shows(t, p) \in Escapes,
         NEW d, d.at = "chars", d.hex = <<>>, d.text = c.text \o <<Escaped(Shows(t, p))>>
  PROVE  StringComes(t, d, p + 1, r)
<1>1. PICK q \in 0 .. Len(t) : Behind(t, c, q, p) /\ r = AsText(Then(c.text, ReadingOf(t)[q]["text"]))
  BY DEF StringComes
<1>2. p = q + 1 /\ Shows(t, q) = "\\" /\ IsSequence(c.text)
  BY <1>1 DEF Behind, StringComes
<1>3. Spells(t, q, <<Escaped(Shows(t, p))>>, q + 2) /\ ~Quoted(t, q)
  BY <1>2 DEF CharacterAt, Spells, Quoted
<1>4. p + 1 = q + 2
  BY <1>2
<1> QED  BY <1>1, <1>2, <1>3, <1>4, TextPut

LEMMA NoEscapeComes ==
  ASSUME NEW t, IsSequence(t), NEW p, NEW c, NEW r, StringComes(t, c, p, r),
         \/ c.at = "escape" /\ Shows(t, p) \notin Escapes \cup {"u"}
         \/ c.at = "pair" /\ Shows(t, p) # "\\"
         \/ c.at = "pairu" /\ Shows(t, p) # "u"
  PROVE  ~r.ok
<1>1. PICK q \in 0 .. Len(t) : Behind(t, c, q, p) /\ r = AsText(Then(c.text, ReadingOf(t)[q]["text"]))
  BY DEF StringComes
<1>2. Shows(t, q) = "\\" /\ IsSequence(c.hex) /\ SpelledFrom(t, c.hex, q) /\ ~Quoted(t, q)
      /\ Shows(t, q) \in {"\"", "\\", NUL} \cup Controls
  BY <1>1 DEF Behind, Quoted
<1>3. CASE c.at = "escape"
  <2>1. p = q + 1 /\ Shows(t, p) \notin Escapes /\ Shows(t, p) # "u"
    BY <1>1, <1>3 DEF Behind
  <2>2. ~Unit(t, q)
    BY <2>1 DEF Unit
  <2>3. CharacterAt(t, q) = Failed
    BY <1>2, <2>1, <2>2 DEF CharacterAt
  <2> QED  BY <1>1, <1>2, <2>3, NoText
<1>4. CASE c.at \in {"pair", "pairu"}
  <2>1. Len(c.hex) = 4 /\ HighSurrogate(c.hex) /\ Shows(t, q + 1) = "u"
    BY <1>1, <1>4 DEF Behind
  <2>2. HighSurrogate(UnitDigits(t, q)) /\ Shows(t, q + 1) \notin Escapes
    <3>1. HighSurrogate(UnitDigits(t, q))
      BY <1>2, <2>1, SpelledUnit
    <3> QED  BY <2>1, <3>1 DEF Escapes, Escape
  <2>3. ~Unit(t, q + 6)
    <3>1. CASE c.at = "pair"
      BY <1>1, <3>1 DEF Behind, Unit
    <3>2. CASE c.at = "pairu"
      <4>1. p = q + 6 + 1
        BY <1>1, <3>2 DEF Behind
      <4> QED  BY <3>2, <4>1 DEF Unit
    <3> QED  BY <1>4, <3>1, <3>2
  <2>4. CharacterAt(t, q) = Failed
    BY <1>2, <2>2, <2>3 DEF CharacterAt
  <2> QED  BY <1>1, <1>2, <2>4, NoText
<1> QED  BY <1>3, <1>4

\* The last of the digits in hex stands at p.
LastAt(t, hex, q, p) ==
  /\ q \in Nat /\ IsSequence(hex) /\ Len(hex) \in 1 .. 8 /\ SpelledFrom(t, hex, q)
  /\ Shows(t, q) = "\\" /\ Shows(t, q + 1) = "u"
  /\ Len(hex) <= 4 => p = q + 1 + Len(hex)
  /\ Len(hex) > 4 => /\ p = q + 3 + Len(hex) /\ HighSurrogate(hex)
                     /\ Shows(t, q + 6) = "\\" /\ Shows(t, q + 7) = "u"

LEMMA DigitSpelled ==
  ASSUME NEW t, NEW q \in Nat, NEW p, NEW c, c.at = "hex", Behind(t, c, q, p), Shows(t, p) \in HexDigits
  PROVE  LastAt(t, Append(c.hex, Shows(t, p)), q, p)
<1> DEFINE n == Len(c.hex)
           hex == Append(c.hex, Shows(t, p))
<1>1. IsSequence(c.hex) /\ SpelledFrom(t, c.hex, q) /\ Shows(t, q) = "\\" /\ n \in Nat
  BY LengthIs DEF Behind
<1>2. \/ n <= 3 /\ p = q + 2 + n /\ Shows(t, q + 1) = "u"
      \/ /\ n \in 4 .. 7 /\ p = q + 4 + n /\ Shows(t, q + 1) = "u" /\ HighSurrogate(c.hex)
         /\ Shows(t, q + 6) = "\\" /\ Shows(t, q + 7) = "u"
  BY DEF Behind
<1>3. /\ IsSequence(hex) /\ Len(hex) = n + 1
      /\ \A i \in 1 .. n : hex[i] = c.hex[i]
      /\ hex[n + 1] = Shows(t, p)
  BY <1>1, Appended
<1> HIDE DEF n, hex
<1>4. /\ Len(hex) \in 1 .. 8 
      /\ Len(hex) <= 4 => p = q + 1 + Len(hex)
      /\ Len(hex) > 4 => p = q + 3 + Len(hex)
  BY <1>1, <1>2, <1>3
<1>5. ASSUME NEW i \in 1 .. Len(hex)
      PROVE  hex[i] = Shows(t, q + (IF i <= 4 THEN 1 ELSE 3) + i) /\ hex[i] \in HexDigits
  <2>1. CASE i = Len(hex)
    <3>1. hex[i] = Shows(t, p)
      BY <1>3, <2>1
    <3>2. p = q + (IF i <= 4 THEN 1 ELSE 3) + i
      BY <1>4, <2>1
    <3> QED  BY <3>1, <3>2
  <2>2. CASE i # Len(hex)
    <3>1. i \in 1 .. n
      BY <1>1, <1>3, <2>2
    <3>2. /\ c.hex[i] = Shows(t, q + (IF i <= 4 THEN 1 ELSE 3) + i)
          /\ c.hex[i] \in HexDigits
      BY <1>1, <3>1 DEF SpelledFrom, n
    <3> QED  BY <1>3, <3>1, <3>2
  <2> QED  BY <2>1, <2>2
<1>6. SpelledFrom(t, hex, q)
  BY <1>5 DEF SpelledFrom
<1>7. Len(hex) > 4 => HighSurrogate(hex) /\ Shows(t, q + 6) = "\\" /\ Shows(t, q + 7) = "u"
  <2> SUFFICES ASSUME Len(hex) > 4
               PROVE  HighSurrogate(hex) /\ Shows(t, q + 6) = "\\" /\ Shows(t, q + 7) = "u"
    OBVIOUS
  <2>1. n \in 4 .. 7
    BY <1>1, <1>2, <1>3
  <2>2. HighSurrogate(c.hex) /\ Shows(t, q + 6) = "\\" /\ Shows(t, q + 7) = "u"
    BY <1>2, <2>1
  <2>3. hex[1] = c.hex[1] /\ hex[2] = c.hex[2]
    BY <1>3, <2>1
  <2> QED  BY <2>2, <2>3 DEF HighSurrogate
<1>8. Shows(t, q + 1) = "u"
  BY <1>2
<1>9. LastAt(t, hex, q, p)
  BY <1>1, <1>3, <1>4, <1>6, <1>7, <1>8 DEF LastAt
<1> QED  BY <1>9 DEF hex

LEMMA NotTheLast ==
  ASSUME NEW n \in 1 .. 8, n \notin {4, 8}, NEW q \in Nat, NEW p
  PROVE  /\ n <= 4 /\ p = q + 1 + n => p + 1 = q + 2 + n /\ n <= 3
         /\ ~(n <= 4) => n \in 4 .. 7 /\ n > 4
         /\ ~(n <= 4) /\ p = q + 3 + n => p + 1 = q + 4 + n
OBVIOUS

LEMMA DigitComes ==
  ASSUME NEW t, IsSequence(t), NEW p, NEW c, c.at = "hex", NEW r, StringComes(t, c, p, r),
         Shows(t, p) \in HexDigits, NEW hex, hex = Append(c.hex, Shows(t, p)),
         NEW d, d.hex = hex, d.text = c.text,
         \/ d.at = "pair" /\ Len(hex) = 4 /\ HighSurrogate(hex)
         \/ d.at = "hex" /\ Len(hex) \notin {4, 8}
  PROVE  StringComes(t, d, p + 1, r)
<1>1. PICK q \in 0 .. Len(t) : Behind(t, c, q, p) /\ r = AsText(Then(c.text, ReadingOf(t)[q]["text"]))
  BY DEF StringComes
<1>2. LastAt(t, hex, q, p)
  <2>1. q \in Nat
    BY LengthIs
  <2> QED  BY <1>1, <2>1, DigitSpelled
<1>3. Behind(t, d, q, p + 1)
  <2>1. CASE d.at = "pair" /\ Len(hex) = 4 /\ HighSurrogate(hex)
    <3>1. p + 1 = q + 6
      BY <1>2, <2>1 DEF LastAt
    <3> QED  BY <1>2, <2>1, <3>1 DEF Behind, LastAt
  <2>2. CASE d.at = "hex" /\ Len(hex) \notin {4, 8} /\ Len(hex) <= 4
    <3>0. q \in Nat /\ Len(hex) \in 1 .. 8 /\ p = q + 1 + Len(hex)
      BY <1>2, <2>2 DEF LastAt
    <3>1. p + 1 = q + 2 + Len(hex) /\ Len(hex) <= 3
      BY <2>2, <3>0, NotTheLast
    <3> QED  BY <1>2, <2>2, <3>1 DEF Behind, LastAt
  <2>3. CASE d.at = "hex" /\ Len(hex) \notin {4, 8} /\ ~(Len(hex) <= 4)
    <3>0. q \in Nat /\ Len(hex) \in 1 .. 8 /\ (Len(hex) > 4 => p = q + 3 + Len(hex))
      BY <1>2 DEF LastAt
    <3>1. Len(hex) \in 4 .. 7 /\ Len(hex) > 4
      BY <2>3, <3>0, NotTheLast
    <3>2. p + 1 = q + 4 + Len(hex)
      BY <2>3, <3>0, <3>1, NotTheLast
    <3> QED  BY <1>2, <2>3, <3>1, <3>2 DEF Behind, LastAt
  <2> QED  BY <2>1, <2>2, <2>3
<1> QED  BY <1>1, <1>3 DEF StringComes

LEMMA LastDigitComes ==
  ASSUME NEW t, IsSequence(t), NEW p, NEW c, c.at = "hex", NEW r, StringComes(t, c, p, r),
         Shows(t, p) \in HexDigits, NEW hex, hex = Append(c.hex, Shows(t, p)),
         \/ Len(hex) = 4 /\ ~HighSurrogate(hex)
         \/ Len(hex) = 8 /\ LowSurrogate(SubSeq(hex, 5, 8)),
         NEW d, d.at = "chars", d.hex = <<>>, d.text = c.text \o (<<"\\u">> \o hex)
  PROVE  StringComes(t, d, p + 1, r)
<1>1. PICK q \in 0 .. Len(t) : Behind(t, c, q, p) /\ r = AsText(Then(c.text, ReadingOf(t)[q]["text"]))
  BY DEF StringComes
<1>2. LastAt(t, hex, q, p)
  <2>1. q \in Nat
    BY LengthIs
  <2> QED  BY <1>1, <2>1, DigitSpelled
<1>3. /\ ~Quoted(t, q) /\ Shows(t, q) \in {"\"", "\\", NUL} \cup Controls
      /\ Shows(t, q + 1) \notin Escapes
  BY <1>2 DEF LastAt, Quoted, Escapes, Escape
<1>4. Spells(t, q, <<"\\u">> \o hex, p + 1)
  <2>1. CASE Len(hex) = 4 /\ ~HighSurrogate(hex)
    <3>0. Len(hex) >= 4
      BY <2>1
    <3>1. Unit(t, q) /\ ~HighSurrogate(UnitDigits(t, q)) /\ UnitDigits(t, q) = hex
      BY <1>2, <2>1, <3>0, SpelledUnit DEF LastAt
    <3>2. CharacterAt(t, q) = Got(<<"\\u">> \o UnitDigits(t, q), q + 6)
      BY <1>3, <3>1 DEF CharacterAt
    <3>3. p + 1 = q + 6
      BY <1>2, <2>1 DEF LastAt
    <3> QED  BY <3>1, <3>2, <3>3 DEF Spells
  <2>2. CASE Len(hex) = 8 /\ LowSurrogate(SubSeq(hex, 5, 8))
    <3>0. Len(hex) >= 4 /\ Len(hex) > 4
      BY <2>2
    <3>1. /\ Unit(t, q + 6) /\ LowSurrogate(UnitDigits(t, q + 6)) /\ PairDigits(t, q) = hex
      BY <1>2, <2>2, <3>0, SpelledPair DEF LastAt
    <3>2. Unit(t, q) /\ HighSurrogate(UnitDigits(t, q))
      BY <1>2, <2>2, <3>0, SpelledUnit DEF LastAt
    <3>3. CharacterAt(t, q) = Got(<<"\\u">> \o PairDigits(t, q), q + 12)
      BY <1>3, <3>1, <3>2 DEF CharacterAt
    <3>4. p + 1 = q + 12
      BY <1>2, <2>2 DEF LastAt
    <3> QED  BY <3>1, <3>3, <3>4 DEF Spells
  <2> QED  BY <2>1, <2>2
<1>5. IsSequence(c.text)
  BY DEF StringComes
<1> DEFINE spelt == <<"\\u">> \o hex
<1>6. d.text = c.text \o spelt /\ Spells(t, q, spelt, p + 1)
  BY <1>4
<1> HIDE DEF spelt
<1> QED  BY <1>1, <1>3, <1>5, <1>6, TextPut

LEMMA NoPairComes ==
  ASSUME NEW t, IsSequence(t), NEW p, NEW c, c.at = "hex", NEW r, StringComes(t, c, p, r),
         Shows(t, p) \in HexDigits, NEW hex, hex = Append(c.hex, Shows(t, p)),
         Len(hex) = 8, ~LowSurrogate(SubSeq(hex, 5, 8))
  PROVE  ~r.ok
<1>1. PICK q \in 0 .. Len(t) : Behind(t, c, q, p) /\ r = AsText(Then(c.text, ReadingOf(t)[q]["text"]))
  BY DEF StringComes
<1>2. LastAt(t, hex, q, p)
  <2>1. q \in Nat
    BY LengthIs
  <2> QED  BY <1>1, <2>1, DigitSpelled
<1>3. /\ ~Quoted(t, q) /\ Shows(t, q) \in {"\"", "\\", NUL} \cup Controls
      /\ Shows(t, q + 1) \notin Escapes
  BY <1>2 DEF LastAt, Quoted, Escapes, Escape
<1>4. Len(hex) >= 4 /\ Len(hex) > 4
  OBVIOUS
<1>5. ~LowSurrogate(UnitDigits(t, q + 6))
  BY <1>4, <1>2, SpelledPair DEF LastAt
<1>6. HighSurrogate(UnitDigits(t, q))
  BY <1>4, <1>2, SpelledUnit DEF LastAt
<1>7. CharacterAt(t, q) = Failed
  BY <1>3, <1>5, <1>6 DEF CharacterAt
<1> QED  BY <1>1, <1>3, <1>7, NoText

LEMMA NoDigitComes ==
  ASSUME NEW t, IsSequence(t), NEW p, NEW c, c.at = "hex", NEW r, StringComes(t, c, p, r),
         Shows(t, p) \notin HexDigits
  PROVE  ~r.ok
<1>1. PICK q \in 0 .. Len(t) : Behind(t, c, q, p) /\ r = AsText(Then(c.text, ReadingOf(t)[q]["text"]))
  BY DEF StringComes
<1> DEFINE n == Len(c.hex)
<1>2. IsSequence(c.hex) /\ SpelledFrom(t, c.hex, q) /\ Shows(t, q) = "\\" /\ n \in Nat
  BY <1>1, LengthIs DEF Behind
<1>3. \/ n <= 3 /\ p = q + 2 + n /\ Shows(t, q + 1) = "u"
      \/ /\ n \in 4 .. 7 /\ p = q + 4 + n /\ Shows(t, q + 1) = "u" /\ HighSurrogate(c.hex)
         /\ Shows(t, q + 6) = "\\" /\ Shows(t, q + 7) = "u"
  BY <1>1 DEF Behind
<1>4. /\ ~Quoted(t, q) /\ Shows(t, q) \in {"\"", "\\", NUL} \cup Controls
      /\ Shows(t, q + 1) \notin Escapes
  BY <1>2, <1>3 DEF Quoted, Escapes, Escape
<1> HIDE DEF n
<1>5. CASE n <= 3
  <2>1. 2 + n \in 2 .. 5 /\ q + (2 + n) = p
    BY <1>2, <1>3, <1>5
  <2>2. ~Unit(t, q)
    BY <2>1 DEF Unit
  <2>3. CharacterAt(t, q) = Failed
    BY <1>4, <2>2 DEF CharacterAt
  <2> QED  BY <1>1, <1>4, <2>3, NoText
<1>6. CASE ~(n <= 3)
  <2>1. n - 2 \in 2 .. 5 /\ q + 6 + (n - 2) = p /\ n >= 4
    BY <1>2, <1>3, <1>6
  <2>2. ~Unit(t, q + 6)
    BY <2>1 DEF Unit
  <2>3. HighSurrogate(UnitDigits(t, q))
    <3>1. q \in Nat /\ n >= 4 /\ Shows(t, q + 1) = "u" /\ HighSurrogate(c.hex)
      BY <1>2, <1>3, <2>1, LengthIs
    <3> QED  BY <1>2, <3>1, SpelledUnit DEF n
  <2>4. CharacterAt(t, q) = Failed
    BY <1>4, <2>2, <2>3 DEF CharacterAt
  <2> QED  BY <1>1, <1>4, <2>4, NoText
<1> QED  BY <1>5, <1>6

-----------------------------------------------------------------------------
(* Numbers. *)

\* Nothing but digits from p up to q, and at least one.
DigitsFrom(t, p, q) == p < q /\ \A i \in p .. q - 1 : Shows(t, i) \in Decimal

LEMMA DigitIs == ASSUME NEW c \in Decimal PROVE DigitOf(c) \in 0 .. 9
<1>1. DOMAIN Digits = 1 .. 10
  BY DEF Digits
<1>2. PICK i \in 1 .. 10 : Digits[i] = c
  BY <1>1 DEF Decimal, Range
<1> DEFINE k == CHOOSE j \in 1 .. 10 : Digits[j] = c
<1>3. k \in 1 .. 10
  BY <1>2
<1> HIDE DEF k
<1>4. k - 1 \in 0 .. 9
  BY <1>3
<1> QED  BY <1>4 DEF DigitOf, k

LEMMA ZeroIs == DigitOf("0") = 0
<1>1. \A i \in 1 .. 10 : Digits[i] = "0" <=> i = 1
  BY DEF Digits
<1> DEFINE k == CHOOSE j \in 1 .. 10 : Digits[j] = "0"
<1>2. k = 1
  BY <1>1
<1> HIDE DEF k
<1>3. k - 1 = 0
  BY <1>2
<1> QED  BY <1>3 DEF DigitOf, k

\* f counts the digits from p on.
Counts(t, p, f, n) ==
  /\ f[0] = 0
  /\ \A i \in 1 .. n : f[i] = f[i - 1] * 10 + DigitOf(Shows(t, p + i - 1))

\* f counts the digits from p on up to q.
CountsTo(t, p, f, n, q) ==
  Counts(t, p, f, n) /\ Amount(t, p, q) = f[n] /\ \A i \in 0 .. n : f[i] \in Nat

LEMMA AmountCounts ==
  ASSUME NEW t, NEW p \in Nat, NEW n \in Nat, NEW q, q = p + n,
         \A i \in p .. q - 1 : Shows(t, i) \in Decimal
  PROVE  \E f : CountsTo(t, p, f, n, q)
<1> DEFINE Step(v, i) == v * 10 + DigitOf(Shows(t, p + i - 1))
           step == [x \in Nat \X (1 .. n) |-> Step(x[1], x[2])]
           Steps(k) == k = [i \in 0 .. n |-> IF i = 0 THEN 0 ELSE Step(k[i - 1], i)]
<1>1. ASSUME NEW v \in Nat, NEW i \in 1 .. n PROVE Step(v, i) \in Nat
  <2>1. p + i - 1 \in p .. q - 1
    OBVIOUS
  <2>2. DigitOf(Shows(t, p + i - 1)) \in 0 .. 9
    BY <2>1, DigitIs
  <2> QED  BY <2>2
<1> HIDE DEF Step
<1>2. \A v \in Nat, i \in 1 .. n : step[<<v, i>>] = Step(v, i) /\ step[<<v, i>>] \in Nat
  BY <1>1
<1> HIDE DEF step
<1>3. PICK k : StepsUpto(k, Nat, 0, step, n)
  BY <1>2, RecursionExists
<1>4. Steps(k)
  <2>1. /\ k \in [0 .. n -> Nat] /\ k[0] = 0
        /\ \A i \in 1 .. n : k[i] = step[<<k[i - 1], i>>]
    BY <1>3 DEF StepsUpto
  <2>2. ASSUME NEW i \in 0 .. n
        PROVE  k[i] = IF i = 0 THEN 0 ELSE Step(k[i - 1], i)
    <3>1. CASE i = 0
      BY <2>1, <3>1
    <3>2. CASE i # 0
      <4>1. i \in 1 .. n /\ i - 1 \in 0 .. n
        BY <3>2
      <4>2. k[i - 1] \in Nat /\ k[i] = step[<<k[i - 1], i>>]
        BY <2>1, <4>1
      <4> QED  BY <1>2, <3>2, <4>1, <4>2
    <3> QED  BY <3>1, <3>2
  <2>3. k = [i \in 0 .. n |-> k[i]]
    BY <2>1
  <2> QED  BY <2>2, <2>3
<1> DEFINE f == CHOOSE k_1 : Steps(k_1)
<1>5. Steps(f)
  BY <1>4
<1> HIDE DEF f
<1>6. f[0] = 0 /\ \A i \in 1 .. n : f[i] = Step(f[i - 1], i)
  BY <1>5
<1> DEFINE S == {i \in Nat : f[i] \in Nat}
<1>7. \A i \in 1 .. n : (i = 1 \/ i - 1 \in S) => i \in S
  BY <1>1, <1>6
<1> HIDE DEF S
<1>8. \A i \in 1 .. n : i \in S
  BY <1>7, InductionUpto
<1>9. \A i \in 0 .. n : f[i] \in Nat
  BY <1>6, <1>8 DEF S
<1>10. Amount(t, p, q) = f[n]
  <2>1. q - p = n
    OBVIOUS
  <2> QED  BY <2>1 DEF Amount, f, Step
<1>11. Counts(t, p, f, n)
  BY <1>6 DEF Counts, Step
<1> QED  BY <1>9, <1>10, <1>11 DEF CountsTo

LEMMA AmountNone == ASSUME NEW t, NEW p \in Nat PROVE Amount(t, p, p) = 0
<1>1. p = p + 0 /\ \A i \in p .. p - 1 : Shows(t, i) \in Decimal
  OBVIOUS
<1>2. \E f : CountsTo(t, p, f, 0, p)
  BY <1>1, AmountCounts
<1> QED  BY <1>2 DEF CountsTo, Counts

\* One digit more.
LEMMA AmountNext ==
  ASSUME NEW t, NEW p \in Nat, NEW q \in Nat, p <= q, \A i \in p .. q : Shows(t, i) \in Decimal
  PROVE  /\ Amount(t, p, q) \in Nat
         /\ Amount(t, p, q + 1) = Amount(t, p, q) * 10 + DigitOf(Shows(t, q))
         /\ Amount(t, p, q + 1) \in Nat /\ Amount(t, p, q) <= Amount(t, p, q + 1)
<1> DEFINE n == q - p
           m == n + 1
           z == q + 1
<1>1. n \in Nat /\ m \in Nat /\ p + n = q /\ z = p + m /\ z = q + 1 /\ p + m - 1 = q /\ m - 1 = n
      /\ n \in 0 .. n /\ m \in 1 .. m /\ m \in 0 .. m
  OBVIOUS
<1>2. \A i \in p .. q - 1 : Shows(t, i) \in Decimal
  OBVIOUS
<1>3. \A i \in p .. z - 1 : Shows(t, i) \in Decimal
  OBVIOUS
<1> HIDE DEF n, m, z
<1>4. PICK f : CountsTo(t, p, f, n, q)
  BY <1>1, <1>2, AmountCounts
<1>5. Counts(t, p, f, n) /\ Amount(t, p, q) = f[n] /\ \A i \in 0 .. n : f[i] \in Nat
  BY <1>4 DEF CountsTo
<1>6. PICK g : CountsTo(t, p, g, m, z)
  BY <1>1, <1>3, AmountCounts
<1>7. Counts(t, p, g, m) /\ Amount(t, p, q + 1) = g[m] /\ \A i \in 0 .. m : g[i] \in Nat
  BY <1>1, <1>6 DEF CountsTo
<1>8. StepAlike(f, g, n)
  <2>1. \A i \in 1 .. n : i \in 1 .. m
    BY <1>1 DEF m
  <2> QED  BY <1>5, <1>7, <2>1 DEF StepAlike, Counts
<1>9. f[n] = g[n]
  BY <1>1, <1>8, RecursionAgrees
<1>10. g[m] = g[m - 1] * 10 + DigitOf(Shows(t, p + m - 1))
  BY <1>1, <1>7 DEF Counts
<1>11. Amount(t, p, q + 1) = Amount(t, p, q) * 10 + DigitOf(Shows(t, q))
  BY <1>1, <1>5, <1>7, <1>9, <1>10
<1>12. Amount(t, p, q) \in Nat /\ Amount(t, p, q + 1) \in Nat
  BY <1>1, <1>5, <1>7
<1>13. DigitOf(Shows(t, q)) \in 0 .. 9
  <2>1. q \in p .. q
    OBVIOUS
  <2> QED  BY <2>1, DigitIs
<1>14. Amount(t, p, q) <= Amount(t, p, q + 1)
  BY <1>11, <1>12, <1>13
<1> QED  BY <1>11, <1>12, <1>14

LEMMA AmountGrows ==
  ASSUME NEW t, NEW p \in Nat, NEW q \in Nat, NEW r \in Nat, p <= q, q <= r,
         \A i \in p .. r - 1 : Shows(t, i) \in Decimal
  PROVE  Amount(t, p, q) <= Amount(t, p, r) /\ Amount(t, p, q) \in Nat /\ Amount(t, p, r) \in Nat
<1> DEFINE S == {k \in Nat : q + k <= r => /\ Amount(t, p, q) <= Amount(t, p, q + k)
                                          /\ Amount(t, p, q + k) \in Nat}
<1>1. Amount(t, p, q) \in Nat
  <2> DEFINE n == q - p
  <2>1. n \in Nat /\ p + n = q /\ n \in 0 .. n
    OBVIOUS
  <2>2. \A i \in p .. q - 1 : Shows(t, i) \in Decimal
    OBVIOUS
  <2> HIDE DEF n
  <2>3. \E f : CountsTo(t, p, f, n, q)
    BY <2>1, <2>2, AmountCounts
  <2> QED  BY <2>1, <2>3 DEF CountsTo
<1>2. 0 \in S
  <2>1. q + 0 = q
    OBVIOUS
  <2> QED  BY <1>1, <2>1
<1>3. ASSUME NEW k \in Nat, k \in S PROVE k + 1 \in S
  <2>1. CASE q + (k + 1) <= r
    <3> DEFINE m == q + k
    <3>1. m \in Nat /\ p <= m /\ m + 1 = q + (k + 1) /\ q + k <= r
      BY <2>1
    <3>2. \A i \in p .. m : Shows(t, i) \in Decimal
      <4>1. \A i \in p .. m : i \in p .. r - 1
        BY <2>1
      <4> QED  BY <4>1
    <3>3. Amount(t, p, q) <= Amount(t, p, m)
      BY <1>3, <3>1
    <3> HIDE DEF m
    <3>4. /\ Amount(t, p, m) \in Nat /\ Amount(t, p, m + 1) \in Nat
          /\ Amount(t, p, m) <= Amount(t, p, m + 1)
      BY <3>1, <3>2, AmountNext
    <3>5. Amount(t, p, q) <= Amount(t, p, m + 1)
      BY <1>1, <3>3, <3>4
    <3> QED  BY <3>1, <3>4, <3>5
  <2>2. CASE ~(q + (k + 1) <= r)
    BY <2>2
  <2> QED  BY <2>1, <2>2
<1>4. \A k \in Nat : k \in S
  <2> HIDE DEF S
  <2> QED  BY <1>2, <1>3, Induction
<1>5. r - q \in Nat /\ q + (r - q) = r
  OBVIOUS
<1>6. Amount(t, p, q) <= Amount(t, p, q + (r - q)) /\ Amount(t, p, q + (r - q)) \in Nat
  BY <1>4, <1>5
<1> QED  BY <1>1, <1>5, <1>6
-----------------------------------------------------------------------------
(* How far a number is read that begins at q. *)

FractionOf(t, q) == NumberFraction(t, NumberWhole(t, q))
ExponentOf(t, q) == NumberExponent(t, FractionOf(t, q))
EndOf(t, q) == NumberEnd(t, FractionOf(t, q))
Pointed(t, q) == Shows(t, NumberWhole(t, q)) = "."
Powered(t, q) == Shows(t, FractionOf(t, q)) \in {"e", "E"}
PlacesOf(t, q) == IF Pointed(t, q) THEN FractionOf(t, q) - NumberWhole(t, q) - 1 ELSE 0
Tiny(t, q) == Shows(t, FractionOf(t, q) + 1) = "-"

LEMMA NumberPart ==
  ASSUME NEW t, IsSequence(t), NEW q \in 0 .. Len(t)
  PROVE  /\ NumberFirst(t, q) \in 0 .. Len(t) /\ NumberWhole(t, q) \in 0 .. Len(t)
         /\ FractionOf(t, q) \in 0 .. Len(t) /\ NumberFirst(t, q) <= NumberWhole(t, q)
         /\ Pointed(t, q) => NumberWhole(t, q) + 1 \in 0 .. Len(t)
         /\ Powered(t, q) => ExponentOf(t, q) \in 0 .. Len(t) /\ EndOf(t, q) \in ExponentOf(t, q) .. Len(t)
<1> USE DEF FractionOf, ExponentOf, EndOf, Pointed, Powered
<1>1. /\ NumberFirst(t, q) \in q .. Len(t) /\ NumberWhole(t, q) \in NumberFirst(t, q) .. Len(t)
      /\ FractionOf(t, q) \in NumberWhole(t, q) .. Len(t)
  BY NumberPlaces
<1>2. Pointed(t, q) => NumberWhole(t, q) + 1 \in 0 .. Len(t)
  BY NumberPlaces
<1>3. Powered(t, q) => /\ ExponentOf(t, q) \in FractionOf(t, q) + 1 .. Len(t)
                       /\ EndOf(t, q) \in ExponentOf(t, q) .. Len(t)
  BY NumberPlaces
<1>4. Len(t) \in Nat
  BY LengthIs
<1> HIDE DEF FractionOf, ExponentOf, EndOf, Pointed, Powered
<1> QED  BY <1>1, <1>2, <1>3, <1>4

LEMMA NumberFails ==
  ASSUME NEW t, NEW q,
         \/ NumberWhole(t, q) = NumberFirst(t, q)
         \/ Pointed(t, q) /\ FractionOf(t, q) = NumberWhole(t, q) + 1
         \/ Powered(t, q) /\ EndOf(t, q) = ExponentOf(t, q)
         \/ Powered(t, q) /\ ~Tiny(t, q) /\ TooGreat(t, ExponentOf(t, q), EndOf(t, q), PlacesOf(t, q))
  PROVE  ~NumberAt(t, q).ok
<1>1. NumberBad(t, q, NumberWhole(t, q), FractionOf(t, q))
  BY DEF NumberBad, ExponentOf, EndOf, Pointed, Powered, PlacesOf, Tiny
<1>2. NumberAt(t, q) = Failed
  BY <1>1, NumberIs DEF FractionOf
<1> QED  BY <1>2, FailedIs

LEMMA NumberFound ==
  ASSUME NEW t, NEW q,
         NumberWhole(t, q) # NumberFirst(t, q),
         Pointed(t, q) => FractionOf(t, q) # NumberWhole(t, q) + 1,
         Powered(t, q) => /\ EndOf(t, q) # ExponentOf(t, q)
                          /\ ~Tiny(t, q) => ~TooGreat(t, ExponentOf(t, q), EndOf(t, q), PlacesOf(t, q))
  PROVE  NumberAt(t, q) = Got(NumberValue(t, q, NumberWhole(t, q), FractionOf(t, q)), EndOf(t, q))
<1>1. ~NumberBad(t, q, NumberWhole(t, q), FractionOf(t, q))
  BY DEF NumberBad, ExponentOf, EndOf, Pointed, Powered, PlacesOf, Tiny
<1> QED  BY <1>1, NumberIs DEF FractionOf, EndOf

\* The digits from p on end at q.
LEMMA DigitsEnd ==
  ASSUME NEW t, IsSequence(t), NEW p \in 0 .. Len(t), NEW q \in p .. Len(t),
         \A i \in p .. q - 1 : Shows(t, i) \in Decimal, Shows(t, q) \notin Decimal
  PROVE  Past(t, p, Decimal) = q
<1>1. Past(t, p, Decimal) = Past(t, q, Decimal)
  BY CharactersAre, PastOver
<1>2. q \in 0 .. Len(t)
  BY LengthIs
<1> QED  BY <1>1, <1>2, CharactersAre, PastStays

LEMMA OneMore ==
  ASSUME NEW t, NEW p \in Nat, NEW q \in Nat, DigitsFrom(t, p, q) \/ p = q, Shows(t, q) \in Decimal
  PROVE  DigitsFrom(t, p, q + 1) /\ \A i \in p .. q : Shows(t, i) \in Decimal
<1>1. p <= q /\ \A i \in p .. q - 1 : Shows(t, i) \in Decimal
  BY DEF DigitsFrom
<1>2. ASSUME NEW i \in p .. q PROVE Shows(t, i) \in Decimal
  <2>1. CASE i = q
    BY <2>1
  <2>2. CASE i # q
    <3>1. i \in p .. q - 1
      BY <2>2
    <3> QED  BY <1>1, <3>1
  <2> QED  BY <2>1, <2>2
<1>3. q + 1 - 1 = q /\ p < q + 1
  BY <1>1
<1> QED  BY <1>2, <1>3 DEF DigitsFrom

\* What the digits of the whole part add up to, or that they are too much.
Counted(t, c, q, p) ==
  LET amount == Amount(t, NumberFirst(t, q), p) IN
  \/ c.type = "int" /\ c.int = amount /\ amount <= Limit(t, q)
  \/ c.type = "wide" /\ amount > Limit(t, q)
StartRead(t, c, q, p) ==
  /\ c.type = "int" /\ c.int = 0 /\ c.fraction = 0 /\ c.exponent = 0
  /\ \/ c.at = "start" /\ p = q /\ c.neg = FALSE
     \/ c.at = "sign" /\ p = q + 1 /\ c.neg = TRUE /\ Shows(t, q) = "-"
WholeRead(t, c, q, p) ==
  /\ c.fraction = 0 /\ c.exponent = 0 /\ c.neg = (Shows(t, q) = "-")
  /\ Counted(t, c, q, p)
  /\ \/ c.at = "zero" /\ Shows(t, NumberFirst(t, q)) = "0" /\ p = NumberFirst(t, q) + 1
     \/ c.at = "digits" /\ Shows(t, NumberFirst(t, q)) # "0" /\ DigitsFrom(t, NumberFirst(t, q), p)
FractionRead(t, c, q, p) ==
  /\ c.type = "double" /\ c.exponent = 0
  /\ NumberWhole(t, q) # NumberFirst(t, q) /\ Pointed(t, q)
  /\ c.fraction = p - NumberWhole(t, q) - 1
  /\ \/ c.at = "point" /\ p = NumberWhole(t, q) + 1
     \/ c.at = "fraction" /\ DigitsFrom(t, NumberWhole(t, q) + 1, p)
\* A power is read behind a whole number and its fraction.
Mantissa(t, c, q) ==
  /\ c.type = "double" /\ c.fraction = PlacesOf(t, q)
  /\ NumberWhole(t, q) # NumberFirst(t, q)
  /\ Pointed(t, q) => FractionOf(t, q) # NumberWhole(t, q) + 1
  /\ Powered(t, q)
PowerRead(t, c, q, p) ==
  /\ Mantissa(t, c, q)
  /\ \/ c.at = "e" /\ p = FractionOf(t, q) + 1 /\ c.exponent = 0
     \/ c.at = "e+" /\ p = FractionOf(t, q) + 2 /\ c.exponent = 0 /\ Shows(t, FractionOf(t, q) + 1) = "+"
     \/ c.at = "e-" /\ p = FractionOf(t, q) + 2 /\ Tiny(t, q)
     \/ /\ c.at = "exponent" /\ ~Tiny(t, q) /\ DigitsFrom(t, ExponentOf(t, q), p)
        /\ c.exponent = Amount(t, ExponentOf(t, q), p)
        /\ ~TooGreat(t, ExponentOf(t, q), p, PlacesOf(t, q))
     \/ c.at = "tiny" /\ Tiny(t, q) /\ DigitsFrom(t, ExponentOf(t, q), p)
NumberRead(t, c, q, p) ==
  \/ StartRead(t, c, q, p) \/ WholeRead(t, c, q, p) \/ FractionRead(t, c, q, p) \/ PowerRead(t, c, q, p)
NumberComes(t, c, p, r) == \E q \in 0 .. Len(t) : r = NumberAt(t, q) /\ NumberRead(t, c, q, p)

-----------------------------------------------------------------------------
(* Each character leads on in the same number. *)

\* What is left of c is d, when x led to the part `to` of the number.
Led(c, x, to, d) ==
  /\ d.at = to
  /\ d.neg = (IF to = "sign" THEN TRUE ELSE c.neg)
  /\ IF to = "digits"
       THEN IF c.type = "int" /\ c.int * 10 + DigitOf(x) <= (IF c.neg THEN MaxInt + 1 ELSE MaxUint)
              THEN d.type = "int" /\ d.int = c.int * 10 + DigitOf(x)
              ELSE d.type = "wide"
       ELSE d.int = c.int /\ d.type = IF to \in {"point", "e"} THEN "double" ELSE c.type
  /\ d.fraction = IF to = "fraction" THEN c.fraction + 1 ELSE c.fraction
  /\ d.exponent = IF to = "exponent" THEN c.exponent * 10 + DigitOf(x) ELSE c.exponent

\* The character at p leads c to `to`.
LedAt(t, c, p, to, d) == Led(c, Shows(t, p), to, d)

LEMMA SignLed ==
  ASSUME NEW t, NEW q, NEW p, NEW c, StartRead(t, c, q, p), c.at = "start", Shows(t, p) = "-",
         NEW d, LedAt(t, c, p, "sign", d)
  PROVE  StartRead(t, d, q, p + 1)
BY DEF StartRead, LedAt, Led

\* Nothing is counted yet where the whole part begins.
LEMMA WholeStarts ==
  ASSUME NEW t, IsSequence(t), NEW q \in 0 .. Len(t), NEW p, NEW c, StartRead(t, c, q, p), Shows(t, p) \in Decimal
  PROVE  /\ p = NumberFirst(t, q) /\ p \in Nat /\ c.neg = (Shows(t, q) = "-") /\ Counted(t, c, q, p)
         /\ c.fraction = 0 /\ c.exponent = 0 /\ c.type = "int" /\ c.int = 0
<1>1. "-" \notin Decimal
  BY CharactersAre
<1>2. p = NumberFirst(t, q) /\ c.neg = (Shows(t, q) = "-")
  <2>1. CASE c.at = "start"
    <3>1. Shows(t, q) # "-"
      BY <1>1, <2>1 DEF StartRead
    <3> QED  BY <2>1, <3>1 DEF StartRead, NumberFirst
  <2>2. CASE c.at # "start"
    BY <2>2 DEF StartRead, NumberFirst
  <2> QED  BY <2>1, <2>2
<1>3. p \in Nat
  <2>1. q \in Nat
    BY LengthIs
  <2> QED  BY <2>1 DEF StartRead
<1>4. Amount(t, p, p) = 0
  BY <1>3, AmountNone
<1>5. 0 <= Limit(t, q)
  BY LimitsAssumption DEF Limit
<1>6. Counted(t, c, q, p)
  BY <1>2, <1>4, <1>5 DEF Counted, StartRead
<1> QED  BY <1>2, <1>3, <1>6 DEF StartRead

LEMMA CountedOn ==
  ASSUME NEW t, NEW q, NEW p \in Nat, NEW c, Counted(t, c, q, p), c.neg = (Shows(t, q) = "-"),
         NumberFirst(t, q) \in Nat, NumberFirst(t, q) <= p,
         \A i \in NumberFirst(t, q) .. p : Shows(t, i) \in Decimal,
         NEW d, LedAt(t, c, p, "digits", d)
  PROVE  Counted(t, d, q, p + 1) /\ d.neg = (Shows(t, q) = "-")
<1> DEFINE a == Amount(t, NumberFirst(t, q), p)
           b == Amount(t, NumberFirst(t, q), p + 1)
<1>1. /\ a \in Nat /\ b \in Nat /\ a <= b
      /\ b = a * 10 + DigitOf(Shows(t, p))
  BY AmountNext
<1>2. Limit(t, q) = (IF c.neg THEN MaxInt + 1 ELSE MaxUint) /\ Limit(t, q) \in Nat
  <2>1. CASE Shows(t, q) = "-"
    <3>1. c.neg = TRUE
      BY <2>1
    <3> QED  BY <2>1, <3>1, LimitsAssumption DEF Limit
  <2>2. CASE Shows(t, q) # "-"
    <3>1. c.neg = FALSE
      BY <2>2
    <3> QED  BY <2>2, <3>1, LimitsAssumption DEF Limit
  <2> QED  BY <2>1, <2>2
<1>3. \/ c.type = "int" /\ c.int = a /\ a <= Limit(t, q)
      \/ c.type = "wide" /\ a > Limit(t, q)
  BY DEF Counted
<1>4. /\ d.neg = c.neg
      /\ IF c.type = "int" /\ c.int * 10 + DigitOf(Shows(t, p)) <= (IF c.neg THEN MaxInt + 1 ELSE MaxUint)
           THEN d.type = "int" /\ d.int = c.int * 10 + DigitOf(Shows(t, p))
           ELSE d.type = "wide"
  BY DEF LedAt, Led
<1> HIDE DEF a, b
<1>5. \/ d.type = "int" /\ d.int = b /\ b <= Limit(t, q)
      \/ d.type = "wide" /\ b > Limit(t, q)
  <2>1. CASE c.type = "int" /\ b <= Limit(t, q)
    BY <1>1, <1>2, <1>3, <1>4, <2>1
  <2>2. CASE c.type = "int" /\ ~(b <= Limit(t, q))
    BY <1>1, <1>2, <1>3, <1>4, <2>2
  <2>3. CASE c.type # "int"
    BY <1>1, <1>2, <1>3, <1>4, <2>3
  <2> QED  BY <2>1, <2>2, <2>3
<1>6. Counted(t, d, q, p + 1)
  BY <1>5 DEF b, Counted
<1> QED  BY <1>4, <1>6

LEMMA ZeroLed ==
  ASSUME NEW t, IsSequence(t), NEW q \in 0 .. Len(t), NEW p, NEW c, StartRead(t, c, q, p), Shows(t, p) = "0",
         NEW d, LedAt(t, c, p, "zero", d)
  PROVE  WholeRead(t, d, q, p + 1)
<1>1. Shows(t, p) \in Decimal
  BY CharactersAre
<1>2. /\ p = NumberFirst(t, q) /\ p \in Nat /\ c.neg = (Shows(t, q) = "-")
      /\ c.fraction = 0 /\ c.exponent = 0 /\ c.type = "int" /\ c.int = 0
  BY <1>1, WholeStarts
<1>3. /\ d.at = "zero" /\ d.neg = c.neg /\ d.int = 0 /\ d.type = "int"
      /\ d.fraction = 0 /\ d.exponent = 0
  BY <1>2 DEF LedAt, Led
<1>4. Amount(t, p, p + 1) = 0
  <2>1. \A i \in p .. p : Shows(t, i) \in Decimal
    BY <1>1
  <2>2. Amount(t, p, p + 1) = Amount(t, p, p) * 10 + DigitOf(Shows(t, p))
    BY <1>2, <2>1, AmountNext
  <2> QED  BY <1>2, <2>2, AmountNone, ZeroIs
<1>5. 0 <= Limit(t, q)
  BY LimitsAssumption DEF Limit
<1>6. Counted(t, d, q, p + 1)
  BY <1>2, <1>3, <1>4, <1>5 DEF Counted
<1> QED  BY <1>2, <1>3, <1>6 DEF WholeRead

LEMMA DigitsLed ==
  ASSUME NEW t, IsSequence(t), NEW q \in 0 .. Len(t), NEW p \in 0 .. Len(t), NEW c,
         \/ StartRead(t, c, q, p) /\ Shows(t, p) # "0"
         \/ WholeRead(t, c, q, p) /\ c.at = "digits",
         Shows(t, p) \in Decimal, NEW d, LedAt(t, c, p, "digits", d)
  PROVE  WholeRead(t, d, q, p + 1)
<1>1. NumberFirst(t, q) \in Nat /\ p \in Nat
  BY NumberPart, LengthIs
<1>2. /\ c.neg = (Shows(t, q) = "-") /\ Counted(t, c, q, p) /\ c.fraction = 0 /\ c.exponent = 0
      /\ DigitsFrom(t, NumberFirst(t, q), p) \/ NumberFirst(t, q) = p
      /\ Shows(t, NumberFirst(t, q)) # "0"
  <2>1. CASE StartRead(t, c, q, p) /\ Shows(t, p) # "0"
    BY <2>1, WholeStarts
  <2>2. CASE WholeRead(t, c, q, p) /\ c.at = "digits"
    BY <2>2 DEF WholeRead
  <2> QED  BY <2>1, <2>2
<1>3. /\ DigitsFrom(t, NumberFirst(t, q), p + 1)
      /\ \A i \in NumberFirst(t, q) .. p : Shows(t, i) \in Decimal
  BY <1>1, <1>2, OneMore
<1>4. NumberFirst(t, q) <= p
  BY <1>1, <1>2 DEF DigitsFrom
<1>5. Counted(t, d, q, p + 1) /\ d.neg = (Shows(t, q) = "-")
  BY <1>1, <1>2, <1>3, <1>4, CountedOn
<1>6. d.at = "digits" /\ d.fraction = 0 /\ d.exponent = 0
  BY <1>2 DEF LedAt, Led
<1> QED  BY <1>2, <1>3, <1>5, <1>6 DEF WholeRead

\* The whole part ends at p.
LEMMA WholeEnds ==
  ASSUME NEW t, IsSequence(t), NEW q \in 0 .. Len(t), NEW p \in 0 .. Len(t), NEW c, WholeRead(t, c, q, p),
         c.at = "digits" => Shows(t, p) \notin Decimal
  PROVE  /\ NumberWhole(t, q) = p /\ p # NumberFirst(t, q) /\ Counted(t, c, q, NumberWhole(t, q))
         /\ c.fraction = 0 /\ c.exponent = 0
<1>1. NumberFirst(t, q) \in 0 .. Len(t) /\ p \in Nat /\ Len(t) \in Nat
  BY NumberPart, LengthIs
<1>2. NumberWhole(t, q) = p /\ p # NumberFirst(t, q)
  <2>1. CASE c.at = "zero"
    BY <1>1, <2>1 DEF WholeRead, NumberWhole
  <2>2. CASE c.at = "digits"
    <3>1. Shows(t, NumberFirst(t, q)) # "0" /\ DigitsFrom(t, NumberFirst(t, q), p)
      BY <2>2 DEF WholeRead
    <3>2. /\ p \in NumberFirst(t, q) .. Len(t) /\ p # NumberFirst(t, q)
          /\ \A i \in NumberFirst(t, q) .. p - 1 : Shows(t, i) \in Decimal
      BY <1>1, <3>1 DEF DigitsFrom
    <3>3. Past(t, NumberFirst(t, q), Decimal) = p
      BY <1>1, <2>2, <3>2, DigitsEnd
    <3> QED  BY <3>1, <3>2, <3>3 DEF NumberWhole
  <2> QED  BY <2>1, <2>2 DEF WholeRead
<1> QED  BY <1>2 DEF WholeRead

LEMMA PointLed ==
  ASSUME NEW t, IsSequence(t), NEW q \in 0 .. Len(t), NEW p \in 0 .. Len(t), NEW c, WholeRead(t, c, q, p),
         Shows(t, p) = ".", NEW d, LedAt(t, c, p, "point", d)
  PROVE  FractionRead(t, d, q, p + 1)
<1>1. "." \notin Decimal
  BY CharactersAre
<1>2. NumberWhole(t, q) = p /\ p # NumberFirst(t, q) /\ c.fraction = 0 /\ c.exponent = 0
  BY <1>1, WholeEnds
<1>3. d.at = "point" /\ d.type = "double" /\ d.fraction = 0 /\ d.exponent = 0
  BY <1>2 DEF LedAt, Led
<1>4. p \in Nat
  BY LengthIs
<1>5. p + 1 - p - 1 = 0
  BY <1>4
<1> QED  BY <1>2, <1>3, <1>4, <1>5 DEF FractionRead, Pointed

LEMMA FractionLed ==
  ASSUME NEW t, IsSequence(t), NEW q \in 0 .. Len(t), NEW p \in 0 .. Len(t), NEW c, FractionRead(t, c, q, p),
         Shows(t, p) \in Decimal, NEW d, LedAt(t, c, p, "fraction", d)
  PROVE  FractionRead(t, d, q, p + 1)
<1>1. NumberWhole(t, q) \in Nat /\ p \in Nat /\ NumberWhole(t, q) + 1 \in Nat
  <2>1. NumberWhole(t, q) \in 0 .. Len(t) /\ Len(t) \in Nat
    BY NumberPart, LengthIs
  <2> QED  BY <2>1
<1>2. DigitsFrom(t, NumberWhole(t, q) + 1, p) \/ NumberWhole(t, q) + 1 = p
  BY DEF FractionRead
<1>3. DigitsFrom(t, NumberWhole(t, q) + 1, p + 1)
  BY <1>1, <1>2, OneMore
<1>4. /\ d.at = "fraction" /\ d.type = c.type /\ d.fraction = c.fraction + 1 /\ d.exponent = c.exponent
  BY DEF LedAt, Led
<1>5. /\ c.type = "double" /\ c.exponent = 0 /\ NumberWhole(t, q) # NumberFirst(t, q) /\ Pointed(t, q)
      /\ c.fraction = p - NumberWhole(t, q) - 1
  BY DEF FractionRead
<1>6. d.fraction = p + 1 - NumberWhole(t, q) - 1
  BY <1>1, <1>4, <1>5
<1> QED  BY <1>1, <1>3, <1>4, <1>5, <1>6 DEF FractionRead

LEMMA FractionEnds ==
  ASSUME NEW t, IsSequence(t), NEW q \in 0 .. Len(t), NEW p \in 0 .. Len(t), NEW c, FractionRead(t, c, q, p),
         Shows(t, p) \notin Decimal
  PROVE  /\ FractionOf(t, q) = p /\ c.fraction = PlacesOf(t, q)
         /\ c.at = "point" <=> p = NumberWhole(t, q) + 1
<1>1. /\ NumberWhole(t, q) \in Nat /\ NumberWhole(t, q) + 1 \in 0 .. Len(t) /\ p \in Nat /\ Len(t) \in Nat
      /\ Pointed(t, q)
  BY NumberPart, LengthIs DEF FractionRead
<1>2. /\ p \in NumberWhole(t, q) + 1 .. Len(t)
      /\ \A i \in NumberWhole(t, q) + 1 .. p - 1 : Shows(t, i) \in Decimal
      /\ c.at = "point" <=> p = NumberWhole(t, q) + 1
  BY <1>1 DEF FractionRead, DigitsFrom
<1>3. Past(t, NumberWhole(t, q) + 1, Decimal) = p
  BY <1>1, <1>2, DigitsEnd
<1>4. FractionOf(t, q) = p
  BY <1>1, <1>3 DEF FractionOf, NumberFraction, Pointed
<1> QED  BY <1>1, <1>2, <1>4 DEF FractionRead, PlacesOf

\* There is no fraction without a point.
LEMMA NoFraction ==
  ASSUME NEW t, NEW q, ~Pointed(t, q)
  PROVE  FractionOf(t, q) = NumberWhole(t, q) /\ PlacesOf(t, q) = 0
BY DEF FractionOf, NumberFraction, Pointed, PlacesOf

\* A power begins at p, or nothing else does.
LEMMA MantissaEnds ==
  ASSUME NEW t, IsSequence(t), NEW q \in 0 .. Len(t), NEW p \in 0 .. Len(t), NEW c,
         \/ WholeRead(t, c, q, p) /\ Shows(t, p) # "."
         \/ FractionRead(t, c, q, p) /\ c.at = "fraction",
         c.at # "zero" => Shows(t, p) \notin Decimal
  PROVE  /\ FractionOf(t, q) = p /\ c.fraction = PlacesOf(t, q) /\ c.exponent = 0
         /\ NumberWhole(t, q) # NumberFirst(t, q)
         /\ Pointed(t, q) => FractionOf(t, q) # NumberWhole(t, q) + 1
<1>1. CASE WholeRead(t, c, q, p) /\ Shows(t, p) # "."
  <2>1. NumberWhole(t, q) = p /\ p # NumberFirst(t, q) /\ c.fraction = 0 /\ c.exponent = 0
    BY <1>1, WholeEnds
  <2>2. ~Pointed(t, q)
    BY <1>1, <2>1 DEF Pointed
  <2> QED  BY <2>1, <2>2, NoFraction
<1>2. CASE FractionRead(t, c, q, p) /\ c.at = "fraction"
  <2>1. FractionOf(t, q) = p /\ c.fraction = PlacesOf(t, q) /\ p # NumberWhole(t, q) + 1
    BY <1>2, FractionEnds
  <2> QED  BY <1>2, <2>1 DEF FractionRead
<1> QED  BY <1>1, <1>2

LEMMA PowerLed ==
  ASSUME NEW t, IsSequence(t), NEW q \in 0 .. Len(t), NEW p \in 0 .. Len(t), NEW c,
         WholeRead(t, c, q, p) \/ (FractionRead(t, c, q, p) /\ c.at = "fraction"),
         Shows(t, p) \in {"e", "E"}, NEW d, LedAt(t, c, p, "e", d)
  PROVE  PowerRead(t, d, q, p + 1)
<1>1. Shows(t, p) \notin Decimal /\ Shows(t, p) # "."
  BY CharactersAre
<1>2. /\ FractionOf(t, q) = p /\ c.fraction = PlacesOf(t, q) /\ c.exponent = 0
      /\ NumberWhole(t, q) # NumberFirst(t, q)
      /\ Pointed(t, q) => FractionOf(t, q) # NumberWhole(t, q) + 1
  BY <1>1, MantissaEnds
<1>3. d.at = "e" /\ d.type = "double" /\ d.fraction = c.fraction /\ d.exponent = c.exponent
  BY DEF LedAt, Led
<1>4. Powered(t, q)
  BY <1>2 DEF Powered
<1> QED  BY <1>2, <1>3, <1>4 DEF PowerRead, Mantissa

LEMMA PowerSignLed ==
  ASSUME NEW t, IsSequence(t), NEW q \in 0 .. Len(t), NEW p, NEW c, PowerRead(t, c, q, p), c.at = "e",
         NEW to, \/ to = "e+" /\ Shows(t, p) = "+"
                 \/ to = "e-" /\ Shows(t, p) = "-",
         NEW d, LedAt(t, c, p, to, d)
  PROVE  PowerRead(t, d, q, p + 1)
<1>1. p = FractionOf(t, q) + 1 /\ c.exponent = 0 /\ Mantissa(t, c, q)
  BY DEF PowerRead
<1>2. FractionOf(t, q) \in Nat
  <2>1. FractionOf(t, q) \in 0 .. Len(t) /\ Len(t) \in Nat
    BY NumberPart, LengthIs
  <2> QED  BY <2>1
<1>3. p + 1 = FractionOf(t, q) + 2
  BY <1>1, <1>2
<1>4. d.at = to /\ d.type = c.type /\ d.fraction = c.fraction /\ d.exponent = c.exponent
  BY DEF LedAt, Led
<1>5. Mantissa(t, d, q)
  BY <1>1, <1>4 DEF Mantissa
<1> QED  BY <1>1, <1>3, <1>4, <1>5 DEF PowerRead, Tiny

\* Where the digits of a power begin.
LEMMA PowerStarts ==
  ASSUME NEW t, IsSequence(t), NEW q \in 0 .. Len(t), NEW p, NEW c, PowerRead(t, c, q, p),
         c.at \in {"e", "e+", "e-"}, c.at = "e" => Shows(t, p) \notin {"+", "-"}
  PROVE  p = ExponentOf(t, q) /\ (Tiny(t, q) <=> c.at = "e-")
BY DEF PowerRead, ExponentOf, NumberExponent, Tiny

LEMMA ExponentLed ==
  ASSUME NEW t, IsSequence(t), NEW q \in 0 .. Len(t), NEW p \in Nat, NEW c, PowerRead(t, c, q, p),
         c.at \in {"e", "e+", "exponent"}, Shows(t, p) \in Decimal,
         NEW d, LedAt(t, c, p, "exponent", d)
  PROVE  /\ DigitsFrom(t, ExponentOf(t, q), p + 1) /\ d.exponent = Amount(t, ExponentOf(t, q), p + 1)
         /\ d.fraction = PlacesOf(t, q) /\ Powered(t, q) /\ ~Tiny(t, q) /\ ExponentOf(t, q) \in Nat
         /\ IF c.at = "exponent" /\ d.exponent > MaxExponent + d.fraction
              THEN TooGreat(t, ExponentOf(t, q), p + 1, PlacesOf(t, q))
              ELSE PowerRead(t, d, q, p + 1)
<1>1. "+" \notin Decimal /\ "-" \notin Decimal
  BY CharactersAre
<1>2. Mantissa(t, c, q) /\ Powered(t, q)
  BY DEF PowerRead, Mantissa
<1>3. ExponentOf(t, q) \in Nat
  <2>1. ExponentOf(t, q) \in 0 .. Len(t) /\ Len(t) \in Nat
    BY <1>2, NumberPart, LengthIs
  <2> QED  BY <2>1
<1>4. /\ ~Tiny(t, q)
      /\ DigitsFrom(t, ExponentOf(t, q), p) \/ ExponentOf(t, q) = p
      /\ c.exponent = Amount(t, ExponentOf(t, q), p)
      /\ c.at # "exponent" => p = ExponentOf(t, q)
      /\ c.at = "exponent" => DigitsFrom(t, ExponentOf(t, q), p)
  <2>1. CASE c.at = "exponent"
    BY <2>1 DEF PowerRead
  <2>2. CASE c.at \in {"e", "e+"}
    <3>1. p = ExponentOf(t, q) /\ ~Tiny(t, q)
      BY <1>1, <2>2, PowerStarts
    <3>2. c.exponent = 0
      BY <2>2 DEF PowerRead
    <3>3. Amount(t, p, p) = 0
      BY AmountNone
    <3> QED  BY <2>2, <3>1, <3>2, <3>3
  <2> QED  BY <2>1, <2>2
<1>5. /\ DigitsFrom(t, ExponentOf(t, q), p + 1)
      /\ \A i \in ExponentOf(t, q) .. p : Shows(t, i) \in Decimal
  BY <1>3, <1>4, OneMore
<1>6. ExponentOf(t, q) <= p
  BY <1>3, <1>4 DEF DigitsFrom
<1>7. Amount(t, ExponentOf(t, q), p + 1) = c.exponent * 10 + DigitOf(Shows(t, p))
  BY <1>3, <1>4, <1>5, <1>6, AmountNext
<1>8. /\ d.at = "exponent" /\ d.type = c.type /\ d.fraction = c.fraction
      /\ d.exponent = c.exponent * 10 + DigitOf(Shows(t, p))
  BY DEF LedAt, Led
<1>9. d.fraction = PlacesOf(t, q) /\ Mantissa(t, d, q)
  BY <1>2, <1>8 DEF Mantissa
<1>10. CASE c.at = "exponent" /\ d.exponent > MaxExponent + d.fraction
  <2>1. p + 1 > ExponentOf(t, q) + 1
    BY <1>3, <1>4, <1>10 DEF DigitsFrom
  <2>2. TooGreat(t, ExponentOf(t, q), p + 1, PlacesOf(t, q))
    BY <1>7, <1>8, <1>9, <1>10, <2>1 DEF TooGreat
  <2> QED  BY <1>2, <1>3, <1>4, <1>5, <1>7, <1>8, <1>9, <1>10, <2>2
<1>11. CASE ~(c.at = "exponent" /\ d.exponent > MaxExponent + d.fraction)
  <2>1. ~TooGreat(t, ExponentOf(t, q), p + 1, PlacesOf(t, q))
    <3>1. CASE c.at = "exponent"
      BY <1>7, <1>8, <1>9, <1>11, <3>1 DEF TooGreat
    <3>2. CASE c.at # "exponent"
      BY <1>3, <1>4, <3>2 DEF TooGreat
    <3> QED  BY <3>1, <3>2
  <2>2. PowerRead(t, d, q, p + 1)
    BY <1>4, <1>5, <1>7, <1>8, <1>9, <2>1 DEF PowerRead
  <2> QED  BY <1>2, <1>3, <1>4, <1>5, <1>7, <1>8, <1>9, <1>11, <2>2
<1> QED  BY <1>10, <1>11

LEMMA TinyLed ==
  ASSUME NEW t, IsSequence(t), NEW q \in 0 .. Len(t), NEW p \in Nat, NEW c, PowerRead(t, c, q, p),
         c.at \in {"e-", "tiny"}, Shows(t, p) \in Decimal,
         NEW d, LedAt(t, c, p, "tiny", d)
  PROVE  PowerRead(t, d, q, p + 1)
<1>1. Mantissa(t, c, q) /\ Powered(t, q)
  BY DEF PowerRead, Mantissa
<1>2. ExponentOf(t, q) \in Nat
  <2>1. ExponentOf(t, q) \in 0 .. Len(t) /\ Len(t) \in Nat
    BY <1>1, NumberPart, LengthIs
  <2> QED  BY <2>1
<1>3. Tiny(t, q) /\ (DigitsFrom(t, ExponentOf(t, q), p) \/ ExponentOf(t, q) = p)
  <2>1. CASE c.at = "tiny"
    BY <2>1 DEF PowerRead
  <2>2. CASE c.at = "e-"
    BY <2>2, PowerStarts
  <2> QED  BY <2>1, <2>2
<1>4. DigitsFrom(t, ExponentOf(t, q), p + 1)
  BY <1>2, <1>3, OneMore
<1>5. d.at = "tiny" /\ d.type = c.type /\ d.fraction = c.fraction
  BY DEF LedAt, Led
<1>6. Mantissa(t, d, q)
  BY <1>1, <1>5 DEF Mantissa
<1> QED  BY <1>3, <1>4, <1>5, <1>6 DEF PowerRead

-----------------------------------------------------------------------------
(* Where a number ends, or is none. *)

\* What EndNumber pushes.
Number(c) == IF c.type = "int" THEN IntValue(IF c.neg THEN -c.int ELSE c.int) ELSE Value(c.type)

LEMMA WholeNumber ==
  ASSUME NEW t, IsSequence(t), NEW q \in 0 .. Len(t), NEW p \in 0 .. Len(t), NEW c, WholeRead(t, c, q, p),
         Shows(t, p) \notin {".", "e", "E"}, c.at = "digits" => Shows(t, p) \notin Decimal
  PROVE  NumberAt(t, q) = Got(Number(c), p)
<1>1. NumberWhole(t, q) = p /\ p # NumberFirst(t, q) /\ Counted(t, c, q, p)
  BY WholeEnds
<1>2. ~Pointed(t, q)
  BY <1>1 DEF Pointed
<1>3. FractionOf(t, q) = p
  BY <1>1, <1>2, NoFraction
<1>4. ~Powered(t, q) /\ EndOf(t, q) = p
  BY <1>3 DEF Powered, EndOf, NumberEnd
<1>5. NumberAt(t, q) = Got(NumberValue(t, q, p, p), p)
  BY <1>1, <1>2, <1>3, <1>4, NumberFound
<1>6. NumberFirst(t, q) \in Nat /\ p \in Nat /\ NumberFirst(t, q) <= p
  <2>1. /\ NumberFirst(t, q) \in 0 .. Len(t) /\ NumberFirst(t, q) <= NumberWhole(t, q)
        /\ Len(t) \in Nat
    BY NumberPart, LengthIs
  <2> QED  BY <1>1, <2>1
<1>7. Amount(t, NumberFirst(t, q), p) \in Nat
  <2>1. \A i \in NumberFirst(t, q) .. p - 1 : Shows(t, i) \in Decimal
    <3>1. CASE c.at = "zero"
      BY <1>6, <3>1, CharactersAre DEF WholeRead
    <3>2. CASE c.at = "digits"
      BY <3>2 DEF WholeRead, DigitsFrom
    <3> QED  BY <3>1, <3>2 DEF WholeRead
  <2> QED  BY <1>6, <2>1, AmountGrows
<1>8. Limit(t, q) \in Nat
  BY LimitsAssumption DEF Limit
<1>9. NumberValue(t, q, p, p) = Number(c)
  <2>1. NumberValue(t, q, p, p) = IF Amount(t, NumberFirst(t, q), p) > Limit(t, q) THEN Value("wide")
                                  ELSE IntValue(Signed(t, q, Amount(t, NumberFirst(t, q), p)))
    BY <1>1, <1>2, <1>3, <1>4 DEF NumberValue, Pointed, Powered
  <2>2. CASE c.type = "int"
    <3>1. c.int = Amount(t, NumberFirst(t, q), p) /\ ~(Amount(t, NumberFirst(t, q), p) > Limit(t, q))
      BY <1>1, <1>7, <1>8, <2>2 DEF Counted
    <3>2. Signed(t, q, c.int) = IF c.neg THEN -c.int ELSE c.int
      <4>1. c.neg = (Shows(t, q) = "-")
        BY DEF WholeRead
      <4> QED  BY <4>1 DEF Signed
    <3> QED  BY <2>1, <2>2, <3>1, <3>2 DEF Number
  <2>3. CASE c.type # "int"
    BY <1>1, <2>1, <2>3 DEF Number, Counted
  <2> QED  BY <2>2, <2>3
<1> QED  BY <1>5, <1>9

LEMMA FractionNumber ==
  ASSUME NEW t, IsSequence(t), NEW q \in 0 .. Len(t), NEW p \in 0 .. Len(t), NEW c, FractionRead(t, c, q, p),
         c.at = "fraction", Shows(t, p) \notin {"e", "E"}, Shows(t, p) \notin Decimal
  PROVE  NumberAt(t, q) = Got(Number(c), p)
<1>1. /\ FractionOf(t, q) = p /\ p # NumberWhole(t, q) + 1
      /\ NumberWhole(t, q) # NumberFirst(t, q) /\ Pointed(t, q) /\ c.type = "double"
  BY FractionEnds DEF FractionRead
<1>2. ~Powered(t, q) /\ EndOf(t, q) = p
  BY <1>1 DEF Powered, EndOf, NumberEnd
<1>3. NumberAt(t, q) = Got(NumberValue(t, q, NumberWhole(t, q), p), p)
  BY <1>1, <1>2, NumberFound
<1>4. NumberValue(t, q, NumberWhole(t, q), p) = Number(c)
  BY <1>1 DEF NumberValue, Pointed, Number
<1> QED  BY <1>3, <1>4

LEMMA PowerEnds ==
  ASSUME NEW t, IsSequence(t), NEW q \in 0 .. Len(t), NEW p \in 0 .. Len(t), Powered(t, q),
         DigitsFrom(t, ExponentOf(t, q), p) \/ ExponentOf(t, q) = p, Shows(t, p) \notin Decimal
  PROVE  EndOf(t, q) = p
<1>1. ExponentOf(t, q) \in 0 .. Len(t) /\ Len(t) \in Nat
  BY NumberPart, LengthIs
<1>2. p \in ExponentOf(t, q) .. Len(t) /\ \A i \in ExponentOf(t, q) .. p - 1 : Shows(t, i) \in Decimal
  BY <1>1 DEF DigitsFrom
<1>3. Past(t, ExponentOf(t, q), Decimal) = p
  BY <1>1, <1>2, DigitsEnd
<1> QED  BY <1>3 DEF EndOf, NumberEnd, Powered, ExponentOf

LEMMA PowerNumber ==
  ASSUME NEW t, IsSequence(t), NEW q \in 0 .. Len(t), NEW p \in 0 .. Len(t), NEW c, PowerRead(t, c, q, p),
         c.at \in {"exponent", "tiny"}, Shows(t, p) \notin Decimal
  PROVE  NumberAt(t, q) = Got(Number(c), p)
<1>1. /\ NumberWhole(t, q) # NumberFirst(t, q) /\ Powered(t, q) /\ c.type = "double"
      /\ Pointed(t, q) => FractionOf(t, q) # NumberWhole(t, q) + 1
  BY DEF PowerRead, Mantissa
<1>2. /\ DigitsFrom(t, ExponentOf(t, q), p)
      /\ ~Tiny(t, q) => ~TooGreat(t, ExponentOf(t, q), p, PlacesOf(t, q))
  BY DEF PowerRead
<1>3. EndOf(t, q) = p
  BY <1>1, <1>2, PowerEnds
<1>4. p # ExponentOf(t, q)
  <2>1. ExponentOf(t, q) \in 0 .. Len(t) /\ Len(t) \in Nat
    BY <1>1, NumberPart, LengthIs
  <2> QED  BY <1>2, <2>1 DEF DigitsFrom
<1>5. NumberAt(t, q) = Got(NumberValue(t, q, NumberWhole(t, q), FractionOf(t, q)), p)
  BY <1>1, <1>2, <1>3, <1>4, NumberFound
<1>6. NumberValue(t, q, NumberWhole(t, q), FractionOf(t, q)) = Number(c)
  BY <1>1 DEF NumberValue, Powered, Number
<1> QED  BY <1>5, <1>6

\* An exponent that is too big only grows.
LEMMA TooBigFails ==
  ASSUME NEW t, IsSequence(t), NEW q \in 0 .. Len(t), NEW p \in Nat, Powered(t, q), ~Tiny(t, q),
         DigitsFrom(t, ExponentOf(t, q), p), TooGreat(t, ExponentOf(t, q), p, PlacesOf(t, q)),
         PlacesOf(t, q) \in Int
  PROVE  ~NumberAt(t, q).ok
<1>1. ExponentOf(t, q) \in 0 .. Len(t) /\ ExponentOf(t, q) \in Nat /\ Len(t) \in Nat
  <2>1. ExponentOf(t, q) \in 0 .. Len(t) /\ Len(t) \in Nat
    BY NumberPart, LengthIs
  <2> QED  BY <2>1
<1>2. EndsRun(t, ExponentOf(t, q), Decimal, EndOf(t, q))
  <2>1. EndOf(t, q) = Past(t, ExponentOf(t, q), Decimal)
    BY DEF EndOf, NumberEnd, Powered, ExponentOf
  <2> QED  BY <1>1, <2>1, CharactersAre, PastIs
<1>3. EndOf(t, q) \in Nat /\ p <= EndOf(t, q)
  <2>1. EndOf(t, q) \in ExponentOf(t, q) .. Len(t) /\ Shows(t, EndOf(t, q)) \notin Decimal
    BY <1>2 DEF EndsRun
  <2>2. ASSUME EndOf(t, q) < p PROVE FALSE
    <3>1. EndOf(t, q) \in ExponentOf(t, q) .. p - 1
      BY <1>1, <2>1, <2>2
    <3> QED  BY <2>1, <3>1 DEF DigitsFrom
  <2> QED  BY <1>1, <2>1, <2>2
<1>4. \A i \in ExponentOf(t, q) .. EndOf(t, q) - 1 : Shows(t, i) \in Decimal
  BY <1>2 DEF EndsRun
<1>5. /\ Amount(t, ExponentOf(t, q), p) <= Amount(t, ExponentOf(t, q), EndOf(t, q))
      /\ Amount(t, ExponentOf(t, q), p) \in Nat /\ Amount(t, ExponentOf(t, q), EndOf(t, q)) \in Nat
  <2>1. ExponentOf(t, q) <= p
    BY <1>1 DEF DigitsFrom
  <2> QED  BY <1>1, <1>3, <1>4, <2>1, AmountGrows
<1>6. TooGreat(t, ExponentOf(t, q), EndOf(t, q), PlacesOf(t, q))
  BY <1>1, <1>3, <1>5, LimitsAssumption DEF TooGreat
<1> QED  BY <1>6, NumberFails

LEMMA StartFails ==
  ASSUME NEW t, IsSequence(t), NEW q \in 0 .. Len(t), NEW p \in 0 .. Len(t), NEW c, StartRead(t, c, q, p),
         Shows(t, p) \notin Decimal, c.at = "start" => Shows(t, p) # "-"
  PROVE  ~NumberAt(t, q).ok
<1>1. NumberFirst(t, q) = p
  BY DEF StartRead, NumberFirst
<1>2. Shows(t, p) # "0"
  BY CharactersAre
<1>3. Past(t, p, Decimal) = p
  BY CharactersAre, PastStays
<1>4. NumberWhole(t, q) = NumberFirst(t, q)
  BY <1>1, <1>2, <1>3 DEF NumberWhole
<1> QED  BY <1>4, NumberFails

LEMMA PointFails ==
  ASSUME NEW t, IsSequence(t), NEW q \in 0 .. Len(t), NEW p \in 0 .. Len(t), NEW c, FractionRead(t, c, q, p),
         c.at = "point", Shows(t, p) \notin Decimal
  PROVE  ~NumberAt(t, q).ok
<1>1. Pointed(t, q) /\ FractionOf(t, q) = NumberWhole(t, q) + 1
  BY FractionEnds DEF FractionRead
<1> QED  BY <1>1, NumberFails

LEMMA PowerFails ==
  ASSUME NEW t, IsSequence(t), NEW q \in 0 .. Len(t), NEW p \in 0 .. Len(t), NEW c, PowerRead(t, c, q, p),
         c.at \in {"e", "e+", "e-"}, Shows(t, p) \notin Decimal, c.at = "e" => Shows(t, p) \notin {"+", "-"}
  PROVE  ~NumberAt(t, q).ok
<1>1. Powered(t, q)
  BY DEF PowerRead, Mantissa
<1>2. p = ExponentOf(t, q)
  BY PowerStarts
<1>3. EndOf(t, q) = ExponentOf(t, q)
  BY <1>1, <1>2, PowerEnds
<1> QED  BY <1>1, <1>3, NumberFails

-----------------------------------------------------------------------------
(* The call that reads a number. *)

\* The edges of NumberEdges: x leads from the part `at` of a number to `to`.
LeadsTo(at, x, to) ==
  \/ at = "start" /\ x = "-" /\ to = "sign"
  \/ at \in {"start", "sign"} /\ x = "0" /\ to = "zero"
  \/ at \in {"start", "sign"} /\ x \in Decimal \ {"0"} /\ to = "digits"
  \/ at = "digits" /\ x \in Decimal /\ to = "digits"
  \/ at \in {"zero", "digits"} /\ x = "." /\ to = "point"
  \/ at \in {"point", "fraction"} /\ x \in Decimal /\ to = "fraction"
  \/ at \in {"zero", "digits", "fraction"} /\ x \in {"e", "E"} /\ to = "e"
  \/ at = "e" /\ ((x = "+" /\ to = "e+") \/ (x = "-" /\ to = "e-"))
  \/ at \in {"e", "e+", "exponent"} /\ x \in Decimal /\ to = "exponent"
  \/ at \in {"e-", "tiny"} /\ x \in Decimal /\ to = "tiny"

LEMMA NumberStage ==
  ASSUME NEW t, NEW c, NEW q, NEW p, NumberRead(t, c, q, p)
  PROVE  \/ c.at \in {"start", "sign"} /\ StartRead(t, c, q, p)
         \/ c.at \in {"zero", "digits"} /\ WholeRead(t, c, q, p)
         \/ c.at \in {"point", "fraction"} /\ FractionRead(t, c, q, p)
         \/ c.at \in {"e", "e+", "e-", "exponent", "tiny"} /\ PowerRead(t, c, q, p)
<1>1. CASE StartRead(t, c, q, p)
  BY <1>1 DEF StartRead
<1>2. CASE WholeRead(t, c, q, p)
  BY <1>2 DEF WholeRead
<1>3. CASE FractionRead(t, c, q, p)
  BY <1>3 DEF FractionRead
<1>4. CASE PowerRead(t, c, q, p)
  BY <1>4 DEF PowerRead
<1> QED  BY <1>1, <1>2, <1>3, <1>4 DEF NumberRead

LEMMA NumberStarts ==
  ASSUME NEW t, NEW p \in 0 .. Len(t), NEW c, c.at = "start", c.neg = FALSE,
         c.type = "int", c.int = 0, c.fraction = 0, c.exponent = 0
  PROVE  NumberComes(t, c, p, NumberAt(t, p))
BY DEF NumberComes, NumberRead, StartRead

LEMMA PlacesAre == ASSUME NEW t, IsSequence(t), NEW q \in 0 .. Len(t) PROVE PlacesOf(t, q) \in Int
<1>1. FractionOf(t, q) \in 0 .. Len(t) /\ NumberWhole(t, q) \in 0 .. Len(t)
  BY NumberPart
<1> QED  BY <1>1 DEF PlacesOf

LEMMA NumberGoesOn ==
  ASSUME NEW t, IsSequence(t), NEW p \in 0 .. Len(t), NEW c, NEW r, NumberComes(t, c, p, r),
         NEW to, LeadsTo(c.at, Shows(t, p), to), NEW d, LedAt(t, c, p, to, d)
  PROVE  IF c.at = "exponent" /\ d.exponent > MaxExponent + d.fraction THEN ~r.ok
         ELSE NumberComes(t, d, p + 1, r)
<1>1. PICK q \in 0 .. Len(t) : r = NumberAt(t, q) /\ NumberRead(t, c, q, p)
  BY DEF NumberComes
<1>2. /\ c.at \in {"start", "sign"} => StartRead(t, c, q, p)
      /\ c.at \in {"zero", "digits"} => WholeRead(t, c, q, p)
      /\ c.at \in {"point", "fraction"} => FractionRead(t, c, q, p)
      /\ c.at \in {"e", "e+", "e-", "exponent", "tiny"} => PowerRead(t, c, q, p)
  BY <1>1, NumberStage
<1>3. p \in Nat
  BY LengthIs
<1>4. ASSUME NumberRead(t, d, q, p + 1) PROVE NumberComes(t, d, p + 1, r)
  BY <1>1, <1>4 DEF NumberComes
<1>5. CASE c.at = "start" /\ Shows(t, p) = "-" /\ to = "sign"
  <2>1. StartRead(t, d, q, p + 1)
    BY <1>2, <1>5, SignLed
  <2> QED  BY <1>4, <1>5, <2>1 DEF NumberRead
<1>6. CASE c.at \in {"start", "sign"} /\ Shows(t, p) = "0" /\ to = "zero"
  <2>1. WholeRead(t, d, q, p + 1)
    BY <1>2, <1>6, ZeroLed
  <2> QED  BY <1>4, <1>6, <2>1 DEF NumberRead
<1>7. CASE /\ to = "digits" /\ Shows(t, p) \in Decimal
           /\ \/ c.at \in {"start", "sign"} /\ Shows(t, p) # "0"
              \/ c.at = "digits"
  <2>1. \/ StartRead(t, c, q, p) /\ Shows(t, p) # "0"
        \/ WholeRead(t, c, q, p) /\ c.at = "digits"
    BY <1>2, <1>7
  <2>2. WholeRead(t, d, q, p + 1)
    BY <1>7, <2>1, DigitsLed
  <2> QED  BY <1>4, <1>7, <2>2 DEF NumberRead
<1>8. CASE c.at \in {"zero", "digits"} /\ Shows(t, p) = "." /\ to = "point"
  <2>1. FractionRead(t, d, q, p + 1)
    BY <1>2, <1>8, PointLed
  <2> QED  BY <1>4, <1>8, <2>1 DEF NumberRead
<1>9. CASE c.at \in {"point", "fraction"} /\ Shows(t, p) \in Decimal /\ to = "fraction"
  <2>1. FractionRead(t, d, q, p + 1)
    BY <1>2, <1>9, FractionLed
  <2> QED  BY <1>4, <1>9, <2>1 DEF NumberRead
<1>10. CASE c.at \in {"zero", "digits", "fraction"} /\ Shows(t, p) \in {"e", "E"} /\ to = "e"
  <2>1. WholeRead(t, c, q, p) \/ (FractionRead(t, c, q, p) /\ c.at = "fraction")
    BY <1>2, <1>10
  <2>2. PowerRead(t, d, q, p + 1)
    BY <1>10, <2>1, PowerLed
  <2> QED  BY <1>4, <1>10, <2>2 DEF NumberRead
<1>11. CASE c.at = "e" /\ ((Shows(t, p) = "+" /\ to = "e+") \/ (Shows(t, p) = "-" /\ to = "e-"))
  <2>1. PowerRead(t, d, q, p + 1)
    BY <1>2, <1>11, PowerSignLed
  <2> QED  BY <1>4, <1>11, <2>1 DEF NumberRead
<1>12. CASE c.at \in {"e", "e+", "exponent"} /\ Shows(t, p) \in Decimal /\ to = "exponent"
  <2>1. /\ DigitsFrom(t, ExponentOf(t, q), p + 1) /\ Powered(t, q) /\ ~Tiny(t, q)
        /\ IF c.at = "exponent" /\ d.exponent > MaxExponent + d.fraction
             THEN TooGreat(t, ExponentOf(t, q), p + 1, PlacesOf(t, q))
             ELSE PowerRead(t, d, q, p + 1)
    BY <1>2, <1>3, <1>12, ExponentLed
  <2>2. CASE c.at = "exponent" /\ d.exponent > MaxExponent + d.fraction
    <3>1. p + 1 \in Nat /\ PlacesOf(t, q) \in Int
      BY <1>3, PlacesAre
    <3>2. ~NumberAt(t, q).ok
      BY <2>1, <2>2, <3>1, TooBigFails
    <3> QED  BY <1>1, <2>2, <3>2
  <2>3. CASE ~(c.at = "exponent" /\ d.exponent > MaxExponent + d.fraction)
    BY <1>4, <2>1, <2>3 DEF NumberRead
  <2> QED  BY <2>2, <2>3
<1>13. CASE c.at \in {"e-", "tiny"} /\ Shows(t, p) \in Decimal /\ to = "tiny"
  <2>1. PowerRead(t, d, q, p + 1)
    BY <1>2, <1>3, <1>13, TinyLed
  <2> QED  BY <1>4, <1>13, <2>1 DEF NumberRead
<1> QED  BY <1>5, <1>6, <1>7, <1>8, <1>9, <1>10, <1>11, <1>12, <1>13 DEF LeadsTo

\* Nothing leads on.
LEMMA NoLead ==
  ASSUME NEW at, NEW x, \A to : ~LeadsTo(at, x, to)
  PROVE  /\ at \in {"start", "sign", "digits", "point", "fraction", "e", "e+", "e-", "exponent", "tiny"} => x \notin Decimal
         /\ at = "start" => x # "-"
         /\ at \in {"zero", "digits"} => x # "."
         /\ at \in {"zero", "digits", "fraction"} => x \notin {"e", "E"}
         /\ at = "e" => x \notin {"+", "-"}
<1>1. /\ ~LeadsTo(at, x, "sign") /\ ~LeadsTo(at, x, "zero") /\ ~LeadsTo(at, x, "digits")
      /\ ~LeadsTo(at, x, "point") /\ ~LeadsTo(at, x, "fraction") /\ ~LeadsTo(at, x, "e")
      /\ ~LeadsTo(at, x, "e+") /\ ~LeadsTo(at, x, "e-") /\ ~LeadsTo(at, x, "exponent")
      /\ ~LeadsTo(at, x, "tiny")
  OBVIOUS
<1>2. at \in {"start", "sign", "digits", "point", "fraction"} => x \notin Decimal
  BY <1>1 DEF LeadsTo
<1>3. at \in {"e", "e+", "e-", "exponent", "tiny"} => x \notin Decimal
  BY <1>1 DEF LeadsTo
<1>4. (at = "start" => x # "-") /\ (at \in {"zero", "digits"} => x # ".")
  BY <1>1 DEF LeadsTo
<1>5. at \in {"zero", "digits", "fraction"} => x \notin {"e", "E"}
  BY <1>1 DEF LeadsTo
<1>6. at = "e" => x \notin {"+", "-"}
  BY <1>1 DEF LeadsTo
<1> QED  BY <1>2, <1>3, <1>4, <1>5, <1>6

LEMMA NumberEnds ==
  ASSUME NEW t, IsSequence(t), NEW p \in 0 .. Len(t), NEW c, NEW r, NumberComes(t, c, p, r),
         \A to : ~LeadsTo(c.at, Shows(t, p), to)
  PROVE  IF c.at \in {"zero", "digits", "fraction", "exponent", "tiny"} THEN r = Got(Number(c), p)
         ELSE ~r.ok
<1>1. PICK q \in 0 .. Len(t) : r = NumberAt(t, q) /\ NumberRead(t, c, q, p)
  BY DEF NumberComes
<1> DEFINE at == c.at
           x == Shows(t, p)
<1>2. /\ at \in {"start", "sign", "digits", "point", "fraction", "e", "e+", "e-", "exponent", "tiny"} => x \notin Decimal
      /\ at = "start" => x # "-"
      /\ at \in {"zero", "digits"} => x # "."
      /\ at \in {"zero", "digits", "fraction"} => x \notin {"e", "E"}
      /\ at = "e" => x \notin {"+", "-"}
  BY NoLead
<1>3. CASE at \in {"start", "sign"} /\ StartRead(t, c, q, p)
  <2>1. ~NumberAt(t, q).ok
    BY <1>2, <1>3, StartFails
  <2> QED  BY <1>1, <1>3, <2>1
<1>4. CASE at \in {"zero", "digits"} /\ WholeRead(t, c, q, p)
  <2>1. NumberAt(t, q) = Got(Number(c), p)
    BY <1>2, <1>4, WholeNumber
  <2> QED  BY <1>1, <1>4, <2>1
<1>5. CASE at = "point" /\ FractionRead(t, c, q, p)
  <2>1. ~NumberAt(t, q).ok
    BY <1>2, <1>5, PointFails
  <2> QED  BY <1>1, <1>5, <2>1
<1>6. CASE at = "fraction" /\ FractionRead(t, c, q, p)
  <2>1. NumberAt(t, q) = Got(Number(c), p)
    BY <1>2, <1>6, FractionNumber
  <2> QED  BY <1>1, <1>6, <2>1
<1>7. CASE at \in {"e", "e+", "e-"} /\ PowerRead(t, c, q, p)
  <2>1. ~NumberAt(t, q).ok
    BY <1>2, <1>7, PowerFails
  <2> QED  BY <1>1, <1>7, <2>1
<1>8. CASE at \in {"exponent", "tiny"} /\ PowerRead(t, c, q, p)
  <2>1. NumberAt(t, q) = Got(Number(c), p)
    BY <1>2, <1>8, PowerNumber
  <2> QED  BY <1>1, <1>8, <2>1
<1>9. \/ at \in {"start", "sign"} /\ StartRead(t, c, q, p)
      \/ at \in {"zero", "digits"} /\ WholeRead(t, c, q, p)
      \/ at \in {"point", "fraction"} /\ FractionRead(t, c, q, p)
      \/ at \in {"e", "e+", "e-", "exponent", "tiny"} /\ PowerRead(t, c, q, p)
  BY <1>1, NumberStage
<1> QED  BY <1>3, <1>4, <1>5, <1>6, <1>7, <1>8, <1>9

-----------------------------------------------------------------------------
(* The calls of the reader and the stack. *)

CallFields == {"fn", "at", "base", "n", "text", "hex", "neg", "int", "exponent",
               "fraction", "type", "result"}
IsCall(c) == DOMAIN c = CallFields /\ c.base \in Nat /\ c.n \in Nat

CallsGood ==
  /\ IsSequence(calls) /\ Len(calls) >= 1
  /\ \A i \in 1 .. Len(calls) :
       /\ IsCall(calls[i])
       /\ calls[i].fn = "root" <=> i = 1
       /\ Nested(calls[i]) /\ calls[i].at = "first" => calls[i].n = 0
  /\ calls[1].base = 0

\* The induction: StackBalanced, and what it needs of the calls.
Balance == (status = "parsing" => CallsGood /\ IsSequence(stack)) /\ StackBalanced

LEMMA TopIsCall ==
  ASSUME CallsGood
  PROVE  /\ Len(calls) \in Nat /\ Len(calls) \in 1 .. Len(calls)
         /\ IsCall(Top)
         /\ Top.fn = "root" <=> Len(calls) = 1
         /\ Nested(Top) /\ Top.at = "first" => Top.n = 0
<1>1. Len(calls) \in Nat /\ Len(calls) >= 1
  BY LengthIs DEF CallsGood
<1>2. Len(calls) \in 1 .. Len(calls)
  BY <1>1
<1>3. IsCall(calls[Len(calls)])
  BY <1>2 DEF CallsGood
<1>4. IsCall(Top)
  BY <1>3 DEF Top
<1>5. calls[Len(calls)].fn = "root" <=> Len(calls) = 1
  BY <1>2 DEF CallsGood
<1>6. Nested(calls[Len(calls)]) /\ calls[Len(calls)].at = "first" => calls[Len(calls)].n = 0
  BY <1>2 DEF CallsGood
<1> QED  BY <1>1, <1>2, <1>4, <1>5, <1>6 DEF Top

LEMMA TopReplaced ==
  ASSUME CallsGood, NEW c
  PROVE  /\ IsSequence([calls EXCEPT ![Len(calls)] = c])
         /\ Len([calls EXCEPT ![Len(calls)] = c]) = Len(calls)
         /\ \A i \in 1 .. Len(calls) :
              [calls EXCEPT ![Len(calls)] = c][i] = IF i = Len(calls) THEN c ELSE calls[i]
<1>1. IsSequence(calls) /\ Len(calls) >= 1
  BY DEF CallsGood
<1> QED  BY <1>1, LastReplaced

LEMMA HeldIsNat == ASSUME NEW c, IsCall(c) PROVE Held(c) \in Nat
BY DEF IsCall, Held, Begun

LEMMA MovedCall ==
  ASSUME NEW c, IsCall(c), NEW at
  PROVE  LET d == [c EXCEPT !.at = at] IN
         IsCall(d) /\ d.fn = c.fn /\ d.base = c.base /\ d.n = c.n /\ d.at = at
BY DEF IsCall, CallFields

LEMMA NewCall ==
  ASSUME NEW fn, NEW at, IsSequence(stack)
  PROVE  LET c == Call(fn, at) IN
         IsCall(c) /\ c.fn = fn /\ c.at = at /\ c.base = Len(stack) /\ c.n = 0
BY LengthIs DEF IsCall, CallFields, Call

\* The innermost call changes and the stack does not.
LEMMA Staying ==
  ASSUME Balance, status = "parsing", status' = "parsing", UNCHANGED stack,
         NEW c, IsCall(c), Becomes(c), c.fn = Top.fn, c.base = Top.base,
         Held(c) = Held(Top), Nested(c) /\ c.at = "first" => c.n = 0
  PROVE  Balance'
<1>1. CallsGood /\ IsSequence(stack) /\ StackBalanced
  BY DEF Balance
<1>2. /\ IsSequence(calls') /\ Len(calls') = Len(calls)
      /\ \A i \in 1 .. Len(calls) : calls'[i] = IF i = Len(calls) THEN c ELSE calls[i]
  <2> DEFINE u == [calls EXCEPT ![Len(calls)] = c]
  <2>1. calls' = u
    BY DEF Becomes
  <2>2. /\ IsSequence(u) /\ Len(u) = Len(calls)
        /\ \A i \in 1 .. Len(calls) : u[i] = IF i = Len(calls) THEN c ELSE calls[i]
    BY <1>1, TopReplaced
  <2> HIDE DEF u
  <2> QED  BY <2>1, <2>2
<1>3. CallsGood'
  BY <1>1, <1>2, TopIsCall DEF CallsGood, Top
<1>4. StackBalanced'
  <2>1. Top' = c
    BY <1>1, <1>2, TopIsCall DEF Top
  <2>2. Len(stack') = Top'.base + Held(c)
    BY <1>1, <2>1 DEF StackBalanced
  <2>3. ASSUME NEW i \in 1 .. Len(calls') - 1
        PROVE  calls'[i + 1].base = calls'[i].base + Held(calls'[i]) - 1
    <3>1. /\ calls'[i] = calls[i] /\ calls'[i + 1].base = calls[i + 1].base
          /\ i \in 1 .. Len(calls) - 1
      BY <1>1, <1>2, <2>3, TopIsCall DEF Top
    <3> QED  BY <1>1, <3>1 DEF StackBalanced
  <2> QED  BY <2>1, <2>2, <2>3 DEF StackBalanced, Held
<1> QED  BY <1>1, <1>3, <1>4 DEF Balance

\* A call is made: the caller counts the value it will return.
LEMMA Calling ==
  ASSUME Balance, status = "parsing", status' = "parsing",
         NEW at, NEW c, Enter(at, c), at # "first",
         IsCall(c), c.fn # "root", c.base = Len(stack), c.n = 0,
         Held([Top EXCEPT !.at = at]) = Held(Top) + 1,
         IsSequence(stack'), Len(stack') = Len(stack) + Held(c)
  PROVE  Balance'
<1> DEFINE t == [Top EXCEPT !.at = at]
<1>1. CallsGood /\ IsSequence(stack) /\ StackBalanced
  BY DEF Balance
<1>2. IsCall(t) /\ t.fn = Top.fn /\ t.base = Top.base /\ t.at = at /\ t.n = Top.n
  BY <1>1, TopIsCall, MovedCall
<1>3. calls' = Append([calls EXCEPT ![Len(calls)] = t], c)
  BY DEF Enter, Top
<1>4. /\ IsSequence(calls') /\ Len(calls') = Len(calls) + 1
      /\ \A i \in 1 .. Len(calls) : calls'[i] = IF i = Len(calls) THEN t ELSE calls[i]
      /\ calls'[Len(calls) + 1] = c
  <2> HIDE DEF t
  <2> DEFINE u == [calls EXCEPT ![Len(calls)] = t]
  <2>1. IsSequence(calls) /\ Len(calls) \in 1 .. Len(calls) /\ Len(calls) \in Nat
    BY <1>1, TopIsCall DEF CallsGood
  <2>2. calls' = Append(u, c)
    BY <1>3
  <2>3. /\ IsSequence(u) /\ Len(u) = Len(calls)
        /\ \A i \in 1 .. Len(calls) : u[i] = IF i = Len(calls) THEN t ELSE calls[i]
    BY <1>1, TopReplaced
  <2> HIDE DEF u
  <2>4. /\ IsSequence(calls') /\ Len(calls') = Len(u) + 1
        /\ \A i \in 1 .. Len(u) : calls'[i] = u[i]
        /\ calls'[Len(u) + 1] = c
    BY <2>2, <2>3, Appended
  <2> QED  BY <2>1, <2>3, <2>4
<1>5. CallsGood'
  <2> HIDE DEF t
  <2>1. /\ Len(calls) \in Nat /\ Len(calls) >= 1 /\ IsCall(Top)
        /\ Top.fn = "root" <=> Len(calls) = 1
        /\ calls[1].base = 0
    BY <1>1, TopIsCall DEF CallsGood
  <2>2. ASSUME NEW i \in 1 .. Len(calls')
        PROVE  /\ IsCall(calls'[i])
               /\ calls'[i].fn = "root" <=> i = 1
               /\ Nested(calls'[i]) /\ calls'[i].at = "first" => calls'[i].n = 0
    <3>1. CASE i = Len(calls) + 1
      BY <1>4, <2>1, <3>1
    <3>2. CASE i = Len(calls)
      BY <1>2, <1>4, <2>1, <3>2
    <3>3. CASE i \in 1 .. Len(calls) /\ i # Len(calls)
      <4>1. calls'[i] = calls[i]
        BY <1>4, <3>3
      <4> QED  BY <1>1, <3>3, <4>1 DEF CallsGood
    <3> QED  BY <1>4, <2>1, <3>1, <3>2, <3>3
  <2>3. calls'[1].base = 0
    BY <1>2, <1>4, <2>1 DEF Top
  <2> QED  BY <1>4, <2>1, <2>2, <2>3 DEF CallsGood
<1>6. StackBalanced'
  <2>1. Held(t) = Held(Top) + 1
    OBVIOUS
  <2> HIDE DEF t
  <2>2. Top' = c /\ Len(stack') = Top'.base + Held(c)
    BY <1>1, <1>4, TopIsCall DEF Top
  <2>3. ASSUME NEW i \in 1 .. Len(calls') - 1
        PROVE  calls'[i + 1].base = calls'[i].base + Held(calls'[i]) - 1
    <3>1. CASE i = Len(calls)
      <4>1. calls'[i] = t /\ calls'[i + 1] = c
        BY <1>1, <1>4, <3>1, TopIsCall
      <4>2. Len(stack) = Top.base + Held(Top) /\ Held(Top) \in Nat /\ Top.base \in Nat
        BY <1>1, TopIsCall, HeldIsNat DEF StackBalanced, IsCall
      <4> QED  BY <1>2, <2>1, <4>1, <4>2
    <3>2. CASE i # Len(calls)
      <4>1. i \in 1 .. Len(calls) - 1 /\ calls'[i] = calls[i]
        BY <1>1, <1>4, <3>2, TopIsCall
      <4>2. calls'[i + 1].base = calls[i + 1].base
        <5>1. CASE i + 1 = Len(calls)
          BY <1>2, <1>4, <4>1, <5>1 DEF Top
        <5>2. CASE i + 1 # Len(calls)
          BY <1>4, <4>1, <5>2
        <5> QED  BY <5>1, <5>2
      <4> QED  BY <1>1, <4>1, <4>2 DEF StackBalanced
    <3> QED  BY <3>1, <3>2
  <2> QED  BY <2>2, <2>3 DEF StackBalanced, Held
<1> QED  BY <1>5, <1>6 DEF Balance

\* A call returns, and leaves one value where it found the stack.
LEMMA Returning ==
  ASSUME Balance, status = "parsing", status' = "parsing",
         Return, Top.fn # "root",
         IsSequence(stack'), Len(stack') = Top.base + 1
  PROVE  Balance'
<1>1. CallsGood /\ StackBalanced
  BY DEF Balance
<1>2. Len(calls) \in Nat /\ Len(calls) - 1 \in 1 .. Len(calls)
  <2>1. Len(calls) \in Nat /\ Len(calls) >= 1 /\ Len(calls) # 1
    BY <1>1, TopIsCall DEF CallsGood
  <2> QED  BY <2>1, OneLess
<1>3. /\ IsSequence(calls') /\ Len(calls') = Len(calls) - 1
      /\ \A i \in 1 .. Len(calls) - 1 : calls'[i] = calls[i]
  BY <1>1, <1>2, Shortened DEF CallsGood, Return, Front
<1>4. CallsGood'
  BY <1>1, <1>2, <1>3 DEF CallsGood
<1>5. StackBalanced'
  <2> DEFINE k == Len(calls) - 1
  <2>1. Top' = calls[k] /\ calls[k + 1] = Top
    BY <1>2, <1>3 DEF Top
  <2>2. calls[k + 1].base = calls[k].base + Held(calls[k]) - 1
    BY <1>1, <1>2 DEF StackBalanced
  <2>3. IsCall(calls[k]) /\ IsCall(Top)
    BY <1>1, <1>2, TopIsCall DEF CallsGood
  <2>4. Held(calls[k]) \in Nat /\ calls[k].base \in Nat /\ Top.base \in Nat
    BY <2>3, HeldIsNat DEF IsCall
  <2>5. Len(stack') = calls[k].base + Held(calls[k])
    BY <2>1, <2>2, <2>4
  <2>6. \A i \in 1 .. Len(calls') - 1 :
          calls'[i + 1].base = calls'[i].base + Held(calls'[i]) - 1
    BY <1>1, <1>2, <1>3 DEF StackBalanced
  <2> QED  BY <2>1, <2>5, <2>6 DEF StackBalanced, Held
<1> QED  BY <1>4, <1>5 DEF Balance

LEMMA Failing == ASSUME NEW code, Fail(code), code # "parsing" PROVE Balance'
BY DEF Fail, Balance, StackBalanced

-----------------------------------------------------------------------------
(* The steps of the reader. *)

LEMMA Due ==
  ASSUME CallsGood, ValueDue
  PROVE  Held([Top EXCEPT !.at = "after"]) = Held(Top) + 1 /\ status = "parsing"
<1> DEFINE t == [Top EXCEPT !.at = "after"]
<1>1. IsCall(t) /\ t.fn = Top.fn /\ t.at = "after" /\ t.n = Top.n /\ Top.n \in Nat
  BY TopIsCall, MovedCall DEF IsCall
<1>2. /\ status = "parsing"
      /\ \/ Top.fn = "root" /\ Top.at = "start"
         \/ Top.fn = "array" /\ Top.at \in {"first", "value"}
         \/ Top.fn = "object" /\ Top.at = "value"
  BY DEF ValueDue, Facing, InCall
<1> HIDE DEF t
<1>3. Held(t) = Held(Top) + 1
  BY <1>1, <1>2 DEF Held, Begun
<1> QED  BY <1>2, <1>3 DEF t

LEMMA NestedKeeps ==
  ASSUME Balance, NEW fn \in {"object", "array"}, NEW open, ParseNested(fn, open)
  PROVE  Balance'
<1> DEFINE c == Call(fn, "first")
<1>1. status = "parsing"
  BY DEF ParseNested, ValueDue, Facing, InCall
<1>2. CallsGood /\ IsSequence(stack)
  BY <1>1 DEF Balance
<1>3. Held([Top EXCEPT !.at = "after"]) = Held(Top) + 1
  BY <1>2, Due DEF ParseNested
<1>4. Enter("after", c) /\ stack' = Append(stack, Value(fn)) /\ status' = "parsing"
  BY <1>1 DEF ParseNested, Push, Same
<1>5. IsCall(c) /\ c.fn = fn /\ c.at = "first" /\ c.base = Len(stack) /\ c.n = 0
  BY <1>2, NewCall
<1> HIDE DEF c
<1>6. Held(c) = 1 /\ c.fn # "root"
  BY <1>5 DEF Held, Begun
<1>7. IsSequence(stack') /\ Len(stack') = Len(stack) + 1
  BY <1>2, <1>4, Appended
<1> QED  BY <1>1, <1>3, <1>4, <1>5, <1>6, <1>7, Calling

\* A call for a string, a literal or a number; it has nothing on the stack.
LEMMA PlainKeeps ==
  ASSUME Balance, status = "parsing", status' = "parsing", UNCHANGED stack,
         NEW at, at # "first", NEW c, Enter(at, c), IsCall(c),
         c.fn \in {"string", "literal", "number"}, c.base = Len(stack), c.n = 0,
         Held([Top EXCEPT !.at = at]) = Held(Top) + 1
  PROVE  Balance'
<1>1. IsSequence(stack')
  BY DEF Balance
<1>2. Held(c) = 0 /\ c.fn # "root"
  BY DEF Held
<1>3. Len(stack') = Len(stack) + Held(c)
  BY <1>2, LengthIs DEF Balance
<1> QED  BY <1>1, <1>2, <1>3, Calling

LEMMA StringKeeps == ASSUME Balance, ParseString PROVE Balance'
<1>1. status = "parsing" /\ status' = "parsing" /\ UNCHANGED stack
  BY DEF ParseString, ValueDue, Facing, InCall, Same
<1>2. CallsGood /\ IsSequence(stack) /\ Enter("after", Call("string", "chars"))
  BY <1>1 DEF Balance, ParseString
<1>3. Held([Top EXCEPT !.at = "after"]) = Held(Top) + 1
  BY <1>2, Due DEF ParseString
<1> DEFINE c == Call("string", "chars")
<1>4. IsCall(c) /\ c.fn = "string" /\ c.base = Len(stack) /\ c.n = 0
  BY <1>2, NewCall
<1>5. Enter("after", c)
  BY <1>2
<1> HIDE DEF c
<1> QED  BY <1>1, <1>3, <1>4, <1>5, PlainKeeps

LEMMA NumberKeeps == ASSUME Balance, ParseNumber PROVE Balance'
<1>1. status = "parsing" /\ status' = "parsing" /\ UNCHANGED stack
  BY DEF ParseNumber, ValueDue, Facing, InCall, Same
<1>2. CallsGood /\ IsSequence(stack) /\ Enter("after", Call("number", "start"))
  BY <1>1 DEF Balance, ParseNumber
<1>3. Held([Top EXCEPT !.at = "after"]) = Held(Top) + 1
  BY <1>2, Due DEF ParseNumber
<1> DEFINE c == Call("number", "start")
<1>4. IsCall(c) /\ c.fn = "number" /\ c.base = Len(stack) /\ c.n = 0
  BY <1>2, NewCall
<1>5. Enter("after", c)
  BY <1>2
<1> HIDE DEF c
<1> QED  BY <1>1, <1>3, <1>4, <1>5, PlainKeeps

LEMMA LiteralKeeps == ASSUME Balance, ParseLiteral PROVE Balance'
<1> DEFINE b == Call("literal", "rest")
           c == [b EXCEPT !.text = Literals[Peek][2], !.result = Literals[Peek][1]]
<1>1. status = "parsing" /\ status' = "parsing" /\ UNCHANGED stack
  BY DEF ParseLiteral, ValueDue, Facing, InCall, Same
<1>2. CallsGood /\ IsSequence(stack) /\ Enter("after", c)
  BY <1>1 DEF Balance, ParseLiteral
<1>3. Held([Top EXCEPT !.at = "after"]) = Held(Top) + 1
  BY <1>2, Due DEF ParseLiteral
<1>4. IsCall(b) /\ b.fn = "literal" /\ b.base = Len(stack) /\ b.n = 0
  BY <1>2, NewCall
<1>5. IsCall(c) /\ c.fn = b.fn /\ c.base = b.base /\ c.n = b.n
  <2> HIDE DEF b
  <2> QED  BY <1>4 DEF IsCall, CallFields
<1> HIDE DEF b, c
<1> QED  BY <1>1, <1>2, <1>3, <1>4, <1>5, PlainKeeps

\* A name of an object is a string too; the object waits in front of its colon.
LEMMA KeyKeeps == ASSUME Balance, Key PROVE Balance'
<1> DEFINE c == Call("string", "chars")
           t == [Top EXCEPT !.at = "colon"]
<1>1. /\ status = "parsing" /\ status' = "parsing" /\ UNCHANGED stack
      /\ Top.fn = "object" /\ Top.at \in {"first", "key"}
  BY DEF Key, Facing, InCall, Same
<1>2. CallsGood /\ IsSequence(stack) /\ Enter("colon", c)
  BY <1>1 DEF Balance, Key
<1>3. IsCall(t) /\ t.fn = Top.fn /\ t.at = "colon" /\ t.n = Top.n /\ Top.n \in Nat
  BY <1>2, TopIsCall, MovedCall DEF IsCall
<1>4. IsCall(c) /\ c.fn = "string" /\ c.base = Len(stack) /\ c.n = 0
  BY <1>2, NewCall
<1> HIDE DEF c, t
<1>5. Held(t) = Held(Top) + 1
  BY <1>1, <1>3 DEF Held, Begun
<1> QED  BY <1>1, <1>2, <1>4, <1>5, PlainKeeps DEF t

LEMMA ColonKeeps == ASSUME Balance, Colon PROVE Balance'
<1> DEFINE t == [Top EXCEPT !.at = "value"]
<1>1. /\ status = "parsing" /\ status' = "parsing" /\ UNCHANGED stack
      /\ Top.fn = "object" /\ Top.at = "colon"
  BY DEF Colon, Facing, InCall, Same
<1>2. CallsGood /\ Becomes(t)
  BY <1>1 DEF Balance, Colon, Goto, Becomes, Top
<1>3. IsCall(t) /\ t.fn = Top.fn /\ t.at = "value" /\ t.n = Top.n /\ t.base = Top.base
  BY <1>2, TopIsCall, MovedCall
<1> HIDE DEF t
<1>4. Held(t) = Held(Top) /\ t.at # "first"
  BY <1>1, <1>3 DEF Held, Begun
<1> QED  BY <1>1, <1>2, <1>3, <1>4, Staying

LEMMA CommaKeeps == ASSUME Balance, Comma PROVE Balance'
<1>1. status = "parsing" /\ status' = "parsing" /\ UNCHANGED stack /\ Top.at = "after"
  BY DEF Comma, Facing, InCall, Same
<1>2. CallsGood
  BY <1>1 DEF Balance
<1>3. PICK at \in {"key", "value"} :
        /\ Becomes([Top EXCEPT !.n = @ + 1, !.at = at])
        /\ \/ Top.fn = "object" /\ at = "key"
           \/ Top.fn = "array" /\ at = "value"
  <2>1. CASE Facing("object", {"after"}) /\ Becomes([Top EXCEPT !.n = @ + 1, !.at = "key"])
    BY <2>1 DEF Facing, InCall
  <2>2. CASE Facing("array", {"after"}) /\ Becomes([Top EXCEPT !.n = @ + 1, !.at = "value"])
    BY <2>2 DEF Facing, InCall
  <2> QED  BY <2>1, <2>2 DEF Comma
<1> DEFINE t == [Top EXCEPT !.n = @ + 1, !.at = at]
<1>4. IsCall(Top) /\ Top.n \in Nat
  BY <1>2, TopIsCall DEF IsCall
<1>5. IsCall(t) /\ t.fn = Top.fn /\ t.at = at /\ t.n = Top.n + 1 /\ t.base = Top.base
  BY <1>4 DEF IsCall, CallFields
<1>6. Becomes(t)
  BY <1>3
<1> HIDE DEF t
<1>7. Held(t) = Held(Top) /\ t.at # "first"
  BY <1>1, <1>3, <1>4, <1>5 DEF Held, Begun
<1> QED  BY <1>1, <1>5, <1>6, <1>7, Staying

\* EndObject and EndArray find what they pop above the base of their call.
LEMMA EndKeeps ==
  ASSUME Balance, status = "parsing", status' = "parsing", Return,
         Nested(Top), NEW n \in Nat, Held(Top) = n + 1, NEW type, EndHolding(type, n)
  PROVE  Balance'
<1>1. CallsGood /\ IsSequence(stack) /\ Len(stack) = Top.base + Held(Top) /\ IsCall(Top)
  BY TopIsCall DEF Balance, StackBalanced
<1>2. Len(stack) - n - 1 = Top.base /\ Top.base \in Nat /\ Top.base <= Len(stack)
  BY <1>1 DEF IsCall
<1> DEFINE rest == SubSeq(stack, 1, Top.base)
<1>3. PICK v : stack' = Append(rest, v)
  BY <1>2 DEF EndHolding
<1>4. Top.base \in 0 .. Len(stack)
  <2>1. Len(stack) \in Nat
    BY <1>1, LengthIs
  <2> QED  BY <1>2, <2>1
<1>5. IsSequence(rest) /\ Len(rest) = Top.base
  BY <1>1, <1>4, Shortened
<1> HIDE DEF rest
<1>6. IsSequence(stack') /\ Len(stack') = Top.base + 1
  BY <1>3, <1>5, Appended
<1>7. Top.fn # "root"
  BY DEF Nested
<1> QED  BY <1>6, <1>7, Returning

LEMMA EndsKeep == ASSUME Balance, EndObject \/ EndArray PROVE Balance'
<1>1. /\ status = "parsing" /\ status' = "parsing" /\ Return
      /\ Nested(Top) /\ Top.at \in {"first", "after"}
  BY DEF EndObject, EndArray, Facing, InCall, Same, Nested
<1>2. IsCall(Top) /\ Top.n \in Nat /\ (Top.at = "first" => Top.n = 0)
  BY <1>1, TopIsCall DEF Balance, IsCall
<1>3. CASE EndObject
  <2> DEFINE n == IF Top.at = "first" THEN 0 ELSE 2 * (Top.n + 1)
  <2>1. n \in Nat /\ Held(Top) = n + 1
    <3>1. Top.fn = "object"
      BY <1>3 DEF EndObject, Facing, InCall
    <3>2. CASE Top.at = "first"
      BY <1>2, <3>1, <3>2 DEF Held, Begun
    <3>3. CASE Top.at = "after"
      BY <1>2, <3>1, <3>3 DEF Held, Begun
    <3> QED  BY <1>1, <3>2, <3>3
  <2>2. EndHolding("object", n)
    BY <1>3 DEF EndObject
  <2> HIDE DEF n
  <2> QED  BY <1>1, <2>1, <2>2, EndKeeps
<1>4. CASE EndArray
  <2> DEFINE n == IF Top.at = "first" THEN 0 ELSE Top.n + 1
  <2>1. n \in Nat /\ Held(Top) = n + 1
    BY <1>1, <1>2, <1>4 DEF EndArray, Facing, InCall, Held, Begun
  <2>2. EndHolding("array", n)
    BY <1>4 DEF EndArray
  <2> HIDE DEF n
  <2> QED  BY <1>1, <2>1, <2>2, EndKeeps
<1> QED  BY <1>3, <1>4

\* A literal, a string or a number returns the value it pushes.
LEMMA PushKeeps ==
  ASSUME Balance, status = "parsing", status' = "parsing", Return,
         Top.fn \in {"literal", "string", "number"}, NEW v, Push(v)
  PROVE  Balance'
<1>1. CallsGood /\ IsSequence(stack) /\ Len(stack) = Top.base + Held(Top) /\ IsCall(Top)
  BY TopIsCall DEF Balance, StackBalanced
<1>2. Held(Top) = 0 /\ Top.fn # "root" /\ Top.base \in Nat
  BY <1>1 DEF Held, IsCall
<1>3. IsSequence(stack') /\ Len(stack') = Top.base + 1
  BY <1>1, <1>2, Appended DEF Push
<1> QED  BY <1>2, <1>3, Returning

\* A literal, a string or a number goes on in the same call.
LEMMA PlainGoesOn ==
  ASSUME Balance, status = "parsing", status' = "parsing", UNCHANGED stack,
         Top.fn \in {"literal", "string", "number"}, NEW c, Becomes(c),
         IsCall(c), c.fn = Top.fn, c.base = Top.base
  PROVE  Balance'
<1>1. Held(c) = 0 /\ Held(Top) = 0 /\ ~Nested(c)
  BY DEF Held, Nested
<1> QED  BY <1>1, Staying

LEMMA LetterKeeps == ASSUME Balance, Letter PROVE Balance'
<1>1. status = "parsing" /\ status' = "parsing" /\ Top.fn = "literal"
  BY DEF Letter, InCall, Same
<1>2. CASE Becomes([Top EXCEPT !.text = Tail(@)]) /\ UNCHANGED stack
  <2> DEFINE c == [Top EXCEPT !.text = Tail(@)]
  <2>1. IsCall(Top)
    BY <1>1, TopIsCall DEF Balance
  <2>2. IsCall(c) /\ c.fn = Top.fn /\ c.base = Top.base
    BY <2>1 DEF IsCall, CallFields
  <2>3. Becomes(c) /\ UNCHANGED stack
    BY <1>2
  <2> HIDE DEF c
  <2> QED  BY <1>1, <2>2, <2>3, PlainGoesOn
<1>3. CASE Return /\ Push(Value(Top.result))
  BY <1>1, <1>3, PushKeeps
<1> QED  BY <1>2, <1>3 DEF Letter

\* The steps inside a string.
LEMMA PutKeeps ==
  ASSUME Balance, status = "parsing", status' = "parsing", UNCHANGED stack,
         Top.fn = "string", NEW text, NEW at, Put(text, at)
  PROVE  Balance'
<1> DEFINE c == [Top EXCEPT !.text = @ \o text, !.at = at, !.hex = <<>>]
<1>1. IsCall(Top)
  BY TopIsCall DEF Balance
<1>2. IsCall(c) /\ c.fn = Top.fn /\ c.base = Top.base
  BY <1>1 DEF IsCall, CallFields
<1>3. Becomes(c)
  BY DEF Put
<1> HIDE DEF c
<1> QED  BY <1>2, <1>3, PlainGoesOn

LEMMA GotoKeeps ==
  ASSUME Balance, status = "parsing", status' = "parsing", UNCHANGED stack,
         Top.fn = "string", NEW at, Goto(at)
  PROVE  Balance'
<1> DEFINE c == [Top EXCEPT !.at = at]
<1>1. IsCall(Top)
  BY TopIsCall DEF Balance
<1>2. IsCall(c) /\ c.fn = Top.fn /\ c.base = Top.base
  BY <1>1, MovedCall
<1>3. Becomes(c)
  BY DEF Goto, Becomes, Top
<1> HIDE DEF c
<1> QED  BY <1>2, <1>3, PlainGoesOn

LEMMA HexKeeps == ASSUME Balance, HexDigit PROVE Balance'
<1>1. status = "parsing" /\ status' = "parsing" /\ UNCHANGED stack /\ Top.fn = "string"
  BY DEF HexDigit, InCall, Same
<1>2. IsCall(Top)
  BY <1>1, TopIsCall DEF Balance
<1> DEFINE hex == Append(Top.hex, Peek)
           paired == [Top EXCEPT !.hex = hex, !.at = "pair"]
           longer == [Top EXCEPT !.hex = hex]
<1>3. Becomes(paired) \/ Put(<<"\\u">> \o hex, "chars") \/ Becomes(longer)
  BY DEF HexDigit
<1> HIDE DEF hex
<1>4. IsCall(paired) /\ paired.fn = Top.fn /\ paired.base = Top.base
  BY <1>2 DEF IsCall, CallFields
<1>5. IsCall(longer) /\ longer.fn = Top.fn /\ longer.base = Top.base
  BY <1>2 DEF IsCall, CallFields
<1> HIDE DEF paired, longer
<1>6. CASE Becomes(paired)
  BY <1>1, <1>4, <1>6, PlainGoesOn
<1>7. CASE Becomes(longer)
  BY <1>1, <1>5, <1>7, PlainGoesOn
<1>8. CASE Put(<<"\\u">> \o hex, "chars")
  BY <1>1, <1>8, PutKeeps
<1> QED  BY <1>3, <1>6, <1>7, <1>8

LEMMA TextKeeps ==
  ASSUME Balance,
         Character \/ CloseQuote \/ Backslash \/ EscapedCharacter \/ UnicodeEscape
  PROVE  Balance'
<1>1. CASE Character
  BY <1>1, PutKeeps DEF Character, InCall, Same
<1>2. CASE CloseQuote
  BY <1>2, PushKeeps DEF CloseQuote, InCall, Same
<1>3. CASE Backslash
  BY <1>3, GotoKeeps DEF Backslash, InCall, Same
<1>4. CASE EscapedCharacter
  BY <1>4, PutKeeps DEF EscapedCharacter, InCall, Same
<1>5. CASE UnicodeEscape
  BY <1>5, GotoKeeps DEF UnicodeEscape, InCall, Same
<1> QED  BY <1>1, <1>2, <1>3, <1>4, <1>5

LEMMA EnteringKeeps ==
  ASSUME NEW c, IsCall(c), NEW to, NEW at
  PROVE  LET d == [Entering(c, to) EXCEPT !.at = at] IN
         IsCall(d) /\ d.fn = c.fn /\ d.base = c.base
<1>1. /\ IsCall(WithDigit(c, DigitOf(Peek)))
      /\ WithDigit(c, DigitOf(Peek)).fn = c.fn /\ WithDigit(c, DigitOf(Peek)).base = c.base
  BY DEF WithDigit, IsCall, CallFields
<1>2. /\ IsCall(Entering(c, to))
      /\ Entering(c, to).fn = c.fn /\ Entering(c, to).base = c.base
  BY <1>1 DEF Entering, IsCall, CallFields
<1> QED  BY <1>2, MovedCall

LEMMA NumberStepKeeps == ASSUME Balance, NumberStep PROVE Balance'
<1>1. status = "parsing" /\ Top.fn = "number"
  BY DEF NumberStep, InCall
<1>2. IsCall(Top)
  BY <1>1, TopIsCall DEF Balance
<1>3. PICK to :
        \/ Fail("NumberTooBig")
        \/ Becomes([Entering(Top, to) EXCEPT !.at = to]) /\ Same /\ UNCHANGED stack
  BY DEF NumberStep
<1> DEFINE c == [Entering(Top, to) EXCEPT !.at = to]
<1>4. IsCall(c) /\ c.fn = Top.fn /\ c.base = Top.base
  BY <1>2, EnteringKeeps
<1>5. CASE Fail("NumberTooBig")
  BY <1>5, Failing
<1>6. CASE Becomes(c) /\ Same /\ UNCHANGED stack
  <2> HIDE DEF c
  <2> QED  BY <1>1, <1>4, <1>6, PlainGoesOn DEF Same
<1> QED  BY <1>3, <1>5, <1>6

LEMMA EndNumberKeeps == ASSUME Balance, EndNumber PROVE Balance'
<1>1. PICK v : Push(v)
  BY DEF EndNumber
<1> QED  BY <1>1, PushKeeps DEF EndNumber, InCall, Same

\* The root returns with its value alone on the stack.
LEMMA FinishKeeps == ASSUME Balance, Finish PROVE Balance'
<1>1. status = "parsing" /\ Top.fn = "root" /\ Top.at = "after"
  BY DEF Finish, Facing, InCall
<1>2. CallsGood /\ IsSequence(stack) /\ Len(stack) = Top.base + Held(Top)
  BY <1>1 DEF Balance, StackBalanced
<1>3. Top.base = 0
  BY <1>1, <1>2, TopIsCall DEF CallsGood, Top
<1>4. Len(stack) = 1
  BY <1>1, <1>2, <1>3 DEF Held, Begun
<1>5. stack' = <<>>
  <2>1. stack' = SubSeq(stack, 1, 0)
    BY <1>4 DEF Finish, Front
  <2>2. IsSequence(SubSeq(stack, 1, 0)) /\ Len(SubSeq(stack, 1, 0)) = 0
    <3>1. 0 \in 0 .. Len(stack)
      BY <1>4
    <3> QED  BY <1>2, <3>1, Shortened
  <2> QED  BY <2>1, <2>2, NoneLeft
<1> QED  BY <1>5 DEF Finish, Balance, StackBalanced

LEMMA FailuresKeep ==
  ASSUME Balance,
         Empty \/ NotSingular \/ NoKey \/ NoColon \/ NoEnd \/ NoLetter \/ NoCharacter
           \/ NoEscape \/ NoHexDigit \/ NoNumber
  PROVE  Balance'
<1>1. CASE Empty \/ NotSingular \/ NoKey \/ NoColon
  BY <1>1, Failing DEF Empty, NotSingular, NoKey, NoColon
<1>2. CASE NoEnd \/ NoLetter
  BY <1>2, Failing DEF NoEnd, NoLetter
<1>3. CASE NoCharacter
  BY <1>3, Failing DEF NoCharacter
<1>4. CASE NoEscape \/ NoHexDigit
  BY <1>4, Failing DEF NoEscape, NoHexDigit
<1>5. CASE NoNumber
  BY <1>5, Failing DEF NoNumber
<1> QED  BY <1>1, <1>2, <1>3, <1>4, <1>5

LEMMA StillBalanced == ASSUME Balance, UNCHANGED <<calls, stack, status>> PROVE Balance'
BY DEF Balance, CallsGood, StackBalanced, Top

LEMMA ParseKeeps == ASSUME Balance, ParseSteps PROVE Balance'
<1>1. CASE SkipWhitespace
  BY <1>1, StillBalanced DEF SkipWhitespace, Same
<1>2. CASE ParseObject
  BY <1>2, NestedKeeps DEF ParseObject
<1>3. CASE ParseArray
  BY <1>3, NestedKeeps DEF ParseArray
<1>4. CASE ParseString \/ ParseLiteral \/ ParseNumber
  BY <1>4, StringKeeps, LiteralKeeps, NumberKeeps
<1>5. CASE Key \/ Colon \/ Comma \/ EndObject \/ EndArray \/ Finish
  BY <1>5, KeyKeeps, ColonKeeps, CommaKeeps, EndsKeep, FinishKeeps
<1>6. CASE Letter \/ Character \/ CloseQuote \/ Backslash \/ EscapedCharacter
             \/ UnicodeEscape \/ HexDigit
  BY <1>6, LetterKeeps, TextKeeps, HexKeeps
<1>7. CASE NumberStep \/ EndNumber
  BY <1>7, NumberStepKeeps, EndNumberKeeps
<1>8. CASE Empty \/ NotSingular \/ NoKey \/ NoColon \/ NoEnd \/ NoLetter \/ NoCharacter
             \/ NoEscape \/ NoHexDigit \/ NoNumber
  BY <1>8, FailuresKeep
<1> QED
  BY <1>1, <1>2, <1>3, <1>4, <1>5, <1>6, <1>7, <1>8 DEF ParseSteps

LEMMA InitBalanced == Init => Balance
<1> SUFFICES ASSUME Init PROVE Balance
  OBVIOUS
<1> DEFINE c == Call("root", "start")
<1>1. calls = <<c>> /\ stack = <<>> /\ status = "parsing"
  BY DEF Init, Opened
<1>2. IsSequence(stack) /\ Len(stack) = 0
  BY <1>1, EmptyIs
<1>3. IsCall(c) /\ c.fn = "root" /\ c.at = "start" /\ c.base = 0
  BY <1>2, NewCall
<1> HIDE DEF c
<1>4. IsSequence(calls) /\ Len(calls) = 1 /\ calls[1] = c
  <2>1. calls \in Seq({c})
    BY <1>1
  <2> QED  BY <1>1, <2>1 DEF IsSequence
<1>5. CallsGood
  BY <1>3, <1>4 DEF CallsGood, Nested
<1>6. Top = c /\ Held(c) = 0
  BY <1>3, <1>4 DEF Top, Held, Begun
<1>7. StackBalanced
  BY <1>1, <1>2, <1>3, <1>4, <1>6 DEF StackBalanced
<1> QED  BY <1>2, <1>5, <1>7 DEF Balance

\* What is not the reader leaves its state alone.
LEMMA NextParses == ASSUME Next PROVE ParseSteps \/ UNCHANGED jsonVars
<1>1. CASE Reading \/ NoFile
  BY <1>1 DEF Reading, Open, NoFile, Parse, ReadSettings, ReadSite, SitesEnd
<1>2. CASE Starting
  BY <1>2 DEF Starting, Spawn, Spawned, Joined
<1>3. CASE \E t \in DOMAIN threads : Serving(t)
  BY <1>3 DEF Serving, Bind, BindThrows, AcceptAll, Accept, Release, HandlerThrows, HandlerSpins, InThread
<1>4. CASE \E c \in Clients : Connect(c)
  BY <1>4 DEF Connect, InThread
<1> QED  BY <1>1, <1>2, <1>3, <1>4 DEF Next

\* In every reachable state the document's stack holds what the reader's calls
\* pushed and nothing else, whatever the file and however deep it is nested: no
\* Pop of EndObject or EndArray takes more than its members (stack.h:137).
THEOREM StackNeverSlips == Spec => []StackBalanced
<1>1. Balance /\ [Next]_vars => Balance'
  <2> SUFFICES ASSUME Balance, [Next]_vars PROVE Balance'
    OBVIOUS
  <2>1. CASE UNCHANGED jsonVars
    BY <2>1, StillBalanced DEF jsonVars
  <2>2. CASE UNCHANGED vars
    BY <2>2, StillBalanced DEF vars, jsonVars
  <2>3. CASE Next
    BY <2>1, <2>3, NextParses, ParseKeeps
  <2> QED  BY <2>2, <2>3
<1>2. Balance => StackBalanced
  BY DEF Balance
<1> QED  BY <1>1, <1>2, InitBalanced, PTL DEF Spec

-----------------------------------------------------------------------------
(* The stream. *)

\* The character of the file at a position counted from one, NULs behind it.
CharAt(text, k) == IF k <= Len(text) THEN text[k] ELSE NUL

StreamFields == {"buffer", "current", "last", "readCount", "count", "eof"}
IsStream(s) ==
  /\ DOMAIN s = StreamFields
  /\ s.last \in Nat /\ s.current \in Nat /\ 1 <= s.current /\ s.current <= s.last
  /\ s.count \in Nat /\ s.readCount \in Nat /\ s.eof \in BOOLEAN

\* The buffer is a window of the file; what was read in front of it and in it
\* says where the next one starts, and only the last one is not full.
Window(s, text) ==
  /\ \A k \in Nat : 1 <= k /\ k <= s.last => s.buffer[k] = CharAt(text, s.count + k)
  /\ ~s.eof => /\ s.readCount = BufferSize /\ s.last = BufferSize
               /\ s.count + s.readCount <= Len(text)
  /\ s.eof => s.count + s.readCount = Len(text) /\ s.last = s.readCount + 1

\* The induction.
Windowed ==
  /\ file \in Files
  /\ IsStream(stream) /\ Window(stream, file.text)

LEMMA TextIsSequence == ASSUME NEW f \in Files PROVE IsSequence(f.text)
BY FilesAssumption DEF IsSequence

\* fread hands over the next characters: a full buffer of them or the rest.
LEMMA FetchedIs ==
  ASSUME NEW text, IsSequence(text), NEW from \in Nat, from <= Len(text)
  PROVE  LET got == Fetched(text, from) IN
         /\ IsSequence(got) /\ Len(got) \in Nat
         /\ Len(got) <= BufferSize /\ from + Len(got) <= Len(text)
         /\ Len(got) < BufferSize => from + Len(got) = Len(text)
         /\ \A k \in Nat : 1 <= k /\ k <= Len(got) => got[k] = text[from + k]
<1> DEFINE upto == IF from + BufferSize < Len(text) THEN from + BufferSize ELSE Len(text)
           got == SubSeq(text, from + 1, upto)
<1>1. PICK S : text \in Seq(S)
  BY DEF IsSequence
<1>2. Len(text) \in Nat /\ BufferSize \in Nat
  BY <1>1, JsonAssumption
<1>3. upto \in Nat /\ from <= upto /\ upto <= Len(text) /\ upto <= from + BufferSize
  BY <1>2
<1>4. upto < from + BufferSize => upto = Len(text)
  BY <1>2
<1> HIDE DEF upto
<1>5. got \in Seq(S) /\ Len(got) = upto - from
  BY <1>1, <1>2, <1>3
<1>6. \A k \in Nat : 1 <= k /\ k <= upto - from => got[k] = text[from + k]
  BY <1>1, <1>2, <1>3
<1>7. IsSequence(got)
  BY <1>5 DEF IsSequence
<1>8. Fetched(text, from) = got
  BY DEF Fetched, upto
<1> HIDE DEF got
<1> QED  BY <1>2, <1>3, <1>4, <1>5, <1>6, <1>7, <1>8

LEMMA FilledIs ==
  ASSUME NEW text, IsSequence(text), NEW s, s.count \in Nat, s.readCount \in Nat,
         s.count + s.readCount <= Len(text)
  PROVE  LET next == Filled(s, Fetched(text, s.count + s.readCount)) IN
         /\ IsStream(next) /\ Window(next, text)
         /\ next.current = 1 /\ next.count = s.count + s.readCount
<1> DEFINE from == s.count + s.readCount
           got == Fetched(text, from)
           short == Len(got) < BufferSize
           end == IF short THEN <<NUL>> ELSE <<>>
           next == Filled(s, got)
<1>1. from \in Nat /\ from <= Len(text) /\ Len(text) \in Nat
  BY LengthIs
<1>2. BufferSize \in Nat /\ BufferSize >= 4
  BY JsonAssumption
<1>3. next = [buffer |-> got \o end, current |-> 1,
              last |-> Len(got) + (IF short THEN 1 ELSE 0),
              readCount |-> Len(got), count |-> from, eof |-> short]
  BY DEF Filled
<1> HIDE DEF next, from
<1>4. /\ IsSequence(got) /\ Len(got) \in Nat
      /\ Len(got) <= BufferSize /\ from + Len(got) <= Len(text)
      /\ Len(got) < BufferSize => from + Len(got) = Len(text)
      /\ \A k \in Nat : 1 <= k /\ k <= Len(got) => got[k] = text[from + k]
  BY <1>1, FetchedIs
<1> HIDE DEF got
<1>5. \A k \in Nat : 1 <= k /\ k <= Len(got) => (got \o end)[k] = got[k]
  <2>1. PICK S : got \in Seq(S)
    BY <1>4 DEF IsSequence
  <2>2. got \in Seq(S \cup {NUL})
    BY <2>1
  <2>3. <<NUL>> \in Seq(S \cup {NUL}) /\ <<>> \in Seq(S \cup {NUL})
    OBVIOUS
  <2>4. end \in Seq(S \cup {NUL})
    BY <2>3
  <2> HIDE DEF end
  <2> QED  BY <2>2, <2>4
<1>6. short => (got \o end)[Len(got) + 1] = NUL
  <2>1. PICK S : got \in Seq(S)
    BY <1>4 DEF IsSequence
  <2>2. got \in Seq(S \cup {NUL}) /\ (short => end = <<NUL>>)
    BY <2>1
  <2> QED  BY <2>2
<1>7. IsStream(next)
  BY <1>1, <1>2, <1>3, <1>4 DEF IsStream, StreamFields
<1>8. Window(next, text)
  <2>1. ASSUME NEW k \in Nat, 1 <= k, k <= next.last
        PROVE  next.buffer[k] = CharAt(text, from + k)
    <3>1. CASE k <= Len(got)
      <4>1. next.buffer[k] = text[from + k]
        BY <1>3, <1>4, <1>5, <2>1, <3>1
      <4>2. from + k <= Len(text)
        BY <1>1, <1>4, <3>1
      <4> QED  BY <4>1, <4>2 DEF CharAt
    <3>2. CASE ~(k <= Len(got))
      <4>1. short /\ k = Len(got) + 1
        BY <1>3, <1>4, <2>1, <3>2
      <4>2. next.buffer[k] = NUL
        BY <1>3, <1>6, <4>1
      <4>3. ~(from + k <= Len(text))
        BY <1>1, <1>4, <4>1
      <4> QED  BY <4>2, <4>3 DEF CharAt
    <3> QED  BY <3>1, <3>2
  <2>2. next.count = from
    BY <1>3
  <2>3. next.eof => next.count + next.readCount = Len(text) /\ next.last = next.readCount + 1
    BY <1>3, <1>4
  <2>4. ~next.eof => /\ next.readCount = BufferSize /\ next.last = BufferSize
                     /\ next.count + next.readCount <= Len(text)
    <3> HIDE DEF short
    <3>1. /\ next.readCount = Len(got) /\ next.count = from
          /\ next.last = Len(got) + (IF short THEN 1 ELSE 0)
      BY <1>3
    <3>2. next.eof = short
      BY <1>3
    <3>3. ~short => next.last = Len(got)
      BY <1>4, <3>1
    <3>4. ~next.eof => next.last = Len(got) /\ ~(Len(got) < BufferSize)
      BY <3>2, <3>3 DEF short
    <3>5. ~(Len(got) < BufferSize) => Len(got) = BufferSize
      BY <1>2, <1>4
    <3> QED  BY <1>4, <3>1, <3>4, <3>5
  <2> QED  BY <2>1, <2>2, <2>3, <2>4 DEF Window
<1>9. next.current = 1 /\ next.count = from
  BY <1>3
<1> QED  BY <1>7, <1>8, <1>9 DEF next, got, from

\* Read() keeps the window and shows the next character.
LEMMA ReadIs ==
  ASSUME Windowed
  PROVE  LET next == Read(stream) IN
         /\ IsStream(next) /\ Window(next, file.text)
         /\ next # stream =>
              /\ next.count + next.current = stream.count + stream.current + 1
              /\ next.buffer[next.current] = CharAt(file.text, next.count + next.current)
<1> DEFINE text == file.text
           next == Read(stream)
<1>1. IsSequence(text) /\ IsStream(stream) /\ Window(stream, text)
  BY TextIsSequence DEF Windowed
<1>2. CASE stream.current < stream.last
  <2>1. next = [stream EXCEPT !.current = @ + 1]
    BY <1>2 DEF Read
  <2>2. /\ IsStream(next) /\ next.current = stream.current + 1
        /\ next.count = stream.count /\ next.last = stream.last
        /\ next.buffer = stream.buffer /\ next.eof = stream.eof
        /\ next.readCount = stream.readCount
    BY <1>1, <1>2, <2>1 DEF IsStream, StreamFields
  <2> HIDE DEF next
  <2>3. Window(next, text)
    BY <1>1, <2>2 DEF Window
  <2>4. next.count + next.current = stream.count + stream.current + 1
    BY <1>1, <2>2 DEF IsStream
  <2>5. next.buffer[next.current] = CharAt(text, next.count + next.current)
    BY <2>2, <2>3 DEF Window, IsStream
  <2> QED  BY <2>2, <2>3, <2>4, <2>5 DEF next
<1>3. CASE ~(stream.current < stream.last) /\ stream.eof
  BY <1>1, <1>3 DEF Read
<1>4. CASE ~(stream.current < stream.last) /\ ~stream.eof
  <2>1. next = Filled(stream, Fetched(text, stream.count + stream.readCount))
    BY <1>4 DEF Read
  <2>2. /\ stream.count \in Nat /\ stream.readCount \in Nat
        /\ stream.count + stream.readCount <= Len(text)
        /\ stream.current = stream.readCount
    BY <1>1, <1>4 DEF IsStream, Window
  <2>3. /\ IsStream(next) /\ Window(next, text)
        /\ next.current = 1 /\ next.count = stream.count + stream.readCount
    BY <1>1, <2>1, <2>2, FilledIs
  <2> HIDE DEF next
  <2>4. next.count + next.current = stream.count + stream.current + 1
    BY <2>2, <2>3
  <2>5. next.buffer[next.current] = CharAt(text, next.count + next.current)
    BY <2>3 DEF Window, IsStream
  <2> QED  BY <2>3, <2>4, <2>5 DEF next
<1> QED  BY <1>2, <1>3, <1>4

\* Every step of the reader takes a character or leaves the stream.
LEMMA TakeOrKeep == ASSUME ParseSteps PROVE (Take \/ Keep) /\ UNCHANGED file
<1>1. CASE SkipWhitespace \/ ParseObject \/ ParseArray \/ ParseString \/ ParseLiteral
             \/ ParseNumber \/ Key \/ Colon \/ Comma \/ EndObject \/ EndArray
  BY <1>1 DEF SkipWhitespace, ParseObject, ParseArray, ParseNested, ParseString,
              ParseLiteral, ParseNumber, Key, Colon, Comma, EndObject, EndArray, Same
<1>2. CASE Letter \/ Character \/ CloseQuote \/ Backslash \/ EscapedCharacter
             \/ UnicodeEscape \/ HexDigit \/ EndNumber
  BY <1>2 DEF Letter, Character, CloseQuote, Backslash, EscapedCharacter,
              UnicodeEscape, HexDigit, EndNumber, Same
<1>3. CASE Empty \/ Finish \/ NotSingular \/ NoKey \/ NoColon \/ NoEnd \/ NoLetter
             \/ NoCharacter \/ NoEscape \/ NoHexDigit \/ NoNumber
  BY <1>3 DEF Empty, Finish, NotSingular, NoKey, NoColon, NoEnd, NoLetter, NoCharacter,
              NoEscape, NoHexDigit, NoNumber, Fail, Keep
<1>4. CASE NumberStep
  BY <1>4 DEF NumberStep, Fail, Keep, Same
<1> QED  BY <1>1, <1>2, <1>3, <1>4 DEF ParseSteps

LEMMA InitWindowed == Init => Windowed
<1> SUFFICES ASSUME Init PROVE Windowed
  OBVIOUS
<1>1. PICK f \in Files : Opened(f)
  BY DEF Init
<1> DEFINE s == [count |-> 0, readCount |-> 0]
<1>2. /\ file = f /\ IsSequence(f.text)
      /\ stream = Filled(s, Fetched(f.text, 0))
  BY <1>1, TextIsSequence DEF Opened
<1>3. s.count = 0 /\ s.readCount = 0 /\ 0 <= Len(f.text)
  BY <1>2, LengthIs
<1> HIDE DEF s
<1>4. stream = Filled(s, Fetched(f.text, s.count + s.readCount))
  BY <1>2, <1>3
<1>5. IsStream(stream) /\ Window(stream, f.text)
  BY <1>2, <1>3, <1>4, FilledIs
<1> QED  BY <1>2, <1>5 DEF Windowed

\* Whatever the size of the read buffer and however the file ends, the reader is
\* shown its characters one after the other, none twice and none passed over
\* across a refill, and then the NUL that FileReadStream::Read puts behind it.
THEOREM FileIsShown == Spec => StreamIsFile
<1> DEFINE Shown == stream' # stream =>
             /\ Tell' = Tell + 1
             /\ Peek' = IF Tell' < Len(file.text) THEN file.text[Tell' + 1] ELSE NUL
<1>1. ASSUME Windowed, [Next]_vars PROVE Windowed' /\ [Shown]_jsonVars
  <2>1. CASE UNCHANGED jsonVars
    BY <1>1, <2>1 DEF Windowed, jsonVars
  <2>2. CASE Keep /\ UNCHANGED file
    BY <1>1, <2>2 DEF Windowed, Keep
  <2>3. CASE Take /\ UNCHANGED file
    <3>1. /\ IsStream(stream') /\ Window(stream', file.text)
          /\ stream' # stream =>
               /\ stream'.count + stream'.current = stream.count + stream.current + 1
               /\ stream'.buffer[stream'.current]
                    = CharAt(file.text, stream'.count + stream'.current)
      BY <1>1, <2>3, ReadIs DEF Take
    <3>2. Windowed'
      BY <1>1, <2>3, <3>1 DEF Windowed
    <3>3. Len(file.text) \in Nat
      BY <1>1, TextIsSequence, LengthIs DEF Windowed
    <3>4. Shown
      <4> SUFFICES ASSUME stream' # stream PROVE Shown
        OBVIOUS
      <4>1. /\ stream.count \in Nat /\ stream.current \in Nat
            /\ stream'.count \in Nat /\ stream'.current \in Nat
        BY <1>1, <3>1 DEF Windowed, IsStream
      <4>2. Tell' = Tell + 1 /\ Tell' \in Nat /\ Tell' + 1 = stream'.count + stream'.current
        BY <1>1, <3>1, <4>1 DEF Tell, Windowed, IsStream
      <4>3. Peek' = CharAt(file.text, Tell' + 1)
        BY <3>1, <4>2 DEF Peek
      <4> QED  BY <3>3, <4>2, <4>3 DEF CharAt
    <3> QED  BY <3>2, <3>4
  <2>4. UNCHANGED vars => UNCHANGED jsonVars
    BY DEF vars, jsonVars
  <2> QED  BY <1>1, <2>1, <2>2, <2>3, <2>4, NextParses, TakeOrKeep
<1> QED  BY <1>1, InitWindowed, PTL DEF Spec, StreamIsFile

-----------------------------------------------------------------------------
(* The sites. *)

\* The induction: while the sites are read none of them was the end of it.
PlainSite(i) ==
  /\ Outcome(Sites[i]) # "aborted" /\ Outcome(Sites[i]) # "threw"
  /\ ~(Outcome(Sites[i]) = "added" /\ IsAny(Sites[i]))
SitesRead ==
  /\ nextSite \in Nat /\ hosts \in Seq(Nat)
  /\ phase \in {"opening", "reading"} => nextSite = 0 /\ hosts = <<>>
  /\ phase = "sites" =>
       /\ \A i \in 1 .. nextSite : PlainSite(i)
       /\ Range(hosts) = {i \in 1 .. nextSite : Outcome(Sites[i]) = "added"}
  /\ SitesInFront

LEMMA RangeAppended ==
  ASSUME NEW s \in Seq(Nat), NEW n \in Nat
  PROVE  Append(s, n) \in Seq(Nat) /\ Range(Append(s, n)) = Range(s) \cup {n}
<1> DEFINE t == Append(s, n)
<1>1. /\ t \in Seq(Nat) /\ Len(t) = Len(s) + 1 /\ Len(s) \in Nat
      /\ \A i \in 1 .. Len(s) : t[i] = s[i]
      /\ t[Len(s) + 1] = n
  OBVIOUS
<1>2. DOMAIN t = 1 .. Len(t) /\ DOMAIN s = 1 .. Len(s)
  OBVIOUS
<1> HIDE DEF t
<1>3. ASSUME NEW m PROVE m \in Range(t) <=> m \in Range(s) \cup {n}
  <2>1. ASSUME m \in Range(t) PROVE m \in Range(s) \cup {n}
    <3>1. PICK i \in 1 .. Len(t) : m = t[i]
      BY <1>2, <2>1 DEF Range
    <3>2. CASE i = Len(s) + 1
      BY <1>1, <3>1, <3>2
    <3>3. CASE i # Len(s) + 1
      <4>1. i \in 1 .. Len(s)
        BY <1>1, <3>1, <3>3
      <4> QED  BY <1>1, <1>2, <3>1, <4>1 DEF Range
    <3> QED  BY <3>2, <3>3
  <2>2. ASSUME m \in Range(s) PROVE m \in Range(t)
    <3>1. PICK i \in 1 .. Len(s) : m = s[i]
      BY <1>2, <2>2 DEF Range
    <3>2. i \in 1 .. Len(t) /\ t[i] = m
      BY <1>1, <3>1
    <3> QED  BY <1>2, <3>2 DEF Range
  <2>3. n \in Range(t)
    <3>1. Len(s) + 1 \in 1 .. Len(t)
      BY <1>1
    <3> QED  BY <1>1, <1>2, <3>1 DEF Range
  <2> QED  BY <2>1, <2>2, <2>3
<1> QED  BY <1>1, <1>3 DEF t

\* The document stays when it was read, and so do the sites in it.
LEMMA SitesStay ==
  ASSUME doc' = doc
  PROVE  /\ Sites' = Sites
         /\ \A i : /\ Outcome(Sites[i])' = Outcome(Sites[i])
                  /\ IsAny(Sites[i])' = IsAny(Sites[i])
<1>1. Sites' = Sites
  BY DEF Sites, Field, At, Places
<1>2. ASSUME NEW i PROVE Outcome(Sites[i])' = Outcome(Sites[i])
  BY <1>1
<1>3. ASSUME NEW i PROVE IsAny(Sites[i])' = IsAny(Sites[i])
  BY <1>1
<1> QED  BY <1>1, <1>2, <1>3

LEMMA StillRead ==
  ASSUME SitesRead, UNCHANGED <<doc, nextSite, hosts>>,
         \/ phase' = phase
         \/ phase \in {"spawning", "joining"} /\ phase' \in {"joining", "exited"}
  PROVE  SitesRead'
<1>1. /\ Sites' = Sites
      /\ \A i : /\ Outcome(Sites[i])' = Outcome(Sites[i])
               /\ IsAny(Sites[i])' = IsAny(Sites[i])
  BY SitesStay
<1>2. (\A i \in 1 .. nextSite : PlainSite(i)) => (\A i \in 1 .. nextSite : PlainSite(i))'
  BY <1>1 DEF PlainSite
<1>3. {i \in 1 .. nextSite : Outcome(Sites[i]) = "added"}'
        = {i \in 1 .. nextSite : Outcome(Sites[i]) = "added"}
  BY <1>1
<1>4. Range(hosts)' = Range(hosts)
  OBVIOUS
<1>5. phase' = "sites" => phase = "sites"
  OBVIOUS
<1>6. SitesInFront'
  <2> SUFFICES ASSUME phase' \in {"spawning", "joining", "exited"} PROVE SitesInFront'
    BY DEF SitesInFront
  <2>1. phase \in {"spawning", "joining", "exited"}
    OBVIOUS
  <2> QED  BY <1>1, <2>1 DEF SitesRead, SitesInFront
<1>7. phase' \in {"opening", "reading"} => phase \in {"opening", "reading"}
  OBVIOUS
<1> QED  BY <1>2, <1>3, <1>4, <1>5, <1>6, <1>7 DEF SitesRead

LEMMA ReadSiteKeeps == ASSUME SitesRead, ReadSite PROVE SitesRead'
<1> DEFINE n == nextSite + 1
           O(i) == Outcome(Sites[i])
           any == O(n) \in {"added", "threw"} /\ IsAny(Sites[n])
<1>1. /\ phase = "sites" /\ nextSite \in Nat /\ hosts \in Seq(Nat) /\ nextSite' = n
      /\ \A i \in 1 .. nextSite : PlainSite(i)
      /\ Range(hosts) = {i \in 1 .. nextSite : O(i) = "added"}
  BY DEF ReadSite, SitesRead
<1>2. /\ hosts' = IF O(n) = "added" THEN Append(KeptHosts(any), n) ELSE KeptHosts(any)
      /\ O(n) = "aborted" => phase' = "aborted"
      /\ O(n) # "aborted" /\ (O(n) = "threw" \/ any) => phase' = "spawning"
      /\ O(n) # "aborted" /\ ~(O(n) = "threw" \/ any) => phase' = "sites"
  BY <1>1 DEF ReadSite
<1>3. /\ Sites' = Sites
      /\ \A i : O(i)' = O(i) /\ IsAny(Sites[i])' = IsAny(Sites[i])
  BY SitesStay DEF ReadSite, jsonVars
<1>4. n \in Nat /\ 1 .. n = (1 .. nextSite) \cup {n} /\ n \notin 1 .. nextSite
  BY <1>1
<1>5. KeptHosts(any) \in Seq(Nat) /\ Range(KeptHosts(any)) = IF any THEN {} ELSE Range(hosts)
  BY <1>1 DEF KeptHosts, Range
<1>6. /\ hosts' \in Seq(Nat)
      /\ Range(hosts') = Range(KeptHosts(any)) \cup (IF O(n) = "added" THEN {n} ELSE {})
  BY <1>2, <1>4, <1>5, RangeAppended
<1>7. \A i \in 1 .. nextSite : /\ O(i) # "aborted" /\ O(i) # "threw"
                               /\ ~(O(i) = "added" /\ IsAny(Sites[i]))
  BY <1>1 DEF PlainSite
<1> DEFINE enabled == {i \in 1 .. n : O(i) = "added"}
           anys == {i \in 1 .. n : O(i) \in {"added", "threw"} /\ IsAny(Sites[i])}
<1>8. /\ enabled = {i \in 1 .. nextSite : O(i) = "added"} \cup (IF O(n) = "added" THEN {n} ELSE {})
      /\ anys = IF any THEN {n} ELSE {}
  BY <1>4, <1>7
<1>9. CASE O(n) = "aborted"
  BY <1>1, <1>2, <1>4, <1>6, <1>9 DEF SitesRead, SitesInFront
<1>10. CASE O(n) # "aborted" /\ ~(O(n) = "threw" \/ any)
  <2>1. phase' = "sites" /\ nextSite' = n
    BY <1>1, <1>2, <1>10
  <2>2. \A i \in 1 .. n : PlainSite(i)'
    BY <1>3, <1>4, <1>7, <1>10 DEF PlainSite
  <2>3. Range(hosts') = enabled
    BY <1>1, <1>5, <1>6, <1>8, <1>10
  <2>4. enabled = {i \in 1 .. nextSite : O(i) = "added"}'
    BY <1>3, <2>1
  <2> QED  BY <1>4, <1>6, <2>1, <2>2, <2>3, <2>4 DEF SitesRead, SitesInFront
<1>11. CASE O(n) # "aborted" /\ (O(n) = "threw" \/ any)
  <2>1. phase' = "spawning" /\ nextSite' = n
    BY <1>1, <1>2, <1>11
  <2>2. \A i \in 1 .. n : O(i) # "aborted"
    BY <1>4, <1>7, <1>11
  <2>3. Range(hosts') = {i \in enabled : \A a \in anys : a <= i}
    <3>1. CASE any
      <4>1. \A i \in 1 .. n : n <= i <=> i = n
        BY <1>1
      <4> QED  BY <1>4, <1>5, <1>6, <1>8, <3>1, <4>1
    <3>2. CASE ~any
      BY <1>1, <1>5, <1>6, <1>8, <3>2
    <3> QED  BY <3>1, <3>2
  <2>4. anys # {} \/ O(n) = "threw"
    BY <1>8, <1>11
  <2>5. /\ enabled = {i \in 1 .. nextSite : O(i) = "added"}'
        /\ anys = {i \in 1 .. nextSite : O(i) \in {"added", "threw"} /\ IsAny(Sites[i])}'
    BY <1>3, <2>1
  <2>6. SitesInFront'
    BY <1>3, <2>1, <2>2, <2>3, <2>4, <2>5 DEF SitesInFront
  <2> QED  BY <1>4, <1>6, <2>1, <2>6 DEF SitesRead
<1> QED  BY <1>9, <1>10, <1>11

LEMMA SitesStep == ASSUME SitesRead, [Next]_vars PROVE SitesRead'
<1>1. CASE UNCHANGED vars
  <2>1. UNCHANGED <<doc, nextSite, hosts>> /\ phase' = phase
    BY <1>1 DEF vars, jsonVars, configVars
  <2> QED  BY <1>1, <2>1, StillRead
<1>2. CASE NoFile \/ Open \/ Parse
  BY <1>2 DEF NoFile, Open, Parse, configVars, SitesRead, SitesInFront
<1>3. CASE ReadSettings
  BY <1>3 DEF ReadSettings, SitesRead, SitesInFront, Range
<1>4. CASE ReadSite
  BY <1>4, ReadSiteKeeps
<1>5. CASE SitesEnd
  <2>1. /\ phase = "sites" /\ phase' = "spawning" /\ nextSite = Len(Sites)
        /\ UNCHANGED <<doc, nextSite, hosts>> /\ nextSite \in Nat
    BY <1>5 DEF SitesEnd, jsonVars, configVars, SitesRead
  <2>2. /\ Sites' = Sites
        /\ \A i : /\ Outcome(Sites[i])' = Outcome(Sites[i])
                 /\ IsAny(Sites[i])' = IsAny(Sites[i])
    BY <2>1, SitesStay
  <2>3. /\ \A i \in 1 .. nextSite : PlainSite(i)
        /\ Range(hosts) = {i \in 1 .. nextSite : Outcome(Sites[i]) = "added"}
    BY <2>1 DEF SitesRead
  <2>4. {i \in 1 .. nextSite : Outcome(Sites[i]) \in {"added", "threw"} /\ IsAny(Sites[i])} = {}
    BY <2>3 DEF PlainSite
  <2>5. SitesInFront'
    BY <2>1, <2>2, <2>3, <2>4 DEF SitesInFront, PlainSite
  <2> QED  BY <2>1, <2>5 DEF SitesRead
<1>6. CASE Starting
  <2>1. /\ UNCHANGED <<doc, nextSite, hosts>>
        /\ \/ phase' = phase
           \/ phase \in {"spawning", "joining"} /\ phase' \in {"joining", "exited"}
    BY <1>6 DEF Starting, Spawn, Spawned, Joined, jsonVars, configVars
  <2> QED  BY <2>1, StillRead
<1>7. CASE (\E t \in DOMAIN threads : Serving(t)) \/ (\E c \in Clients : Connect(c))
  <2>1. UNCHANGED <<doc, nextSite, hosts>> /\ phase' = phase
    BY <1>7 DEF Serving, Bind, BindThrows, AcceptAll, Accept, Release, HandlerThrows, HandlerSpins,
                Connect, InThread, jsonVars, configVars
  <2> QED  BY <2>1, StillRead
<1> QED
  BY <1>1, <1>2, <1>3, <1>4, <1>5, <1>6, <1>7 DEF Next, Reading

\* Whatever the file configures, the server starts with the enabled sites in
\* front of the first that throws, from the last <any> of them on, and never
\* when a site lacks something that the constructor of ConfigProvider reads.
THEOREM StartsWithSitesInFront == Spec => []SitesInFront
<1>1. Init => SitesRead
  BY DEF Init, SitesRead, SitesInFront
<1>2. SitesRead => SitesInFront
  BY DEF SitesRead
<1> QED  BY <1>1, <1>2, SitesStep, PTL DEF Spec

-----------------------------------------------------------------------------
(* Types. *)

ThreadType == [at : {"created", "serving", "spinning", "ended"},
               bound : BOOLEAN, served : BOOLEAN, queue : SUBSET Clients, users : SUBSET Clients]
ServiceTyped ==
  /\ phase \in {"opening", "reading", "aborted", "sites", "spawning", "joining", "exited"}
  /\ threads \in Seq(ThreadType) /\ refused \subseteq Clients

LEMMA ThreadsStep ==
  ASSUME ServiceTyped, (\E t \in DOMAIN threads : Serving(t)) \/ (\E c \in Clients : Connect(c))
  PROVE  ServiceTyped'
<1>1. CASE \E c \in Clients : Connect(c)
  <2>1. PICK c \in Clients : Connect(c)
    BY <1>1
  <2>2. phase' = phase /\ refused' \subseteq Clients
    BY <2>1 DEF Connect, InThread, ServiceTyped
  <2>3. threads' \in Seq(ThreadType)
    <3>1. CASE UNCHANGED threads
      BY <3>1 DEF ServiceTyped
    <3>2. ASSUME NEW t \in DOMAIN threads, threads' = [threads EXCEPT ![t].queue = @ \cup {c}]
          PROVE  threads' \in Seq(ThreadType)
      <4>1. threads[t] \in ThreadType /\ threads \in Seq(ThreadType)
        BY DEF ServiceTyped
      <4> DEFINE thread == [threads[t] EXCEPT !.queue = @ \cup {c}]
      <4>2. thread \in ThreadType
        BY <4>1 DEF ThreadType
      <4>3. threads' = [threads EXCEPT ![t] = thread]
        BY <3>2
      <4> HIDE DEF thread
      <4> QED  BY <4>1, <4>2, <4>3
    <3> QED  BY <2>1, <3>1, <3>2 DEF Connect, Group
  <2> QED  BY <2>2, <2>3 DEF ServiceTyped
<1>2. ASSUME NEW t \in DOMAIN threads, Serving(t) PROVE ServiceTyped'
  <2>1. phase' = phase /\ refused' = refused
    BY <1>2 DEF Serving, Bind, BindThrows, AcceptAll, Accept, Release, HandlerThrows, HandlerSpins, InThread
  <2>2. threads[t] \in ThreadType
    BY DEF ServiceTyped
  <2>3. \E thread \in ThreadType : threads' = [threads EXCEPT ![t] = thread]
    <3>1. CASE Bind(t)
      <4>1. [threads[t] EXCEPT !.at = "serving", !.bound = TRUE] \in ThreadType
        BY <2>2 DEF ThreadType
      <4> QED  BY <3>1, <4>1 DEF Bind
    <3>2. CASE BindThrows(t)
      <4>1. [threads[t] EXCEPT !.at = "ended"] \in ThreadType
        BY <2>2 DEF ThreadType
      <4> QED  BY <3>2, <4>1 DEF BindThrows
    <3>3. CASE AcceptAll(t)
      <4>1. PICK taken \in SUBSET threads[t].queue : Accept(t, taken)
        BY <3>3 DEF AcceptAll
      <4>2. [threads[t] EXCEPT !.queue = @ \ taken, !.users = @ \cup taken, !.served = TRUE] \in ThreadType
        BY <2>2 DEF ThreadType
      <4> QED  BY <4>1, <4>2 DEF Accept
    <3>4. CASE Release(t)
      <4>1. PICK c : threads' = [threads EXCEPT ![t].users = @ \ {c}]
        BY <3>4 DEF Release
      <4>2. [threads[t] EXCEPT !.users = @ \ {c}] \in ThreadType
        BY <2>2 DEF ThreadType
      <4> QED  BY <4>1, <4>2
    <3>5. CASE HandlerThrows(t)
      <4>1. [threads[t] EXCEPT !.at = "ended", !.users = {}] \in ThreadType
        BY <2>2 DEF ThreadType
      <4> QED  BY <3>5, <4>1 DEF HandlerThrows
    <3>6. CASE HandlerSpins(t)
      <4>1. [threads[t] EXCEPT !.at = "spinning"] \in ThreadType
        BY <2>2 DEF ThreadType
      <4> QED  BY <3>6, <4>1 DEF HandlerSpins
    <3> QED  BY <1>2, <3>1, <3>2, <3>3, <3>4, <3>5, <3>6 DEF Serving
  <2> QED  BY <2>1, <2>3 DEF ServiceTyped
<1> QED  BY <1>1, <1>2

LEMMA TypedStep == ASSUME ServiceTyped, [Next]_vars PROVE ServiceTyped'
<1>1. CASE (\E t \in DOMAIN threads : Serving(t)) \/ (\E c \in Clients : Connect(c))
  BY <1>1, ThreadsStep
<1>2. CASE Spawn
  <2>1. Thread \in ThreadType
    BY DEF Thread, ThreadType
  <2> QED  BY <1>2, <2>1 DEF Spawn, ServiceTyped
<1>3. CASE Spawned \/ Joined
  BY <1>3 DEF Spawned, Joined, threadVars, ServiceTyped
<1>4. CASE Reading \/ NoFile
  BY <1>4 DEF Reading, Open, NoFile, Parse, ReadSettings, ReadSite, SitesEnd, threadVars,
              ServiceTyped
<1>5. CASE UNCHANGED vars
  BY <1>5 DEF vars, threadVars, ServiceTyped
<1> QED  BY <1>1, <1>2, <1>3, <1>4, <1>5 DEF Next, Starting

\* Main, its instances and the connections of each keep their types, however
\* many instances are configured.
THEOREM StartupTyped == Spec => []TypeOK
<1>1. Init => SitesRead
  BY DEF Init, SitesRead, SitesInFront
<1>2. Init => ServiceTyped
  BY DEF Init, ServiceTyped
<1>3. SitesRead /\ ServiceTyped => TypeOK
  BY DEF SitesRead, ServiceTyped, ThreadType, TypeOK
<1> QED  BY <1>1, <1>2, <1>3, SitesStep, TypedStep, PTL DEF Spec

-----------------------------------------------------------------------------
(* The calls under way, and what the text means. *)

\* What a call that stands at p returns.
Comes(t, c, held, p, r) ==
  \/ c.fn = "root" /\ RootComes(t, c, held, p, r)
  \/ Nested(c) /\ NestedComes(t, c, held, p, r)
  \/ c.fn = "string" /\ StringComes(t, c, p, r)
  \/ c.fn = "literal" /\ LiteralComes(t, c, p, r)
  \/ c.fn = "number" /\ NumberComes(t, c, p, r)

\* Each call is to return what its caller makes of it, and the first the
\* document that the text is.
Means(t, cs, s, p, f) ==
  /\ \A i \in 1 .. Len(cs) - 1 :
       Waits(t, cs[i], Between(s, Own(cs[i]), cs[i + 1].base), f[i + 1], f[i])
  /\ Comes(t, cs[Len(cs)], Between(s, Own(cs[Len(cs)]), Len(s)), p, f[Len(cs)])
  /\ f[1] = DocumentOf(t, ValueAt(t, ReadingOf(t), 0))

\* The calls find the stack higher and higher.
Rising(cs, s) ==
  /\ \A i \in 1 .. Len(cs) : cs[i].base \in Nat /\ Own(cs[i]) \in Nat /\ cs[i].base <= Len(s)
  /\ \A i, j \in 1 .. Len(cs) : i <= j => cs[i].base <= cs[j].base

LEMMA MeansStays ==
  ASSUME NEW t, NEW cs, NEW ds, Len(cs) \in Nat, Len(cs) >= 1, Len(ds) = Len(cs), NEW c,
         \A i \in 1 .. Len(cs) : ds[i] = IF i = Len(cs) THEN c ELSE cs[i],
         c.base = cs[Len(cs)].base, NEW s, NEW p, NEW f, Means(t, cs, s, p, f),
         NEW q, Comes(t, c, Between(s, Own(c), Len(s)), q, f[Len(cs)])
  PROVE  Means(t, ds, s, q, f)
<1>1. ASSUME NEW i \in 1 .. Len(ds) - 1
      PROVE  Waits(t, ds[i], Between(s, Own(ds[i]), ds[i + 1].base), f[i + 1], f[i])
  <2>1. i \in 1 .. Len(cs) - 1 /\ i \in 1 .. Len(cs) /\ i # Len(cs) /\ i + 1 \in 1 .. Len(cs)
    OBVIOUS
  <2>2. ds[i] = cs[i] /\ ds[i + 1].base = cs[i + 1].base
    BY <2>1
  <2>3. Waits(t, cs[i], Between(s, Own(cs[i]), cs[i + 1].base), f[i + 1], f[i])
    BY <2>1 DEF Means
  <2> QED  BY <2>2, <2>3
<1>2. ds[Len(ds)] = c
  <2>1. Len(cs) \in 1 .. Len(cs)
    OBVIOUS
  <2> QED  BY <2>1
<1>3. f[1] = DocumentOf(t, ValueAt(t, ReadingOf(t), 0))
  BY DEF Means
<1> QED  BY <1>1, <1>2, <1>3 DEF Means

LEMMA MeansCalls ==
  ASSUME NEW t, NEW cs, NEW ds, Len(cs) \in Nat, Len(cs) >= 1, Len(ds) = Len(cs) + 1, NEW c, NEW d,
         \A i \in 1 .. Len(cs) : ds[i] = IF i = Len(cs) THEN d ELSE cs[i],
         ds[Len(cs) + 1] = c,
         d.base = cs[Len(cs)].base, d.fn = cs[Len(cs)].fn,
         NEW s, NEW u, Len(s) \in Nat, \A i \in 1 .. Len(s) : u[i] = s[i], c.base = Len(s), Rising(cs, s),
         NEW p, NEW f, Means(t, cs, s, p, f), NEW q, NEW v,
         Waits(t, d, Between(s, Own(d), Len(s)), v, f[Len(cs)]),
         Comes(t, c, Between(u, Own(c), Len(u)), q, v)
  PROVE  \E g : Means(t, ds, u, q, g)
<1> DEFINE k == Len(cs)
           g == [i \in 1 .. k + 1 |-> IF i = k + 1 THEN v ELSE f[i]]
<1>1. k \in Nat /\ k >= 1 /\ k \in 1 .. k + 1 /\ 1 \in 1 .. k + 1 /\ k + 1 \in 1 .. k + 1 /\ k \in 1 .. k
  OBVIOUS
<1>2. g[k + 1] = v /\ \A i \in 1 .. k : g[i] = f[i]
  BY <1>1
<1> HIDE DEF g
<1>3. Own(d) = Own(cs[k]) /\ Own(d) \in Nat
  BY <1>1 DEF Own, Nested, Rising
<1>4. ASSUME NEW i \in 1 .. Len(ds) - 1
      PROVE  Waits(t, ds[i], Between(u, Own(ds[i]), ds[i + 1].base), g[i + 1], g[i])
  <2>1. CASE i = k
    <3>1. ds[i] = d /\ ds[i + 1].base = Len(s) /\ g[i + 1] = v /\ g[i] = f[k]
      BY <1>1, <1>2, <2>1
    <3>2. Between(u, Own(d), Len(s)) = Between(s, Own(d), Len(s))
      BY <1>3, BetweenAlike
    <3> QED  BY <3>1, <3>2
  <2>2. CASE i # k
    <3>1. i \in 1 .. k /\ i + 1 \in 1 .. k /\ i \in 1 .. k - 1
      BY <1>1, <2>2
    <3>2. ds[i] = cs[i] /\ ds[i + 1].base = cs[i + 1].base /\ g[i + 1] = f[i + 1] /\ g[i] = f[i]
      BY <1>2, <2>2, <3>1
    <3>3. Own(cs[i]) \in Nat /\ cs[i + 1].base \in Nat /\ cs[i + 1].base <= Len(s)
      BY <3>1 DEF Rising
    <3>4. \A j \in 1 .. cs[i + 1].base : u[j] = s[j]
      BY <3>3
    <3>5. Between(u, Own(cs[i]), cs[i + 1].base) = Between(s, Own(cs[i]), cs[i + 1].base)
      BY <3>3, <3>4, BetweenAlike
    <3>6. Waits(t, cs[i], Between(s, Own(cs[i]), cs[i + 1].base), f[i + 1], f[i])
      BY <3>1 DEF Means
    <3> QED  BY <3>2, <3>5, <3>6
  <2> QED  BY <2>1, <2>2
<1>5. ds[Len(ds)] = c /\ g[Len(ds)] = v
  BY <1>2
<1>6. g[1] = DocumentOf(t, ValueAt(t, ReadingOf(t), 0))
  <2>1. 1 \in 1 .. k
    BY <1>1
  <2> QED  BY <1>2, <2>1 DEF Means
<1>7. Means(t, ds, u, q, g)
  BY <1>4, <1>5, <1>6 DEF Means
<1> QED  BY <1>7

LEMMA MeansReturns ==
  ASSUME NEW t, IsSequence(t), NEW cs, NEW ds, Len(cs) \in Nat, Len(cs) >= 2, Len(ds) = Len(cs) - 1,
         \A i \in 1 .. Len(cs) - 1 : ds[i] = cs[i],
         NEW s, NEW u, Rising(cs, s), Len(u) = cs[Len(cs)].base + 1,
         \A i \in 1 .. cs[Len(cs)].base : u[i] = s[i],
         NEW p, NEW f, Means(t, cs, s, p, f), NEW q \in 0 .. Len(t),
         f[Len(cs)] = Got(u[cs[Len(cs)].base + 1], q),
         Own(cs[Len(cs) - 1]) <= cs[Len(cs)].base,
         cs[Len(cs) - 1].fn = "root" => cs[Len(cs)].base = cs[Len(cs) - 1].base
  PROVE  Means(t, ds, u, q, f)
<1> DEFINE k == Len(cs) - 1
           e == cs[k]
           high == cs[k + 1].base
           held == Between(s, Own(e), high)
<1>1. k \in Nat /\ k >= 1 /\ k + 1 = Len(cs) /\ Len(ds) = k /\ k \in 1 .. Len(cs) /\ k + 1 \in 1 .. Len(cs)
      /\ k \in 1 .. Len(cs) - 1
  OBVIOUS
<1>2. high \in Nat /\ Own(e) \in Nat /\ Own(e) <= high /\ Len(u) = high + 1
      /\ \A i \in 1 .. high : u[i] = s[i]
  BY <1>1 DEF Rising
<1>3. \A i \in 1 .. Len(cs) : i <= k + 1 => cs[i].base <= high
  BY <1>1 DEF Rising
<1>4. Waits(t, e, held, Got(u[high + 1], q), f[k])
  <2>1. Waits(t, cs[k], Between(s, Own(cs[k]), cs[k + 1].base), f[k + 1], f[k])
    BY <1>1 DEF Means
  <2> QED  BY <1>1, <2>1
<1>5. f[1] = DocumentOf(t, ValueAt(t, ReadingOf(t), 0)) /\ ds[Len(ds)] = e
  BY <1>1 DEF Means
<1>6. e.fn = "root" => Own(e) = high
  BY <1>1 DEF Own, Nested
<1> HIDE DEF k, e, high
<1>7. IsSequence(held) /\ Len(held) = high - Own(e)
  BY <1>2, BetweenIs
<1> DEFINE low == Own(e)
<1>8. Between(u, low, high + 1) = Append(Between(s, low, high), u[high + 1])
  <2>1. low \in Nat /\ high \in Nat /\ low <= high
    BY <1>2
  <2>2. \A i \in 1 .. high : u[i] = s[i]
    BY <1>2
  <2> HIDE DEF low, held
  <2> QED  BY ONLY <2>1, <2>2, BetweenGrows
<1> HIDE DEF held
<1>9. Comes(t, e, Append(held, u[high + 1]), q, f[k])
  <2>1. CASE e.fn = "root"
    <3>1. Len(held) = 0
      BY <1>2, <1>6, <1>7, <2>1
    <3> QED  BY <1>4, <1>7, <2>1, <3>1, RootReceives DEF Comes
  <2>2. CASE Nested(e)
    BY <1>4, <1>7, <2>2, NestedReceives DEF Comes
  <2> QED  BY <1>4, <2>1, <2>2 DEF Waits, Nested
<1>10. ASSUME NEW i \in 1 .. Len(ds) - 1
      PROVE  Waits(t, ds[i], Between(u, Own(ds[i]), ds[i + 1].base), f[i + 1], f[i])
  <2>1. i \in 1 .. Len(cs) - 1 /\ i + 1 \in 1 .. Len(cs) - 1 /\ i \in 1 .. Len(cs) /\ i + 1 \in 1 .. Len(cs)
        /\ i + 1 <= k + 1
    BY <1>1
  <2>2. ds[i] = cs[i] /\ ds[i + 1] = cs[i + 1]
    BY <2>1
  <2>3. Own(cs[i]) \in Nat /\ cs[i + 1].base \in Nat /\ cs[i + 1].base <= high
    BY <1>3, <2>1 DEF Rising
  <2>4. \A j \in 1 .. cs[i + 1].base : u[j] = s[j]
    BY <1>2, <2>3
  <2>5. Between(u, Own(cs[i]), cs[i + 1].base) = Between(s, Own(cs[i]), cs[i + 1].base)
    BY <2>3, <2>4, BetweenAlike
  <2>6. Waits(t, cs[i], Between(s, Own(cs[i]), cs[i + 1].base), f[i + 1], f[i])
    BY <2>1 DEF Means
  <2> QED  BY <2>2, <2>5, <2>6
<1>11. Comes(t, ds[Len(ds)], Between(u, Own(ds[Len(ds)]), Len(u)), q, f[Len(ds)])
  <2>1. Between(u, Own(e), Len(u)) = Append(held, u[high + 1])
    BY <1>2, <1>8 DEF held
  <2> QED  BY <1>1, <1>5, <1>9, <2>1
<1> QED  BY <1>5, <1>10, <1>11 DEF Means

\* When a call finds nothing, so do all.
LEMMA MeansFails ==
  ASSUME NEW t, NEW cs, Len(cs) \in Nat, Len(cs) >= 1, NEW s, NEW p, NEW f, Means(t, cs, s, p, f),
         ~f[Len(cs)].ok
  PROVE  Meaning(t) = Null
<1> DEFINE k == Len(cs)
           S == {n \in Nat : n < k => ~f[k - n].ok}
<1>1. 0 \in S
  OBVIOUS
<1>2. ASSUME NEW n \in Nat, n \in S PROVE n + 1 \in S
  <2>1. CASE n + 1 < k
    <3> DEFINE i == k - (n + 1)
    <3>1. i \in 1 .. k - 1 /\ i + 1 = k - n /\ ~f[k - n].ok
      BY <1>2, <2>1
    <3> HIDE DEF i
    <3>2. Waits(t, cs[i], Between(s, Own(cs[i]), cs[i + 1].base), f[i + 1], f[i])
      BY <3>1 DEF Means
    <3>3. ~f[i].ok
      BY <3>1, <3>2, WaitsFails
    <3> QED  BY <3>3 DEF i
  <2>2. CASE ~(n + 1 < k)
    BY <2>2
  <2> QED  BY <2>1, <2>2
<1>3. \A n \in Nat : n \in S
  <2> HIDE DEF S
  <2> QED  BY <1>1, <1>2, Induction
<1>4. k - 1 \in Nat /\ k - 1 < k /\ k - (k - 1) = 1
  OBVIOUS
<1>5. ~f[1].ok
  BY <1>3, <1>4
<1> QED  BY <1>5 DEF Means, Meaning

-----------------------------------------------------------------------------
(* What a step may do with the calls and the stack. *)

\* The induction.
Meant ==
  /\ status = "parsing" => /\ Rising(calls, stack)
                           /\ \E f : Means(file.text, calls, stack, Tell, f)
  /\ DocumentIsMeant

\* The values of the innermost call.
Values(c, s) == Between(s, Own(c), Len(s))

\* What the innermost call c, which stands at p, returns, the call d returns
\* that stands at q; it returns what the call d that waits for e returns; it
\* returns v and stands at q; it finds nothing.
GoesOn(t, c, p, d, q, s) == \A r : Comes(t, c, Values(c, s), p, r) => Comes(t, d, Values(d, s), q, r)
Asks(t, c, p, s, d, e, q, u) ==
  \A r : Comes(t, c, Values(c, s), p, r) =>
           \E v : Waits(t, d, Values(d, s), v, r) /\ Comes(t, e, Values(e, u), q, v)
Answers(t, c, p, s, v, q) == \A r : Comes(t, c, Values(c, s), p, r) => r = Got(v, q)
Misses(t, c, p, s) == \A r : Comes(t, c, Values(c, s), p, r) => ~r.ok

LEMMA Begins ==
  ASSUME Balance, Meant, status = "parsing"
  PROVE  /\ CallsGood /\ IsSequence(stack) /\ StackBalanced /\ Rising(calls, stack)
         /\ Len(calls) \in Nat /\ Len(calls) >= 1 /\ Len(calls) \in 1 .. Len(calls)
         /\ IsCall(Top) /\ Top = calls[Len(calls)] /\ Len(stack) \in Nat
         /\ Top.base \in Nat /\ Held(Top) \in Nat /\ Len(stack) = Top.base + Held(Top)
         /\ \E f : Means(file.text, calls, stack, Tell, f)
<1>1. CallsGood /\ IsSequence(stack) /\ StackBalanced /\ Rising(calls, stack)
      /\ \E f : Means(file.text, calls, stack, Tell, f)
  BY DEF Balance, Meant
<1>2. /\ Len(calls) \in Nat /\ Len(calls) \in 1 .. Len(calls) /\ IsCall(Top)
  BY <1>1, TopIsCall
<1>3. Len(calls) >= 1 /\ Top = calls[Len(calls)]
  BY <1>1 DEF CallsGood, Top
<1>4. Top.base \in Nat /\ Held(Top) \in Nat
  BY <1>2, HeldIsNat DEF IsCall
<1>5. Len(stack) = Top.base + Held(Top)
  BY <1>1 DEF StackBalanced
<1> QED  BY <1>1, <1>2, <1>3, <1>4, <1>5

LEMMA OwnIsNat == ASSUME NEW c, IsCall(c) PROVE Own(c) \in Nat /\ c.base \in Nat
BY DEF IsCall, Own

LEMMA MeantStays ==
  ASSUME Balance, Meant, status = "parsing", status' = "parsing", UNCHANGED <<stack, file>>,
         NEW c, IsCall(c), Becomes(c), c.base = Top.base,
         GoesOn(file.text, Top, Tell, c, Tell', stack)
  PROVE  Meant'
<1>1. /\ CallsGood /\ Rising(calls, stack) /\ Len(calls) \in Nat /\ Len(calls) >= 1
      /\ Top = calls[Len(calls)] /\ Len(calls) \in 1 .. Len(calls)
  BY Begins
<1>2. PICK f : Means(file.text, calls, stack, Tell, f)
  BY Begins
<1>3. /\ Len(calls') = Len(calls)
      /\ \A i \in 1 .. Len(calls) : calls'[i] = IF i = Len(calls) THEN c ELSE calls[i]
  <2> DEFINE u == [calls EXCEPT ![Len(calls)] = c]
  <2>1. calls' = u
    BY DEF Becomes
  <2>2. /\ Len(u) = Len(calls)
        /\ \A i \in 1 .. Len(calls) : u[i] = IF i = Len(calls) THEN c ELSE calls[i]
    BY <1>1, TopReplaced
  <2> HIDE DEF u
  <2> QED  BY <2>1, <2>2
<1>4. Comes(file.text, c, Between(stack, Own(c), Len(stack)), Tell', f[Len(calls)])
  <2>1. Comes(file.text, Top, Values(Top, stack), Tell, f[Len(calls)])
    BY <1>1, <1>2 DEF Means, Values
  <2>2. Comes(file.text, c, Values(c, stack), Tell', f[Len(calls)])
    BY <2>1 DEF GoesOn
  <2> QED  BY <2>2 DEF Values
<1>5. \A i \in 1 .. Len(calls) : calls'[i].base = calls[i].base
  BY <1>1, <1>3
<1>6. Rising(calls', stack')
  <2>1. ASSUME NEW i \in 1 .. Len(calls)
        PROVE  calls'[i].base \in Nat /\ Own(calls'[i]) \in Nat /\ calls'[i].base <= Len(stack')
    <3>1. CASE i = Len(calls)
      BY <1>1, <1>3, <3>1, OwnIsNat DEF Rising
    <3>2. CASE i # Len(calls)
      BY <1>1, <1>3, <3>2 DEF Rising
    <3> QED  BY <3>1, <3>2
  <2>2. \A i, j \in 1 .. Len(calls) : i <= j => calls'[i].base <= calls'[j].base
    BY <1>1, <1>5 DEF Rising
  <2> QED  BY <1>3, <2>1, <2>2 DEF Rising
<1>7. Means(file.text, calls', stack, Tell', f)
  <2> DEFINE t == file.text
             cs == calls
             ds == calls'
             q == Tell'
             p == Tell
  <2>1. /\ Len(ds) = Len(cs) /\ c.base = cs[Len(cs)].base
        /\ \A i \in 1 .. Len(cs) : ds[i] = IF i = Len(cs) THEN c ELSE cs[i]
        /\ Means(t, cs, stack, p, f) /\ Comes(t, c, Between(stack, Own(c), Len(stack)), q, f[Len(cs)])
        /\ Len(cs) \in Nat /\ Len(cs) >= 1
    BY <1>1, <1>2, <1>3, <1>4
  <2> HIDE DEF t, cs, ds, p, q
  <2>2. Means(t, ds, stack, q, f)
    BY <2>1, MeansStays
  <2> QED  BY <2>2 DEF t, ds, q
<1>8. DocumentIsMeant'
  BY DEF DocumentIsMeant
<1> QED  BY <1>6, <1>7, <1>8 DEF Meant

LEMMA EnteredIs ==
  ASSUME CallsGood, NEW at, NEW c, Enter(at, c)
  PROVE  /\ Len(calls') = Len(calls) + 1 /\ calls'[Len(calls) + 1] = c
         /\ \A i \in 1 .. Len(calls) : calls'[i] = IF i = Len(calls) THEN [Top EXCEPT !.at = at] ELSE calls[i]
<1> DEFINE d == [Top EXCEPT !.at = at]
           u == [calls EXCEPT ![Len(calls)] = d]
<1>1. calls' = Append(u, c)
  BY DEF Enter, Top
<1> HIDE DEF d
<1>2. /\ IsSequence(u) /\ Len(u) = Len(calls)
      /\ \A i \in 1 .. Len(calls) : u[i] = IF i = Len(calls) THEN d ELSE calls[i]
  BY TopReplaced
<1> HIDE DEF u
<1>3. /\ Len(calls') = Len(u) + 1
      /\ \A i \in 1 .. Len(u) : calls'[i] = u[i]
      /\ calls'[Len(u) + 1] = c
  BY <1>1, <1>2, Appended
<1> QED  BY <1>2, <1>3 DEF d

\* The stack keeps its first n values.
Keeping(s, u, n) == \A i \in 1 .. n : u[i] = s[i]

LEMMA MeantCalls ==
  ASSUME Balance, Meant, status = "parsing", status' = "parsing", UNCHANGED file,
         NEW at, NEW c, Enter(at, c), IsCall(c), c.base = Len(stack),
         Len(stack') \in Nat, Len(stack) <= Len(stack'), Keeping(stack, stack', Len(stack)),
         Asks(file.text, Top, Tell, stack, [Top EXCEPT !.at = at], c, Tell', stack')
  PROVE  Meant'
<1> DEFINE d == [Top EXCEPT !.at = at]
<1>1. /\ CallsGood /\ Rising(calls, stack) /\ Len(calls) \in Nat /\ Len(calls) >= 1
      /\ Top = calls[Len(calls)] /\ Len(calls) \in 1 .. Len(calls) /\ Len(stack) \in Nat /\ IsCall(Top)
  BY Begins
<1>2. PICK f : Means(file.text, calls, stack, Tell, f)
  BY Begins
<1>3. /\ Len(calls') = Len(calls) + 1 /\ calls'[Len(calls) + 1] = c
      /\ \A i \in 1 .. Len(calls) : calls'[i] = IF i = Len(calls) THEN d ELSE calls[i]
  BY <1>1, EnteredIs
<1>4. IsCall(d) /\ d.fn = Top.fn /\ d.base = Top.base
  BY <1>1, MovedCall
<1> HIDE DEF d
<1>5. PICK v : /\ Waits(file.text, d, Values(d, stack), v, f[Len(calls)])
               /\ Comes(file.text, c, Values(c, stack'), Tell', v)
  <2>1. Comes(file.text, Top, Values(Top, stack), Tell, f[Len(calls)])
    BY <1>1, <1>2 DEF Means, Values
  <2> QED  BY <2>1 DEF Asks, d
<1>6. Rising(calls', stack')
  <2>1. ASSUME NEW i \in 1 .. Len(calls')
        PROVE  /\ calls'[i].base \in Nat /\ Own(calls'[i]) \in Nat /\ calls'[i].base <= Len(stack')
    <3>1. CASE i = Len(calls) + 1
      <4>1. calls'[i] = c
        BY <1>3, <3>1
      <4> QED  BY <1>1, <4>1, OwnIsNat
    <3>2. CASE i = Len(calls)
      <4>1. calls'[i] = d /\ calls[Len(calls)].base <= Len(stack)
        BY <1>1, <1>3, <3>2 DEF Rising
      <4> QED  BY <1>1, <1>4, <4>1, OwnIsNat
    <3>3. CASE i \in 1 .. Len(calls) /\ i # Len(calls)
      <4>1. calls'[i] = calls[i] /\ calls[i].base \in Nat /\ Own(calls[i]) \in Nat
            /\ calls[i].base <= Len(stack)
        BY <1>1, <1>3, <3>3 DEF Rising
      <4> QED  BY <1>1, <4>1
    <3> QED  BY <1>1, <1>3, <3>1, <3>2, <3>3
  <2>2. ASSUME NEW i \in 1 .. Len(calls'), NEW j \in 1 .. Len(calls'), i <= j
        PROVE  calls'[i].base <= calls'[j].base
    <3>1. \A m \in 1 .. Len(calls) : calls'[m].base = calls[m].base /\ calls[m].base <= Len(stack)
      BY <1>1, <1>3, <1>4 DEF Rising
    <3>2. calls'[Len(calls) + 1].base = Len(stack)
      BY <1>3
    <3>3. CASE j = Len(calls) + 1
      <4>1. CASE i = Len(calls) + 1
        BY <1>1, <3>2, <3>3, <4>1
      <4>2. CASE i # Len(calls) + 1
        <5>1. i \in 1 .. Len(calls)
          BY <1>1, <1>3, <4>2
        <5> QED  BY <3>1, <3>2, <3>3, <5>1
      <4> QED  BY <4>1, <4>2
    <3>4. CASE j # Len(calls) + 1
      <4>1. i \in 1 .. Len(calls) /\ j \in 1 .. Len(calls)
        BY <1>1, <1>3, <2>2, <3>4
      <4>2. calls[i].base <= calls[j].base
        BY <1>1, <2>2, <4>1 DEF Rising
      <4> QED  BY <3>1, <4>1, <4>2
    <3> QED  BY <3>3, <3>4
  <2> QED  BY <2>1, <2>2 DEF Rising
<1>7. \E g : Means(file.text, calls', stack', Tell', g)
  <2> DEFINE t == file.text
             cs == calls
             ds == calls'
             s == stack
             u == stack'
             q == Tell'
             p == Tell
  <2>1. /\ Len(ds) = Len(cs) + 1 /\ ds[Len(cs) + 1] = c /\ Len(cs) \in Nat /\ Len(cs) >= 1
        /\ \A i \in 1 .. Len(cs) : ds[i] = IF i = Len(cs) THEN d ELSE cs[i]
    BY <1>1, <1>3
  <2>2. /\ d.base = cs[Len(cs)].base /\ d.fn = cs[Len(cs)].fn /\ c.base = Len(s)
        /\ Len(s) \in Nat /\ Rising(cs, s)
    BY <1>1, <1>4
  <2>3. \A i \in 1 .. Len(s) : u[i] = s[i]
    BY DEF Keeping
  <2>4. /\ Means(t, cs, s, p, f) /\ Waits(t, d, Between(s, Own(d), Len(s)), v, f[Len(cs)])
        /\ Comes(t, c, Between(u, Own(c), Len(u)), q, v)
    BY <1>2, <1>5 DEF Values
  <2> HIDE DEF t, cs, ds, s, u, p, q
  <2>5. \E g : Means(t, ds, u, q, g)
    BY <2>1, <2>2, <2>3, <2>4, MeansCalls
  <2> QED  BY <2>5 DEF t, ds, u, q
<1>8. DocumentIsMeant'
  BY DEF DocumentIsMeant
<1> QED  BY <1>6, <1>7, <1>8 DEF Meant

LEMMA MeantReturns ==
  ASSUME Balance, Meant, status = "parsing", status' = "parsing", UNCHANGED file, IsSequence(file.text),
         Return, Top.fn # "root", Len(stack') = Top.base + 1, Keeping(stack, stack', Top.base),
         Tell' \in 0 .. Len(file.text),
         Answers(file.text, Top, Tell, stack, stack'[Top.base + 1], Tell')
  PROVE  Meant'
<1> DEFINE k == Len(calls) - 1
           e == calls[k]
<1>1. /\ CallsGood /\ Rising(calls, stack) /\ Len(calls) \in Nat /\ Len(calls) >= 1 /\ StackBalanced
      /\ Top = calls[Len(calls)] /\ Len(calls) \in 1 .. Len(calls) /\ Top.base \in Nat
  BY Begins
<1>2. PICK f : Means(file.text, calls, stack, Tell, f)
  BY Begins
<1>3. k \in 1 .. Len(calls) /\ Len(calls) >= 2 /\ k \in Nat /\ k >= 1 /\ k + 1 = Len(calls)
      /\ k \in 1 .. Len(calls) - 1
  <2>1. Len(calls) # 1
    BY <1>1, TopIsCall
  <2> DEFINE n == Len(calls)
  <2>2. n \in Nat /\ n >= 1 /\ n # 1
    BY <1>1, <2>1
  <2> HIDE DEF n
  <2>3. n - 1 \in 1 .. n /\ n >= 2 /\ n - 1 \in Nat /\ n - 1 >= 1 /\ n - 1 + 1 = n
    BY <2>2
  <2>4. n - 1 \in 1 .. n - 1
    BY <2>3
  <2> QED  BY <2>3, <2>4 DEF n
<1>4. Len(calls') = Len(calls) - 1 /\ \A i \in 1 .. Len(calls) - 1 : calls'[i] = calls[i]
  <2>1. Len(calls) - 1 \in 0 .. Len(calls)
    BY <1>3
  <2> QED  BY <1>1, <2>1, Shortened DEF CallsGood, Return, Front
<1>5. IsCall(e) /\ e.base \in Nat /\ e.n \in Nat
  BY <1>1, <1>3 DEF CallsGood, IsCall
<1>6. Top.base = e.base + Held(e) - 1
  BY <1>1, <1>3 DEF StackBalanced
<1>7. Waits(file.text, e, Between(stack, Own(e), Top.base), f[Len(calls)], f[k])
  BY <1>1, <1>2, <1>3 DEF Means
<1> HIDE DEF k, e
<1>8. Own(e) <= Top.base /\ (e.fn = "root" => Top.base = e.base)
  <2>1. CASE e.fn = "root" /\ e.at = "after"
    <3>1. Held(e) = 1
      BY <2>1 DEF Held, Begun
    <3> QED  BY <1>5, <1>6, <2>1, <3>1 DEF Own, Nested
  <2>2. CASE e.fn = "object" /\ e.at \in {"after", "colon"}
    <3>1. Held(e) \in Nat /\ Held(e) >= 2
      BY <1>5, <2>2 DEF Held, Begun
    <3> QED  BY <1>5, <1>6, <2>2, <3>1 DEF Own, Nested
  <2>3. CASE e.fn = "array" /\ e.at = "after"
    <3>1. Held(e) \in Nat /\ Held(e) >= 2
      BY <1>5, <2>3 DEF Held, Begun
    <3> QED  BY <1>5, <1>6, <2>3, <3>1 DEF Own, Nested
  <2> QED  BY <1>7, <2>1, <2>2, <2>3 DEF Waits, Nested
<1>9. Rising(calls', stack')
  <2>1. \A i \in 1 .. Len(calls') : i \in 1 .. Len(calls) /\ calls'[i] = calls[i] /\ i <= Len(calls)
    BY <1>1, <1>4
  <2>2. \A i \in 1 .. Len(calls') : /\ calls[i].base \in Nat /\ Own(calls[i]) \in Nat
                                    /\ calls[i].base <= Top.base
    BY <1>1, <2>1 DEF Rising
  <2>3. \A i \in 1 .. Len(calls') : /\ calls'[i].base \in Nat /\ Own(calls'[i]) \in Nat
                                    /\ calls'[i].base <= Len(stack')
    BY <1>1, <2>1, <2>2
  <2>4. \A i, j \in 1 .. Len(calls') : i <= j => calls'[i].base <= calls'[j].base
    BY <1>1, <2>1 DEF Rising
  <2> QED  BY <2>3, <2>4 DEF Rising
<1>10. f[Len(calls)] = Got(stack'[Top.base + 1], Tell')
  <2>1. Comes(file.text, Top, Values(Top, stack), Tell, f[Len(calls)])
    BY <1>1, <1>2 DEF Means, Values
  <2> QED  BY <2>1 DEF Answers
<1>11. Means(file.text, calls', stack', Tell', f)
  <2> DEFINE t == file.text
             cs == calls
             ds == calls'
             s == stack
             u == stack'
             q == Tell'
             p == Tell
  <2>1. /\ Len(cs) \in Nat /\ Len(cs) >= 2 /\ Len(ds) = Len(cs) - 1
        /\ \A i \in 1 .. Len(cs) - 1 : ds[i] = cs[i]
        /\ Len(u) = cs[Len(cs)].base + 1 /\ Rising(cs, s)
    BY <1>1, <1>3, <1>4
  <2>2. \A i \in 1 .. cs[Len(cs)].base : u[i] = s[i]
    BY <1>1 DEF Keeping
  <2>3. /\ Means(t, cs, s, p, f) /\ q \in 0 .. Len(t) /\ IsSequence(t)
        /\ f[Len(cs)] = Got(u[cs[Len(cs)].base + 1], q)
    BY <1>1, <1>2, <1>10
  <2>4. /\ Own(cs[Len(cs) - 1]) <= cs[Len(cs)].base
        /\ cs[Len(cs) - 1].fn = "root" => cs[Len(cs)].base = cs[Len(cs) - 1].base
    BY <1>1, <1>8 DEF k, e
  <2> HIDE DEF t, cs, ds, s, u, p, q
  <2>5. Means(t, ds, u, q, f)
    BY <2>1, <2>2, <2>3, <2>4, MeansReturns
  <2> QED  BY <2>5 DEF t, ds, u, q
<1>12. DocumentIsMeant'
  BY DEF DocumentIsMeant
<1> QED  BY <1>9, <1>11, <1>12 DEF Meant

LEMMA MeantFails ==
  ASSUME Balance, Meant, Windowed, status = "parsing", NEW code, Fail(code), code \notin {"parsing", "parsed"},
         Misses(file.text, Top, Tell, stack)
  PROVE  Meant'
<1>1. /\ Top = calls[Len(calls)] /\ Len(calls) \in Nat /\ Len(calls) >= 1
  BY Begins
<1>2. PICK f : Means(file.text, calls, stack, Tell, f)
  BY Begins
<1>3. ~f[Len(calls)].ok
  <2>1. Comes(file.text, Top, Values(Top, stack), Tell, f[Len(calls)])
    BY <1>1, <1>2 DEF Means, Values
  <2> QED  BY <2>1 DEF Misses
<1>4. Meaning(file.text) = Null
  BY <1>1, <1>2, <1>3, MeansFails
<1>5. file.value = Null
  BY <1>4, FilesAssumption DEF Windowed
<1>6. status' # "parsing" /\ status' # "parsed" /\ file' = file
  BY DEF Fail
<1> QED  BY <1>5, <1>6 DEF Meant, DocumentIsMeant
-----------------------------------------------------------------------------
(* The steps. *)

\* What the reader sees.
LEMMA Shown ==
  ASSUME Windowed
  PROVE  /\ IsSequence(file.text) /\ Len(file.text) \in Nat
         /\ Tell \in 0 .. Len(file.text) /\ Tell \in Nat /\ Peek = Shows(file.text, Tell)
<1>1. IsSequence(file.text) /\ Len(file.text) \in Nat
  BY TextIsSequence, LengthIs DEF Windowed
<1>2. /\ stream.count \in Nat /\ stream.current \in Nat /\ 1 <= stream.current
      /\ stream.current <= stream.last /\ stream.last \in Nat
      /\ stream.readCount \in Nat /\ stream.eof \in BOOLEAN
  BY DEF Windowed, IsStream
<1>3. stream.count + stream.current <= Len(file.text) + 1
  <2>1. CASE stream.eof
    <3>1. stream.count + stream.readCount = Len(file.text) /\ stream.last = stream.readCount + 1
      BY <2>1 DEF Windowed, Window
    <3> QED  BY <1>1, <1>2, <3>1
  <2>2. CASE ~stream.eof
    <3>1. stream.readCount = stream.last /\ stream.count + stream.readCount <= Len(file.text)
      BY <2>2 DEF Windowed, Window
    <3> QED  BY <1>1, <1>2, <3>1
  <2> QED  BY <2>1, <2>2
<1>4. Tell \in 0 .. Len(file.text) /\ Tell \in Nat /\ Tell + 1 = stream.count + stream.current
  BY <1>1, <1>2, <1>3 DEF Tell
<1>5. Peek = CharAt(file.text, Tell + 1)
  BY <1>2, <1>4 DEF Peek, Windowed, Window
<1>6. Peek = Shows(file.text, Tell)
  BY <1>1, <1>4, <1>5 DEF CharAt, Shows
<1> QED  BY <1>1, <1>4, <1>6

\* It takes a character.
LEMMA Taken ==
  ASSUME Windowed, Take, Peek # NUL
  PROVE  Tell' = Tell + 1 /\ Tell' \in 0 .. Len(file.text)
<1>1. /\ IsSequence(file.text) /\ Len(file.text) \in Nat
      /\ Tell \in 0 .. Len(file.text) /\ Tell \in Nat /\ Peek = Shows(file.text, Tell)
  BY Shown
<1>2. Tell + 1 \in 0 .. Len(file.text)
  BY <1>1, ShowsWithin
<1> DEFINE next == Read(stream)
<1>3. /\ IsStream(stream) /\ IsStream(next)
      /\ next # stream => next.count + next.current = stream.count + stream.current + 1
  BY ReadIs DEF Windowed
<1>4. next # stream
  <2>1. CASE stream.current < stream.last
    <3>1. next = [stream EXCEPT !.current = @ + 1]
      BY <2>1 DEF Read
    <3>2. next.current = stream.current + 1
      BY <1>3, <3>1 DEF IsStream, StreamFields
    <3> QED  BY <1>3, <3>2 DEF IsStream
  <2>2. CASE ~(stream.current < stream.last) /\ stream.eof
    <3>1. /\ stream.count \in Nat /\ stream.current \in Nat /\ stream.last \in Nat
          /\ stream.current = stream.last
      BY <1>3, <2>2 DEF IsStream
    <3>2. stream.count + stream.readCount = Len(file.text) /\ stream.last = stream.readCount + 1
          /\ stream.readCount \in Nat
      BY <1>3, <2>2 DEF Windowed, Window, IsStream
    <3>3. Tell = Len(file.text)
      BY <1>1, <3>1, <3>2 DEF Tell
    <3> QED  BY <1>1, <1>2, <3>3
  <2>3. CASE ~(stream.current < stream.last) /\ ~stream.eof
    <3>1. next = Filled(stream, Fetched(file.text, stream.count + stream.readCount))
      BY <2>3 DEF Read
    <3>2. next.count = stream.count + stream.readCount
      BY <3>1 DEF Filled
    <3>3. stream.readCount = BufferSize /\ stream.count \in Nat
      BY <1>3, <2>3 DEF Windowed, Window, IsStream
    <3> QED  BY <3>2, <3>3, JsonAssumption
  <2> QED  BY <2>1, <2>2, <2>3
<1>5. stream' = next
  BY DEF Take
<1> HIDE DEF next
<1>6. /\ stream.count \in Nat /\ stream.current \in Nat /\ stream'.count \in Nat /\ stream'.current \in Nat
      /\ stream'.count + stream'.current = stream.count + stream.current + 1
  BY <1>3, <1>4, <1>5 DEF IsStream
<1>7. Tell' = Tell + 1
  BY <1>6 DEF Tell
<1> QED  BY <1>2, <1>7

\* What a call returns depends on its kind.
LEMMA ComesIs ==
  ASSUME NEW t, NEW c, NEW held, NEW p, NEW r
  PROVE  /\ c.fn = "root" => (Comes(t, c, held, p, r) <=> RootComes(t, c, held, p, r))
         /\ Nested(c) => (Comes(t, c, held, p, r) <=> NestedComes(t, c, held, p, r))
         /\ c.fn = "string" => (Comes(t, c, held, p, r) <=> StringComes(t, c, p, r))
         /\ c.fn = "literal" => (Comes(t, c, held, p, r) <=> LiteralComes(t, c, p, r))
         /\ c.fn = "number" => (Comes(t, c, held, p, r) <=> NumberComes(t, c, p, r))
BY DEF Comes, Nested
LEMMA ValuesAlike ==
  ASSUME NEW c, NEW d, d.fn = c.fn, d.base = c.base, NEW s
  PROVE  Values(d, s) = Values(c, s)
BY DEF Values, Own, Nested

LEMMA BlankMeans == ASSUME Balance, Windowed, Meant, SkipWhitespace PROVE Meant'
<1>1. /\ status = "parsing" /\ status' = "parsing" /\ UNCHANGED <<file, calls, stack, doc>>
      /\ <<Top.fn, Top.at>> \in Gaps /\ Peek \in Blanks /\ Take
  BY DEF SkipWhitespace, Same
<1>2. Rising(calls, stack) /\ \E f : Means(file.text, calls, stack, Tell, f)
  BY <1>1, Begins
<1>3. PICK f : Means(file.text, calls, stack, Tell, f)
  BY <1>2
<1>4. /\ IsSequence(file.text) /\ Tell \in 0 .. Len(file.text) /\ Peek = Shows(file.text, Tell)
  BY Shown
<1>5. Tell' = Tell + 1
  <2>1. Peek # NUL
    BY <1>1, CharactersAre
  <2> QED  BY <1>1, <2>1, Taken
<1>6. Top.fn = "root" \/ Nested(Top)
  <2>1. \A gap \in Gaps : gap[1] \in {"root", "object", "array"}
    BY DEF Gaps
  <2>2. Top.fn \in {"root", "object", "array"}
    BY <1>1, <2>1
  <2> QED  BY <2>2 DEF Nested
<1>7. \A held, r : Comes(file.text, Top, held, Tell, r) => Comes(file.text, Top, held, Tell + 1, r)
  BY <1>1, <1>4, <1>6, RootPassesBlank, NestedPassesBlank, ComesIs
<1>8. Means(file.text, calls, stack, Tell', f)
  BY <1>3, <1>5, <1>7 DEF Means, Top
<1>9. Means(file.text', calls', stack', Tell', f) /\ Rising(calls', stack') /\ DocumentIsMeant'
  BY <1>1, <1>2, <1>8 DEF DocumentIsMeant, Meant
<1> QED  BY <1>9 DEF Meant

\* A call for a value: whoever waits goes on with what stands here.
LEMMA DueWaits ==
  ASSUME Balance, Windowed, Meant, ValueDue
  PROVE  \A r : Comes(file.text, Top, Values(Top, stack), Tell, r) =>
                  Waits(file.text, [Top EXCEPT !.at = "after"], Values([Top EXCEPT !.at = "after"], stack),
                        ValueAt(file.text, ReadingOf(file.text), Tell), r)
<1> DEFINE d == [Top EXCEPT !.at = "after"]
           held == Values(Top, stack)
<1>1. /\ status = "parsing" /\ Peek \notin Blanks
      /\ \/ Top.fn = "root" /\ Top.at = "start"
         \/ Top.fn = "array" /\ Top.at = "first" /\ Peek # "]"
         \/ Top.fn \in {"array", "object"} /\ Top.at = "value"
  BY DEF ValueDue, Facing, InCall
<1>2. IsSequence(file.text) /\ Tell \in 0 .. Len(file.text) /\ Peek = Shows(file.text, Tell)
  BY Shown
<1>3. IsCall(Top)
  BY <1>1, Begins
<1>4. d.fn = Top.fn /\ d.at = "after" /\ d.base = Top.base
  BY <1>3, MovedCall
<1> HIDE DEF d
<1>5. Values(d, stack) = held
  BY <1>4, ValuesAlike
<1> HIDE DEF held
<1>6. ASSUME NEW r, Comes(file.text, Top, held, Tell, r)
      PROVE  Waits(file.text, d, held, ValueAt(file.text, ReadingOf(file.text), Tell), r)
  <2>1. CASE Top.fn = "root" /\ Top.at = "start"
    <3>1. RootComes(file.text, Top, held, Tell, r)
      BY <1>6, <2>1, ComesIs
    <3> QED  BY <1>1, <1>2, <1>4, <2>1, <3>1, ValueStarts
  <2>2. CASE \/ Top.fn = "array" /\ Top.at = "first" /\ Peek # "]"
             \/ Top.fn \in {"array", "object"} /\ Top.at = "value"
    <3>1. Nested(Top)
      BY <2>2 DEF Nested
    <3>2. NestedComes(file.text, Top, held, Tell, r)
      BY <1>6, <3>1, ComesIs
    <3> QED  BY <1>1, <1>2, <1>4, <2>2, <3>2, ValueStarts
  <2> QED  BY <1>1, <2>1, <2>2
<1> QED  BY <1>5, <1>6 DEF d, held

LEMMA DueMeans ==
  ASSUME Balance, Windowed, Meant, ValueDue, status' = "parsing", UNCHANGED file,
         NEW e, Enter("after", e), IsCall(e), e.base = Len(stack),
         Len(stack') \in Nat, Len(stack) <= Len(stack'), Keeping(stack, stack', Len(stack)),
         Comes(file.text, e, Values(e, stack'), Tell', ValueAt(file.text, ReadingOf(file.text), Tell))
  PROVE  Meant'
<1>1. status = "parsing"
  BY DEF ValueDue, Facing, InCall
<1> DEFINE d == [Top EXCEPT !.at = "after"]
           p == Tell
           q == Tell'
           t == file.text
           s == stack
           u == stack'
<1>2. \A r : Comes(t, Top, Values(Top, s), p, r) => Waits(t, d, Values(d, s), ValueAt(t, ReadingOf(t), p), r)
  BY DueWaits
<1>3. Comes(t, e, Values(e, u), q, ValueAt(t, ReadingOf(t), p))
  OBVIOUS
<1> HIDE DEF d, p, q, t, s, u
<1>4. Asks(t, Top, p, s, d, e, q, u)
  BY <1>2, <1>3 DEF Asks
<1> QED  BY <1>1, <1>4, MeantCalls DEF d, p, q, t, s, u

\* The bracket that opens a value of a type.
Opens(open, type) ==
  \/ type = "object" /\ open = "{"
  \/ type = "array" /\ open = "["

LEMMA NestedMeans ==
  ASSUME Balance, Windowed, Meant, NEW fn, NEW open, ParseNested(fn, open), Opens(open, fn)
  PROVE  Meant'
<1> DEFINE e == Call(fn, "first")
<1>1. /\ status = "parsing" /\ status' = "parsing" /\ UNCHANGED file /\ ValueDue /\ Peek = open
      /\ Enter("after", e) /\ stack' = Append(stack, Value(fn)) /\ Take /\ Peek \notin Blanks
  BY DEF ParseNested, Same, ValueDue, Facing, InCall, Push
<1>2. IsSequence(stack) /\ Len(stack) \in Nat
  BY <1>1, Begins
<1>3. /\ Keeping(stack, stack', Len(stack)) /\ Len(stack') = Len(stack) + 1
      /\ Len(stack') \in Nat /\ Len(stack) <= Len(stack')
  BY <1>1, <1>2, Appended DEF Keeping
<1>4. IsCall(e) /\ e.fn = fn /\ e.at = "first" /\ e.base = Len(stack)
  BY <1>2, NewCall
<1> HIDE DEF e
<1>5. Nested(e) /\ Values(e, stack') = <<>>
  <2>1. Nested(e)
    BY <1>4 DEF Nested, Opens
  <2>2. Own(e) = Len(stack')
    BY <1>4, <1>3, <2>1 DEF Own
  <2> DEFINE n == Len(stack')
             u == stack'
  <2>3. n \in Nat /\ Own(e) = n
    BY <1>3, <2>2
  <2> HIDE DEF n, u
  <2>4. Between(u, Own(e), n) = <<>>
    BY <2>3, NothingBetween
  <2> QED  BY <2>1, <2>4 DEF Values, n, u
<1>6. IsSequence(file.text) /\ Tell \in 0 .. Len(file.text) /\ Peek = Shows(file.text, Tell)
  BY Shown
<1>7. Tell' = Tell + 1
  <2>1. Peek # NUL
    BY <1>1 DEF NUL, Opens
  <2> QED  BY <1>1, <2>1, Taken
<1>8. ValueAt(file.text, ReadingOf(file.text), Tell) = NestedAt(file.text, ReadingOf(file.text), Tell + 1, fn)
  BY <1>1, <1>6, ValueIs, Zenon DEF Opens
<1>9. Comes(file.text, e, Values(e, stack'), Tell', ValueAt(file.text, ReadingOf(file.text), Tell))
  <2>1. NestedComes(file.text, e, <<>>, Tell + 1, ValueAt(file.text, ReadingOf(file.text), Tell))
    BY <1>4, <1>8 DEF NestedComes
  <2> QED  BY <1>5, <1>7, <2>1, ComesIs
<1> QED  BY <1>1, <1>3, <1>4, <1>9, DueMeans

LEMMA PlainMeans ==
  ASSUME Balance, Windowed, Meant, ValueDue, status' = "parsing", UNCHANGED <<file, stack>>,
         NEW e, Enter("after", e), IsCall(e), e.base = Len(stack),
         \A held : Comes(file.text, e, held, Tell', ValueAt(file.text, ReadingOf(file.text), Tell))
  PROVE  Meant'
<1>1. status = "parsing"
  BY DEF ValueDue, Facing, InCall
<1>2. Len(stack) \in Nat
  BY <1>1, Begins
<1>3. Len(stack') \in Nat /\ Len(stack) <= Len(stack') /\ Keeping(stack, stack', Len(stack))
  BY <1>2 DEF Keeping
<1> QED  BY <1>1, <1>3, DueMeans

LEMMA StringMeans == ASSUME Balance, Windowed, Meant, ParseString PROVE Meant'
<1> DEFINE e == Call("string", "chars")
<1>1. /\ status = "parsing" /\ status' = "parsing" /\ UNCHANGED <<file, stack>> /\ ValueDue
      /\ Enter("after", e) /\ Take /\ Peek \notin Blanks
  BY DEF ParseString, Same, ValueDue, Facing, InCall
<1>2. IsSequence(file.text) /\ Tell \in 0 .. Len(file.text) /\ Peek = Shows(file.text, Tell)
  BY Shown
<1>3. IsSequence(stack)
  BY <1>1, Begins
<1>4. /\ IsCall(e) /\ e.fn = "string" /\ e.at = "chars" /\ e.base = Len(stack)
      /\ e.hex = <<>> /\ e.text = <<>>
  BY <1>3, NewCall DEF Call
<1> HIDE DEF e
<1>5. Tell' = Tell + 1 /\ Tell' \in 0 .. Len(file.text)
  <2>1. Peek # NUL
    BY DEF NUL, ParseString
  <2> QED  BY <1>1, <2>1, Taken
<1>6. ValueAt(file.text, ReadingOf(file.text), Tell) = AsText(ReadingOf(file.text)[Tell + 1]["text"])
  <2>1. Peek = "\""
    BY DEF ParseString
  <2> QED  BY <1>1, <1>2, <2>1, ValueIs, Zenon
<1>7. \A held : Comes(file.text, e, held, Tell', ValueAt(file.text, ReadingOf(file.text), Tell))
  <2> DEFINE t == file.text
             q == Tell'
             p == Tell
  <2>1. q \in 0 .. Len(t) /\ IsSequence(t) /\ q = p + 1 /\ ValueAt(t, ReadingOf(t), p) = AsText(ReadingOf(t)[p + 1]["text"])
    BY <1>2, <1>5, <1>6
  <2> HIDE DEF t, q, p
  <2>2. StringComes(t, e, q, AsText(ReadingOf(t)[q]["text"]))
    BY <1>4, <2>1, StringStarts
  <2>3. \A held : Comes(t, e, held, q, ValueAt(t, ReadingOf(t), p))
    BY <1>4, <2>1, <2>2, ComesIs
  <2> QED  BY <2>3 DEF t, q, p
<1> QED  BY <1>1, <1>4, <1>7, PlainMeans

LEMMA LiteralMeans == ASSUME Balance, Windowed, Meant, ParseLiteral PROVE Meant'
<1> DEFINE e == [Call("literal", "rest") EXCEPT !.text = Literals[Peek][2], !.result = Literals[Peek][1]]
<1>1. /\ status = "parsing" /\ status' = "parsing" /\ UNCHANGED <<file, stack>> /\ ValueDue
      /\ Enter("after", e) /\ Take /\ Peek \notin Blanks /\ Peek \in DOMAIN Literals
  BY DEF ParseLiteral, Same, ValueDue, Facing, InCall
<1>2. /\ IsSequence(file.text) /\ Tell \in 0 .. Len(file.text) /\ Tell \in Nat
      /\ Peek = Shows(file.text, Tell)
  BY Shown
<1>3. IsSequence(stack) /\ Len(stack) \in Nat
  BY <1>1, Begins
<1>4. /\ IsCall(e) /\ e.fn = "literal" /\ e.base = Len(stack)
      /\ e.text = Literals[Peek][2] /\ e.result = Literals[Peek][1]
  BY <1>3 DEF Call, IsCall, CallFields
<1> HIDE DEF e
<1>5. Tell' = Tell + 1
  <2>1. Peek # NUL
    BY <1>1 DEF NUL, Literals
  <2> QED  BY <1>1, <2>1, Taken
<1>6. ValueAt(file.text, ReadingOf(file.text), Tell) = LiteralAt(file.text, Tell)
  BY <1>1, <1>2, ValueIs, Zenon
<1>7. LiteralComes(file.text, e, Tell + 1, LiteralAt(file.text, Tell))
  BY <1>1, <1>2, <1>4, LiteralStarts
<1>8. \A held : Comes(file.text, e, held, Tell', ValueAt(file.text, ReadingOf(file.text), Tell))
  BY <1>4, <1>5, <1>6, <1>7, ComesIs
<1> QED  BY <1>1, <1>4, <1>8, PlainMeans

LEMMA NumberMeans == ASSUME Balance, Windowed, Meant, ParseNumber PROVE Meant'
<1> DEFINE e == Call("number", "start")
<1>1. /\ status = "parsing" /\ status' = "parsing" /\ UNCHANGED <<file, stack>> /\ ValueDue
      /\ Enter("after", e) /\ Keep /\ Peek \notin Blanks
  BY DEF ParseNumber, Same, ValueDue, Facing, InCall
<1>2. IsSequence(file.text) /\ Tell \in 0 .. Len(file.text) /\ Peek = Shows(file.text, Tell)
  BY Shown
<1>3. IsSequence(stack)
  BY <1>1, Begins
<1>4. /\ IsCall(e) /\ e.fn = "number" /\ e.at = "start" /\ e.base = Len(stack)
      /\ e.neg = FALSE /\ e.type = "int" /\ e.int = 0 /\ e.fraction = 0 /\ e.exponent = 0
  BY <1>3, NewCall DEF Call
<1> HIDE DEF e
<1>5. Tell' = Tell
  BY <1>1 DEF Keep, Tell
<1>6. ValueAt(file.text, ReadingOf(file.text), Tell) = NumberAt(file.text, Tell)
  <2>1. Peek \notin {"{", "[", "\""} \cup DOMAIN Literals
    BY DEF ParseNumber
  <2> QED  BY <1>1, <1>2, <2>1, ValueIs, Zenon
<1>7. NumberComes(file.text, e, Tell, NumberAt(file.text, Tell))
  BY <1>2, <1>4, NumberStarts
<1>8. \A held : Comes(file.text, e, held, Tell', ValueAt(file.text, ReadingOf(file.text), Tell))
  BY <1>4, <1>5, <1>6, <1>7, ComesIs
<1> QED  BY <1>1, <1>4, <1>8, PlainMeans

-----------------------------------------------------------------------------
(* The document, arrays and objects. *)

LEMMA OwnValues ==
  ASSUME Balance, Meant, status = "parsing", Nested(Top)
  PROVE  /\ IsSequence(Values(Top, stack)) /\ Len(Values(Top, stack)) = Held(Top) - 1
         /\ Own(Top) = Top.base + 1 /\ Own(Top) \in Nat /\ Own(Top) <= Len(stack) /\ Held(Top) >= 1
<1>1. /\ IsCall(Top) /\ Len(stack) \in Nat /\ Top.base \in Nat /\ Held(Top) \in Nat
      /\ Len(stack) = Top.base + Held(Top)
  BY Begins
<1>2. Own(Top) = Top.base + 1
  BY DEF Own
<1>3. Held(Top) >= 1
  <2>1. Top.n \in Nat /\ Top.fn \in {"object", "array"}
    BY <1>1 DEF IsCall, Nested
  <2>2. Held(Top) = 1 + Top.n + Begun(Top, 1) \/ Held(Top) = 1 + 2 * Top.n + Begun(Top, 2)
    BY <2>1 DEF Held
  <2>3. Begun(Top, 1) \in Nat /\ Begun(Top, 2) \in Nat
    BY DEF Begun
  <2> QED  BY <2>1, <2>2, <2>3
<1> DEFINE low == Own(Top)
           high == Len(stack)
<1>4. low \in Nat /\ high \in Nat /\ low <= high /\ high - low = Held(Top) - 1
  BY <1>1, <1>2, <1>3
<1> HIDE DEF low, high
<1>5. IsSequence(Between(stack, low, high)) /\ Len(Between(stack, low, high)) = Held(Top) - 1
  BY <1>4, BetweenIs
<1>6. low = Own(Top) /\ high = Len(stack)
  BY DEF low, high
<1> QED  BY <1>2, <1>3, <1>4, <1>5, <1>6 DEF Values

\* An object or an array goes on.
LEMMA NestedGoesOn ==
  ASSUME Balance, Meant, status = "parsing", status' = "parsing", UNCHANGED <<stack, file>>, Nested(Top),
         NEW c, IsCall(c), Becomes(c), c.fn = Top.fn, c.base = Top.base,
         \A r : NestedComes(file.text, Top, Values(Top, stack), Tell, r) =>
                  NestedComes(file.text, c, Values(Top, stack), Tell', r)
  PROVE  Meant'
<1> DEFINE t == file.text
           p == Tell
           q == Tell'
           s == stack
           held == Values(Top, s)
<1>1. \A r : NestedComes(t, Top, held, p, r) => NestedComes(t, c, held, q, r)
  OBVIOUS
<1>2. Nested(c)
  BY DEF Nested
<1>3. Values(c, s) = held
  BY ValuesAlike
<1> HIDE DEF t, p, q, s, held
<1>4. \A r : Comes(t, Top, held, p, r) => Comes(t, c, Values(c, s), q, r)
  BY <1>1, <1>2, <1>3, ComesIs
<1>5. GoesOn(t, Top, p, c, q, s)
  BY <1>4 DEF GoesOn, held
<1> QED  BY <1>5, MeantStays DEF t, p, q, s

LEMMA ColonMeans == ASSUME Balance, Windowed, Meant, Colon PROVE Meant'
<1> DEFINE c == [Top EXCEPT !.at = "value"]
<1>1. /\ status = "parsing" /\ status' = "parsing" /\ UNCHANGED <<stack, file>> /\ Take
      /\ Top.fn = "object" /\ Top.at = "colon" /\ Peek = ":" /\ Peek \notin Blanks
  BY DEF Colon, Facing, InCall, Same
<1>2. Becomes(c)
  BY DEF Colon, Goto, Becomes, Top
<1>3. IsCall(c) /\ c.fn = Top.fn /\ c.at = "value" /\ c.base = Top.base
  BY <1>1, Begins, MovedCall
<1> HIDE DEF c
<1>4. IsSequence(file.text) /\ Tell \in 0 .. Len(file.text) /\ Peek = Shows(file.text, Tell)
  BY Shown
<1>5. Tell' = Tell + 1
  <2>1. Peek # NUL
    BY <1>1 DEF NUL
  <2> QED  BY <1>1, <2>1, Taken
<1>6. \A held, r : NestedComes(file.text, Top, held, Tell, r) => NestedComes(file.text, c, held, Tell', r)
  BY <1>1, <1>3, <1>4, <1>5, ColonComes
<1>7. Nested(Top)
  BY <1>1 DEF Nested
<1> QED  BY <1>1, <1>2, <1>3, <1>6, <1>7, NestedGoesOn

LEMMA CommaMeans == ASSUME Balance, Windowed, Meant, Comma PROVE Meant'
<1>1. /\ status = "parsing" /\ status' = "parsing" /\ UNCHANGED <<stack, file>> /\ Top.at = "after"
      /\ Take /\ Peek = "," /\ Peek \notin Blanks
  BY DEF Comma, Facing, InCall, Same
<1>2. PICK at \in {"key", "value"} :
        /\ Becomes([Top EXCEPT !.n = @ + 1, !.at = at])
        /\ \/ Top.fn = "object" /\ at = "key"
           \/ Top.fn = "array" /\ at = "value"
  <2>1. CASE Facing("object", {"after"}) /\ Becomes([Top EXCEPT !.n = @ + 1, !.at = "key"])
    BY <2>1 DEF Facing, InCall
  <2>2. CASE Facing("array", {"after"}) /\ Becomes([Top EXCEPT !.n = @ + 1, !.at = "value"])
    BY <2>2 DEF Facing, InCall
  <2> QED  BY <2>1, <2>2 DEF Comma
<1> DEFINE c == [Top EXCEPT !.n = @ + 1, !.at = at]
<1>3. IsCall(Top) /\ Top.n \in Nat
  BY <1>1, Begins DEF IsCall
<1>4. IsCall(c) /\ c.fn = Top.fn /\ c.at = at /\ c.base = Top.base
  BY <1>3 DEF IsCall, CallFields
<1>5. Becomes(c)
  BY <1>2
<1> HIDE DEF c
<1>6. IsSequence(file.text) /\ Tell \in 0 .. Len(file.text) /\ Peek = Shows(file.text, Tell)
  BY Shown
<1>7. Tell' = Tell + 1
  <2>1. Peek # NUL
    BY <1>1 DEF NUL
  <2> QED  BY <1>1, <2>1, Taken
<1>8. Nested(Top) /\ c.at = (IF Top.fn = "object" THEN "key" ELSE "value")
  BY <1>2, <1>4 DEF Nested
<1>9. IsSequence(Values(Top, stack))
  BY <1>1, <1>8, OwnValues
<1>10. \A r : NestedComes(file.text, Top, Values(Top, stack), Tell, r) =>
                NestedComes(file.text, c, Values(Top, stack), Tell', r)
  BY <1>1, <1>4, <1>6, <1>7, <1>8, <1>9, MoreComes
<1> QED  BY <1>1, <1>4, <1>5, <1>8, <1>10, NestedGoesOn

LEMMA KeyMeans == ASSUME Balance, Windowed, Meant, Key PROVE Meant'
<1> DEFINE e == Call("string", "chars")
           d == [Top EXCEPT !.at = "colon"]
<1>1. /\ status = "parsing" /\ status' = "parsing" /\ UNCHANGED <<stack, file>> /\ Take
      /\ Top.fn = "object" /\ Top.at \in {"first", "key"} /\ Enter("colon", e)
  BY DEF Key, Facing, InCall, Same
<1>2. /\ IsSequence(file.text) /\ Tell \in 0 .. Len(file.text) /\ Peek = Shows(file.text, Tell)
  BY Shown
<1>3. IsSequence(stack) /\ Len(stack) \in Nat /\ IsCall(Top)
  BY <1>1, Begins
<1>4. /\ IsCall(e) /\ e.fn = "string" /\ e.at = "chars" /\ e.base = Len(stack)
      /\ e.hex = <<>> /\ e.text = <<>>
  BY <1>3, NewCall DEF Call
<1>5. d.fn = "object" /\ d.at = "colon" /\ d.base = Top.base /\ d.fn = Top.fn
  BY <1>1, <1>3, MovedCall
<1> HIDE DEF e, d
<1>6. Tell' = Tell + 1 /\ Tell' \in 0 .. Len(file.text)
  <2>1. Peek # NUL
    BY DEF NUL, Key
  <2> QED  BY <1>1, <2>1, Taken
<1>7. Values(d, stack) = Values(Top, stack) /\ Nested(Top)
  BY <1>1, <1>5, ValuesAlike DEF Nested
<1> DEFINE t == file.text
           p == Tell
           q == Tell'
           s == stack
           u == stack'
           v == AsText(ReadingOf(t)[q]["text"])
<1>8. \A held, r : NestedComes(t, Top, held, p, r) => Waits(t, d, held, v, r)
  <2>1. Shows(t, p) = "\""
    BY <1>2 DEF Key
  <2> QED  BY <1>1, <1>2, <1>5, <1>6, <2>1, NameStarts, Zenon
<1>9. q \in 0 .. Len(t) /\ IsSequence(t)
  BY <1>2, <1>6
<1>10. Values(d, s) = Values(Top, s)
  BY <1>7
<1> HIDE DEF t, p, q, s, u
<1>11. StringComes(t, e, q, v)
  BY <1>4, <1>9, StringStarts
<1> HIDE DEF v
<1>12. Comes(t, e, Values(e, u), q, v)
  BY <1>4, <1>11, ComesIs
<1>13. Asks(t, Top, p, s, d, e, q, u)
  <2>1. \A r : Comes(t, Top, Values(Top, s), p, r) => Waits(t, d, Values(d, s), v, r)
    BY <1>7, <1>8, <1>10, ComesIs
  <2> QED  BY <1>12, <2>1 DEF Asks
<1>14. Len(stack') \in Nat /\ Len(stack) <= Len(stack') /\ Keeping(stack, stack', Len(stack))
  BY <1>1, <1>3 DEF Keeping
<1>15. Asks(file.text, Top, Tell, stack, [Top EXCEPT !.at = "colon"], e, Tell', stack')
  BY <1>13 DEF t, p, q, s, u, d
<1> QED  BY <1>1, <1>4, <1>14, <1>15, MeantCalls

\* What EndObject and EndArray take off the stack are the values of their call.
LEMMA EndedIs ==
  ASSUME Balance, Meant, status = "parsing", Nested(Top), NEW n \in Nat, Held(Top) = n + 1,
         NEW type, EndHolding(type, n)
  PROVE  /\ IsSequence(stack') /\ Len(stack') = Top.base + 1 /\ Keeping(stack, stack', Top.base)
         /\ stack'[Top.base + 1] = Holding(type, Values(Top, stack))
<1>1. /\ IsSequence(stack) /\ Len(stack) \in Nat /\ Top.base \in Nat /\ Len(stack) = Top.base + n + 1
  BY Begins
<1>2. IsSequence(Values(Top, stack)) /\ Len(Values(Top, stack)) = n /\ Own(Top) = Top.base + 1
  BY OwnValues
<1> DEFINE base == Top.base
           low == Own(Top)
           high == Len(stack)
           own == SubSeq(stack, high - n + 1, high)
           rest == SubSeq(stack, 1, high - n - 1)
           held == Values(Top, stack)
<1>3. stack' = Append(rest, Holding(type, own))
  BY DEF EndHolding
<1>4. low = base + 1 /\ high = base + n + 1 /\ base \in Nat /\ high \in Nat
  BY <1>1, <1>2
<1>5. held = Between(stack, low, high) /\ IsSequence(held) /\ Len(held) = n
  BY <1>2 DEF Values
<1> HIDE DEF base, low, high, held
<1>6. high - n - 1 = base /\ high - n = low /\ low \in 0 .. high /\ base \in 0 .. high /\ low \in Nat /\ low <= high
      /\ high - low = n
  BY <1>4
<1>7. own = held
  <2>1. PICK T : stack \in Seq(T)
    BY <1>1 DEF IsSequence
  <2>2. own = SubSeq(stack, low + 1, high) /\ high = Len(stack)
    BY <1>6 DEF high
  <2> HIDE DEF own
  <2>3. /\ own \in Seq(T) /\ Len(own) = high - low
        /\ \A i \in 1 .. high - low : own[i] = stack[low + i]
    BY <1>6, <2>1, <2>2, SuffixIs
  <2>4. IsSequence(own)
    BY <2>3 DEF IsSequence
  <2>5. \A i \in 1 .. high - low : held[i] = stack[low + i]
    BY <1>5 DEF Between
  <2>6. \A i \in 1 .. Len(own) : own[i] = held[i]
    BY <2>3, <2>5
  <2>7. Len(own) = Len(held)
    BY <1>5, <1>6, <2>3
  <2> QED  BY <1>5, <2>4, <2>6, <2>7, SameMembers
<1>8. IsSequence(rest) /\ Len(rest) = base /\ \A i \in 1 .. base : rest[i] = stack[i]
  <2>1. rest = SubSeq(stack, 1, base) /\ base \in 0 .. Len(stack)
    BY <1>6 DEF high
  <2> QED  BY <1>1, <2>1, Shortened
<1> HIDE DEF own, rest
<1>9. /\ IsSequence(stack') /\ Len(stack') = base + 1 /\ \A i \in 1 .. base : stack'[i] = stack[i]
      /\ stack'[base + 1] = Holding(type, held)
  <2>1. /\ IsSequence(stack') /\ Len(stack') = base + 1 /\ \A i \in 1 .. base : stack'[i] = rest[i]
        /\ stack'[base + 1] = Holding(type, own)
    BY <1>3, <1>8, Appended
  <2> QED  BY <1>7, <1>8, <2>1
<1> QED  BY <1>9 DEF base, held, Keeping

\* An object or an array ends with what its call returns.
LEMMA EndMeans ==
  ASSUME Balance, Windowed, Meant, status = "parsing", status' = "parsing", UNCHANGED file, Return, Take,
         Nested(Top), Top.at \in {"first", "after"}, Peek = Close[Top.fn], Peek \notin Blanks, Peek # NUL,
         NEW n \in Nat, Held(Top) = n + 1, EndHolding(Top.fn, n)
  PROVE  Meant'
<1>1. /\ IsSequence(stack') /\ Len(stack') = Top.base + 1 /\ Keeping(stack, stack', Top.base)
      /\ stack'[Top.base + 1] = Holding(Top.fn, Values(Top, stack))
  BY EndedIs
<1>2. IsSequence(Values(Top, stack))
  BY OwnValues
<1>3. IsSequence(file.text) /\ Tell \in 0 .. Len(file.text) /\ Peek = Shows(file.text, Tell)
  BY Shown
<1>4. Tell' = Tell + 1 /\ Tell' \in 0 .. Len(file.text)
  BY Taken
<1> DEFINE t == file.text
           p == Tell
           q == Tell'
           s == stack
           v == stack'[Top.base + 1]
           held == Values(Top, s)
           d == [Top EXCEPT !.at = IF Top.fn = "object" THEN "key" ELSE "value"]
<1>5. /\ IsSequence(t) /\ p \in 0 .. Len(t) /\ Shows(t, p) = Close[Top.fn] /\ Shows(t, p) \notin Blanks
      /\ q = p + 1 /\ v = Holding(Top.fn, held) /\ IsSequence(held)
  BY <1>1, <1>2, <1>3, <1>4
<1>6. d.fn = Top.fn /\ d.at = IF Top.fn = "object" THEN "key" ELSE "value"
  <2>1. IsCall(Top)
    BY Begins
  <2> QED  BY <2>1, MovedCall
<1>7. Shows(t, p) # ","
  <2>1. Close["object"] # "," /\ Close["array"] # ","
    BY DEF Close
  <2> QED  BY <1>5, <2>1 DEF Nested
<1> HIDE DEF t, p, q, s, v, held, d
<1>8. ASSUME NEW r, NestedComes(t, Top, held, p, r) PROVE r = Got(v, q)
  <2>1. CASE Top.at = "first"
    BY <1>5, <1>8, <2>1, NothingComes
  <2>2. CASE Top.at = "after"
    BY <1>5, <1>6, <1>7, <1>8, <2>2, MoreComes
  <2> QED  BY <2>1, <2>2
<1>9. Answers(t, Top, p, s, v, q)
  BY <1>8, ComesIs DEF Answers, held
<1>10. Answers(file.text, Top, Tell, stack, stack'[Top.base + 1], Tell')
  BY <1>9 DEF t, p, q, s, v
<1>11. Top.fn # "root"
  BY DEF Nested
<1> QED  BY <1>1, <1>3, <1>4, <1>10, <1>11, MeantReturns

LEMMA EndsMean == ASSUME Balance, Windowed, Meant, EndObject \/ EndArray PROVE Meant'
<1>1. /\ status = "parsing" /\ status' = "parsing" /\ UNCHANGED file /\ Return /\ Take
      /\ Top.at \in {"first", "after"} /\ Top.fn \in {"object", "array"}
  BY DEF EndObject, EndArray, Facing, InCall, Same
<1>2. Nested(Top) /\ IsCall(Top) /\ Top.n \in Nat /\ (Top.at = "first" => Top.n = 0)
  <2>1. IsCall(Top) /\ CallsGood /\ Nested(Top)
    BY <1>1, Begins DEF Nested
  <2> QED  BY <2>1, TopIsCall DEF IsCall
<1>3. Peek = Close[Top.fn] /\ Peek \notin Blanks /\ Peek # NUL
  <2>1. Peek = Close[Top.fn]
    <3>1. (Top.fn = "object" /\ Peek = "}") \/ (Top.fn = "array" /\ Peek = "]")
      BY DEF EndObject, EndArray, Facing, InCall
    <3>2. Close["object"] = "}" /\ Close["array"] = "]"
      BY DEF Close
    <3> QED  BY <3>1, <3>2
  <2>2. Peek \notin Blanks
    BY DEF EndObject, EndArray, Facing
  <2>3. Close["object"] # NUL /\ Close["array"] # NUL
    BY DEF Close, NUL
  <2> QED  BY <1>1, <2>1, <2>2, <2>3
<1>4. CASE EndObject
  <2> DEFINE n == IF Top.at = "first" THEN 0 ELSE 2 * (Top.n + 1)
  <2>1. n \in Nat /\ Held(Top) = n + 1 /\ Top.fn = "object"
    <3>1. Top.fn = "object"
      BY <1>4 DEF EndObject, Facing, InCall
    <3>2. CASE Top.at = "first"
      BY <1>2, <3>1, <3>2 DEF Held, Begun
    <3>3. CASE Top.at = "after"
      BY <1>2, <3>1, <3>3 DEF Held, Begun
    <3> QED  BY <1>1, <3>1, <3>2, <3>3
  <2>2. EndHolding(Top.fn, n)
    BY <1>4, <2>1 DEF EndObject
  <2> HIDE DEF n
  <2> QED  BY <1>1, <1>2, <1>3, <2>1, <2>2, EndMeans
<1>5. CASE EndArray
  <2> DEFINE n == IF Top.at = "first" THEN 0 ELSE Top.n + 1
  <2>1. n \in Nat /\ Held(Top) = n + 1 /\ Top.fn = "array"
    BY <1>1, <1>2, <1>5 DEF EndArray, Facing, InCall, Held, Begun
  <2>2. EndHolding(Top.fn, n)
    BY <1>5, <2>1 DEF EndArray
  <2> HIDE DEF n
  <2> QED  BY <1>1, <1>2, <1>3, <2>1, <2>2, EndMeans
<1> QED  BY <1>4, <1>5

\* Where the text goes wrong between the values.
LEMMA NestedMisses ==
  ASSUME Balance, Windowed, Meant, NEW code, Fail(code), code \notin {"parsing", "parsed"},
         status = "parsing", Nested(Top),
         \A r : NestedComes(file.text, Top, Values(Top, stack), Tell, r) => ~r.ok
  PROVE  Meant'
<1> DEFINE t == file.text
           p == Tell
           s == stack
           held == Values(Top, s)
<1>1. \A r : NestedComes(t, Top, held, p, r) => ~r.ok
  OBVIOUS
<1> HIDE DEF t, p, s, held
<1>2. Misses(t, Top, p, s)
  BY <1>1, ComesIs DEF Misses, held
<1> QED  BY <1>2, MeantFails DEF t, p, s

LEMMA NoKeyMeans == ASSUME Balance, Windowed, Meant, NoKey PROVE Meant'
<1>1. /\ status = "parsing" /\ Top.fn = "object" /\ Top.at \in {"first", "key"} /\ Peek \notin Blanks
      /\ Fail("ObjectMissName")
  BY DEF NoKey, Facing, InCall
<1>2. IsSequence(file.text) /\ Tell \in 0 .. Len(file.text) /\ Peek = Shows(file.text, Tell)
  BY Shown
<1>3. \A held, r : NestedComes(file.text, Top, held, Tell, r) => ~r.ok
  <2>1. Shows(file.text, Tell) # "\"" /\ (Top.at = "first" => Shows(file.text, Tell) # "}")
    BY <1>2, Zenon DEF NoKey
  <2> QED  BY <1>1, <1>2, <2>1, NoNameComes, Zenon
<1>4. Nested(Top)
  BY <1>1 DEF Nested
<1> QED  BY <1>1, <1>3, <1>4, NestedMisses

LEMMA NoColonMeans == ASSUME Balance, Windowed, Meant, NoColon PROVE Meant'
<1> DEFINE d == [Top EXCEPT !.at = "value"]
<1>1. /\ status = "parsing" /\ Top.fn = "object" /\ Top.at = "colon" /\ Peek \notin Blanks
      /\ Peek # ":" /\ Fail("ObjectMissColon")
  BY DEF NoColon, Facing, InCall
<1>2. IsSequence(file.text) /\ Tell \in 0 .. Len(file.text) /\ Peek = Shows(file.text, Tell)
  BY Shown
<1>3. d.fn = "object" /\ d.at = "value"
  BY <1>1, Begins, MovedCall
<1> HIDE DEF d
<1>4. \A held, r : NestedComes(file.text, Top, held, Tell, r) => ~r.ok
  BY <1>1, <1>2, <1>3, ColonComes
<1>5. Nested(Top)
  BY <1>1 DEF Nested
<1> QED  BY <1>1, <1>4, <1>5, NestedMisses

LEMMA NoEndMeans == ASSUME Balance, Windowed, Meant, NoEnd PROVE Meant'
<1> DEFINE d == [Top EXCEPT !.at = IF Top.fn = "object" THEN "key" ELSE "value"]
<1>1. /\ status = "parsing" /\ Nested(Top) /\ Top.at = "after" /\ Peek \notin Blanks /\ Peek # ","
      /\ Peek # Close[Top.fn]
  <2>1. \/ Top.fn = "object" /\ Peek # "}"
        \/ Top.fn = "array" /\ Peek # "]"
    BY DEF NoEnd, Facing, InCall
  <2>2. Close["object"] = "}" /\ Close["array"] = "]"
    BY DEF Close
  <2>3. status = "parsing" /\ Top.at = "after" /\ Peek \notin Blanks /\ Peek # ","
    BY DEF NoEnd, Facing, InCall
  <2> QED  BY <2>1, <2>2, <2>3 DEF Nested
<1>2. PICK code : Fail(code) /\ code \notin {"parsing", "parsed"}
  <2>1. Fail("ObjectMissCommaOrCurlyBracket") \/ Fail("ArrayMissCommaOrSquareBracket")
    BY DEF NoEnd
  <2> QED  BY <2>1
<1>3. IsSequence(file.text) /\ Tell \in 0 .. Len(file.text) /\ Peek = Shows(file.text, Tell)
  BY Shown
<1>4. d.fn = Top.fn /\ d.at = IF Top.fn = "object" THEN "key" ELSE "value"
  <2>1. IsCall(Top)
    BY <1>1, Begins
  <2> QED  BY <2>1, MovedCall
<1>5. IsSequence(Values(Top, stack))
  BY <1>1, OwnValues
<1> HIDE DEF d
<1>6. \A r : NestedComes(file.text, Top, Values(Top, stack), Tell, r) => ~r.ok
  BY <1>1, <1>3, <1>4, <1>5, MoreComes
<1> QED  BY <1>1, <1>2, <1>6, NestedMisses

LEMMA RootMisses == ASSUME Balance, Windowed, Meant, Empty \/ NotSingular PROVE Meant'
<1>1. /\ status = "parsing" /\ Top.fn = "root"
      /\ \/ Top.at = "start" /\ Peek = NUL
         \/ Top.at = "after" /\ Peek # NUL
      /\ Peek \notin Blanks
  BY DEF Empty, NotSingular, Facing, InCall
<1>2. PICK code : Fail(code) /\ code \notin {"parsing", "parsed"}
  BY DEF Empty, NotSingular
<1>3. IsSequence(file.text) /\ Tell \in 0 .. Len(file.text) /\ Peek = Shows(file.text, Tell)
  BY Shown
<1>4. \A held, r : RootComes(file.text, Top, held, Tell, r) => ~r.ok
  <2>1. CASE Top.at = "start" /\ Peek = NUL
    BY <1>3, <2>1, NoDocumentComes
  <2>2. CASE Top.at = "after" /\ Peek # NUL
    BY <1>1, <1>3, <2>2, DocumentComes
  <2> QED  BY <1>1, <2>1, <2>2
<1>5. Misses(file.text, Top, Tell, stack)
  BY <1>1, <1>4, ComesIs DEF Misses
<1> QED  BY <1>1, <1>2, <1>5, MeantFails

LEMMA FinishMeans == ASSUME Balance, Windowed, Meant, Finish PROVE Meant'
<1>1. /\ status = "parsing" /\ status' = "parsed" /\ doc' = Last(stack) /\ UNCHANGED file
      /\ Top.fn = "root" /\ Top.at = "after" /\ Peek = NUL /\ Peek \notin Blanks
  BY DEF Finish, Facing, InCall
<1>2. IsSequence(file.text) /\ Tell \in 0 .. Len(file.text) /\ Peek = Shows(file.text, Tell)
  BY Shown
<1>3. CallsGood /\ Len(stack) = Top.base + Held(Top) /\ \E f : Means(file.text, calls, stack, Tell, f)
  BY <1>1, Begins
<1>4. PICK f : Means(file.text, calls, stack, Tell, f)
  BY <1>3
<1>5. Len(calls) = 1 /\ Top = calls[1] /\ Top.base = 0
  BY <1>1, <1>3, TopIsCall DEF CallsGood, Top
<1>6. Len(stack) = 1 /\ Own(Top) = 0
  BY <1>1, <1>3, <1>5 DEF Held, Begun, Own, Nested
<1>7. RootComes(file.text, Top, Values(Top, stack), Tell, f[1])
  <2>1. Comes(file.text, Top, Values(Top, stack), Tell, f[1])
    BY <1>4, <1>5 DEF Means, Values
  <2> QED  BY <1>1, <2>1, ComesIs
<1>8. f[1].ok /\ f[1].of = Values(Top, stack)[1]
  BY <1>1, <1>2, <1>7, DocumentComes
<1>9. Values(Top, stack)[1] = stack[1]
  BY <1>6 DEF Values, Between
<1>10. doc' = stack[1]
  BY <1>1, <1>6 DEF Last
<1>11. file.value = Meaning(file.text)
  BY FilesAssumption DEF Windowed
<1>12. Meaning(file.text) = f[1].of
  BY <1>4, <1>8 DEF Means, Meaning
<1>13. DocumentIsMeant'
  BY <1>1, <1>8, <1>9, <1>10, <1>11, <1>12 DEF DocumentIsMeant
<1> QED  BY <1>1, <1>13 DEF Meant

-----------------------------------------------------------------------------
(* Literals, strings and numbers. *)

LEMMA PushMeans ==
  ASSUME Balance, Windowed, Meant, status = "parsing", status' = "parsing", UNCHANGED file, Return,
         Top.fn \in {"literal", "string", "number"}, NEW v, Push(v), Tell' \in 0 .. Len(file.text),
         \A held, r : Comes(file.text, Top, held, Tell, r) => r = Got(v, Tell')
  PROVE  Meant'
<1>1. IsSequence(stack) /\ Len(stack) = Top.base + Held(Top) /\ Len(stack) \in Nat /\ Top.base \in Nat
  BY Begins
<1>2. Held(Top) = 0 /\ Top.fn # "root"
  BY DEF Held
<1>3. Len(stack) = Top.base
  BY <1>1, <1>2
<1>4. /\ Len(stack') = Top.base + 1 /\ Keeping(stack, stack', Top.base)
      /\ stack'[Top.base + 1] = v
  BY <1>1, <1>3, Appended DEF Push, Keeping
<1>5. IsSequence(file.text)
  BY Shown
<1>6. Answers(file.text, Top, Tell, stack, v, Tell')
  BY DEF Answers
<1>7. Answers(file.text, Top, Tell, stack, stack'[Top.base + 1], Tell')
  BY <1>4, <1>6
<1> QED  BY <1>2, <1>4, <1>5, <1>7, MeantReturns

LEMMA PlainOn ==
  ASSUME Balance, Windowed, Meant, status = "parsing", status' = "parsing", UNCHANGED <<stack, file>>,
         NEW c, Becomes(c), IsCall(c), c.fn = Top.fn, c.base = Top.base,
         \A held, r : Comes(file.text, Top, held, Tell, r) => Comes(file.text, c, held, Tell', r)
  PROVE  Meant'
<1>1. Values(c, stack) = Values(Top, stack)
  BY ValuesAlike
<1>2. GoesOn(file.text, Top, Tell, c, Tell', stack)
  BY <1>1 DEF GoesOn
<1> QED  BY <1>2, MeantStays

LEMMA PlainMisses ==
  ASSUME Balance, Windowed, Meant, NEW code, Fail(code), code \notin {"parsing", "parsed"},
         status = "parsing", \A held, r : Comes(file.text, Top, held, Tell, r) => ~r.ok
  PROVE  Meant'
<1>1. Misses(file.text, Top, Tell, stack)
  BY DEF Misses
<1> QED  BY <1>1, MeantFails

LEMMA LetterTaken ==
  ASSUME Balance, Windowed, Meant, Letter
  PROVE  /\ status = "parsing" /\ status' = "parsing" /\ UNCHANGED file /\ Top.fn = "literal"
         /\ Peek = Top.text[1] /\ Tell' = Tell + 1 /\ Tell' \in 0 .. Len(file.text)
<1>1. /\ status = "parsing" /\ status' = "parsing" /\ UNCHANGED file /\ Top.fn = "literal"
      /\ Peek = Top.text[1] /\ Take
  BY DEF Letter, InCall, Same
<1>2. PICK f : Means(file.text, calls, stack, Tell, f)
  BY <1>1, Begins
<1>3. LiteralComes(file.text, Top, Tell, f[Len(calls)])
  BY <1>1, <1>2, ComesIs DEF Means, Top
<1>4. Peek # NUL
  <2>1. 1 \in 1 .. Len(Top.text)
    BY <1>3, LengthIs DEF LiteralComes
  <2> QED  BY <1>1, <1>3, <2>1 DEF LiteralComes, Letters
<1> QED  BY <1>1, <1>4, Taken

LEMMA LetterMeans == ASSUME Balance, Windowed, Meant, Letter PROVE Meant'
<1>1. /\ status = "parsing" /\ status' = "parsing" /\ UNCHANGED file /\ Top.fn = "literal"
      /\ Peek = Top.text[1] /\ Tell' = Tell + 1 /\ Tell' \in 0 .. Len(file.text)
  BY LetterTaken
<1>2. Tell \in Nat /\ Peek = Shows(file.text, Tell)
  BY Shown
<1>3. CASE Len(Top.text) > 1
  <2> DEFINE c == [Top EXCEPT !.text = Tail(@)]
  <2>1. IsCall(Top)
    BY <1>1, Begins
  <2>2. IsCall(c) /\ c.fn = Top.fn /\ c.base = Top.base /\ c.text = Tail(Top.text) /\ c.result = Top.result
    BY <2>1 DEF IsCall, CallFields
  <2>3. Becomes(c) /\ UNCHANGED stack
    BY <1>3 DEF Letter
  <2> HIDE DEF c
  <2>4. \A r : LiteralComes(file.text, Top, Tell, r) => LiteralComes(file.text, c, Tell', r)
    BY <1>1, <1>2, <1>3, <2>2, LetterComes
  <2>5. \A held, r : Comes(file.text, Top, held, Tell, r) => Comes(file.text, c, held, Tell', r)
    BY <1>1, <2>2, <2>4, ComesIs
  <2> QED  BY <1>1, <2>2, <2>3, <2>5, PlainOn
<1>4. CASE ~(Len(Top.text) > 1)
  <2>1. Return /\ Push(Value(Top.result))
    BY <1>4 DEF Letter
  <2>2. \A r : LiteralComes(file.text, Top, Tell, r) => r = Got(Value(Top.result), Tell')
    <3> DEFINE t == file.text
               c == Top
               p == Tell
    <3>1. p \in Nat /\ Shows(t, p) = c.text[1] /\ ~(Len(c.text) > 1) /\ Tell' = p + 1
      BY <1>1, <1>2, <1>4
    <3> HIDE DEF t, c, p
    <3>2. \A r : LiteralComes(t, c, p, r) => r = Got(Value(c.result), Tell')
      BY ONLY <3>1, LetterComes
    <3> QED  BY <3>2 DEF t, c, p
  <2>3. \A held, r : Comes(file.text, Top, held, Tell, r) => r = Got(Value(Top.result), Tell')
    BY <1>1, <2>2, ComesIs
  <2> QED  BY <1>1, <2>1, <2>3, PushMeans
<1> QED  BY <1>3, <1>4

LEMMA NoLetterMeans == ASSUME Balance, Windowed, Meant, NoLetter PROVE Meant'
<1>1. status = "parsing" /\ Top.fn = "literal" /\ Peek # Top.text[1] /\ Fail("ValueInvalid")
  BY DEF NoLetter, InCall
<1>2. Tell \in Nat /\ Peek = Shows(file.text, Tell)
  BY Shown
<1>3. \A r : LiteralComes(file.text, Top, Tell, r) => ~r.ok
  BY <1>1, <1>2, LetterComes
<1> QED  BY <1>1, <1>3, ComesIs, PlainMisses

\* A string goes on.
LEMMA StringOn ==
  ASSUME Balance, Windowed, Meant, status = "parsing", status' = "parsing", UNCHANGED <<stack, file>>,
         Top.fn = "string", NEW c, Becomes(c), IsCall(c), c.fn = Top.fn, c.base = Top.base,
         Take, Peek # NUL,
         \A r : StringComes(file.text, Top, Tell, r) => StringComes(file.text, c, Tell + 1, r)
  PROVE  Meant'
<1>1. Tell' = Tell + 1
  BY Taken
<1>2. \A held, r : Comes(file.text, Top, held, Tell, r) => Comes(file.text, c, held, Tell', r)
  BY <1>1, ComesIs
<1> QED  BY <1>2, PlainOn

\* A character is read, and put behind the others.
LEMMA PutMeans ==
  ASSUME Balance, Windowed, Meant, status = "parsing", status' = "parsing", UNCHANGED <<stack, file>>,
         Top.fn = "string", NEW text, Put(text, "chars"), Take, Peek # NUL,
         \A d, r :
           d.at = "chars" /\ d.hex = <<>> /\ d.text = Top.text \o text /\ StringComes(file.text, Top, Tell, r)
             => StringComes(file.text, d, Tell + 1, r)
  PROVE  Meant'
<1> DEFINE c == [Top EXCEPT !.text = @ \o text, !.at = "chars", !.hex = <<>>]
<1>1. IsCall(Top)
  BY Begins
<1>2. /\ IsCall(c) /\ c.fn = Top.fn /\ c.base = Top.base
      /\ c.at = "chars" /\ c.hex = <<>> /\ c.text = Top.text \o text
  BY <1>1 DEF IsCall, CallFields
<1>3. Becomes(c)
  BY DEF Put
<1> HIDE DEF c
<1> QED  BY <1>2, <1>3, StringOn

LEMMA GotoMeans ==
  ASSUME Balance, Windowed, Meant, status = "parsing", status' = "parsing", UNCHANGED <<stack, file>>,
         Top.fn = "string", NEW at, Goto(at), Take, Peek # NUL,
         \A d, r :
           d.at = at /\ d.hex = Top.hex /\ d.text = Top.text /\ StringComes(file.text, Top, Tell, r)
             => StringComes(file.text, d, Tell + 1, r)
  PROVE  Meant'
<1> DEFINE c == [Top EXCEPT !.at = at]
<1>1. IsCall(Top)
  BY Begins
<1>2. IsCall(c) /\ c.fn = Top.fn /\ c.base = Top.base /\ c.at = at /\ c.hex = Top.hex /\ c.text = Top.text
  BY <1>1 DEF IsCall, CallFields
<1>3. Becomes(c)
  BY DEF Goto, Becomes, Top
<1> HIDE DEF c
<1> QED  BY <1>2, <1>3, StringOn

LEMMA CharacterMeans == ASSUME Balance, Windowed, Meant, Character PROVE Meant'
<1>1. /\ status = "parsing" /\ status' = "parsing" /\ UNCHANGED <<stack, file>> /\ Take
      /\ Top.fn = "string" /\ Top.at = "chars" /\ Put(<<Peek>>, "chars")
  BY DEF Character, InCall, Same
<1>2. IsSequence(file.text) /\ Peek = Shows(file.text, Tell)
  BY Shown
<1>3. Peek # NUL
  BY Zenon DEF Character
<1>4. ASSUME NEW d, d.at = "chars", d.hex = <<>>, d.text = Top.text \o <<Peek>>,
             NEW r, StringComes(file.text, Top, Tell, r)
      PROVE  StringComes(file.text, d, Tell + 1, r)
  <2>1. Shows(file.text, Tell) \notin {"\"", "\\", NUL} \cup Controls
    BY <1>2 DEF Character
  <2>2. d.text = Top.text \o <<Shows(file.text, Tell)>>
    BY <1>2, <1>4
  <2> QED  BY <1>1, <1>2, <1>4, <2>1, <2>2, CharacterComes, Zenon
<1> QED  BY <1>1, <1>3, <1>4, PutMeans

LEMMA QuoteMeans == ASSUME Balance, Windowed, Meant, CloseQuote PROVE Meant'
<1>1. /\ status = "parsing" /\ status' = "parsing" /\ UNCHANGED file /\ Take /\ Return
      /\ Top.fn = "string" /\ Top.at = "chars" /\ Push(TextValue(Top.text))
  BY DEF CloseQuote, InCall, Same
<1>2. IsSequence(file.text) /\ Peek = Shows(file.text, Tell)
  BY Shown
<1>3. Tell' = Tell + 1 /\ Tell' \in 0 .. Len(file.text)
  <2>1. Peek # NUL
    BY DEF CloseQuote, NUL
  <2> QED  BY <1>1, <2>1, Taken
<1>4. \A r : StringComes(file.text, Top, Tell, r) => r = Got(TextValue(Top.text), Tell + 1)
  <2>1. Shows(file.text, Tell) = "\""
    BY <1>2 DEF CloseQuote
  <2> QED  BY <1>1, <1>2, <2>1, QuoteComes, Zenon
<1>5. \A held, r : Comes(file.text, Top, held, Tell, r) => r = Got(TextValue(Top.text), Tell')
  BY <1>1, <1>3, <1>4, ComesIs
<1> QED  BY <1>1, <1>3, <1>5, PushMeans

LEMMA NoCharacterMeans == ASSUME Balance, Windowed, Meant, NoCharacter PROVE Meant'
<1>1. /\ status = "parsing" /\ Top.fn = "string" /\ Top.at = "chars" /\ Peek \in {NUL} \cup Controls
      /\ Fail(IF Peek = NUL THEN "StringMissQuotationMark" ELSE "StringInvalidEncoding")
  BY DEF NoCharacter, InCall
<1>2. IsSequence(file.text) /\ Peek = Shows(file.text, Tell)
  BY Shown
<1>3. PICK code : Fail(code) /\ code \notin {"parsing", "parsed"}
  BY <1>1
<1>4. \A r : StringComes(file.text, Top, Tell, r) => ~r.ok
  BY <1>1, <1>2, NoCharacterComes
<1>5. \A held, r : Comes(file.text, Top, held, Tell, r) => ~r.ok
  BY <1>1, <1>4, ComesIs
<1> QED  BY <1>1, <1>3, <1>5, PlainMisses

LEMMA BackslashMeans == ASSUME Balance, Windowed, Meant, Backslash PROVE Meant'
<1> DEFINE at == IF Top.at = "pair" THEN "pairu" ELSE "escape"
<1>1. /\ status = "parsing" /\ status' = "parsing" /\ UNCHANGED <<stack, file>> /\ Take
      /\ Top.fn = "string" /\ Top.at \in {"chars", "pair"} /\ Goto(at)
  BY DEF Backslash, InCall, Same
<1>2. IsSequence(file.text) /\ Peek = Shows(file.text, Tell)
  BY Shown
<1>3. Peek # NUL
  BY DEF Backslash, NUL
<1>4. ASSUME NEW d, d.at = at, d.hex = Top.hex, d.text = Top.text,
             NEW r, StringComes(file.text, Top, Tell, r)
      PROVE  StringComes(file.text, d, Tell + 1, r)
  <2>1. Slashed(file.text, Tell)
    BY <1>2 DEF Backslash, Slashed
  <2> QED  BY <1>1, <1>2, <1>4, <2>1, BackslashComes
<1> HIDE DEF at
<1> QED  BY <1>1, <1>3, <1>4, GotoMeans

LEMMA EscapedMeans == ASSUME Balance, Windowed, Meant, EscapedCharacter PROVE Meant'
<1>1. /\ status = "parsing" /\ status' = "parsing" /\ UNCHANGED <<stack, file>> /\ Take
      /\ Top.fn = "string" /\ Top.at = "escape" /\ Peek \in Escapes /\ Put(<<Escaped(Peek)>>, "chars")
  BY DEF EscapedCharacter, InCall, Same
<1>2. IsSequence(file.text) /\ Peek = Shows(file.text, Tell)
  BY Shown
<1>3. Peek # NUL
  BY <1>1 DEF Escapes, Escape, NUL
<1>4. \A d, r :
        d.at = "chars" /\ d.hex = <<>> /\ d.text = Top.text \o <<Escaped(Peek)>> /\ StringComes(file.text, Top, Tell, r)
          => StringComes(file.text, d, Tell + 1, r)
  BY <1>1, <1>2, EscapedComes
<1> QED  BY <1>1, <1>3, <1>4, PutMeans

LEMMA UnicodeMeans == ASSUME Balance, Windowed, Meant, UnicodeEscape PROVE Meant'
<1>1. /\ status = "parsing" /\ status' = "parsing" /\ UNCHANGED <<stack, file>> /\ Take
      /\ Top.fn = "string" /\ Top.at \in {"escape", "pairu"} /\ Peek = "u" /\ Goto("hex")
  BY DEF UnicodeEscape, InCall, Same
<1>2. IsSequence(file.text) /\ Peek = Shows(file.text, Tell)
  BY Shown
<1>3. Peek # NUL
  BY <1>1 DEF NUL
<1>4. \A d, r :
        d.at = "hex" /\ d.hex = Top.hex /\ d.text = Top.text /\ StringComes(file.text, Top, Tell, r)
          => StringComes(file.text, d, Tell + 1, r)
  BY <1>1, <1>2, UnicodeComes
<1> QED  BY <1>1, <1>3, <1>4, GotoMeans

LEMMA NoEscapeMeans == ASSUME Balance, Windowed, Meant, NoEscape PROVE Meant'
<1>1. status = "parsing" /\ Top.fn = "string"
  BY DEF NoEscape, InCall
<1>2. PICK code : Fail(code) /\ code \notin {"parsing", "parsed"}
  <2>1. Fail("StringEscapeInvalid") \/ Fail("StringUnicodeSurrogateInvalid")
    BY DEF NoEscape
  <2> QED  BY <2>1
<1>3. IsSequence(file.text) /\ Peek = Shows(file.text, Tell)
  BY Shown
<1>4. \A r : StringComes(file.text, Top, Tell, r) => ~r.ok
  <2>1. \/ Top.at = "escape" /\ Peek \notin Escapes \cup {"u"}
        \/ Top.at = "pair" /\ Peek # "\\"
        \/ Top.at = "pairu" /\ Peek # "u"
    BY Zenon DEF NoEscape, InCall
  <2> QED  BY <1>3, <2>1, NoEscapeComes, Zenon
<1>5. \A held, r : Comes(file.text, Top, held, Tell, r) => ~r.ok
  BY <1>1, <1>4, ComesIs
<1> QED  BY <1>1, <1>2, <1>5, PlainMisses

\* A digit of a \u: the character is complete, a second half is due, or not yet.
LEMMA HexMeans == ASSUME Balance, Windowed, Meant, HexDigit PROVE Meant'
<1> DEFINE hex == Append(Top.hex, Peek)
           paired == [Top EXCEPT !.hex = hex, !.at = "pair"]
           longer == [Top EXCEPT !.hex = hex]
           high == Len(hex) = 4 /\ HighSurrogate(hex)
           low == LowSurrogate(SubSeq(hex, 5, 8))
<1>1. /\ status = "parsing" /\ status' = "parsing" /\ UNCHANGED <<stack, file>> /\ Take
      /\ Top.fn = "string" /\ Top.at = "hex" /\ Peek \in HexDigits
  BY DEF HexDigit, InCall, Same
<1>2. /\ ~(Len(hex) = 8 /\ ~low)
      /\ IF high THEN Becomes(paired)
         ELSE IF Len(hex) \in {4, 8} THEN Put(<<"\\u">> \o hex, "chars")
         ELSE Becomes(longer)
  BY DEF HexDigit
<1>3. IsSequence(file.text) /\ Peek = Shows(file.text, Tell) /\ hex = Append(Top.hex, Shows(file.text, Tell))
  BY Shown
<1>4. Peek # NUL
  <2>1. NUL \notin HexDigits
    BY CharactersAre DEF HexDigits, Decimal, NUL
  <2> QED  BY <1>1, <2>1
<1>5. IsCall(Top)
  BY <1>1, Begins
<1> HIDE DEF hex
<1>6. /\ IsCall(paired) /\ paired.fn = Top.fn /\ paired.base = Top.base
      /\ paired.at = "pair" /\ paired.hex = hex /\ paired.text = Top.text
  BY <1>5 DEF IsCall, CallFields
<1>7. /\ IsCall(longer) /\ longer.fn = Top.fn /\ longer.base = Top.base
      /\ longer.at = "hex" /\ longer.hex = hex /\ longer.text = Top.text
  BY <1>1, <1>5 DEF IsCall, CallFields
<1> HIDE DEF paired, longer
<1>8. CASE high
  <2>1. Becomes(paired) /\ Len(hex) = 4 /\ HighSurrogate(hex)
    BY <1>2, <1>8
  <2>2. \A r : StringComes(file.text, Top, Tell, r) => StringComes(file.text, paired, Tell + 1, r)
    BY <1>1, <1>3, <1>6, <2>1, DigitComes
  <2> QED  BY <1>1, <1>4, <1>6, <2>1, <2>2, StringOn
<1>9. CASE ~high /\ Len(hex) \in {4, 8}
  <2>1. Put(<<"\\u">> \o hex, "chars")
    BY <1>2, <1>9
  <2>2. \/ Len(hex) = 4 /\ ~HighSurrogate(hex)
        \/ Len(hex) = 8 /\ LowSurrogate(SubSeq(hex, 5, 8))
    BY <1>2, <1>9
  <2>3. \A d, r :
          d.at = "chars" /\ d.hex = <<>> /\ d.text = Top.text \o (<<"\\u">> \o hex)
            /\ StringComes(file.text, Top, Tell, r)
              => StringComes(file.text, d, Tell + 1, r)
    BY <1>1, <1>3, <2>2, LastDigitComes
  <2> QED  BY <1>1, <1>4, <2>1, <2>3, PutMeans
<1>10. CASE ~high /\ Len(hex) \notin {4, 8}
  <2>1. Becomes(longer)
    BY <1>2, <1>10
  <2>2. \A r : StringComes(file.text, Top, Tell, r) => StringComes(file.text, longer, Tell + 1, r)
    BY <1>1, <1>3, <1>7, <1>10, DigitComes
  <2> QED  BY <1>1, <1>4, <1>7, <2>1, <2>2, StringOn
<1> QED  BY <1>8, <1>9, <1>10

LEMMA NoHexMeans == ASSUME Balance, Windowed, Meant, NoHexDigit PROVE Meant'
<1>1. status = "parsing" /\ Top.fn = "string" /\ Top.at = "hex"
  BY DEF NoHexDigit, InCall
<1>2. PICK code : Fail(code) /\ code \notin {"parsing", "parsed"}
  <2>1. Fail("StringUnicodeEscapeInvalidHex") \/ Fail("StringUnicodeSurrogateInvalid")
    BY DEF NoHexDigit
  <2> QED  BY <2>1
<1>3. IsSequence(file.text) /\ Peek = Shows(file.text, Tell)
  BY Shown
<1> DEFINE hex == Append(Top.hex, Peek)
<1>4. \/ Peek \notin HexDigits
      \/ Peek \in HexDigits /\ Len(Top.hex) = 7 /\ ~LowSurrogate(SubSeq(hex, 5, 8))
  BY DEF NoHexDigit
<1>5. hex = Append(Top.hex, Shows(file.text, Tell))
  BY <1>3
<1>6. ASSUME NEW r, StringComes(file.text, Top, Tell, r) PROVE ~r.ok
  <2>1. CASE Peek \notin HexDigits
    BY <1>1, <1>3, <1>6, <2>1, NoDigitComes
  <2>2. CASE Peek \in HexDigits /\ Len(Top.hex) = 7 /\ ~LowSurrogate(SubSeq(hex, 5, 8))
    <3>1. IsSequence(Top.hex)
      BY <1>6 DEF StringComes, Behind
    <3>2. Len(hex) = Len(Top.hex) + 1
      BY <3>1, Appended
    <3> HIDE DEF hex
    <3>3. Len(hex) = 8
      BY <2>2, <3>2
    <3> QED  BY <1>1, <1>3, <1>5, <1>6, <2>2, <3>3, NoPairComes
  <2> QED  BY <1>4, <2>1, <2>2
<1>7. \A held, r : Comes(file.text, Top, held, Tell, r) => ~r.ok
  BY <1>1, <1>6, ComesIs
<1> QED  BY <1>1, <1>2, <1>7, PlainMisses

LEMMA DecimalTail == Range(Tail(Digits)) = Decimal \ {"0"}
<1>1. Digits \in Seq(Decimal) /\ Len(Digits) = 10
  <2>1. /\ "0" \in Decimal /\ "1" \in Decimal /\ "2" \in Decimal /\ "3" \in Decimal /\ "4" \in Decimal
        /\ "5" \in Decimal /\ "6" \in Decimal /\ "7" \in Decimal /\ "8" \in Decimal /\ "9" \in Decimal
    BY CharactersAre
  <2> QED  BY <2>1 DEF Digits
<1> DEFINE rest == Tail(Digits)
<1>2. IsSequence(rest) /\ Len(rest) = Len(Digits) - 1 /\ \A i \in 1 .. Len(Digits) - 1 : rest[i] = Digits[i + 1]
  <2>1. IsSequence(Digits) /\ Len(Digits) >= 1
    BY <1>1 DEF IsSequence
  <2> QED  BY <2>1, TailIs
<1> HIDE DEF rest
<1>3. DOMAIN rest = 1 .. 9 /\ \A i \in 1 .. 9 : rest[i] = Digits[i + 1]
  <2>1. Len(rest) = 9 /\ Len(Digits) - 1 = 9
    BY <1>1, <1>2
  <2>2. DOMAIN rest = 1 .. Len(rest)
    BY <1>2 DEF IsSequence
  <2>3. \A i \in 1 .. 9 : rest[i] = Digits[i + 1]
    BY <1>2, <2>1
  <2> QED  BY <2>1, <2>2, <2>3
<1>4. Range(rest) = {rest[i] : i \in 1 .. 9}
  BY <1>3 DEF Range
<1>5. /\ rest[1] = "1" /\ rest[2] = "2" /\ rest[3] = "3" /\ rest[4] = "4" /\ rest[5] = "5"
      /\ rest[6] = "6" /\ rest[7] = "7" /\ rest[8] = "8" /\ rest[9] = "9"
  BY <1>3 DEF Digits
<1>6. {rest[i] : i \in 1 .. 9} = {"1", "2", "3", "4", "5", "6", "7", "8", "9"}
  <2>1. \A i \in 1 .. 9 : i = 1 \/ i = 2 \/ i = 3 \/ i = 4 \/ i = 5 \/ i = 6 \/ i = 7 \/ i = 8 \/ i = 9
    OBVIOUS
  <2>2. \A i \in 1 .. 9 : rest[i] \in {"1", "2", "3", "4", "5", "6", "7", "8", "9"}
    BY <1>5, <2>1
  <2>3. \A x \in {"1", "2", "3", "4", "5", "6", "7", "8", "9"} : \E i \in 1 .. 9 : rest[i] = x
    BY <1>5
  <2> QED  BY <2>2, <2>3
<1>7. Decimal \ {"0"} = {"1", "2", "3", "4", "5", "6", "7", "8", "9"}
  BY CharactersAre
<1> QED  BY <1>4, <1>6, <1>7 DEF rest

LEMMA LeadIs == ASSUME NEW edge \in Leads PROVE LeadsTo(Top.at, Peek, edge[3])
<1> DEFINE at == Top.at
           x == Peek
           tail == Range(Tail(Digits))
<1>1. edge \in NumberEdges /\ edge[1] = at /\ x \in edge[2]
  BY DEF Leads
<1>2. Range(Digits) = Decimal /\ tail = Decimal \ {"0"}
  BY DecimalTail DEF Decimal
<1> HIDE DEF at, x, tail
<1>3. \/ edge = <<"start", {"-"}, "sign">> \/ edge = <<"start", {"0"}, "zero">> \/ edge = <<"start", tail, "digits">>
      \/ edge = <<"sign", {"0"}, "zero">> \/ edge = <<"sign", tail, "digits">>
      \/ edge = <<"digits", Decimal, "digits">>
      \/ edge = <<"digits", {"."}, "point">> \/ edge = <<"zero", {"."}, "point">>
      \/ edge = <<"point", Decimal, "fraction">> \/ edge = <<"fraction", Decimal, "fraction">>
      \/ edge = <<"zero", {"e", "E"}, "e">> \/ edge = <<"digits", {"e", "E"}, "e">>
      \/ edge = <<"fraction", {"e", "E"}, "e">>
      \/ edge = <<"e", {"+"}, "e+">> \/ edge = <<"e", {"-"}, "e-">> \/ edge = <<"e", Decimal, "exponent">>
      \/ edge = <<"e+", Decimal, "exponent">> \/ edge = <<"e-", Decimal, "tiny">>
      \/ edge = <<"exponent", Decimal, "exponent">> \/ edge = <<"tiny", Decimal, "tiny">>
  BY <1>1, <1>2, Zenon DEF NumberEdges, tail
<1>4. LeadsTo(at, x, edge[3])
  BY <1>1, <1>2, <1>3 DEF LeadsTo
<1> QED  BY <1>4 DEF at, x

LEMMA NoLeads == ASSUME Leads = {} PROVE \A to : ~LeadsTo(Top.at, Peek, to)
<1> DEFINE at == Top.at
           x == Peek
           tail == Range(Tail(Digits))
<1>1. \A edge \in NumberEdges : ~(edge[1] = at /\ x \in edge[2])
  BY DEF Leads
<1>2. Range(Digits) = Decimal /\ tail = Decimal \ {"0"}
  BY DecimalTail DEF Decimal
<1> HIDE DEF at, x
<1>3. /\ \A S, to : <<at, S, to>> \in NumberEdges => x \notin S
  <2> SUFFICES ASSUME NEW S, NEW to, <<at, S, to>> \in NumberEdges PROVE x \notin S
    OBVIOUS
  <2>1. <<at, S, to>>[1] = at /\ <<at, S, to>>[2] = S
    OBVIOUS
  <2> QED  BY <1>1, <2>1
<1>4. ASSUME NEW to, LeadsTo(at, x, to) PROVE FALSE
  <2>1. PICK S : <<at, S, to>> \in NumberEdges /\ x \in S
    <3> HIDE DEF tail
    <3>1. CASE at = "start" /\ x = "-" /\ to = "sign"
      <4>1. <<"start", {"-"}, "sign">> \in NumberEdges
        BY Zenon DEF NumberEdges
      <4> QED  BY <3>1, <4>1
    <3>2. CASE at \in {"start", "sign"} /\ x = "0" /\ to = "zero"
      <4>1. <<"start", {"0"}, "zero">> \in NumberEdges /\ <<"sign", {"0"}, "zero">> \in NumberEdges
        BY Zenon DEF NumberEdges
      <4> QED  BY <3>2, <4>1
    <3>3. CASE at \in {"start", "sign"} /\ x \in Decimal \ {"0"} /\ to = "digits"
      <4>1. <<"start", tail, "digits">> \in NumberEdges /\ <<"sign", tail, "digits">> \in NumberEdges
        BY Zenon DEF NumberEdges, tail
      <4> QED  BY <1>2, <3>3, <4>1
    <3>4. CASE at = "digits" /\ x \in Decimal /\ to = "digits"
      <4>1. <<"digits", Decimal, "digits">> \in NumberEdges
        BY Zenon DEF NumberEdges, Decimal
      <4> QED  BY <3>4, <4>1
    <3>5. CASE at \in {"zero", "digits"} /\ x = "." /\ to = "point"
      <4>1. <<"digits", {"."}, "point">> \in NumberEdges /\ <<"zero", {"."}, "point">> \in NumberEdges
        BY Zenon DEF NumberEdges
      <4> QED  BY <3>5, <4>1
    <3>6. CASE at \in {"point", "fraction"} /\ x \in Decimal /\ to = "fraction"
      <4>1. <<"point", Decimal, "fraction">> \in NumberEdges /\ <<"fraction", Decimal, "fraction">> \in NumberEdges
        BY Zenon DEF NumberEdges, Decimal
      <4> QED  BY <3>6, <4>1
    <3>7. CASE at \in {"zero", "digits", "fraction"} /\ x \in {"e", "E"} /\ to = "e"
      <4>1. /\ <<"zero", {"e", "E"}, "e">> \in NumberEdges /\ <<"digits", {"e", "E"}, "e">> \in NumberEdges
            /\ <<"fraction", {"e", "E"}, "e">> \in NumberEdges
        BY Zenon DEF NumberEdges
      <4> QED  BY <3>7, <4>1
    <3>8. CASE at = "e" /\ ((x = "+" /\ to = "e+") \/ (x = "-" /\ to = "e-"))
      <4>1. <<"e", {"+"}, "e+">> \in NumberEdges /\ <<"e", {"-"}, "e-">> \in NumberEdges
        BY Zenon DEF NumberEdges
      <4> QED  BY <3>8, <4>1
    <3>9. CASE at \in {"e", "e+", "exponent"} /\ x \in Decimal /\ to = "exponent"
      <4>1. /\ <<"e", Decimal, "exponent">> \in NumberEdges /\ <<"e+", Decimal, "exponent">> \in NumberEdges
            /\ <<"exponent", Decimal, "exponent">> \in NumberEdges
        BY Zenon DEF NumberEdges, Decimal
      <4> QED  BY <3>9, <4>1
    <3>10. CASE at \in {"e-", "tiny"} /\ x \in Decimal /\ to = "tiny"
      <4>1. <<"e-", Decimal, "tiny">> \in NumberEdges /\ <<"tiny", Decimal, "tiny">> \in NumberEdges
        BY Zenon DEF NumberEdges, Decimal
      <4> QED  BY <3>10, <4>1
    <3> QED  BY <1>4, <3>1, <3>2, <3>3, <3>4, <3>5, <3>6, <3>7, <3>8, <3>9, <3>10 DEF LeadsTo
  <2> QED  BY <1>3, <2>1
<1> QED  BY <1>4 DEF at, x

\* What NumberStep does to its call is what the character says.
LEMMA EnteringLeads ==
  ASSUME NEW c, IsCall(c), NEW to
  PROVE  Led(c, Peek, to, [Entering(c, to) EXCEPT !.at = to])
<1> DEFINE d == Entering(c, to)
           e == [d EXCEPT !.at = to]
           limit == IF c.neg THEN MaxInt + 1 ELSE MaxUint
           digit == DigitOf(Peek)
<1> SUFFICES Led(c, Peek, to, e)
  OBVIOUS
<1>1. IsCall(d)
  <2>1. IsCall(WithDigit(c, digit))
    BY DEF WithDigit, IsCall, CallFields
  <2> QED  BY <2>1 DEF Entering, IsCall, CallFields
<1> HIDE DEF d
<1>2. /\ e.at = to /\ e.neg = d.neg /\ e.type = d.type /\ e.int = d.int
      /\ e.fraction = d.fraction /\ e.exponent = d.exponent
  BY <1>1 DEF IsCall, CallFields
<1> HIDE DEF e
<1>3. CASE to = "digits"
  <2>1. d = WithDigit(c, digit)
    BY <1>3 DEF d, Entering
  <2>2. CASE c.type = "int" /\ c.int * 10 + digit <= limit
    <3>1. d = [c EXCEPT !.int = c.int * 10 + digit]
      BY <2>1, <2>2 DEF WithDigit
    <3>2. /\ d.neg = c.neg /\ d.type = c.type /\ d.int = c.int * 10 + digit
          /\ d.fraction = c.fraction /\ d.exponent = c.exponent
      BY <3>1 DEF IsCall, CallFields
    <3> QED  BY <1>2, <1>3, <2>2, <3>2 DEF Led
  <2>3. CASE ~(c.type = "int" /\ c.int * 10 + digit <= limit)
    <3>1. d = [c EXCEPT !.type = "wide"]
      BY <2>1, <2>3 DEF WithDigit
    <3>2. d.neg = c.neg /\ d.type = "wide" /\ d.fraction = c.fraction /\ d.exponent = c.exponent
      BY <3>1 DEF IsCall, CallFields
    <3> QED  BY <1>2, <1>3, <2>3, <3>2 DEF Led
  <2> QED  BY <2>2, <2>3
<1>4. CASE to # "digits"
  <2>1. /\ d.neg = (IF to = "sign" THEN TRUE ELSE c.neg)
        /\ d.int = c.int /\ d.type = (IF to \in {"point", "e"} THEN "double" ELSE c.type)
        /\ d.fraction = (IF to = "fraction" THEN c.fraction + 1 ELSE c.fraction)
        /\ d.exponent = (IF to = "exponent" THEN c.exponent * 10 + digit ELSE c.exponent)
    <3> HIDE DEF digit
    <3>1. CASE to = "sign"
      <4>1. d = [c EXCEPT !.neg = TRUE]
        BY <3>1 DEF d, Entering
      <4> QED  BY <3>1, <4>1 DEF IsCall, CallFields
    <3>2. CASE to \in {"point", "e"}
      <4>1. d = [c EXCEPT !.type = "double"]
        BY <3>2 DEF d, Entering
      <4> QED  BY <3>2, <4>1 DEF IsCall, CallFields
    <3>3. CASE to = "fraction"
      <4>1. d = [c EXCEPT !.fraction = c.fraction + 1]
        BY <3>3 DEF d, Entering
      <4> QED  BY <3>3, <4>1 DEF IsCall, CallFields
    <3>4. CASE to = "exponent"
      <4>1. d = [c EXCEPT !.exponent = c.exponent * 10 + digit]
        BY <3>4 DEF d, Entering, digit
      <4> QED  BY <3>4, <4>1 DEF IsCall, CallFields
    <3>5. CASE to \notin {"sign", "point", "e", "fraction", "exponent"}
      <4>1. d = c
        BY <1>4, <3>5 DEF d, Entering
      <4> QED  BY <3>5, <4>1
    <3> QED  BY <3>1, <3>2, <3>3, <3>4, <3>5
  <2> QED  BY <1>2, <1>4, <2>1 DEF Led
<1> QED  BY <1>3, <1>4

LEMMA NumberStepMeans == ASSUME Balance, Windowed, Meant, NumberStep PROVE Meant'
<1>1. status = "parsing" /\ Top.fn = "number"
  BY DEF NumberStep, InCall
<1>2. PICK edge \in Leads :
        LET c == [Entering(Top, edge[3]) EXCEPT !.at = edge[3]] IN
        IF Top.at = "exponent" /\ TooBig(c)
          THEN Fail("NumberTooBig")
          ELSE Becomes(c) /\ Take /\ Same /\ UNCHANGED stack
  BY DEF NumberStep
<1> DEFINE to == edge[3]
           c == [Entering(Top, to) EXCEPT !.at = to]
<1>3. /\ IsSequence(file.text) /\ Tell \in 0 .. Len(file.text) /\ Tell \in Nat
      /\ Peek = Shows(file.text, Tell)
  BY Shown
<1>4. LeadsTo(Top.at, Shows(file.text, Tell), to)
  BY <1>3, LeadIs
<1>5. IsCall(Top)
  BY <1>1, Begins
<1>6. IsCall(c) /\ c.fn = Top.fn /\ c.base = Top.base
  BY <1>5, EnteringKeeps
<1>7. LedAt(file.text, Top, Tell, to, c) /\ c.at = to
  <2>1. Led(Top, Peek, to, c)
    BY <1>5, EnteringLeads
  <2> QED  BY <1>3, <2>1 DEF LedAt, Led
<1>8. IF Top.at = "exponent" /\ TooBig(c) THEN Fail("NumberTooBig")
      ELSE Becomes(c) /\ Take /\ Same /\ UNCHANGED stack
  BY <1>2
<1> HIDE DEF to, c
<1>9. Peek # NUL
  BY <1>3, <1>4, CharactersAre DEF LeadsTo, NUL
<1>10. \A r : NumberComes(file.text, Top, Tell, r) =>
                IF Top.at = "exponent" /\ c.exponent > MaxExponent + c.fraction THEN ~r.ok
                ELSE NumberComes(file.text, c, Tell + 1, r)
  BY <1>3, <1>4, <1>7, NumberGoesOn
<1>11. Top.at = "exponent" => to = "exponent"
  BY <1>4 DEF LeadsTo
<1>12. CASE Top.at = "exponent" /\ TooBig(c)
  <2>1. \A r : NumberComes(file.text, Top, Tell, r) => ~r.ok
    BY <1>10, <1>12 DEF TooBig
  <2> QED  BY <1>1, <1>8, <1>12, <2>1, ComesIs, PlainMisses
<1>13. CASE ~(Top.at = "exponent" /\ TooBig(c))
  <2>1. Becomes(c) /\ Take /\ UNCHANGED stack /\ status' = "parsing" /\ UNCHANGED file
    BY <1>1, <1>8, <1>13 DEF Same
  <2>2. Tell' = Tell + 1
    BY <1>9, <2>1, Taken
  <2>3. \A r : NumberComes(file.text, Top, Tell, r) => NumberComes(file.text, c, Tell', r)
    BY <1>7, <1>10, <1>11, <1>13, <2>2 DEF TooBig
  <2>4. \A held, r : Comes(file.text, Top, held, Tell, r) => Comes(file.text, c, held, Tell', r)
    BY <1>1, <1>6, <2>3, ComesIs
  <2> QED  BY <1>1, <1>6, <2>1, <2>4, PlainOn
<1> QED  BY <1>12, <1>13

LEMMA EndNumberMeans == ASSUME Balance, Windowed, Meant, EndNumber PROVE Meant'
<1>1. /\ status = "parsing" /\ status' = "parsing" /\ UNCHANGED file /\ Return /\ Keep
      /\ Top.fn = "number" /\ Top.at \in Whole /\ Leads = {} /\ Push(Number(Top))
  BY DEF EndNumber, InCall, Same, Number
<1>2. IsSequence(file.text) /\ Tell \in 0 .. Len(file.text) /\ Peek = Shows(file.text, Tell)
  BY Shown
<1>3. Tell' = Tell
  BY <1>1 DEF Keep, Tell
<1>4. \A to : ~LeadsTo(Top.at, Shows(file.text, Tell), to)
  BY <1>1, <1>2, NoLeads
<1>5. \A r : NumberComes(file.text, Top, Tell, r) => r = Got(Number(Top), Tell)
  BY <1>1, <1>2, <1>4, NumberEnds DEF Whole
<1>6. \A held, r : Comes(file.text, Top, held, Tell, r) => r = Got(Number(Top), Tell')
  BY <1>1, <1>3, <1>5, ComesIs
<1> QED  BY <1>1, <1>2, <1>3, <1>6, PushMeans

LEMMA NoNumberMeans == ASSUME Balance, Windowed, Meant, NoNumber PROVE Meant'
<1>1. /\ status = "parsing" /\ Top.fn = "number" /\ Leads = {}
      /\ Top.at \in {"start", "sign", "point", "e", "e+", "e-"}
  BY DEF NoNumber
<1>2. PICK code : Fail(code) /\ code \notin {"parsing", "parsed"}
  <2>1. Fail("ValueInvalid") \/ Fail("NumberMissFraction") \/ Fail("NumberMissExponent")
    BY DEF NoNumber
  <2> QED  BY <2>1
<1>3. IsSequence(file.text) /\ Tell \in 0 .. Len(file.text) /\ Peek = Shows(file.text, Tell)
  BY Shown
<1>4. \A to : ~LeadsTo(Top.at, Shows(file.text, Tell), to)
  BY <1>1, <1>3, NoLeads
<1>5. \A r : NumberComes(file.text, Top, Tell, r) => ~r.ok
  BY <1>1, <1>3, <1>4, NumberEnds
<1>6. \A held, r : Comes(file.text, Top, held, Tell, r) => ~r.ok
  BY <1>1, <1>5, ComesIs
<1> QED  BY <1>1, <1>2, <1>6, PlainMisses

LEMMA WindowKept == ASSUME Windowed, ParseSteps PROVE Windowed'
<1>1. CASE Keep /\ UNCHANGED file
  BY <1>1 DEF Windowed, Keep
<1>2. CASE Take /\ UNCHANGED file
  <2>1. IsStream(stream') /\ Window(stream', file.text)
    BY <1>2, ReadIs DEF Take
  <2> QED  BY <1>2, <2>1 DEF Windowed
<1> QED  BY <1>1, <1>2, TakeOrKeep

-----------------------------------------------------------------------------

LEMMA ParseMeans == ASSUME Balance, Windowed, Meant, ParseSteps PROVE Meant'
<1>1. CASE SkipWhitespace
  BY <1>1, BlankMeans
<1>2. CASE ParseObject
  BY <1>2, NestedMeans DEF ParseObject, Opens
<1>3. CASE ParseArray
  BY <1>3, NestedMeans DEF ParseArray, Opens
<1>4. CASE ParseString \/ ParseLiteral \/ ParseNumber
  BY <1>4, StringMeans, LiteralMeans, NumberMeans
<1>5. CASE Key \/ Colon \/ Comma \/ EndObject \/ EndArray \/ Finish
  BY <1>5, KeyMeans, ColonMeans, CommaMeans, EndsMean, FinishMeans
<1>6. CASE Empty \/ NotSingular \/ NoKey \/ NoColon \/ NoEnd
  BY <1>6, RootMisses, NoKeyMeans, NoColonMeans, NoEndMeans
<1>7. CASE Letter \/ NoLetter
  BY <1>7, LetterMeans, NoLetterMeans
<1>8. CASE Character \/ CloseQuote \/ NoCharacter \/ Backslash \/ EscapedCharacter \/ UnicodeEscape \/ NoEscape
  BY <1>8, CharacterMeans, QuoteMeans, NoCharacterMeans, BackslashMeans, EscapedMeans, UnicodeMeans, NoEscapeMeans
<1>9. CASE HexDigit \/ NoHexDigit
  BY <1>9, HexMeans, NoHexMeans
<1>10. CASE NumberStep \/ EndNumber \/ NoNumber
  BY <1>10, NumberStepMeans, EndNumberMeans, NoNumberMeans
<1> QED  BY <1>1, <1>2, <1>3, <1>4, <1>5, <1>6, <1>7, <1>8, <1>9, <1>10 DEF ParseSteps

LEMMA StillMeant == ASSUME Meant, UNCHANGED jsonVars PROVE Meant'
<1>1. /\ UNCHANGED <<file, stream, calls, stack, status, doc>> /\ Tell' = Tell
  BY DEF jsonVars, Tell
<1> QED  BY <1>1 DEF Meant, DocumentIsMeant

LEMMA InitMeant == Init => Meant
<1> SUFFICES ASSUME Init PROVE Meant
  OBVIOUS
<1>1. Balance /\ Windowed
  BY InitBalanced, InitWindowed
<1> DEFINE c == Call("root", "start")
<1>2. calls = <<c>> /\ stack = <<>> /\ status = "parsing"
  BY DEF Init, Opened
<1>3. IsSequence(stack) /\ Len(stack) = 0
  BY <1>2, EmptyIs
<1>4. IsCall(c) /\ c.fn = "root" /\ c.at = "start" /\ c.base = 0
  BY <1>3, NewCall
<1> HIDE DEF c
<1>5. Len(calls) = 1 /\ calls[1] = c
  BY <1>2
<1>6. Own(c) = 0
  BY <1>4 DEF Own, Nested
<1>7. Rising(calls, stack)
  BY <1>3, <1>4, <1>5, <1>6 DEF Rising
<1>8. Tell = 0
  BY DEF Init, Opened, Tell, Filled
<1> DEFINE t == file.text
           s == stack
           r == DocumentOf(t, ValueAt(t, ReadingOf(t), 0))
           f == [i \in 1 .. 1 |-> r]
           held == Between(s, 0, 0)
<1>9. Comes(t, c, held, 0, r)
  <2>1. RootComes(t, c, held, 0, r)
    BY <1>4 DEF RootComes
  <2> QED  BY <1>4, <2>1, ComesIs
<1>10. f[1] = r /\ Len(s) = 0
  BY <1>3
<1> HIDE DEF t, r, f
<1>11. Comes(t, c, Between(s, Own(c), Len(s)), 0, f[1])
  BY <1>6, <1>9, <1>10
<1>12. Means(t, calls, s, 0, f)
  BY <1>5, <1>10, <1>11 DEF Means, r
<1>13. Means(file.text, calls, stack, Tell, f)
  BY <1>8, <1>12 DEF t
<1> QED  BY <1>2, <1>7, <1>13 DEF Meant, DocumentIsMeant

\* Whatever is in the file, however deep it is nested and wherever the read
\* buffer is filled again: when the recursive reader has parsed it, the document
\* is the value that JSON gives to the text, and when it reports an error the
\* text is no JSON (GenericReader::Parse, GenericDocument::ParseStream).
THEOREM DocumentIsRead == Spec => []DocumentIsMeant
<1> DEFINE Sound == Balance /\ Windowed /\ Meant
<1>1. Init => Sound
  BY InitBalanced, InitWindowed, InitMeant
<1>2. Sound /\ [Next]_vars => Sound'
  <2> SUFFICES ASSUME Sound, [Next]_vars PROVE Sound'
    OBVIOUS
  <2>1. CASE UNCHANGED jsonVars
    BY <2>1, StillBalanced, StillMeant DEF Windowed, jsonVars
  <2>2. CASE ParseSteps
    BY <2>2, ParseKeeps, ParseMeans, WindowKept
  <2>3. UNCHANGED vars => UNCHANGED jsonVars
    BY DEF vars, jsonVars
  <2> QED  BY <2>1, <2>2, <2>3, NextParses
<1>3. Sound => DocumentIsMeant
  BY DEF Meant
<1> QED  BY <1>1, <1>2, <1>3, PTL DEF Spec
=============================================================================
