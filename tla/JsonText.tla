------------------------------ MODULE JsonText ------------------------------
(***************************************************************************)
(* Values, the characters JSON is written with, and what a text means: the *)
(* grammar of JSON as far as a configuration can use it, stated over the   *)
(* positions of the text.  It knows no buffer, no calls and no stack; Json *)
(* is the reader, and must find the same.                                  *)
(***************************************************************************)
EXTENDS Integers, Sequences, SequencesExt

CONSTANTS
  MaxInt,       \* 2^31 - 1 in the code
  MaxUint,      \* 2^32 - 1 in the code
  MaxExponent   \* 308 in the code

ASSUME LimitsAssumption == MaxInt \in Nat /\ MaxUint \in Nat /\ MaxExponent \in Nat

-----------------------------------------------------------------------------
(* Values: what a GenericValue's flags tell, and its data.  The members of *)
(* an object are its names and values in turn, as they lie on the stack.   *)

Value(type) == [type |-> type, int |-> 0, text |-> <<>>, of |-> <<>>]
Null == Value("null")
IntValue(i) == [Value("int") EXCEPT !.int = i]
TextValue(t) == [Value("string") EXCEPT !.text = t]
Holding(type, values) == [Value(type) EXCEPT !.of = values]

-----------------------------------------------------------------------------
(* Characters.  Of those behind a file the stream shows a NUL.             *)

NUL == "\\0"
Blanks == {" ", "\n", "\r", "\t"}
Literals == [n |-> <<"null", <<"u", "l", "l">>>>,
             t |-> <<"true", <<"r", "u", "e">>>>,
             f |-> <<"false", <<"a", "l", "s", "e">>>>]

Escape == [b |-> "\\b", f |-> "\f", n |-> "\n", r |-> "\r", t |-> "\t"]
Escapes == {"\"", "/", "\\"} \cup DOMAIN Escape
Escaped(e) == IF e \in DOMAIN Escape THEN Escape[e] ELSE e
Digits == <<"0", "1", "2", "3", "4", "5", "6", "7", "8", "9">>
HexDigits == Range(Digits) \cup {"A", "B", "C", "D", "E", "F", "a", "b", "c", "d", "e", "f"}
Controls == {"\n", "\r", "\t", "\\b", "\f"}
DigitOf(c) == (CHOOSE i \in 1 .. 10 : Digits[i] = c) - 1

\* The digits of a code unit: the first or the second of a surrogate pair.
HighSurrogate(hex) == hex[1] \in {"D", "d"} /\ hex[2] \in {"8", "9", "A", "B", "a", "b"}
LowSurrogate(hex) == hex[1] \in {"D", "d"} /\ hex[2] \in {"C", "D", "E", "F", "c", "d", "e", "f"}

-----------------------------------------------------------------------------
(* What the characters of t from position p on spell: a value or a row of  *)
(* them, and the position behind it.  A position counts what is before it. *)

Failed == [ok |-> FALSE, of |-> <<>>, next |-> 0]
Got(of, next) == [ok |-> TRUE, of |-> of, next |-> next]
Then(s, rest) == IF rest.ok THEN Got(s \o rest.of, rest.next) ELSE Failed

Shows(t, p) == IF p < Len(t) THEN t[p + 1] ELSE NUL
\* Where the run of characters of S ends.
Past(t, p, S) ==
  CHOOSE q \in p .. Len(t) : Shows(t, q) \notin S /\ \A i \in p .. q - 1 : Shows(t, i) \in S

LiteralAt(t, p) ==
  LET word == Literals[Shows(t, p)] IN
  IF \A i \in DOMAIN word[2] : Shows(t, p + i) = word[2][i]
    THEN Got(Value(word[1]), p + 1 + Len(word[2])) ELSE Failed

\* The number the digits from p up to q write.
Amount(t, p, q) ==
  LET amount[n \in 0 .. q - p] == IF n = 0 THEN 0 ELSE amount[n - 1] * 10 + DigitOf(Shows(t, p + n - 1))
  IN amount[q - p]

\* An exponent is too big when it is, and is written with several digits.
TooGreat(t, p, q, fraction) == q > p + 1 /\ Amount(t, p, q) > MaxExponent + fraction

\* [-] whole [. fraction] [e [+|-] exponent]: an integer of 32 bits has its
\* value, every other number only a type.
NumberAt(t, p) ==
  LET minus == Shows(t, p) = "-"
      first == IF minus THEN p + 1 ELSE p
      whole == IF Shows(t, first) = "0" THEN first + 1 ELSE Past(t, first, Range(Digits))
      point == Shows(t, whole) = "."
      fraction == IF point THEN Past(t, whole + 1, Range(Digits)) ELSE whole
      power == Shows(t, fraction) \in {"e", "E"}
      exponent == IF Shows(t, fraction + 1) \in {"+", "-"} THEN fraction + 2 ELSE fraction + 1
      end == IF power THEN Past(t, exponent, Range(Digits)) ELSE fraction
      amount == Amount(t, first, whole) IN
  IF \/ whole = first
     \/ point /\ fraction = whole + 1
     \/ power /\ end = exponent
     \/ /\ power /\ Shows(t, fraction + 1) # "-"
        /\ TooGreat(t, exponent, end, IF point THEN fraction - whole - 1 ELSE 0)
    THEN Failed
  ELSE Got(IF point \/ power THEN Value("double")
           ELSE IF amount > (IF minus THEN MaxInt + 1 ELSE MaxUint) THEN Value("wide")
           ELSE IntValue(IF minus THEN -amount ELSE amount), end)

\* One character of a string.  A code point outside the BMP takes two units,
\* and is kept as their digits.
Unit(t, p) ==
  Shows(t, p) = "\\" /\ Shows(t, p + 1) = "u" /\ \A i \in 2 .. 5 : Shows(t, p + i) \in HexDigits
UnitDigits(t, p) == [i \in 1 .. 4 |-> Shows(t, p + 1 + i)]
PairDigits(t, p) == [i \in 1 .. 8 |-> Shows(t, p + (IF i <= 4 THEN 1 ELSE 3) + i)]
CharacterAt(t, p) ==
  IF Shows(t, p) \notin {"\"", "\\", NUL} \cup Controls THEN Got(<<Shows(t, p)>>, p + 1)
  ELSE IF Shows(t, p) = "\\" /\ Shows(t, p + 1) \in Escapes
    THEN Got(<<Escaped(Shows(t, p + 1))>>, p + 2)
  ELSE IF Unit(t, p) /\ ~HighSurrogate(UnitDigits(t, p))
    THEN Got(<<"\\u">> \o UnitDigits(t, p), p + 6)
  ELSE IF Unit(t, p) /\ Unit(t, p + 6) /\ LowSurrogate(UnitDigits(t, p + 6))
    THEN Got(<<"\\u">> \o PairDigits(t, p), p + 12)
  ELSE Failed

\* The rules that refer to each other.  read[p] holds what stands at p: the rest
\* of a string, the elements of an array, the members of an object.
TextAt(t, read, p) ==
  IF Shows(t, p) = "\"" THEN Got(<<>>, p + 1)
  ELSE LET c == CharacterAt(t, p) IN IF c.ok THEN Then(c.of, read[c.next]["text"]) ELSE Failed

AsText(rest) == IF rest.ok THEN Got(TextValue(rest.of), rest.next) ELSE Failed
As(type, rest) == IF rest.ok THEN Got(Holding(type, rest.of), rest.next) ELSE Failed
Close == [array |-> "]", object |-> "}"]

\* Behind the opening bracket.
NestedAt(t, read, p, type) ==
  LET q == Past(t, p, Blanks) IN
  As(type, IF Shows(t, q) = Close[type] THEN Got(<<>>, q + 1) ELSE read[p][type])
ValueAt(t, read, p) ==
  LET q == Past(t, p, Blanks) IN
  IF Shows(t, q) = "{" THEN NestedAt(t, read, q + 1, "object")
  ELSE IF Shows(t, q) = "[" THEN NestedAt(t, read, q + 1, "array")
  ELSE IF Shows(t, q) = "\"" THEN AsText(read[q + 1]["text"])
  ELSE IF Shows(t, q) \in DOMAIN Literals THEN LiteralAt(t, q)
  ELSE NumberAt(t, q)

\* Behind an element or a member.
MoreAt(t, read, p, type) ==
  LET q == Past(t, p, Blanks) IN
  IF Shows(t, q) = "," THEN read[q + 1][type]
  ELSE IF Shows(t, q) = Close[type] THEN Got(<<>>, q + 1)
  ELSE Failed
With(t, read, v, type) == IF v.ok THEN Then(<<v.of>>, MoreAt(t, read, v.next, type)) ELSE Failed
\* Behind a name.
NamedAt(t, read, name) ==
  LET q == Past(t, name.next, Blanks) IN
  IF name.ok /\ Shows(t, q) = ":"
    THEN Then(<<name.of>>, With(t, read, ValueAt(t, read, q + 1), "object")) ELSE Failed
MembersAt(t, read, p) ==
  LET q == Past(t, p, Blanks) IN
  IF Shows(t, q) = "\"" THEN NamedAt(t, read, AsText(read[q + 1]["text"])) ELSE Failed

Rules == {"text", "array", "object"}
RuleAt(t, read, p, rule) ==
  IF rule = "text" THEN TextAt(t, read, p)
  ELSE IF rule = "array" THEN With(t, read, ValueAt(t, read, p), "array")
  ELSE MembersAt(t, read, p)
ReadingOf(t) ==
  LET read[p \in 0 .. Len(t)] == [rule \in Rules |-> RuleAt(t, read, p, rule)] IN read

\* A text means its one value, with nothing but blanks around it, or nothing.
DocumentOf(t, v) == IF v.ok /\ Shows(t, Past(t, v.next, Blanks)) = NUL THEN v ELSE Failed
Meaning(t) ==
  LET document == DocumentOf(t, ValueAt(t, ReadingOf(t), 0)) IN
  IF document.ok THEN document.of ELSE Null
=============================================================================
