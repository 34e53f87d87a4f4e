-------------------------------- MODULE Json --------------------------------
(***************************************************************************)
(* What the configuration uses of rapidjson: FileReadStream, the recursive *)
(* GenericReader::Parse, the GenericDocument that builds the value on its  *)
(* stack from the reader's events, and the access to the value's members.  *)
(*                                                                         *)
(* The reader's recursion is a stack of calls.  A step takes one character *)
(* or returns from a call.  A number keeps its value up to 32 bits; above, *)
(* and with a fraction or an exponent, only its type.                      *)
(***************************************************************************)
EXTENDS JsonText

CONSTANTS
  Files,        \* what the configuration file may be: [text, value]
  BufferSize    \* the read buffer (8192 in the code)

ASSUME JsonAssumption == BufferSize \in Nat /\ BufferSize >= 4
\* Who writes a file means what JSON says of its text, and nothing by a text
\* that is none.
ASSUME FilesAssumption ==
  \A f \in Files : f.text \in Seq(Range(f.text)) /\ f.value = Meaning(f.text)

VARIABLES
  file,     \* the file that is read, and the value its author meant
  stream,   \* the FileReadStream
  calls,    \* the calls of the reader under way, the innermost last
  stack,    \* the values on the document's stack
  status,   \* "parsing", "parsed" or the ParseErrorCode
  doc       \* the document's value

jsonVars == <<file, stream, calls, stack, status, doc>>

-----------------------------------------------------------------------------
(* FileReadStream. *)

\* fread into the buffer and the position after it.  Read() moves to the next
\* character, and behind the last one of the file to a NUL where it stays.
Filled(s, got) ==
  LET short == Len(got) < BufferSize IN
  [buffer |-> got \o (IF short THEN <<NUL>> ELSE <<>>),
   current |-> 1,
   last |-> Len(got) + (IF short THEN 1 ELSE 0),
   readCount |-> Len(got),
   count |-> s.count + s.readCount,
   eof |-> short]
Fetched(text, from) ==
  SubSeq(text, from + 1, IF from + BufferSize < Len(text) THEN from + BufferSize ELSE Len(text))
\* Slip: the last character of the buffer is taken for its end.
ReadEarly(s) ==
  IF s.current + 1 < s.last THEN [s EXCEPT !.current = @ + 1]
  ELSE IF s.eof THEN s
  ELSE Filled(s, Fetched(file.text, s.count + s.readCount))

Read(s) ==
  IF s.current < s.last THEN [s EXCEPT !.current = @ + 1]
  ELSE IF s.eof THEN s
  ELSE Filled(s, Fetched(file.text, s.count + s.readCount))

Peek == stream.buffer[stream.current]
Tell == stream.count + stream.current - 1
Take == stream' = Read(stream)
Keep == UNCHANGED stream

-----------------------------------------------------------------------------
(* Access to the members of a value. *)

\* FindMember and operator[]: the first member of that name.
Places(v, name) == {i \in 1 .. Len(v.of) : i % 2 = 1 /\ v.of[i].text = name}
Has(v, name) == v.type = "object" /\ Places(v, name) # {}
At(v, name) ==
  v.of[1 + CHOOSE i \in Places(v, name) : \A j \in Places(v, name) : i <= j]

\* What GetInt, GetUint, GetBool, GetString and GetArray assert.
IsInt(v) == v.type = "int" /\ v.int <= MaxInt
IsUint(v) == v.type = "int" /\ v.int >= 0
IsBool(v) == v.type \in {"true", "false"}
IsString(v) == v.type = "string"
IsArray(v) == v.type = "array"

-----------------------------------------------------------------------------
(* Calls. *)

\* base: how high the stack was; n: members or elements so far; text: the
\* string so far, or what is left of a literal; hex: the digits of a \u.
Call(fn, at) ==
  [fn |-> fn, at |-> at, base |-> Len(stack), n |-> 0, text |-> <<>>,
   hex |-> <<>>, neg |-> FALSE, int |-> 0, exponent |-> 0, fraction |-> 0,
   type |-> "int", result |-> "null"]

Top == calls[Len(calls)]
InCall(fn, at) == status = "parsing" /\ Top.fn = fn /\ Top.at \in at
Goto(at) == calls' = [calls EXCEPT ![Len(calls)].at = at]
\* The caller goes on at `at` when the callee returns.
Enter(at, callee) == calls' = Append([calls EXCEPT ![Len(calls)].at = at], callee)
Becomes(c) == calls' = [calls EXCEPT ![Len(calls)] = c]
Return == calls' = Front(calls)

Push(v) == stack' = Append(stack, v)
Same == UNCHANGED <<status, doc, file>>

\* EndObject and EndArray: n values become those of the value below them.
EndHolding(type, n) ==
  stack' = Append(SubSeq(stack, 1, Len(stack) - n - 1),
                  Holding(type, SubSeq(stack, Len(stack) - n + 1, Len(stack))))

\* RAPIDJSON_PARSE_ERROR: every call returns and ParseStream clears the stack.
Fail(code) ==
  /\ status' = code /\ calls' = <<>> /\ stack' = <<>>
  /\ UNCHANGED <<file, stream, doc>>

\* Where whitespace is skipped.
Gaps == {<<"root", "start">>, <<"root", "after">>,
         <<"object", "first">>, <<"object", "key">>, <<"object", "colon">>,
         <<"object", "value">>, <<"object", "after">>,
         <<"array", "first">>, <<"array", "value">>, <<"array", "after">>}
\* Slip: a line feed is recognised and not taken.
SkipWhitespaceStays ==
  /\ status = "parsing" /\ <<Top.fn, Top.at>> \in Gaps /\ Peek \in Blanks
  /\ IF Peek = "\n" THEN Keep ELSE Take
  /\ Same /\ UNCHANGED <<calls, stack>>

SkipWhitespace ==
  /\ status = "parsing" /\ <<Top.fn, Top.at>> \in Gaps /\ Peek \in Blanks
  /\ Take /\ Same /\ UNCHANGED <<calls, stack>>

Facing(fn, at) == InCall(fn, at) /\ Peek \notin Blanks

-----------------------------------------------------------------------------
(* ParseValue: the function the next character calls for. *)

\* Where a value is due, and where the caller goes on behind it.
ValueDue ==
  \/ Facing("root", {"start"}) /\ Peek # NUL
  \/ Facing("array", {"first"}) /\ Peek # "]"
  \/ Facing("array", {"value"})
  \/ Facing("object", {"value"})

ParseNested(fn, open) ==
  /\ ValueDue /\ Peek = open
  /\ Enter("after", Call(fn, "first"))
  /\ Push(Value(fn))
  /\ Take /\ Same
ParseObject == ParseNested("object", "{")
ParseArray == ParseNested("array", "[")

ParseString ==
  /\ ValueDue /\ Peek = "\""
  /\ Enter("after", Call("string", "chars"))
  /\ Take /\ Same /\ UNCHANGED stack

ParseLiteral ==
  /\ ValueDue /\ Peek \in DOMAIN Literals
  /\ Enter("after", [Call("literal", "rest") EXCEPT !.text = Literals[Peek][2],
                                                    !.result = Literals[Peek][1]])
  /\ Take /\ Same /\ UNCHANGED stack

ParseNumber ==
  /\ ValueDue /\ Peek \notin {"{", "[", "\""} \cup DOMAIN Literals
  /\ Enter("after", Call("number", "start"))
  /\ Keep /\ Same /\ UNCHANGED stack

-----------------------------------------------------------------------------
(* The document: one value and nothing behind it. *)

Empty == Facing("root", {"start"}) /\ Peek = NUL /\ Fail("DocumentEmpty")

\* Slip: what follows the value is not looked at.
FinishEarly ==
  /\ Facing("root", {"after"})
  /\ status' = "parsed" /\ doc' = Last(stack) /\ stack' = Front(stack)
  /\ calls' = <<>>
  /\ UNCHANGED <<file, stream>>

Finish ==
  /\ Facing("root", {"after"}) /\ Peek = NUL
  /\ status' = "parsed" /\ doc' = Last(stack) /\ stack' = Front(stack)
  /\ calls' = <<>>
  /\ UNCHANGED <<file, stream>>

NotSingular ==
  Facing("root", {"after"}) /\ Peek # NUL /\ Fail("DocumentRootNotSingular")

-----------------------------------------------------------------------------
(* ParseObject and ParseArray behind their opening bracket. *)

Key ==
  /\ Facing("object", {"first", "key"}) /\ Peek = "\""
  /\ Enter("colon", Call("string", "chars"))
  /\ Take /\ Same /\ UNCHANGED stack
NoKey ==
  /\ Facing("object", {"first", "key"})
  /\ Peek # "\"" /\ ~(Top.at = "first" /\ Peek = "}")
  /\ Fail("ObjectMissName")

Colon ==
  /\ Facing("object", {"colon"}) /\ Peek = ":"
  /\ Goto("value") /\ Take /\ Same /\ UNCHANGED stack
NoColon == Facing("object", {"colon"}) /\ Peek # ":" /\ Fail("ObjectMissColon")

\* Between members or elements.
Comma ==
  /\ \/ Facing("object", {"after"}) /\ Becomes([Top EXCEPT !.n = @ + 1, !.at = "key"])
     \/ Facing("array", {"after"}) /\ Becomes([Top EXCEPT !.n = @ + 1, !.at = "value"])
  /\ Peek = ","
  /\ Take /\ Same /\ UNCHANGED stack

\* Slip: the member in front of the brace is not counted.
EndObjectUncounted ==
  /\ Facing("object", {"first", "after"}) /\ Peek = "}"
  /\ EndHolding("object", 2 * Top.n)
  /\ Return /\ Take /\ Same

EndObject ==
  /\ Facing("object", {"first", "after"}) /\ Peek = "}"
  /\ EndHolding("object", IF Top.at = "first" THEN 0 ELSE 2 * (Top.n + 1))
  /\ Return /\ Take /\ Same

EndArray ==
  /\ Facing("array", {"first", "after"}) /\ Peek = "]"
  /\ EndHolding("array", IF Top.at = "first" THEN 0 ELSE Top.n + 1)
  /\ Return /\ Take /\ Same
NoEnd ==
  \/ /\ Facing("object", {"after"}) /\ Peek \notin {",", "}"}
     /\ Fail("ObjectMissCommaOrCurlyBracket")
  \/ /\ Facing("array", {"after"}) /\ Peek \notin {",", "]"}
     /\ Fail("ArrayMissCommaOrSquareBracket")

-----------------------------------------------------------------------------
(* ParseNull, ParseTrue and ParseFalse behind the first letter. *)

Letter ==
  /\ InCall("literal", {"rest"}) /\ Peek = Top.text[1]
  /\ IF Len(Top.text) > 1
       THEN Becomes([Top EXCEPT !.text = Tail(@)]) /\ UNCHANGED stack
       ELSE Return /\ Push(Value(Top.result))
  /\ Take /\ Same
NoLetter == InCall("literal", {"rest"}) /\ Peek # Top.text[1] /\ Fail("ValueInvalid")

-----------------------------------------------------------------------------
(* ParseStringToStream. *)

Put(text, at) == Becomes([Top EXCEPT !.text = @ \o text, !.at = at, !.hex = <<>>])

Character ==
  /\ InCall("string", {"chars"}) /\ Peek \notin {"\"", "\\", NUL} \cup Controls
  /\ Put(<<Peek>>, "chars") /\ Take /\ Same /\ UNCHANGED stack
CloseQuote ==
  /\ InCall("string", {"chars"}) /\ Peek = "\""
  /\ Return /\ Push(TextValue(Top.text)) /\ Take /\ Same
NoCharacter ==
  /\ InCall("string", {"chars"}) /\ Peek \in {NUL} \cup Controls
  /\ Fail(IF Peek = NUL THEN "StringMissQuotationMark" ELSE "StringInvalidEncoding")

Backslash ==
  /\ InCall("string", {"chars", "pair"}) /\ Peek = "\\"
  /\ Goto(IF Top.at = "pair" THEN "pairu" ELSE "escape")
  /\ Take /\ Same /\ UNCHANGED stack
EscapedCharacter ==
  /\ InCall("string", {"escape"}) /\ Peek \in Escapes
  /\ Put(<<Escaped(Peek)>>, "chars") /\ Take /\ Same /\ UNCHANGED stack
UnicodeEscape ==
  /\ InCall("string", {"escape", "pairu"}) /\ Peek = "u"
  /\ Goto("hex") /\ Take /\ Same /\ UNCHANGED stack
NoEscape ==
  \/ InCall("string", {"escape"}) /\ Peek \notin Escapes \cup {"u"} /\ Fail("StringEscapeInvalid")
  \/ /\ \/ InCall("string", {"pair"}) /\ Peek # "\\"
        \/ InCall("string", {"pairu"}) /\ Peek # "u"
     /\ Fail("StringUnicodeSurrogateInvalid")

\* ParseHex4, a digit a step.  After the fourth digit a first half waits for
\* its second; eight digits are a pair.  A code point is kept as its digits.
HexDigit ==
  /\ InCall("string", {"hex"}) /\ Peek \in HexDigits
  /\ LET hex == Append(Top.hex, Peek) IN
     /\ ~(Len(hex) = 8 /\ ~LowSurrogate(SubSeq(hex, 5, 8)))
     /\ IF Len(hex) = 4 /\ HighSurrogate(hex)
          THEN Becomes([Top EXCEPT !.hex = hex, !.at = "pair"])
        ELSE IF Len(hex) \in {4, 8} THEN Put(<<"\\u">> \o hex, "chars")
        ELSE Becomes([Top EXCEPT !.hex = hex])
  /\ Take /\ Same /\ UNCHANGED stack
NoHexDigit ==
  \/ InCall("string", {"hex"}) /\ Peek \notin HexDigits /\ Fail("StringUnicodeEscapeInvalidHex")
  \/ /\ InCall("string", {"hex"}) /\ Peek \in HexDigits
     /\ Len(Top.hex) = 7 /\ ~LowSurrogate(SubSeq(Append(Top.hex, Peek), 5, 8))
     /\ Fail("StringUnicodeSurrogateInvalid")

-----------------------------------------------------------------------------
(* ParseNumber. *)

\* The grammar of numbers: where a character leads.
NumberEdges == {
  <<"start", {"-"}, "sign">>, <<"start", {"0"}, "zero">>, <<"start", Range(Tail(Digits)), "digits">>,
  <<"sign", {"0"}, "zero">>, <<"sign", Range(Tail(Digits)), "digits">>,
  <<"digits", Range(Digits), "digits">>,
  <<"digits", {"."}, "point">>, <<"zero", {"."}, "point">>,
  <<"point", Range(Digits), "fraction">>, <<"fraction", Range(Digits), "fraction">>,
  <<"zero", {"e", "E"}, "e">>, <<"digits", {"e", "E"}, "e">>, <<"fraction", {"e", "E"}, "e">>,
  <<"e", {"+"}, "e+">>, <<"e", {"-"}, "e-">>, <<"e", Range(Digits), "exponent">>,
  <<"e+", Range(Digits), "exponent">>, <<"e-", Range(Digits), "tiny">>,
  <<"exponent", Range(Digits), "exponent">>, <<"tiny", Range(Digits), "tiny">>}
Leads == {edge \in NumberEdges : edge[1] = Top.at /\ Peek \in edge[2]}
Whole == {"zero", "digits", "fraction", "exponent", "tiny"}

\* The next digit of an integer: past 32 bits only the type is left.
WithDigit(c, d) ==
  LET next == c.int * 10 + d IN
  IF c.type = "int" /\ next <= (IF c.neg THEN MaxInt + 1 ELSE MaxUint)
    THEN [c EXCEPT !.int = next]
    ELSE [c EXCEPT !.type = "wide"]
\* What the character that leads to `to` changes.
Entering(c, to) ==
  IF to = "sign" THEN [c EXCEPT !.neg = TRUE]
  ELSE IF to = "digits" THEN WithDigit(c, DigitOf(Peek))
  ELSE IF to \in {"point", "e"} THEN [c EXCEPT !.type = "double"]
  ELSE IF to = "fraction" THEN [c EXCEPT !.fraction = @ + 1]
  ELSE IF to = "exponent" THEN [c EXCEPT !.exponent = @ * 10 + DigitOf(Peek)]
  ELSE c
TooBig(c) == c.at = "exponent" /\ c.exponent > MaxExponent + c.fraction

NumberStep ==
  /\ InCall("number", {edge[1] : edge \in NumberEdges})
  /\ \E edge \in Leads :
       LET c == [Entering(Top, edge[3]) EXCEPT !.at = edge[3]] IN
       IF Top.at = "exponent" /\ TooBig(c)
         THEN Fail("NumberTooBig")
         ELSE Becomes(c) /\ Take /\ Same /\ UNCHANGED stack
EndNumber ==
  /\ InCall("number", Whole) /\ Leads = {}
  /\ Return
  /\ Push(IF Top.type = "int" THEN IntValue(IF Top.neg THEN -Top.int ELSE Top.int)
                              ELSE Value(Top.type))
  /\ Keep /\ Same
NoNumber ==
  /\ status = "parsing" /\ Top.fn = "number" /\ Leads = {}
  /\ \/ Top.at \in {"start", "sign"} /\ Fail("ValueInvalid")
     \/ Top.at = "point" /\ Fail("NumberMissFraction")
     \/ Top.at \in {"e", "e+", "e-"} /\ Fail("NumberMissExponent")

-----------------------------------------------------------------------------

ParseSteps ==
  \/ SkipWhitespace
  \/ ParseObject \/ ParseArray \/ ParseString \/ ParseLiteral \/ ParseNumber
  \/ Empty \/ Finish \/ NotSingular
  \/ Key \/ NoKey \/ Colon \/ NoColon \/ Comma \/ EndObject \/ EndArray \/ NoEnd
  \/ Letter \/ NoLetter
  \/ Character \/ CloseQuote \/ NoCharacter
  \/ Backslash \/ EscapedCharacter \/ UnicodeEscape \/ NoEscape \/ HexDigit \/ NoHexDigit
  \/ NumberStep \/ EndNumber \/ NoNumber

\* The constructors of the stream and of the document, in front of Parse.
Opened(f) ==
  /\ file = f
  /\ stream = Filled([count |-> 0, readCount |-> 0], Fetched(f.text, 0))
  /\ stack = <<>>
  /\ calls = <<Call("root", "start")>>
  /\ status = "parsing"
  /\ doc = Null

-----------------------------------------------------------------------------
(* Properties. *)

\* How many values of a call lie on the stack, and the values it has when the
\* call it waits for returns.
Begun(c, size) ==
  IF c.at = "after" THEN size ELSE IF c.at \in {"colon", "value"} THEN size - 1 ELSE 0
Held(c) ==
  IF c.fn = "root" THEN Begun(c, 1)
  ELSE IF c.fn = "object" THEN 1 + 2 * c.n + Begun(c, 2)
  ELSE IF c.fn = "array" THEN 1 + c.n + Begun(c, 1)
  ELSE 0

\* The stack holds what the calls under way pushed and nothing else, so that
\* every Pop finds the members it counts (internal/stack.h:137) and a parsed
\* document leaves exactly its root (document.h:2260).
StackBalanced ==
  /\ status = "parsing" =>
       /\ Len(stack) = Top.base + Held(Top)
       /\ \A i \in 1 .. Len(calls) - 1 :
            calls[i + 1].base = calls[i].base + Held(calls[i]) - 1
  /\ status # "parsing" => stack = <<>>

\* Across the refills of its buffer the stream shows the characters of the
\* file one after the other, none twice and none passed over, and then a NUL.
StreamIsFile ==
  [][stream' # stream =>
       /\ Tell' = Tell + 1
       /\ Peek' = IF Tell' < Len(file.text) THEN file.text[Tell' + 1] ELSE NUL]_jsonVars
=============================================================================
