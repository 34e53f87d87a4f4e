------------------------------ MODULE HttpParser ------------------------------
(***************************************************************************)
(* The request parser of one connection (http/http_parser.cc), between the *)
(* bytes that arrive and the requests its user provides (core/user.cc).    *)
(*                                                                         *)
(* A client sends a script of requests back to back and the network cuts   *)
(* it anywhere.  A byte is a character of the request line or of a content,*)
(* or one symbol for the name or the value of a field: the number of bytes,*)
(* which the parser counts on, is the real one in the request line and     *)
(* smaller than the real one behind it.                                    *)
(***************************************************************************)
EXTENDS Integers, Sequences, SequencesExt

CONSTANTS
  Scripts,            \* the sequences of requests a client may send
  IntMax,             \* INT_MAX, for content_length (2^31 - 1 in the code)
  MaxContentLength    \* server/max_content_length

ASSUME WidthAssumption ==
  /\ IntMax \in Nat
  /\ MaxContentLength \in Nat

VARIABLES
  script,     \* the requests the client sends
  stream,     \* their bytes
  received,   \* how many of them were read from the socket
  readPos,    \* how many of those the parser has consumed
  pc,         \* where User::onRead stands
  f,          \* f_, the parser's counters
  request,    \* the HttpRequest
  answers     \* what provide() was called with, in order

vars == <<script, stream, received, readPos, pc, f, request, answers>>

-----------------------------------------------------------------------------
(* Bytes. *)

Digits == {"0", "1", "2", "3", "7", "9"}
DigitValue == [d \in Digits |->
  IF d = "0" THEN 0 ELSE IF d = "1" THEN 1 ELSE IF d = "2" THEN 2
  ELSE IF d = "3" THEN 3 ELSE IF d = "7" THEN 7 ELSE 9]
Letters == {"A", "D", "E", "G", "H", "I", "N", "O", "P", "S", "T"}
Names == {"Host", "Connection", "Content-Length"}
Words == {"keep-alive", "close"}
Addresses == {"a.com", "b.com"}

\* isheader, isuri and isvalue.
NameBytes == Letters \cup Digits \cup Names \cup Words
UriBytes == NameBytes \cup Addresses \cup {"/", ".", ":"}
ValueBytes == UriBytes \cup {"SP"}
CRLF == <<"CR", "LF">>
Byte == ValueBytes \cup {"CR", "LF"}

\* A request: what is sent, and what a parser of whole requests makes of it.
\* Method, version numbers, field values and content are sequences of bytes.
Request ==
  [method : Seq(Byte), uri : Seq(Byte), major : Seq(Byte), minor : Seq(Byte),
   fields : Seq(Byte \X Seq(Byte)), content : Seq(Byte)]
ASSUME ScriptsAssumption == Scripts \subseteq Seq(Request)

Field(name, value) == <<name, ":", "SP">> \o value \o CRLF
Encoded(r) ==
  r.method \o <<"SP">> \o r.uri \o <<"SP", "H", "T", "T", "P", "/">>
    \o r.major \o <<".">> \o r.minor \o CRLF
    \o FlattenSeq([i \in DOMAIN r.fields |-> Field(r.fields[i][1], r.fields[i][2])])
    \o CRLF \o r.content

Number(digits) ==
  LET read[i \in 0 .. Len(digits)] ==
        IF i = 0 THEN 0 ELSE 10 * read[i - 1] + DigitValue[digits[i]]
  IN  read[Len(digits)]
PowerOfTen(n) ==
  LET power[i \in 0 .. n] == IF i = 0 THEN 1 ELSE 10 * power[i - 1]
  IN  power[n]

\* The values of the fields with a name.
Values(fields, name) ==
  {fields[i][2] : i \in {j \in DOMAIN fields : fields[j][1] = name}}

Methods == {<<"G", "E", "T">>, <<"H", "E", "A", "D">>, <<"P", "O", "S", "T">>,
            <<"O", "P", "T", "I", "O", "N", "S">>}
Options == {<<"close">>, <<"keep-alive">>}

\* What the parser refuses of a Content-Length.  The number starts at -1, also
\* behind a byte that is no digit, and -1 at its end is refused: so is a number
\* of nines, and so is not one that ends in other digits.
LengthRefused(value) ==
  \E k \in 0 .. Len(value) :
    /\ k = 0 \/ value[k] \notin Digits
    /\ \A i \in k + 1 .. Len(value) : value[i] = "9"

FieldError(name, value) ==
  IF value = <<>> THEN "UnrecognizedChar"
  ELSE IF name = "Connection" /\ value \notin Options THEN "InvalidHeader"
  ELSE IF name = "Content-Length" /\ LengthRefused(value) THEN "InvalidContentLength"
  ELSE "Fine"

\* A request is judged from its beginning on: the first error is reported.
FieldFails(r, i) == FieldError(r.fields[i][1], r.fields[i][2]) # "Fine"
FirstFailing(r) ==
  CHOOSE i \in DOMAIN r.fields :
    FieldFails(r, i) /\ \A j \in DOMAIN r.fields : FieldFails(r, j) => i <= j
MeaningOf(r) ==
  IF r.method \notin Methods THEN "InvalidMethod"
  ELSE IF Number(r.major) # 1 /\ Number(r.minor) \notin {0, 1} THEN "UnsupportedVersion"
  ELSE IF \E i \in DOMAIN r.fields : FieldFails(r, i)
       THEN FieldError(r.fields[FirstFailing(r)][1], r.fields[FirstFailing(r)][2])
  ELSE "Parsed"

StreamOf(s) == FlattenSeq([i \in DOMAIN s |-> Encoded(s[i])])
End(i) == Len(StreamOf(SubSeq(script, 1, i)))

-----------------------------------------------------------------------------
(* HttpParserBuffer and HttpRequest. *)

NoError == {"Fine", "NotAvailable", "ExceptedContent"}

Cleared == [state |-> "Begin", err |-> "Fine", method |-> <<>>,
            uriStart |-> 0, uriLength |-> 1, nameStart |-> 0, nameLength |-> 1,
            valueStart |-> 0, valueLength |-> 1, contentLength |-> -1,
            major |-> 0, minor |-> 0, keepAlive |-> TRUE, keepAliveSet |-> FALSE]

NewRequest == [method |-> <<>>, uri |-> <<>>, code |-> -1, error |-> "Fine",
               major |-> 1, minor |-> 0, keepAlive |-> FALSE, fields |-> <<>>]

\* The states of parseOnce that look at one byte, and where each byte leads.
\* A byte without an edge is rejected.
Edges ==
  { <<"Begin", {"SP"}, "Begin">>, <<"Begin", {"O"}, "MetOptions">>,
    <<"Begin", {"G"}, "MetGet">>, <<"Begin", {"H"}, "MetHead">>,
    <<"Begin", {"P"}, "MetPost">>, <<"MetAlmostDone", {"SP"}, "MetDone">>,
    <<"MetDone", {"SP"}, "MetDone">>, <<"MetDone", UriBytes, "UriStart">>,
    <<"UriStart", {"SP"}, "UriEnd">>, <<"UriStart", UriBytes, "Uri">>,
    <<"Uri", {"SP"}, "UriEnd">>, <<"Uri", UriBytes, "Uri">>,
    <<"VerHttpSlash", Digits, "VerMajor">>, <<"VerMajor", Digits, "VerMajor">>,
    <<"VerMajor", {"."}, "VerDot">>, <<"VerDot", Digits, "VerMinor">>,
    <<"VerDot", {"CR"}, "VerEnd">>, <<"VerMinor", Digits, "VerMinor">>,
    <<"VerMinor", {"CR"}, "VerEnd">>, <<"VerEnd", {"LF"}, "CRLF">>,
    <<"CR", {"LF"}, "CRLF">>, <<"CRLF", {"CR"}, "CRLFCR">>,
    <<"CRLF", NameBytes, "Header">>, <<"CRLFCR", {"LF"}, "Died">>,
    <<"Header", NameBytes, "Header">>, <<"Header", {":"}, "Colon">>,
    <<"Colon", {"SP"}, "Colon">>, <<"Colon", ValueBytes \ {"SP"}, "Value">>,
    <<"Value", ValueBytes, "Value">>, <<"Value", {"CR"}, "CR">> }

\* Slip: the line break of the empty line does not end the request.
TargetsRunOn(state, c) ==
  IF state = "CRLFCR" THEN {"Begin"}
  ELSE {e[3] : e \in {e \in Edges : e[1] = state /\ c \in e[2]}}

Targets(state, c) == {e[3] : e \in {e \in Edges : e[1] = state /\ c \in e[2]}}

\* The states that read a word at once.
WordAt == [MetOptions |-> [text |-> <<"P", "T", "I", "O", "N", "S">>, to |-> "MetAlmostDone"],
           MetGet |-> [text |-> <<"E", "T">>, to |-> "MetAlmostDone"],
           MetHead |-> [text |-> <<"E", "A", "D">>, to |-> "MetAlmostDone"],
           MetPost |-> [text |-> <<"O", "S", "T">>, to |-> "MetAlmostDone"],
           UriEnd |-> [text |-> <<"H", "T", "T", "P", "/">>, to |-> "VerHttpSlash"]]

\* What reject() says in each state.
RejectedAs(state) ==
  CASE state \in {"Begin", "MetOptions", "MetGet", "MetHead", "MetPost", "MetAlmostDone"}
         -> "InvalidMethod"
    [] state \in {"MetDone", "UriStart", "Uri"} -> "InvalidUri"
    [] state \in {"UriEnd", "VerHttpSlash", "VerMajor", "VerDot", "VerMinor", "VerEnd"}
         -> "InvalidVersion"
    [] state \in {"CR", "CRLFCR"} -> "CRLF"
    [] state = "CRLF" -> "InvalidHeader"
    [] OTHER -> "UnrecognizedChar"

Rejected(g, err) == [g EXCEPT !.state = "Died", !.err = err]

\* Slip: the thresholds of the comment above the code.
WantedByComment(state) ==
  IF state \in {"Begin", "MetOptions", "MetGet", "MetPost", "MetHead"} THEN 19 ELSE 1

\* parseable(): the bytes doParse wants to see before it goes on from a state.
Wanted(state) ==
  CASE state \in {"Begin", "MetOptions", "MetGet", "MetPost", "MetHead"} -> 16
    [] state \in {"MetAlmostDone", "MetDone", "UriStart"} -> 12
    [] state \in {"Uri", "UriEnd", "VerHttpSlash"} -> 10
    [] state = "VerMajor" -> 9
    [] state \in {"VerDot", "Header", "Colon", "Value"} -> 3
    [] state \in {"VerMinor", "VerEnd"} -> 2
    [] state \in {"CR", "CRLF", "CRLFCR"} -> 1

Parseable(g, left) ==
  IF g.state = "Died" THEN g.err = "ExceptedContent" /\ left >= g.contentLength
                      ELSE left >= Wanted(g.state)

-----------------------------------------------------------------------------
(* parseOnce. *)

Left == received - readPos
Next1 == stream[readPos + 1]      \* stream_->peek()
View(start, length) == [i \in 1 .. length |-> stream[start + i - 1]]

\* The counters after byte c, found behind the read position, led to a state.
Counted(g, c, to) ==
  LET here == readPos + 1
      \* Starts at the first byte of its kind.
      Begins(start, from, at) == IF g.state = from /\ to = at THEN here ELSE start
      Grows(n, from, at) == IF g.state \in from /\ to = at THEN n + 1 ELSE n
      Digit(n, first, more) ==
        IF to # more THEN n
        ELSE IF g.state = first THEN DigitValue[c] ELSE 10 * n + DigitValue[c]
  IN  [g EXCEPT !.state = to,
                !.err = IF to = "Died" THEN "ExceptedContent" ELSE @,
                !.uriStart = Begins(@, "MetDone", "UriStart"),
                !.uriLength = Grows(@, {"UriStart", "Uri"}, "Uri"),
                !.nameStart = Begins(@, "CRLF", "Header"),
                !.nameLength = Grows(@, {"Header"}, "Header"),
                !.valueStart = Begins(@, "Colon", "Value"),
                !.valueLength = Grows(@, {"Value"}, "Value"),
                !.major = Digit(@, "VerHttpSlash", "VerMajor"),
                !.minor = Digit(@, "VerDot", "VerMinor")]

\* Two's complement: what lies beyond IntMax comes round again at -IntMax - 1.
Wrapped(n) == ((n + IntMax + 1) % (2 * (IntMax + 1))) - IntMax - 1

\* content_length after the bytes of a value; it starts at -1.
LengthRead(n, value) ==
  LET read[i \in 0 .. Len(value)] ==
        IF i = 0 THEN n
        ELSE IF value[i] \in Digits THEN Wrapped(10 * read[i - 1] + DigitValue[value[i]])
        ELSE -1
  IN  read[Len(value)]

\* The two fields the parser itself looks at, ...
Noted(g, name, value) ==
  IF name = <<"Content-Length">>
  THEN [g EXCEPT !.contentLength = LengthRead(@, value)]
  ELSE IF name = <<"Connection">>
  THEN [g EXCEPT !.keepAliveSet = TRUE,
                 !.keepAlive = (value = <<"keep-alive">>) \/ (@ /\ value # <<"close">>)]
  ELSE g

\* ... and what it says to their values.
Approved(g, name, value) ==
  IF name = <<"Content-Length">> /\ g.contentLength = -1
  THEN Rejected(g, "InvalidContentLength")
  ELSE IF name = <<"Connection">> /\ value \notin Options
  THEN Rejected(g, "InvalidHeader")
  ELSE g

\* Slip: the length of the value is not set back for the next field.
FieldEndedKeepsLength(g, name, value) ==
  Approved([Noted(g, name, value) EXCEPT !.nameStart = 0, !.valueStart = 0,
                                         !.nameLength = 1], name, value)

\* The counters after a field.
FieldEnded(g, name, value) ==
  Approved([Noted(g, name, value) EXCEPT !.nameStart = 0, !.valueStart = 0,
                                         !.nameLength = 1, !.valueLength = 1],
           name, value)

\* One turn of the loop of parseOnce reads one byte ...
Moves(g) ==
  IF Targets(g.state, Next1) = {} THEN Rejected(g, RejectedAs(g.state))
  ELSE Counted(g, Next1, CHOOSE to \in Targets(g.state, Next1) : TRUE)

Scanning == pc = "parse" /\ f.state # "Died" /\ Left > 0

\* Slip: a space before a value is passed over without being read.
AdvanceStays ==
  /\ Scanning
  /\ f.state \notin {"CR", "VerEnd"} \cup DOMAIN WordAt
  /\ f' = Moves(f)
  /\ readPos' = IF f.state = "Colon" /\ Next1 = "SP" THEN readPos ELSE readPos + 1
  /\ UNCHANGED <<script, stream, received, pc, request, answers>>

Advance ==
  /\ Scanning
  /\ f.state \notin {"CR", "VerEnd"} \cup DOMAIN WordAt
  /\ f' = Moves(f)
  /\ readPos' = readPos + 1
  /\ UNCHANGED <<script, stream, received, pc, request, answers>>

\* ... the byte after the version number, where the version is judged ...
EndVersion ==
  /\ Scanning /\ f.state = "VerEnd"
  /\ f' = IF f.major # 1 /\ f.minor \notin {0, 1}
          THEN Rejected(f, "UnsupportedVersion") ELSE Moves(f)
  /\ readPos' = readPos + 1
  /\ UNCHANGED <<script, stream, received, pc, request, answers>>

\* Slip: a field takes the place of the earlier ones.
EndFieldReplaces ==
  /\ Scanning /\ f.state = "CR"
  /\ LET name == View(f.nameStart, f.nameLength)
         value == View(f.valueStart, f.valueLength)
         g == FieldEnded(f, name, value)
     IN  /\ request' = [request EXCEPT !.fields = <<<<name, value>>>>]
         /\ f' = IF g.state = "Died" THEN g ELSE Moves(g)
  /\ readPos' = readPos + 1
  /\ UNCHANGED <<script, stream, received, pc, answers>>

\* ... the byte after a field, which the request keeps ...
EndField ==
  /\ Scanning /\ f.state = "CR"
  /\ LET name == View(f.nameStart, f.nameLength)
         value == View(f.valueStart, f.valueLength)
         g == FieldEnded(f, name, value)
     IN  /\ request' = [request EXCEPT !.fields = Append(@, <<name, value>>)]
         /\ f' = IF g.state = "Died" THEN g ELSE Moves(g)
  /\ readPos' = readPos + 1
  /\ UNCHANGED <<script, stream, received, pc, answers>>

AtWord == Scanning /\ f.state \in DOMAIN WordAt

\* Slip: the word is compared before its bytes have arrived.
ReadWordUnchecked ==
  /\ AtWord
  /\ LET word == WordAt[f.state]
     IN  /\ IsPrefix(word.text, SubSeq(stream, readPos + 1, Len(stream)))
         /\ readPos' = readPos + Len(word.text)
         /\ f' = [f EXCEPT !.state = word.to]
  /\ UNCHANGED <<script, stream, received, pc, request, answers>>

\* ... or a whole word,
ReadWord ==
  /\ AtWord
  /\ LET word == WordAt[f.state]
     IN  /\ IsPrefix(word.text, SubSeq(stream, readPos + 1, received))
         /\ readPos' = readPos + Len(word.text)
         /\ f' = [f EXCEPT !.state = word.to,
                           !.method = IF f.state = "UriEnd" THEN @
                                      ELSE <<stream[readPos]>> \o word.text]
  /\ UNCHANGED <<script, stream, received, pc, request, answers>>

\* which may be another one,
RejectWord ==
  /\ AtWord
  /\ LET n == Len(WordAt[f.state].text)
     IN  /\ n < Left
         /\ SubSeq(stream, readPos + 1, readPos + n) # WordAt[f.state].text
         /\ readPos' = readPos + n + 1
  /\ f' = Rejected(f, RejectedAs(f.state))
  /\ UNCHANGED <<script, stream, received, pc, request, answers>>

\* or not have arrived: CharBuffer::read throws and nothing below run() catches.
Throw ==
  /\ AtWord
  /\ LET n == Len(WordAt[f.state].text)
     IN  \/ n > Left
         \/ n = Left /\ SubSeq(stream, readPos + 1, readPos + n) # WordAt[f.state].text
  /\ pc' = "thrown"
  /\ UNCHANGED <<script, stream, received, readPos, f, request, answers>>

-----------------------------------------------------------------------------
(* doParse and onRead. *)

CodeOf(err) ==
  CASE err = "UnsupportedVersion" -> 505
    [] err = "InvalidMethod" -> 501
    [] OTHER -> 400

\* setParseResult: the counters and the request, or nothing but the error.
TooLarge(g) == g.contentLength >= MaxContentLength
KeptAlive(g) == IF g.keepAliveSet THEN g.keepAlive ELSE g.minor # 0
JudgedCounters(g) ==
  IF TooLarge(g) THEN [g EXCEPT !.err = "EntityTooLarge"]
                 ELSE [g EXCEPT !.keepAlive = KeptAlive(g)]
JudgedRequest(g, r) ==
  LET good == g.err = "ExceptedContent"
  IN  IF TooLarge(g) THEN r
      ELSE [r EXCEPT !.method = IF good THEN g.method ELSE @,
                     !.uri = IF good THEN View(g.uriStart, g.uriLength) ELSE @,
                     !.code = IF good THEN @ ELSE CodeOf(g.err),
                     !.keepAlive = @ \/ KeptAlive(g),
                     !.error = g.err, !.major = g.major, !.minor = g.minor]

\* The end of doParse, and of onRead, with counters g and request r: a
\* request whose content is there is judged again; one that is finished, well
\* or not, is provided.
Concluded(g, r) ==
  LET whole == g.err = "ExceptedContent" /\ Parseable(g, Left)
      h == [g EXCEPT !.err = "Parsed"]
      g2 == IF whole THEN JudgedCounters(h) ELSE g
      r2 == IF whole THEN JudgedRequest(h, r) ELSE r
  IN  /\ f' = g2
      /\ request' = r2
      /\ answers' = IF g2.err \in NoError THEN answers
                    ELSE Append(answers,
                           [error |-> r2.error, code |-> r2.code, method |-> r2.method,
                            uri |-> r2.uri, major |-> r2.major, minor |-> r2.minor,
                            keepAlive |-> r2.keepAlive,
                            hosts |-> {r2.fields[i][2] : i \in
                                        {j \in DOMAIN r2.fields : r2.fields[j][1] = <<"Host">>}}])
      /\ pc' = "rest"

\* The loop of parseOnce is over.
ParsedOnce ==
  /\ pc = "parse" /\ (f.state = "Died" \/ Left = 0)
  /\ IF f.state = "Died"
     THEN Concluded(JudgedCounters(f), JudgedRequest(f, request))
     ELSE Concluded(f, request)
  /\ UNCHANGED <<script, stream, received, readPos>>

\* Slip: the counters of the last request are kept.
StartAfresh(g) == [g EXCEPT !.state = IF g.err \in NoError THEN @ ELSE "Begin",
                            !.err = IF g.err \in NoError THEN @ ELSE "Fine"]

\* The counters at the beginning of doParse.
Fresh(g) == IF g.err \in NoError THEN g ELSE Cleared

\* onRead: n more bytes; a finished parser starts afresh; doParse waits, or
\* finds the content it waited for, or goes on parsing.
OnRead(n) ==
  /\ pc = "rest" /\ n \in 1 .. Len(stream) - received
  /\ received' = received + n
  /\ LET g == Fresh(f)
     IN  /\ f' = IF Parseable(g, received' - readPos) THEN g ELSE [g EXCEPT !.err = "NotAvailable"]
         /\ pc' = IF Parseable(g, received' - readPos) THEN "parse" ELSE "rest"
  /\ UNCHANGED <<script, stream, readPos, request, answers>>

\* adapt() after onRead or onWrite: User::closeable, once all is sent.
Close ==
  /\ pc = "rest" /\ f.err \notin NoError /\ ~request.keepAlive
  /\ pc' = "closed"
  /\ UNCHANGED <<script, stream, received, readPos, f, request, answers>>

Init ==
  /\ script \in Scripts
  /\ stream = StreamOf(script)
  /\ received = 0 /\ readPos = 0
  /\ pc = "rest"
  /\ f = Cleared
  /\ request = NewRequest
  /\ answers = <<>>

Parse == Advance \/ EndVersion \/ EndField \/ ReadWord \/ RejectWord \/ Throw \/ ParsedOnce

Next == Parse \/ Close \/ (\E n \in 1 .. Len(stream) : OnRead(n))

Spec == Init /\ [][Next]_vars

\* The thread inside onRead is scheduled.
FairSpec == Spec /\ WF_vars(Parse)

-----------------------------------------------------------------------------
\* Positions stay in order, also when a word is read at once; counters hold
\* what the parser may hold.
TypeOK ==
  /\ script \in Scripts /\ stream = StreamOf(script)
  /\ received \in 0 .. Len(stream) /\ readPos \in 0 .. received
  /\ pc \in {"rest", "parse", "thrown", "closed"}
  /\ f.state \in {e[1] : e \in Edges} \cup DOMAIN WordAt \cup {"Died"}
  /\ f.contentLength \in -IntMax - 1 .. IntMax
  /\ {f.major, f.minor} \subseteq Nat

\* The views of a request are pointers with a length kept apart: at any time
\* they stay within the bytes the parser has consumed.
ViewsRead ==
  LET Within(start, length) == start # 0 => start + length - 1 <= readPos
  IN  /\ Within(f.uriStart, f.uriLength)
      /\ Within(f.nameStart, f.nameLength)
      /\ Within(f.valueStart, f.valueLength)

\* A request is put together as HTTP puts it, whatever its parts say; a value
\* may be missing and the minor version too.
WellFormed(r) ==
  /\ r.method \in Seq(Letters) \ {<<>>} /\ r.uri \in Seq(UriBytes) \ {<<>>}
  /\ r.major \in Seq(Digits) \ {<<>>} /\ r.minor \in Seq(Digits)
  /\ \A i \in DOMAIN r.fields :
       LET value == r.fields[i][2]
       IN  /\ r.fields[i][1] \in NameBytes /\ value \in Seq(ValueBytes)
           /\ value # <<>> => value[1] # "SP"

\* It has one Content-Length at most, and not of so many digits that int
\* overflows.
NoOverflow(r) ==
  \A i \in DOMAIN r.fields : r.fields[i][1] = "Content-Length" =>
    /\ PowerOfTen(Len(r.fields[i][2])) <= IntMax + 1
    /\ \A j \in DOMAIN r.fields : r.fields[j][1] = "Content-Length" => j = i

\* The i-th request and those before it are what the parser can take, and come
\* without content.
Plain(r) == WellFormed(r) /\ NoOverflow(r) /\ MeaningOf(r) = "Parsed" /\ r.content = <<>>
AllPlain(i) == \A j \in DOMAIN script : j <= i => Plain(script[j])

\* However the bytes arrive in pieces, each request of a client that sent only
\* plain requests before is taken for what a parser of whole requests takes it.
PiecesDoNotMatter ==
  \A i \in DOMAIN answers \cap DOMAIN script :
    LET a == answers[i]
        r == script[i]
    IN  AllPlain(i - 1) /\ WellFormed(r) /\ NoOverflow(r) =>
          /\ a.error = MeaningOf(r)
          /\ a.error = "Parsed" =>
               /\ a.method = r.method /\ a.uri = r.uri
               /\ a.major = Number(r.major) /\ a.minor = Number(r.minor)

\* A request asks for the connection to be kept: its last word on it counts.
AsksToKeep(r) ==
  LET said == {i \in DOMAIN r.fields : r.fields[i][1] = "Connection"}
  IN  IF said = {} THEN Number(r.minor) # 0
      ELSE \E i \in said : r.fields[i][2] = <<"keep-alive">> /\ \A j \in said : j <= i

\* HttpRequest is never cleared: a request is provided with the fields and the
\* keep-alive flag of all requests so far, no more and no less, however the
\* bytes arrived.
RequestsAccumulate ==
  \A i \in DOMAIN answers \cap DOMAIN script :
    AllPlain(i) =>
      /\ answers[i].hosts = UNION {Values(script[j].fields, "Host") : j \in 1 .. i}
      /\ answers[i].keepAlive <=> \E j \in 1 .. i : AsksToKeep(script[j])

\* The request being parsed, and whether all of it has been read.
Current == Len(answers) + 1
CurrentWhole == Current \in DOMAIN script /\ End(Current) <= received

\* A client whose requests are well-formed ends the instance only with a piece
\* of one.
ThrowsOnlyOnPieces ==
  pc = "thrown" /\ AllPlain(Len(answers)) /\ CurrentWhole => ~WellFormed(script[Current])

\* A plain request that is there and not answered has come with the bytes of
\* the one just answered, or is one of the short requests that were cut within
\* the version: all others are answered at once.
KnownStalls ==
  pc = "rest" /\ CurrentWhole /\ AllPlain(Current) =>
    \/ f.err \notin NoError
    \/ f.state \in {"VerHttpSlash", "VerMajor"} /\ Left < Wanted(f.state)

\* onRead comes to an end: no state of the parser is left without consuming
\* bytes for ever.
OnReadReturns == (pc = "parse") ~> (pc # "parse")
=============================================================================
