--------------------------- MODULE HttpParserProofs ---------------------------
(***************************************************************************)
(* Theorems about HttpParser, for every script of requests and every way   *)
(* to cut it.                                                              *)
(*                                                                         *)
(*  1. The pointers and lengths that make the views of a request stay      *)
(*     together (ViewsStayRead), and the counters are what they may be     *)
(*     (ParserTyped).                                                      *)
(*  2. What the parser makes of the bytes.  Standing says where in a well- *)
(*     formed request a parser stands, by its state and its counters;      *)
(*     Inside adds what the request and the counters have collected, and   *)
(*     Paced how many bytes lie in front of it.  The lemmas follow: where  *)
(*     the bytes of a request lie (Laid), where one byte leads (Leads), a  *)
(*     step in the line, in a field, at the end of a field, over a word;   *)
(*     then the steps of the parser, each of which keeps Located.          *)
(*  3. From Located, the four properties of whole requests.                *)
(***************************************************************************)
EXTENDS HttpParser, AnySequenceProofs, SequenceTheorems, TLAPS

\* States in front of the uri, of any field, and of any value.
BeforeUri == {"Begin", "MetOptions", "MetGet", "MetHead", "MetPost", "MetAlmostDone", "MetDone"}
InField == {"Header", "Colon", "Value", "CR", "Died"}
InValue == {"Value", "CR", "Died"}

CounterFields == {"state", "err", "method", "uriStart", "uriLength", "nameStart", "nameLength",
                  "valueStart", "valueLength", "contentLength", "major", "minor",
                  "keepAlive", "keepAliveSet"}

IsView(start, length, pos) == start \in Nat /\ length \in Nat /\ (start # 0 => start + length - 1 <= pos)

\* A view that grows ends at the read position, and one that was not begun is
\* set back.
UriView(g, pos) ==
  /\ IsView(g.uriStart, g.uriLength, pos)
  /\ g.state \in BeforeUri => g.uriStart = 0 /\ g.uriLength = 1
  /\ g.state \in {"UriStart", "Uri"} => g.uriStart + g.uriLength - 1 = pos
NameView(g, pos) ==
  /\ IsView(g.nameStart, g.nameLength, pos)
  /\ g.state \notin InField => g.nameStart = 0 /\ g.nameLength = 1
  /\ g.state = "Header" => g.nameStart + g.nameLength - 1 = pos
ValueView(g, pos) ==
  /\ IsView(g.valueStart, g.valueLength, pos)
  /\ g.state \notin InValue => g.valueStart = 0 /\ g.valueLength = 1
  /\ g.state = "Value" => g.valueStart + g.valueLength - 1 = pos
Counters(g, pos) ==
  DOMAIN g = CounterFields /\ UriView(g, pos) /\ NameView(g, pos) /\ ValueView(g, pos)

\* The induction.
Viewed == readPos \in Nat /\ Counters(f, readPos)

\* Where the edges lead, as far as the views need it.
LEMMA EdgesLead ==
  ASSUME NEW e \in Edges
  PROVE  /\ e[3] \in BeforeUri => e[1] \in BeforeUri
         /\ e[3] = "UriStart" => e[1] = "MetDone"
         /\ e[3] = "Uri" => e[1] \in {"UriStart", "Uri"}
         /\ e[3] \notin InField => e[1] \notin InField \ {"CR"}
         /\ e[3] = "Header" => e[1] \in {"CRLF", "Header"}
         /\ e[3] \notin InValue => e[1] \notin InValue \ {"CR"}
         /\ e[3] = "Value" => e[1] \in {"Colon", "Value"}
         /\ e[1] = "CR" => e[3] = "CRLF"
<1>1. (e[3] \in BeforeUri => e[1] \in BeforeUri)
  BY SMTT(30) DEF Edges, BeforeUri
<1>2. (e[3] = "UriStart" => e[1] = "MetDone")
  BY SMTT(30) DEF Edges
<1>3. (e[3] = "Uri" => e[1] \in {"UriStart", "Uri"})
  BY SMTT(30) DEF Edges
<1>4. (e[3] \notin InField => e[1] \notin InField \ {"CR"})
  BY SMTT(30) DEF Edges, InField
<1>5. (e[3] = "Header" => e[1] \in {"CRLF", "Header"})
  BY SMTT(30) DEF Edges
<1>6. (e[3] \notin InValue => e[1] \notin InValue \ {"CR"})
  BY SMTT(30) DEF Edges, InValue
<1>7. (e[3] = "Value" => e[1] \in {"Colon", "Value"})
  BY SMTT(30) DEF Edges
<1>8. (e[1] = "CR" => e[3] = "CRLF")
  BY SMTT(30) DEF Edges
<1> QED BY <1>1, <1>2, <1>3, <1>4, <1>5, <1>6, <1>7, <1>8

LEMMA WordsLead ==
  ASSUME NEW s \in DOMAIN WordAt
  PROVE  /\ Len(WordAt[s].text) \in Nat
         /\ s = "UriEnd" \/ s \in BeforeUri
         /\ s = "UriEnd" => WordAt[s].to = "VerHttpSlash"
         /\ s # "UriEnd" => WordAt[s].to = "MetAlmostDone"
BY DEF WordAt, BeforeUri

LEMMA Led ==
  ASSUME NEW s, NEW c, NEW to \in Targets(s, c)
  PROVE  \E e \in Edges : e[1] = s /\ e[3] = to
BY DEF Targets

\* What else is noted of a request leaves the views alone.
SameViews(g, h) ==
  /\ DOMAIN h = DOMAIN g /\ h.state = g.state
  /\ h.uriStart = g.uriStart /\ h.uriLength = g.uriLength
  /\ h.nameStart = g.nameStart /\ h.nameLength = g.nameLength
  /\ h.valueStart = g.valueStart /\ h.valueLength = g.valueLength

LEMMA SameViewsCount ==
  ASSUME NEW g, NEW h, NEW pos, Counters(g, pos), SameViews(g, h)
  PROVE  Counters(h, pos)
BY DEF Counters, SameViews, UriView, NameView, ValueView, IsView

LEMMA LaterViews ==
  ASSUME NEW g, NEW pos \in Nat, NEW later \in Nat, pos <= later, Counters(g, pos), NEW err
  PROVE  Counters(Rejected(g, err), later)
BY DEF Counters, Rejected, CounterFields, UriView, NameView, ValueView, IsView, BeforeUri,
       InField, InValue

\* The views of the field that ends are set back.
SetBack(g) == g.nameStart = 0 /\ g.nameLength = 1 /\ g.valueStart = 0 /\ g.valueLength = 1

\* A byte grows the view it belongs to, and no other.
LEMMA CountedViews ==
  ASSUME NEW g, readPos \in Nat, Counters(g, readPos), g.state = "CR" => SetBack(g),
         NEW c, NEW to, NEW e \in Edges, e[1] = g.state, e[3] = to
  PROVE  Counters(Counted(g, c, to), readPos + 1)
<1> DEFINE h == Counted(g, c, to)
<1>1. /\ DOMAIN h = CounterFields
      /\ h.state = to
      /\ h.uriStart = IF g.state = "MetDone" /\ to = "UriStart" THEN readPos + 1 ELSE g.uriStart
      /\ h.uriLength = IF g.state \in {"UriStart", "Uri"} /\ to = "Uri"
                       THEN g.uriLength + 1 ELSE g.uriLength
      /\ h.nameStart = IF g.state = "CRLF" /\ to = "Header" THEN readPos + 1 ELSE g.nameStart
      /\ h.nameLength = IF g.state = "Header" /\ to = "Header"
                        THEN g.nameLength + 1 ELSE g.nameLength
      /\ h.valueStart = IF g.state = "Colon" /\ to = "Value" THEN readPos + 1 ELSE g.valueStart
      /\ h.valueLength = IF g.state = "Value" /\ to = "Value"
                         THEN g.valueLength + 1 ELSE g.valueLength
  BY DEF Counted, Counters, CounterFields
<1>2. UriView(h, readPos + 1)
  <2>1. (to \in BeforeUri => g.state \in BeforeUri)
    BY EdgesLead
  <2>2. (to = "UriStart" => g.state = "MetDone")
    BY EdgesLead
  <2>3. (to = "Uri" => g.state \in {"UriStart", "Uri"})
    BY EdgesLead
  <2> QED BY <1>1, <2>1, <2>2, <2>3 DEF Counters, UriView, IsView, BeforeUri
<1>3. NameView(h, readPos + 1)
  <2>1. (to \notin InField => g.state \notin InField \ {"CR"})
    BY EdgesLead
  <2>2. (to = "Header" => g.state \in {"CRLF", "Header"})
    BY EdgesLead
  <2> HIDE DEF h
  <2>3. CASE to = "Header"
    <3>1. CASE g.state = "CRLF"
      BY <1>1, <2>3, <3>1 DEF Counters, NameView, IsView, InField
    <3>2. CASE g.state = "Header"
      BY <1>1, <2>3, <3>2 DEF Counters, NameView, IsView, InField
    <3> QED BY <2>2, <2>3, <3>1, <3>2
  <2>4. CASE to # "Header"
    BY <1>1, <2>1, <2>4 DEF Counters, NameView, IsView, InField, SetBack
  <2> QED BY <2>3, <2>4
<1>4. ValueView(h, readPos + 1)
  <2>1. (to \notin InValue => g.state \notin InValue \ {"CR"})
    BY EdgesLead
  <2>2. (to = "Value" => g.state \in {"Colon", "Value"})
    BY EdgesLead
  <2> QED BY <1>1, <2>1, <2>2 DEF Counters, ValueView, IsView, InValue, SetBack
<1> QED BY <1>1, <1>2, <1>3, <1>4 DEF Counters

LEMMA MovedViews ==
  ASSUME NEW g, readPos \in Nat, Counters(g, readPos), g.state = "CR" => SetBack(g)
  PROVE  Counters(Moves(g), readPos + 1)
<1>1. CASE Targets(g.state, Next1) = {}
  <2>1. Counters(Rejected(g, RejectedAs(g.state)), readPos + 1)
    BY LaterViews
  <2> QED BY <1>1, <2>1 DEF Moves
<1>2. CASE Targets(g.state, Next1) # {}
  <2> DEFINE to == CHOOSE to \in Targets(g.state, Next1) : TRUE
  <2>1. to \in Targets(g.state, Next1)
    BY <1>2
  <2>2. PICK e \in Edges : e[1] = g.state /\ e[3] = to
    BY <2>1, Led
  <2>3. Counters(Counted(g, Next1, to), readPos + 1)
    <3> HIDE DEF to
    <3> QED BY <2>2, CountedViews
  <2> QED BY <1>2, <2>3 DEF Moves
<1> QED BY <1>1, <1>2

LEMMA NotedViews ==
  ASSUME NEW g, DOMAIN g = CounterFields, NEW name, NEW value
  PROVE  SameViews(g, Noted(g, name, value))
BY DEF SameViews, Noted, CounterFields

LEMMA FieldEndedViews ==
  ASSUME NEW g, NEW pos \in Nat, Counters(g, pos), g.state = "CR", NEW name, NEW value
  PROVE  LET h == FieldEnded(g, name, value)
         IN  Counters(h, pos) /\ SetBack(h) /\ h.state \in {"CR", "Died"}
<1> DEFINE n == Noted(g, name, value)
           b == [n EXCEPT !.nameStart = 0, !.valueStart = 0, !.nameLength = 1, !.valueLength = 1]
<1>1. Counters(n, pos) /\ n.state = "CR"
  BY NotedViews, SameViewsCount DEF SameViews, Counters
<1>2. Counters(b, pos) /\ SetBack(b) /\ b.state = "CR"
  <2> HIDE DEF n
  <2> QED BY <1>1 DEF Counters, CounterFields, UriView, NameView, ValueView, IsView, SetBack,
                      InField, InValue, BeforeUri
<1>3. FieldEnded(g, name, value) = Approved(b, name, value)
  BY DEF FieldEnded
<1>4. \A err : /\ Counters(Rejected(b, err), pos) /\ SetBack(Rejected(b, err))
               /\ Rejected(b, err).state = "Died"
  <2> HIDE DEF b
  <2> TAKE err
  <2>1. Counters(Rejected(b, err), pos)
    BY <1>2, LaterViews
  <2>2. SetBack(Rejected(b, err)) /\ Rejected(b, err).state = "Died"
    BY <1>2 DEF Rejected, SetBack, Counters, CounterFields
  <2> QED BY <2>1, <2>2
<1>5. \/ Approved(b, name, value) = b
      \/ \E err : Approved(b, name, value) = Rejected(b, err)
  BY DEF Approved
<1> HIDE DEF b
<1> QED BY <1>2, <1>3, <1>4, <1>5

LEMMA JudgedViews ==
  ASSUME NEW g, DOMAIN g = CounterFields
  PROVE  SameViews(g, JudgedCounters(g)) /\ DOMAIN JudgedCounters(g) = CounterFields
BY DEF SameViews, JudgedCounters, CounterFields

LEMMA ConcludedViews ==
  ASSUME NEW g, NEW r, Counters(g, readPos), Concluded(g, r)
  PROVE  Counters(f', readPos)
<1> DEFINE h == [g EXCEPT !.err = "Parsed"]
<1>1. f' = JudgedCounters(h) \/ f' = g
  BY DEF Concluded
<1>2. SameViews(g, h) /\ DOMAIN h = CounterFields
  BY DEF SameViews, Counters, CounterFields
<1>3. Counters(JudgedCounters(h), readPos)
  <2> HIDE DEF h
  <2> QED BY <1>2, JudgedViews, SameViewsCount
<1> QED BY <1>1, <1>3

-----------------------------------------------------------------------------
(* Every step of the parser. *)

LEMMA InitViewed == Init => Viewed
BY DEF Init, Viewed, Cleared, Counters, CounterFields, UriView, NameView, ValueView, IsView,
       BeforeUri, InField, InValue

LEMMA NextViewed == Viewed /\ [Next]_vars => Viewed'
<1> SUFFICES ASSUME Viewed, [Next]_vars PROVE Viewed'
  OBVIOUS
<1>0. readPos \in Nat /\ Counters(f, readPos)
  BY DEF Viewed
<1>1. CASE Advance
  <2>1. Counters(Moves(f), readPos + 1)
    BY <1>0, <1>1, MovedViews DEF Advance
  <2> QED BY <1>0, <1>1, <2>1 DEF Advance, Viewed
<1>2. CASE EndVersion
  <2>1. Counters(Moves(f), readPos + 1)
    BY <1>0, <1>2, MovedViews DEF EndVersion
  <2>2. Counters(Rejected(f, "UnsupportedVersion"), readPos + 1)
    BY <1>0, LaterViews
  <2>3. f' = Moves(f) \/ f' = Rejected(f, "UnsupportedVersion")
    BY <1>2 DEF EndVersion
  <2> QED BY <1>0, <1>2, <2>1, <2>2, <2>3 DEF EndVersion, Viewed
<1>3. CASE EndField
  <2> DEFINE name == View(f.nameStart, f.nameLength)
             value == View(f.valueStart, f.valueLength)
             g == FieldEnded(f, name, value)
  <2>1. Counters(g, readPos) /\ SetBack(g)
    BY <1>0, <1>3, FieldEndedViews DEF EndField
  <2>2. (f' = IF g.state = "Died" THEN g ELSE Moves(g)) /\ readPos' = readPos + 1
    BY <1>3 DEF EndField
  <2> HIDE DEF g
  <2>3. CASE g.state = "Died"
    <3>1. Counters(g, readPos + 1)
      BY <1>0, <2>1, <2>3 DEF Counters, UriView, NameView, ValueView, IsView, BeforeUri,
                              InField, InValue
    <3> QED BY <1>0, <2>2, <2>3, <3>1 DEF Viewed
  <2>4. CASE g.state # "Died"
    <3>1. Counters(Moves(g), readPos + 1)
      BY <1>0, <2>1, MovedViews
    <3> QED BY <1>0, <2>2, <2>4, <3>1 DEF Viewed
  <2> QED BY <2>3, <2>4
<1>4. CASE ReadWord
  <2> DEFINE n == Len(WordAt[f.state].text)
  <2>1. /\ n \in Nat /\ readPos' = readPos + n
        /\ f.state = "UriEnd" \/ f.state \in BeforeUri
        /\ f.state = "UriEnd" => f'.state = "VerHttpSlash"
        /\ f.state # "UriEnd" => f'.state = "MetAlmostDone"
    BY <1>0, <1>4, WordsLead DEF ReadWord, AtWord, Counters, CounterFields
  <2>2. /\ DOMAIN f' = DOMAIN f
        /\ f'.uriStart = f.uriStart /\ f'.uriLength = f.uriLength
        /\ f'.nameStart = f.nameStart /\ f'.nameLength = f.nameLength
        /\ f'.valueStart = f.valueStart /\ f'.valueLength = f.valueLength
    BY <1>0, <1>4 DEF ReadWord, AtWord, Counters, CounterFields
  <2> HIDE DEF n
  <2> QED BY <1>0, <2>1, <2>2 DEF Viewed, Counters, UriView, NameView, ValueView, IsView,
                                  BeforeUri, InField, InValue
<1>5. CASE RejectWord
  <2> DEFINE n == Len(WordAt[f.state].text)
  <2>1. n \in Nat /\ readPos' = readPos + n + 1
    BY <1>5, WordsLead DEF RejectWord, AtWord
  <2>2. f' = Rejected(f, RejectedAs(f.state))
    BY <1>5 DEF RejectWord
  <2> HIDE DEF n
  <2> QED BY <1>0, <2>1, <2>2, LaterViews DEF Viewed
<1>6. CASE Throw
  BY <1>0, <1>6 DEF Throw, Viewed
<1>7. CASE ParsedOnce
  <2>1. Counters(JudgedCounters(f), readPos)
    BY <1>0, JudgedViews, SameViewsCount DEF Counters
  <2>2. Counters(f', readPos)
    BY <1>0, <1>7, <2>1, ConcludedViews DEF ParsedOnce
  <2> QED BY <1>0, <1>7, <2>2 DEF ParsedOnce, Viewed
<1>8. CASE Close
  BY <1>0, <1>8 DEF Close, Viewed
<1>9. ASSUME NEW n, OnRead(n) PROVE Viewed'
  <2>1. Counters(Fresh(f), readPos)
    BY <1>0 DEF Fresh, Cleared, Counters, CounterFields, UriView, NameView, ValueView, IsView,
                BeforeUri, InField, InValue
  <2>2. f' = Fresh(f) \/ f' = [Fresh(f) EXCEPT !.err = "NotAvailable"]
    BY <1>9 DEF OnRead
  <2>3. SameViews(Fresh(f), [Fresh(f) EXCEPT !.err = "NotAvailable"])
    BY <2>1 DEF SameViews, Counters, CounterFields
  <2> QED BY <1>0, <1>9, <2>1, <2>2, <2>3, SameViewsCount DEF OnRead, Viewed
<1>10. CASE UNCHANGED vars
  BY <1>0, <1>10 DEF vars, Viewed
<1> QED
  BY <1>1, <1>2, <1>3, <1>4, <1>5, <1>6, <1>7, <1>8, <1>9, <1>10 DEF Next, Parse

LEMMA ViewedSuffices == Viewed => ViewsRead
BY DEF Viewed, ViewsRead, Counters, UriView, NameView, ValueView, IsView

-----------------------------------------------------------------------------
(* The theorem. *)

\* The uri, name and value a request is made of are views into the bytes the
\* parser has consumed, at any time, whatever arrives in whatever pieces.
THEOREM ViewsStayRead == Spec => []ViewsRead
<1>1. Init => Viewed
  BY InitViewed
<1>2. Viewed /\ [Next]_vars => Viewed'
  BY NextViewed
<1>3. Viewed => ViewsRead
  BY ViewedSuffices
<1> QED BY <1>1, <1>2, <1>3, PTL DEF Spec

-----------------------------------------------------------------------------
(* The types.  They lean on the views: the lengths of the views are numbers, *)
(* so that a Content-Length is read digit by digit and comes to an end.      *)

States == {e[1] : e \in Edges} \cup DOMAIN WordAt \cup {"Died"}
IntRange == -IntMax - 1 .. IntMax

Typed(g) ==
  /\ DOMAIN g = CounterFields
  /\ g.state \in States /\ g.contentLength \in IntRange
  /\ g.major \in Nat /\ g.minor \in Nat

LEMMA EncodedTyped == ASSUME NEW r \in Request PROVE Encoded(r) \in Seq(Byte)
<1> DEFINE fields == [i \in DOMAIN r.fields |-> Field(r.fields[i][1], r.fields[i][2])]
           line == r.method \o <<"SP">> \o r.uri \o <<"SP", "H", "T", "T", "P", "/">>
                     \o r.major \o <<".">> \o r.minor \o CRLF
<1>1. /\ r.method \in Seq(Byte) /\ r.uri \in Seq(Byte) /\ r.major \in Seq(Byte)
      /\ r.minor \in Seq(Byte) /\ r.content \in Seq(Byte) /\ r.fields \in Seq(Byte \X Seq(Byte))
  BY DEF Request
<1>2. CRLF \in Seq(Byte) /\ <<".">> \in Seq(Byte) /\ <<"SP">> \in Seq(Byte)
  BY DEF CRLF, Byte, ValueBytes, UriBytes
<1>3. <<"SP", "H", "T", "T", "P", "/">> \in Seq(Byte)
  BY DEF Byte, ValueBytes, UriBytes, NameBytes, Letters
<1>4. line \in Seq(Byte)
  BY <1>1, <1>2, <1>3
<1>5. fields \in Seq(Seq(Byte))
  <2>1. ASSUME NEW i \in 1 .. Len(r.fields) PROVE Field(r.fields[i][1], r.fields[i][2]) \in Seq(Byte)
    <3>1. r.fields[i] \in Byte \X Seq(Byte)
      BY <1>1
    <3> DEFINE name == r.fields[i][1]
               value == r.fields[i][2]
    <3>2. name \in Byte /\ value \in Seq(Byte)
      BY <3>1
    <3> HIDE DEF name, value
    <3>3. <<name, ":", "SP">> \in Seq(Byte)
      BY <3>2 DEF Byte, ValueBytes, UriBytes
    <3>4. <<name, ":", "SP">> \o value \o CRLF \in Seq(Byte)
      BY <1>2, <3>2, <3>3
    <3> QED  BY <3>4 DEF Field, name, value
  <2>2. DOMAIN r.fields = 1 .. Len(r.fields) /\ Len(r.fields) \in Nat
    BY <1>1
  <2> QED  BY <2>1, <2>2
<1>6. FlattenSeq(fields) \in Seq(Byte)
  BY <1>5, Flattened
<1> HIDE DEF line, fields
<1>7. line \o FlattenSeq(fields) \o CRLF \o r.content \in Seq(Byte)
  BY <1>1, <1>2, <1>4, <1>6
<1> QED  BY <1>7 DEF Encoded, line, fields

LEMMA StreamTyped == ASSUME NEW s \in Scripts PROVE StreamOf(s) \in Seq(Byte)
<1>1. s \in Seq(Request)
  BY ScriptsAssumption
<1>2. [i \in DOMAIN s |-> Encoded(s[i])] \in Seq(Seq(Byte))
  <2>1. DOMAIN s = 1 .. Len(s) /\ Len(s) \in Nat /\ \A i \in 1 .. Len(s) : s[i] \in Request
    BY <1>1
  <2>2. \A i \in 1 .. Len(s) : Encoded(s[i]) \in Seq(Byte)
    BY <2>1, EncodedTyped
  <2> QED  BY <2>1, <2>2
<1> QED  BY <1>2, Flattened DEF StreamOf

LEMMA EdgesTyped ==
  ASSUME NEW e \in Edges
  PROVE  /\ e[1] \in States /\ e[3] \in States
         /\ e[3] \in {"VerMajor", "VerMinor"} => e[2] = Digits
<1> DEFINE froms == {"Begin", "MetAlmostDone", "MetDone", "UriStart", "Uri", "VerHttpSlash",
                     "VerMajor", "VerDot", "VerMinor", "VerEnd", "CR", "CRLF", "CRLFCR",
                     "Header", "Colon", "Value"}
           words == {"MetOptions", "MetGet", "MetHead", "MetPost", "UriEnd"}
<1>1. froms \subseteq States
  <2>1. \A s \in froms : \E d \in Edges : d[1] = s
    <3> SUFFICES ASSUME NEW s \in froms PROVE \E d \in Edges : d[1] = s
      OBVIOUS
    <3> QED  BY SMTT(60) DEF Edges
  <2> QED  BY <2>1 DEF States
<1>2. words \subseteq States
  BY DEF States, WordAt
<1>3. e[3] \in froms \cup words \cup {"Died"}
  BY SMTT(30) DEF Edges
<1>4. e[3] \in {"VerMajor", "VerMinor"} => e[2] = Digits
  BY SMTT(30) DEF Edges
<1>5. e[1] \in States
  BY DEF States
<1>6. e[3] \in States
  BY <1>1, <1>2, <1>3 DEF States
<1> QED  BY <1>4, <1>5, <1>6

LEMMA WordsTyped ==
  ASSUME NEW s \in DOMAIN WordAt
  PROVE  WordAt[s].to \in States
<1>1. WordAt[s].to \in {"VerHttpSlash", "MetAlmostDone"}
  BY DEF WordAt
<1>2. \E e, d \in Edges : e[1] = "VerHttpSlash" /\ d[1] = "MetAlmostDone"
  BY SMTT(30) DEF Edges
<1> QED  BY <1>1, <1>2 DEF States

LEMMA DigitsAreNumbers == \A d \in Digits : DigitValue[d] \in Nat
BY DEF Digits, DigitValue

LEMMA WrappedInRange == \A n \in Int : Wrapped(n) \in IntRange
<1> SUFFICES ASSUME NEW n \in Int PROVE Wrapped(n) \in IntRange
  OBVIOUS
<1> DEFINE h == IntMax + 1
<1>1. h \in Nat \ {0} /\ IntMax = h - 1
  BY WidthAssumption
<1> HIDE DEF h
<1>2. ((n + h) % (2 * h)) \in 0 .. 2 * h - 1
  BY <1>1
<1>3. n + IntMax + 1 = n + h /\ IntMax + 1 = h
  BY <1>1
<1>4. Wrapped(n) = ((n + h) % (2 * h)) - IntMax - 1
  BY <1>3 DEF Wrapped
<1> QED  BY <1>1, <1>2, <1>4 DEF IntRange

LEMMA MinusOneInRange == -1 \in IntRange /\ IntRange \subseteq Int
BY WidthAssumption DEF IntRange

\* However many digits a Content-Length has, what is read of it is an int.
LEMMA LengthReadSteps ==
  ASSUME NEW n \in IntRange, NEW value, Len(value) \in Nat
  PROVE  \E read :
           /\ read[0] = n /\ LengthRead(n, value) = read[Len(value)]
           /\ \A i \in 0 .. Len(value) : read[i] \in IntRange
           /\ \A i \in 1 .. Len(value) :
                read[i] = IF value[i] \in Digits
                          THEN Wrapped(10 * read[i - 1] + DigitValue[value[i]]) ELSE -1
<1> DEFINE last == Len(value)
           Step(v, i) == IF value[i] \in Digits THEN Wrapped(10 * v + DigitValue[value[i]]) ELSE -1
           step == [p \in IntRange \X (1 .. last) |-> Step(p[1], p[2])]
           Reads(r) == r = [i \in 0 .. last |-> IF i = 0 THEN n ELSE Step(r[i - 1], i)]
<1>1. ASSUME NEW v \in IntRange, NEW i PROVE Step(v, i) \in IntRange
  <2>1. CASE value[i] \in Digits
    <3>1. 10 * v + DigitValue[value[i]] \in Int
      BY <2>1, DigitsAreNumbers, MinusOneInRange
    <3> QED  BY <2>1, <3>1, WrappedInRange
  <2> QED  BY <2>1, MinusOneInRange
<1> HIDE DEF Step
<1>2. \A v \in IntRange, i \in 1 .. last : step[<<v, i>>] = Step(v, i) /\ step[<<v, i>>] \in IntRange
  BY <1>1
<1> HIDE DEF step, last
<1>3. last \in Nat
  BY DEF last
<1>4. PICK r : StepsUpto(r, IntRange, n, step, last)
  BY <1>2, <1>3, RecursionExists
<1>5. Reads(r)
  <2>1. /\ r \in [0 .. last -> IntRange] /\ r[0] = n
        /\ \A i \in 1 .. last : r[i] = step[<<r[i - 1], i>>]
    BY <1>4 DEF StepsUpto
  <2>2. ASSUME NEW i \in 0 .. last
        PROVE  r[i] = IF i = 0 THEN n ELSE Step(r[i - 1], i)
    <3>1. CASE i = 0
      BY <2>1, <3>1
    <3>2. CASE i # 0
      <4>1. i \in 1 .. last /\ i - 1 \in 0 .. last
        BY <1>3, <3>2
      <4>2. r[i - 1] \in IntRange
        BY <2>1, <4>1
      <4>3. r[i] = step[<<r[i - 1], i>>]
        BY <2>1, <4>1
      <4> QED  BY <1>2, <3>2, <4>1, <4>2, <4>3
    <3> QED  BY <3>1, <3>2
  <2>3. r = [i \in 0 .. last |-> r[i]]
    BY <2>1
  <2> QED  BY <2>2, <2>3
<1> DEFINE read == CHOOSE r_1 : Reads(r_1)
<1>6. Reads(read)
  BY <1>5
<1> HIDE DEF read
<1>7. read[0] = n /\ \A i \in 1 .. last : read[i] = Step(read[i - 1], i)
  BY <1>3, <1>6
<1> DEFINE S == {i \in Nat : read[i] \in IntRange}
<1>8. \A k \in 1 .. last : (k = 1 \/ k - 1 \in S) => k \in S
  BY <1>1, <1>7
<1> HIDE DEF S
<1>9. \A k \in 1 .. last : k \in S
  BY <1>3, <1>8, InductionUpto
<1>10. \A i \in 0 .. last : read[i] \in IntRange
  <2>1. \A i \in 0 .. last : i = 0 \/ i \in 1 .. last
    BY <1>3
  <2> QED  BY <1>7, <1>9, <2>1 DEF S
<1>11. LengthRead(n, value) = read[last]
  BY DEF LengthRead, read, last, Step
<1>12. \A i \in 1 .. last : 
         read[i] = IF value[i] \in Digits
                   THEN Wrapped(10 * read[i - 1] + DigitValue[value[i]]) ELSE -1
  BY <1>7 DEF Step
<1> QED  BY <1>7, <1>10, <1>11, <1>12 DEF last

LEMMA LengthReadTyped ==
  ASSUME NEW n \in IntRange, NEW value, Len(value) \in Nat
  PROVE  LengthRead(n, value) \in IntRange
<1>1. Len(value) \in 0 .. Len(value)
  OBVIOUS
<1> QED  BY <1>1, LengthReadSteps

LEMMA RejectedTyped ==
  ASSUME NEW g, Typed(g), NEW err
  PROVE  Typed(Rejected(g, err))
BY DEF Typed, Rejected, CounterFields, States

\* A byte leads to another state and may be a digit of the version.
LEMMA CountedTyped ==
  ASSUME NEW g, Typed(g), NEW c, NEW e \in Edges, e[1] = g.state, c \in e[2]
  PROVE  Typed(Counted(g, c, e[3]))
<1> DEFINE to == e[3]
           h == Counted(g, c, to)
<1>1. to \in States /\ (to \in {"VerMajor", "VerMinor"} => c \in Digits)
  BY EdgesTyped
<1> HIDE DEF to
<1>2. /\ DOMAIN h = CounterFields /\ h.state = to /\ h.contentLength = g.contentLength
      /\ h.major = IF to # "VerMajor" THEN g.major
                   ELSE IF g.state = "VerHttpSlash" THEN DigitValue[c]
                   ELSE 10 * g.major + DigitValue[c]
      /\ h.minor = IF to # "VerMinor" THEN g.minor
                   ELSE IF g.state = "VerDot" THEN DigitValue[c]
                   ELSE 10 * g.minor + DigitValue[c]
  BY DEF Counted, Typed, CounterFields
<1> HIDE DEF h
<1>3. to \in {"VerMajor", "VerMinor"} => DigitValue[c] \in Nat
  BY <1>1, DigitsAreNumbers
<1>4. h.major \in Nat /\ h.minor \in Nat
  BY <1>2, <1>3 DEF Typed
<1> QED  BY <1>1, <1>2, <1>4 DEF Typed, h, to

LEMMA MovedTyped ==
  ASSUME NEW g, Typed(g)
  PROVE  Typed(Moves(g))
<1>1. CASE Targets(g.state, Next1) = {}
  BY <1>1, RejectedTyped DEF Moves
<1>2. CASE Targets(g.state, Next1) # {}
  <2> DEFINE to == CHOOSE to \in Targets(g.state, Next1) : TRUE
  <2>1. to \in Targets(g.state, Next1)
    BY <1>2
  <2>2. PICK e \in Edges : e[1] = g.state /\ Next1 \in e[2] /\ e[3] = to
    BY <2>1 DEF Targets
  <2>3. Typed(Counted(g, Next1, to))
    <3> HIDE DEF to
    <3> QED  BY <2>2, CountedTyped
  <2> QED  BY <1>2, <2>3 DEF Moves
<1> QED  BY <1>1, <1>2

LEMMA FieldEndedTyped ==
  ASSUME NEW g, Typed(g), NEW name, NEW value, Len(value) \in Nat
  PROVE  Typed(FieldEnded(g, name, value))
<1> DEFINE n == Noted(g, name, value)
           b == [n EXCEPT !.nameStart = 0, !.valueStart = 0, !.nameLength = 1, !.valueLength = 1]
<1>1. Typed(n)
  <2>1. LengthRead(g.contentLength, value) \in IntRange
    BY LengthReadTyped DEF Typed
  <2> QED  BY <2>1 DEF Noted, Typed, CounterFields
<1> HIDE DEF n
<1>2. Typed(b)
  BY <1>1 DEF Typed, CounterFields
<1> HIDE DEF b
<1>3. \A err : Typed(Rejected(b, err))
  BY <1>2, RejectedTyped
<1>4. FieldEnded(g, name, value) = Approved(b, name, value)
  BY DEF FieldEnded, b, n
<1>5. \/ Approved(b, name, value) = b
      \/ \E err : Approved(b, name, value) = Rejected(b, err)
  BY DEF Approved
<1> QED  BY <1>2, <1>3, <1>4, <1>5

LEMMA JudgedTyped ==
  ASSUME NEW g, Typed(g)
  PROVE  Typed(JudgedCounters(g))
BY DEF Typed, JudgedCounters, CounterFields

LEMMA ConcludedTyped ==
  ASSUME NEW g, NEW r, Typed(g), Concluded(g, r)
  PROVE  Typed(f') /\ pc' = "rest"
<1> DEFINE h == [g EXCEPT !.err = "Parsed"]
<1>1. (f' = JudgedCounters(h) \/ f' = g) /\ pc' = "rest"
  BY DEF Concluded
<1>2. Typed(h)
  BY DEF Typed, CounterFields
<1> HIDE DEF h
<1> QED  BY <1>1, <1>2, JudgedTyped

LEMMA ClearedTyped == Typed(Cleared)
<1>1. \E e \in Edges : e[1] = "Begin"
  BY SMTT(30) DEF Edges
<1>2. "Begin" \in States
  BY <1>1 DEF States
<1> QED  BY <1>2, MinusOneInRange DEF Typed, Cleared, CounterFields

\* The induction: the types, with the views.
Placed == Viewed /\ TypeOK

LEMMA TypeOKIs == Viewed => (TypeOK <=> /\ script \in Scripts /\ stream = StreamOf(script)
                                       /\ received \in 0 .. Len(stream) /\ readPos \in 0 .. received
                                       /\ pc \in {"rest", "parse", "thrown", "closed"}
                                       /\ Typed(f))
BY DEF Viewed, Counters, TypeOK, Typed, States, IntRange

LEMMA InitPlaced == Init => Placed
<1> SUFFICES ASSUME Init PROVE Placed
  OBVIOUS
<1>1. Viewed
  BY InitViewed
<1>2. script \in Scripts /\ stream = StreamOf(script) /\ f = Cleared
      /\ received = 0 /\ readPos = 0 /\ pc = "rest"
  BY DEF Init
<1>3. Len(stream) \in Nat
  BY <1>2, StreamTyped
<1> QED  BY <1>1, <1>2, <1>3, ClearedTyped, TypeOKIs DEF Placed

LEMMA NextPlaced == Placed /\ [Next]_vars => Placed'
<1> SUFFICES ASSUME Placed, [Next]_vars PROVE Placed'
  OBVIOUS
<1>0. /\ script \in Scripts /\ stream = StreamOf(script) /\ Len(stream) \in Nat
      /\ received \in 0 .. Len(stream) /\ readPos \in 0 .. received
      /\ pc \in {"rest", "parse", "thrown", "closed"} /\ Typed(f)
      /\ Counters(f, readPos) /\ Viewed /\ Viewed'
  BY NextViewed, TypeOKIs, StreamTyped DEF Placed, Viewed
<1>1. /\ script' = script /\ stream' = stream
      /\ received' \in 0 .. Len(stream) /\ readPos' \in 0 .. received'
      /\ pc' \in {"rest", "parse", "thrown", "closed"} /\ Typed(f')
  <2>1. CASE Advance
    BY <1>0, <2>1, MovedTyped DEF Advance, Scanning, Left
  <2>2. CASE EndVersion
    BY <1>0, <2>2, MovedTyped, RejectedTyped DEF EndVersion, Scanning, Left
  <2>3. CASE EndField
    <3> DEFINE name == View(f.nameStart, f.nameLength)
               value == View(f.valueStart, f.valueLength)
               g == FieldEnded(f, name, value)
    <3>1. Len(value) \in Nat
      <4>1. f.valueLength \in Nat
        BY <1>0 DEF Counters, ValueView, IsView
      <4> QED  BY <4>1 DEF View
    <3> HIDE DEF name, value
    <3>2. Typed(g)
      BY <1>0, <3>1, FieldEndedTyped
    <3>3. f' = IF g.state = "Died" THEN g ELSE Moves(g)
      BY <2>3 DEF EndField, name, value
    <3> HIDE DEF g
    <3>4. Typed(f')
      BY <3>2, <3>3, MovedTyped
    <3> QED  BY <1>0, <2>3, <3>4 DEF EndField, Scanning, Left
  <2>4. CASE ReadWord
    <3> DEFINE text == WordAt[f.state].text
               rest == SubSeq(stream, readPos + 1, received)
    <3>1. Len(text) \in Nat /\ WordAt[f.state].to \in States
      BY <2>4, WordsLead, WordsTyped DEF ReadWord, AtWord
    <3>2. Len(rest) = received - readPos
      <4>1. \A i \in readPos + 1 .. received : stream[i] \in Byte
        BY <1>0, StreamTyped
      <4>2. Len(rest) = IF readPos + 1 <= received THEN received - (readPos + 1) + 1 ELSE 0
        BY <1>0, <4>1, SubSeqProperties
      <4> QED  BY <1>0, <4>2
    <3>3. Len(text) <= Len(rest) /\ readPos' = readPos + Len(text)
      BY <2>4 DEF ReadWord, IsPrefix
    <3>4. DOMAIN f' = DOMAIN f /\ f'.state = WordAt[f.state].to
          /\ f'.contentLength = f.contentLength /\ f'.major = f.major /\ f'.minor = f.minor
      BY <1>0, <2>4 DEF ReadWord, Typed, CounterFields
    <3> HIDE DEF text, rest
    <3>5. Typed(f')
      BY <1>0, <3>1, <3>4 DEF Typed
    <3> QED  BY <1>0, <2>4, <3>1, <3>2, <3>3, <3>5 DEF ReadWord
  <2>5. CASE RejectWord
    <3> DEFINE n == Len(WordAt[f.state].text)
    <3>1. n \in Nat /\ n < received - readPos /\ readPos' = readPos + n + 1
      BY <2>5, WordsLead DEF RejectWord, AtWord, Left
    <3> HIDE DEF n
    <3> QED  BY <1>0, <2>5, <3>1, RejectedTyped DEF RejectWord
  <2>6. CASE Throw
    BY <1>0, <2>6 DEF Throw
  <2>7. CASE ParsedOnce
    <3>1. Typed(f') /\ pc' = "rest"
      BY <1>0, <2>7, JudgedTyped, ConcludedTyped DEF ParsedOnce
    <3> QED  BY <1>0, <2>7, <3>1 DEF ParsedOnce
  <2>8. CASE Close
    BY <1>0, <2>8 DEF Close
  <2>9. ASSUME NEW n, OnRead(n)
        PROVE  /\ script' = script /\ stream' = stream
               /\ received' \in 0 .. Len(stream) /\ readPos' \in 0 .. received'
               /\ pc' \in {"rest", "parse", "thrown", "closed"} /\ Typed(f')
    <3>1. Typed(Fresh(f))
      BY <1>0, ClearedTyped DEF Fresh
    <3>2. f' = Fresh(f) \/ f' = [Fresh(f) EXCEPT !.err = "NotAvailable"]
      BY <2>9 DEF OnRead
    <3>3. Typed(f')
      BY <3>1, <3>2 DEF Typed, CounterFields
    <3>4. n \in 1 .. Len(stream) - received /\ received' = received + n /\ readPos' = readPos
          /\ pc' \in {"parse", "rest"} /\ script' = script /\ stream' = stream
      BY <2>9 DEF OnRead
    <3> QED  BY <1>0, <3>3, <3>4
  <2>10. CASE UNCHANGED vars
    BY <1>0, <2>10 DEF vars
  <2> QED
    BY <2>1, <2>2, <2>3, <2>4, <2>5, <2>6, <2>7, <2>8, <2>9, <2>10 DEF Next, Parse
<1>2. (Viewed => (TypeOK <=> /\ script \in Scripts /\ stream = StreamOf(script)
                            /\ received \in 0 .. Len(stream) /\ readPos \in 0 .. received
                            /\ pc \in {"rest", "parse", "thrown", "closed"}
                            /\ Typed(f)))'
  BY TypeOKIs, PTL
<1> QED  BY <1>0, <1>1, <1>2 DEF Placed

\* The parser never consumes bytes that have not arrived, whatever word it
\* looks for, and content_length stays an int however long the number is.
THEOREM ParserTyped == Spec => []TypeOK
<1>1. Placed => TypeOK
  BY DEF Placed
<1> QED  BY <1>1, InitPlaced, NextPlaced, PTL DEF Spec

-----------------------------------------------------------------------------
(* Where the parser stands in a well-formed request.                         *)

Value(r, i) == r.fields[i][2]
Name(r, i) == r.fields[i][1]
KeepAlive == <<"keep-alive">>

\* How many bytes of a request lie before its uri, its version, its minor
\* version, its fields, and behind each of the fields.
UriAt(r) == Len(r.method) + 1
VersionAt(r) == UriAt(r) + Len(r.uri) + 6
MinorAt(r) == VersionAt(r) + Len(r.major) + 1
FieldsAt(r) == MinorAt(r) + Len(r.minor) + 2
FieldAt(r) ==
  LET at[i \in 0 .. Len(r.fields)] ==
        IF i = 0 THEN FieldsAt(r) ELSE at[i - 1] + Len(Value(r, i)) + 5
  IN  at
HeadEnd(r) == FieldAt(r)[Len(r.fields)] + 2

\* The number in each beginning of a sequence of digits.
NumberUpto(digits) ==
  LET read[i \in 0 .. Len(digits)] ==
        IF i = 0 THEN 0 ELSE 10 * read[i - 1] + DigitValue[digits[i]]
  IN  read

WordStates == {"MetOptions", "MetGet", "MetHead", "MetPost"}
FirstLetter == [MetOptions |-> "O", MetGet |-> "G", MetHead |-> "H", MetPost |-> "P"]
NotDone == {"Fine", "NotAvailable"}

\* Parser g, k bytes into request r, which begins behind base bytes.
AtMethod(r, k, g) ==
  /\ g.minor = 0
  /\ \/ g.state = "Begin" /\ k = 0
     \/ g.state \in WordStates /\ k = 1 /\ r.method[1] = FirstLetter[g.state]
     \/ /\ g.state = "MetAlmostDone" /\ g.method \in Methods
        /\ k = Len(g.method) /\ k <= Len(r.method) /\ \A i \in 1 .. k : r.method[i] = g.method[i]

MethodRead(r, g) == r.method \in Methods /\ g.method = r.method
UriBegun(r, base, g) == g.uriStart = base + UriAt(r) + 1
AtUri(r, base, k, g) ==
  /\ MethodRead(r, g) /\ g.minor = 0
  /\ \/ g.state = "MetDone" /\ k = UriAt(r)
     \/ /\ g.state \in {"UriStart", "Uri"} /\ UriBegun(r, base, g)
        /\ k = UriAt(r) + g.uriLength /\ g.uriLength \in 1 .. Len(r.uri)
        /\ g.state = "UriStart" => g.uriLength = 1

LineRead(r, base, g) == MethodRead(r, g) /\ UriBegun(r, base, g) /\ g.uriLength = Len(r.uri)
MajorRead(r, g) == g.major = Number(r.major)
MinorRead(r, g) == g.minor = Number(r.minor)
AtVersion(r, base, k, g) ==
  /\ LineRead(r, base, g)
  /\ \/ g.state = "UriEnd" /\ k = VersionAt(r) - 5
     \/ g.state = "VerHttpSlash" /\ k = VersionAt(r)
     \/ g.state = "VerMajor" /\ k - VersionAt(r) \in 1 .. Len(r.major)
          /\ g.major = NumberUpto(r.major)[k - VersionAt(r)]
     \/ g.state = "VerDot" /\ k = MinorAt(r) /\ MajorRead(r, g)
     \/ g.state = "VerMinor" /\ MajorRead(r, g) /\ k - MinorAt(r) \in 1 .. Len(r.minor)
          /\ g.minor = NumberUpto(r.minor)[k - MinorAt(r)]
     \/ g.state = "VerEnd" /\ k = FieldsAt(r) - 1 /\ MajorRead(r, g) /\ MinorRead(r, g)
  /\ g.state \in {"UriEnd", "VerHttpSlash", "VerMajor", "VerDot"} => g.minor = 0

Supported(r) == ~(Number(r.major) # 1 /\ Number(r.minor) \notin {0, 1})
HeadRead(r, base, g) ==
  LineRead(r, base, g) /\ MajorRead(r, g) /\ MinorRead(r, g) /\ Supported(r)

\* In front of field j + 1, in it, or behind the last one.
AtField(r, base, k, g, j) ==
  LET at == FieldAt(r)[j]
      length == Len(Value(r, j + 1))
      Named == j < Len(r.fields) /\ g.nameStart = base + at + 1 /\ g.nameLength = 1
      Valued == Named /\ g.valueStart = base + at + 4
  IN  /\ HeadRead(r, base, g)
      /\ \/ g.state = "CRLF" /\ k = at
         \/ g.state = "Header" /\ Named /\ k = at + 1
         \/ g.state = "Colon" /\ Named /\ k \in {at + 2, at + 3}
         \/ g.state = "Value" /\ Valued /\ g.valueLength \in 1 .. length
              /\ k = at + 3 + g.valueLength
         \/ g.state = "CR" /\ Valued /\ g.valueLength = length /\ length > 0
              /\ k = at + 4 + length
         \/ g.state = "CRLFCR" /\ j = Len(r.fields) /\ k = at + 1

Standing(r, base, k, g, j) ==
  \/ j = 0 /\ (AtMethod(r, k, g) \/ AtUri(r, base, k, g) \/ AtVersion(r, base, k, g))
  \/ AtField(r, base, k, g, j)

\* What the first j fields have left behind.
Upto(r, name, j) == {i \in 1 .. j : Name(r, i) = name}
FieldsRead(r, g, j) ==
  /\ \A i \in 1 .. j : ~FieldFails(r, i)
  /\ g.contentLength < 0
  /\ Upto(r, "Content-Length", j) = {} => g.contentLength = -1
  /\ g.keepAliveSet \in BOOLEAN /\ g.keepAlive \in BOOLEAN
  /\ g.keepAliveSet <=> Upto(r, "Connection", j) # {}
  /\ \A i \in Upto(r, "Connection", j) :
       (\A l \in Upto(r, "Connection", j) : l <= i) => (g.keepAlive <=> Value(r, i) = KeepAlive)
HostsUpto(s, n, r, j) ==
  (UNION {Values(s[i].fields, "Host") : i \in 1 .. n}) \cup {Value(r, i) : i \in Upto(r, "Host", j)}

\* The connection is kept when one request so far asked for it.
KeptUpto(s, n, req) == req.keepAlive <=> \E i \in 1 .. n : AsksToKeep(s[i])

\* Parser g and request req, with j fields of the request behind n others.
Behind(s, n, req, r, g, j) ==
  NoOverflow(r) =>
    /\ KeptUpto(s, n, req) /\ FieldsRead(r, g, j)
    /\ Values(req.fields, <<"Host">>) = HostsUpto(s, n, r, j)

\* It has rejected the request, or read all of it.
Refused(r, g) ==
  g.err = MeaningOf(r) /\ g.err \notin NoError \cup {"Parsed"} /\ g.contentLength < 0
Whole(r, base, k, g) ==
  g.err = "ExceptedContent" /\ HeadRead(r, base, g) /\ k = HeadEnd(r)

\* Parser g, k bytes into the request.
Inside(s, n, req, r, base, k, g) ==
  \/ /\ g.state # "Died" /\ g.err \in NotDone
     /\ \E j \in 0 .. Len(r.fields) :
          Standing(r, base, k, g, j) /\ Behind(s, n, req, r, g, j)
  \/ /\ g.state = "Died"
     /\ NoOverflow(r) =>
          /\ KeptUpto(s, n, req)
          /\ Refused(r, g) \/ (Whole(r, base, k, g) /\ Behind(s, n, req, r, g, Len(r.fields)))

\* Parsing pauses only where it has to.
Paced(r, g, left, at) ==
  /\ at # "closed"
  /\ g.state \in WordStates => at = "parse" /\ left >= 15
  /\ g.state = "Begin" /\ at = "parse" => left >= 16
  /\ g.state = "Died" /\ NoOverflow(r) => at = "parse"
  /\ at = "thrown" => g.state = "UriEnd" /\ left < 5
  /\ at = "rest" => (left = 0 /\ g.state # "Died") \/ ~Parseable(g, left)

EndOf(s, n) == Len(StreamOf(SubSeq(s, 1, n)))
PlainUpto(s, n) == \A j \in DOMAIN s : j <= n => Plain(s[j])
BetweenAt(at, g) == at \in {"rest", "closed"} /\ g.err \notin NoError

LocatedAt(s, n, req, pos, arrived, at, g) ==
  PlainUpto(s, n) =>
    /\ n <= Len(s)
    /\ BetweenAt(at, g) \/ n = Len(s) =>
         /\ KeptUpto(s, n, req) /\ pos = EndOf(s, n) /\ at \in {"rest", "closed"}
         /\ Values(req.fields, <<"Host">>) = UNION {Values(s[i].fields, "Host") : i \in 1 .. n}
    /\ ~BetweenAt(at, g) /\ n < Len(s) /\ WellFormed(s[n + 1]) =>
         /\ Inside(s, n, req, s[n + 1], EndOf(s, n), pos - EndOf(s, n), g)
         /\ Paced(s[n + 1], g, arrived - pos, at)
RequestFields == {"method", "uri", "code", "error", "major", "minor", "keepAlive", "fields"}
Kind(req) == DOMAIN req = RequestFields /\ IsSequence(req.fields)
Located ==
  /\ IsSequence(answers) /\ Kind(request)
  /\ LocatedAt(script, Len(answers), request, readPos, received, pc, f)

-----------------------------------------------------------------------------
(* Recursive functions.                                                      *)

LEMMA NumberUptoIs ==
  ASSUME NEW digits \in Seq(Digits)
  PROVE  LET read == NumberUpto(digits)
         IN  /\ read[0] = 0 /\ read[Len(digits)] = Number(digits)
             /\ \A i \in 0 .. Len(digits) : read[i] \in Nat
             /\ \A i \in 1 .. Len(digits) : read[i] = 10 * read[i - 1] + DigitValue[digits[i]]
<1> DEFINE n == Len(digits)
           step == [p \in Nat \X (1 .. n) |-> 10 * p[1] + DigitValue[digits[p[2]]]]
           Reads(g) == g = [i \in 0 .. n |-> IF i = 0 THEN 0 ELSE 10 * g[i - 1] + DigitValue[digits[i]]]
           read == CHOOSE g : Reads(g)
<1>1. n \in Nat /\ \A i \in 1 .. n : DigitValue[digits[i]] \in Nat
  BY DigitsAreNumbers
<1>2. \A v \in Nat, i \in 1 .. n :
        step[<<v, i>>] = 10 * v + DigitValue[digits[i]] /\ step[<<v, i>>] \in Nat
  <2> HIDE DEF n
  <2> QED  BY <1>1
<1> HIDE DEF n, step
<1>3. PICK g : StepsUpto(g, Nat, 0, step, n)
  BY <1>1, <1>2, RecursionExists
<1>4. /\ g \in [0 .. n -> Nat] /\ g[0] = 0
      /\ \A i \in 1 .. n : g[i - 1] \in Nat /\ g[i] = step[<<g[i - 1], i>>]
  <2>1. g \in [0 .. n -> Nat] /\ g[0] = 0 /\ \A i \in 1 .. n : g[i] = step[<<g[i - 1], i>>]
    BY <1>3 DEF StepsUpto
  <2>2. \A i \in 1 .. n : i - 1 \in 0 .. n
    BY <1>1
  <2> QED  BY <2>1, <2>2
<1>5. \A i \in 0 .. n : i # 0 => i \in 1 .. n
  BY <1>1
<1>6. Reads(g)
  <2>1. \A i \in 0 .. n : g[i] = IF i = 0 THEN 0 ELSE 10 * g[i - 1] + DigitValue[digits[i]]
    BY <1>2, <1>4, <1>5
  <2> QED  BY <1>4, <2>1
<1>7. Reads(read)
  BY <1>6
<1>8. NumberUpto(digits) = read /\ Number(digits) = read[n]
  BY DEF NumberUpto, Number, n
<1> HIDE DEF read
<1>9. read[0] = 0 /\ \A i \in 1 .. n : read[i] = 10 * read[i - 1] + DigitValue[digits[i]]
  BY <1>1, <1>7
<1> DEFINE S == {i \in Nat : read[i] \in Nat}
<1>10. \A k \in 1 .. n : (k = 1 \/ k - 1 \in S) => k \in S
  BY <1>1, <1>9
<1> HIDE DEF S
<1>11. \A k \in 1 .. n : k \in S
  BY <1>1, <1>10, InductionUpto
<1>12. \A i \in 0 .. n : read[i] \in Nat
  BY <1>5, <1>9, <1>11 DEF S
<1> QED  BY <1>8, <1>9, <1>12 DEF n

LEMMA FieldAtIs ==
  ASSUME NEW r, Len(r.fields) \in Nat, FieldsAt(r) \in Nat,
         \A i \in 1 .. Len(r.fields) : Len(Value(r, i)) \in Nat
  PROVE  LET at == FieldAt(r)
         IN  /\ at[0] = FieldsAt(r)
             /\ \A i \in 0 .. Len(r.fields) : at[i] \in Nat /\ at[i] <= at[Len(r.fields)]
             /\ \A i \in 1 .. Len(r.fields) : at[i] = at[i - 1] + Len(Value(r, i)) + 5
<1> DEFINE n == Len(r.fields)
           start == FieldsAt(r)
           step == [p \in Nat \X (1 .. n) |-> p[1] + Len(Value(r, p[2])) + 5]
           Reads(g) == g = [i \in 0 .. n |-> IF i = 0 THEN start ELSE g[i - 1] + Len(Value(r, i)) + 5]
           at == CHOOSE g : Reads(g)
<1>1. n \in Nat /\ start \in Nat /\ \A i \in 1 .. n : Len(Value(r, i)) \in Nat
  OBVIOUS
<1>2. \A v \in Nat, i \in 1 .. n :
        step[<<v, i>>] = v + Len(Value(r, i)) + 5 /\ step[<<v, i>>] \in Nat
  <2> HIDE DEF n
  <2> QED  BY <1>1
<1> HIDE DEF n, step, start
<1>3. PICK g : StepsUpto(g, Nat, start, step, n)
  BY <1>1, <1>2, RecursionExists
<1>4. /\ g \in [0 .. n -> Nat] /\ g[0] = start
      /\ \A i \in 1 .. n : g[i - 1] \in Nat /\ g[i] = step[<<g[i - 1], i>>]
  <2>1. g \in [0 .. n -> Nat] /\ g[0] = start /\ \A i \in 1 .. n : g[i] = step[<<g[i - 1], i>>]
    BY <1>3 DEF StepsUpto
  <2>2. \A i \in 1 .. n : i - 1 \in 0 .. n
    BY <1>1
  <2> QED  BY <2>1, <2>2
<1>5. \A i \in 0 .. n : i # 0 => i \in 1 .. n
  BY <1>1
<1>6. Reads(g)
  <2>1. \A i \in 0 .. n : g[i] = IF i = 0 THEN start ELSE g[i - 1] + Len(Value(r, i)) + 5
    BY <1>2, <1>4, <1>5
  <2> QED  BY <1>4, <2>1
<1>7. Reads(at)
  BY <1>6
<1>8. FieldAt(r) = at
  BY DEF FieldAt, n, start
<1> HIDE DEF at
<1>9a. at[0] = start
  BY <1>1, <1>7
<1>9b. \A i \in 1 .. n : at[i] = at[i - 1] + Len(Value(r, i)) + 5
  BY <1>1, <1>7
<1>9. at[0] = start /\ \A i \in 1 .. n : at[i] = at[i - 1] + Len(Value(r, i)) + 5
  BY <1>9a, <1>9b
<1> DEFINE S == {i \in Nat : at[i] \in Nat}
<1>10. \A k \in 1 .. n : (k = 1 \/ k - 1 \in S) => k \in S
  BY <1>1, <1>9
<1>11. \A k \in 1 .. n : k \in S
  <2> HIDE DEF S
  <2> QED  BY <1>1, <1>10, InductionUpto
<1>12. \A i \in 0 .. n : at[i] \in Nat
  BY <1>1, <1>5, <1>9, <1>11
<1> HIDE DEF S
\* Offsets grow: going down from the last one.
<1> DEFINE T == {i \in Nat : i <= n => at[n - i] <= at[n]}
<1>13. 0 \in T
  BY <1>1, <1>12
<1>14. ASSUME NEW k \in Nat, k \in T PROVE k + 1 \in T
  <2>1. CASE k + 1 <= n
    <3> DEFINE i == n - k
    <3>1. i \in 1 .. n /\ n - (k + 1) = i - 1 /\ i - 1 \in 0 .. n /\ k <= n
      BY <1>1, <2>1
    <3>2. at[i] = at[i - 1] + Len(Value(r, i)) + 5
      BY <1>9, <3>1
    <3>3. at[i - 1] \in Nat /\ at[i] \in Nat /\ at[n] \in Nat /\ Len(Value(r, i)) \in Nat
      BY <1>1, <1>12, <3>1
    <3>4. at[i] <= at[n]
      BY <1>14, <3>1
    <3> HIDE DEF i
    <3>5. at[n - (k + 1)] <= at[n]
      BY <3>1, <3>2, <3>3, <3>4
    <3> QED  BY <3>5
  <2>2. CASE ~(k + 1 <= n)
    BY <2>2
  <2> QED  BY <2>1, <2>2
<1>15. \A k \in Nat : k \in T
  <2> HIDE DEF T
  <2> QED  BY <1>13, <1>14, Induction
<1>16. ASSUME NEW i \in 0 .. n PROVE at[i] <= at[n]
  <2>1. n - i \in Nat /\ n - i <= n /\ n - (n - i) = i
    BY <1>1
  <2> QED  BY <1>15, <2>1
<1> QED  BY <1>8, <1>9, <1>12, <1>16 DEF n, start

LEMMA PowersAre ==
  ASSUME NEW n \in Nat
  PROVE  \E p \in [0 .. n -> Nat] :
           /\ p[0] = 1 /\ p[n] = PowerOfTen(n)
           /\ \A i \in 1 .. n : p[i] = 10 * p[i - 1]
           /\ \A i \in 0 .. n : p[i] >= 1 /\ p[i] <= p[n]
<1> DEFINE step == [q \in Nat \X (1 .. n) |-> 10 * q[1]]
           Powers(g) == g = [i \in 0 .. n |-> IF i = 0 THEN 1 ELSE 10 * g[i - 1]]
           p == CHOOSE g : Powers(g)
<1>2. \A v \in Nat, i \in 1 .. n : step[<<v, i>>] = 10 * v /\ step[<<v, i>>] \in Nat
  OBVIOUS
<1> HIDE DEF step
<1>3. PICK g : StepsUpto(g, Nat, 1, step, n)
  BY <1>2, RecursionExists
<1>4. /\ g \in [0 .. n -> Nat] /\ g[0] = 1
      /\ \A i \in 1 .. n : g[i - 1] \in Nat /\ g[i] = step[<<g[i - 1], i>>]
  <2>1. g \in [0 .. n -> Nat] /\ g[0] = 1 /\ \A i \in 1 .. n : g[i] = step[<<g[i - 1], i>>]
    BY <1>3 DEF StepsUpto
  <2>2. \A i \in 1 .. n : i - 1 \in 0 .. n
    OBVIOUS
  <2> QED  BY <2>1, <2>2
<1>5. \A i \in 0 .. n : i # 0 => i \in 1 .. n
  OBVIOUS
<1>6. Powers(g)
  <2>1. \A i \in 0 .. n : g[i] = IF i = 0 THEN 1 ELSE 10 * g[i - 1]
    BY <1>2, <1>4, <1>5
  <2> QED  BY <1>4, <2>1
<1>7. Powers(p)
  BY <1>6
<1>8. PowerOfTen(n) = p[n]
  BY DEF PowerOfTen
<1> HIDE DEF p
<1>9a. p[0] = 1
  BY <1>7
<1>9b. \A i \in 1 .. n : p[i] = 10 * p[i - 1]
  BY <1>7
<1> DEFINE S == {i \in Nat : p[i] \in Nat /\ p[i] >= 1}
<1>10. \A k \in 1 .. n : (k = 1 \/ k - 1 \in S) => k \in S
  <2> TAKE k \in 1 .. n
  <2>1. CASE k = 1
    <3>1. p[k] = 10 * p[0]
      BY <1>9b, <2>1
    <3> QED  BY <1>9a, <3>1
  <2>2. CASE k - 1 \in S
    BY <1>9b, <2>2
  <2> QED  BY <2>1, <2>2
<1>11. \A k \in 1 .. n : k \in S
  <2> HIDE DEF S
  <2> QED  BY <1>10, InductionUpto
<1>12. \A i \in 0 .. n : p[i] \in Nat /\ p[i] >= 1
  BY <1>5, <1>9a, <1>11
<1> HIDE DEF S
<1> DEFINE T == {i \in Nat : i <= n => p[n - i] <= p[n]}
<1>13. 0 \in T
  BY <1>12
<1>14. ASSUME NEW k \in Nat, k \in T PROVE k + 1 \in T
  <2>1. CASE k + 1 <= n
    <3> DEFINE i == n - k
    <3>1. i \in 1 .. n /\ n - (k + 1) = i - 1 /\ i - 1 \in 0 .. n /\ k <= n
      BY <2>1
    <3>2. p[i] = 10 * p[i - 1]
      BY <1>9b, <3>1
    <3>3. p[i - 1] \in Nat /\ p[i] \in Nat /\ p[n] \in Nat
      BY <1>12, <3>1
    <3>4. p[i] <= p[n]
      BY <1>14, <3>1
    <3> HIDE DEF i
    <3>5. p[n - (k + 1)] <= p[n]
      BY <3>1, <3>2, <3>3, <3>4
    <3> QED  BY <3>5
  <2>2. CASE ~(k + 1 <= n)
    BY <2>2
  <2> QED  BY <2>1, <2>2
<1>15. \A k \in Nat : k \in T
  <2> HIDE DEF T
  <2> QED  BY <1>13, <1>14, Induction
<1>16. ASSUME NEW i \in 0 .. n PROVE p[i] <= p[n]
  <2>1. n - i \in Nat /\ n - i <= n /\ n - (n - i) = i
    OBVIOUS
  <2> QED  BY <1>15, <2>1
<1>17. p \in [0 .. n -> Nat]
  <2>1. p = [i \in 0 .. n |-> p[i]]
    BY <1>7
  <2> QED  BY <1>12, <2>1
<1> QED  BY <1>8, <1>9a, <1>9b, <1>12, <1>16, <1>17

LEMMA NotWrapped == \A n \in IntRange : Wrapped(n) = n
<1> SUFFICES ASSUME NEW n \in IntRange PROVE Wrapped(n) = n
  OBVIOUS
<1> DEFINE h == IntMax + 1
           m == n + h
<1>1. h \in Nat \ {0} /\ IntMax = h - 1 /\ m \in Nat /\ m < 2 * h /\ n \in Int
  BY WidthAssumption DEF IntRange
<1> HIDE DEF h
<1>2. m % (2 * h) = m
  <2> DEFINE w == 2 * h
  <2>1. w \in Nat \ {0} /\ m < w
    BY <1>1
  <2> HIDE DEF w, m
  <2>2. m % w = m
    BY <1>1, <2>1
  <2> QED  BY <2>2 DEF w
<1>3. Wrapped(n) = (m % (2 * h)) - IntMax - 1
  <2>1. n + IntMax + 1 = m /\ IntMax + 1 = h
    BY <1>1
  <2> HIDE DEF m
  <2> QED  BY <2>1 DEF Wrapped
<1> QED  BY <1>1, <1>2, <1>3

LEMMA DigitsAre ==
  \A d \in Digits : DigitValue[d] \in Nat /\ DigitValue[d] <= 9 /\ (DigitValue[d] = 9 <=> d = "9")
BY DEF Digits, DigitValue

\* What is read of the first k bytes of a Content-Length, when int is wide
\* enough: a negative number, and -1 when only nines follow the last byte that
\* is no digit.
NinesUpto(value, i) ==
  \E k \in 0 .. i : /\ k = 0 \/ value[k] \notin Digits
                    /\ \A l \in k + 1 .. i : value[l] = "9"

LEMMA NinesStep ==
  ASSUME NEW value, NEW i \in Nat \ {0}
  PROVE  /\ value[i] \notin Digits => NinesUpto(value, i)
         /\ value[i] \in Digits => (NinesUpto(value, i) <=> NinesUpto(value, i - 1) /\ value[i] = "9")
<1>1. ASSUME value[i] \notin Digits PROVE NinesUpto(value, i)
  <2>1. i \in 0 .. i /\ \A l \in i + 1 .. i : value[l] = "9"
    OBVIOUS
  <2> QED  BY <1>1, <2>1 DEF NinesUpto
<1>2. ASSUME value[i] \in Digits, NinesUpto(value, i)
      PROVE  NinesUpto(value, i - 1) /\ value[i] = "9"
  <2>1. PICK k \in 0 .. i : (k = 0 \/ value[k] \notin Digits) /\ \A l \in k + 1 .. i : value[l] = "9"
    BY <1>2 DEF NinesUpto
  <2>2. k \in 0 .. i - 1 /\ i \in k + 1 .. i
    BY <1>2, <2>1
  <2>3. \A l \in k + 1 .. i - 1 : l \in k + 1 .. i
    BY <2>1
  <2> QED  BY <2>1, <2>2, <2>3 DEF NinesUpto
<1>3. ASSUME value[i] = "9", NinesUpto(value, i - 1)
      PROVE  NinesUpto(value, i)
  <2>1. PICK k \in 0 .. i - 1 :
          (k = 0 \/ value[k] \notin Digits) /\ \A l \in k + 1 .. i - 1 : value[l] = "9"
    BY <1>3 DEF NinesUpto
  <2>2. \A l \in k + 1 .. i : l = i \/ l \in k + 1 .. i - 1
    BY <2>1
  <2>3. k \in 0 .. i
    BY <2>1
  <2> QED  BY <1>3, <2>1, <2>2, <2>3 DEF NinesUpto
<1> QED  BY <1>1, <1>2, <1>3

LEMMA NegativeDigit ==
  ASSUME NEW v \in Int, NEW p \in Nat, NEW d \in Nat, p >= 1, d <= 9, v < 0, -p <= v
  PROVE  LET w == 10 * v + d
         IN  w \in Int /\ w < 0 /\ -(10 * p) <= w /\ (w = -1 <=> v = -1 /\ d = 9)
OBVIOUS

LEMMA LengthReadIs ==
  ASSUME NEW value, Len(value) \in Nat, PowerOfTen(Len(value)) <= IntMax + 1
  PROVE  LengthRead(-1, value) < 0 /\ (LengthRead(-1, value) = -1 <=> LengthRefused(value))
<1> DEFINE n == Len(value)
<1>0. n \in Nat /\ IntMax \in Nat /\ -1 \in IntRange
  BY WidthAssumption, MinusOneInRange
<1>1. PICK read :
        /\ read[0] = -1 /\ LengthRead(-1, value) = read[n]
        /\ \A i \in 0 .. n : read[i] \in IntRange
        /\ \A i \in 1 .. n : read[i] = IF value[i] \in Digits
                                       THEN Wrapped(10 * read[i - 1] + DigitValue[value[i]]) ELSE -1
  BY <1>0, LengthReadSteps
<1>2. PICK p \in [0 .. n -> Nat] :
        /\ p[0] = 1 /\ p[n] = PowerOfTen(n)
        /\ \A i \in 1 .. n : p[i] = 10 * p[i - 1]
        /\ \A i \in 0 .. n : p[i] >= 1 /\ p[i] <= p[n]
  BY <1>0, PowersAre
<1>3. p[n] <= IntMax + 1
  BY <1>2
<1> HIDE DEF n
<1> DEFINE Good(i) == read[i] \in Int /\ read[i] < 0 /\ -p[i] <= read[i]
                      /\ (read[i] = -1 <=> NinesUpto(value, i))
           S == {i \in Nat : Good(i)}
<1>4. Good(0)
  <2>1. 0 \in 0 .. 0 /\ \A l \in 0 + 1 .. 0 : value[l] = "9"
    OBVIOUS
  <2>2. NinesUpto(value, 0)
    BY <2>1 DEF NinesUpto
  <2> QED  BY <1>1, <1>2, <2>2
<1>5. ASSUME NEW i \in 1 .. n, Good(i - 1) PROVE Good(i)
  <2>1. i - 1 \in 0 .. n /\ i \in 0 .. n /\ i \in Nat \ {0}
    BY <1>0
  <2>2. p[i - 1] \in Nat /\ p[i - 1] >= 1 /\ p[i] = 10 * p[i - 1] /\ p[i] <= IntMax + 1
        /\ p[n] \in Nat /\ p[i] \in Nat
    BY <1>0, <1>2, <1>3, <2>1
  <2>3. CASE value[i] \in Digits
    <3> DEFINE d == DigitValue[value[i]]
               v == read[i - 1]
               w == 10 * v + d
    <3>1. d \in Nat /\ d <= 9 /\ (d = 9 <=> value[i] = "9")
      BY <2>3, DigitsAre
    <3>2. v \in Int /\ v < 0 /\ -p[i - 1] <= v /\ (v = -1 <=> NinesUpto(value, i - 1))
      BY <1>5
    <3>3. read[i] = Wrapped(w)
      BY <1>1, <2>3
    <3> HIDE DEF d, v
    <3>4. w \in Int /\ w < 0 /\ -(10 * p[i - 1]) <= w /\ (w = -1 <=> v = -1 /\ d = 9)
      BY <2>2, <3>1, <3>2, NegativeDigit
    <3> HIDE DEF w
    <3>5. w \in IntRange
      BY <1>0, <2>2, <3>4 DEF IntRange
    <3>6. read[i] = w
      BY <3>3, <3>5, NotWrapped
    <3>7. NinesUpto(value, i) <=> NinesUpto(value, i - 1) /\ value[i] = "9"
      BY <2>1, <2>3, NinesStep
    <3>8. w = -1 <=> NinesUpto(value, i)
      BY <3>1, <3>2, <3>4, <3>7
    <3> QED  BY <2>2, <3>4, <3>6, <3>8
  <2>4. CASE value[i] \notin Digits
    <3>1. read[i] = -1
      BY <1>1, <2>4
    <3>2. NinesUpto(value, i)
      BY <2>1, <2>4, NinesStep
    <3> QED  BY <2>2, <3>1, <3>2
  <2> QED  BY <2>3, <2>4
<1>6. \A k \in 1 .. n : (k = 1 \/ k - 1 \in S) => k \in S
  <2> TAKE k \in 1 .. n
  <2>1. CASE k = 1
    <3>1. k - 1 = 0
      BY <2>1
    <3>2. Good(k - 1)
      BY <1>4, <3>1
    <3> HIDE DEF Good
    <3> QED  BY <1>5, <3>2
  <2>2. CASE k - 1 \in S
    <3> HIDE DEF Good
    <3> QED  BY <1>5, <2>2
  <2> QED  BY <2>1, <2>2
<1>7. \A k \in 1 .. n : k \in S
  <2> HIDE DEF S
  <2> QED  BY <1>0, <1>6, InductionUpto
<1>8. Good(n)
  <2>1. n = 0 \/ n \in 1 .. n
    BY <1>0
  <2> HIDE DEF Good
  <2> QED  BY <1>4, <1>7, <2>1
<1>9. NinesUpto(value, n) <=> LengthRefused(value)
  BY DEF NinesUpto, LengthRefused, n
<1> QED  BY <1>1, <1>8, <1>9

-----------------------------------------------------------------------------
(* The bytes of a well-formed request.                                       *)

Sized(r) ==
  /\ Len(r.method) \in Nat \ {0} /\ Len(r.uri) \in Nat \ {0}
  /\ Len(r.major) \in Nat \ {0} /\ Len(r.minor) \in Nat
  /\ Len(r.fields) \in Nat /\ Len(r.content) \in Nat
  /\ \A i \in 1 .. Len(r.fields) : Len(Value(r, i)) \in Nat

Line(r, e) ==
  /\ \A i \in 1 .. Len(r.method) : e[i] = r.method[i]
  /\ e[UriAt(r)] = "SP"
  /\ \A i \in 1 .. Len(r.uri) : e[UriAt(r) + i] = r.uri[i]
  /\ e[VersionAt(r) - 5] = "SP" /\ e[VersionAt(r) - 4] = "H" /\ e[VersionAt(r) - 3] = "T"
  /\ e[VersionAt(r) - 2] = "T" /\ e[VersionAt(r) - 1] = "P" /\ e[VersionAt(r)] = "/"
  /\ \A i \in 1 .. Len(r.major) : e[VersionAt(r) + i] = r.major[i]
  /\ e[MinorAt(r)] = "."
  /\ \A i \in 1 .. Len(r.minor) : e[MinorAt(r) + i] = r.minor[i]
  /\ e[FieldsAt(r) - 1] = "CR" /\ e[FieldsAt(r)] = "LF"

FieldLaid(r, e, i, at) ==
  /\ e[at + 1] = Name(r, i) /\ e[at + 2] = ":" /\ e[at + 3] = "SP"
  /\ \A l \in 1 .. Len(Value(r, i)) : e[at + 3 + l] = Value(r, i)[l]
  /\ e[at + 4 + Len(Value(r, i))] = "CR" /\ e[at + 5 + Len(Value(r, i))] = "LF"

Laid(r, e) ==
  /\ Line(r, e)
  /\ \A i \in 1 .. Len(r.fields) : FieldLaid(r, e, i, FieldAt(r)[i - 1])
  /\ e[HeadEnd(r) - 1] = "CR" /\ e[HeadEnd(r)] = "LF"

LEMMA SizedIs == ASSUME NEW r \in Request, WellFormed(r) PROVE Sized(r)
<1>1. r.fields \in Seq(Byte \X Seq(Byte)) /\ r.content \in Seq(Byte)
  BY DEF Request
<1>2. \A i \in 1 .. Len(r.fields) : Value(r, i) \in Seq(ValueBytes)
  BY <1>1 DEF WellFormed, Value
<1>3. /\ r.method \in Seq(Letters) /\ r.method # <<>> /\ r.uri \in Seq(UriBytes) /\ r.uri # <<>>
      /\ r.major \in Seq(Digits) /\ r.major # <<>> /\ r.minor \in Seq(Digits)
  BY DEF WellFormed
<1>4. Len(r.method) \in Nat \ {0} /\ Len(r.uri) \in Nat \ {0} /\ Len(r.major) \in Nat \ {0}
  BY <1>3
<1>5. \A i \in 1 .. Len(r.fields) : Len(Value(r, i)) \in Nat
  BY <1>2
<1> QED  BY <1>1, <1>3, <1>4, <1>5 DEF Sized

\* What one more piece does to a sequence.
LEMMA OneMore ==
  ASSUME NEW s \in Seq(Byte), NEW t \in Seq(Byte)
  PROVE  /\ s \o t \in Seq(Byte) /\ Len(s \o t) = Len(s) + Len(t)
         /\ Len(s) \in Nat /\ Len(t) \in Nat
         /\ \A i \in 1 .. Len(s) : (s \o t)[i] = s[i]
         /\ \A i \in 1 .. Len(t) : (s \o t)[Len(s) + i] = t[i]
<1>1. s \o t \in Seq(Byte) /\ Len(s) \in Nat /\ Len(t) \in Nat /\ Len(s \o t) = Len(s) + Len(t)
  OBVIOUS
<1>2. \A i \in 1 .. Len(s) : (s \o t)[i] = s[i]
  OBVIOUS
<1>3. \A i \in 1 .. Len(t) : (s \o t)[Len(s) + i] = t[i]
  OBVIOUS
<1> QED  BY <1>1, <1>2, <1>3

LEMMA Longer ==
  ASSUME NEW s \in Seq(Byte), NEW t \in Seq(Byte)
  PROVE  s \o t \in Seq(Byte) /\ Len(s \o t) = Len(s) + Len(t)
BY OneMore

\* The same bytes, in a longer sequence.
Follows(t, e, at) == \A i \in 1 .. Len(t) : e[at + i] = t[i]
Begins(s, e) == s \in Seq(Byte) /\ Len(s) <= Len(e) /\ \A i \in 1 .. Len(s) : e[i] = s[i]
LEMMA BeginsLess ==
  ASSUME NEW s \in Seq(Byte), NEW t \in Seq(Byte), NEW e, Len(e) \in Nat, Begins(s \o t, e)
  PROVE  Begins(s, e) /\ Follows(t, e, Len(s))
<1> DEFINE u == s \o t
<1>1. /\ Len(u) = Len(s) + Len(t) /\ Len(s) \in Nat /\ Len(t) \in Nat
      /\ \A i \in 1 .. Len(s) : u[i] = s[i]
      /\ \A i \in 1 .. Len(t) : u[Len(s) + i] = t[i]
  BY OneMore
<1> HIDE DEF u
<1>2. Len(u) <= Len(e) /\ \A i \in 1 .. Len(u) : e[i] = u[i]
  BY DEF Begins, u
<1>3. \A i \in 1 .. Len(s) : i \in 1 .. Len(u)
  BY <1>1
<1>4. \A i \in 1 .. Len(t) : Len(s) + i \in 1 .. Len(u)
  BY <1>1
<1> QED  BY <1>1, <1>2, <1>3, <1>4 DEF Begins, Follows

HeadOf(r) == r.method \o <<"SP">> \o r.uri \o <<"SP", "H", "T", "T", "P", "/">>
             \o r.major \o <<".">> \o r.minor \o CRLF
FieldsOf(r) == [i \in DOMAIN r.fields |-> Field(r.fields[i][1], r.fields[i][2])]

LEMMA BytesAre ==
  /\ Letters \subseteq Byte /\ UriBytes \subseteq Byte /\ Digits \subseteq Byte
  /\ ValueBytes \subseteq Byte /\ NameBytes \subseteq Byte
  /\ CRLF \in Seq(Byte) /\ <<".">> \in Seq(Byte) /\ <<"SP">> \in Seq(Byte)
  /\ <<"SP", "H", "T", "T", "P", "/">> \in Seq(Byte)
<1>1. /\ Letters \subseteq NameBytes /\ Digits \subseteq NameBytes /\ NameBytes \subseteq UriBytes
      /\ UriBytes \subseteq ValueBytes /\ ValueBytes \subseteq Byte
  BY DEF NameBytes, UriBytes, ValueBytes, Byte
<1>2. CRLF \in Seq(Byte) /\ <<".">> \in Seq(Byte) /\ <<"SP">> \in Seq(Byte)
  BY DEF CRLF, Byte, ValueBytes, UriBytes
<1>3. <<"SP", "H", "T", "T", "P", "/">> \in Seq(Byte)
  BY DEF Byte, ValueBytes, UriBytes, NameBytes, Letters
<1> QED  BY <1>1, <1>2, <1>3

LEMMA PartsTyped ==
  ASSUME NEW r \in Request, WellFormed(r)
  PROVE  /\ r.method \in Seq(Byte) /\ r.uri \in Seq(Byte) /\ r.major \in Seq(Byte)
         /\ r.minor \in Seq(Byte) /\ r.content \in Seq(Byte)
         /\ FieldsOf(r) \in Seq(Seq(Byte)) /\ Len(FieldsOf(r)) = Len(r.fields)
         /\ \A i \in 1 .. Len(r.fields) :
              /\ Name(r, i) \in Byte /\ Value(r, i) \in Seq(Byte)
              /\ FieldsOf(r)[i] = Field(Name(r, i), Value(r, i))
              /\ Field(Name(r, i), Value(r, i)) \in Seq(Byte)
<1>1. /\ r.method \in Seq(Byte) /\ r.uri \in Seq(Byte) /\ r.major \in Seq(Byte)
      /\ r.minor \in Seq(Byte) /\ r.content \in Seq(Byte) /\ r.fields \in Seq(Byte \X Seq(Byte))
  BY DEF Request
<1>2. DOMAIN r.fields = 1 .. Len(r.fields) /\ Len(r.fields) \in Nat
  BY <1>1
<1>3. \A i \in 1 .. Len(r.fields) : Name(r, i) \in Byte /\ Value(r, i) \in Seq(Byte)
  BY <1>1, <1>2 DEF Name, Value
<1>4. ASSUME NEW n \in Byte, NEW v \in Seq(Byte) PROVE Field(n, v) \in Seq(Byte)
  <2>1. <<n, ":", "SP">> \in Seq(Byte) /\ CRLF \in Seq(Byte)
    BY BytesAre DEF Byte, ValueBytes, UriBytes
  <2>2. <<n, ":", "SP">> \o v \o CRLF \in Seq(Byte)
    BY <2>1
  <2> QED  BY <2>2 DEF Field
<1>5. \A i \in 1 .. Len(r.fields) :
        FieldsOf(r)[i] = Field(Name(r, i), Value(r, i)) /\ Field(Name(r, i), Value(r, i)) \in Seq(Byte)
  BY <1>2, <1>3, <1>4 DEF FieldsOf, Name, Value
<1>6. FieldsOf(r) \in Seq(Seq(Byte)) /\ Len(FieldsOf(r)) = Len(r.fields)
  <2> DEFINE n == Len(r.fields)
             F(i) == Field(r.fields[i][1], r.fields[i][2])
  <2>1. FieldsOf(r) = [i \in 1 .. n |-> F(i)]
    BY <1>2 DEF FieldsOf
  <2>2. \A i \in 1 .. n : F(i) \in Seq(Byte)
    BY <1>5 DEF Name, Value
  <2>3. n \in Nat
    BY <1>2
  <2> HIDE DEF n, F
  <2>4. FieldsOf(r) \in Seq(Seq(Byte)) /\ Len(FieldsOf(r)) = n
    BY <2>1, <2>2, <2>3
  <2> QED  BY <2>4 DEF n
<1> QED  BY <1>1, <1>3, <1>5, <1>6

\* The parts of a request, as long as they are, one behind the other.
LEMMA LineLaid ==
  ASSUME NEW r \in Request, WellFormed(r), NEW e, Len(e) \in Nat, Begins(HeadOf(r), e)
  PROVE  HeadOf(r) \in Seq(Byte) /\ Len(HeadOf(r)) = FieldsAt(r) /\ Line(r, e)
<1> DEFINE sp == <<"SP">>
           http == <<"SP", "H", "T", "T", "P", "/">>
           dot == <<".">>
           a == r.method
           b == a \o sp
           c == b \o r.uri
           d == c \o http
           g == d \o r.major
           h == g \o dot
           k == h \o r.minor
           l == k \o CRLF
<1>0. /\ r.method \in Seq(Byte) /\ r.uri \in Seq(Byte) /\ r.major \in Seq(Byte) /\ r.minor \in Seq(Byte)
      /\ CRLF \in Seq(Byte) /\ dot \in Seq(Byte) /\ sp \in Seq(Byte) /\ http \in Seq(Byte)
  BY PartsTyped, BytesAre
<1>1. Len(CRLF) = 2 /\ Len(dot) = 1 /\ Len(sp) = 1 /\ Len(http) = 6
  BY DEF CRLF
<1>2. /\ CRLF[1] = "CR" /\ CRLF[2] = "LF" /\ dot[1] = "." /\ sp[1] = "SP"
      /\ http[1] = "SP" /\ http[2] = "H" /\ http[3] = "T" /\ http[4] = "T" /\ http[5] = "P"
      /\ http[6] = "/"
  BY DEF CRLF
<1>3. HeadOf(r) = l
  BY DEF HeadOf
<1> HIDE DEF sp, http, dot, l
<1>b. b \in Seq(Byte) /\ Len(b) = Len(r.method) + Len(sp)
  <2>1. r.method \in Seq(Byte)
    BY <1>0
  <2>2. sp \in Seq(Byte)
    BY <1>0
  <2> QED  BY <2>1, <2>2, Longer
<1> HIDE DEF b
<1>c. c \in Seq(Byte) /\ Len(c) = Len(b) + Len(r.uri)
  <2>1. b \in Seq(Byte)
    BY <1>0, <1>b
  <2>2. r.uri \in Seq(Byte)
    BY <1>0
  <2> QED  BY <2>1, <2>2, Longer
<1> HIDE DEF c
<1>d. d \in Seq(Byte) /\ Len(d) = Len(c) + Len(http)
  <2>1. c \in Seq(Byte)
    BY <1>0, <1>c
  <2>2. http \in Seq(Byte)
    BY <1>0
  <2> QED  BY <2>1, <2>2, Longer
<1> HIDE DEF d
<1>g. g \in Seq(Byte) /\ Len(g) = Len(d) + Len(r.major)
  <2>1. d \in Seq(Byte)
    BY <1>0, <1>d
  <2>2. r.major \in Seq(Byte)
    BY <1>0
  <2> QED  BY <2>1, <2>2, Longer
<1> HIDE DEF g
<1>h. h \in Seq(Byte) /\ Len(h) = Len(g) + Len(dot)
  <2>1. g \in Seq(Byte)
    BY <1>0, <1>g
  <2>2. dot \in Seq(Byte)
    BY <1>0
  <2> QED  BY <2>1, <2>2, Longer
<1> HIDE DEF h
<1>k. k \in Seq(Byte) /\ Len(k) = Len(h) + Len(r.minor)
  <2>1. h \in Seq(Byte)
    BY <1>0, <1>h
  <2>2. r.minor \in Seq(Byte)
    BY <1>0
  <2> QED  BY <2>1, <2>2, Longer
<1> HIDE DEF k
<1>l. l \in Seq(Byte) /\ Len(l) = Len(k) + Len(CRLF)
  <2>1. k \in Seq(Byte)
    BY <1>0, <1>k
  <2>2. CRLF \in Seq(Byte)
    BY <1>0
  <2> QED  BY <2>1, <2>2, Longer DEF l
<1>4. /\ Len(b) = UriAt(r) /\ Len(c) = VersionAt(r) - 6 /\ Len(d) = VersionAt(r)
      /\ Len(g) = MinorAt(r) - 1 /\ Len(h) = MinorAt(r) /\ Len(k) = FieldsAt(r) - 2
      /\ Len(l) = FieldsAt(r) /\ Len(r.method) = UriAt(r) - 1
      /\ UriAt(r) \in Nat /\ VersionAt(r) \in Nat /\ MinorAt(r) \in Nat /\ FieldsAt(r) \in Nat
  <2>0. /\ Len(r.method) \in Nat /\ Len(r.uri) \in Nat /\ Len(r.major) \in Nat /\ Len(r.minor) \in Nat
    BY SizedIs DEF Sized
  <2>1. Len(b) = UriAt(r) /\ UriAt(r) \in Nat /\ Len(r.method) = UriAt(r) - 1
    BY <1>b, <1>1, <2>0 DEF UriAt
  <2>2. Len(c) = VersionAt(r) - 6 /\ VersionAt(r) \in Nat
    BY <1>c, <2>0, <2>1 DEF VersionAt
  <2>3. Len(d) = VersionAt(r)
    BY <1>d, <1>1, <2>2
  <2>4. Len(g) = MinorAt(r) - 1 /\ MinorAt(r) \in Nat
    BY <1>g, <2>0, <2>2, <2>3 DEF MinorAt
  <2>5. Len(h) = MinorAt(r)
    BY <1>h, <1>1, <2>4
  <2>6. Len(k) = FieldsAt(r) - 2 /\ FieldsAt(r) \in Nat
    BY <1>k, <2>0, <2>4, <2>5 DEF FieldsAt
  <2>7. Len(l) = FieldsAt(r)
    BY <1>l, <1>1, <2>6
  <2> QED  BY <2>1, <2>2, <2>3, <2>4, <2>5, <2>6, <2>7
<1>5. Begins(k, e) /\ Follows(CRLF, e, Len(k))
  <2>1. Begins(k \o CRLF, e)
    BY <1>3 DEF l
  <2> QED  BY <1>0, <2>1, <1>k, BeginsLess
<1>6. Begins(h, e) /\ Follows(r.minor, e, Len(h))
  <2>1. Begins(h \o r.minor, e)
    BY <1>5 DEF k
  <2> QED  BY <1>0, <2>1, <1>h, BeginsLess
<1>7. Begins(g, e) /\ Follows(dot, e, Len(g))
  <2>1. Begins(g \o dot, e)
    BY <1>6 DEF h
  <2> QED  BY <1>0, <2>1, <1>g, BeginsLess
<1>8. Begins(d, e) /\ Follows(r.major, e, Len(d))
  <2>1. Begins(d \o r.major, e)
    BY <1>7 DEF g
  <2> QED  BY <1>0, <2>1, <1>d, BeginsLess
<1>9. Begins(c, e) /\ Follows(http, e, Len(c))
  <2>1. Begins(c \o http, e)
    BY <1>8 DEF d
  <2> QED  BY <1>0, <2>1, <1>c, BeginsLess
<1>10. Begins(b, e) /\ Follows(r.uri, e, Len(b))
  <2>1. Begins(b \o r.uri, e)
    BY <1>9 DEF c
  <2> QED  BY <1>0, <2>1, <1>b, BeginsLess
<1>11. Begins(r.method, e) /\ Follows(sp, e, Len(r.method))
  <2>1. Begins(r.method \o sp, e)
    BY <1>10 DEF b
  <2> QED  BY <1>0, <2>1, BeginsLess
<1>12. e[FieldsAt(r) - 1] = "CR" /\ e[FieldsAt(r)] = "LF"
  <2>1. 1 \in 1 .. Len(CRLF) /\ 2 \in 1 .. Len(CRLF)
        /\ Len(k) + 1 = FieldsAt(r) - 1 /\ Len(k) + 2 = FieldsAt(r)
    BY <1>1, <1>4
  <2> QED  BY <1>2, <1>5, <2>1 DEF Follows
<1>13. e[MinorAt(r)] = "."
  <2>1. 1 \in 1 .. Len(dot) /\ Len(g) + 1 = MinorAt(r)
    BY <1>1, <1>4
  <2> QED  BY <1>2, <1>7, <2>1 DEF Follows
<1>14. /\ e[VersionAt(r) - 5] = "SP" /\ e[VersionAt(r) - 4] = "H" /\ e[VersionAt(r) - 3] = "T"
       /\ e[VersionAt(r) - 2] = "T" /\ e[VersionAt(r) - 1] = "P" /\ e[VersionAt(r)] = "/"
  <2>1. /\ 1 \in 1 .. Len(http) /\ 2 \in 1 .. Len(http) /\ 3 \in 1 .. Len(http)
        /\ 4 \in 1 .. Len(http) /\ 5 \in 1 .. Len(http) /\ 6 \in 1 .. Len(http)
        /\ Len(c) + 1 = VersionAt(r) - 5 /\ Len(c) + 2 = VersionAt(r) - 4
        /\ Len(c) + 3 = VersionAt(r) - 3 /\ Len(c) + 4 = VersionAt(r) - 2
        /\ Len(c) + 5 = VersionAt(r) - 1 /\ Len(c) + 6 = VersionAt(r)
    <3>1. /\ Len(c) + 1 = VersionAt(r) - 5 /\ Len(c) + 2 = VersionAt(r) - 4
          /\ Len(c) + 3 = VersionAt(r) - 3 /\ Len(c) + 4 = VersionAt(r) - 2
          /\ Len(c) + 5 = VersionAt(r) - 1 /\ Len(c) + 6 = VersionAt(r)
      <4>1. Len(c) \in Nat /\ VersionAt(r) \in Nat /\ Len(c) = VersionAt(r) - 6
        BY <1>4, <1>c
      <4> QED  BY <4>1
    <3>2. /\ 1 \in 1 .. Len(http) /\ 2 \in 1 .. Len(http) /\ 3 \in 1 .. Len(http)
          /\ 4 \in 1 .. Len(http) /\ 5 \in 1 .. Len(http) /\ 6 \in 1 .. Len(http)
      BY <1>1
    <3> QED  BY <3>1, <3>2
  <2> QED  BY <1>2, <1>9, <2>1 DEF Follows
<1>15. e[UriAt(r)] = "SP"
  <2>1. 1 \in 1 .. Len(sp) /\ Len(r.method) + 1 = UriAt(r)
    BY <1>1, <1>4
  <2> QED  BY <1>2, <1>11, <2>1 DEF Follows
<1>16. \A i \in 1 .. Len(r.method) : e[i] = r.method[i]
  BY <1>11 DEF Begins
<1> QED  BY <1>3, <1>4, <1>6, <1>8, <1>10, <1>12, <1>13, <1>14, <1>15, <1>16, <1>l DEF Line, Follows

\* How many bytes one field, and what comes up to it, take.
LEMMA FieldIs ==
  ASSUME NEW n \in Byte, NEW v \in Seq(Byte)
  PROVE  LET x == Field(n, v)
         IN  /\ Len(x) = Len(v) + 5 /\ x[1] = n /\ x[2] = ":" /\ x[3] = "SP"
             /\ \A l \in 1 .. Len(v) : x[3 + l] = v[l]
             /\ x[4 + Len(v)] = "CR" /\ x[5 + Len(v)] = "LF"
<1> DEFINE u == <<n, ":", "SP">>
           w == u \o v
           x == w \o CRLF
<1>1. /\ u \in Seq(Byte) /\ Len(u) = 3 /\ u[1] = n /\ u[2] = ":" /\ u[3] = "SP"
      /\ CRLF \in Seq(Byte) /\ Len(CRLF) = 2 /\ CRLF[1] = "CR" /\ CRLF[2] = "LF"
  BY BytesAre DEF Byte, ValueBytes, UriBytes, CRLF
<1> HIDE DEF u
<1>2. /\ w \in Seq(Byte) /\ Len(w) = 3 + Len(v) /\ Len(v) \in Nat
      /\ \A i \in 1 .. 3 : w[i] = u[i]
      /\ \A l \in 1 .. Len(v) : w[3 + l] = v[l]
  <2>1. /\ w \in Seq(Byte) /\ Len(w) = Len(u) + Len(v) /\ Len(v) \in Nat
        /\ \A i \in 1 .. Len(u) : w[i] = u[i]
        /\ \A l \in 1 .. Len(v) : w[Len(u) + l] = v[l]
    BY <1>1, OneMore
  <2> HIDE DEF w
  <2> QED  BY <1>1, <2>1
<1> HIDE DEF w
<1>3. /\ Len(x) = 3 + Len(v) + 2
      /\ \A i \in 1 .. Len(w) : x[i] = w[i]
      /\ \A i \in 1 .. 2 : x[Len(w) + i] = CRLF[i]
  <2>1. /\ Len(x) = Len(w) + Len(CRLF)
        /\ \A i \in 1 .. Len(w) : x[i] = w[i]
        /\ \A l \in 1 .. Len(CRLF) : x[Len(w) + l] = CRLF[l]
    BY <1>1, <1>2, OneMore
  <2> HIDE DEF x
  <2> QED  BY <1>1, <1>2, <2>1
<1> HIDE DEF x
<1>4. x[1] = n /\ x[2] = ":" /\ x[3] = "SP"
  <2>1. 1 \in 1 .. Len(w) /\ 2 \in 1 .. Len(w) /\ 3 \in 1 .. Len(w)
    BY <1>2
  <2> QED  BY <1>1, <1>2, <1>3, <2>1
<1>5. \A l \in 1 .. Len(v) : x[3 + l] = v[l]
  <2>1. \A l \in 1 .. Len(v) : 3 + l \in 1 .. Len(w)
    BY <1>2
  <2> QED  BY <1>2, <1>3, <2>1
<1>6. x[4 + Len(v)] = "CR" /\ x[5 + Len(v)] = "LF"
  <2>1. 4 + Len(v) = Len(w) + 1 /\ 5 + Len(v) = Len(w) + 2 /\ 1 \in 1 .. 2 /\ 2 \in 1 .. 2
    BY <1>2
  <2> QED  BY <1>1, <1>3, <2>1
<1>7. Field(n, v) = x
  BY DEF Field, x, w, u
<1> QED  BY <1>2, <1>3, <1>4, <1>5, <1>6, <1>7

LEMMA FieldsAtIs ==
  ASSUME NEW r \in Request, WellFormed(r)
  PROVE  /\ UriAt(r) \in Nat /\ VersionAt(r) \in Nat /\ MinorAt(r) \in Nat /\ FieldsAt(r) \in Nat
         /\ FieldAt(r)[0] = FieldsAt(r)
         /\ \A i \in 0 .. Len(r.fields) :
              FieldAt(r)[i] \in Nat /\ FieldAt(r)[i] <= FieldAt(r)[Len(r.fields)]
         /\ \A i \in 1 .. Len(r.fields) : FieldAt(r)[i] = FieldAt(r)[i - 1] + Len(Value(r, i)) + 5
<1>0. Sized(r)
  BY SizedIs
<1>1. UriAt(r) \in Nat
  BY <1>0 DEF Sized, UriAt
<1>2. VersionAt(r) \in Nat
  BY <1>0, <1>1 DEF Sized, VersionAt
<1>3. MinorAt(r) \in Nat
  BY <1>0, <1>2 DEF Sized, MinorAt
<1>4. FieldsAt(r) \in Nat
  BY <1>0, <1>3 DEF Sized, FieldsAt
<1>5. Len(r.fields) \in Nat /\ \A i \in 1 .. Len(r.fields) : Len(Value(r, i)) \in Nat
  BY <1>0 DEF Sized
<1>6. FieldAt(r)[0] = FieldsAt(r)
  BY <1>4, <1>5, FieldAtIs
<1>7. \A i \in 0 .. Len(r.fields) : FieldAt(r)[i] \in Nat /\ FieldAt(r)[i] <= FieldAt(r)[Len(r.fields)]
  BY <1>4, <1>5, FieldAtIs
<1>8. \A i \in 1 .. Len(r.fields) : FieldAt(r)[i] = FieldAt(r)[i - 1] + Len(Value(r, i)) + 5
  BY <1>4, <1>5, FieldAtIs
<1> QED  BY <1>1, <1>2, <1>3, <1>4, <1>6, <1>7, <1>8

GrowAlike(n, base, at, o) ==
  /\ at[0] = base /\ o[0] = 0
  /\ \A i \in 0 .. n : at[i] \in Nat /\ o[i] \in Nat
  /\ \A i \in 1 .. n : at[i] - at[i - 1] = o[i] - o[i - 1]

LEMMA OffsetsAgree ==
  ASSUME NEW n \in Nat, NEW base \in Nat, NEW at, NEW o, GrowAlike(n, base, at, o)
  PROVE  \A i \in 0 .. n : at[i] = base + o[i]
<1>0. /\ at[0] = base /\ o[0] = 0
      /\ \A i \in 0 .. n : at[i] \in Nat /\ o[i] \in Nat
      /\ \A i \in 1 .. n : at[i] - at[i - 1] = o[i] - o[i - 1]
  BY DEF GrowAlike
<1> DEFINE S == {i \in Nat : at[i] = base + o[i]}
<1>1. \A k \in 1 .. n : (k = 1 \/ k - 1 \in S) => k \in S
  <2> TAKE k \in 1 .. n
  <2>1. at[k] - at[k - 1] = o[k] - o[k - 1]
    BY <1>0
  <2>2. /\ k - 1 \in 0 .. n /\ o[k - 1] \in Nat /\ at[k - 1] \in Nat
        /\ k \in 0 .. n /\ o[k] \in Nat /\ at[k] \in Nat
    BY <1>0
  <2>3. k = 1 => at[k - 1] = base + o[k - 1]
    BY <1>0
  <2> QED  BY <2>1, <2>2, <2>3
<1>2. \A k \in 1 .. n : k \in S
  <2> HIDE DEF S
  <2> QED  BY <1>1, InductionUpto
<1>3. \A i \in 0 .. n : i = 0 \/ i \in 1 .. n
  OBVIOUS
<1> QED  BY <1>0, <1>2, <1>3

\* The bytes x lie in flat behind q others, and flat in e behind h.
LEMMA InTheMiddle ==
  ASSUME NEW x, NEW flat, NEW e, NEW h \in Nat, NEW q \in Nat, NEW p, p = h + q,
         Len(x) \in Nat, Len(flat) \in Nat, q + Len(x) <= Len(flat),
         \A j \in 1 .. Len(x) : flat[q + j] = x[j],
         \A i \in 1 .. Len(flat) : e[h + i] = flat[i]
  PROVE  \A j \in 1 .. Len(x) : e[p + j] = x[j]
<1> TAKE j \in 1 .. Len(x)
<1>1. q + j \in 1 .. Len(flat) /\ p + j = h + (q + j)
  OBVIOUS
<1> QED  BY <1>1

FieldBytes(x, n, v) ==
  /\ Len(x) = Len(v) + 5 /\ x[1] = n /\ x[2] = ":" /\ x[3] = "SP"
  /\ \A l \in 1 .. Len(v) : x[3 + l] = v[l]
  /\ x[4 + Len(v)] = "CR" /\ x[5 + Len(v)] = "LF"

LEMMA FieldPlaced ==
  ASSUME NEW r, NEW i, NEW x, NEW e, NEW p \in Nat, Len(Value(r, i)) \in Nat,
         FieldBytes(x, Name(r, i), Value(r, i)), \A j \in 1 .. Len(x) : e[p + j] = x[j]
  PROVE  FieldLaid(r, e, i, p)
<1> DEFINE v == Value(r, i)
<1>1. /\ 1 \in 1 .. Len(x) /\ 2 \in 1 .. Len(x) /\ 3 \in 1 .. Len(x)
      /\ 4 + Len(v) \in 1 .. Len(x) /\ 5 + Len(v) \in 1 .. Len(x)
      /\ \A l \in 1 .. Len(v) : 3 + l \in 1 .. Len(x)
  BY DEF FieldBytes
<1> HIDE DEF v
<1>2. FieldBytes(x, Name(r, i), v) /\ Len(v) \in Nat
  BY DEF v
<1>3. e[p + 1] = Name(r, i) /\ e[p + 2] = ":" /\ e[p + 3] = "SP"
  BY <1>1, <1>2 DEF FieldBytes
<1>4. \A l \in 1 .. Len(v) : e[p + 3 + l] = v[l]
  <2> TAKE l \in 1 .. Len(v)
  <2>1. e[p + (3 + l)] = x[3 + l] /\ x[3 + l] = v[l]
    BY <1>1, <1>2 DEF FieldBytes
  <2>2. p + (3 + l) = p + 3 + l
    BY <1>2
  <2> QED  BY <2>1, <2>2
<1>5. e[p + 4 + Len(v)] = "CR" /\ e[p + 5 + Len(v)] = "LF"
  <2>1. e[p + (4 + Len(v))] = "CR" /\ e[p + (5 + Len(v))] = "LF"
    BY <1>1, <1>2 DEF FieldBytes
  <2>2. p + (4 + Len(v)) = p + 4 + Len(v) /\ p + (5 + Len(v)) = p + 5 + Len(v)
    BY <1>2
  <2> QED  BY <2>1, <2>2
<1> QED  BY <1>3, <1>4, <1>5 DEF FieldLaid, v

LEMMA HeadTyped == ASSUME NEW r \in Request, WellFormed(r) PROVE HeadOf(r) \in Seq(Byte)
<1> DEFINE sp == <<"SP">>
           http == <<"SP", "H", "T", "T", "P", "/">>
           dot == <<".">>
           m == r.method
           u == r.uri
           v == r.major
           w == r.minor
           x == CRLF
<1>1. m \in Seq(Byte) /\ u \in Seq(Byte) /\ v \in Seq(Byte) /\ w \in Seq(Byte)
  BY PartsTyped
<1>2. sp \in Seq(Byte) /\ http \in Seq(Byte) /\ dot \in Seq(Byte) /\ x \in Seq(Byte)
  BY BytesAre
<1>3. HeadOf(r) = m \o sp \o u \o http \o v \o dot \o w \o x
  BY DEF HeadOf
<1> HIDE DEF sp, http, dot, m, u, v, w, x
<1>4. m \o sp \o u \in Seq(Byte)
  BY <1>1, <1>2
<1>5. m \o sp \o u \o http \o v \in Seq(Byte)
  BY <1>1, <1>2, <1>4
<1>6. m \o sp \o u \o http \o v \o dot \o w \o x \in Seq(Byte)
  BY <1>1, <1>2, <1>5
<1> QED  BY <1>3, <1>6

LEMMA EncodedLaid ==
  ASSUME NEW r \in Request, WellFormed(r)
  PROVE  /\ Encoded(r) \in Seq(Byte) /\ Len(Encoded(r)) = HeadEnd(r) + Len(r.content)
         /\ Laid(r, Encoded(r))
<1> DEFINE e == Encoded(r)
           fs == FieldsOf(r)
           flat == FlattenSeq(fs)
           F == Len(r.fields)
           h == HeadOf(r)
           a == h \o flat
           b == a \o CRLF
           c == b \o r.content
           at == FieldAt(r)
<1>1. e = c
  BY DEF Encoded, HeadOf, FieldsOf
<1>2. /\ r.content \in Seq(Byte) /\ CRLF \in Seq(Byte) /\ Len(CRLF) = 2 /\ CRLF[1] = "CR" /\ CRLF[2] = "LF"
  BY PartsTyped, BytesAre DEF CRLF
<1>3. fs \in Seq(Seq(Byte)) /\ Len(fs) = F
  BY PartsTyped
<1>4. flat \in Seq(Byte)
  BY <1>3, Flattened
<1>5. h \in Seq(Byte)
  BY HeadTyped
<1>6. PICK o : /\ o \in [0 .. Len(fs) -> Nat] /\ o[0] = 0 /\ o[Len(fs)] = Len(flat)
               /\ \A i \in 1 .. Len(fs) :
                    /\ o[i] = o[i - 1] + Len(fs[i]) /\ o[i] <= Len(flat)
                    /\ \A j \in 1 .. Len(fs[i]) : flat[o[i - 1] + j] = fs[i][j]
  <2>1. \E o \in [0 .. Len(fs) -> Nat] :
          /\ o[0] = 0 /\ o[Len(fs)] = Len(flat)
          /\ \A i \in 1 .. Len(fs) :
               /\ o[i] = o[i - 1] + Len(fs[i]) /\ o[i] <= Len(flat)
               /\ \A j \in 1 .. Len(fs[i]) : flat[o[i - 1] + j] = fs[i][j]
    BY <1>3, FlattenedAt
  <2> QED  BY <2>1
<1> HIDE DEF e, fs, flat, h, c
<1>a. a \in Seq(Byte) /\ Len(a) = Len(h) + Len(flat)
  BY <1>4, <1>5, Longer
<1> HIDE DEF a
<1>b. b \in Seq(Byte) /\ Len(b) = Len(a) + Len(CRLF)
  BY <1>2, <1>a, Longer
<1> HIDE DEF b
<1>c. c \in Seq(Byte) /\ Len(c) = Len(b) + Len(r.content)
  BY <1>2, <1>b, Longer DEF c
<1>7. Begins(c, e) /\ Len(e) \in Nat
  BY <1>1, <1>c DEF Begins
<1>8. Begins(b, e) /\ Follows(r.content, e, Len(b))
  <2>1. Begins(b \o r.content, e)
    BY <1>7 DEF c
  <2>2. r.content \in Seq(Byte)
    BY <1>2
  <2> QED  BY <1>7, <1>b, <2>1, <2>2, BeginsLess
<1>9. Begins(a, e) /\ Follows(CRLF, e, Len(a))
  <2>1. Begins(a \o CRLF, e)
    BY <1>8 DEF b
  <2>2. CRLF \in Seq(Byte)
    BY <1>2
  <2> QED  BY <1>7, <1>a, <2>1, <2>2, BeginsLess
<1>10. Begins(h, e) /\ Follows(flat, e, Len(h))
  <2>1. Begins(h \o flat, e)
    BY <1>9 DEF a
  <2> QED  BY <1>4, <1>5, <1>7, <2>1, BeginsLess
<1>11. Len(h) = FieldsAt(r) /\ Line(r, e)
  BY <1>7, <1>10, LineLaid DEF h
<1>12. /\ FieldsAt(r) \in Nat /\ at[0] = FieldsAt(r) /\ F \in Nat
       /\ \A i \in 0 .. F : at[i] \in Nat
       /\ \A i \in 1 .. F : at[i] = at[i - 1] + Len(Value(r, i)) + 5
  BY FieldsAtIs, SizedIs DEF Sized
<1> HIDE DEF at, F
<1>13. \A i \in 1 .. F : fs[i] = Field(Name(r, i), Value(r, i)) /\ Name(r, i) \in Byte /\ Value(r, i) \in Seq(Byte)
  BY PartsTyped DEF F, fs
<1>14. \A i \in 1 .. F : Len(fs[i]) = Len(Value(r, i)) + 5 /\ Len(Value(r, i)) \in Nat
  <2> TAKE i \in 1 .. F
  <2>1. fs[i] = Field(Name(r, i), Value(r, i)) /\ Name(r, i) \in Byte /\ Value(r, i) \in Seq(Byte)
    BY <1>13
  <2>2. Len(Field(Name(r, i), Value(r, i))) = Len(Value(r, i)) + 5
    BY <2>1, FieldIs
  <2> QED  BY <2>1, <2>2
<1>15. \A i \in 0 .. F : o[i] \in Nat
  BY <1>3, <1>6
<1>16. \A i \in 1 .. F : o[i] = o[i - 1] + (Len(Value(r, i)) + 5)
  BY <1>3, <1>6, <1>14
<1>17. \A i \in 0 .. F : at[i] = FieldsAt(r) + o[i]
  <2> DEFINE base == FieldsAt(r)
  <2>1. \A i \in 0 .. F : at[i] \in Nat /\ o[i] \in Nat
    BY <1>12, <1>15
  <2>2. ASSUME NEW i \in 1 .. F PROVE at[i] - at[i - 1] = o[i] - o[i - 1]
    <3> DEFINE x == Len(Value(r, i))
    <3>1. x \in Nat /\ at[i] = at[i - 1] + x + 5 /\ o[i] = o[i - 1] + (x + 5)
      BY <1>12, <1>14, <1>16
    <3>2. i - 1 \in 0 .. F
      BY <1>12
    <3> HIDE DEF x
    <3> QED  BY <2>1, <3>1, <3>2
  <2>4. F \in Nat /\ base \in Nat /\ at[0] = base
    BY <1>12
  <2>5. o[0] = 0
    BY <1>6
  <2> HIDE DEF base
  <2>6. GrowAlike(F, base, at, o)
    BY <2>1, <2>2, <2>4, <2>5 DEF GrowAlike
  <2>7. \A i \in 0 .. F : at[i] = base + o[i]
    BY <2>4, <2>6, OffsetsAgree
  <2> QED  BY <2>7 DEF base
<1>18. at[F] = Len(a)
  <2>1. F \in 0 .. F
    BY <1>12
  <2> QED  BY <1>3, <1>6, <1>11, <1>17, <1>a, <2>1
<1>19. ASSUME NEW i \in 1 .. F PROVE FieldLaid(r, e, i, at[i - 1])
  <2> DEFINE v == Value(r, i)
             x == fs[i]
             p == at[i - 1]
             q == o[i - 1]
  <2>1. FieldBytes(x, Name(r, i), v)
    <3>1. x = Field(Name(r, i), v) /\ Name(r, i) \in Byte /\ v \in Seq(Byte)
      BY <1>13
    <3> HIDE DEF x, v
    <3> QED  BY <3>1, FieldIs DEF FieldBytes
  <2>2. i - 1 \in 0 .. F /\ i \in 1 .. Len(fs)
    BY <1>3, <1>12
  <2>3. Len(v) \in Nat /\ p \in Nat /\ p = Len(h) + q /\ q \in Nat
    BY <1>11, <1>12, <1>14, <1>15, <1>17, <2>2
  <2>4. \A j \in 1 .. Len(x) : flat[q + j] = x[j]
    BY <1>6, <2>2
  <2>5. q + Len(x) <= Len(flat)
    BY <1>6, <2>2
  <2>6. Len(flat) \in Nat /\ Len(h) \in Nat
    BY <1>4, <1>5
  <2> HIDE DEF v, x, p, q
  <2>7. \A j \in 1 .. Len(x) : e[p + j] = x[j]
    <3>1. Len(x) \in Nat
      BY <2>1, <2>3 DEF FieldBytes
    <3> QED  BY <1>10, <2>3, <2>4, <2>5, <2>6, <3>1, InTheMiddle DEF Follows
  <2>8. FieldLaid(r, e, i, p)
    BY <2>1, <2>3, <2>7, FieldPlaced DEF v
  <2> QED  BY <2>8 DEF p
<1>20. e[HeadEnd(r) - 1] = "CR" /\ e[HeadEnd(r)] = "LF"
  <2>1. HeadEnd(r) = Len(a) + 2 /\ Len(a) \in Nat
    BY <1>18, <1>a DEF HeadEnd, at, F
  <2>2. HeadEnd(r) - 1 = Len(a) + 1 /\ 1 \in 1 .. Len(CRLF) /\ 2 \in 1 .. Len(CRLF)
    BY <1>2, <2>1
  <2>3. e[Len(a) + 1] = CRLF[1] /\ e[Len(a) + 2] = CRLF[2]
    BY <1>9, <2>2 DEF Follows
  <2> QED  BY <1>2, <2>1, <2>2, <2>3
<1>21. Len(c) = HeadEnd(r) + Len(r.content)
  BY <1>2, <1>18, <1>a, <1>b, <1>c DEF HeadEnd, at, F
<1>22. Laid(r, e)
  BY <1>11, <1>19, <1>20 DEF Laid, at, F
<1> QED  BY <1>1, <1>21, <1>22, <1>c DEF e

-----------------------------------------------------------------------------
(* Where one byte leads.                                                     *)

LEMMA ByteKinds ==
  /\ "SP" \notin UriBytes /\ "CR" \notin ValueBytes /\ "SP" \in ValueBytes
  /\ "SP" \notin Letters /\ Letters \subseteq UriBytes
  /\ "." \notin Digits /\ "CR" \notin Digits /\ "CR" \notin NameBytes /\ ":" \notin NameBytes
  /\ "SP" \notin NameBytes
BY DEF ValueBytes, UriBytes, NameBytes, Letters, Digits, Names, Words, Addresses

LEMMA TargetsAre ==
  ASSUME NEW s, NEW c, NEW to
  PROVE  to \in Targets(s, c) <=> \E e \in Edges : e[1] = s /\ c \in e[2] /\ e[3] = to
BY DEF Targets

LEMMA Leads ==
  ASSUME NEW c, NEW to
  PROVE  /\ to \in Targets("Begin", c) <=> \/ c = "SP" /\ to = "Begin"
                                           \/ c = "O" /\ to = "MetOptions"
                                           \/ c = "G" /\ to = "MetGet"
                                           \/ c = "H" /\ to = "MetHead"
                                           \/ c = "P" /\ to = "MetPost"
         /\ to \in Targets("MetAlmostDone", c) <=> c = "SP" /\ to = "MetDone"
         /\ to \in Targets("MetDone", c) <=> \/ c = "SP" /\ to = "MetDone"
                                             \/ c \in UriBytes /\ to = "UriStart"
         /\ to \in Targets("UriStart", c) <=> \/ c = "SP" /\ to = "UriEnd"
                                              \/ c \in UriBytes /\ to = "Uri"
         /\ to \in Targets("Uri", c) <=> \/ c = "SP" /\ to = "UriEnd"
                                         \/ c \in UriBytes /\ to = "Uri"
         /\ to \in Targets("VerHttpSlash", c) <=> c \in Digits /\ to = "VerMajor"
         /\ to \in Targets("VerMajor", c) <=> \/ c \in Digits /\ to = "VerMajor"
                                              \/ c = "." /\ to = "VerDot"
         /\ to \in Targets("VerDot", c) <=> \/ c \in Digits /\ to = "VerMinor"
                                            \/ c = "CR" /\ to = "VerEnd"
         /\ to \in Targets("VerMinor", c) <=> \/ c \in Digits /\ to = "VerMinor"
                                              \/ c = "CR" /\ to = "VerEnd"
         /\ to \in Targets("VerEnd", c) <=> c = "LF" /\ to = "CRLF"
         /\ to \in Targets("CR", c) <=> c = "LF" /\ to = "CRLF"
         /\ to \in Targets("CRLF", c) <=> \/ c = "CR" /\ to = "CRLFCR"
                                          \/ c \in NameBytes /\ to = "Header"
         /\ to \in Targets("CRLFCR", c) <=> c = "LF" /\ to = "Died"
         /\ to \in Targets("Header", c) <=> \/ c \in NameBytes /\ to = "Header"
                                            \/ c = ":" /\ to = "Colon"
         /\ to \in Targets("Colon", c) <=> \/ c = "SP" /\ to = "Colon"
                                           \/ c \in ValueBytes \ {"SP"} /\ to = "Value"
         /\ to \in Targets("Value", c) <=> \/ c \in ValueBytes /\ to = "Value"
                                           \/ c = "CR" /\ to = "CR"
<1>1. to \in Targets("Begin", c) <=> \/ c = "SP" /\ to = "Begin"
                                     \/ c = "O" /\ to = "MetOptions"
                                     \/ c = "G" /\ to = "MetGet"
                                     \/ c = "H" /\ to = "MetHead"
                                     \/ c = "P" /\ to = "MetPost"
  BY TargetsAre, SMTT(30) DEF Edges
<1>2. to \in Targets("MetAlmostDone", c) <=> c = "SP" /\ to = "MetDone"
  BY TargetsAre, SMTT(30) DEF Edges
<1>3. to \in Targets("MetDone", c) <=> \/ c = "SP" /\ to = "MetDone"
                                       \/ c \in UriBytes /\ to = "UriStart"
  BY TargetsAre, SMTT(30) DEF Edges
<1>4. to \in Targets("UriStart", c) <=> \/ c = "SP" /\ to = "UriEnd"
                                        \/ c \in UriBytes /\ to = "Uri"
  BY TargetsAre, SMTT(30) DEF Edges
<1>5. to \in Targets("Uri", c) <=> \/ c = "SP" /\ to = "UriEnd"
                                   \/ c \in UriBytes /\ to = "Uri"
  BY TargetsAre, SMTT(30) DEF Edges
<1>6. to \in Targets("VerHttpSlash", c) <=> c \in Digits /\ to = "VerMajor"
  BY TargetsAre, SMTT(30) DEF Edges
<1>7. to \in Targets("VerMajor", c) <=> \/ c \in Digits /\ to = "VerMajor"
                                        \/ c = "." /\ to = "VerDot"
  BY TargetsAre, SMTT(30) DEF Edges
<1>8. to \in Targets("VerDot", c) <=> \/ c \in Digits /\ to = "VerMinor"
                                      \/ c = "CR" /\ to = "VerEnd"
  BY TargetsAre, SMTT(30) DEF Edges
<1>9. to \in Targets("VerMinor", c) <=> \/ c \in Digits /\ to = "VerMinor"
                                        \/ c = "CR" /\ to = "VerEnd"
  BY TargetsAre, SMTT(30) DEF Edges
<1>10. to \in Targets("VerEnd", c) <=> c = "LF" /\ to = "CRLF"
  BY TargetsAre, SMTT(30) DEF Edges
<1>11. to \in Targets("CR", c) <=> c = "LF" /\ to = "CRLF"
  BY TargetsAre, SMTT(30) DEF Edges
<1>12. to \in Targets("CRLF", c) <=> \/ c = "CR" /\ to = "CRLFCR"
                                     \/ c \in NameBytes /\ to = "Header"
  BY TargetsAre, SMTT(30) DEF Edges
<1>13. to \in Targets("CRLFCR", c) <=> c = "LF" /\ to = "Died"
  BY TargetsAre, SMTT(30) DEF Edges
<1>14. to \in Targets("Header", c) <=> \/ c \in NameBytes /\ to = "Header"
                                       \/ c = ":" /\ to = "Colon"
  BY TargetsAre, SMTT(30) DEF Edges
<1>15. to \in Targets("Colon", c) <=> \/ c = "SP" /\ to = "Colon"
                                      \/ c \in ValueBytes \ {"SP"} /\ to = "Value"
  BY TargetsAre, SMTT(30) DEF Edges
<1>16. to \in Targets("Value", c) <=> \/ c \in ValueBytes /\ to = "Value"
                                      \/ c = "CR" /\ to = "CR"
  BY TargetsAre, SMTT(30) DEF Edges
<1> QED  BY <1>1, <1>2, <1>3, <1>4, <1>5, <1>6, <1>7, <1>8, <1>9, <1>10, <1>11, <1>12, <1>13, <1>14, <1>15, <1>16

\* What Moves makes of the counters.
Carried(g, h) ==
  /\ h.contentLength = g.contentLength /\ h.keepAlive = g.keepAlive
  /\ h.keepAliveSet = g.keepAliveSet
CountedAs(g, h, c, to) ==
  /\ h.state = to /\ h.err = (IF to = "Died" THEN "ExceptedContent" ELSE g.err)
  /\ h.method = g.method
  /\ h.uriStart = IF g.state = "MetDone" /\ to = "UriStart" THEN readPos + 1 ELSE g.uriStart
  /\ h.uriLength = IF g.state \in {"UriStart", "Uri"} /\ to = "Uri"
                   THEN g.uriLength + 1 ELSE g.uriLength
  /\ h.nameStart = IF g.state = "CRLF" /\ to = "Header" THEN readPos + 1 ELSE g.nameStart
  /\ h.nameLength = IF g.state = "Header" /\ to = "Header"
                    THEN g.nameLength + 1 ELSE g.nameLength
  /\ h.valueStart = IF g.state = "Colon" /\ to = "Value" THEN readPos + 1 ELSE g.valueStart
  /\ h.valueLength = IF g.state = "Value" /\ to = "Value"
                     THEN g.valueLength + 1 ELSE g.valueLength
  /\ h.major = IF to # "VerMajor" THEN g.major
               ELSE IF g.state = "VerHttpSlash" THEN DigitValue[c] ELSE 10 * g.major + DigitValue[c]
  /\ h.minor = IF to # "VerMinor" THEN g.minor
               ELSE IF g.state = "VerDot" THEN DigitValue[c] ELSE 10 * g.minor + DigitValue[c]

LEMMA Led1 ==
  ASSUME NEW g, DOMAIN g = CounterFields, NEW to, \A t : t \in Targets(g.state, Next1) <=> t = to
  PROVE  CountedAs(g, Moves(g), Next1, to) /\ Carried(g, Moves(g))
<1>1. Targets(g.state, Next1) = {to}
  OBVIOUS
<1>2. Moves(g) = Counted(g, Next1, to)
  BY <1>1 DEF Moves
<1> DEFINE c == Next1
           h == Counted(g, c, to)
<1>3. CountedAs(g, h, c, to) /\ Carried(g, h)
  <2> HIDE DEF c
  <2> QED  BY DEF Counted, CountedAs, Carried, CounterFields
<1> QED  BY <1>2, <1>3

LEMMA Led0 ==
  ASSUME NEW g, DOMAIN g = CounterFields, \A t : t \notin Targets(g.state, Next1)
  PROVE  LET h == Moves(g)
         IN  h.state = "Died" /\ h.err = RejectedAs(g.state) /\ Carried(g, h)
<1>1. Moves(g) = Rejected(g, RejectedAs(g.state))
  BY DEF Moves
<1> DEFINE err == RejectedAs(g.state)
<1>2. LET h == Rejected(g, err) IN h.state = "Died" /\ h.err = err /\ Carried(g, h)
  <2> HIDE DEF err
  <2> QED  BY DEF Rejected, Carried, CounterFields
<1> QED  BY <1>1, <1>2

\* Parser g, k bytes into request r, which was sent behind base bytes.
Sent(r, base) == \A i \in 1 .. HeadEnd(r) : stream[base + i] = Encoded(r)[i]
Reading(r, base, k, g) ==
  /\ r \in Request /\ WellFormed(r) /\ Sent(r, base)
  /\ base \in Nat /\ k \in Nat /\ readPos = base + k /\ Counters(g, readPos)

\* Where one byte may lead.
FieldsFine(r, j) == \A i \in 1 .. j : ~FieldFails(r, i)
Onward(r, base, k, g, h, j) ==
  /\ Carried(g, h)
  /\ \/ /\ h.state \notin {"Died", "Begin"} /\ h.err = g.err
        /\ h.state \in WordStates => g.state = "Begin"
        /\ Standing(r, base, k + 1, h, j)
     \/ /\ h.state = "Died"
        /\ FieldsFine(r, j) => h.err = MeaningOf(r) /\ h.err \notin NoError \cup {"Parsed"}
     \/ h.state = "Died" /\ j = Len(r.fields) /\ Whole(r, base, k + 1, h)

LEMMA PlacesAre ==
  ASSUME NEW r \in Request, WellFormed(r)
  PROVE  /\ Len(r.method) \in Nat \ {0} /\ Len(r.uri) \in Nat \ {0} /\ Len(r.major) \in Nat \ {0}
         /\ Len(r.minor) \in Nat /\ Len(r.fields) \in Nat
         /\ UriAt(r) = Len(r.method) + 1 /\ UriAt(r) \in Nat
         /\ VersionAt(r) = UriAt(r) + Len(r.uri) + 6 /\ VersionAt(r) \in Nat
         /\ MinorAt(r) = VersionAt(r) + Len(r.major) + 1 /\ MinorAt(r) \in Nat
         /\ FieldsAt(r) = MinorAt(r) + Len(r.minor) + 2 /\ FieldsAt(r) \in Nat
         /\ HeadEnd(r) \in Nat /\ FieldsAt(r) + 2 <= HeadEnd(r)
<1>1. Sized(r)
  BY SizedIs
<1>2. UriAt(r) \in Nat /\ VersionAt(r) \in Nat /\ MinorAt(r) \in Nat /\ FieldsAt(r) \in Nat
  BY FieldsAtIs
<1>3. FieldAt(r)[0] = FieldsAt(r)
  BY FieldsAtIs
<1>4. 0 \in 0 .. Len(r.fields) /\ Len(r.fields) \in 0 .. Len(r.fields)
  BY <1>1 DEF Sized
<1>5. FieldAt(r)[0] <= FieldAt(r)[Len(r.fields)] /\ FieldAt(r)[Len(r.fields)] \in Nat
  BY <1>4, FieldsAtIs
<1>6. HeadEnd(r) \in Nat /\ FieldsAt(r) + 2 <= HeadEnd(r)
  BY <1>2, <1>3, <1>5 DEF HeadEnd
<1>7. /\ UriAt(r) = Len(r.method) + 1 /\ VersionAt(r) = UriAt(r) + Len(r.uri) + 6
      /\ MinorAt(r) = VersionAt(r) + Len(r.major) + 1
      /\ FieldsAt(r) = MinorAt(r) + Len(r.minor) + 2
  BY DEF UriAt, VersionAt, MinorAt, FieldsAt
<1> QED  BY <1>1, <1>2, <1>6, <1>7 DEF Sized

LEMMA NextIs ==
  ASSUME NEW r, NEW base, NEW k, NEW g, Reading(r, base, k, g), k < HeadEnd(r)
  PROVE  Next1 = Encoded(r)[k + 1]
<1>1. HeadEnd(r) \in Nat
  BY PlacesAre DEF Reading
<1>2. k + 1 \in 1 .. HeadEnd(r) /\ base + (k + 1) = readPos + 1
  BY <1>1 DEF Reading
<1> QED  BY <1>2 DEF Reading, Sent, Next1

-----------------------------------------------------------------------------
(* The request line.                                                         *)

LEMMA MethodsAre ==
  /\ \A m \in Methods : Len(m) \in Nat \ {0} /\ m[1] \in {"G", "H", "P", "O"}
  /\ \A m, x \in Methods : m[1] = x[1] => m = x
BY DEF Methods

LEMMA LineBytes ==
  ASSUME NEW r \in Request, WellFormed(r)
  PROVE  Line(r, Encoded(r)) /\ Laid(r, Encoded(r))
BY EncodedLaid DEF Laid

LEMMA SameMethod ==
  ASSUME NEW m \in Methods, NEW x \in Seq(Letters), Len(x) = Len(m),
         \A i \in 1 .. Len(x) : x[i] = m[i]
  PROVE  x = m
<1>1. m \in Seq(Letters)
  <2>1. <<"G", "E", "T">> \in Seq(Letters) /\ <<"H", "E", "A", "D">> \in Seq(Letters)
        /\ <<"P", "O", "S", "T">> \in Seq(Letters)
    BY DEF Letters
  <2>2. <<"O", "P", "T", "I", "O", "N", "S">> \in Seq(Letters)
    BY DEF Letters
  <2> QED  BY <2>1, <2>2 DEF Methods
<1> QED  BY <1>1, SeqEqual

\* The line ends before the fields do.
LEMMA LineInside ==
  ASSUME NEW r \in Request, WellFormed(r)
  PROVE  /\ Len(r.method) < UriAt(r) /\ UriAt(r) + Len(r.uri) < VersionAt(r) - 5
         /\ VersionAt(r) + Len(r.major) < MinorAt(r) /\ MinorAt(r) + Len(r.minor) < FieldsAt(r) - 1
         /\ Len(r.method) < HeadEnd(r) /\ UriAt(r) + Len(r.uri) < HeadEnd(r)
         /\ VersionAt(r) + Len(r.major) < HeadEnd(r) /\ MinorAt(r) + Len(r.minor) < HeadEnd(r)
         /\ FieldsAt(r) < HeadEnd(r) /\ HeadEnd(r) \in Nat
<1> DEFINE m == Len(r.method)
           u == Len(r.uri)
           a == Len(r.major)
           b == Len(r.minor)
           U == UriAt(r)
           V == VersionAt(r)
           M == MinorAt(r)
           F == FieldsAt(r)
           H == HeadEnd(r)
<1>1. /\ m \in Nat /\ u \in Nat /\ a \in Nat /\ b \in Nat /\ U \in Nat /\ V \in Nat /\ M \in Nat
      /\ F \in Nat /\ H \in Nat
  BY PlacesAre
<1>2. U = m + 1 /\ V = U + u + 6 /\ M = V + a + 1 /\ F = M + b + 2 /\ F + 2 <= H
  BY PlacesAre
<1> HIDE DEF m, u, a, b, U, V, M, F, H
<1>3. /\ m < U /\ U + u < V - 5 /\ V + a < M /\ M + b < F - 1
      /\ m < H /\ U + u < H /\ V + a < H /\ M + b < H /\ F < H /\ H \in Nat
  BY <1>1, <1>2
<1> QED  BY <1>3 DEF m, u, a, b, U, V, M, F, H

LEMMA MethodMoves ==
  ASSUME NEW r, NEW base, NEW k, NEW g, Reading(r, base, k, g), AtMethod(r, k, g),
         g.state \notin WordStates
  PROVE  Onward(r, base, k, g, Moves(g), 0)
<1> DEFINE c == Next1
           h == Moves(g)
           e == Encoded(r)
           m == Len(r.method)
<1> SUFFICES Onward(r, base, k, g, h, 0)
  OBVIOUS
<1>0. /\ r \in Request /\ WellFormed(r) /\ DOMAIN g = CounterFields /\ k \in Nat
      /\ r.method \in Seq(Letters) /\ m \in Nat \ {0} /\ k <= m
  <2>1. r \in Request /\ WellFormed(r) /\ DOMAIN g = CounterFields /\ k \in Nat
    BY DEF Reading, Counters
  <2> QED  BY <2>1, PlacesAre DEF AtMethod, WellFormed
<1>1. c = e[k + 1]
  <2>1. k < HeadEnd(r)
    BY <1>0, LineInside
  <2> QED  BY <2>1, NextIs
<1>2. \A i \in 1 .. m : e[i] = r.method[i] /\ r.method[i] \in Letters
  BY <1>0, LineBytes DEF Line
<1>3. e[m + 1] = "SP"
  BY <1>0, LineBytes DEF Line, UriAt
<1> HIDE DEF c, h, e
<1>4. ASSUME NEW to, \A t : t \in Targets(g.state, c) <=> t = to
      PROVE  CountedAs(g, h, c, to) /\ Carried(g, h)
  BY <1>0, <1>4, Led1 DEF c, h
<1>5. ASSUME \A t : t \notin Targets(g.state, c), r.method \notin Methods,
             RejectedAs(g.state) = "InvalidMethod"
      PROVE  Onward(r, base, k, g, h, 0)
  <2>1. h.state = "Died" /\ h.err = "InvalidMethod" /\ Carried(g, h)
    BY <1>0, <1>5, Led0 DEF c, h
  <2> QED  BY <1>5, <2>1 DEF Onward, MeaningOf, NoError
<1>6. CASE g.state = "Begin" /\ k = 0
  <2>1. c = r.method[1] /\ c \in Letters /\ c # "SP"
    BY <1>0, <1>1, <1>2, <1>6, ByteKinds
  <2>2. \A t : t \in Targets(g.state, c) <=>
             \/ c = "O" /\ t = "MetOptions" 
             \/ c = "G" /\ t = "MetGet"
             \/ c = "H" /\ t = "MetHead"
             \/ c = "P" /\ t = "MetPost"
    BY <1>6, <2>1, Leads
  <2>3. ASSUME NEW s \in WordStates, c = FirstLetter[s]
        PROVE  Onward(r, base, k, g, h, 0)
    <3>1. \A t : t \in Targets(g.state, c) <=> t = s
      BY <2>2, <2>3 DEF WordStates, FirstLetter
    <3>2. h.state = s /\ h.err = g.err /\ h.minor = g.minor /\ Carried(g, h)
      BY <1>4, <3>1 DEF CountedAs, WordStates
    <3>3. AtMethod(r, k + 1, h)
      BY <1>6, <2>1, <2>3, <3>2 DEF AtMethod
    <3> QED  BY <1>6, <3>2, <3>3 DEF Onward, Standing, WordStates
  <2>4. CASE \A s \in WordStates : c # FirstLetter[s]
    <3>1. c \notin {"O", "G", "H", "P"}
      BY <2>4 DEF WordStates, FirstLetter
    <3>2. \A t : t \notin Targets(g.state, c)
      BY <2>2, <3>1
    <3>3. r.method \notin Methods
      BY <2>1, <3>1, MethodsAre
    <3> QED  BY <1>5, <1>6, <3>2, <3>3 DEF RejectedAs
  <2> QED  BY <2>3, <2>4
<1>7. CASE /\ g.state = "MetAlmostDone" /\ g.method \in Methods
           /\ k = Len(g.method) /\ \A i \in 1 .. k : r.method[i] = g.method[i]
  <2>0. k \in Nat \ {0} /\ r.method[1] = g.method[1]
    BY <1>7, MethodsAre
  <2>1. CASE k = m
    <3>1. \A t : t \in Targets(g.state, c) <=> t = "MetDone"
      BY <1>1, <1>3, <1>7, <2>1, Leads
    <3>2. h.state = "MetDone" /\ h.err = g.err /\ h.method = g.method /\ Carried(g, h)
          /\ h.minor = g.minor
      BY <1>4, <3>1 DEF CountedAs
    <3>3. r.method = g.method
      <4>1. r.method \in Seq(Letters) /\ Len(r.method) = Len(g.method)
        BY <1>0, <1>7, <2>1
      <4> QED  BY <1>7, <2>1, <4>1, SameMethod
    <3>4. AtUri(r, base, k + 1, h)
      BY <1>7, <2>1, <3>2, <3>3 DEF AtMethod, AtUri, MethodRead, UriAt
    <3> QED  BY <3>2, <3>4 DEF Onward, Standing, WordStates
  <2>2. CASE k < m
    <3>1. c \in Letters
      BY <1>0, <1>1, <1>2, <2>2
    <3>2. \A t : t \notin Targets(g.state, c)
      BY <1>7, <3>1, ByteKinds, Leads
    <3>3. r.method \notin Methods
      <4>1. r.method # g.method
        BY <1>7, <2>2
      <4> QED  BY <1>7, <2>0, <4>1, MethodsAre
    <3> QED  BY <1>5, <1>7, <3>2, <3>3 DEF RejectedAs
  <2> QED  BY <1>0, <2>1, <2>2
<1> QED  BY <1>6, <1>7 DEF AtMethod

\* A byte that leads nowhere is out of place in a well-formed request: every
\* state below goes on.
LEMMA UriMoves ==
  ASSUME NEW r, NEW base, NEW k, NEW g, Reading(r, base, k, g), AtUri(r, base, k, g)
  PROVE  Onward(r, base, k, g, Moves(g), 0)
<1> DEFINE c == Next1
           h == Moves(g)
           e == Encoded(r)
           n == Len(r.uri)
<1> SUFFICES Onward(r, base, k, g, h, 0)
  OBVIOUS
<1>0. /\ r \in Request /\ WellFormed(r) /\ DOMAIN g = CounterFields /\ k \in Nat /\ base \in Nat
      /\ readPos = base + k /\ UriAt(r) \in Nat /\ n \in Nat \ {0} /\ UriAt(r) + n < HeadEnd(r)
      /\ VersionAt(r) = UriAt(r) + n + 6 /\ HeadEnd(r) \in Nat
  <2>1. r \in Request /\ WellFormed(r) /\ DOMAIN g = CounterFields /\ k \in Nat /\ base \in Nat
        /\ readPos = base + k
    BY DEF Reading, Counters
  <2> QED  BY <2>1, PlacesAre, LineInside
<1>1. k < HeadEnd(r) => c = e[k + 1]
  BY NextIs
<1>2. \A i \in 1 .. n : e[UriAt(r) + i] \in UriBytes
  <2>1. \A i \in 1 .. n : e[UriAt(r) + i] = r.uri[i]
    BY <1>0, LineBytes DEF Line
  <2>2. r.uri \in Seq(UriBytes)
    BY <1>0 DEF WellFormed
  <2> QED  BY <2>1, <2>2
<1>3. e[UriAt(r) + n + 1] = "SP"
  <2>1. e[VersionAt(r) - 5] = "SP"
    BY <1>0, LineBytes DEF Line
  <2>2. VersionAt(r) - 5 = UriAt(r) + n + 1
    BY <1>0
  <2> QED  BY <2>1, <2>2
<1>v. UriView(g, readPos)
  BY DEF Reading, Counters
<1> HIDE DEF c, h, e, n
<1>4. ASSUME NEW to, \A t : t \in Targets(g.state, c) <=> t = to
      PROVE  CountedAs(g, h, c, to) /\ Carried(g, h)
  BY <1>0, <1>4, Led1 DEF c, h
<1>5. MethodRead(r, g) /\ g.minor = 0
  BY DEF AtUri
<1>6. CASE g.state = "MetDone" /\ k = UriAt(r)
  <2>1. c \in UriBytes
    <3>1. k < HeadEnd(r) /\ 1 \in 1 .. n
      BY <1>0, <1>6
    <3> QED  BY <1>1, <1>2, <1>6, <3>1
  <2>2. \A t : t \in Targets(g.state, c) <=> t = "UriStart"
    BY <1>6, <2>1, ByteKinds, Leads
  <2>3. /\ h.state = "UriStart" /\ h.err = g.err /\ h.method = g.method /\ Carried(g, h)
        /\ h.uriStart = readPos + 1 /\ h.uriLength = g.uriLength /\ h.minor = g.minor
    BY <1>4, <1>6, <2>2 DEF CountedAs
  <2>4. g.uriLength = 1
    BY <1>v, <1>6 DEF UriView, BeforeUri
  <2>5. UriBegun(r, base, h) /\ k + 1 = UriAt(r) + h.uriLength /\ h.uriLength \in 1 .. n
    BY <1>0, <1>6, <2>3, <2>4 DEF UriBegun
  <2>6. AtUri(r, base, k + 1, h)
    BY <1>5, <2>3, <2>4, <2>5 DEF AtUri, MethodRead, n
  <2> QED  BY <2>3, <2>6 DEF Onward, Standing, WordStates
<1>7. CASE /\ g.state \in {"UriStart", "Uri"} /\ UriBegun(r, base, g)
           /\ k = UriAt(r) + g.uriLength /\ g.uriLength \in 1 .. n
  <2>0. k < HeadEnd(r)
    BY <1>0, <1>7
  <2>1. CASE g.uriLength < n
    <3>1. c \in UriBytes
      <4>1. g.uriLength + 1 \in 1 .. n /\ k + 1 = UriAt(r) + (g.uriLength + 1)
        BY <1>0, <1>7, <2>1
      <4> QED  BY <1>1, <1>2, <2>0, <4>1
    <3>2. \A t : t \in Targets(g.state, c) <=> t = "Uri"
      BY <1>7, <3>1, ByteKinds, Leads
    <3>3. /\ h.state = "Uri" /\ h.err = g.err /\ h.method = g.method /\ Carried(g, h)
          /\ h.uriStart = g.uriStart /\ h.uriLength = g.uriLength + 1 /\ h.minor = g.minor
      BY <1>4, <1>7, <3>2 DEF CountedAs
    <3>4. UriBegun(r, base, h) /\ k + 1 = UriAt(r) + h.uriLength /\ h.uriLength \in 1 .. n
      BY <1>0, <1>7, <2>1, <3>3 DEF UriBegun
    <3>5. AtUri(r, base, k + 1, h)
      BY <1>5, <3>3, <3>4 DEF AtUri, MethodRead, n
    <3> QED  BY <3>3, <3>5 DEF Onward, Standing, WordStates
  <2>2. CASE g.uriLength = n
    <3>1. c = "SP"
      BY <1>0, <1>1, <1>3, <1>7, <2>0, <2>2
    <3>2. \A t : t \in Targets(g.state, c) <=> t = "UriEnd"
      BY <1>7, <3>1, ByteKinds, Leads
    <3>3. /\ h.state = "UriEnd" /\ h.err = g.err /\ h.method = g.method /\ Carried(g, h)
          /\ h.uriStart = g.uriStart /\ h.uriLength = g.uriLength /\ h.minor = g.minor
      BY <1>4, <1>7, <3>2 DEF CountedAs
    <3>4. k + 1 = VersionAt(r) - 5
      BY <1>0, <1>7, <2>2
    <3>5. LineRead(r, base, h)
      BY <1>5, <1>7, <2>2, <3>3 DEF LineRead, MethodRead, UriBegun, n
    <3>6. AtVersion(r, base, k + 1, h)
      BY <1>5, <3>3, <3>4, <3>5 DEF AtVersion
    <3> QED  BY <3>3, <3>6 DEF Onward, Standing, WordStates
  <2> QED  BY <1>0, <1>7, <2>1, <2>2
<1> QED  BY <1>6, <1>7 DEF AtUri, n

\* A number so far, and with one more digit.
LEMMA NumberStep ==
  ASSUME NEW digits \in Seq(Digits)
  PROVE  LET n == Len(digits)
             read == NumberUpto(digits)
         IN  /\ n \in Nat /\ read[n] = Number(digits)
             /\ n >= 1 => read[1] = DigitValue[digits[1]]
             /\ \A i \in 1 .. n - 1 : read[i + 1] = 10 * read[i] + DigitValue[digits[i + 1]]
             /\ n = 0 => Number(digits) = 0
<1> DEFINE n == Len(digits)
           read == NumberUpto(digits)
<1>1. n \in Nat /\ \A i \in 1 .. n : digits[i] \in Digits
  OBVIOUS
<1>2. /\ read[0] = 0 /\ read[n] = Number(digits)
      /\ \A i \in 1 .. n : read[i] = 10 * read[i - 1] + DigitValue[digits[i]]
  BY NumberUptoIs
<1> HIDE DEF n, read
<1>3. ASSUME n >= 1 PROVE read[1] = DigitValue[digits[1]]
  <2>1. 1 \in 1 .. n
    BY <1>1, <1>3
  <2>2. DigitValue[digits[1]] \in Nat
    BY <1>1, <2>1, DigitsAre
  <2>3. read[1] = 10 * read[1 - 1] + DigitValue[digits[1]]
    BY <1>2, <2>1
  <2> QED  BY <1>2, <2>2, <2>3
<1>4. ASSUME NEW i \in 1 .. n - 1 PROVE read[i + 1] = 10 * read[i] + DigitValue[digits[i + 1]]
  <2>1. i + 1 \in 1 .. n /\ i + 1 - 1 = i
    BY <1>1
  <2>2. read[i + 1] = 10 * read[i + 1 - 1] + DigitValue[digits[i + 1]]
    BY <1>2, <2>1
  <2> QED  BY <2>1, <2>2
<1> QED  BY <1>1, <1>2, <1>3, <1>4 DEF n, read

LEMMA VersionStands ==
  ASSUME NEW r, NEW base, NEW k, NEW g, LineRead(r, base, g),
         \/ g.state = "VerMajor" /\ k - VersionAt(r) \in 1 .. Len(r.major)
              /\ g.major = NumberUpto(r.major)[k - VersionAt(r)]
         \/ g.state = "VerDot" /\ k = MinorAt(r) /\ MajorRead(r, g)
         \/ g.state = "VerMinor" /\ MajorRead(r, g) /\ k - MinorAt(r) \in 1 .. Len(r.minor)
              /\ g.minor = NumberUpto(r.minor)[k - MinorAt(r)]
         \/ g.state = "VerEnd" /\ k = FieldsAt(r) - 1 /\ MajorRead(r, g) /\ MinorRead(r, g),
         g.state \in {"UriEnd", "VerHttpSlash", "VerMajor", "VerDot"} => g.minor = 0
  PROVE  AtVersion(r, base, k, g)
BY DEF AtVersion

LEMMA OneDigitMore ==
  ASSUME NEW k \in Nat, NEW start \in Nat, NEW n \in Nat, NEW i, i = k - start, i \in 1 .. n, i < n
  PROVE  /\ i \in 1 .. n - 1 /\ i + 1 \in 1 .. n
         /\ k + 1 = start + (i + 1) /\ k + 1 - start = i + 1
OBVIOUS

LEMMA VersionMoves ==
  ASSUME NEW r, NEW base, NEW k, NEW g, Reading(r, base, k, g), AtVersion(r, base, k, g),
         g.state \notin {"UriEnd", "VerEnd"}
  PROVE  Onward(r, base, k, g, Moves(g), 0)
<1> DEFINE c == Next1
           h == Moves(g)
           e == Encoded(r)
           a == Len(r.major)
           b == Len(r.minor)
           V == VersionAt(r)
           M == MinorAt(r)
           ra == NumberUpto(r.major)
           rb == NumberUpto(r.minor)
<1> SUFFICES Onward(r, base, k, g, h, 0)
  OBVIOUS
<1>0. /\ r \in Request /\ WellFormed(r) /\ DOMAIN g = CounterFields /\ k \in Nat
      /\ r.major \in Seq(Digits) /\ r.minor \in Seq(Digits) /\ LineRead(r, base, g)
  BY DEF Reading, Counters, WellFormed, AtVersion
<1>n. /\ V \in Nat /\ M \in Nat /\ a \in Nat \ {0} /\ b \in Nat /\ FieldsAt(r) \in Nat
      /\ M = V + a + 1 /\ FieldsAt(r) = M + b + 2 /\ HeadEnd(r) \in Nat /\ FieldsAt(r) < HeadEnd(r)
  BY <1>0, PlacesAre, LineInside
<1>1. k < HeadEnd(r) => c = e[k + 1]
  BY NextIs
<1>2. Line(r, e)
  BY <1>0, LineBytes
<1>3. \A i \in 1 .. a : e[V + i] = r.major[i] /\ r.major[i] \in Digits
  BY <1>0, <1>2 DEF Line
<1>4. \A i \in 1 .. b : e[M + i] = r.minor[i] /\ r.minor[i] \in Digits
  BY <1>0, <1>2 DEF Line
<1>5. e[M] = "." /\ e[M + b + 1] = "CR"
  <2>1. e[M] = "." /\ e[FieldsAt(r) - 1] = "CR"
    BY <1>2 DEF Line
  <2>2. FieldsAt(r) - 1 = M + b + 1
    BY <1>n
  <2> QED  BY <2>1, <2>2
<1>6. /\ ra[1] = DigitValue[r.major[1]] /\ ra[a] = Number(r.major)
      /\ \A i \in 1 .. a - 1 : ra[i + 1] = 10 * ra[i] + DigitValue[r.major[i + 1]]
  <2>0. Len(r.major) >= 1
    BY <1>n
  <2>1. ra[1] = DigitValue[r.major[1]]
    BY <1>0, <2>0, NumberStep
  <2>2. ra[a] = Number(r.major)
    BY <1>0, NumberStep
  <2>3. \A i \in 1 .. a - 1 : ra[i + 1] = 10 * ra[i] + DigitValue[r.major[i + 1]]
    BY <1>0, NumberStep
  <2> QED  BY <2>1, <2>2, <2>3
<1>7. /\ b >= 1 => rb[1] = DigitValue[r.minor[1]]
      /\ rb[b] = Number(r.minor) /\ (b = 0 => Number(r.minor) = 0)
      /\ \A i \in 1 .. b - 1 : rb[i + 1] = 10 * rb[i] + DigitValue[r.minor[i + 1]]
  BY <1>0, NumberStep
<1>8. AtVersion(r, base, k, g) <=>
        /\ LineRead(r, base, g)
        /\ \/ g.state = "UriEnd" /\ k = V - 5
           \/ g.state = "VerHttpSlash" /\ k = V
           \/ g.state = "VerMajor" /\ k - V \in 1 .. a /\ g.major = ra[k - V]
           \/ g.state = "VerDot" /\ k = M /\ MajorRead(r, g)
           \/ g.state = "VerMinor" /\ MajorRead(r, g) /\ k - M \in 1 .. b /\ g.minor = rb[k - M]
           \/ g.state = "VerEnd" /\ k = FieldsAt(r) - 1 /\ MajorRead(r, g) /\ MinorRead(r, g)
        /\ g.state \in {"UriEnd", "VerHttpSlash", "VerMajor", "VerDot"} => g.minor = 0
  BY DEF AtVersion
<1>k. PICK next : next = k + 1 /\ next \in Nat
  BY <1>0
<1> DEFINE Onwards ==
      /\ Carried(g, h) /\ h.err = g.err
      /\ \/ h.state = "VerMajor" /\ next - V \in 1 .. a /\ h.major = ra[next - V]
         \/ h.state = "VerDot" /\ next = M /\ MajorRead(r, h)
         \/ h.state = "VerMinor" /\ MajorRead(r, h) /\ next - M \in 1 .. b /\ h.minor = rb[next - M]
         \/ h.state = "VerEnd" /\ next = FieldsAt(r) - 1 /\ MajorRead(r, h) /\ MinorRead(r, h)
      /\ h.state \in {"VerMajor", "VerDot"} => h.minor = 0
      /\ h.method = g.method /\ h.uriStart = g.uriStart /\ h.uriLength = g.uriLength
<1> HIDE DEF c, h, e, a, b, V, M, ra, rb
<1>9. Onwards => Onward(r, base, k, g, h, 0)
  <2> SUFFICES ASSUME Onwards PROVE Onward(r, base, k, g, h, 0)
    OBVIOUS
  <2>1. LineRead(r, base, h)
    BY <1>0 DEF LineRead, MethodRead, UriBegun
  <2>2. h.state \in {"VerMajor", "VerDot", "VerMinor", "VerEnd"}
    OBVIOUS
  <2>3. \/ h.state = "VerMajor" /\ next - VersionAt(r) \in 1 .. Len(r.major)
          /\ h.major = NumberUpto(r.major)[next - VersionAt(r)]
        \/ h.state = "VerDot" /\ next = MinorAt(r) /\ MajorRead(r, h)
        \/ h.state = "VerMinor" /\ MajorRead(r, h) /\ next - MinorAt(r) \in 1 .. Len(r.minor)
          /\ h.minor = NumberUpto(r.minor)[next - MinorAt(r)]
        \/ h.state = "VerEnd" /\ next = FieldsAt(r) - 1 /\ MajorRead(r, h) /\ MinorRead(r, h)
    BY DEF a, b, V, M, ra, rb
  <2>4. h.state \in {"UriEnd", "VerHttpSlash", "VerMajor", "VerDot"} => h.minor = 0
    BY <2>2
  <2>5. Carried(g, h) /\ h.err = g.err
    OBVIOUS
  <2> HIDE DEF Onwards
  <2>6. AtVersion(r, base, next, h)
    BY <2>1, <2>3, <2>4, VersionStands
  <2> QED  BY <2>2, <2>5, <2>6, <1>k DEF Onward, Standing, WordStates
<1>10. ASSUME NEW to, \A t : t \in Targets(g.state, c) <=> t = to
       PROVE  CountedAs(g, h, c, to) /\ Carried(g, h)
  BY <1>0, <1>10, Led1 DEF c, h
<1>11. ASSUME NEW to, to \in {"VerMajor", "VerDot", "VerMinor", "VerEnd"},
              \A t : t \in Targets(g.state, c) <=> t = to,
              g.state \in {"VerHttpSlash", "VerMajor", "VerDot", "VerMinor"}
       PROVE  /\ Carried(g, h) /\ h.err = g.err /\ h.state = to
              /\ h.method = g.method /\ h.uriStart = g.uriStart /\ h.uriLength = g.uriLength
              /\ h.major = IF to # "VerMajor" THEN g.major
                           ELSE IF g.state = "VerHttpSlash" THEN DigitValue[c] ELSE 10 * g.major + DigitValue[c]
              /\ h.minor = IF to # "VerMinor" THEN g.minor
                           ELSE IF g.state = "VerDot" THEN DigitValue[c] ELSE 10 * g.minor + DigitValue[c]
  BY <1>10, <1>11 DEF CountedAs
<1>12. CASE g.state = "VerHttpSlash" /\ k = V
  <2>1. 1 \in 1 .. a /\ k < HeadEnd(r) /\ next - V = 1 /\ k + 1 = V + 1
    BY <1>k, <1>n, <1>12
  <2>2. c = r.major[1] /\ c \in Digits
    BY <1>1, <1>3, <2>1
  <2>3. \A t : t \in Targets(g.state, c) <=> t = "VerMajor"
    BY <1>12, <2>2, Leads
  <2>4. Onwards
    BY <1>6, <1>8, <1>11, <1>12, <2>1, <2>2, <2>3
  <2> QED  BY <1>9, <2>4
<1>13. CASE g.state = "VerMajor" /\ k - V \in 1 .. a /\ g.major = ra[k - V]
  <2>0. k < HeadEnd(r)
    BY <1>0, <1>n, <1>13
  <2>1. CASE k - V < a
    <3> DEFINE i == k - V
    <3>1. i \in 1 .. a - 1 /\ i + 1 \in 1 .. a /\ k + 1 = V + (i + 1) /\ next - V = i + 1
      BY <1>0, <1>k, <1>n, <1>13, <2>1, OneDigitMore
    <3> HIDE DEF i
    <3>2. c = r.major[i + 1] /\ c \in Digits
      BY <1>1, <1>3, <2>0, <3>1
    <3>3. \A t : t \in Targets(g.state, c) <=> t = "VerMajor"
      BY <1>13, <3>2, ByteKinds, Leads
    <3>4. g.major = ra[i]
      BY <1>13 DEF i
    <3>5. ra[i + 1] = 10 * ra[i] + DigitValue[c]
      BY <1>6, <3>1, <3>2
    <3>6. h.major = 10 * g.major + DigitValue[c] /\ h.state = "VerMajor" /\ h.minor = g.minor
      BY <1>11, <1>13, <3>3
    <3>7. Onwards
      BY <1>8, <1>11, <1>13, <3>1, <3>3, <3>4, <3>5, <3>6
    <3> QED  BY <1>9, <3>7
  <2>2. CASE k - V = a
    <3>1. k + 1 = M /\ next = M
      BY <1>0, <1>n, <1>k, <2>2
    <3>2. c = "."
      BY <1>1, <1>5, <2>0, <3>1
    <3>3. \A t : t \in Targets(g.state, c) <=> t = "VerDot"
      BY <1>13, <3>2, ByteKinds, Leads
    <3>4. MajorRead(r, h)
      BY <1>6, <1>11, <1>13, <2>2, <3>3 DEF MajorRead
    <3>5. Onwards
      BY <1>8, <1>11, <1>13, <3>1, <3>3, <3>4
    <3> QED  BY <1>9, <3>5
  <2> QED  BY <1>0, <1>n, <1>13, <2>1, <2>2
<1>14. CASE g.state = "VerDot" /\ k = M /\ MajorRead(r, g)
  <2>0. k < HeadEnd(r)
    BY <1>n, <1>14
  <2>1. CASE b >= 1
    <3>1. 1 \in 1 .. b /\ next - M = 1 /\ k + 1 = M + 1
      BY <1>k, <1>n, <1>14, <2>1
    <3>2. c = r.minor[1] /\ c \in Digits
      BY <1>1, <1>4, <2>0, <3>1
    <3>3. \A t : t \in Targets(g.state, c) <=> t = "VerMinor"
      BY <1>14, <3>2, ByteKinds, Leads
    <3>4. MajorRead(r, h)
      BY <1>11, <1>14, <3>3 DEF MajorRead
    <3>5. Onwards
      BY <1>7, <1>8, <1>11, <1>14, <2>1, <3>1, <3>2, <3>3, <3>4
    <3> QED  BY <1>9, <3>5
  <2>2. CASE b = 0
    <3>1. k + 1 = M + b + 1 /\ next = FieldsAt(r) - 1
      BY <1>k, <1>n, <1>14, <2>2
    <3>2. c = "CR"
      BY <1>1, <1>5, <2>0, <3>1
    <3>3. \A t : t \in Targets(g.state, c) <=> t = "VerEnd"
      BY <1>14, <3>2, ByteKinds, Leads
    <3>4. MajorRead(r, h) /\ MinorRead(r, h)
      BY <1>7, <1>8, <1>11, <1>14, <2>2, <3>3 DEF MajorRead, MinorRead
    <3>5. Onwards
      BY <1>8, <1>11, <1>14, <3>1, <3>3, <3>4
    <3> QED  BY <1>9, <3>5
  <2> QED  BY <1>n, <2>1, <2>2
<1>15. CASE g.state = "VerMinor" /\ MajorRead(r, g) /\ k - M \in 1 .. b /\ g.minor = rb[k - M]
  <2>0. k < HeadEnd(r)
    BY <1>0, <1>n, <1>15
  <2>1. CASE k - M < b
    <3> DEFINE i == k - M
    <3>1. i \in 1 .. b - 1 /\ i + 1 \in 1 .. b /\ k + 1 = M + (i + 1) /\ next - M = i + 1
      BY <1>0, <1>k, <1>n, <1>15, <2>1, OneDigitMore
    <3> HIDE DEF i
    <3>2. c = r.minor[i + 1] /\ c \in Digits
      BY <1>1, <1>4, <2>0, <3>1
    <3>3. \A t : t \in Targets(g.state, c) <=> t = "VerMinor"
      BY <1>15, <3>2, ByteKinds, Leads
    <3>4. g.minor = rb[i]
      BY <1>15 DEF i
    <3>5. rb[i + 1] = 10 * rb[i] + DigitValue[c]
      BY <1>7, <3>1, <3>2
    <3>6. h.minor = 10 * g.minor + DigitValue[c] /\ h.state = "VerMinor" /\ h.major = g.major
      BY <1>11, <1>15, <3>3
    <3>7. MajorRead(r, h)
      BY <1>15, <3>6 DEF MajorRead
    <3>8. Onwards
      BY <1>11, <1>15, <3>1, <3>3, <3>4, <3>5, <3>6, <3>7
    <3> QED  BY <1>9, <3>8
  <2>2. CASE k - M = b
    <3>1. k + 1 = M + b + 1 /\ next = FieldsAt(r) - 1
      BY <1>k, <1>0, <1>n, <2>2
    <3>2. c = "CR"
      BY <1>1, <1>5, <2>0, <3>1
    <3>3. \A t : t \in Targets(g.state, c) <=> t = "VerEnd"
      BY <1>15, <3>2, ByteKinds, Leads
    <3>4. MajorRead(r, h) /\ MinorRead(r, h)
      BY <1>7, <1>11, <1>15, <2>2, <3>3 DEF MajorRead, MinorRead
    <3>5. Onwards
      BY <1>11, <1>15, <3>1, <3>3, <3>4
    <3> QED  BY <1>9, <3>5
  <2> QED  BY <1>0, <1>n, <1>15, <2>1, <2>2
<1> QED  BY <1>8, <1>12, <1>13, <1>14, <1>15

LEMMA VersionEnds ==
  ASSUME NEW r, NEW base, NEW k, NEW g, Reading(r, base, k, g), AtVersion(r, base, k, g),
         g.state = "VerEnd"
  PROVE  Onward(r, base, k, g, IF g.major # 1 /\ g.minor \notin {0, 1}
                               THEN Rejected(g, "UnsupportedVersion") ELSE Moves(g), 0)
<1>0. /\ r \in Request /\ WellFormed(r) /\ DOMAIN g = CounterFields /\ k \in Nat
      /\ LineRead(r, base, g) /\ k = FieldsAt(r) - 1 /\ MajorRead(r, g) /\ MinorRead(r, g)
  BY DEF Reading, Counters, AtVersion
<1>1. CASE g.major # 1 /\ g.minor \notin {0, 1}
  <2> DEFINE h == Rejected(g, "UnsupportedVersion")
  <2>1. h.state = "Died" /\ h.err = "UnsupportedVersion" /\ Carried(g, h)
    BY <1>0 DEF Rejected, Carried, CounterFields
  <2>2. MeaningOf(r) = "UnsupportedVersion"
    BY <1>0, <1>1 DEF MeaningOf, LineRead, MethodRead, MajorRead, MinorRead
  <2> HIDE DEF h
  <2>3. Onward(r, base, k, g, h, 0)
    BY <2>1, <2>2 DEF Onward, NoError
  <2> QED  BY <1>1, <2>3 DEF h
<1>2. CASE ~(g.major # 1 /\ g.minor \notin {0, 1})
  <2> DEFINE h == Moves(g)
             c == Next1
  <2>1. c = "LF"
    <3>1. Encoded(r)[FieldsAt(r)] = "LF"
      BY <1>0, LineBytes DEF Line
    <3>2. k < HeadEnd(r) /\ k + 1 = FieldsAt(r)
      BY <1>0, PlacesAre, LineInside
    <3> QED  BY <3>1, <3>2, NextIs
  <2> HIDE DEF c
  <2>2. \A t : t \in Targets(g.state, c) <=> t = "CRLF"
    BY <2>1, Leads
  <2>3. CountedAs(g, h, c, "CRLF") /\ Carried(g, h)
    BY <1>0, <2>2, Led1 DEF c
  <2> HIDE DEF h
  <2>4. /\ h.state = "CRLF" /\ h.err = g.err /\ h.method = g.method /\ h.uriStart = g.uriStart
        /\ h.uriLength = g.uriLength /\ h.major = g.major /\ h.minor = g.minor
    BY <2>3 DEF CountedAs
  <2>5. HeadRead(r, base, h)
    BY <1>0, <1>2, <2>4 DEF HeadRead, LineRead, MethodRead, UriBegun, MajorRead, MinorRead, Supported
  <2>6. k + 1 = FieldAt(r)[0]
    BY <1>0, FieldsAtIs, PlacesAre
  <2>7. AtField(r, base, k + 1, h, 0)
    BY <2>4, <2>5, <2>6 DEF AtField
  <2>8. Onward(r, base, k, g, h, 0)
    BY <2>3, <2>4, <2>7 DEF Onward, Standing, WordStates
  <2> QED  BY <1>2, <2>8 DEF h
<1> QED  BY <1>1, <1>2

-----------------------------------------------------------------------------
(* The fields.                                                               *)

\* Where field j + 1 lies and what it says.
LEMMA FieldBytesAre ==
  ASSUME NEW r \in Request, WellFormed(r), NEW j \in Nat, j < Len(r.fields)
  PROVE  LET at == FieldAt(r)[j]
             v == Value(r, j + 1)
             e == Encoded(r)
         IN  /\ at \in Nat /\ Len(v) \in Nat /\ at + Len(v) + 7 <= HeadEnd(r) /\ HeadEnd(r) \in Nat
             /\ FieldAt(r)[j + 1] = at + Len(v) + 5
             /\ e[at + 1] = Name(r, j + 1) /\ e[at + 2] = ":" /\ e[at + 3] = "SP"
             /\ \A l \in 1 .. Len(v) : e[at + 3 + l] = v[l] /\ v[l] \in ValueBytes
             /\ e[at + 4 + Len(v)] = "CR" /\ e[at + 5 + Len(v)] = "LF"
             /\ Name(r, j + 1) \in NameBytes /\ v \in Seq(ValueBytes)
             /\ Len(v) > 0 => v[1] # "SP"
<1> DEFINE at == FieldAt(r)[j]
           v == Value(r, j + 1)
           e == Encoded(r)
           n == Len(r.fields)
<1>1. n \in Nat /\ HeadEnd(r) \in Nat
  BY PlacesAre
<1>2. j \in 0 .. n /\ j + 1 \in 1 .. n /\ j + 1 \in 0 .. n /\ j + 1 - 1 = j
  BY <1>1
<1>3. j + 1 \in DOMAIN r.fields
  BY <1>2 DEF Request
<1>4. Name(r, j + 1) \in NameBytes /\ v \in Seq(ValueBytes) /\ (v # <<>> => v[1] # "SP")
  BY <1>3 DEF WellFormed, Name, Value
<1>5. Len(v) \in Nat /\ (Len(v) > 0 => v[1] # "SP") /\ \A l \in 1 .. Len(v) : v[l] \in ValueBytes
  BY <1>4
<1>6. at \in Nat /\ FieldAt(r)[n] \in Nat /\ FieldAt(r)[j + 1] <= FieldAt(r)[n]
  BY <1>1, <1>2, FieldsAtIs
<1>7. FieldAt(r)[j + 1] = at + Len(v) + 5
  BY <1>2, FieldsAtIs
<1>8. FieldLaid(r, e, j + 1, at)
  BY <1>2, LineBytes DEF Laid
<1>9. HeadEnd(r) = FieldAt(r)[n] + 2
  BY DEF HeadEnd
<1> HIDE DEF at, v, e, n
<1>10. at + Len(v) + 7 <= HeadEnd(r)
  BY <1>5, <1>6, <1>7, <1>9
<1>11. /\ e[at + 1] = Name(r, j + 1) /\ e[at + 2] = ":" /\ e[at + 3] = "SP"
       /\ \A l \in 1 .. Len(v) : e[at + 3 + l] = v[l]
       /\ e[at + 4 + Len(v)] = "CR" /\ e[at + 5 + Len(v)] = "LF"
  BY <1>8 DEF FieldLaid, v
<1> QED  BY <1>1, <1>4, <1>5, <1>6, <1>7, <1>10, <1>11 DEF at, v, e

\* The first bad field says what is wrong with the request.
LEMMA FirstBad ==
  ASSUME NEW r \in Request, WellFormed(r), r.method \in Methods, Supported(r),
         NEW j \in Nat, j < Len(r.fields), FieldsFine(r, j), FieldFails(r, j + 1)
  PROVE  MeaningOf(r) = FieldError(Name(r, j + 1), Value(r, j + 1))
<1> DEFINE D == DOMAIN r.fields
           First(i) == FieldFails(r, i) /\ \A l \in D : FieldFails(r, l) => i <= l
<1>1. D = 1 .. Len(r.fields) /\ Len(r.fields) \in Nat
  BY PlacesAre DEF Request
<1>2. j + 1 \in D
  BY <1>1
<1> HIDE DEF D
<1>3. \A i \in D : i \in Nat /\ (i \in 1 .. j \/ j + 1 <= i)
  BY <1>1
<1>4. First(j + 1)
  BY <1>3 DEF FieldsFine
<1>5. \A i \in D : First(i) => i = j + 1
  BY <1>2, <1>3, <1>4
<1>6. FirstFailing(r) = CHOOSE i \in D : First(i)
  BY DEF FirstFailing, D
<1>7. FirstFailing(r) = j + 1
  BY <1>2, <1>4, <1>5, <1>6
<1>8. \E i \in DOMAIN r.fields : FieldFails(r, i)
  BY <1>2 DEF D
<1> HIDE DEF First
<1> QED  BY <1>7, <1>8 DEF MeaningOf, Supported, Name, Value

HeadStates == {"CRLF", "Header", "Colon", "Value", "CRLFCR", "CR", "Died"}
\* A byte of a field begins or grows the view it belongs to.
ViewsMoved(g, h, to) ==
  /\ h.nameStart = IF g.state = "CRLF" /\ to = "Header" THEN readPos + 1 ELSE g.nameStart
  /\ h.nameLength = IF g.state = "Header" /\ to = "Header"
                    THEN g.nameLength + 1 ELSE g.nameLength
  /\ h.valueStart = IF g.state = "Colon" /\ to = "Value" THEN readPos + 1 ELSE g.valueStart
  /\ h.valueLength = IF g.state = "Value" /\ to = "Value"
                     THEN g.valueLength + 1 ELSE g.valueLength

LeadsOnly(s, c, to) == \A t : t \in Targets(s, c) <=> t = to

LEMMA FieldLed ==
  ASSUME NEW r, NEW base, NEW g, DOMAIN g = CounterFields, HeadRead(r, base, g),
         g.state \in HeadStates, NEW to \in HeadStates,
         LeadsOnly(g.state, Next1, to)
  PROVE  LET h == Moves(g)
         IN  /\ Carried(g, h) /\ HeadRead(r, base, h) /\ h.state = to
             /\ h.err = (IF to = "Died" THEN "ExceptedContent" ELSE g.err)
             /\ ViewsMoved(g, h, to)
<1> DEFINE h == Moves(g)
<1>1. CountedAs(g, h, Next1, to) /\ Carried(g, h)
  BY Led1 DEF LeadsOnly
<1> HIDE DEF h
<1>2. /\ h.method = g.method /\ h.uriStart = g.uriStart /\ h.uriLength = g.uriLength
      /\ h.major = g.major /\ h.minor = g.minor
  BY <1>1 DEF CountedAs, HeadStates
<1>3. HeadRead(r, base, h)
  BY <1>2 DEF HeadRead, LineRead, MethodRead, UriBegun, MajorRead, MinorRead
<1>4. ViewsMoved(g, h, to)
  BY <1>1 DEF CountedAs, ViewsMoved
<1>5. h.state = to /\ h.err = (IF to = "Died" THEN "ExceptedContent" ELSE g.err)
  BY <1>1 DEF CountedAs
<1> QED  BY <1>1, <1>3, <1>4, <1>5 DEF h

\* Field j + 1 of request r, when the parser has come to it.
Named(r, base, g, j) ==
  j < Len(r.fields) /\ g.nameStart = base + FieldAt(r)[j] + 1 /\ g.nameLength = 1
Valued(r, base, g, j) == Named(r, base, g, j) /\ g.valueStart = base + FieldAt(r)[j] + 4

StandsAt(r, base, k, g, j, at, length) ==
  /\ HeadRead(r, base, g)
  /\ \/ g.state = "CRLF" /\ k = at
     \/ g.state = "Header" /\ Named(r, base, g, j) /\ k = at + 1
     \/ g.state = "Colon" /\ Named(r, base, g, j) /\ (k = at + 2 \/ k = at + 3)
     \/ g.state = "Value" /\ Valued(r, base, g, j) /\ g.valueLength \in 1 .. length
          /\ k = at + 3 + g.valueLength
     \/ g.state = "CR" /\ Valued(r, base, g, j) /\ g.valueLength = length /\ length > 0
          /\ k = at + 4 + length
     \/ g.state = "CRLFCR" /\ j = Len(r.fields) /\ k = at + 1

LEMMA FieldStands ==
  ASSUME NEW r, NEW base, NEW k, NEW g, NEW j
  PROVE  AtField(r, base, k, g, j) <=> 
           StandsAt(r, base, k, g, j, FieldAt(r)[j], Len(Value(r, j + 1)))
BY DEF AtField, StandsAt, Named, Valued

LEMMA FieldMoves ==
  ASSUME NEW r, NEW base, NEW k, NEW g, NEW j \in Nat, Reading(r, base, k, g),
         AtField(r, base, k, g, j), j <= Len(r.fields), g.state # "CR"
  PROVE  Onward(r, base, k, g, Moves(g), j)
<1> DEFINE c == Next1
           h == Moves(g)
           e == Encoded(r)
           F == Len(r.fields)
           at == FieldAt(r)[j]
           v == Value(r, j + 1)
           len == Len(v)
           H == HeadEnd(r)
<1> SUFFICES Onward(r, base, k, g, h, j)
  OBVIOUS
<1>0. /\ r \in Request /\ WellFormed(r) /\ DOMAIN g = CounterFields /\ k \in Nat /\ base \in Nat
      /\ readPos = base + k
  BY DEF Reading, Counters
<1>1. k < H => c = e[k + 1]
  BY NextIs
<1>2. F \in Nat /\ H \in Nat
  BY <1>0, PlacesAre
<1>3. at \in Nat
  <2>1. j \in 0 .. F
    BY <1>2
  <2> QED  BY <1>0, <2>1, FieldsAtIs
<1>4. j < F => /\ len \in Nat /\ at + len + 7 <= H
               /\ e[at + 1] = Name(r, j + 1) /\ e[at + 2] = ":" /\ e[at + 3] = "SP"
               /\ \A l \in 1 .. len : e[at + 3 + l] = v[l] /\ v[l] \in ValueBytes
               /\ e[at + 4 + len] = "CR" /\ Name(r, j + 1) \in NameBytes
               /\ len > 0 => v[1] # "SP"
  BY <1>0, FieldBytesAre
<1>5. j = F => H = at + 2 /\ e[at + 1] = "CR" /\ e[at + 2] = "LF"
  <2>1. e[H - 1] = "CR" /\ e[H] = "LF"
    BY <1>0, LineBytes DEF Laid
  <2>2. j = F => H = at + 2
    BY DEF HeadEnd
  <2>3. j = F => H - 1 = at + 1
    BY <1>3, <2>2
  <2> QED  BY <2>1, <2>2, <2>3
<1>6. /\ HeadRead(r, base, g)
      /\ \/ g.state = "CRLF" /\ k = at
         \/ g.state = "Header" /\ Named(r, base, g, j) /\ k = at + 1
         \/ g.state = "Colon" /\ Named(r, base, g, j) /\ (k = at + 2 \/ k = at + 3)
         \/ g.state = "Value" /\ Valued(r, base, g, j) /\ g.valueLength \in 1 .. len
              /\ k = at + 3 + g.valueLength
         \/ g.state = "CRLFCR" /\ j = F /\ k = at + 1
  <2>1. StandsAt(r, base, k, g, j, at, len)
    BY FieldStands
  <2> QED  BY <2>1 DEF StandsAt
<1>7. NameView(g, readPos) /\ ValueView(g, readPos)
  BY DEF Reading, Counters
<1>8. ASSUME NEW k1, AtField(r, base, k1, h, j), k1 = k + 1, h.state \in HeadStates \ {"Died"},
             Carried(g, h), h.err = g.err
      PROVE  Onward(r, base, k, g, h, j)
  BY <1>8 DEF Onward, Standing, HeadStates, WordStates
<1>9. \A k1 : AtField(r, base, k1, h, j) <=>
           /\ HeadRead(r, base, h)
           /\ \/ h.state = "CRLF" /\ k1 = at
              \/ h.state = "Header" /\ Named(r, base, h, j) /\ k1 = at + 1
              \/ h.state = "Colon" /\ Named(r, base, h, j) /\ (k1 = at + 2 \/ k1 = at + 3)
              \/ h.state = "Value" /\ Valued(r, base, h, j) /\ h.valueLength \in 1 .. len
                   /\ k1 = at + 3 + h.valueLength
              \/ h.state = "CR" /\ Valued(r, base, h, j) /\ h.valueLength = len /\ len > 0
                   /\ k1 = at + 4 + len
              \/ h.state = "CRLFCR" /\ j = Len(r.fields) /\ k1 = at + 1
  <2> TAKE k1
  <2>1. AtField(r, base, k1, h, j) <=> StandsAt(r, base, k1, h, j, at, len)
    BY FieldStands
  <2> QED  BY <2>1 DEF StandsAt
<1>k. PICK k1 : k1 = k + 1 /\ k1 \in Nat
  BY <1>0
<1>w. /\ Named(r, base, g, j) <=> j < F /\ g.nameStart = base + at + 1 /\ g.nameLength = 1
      /\ Valued(r, base, g, j) <=> Named(r, base, g, j) /\ g.valueStart = base + at + 4
      /\ Named(r, base, h, j) <=> j < F /\ h.nameStart = base + at + 1 /\ h.nameLength = 1
      /\ Valued(r, base, h, j) <=> Named(r, base, h, j) /\ h.valueStart = base + at + 4
  BY DEF Named, Valued
<1>10. ASSUME NEW to \in HeadStates, g.state \in HeadStates, \A t : t \in Targets(g.state, c) <=> t = to
       PROVE  /\ Carried(g, h) /\ HeadRead(r, base, h) /\ h.state = to
              /\ h.err = (IF to = "Died" THEN "ExceptedContent" ELSE g.err)
              /\ h.nameStart = IF g.state = "CRLF" /\ to = "Header" THEN readPos + 1 ELSE g.nameStart
              /\ h.nameLength = IF g.state = "Header" /\ to = "Header"
                               THEN g.nameLength + 1 ELSE g.nameLength
              /\ h.valueStart = IF g.state = "Colon" /\ to = "Value" THEN readPos + 1 ELSE g.valueStart
              /\ h.valueLength = IF g.state = "Value" /\ to = "Value"
                                THEN g.valueLength + 1 ELSE g.valueLength
  <2>1. /\ Carried(g, h) /\ HeadRead(r, base, h) /\ h.state = to
        /\ h.err = (IF to = "Died" THEN "ExceptedContent" ELSE g.err)
        /\ ViewsMoved(g, h, to)
    <3>1. LeadsOnly(g.state, Next1, to)
      BY <1>10 DEF LeadsOnly
    <3> QED  BY <1>0, <1>6, <1>10, <3>1, FieldLed
  <2> QED  BY <2>1 DEF ViewsMoved
<1> HIDE DEF c, h, e, F, at, len, H, v
<1>11. CASE g.state = "CRLF" /\ k = at /\ j < F
  <2>1. c = Name(r, j + 1) /\ c \in NameBytes
    BY <1>1, <1>2, <1>3, <1>4, <1>11
  <2>2. \A t : t \in Targets(g.state, c) <=> t = "Header"
    BY <1>11, <2>1, ByteKinds, Leads
  <2>3. /\ Carried(g, h) /\ HeadRead(r, base, h) /\ h.state = "Header" /\ h.err = g.err
        /\ h.nameStart = readPos + 1 /\ h.nameLength = g.nameLength
    BY <1>10, <1>11, <2>2 DEF HeadStates
  <2>4. g.nameLength = 1
    BY <1>7, <1>11 DEF NameView, InField
  <2>5. Named(r, base, h, j)
    BY <1>0, <1>3, <1>11, <1>w, <2>3, <2>4
  <2>6. AtField(r, base, k1, h, j)
    BY <1>9, <1>11, <1>k, <2>3, <2>5
  <2> QED  BY <1>8, <1>k, <2>3, <2>6 DEF HeadStates
<1>12. CASE g.state = "CRLF" /\ k = at /\ j = F
  <2>1. c = "CR"
    BY <1>1, <1>3, <1>5, <1>12
  <2>2. \A t : t \in Targets(g.state, c) <=> t = "CRLFCR"
    BY <1>12, <2>1, ByteKinds, Leads
  <2>3. /\ Carried(g, h) /\ HeadRead(r, base, h) /\ h.state = "CRLFCR" /\ h.err = g.err
    BY <1>10, <1>12, <2>2 DEF HeadStates
  <2>6. AtField(r, base, k1, h, j)
    BY <1>9, <1>12, <1>k, <2>3 DEF F
  <2> QED  BY <1>8, <1>k, <2>3, <2>6 DEF HeadStates
<1>13. CASE g.state = "CRLFCR" /\ k = at + 1 /\ j = F
  <2>1. c = "LF"
    BY <1>1, <1>3, <1>5, <1>13
  <2>2. \A t : t \in Targets(g.state, c) <=> t = "Died"
    BY <1>13, <2>1, Leads
  <2>3. /\ Carried(g, h) /\ HeadRead(r, base, h) /\ h.state = "Died" /\ h.err = "ExceptedContent"
    BY <1>10, <1>13, <2>2 DEF HeadStates
  <2>4. k + 1 = HeadEnd(r)
    BY <1>3, <1>5, <1>13 DEF H
  <2>5. Whole(r, base, k + 1, h)
    BY <2>3, <2>4 DEF Whole
  <2> QED  BY <1>13, <2>3, <2>5 DEF Onward, F
<1>14. CASE g.state = "Header" /\ Named(r, base, g, j) /\ k = at + 1
  <2>1. c = ":"
    BY <1>1, <1>2, <1>3, <1>4, <1>14, <1>w
  <2>2. \A t : t \in Targets(g.state, c) <=> t = "Colon"
    BY <1>14, <2>1, ByteKinds, Leads
  <2>3. /\ Carried(g, h) /\ HeadRead(r, base, h) /\ h.state = "Colon" /\ h.err = g.err
        /\ h.nameStart = g.nameStart /\ h.nameLength = g.nameLength
    BY <1>10, <1>14, <2>2 DEF HeadStates
  <2>5. Named(r, base, h, j) /\ k1 = at + 2
    BY <1>3, <1>14, <1>w, <1>k, <2>3
  <2>6. AtField(r, base, k1, h, j)
    BY <1>9, <2>3, <2>5
  <2> QED  BY <1>8, <1>k, <2>3, <2>6 DEF HeadStates
<1>15. CASE g.state = "Colon" /\ Named(r, base, g, j) /\ k = at + 2
  <2>1. c = "SP"
    BY <1>1, <1>2, <1>3, <1>4, <1>15, <1>w
  <2>2. \A t : t \in Targets(g.state, c) <=> t = "Colon"
    BY <1>15, <2>1, ByteKinds, Leads
  <2>3. /\ Carried(g, h) /\ HeadRead(r, base, h) /\ h.state = "Colon" /\ h.err = g.err
        /\ h.nameStart = g.nameStart /\ h.nameLength = g.nameLength
    BY <1>10, <1>15, <2>2 DEF HeadStates
  <2>5. Named(r, base, h, j) /\ k1 = at + 3
    BY <1>3, <1>15, <1>w, <1>k, <2>3
  <2>6. AtField(r, base, k1, h, j)
    BY <1>9, <2>3, <2>5
  <2> QED  BY <1>8, <1>k, <2>3, <2>6 DEF HeadStates
<1>16. CASE g.state = "Colon" /\ Named(r, base, g, j) /\ k = at + 3 /\ len > 0
  <2>0. 1 \in 1 .. len /\ k + 1 = at + 3 + 1 /\ k < H /\ j < F
    BY <1>2, <1>3, <1>4, <1>16, <1>w
  <2>1. c \in ValueBytes \ {"SP"}
    BY <1>1, <1>4, <1>16, <2>0
  <2>2. \A t : t \in Targets(g.state, c) <=> t = "Value"
    BY <1>16, <2>1, Leads
  <2>3. /\ Carried(g, h) /\ HeadRead(r, base, h) /\ h.state = "Value" /\ h.err = g.err
        /\ h.nameStart = g.nameStart /\ h.nameLength = g.nameLength
        /\ h.valueStart = readPos + 1 /\ h.valueLength = g.valueLength
    BY <1>10, <1>16, <2>2 DEF HeadStates
  <2>4. g.valueLength = 1
    BY <1>7, <1>16 DEF ValueView, InValue
  <2>5. Named(r, base, h, j) /\ h.valueStart = base + at + 4 /\ k1 = at + 3 + h.valueLength
    BY <1>0, <1>3, <1>16, <1>w, <1>k, <2>3, <2>4
  <2>6. AtField(r, base, k1, h, j)
    BY <1>9, <1>w, <2>0, <2>3, <2>4, <2>5
  <2> QED  BY <1>8, <1>k, <2>3, <2>6 DEF HeadStates
<1>17. CASE g.state = "Colon" /\ Named(r, base, g, j) /\ k = at + 3 /\ len = 0
  <2>0. k + 1 = at + 4 + len /\ k < H /\ j < F
    BY <1>2, <1>3, <1>4, <1>17, <1>w
  <2>1. c = "CR"
    BY <1>1, <1>4, <2>0
  <2>2. \A t : t \notin Targets(g.state, c)
    BY <1>17, <2>1, ByteKinds, Leads
  <2>3. h.state = "Died" /\ h.err = "UnrecognizedChar" /\ Carried(g, h)
    <3>1. RejectedAs("Colon") = "UnrecognizedChar"
      BY DEF RejectedAs
    <3> QED  BY <1>0, <1>17, <2>2, <3>1, Led0 DEF c, h
  <2>4. FieldError(Name(r, j + 1), Value(r, j + 1)) = "UnrecognizedChar"
    <3>1. Value(r, j + 1) = <<>>
      BY <1>0, <1>17, <2>0, FieldBytesAre DEF len, v, F
    <3> QED  BY <3>1 DEF FieldError
  <2>5. FieldFails(r, j + 1)
    BY <2>4 DEF FieldFails, Name, Value
  <2>6. r.method \in Methods /\ Supported(r)
    BY <1>6 DEF HeadRead, LineRead, MethodRead
  <2>7. FieldsFine(r, j) => MeaningOf(r) = "UnrecognizedChar"
    BY <1>0, <2>0, <2>4, <2>5, <2>6, FirstBad DEF F
  <2> QED  BY <2>3, <2>7 DEF Onward, NoError
<1>18. CASE g.state = "Value" /\ Valued(r, base, g, j) /\ g.valueLength \in 1 .. len
              /\ k = at + 3 + g.valueLength
  <2>0. j < F /\ len \in Nat /\ at + len + 7 <= H
    BY <1>4, <1>18, <1>w
  <2>1. CASE g.valueLength < len
    <3>1. g.valueLength + 1 \in 1 .. len /\ k + 1 = at + 3 + (g.valueLength + 1) /\ k < H
      BY <1>2, <1>3, <1>18, <2>0, <2>1
    <3>2. c \in ValueBytes
      BY <1>1, <1>4, <2>0, <3>1
    <3>3. \A t : t \in Targets(g.state, c) <=> t = "Value"
      BY <1>18, <3>2, ByteKinds, Leads
    <3>4. /\ Carried(g, h) /\ HeadRead(r, base, h) /\ h.state = "Value" /\ h.err = g.err
          /\ h.nameStart = g.nameStart /\ h.nameLength = g.nameLength
          /\ h.valueStart = g.valueStart /\ h.valueLength = g.valueLength + 1
      BY <1>10, <1>18, <3>3 DEF HeadStates
    <3>5. Valued(r, base, h, j) /\ k1 = at + 3 + h.valueLength /\ h.valueLength \in 1 .. len
      BY <1>18, <1>w, <1>k, <3>1, <3>4
    <3>6. AtField(r, base, k1, h, j)
      BY <1>9, <3>4, <3>5
    <3> QED  BY <1>8, <1>k, <3>4, <3>6 DEF HeadStates
  <2>2. CASE g.valueLength = len
    <3>1. k + 1 = at + 4 + len /\ k < H /\ len > 0
      BY <1>2, <1>3, <1>18, <2>0, <2>2
    <3>2. c = "CR"
      BY <1>1, <1>4, <2>0, <3>1
    <3>3. \A t : t \in Targets(g.state, c) <=> t = "CR"
      BY <1>18, <3>2, ByteKinds, Leads
    <3>4. /\ Carried(g, h) /\ HeadRead(r, base, h) /\ h.state = "CR" /\ h.err = g.err
          /\ h.nameStart = g.nameStart /\ h.nameLength = g.nameLength
          /\ h.valueStart = g.valueStart /\ h.valueLength = g.valueLength
      BY <1>10, <1>18, <3>3 DEF HeadStates
    <3>5. Valued(r, base, h, j) /\ k1 = at + 4 + len /\ h.valueLength = len
      BY <1>18, <1>w, <1>k, <2>2, <3>1, <3>4
    <3>6. AtField(r, base, k1, h, j)
      BY <1>9, <3>1, <3>4, <3>5
    <3> QED  BY <1>8, <1>k, <3>4, <3>6 DEF HeadStates
  <2> QED  BY <1>18, <2>0, <2>1, <2>2
<1>19. j < F \/ j = F
  BY <1>2 DEF F
<1>20. j < F => len = 0 \/ len > 0
  BY <1>4
<1>21. Named(r, base, g, j) => j < F
  BY <1>w
<1> QED  BY <1>6, <1>11, <1>12, <1>13, <1>14, <1>15, <1>16, <1>17, <1>18, <1>19, <1>20, <1>21

-----------------------------------------------------------------------------
(* The end of a field.                                                       *)

LEMMA FieldViews ==
  ASSUME NEW r, NEW base, NEW k, NEW g, NEW j \in Nat, Reading(r, base, k, g),
         Valued(r, base, g, j), g.valueLength = Len(Value(r, j + 1))
  PROVE  /\ View(g.nameStart, g.nameLength) = <<Name(r, j + 1)>>
         /\ View(g.valueStart, g.valueLength) = Value(r, j + 1)
<1> DEFINE at == FieldAt(r)[j]
           v == Value(r, j + 1)
           n == Len(v)
           e == Encoded(r)
           H == HeadEnd(r)
<1>1. /\ r \in Request /\ WellFormed(r) /\ base \in Nat /\ j < Len(r.fields)
      /\ g.nameStart = base + at + 1 /\ g.nameLength = 1
      /\ g.valueStart = base + at + 4 /\ g.valueLength = n
  BY DEF Reading, Valued, Named
<1>2. /\ at \in Nat /\ n \in Nat /\ at + n + 7 <= H /\ H \in Nat
      /\ e[at + 1] = Name(r, j + 1) /\ v \in Seq(ValueBytes)
      /\ \A l \in 1 .. n : e[at + 3 + l] = v[l]
  BY <1>1, FieldBytesAre
<1>3. \A i \in 1 .. H : stream[base + i] = e[i]
  BY DEF Reading, Sent
<1> HIDE DEF at, v, n, e, H
<1>4. View(g.nameStart, g.nameLength) = <<Name(r, j + 1)>>
  <2>1. at + 1 \in 1 .. H /\ base + (at + 1) = g.nameStart + 1 - 1
    BY <1>1, <1>2
  <2>2. stream[g.nameStart + 1 - 1] = Name(r, j + 1)
    BY <1>2, <1>3, <2>1
  <2>3. View(g.nameStart, g.nameLength) = [i \in 1 .. 1 |-> stream[g.nameStart + i - 1]]
    BY <1>1 DEF View
  <2> QED  BY <2>2, <2>3
<1>5. View(g.valueStart, g.valueLength) = v
  <2>1. View(g.valueStart, g.valueLength) = [i \in 1 .. n |-> stream[g.valueStart + i - 1]]
    BY <1>1 DEF View
  <2>2. ASSUME NEW l \in 1 .. n PROVE stream[g.valueStart + l - 1] = v[l]
    <3>1. at + 3 + l \in 1 .. H /\ base + (at + 3 + l) = g.valueStart + l - 1
      BY <1>1, <1>2
    <3> QED  BY <1>2, <1>3, <3>1
  <2>3. v = [l \in 1 .. n |-> v[l]]
    BY <1>2 DEF n
  <2> QED  BY <2>1, <2>2, <2>3
<1> QED  BY <1>4, <1>5 DEF v

\* What a field leaves in the counters.
NotedAs(g, h, n, v) ==
  /\ h.contentLength = IF n = "Content-Length" THEN LengthRead(g.contentLength, v) ELSE g.contentLength
  /\ h.keepAliveSet = IF n = "Connection" THEN TRUE ELSE g.keepAliveSet
  /\ h.keepAlive = IF n = "Connection" THEN v = KeepAlive \/ (g.keepAlive /\ v # <<"close">>)
                                       ELSE g.keepAlive
  /\ h.method = g.method /\ h.uriStart = g.uriStart /\ h.uriLength = g.uriLength
  /\ h.major = g.major /\ h.minor = g.minor

LEMMA FieldEndedIs ==
  ASSUME NEW g, DOMAIN g = CounterFields, g.state = "CR", NEW n, NEW v
  PROVE  LET h == FieldEnded(g, <<n>>, v)
         IN  /\ NotedAs(g, h, n, v)
             /\ n = "Content-Length" /\ h.contentLength = -1
                  => h.state = "Died" /\ h.err = "InvalidContentLength"
             /\ n = "Connection" /\ v \notin Options => h.state = "Died" /\ h.err = "InvalidHeader"
             /\ ~(n = "Content-Length" /\ h.contentLength = -1) /\ ~(n = "Connection" /\ v \notin Options)
                  => h.state = "CR" /\ h.err = g.err
<1> DEFINE x == Noted(g, <<n>>, v)
           b == [x EXCEPT !.nameStart = 0, !.valueStart = 0, !.nameLength = 1, !.valueLength = 1]
           h == FieldEnded(g, <<n>>, v)
<1>0. \A m : <<n>> = <<m>> <=> n = m
  OBVIOUS
<1>1. DOMAIN x = CounterFields /\ NotedAs(g, x, n, v) /\ x.state = "CR" /\ x.err = g.err
  <2>1. CASE n = "Content-Length"
    <3>1. x = [g EXCEPT !.contentLength = LengthRead(@, v)]
      BY <2>1 DEF Noted
    <3> QED  BY <2>1, <3>1 DEF NotedAs, CounterFields
  <2>2. CASE n = "Connection"
    <3>1. x = [g EXCEPT !.keepAliveSet = TRUE,
                        !.keepAlive = (v = <<"keep-alive">>) \/ (@ /\ v # <<"close">>)]
      BY <2>2, <1>0 DEF Noted
    <3> QED  BY <2>2, <3>1 DEF NotedAs, CounterFields, KeepAlive
  <2>3. CASE n # "Content-Length" /\ n # "Connection"
    <3>1. x = g
      BY <2>3, <1>0 DEF Noted
    <3> QED  BY <2>3, <3>1 DEF NotedAs
  <2> QED  BY <2>1, <2>2, <2>3
<1> HIDE DEF x
<1>2. DOMAIN b = CounterFields /\ NotedAs(g, b, n, v) /\ b.state = "CR" /\ b.err = g.err
  BY <1>1 DEF NotedAs, CounterFields
<1>3. h = Approved(b, <<n>>, v)
  BY DEF FieldEnded, b, x
<1> HIDE DEF b, h
<1>4. ASSUME NEW err, h = Rejected(b, err)
      PROVE  NotedAs(g, h, n, v) /\ h.state = "Died" /\ h.err = err
  BY <1>2, <1>4 DEF Rejected, NotedAs, CounterFields
<1>5. CASE n = "Content-Length" /\ b.contentLength = -1
  <2>1. h = Rejected(b, "InvalidContentLength")
    BY <1>3, <1>5 DEF Approved
  <2>2. h.contentLength = -1
    BY <1>2, <1>4, <1>5, <2>1 DEF NotedAs
  <2> QED  BY <1>4, <1>5, <2>1, <2>2 DEF h
<1>6. CASE n = "Connection" /\ v \notin Options
  <2>1. h = Rejected(b, "InvalidHeader")
    BY <1>0, <1>3, <1>6 DEF Approved
  <2> QED  BY <1>4, <1>6, <2>1 DEF h
<1>7. CASE ~(n = "Content-Length" /\ b.contentLength = -1) /\ ~(n = "Connection" /\ v \notin Options)
  <2>1. h = b
    BY <1>0, <1>3, <1>7 DEF Approved
  <2> QED  BY <1>2, <1>7, <2>1 DEF h
<1> QED  BY <1>5, <1>6, <1>7

\* One more field says what is wrong with it, or is read.
LEMMA FieldsReadMore ==
  ASSUME NEW r \in Request, WellFormed(r), NoOverflow(r), NEW j \in Nat, j < Len(r.fields),
         Len(Value(r, j + 1)) > 0, NEW g, NEW h, FieldsRead(r, g, j),
         NotedAs(g, h, Name(r, j + 1), Value(r, j + 1))
  PROVE  LET n == Name(r, j + 1)
             v == Value(r, j + 1)
         IN  /\ h.contentLength < 0
             /\ n = "Content-Length" /\ h.contentLength = -1
                  => FieldError(n, v) = "InvalidContentLength"
             /\ n = "Connection" /\ v \notin Options => FieldError(n, v) = "InvalidHeader"
             /\ ~(n = "Content-Length" /\ h.contentLength = -1) /\ ~(n = "Connection" /\ v \notin Options)
                  => FieldError(n, v) = "Fine" /\ FieldsRead(r, h, j + 1)
<1> DEFINE n == Name(r, j + 1)
           v == Value(r, j + 1)
           cl == h.contentLength
<1>1. j + 1 \in DOMAIN r.fields /\ DOMAIN r.fields = 1 .. Len(r.fields) /\ Len(r.fields) \in Nat
  BY PlacesAre DEF Request
<1>2. v # <<>> /\ Len(v) \in Nat
  <2>1. Len(v) \in Nat
    BY FieldBytesAre
  <2> QED  BY <2>1, EmptySeq
<1>3. ASSUME n = "Content-Length"
      PROVE  /\ PowerOfTen(Len(v)) <= IntMax + 1 /\ Upto(r, "Content-Length", j) = {}
  <2>1. /\ PowerOfTen(Len(v)) <= IntMax + 1
        /\ \A i \in DOMAIN r.fields : r.fields[i][1] = "Content-Length" => i = j + 1
    BY <1>1, <1>3 DEF NoOverflow, Name, Value
  <2>2. \A i \in 1 .. j : i \in DOMAIN r.fields /\ i # j + 1
    BY <1>1
  <2> QED  BY <2>1, <2>2 DEF Upto, Name
<1>4. ASSUME n = "Content-Length"
      PROVE  cl < 0 /\ (cl = -1 <=> LengthRefused(v))
  <2>1. g.contentLength = -1
    BY <1>3, <1>4 DEF FieldsRead
  <2>2. cl = LengthRead(-1, v)
    BY <1>4, <2>1 DEF NotedAs
  <2> HIDE DEF v, cl
  <2> QED  BY <1>2, <1>3, <1>4, <2>2, LengthReadIs
<1>5. n # "Content-Length" => cl = g.contentLength
  BY DEF NotedAs
<1>6. cl < 0
  BY <1>4, <1>5 DEF FieldsRead
<1>7. ASSUME n = "Content-Length", cl = -1 PROVE FieldError(n, v) = "InvalidContentLength"
  <2> HIDE DEF v, n, cl
  <2> QED  BY <1>2, <1>4, <1>7 DEF FieldError
<1>8. ASSUME n = "Connection", v \notin Options PROVE FieldError(n, v) = "InvalidHeader"
  <2> HIDE DEF v, n
  <2> QED  BY <1>2, <1>8 DEF FieldError
<1>9. ASSUME ~(n = "Content-Length" /\ cl = -1), ~(n = "Connection" /\ v \notin Options)
      PROVE  FieldError(n, v) = "Fine" /\ FieldsRead(r, h, j + 1)
  <2>1. FieldError(n, v) = "Fine"
    <3> HIDE DEF v, n, cl
    <3> QED  BY <1>2, <1>4, <1>9 DEF FieldError
  <2>2. \A i \in 1 .. j + 1 : i = j + 1 \/ i \in 1 .. j
    OBVIOUS
  <2>3. \A i \in 1 .. j + 1 : ~FieldFails(r, i)
    <3>1. ~FieldFails(r, j + 1)
      BY <2>1 DEF FieldFails, Name, Value
    <3>2. \A i \in 1 .. j : ~FieldFails(r, i)
      BY DEF FieldsRead
    <3> QED  BY <2>2, <3>1, <3>2
  <2>4. \A name : /\ n = name => Upto(r, name, j + 1) = Upto(r, name, j) \cup {j + 1}
                  /\ n # name => Upto(r, name, j + 1) = Upto(r, name, j)
    <3> TAKE name
    <3>1. \A i \in 1 .. j : i \in 1 .. j + 1
      OBVIOUS
    <3>2. j + 1 \in 1 .. j + 1
      OBVIOUS
    <3> QED  BY <2>2, <3>1, <3>2 DEF Upto
  <2>5. Upto(r, "Content-Length", j + 1) = {} => cl = -1
    <3>1. ASSUME Upto(r, "Content-Length", j + 1) = {} PROVE cl = -1
      <4>1. n # "Content-Length" /\ Upto(r, "Content-Length", j) = {}
        BY <2>4, <3>1
      <4> QED  BY <1>5, <4>1 DEF FieldsRead
    <3> QED  BY <3>1
  <2>6. h.keepAliveSet \in BOOLEAN /\ h.keepAlive \in BOOLEAN
    BY DEF FieldsRead, NotedAs
  <2>7. h.keepAliveSet <=> Upto(r, "Connection", j + 1) # {}
    <3>1. CASE n = "Connection"
      BY <2>4, <3>1 DEF NotedAs
    <3>2. CASE n # "Connection"
      BY <2>4, <3>2 DEF NotedAs, FieldsRead
    <3> QED  BY <3>1, <3>2
  <2>8. ASSUME NEW i \in Upto(r, "Connection", j + 1),
               \A l \in Upto(r, "Connection", j + 1) : l <= i
        PROVE  h.keepAlive <=> Value(r, i) = KeepAlive
    <3>0. i \in 1 .. j + 1 /\ Name(r, i) = "Connection"
      BY DEF Upto
    <3>1. CASE n = "Connection"
      <4>1. j + 1 <= i
        BY <2>4, <2>8, <3>1
      <4>2. i = j + 1
        BY <3>0, <4>1
      <4>3. v \in Options
        BY <1>9, <3>1
      <4>4. h.keepAlive = (v = KeepAlive \/ (g.keepAlive /\ v # <<"close">>))
        BY <3>1 DEF NotedAs
      <4>5. v = KeepAlive \/ v = <<"close">>
        BY <4>3 DEF Options, KeepAlive
      <4>6. KeepAlive # <<"close">>
        BY DEF KeepAlive
      <4> QED  BY <4>2, <4>4, <4>5, <4>6
    <3>2. CASE n # "Connection"
      <4>1. Upto(r, "Connection", j + 1) = Upto(r, "Connection", j)
        BY <2>4, <3>2
      <4>2. h.keepAlive = g.keepAlive
        BY <3>2 DEF NotedAs
      <4> QED  BY <2>8, <4>1, <4>2 DEF FieldsRead
    <3> QED  BY <3>1, <3>2
  <2>9. FieldsRead(r, h, j + 1)
    BY <1>6, <2>3, <2>5, <2>6, <2>7, <2>8 DEF FieldsRead
  <2> QED  BY <2>1, <2>9
<1> QED  BY <1>6, <1>7, <1>8, <1>9

-----------------------------------------------------------------------------

\* Where the end of field j + 1 leads.
FieldOnward(r, base, k, g, h, j) ==
  /\ j < Len(r.fields) /\ Len(Value(r, j + 1)) > 0
  /\ \/ /\ h.state = "CRLF" /\ h.err = g.err /\ AtField(r, base, k + 1, h, j + 1)
        /\ NoOverflow(r) /\ FieldsRead(r, g, j) => FieldsRead(r, h, j + 1)
     \/ h.state = "Died" /\ (NoOverflow(r) /\ FieldsRead(r, g, j) => Refused(r, h))

LEMMA HeadKept ==
  ASSUME NEW r, NEW base, NEW g, NEW h, NEW n, NEW v, HeadRead(r, base, g), NotedAs(g, h, n, v)
  PROVE  HeadRead(r, base, h)
BY DEF NotedAs, HeadRead, LineRead, MethodRead, UriBegun, MajorRead, MinorRead

LEMMA FieldEnds ==
  ASSUME NEW r, NEW base, NEW k, NEW g, NEW j \in Nat, Reading(r, base, k, g),
         AtField(r, base, k, g, j), j <= Len(r.fields), g.state = "CR",
         NEW x, x = FieldEnded(g, View(g.nameStart, g.nameLength), View(g.valueStart, g.valueLength))
  PROVE  FieldOnward(r, base, k, g, IF x.state = "Died" THEN x ELSE Moves(x), j)
<1> DEFINE h == IF x.state = "Died" THEN x ELSE Moves(x)
           n == Name(r, j + 1)
           v == Value(r, j + 1)
           at == FieldAt(r)[j]
           e == Encoded(r)
<1> SUFFICES FieldOnward(r, base, k, g, h, j)
  OBVIOUS
<1>0. /\ r \in Request /\ WellFormed(r) /\ DOMAIN g = CounterFields /\ k \in Nat /\ base \in Nat
      /\ readPos = base + k /\ readPos \in Nat /\ Counters(g, readPos)
  BY DEF Reading, Counters
<1>1. HeadRead(r, base, g) /\ Valued(r, base, g, j) /\ g.valueLength = Len(v) /\ Len(v) > 0
      /\ k = at + 4 + Len(v) /\ j < Len(r.fields)
  BY FieldStands DEF StandsAt, Valued, Named
<1>2. x = FieldEnded(g, <<n>>, v)
  BY <1>1, FieldViews
<1>3. /\ NotedAs(g, x, n, v)
      /\ n = "Content-Length" /\ x.contentLength = -1
           => x.state = "Died" /\ x.err = "InvalidContentLength"
      /\ n = "Connection" /\ v \notin Options => x.state = "Died" /\ x.err = "InvalidHeader"
      /\ ~(n = "Content-Length" /\ x.contentLength = -1) /\ ~(n = "Connection" /\ v \notin Options)
           => x.state = "CR" /\ x.err = g.err
  <2> HIDE DEF n, v
  <2> QED  BY <1>0, <1>2, FieldEndedIs
<1>4. Counters(x, readPos) /\ SetBack(x)
  BY <1>0, FieldEndedViews
<1>5. HeadRead(r, base, x)
  BY <1>1, <1>3, HeadKept
<1>6. ASSUME NoOverflow(r), FieldsRead(r, g, j)
      PROVE  /\ x.contentLength < 0
             /\ n = "Content-Length" /\ x.contentLength = -1
                  => FieldError(n, v) = "InvalidContentLength"
             /\ n = "Connection" /\ v \notin Options => FieldError(n, v) = "InvalidHeader"
             /\ ~(n = "Content-Length" /\ x.contentLength = -1) /\ ~(n = "Connection" /\ v \notin Options)
                  => FieldError(n, v) = "Fine" /\ FieldsRead(r, x, j + 1)
  BY <1>0, <1>1, <1>3, <1>6, FieldsReadMore
<1>7. at \in Nat /\ Len(v) \in Nat /\ FieldAt(r)[j + 1] = at + Len(v) + 5
      /\ at + Len(v) + 7 <= HeadEnd(r) /\ HeadEnd(r) \in Nat /\ e[at + 5 + Len(v)] = "LF"
  BY <1>0, <1>1, FieldBytesAre
<1> HIDE DEF h, n, v, at, e
<1>8. CASE /\ ~(n = "Content-Length" /\ x.contentLength = -1)
           /\ ~(n = "Connection" /\ v \notin Options)
  <2>1. x.state = "CR" /\ x.err = g.err /\ h = Moves(x)
    BY <1>3, <1>8 DEF h
  <2>2. Next1 = "LF"
    <3>1. Reading(r, base, k, x)
      BY <1>4 DEF Reading
    <3>2. k < HeadEnd(r) /\ k + 1 = at + 5 + Len(v)
      BY <1>0, <1>1, <1>7
    <3>3. Next1 = Encoded(r)[k + 1]
      BY <3>1, <3>2, NextIs
    <3> QED  BY <1>7, <3>2, <3>3 DEF e
  <2>3. \A t : t \in Targets(x.state, Next1) <=> t = "CRLF"
    BY <2>1, <2>2, Leads
  <2>4. /\ Carried(x, h) /\ HeadRead(r, base, h) /\ h.state = "CRLF" /\ h.err = x.err
    <3>1. DOMAIN x = CounterFields
      BY <1>4 DEF Counters
    <3>2. PICK to \in HeadStates : to = "CRLF"
      BY DEF HeadStates
    <3>3. x.state \in HeadStates /\ LeadsOnly(x.state, Next1, to)
      BY <2>1, <2>3, <3>2 DEF HeadStates, LeadsOnly
    <3>4. /\ Carried(x, Moves(x)) /\ HeadRead(r, base, Moves(x)) /\ Moves(x).state = to
          /\ Moves(x).err = (IF to = "Died" THEN "ExceptedContent" ELSE x.err)
          /\ ViewsMoved(x, Moves(x), to)
      BY <1>5, <3>1, <3>2, <3>3, FieldLed
    <3> QED  BY <2>1, <3>2, <3>4
  <2>5. AtField(r, base, k + 1, h, j + 1)
    <3>1. k + 1 = FieldAt(r)[j + 1]
      BY <1>0, <1>1, <1>7
    <3> QED  BY <2>4, <3>1 DEF AtField
  <2>6. ASSUME NoOverflow(r), FieldsRead(r, g, j) PROVE FieldsRead(r, h, j + 1)
    <3>1. FieldsRead(r, x, j + 1)
      BY <1>6, <1>8, <2>6
    <3> QED  BY <2>4, <3>1 DEF FieldsRead, Carried
  <2> QED  BY <1>1, <2>1, <2>4, <2>5, <2>6 DEF FieldOnward, v
<1>9. CASE \/ n = "Content-Length" /\ x.contentLength = -1
           \/ n = "Connection" /\ v \notin Options
  <2>1. x.state = "Died" /\ h = x
    BY <1>3, <1>9 DEF h
  <2>2. ASSUME NoOverflow(r), FieldsRead(r, g, j) PROVE Refused(r, x)
    <3>1. FieldError(n, v) = x.err /\ x.err \in {"InvalidContentLength", "InvalidHeader"}
      BY <1>3, <1>6, <1>9, <2>2
    <3>2. FieldFails(r, j + 1)
      BY <3>1 DEF FieldFails, n, v, Name, Value
    <3>3. r.method \in Methods /\ Supported(r)
      BY <1>1 DEF HeadRead, LineRead, MethodRead
    <3>4. FieldsFine(r, j)
      BY <2>2 DEF FieldsFine, FieldsRead
    <3>5. MeaningOf(r) = FieldError(n, v)
      BY <1>0, <1>1, <3>2, <3>3, <3>4, FirstBad DEF n, v
    <3>6. x.contentLength < 0
      BY <1>6, <2>2
    <3> QED  BY <3>1, <3>5, <3>6 DEF Refused, NoError
  <2> QED  BY <1>1, <2>1, <2>2 DEF FieldOnward, v
<1> QED  BY <1>8, <1>9

-----------------------------------------------------------------------------
(* A word at once.                                                           *)

WordLaid(text) == \A i \in 1 .. Len(text) : stream[readPos + i] = text[i]

LEMMA Lettered ==
  ASSUME NEW a \in Letters, NEW text \in Seq(Letters), NEW m \in Seq(Letters),
         Len(m) = 1 + Len(text), m[1] = a, \A i \in 1 .. Len(text) : m[1 + i] = text[i]
  PROVE  <<a>> \o text = m
<1> DEFINE x == <<a>> \o text
<1>1. x \in Seq(Letters) /\ Len(x) = 1 + Len(text) /\ x[1] = a /\ Len(text) \in Nat
  OBVIOUS
<1>2. \A i \in 1 .. Len(text) : x[1 + i] = text[i]
  OBVIOUS
<1> HIDE DEF x
<1>3. \A i \in 1 .. Len(x) : i = 1 \/ (i - 1 \in 1 .. Len(text) /\ i = 1 + (i - 1))
  BY <1>1
<1>4. \A i \in 1 .. Len(x) : x[i] = m[i]
  BY <1>1, <1>2, <1>3
<1> QED  BY <1>1, <1>4, SeqEqual DEF x

Spelled(text, first) ==
  LET m == <<first>> \o text
  IN  /\ text \in Seq(Byte) /\ Len(text) \in Nat /\ Len(text) < 15
      /\ \A i \in 1 .. Len(text) : text[i] # "SP"
      /\ m \in Methods /\ Len(m) = 1 + Len(text) /\ m[1] = first
      /\ \A i \in 1 .. Len(text) : m[1 + i] = text[i]

LEMMA SpelledIs ==
  ASSUME NEW a \in Letters, NEW text \in Seq(Letters), NEW m \in Methods, m \in Seq(Letters),
         Len(text) < 15,
         Len(m) = 1 + Len(text), m[1] = a, \A i \in 1 .. Len(text) : m[1 + i] = text[i]
  PROVE  Spelled(text, a)
<1>1. <<a>> \o text = m
  BY Lettered
<1>2. text \in Seq(Byte) /\ Len(text) \in Nat
  BY BytesAre
<1>3. \A i \in 1 .. Len(text) : text[i] # "SP"
  BY ByteKinds
<1> QED  BY <1>1, <1>2, <1>3 DEF Spelled

LEMMA TextsAre ==
  /\ \A s \in WordStates :
       /\ Spelled(WordAt[s].text, FirstLetter[s])
       /\ WordAt[s].to = "MetAlmostDone" /\ RejectedAs(s) = "InvalidMethod"
  /\ WordAt["UriEnd"].text = <<"H", "T", "T", "P", "/">>
  /\ WordAt["UriEnd"].to = "VerHttpSlash"
  /\ DOMAIN WordAt = WordStates \cup {"UriEnd"}
<1>1. DOMAIN WordAt = WordStates \cup {"UriEnd"}
  BY DEF WordAt, WordStates
<1>2. WordAt["UriEnd"].text = <<"H", "T", "T", "P", "/">> /\ WordAt["UriEnd"].to = "VerHttpSlash"
  BY DEF WordAt
<1>3. \A s \in WordStates : WordAt[s].to = "MetAlmostDone" /\ RejectedAs(s) = "InvalidMethod"
  BY DEF WordAt, WordStates, RejectedAs
<1>4. Spelled(WordAt["MetGet"].text, FirstLetter["MetGet"])
  <2> DEFINE a == "G"
             m == <<"G", "E", "T">>
             t == <<"E", "T">>
  <2>1. m \in Methods /\ m \in Seq(Letters) /\ t \in Seq(Letters) /\ Len(m) = 3 /\ Len(t) = 2
        /\ m[1] = a /\ m[2] = t[1] /\ m[3] = t[2] /\ a \in Letters
    BY DEF Methods, Letters
  <2>2. WordAt["MetGet"].text = t /\ FirstLetter["MetGet"] = a
    BY DEF WordAt, FirstLetter
  <2> HIDE DEF a, m, t
  <2>3. \A i \in 1 .. Len(t) : m[1 + i] = t[i]
    BY <2>1
  <2> QED
    <3>1. Len(t) < 15 /\ Len(m) = 1 + Len(t)
      BY <2>1, <2>2, <2>3
    <3>2. Spelled(t, a)
      BY <3>1, <2>1, <2>2, <2>3, SpelledIs
    <3> QED  BY <3>2, <2>2
<1>5. Spelled(WordAt["MetHead"].text, FirstLetter["MetHead"])
  <2> DEFINE a == "H"
             m == <<"H", "E", "A", "D">>
             t == <<"E", "A", "D">>
  <2>1. m \in Methods /\ m \in Seq(Letters) /\ t \in Seq(Letters) /\ Len(m) = 4 /\ Len(t) = 3
        /\ m[1] = a /\ m[2] = t[1] /\ m[3] = t[2] /\ m[4] = t[3] /\ a \in Letters
    BY DEF Methods, Letters
  <2>2. WordAt["MetHead"].text = t /\ FirstLetter["MetHead"] = a
    BY DEF WordAt, FirstLetter
  <2> HIDE DEF a, m, t
  <2>3. \A i \in 1 .. Len(t) : m[1 + i] = t[i]
    BY <2>1
  <2> QED
    <3>1. Len(t) < 15 /\ Len(m) = 1 + Len(t)
      BY <2>1, <2>2, <2>3
    <3>2. Spelled(t, a)
      BY <3>1, <2>1, <2>2, <2>3, SpelledIs
    <3> QED  BY <3>2, <2>2
<1>6. Spelled(WordAt["MetPost"].text, FirstLetter["MetPost"])
  <2> DEFINE a == "P"
             m == <<"P", "O", "S", "T">>
             t == <<"O", "S", "T">>
  <2>1. m \in Methods /\ m \in Seq(Letters) /\ t \in Seq(Letters) /\ Len(m) = 4 /\ Len(t) = 3
        /\ m[1] = a /\ m[2] = t[1] /\ m[3] = t[2] /\ m[4] = t[3] /\ a \in Letters
    BY DEF Methods, Letters
  <2>2. WordAt["MetPost"].text = t /\ FirstLetter["MetPost"] = a
    BY DEF WordAt, FirstLetter
  <2> HIDE DEF a, m, t
  <2>3. \A i \in 1 .. Len(t) : m[1 + i] = t[i]
    BY <2>1
  <2> QED
    <3>1. Len(t) < 15 /\ Len(m) = 1 + Len(t)
      BY <2>1, <2>2, <2>3
    <3>2. Spelled(t, a)
      BY <3>1, <2>1, <2>2, <2>3, SpelledIs
    <3> QED  BY <3>2, <2>2
<1>7. Spelled(WordAt["MetOptions"].text, FirstLetter["MetOptions"])
  <2> DEFINE a == "O"
             m == <<"O", "P", "T", "I", "O", "N", "S">>
             t == <<"P", "T", "I", "O", "N", "S">>
  <2>1. /\ m \in Methods /\ a \in Letters
        /\ m[1] = a /\ m[2] = t[1] /\ m[3] = t[2] /\ m[4] = t[3] /\ m[5] = t[4] /\ m[6] = t[5]
        /\ m[7] = t[6]
    BY DEF Methods, Letters
  <2>2. m \in Seq(Letters) /\ Len(m) = 7
    BY DEF Letters
  <2>3. t \in Seq(Letters) /\ Len(t) = 6
    BY DEF Letters
  <2>4. WordAt["MetOptions"].text = t /\ FirstLetter["MetOptions"] = a
    BY DEF WordAt, FirstLetter
  <2> HIDE DEF a, m, t
  <2>5. \A i \in 1 .. Len(t) : m[1 + i] = t[i]
    BY <2>1, <2>3
  <2> QED
    <3>1. Len(t) < 15 /\ Len(m) = 1 + Len(t)
      BY <2>1, <2>2, <2>3, <2>4, <2>5
    <3>2. Spelled(t, a)
      BY <3>1, <2>1, <2>2, <2>3, <2>4, <2>5, SpelledIs
    <3> QED  BY <3>2, <2>4
<1>8. \A s \in WordStates : Spelled(WordAt[s].text, FirstLetter[s])
  BY <1>4, <1>5, <1>6, <1>7 DEF WordStates
<1> QED  BY <1>1, <1>2, <1>3, <1>8

\* The bytes at the read position, as ReadWord and RejectWord see them.
LEMMA PrefixLaid ==
  ASSUME NEW text \in Seq(Byte), stream \in Seq(Byte), readPos \in Nat, received \in Nat,
         received <= Len(stream), IsPrefix(text, SubSeq(stream, readPos + 1, received))
  PROVE  WordLaid(text)
<1> DEFINE rest == SubSeq(stream, readPos + 1, received)
           n == Len(text)
<1>1. \A i \in readPos + 1 .. received : stream[i] \in Byte
  OBVIOUS
<1>2. Len(rest) = (IF readPos + 1 <= received THEN received - (readPos + 1) + 1 ELSE 0)
  BY <1>1, SubSeqProperties
<1>3. \A i \in 1 .. received - (readPos + 1) + 1 : rest[i] = stream[readPos + 1 + i - 1]
  BY <1>1, SubSeqProperties
<1>4. rest \in Seq(Byte)
  BY <1>1, SubSeqProperties
<1>5. n <= Len(rest) /\ SubSeq(text, 1, n) = SubSeq(rest, 1, n) /\ n \in Nat
  BY DEF IsPrefix
<1> HIDE DEF rest, n
<1>6. \A i \in 1 .. n : SubSeq(text, 1, n)[i] = text[i] /\ SubSeq(rest, 1, n)[i] = rest[i]
  <2>1. n \in 0 .. Len(text) /\ n \in 0 .. Len(rest)
    BY <1>4, <1>5 DEF n
  <2> QED  BY <1>4, <2>1, PrefixIs
<1>7. ASSUME NEW i \in 1 .. n PROVE stream[readPos + i] = text[i]
  <2>1. i \in 1 .. received - (readPos + 1) + 1 /\ readPos + 1 + i - 1 = readPos + i
    BY <1>2, <1>5
  <2> QED  BY <1>3, <1>5, <1>6, <2>1
<1> QED  BY <1>7 DEF WordLaid, n

LEMMA LaidSubSeq ==
  ASSUME NEW text \in Seq(Byte), stream \in Seq(Byte), readPos \in Nat,
         readPos + Len(text) <= Len(stream), WordLaid(text)
  PROVE  SubSeq(stream, readPos + 1, readPos + Len(text)) = text
<1> DEFINE n == Len(text)
<1>0. n \in Nat
  OBVIOUS
<1> HIDE DEF n
<1>1. PICK p \in Int, q \in Int : p = readPos + 1 /\ q = readPos + n
  BY <1>0
<1> DEFINE s == SubSeq(stream, p, q)
<1>2. \A i \in p .. q : stream[i] \in Byte
  BY <1>0, <1>1 DEF n
<1>3. s \in Seq(Byte)
  BY <1>2, SubSeqProperties
<1>4. Len(s) = IF p <= q THEN q - p + 1 ELSE 0
  BY <1>2, SubSeqProperties
<1>5. \A i \in 1 .. q - p + 1 : s[i] = stream[p + i - 1]
  BY <1>2, SubSeqProperties
<1> HIDE DEF s
<1>6. Len(s) = n /\ q - p + 1 = n
  BY <1>0, <1>1, <1>4
<1>7. ASSUME NEW i \in 1 .. n PROVE s[i] = text[i]
  <2>1. p + i - 1 = readPos + i
    BY <1>0, <1>1
  <2>2. s[i] = stream[p + i - 1]
    BY <1>5, <1>6
  <2> QED  BY <2>1, <2>2 DEF WordLaid, n
<1>8. s = text
  BY <1>3, <1>6, <1>7, SeqEqual DEF n
<1> QED  BY <1>1, <1>8 DEF s, n

\* In the method.
LEMMA WordRead ==
  ASSUME NEW r, NEW base, NEW k, NEW g, Reading(r, base, k, g), AtMethod(r, k, g),
         g.state \in WordStates, NEW text, text = WordAt[g.state].text, WordLaid(text),
         NEW h, h.state = "MetAlmostDone", h.method = <<stream[readPos]>> \o text, h.minor = g.minor
  PROVE  AtMethod(r, k + Len(text), h)
<1> DEFINE a == FirstLetter[g.state]
           m == <<a>> \o text
           n == Len(text)
           e == Encoded(r)
           M == Len(r.method)
<1>0. /\ r \in Request /\ WellFormed(r) /\ k = 1 /\ base \in Nat /\ readPos = base + 1
      /\ r.method[1] = a /\ g.minor = 0
  BY DEF Reading, AtMethod, WordStates
<1>1. M \in Nat \ {0} /\ M < HeadEnd(r) /\ HeadEnd(r) \in Nat
  BY <1>0, PlacesAre, LineInside
<1>2. e[M + 1] = "SP" /\ \A i \in 1 .. M : e[i] = r.method[i]
  BY <1>0, LineBytes DEF Line, UriAt
<1>3. \A i \in 1 .. HeadEnd(r) : stream[base + i] = e[i]
  BY DEF Reading, Sent
<1>4. /\ n \in Nat /\ \A i \in 1 .. n : text[i] # "SP" /\ m[1 + i] = text[i]
      /\ m \in Methods /\ Len(m) = 1 + n /\ m[1] = a
  <2>1. Spelled(text, a)
    BY TextsAre
  <2> QED  BY <2>1 DEF Spelled
<1> HIDE DEF e, M
<1>5. stream[readPos] = a
  BY <1>0, <1>1, <1>2, <1>3
<1>6. h.method = m
  BY <1>5
<1> HIDE DEF a, m, n
<1>7. \A i \in 1 .. n : 1 + i <= HeadEnd(r) => text[i] = e[1 + i]
  <2> TAKE i \in 1 .. n
  <2>1. base + (1 + i) = readPos + i /\ 1 + i \in Nat \ {0}
    BY <1>0, <1>4
  <2>2. stream[readPos + i] = text[i]
    BY DEF WordLaid, n
  <2>3. ASSUME 1 + i <= HeadEnd(r) PROVE text[i] = e[1 + i]
    <3>1. 1 + i \in 1 .. HeadEnd(r)
      BY <1>1, <2>1, <2>3
    <3>2. stream[base + (1 + i)] = e[1 + i]
      BY <1>3, <3>1
    <3> QED  BY <2>1, <2>2, <3>2
  <2> QED  BY <2>3
<1>8. 1 + n <= M
  <2> SUFFICES ASSUME M < 1 + n PROVE FALSE
    BY <1>1, <1>4
  <2>1. M \in 1 .. n /\ 1 + M <= HeadEnd(r) /\ 1 + M = M + 1
    BY <1>1, <1>4
  <2> QED  BY <1>2, <1>4, <1>7, <2>1
<1>9. ASSUME NEW i \in 1 .. 1 + n PROVE r.method[i] = m[i]
  <2>1. CASE i = 1
    BY <1>0, <1>4, <2>1
  <2>2. CASE i # 1
    <3>1. i - 1 \in 1 .. n /\ 1 + (i - 1) = i /\ i \in 1 .. M /\ i <= HeadEnd(r)
      BY <1>1, <1>4, <1>8, <2>2
    <3>2. m[1 + (i - 1)] = text[i - 1]
      BY <1>4, <3>1
    <3>3. text[i - 1] = e[1 + (i - 1)]
      BY <1>7, <3>1
    <3>4. e[i] = r.method[i]
      BY <1>2, <3>1
    <3> QED  BY <3>1, <3>2, <3>3, <3>4
  <2> QED  BY <2>1, <2>2
<1> QED  BY <1>0, <1>4, <1>6, <1>8, <1>9 DEF AtMethod, n, M

LEMMA WordWrong ==
  ASSUME NEW r, NEW base, NEW k, NEW g, Reading(r, base, k, g), AtMethod(r, k, g),
         g.state \in WordStates, r.method \in Methods
  PROVE  WordLaid(WordAt[g.state].text)
<1> DEFINE a == FirstLetter[g.state]
           text == WordAt[g.state].text
           m == <<a>> \o text
           n == Len(text)
           e == Encoded(r)
           M == Len(r.method)
<1>0. /\ r \in Request /\ WellFormed(r) /\ k = 1 /\ base \in Nat /\ readPos = base + 1
      /\ r.method[1] = a
  BY DEF Reading, AtMethod, WordStates
<1>1. M \in Nat \ {0} /\ M < HeadEnd(r) /\ HeadEnd(r) \in Nat
  BY <1>0, PlacesAre, LineInside
<1>2. \A i \in 1 .. M : e[i] = r.method[i]
  BY <1>0, LineBytes DEF Line
<1>3. \A i \in 1 .. HeadEnd(r) : stream[base + i] = e[i]
  BY DEF Reading, Sent
<1>4. /\ n \in Nat /\ \A i \in 1 .. n : text[i] # "SP" /\ m[1 + i] = text[i]
      /\ m \in Methods /\ Len(m) = 1 + n /\ m[1] = a
  <2>1. Spelled(text, a)
    BY TextsAre
  <2> QED  BY <2>1 DEF Spelled
<1> HIDE DEF a, text, m, n, e
<1>5. r.method = m
  BY <1>0, <1>4, MethodsAre
<1>6. M = 1 + n
  BY <1>4, <1>5
<1> HIDE DEF M
<1>7. ASSUME NEW i \in 1 .. n PROVE stream[readPos + i] = text[i]
  <2>1. 1 + i \in 1 .. M /\ 1 + i \in 1 .. HeadEnd(r) /\ base + (1 + i) = readPos + i
    BY <1>0, <1>1, <1>4, <1>6
  <2> QED  BY <1>2, <1>3, <1>4, <1>5, <2>1
<1> QED  BY <1>7 DEF WordLaid, n, text

\* In front of the version.
LEMMA HttpRead ==
  ASSUME NEW r, NEW base, NEW k, NEW g, Reading(r, base, k, g), AtVersion(r, base, k, g),
         g.state = "UriEnd"
  PROVE  WordLaid(WordAt["UriEnd"].text)
<1> DEFINE text == WordAt["UriEnd"].text
           V == VersionAt(r)
           e == Encoded(r)
<1>0. /\ r \in Request /\ WellFormed(r) /\ k = V - 5 /\ base \in Nat /\ readPos = base + k
      /\ k \in Nat
  BY DEF Reading, AtVersion
<1>1. V \in Nat /\ V < HeadEnd(r) /\ HeadEnd(r) \in Nat
  <2>1. Len(r.major) \in Nat /\ VersionAt(r) \in Nat
    BY <1>0, PlacesAre
  <2> QED  BY <1>0, <2>1, LineInside
<1>2. e[V - 4] = "H" /\ e[V - 3] = "T" /\ e[V - 2] = "T" /\ e[V - 1] = "P" /\ e[V] = "/"
  BY <1>0, LineBytes DEF Line
<1>3. \A i \in 1 .. HeadEnd(r) : stream[base + i] = e[i]
  BY DEF Reading, Sent
<1>4. text = <<"H", "T", "T", "P", "/">>
  BY TextsAre
<1>5. Len(text) = 5 /\ text[1] = "H" /\ text[2] = "T" /\ text[3] = "T" /\ text[4] = "P" /\ text[5] = "/"
  BY <1>4
<1> HIDE DEF text, V, e
<1>6. /\ V - 4 \in 1 .. HeadEnd(r) /\ readPos + 1 = base + (V - 4)
      /\ V - 3 \in 1 .. HeadEnd(r) /\ readPos + 2 = base + (V - 3)
      /\ V - 2 \in 1 .. HeadEnd(r) /\ readPos + 3 = base + (V - 2)
      /\ V - 1 \in 1 .. HeadEnd(r) /\ readPos + 4 = base + (V - 1)
      /\ V \in 1 .. HeadEnd(r) /\ readPos + 5 = base + V
  BY <1>0, <1>1
<1>7. /\ stream[readPos + 1] = text[1] /\ stream[readPos + 2] = text[2]
      /\ stream[readPos + 3] = text[3] /\ stream[readPos + 4] = text[4]
      /\ stream[readPos + 5] = text[5]
  BY <1>2, <1>3, <1>5, <1>6
<1>8. \A i \in 1 .. 5 : stream[readPos + i] = text[i]
  BY <1>7
<1> QED  BY <1>5, <1>8 DEF WordLaid, text

-----------------------------------------------------------------------------
(* Where the requests of a script lie in the stream.                         *)

EncodedOf(s) == [i \in DOMAIN s |-> Encoded(s[i])]

LEMMA EncodedOfIs ==
  ASSUME NEW s \in Seq(Request)
  PROVE  /\ EncodedOf(s) \in Seq(Seq(Byte)) /\ Len(EncodedOf(s)) = Len(s) /\ Len(s) \in Nat
         /\ \A i \in 1 .. Len(s) : EncodedOf(s)[i] = Encoded(s[i]) /\ Encoded(s[i]) \in Seq(Byte)
         /\ StreamOf(s) = FlattenSeq(EncodedOf(s))
<1>1. DOMAIN s = 1 .. Len(s) /\ Len(s) \in Nat /\ \A i \in 1 .. Len(s) : s[i] \in Request
  OBVIOUS
<1>2. \A i \in 1 .. Len(s) : Encoded(s[i]) \in Seq(Byte)
  BY <1>1, EncodedTyped
<1>3. EncodedOf(s) \in Seq(Seq(Byte)) /\ Len(EncodedOf(s)) = Len(s)
  BY <1>1, <1>2 DEF EncodedOf
<1> QED  BY <1>1, <1>2, <1>3 DEF EncodedOf, StreamOf

\* Offsets into the stream of a script.
LiesAt(s, o) ==
  /\ o[0] = 0 /\ o[Len(s)] = Len(StreamOf(s))
  /\ \A i \in 0 .. Len(s) : o[i] \in Nat /\ o[i] <= Len(StreamOf(s))
  /\ \A i \in 1 .. Len(s) :
       /\ o[i] = o[i - 1] + Len(Encoded(s[i]))
       /\ \A j \in 1 .. Len(Encoded(s[i])) : StreamOf(s)[o[i - 1] + j] = Encoded(s[i])[j]

LEMMA OffsetsExist == ASSUME NEW s \in Seq(Request) PROVE \E o : LiesAt(s, o)
<1> DEFINE E == EncodedOf(s)
           flat == FlattenSeq(E)
<1>1. /\ E \in Seq(Seq(Byte)) /\ Len(E) = Len(s) /\ Len(s) \in Nat
      /\ \A i \in 1 .. Len(s) : E[i] = Encoded(s[i])
      /\ StreamOf(s) = flat
  BY EncodedOfIs
<1> HIDE DEF E
<1>2. PICK o \in [0 .. Len(E) -> Nat] :
             /\ o[0] = 0 /\ o[Len(E)] = Len(flat)
             /\ \A i \in 1 .. Len(E) :
                  /\ o[i] = o[i - 1] + Len(E[i]) /\ o[i] <= Len(flat)
                  /\ \A j \in 1 .. Len(E[i]) : flat[o[i - 1] + j] = E[i][j]
  BY <1>1, FlattenedAt
<1>3. flat \in Seq(Byte)
  BY <1>1, Flattened
<1> HIDE DEF flat
<1>4. Len(flat) \in Nat
  BY <1>3
<1>5. \A i \in 0 .. Len(s) : o[i] \in Nat /\ o[i] <= Len(flat)
  <2> TAKE i \in 0 .. Len(s)
  <2>1. i = 0 \/ i \in 1 .. Len(E)
    BY <1>1
  <2>2. i \in 0 .. Len(E) /\ o[0] <= Len(flat)
    BY <1>1, <1>2, <1>4
  <2>3. o[i] \in Nat
    BY <1>2, <2>2
  <2>4. i \in 1 .. Len(E) => o[i] <= Len(flat)
    BY <1>2
  <2> QED  BY <2>1, <2>2, <2>3, <2>4
<1>6. \A i \in 1 .. Len(s) :
        /\ o[i] = o[i - 1] + Len(Encoded(s[i]))
        /\ \A j \in 1 .. Len(Encoded(s[i])) : flat[o[i - 1] + j] = Encoded(s[i])[j]
  <2> TAKE i \in 1 .. Len(s)
  <2>1. i \in 1 .. Len(E) /\ E[i] = Encoded(s[i])
    BY <1>1
  <2>2. o[i] = o[i - 1] + Len(E[i])
    BY <1>2, <2>1
  <2>3. \A j \in 1 .. Len(E[i]) : flat[o[i - 1] + j] = E[i][j]
    BY <1>2, <2>1
  <2> QED  BY <2>1, <2>2, <2>3
<1>7. o[0] = 0 /\ o[Len(s)] = Len(flat) /\ StreamOf(s) = flat
  BY <1>1, <1>2
<1> HIDE DEF flat
<1>8. LiesAt(s, o)
  BY <1>5, <1>6, <1>7 DEF LiesAt
<1> QED  BY <1>8

LEMMA EndOfIs ==
  ASSUME NEW s \in Seq(Request), NEW o, LiesAt(s, o), NEW n \in 0 .. Len(s)
  PROVE  EndOf(s, n) = o[n]
<1> DEFINE t == SubSeq(s, 1, n)
<1>0. Len(s) \in Nat /\ n \in Nat /\ n <= Len(s)
  OBVIOUS
<1>1. t \in Seq(Request) /\ Len(t) = n /\ \A i \in 1 .. n : t[i] = s[i]
  BY PrefixIs
<1> HIDE DEF t
<1>2. PICK p : LiesAt(t, p)
  BY <1>1, OffsetsExist
<1>3. /\ p[0] = 0 /\ p[n] = Len(StreamOf(t))
      /\ \A i \in 0 .. n : p[i] \in Nat
      /\ \A i \in 1 .. n : p[i] = p[i - 1] + Len(Encoded(s[i]))
  BY <1>1, <1>2 DEF LiesAt
<1>4. /\ o[0] = 0 /\ \A i \in 0 .. n : o[i] \in Nat
      /\ \A j \in 1 .. n : o[j] = o[j - 1] + Len(Encoded(s[j]))
  BY <1>0 DEF LiesAt
<1>5. \A i \in 1 .. n : Len(Encoded(s[i])) \in Nat
  <2> TAKE i \in 1 .. n
  <2>1. i \in 1 .. Len(s)
    BY <1>0
  <2>2. Encoded(s[i]) \in Seq(Byte)
    BY <2>1, EncodedOfIs
  <2> QED  BY <2>2
<1>6. \A i \in 1 .. n : p[i] - p[i - 1] = o[i] - o[i - 1]
  <2> TAKE i \in 1 .. n
  <2>1. i \in 0 .. n /\ i - 1 \in 0 .. n
    OBVIOUS
  <2>2. p[i] \in Nat /\ p[i - 1] \in Nat /\ o[i] \in Nat /\ o[i - 1] \in Nat
    BY <1>3, <1>4, <2>1
  <2>3. p[i] = p[i - 1] + Len(Encoded(s[i])) /\ o[i] = o[i - 1] + Len(Encoded(s[i]))
    BY <1>3, <1>4, <2>1
  <2> QED  BY <1>5, <2>2, <2>3
<1>7. \A i \in 0 .. n : p[i] = 0 + o[i]
  <2>1. GrowAlike(n, 0, p, o)
    BY <1>3, <1>4, <1>6 DEF GrowAlike
  <2> QED  BY <2>1, OffsetsAgree
<1>8. p[n] = o[n]
  <2>1. n \in 0 .. n
    BY <1>0
  <2>2. o[n] \in Nat /\ p[n] = 0 + o[n]
    BY <1>4, <1>7, <2>1
  <2> QED  BY <2>2
<1> QED  BY <1>3, <1>8 DEF EndOf, t

LEMMA ScriptLies ==
  ASSUME NEW s \in Scripts
  PROVE  /\ Len(s) \in Nat /\ EndOf(s, 0) = 0 /\ EndOf(s, Len(s)) = Len(StreamOf(s))
         /\ \A n \in 0 .. Len(s) : EndOf(s, n) \in Nat /\ EndOf(s, n) <= Len(StreamOf(s))
         /\ \A n \in 0 .. Len(s) : n < Len(s) =>
              /\ s[n + 1] \in Request /\ n + 1 \in DOMAIN s
              /\ EndOf(s, n + 1) = EndOf(s, n) + Len(Encoded(s[n + 1]))
              /\ \A j \in 1 .. Len(Encoded(s[n + 1])) :
                   StreamOf(s)[EndOf(s, n) + j] = Encoded(s[n + 1])[j]
<1>1. s \in Seq(Request) /\ Len(s) \in Nat
  BY ScriptsAssumption
<1>2. PICK o : LiesAt(s, o)
  BY <1>1, OffsetsExist
<1>3. \A n \in 0 .. Len(s) : EndOf(s, n) = o[n]
  BY <1>1, <1>2, EndOfIs
<1>4. 0 \in 0 .. Len(s) /\ Len(s) \in 0 .. Len(s)
  BY <1>1
<1>5. EndOf(s, 0) = 0 /\ EndOf(s, Len(s)) = Len(StreamOf(s))
  BY <1>2, <1>3, <1>4 DEF LiesAt
<1>6. \A n \in 0 .. Len(s) : EndOf(s, n) \in Nat /\ EndOf(s, n) <= Len(StreamOf(s))
  BY <1>2, <1>3 DEF LiesAt
<1>7. ASSUME NEW n \in 0 .. Len(s), n < Len(s)
      PROVE  /\ s[n + 1] \in Request /\ n + 1 \in DOMAIN s
             /\ EndOf(s, n + 1) = EndOf(s, n) + Len(Encoded(s[n + 1]))
             /\ \A j \in 1 .. Len(Encoded(s[n + 1])) :
                  StreamOf(s)[EndOf(s, n) + j] = Encoded(s[n + 1])[j]
  <2>1. PICK m \in 1 .. Len(s) : m = n + 1 /\ n = m - 1
    BY <1>1, <1>7
  <2>2. o[m] = o[m - 1] + Len(Encoded(s[m]))
    BY <1>2 DEF LiesAt
  <2>3. \A j \in 1 .. Len(Encoded(s[m])) : StreamOf(s)[o[m - 1] + j] = Encoded(s[m])[j]
    BY <1>2 DEF LiesAt
  <2>4. s[m] \in Request /\ m \in DOMAIN s
    BY <1>1
  <2>5. EndOf(s, m) = o[m] /\ EndOf(s, n) = o[m - 1]
    <3>1. m \in 0 .. Len(s)
      BY <1>1
    <3> QED  BY <1>3, <2>1, <3>1
  <2> QED  BY <2>1, <2>2, <2>3, <2>4, <2>5
<1> QED  BY <1>1, <1>5, <1>6, <1>7

-----------------------------------------------------------------------------
(* What the request has collected.                                           *)

LEMMA ValuesMore ==
  ASSUME NEW s, IsSequence(s), NEW n, NEW v, NEW name
  PROVE  /\ n = name => Values(Append(s, <<n, v>>), name) = Values(s, name) \cup {v}
         /\ n # name => Values(Append(s, <<n, v>>), name) = Values(s, name)
<1> DEFINE t == Append(s, <<n, v>>)
           m == Len(s)
<1>1. /\ DOMAIN s = 1 .. m /\ m \in Nat /\ DOMAIN t = 1 .. m + 1
      /\ t[m + 1] = <<n, v>> /\ \A i \in 1 .. m : t[i] = s[i]
  <2>1. IsSequence(t) /\ Len(t) = m + 1
    BY Appended
  <2>2. t[m + 1] = <<n, v>>
    BY Appended
  <2>3. \A i \in 1 .. m : t[i] = s[i]
    BY Appended
  <2> HIDE DEF t
  <2> QED  BY <2>1, <2>2, <2>3 DEF IsSequence
<1> HIDE DEF t, m
<1>2. \A i \in 1 .. m + 1 : i = m + 1 \/ i \in 1 .. m
  BY <1>1
<1>3. \A i \in 1 .. m : i \in 1 .. m + 1
  BY <1>1
<1>4. m + 1 \in 1 .. m + 1
  BY <1>1
<1>5. \A x : x \in Values(t, name) <=> \E i \in 1 .. m + 1 : t[i][1] = name /\ x = t[i][2]
  BY <1>1 DEF Values
<1>6. \A x : x \in Values(s, name) <=> \E i \in 1 .. m : s[i][1] = name /\ x = s[i][2]
  BY <1>1 DEF Values
<1>7. \A x : x \in Values(t, name) <=> x \in Values(s, name) \/ (n = name /\ x = v)
  BY <1>1, <1>2, <1>3, <1>4, <1>5, <1>6
<1> QED  BY <1>7 DEF t

LEMMA UptoMore ==
  ASSUME NEW r, NEW j \in Nat, NEW name
  PROVE  /\ Name(r, j + 1) = name => Upto(r, name, j + 1) = Upto(r, name, j) \cup {j + 1}
         /\ Name(r, j + 1) # name => Upto(r, name, j + 1) = Upto(r, name, j)
<1>1. \A i \in 1 .. j + 1 : i = j + 1 \/ i \in 1 .. j
  OBVIOUS
<1>2. \A i \in 1 .. j : i \in 1 .. j + 1
  OBVIOUS
<1>3. j + 1 \in 1 .. j + 1
  OBVIOUS
<1> QED  BY <1>1, <1>2, <1>3 DEF Upto

LEMMA HostsMore ==
  ASSUME NEW s, NEW n, NEW r, NEW j \in Nat
  PROVE  /\ Name(r, j + 1) = "Host"
              => HostsUpto(s, n, r, j + 1) = HostsUpto(s, n, r, j) \cup {Value(r, j + 1)}
         /\ Name(r, j + 1) # "Host" => HostsUpto(s, n, r, j + 1) = HostsUpto(s, n, r, j)
<1> DEFINE rest == UNION {Values(s[i].fields, "Host") : i \in 1 .. n}
           V(l) == {Value(r, i) : i \in Upto(r, "Host", l)}
           c == j + 1
<1>1. /\ HostsUpto(s, n, r, c) = rest \cup V(c)
      /\ HostsUpto(s, n, r, j) = rest \cup V(j)
  BY DEF HostsUpto
<1>2. /\ Name(r, c) = "Host" => V(c) = V(j) \cup {Value(r, c)}
      /\ Name(r, c) # "Host" => V(c) = V(j)
  <2>1. /\ Name(r, c) = "Host" => Upto(r, "Host", c) = Upto(r, "Host", j) \cup {c}
        /\ Name(r, c) # "Host" => Upto(r, "Host", c) = Upto(r, "Host", j)
    BY UptoMore
  <2> HIDE DEF c
  <2> QED  BY <2>1
<1> HIDE DEF rest, V, c
<1>3. /\ Name(r, c) = "Host" => HostsUpto(s, n, r, c) = HostsUpto(s, n, r, j) \cup {Value(r, c)}
      /\ Name(r, c) # "Host" => HostsUpto(s, n, r, c) = HostsUpto(s, n, r, j)
  BY <1>1, <1>2
<1> QED  BY <1>3 DEF c

\* The fields of the request and those of the scripts say the same.
LEMMA FieldKept ==
  ASSUME NEW s, NEW n, NEW r, NEW j \in Nat, NEW fields, IsSequence(fields),
         Values(fields, <<"Host">>) = HostsUpto(s, n, r, j)
  PROVE  Values(Append(fields, <<<<Name(r, j + 1)>>, Value(r, j + 1)>>), <<"Host">>)
           = HostsUpto(s, n, r, j + 1)
<1> DEFINE a == Name(r, j + 1)
           v == Value(r, j + 1)
           u == <<a>>
           w == <<"Host">>
           t == Append(fields, <<u, v>>)
<1>1. u = w <=> a = "Host"
  OBVIOUS
<1>2. /\ a = "Host" => HostsUpto(s, n, r, j + 1) = HostsUpto(s, n, r, j) \cup {v}
      /\ a # "Host" => HostsUpto(s, n, r, j + 1) = HostsUpto(s, n, r, j)
  BY HostsMore
<1> HIDE DEF u, w, a, v
<1>3. /\ u = w => Values(t, w) = Values(fields, w) \cup {v}
      /\ u # w => Values(t, w) = Values(fields, w)
  BY ValuesMore
<1>4. Values(fields, w) = HostsUpto(s, n, r, j)
  BY DEF w
<1> HIDE DEF t
<1>5. Values(t, w) = HostsUpto(s, n, r, j + 1)
  BY <1>1, <1>2, <1>3, <1>4
<1> QED  BY <1>5 DEF t, u, w, a, v

LEMMA HostsWhole ==
  ASSUME NEW s, NEW n \in Nat, NEW r, r = s[n + 1], r.fields \in Seq(Byte \X Seq(Byte))
  PROVE  HostsUpto(s, n, r, Len(r.fields)) = UNION {Values(s[i].fields, "Host") : i \in 1 .. n + 1}
<1> DEFINE F == Len(r.fields)
           V == {Value(r, i) : i \in Upto(r, "Host", F)}
           H(m) == UNION {Values(s[i].fields, "Host") : i \in 1 .. m}
           c == n + 1
<1>1. V = Values(r.fields, "Host")
  <2>1. DOMAIN r.fields = 1 .. F
    OBVIOUS
  <2> QED  BY <2>1 DEF Values, Upto, Value, Name
<1>2. \A i : i \in 1 .. c <=> i = c \/ i \in 1 .. n
  OBVIOUS
<1>3. s[c].fields = r.fields
  OBVIOUS
<1> HIDE DEF c, F, V
<1>4. H(c) = H(n) \cup Values(r.fields, "Host")
  BY <1>2, <1>3
<1>5. HostsUpto(s, n, r, F) = H(n) \cup V
  BY DEF HostsUpto, V
<1> HIDE DEF H
<1>6. HostsUpto(s, n, r, F) = H(c)
  BY <1>1, <1>4, <1>5
<1> QED  BY <1>6 DEF H, F, c

\* The last of some numbers.
LEMMA GreatestMember ==
  ASSUME NEW n \in Nat, NEW S, S \subseteq 1 .. n, S # {}
  PROVE  \E i \in S : \A j \in S : j <= i
<1> DEFINE T == {n - i : i \in S}
<1>1. T \subseteq Nat /\ T # {}
  <2>1. \A i \in S : n - i \in Nat
    OBVIOUS
  <2> QED  BY <2>1
<1>2. PICK m \in T : \A k \in T : m <= k
  <2> HIDE DEF T
  <2> QED  BY <1>1, LeastMember
<1>3. PICK i \in S : m = n - i
  BY <1>2
<1>4. \A j \in S : n - i <= n - j
  BY <1>2, <1>3
<1>5. \A j \in S : j <= i
  BY <1>4
<1> QED  BY <1>5

\* What the counters say of the connection is what the request asks for.
LEMMA AskedIs ==
  ASSUME NEW r \in Request, WellFormed(r), NEW g, FieldsRead(r, g, Len(r.fields)), MinorRead(r, g)
  PROVE  KeptAlive(g) <=> AsksToKeep(r)
<1> DEFINE F == Len(r.fields)
           said == Upto(r, "Connection", F)
<1>1. F \in Nat /\ DOMAIN r.fields = 1 .. F
  BY PlacesAre DEF Request
<1>2. AsksToKeep(r) <=> IF said = {} THEN Number(r.minor) # 0
                        ELSE \E i \in said : Value(r, i) = KeepAlive /\ \A j \in said : j <= i
  BY <1>1 DEF AsksToKeep, Upto, Name, Value, KeepAlive
<1>3. said \subseteq 1 .. F
  BY DEF Upto
<1>4. /\ g.keepAliveSet \in BOOLEAN /\ g.keepAlive \in BOOLEAN
      /\ g.keepAliveSet <=> said # {}
  BY DEF FieldsRead
<1>5. \A i \in said : (\A l \in said : l <= i) => (g.keepAlive <=> Value(r, i) = KeepAlive)
  BY DEF FieldsRead
<1>6. g.minor = Number(r.minor)
  BY DEF MinorRead
<1> HIDE DEF said, F
<1>7. CASE said = {}
  BY <1>2, <1>4, <1>6, <1>7 DEF KeptAlive
<1>8. CASE said # {}
  <2>1. PICK i \in said : \A j \in said : j <= i
    BY <1>1, <1>3, <1>8, GreatestMember
  <2>2. g.keepAlive <=> Value(r, i) = KeepAlive
    BY <1>5, <2>1
  <2>3. \A l \in said : (\A j \in said : j <= l) => l = i
    BY <1>1, <1>3, <2>1
  <2>4. AsksToKeep(r) <=> Value(r, i) = KeepAlive
    BY <1>2, <1>8, <2>1, <2>3
  <2>5. KeptAlive(g) = g.keepAlive
    BY <1>4, <1>8 DEF KeptAlive
  <2> QED  BY <2>2, <2>4, <2>5
<1> QED  BY <1>7, <1>8

-----------------------------------------------------------------------------
(* Steps inside a request.                                                   *)

\* How far the parser has come, and that the bytes it waits for are part of
\* the request, unless it stands in the version.
LEMMA FieldRoom ==
  ASSUME NEW r \in Request, WellFormed(r), NEW base \in Nat, NEW k \in Int, NEW g,
         NEW j \in 0 .. Len(r.fields), AtField(r, base, k, g, j)
  PROVE  k \in Nat /\ HeadEnd(r) - k >= Wanted(g.state)
<1> DEFINE at == FieldAt(r)[j]
           len == Len(Value(r, j + 1))
           H == HeadEnd(r)
           F == Len(r.fields)
<1>1. F \in Nat /\ H \in Nat /\ at \in Nat /\ at + 2 <= H /\ j \in Nat
  <2>1. F \in Nat
    BY PlacesAre
  <2>2. FieldAt(r)[j] \in Nat /\ FieldAt(r)[j] <= FieldAt(r)[F]
    BY FieldsAtIs
  <2>3. FieldAt(r)[F] \in Nat
    BY <2>1, FieldsAtIs
  <2>4. H = FieldAt(r)[F] + 2
    BY DEF HeadEnd
  <2> QED  BY <2>1, <2>2, <2>3, <2>4
<1>2. j < F => len \in Nat /\ at + len + 7 <= H
  BY <1>1, FieldBytesAre
<1>3. j = F => at + 2 = H
  BY DEF HeadEnd
<1>4. /\ \/ g.state = "CRLF" /\ k = at
         \/ g.state = "Header" /\ Named(r, base, g, j) /\ k = at + 1
         \/ g.state = "Colon" /\ Named(r, base, g, j) /\ (k = at + 2 \/ k = at + 3)
         \/ g.state = "Value" /\ Valued(r, base, g, j) /\ g.valueLength \in 1 .. len
              /\ k = at + 3 + g.valueLength
         \/ g.state = "CR" /\ Valued(r, base, g, j) /\ k = at + 4 + len
         \/ g.state = "CRLFCR" /\ j = F /\ k = at + 1
  <2>1. StandsAt(r, base, k, g, j, at, len)
    BY FieldStands
  <2> QED  BY <2>1 DEF StandsAt
<1>5. (Named(r, base, g, j) => j < F) /\ (Valued(r, base, g, j) => j < F)
  BY DEF Named, Valued
<1>6. /\ g.state = "CRLF" => Wanted(g.state) = 1
      /\ g.state \in {"Header", "Colon", "Value"} => Wanted(g.state) = 3
      /\ g.state = "CR" => Wanted(g.state) = 1
      /\ g.state = "CRLFCR" => Wanted(g.state) = 1
  BY DEF Wanted
<1> HIDE DEF at, len, H, F
<1>7. CASE g.state = "CRLF" /\ k = at
  BY <1>1, <1>6, <1>7 DEF H
<1>8. CASE g.state = "Header" /\ Named(r, base, g, j) /\ k = at + 1
  BY <1>1, <1>2, <1>5, <1>6, <1>8 DEF H
<1>9. CASE g.state = "Colon" /\ Named(r, base, g, j) /\ (k = at + 2 \/ k = at + 3)
  BY <1>1, <1>2, <1>5, <1>6, <1>9 DEF H
<1>10. CASE g.state = "Value" /\ Valued(r, base, g, j) /\ g.valueLength \in 1 .. len
              /\ k = at + 3 + g.valueLength
  BY <1>1, <1>2, <1>5, <1>6, <1>10 DEF H
<1>11. CASE g.state = "CR" /\ Valued(r, base, g, j) /\ k = at + 4 + len
  BY <1>1, <1>2, <1>5, <1>6, <1>11 DEF H
<1>12. CASE g.state = "CRLFCR" /\ j = F /\ k = at + 1
  BY <1>1, <1>3, <1>6, <1>12 DEF H
<1> QED  BY <1>4, <1>7, <1>8, <1>9, <1>10, <1>11, <1>12

LEMMA LineRoom ==
  ASSUME NEW r \in Request, WellFormed(r), NEW base, NEW k \in Int, NEW g,
         AtMethod(r, k, g) \/ AtUri(r, base, k, g) \/ AtVersion(r, base, k, g)
  PROVE  /\ k \in Nat
         /\ r.method \in Methods /\ g.state \notin {"VerHttpSlash", "VerMajor"}
              => HeadEnd(r) - k >= Wanted(g.state)
<1> DEFINE m == Len(r.method)
           u == Len(r.uri)
           a == Len(r.major)
           b == Len(r.minor)
           U == UriAt(r)
           V == VersionAt(r)
           M == MinorAt(r)
           F == FieldsAt(r)
           H == HeadEnd(r)
<1>1. /\ m \in Nat \ {0} /\ u \in Nat \ {0} /\ a \in Nat \ {0} /\ b \in Nat
      /\ U \in Nat /\ V \in Nat /\ M \in Nat /\ F \in Nat /\ H \in Nat
      /\ U = m + 1 /\ V = U + u + 6 /\ M = V + a + 1 /\ F = M + b + 2 /\ F + 2 <= H
  BY PlacesAre
<1>2. r.method \in Methods => m >= 3
  <2>1. \A x \in Methods : Len(x) >= 3
    BY DEF Methods
  <2> QED  BY <2>1
<1>3. /\ g.state \in {"Begin"} \cup WordStates => Wanted(g.state) = 16
      /\ g.state \in {"MetAlmostDone", "MetDone", "UriStart"} => Wanted(g.state) = 12
      /\ g.state \in {"Uri", "UriEnd"} => Wanted(g.state) = 10
      /\ g.state = "VerDot" => Wanted(g.state) = 3
      /\ g.state \in {"VerMinor", "VerEnd"} => Wanted(g.state) = 2
  BY DEF Wanted, WordStates
<1> DEFINE Goal == /\ k \in Nat
                   /\ r.method \in Methods /\ g.state \notin {"VerHttpSlash", "VerMajor"}
                        => H - k >= Wanted(g.state)
<1>4. CASE AtMethod(r, k, g)
  <2>1. \/ g.state = "Begin" /\ k = 0
        \/ g.state \in WordStates /\ k = 1
        \/ g.state = "MetAlmostDone" /\ g.method \in Methods /\ k = Len(g.method) /\ k <= m
    BY <1>4 DEF AtMethod
  <2>2. g.method \in Methods => Len(g.method) \in Nat
    BY MethodsAre
  <2> HIDE DEF m, u, a, b, U, V, M, F, H
  <2>3. Goal
    <3>1. CASE g.state = "Begin" /\ k = 0
      BY <1>1, <1>2, <1>3, <3>1
    <3>2. CASE g.state \in WordStates /\ k = 1
      BY <1>1, <1>2, <1>3, <3>2
    <3>3. CASE g.state = "MetAlmostDone" /\ g.method \in Methods /\ k = Len(g.method) /\ k <= m
      BY <1>1, <1>3, <2>2, <3>3
    <3> QED  BY <2>1, <3>1, <3>2, <3>3
  <2> QED  BY <2>3 DEF H
<1>5. CASE AtUri(r, base, k, g)
  <2>1. \/ g.state = "MetDone" /\ k = U
        \/ /\ g.state \in {"UriStart", "Uri"} /\ k = U + g.uriLength /\ g.uriLength \in 1 .. u
           /\ g.state = "UriStart" => g.uriLength = 1
    BY <1>5 DEF AtUri
  <2> HIDE DEF m, u, a, b, U, V, M, F, H
  <2>3. Goal
    <3>1. CASE g.state = "MetDone" /\ k = U
      BY <1>1, <1>3, <3>1
    <3>2. CASE /\ g.state \in {"UriStart", "Uri"} /\ k = U + g.uriLength /\ g.uriLength \in 1 .. u
               /\ g.state = "UriStart" => g.uriLength = 1
      <4>1. k \in Nat /\ H - k >= 11 /\ (g.state = "UriStart" => H - k >= 12)
        BY <1>1, <3>2
      <4> QED  BY <1>1, <1>3, <3>2, <4>1
    <3> QED  BY <2>1, <3>1, <3>2
  <2> QED  BY <2>3 DEF H
<1>6. CASE AtVersion(r, base, k, g)
  <2>1. \/ g.state = "UriEnd" /\ k = V - 5
        \/ g.state = "VerHttpSlash" /\ k = V
        \/ g.state = "VerMajor" /\ k - V \in 1 .. a
        \/ g.state = "VerDot" /\ k = M
        \/ g.state = "VerMinor" /\ k - M \in 1 .. b
        \/ g.state = "VerEnd" /\ k = F - 1
    BY <1>6 DEF AtVersion
  <2> HIDE DEF m, u, a, b, U, V, M, F, H
  <2>3. Goal
    <3>1. CASE g.state = "UriEnd" /\ k = V - 5
      BY <1>1, <1>3, <3>1
    <3>2. CASE g.state = "VerHttpSlash" /\ k = V
      BY <1>1, <3>2
    <3>3. CASE g.state = "VerMajor" /\ k - V \in 1 .. a
      <4>1. k \in Nat
        BY <1>1, <3>3
      <4> QED  BY <3>3, <4>1
    <3>4. CASE g.state = "VerDot" /\ k = M
      BY <1>1, <1>3, <3>4
    <3>5. CASE g.state = "VerMinor" /\ k - M \in 1 .. b
      <4>1. k \in Nat /\ H - k >= 4
        BY <1>1, <3>5
      <4> QED  BY <1>1, <1>3, <3>5, <4>1
    <3>6. CASE g.state = "VerEnd" /\ k = F - 1
      BY <1>1, <1>3, <3>6
    <3> QED  BY <2>1, <3>1, <3>2, <3>3, <3>4, <3>5, <3>6
  <2> QED  BY <2>3 DEF H
<1> QED  BY <1>4, <1>5, <1>6

LEMMA Room ==
  ASSUME NEW r \in Request, WellFormed(r), NEW base \in Nat, NEW k \in Int, NEW g,
         NEW j \in 0 .. Len(r.fields), Standing(r, base, k, g, j)
  PROVE  /\ k \in Nat
         /\ r.method \in Methods /\ g.state \notin {"VerHttpSlash", "VerMajor"}
              => HeadEnd(r) - k >= Wanted(g.state)
<1>1. CASE AtField(r, base, k, g, j)
  BY <1>1, FieldRoom
<1>2. CASE AtMethod(r, k, g) \/ AtUri(r, base, k, g) \/ AtVersion(r, base, k, g)
  BY <1>2, LineRoom
<1> QED  BY <1>1, <1>2 DEF Standing

\* One byte.
LEMMA ByteRead ==
  ASSUME NEW r, NEW base, NEW k, NEW g, Reading(r, base, k, g), NEW j \in 0 .. Len(r.fields),
         Standing(r, base, k, g, j), g.state \notin {"CR", "VerEnd"} \cup DOMAIN WordAt
  PROVE  Onward(r, base, k, g, Moves(g), j)
<1>1. DOMAIN WordAt = WordStates \cup {"UriEnd"}
  BY TextsAre
<1>2. j \in Nat /\ j <= Len(r.fields)
  BY PlacesAre DEF Reading
<1>3. CASE AtMethod(r, k, g) /\ j = 0
  BY <1>1, <1>3, MethodMoves
<1>4. CASE AtUri(r, base, k, g) /\ j = 0
  BY <1>4, UriMoves
<1>5. CASE AtVersion(r, base, k, g) /\ j = 0
  BY <1>1, <1>5, VersionMoves
<1>6. CASE AtField(r, base, k, g, j)
  BY <1>2, <1>6, FieldMoves
<1> QED  BY <1>3, <1>4, <1>5, <1>6 DEF Standing

\* Each state stands in one place.
LEMMA PlaceOf ==
  ASSUME NEW r, NEW base, NEW k, NEW g, NEW j, Standing(r, base, k, g, j)
  PROVE  /\ g.state = "VerEnd" => j = 0 /\ AtVersion(r, base, k, g)
         /\ g.state = "UriEnd" => j = 0 /\ AtVersion(r, base, k, g)
         /\ g.state \in WordStates => j = 0 /\ AtMethod(r, k, g)
         /\ g.state = "CR" => AtField(r, base, k, g, j)
<1>1. AtMethod(r, k, g) => g.state \in {"Begin", "MetAlmostDone"} \cup WordStates
  BY DEF AtMethod
<1>2. AtUri(r, base, k, g) => g.state \in {"MetDone", "UriStart", "Uri"}
  BY DEF AtUri
<1>3. AtVersion(r, base, k, g) => g.state \in {"UriEnd", "VerHttpSlash", "VerMajor", "VerDot", "VerMinor", "VerEnd"}
  BY DEF AtVersion
<1>4. AtField(r, base, k, g, j) => g.state \in {"CRLF", "Header", "Colon", "Value", "CR", "CRLFCR"}
  BY DEF AtField
<1> QED  BY <1>1, <1>2, <1>3, <1>4 DEF Standing, WordStates

LEMMA InsideOn ==
  ASSUME NEW s, NEW n, NEW req, NEW r, NEW base, NEW k, NEW g, NEW h, NEW j \in 0 .. Len(r.fields),
         Onward(r, base, k, g, h, j), g.err \in NotDone, Behind(s, n, req, r, g, j)
  PROVE  Inside(s, n, req, r, base, k + 1, h)
<1>0. Carried(g, h)
  BY DEF Onward
<1>1. Behind(s, n, req, r, h, j)
  BY <1>0 DEF Behind, FieldsRead, Carried
<1>2. CASE h.state # "Died" /\ h.err = g.err /\ Standing(r, base, k + 1, h, j)
  BY <1>1, <1>2 DEF Inside
<1>3. CASE /\ h.state = "Died"
           /\ FieldsFine(r, j) => h.err = MeaningOf(r) /\ h.err \notin NoError \cup {"Parsed"}
  <2>1. ASSUME NoOverflow(r) PROVE KeptUpto(s, n, req) /\ Refused(r, h)
    <3>1. KeptUpto(s, n, req) /\ FieldsRead(r, h, j)
      BY <1>1, <2>1 DEF Behind
    <3>2. FieldsFine(r, j) /\ h.contentLength < 0
      BY <3>1 DEF FieldsFine, FieldsRead
    <3> QED  BY <1>3, <3>1, <3>2 DEF Refused
  <2> QED  BY <1>3, <2>1 DEF Inside
<1>4. CASE h.state = "Died" /\ j = Len(r.fields) /\ Whole(r, base, k + 1, h)
  <2>1. ASSUME NoOverflow(r) PROVE KeptUpto(s, n, req)
    BY <1>1, <2>1 DEF Behind
  <2> QED  BY <1>1, <1>4, <2>1 DEF Inside
<1> QED  BY <1>2, <1>3, <1>4 DEF Onward

LEMMA InsideFieldOn ==
  ASSUME NEW s, NEW n, NEW req, NEW req2, NEW r, NEW base, NEW k, NEW g, NEW h, NEW j \in Nat,
         Len(r.fields) \in Nat,
         FieldOnward(r, base, k, g, h, j), g.err \in NotDone, Behind(s, n, req, r, g, j),
         IsSequence(req.fields), req2.keepAlive = req.keepAlive,
         req2.fields = Append(req.fields, <<<<Name(r, j + 1)>>, Value(r, j + 1)>>)
  PROVE  Inside(s, n, req2, r, base, k + 1, h)
<1>1. ASSUME NoOverflow(r)
      PROVE  /\ KeptUpto(s, n, req2) /\ FieldsRead(r, g, j)
             /\ Values(req2.fields, <<"Host">>) = HostsUpto(s, n, r, j + 1)
  <2>1. KeptUpto(s, n, req) /\ FieldsRead(r, g, j)
        /\ Values(req.fields, <<"Host">>) = HostsUpto(s, n, r, j)
    BY <1>1 DEF Behind
  <2>2. Values(req2.fields, <<"Host">>) = HostsUpto(s, n, r, j + 1)
    BY <2>1, FieldKept
  <2> QED  BY <2>1, <2>2 DEF KeptUpto
<1>2. CASE /\ h.state = "CRLF" /\ h.err = g.err /\ AtField(r, base, k + 1, h, j + 1)
           /\ NoOverflow(r) /\ FieldsRead(r, g, j) => FieldsRead(r, h, j + 1)
  <2>1. Behind(s, n, req2, r, h, j + 1)
    BY <1>1, <1>2 DEF Behind
  <2>2. j + 1 \in 0 .. Len(r.fields)
    BY DEF FieldOnward
  <2>3. Standing(r, base, k + 1, h, j + 1)
    BY <1>2 DEF Standing
  <2> QED  BY <1>2, <2>1, <2>2, <2>3 DEF Inside
<1>3. CASE h.state = "Died" /\ (NoOverflow(r) /\ FieldsRead(r, g, j) => Refused(r, h))
  BY <1>1, <1>3 DEF Inside
<1> QED  BY <1>2, <1>3 DEF FieldOnward

LEMMA PacedOn ==
  ASSUME NEW r, NEW g, NEW h, NEW left \in Nat, Paced(r, g, left, "parse"),
         h.state # "Begin", h.state \in WordStates => g.state = "Begin"
  PROVE  Paced(r, h, left - 1, "parse")
BY DEF Paced

-----------------------------------------------------------------------------
(* The request being parsed.                                                 *)

\* Request r follows on n answered ones, and the parser is k bytes into it.
Follow(n, r, base, k) ==
  /\ n = Len(answers) /\ n \in Nat /\ n < Len(script) /\ Len(script) \in Nat
  /\ r = script[n + 1] /\ r \in Request /\ WellFormed(r) /\ PlainUpto(script, n)
  /\ base = EndOf(script, n) /\ base \in Nat /\ k = readPos - base /\ k \in Int
  /\ Sent(r, base)
  /\ EndOf(script, n + 1) = base + HeadEnd(r) + Len(r.content)
  /\ Len(r.content) \in Nat /\ HeadEnd(r) \in Nat /\ n + 1 \in DOMAIN script
Parsing(n, r, base, k) ==
  /\ Follow(n, r, base, k)
  /\ Inside(script, n, request, r, base, k, f) /\ Paced(r, f, received - readPos, pc)

LEMMA PlacedIs ==
  ASSUME Placed
  PROVE  /\ script \in Scripts /\ stream = StreamOf(script) /\ stream \in Seq(Byte)
         /\ Len(stream) \in Nat /\ readPos \in Nat /\ received \in Nat
         /\ readPos <= received /\ received <= Len(stream)
         /\ Typed(f) /\ Counters(f, readPos) /\ DOMAIN f = CounterFields
<1>1. script \in Scripts /\ stream = StreamOf(script) /\ Typed(f)
      /\ received \in 0 .. Len(stream) /\ readPos \in 0 .. received
  BY TypeOKIs DEF Placed
<1>2. stream \in Seq(Byte)
  BY <1>1, StreamTyped
<1> QED  BY <1>1, <1>2 DEF Placed, Viewed, Typed

LEMMA FollowIs ==
  ASSUME Placed, IsSequence(answers), NEW n, n = Len(answers), PlainUpto(script, n), n < Len(script),
         NEW r, r = script[n + 1], WellFormed(r), NEW base, base = EndOf(script, n),
         NEW k, k = readPos - base
  PROVE  Follow(n, r, base, k)
<1>1. n \in Nat /\ script \in Scripts /\ stream = StreamOf(script) /\ readPos \in Nat
  BY LengthIs DEF Placed, TypeOK, Viewed
<1>2. n \in 0 .. Len(script) /\ Len(script) \in Nat
  BY <1>1, ScriptLies
<1>3. /\ r \in Request /\ n + 1 \in DOMAIN script /\ base \in Nat
      /\ EndOf(script, n + 1) = base + Len(Encoded(r))
      /\ \A j \in 1 .. Len(Encoded(r)) : stream[base + j] = Encoded(r)[j]
  BY <1>1, <1>2, ScriptLies
<1>4. Len(Encoded(r)) = HeadEnd(r) + Len(r.content) /\ HeadEnd(r) \in Nat
  BY <1>3, EncodedLaid, PlacesAre
<1>5. Len(r.content) \in Nat
  BY <1>3 DEF Request
<1>6. Sent(r, base)
  <2>1. \A i \in 1 .. HeadEnd(r) : i \in 1 .. Len(Encoded(r))
    BY <1>4, <1>5
  <2>2. \A i \in 1 .. HeadEnd(r) : stream[base + i] = Encoded(r)[i]
    BY <1>3, <2>1
  <2> QED  BY <2>2 DEF Sent
<1>7. EndOf(script, n + 1) = base + HeadEnd(r) + Len(r.content)
  BY <1>3, <1>4, <1>5
<1>8. k \in Int
  BY <1>1, <1>3
<1> QED  BY <1>1, <1>2, <1>3, <1>4, <1>5, <1>6, <1>7, <1>8 DEF Follow

\* Somewhere in the request, unless the parser is done with it.
LEMMA ParsingReads ==
  ASSUME Placed, NEW n, NEW r, NEW base, NEW k, Parsing(n, r, base, k), f.state # "Died"
  PROVE  /\ Reading(r, base, k, f) /\ f.err \in NotDone /\ received - readPos \in Nat
         /\ \E j \in 0 .. Len(r.fields) :
              Standing(r, base, k, f, j) /\ Behind(script, n, request, r, f, j)
<1>1. f.err \in NotDone
  BY DEF Parsing, Inside
<1>2. PICK j \in 0 .. Len(r.fields) :
        Standing(r, base, k, f, j) /\ Behind(script, n, request, r, f, j)
  BY DEF Parsing, Inside
<1>3. r \in Request /\ WellFormed(r) /\ base \in Nat /\ k \in Int /\ k = readPos - base /\ Sent(r, base)
  BY DEF Parsing, Follow
<1>4. k \in Nat
  BY <1>2, <1>3, Room
<1>5. readPos \in Nat /\ received - readPos \in Nat /\ Counters(f, readPos)
  BY StreamTyped DEF Placed, Viewed, TypeOK
<1>6. Reading(r, base, k, f)
  BY <1>3, <1>4, <1>5 DEF Reading
<1> QED  BY <1>1, <1>2, <1>5, <1>6

\* A step that answers nothing keeps the parser where it has to be, if it does
\* in a well-formed request.
Onwards(n, r, base, k) ==
  Parsing(n, r, base, k) =>
    /\ Inside(script, n, request', r, base, readPos' - base, f')
    /\ Paced(r, f', received' - readPos', pc')
StillLocated ==
  /\ UNCHANGED <<script, stream, answers>> /\ Kind(request') /\ pc' \in {"parse", "thrown"}
  /\ \A n, r, base, k : Onwards(n, r, base, k)

LEMMA StillLocatedIs ==
  ASSUME Placed, Located, pc = "parse", StillLocated
  PROVE  Located'
<1> DEFINE n == Len(answers)
           r == script[n + 1]
           base == EndOf(script, n)
           k == readPos - base
<1>1. script' = script /\ answers' = answers /\ Kind(request') /\ pc' \in {"parse", "thrown"}
  BY DEF StillLocated
<1>2. IsSequence(answers)
  BY DEF Located
<1>3. ~BetweenAt(pc, f) /\ ~BetweenAt(pc', f')
  BY <1>1 DEF BetweenAt
<1>4. ASSUME PlainUpto(script, n)
      PROVE  n <= Len(script) /\ n # Len(script)
             /\ (WellFormed(r) => Inside(script, n, request, r, base, k, f)
                                  /\ Paced(r, f, received - readPos, pc))
  <2>1. LocatedAt(script, n, request, readPos, received, pc, f)
    BY DEF Located
  <2>2. n \in Nat /\ Len(script) \in Nat
    BY <1>2, LengthIs, ScriptLies DEF Placed, TypeOK
  <2> HIDE DEF n
  <2>3. n <= Len(script) /\ n # Len(script)
    BY <1>3, <1>4, <2>1 DEF LocatedAt
  <2>4. n < Len(script)
    BY <2>2, <2>3
  <2> QED  BY <1>3, <1>4, <2>1, <2>3, <2>4 DEF LocatedAt
<1>5. ASSUME PlainUpto(script, n), WellFormed(r)
      PROVE  /\ Inside(script, n, request', r, base, readPos' - base, f')
             /\ Paced(r, f', received' - readPos', pc')
  <2>1. n \in Nat /\ Len(script) \in Nat
    BY <1>2, LengthIs, ScriptLies DEF Placed, TypeOK
  <2>2. n < Len(script)
    BY <1>4, <1>5, <2>1
  <2>3. Follow(n, r, base, k)
    BY <1>2, <1>5, <2>2, FollowIs
  <2>4. Parsing(n, r, base, k)
    BY <1>4, <1>5, <2>3 DEF Parsing
  <2>5. Onwards(n, r, base, k)
    BY DEF StillLocated
  <2> QED  BY <2>4, <2>5 DEF Onwards
<1> HIDE DEF n
<1>6. LocatedAt(script, n, request', readPos', received', pc', f')
  BY <1>3, <1>4, <1>5 DEF LocatedAt
<1>7. Located' <=> /\ IsSequence(answers') /\ Kind(request')
                   /\ LocatedAt(script', Len(answers'), request', readPos', received', pc', f')
  BY DEF Located
<1> QED  BY <1>1, <1>2, <1>6, <1>7 DEF n

\* One byte of the request.
LEMMA ByteStep ==
  ASSUME Placed, pc = "parse", Left > 0, NEW n, NEW r, NEW base, NEW k, Parsing(n, r, base, k),
         f.state # "Died", NEW h, NEW pos, pos = readPos + 1,
         \A j \in 0 .. Len(r.fields) : Standing(r, base, k, f, j) => Onward(r, base, k, f, h, j)
  PROVE  /\ Inside(script, n, request, r, base, pos - base, h)
         /\ Paced(r, h, received - pos, "parse")
<1>1. Reading(r, base, k, f) /\ f.err \in NotDone /\ received - readPos \in Nat
  BY ParsingReads
<1>2. PICK j \in 0 .. Len(r.fields) :
        Standing(r, base, k, f, j) /\ Behind(script, n, request, r, f, j)
  BY ParsingReads
<1>3. Onward(r, base, k, f, h, j)
  BY <1>2
<1>4. Inside(script, n, request, r, base, k + 1, h)
  BY <1>1, <1>2, <1>3, InsideOn
<1>5. h.state # "Begin" \/ f.state = "Begin"
  BY <1>3 DEF Onward
<1>6. h.state # "Begin" /\ (h.state \in WordStates => f.state = "Begin")
  BY <1>3 DEF Onward, WordStates
<1>7. Paced(r, f, received - readPos, "parse")
  BY DEF Parsing
<1> DEFINE left == received - readPos
<1>8. left \in Nat /\ Paced(r, f, left, "parse")
  BY <1>1, <1>7
<1> HIDE DEF left
<1>9. Paced(r, h, left - 1, "parse")
  BY <1>6, <1>8, PacedOn
<1>10. k + 1 = pos - base /\ left - 1 = received - pos
  <2>1. readPos \in Nat /\ received \in Nat
    BY PlacedIs
  <2>2. base \in Nat /\ k = readPos - base
    BY DEF Parsing, Follow
  <2> QED  BY <2>1, <2>2 DEF left
<1> QED  BY <1>4, <1>9, <1>10

LEMMA AdvanceLocated == Placed /\ Located /\ Advance => Located'
<1> SUFFICES ASSUME Placed, Located, Advance PROVE Located'
  OBVIOUS
<1>1. /\ pc = "parse" /\ f.state # "Died" /\ Left > 0 /\ f.state \notin {"CR", "VerEnd"} \cup DOMAIN WordAt
      /\ f' = Moves(f) /\ readPos' = readPos + 1 /\ received' = received /\ pc' = pc
      /\ request' = request /\ UNCHANGED <<script, stream, answers>>
  BY DEF Advance, Scanning
<1>2. ASSUME NEW n, NEW r, NEW base, NEW k, Parsing(n, r, base, k)
      PROVE  /\ Inside(script, n, request', r, base, readPos' - base, f')
             /\ Paced(r, f', received' - readPos', pc')
  <2>1. Reading(r, base, k, f)
    BY <1>1, <1>2, ParsingReads
  <2> DEFINE h == Moves(f)
  <2>2. \A j \in 0 .. Len(r.fields) : Standing(r, base, k, f, j) => Onward(r, base, k, f, h, j)
    BY <1>1, <2>1, ByteRead
  <2> HIDE DEF h
  <2>3. /\ Inside(script, n, request, r, base, readPos' - base, h)
        /\ Paced(r, h, received - readPos', "parse")
    BY <1>1, <1>2, <2>2, ByteStep
  <2> QED  BY <1>1, <2>3 DEF h
<1>3. StillLocated
  BY <1>1, <1>2 DEF StillLocated, Onwards, Located
<1> QED  BY <1>1, <1>3, StillLocatedIs

LEMMA EndVersionLocated == Placed /\ Located /\ EndVersion => Located'
<1> SUFFICES ASSUME Placed, Located, EndVersion PROVE Located'
  OBVIOUS
<1> DEFINE h == IF f.major # 1 /\ f.minor \notin {0, 1}
                THEN Rejected(f, "UnsupportedVersion") ELSE Moves(f)
<1>1. /\ pc = "parse" /\ f.state = "VerEnd" /\ Left > 0
      /\ f' = h /\ readPos' = readPos + 1 /\ received' = received /\ pc' = pc
      /\ request' = request /\ UNCHANGED <<script, stream, answers>>
  BY DEF EndVersion, Scanning
<1>2. ASSUME NEW n, NEW r, NEW base, NEW k, Parsing(n, r, base, k)
      PROVE  /\ Inside(script, n, request', r, base, readPos' - base, f')
             /\ Paced(r, f', received' - readPos', pc')
  <2>0. f.state # "Died"
    BY <1>1
  <2>1. Reading(r, base, k, f)
    BY <2>0, <1>2, ParsingReads
  <2>2. \A j \in 0 .. Len(r.fields) : Standing(r, base, k, f, j) => Onward(r, base, k, f, h, j)
    BY <1>1, <2>1, PlaceOf, VersionEnds
  <2> HIDE DEF h
  <2>3. /\ Inside(script, n, request, r, base, readPos' - base, h)
        /\ Paced(r, h, received - readPos', "parse")
    BY <1>1, <2>0, <1>2, <2>2, ByteStep
  <2> QED  BY <1>1, <2>3
<1>3. StillLocated
  BY <1>1, <1>2 DEF StillLocated, Onwards, Located
<1> QED  BY <1>1, <1>3, StillLocatedIs

LEMMA EndFieldLocated == Placed /\ Located /\ EndField => Located'
<1> SUFFICES ASSUME Placed, Located, EndField PROVE Located'
  OBVIOUS
<1> DEFINE name == View(f.nameStart, f.nameLength)
           value == View(f.valueStart, f.valueLength)
           x == FieldEnded(f, name, value)
           h == IF x.state = "Died" THEN x ELSE Moves(x)
<1>1. /\ pc = "parse" /\ f.state = "CR" /\ Left > 0
      /\ f' = h /\ readPos' = readPos + 1 /\ received' = received /\ pc' = pc
      /\ request' = [request EXCEPT !.fields = Append(@, <<name, value>>)]
      /\ UNCHANGED <<script, stream, answers>>
  BY DEF EndField, Scanning
<1> DEFINE pair == <<name, value>>
<1>2. Kind(request) /\ request' = [request EXCEPT !.fields = Append(@, pair)]
  BY <1>1 DEF Located
<1>3. Kind(request') /\ request'.keepAlive = request.keepAlive
      /\ request'.fields = Append(request.fields, pair)
  <2> HIDE DEF pair
  <2>1. IsSequence(Append(request.fields, pair))
    BY <1>2, Appended DEF Kind
  <2> QED  BY <1>2, <2>1 DEF Kind, RequestFields
<1>4. ASSUME NEW n, NEW r, NEW base, NEW k, Parsing(n, r, base, k)
      PROVE  /\ Inside(script, n, request', r, base, readPos' - base, f')
             /\ Paced(r, f', received' - readPos', pc')
  <2>0. f.state # "Died"
    BY <1>1
  <2>1. Reading(r, base, k, f) /\ f.err \in NotDone /\ received - readPos \in Nat
    BY <2>0, <1>4, ParsingReads
  <2>2. PICK j \in 0 .. Len(r.fields) :
          Standing(r, base, k, f, j) /\ Behind(script, n, request, r, f, j)
    BY <2>0, <1>4, ParsingReads
  <2>3. AtField(r, base, k, f, j) /\ j \in Nat /\ j <= Len(r.fields) /\ Len(r.fields) \in Nat
    <3>1. Len(r.fields) \in Nat
      BY <2>1, PlacesAre DEF Reading
    <3> QED  BY <1>1, <2>2, <3>1, PlaceOf
  <2>4. FieldOnward(r, base, k, f, h, j)
    BY <1>1, <2>1, <2>3, FieldEnds
  <2>5. name = <<Name(r, j + 1)>> /\ value = Value(r, j + 1)
    <3>1. Valued(r, base, f, j) /\ f.valueLength = Len(Value(r, j + 1))
      BY <1>1, <2>3 DEF AtField, Valued, Named
    <3> QED  BY <2>1, <2>3, <3>1, FieldViews
  <2> HIDE DEF name, value, h, x
  <2>6. request'.fields = Append(request.fields, <<<<Name(r, j + 1)>>, Value(r, j + 1)>>)
    BY <1>3, <2>5
  <2>7. Inside(script, n, request', r, base, k + 1, h)
    <3>1. IsSequence(request.fields)
      BY <1>2 DEF Kind
    <3> DEFINE req2 == request'
    <3>2. req2.keepAlive = request.keepAlive
          /\ req2.fields = Append(request.fields, <<<<Name(r, j + 1)>>, Value(r, j + 1)>>)
      BY <1>3, <2>6
    <3> HIDE DEF req2
    <3>3. Inside(script, n, req2, r, base, k + 1, h)
      BY <2>1, <2>2, <2>3, <2>4, <3>1, <3>2, InsideFieldOn
    <3> QED  BY <3>3 DEF req2
  <2>8. Paced(r, h, received - readPos', "parse")
    <3>1. h.state # "Begin" /\ h.state \notin WordStates
      BY <2>4 DEF FieldOnward, WordStates
    <3> DEFINE left == received - readPos
    <3>2. left \in Nat /\ Paced(r, f, left, "parse")
      BY <1>1, <1>4, <2>1 DEF Parsing
    <3> HIDE DEF left
    <3>3. Paced(r, h, left - 1, "parse")
      BY <3>1, <3>2, PacedOn
    <3>4. left - 1 = received - readPos'
      BY <1>1, PlacedIs DEF left
    <3> QED  BY <3>3, <3>4
  <2>9. k + 1 = readPos' - base
    <3>1. base \in Nat /\ k = readPos - base
      BY <1>4 DEF Parsing, Follow
    <3> QED  BY <1>1, <3>1, PlacedIs
  <2> QED  BY <1>1, <2>7, <2>8, <2>9
<1> HIDE DEF h, name, value, pair
<1>5. StillLocated
  BY <1>1, <1>3, <1>4 DEF StillLocated, Onwards
<1> QED  BY <1>1, <1>5, StillLocatedIs

\* The bytes of a word.
LEMMA WordTyped ==
  ASSUME NEW s \in DOMAIN WordAt
  PROVE  WordAt[s].text \in Seq(Byte) /\ Len(WordAt[s].text) \in Nat /\ s \in WordStates \cup {"UriEnd"}
<1>1. s \in WordStates \cup {"UriEnd"}
  BY TextsAre
<1>2. CASE s \in WordStates
  BY <1>2, TextsAre DEF Spelled
<1>3. CASE s = "UriEnd"
  BY <1>3, TextsAre DEF Byte, ValueBytes, UriBytes, NameBytes, Letters
<1> QED  BY <1>1, <1>2, <1>3

\* What is known of the counters and the request does not depend on the state.
LEMMA BehindKept ==
  ASSUME NEW s, NEW n, NEW req, NEW r, NEW g, NEW h, NEW j, Behind(s, n, req, r, g, j), Carried(g, h)
  PROVE  Behind(s, n, req, r, h, j)
BY DEF Behind, FieldsRead, Carried

LEMMA ReadWordLocated == Placed /\ Located /\ ReadWord => Located'
<1> SUFFICES ASSUME Placed, Located, ReadWord PROVE Located'
  OBVIOUS
<1> DEFINE text == WordAt[f.state].text
           to == WordAt[f.state].to
           h == [f EXCEPT !.state = to,
                          !.method = IF f.state = "UriEnd" THEN @ ELSE <<stream[readPos]>> \o text]
<1>1. /\ pc = "parse" /\ f.state # "Died" /\ f.state \in DOMAIN WordAt /\ Left > 0
      /\ f' = h /\ readPos' = readPos + Len(text) /\ received' = received /\ pc' = pc
      /\ IsPrefix(text, SubSeq(stream, readPos + 1, received))
      /\ request' = request /\ UNCHANGED <<script, stream, answers>>
  BY DEF ReadWord, AtWord, Scanning
<1>2. text \in Seq(Byte) /\ Len(text) \in Nat /\ f.state \in WordStates \cup {"UriEnd"}
  BY <1>1, WordTyped
<1>3. WordLaid(text)
  <2> HIDE DEF text
  <2> QED  BY <1>1, <1>2, PlacedIs, PrefixLaid
<1>4. /\ h.state = to /\ h.minor = f.minor /\ h.uriStart = f.uriStart /\ h.uriLength = f.uriLength
      /\ h.method = (IF f.state = "UriEnd" THEN f.method ELSE <<stream[readPos]>> \o text)
      /\ h.err = f.err /\ Carried(f, h)
  <2>1. DOMAIN f = CounterFields
    BY PlacedIs
  <2> HIDE DEF text, to
  <2> QED  BY <2>1 DEF CounterFields, Carried
<1>5. to = IF f.state = "UriEnd" THEN "VerHttpSlash" ELSE "MetAlmostDone"
  BY <1>2, TextsAre
<1>6. f.state = "UriEnd" => Len(text) = 5
  <2>1. f.state = "UriEnd" => text = <<"H", "T", "T", "P", "/">>
    BY TextsAre
  <2> QED  BY <2>1
<1> HIDE DEF h, to
<1>7. ASSUME NEW n, NEW r, NEW base, NEW k, Parsing(n, r, base, k)
      PROVE  /\ Inside(script, n, request', r, base, readPos' - base, f')
             /\ Paced(r, f', received' - readPos', pc')
  <2>1. Reading(r, base, k, f) /\ f.err \in NotDone
    BY <1>1, <1>7, ParsingReads
  <2>2. PICK j \in 0 .. Len(r.fields) :
          Standing(r, base, k, f, j) /\ Behind(script, n, request, r, f, j)
    BY <1>1, <1>7, ParsingReads
  <2>3. k + Len(text) = readPos' - base /\ k \in Nat
    <3>1. base \in Nat /\ k = readPos - base /\ k \in Nat
      BY <1>7, <2>1 DEF Parsing, Follow, Reading
    <3> QED  BY <1>1, <1>2, <3>1, PlacedIs
  <2>4. j = 0 /\ Standing(r, base, k + Len(text), h, 0)
    <3>1. CASE f.state \in WordStates
      <4>1. j = 0 /\ AtMethod(r, k, f) /\ f.state # "UriEnd"
        BY <2>2, <3>1, PlaceOf DEF WordStates
      <4>2. h.state = "MetAlmostDone" /\ h.method = <<stream[readPos]>> \o text /\ h.minor = f.minor
        BY <1>4, <1>5, <4>1
      <4>3. AtMethod(r, k + Len(text), h)
        BY <1>3, <2>1, <3>1, <4>1, <4>2, WordRead
      <4> QED  BY <4>1, <4>3 DEF Standing
    <3>2. CASE f.state = "UriEnd"
      <4>1. j = 0 /\ AtVersion(r, base, k, f)
        BY <2>2, <3>2, PlaceOf
      <4>2. h.state = "VerHttpSlash" /\ h.method = f.method /\ Len(text) = 5
        BY <1>4, <1>5, <1>6, <3>2
      <4>3. LineRead(r, base, f) /\ k = VersionAt(r) - 5 /\ f.minor = 0
        BY <3>2, <4>1 DEF AtVersion
      <4>4. LineRead(r, base, h) /\ h.minor = 0
        BY <1>4, <4>2, <4>3 DEF LineRead, MethodRead, UriBegun
      <4>5. VersionAt(r) \in Nat
        BY <2>1, PlacesAre DEF Reading
      <4>6. k + Len(text) = VersionAt(r)
        BY <2>3, <4>2, <4>3, <4>5
      <4>7. AtVersion(r, base, k + Len(text), h)
        BY <4>2, <4>4, <4>6 DEF AtVersion
      <4> QED  BY <4>1, <4>7 DEF Standing
    <3> QED  BY <1>2, <3>1, <3>2
  <2>5. Behind(script, n, request, r, h, 0)
    BY <1>4, <2>2, <2>4, BehindKept
  <2>6. h.state # "Died" /\ h.err \in NotDone /\ h.state \notin WordStates \cup {"Begin"}
    BY <1>4, <1>5, <2>1 DEF WordStates
  <2>7. 0 \in 0 .. Len(r.fields)
    BY <2>2, <2>4
  <2>8. Inside(script, n, request, r, base, k + Len(text), h)
    BY <2>4, <2>5, <2>6, <2>7 DEF Inside
  <2>9. \A left : Paced(r, h, left, "parse")
    BY <2>6 DEF Paced
  <2> QED  BY <1>1, <2>3, <2>8, <2>9
<1> HIDE DEF text
<1>8. StillLocated
  BY <1>1, <1>7 DEF StillLocated, Onwards, Located
<1> QED  BY <1>1, <1>8, StillLocatedIs

\* In a well-formed request a word that is there is the one of the state, or
\* the method is none.
LEMMA WordThere ==
  ASSUME Placed, f.state \in DOMAIN WordAt, NEW n, NEW r, NEW base, NEW k, Parsing(n, r, base, k),
         NEW text, text = WordAt[f.state].text, Len(text) <= Left,
         SubSeq(stream, readPos + 1, readPos + Len(text)) # text
  PROVE  f.state \in WordStates /\ r.method \notin Methods
<1>1. text \in Seq(Byte) /\ Len(text) \in Nat /\ f.state \in WordStates \cup {"UriEnd"}
  BY WordTyped
<1>2. ~WordLaid(text)
  <2>1. readPos + Len(text) <= Len(stream)
    BY <1>1, PlacedIs DEF Left
  <2> QED  BY <1>1, <2>1, PlacedIs, LaidSubSeq
<1>3. f.state # "Died"
  BY <1>1 DEF WordStates
<1>4. Reading(r, base, k, f)
  BY <1>3, ParsingReads
<1>5. PICK j \in 0 .. Len(r.fields) : Standing(r, base, k, f, j)
  BY <1>3, ParsingReads
<1>6. CASE f.state = "UriEnd"
  BY <1>2, <1>4, <1>5, <1>6, PlaceOf, HttpRead
<1>7. CASE f.state \in WordStates
  BY <1>2, <1>4, <1>5, <1>7, PlaceOf, WordWrong
<1> QED  BY <1>1, <1>6, <1>7

LEMMA RejectWordLocated == Placed /\ Located /\ RejectWord => Located'
<1> SUFFICES ASSUME Placed, Located, RejectWord PROVE Located'
  OBVIOUS
<1> DEFINE text == WordAt[f.state].text
           h == Rejected(f, RejectedAs(f.state))
<1>1. /\ pc = "parse" /\ f.state # "Died" /\ f.state \in DOMAIN WordAt
      /\ Len(text) < Left /\ SubSeq(stream, readPos + 1, readPos + Len(text)) # text
      /\ f' = h /\ pc' = pc /\ request' = request /\ UNCHANGED <<script, stream, answers>>
  BY DEF RejectWord, AtWord, Scanning
<1>2. Len(text) <= Left
  <2>1. Len(text) \in Nat /\ Left \in Int
    BY <1>1, WordTyped, PlacedIs DEF Left
  <2> QED  BY <1>1, <2>1
<1>3. h.state = "Died" /\ h.err = RejectedAs(f.state) /\ h.contentLength = f.contentLength
  <2>1. DOMAIN f = CounterFields
    BY PlacedIs
  <2> QED  BY <2>1 DEF Rejected, CounterFields
<1> HIDE DEF h
<1>4. ASSUME NEW n, NEW r, NEW base, NEW k, Parsing(n, r, base, k)
      PROVE  /\ Inside(script, n, request', r, base, readPos' - base, f')
             /\ Paced(r, f', received' - readPos', pc')
  <2>1. f.state \in WordStates /\ r.method \notin Methods
    BY <1>1, <1>2, <1>4, WordThere
  <2>2. h.err = "InvalidMethod" /\ MeaningOf(r) = "InvalidMethod"
    BY <1>3, <2>1, TextsAre DEF MeaningOf
  <2>3. PICK j \in 0 .. Len(r.fields) : Behind(script, n, request, r, f, j)
    BY <1>1, <1>4, ParsingReads
  <2>4. ASSUME NoOverflow(r) PROVE KeptUpto(script, n, request) /\ Refused(r, h)
    BY <1>3, <2>2, <2>3, <2>4 DEF Behind, FieldsRead, Refused, NoError
  <2>5. \A at : Inside(script, n, request, r, base, at, h)
    BY <1>3, <2>4 DEF Inside
  <2>6. \A left : Paced(r, h, left, "parse")
    BY <1>3 DEF Paced, WordStates
  <2> QED  BY <1>1, <2>5, <2>6
<1>5. StillLocated
  BY <1>1, <1>4 DEF StillLocated, Onwards, Located
<1> QED  BY <1>1, <1>5, StillLocatedIs

LEMMA ThrowLocated == Placed /\ Located /\ Throw => Located'
<1> SUFFICES ASSUME Placed, Located, Throw PROVE Located'
  OBVIOUS
<1> DEFINE text == WordAt[f.state].text
<1>1. /\ pc = "parse" /\ f.state # "Died" /\ f.state \in DOMAIN WordAt
      /\ \/ Len(text) > Left
         \/ Len(text) = Left /\ SubSeq(stream, readPos + 1, readPos + Len(text)) # text
      /\ f' = f /\ pc' = "thrown" /\ received' = received /\ readPos' = readPos
      /\ request' = request /\ UNCHANGED <<script, stream, answers>>
  BY DEF Throw, AtWord, Scanning
<1>2. /\ Len(text) \in Nat /\ f.state \in WordStates \cup {"UriEnd"} /\ Left \in Int
      /\ f.state = "UriEnd" => Len(text) = 5
      /\ f.state \in WordStates => Len(text) < 15
  <2>1. Len(text) \in Nat /\ Left \in Int /\ f.state \in WordStates \cup {"UriEnd"}
    BY <1>1, WordTyped, PlacedIs DEF Left
  <2>2. f.state = "UriEnd" => text = <<"H", "T", "T", "P", "/">>
    BY TextsAre
  <2>3. f.state = "UriEnd" => Len(text) = 5
    BY <2>2
  <2>4. f.state \in WordStates => Len(text) < 15
    BY TextsAre DEF Spelled
  <2> QED  BY <2>1, <2>3, <2>4
<1> HIDE DEF text
<1>3. ASSUME NEW n, NEW r, NEW base, NEW k, Parsing(n, r, base, k)
      PROVE  /\ Inside(script, n, request', r, base, readPos' - base, f')
             /\ Paced(r, f', received' - readPos', pc')
  <2>1. Inside(script, n, request, r, base, readPos - base, f) /\ Paced(r, f, Left, "parse")
    BY <1>1, <1>3 DEF Parsing, Follow, Left
  <2>2. f.state \notin WordStates
    <3> SUFFICES ASSUME f.state \in WordStates PROVE FALSE
      OBVIOUS
    <3>1. Left >= 15
      BY <2>1 DEF Paced
    <3> QED  BY <1>1, <1>2, <3>1
  <2>3. Len(text) > Left
    <3> SUFFICES ASSUME Len(text) = Left, SubSeq(stream, readPos + 1, readPos + Len(text)) # text
                 PROVE  FALSE
      BY <1>1
    <3>1. Len(text) <= Left
      BY <1>2
    <3> QED  BY <1>1, <1>3, <2>2, <3>1, WordThere DEF text
  <2>4. f.state = "UriEnd" /\ Left < 5
    BY <1>2, <2>2, <2>3
  <2>5. Paced(r, f, Left, "thrown")
    BY <2>4 DEF Paced, WordStates
  <2> QED  BY <1>1, <2>1, <2>5 DEF Left
<1>4. StillLocated
  BY <1>1, <1>3 DEF StillLocated, Onwards, Located
<1> QED  BY <1>1, <1>4, StillLocatedIs

-----------------------------------------------------------------------------
(* Between requests.                                                         *)

LEMMA LocatedNext ==
  ASSUME script' = script
  PROVE  Located' <=> /\ IsSequence(answers') /\ Kind(request')
                      /\ LocatedAt(script, Len(answers'), request', readPos', received', pc', f')
BY DEF Located

LEMMA CloseLocated == Placed /\ Located /\ Close => Located'
<1> SUFFICES ASSUME Placed, Located, Close PROVE Located'
  OBVIOUS
<1>1. /\ pc = "rest" /\ f.err \notin NoError /\ pc' = "closed"
      /\ UNCHANGED <<script, stream, received, readPos, f, request, answers>>
  BY DEF Close
<1> DEFINE n == Len(answers)
<1>2. LocatedAt(script, n, request, readPos, received, pc, f)
  BY DEF Located
<1> HIDE DEF n
<1>3. BetweenAt(pc, f) /\ BetweenAt("closed", f)
  BY <1>1 DEF BetweenAt
<1>4. LocatedAt(script, n, request, readPos, received, "closed", f)
  BY <1>2, <1>3 DEF LocatedAt
<1> QED  BY <1>1, <1>4, LocatedNext DEF Located, n

\* The wait does not depend on the error.
LEMMA WaitsAlike ==
  ASSUME NEW g, NEW h, h.state = g.state, g.state # "Died", NEW left
  PROVE  Parseable(h, left) <=> Parseable(g, left)
BY DEF Parseable

LEMMA StandingAlike ==
  ASSUME NEW g, DOMAIN g = CounterFields, NEW err, NEW r, NEW base, NEW k, NEW j,
         Standing(r, base, k, g, j)
  PROVE  Standing(r, base, k, [g EXCEPT !.err = err], j)
<1> DEFINE h == [g EXCEPT !.err = err]
<1>1. /\ h.state = g.state /\ h.method = g.method /\ h.uriStart = g.uriStart
      /\ h.uriLength = g.uriLength /\ h.nameStart = g.nameStart /\ h.nameLength = g.nameLength
      /\ h.valueStart = g.valueStart /\ h.valueLength = g.valueLength
      /\ h.major = g.major /\ h.minor = g.minor
  BY DEF CounterFields
<1> HIDE DEF h
<1>2. AtMethod(r, k, g) => AtMethod(r, k, h)
  BY <1>1 DEF AtMethod
<1>3. AtUri(r, base, k, g) => AtUri(r, base, k, h)
  BY <1>1 DEF AtUri, MethodRead, UriBegun
<1>4. LineRead(r, base, g) => LineRead(r, base, h)
  BY <1>1 DEF LineRead, MethodRead, UriBegun
<1>5. AtVersion(r, base, k, g) => AtVersion(r, base, k, h)
  BY <1>1, <1>4 DEF AtVersion, MajorRead, MinorRead
<1>6. HeadRead(r, base, g) => HeadRead(r, base, h)
  BY <1>1, <1>4 DEF HeadRead, MajorRead, MinorRead
<1>7. AtField(r, base, k, g, j) => AtField(r, base, k, h, j)
  BY <1>1, <1>6 DEF AtField
<1>8. Standing(r, base, k, h, j)
  BY <1>2, <1>3, <1>5, <1>7 DEF Standing
<1> QED  BY <1>8 DEF h

\* A parser that starts afresh stands in front of the next request.
LEMMA FreshInside ==
  ASSUME NEW s, NEW n \in Nat, NEW req, NEW r, NEW base, Len(r.fields) \in Nat, KeptUpto(s, n, req),
         Values(req.fields, <<"Host">>) = UNION {Values(s[i].fields, "Host") : i \in 1 .. n},
         NEW g, g.state = "Begin", g.err \in NotDone, g.minor = 0, g.contentLength = -1,
         g.keepAlive = TRUE, g.keepAliveSet = FALSE
  PROVE  Inside(s, n, req, r, base, 0, g)
<1>1. AtMethod(r, 0, g)
  BY DEF AtMethod
<1>2. \A name : Upto(r, name, 0) = {}
  BY DEF Upto
<1>3. FieldsRead(r, g, 0)
  <2>1. g.contentLength < 0 /\ g.contentLength = -1
    OBVIOUS
  <2>2. g.keepAliveSet \in BOOLEAN /\ g.keepAlive \in BOOLEAN
    OBVIOUS
  <2>3. g.keepAliveSet <=> Upto(r, "Connection", 0) # {}
    BY <1>2
  <2>4. \A i \in 1 .. 0 : ~FieldFails(r, i)
    OBVIOUS
  <2>5. \A i \in Upto(r, "Connection", 0) :
          (\A l \in Upto(r, "Connection", 0) : l <= i) => (g.keepAlive <=> Value(r, i) = KeepAlive)
    BY <1>2
  <2> QED  BY <2>1, <2>2, <2>3, <2>4, <2>5 DEF FieldsRead
<1>4. HostsUpto(s, n, r, 0) = UNION {Values(s[i].fields, "Host") : i \in 1 .. n}
  BY <1>2 DEF HostsUpto
<1>5. Behind(s, n, req, r, g, 0)
  BY <1>3, <1>4 DEF Behind
<1>6. 0 \in 0 .. Len(r.fields) /\ Standing(r, base, 0, g, 0)
  BY <1>1 DEF Standing
<1> QED  BY <1>5, <1>6 DEF Inside

LEMMA ErrInside ==
  ASSUME NEW g, DOMAIN g = CounterFields, g.state # "Died", NEW err \in NotDone,
         NEW s, NEW n, NEW req, NEW r, NEW base, NEW k, Inside(s, n, req, r, base, k, g)
  PROVE  Inside(s, n, req, r, base, k, [g EXCEPT !.err = err])
<1> DEFINE h == [g EXCEPT !.err = err]
<1>1. h.state = g.state /\ h.err = err /\ Carried(g, h)
  BY DEF CounterFields, Carried
<1>2. PICK j \in 0 .. Len(r.fields) : Standing(r, base, k, g, j) /\ Behind(s, n, req, r, g, j)
  BY DEF Inside
<1>3. Standing(r, base, k, h, j)
  BY <1>2, StandingAlike
<1> HIDE DEF h
<1>4. Behind(s, n, req, r, h, j)
  BY <1>1, <1>2, BehindKept
<1>5. Inside(s, n, req, r, base, k, h)
  BY <1>1, <1>2, <1>3, <1>4 DEF Inside
<1> QED  BY <1>5 DEF h

\* More bytes arrive in front of a request, ...
LEMMA ReadFresh ==
  ASSUME NEW r, NEW left \in Nat, NEW at, NEW g, g.state = "Begin",
         at = (IF Parseable(g, left) THEN "parse" ELSE "rest")
  PROVE  Paced(r, g, left, at)
<1>1. Parseable(g, left) <=> left >= 16
  BY DEF Parseable, Wanted
<1> QED  BY <1>1 DEF Paced, WordStates

\* ... or in the middle of one.
LEMMA ReadMore ==
  ASSUME NEW r, NEW old, NEW left \in Nat, NEW at, NEW g, NEW h, h.state = g.state,
         Paced(r, g, old, "rest"),
         \/ at = "parse" /\ h = g /\ Parseable(g, left)
         \/ at = "rest" /\ h.err = "NotAvailable" /\ ~Parseable(g, left)
  PROVE  Paced(r, h, left, at)
<1>1. h.state \notin WordStates /\ (h.state = "Died" => ~NoOverflow(r))
  BY DEF Paced
<1>2. h.state = "Begin" /\ at = "parse" => left >= 16
  BY DEF Parseable, Wanted
<1>3. at = "rest" => ~Parseable(h, left)
  BY WaitsAlike DEF Parseable
<1> QED  BY <1>1, <1>2, <1>3 DEF Paced

LEMMA OnReadLocated ==
  ASSUME Placed, Located, NEW m, OnRead(m)
  PROVE  Located'
<1> DEFINE n == Len(answers)
           g == Fresh(f)
           left == received' - readPos
<1>1. /\ pc = "rest" /\ m \in 1 .. Len(stream) - received /\ received' = received + m
      /\ f' = (IF Parseable(g, left) THEN g ELSE [g EXCEPT !.err = "NotAvailable"])
      /\ pc' = (IF Parseable(g, left) THEN "parse" ELSE "rest")
      /\ UNCHANGED <<script, stream, readPos, request, answers>>
  BY DEF OnRead
<1>2. /\ readPos < Len(stream) /\ received' \in Nat /\ left \in Nat
      /\ DOMAIN g = CounterFields /\ g.err \in NoError
  <2>1. readPos < Len(stream) /\ received' \in Nat /\ left \in Nat
    BY <1>1, PlacedIs
  <2>2. DOMAIN g = CounterFields /\ g.err \in NoError
    BY PlacedIs DEF Fresh, Cleared, CounterFields, NoError
  <2> QED  BY <2>1, <2>2
<1>3. LocatedAt(script, n, request, readPos, received, "rest", f) /\ IsSequence(answers)
  BY <1>1 DEF Located
<1>4. /\ f'.state = g.state /\ f'.err \in NoError /\ ~BetweenAt(pc', f')
      /\ \/ pc' = "parse" /\ f' = g /\ Parseable(g, left)
         \/ pc' = "rest" /\ f' = [g EXCEPT !.err = "NotAvailable"] /\ f'.err = "NotAvailable"
              /\ ~Parseable(g, left)
  <2> HIDE DEF g, left
  <2>1. [g EXCEPT !.err = "NotAvailable"].state = g.state
        /\ [g EXCEPT !.err = "NotAvailable"].err = "NotAvailable"
    BY <1>2 DEF CounterFields
  <2> QED  BY <1>1, <1>2, <2>1 DEF BetweenAt, NoError
<1> HIDE DEF left
<1>5. ASSUME PlainUpto(script, n)
      PROVE  n < Len(script)
  <2>1. n \in Nat /\ Len(script) \in Nat /\ EndOf(script, Len(script)) = Len(stream)
    BY <1>3, LengthIs, PlacedIs, ScriptLies
  <2>2. n <= Len(script) /\ (n = Len(script) => readPos = EndOf(script, n))
    BY <1>3, <1>5 DEF LocatedAt
  <2> QED  BY <1>2, <2>1, <2>2
<1>6. ASSUME PlainUpto(script, n), WellFormed(script[n + 1])
      PROVE  /\ Inside(script, n, request, script[n + 1], EndOf(script, n), readPos - EndOf(script, n), f')
             /\ Paced(script[n + 1], f', left, pc')
  <2> DEFINE r == script[n + 1]
             base == EndOf(script, n)
             k == readPos - base
  <2>0. WellFormed(r)
    BY <1>6
  <2>1. Follow(n, r, base, k)
    BY <1>3, <1>5, <1>6, <2>0, FollowIs
  <2>2. n \in Nat /\ Len(r.fields) \in Nat /\ base \in Nat
    BY <2>0, <2>1, PlacesAre DEF Follow
  <2>3. CASE BetweenAt("rest", f)
    <3>1. KeptUpto(script, n, request) /\ readPos = base
          /\ Values(request.fields, <<"Host">>) = UNION {Values(script[i].fields, "Host") : i \in 1 .. n}
      BY <1>3, <1>6, <2>3 DEF LocatedAt
    <3>2. g = Cleared /\ k = 0
      BY <2>2, <2>3, <3>1 DEF BetweenAt, Fresh
    <3>3. /\ f'.state = "Begin" /\ f'.err \in NotDone /\ f'.minor = 0 /\ f'.contentLength = -1
          /\ f'.keepAlive = TRUE /\ f'.keepAliveSet = FALSE
      BY <1>4, <3>2 DEF Cleared, NotDone
    <3> DEFINE h == f'
    <3>4. /\ h.state = "Begin" /\ h.err \in NotDone /\ h.minor = 0 /\ h.contentLength = -1
          /\ h.keepAlive = TRUE /\ h.keepAliveSet = FALSE
      BY <3>3
    <3> HIDE DEF h, r, base, n
    <3>5. Inside(script, n, request, r, base, 0, h)
      BY <2>2, <3>1, <3>4, FreshInside
    <3>6. Paced(r, h, left, pc')
      <4>1. Parseable(h, left) <=> Parseable(g, left)
        BY <1>4, <3>3, WaitsAlike DEF h
      <4>2. pc' = (IF Parseable(h, left) THEN "parse" ELSE "rest")
        BY <1>4, <4>1
      <4> QED  BY <1>2, <3>4, <4>2, ReadFresh
    <3> QED  BY <3>2, <3>5, <3>6 DEF h, r, base, n
  <2>4. CASE ~BetweenAt("rest", f)
    <3>1. g = f
      BY <2>4 DEF BetweenAt, Fresh
    <3>2. Inside(script, n, request, r, base, k, f) /\ Paced(r, f, received - readPos, "rest")
      BY <1>3, <1>5, <1>6, <2>4 DEF LocatedAt
    <3> HIDE DEF r, base, n, k, g
    <3>3. Paced(r, f', left, pc')
      <4> DEFINE h == f'
      <4>1. /\ h.state = f.state
            /\ \/ pc' = "parse" /\ h = f /\ Parseable(f, left)
               \/ pc' = "rest" /\ h.err = "NotAvailable" /\ ~Parseable(f, left)
        BY <1>4, <3>1
      <4> HIDE DEF h
      <4>2. Paced(r, h, left, pc')
        BY <1>2, <3>2, <4>1, ReadMore
      <4> QED  BY <4>2 DEF h
    <3>4. Inside(script, n, request, r, base, k, f')
      <4>1. CASE f.state = "Died"
        <5>1. ~NoOverflow(r) /\ f'.state = "Died"
          BY <1>4, <3>1, <3>2, <4>1 DEF Paced
        <5> QED  BY <5>1 DEF Inside
      <4>2. CASE f.state # "Died"
        <5>1. "NotAvailable" \in NotDone /\ DOMAIN f = CounterFields
          BY PlacedIs DEF NotDone
        <5>2. PICK e \in NotDone : e = "NotAvailable"
          BY <5>1
        <5>3. Inside(script, n, request, r, base, k, [f EXCEPT !.err = e])
          BY <3>2, <4>2, <5>1, ErrInside
        <5> QED  BY <1>4, <3>1, <3>2, <5>2, <5>3
      <4> QED  BY <4>1, <4>2
    <3> QED  BY <3>3, <3>4 DEF r, base, n, k
  <2> QED  BY <2>3, <2>4
<1>7. LocatedAt(script, n, request, readPos, received', pc', f')
  <2>1. n \in Nat /\ Len(script) \in Nat
    BY <1>3, LengthIs, PlacedIs, ScriptLies
  <2> HIDE DEF n, g
  <2>2. PlainUpto(script, n) => n <= Len(script) /\ n # Len(script)
    BY <1>5, <2>1
  <2> QED  BY <1>4, <1>6, <2>2 DEF LocatedAt, left
<1> HIDE DEF n
<1> QED  BY <1>1, <1>7, LocatedNext DEF Located, n

-----------------------------------------------------------------------------
(* The answer.                                                               *)

AnswerOf(q) ==
  [error |-> q.error, code |-> q.code, method |-> q.method, uri |-> q.uri,
   major |-> q.major, minor |-> q.minor, keepAlive |-> q.keepAlive,
   hosts |-> Values(q.fields, <<"Host">>)]

LEMMA JudgedKind ==
  ASSUME NEW g, NEW req, Kind(req)
  PROVE  Kind(JudgedRequest(g, req)) /\ JudgedRequest(g, req).fields = req.fields
BY DEF Kind, JudgedRequest, RequestFields

LEMMA JudgedIs ==
  ASSUME NEW g, DOMAIN g = CounterFields, g.contentLength \in Int, g.contentLength < 0,
         NEW req, Kind(req)
  PROVE  LET x == JudgedCounters(g)
             q == JudgedRequest(g, req)
         IN  /\ DOMAIN x = CounterFields /\ x.err = g.err /\ x.state = g.state
             /\ x.contentLength = g.contentLength /\ x.keepAlive = KeptAlive(g)
             /\ x.keepAliveSet = g.keepAliveSet /\ x.major = g.major /\ x.minor = g.minor
             /\ q.error = g.err /\ q.major = g.major /\ q.minor = g.minor
             /\ q.keepAlive = (req.keepAlive \/ KeptAlive(g))
             /\ g.err = "ExceptedContent" => q.method = g.method /\ q.uri = View(g.uriStart, g.uriLength)
             /\ g.err # "ExceptedContent" => q.method = req.method /\ q.uri = req.uri
<1>1. ~TooLarge(g)
  BY WidthAssumption DEF TooLarge
<1>2. JudgedCounters(g) = [g EXCEPT !.keepAlive = KeptAlive(g)]
  BY <1>1 DEF JudgedCounters
<1> DEFINE good == g.err = "ExceptedContent"
           view == View(g.uriStart, g.uriLength)
           kept == KeptAlive(g)
           code == CodeOf(g.err)
<1>3. JudgedRequest(g, req) =
        [req EXCEPT !.method = IF good THEN g.method ELSE @, !.uri = IF good THEN view ELSE @,
                    !.code = IF good THEN @ ELSE code, !.keepAlive = @ \/ kept,
                    !.error = g.err, !.major = g.major, !.minor = g.minor]
  BY <1>1 DEF JudgedRequest
<1> HIDE DEF view, kept, code
<1>4. LET x == JudgedCounters(g)
      IN  /\ DOMAIN x = CounterFields /\ x.err = g.err /\ x.state = g.state
          /\ x.contentLength = g.contentLength /\ x.keepAlive = kept
          /\ x.keepAliveSet = g.keepAliveSet /\ x.major = g.major /\ x.minor = g.minor
  BY <1>2 DEF CounterFields, kept
<1>5. LET q == JudgedRequest(g, req)
      IN  /\ q.error = g.err /\ q.major = g.major /\ q.minor = g.minor
          /\ q.keepAlive = (req.keepAlive \/ kept)
          /\ good => q.method = g.method /\ q.uri = view
          /\ ~good => q.method = req.method /\ q.uri = req.uri
  BY <1>3 DEF Kind, RequestFields
<1> QED  BY <1>4, <1>5 DEF kept, view

\* Something is answered, or the counters and the request stay.
LEMMA ConcludedIs ==
  ASSUME NEW g, DOMAIN g = CounterFields, NEW q, Kind(q), IsSequence(answers), Concluded(g, q)
  PROVE  /\ pc' = "rest" /\ Kind(request') /\ IsSequence(answers')
         /\ \/ /\ answers' = answers /\ f' = g /\ request' = q /\ g.err \in NoError
               /\ ~(g.err = "ExceptedContent" /\ Parseable(g, Left))
            \/ f'.err \notin NoError /\ answers' = Append(answers, AnswerOf(request'))
<1> DEFINE whole == g.err = "ExceptedContent" /\ Parseable(g, Left)
           h == [g EXCEPT !.err = "Parsed"]
           g2 == IF whole THEN JudgedCounters(h) ELSE g
           r2 == IF whole THEN JudgedRequest(h, q) ELSE q
<1>1. /\ f' = g2 /\ request' = r2 /\ pc' = "rest"
      /\ answers' = (IF g2.err \in NoError THEN answers ELSE Append(answers, AnswerOf(r2)))
  BY DEF Concluded, AnswerOf, Values
<1>2. DOMAIN h = CounterFields /\ h.err = "Parsed"
  BY DEF CounterFields
<1>3. whole => g2.err \notin NoError
  <2> HIDE DEF h, whole
  <2>1. JudgedCounters(h).err \in {"Parsed", "EntityTooLarge"}
    BY <1>2 DEF JudgedCounters, CounterFields
  <2> QED  BY <2>1 DEF NoError
<1>4. Kind(r2)
  BY JudgedKind
<1>5. ~whole => g2 = g /\ r2 = q
  OBVIOUS
<1> HIDE DEF g2, r2
<1>6. \A a : IsSequence(Append(answers, a))
  BY Appended
<1> QED  BY <1>1, <1>3, <1>4, <1>5, <1>6

\* A parsed request is judged twice, with the same result.
LEMMA JudgedAgain ==
  ASSUME NEW g, DOMAIN g = CounterFields, g.contentLength \in Int, g.contentLength < 0,
         g.err = "ExceptedContent", g.state = "Died", NEW req, Kind(req), IsSequence(answers), Left \in Nat,
         Concluded(JudgedCounters(g), JudgedRequest(g, req)),
         g.keepAlive \in BOOLEAN, g.keepAliveSet \in BOOLEAN
  PROVE  /\ request'.error = "Parsed" /\ request'.fields = req.fields
         /\ request'.method = g.method /\ request'.uri = View(g.uriStart, g.uriLength)
         /\ request'.major = g.major /\ request'.minor = g.minor
         /\ request'.keepAlive <=> req.keepAlive \/ KeptAlive(g)
         /\ f'.err \notin NoError
<1> DEFINE x == JudgedCounters(g)
           q == JudgedRequest(g, req)
           h == [x EXCEPT !.err = "Parsed"]
<1>1. /\ DOMAIN x = CounterFields /\ x.err = g.err /\ x.state = g.state
      /\ x.contentLength = g.contentLength /\ x.keepAlive = KeptAlive(g)
      /\ x.keepAliveSet = g.keepAliveSet /\ x.major = g.major /\ x.minor = g.minor
  BY JudgedIs
<1>2. /\ q.keepAlive = (req.keepAlive \/ KeptAlive(g))
      /\ q.method = g.method /\ q.uri = View(g.uriStart, g.uriLength)
  BY JudgedIs
<1>3. Kind(q) /\ q.fields = req.fields /\ Concluded(x, q)
  BY JudgedKind
<1> HIDE DEF x, q
<1>4. x.err = "ExceptedContent" /\ Parseable(x, Left)
  BY <1>1 DEF Parseable
<1>5. f' = JudgedCounters(h) /\ request' = JudgedRequest(h, q)
  BY <1>3, <1>4 DEF Concluded
<1>6. /\ DOMAIN h = CounterFields /\ h.err = "Parsed" /\ h.contentLength = g.contentLength
      /\ h.keepAlive = KeptAlive(g) /\ h.keepAliveSet = g.keepAliveSet
      /\ h.major = g.major /\ h.minor = g.minor
  BY <1>1 DEF CounterFields
<1> HIDE DEF h
<1> DEFINE y == JudgedRequest(h, q)
<1>7. /\ y.error = "Parsed" /\ y.major = h.major /\ y.minor = h.minor
      /\ y.keepAlive = (q.keepAlive \/ KeptAlive(h)) /\ y.method = q.method /\ y.uri = q.uri
      /\ JudgedCounters(h).err = "Parsed"
  BY <1>3, <1>6, JudgedIs
<1>8. y.fields = req.fields
  BY <1>3, JudgedKind
<1> HIDE DEF y
<1>9. KeptAlive(h) = KeptAlive(g)
  BY <1>6 DEF KeptAlive
<1>10. y.keepAlive <=> req.keepAlive \/ KeptAlive(g)
  BY <1>2, <1>7, <1>9
<1> QED  BY <1>2, <1>5, <1>6, <1>7, <1>8, <1>10 DEF y, NoError

\* The uri is seen where it was noted.
LEMMA UriSeen ==
  ASSUME NEW r \in Request, WellFormed(r), NEW base \in Nat, Sent(r, base),
         NEW g, UriBegun(r, base, g), g.uriLength = Len(r.uri)
  PROVE  View(g.uriStart, g.uriLength) = r.uri
<1> DEFINE n == Len(r.uri)
           at == UriAt(r)
           e == Encoded(r)
           H == HeadEnd(r)
<1>1. n \in Nat /\ at \in Nat /\ H \in Nat /\ at + n < H /\ g.uriStart = base + at + 1
  BY LineInside, PlacesAre DEF UriBegun
<1>2. \A i \in 1 .. n : e[at + i] = r.uri[i]
  BY LineBytes DEF Line
<1>3. \A i \in 1 .. H : stream[base + i] = e[i]
  BY DEF Sent
<1>4. r.uri = [i \in 1 .. n |-> r.uri[i]]
  BY DEF Request
<1> HIDE DEF n, at, e, H
<1>5. View(g.uriStart, g.uriLength) = [i \in 1 .. n |-> stream[g.uriStart + i - 1]]
  BY DEF View, n
<1>6. ASSUME NEW i \in 1 .. n PROVE stream[g.uriStart + i - 1] = r.uri[i]
  <2>1. at + i \in 1 .. H /\ base + (at + i) = g.uriStart + i - 1
    BY <1>1
  <2> QED  BY <1>2, <1>3, <2>1
<1> QED  BY <1>4, <1>5, <1>6

\* A request that has been read to its end is a good one.
LEMMA WholeIsParsed ==
  ASSUME NEW r \in Request, WellFormed(r), NEW base, NEW g, HeadRead(r, base, g),
         FieldsRead(r, g, Len(r.fields))
  PROVE  MeaningOf(r) = "Parsed"
<1>1. r.method \in Methods /\ Supported(r)
  BY DEF HeadRead, LineRead, MethodRead
<1>2. DOMAIN r.fields = 1 .. Len(r.fields)
  BY DEF Request
<1>3. ~\E i \in DOMAIN r.fields : FieldFails(r, i)
  BY <1>2 DEF FieldsRead
<1> QED  BY <1>1, <1>3 DEF MeaningOf, Supported

LEMMA KeptMore ==
  ASSUME NEW s, NEW n \in Nat, NEW req, KeptUpto(s, n, req), NEW new,
         new.keepAlive <=> req.keepAlive \/ AsksToKeep(s[n + 1])
  PROVE  KeptUpto(s, n + 1, new)
<1>1. \A i : i \in 1 .. n + 1 <=> i \in 1 .. n \/ i = n + 1
  OBVIOUS
<1> QED  BY <1>1 DEF KeptUpto

\* What becomes of a well-formed request at its end.
RightAnswer(r, q) ==
  /\ q.error = MeaningOf(r)
  /\ q.error = "Parsed" => /\ q.method = r.method /\ q.uri = r.uri
                           /\ q.major = Number(r.major) /\ q.minor = Number(r.minor)
AllKept(n, q) ==
  /\ KeptUpto(script, n + 1, q)
  /\ Values(q.fields, <<"Host">>) = UNION {Values(script[i].fields, "Host") : i \in 1 .. n + 1}

LEMMA Answered ==
  ASSUME Placed, Located, NEW n, NEW r, NEW base, NEW k, Parsing(n, r, base, k), NoOverflow(r),
         f.state = "Died", Concluded(JudgedCounters(f), JudgedRequest(f, request))
  PROVE  /\ f'.err \notin NoError /\ RightAnswer(r, request')
         /\ MeaningOf(r) = "Parsed" => AllKept(n, request') /\ readPos = base + HeadEnd(r)
<1> DEFINE g == f
           q == JudgedRequest(f, request)
           x == JudgedCounters(f)
<1>0. /\ DOMAIN f = CounterFields /\ Kind(request) /\ IsSequence(answers) /\ Left \in Nat
      /\ f.contentLength \in Int /\ readPos \in Nat
  <2>1. DOMAIN f = CounterFields /\ readPos \in Nat /\ Left \in Nat
    BY PlacedIs DEF Left
  <2>2. f.contentLength \in Int
    BY PlacedIs, MinusOneInRange DEF Typed
  <2>3. Kind(request) /\ IsSequence(answers)
    BY DEF Located
  <2> QED  BY <2>1, <2>2, <2>3
<1>1. /\ KeptUpto(script, n, request)
      /\ \/ Refused(r, f)
         \/ Whole(r, base, k, f) /\ Behind(script, n, request, r, f, Len(r.fields))
  BY DEF Parsing, Inside
<1>2. /\ r \in Request /\ WellFormed(r) /\ base \in Nat /\ Sent(r, base) /\ n \in Nat
      /\ k = readPos - base /\ k \in Int /\ r = script[n + 1] /\ HeadEnd(r) \in Nat
  BY DEF Parsing, Follow
<1>3. CASE Refused(r, f)
  <2>1. f.err = MeaningOf(r) /\ f.err \notin NoError \cup {"Parsed"} /\ f.contentLength < 0
    BY <1>3 DEF Refused
  <2>2. x.err = f.err /\ q.error = f.err
    BY <1>0, <2>1, JudgedIs
  <2> HIDE DEF x, q
  <2>3. Concluded(x, q)
    BY DEF x, q
  <2>4. f' = x /\ request' = q
    BY <2>1, <2>2, <2>3 DEF Concluded, NoError
  <2> QED  BY <2>1, <2>2, <2>4 DEF RightAnswer
<1>4. CASE Whole(r, base, k, f) /\ Behind(script, n, request, r, f, Len(r.fields))
  <2>1. /\ f.err = "ExceptedContent" /\ HeadRead(r, base, f) /\ k = HeadEnd(r)
        /\ FieldsRead(r, f, Len(r.fields))
        /\ Values(request.fields, <<"Host">>) = HostsUpto(script, n, r, Len(r.fields))
    BY <1>4 DEF Whole, Behind
  <2>2. f.contentLength < 0 /\ f.keepAlive \in BOOLEAN /\ f.keepAliveSet \in BOOLEAN
    BY <2>1 DEF FieldsRead
  <2>3. /\ request'.error = "Parsed" /\ request'.fields = request.fields
        /\ request'.method = f.method /\ request'.uri = View(f.uriStart, f.uriLength)
        /\ request'.major = f.major /\ request'.minor = f.minor
        /\ request'.keepAlive <=> request.keepAlive \/ KeptAlive(f)
        /\ f'.err \notin NoError
    BY <1>0, <2>1, <2>2, JudgedAgain
  <2>4. MeaningOf(r) = "Parsed"
    BY <1>2, <2>1, WholeIsParsed
  <2>5. /\ f.method = r.method /\ UriBegun(r, base, f) /\ f.uriLength = Len(r.uri)
        /\ MajorRead(r, f) /\ MinorRead(r, f)
    BY <2>1 DEF HeadRead, LineRead, MethodRead
  <2>6. View(f.uriStart, f.uriLength) = r.uri
    BY <1>2, <2>5, UriSeen
  <2>7. RightAnswer(r, request')
    BY <2>3, <2>4, <2>5, <2>6 DEF RightAnswer, MajorRead, MinorRead
  <2>8. KeptAlive(f) <=> AsksToKeep(r)
    BY <1>2, <2>1, <2>5, AskedIs
  <2>9. KeptUpto(script, n + 1, request')
    <3> DEFINE new == request'
    <3>1. new.keepAlive <=> request.keepAlive \/ AsksToKeep(script[n + 1])
      BY <1>2, <2>3, <2>8
    <3> HIDE DEF new
    <3>2. KeptUpto(script, n + 1, new)
      BY <1>1, <1>2, <3>1, KeptMore
    <3> QED  BY <3>2 DEF new
  <2>10. HostsUpto(script, n, r, Len(r.fields)) = UNION {Values(script[i].fields, "Host") : i \in 1 .. n + 1}
    <3>1. r.fields \in Seq(Byte \X Seq(Byte))
      BY <1>2 DEF Request
    <3> QED  BY <1>2, <3>1, HostsWhole
  <2>11. AllKept(n, request')
    BY <2>1, <2>3, <2>9, <2>10 DEF AllKept
  <2>12. readPos = base + HeadEnd(r)
    BY <1>0, <1>2, <2>1
  <2> QED  BY <2>3, <2>7, <2>11, <2>12
<1> QED  BY <1>1, <1>3, <1>4

\* A request that is no good is not answered among good ones only.
LEMMA PlainMore ==
  ASSUME NEW s, DOMAIN s \subseteq Nat, NEW n \in Nat, PlainUpto(s, n + 1)
  PROVE  PlainUpto(s, n) /\ (n + 1 \in DOMAIN s => Plain(s[n + 1]))
<1>1. \A j \in DOMAIN s : j <= n => j <= n + 1
  OBVIOUS
<1>2. n + 1 <= n + 1
  OBVIOUS
<1> QED  BY <1>1, <1>2 DEF PlainUpto

LEMMA ParsedOnceLocated == Placed /\ Located /\ ParsedOnce => Located'
<1> SUFFICES ASSUME Placed, Located, ParsedOnce PROVE Located'
  OBVIOUS
<1> DEFINE n == Len(answers)
           g == IF f.state = "Died" THEN JudgedCounters(f) ELSE f
           q == IF f.state = "Died" THEN JudgedRequest(f, request) ELSE request
           r == script[n + 1]
           base == EndOf(script, n)
           k == readPos - base
<1>1. /\ pc = "parse" /\ (f.state = "Died" \/ Left = 0) /\ Concluded(g, q)
      /\ UNCHANGED <<script, stream, received, readPos>>
  BY DEF ParsedOnce
<1>2. /\ DOMAIN g = CounterFields /\ g.state = f.state /\ Kind(q) /\ IsSequence(answers)
      /\ n \in Nat /\ Len(script) \in Nat
  <2>1. DOMAIN f = CounterFields /\ Kind(request) /\ IsSequence(answers)
    BY PlacedIs DEF Located
  <2>2. DOMAIN JudgedCounters(f) = CounterFields /\ JudgedCounters(f).state = f.state
    BY <2>1, JudgedViews DEF SameViews
  <2>3. Kind(JudgedRequest(f, request))
    BY <2>1, JudgedKind
  <2>4. n \in Nat /\ Len(script) \in Nat
    BY <2>1, LengthIs, PlacedIs, ScriptLies
  <2> QED  BY <2>1, <2>2, <2>3, <2>4
<1>3. /\ pc' = "rest" /\ Kind(request') /\ IsSequence(answers')
      /\ \/ /\ answers' = answers /\ f' = g /\ request' = q /\ g.err \in NoError
            /\ ~(g.err = "ExceptedContent" /\ Parseable(g, Left))
         \/ f'.err \notin NoError /\ answers' = Append(answers, AnswerOf(request'))
  <2> HIDE DEF g, q
  <2> QED  BY <1>1, <1>2, ConcludedIs
<1>4. ASSUME PlainUpto(script, n)
      PROVE  n < Len(script)
  <2>1. LocatedAt(script, n, request, readPos, received, pc, f)
    BY DEF Located
  <2> HIDE DEF n
  <2>2. n <= Len(script) /\ n # Len(script)
    BY <1>1, <1>4, <2>1 DEF LocatedAt
  <2> QED  BY <1>2, <2>2
<1>5. ASSUME PlainUpto(script, n), WellFormed(r)
      PROVE  Parsing(n, r, base, k)
  <2>1. LocatedAt(script, n, request, readPos, received, pc, f)
    BY DEF Located
  <2>2. Follow(n, r, base, k)
    BY <1>2, <1>4, <1>5, FollowIs
  <2> HIDE DEF n
  <2>3. Inside(script, n, request, r, base, k, f) /\ Paced(r, f, received - readPos, pc)
    BY <1>1, <1>4, <1>5, <2>1 DEF LocatedAt, BetweenAt
  <2> QED  BY <2>2, <2>3 DEF Parsing
<1>6. CASE answers' = answers
  <2>1. /\ f' = g /\ request' = q /\ g.err \in NoError
        /\ ~(g.err = "ExceptedContent" /\ Parseable(g, Left))
    <3>1. answers # Append(answers, AnswerOf(request'))
      <4> DEFINE a == AnswerOf(request')
      <4> HIDE DEF a
      <4>1. Len(Append(answers, a)) = Len(answers) + 1
        BY <1>2, Appended
      <4> QED  BY <1>2, <4>1 DEF a, n
    <3> QED  BY <1>3, <1>6, <3>1
  <2>2. ~BetweenAt(pc', f')
    BY <2>1 DEF BetweenAt
  <2>3. ASSUME PlainUpto(script, n), WellFormed(r)
        PROVE  Inside(script, n, request', r, base, k, f') /\ Paced(r, f', Left, pc')
    <3>1. Parsing(n, r, base, k)
      BY <1>5, <2>3
    <3>2. CASE f.state = "Died"
      <4>1. ~NoOverflow(r)
        <5> SUFFICES ASSUME NoOverflow(r) PROVE FALSE
          OBVIOUS
        <5>1. Concluded(JudgedCounters(f), JudgedRequest(f, request))
          BY <1>1, <3>2
        <5>2. f'.err \notin NoError
          BY <3>1, <3>2, <5>1, Answered
        <5> QED  BY <2>1, <5>2
      <4>2. f'.state = "Died" /\ ~Parseable(f', Left)
        BY <1>2, <2>1, <3>2 DEF Parseable
      <4> QED  BY <1>3, <4>1, <4>2 DEF Inside, Paced, WordStates
    <3>3. CASE f.state # "Died"
      <4>1. f' = f /\ request' = request /\ Left = 0
        BY <1>1, <2>1, <3>3
      <4>2. Inside(script, n, request, r, base, k, f) /\ Paced(r, f, Left, "parse")
        BY <1>1, <3>1 DEF Parsing, Left
      <4>3. f.state \notin WordStates
        BY <4>1, <4>2 DEF Paced
      <4>4. Paced(r, f, Left, "rest")
        BY <3>3, <4>1, <4>3 DEF Paced
      <4> QED  BY <1>3, <4>1, <4>2, <4>4
    <3> QED  BY <3>2, <3>3
  <2>4. LocatedAt(script, n, request', readPos, received, pc', f')
    <3>1. PlainUpto(script, n) => n <= Len(script) /\ n # Len(script)
      BY <1>2, <1>4
    <3> HIDE DEF n
    <3> QED  BY <2>2, <2>3, <3>1 DEF LocatedAt, Left
  <2> HIDE DEF n
  <2> QED  BY <1>1, <1>3, <1>6, <2>4, LocatedNext DEF n
<1>7. CASE f'.err \notin NoError /\ answers' = Append(answers, AnswerOf(request'))
  <2>1. Len(answers') = n + 1
    <3> DEFINE a == AnswerOf(request')
    <3> HIDE DEF a
    <3>1. Len(Append(answers, a)) = Len(answers) + 1
      BY <1>2, Appended
    <3> QED  BY <1>7, <3>1 DEF a
  <2>2. BetweenAt(pc', f')
    BY <1>3, <1>7 DEF BetweenAt
  <2> DEFINE m == n + 1
  <2>3. m \in Nat
    BY <1>2
  <2>4. ASSUME PlainUpto(script, m)
        PROVE  /\ m <= Len(script) /\ KeptUpto(script, m, request') /\ readPos = EndOf(script, m)
               /\ Values(request'.fields, <<"Host">>) = UNION {Values(script[i].fields, "Host") : i \in 1 .. m}
    <3>1. PlainUpto(script, n) /\ (m \in DOMAIN script => Plain(r))
      <4>1. DOMAIN script \subseteq Nat
        BY PlacedIs, ScriptsAssumption
      <4> QED  BY <1>2, <2>4, <4>1, PlainMore
    <3>2. n < Len(script) /\ m <= Len(script)
      BY <1>2, <1>4, <3>1
    <3>3. m \in DOMAIN script
      BY <1>2, <3>2, PlacedIs, ScriptLies
    <3>4. WellFormed(r) /\ NoOverflow(r) /\ MeaningOf(r) = "Parsed" /\ r.content = <<>>
      BY <3>1, <3>3 DEF Plain
    <3>5. Parsing(n, r, base, k)
      BY <1>5, <3>1, <3>4
    <3>6. f.state = "Died"
      <4> SUFFICES ASSUME f.state # "Died" PROVE FALSE
        OBVIOUS
      <4>1. f.err \in NotDone
        BY <3>5, ParsingReads
      <4>2. ~(f.err = "ExceptedContent") /\ Concluded(f, request)
        BY <1>1, <4>1 DEF NotDone
      <4>3. f' = f
        BY <4>2 DEF Concluded
      <4> QED  BY <1>7, <4>1, <4>3 DEF NotDone, NoError
    <3>7. Concluded(JudgedCounters(f), JudgedRequest(f, request))
      BY <1>1, <3>6
    <3>8. AllKept(n, request') /\ readPos = base + HeadEnd(r)
      BY <3>4, <3>5, <3>6, <3>7, Answered
    <3>9. Len(r.content) = 0
      BY <3>4
    <3>10. EndOf(script, m) = base + HeadEnd(r) + Len(r.content) /\ base \in Nat /\ HeadEnd(r) \in Nat
      BY <3>5 DEF Parsing, Follow
    <3>11. readPos = EndOf(script, m)
      BY <3>8, <3>9, <3>10
    <3> QED  BY <3>2, <3>8, <3>11 DEF AllKept
  <2> HIDE DEF m
  <2>5. LocatedAt(script, m, request', readPos, received, pc', f')
    BY <1>3, <2>2, <2>4 DEF LocatedAt
  <2> QED  BY <1>1, <1>3, <2>1, <2>5, LocatedNext DEF m
<1> QED  BY <1>3, <1>6, <1>7

-----------------------------------------------------------------------------
(* The induction.                                                            *)

LEMMA NothingAnswered ==
  ASSUME NEW s, NEW req, req.keepAlive = FALSE, req.fields = <<>>
  PROVE  /\ KeptUpto(s, 0, req)
         /\ Values(req.fields, <<"Host">>) = UNION {Values(s[i].fields, "Host") : i \in 1 .. 0}
<1>1. 1 .. 0 = {} /\ DOMAIN req.fields = {}
  OBVIOUS
<1>2. KeptUpto(s, 0, req)
  BY <1>1 DEF KeptUpto
<1>3. Values(req.fields, <<"Host">>) = {}
  BY <1>1 DEF Values
<1> QED  BY <1>1, <1>2, <1>3

LEMMA InitLocated == Init => Located
<1> SUFFICES ASSUME Init PROVE Located
  OBVIOUS
<1>1. Placed
  BY InitPlaced
<1>2. /\ received = 0 /\ readPos = 0 /\ pc = "rest" /\ f = Cleared /\ request = NewRequest
      /\ answers = <<>>
  BY DEF Init
<1>3. Len(answers) = 0 /\ IsSequence(answers)
  BY <1>2, EmptyIs
<1>4. Kind(request) /\ request.keepAlive = FALSE /\ request.fields = <<>>
  BY <1>2, EmptyIs DEF Kind, RequestFields, NewRequest
<1>5. KeptUpto(script, 0, request)
      /\ Values(request.fields, <<"Host">>) = UNION {Values(script[i].fields, "Host") : i \in 1 .. 0}
  BY <1>4, NothingAnswered
<1>6. Len(script) \in Nat /\ EndOf(script, 0) = 0
  BY <1>1, PlacedIs, ScriptLies
<1>7. /\ f.state = "Begin" /\ f.err \in NotDone /\ f.minor = 0 /\ f.contentLength = -1
      /\ f.keepAlive = TRUE /\ f.keepAliveSet = FALSE /\ f.err \in NoError
  BY <1>2 DEF Cleared, NotDone, NoError
<1>8. ASSUME PlainUpto(script, 0), 0 < Len(script), WellFormed(script[0 + 1])
      PROVE  Inside(script, 0, request, script[0 + 1], 0, 0, f) /\ Paced(script[0 + 1], f, 0, "rest")
  <2> DEFINE r == script[0 + 1]
  <2>1. Follow(0, r, 0, 0)
    BY <1>1, <1>2, <1>3, <1>6, <1>8, FollowIs
  <2>2. Len(r.fields) \in Nat
    BY <2>1, PlacesAre DEF Follow
  <2> HIDE DEF r
  <2>3. Inside(script, 0, request, r, 0, 0, f)
    <3> DEFINE h == f
    <3>1. /\ h.state = "Begin" /\ h.err \in NotDone /\ h.minor = 0 /\ h.contentLength = -1
          /\ h.keepAlive = TRUE /\ h.keepAliveSet = FALSE
      BY <1>7
    <3>2. PICK n \in Nat : n = 0
      OBVIOUS
    <3> HIDE DEF h
    <3>3. Inside(script, n, request, r, n, 0, h)
      BY <1>5, <2>2, <3>1, <3>2, FreshInside
    <3> QED  BY <3>2, <3>3 DEF h
  <2>4. ~Parseable(f, 0)
    BY <1>7 DEF Parseable, Wanted
  <2>5. Paced(r, f, 0, "rest")
    BY <1>7, <2>4 DEF Paced, WordStates
  <2> QED  BY <2>3, <2>5 DEF r
<1>9. ~BetweenAt("rest", f)
  BY <1>7 DEF BetweenAt
<1>10. LocatedAt(script, 0, request, 0, 0, "rest", f)
  <2>1. 0 <= Len(script) /\ 0 - 0 = 0
    BY <1>6
  <2> QED  BY <1>5, <1>6, <1>8, <1>9, <2>1 DEF LocatedAt
<1> QED  BY <1>2, <1>3, <1>4, <1>10 DEF Located

LEMMA NextLocated == Placed /\ Located /\ [Next]_vars => Located'
<1> SUFFICES ASSUME Placed, Located, [Next]_vars PROVE Located'
  OBVIOUS
<1>1. CASE \E m \in 1 .. Len(stream) : OnRead(m)
  BY <1>1, OnReadLocated
<1>2. CASE UNCHANGED vars
  BY <1>2 DEF vars, Located
<1>3. CASE Parse
  BY <1>3, AdvanceLocated, EndVersionLocated, EndFieldLocated, ReadWordLocated, RejectWordLocated,
     ThrowLocated, ParsedOnceLocated DEF Parse
<1>4. CASE Close
  BY <1>4, CloseLocated
<1> QED  BY <1>1, <1>2, <1>3, <1>4 DEF Next

\* What one step answers.
AnswersOne ==
  /\ answers' = Append(answers, AnswerOf(request'))
  /\ \A n, r :
       /\ n = Len(answers) /\ n + 1 \in DOMAIN script /\ r = script[n + 1]
       /\ PlainUpto(script, n) /\ WellFormed(r) /\ NoOverflow(r)
       => RightAnswer(r, request') /\ (MeaningOf(r) = "Parsed" => AllKept(n, request'))

LEMMA AnswersGrow ==
  ASSUME Placed, Located, [Next]_vars
  PROVE  /\ script' = script
         /\ answers' = answers \/ AnswersOne
<1>1. CASE ParsedOnce
  <2> DEFINE g == IF f.state = "Died" THEN JudgedCounters(f) ELSE f
             q == IF f.state = "Died" THEN JudgedRequest(f, request) ELSE request
  <2>1. /\ pc = "parse" /\ Concluded(g, q)
        /\ UNCHANGED <<script, stream, received, readPos>>
    BY <1>1 DEF ParsedOnce
  <2>2. DOMAIN f = CounterFields /\ Kind(request) /\ IsSequence(answers)
    BY PlacedIs DEF Located
  <2>3. DOMAIN g = CounterFields /\ Kind(q)
    BY <2>2, JudgedViews, JudgedKind
  <2>4. \/ /\ answers' = answers
        \/ f'.err \notin NoError /\ answers' = Append(answers, AnswerOf(request'))
    <3> HIDE DEF g, q
    <3> QED  BY <2>1, <2>2, <2>3, ConcludedIs
  <2>5. ASSUME f'.err \notin NoError, NEW n, NEW r, n = Len(answers), n + 1 \in DOMAIN script,
               r = script[n + 1], PlainUpto(script, n), WellFormed(r), NoOverflow(r)
        PROVE  RightAnswer(r, request') /\ (MeaningOf(r) = "Parsed" => AllKept(n, request'))
    <3> DEFINE base == EndOf(script, n)
               k == readPos - base
    <3>0. LocatedAt(script, n, request, readPos, received, pc, f)
      BY <2>5 DEF Located
    <3>1. n < Len(script)
      <4>1. n \in Nat /\ Len(script) \in Nat
        BY <2>2, <2>5, LengthIs, PlacedIs, ScriptLies
      <4>2. n <= Len(script) /\ n # Len(script)
        BY <2>1, <2>5, <3>0 DEF LocatedAt
      <4> QED  BY <4>1, <4>2
    <3>2. Follow(n, r, base, k)
      BY <2>2, <2>5, <3>1, FollowIs
    <3>3. Inside(script, n, request, r, base, k, f) /\ Paced(r, f, received - readPos, pc)
      BY <2>1, <2>5, <3>0, <3>1 DEF LocatedAt, BetweenAt
    <3>4. Parsing(n, r, base, k)
      BY <3>2, <3>3 DEF Parsing
    <3>5. f.state = "Died"
      <4> SUFFICES ASSUME f.state # "Died" PROVE FALSE
        OBVIOUS
      <4>1. f.err \in NotDone
        BY <3>4, ParsingReads
      <4>2. ~(f.err = "ExceptedContent") /\ Concluded(f, request)
        BY <2>1, <4>1 DEF NotDone
      <4>3. f' = f
        BY <4>2 DEF Concluded
      <4> QED  BY <2>5, <4>1, <4>3 DEF NotDone, NoError
    <3>6. Concluded(JudgedCounters(f), JudgedRequest(f, request))
      BY <2>1, <3>5
    <3> QED  BY <2>5, <3>4, <3>5, <3>6, Answered
  <2> QED  BY <2>1, <2>4, <2>5 DEF AnswersOne
<1>2. CASE ~ParsedOnce
  <2>1. \A m : OnRead(m) => script' = script /\ answers' = answers
    BY DEF OnRead
  <2>2. Close => script' = script /\ answers' = answers
    BY DEF Close
  <2>3. Parse => script' = script /\ answers' = answers
    BY <1>2 DEF Parse, Advance, EndVersion, EndField, ReadWord, RejectWord, Throw
  <2>4. UNCHANGED vars => script' = script /\ answers' = answers
    BY DEF vars
  <2> QED  BY <2>1, <2>2, <2>3, <2>4 DEF Next
<1> QED  BY <1>1, <1>2

-----------------------------------------------------------------------------
(* The theorems.                                                             *)

Inductive == Placed /\ Located

LEMMA InductiveHolds == Spec => []Inductive
<1>1. Init => Inductive
  BY InitPlaced, InitLocated DEF Inductive
<1>2. Inductive /\ [Next]_vars => Inductive'
  BY NextPlaced, NextLocated DEF Inductive
<1> QED  BY <1>1, <1>2, PTL DEF Spec

LEMMA SameWords == \A i : AllPlain(i) = PlainUpto(script, i) /\ End(i) = EndOf(script, i)
BY DEF AllPlain, PlainUpto, End, EndOf

\* What has been answered rightly stays answered, and so is what one step adds.
RightUpto(s, a) ==
  \A i \in DOMAIN a \cap DOMAIN s :
    PlainUpto(s, i - 1) /\ WellFormed(s[i]) /\ NoOverflow(s[i]) =>
      /\ a[i].error = MeaningOf(s[i])
      /\ a[i].error = "Parsed" =>
           /\ a[i].method = s[i].method /\ a[i].uri = s[i].uri
           /\ a[i].major = Number(s[i].major) /\ a[i].minor = Number(s[i].minor)
CollectedUpto(s, a) ==
  \A i \in DOMAIN a \cap DOMAIN s :
    PlainUpto(s, i) =>
      /\ a[i].hosts = UNION {Values(s[j].fields, "Host") : j \in 1 .. i}
      /\ a[i].keepAlive <=> \E j \in 1 .. i : AsksToKeep(s[j])

LEMMA SameAnswers ==
  (PiecesDoNotMatter <=> RightUpto(script, answers))
    /\ (RequestsAccumulate <=> CollectedUpto(script, answers))
<1>1. PiecesDoNotMatter <=> RightUpto(script, answers)
  BY SameWords DEF PiecesDoNotMatter, RightUpto
<1>2. RequestsAccumulate <=> CollectedUpto(script, answers)
  BY SameWords DEF RequestsAccumulate, CollectedUpto
<1> QED  BY <1>1, <1>2

LEMMA OneAnswerMore ==
  ASSUME NEW a, IsSequence(a), NEW x, NEW n, n = Len(a)
  PROVE  /\ n \in Nat /\ DOMAIN Append(a, x) = 1 .. n + 1 /\ DOMAIN a = 1 .. n
         /\ \A i \in DOMAIN Append(a, x) :
              \/ i \in DOMAIN a /\ Append(a, x)[i] = a[i]
              \/ i = n + 1 /\ i - 1 = n /\ Append(a, x)[i] = x
<1>1. /\ n \in Nat /\ IsSequence(Append(a, x)) /\ Len(Append(a, x)) = n + 1
      /\ \A i \in 1 .. n : Append(a, x)[i] = a[i]
      /\ Append(a, x)[n + 1] = x
  BY LengthIs, Appended
<1>2. \A s : IsSequence(s) => DOMAIN s = 1 .. Len(s)
  BY DEF IsSequence
<1>3. DOMAIN Append(a, x) = 1 .. n + 1 /\ DOMAIN a = 1 .. n
  BY <1>1, <1>2
<1>4. \A i \in 1 .. n + 1 : i \in 1 .. n \/ (i = n + 1 /\ i - 1 = n)
  BY <1>1
<1> QED  BY <1>1, <1>3, <1>4

LEMMA AnswerAdded ==
  ASSUME Inductive, [Next]_vars, NEW i, i \in DOMAIN answers', i \in DOMAIN script
  PROVE  \/ i \in DOMAIN answers /\ answers'[i] = answers[i]
         \/ /\ answers'[i] = AnswerOf(request') /\ i \in Nat /\ i = i - 1 + 1
            /\ PlainUpto(script, i - 1) /\ WellFormed(script[i]) /\ NoOverflow(script[i])
                 => /\ RightAnswer(script[i], request')
                    /\ MeaningOf(script[i]) = "Parsed" => AllKept(i - 1, request')
<1>1. answers' = answers \/ AnswersOne
  BY AnswersGrow DEF Inductive
<1>2. IsSequence(answers)
  BY DEF Inductive, Located
<1>3. CASE AnswersOne
  <2> DEFINE n == Len(answers)
             x == AnswerOf(request')
  <2>1. answers' = Append(answers, x)
    BY <1>3 DEF AnswersOne
  <2> HIDE DEF x
  <2>2. /\ n \in Nat
        /\ \/ i \in DOMAIN answers /\ answers'[i] = answers[i]
           \/ i = n + 1 /\ i - 1 = n /\ answers'[i] = x
    BY <1>2, <2>1, OneAnswerMore
  <2>3. CASE i = n + 1 /\ i - 1 = n /\ answers'[i] = x
    <3>1. PlainUpto(script, n) /\ WellFormed(script[i]) /\ NoOverflow(script[i])
                 => /\ RightAnswer(script[i], request')
                    /\ MeaningOf(script[i]) = "Parsed" => AllKept(n, request')
      BY <1>3, <2>3 DEF AnswersOne
    <3>2. i \in Nat /\ i = i - 1 + 1
      BY <2>2, <2>3
    <3> HIDE DEF n
    <3> QED  BY <2>3, <3>1, <3>2 DEF x
  <2> QED  BY <2>2, <2>3
<1> QED  BY <1>1, <1>3

LEMMA InductiveNext == ASSUME Inductive, [Next]_vars PROVE Inductive' /\ script' = script
BY NextPlaced, NextLocated, AnswersGrow DEF Inductive

\* However its bytes arrive, a request is taken for what it is.
THEOREM PiecesAreOneRequest == Spec => []PiecesDoNotMatter
<1> DEFINE Right == Inductive /\ PiecesDoNotMatter
<1>1. Init => Right
  <2> SUFFICES ASSUME Init PROVE Right
    OBVIOUS
  <2>1. Inductive
    BY InitPlaced, InitLocated DEF Inductive
  <2>2. DOMAIN answers = {}
    BY DEF Init
  <2> QED  BY <2>1, <2>2 DEF PiecesDoNotMatter
<1>2. Right /\ [Next]_vars => Right'
  <2> SUFFICES ASSUME Right, [Next]_vars PROVE Right'
    OBVIOUS
  <2>1. Inductive' /\ script' = script
    BY InductiveNext
  <2>2. RightUpto(script, answers)
    BY SameAnswers
  <2>3. RightUpto(script, answers')
    <3> SUFFICES ASSUME NEW i \in DOMAIN answers' \cap DOMAIN script,
                        PlainUpto(script, i - 1), WellFormed(script[i]), NoOverflow(script[i])
                 PROVE  /\ answers'[i].error = MeaningOf(script[i])
                        /\ answers'[i].error = "Parsed" =>
                             /\ answers'[i].method = script[i].method /\ answers'[i].uri = script[i].uri
                             /\ answers'[i].major = Number(script[i].major)
                             /\ answers'[i].minor = Number(script[i].minor)
      BY DEF RightUpto
    <3>1. CASE i \in DOMAIN answers /\ answers'[i] = answers[i]
      BY <2>2, <3>1 DEF RightUpto
    <3>2. CASE answers'[i] = AnswerOf(request') /\ RightAnswer(script[i], request')
      BY <3>2 DEF RightAnswer, AnswerOf
    <3> QED  BY <3>1, <3>2, AnswerAdded
  <2>4. (PiecesDoNotMatter <=> RightUpto(script, answers))'
    BY SameAnswers, PTL
  <2> QED  BY <2>1, <2>3, <2>4
<1>3. Right => PiecesDoNotMatter
  OBVIOUS
<1> QED  BY <1>1, <1>2, <1>3, PTL DEF Spec

\* A request is provided with all its fields and those of the requests before,
\* and is kept alive when one of them asked for it.
THEOREM RequestsPileUp == Spec => []RequestsAccumulate
<1> DEFINE Right == Inductive /\ RequestsAccumulate
<1>1. Init => Right
  <2> SUFFICES ASSUME Init PROVE Right
    OBVIOUS
  <2>1. Inductive
    BY InitPlaced, InitLocated DEF Inductive
  <2>2. DOMAIN answers = {}
    BY DEF Init
  <2> QED  BY <2>1, <2>2 DEF RequestsAccumulate
<1>2. Right /\ [Next]_vars => Right'
  <2> SUFFICES ASSUME Right, [Next]_vars PROVE Right'
    OBVIOUS
  <2>1. Inductive' /\ script' = script
    BY InductiveNext
  <2>2. CollectedUpto(script, answers)
    BY SameAnswers
  <2>3. CollectedUpto(script, answers')
    <3> SUFFICES ASSUME NEW i \in DOMAIN answers' \cap DOMAIN script, PlainUpto(script, i)
                 PROVE  /\ answers'[i].hosts = UNION {Values(script[j].fields, "Host") : j \in 1 .. i}
                        /\ answers'[i].keepAlive <=> \E j \in 1 .. i : AsksToKeep(script[j])
      BY DEF CollectedUpto
    <3>1. CASE i \in DOMAIN answers /\ answers'[i] = answers[i]
      BY <2>2, <3>1 DEF CollectedUpto
    <3>2. CASE /\ answers'[i] = AnswerOf(request') /\ i \in Nat /\ i = i - 1 + 1
               /\ PlainUpto(script, i - 1) /\ WellFormed(script[i]) /\ NoOverflow(script[i])
                    => /\ RightAnswer(script[i], request')
                       /\ MeaningOf(script[i]) = "Parsed" => AllKept(i - 1, request')
      <4>1. DOMAIN script \subseteq Nat \ {0}
        BY PlacedIs, ScriptsAssumption DEF Inductive
      <4>2. PICK n \in Nat : n = i - 1 /\ i = n + 1
        BY <3>2, <4>1
      <4>3. PlainUpto(script, n) /\ Plain(script[i])
        BY <4>1, <4>2, PlainMore
      <4>4. AllKept(n, request')
        BY <3>2, <4>2, <4>3 DEF Plain
      <4>5. /\ KeptUpto(script, i, request')
            /\ Values(request'.fields, <<"Host">>) = UNION {Values(script[j].fields, "Host") : j \in 1 .. i}
        BY <4>2, <4>4 DEF AllKept
      <4> QED  BY <3>2, <4>5 DEF AnswerOf, KeptUpto
    <3> QED  BY <3>1, <3>2, AnswerAdded
  <2>4. (RequestsAccumulate <=> CollectedUpto(script, answers))'
    BY SameAnswers, PTL
  <2> QED  BY <2>1, <2>3, <2>4
<1>3. Right => RequestsAccumulate
  OBVIOUS
<1> QED  BY <1>1, <1>2, <1>3, PTL DEF Spec

\* All of the request is there: the bytes behind the read position are no less
\* than its head still has.
LEMMA AllIsThere ==
  ASSUME Placed, NEW n, NEW r, NEW base, NEW k, Follow(n, r, base, k), EndOf(script, n + 1) <= received
  PROVE  Left \in Nat /\ HeadEnd(r) - k <= Left /\ k \in Int /\ HeadEnd(r) \in Nat
<1>1. /\ readPos \in Nat /\ received \in Nat /\ readPos <= received
  BY PlacedIs
<1>2. /\ base \in Nat /\ k = readPos - base /\ k \in Int /\ HeadEnd(r) \in Nat /\ Len(r.content) \in Nat
      /\ EndOf(script, n + 1) = base + HeadEnd(r) + Len(r.content)
  BY DEF Follow
<1> QED  BY <1>1, <1>2 DEF Left

\* Whoever waits in a request that is all there, waits within its version.
LEMMA CurrentParsing ==
  ASSUME Placed, Located, CurrentWhole, AllPlain(Len(answers)), ~BetweenAt(pc, f),
         WellFormed(script[Len(answers) + 1])
  PROVE  LET n == Len(answers)
             r == script[n + 1]
             base == EndOf(script, n)
             k == readPos - base
         IN  Parsing(n, r, base, k) /\ Left \in Nat /\ HeadEnd(r) - k <= Left
<1> DEFINE n == Len(answers)
           r == script[n + 1]
           base == EndOf(script, n)
           k == readPos - base
<1>1. IsSequence(answers) /\ LocatedAt(script, n, request, readPos, received, pc, f)
  BY DEF Located
<1>2. n + 1 \in DOMAIN script /\ EndOf(script, n + 1) <= received /\ PlainUpto(script, n)
  BY SameWords DEF CurrentWhole, Current
<1>3. n \in Nat /\ Len(script) \in Nat /\ DOMAIN script = 1 .. Len(script)
  BY <1>1, LengthIs, PlacedIs, ScriptLies, ScriptsAssumption
<1>4. n < Len(script)
  BY <1>2, <1>3
<1>5. Follow(n, r, base, k)
  BY <1>1, <1>2, <1>4, FollowIs
<1> HIDE DEF n
<1>6. Inside(script, n, request, r, base, k, f) /\ Paced(r, f, received - readPos, pc)
  BY <1>1, <1>2, <1>4 DEF LocatedAt, n
<1>7. Parsing(n, r, base, k)
  BY <1>5, <1>6 DEF Parsing
<1> HIDE DEF r, base, k
<1>8. Left \in Nat /\ HeadEnd(r) - k <= Left
  BY <1>2, <1>5, AllIsThere
<1> QED  BY <1>7, <1>8 DEF n, r, base, k

\* No well-formed request that is all there ends the instance.
THEOREM WholeRequestsPass == Spec => []ThrowsOnlyOnPieces
<1>1. Inductive => ThrowsOnlyOnPieces
  <2> SUFFICES ASSUME Inductive, pc = "thrown", AllPlain(Len(answers)), CurrentWhole,
                      WellFormed(script[Len(answers) + 1])
               PROVE  FALSE
    BY DEF ThrowsOnlyOnPieces, Current
  <2> DEFINE n == Len(answers)
             r == script[n + 1]
             base == EndOf(script, n)
             k == readPos - base
  <2>1. ~BetweenAt(pc, f)
    BY DEF BetweenAt
  <2>2. Parsing(n, r, base, k) /\ Left \in Nat /\ HeadEnd(r) - k <= Left
    BY <2>1, CurrentParsing DEF Inductive
  <2> HIDE DEF n, r, base, k
  <2>3. f.state = "UriEnd" /\ Left < 5
    BY <2>2 DEF Parsing, Paced, Left
  <2>4. f.state # "Died"
    BY <2>3
  <2>5. PICK j \in 0 .. Len(r.fields) : Standing(r, base, k, f, j)
    BY <2>2, <2>4, ParsingReads DEF Inductive
  <2>6. r.method \in Methods
    BY <2>3, <2>5, PlaceOf DEF AtVersion, LineRead, MethodRead
  <2>7. r \in Request /\ WellFormed(r) /\ base \in Nat /\ k \in Int /\ HeadEnd(r) \in Nat
    BY <2>2 DEF Parsing, Follow
  <2>8. HeadEnd(r) - k >= Wanted(f.state)
    BY <2>3, <2>5, <2>6, <2>7, Room
  <2>9. Wanted(f.state) = 10
    BY <2>3 DEF Wanted
  <2> QED  BY <2>2, <2>3, <2>7, <2>8, <2>9
<1> QED  BY <1>1, InductiveHolds, PTL

LEMMA WantedIs == ASSUME Typed(f) PROVE f.state # "Died" => Wanted(f.state) \in Nat \ {0}
<1>1. \A e \in Edges : Wanted(e[1]) \in Nat \ {0}
  <2> SUFFICES ASSUME NEW e \in Edges PROVE Wanted(e[1]) \in Nat \ {0}
    OBVIOUS
  <2>1. e[1] \in {"Begin", "MetAlmostDone", "MetDone", "UriStart", "Uri", "VerHttpSlash",
                  "VerMajor", "VerDot", "VerMinor", "VerEnd", "CR", "CRLF", "CRLFCR",
                  "Header", "Colon", "Value"}
    BY SMTT(30) DEF Edges
  <2> QED  BY <2>1 DEF Wanted
<1>2. \A s \in DOMAIN WordAt : Wanted(s) \in Nat \ {0}
  BY TextsAre DEF Wanted, WordStates
<1> QED  BY <1>1, <1>2 DEF Typed, States

\* A plain request that is all there is answered, but for the two known waits.
THEOREM StallsAreKnown == Spec => []KnownStalls
<1>1. Inductive => KnownStalls
  <2> SUFFICES ASSUME Inductive, pc = "rest", CurrentWhole, AllPlain(Current), f.err \in NoError,
                      ~(f.state \in {"VerHttpSlash", "VerMajor"} /\ Left < Wanted(f.state))
               PROVE  FALSE
    BY DEF KnownStalls
  <2> DEFINE n == Len(answers)
             r == script[n + 1]
             base == EndOf(script, n)
             k == readPos - base
  <2>1. ~BetweenAt(pc, f)
    BY DEF BetweenAt
  <2>2. PlainUpto(script, n + 1) /\ n + 1 \in DOMAIN script
    BY SameWords DEF Current, CurrentWhole
  <2>3. n \in Nat /\ DOMAIN script \subseteq Nat
    BY LengthIs, PlacedIs, ScriptsAssumption DEF Inductive, Located
  <2>4. PlainUpto(script, n) /\ Plain(r)
    BY <2>2, <2>3, PlainMore
  <2>5. Parsing(n, r, base, k) /\ Left \in Nat /\ HeadEnd(r) - k <= Left
    BY <2>1, <2>4, SameWords, CurrentParsing DEF Inductive, Plain
  <2> HIDE DEF n, r, base, k
  <2>6. WellFormed(r) /\ NoOverflow(r) /\ MeaningOf(r) = "Parsed"
    BY <2>4 DEF Plain
  <2>7. /\ f.state = "Died" /\ NoOverflow(r) => pc = "parse"
        /\ (Left = 0 /\ f.state # "Died") \/ ~Parseable(f, Left)
    BY <2>5 DEF Parsing, Paced, Left
  <2>8. f.state # "Died"
    BY <2>6, <2>7
  <2>9. Wanted(f.state) \in Nat \ {0}
    BY <2>8, WantedIs, PlacedIs DEF Inductive
  <2>10. Left < Wanted(f.state)
    BY <2>5, <2>7, <2>8, <2>9 DEF Parseable
  <2>11. f.state \notin {"VerHttpSlash", "VerMajor"}
    BY <2>10
  <2>12. r.method \in Methods
    BY <2>6 DEF MeaningOf
  <2>13. PICK j \in 0 .. Len(r.fields) : Standing(r, base, k, f, j)
    BY <2>5, <2>8, ParsingReads DEF Inductive
  <2>14. r \in Request /\ base \in Nat /\ k \in Int /\ HeadEnd(r) \in Nat
    BY <2>5 DEF Parsing, Follow
  <2>15. HeadEnd(r) - k >= Wanted(f.state)
    BY <2>6, <2>11, <2>12, <2>13, <2>14, Room
  <2> QED  BY <2>5, <2>9, <2>10, <2>14, <2>15
<1> QED  BY <1>1, InductiveHolds, PTL

=============================================================================
