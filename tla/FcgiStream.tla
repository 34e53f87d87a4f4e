------------------------------ MODULE FcgiStream ------------------------------
(***************************************************************************)
(* A gateway's answer on its way from the gateway's socket to the write    *)
(* loop of the client: the records of the FastCGI protocol, the fields in  *)
(* front of the answer, and the stages in which FastcgiManager::poll takes *)
(* it (core/providers/fastcgi_provider.cc, core/fastcgi_manager.cc,        *)
(* fastcgi/fastcgi.cc).                                                    *)
(*                                                                         *)
(* UserManager copies the provider it delegates, once for every later read *)
(* of the same connection, and the copies share buffer_, out_ and the      *)
(* write loop.  Each asks the gateway and is answered the same.  A byte is *)
(* named after the copy it was sent to and its place in that answer, so    *)
(* that it can be followed.                                                *)
(***************************************************************************)
EXTENDS Integers, Sequences, SequencesExt, FiniteSets, Streams

CONSTANTS
  Copies,    \* the providers that may be delegated for one request
  Answers,   \* what the gateway may mean, and the records it says it with
  Rooms      \* how much the write loop may have room for

ASSUME RoomAssumption == Rooms \subseteq Nat \ {0}
ASSUME CopiesAssumption == IsFiniteSet(Copies)
VARIABLES
  answer,    \* its lines and body, its records and bytes, and to whom it is given
  arrived,   \* how many bytes are at each copy's socket or were there
  eof,       \* the gateway has closed the connection
  got,       \* how many bytes were received from it
  cut,       \* (history) some read has ended inside a record
  buffer,    \* buffer_, the readable bytes
  out,       \* out_, the readable bytes
  prov,      \* the copies' own members
  local,     \* the variables of parse()
  pc,        \* where poll stands
  client     \* what was written into the client's write loop

vars == <<answer, arrived, eof, got, cut, buffer, out, prov, local, pc, client>>

-----------------------------------------------------------------------------
(* Records and bytes. *)

EndRequest == 3
Stdout == 6
Stderr == 7
HeaderSize == 8

\* FcgiMakeHeader and FcgiGetHeader: eight bytes, numbers with the high byte
\* first.
MakeHeader(type, length, padding) ==
  <<1, type, 0, 1, (length \div 256) % 256, length % 256, padding, 0>>
\* Slip: the low byte is read first.
GetHeaderSwapped(h) ==
  [type |-> h[2], contentLength |-> h[5] + 256 * h[6], paddingLength |-> h[7]]
GetHeader(h) ==
  [type |-> h[2], contentLength |-> 256 * h[5] + h[6], paddingLength |-> h[7]]

\* A record is its type, its content (one symbol per byte) and its padding;
\* Layout says what each byte of a sequence of records is.
Size(r) == HeaderSize + Len(r.content) + r.padding
RecordBytes(i, r) ==
  [k \in 1 .. Size(r) |->
     [record |-> i, at |-> k, type |-> r.type, last |-> k = Size(r),
      content |-> k > HeaderSize /\ k <= HeaderSize + Len(r.content),
      number |-> IF k > HeaderSize THEN 0
                 ELSE MakeHeader(r.type, Len(r.content), r.padding)[k],
      symbol |-> IF k > HeaderSize /\ k <= HeaderSize + Len(r.content)
                 THEN r.content[k - HeaderSize] ELSE "none"]]
Layout(records) == FlattenSeq([i \in DOMAIN records |-> RecordBytes(i, records[i])])

\* Lengths have two bytes, paddings one.
Record ==
  {r \in [type : 0 .. 255, content : Seq(STRING), padding : 0 .. 255] : Len(r.content) < 65536}

ASSUME AnswersAssumption ==
  \A a \in Answers :
    /\ a.copies \subseteq Copies
    /\ a.records \in Seq(Record) /\ a.bytes = Layout(a.records)
    /\ a.ends \subseteq 1 .. Len(a.bytes)
    /\ a.body \in Seq(STRING)

Byte(b) == answer.bytes[b.at]
Total == Len(answer.bytes)
Piece(c, from, to) == [k \in 1 .. to - from |-> [copy |-> c, at |-> from + k]]
Symbols(bytes) == [k \in DOMAIN bytes |-> Byte(bytes[k]).symbol]

\* The buffer begins with the bytes of one header.  It does unless two copies
\* have put their bytes into it: then its first eight bytes mean anything.
Aligned ==
  \A k \in 1 .. HeaderSize :
    /\ buffer[k] = [copy |-> buffer[1].copy, at |-> buffer[1].at + k - 1]
    /\ Byte(buffer[k]).at = k
TheHeader == GetHeader([k \in 1 .. HeaderSize |-> Byte(buffer[k]).number])

NewProvider == [stage |-> "Connected", asked |-> FALSE, end |-> FALSE, isStderr |-> FALSE,
                provided |-> FALSE, code |-> 200, fields |-> {}]

Begin == [state |-> "Begin", key |-> <<>>, value |-> <<>>]

Init ==
  /\ answer \in Answers
  /\ arrived = [c \in Copies |-> 0]
  /\ eof = [c \in Copies |-> FALSE]
  /\ got = [c \in Copies |-> 0]
  /\ cut = FALSE
  /\ buffer = <<>> /\ out = <<>>
  /\ prov = [c \in Copies |->
               IF c \in answer.copies THEN NewProvider
               ELSE [NewProvider EXCEPT !.stage = "None"]]
  /\ local = Begin
  /\ pc = <<"rest">>
  /\ client = <<>>

At(place, c) == pc = <<place, c>>
Stage(c) == prov[c].stage

-----------------------------------------------------------------------------
(* The gateway. *)

\* Where a piece of the answer ends is where poll() finds it to end: what
\* arrives between two reads is one piece.  answer.ends bounds the places.
Arrive(c, n) ==
  /\ prov[c].asked /\ Stage(c) # "Done"
  /\ pc[1] \in {"rest", "receive"} /\ got[c] = arrived[c]
  /\ arrived[c] + n \in answer.ends
  /\ arrived' = [arrived EXCEPT ![c] = @ + n]
  /\ UNCHANGED <<answer, eof, got, cut, buffer, out, prov, local, pc, client>>

\* It was not asked to keep the connection, or not asked anything it knows.
Hangup(c) ==
  /\ Stage(c) \in {"Recving", "Forwarding"}
  /\ arrived[c] = Total \/ ~prov[c].asked
  /\ ~eof[c] /\ pc[1] \in {"rest", "receive"}
  /\ eof' = [eof EXCEPT ![c] = TRUE]
  /\ UNCHANGED <<answer, arrived, got, cut, buffer, out, prov, local, pc, client>>

-----------------------------------------------------------------------------
(* poll(): one event after another, at most one handler at a time. *)

\* The socket is writeable: makeRequest writes the request to the end of the
\* buffer and sends from its front; then the buffer is cleared.
MakeRequest(c) ==
  /\ pc = <<"rest">> /\ Stage(c) = "Connected"
  /\ buffer' = <<>>
  /\ prov' = [prov EXCEPT ![c].stage = "Recving", ![c].asked = (buffer = <<>>)]
  /\ UNCHANGED <<answer, arrived, eof, got, cut, out, local, pc, client>>

Receive(c) ==
  /\ buffer' = buffer \o Piece(c, got[c], arrived[c])
  /\ got' = [got EXCEPT ![c] = arrived[c]]
  /\ cut' = (cut \/ (arrived[c] > 0 /\ ~Byte([at |-> arrived[c]]).last))
  /\ pc' = <<"consume", c>>
  /\ UNCHANGED <<answer, arrived, eof, out, prov, local, client>>

\* The socket is readable: it has bytes, or has been closed by the gateway.
ReadEvent(c) ==
  /\ pc = <<"rest">> /\ Stage(c) \in {"Recving", "Forwarding"}
  /\ got[c] < arrived[c] \/ eof[c]
  /\ Receive(c)

\* One turn of the loop of consume() ...
Consuming(c) == At("consume", c) /\ ~prov[c].end /\ Len(buffer) > HeaderSize
Dropped(n) == SubSeq(buffer, n + 1, Len(buffer))

\* ... at an empty record ends the answer,
ConsumeEmpty(c) ==
  /\ Consuming(c) /\ Aligned /\ TheHeader.contentLength = 0
  /\ prov' = [prov EXCEPT ![c].end = TRUE]
  /\ buffer' = Dropped(HeaderSize)
  /\ UNCHANGED <<answer, arrived, eof, got, cut, out, local, pc, client>>

Whole(n) == n > 0 /\ Len(buffer) >= HeaderSize + n

RecordSize(h) == HeaderSize + h.contentLength + h.paddingLength

\* ... takes a record whose content is there: it is output, replaces it, or
\* is passed over,
Consume(c) ==
  /\ Consuming(c) /\ Aligned
  /\ LET h == TheHeader
         content == SubSeq(buffer, HeaderSize + 1, HeaderSize + h.contentLength)
         failed == prov[c].isStderr
     IN  /\ Whole(h.contentLength) /\ RecordSize(h) <= Len(buffer)
         /\ buffer' = Dropped(RecordSize(h))
         /\ out' = IF h.type = Stderr THEN (IF failed THEN out ELSE <<>>) \o content
                   ELSE IF h.type = Stdout /\ ~failed THEN out \o content
                   ELSE out
         /\ prov' = IF h.type = Stderr /\ ~failed
                    THEN [prov EXCEPT ![c].isStderr = TRUE, ![c].code = 400] ELSE prov
  /\ UNCHANGED <<answer, arrived, eof, got, cut, local, pc, client>>

\* ... throws when the padding is not there, and nothing below run() catches,
ThrowAtPadding(c) ==
  /\ Consuming(c) /\ Aligned
  /\ Whole(TheHeader.contentLength)
  /\ Len(buffer) < RecordSize(TheHeader)
  /\ pc' = <<"thrown">>
  /\ UNCHANGED <<answer, arrived, eof, got, cut, buffer, out, prov, local, client>>

\* ... moves the bytes of a record that is not there and goes round for ever,
Spin(c) ==
  /\ Consuming(c) /\ Aligned
  /\ TheHeader.contentLength > 0 /\ ~Whole(TheHeader.contentLength)
  /\ pc' = <<"spin">>
  /\ UNCHANGED <<answer, arrived, eof, got, cut, buffer, out, prov, local, client>>

\* ... or meets eight bytes that are no header.
Garbled(c) ==
  /\ Consuming(c) /\ ~Aligned
  /\ pc' = <<"garbled">>
  /\ UNCHANGED <<answer, arrived, eof, got, cut, buffer, out, prov, local, client>>

ConsumeReturns(c) ==
  /\ At("consume", c) /\ (prov[c].end \/ Len(buffer) <= HeaderSize)
  /\ pc' = <<IF Stage(c) = "Recving" THEN "judge" ELSE "provide", c>>
  /\ UNCHANGED <<answer, arrived, eof, got, cut, buffer, out, prov, local, client>>

-----------------------------------------------------------------------------
(* The fields in front of the answer. *)

\* isHeaderEnds: CR, LF, CR and LF in this order, whatever is between them.
HeaderEnds(s) ==
  LET places(ch) == {i \in DOMAIN s : s[i] = ch}
  IN  \E a, c \in places("CR"), b, d \in places("LF") : a < b /\ b < c /\ c < d

\* poll() after consume() in stage kFSRecving: an answer that has ended is
\* forwarded as it is; one whose fields seem complete is parsed; otherwise
\* poll waits for more.
Judge(c) ==
  /\ At("judge", c)
  /\ LET parses == ~prov[c].end /\ HeaderEnds(Symbols(out))
     IN  /\ prov' = IF prov[c].end \/ parses
                    THEN [prov EXCEPT ![c].stage = "Forwarding"] ELSE prov
         /\ local' = IF parses THEN Begin ELSE local
         /\ pc' = IF prov[c].end THEN <<"receive", c>>
                  ELSE IF parses THEN <<"parse", c>> ELSE <<"rest">>
  /\ UNCHANGED <<answer, arrived, eof, got, cut, buffer, out, client>>

\* parse() reads byte after byte of out_ but for the last; a state, a key and
\* a value (sequences of symbols) are its variables.
Parsing(c) == At("parse", c) /\ Len(out) > 1 /\ local.state # "Done"
Ch == Byte(out[1]).symbol
To(state) == [local EXCEPT !.state = state]
ToKey == [local EXCEPT !.state = "Key", !.key = Append(@, Ch)]
ToValue == [local EXCEPT !.state = "Value", !.value = Append(@, Ch)]

Scanned ==
  CASE local.state = "Begin" -> IF Ch \in {"SP", "LF"} THEN local
                                ELSE IF Ch = "CR" THEN To("CR") ELSE ToKey
    [] local.state = "Key" -> IF Ch = ":" THEN To("Colon") ELSE ToKey
    [] local.state = "Colon" -> IF Ch = "SP" THEN To("White") ELSE ToValue
    [] local.state = "White" -> IF Ch = "SP" THEN local ELSE ToValue
    [] local.state = "Value" -> IF Ch = "CR" THEN To("CR") ELSE ToValue
    [] local.state = "CR" -> IF Ch = "LF" THEN To("CRLF") ELSE local

Scan(c) ==
  /\ Parsing(c) /\ local.state # "CRLF"
  /\ local' = Scanned
  /\ out' = Tail(out)
  /\ UNCHANGED <<answer, arrived, eof, got, cut, buffer, prov, pc, client>>

\* After a line: a status is turned into the code, and neither key nor value is
\* emptied after it; everything else becomes a field.  A CR is the empty line,
\* and what follows it is passed over.
Status == <<"Status">>
IsStatus == local.key = Status
Codes == [n \in {"302", "404"} |-> IF n = "302" THEN 302 ELSE 404]
Entered(c) ==
  IF IsStatus THEN [prov EXCEPT ![c].code = Codes[local.value[1]]]
  ELSE [prov EXCEPT ![c].fields =
          {x \in @ : x[1] # local.key} \cup {<<local.key, local.value>>}]

Emptied == IF IsStatus THEN local ELSE [local EXCEPT !.key = <<>>, !.value = <<>>]

EndLine(c) ==
  /\ Parsing(c) /\ local.state = "CRLF"
  /\ IsStatus => local.value[1] \in DOMAIN Codes
  /\ prov' = Entered(c)
  /\ local' = IF Ch = "CR" THEN [Emptied EXCEPT !.state = "Done"]
              ELSE [Emptied EXCEPT !.state = "Key", !.key = Append(@, Ch)]
  /\ out' = SubSeq(out, IF Ch = "CR" THEN 3 ELSE 2, Len(out))
  /\ UNCHANGED <<answer, arrived, eof, got, cut, buffer, pc, client>>

\* stoi throws at a status that is no number.
ThrowAtStatus(c) ==
  /\ Parsing(c) /\ local.state = "CRLF" /\ IsStatus /\ local.value[1] \notin DOMAIN Codes
  /\ pc' = <<"unread">>
  /\ UNCHANGED <<answer, arrived, eof, got, cut, buffer, out, prov, local, client>>

ParseReturns(c) ==
  /\ At("parse", c) /\ ~Parsing(c)
  /\ pc' = <<"receive", c>>
  /\ local' = Begin
  /\ UNCHANGED <<answer, arrived, eof, got, cut, buffer, out, prov, client>>

\* The stage kFSForwarding, reached without a break, receives once more.
ReceiveAgain(c) == At("receive", c) /\ Receive(c)

\* Slip: the head is written each time.
OpeningAgain(c) == << <<"head", prov[c].code, prov[c].fields>> >>
Opening(c) ==
  IF prov[c].provided THEN <<>>
  ELSE IF prov[c].isStderr THEN << <<"error">> >>
  ELSE << <<"head", prov[c].code, prov[c].fields>> >>

\* Slips: what was written is not read from out_ unless it was all, ...
RestUnread(n) == IF n = Len(out) THEN <<>> ELSE out
Rest(n) == SubSeq(out, n + 1, Len(out))

\* ... the provider is erased as soon as it has written something, or only when
\* the stream has ended.
ForwardEndAtOnce(c, n) == n > 0
ForwardEndOfStream(c, n) == n = Len(out) /\ prov[c].end
ForwardEnd(c, n) == n = Len(out)

\* provide(): the head once, or an error page, then what the write loop has
\* room for.  The provider is erased when there is no output left.
Provide(c) ==
  /\ At("provide", c)
  /\ \E room \in Rooms :
       LET n == IF Len(out) < room THEN Len(out) ELSE room
       IN  /\ client' = client \o Opening(c) \o [k \in 1 .. n |-> <<"byte", out[k]>>]
           /\ out' = Rest(n)
           /\ prov' = [prov EXCEPT ![c].provided = TRUE,
                                   ![c].stage = IF ForwardEnd(c, n) THEN "Done" ELSE @]
  /\ pc' = <<"rest">>
  /\ UNCHANGED <<answer, arrived, eof, got, cut, buffer, local>>

Poll(c) ==
  \/ MakeRequest(c) \/ ReadEvent(c) \/ ReceiveAgain(c)
  \/ ConsumeEmpty(c) \/ Consume(c) \/ ThrowAtPadding(c) \/ Spin(c) \/ Garbled(c)
  \/ ConsumeReturns(c) \/ Judge(c)
  \/ Scan(c) \/ EndLine(c) \/ ThrowAtStatus(c) \/ ParseReturns(c)
  \/ Provide(c)

Gateway(c) == Hangup(c) \/ \E n \in 1 .. Total : Arrive(c, n)

Next == \E c \in Copies : Poll(c) \/ Gateway(c)

Spec == Init /\ [][Next]_vars

\* Every turn of the event loop polls, and a poll handles every socket that
\* has something to read; the gateway answers and closes (its steps are tied to
\* moments between those of poll, so that weak fairness would not do).
FairSpec ==
  /\ Spec
  /\ \A c \in Copies :
       WF_vars(Poll(c)) /\ SF_vars(ReadEvent(c)) /\ SF_vars(Gateway(c))

-----------------------------------------------------------------------------
Alone == Cardinality(answer.copies) = 1

SentBytes == [copy : Copies, at : 1 .. Total]

\* What is read was sent and has arrived, no byte is of another answer, and
\* the copies keep the shape of a provider.
TypeOK ==
  /\ answer \in Answers
  /\ arrived \in [Copies -> 0 .. Total] /\ got \in [Copies -> 0 .. Total]
  /\ \A c \in Copies : got[c] <= arrived[c]
  /\ eof \in [Copies -> BOOLEAN] /\ cut \in BOOLEAN
  /\ buffer \in Seq(SentBytes) /\ out \in Seq(SentBytes)
  /\ DOMAIN prov = Copies
  /\ \A c \in Copies :
       /\ DOMAIN prov[c] = DOMAIN NewProvider
       /\ Stage(c) \in {"None", "Connected", "Recving", "Forwarding", "Done"}
       /\ {prov[c].end, prov[c].isStderr, prov[c].provided, prov[c].asked} \subseteq BOOLEAN
  /\ pc[1] \in {"rest", "consume", "judge", "parse", "receive", "provide", "spin", "thrown", "garbled",
              "unread"}

\* The output of the records that were consumed.
Output == {b \in SentBytes : Byte(b).content /\ Byte(b).type = Stdout}
Decoded(c) == Kept(Piece(c, 0, got[c] - Len(buffer)), Output)
Forwarded ==
  LET items == Kept(client, {"byte"} \X SentBytes)
  IN  [k \in DOMAIN items |-> items[k][2]]

\* An empty record ends an answer; its padding is not taken out of the buffer.
PaddedEnd == \E r \in Range(answer.records) : r.content = <<>> /\ r.padding > 0

\* The decoder stops the instance (it throws, it spins, or it reads as a header
\* what is none) only after a read has ended inside a record, or when a copy
\* has left the padding of an empty record to another; and a provider that is
\* alone starts each turn of consume() at a header, wherever the pieces end.
FailsOnlyOnPieces ==
  /\ pc \in {<<"spin">>, <<"thrown">>, <<"garbled">>} => cut \/ (PaddedEnd /\ ~Alone)
  /\ pc = <<"garbled">> => ~Alone

\* What it has forwarded and what waits in out_ is the end of what the records
\* brought: nothing is lost, doubled or put out of order behind the fields.
NothingLost ==
  \A c \in answer.copies :
    Alone /\ ~prov[c].isStderr => EndsWith(Decoded(c), Forwarded \o out)

\* A head, or an error page, comes before the bytes of the answer; each copy
\* puts one of its own among them, once, and no bytes come without.
HeadPerCopy ==
  /\ client # <<>> => client[1][1] \in {"head", "error"}
  /\ Cardinality({k \in DOMAIN client : client[k][1] # "byte"})
       = Cardinality({c \in Copies : prov[c].provided})

\* What a gateway means: lines, at least one, an empty line and a body, and
\* nothing behind the first empty record.
Line ==
  {l \in [key : Seq(STRING) \ {<<>>}, blanks : Nat, value : Seq(STRING) \ {<<>>}] :
     /\ Range(l.key) \cap {"SP", ":", "CR", "LF"} = {}
     /\ Range(l.value) \cap {"CR", "LF"} = {} /\ l.value[1] # "SP"}
Wire(l) == l.key \o <<":">> \o [k \in 1 .. l.blanks |-> "SP"] \o l.value \o <<"CR", "LF">>
HeadOf(lines) == FlattenSeq([i \in DOMAIN lines |-> Wire(lines[i])]) \o <<"CR", "LF">>
WellFormed(c) ==
  /\ answer.lines \in Seq(Line) \ {<<>>}
  /\ Symbols(Kept(Piece(c, 0, Total), Output)) = HeadOf(answer.lines) \o answer.body
  /\ \A i, j \in DOMAIN answer.records :
       i < j /\ answer.records[i].content = <<>> =>
         answer.records[j].type # Stdout \/ answer.records[j].content = <<>>

\* The code and the fields the lines mean, if the status is in the last of
\* them; of a field that comes twice the last is kept.
Statuses(lines) == {i \in DOMAIN lines : lines[i].key = Status}
StatusLast(lines) == Statuses(lines) \subseteq {Len(lines)}
CodeMeant(lines) ==
  IF Statuses(lines) = {} THEN 200 ELSE Codes[lines[Len(lines)].value[1]]
FieldsMeant(lines) ==
  {<<lines[i].key, lines[i].value>> :
     i \in {i \in DOMAIN lines \ Statuses(lines) :
             \A j \in DOMAIN lines : lines[j].key = lines[i].key => j <= i}}

\* parse() has taken the fields and the empty line, no more and no less.
FieldsTaken(c) ==
  LET taken == SubSeq(Decoded(c), 1, Len(Decoded(c)) - Len(Forwarded \o out))
  IN  Symbols(taken) = HeadOf(answer.lines)

\* parse() stops the instance only at a status that is no number.  Once it has
\* taken all the fields, the client gets the code and the fields that were
\* meant, if no field follows the status; and an answer that is cut is cut
\* because its provider was erased before the rest arrived.
CutOnlyEarly ==
  \A c \in answer.copies :
    LET lines == answer.lines
    IN  Alone /\ ~prov[c].isStderr /\ WellFormed(c) =>
          /\ pc = <<"unread">> =>
               \E i \in Statuses(lines) : lines[i].value[1] \notin DOMAIN Codes
          /\ FieldsTaken(c) =>
               /\ client # <<>> /\ StatusLast(lines) =>
                    client[1] = <<"head", CodeMeant(lines), FieldsMeant(lines)>>
               /\ Stage(c) = "Done" => got[c] < Total \/ Symbols(Forwarded) = answer.body

\* A provider that forwards comes to an end if the client and the gateway go on.
ForwardingEnds ==
  \A c \in Copies :
    Stage(c) = "Forwarding" ~> (Stage(c) = "Done" \/ pc[1] \in {"spin", "thrown", "garbled", "unread"})

\* README "Support for handling FastCGI requests": the answer is forwarded.
WholeAnswer ==
  \A c \in answer.copies :
    Alone /\ Stage(c) = "Done" /\ ~prov[c].isStderr => Symbols(Forwarded) = answer.body
=============================================================================
