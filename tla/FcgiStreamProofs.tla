--------------------------- MODULE FcgiStreamProofs ---------------------------
(***************************************************************************)
(* Theorems about FcgiStream, for any number of copies of a provider, any  *)
(* answers, records and contents, any pieces they arrive in, and any room  *)
(* in the write loop: the types (TypeCorrect), how often a client is told  *)
(* a head (HeadsCounted), that a provider which is alone loses and doubles *)
(* nothing behind the fields (NoneLost, by the invariant Solo), that the   *)
(* decoder stops only where a read has cut a record (StopsAtPieces, by the *)
(* invariant Unbroken), and what the client is told of the fields and has  *)
(* of the body (CutKnown, by Standing, which says where parse() is in the  *)
(* lines, Understood and Ended).                                           *)
(***************************************************************************)
EXTENDS FcgiStream, AnySequenceProofs, SequenceTheorems, FiniteSetTheorems

-----------------------------------------------------------------------------
(* Where the bytes of an answer are in its records. *)

LEMMA InRange == ASSUME NEW n \in Nat, NEW x \in 0 .. n PROVE x \in Nat /\ x <= n
OBVIOUS

LEMMA RecordIs ==
  ASSUME NEW r \in Record
  PROVE  /\ Size(r) \in Nat /\ Size(r) >= HeaderSize
         /\ Len(r.content) \in Nat /\ Len(r.content) < 65536
         /\ r.padding \in Nat /\ r.padding < 256 /\ r.type \in Nat /\ r.type < 256
         /\ Size(r) = HeaderSize + Len(r.content) + r.padding
<1>1. /\ Len(r.content) \in Nat /\ Len(r.content) < 65536
      /\ r.padding \in Nat /\ r.padding < 256 /\ r.type \in Nat /\ r.type < 256
  <2>1. r.type \in 0 .. 255 /\ r.padding \in 0 .. 255 /\ r.content \in Seq(STRING)
    BY DEF Record
  <2>2. Len(r.content) \in Nat
    BY <2>1
  <2>3. Len(r.content) < 65536
    BY DEF Record
  <2>4. 255 \in Nat
    OBVIOUS
  <2>5. r.padding \in Nat /\ r.padding <= 255 /\ r.type \in Nat /\ r.type <= 255
    BY <2>1, <2>4, InRange, Zenon
  <2>6. \A x \in Nat : x <= 255 => x < 256
    OBVIOUS
  <2>7. r.padding < 256 /\ r.type < 256
    BY <2>5, <2>6, Zenon
  <2> QED  BY <2>2, <2>3, <2>5, <2>7
<1>2. Size(r) \in Nat /\ Size(r) >= HeaderSize
  BY <1>1 DEF Size, HeaderSize
<1> QED  BY <1>1, <1>2 DEF Size

LEMMA RecordBytesAre ==
  ASSUME NEW i, NEW r \in Record
  PROVE  /\ RecordBytes(i, r) \in Seq(Range(RecordBytes(i, r)))
         /\ Len(RecordBytes(i, r)) = Size(r)
<1>1. Size(r) \in Nat
  BY RecordIs
<1> DEFINE b == RecordBytes(i, r)
           n == Size(r)
<1>2. DOMAIN b = 1 .. n
  BY DEF RecordBytes
<1>3. b = [k \in 1 .. n |-> b[k]]
  BY DEF RecordBytes
<1> HIDE DEF b, n
<1>4. b \in Seq(Range(b)) /\ Len(b) = n
  BY <1>1, <1>2, <1>3 DEF Range, n
<1> QED  BY <1>4 DEF b, n

\* Two bytes make a number.
LEMMA TwoBytes ==
  ASSUME NEW n \in Nat, n < 65536
  PROVE  /\ (n \div 256) % 256 \in Nat /\ n % 256 \in Nat
         /\ (256 * ((n \div 256) % 256)) + (n % 256) = n
<1>1. n \div 256 \in Nat /\ n \div 256 < 256
  OBVIOUS
<1>2. \A d \in Nat : d < 256 => d % 256 = d
  OBVIOUS
<1>3. (n \div 256) % 256 = n \div 256
  BY <1>1, <1>2
<1>4. (256 * (n \div 256)) + (n % 256) = n /\ n % 256 \in Nat
  OBVIOUS
<1> QED  BY <1>1, <1>3, <1>4

LEMMA HeaderBytes ==
  ASSUME NEW type \in Nat, NEW n \in Nat, n < 65536, NEW padding \in Nat, NEW k \in 1 .. HeaderSize
  PROVE  MakeHeader(type, n, padding)[k] \in Nat
<1> DEFINE high == (n \div 256) % 256
           low == n % 256
<1>1. high \in Nat /\ low \in Nat
  BY TwoBytes
<1>2. MakeHeader(type, n, padding) = <<1, type, 0, 1, high, low, padding, 0>>
  BY DEF MakeHeader
<1>3. k = 1 \/ k = 2 \/ k = 3 \/ k = 4 \/ k = 5 \/ k = 6 \/ k = 7 \/ k = 8
  BY DEF HeaderSize
<1> HIDE DEF high, low
<1> QED  BY <1>1, <1>2, <1>3

\* The bytes of a record.
LEMMA RecordByteIs ==
  ASSUME NEW i, NEW r \in Record, NEW k \in 1 .. Size(r)
  PROVE  LET b == RecordBytes(i, r)[k]
         IN  /\ b.record = i /\ b.at = k /\ b.type = r.type
             /\ b.last <=> k = Size(r)
             /\ b.content <=> k > HeaderSize /\ k <= HeaderSize + Len(r.content)
             /\ b.number \in Nat
             /\ k <= HeaderSize => b.number = MakeHeader(r.type, Len(r.content), r.padding)[k]
<1> DEFINE header == MakeHeader(r.type, Len(r.content), r.padding)
           number == IF k > HeaderSize THEN 0 ELSE header[k]
<1>1. k \in Nat /\ k >= 1
  BY RecordIs
<1>2. k <= HeaderSize => header[k] \in Nat
  <2>1. k <= HeaderSize => k \in 1 .. HeaderSize
    BY <1>1 DEF HeaderSize
  <2>2. /\ Len(r.content) \in Nat /\ Len(r.content) < 65536
        /\ r.padding \in Nat /\ r.type \in Nat
    BY RecordIs
  <2> QED  BY <2>1, <2>2, HeaderBytes
<1>3. LET b == RecordBytes(i, r)[k]
      IN  /\ b.record = i /\ b.at = k /\ b.type = r.type /\ b.last = (k = Size(r))
          /\ b.content = (k > HeaderSize /\ k <= HeaderSize + Len(r.content))
          /\ b.number = IF k > HeaderSize THEN 0 ELSE MakeHeader(r.type, Len(r.content), r.padding)[k]
  BY DEF RecordBytes
<1> HIDE DEF header
<1>4. k > HeaderSize <=> ~(k <= HeaderSize)
  BY <1>1 DEF HeaderSize
<1>5. number \in Nat /\ (k <= HeaderSize => number = header[k])
  BY <1>2, <1>4
<1>6. RecordBytes(i, r)[k].number = number
  BY <1>3 DEF header
<1> HIDE DEF number
<1> QED  BY <1>3, <1>5, <1>6 DEF header

\* The header says what the record is.
LEMMA HeaderSays ==
  ASSUME NEW r \in Record, NEW h,
         \A k \in 1 .. HeaderSize : h[k] = MakeHeader(r.type, Len(r.content), r.padding)[k]
  PROVE  GetHeader(h) = [type |-> r.type, contentLength |-> Len(r.content),
                         paddingLength |-> r.padding]
<1> DEFINE n == Len(r.content)
           high == (n \div 256) % 256
           low == n % 256
<1>1. (256 * high) + low = n
  <2>1. n \in Nat /\ n < 65536
    BY RecordIs
  <2> HIDE DEF n
  <2> QED  BY <2>1, TwoBytes
<1>2. 2 \in 1 .. HeaderSize /\ 5 \in 1 .. HeaderSize /\ 6 \in 1 .. HeaderSize /\ 7 \in 1 .. HeaderSize
  BY DEF HeaderSize
<1>3. MakeHeader(r.type, n, r.padding) = <<1, r.type, 0, 1, high, low, r.padding, 0>>
  BY DEF MakeHeader
<1> HIDE DEF high, low, n
<1>4. h[2] = r.type /\ h[5] = high /\ h[6] = low /\ h[7] = r.padding
  BY <1>2, <1>3 DEF n
<1>5. GetHeader(h) = [type |-> h[2], contentLength |-> (256 * h[5]) + h[6], paddingLength |-> h[7]]
  BY DEF GetHeader
<1> QED  BY <1>1, <1>4, <1>5 DEF n

\* Byte p of an answer is byte k of its record i, which is there as a whole and
\* is followed by another record, if by anything.
InRecord(a, p, i, k) ==
  LET r == a.records[i]
      before == p - k
  IN  /\ i \in DOMAIN a.records /\ k \in 1 .. Size(r) /\ k <= p
      /\ before + Size(r) <= Len(a.bytes)
      /\ \A j \in 1 .. Size(r) : a.bytes[before + j] = RecordBytes(i, r)[j]
      /\ before + Size(r) < Len(a.bytes) =>
           a.bytes[before + Size(r) + 1].at = 1 /\ a.bytes[before + Size(r) + 1].record = i + 1
      /\ p = 1 => k = 1

LEMMA BytesAre ==
  ASSUME NEW a \in Answers
  PROVE  /\ Len(a.bytes) \in Nat /\ a.bytes \in Seq(Range(a.bytes))
         /\ a.records \in Seq(Record)
         /\ \A p \in 1 .. Len(a.bytes) : \E i, k : InRecord(a, p, i, k)
<1> DEFINE records == a.records
           bytes == a.bytes
           n == Len(records)
           s == [i \in DOMAIN records |-> RecordBytes(i, records[i])]
           S == UNION {Range(s[i]) : i \in DOMAIN records}
<1>1. records \in Seq(Record) /\ bytes = FlattenSeq(s) /\ n \in Nat
      /\ DOMAIN records = 1 .. n /\ \A i \in 1 .. n : records[i] \in Record
  <2>1. records \in Seq(Record) /\ bytes = FlattenSeq(s)
    BY AnswersAssumption DEF Layout
  <2>2. \A q \in Seq(Record) : Len(q) \in Nat /\ DOMAIN q = 1 .. Len(q)
                             /\ \A i \in 1 .. Len(q) : q[i] \in Record
    OBVIOUS
  <2> HIDE DEF records, s
  <2> QED  BY <2>1, <2>2
<1> HIDE DEF records
<1>2. \A i \in 1 .. n : s[i] = RecordBytes(i, records[i])
  BY <1>1
<1>3. DOMAIN s = 1 .. n /\ s = [i \in 1 .. n |-> s[i]]
  BY <1>1
<1> HIDE DEF s
<1>4. \A i \in 1 .. n : s[i] \in Seq(Range(s[i])) /\ Len(s[i]) = Size(records[i])
  BY <1>1, <1>2, RecordBytesAre
<1>5. \A i \in 1 .. n : s[i] \in Seq(S)
  <2> TAKE i \in 1 .. n
  <2>1. Range(s[i]) \subseteq S
    BY <1>1
  <2> QED  BY <1>4, <2>1, SeqMonotonic
<1>6. s \in Seq(Seq(S)) /\ Len(s) = n
  <2> HIDE DEF S
  <2> QED  BY <1>1, <1>3, <1>5
<1> HIDE DEF S, n
<1>7. bytes \in Seq(S)
  BY <1>1, <1>6, Flattened
<1>8. PICK o \in [0 .. n -> Nat] :
        /\ o[0] = 0 /\ o[n] = Len(bytes)
        /\ \A i \in 1 .. n :
             /\ o[i] = o[i - 1] + Len(s[i]) /\ o[i] <= Len(bytes)
             /\ \A j \in 1 .. Len(s[i]) : bytes[o[i - 1] + j] = s[i][j]
  <2>1. PICK o \in [0 .. Len(s) -> Nat] :
           /\ o[0] = 0 /\ o[Len(s)] = Len(FlattenSeq(s))
           /\ \A i \in 1 .. Len(s) :
                /\ o[i] = o[i - 1] + Len(s[i]) /\ o[i] <= Len(FlattenSeq(s))
                /\ \A j \in 1 .. Len(s[i]) : FlattenSeq(s)[o[i - 1] + j] = s[i][j]
    BY <1>6, FlattenedAt
  <2>2. Len(s) = n /\ FlattenSeq(s) = bytes
    BY <1>1, <1>6
  <2> HIDE DEF bytes
  <2> QED  BY <2>1, <2>2
<1>9. ASSUME NEW i \in 1 .. n
      PROVE  /\ o[i - 1] \in Nat /\ o[i] = o[i - 1] + Size(records[i]) /\ o[i] <= Len(bytes)
             /\ \A j \in 1 .. Size(records[i]) : bytes[o[i - 1] + j] = RecordBytes(i, records[i])[j]
             /\ Size(records[i]) \in Nat /\ Size(records[i]) >= 8
  <2>1. i - 1 \in 0 .. n
    BY <1>1
  <2>2. Size(records[i]) \in Nat /\ Size(records[i]) >= 8
    BY <1>1, RecordIs DEF HeaderSize
  <2> QED  BY <1>2, <1>4, <1>8, <2>1, <2>2
<1>10. Len(bytes) \in Nat /\ bytes \in Seq(Range(bytes))
  <2>1. \A q \in Seq(S) : Len(q) \in Nat /\ q \in Seq(Range(q))
    BY DEF Range
  <2> HIDE DEF bytes
  <2> QED  BY <1>7, <2>1
<1>11. ASSUME NEW p \in 1 .. Len(bytes) PROVE \E i, k : InRecord(a, p, i, k)
  <2> DEFINE reach == {i \in 0 .. n : p <= o[i]}
  <2>1. n \in reach /\ reach \subseteq Nat
    BY <1>1, <1>8
  <2>2. PICK i \in reach : \A m \in reach : i <= m
    BY <2>1, LeastMember
  <2>3. i \in 1 .. n
    BY <1>1, <1>8, <2>2
  <2>4. i - 1 \in 0 .. n /\ ~(p <= o[i - 1])
    <3>1. i - 1 \in 0 .. n /\ ~(i <= i - 1)
      BY <1>1, <2>3
    <3> QED  BY <2>2, <3>1
  <2> DEFINE k == p - o[i - 1]
             r == records[i]
  <2>5. k \in 1 .. Size(r) /\ p - k = o[i - 1] /\ k <= p
    BY <1>9, <1>10, <2>2, <2>3, <2>4
  <2>6. p = 1 => k = 1
    BY <1>9, <2>3, <2>4
  <2>7. ASSUME o[i] < Len(bytes) PROVE bytes[o[i] + 1].at = 1 /\ bytes[o[i] + 1].record = i + 1
    <3>1. i + 1 \in 1 .. n /\ (i + 1) - 1 = i
      BY <1>1, <1>8, <2>3, <2>7
    <3>2. 1 \in 1 .. Size(records[i + 1])
      BY <1>9, <3>1
    <3>3. bytes[o[i] + 1] = RecordBytes(i + 1, records[i + 1])[1]
      BY <1>9, <3>1, <3>2
    <3> QED  BY <1>1, <3>1, <3>2, <3>3, RecordByteIs
  <2>8. InRecord(a, p, i, k)
    <3>1. i \in DOMAIN records /\ o[i] = o[i - 1] + Size(r) /\ o[i] <= Len(bytes)
      BY <1>1, <1>9, <2>3
    <3>2. \A j \in 1 .. Size(r) : bytes[o[i - 1] + j] = RecordBytes(i, r)[j]
      BY <1>9, <2>3
    <3> HIDE DEF k
    <3> QED  BY <2>5, <2>6, <2>7, <3>1, <3>2 DEF InRecord, records
  <2> QED  BY <2>8
<1> QED  BY <1>1, <1>10, <1>11 DEF records

LEMMA NumbersAre ==
  ASSUME NEW a \in Answers, NEW p \in 1 .. Len(a.bytes)
  PROVE  a.bytes[p].number \in Nat
<1>1. PICK i, k : InRecord(a, p, i, k)
  BY BytesAre
<1>2. a.records[i] \in Record /\ k \in 1 .. Size(a.records[i])
  BY <1>1, BytesAre DEF InRecord
<1>3. a.bytes[p] = RecordBytes(i, a.records[i])[k]
  <2>1. (p - k) + k = p
    BY <1>2, RecordIs
  <2> QED  BY <1>1, <1>2, <2>1 DEF InRecord
<1> QED  BY <1>2, <1>3, RecordByteIs

-----------------------------------------------------------------------------
(* Types. *)

LEMMA TotalIs == ASSUME TypeOK PROVE Total \in Nat /\ answer.bytes \in Seq(Range(answer.bytes))
BY BytesAre DEF TypeOK, Total

LEMMA PieceIs ==
  ASSUME TypeOK, NEW c \in Copies, NEW from \in 0 .. Total, NEW to \in 0 .. Total, from <= to
  PROVE  Piece(c, from, to) \in Seq(SentBytes)
<1>1. Total \in Nat
  BY TotalIs
<1>2. \A k \in 1 .. to - from : [copy |-> c, at |-> from + k] \in SentBytes
  BY <1>1 DEF SentBytes
<1>3. to - from \in Nat
  BY <1>1
<1> HIDE DEF SentBytes
<1> QED  BY <1>2, <1>3 DEF Piece

\* A header that is there consists of numbers.
LEMMA HeaderIs ==
  ASSUME TypeOK, NEW c \in Copies, Consuming(c)
  PROVE  /\ TheHeader.contentLength \in Nat /\ TheHeader.paddingLength \in Nat
         /\ Len(buffer) \in Nat /\ Len(buffer) > HeaderSize
<1>1. Len(buffer) \in Nat /\ Len(buffer) > HeaderSize
  BY DEF Consuming, TypeOK
<1>2. ASSUME NEW k \in 1 .. HeaderSize PROVE Byte(buffer[k]).number \in Nat
  <2>1. buffer[k] \in SentBytes
    BY <1>1 DEF TypeOK, HeaderSize
  <2>2. buffer[k].at \in DOMAIN answer.bytes
    BY <2>1, TotalIs DEF SentBytes, Total
  <2>3. answer.bytes[buffer[k].at].number \in Nat
    <3>1. buffer[k].at \in 1 .. Len(answer.bytes)
      BY <2>1 DEF SentBytes, Total
    <3> QED  BY <3>1, NumbersAre DEF TypeOK
  <2> QED  BY <2>3, Zenon DEF Byte
<1>3. /\ Byte(buffer[5]).number \in Nat /\ Byte(buffer[6]).number \in Nat
      /\ Byte(buffer[7]).number \in Nat
  BY <1>2 DEF HeaderSize
<1>4. /\ TheHeader.contentLength = 256 * Byte(buffer[5]).number + Byte(buffer[6]).number
      /\ TheHeader.paddingLength = Byte(buffer[7]).number
  BY DEF TheHeader, GetHeader, HeaderSize
<1> QED  BY <1>1, <1>3, <1>4

\* What a step leaves alone keeps its type.
LEMMA TypeInit == Init => TypeOK
<1> SUFFICES ASSUME Init PROVE TypeOK
  OBVIOUS
<1>1. answer \in Answers /\ Total \in Nat
  BY BytesAre DEF Init, Total
<1>2. DOMAIN prov = Copies
  BY DEF Init
<1>3. ASSUME NEW c \in Copies
      PROVE  /\ DOMAIN prov[c] = DOMAIN NewProvider
             /\ Stage(c) \in {"None", "Connected"}
             /\ prov[c].end = FALSE /\ prov[c].isStderr = FALSE
             /\ prov[c].provided = FALSE /\ prov[c].asked = FALSE
  BY DEF Init, NewProvider, Stage
<1>4. \A c \in Copies :
       {prov[c].end, prov[c].isStderr, prov[c].provided, prov[c].asked} \subseteq BOOLEAN
  BY <1>3
<1>5. buffer \in Seq(SentBytes) /\ out \in Seq(SentBytes)
  BY DEF Init
<1>6. arrived \in [Copies -> 0 .. Total] /\ got \in [Copies -> 0 .. Total] /\ \A c \in Copies : got[c] <= arrived[c]
  BY <1>1 DEF Init
<1>7. eof \in [Copies -> BOOLEAN] /\ cut \in BOOLEAN /\ pc[1] = "rest"
  BY DEF Init
<1> QED  BY <1>1, <1>2, <1>3, <1>4, <1>5, <1>6, <1>7 DEF TypeOK

\* A provider one member of which is changed.
IsProvider(p) ==
  /\ DOMAIN p = DOMAIN NewProvider
  /\ p.stage \in {"None", "Connected", "Recving", "Forwarding", "Done"}
  /\ {p.end, p.isStderr, p.provided, p.asked} \subseteq BOOLEAN

LEMMA ProvidersAre ==
  ASSUME TypeOK PROVE DOMAIN prov = Copies /\ \A c \in Copies : IsProvider(prov[c])
BY DEF TypeOK, IsProvider, Stage

\* The steps change no provider, or one, which stays a provider and provided
\* what it had.
Touches(c) ==
  /\ DOMAIN prov' = Copies
  /\ \A d \in Copies : d # c => prov'[d] = prov[d]
  /\ IsProvider(prov'[c])

LEMMA ProvidersStay ==
  ASSUME TypeOK, NEW c \in Copies, Touches(c) \/ prov' = prov
  PROVE  DOMAIN prov' = Copies /\ \A d \in Copies : IsProvider(prov'[d])
BY ProvidersAre DEF Touches

LEMMA Touched ==
  ASSUME TypeOK, NEW c \in Copies, Poll(c) \/ Gateway(c)
  PROVE  /\ Touches(c) \/ prov' = prov
         /\ Provide(c) \/ \A d \in Copies : prov'[d].provided = prov[d].provided
<1>1. DOMAIN prov = Copies /\ IsProvider(prov[c])
  BY ProvidersAre
<1>2. CASE MakeRequest(c)
  <2> DEFINE empty == buffer = <<>>
  <2>1. empty \in BOOLEAN
    OBVIOUS
  <2>2. prov' = [prov EXCEPT ![c].stage = "Recving", ![c].asked = empty]
    BY <1>2 DEF MakeRequest
  <2> HIDE DEF empty
  <2> QED  BY <1>1, <2>1, <2>2 DEF Touches, IsProvider, NewProvider
<1>3. CASE ConsumeEmpty(c)
  BY <1>1, <1>3 DEF ConsumeEmpty, Touches, IsProvider, NewProvider
<1>4. CASE Consume(c)
  <2>1. \/ prov' = prov
        \/ prov' = [prov EXCEPT ![c].isStderr = TRUE, ![c].code = 400]
    BY <1>4 DEF Consume
  <2>2. CASE prov' = [prov EXCEPT ![c].isStderr = TRUE, ![c].code = 400]
    BY <1>1, <2>2 DEF Touches, IsProvider, NewProvider
  <2> QED  BY <2>1, <2>2
<1>5. CASE Judge(c)
  <2>1. prov' = prov \/ prov' = [prov EXCEPT ![c].stage = "Forwarding"]
    BY <1>5 DEF Judge
  <2> QED  BY <1>1, <2>1 DEF Touches, IsProvider, NewProvider
<1>6. CASE EndLine(c)
  <2> DEFINE N == Codes[local.value[1]]
             F == {x \in prov[c].fields : x[1] # local.key} \cup {<<local.key, local.value>>}
  <2>1. \/ prov' = [prov EXCEPT ![c].code = N]
        \/ prov' = [prov EXCEPT ![c].fields = F]
    BY <1>6 DEF EndLine, Entered
  <2> HIDE DEF N, F
  <2>2. CASE prov' = [prov EXCEPT ![c].code = N]
    BY <1>1, <2>2 DEF Touches, IsProvider, NewProvider
  <2>3. CASE prov' = [prov EXCEPT ![c].fields = F]
    BY <1>1, <2>3 DEF Touches, IsProvider, NewProvider
  <2> QED  BY <2>1, <2>2, <2>3
<1>7. CASE Provide(c)
  <2>1. \E s \in {"Done", prov[c].stage} :
          prov' = [prov EXCEPT ![c].provided = TRUE, ![c].stage = s]
    BY <1>7 DEF Provide
  <2> QED  BY <1>1, <1>7, <2>1 DEF Touches, IsProvider, NewProvider
<1>8. CASE UNCHANGED prov
  BY <1>8
<1> QED
  BY <1>2, <1>3, <1>4, <1>5, <1>6, <1>7, <1>8
  DEF Poll, Gateway, ReadEvent, ReceiveAgain, Receive, ThrowAtPadding, Spin, Garbled,
      ConsumeReturns, Scan, ThrowAtStatus, ParseReturns, Hangup, Arrive

\* The buffers stay sequences of bytes that were sent.
LEMMA BuffersStay ==
  ASSUME TypeOK, NEW c \in Copies, Poll(c) \/ Gateway(c)
  PROVE  buffer' \in Seq(SentBytes) /\ out' \in Seq(SentBytes)
<1>0. buffer \in Seq(SentBytes) /\ out \in Seq(SentBytes)
  BY DEF TypeOK
<1>1. CASE MakeRequest(c)
  BY <1>0, <1>1 DEF MakeRequest
<1>2. CASE Receive(c)
  <2>1. Piece(c, got[c], arrived[c]) \in Seq(SentBytes)
    <3>1. got[c] \in 0 .. Total /\ arrived[c] \in 0 .. Total /\ got[c] <= arrived[c]
      BY DEF TypeOK
    <3> QED  BY <3>1, PieceIs
  <2> HIDE DEF SentBytes
  <2> QED  BY <1>0, <1>2, <2>1 DEF Receive
<1>3. CASE ConsumeEmpty(c)
  BY <1>0, <1>3, HeaderIs DEF ConsumeEmpty, Dropped, HeaderSize
<1>4. CASE Consume(c)
  <2> DEFINE n == TheHeader.contentLength
             content == SubSeq(buffer, HeaderSize + 1, HeaderSize + n)
  <2>1. n \in Nat /\ TheHeader.paddingLength \in Nat /\ Len(buffer) >= HeaderSize + n
    BY <1>4, HeaderIs DEF Consume, Whole
  <2>2. content \in Seq(SentBytes)
    <3> HIDE DEF n, SentBytes
    <3> QED  BY <1>0, <2>1 DEF HeaderSize
  <2>3. buffer' = SubSeq(buffer, RecordSize(TheHeader) + 1, Len(buffer))
    BY <1>4 DEF Consume, Dropped
  <2>4. RecordSize(TheHeader) \in Nat
    BY <2>1 DEF RecordSize, HeaderSize
  <2>5. out' \in {<<>> \o content, out \o content, out}
    BY <1>4 DEF Consume
  <2> HIDE DEF content, SentBytes
  <2>6. out' \in Seq(SentBytes)
    <3>1. <<>> \o content \in Seq(SentBytes) /\ out \o content \in Seq(SentBytes)
      BY <1>0, <2>2
    <3> QED  BY <1>0, <2>5, <3>1
  <2>7. buffer' \in Seq(SentBytes)
    <3> DEFINE m == RecordSize(TheHeader)
    <3>1. m \in Nat /\ buffer' = SubSeq(buffer, m + 1, Len(buffer))
      BY <2>3, <2>4
    <3> HIDE DEF m
    <3> QED  BY <1>0, <3>1
  <2> QED  BY <2>6, <2>7
<1>5. CASE Scan(c)
  <2>1. buffer' = buffer /\ out' = Tail(out) /\ out # <<>>
    BY <1>0, <1>5 DEF Scan, Parsing
  <2> HIDE DEF SentBytes
  <2> QED  BY <1>0, <2>1
<1>6. CASE EndLine(c)
  <2>1. buffer' = buffer /\ \E m \in {2, 3} : out' = SubSeq(out, m, Len(out))
    BY <1>6 DEF EndLine
  <2> HIDE DEF SentBytes
  <2> QED  BY <1>0, <2>1
<1>7. CASE Provide(c)
  <2>1. PICK room \in Rooms :
          out' = Rest(IF Len(out) < room THEN Len(out) ELSE room)
    BY <1>7 DEF Provide
  <2>2. room \in Nat
    BY RoomAssumption
  <2>3. buffer' = buffer
    BY <1>7 DEF Provide
  <2> HIDE DEF SentBytes
  <2> QED  BY <1>0, <2>1, <2>2, <2>3 DEF Rest
<1>8. CASE UNCHANGED <<buffer, out>>
  BY <1>0, <1>8
<1> QED
  BY <1>1, <1>2, <1>3, <1>4, <1>5, <1>6, <1>7, <1>8
  DEF Poll, Gateway, ReadEvent, ReceiveAgain, ThrowAtPadding, Spin, Garbled, ConsumeReturns,
      Judge, ThrowAtStatus, ParseReturns, Hangup, Arrive

\* What arrives is part of the answer and what is got has arrived.
LEMMA ArrivalsStay ==
  ASSUME TypeOK, NEW c \in Copies, Poll(c) \/ Gateway(c)
  PROVE  /\ arrived' \in [Copies -> 0 .. Total] /\ got' \in [Copies -> 0 .. Total]
         /\ \A d \in Copies : got'[d] <= arrived'[d]
         /\ eof' \in [Copies -> BOOLEAN] /\ cut' \in BOOLEAN
<1>0. /\ arrived \in [Copies -> 0 .. Total] /\ got \in [Copies -> 0 .. Total]
      /\ \A d \in Copies : got[d] <= arrived[d]
      /\ eof \in [Copies -> BOOLEAN] /\ cut \in BOOLEAN /\ Total \in Nat
  BY TotalIs DEF TypeOK
<1>1. ASSUME NEW n \in 1 .. Total, Arrive(c, n)
      PROVE  /\ arrived' \in [Copies -> 0 .. Total] /\ got' = got /\ eof' = eof /\ cut' = cut
             /\ \A d \in Copies : got'[d] <= arrived'[d]
  <2>1. arrived[c] + n \in 1 .. Total
    BY <1>1, AnswersAssumption DEF Arrive, TypeOK, Total
  <2> QED  BY <1>0, <1>1, <2>1 DEF Arrive
<1>2. CASE Hangup(c)
  BY <1>0, <1>2 DEF Hangup
<1>3. CASE Receive(c)
  <2>1. UNCHANGED <<arrived, eof>> /\ got' = [got EXCEPT ![c] = arrived[c]]
    BY <1>3 DEF Receive
  <2>2. cut' \in BOOLEAN
    BY <1>3 DEF Receive
  <2> QED  BY <1>0, <2>1, <2>2
<1>4. CASE UNCHANGED <<arrived, got, eof, cut>>
  BY <1>0, <1>4
<1> QED
  BY <1>0, <1>1, <1>2, <1>3, <1>4
  DEF Poll, Gateway, MakeRequest, ReadEvent, ReceiveAgain, ConsumeEmpty, Consume,
      ThrowAtPadding, Spin, Garbled, ConsumeReturns, Judge, Scan, EndLine, ThrowAtStatus,
      ParseReturns, Provide

Places == {"rest", "consume", "judge", "parse", "receive", "provide", "spin", "thrown", "garbled",
           "unread"}

LEMMA PlacesStay ==
  ASSUME pc[1] \in Places, NEW c \in Copies, Poll(c) \/ Gateway(c)
  PROVE  pc'[1] \in Places /\ answer' = answer
<1>1. answer' = answer
  BY DEF Poll, Gateway, MakeRequest, ReadEvent, ReceiveAgain, Receive, ConsumeEmpty, Consume,
         ThrowAtPadding, Spin, Garbled, ConsumeReturns, Judge, Scan, EndLine, ThrowAtStatus,
         ParseReturns, Provide, Hangup, Arrive
<1>2. CASE Judge(c)
  BY <1>2 DEF Judge, Places
<1>3. CASE ConsumeReturns(c)
  BY <1>3 DEF ConsumeReturns, Places
<1>4. CASE ~(Judge(c) \/ ConsumeReturns(c))
  BY <1>4
  DEF Poll, Gateway, MakeRequest, ReadEvent, ReceiveAgain, Receive, ConsumeEmpty, Consume,
      ThrowAtPadding, Spin, Garbled, Scan, EndLine, ThrowAtStatus,
      ParseReturns, Provide, Hangup, Arrive, Places
<1> QED  BY <1>1, <1>2, <1>3, <1>4

LEMMA TypeNext == TypeOK /\ [Next]_vars => TypeOK'
<1> SUFFICES ASSUME TypeOK, [Next]_vars PROVE TypeOK'
  OBVIOUS
<1>1. ASSUME NEW c \in Copies, Poll(c) \/ Gateway(c) PROVE TypeOK'
  <2>1. pc'[1] \in Places /\ answer' = answer
    BY <1>1, PlacesStay DEF TypeOK, Places
  <2>2. Total' = Total /\ SentBytes' = SentBytes
    BY <2>1 DEF Total, SentBytes
  <2>3. DOMAIN prov' = Copies /\ \A d \in Copies : IsProvider(prov'[d])
    BY <1>1, Touched, ProvidersStay
  <2>4. buffer' \in Seq(SentBytes) /\ out' \in Seq(SentBytes)
    BY <1>1, BuffersStay
  <2>5. /\ arrived' \in [Copies -> 0 .. Total] /\ got' \in [Copies -> 0 .. Total]
        /\ \A d \in Copies : got'[d] <= arrived'[d]
        /\ eof' \in [Copies -> BOOLEAN] /\ cut' \in BOOLEAN
    BY <1>1, ArrivalsStay
  <2> QED  BY <2>1, <2>2, <2>3, <2>4, <2>5 DEF TypeOK, IsProvider, Stage, Places
<1>2. CASE UNCHANGED vars
  BY <1>2 DEF vars, TypeOK, Stage, SentBytes, Total
<1> QED  BY <1>1, <1>2 DEF Next

\* What poll() reads was sent and has arrived, and the buffers the copies share
\* hold bytes of the answer and nothing else, whatever the pieces.
THEOREM TypeCorrect == Spec => []TypeOK
BY TypeInit, TypeNext, PTL DEF Spec

-----------------------------------------------------------------------------
(* Heads. *)

HeadsOf(s) == {k \in DOMAIN s : s[k][1] # "byte"}
Told == {c \in Copies : prov[c].provided}

\* The induction: TypeOK and HeadPerCopy with what Cardinality needs.
Counted ==
  /\ TypeOK
  /\ IsSequence(client)
  /\ IsFiniteSet(HeadsOf(client))
  /\ Cardinality(HeadsOf(client)) = Cardinality(Told)
  /\ client # <<>> => client[1][1] \in {"head", "error"}

LEMMA ToldIsFinite == IsFiniteSet(Told)
BY CopiesAssumption, FS_Subset DEF Told

\* Bytes are no heads.
LEMMA BytesAddNone ==
  ASSUME NEW s, IsSequence(s), NEW t, IsSequence(t), \A k \in 1 .. Len(t) : t[k][1] = "byte"
  PROVE  HeadsOf(s \o t) = HeadsOf(s)
<1>1. /\ IsSequence(s \o t) /\ Len(s \o t) = Len(s) + Len(t)
      /\ \A i \in 1 .. Len(s) : (s \o t)[i] = s[i]
      /\ \A i \in 1 .. Len(t) : (s \o t)[Len(s) + i] = t[i]
  BY Concatenated
<1>2. Len(s) \in Nat /\ Len(t) \in Nat /\ DOMAIN s = 1 .. Len(s)
      /\ DOMAIN (s \o t) = 1 .. Len(s) + Len(t)
  BY <1>1, LengthIs DEF IsSequence
<1>3. ASSUME NEW k \in Len(s) + 1 .. Len(s) + Len(t) PROVE (s \o t)[k][1] = "byte"
  <2>1. k - Len(s) \in 1 .. Len(t) /\ Len(s) + (k - Len(s)) = k
    BY <1>2
  <2> QED  BY <1>1, <2>1
<1>4. ASSUME NEW k \in 1 .. Len(s) PROVE (s \o t)[k] = s[k]
  BY <1>1
<1>5. \A k \in 1 .. Len(s) + Len(t) : k \in 1 .. Len(s) \/ k \in Len(s) + 1 .. Len(s) + Len(t)
  BY <1>2
<1>6. \A k \in 1 .. Len(s) : k \in 1 .. Len(s) + Len(t)
  BY <1>2
<1> QED  BY <1>2, <1>3, <1>4, <1>5, <1>6 DEF HeadsOf

\* A head is one.
LEMMA HeadAddsOne ==
  ASSUME NEW s, IsSequence(s), NEW e, e[1] # "byte"
  PROVE  /\ HeadsOf(s \o <<e>>) = HeadsOf(s) \cup {Len(s) + 1}
         /\ Len(s) + 1 \notin HeadsOf(s)
<1>1. IsSequence(<<e>>) /\ Len(<<e>>) = 1 /\ <<e>>[1] = e
  <2>1. <<e>> \in Seq({e})
    OBVIOUS
  <2> QED  BY <2>1 DEF IsSequence
<1>2. /\ IsSequence(s \o <<e>>) /\ Len(s \o <<e>>) = Len(s) + 1
      /\ \A i \in 1 .. Len(s) : (s \o <<e>>)[i] = s[i]
      /\ (s \o <<e>>)[Len(s) + 1] = e
  BY <1>1, Concatenated
<1> DEFINE t == s \o <<e>>
<1>3. Len(s) \in Nat /\ DOMAIN s = 1 .. Len(s) /\ DOMAIN t = 1 .. Len(s) + 1
  BY <1>2, LengthIs DEF IsSequence
<1>4. /\ \A i \in 1 .. Len(s) : t[i] = s[i]
      /\ t[Len(s) + 1] = e
  BY <1>2
<1> HIDE DEF t
<1>5. \A k \in 1 .. Len(s) + 1 : k \in 1 .. Len(s) \/ k = Len(s) + 1
  BY <1>3
<1>6. Len(s) + 1 \in 1 .. Len(s) + 1 /\ Len(s) + 1 \notin 1 .. Len(s)
  BY <1>3
<1>7. \A k \in 1 .. Len(s) : k \in 1 .. Len(s) + 1
  BY <1>3
<1>8. HeadsOf(t) = HeadsOf(s) \cup {Len(s) + 1}
  BY <1>3, <1>4, <1>5, <1>6, <1>7 DEF HeadsOf
<1> QED  BY <1>3, <1>6, <1>8 DEF HeadsOf, t

LEMMA InitCounted == Init => Counted
<1> SUFFICES ASSUME Init PROVE Counted
  OBVIOUS
<1>1. client = <<>> /\ DOMAIN client = {}
  BY DEF Init
<1>2. HeadsOf(client) = {}
  BY <1>1 DEF HeadsOf
<1>3. Told = {}
  BY DEF Init, Told, NewProvider
<1> QED  BY <1>1, <1>2, <1>3, TypeInit, EmptyIs, FS_EmptySet DEF Counted

\* What provide() writes: its head once and then bytes.
LEMMA ProvideCounts ==
  ASSUME Counted, NEW c \in Copies, Provide(c)
  PROVE  Counted'
<1>0. TypeOK /\ TypeOK' /\ IsSequence(client) /\ out \in Seq(SentBytes)
  BY TypeNext DEF Counted, TypeOK, Next, Poll
<1>1. PICK n \in Nat :
        /\ client' = client \o Opening(c) \o [k \in 1 .. n |-> <<"byte", out[k]>>]
        /\ \E s : prov' = [prov EXCEPT ![c].provided = TRUE, ![c].stage = s]
  <2>1. PICK room \in Rooms :
          LET n == IF Len(out) < room THEN Len(out) ELSE room
          IN  /\ client' = client \o Opening(c) \o [k \in 1 .. n |-> <<"byte", out[k]>>]
              /\ prov' = [prov EXCEPT ![c].provided = TRUE,
                                      ![c].stage = IF ForwardEnd(c, n) THEN "Done" ELSE @]
    BY DEF Provide
  <2>2. (IF Len(out) < room THEN Len(out) ELSE room) \in Nat
    BY <1>0, RoomAssumption
  <2> QED  BY <2>1, <2>2
<1> DEFINE bytes == [k \in 1 .. n |-> <<"byte", out[k]>>]
           begun == client \o Opening(c)
<1>2. IsSequence(bytes) /\ Len(bytes) = n /\ \A k \in 1 .. Len(bytes) : bytes[k][1] = "byte"
  <2>1. bytes \in Seq({<<"byte", out[k]>> : k \in 1 .. n}) /\ Len(bytes) = n
    OBVIOUS
  <2>2. \A k \in 1 .. n : bytes[k][1] = "byte"
    OBVIOUS
  <2> HIDE DEF bytes
  <2> QED  BY <2>1, <2>2 DEF IsSequence
<1>3. DOMAIN prov = Copies /\ IsProvider(prov[c])
  BY <1>0, ProvidersAre
<1>4. Told' = Told \cup {c}
  BY <1>1, <1>3 DEF Told, IsProvider, NewProvider
<1>5. /\ IsSequence(begun)
      /\ IsFiniteSet(HeadsOf(begun)) /\ Cardinality(HeadsOf(begun)) = Cardinality(Told')
      /\ begun # <<>> => begun[1][1] \in {"head", "error"}
      /\ Len(begun) >= 1
  <2>1. CASE prov[c].provided
    <3>1. Opening(c) = <<>> /\ begun = client
      <4>1. Opening(c) = <<>>
        BY <2>1 DEF Opening
      <4>2. client \o <<>> = client
        BY <1>0 DEF IsSequence
      <4> QED  BY <4>1, <4>2
    <3>2. Told' = Told /\ c \in Told
      BY <1>4, <2>1 DEF Told
    <3>3. Cardinality(Told) # 0
      BY <3>2, ToldIsFinite, FS_EmptySet
    <3>4. client # <<>>
      <4>1. ASSUME client = <<>> PROVE FALSE
        <5>1. DOMAIN client = {}
          BY <4>1
        <5>2. HeadsOf(client) = {}
          BY <5>1 DEF HeadsOf
        <5> QED  BY <3>3, <5>2, FS_EmptySet DEF Counted
      <4> QED  BY <4>1
    <3>5. Len(client) >= 1
      BY <1>0, <3>4, LengthIs, NoneLeft
    <3> QED  BY <1>0, <3>1, <3>2, <3>5 DEF Counted
  <2>2. CASE ~prov[c].provided
    <3>1. PICK e : Opening(c) = <<e>> /\ e[1] \in {"head", "error"}
      <4>1. CASE prov[c].isStderr
        BY <2>2, <4>1 DEF Opening
      <4>2. CASE ~prov[c].isStderr
        BY <2>2, <4>2 DEF Opening
      <4> QED  BY <4>1, <4>2
    <3>2. /\ HeadsOf(begun) = HeadsOf(client) \cup {Len(client) + 1}
          /\ Len(client) + 1 \notin HeadsOf(client)
      BY <1>0, <3>1, HeadAddsOne
    <3>3. IsFiniteSet(HeadsOf(begun)) /\ Cardinality(HeadsOf(begun)) = Cardinality(HeadsOf(client)) + 1
      BY <3>2, FS_AddElement DEF Counted
    <3>4. c \notin Told /\ Cardinality(Told') = Cardinality(Told) + 1
      <4>1. c \notin Told
        BY <2>2 DEF Told
      <4> QED  BY <1>4, <4>1, ToldIsFinite, FS_AddElement
    <3>5. IsSequence(<<e>>) /\ Len(<<e>>) = 1 /\ <<e>>[1] = e
      <4>1. <<e>> \in Seq({e})
        OBVIOUS
      <4> QED  BY <4>1 DEF IsSequence
    <3>6. /\ IsSequence(begun) /\ Len(begun) = Len(client) + 1
          /\ \A i \in 1 .. Len(client) : begun[i] = client[i]
          /\ begun[Len(client) + 1] = e
      BY <1>0, <3>1, <3>5, Concatenated
    <3>7. begun[1][1] \in {"head", "error"}
      <4>1. CASE client = <<>>
        BY <3>1, <3>6, <4>1, EmptyIs
      <4>2. CASE client # <<>>
        <5>1. 1 \in 1 .. Len(client)
          BY <1>0, <4>2, LengthIs, NoneLeft
        <5> QED  BY <3>6, <4>2, <5>1 DEF Counted
      <4> QED  BY <4>1, <4>2
    <3>8. Len(begun) >= 1
      BY <1>0, <3>6, LengthIs
    <3> QED  BY <3>3, <3>4, <3>6, <3>7, <3>8 DEF Counted
  <2> QED  BY <2>1, <2>2
<1>6. client' = begun \o bytes
  BY <1>1
<1> HIDE DEF begun, bytes
<1>7. HeadsOf(client') = HeadsOf(begun)
  BY <1>2, <1>5, <1>6, BytesAddNone
<1>8. IsSequence(client') /\ client'[1] = begun[1]
  <2>1. 1 \in 1 .. Len(begun)
    BY <1>5, LengthIs
  <2> QED  BY <1>2, <1>5, <1>6, <2>1, Concatenated
<1>9. begun # <<>>
  BY <1>5, EmptyIs
<1>10. HeadsOf(client)' = HeadsOf(client')
  BY DEF HeadsOf
<1> QED  BY <1>0, <1>5, <1>7, <1>8, <1>9, <1>10 DEF Counted

LEMMA NextCounted == Counted /\ [Next]_vars => Counted'
<1> SUFFICES ASSUME Counted, [Next]_vars PROVE Counted'
  OBVIOUS
<1>0. TypeOK /\ TypeOK'
  BY TypeNext DEF Counted
<1>1. ASSUME NEW c \in Copies, Poll(c) \/ Gateway(c) PROVE Counted'
  <2>1. CASE Provide(c)
    BY <2>1, ProvideCounts
  <2>2. CASE ~Provide(c)
    <3>1. \A d \in Copies : prov'[d].provided = prov[d].provided
      BY <1>0, <1>1, <2>2, Touched
    <3>2. client' = client
      BY <1>1, <2>2
      DEF Poll, Gateway, MakeRequest, ReadEvent, ReceiveAgain, Receive, ConsumeEmpty,
          Consume, ThrowAtPadding, Spin, Garbled, ConsumeReturns, Judge, Scan, EndLine,
          ThrowAtStatus, ParseReturns, Hangup, Arrive
    <3>3. Told' = Told /\ HeadsOf(client)' = HeadsOf(client)
      BY <3>1, <3>2 DEF Told, HeadsOf
    <3> QED  BY <1>0, <3>2, <3>3 DEF Counted
  <2> QED  BY <2>1, <2>2
<1>2. CASE UNCHANGED vars
  BY <1>0, <1>2 DEF vars, Counted, Told, HeadsOf
<1> QED  BY <1>1, <1>2 DEF Next

\* The client is told one head, or one error page, by each copy that has
\* provided anything, and nothing comes before the first.
THEOREM HeadsCounted == Spec => []HeadPerCopy
<1>1. Init => Counted
  BY InitCounted
<1>2. Counted /\ [Next]_vars => Counted'
  BY NextCounted
<1>3. Counted => HeadPerCopy
  BY DEF Counted, HeadPerCopy, HeadsOf, Told
<1> QED  BY <1>1, <1>2, <1>3, PTL DEF Spec

-----------------------------------------------------------------------------
(* Whole records. *)

TheRecord(p) == answer.records[answer.bytes[p].record]
Before(p) == p - answer.bytes[p].at

\* A byte is in a record that is there as a whole, and behind which another
\* starts.
LEMMA Located ==
  ASSUME TypeOK, NEW p \in 1 .. Total
  PROVE  /\ TheRecord(p) \in Record /\ answer.bytes[p].at \in 1 .. Size(TheRecord(p))
         /\ Before(p) \in Nat /\ Before(p) + answer.bytes[p].at = p
         /\ Size(TheRecord(p)) \in Nat /\ Size(TheRecord(p)) >= 8
         /\ Before(p) + Size(TheRecord(p)) <= Total
         /\ \A j \in 1 .. Size(TheRecord(p)) :
              answer.bytes[Before(p) + j] = RecordBytes(answer.bytes[p].record, TheRecord(p))[j]
         /\ Before(p) + Size(TheRecord(p)) < Total =>
              LET next == answer.bytes[Before(p) + Size(TheRecord(p)) + 1]
              IN  next.at = 1 /\ next.record = answer.bytes[p].record + 1
         /\ answer.bytes[p].record \in DOMAIN answer.records
         /\ p = 1 => answer.bytes[p].at = 1
<1>1. answer \in Answers /\ p \in 1 .. Len(answer.bytes) /\ Total = Len(answer.bytes)
  BY DEF TypeOK, Total
<1>2. PICK i, k : InRecord(answer, p, i, k)
  BY <1>1, BytesAre
<1> DEFINE r == answer.records[i]
<1>3. i \in DOMAIN answer.records /\ k \in 1 .. Size(r) /\ k <= p
  BY <1>2 DEF InRecord
<1>4. r \in Record
  <2>1. answer.records \in Seq(Record)
    BY <1>1, BytesAre
  <2> QED  BY <1>3, <2>1
<1>5. Size(r) \in Nat /\ Size(r) >= 8
  BY <1>4, RecordIs DEF HeaderSize
<1>6. (p - k) + k = p /\ p - k \in Nat
  BY <1>1, <1>3, <1>5
<1>7. answer.bytes[p] = RecordBytes(i, r)[k]
  BY <1>2, <1>3, <1>6 DEF InRecord
<1>8. answer.bytes[p].record = i /\ answer.bytes[p].at = k
  BY <1>3, <1>4, <1>7, RecordByteIs
<1>9. TheRecord(p) = r /\ Before(p) = p - k
  BY <1>8 DEF TheRecord, Before
<1>10. /\ (p - k) + Size(r) <= Total
       /\ \A j \in 1 .. Size(r) : answer.bytes[(p - k) + j] = RecordBytes(i, r)[j]
       /\ (p - k) + Size(r) < Total =>
            /\ answer.bytes[(p - k) + Size(r) + 1].at = 1
            /\ answer.bytes[(p - k) + Size(r) + 1].record = i + 1
       /\ p = 1 => k = 1
  BY <1>1, <1>2 DEF InRecord
<1> HIDE DEF r
<1> QED  BY <1>3, <1>4, <1>5, <1>6, <1>8, <1>9, <1>10

\* The bytes of a record know each other.
LEMMA SameRecord ==
  ASSUME TypeOK, NEW p \in 1 .. Total, NEW j \in 1 .. Size(TheRecord(p))
  PROVE  LET q == Before(p) + j
             b == answer.bytes[q]
             r == TheRecord(p)
         IN  /\ q \in 1 .. Total
             /\ TheRecord(q) = r /\ Before(q) = Before(p)
             /\ b.at = j /\ b.type = r.type /\ b.record = answer.bytes[p].record
             /\ b.last <=> j = Size(r)
             /\ b.content <=> j > HeaderSize /\ j <= HeaderSize + Len(r.content)
             /\ j <= HeaderSize => b.number = MakeHeader(r.type, Len(r.content), r.padding)[j]
<1> DEFINE q == Before(p) + j
           b == answer.bytes[q]
           r == TheRecord(p)
<1>1. /\ r \in Record /\ Before(p) \in Nat /\ Size(r) \in Nat /\ Before(p) + Size(r) <= Total
      /\ b = RecordBytes(answer.bytes[p].record, r)[j]
  BY Located
<1>2. /\ b.record = answer.bytes[p].record /\ b.at = j /\ b.type = r.type
      /\ b.last <=> j = Size(r)
      /\ b.content <=> j > HeaderSize /\ j <= HeaderSize + Len(r.content)
      /\ j <= HeaderSize => b.number = MakeHeader(r.type, Len(r.content), r.padding)[j]
  BY <1>1, RecordByteIs
<1>3. q \in 1 .. Total
  BY <1>1, TotalIs
<1>4. q - j = Before(p)
  BY <1>1
<1>5. TheRecord(q) = r /\ Before(q) = Before(p)
  BY <1>2, <1>4 DEF TheRecord, Before
<1> QED  BY <1>2, <1>3, <1>5

\* The copy's bytes up to p end with a record.
AtRecord(p) == p = 0 \/ answer.bytes[p].last

\* Where records end, the next one starts.
LEMMA NextStarts ==
  ASSUME TypeOK, NEW p \in 0 .. Total, p < Total, AtRecord(p)
  PROVE  p + 1 \in 1 .. Total /\ answer.bytes[p + 1].at = 1 /\ Before(p + 1) = p
<1>0. Total \in Nat /\ p + 1 \in 1 .. Total
  BY TotalIs
<1>1. CASE p = 0
  BY <1>0, <1>1, Located DEF Before
<1>2. CASE p # 0
  <2>1. p \in 1 .. Total /\ answer.bytes[p].last
    BY <1>0, <1>2 DEF AtRecord
  <2>2. /\ answer.bytes[p].at \in 1 .. Size(TheRecord(p))
        /\ Before(p) + answer.bytes[p].at = p
        /\ Before(p) + Size(TheRecord(p)) < Total =>
              answer.bytes[Before(p) + Size(TheRecord(p)) + 1].at = 1
    BY <2>1, Located
  <2>3. answer.bytes[p].at = Size(TheRecord(p))
    BY <2>1, <2>2, SameRecord
  <2>4. answer.bytes[p + 1].at = 1
    BY <2>2, <2>3
  <2> QED  BY <1>0, <2>4 DEF Before
<1> QED  BY <1>1, <1>2

\* No record goes on where records end.
LEMMA NoneAcross ==
  ASSUME TypeOK, NEW p \in 1 .. Total, NEW q \in 0 .. Total, AtRecord(q)
  PROVE  q <= Before(p) \/ q >= Before(p) + Size(TheRecord(p))
<1>1. Before(p) \in Nat /\ Size(TheRecord(p)) \in Nat /\ Total \in Nat
  BY Located, TotalIs
<1> SUFFICES ASSUME q > Before(p), q < Before(p) + Size(TheRecord(p)) PROVE FALSE
  BY <1>1
<1> DEFINE j == q - Before(p)
<1>2. j \in 1 .. Size(TheRecord(p)) /\ Before(p) + j = q /\ j # Size(TheRecord(p)) /\ q # 0
  BY <1>1
<1> HIDE DEF j
<1>3. ~answer.bytes[q].last
  BY <1>2, SameRecord
<1> QED  BY <1>2, <1>3 DEF AtRecord

\* The record in which byte k of s is, is in s as a whole.
WholeAt(s, k) ==
  LET p == s[k].at
      before == k - answer.bytes[p].at
  IN  /\ before >= 0 /\ before + Size(TheRecord(p)) <= Len(s)
      /\ \A j \in 1 .. Size(TheRecord(p)) : s[before + j] = [copy |-> s[k].copy, at |-> Before(p) + j]
WholeRecords(s) == \A k \in 1 .. Len(s) : WholeAt(s, k)

LEMMA PieceBytes ==
  ASSUME NEW c, NEW from \in Nat, NEW to \in Nat, from <= to
  PROVE  /\ Len(Piece(c, from, to)) = to - from
         /\ \A k \in 1 .. to - from : Piece(c, from, to)[k] = [copy |-> c, at |-> from + k]
         /\ IsSequence(Piece(c, from, to))
<1> DEFINE n == to - from
           s == Piece(c, from, to)
<1>1. n \in Nat /\ s = [k \in 1 .. n |-> [copy |-> c, at |-> from + k]]
  BY DEF Piece
<1> HIDE DEF n, s
<1>2. DOMAIN s = 1 .. n /\ \A k \in 1 .. n : s[k] = [copy |-> c, at |-> from + k]
  BY <1>1
<1> DEFINE S == {s[k] : k \in 1 .. n}
<1>3. s = [k \in 1 .. n |-> s[k]] /\ \A k \in 1 .. n : s[k] \in S
  BY <1>1, <1>2
<1> HIDE DEF S
<1>4. s \in [1 .. n -> S] /\ n \in Nat
  BY <1>1, <1>3
<1>5. s \in Seq(S) /\ Len(s) = n
  BY <1>4, <1>2
<1> QED  BY <1>2, <1>5 DEF n, s, IsSequence

\* A piece from the end of one record to the end of another consists of whole
\* ones.
LEMMA PieceIsWhole ==
  ASSUME TypeOK, NEW c, NEW from \in 0 .. Total, NEW to \in 0 .. Total, from <= to,
         AtRecord(from), AtRecord(to)
  PROVE  WholeRecords(Piece(c, from, to))
<1> DEFINE s == Piece(c, from, to)
<1>0. Total \in Nat /\ from \in Nat /\ to \in Nat
  BY TotalIs
<1>1. /\ Len(s) = to - from
      /\ \A k \in 1 .. to - from : s[k] = [copy |-> c, at |-> from + k]
  BY <1>0, PieceBytes
<1> HIDE DEF s
<1>2. ASSUME NEW k \in 1 .. Len(s) PROVE WholeAt(s, k)
  <2> DEFINE p == from + k
             r == TheRecord(p)
             at == answer.bytes[p].at
  <2>1. p \in 1 .. Total /\ k \in 1 .. to - from /\ p > from /\ p <= to
    BY <1>0, <1>1
  <2>2. s[k] = [copy |-> c, at |-> p] /\ s[k].at = p /\ s[k].copy = c
    BY <1>1, <2>1
  <2>3. at \in 1 .. Size(r) /\ Before(p) \in Nat /\ Before(p) + at = p /\ Size(r) \in Nat
    BY <2>1, Located
  <2>4. from <= Before(p) \/ from >= Before(p) + Size(r)
    BY <2>1, NoneAcross
  <2>5. to <= Before(p) \/ to >= Before(p) + Size(r)
    BY <2>1, NoneAcross
  <2> HIDE DEF p, r, at
  <2>6. from <= Before(p) /\ to >= Before(p) + Size(r)
    BY <1>0, <2>1, <2>3, <2>4, <2>5
  <2>7. k - at = Before(p) - from
    BY <1>0, <2>3 DEF p
  <2>8. k - at >= 0 /\ (k - at) + Size(r) <= Len(s)
    BY <1>0, <1>1, <2>3, <2>6, <2>7
  <2>9. ASSUME NEW j \in 1 .. Size(r)
        PROVE  s[(k - at) + j] = [copy |-> c, at |-> Before(p) + j]
    <3>1. (k - at) + j \in 1 .. to - from /\ from + ((k - at) + j) = Before(p) + j
      BY <1>0, <2>3, <2>6, <2>7
    <3> QED  BY <1>1, <3>1
  <2> QED  BY <2>2, <2>8, <2>9 DEF WholeAt, r, at
<1> QED  BY <1>2 DEF WholeRecords, s

\* Places of a record's bytes, in the sequence and behind n others.
LEMMA PlaceShifted ==
  ASSUME NEW i \in Int, NEW at \in Int, NEW size \in Int, NEW m \in Int, NEW n \in Int, NEW k \in Int,
         NEW j \in 1 .. size, n + i = k, i - at >= 0, (i - at) + size <= m
  PROVE  (i - at) + j \in 1 .. m /\ n + ((i - at) + j) = (k - at) + j
OBVIOUS

LEMMA PlaceInside ==
  ASSUME NEW n \in Int, NEW k \in Int, NEW size \in Int, NEW at \in 1 .. size, NEW m \in Int,
         NEW before \in Int, before = (n + k) - at, 1 <= k, n + k <= m, before >= 0, before < n
  PROVE  n - before \in 1 .. size /\ before + (n - before) = n /\ n \in 1 .. m
OBVIOUS

LEMMA WholeOfBoth ==
  ASSUME TypeOK, NEW s \in Seq(SentBytes), NEW t \in Seq(SentBytes), WholeRecords(s), WholeRecords(t)
  PROVE  WholeRecords(s \o t)
<1> DEFINE u == s \o t
           n == Len(s)
           m == Len(t)
<1>1. /\ Len(u) = n + m /\ n \in Nat /\ m \in Nat
      /\ \A k \in 1 .. n : u[k] = s[k]
      /\ \A k \in 1 .. m : u[n + k] = t[k]
  OBVIOUS
<1>2. \A k \in 1 .. n : s[k] \in SentBytes
  OBVIOUS
<1>3. \A k \in 1 .. m : t[k] \in SentBytes
  OBVIOUS
<1> HIDE DEF u, n, m
<1>4. ASSUME NEW k \in 1 .. n + m PROVE WholeAt(u, k)
  <2>1. CASE k \in 1 .. n
    <3> DEFINE p == s[k].at
               r == TheRecord(p)
               at == answer.bytes[p].at
    <3>1. /\ k - at >= 0 /\ (k - at) + Size(r) <= n
          /\ \A j \in 1 .. Size(r) : s[(k - at) + j] = [copy |-> s[k].copy, at |-> Before(p) + j]
      BY <2>1 DEF WholeRecords, WholeAt, n
    <3>2. p \in 1 .. Total
      BY <1>2, <2>1 DEF SentBytes
    <3>3. at \in 1 .. Size(r) /\ Size(r) \in Nat
      BY <3>2, Located
    <3>4. u[k] = s[k]
      BY <1>1, <2>1
    <3> HIDE DEF p, r, at
    <3>5. ASSUME NEW j \in 1 .. Size(r) PROVE u[(k - at) + j] = s[(k - at) + j]
      <4>1. (k - at) + j \in 1 .. n
        BY <1>1, <2>1, <3>1, <3>3
      <4> QED  BY <1>1, <4>1
    <3>6. (k - at) + Size(r) <= Len(u)
      BY <1>1, <2>1, <3>1, <3>3
    <3> QED  BY <3>1, <3>4, <3>5, <3>6 DEF WholeAt, p, r, at
  <2>2. CASE ~(k \in 1 .. n)
    <3> DEFINE i == k - n
               p == t[i].at
               r == TheRecord(p)
               at == answer.bytes[p].at
    <3>0. i \in 1 .. m /\ n + i = k
      BY <1>1, <2>2
    <3> HIDE DEF i
    <3>1. /\ i - at >= 0 /\ (i - at) + Size(r) <= m
          /\ \A j \in 1 .. Size(r) : t[(i - at) + j] = [copy |-> t[i].copy, at |-> Before(p) + j]
      BY <3>0 DEF WholeRecords, WholeAt, m
    <3>2. p \in 1 .. Total
      BY <1>3, <3>0 DEF SentBytes
    <3>3. at \in 1 .. Size(r) /\ Size(r) \in Nat
      BY <3>2, Located
    <3>4. u[k] = t[i]
      BY <1>1, <3>0
    <3> HIDE DEF p, r, at
    <3>5. ASSUME NEW j \in 1 .. Size(r) PROVE u[(k - at) + j] = t[(i - at) + j]
      <4>0. i \in Int /\ at \in Int /\ Size(r) \in Int /\ m \in Int /\ n \in Int /\ k \in Int
        BY <1>1, <3>0, <3>3
      <4>1. (i - at) + j \in 1 .. m /\ n + ((i - at) + j) = (k - at) + j
        BY <3>0, <3>1, <4>0, PlaceShifted
      <4> QED  BY <1>1, <4>1
    <3>6. k - at >= 0 /\ (k - at) + Size(r) <= Len(u)
      BY <1>1, <3>0, <3>1, <3>3
    <3> QED  BY <3>1, <3>4, <3>5, <3>6 DEF WholeAt, p, r, at
  <2> QED  BY <2>1, <2>2
<1> QED  BY <1>1, <1>4 DEF WholeRecords, u

\* The buffer starts with a record, of which all may not be there.
First == TheRecord(buffer[1].at)
HeadFirst ==
  /\ answer.bytes[buffer[1].at].at = 1
  /\ \A k \in 1 .. Len(buffer) :
       k <= Size(First) => buffer[k] = [copy |-> buffer[1].copy, at |-> Before(buffer[1].at) + k]

\* Then its header is read as it was meant.
LEMMA HeaderMeans ==
  ASSUME TypeOK, NEW c \in Copies, Consuming(c), HeadFirst
  PROVE  /\ Aligned /\ First \in Record /\ buffer[1].at \in 1 .. Total
         /\ TheHeader.type = First.type /\ TheHeader.contentLength = Len(First.content)
         /\ TheHeader.paddingLength = First.padding /\ RecordSize(TheHeader) = Size(First)
<1> DEFINE p == buffer[1].at
           h == [k \in 1 .. HeaderSize |-> Byte(buffer[k]).number]
<1>1. Len(buffer) \in Nat /\ Len(buffer) > HeaderSize /\ buffer[1] \in SentBytes
  <2>1. Len(buffer) \in Nat /\ Len(buffer) > HeaderSize
    BY DEF Consuming, TypeOK
  <2> QED  BY <2>1 DEF TypeOK, HeaderSize
<1>2. p \in 1 .. Total
  BY <1>1 DEF SentBytes
<1>3. First \in Record /\ Size(First) \in Nat /\ Size(First) >= 8 /\ Before(p) \in Nat /\ Before(p) + 1 = p
  BY <1>2, Located DEF First, HeadFirst
<1>4. ASSUME NEW k \in 1 .. HeaderSize
      PROVE  /\ buffer[k] = [copy |-> buffer[1].copy, at |-> p + k - 1]
             /\ Byte(buffer[k]).at = k
             /\ Byte(buffer[k]).number = MakeHeader(First.type, Len(First.content), First.padding)[k]
  <2>1. k \in 1 .. Len(buffer) /\ k \in 1 .. Size(First) /\ k <= Size(First) /\ k <= HeaderSize
    BY <1>1, <1>3 DEF HeaderSize
  <2>2. buffer[k] = [copy |-> buffer[1].copy, at |-> Before(p) + k]
    BY <2>1 DEF HeadFirst
  <2>3. Before(p) + k = p + k - 1
    BY <1>3, <2>1 DEF HeaderSize
  <2>4. Byte(buffer[k]) = answer.bytes[Before(p) + k]
    BY <2>2 DEF Byte
  <2>5. k \in 1 .. Size(TheRecord(p))
    BY <2>1 DEF First
  <2> HIDE DEF p
  <2> QED  BY <1>2, <2>1, <2>2, <2>3, <2>4, <2>5, SameRecord DEF First, p
<1>5. Aligned
  BY <1>4 DEF Aligned
<1>6. \A k \in 1 .. HeaderSize : h[k] = MakeHeader(First.type, Len(First.content), First.padding)[k]
  BY <1>4
<1>7. TheHeader = GetHeader(h)
  BY DEF TheHeader
<1> HIDE DEF h
<1>8. TheHeader = [type |-> First.type, contentLength |-> Len(First.content),
                   paddingLength |-> First.padding]
  BY <1>3, <1>6, <1>7, HeaderSays
<1>9. RecordSize(TheHeader) = Size(First)
  <2>1. RecordSize(TheHeader) = HeaderSize + Len(First.content) + First.padding
    BY <1>8 DEF RecordSize
  <2> QED  BY <2>1 DEF Size
<1> QED  BY <1>2, <1>3, <1>5, <1>8, <1>9

LEMMA WholeStarts ==
  ASSUME TypeOK, WholeRecords(buffer), Len(buffer) > 0
  PROVE  HeadFirst /\ Size(First) <= Len(buffer) /\ Size(First) \in Nat
<1> DEFINE p == buffer[1].at
           at == answer.bytes[p].at
           r == TheRecord(p)
<1>1. 1 \in 1 .. Len(buffer) /\ Len(buffer) \in Nat /\ buffer[1] \in SentBytes
  <2>1. Len(buffer) \in Nat
    BY DEF TypeOK
  <2> QED  BY <2>1 DEF TypeOK
<1>2. p \in 1 .. Total
  BY <1>1 DEF SentBytes
<1>3. at \in 1 .. Size(r) /\ Size(r) \in Nat
  BY <1>2, Located
<1>4. /\ 1 - at >= 0 /\ (1 - at) + Size(r) <= Len(buffer)
      /\ \A j \in 1 .. Size(r) : buffer[(1 - at) + j] = [copy |-> buffer[1].copy, at |-> Before(p) + j]
  BY <1>1 DEF WholeRecords, WholeAt
<1> HIDE DEF p, at, r
<1>5. at = 1
  BY <1>3, <1>4
<1>6. \A j \in 1 .. Size(r) : (1 - at) + j = j
  BY <1>5
<1>7. \A k \in 1 .. Len(buffer) : k <= Size(r) => k \in 1 .. Size(r)
  BY <1>3
<1>8. \A j \in 1 .. Size(r) : buffer[j] = [copy |-> buffer[1].copy, at |-> Before(p) + j]
  BY <1>4, <1>6
<1>9. Size(r) <= Len(buffer)
  BY <1>1, <1>3, <1>4, <1>5
<1> QED  BY <1>3, <1>5, <1>7, <1>8, <1>9 DEF HeadFirst, First, p, at, r

\* Behind the first record are whole ones.
LEMMA RestIsWhole ==
  ASSUME TypeOK, WholeRecords(buffer), Len(buffer) > 0
  PROVE  WholeRecords(Dropped(Size(First)))
<1> DEFINE n == Size(First)
           m == Len(buffer)
           s == Dropped(n)
<1>1. HeadFirst /\ n <= m /\ n \in Nat /\ m \in Nat /\ buffer \in Seq(SentBytes)
  <2>1. m \in Nat /\ buffer \in Seq(SentBytes)
    BY DEF TypeOK
  <2> QED  BY <2>1, WholeStarts
<1>2. s = SubSeq(buffer, n + 1, m)
  BY DEF Dropped
<1> HIDE DEF n
<1>3. Len(s) = m - n /\ \A k \in 1 .. m - n : s[k] = buffer[n + k]
  BY <1>1, <1>2
<1> HIDE DEF s, m
<1>4. ASSUME NEW k \in 1 .. m - n PROVE WholeAt(s, k)
  <2> DEFINE p == buffer[n + k].at
             r == TheRecord(p)
             at == answer.bytes[p].at
             before == (n + k) - at
  <2>1. n + k \in 1 .. m /\ buffer[n + k] \in SentBytes
    <3>1. n + k \in 1 .. m
      BY <1>1
    <3> QED  BY <1>1, <3>1 DEF m
  <2>2. p \in 1 .. Total
    BY <2>1 DEF SentBytes
  <2>3. at \in 1 .. Size(r) /\ Size(r) \in Nat /\ Before(p) \in Nat
    BY <2>2, Located
  <2>4. /\ before >= 0 /\ before + Size(r) <= m
        /\ \A j \in 1 .. Size(r) : buffer[before + j] = [copy |-> buffer[n + k].copy, at |-> Before(p) + j]
    BY <2>1 DEF WholeRecords, WholeAt, m
  <2> HIDE DEF p, r, at, before
  <2>5. before >= n
    <3> SUFFICES ASSUME before < n PROVE FALSE
      BY <1>1, <2>3 DEF before
    <3> DEFINE j == n - before
               q == buffer[1].at
    <3>1. j \in 1 .. Size(r) /\ before + j = n /\ n \in 1 .. m
      <4>1. /\ n \in Int /\ k \in Int /\ Size(r) \in Int /\ m \in Int /\ at \in Int
            /\ 1 <= k /\ n + k <= m
        BY <1>1, <2>1, <2>3
      <4>2. before \in Int /\ before = (n + k) - at
        BY <4>1 DEF before
      <4>3. at \in 1 .. Size(r) /\ before >= 0 /\ before < n
        BY <2>3, <2>4
      <4>4. n - before \in 1 .. Size(r) /\ before + (n - before) = n /\ n \in 1 .. m
        BY <4>1, <4>2, <4>3, PlaceInside
      <4> QED  BY <4>4
    <3> HIDE DEF j, q
    <3>2. buffer[n].at = Before(p) + j
      <4>1. buffer[before + j] = [copy |-> buffer[n + k].copy, at |-> Before(p) + j]
        BY <2>4, <3>1, Zenon
      <4>2. buffer[before + j].at = Before(p) + j
        BY <4>1
      <4> QED  BY <3>1, <4>2
    <3>3. q \in 1 .. Total /\ n \in 1 .. Size(TheRecord(q)) /\ TheRecord(q) = First
      <4>1. buffer[1] \in SentBytes
        BY <1>1, <3>1 DEF m
      <4> QED  BY <1>1, <3>1, <4>1 DEF SentBytes, n, First, q
    <3>4. buffer[n].at = Before(q) + n
      <4>1. n <= Size(First)
        BY <1>1 DEF n
      <4>2. buffer[n] = [copy |-> buffer[1].copy, at |-> Before(q) + n]
        BY <1>1, <3>1, <4>1 DEF HeadFirst, m, q
      <4> QED  BY <4>2
    <3>5. answer.bytes[buffer[n].at].at = n /\ TheRecord(buffer[n].at) = First
      BY <3>3, <3>4, SameRecord
    <3>6. answer.bytes[buffer[n].at].at = j /\ TheRecord(buffer[n].at) = r
      BY <2>2, <3>1, <3>2, SameRecord DEF r
    <3>7. before = 0 /\ Size(r) = n
      <4>1. j = n /\ r = First
        BY <3>5, <3>6
      <4>2. before \in Int
        BY <1>1, <2>1, <2>3 DEF before
      <4> QED  BY <1>1, <3>1, <4>1, <4>2 DEF n
    <3> QED  BY <1>1, <2>1, <2>3, <3>7 DEF before
  <2>6. s[k] = buffer[n + k]
    BY <1>3
  <2>7. k - at = before - n /\ k - at >= 0 /\ (k - at) + Size(r) <= Len(s)
    BY <1>1, <1>3, <2>3, <2>4, <2>5 DEF before
  <2>8. ASSUME NEW j \in 1 .. Size(r)
        PROVE  s[(k - at) + j] = buffer[before + j]
    <3>1. (k - at) + j \in 1 .. m - n /\ n + ((k - at) + j) = before + j
      BY <1>1, <2>3, <2>4, <2>5, <2>7 DEF before
    <3> QED  BY <1>3, <3>1
  <2> QED  BY <2>4, <2>6, <2>7, <2>8 DEF WholeAt, p, r, at
<1> QED  BY <1>3, <1>4 DEF WholeRecords, s, n

-----------------------------------------------------------------------------
(* What is made of the bytes. *)

LEMMA PieceSplit ==
  ASSUME TypeOK, NEW c \in Copies, NEW u \in 0 .. Total, NEW v \in 0 .. Total, NEW w \in 0 .. Total,
         u <= v, v <= w
  PROVE  Piece(c, u, v) \o Piece(c, v, w) = Piece(c, u, w)
<1> DEFINE s == Piece(c, u, v)
           t == Piece(c, v, w)
           r == Piece(c, u, w)
<1>0. u \in Nat /\ v \in Nat /\ w \in Nat /\ u <= w
  BY TotalIs
<1>1. /\ s \in Seq(SentBytes) /\ Len(s) = v - u
      /\ \A k \in 1 .. v - u : s[k] = [copy |-> c, at |-> u + k]
  BY <1>0, PieceIs, PieceBytes
<1>2. /\ t \in Seq(SentBytes) /\ Len(t) = w - v
      /\ \A k \in 1 .. w - v : t[k] = [copy |-> c, at |-> v + k]
  BY <1>0, PieceIs, PieceBytes
<1>3. /\ r \in Seq(SentBytes) /\ Len(r) = w - u
      /\ \A k \in 1 .. w - u : r[k] = [copy |-> c, at |-> u + k]
  BY <1>0, PieceIs, PieceBytes
<1> HIDE DEF s, t, r
<1> DEFINE b == s \o t
<1>4. b \in Seq(SentBytes) /\ Len(b) = (v - u) + (w - v)
      /\ (\A k \in 1 .. v - u : b[k] = s[k]) /\ \A k \in 1 .. w - v : b[(v - u) + k] = t[k]
  <2>1. /\ b \in Seq(SentBytes) /\ Len(b) = Len(s) + Len(t)
        /\ \A k \in 1 .. Len(s) : b[k] = s[k]
        /\ \A k \in 1 .. Len(t) : b[Len(s) + k] = t[k]
    BY <1>1, <1>2
  <2> HIDE DEF b
  <2> QED  BY <1>1, <1>2, <2>1
<1> HIDE DEF b
<1>5. ASSUME NEW k \in 1 .. Len(b) PROVE b[k] = r[k]
  <2>1. k \in 1 .. w - u
    BY <1>0, <1>4
  <2>2. CASE k \in 1 .. v - u
    BY <1>1, <1>3, <1>4, <2>1, <2>2
  <2>3. CASE ~(k \in 1 .. v - u)
    <3> DEFINE j == k - (v - u)
    <3>1. j \in 1 .. w - v /\ (v - u) + j = k /\ v + j = u + k
      BY <1>0, <2>1, <2>3
    <3> HIDE DEF j
    <3> QED  BY <1>2, <1>3, <1>4, <2>1, <3>1
  <2> QED  BY <2>2, <2>3
<1>6. Len(b) = Len(r)
  BY <1>0, <1>3, <1>4
<1>7. b = r
  BY <1>3, <1>4, <1>5, <1>6, SeqEqual
<1> QED  BY <1>7 DEF b, s, t, r

\* What is dropped in front of a piece, and what a part of it is.
LEMMA PieceSub ==
  ASSUME TypeOK, NEW c \in Copies, NEW u \in 0 .. Total, NEW v \in 0 .. Total, u <= v,
         NEW m \in 0 .. v - u, NEW n \in m .. v - u
  PROVE  SubSeq(Piece(c, u, v), m + 1, n) = Piece(c, u + m, u + n)
<1> DEFINE s == Piece(c, u, v)
           t == SubSeq(s, m + 1, n)
           r == Piece(c, u + m, u + n)
<1>0. /\ u \in Nat /\ v \in Nat /\ u + m \in 0 .. Total /\ u + n \in 0 .. Total
      /\ u + m \in Nat /\ u + n \in Nat /\ u + m <= u + n /\ m \in Nat /\ n \in Nat
      /\ (u + n) - (u + m) = n - m
  BY TotalIs
<1>1. /\ s \in Seq(SentBytes) /\ Len(s) = v - u
      /\ \A k \in 1 .. v - u : s[k] = [copy |-> c, at |-> u + k]
  BY <1>0, PieceIs, PieceBytes
<1>2. /\ r \in Seq(SentBytes) /\ Len(r) = n - m
      /\ \A k \in 1 .. n - m : r[k] = [copy |-> c, at |-> (u + m) + k]
  <2> DEFINE x == u + m
             y == u + n
  <2> HIDE DEF r
  <2>1. x \in 0 .. Total /\ y \in 0 .. Total /\ x \in Nat /\ y \in Nat /\ x <= y /\ y - x = n - m
    BY <1>0
  <2>2. r = Piece(c, x, y)
    BY DEF r
  <2> HIDE DEF x, y
  <2>3. r \in Seq(SentBytes)
    BY <2>1, <2>2, PieceIs
  <2>4. Len(r) = y - x /\ \A k \in 1 .. y - x : r[k] = [copy |-> c, at |-> x + k]
    BY <2>1, <2>2, PieceBytes
  <2> QED  BY <2>1, <2>3, <2>4 DEF x
<1> HIDE DEF s, r
<1>3. /\ t \in Seq(SentBytes) /\ Len(t) = n - m
      /\ \A k \in 1 .. n - m : t[k] = s[m + k]
  <2>1. \A i \in m + 1 .. n : s[i] \in SentBytes
    <3>1. \A i \in m + 1 .. n : i \in 1 .. Len(s)
      BY <1>0, <1>1
    <3> QED  BY <1>1, <3>1, ElementOfSeq
  <2>2. m + 1 \in Int /\ n \in Int
    BY <1>0
  <2>3. /\ t \in Seq(SentBytes)
        /\ Len(t) = IF m + 1 <= n THEN n - (m + 1) + 1 ELSE 0
        /\ \A i \in 1 .. n - (m + 1) + 1 : t[i] = s[(m + 1) + i - 1]
    BY <2>1, <2>2, SubSeqProperties
  <2> HIDE DEF t
  <2>4. Len(t) = n - m
    BY <1>0, <2>3
  <2>5. \A k \in 1 .. n - m : t[k] = s[m + k]
    <3> TAKE k \in 1 .. n - m
    <3>1. k \in 1 .. n - (m + 1) + 1 /\ (m + 1) + k - 1 = m + k
      BY <1>0
    <3> QED  BY <2>3, <3>1
  <2> QED  BY <2>3, <2>4, <2>5
<1> HIDE DEF t
<1>4. ASSUME NEW k \in 1 .. Len(t) PROVE t[k] = r[k]
  <2>1. k \in 1 .. n - m /\ m + k \in 1 .. v - u /\ u + (m + k) = (u + m) + k
    BY <1>0, <1>3
  <2> QED  BY <1>1, <1>2, <1>3, <2>1
<1>5. t = r
  BY <1>2, <1>3, <1>4, SeqEqual
<1> QED  BY <1>5 DEF t, s, r

LEMMA PieceWithin ==
  ASSUME NEW c, NEW u \in Nat, NEW v \in Nat, u <= v, NEW T,
         \A k \in 1 .. v - u : [copy |-> c, at |-> u + k] \in T
  PROVE  Piece(c, u, v) \in Seq(T)
<1>1. v - u \in Nat
  OBVIOUS
<1> QED  BY <1>1 DEF Piece

\* Output of the answer: content of a record of that type.
IsOutput(p) == answer.bytes[p].content /\ answer.bytes[p].type = Stdout

LEMMA OutputOf ==
  ASSUME TypeOK, NEW c \in Copies, NEW u \in 0 .. Total, NEW v \in 0 .. Total, u <= v
  PROVE  /\ Kept(Piece(c, 0, v), Output) = Kept(Piece(c, 0, u), Output) \o Kept(Piece(c, u, v), Output)
         /\ (\A p \in u + 1 .. v : ~IsOutput(p)) => Kept(Piece(c, u, v), Output) = <<>>
         /\ (\A p \in u + 1 .. v : IsOutput(p)) => Kept(Piece(c, u, v), Output) = Piece(c, u, v)
         /\ Kept(Piece(c, 0, v), Output) \in Seq(SentBytes)
<1>0. u \in Nat /\ v \in Nat /\ 0 <= u /\ 0 \in 0 .. Total /\ Total \in Nat
  BY TotalIs
<1>1. /\ Piece(c, 0, u) \in Seq(SentBytes) /\ Piece(c, u, v) \in Seq(SentBytes)
      /\ Piece(c, 0, v) \in Seq(SentBytes)
  BY <1>0, PieceIs
<1>2. Piece(c, 0, u) \o Piece(c, u, v) = Piece(c, 0, v)
  BY <1>0, PieceSplit
<1>3. Kept(Piece(c, 0, v), Output) = Kept(Piece(c, 0, u), Output) \o Kept(Piece(c, u, v), Output)
  <2> DEFINE x == Piece(c, 0, u)
             y == Piece(c, u, v)
  <2> HIDE DEF x, y
  <2>1. x \in Seq(SentBytes) /\ y \in Seq(SentBytes)
    BY <1>1 DEF x, y
  <2>2. Kept(x \o y, Output) = Kept(x, Output) \o Kept(y, Output)
    BY <2>1, KeptOfBoth
  <2> QED  BY <1>2, <2>2 DEF x, y
<1>4. ASSUME NEW k \in 1 .. v - u
      PROVE  /\ u + k \in u + 1 .. v
             /\ [copy |-> c, at |-> u + k] \in SentBytes
             /\ [copy |-> c, at |-> u + k] \in Output <=> IsOutput(u + k)
  <2>1. u + k \in u + 1 .. v /\ u + k \in 1 .. Total
    BY <1>0
  <2>2. [copy |-> c, at |-> u + k] \in SentBytes
    BY <2>1 DEF SentBytes
  <2> QED  BY <2>1, <2>2 DEF Output, IsOutput, Byte
<1>5. ASSUME \A p \in u + 1 .. v : ~IsOutput(p) PROVE Kept(Piece(c, u, v), Output) = <<>>
  <2> DEFINE T == {[copy |-> c, at |-> u + k] : k \in 1 .. v - u}
  <2>1. \A b \in T : b \notin Output
    BY <1>4, <1>5
  <2>2. \A k \in 1 .. v - u : [copy |-> c, at |-> u + k] \in T
    OBVIOUS
  <2> HIDE DEF T
  <2>3. Piece(c, u, v) \in Seq(T)
    BY <1>0, <2>2, PieceWithin
  <2> QED  BY <2>1, <2>3, KeptNothing
<1>6. ASSUME \A p \in u + 1 .. v : IsOutput(p) PROVE Kept(Piece(c, u, v), Output) = Piece(c, u, v)
  <2>1. \A k \in 1 .. v - u : [copy |-> c, at |-> u + k] \in Output
    BY <1>4, <1>6
  <2>2. Piece(c, u, v) \in Seq(Output)
    BY <1>0, <2>1, PieceWithin
  <2> QED  BY <2>2, KeptAll
<1>7. Kept(Piece(c, 0, v), Output) \in Seq(SentBytes)
  BY <1>1, KeptTyped
<1> QED  BY <1>3, <1>5, <1>6, <1>7

\* The bytes among what was written.
Items == {"byte"} \X SentBytes
Unwrapped(items) == [k \in DOMAIN items |-> items[k][2]]
ForwardedOf(s) == Unwrapped(Kept(s, Items))

LEMMA UnwrappedIs ==
  ASSUME NEW items \in Seq(Items)
  PROVE  /\ Unwrapped(items) \in Seq(SentBytes) /\ Len(Unwrapped(items)) = Len(items)
         /\ \A k \in 1 .. Len(items) : Unwrapped(items)[k] = items[k][2]
<1> DEFINE n == Len(items)
           u == Unwrapped(items)
<1>1. n \in Nat /\ DOMAIN items = 1 .. n /\ \A k \in 1 .. n : items[k] \in Items
  OBVIOUS
<1>2. \A k \in 1 .. n : items[k][2] \in SentBytes
  BY <1>1 DEF Items
<1> HIDE DEF n
<1>3. u = [k \in 1 .. n |-> items[k][2]]
  BY <1>1 DEF Unwrapped
<1> HIDE DEF u
<1>4. u \in [1 .. n -> SentBytes] /\ DOMAIN u = 1 .. n /\ \A k \in 1 .. n : u[k] = items[k][2]
  BY <1>2, <1>3
<1>5. u \in Seq(SentBytes) /\ Len(u) = n
  BY <1>1, <1>4
<1> QED  BY <1>4, <1>5 DEF u, n

LEMMA UnwrappedOfBoth ==
  ASSUME NEW s \in Seq(Items), NEW t \in Seq(Items)
  PROVE  Unwrapped(s \o t) = Unwrapped(s) \o Unwrapped(t)
<1> DEFINE u == s \o t
           x == Unwrapped(s)
           y == Unwrapped(t)
           z == Unwrapped(u)
<1>1. /\ u \in Seq(Items) /\ Len(u) = Len(s) + Len(t) /\ Len(s) \in Nat /\ Len(t) \in Nat
      /\ \A k \in 1 .. Len(s) : u[k] = s[k]
      /\ \A k \in 1 .. Len(t) : u[Len(s) + k] = t[k]
  OBVIOUS
<1> HIDE DEF u
<1>2. /\ x \in Seq(SentBytes) /\ Len(x) = Len(s) /\ \A k \in 1 .. Len(s) : x[k] = s[k][2]
  BY UnwrappedIs
<1>3. /\ y \in Seq(SentBytes) /\ Len(y) = Len(t) /\ \A k \in 1 .. Len(t) : y[k] = t[k][2]
  BY UnwrappedIs
<1>4. /\ z \in Seq(SentBytes) /\ Len(z) = Len(u) /\ \A k \in 1 .. Len(u) : z[k] = u[k][2]
  BY <1>1, UnwrappedIs
<1> HIDE DEF x, y, z
<1> DEFINE w == x \o y
<1>5. /\ w \in Seq(SentBytes) /\ Len(w) = Len(x) + Len(y)
      /\ \A k \in 1 .. Len(x) : w[k] = x[k]
      /\ \A k \in 1 .. Len(y) : w[Len(x) + k] = y[k]
  <2>1. x \in Seq(SentBytes) /\ y \in Seq(SentBytes)
    BY <1>2, <1>3
  <2> QED  BY <2>1
<1> HIDE DEF w
<1>6. ASSUME NEW k \in 1 .. Len(z) PROVE z[k] = w[k]
  <2>1. k \in 1 .. Len(s) + Len(t)
    BY <1>1, <1>4
  <2>2. CASE k \in 1 .. Len(s)
    <3>1. z[k] = s[k][2]
      BY <1>1, <1>4, <2>2
    <3>2. w[k] = x[k]
      BY <1>2, <1>5, <2>2
    <3> QED  BY <1>2, <2>2, <3>1, <3>2
  <2>3. CASE ~(k \in 1 .. Len(s))
    <3> DEFINE j == k - Len(s)
    <3>1. j \in 1 .. Len(t) /\ Len(s) + j = k
      BY <1>1, <2>1, <2>3
    <3> HIDE DEF j
    <3>2. z[k] = t[j][2]
      BY <1>1, <1>4, <3>1
    <3>3. w[k] = y[j]
      BY <1>2, <1>3, <1>5, <3>1
    <3> QED  BY <1>3, <3>1, <3>2, <3>3
  <2> QED  BY <2>2, <2>3
<1>7. Len(z) = Len(w)
  BY <1>1, <1>2, <1>3, <1>4, <1>5
<1>8. z = w
  BY <1>4, <1>5, <1>6, <1>7, SeqEqual
<1> QED  BY <1>8 DEF z, w, x, y, u

LEMMA ForwardedIs ==
  ASSUME NEW s, IsSequence(s)
  PROVE  ForwardedOf(s) \in Seq(SentBytes)
<1>1. PICK S : s \in Seq(S)
  BY DEF IsSequence
<1>2. Kept(s, Items) \in Seq(Items)
  BY <1>1, KeptInside
<1> QED  BY <1>2, UnwrappedIs DEF ForwardedOf

\* What provide() writes forwards the front of what it writes from.
LEMMA ForwardedMore ==
  ASSUME NEW s, IsSequence(s), NEW o, IsSequence(o), \A k \in 1 .. Len(o) : o[k][1] # "byte",
         NEW u \in Seq(SentBytes), NEW n \in 0 .. Len(u)
  PROVE  ForwardedOf(s \o o \o [k \in 1 .. n |-> <<"byte", u[k]>>])
           = ForwardedOf(s) \o SubSeq(u, 1, n)
<1> DEFINE b == [k \in 1 .. n |-> <<"byte", u[k]>>]
<1>1. PICK S : s \in Seq(S)
  BY DEF IsSequence
<1>2. PICK T : o \in Seq(T)
  BY DEF IsSequence
<1>3. n \in Nat /\ \A k \in 1 .. n : u[k] \in SentBytes
  OBVIOUS
<1>4. \A k \in 1 .. n : <<"byte", u[k]>> \in Items
  BY <1>3 DEF Items
<1>5. /\ b \in Seq(Items) /\ Len(b) = n /\ \A k \in 1 .. n : b[k] = <<"byte", u[k]>>
  <2>1. b \in [1 .. n -> Items] /\ DOMAIN b = 1 .. n /\ \A k \in 1 .. n : b[k] = <<"byte", u[k]>>
    BY <1>4
  <2> HIDE DEF b
  <2> QED  BY <1>3, <2>1
<1> HIDE DEF b
<1> DEFINE A == (S \cup T) \cup Items
<1>6. s \in Seq(A) /\ o \in Seq(A) /\ b \in Seq(A)
  BY <1>1, <1>2, <1>5, SeqMonotonic
<1> HIDE DEF A
<1>7. Kept(s \o o \o b, Items) = (Kept(s, Items) \o Kept(o, Items)) \o Kept(b, Items)
  BY <1>6, KeptOfThree, SMTT(30)
<1>9. Kept(b, Items) = b
  BY <1>5, KeptAll
<1>10. Kept(o, Items) = <<>>
  <2> DEFINE R == {o[k] : k \in 1 .. Len(o)}
  <2>1. \A x \in R : x \notin Items
    BY DEF Items
  <2>2. o \in Seq(R)
    <3>1. Len(o) \in Nat /\ o \in [1 .. Len(o) -> R] /\ DOMAIN o = 1 .. Len(o)
      BY <1>2
    <3> HIDE DEF R
    <3> QED  BY <3>1
  <2> HIDE DEF R
  <2> QED  BY <2>1, <2>2, KeptNothing
<1>11. Kept(s, Items) \in Seq(Items)
  BY <1>1, KeptInside
<1>12. Kept(s \o o \o b, Items) = Kept(s, Items) \o b
  <2>1. Kept(s, Items) \o <<>> = Kept(s, Items)
    BY <1>11, ConcatEmptySeq
  <2> QED  BY <1>7, <1>9, <1>10, <2>1
<1>13. Unwrapped(b) = SubSeq(u, 1, n)
  <2>1. /\ Unwrapped(b) \in Seq(SentBytes) /\ Len(Unwrapped(b)) = n
        /\ \A k \in 1 .. n : Unwrapped(b)[k] = b[k][2]
    BY <1>5, UnwrappedIs
  <2>2. /\ SubSeq(u, 1, n) \in Seq(SentBytes) /\ Len(SubSeq(u, 1, n)) = n
        /\ \A k \in 1 .. n : SubSeq(u, 1, n)[k] = u[k]
    BY PrefixIs
  <2>3. \A k \in 1 .. n : Unwrapped(b)[k] = SubSeq(u, 1, n)[k]
    BY <1>5, <2>1, <2>2
  <2> DEFINE x == Unwrapped(b)
             y == SubSeq(u, 1, n)
  <2> HIDE DEF x, y
  <2> QED  BY <2>1, <2>2, <2>3, SeqEqual DEF x, y
<1>14. Unwrapped(Kept(s, Items) \o b) = Unwrapped(Kept(s, Items)) \o Unwrapped(b)
  BY <1>5, <1>11, UnwrappedOfBoth
<1> QED  BY <1>12, <1>13, <1>14 DEF ForwardedOf, b

-----------------------------------------------------------------------------
(* A provider that is alone. *)

Busy == {"consume", "judge", "parse", "receive", "provide"}

\* Where poll stands and what it has made of the provider.
Staged(c) ==
  /\ \A d \in Copies : d # c => Stage(d) = "None"
  /\ pc[1] \in Busy => pc[2] = c
  /\ pc[1] = "consume" => Stage(c) \in {"Recving", "Forwarding"}
  /\ pc[1] = "judge" => Stage(c) = "Recving"
  /\ pc[1] \in {"parse", "receive", "provide"} => Stage(c) = "Forwarding"
  /\ Stage(c) \in {"Connected", "Recving"} \/ pc[1] = "parse" => ~prov[c].provided
  /\ ~prov[c].provided => client = <<>>

\* The buffer holds the rest of what was read, and it starts with a record.
Used(c) == got[c] - Len(buffer)
Unread(c) ==
  /\ Stage(c) = "Connected" => got[c] = 0
  /\ Used(c) >= 0 /\ buffer = Piece(c, Used(c), got[c])
  /\ ~prov[c].end => AtRecord(Used(c))

Brought(c) == ~prov[c].isStderr => EndsWith(Decoded(c), Forwarded \o out)

\* How many bytes of the output parse() has taken.
Parsed(c) == Len(Decoded(c)) - Len(Forwarded \o out)

\* The induction.
Lone(c) == Staged(c) /\ Unread(c) /\ Brought(c)
Solo == Counted /\ \A c \in Copies : answer.copies = {c} => Lone(c)

LEMMA StagedStays ==
  ASSUME TypeOK, NEW c \in Copies, Staged(c), Poll(c) \/ Gateway(c)
  PROVE  Staged(c)'
<1>1. DOMAIN prov = Copies /\ IsProvider(prov[c])
  BY ProvidersAre
<1>2. \A d \in Copies : d # c => Stage(d)' = "None"
  BY Touched DEF Touches, Stage, Staged
<1>3. CASE MakeRequest(c)
  BY <1>1, <1>2, <1>3 DEF MakeRequest, Staged, Stage, Busy, IsProvider, NewProvider
<1>4. CASE ReadEvent(c)
  BY <1>1, <1>2, <1>4 DEF ReadEvent, Receive, Staged, Stage, Busy
<1>5. CASE ReceiveAgain(c)
  BY <1>1, <1>2, <1>5 DEF ReceiveAgain, Receive, At, Staged, Stage, Busy
<1>6. CASE ConsumeEmpty(c)
  BY <1>1, <1>2, <1>6 DEF ConsumeEmpty, Staged, Stage, Busy, IsProvider, NewProvider
<1>7. CASE Consume(c)
  <2>1. /\ prov'[c].stage = prov[c].stage /\ prov'[c].provided = prov[c].provided
        /\ pc' = pc /\ client' = client
    BY <1>1, <1>7 DEF Consume, IsProvider, NewProvider
  <2> QED  BY <1>2, <2>1 DEF Staged, Stage
<1>8. CASE ThrowAtPadding(c) \/ Spin(c) \/ Garbled(c) \/ ThrowAtStatus(c)
  <2>1. prov' = prov /\ client' = client /\ pc'[1] \in {"thrown", "spin", "garbled", "unread"}
    BY <1>8 DEF ThrowAtPadding, Spin, Garbled, ThrowAtStatus
  <2>2. prov[c].stage \in {"Connected", "Recving"} => ~prov[c].provided
    BY DEF Staged, Stage
  <2> QED  BY <1>2, <2>1, <2>2 DEF Staged, Stage, Busy
<1>9. CASE ConsumeReturns(c)
  BY <1>2, <1>9 DEF ConsumeReturns, At, Staged, Stage, Busy
<1>10. CASE Judge(c)
  <2>1. pc = <<"judge", c>> /\ prov[c].stage = "Recving" /\ ~prov[c].provided /\ client' = client
    BY <1>10 DEF Judge, At, Staged, Stage
  <2>2. /\ pc' \in {<<"receive", c>>, <<"parse", c>>, <<"rest">>}
        /\ prov'[c].provided = prov[c].provided
        /\ prov'[c].stage = "Forwarding" \/ (prov'[c].stage = "Recving" /\ pc' = <<"rest">>)
    BY <1>1, <1>10, <2>1 DEF Judge, IsProvider, NewProvider
  <2>3. client = <<>>
    BY <2>1 DEF Staged
  <2> QED  BY <1>2, <2>1, <2>2, <2>3 DEF Staged, Stage, Busy
<1>11. CASE Scan(c)
  BY <1>2, <1>11 DEF Scan, Staged, Stage
<1>12. CASE EndLine(c)
  <2>1. /\ prov'[c].stage = prov[c].stage /\ prov'[c].provided = prov[c].provided
        /\ pc' = pc /\ client' = client
    BY <1>1, <1>12 DEF EndLine, Entered, IsProvider, NewProvider
  <2> QED  BY <1>2, <2>1 DEF Staged, Stage
<1>13. CASE ParseReturns(c)
  BY <1>2, <1>13 DEF ParseReturns, At, Staged, Stage, Busy
<1>14. CASE Provide(c)
  <2>1. pc' = <<"rest">> /\ prov[c].stage = "Forwarding"
    BY <1>14 DEF Provide, At, Staged, Stage
  <2>2. \E s \in {"Done", prov[c].stage} :
          prov' = [prov EXCEPT ![c].provided = TRUE, ![c].stage = s]
    BY <1>14 DEF Provide
  <2>3. prov'[c].provided = TRUE /\ prov'[c].stage \in {"Done", "Forwarding"}
    BY <1>1, <2>1, <2>2 DEF IsProvider, NewProvider
  <2> QED  BY <1>2, <2>1, <2>3 DEF Staged, Stage, Busy
<1>15. CASE Gateway(c)
  BY <1>2, <1>15 DEF Gateway, Hangup, Arrive, Staged, Stage
<1> QED
  BY <1>3, <1>4, <1>5, <1>6, <1>7, <1>8, <1>9, <1>10, <1>11, <1>12, <1>13, <1>14, <1>15
  DEF Poll

\* The answer does not change, nor what is output of it.
LEMMA AnswerStays ==
  ASSUME answer' = answer
  PROVE  /\ Output' = Output /\ SentBytes' = SentBytes /\ Items' = Items /\ Total' = Total
         /\ \A p : AtRecord(p)' <=> AtRecord(p)
         /\ \A p : Before(p)' = Before(p) /\ TheRecord(p)' = TheRecord(p)
BY DEF Output, SentBytes, Items, Total, Byte, AtRecord, Before, TheRecord

LEMMA ForwardedMeans == Forwarded = ForwardedOf(client)
BY DEF Forwarded, ForwardedOf, Unwrapped, Items

\* Steps that read nothing and write nothing.
LEMMA QuietStep ==
  ASSUME NEW c \in Copies, Unread(c), Brought(c),
         answer' = answer, got' = got, buffer' = buffer, out' = out, client' = client,
         prov'[c].end = prov[c].end, prov'[c].isStderr = prov[c].isStderr,
         Stage(c)' = "Connected" => Stage(c) = "Connected"
  PROVE  Unread(c)' /\ Brought(c)' /\ Parsed(c)' = Parsed(c)
<1>1. Used(c)' = Used(c)
  BY DEF Used
<1>2. Unread(c)'
  BY <1>1, AnswerStays DEF Unread
<1>3. Decoded(c)' = Decoded(c)
  BY AnswerStays DEF Decoded
<1>4. Forwarded' = Forwarded
  BY AnswerStays DEF Forwarded
<1> QED  BY <1>2, <1>3, <1>4 DEF Brought, Parsed

\* The first record of a buffer that starts with one.
LEMMA LoneHead ==
  ASSUME TypeOK, NEW c \in Copies, Unread(c), Consuming(c)
  PROVE  /\ HeadFirst /\ buffer[1].at = Used(c) + 1 /\ Before(buffer[1].at) = Used(c)
         /\ Used(c) \in 0 .. Total /\ Used(c) < Total /\ got[c] \in 0 .. Total
         /\ Used(c) <= got[c] /\ Len(buffer) = got[c] - Used(c)
<1>1. /\ Len(buffer) \in Nat /\ Len(buffer) > HeaderSize /\ ~prov[c].end
      /\ got[c] \in 0 .. Total /\ Total \in Nat
  BY TotalIs DEF Consuming, TypeOK
<1>2. /\ Used(c) \in 0 .. Total /\ Used(c) < Total /\ Used(c) <= got[c]
      /\ Len(buffer) = got[c] - Used(c) /\ Used(c) \in Nat /\ got[c] \in Nat
  BY <1>1 DEF Used, Unread, HeaderSize
<1>3. AtRecord(Used(c)) /\ buffer = Piece(c, Used(c), got[c])
  BY <1>1 DEF Unread
<1>4. \A k \in 1 .. Len(buffer) : buffer[k] = [copy |-> c, at |-> Used(c) + k]
  BY <1>2, <1>3, PieceBytes
<1>5. 1 \in 1 .. Len(buffer)
  BY <1>1 DEF HeaderSize
<1>6. buffer[1].at = Used(c) + 1 /\ buffer[1].copy = c
  <2>1. buffer[1] = [copy |-> c, at |-> Used(c) + 1]
    BY <1>4, <1>5
  <2> QED  BY <2>1
<1>7. answer.bytes[Used(c) + 1].at = 1 /\ Before(Used(c) + 1) = Used(c)
  BY <1>2, <1>3, NextStarts
<1> QED  BY <1>1, <1>2, <1>4, <1>6, <1>7 DEF HeadFirst

\* What a record is output as.
LEMMA RecordOutput ==
  ASSUME TypeOK, NEW c \in Copies, NEW p \in 1 .. Total, answer.bytes[p].at = 1
  PROVE  LET r == TheRecord(p)
             n == Len(r.content)
             u == Before(p)
             D(v) == Kept(Piece(c, 0, v), Output)
         IN  /\ u \in Nat /\ u + Size(r) \in 0 .. Total /\ Size(r) = HeaderSize + n + r.padding
             /\ n \in Nat /\ r.padding \in Nat
             /\ D(u + HeaderSize) = D(u) /\ D(u) \in Seq(SentBytes)
             /\ r.type = Stdout =>
                  D(u + Size(r)) = D(u) \o Piece(c, u + HeaderSize, u + HeaderSize + n)
             /\ r.type # Stdout => D(u + Size(r)) = D(u)
             /\ AtRecord(u + Size(r))
<1> DEFINE r == TheRecord(p)
           n == Len(r.content)
           u == Before(p)
           D(v) == Kept(Piece(c, 0, v), Output)
           w == u + Size(r)
           a == u + HeaderSize
           b == u + HeaderSize + n
<1>1. /\ r \in Record /\ u \in Nat /\ Size(r) \in Nat /\ w <= Total
  BY Located
<1>2. n \in Nat /\ r.padding \in Nat /\ Size(r) = HeaderSize + n + r.padding
  <2>1. n \in Nat /\ r.padding \in Nat
    BY <1>1, RecordIs
  <2> QED  BY <2>1 DEF Size
<1>3. HeaderSize = 8 /\ Total \in Nat
  BY TotalIs DEF HeaderSize
<1>4. ASSUME NEW j \in 1 .. Size(r)
      PROVE  IsOutput(u + j) <=> j > HeaderSize /\ j <= HeaderSize + n /\ r.type = Stdout
  BY SameRecord DEF IsOutput
<1>5. AtRecord(w)
  <2>1. Size(r) \in 1 .. Size(r)
    BY <1>1, <1>2, <1>3
  <2>2. answer.bytes[u + Size(r)].last
    BY <2>1, SameRecord
  <2> QED  BY <2>2 DEF AtRecord
<1> HIDE DEF r, n, u, w, a, b
<1>6. /\ u \in 0 .. Total /\ a \in 0 .. Total /\ b \in 0 .. Total /\ w \in 0 .. Total
      /\ u <= a /\ a <= b /\ b <= w
  BY <1>1, <1>2, <1>3 DEF a, b, w
<1>7. ASSUME NEW q \in u + 1 .. a PROVE ~IsOutput(q)
  <2>1. q - u \in 1 .. Size(r) /\ u + (q - u) = q /\ ~(q - u > HeaderSize)
    BY <1>1, <1>2, <1>3 DEF a
  <2> QED  BY <1>4, <2>1
<1>8. ASSUME NEW q \in a + 1 .. b PROVE IsOutput(q) <=> r.type = Stdout
  <2>1. /\ q - u \in 1 .. Size(r) /\ u + (q - u) = q
        /\ q - u > HeaderSize /\ q - u <= HeaderSize + n
    BY <1>1, <1>2, <1>3 DEF a, b
  <2> QED  BY <1>4, <2>1
<1>9. ASSUME NEW q \in b + 1 .. w PROVE ~IsOutput(q)
  <2>1. q - u \in 1 .. Size(r) /\ u + (q - u) = q /\ ~(q - u <= HeaderSize + n)
    BY <1>1, <1>2, <1>3 DEF b, w
  <2> QED  BY <1>4, <2>1
<1>10. D(u) \in Seq(SentBytes) /\ D(a) \in Seq(SentBytes) /\ D(b) \in Seq(SentBytes)
  BY <1>6, OutputOf
<1>11. D(a) = D(u)
  <2>1. D(a) = D(u) \o Kept(Piece(c, u, a), Output) /\ Kept(Piece(c, u, a), Output) = <<>>
    BY <1>6, <1>7, OutputOf
  <2> QED  BY <1>10, <2>1, ConcatEmptySeq
<1>12. D(w) = D(b)
  <2>1. D(w) = D(b) \o Kept(Piece(c, b, w), Output) /\ Kept(Piece(c, b, w), Output) = <<>>
    BY <1>6, <1>9, OutputOf
  <2> QED  BY <1>10, <2>1, ConcatEmptySeq
<1>13. r.type = Stdout => D(b) = D(a) \o Piece(c, a, b)
  <2>1. D(b) = D(a) \o Kept(Piece(c, a, b), Output)
    BY <1>6, OutputOf
  <2>2. r.type = Stdout => Kept(Piece(c, a, b), Output) = Piece(c, a, b)
    BY <1>6, <1>8, OutputOf
  <2> QED  BY <2>1, <2>2
<1>14. r.type # Stdout => D(b) = D(a)
  <2>1. D(b) = D(a) \o Kept(Piece(c, a, b), Output)
    BY <1>6, OutputOf
  <2>2. r.type # Stdout => Kept(Piece(c, a, b), Output) = <<>>
    BY <1>6, <1>8, OutputOf
  <2> QED  BY <1>10, <2>1, <2>2, ConcatEmptySeq
<1>15. w \in 0 .. Total
  BY <1>6
<1> HIDE DEF D
<1>16. /\ r.type = Stdout => D(w) = D(u) \o Piece(c, a, b)
       /\ r.type # Stdout => D(w) = D(u)
  BY <1>11, <1>12, <1>13, <1>14
<1> QED  BY <1>1, <1>2, <1>5, <1>10, <1>11, <1>15, <1>16 DEF r, n, u, w, a, b, D

\* What is read extends the buffer at its end.
LEMMA ReceiveStep ==
  ASSUME TypeOK, NEW c \in Copies, Unread(c), Brought(c), Stage(c) # "Connected", Receive(c)
  PROVE  Unread(c)' /\ Brought(c)' /\ Parsed(c)' = Parsed(c) /\ Used(c)' = Used(c)
<1>1. /\ answer' = answer /\ prov' = prov /\ out' = out /\ client' = client
      /\ buffer' = buffer \o Piece(c, got[c], arrived[c]) /\ got'[c] = arrived[c]
  BY DEF Receive, TypeOK
<1>2. /\ got[c] \in 0 .. Total /\ arrived[c] \in 0 .. Total /\ got[c] <= arrived[c]
      /\ Total \in Nat /\ Len(buffer) \in Nat
  BY TotalIs DEF TypeOK
<1>3. /\ Used(c) \in 0 .. Total /\ Used(c) <= got[c] /\ buffer = Piece(c, Used(c), got[c])
      /\ Used(c) \in Nat
  BY <1>2 DEF Unread, Used
<1>4. buffer' = Piece(c, Used(c), arrived[c])
  BY <1>1, <1>2, <1>3, PieceSplit
<1>5. Len(buffer') = arrived[c] - Used(c)
  <2>1. arrived[c] \in Nat /\ Used(c) <= arrived[c] /\ Used(c) \in Nat
    BY <1>2, <1>3
  <2>2. Len(Piece(c, Used(c), arrived[c])) = arrived[c] - Used(c)
    BY <2>1, PieceBytes
  <2> QED  BY <1>4, <2>2
<1>6. Used(c)' = Used(c)
  <2>1. Used(c)' = arrived[c] - Len(buffer')
    BY <1>1 DEF Used
  <2> QED  BY <1>2, <1>3, <1>5, <2>1
<1>7. Unread(c)'
  <2>1. Stage(c)' # "Connected"
    BY <1>1 DEF Stage
  <2> QED  BY <1>1, <1>3, <1>4, <1>6, <2>1, AnswerStays DEF Unread
<1>8. Decoded(c)' = Decoded(c)
  <2>1. Decoded(c) = Kept(Piece(c, 0, Used(c)), Output)
    BY DEF Decoded, Used
  <2>2. Decoded(c)' = Kept(Piece(c, 0, Used(c)'), Output')
    BY DEF Decoded, Used
  <2> QED  BY <1>1, <1>6, <2>1, <2>2, AnswerStays
<1>9. Forwarded' = Forwarded
  BY <1>1, AnswerStays DEF Forwarded
<1> QED  BY <1>1, <1>6, <1>7, <1>8, <1>9 DEF Brought, Parsed

\* An empty record ends the provider, and is no output.
LEMMA ConsumeEmptyStep ==
  ASSUME TypeOK, NEW c \in Copies, Staged(c), Unread(c), Brought(c), ConsumeEmpty(c)
  PROVE  Unread(c)' /\ Brought(c)' /\ Parsed(c)' = Parsed(c) /\ Used(c)' > Used(c)
<1>0. DOMAIN prov = Copies /\ IsProvider(prov[c])
  BY ProvidersAre
<1>1. /\ answer' = answer /\ out' = out /\ client' = client /\ got' = got
      /\ buffer' = Dropped(HeaderSize) /\ Consuming(c)
      /\ prov'[c].end = TRUE /\ prov'[c].isStderr = prov[c].isStderr /\ pc = <<"consume", c>>
      /\ prov'[c].stage = prov[c].stage
  BY <1>0 DEF ConsumeEmpty, Consuming, At, IsProvider, NewProvider
<1> DEFINE u == Used(c)
<1>2. /\ u \in 0 .. Total /\ u < Total /\ got[c] \in 0 .. Total /\ u <= got[c]
      /\ Len(buffer) = got[c] - u /\ buffer[1].at = u + 1 /\ Before(buffer[1].at) = u
      /\ Total \in Nat /\ Len(buffer) > HeaderSize /\ HeaderSize = 8
      /\ buffer = Piece(c, u, got[c]) /\ HeadFirst
  BY <1>1, LoneHead, TotalIs DEF Consuming, HeaderSize, Unread
<1>3. buffer[1].at \in 1 .. Total /\ answer.bytes[buffer[1].at].at = 1
  BY <1>2 DEF HeadFirst
<1>4. Kept(Piece(c, 0, u + HeaderSize), Output) = Kept(Piece(c, 0, u), Output)
  BY <1>2, <1>3, RecordOutput
<1> HIDE DEF u
<1>5. buffer' = Piece(c, u + HeaderSize, got[c])
  <2>1. 8 \in 0 .. got[c] - u /\ got[c] - u \in 8 .. got[c] - u /\ u + (got[c] - u) = got[c]
    BY <1>2
  <2>2. SubSeq(Piece(c, u, got[c]), 8 + 1, got[c] - u) = Piece(c, u + 8, u + (got[c] - u))
    BY <1>2, <2>1, PieceSub
  <2>3. buffer' = SubSeq(buffer, HeaderSize + 1, Len(buffer))
    BY <1>1 DEF Dropped
  <2> QED  BY <1>2, <2>1, <2>2, <2>3
<1>6. Used(c)' = u + HeaderSize /\ Used(c)' >= 0
  <2>1. Used(c)' = got[c] - Len(buffer')
    BY <1>1 DEF Used
  <2>2. u + HeaderSize \in Nat /\ got[c] \in Nat /\ u + HeaderSize <= got[c]
    BY <1>2
  <2>3. Len(buffer') = got[c] - (u + HeaderSize)
    BY <1>5, <2>2, PieceBytes
  <2> QED  BY <2>1, <2>2, <2>3
<1>7. Unread(c)'
  <2>1. Stage(c)' # "Connected"
    BY <1>1 DEF Staged, Stage
  <2> QED  BY <1>1, <1>5, <1>6, <2>1 DEF Unread
<1>8. Decoded(c)' = Decoded(c)
  <2>1. Decoded(c) = Kept(Piece(c, 0, u), Output)
    BY DEF Decoded, Used, u
  <2>2. Decoded(c)' = Kept(Piece(c, 0, Used(c)'), Output')
    BY DEF Decoded, Used
  <2> QED  BY <1>1, <1>4, <1>6, <2>1, <2>2, AnswerStays
<1>9. Forwarded' = Forwarded
  BY <1>1, AnswerStays DEF Forwarded
<1>10. Used(c)' > u
  BY <1>2, <1>6
<1> QED  BY <1>1, <1>7, <1>8, <1>9, <1>10 DEF Brought, Parsed, u

LEMMA RecordFits ==
  ASSUME NEW u \in Nat, NEW g \in Nat, NEW total \in Nat, NEW n \in Nat, NEW padding \in Nat,
         NEW size, size = 8 + n + padding, size <= g - u, g <= total, NEW w, w = u + size
  PROVE  /\ size \in 0 .. g - u /\ g - u \in size .. g - u /\ u + (g - u) = g
         /\ w <= g /\ w \in Nat
         /\ 8 \in 0 .. g - u /\ 8 + n \in 8 .. g - u
         /\ u + (8 + n) = u + 8 + n /\ u + 8 <= u + 8 + n
         /\ u + 8 \in 0 .. total /\ u + 8 + n \in 0 .. total
OBVIOUS

\* A record goes to the output as a whole, or it is none.
LEMMA ConsumeStep ==
  ASSUME TypeOK, IsSequence(client), NEW c \in Copies, Staged(c), Unread(c), Brought(c), Consume(c)
  PROVE  /\ Unread(c)' /\ Brought(c)' /\ Used(c)' >= Used(c)
         /\ ~prov'[c].isStderr => Parsed(c)' = Parsed(c)
<1>0. DOMAIN prov = Copies /\ IsProvider(prov[c])
  BY ProvidersAre
<1> DEFINE u == Used(c)
           r == First
           n == Len(r.content)
           w == u + Size(r)
           content == Piece(c, u + HeaderSize, u + HeaderSize + n)
           D(v) == Kept(Piece(c, 0, v), Output)
<1>1. /\ answer' = answer /\ client' = client /\ got' = got /\ Consuming(c) /\ pc = <<"consume", c>>
      /\ prov'[c].stage = prov[c].stage /\ prov'[c].end = prov[c].end
      /\ prov'[c].isStderr = FALSE => prov[c].isStderr = FALSE /\ TheHeader.type # Stderr
  <2>1. /\ answer' = answer /\ client' = client /\ got' = got /\ Consuming(c) /\ pc = <<"consume", c>>
    BY DEF Consume, Consuming, At
  <2>2. prov' = IF TheHeader.type = Stderr /\ ~prov[c].isStderr
                THEN [prov EXCEPT ![c].isStderr = TRUE, ![c].code = 400] ELSE prov
    BY DEF Consume
  <2>3. prov[c].isStderr \in BOOLEAN
    BY <1>0 DEF IsProvider
  <2> QED  BY <1>0, <2>1, <2>2, <2>3 DEF IsProvider, NewProvider
<1>2. /\ u \in 0 .. Total /\ u < Total /\ got[c] \in 0 .. Total /\ u <= got[c]
      /\ Len(buffer) = got[c] - u /\ buffer[1].at = u + 1 /\ Before(buffer[1].at) = u
      /\ Total \in Nat /\ HeaderSize = 8 /\ ~prov[c].end
      /\ buffer = Piece(c, u, got[c]) /\ HeadFirst
  BY <1>1, LoneHead, TotalIs DEF Consuming, HeaderSize, Unread
<1>3. buffer[1].at \in 1 .. Total /\ answer.bytes[buffer[1].at].at = 1 /\ r = TheRecord(buffer[1].at)
  BY <1>2 DEF HeadFirst, First
<1>4. /\ TheHeader.type = r.type /\ TheHeader.contentLength = n /\ RecordSize(TheHeader) = Size(r)
  BY <1>1, <1>2, HeaderMeans
<1>5. /\ u \in Nat /\ w \in 0 .. Total /\ Size(r) = HeaderSize + n + r.padding
      /\ n \in Nat /\ r.padding \in Nat /\ AtRecord(w) /\ D(u) \in Seq(SentBytes)
      /\ r.type = Stdout => D(w) = D(u) \o content
      /\ r.type # Stdout => D(w) = D(u)
  BY <1>2, <1>3, RecordOutput
<1>6. /\ Size(r) <= Len(buffer)
      /\ buffer' = SubSeq(buffer, Size(r) + 1, Len(buffer))
      /\ ~prov[c].isStderr /\ r.type = Stdout =>
           out' = out \o SubSeq(buffer, HeaderSize + 1, HeaderSize + n)
      /\ ~prov[c].isStderr /\ r.type # Stdout /\ r.type # Stderr => out' = out
  <2>1. RecordSize(TheHeader) <= Len(buffer) /\ buffer' = Dropped(RecordSize(TheHeader))
    BY DEF Consume
  <2>2. /\ ~prov[c].isStderr /\ TheHeader.type = Stdout =>
             out' = out \o SubSeq(buffer, HeaderSize + 1, HeaderSize + TheHeader.contentLength)
        /\ ~prov[c].isStderr /\ TheHeader.type # Stdout /\ TheHeader.type # Stderr => out' = out
    <3>1. out' = IF TheHeader.type = Stderr
                 THEN (IF prov[c].isStderr THEN out ELSE <<>>)
                        \o SubSeq(buffer, HeaderSize + 1, HeaderSize + TheHeader.contentLength)
                 ELSE IF TheHeader.type = Stdout /\ ~prov[c].isStderr
                 THEN out \o SubSeq(buffer, HeaderSize + 1, HeaderSize + TheHeader.contentLength)
                 ELSE out
      BY DEF Consume
    <3>2. Stdout # Stderr
      BY DEF Stdout, Stderr
    <3> QED  BY <3>1, <3>2
  <2> HIDE DEF r, n
  <2> QED  BY <1>4, <2>1, <2>2 DEF Dropped
<1> HIDE DEF u, r, n, D
<1>14. /\ Size(r) \in 0 .. got[c] - u /\ got[c] - u \in Size(r) .. got[c] - u
      /\ u + (got[c] - u) = got[c] /\ w <= got[c] /\ w \in Nat /\ got[c] \in Nat
      /\ 8 \in 0 .. got[c] - u /\ 8 + n \in 8 .. got[c] - u
      /\ u + (8 + n) = u + 8 + n /\ u + 8 <= u + 8 + n
      /\ u + 8 \in 0 .. Total /\ u + 8 + n \in 0 .. Total
  <2>1. Size(r) = 8 + n + r.padding /\ Size(r) <= got[c] - u
    BY <1>2, <1>5, <1>6
  <2>2. got[c] \in Nat /\ got[c] <= Total
    BY <1>2
  <2> HIDE DEF w
  <2>3. w = u + Size(r)
    BY DEF w
  <2>4. u \in Nat /\ Total \in Nat /\ n \in Nat /\ r.padding \in Nat
    BY <1>2, <1>5
  <2> DEFINE size == Size(r)
             g == got[c]
             padding == r.padding
  <2> HIDE DEF size, g, padding
  <2>5. size = 8 + n + padding /\ size <= g - u /\ g \in Nat /\ g <= Total /\ w = u + size
        /\ padding \in Nat
    BY <2>1, <2>2, <2>3, <2>4 DEF size, g, padding
  <2> QED  BY <2>4, <2>5, RecordFits DEF size, g
<1>7. SubSeq(buffer, HeaderSize + 1, HeaderSize + n) = content /\ content \in Seq(SentBytes)
  <2> DEFINE g == got[c]
             k == 8 + n
  <2>0. u \in 0 .. Total /\ g \in 0 .. Total /\ u <= g /\ 8 \in 0 .. g - u /\ k \in 8 .. g - u
    BY <1>2, <1>14
  <2> HIDE DEF g, k
  <2>1. SubSeq(Piece(c, u, g), 8 + 1, k) = Piece(c, u + 8, u + k)
    BY <2>0, PieceSub
  <2>2. Piece(c, u + 8, u + 8 + n) \in Seq(SentBytes)
    BY <1>14, PieceIs
  <2>3. content = Piece(c, u + 8, u + 8 + n)
    BY <1>2
  <2> QED  BY <1>2, <1>14, <2>1, <2>2, <2>3 DEF g, k
<1> HIDE DEF w, content
<1>8. buffer' = Piece(c, w, got[c]) /\ w <= got[c] /\ w \in Nat
  <2> DEFINE size == Size(r)
             g == got[c]
             k == g - u
  <2>0. u \in 0 .. Total /\ g \in 0 .. Total /\ u <= g /\ size \in 0 .. g - u /\ k \in size .. g - u
    BY <1>2, <1>14
  <2> HIDE DEF size, g, k
  <2>1. SubSeq(Piece(c, u, g), size + 1, k) = Piece(c, u + size, u + k)
    BY <2>0, PieceSub
  <2>2. buffer' = SubSeq(Piece(c, u, got[c]), Size(r) + 1, got[c] - u)
    BY <1>2, <1>6
  <2> QED  BY <1>14, <2>1, <2>2 DEF w, size, g, k
<1>9. Used(c)' = w
  <2>1. Used(c)' = got[c] - Len(buffer')
    BY <1>1 DEF Used
  <2>2. got[c] \in Nat
    BY <1>2
  <2>3. Len(buffer') = got[c] - w
    BY <1>8, <2>2, PieceBytes
  <2> QED  BY <1>8, <2>1, <2>2, <2>3
<1>10. Unread(c)'
  <2>1. Stage(c)' # "Connected"
    BY <1>1 DEF Staged, Stage
  <2>2. AtRecord(Used(c))'
    BY <1>1, <1>5, <1>9 DEF AtRecord
  <2> QED  BY <1>1, <1>8, <1>9, <2>1, <2>2 DEF Unread
<1>11. Decoded(c) = D(u) /\ Decoded(c)' = D(w)
  <2>1. Decoded(c) = Kept(Piece(c, 0, u), Output)
    BY DEF Decoded, Used, u
  <2>2. Decoded(c)' = Kept(Piece(c, 0, Used(c)'), Output')
    BY DEF Decoded, Used
  <2>3. Output' = Output
    BY <1>1, AnswerStays
  <2> QED  BY <1>9, <2>1, <2>2, <2>3 DEF D
<1>12. Forwarded' = Forwarded
  BY <1>1, AnswerStays DEF Forwarded
<1>13. Brought(c)' /\ (~prov'[c].isStderr => Parsed(c)' = Parsed(c))
  <2> SUFFICES ASSUME ~prov'[c].isStderr
               PROVE  /\ EndsWith(D(w), Forwarded \o out')
                      /\ Len(D(w)) - Len(Forwarded \o out') = Len(D(u)) - Len(Forwarded \o out)
    BY <1>11, <1>12 DEF Brought, Parsed
  <2>0. prov'[c].isStderr = FALSE
    <3>1. IsProvider(prov'[c])
      BY ProvidersStay, Touched DEF Poll
    <3> QED  BY <3>1 DEF IsProvider
  <2>1. ~prov[c].isStderr /\ r.type # Stderr
    BY <1>1, <1>4, <2>0
  <2>2. EndsWith(D(u), Forwarded \o out)
    BY <1>11, <2>1 DEF Brought
  <2>3. CASE r.type # Stdout
    BY <1>5, <1>6, <2>1, <2>2, <2>3
  <2>4. CASE r.type = Stdout
    <3>1. out' = out \o content /\ D(w) = D(u) \o content
      BY <1>5, <1>6, <1>7, <2>1, <2>4
    <3>2. Forwarded \in Seq(SentBytes) /\ out \in Seq(SentBytes)
      BY ForwardedMeans, ForwardedIs DEF TypeOK
    <3>3. (Forwarded \o out) \o content = Forwarded \o (out \o content)
      BY <1>7, <3>2, Associative
    <3> DEFINE f == Forwarded \o out
    <3> HIDE DEF f
    <3>4. EndsWith(D(u) \o content, f \o content)
      BY <1>5, <1>7, <2>2, EndsWithMore DEF f
    <3>5. f \in Seq(SentBytes)
      BY <3>2 DEF f
    <3>6. Len(D(u) \o content) = Len(D(u)) + Len(content) /\ Len(f \o content) = Len(f) + Len(content)
      BY <1>5, <1>7, <3>5
    <3>7. Len(D(u)) \in Nat /\ Len(f) \in Nat /\ Len(content) \in Nat
      BY <1>5, <1>7, <3>5
    <3> QED  BY <3>1, <3>3, <3>4, <3>6, <3>7 DEF f
  <2> QED  BY <2>3, <2>4
<1>15. w >= u
  BY <1>2, <1>5 DEF w
<1> QED  BY <1>9, <1>10, <1>13, <1>15 DEF u

LEMMA NothingForwarded == client = <<>> => Forwarded = <<>>
<1> SUFFICES ASSUME client = <<>> PROVE Forwarded = <<>>
  OBVIOUS
<1>1. Kept(<<>>, Items) = <<>>
  BY NothingKept
<1>2. Unwrapped(<<>>) = <<>>
  BY DEF Unwrapped
<1> QED  BY <1>1, <1>2, ForwardedMeans DEF ForwardedOf

\* parse() reads from the front of the output before anything is forwarded.
LEMMA ParseStep ==
  ASSUME TypeOK, NEW c \in Copies, Staged(c), Unread(c), Brought(c), Scan(c) \/ EndLine(c)
  PROVE  Unread(c)' /\ Brought(c)'
<1>0. DOMAIN prov = Copies /\ IsProvider(prov[c])
  BY ProvidersAre
<1>1. /\ answer' = answer /\ client' = client /\ got' = got /\ buffer' = buffer
      /\ Len(out) > 1 /\ pc = <<"parse", c>>
  BY DEF Scan, EndLine, Parsing, At
<1>2. /\ prov'[c].end = prov[c].end /\ prov'[c].isStderr = prov[c].isStderr
      /\ Stage(c)' = Stage(c)
  <2>1. CASE Scan(c)
    BY <2>1 DEF Scan, Stage
  <2>2. CASE EndLine(c)
    BY <1>0, <2>2 DEF EndLine, Entered, Stage, IsProvider, NewProvider
  <2> QED  BY <2>1, <2>2
<1>3. out \in Seq(SentBytes) /\ Len(out) \in Nat
  BY DEF TypeOK
<1>4. out' = SubSeq(out, 2, Len(out)) \/ out' = SubSeq(out, 3, Len(out))
  <2>1. CASE Scan(c)
    <3>1. out # <<>>
      BY <1>1
    <3> QED  BY <1>3, <2>1, <3>1, TailIsSubSeq DEF Scan
  <2>2. CASE EndLine(c)
    BY <2>2 DEF EndLine
  <2> QED  BY <2>1, <2>2
<1>5. PICK m \in 0 .. Len(out) : out' = SubSeq(out, m + 1, Len(out))
  <2>1. 1 \in 0 .. Len(out) /\ 1 + 1 = 2 /\ 2 \in 0 .. Len(out) /\ 2 + 1 = 3
    BY <1>1, <1>3
  <2> QED  BY <1>4, <2>1
<1>6. client = <<>> /\ Forwarded = <<>>
  BY <1>1, NothingForwarded DEF Staged
<1>7. Unread(c)'
  <2>1. Used(c)' = Used(c)
    BY <1>1 DEF Used
  <2> QED  BY <1>1, <1>2, <2>1, AnswerStays DEF Unread
<1>8. Decoded(c)' = Decoded(c) /\ Forwarded' = Forwarded
  BY <1>1, AnswerStays DEF Decoded, Forwarded
<1>9. Brought(c)'
  <2> SUFFICES ASSUME ~prov'[c].isStderr PROVE EndsWith(Decoded(c), <<>> \o out')
    BY <1>6, <1>8 DEF Brought
  <2>1. EndsWith(Decoded(c), <<>> \o out)
    BY <1>2, <1>6 DEF Brought
  <2>2. <<>> \o out = out
    BY <1>3, ConcatEmptySeq
  <2>3. out' \in Seq(SentBytes)
    BY <1>3, <1>5, SuffixIs
  <2>4. <<>> \o out' = out'
    BY <2>3, ConcatEmptySeq
  <2>5. Decoded(c) \in Seq(SentBytes)
    <3>1. Used(c) \in 0 .. Total
      BY TotalIs DEF Unread, Used, TypeOK
    <3>2. Kept(Piece(c, 0, Used(c)), Output) \in Seq(SentBytes)
      BY <3>1, OutputOf
    <3> QED  BY <3>2 DEF Decoded, Used
  <2>6. EndsWith(Decoded(c), SubSeq(out, m + 1, Len(out)))
    BY <1>3, <2>1, <2>2, <2>5, EndsWithLess
  <2> QED  BY <1>5, <2>4, <2>6
<1> QED  BY <1>7, <1>9

\* What provide() forwards it takes from the output.
LEMMA ProvideTakes ==
  ASSUME Counted, NEW c \in Copies, Staged(c), Unread(c), Brought(c), Provide(c)
  PROVE  Unread(c)' /\ Brought(c)' /\ Parsed(c)' = Parsed(c)
<1>0. TypeOK /\ IsSequence(client) /\ out \in Seq(SentBytes) /\ Len(out) \in Nat
      /\ DOMAIN prov = Copies /\ IsProvider(prov[c])
  BY ProvidersAre DEF Counted, TypeOK
<1>1. PICK n \in 0 .. Len(out) :
        /\ client' = client \o Opening(c) \o [k \in 1 .. n |-> <<"byte", out[k]>>]
        /\ out' = SubSeq(out, n + 1, Len(out))
        /\ \E s \in {"Done", prov[c].stage} : prov' = [prov EXCEPT ![c].provided = TRUE, ![c].stage = s]
  <2>1. PICK room \in Rooms :
          LET n == IF Len(out) < room THEN Len(out) ELSE room
          IN  /\ client' = client \o Opening(c) \o [k \in 1 .. n |-> <<"byte", out[k]>>]
              /\ out' = Rest(n)
              /\ prov' = [prov EXCEPT ![c].provided = TRUE,
                                      ![c].stage = IF ForwardEnd(c, n) THEN "Done" ELSE @]
    BY DEF Provide
  <2>2. (IF Len(out) < room THEN Len(out) ELSE room) \in 0 .. Len(out)
    BY <1>0, RoomAssumption
  <2> QED  BY <2>1, <2>2 DEF Rest
<1>2. /\ answer' = answer /\ got' = got /\ buffer' = buffer /\ pc = <<"provide", c>>
      /\ prov[c].stage = "Forwarding"
  BY DEF Provide, At, Staged, Stage
<1>3. /\ prov'[c].end = prov[c].end /\ prov'[c].isStderr = prov[c].isStderr
      /\ Stage(c)' # "Connected"
  BY <1>0, <1>1, <1>2 DEF Stage, IsProvider, NewProvider
<1>4. Unread(c)'
  <2>1. Used(c)' = Used(c)
    BY <1>2 DEF Used
  <2> QED  BY <1>2, <1>3, <2>1, AnswerStays DEF Unread
<1>5. Decoded(c)' = Decoded(c)
  BY <1>2, AnswerStays DEF Decoded
<1>6. IsSequence(Opening(c)) /\ \A k \in 1 .. Len(Opening(c)) : Opening(c)[k][1] # "byte"
  <2>1. CASE prov[c].provided
    <3>1. Opening(c) = <<>>
      BY <2>1 DEF Opening
    <3>2. 1 .. Len(<<>>) = {}
      OBVIOUS
    <3> QED  BY <3>1, <3>2, EmptyIs
  <2>2. CASE ~prov[c].provided
    <3>1. PICK e : Opening(c) = <<e>> /\ e[1] \in {"head", "error"}
      <4>1. CASE prov[c].isStderr
        BY <2>2, <4>1 DEF Opening
      <4>2. CASE ~prov[c].isStderr
        BY <2>2, <4>2 DEF Opening
      <4> QED  BY <4>1, <4>2
    <3>2. <<e>> \in Seq({e}) /\ \A k \in 1 .. Len(<<e>>) : <<e>>[k] = e
      OBVIOUS
    <3> QED  BY <3>1, <3>2 DEF IsSequence
  <2> QED  BY <2>1, <2>2
<1>7. Forwarded' = Forwarded \o SubSeq(out, 1, n)
  <2> DEFINE o == Opening(c)
  <2> HIDE DEF o
  <2>1. IsSequence(o) /\ \A k \in 1 .. Len(o) : o[k][1] # "byte"
    BY <1>6 DEF o
  <2>2. ForwardedOf(client \o o \o [k \in 1 .. n |-> <<"byte", out[k]>>])
          = ForwardedOf(client) \o SubSeq(out, 1, n)
    BY <1>0, <2>1, ForwardedMore
  <2>3. Forwarded' = ForwardedOf(client')
    <3>1. Forwarded' = Unwrapped(Kept(client', Items'))
      BY DEF Forwarded, Unwrapped, Items
    <3> QED  BY <1>2, <3>1, AnswerStays DEF ForwardedOf
  <2> QED  BY <1>1, <2>2, <2>3, ForwardedMeans DEF o
<1>8. Forwarded' \o out' = Forwarded \o out
  <2> DEFINE x == SubSeq(out, 1, n)
             y == SubSeq(out, n + 1, Len(out))
  <2>1. x \in Seq(SentBytes) /\ y \in Seq(SentBytes) /\ x \o y = out
    BY <1>0, PrefixIs, SuffixIs
  <2>2. Forwarded \in Seq(SentBytes)
    BY <1>0, ForwardedMeans, ForwardedIs
  <2> DEFINE f == Forwarded
  <2> HIDE DEF x, y, f
  <2>3. f \in Seq(SentBytes) /\ x \in Seq(SentBytes) /\ y \in Seq(SentBytes)
    BY <2>1, <2>2 DEF f
  <2>4. (f \o x) \o y = f \o (x \o y)
    BY <2>3, Associative
  <2> QED  BY <1>1, <1>7, <2>1, <2>4 DEF x, y, f
<1>9. Brought(c)' /\ Parsed(c)' = Parsed(c)
  BY <1>3, <1>5, <1>8 DEF Brought, Parsed
<1> QED  BY <1>4, <1>9

LEMMA LoneStays ==
  ASSUME Counted, NEW c \in Copies, Lone(c), Poll(c) \/ Gateway(c)
  PROVE  Lone(c)'
<1>0. /\ TypeOK /\ IsSequence(client) /\ Staged(c) /\ Unread(c) /\ Brought(c)
      /\ DOMAIN prov = Copies /\ IsProvider(prov[c])
  BY ProvidersAre DEF Counted, Lone
<1>1. Staged(c)'
  BY <1>0, StagedStays
<1>2. CASE MakeRequest(c)
  <2>1. got[c] = 0 /\ Used(c) = 0 /\ buffer = <<>>
    <3>1. got[c] = 0 /\ Stage(c) = "Connected"
      BY <1>0, <1>2 DEF MakeRequest, Unread
    <3>2. Len(buffer) = 0
      BY <1>0, <3>1 DEF Unread, Used, TypeOK
    <3>3. buffer = <<>>
      BY <1>0, <3>2 DEF TypeOK
    <3> QED  BY <3>1, <3>2, <3>3 DEF Used
  <2>2. /\ answer' = answer /\ got' = got /\ buffer' = buffer /\ out' = out /\ client' = client
        /\ prov'[c].end = prov[c].end /\ prov'[c].isStderr = prov[c].isStderr
        /\ Stage(c)' = "Recving"
    BY <1>0, <1>2, <2>1 DEF MakeRequest, Stage, IsProvider, NewProvider
  <2> QED  BY <1>0, <1>1, <2>2, QuietStep DEF Lone
<1>3. CASE ReadEvent(c) \/ ReceiveAgain(c)
  <2>1. Receive(c)
    BY <1>3 DEF ReadEvent, ReceiveAgain
  <2>2. Stage(c) # "Connected"
    BY <1>0, <1>3 DEF ReadEvent, ReceiveAgain, At, Staged
  <2> QED  BY <1>0, <1>1, <2>1, <2>2, ReceiveStep DEF Lone
<1>4. CASE ConsumeEmpty(c)
  BY <1>0, <1>1, <1>4, ConsumeEmptyStep DEF Lone
<1>5. CASE Consume(c)
  BY <1>0, <1>1, <1>5, ConsumeStep DEF Lone
<1>6. CASE Judge(c)
  <2>1. /\ answer' = answer /\ got' = got /\ buffer' = buffer /\ out' = out /\ client' = client
        /\ prov' = prov \/ prov' = [prov EXCEPT ![c].stage = "Forwarding"]
    BY <1>6 DEF Judge
  <2>2. /\ prov'[c].end = prov[c].end /\ prov'[c].isStderr = prov[c].isStderr
        /\ Stage(c)' = "Connected" => Stage(c) = "Connected"
    BY <1>0, <2>1 DEF Stage, IsProvider, NewProvider
  <2> QED  BY <1>0, <1>1, <2>1, <2>2, QuietStep DEF Lone
<1>7. CASE Scan(c) \/ EndLine(c)
  BY <1>0, <1>1, <1>7, ParseStep DEF Lone
<1>8. CASE Provide(c)
  BY <1>0, <1>1, <1>8, ProvideTakes DEF Lone
<1>9. CASE \/ ThrowAtPadding(c) \/ Spin(c) \/ Garbled(c) \/ ConsumeReturns(c)
           \/ ThrowAtStatus(c) \/ ParseReturns(c) \/ Gateway(c)
  <2>1. /\ answer' = answer /\ got' = got /\ buffer' = buffer /\ out' = out /\ client' = client
        /\ prov' = prov
    BY <1>9 DEF ThrowAtPadding, Spin, Garbled, ConsumeReturns, ThrowAtStatus, ParseReturns,
                Gateway, Hangup, Arrive
  <2>2. Stage(c)' = Stage(c)
    BY <2>1 DEF Stage
  <2> QED  BY <1>0, <1>1, <2>1, <2>2, QuietStep DEF Lone
<1> QED  BY <1>2, <1>3, <1>4, <1>5, <1>6, <1>7, <1>8, <1>9 DEF Poll

\* Nobody else moves: at most more of an answer arrives that nobody asked for.
LEMMA OthersRest ==
  ASSUME NEW c \in Copies, Lone(c), NEW d \in Copies, d # c, Poll(d) \/ Gateway(d)
  PROVE  UNCHANGED <<answer, eof, got, cut, buffer, out, prov, local, pc, client>>
<1>1. Stage(d) = "None" /\ (pc[1] \in Busy => pc[2] = c)
  BY DEF Lone, Staged
<1>2. \A place \in Busy : ~At(place, d)
  BY <1>1 DEF At
<1>3. ~Poll(d)
  BY <1>1, <1>2
  DEF Poll, Busy, MakeRequest, ReadEvent, ReceiveAgain, ConsumeEmpty, Consume, ThrowAtPadding,
      Spin, Garbled, Consuming, ConsumeReturns, Judge, Scan, EndLine, ThrowAtStatus, Parsing,
      ParseReturns, Provide
<1>4. ~Hangup(d)
  BY <1>1 DEF Hangup
<1> QED  BY <1>3, <1>4 DEF Gateway, Arrive

LEMMA LoneSame ==
  ASSUME NEW c, Lone(c), UNCHANGED <<answer, got, buffer, out, prov, pc, client>>
  PROVE  Lone(c)'
<1>1. Staged(c)'
  BY DEF Lone, Staged, Stage
<1>2. Unread(c)'
  BY AnswerStays DEF Lone, Unread, Used, Stage
<1>3. Brought(c)'
  BY AnswerStays DEF Lone, Brought, Decoded, Forwarded
<1> QED  BY <1>1, <1>2, <1>3 DEF Lone

LEMMA InitSolo == Init => Solo
<1> SUFFICES ASSUME Init PROVE Solo
  OBVIOUS
<1>1. Counted
  BY InitCounted
<1>2. ASSUME NEW c \in Copies, answer.copies = {c} PROVE Lone(c)
  <2>1. /\ got[c] = 0 /\ buffer = <<>> /\ out = <<>> /\ pc[1] = "rest" /\ client = <<>>
        /\ prov[c] = NewProvider /\ \A d \in Copies : d # c => Stage(d) = "None"
    BY <1>2 DEF Init, Stage, NewProvider
  <2>2. Used(c) = 0
    <3>1. Len(<<>>) = 0 /\ 0 - 0 = 0
      OBVIOUS
    <3> QED  BY <2>1, <3>1 DEF Used
  <2>3. Piece(c, 0, 0) = <<>>
    BY DEF Piece
  <2>4. Staged(c)
    BY <2>1 DEF Staged, Stage, Busy, NewProvider
  <2>5. Unread(c)
    BY <2>1, <2>2, <2>3 DEF Unread, AtRecord
  <2>6. Decoded(c) = <<>>
    <3>1. Kept(<<>>, Output) = <<>>
      BY NothingKept
    <3>2. Decoded(c) = Kept(Piece(c, 0, Used(c)), Output)
      BY DEF Decoded, Used
    <3> QED  BY <2>2, <2>3, <3>1, <3>2
  <2>7. Forwarded = <<>> /\ <<>> \o <<>> = <<>>
    BY <2>1, NothingForwarded
  <2>8. EndsWith(<<>>, <<>>)
    <3>1. 0 \in 0 .. Len(<<>>) /\ SubSeq(<<>>, 0 + 1, Len(<<>>)) = <<>>
      OBVIOUS
    <3> QED  BY <3>1 DEF EndsWith
  <2>9. Brought(c)
    BY <2>1, <2>6, <2>7, <2>8 DEF Brought
  <2> QED  BY <2>4, <2>5, <2>9 DEF Lone
<1> QED  BY <1>1, <1>2 DEF Solo

LEMMA NextSolo == Solo /\ [Next]_vars => Solo'
<1> SUFFICES ASSUME Solo, [Next]_vars PROVE Solo'
  OBVIOUS
<1>1. Counted /\ Counted'
  BY NextCounted DEF Solo
<1>2. answer' = answer
  <2>1. pc[1] \in Places
    BY <1>1 DEF Counted, TypeOK, Places
  <2> QED  BY <2>1, PlacesStay DEF Next, vars
<1>3. ASSUME NEW c \in Copies, answer.copies = {c} PROVE Lone(c)'
  <2>1. Lone(c)
    BY <1>3 DEF Solo
  <2>2. CASE UNCHANGED vars
    BY <2>1, <2>2, LoneSame DEF vars
  <2>3. ASSUME NEW d \in Copies, Poll(d) \/ Gateway(d) PROVE Lone(c)'
    <3>1. CASE d = c
      BY <1>1, <2>1, <2>3, <3>1, LoneStays
    <3>2. CASE d # c
      BY <2>1, <2>3, <3>2, OthersRest, LoneSame
    <3> QED  BY <3>1, <3>2
  <2> QED  BY <2>2, <2>3 DEF Next
<1> QED  BY <1>1, <1>2, <1>3 DEF Solo

LEMMA SoloAlways == Spec => []Solo
BY InitSolo, NextSolo, PTL DEF Spec

LEMMA AloneIsOne ==
  ASSUME TypeOK, Alone, NEW c \in answer.copies
  PROVE  c \in Copies /\ answer.copies = {c}
<1>1. answer.copies \subseteq Copies
  BY AnswersAssumption DEF TypeOK
<1>2. IsFiniteSet(answer.copies)
  BY <1>1, CopiesAssumption, FS_Subset
<1>3. PICK x : answer.copies = {x}
  BY <1>2, FS_Singleton DEF Alone
<1> QED  BY <1>1, <1>3

\* Of the answer to a provider that is alone nothing is lost, doubled or put
\* out of order behind its fields, wherever the pieces end in which it arrives.
THEOREM NoneLost == Spec => []NothingLost
<1>1. Solo => NothingLost
  BY AloneIsOne DEF Solo, Counted, Lone, Brought, NothingLost
<1> QED  BY <1>1, SoloAlways, PTL

-----------------------------------------------------------------------------
(* Answers that come in whole records. *)

LEMMA RecordThere ==
  ASSUME TypeOK, NEW p \in 1 .. Total
  PROVE  TheRecord(p) \in Range(answer.records)
<1>1. answer \in Answers /\ p \in 1 .. Len(answer.bytes)
  BY DEF TypeOK, Total
<1>2. PICK i, k : InRecord(answer, p, i, k)
  BY <1>1, BytesAre
<1> DEFINE r == answer.records[i]
<1>3. i \in DOMAIN answer.records /\ k \in 1 .. Size(r) /\ k <= p
  BY <1>2 DEF InRecord
<1>4. r \in Record /\ answer.bytes[(p - k) + k] = RecordBytes(i, r)[k]
  <2>1. answer.records \in Seq(Record)
    BY <1>1, BytesAre
  <2>2. r \in Record
    BY <1>3, <2>1
  <2> QED  BY <1>2, <1>3, <2>2 DEF InRecord
<1>5. (p - k) + k = p
  <2>1. Size(r) \in Nat
    BY <1>4, RecordIs
  <2> QED  BY <1>1, <1>3, <2>1
<1> HIDE DEF r
<1>6. answer.bytes[p].record = i
  BY <1>3, <1>4, <1>5, RecordByteIs
<1> QED  BY <1>3, <1>6 DEF TheRecord, Range, r

\* The induction: while no read has ended inside a record, what was read of
\* each copy ends with one, and so does what the copies' buffer holds.
WholeReads == ~cut => \A c \in Copies : AtRecord(got[c])
WholeBuffer == ~cut /\ ~PaddedEnd => WholeRecords(buffer)
Unbroken == WholeReads /\ WholeBuffer

LEMMA WholeStays ==
  ASSUME answer' = answer, WholeRecords(buffer') PROVE WholeRecords(buffer)'
BY DEF WholeRecords, WholeAt, TheRecord, Before

LEMMA PaddedStays == ASSUME answer' = answer PROVE PaddedEnd' = PaddedEnd
BY DEF PaddedEnd, Range

LEMMA NothingIsWhole == WholeRecords(<<>>)
BY DEF WholeRecords

\* A read that ends where a record does leaves whole records.
LEMMA ReadIsWhole ==
  ASSUME TypeOK, Unbroken, NEW c \in Copies, Receive(c)
  PROVE  Unbroken'
<1>1. /\ answer' = answer /\ buffer' = buffer \o Piece(c, got[c], arrived[c])
      /\ got' = [got EXCEPT ![c] = arrived[c]]
      /\ cut' = (cut \/ (arrived[c] > 0 /\ ~Byte([at |-> arrived[c]]).last))
  BY DEF Receive
<1>2. /\ got \in [Copies -> 0 .. Total] /\ arrived[c] \in 0 .. Total /\ got[c] <= arrived[c]
      /\ Total \in Nat /\ got[c] \in 0 .. Total
  BY TotalIs DEF TypeOK
<1>3. ASSUME ~cut' PROVE ~cut /\ AtRecord(arrived[c])
  <2>1. ~cut /\ (arrived[c] > 0 => answer.bytes[arrived[c]].last)
    BY <1>1, <1>3 DEF Byte
  <2> QED  BY <1>2, <2>1 DEF AtRecord
<1>4. WholeReads'
  <2> SUFFICES ASSUME ~cut', NEW d \in Copies PROVE AtRecord(got'[d])
    BY <1>1, AnswerStays DEF WholeReads
  <2>1. CASE d = c
    BY <1>1, <1>2, <1>3, <2>1
  <2>2. CASE d # c
    BY <1>1, <1>2, <1>3, <2>2 DEF Unbroken, WholeReads
  <2> QED  BY <2>1, <2>2
<1>5. WholeBuffer'
  <2> SUFFICES ASSUME ~cut', ~PaddedEnd PROVE WholeRecords(buffer')
    BY <1>1, PaddedStays, WholeStays DEF WholeBuffer
  <2>1. AtRecord(got[c]) /\ AtRecord(arrived[c]) /\ WholeRecords(buffer)
    BY <1>3 DEF Unbroken, WholeReads, WholeBuffer
  <2> DEFINE t == Piece(c, got[c], arrived[c])
  <2>2. WholeRecords(t)
    BY <1>2, <2>1, PieceIsWhole
  <2>3. t \in Seq(SentBytes)
    BY <1>2, PieceIs
  <2>4. buffer \in Seq(SentBytes)
    BY DEF TypeOK
  <2> HIDE DEF t
  <2>5. WholeRecords(buffer \o t)
    BY <2>1, <2>2, <2>3, <2>4, WholeOfBoth
  <2> QED  BY <1>1, <2>5 DEF t
<1> QED  BY <1>4, <1>5 DEF Unbroken

\* A record is taken out of the buffer as a whole, an empty one if it has no
\* padding.
LEMMA TakenIsWhole ==
  ASSUME TypeOK, Unbroken, NEW c \in Copies, Consume(c) \/ ConsumeEmpty(c)
  PROVE  Unbroken'
<1>1. answer' = answer /\ got' = got /\ cut' = cut /\ Consuming(c)
  BY DEF Consume, ConsumeEmpty
<1>2. WholeReads'
  BY <1>1, AnswerStays DEF Unbroken, WholeReads
<1>3. WholeBuffer'
  <2> SUFFICES ASSUME ~cut, ~PaddedEnd PROVE WholeRecords(buffer')
    BY <1>1, PaddedStays, WholeStays DEF WholeBuffer
  <2>1. WholeRecords(buffer) /\ Len(buffer) > 0
    <3>1. Len(buffer) \in Nat /\ Len(buffer) > 8
      BY <1>1 DEF Consuming, TypeOK, HeaderSize
    <3> QED  BY <3>1 DEF Unbroken, WholeBuffer
  <2>2. HeadFirst
    BY <2>1, WholeStarts
  <2>3. /\ First \in Record /\ buffer[1].at \in 1 .. Total
        /\ TheHeader.contentLength = Len(First.content) /\ RecordSize(TheHeader) = Size(First)
    BY <1>1, <2>2, HeaderMeans
  <2>4. buffer' = Dropped(Size(First))
    <3>1. CASE Consume(c)
      BY <2>3, <3>1 DEF Consume
    <3>2. CASE ConsumeEmpty(c)
      <4>1. First.content = <<>>
        <5>1. First.content \in Seq(STRING)
          BY <2>3 DEF Record
        <5>2. Len(First.content) = 0
          BY <2>3, <3>2 DEF ConsumeEmpty
        <5> QED  BY <5>1, <5>2
      <4>2. First.padding = 0
        <5>1. First \in Range(answer.records)
          BY <2>3, RecordThere DEF First
        <5>2. First.padding \in Nat
          BY <2>3, RecordIs
        <5> QED  BY <4>1, <5>1, <5>2 DEF PaddedEnd
      <4>3. Size(First) = HeaderSize
        <5>1. Len(<<>>) = 0
          OBVIOUS
        <5> QED  BY <4>1, <4>2, <5>1 DEF Size, HeaderSize
      <4> QED  BY <3>2, <4>3 DEF ConsumeEmpty
    <3> QED  BY <3>1, <3>2
  <2> QED  BY <2>1, <2>4, RestIsWhole
<1> QED  BY <1>2, <1>3 DEF Unbroken

LEMMA BufferSame ==
  ASSUME Unbroken, answer' = answer, got' = got, cut' = cut, buffer' = buffer \/ buffer' = <<>>
  PROVE  Unbroken'
<1>1. WholeReads'
  BY AnswerStays DEF Unbroken, WholeReads
<1>2. WholeBuffer'
  <2> SUFFICES ASSUME ~cut, ~PaddedEnd PROVE WholeRecords(buffer')
    BY PaddedStays, WholeStays DEF WholeBuffer
  <2>1. WholeRecords(buffer)
    BY DEF Unbroken, WholeBuffer
  <2>2. CASE buffer' = buffer
    BY <2>1, <2>2
  <2>3. CASE buffer' = <<>>
    BY <2>3, NothingIsWhole
  <2> QED  BY <2>2, <2>3
<1> QED  BY <1>1, <1>2 DEF Unbroken

LEMMA UnbrokenStays ==
  ASSUME TypeOK, Unbroken, NEW c \in Copies, Poll(c) \/ Gateway(c)
  PROVE  Unbroken'
<1>1. CASE ReadEvent(c) \/ ReceiveAgain(c)
  <2>1. Receive(c)
    BY <1>1 DEF ReadEvent, ReceiveAgain
  <2> QED  BY <2>1, ReadIsWhole
<1>2. CASE Consume(c) \/ ConsumeEmpty(c)
  BY <1>2, TakenIsWhole
<1>3. CASE \/ MakeRequest(c) \/ ThrowAtPadding(c) \/ Spin(c) \/ Garbled(c) \/ ConsumeReturns(c)
           \/ Judge(c) \/ Scan(c) \/ EndLine(c) \/ ThrowAtStatus(c) \/ ParseReturns(c)
           \/ Provide(c) \/ Gateway(c)
  <2>1. /\ answer' = answer /\ got' = got /\ cut' = cut
        /\ buffer' = buffer \/ buffer' = <<>>
    BY <1>3 DEF MakeRequest, ThrowAtPadding, Spin, Garbled, ConsumeReturns, Judge, Scan, EndLine,
                ThrowAtStatus, ParseReturns, Provide, Gateway, Hangup, Arrive
  <2> QED  BY <2>1, BufferSame
<1> QED  BY <1>1, <1>2, <1>3 DEF Poll

\* What the decoder meets it stops at for the reasons that are known.
Excused(c) ==
  /\ (ThrowAtPadding(c) \/ Spin(c) \/ Garbled(c)) => cut \/ (PaddedEnd /\ ~Alone)
  /\ Garbled(c) => ~Alone

\* A header of which the whole record is there is not stopped at.
LEMMA WholeGoesOn ==
  ASSUME TypeOK, NEW c \in Copies, WholeRecords(buffer)
  PROVE  ~ThrowAtPadding(c) /\ ~Spin(c) /\ ~Garbled(c)
<1> SUFFICES ASSUME Consuming(c) PROVE ~ThrowAtPadding(c) /\ ~Spin(c) /\ ~Garbled(c)
  BY DEF ThrowAtPadding, Spin, Garbled
<1>1. Len(buffer) \in Nat /\ Len(buffer) > 0
  BY DEF Consuming, TypeOK, HeaderSize
<1>2. HeadFirst /\ Size(First) <= Len(buffer) /\ Size(First) \in Nat
  BY <1>1, WholeStarts
<1>3. /\ Aligned /\ First \in Record
      /\ TheHeader.contentLength = Len(First.content) /\ RecordSize(TheHeader) = Size(First)
  BY <1>2, HeaderMeans
<1>4. /\ Len(First.content) \in Nat /\ First.padding \in Nat
      /\ Size(First) = HeaderSize + Len(First.content) + First.padding
  BY <1>3, RecordIs DEF Size
<1>5. Len(buffer) >= HeaderSize + Len(First.content)
  BY <1>1, <1>2, <1>4 DEF HeaderSize
<1>6. ~Garbled(c)
  BY <1>3 DEF Garbled
<1>7. ~ThrowAtPadding(c)
  BY <1>1, <1>2, <1>3 DEF ThrowAtPadding
<1>8. ~Spin(c)
  BY <1>3, <1>5 DEF Spin, Whole
<1> QED  BY <1>6, <1>7, <1>8

LEMMA StopsExcused ==
  ASSUME Solo, Unbroken, NEW c \in Copies
  PROVE  Excused(c)
<1>0. TypeOK
  BY DEF Solo, Counted
<1>1. ASSUME Alone, Consuming(c) PROVE answer.copies = {c} /\ Lone(c)
  <2>1. PICK d : answer.copies = {d}
    <3>1. answer.copies \subseteq Copies
      BY <1>0, AnswersAssumption DEF TypeOK
    <3>2. IsFiniteSet(answer.copies)
      BY <3>1, CopiesAssumption, FS_Subset
    <3> QED  BY <1>1, <3>2, FS_Singleton DEF Alone
  <2>2. d \in Copies /\ Lone(d)
    <3>1. d \in Copies
      BY <1>0, <2>1, AnswersAssumption DEF TypeOK
    <3> QED  BY <2>1, <3>1 DEF Solo
  <2>3. pc[1] = "consume" /\ pc[2] = c
    BY <1>1 DEF Consuming, At
  <2>4. c = d
    BY <2>2, <2>3 DEF Lone, Staged, Busy
  <2> QED  BY <2>1, <2>2, <2>4
<1>2. ASSUME Alone, Consuming(c) PROVE Aligned
  BY <1>0, <1>1, <1>2, LoneHead, HeaderMeans DEF Lone
<1>3. Garbled(c) => ~Alone
  BY <1>2 DEF Garbled
<1>4. ASSUME ThrowAtPadding(c) \/ Spin(c) \/ Garbled(c), ~cut, ~PaddedEnd PROVE FALSE
  BY <1>0, <1>4, WholeGoesOn DEF Unbroken, WholeBuffer
<1>5. ASSUME ThrowAtPadding(c) \/ Spin(c) \/ Garbled(c), ~cut, Alone PROVE FALSE
  <2>1. Consuming(c)
    BY <1>5 DEF ThrowAtPadding, Spin, Garbled
  <2>2. Unread(c) /\ AtRecord(got[c])
    BY <1>1, <1>5, <2>1 DEF Lone, Unbroken, WholeReads
  <2>3. /\ AtRecord(Used(c)) /\ buffer = Piece(c, Used(c), got[c])
    BY <2>1, <2>2 DEF Consuming, Unread
  <2>4. Used(c) \in 0 .. Total /\ got[c] \in 0 .. Total /\ Used(c) <= got[c]
    BY <1>0, <2>1, <2>2, LoneHead
  <2>5. WholeRecords(Piece(c, Used(c), got[c]))
    BY <1>0, <2>2, <2>3, <2>4, PieceIsWhole
  <2> QED  BY <1>0, <1>5, <2>3, <2>5, WholeGoesOn
<1> QED  BY <1>3, <1>4, <1>5 DEF Excused

\* poll() stands where the decoder stopped it only after one of these three steps.
Stopped == pc \in {<<"spin">>, <<"thrown">>, <<"garbled">>}

LEMMA StopStep ==
  ASSUME pc[1] \in Places, NEW c \in Copies, Poll(c) \/ Gateway(c), Stopped'
  PROVE  \/ (ThrowAtPadding(c) \/ Spin(c) \/ Garbled(c)) /\ (pc' = <<"garbled">> => Garbled(c))
         \/ pc' = pc
<1>1. CASE ThrowAtPadding(c) \/ Spin(c) \/ Garbled(c)
  BY <1>1 DEF ThrowAtPadding, Spin, Garbled
<1>2. CASE MakeRequest(c) \/ ConsumeEmpty(c) \/ Consume(c) \/ Scan(c) \/ EndLine(c) \/ Gateway(c)
  BY <1>2 DEF MakeRequest, ConsumeEmpty, Consume, Scan, EndLine, Gateway, Hangup, Arrive
<1>3. CASE ReadEvent(c) \/ ReceiveAgain(c) \/ ConsumeReturns(c) \/ Judge(c) \/ ThrowAtStatus(c)
           \/ ParseReturns(c) \/ Provide(c)
  <2>1. pc'[1] \in {"consume", "judge", "provide", "receive", "parse", "rest", "unread"}
    BY <1>3 DEF ReadEvent, ReceiveAgain, Receive, ConsumeReturns, Judge, ThrowAtStatus,
                ParseReturns, Provide
  <2> QED  BY <2>1 DEF Stopped
<1> QED  BY <1>1, <1>2, <1>3 DEF Poll

LEMMA CutStays ==
  ASSUME NEW c \in Copies, Poll(c) \/ Gateway(c), cut
  PROVE  cut'
BY DEF Poll, Gateway, MakeRequest, ReadEvent, ReceiveAgain, Receive, ConsumeEmpty, Consume,
       ThrowAtPadding, Spin, Garbled, ConsumeReturns, Judge, Scan, EndLine, ThrowAtStatus,
       ParseReturns, Provide, Hangup, Arrive

Decoding == Solo /\ Unbroken /\ FailsOnlyOnPieces

LEMMA InitDecoding == Init => Decoding
<1> SUFFICES ASSUME Init PROVE Decoding
  OBVIOUS
<1>1. Solo
  BY InitSolo
<1>2. Unbroken
  <2>1. WholeReads
    BY DEF Init, WholeReads, AtRecord
  <2>2. WholeBuffer
    BY NothingIsWhole DEF Init, WholeBuffer
  <2> QED  BY <2>1, <2>2 DEF Unbroken
<1>3. FailsOnlyOnPieces
  BY DEF Init, FailsOnlyOnPieces
<1> QED  BY <1>1, <1>2, <1>3 DEF Decoding

LEMMA NextDecoding == Decoding /\ [Next]_vars => Decoding'
<1> SUFFICES ASSUME Decoding, [Next]_vars PROVE Decoding'
  OBVIOUS
<1>0. Solo /\ Unbroken /\ FailsOnlyOnPieces /\ TypeOK /\ pc[1] \in Places
  BY DEF Decoding, Solo, Counted, TypeOK, Places
<1>1. Solo'
  BY <1>0, NextSolo
<1>2. CASE UNCHANGED vars
  <2>1. Unbroken'
    BY <1>0, <1>2, BufferSame DEF vars
  <2>2. FailsOnlyOnPieces'
    BY <1>0, <1>2, PaddedStays DEF vars, FailsOnlyOnPieces, Alone
  <2> QED  BY <1>1, <2>1, <2>2 DEF Decoding
<1>3. ASSUME NEW c \in Copies, Poll(c) \/ Gateway(c) PROVE Decoding'
  <2>1. Unbroken'
    BY <1>0, <1>3, UnbrokenStays
  <2>2. answer' = answer /\ PaddedEnd' = PaddedEnd /\ Alone' = Alone
    BY <1>0, <1>3, PlacesStay, PaddedStays DEF Alone
  <2>3. Excused(c)
    BY <1>0, StopsExcused
  <2>4. FailsOnlyOnPieces'
    <3> SUFFICES ASSUME Stopped'
                 PROVE  /\ cut' \/ (PaddedEnd /\ ~Alone)
                        /\ pc' = <<"garbled">> => ~Alone
      BY <2>2 DEF FailsOnlyOnPieces, Stopped
    <3>1. CASE pc' = pc
      BY <1>0, <1>3, <3>1, CutStays DEF FailsOnlyOnPieces, Stopped
    <3>2. CASE (ThrowAtPadding(c) \/ Spin(c) \/ Garbled(c)) /\ (pc' = <<"garbled">> => Garbled(c))
      BY <1>3, <2>3, <3>2, CutStays DEF Excused
    <3> QED  BY <1>0, <1>3, <3>1, <3>2, StopStep
  <2> QED  BY <1>1, <2>1, <2>4 DEF Decoding
<1> QED  BY <1>2, <1>3 DEF Next

\* The decoder throws, spins or misreads a header only after a read has ended
\* inside a record, or when a copy has left padding to another; a provider that
\* is alone never misreads one.  So it is for every answer and all its pieces.
THEOREM StopsAtPieces == Spec => []FailsOnlyOnPieces
<1>1. Decoding => FailsOnlyOnPieces
  BY DEF Decoding
<1> QED  BY <1>1, InitDecoding, NextDecoding, PTL DEF Spec

-----------------------------------------------------------------------------
(* The lines in front of the answer. *)

Marked == STRING \cup {"SP", ":", "CR", "LF", "Status"}

LEMMA OneIs == ASSUME NEW T, NEW x \in T PROVE <<x>> \in Seq(T) /\ Len(<<x>>) = 1 /\ <<x>>[1] = x
OBVIOUS

LEMMA TwoAre ==
  ASSUME NEW T, NEW x \in T, NEW y \in T
  PROVE  <<x, y>> \in Seq(T) /\ Len(<<x, y>>) = 2 /\ <<x, y>>[1] = x /\ <<x, y>>[2] = y
OBVIOUS

Joins(s, t, u) ==
  /\ Len(u) = Len(s) + Len(t) /\ Len(s) \in Nat /\ Len(t) \in Nat
  /\ \A i \in 1 .. Len(s) : u[i] = s[i]
  /\ \A i \in 1 .. Len(t) : u[Len(s) + i] = t[i]
LEMMA JoinedIs ==
  ASSUME NEW T PROVE \A s, t \in Seq(T) : s \o t \in Seq(T) /\ Joins(s, t, s \o t)
BY DEF Joins

LEMMA MemberIn == ASSUME NEW T, NEW s \in Seq(T), NEW i \in 1 .. Len(s) PROVE s[i] \in Range(s)
BY DEF Range

LEMMA WireIs ==
  ASSUME NEW l \in Line
  PROVE  LET k == Len(l.key)
             b == l.blanks
             v == Len(l.value)
             w == Wire(l)
         IN  /\ k \in Nat /\ k >= 1 /\ b \in Nat /\ v \in Nat /\ v >= 1
             /\ l.key \in Seq(Marked) /\ l.value \in Seq(Marked)
             /\ w \in Seq(Marked) /\ Len(w) = k + b + v + 3
             /\ \A q \in 1 .. k : w[q] = l.key[q] /\ w[q] \notin {"SP", ":", "CR", "LF"}
             /\ w[k + 1] = ":"
             /\ \A q \in 1 .. b : w[k + 1 + q] = "SP"
             /\ \A q \in 1 .. v : w[k + 1 + b + q] = l.value[q] /\ l.value[q] \notin {"CR", "LF"}
             /\ l.value[1] # "SP"
             /\ w[k + b + v + 2] = "CR" /\ w[k + b + v + 3] = "LF"
<1> DEFINE k == Len(l.key)
           b == l.blanks
           v == Len(l.value)
           blanks == [i \in 1 .. b |-> "SP"]
<1>1. /\ l.key \in Seq(Marked) /\ l.key # <<>> /\ b \in Nat /\ l.value \in Seq(Marked) /\ l.value # <<>>
      /\ Range(l.key) \cap {"SP", ":", "CR", "LF"} = {} /\ Range(l.value) \cap {"CR", "LF"} = {}
      /\ l.value[1] # "SP"
  <2>1. Seq(STRING) \subseteq Seq(Marked)
    BY SeqMonotonic DEF Marked
  <2> QED  BY <2>1 DEF Line
<1>2. k \in Nat /\ k >= 1 /\ v \in Nat /\ v >= 1
  BY <1>1
<1>3. \A q \in 1 .. k : l.key[q] \notin {"SP", ":", "CR", "LF"}
  <2> TAKE q \in 1 .. k
  <2>1. l.key[q] \in Range(l.key)
    BY <1>1, MemberIn
  <2> QED  BY <1>1, <2>1
<1>4. \A q \in 1 .. v : l.value[q] \notin {"CR", "LF"}
  <2> TAKE q \in 1 .. v
  <2>1. l.value[q] \in Range(l.value)
    BY <1>1, MemberIn
  <2> QED  BY <1>1, <2>1
<1>5. blanks \in Seq(Marked) /\ Len(blanks) = b /\ \A q \in 1 .. b : blanks[q] = "SP"
  <2>1. "SP" \in Marked /\ b \in Nat
    BY <1>1 DEF Marked
  <2> HIDE DEF b
  <2> QED  BY <2>1
<1> HIDE DEF k, b, v, blanks
<1> DEFINE w1 == l.key \o <<":">>
           w2 == w1 \o blanks
           w3 == w2 \o l.value
           w4 == w3 \o <<"CR", "LF">>
<1>6. /\ w1 \in Seq(Marked) /\ Len(w1) = k + 1 /\ w1[k + 1] = ":"
      /\ \A q \in 1 .. k : w1[q] = l.key[q]
  <2> DEFINE e == <<":">>
  <2>1. e \in Seq(Marked) /\ Len(e) = 1 /\ e[1] = ":"
    <3>1. ":" \in Marked
      BY DEF Marked
    <3> QED  BY <3>1, OneIs
  <2> HIDE DEF e
  <2>2. l.key \o e \in Seq(Marked) /\ Joins(l.key, e, l.key \o e)
    BY <1>1, <2>1, JoinedIs
  <2>3. 1 \in 1 .. 1 /\ l.key \o e = w1
    BY DEF e
  <2> HIDE DEF w1
  <2> QED  BY <2>1, <2>2, <2>3 DEF k, Joins
<1> HIDE DEF w1
<1>7. /\ w2 \in Seq(Marked) /\ Len(w2) = k + 1 + b
      /\ \A q \in 1 .. k + 1 : w2[q] = w1[q]
      /\ \A q \in 1 .. b : w2[k + 1 + q] = "SP"
  <2>1. w2 \in Seq(Marked) /\ Joins(w1, blanks, w2)
    BY <1>5, <1>6, JoinedIs
  <2> HIDE DEF w2
  <2>2. Len(w1) = k + 1 /\ Len(blanks) = b
    BY <1>5, <1>6
  <2>3. Len(w2) = k + 1 + b /\ \A q \in 1 .. k + 1 : w2[q] = w1[q]
    BY <2>1, <2>2 DEF Joins
  <2>4. \A q \in 1 .. b : w2[k + 1 + q] = blanks[q]
    BY <2>1, <2>2 DEF Joins
  <2> QED  BY <1>5, <2>1, <2>3, <2>4
<1> HIDE DEF w2
<1>8. /\ w3 \in Seq(Marked) /\ Len(w3) = k + 1 + b + v
      /\ \A q \in 1 .. k + 1 + b : w3[q] = w2[q]
      /\ \A q \in 1 .. v : w3[k + 1 + b + q] = l.value[q]
  <2>1. w3 \in Seq(Marked) /\ Joins(w2, l.value, w3)
    BY <1>1, <1>7, JoinedIs
  <2> HIDE DEF w3
  <2>2. Len(w2) = k + 1 + b /\ Len(l.value) = v
    BY <1>7 DEF v
  <2>3. Len(w3) = k + 1 + b + v /\ \A q \in 1 .. k + 1 + b : w3[q] = w2[q]
    BY <2>1, <2>2 DEF Joins
  <2>4. \A q \in 1 .. v : w3[k + 1 + b + q] = l.value[q]
    BY <2>1, <2>2 DEF Joins
  <2> QED  BY <2>1, <2>3, <2>4
<1> HIDE DEF w3
<1>9. /\ w4 \in Seq(Marked) /\ Len(w4) = k + 1 + b + v + 2
      /\ \A q \in 1 .. k + 1 + b + v : w4[q] = w3[q]
      /\ w4[k + 1 + b + v + 1] = "CR" /\ w4[k + 1 + b + v + 2] = "LF"
  <2> DEFINE e == <<"CR", "LF">>
  <2>1. e \in Seq(Marked) /\ Len(e) = 2 /\ e[1] = "CR" /\ e[2] = "LF"
    <3>1. "CR" \in Marked /\ "LF" \in Marked
      BY DEF Marked
    <3> QED  BY <3>1, TwoAre
  <2> HIDE DEF e
  <2> DEFINE x == w3 \o e
  <2>2. x \in Seq(Marked) /\ Joins(w3, e, x)
    BY <1>8, <2>1, JoinedIs
  <2>5. x = w4
    BY DEF e
  <2> HIDE DEF w4, x
  <2>6. 1 \in 1 .. Len(e) /\ 2 \in 1 .. Len(e)
    BY <2>1
  <2> QED  BY <1>8, <2>1, <2>2, <2>5, <2>6 DEF Joins
<1>10. w4 = Wire(l)
  BY DEF Wire, w1, w2, w3, w4, blanks, b
<1> HIDE DEF w4
<1>11. k + b + v + 2 = k + 1 + b + v + 1 /\ k + b + v + 3 = k + 1 + b + v + 2 /\ b \in Nat
  BY <1>1, <1>2 DEF b
<1>12. \A q \in 1 .. k : w4[q] = l.key[q]
  <2> TAKE q \in 1 .. k
  <2>1. q \in 1 .. k + 1 /\ q \in 1 .. k + 1 + b /\ q \in 1 .. k + 1 + b + v
    BY <1>2, <1>11
  <2> QED  BY <1>6, <1>7, <1>8, <1>9, <2>1
<1>13. w4[k + 1] = ":"
  <2>1. k + 1 \in 1 .. k + 1 /\ k + 1 \in 1 .. k + 1 + b /\ k + 1 \in 1 .. k + 1 + b + v
    BY <1>2, <1>11
  <2> QED  BY <1>6, <1>7, <1>8, <1>9, <2>1
<1>14. \A q \in 1 .. b : w4[k + 1 + q] = "SP"
  <2> TAKE q \in 1 .. b
  <2>1. k + 1 + q \in 1 .. k + 1 + b /\ k + 1 + q \in 1 .. k + 1 + b + v
    BY <1>2, <1>11
  <2> QED  BY <1>7, <1>8, <1>9, <2>1
<1>15. \A q \in 1 .. v : w4[k + 1 + b + q] = l.value[q]
  <2> TAKE q \in 1 .. v
  <2>1. k + 1 + b + q \in 1 .. k + 1 + b + v
    BY <1>2, <1>11
  <2> QED  BY <1>8, <1>9, <2>1
<1>16. w4[k + b + v + 2] = "CR" /\ w4[k + b + v + 3] = "LF" /\ Len(w4) = k + b + v + 3
  BY <1>9, <1>11
<1> QED  BY <1>1, <1>2, <1>3, <1>4, <1>9, <1>10, <1>11, <1>12, <1>13, <1>14, <1>15, <1>16 DEF k, b, v

\* Line i of the lines ends at o[i], and the empty line follows the last.
LaidOut(o, lines, text) ==
  LET n == Len(lines)
  IN  /\ o \in [0 .. n -> Nat] /\ o[0] = 0
      /\ \A i \in 1 .. n :
           /\ o[i] = o[i - 1] + Len(Wire(lines[i])) /\ o[i] <= o[n]
           /\ \A j \in 1 .. Len(Wire(lines[i])) : text[o[i - 1] + j] = Wire(lines[i])[j]
      /\ text[o[n] + 1] = "CR"
      /\ Len(HeadOf(lines)) = o[n] + 2

LEMMA HeadLaidOut ==
  ASSUME NEW lines \in Seq(Line), NEW body \in Seq(Marked)
  PROVE  /\ \E o : LaidOut(o, lines, HeadOf(lines) \o body)
         /\ HeadOf(lines) \in Seq(Marked)
<1> DEFINE n == Len(lines)
           s == [i \in DOMAIN lines |-> Wire(lines[i])]
           flat == FlattenSeq(s)
<1>1. n \in Nat /\ DOMAIN lines = 1 .. n /\ \A i \in 1 .. n : lines[i] \in Line
  <2>1. \A q \in Seq(Line) : Len(q) \in Nat /\ DOMAIN q = 1 .. Len(q) /\ \A i \in 1 .. Len(q) : q[i] \in Line
    OBVIOUS
  <2> QED  BY <2>1
<1> HIDE DEF n
<1>2. \A i \in 1 .. n : s[i] = Wire(lines[i]) /\ s[i] \in Seq(Marked)
  BY <1>1, WireIs
<1>3. s = [i \in 1 .. n |-> s[i]] /\ DOMAIN s = 1 .. n
  BY <1>1
<1> HIDE DEF s
<1>4. s \in Seq(Seq(Marked)) /\ Len(s) = n
  BY <1>1, <1>2, <1>3
<1>5. flat \in Seq(Marked)
  BY <1>4, Flattened
<1>6. PICK o \in [0 .. n -> Nat] :
        /\ o[0] = 0 /\ o[n] = Len(flat)
        /\ \A i \in 1 .. n :
             /\ o[i] = o[i - 1] + Len(s[i]) /\ o[i] <= Len(flat)
             /\ \A j \in 1 .. Len(s[i]) : flat[o[i - 1] + j] = s[i][j]
  <2>1. PICK o \in [0 .. Len(s) -> Nat] :
           /\ o[0] = 0 /\ o[Len(s)] = Len(FlattenSeq(s))
           /\ \A i \in 1 .. Len(s) :
                /\ o[i] = o[i - 1] + Len(s[i]) /\ o[i] <= Len(FlattenSeq(s))
                /\ \A j \in 1 .. Len(s[i]) : FlattenSeq(s)[o[i - 1] + j] = s[i][j]
    BY <1>4, FlattenedAt
  <2> QED  BY <1>4, <2>1
<1>7. HeadOf(lines) = flat \o <<"CR", "LF">>
  BY DEF HeadOf, s
<1> HIDE DEF flat
<1> DEFINE h == flat \o <<"CR", "LF">>
           t == h \o body
<1>8. /\ h \in Seq(Marked) /\ Len(h) = Len(flat) + 2 /\ \A i \in 1 .. Len(flat) : h[i] = flat[i]
      /\ h[Len(flat) + 1] = "CR"
  <2> DEFINE e == <<"CR", "LF">>
  <2>1. e \in Seq(Marked) /\ Len(e) = 2 /\ e[1] = "CR"
    <3>1. "CR" \in Marked /\ "LF" \in Marked
      BY DEF Marked
    <3> QED  BY <3>1, TwoAre
  <2> HIDE DEF e
  <2>2. flat \o e \in Seq(Marked) /\ Joins(flat, e, flat \o e)
    BY <1>5, <2>1, JoinedIs
  <2>3. 1 \in 1 .. 2 /\ flat \o e = h
    BY DEF e
  <2> HIDE DEF h
  <2> QED  BY <2>1, <2>2, <2>3 DEF Joins
<1> HIDE DEF h
<1>10. \A i \in 1 .. Len(h) : t[i] = h[i]
  BY <1>8
<1> HIDE DEF t
<1>11. Len(flat) \in Nat
  BY <1>5
<1>12. t[Len(flat) + 1] = "CR"
  BY <1>8, <1>10, <1>11
<1>13. ASSUME NEW i \in 1 .. n, NEW j \in 1 .. Len(s[i]) PROVE t[o[i - 1] + j] = s[i][j]
  <2>1. i - 1 \in 0 .. n /\ Len(s[i]) \in Nat /\ o[i] = o[i - 1] + Len(s[i]) /\ o[i] <= Len(flat)
    BY <1>1, <1>2, <1>6
  <2>2. o[i - 1] \in Nat
    BY <1>6, <2>1
  <2>3. o[i - 1] + j \in 1 .. Len(flat) /\ o[i - 1] + j \in 1 .. Len(h)
    BY <1>8, <1>11, <2>1, <2>2
  <2> QED  BY <1>6, <1>8, <1>10, <2>3
<1>14. LaidOut(o, lines, t)
  <2>1. o \in [0 .. n -> Nat] /\ o[0] = 0
    BY <1>6
  <2>2. Len(flat) = o[n]
    BY <1>6
  <2>3. ASSUME NEW i \in 1 .. n
        PROVE  /\ o[i] = o[i - 1] + Len(Wire(lines[i])) /\ o[i] <= o[n]
               /\ \A j \in 1 .. Len(Wire(lines[i])) : t[o[i - 1] + j] = Wire(lines[i])[j]
    <3>1. s[i] = Wire(lines[i])
      BY <1>2
    <3>2. o[i] = o[i - 1] + Len(s[i]) /\ o[i] <= o[n]
      BY <1>6, <2>2
    <3>3. \A j \in 1 .. Len(s[i]) : t[o[i - 1] + j] = s[i][j]
      BY <1>13
    <3> QED  BY <3>1, <3>2, <3>3
  <2>4. t[o[n] + 1] = "CR"
    BY <1>12, <2>2
  <2>5. Len(HeadOf(lines)) = o[n] + 2
    BY <1>7, <1>8, <2>2
  <2> QED  BY <2>1, <2>3, <2>4, <2>5, Zenon DEF LaidOut, n
<1> QED  BY <1>7, <1>8, <1>14 DEF h, t

\* The fields the first j lines mean, when none of them is a status.
FieldsUpto(lines, j) ==
  {<<lines[i].key, lines[i].value>> :
     i \in {i \in 1 .. j : \A m \in 1 .. j : lines[m].key = lines[i].key => m <= i}}

LEMMA FieldsNext ==
  ASSUME NEW lines, NEW j \in Nat
  PROVE  FieldsUpto(lines, j + 1)
           = {x \in FieldsUpto(lines, j) : x[1] # lines[j + 1].key}
               \cup {<<lines[j + 1].key, lines[j + 1].value>>}
<1> DEFINE l == lines[j + 1]
           F == FieldsUpto(lines, j)
           G == {x \in F : x[1] # l.key} \cup {<<l.key, l.value>>}
           last(i, k) == \A m \in 1 .. k : lines[m].key = lines[i].key => m <= i
<1>1. ASSUME NEW x \in FieldsUpto(lines, j + 1) PROVE x \in G
  <2>1. PICK i \in 1 .. j + 1 : last(i, j + 1) /\ x = <<lines[i].key, lines[i].value>>
    BY <1>1 DEF FieldsUpto
  <2>2. CASE i = j + 1
    BY <2>1, <2>2
  <2>3. CASE i # j + 1
    <3>1. i \in 1 .. j /\ j + 1 \in 1 .. j + 1 /\ ~(j + 1 <= i)
      BY <2>3
    <3>2. l.key # lines[i].key
      BY <2>1, <3>1
    <3>3. last(i, j)
      <4>1. \A m \in 1 .. j : m \in 1 .. j + 1
        OBVIOUS
      <4> QED  BY <2>1, <4>1
    <3>4. x \in F
      BY <2>1, <3>1, <3>3 DEF FieldsUpto
    <3>5. x[1] = lines[i].key
      BY <2>1
    <3> QED  BY <3>2, <3>4, <3>5
  <2> QED  BY <2>2, <2>3
<1>2. ASSUME NEW x \in G PROVE x \in FieldsUpto(lines, j + 1)
  <2>1. CASE x = <<l.key, l.value>>
    <3>1. j + 1 \in 1 .. j + 1 /\ last(j + 1, j + 1)
      OBVIOUS
    <3> QED  BY <2>1, <3>1 DEF FieldsUpto
  <2>2. CASE x \in F /\ x[1] # l.key
    <3>1. PICK i \in 1 .. j : last(i, j) /\ x = <<lines[i].key, lines[i].value>>
      BY <2>2 DEF FieldsUpto
    <3>2. x[1] = lines[i].key /\ i \in 1 .. j + 1
      BY <3>1
    <3>3. last(i, j + 1)
      <4> TAKE m \in 1 .. j + 1
      <4>1. m = j + 1 \/ m \in 1 .. j
        OBVIOUS
      <4> QED  BY <2>2, <3>1, <3>2, <4>1
    <3> QED  BY <3>1, <3>2, <3>3 DEF FieldsUpto
  <2> QED  BY <2>1, <2>2
<1> QED  BY <1>1, <1>2

LEMMA FieldsAtStart == ASSUME NEW lines PROVE FieldsUpto(lines, 0) = {}
BY DEF FieldsUpto

\* Behind the last line they are the fields meant.
LEMMA FieldsAtEnd ==
  ASSUME NEW lines \in Seq(Line), lines # <<>>, StatusLast(lines)
  PROVE  LET n == Len(lines)
         IN  /\ Statuses(lines) = {} => FieldsMeant(lines) = FieldsUpto(lines, n)
             /\ n \in Statuses(lines) => FieldsMeant(lines) = FieldsUpto(lines, n - 1)
             /\ Statuses(lines) = {} \/ n \in Statuses(lines)
<1> DEFINE n == Len(lines)
           last(i, k) == \A m \in 1 .. k : lines[m].key = lines[i].key => m <= i
<1>1. n \in Nat /\ n >= 1 /\ DOMAIN lines = 1 .. n
  <2>1. \A q \in Seq(Line) : Len(q) \in Nat /\ DOMAIN q = 1 .. Len(q) /\ (q # <<>> => Len(q) >= 1)
    OBVIOUS
  <2> QED  BY <2>1
<1> HIDE DEF n
<1>2. Statuses(lines) = {i \in 1 .. n : lines[i].key = Status} /\ Statuses(lines) \subseteq {n}
  BY <1>1 DEF Statuses, StatusLast, n
<1>3. ASSUME Statuses(lines) = {} PROVE FieldsMeant(lines) = FieldsUpto(lines, n)
  <2>1. DOMAIN lines \ Statuses(lines) = 1 .. n
    BY <1>1, <1>3
  <2> QED  BY <1>1, <2>1 DEF FieldsMeant, FieldsUpto
<1>4. ASSUME n \in Statuses(lines) PROVE FieldsMeant(lines) = FieldsUpto(lines, n - 1)
  <2>1. DOMAIN lines \ Statuses(lines) = 1 .. n - 1
    BY <1>1, <1>2, <1>4
  <2>2. \A i \in 1 .. n - 1 : last(i, n) <=> last(i, n - 1)
    <3> TAKE i \in 1 .. n - 1
    <3>1. lines[n].key = Status /\ lines[i].key # Status
      <4>1. i \in 1 .. n /\ i # n
        BY <1>1
      <4> QED  BY <1>2, <1>4, <4>1
    <3>2. \A m \in 1 .. n : m = n \/ m \in 1 .. n - 1
      BY <1>1
    <3>3. \A m \in 1 .. n - 1 : m \in 1 .. n
      BY <1>1
    <3> QED  BY <3>1, <3>2, <3>3
  <2>3. FieldsMeant(lines) = {<<lines[i].key, lines[i].value>> : i \in {i \in 1 .. n - 1 : last(i, n)}}
    BY <1>1, <2>1 DEF FieldsMeant
  <2>4. {i \in 1 .. n - 1 : last(i, n)} = {i \in 1 .. n - 1 : last(i, n - 1)}
    BY <2>2
  <2> QED  BY <2>3, <2>4 DEF FieldsUpto
<1>5. Statuses(lines) = {} \/ n \in Statuses(lines)
  BY <1>2
<1> QED  BY <1>3, <1>4, <1>5 DEF n

-----------------------------------------------------------------------------
(* What parse() makes of them. *)

LEMMA PrefixGrows ==
  ASSUME NEW T, NEW u \in Seq(T), NEW s \in Seq(T), NEW q \in Nat, q + 1 <= Len(s)
  PROVE  Append(u \o SubSeq(s, 1, q), s[q + 1]) = u \o SubSeq(s, 1, q + 1)
<1> DEFINE x == SubSeq(s, 1, q)
           y == SubSeq(s, 1, q + 1)
<1>1. Len(s) \in Nat /\ q + 1 \in 1 .. Len(s) /\ q \in 0 .. Len(s) /\ q + 1 \in 0 .. Len(s)
  OBVIOUS
<1>2. x \in Seq(T) /\ Len(x) = q /\ \A i \in 1 .. q : x[i] = s[i]
  BY <1>1, PrefixIs
<1>3. y \in Seq(T) /\ Len(y) = q + 1 /\ \A i \in 1 .. q + 1 : y[i] = s[i]
  BY <1>1, PrefixIs
<1> DEFINE e == s[q + 1]
           z == Append(x, e)
<1>4. e \in T
  BY <1>1
<1> HIDE DEF x, y, e
<1>5. z \in Seq(T) /\ Len(z) = q + 1 /\ z[q + 1] = e /\ \A i \in 1 .. q : z[i] = x[i]
  BY <1>2, <1>4
<1> HIDE DEF z
<1>6. \A i \in 1 .. q + 1 : z[i] = y[i]
  <2> TAKE i \in 1 .. q + 1
  <2>1. i = q + 1 \/ i \in 1 .. q
    OBVIOUS
  <2> QED  BY <1>2, <1>3, <1>5, <2>1 DEF e
<1>7. z = y
  BY <1>3, <1>5, <1>6, SeqEqual
<1>8. AppendsToBoth(T)
  BY AppendedToBoth
<1>9. Append(u \o x, e) = u \o z
  BY <1>2, <1>4, <1>8 DEF AppendsToBoth, z
<1> QED  BY <1>7, <1>9 DEF x, y, e

LEMMA PrefixAll ==
  ASSUME NEW T, NEW s \in Seq(T)
  PROVE  SubSeq(s, 1, Len(s)) = s /\ SubSeq(s, 1, 0) = <<>> /\ s \o <<>> = s /\ <<>> \o s = s
<1>1. SubSeq(s, 1, Len(s)) = s
  OBVIOUS
<1>2. SubSeq(s, 1, 0) = <<>>
  OBVIOUS
<1>3. s \o <<>> = s /\ <<>> \o s = s
  BY ConcatEmptySeq
<1> QED  BY <1>1, <1>2, <1>3

\* parse() has read q symbols of the line l, behind a key and a value an
\* earlier status has left.
LocalIs(x, state, key, value) == x = [state |-> state, key |-> key, value |-> value]
Reading(x, l, q, key, value) ==
  LET k == Len(l.key)
      b == l.blanks
      v == Len(l.value)
  IN  \/ q \in 1 .. k /\ LocalIs(x, "Key", key \o SubSeq(l.key, 1, q), value)
      \/ q = k + 1 /\ LocalIs(x, "Colon", key \o l.key, value)
      \/ q \in k + 2 .. k + b + 1 /\ LocalIs(x, "White", key \o l.key, value)
      \/ /\ q \in k + b + 2 .. k + b + v + 1
         /\ LocalIs(x, "Value", key \o l.key, value \o SubSeq(l.value, 1, q - (k + b + 1)))
      \/ q = k + b + v + 2 /\ LocalIs(x, "CR", key \o l.key, value \o l.value)
      \/ q = k + b + v + 3 /\ LocalIs(x, "CRLF", key \o l.key, value \o l.value)

LEMMA ScannedIs ==
  ASSUME NEW state, NEW key, NEW value, LocalIs(local, state, key, value), local' = Scanned
  PROVE  /\ state = "Begin" /\ Ch \notin {"SP", "LF", "CR"} => LocalIs(local', "Key", Append(key, Ch), value)
         /\ state = "Key" => IF Ch = ":" THEN LocalIs(local', "Colon", key, value)
                             ELSE LocalIs(local', "Key", Append(key, Ch), value)
         /\ state \in {"Colon", "White"} => IF Ch = "SP" THEN LocalIs(local', "White", key, value)
                               ELSE LocalIs(local', "Value", key, Append(value, Ch))
         /\ state = "Value" => IF Ch = "CR" THEN LocalIs(local', "CR", key, value)
                               ELSE LocalIs(local', "Value", key, Append(value, Ch))
         /\ state = "CR" /\ Ch = "LF" => LocalIs(local', "CRLF", key, value)
<1> DEFINE x == Ch
<1>0. /\ local = [state |-> state, key |-> key, value |-> value] /\ local.state = state
      /\ local.key = key /\ local.value = value
  BY DEF LocalIs
<1>1. /\ \A s : To(s) = [state |-> s, key |-> key, value |-> value]
      /\ ToKey = [state |-> "Key", key |-> Append(key, x), value |-> value]
      /\ ToValue = [state |-> "Value", key |-> key, value |-> Append(value, x)]
  <2> HIDE DEF x
  <2>1. \A s : To(s) = [state |-> s, key |-> key, value |-> value]
    BY <1>0 DEF To
  <2>2. ToKey = [state |-> "Key", key |-> Append(key, x), value |-> value]
    <3> DEFINE e == Append(key, x)
    <3>1. ToKey = [local EXCEPT !.state = "Key", !.key = e]
      BY <1>0 DEF ToKey, x
    <3> HIDE DEF e
    <3>2. ToKey = [state |-> "Key", key |-> e, value |-> value]
      BY <1>0, <3>1
    <3> QED  BY <3>2 DEF e
  <2>3. ToValue = [state |-> "Value", key |-> key, value |-> Append(value, x)]
    <3> DEFINE e == Append(value, x)
    <3>1. ToValue = [local EXCEPT !.state = "Value", !.value = e]
      BY <1>0 DEF ToValue, x
    <3> HIDE DEF e
    <3>2. ToValue = [state |-> "Value", key |-> key, value |-> e]
      BY <1>0, <3>1
    <3> QED  BY <3>2 DEF e
  <2> QED  BY <2>1, <2>2, <2>3
<1> HIDE DEF x
<1>2. ASSUME state = "Begin", x \notin {"SP", "LF", "CR"} PROVE LocalIs(local', "Key", Append(key, x), value)
  <2>1. local' = ToKey
    BY <1>0, <1>2 DEF Scanned, x
  <2> QED  BY <1>1, <2>1 DEF LocalIs
<1>3. ASSUME state = "Key"
      PROVE  IF x = ":" THEN LocalIs(local', "Colon", key, value) ELSE LocalIs(local', "Key", Append(key, x), value)
  <2>1. local' = IF x = ":" THEN To("Colon") ELSE ToKey
    BY <1>0, <1>3 DEF Scanned, x
  <2> QED  BY <1>1, <2>1 DEF LocalIs
<1>4. ASSUME state \in {"Colon", "White"}
      PROVE  IF x = "SP" THEN LocalIs(local', "White", key, value) ELSE LocalIs(local', "Value", key, Append(value, x))
  <2>1. CASE state = "Colon"
    <3>1. local' = IF x = "SP" THEN To("White") ELSE ToValue
      BY <1>0, <2>1 DEF Scanned, x
    <3> QED  BY <1>1, <3>1 DEF LocalIs
  <2>2. CASE state = "White"
    <3>1. local' = IF x = "SP" THEN local ELSE ToValue
      BY <1>0, <2>2 DEF Scanned, x
    <3> QED  BY <1>0, <1>1, <2>2, <3>1 DEF LocalIs
  <2> QED  BY <1>4, <2>1, <2>2
<1>5. ASSUME state = "Value"
      PROVE  IF x = "CR" THEN LocalIs(local', "CR", key, value) ELSE LocalIs(local', "Value", key, Append(value, x))
  <2>1. local' = IF x = "CR" THEN To("CR") ELSE ToValue
    BY <1>0, <1>5 DEF Scanned, x
  <2> QED  BY <1>1, <2>1 DEF LocalIs
<1>6. ASSUME state = "CR", x = "LF" PROVE LocalIs(local', "CRLF", key, value)
  <2>1. local' = To("CRLF")
    BY <1>0, <1>6 DEF Scanned, x
  <2> QED  BY <1>1, <2>1 DEF LocalIs
<1> QED  BY <1>2, <1>3, <1>4, <1>5, <1>6 DEF x

\* Reading one symbol more of a line.
LEMMA ScanReads ==
  ASSUME NEW l \in Line, NEW q, NEW key \in Seq(Marked), NEW value \in Seq(Marked),
         Reading(local, l, q, key, value), local.state # "CRLF",
         Ch = Wire(l)[q + 1], local' = Scanned
  PROVE  Reading(local', l, q + 1, key, value) /\ q \in Nat /\ q + 1 \in 1 .. Len(Wire(l))
<1> DEFINE k == Len(l.key)
           b == l.blanks
           v == Len(l.value)
           w == Wire(l)
           x == Ch
<1>1. /\ k \in Nat /\ k >= 1 /\ b \in Nat /\ v \in Nat /\ v >= 1
      /\ l.key \in Seq(Marked) /\ l.value \in Seq(Marked) /\ Len(w) = k + b + v + 3
      /\ \A i \in 1 .. k : w[i] = l.key[i] /\ w[i] \notin {"SP", ":", "CR", "LF"}
      /\ w[k + 1] = ":"
      /\ \A i \in 1 .. b : w[k + 1 + i] = "SP"
      /\ \A i \in 1 .. v : w[k + 1 + b + i] = l.value[i] /\ l.value[i] \notin {"CR", "LF"}
      /\ l.value[1] # "SP"
      /\ w[k + b + v + 2] = "CR" /\ w[k + b + v + 3] = "LF"
  BY WireIs
<1>2. x = w[q + 1]
  OBVIOUS
<1>11. k \in Nat /\ k >= 1 /\ b \in Nat /\ v \in Nat /\ v >= 1
  BY <1>1
<1>12. /\ l.key \in Seq(Marked) /\ Len(l.key) = k /\ l.value \in Seq(Marked) /\ Len(l.value) = v
      /\ Len(w) = k + b + v + 3
  BY <1>1
<1> DEFINE keys == key \o l.key
<1> HIDE DEF k, b, v, w, x
<1>3. CASE q \in 1 .. k /\ LocalIs(local, "Key", key \o SubSeq(l.key, 1, q), value)
  <2>1. IF x = ":" THEN LocalIs(local', "Colon", key \o SubSeq(l.key, 1, q), value)
        ELSE LocalIs(local', "Key", Append(key \o SubSeq(l.key, 1, q), x), value)
    BY <1>3, ScannedIs DEF x
  <2>2. CASE q = k
    <3>1. x = ":" /\ SubSeq(l.key, 1, k) = l.key
      BY <1>1, <1>11, <1>12, <1>2, <2>2, PrefixAll
    <3>2. LocalIs(local', "Colon", keys, value)
      BY <2>1, <2>2, <3>1
    <3>3. q + 1 = k + 1 /\ q \in Nat /\ q + 1 \in 1 .. k + b + v + 3
      BY <1>11, <1>12, <2>2
    <3> QED  BY <1>11, <1>12, <3>2, <3>3 DEF Reading, k, b, v, w
  <2>3. CASE q # k
    <3>1. q + 1 \in 1 .. k /\ q \in Nat /\ q + 1 <= Len(l.key) /\ q + 1 \in 1 .. k + b + v + 3
      BY <1>11, <1>12, <1>3, <2>3
    <3>2. x = l.key[q + 1] /\ x # ":"
      BY <1>1, <1>11, <1>2, <3>1
    <3>3. Append(key \o SubSeq(l.key, 1, q), x) = key \o SubSeq(l.key, 1, q + 1)
      BY <1>11, <1>12, <3>1, <3>2, PrefixGrows
    <3>4. LocalIs(local', "Key", key \o SubSeq(l.key, 1, q + 1), value)
      BY <2>1, <3>2, <3>3
    <3> QED  BY <1>11, <1>12, <3>1, <3>4 DEF Reading, k, b, v, w
  <2> QED  BY <2>2, <2>3
<1>4. ASSUME q \in k + 1 .. k + b + 1, NEW state \in {"Colon", "White"}, LocalIs(local, state, keys, value)
      PROVE  Reading(local', l, q + 1, key, value) /\ q \in Nat /\ q + 1 \in 1 .. Len(w)
  <2>0. q \in Nat /\ q + 1 \in 1 .. k + b + v + 3
    BY <1>11, <1>12, <1>4
  <2>1. IF x = "SP" THEN LocalIs(local', "White", keys, value) ELSE LocalIs(local', "Value", keys, Append(value, x))
    BY <1>4, ScannedIs DEF x
  <2>2. CASE q = k + b + 1
    <3>1. 1 \in 1 .. v /\ k + 1 + b + 1 = q + 1 /\ q + 1 \in k + b + 2 .. k + b + v + 1
          /\ (q + 1) - (k + b + 1) = 1
      BY <1>11, <1>12, <2>2
    <3>2. x = l.value[1] /\ x # "SP"
      BY <1>1, <1>11, <1>2, <3>1
    <3>3. Append(value, x) = value \o SubSeq(l.value, 1, 1)
      <4>1. 0 \in Nat /\ 0 + 1 = 1 /\ 0 + 1 <= Len(l.value)
        BY <1>11, <1>12
      <4>2. Append(value \o SubSeq(l.value, 1, 0), l.value[0 + 1]) = value \o SubSeq(l.value, 1, 0 + 1)
        BY <1>11, <1>12, <4>1, PrefixGrows
      <4>3. SubSeq(l.value, 1, 0) = <<>> /\ value \o <<>> = value
        BY <1>11, <1>12, PrefixAll
      <4> QED  BY <3>2, <4>1, <4>2, <4>3
    <3>4. LocalIs(local', "Value", keys, value \o SubSeq(l.value, 1, (q + 1) - (k + b + 1)))
      BY <2>1, <3>1, <3>2, <3>3
    <3> QED  BY <1>11, <1>12, <2>0, <3>1, <3>4 DEF Reading, k, b, v, w
  <2>3. CASE q # k + b + 1
    <3>1. q - k \in 1 .. b /\ k + 1 + (q - k) = q + 1 /\ q + 1 \in k + 2 .. k + b + 1
      BY <1>11, <1>12, <1>4, <2>3
    <3>2. x = "SP"
      BY <1>1, <1>11, <1>2, <3>1
    <3>3. LocalIs(local', "White", keys, value)
      BY <2>1, <3>2
    <3> QED  BY <1>11, <1>12, <2>0, <3>1, <3>3 DEF Reading, k, b, v, w
  <2> QED  BY <2>2, <2>3
<1>5. CASE /\ q \in k + b + 2 .. k + b + v + 1
           /\ LocalIs(local, "Value", keys, value \o SubSeq(l.value, 1, q - (k + b + 1)))
  <2> DEFINE m == q - (k + b + 1)
  <2>0. /\ q \in Nat /\ q + 1 \in 1 .. k + b + v + 3 /\ m \in 1 .. v /\ m \in Nat
        /\ k + 1 + b + (m + 1) = q + 1 /\ (q + 1) - (k + b + 1) = m + 1
    BY <1>11, <1>12, <1>5
  <2>1. IF x = "CR" THEN LocalIs(local', "CR", keys, value \o SubSeq(l.value, 1, m))
        ELSE LocalIs(local', "Value", keys, Append(value \o SubSeq(l.value, 1, m), x))
    BY <1>5, ScannedIs DEF x
  <2> HIDE DEF m
  <2>2. CASE m = v
    <3>1. q + 1 = k + b + v + 2
      BY <1>11, <1>12, <2>0, <2>2
    <3>2. x = "CR" /\ SubSeq(l.value, 1, v) = l.value
      BY <1>1, <1>11, <1>12, <1>2, <3>1, PrefixAll
    <3>3. LocalIs(local', "CR", keys, value \o l.value)
      BY <2>1, <2>2, <3>2
    <3> QED  BY <1>11, <1>12, <2>0, <3>1, <3>3 DEF Reading, k, b, v, w
  <2>3. CASE m # v
    <3>1. m + 1 \in 1 .. v /\ m + 1 <= Len(l.value) /\ q + 1 \in k + b + 2 .. k + b + v + 1
      BY <1>11, <1>12, <2>0, <2>3
    <3>2. x = l.value[m + 1] /\ x # "CR"
      <4>1. w[k + 1 + b + (m + 1)] = l.value[m + 1] /\ l.value[m + 1] # "CR"
        BY <1>1, <3>1
      <4>2. w[k + 1 + b + (m + 1)] = x
        BY <1>2, <2>0
      <4> QED  BY <4>1, <4>2
    <3>3. Append(value \o SubSeq(l.value, 1, m), x) = value \o SubSeq(l.value, 1, m + 1)
      BY <1>11, <1>12, <2>0, <3>1, <3>2, PrefixGrows
    <3>4. LocalIs(local', "Value", keys, value \o SubSeq(l.value, 1, (q + 1) - (k + b + 1)))
      BY <2>0, <2>1, <3>2, <3>3
    <3> QED  BY <1>11, <1>12, <2>0, <3>1, <3>4 DEF Reading, k, b, v, w
  <2> QED  BY <2>2, <2>3
<1>6. CASE q = k + b + v + 2 /\ LocalIs(local, "CR", keys, value \o l.value)
  <2>1. x = "LF" /\ q + 1 = k + b + v + 3 /\ q \in Nat /\ q + 1 \in 1 .. k + b + v + 3
    BY <1>1, <1>11, <1>2, <1>6
  <2>2. LocalIs(local', "CRLF", keys, value \o l.value)
    BY <1>6, <2>1, ScannedIs DEF x
  <2> QED  BY <1>11, <1>12, <2>1, <2>2 DEF Reading, k, b, v, w
<1>7. ~LocalIs(local, "CRLF", keys, value \o l.value)
  BY DEF LocalIs
<1>8. \A i \in k + 2 .. k + b + 1 : i \in k + 1 .. k + b + 1
  BY <1>11, <1>12
<1>9. k + 1 \in k + 1 .. k + b + 1
  BY <1>11, <1>12
<1> QED  BY <1>12, <1>3, <1>4, <1>5, <1>6, <1>7, <1>8, <1>9 DEF Reading, k, b, v, w

-----------------------------------------------------------------------------
(* What parse() reads. *)

\* The symbols the records bring to the copy c, when all are there.
Brings(c) == Kept(Piece(c, 0, Total), Output)
Meant(c) == Symbols(Brings(c))

LEMMA SymbolsAre ==
  ASSUME NEW s \in Seq(SentBytes)
  PROVE  /\ DOMAIN Symbols(s) = 1 .. Len(s) /\ IsSequence(Symbols(s)) /\ Len(Symbols(s)) = Len(s)
         /\ \A k \in 1 .. Len(s) : Symbols(s)[k] = Byte(s[k]).symbol
<1> DEFINE t == Symbols(s)
           n == Len(s)
           V == {Byte(s[k]).symbol : k \in 1 .. n}
<1>1. n \in Nat /\ DOMAIN s = 1 .. n
  OBVIOUS
<1>2. t = [k \in 1 .. n |-> Byte(s[k]).symbol]
  BY <1>1 DEF Symbols
<1>3. \A k \in 1 .. n : Byte(s[k]).symbol \in V
  OBVIOUS
<1> HIDE DEF V, n, t
<1>4. t \in [1 .. n -> V]
  BY <1>2, <1>3
<1>5. t \in Seq(V) /\ Len(t) = n
  BY <1>1, <1>4
<1> QED  BY <1>1, <1>2, <1>5 DEF IsSequence, n, t

LEMMA DecodedIs ==
  ASSUME TypeOK, NEW c \in Copies, Unread(c)
  PROVE  /\ Decoded(c) \in Seq(SentBytes) /\ Brings(c) \in Seq(SentBytes)
         /\ Used(c) \in 0 .. Total /\ Decoded(c) = Kept(Piece(c, 0, Used(c)), Output)
         /\ Brings(c) = Decoded(c) \o Kept(Piece(c, Used(c), Total), Output)
         /\ Len(Decoded(c)) <= Len(Brings(c))
         /\ \A k \in 1 .. Len(Decoded(c)) : Brings(c)[k] = Decoded(c)[k]
<1>1. Used(c) \in 0 .. Total /\ Total \in 0 .. Total /\ Used(c) <= Total /\ Total \in Nat
  BY TotalIs DEF Unread, Used, TypeOK
<1>2. Decoded(c) = Kept(Piece(c, 0, Used(c)), Output)
  BY DEF Decoded, Used
<1> DEFINE d == Kept(Piece(c, 0, Used(c)), Output)
           r == Kept(Piece(c, Used(c), Total), Output)
<1>3. d \in Seq(SentBytes)
  <2>1. 0 \in 0 .. Total /\ 0 <= Used(c)
    BY <1>1
  <2> QED  BY <1>1, <2>1, OutputOf
<1>4. Brings(c) = d \o r /\ Brings(c) \in Seq(SentBytes)
  BY <1>1, OutputOf DEF Brings
<1>5. r \in Seq(SentBytes)
  <2>1. Piece(c, Used(c), Total) \in Seq(SentBytes)
    BY <1>1, PieceIs
  <2> QED  BY <2>1, KeptTyped
<1> HIDE DEF d, r
<1>6. Joins(d, r, d \o r)
  BY <1>3, <1>5, JoinedIs
<1> QED  BY <1>1, <1>2, <1>3, <1>4, <1>6 DEF Joins, d, r

LEMMA WaitingIs ==
  ASSUME TypeOK, IsSequence(client), NEW c \in Copies, Unread(c), Brought(c), ~prov[c].isStderr
  PROVE  /\ Parsed(c) \in 0 .. Len(Decoded(c)) /\ Len(Decoded(c)) \in Nat
         /\ Forwarded \o out = SubSeq(Decoded(c), Parsed(c) + 1, Len(Decoded(c)))
         /\ Len(Forwarded \o out) = Len(Decoded(c)) - Parsed(c)
         /\ \A k \in 1 .. Len(Forwarded \o out) : (Forwarded \o out)[k] = Decoded(c)[Parsed(c) + k]
         /\ Forwarded \in Seq(SentBytes)
<1> DEFINE d == Decoded(c)
           w == Forwarded \o out
<1>0. d \in Seq(SentBytes) /\ Len(d) \in Nat
  BY DecodedIs
<1>1. PICK n \in 0 .. Len(d) : w = SubSeq(d, n + 1, Len(d))
  BY DEF Brought, EndsWith
<1> HIDE DEF d, w
<1>2. Len(w) = Len(d) - n /\ \A i \in 1 .. Len(d) - n : w[i] = d[n + i]
  BY <1>0, <1>1, SuffixIs
<1>3. Parsed(c) = Len(d) - Len(w)
  BY DEF Parsed, d, w
<1>4. Parsed(c) = n
  BY <1>0, <1>2, <1>3
<1>5. Forwarded \in Seq(SentBytes)
  BY ForwardedMeans, ForwardedIs
<1> QED  BY <1>0, <1>1, <1>2, <1>4, <1>5 DEF d, w

LEMMA NothingYet ==
  ASSUME TypeOK, NEW c \in Copies, Staged(c), Parsing(c)
  PROVE  /\ client = <<>> /\ Forwarded = <<>> /\ out \in Seq(SentBytes) /\ Forwarded \o out = out
         /\ pc = <<"parse", c>> /\ Len(out) > 1 /\ Len(out) \in Nat
<1>1. pc = <<"parse", c>> /\ Len(out) > 1
  BY DEF Parsing, At
<1>2. client = <<>> /\ Forwarded = <<>>
  BY <1>1, NothingForwarded DEF Staged
<1>3. out \in Seq(SentBytes)
  BY DEF TypeOK
<1>4. <<>> \o out = out
  BY <1>3, ConcatEmptySeq
<1> QED  BY <1>1, <1>2, <1>3, <1>4

LEMMA ReadsNext ==
  ASSUME TypeOK, IsSequence(client), NEW c \in Copies, Staged(c), Unread(c), Brought(c),
         ~prov[c].isStderr, Parsing(c)
  PROVE  /\ Parsed(c) \in Nat /\ Parsed(c) + 2 <= Len(Meant(c)) /\ Len(Meant(c)) \in Nat
         /\ Ch = Meant(c)[Parsed(c) + 1]
<1> DEFINE d == Decoded(c)
           t == Parsed(c)
<1>1. Forwarded \o out = out /\ Len(out) > 1 /\ Len(out) \in Nat
  BY NothingYet
<1>2. /\ t \in 0 .. Len(d) /\ Len(d) \in Nat /\ Len(out) = Len(d) - t
      /\ \A k \in 1 .. Len(out) : out[k] = d[t + k]
  BY <1>1, WaitingIs
<1>3. /\ Brings(c) \in Seq(SentBytes) /\ Len(d) <= Len(Brings(c))
      /\ \A k \in 1 .. Len(d) : Brings(c)[k] = d[k]
  BY DecodedIs
<1>4. /\ Len(Meant(c)) = Len(Brings(c)) /\ Len(Brings(c)) \in Nat
      /\ \A k \in 1 .. Len(Brings(c)) : Meant(c)[k] = Byte(Brings(c)[k]).symbol
  BY <1>3, SymbolsAre DEF Meant
<1> HIDE DEF d, t
<1>5. 1 \in 1 .. Len(out) /\ t \in Nat /\ t + 2 <= Len(d) /\ t + 1 \in 1 .. Len(d)
  BY <1>1, <1>2
<1>6. out[1] = Brings(c)[t + 1] /\ t + 1 \in 1 .. Len(Brings(c))
  BY <1>2, <1>3, <1>4, <1>5
<1> QED  BY <1>3, <1>4, <1>5, <1>6 DEF Ch, t

LEMMA ParseTakes ==
  ASSUME TypeOK, IsSequence(client), NEW c \in Copies, Staged(c), Unread(c), Brought(c),
         ~prov[c].isStderr, Scan(c) \/ EndLine(c)
  PROVE  /\ Meant(c)' = Meant(c) /\ Parsing(c) /\ answer' = answer
         /\ Scan(c) => Parsed(c)' = Parsed(c) + 1
         /\ EndLine(c) => Parsed(c)' = Parsed(c) + (IF Ch = "CR" THEN 2 ELSE 1)
<1>1. Parsing(c) /\ answer' = answer /\ client' = client /\ got' = got /\ buffer' = buffer
  BY DEF Scan, EndLine
<1>2. /\ client = <<>> /\ out \in Seq(SentBytes) /\ Len(out) > 1 /\ Len(out) \in Nat
      /\ Forwarded \o out = out /\ Forwarded = <<>>
  BY <1>1, NothingYet
<1>3. Decoded(c)' = Decoded(c) /\ Forwarded' = <<>> /\ Meant(c)' = Meant(c)
  <2>1. Decoded(c)' = Decoded(c)
    BY <1>1, AnswerStays DEF Decoded
  <2>2. Forwarded' = Forwarded
    BY <1>1, AnswerStays DEF Forwarded
  <2>3. Meant(c)' = Meant(c)
    BY <1>1, AnswerStays DEF Meant, Brings, Symbols, Byte
  <2> QED  BY <1>2, <2>1, <2>2, <2>3
<1>4. Len(Decoded(c)) \in Nat
  BY WaitingIs
<1>5. ASSUME NEW m \in 0 .. Len(out), out' = SubSeq(out, m + 1, Len(out))
      PROVE  Parsed(c)' = Parsed(c) + m
  <2>1. out' \in Seq(SentBytes) /\ Len(out') = Len(out) - m
    BY <1>2, <1>5, SuffixIs
  <2>2. <<>> \o out' = out'
    BY <2>1, ConcatEmptySeq
  <2>3. Parsed(c)' = Len(Decoded(c)) - Len(out') /\ Parsed(c) = Len(Decoded(c)) - Len(out)
    BY <1>2, <1>3, <2>2 DEF Parsed
  <2> QED  BY <1>2, <1>4, <2>1, <2>3
<1>6. 1 \in 0 .. Len(out) /\ 2 \in 0 .. Len(out) /\ 1 + 1 = 2 /\ 2 + 1 = 3
  BY <1>2
<1>7. ASSUME Scan(c) PROVE Parsed(c)' = Parsed(c) + 1
  <2>1. out # <<>>
    BY <1>2
  <2>2. out' = SubSeq(out, 2, Len(out))
    BY <1>2, <1>7, <2>1, TailIsSubSeq DEF Scan
  <2> QED  BY <1>5, <1>6, <2>2
<1>8. ASSUME EndLine(c) PROVE Parsed(c)' = Parsed(c) + (IF Ch = "CR" THEN 2 ELSE 1)
  <2>1. out' = SubSeq(out, IF Ch = "CR" THEN 3 ELSE 2, Len(out))
    BY <1>8 DEF EndLine
  <2>2. CASE Ch = "CR"
    BY <1>5, <1>6, <2>1, <2>2
  <2>3. CASE Ch # "CR"
    BY <1>5, <1>6, <2>1, <2>3
  <2> QED  BY <2>2, <2>3
<1> QED  BY <1>1, <1>3, <1>7, <1>8

-----------------------------------------------------------------------------
(* Where parse() stands. *)

\* A status leaves its key and value in front of the next line's.
Leftover(lines, j, key, value) ==
  /\ key \in Seq(Marked) /\ value \in Seq(Marked)
  /\ \/ key = <<>> /\ value = <<>>
     \/ key = Status /\ j \in Statuses(lines)

\* What the provider has of j lines, and of all.
SoFar(c, j) ==
  StatusLast(answer.lines) =>
    prov[c].code = 200 /\ prov[c].fields = FieldsUpto(answer.lines, j)
AsMeant(c) ==
  StatusLast(answer.lines) =>
    prov[c].code = CodeMeant(answer.lines) /\ prov[c].fields = FieldsMeant(answer.lines)

InLine(c, o, j) ==
  /\ \E key, value :
       /\ Leftover(answer.lines, j, key, value)
       /\ Reading(local, answer.lines[j + 1], Parsed(c) - o[j], key, value)
  /\ SoFar(c, j)

StandingAt(c, o) ==
  \/ LocalIs(local, "Begin", <<>>, <<>>) /\ Parsed(c) = 0 /\ SoFar(c, 0)
  \/ \E j \in 0 .. Len(answer.lines) - 1 : InLine(c, o, j)
  \/ local.state = "Done" /\ Parsed(c) = Len(HeadOf(answer.lines)) /\ AsMeant(c)
Standing(c) == \E o : LaidOut(o, answer.lines, Meant(c)) /\ StandingAt(c, o)

Lines(lines) == lines \in Seq(Line) /\ lines # <<>>

LineIs(lines, o, text, j) ==
  LET l == lines[j + 1]
      n == Len(lines)
  IN  /\ n \in Nat /\ n >= 1 /\ j \in Nat /\ j + 1 \in 1 .. n
      /\ l \in Line /\ Len(Wire(l)) \in Nat /\ Len(Wire(l)) >= 1
      /\ o[j] \in Nat /\ o[j + 1] = o[j] + Len(Wire(l)) /\ o[n] \in Nat /\ o[j + 1] <= o[n]
      /\ \A i \in 1 .. Len(Wire(l)) : text[o[j] + i] = Wire(l)[i]
      /\ text[o[n] + 1] = "CR" /\ Len(HeadOf(lines)) = o[n] + 2
      /\ Wire(l)[1] = l.key[1] /\ l.key[1] \notin {"SP", ":", "CR", "LF"}

LEMMA LineHere ==
  ASSUME NEW lines, Lines(lines), NEW o, NEW text, LaidOut(o, lines, text),
         NEW j \in 0 .. Len(lines) - 1
  PROVE  LineIs(lines, o, text, j)
<1> DEFINE n == Len(lines)
           l == lines[j + 1]
<1>1. n \in Nat /\ n >= 1 /\ \A i \in 1 .. n : lines[i] \in Line
  <2>1. \A q \in Seq(Line) : Len(q) \in Nat /\ (q # <<>> => Len(q) >= 1) /\ \A i \in 1 .. Len(q) : q[i] \in Line
    OBVIOUS
  <2> QED  BY <2>1 DEF Lines
<1>2. j \in 0 .. n - 1
  OBVIOUS
<1>3. /\ o \in [0 .. n -> Nat]
      /\ \A i \in 1 .. n :
           /\ o[i] = o[i - 1] + Len(Wire(lines[i])) /\ o[i] <= o[n]
           /\ \A m \in 1 .. Len(Wire(lines[i])) : text[o[i - 1] + m] = Wire(lines[i])[m]
      /\ text[o[n] + 1] = "CR" /\ Len(HeadOf(lines)) = o[n] + 2
  BY DEF LaidOut
<1> HIDE DEF n
<1>4. j + 1 \in 1 .. n /\ (j + 1) - 1 = j /\ j \in 0 .. n /\ n \in 0 .. n /\ j \in Nat
  BY <1>1, <1>2
<1>5. l \in Line
  BY <1>1, <1>4
<1>6. Len(Wire(l)) \in Nat /\ Len(Wire(l)) >= 1 /\ Wire(l)[1] = l.key[1]
      /\ l.key[1] \notin {"SP", ":", "CR", "LF"}
  <2> DEFINE k == Len(l.key)
             b == l.blanks
             v == Len(l.value)
             w == Wire(l)
  <2>1. /\ k \in Nat /\ k >= 1 /\ b \in Nat /\ v \in Nat /\ Len(w) = k + b + v + 3
        /\ \A q \in 1 .. k : w[q] = l.key[q] /\ w[q] \notin {"SP", ":", "CR", "LF"}
    BY <1>5, WireIs
  <2> HIDE DEF k, b, v, w
  <2>2. 1 \in 1 .. k /\ Len(w) \in Nat /\ Len(w) >= 1
    BY <2>1
  <2> QED  BY <2>1, <2>2 DEF w
<1>7. /\ o[j + 1] = o[j] + Len(Wire(l)) /\ o[j + 1] <= o[n]
      /\ \A i \in 1 .. Len(Wire(l)) : text[o[j] + i] = Wire(l)[i]
  BY <1>3, <1>4
<1>8. o[j] \in Nat /\ o[n] \in Nat
  BY <1>3, <1>4
<1> HIDE DEF l
<1> QED  BY <1>1, <1>3, <1>4, <1>5, <1>6, <1>7, <1>8 DEF n, l, LineIs

LEMMA ReadingWithin ==
  ASSUME NEW l \in Line, NEW x, NEW q, NEW key, NEW value, Reading(x, l, q, key, value)
  PROVE  /\ q \in 1 .. Len(Wire(l)) /\ q \in Nat
         /\ x.state = "CRLF" <=> q = Len(Wire(l))
         /\ x.state = "CRLF" => LocalIs(x, "CRLF", key \o l.key, value \o l.value)
         /\ x.state \notin {"Begin", "Done"}
<1> DEFINE k == Len(l.key)
           b == l.blanks
           v == Len(l.value)
<1>1. k \in Nat /\ k >= 1 /\ b \in Nat /\ v \in Nat /\ v >= 1 /\ Len(Wire(l)) = k + b + v + 3
  BY WireIs
<1> DEFINE keys == key \o l.key
           values == value \o l.value
           some == key \o SubSeq(l.key, 1, q)
           more == value \o SubSeq(l.value, 1, q - (k + b + 1))
<1>2. \/ q \in 1 .. k /\ LocalIs(x, "Key", some, value)
      \/ q = k + 1 /\ LocalIs(x, "Colon", keys, value)
      \/ q \in k + 2 .. k + b + 1 /\ LocalIs(x, "White", keys, value)
      \/ q \in k + b + 2 .. k + b + v + 1 /\ LocalIs(x, "Value", keys, more)
      \/ q = k + b + v + 2 /\ LocalIs(x, "CR", keys, values)
      \/ q = k + b + v + 3 /\ LocalIs(x, "CRLF", keys, values)
  BY DEF Reading
<1>3. \A s, y, z : LocalIs(x, s, y, z) => x.state = s
  BY DEF LocalIs
<1> HIDE DEF k, b, v, keys, values, some, more
<1>4. CASE q = k + b + v + 3 /\ LocalIs(x, "CRLF", keys, values)
  <2>1. x.state = "CRLF"
    BY <1>3, <1>4
  <2>2. q \in 1 .. k + b + v + 3 /\ q \in Nat
    BY <1>1, <1>4
  <2> QED  BY <1>1, <1>4, <2>1, <2>2 DEF keys, values
<1>5. ASSUME q \in 1 .. k + b + v + 2,
             \E s \in {"Key", "Colon", "White", "Value", "CR"} : \E y, z : LocalIs(x, s, y, z)
      PROVE  /\ q \in 1 .. Len(Wire(l)) /\ q \in Nat /\ q # Len(Wire(l))
             /\ x.state \in {"Key", "Colon", "White", "Value", "CR"}
  <2>1. x.state \in {"Key", "Colon", "White", "Value", "CR"}
    BY <1>3, <1>5
  <2>2. q \in 1 .. k + b + v + 3 /\ q \in Nat /\ q # k + b + v + 3
    BY <1>1, <1>5
  <2> QED  BY <1>1, <2>1, <2>2
<1>6. CASE q \in 1 .. k /\ LocalIs(x, "Key", some, value)
  <2>1. q \in 1 .. k + b + v + 2
    BY <1>1, <1>6
  <2> QED  BY <1>5, <1>6, <2>1
<1>7. CASE \/ q = k + 1 /\ LocalIs(x, "Colon", keys, value)
           \/ q \in k + 2 .. k + b + 1 /\ LocalIs(x, "White", keys, value)
  <2>1. q \in 1 .. k + b + v + 2
    BY <1>1, <1>7
  <2> QED  BY <1>5, <1>7, <2>1
<1>8. CASE \/ q \in k + b + 2 .. k + b + v + 1 /\ LocalIs(x, "Value", keys, more)
           \/ q = k + b + v + 2 /\ LocalIs(x, "CR", keys, values)
  <2>1. q \in 1 .. k + b + v + 2
    BY <1>1, <1>8
  <2> QED  BY <1>5, <1>8, <2>1
<1> QED  BY <1>2, <1>4, <1>6, <1>7, <1>8

\* A line begins with the first symbol of its key.
LEMMA KeyBegins ==
  ASSUME NEW l \in Line, NEW x, NEW key \in Seq(Marked), NEW value,
         LocalIs(x, "Key", Append(key, l.key[1]), value)
  PROVE  Reading(x, l, 1, key, value)
<1>1. l.key \in Seq(Marked) /\ Len(l.key) \in Nat /\ Len(l.key) >= 1
  BY WireIs
<1>2. Append(key \o SubSeq(l.key, 1, 0), l.key[0 + 1]) = key \o SubSeq(l.key, 1, 0 + 1)
  <2>1. 0 \in Nat /\ 0 + 1 <= Len(l.key)
    BY <1>1
  <2> QED  BY <1>1, <2>1, PrefixGrows
<1>3. SubSeq(l.key, 1, 0) = <<>> /\ key \o <<>> = key
  BY <1>1, PrefixAll
<1>4. Append(key, l.key[1]) = key \o SubSeq(l.key, 1, 1) /\ 1 \in 1 .. Len(l.key)
  <2>1. 0 + 1 = 1
    OBVIOUS
  <2> QED  BY <1>1, <1>2, <1>3, <2>1
<1>5. LocalIs(x, "Key", key \o SubSeq(l.key, 1, 1), value)
  BY <1>4
<1> QED  BY <1>4, <1>5 DEF Reading

LEMMA NothingMarked == <<>> \in Seq(Marked)
OBVIOUS

\* The invariants of a provider that is alone which these steps rest on.
Ready(c) ==
  /\ TypeOK /\ IsSequence(client) /\ Staged(c) /\ Unread(c) /\ Brought(c)
  /\ ~prov[c].isStderr /\ Lines(answer.lines)

LEMMA OneFurther ==
  ASSUME NEW t \in Nat, NEW start \in Nat, NEW size \in Nat, t - start \in 1 .. size, t - start # size
  PROVE  (t - start) + 1 \in 1 .. size /\ start + ((t - start) + 1) = t + 1
OBVIOUS

LEMMA ScanStands ==
  ASSUME NEW c \in Copies, Ready(c), Standing(c), Scan(c)
  PROVE  Standing(c)'
<1> DEFINE lines == answer.lines
           t == Parsed(c)
           n == Len(lines)
<1>0. PICK o : LaidOut(o, lines, Meant(c)) /\ StandingAt(c, o)
  BY DEF Standing
<1>1. /\ Meant(c)' = Meant(c) /\ Parsing(c) /\ answer' = answer /\ Parsed(c)' = t + 1
  BY ParseTakes DEF Ready
<1>2. t \in Nat /\ Ch = Meant(c)[t + 1]
  BY <1>1, ReadsNext DEF Ready
<1>3. local' = Scanned /\ prov' = prov /\ local.state # "CRLF" /\ local.state # "Done"
  BY DEF Scan, Parsing
<1>4. \A j : SoFar(c, j) => SoFar(c, j)'
  BY <1>1, <1>3 DEF SoFar
<1>5. LaidOut(o, lines', Meant(c)')
  BY <1>0, <1>1
<1> HIDE DEF t
<1>6. CASE LocalIs(local, "Begin", <<>>, <<>>) /\ t = 0 /\ SoFar(c, 0)
  <2> DEFINE l == lines[0 + 1]
  <2>0. n \in Nat /\ n >= 1
    BY DEF Ready, Lines
  <2>1. 0 \in 0 .. n - 1
    BY <2>0
  <2>2. /\ l \in Line /\ Len(Wire(l)) \in Nat /\ Len(Wire(l)) >= 1
        /\ \A i \in 1 .. Len(Wire(l)) : Meant(c)[o[0] + i] = Wire(l)[i]
        /\ Wire(l)[1] = l.key[1] /\ l.key[1] \notin {"SP", ":", "CR", "LF"}
    <3>1. LineIs(lines, o, Meant(c), 0)
      BY <1>0, <2>1, LineHere, Zenon DEF Ready
    <3> QED  BY <3>1, Zenon DEF LineIs
  <2>3. o[0] = 0
    BY <1>0 DEF LaidOut
  <2>4. Ch = l.key[1]
    <3>1. 1 \in 1 .. Len(Wire(l)) /\ o[0] + 1 = t + 1
      BY <1>6, <2>2, <2>3
    <3> QED  BY <1>2, <2>2, <3>1
  <2>5. LocalIs(local', "Key", Append(<<>>, l.key[1]), <<>>)
    BY <1>3, <1>6, <2>2, <2>4, ScannedIs
  <2>6. Reading(local', l, 1, <<>>, <<>>)
    BY <2>2, <2>5, NothingMarked, KeyBegins
  <2>7. Parsed(c)' - o[0] = 1
    BY <1>1, <1>6, <2>3
  <2>8. Leftover(lines, 0, <<>>, <<>>)
    BY NothingMarked DEF Leftover
  <2>9. InLine(c, o, 0)'
    BY <1>1, <1>4, <1>6, <2>6, <2>7, <2>8 DEF InLine
  <2> QED  BY <1>1, <1>5, <2>1, <2>9 DEF Standing, StandingAt
<1>7. CASE \E j \in 0 .. n - 1 : InLine(c, o, j)
  <2>1. PICK j \in 0 .. n - 1 : InLine(c, o, j)
    BY <1>7
  <2> DEFINE l == lines[j + 1]
             q == t - o[j]
  <2>2. PICK key, value : Leftover(lines, j, key, value) /\ Reading(local, l, q, key, value)
    BY <2>1 DEF InLine, t
  <2>3. /\ l \in Line /\ o[j] \in Nat /\ Len(Wire(l)) \in Nat
        /\ \A i \in 1 .. Len(Wire(l)) : Meant(c)[o[j] + i] = Wire(l)[i]
    <3>1. LineIs(lines, o, Meant(c), j)
      BY <1>0, LineHere, Zenon DEF Ready
    <3> QED  BY <3>1, Zenon DEF LineIs
  <2> HIDE DEF l
  <2>4. q \in 1 .. Len(Wire(l)) /\ q # Len(Wire(l))
    BY <1>3, <2>2, <2>3, ReadingWithin
  <2>5. Ch = Wire(l)[q + 1]
    <3>1. q + 1 \in 1 .. Len(Wire(l)) /\ o[j] + (q + 1) = t + 1
      BY <1>2, <2>3, <2>4, OneFurther
    <3> QED  BY <1>2, <2>3, <3>1
  <2>6. Reading(local', l, q + 1, key, value)
    BY <1>3, <2>2, <2>3, <2>5, ScanReads DEF Leftover
  <2>7. Parsed(c)' - o[j] = q + 1
    BY <1>1, <1>2, <2>3
  <2>8. InLine(c, o, j)'
    BY <1>1, <1>4, <2>1, <2>2, <2>6, <2>7 DEF InLine, l
  <2> QED  BY <1>1, <1>5, <2>8 DEF Standing, StandingAt
<1> QED  BY <1>0, <1>3, <1>6, <1>7 DEF StandingAt, t

\* What the end of a line changes.
LEMMA LineEnds ==
  ASSUME TypeOK, NEW c \in Copies, EndLine(c),
         NEW key, NEW value, LocalIs(local, "CRLF", key, value)
  PROVE  LET p == prov[c]
             q == prov'[c]
         IN  /\ Ch = "CR" => local'.state = "Done"
             /\ Ch # "CR" /\ key = Status => LocalIs(local', "Key", Append(key, Ch), value)
             /\ Ch # "CR" /\ key # Status => LocalIs(local', "Key", Append(<<>>, Ch), <<>>)
             /\ key = Status =>
                  value[1] \in DOMAIN Codes /\ q.code = Codes[value[1]] /\ q.fields = p.fields
             /\ key # Status =>
                  /\ q.code = p.code
                  /\ q.fields = {x \in p.fields : x[1] # key} \cup {<<key, value>>}
<1> DEFINE x == Ch
<1>1. /\ local = [state |-> "CRLF", key |-> key, value |-> value] /\ local.state = "CRLF"
      /\ local.key = key /\ local.value = value /\ (IsStatus <=> key = Status)
  BY DEF LocalIs, IsStatus
<1>2. /\ local' = IF x = "CR" THEN [Emptied EXCEPT !.state = "Done"]
                  ELSE [Emptied EXCEPT !.state = "Key", !.key = Append(@, x)]
      /\ prov' = Entered(c) /\ (IsStatus => value[1] \in DOMAIN Codes)
  BY <1>1 DEF EndLine
<1> HIDE DEF x
<1>3. /\ key = Status => Emptied = [state |-> "CRLF", key |-> key, value |-> value]
      /\ key # Status => Emptied = [state |-> "CRLF", key |-> <<>>, value |-> <<>>]
  BY <1>1 DEF Emptied
<1>4. ASSUME NEW k, NEW v, Emptied = [state |-> "CRLF", key |-> k, value |-> v], x # "CR"
      PROVE  LocalIs(local', "Key", Append(k, x), v)
  <2> DEFINE e == Append(k, x)
  <2>1. local' = [Emptied EXCEPT !.state = "Key", !.key = e]
    BY <1>2, <1>4
  <2> HIDE DEF e
  <2>2. local' = [state |-> "Key", key |-> e, value |-> v]
    BY <1>4, <2>1
  <2> QED  BY <2>2 DEF LocalIs, e
<1>5. x = "CR" => local'.state = "Done"
  BY <1>2, <1>3
<1>6. IsProvider(prov[c]) /\ DOMAIN prov = Copies
  BY ProvidersAre
<1>7. ASSUME key = Status
      PROVE  /\ value[1] \in DOMAIN Codes /\ prov'[c].code = Codes[value[1]]
             /\ prov'[c].fields = prov[c].fields
  <2>1. prov' = [prov EXCEPT ![c].code = Codes[value[1]]]
    BY <1>1, <1>2, <1>7 DEF Entered
  <2> DEFINE y == Codes[value[1]]
  <2> HIDE DEF y
  <2>2. prov' = [prov EXCEPT ![c].code = y]
    BY <2>1 DEF y
  <2>3. prov'[c].code = y /\ prov'[c].fields = prov[c].fields
    BY <1>6, <2>2 DEF IsProvider, NewProvider
  <2> QED  BY <1>1, <1>2, <1>7, <2>3 DEF y
<1>8. ASSUME key # Status
      PROVE  /\ prov'[c].code = prov[c].code
             /\ prov'[c].fields = {y \in prov[c].fields : y[1] # key} \cup {<<key, value>>}
  <2> DEFINE f == {y \in prov[c].fields : y[1] # key} \cup {<<key, value>>}
  <2>1. prov' = [prov EXCEPT ![c].fields = {y \in @ : y[1] # key} \cup {<<key, value>>}]
    BY <1>1, <1>2, <1>8 DEF Entered
  <2>2. prov' = [prov EXCEPT ![c].fields = f]
    BY <2>1
  <2> HIDE DEF f
  <2>3. prov'[c].fields = f /\ prov'[c].code = prov[c].code
    BY <1>6, <2>2 DEF IsProvider, NewProvider
  <2> QED  BY <2>3 DEF f
<1> QED  BY <1>3, <1>4, <1>5, <1>7, <1>8 DEF x

\* A status is one symbol; what is put behind it is none.
LEMMA StatusIs ==
  ASSUME NEW s \in Seq(Marked), Len(s) >= 1
  PROVE  Status \in Seq(Marked) /\ Status \o s # Status
<1>1. Status \in Seq(Marked) /\ Len(Status) = 1
  <2>1. "Status" \in Marked
    BY DEF Marked
  <2> QED  BY <2>1, OneIs DEF Status
<1>2. Joins(Status, s, Status \o s)
  BY <1>1, JoinedIs
<1>3. Len(Status \o s) = Len(Status) + Len(s) /\ Len(s) \in Nat
  BY <1>2 DEF Joins
<1> QED  BY <1>1, <1>3

LEMMA KeyIs ==
  ASSUME NEW lines, NEW j, NEW l \in Line, NEW key, NEW value, Leftover(lines, j, key, value)
  PROVE  LET k == key \o l.key
             v == value \o l.value
         IN  /\ key = <<>> => k = l.key /\ v = l.value
             /\ k = Status => key = <<>>
             /\ key # <<>> => j \in Statuses(lines)
<1>1. l.key \in Seq(Marked) /\ Len(l.key) >= 1 /\ l.value \in Seq(Marked)
  BY WireIs
<1>2. <<>> \o l.key = l.key /\ <<>> \o l.value = l.value
  BY <1>1, PrefixAll
<1>3. Status \o l.key # Status
  BY <1>1, StatusIs
<1>4. Status # <<>>
  BY DEF Status
<1> QED  BY <1>2, <1>3, <1>4 DEF Leftover

LEMMA StatusesAre ==
  ASSUME NEW lines, Lines(lines)
  PROVE  Statuses(lines) = {i \in 1 .. Len(lines) : lines[i].key = Status}
BY DEF Lines, Statuses

LEMMA EndLineStands ==
  ASSUME NEW c \in Copies, Ready(c), Standing(c), EndLine(c)
  PROVE  Standing(c)'
<1> DEFINE lines == answer.lines
           t == Parsed(c)
           n == Len(lines)
<1>0. PICK o : LaidOut(o, lines, Meant(c)) /\ StandingAt(c, o)
  BY DEF Standing
<1>1. /\ Meant(c)' = Meant(c) /\ Parsing(c) /\ answer' = answer
      /\ Parsed(c)' = t + (IF Ch = "CR" THEN 2 ELSE 1)
  BY ParseTakes DEF Ready
<1>2. t \in Nat /\ Ch = Meant(c)[t + 1]
  BY <1>1, ReadsNext DEF Ready
<1>3. local.state = "CRLF"
  BY DEF EndLine
<1>4. LaidOut(o, lines', Meant(c)') /\ lines' = lines
  BY <1>0, <1>1
<1>5. \E j \in 0 .. n - 1 : InLine(c, o, j)
  <2>1. ~LocalIs(local, "Begin", <<>>, <<>>) /\ local.state # "Done"
    BY <1>3 DEF LocalIs
  <2> QED  BY <1>0, <2>1 DEF StandingAt
<1> HIDE DEF t
<1>6. PICK j \in 0 .. n - 1 : InLine(c, o, j)
  BY <1>5
<1> DEFINE l == lines[j + 1]
<1>7. PICK key, value : Leftover(lines, j, key, value) /\ Reading(local, l, t - o[j], key, value)
  BY <1>6 DEF InLine, t
<1>8. LineIs(lines, o, Meant(c), j)
  BY <1>0, LineHere, Zenon DEF Ready
<1>9. /\ n \in Nat /\ n >= 1 /\ j \in Nat /\ j + 1 \in 1 .. n /\ l \in Line
      /\ o[j] \in Nat /\ o[j + 1] = o[j] + Len(Wire(l)) /\ Len(Wire(l)) \in Nat
      /\ o[n] \in Nat /\ Meant(c)[o[n] + 1] = "CR" /\ Len(HeadOf(lines)) = o[n] + 2
  BY <1>8, Zenon DEF LineIs
<1> DEFINE k == key \o l.key
           v == value \o l.value
<1>10. t - o[j] = Len(Wire(l)) /\ LocalIs(local, "CRLF", k, v)
  <2> HIDE DEF l
  <2> QED  BY <1>3, <1>7, <1>9, ReadingWithin
<1>11. t = o[j + 1]
  BY <1>2, <1>9, <1>10
<1>12. /\ key = <<>> => k = l.key /\ v = l.value
       /\ k = Status => key = <<>>
       /\ key # <<>> => j \in Statuses(lines)
  <2> HIDE DEF l
  <2>1. key = <<>> => k = l.key /\ v = l.value
    BY <1>7, <1>9, KeyIs
  <2>2. k = Status => key = <<>>
    BY <1>7, <1>9, KeyIs
  <2>3. key # <<>> => j \in Statuses(lines)
    BY <1>7, <1>9, KeyIs
  <2> QED  BY <2>1, <2>2, <2>3
<1>13. /\ Ch = "CR" => local'.state = "Done"
       /\ Ch # "CR" /\ k = Status => LocalIs(local', "Key", Append(k, Ch), v)
       /\ Ch # "CR" /\ k # Status => LocalIs(local', "Key", Append(<<>>, Ch), <<>>)
       /\ k = Status => prov'[c].code = Codes[v[1]] /\ prov'[c].fields = prov[c].fields
       /\ k # Status =>
            /\ prov'[c].code = prov[c].code
            /\ prov'[c].fields = {x \in prov[c].fields : x[1] # k} \cup {<<k, v>>}
  <2> HIDE DEF k, v
  <2> QED  BY <1>10, LineEnds DEF Ready
<1>14. Statuses(lines) = {i \in 1 .. n : lines[i].key = Status}
  BY StatusesAre DEF Ready
<1> HIDE DEF k, v, l, n, lines
<1>15. ASSUME StatusLast(lines)
       PROVE  /\ Statuses(lines) \subseteq {n} /\ key = <<>> /\ k = l.key /\ v = l.value
              /\ prov[c].code = 200 /\ prov[c].fields = FieldsUpto(lines, j)
  <2>1. Statuses(lines) \subseteq {n}
    BY <1>15 DEF StatusLast, n
  <2>2. j # n
    BY <1>9
  <2>3. SoFar(c, j)
    BY <1>6 DEF InLine
  <2> QED  BY <1>12, <1>15, <2>1, <2>2, <2>3 DEF SoFar, lines
<1>16. CASE j + 1 < n
  <2> DEFINE m == lines[(j + 1) + 1]
  <2>1. j + 1 \in 0 .. n - 1
    BY <1>9, <1>16
  <2>2. LineIs(lines, o, Meant(c), j + 1)
    BY <1>0, <2>1, LineHere, Zenon DEF Ready, n, lines
  <2>3. /\ m \in Line /\ Len(Wire(m)) \in Nat /\ Len(Wire(m)) >= 1
        /\ \A i \in 1 .. Len(Wire(m)) : Meant(c)[o[j + 1] + i] = Wire(m)[i]
        /\ Wire(m)[1] = m.key[1] /\ m.key[1] \notin {"SP", ":", "CR", "LF"}
    BY <2>2, Zenon DEF LineIs
  <2> HIDE DEF m
  <2>4. Ch = m.key[1] /\ Ch # "CR"
    <3>1. 1 \in 1 .. Len(Wire(m))
      BY <2>3
    <3> QED  BY <1>2, <1>11, <2>3, <3>1
  <2>5. Parsed(c)' - o[j + 1] = 1
    <3>1. Parsed(c)' = t + 1
      BY <1>1, <2>4 DEF t
    <3> QED  BY <1>2, <1>11, <3>1
  <2>6. CASE k = Status
    <3>1. key = <<>> /\ l.key = Status /\ v = l.value /\ j + 1 \in Statuses(lines)
      BY <1>9, <1>12, <1>14, <2>6 DEF l
    <3>2. l.value \in Seq(Marked) /\ Status \in Seq(Marked)
      BY <1>9, <3>1, WireIs
    <3>3. Leftover(lines, j + 1, Status, l.value)
      BY <3>1, <3>2 DEF Leftover
    <3>4. LocalIs(local', "Key", Append(Status, m.key[1]), l.value)
      BY <1>13, <2>4, <2>6, <3>1
    <3>5. Reading(local', m, 1, Status, l.value)
      BY <2>3, <3>2, <3>4, KeyBegins
    <3>6. ~StatusLast(lines)
      <4>1. j + 1 # n
        BY <1>9, <1>16
      <4> QED  BY <1>15, <3>1, <4>1
    <3>7. SoFar(c, j + 1)'
      BY <1>1, <3>6 DEF SoFar, lines
    <3>8. InLine(c, o, j + 1)'
      BY <1>1, <2>5, <3>3, <3>5, <3>7 DEF InLine, m, lines
    <3> QED  BY <1>1, <1>4, <2>1, <3>8 DEF Standing, StandingAt, n, lines
  <2>7. CASE k # Status
    <3>3. Leftover(lines, j + 1, <<>>, <<>>)
      BY NothingMarked DEF Leftover
    <3>4. LocalIs(local', "Key", Append(<<>>, m.key[1]), <<>>)
      BY <1>13, <2>4, <2>7
    <3>5. Reading(local', m, 1, <<>>, <<>>)
      BY <2>3, <3>4, NothingMarked, KeyBegins
    <3>7. SoFar(c, j + 1)'
      <4> SUFFICES ASSUME StatusLast(lines)
                   PROVE  prov'[c].code = 200 /\ prov'[c].fields = FieldsUpto(lines, j + 1)
        BY <1>1 DEF SoFar, lines
      <4>1. FieldsUpto(lines, j + 1) = {x \in FieldsUpto(lines, j) : x[1] # l.key} \cup {<<l.key, l.value>>}
        BY <1>9, FieldsNext DEF l
      <4>2. /\ k = l.key /\ v = l.value /\ prov[c].code = 200
            /\ prov[c].fields = FieldsUpto(lines, j)
        BY <1>15
      <4>3. /\ prov'[c].code = prov[c].code
            /\ prov'[c].fields = {x \in prov[c].fields : x[1] # k} \cup {<<k, v>>}
        BY <1>13, <2>7
      <4> QED  BY <4>1, <4>2, <4>3
    <3>8. InLine(c, o, j + 1)'
      BY <1>1, <2>5, <3>3, <3>5, <3>7 DEF InLine, m, lines
    <3> QED  BY <1>1, <1>4, <2>1, <3>8 DEF Standing, StandingAt, n, lines
  <2> QED  BY <2>6, <2>7
<1>17. CASE j + 1 = n
  <2>1. Ch = "CR" /\ local'.state = "Done"
    BY <1>2, <1>9, <1>11, <1>13, <1>17
  <2>2. Parsed(c)' = Len(HeadOf(lines))
    <3>1. Parsed(c)' = t + 2
      BY <1>1, <2>1 DEF t
    <3> QED  BY <1>9, <1>11, <1>17, <3>1
  <2>3. AsMeant(c)'
    <3> SUFFICES ASSUME StatusLast(lines)
                 PROVE  prov'[c].code = CodeMeant(lines) /\ prov'[c].fields = FieldsMeant(lines)
      BY <1>1 DEF AsMeant, lines
    <3>0. lines \in Seq(Line) /\ lines # <<>>
      BY DEF Ready, Lines, lines
    <3>1. /\ Statuses(lines) = {} => FieldsMeant(lines) = FieldsUpto(lines, n)
          /\ n \in Statuses(lines) => FieldsMeant(lines) = FieldsUpto(lines, n - 1)
      BY <3>0, FieldsAtEnd DEF n
    <3>2. n \in 1 .. n /\ n - 1 = j /\ l = lines[n]
      BY <1>9, <1>17 DEF l
    <3>3. CASE l.key = Status
      <4>1. n \in Statuses(lines)
        BY <1>14, <3>2, <3>3
      <4>2. CodeMeant(lines) = Codes[l.value[1]]
        BY <3>2, <4>1 DEF CodeMeant, n
      <4> QED  BY <1>13, <1>15, <3>1, <3>2, <3>3, <4>1, <4>2
    <3>4. CASE l.key # Status
      <4>1. Statuses(lines) = {}
        BY <1>14, <1>15, <3>2, <3>4
      <4>2. CodeMeant(lines) = 200
        BY <4>1 DEF CodeMeant
      <4>3. FieldsUpto(lines, j + 1) = {x \in FieldsUpto(lines, j) : x[1] # l.key} \cup {<<l.key, l.value>>}
        BY <1>9, FieldsNext DEF l
      <4>4. /\ prov'[c].code = 200
            /\ prov'[c].fields = {x \in FieldsUpto(lines, j) : x[1] # l.key} \cup {<<l.key, l.value>>}
        BY <1>13, <1>15, <3>4
      <4> QED  BY <1>17, <3>1, <4>1, <4>2, <4>3, <4>4
    <3> QED  BY <3>3, <3>4
  <2>4. StandingAt(c, o)'
    BY <1>1, <2>1, <2>2, <2>3 DEF StandingAt, lines
  <2> QED  BY <1>4, <2>4 DEF Standing, lines
<1> QED  BY <1>9, <1>16, <1>17

LEMMA ThrowStands ==
  ASSUME NEW c \in Copies, Ready(c), Standing(c), ThrowAtStatus(c)
  PROVE  \E i \in Statuses(answer.lines) : answer.lines[i].value[1] \notin DOMAIN Codes
<1> DEFINE lines == answer.lines
           n == Len(lines)
<1>0. PICK o : LaidOut(o, lines, Meant(c)) /\ StandingAt(c, o)
  BY DEF Standing
<1>1. /\ local.state = "CRLF" /\ local.key = Status /\ local.value[1] \notin DOMAIN Codes
  BY DEF ThrowAtStatus, IsStatus
<1>2. PICK j \in 0 .. n - 1 : InLine(c, o, j)
  <2>1. ~LocalIs(local, "Begin", <<>>, <<>>) /\ local.state # "Done"
    BY <1>1 DEF LocalIs
  <2> QED  BY <1>0, <2>1 DEF StandingAt
<1> DEFINE l == lines[j + 1]
           t == Parsed(c)
<1>3. PICK key, value : Leftover(lines, j, key, value) /\ Reading(local, l, t - o[j], key, value)
  BY <1>2 DEF InLine
<1>4. LineIs(lines, o, Meant(c), j)
  BY <1>0, LineHere, Zenon DEF Ready
<1>5. l \in Line /\ j + 1 \in 1 .. n
  BY <1>4, Zenon DEF LineIs
<1> DEFINE k == key \o l.key
           v == value \o l.value
<1>6. LocalIs(local, "CRLF", k, v)
  <2> HIDE DEF l
  <2> QED  BY <1>1, <1>3, <1>5, ReadingWithin
<1>7. key = <<>> => k = l.key /\ v = l.value
  BY <1>3, <1>5, KeyIs
<1>8. k = Status => key = <<>>
  BY <1>3, <1>5, KeyIs
<1>9. Statuses(lines) = {i \in 1 .. n : lines[i].key = Status}
  BY StatusesAre DEF Ready
<1> HIDE DEF k, v, n
<1>10. local.key = k /\ local.value = v
  BY <1>6 DEF LocalIs
<1>11. l.key = Status /\ v = l.value
  BY <1>1, <1>7, <1>8, <1>10
<1>12. j + 1 \in Statuses(lines) /\ lines[j + 1].value[1] \notin DOMAIN Codes
  BY <1>1, <1>5, <1>9, <1>10, <1>11
<1> QED  BY <1>12

-----------------------------------------------------------------------------
(* What the client is told of the lines. *)

BadStatus == \E i \in Statuses(answer.lines) : answer.lines[i].value[1] \notin DOMAIN Codes

\* The induction, for the output of a well-formed answer.
Understood(c) ==
  ~prov[c].isStderr /\ WellFormed(c) =>
    /\ Stage(c) \in {"Connected", "Recving"} =>
         Parsed(c) = 0 /\ prov[c].code = 200 /\ prov[c].fields = {}
    /\ pc[1] = "parse" => Standing(c)
    /\ pc[1] = "unread" => BadStatus
    /\ pc[1] # "parse" /\ Parsed(c) = Len(HeadOf(answer.lines)) => AsMeant(c)
    /\ client # <<>> => client[1] = <<"head", prov[c].code, prov[c].fields>>

LEMMA MeantStays ==
  ASSUME NEW c, answer' = answer
  PROVE  /\ Meant(c)' = Meant(c) /\ (WellFormed(c)' <=> WellFormed(c))
         /\ (BadStatus' <=> BadStatus)
<1>1. Kept(Piece(c, 0, Total), Output)' = Kept(Piece(c, 0, Total), Output)
  BY AnswerStays DEF Piece
<1>2. Symbols(Kept(Piece(c, 0, Total), Output))' = Symbols(Kept(Piece(c, 0, Total), Output))
  BY <1>1 DEF Symbols, Byte
<1> QED  BY <1>1, <1>2 DEF Meant, Brings, WellFormed, BadStatus

LEMMA AsMeantSame ==
  ASSUME NEW c, answer' = answer, prov'[c].code = prov[c].code, prov'[c].fields = prov[c].fields,
         AsMeant(c)
  PROVE  AsMeant(c)'
BY DEF AsMeant

LEMMA StandingSame ==
  ASSUME NEW c, answer' = answer, local' = local, Parsed(c)' = Parsed(c),
         prov'[c].code = prov[c].code, prov'[c].fields = prov[c].fields, Standing(c)
  PROVE  Standing(c)'
<1>1. PICK o : LaidOut(o, answer.lines, Meant(c)) /\ StandingAt(c, o)
  BY DEF Standing
<1>2. \A j : SoFar(c, j) => SoFar(c, j)'
  BY DEF SoFar
<1>3. \A j : InLine(c, o, j) => InLine(c, o, j)'
  BY <1>2 DEF InLine
<1>4. StandingAt(c, o)'
  BY <1>1, <1>2, <1>3, AsMeantSame DEF StandingAt
<1>5. LaidOut(o, answer'.lines, Meant(c)')
  BY <1>1, MeantStays
<1> QED  BY <1>4, <1>5 DEF Standing

\* parse() has not taken all before it is done.
LEMMA StandingAtEnd ==
  ASSUME NEW c, Lines(answer.lines), Standing(c), Parsed(c) = Len(HeadOf(answer.lines))
  PROVE  AsMeant(c) /\ local.state = "Done"
<1> DEFINE lines == answer.lines
           n == Len(lines)
<1>0. PICK o : LaidOut(o, lines, Meant(c)) /\ StandingAt(c, o)
  BY DEF Standing
<1>1. ~(Parsed(c) = 0)
  <2>1. 0 \in 0 .. n - 1
    BY DEF Lines
  <2>2. LineIs(lines, o, Meant(c), 0)
    BY <1>0, <2>1, LineHere, Zenon
  <2>3. o[n] \in Nat /\ Len(HeadOf(lines)) = o[n] + 2
    BY <2>2, Zenon DEF LineIs
  <2> QED  BY <2>3
<1>2. ASSUME NEW j \in 0 .. n - 1, InLine(c, o, j) PROVE FALSE
  <2> DEFINE l == lines[j + 1]
             q == Parsed(c) - o[j]
  <2>1. LineIs(lines, o, Meant(c), j)
    BY <1>0, LineHere, Zenon
  <2>2. /\ l \in Line /\ o[j] \in Nat /\ Len(Wire(l)) \in Nat /\ o[j + 1] = o[j] + Len(Wire(l))
        /\ o[n] \in Nat /\ o[j + 1] <= o[n] /\ Len(HeadOf(lines)) = o[n] + 2
    BY <2>1, Zenon DEF LineIs
  <2>3. PICK key, value : Reading(local, l, q, key, value)
    BY <1>2 DEF InLine
  <2> HIDE DEF l
  <2>4. q \in 1 .. Len(Wire(l))
    BY <2>2, <2>3, ReadingWithin
  <2> QED  BY <2>2, <2>4
<1> QED  BY <1>0, <1>1, <1>2 DEF StandingAt

LEMMA ReadyIs ==
  ASSUME Counted, NEW c \in Copies, Lone(c), ~prov[c].isStderr, WellFormed(c)
  PROVE  Ready(c)
BY DEF Counted, Lone, Ready, WellFormed, Lines

\* Steps that are not parse()'s and do not tell the client anything.
LEMMA QuietUnderstood ==
  ASSUME NEW c, Understood(c), answer' = answer, client' = client,
         prov'[c].isStderr \in BOOLEAN, prov[c].isStderr => prov'[c].isStderr,
         ~prov'[c].isStderr =>
           Parsed(c)' = Parsed(c) /\ prov'[c].code = prov[c].code /\ prov'[c].fields = prov[c].fields,
         pc[1] \notin {"parse", "unread"}, pc'[1] \notin {"parse", "unread"},
         Stage(c)' \in {"Connected", "Recving"} => Stage(c) \in {"Connected", "Recving"}
  PROVE  Understood(c)'
<1> SUFFICES ASSUME ~prov'[c].isStderr, WellFormed(c)'
             PROVE  /\ Stage(c)' \in {"Connected", "Recving"} =>
                         Parsed(c)' = 0 /\ prov'[c].code = 200 /\ prov'[c].fields = {}
                    /\ Parsed(c)' = Len(HeadOf(answer'.lines)) => AsMeant(c)'
                    /\ client' # <<>> => client'[1] = <<"head", prov'[c].code, prov'[c].fields>>
  BY DEF Understood
<1>1. ~prov[c].isStderr /\ WellFormed(c)
  BY MeantStays
<1>2. /\ Stage(c) \in {"Connected", "Recving"} =>
           Parsed(c) = 0 /\ prov[c].code = 200 /\ prov[c].fields = {}
      /\ Parsed(c) = Len(HeadOf(answer.lines)) => AsMeant(c)
      /\ client # <<>> => client[1] = <<"head", prov[c].code, prov[c].fields>>
  BY <1>1 DEF Understood
<1> QED  BY <1>2, AsMeantSame

\* The fields seem complete: parse() begins where nothing was taken yet.
LEMMA BeginStands ==
  ASSUME TypeOK, NEW c \in Copies, WellFormed(c), answer' = answer, local' = Begin,
         Parsed(c)' = 0, prov'[c].code = 200, prov'[c].fields = {}
  PROVE  Standing(c)'
<1> DEFINE lines == answer.lines
           text == HeadOf(lines) \o answer.body
<1>1. lines \in Seq(Line) /\ Meant(c) = text
  BY DEF WellFormed, Meant, Brings
<1>2. answer.body \in Seq(Marked)
  <2>1. answer.body \in Seq(STRING)
    BY AnswersAssumption DEF TypeOK
  <2> QED  BY <2>1, SeqMonotonic DEF Marked
<1>3. PICK o : LaidOut(o, lines, text)
  <2> DEFINE body == answer.body
  <2>1. body \in Seq(Marked)
    BY <1>2
  <2> HIDE DEF body, lines
  <2>2. \E o : LaidOut(o, lines, HeadOf(lines) \o body)
    BY <1>1, <2>1, HeadLaidOut
  <2> QED  BY <2>2 DEF body
<1>4. LaidOut(o, answer'.lines, Meant(c)')
  BY <1>1, <1>3, MeantStays
<1>5. LocalIs(local', "Begin", <<>>, <<>>)
  BY DEF LocalIs, Begin
<1>6. SoFar(c, 0)'
  BY FieldsAtStart DEF SoFar
<1>7. StandingAt(c, o)'
  BY <1>5, <1>6 DEF StandingAt
<1> QED  BY <1>4, <1>7 DEF Standing

\* What a client is told first is told before any byte, and stays.
LEMMA ProvideBegins ==
  ASSUME Counted, NEW c \in Copies, Staged(c), ~prov[c].isStderr, Provide(c)
  PROVE  /\ prov'[c].code = prov[c].code /\ prov'[c].fields = prov[c].fields
         /\ prov'[c].isStderr = prov[c].isStderr
         /\ prov[c].provided => client # <<>> /\ client'[1] = client[1]
         /\ ~prov[c].provided => client'[1] = <<"head", prov[c].code, prov[c].fields>>
<1>0. /\ TypeOK /\ IsSequence(client) /\ out \in Seq(SentBytes) /\ Len(out) \in Nat
      /\ DOMAIN prov = Copies /\ IsProvider(prov[c])
  BY ProvidersAre DEF Counted, TypeOK
<1>1. PICK n \in Nat :
        /\ client' = client \o Opening(c) \o [k \in 1 .. n |-> <<"byte", out[k]>>]
        /\ \E s : prov' = [prov EXCEPT ![c].provided = TRUE, ![c].stage = s]
  <2>1. PICK room \in Rooms :
          LET n == IF Len(out) < room THEN Len(out) ELSE room
          IN  /\ client' = client \o Opening(c) \o [k \in 1 .. n |-> <<"byte", out[k]>>]
              /\ prov' = [prov EXCEPT ![c].provided = TRUE,
                                      ![c].stage = IF ForwardEnd(c, n) THEN "Done" ELSE @]
    BY DEF Provide
  <2>2. (IF Len(out) < room THEN Len(out) ELSE room) \in Nat
    BY <1>0, RoomAssumption
  <2> QED  BY <2>1, <2>2
<1>2. /\ prov'[c].code = prov[c].code /\ prov'[c].fields = prov[c].fields
      /\ prov'[c].isStderr = prov[c].isStderr
  BY <1>0, <1>1 DEF IsProvider, NewProvider
<1> DEFINE bytes == [k \in 1 .. n |-> <<"byte", out[k]>>]
<1>3. IsSequence(bytes)
  <2>1. bytes \in Seq({<<"byte", out[k]>> : k \in 1 .. n})
    OBVIOUS
  <2> HIDE DEF bytes
  <2> QED  BY <2>1 DEF IsSequence
<1> HIDE DEF bytes
<1>4. ASSUME NEW s, IsSequence(s), s # <<>>, client' = s \o bytes PROVE client'[1] = s[1]
  <2>1. 1 \in 1 .. Len(s)
    BY <1>4, LengthIs, NoneLeft
  <2> QED  BY <1>3, <1>4, <2>1, Concatenated
<1>5. CASE prov[c].provided
  <2>1. Opening(c) = <<>> /\ client \o <<>> = client
    <3>1. Opening(c) = <<>>
      BY <1>5 DEF Opening
    <3>2. client \o <<>> = client
      BY <1>0 DEF IsSequence
    <3> QED  BY <3>1, <3>2
  <2>2. client # <<>>
    <3> SUFFICES ASSUME client = <<>> PROVE FALSE
      OBVIOUS
    <3>1. DOMAIN client = {}
      OBVIOUS
    <3>2. HeadsOf(client) = {}
      BY <3>1 DEF HeadsOf
    <3>3. Cardinality(Told) = 0
      BY <3>2, FS_EmptySet DEF Counted
    <3>4. c \in Told
      BY <1>5 DEF Told
    <3> QED  BY <3>3, <3>4, ToldIsFinite, FS_EmptySet
  <2>3. client' = client \o bytes
    BY <1>1, <2>1 DEF bytes
  <2> QED  BY <1>0, <1>2, <1>4, <1>5, <2>2, <2>3
<1>6. CASE ~prov[c].provided
  <2> DEFINE e == <<"head", prov[c].code, prov[c].fields>>
  <2>1. Opening(c) = <<e>>
    BY <1>6 DEF Opening
  <2> HIDE DEF e
  <2>2. client = <<>>
    BY <1>6 DEF Staged
  <2>3. IsSequence(<<e>>) /\ <<e>> # <<>> /\ <<e>>[1] = e
    <3>1. <<e>> \in Seq({e})
      OBVIOUS
    <3> QED  BY <3>1 DEF IsSequence
  <2>4. client \o <<e>> = <<e>>
    <3>1. <<e>> \in Seq({e})
      OBVIOUS
    <3> QED  BY <2>2, <3>1, ConcatEmptySeq
  <2>5. client' = <<e>> \o bytes
    BY <1>1, <2>1, <2>4 DEF bytes
  <2>6. client'[1] = e
    BY <1>4, <2>3, <2>5
  <2> QED  BY <1>2, <1>6, <2>6 DEF e
<1> QED  BY <1>5, <1>6

LEMMA UnderstoodStays ==
  ASSUME Counted, NEW c \in Copies, Lone(c), Understood(c), Poll(c) \/ Gateway(c)
  PROVE  Understood(c)'
<1>0. /\ TypeOK /\ IsSequence(client) /\ Staged(c) /\ Unread(c) /\ Brought(c)
      /\ DOMAIN prov = Copies /\ IsProvider(prov[c]) /\ prov[c].isStderr \in BOOLEAN
  BY ProvidersAre DEF Counted, Lone, IsProvider
<1>1. ASSUME answer' = answer, got' = got, buffer' = buffer, out' = out, client' = client, prov' = prov
      PROVE  Parsed(c)' = Parsed(c) /\ Stage(c)' = Stage(c)
  <2>1. Stage(c)' = Stage(c)
    BY <1>1 DEF Stage
  <2> QED  BY <1>0, <1>1, <2>1, QuietStep
<1>2. CASE MakeRequest(c)
  <2>1. got[c] = 0 /\ Stage(c) = "Connected" /\ pc = <<"rest">>
    BY <1>0, <1>2 DEF MakeRequest, Unread
  <2>2. buffer = <<>>
    <3>1. Len(buffer) = 0
      BY <1>0, <2>1 DEF Unread, Used, TypeOK
    <3> QED  BY <1>0, <3>1 DEF TypeOK
  <2>3. /\ answer' = answer /\ got' = got /\ buffer' = buffer /\ out' = out /\ client' = client
        /\ prov'[c].end = prov[c].end /\ prov'[c].isStderr = prov[c].isStderr
        /\ prov'[c].code = prov[c].code /\ prov'[c].fields = prov[c].fields
        /\ Stage(c)' = "Recving" /\ pc' = pc
    BY <1>0, <1>2, <2>2 DEF MakeRequest, Stage, IsProvider, NewProvider
  <2>4. Parsed(c)' = Parsed(c)
    BY <1>0, <2>3, QuietStep
  <2> QED  BY <1>0, <2>1, <2>3, <2>4, QuietUnderstood
<1>3. CASE ReadEvent(c) \/ ReceiveAgain(c)
  <2>1. Receive(c) /\ pc[1] \in {"rest", "receive"} /\ Stage(c) # "Connected"
    BY <1>0, <1>3 DEF ReadEvent, ReceiveAgain, At, Staged
  <2>2. Parsed(c)' = Parsed(c)
    BY <1>0, <2>1, ReceiveStep
  <2>3. answer' = answer /\ client' = client /\ prov' = prov /\ pc'[1] = "consume"
    BY <2>1 DEF Receive
  <2> QED  BY <1>0, <2>1, <2>2, <2>3, QuietUnderstood DEF Stage
<1>4. CASE ConsumeEmpty(c)
  <2>1. /\ answer' = answer /\ client' = client /\ pc' = pc /\ pc[1] = "consume"
        /\ prov'[c].isStderr = prov[c].isStderr /\ prov'[c].stage = prov[c].stage
        /\ prov'[c].code = prov[c].code /\ prov'[c].fields = prov[c].fields
    BY <1>0, <1>4 DEF ConsumeEmpty, Consuming, At, IsProvider, NewProvider
  <2>2. Parsed(c)' = Parsed(c)
    BY <1>0, <1>4, ConsumeEmptyStep
  <2> QED  BY <1>0, <2>1, <2>2, QuietUnderstood DEF Stage
<1>5. CASE Consume(c)
  <2>1. answer' = answer /\ client' = client /\ pc' = pc /\ pc[1] = "consume"
    BY <1>5 DEF Consume, Consuming, At
  <2>2. prov' = IF TheHeader.type = Stderr /\ ~prov[c].isStderr
                THEN [prov EXCEPT ![c].isStderr = TRUE, ![c].code = 400] ELSE prov
    BY <1>5 DEF Consume
  <2>3. /\ prov'[c].isStderr \in BOOLEAN
        /\ prov[c].isStderr => prov'[c].isStderr
        /\ prov'[c].stage = prov[c].stage
        /\ ~prov'[c].isStderr =>
             prov'[c].code = prov[c].code /\ prov'[c].fields = prov[c].fields
    BY <1>0, <2>2 DEF IsProvider, NewProvider
  <2>4. ~prov'[c].isStderr => Parsed(c)' = Parsed(c)
    BY <1>0, <1>5, ConsumeStep
  <2>5. Stage(c)' = Stage(c)
    BY <2>3 DEF Stage
  <2>6. pc[1] \notin {"parse", "unread"} /\ pc'[1] \notin {"parse", "unread"}
    BY <2>1
  <2>7. prov'[c].isStderr \in BOOLEAN
    BY <2>3
  <2>8. prov[c].isStderr => prov'[c].isStderr
    BY <2>3
  <2>9. ~prov'[c].isStderr =>
           /\ Parsed(c)' = Parsed(c)
           /\ prov'[c].code = prov[c].code /\ prov'[c].fields = prov[c].fields
    BY <2>3, <2>4
  <2> QED  BY <2>1, <2>5, <2>6, <2>7, <2>8, <2>9, QuietUnderstood
<1>6. CASE ThrowAtPadding(c) \/ Spin(c) \/ Garbled(c) \/ ConsumeReturns(c) \/ Gateway(c)
  <2>1. /\ answer' = answer /\ got' = got /\ buffer' = buffer /\ out' = out /\ client' = client
        /\ prov' = prov
    BY <1>6 DEF ThrowAtPadding, Spin, Garbled, ConsumeReturns, Gateway, Hangup, Arrive
  <2>2. pc[1] \notin {"parse", "unread"} /\ pc'[1] \notin {"parse", "unread"}
    BY <1>6 DEF ThrowAtPadding, Spin, Garbled, Consuming, ConsumeReturns, At, Gateway, Hangup, Arrive
  <2> QED  BY <1>0, <1>1, <2>1, <2>2, QuietUnderstood
<1>7. CASE Judge(c)
  <2>1. /\ answer' = answer /\ got' = got /\ buffer' = buffer /\ out' = out /\ client' = client
        /\ pc = <<"judge", c>> /\ Stage(c) = "Recving" /\ client = <<>>
    BY <1>0, <1>7 DEF Judge, At, Staged
  <2>2. prov' = prov \/ prov' = [prov EXCEPT ![c].stage = "Forwarding"]
    BY <1>7 DEF Judge
  <2>3. /\ prov'[c].end = prov[c].end /\ prov'[c].isStderr = prov[c].isStderr
        /\ prov'[c].code = prov[c].code /\ prov'[c].fields = prov[c].fields
        /\ Stage(c)' \in {"Recving", "Forwarding"}
    BY <1>0, <2>1, <2>2 DEF Stage, IsProvider, NewProvider
  <2>4. Parsed(c)' = Parsed(c)
    BY <1>0, <2>1, <2>3, QuietStep
  <2>5. CASE pc' # <<"parse", c>>
    <3>1. pc'[1] \in {"receive", "rest"}
      BY <1>7, <2>5 DEF Judge
    <3> QED  BY <1>0, <2>1, <2>3, <2>4, <3>1, QuietUnderstood
  <2>6. CASE pc' = <<"parse", c>>
    <3>1. local' = Begin /\ Stage(c)' = "Forwarding"
      BY <1>0, <1>7, <2>6 DEF Judge, Stage, IsProvider, NewProvider
    <3> SUFFICES ASSUME ~prov'[c].isStderr, WellFormed(c)' PROVE Standing(c)'
      BY <2>1, <2>6, <3>1 DEF Understood
    <3>2. ~prov[c].isStderr /\ WellFormed(c)
      BY <2>1, <2>3, MeantStays
    <3>3. Parsed(c) = 0 /\ prov[c].code = 200 /\ prov[c].fields = {}
      BY <2>1, <3>2 DEF Understood
    <3> QED  BY <1>0, <2>1, <2>3, <2>4, <3>1, <3>2, <3>3, BeginStands
  <2> QED  BY <2>5, <2>6
<1>8. CASE Scan(c) \/ EndLine(c)
  <2>1. /\ answer' = answer /\ client' = client /\ client = <<>> /\ pc' = pc /\ pc = <<"parse", c>>
        /\ Stage(c) = "Forwarding"
    BY <1>0, <1>8 DEF Scan, EndLine, Parsing, At, Staged
  <2>2. prov'[c].isStderr = prov[c].isStderr /\ Stage(c)' = Stage(c)
    <3>1. CASE Scan(c)
      BY <3>1 DEF Scan, Stage
    <3>2. CASE EndLine(c)
      BY <1>0, <3>2 DEF EndLine, Entered, Stage, IsProvider, NewProvider
    <3> QED  BY <1>8, <3>1, <3>2
  <2> SUFFICES ASSUME ~prov'[c].isStderr, WellFormed(c)' PROVE Standing(c)'
    BY <2>1, <2>2 DEF Understood
  <2>3. ~prov[c].isStderr /\ WellFormed(c)
    BY <2>1, <2>2, MeantStays
  <2>4. Ready(c) /\ Standing(c)
    BY <2>1, <2>3, ReadyIs DEF Understood
  <2> QED  BY <1>8, <2>4, ScanStands, EndLineStands
<1>9. CASE ThrowAtStatus(c) \/ ParseReturns(c)
  <2>1. /\ answer' = answer /\ got' = got /\ buffer' = buffer /\ out' = out /\ client' = client
        /\ prov' = prov /\ client = <<>> /\ pc = <<"parse", c>> /\ Stage(c) = "Forwarding"
        /\ pc'[1] \in {"unread", "receive"} /\ (pc'[1] = "unread" => ThrowAtStatus(c))
    BY <1>0, <1>9 DEF ThrowAtStatus, ParseReturns, Parsing, At, Staged
  <2>2. Parsed(c)' = Parsed(c) /\ Stage(c)' = Stage(c)
    BY <1>1, <2>1
  <2> SUFFICES ASSUME ~prov'[c].isStderr, WellFormed(c)'
               PROVE  /\ pc'[1] = "unread" => BadStatus'
                      /\ Parsed(c)' = Len(HeadOf(answer'.lines)) => AsMeant(c)'
    BY <2>1, <2>2 DEF Understood
  <2>3. ~prov[c].isStderr /\ WellFormed(c)
    BY <2>1, MeantStays
  <2>4. Ready(c) /\ Standing(c)
    BY <2>1, <2>3, ReadyIs DEF Understood
  <2>5. pc'[1] = "unread" => BadStatus'
    BY <2>1, <2>4, ThrowStands, MeantStays DEF BadStatus
  <2>6. Parsed(c) = Len(HeadOf(answer.lines)) => AsMeant(c)
    BY <2>4, StandingAtEnd DEF Ready
  <2> QED  BY <2>1, <2>2, <2>5, <2>6, AsMeantSame
<1>10. CASE Provide(c)
  <2>1. /\ answer' = answer /\ pc' = <<"rest">> /\ pc[1] = "provide" /\ Stage(c) = "Forwarding"
    BY <1>0, <1>10 DEF Provide, At, Staged
  <2>2. Stage(c)' \in {"Forwarding", "Done"}
    <3>1. \E s \in {"Done", prov[c].stage} :
            prov' = [prov EXCEPT ![c].provided = TRUE, ![c].stage = s]
      BY <1>10 DEF Provide
    <3> QED  BY <1>0, <2>1, <3>1 DEF Stage, IsProvider, NewProvider
  <2>3. Parsed(c)' = Parsed(c)
    BY <1>0, <1>10, ProvideTakes
  <2>4. prov[c].isStderr = prov'[c].isStderr
    <3>1. \E s : prov' = [prov EXCEPT ![c].provided = TRUE, ![c].stage = s]
      BY <1>10 DEF Provide
    <3> QED  BY <1>0, <3>1 DEF IsProvider, NewProvider
  <2> SUFFICES ASSUME ~prov'[c].isStderr, WellFormed(c)'
               PROVE  /\ Parsed(c)' = Len(HeadOf(answer'.lines)) => AsMeant(c)'
                      /\ client'[1] = <<"head", prov'[c].code, prov'[c].fields>>
    BY <2>1, <2>2 DEF Understood
  <2>5. ~prov[c].isStderr /\ WellFormed(c)
    BY <2>1, <2>4, MeantStays
  <2>6. /\ prov'[c].code = prov[c].code /\ prov'[c].fields = prov[c].fields
        /\ prov[c].provided => client # <<>> /\ client'[1] = client[1]
        /\ ~prov[c].provided => client'[1] = <<"head", prov[c].code, prov[c].fields>>
    BY <1>0, <1>10, <2>5, ProvideBegins
  <2>7. /\ Parsed(c) = Len(HeadOf(answer.lines)) => AsMeant(c)
        /\ client # <<>> => client[1] = <<"head", prov[c].code, prov[c].fields>>
    BY <2>1, <2>5 DEF Understood
  <2> QED  BY <2>1, <2>3, <2>6, <2>7, AsMeantSame
<1> QED
  BY <1>2, <1>3, <1>4, <1>5, <1>6, <1>7, <1>8, <1>9, <1>10 DEF Poll

LEMMA UnderstoodSame ==
  ASSUME NEW c, Understood(c), UNCHANGED <<answer, got, buffer, out, prov, local, pc, client>>
  PROVE  Understood(c)'
<1>1. Parsed(c)' = Parsed(c)
  BY AnswerStays DEF Parsed, Decoded, Forwarded
<1>2. Standing(c) => Standing(c)'
  BY <1>1, StandingSame
<1>3. AsMeant(c) => AsMeant(c)'
  BY AsMeantSame
<1>4. WellFormed(c)' = WellFormed(c) /\ BadStatus' = BadStatus
  BY MeantStays DEF WellFormed, BadStatus
<1>5. Stage(c)' = Stage(c)
  BY DEF Stage
<1> QED  BY <1>1, <1>2, <1>3, <1>5, MeantStays DEF Understood

LEMMA InitUnderstood ==
  ASSUME Init, Solo, NEW c \in Copies, answer.copies = {c}
  PROVE  Understood(c)
<1>1. /\ got[c] = 0 /\ buffer = <<>> /\ out = <<>> /\ pc[1] = "rest" /\ client = <<>>
      /\ prov[c] = NewProvider
  BY DEF Init, NewProvider
<1>2. TypeOK /\ IsSequence(client) /\ Unread(c) /\ Brought(c) /\ ~prov[c].isStderr
  BY <1>1 DEF Solo, Counted, Lone, NewProvider
<1>3. Len(Decoded(c)) = 0
  <2>1. Used(c) = 0
    <3>1. Len(<<>>) = 0 /\ 0 - 0 = 0
      OBVIOUS
    <3> QED  BY <1>1, <3>1 DEF Used
  <2>2. Decoded(c) = Kept(Piece(c, 0, 0), Output)
    BY <2>1 DEF Decoded, Used
  <2>3. Piece(c, 0, 0) = <<>>
    BY DEF Piece
  <2>4. Kept(<<>>, Output) = <<>> /\ Len(<<>>) = 0
    BY NothingKept
  <2> QED  BY <2>2, <2>3, <2>4
<1>4. Parsed(c) = 0
  <2>1. Parsed(c) \in 0 .. Len(Decoded(c))
    BY <1>2, WaitingIs
  <2> QED  BY <1>3, <2>1
<1>5. WellFormed(c) => Parsed(c) # Len(HeadOf(answer.lines))
  <2> SUFFICES ASSUME WellFormed(c) PROVE Len(HeadOf(answer.lines)) # 0
    BY <1>4
  <2>1. answer.body \in Seq(Marked) /\ answer.lines \in Seq(Line)
    <3>1. answer.body \in Seq(STRING)
      BY <1>2, AnswersAssumption DEF TypeOK
    <3> QED  BY <3>1, SeqMonotonic DEF Marked, WellFormed
  <2>2. PICK o : LaidOut(o, answer.lines, HeadOf(answer.lines) \o answer.body)
    BY <2>1, HeadLaidOut
  <2>3. Len(answer.lines) \in Nat
    BY <2>1
  <2>4. o[Len(answer.lines)] \in Nat
    BY <2>2, <2>3 DEF LaidOut
  <2> QED  BY <2>2, <2>4 DEF LaidOut
<1> QED  BY <1>1, <1>4, <1>5 DEF Understood, NewProvider

-----------------------------------------------------------------------------
(* When a provider is done. *)

\* The end was read; nothing that was read can be consumed; nothing is left.
Ended(c) ==
  /\ prov[c].end => \E p \in 1 .. Used(c) : TheRecord(p).content = <<>>
  /\ pc[1] = "provide" \/ Stage(c) = "Done" => prov[c].end \/ Len(buffer) <= HeaderSize
  /\ Stage(c) = "Done" => out = <<>>

LEMMA EndSame ==
  ASSUME TypeOK, NEW c \in Copies, Unread(c), Ended(c), answer' = answer, prov'[c].end = prov[c].end,
         Used(c)' \in Int, Used(c)' >= Used(c)
  PROVE  prov'[c].end => \E p \in 1 .. Used(c)' : TheRecord(p)'.content = <<>>
<1> SUFFICES ASSUME prov'[c].end PROVE \E p \in 1 .. Used(c)' : TheRecord(p)'.content = <<>>
  OBVIOUS
<1>1. PICK p \in 1 .. Used(c) : TheRecord(p).content = <<>>
  BY DEF Ended
<1>2. Used(c) \in Int
  BY TotalIs DEF Used, TypeOK
<1>3. p \in 1 .. Used(c)'
  BY <1>2
<1> QED  BY <1>1, <1>3, AnswerStays

LEMMA EmptySeen ==
  ASSUME TypeOK, NEW c \in Copies, Unread(c), ConsumeEmpty(c)
  PROVE  Used(c) \in Nat /\ TheRecord(Used(c) + 1).content = <<>>
<1>1. Consuming(c) /\ TheHeader.contentLength = 0
  BY DEF ConsumeEmpty
<1>2. /\ HeadFirst /\ buffer[1].at = Used(c) + 1 /\ Used(c) \in Nat
  BY <1>1, LoneHead, TotalIs
<1>3. First \in Record /\ TheHeader.contentLength = Len(First.content)
  BY <1>1, <1>2, HeaderMeans
<1>4. First.content \in Seq(STRING)
  BY <1>3 DEF Record
<1>5. First.content = <<>>
  BY <1>1, <1>3, <1>4
<1> QED  BY <1>2, <1>5 DEF First

LEMMA DoneRests ==
  ASSUME NEW c, Staged(c), Stage(c) = "Done"
  PROVE  ~Poll(c) /\ ~Gateway(c)
<1>1. \A place \in Busy : ~At(place, c)
  BY DEF At, Staged, Busy
<1>2. ~Poll(c)
  BY <1>1
  DEF Poll, Busy, MakeRequest, ReadEvent, ReceiveAgain, ConsumeEmpty, Consume, ThrowAtPadding,
      Spin, Garbled, Consuming, ConsumeReturns, Judge, Scan, EndLine, ThrowAtStatus, Parsing,
      ParseReturns, Provide
<1> QED  BY <1>2 DEF Gateway, Hangup, Arrive

LEMMA EndedStays ==
  ASSUME Counted, NEW c \in Copies, Lone(c), Ended(c), Poll(c) \/ Gateway(c)
  PROVE  Ended(c)'
<1>0. /\ TypeOK /\ IsSequence(client) /\ Staged(c) /\ Unread(c) /\ Brought(c)
      /\ DOMAIN prov = Copies /\ IsProvider(prov[c])
      /\ Used(c) \in Int
  BY ProvidersAre, TotalIs DEF Counted, Lone, Used, TypeOK
<1>1. Stage(c) # "Done"
  BY <1>0, DoneRests
<1>2. CASE MakeRequest(c)
  <2>1. got[c] = 0 /\ Stage(c) = "Connected" /\ pc = <<"rest">>
    BY <1>0, <1>2 DEF MakeRequest, Unread
  <2>2. buffer = <<>>
    <3>1. Len(buffer) = 0
      BY <1>0, <2>1 DEF Unread, Used, TypeOK
    <3> QED  BY <1>0, <3>1 DEF TypeOK
  <2>3. /\ answer' = answer /\ got' = got /\ buffer' = buffer
        /\ prov'[c].end = prov[c].end /\ Stage(c)' = "Recving" /\ pc' = pc
    BY <1>0, <1>2, <2>2 DEF MakeRequest, Stage, IsProvider, NewProvider
  <2>4. Used(c)' = Used(c)
    BY <2>3 DEF Used
  <2>5. pc'[1] # "provide" /\ Stage(c)' # "Done"
    BY <2>1, <2>3
  <2> QED  BY <1>0, <2>3, <2>4, <2>5, EndSame DEF Ended
<1>3. CASE ReadEvent(c) \/ ReceiveAgain(c)
  <2>1. Receive(c) /\ Stage(c) # "Connected"
    BY <1>0, <1>3 DEF ReadEvent, ReceiveAgain, At, Staged
  <2>2. Used(c)' = Used(c)
    BY <1>0, <2>1, ReceiveStep
  <2>3. answer' = answer /\ prov' = prov /\ pc'[1] = "consume"
    BY <2>1 DEF Receive
  <2>4. pc'[1] # "provide" /\ Stage(c)' # "Done"
    BY <1>1, <2>3 DEF Stage
  <2> QED  BY <1>0, <2>2, <2>3, <2>4, EndSame DEF Ended
<1>4. CASE ConsumeEmpty(c)
  <2>1. /\ answer' = answer /\ pc' = pc /\ pc[1] = "consume" /\ prov'[c].stage = prov[c].stage
        /\ got' = got /\ buffer' = Dropped(HeaderSize)
    BY <1>0, <1>4 DEF ConsumeEmpty, Consuming, At, IsProvider, NewProvider
  <2>2. Used(c)' > Used(c)
    BY <1>0, <1>4, ConsumeEmptyStep
  <2>3. Used(c) \in Nat /\ TheRecord(Used(c) + 1).content = <<>>
    BY <1>0, <1>4, EmptySeen
  <2>4. Used(c)' \in Int
    <3>1. buffer' \in Seq(SentBytes)
      BY <1>0, <1>4, BuffersStay DEF Poll
    <3>2. Len(buffer') \in Nat /\ got[c] \in Nat
      BY <1>0, <3>1, TotalIs DEF TypeOK
    <3> QED  BY <2>1, <3>2 DEF Used
  <2>5. \E p \in 1 .. Used(c)' : TheRecord(p)'.content = <<>>
    <3>1. PICK p \in Nat : p = Used(c) + 1 /\ TheRecord(p).content = <<>>
      BY <2>3
    <3>2. p \in 1 .. Used(c)'
      <4> DEFINE u == Used(c)
                 v == Used(c)'
      <4>1. u \in Nat /\ v \in Int /\ v > u /\ p = u + 1
        BY <2>2, <2>3, <2>4, <3>1
      <4> HIDE DEF u, v
      <4>2. p \in 1 .. v
        BY <4>1
      <4> QED  BY <4>2 DEF v
    <3>3. TheRecord(p)'.content = <<>>
      BY <2>1, <3>1, AnswerStays
    <3> QED  BY <3>2, <3>3
  <2>6. pc'[1] # "provide" /\ Stage(c)' # "Done"
    BY <1>1, <2>1 DEF Stage
  <2> QED  BY <2>5, <2>6 DEF Ended
<1>5. CASE Consume(c)
  <2>1. /\ answer' = answer /\ pc' = pc /\ pc[1] = "consume" /\ got' = got
    BY <1>5 DEF Consume, Consuming, At
  <2>2. prov' = IF TheHeader.type = Stderr /\ ~prov[c].isStderr
                THEN [prov EXCEPT ![c].isStderr = TRUE, ![c].code = 400] ELSE prov
    BY <1>5 DEF Consume
  <2>3. prov'[c].stage = prov[c].stage /\ prov'[c].end = prov[c].end
    BY <1>0, <2>2 DEF IsProvider, NewProvider
  <2>4. Used(c)' >= Used(c)
    BY <1>0, <1>5, ConsumeStep
  <2>5. Used(c)' \in Int
    <3>1. buffer' \in Seq(SentBytes)
      BY <1>0, <1>5, BuffersStay DEF Poll
    <3>2. Len(buffer') \in Nat /\ got[c] \in Nat
      BY <1>0, <3>1, TotalIs DEF TypeOK
    <3> QED  BY <2>1, <3>2 DEF Used
  <2>6. pc'[1] # "provide" /\ Stage(c)' # "Done"
    BY <1>1, <2>1, <2>3 DEF Stage
  <2> QED  BY <1>0, <2>1, <2>3, <2>4, <2>5, <2>6, EndSame DEF Ended
<1>6. CASE ConsumeReturns(c)
  <2>1. /\ answer' = answer /\ got' = got /\ buffer' = buffer /\ prov' = prov
        /\ prov[c].end \/ Len(buffer) <= HeaderSize
    BY <1>6 DEF ConsumeReturns
  <2>2. Used(c)' = Used(c) /\ Stage(c)' # "Done"
    BY <1>1, <2>1 DEF Used, Stage
  <2> QED  BY <1>0, <2>1, <2>2, EndSame DEF Ended
<1>7. CASE \/ ThrowAtPadding(c) \/ Spin(c) \/ Garbled(c) \/ Gateway(c) \/ Judge(c)
           \/ Scan(c) \/ EndLine(c) \/ ThrowAtStatus(c) \/ ParseReturns(c)
  <2>1. answer' = answer /\ got' = got /\ buffer' = buffer
    BY <1>7 DEF ThrowAtPadding, Spin, Garbled, Gateway, Hangup, Arrive, Judge, Scan, EndLine,
                ThrowAtStatus, ParseReturns
  <2>2. pc'[1] # "provide"
    <3>1. CASE Judge(c)
      <4>1. pc' \in {<<"receive", c>>, <<"parse", c>>, <<"rest">>}
        BY <3>1 DEF Judge
      <4> QED  BY <4>1
    <3>2. CASE ~Judge(c)
      BY <1>7, <3>2
      DEF ThrowAtPadding, Spin, Garbled, Gateway, Hangup, Arrive, Scan, EndLine,
          ThrowAtStatus, ParseReturns, Parsing, At
    <3> QED  BY <3>1, <3>2
  <2>3. prov'[c].end = prov[c].end /\ prov'[c].stage \in {prov[c].stage, "Forwarding"}
    <3>1. CASE Judge(c)
      <4>1. prov' = prov \/ prov' = [prov EXCEPT ![c].stage = "Forwarding"]
        BY <3>1 DEF Judge
      <4> QED  BY <1>0, <4>1 DEF IsProvider, NewProvider
    <3>2. CASE EndLine(c)
      BY <1>0, <3>2 DEF EndLine, Entered, IsProvider, NewProvider
    <3>3. CASE ~Judge(c) /\ ~EndLine(c)
      BY <1>7, <3>3
      DEF ThrowAtPadding, Spin, Garbled, Gateway, Hangup, Arrive, Scan, ThrowAtStatus, ParseReturns
    <3> QED  BY <3>1, <3>2, <3>3
  <2>4. Used(c)' = Used(c) /\ Stage(c)' # "Done"
    BY <1>1, <2>1, <2>3 DEF Used, Stage
  <2> QED  BY <1>0, <2>1, <2>2, <2>3, <2>4, EndSame DEF Ended
<1>8. CASE Provide(c)
  <2>1. /\ answer' = answer /\ got' = got /\ buffer' = buffer /\ pc[1] = "provide"
    BY <1>8 DEF Provide, At
  <2>2. PICK n \in 0 .. Len(out) :
          /\ out' = SubSeq(out, n + 1, Len(out))
          /\ prov' = [prov EXCEPT ![c].provided = TRUE,
                                  ![c].stage = IF n = Len(out) THEN "Done" ELSE @]
    <3>1. PICK room \in Rooms :
            LET n == IF Len(out) < room THEN Len(out) ELSE room
            IN  /\ out' = Rest(n)
                /\ prov' = [prov EXCEPT ![c].provided = TRUE,
                                        ![c].stage = IF ForwardEnd(c, n) THEN "Done" ELSE @]
      BY <1>8 DEF Provide
    <3>2. (IF Len(out) < room THEN Len(out) ELSE room) \in 0 .. Len(out)
      BY <1>0, RoomAssumption DEF TypeOK
    <3> QED  BY <3>1, <3>2 DEF Rest, ForwardEnd
  <2>3. /\ prov'[c].end = prov[c].end
        /\ prov'[c].stage = IF n = Len(out) THEN "Done" ELSE prov[c].stage
    BY <1>0, <2>2 DEF IsProvider, NewProvider
  <2>4. Stage(c)' = "Done" => out' = <<>>
    <3> SUFFICES ASSUME Stage(c)' = "Done" PROVE out' = <<>>
      OBVIOUS
    <3>1. n = Len(out)
      BY <1>1, <2>3 DEF Stage
    <3>2. out \in Seq(SentBytes) /\ Len(out) \in Nat
      BY <1>0 DEF TypeOK
    <3>3. out' \in Seq(SentBytes) /\ Len(out') = Len(out) - n
      BY <2>2, <3>2, SuffixIs
    <3> QED  BY <3>1, <3>2, <3>3
  <2>5. Used(c)' = Used(c)
    BY <2>1 DEF Used
  <2>6. prov'[c].end \/ Len(buffer') <= HeaderSize
    BY <2>1, <2>3 DEF Ended
  <2> QED  BY <1>0, <2>1, <2>3, <2>4, <2>5, <2>6, EndSame DEF Ended
<1> QED
  BY <1>2, <1>3, <1>4, <1>5, <1>6, <1>7, <1>8 DEF Poll

LEMMA EndedSame ==
  ASSUME NEW c, Ended(c), UNCHANGED <<answer, got, buffer, out, prov, pc>>
  PROVE  Ended(c)'
<1>1. Used(c)' = Used(c) /\ Stage(c)' = Stage(c)
  BY DEF Used, Stage
<1> QED  BY <1>1, AnswerStays DEF Ended

-----------------------------------------------------------------------------
(* What the client has of the answer at the end. *)

\* The records follow each other.
LEMMA RecordNext ==
  ASSUME TypeOK, NEW p \in 1 .. Total, p < Total
  PROVE  answer.bytes[p + 1].record \in {answer.bytes[p].record, answer.bytes[p].record + 1}
<1> DEFINE b == answer.bytes[p]
           r == TheRecord(p)
           z == Before(p)
<1>1. /\ b.at \in 1 .. Size(r) /\ z \in Nat /\ z + b.at = p /\ Size(r) \in Nat
      /\ z + Size(r) < Total => answer.bytes[z + Size(r) + 1].record = b.record + 1
  BY Located
<1>2. CASE b.at < Size(r)
  <2>1. b.at + 1 \in 1 .. Size(r) /\ z + (b.at + 1) = p + 1
    BY <1>1, <1>2
  <2>2. answer.bytes[z + (b.at + 1)].record = b.record
    BY <2>1, SameRecord
  <2> QED  BY <2>1, <2>2
<1>3. CASE ~(b.at < Size(r))
  <2>1. b.at = Size(r)
    BY <1>1, <1>3
  <2> QED  BY <1>1, <2>1
<1> QED  BY <1>2, <1>3

LEMMA RecordNumber ==
  ASSUME TypeOK, NEW p \in 1 .. Total
  PROVE  answer.bytes[p].record \in Nat /\ answer.bytes[p].record \in DOMAIN answer.records
<1>1. answer.bytes[p].record \in DOMAIN answer.records
  BY Located
<1>2. answer.records \in Seq(Record)
  BY AnswersAssumption DEF TypeOK
<1>3. DOMAIN answer.records \subseteq Nat
  BY <1>2
<1> QED  BY <1>1, <1>3

LEMMA RecordsInOrder ==
  ASSUME TypeOK, NEW p \in 1 .. Total, NEW q \in p .. Total
  PROVE  answer.bytes[p].record <= answer.bytes[q].record
<1> DEFINE S == {n \in Nat : p + n <= Total => answer.bytes[p].record <= answer.bytes[p + n].record}
<1>0. Total \in Nat /\ p \in Nat
  BY TotalIs
<1>1. 0 \in S
  BY <1>0, RecordNumber
<1>2. ASSUME NEW n \in Nat, n \in S PROVE n + 1 \in S
  <2> SUFFICES ASSUME p + (n + 1) <= Total
               PROVE  answer.bytes[p].record <= answer.bytes[p + (n + 1)].record
    BY <1>2
  <2>1. p + n \in 1 .. Total /\ p + n < Total /\ (p + n) + 1 = p + (n + 1)
    BY <1>0
  <2>2. answer.bytes[p].record <= answer.bytes[p + n].record
    BY <1>2, <2>1
  <2>3. answer.bytes[(p + n) + 1].record \in {answer.bytes[p + n].record, answer.bytes[p + n].record + 1}
    BY <2>1, RecordNext
  <2>4. answer.bytes[p + n].record \in Nat /\ answer.bytes[p].record \in Nat
    BY <2>1, RecordNumber
  <2> QED  BY <2>1, <2>2, <2>3, <2>4
<1> HIDE DEF S
<1>3. \A n \in Nat : n \in S
  BY <1>1, <1>2, Induction
<1>4. q - p \in Nat /\ p + (q - p) = q /\ q <= Total
  BY <1>0
<1>5. q - p \in S
  BY <1>3, <1>4
<1> QED  BY <1>4, <1>5 DEF S

\* Content has a record of some content.
LEMMA ContentIs ==
  ASSUME TypeOK, NEW p \in 1 .. Total, IsOutput(p)
  PROVE  /\ TheRecord(p).type = Stdout /\ TheRecord(p).content # <<>>
         /\ answer.bytes[p].at > HeaderSize
<1>1. /\ answer.bytes[p].at \in 1 .. Size(TheRecord(p)) /\ Before(p) + answer.bytes[p].at = p
      /\ TheRecord(p) \in Record
  BY Located
<1>2. /\ answer.bytes[p].type = TheRecord(p).type
      /\ answer.bytes[p].content <=>
           answer.bytes[p].at > HeaderSize /\ answer.bytes[p].at <= HeaderSize + Len(TheRecord(p).content)
  BY <1>1, SameRecord
<1>3. TheRecord(p).content # <<>>
  <2> SUFFICES ASSUME TheRecord(p).content = <<>> PROVE FALSE
    OBVIOUS
  <2>1. Len(TheRecord(p).content) = 0
    BY EmptyIs
  <2>2. Size(TheRecord(p)) \in Nat /\ answer.bytes[p].at \in Int
    BY <1>1, Located
  <2> QED  BY <1>2, <2>1, <2>2 DEF IsOutput, HeaderSize
<1> QED  BY <1>2, <1>3 DEF IsOutput

\* Nothing is output behind the first empty record.
LEMMA NoneAfterEnd ==
  ASSUME TypeOK, NEW c, WellFormed(c), NEW e \in 1 .. Total, TheRecord(e).content = <<>>,
         NEW p \in e .. Total
  PROVE  ~IsOutput(p)
<1> SUFFICES ASSUME IsOutput(p) PROVE FALSE
  OBVIOUS
<1> DEFINE i == answer.bytes[e].record
           j == answer.bytes[p].record
<1>0. Total \in Nat
  BY TotalIs
<1>1. p \in 1 .. Total
  BY <1>0
<1>2. TheRecord(p).type = Stdout /\ TheRecord(p).content # <<>>
  BY <1>1, ContentIs
<1>3. i \in DOMAIN answer.records /\ j \in DOMAIN answer.records /\ i \in Nat /\ j \in Nat
  BY <1>1, RecordNumber
<1>4. i <= j
  BY RecordsInOrder
<1>5. i # j
  BY <1>2 DEF TheRecord
<1>6. i < j
  BY <1>3, <1>4, <1>5
<1> QED  BY <1>2, <1>3, <1>6 DEF WellFormed, TheRecord

\* Behind what was consumed, when no more can be, there is no output.
LEMMA NoneBehind ==
  ASSUME TypeOK, NEW c \in Copies, Unread(c), Ended(c), WellFormed(c), Stage(c) = "Done",
         got[c] = Total
  PROVE  Kept(Piece(c, Used(c), Total), Output) = <<>>
<1> DEFINE u == Used(c)
<1>1. u \in 0 .. Total /\ Total \in Nat /\ u <= Total /\ Total \in 0 .. Total
  BY DecodedIs, TotalIs
<1>2. ASSUME NEW p \in u + 1 .. Total, IsOutput(p) PROVE FALSE
  <2>0. p \in 1 .. Total
    BY <1>1
  <2>1. CASE prov[c].end
    <3>1. PICK e \in 1 .. Used(c) : TheRecord(e).content = <<>>
      BY <2>1 DEF Ended
    <3>2. e \in 1 .. Total /\ p \in e .. Total
      BY <1>1, <3>1
    <3> QED  BY <1>2, <3>1, <3>2, NoneAfterEnd
  <2>2. CASE ~prov[c].end
    <3>1. Len(buffer) <= HeaderSize /\ Len(buffer) \in Nat /\ u = Total - Len(buffer)
      BY <2>2 DEF Ended, Used, TypeOK
    <3>2. AtRecord(u) /\ u < Total
      BY <1>1, <2>0, <2>2 DEF Unread
    <3>3. u + 1 \in 1 .. Total /\ Before(u + 1) = u
      BY <1>1, <3>2, NextStarts
    <3>4. Size(TheRecord(u + 1)) \in Nat /\ Size(TheRecord(u + 1)) >= 8
      BY <3>3, Located
    <3> DEFINE j == p - u
    <3>5. j \in 1 .. Size(TheRecord(u + 1)) /\ u + j = p /\ j <= HeaderSize
      BY <1>1, <2>0, <3>1, <3>4 DEF HeaderSize
    <3>6. answer.bytes[p].at = j
      BY <3>3, <3>5, SameRecord
    <3>7. answer.bytes[p].at > HeaderSize
      BY <1>2, <2>0, ContentIs
    <3> QED  BY <3>5, <3>6, <3>7 DEF HeaderSize
  <2> QED  BY <2>1, <2>2
<1>3. \A p \in u + 1 .. Total : ~IsOutput(p)
  BY <1>2
<1> QED  BY <1>1, <1>3, OutputOf

\* What parse() has taken is the head, as long as the head is.
LEMMA TakenIs ==
  ASSUME TypeOK, IsSequence(client), NEW c \in Copies, Unread(c), Brought(c), ~prov[c].isStderr,
         FieldsTaken(c)
  PROVE  Parsed(c) = Len(HeadOf(answer.lines))
<1> DEFINE taken == SubSeq(Decoded(c), 1, Parsed(c))
<1>1. Symbols(taken) = HeadOf(answer.lines)
  BY DEF FieldsTaken, Parsed
<1>2. Decoded(c) \in Seq(SentBytes) /\ Parsed(c) \in 0 .. Len(Decoded(c))
  BY DecodedIs, WaitingIs
<1>3. taken \in Seq(SentBytes) /\ Len(taken) = Parsed(c)
  BY <1>2, PrefixIs
<1> HIDE DEF taken
<1>4. Len(Symbols(taken)) = Len(taken)
  BY <1>3, SymbolsAre
<1> QED  BY <1>1, <1>3, <1>4

\* All of the output that is forwarded behind the head is the body.
LEMMA BodyForwarded ==
  ASSUME TypeOK, IsSequence(client), NEW c \in Copies, Unread(c), Brought(c), Ended(c),
         ~prov[c].isStderr, WellFormed(c), Stage(c) = "Done", got[c] = Total,
         Parsed(c) = Len(HeadOf(answer.lines))
  PROVE  Symbols(Forwarded) = answer.body
<1> DEFINE d == Decoded(c)
           f == Forwarded
           head == HeadOf(answer.lines)
           body == answer.body
           h == Len(head)
<1>1. body \in Seq(Marked) /\ head \in Seq(Marked)
  <2>1. body \in Seq(STRING)
    BY AnswersAssumption DEF TypeOK
  <2>2. body \in Seq(Marked)
    BY <2>1, SeqMonotonic DEF Marked
  <2> QED  BY <2>2, HeadLaidOut DEF WellFormed
<1>2. /\ d \in Seq(SentBytes) /\ Brings(c) \in Seq(SentBytes)
      /\ Brings(c) = d \o Kept(Piece(c, Used(c), Total), Output)
  BY DecodedIs
<1>3. Brings(c) = d
  <2>1. Kept(Piece(c, Used(c), Total), Output) = <<>>
    BY NoneBehind
  <2> HIDE DEF d
  <2>2. d \o <<>> = d
    BY <1>2, PrefixAll
  <2> QED  BY <1>2, <2>1, <2>2
<1>4. Symbols(d) = head \o body
  BY <1>3 DEF WellFormed, Brings
<1>5. /\ f \in Seq(SentBytes) /\ Forwarded \o out = f
  <2>1. out = <<>>
    BY DEF Ended
  <2>2. f \in Seq(SentBytes)
    BY WaitingIs
  <2> HIDE DEF f
  <2>3. f \o <<>> = f
    BY <2>2, PrefixAll
  <2> QED  BY <2>1, <2>2, <2>3 DEF f
<1>6. /\ Parsed(c) \in 0 .. Len(d) /\ Len(d) \in Nat
      /\ Len(Forwarded \o out) = Len(d) - Parsed(c)
      /\ \A k \in 1 .. Len(Forwarded \o out) : (Forwarded \o out)[k] = d[Parsed(c) + k]
  BY WaitingIs
<1>7. /\ h \in 0 .. Len(d) /\ Len(f) = Len(d) - h /\ \A k \in 1 .. Len(f) : f[k] = d[h + k]
  BY <1>5, <1>6
<1> HIDE DEF d, f, head, body
<1>8. Joins(head, body, head \o body)
  BY <1>1, JoinedIs
<1>9. /\ Len(Symbols(d)) = Len(d) /\ \A k \in 1 .. Len(d) : Symbols(d)[k] = Byte(d[k]).symbol
  BY <1>2, SymbolsAre
<1>10. /\ DOMAIN Symbols(f) = 1 .. Len(f) /\ \A k \in 1 .. Len(f) : Symbols(f)[k] = Byte(f[k]).symbol
       /\ IsSequence(Symbols(f)) /\ Len(Symbols(f)) = Len(f)
  BY <1>5, SymbolsAre
<1>11. /\ h \in Nat /\ Len(body) \in Nat /\ Len(d) = h + Len(body)
       /\ \A k \in 1 .. Len(body) : Symbols(d)[h + k] = body[k]
  <2>1. h \in Nat /\ Len(body) \in Nat
    BY <1>1
  <2> QED  BY <1>4, <1>8, <1>9, <2>1 DEF Joins
<1> HIDE DEF h
<1>12. Len(f) = Len(body)
  BY <1>6, <1>7, <1>11
<1>13. ASSUME NEW k \in 1 .. Len(body) PROVE Symbols(f)[k] = body[k]
  <2>1. k \in 1 .. Len(f) /\ h + k \in 1 .. Len(d)
    BY <1>11, <1>12
  <2>2. f[k] = d[h + k]
    BY <1>7, <2>1
  <2> QED  BY <1>9, <1>10, <1>11, <2>1, <2>2
<1>14. \E V : Symbols(f) \in Seq(V)
  BY <1>10 DEF IsSequence
<1>15. Symbols(f) = body
  BY <1>1, <1>10, <1>12, <1>13, <1>14
<1> QED  BY <1>15 DEF f, body

-----------------------------------------------------------------------------
(* CutOnlyEarly. *)

Known == Solo /\ \A c \in Copies : answer.copies = {c} => Understood(c) /\ Ended(c)

LEMMA InitKnown == Init => Known
<1> SUFFICES ASSUME Init PROVE Known
  OBVIOUS
<1>1. Solo
  BY InitSolo
<1>2. ASSUME NEW c \in Copies, answer.copies = {c} PROVE Understood(c) /\ Ended(c)
  <2>1. /\ out = <<>> /\ pc[1] = "rest" /\ prov[c] = NewProvider
    BY <1>2 DEF Init, NewProvider
  <2>2. Ended(c)
    BY <2>1 DEF Ended, Stage, NewProvider
  <2> QED  BY <1>1, <1>2, <2>2, InitUnderstood
<1> QED  BY <1>1, <1>2 DEF Known

LEMMA NextKnown == Known /\ [Next]_vars => Known'
<1> SUFFICES ASSUME Known, [Next]_vars PROVE Known'
  OBVIOUS
<1>1. Solo' /\ Counted
  BY NextSolo DEF Known, Solo
<1>2. answer' = answer
  <2>1. pc[1] \in Places
    BY <1>1 DEF Counted, TypeOK, Places
  <2> QED  BY <2>1, PlacesStay DEF Next, vars
<1>3. ASSUME NEW c \in Copies, answer.copies = {c} PROVE Understood(c)' /\ Ended(c)'
  <2>1. Lone(c) /\ Understood(c) /\ Ended(c)
    BY <1>3 DEF Known, Solo
  <2>2. CASE UNCHANGED vars
    BY <2>1, <2>2, UnderstoodSame, EndedSame DEF vars
  <2>3. ASSUME NEW d \in Copies, Poll(d) \/ Gateway(d) PROVE Understood(c)' /\ Ended(c)'
    <3>1. CASE d = c
      BY <1>1, <2>1, <2>3, <3>1, UnderstoodStays, EndedStays
    <3>2. CASE d # c
      <4>1. UNCHANGED <<answer, eof, got, cut, buffer, out, prov, local, pc, client>>
        BY <2>1, <2>3, <3>2, OthersRest
      <4> QED  BY <2>1, <4>1, UnderstoodSame, EndedSame
    <3> QED  BY <3>1, <3>2
  <2> QED  BY <2>2, <2>3 DEF Next
<1> QED  BY <1>1, <1>2, <1>3 DEF Known

\* For answers of any fields, in any records and pieces: parse() stops the
\* instance only at a status that is no number, the client is told the code and
\* the fields that were meant, and a body is cut only by erasing its provider
\* before the rest was read.
THEOREM CutKnown == Spec => []CutOnlyEarly
<1>1. Known => CutOnlyEarly
  <2> SUFFICES ASSUME Known, NEW c \in answer.copies, Alone, ~prov[c].isStderr, WellFormed(c)
               PROVE  LET lines == answer.lines
                      IN  /\ pc = <<"unread">> =>
                               \E i \in Statuses(lines) : lines[i].value[1] \notin DOMAIN Codes
                          /\ FieldsTaken(c) =>
                               /\ client # <<>> /\ StatusLast(lines) =>
                                    client[1] = <<"head", CodeMeant(lines), FieldsMeant(lines)>>
                               /\ Stage(c) = "Done" => got[c] < Total \/ Symbols(Forwarded) = answer.body
    BY DEF CutOnlyEarly
  <2>1. Counted /\ TypeOK /\ IsSequence(client)
    BY DEF Known, Solo, Counted
  <2>2. c \in Copies /\ answer.copies = {c}
    BY <2>1, AloneIsOne
  <2>3. Lone(c) /\ Staged(c) /\ Unread(c) /\ Brought(c) /\ Understood(c) /\ Ended(c)
    BY <2>2 DEF Known, Solo, Lone
  <2>4. pc = <<"unread">> => BadStatus
    BY <2>3 DEF Understood
  <2>5. ASSUME FieldsTaken(c), client # <<>>, StatusLast(answer.lines)
        PROVE  client[1] = <<"head", CodeMeant(answer.lines), FieldsMeant(answer.lines)>>
    <3>1. Parsed(c) = Len(HeadOf(answer.lines))
      BY <2>1, <2>2, <2>3, <2>5, TakenIs
    <3>2. pc[1] # "parse"
      BY <2>3, <2>5 DEF Staged
    <3>3. AsMeant(c) /\ client[1] = <<"head", prov[c].code, prov[c].fields>>
      BY <2>3, <2>5, <3>1, <3>2 DEF Understood
    <3> QED  BY <2>5, <3>3 DEF AsMeant
  <2>6. ASSUME FieldsTaken(c), Stage(c) = "Done", ~(got[c] < Total)
        PROVE  Symbols(Forwarded) = answer.body
    <3>1. Parsed(c) = Len(HeadOf(answer.lines))
      BY <2>1, <2>2, <2>3, <2>6, TakenIs
    <3>2. got[c] = Total
      BY <2>1, <2>2, <2>6, TotalIs DEF TypeOK
    <3> QED  BY <2>1, <2>2, <2>3, <2>6, <3>1, <3>2, BodyForwarded
  <2> QED  BY <2>4, <2>5, <2>6 DEF BadStatus
<1>2. Spec => []Known
  BY InitKnown, NextKnown, PTL DEF Spec
<1> QED  BY <1>1, <1>2, PTL

===============================================================================
