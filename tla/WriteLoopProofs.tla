---------------------------- MODULE WriteLoopProofs ----------------------------
(***************************************************************************)
(* Theorems about WriteLoop, for any number of replies of any size and any *)
(* room in the kernel: no byte of the buffer is without a task, no byte of *)
(* a file is lost or sent twice, and the rest leaves in the order it came  *)
(* but for the bytes a client gets once more when it drains between two    *)
(* sends of a task.                                                        *)
(***************************************************************************)
EXTENDS WriteLoop, AnySequenceProofs, SequenceTheorems

Task == [act : {"send"}, length : Nat] \cup [act : {"sendfile"}, reply : 1 .. MaxReplies]

-----------------------------------------------------------------------------
(* What a queue asks for. *)

\* sum is the recursive function Asked is defined by.
Sums(sum, tasks) ==
  sum = [i \in 0 .. Len(tasks) |-> IF i = 0 THEN 0 ELSE sum[i - 1] + Amount(tasks[i])]

LEMMA AmountIsNat == ASSUME NEW task \in Task PROVE Amount(task) \in Nat
BY DEF Amount, Task

LEMMA SumsExists ==
  ASSUME NEW tasks \in Seq(Task)
  PROVE  \E sum : Sums(sum, tasks)
<1> DEFINE n == Len(tasks)
           step == [p \in Nat \X (1 .. n) |-> p[1] + Amount(tasks[p[2]])]
<1>1. n \in Nat
  OBVIOUS
<1>2. \A v \in Nat, i \in 1 .. n : /\ step[<<v, i>>] = v + Amount(tasks[i])
                                  /\ step[<<v, i>>] \in Nat
  <2> TAKE v \in Nat, i \in 1 .. n
  <2>1. tasks[i] \in Task
    OBVIOUS
  <2>2. v + Amount(tasks[i]) \in Nat
    BY <2>1, AmountIsNat
  <2>3. step[<<v, i>>] = v + Amount(tasks[i])
    OBVIOUS
  <2> QED  BY <2>2, <2>3
<1> HIDE DEF step
<1>3. PICK f : StepsUpto(f, Nat, 0, step, n)
  BY <1>1, <1>2, RecursionExists
<1>4. \A i \in 0 .. n : f[i] = IF i = 0 THEN 0 ELSE f[i - 1] + Amount(tasks[i])
  <2> TAKE i \in 0 .. n
  <2>1. CASE i = 0
    BY <1>3, <2>1 DEF StepsUpto
  <2>2. CASE i # 0
    <3>1. i \in 1 .. n /\ i - 1 \in 0 .. n
      BY <2>2
    <3>2. f[i - 1] \in Nat /\ f[i] = step[<<f[i - 1], i>>]
      BY <1>3, <3>1 DEF StepsUpto
    <3> QED  BY <1>2, <2>2, <3>1, <3>2
  <2> QED  BY <2>1, <2>2
<1>5. f = [i \in 0 .. n |-> f[i]]
  BY <1>3 DEF StepsUpto
<1> QED  BY <1>4, <1>5 DEF Sums

LEMMA AskedIs ==
  ASSUME NEW tasks \in Seq(Task)
  PROVE  \E sum : Sums(sum, tasks) /\ Asked(tasks) = sum[Len(tasks)]
<1> DEFINE sum == CHOOSE sum : sum = [i \in 0 .. Len(tasks) |->
                                        IF i = 0 THEN 0 ELSE sum[i - 1] + Amount(tasks[i])]
<1>1. \E f : f = [i \in 0 .. Len(tasks) |-> IF i = 0 THEN 0 ELSE f[i - 1] + Amount(tasks[i])]
  BY SumsExists DEF Sums
<1>2. sum = [i \in 0 .. Len(tasks) |-> IF i = 0 THEN 0 ELSE sum[i - 1] + Amount(tasks[i])]
  BY <1>1
<1>3. Asked(tasks) = sum[Len(tasks)]
  BY Zenon DEF Asked
<1> HIDE DEF sum
<1> QED  BY <1>2, <1>3 DEF Sums

LEMMA SumsStep ==
  ASSUME NEW tasks, Len(tasks) \in Nat, NEW sum, Sums(sum, tasks)
  PROVE  /\ sum[0] = 0
         /\ \A i \in 1 .. Len(tasks) : sum[i] = sum[i - 1] + Amount(tasks[i])
<1>1. \A i \in 0 .. Len(tasks) : sum[i] = IF i = 0 THEN 0 ELSE sum[i - 1] + Amount(tasks[i])
  BY DEF Sums
<1>2. ASSUME NEW i \in 1 .. Len(tasks) PROVE sum[i] = sum[i - 1] + Amount(tasks[i])
  <2>1. i \in 0 .. Len(tasks) /\ i # 0
    OBVIOUS
  <2> QED  BY <1>1, <2>1
<1> QED  BY <1>1, <1>2

LEMMA AskedIsNat ==
  ASSUME NEW tasks \in Seq(Task)
  PROVE  Asked(tasks) \in Nat
<1>1. PICK sum : Sums(sum, tasks) /\ Asked(tasks) = sum[Len(tasks)]
  BY AskedIs
<1> DEFINE n == Len(tasks)
           S == {k \in 1 .. n : sum[k] \in Nat}
<1>2. n \in Nat /\ sum[0] = 0 /\ \A i \in 1 .. n : sum[i] = sum[i - 1] + Amount(tasks[i])
  BY <1>1, SumsStep
<1>3. \A k \in 1 .. n : (k = 1 \/ k - 1 \in S) => k \in S
  <2> TAKE k \in 1 .. n
  <2>1. tasks[k] \in Task
    OBVIOUS
  <2>2. Amount(tasks[k]) \in Nat /\ sum[k] = sum[k - 1] + Amount(tasks[k])
    BY <1>2, <2>1, AmountIsNat
  <2>3. CASE k = 1
    <3>1. k - 1 = 0
      BY <2>3
    <3> QED  BY <1>2, <2>2, <3>1
  <2>4. CASE k - 1 \in S
    BY <2>2, <2>4
  <2> QED  BY <2>3, <2>4
<1>4. \A k \in 1 .. n : k \in S
  <2> HIDE DEF S
  <2> QED  BY <1>2, <1>3, InductionUpto
<1>5. n = 0 \/ n \in 1 .. n
  BY <1>2
<1> QED  BY <1>1, <1>2, <1>4, <1>5

LEMMA AskedOfNone == Asked(<<>>) = 0
<1>1. <<>> \in Seq(Task) /\ Len(<<>>) = 0
  OBVIOUS
<1>2. PICK sum : Sums(sum, <<>>) /\ Asked(<<>>) = sum[Len(<<>>)]
  BY <1>1, AskedIs
<1>3. sum[0] = 0
  BY <1>1, <1>2, SumsStep
<1> QED  BY <1>1, <1>2, <1>3

LEMMA AskedOfOne == ASSUME NEW task \in Task PROVE Asked(<<task>>) = Amount(task)
<1> DEFINE tasks == <<task>>
<1>1. tasks \in Seq(Task) /\ Len(tasks) = 1 /\ tasks[1] = task
  OBVIOUS
<1> HIDE DEF tasks
<1>2. PICK sum : Sums(sum, tasks) /\ Asked(tasks) = sum[1]
  BY <1>1, AskedIs
<1>3. sum[0] = 0 /\ sum[1] = sum[0] + Amount(task)
  <2>1. 1 \in 1 .. Len(tasks) /\ 1 - 1 = 0 /\ Len(tasks) \in Nat
    BY <1>1
  <2>2. sum[1] = sum[1 - 1] + Amount(tasks[1])
    BY <1>2, <2>1, SumsStep
  <2>3. sum[0] = 0
    BY <1>2, <2>1, SumsStep
  <2> QED  BY <1>1, <2>1, <2>2, <2>3
<1>4. Amount(task) \in Nat
  BY AmountIsNat
<1> QED  BY <1>2, <1>3, <1>4 DEF tasks

LEMMA AskedOfBoth ==
  ASSUME NEW a \in Seq(Task), NEW b \in Seq(Task)
  PROVE  Asked(a \o b) = Asked(a) + Asked(b)
<1> DEFINE c == a \o b
           n == Len(a)
           m == Len(b)
<1>1. /\ c \in Seq(Task) /\ Len(c) = n + m /\ n \in Nat /\ m \in Nat
      /\ \A i \in 1 .. n : c[i] = a[i]
      /\ \A i \in 1 .. m : c[n + i] = b[i]
  OBVIOUS
<1>2. PICK f : Sums(f, a) /\ Asked(a) = f[n]
  BY AskedIs
<1>3. PICK g : Sums(g, b) /\ Asked(b) = g[m]
  BY AskedIs
<1> HIDE DEF c
<1>4. PICK h : Sums(h, c) /\ Asked(c) = h[n + m]
  BY <1>1, AskedIs
<1>5. f[0] = 0 /\ \A i \in 1 .. n : f[i] = f[i - 1] + Amount(a[i])
  BY <1>1, <1>2, SumsStep
<1>6. g[0] = 0 /\ \A i \in 1 .. m : g[i] = g[i - 1] + Amount(b[i])
  BY <1>1, <1>3, SumsStep
<1>7. h[0] = 0 /\ \A i \in 1 .. n + m : h[i] = h[i - 1] + Amount(c[i])
  <2>1. Len(c) \in Nat
    BY <1>1
  <2>2. h[0] = 0 /\ \A i \in 1 .. Len(c) : h[i] = h[i - 1] + Amount(c[i])
    BY <1>4, <2>1, SumsStep
  <2> QED  BY <1>1, <2>2
<1>8. \A i \in 0 .. n : h[i] = f[i]
  <2> HIDE DEF n, m
  <2>1. ASSUME NEW i \in 1 .. n, h[i - 1] = f[i - 1] PROVE h[i] = f[i]
    <3>1. i \in 1 .. n + m
      BY <1>1
    <3>2. h[i] = h[i - 1] + Amount(c[i]) /\ f[i] = f[i - 1] + Amount(a[i]) /\ c[i] = a[i]
      BY <1>1, <1>5, <1>7, <3>1
    <3> QED  BY <2>1, <3>2
  <2>2. n \in Nat /\ h[0] = f[0]
    BY <1>1, <1>5, <1>7
  <2>3. StepAlike(h, f, n)
    BY <2>1, <2>2 DEF StepAlike
  <2> QED  BY <2>2, <2>3, RecursionAgrees
<1>9. f[n] \in Nat /\ Asked(b) \in Nat
  BY <1>2, AskedIsNat
<1> DEFINE S == {k \in 1 .. m : g[k] \in Nat /\ h[n + k] = f[n] + g[k]}
<1>10. \A k \in 1 .. m : (k = 1 \/ k - 1 \in S) => k \in S
  <2> HIDE DEF n, m
  <2> TAKE k \in 1 .. m
  <2>1. b[k] \in Task /\ Amount(b[k]) \in Nat
    BY AmountIsNat DEF m
  <2>2. /\ n + k \in 1 .. n + m /\ (n + k) - 1 = n + (k - 1)
        /\ k = 1 => k - 1 = 0 /\ n + (k - 1) = n
    BY <1>1
  <2>3. g[k] = g[k - 1] + Amount(b[k]) /\ h[n + k] = h[n + (k - 1)] + Amount(b[k])
    BY <1>1, <1>6, <1>7, <2>2
  <2>4. h[n] = f[n]
    BY <1>1, <1>8
  <2>5. CASE k = 1
    BY <1>6, <1>9, <2>1, <2>2, <2>3, <2>4, <2>5
  <2>6. CASE k - 1 \in S
    BY <1>9, <2>1, <2>3, <2>6
  <2> QED  BY <2>5, <2>6
<1>11. \A k \in 1 .. m : k \in S
  <2> HIDE DEF S
  <2> QED  BY <1>1, <1>10, InductionUpto
<1>12. h[n + m] = f[n] + g[m]
  <2> HIDE DEF n, m
  <2>1. CASE m = 0
    BY <1>1, <1>6, <1>8, <1>9, <2>1
  <2>2. CASE m # 0
    <3>1. m \in 1 .. m
      BY <1>1, <2>2
    <3> QED  BY <1>11, <3>1
  <2> QED  BY <2>1, <2>2
<1> QED  BY <1>2, <1>3, <1>4, <1>12 DEF c

-----------------------------------------------------------------------------
(* The parts of a reply and the tasks it queues. *)

Files == Nat \X {"file"} \X Nat
Byte == Buffers \cup Files

LEMMA KeptOfStream ==
  ASSUME NEW a \in Seq(Byte), NEW b \in Seq(Byte), NEW S
  PROVE  Kept(a \o b, S) = Kept(a, S) \o Kept(b, S)
BY KeptOfBoth

LEMMA BytesOfPart ==
  ASSUME NEW r \in Nat, NEW n \in Nat, NEW part \in {"head", "crlf", "error", "chunk"}
  PROVE  Bytes(r, part, n) \in Seq(Buffers) /\ Len(Bytes(r, part, n)) = n
<1>1. \A i \in 1 .. n : <<r, part, i>> \in Buffers
  BY DEF Buffers
<1> QED  BY <1>1 DEF Bytes

LEMMA BytesOfFile ==
  ASSUME NEW r \in Nat, NEW n \in Nat
  PROVE  Bytes(r, "file", n) \in Seq(FileOf(r)) /\ Len(Bytes(r, "file", n)) = n
<1>1. \A i \in 1 .. n : <<r, "file", i>> \in FileOf(r)
  BY DEF FileOf
<1> QED  BY <1>1 DEF Bytes

LEMMA FileIsNotBuffered ==
  ASSUME NEW r \in Nat
  PROVE  /\ FileOf(r) \subseteq Files
         /\ \A b \in FileOf(r) : b \notin Buffers
         /\ \A b \in Buffers : b \notin FileOf(r)
         /\ \A s \in Nat : s # r => \A b \in FileOf(r) : b \notin FileOf(s)
BY DEF FileOf, Files, Buffers

LEMMA Sizes ==
  /\ MaxReplies \in Nat /\ HeadLen \in Nat /\ CrlfLen \in Nat /\ ErrorLen \in Nat
  /\ ChunkLen \in Nat /\ Window \in Nat /\ FileLen \in Nat
  /\ Kinds \subseteq {"page", "error", "gateway"}
BY SizeAssumption

LEMMA SendIsTask ==
  ASSUME NEW n \in Nat
  PROVE  Send(n) \in Task /\ Amount(Send(n)) = n /\ Asked(<<Send(n)>>) = n
<1>1. Send(n) \in Task /\ Amount(Send(n)) = n
  BY DEF Send, Task, Amount
<1> QED  BY <1>1, AskedOfOne

LEMMA SendfileIsTask ==
  ASSUME NEW r \in 1 .. MaxReplies
  PROVE  Sendfile(r) \in Task /\ Asked(<<Sendfile(r)>>) = 0
<1>1. Sendfile(r) \in Task /\ Amount(Sendfile(r)) = 0
  BY DEF Sendfile, Task, Amount
<1> QED  BY <1>1, AskedOfOne

\* Whatever the reply: its tasks ask for what it put into the buffer.
LEMMA TasksCover ==
  ASSUME NEW r \in 1 .. MaxReplies, NEW kind \in Kinds
  PROVE  /\ Buffered(r, kind) \in Seq(Buffers)
         /\ Tasks(r, kind) \in Seq(Task)
         /\ Asked(Tasks(r, kind)) = Len(Buffered(r, kind))
<1>0. r \in Nat
  BY Sizes
<1>1. CASE kind = "page"
  <2> DEFINE head == Bytes(r, "head", HeadLen)
             crlf == Bytes(r, "crlf", CrlfLen)
  <2>1. Buffered(r, kind) = head \o crlf
    BY <1>1, Zenon DEF Buffered
  <2>2. Tasks(r, kind) = <<Send(HeadLen), Sendfile(r), Send(CrlfLen)>>
    BY <1>1, Zenon DEF Tasks
  <2>3. /\ head \in Seq(Buffers) /\ Len(head) = HeadLen
        /\ crlf \in Seq(Buffers) /\ Len(crlf) = CrlfLen
    BY <1>0, Sizes, BytesOfPart
  <2>4. /\ Send(HeadLen) \in Task /\ Asked(<<Send(HeadLen)>>) = HeadLen
        /\ Sendfile(r) \in Task /\ Asked(<<Sendfile(r)>>) = 0
        /\ Send(CrlfLen) \in Task /\ Asked(<<Send(CrlfLen)>>) = CrlfLen
    BY Sizes, SendIsTask, SendfileIsTask
  <2>5. /\ <<Send(HeadLen)>> \in Seq(Task) /\ <<Sendfile(r)>> \in Seq(Task)
        /\ <<Send(CrlfLen)>> \in Seq(Task)
        /\ <<Send(HeadLen)>> \o <<Sendfile(r)>> \in Seq(Task)
        /\ Tasks(r, kind) = (<<Send(HeadLen)>> \o <<Sendfile(r)>>) \o <<Send(CrlfLen)>>
    BY <2>2, <2>4
  <2>6. Asked(<<Send(HeadLen)>> \o <<Sendfile(r)>>) = HeadLen
    <3>1. Asked(<<Send(HeadLen)>> \o <<Sendfile(r)>>)
            = Asked(<<Send(HeadLen)>>) + Asked(<<Sendfile(r)>>)
      BY <2>5, AskedOfBoth
    <3> QED  BY <2>4, <3>1, Sizes
  <2>7. Asked(Tasks(r, kind)) = HeadLen + CrlfLen
    BY <2>4, <2>5, <2>6, AskedOfBoth
  <2>8. Tasks(r, kind) \in Seq(Task)
    BY <2>5, ConcatProperties
  <2> HIDE DEF head, crlf
  <2>9. head \o crlf \in Seq(Buffers) /\ Len(head \o crlf) = HeadLen + CrlfLen
    BY <2>3, ConcatProperties
  <2> QED  BY <2>1, <2>7, <2>8, <2>9
<1>2. CASE kind = "error"
  <2>1. Buffered(r, kind) = Bytes(r, "error", ErrorLen)
    BY <1>2, Zenon DEF Buffered
  <2>2. Tasks(r, kind) = <<Send(ErrorLen)>>
    BY <1>2, Zenon DEF Tasks
  <2>3. Bytes(r, "error", ErrorLen) \in Seq(Buffers) /\ Len(Bytes(r, "error", ErrorLen)) = ErrorLen
    BY <1>0, Sizes, BytesOfPart
  <2>4. Send(ErrorLen) \in Task /\ Asked(<<Send(ErrorLen)>>) = ErrorLen
    BY Sizes, SendIsTask
  <2>5. <<Send(ErrorLen)>> \in Seq(Task)
    BY <2>4
  <2> QED  BY <2>1, <2>2, <2>3, <2>4, <2>5
<1>3. CASE kind = "gateway"
  <2> DEFINE head == Bytes(r, "head", HeadLen)
             chunk == Bytes(r, "chunk", ChunkLen)
  <2>1. Buffered(r, kind) = head \o chunk
    BY <1>3, Zenon DEF Buffered
  <2>2. Tasks(r, kind) = <<Send(HeadLen), Send(ChunkLen)>>
    BY <1>3, Zenon DEF Tasks
  <2>3. /\ head \in Seq(Buffers) /\ Len(head) = HeadLen
        /\ chunk \in Seq(Buffers) /\ Len(chunk) = ChunkLen
    BY <1>0, Sizes, BytesOfPart
  <2>4. /\ Send(HeadLen) \in Task /\ Asked(<<Send(HeadLen)>>) = HeadLen
        /\ Send(ChunkLen) \in Task /\ Asked(<<Send(ChunkLen)>>) = ChunkLen
    BY Sizes, SendIsTask
  <2>5. /\ <<Send(HeadLen)>> \in Seq(Task) /\ <<Send(ChunkLen)>> \in Seq(Task)
        /\ Tasks(r, kind) = <<Send(HeadLen)>> \o <<Send(ChunkLen)>>
    BY <2>2, <2>4
  <2>6. Asked(Tasks(r, kind)) = HeadLen + ChunkLen
    BY <2>4, <2>5, AskedOfBoth
  <2>7. Tasks(r, kind) \in Seq(Task)
    BY <2>5, ConcatProperties
  <2> HIDE DEF head, chunk
  <2>8. head \o chunk \in Seq(Buffers) /\ Len(head \o chunk) = HeadLen + ChunkLen
    BY <2>3, ConcatProperties
  <2> QED  BY <2>1, <2>6, <2>7, <2>8
<1> QED  BY <1>1, <1>2, <1>3, Sizes

\* A reply less its file is what it put into the buffer.
LEMMA ReplyLessFile ==
  ASSUME NEW r \in 1 .. MaxReplies, NEW kind \in Kinds
  PROVE  /\ Reply(r, kind) \in Seq(Byte)
         /\ Kept(Reply(r, kind), Buffers) = Buffered(r, kind)
<1>0. r \in Nat
  BY Sizes
<1>1. CASE kind = "page"
  <2> DEFINE head == Bytes(r, "head", HeadLen)
             file == Bytes(r, "file", FileLen)
             crlf == Bytes(r, "crlf", CrlfLen)
  <2>1. Buffered(r, kind) = head \o crlf /\ Reply(r, kind) = (head \o file) \o crlf
    BY <1>1, Zenon DEF Buffered, Reply
  <2>2. head \in Seq(Buffers) /\ crlf \in Seq(Buffers)
    BY <1>0, Sizes, BytesOfPart
  <2>3. file \in Seq(FileOf(r))
    BY <1>0, Sizes, BytesOfFile
  <2> HIDE DEF head, file, crlf
  <2>4. head \in Seq(Byte) /\ crlf \in Seq(Byte)
    BY <2>2, SeqMonotonic DEF Byte
  <2>5. file \in Seq(Byte)
    <3>1. FileOf(r) \subseteq Byte
      BY <1>0, FileIsNotBuffered DEF Byte
    <3> QED  BY <2>3, <3>1, SeqMonotonic
  <2>6. head \o file \in Seq(Byte)
    BY <2>4, <2>5, ConcatProperties
  <2>7. (head \o file) \o crlf \in Seq(Byte)
    BY <2>4, <2>6, ConcatProperties
  <2>8. Kept(head, Buffers) = head /\ Kept(crlf, Buffers) = crlf
    BY <2>2, KeptAll
  <2>9. Kept(file, Buffers) = <<>>
    BY <1>0, <2>3, FileIsNotBuffered, KeptNothing
  <2>10. Kept(head \o file, Buffers) = head \o <<>>
    <3>1. Kept(head \o file, Buffers) = Kept(head, Buffers) \o Kept(file, Buffers)
      BY <2>4, <2>5, KeptOfStream
    <3> QED  BY <2>8, <2>9, <3>1
  <2>11. head \o <<>> = head
    BY <2>2, ConcatEmptySeq
  <2>12. Kept((head \o file) \o crlf, Buffers) = head \o crlf
    <3> DEFINE front == head \o file
    <3>1. front \in Seq(Byte) /\ Kept(front, Buffers) = head
      BY <2>6, <2>10, <2>11
    <3> HIDE DEF front
    <3>2. Kept(front \o crlf, Buffers) = Kept(front, Buffers) \o Kept(crlf, Buffers)
      BY <2>4, <3>1, KeptOfStream
    <3>3. Kept(front \o crlf, Buffers) = head \o crlf
      BY <2>8, <3>1, <3>2
    <3> QED  BY <3>3 DEF front
  <2> QED  BY <2>1, <2>7, <2>12
<1>2. CASE kind # "page"
  <2>1. Reply(r, kind) = Buffered(r, kind)
    BY <1>2 DEF Reply
  <2>2. Buffered(r, kind) \in Seq(Buffers)
    BY TasksCover
  <2>3. Buffered(r, kind) \in Seq(Byte)
    BY <2>2, SeqMonotonic DEF Byte
  <2> QED  BY <2>1, <2>2, <2>3, KeptAll
<1> QED  BY <1>1, <1>2

-----------------------------------------------------------------------------
(* The queue and the buffer. *)

\* What is queued is typed, files are read no further than they reach, the
\* tasks ask for the bytes of the buffer, and what a running actSend has sent is
\* part of its task.
Queued ==
  /\ replies \in Seq(Kinds) /\ Len(replies) <= MaxReplies
  /\ buffer \in Seq(Buffers)
  /\ q \in Seq(Task)
  /\ offset \in [1 .. MaxReplies -> 0 .. FileLen]
  /\ room \in Nat
  /\ sent \in Seq(Byte)
  /\ BufferCoversQueue
  /\ progress \in Nat /\ progress <= Len(buffer)
  /\ progress > 0 =>
       q # <<>> /\ Head(q).act = "send" /\ progress <= Head(q).length

LEMMA LeastIs ==
  ASSUME NEW a \in Nat, NEW b \in Nat
  PROVE  Least(a, b) \in Nat /\ Least(a, b) <= a /\ Least(a, b) <= b
BY DEF Least

\* The front of a queue and what is behind it.
LEMMA FrontOfQueue ==
  ASSUME NEW tasks \in Seq(Task), tasks # <<>>
  PROVE  /\ Head(tasks) \in Task /\ Tail(tasks) \in Seq(Task)
         /\ Asked(tasks) = Amount(Head(tasks)) + Asked(Tail(tasks))
         /\ Amount(Head(tasks)) \in Nat /\ Asked(Tail(tasks)) \in Nat
<1>1. Head(tasks) \in Task /\ Tail(tasks) \in Seq(Task)
  BY HeadTailProperties
<1> DEFINE h == Head(tasks)
           rest == Tail(tasks)
<1>2. tasks = <<h>> \o rest
  OBVIOUS
<1>3. <<h>> \in Seq(Task)
  BY <1>1
<1> HIDE DEF h, rest
<1>4. Asked(<<h>> \o rest) = Asked(<<h>>) + Asked(rest)
  BY <1>1, <1>3, AskedOfBoth DEF h, rest
<1>5. Asked(<<h>>) = Amount(h)
  BY <1>1, AskedOfOne DEF h
<1> QED  BY <1>1, <1>2, <1>4, <1>5, AmountIsNat, AskedIsNat DEF h, rest

\* The front of a buffer and what is behind it.
LEMMA FrontOfBuffer ==
  ASSUME NEW S, NEW s \in Seq(S), NEW n \in 0 .. Len(s)
  PROVE  /\ SubSeq(s, 1, n) \in Seq(S) /\ Len(SubSeq(s, 1, n)) = n
         /\ SubSeq(s, n + 1, Len(s)) \in Seq(S)
         /\ Len(SubSeq(s, n + 1, Len(s))) = Len(s) - n
         /\ SubSeq(s, 1, n) \o SubSeq(s, n + 1, Len(s)) = s
<1>1. Len(s) \in Nat
  OBVIOUS
<1>2. SubSeq(s, 1, n) \in Seq(S) /\ Len(SubSeq(s, 1, n)) = n
  OBVIOUS
<1>3. SubSeq(s, n + 1, Len(s)) \in Seq(S) /\ Len(SubSeq(s, n + 1, Len(s))) = Len(s) - n
  OBVIOUS
<1>4. SubSeq(s, 1, n) \o SubSeq(s, n + 1, Len(s)) = SubSeq(s, 1, Len(s))
  <2>1. 1 \in 1 .. Len(s) + 1 /\ n \in 1 - 1 .. Len(s) /\ Len(s) \in n .. Len(s)
    BY <1>1
  <2> QED  BY <2>1, ConcatAdjacentSubSeq
<1>5. SubSeq(s, 1, Len(s)) = s
  BY SubSeqFull
<1> QED  BY <1>2, <1>3, <1>4, <1>5

\* The task of a running actSend.
LEMMA SendTask ==
  ASSUME Queued, q # <<>>, Head(q).act = "send"
  PROVE  LET n == Head(q).length IN
         /\ n \in Nat /\ Tail(q) \in Seq(Task) /\ Asked(Tail(q)) \in Nat
         /\ Len(buffer) = n + Asked(Tail(q)) /\ Len(buffer) \in Nat
         /\ progress \in 0 .. n /\ progress \in 0 .. Len(buffer) /\ room \in Nat
<1> DEFINE n == Head(q).length
<1>1. Amount(Head(q)) = n
  BY DEF Amount
<1>2. /\ n \in Nat /\ Tail(q) \in Seq(Task) /\ Asked(Tail(q)) \in Nat
      /\ Len(buffer) = n + Asked(Tail(q)) /\ room \in Nat
  BY <1>1, FrontOfQueue DEF Queued, BufferCoversQueue
<1>3. progress \in Nat /\ progress <= n
  BY <1>2 DEF Queued
<1> HIDE DEF n
<1> QED  BY <1>2, <1>3 DEF n

\* One send: r bytes from the front of the buffer.
Sends(r) ==
  /\ r \in 1 .. Head(q).length - progress
  /\ r \in 0 .. Len(buffer) - progress
  /\ sent' = sent \o SubSeq(buffer, 1, r)
  /\ again' = again \cup (IF progress > 0 THEN Through + 1 .. Through + r ELSE {})
  /\ progress' = progress + r
  /\ room' \in Nat
  /\ UNCHANGED <<buffer, q, offset>>

LEMMA SendOnceStep ==
  ASSUME Queued, q # <<>>, Head(q).act = "send", SendOnce(Head(q).length)
  PROVE  \E r : Sends(r)
<1> DEFINE n == Head(q).length
           r == Least(room, n - progress)
<1>1. /\ n \in Nat /\ progress \in 0 .. n /\ progress \in 0 .. Len(buffer)
      /\ room \in Nat /\ Len(buffer) \in Nat /\ n <= Len(buffer)
  BY SendTask
<1>2. /\ r > 0 /\ sent' = sent \o SubSeq(buffer, 1, r)
      /\ again' = again \cup (IF progress > 0 THEN Through + 1 .. Through + r
                                             ELSE {})
      /\ progress' = progress + r /\ room' = room - r
      /\ UNCHANGED <<buffer, q, offset>>
  BY DEF SendOnce
<1>3. n - progress \in Nat
  BY <1>1
<1>4. r \in Nat /\ r <= room /\ r <= n - progress
  <2> DEFINE rest == n - progress
  <2>1. rest \in Nat
    BY <1>3
  <2> HIDE DEF rest
  <2>2. Least(room, rest) \in Nat /\ Least(room, rest) <= room /\ Least(room, rest) <= rest
    BY <1>1, <2>1, LeastIs
  <2> QED  BY <2>2 DEF rest
<1> HIDE DEF r
<1>5. r \in 1 .. n - progress /\ r \in 0 .. Len(buffer) - progress /\ room' \in Nat
  BY <1>1, <1>2, <1>4
<1> QED  BY <1>2, <1>5 DEF Sends

\* The end of actSend: what was sent leaves the buffer and the task.
Sent ==
  /\ buffer' = SubSeq(buffer, progress + 1, Len(buffer))
  /\ buffer' \in Seq(Buffers) /\ q' \in Seq(Task) /\ BufferCoversQueue'
  /\ progress' = 0
  /\ UNCHANGED <<offset, sent, room, again>>

LEMMA SendEndStep ==
  ASSUME Queued, q # <<>>, Head(q).act = "send", SendEnd(Head(q).length)
  PROVE  Sent
<1> DEFINE n == Head(q).length
<1>1. /\ n \in Nat /\ Tail(q) \in Seq(Task) /\ Asked(Tail(q)) \in Nat
      /\ Len(buffer) = n + Asked(Tail(q)) /\ Len(buffer) \in Nat
      /\ progress \in 0 .. n /\ progress \in 0 .. Len(buffer)
  BY SendTask
<1>2. /\ buffer' = SubSeq(buffer, progress + 1, Len(buffer))
      /\ q' = IF progress < n THEN <<Send(n - progress)>> \o Tail(q) ELSE Tail(q)
      /\ progress' = 0
      /\ UNCHANGED <<offset, sent, room, again>>
  BY DEF SendEnd
<1> HIDE DEF n
<1>3. buffer' \in Seq(Buffers) /\ Len(buffer') = Len(buffer) - progress
  BY <1>1, <1>2, FrontOfBuffer DEF Queued
<1>4. q' \in Seq(Task) /\ Asked(q') = (n - progress) + Asked(Tail(q))
  <2>1. CASE progress < n
    <3> DEFINE rest == n - progress
    <3>1. rest \in Nat
      BY <1>1, <2>1
    <3>2. q' = <<Send(rest)>> \o Tail(q)
      BY <1>2, <2>1
    <3> HIDE DEF rest
    <3>3. Send(rest) \in Task /\ Asked(<<Send(rest)>>) = rest
      BY <3>1, SendIsTask
    <3>4. <<Send(rest)>> \in Seq(Task)
      BY <3>3
    <3>5. Asked(<<Send(rest)>> \o Tail(q)) = Asked(<<Send(rest)>>) + Asked(Tail(q))
      BY <1>1, <3>4, AskedOfBoth
    <3>6. <<Send(rest)>> \o Tail(q) \in Seq(Task)
      BY <1>1, <3>4, ConcatProperties
    <3> QED  BY <3>2, <3>3, <3>5, <3>6 DEF rest
  <2>2. CASE ~(progress < n)
    <3>1. q' = Tail(q) /\ n - progress = 0
      BY <1>1, <1>2, <2>2
    <3> QED  BY <1>1, <3>1
  <2> QED  BY <2>1, <2>2
<1>5. BufferCoversQueue'
  BY <1>1, <1>3, <1>4 DEF BufferCoversQueue
<1> QED  BY <1>2, <1>3, <1>4, <1>5 DEF Sent

\* One sendfile: the file goes on up to done.
SendsFile(r, done) ==
  /\ done \in offset[r] .. FileLen
  /\ sent' = sent \o SubSeq(Bytes(r, "file", FileLen), offset[r] + 1, done)
  /\ offset' = [offset EXCEPT ![r] = done]
  /\ room' \in Nat
  /\ UNCHANGED <<buffer, q, progress, again>>

\* The end of actSendfile: an unfinished file is queued again, at the back.
SentFile ==
  /\ q' \in Seq(Task) /\ BufferCoversQueue' /\ progress = 0
  /\ UNCHANGED <<buffer, offset, progress, sent, room, again>>

LEMMA SendfileTask ==
  ASSUME Queued, q # <<>>, NEW r, Head(q) = Sendfile(r)
  PROVE  /\ r \in 1 .. MaxReplies /\ progress = 0
         /\ Tail(q) \in Seq(Task) /\ Asked(Tail(q)) \in Nat
         /\ Len(buffer) = Asked(Tail(q)) /\ room \in Nat
         /\ FileLen \in Nat /\ offset[r] \in 0 .. FileLen
<1>1. r \in 1 .. MaxReplies /\ Amount(Head(q)) = 0
  <2>1. Head(q) \in Task
    BY FrontOfQueue DEF Queued
  <2> QED  BY <2>1 DEF Task, Sendfile, Amount
<1>2. progress = 0
  BY DEF Queued, Sendfile
<1> QED  BY <1>1, <1>2, FrontOfQueue, Sizes DEF Queued, BufferCoversQueue

LEMMA SendfileOnceStep ==
  ASSUME Queued, q # <<>>, NEW r, Head(q) = Sendfile(r), SendfileOnce(r)
  PROVE  r \in 1 .. MaxReplies /\ \E done : SendsFile(r, done)
<1> DEFINE rest == FileLen - offset[r]
           n == Least(room, rest)
           done == offset[r] + n
<1>1. /\ r \in 1 .. MaxReplies /\ room \in Nat
      /\ FileLen \in Nat /\ offset[r] \in 0 .. FileLen
  BY SendfileTask
<1>2. rest \in Nat
  BY <1>1
<1>3. n \in Nat /\ n <= room /\ n <= rest
  <2> HIDE DEF rest
  <2> QED  BY <1>1, <1>2, LeastIs
<1>4. /\ sent' = sent \o SubSeq(Bytes(r, "file", FileLen), offset[r] + 1, done)
      /\ offset' = [offset EXCEPT ![r] = @ + n]
      /\ room' = room - n
      /\ UNCHANGED <<buffer, q, progress, again>>
  BY DEF SendfileOnce
<1> HIDE DEF n
<1>5. done \in offset[r] .. FileLen /\ room' \in Nat
  <2>1. done \in offset[r] .. FileLen
    BY ONLY <1>1, <1>3
  <2>2. room' \in Nat
    BY ONLY <1>1, <1>3, <1>4
  <2> QED  BY <2>1, <2>2
<1>6. offset' = [offset EXCEPT ![r] = done]
  BY <1>4
<1> QED  BY <1>1, <1>4, <1>5, <1>6 DEF SendsFile

LEMMA SendfileEndStep ==
  ASSUME Queued, q # <<>>, NEW r, Head(q) = Sendfile(r), SendfileEnd(r)
  PROVE  SentFile
<1>1. /\ r \in 1 .. MaxReplies /\ progress = 0
      /\ Tail(q) \in Seq(Task) /\ Asked(Tail(q)) \in Nat
      /\ Len(buffer) = Asked(Tail(q))
  BY SendfileTask
<1>2. /\ q' = Tail(q) \/ q' = Append(Tail(q), Sendfile(r))
      /\ UNCHANGED <<buffer, offset, progress, sent, room, again>>
  BY DEF SendfileEnd
<1>3. q' \in Seq(Task) /\ Asked(q') = Asked(Tail(q))
  <2>1. CASE q' = Tail(q)
    BY <1>1, <2>1
  <2>2. CASE q' = Append(Tail(q), Sendfile(r))
    <3>1. Sendfile(r) \in Task /\ Asked(<<Sendfile(r)>>) = 0
      BY <1>1, SendfileIsTask
    <3>2. <<Sendfile(r)>> \in Seq(Task) /\ q' = Tail(q) \o <<Sendfile(r)>>
      BY <1>1, <2>2, <3>1, AppendIsConcat
    <3>3. Asked(Tail(q) \o <<Sendfile(r)>>) = Asked(Tail(q)) + Asked(<<Sendfile(r)>>)
      BY <1>1, <3>2, AskedOfBoth
    <3>4. Tail(q) \o <<Sendfile(r)>> \in Seq(Task)
      BY <1>1, <3>2, ConcatProperties
    <3> QED  BY <1>1, <3>1, <3>2, <3>3, <3>4
  <2> QED  BY <1>2, <2>1, <2>2
<1>4. BufferCoversQueue'
  BY <1>1, <1>2, <1>3 DEF BufferCoversQueue
<1> QED  BY <1>1, <1>2, <1>3, <1>4 DEF SentFile

-----------------------------------------------------------------------------
(* Every step of the loop. *)

LEMMA ProvideStep ==
  ASSUME Queued, NEW kind \in Kinds, Provide(kind)
  PROVE  LET r == Len(replies) + 1 IN
         /\ r \in 1 .. MaxReplies
         /\ replies' = Append(replies, kind)
         /\ buffer' = buffer \o Buffered(r, kind)
         /\ q' = q \o Tasks(r, kind)
         /\ UNCHANGED <<offset, progress, sent, room, again>>
BY Sizes DEF Provide, Queued

LEMMA InitQueued == Init => Queued
<1> SUFFICES ASSUME Init PROVE Queued
  OBVIOUS
<1>1. /\ replies \in Seq(Kinds) /\ Len(replies) <= MaxReplies /\ buffer \in Seq(Buffers)
      /\ q \in Seq(Task) /\ sent \in Seq(Byte) /\ room \in Nat
  BY Sizes DEF Init
<1>2. offset \in [1 .. MaxReplies -> 0 .. FileLen]
  BY Sizes DEF Init
<1>3. BufferCoversQueue
  BY AskedOfNone DEF Init, BufferCoversQueue
<1>4. progress = 0 /\ Len(buffer) = 0
  BY DEF Init
<1> QED  BY <1>1, <1>2, <1>3, <1>4 DEF Queued

\* The four things a step of doOnce may be.
LEMMA DoOnceSplits ==
  ASSUME Queued, DoOnce
  PROVE  /\ q # <<>> /\ replies' = replies
         /\ \/ Head(q).act = "send" /\ \E r : Sends(r)
            \/ Sent
            \/ \E r \in 1 .. MaxReplies : \E done : SendsFile(r, done)
            \/ SentFile
<1>1. q # <<>> /\ Head(q) \in Task /\ replies' = replies
  BY FrontOfQueue DEF DoOnce, Queued
<1>2. CASE Head(q).act = "send" /\ ActSend(Head(q).length)
  BY <1>1, <1>2, SendOnceStep, SendEndStep DEF ActSend
<1>3. CASE Head(q).act = "sendfile" /\ ActSendfile(Head(q).reply)
  <2> DEFINE r == Head(q).reply
  <2>1. Head(q) = Sendfile(r)
    BY <1>1, <1>3 DEF Task, Sendfile
  <2> HIDE DEF r
  <2>2. CASE SendfileOnce(r)
    <3>1. r \in 1 .. MaxReplies /\ \E done : SendsFile(r, done)
      BY <1>1, <2>1, <2>2, SendfileOnceStep
    <3> QED  BY <1>1, <3>1
  <2>3. CASE SendfileEnd(r)
    BY <1>1, <2>1, <2>3, SendfileEndStep
  <2> QED  BY <1>3, <2>2, <2>3 DEF ActSendfile, r
<1> QED  BY <1>1, <1>2, <1>3 DEF DoOnce

\* A piece of a file goes on where the bytes sent so far ended.
LEMMA FileGoesOn ==
  ASSUME NEW r \in Nat, NEW n \in Nat, NEW from \in 0 .. n, NEW to \in from .. n
  PROVE  /\ SubSeq(Bytes(r, "file", n), from + 1, to) \in Seq(FileOf(r))
         /\ Bytes(r, "file", from) \o SubSeq(Bytes(r, "file", n), from + 1, to) = Bytes(r, "file", to)
<1> DEFINE all == Bytes(r, "file", n)
<1>1. all \in Seq(FileOf(r)) /\ Len(all) = n
  BY BytesOfFile
<1>2. ASSUME NEW k \in 0 .. n PROVE SubSeq(all, 1, k) = Bytes(r, "file", k)
  BY DEF Bytes
<1> HIDE DEF all
<1>3. SubSeq(all, 1, from) \o SubSeq(all, from + 1, to) = SubSeq(all, 1, to)
  <2>1. 1 \in 1 .. Len(all) + 1 /\ from \in 1 - 1 .. Len(all) /\ to \in from .. Len(all)
    BY <1>1
  <2> QED  BY <1>1, <2>1, ConcatAdjacentSubSeq
<1>4. SubSeq(all, from + 1, to) \in Seq(FileOf(r))
  BY <1>1
<1>5. SubSeq(all, 1, from) = Bytes(r, "file", from) /\ SubSeq(all, 1, to) = Bytes(r, "file", to)
  BY <1>2
<1> QED  BY <1>3, <1>4, <1>5 DEF all

\* What a sendfile sends are bytes of its file.
LEMMA PieceOfFile ==
  ASSUME Queued, NEW r \in 1 .. MaxReplies, NEW done, SendsFile(r, done)
  PROVE  LET piece == SubSeq(Bytes(r, "file", FileLen), offset[r] + 1, done) IN
         /\ piece \in Seq(FileOf(r)) /\ piece \in Seq(Byte)
         /\ Bytes(r, "file", offset[r]) \o piece = Bytes(r, "file", done)
         /\ sent' = sent \o piece
         /\ offset' \in [1 .. MaxReplies -> 0 .. FileLen]
<1> DEFINE piece == SubSeq(Bytes(r, "file", FileLen), offset[r] + 1, done)
<1>1. /\ offset \in [1 .. MaxReplies -> 0 .. FileLen] /\ offset[r] \in 0 .. FileLen
      /\ r \in Nat /\ FileLen \in Nat /\ done \in offset[r] .. FileLen
  BY Sizes DEF Queued, SendsFile
<1>2. piece \in Seq(FileOf(r)) /\ Bytes(r, "file", offset[r]) \o piece = Bytes(r, "file", done)
  BY <1>1, FileGoesOn
<1> HIDE DEF piece
<1>3. piece \in Seq(Byte)
  <2>1. FileOf(r) \subseteq Byte
    BY <1>1, FileIsNotBuffered DEF Byte
  <2> QED  BY <1>2, <2>1, SeqMonotonic
<1>4. done \in 0 .. FileLen
  BY <1>1
<1>5. offset' \in [1 .. MaxReplies -> 0 .. FileLen]
  BY <1>1, <1>4 DEF SendsFile
<1>6. sent' = sent \o piece
  BY DEF SendsFile, piece
<1> QED  BY <1>2, <1>3, <1>5, <1>6 DEF piece

\* What a send sends are bytes of the buffer.
LEMMA PieceOfBuffer ==
  ASSUME Queued, NEW r, Sends(r)
  PROVE  LET piece == SubSeq(buffer, 1, r) IN
         /\ piece \in Seq(Buffers) /\ piece \in Seq(Byte) /\ Len(piece) = r
         /\ sent' = sent \o piece
<1> DEFINE piece == SubSeq(buffer, 1, r)
<1>1. buffer \in Seq(Buffers) /\ r \in 0 .. Len(buffer) /\ sent' = sent \o piece
  BY DEF Queued, Sends
<1>2. piece \in Seq(Buffers) /\ Len(piece) = r
  BY <1>1, FrontOfBuffer
<1> HIDE DEF piece
<1>3. piece \in Seq(Byte)
  BY <1>2, SeqMonotonic DEF Byte
<1> QED  BY <1>1, <1>2, <1>3 DEF piece

LEMMA NextQueued == Queued /\ [Next]_vars => Queued'
<1> SUFFICES ASSUME Queued, [Next]_vars PROVE Queued'
  OBVIOUS
<1>1. ASSUME NEW kind \in Kinds, Provide(kind) PROVE Queued'
  <2> DEFINE r == Len(replies) + 1
  <2>1. /\ r \in 1 .. MaxReplies /\ replies' = Append(replies, kind)
        /\ buffer' = buffer \o Buffered(r, kind) /\ q' = q \o Tasks(r, kind)
        /\ UNCHANGED <<offset, progress, sent, room>>
    BY <1>1, ProvideStep
  <2>2. replies' \in Seq(Kinds) /\ Len(replies') = r /\ r <= MaxReplies
    BY <2>1 DEF Queued
  <2> HIDE DEF r
  <2>3. /\ Buffered(r, kind) \in Seq(Buffers) /\ Tasks(r, kind) \in Seq(Task)
        /\ Asked(Tasks(r, kind)) = Len(Buffered(r, kind))
    BY <2>1, TasksCover
  <2>4. buffer' \in Seq(Buffers) /\ Len(buffer') = Len(buffer) + Len(Buffered(r, kind))
    BY <2>1, <2>3, ConcatProperties DEF Queued
  <2>5. q' \in Seq(Task)
    BY <2>1, <2>3, ConcatProperties DEF Queued
  <2>6. Asked(q') = Asked(q) + Asked(Tasks(r, kind))
    BY <2>1, <2>3, AskedOfBoth DEF Queued
  <2>7. BufferCoversQueue'
    BY <2>3, <2>4, <2>6 DEF Queued, BufferCoversQueue
  <2>8. progress <= Len(buffer')
    BY <2>3, <2>4 DEF Queued
  <2>9. progress > 0 =>
          q' # <<>> /\ Head(q').act = "send" /\ progress <= Head(q').length
    <3> SUFFICES ASSUME progress > 0
                 PROVE  q' # <<>> /\ Head(q') = Head(q)
      BY DEF Queued
    <3>1. q \in Seq(Task) /\ q # <<>>
      BY DEF Queued
    <3> QED  BY <2>1, <2>3, <3>1
  <2> QED  BY <2>1, <2>2, <2>4, <2>5, <2>7, <2>8, <2>9 DEF Queued
<1>2. CASE DoOnce
  <2>0. q # <<>> /\ replies' = replies
    BY <1>2, DoOnceSplits
  <2>1. ASSUME NEW r, Head(q).act = "send", Sends(r) PROVE Queued'
    <3>1. sent' \in Seq(Byte)
      <4> DEFINE piece == SubSeq(buffer, 1, r)
      <4>1. piece \in Seq(Byte) /\ sent' = sent \o piece /\ sent \in Seq(Byte)
        BY <2>1, PieceOfBuffer DEF Queued
      <4> HIDE DEF piece
      <4> QED  BY <4>1, ConcatProperties
    <3>2. /\ progress' \in Nat /\ progress' <= Len(buffer) /\ progress' <= Head(q).length
          /\ room' \in Nat /\ UNCHANGED <<buffer, q, offset>>
      <4>1. Sends(r)
        BY <2>1
      <4>2. progress \in Nat /\ Len(buffer) \in Nat /\ Head(q).length \in Nat
        BY <2>0, <2>1, SendTask
      <4> QED  BY ONLY <4>1, <4>2 DEF Sends
    <3>3. BufferCoversQueue'
      BY <3>2 DEF Queued, BufferCoversQueue
    <3> QED  BY <2>0, <2>1, <3>1, <3>2, <3>3 DEF Queued
  <2>2. CASE Sent
    BY <2>0, <2>2 DEF Sent, Queued
  <2>3. ASSUME NEW r \in 1 .. MaxReplies, NEW done, SendsFile(r, done) PROVE Queued'
    <3>1. sent' \in Seq(Byte) /\ offset' \in [1 .. MaxReplies -> 0 .. FileLen]
      <4> DEFINE piece == SubSeq(Bytes(r, "file", FileLen), offset[r] + 1, done)
      <4>1. /\ piece \in Seq(Byte) /\ sent' = sent \o piece /\ sent \in Seq(Byte)
            /\ offset' \in [1 .. MaxReplies -> 0 .. FileLen]
        BY <2>3, PieceOfFile DEF Queued
      <4> HIDE DEF piece
      <4> QED  BY <4>1, ConcatProperties
    <3> QED  BY <2>0, <2>3, <3>1 DEF SendsFile, Queued, BufferCoversQueue
  <2>4. CASE SentFile
    BY <2>0, <2>4 DEF SentFile, Queued
  <2> QED  BY <1>2, <2>1, <2>2, <2>3, <2>4, DoOnceSplits
<1>3. CASE OnWrite \/ OnRead
  BY <1>3 DEF OnWrite, OnRead, Queued, BufferCoversQueue
<1>4. CASE Finished
  BY <1>4 DEF Finished, Queued, BufferCoversQueue
<1>5. CASE Drain
  BY <1>5, Sizes DEF Drain, Queued, BufferCoversQueue
<1>6. CASE UNCHANGED vars
  BY <1>6 DEF vars, Queued, BufferCoversQueue
<1> QED  BY <1>1, <1>2, <1>3, <1>4, <1>5, <1>6 DEF Next, Loop

LEMMA QueuedAlways == Spec => []Queued
BY InitQueued, NextQueued, PTL DEF Spec

\* At any time the tasks of a write loop ask for exactly the bytes of its
\* buffer, however many replies are queued and wherever sends were cut.
THEOREM BufferCovered == Spec => []BufferCoversQueue
<1>1. Queued => BufferCoversQueue
  BY DEF Queued
<1> QED  BY <1>1, QueuedAlways, PTL

-----------------------------------------------------------------------------
(* The bytes of the files. *)

\* The same for all files, provided or not.
FilesWhole == \A r \in 1 .. MaxReplies : Kept(sent, FileOf(r)) = Bytes(r, "file", offset[r])

LEMMA NextFilesWhole == Queued /\ FilesWhole /\ [Next]_vars => FilesWhole'
<1> SUFFICES ASSUME Queued, FilesWhole, [Next]_vars PROVE FilesWhole'
  OBVIOUS
<1>0. sent \in Seq(Byte) /\ MaxReplies \in Nat /\ 1 .. MaxReplies \subseteq Nat
  BY Sizes DEF Queued
<1>1. ASSUME UNCHANGED <<sent, offset>> PROVE FilesWhole'
  BY <1>1 DEF FilesWhole
<1>2. ASSUME NEW r, Sends(r) PROVE FilesWhole'
  <2> DEFINE a == SubSeq(buffer, 1, r)
  <2>1. a \in Seq(Buffers) /\ a \in Seq(Byte) /\ sent' = sent \o a /\ offset' = offset
    BY <1>2, PieceOfBuffer DEF Sends
  <2> HIDE DEF a
  <2>2. ASSUME NEW s \in 1 .. MaxReplies PROVE Kept(sent', FileOf(s)) = Bytes(s, "file", offset'[s])
    <3>1. Kept(a, FileOf(s)) = <<>>
      BY <1>0, <2>1, FileIsNotBuffered, KeptNothing
    <3>2. Kept(sent', FileOf(s)) = Kept(sent, FileOf(s)) \o <<>>
      <4>1. Kept(sent \o a, FileOf(s)) = Kept(sent, FileOf(s)) \o Kept(a, FileOf(s))
        BY <1>0, <2>1, KeptOfStream
      <4> QED  BY <2>1, <3>1, <4>1
    <3>3. Kept(sent, FileOf(s)) \o <<>> = Kept(sent, FileOf(s))
      BY <1>0, KeptTyped, ConcatEmptySeq
    <3> QED  BY <2>1, <3>2, <3>3 DEF FilesWhole
  <2> QED  BY <2>2 DEF FilesWhole
<1>3. ASSUME NEW r \in 1 .. MaxReplies, NEW done, SendsFile(r, done) PROVE FilesWhole'
  <2> DEFINE piece == SubSeq(Bytes(r, "file", FileLen), offset[r] + 1, done)
  <2>1. /\ piece \in Seq(FileOf(r)) /\ piece \in Seq(Byte) /\ sent' = sent \o piece
        /\ Bytes(r, "file", offset[r]) \o piece = Bytes(r, "file", done)
    BY <1>3, PieceOfFile
  <2>2. r \in Nat /\ offset' = [offset EXCEPT ![r] = done]
    BY <1>0, <1>3 DEF SendsFile
  <2> HIDE DEF piece
  <2>3. ASSUME NEW s \in 1 .. MaxReplies PROVE Kept(sent', FileOf(s)) = Bytes(s, "file", offset'[s])
    <3>1. Kept(sent', FileOf(s)) = Kept(sent, FileOf(s)) \o Kept(piece, FileOf(s))
      BY <1>0, <2>1, KeptOfStream
    <3>2. Kept(sent, FileOf(s)) = Bytes(s, "file", offset[s])
      BY DEF FilesWhole
    <3>3. CASE s = r
      <4>1. Kept(piece, FileOf(r)) = piece
        BY <2>1, KeptAll
      <4>2. offset'[r] = done
        BY <1>3, <2>2 DEF Queued
      <4> QED  BY <2>1, <3>1, <3>2, <3>3, <4>1, <4>2
    <3>4. CASE s # r
      <4>1. Kept(piece, FileOf(s)) = <<>>
        <5>1. \A b \in FileOf(r) : b \notin FileOf(s)
          BY <1>0, <2>2, <3>4, FileIsNotBuffered
        <5> QED  BY <2>1, <5>1, KeptNothing
      <4>2. offset'[s] = offset[s]
        BY <1>3, <2>2, <3>4 DEF Queued
      <4>3. Kept(sent, FileOf(s)) \o <<>> = Kept(sent, FileOf(s))
        BY <1>0, KeptTyped, ConcatEmptySeq
      <4> QED  BY <3>1, <3>2, <4>1, <4>2, <4>3
    <3> QED  BY <3>3, <3>4
  <2> QED  BY <2>3 DEF FilesWhole
<1>4. CASE DoOnce
  BY <1>1, <1>2, <1>3, <1>4, DoOnceSplits DEF Sent, SentFile
<1>5. [Next]_vars => DoOnce \/ UNCHANGED <<sent, offset>>
  BY DEF Next, Loop, Provide, OnRead, OnWrite, Finished, Drain, vars
<1> QED  BY <1>1, <1>4, <1>5

LEMMA FilesWholeAlways == Spec => []FilesWhole
<1>1. Init => FilesWhole
  <2> SUFFICES ASSUME Init PROVE FilesWhole
    OBVIOUS
  <2>1. ASSUME NEW r \in 1 .. MaxReplies PROVE Kept(sent, FileOf(r)) = Bytes(r, "file", offset[r])
    <3>1. sent = <<>> /\ offset[r] = 0
      BY DEF Init
    <3>2. Bytes(r, "file", 0) = <<>>
      BY DEF Bytes
    <3> QED  BY <3>1, <3>2, NothingKept
  <2> QED  BY <2>1 DEF FilesWhole
<1> QED  BY <1>1, NextFilesWhole, QueuedAlways, PTL DEF Spec

\* Each byte of a file that was sent was sent once and in the file's order, up
\* to where its reader stands, however often the rest of it was queued again.
THEOREM FilesOnce == Spec => []FilesSentOnce
<1>1. Queued /\ FilesWhole => FilesSentOnce
  BY Sizes DEF Queued, FilesWhole, FilesSentOnce
<1> QED  BY <1>1, QueuedAlways, FilesWholeAlways, PTL

-----------------------------------------------------------------------------
(* The order of the rest. *)

LEMMA ProvidedGrows ==
  ASSUME Queued, NEW kind \in Kinds, Provide(kind)
  PROVE  /\ Provided \in Seq(Byte)
         /\ Provided' = Provided \o Reply(Len(replies) + 1, kind)
<1> DEFINE n == Len(replies)
           all == [r \in 1 .. n |-> Reply(r, replies[r])]
<1>1. /\ replies \in Seq(Kinds) /\ n \in Nat /\ n + 1 \in 1 .. MaxReplies
      /\ replies' = Append(replies, kind)
  BY ProvideStep DEF Queued
<1>2. \A r \in 1 .. n : r \in 1 .. MaxReplies /\ replies[r] \in Kinds
  BY <1>1, Sizes
<1>3. \A r \in 1 .. n : Reply(r, replies[r]) \in Seq(Byte)
  BY <1>2, ReplyLessFile
<1>4. all \in Seq(Seq(Byte)) /\ Len(all) = n
  BY <1>1, <1>3
<1>5. Reply(n + 1, kind) \in Seq(Byte)
  BY <1>1, ReplyLessFile
<1>6. [r \in 1 .. Len(replies') |-> Reply(r, replies'[r])] = Append(all, Reply(n + 1, kind))
  <2> DEFINE new == [r \in 1 .. n + 1 |-> Reply(r, replies'[r])]
             x == Reply(n + 1, kind)
  <2>1. Len(replies') = n + 1 /\ replies'[n + 1] = kind /\ \A r \in 1 .. n : replies'[r] = replies[r]
    BY <1>1
  <2>2. \A r \in 1 .. n + 1 : new[r] = IF r = n + 1 THEN x ELSE all[r]
    BY <1>1, <2>1
  <2>3. new \in Seq(Seq(Byte)) /\ Len(new) = n + 1
    <3>1. \A r \in 1 .. n + 1 : Reply(r, replies'[r]) \in Seq(Byte)
      BY <1>1, <1>3, <1>5, <2>1
    <3> QED  BY <1>1, <3>1
  <2> HIDE DEF new, all, x
  <2>4. /\ Append(all, x) \in Seq(Seq(Byte)) /\ Len(Append(all, x)) = n + 1
        /\ \A r \in 1 .. n : Append(all, x)[r] = all[r]
        /\ Append(all, x)[n + 1] = x
    BY <1>4, <1>5, AppendProperties DEF x
  <2>5. \A r \in 1 .. n + 1 : new[r] = Append(all, x)[r]
    BY <1>1, <2>2, <2>4
  <2>6. new = Append(all, x)
    BY <2>3, <2>4, <2>5, SeqEqual
  <2> QED  BY <2>1, <2>6 DEF new, x
<1>7. Provided = FlattenSeq(all) /\ Provided' = FlattenSeq(Append(all, Reply(n + 1, kind)))
  <2> HIDE DEF all
  <2>1. Provided = FlattenSeq(all)
    BY DEF Provided, all
  <2>2. Provided' = FlattenSeq([r \in 1 .. Len(replies') |-> Reply(r, replies'[r])])
    BY DEF Provided
  <2> QED  BY <1>6, <2>1, <2>2
<1> HIDE DEF all
<1>8. FlattenSeq(all) \in Seq(Byte)
  BY <1>4, Flattened
<1>9. FlattenSeq(Append(all, Reply(n + 1, kind))) = FlattenSeq(all) \o Reply(n + 1, kind)
  BY <1>4, <1>5, FlattenedAppend
<1> QED  BY <1>7, <1>8, <1>9

\* out and left have the length of all, left is its end, and out has its bytes
\* in their places but for those in A.
InPlace(out, left, all, A) ==
  /\ out \in Seq(Byte) /\ left \in Seq(Byte) /\ all \in Seq(Byte)
  /\ Len(out) + Len(left) = Len(all)
  /\ \A j \in 1 .. Len(left) : left[j] = all[Len(out) + j]
  /\ \A i \in 1 .. Len(out) : i \notin A => out[i] = all[i]

Out == Kept(sent, Buffers)
Left == SubSeq(buffer, progress + 1, Len(buffer))
All == Kept(Provided, Buffers)

\* The same as BufferedInOrder states it.
InOrder(out, left, all, A) ==
  /\ Len(out) + Len(left) = Len(all)
  /\ left = SubSeq(all, Len(out) + 1, Len(all))
  /\ \A i \in DOMAIN out \ A : out[i] = all[i]

LEMMA OrderIsInPlace ==
  ASSUME NEW out \in Seq(Byte), NEW left \in Seq(Byte), NEW all \in Seq(Byte), NEW A
  PROVE  InOrder(out, left, all, A) <=> InPlace(out, left, all, A)
<1> DEFINE end == SubSeq(all, Len(out) + 1, Len(all))
<1>1. InOrder(out, left, all, A) <=> /\ Len(out) + Len(left) = Len(all) /\ left = end
                                     /\ \A i \in DOMAIN out \ A : out[i] = all[i]
  BY DEF InOrder
<1>2. DOMAIN out = 1 .. Len(out) /\ Len(out) \in Nat /\ Len(left) \in Nat /\ Len(all) \in Nat
  OBVIOUS
<1>3. ASSUME Len(out) + Len(left) = Len(all)
      PROVE  left = end <=> \A j \in 1 .. Len(left) : left[j] = all[Len(out) + j]
  <2>1. /\ end \in Seq(Byte) /\ Len(end) = Len(left)
        /\ \A j \in 1 .. Len(left) : end[j] = all[Len(out) + j]
    <3>1. Len(out) \in 0 .. Len(all) /\ Len(all) - Len(out) = Len(left)
      BY <1>2, <1>3
    <3> QED  BY <3>1, SuffixIs
  <2> HIDE DEF end
  <2> QED  BY <2>1, SeqEqual
<1> HIDE DEF end
<1> QED  BY <1>1, <1>2, <1>3 DEF InPlace

LEMMA JoinedIs ==
  ASSUME NEW s \in Seq(Byte), NEW t \in Seq(Byte)
  PROVE  /\ s \o t \in Seq(Byte)
         /\ Len(s \o t) = Len(s) + Len(t)
         /\ \A i \in 1 .. Len(s) + Len(t) :
              (s \o t)[i] = IF i <= Len(s) THEN s[i] ELSE t[i - Len(s)]
BY ConcatProperties

LEMMA Behind ==
  ASSUME NEW o \in Nat, NEW l \in Nat, NEW a \in Nat, o + l = a,
         NEW m \in Nat, NEW j \in 1 .. l + m, ~(j <= l)
  PROVE  /\ o + j \in 1 .. a + m /\ ~(o + j <= a)
         /\ (o + j) - a = j - l
OBVIOUS

\* What a reply brings is behind all there is.
LEMMA MoreInPlace ==
  ASSUME NEW out, NEW left, NEW all, NEW A, InPlace(out, left, all, A), NEW more \in Seq(Byte)
  PROVE  InPlace(out, left \o more, all \o more, A)
<1>1. /\ out \in Seq(Byte) /\ left \in Seq(Byte) /\ all \in Seq(Byte)
      /\ Len(out) \in Nat /\ Len(left) \in Nat /\ Len(all) \in Nat /\ Len(more) \in Nat
      /\ Len(out) + Len(left) = Len(all)
  BY DEF InPlace
<1> DEFINE l == left \o more
           a == all \o more
<1>2. /\ l \in Seq(Byte) /\ Len(l) = Len(left) + Len(more)
      /\ \A i \in 1 .. Len(left) + Len(more) :
           l[i] = IF i <= Len(left) THEN left[i] ELSE more[i - Len(left)]
  BY <1>1, ConcatProperties
<1>3. /\ a \in Seq(Byte) /\ Len(a) = Len(all) + Len(more)
      /\ \A i \in 1 .. Len(all) + Len(more) :
           a[i] = IF i <= Len(all) THEN all[i] ELSE more[i - Len(all)]
  BY <1>1, ConcatProperties
<1> HIDE DEF l, a
<1>4. ASSUME NEW j \in 1 .. Len(l) PROVE l[j] = a[Len(out) + j]
  <2>0. j \in 1 .. Len(left) + Len(more) /\ j \in Nat
    BY <1>1, <1>2
  <2>1. CASE j <= Len(left)
    <3>1. j \in 1 .. Len(left) /\ Len(out) + j \in 1 .. Len(all) + Len(more) /\ Len(out) + j <= Len(all)
      BY <1>1, <2>0, <2>1
    <3>2. l[j] = left[j] /\ a[Len(out) + j] = all[Len(out) + j]
      BY <1>2, <1>3, <2>0, <2>1, <3>1
    <3> QED  BY <3>1, <3>2 DEF InPlace
  <2>2. CASE ~(j <= Len(left))
    <3>1. /\ Len(out) + j \in 1 .. Len(all) + Len(more) /\ ~(Len(out) + j <= Len(all))
          /\ (Len(out) + j) - Len(all) = j - Len(left)
      <4>1. /\ Len(out) \in Nat /\ Len(left) \in Nat /\ Len(all) \in Nat /\ Len(more) \in Nat
            /\ Len(out) + Len(left) = Len(all)
        BY <1>1
      <4> QED  BY <2>0, <2>2, <4>1, Behind
    <3>2. l[j] = more[j - Len(left)]
      BY <1>2, <2>0, <2>2
    <3>3. a[Len(out) + j] = more[(Len(out) + j) - Len(all)]
      BY <1>3, <3>1
    <3> QED  BY <3>1, <3>2, <3>3
  <2> QED  BY <2>1, <2>2
<1>5. ASSUME NEW i \in 1 .. Len(out), i \notin A PROVE out[i] = a[i]
  <2>1. i \in 1 .. Len(all) + Len(more) /\ i <= Len(all)
    BY <1>1
  <2> QED  BY <1>3, <1>5, <2>1 DEF InPlace
<1>6. Len(out) + Len(l) = Len(a)
  <2>1. Len(l) = Len(left) + Len(more) /\ Len(a) = Len(all) + Len(more)
    BY <1>2, <1>3
  <2>2. /\ Len(out) \in Nat /\ Len(left) \in Nat /\ Len(all) \in Nat /\ Len(more) \in Nat
        /\ Len(out) + Len(left) = Len(all)
    BY <1>1
  <2> QED  BY <2>1, <2>2
<1>7. InPlace(out, l, a, A)
  BY <1>1, <1>2, <1>3, <1>4, <1>5, <1>6 DEF InPlace
<1> QED  BY <1>7 DEF l, a

\* What is sent next is in its place if it is the front of what is left, and is
\* excepted if it is not.
LEMMA SentInPlace ==
  ASSUME NEW out, NEW left, NEW all, NEW A, InPlace(out, left, all, A),
         NEW r \in 0 .. Len(left), NEW x \in Seq(Byte), Len(x) = r, NEW B,
         \/ x = SubSeq(left, 1, r) /\ B = {}
         \/ B = Len(out) + 1 .. Len(out) + r
  PROVE  InPlace(out \o x, SubSeq(left, r + 1, Len(left)), all, A \cup B)
<1>1. /\ out \in Seq(Byte) /\ left \in Seq(Byte) /\ all \in Seq(Byte)
      /\ Len(out) \in Nat /\ Len(left) \in Nat /\ Len(all) \in Nat /\ r \in Nat
      /\ Len(out) + Len(left) = Len(all) /\ r <= Len(left)
  BY DEF InPlace
<1> DEFINE o == out \o x
           l == SubSeq(left, r + 1, Len(left))
<1>2. /\ o \in Seq(Byte) /\ Len(o) = Len(out) + r
      /\ \A i \in 1 .. Len(out) + r : o[i] = IF i <= Len(out) THEN out[i] ELSE x[i - Len(out)]
  <2>1. /\ o \in Seq(Byte) /\ Len(o) = Len(out) + Len(x)
        /\ \A i \in 1 .. Len(out) + Len(x) :
             o[i] = IF i <= Len(out) THEN out[i] ELSE x[i - Len(out)]
    BY <1>1, JoinedIs
  <2> HIDE DEF o
  <2>2. Len(x) = r
    OBVIOUS
  <2> QED  BY <2>1, <2>2
<1>3. /\ l \in Seq(Byte) /\ Len(l) = Len(left) - r
      /\ \A i \in 1 .. Len(left) - r : l[i] = left[r + i]
  BY <1>1, SuffixIs
<1>4. x = SubSeq(left, 1, r) => \A i \in 1 .. r : x[i] = left[i]
  BY <1>1, PrefixIs
<1> HIDE DEF o, l
<1>5. ASSUME NEW j \in 1 .. Len(l) PROVE l[j] = all[Len(o) + j]
  <2>1. r + j \in 1 .. Len(left) /\ Len(o) + j = Len(out) + (r + j) /\ j \in 1 .. Len(left) - r
    BY <1>1, <1>2, <1>3
  <2> QED  BY <1>3, <2>1 DEF InPlace
<1>6. ASSUME NEW i \in 1 .. Len(o), i \notin A \cup B PROVE o[i] = all[i]
  <2>0. i \in 1 .. Len(out) + r /\ i \in Nat
    BY <1>1, <1>2
  <2>1. CASE i <= Len(out)
    <3>1. i \in 1 .. Len(out) /\ i \notin A /\ o[i] = out[i]
      BY <1>1, <1>2, <1>6, <2>0, <2>1
    <3> QED  BY <3>1 DEF InPlace
  <2>2. CASE ~(i <= Len(out))
    <3>1. i \in Len(out) + 1 .. Len(out) + r /\ i - Len(out) \in 1 .. r
      BY <1>1, <2>0, <2>2
    <3>2. x[i - Len(out)] = left[i - Len(out)]
      <4>1. i \notin B
        BY <1>6
      <4>2. x = SubSeq(left, 1, r)
        BY <3>1, <4>1
      <4> QED  BY <1>4, <3>1, <4>2
    <3>3. i - Len(out) \in 1 .. Len(left) /\ Len(out) + (i - Len(out)) = i
      BY <1>1, <3>1
    <3>4. left[i - Len(out)] = all[i]
      BY <3>3 DEF InPlace
    <3>5. o[i] = x[i - Len(out)]
      BY <1>2, <2>0, <2>2
    <3> QED  BY <3>2, <3>4, <3>5
  <2> QED  BY <2>1, <2>2
<1>7. Len(o) + Len(l) = Len(all)
  <2>1. Len(o) = Len(out) + r /\ Len(l) = Len(left) - r
    BY <1>2, <1>3
  <2> QED  BY <1>1, <2>1
<1>8. InPlace(o, l, all, A \cup B)
  BY <1>1, <1>2, <1>3, <1>5, <1>6, <1>7 DEF InPlace
<1> QED  BY <1>8 DEF o, l

\* Ends of ends.
LEMMA EndOfEnd ==
  ASSUME NEW s \in Seq(Byte), NEW n \in 0 .. Len(s), NEW r \in 0 .. Len(s) - n
  PROVE  LET e == SubSeq(s, n + 1, Len(s)) IN
         SubSeq(s, n + r + 1, Len(s)) = SubSeq(e, r + 1, Len(e))
<1> DEFINE e == SubSeq(s, n + 1, Len(s))
           f == SubSeq(s, (n + r) + 1, Len(s))
           g == SubSeq(e, r + 1, Len(e))
<1>1. Len(s) \in Nat /\ n \in Nat /\ r \in Nat /\ n + r \in 0 .. Len(s)
  OBVIOUS
<1>2. e \in Seq(Byte) /\ Len(e) = Len(s) - n /\ \A i \in 1 .. Len(s) - n : e[i] = s[n + i]
  BY SuffixIs
<1>3. /\ f \in Seq(Byte) /\ Len(f) = Len(s) - (n + r)
      /\ \A i \in 1 .. Len(s) - (n + r) : f[i] = s[(n + r) + i]
  BY <1>1, SuffixIs
<1> HIDE DEF e
<1>4. /\ g \in Seq(Byte) /\ Len(g) = Len(e) - r
      /\ \A i \in 1 .. Len(e) - r : g[i] = e[r + i]
  BY <1>1, <1>2, SuffixIs
<1> HIDE DEF f, g
<1>5. ASSUME NEW i \in 1 .. Len(f) PROVE f[i] = g[i]
  <2>1. /\ i \in 1 .. Len(s) - (n + r) /\ i \in 1 .. Len(e) - r
        /\ r + i \in 1 .. Len(s) - n /\ n + (r + i) = (n + r) + i
    BY <1>1, <1>2, <1>3
  <2> QED  BY <1>2, <1>3, <1>4, <2>1
<1>6. Len(f) = Len(g)
  BY <1>1, <1>2, <1>3, <1>4
<1>7. f = g
  BY <1>3, <1>4, <1>5, <1>6, SeqEqual
<1> QED  BY <1>1, <1>7 DEF f, g, e

LEMMA EndOfBoth ==
  ASSUME NEW s \in Seq(Byte), NEW t \in Seq(Byte), NEW n \in 0 .. Len(s)
  PROVE  SubSeq(s \o t, n + 1, Len(s \o t)) = SubSeq(s, n + 1, Len(s)) \o t
<1> DEFINE b == s \o t
           e == SubSeq(s, n + 1, Len(s))
           f == SubSeq(b, n + 1, Len(b))
           g == e \o t
<1>1. Len(s) \in Nat /\ n \in Nat /\ Len(t) \in Nat
  OBVIOUS
<1>2. /\ b \in Seq(Byte) /\ Len(b) = Len(s) + Len(t)
      /\ \A i \in 1 .. Len(s) + Len(t) : b[i] = IF i <= Len(s) THEN s[i] ELSE t[i - Len(s)]
  BY ConcatProperties
<1>3. e \in Seq(Byte) /\ Len(e) = Len(s) - n /\ \A i \in 1 .. Len(s) - n : e[i] = s[n + i]
  BY SuffixIs
<1> HIDE DEF b, e
<1>4. f \in Seq(Byte) /\ Len(f) = Len(b) - n /\ \A i \in 1 .. Len(b) - n : f[i] = b[n + i]
  <2>1. n \in 0 .. Len(b)
    BY <1>1, <1>2
  <2> QED  BY <1>2, <2>1, SuffixIs
<1>5. /\ g \in Seq(Byte) /\ Len(g) = Len(e) + Len(t)
      /\ \A i \in 1 .. Len(e) + Len(t) : g[i] = IF i <= Len(e) THEN e[i] ELSE t[i - Len(e)]
  BY <1>3, ConcatProperties
<1> HIDE DEF f, g
<1>6. ASSUME NEW i \in 1 .. Len(f) PROVE f[i] = g[i]
  <2>1. /\ i \in 1 .. Len(b) - n /\ n + i \in 1 .. Len(s) + Len(t) /\ i \in 1 .. Len(e) + Len(t)
        /\ (n + i <= Len(s)) <=> (i <= Len(e))
        /\ n + i - Len(s) = i - Len(e)
    BY <1>1, <1>2, <1>3, <1>4
  <2>2. CASE i <= Len(e)
    <3>1. i \in 1 .. Len(s) - n /\ n + i <= Len(s)
      BY <1>1, <1>3, <2>1, <2>2
    <3>2. f[i] = b[n + i] /\ b[n + i] = s[n + i]
      BY <1>2, <1>4, <2>1, <3>1
    <3>3. g[i] = e[i] /\ e[i] = s[n + i]
      BY <1>3, <1>5, <2>1, <2>2, <3>1
    <3> QED  BY <3>2, <3>3
  <2>3. CASE ~(i <= Len(e))
    <3>1. f[i] = b[n + i] /\ b[n + i] = t[n + i - Len(s)]
      BY <1>2, <1>4, <2>1, <2>3
    <3>2. g[i] = t[i - Len(e)]
      BY <1>5, <2>1, <2>3
    <3> QED  BY <2>1, <3>1, <3>2
  <2> QED  BY <2>2, <2>3
<1>7. Len(f) = Len(g)
  BY <1>1, <1>2, <1>3, <1>4, <1>5
<1>8. f = g
  BY <1>4, <1>5, <1>6, <1>7, SeqEqual
<1> QED  BY <1>8 DEF f, g, e, b

LEMMA NextInOrder ==
  Queued /\ BufferedInOrder /\ All \in Seq(Byte) /\ [Next]_vars
    => BufferedInOrder' /\ (All \in Seq(Byte))'
<1> SUFFICES ASSUME Queued, BufferedInOrder, All \in Seq(Byte), [Next]_vars
             PROVE  BufferedInOrder' /\ (All \in Seq(Byte))'
  OBVIOUS
<1>0. /\ sent \in Seq(Byte) /\ buffer \in Seq(Byte) /\ buffer \in Seq(Buffers)
      /\ Out \in Seq(Byte) /\ Left \in Seq(Byte) /\ progress \in 0 .. Len(buffer)
      /\ Len(buffer) \in Nat /\ Len(Left) = Len(buffer) - progress
  <2>1. sent \in Seq(Byte) /\ buffer \in Seq(Buffers) /\ progress \in 0 .. Len(buffer)
    BY DEF Queued
  <2>2. buffer \in Seq(Byte)
    BY <2>1, SeqMonotonic DEF Byte
  <2>3. Out \in Seq(Byte)
    BY <2>1, KeptTyped DEF Out
  <2>4. Left \in Seq(Byte) /\ Len(Left) = Len(buffer) - progress
    BY <2>1, <2>2, SuffixIs DEF Left
  <2> QED  BY <2>1, <2>2, <2>3, <2>4
<1>1. InPlace(Out, Left, All, again)
  <2>1. InOrder(Out, Left, All, again)
    BY DEF BufferedInOrder, InOrder, Out, Left, All
  <2> QED  BY <1>0, <2>1, OrderIsInPlace
\* It is enough that the new stream is in place.
<1>2. ASSUME InPlace(Out', Left', All', again')
      PROVE  BufferedInOrder' /\ (All \in Seq(Byte))'
  <2>1. Out' \in Seq(Byte) /\ Left' \in Seq(Byte) /\ All' \in Seq(Byte)
    BY <1>2 DEF InPlace
  <2>2. InOrder(Out', Left', All', again')
    BY <1>2, <2>1, OrderIsInPlace
  <2>3. BufferedInOrder'
    BY <2>2 DEF BufferedInOrder, InOrder, Out, Left, All
  <2> QED  BY <2>1, <2>3
<1>3. ASSUME NEW kind \in Kinds, Provide(kind) PROVE InPlace(Out', Left', All', again')
  <2> DEFINE r == Len(replies) + 1
             more == Buffered(r, kind)
  <2>1. r \in 1 .. MaxReplies /\ buffer' = buffer \o more /\ UNCHANGED <<sent, progress, again>>
    BY <1>3, ProvideStep
  <2>2. Provided \in Seq(Byte) /\ Provided' = Provided \o Reply(r, kind)
    BY <1>3, ProvidedGrows
  <2> HIDE DEF r
  <2>3. /\ Reply(r, kind) \in Seq(Byte) /\ Kept(Reply(r, kind), Buffers) = more
        /\ more \in Seq(Buffers)
    BY <2>1, TasksCover, ReplyLessFile
  <2> HIDE DEF more
  <2>4. more \in Seq(Byte)
    BY <2>3, SeqMonotonic DEF Byte
  <2>5. All' = All \o more
    <3>1. Kept(Provided \o Reply(r, kind), Buffers)
            = Kept(Provided, Buffers) \o Kept(Reply(r, kind), Buffers)
      BY <2>2, <2>3, KeptOfStream
    <3> QED  BY <2>2, <2>3, <3>1 DEF All
  <2>6. Left' = Left \o more
    BY <1>0, <2>1, <2>4, EndOfBoth DEF Left
  <2>7. Out' = Out /\ again' = again
    BY <2>1 DEF Out
  <2> QED  BY <1>1, <2>4, <2>5, <2>6, <2>7, MoreInPlace
<1>4. ASSUME NEW r, Sends(r), replies' = replies PROVE InPlace(Out', Left', All', again')
  <2> DEFINE a == SubSeq(buffer, 1, r)
             B == IF progress > 0 THEN Through + 1 .. Through + r ELSE {}
  <2>1. a \in Seq(Buffers) /\ a \in Seq(Byte) /\ Len(a) = r /\ sent' = sent \o a
    BY <1>4, PieceOfBuffer
  <2>2. /\ r \in 0 .. Len(Left) /\ r \in 0 .. Len(buffer) - progress
        /\ buffer' = buffer /\ progress' = progress + r /\ again' = again \cup B
    BY <1>0, <1>4 DEF Sends
  <2>3. Out' = Out \o a
    <3> HIDE DEF a
    <3>0. sent \in Seq(Byte) /\ a \in Seq(Byte)
      BY <1>0, <2>1
    <3>1. Kept(sent \o a, Buffers) = Kept(sent, Buffers) \o Kept(a, Buffers)
      BY <3>0, KeptOfStream
    <3>2. Kept(a, Buffers) = a
      BY <2>1, KeptAll
    <3> QED  BY <2>1, <3>1, <3>2 DEF Out
  <2>4. Left' = SubSeq(Left, r + 1, Len(Left))
    <3>1. Left' = SubSeq(buffer, progress + r + 1, Len(buffer))
      BY <2>2 DEF Left
    <3> QED  BY <1>0, <2>2, <3>1, EndOfEnd DEF Left
  <2>5. All' = All
    BY <1>4 DEF All, Provided
  <2>6. \/ a = SubSeq(Left, 1, r) /\ B = {}
        \/ B = Len(Out) + 1 .. Len(Out) + r
    <3>1. CASE progress > 0
      BY <3>1 DEF Through, Out
    <3>2. CASE ~(progress > 0)
      <4>1. progress = 0
        BY <1>0, <3>2
      <4>2. Left = buffer
        BY <1>0, <4>1, SubSeqFull DEF Left
      <4> QED  BY <3>2, <4>2
    <3> QED  BY <3>1, <3>2
  <2> HIDE DEF a, B
  <2> QED  BY <1>1, <2>1, <2>2, <2>3, <2>4, <2>5, <2>6, SentInPlace
<1>5. CASE Sent /\ replies' = replies
  <2>1. Out' = Out /\ All' = All /\ again' = again /\ buffer' = Left /\ progress' = 0
    BY <1>5 DEF Sent, Out, All, Left, Provided
  <2>2. Left' = Left
    <3>1. Left' = SubSeq(buffer', 1, Len(buffer'))
      BY <2>1 DEF Left
    <3> QED  BY <1>0, <2>1, <3>1, SubSeqFull
  <2> QED  BY <1>1, <1>2, <2>1, <2>2
<1>6. ASSUME NEW r \in 1 .. MaxReplies, NEW done, SendsFile(r, done), replies' = replies
      PROVE  InPlace(Out', Left', All', again')
  <2> DEFINE piece == SubSeq(Bytes(r, "file", FileLen), offset[r] + 1, done)
  <2>1. piece \in Seq(FileOf(r)) /\ piece \in Seq(Byte) /\ sent' = sent \o piece
    BY <1>6, PieceOfFile
  <2>2. r \in Nat
    BY Sizes
  <2> HIDE DEF piece
  <2>3. Kept(piece, Buffers) = <<>>
    BY <2>1, <2>2, FileIsNotBuffered, KeptNothing
  <2>4. Out' = Out
    <3>0. sent \in Seq(Byte) /\ piece \in Seq(Byte)
      BY <1>0, <2>1
    <3>1. Kept(sent \o piece, Buffers) = Kept(sent, Buffers) \o Kept(piece, Buffers)
      BY <3>0, KeptOfStream
    <3>2. Out \o <<>> = Out
      BY <1>0, ConcatEmptySeq
    <3> QED  BY <2>1, <2>3, <3>1, <3>2 DEF Out
  <2>5. Left' = Left /\ All' = All /\ again' = again
    BY <1>6 DEF SendsFile, Left, All, Provided
  <2> QED  BY <1>1, <2>4, <2>5
<1>7. ASSUME UNCHANGED <<replies, sent, buffer, progress, again>>
      PROVE  InPlace(Out', Left', All', again')
  BY <1>1, <1>7 DEF Out, Left, All, Provided
<1>8. CASE DoOnce
  <2>1. CASE SentFile
    <3>1. UNCHANGED <<replies, sent, buffer, progress, again>>
      BY <1>8, <2>1, DoOnceSplits DEF SentFile
    <3> QED  BY <1>7, <1>2, <3>1
  <2>2. replies' = replies
    BY <1>8, DoOnceSplits
  <2>3. ASSUME NEW r, Sends(r) PROVE BufferedInOrder' /\ (All \in Seq(Byte))'
    BY <1>4, <1>2, <2>2, <2>3
  <2>4. CASE Sent
    BY <1>5, <1>2, <2>2, <2>4
  <2>5. ASSUME NEW r \in 1 .. MaxReplies, NEW done, SendsFile(r, done)
        PROVE  BufferedInOrder' /\ (All \in Seq(Byte))'
    BY <1>6, <1>2, <2>2, <2>5
  <2> QED  BY <1>8, <2>1, <2>3, <2>4, <2>5, DoOnceSplits
<1>9. [Next]_vars => \/ \E kind \in Kinds : Provide(kind)
                     \/ DoOnce \/ UNCHANGED <<replies, sent, buffer, progress, again>>
  BY DEF Next, Loop, OnRead, OnWrite, Finished, Drain, vars
<1> QED  BY <1>3, <1>7, <1>8, <1>9, <1>2

LEMMA InitInOrder == Init => BufferedInOrder /\ All \in Seq(Byte)
<1> SUFFICES ASSUME Init PROVE BufferedInOrder /\ All \in Seq(Byte)
  OBVIOUS
<1>1. sent = <<>> /\ buffer = <<>> /\ replies = <<>> /\ progress = 0
  BY DEF Init
<1>2. Provided = <<>>
  <2> DEFINE all == [r \in 1 .. Len(replies) |-> Reply(r, replies[r])]
  <2>1. Len(all) = 0 /\ all = <<>>
    BY <1>1
  <2> HIDE DEF all
  <2>2. FlattenSeq(all) = <<>>
    BY <2>1 DEF FlattenSeq
  <2> QED  BY <2>2 DEF Provided, all
<1>3. Out = <<>> /\ All = <<>> /\ Left = <<>>
  BY <1>1, <1>2, NothingKept DEF Out, All, Left
<1>4. InOrder(Out, Left, All, again)
  BY <1>3 DEF InOrder
<1>5. BufferedInOrder
  BY <1>4 DEF BufferedInOrder, InOrder, Out, Left, All
<1>6. All \in Seq(Byte)
  BY <1>3
<1> QED  BY <1>5, <1>6

\* Leaving the files aside, each byte a client gets is the one the replies have
\* in its place, none lost, wherever sends were cut, but for what the second
\* and later sends of one task took while the client drained; and what is left
\* in the buffer is the end of the replies.
THEOREM RestInOrder == Spec => []BufferedInOrder
<1>1. Queued /\ (BufferedInOrder /\ All \in Seq(Byte)) /\ [Next]_vars
        => (BufferedInOrder /\ All \in Seq(Byte))'
  BY NextInOrder
<1> QED  BY <1>1, InitInOrder, QueuedAlways, PTL DEF Spec

\* Without pages nothing but the buffer is sent, and but for those places the
\* client reads the replies themselves: it is the files that break the stream.
THEOREM OrderWithoutFiles ==
  ASSUME "page" \notin Kinds
  PROVE  Spec => [](\A i \in DOMAIN sent \ again : sent[i] = Provided[i])
<1> DEFINE NoFiles == /\ \A i \in 1 .. Len(q) : q[i].act = "send"
                      /\ sent \in Seq(Buffers) /\ Provided \in Seq(Buffers)
<1>1. Init => NoFiles
  <2> SUFFICES ASSUME Init PROVE NoFiles
    OBVIOUS
  <2>1. q = <<>> /\ sent = <<>> /\ replies = <<>>
    BY DEF Init
  <2>2. Provided = <<>>
    <3> DEFINE all == [r \in 1 .. Len(replies) |-> Reply(r, replies[r])]
    <3>1. Len(all) = 0 /\ all = <<>>
      BY <2>1
    <3> HIDE DEF all
    <3>2. FlattenSeq(all) = <<>>
      BY <3>1 DEF FlattenSeq
    <3> QED  BY <3>2 DEF Provided, all
  <2> QED  BY <2>1, <2>2
<1>2. Queued /\ NoFiles /\ [Next]_vars => NoFiles'
  <2> SUFFICES ASSUME Queued, NoFiles, [Next]_vars PROVE NoFiles'
    OBVIOUS
  <2>0. q \in Seq(Task) /\ Len(q) \in Nat
    BY DEF Queued
  <2>1. ASSUME NEW kind \in Kinds, Provide(kind) PROVE NoFiles'
    <3> DEFINE r == Len(replies) + 1
    <3>1. r \in 1 .. MaxReplies /\ q' = q \o Tasks(r, kind) /\ sent' = sent
      BY <2>1, ProvideStep
    <3>2. Provided' = Provided \o Reply(r, kind)
      BY <2>1, ProvidedGrows
    <3> HIDE DEF r
    <3>3. kind \in {"error", "gateway"}
      BY Sizes
    <3>4. Reply(r, kind) = Buffered(r, kind)
      BY <3>3 DEF Reply
    <3>5. Buffered(r, kind) \in Seq(Buffers) /\ Tasks(r, kind) \in Seq(Task)
      BY <3>1, TasksCover
    <3>6. Provided' \in Seq(Buffers)
      BY <3>2, <3>4, <3>5, ConcatProperties
    <3>7. \A i \in 1 .. Len(Tasks(r, kind)) : Tasks(r, kind)[i].act = "send"
      <4>1. CASE kind = "error"
        <5>1. Tasks(r, kind) = <<Send(ErrorLen)>>
          BY <4>1, Zenon DEF Tasks
        <5> QED  BY <5>1 DEF Send
      <4>2. CASE kind = "gateway"
        <5>1. Tasks(r, kind) = <<Send(HeadLen), Send(ChunkLen)>>
          BY <4>2, Zenon DEF Tasks
        <5> QED  BY <5>1 DEF Send
      <4> QED  BY <3>3, <4>1, <4>2
    <3>8. \A i \in 1 .. Len(q') : q'[i].act = "send"
      <4> DEFINE t == Tasks(r, kind)
      <4>1. t \in Seq(Task) /\ Len(t) \in Nat /\ \A i \in 1 .. Len(t) : t[i].act = "send"
        BY <3>5, <3>7
      <4> HIDE DEF t
      <4>2. /\ Len(q \o t) = Len(q) + Len(t)
            /\ \A i \in 1 .. Len(q) + Len(t) :
                 (q \o t)[i] = IF i <= Len(q) THEN q[i] ELSE t[i - Len(q)]
        BY <2>0, <4>1, ConcatProperties
      <4>3. ASSUME NEW i \in 1 .. Len(q) + Len(t) PROVE (q \o t)[i].act = "send"
        <5>1. CASE i <= Len(q)
          BY <2>0, <4>2, <5>1
        <5>2. CASE ~(i <= Len(q))
          <6>1. i - Len(q) \in 1 .. Len(t)
            BY <2>0, <4>1, <5>2
          <6> QED  BY <4>1, <4>2, <5>2, <6>1
        <5> QED  BY <5>1, <5>2
      <4> QED  BY <3>1, <4>2, <4>3 DEF t
    <3> QED  BY <3>1, <3>6, <3>8
  <2>2. CASE DoOnce
    <3>0. q # <<>> /\ replies' = replies
      BY <2>2, DoOnceSplits
    <3>1. Head(q) = q[1] /\ 1 \in 1 .. Len(q)
      BY <2>0, <3>0
    <3>2. Head(q).act = "send" /\ ActSend(Head(q).length)
      BY <2>2, <3>1 DEF DoOnce
    <3>3. CASE SendOnce(Head(q).length)
      <4>1. PICK r : Sends(r)
        BY <3>0, <3>2, <3>3, SendOnceStep
      <4>2. sent' = sent \o SubSeq(buffer, 1, r) /\ SubSeq(buffer, 1, r) \in Seq(Buffers)
        BY <4>1, PieceOfBuffer
      <4>3. sent' \in Seq(Buffers)
        BY <4>2, ConcatProperties
      <4> QED  BY <3>0, <4>1, <4>3 DEF Sends, Provided
    <3>4. ASSUME SendEnd(Head(q).length)
          PROVE  /\ sent' = sent
                 /\ \/ q' = Tail(q)
                    \/ \E n : q' = <<Send(n)>> \o Tail(q)
      BY <3>4 DEF SendEnd
    <3>5. /\ Tail(q) \in Seq(Task) /\ Len(Tail(q)) = Len(q) - 1
          /\ \A i \in 1 .. Len(Tail(q)) : Tail(q)[i] = q[i + 1]
      BY <2>0, <3>0, HeadTailProperties
    <3>6. \A i \in 1 .. Len(Tail(q)) : Tail(q)[i].act = "send"
      BY <2>0, <3>5
    <3>7. ASSUME NEW n, q' = <<Send(n)>> \o Tail(q)
          PROVE  \A i \in 1 .. Len(q') : q'[i].act = "send"
      <4> DEFINE t == Tail(q)
                 S == Task \cup {Send(n)}
      <4>1. t \in Seq(S) /\ <<Send(n)>> \in Seq(S)
        BY <3>5
      <4>2. Len(t) \in Nat /\ \A i \in 1 .. Len(t) : t[i].act = "send"
        BY <3>5, <3>6
      <4>3. Len(<<Send(n)>>) = 1 /\ <<Send(n)>>[1].act = "send"
        BY DEF Send
      <4> HIDE DEF t, S
      <4> DEFINE front == <<Send(n)>>
      <4>4. front \in Seq(S) /\ Len(front) = 1 /\ front[1].act = "send" /\ q' = front \o t
        BY <3>7, <4>1, <4>3 DEF t
      <4> HIDE DEF front
      <4>5. /\ Len(q') = 1 + Len(t)
            /\ \A i \in 1 .. 1 + Len(t) : q'[i] = IF i <= 1 THEN front[i] ELSE t[i - 1]
        <5>1. front \in Seq(S) /\ t \in Seq(S)
          BY <4>1, <4>4
        <5>2. /\ Len(front \o t) = Len(front) + Len(t)
              /\ \A i \in 1 .. Len(front) + Len(t) :
                   (front \o t)[i] = IF i <= Len(front) THEN front[i] ELSE t[i - Len(front)]
          BY <5>1, ConcatProperties
        <5> QED  BY <4>2, <4>4, <5>2
      <4>6. ASSUME NEW i \in 1 .. 1 + Len(t) PROVE q'[i].act = "send"
        <5>1. i = 1 \/ i - 1 \in 1 .. Len(t)
          BY <4>2
        <5> QED  BY <4>2, <4>4, <4>5, <5>1
      <4> QED  BY <4>5, <4>6
    <3>8. ASSUME SendEnd(Head(q).length) PROVE \A i \in 1 .. Len(q') : q'[i].act = "send"
      BY <3>4, <3>6, <3>7, <3>8
    <3>9. Provided' = Provided
      BY <3>0 DEF Provided
    <3> QED  BY <3>2, <3>3, <3>4, <3>8, <3>9 DEF ActSend
  <2>3. ASSUME UNCHANGED <<q, sent, replies>> PROVE NoFiles'
    BY <2>3 DEF Provided
  <2>4. [Next]_vars => \/ \E kind \in Kinds : Provide(kind)
                       \/ DoOnce \/ UNCHANGED <<q, sent, replies>>
    BY DEF Next, Loop, OnRead, OnWrite, Finished, Drain, vars
  <2> QED  BY <2>1, <2>2, <2>3, <2>4
<1>3. Queued /\ NoFiles /\ BufferedInOrder => \A i \in DOMAIN sent \ again : sent[i] = Provided[i]
  <2> SUFFICES ASSUME Queued, NoFiles, BufferedInOrder
               PROVE  \A i \in DOMAIN sent \ again : sent[i] = Provided[i]
    OBVIOUS
  <2>1. Kept(sent, Buffers) = sent /\ Kept(Provided, Buffers) = Provided
    BY KeptAll
  <2> QED  BY <2>1 DEF BufferedInOrder
<1>4. Spec => []BufferedInOrder
  BY RestInOrder
<1> HIDE DEF NoFiles
<1> QED  BY <1>1, <1>2, <1>3, <1>4, QueuedAlways, PTL DEF Spec
=============================================================================
