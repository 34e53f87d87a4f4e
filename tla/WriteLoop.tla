------------------------------ MODULE WriteLoop ------------------------------
(***************************************************************************)
(* The WriteLoop of one user (net/write_loop.cc, net/write_loop.h): the    *)
(* byte buffer, the queue of send and sendfile tasks over it, and how the  *)
(* providers fill them (core/providers).  Bytes are named after the reply  *)
(* and the part of it they belong to, so that the stream the client gets   *)
(* can be compared with the replies.                                       *)
(*                                                                         *)
(* Each send and each sendfile is a step of its own, so that the client    *)
(* may drain between two of them.  Whether the user is armed for EPOLLOUT  *)
(* is part of the state: UserManager::adapt arms it after the user's own   *)
(* events, and nobody does after FastcgiManager::poll.                     *)
(*                                                                         *)
(* The buffer is the sequence of its readable bytes: its positions, and    *)
(* what happens when it is full, are left to the buffer itself.            *)
(***************************************************************************)
EXTENDS Integers, Sequences, SequencesExt, Streams

CONSTANTS
  Kinds,        \* the replies there may be
  MaxReplies,   \* bound on the replies provided
  HeadLen, FileLen, CrlfLen, ErrorLen, ChunkLen,   \* bytes of a reply's parts
  Window        \* bytes the kernel buffers for the client

ASSUME SizeAssumption ==
  /\ Kinds \subseteq {"page", "error", "gateway"}
  /\ {MaxReplies, HeadLen, CrlfLen, ErrorLen, ChunkLen, Window} \subseteq Nat \ {0}
  /\ FileLen \in Nat

VARIABLES
  replies,   \* the kinds of the replies provided so far, in order
  buffer,    \* the readable bytes of buffer_
  q,         \* q_, the tasks
  offset,    \* FileReader::offset_ of each reply's file
  running,   \* inside doAll, called for an event of the user or by the poll
  progress,  \* what the sends of the running actSend have taken so far
  armed,     \* whether epoll watches the user for EPOLLOUT
  sent,      \* the bytes the kernel took
  room,      \* the bytes it takes before the client drains some
  again      \* history: the places in the stream of the bytes, other than a
             \* file's, that a second or later send of an actSend took

vars == <<replies, buffer, q, offset, running, progress, armed, sent, room, again>>

-----------------------------------------------------------------------------
Bytes(r, part, n) == [i \in 1 .. n |-> <<r, part, i>>]
Send(n) == [act |-> "send", length |-> n]
Sendfile(r) == [act |-> "sendfile", reply |-> r]

\* What a reply puts into the buffer, and the tasks it queues: StaticProvider
\* for a page, provideError, and FastcgiProvider for a gateway's reply.
Buffered(r, kind) ==
  CASE kind = "page"    -> Bytes(r, "head", HeadLen) \o Bytes(r, "crlf", CrlfLen)
    [] kind = "error"   -> Bytes(r, "error", ErrorLen)
    [] kind = "gateway" -> Bytes(r, "head", HeadLen) \o Bytes(r, "chunk", ChunkLen)

Tasks(r, kind) ==
  CASE kind = "page"    -> <<Send(HeadLen), Sendfile(r), Send(CrlfLen)>>
    [] kind = "error"   -> <<Send(ErrorLen)>>
    [] kind = "gateway" -> <<Send(HeadLen), Send(ChunkLen)>>

\* A reply as its client should read it.
Reply(r, kind) ==
  IF kind = "page"
  THEN Bytes(r, "head", HeadLen) \o Bytes(r, "file", FileLen)
         \o Bytes(r, "crlf", CrlfLen)
  ELSE Buffered(r, kind)

Init ==
  /\ replies = <<>>
  /\ buffer = <<>>
  /\ q = <<>>
  /\ offset = [r \in 1 .. MaxReplies |-> 0]
  /\ running = "idle"
  /\ progress = 0
  /\ armed = FALSE
  /\ sent = <<>>
  /\ room = Window
  /\ again = {}

-----------------------------------------------------------------------------
\* A provider queues a reply and the loop runs at once: doAll ends onRead and
\* doForward ends FastcgiProvider::provide.
Provide(kind) ==
  /\ running = "idle" /\ Len(replies) < MaxReplies
  /\ LET r == Len(replies) + 1
     IN  /\ replies' = Append(replies, kind)
         /\ buffer' = buffer \o Buffered(r, kind)
         /\ q' = q \o Tasks(r, kind)
  /\ running' = IF kind = "gateway" THEN "poll" ELSE "event"
  /\ UNCHANGED <<offset, progress, armed, sent, room, again>>

\* User::onRead when it provides nothing: its doAll runs all the same.
OnRead ==
  /\ running = "idle"
  /\ running' = "event"
  /\ UNCHANGED <<replies, buffer, q, offset, progress, armed, sent, room, again>>

\* User::onWrite, on the EPOLLOUT the user is armed for.
OnWrite ==
  /\ running = "idle" /\ armed /\ room > 0
  /\ running' = "event"
  /\ UNCHANGED <<replies, buffer, q, offset, progress, armed, sent, room, again>>

\* Slip: type() is ETEOReadable whatever is left.
StopsUnarmed ==
  /\ running' = "idle"
  /\ armed' = (armed /\ running = "poll")

\* doAll returns.  After an event of the user UserManager::adapt arms what
\* User::type asks for; FastcgiManager::poll arms nothing for the user.
Stops ==
  /\ running' = "idle"
  /\ armed' = IF running = "event" THEN q' # <<>> ELSE armed

\* The task is done, and doAll goes on, or it is not.
GoesOn(done) == IF done THEN UNCHANGED <<running, armed>> ELSE Stops

\* doOnce returns false on an empty queue.
Finished ==
  /\ running # "idle" /\ q = <<>>
  /\ UNCHANGED <<replies, buffer, q, offset, progress, sent, room, again>>
  /\ Stops

Least(a, b) == IF a < b THEN a ELSE b

\* The bytes that pass through the buffer, those that do not, and how many of
\* the former the kernel has taken.
Buffers == Nat \X {"head", "crlf", "error", "chunk"} \X Nat
FileOf(r) == {r} \X {"file"} \X Nat
Through == Len(Kept(sent, Buffers))

\* One send of actSend: it starts at readptr(), which does not move before
\* the last one, whatever the sends before it took.
SendOnce(n) ==
  LET r == Least(room, n - progress)
  IN  /\ r > 0
      /\ sent' = sent \o SubSeq(buffer, 1, r)
      /\ again' = again \cup (IF progress > 0 THEN Through + 1 .. Through + r
                                             ELSE {})
      /\ progress' = progress + r
      /\ room' = room - r
      /\ UNCHANGED <<buffer, q, offset, running, armed>>

\* Slip: the bytes of an unfinished task stay in the buffer.
SendEndReadsLate(n) ==
  /\ room = 0 \/ progress = n
  /\ buffer' = IF progress < n THEN buffer ELSE SubSeq(buffer, n + 1, Len(buffer))
  /\ q' = IF progress < n THEN <<Send(n - progress)>> \o Tail(q) ELSE Tail(q)
  /\ progress' = 0
  /\ GoesOn(progress = n)
  /\ UNCHANGED <<offset, sent, room, again>>

\* Slip: the rest of a partial send is not queued again.
SendEndDropsRest(n) ==
  /\ room = 0 \/ progress = n
  /\ buffer' = SubSeq(buffer, progress + 1, Len(buffer))
  /\ q' = Tail(q)
  /\ progress' = 0
  /\ GoesOn(progress = n)
  /\ UNCHANGED <<offset, sent, room, again>>

\* The send that takes nothing ends actSend: the bytes taken leave the buffer
\* and the rest goes back to the front of the queue.
SendEnd(n) ==
  /\ room = 0 \/ progress = n
  /\ buffer' = SubSeq(buffer, progress + 1, Len(buffer))
  /\ q' = IF progress < n THEN <<Send(n - progress)>> \o Tail(q) ELSE Tail(q)
  /\ progress' = 0
  /\ GoesOn(progress = n)
  /\ UNCHANGED <<offset, sent, room, again>>

\* Slip: sendfile is not given the address of offset_.
SendfileRestarts(r) ==
  LET n == Least(room, FileLen - offset[r])
  IN  /\ n > 0
      /\ sent' = sent \o SubSeq(Bytes(r, "file", FileLen), 1, n)
      /\ offset' = [offset EXCEPT ![r] = @ + n]
      /\ room' = room - n
      /\ UNCHANGED <<buffer, q, running, progress, armed, again>>

\* One sendfile of actSendfile: the kernel advances offset_.
SendfileOnce(r) ==
  LET n == Least(room, FileLen - offset[r])
  IN  /\ n > 0
      /\ sent' = sent \o SubSeq(Bytes(r, "file", FileLen), offset[r] + 1, offset[r] + n)
      /\ offset' = [offset EXCEPT ![r] = @ + n]
      /\ room' = room - n
      /\ UNCHANGED <<buffer, q, running, progress, armed, again>>

\* The sendfile that takes nothing ends actSendfile: insertSendfile puts an
\* unfinished file at the back of the queue.
SendfileEnd(r) ==
  /\ room = 0 \/ offset[r] = FileLen
  /\ q' = IF offset[r] < FileLen THEN Append(Tail(q), Sendfile(r)) ELSE Tail(q)
  /\ GoesOn(offset[r] = FileLen)
  /\ UNCHANGED <<buffer, offset, progress, sent, room, again>>

ActSend(n) == SendOnce(n) \/ SendEnd(n)
ActSendfile(r) == SendfileOnce(r) \/ SendfileEnd(r)

\* doOnce: the task at the front is run; doAll goes on while it is done.
DoOnce ==
  /\ running # "idle" /\ q # <<>>
  /\ \/ Head(q).act = "send" /\ ActSend(Head(q).length)
     \/ Head(q).act = "sendfile" /\ ActSendfile(Head(q).reply)
  /\ UNCHANGED replies

\* The client reads what the kernel holds for it.
Drain ==
  /\ room < Window
  /\ room' = Window
  /\ UNCHANGED <<replies, buffer, q, offset, running, progress, armed, sent, again>>

Loop == OnWrite \/ Finished \/ DoOnce

Next == (\E kind \in Kinds : Provide(kind)) \/ OnRead \/ Loop \/ Drain

Spec == Init /\ [][Next]_vars

\* doAll runs, epoll reports what is armed, and the client keeps reading.
\* Nobody is obliged to provide or to send anything.
FairSpec == Spec /\ WF_vars(Loop) /\ WF_vars(Drain)

-----------------------------------------------------------------------------
Amount(task) == IF task.act = "send" THEN task.length ELSE 0

\* The bytes the tasks of a queue ask the buffer for.
Asked(tasks) ==
  LET sum[i \in 0 .. Len(tasks)] == IF i = 0 THEN 0 ELSE sum[i - 1] + Amount(tasks[i])
  IN  sum[Len(tasks)]

\* The send tasks ask for exactly the bytes of the buffer: actSend never reads
\* past what was written, and no written byte is without a task.
BufferCoversQueue == Len(buffer) = Asked(q)

Provided == FlattenSeq([r \in 1 .. Len(replies) |-> Reply(r, replies[r])])

\* Although an unfinished file moves to the back of the queue, again and
\* again, each of its bytes is sent once and in the file's order.
FilesSentOnce ==
  \A r \in DOMAIN replies : Kept(sent, FileOf(r)) = Bytes(r, "file", offset[r])

\* Leaving the files aside, the bytes sent and the bytes left in the buffer are
\* as many as the replies have, the bytes left are the last of the replies, and
\* each byte sent is the one the replies have in its place, wherever sends were
\* cut.  A client that drains between two sends of one actSend gets the first
\* bytes of the task once more: only the places of those second sends (again)
\* are wrong, and the stream goes on in its place after the task.
BufferedInOrder ==
  LET out  == Kept(sent, Buffers)
      all  == Kept(Provided, Buffers)
      left == SubSeq(buffer, progress + 1, Len(buffer))
  IN  /\ Len(out) + Len(left) = Len(all)
      /\ left = SubSeq(all, Len(out) + 1, Len(all))
      /\ \A i \in DOMAIN out \ again : out[i] = all[i]

\* The client reads the replies in order, each one whole before the next.
StreamInOrder == IsPrefix(sent, Provided)

\* What a gateway's reply, the last one, left behind for a user whose EPOLLOUT
\* nobody watches: it stays until the client sends something or the gateway
\* answers again.
LeftUnarmed ==
  running = "idle" /\ ~armed /\ q # <<>> /\ Last(replies) = "gateway"

\* A client that keeps reading gets everything: all of what it is armed for,
\* with all that the gateway adds to it, and anything but what a gateway's
\* reply leaves behind.
Flushed ==
  LET empty == q = <<>> /\ buffer = <<>>
  IN  /\ (armed /\ q # <<>>) ~> empty
      /\ (q # <<>> \/ buffer # <<>>) ~> (empty \/ LeftUnarmed)
=============================================================================
