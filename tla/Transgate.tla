------------------------------ MODULE Transgate ------------------------------
(***************************************************************************)
(* One server instance of transgate: the event loop (core/tg.cc), the      *)
(* connections it serves (core/user.cc, core/user_manager.cc), the gateway *)
(* requests in progress (core/fastcgi_manager.cc) and the part of the      *)
(* kernel they race with: the descriptor table and the one-shot epoll      *)
(* registrations (net/epoll.h, net/tcp_server.cc, net/tcp_socket.cc).      *)
(*                                                                         *)
(* What a request or a reply says is abstracted to the three outcomes of a *)
(* read the loop can tell apart, and a client's sends and reads are a      *)
(* bounded number of activities.  One send carries at most one request.    *)
(***************************************************************************)
EXTENDS Integers, FiniteSets

CONSTANTS
  Conn,         \* client connections, each opened once
  Fd,           \* the descriptors the process can still open
  Server,       \* the listening socket, never closed
  None,         \* no connection, no descriptor
  Gateway,      \* the other end of a connected gateway socket
  Refused,      \* that of one whose connect failed at once
  KeepTime,     \* server/keep_connection_time
  EpollEvents,  \* evloop/epoll_events
  BufferSize,   \* how many of a client's sends fit in its read buffer
  MaxActs,      \* bound on the sends and drains of a client
  Reads,        \* what the parser may make of the bytes read
  Faults        \* which failures of the code below the loop may happen

ASSUME ConstAssumption ==
  /\ None \notin Conn \cup Fd \cup {Server}
  /\ Gateway \notin Conn \cup {None}
  /\ Refused \notin Conn \cup {None, Gateway}
  /\ Server \notin Fd
  /\ KeepTime \in Nat
  /\ EpollEvents \in Nat \ {0}
  /\ BufferSize \in Nat
  /\ MaxActs \in Nat
  /\ Reads \subseteq {"part", "page", "fcgi"}
  /\ Faults \subseteq {"throw", "spin", "crash"}

\* RLIMIT_NOFILE.
ASSUME FdAssumption == IsFiniteSet(Fd)

VARIABLES
  client,     \* each client's side of its connection
  acts,       \* the activities each client has used up
  unread,     \* whether the kernel holds bytes of the client
  room,       \* whether the kernel takes more bytes for the client
  backlog,    \* connections waiting for accept4
  owner,      \* the kernel's descriptor table: who is at the other end
  interest,   \* armed epoll events; {} once one of them has been reported
  phase,      \* where the event loop stands
  batch,      \* the reported events that still have to be handled
  table,      \* UserManager::table_
  user,       \* the state of each User
  wfd,        \* WriteLoop::fd_, outlives the user inside a gateway request
  queued,     \* whether the WriteLoop has tasks left
  providing,  \* FastcgiManager::providing_map_: the requester's WriteLoop
  stage,      \* FastcgiProvider::stage_
  strays      \* <<c, d>>: bytes of c's WriteLoop were sent to d

kernel == <<client, acts, unread, backlog>>
loop   == <<phase, batch, interest, owner>>
users  == <<table, user, wfd>>
output == <<room, queued, strays>>
fcgi   == <<providing, stage>>
vars   == <<kernel, loop, users, output, fcgi>>

-----------------------------------------------------------------------------
\* HUP stands for EPOLLHUP and EPOLLERR, which nobody asks for.
Events == {"IN", "OUT", "RDHUP", "HUP"}
ETEOReadable == {"IN", "RDHUP"}
ETEOWriteable == {"OUT", "RDHUP"}
ETEOAllof == ETEOReadable \cup ETEOWriteable

Watched == Fd \cup {Server}
Quiet == [x \in Watched |-> {}]
Halted == phase \in {"returned", "spinning", "crashed"}

\* User: parser_->isFinished(), the request's keep-alive flag, the kCMFcgi
\* mark, the bytes put into read_buffer_ so far, and the time since touch().
UserState == [done : BOOLEAN, keep : BOOLEAN, mark : BOOLEAN,
              filled : 0 .. BufferSize, age : 0 .. KeepTime]

\* A user just made by the accept callback: nothing is prepared yet.
NewUser ==
  [done |-> FALSE, keep |-> FALSE, mark |-> FALSE, filled |-> 0, age |-> 0]

Users == {table[fd] : fd \in Fd} \ {None}
Free == {fd \in Fd : owner[fd] = None}

\* The result of connect() is kept in TcpClient::bad_ and looked at nowhere: a
\* gateway socket may be one that never was connected.
Peers == {Gateway, Refused}

Init ==
  /\ client = [c \in Conn |-> "new"]
  /\ acts = [c \in Conn |-> 0]
  /\ unread = [c \in Conn |-> FALSE]
  /\ room = [c \in Conn |-> TRUE]
  /\ backlog = {}
  /\ owner = [fd \in Fd |-> None]
  /\ interest = [Quiet EXCEPT ![Server] = ETEOReadable]
  /\ phase = "wait"
  /\ batch = Quiet
  /\ table = [fd \in Fd |-> None]
  /\ user = [c \in Conn |-> NewUser]
  /\ wfd = [c \in Conn |-> None]
  /\ queued = [c \in Conn |-> FALSE]
  /\ providing = [fd \in Fd |-> None]
  /\ stage = [fd \in Fd |-> "kFSBegin"]
  /\ strays = {}

-----------------------------------------------------------------------------
(* The clients and the clock.                                              *)

Connect(c) ==
  /\ client[c] = "new"
  /\ client' = [client EXCEPT ![c] = "up"]
  /\ backlog' = backlog \cup {c}
  /\ UNCHANGED <<acts, unread, loop, users, output, fcgi>>

\* A client acts only while the server has not closed its connection.
Active(c) == client[c] = "up" /\ c \in backlog \cup Users

Send(c) ==
  /\ Active(c) /\ ~unread[c] /\ acts[c] < MaxActs
  /\ unread' = [unread EXCEPT ![c] = TRUE]
  /\ acts' = [acts EXCEPT ![c] = @ + 1]
  /\ UNCHANGED <<client, backlog, loop, users, output, fcgi>>

Drain(c) ==
  /\ Active(c) /\ ~room[c] /\ acts[c] < MaxActs
  /\ room' = [room EXCEPT ![c] = TRUE]
  /\ acts' = [acts EXCEPT ![c] = @ + 1]
  /\ UNCHANGED <<client, unread, backlog, loop, users, queued, strays, fcgi>>

\* The client closes, or only shuts down its sending side: epoll reports
\* RDHUP for both.
Close(c) ==
  /\ Active(c)
  /\ client' = [client EXCEPT ![c] = "gone"]
  /\ UNCHANGED <<acts, unread, backlog, loop, users, output, fcgi>>

\* A second passes.  Ages above KeepTime are not told apart.
Tick ==
  /\ \E c \in Users : user[c].age < KeepTime
  /\ user' = [c \in Conn |->
                IF c \in Users /\ user[c].age < KeepTime
                THEN [user[c] EXCEPT !.age = @ + 1] ELSE user[c]]
  /\ UNCHANGED <<kernel, loop, table, wfd, output, fcgi>>

-----------------------------------------------------------------------------
(* Epoll.                                                                  *)

When(cond, events) == IF cond THEN events ELSE {}

\* The armed events that hold for a descriptor of the loop's own epoll.  Of a
\* client that is gone HUP may be reported as well (Hung).
Raised(x) ==
  IF x = Server THEN interest[x] \cap When(backlog # {}, {"IN"})
  ELSE IF owner[x] \notin Conn THEN {}
  ELSE LET c == owner[x]
           gone == client[c] = "gone"
       IN  interest[x] \cap (When(unread[c] \/ gone, {"IN"})
                             \cup When(room[c] \/ gone, {"OUT"})
                             \cup When(gone, {"RDHUP"}))

Ready == {x \in Watched : Raised(x) # {}}
Hung(x) == x # Server /\ owner[x] \in Conn /\ client[owner[x]] = "gone"

\* epoll_.waitUntil(event_result, 100): at most EpollEvents descriptors are
\* reported, and EPOLLONESHOT disarms the reported ones.  Those in H are
\* reset or closed in both directions.
EpollWait ==
  /\ phase = "wait"
  /\ phase' = "dispatch"
  /\ \E S \in SUBSET Ready, H \in SUBSET {x \in Watched : Hung(x)} :
       /\ Cardinality(S) = IF Cardinality(Ready) < EpollEvents
                           THEN Cardinality(Ready) ELSE EpollEvents
       /\ H \subseteq S
       /\ batch' = [x \in Watched |->
                     When(x \in S, Raised(x) \cup When(x \in H, {"HUP"}))]
       /\ interest' = [x \in Watched |-> When(x \notin S, interest[x])]
  /\ UNCHANGED <<kernel, owner, users, output, fcgi>>

-----------------------------------------------------------------------------
(* Building blocks of the handlers.                                        *)

Handling(x) == phase = "dispatch" /\ batch[x] # {}
Polled(g) == phase = "polling" /\ batch[g] # {}
Handled(x) == batch' = [batch EXCEPT ![x] = {}]

\* Slip: ~User forgets to close its descriptor.
EraseLeavesOpen(F) ==
  /\ table' = [fd \in Fd |-> IF fd \in F THEN None ELSE table[fd]]
  /\ user' = [c \in Conn |->
                IF \E fd \in F : table[fd] = c THEN NewUser ELSE user[c]]
  /\ UNCHANGED <<owner, interest>>

\* Slip: the descriptor is closed and the table keeps the user.
EraseKeepsEntry(F) ==
  /\ owner' = [fd \in Fd |-> IF fd \in F THEN None ELSE owner[fd]]
  /\ interest' = [x \in Watched |-> When(x \notin F, interest[x])]
  /\ UNCHANGED <<table, user>>

\* Users destroyed with their table entries: ~User closes the descriptor,
\* and with it goes its epoll registration.
Erase(F) ==
  /\ table' = [fd \in Fd |-> IF fd \in F THEN None ELSE table[fd]]
  /\ owner' = [fd \in Fd |-> IF fd \in F THEN None ELSE owner[fd]]
  /\ interest' = [x \in Watched |-> When(x \notin F, interest[x])]
  /\ user' = [c \in Conn |->
                IF \E fd \in F : table[fd] = c THEN NewUser ELSE user[c]]

\* The loop ends.  Nobody reads the epoll objects any more.  An exception
\* that unwinds run() destroys the Transgate object, which closes the users'
\* sockets but neither the gateways' nor the listening one; a crash lets the
\* kernel close everything.
Halt(p) ==
  /\ phase' = p
  /\ batch' = Quiet
  /\ table' = [fd \in Fd |-> None]
  /\ owner' = [fd \in Fd |-> IF p = "returned" /\ owner[fd] \in Peers
                             THEN owner[fd] ELSE None]
  /\ interest' = Quiet
  /\ user' = [c \in Conn |-> NewUser]
  /\ providing' = [fd \in Fd |-> None]
  /\ stage' = [fd \in Fd |-> "kFSBegin"]
  /\ UNCHANGED <<kernel, wfd, output>>

Unwind == Halt("returned")

\* WriteLoop::doAll on the WriteLoop of c, whose raw descriptor is w: the
\* bytes go to whoever is behind w now, and with pend tasks before it, tasks
\* are left (q) when a send does not take everything.  A descriptor that is
\* closed or was never connected fails every send.
DoAll(c, w, pend, q) ==
  LET d == owner[w]
      refused == d \in {None, Refused} \/ (d \in Conn /\ ~room[d])
  IN  /\ q => pend
      /\ pend /\ refused => q
      /\ queued' = [queued EXCEPT ![c] = q]
      /\ room' = IF pend /\ d \in Conn THEN [room EXCEPT ![d] = ~q] ELSE room
      /\ strays' = strays \cup When(pend /\ ~refused /\ d # c, {<<c, d>>})

\* Slip: a user with output left is armed for writing only.
AdaptWriteOnly(fd, u, q, G, peer) ==
  LET closeable == u.done /\ ~u.keep /\ ~q
  IN  /\ table' = [table EXCEPT ![fd] = IF closeable THEN None ELSE @]
      /\ user' = [user EXCEPT ![table[fd]] = IF closeable THEN NewUser ELSE u]
      /\ owner' = [f \in Fd |-> IF f \in G THEN peer
                                ELSE IF f = fd /\ closeable THEN None
                                ELSE owner[f]]
      /\ interest' = [x \in Watched |->
                        IF x \in G THEN ETEOWriteable
                        ELSE IF x # fd THEN interest[x]
                        ELSE IF closeable THEN {}
                        ELSE IF q THEN ETEOWriteable ELSE ETEOReadable]

\* Slip: type() is asked before doAll, when nothing is queued.
AdaptReadOnly(fd, u, q, G, peer) ==
  LET closeable == u.done /\ ~u.keep /\ ~q
  IN  /\ table' = [table EXCEPT ![fd] = IF closeable THEN None ELSE @]
      /\ user' = [user EXCEPT ![table[fd]] = IF closeable THEN NewUser ELSE u]
      /\ owner' = [f \in Fd |-> IF f \in G THEN peer
                                ELSE IF f = fd /\ closeable THEN None
                                ELSE owner[f]]
      /\ interest' = [x \in Watched |->
                        IF x \in G THEN ETEOWriteable
                        ELSE IF x # fd THEN interest[x]
                        ELSE IF closeable THEN {} ELSE ETEOReadable]

\* User::closeable, User::type and UserManager::adapt: the user, now in
\* state u and with tasks left or not (q), is released or armed again.  The
\* sockets in G have just been opened to the gateway, with peer behind them.
Adapt(fd, u, q, G, peer) ==
  LET closeable == u.done /\ ~u.keep /\ ~q
  IN  /\ table' = [table EXCEPT ![fd] = IF closeable THEN None ELSE @]
      /\ user' = [user EXCEPT ![table[fd]] = IF closeable THEN NewUser ELSE u]
      /\ owner' = [f \in Fd |-> IF f \in G THEN peer
                                ELSE IF f = fd /\ closeable THEN None
                                ELSE owner[f]]
      /\ interest' = [x \in Watched |->
                        IF x \in G THEN ETEOWriteable
                        ELSE IF x # fd THEN interest[x]
                        ELSE IF closeable THEN {}
                        ELSE IF q THEN ETEOAllof ELSE ETEOReadable]

\* FastcgiManager::delegate: the sockets it may open, none when socket()
\* fails for want of a descriptor, and the entries it makes for c.
GatewaySockets(mark) ==
  IF mark /\ Free # {} THEN {{g} : g \in Free} ELSE {{}}

Delegate(c, G) ==
  /\ providing' = [g \in Fd |-> IF g \in G THEN c ELSE providing[g]]
  /\ stage' = [g \in Fd |-> IF g \in G THEN "kFSBegin" ELSE stage[g]]

-----------------------------------------------------------------------------
(* The dispatch of the reported events.                                    *)

\* Slip: idle users are eliminated to make room before accepting.
HandleServerEliminates ==
  /\ Handling(Server)
  /\ phase' = "accept"
  /\ Handled(Server)
  /\ Erase({fd \in Fd : table[fd] # None /\ user[table[fd]].age >= KeepTime})
  /\ UNCHANGED <<kernel, wfd, output, fcgi>>

\* acceptAll calls accept4 until it fails.
HandleServer ==
  /\ Handling(Server)
  /\ phase' = "accept"
  /\ Handled(Server)
  /\ UNCHANGED <<kernel, interest, owner, users, output, fcgi>>

\* accept4 and UserManager::delegate of the new connection.
Accept(c, fd) ==
  /\ phase = "accept"
  /\ c \in backlog /\ fd \in Free
  /\ backlog' = backlog \ {c}
  /\ owner' = [owner EXCEPT ![fd] = c]
  /\ table' = [table EXCEPT ![fd] = c]
  /\ interest' = [interest EXCEPT ![fd] = ETEOReadable]
  /\ UNCHANGED <<client, acts, unread, phase, batch, user, wfd, output, fcgi>>

\* Slip: the listening socket is armed again only after an empty backlog.
AcceptEndNotRearmed ==
  /\ phase = "accept"
  /\ backlog = {} \/ Free = {}
  /\ phase' = "dispatch"
  /\ interest' = [interest EXCEPT ![Server] = When(backlog = {}, ETEOReadable)]
  /\ UNCHANGED <<kernel, batch, owner, users, output, fcgi>>

\* accept4 fails: nobody waits, or no descriptor is free.  Either way the
\* listening socket is armed again.
AcceptEnd ==
  /\ phase = "accept"
  /\ backlog = {} \/ Free = {}
  /\ phase' = "dispatch"
  /\ interest' = [interest EXCEPT ![Server] = ETEOReadable]
  /\ UNCHANGED <<kernel, batch, owner, users, output, fcgi>>

\* kEPSocketClosed comes first: the user is released whatever else is ready.
HangUp(fd) ==
  /\ Handling(fd) /\ "RDHUP" \in batch[fd]
  /\ IF table[fd] = None THEN Unwind
     ELSE /\ Handled(fd)
          /\ Erase({fd})
          /\ UNCHANGED <<kernel, phase, wfd, output, fcgi>>

\* What onRead makes of the bytes: an incomplete request, one that is
\* answered at once, or one for the gateway.  A full buffer takes no bytes,
\* recv then returns 0 and the bytes stay in the kernel.
Received(c) == unread[c] /\ user[c].filled < BufferSize
Outcomes(c) == IF Received(c) THEN Reads ELSE {"part"}

\* doReadable and adapt.  The keep-alive flag and the kCMFcgi mark are only
\* ever set, so that every read after a gateway request delegates the
\* provider again.
Readable(fd) ==
  /\ Handling(fd) /\ "RDHUP" \notin batch[fd] /\ "IN" \in batch[fd]
  /\ IF table[fd] = None THEN Unwind
     ELSE LET c == table[fd]
              w == IF wfd[c] = None THEN fd ELSE wfd[c]
          IN
          \E read \in Outcomes(c), alive \in BOOLEAN, q \in BOOLEAN :
            LET done == read # "part"
                u == [done |-> done,
                      keep |-> user[c].keep \/ (done /\ alive),
                      mark |-> user[c].mark \/ read = "fcgi",
                      filled |-> user[c].filled
                                   + (IF Received(c) THEN 1 ELSE 0),
                      age |-> 0]
            IN  \E G \in GatewaySockets(u.mark), peer \in Peers :
                  /\ Handled(fd)
                  /\ unread' = [unread EXCEPT ![c] = @ /\ ~Received(c)]
                  /\ wfd' = [wfd EXCEPT ![c] = w]
                  /\ DoAll(c, w, queued[c] \/ read = "page", q)
                  /\ Delegate(c, G)
                  /\ Adapt(fd, u, q, G, peer)
                  /\ UNCHANGED <<client, acts, backlog, phase>>

\* doWriteable and adapt.
Writeable(fd) ==
  /\ Handling(fd) /\ batch[fd] = {"OUT"}
  /\ IF table[fd] = None THEN Unwind
     ELSE LET c == table[fd]
              w == IF wfd[c] = None THEN fd ELSE wfd[c]
          IN
          \E q \in BOOLEAN :
            /\ Handled(fd)
            /\ wfd' = [wfd EXCEPT ![c] = w]
            /\ DoAll(c, w, queued[c], q)
            /\ Adapt(fd, [user[c] EXCEPT !.age = 0], q, {}, None)
            /\ UNCHANGED <<kernel, phase, fcgi>>

\* The parser asks its stream for more bytes than there are: CharBuffer::read
\* throws.
ParserThrows(fd) ==
  /\ "throw" \in Faults
  /\ Handling(fd) /\ "RDHUP" \notin batch[fd] /\ "IN" \in batch[fd]
  /\ table[fd] # None /\ Received(table[fd])
  /\ Unwind

\* The provider is assigned into the bytes of a GenericBuffer that were never
\* initialised: the old shared pointers it releases are garbage.
ProviderCrash(fd) ==
  /\ "crash" \in Faults
  /\ Handling(fd) /\ "RDHUP" \notin batch[fd] /\ "IN" \in batch[fd]
  /\ table[fd] # None /\ "fcgi" \in Outcomes(table[fd])
  /\ ~user[table[fd]].mark
  /\ Halt("crashed")

-----------------------------------------------------------------------------
(* FastcgiManager::poll and UserManager::eliminate, once the batch is done. *)

\* A socket that never was connected can be written to, is hung up, and has
\* nothing to read.  One that was connected and then closed or reset is hung
\* up besides what is armed, as a read or a send would find.
GatewayRaised(g, hup) ==
  IF owner[g] = Refused THEN (interest[g] \cap {"OUT"}) \cup {"HUP"}
  ELSE interest[g] \cup When(hup, {"HUP"})

\* At most EpollEvents gateways have answered, taken the connection or hung up.
PollWait ==
  /\ phase = "dispatch" /\ batch = Quiet
  /\ phase' = "polling"
  /\ \E S \in SUBSET {g \in Fd : owner[g] \in Peers /\ interest[g] # {}} :
     \E H \in SUBSET S :
       /\ Cardinality(S) <= EpollEvents
       /\ batch' = [x \in Watched |-> When(x \in S, GatewayRaised(x, x \in H))]
       /\ interest' = [x \in Watched |-> When(x \notin S, interest[x])]
  /\ UNCHANGED <<kernel, owner, users, output, fcgi>>

\* An event of a socket that provides nothing any more: epoll_.remove.
Unregister(g) == Handled(g) /\ UNCHANGED <<phase, interest, output, fcgi>>

\* Slip: the last set_stage of the Writeable branch is missing.
SentStays(g) ==
  /\ Polled(g) /\ "IN" \notin batch[g] /\ "OUT" \in batch[g]
  /\ IF providing[g] = None \/ stage[g] # "kFSBegin" THEN Unregister(g)
     ELSE /\ Handled(g)
          /\ stage' = [stage EXCEPT ![g] = "kFSSent"]
          /\ interest' = [interest EXCEPT ![g] = ETEOReadable]
          /\ UNCHANGED <<phase, providing, output>>
  /\ UNCHANGED <<kernel, owner, users>>

\* The gateway took the connection: the request is sent and the answer awaited.
\* (makeRequest fails only on a request larger than the 8192 bytes of a read
\* buffer, which no client can make.)  A socket that never was connected is
\* "sent" the request all the same, for the sends' results are not looked at.
Sent(g) ==
  /\ Polled(g) /\ "IN" \notin batch[g] /\ "OUT" \in batch[g]
  /\ IF providing[g] = None \/ stage[g] # "kFSBegin" THEN Unregister(g)
     ELSE /\ Handled(g)
          /\ stage' = [stage EXCEPT ![g] = "kFSRecving"]
          /\ interest' = [interest EXCEPT ![g] = ETEOReadable]
          /\ UNCHANGED <<phase, providing, output>>
  /\ UNCHANGED <<kernel, owner, users>>

\* Neither branch is for EPOLLHUP alone: the one-shot registration is used up
\* and nothing arms the socket again.
Unanswered(g) ==
  /\ Polled(g) /\ "IN" \notin batch[g] /\ "OUT" \notin batch[g]
  /\ Unregister(g)
  /\ UNCHANGED <<kernel, owner, users>>

\* Slip: an incomplete header is not followed by a modify.
WaitingUnarmed(g) ==
  /\ Polled(g) /\ "IN" \in batch[g]
  /\ providing[g] # None /\ stage[g] = "kFSRecving"
  /\ Handled(g)
  /\ UNCHANGED <<kernel, phase, interest, owner, users, output, fcgi>>

\* The gateway's bytes do not complete the header yet, or there are none.
Waiting(g) ==
  /\ Polled(g) /\ "IN" \in batch[g]
  /\ providing[g] # None /\ stage[g] = "kFSRecving"
  /\ Handled(g)
  /\ interest' = [interest EXCEPT ![g] = ETEOReadable]
  /\ UNCHANGED <<kernel, phase, owner, users, output, fcgi>>

\* The header is complete, or the stream ended: what has been decoded moves
\* to the requester's WriteLoop, head first, and is sent at once.  The entry
\* goes when all of it fitted; its socket stays open, for nothing closes it.
\* The requester's interest is not adapted to what is left in the WriteLoop.
Forward(g) ==
  /\ Polled(g) /\ "IN" \in batch[g]
  /\ IF providing[g] = None \/ stage[g] = "kFSBegin" THEN Unregister(g)
     ELSE LET c == providing[g] IN
          \E left \in BOOLEAN, q \in BOOLEAN :
            /\ Handled(g)
            /\ DoAll(c, wfd[c], TRUE, q)
            /\ stage' = [stage EXCEPT ![g] = IF left THEN "kFSForwarding"
                                             ELSE "kFSBegin"]
            /\ providing' = [providing EXCEPT ![g] = IF left THEN @ ELSE None]
            /\ interest' = [interest EXCEPT ![g] = When(left, ETEOReadable)]
            /\ UNCHANGED phase
  /\ UNCHANGED <<kernel, owner, users>>

\* consume() finds the start of a record in the buffer and not its end, and
\* tries again for ever.
Spin(g) ==
  /\ "spin" \in Faults
  /\ Polled(g) /\ "IN" \in batch[g] /\ providing[g] # None
  /\ phase' = "spinning"
  /\ Handled(g)
  /\ UNCHANGED <<kernel, interest, owner, users, output, fcgi>>

\* consume() reads a record whose padding has not arrived, parse() meets a
\* status that is no number, or a reply does not fit its buffer.
ProviderThrows(g) ==
  /\ "throw" \in Faults
  /\ Polled(g) /\ "IN" \in batch[g] /\ providing[g] # None
  /\ Unwind

\* Slip: users whose output is not all sent are spared.
EliminateSpares ==
  /\ phase = "polling" /\ batch = Quiet
  /\ phase' = "wait"
  /\ Erase({fd \in Fd : /\ table[fd] # None
                        /\ user[table[fd]].age >= KeepTime
                        /\ ~queued[table[fd]]})
  /\ UNCHANGED <<kernel, batch, wfd, output, fcgi>>

\* Users idle for KeepTime are destroyed.
Eliminate ==
  /\ phase = "polling" /\ batch = Quiet
  /\ phase' = "wait"
  /\ Erase({fd \in Fd : table[fd] # None /\ user[table[fd]].age >= KeepTime})
  /\ UNCHANGED <<kernel, batch, wfd, output, fcgi>>

-----------------------------------------------------------------------------
Dispatch(fd) ==
  \/ HangUp(fd) \/ Readable(fd) \/ Writeable(fd)
  \/ ParserThrows(fd) \/ ProviderCrash(fd)

Poll(g) ==
  \/ Sent(g) \/ Unanswered(g) \/ Waiting(g) \/ Forward(g) \/ Spin(g) \/ ProviderThrows(g)

Run ==
  \/ EpollWait \/ HandleServer \/ AcceptEnd \/ PollWait \/ Eliminate
  \/ \E c \in Conn, fd \in Fd : Accept(c, fd)
  \/ \E fd \in Fd : Dispatch(fd) \/ Poll(fd)

Environment ==
  \/ Tick
  \/ \E c \in Conn : Connect(c) \/ Send(c) \/ Drain(c) \/ Close(c)

Next == Run \/ Environment

Spec == Init /\ [][Next]_vars

\* The thread of the loop is scheduled and time passes; nothing is asked of
\* the clients or the gateway.
FairSpec == Spec /\ WF_vars(Run) /\ WF_vars(Tick)

-----------------------------------------------------------------------------
(* What makes the loop correct.                                            *)

\* Every variable has its type; a request at rest is before its connection,
\* before its header, or in the middle of its body.
TypeOK ==
  /\ client \in [Conn -> {"new", "up", "gone"}]
  /\ acts \in [Conn -> 0 .. MaxActs]
  /\ unread \in [Conn -> BOOLEAN]
  /\ room \in [Conn -> BOOLEAN]
  /\ backlog \in SUBSET Conn
  /\ owner \in [Fd -> Conn \cup Peers \cup {None}]
  /\ interest \in [Watched -> SUBSET Events]
  /\ phase \in {"wait", "dispatch", "accept", "polling",
                "returned", "spinning", "crashed"}
  /\ batch \in [Watched -> SUBSET Events]
  /\ table \in [Fd -> Conn \cup {None}]
  /\ user \in [Conn -> UserState]
  /\ wfd \in [Conn -> Fd \cup {None}]
  /\ queued \in [Conn -> BOOLEAN]
  /\ providing \in [Fd -> Conn \cup {None}]
  /\ stage \in [Fd -> {"kFSBegin", "kFSRecving", "kFSForwarding"}]
  /\ strays \in SUBSET (Conn \X (Conn \cup {Gateway}))

\* The table and the kernel agree on who is behind a descriptor, and nobody
\* is behind two: the raw integers the code passes around (event_fd, table_
\* keys) mean one connection at a time although the kernel reuses them.
UsersOwnDescriptors ==
  /\ \A fd \in Fd, c \in Conn : table[fd] = c <=> owner[fd] = c
  /\ \A f, g \in Fd : table[f] # None /\ table[f] = table[g] => f = g
  /\ \A c \in Users : client[c] # "new" /\ c \notin backlog

\* An event still to be handled concerns a user of the table: the handlers'
\* "no such user" exceptions, which would end the loop, are never raised,
\* although users are released and descriptors reused within one batch.
EventsHaveUsers ==
  /\ phase \in {"dispatch", "accept"} =>
       \A fd \in Fd : batch[fd] # {} => table[fd] # None
  /\ phase \in {"wait", "returned", "crashed"} => batch = Quiet

\* No user is forgotten by epoll: between its events each one is armed for
\* reading and for the close of its client, so it can make progress.
UsersArmed ==
  \A fd \in Fd : table[fd] # None =>
    ETEOReadable \subseteq interest[fd] \/ batch[fd] # {}

\* What a gateway request is armed for, and the events the poll looks at.
Expected(g) ==
  IF stage[g] = "kFSBegin" THEN ETEOWriteable ELSE ETEOReadable
Checked == {"IN", "OUT"}

\* A request that epoll has forgotten, or is about to forget, although it is
\* in progress: its one-shot registration is used up by EPOLLHUP.
Forgotten(g) == interest[g] = {} /\ batch[g] \subseteq {"HUP"}

\* A gateway request in progress has its own open socket, which is armed for
\* the very event its stage waits for, or has that event in the batch.  The one
\* exception is a request whose connect failed: it is forgotten, but not before
\* it was "sent", and no answer is ever forwarded from such a socket.
GatewaysArmed ==
  \A g \in Fd : providing[g] # None /\ phase # "spinning" =>
    /\ owner[g] \in Peers
    /\ \/ interest[g] = Expected(g) /\ batch[g] = {}
       \/ /\ interest[g] = {} /\ phase = "polling"
          /\ batch[g] \cap Checked = Expected(g) \cap Checked
       \/ owner[g] = Refused /\ stage[g] = "kFSRecving" /\ Forgotten(g)
    /\ stage[g] = "kFSForwarding" => owner[g] = Gateway

\* Output goes to another socket only after its own connection is closed:
\* while the user lives, the descriptor its WriteLoop remembers is its own.
StraysAreLate == \A s \in strays : s[1] \notin Users

\* A user with output left is armed for writing, so that a slow client still
\* gets the rest of its reply.
PendingOutputArmed ==
  \A fd \in Fd : table[fd] # None /\ queued[table[fd]] =>
    "OUT" \in interest[fd] \/ batch[fd] # {}

\* The same of the users that have never asked the gateway for anything.
StaticOutputArmed ==
  \A fd \in Fd :
    table[fd] # None /\ queued[table[fd]] /\ ~user[table[fd]].mark =>
      "OUT" \in interest[fd] \/ batch[fd] # {}

\* A client whose bytes do not fit the rest of its read buffer: each recv is
\* given no room and returns 0, the bytes stay in the kernel, EPOLLIN is
\* reported again at once, and doReadable touches the user each time.
Stuck(c) == c \in Users /\ unread[c] /\ user[c].filled = BufferSize

\* An idle or finished connection is given up: every user is released in the
\* end, whatever its client does within its bounds, except one whose read
\* buffer is used up, which stays as long as its client does.
UsersReleased ==
  \A c \in Conn : c \in Users ~> (c \notin Users \/ Halted \/ Stuck(c))

\* No connection is left waiting for accept4 although descriptors are scarce,
\* as long as no user of a used-up buffer holds one for ever.
BacklogServed ==
  \A c \in Conn :
    c \in backlog ~> (c \notin backlog \/ Halted \/ \E d \in Conn : Stuck(d))

\* Bytes of a reply reach the connection that asked, or nobody.
OutputReachesItsClient == strays = {}

\* A gateway socket is open only as long as a request uses it.
GatewaySocketsInUse ==
  \A g \in Fd : owner[g] \in Peers /\ ~Halted => providing[g] # None

\* A connection whose client is still there is not closed after a read while
\* its answer is still to come from the gateway.
AnsweredBeforeClose ==
  [][\A c \in Users :
       phase = "dispatch" /\ c \notin Users' /\ client[c] = "up" /\ ~Halted'
         => \A g \in Fd : providing'[g] # c]_vars

\* The life of a connection, as the promise to the clients sees it.
Life(c) ==
  IF client[c] = "new" THEN "new"
  ELSE IF c \in backlog THEN "waiting"
  ELSE IF c \in Users THEN "served" ELSE "done"

Lifecycle == INSTANCE ConnectionLifecycle
  WITH Capacity <- Cardinality(Fd), life <- [c \in Conn |-> Life(c)]

\* The loop keeps the promise: connections are admitted one at a time and
\* never above the number of descriptors, end once, and do not come back.
RefinesLifecycle == Lifecycle!Spec

=============================================================================
