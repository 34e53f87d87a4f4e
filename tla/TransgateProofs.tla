--------------------------- MODULE TransgateProofs ---------------------------
(***************************************************************************)
(* The event loop's safety invariants hold for any number of connections   *)
(* and descriptors, any keep time, any number of events a wait may report, *)
(* and whatever the parser, the gateway and the failures do.               *)
(*                                                                         *)
(* They are proved together, for each leans on others: an event has a user *)
(* because table_ and the kernel agree; they agree because a descriptor is *)
(* closed only by the user that owns it; a WriteLoop writes to its own     *)
(* user because it was made on the descriptor the user still owns.         *)
(*                                                                         *)
(* From them follows what the loop does for its clients: static replies    *)
(* are armed to the end, and a connection lives the life that              *)
(* ConnectionLifecycle promises.                                           *)
(***************************************************************************)
EXTENDS Transgate, FiniteSetTheorems, TLAPS

\* During the poll the batch holds gateway sockets only, and a socket that never
\* was connected has nothing to read.
PollsHaveGateways ==
  phase = "polling" => \A fd \in Fd : batch[fd] # {} =>
    owner[fd] \in Peers /\ (owner[fd] = Refused => "IN" \notin batch[fd])

\* A connection that has not been accepted has no WriteLoop.
NotPrepared ==
  /\ \A c \in backlog : client[c] # "new"
  /\ \A c \in Conn : client[c] = "new" \/ c \in backlog => wfd[c] = None

\* While a user lives its WriteLoop remembers the user's own descriptor, and
\* only prepared users have made requests or lost bytes.
WriteLoopsKept ==
  /\ \A fd \in Fd : table[fd] # None => wfd[table[fd]] \in {None, fd}
  /\ \A g \in Fd : providing[g] # None => wfd[providing[g]] # None
  /\ \A s \in strays : wfd[s[1]] # None

IInv ==
  /\ TypeOK
  /\ UsersOwnDescriptors
  /\ EventsHaveUsers
  /\ PollsHaveGateways
  /\ UsersArmed
  /\ GatewaysArmed
  /\ NotPrepared
  /\ WriteLoopsKept
  /\ StraysAreLate

-----------------------------------------------------------------------------
USE DEF kernel, loop, users, output, fcgi, Watched, Quiet, Users, Free, When,
        Peers

\* The event masks the handlers arm, as far as the proofs need to know them.
LEMMA EventSets ==
  /\ ETEOReadable \in SUBSET Events /\ ETEOWriteable \in SUBSET Events
  /\ ETEOAllof \in SUBSET Events /\ {} \in SUBSET Events
  /\ ETEOReadable # {} /\ ETEOWriteable # {}
  /\ ETEOReadable \subseteq ETEOAllof
  /\ "IN" \in ETEOReadable /\ "IN" \notin ETEOWriteable
  /\ "OUT" \in ETEOWriteable /\ "OUT" \notin ETEOReadable
  /\ "HUP" \in Events /\ "HUP" \notin Checked
BY DEF Checked, Events, ETEOReadable, ETEOWriteable, ETEOAllof

\* The user made for a new connection is well formed.
LEMMA NewUserType == NewUser \in UserState
BY ConstAssumption DEF NewUser, UserState

\* The invariant holds when the instance starts.
LEMMA InitIInv == Init => IInv
<1> SUFFICES ASSUME Init PROVE IInv  OBVIOUS
<1>1. TypeOK
  BY ConstAssumption, EventSets, NewUserType
  DEF Init, TypeOK
<1>2. UsersOwnDescriptors
  BY ConstAssumption, EventSets, NewUserType
  DEF Init, UsersOwnDescriptors
<1>3. EventsHaveUsers
  BY ConstAssumption, EventSets, NewUserType
  DEF Init, EventsHaveUsers
<1>4. PollsHaveGateways
  BY ConstAssumption, EventSets, NewUserType
  DEF Init, PollsHaveGateways
<1>5. UsersArmed
  BY ConstAssumption, EventSets, NewUserType
  DEF Init, UsersArmed
<1>6. GatewaysArmed
  BY ConstAssumption, EventSets, NewUserType
  DEF Init, GatewaysArmed, Expected, Checked, Forgotten
<1>7. NotPrepared
  BY ConstAssumption, EventSets, NewUserType
  DEF Init, NotPrepared
<1>8. WriteLoopsKept
  BY ConstAssumption, EventSets, NewUserType
  DEF Init, WriteLoopsKept
<1>9. StraysAreLate
  BY ConstAssumption, EventSets, NewUserType
  DEF Init, StraysAreLate
<1> QED  BY <1>1, <1>2, <1>3, <1>4, <1>5, <1>6, <1>7, <1>8, <1>9 DEF IInv

-----------------------------------------------------------------------------
(* The clients, the clock and the waits.                                   *)

\* A new connection has neither a descriptor nor a WriteLoop.
LEMMA ConnectKeeps ==
  ASSUME NEW c \in Conn, IInv, Connect(c)
  PROVE  IInv'
<1>1. TypeOK'
  BY ConstAssumption, EventSets, NewUserType
  DEF IInv, TypeOK, Connect
<1>2. UsersOwnDescriptors'
  BY ConstAssumption, EventSets, NewUserType
  DEF IInv, TypeOK, UsersOwnDescriptors, Connect
<1>3. EventsHaveUsers'
  BY ConstAssumption, EventSets, NewUserType
  DEF IInv, TypeOK, EventsHaveUsers, UsersOwnDescriptors, Connect
<1>4. PollsHaveGateways'
  BY ConstAssumption, EventSets, NewUserType
  DEF IInv, TypeOK, PollsHaveGateways, UsersOwnDescriptors, EventsHaveUsers,
      Connect
<1>5. UsersArmed'
  BY ConstAssumption, EventSets, NewUserType
  DEF IInv, TypeOK, UsersArmed, UsersOwnDescriptors, EventsHaveUsers,
      PollsHaveGateways, Connect
<1>6. GatewaysArmed'
  BY ConstAssumption, EventSets, NewUserType
  DEF IInv, TypeOK, GatewaysArmed, Expected, Checked, Forgotten, UsersOwnDescriptors,
      EventsHaveUsers, PollsHaveGateways, Connect
<1>7. NotPrepared'
  BY ConstAssumption, EventSets, NewUserType
  DEF IInv, TypeOK, NotPrepared, UsersOwnDescriptors, Connect
<1>8. WriteLoopsKept'
  BY ConstAssumption, EventSets, NewUserType
  DEF IInv, TypeOK, WriteLoopsKept, NotPrepared, UsersOwnDescriptors, Connect
<1>9. StraysAreLate'
  BY ConstAssumption, EventSets, NewUserType
  DEF IInv, TypeOK, StraysAreLate, NotPrepared, WriteLoopsKept,
      UsersOwnDescriptors, Connect
<1> QED  BY <1>1, <1>2, <1>3, <1>4, <1>5, <1>6, <1>7, <1>8, <1>9 DEF IInv

\* A client's bytes, its draining and its leaving touch nothing the loop owns.
LEMMA ClientKeeps ==
  ASSUME NEW c \in Conn, IInv, Send(c) \/ Drain(c) \/ Close(c)
  PROVE  IInv'
<1>1. TypeOK'
  <2>1. acts[c] < MaxActs => [acts EXCEPT ![c] = @ + 1] \in [Conn -> 0 .. MaxActs]
    BY ConstAssumption DEF IInv, TypeOK
  <2>2. CASE Send(c)
    BY <2>1, <2>2 DEF IInv, TypeOK, Send, Active
  <2>3. CASE Drain(c)
    BY <2>1, <2>3 DEF IInv, TypeOK, Drain, Active
  <2>4. CASE Close(c)
    BY <2>4 DEF IInv, TypeOK, Close, Active
  <2> QED  BY <2>2, <2>3, <2>4
<1>2. UsersOwnDescriptors'
  BY ConstAssumption, EventSets, NewUserType, SMTT(30)
  DEF IInv, TypeOK, UsersOwnDescriptors, Send, Drain, Close, Active
<1>3. EventsHaveUsers'
  BY ConstAssumption, EventSets, NewUserType, SMTT(30)
  DEF IInv, TypeOK, EventsHaveUsers, UsersOwnDescriptors, Send, Drain, Close,
      Active
<1>4. PollsHaveGateways'
  BY ConstAssumption, EventSets, NewUserType, SMTT(30)
  DEF IInv, TypeOK, PollsHaveGateways, UsersOwnDescriptors, EventsHaveUsers,
      Send, Drain, Close, Active
<1>5. UsersArmed'
  BY ConstAssumption, EventSets, NewUserType, SMTT(30)
  DEF IInv, TypeOK, UsersArmed, UsersOwnDescriptors, EventsHaveUsers,
      PollsHaveGateways, Send, Drain, Close, Active
<1>6. GatewaysArmed'
  BY ConstAssumption, EventSets, NewUserType, SMTT(30)
  DEF IInv, TypeOK, GatewaysArmed, Expected, Checked, Forgotten, UsersOwnDescriptors,
      EventsHaveUsers, PollsHaveGateways, Send, Drain, Close, Active
<1>7. NotPrepared'
  BY ConstAssumption, EventSets, NewUserType, SMTT(30)
  DEF IInv, TypeOK, NotPrepared, UsersOwnDescriptors, Send, Drain, Close,
      Active
<1>8. WriteLoopsKept'
  BY ConstAssumption, EventSets, NewUserType, SMTT(30)
  DEF IInv, TypeOK, WriteLoopsKept, NotPrepared, UsersOwnDescriptors, Send,
      Drain, Close, Active
<1>9. StraysAreLate'
  BY ConstAssumption, EventSets, NewUserType, SMTT(30)
  DEF IInv, TypeOK, StraysAreLate, NotPrepared, WriteLoopsKept,
      UsersOwnDescriptors, Send, Drain, Close, Active
<1> QED  BY <1>1, <1>2, <1>3, <1>4, <1>5, <1>6, <1>7, <1>8, <1>9 DEF IInv

\* Ages grow up to KeepTime.
LEMMA TickKeeps ==
  ASSUME IInv, Tick
  PROVE  IInv'
<1>1. TypeOK'
  <2>1. ASSUME NEW c \in Conn, user[c].age < KeepTime
        PROVE  [user[c] EXCEPT !.age = @ + 1] \in UserState
    BY <2>1, ConstAssumption DEF IInv, TypeOK, UserState
  <2>2. user' \in [Conn -> UserState]
    BY <2>1 DEF IInv, TypeOK, Tick
  <2> QED  BY <2>2 DEF IInv, TypeOK, Tick
<1>2. UsersOwnDescriptors'
  BY ConstAssumption, EventSets, NewUserType
  DEF IInv, TypeOK, UsersOwnDescriptors, Tick
<1>3. EventsHaveUsers'
  BY ConstAssumption, EventSets, NewUserType
  DEF IInv, TypeOK, EventsHaveUsers, UsersOwnDescriptors, Tick
<1>4. PollsHaveGateways'
  BY ConstAssumption, EventSets, NewUserType
  DEF IInv, TypeOK, PollsHaveGateways, UsersOwnDescriptors, EventsHaveUsers,
      Tick
<1>5. UsersArmed'
  BY ConstAssumption, EventSets, NewUserType
  DEF IInv, TypeOK, UsersArmed, UsersOwnDescriptors, EventsHaveUsers,
      PollsHaveGateways, Tick
<1>6. GatewaysArmed'
  BY ConstAssumption, EventSets, NewUserType
  DEF IInv, TypeOK, GatewaysArmed, Expected, Checked, Forgotten, UsersOwnDescriptors,
      EventsHaveUsers, PollsHaveGateways, Tick
<1>7. NotPrepared'
  BY ConstAssumption, EventSets, NewUserType
  DEF IInv, TypeOK, NotPrepared, UsersOwnDescriptors, Tick
<1>8. WriteLoopsKept'
  BY ConstAssumption, EventSets, NewUserType
  DEF IInv, TypeOK, WriteLoopsKept, NotPrepared, UsersOwnDescriptors, Tick
<1>9. StraysAreLate'
  BY ConstAssumption, EventSets, NewUserType
  DEF IInv, TypeOK, StraysAreLate, NotPrepared, WriteLoopsKept,
      UsersOwnDescriptors, Tick
<1> QED  BY <1>1, <1>2, <1>3, <1>4, <1>5, <1>6, <1>7, <1>8, <1>9 DEF IInv

\* What epoll reports is armed, so it belongs to a user of the table.
LEMMA EpollWaitKeeps ==
  ASSUME IInv, EpollWait
  PROVE  IInv'
<1>1. TypeOK'
  <2>1. PICK S \in SUBSET Ready, H \in SUBSET {x \in Watched : Hung(x)} :
          /\ batch' = [x \in Watched |->
                        When(x \in S, Raised(x) \cup When(x \in H, {"HUP"}))]
          /\ interest' = [x \in Watched |-> When(x \notin S, interest[x])]
    BY DEF EpollWait
  <2>2. \A x \in Watched : Raised(x) \in SUBSET Events
    BY DEF Raised, IInv, TypeOK
  <2>3. batch' \in [Watched -> SUBSET Events]
    BY <2>1, <2>2, EventSets
  <2>4. interest' \in [Watched -> SUBSET Events]
    BY <2>1 DEF IInv, TypeOK
  <2> QED  BY <2>3, <2>4 DEF IInv, TypeOK, EpollWait
<1>2. UsersOwnDescriptors'
  BY ConstAssumption, EventSets, NewUserType, SMTT(30)
  DEF IInv, TypeOK, UsersOwnDescriptors, EpollWait, Raised, Ready
<1>3. EventsHaveUsers'
  BY ConstAssumption, EventSets, NewUserType, SMTT(30)
  DEF IInv, TypeOK, EventsHaveUsers, UsersOwnDescriptors, EpollWait, Raised,
      Ready
<1>4. PollsHaveGateways'
  BY ConstAssumption, EventSets, NewUserType, SMTT(30)
  DEF IInv, TypeOK, PollsHaveGateways, UsersOwnDescriptors, EventsHaveUsers,
      EpollWait, Raised, Ready
<1>5. UsersArmed'
  BY ConstAssumption, EventSets, NewUserType, SMTT(30)
  DEF IInv, TypeOK, UsersArmed, UsersOwnDescriptors, EventsHaveUsers,
      PollsHaveGateways, EpollWait, Raised, Ready
<1>6. GatewaysArmed'
  BY ConstAssumption, EventSets, NewUserType, SMTT(30)
  DEF IInv, TypeOK, GatewaysArmed, Expected, Checked, Forgotten, UsersOwnDescriptors,
      EventsHaveUsers, PollsHaveGateways, EpollWait, Raised, Ready
<1>7. NotPrepared'
  BY ConstAssumption, EventSets, NewUserType, SMTT(30)
  DEF IInv, TypeOK, NotPrepared, UsersOwnDescriptors, EpollWait, Raised, Ready
<1>8. WriteLoopsKept'
  BY ConstAssumption, EventSets, NewUserType, SMTT(30)
  DEF IInv, TypeOK, WriteLoopsKept, NotPrepared, UsersOwnDescriptors,
      EpollWait, Raised, Ready
<1>9. StraysAreLate'
  BY ConstAssumption, EventSets, NewUserType, SMTT(30)
  DEF IInv, TypeOK, StraysAreLate, NotPrepared, WriteLoopsKept,
      UsersOwnDescriptors, EpollWait, Raised, Ready
<1> QED  BY <1>1, <1>2, <1>3, <1>4, <1>5, <1>6, <1>7, <1>8, <1>9 DEF IInv

\* The poll reports gateway sockets; their requests wait for what is armed.
LEMMA PollWaitKeeps ==
  ASSUME IInv, PollWait
  PROVE  IInv'
<1>0. PICK S \in SUBSET {g \in Fd : owner[g] \in Peers /\ interest[g] # {}},
           H \in SUBSET Fd :
        /\ batch' = [x \in Watched |->
                      When(x \in S, GatewayRaised(x, x \in H))]
        /\ interest' = [x \in Watched |-> When(x \notin S, interest[x])]
  BY DEF PollWait
<1>a. \A g \in Fd :
        LET raised == GatewayRaised(g, g \in H) IN
        /\ raised \in SUBSET Events
        /\ owner[g] = Refused =>
             raised = IF "OUT" \in interest[g] THEN {"OUT", "HUP"} ELSE {"HUP"}
        /\ owner[g] # Refused =>
             raised \in {interest[g], interest[g] \cup {"HUP"}}
  BY EventSets DEF GatewayRaised, IInv, TypeOK
<1>1. TypeOK'
  <2>1. batch' \in [Watched -> SUBSET Events]
    BY <1>0, <1>a, EventSets
  <2>2. interest' \in [Watched -> SUBSET Events]
    BY <1>0 DEF IInv, TypeOK
  <2> QED  BY <2>1, <2>2 DEF IInv, TypeOK, PollWait
<1>2. UsersOwnDescriptors'
  BY ConstAssumption, EventSets, NewUserType
  DEF IInv, TypeOK, UsersOwnDescriptors, PollWait
<1>3. EventsHaveUsers'
  BY ConstAssumption, EventSets, NewUserType
  DEF IInv, TypeOK, EventsHaveUsers, UsersOwnDescriptors, PollWait
<1>4. PollsHaveGateways'
  <2> SUFFICES ASSUME NEW g \in Fd, batch'[g] # {}
               PROVE  /\ owner[g] \in Peers
                      /\ owner[g] = Refused => "IN" \notin batch'[g]
    BY DEF PollsHaveGateways, PollWait
  <2>1. g \in S /\ batch'[g] = GatewayRaised(g, g \in H)
    BY <1>0
  <2>2. owner[g] = Refused => "IN" \notin GatewayRaised(g, g \in H)
    BY <1>a
  <2> QED  BY <1>0, <2>1, <2>2
<1>5. UsersArmed'
  BY ConstAssumption, EventSets, NewUserType
  DEF IInv, TypeOK, UsersArmed, UsersOwnDescriptors, EventsHaveUsers,
      PollsHaveGateways, PollWait
<1>6. GatewaysArmed'
  <2> SUFFICES ASSUME NEW g \in Fd, providing[g] # None
               PROVE  /\ owner[g] \in Peers
                      /\ \/ interest'[g] = Expected(g) /\ batch'[g] = {}
                         \/ /\ interest'[g] = {}
                            /\ batch'[g] \cap Checked = Expected(g) \cap Checked
                         \/ /\ owner[g] = Refused /\ stage[g] = "kFSRecving"
                            /\ interest'[g] = {} /\ batch'[g] \subseteq {"HUP"}
                      /\ stage[g] = "kFSForwarding" => owner[g] = Gateway
    BY DEF GatewaysArmed, Expected, Forgotten, PollWait
  <2>1. /\ owner[g] \in Peers /\ batch[g] = {}
        /\ \/ interest[g] = Expected(g)
           \/ owner[g] = Refused /\ stage[g] = "kFSRecving" /\ interest[g] = {}
        /\ stage[g] = "kFSForwarding" => owner[g] = Gateway
    BY DEF IInv, GatewaysArmed, Forgotten, PollWait
  <2>2. CASE g \notin S
    BY <1>0, <2>1, <2>2
  <2>3. CASE g \in S
    <3>1. /\ interest'[g] = {} /\ batch'[g] = GatewayRaised(g, g \in H)
          /\ interest[g] = Expected(g)
      BY <1>0, <2>1, <2>3
    <3>2. CASE owner[g] = Gateway
      <4>1. batch'[g] \in {Expected(g), Expected(g) \cup {"HUP"}}
        BY <1>a, <3>1, <3>2, ConstAssumption
      <4>2. batch'[g] \cap Checked = Expected(g) \cap Checked
        BY <4>1, EventSets
      <4> QED  BY <2>1, <3>1, <4>2
    <3>3. CASE owner[g] = Refused /\ stage[g] = "kFSBegin"
      <4>1. Expected(g) = ETEOWriteable /\ batch'[g] = {"OUT", "HUP"}
        BY <1>a, <3>1, <3>3, EventSets DEF Expected
      <4>2. batch'[g] \cap Checked = Expected(g) \cap Checked
        BY <4>1 DEF Checked, ETEOWriteable
      <4> QED  BY <2>1, <3>1, <4>2
    <3>4. CASE owner[g] = Refused /\ stage[g] # "kFSBegin"
      <4>1. stage[g] = "kFSRecving"
        BY <2>1, <3>4, ConstAssumption DEF IInv, TypeOK
      <4>2. batch'[g] = {"HUP"}
        BY <1>a, <3>1, <3>4, EventSets DEF Expected
      <4> QED  BY <2>1, <3>1, <3>4, <4>1, <4>2
    <3> QED  BY <2>1, <3>2, <3>3, <3>4
  <2> QED  BY <2>2, <2>3
<1>7. NotPrepared'
  BY ConstAssumption, EventSets, NewUserType
  DEF IInv, TypeOK, NotPrepared, UsersOwnDescriptors, PollWait
<1>8. WriteLoopsKept'
  BY ConstAssumption, EventSets, NewUserType
  DEF IInv, TypeOK, WriteLoopsKept, NotPrepared, UsersOwnDescriptors, PollWait
<1>9. StraysAreLate'
  BY ConstAssumption, EventSets, NewUserType
  DEF IInv, TypeOK, StraysAreLate, NotPrepared, WriteLoopsKept,
      UsersOwnDescriptors, PollWait
<1> QED  BY <1>1, <1>2, <1>3, <1>4, <1>5, <1>6, <1>7, <1>8, <1>9 DEF IInv

-----------------------------------------------------------------------------
(* The listening socket.                                                   *)

\* Turning to the listening socket leaves the users' events alone.
LEMMA HandleServerKeeps ==
  ASSUME IInv, HandleServer
  PROVE  IInv'
<1>1. TypeOK'
  BY ConstAssumption, EventSets, NewUserType
  DEF IInv, TypeOK, HandleServer, Handling, Handled
<1>2. UsersOwnDescriptors'
  BY ConstAssumption, EventSets, NewUserType
  DEF IInv, TypeOK, UsersOwnDescriptors, HandleServer, Handling, Handled
<1>3. EventsHaveUsers'
  BY ConstAssumption, EventSets, NewUserType
  DEF IInv, TypeOK, EventsHaveUsers, UsersOwnDescriptors, HandleServer,
      Handling, Handled
<1>4. PollsHaveGateways'
  BY ConstAssumption, EventSets, NewUserType
  DEF IInv, TypeOK, PollsHaveGateways, UsersOwnDescriptors, EventsHaveUsers,
      HandleServer, Handling, Handled
<1>5. UsersArmed'
  BY ConstAssumption, EventSets, NewUserType
  DEF IInv, TypeOK, UsersArmed, UsersOwnDescriptors, EventsHaveUsers,
      PollsHaveGateways, HandleServer, Handling, Handled
<1>6. GatewaysArmed'
  BY ConstAssumption, EventSets, NewUserType
  DEF IInv, TypeOK, GatewaysArmed, Expected, Checked, Forgotten, UsersOwnDescriptors,
      EventsHaveUsers, PollsHaveGateways, HandleServer, Handling, Handled
<1>7. NotPrepared'
  BY ConstAssumption, EventSets, NewUserType
  DEF IInv, TypeOK, NotPrepared, UsersOwnDescriptors, HandleServer, Handling,
      Handled
<1>8. WriteLoopsKept'
  BY ConstAssumption, EventSets, NewUserType
  DEF IInv, TypeOK, WriteLoopsKept, NotPrepared, UsersOwnDescriptors,
      HandleServer, Handling, Handled
<1>9. StraysAreLate'
  BY ConstAssumption, EventSets, NewUserType
  DEF IInv, TypeOK, StraysAreLate, NotPrepared, WriteLoopsKept,
      UsersOwnDescriptors, HandleServer, Handling, Handled
<1> QED  BY <1>1, <1>2, <1>3, <1>4, <1>5, <1>6, <1>7, <1>8, <1>9 DEF IInv

\* A free descriptor has no event left in the batch, so the new user starts
\* with none.
LEMMA AcceptKeeps ==
  ASSUME NEW c \in Conn, NEW fd \in Fd, IInv, Accept(c, fd)
  PROVE  IInv'
<1>1. TypeOK'
  BY ConstAssumption, EventSets, NewUserType, SMTT(30)
  DEF IInv, TypeOK, Accept
<1>2. UsersOwnDescriptors'
  <2>1. \A f \in Fd : table[f] # c
    BY ConstAssumption DEF IInv, UsersOwnDescriptors, Accept, TypeOK
  <2>2. \A f \in Fd, d \in Conn : table'[f] = d <=> owner'[f] = d
    BY ConstAssumption DEF IInv, TypeOK, UsersOwnDescriptors, Accept
  <2>3. \A f, g \in Fd : table'[f] # None /\ table'[f] = table'[g] => f = g
    BY <2>1, ConstAssumption DEF IInv, TypeOK, UsersOwnDescriptors, Accept
  <2>4. Users' \subseteq Users \cup {c}
    BY DEF IInv, TypeOK, Accept
  <2>5. \A d \in Users' : client'[d] # "new" /\ d \notin backlog'
    BY <2>4 DEF IInv, UsersOwnDescriptors, NotPrepared, Accept
  <2> QED  BY <2>2, <2>3, <2>5 DEF UsersOwnDescriptors
<1>3. EventsHaveUsers'
  BY ConstAssumption, EventSets, NewUserType, SMTT(30)
  DEF IInv, TypeOK, EventsHaveUsers, UsersOwnDescriptors, Accept
<1>4. PollsHaveGateways'
  BY ConstAssumption, EventSets, NewUserType, SMTT(30)
  DEF IInv, TypeOK, PollsHaveGateways, UsersOwnDescriptors, EventsHaveUsers,
      Accept
<1>5. UsersArmed'
  BY ConstAssumption, EventSets, NewUserType, SMTT(30)
  DEF IInv, TypeOK, UsersArmed, UsersOwnDescriptors, EventsHaveUsers,
      PollsHaveGateways, Accept
<1>6. GatewaysArmed'
  BY ConstAssumption, EventSets, NewUserType, SMTT(30)
  DEF IInv, TypeOK, GatewaysArmed, Expected, Checked, Forgotten, UsersOwnDescriptors,
      EventsHaveUsers, PollsHaveGateways, Accept
<1>7. NotPrepared'
  BY ConstAssumption, EventSets, NewUserType, SMTT(30)
  DEF IInv, TypeOK, NotPrepared, UsersOwnDescriptors, Accept
<1>8. WriteLoopsKept'
  BY ConstAssumption, EventSets, NewUserType, SMTT(30)
  DEF IInv, TypeOK, WriteLoopsKept, NotPrepared, UsersOwnDescriptors, Accept
<1>9. StraysAreLate'
  BY ConstAssumption, EventSets, NewUserType, SMTT(30)
  DEF IInv, TypeOK, StraysAreLate, NotPrepared, WriteLoopsKept,
      UsersOwnDescriptors, Accept
<1> QED  BY <1>1, <1>2, <1>3, <1>4, <1>5, <1>6, <1>7, <1>8, <1>9 DEF IInv

\* The end of the accept loop arms the listening socket only.
LEMMA AcceptEndKeeps ==
  ASSUME IInv, AcceptEnd
  PROVE  IInv'
<1>1. TypeOK'
  BY ConstAssumption, EventSets, NewUserType
  DEF IInv, TypeOK, AcceptEnd
<1>2. UsersOwnDescriptors'
  BY ConstAssumption, EventSets, NewUserType
  DEF IInv, TypeOK, UsersOwnDescriptors, AcceptEnd
<1>3. EventsHaveUsers'
  BY ConstAssumption, EventSets, NewUserType
  DEF IInv, TypeOK, EventsHaveUsers, UsersOwnDescriptors, AcceptEnd
<1>4. PollsHaveGateways'
  BY ConstAssumption, EventSets, NewUserType
  DEF IInv, TypeOK, PollsHaveGateways, UsersOwnDescriptors, EventsHaveUsers,
      AcceptEnd
<1>5. UsersArmed'
  BY ConstAssumption, EventSets, NewUserType
  DEF IInv, TypeOK, UsersArmed, UsersOwnDescriptors, EventsHaveUsers,
      PollsHaveGateways, AcceptEnd
<1>6. GatewaysArmed'
  BY ConstAssumption, EventSets, NewUserType
  DEF IInv, TypeOK, GatewaysArmed, Expected, Checked, Forgotten, UsersOwnDescriptors,
      EventsHaveUsers, PollsHaveGateways, AcceptEnd
<1>7. NotPrepared'
  BY ConstAssumption, EventSets, NewUserType
  DEF IInv, TypeOK, NotPrepared, UsersOwnDescriptors, AcceptEnd
<1>8. WriteLoopsKept'
  BY ConstAssumption, EventSets, NewUserType
  DEF IInv, TypeOK, WriteLoopsKept, NotPrepared, UsersOwnDescriptors,
      AcceptEnd
<1>9. StraysAreLate'
  BY ConstAssumption, EventSets, NewUserType
  DEF IInv, TypeOK, StraysAreLate, NotPrepared, WriteLoopsKept,
      UsersOwnDescriptors, AcceptEnd
<1> QED  BY <1>1, <1>2, <1>3, <1>4, <1>5, <1>6, <1>7, <1>8, <1>9 DEF IInv

-----------------------------------------------------------------------------
(* The end of users and of the loop.                                       *)

\* A client that hung up takes its user and its descriptor away.
LEMMA HangUpKeeps ==
  ASSUME NEW fd \in Fd, IInv, HangUp(fd), table[fd] # None
  PROVE  IInv'
<1>1. TypeOK'
  BY ConstAssumption, EventSets, NewUserType, SMTT(30)
  DEF IInv, TypeOK, HangUp, Handling, Erase, Handled
<1>2. UsersOwnDescriptors'
  BY ConstAssumption, EventSets, NewUserType, SMTT(30)
  DEF IInv, TypeOK, UsersOwnDescriptors, HangUp, Handling, Erase, Handled
<1>3. EventsHaveUsers'
  BY ConstAssumption, EventSets, NewUserType, SMTT(30)
  DEF IInv, TypeOK, EventsHaveUsers, UsersOwnDescriptors, HangUp, Handling,
      Erase, Handled
<1>4. PollsHaveGateways'
  BY ConstAssumption, EventSets, NewUserType, SMTT(30)
  DEF IInv, TypeOK, PollsHaveGateways, UsersOwnDescriptors, EventsHaveUsers,
      HangUp, Handling, Erase, Handled
<1>5. UsersArmed'
  BY ConstAssumption, EventSets, NewUserType, SMTT(30)
  DEF IInv, TypeOK, UsersArmed, UsersOwnDescriptors, EventsHaveUsers,
      PollsHaveGateways, HangUp, Handling, Erase, Handled
<1>6. GatewaysArmed'
  BY ConstAssumption, EventSets, NewUserType, SMTT(30)
  DEF IInv, TypeOK, GatewaysArmed, Expected, Checked, Forgotten, UsersOwnDescriptors,
      EventsHaveUsers, PollsHaveGateways, HangUp, Handling, Erase, Handled
<1>7. NotPrepared'
  BY ConstAssumption, EventSets, NewUserType, SMTT(30)
  DEF IInv, TypeOK, NotPrepared, UsersOwnDescriptors, HangUp, Handling, Erase,
      Handled
<1>8. WriteLoopsKept'
  BY ConstAssumption, EventSets, NewUserType, SMTT(30)
  DEF IInv, TypeOK, WriteLoopsKept, NotPrepared, UsersOwnDescriptors, HangUp,
      Handling, Erase, Handled
<1>9. StraysAreLate'
  BY ConstAssumption, EventSets, NewUserType, SMTT(30)
  DEF IInv, TypeOK, StraysAreLate, NotPrepared, WriteLoopsKept,
      UsersOwnDescriptors, HangUp, Handling, Erase, Handled
<1> QED  BY <1>1, <1>2, <1>3, <1>4, <1>5, <1>6, <1>7, <1>8, <1>9 DEF IInv

\* So do the users that were idle for too long, all at once.
LEMMA EliminateKeeps ==
  ASSUME IInv, Eliminate
  PROVE  IInv'
<1>1. TypeOK'
  BY ConstAssumption, EventSets, NewUserType, SMTT(30)
  DEF IInv, TypeOK, Eliminate, Erase
<1>2. UsersOwnDescriptors'
  BY ConstAssumption, EventSets, NewUserType, SMTT(30)
  DEF IInv, TypeOK, UsersOwnDescriptors, Eliminate, Erase
<1>3. EventsHaveUsers'
  BY ConstAssumption, EventSets, NewUserType, SMTT(30)
  DEF IInv, TypeOK, EventsHaveUsers, UsersOwnDescriptors, Eliminate, Erase
<1>4. PollsHaveGateways'
  BY ConstAssumption, EventSets, NewUserType, SMTT(30)
  DEF IInv, TypeOK, PollsHaveGateways, UsersOwnDescriptors, EventsHaveUsers,
      Eliminate, Erase
<1>5. UsersArmed'
  BY ConstAssumption, EventSets, NewUserType, SMTT(30)
  DEF IInv, TypeOK, UsersArmed, UsersOwnDescriptors, EventsHaveUsers,
      PollsHaveGateways, Eliminate, Erase
<1>6. GatewaysArmed'
  BY ConstAssumption, EventSets, NewUserType, SMTT(30)
  DEF IInv, TypeOK, GatewaysArmed, Expected, Checked, Forgotten, UsersOwnDescriptors,
      EventsHaveUsers, PollsHaveGateways, Eliminate, Erase
<1>7. NotPrepared'
  BY ConstAssumption, EventSets, NewUserType, SMTT(30)
  DEF IInv, TypeOK, NotPrepared, UsersOwnDescriptors, Eliminate, Erase
<1>8. WriteLoopsKept'
  BY ConstAssumption, EventSets, NewUserType, SMTT(30)
  DEF IInv, TypeOK, WriteLoopsKept, NotPrepared, UsersOwnDescriptors,
      Eliminate, Erase
<1>9. StraysAreLate'
  BY ConstAssumption, EventSets, NewUserType, SMTT(30)
  DEF IInv, TypeOK, StraysAreLate, NotPrepared, WriteLoopsKept,
      UsersOwnDescriptors, Eliminate, Erase
<1> QED  BY <1>1, <1>2, <1>3, <1>4, <1>5, <1>6, <1>7, <1>8, <1>9 DEF IInv

\* A stopped loop has neither users nor requests.
LEMMA HaltKeeps ==
  ASSUME NEW p \in {"returned", "crashed"}, IInv, Halt(p)
  PROVE  IInv'
<1>1. TypeOK'
  BY ConstAssumption, EventSets, NewUserType
  DEF IInv, TypeOK, Halt
<1>2. UsersOwnDescriptors'
  BY ConstAssumption, EventSets, NewUserType
  DEF IInv, TypeOK, UsersOwnDescriptors, Halt
<1>3. EventsHaveUsers'
  BY ConstAssumption, EventSets, NewUserType
  DEF IInv, TypeOK, EventsHaveUsers, UsersOwnDescriptors, Halt
<1>4. PollsHaveGateways'
  BY ConstAssumption, EventSets, NewUserType
  DEF IInv, TypeOK, PollsHaveGateways, UsersOwnDescriptors, EventsHaveUsers,
      Halt
<1>5. UsersArmed'
  BY ConstAssumption, EventSets, NewUserType
  DEF IInv, TypeOK, UsersArmed, UsersOwnDescriptors, EventsHaveUsers,
      PollsHaveGateways, Halt
<1>6. GatewaysArmed'
  BY ConstAssumption, EventSets, NewUserType
  DEF IInv, TypeOK, GatewaysArmed, Expected, Checked, Forgotten, UsersOwnDescriptors,
      EventsHaveUsers, PollsHaveGateways, Halt
<1>7. NotPrepared'
  BY ConstAssumption, EventSets, NewUserType
  DEF IInv, TypeOK, NotPrepared, UsersOwnDescriptors, Halt
<1>8. WriteLoopsKept'
  BY ConstAssumption, EventSets, NewUserType
  DEF IInv, TypeOK, WriteLoopsKept, NotPrepared, UsersOwnDescriptors, Halt
<1>9. StraysAreLate'
  BY ConstAssumption, EventSets, NewUserType
  DEF IInv, TypeOK, StraysAreLate, NotPrepared, WriteLoopsKept,
      UsersOwnDescriptors, Halt
<1> QED  BY <1>1, <1>2, <1>3, <1>4, <1>5, <1>6, <1>7, <1>8, <1>9 DEF IInv

-----------------------------------------------------------------------------
(* Reads and writes of the users.                                          *)

\* The event of a user is handled for the user: it is in the table, owns the
\* descriptor, and its WriteLoop is on that descriptor.
LEMMA HandledUser ==
  ASSUME NEW fd \in Fd, IInv, Handling(fd)
  PROVE  /\ table[fd] \in Conn /\ owner[fd] = table[fd]
         /\ table[fd] \notin backlog /\ client[table[fd]] # "new"
         /\ wfd[table[fd]] \in {None, fd}
         /\ (IF wfd[table[fd]] = None THEN fd ELSE wfd[table[fd]]) = fd
         /\ \A f \in Fd : table[f] = table[fd] => f = fd
BY DEF IInv, TypeOK, Handling, EventsHaveUsers, UsersOwnDescriptors, WriteLoopsKept

\* Sending on a descriptor one owns reaches nobody else.
LEMMA OwnDoAll ==
  ASSUME NEW c \in Conn, NEW w \in Fd, owner[w] = c, TypeOK,
         NEW pend \in BOOLEAN, NEW q \in BOOLEAN, DoAll(c, w, pend, q)
  PROVE  /\ queued' \in [Conn -> BOOLEAN] /\ room' \in [Conn -> BOOLEAN]
         /\ strays' = strays
BY DEF DoAll, TypeOK

\* What is common to doReadable and doWriteable: the user is prepared, then
\* adapted, and sockets that were free may now belong to gateways.
LEMMA AdaptKeeps ==
  ASSUME NEW fd \in Fd, IInv, Handling(fd), Handled(fd),
         NEW u \in UserState, NEW q \in BOOLEAN, NEW G \in SUBSET Free,
         NEW peer, G # {} => peer \in Peers,
         Adapt(fd, u, q, G, peer), Delegate(table[fd], G),
         wfd' = [wfd EXCEPT ![table[fd]] = fd],
         queued' \in [Conn -> BOOLEAN], room' \in [Conn -> BOOLEAN],
         unread' \in [Conn -> BOOLEAN], strays' = strays,
         UNCHANGED <<client, acts, backlog, phase>>
  PROVE  IInv'
<1>0. /\ phase = "dispatch" /\ fd \notin G /\ \A g \in G : owner[g] = None /\ batch[g] = {}
  BY HandledUser, ConstAssumption DEF IInv, TypeOK, Handling, EventsHaveUsers, UsersOwnDescriptors
<1>1. TypeOK'
  <2>1. table' \in [Fd -> Conn \cup {None}] /\ user' \in [Conn -> UserState]
    BY <1>0, HandledUser, NewUserType DEF IInv, TypeOK, Adapt
  <2>2. owner' \in [Fd -> Conn \cup Peers \cup {None}]
    BY DEF IInv, TypeOK, Adapt
  <2>3. interest' \in [Watched -> SUBSET Events]
    BY EventSets DEF IInv, TypeOK, Adapt
  <2>4. /\ providing' \in [Fd -> Conn \cup {None}]
        /\ stage' \in [Fd -> {"kFSBegin", "kFSRecving", "kFSForwarding"}]
    BY HandledUser DEF IInv, TypeOK, Delegate
  <2>5. batch' \in [Watched -> SUBSET Events] /\ wfd' \in [Conn -> Fd \cup {None}]
    BY EventSets DEF IInv, TypeOK, Handled
  <2> QED  BY <2>1, <2>2, <2>3, <2>4, <2>5 DEF IInv, TypeOK
<1>2. UsersOwnDescriptors'
  BY ConstAssumption, <1>0, HandledUser, EventSets, NewUserType, SMTT(30)
  DEF IInv, TypeOK, UsersOwnDescriptors, Adapt, Delegate, Handled
<1>3. EventsHaveUsers'
  BY ConstAssumption, <1>0, HandledUser, EventSets, NewUserType, SMTT(30)
  DEF IInv, TypeOK, EventsHaveUsers, UsersOwnDescriptors, Adapt, Delegate,
      Handled
<1>4. PollsHaveGateways'
  BY ConstAssumption, <1>0, HandledUser, EventSets, NewUserType, SMTT(30)
  DEF IInv, TypeOK, PollsHaveGateways, UsersOwnDescriptors, EventsHaveUsers,
      Adapt, Delegate, Handled
<1>5. UsersArmed'
  BY ConstAssumption, <1>0, HandledUser, EventSets, NewUserType, SMTT(30)
  DEF IInv, TypeOK, UsersArmed, UsersOwnDescriptors, EventsHaveUsers,
      PollsHaveGateways, Adapt, Delegate, Handled
<1>6. GatewaysArmed'
  BY ConstAssumption, <1>0, HandledUser, EventSets, NewUserType, SMTT(30)
  DEF IInv, TypeOK, GatewaysArmed, Expected, Checked, Forgotten, UsersOwnDescriptors,
      EventsHaveUsers, PollsHaveGateways, Adapt, Delegate, Handled
<1>7. NotPrepared'
  BY ConstAssumption, <1>0, HandledUser, EventSets, NewUserType, SMTT(30)
  DEF IInv, TypeOK, NotPrepared, UsersOwnDescriptors, Adapt, Delegate, Handled
<1>8. WriteLoopsKept'
  BY ConstAssumption, <1>0, HandledUser, EventSets, NewUserType, SMTT(30)
  DEF IInv, TypeOK, WriteLoopsKept, NotPrepared, UsersOwnDescriptors, Adapt,
      Delegate, Handled
<1>9. StraysAreLate'
  BY ConstAssumption, <1>0, HandledUser, EventSets, NewUserType, SMTT(30)
  DEF IInv, TypeOK, StraysAreLate, NotPrepared, WriteLoopsKept,
      UsersOwnDescriptors, Adapt, Delegate, Handled
<1> QED  BY <1>1, <1>2, <1>3, <1>4, <1>5, <1>6, <1>7, <1>8, <1>9 DEF IInv

\* A read event, whatever the parser makes of the bytes.
LEMMA ReadableKeeps ==
  ASSUME NEW fd \in Fd, IInv, Readable(fd)
  PROVE  IInv'
<1> DEFINE c == table[fd]
<1>1. Handling(fd) /\ c # None
  BY HandledUser, ConstAssumption DEF Readable
<1>2. PICK read \in Outcomes(c), alive \in BOOLEAN, q \in BOOLEAN :
        \E G \in GatewaySockets(user[c].mark \/ read = "fcgi"), peer \in Peers :
          /\ Handled(fd)
          /\ unread' = [unread EXCEPT ![c] = @ /\ ~Received(c)]
          /\ wfd' = [wfd EXCEPT ![c] = fd]
          /\ DoAll(c, fd, queued[c] \/ read = "page", q)
          /\ Delegate(c, G)
          /\ Adapt(fd,
                   [done |-> read # "part",
                    keep |-> user[c].keep \/ (read # "part" /\ alive),
                    mark |-> user[c].mark \/ read = "fcgi",
                    filled |-> user[c].filled + (IF Received(c) THEN 1 ELSE 0),
                    age |-> 0], q, G, peer)
          /\ UNCHANGED <<client, acts, backlog, phase>>
  BY <1>1, HandledUser DEF Readable
<1> DEFINE u == [done |-> read # "part",
                 keep |-> user[c].keep \/ (read # "part" /\ alive),
                 mark |-> user[c].mark \/ read = "fcgi",
                 filled |-> user[c].filled + (IF Received(c) THEN 1 ELSE 0),
                 age |-> 0]
<1>3. u \in UserState
  BY <1>1, HandledUser, ConstAssumption DEF IInv, TypeOK, UserState, Received
<1>4. PICK G \in GatewaySockets(user[c].mark \/ read = "fcgi"), peer \in Peers :
        /\ Handled(fd)
        /\ unread' = [unread EXCEPT ![c] = @ /\ ~Received(c)]
        /\ wfd' = [wfd EXCEPT ![c] = fd]
        /\ DoAll(c, fd, queued[c] \/ read = "page", q)
        /\ Delegate(c, G) /\ Adapt(fd, u, q, G, peer)
        /\ UNCHANGED <<client, acts, backlog, phase>>
  BY <1>2
<1>5. G \in SUBSET Free
  BY <1>4 DEF GatewaySockets
<1>6. /\ queued' \in [Conn -> BOOLEAN] /\ room' \in [Conn -> BOOLEAN]
      /\ strays' = strays
  <2> DEFINE pend == queued[c] \/ read = "page"
  <2>1. pend \in BOOLEAN
    OBVIOUS
  <2>2. c \in Conn /\ owner[fd] = c
    BY <1>1, HandledUser
  <2>3. DoAll(c, fd, pend, q)
    BY <1>4
  <2>4. TypeOK
    BY DEF IInv
  <2> HIDE DEF pend, c
  <2> QED  BY <2>1, <2>2, <2>3, <2>4, OwnDoAll
<1>7. unread' \in [Conn -> BOOLEAN]
  BY <1>4 DEF IInv, TypeOK
<1>8. q \in BOOLEAN
  BY <1>2
<1>9. /\ Handled(fd) /\ Handling(fd)
      /\ wfd' = [wfd EXCEPT ![table[fd]] = fd]
      /\ Delegate(table[fd], G) /\ Adapt(fd, u, q, G, peer)
      /\ UNCHANGED <<client, acts, backlog, phase>>
  BY <1>1, <1>4
<1> HIDE DEF u, c
<1> QED  BY <1>3, <1>5, <1>6, <1>7, <1>8, <1>9, AdaptKeeps

\* A write event.
LEMMA WriteableKeeps ==
  ASSUME NEW fd \in Fd, IInv, Writeable(fd)
  PROVE  IInv'
<1> DEFINE c == table[fd]
<1>1. Handling(fd) /\ c # None /\ c \in Conn
  BY HandledUser, ConstAssumption DEF Writeable
<1> DEFINE u == [user[c] EXCEPT !.age = 0]
<1>2. PICK q \in BOOLEAN :
        /\ Handled(fd)
        /\ wfd' = [wfd EXCEPT ![c] = fd]
        /\ DoAll(c, fd, queued[c], q)
        /\ Adapt(fd, u, q, {}, None)
        /\ UNCHANGED <<kernel, phase, fcgi>>
  BY <1>1, HandledUser DEF Writeable
<1>3. u \in UserState
  <2>1. user[c] \in UserState
    BY <1>1 DEF IInv, TypeOK
  <2> HIDE DEF c
  <2> QED  BY <2>1, ConstAssumption DEF UserState
<1>4. Delegate(c, {})
  BY <1>2 DEF IInv, TypeOK, Delegate
<1>5. /\ queued' \in [Conn -> BOOLEAN] /\ room' \in [Conn -> BOOLEAN]
      /\ strays' = strays
  <2>1. c \in Conn /\ owner[fd] = c
    BY <1>1, HandledUser
  <2>2. TypeOK /\ queued[c] \in BOOLEAN
    BY <1>1 DEF IInv, TypeOK
  <2>3. DoAll(c, fd, queued[c], q)
    BY <1>2
  <2> HIDE DEF c
  <2> QED  BY <2>1, <2>2, <2>3, OwnDoAll
<1>6. unread' \in [Conn -> BOOLEAN] /\ {} \in SUBSET Free
  BY <1>2 DEF IInv, TypeOK
<1>7. UNCHANGED <<client, acts, backlog, phase>>
  BY <1>2
<1> HIDE DEF u, c
<1> QED  BY <1>1, <1>2, <1>3, <1>4, <1>5, <1>6, <1>7, AdaptKeeps DEF c

-----------------------------------------------------------------------------
(* The poll of the gateways.                                               *)

\* A request that was sent awaits its answer armed for reading.
LEMMA SentKeeps ==
  ASSUME NEW g \in Fd, IInv, Sent(g)
  PROVE  IInv'
<1>1. TypeOK'
  BY ConstAssumption, EventSets, NewUserType, SMTT(30)
  DEF IInv, TypeOK, Sent, Polled, Handled, Unregister
<1>2. UsersOwnDescriptors'
  BY ConstAssumption, EventSets, NewUserType, SMTT(30)
  DEF IInv, TypeOK, UsersOwnDescriptors, Sent, Polled, Handled, Unregister
<1>3. EventsHaveUsers'
  BY ConstAssumption, EventSets, NewUserType, SMTT(30)
  DEF IInv, TypeOK, EventsHaveUsers, UsersOwnDescriptors, Sent, Polled,
      Handled, Unregister
<1>4. PollsHaveGateways'
  BY ConstAssumption, EventSets, NewUserType, SMTT(30)
  DEF IInv, TypeOK, PollsHaveGateways, UsersOwnDescriptors, EventsHaveUsers,
      Sent, Polled, Handled, Unregister
<1>5. UsersArmed'
  BY ConstAssumption, EventSets, NewUserType, SMTT(30)
  DEF IInv, TypeOK, UsersArmed, UsersOwnDescriptors, EventsHaveUsers,
      PollsHaveGateways, Sent, Polled, Handled, Unregister
<1>6. GatewaysArmed'
  BY ConstAssumption, EventSets, NewUserType, SMTT(30)
  DEF IInv, TypeOK, GatewaysArmed, Expected, Checked, Forgotten, UsersOwnDescriptors,
      EventsHaveUsers, PollsHaveGateways, Sent, Polled, Handled, Unregister
<1>7. NotPrepared'
  BY ConstAssumption, EventSets, NewUserType, SMTT(30)
  DEF IInv, TypeOK, NotPrepared, UsersOwnDescriptors, Sent, Polled, Handled,
      Unregister
<1>8. WriteLoopsKept'
  BY ConstAssumption, EventSets, NewUserType, SMTT(30)
  DEF IInv, TypeOK, WriteLoopsKept, NotPrepared, UsersOwnDescriptors, Sent,
      Polled, Handled, Unregister
<1>9. StraysAreLate'
  BY ConstAssumption, EventSets, NewUserType, SMTT(30)
  DEF IInv, TypeOK, StraysAreLate, NotPrepared, WriteLoopsKept,
      UsersOwnDescriptors, Sent, Polled, Handled, Unregister
<1> QED  BY <1>1, <1>2, <1>3, <1>4, <1>5, <1>6, <1>7, <1>8, <1>9 DEF IInv

\* An incomplete header leaves the request armed for more.
LEMMA WaitingKeeps ==
  ASSUME NEW g \in Fd, IInv, Waiting(g)
  PROVE  IInv'
<1>1. TypeOK'
  BY ConstAssumption, EventSets, NewUserType, SMTT(30)
  DEF IInv, TypeOK, Waiting, Polled, Handled
<1>2. UsersOwnDescriptors'
  BY ConstAssumption, EventSets, NewUserType, SMTT(30)
  DEF IInv, TypeOK, UsersOwnDescriptors, Waiting, Polled, Handled
<1>3. EventsHaveUsers'
  BY ConstAssumption, EventSets, NewUserType, SMTT(30)
  DEF IInv, TypeOK, EventsHaveUsers, UsersOwnDescriptors, Waiting, Polled,
      Handled
<1>4. PollsHaveGateways'
  BY ConstAssumption, EventSets, NewUserType, SMTT(30)
  DEF IInv, TypeOK, PollsHaveGateways, UsersOwnDescriptors, EventsHaveUsers,
      Waiting, Polled, Handled
<1>5. UsersArmed'
  BY ConstAssumption, EventSets, NewUserType, SMTT(30)
  DEF IInv, TypeOK, UsersArmed, UsersOwnDescriptors, EventsHaveUsers,
      PollsHaveGateways, Waiting, Polled, Handled
<1>6. GatewaysArmed'
  BY ConstAssumption, EventSets, NewUserType, SMTT(30)
  DEF IInv, TypeOK, GatewaysArmed, Expected, Checked, Forgotten, UsersOwnDescriptors,
      EventsHaveUsers, PollsHaveGateways, Waiting, Polled, Handled
<1>7. NotPrepared'
  BY ConstAssumption, EventSets, NewUserType, SMTT(30)
  DEF IInv, TypeOK, NotPrepared, UsersOwnDescriptors, Waiting, Polled, Handled
<1>8. WriteLoopsKept'
  BY ConstAssumption, EventSets, NewUserType, SMTT(30)
  DEF IInv, TypeOK, WriteLoopsKept, NotPrepared, UsersOwnDescriptors, Waiting,
      Polled, Handled
<1>9. StraysAreLate'
  BY ConstAssumption, EventSets, NewUserType, SMTT(30)
  DEF IInv, TypeOK, StraysAreLate, NotPrepared, WriteLoopsKept,
      UsersOwnDescriptors, Waiting, Polled, Handled
<1> QED  BY <1>1, <1>2, <1>3, <1>4, <1>5, <1>6, <1>7, <1>8, <1>9 DEF IInv

\* A loop that spins handles nothing more.
LEMMA SpinKeeps ==
  ASSUME NEW g \in Fd, IInv, Spin(g)
  PROVE  IInv'
<1>1. TypeOK'
  BY ConstAssumption, EventSets, NewUserType, SMTT(30)
  DEF IInv, TypeOK, Spin, Polled, Handled
<1>2. UsersOwnDescriptors'
  BY ConstAssumption, EventSets, NewUserType, SMTT(30)
  DEF IInv, TypeOK, UsersOwnDescriptors, Spin, Polled, Handled
<1>3. EventsHaveUsers'
  BY ConstAssumption, EventSets, NewUserType, SMTT(30)
  DEF IInv, TypeOK, EventsHaveUsers, UsersOwnDescriptors, Spin, Polled,
      Handled
<1>4. PollsHaveGateways'
  BY ConstAssumption, EventSets, NewUserType, SMTT(30)
  DEF IInv, TypeOK, PollsHaveGateways, UsersOwnDescriptors, EventsHaveUsers,
      Spin, Polled, Handled
<1>5. UsersArmed'
  BY ConstAssumption, EventSets, NewUserType, SMTT(30)
  DEF IInv, TypeOK, UsersArmed, UsersOwnDescriptors, EventsHaveUsers,
      PollsHaveGateways, Spin, Polled, Handled
<1>6. GatewaysArmed'
  BY ConstAssumption, EventSets, NewUserType, SMTT(30)
  DEF IInv, TypeOK, GatewaysArmed, Expected, Checked, Forgotten, UsersOwnDescriptors,
      EventsHaveUsers, PollsHaveGateways, Spin, Polled, Handled
<1>7. NotPrepared'
  BY ConstAssumption, EventSets, NewUserType, SMTT(30)
  DEF IInv, TypeOK, NotPrepared, UsersOwnDescriptors, Spin, Polled, Handled
<1>8. WriteLoopsKept'
  BY ConstAssumption, EventSets, NewUserType, SMTT(30)
  DEF IInv, TypeOK, WriteLoopsKept, NotPrepared, UsersOwnDescriptors, Spin,
      Polled, Handled
<1>9. StraysAreLate'
  BY ConstAssumption, EventSets, NewUserType, SMTT(30)
  DEF IInv, TypeOK, StraysAreLate, NotPrepared, WriteLoopsKept,
      UsersOwnDescriptors, Spin, Polled, Handled
<1> QED  BY <1>1, <1>2, <1>3, <1>4, <1>5, <1>6, <1>7, <1>8, <1>9 DEF IInv

\* A socket that only hung up has nothing in progress, or its connect failed.
LEMMA UnansweredKeeps ==
  ASSUME NEW g \in Fd, IInv, Unanswered(g)
  PROVE  IInv'
<1>1. /\ phase = "polling" /\ phase' = phase
      /\ batch' = [batch EXCEPT ![g] = {}]
      /\ UNCHANGED <<kernel, interest, owner, users, output, fcgi>>
  BY DEF Unanswered, Polled, Unregister, Handled
<1>2. \A fd \in Fd : table[fd] # None => batch[fd] = {} /\ batch'[fd] = {}
  BY <1>1, ConstAssumption
  DEF IInv, TypeOK, PollsHaveGateways, UsersOwnDescriptors
<1>3. \A x \in Watched : batch'[x] = IF x = g THEN {} ELSE batch[x]
  BY <1>1 DEF IInv, TypeOK
<1>4. TypeOK'
  BY <1>1, EventSets DEF IInv, TypeOK
<1>5. UsersOwnDescriptors' /\ NotPrepared' /\ WriteLoopsKept' /\ StraysAreLate'
  BY <1>1 DEF IInv, UsersOwnDescriptors, NotPrepared, WriteLoopsKept, StraysAreLate
<1>6. EventsHaveUsers'
  BY <1>1 DEF EventsHaveUsers
<1>7. PollsHaveGateways' /\ UsersArmed'
  BY <1>1, <1>2, <1>3 DEF IInv, PollsHaveGateways, UsersArmed
<1>8. GatewaysArmed'
  <2> SUFFICES ASSUME NEW f \in Fd, providing[f] # None
               PROVE  /\ owner[f] \in Peers
                      /\ \/ interest[f] = Expected(f) /\ batch'[f] = {}
                         \/ /\ interest[f] = {}
                            /\ batch'[f] \cap Checked = Expected(f) \cap Checked
                         \/ /\ owner[f] = Refused /\ stage[f] = "kFSRecving"
                            /\ interest[f] = {} /\ batch'[f] \subseteq {"HUP"}
                      /\ stage[f] = "kFSForwarding" => owner[f] = Gateway
    BY <1>1 DEF GatewaysArmed, Expected, Forgotten
  <2>1. /\ owner[f] \in Peers
        /\ \/ interest[f] = Expected(f) /\ batch[f] = {}
           \/ /\ interest[f] = {}
              /\ batch[f] \cap Checked = Expected(f) \cap Checked
           \/ /\ owner[f] = Refused /\ stage[f] = "kFSRecving"
              /\ interest[f] = {} /\ batch[f] \subseteq {"HUP"}
        /\ stage[f] = "kFSForwarding" => owner[f] = Gateway
    BY <1>1 DEF IInv, GatewaysArmed, Forgotten
  <2>2. CASE f # g
    BY <1>3, <2>1, <2>2
  <2>3. CASE f = g
    <3>1. Expected(f) \cap Checked # {} /\ batch[f] \cap Checked = {}
      BY <2>3 DEF Unanswered, Expected, Checked, ETEOReadable, ETEOWriteable
    <3>2. batch'[f] = {} /\ batch[f] # {}
      BY <1>3, <2>3 DEF Unanswered, Polled
    <3> QED  BY <2>1, <3>1, <3>2
  <2> QED  BY <2>2, <2>3
<1> QED  BY <1>4, <1>5, <1>6, <1>7, <1>8 DEF IInv

\* Sending on the descriptor a WriteLoop remembers: if its user lives, the
\* descriptor is the user's own; if bytes stray, the user is gone.
LEMMA LateDoAll ==
  ASSUME NEW c \in Conn, IInv, wfd[c] # None, NEW q \in BOOLEAN,
         DoAll(c, wfd[c], TRUE, q)
  PROVE  /\ queued' \in [Conn -> BOOLEAN] /\ room' \in [Conn -> BOOLEAN]
         /\ strays' \in SUBSET (Conn \X (Conn \cup {Gateway}))
         /\ \A s \in strays' : s \in strays \/ (s[1] = c /\ c \notin Users)
<1>1. wfd[c] \in Fd /\ owner[wfd[c]] \in Conn \cup Peers \cup {None}
  BY DEF IInv, TypeOK
<1>2. c \in Users => owner[wfd[c]] = c
  BY DEF IInv, TypeOK, UsersOwnDescriptors, WriteLoopsKept
<1>3. strays' \in SUBSET (Conn \X (Conn \cup {Gateway}))
  BY <1>1 DEF IInv, TypeOK, DoAll
<1>4. \A s \in strays' : s \in strays \/ (s[1] = c /\ c \notin Users)
  BY <1>2 DEF DoAll
<1>5. queued' \in [Conn -> BOOLEAN] /\ room' \in [Conn -> BOOLEAN]
  BY DEF IInv, TypeOK, DoAll
<1> QED  BY <1>3, <1>4, <1>5

\* A reply moves on: its request stays armed or goes.
LEMMA ForwardKeeps ==
  ASSUME NEW g \in Fd, IInv, Forward(g)
  PROVE  IInv'
<1>1. CASE providing[g] = None \/ stage[g] = "kFSBegin"
  <2>a. /\ phase = "polling" /\ Handled(g)
        /\ UNCHANGED <<kernel, phase, interest, owner, users, output, fcgi>>
    BY <1>1 DEF Forward, Polled, Unregister
  <2>b. \A fd \in Fd : table[fd] # None => batch[fd] = {} /\ batch'[fd] = {}
    BY <2>a, ConstAssumption
    DEF IInv, TypeOK, PollsHaveGateways, UsersOwnDescriptors, Handled
  <2>c. providing[g] = None
    BY <1>1, <2>a, EventSets
    DEF IInv, GatewaysArmed, Expected, Checked, Forgotten, Forward, Polled
  <2>1. TypeOK'
    BY ConstAssumption, <2>a, <2>b, <1>1, EventSets, SMTT(30)
    DEF IInv, TypeOK, Handled
  <2>2. UsersOwnDescriptors'
    BY ConstAssumption, <2>a, <2>b, <1>1, EventSets, SMTT(30)
    DEF IInv, TypeOK, UsersOwnDescriptors, Handled
  <2>3. EventsHaveUsers'
    BY ConstAssumption, <2>a, <2>b, <1>1, EventSets, SMTT(30)
    DEF IInv, TypeOK, EventsHaveUsers, UsersOwnDescriptors, Handled
  <2>4. PollsHaveGateways'
    BY ConstAssumption, <2>a, <2>b, <1>1, EventSets, SMTT(30)
    DEF IInv, TypeOK, PollsHaveGateways, UsersOwnDescriptors, EventsHaveUsers,
        Handled
  <2>5. UsersArmed'
    BY ConstAssumption, <2>a, <2>b, <1>1, EventSets, SMTT(30)
    DEF IInv, TypeOK, UsersArmed, UsersOwnDescriptors, EventsHaveUsers,
        PollsHaveGateways, Handled
  <2>6. GatewaysArmed'
    BY ConstAssumption, <2>a, <2>b, <2>c, EventSets, SMTT(30)
    DEF IInv, TypeOK, GatewaysArmed, Expected, Checked, Forgotten, UsersOwnDescriptors,
        EventsHaveUsers, PollsHaveGateways, Handled
  <2>7. NotPrepared'
    BY ConstAssumption, <2>a, <2>b, <1>1, EventSets, SMTT(30)
    DEF IInv, TypeOK, NotPrepared, UsersOwnDescriptors, Handled
  <2>8. WriteLoopsKept'
    BY ConstAssumption, <2>a, <2>b, <1>1, EventSets, SMTT(30)
    DEF IInv, TypeOK, WriteLoopsKept, NotPrepared, UsersOwnDescriptors, Handled
  <2>9. StraysAreLate'
    BY ConstAssumption, <2>a, <2>b, <1>1, EventSets, SMTT(30)
    DEF IInv, TypeOK, StraysAreLate, NotPrepared, WriteLoopsKept,
        UsersOwnDescriptors, Handled
  <2> QED  BY <2>1, <2>2, <2>3, <2>4, <2>5, <2>6, <2>7, <2>8, <2>9 DEF IInv
<1>2. CASE ~(providing[g] = None \/ stage[g] = "kFSBegin")
  <2> DEFINE c == providing[g]
  <2>a. /\ c \in Conn /\ wfd[c] # None /\ phase = "polling" /\ c # None
        /\ owner[g] = Gateway /\ \A f \in Fd : table[f] # None => f # g
    BY <1>2, ConstAssumption
    DEF IInv, TypeOK, Forward, Polled, WriteLoopsKept, PollsHaveGateways,
        UsersOwnDescriptors
  <2>b. PICK left \in BOOLEAN, q \in BOOLEAN :
          /\ Handled(g)
          /\ DoAll(c, wfd[c], TRUE, q)
          /\ stage' = [stage EXCEPT ![g] = IF left THEN "kFSForwarding"
                                           ELSE "kFSBegin"]
          /\ providing' = [providing EXCEPT ![g] = IF left THEN @ ELSE None]
          /\ interest' = [interest EXCEPT ![g] = When(left, ETEOReadable)]
          /\ UNCHANGED phase
    BY <1>2 DEF Forward
  <2>c. /\ queued' \in [Conn -> BOOLEAN] /\ room' \in [Conn -> BOOLEAN]
        /\ strays' \in SUBSET (Conn \X (Conn \cup {Gateway}))
        /\ \A s \in strays' : s \in strays \/ (s[1] = c /\ c \notin Users)
    BY <2>a, <2>b, LateDoAll
  <2>d. UNCHANGED <<kernel, owner, users>>
    BY DEF Forward
  <2> HIDE DEF c
  <2>1. TypeOK'
    BY ConstAssumption, <2>a, <2>b, <2>c, <2>d, EventSets, SMTT(30)
    DEF IInv, TypeOK, Handled
  <2>2. UsersOwnDescriptors'
    BY ConstAssumption, <2>a, <2>b, <2>c, <2>d, EventSets, SMTT(30)
    DEF IInv, TypeOK, UsersOwnDescriptors, Handled
  <2>3. EventsHaveUsers'
    BY ConstAssumption, <2>a, <2>b, <2>c, <2>d, EventSets, SMTT(30)
    DEF IInv, TypeOK, EventsHaveUsers, UsersOwnDescriptors, Handled
  <2>4. PollsHaveGateways'
    BY ConstAssumption, <2>a, <2>b, <2>c, <2>d, EventSets, SMTT(30)
    DEF IInv, TypeOK, PollsHaveGateways, UsersOwnDescriptors, EventsHaveUsers,
        Handled
  <2>5. UsersArmed'
    BY ConstAssumption, <2>a, <2>b, <2>c, <2>d, EventSets, SMTT(30)
    DEF IInv, TypeOK, UsersArmed, UsersOwnDescriptors, EventsHaveUsers,
        PollsHaveGateways, Handled
  <2>6. GatewaysArmed'
    BY ConstAssumption, <2>a, <2>b, <2>c, <2>d, EventSets, SMTT(30)
    DEF IInv, TypeOK, GatewaysArmed, Expected, Checked, Forgotten, UsersOwnDescriptors,
        EventsHaveUsers, PollsHaveGateways, Handled
  <2>7. NotPrepared'
    BY ConstAssumption, <2>a, <2>b, <2>c, <2>d, EventSets, SMTT(30)
    DEF IInv, TypeOK, NotPrepared, UsersOwnDescriptors, Handled
  <2>8. WriteLoopsKept'
    BY ConstAssumption, <2>a, <2>b, <2>c, <2>d, EventSets, SMTT(30)
    DEF IInv, TypeOK, WriteLoopsKept, NotPrepared, UsersOwnDescriptors, Handled
  <2>9. StraysAreLate'
    BY ConstAssumption, <2>a, <2>b, <2>c, <2>d, EventSets, SMTT(30)
    DEF IInv, TypeOK, StraysAreLate, NotPrepared, WriteLoopsKept,
        UsersOwnDescriptors, Handled
  <2> QED  BY <2>1, <2>2, <2>3, <2>4, <2>5, <2>6, <2>7, <2>8, <2>9 DEF IInv
<1> QED  BY <1>1, <1>2

-----------------------------------------------------------------------------
(* The invariant and what follows from it.                                 *)

\* The invariant is inductive.
LEMMA NextIInv == IInv /\ [Next]_vars => IInv'
<1> SUFFICES ASSUME IInv, [Next]_vars PROVE IInv'
  OBVIOUS
<1>1. CASE EpollWait \/ HandleServer \/ AcceptEnd \/ PollWait \/ Eliminate
  BY <1>1, EpollWaitKeeps, HandleServerKeeps, AcceptEndKeeps, PollWaitKeeps,
     EliminateKeeps
<1>2. CASE \E c \in Conn, fd \in Fd : Accept(c, fd)
  BY <1>2, AcceptKeeps
<1>3. ASSUME NEW fd \in Fd, Dispatch(fd) PROVE IInv'
  <2>1. CASE HangUp(fd)
    <3>1. table[fd] # None
      BY <2>1, HandledUser, ConstAssumption DEF HangUp
    <3> QED  BY <2>1, <3>1, HangUpKeeps
  <2>2. CASE Readable(fd)
    BY <2>2, ReadableKeeps
  <2>3. CASE Writeable(fd)
    BY <2>3, WriteableKeeps
  <2>4. CASE ParserThrows(fd)
    BY <2>4, HaltKeeps DEF ParserThrows, Unwind
  <2>5. CASE ProviderCrash(fd)
    BY <2>5, HaltKeeps DEF ProviderCrash
  <2> QED  BY <1>3, <2>1, <2>2, <2>3, <2>4, <2>5 DEF Dispatch
<1>4. ASSUME NEW g \in Fd, Poll(g) PROVE IInv'
  <2>1. CASE ProviderThrows(g)
    BY <2>1, HaltKeeps DEF ProviderThrows, Unwind
  <2> QED  BY <1>4, <2>1, SentKeeps, UnansweredKeeps, WaitingKeeps,
             ForwardKeeps, SpinKeeps
      DEF Poll
<1>5. CASE Tick
  BY <1>5, TickKeeps
<1>6. ASSUME NEW c \in Conn, Connect(c) \/ Send(c) \/ Drain(c) \/ Close(c)
      PROVE  IInv'
  BY <1>6, ConnectKeeps, ClientKeeps
<1>7. CASE UNCHANGED vars
  BY <1>7 DEF vars, IInv, TypeOK, UsersOwnDescriptors, EventsHaveUsers,
     PollsHaveGateways, UsersArmed, GatewaysArmed, Expected, Checked, Forgotten, NotPrepared,
     WriteLoopsKept, StraysAreLate
<1> QED
  BY <1>1, <1>2, <1>3, <1>4, <1>5, <1>6, <1>7 DEF Next, Run, Environment

\* Every reachable state satisfies it.
LEMMA Invariance == Spec => []IInv
BY InitIInv, NextIInv, PTL DEF Spec

\* Every variable keeps its type, for any number of clients and descriptors.
THEOREM TypeCorrect == Spec => []TypeOK
<1>1. IInv => TypeOK  BY DEF IInv
<1> QED  BY <1>1, Invariance, PTL

\* The table and the kernel's descriptor table agree: the raw descriptors the
\* handlers pass around mean one living user each.
THEOREM DescriptorsAgree == Spec => []UsersOwnDescriptors
<1>1. IInv => UsersOwnDescriptors  BY DEF IInv
<1> QED  BY <1>1, Invariance, PTL

\* An event still to be handled is a living user's: none of UserManager's
\* "no such user" exceptions can end the loop.
THEOREM NoSuchUserNeverThrown == Spec => []EventsHaveUsers
<1>1. IInv => EventsHaveUsers  BY DEF IInv
<1> QED  BY <1>1, Invariance, PTL

\* A user between its events is armed for reading and for hang-up: the
\* one-shot discipline forgets nobody.
THEOREM NobodyForgotten == Spec => []UsersArmed
<1>1. IInv => UsersArmed  BY DEF IInv
<1> QED  BY <1>1, Invariance, PTL

\* A gateway request has its own socket, armed for what its stage awaits.
THEOREM RequestsArmed == Spec => []GatewaysArmed
<1>1. IInv => GatewaysArmed  BY DEF IInv
<1> QED  BY <1>1, Invariance, PTL

\* A WriteLoop writes to another connection only after its own user is gone.
THEOREM NoStrayWhileAlive == Spec => []StraysAreLate
<1>1. IInv => StraysAreLate  BY DEF IInv
<1> QED  BY <1>1, Invariance, PTL

-----------------------------------------------------------------------------
(* A user that never asked the gateway is armed for writing as long as it  *)
(* has output left.  Its WriteLoop is filled by its own handlers only,     *)
(* which adapt it to what is left.  The poll fills WriteLoops without      *)
(* adapting, but only those of users the gateway works for, who carry the  *)
(* mark, or of users who are gone.                                         *)

\* Whoever the gateway works for carries the kCMFcgi mark, or is gone.
ProvidersMarked ==
  \A g, fd \in Fd :
    providing[g] # None /\ table[fd] = providing[g] => user[table[fd]].mark

\* Output waits in a WriteLoop only once there is one.
QueuesPrepared == \A c \in Conn : wfd[c] = None => ~queued[c]

\* The induction.
Settled == IInv /\ ProvidersMarked /\ QueuesPrepared /\ StaticOutputArmed

LEMMA OutArmed == "OUT" \in ETEOAllof
BY DEF ETEOAllof, ETEOReadable, ETEOWriteable

\* Nothing is queued when the instance starts.
LEMMA InitSettled == Init => Settled
<1> SUFFICES ASSUME Init PROVE Settled  OBVIOUS
<1>1. IInv
  BY InitIInv
<1>2. ProvidersMarked
  BY ConstAssumption DEF Init, ProvidersMarked
<1>3. QueuesPrepared
  BY ConstAssumption DEF Init, QueuesPrepared
<1>4. StaticOutputArmed
  BY ConstAssumption DEF Init, StaticOutputArmed
<1> QED  BY <1>1, <1>2, <1>3, <1>4 DEF Settled

\* What neither user, table, WriteLoops nor gateway requests notice.
LEMMA QuietKeeps ==
  ASSUME Settled, IInv', UNCHANGED <<table, user, wfd, queued, providing>>,
         \A fd \in Fd : table[fd] # None =>
           \/ interest'[fd] = interest[fd] /\ batch'[fd] = batch[fd]
           \/ batch'[fd] # {}
  PROVE  Settled'
BY DEF Settled, ProvidersMarked, QueuesPrepared, StaticOutputArmed

\* The waits and the listening socket.
LEMMA LoopSettled ==
  ASSUME Settled, IInv', EpollWait \/ HandleServer \/ AcceptEnd \/ PollWait
  PROVE  Settled'
<1>0. UNCHANGED <<table, user, wfd, queued, providing>>
  BY DEF EpollWait, HandleServer, AcceptEnd, PollWait
<1>1. CASE EpollWait
  <2>1. PICK S \in SUBSET Ready, H \in SUBSET {x \in Watched : Hung(x)} :
          /\ batch' = [x \in Watched |->
                        When(x \in S, Raised(x) \cup When(x \in H, {"HUP"}))]
          /\ interest' = [x \in Watched |-> When(x \notin S, interest[x])]
    BY <1>1 DEF EpollWait
  <2>2. \A x \in S : Raised(x) # {}
    BY DEF Ready
  <2>3. batch = Quiet
    BY <1>1 DEF EpollWait, Settled, IInv, EventsHaveUsers
  <2>4. ASSUME NEW fd \in Fd
        PROVE  \/ interest'[fd] = interest[fd] /\ batch'[fd] = batch[fd]
               \/ batch'[fd] # {}
    <3> HIDE DEF Ready
    <3> QED  BY <2>1, <2>2, <2>3
  <2> QED  BY <1>0, <2>4, QuietKeeps
<1>2. CASE HandleServer
  BY <1>0, <1>2, ConstAssumption, QuietKeeps
  DEF HandleServer, Handled, Handling, Settled, IInv, TypeOK
<1>3. CASE AcceptEnd
  BY <1>0, <1>3, ConstAssumption, QuietKeeps DEF AcceptEnd, Settled, IInv, TypeOK
<1>4. CASE PollWait
  <2>1. ASSUME NEW fd \in Fd, table[fd] # None
        PROVE  interest'[fd] = interest[fd] /\ batch'[fd] = batch[fd]
    BY <1>4, <2>1, ConstAssumption
    DEF PollWait, Settled, IInv, TypeOK, UsersOwnDescriptors
  <2> QED  BY <1>0, <2>1, QuietKeeps
<1> QED  BY <1>1, <1>2, <1>3, <1>4

\* The clients.
LEMMA ClientSettled ==
  ASSUME NEW c \in Conn, Settled, IInv', Connect(c) \/ Send(c) \/ Drain(c) \/ Close(c)
  PROVE  Settled'
BY QuietKeeps DEF Connect, Send, Drain, Close

\* Time changes no mark.
LEMMA TickSettled ==
  ASSUME Settled, IInv', Tick
  PROVE  Settled'
<1>1. \A c \in Conn : user'[c].mark = user[c].mark
  BY DEF Tick, Settled, IInv, TypeOK, UserState
<1>2. \A fd \in Fd : table[fd] # None => table[fd] \in Conn
  BY DEF Settled, IInv, TypeOK
<1> QED
  BY <1>1, <1>2, ConstAssumption
  DEF Tick, Settled, IInv, TypeOK, ProvidersMarked, QueuesPrepared, StaticOutputArmed

\* A new connection has no WriteLoop yet, so the gateway does not know it.
LEMMA AcceptSettled ==
  ASSUME NEW c \in Conn, NEW fd \in Fd, Settled, IInv', Accept(c, fd)
  PROVE  Settled'
<1>1. wfd[c] = None /\ ~queued[c] /\ c # None
  BY ConstAssumption DEF Accept, Settled, IInv, NotPrepared, QueuesPrepared
<1>2. \A g \in Fd : providing[g] # c
  BY <1>1 DEF Settled, IInv, WriteLoopsKept
<1>3. ProvidersMarked'
  BY <1>2, ConstAssumption DEF Accept, Settled, IInv, TypeOK, ProvidersMarked
<1>4. QueuesPrepared'
  BY DEF Accept, Settled, QueuesPrepared
<1>5. StaticOutputArmed'
  BY <1>1, ConstAssumption DEF Accept, Settled, IInv, TypeOK, StaticOutputArmed
<1> QED  BY <1>3, <1>4, <1>5 DEF Settled

\* Users that go leave the others as they are.
LEMMA EraseSettled ==
  ASSUME NEW F \in SUBSET Fd, Settled, IInv', Erase(F), UNCHANGED <<wfd, queued, providing>>,
         \A fd \in Fd \ F : batch'[fd] = batch[fd]
  PROVE  Settled'
<1>1. \A fd \in Fd \ F : table[fd] # None => user'[table[fd]] = user[table[fd]]
  BY DEF Erase, Settled, IInv, TypeOK, UsersOwnDescriptors
<1>2. ProvidersMarked'
  BY <1>1, ConstAssumption DEF Erase, Settled, ProvidersMarked
<1>3. QueuesPrepared'
  BY DEF Settled, QueuesPrepared
<1>4. StaticOutputArmed'
  BY <1>1, ConstAssumption DEF Erase, Settled, StaticOutputArmed
<1> QED  BY <1>2, <1>3, <1>4 DEF Settled

LEMMA GoneSettled ==
  ASSUME Settled, IInv',
         Eliminate \/ (\E fd \in Fd : HangUp(fd) /\ table[fd] # None)
  PROVE  Settled'
<1>1. CASE Eliminate
  BY <1>1, EraseSettled DEF Eliminate
<1>2. ASSUME NEW fd \in Fd, HangUp(fd), table[fd] # None PROVE Settled'
  <2>1. Erase({fd}) /\ Handled(fd) /\ UNCHANGED <<wfd, queued, providing>>
    BY <1>2 DEF HangUp
  <2>2. \A f \in Fd \ {fd} : batch'[f] = batch[f]
    BY <2>1, ConstAssumption DEF Handled, Settled, IInv, TypeOK
  <2> QED  BY <2>1, <2>2, EraseSettled
<1> QED  BY <1>1, <1>2

\* The end leaves no user.
LEMMA HaltSettled ==
  ASSUME NEW p, Settled, IInv', Halt(p)
  PROVE  Settled'
BY DEF Halt, Settled, ProvidersMarked, QueuesPrepared, StaticOutputArmed

\* A user that was prepared is adapted to what is left, and delegates only
\* with the mark.
LEMMA AdaptSettled ==
  ASSUME NEW fd \in Fd, Settled, IInv', Handling(fd), Handled(fd),
         NEW u \in UserState, NEW q \in BOOLEAN, NEW G \in SUBSET Free,
         NEW peer, G # {} => peer \in Peers,
         user[table[fd]].mark => u.mark, G # {} => u.mark,
         Adapt(fd, u, q, G, peer), Delegate(table[fd], G),
         wfd' = [wfd EXCEPT ![table[fd]] = fd],
         queued' = [queued EXCEPT ![table[fd]] = q]
  PROVE  Settled'
<1> DEFINE c == table[fd]
           closeable == u.done /\ ~u.keep /\ ~q
<1>0. IInv /\ ProvidersMarked /\ QueuesPrepared /\ StaticOutputArmed
  BY DEF Settled
<1>1. /\ c \in Conn /\ c # None /\ fd # None /\ fd \notin G
      /\ \A f \in Fd : f # fd => table[f] # c
      /\ \A g \in G : table[g] = None
      /\ \A f \in Fd \ {fd} : batch'[f] = batch[f]
  BY <1>0, HandledUser, ConstAssumption DEF Handled, IInv, TypeOK, UsersOwnDescriptors
<1>2. /\ table' = [table EXCEPT ![fd] = IF closeable THEN None ELSE @]
      /\ user' = [user EXCEPT ![c] = IF closeable THEN NewUser ELSE u]
      /\ \A f \in Fd \ ({fd} \cup G) : interest'[f] = interest[f]
      /\ ~closeable /\ q => interest'[fd] = ETEOAllof
  BY <1>1, ConstAssumption DEF Adapt
<1> HIDE DEF closeable
<1>3. ProvidersMarked'
  <2> SUFFICES ASSUME NEW g \in Fd, NEW f \in Fd, providing'[g] # None,
                      table'[f] = providing'[g]
               PROVE  user'[table'[f]].mark
    BY DEF ProvidersMarked
  <2>1. CASE f = fd
    <3>1. ~closeable /\ table'[f] = c /\ user'[c] = u
      BY <1>0, <1>1, <1>2, <2>1 DEF IInv, TypeOK
    <3>2. G # {} \/ user[c].mark
      BY <1>0, <1>1, <3>1 DEF Delegate, ProvidersMarked, IInv, TypeOK
    <3> QED  BY <3>1, <3>2
  <2>2. CASE f # fd
    <3>1. table'[f] = table[f] /\ table[f] # c
      BY <1>0, <1>1, <1>2, <2>2 DEF IInv, TypeOK
    <3>2. user'[table[f]] = user[table[f]]
      BY <1>0, <1>1, <1>2, <3>1 DEF IInv, TypeOK
    <3>3. providing'[g] = providing[g]
      BY <1>0, <3>1 DEF Delegate, IInv, TypeOK
    <3> QED  BY <1>0, <3>1, <3>2, <3>3 DEF ProvidersMarked
  <2> QED  BY <2>1, <2>2
<1>4. QueuesPrepared'
  BY <1>0, <1>1 DEF QueuesPrepared, IInv, TypeOK
<1>5. StaticOutputArmed'
  <2> SUFFICES ASSUME NEW f \in Fd, table'[f] # None, queued'[table'[f]], ~user'[table'[f]].mark
               PROVE  "OUT" \in interest'[f] \/ batch'[f] # {}
    BY DEF StaticOutputArmed
  <2>1. CASE f = fd
    <3>1. ~closeable /\ table'[f] = c
      BY <1>0, <1>1, <1>2, <2>1 DEF IInv, TypeOK
    <3>2. q
      BY <1>0, <1>1, <3>1 DEF IInv, TypeOK
    <3> QED  BY <1>2, <2>1, <3>1, <3>2, OutArmed
  <2>2. CASE f # fd
    <3>1. table'[f] = table[f] /\ table[f] # c /\ table[f] # None
      BY <1>0, <1>1, <1>2, <2>2 DEF IInv, TypeOK
    <3>2. user'[table[f]] = user[table[f]] /\ queued'[table[f]] = queued[table[f]]
      BY <1>0, <1>1, <1>2, <3>1 DEF IInv, TypeOK
    <3>3. f \notin G /\ interest'[f] = interest[f] /\ batch'[f] = batch[f]
      BY <1>1, <1>2, <2>2, <3>1
    <3> QED  BY <1>0, <3>1, <3>2, <3>3 DEF StaticOutputArmed
  <2> QED  BY <2>1, <2>2
<1> QED  BY <1>3, <1>4, <1>5 DEF Settled

LEMMA ReadableSettled ==
  ASSUME NEW fd \in Fd, Settled, IInv', Readable(fd)
  PROVE  Settled'
<1> DEFINE c == table[fd]
<1>0. IInv
  BY DEF Settled
<1>1. Handling(fd) /\ c # None
  BY <1>0, HandledUser, ConstAssumption DEF Readable
<1>2. PICK read \in Outcomes(c), alive \in BOOLEAN, q \in BOOLEAN :
        \E G \in GatewaySockets(user[c].mark \/ read = "fcgi"), peer \in Peers :
          /\ Handled(fd)
          /\ wfd' = [wfd EXCEPT ![c] = fd]
          /\ DoAll(c, fd, queued[c] \/ read = "page", q)
          /\ Delegate(c, G)
          /\ Adapt(fd,
                   [done |-> read # "part",
                    keep |-> user[c].keep \/ (read # "part" /\ alive),
                    mark |-> user[c].mark \/ read = "fcgi",
                    filled |-> user[c].filled + (IF Received(c) THEN 1 ELSE 0),
                    age |-> 0], q, G, peer)
  BY <1>0, <1>1, HandledUser DEF Readable
<1> DEFINE u == [done |-> read # "part",
                 keep |-> user[c].keep \/ (read # "part" /\ alive),
                 mark |-> user[c].mark \/ read = "fcgi",
                 filled |-> user[c].filled + (IF Received(c) THEN 1 ELSE 0),
                 age |-> 0]
<1>3. u \in UserState
  BY <1>0, <1>1, HandledUser, ConstAssumption DEF IInv, TypeOK, UserState, Received
<1>4. PICK G \in GatewaySockets(u.mark), peer \in Peers :
        /\ Handled(fd) /\ wfd' = [wfd EXCEPT ![c] = fd]
        /\ queued' = [queued EXCEPT ![c] = q]
        /\ Delegate(c, G) /\ Adapt(fd, u, q, G, peer)
  BY <1>2 DEF DoAll
<1>5. G \in SUBSET Free /\ (G # {} => u.mark)
  BY <1>4 DEF GatewaySockets
<1>6. q \in BOOLEAN /\ (user[c].mark => u.mark)
  BY <1>2
<1> HIDE DEF u
<1> QED  BY <1>1, <1>3, <1>4, <1>5, <1>6, AdaptSettled

LEMMA WriteableSettled ==
  ASSUME NEW fd \in Fd, Settled, IInv', Writeable(fd)
  PROVE  Settled'
<1> DEFINE c == table[fd]
           u == [user[c] EXCEPT !.age = 0]
<1>0. IInv
  BY DEF Settled
<1>1. Handling(fd) /\ c # None /\ c \in Conn
  BY <1>0, HandledUser, ConstAssumption DEF Writeable
<1>2. PICK q \in BOOLEAN :
        /\ Handled(fd) /\ wfd' = [wfd EXCEPT ![c] = fd]
        /\ DoAll(c, fd, queued[c], q)
        /\ Adapt(fd, u, q, {}, None)
        /\ UNCHANGED fcgi
  BY <1>0, <1>1, HandledUser DEF Writeable
<1>3. u \in UserState /\ u.mark = user[c].mark
  <2>1. user[c] \in UserState
    BY <1>0, <1>1 DEF IInv, TypeOK
  <2> QED  BY <2>1, ConstAssumption DEF UserState
<1>4. queued' = [queued EXCEPT ![c] = q]
  BY <1>2 DEF DoAll
<1>5. Delegate(c, {})
  BY <1>0, <1>2 DEF Delegate, IInv, TypeOK
<1> HIDE DEF u
<1> QED  BY <1>1, <1>2, <1>3, <1>4, <1>5, AdaptSettled

\* The poll fills only WriteLoops of users with the mark, or of none.
LEMMA ForwardSettled ==
  ASSUME NEW g \in Fd, Settled, IInv', Forward(g)
  PROVE  Settled'
<1>0. /\ IInv /\ ProvidersMarked /\ QueuesPrepared /\ StaticOutputArmed
      /\ owner[g] \in Peers /\ table[g] = None
  BY ConstAssumption
  DEF Settled, Forward, Polled, IInv, TypeOK, PollsHaveGateways, UsersOwnDescriptors
<1>1. CASE providing[g] = None \/ stage[g] = "kFSBegin"
  <2>1. Handled(g) /\ UNCHANGED <<interest, output, fcgi, owner, users>>
    BY <1>1 DEF Forward, Unregister
  <2> QED
    BY <1>0, <2>1, QuietKeeps DEF Handled, IInv, TypeOK
<1>2. CASE ~(providing[g] = None \/ stage[g] = "kFSBegin")
  <2> DEFINE c == providing[g]
  <2>1. PICK left \in BOOLEAN, q \in BOOLEAN :
          /\ Handled(g)
          /\ DoAll(c, wfd[c], TRUE, q)
          /\ providing' = [providing EXCEPT ![g] = IF left THEN @ ELSE None]
          /\ interest' = [interest EXCEPT ![g] = When(left, ETEOReadable)]
    BY <1>2 DEF Forward
  <2>2. UNCHANGED <<table, user, wfd>> /\ queued' = [queued EXCEPT ![c] = q]
    BY <2>1 DEF Forward, DoAll
  <2>3. c \in Conn /\ wfd[c] # None
    BY <1>0, <1>2, ConstAssumption DEF IInv, TypeOK, WriteLoopsKept
  <2>4. ProvidersMarked'
    BY <1>0, <2>1, <2>2 DEF ProvidersMarked, IInv, TypeOK
  <2>5. QueuesPrepared'
    BY <1>0, <2>2, <2>3 DEF QueuesPrepared, IInv, TypeOK
  <2>6. StaticOutputArmed'
    <3> SUFFICES ASSUME NEW f \in Fd, table[f] # None, queued'[table[f]], ~user[table[f]].mark
                 PROVE  "OUT" \in interest'[f] \/ batch'[f] # {}
      BY <2>2 DEF StaticOutputArmed
    <3>1. table[f] # c /\ f # g /\ table[f] \in Conn
      BY <1>0, <1>2 DEF ProvidersMarked, IInv, TypeOK
    <3>2. queued[table[f]] /\ interest'[f] = interest[f] /\ batch'[f] = batch[f]
      BY <1>0, <2>1, <2>2, <3>1 DEF Handled, IInv, TypeOK
    <3> QED  BY <1>0, <3>1, <3>2 DEF StaticOutputArmed
  <2> QED  BY <2>4, <2>5, <2>6 DEF Settled
<1> QED  BY <1>1, <1>2

\* The other events of gateway sockets concern no user.
LEMMA PollSettled ==
  ASSUME NEW g \in Fd, Settled, IInv', Sent(g) \/ Unanswered(g) \/ Waiting(g) \/ Spin(g)
  PROVE  Settled'
<1>0. table[g] = None
  BY ConstAssumption
  DEF Settled, Sent, Unanswered, Waiting, Spin, Polled, IInv, TypeOK, PollsHaveGateways,
      UsersOwnDescriptors
<1>1. UNCHANGED <<table, user, wfd, queued, providing>> /\ Handled(g)
  BY DEF Sent, Unanswered, Waiting, Spin, Unregister
<1>2. \A f \in Fd : f # g => interest'[f] = interest[f]
  BY DEF Sent, Unanswered, Waiting, Spin, Unregister, Settled, IInv, TypeOK
<1>3. \A f \in Fd : f # g => batch'[f] = batch[f]
  BY <1>1 DEF Handled, Settled, IInv, TypeOK
<1> QED  BY <1>0, <1>1, <1>2, <1>3, QuietKeeps

LEMMA NextSettled == Settled /\ [Next]_vars => Settled'
<1> SUFFICES ASSUME Settled, [Next]_vars PROVE Settled'
  OBVIOUS
<1>0. IInv /\ IInv'
  BY NextIInv DEF Settled
<1>1. CASE EpollWait \/ HandleServer \/ AcceptEnd \/ PollWait \/ Eliminate
  BY <1>0, <1>1, LoopSettled, GoneSettled
<1>2. CASE \E c \in Conn, fd \in Fd : Accept(c, fd)
  BY <1>0, <1>2, AcceptSettled
<1>3. ASSUME NEW fd \in Fd, Dispatch(fd) PROVE Settled'
  <2>1. CASE HangUp(fd)
    <3>1. table[fd] # None
      BY <1>0, <2>1, HandledUser, ConstAssumption DEF HangUp
    <3> QED  BY <1>0, <2>1, <3>1, GoneSettled
  <2>2. CASE Readable(fd)
    BY <1>0, <2>2, ReadableSettled
  <2>3. CASE Writeable(fd)
    BY <1>0, <2>3, WriteableSettled
  <2>4. CASE ParserThrows(fd)
    BY <1>0, <2>4, HaltSettled DEF ParserThrows, Unwind
  <2>5. CASE ProviderCrash(fd)
    BY <1>0, <2>5, HaltSettled DEF ProviderCrash
  <2> QED  BY <1>3, <2>1, <2>2, <2>3, <2>4, <2>5 DEF Dispatch
<1>4. ASSUME NEW g \in Fd, Poll(g) PROVE Settled'
  <2>1. CASE ProviderThrows(g)
    BY <1>0, <2>1, HaltSettled DEF ProviderThrows, Unwind
  <2> QED  BY <1>0, <1>4, <2>1, PollSettled, ForwardSettled DEF Poll
<1>5. CASE Tick
  BY <1>0, <1>5, TickSettled
<1>6. ASSUME NEW c \in Conn, Connect(c) \/ Send(c) \/ Drain(c) \/ Close(c)
      PROVE  Settled'
  BY <1>0, <1>6, ClientSettled
<1>7. CASE UNCHANGED vars
  BY <1>0, <1>7, QuietKeeps DEF vars
<1> QED
  BY <1>1, <1>2, <1>3, <1>4, <1>5, <1>6, <1>7 DEF Next, Run, Environment

\* A user that never asked the gateway and has output left is armed for
\* writing, or about to be handled: its client gets the rest of its reply.
THEOREM StaticRepliesArmed == Spec => []StaticOutputArmed
<1>1. Init => Settled
  BY InitSettled
<1>2. Settled /\ [Next]_vars => Settled'
  BY NextSettled
<1>3. Settled => StaticOutputArmed
  BY DEF Settled
<1> QED  BY <1>1, <1>2, <1>3, PTL DEF Spec

-----------------------------------------------------------------------------
(* The life of a connection.                                               *)

\* A user is behind one descriptor of its own, so that there are fewer users
\* than descriptors while one of these is free.
LEMMA RoomForOneMore ==
  ASSUME IInv, NEW fd \in Free
  PROVE  Cardinality(Users) < Cardinality(Fd)
<1> DEFINE place == [c \in Users |-> CHOOSE g \in Fd : table[g] = c]
           others == Fd \ {fd}
<1>1. ASSUME NEW c \in Users PROVE place[c] \in others /\ table[place[c]] = c
  <2>1. \E g \in Fd : table[g] = c
    OBVIOUS
  <2>2. place[c] \in Fd /\ table[place[c]] = c
    BY <2>1
  <2>3. table[fd] # c
    BY ConstAssumption DEF IInv, TypeOK, UsersOwnDescriptors
  <2> QED  BY <2>2, <2>3
<1>2. place \in Injection(Users, others)
  <2>1. place \in [Users -> others]
    BY <1>1
  <2>2. \A c, d \in Users : place[c] = place[d] => c = d
    BY <1>1
  <2> HIDE DEF place, others, Users
  <2> QED  BY <2>1, <2>2 DEF Injection, IsInjective
<1>3. IsFiniteSet(others) /\ Cardinality(others) = Cardinality(Fd) - 1 /\ Cardinality(Fd) \in Nat
  <2>1. fd \in Fd
    OBVIOUS
  <2> QED  BY <2>1, FdAssumption, FS_RemoveElement, FS_CardinalityType
<1>4. IsFiniteSet(Users) /\ Cardinality(Users) <= Cardinality(others)
  <2> HIDE DEF place, others, Users
  <2> QED  BY <1>2, <1>3, FS_Injection
<1>5. Cardinality(Users) \in Nat
  BY <1>4, FS_CardinalityType
<1> HIDE DEF others, Users
<1> QED  BY <1>3, <1>4, <1>5

Lives == [c \in Conn |-> Life(c)]

LEMMA SameCardinality == ASSUME NEW S PROVE Lifecycle!Cardinality(S) = Cardinality(S)
BY DEF Lifecycle!Cardinality, Cardinality

LEMMA ServedAreUsers ==
  ASSUME IInv PROVE Lifecycle!Served = Users
<1>1. \A c \in Conn : Life(c) = "served" <=> c \in Users
  BY DEF Life, IInv, UsersOwnDescriptors
<1>2. Users \subseteq Conn
  BY DEF IInv, TypeOK
<1>3. Lifecycle!Served = {c \in Conn : Lives[c] = "served"}
  BY DEF Lifecycle!Served, Lives
<1> QED  BY <1>1, <1>2, <1>3 DEF Lives

\* No life begins anew: whoever is no user any more is done.
LEMMA OnlyEnds ==
  ASSUME IInv, backlog' = backlog, Users' \subseteq Users,
         \A c \in Conn : client'[c] = "new" <=> client[c] = "new"
  PROVE  Lifecycle!Next
<1> DEFINE S == {c \in Conn : Life(c) = "served" /\ Life(c)' # "served"}
<1>1. ASSUME NEW c \in Conn PROVE Life(c)' = IF c \in S THEN "done" ELSE Life(c)
  <2> HIDE DEF Users
  <2> QED  BY DEF Life
<1>2. S \subseteq Lifecycle!Served
  BY DEF Lifecycle!Served
<1>3. Lives' = [c \in Conn |-> IF c \in S THEN "done" ELSE Lives[c]]
  <2> HIDE DEF S
  <2> QED  BY <1>1 DEF Lives
<1> HIDE DEF S
<1>4. Lifecycle!Finish(S)
  BY <1>2, <1>3 DEF Lifecycle!Finish, Lives
<1>5. S \in SUBSET Conn
  BY DEF S
<1> QED  BY <1>4, <1>5 DEF Lifecycle!Next

LEMMA ConnectArrives ==
  ASSUME IInv, NEW c \in Conn, Connect(c)
  PROVE  Lifecycle!Next
<1>1. Life(c) = "new"
  BY DEF Connect, Life
<1>2. ASSUME NEW d \in Conn PROVE Life(d)' = IF d = c THEN "waiting" ELSE Life(d)
  BY DEF Connect, Life, IInv, TypeOK
<1>3. Lives' = [Lives EXCEPT ![c] = "waiting"]
  BY <1>2 DEF Lives
<1>4. Lifecycle!Arrive(c)
  BY <1>1, <1>3 DEF Lifecycle!Arrive, Lives
<1> QED  BY <1>4 DEF Lifecycle!Next

LEMMA AcceptAdmits ==
  ASSUME IInv, NEW c \in Conn, NEW fd \in Fd, Accept(c, fd)
  PROVE  Lifecycle!Next
<1>1. fd \in Free /\ c \in backlog
  BY DEF Accept
<1>2. Life(c) = "waiting"
  BY <1>1 DEF Life, IInv, NotPrepared
<1>3. Users' = Users \cup {c}
  <2>1. table[fd] = None /\ table' = [table EXCEPT ![fd] = c] /\ c # None
    BY ConstAssumption DEF Accept, IInv, TypeOK, UsersOwnDescriptors
  <2>2. table'[fd] = c /\ \A g \in Fd : g # fd => table'[g] = table[g]
    BY <2>1 DEF IInv, TypeOK
  <2> QED  BY <2>1, <2>2
<1>4. ASSUME NEW d \in Conn PROVE Life(d)' = IF d = c THEN "served" ELSE Life(d)
  <2>1. client' = client /\ backlog' = backlog \ {c}
    BY DEF Accept
  <2>2. client[c] # "new"
    BY <1>1 DEF IInv, NotPrepared
  <2> HIDE DEF Users
  <2> QED  BY <1>3, <2>1, <2>2 DEF Life
<1>5. Lives' = [Lives EXCEPT ![c] = "served"]
  BY <1>4 DEF Lives
<1>6. Lifecycle!Cardinality(Lifecycle!Served) < Cardinality(Fd)
  BY <1>1, RoomForOneMore, ServedAreUsers, SameCardinality
<1>7. Lifecycle!Admit(c)
  BY <1>2, <1>5, <1>6 DEF Lifecycle!Admit, Lives
<1> QED  BY <1>7 DEF Lifecycle!Next

\* All other steps end lives or leave them alone.
LEMMA OthersEnd ==
  ASSUME IInv, [Next]_vars,
         ~(\E c \in Conn : Connect(c)), ~(\E c \in Conn, fd \in Fd : Accept(c, fd))
  PROVE  Lifecycle!Next
<1>1. ASSUME UNCHANGED <<client, backlog>>, \A fd \in Fd : table'[fd] \in {table[fd], None}
      PROVE  Lifecycle!Next
  <2>1. Users' \subseteq Users
    BY <1>1
  <2> QED  BY <1>1, <2>1, OnlyEnds
<1>2. CASE EpollWait \/ HandleServer \/ AcceptEnd \/ PollWait \/ UNCHANGED vars
  BY <1>1, <1>2 DEF EpollWait, HandleServer, AcceptEnd, PollWait, vars
<1>3. CASE Eliminate
  BY <1>1, <1>3 DEF Eliminate, Erase
<1>4. ASSUME NEW p, Halt(p) PROVE Lifecycle!Next
  BY <1>1, <1>4 DEF Halt
<1>5. ASSUME NEW fd \in Fd, Dispatch(fd) PROVE Lifecycle!Next
  <2>1. CASE HangUp(fd)
    <3>1. table[fd] # None
      BY <2>1, HandledUser, ConstAssumption DEF HangUp
    <3> QED  BY <1>1, <2>1, <3>1 DEF HangUp, Erase
  <2>2. ASSUME NEW u, NEW q, NEW G, NEW peer, Adapt(fd, u, q, G, peer), UNCHANGED <<client, backlog>>
        PROVE  Lifecycle!Next
    <3>1. table' = [table EXCEPT ![fd] = None] \/ table' = [table EXCEPT ![fd] = @]
      BY <2>2 DEF Adapt
    <3> QED  BY <1>1, <2>2, <3>1 DEF IInv, TypeOK
  <2>3. CASE Readable(fd)
    <3>1. table[fd] # None
      BY <2>3, HandledUser, ConstAssumption DEF Readable
    <3> DEFINE c == table[fd]
               u(read, alive) ==
                 [done |-> read # "part",
                  keep |-> user[c].keep \/ (read # "part" /\ alive),
                  mark |-> user[c].mark \/ read = "fcgi",
                  filled |-> user[c].filled + (IF Received(c) THEN 1 ELSE 0),
                  age |-> 0]
    <3>2. \E read \in Outcomes(c), alive \in BOOLEAN, q \in BOOLEAN :
            \E G \in GatewaySockets(u(read, alive).mark), peer \in Peers :
              Adapt(fd, u(read, alive), q, G, peer) /\ UNCHANGED <<client, acts, backlog, phase>>
      BY <2>3, <3>1, SMTT(60) DEF Readable
    <3> HIDE DEF u
    <3>3. UNCHANGED <<client, backlog>> /\ \E v, q, G, peer : Adapt(fd, v, q, G, peer)
      BY <3>2, Zenon
    <3> QED  BY <2>2, <3>3
  <2>4. CASE Writeable(fd)
    <3>1. table[fd] # None
      BY <2>4, HandledUser, ConstAssumption DEF Writeable
    <3>2. UNCHANGED <<client, backlog>> /\ \E u, q, G, peer : Adapt(fd, u, q, G, peer)
      BY <2>4, <3>1 DEF Writeable
    <3> QED  BY <2>2, <3>2
  <2>5. CASE ParserThrows(fd) \/ ProviderCrash(fd)
    BY <1>4, <2>5 DEF ParserThrows, ProviderCrash, Unwind
  <2> QED  BY <1>5, <2>1, <2>3, <2>4, <2>5 DEF Dispatch
<1>6. ASSUME NEW g \in Fd, Poll(g) PROVE Lifecycle!Next
  <2>1. CASE ProviderThrows(g)
    BY <1>4, <2>1 DEF ProviderThrows, Unwind
  <2>2. CASE Sent(g) \/ Unanswered(g) \/ Waiting(g) \/ Forward(g) \/ Spin(g)
    BY <1>1, <2>2 DEF Sent, Unanswered, Waiting, Forward, Spin
  <2> QED  BY <1>6, <2>1, <2>2 DEF Poll
<1>7. CASE Tick
  BY <1>1, <1>7 DEF Tick
<1>8. ASSUME NEW c \in Conn, Send(c) \/ Drain(c)
      PROVE  Lifecycle!Next
  BY <1>1, <1>8 DEF Send, Drain
<1>9. ASSUME NEW c \in Conn, Close(c)
      PROVE  Lifecycle!Next
  <2>1. backlog' = backlog /\ Users' \subseteq Users
    BY <1>9 DEF Close
  <2>2. \A d \in Conn : client'[d] = "new" <=> client[d] = "new"
    BY <1>9 DEF Close, Active, IInv, TypeOK
  <2> QED  BY <2>1, <2>2, OnlyEnds
<1> QED
  BY <1>2, <1>3, <1>5, <1>6, <1>7, <1>8, <1>9 DEF Next, Run, Environment

LEMMA StepsLive == ASSUME IInv, [Next]_vars PROVE Lifecycle!Next
BY ConnectArrives, AcceptAdmits, OthersEnd

LEMMA LivesBegin == ASSUME Init PROVE Lifecycle!Init
BY DEF Init, Lifecycle!Init, Life

\* Every behaviour of the event loop is one that ConnectionLifecycle allows:
\* connections are admitted one at a time, never above the number of
\* descriptors, end once, and do not come back.
THEOREM ImplementsLifecycle == Spec => RefinesLifecycle
<1>1. Init => Lifecycle!Init
  BY LivesBegin
<1>2. IInv /\ [Next]_vars => [Lifecycle!Next]_([c \in Conn |-> Life(c)])
  BY StepsLive
<1> QED  BY <1>1, <1>2, Invariance, PTL DEF Spec, RefinesLifecycle, Lifecycle!Spec

=============================================================================
