------------------------------- MODULE Startup -------------------------------
(***************************************************************************)
(* From the configuration file to the server's threads: ConfigProvider     *)
(* reads the file with rapidjson (Json) and takes the settings out of it,  *)
(* main starts one Transgate a thread (utils/concurrency_proxy.h), each    *)
(* binds a listening socket of its own to the same port, and main waits    *)
(* for all of them.                                                        *)
(*                                                                         *)
(* What an instance does with its connections is in Transgate and the      *)
(* modules around it; here it accepts them, loses them, and may end by an  *)
(* exception one of its handlers throws, or never return from the handler  *)
(* of a gateway's answer.  The instances share the configuration, the port *)
(* and the process's table of descriptors.                                 *)
(***************************************************************************)
EXTENDS Json

CONSTANTS
  Spelled,      \* the characters of the names and words the program looks for
  BadRegexes,   \* the texts std::regex refuses
  Cores,        \* what std::thread::hardware_concurrency may return
  MaxInstances, \* bound: no file and no machine asks for more threads
  Clients,
  MaxUsers      \* for how many connections the process has descriptors

ASSUME CoresAssumption == Cores \subseteq 1 .. MaxInstances

VARIABLES
  phase,      \* where main stands
  instances,  \* server_instances_
  nextSite,   \* how many entries of "sites" were read
  hosts,      \* hosts_: the entries that became a HostConfig
  threads,    \* the threads main started
  refused     \* the clients whose connection no socket took

threadVars == <<threads, refused>>
configVars == <<instances, nextSite, hosts>>
vars == <<jsonVars, phase, configVars, threadVars>>

-----------------------------------------------------------------------------
(* ConfigProvider::ConfigProvider.  A failed assertion of rapidjson ends   *)
(* the process: the build sets no NDEBUG.                                  *)

Field(v, name) == At(v, Spelled[name])
HasField(v, name) == Has(v, Spelled[name])
Is(v, word) == v.text = Spelled[word]

Settings == {<<"evloop", "epoll_events">>, <<"server", "port">>,
             <<"server", "max_content_length">>, <<"server", "keep_connection_time">>}
SettingsReadable ==
  /\ \A s \in Settings : /\ HasField(doc, s[1]) /\ HasField(Field(doc, s[1]), s[2])
                         /\ IsInt(Field(Field(doc, s[1]), s[2]))
  /\ HasField(Field(doc, "server"), "instances")
  /\ IsUint(Field(Field(doc, "server"), "instances"))
  /\ HasField(doc, "sites") /\ IsArray(Field(doc, "sites"))

HasString(v, name) == HasField(v, name) /\ IsString(Field(v, name))
HasArray(v, name) == HasField(v, name) /\ IsArray(Field(v, name))
HasBool(v, name) == HasField(v, name) /\ IsBool(Field(v, name))
HasStrings(v, name) == HasArray(v, name) /\ \A i \in DOMAIN Field(v, name).of : IsString(Field(v, name).of[i])
Enabled(v) == Field(v, "enable").type = "true"

Sites == Field(doc, "sites").of
IsAny(site) == Is(Field(site, "host"), "<any>")

\* Everything of a site in front of its regular expressions, and its gateways.
NamesReadable(site) ==
  /\ HasString(site, "host") /\ HasString(site, "wwwroot")
  /\ HasStrings(site, "default_files") /\ HasArray(site, "forbidden_regexes")
GatewayReadable(g) ==
  /\ HasBool(g, "enable")
  /\ Enabled(g) =>
       /\ HasString(g, "mode")
       /\ ~Is(Field(g, "mode"), "unix") => HasField(g, "port") /\ IsInt(Field(g, "port"))
       /\ HasString(g, "gateway") /\ HasStrings(g, "extends")
GatewaysReadable(site) ==
  HasArray(site, "fastcgi") /\ \A i \in DOMAIN Field(site, "fastcgi").of : GatewayReadable(Field(site, "fastcgi").of[i])

\* The first expression that is none: it throws, or it is no string.
Regexes(site) == Field(site, "forbidden_regexes").of
Unusable(site) == {i \in DOMAIN Regexes(site) : ~IsString(Regexes(site)[i]) \/ Regexes(site)[i].text \in BadRegexes}
Throws(site) ==
  \E i \in Unusable(site) : IsString(Regexes(site)[i]) /\ \A j \in Unusable(site) : i <= j

Outcome(site) ==
  IF ~HasBool(site, "enable") THEN "aborted"
  ELSE IF ~Enabled(site) THEN "skipped"
  ELSE IF ~NamesReadable(site) THEN "aborted"
  ELSE IF Throws(site) THEN "threw"
  ELSE IF Unusable(site) # {} \/ ~GatewaysReadable(site) THEN "aborted"
  ELSE "added"

\* fopen failed, and the stream asserts that it did not.
NoFile ==
  /\ phase = "opening" /\ phase' = "aborted"
  /\ UNCHANGED <<jsonVars, configVars, threadVars>>
Open ==
  /\ phase = "opening" /\ phase' = "reading"
  /\ UNCHANGED <<jsonVars, configVars, threadVars>>

Parse ==
  /\ phase = "reading" /\ ParseSteps
  /\ UNCHANGED <<phase, configVars, threadVars>>

\* A text that is not parsed leaves the document null: its first member aborts.
ReadSettings ==
  /\ phase = "reading" /\ status # "parsing"
  /\ IF SettingsReadable
       THEN /\ phase' = "sites"
            /\ LET i == Field(Field(doc, "server"), "instances").int IN
               IF i = 0 THEN instances' \in Cores ELSE instances' = i
       ELSE phase' = "aborted" /\ UNCHANGED instances
  /\ UNCHANGED <<jsonVars, nextSite, hosts, threadVars>>

\* Slip: the sites before <any> stay in front of it.
KeptHostsAlways(any) == hosts

\* What is left of hosts_ when the next site is for any host.
KeptHosts(any) == IF any THEN <<>> ELSE hosts

\* The next site.  <any> drops the sites before it and ends the loop.  An
\* exception is reported and main goes on with what was read.
ReadSite ==
  /\ phase = "sites" /\ nextSite < Len(Sites)
  /\ nextSite' = nextSite + 1
  /\ LET site == Sites[nextSite'] IN
     LET outcome == Outcome(site) IN
     LET any == outcome \in {"added", "threw"} /\ IsAny(site) IN
     /\ hosts' = IF outcome = "added" THEN Append(KeptHosts(any), nextSite') ELSE KeptHosts(any)
     /\ phase' = IF outcome = "aborted" THEN "aborted"
                 ELSE IF outcome = "threw" \/ any THEN "spawning" ELSE "sites"
  /\ UNCHANGED <<jsonVars, instances, threadVars>>
SitesEnd ==
  /\ phase = "sites" /\ nextSite = Len(Sites)
  /\ phase' = "spawning"
  /\ UNCHANGED <<jsonVars, configVars, threadVars>>

-----------------------------------------------------------------------------
(* ConcurrencyProxy and Transgate::run.                                    *)

Thread == [at |-> "created", bound |-> FALSE, served |-> FALSE, queue |-> {}, users |-> {}]
Ended(t) == threads[t].at = "ended"

Spawn ==
  /\ phase = "spawning" /\ Len(threads) < instances
  /\ threads' = Append(threads, Thread)
  /\ UNCHANGED <<jsonVars, phase, configVars, refused>>
Spawned ==
  /\ phase = "spawning" /\ Len(threads) = instances
  /\ phase' = "joining"
  /\ UNCHANGED <<jsonVars, configVars, threadVars>>
\* wait(): join returns when its thread has ended, one after the other.
Joined ==
  /\ phase = "joining" /\ \A t \in DOMAIN threads : Ended(t)
  /\ phase' = "exited"
  /\ UNCHANGED <<jsonVars, configVars, threadVars>>

InThread == phase \in {"spawning", "joining"} /\ UNCHANGED <<jsonVars, phase, configVars>>

\* bindAndListen with SO_REUSEPORT; it throws when another process has the port.
Bind(t) ==
  /\ threads[t].at = "created"
  /\ threads' = [threads EXCEPT ![t].at = "serving", ![t].bound = TRUE]
  /\ InThread /\ UNCHANGED refused
BindThrows(t) ==
  /\ threads[t].at = "created"
  /\ threads' = [threads EXCEPT ![t].at = "ended"]
  /\ InThread /\ UNCHANGED refused

\* The kernel: a new connection goes to one of the sockets in the group.
Known(c) == c \in refused \/ \E t \in DOMAIN threads : c \in threads[t].queue \cup threads[t].users
Group == {t \in DOMAIN threads : threads[t].bound}
Connect(c) ==
  /\ ~Known(c) /\ InThread
  /\ IF Group = {} THEN refused' = refused \cup {c} /\ UNCHANGED threads
     ELSE /\ \E t \in Group : threads' = [threads EXCEPT ![t].queue = @ \cup {c}]
          /\ UNCHANGED refused

\* The descriptors left, in the one table of all instances.
Room == MaxUsers - Cardinality(UNION {threads[t].users : t \in DOMAIN threads})

Accept(t, taken) ==
  threads' = [threads EXCEPT ![t].queue = @ \ taken, ![t].users = @ \cup taken, ![t].served = TRUE]


\* TcpServer::acceptAll from the event loop: until accept4 fails, for want of
\* connections or of descriptors.
AcceptAll(t) ==
  /\ threads[t].at = "serving" /\ threads[t].queue # {} /\ Room > 0
  /\ \E taken \in SUBSET threads[t].queue :
       /\ Cardinality(taken) <= Room
       /\ taken = threads[t].queue \/ Cardinality(taken) = Room
       /\ Accept(t, taken)
  /\ InThread /\ UNCHANGED refused

Release(t) ==
  /\ threads[t].at = "serving"
  /\ \E c \in threads[t].users : threads' = [threads EXCEPT ![t].users = @ \ {c}]
  /\ InThread /\ UNCHANGED refused
\* A handler of a user, or of the answer it was promised by a gateway and that
\* outlives it, throws: run() reports it and returns, the Transgate is destroyed
\* and closes its users, but ~TcpSocket leaves the listening socket open.
HandlerThrows(t) ==
  /\ threads[t].at = "serving" /\ threads[t].served
  /\ threads' = [threads EXCEPT ![t].at = "ended", ![t].users = {}]
  /\ InThread /\ UNCHANGED refused
\* consume() meets a record that has not come whole and reads no further
\* (FcgiStream): the instance never returns to its loop, and keeps what it has.
HandlerSpins(t) ==
  /\ threads[t].at = "serving" /\ threads[t].served
  /\ threads' = [threads EXCEPT ![t].at = "spinning"]
  /\ InThread /\ UNCHANGED refused

-----------------------------------------------------------------------------

Init ==
  /\ \E f \in Files : Opened(f)
  /\ phase = "opening" /\ instances = 0 /\ nextSite = 0 /\ hosts = <<>>
  /\ threads = <<>> /\ refused = {}

Reading == Open \/ Parse \/ ReadSettings \/ ReadSite \/ SitesEnd
Starting == Spawn \/ Spawned \/ Joined
Serving(t) == Bind(t) \/ BindThrows(t) \/ AcceptAll(t) \/ Release(t) \/ HandlerThrows(t) \/ HandlerSpins(t)
Next ==
  \/ Reading \/ NoFile \/ Starting
  \/ \E t \in DOMAIN threads : Serving(t)
  \/ \E c \in Clients : Connect(c)

\* Main and the instances run; as long as no handler keeps it, an instance's
\* loop comes back to its listening socket, which is armed again after every
\* accept (Transgate's BacklogServed).  Nobody has to leave.
Fairness ==
  /\ WF_vars(Reading \/ NoFile) /\ WF_vars(Starting)
  /\ \A t \in 1 .. MaxInstances : WF_vars(t \in DOMAIN threads /\ (Bind(t) \/ BindThrows(t)))
                       /\ WF_vars(t \in DOMAIN threads /\ AcceptAll(t))
Spec == Init /\ [][Next]_vars /\ Fairness

-----------------------------------------------------------------------------
(* Properties. *)

TypeOK ==
  /\ phase \in {"opening", "reading", "aborted", "sites", "spawning", "joining", "exited"}
  /\ nextSite \in Nat
  /\ hosts \in Seq(Nat)
  /\ threads \in Seq([at : {"created", "serving", "spinning", "ended"},
                      bound : BOOLEAN, served : BOOLEAN, queue : SUBSET Clients, users : SUBSET Clients])
  /\ refused \subseteq Clients

\* A file that is JSON gives the value its text means, whatever the pieces
\* in which the buffer was filled, and one that was cut short, lost a bracket
\* or has something behind its end is never taken for another configuration.
DocumentIsMeant ==
  status # "parsing" => IF status = "parsed" THEN doc = file.value
                        ELSE file.value = Null

\* Parsing a file ends, whatever is in it.
ParseEnds == (phase = "reading") ~> (status # "parsing")

\* The server starts with the enabled sites in front of the first one that
\* throws, from the last <any> of them on; it never starts when a site is
\* missing something the program reads.
SitesInFront ==
  LET enabled == {i \in 1 .. nextSite : Outcome(Sites[i]) = "added"}
      anys == {i \in 1 .. nextSite : Outcome(Sites[i]) \in {"added", "threw"} /\ IsAny(Sites[i])} IN
  phase \in {"spawning", "joining", "exited"} =>
    /\ \A i \in 1 .. nextSite : Outcome(Sites[i]) # "aborted"
    /\ Range(hosts) = {i \in enabled : \A a \in anys : a <= i}
    /\ nextSite < Len(Sites) => anys # {} \/ Outcome(Sites[nextSite]) = "threw"

\* A connection waits for ever only at an instance that has ended or spins,
\* whose socket stays in the group although the others do not take its queue
\* over, or while the users of all instances hold every descriptor, those of
\* a spinning instance for good.
WaitsAt(c, t) == t \in DOMAIN threads /\ c \in threads[t].queue /\ threads[t].at = "serving"
=============================================================================
