------------------------------- MODULE Routing -------------------------------
(***************************************************************************)
(* From a parsed request to the one who answers it: the sites are read     *)
(* from the configuration (ConfigProvider), a request is matched with a    *)
(* host, an extension and a file (ContentProvider, StaticProvider,         *)
(* HostConfig), and a page, an error or the gateway is chosen.  One        *)
(* connection is followed: its request object, its interaction buffer and  *)
(* its mark are used again by every request on it.                         *)
(*                                                                         *)
(* A uri is a sequence of characters.  What the parser makes of the bytes  *)
(* (HttpParser) is an input here, and so is the tree of files, which stays *)
(* as it is: a file or a directory is the sequence of the names that lead  *)
(* to it from the root of the file system.                                 *)
(***************************************************************************)
EXTENDS Integers, Sequences, SequencesExt

CONSTANTS
  Configs,      \* what may be configured: sequences of sites
  Requests,     \* what a client may ask first ...
  Later,        \* ... and after that
  MaxReads,     \* bound: reads of the connection
  MimeTable,    \* the table of adaptMIME: a sequence of extensions and types
  Directories,  \* the directories that open
  Files         \* the files that open

AnyHost == "<any>"
Nothing == "nothing"     \* a null pointer, an empty view, no header field
IsPrefixOf(s, t) == Len(s) <= Len(t) /\ SubSeq(t, 1, Len(s)) = s

ASSUME MimeAssumption == MimeTable \in Seq([ext : Seq(STRING), mime : STRING])

ASSUME ReadsAssumption == MaxReads \in Nat

\* A uri, the name of a file or an extension.
Path == Seq(STRING)

\* The root is a directory, all else has a name, and what is above a file or a
\* directory is a directory.
Tree == Directories \cup Files
ASSUME TreeAssumption ==
  /\ Tree \subseteq Seq(Path \ {<<>>}) /\ <<>> \in Directories
  /\ \A node \in Tree : \A k \in 0 .. Len(node) - 1 : SubSeq(node, 1, k) \in Directories
NoNode == << <<>> >>

\* A rejected request has the code of an error.  Any number of Host fields may
\* come with a request.
ASSUME RequestsAssumption ==
  \A r \in Requests \cup Later :
    r.uri \in Path /\ r.hosts \in SUBSET STRING /\ (~r.good => r.code # 200)

\* A site, with the directory that its wwwroot is.
FcgiConfig == [kind : {"fastcgi"}, enable : BOOLEAN, extends : SUBSET Path]
HostConfig ==
  [kind : {"site"}, enable : BOOLEAN, host : STRING, fastcgi : Seq(FcgiConfig),
   root : Directories, defaults : Seq(Path), forbidden : SUBSET Path]
ASSUME ConfigsAssumption == Configs \subseteq Seq(HostConfig)

VARIABLES
  sites,     \* the sites of the configuration file
  at,        \* the site the constructor of ConfigProvider is at
  hosts,     \* hosts_
  anyhost,   \* exist_anyhost_
  request,   \* request_, shared by all providers of the connection: the uri and
             \* the values of all Host fields
  mark,      \* kCMFcgi is set in the interaction buffer
  pending,   \* delegated providers not yet connected: the uri each is for,
             \* and the read it was delegated at
  asked,     \* how many have asked the gateway, and what the last asked for
  reply,     \* the last answer that was chosen, the request and the read it is for
  reads,     \* reads of the connection
  first      \* (history) the first read answered by a gateway, or 0

vars == <<sites, at, hosts, anyhost, request, mark, pending, asked, reply, reads, first>>
config == <<sites, at, hosts, anyhost>>

-----------------------------------------------------------------------------
(* The configuration. *)

SwitchedOn(gateways) ==
  LET on[i \in 0 .. Len(gateways)] ==
        IF i = 0 THEN <<>>
        ELSE IF gateways[i].enable THEN Append(on[i - 1], gateways[i]) ELSE on[i - 1]
  IN  on[Len(gateways)]

\* Of a site all is kept but the gateways that are switched off.
Loaded(site) == [site EXCEPT !.fastcgi = SwitchedOn(@)]

Init ==
  /\ sites \in Configs
  /\ at = 1 /\ hosts = <<>> /\ anyhost = FALSE
  /\ request = [uri |-> <<>>, hosts |-> {}]
  /\ mark = FALSE /\ pending = <<>>
  /\ asked = [count |-> 0, for |-> <<>>, uri |-> <<>>, overtaken |-> FALSE]
  /\ reply = [kind |-> Nothing, read |-> 0]
  /\ reads = 0 /\ first = 0

Loading == at <= Len(sites)
Loads == UNCHANGED <<sites, request, mark, pending, asked, reply, reads, first>>

SkipSite ==
  /\ Loading /\ ~sites[at].enable
  /\ at' = at + 1
  /\ UNCHANGED <<hosts, anyhost>> /\ Loads

AddSite ==
  /\ Loading /\ sites[at].enable /\ sites[at].host # AnyHost
  /\ hosts' = Append(hosts, Loaded(sites[at]))
  /\ at' = at + 1
  /\ UNCHANGED anyhost /\ Loads

\* A site for any host replaces those read before, and ends the reading.
AddAnySite ==
  /\ Loading /\ sites[at].enable /\ sites[at].host = AnyHost
  /\ hosts' = <<Loaded(sites[at])>>
  /\ anyhost' = TRUE
  /\ at' = Len(sites) + 1
  /\ Loads

-----------------------------------------------------------------------------
(* Extensions and types.  fileExtends and adaptMIME search from one past the *)
(* last character down to, but not including, the first.                     *)

IsFilename(ch) ==
  ch \notin {"?", "\\", "/", "*", "\"", "'", "<", ">", "|"}

FileExtends(uri) ==
  LET dots == {p \in 2 .. Len(uri) : uri[p] = "."}
      ends == {p \in Max(dots) .. Len(uri) : ~IsFilename(uri[p])}
  IN  IF dots = {} THEN <<>>
      ELSE SubSeq(uri, Max(dots), IF ends = {} THEN Len(uri) ELSE Min(ends) - 1)

\* strncasecmp over the length of the extension: the first entry it begins.
AdaptMIME(uri) ==
  LET ext == FileExtends(uri)
      found == {i \in DOMAIN MimeTable : IsPrefixOf(ext, MimeTable[i].ext)}
  IN  IF ext = <<>> THEN "text/html"
      ELSE IF found = {} THEN "application/octet-stream" ELSE MimeTable[Min(found)].mime

-----------------------------------------------------------------------------
(* Hosts, gateways and files. *)

\* The first member of s at one of the places found, or nothing.
FirstOf(s, found) == IF found = {} THEN [kind |-> Nothing] ELSE s[Min(found)]

AdaptHost(name) ==
  IF anyhost THEN hosts[1]
  ELSE FirstOf(hosts, {i \in DOMAIN hosts : hosts[i].host = name})

AdaptFcgi(host, extends) ==
  FirstOf(host.fastcgi, {i \in DOMAIN host.fastcgi : extends \in host.fastcgi[i].extends})

\* getUri: "/" is the root, a slash in front is taken away.
GetUri(uri) ==
  IF Len(uri) = 1 THEN <<".">>
  ELSE IF uri # <<>> /\ uri[1] = "/" THEN Tail(uri) ELSE uri

\* The names in a path: what stands between slashes.
Names(path) ==
  LET Ends(p) == path[p] # "/" /\ (p = Len(path) \/ path[p + 1] = "/")
      Name(p) == SubSeq(path, 1 + Max({0} \cup {q \in 1 .. p : path[q] = "/"}), p)
      names[p \in 0 .. Len(path)] ==
        IF p = 0 THEN <<>>
        ELSE IF Ends(p) THEN Append(names[p - 1], Name(p)) ELSE names[p - 1]
  IN  names[Len(path)]

\* From a directory one name further.
Enter(node, name) ==
  IF node \notin Directories THEN NoNode
  ELSE IF name = <<".">> THEN node
  ELSE IF name = <<".", ".">> THEN SubSeq(node, 1, Len(node) - 1)
  ELSE IF Append(node, name) \in Tree THEN Append(node, name) ELSE NoNode

\* openat(directory, path): a path that begins with a slash is followed from the
\* root of the file system, and one that ends with a slash opens a directory.
Resolve(directory, path) ==
  LET names == Names(path)
      walk[i \in 0 .. Len(names)] ==
        IF i > 0 THEN Enter(walk[i - 1], names[i])
        ELSE IF path[1] = "/" THEN <<>> ELSE directory
      node == walk[Len(names)]
  IN  IF path = <<>> \/ (path[Len(path)] = "/" /\ node \notin Directories) THEN NoNode
      ELSE node

DefaultsThatOpen(host, directory) ==
  {i \in DOMAIN host.defaults : Resolve(directory, host.defaults[i]) # NoNode}

\* Slip: the last of them.
DefaultFileLast(host, directory) ==
  LET found == DefaultsThatOpen(host, directory)
  IN  IF found = {} THEN NoNode ELSE Resolve(directory, host.defaults[Max(found)])

\* defaultFile: the first of the default files that opens, be it a directory.
DefaultFile(host, directory) ==
  LET found == DefaultsThatOpen(host, directory)
  IN  IF found = {} THEN NoNode ELSE Resolve(directory, host.defaults[Min(found)])

\* Slip: what is forbidden is looked for under the uri without its slash.
IsForbiddenPath(host, uri) == GetUri(uri) \in host.forbidden
IsForbidden(host, uri) == uri \in host.forbidden

\* staticProvide: a file, or nothing for the error page.
StaticFile(host, path) ==
  LET node == Resolve(host.root, path)
  IN  IF node \in Directories THEN DefaultFile(host, node) ELSE node

-----------------------------------------------------------------------------
(* One read of the connection: the parser, ContentProvider::provide and what *)
(* UserManager::doReadable does after it.                                    *)

\* The parser has finished with r.  The uri of a rejected request is not set,
\* so that the one before stays.  A field is never replaced: the key of the
\* table is the place of the name in the buffer, so that one of the same name is
\* kept beside it.  A rejected request leaves those read before the error.
NewUri(r) == IF r.good THEN r.uri ELSE request.uri
ReadHosts(r) == IF r.good THEN {r.hosts} ELSE SUBSET r.hosts

\* getValue: whichever of them the table has first, or an empty view.
HostValues(known) == IF known = {} THEN {Nothing} ELSE known

HasGateway(host) == host.kind # Nothing /\ host.fastcgi # <<>>

Gateway(host, uri) ==
  IF HasGateway(host) THEN AdaptFcgi(host, FileExtends(uri)) ELSE [kind |-> Nothing]

\* The code of the page or the error page, where `file` may be nothing.
CodeOf(r, host, uri, file) ==
  IF ~HasGateway(host) THEN 404
  ELSE IF ~r.good THEN r.code
  ELSE IF IsForbidden(host, uri) THEN 403
  ELSE IF file = NoNode THEN 404 ELSE 200

\* ContentProvider::provide for r, with the uri and the host of the request
\* object.
Answer(r, uri, name) ==
  LET host == AdaptHost(name)
      gateway == Gateway(host, uri)
      file == IF host.kind = Nothing THEN NoNode ELSE StaticFile(host, GetUri(uri))
      code == CodeOf(r, host, uri, file)
  IN  [kind |-> IF gateway.kind # Nothing THEN "gateway" ELSE IF code = 200 THEN "page" ELSE "error",
       request |-> r, site |-> host, read |-> reads + 1,
       gateway |-> gateway, code |-> code, file |-> file, mime |-> AdaptMIME(uri)]

\* Slip: the mark is set for every answer.
MarksAll(answer) == TRUE
Marks(answer) == mark \/ answer.kind = "gateway"

\* Slip: the provider is delegated for the request before.
DelegatesBefore(marks, uri) ==
  /\ mark' = marks
  /\ pending' = IF marks THEN Append(pending, [uri |-> request.uri, read |-> reads + 1])
                ELSE pending

\* A marked buffer is delegated after every read, whatever it brought.
Delegates(marks, uri) ==
  /\ mark' = marks
  /\ pending' = IF marks THEN Append(pending, [uri |-> uri, read |-> reads + 1])
                ELSE pending

Serve(r) ==
  /\ ~Loading /\ reads < MaxReads
  /\ reads' = reads + 1
  /\ \E read \in ReadHosts(r) :
       /\ request' = [uri |-> NewUri(r), hosts |-> request.hosts \cup read]
       /\ \E name \in HostValues(request'.hosts) : reply' = Answer(r, NewUri(r), name)
  /\ Delegates(Marks(reply'), NewUri(r))
  /\ first' = IF first = 0 /\ reply'.kind = "gateway" THEN reads + 1 ELSE first
  /\ UNCHANGED config /\ UNCHANGED asked

\* A read that brought no whole request.
ReadPart ==
  /\ ~Loading /\ reads < MaxReads
  /\ reads' = reads + 1
  /\ Delegates(mark, request.uri)
  /\ UNCHANGED config /\ UNCHANGED <<request, asked, reply, first>>

\* A gateway's socket is writeable: makeRequest asks for what the request
\* object holds by then.
Ask ==
  /\ pending # <<>>
  /\ asked' = [count |-> asked.count + 1, for |-> pending[1].uri, uri |-> request.uri,
               overtaken |-> pending[1].read < reply.read]
  /\ pending' = Tail(pending)
  /\ UNCHANGED config /\ UNCHANGED <<request, mark, reply, reads, first>>

Next ==
  \/ SkipSite \/ AddSite \/ AddAnySite
  \/ \E r \in (IF reads = 0 THEN Requests ELSE Later) : Serve(r)
  \/ ReadPart \/ Ask

Spec == Init /\ [][Next]_vars

-----------------------------------------------------------------------------
TypeOK ==
  /\ sites \in Configs /\ at \in 1 .. Len(sites) + 1
  /\ \A i \in DOMAIN hosts : \E j \in DOMAIN sites : hosts[i] = Loaded(sites[j])
  /\ anyhost \in BOOLEAN /\ (anyhost => Len(hosts) = 1)
  /\ mark \in BOOLEAN
  /\ reads \in 0 .. MaxReads /\ first \in 0 .. reads /\ reply.read \in 0 .. reads
  /\ reply.kind \in {Nothing, "gateway", "page", "error"}
  /\ \A i \in DOMAIN pending : pending[i].read \in 1 .. reads

(* The configuration as its documentation has it. *)

Enabled(i) == sites[i].enable
AnySites == {i \in DOMAIN sites : Enabled(i) /\ sites[i].host = AnyHost}
SitesOf(name) == {i \in DOMAIN sites : Enabled(i) /\ sites[i].host = name}

\* A site for any host, or the site of this host: the first if there are several.
ConfiguredSites(name) == IF AnySites # {} THEN AnySites ELSE SitesOf(name)

\* A path of names that only go down.
Descends(path) ==
  /\ path # <<>> /\ path[1] # "/"
  /\ \A i \in DOMAIN Names(path) : Names(path)[i] \notin {<<".">>, <<".", ".">>}

\* A path of plain names, with no query, and no dot but in the last name.
Plain(uri) ==
  /\ uri # <<>> /\ uri[1] = "/"
  /\ Len(uri) > 1 => Descends(Tail(uri))
  /\ \A p \in DOMAIN uri : uri[p] = "/" \/ IsFilename(uri[p])
  /\ \A p, q \in DOMAIN uri : uri[p] = "." /\ q > p => uri[q] # "/"

\* What such a path names, from a directory, and whether it is there.
Named(directory, path) == directory \o Names(path)
IsThere(directory, path) ==
  IF path # <<>> /\ path[Len(path)] = "/" THEN Named(directory, path) \in Directories
  ELSE Named(directory, path) \in Tree

\* What follows the last dot, with the dot.
Suffix(uri) ==
  IF "." \notin Range(uri) THEN <<>>
  ELSE CHOOSE s \in {SubSeq(uri, p, Len(uri)) : p \in DOMAIN uri} :
         s[1] = "." /\ "." \notin Range(Tail(s))

\* The default files of all sites are named by such paths.
DefaultsDescend ==
  \A i \in DOMAIN sites : \A j \in DOMAIN sites[i].defaults : Descends(sites[i].defaults[j])

\* The file that a plain uri means: the one it names, or the first default file
\* in the directory it names.
Meant(site, uri) ==
  LET path == Tail(uri)
      node == Named(site.root, path)
      defaults == {i \in DOMAIN site.defaults : IsThere(node, site.defaults[i])}
  IN  IF ~IsThere(site.root, path) THEN NoNode
      ELSE IF node \notin Directories THEN node
      ELSE IF defaults = {} THEN NoNode ELSE Named(node, site.defaults[Min(defaults)])

\* The type is that of the extension where it is first listed, unless a longer
\* one that begins with it is listed before.
TypeIsListed(mime, ext) ==
  \A i \in DOMAIN MimeTable :
    /\ MimeTable[i].ext = ext
    /\ \A j \in 1 .. i - 1 : ~IsPrefixOf(ext, MimeTable[j].ext)
    => mime = MimeTable[i].mime

\* A request with a plain uri, or one rejected before there was any, is answered
\* by the first site and the first gateway that the configuration has for one of
\* the hosts received on the connection, or by the file, the default file or the
\* error that it should meet.  Known departures: extensions are configured with
\* the dot, a site without gateways answers 404 to everything, a gateway also
\* gets rejected and forbidden requests, a directory may be a default file, and
\* an extension has the type of an earlier, longer one that begins with it.
RoutedFor(name) ==
  LET r == reply.request
      uri == request.uri
      mine == ConfiguredSites(name)
      site == Loaded(sites[Min(mine)])
      takers == {i \in DOMAIN site.fastcgi : Suffix(uri) \in site.fastcgi[i].extends}
  IN  IF mine = {} THEN reply.kind = "error" /\ reply.code = 404
      ELSE /\ reply.site = site
           /\ IF site.fastcgi = <<>> THEN reply.kind = "error" /\ reply.code = 404
              ELSE IF takers # {}
              THEN reply.kind = "gateway" /\ reply.gateway = site.fastcgi[Min(takers)]
              ELSE IF ~r.good THEN reply.kind = "error" /\ reply.code = r.code
              ELSE IF uri \in site.forbidden
              THEN reply.kind = "error" /\ reply.code = 403
              ELSE IF Meant(site, uri) = NoNode
              THEN reply.kind = "error" /\ reply.code = 404
              ELSE /\ reply.kind = "page" /\ reply.file = Meant(site, uri)
                   /\ Suffix(uri) # <<>> => TypeIsListed(reply.mime, Suffix(uri))

RoutedAsConfigured ==
  /\ reply.kind # Nothing /\ DefaultsDescend
  /\ Plain(request.uri) \/ (~reply.request.good /\ request.uri = <<>>)
  => \E name \in HostValues(request.hosts) : RoutedFor(name)

\* A path goes above where it starts when at some place in it more names have
\* been ".." than have been names of files.
Climbs(path) ==
  LET names == Names(path)
      depth[i \in 0 .. Len(names)] ==
        IF i = 0 THEN 0
        ELSE IF names[i] = <<".">> THEN depth[i - 1]
        ELSE IF names[i] = <<".", ".">> THEN depth[i - 1] - 1 ELSE depth[i - 1] + 1
  IN  \E i \in DOMAIN depth : depth[i] < 0

IsAbsolute(path) == path # <<>> /\ path[1] = "/"
LeavesRoot(path) == IsAbsolute(path) \/ Climbs(path)

\* Whatever the uri is, a page was asked for by a good request whose uri is not
\* forbidden, it exists, and it is below the wwwroot of the site, unless the uri,
\* less one slash, or the configured name of a default file is absolute or goes
\* above where it starts by "..".
PagesAllowed ==
  reply.kind = "page" =>
    /\ reply.request.good
    /\ reply.request.uri \notin reply.site.forbidden
    /\ reply.file \in Tree
    /\ \/ IsPrefixOf(reply.site.root, reply.file)
       \/ LeavesRoot(GetUri(reply.request.uri))
       \/ \E i \in DOMAIN reply.site.defaults : LeavesRoot(reply.site.defaults[i])

\* From the first request for a gateway on, every read of the connection sends
\* one more request to it, and before it none does.
QuestionsCounted ==
  asked.count + Len(pending) = IF first = 0 THEN 0 ELSE reads - first + 1

\* The gateway is asked for another uri than the provider was delegated for only
\* when a later request was read before the gateway's socket was writeable.
AskedForItsRequest == asked.for # asked.uri => asked.overtaken

\* README "[sites]/[fastcgi]/extends": the extension-name, as transgate.json has
\* it, without a dot.
ExtendsReachGateway ==
  LET r == reply.request
  IN  /\ reply.kind # Nothing /\ r.good /\ Plain(r.uri) /\ Suffix(r.uri) # <<>>
      /\ \A name \in HostValues(request.hosts) :
           /\ ConfiguredSites(name) # {}
           /\ \E g \in Range(Loaded(sites[Min(ConfiguredSites(name))]).fastcgi) :
                Tail(Suffix(r.uri)) \in g.extends
      => reply.kind = "gateway"
=============================================================================
