------------------------------ MODULE MCStartup ------------------------------
(* Configuration files for TLC, and what their author meant. *)
EXTENDS Startup

Chars(s) == [i \in 1 .. Len(s) |-> SubSeq(s, i, i)]
Words == {"evloop", "epoll_events", "server", "port", "max_content_length",
          "keep_connection_time", "instances", "sites", "enable", "host", "wwwroot",
          "default_files", "forbidden_regexes", "fastcgi", "mode", "gateway", "extends",
          "unix", "<any>"}
MCSpelled == [w \in Words |-> Chars(w)]
MCBadRegexes == {Chars("(")}

Str(s) == TextValue(Chars(s))
List(values) == Holding("array", values)
Obj(members) == Holding("object", members)
True == Value("true")
False == Value("false")

\* A text and its value.
File(text, value) == [text |-> Chars(text), value |-> value]
Wrong(text) == File(text, Null)

Small == File(" {\"a\" : [1,-2 , true],\n\"b\":{},\"\":[ ] }",
  Obj(<<Str("a"), List(<<IntValue(1), IntValue(-2), True>>),
        Str("b"), Obj(<<>>), Str(""), List(<<>>)>>))
Numbers == File("[0,-0,90,300,-91,1.5,2e3,-0.5E+3,25e-3,123456]",
  List(<<IntValue(0), IntValue(0), IntValue(90), Value("wide"), Value("wide"), Value("double"),
         Value("double"), Value("double"), Value("double"), Value("wide")>>))
Texts == File("[\"\\\\a\\n\",\"\\u00e9\",\"\\uD83d\\uDE00\",null,false]",
  List(<<TextValue(<<"\\", "a", "\n">>), TextValue(<<"\\u", "0", "0", "e", "9">>),
         TextValue(<<"\\u", "D", "8", "3", "d", "D", "E", "0", "0">>), Null, False>>))

\* What damage leaves of a file: it is cut, or a character is missing.
Cut(f) == {[f EXCEPT !.text = SubSeq(@, 1, i), !.value = Null] : i \in 0 .. Len(f.text) - 1}
Structure == {"{", "}", "[", "]", ":", "\"", "u"}
Lost(f) == {[f EXCEPT !.text = SubSeq(@, 1, i - 1) \o SubSeq(@, i + 1, Len(@)), !.value = Null]
             : i \in {j \in DOMAIN f.text : f.text[j] \in Structure}}
Mistakes == {Wrong(t) : t \in
  {"[1,]", "{\"a\":1,}", "{,}", "{} {}", "[]]", "[01]", "[1.]", "[-]", "[2e]", "[2e+]", "[2e99]", "[.5]",
   "\"\n\"", "[\"\\x\"]", "[\"\\u00g0\"]", "[\"\\ud83d\"]", "[\"\\ud83d\\n\"]", "[\"\\ud83d\\u0041\"]", "nul", "trye", "[1 2]",
   "{\"a\" 1}", "{\"a\"}", "{1:1}", "{\"a\":1 \"b\":2}"}}

\* Whole configurations.
Gateway(mode) == "{\"enable\":true,\"mode\":\"" \o mode \o "\",\"gateway\":\"g\",\"extends\":[\"p\"]"
Site(host, regexes, fastcgi) ==
  "{\"enable\":true,\"host\":\"" \o host \o "\",\"wwwroot\":\"/\",\"default_files\":[\"i\"],\"forbidden_regexes\":["
    \o regexes \o "],\"fastcgi\":[" \o fastcgi \o "]}"
Config(n, sites) ==
  "{\"evloop\":{\"epoll_events\":9},\"server\":{\"port\":80,\"max_content_length\":9,\"keep_connection_time\":2,\"instances\":"
    \o n \o "},\"sites\":[" \o sites \o "]}"
Off == "{\"enable\":false}"

GatewayV(mode, rest) == Obj(<<Str("enable"), True, Str("mode"), Str(mode), Str("gateway"), Str("g"),
                              Str("extends"), List(<<Str("p")>>)>> \o rest)
SiteV(host, regexes, fastcgi) ==
  Obj(<<Str("enable"), True, Str("host"), Str(host), Str("wwwroot"), Str("/"),
        Str("default_files"), List(<<Str("i")>>), Str("forbidden_regexes"), List(regexes),
        Str("fastcgi"), List(fastcgi)>>)
ConfigV(n, sites) ==
  Obj(<<Str("evloop"), Obj(<<Str("epoll_events"), IntValue(9)>>),
        Str("server"), Obj(<<Str("port"), IntValue(80), Str("max_content_length"), IntValue(9),
                             Str("keep_connection_time"), IntValue(2), Str("instances"), n>>),
        Str("sites"), List(sites)>>)
OffV == Obj(<<Str("enable"), False>>)

A == Site("a", "", "")
AV == SiteV("a", <<>>, <<>>)
Anyone == Site("<any>", "", Gateway("unix") \o "}")
AnyV == SiteV("<any>", <<>>, <<GatewayV("unix", <<>>)>>)
Bad(host) == Site(host, "\"x\",\"(\"", "")
BadV(host) == SiteV(host, <<Str("x"), Str("(")>>, <<>>)
Configs ==
  {File(Config("2", A), ConfigV(IntValue(2), <<AV>>)),
   File(Config("0", Off \o "," \o A \o "," \o Anyone \o "," \o A),
        ConfigV(IntValue(0), <<OffV, AV, AnyV, AV>>)),
   File(Config("1", A \o "," \o Bad("b") \o "," \o A),
        ConfigV(IntValue(1), <<AV, BadV("b"), AV>>)),
   File(Config("1", A \o "," \o Bad("<any>")), ConfigV(IntValue(1), <<AV, BadV("<any>")>>)),
   File(Config("1", A \o "," \o Site("b", "1", "")),
        ConfigV(IntValue(1), <<AV, SiteV("b", <<IntValue(1)>>, <<>>)>>)),
   File(Config("1", Site("c", "", Gateway("tcp") \o "}")),
        ConfigV(IntValue(1), <<SiteV("c", <<>>, <<GatewayV("tcp", <<>>)>>)>>)),
   File(Config("1", "{}"), ConfigV(IntValue(1), <<Obj(<<>>)>>)),
   File(Config("-1", A), ConfigV(IntValue(-1), <<AV>>)),
   File(Config("1.0", A), ConfigV(Value("double"), <<AV>>))}

MCFiles == {Small, Numbers, Texts} \cup Configs \cup Mistakes
             \cup UNION {Cut(f) \cup Lost(f) : f \in {Small, Texts}}
=============================================================================
