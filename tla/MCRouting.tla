------------------------------ MODULE MCRouting ------------------------------
(* Configurations and requests for TLC. *)
EXTENDS Routing

Letters == {"a", "b"}
Chars == Letters \cup {"/", ".", "?", "*"}
UriSet == {<<"/">> \o s : s \in BoundedSeq(Chars, 4)}

\* The wwwroot of every site is /b.
MCDirectories == {<<>>, << <<"b">> >>, << <<"b">>, <<"b">> >>}
Below == {<< <<"b">> >> \o node :
            node \in {<< <<"a">> >>, << <<"b", ".", "a">> >>, << <<"a", ".", "b">> >>,
                     << <<"b">>, <<"a">> >>, << <<"b">>, <<"a", ".", "b">> >>}}
MCFiles == {<< <<"a">> >>} \cup Below

Fastcgi(enable, extends) == [kind |-> "fastcgi", enable |-> enable, extends |-> extends]
Dotted == Fastcgi(TRUE, {<<".", "a">>})
Shipped == Fastcgi(TRUE, {<<"a">>})
Off == Fastcgi(FALSE, {<<".", "b">>})
Both == Fastcgi(TRUE, {<<".", "a">>, <<".", "b">>})

Defaults == << <<"b">>, <<"a">>, <<"a", ".", "b">> >>
Climbing == << <<".", ".", "/", "a">>, <<"/", "a">> >>
Site(enable, host, fastcgi, defaults) ==
  [kind |-> "site", enable |-> enable, host |-> host, fastcgi |-> fastcgi,
   root |-> << <<"b">> >>, defaults |-> defaults, forbidden |-> {<<"/", "a">>, <<"b", "/", "a">>}]

MCConfigs ==
  { << Site(TRUE, "h1", <<Off, Dotted>>, Defaults), Site(TRUE, "h2", <<Off>>, Defaults) >>,
    << Site(TRUE, "h2", <<Dotted>>, Defaults), Site(FALSE, "h1", <<Both>>, Defaults),
       Site(TRUE, AnyHost, <<Dotted, Both>>, Defaults), Site(TRUE, "h1", <<>>, Defaults) >>,
    << Site(TRUE, "h1", <<Shipped>>, Defaults) >>,
    << Site(TRUE, "h1", <<Dotted>>, Climbing) >> }

MCMimeTable ==
  << [ext |-> <<".", "b">>, mime |-> "m1"], [ext |-> <<".", "b", "a">>, mime |-> "m2"],
     [ext |-> <<".", "a", "b">>, mime |-> "m3"] >>

Request(good, code, uri, names) == [good |-> good, code |-> code, uri |-> uri, hosts |-> names]
Good(uris, ofHosts) == {Request(TRUE, 0, uri, names) : uri \in uris, names \in ofHosts}
Bad(ofHosts) == {Request(FALSE, code, <<>>, names) : code \in {400, 501}, names \in ofHosts}

\* None, one or two Host fields come with a request.
MCRequests ==
  Good(UriSet, {{"h1"}, {"h2"}})
    \cup Good({<<"/", "b">>, <<"/", "a", ".", "a">>}, {{}, {"h1", "h2"}})
    \cup Bad({{"h1", "h2"}, {}})
MCLater ==
  Good({<<"/">>, <<"/", "b">>, <<"/", "a", ".", "a">>, <<"/", "a", ".", "b">>}, {{"h1"}, {"h2"}})
    \cup Bad({{"h1"}})
=============================================================================
