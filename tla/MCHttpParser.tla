---------------------------- MODULE MCHttpParser ----------------------------
(* Scripts of requests for TLC. *)
EXTENDS HttpParser

GET == <<"G", "E", "T">>
Root == <<"/">>
RequestOf(method, uri, major, minor, fields, content) ==
  [method |-> method, uri |-> uri, major |-> major, minor |-> minor,
   fields |-> fields, content |-> content]

Short == RequestOf(GET, Root, <<"1">>, <<"0">>, <<>>, <<>>)
Long == RequestOf(GET, <<"/", "A", "A", "A", "A", "A", "A", "A">>, <<"1">>, <<>>, <<>>, <<>>)
Kept == RequestOf(GET, <<"/", "A">>, <<"1">>, <<"1">>, << <<"Host", <<"a.com">>>> >>, <<>>)
Other == RequestOf(GET, Root, <<"1">>, <<"1">>, << <<"Host", <<"b.com">>>> >>, <<>>)
Closing == RequestOf(<<"H", "E", "A", "D">>, Root, <<"1">>, <<"1">>,
                   << <<"Connection", <<"close">>>> >>, <<>>)
Asking == RequestOf(<<"O", "P", "T", "I", "O", "N", "S">>, Root, <<"1">>, <<"0">>,
                  << <<"Connection", <<"keep-alive">>>>, <<"Host", <<"b.com">>>> >>, <<>>)
Posting(length, content) ==
  RequestOf(<<"P", "O", "S", "T">>, Root, <<"1">>, <<"1">>, << <<"Content-Length", length>> >>, content)
Empty ==
  RequestOf(<<"P", "O", "S", "T">>, Root, <<"1">>, <<"1">>,
          << <<"Content-Length", <<"0", "0">>>>, <<"Host", <<"a.com">>>> >>, <<>>)

\* The last option counts, and the last number behind another byte.
Changing == RequestOf(GET, Root, <<"1">>, <<"0">>,
                      << <<"Connection", <<"keep-alive">>>>, <<"Connection", <<"close">>>> >>, <<>>)
Lettered == Posting(<<"A", "1">>, <<>>)

\* Requests the parser rejects, each in another state.
WithFields(fields) == RequestOf(GET, Root, <<"1">>, <<"1">>, fields, <<>>)
Wrong == {
  RequestOf(<<"D", "E", "T">>, Root, <<"1">>, <<"0">>, <<>>, <<>>),
  RequestOf(<<"G", "E", "E">>, Root, <<"1">>, <<"0">>, <<>>, <<>>),
  RequestOf(GET, Root, <<"3">>, <<"7">>, <<>>, <<>>),
  WithFields(<< <<"Host", <<>>>> >>),
  WithFields(<< <<"Connection", <<"close", "A">>>>, <<"Host", <<>>>> >>),
  WithFields(<< <<"Content-Length", <<"1", "A">>>> >>),
  WithFields(<< <<"Content-Length", <<"9", "9">>>> >>)}

MCScripts ==
  {<<Short>>, <<Long>>, <<Kept, Other>>, <<Long, Asking>>, <<Asking, Closing>>,
   <<Kept, Closing, Other>>, <<Empty, Other>>, <<Changing, Lettered>>,
   <<Posting(<<"3">>, <<"A", "A", "A">>), Kept>>,
   <<Kept, Posting(<<"3", "1", "0">>, <<>>)>>,
   <<Posting(<<"2", "3", "9">>, <<"A", "A", "A", "A", "A", "A", "A">>), Kept>>}
  \cup {<<Kept, r, Other>> : r \in Wrong}
=============================================================================
