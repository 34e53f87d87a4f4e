---------------------------- MODULE MCFcgiStream ----------------------------
(* Answers of a gateway for TLC. *)
EXTENDS FcgiStream

CONSTANTS p1, p2

CRLF == <<"CR", "LF">>
RecordOf(type, content, padding) == [type |-> type, content |-> content, padding |-> padding]
End == RecordOf(EndRequest, <<"e">>, 0)
Empty == RecordOf(Stdout, <<>>, 0)

TypeIs == [key |-> <<"Type">>, blanks |-> 1, value |-> <<"html">>]
SetIs == [key |-> <<"Set">>, blanks |-> 0, value |-> <<"x">>]
StatusIs(value) == [key |-> Status, blanks |-> 2, value |-> value]
Body == <<"b", "b">>

Answer(copies, ends, lines, records) ==
  [copies |-> copies, ends |-> ends, lines |-> lines, body |-> Body, records |-> records,
   bytes |-> Layout(records)]
ToOne(lines, records) == Answer({p1}, 1 .. Len(Layout(records)), lines, records)

\* A head and a body in one record.
InOne(lines, padding) ==
  ToOne(lines, <<RecordOf(Stdout, HeadOf(lines) \o Body, padding), End>>)

MCAnswers ==
  { InOne(<<TypeIs>>, 1),
    ToOne(<<TypeIs>>, <<RecordOf(Stdout, HeadOf(<<TypeIs>>), 2), RecordOf(Stdout, Body, 0), Empty, End>>),
    ToOne(<<TypeIs>>,
      <<RecordOf(Stdout, HeadOf(<<TypeIs>>) \o <<"b">>, 0), RecordOf(Stderr, <<"w">>, 1),
        RecordOf(Stdout, <<"b">>, 0), Empty>>),
    ToOne(<<SetIs, TypeIs>>,
      <<RecordOf(Stdout, Wire(SetIs) \o Wire(TypeIs), 0), RecordOf(Stdout, CRLF \o Body, 0), End>>),
    InOne(<<TypeIs, StatusIs(<<"404", "no">>)>>, 0),
    InOne(<<StatusIs(<<"302">>), TypeIs>>, 0),
    InOne(<<StatusIs(<<"bad">>)>>, 0),
    \* Of a field that comes twice the last stays.
    InOne(<<SetIs, [SetIs EXCEPT !.value = <<"y">>]>>, 0),
    \* To two copies: pieces end inside a header, after it, inside the content
    \* and at the ends of the records.
    Answer({p1, p2}, {3, 8, 11, 14, 22, 31}, <<>>,
      <<RecordOf(Stdout, CRLF \o CRLF \o Body, 0), Empty, End>>),
    \* The same with a padded empty record, received whole.
    Answer({p1, p2}, {14, 24}, <<>>,
      <<RecordOf(Stdout, CRLF \o CRLF \o Body, 0), RecordOf(Stdout, <<>>, 2)>>) }
=============================================================================
