------------------------------- MODULE MCResponse -------------------------------
(* TLC instances of Response.  Bodies are of distinct bytes, so that a byte     *)
(* that is lost, repeated or out of place shows.                                *)
EXTENDS Response

Answer(f, c) == [framing |-> f, chunks |-> c, digits |-> 4]
Chunked(c) == Answer("chunked", c)
ShortSizes(c) == [framing |-> "chunked", chunks |-> c, digits |-> 1]
Length(b) == Answer("length", <<b>>)
NoLength == Answer("length", <<>>)
NoSpace == Answer("no_space", <<<<"p">>>>)
Close(b) == Answer("close", <<b>>)

\* One response of each kind, and each behind one that leaves something for it.
Reused == {
  <<Chunked(<<<<"p">>, <<"q", "r">>>>)>>,
  <<ShortSizes(<<<<"p">>>>)>>,
  <<Chunked(<<>>), Length(<<"s">>)>>,
  <<Chunked(<<>>), Chunked(<<<<"p">>>>)>>,
  <<Length(<<"p", "q">>), Close(<<"r", "s">>)>>,
  <<Close(<<"p", "q">>), Chunked(<<>>)>>,
  <<NoLength, NoSpace>>}
OneLength == {<<Length(<<"p", "q">>)>>}
=================================================================================
