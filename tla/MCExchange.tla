------------------------------- MODULE MCExchange -------------------------------
(* TLC instances of Exchange: urls of every plain form, files with and without  *)
(* a known extension.                                                           *)
EXTENDS Exchange, TLC

Url(scheme, domain, port, digits, path) ==
  [text |-> scheme \o domain \o digits \o path,
   scheme |-> scheme, domain |-> domain, digits |-> digits, path |-> path, port |-> port]

Http == <<"h", "t", "t", "p", ":", "/", "/">>
Long == [i \in 1 .. 33 |-> "x"] \o <<":", "/", "/">>
Host2 == <<"a", "b">>

Plain == Url(Http, Host2, 80, <<>>, <<"/", "f">>)
DeepPath == Url(Http, Host2, 80, <<>>, <<"/", "f", "/", "g">>)
NoPath == Url(<<>>, Host2, 8080, <<":", "8", "0", "8", "0">>, <<>>)
WidePort == Url(Http, Host2, 1, <<":", "6", "5", "5", "3", "7">>, <<"/", "f", "/", "g">>)
LongScheme == Url(Long, Host2, 80, <<>>, <<"/", "f">>)

Cmd(method, url, name, extension) ==
  [method |-> method, url |-> url, file |-> [name |-> name, extension |-> extension]]

AllCommands ==
  {Cmd("get", Plain, "g", "txt"), Cmd("get", LongScheme, "g", "txt"),
   Cmd("get", Plain, "p", "txt"),
   Cmd("put", DeepPath, "p", "txt"), Cmd("put", Plain, "q", "none"),
   Cmd("put", Plain, "r", NoRow),
   Cmd("delete", NoPath, "d", "txt"), Cmd("propfind", WidePort, "d", "txt")}

OneGet == {Cmd("get", Plain, "g", "txt")}

AnySlot == Permutations(Slots)
=================================================================================
