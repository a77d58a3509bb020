-------------------------------- MODULE MCSession --------------------------------
(* TLC instances of Session: short texts that hold every kind of line.          *)
EXTENDS Session

Typed(k, t, c) == [kind |-> k, text |-> t, closed |-> c]

TwoParts == <<"c1", ";", "c2", "nl", "quit", "nl">>
EmptyLine == <<"nl", "c1", "nl">>
AfterQuit == <<"quit", "nl", "c1", "nl">>
NoNewline == <<"c1", ";", " ", ";", "c2">>
QuitCut == <<" ", "nl", "quit", ";">>

AllInputs ==
  {Typed("tty", TwoParts, FALSE), Typed("tty", EmptyLine, FALSE)}
    \cup {Typed("pipe", AfterQuit, FALSE), Typed("pipe", QuitCut, TRUE), Typed("pipe", <<"c1">>, TRUE)}
    \cup {Typed("file", t, TRUE) : t \in {NoNewline, QuitCut}}

OneExchange == {Typed("tty", <<"c1", "nl", "quit", "nl">>, FALSE)}
=================================================================================
