---------------------------- MODULE MCConnection ----------------------------
(* Small instance of Connection.  A client with two threads over each kind of
   stream talks to every loop; its calls end with a Close, given in every way
   there is. *)
EXTENDS Connection

Data(data) == [how |-> "data", msg |-> Msg("Text", data, NoCode)]
Coded(code, data) == [how |-> "code", msg |-> Msg(code, data, NoCode)]
Close(code, data) == [how |-> "close", msg |-> Msg("Close", data, code)]

MCScripts ==
    { <<Data(<<97>>), Close(1000, <<98>>)>>,
      <<Coded("Ping", <<97>>), Coded("Close", <<3, 232>>)>>,
      <<Coded("Pong", <<>>), Coded("Close", <<>>)>>,
      <<Coded("Text", <<255>>), Close(1005, <<>>)>>,
      <<Coded("Ping", [i \in 1 .. 126 |-> 97]), Close(1000, <<>>)>> }

Side(codec, loop, stream, calls) ==
    [codec |-> codec, loop |-> loop, stream |-> stream, script |-> calls]

Duplex == {Side(c, "duplex", "free", s) : c \in {"text", "bytes"}, s \in MCScripts}
          \cup {Side("text", "duplex", "locked", s) : s \in MCScripts}

Loop == {Side("text", "echo", "free", <<>>), Side("bytes", "echo", "locked", <<>>),
         Side("frame", "autobahn", "free", <<>>)}

Talker == Side("bytes", "duplex", "locked", <<Data(<<97>>), Close(1000, <<>>)>>)

MCSetups == {[client |-> c, server |-> s] : c \in Duplex, s \in Loop \cup {Talker}}

=============================================================================
