------------------------------- MODULE MCWire -------------------------------
(***************************************************************************)
(* An instance of Wire for TLC: names, passwords, sessions and lines with  *)
(* and without the delimiters, names that just fit, that fill their array  *)
(* and that are longer, a command with more tokens than there is room for  *)
(* at first, and a recv with more behind the header than MAX_DATA.         *)
(***************************************************************************)
EXTENDS Wire

Ann == <<"a">>
Colon == <<"a", ":">>
Comma == <<"a", ",", "b">>
Fits == <<"a", "b", "c">>
Full == <<"a", "b", "c", "d">>
Long == <<"a", "b", "c", "d", "e">>
Sess == <<"s">>
Semi == <<"s", ";", "t">>

AllNames == {Ann, Colon, Comma, Fits, Full}
AllSessions == {Sess, Semi}

Words == {<<"p">>, <<",">>, <<"p", ",">>, <<"b">>}

LoginLines ==
  {<<"/", "login", " ">> \o n \o <<" ">> \o p \o <<" ", "h", " ", "1", "\n">>
     : n \in AllNames \cup {Long}, p \in Words}
LocalLines ==
  {<<"/", "list", " ", "x", " ", "y", " ", " ", "z", "\n">>, <<"/", "logout", " ", "x">>,
   <<"/", "switchtab", " ", "2", "\n">>, <<"/", "quit", "\n">>, <<"/", " ", "list", "\n">>}
SessionLines ==
  {<<"/", c>> \o gap \o s \o <<"\n">>
     : c \in {"joinsession", "createsession"}, gap \in {<<" ">>, <<" ", " ">>}, s \in AllSessions}
ShortLines == {<<"/", c, "\n">> : c \in {"logout", "leavesession", "list"}}
Texts == {<<"x", "\n">>, <<"x", ";", " ", ":", "\n">>, <<"\n">>, <<"x">>}

AllLines == LoginLines \cup SessionLines \cup ShortLines \cup LocalLines \cup Texts

File == << <<"a", "\t", "b", "\n">>, <<"a", "\t", "q", "\n">>, Fits \o <<"\t", "p">>,
          Full \o <<"\t", "p", "\n">> >>

NextMessage == packetToByteArray(getMessagePacket(Ann, Sess, <<"y", "\n">>))

Rests == {<<>>, packetToByteArray(getLogoutPacket(Ann)), NextMessage,
          NextMessage \o NextMessage \o NextMessage \o NextMessage}
=============================================================================
