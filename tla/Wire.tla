-------------------------------- MODULE Wire --------------------------------
(***************************************************************************)
(* The way of one line from the prompt of a client to the server and, if   *)
(* it is a message, to the screen of another client: the command loop      *)
(* (client.c) takes it apart, a packet is built and encoded, the server    *)
(* decodes what recv returns and takes apart its data (chatServer.c), and  *)
(* passes the bytes on; the listener of a member decodes them again and    *)
(* prints (chatClient.c).  Names, passwords and text are whatever people   *)
(* type; none of these conversions escapes its delimiters.                 *)
(***************************************************************************)
EXTENDS Transport

CONSTANTS
  Lines,          \* lines typed
  PasswordFile,   \* the lines of passwords.txt, a sequence
  Names,          \* clientIDs of clients that are logged in
  SessionNames,   \* sessions in the table of the server
  Following       \* what may come behind a request in one recv

(* Lines and names are C strings.  A clientID came back from the server in *)
(* MAX_NAME characters.  MAX_INPUT, the room for a line, is much less than *)
(* MAX_DATA, so two tokens, or a session and a text, fit.                  *)
ASSUME WireAssumption ==
  /\ Lines \cup Names \cup SessionNames \subseteq Seq(STRING \ {NUL})
  /\ Following \subseteq Seq(STRING) /\ PasswordFile \in Seq(Seq(STRING \ {NUL}))
  /\ \A n \in Names : Len(n) <= MaxName /\ Len(n) <= MaxData
  /\ \A l \in Lines : 2 * Len(l) + 1 <= MaxData
  /\ \A l \in Lines, s \in SessionNames : Len(l) + Len(s) + 2 <= MaxData

VARIABLES
  stage,      \* "prompt", "local", "sent", "received", "login", "forward", "refused",
              \*   "shown", "fault"; "overrun", after which anything may happen
  clientID,   \* the sender's clientID, and the server's for its connection
  tab,        \* the string in the sender's tab, <<>> for NULL
  line,       \* cmdBuffer
  tokens,     \* its tokens, if it is a command
  request,    \* the packet built from it
  received,   \* what recv returns to the server
  loginString,\* the string LOGIN inserts in `connections'
  tabs,       \* the tabs of a member of the session the message is passed on to
  shown       \* what its listener prints

vars == <<stage, clientID, tab, line, tokens, request, received, loginString, tabs, shown>>

NoPacket == NewPacket("none", <<>>, <<>>)
Nothing == [tab |-> 0, session |-> <<>>, source |-> <<>>, text |-> <<>>]

(* currSessionID is copied without a terminator: what is read back may go  *)
(* on beyond the name.                                                     *)
TabStrings(s) == {s, Append(s, Garbage)}

Init ==
  /\ stage = "prompt"
  /\ clientID \in Names
  /\ tab \in UNION {TabStrings(s) : s \in SessionNames}
  /\ line = <<>> /\ tokens = <<>> /\ request = NoPacket /\ received = <<>>
  /\ loginString = <<>> /\ tabs = <<>> /\ shown = Nothing

-----------------------------------------------------------------------------
(* The password file.                                                      *)

(* Mutant: the newline stays in the password.                              *)
PasswordWithNewline(l) == parseTokens(l, {"\t"})[2]

(* The password ends before the last character of the line.                *)
PasswordIn(l) == Front(parseTokens(l, {"\t"})[2])

(* The user table: the first line of a user counts.                        *)
users ==
  LET NameIn(l) == parseTokens(l, {"\t"})[1]
  IN  [u \in {NameIn(l) : l \in ToSet(PasswordFile)} |->
         PasswordIn(PasswordFile[Min({i \in DOMAIN PasswordFile : NameIn(PasswordFile[i]) = u})])]

-----------------------------------------------------------------------------
(* The client.                                                             *)

(* The packet of a command line with tokens t.                             *)
RequestOf(t) ==
  CASE t[1] = <<"/", "login">> /\ Len(t) = 5 -> getLoginPacket(t[2], t[3])
    [] t[1] = <<"/", "logout">> /\ Len(t) = 1 -> getLogoutPacket(clientID)
    [] t[1] = <<"/", "joinsession">> /\ Len(t) = 2 -> getJoinSessionPacket(clientID, t[2])
    [] t[1] = <<"/", "leavesession">> /\ Len(t) = 1 -> getLeaveSessionPacket(clientID, tab)
    [] t[1] = <<"/", "createsession">> /\ Len(t) = 2 -> getNewSessionPacket(clientID, t[2])
    [] t[1] = <<"/", "list">> /\ Len(t) = 1 -> getListPacket(clientID)
    [] OTHER -> NoPacket

IsCommand(l) == l # <<>> /\ l[1] = "/"

(* A command is taken apart; /switchtab, /quit and what is no command send *)
(* nothing.  A plain line is sent with its newline.                        *)
Enter(l) ==
  LET t == parseTokens(l, {" ", "\n"})
  IN  /\ stage = "prompt"
      /\ line' = l
      /\ tokens' = IF IsCommand(l) THEN t ELSE <<>>
      /\ request' = IF IsCommand(l) THEN RequestOf(t) ELSE getMessagePacket(clientID, tab, l)
      /\ stage' = IF request' = NoPacket THEN "local"
                  ELSE IF HeaderOverrun(request') THEN "overrun" ELSE "sent"
      /\ UNCHANGED <<clientID, tab, received, loginString, tabs, shown>>

-----------------------------------------------------------------------------
(* The server.                                                             *)

(* recv, which returns the request with what follows it, or a part of it,  *)
(* and what decoding that writes into arrays.                              *)
Receive ==
  /\ stage = "sent"
  /\ LET bytes == packetToByteArray(request)
     IN  \/ \E next \in Following : received' = bytes \o next
         \/ \E n \in HeaderEnd(bytes) .. Len(bytes) : received' = SubSeq(bytes, 1, n)
  /\ stage' = IF Overrun(received') THEN "overrun" ELSE "received"
  /\ UNCHANGED <<clientID, tab, line, tokens, request, loginString, tabs, shown>>

(* The data of a LOGIN as a string after strtok_r has ended its first      *)
(* token.                                                                  *)
ListedString(got) ==
  LET data == CString(Data(got), 0)
      user == strtok(data, {","})[1]
      lead == CHOOSE i \in 0 .. Len(data) : SubSeq(data, i + 1, i + Len(user)) = user
                                              /\ \A j \in 1 .. i : data[j] = ","
  IN  SubSeq(data, 1, lead) \o user

(* LOGIN of a user who is not logged in.  A missing second token is NULL   *)
(* for strcmp.                                                             *)
Login ==
  LET got == bytesToPacket(received)
      parts == parseTokens(CString(Data(got), 0), {","})
      known == parts # <<>> /\ parts[1] \in DOMAIN users
  IN  /\ stage = "received" /\ got.type = "LOGIN"
      /\ \/ /\ known /\ Len(parts) = 1
            /\ stage' = "fault"
            /\ UNCHANGED <<clientID, loginString>>
         \/ /\ ~known \/ (known /\ Len(parts) > 1 /\ parts[2] # users[parts[1]])
            /\ stage' = "refused"
            /\ UNCHANGED <<clientID, loginString>>
         \/ /\ known /\ Len(parts) > 1 /\ parts[2] = users[parts[1]]
            /\ stage' = "login"
            /\ clientID' = Source(got)
            /\ loginString' = ListedString(got)
      /\ UNCHANGED <<tab, line, tokens, request, received, tabs, shown>>

SessionIn(data) == UpTo(data, {";", NUL})

(* MESSAGE: the session is looked up, and the bytes are passed on to a     *)
(* member, who has the session in one of its tabs.                         *)
Message ==
  LET got == bytesToPacket(received)
      session == SessionIn(Data(got))
  IN  /\ stage = "received" /\ got.type = "MESSAGE"
      /\ \/ /\ Source(got) # clientID \/ session \notin SessionNames
            /\ stage' = "refused"
            /\ UNCHANGED tabs
         \/ /\ Source(got) = clientID /\ session \in SessionNames
            /\ stage' = "forward"
            /\ \E own \in TabStrings(session), other \in ({<<>>} \cup SessionNames) \ {session} :
                 tabs' \in {<<own, other>>, <<other, own>>}
      /\ UNCHANGED <<clientID, tab, line, tokens, request, received, loginString, shown>>

-----------------------------------------------------------------------------
(* The listener of a member.                                               *)

(* Mutant: the text begins one character late.                             *)
TextLate(data) == SubSeq(data, Len(UpTo(data, {";"})) + 3, Len(data) - 1)

(* What is printed of the data behind the session and its `;': all but the *)
(* last character.                                                         *)
TextIn(data) == SubSeq(data, Len(UpTo(data, {";"})) + 2, Len(data) - 1)

Listen ==
  LET got == bytesToPacket(received)
      session == UpTo(Data(got), {";"})
      Matching == {j \in DOMAIN tabs : tabs[j] = session}
      k == IF Matching = {} THEN 1 ELSE Max(Matching)
  IN  /\ stage = "forward"
      /\ stage' = "shown"
      /\ shown' = [tab |-> k, session |-> tabs[k], source |-> Source(got),
                   text |-> TextIn(Data(got))]
      /\ UNCHANGED <<clientID, tab, line, tokens, request, received, loginString, tabs>>

-----------------------------------------------------------------------------
Next == (\E l \in Lines : Enter(l)) \/ Receive \/ Login \/ Message \/ Listen

Spec == Init /\ [][Next]_vars

-----------------------------------------------------------------------------
Whole == Len(received) >= Len(packetToByteArray(request))

(* A source that ends in its array, without delimiters.  (One that fills it*)
(* is read on into the data, up to a NUL.)                                 *)
PlainSource(p) ==
  LET source == CString(p.mem, 0)
  IN  source # <<>> /\ Len(source) < MaxName /\ \A c \in {":", " ", "\n"} : c \notin ToSet(source)

(* parseTokens returns all of the line but the delimiters, cut where they  *)
(* were, however often its buffer has to grow.                             *)
TokensWhole ==
  tokens # <<>> =>
    /\ FlattenSeq(tokens) = Without(line, {" ", "\n"})
    /\ \A i \in DOMAIN tokens : tokens[i] # <<>>
    /\ Len(tokens) = 1 + Cardinality({i \in 2 .. Len(line) :
                                        line[i] \notin {" ", "\n"} /\ line[i-1] \in {" ", "\n"}})

(* The client writes a packet with data within its buffer (a packet without*)
(* data has none).  If its source has no delimiter and fewer characters    *)
(* than MAX_NAME, then no array is overrun unless more than MAX_DATA bytes *)
(* come behind the header in the recv that returns it, and without that the*)
(* server decodes what was built, whatever else is in the recv.            *)
RequestArrives ==
  /\ request # NoPacket /\ request.size > 0 =>
       Len(packetToByteArray(request)) <= Capacity(request)
  /\ stage = "overrun" /\ PlainSource(request) =>
       Len(received) - HeaderEnd(received) > MaxData
  /\ stage = "received" /\ Whole /\ PlainSource(request) =>
       LET got == bytesToPacket(received)
       IN  /\ got.type = request.type
           /\ Source(got) = Source(request) /\ Data(got) = Data(request)

(* The string that marks a user as logged in is the clientID of the        *)
(* connection, so EXIT finds it; and who types the password of the file    *)
(* gets in.  This holds for names and passwords without delimiters, names  *)
(* of fewer characters than MAX_NAME, and lines of the file that end with a*)
(* newline, if no array is overrun.                                        *)
LoginAgrees ==
  LET plain == /\ \A i \in 2 .. 3 : {",", ":", "\t"} \cap ToSet(tokens[i]) = {}
               /\ Len(tokens[2]) < MaxName
      entry == tokens[2] \o <<"\t">> \o tokens[3] \o <<"\n">>
  IN  request.type = "LOGIN" /\ plain /\ Whole =>
        /\ stage = "login" => loginString = clientID /\ clientID = tokens[2]
        /\ PasswordFile # <<>> /\ entry = PasswordFile[1] => stage \notin {"refused", "fault"}

(* A member sees who wrote and what was typed, without the newline that    *)
(* ended it, in the tab of the session the sender had in front, if neither *)
(* name has a delimiter in it, recv did not cut the request and the strings*)
(* in both tabs end where they should.  (A line that fgets cut, or that the*)
(* end of the input ended, has no newline: its last character is lost.)    *)
ShownAsTyped ==
  request.type = "MESSAGE" /\ Whole /\ PlainSource(request)
    /\ tab \in SessionNames /\ ";" \notin ToSet(tab)
    /\ line # <<>> /\ Last(line) = "\n" =>
    /\ stage # "refused"
    /\ stage = "shown" =>
         /\ shown.source = clientID /\ shown.text = Front(line)
         /\ (\E j \in DOMAIN tabs : tabs[j] = tab) => shown.session = tab
=============================================================================
