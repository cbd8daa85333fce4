------------------------------ MODULE Transport ------------------------------
(***************************************************************************)
(* utils/transport.c and parseTokens of utils/printHelpers.c as functions  *)
(* on sequences of characters.  A character is a string of its own; so are *)
(* a decimal number, which nothing here takes apart, and a command word.   *)
(* The source and the data of a packet are one piece of memory, because a  *)
(* source that fills its array is read on into the data.                   *)
(***************************************************************************)
EXTENDS Naturals, SequencesExt, TLC

CONSTANTS
  MaxName,    \* MAX_NAME
  MaxData,    \* MAX_DATA
  HeaderRoom, \* what is left for a source in sprintfBuf, of 128 characters
  TokenRoom   \* the tokens parseTokens makes room for at first

ASSUME TransportAssumption ==
  {MaxName, MaxData, HeaderRoom, TokenRoom} \subseteq Nat \ {0} /\ MaxName <= HeaderRoom

NUL == "NUL"          \* the end of a string
Garbage == "garbage"  \* what memory nobody has written holds

(* A size in decimal digits.                                               *)
Decimal(n) == ToString(n)

(* Sizes that differ are written in different ways, none of them ":".      *)
ASSUME DecimalAssumption ==
  \A n \in 0 .. MaxData :
    /\ Decimal(n) \in STRING \ {":"}
    /\ \A m \in 0 .. MaxData : Decimal(m) = Decimal(n) => m = n

Zeroed(n) == [i \in 1 .. n |-> NUL]

(* memcpy of s to offset `at' of mem.                                      *)
Put(mem, at, s) ==
  [i \in DOMAIN mem |-> IF i \in at + 1 .. at + Len(s) THEN s[i - at] ELSE mem[i]]

(* The characters of s up to the first one in `ends'.                      *)
UpTo(s, ends) == SubSeq(s, 1, Min({i \in DOMAIN s : s[i] \in ends} \cup {Len(s) + 1}) - 1)

(* The C string at offset `at' of mem.                                     *)
CString(mem, at) == UpTo(SubSeq(mem, at + 1, Len(mem)), {NUL})

Without(s, chars) == FlattenSeq([i \in DOMAIN s |-> IF s[i] \in chars THEN <<>> ELSE <<s[i]>>])

-----------------------------------------------------------------------------
(* Packets.                                                                *)

Data(p) == SubSeq(p.mem, MaxName + 1, MaxName + p.size)
Source(p) == CString(SubSeq(p.mem, 1, MaxName), 0)

(* What the helpers for requests and the replies of the server have in     *)
(* common: a zeroed packet with source and data copied into it.            *)
NewPacket(type, source, data) ==
  [type |-> type, size |-> Len(data),
   mem |-> Put(Put(Zeroed(MaxName + MaxData), 0, source), MaxName, data)]

getLoginPacket(clientID, password) ==
  NewPacket("LOGIN", clientID, clientID \o <<",">> \o password)
getLogoutPacket(clientID) == NewPacket("EXIT", clientID, <<>>)
getListPacket(clientID) == NewPacket("QUERY", clientID, clientID)
getMessagePacket(clientID, session, contents) ==
  NewPacket("MESSAGE", clientID, session \o <<";">> \o contents)
getNewSessionPacket(clientID, session) == NewPacket("NEW_SESS", clientID, session)
getJoinSessionPacket(clientID, session) == NewPacket("JOIN", clientID, session)
getLeaveSessionPacket(clientID, session) == NewPacket("LEAVE_SESS", clientID, session)

(* sprintf of "%d:%d:%s:".                                                 *)
Header(p) == <<p.type, ":", Decimal(p.size), ":">> \o CString(p.mem, 0) \o <<":">>

(* The header and the data behind it.                                      *)
packetToByteArray(p) == Header(p) \o Data(p)

(* sprintf writes beyond sprintfBuf.                                       *)
HeaderOverrun(p) == Len(CString(p.mem, 0)) > HeaderRoom

(* calloc(size, 1 + chars).                                                *)
Capacity(p) == p.size * (1 + Len(Header(p)))

Number(digits) == CHOOSE n \in 0 .. MaxData : Decimal(n) = digits

(* Mutant: the header ends at the second colon.                            *)
HeaderEndSecond(bytes) ==
  LET Colons(i) == Cardinality({j \in 1 .. i : bytes[j] = ":"})
  IN  Min({i \in DOMAIN bytes : Colons(i) = 2})

(* The position of the third colon.                                        *)
HeaderEnd(bytes) ==
  LET Colons(i) == Cardinality({j \in 1 .. i : bytes[j] = ":"})
  IN  Min({i \in DOMAIN bytes : Colons(i) = 3})

(* What "%s" reads into clientId: it ends at white space.                  *)
ClientIdIn(bytes) == UpTo(SubSeq(bytes, 5, HeaderEnd(bytes) - 1), {" ", "\n", NUL})

(* bytesToPacket copies all that was received behind the header into       *)
(* content[MAX_DATA], and a name with its NUL into clientId[MAX_NAME]: it  *)
(* writes beyond one of them.                                              *)
Overrun(bytes) ==
  Len(bytes) - HeaderEnd(bytes) > MaxData \/ Len(ClientIdIn(bytes)) >= MaxName

(* A recv that begins with a header and overruns nothing.  The data is what*)
(* follows the header, whatever was received, for as long as the size says.*)
(* "%s" leaves clientId alone if there is nothing to read.                 *)
bytesToPacket(bytes) ==
  LET end == HeaderEnd(bytes)
      size == Number(bytes[3])
      name == ClientIdIn(bytes)
      source == IF name = <<>> THEN <<Garbage>> ELSE name
      data == [i \in 1 .. size |-> IF end + i \in DOMAIN bytes THEN bytes[end + i] ELSE Garbage]
  IN  [NewPacket(bytes[1], source, data) EXCEPT !.size = size]

-----------------------------------------------------------------------------
(* parseTokens.                                                            *)

(* The tokens strtok_r returns: the longest runs without a delimiter.      *)
strtok(s, delimiters) ==
  LET Starts == {i \in DOMAIN s : s[i] \notin delimiters /\ (i = 1 \/ s[i-1] \in delimiters)}
  IN  [k \in 1 .. Cardinality(Starts) |->
         LET at == CHOOSE i \in Starts : Cardinality({j \in Starts : j <= i}) = k
         IN  UpTo(SubSeq(s, at, Len(s)), delimiters)]

(* Mutant: the buffer grows one token late.                                *)
KeepTokenLate(kept, token) ==
  LET room == IF kept.n <= kept.currMax THEN kept.currMax ELSE 2 * kept.currMax
      grown == [i \in 1 .. room |-> IF i <= kept.n /\ i <= kept.currMax
                                    THEN kept.buffer[i] ELSE <<>>]
  IN  [n |-> kept.n + 1, currMax |-> room, buffer |-> Put(grown, kept.n, <<token>>)]

(* One more token: the buffer doubles if it is full.                       *)
KeepToken(kept, token) ==
  LET room == IF kept.n < kept.currMax THEN kept.currMax ELSE 2 * kept.currMax
      grown == [i \in 1 .. room |-> IF i <= kept.n THEN kept.buffer[i] ELSE <<>>]
  IN  [n |-> kept.n + 1, currMax |-> room, buffer |-> Put(grown, kept.n, <<token>>)]

(* The array that is returned has room for the tokens there are and no     *)
(* more; its length is `count'.                                            *)
parseTokens(s, delimiters) ==
  LET empty == [n |-> 0, currMax |-> TokenRoom, buffer |-> [i \in 1 .. TokenRoom |-> <<>>]]
      kept == FoldLeft(KeepToken, empty, strtok(s, delimiters))
  IN  IF kept.n < kept.currMax THEN [i \in 1 .. kept.n |-> kept.buffer[i]] ELSE kept.buffer
=============================================================================
