-------------------------- MODULE ChatClientProofs --------------------------
(***************************************************************************)
(* Theorems about ChatClient, for any tabs, names, listeners and bounds.   *)
(***************************************************************************)
EXTENDS ChatClient, SequenceTheorems, TLAPS

-----------------------------------------------------------------------------
(* What a tab shows.                                                       *)

(* A request that names the session it asks for.                           *)
NamedRequest == {r \in Request : r.type \in {"JOIN", "NEW_SESS"} => r.name \in Name}

(* A packet whose ACK lets the client into a session of g.                 *)
GrantedPacket(g) == {p \in Packet : p.type \in {"JN_ACK", "NS_ACK"} => p.name \in g}

(* A tab gets its name from an ACK, an ACK that lets the client into a     *)
(* session carries the name of a session granted, and that name comes from *)
(* a request that has one: this is kept along the way from cmd to inbox.   *)
TabInv ==
  /\ tab \in [Tab -> Name \cup {NoName}] /\ curr \in Tab
  /\ cmd \in NamedRequest /\ (mpc = "recv" => cmd.type # "EXIT")
  /\ outbox \in Seq(NamedRequest)
  /\ pending \in Seq(GrantedPacket(granted)) /\ inbox \in Seq(GrantedPacket(granted))
  /\ granted \subseteq Name
  /\ TabsGranted /\ StateOfTab

(* The tabs are empty.                                                     *)
LEMMA TabInit == Init => TabInv
BY ClientAssumption, EmptySeq
DEF Init, TabInv, NamedRequest, GrantedPacket, Request, Packet, Ack, TabsGranted, StateOfTab

(* A command asks for a session by its name or names that of the tab.      *)
LEMMA TabCommand ==
  ASSUME TabInv, Command
  PROVE  TabInv'
<1>. USE DEF TabInv, TabsGranted, StateOfTab
<1>1. ASSUME NEW type \in DOMAIN Ack \cup {"EXIT"}, NEW name \in Name \cup {NoName},
             type \in {"JOIN", "NEW_SESS"} => name \in Name,
             Begin(type, name)
      PROVE  TabInv'
  <2>1. cmd' \in NamedRequest
    BY <1>1, ClientAssumption DEF Begin, NamedRequest, Request
  <2>. QED  BY <1>1, <2>1 DEF Begin, netVars
<1>2. CASE Login \/ Logout \/ List
  BY <1>1, <1>2 DEF Login, Logout, List, Ack
<1>3. CASE Leave \/ Say
  <2>1. tab[curr] \in Name \cup {NoName}
    OBVIOUS
  <2>. QED  BY <1>1, <1>3, <2>1 DEF Leave, Say, Ack
<1>4. CASE \E n \in Name : Join(n) \/ Create(n)
  BY <1>1, <1>4 DEF Join, Create, Ack
<1>5. CASE Quit
  BY <1>5 DEF Quit, sessVars, netVars
<1>6. CASE \E t \in Tab : SwitchTab(t)
  BY <1>6 DEF SwitchTab, netVars
<1>. QED  BY <1>2, <1>3, <1>4, <1>5, <1>6 DEF Command

(* Taking packets off the front of a stream leaves packets.                *)
LEMMA SuffixInSeq ==
  ASSUME NEW S, NEW s \in Seq(S), NEW k \in 1 .. Len(s)
  PROVE  SubSeq(s, k + 1, Len(s)) \in Seq(S)
<1>1. Len(s) \in Nat /\ \A i \in k + 1 .. Len(s) : s[i] \in S
  BY LenProperties, ElementOfSeq
<1>. QED  BY <1>1, SubSeqProperties

(* recv leaves packets, however much of the stream it took.                *)
LEMMA ConsumeInSeq ==
  ASSUME NEW S, inbox \in Seq(S), Consume
  PROVE  inbox' \in Seq(S)
<1>1. ASSUME NEW k \in 1 .. Len(inbox)
      PROVE  SubSeq(inbox, k + 1, Len(inbox)) \in Seq(S)
  BY SuffixInSeq
<1>. QED  BY <1>1 DEF Consume

(* More sessions granted, and the packets are still right.                 *)
LEMMA GrantsGrow ==
  ASSUME NEW g, NEW h, g \subseteq h, NEW s \in Seq(GrantedPacket(g))
  PROVE  s \in Seq(GrantedPacket(h))
<1>1. GrantedPacket(g) \subseteq GrantedPacket(h)
  BY DEF GrantedPacket
<1>. QED  BY <1>1, SeqDef

(* The server answers with the name it was asked for, which it has granted *)
(* if the answer is an ACK.                                                *)
LEMMA TabServer ==
  ASSUME TabInv, Server
  PROVE  TabInv'
<1>. USE DEF TabInv, TabsGranted, StateOfTab, mainVars, sessVars
<1>1. CASE Serve
  <2>. DEFINE r == Head(outbox)
  <2>1. r \in NamedRequest /\ outbox' \in Seq(NamedRequest)
    <3>1. \A k \in 1 .. Len(outbox) : SubSeq(outbox, k + 1, Len(outbox)) \in Seq(NamedRequest)
      BY SuffixInSeq
    <3>. QED  BY <1>1, <3>1, HeadTailProperties DEF Serve
  <2>2. CASE r.type = "EXIT"
    BY <1>1, <2>1, <2>2 DEF Serve
  <2>3. CASE r.type # "EXIT"
    <3>1. r.type \in DOMAIN Ack /\ r.name \in Name \cup {NoName} /\ r.no \in 0 .. MaxRequests
      BY <2>1, <2>3 DEF NamedRequest, Request
    <3>2. PICK type \in {Ack[r.type], "NAK"} :
             /\ pending' = <<[type |-> type, name |-> r.name, of |-> r.no]>>
             /\ granted' = IF type \in {"JN_ACK", "NS_ACK"} THEN granted \cup {r.name} ELSE granted
      BY <1>1, <2>3 DEF Serve
    <3>3. type \in {"JN_ACK", "NS_ACK"} => r.type \in {"JOIN", "NEW_SESS"}
      BY <3>1, <3>2 DEF Ack
    <3>4. granted \subseteq granted' /\ granted' \subseteq Name
      BY <2>1, <3>2, <3>3 DEF NamedRequest
    <3>5. [type |-> type, name |-> r.name, of |-> r.no] \in GrantedPacket(granted')
      BY <3>1, <3>2, <3>3 DEF GrantedPacket, Packet
    <3>6. inbox' \in Seq(GrantedPacket(granted'))
      BY <1>1, <3>4, GrantsGrow DEF Serve
    <3>. QED  BY <1>1, <2>1, <3>2, <3>4, <3>5, <3>6 DEF Serve
  <2>. QED  BY <2>2, <2>3
<1>2. CASE Reply
  <2>1. inbox \o pending \in Seq(GrantedPacket(granted))
    BY ConcatProperties
  <2>. QED  BY <1>2, <2>1, EmptySeq DEF Reply
<1>3. ASSUME NEW n \in Name, Forward(n)
      PROVE  TabInv'
  <2>1. [type |-> "MESSAGE", name |-> n, of |-> 0] \in GrantedPacket(granted)
    BY ClientAssumption DEF GrantedPacket, Packet
  <2>2. inbox' \in Seq(GrantedPacket(granted))
    BY <1>3, <2>1, AppendProperties DEF Forward
  <2>. QED  BY <1>3, <2>2 DEF Forward
<1>4. CASE ServerStops \/ ServerLosesClient
  BY <1>4, EmptySeq DEF ServerStops, ServerLosesClient
<1>5. CASE Accept
  BY <1>5 DEF Accept
<1>. QED  BY <1>1, <1>2, <1>3, <1>4, <1>5 DEF Server

(* A reply puts into the tab in front what its state says.                 *)
LEMMA TabThreads ==
  ASSUME TabInv,
         \/ MainLock \/ Crash \/ MainLogout \/ MainRecv
         \/ \E l \in Listener : ListenTop(l) \/ ListenLock(l) \/ ListenRecv(l)
  PROVE  TabInv'
<1>. USE DEF TabInv, TabsGranted, StateOfTab
<1>1. SendIt => outbox' \in Seq(NamedRequest)
  <2>1. Append(outbox, cmd) \in Seq(NamedRequest)
    BY AppendProperties
  <2>. QED  BY <2>1 DEF SendIt
<1>2. CASE MainLock
  BY <1>1, <1>2 DEF MainLock, sessVars
<1>3. CASE Crash
  BY <1>3 DEF Crash, sessVars, netVars
<1>4. CASE MainLogout
  BY <1>1, <1>4, EmptySeq DEF MainLogout
<1>5. CASE MainRecv
  <2>1. inbox' \in Seq(GrantedPacket(granted))
    BY <1>5, ConsumeInSeq DEF MainRecv
  <2>2. PICK p \in Received :
           IF cmd.type = "LOGIN" THEN LoginRefused \/ LoginAnswered(p) ELSE Answered(p)
    BY <1>5 DEF MainRecv
  <2>3. p.type \in {"JN_ACK", "NS_ACK"} => p.name \in granted
    <3>1. inbox # <<>> => Head(inbox) \in GrantedPacket(granted)
      BY HeadTailProperties
    <3>. QED  BY <3>1 DEF Received, Readable, Closed, Failed, GrantedPacket
  <2>4. /\ tab' \in [Tab -> Name \cup {NoName}]
        /\ \A t \in Tab : tab'[t] \in granted \cup {NoName}
        /\ state' = "insession" => tab'[curr] # NoName
        /\ state' = "loggedin" => tab'[curr] = NoName
    <3>1. CASE cmd.type = "LOGIN"
      BY <2>2, <3>1 DEF LoginRefused, LoginAnswered
    <3>2. CASE cmd.type \in {"JOIN", "NEW_SESS"}
      <4>1. Entered(p)
        BY <2>2, <3>2 DEF Answered
      <4>2. p.type = Ack[cmd.type] => p.name \in granted /\ p.name \in Name /\ p.name # NoName
        BY <2>3, <3>2, ClientAssumption DEF Ack
      <4>. QED  BY <4>1, <4>2 DEF Entered, TabOf
    <3>3. CASE cmd.type = "LEAVE_SESS"
      BY <2>2, <3>3 DEF Answered, Left
    <3>4. CASE cmd.type \notin {"LOGIN", "JOIN", "NEW_SESS", "LEAVE_SESS"}
      BY <2>2, <3>4 DEF Answered
    <3>. QED  BY <3>1, <3>2, <3>3, <3>4
  <2>. QED  BY <1>5, <2>1, <2>4 DEF MainRecv
<1>6. ASSUME NEW l \in Listener, ListenTop(l) \/ ListenLock(l)
      PROVE  TabInv'
  BY <1>6 DEF ListenTop, ListenLock, mainVars, sessVars, netVars
<1>7. ASSUME NEW l \in Listener, ListenRecv(l)
      PROVE  TabInv'
  <2>1. inbox' \in Seq(GrantedPacket(granted))
    BY <1>7, ConsumeInSeq DEF ListenRecv
  <2>. QED  BY <1>7, <2>1 DEF ListenRecv, mainVars
<1>. QED  BY <1>2, <1>3, <1>4, <1>5, <1>6, <1>7

(* TabInv is inductive.                                                    *)
LEMMA TabStep ==
  ASSUME TabInv, [Next]_vars
  PROVE  TabInv'
<1>1. TabInv /\ UNCHANGED vars => TabInv'
  BY DEF vars, mainVars, sessVars, netVars, TabInv, TabsGranted, StateOfTab
<1>. QED  BY <1>1, TabCommand, TabServer, TabThreads DEF Next

(* So it holds throughout.                                                 *)
LEMMA TabInvariant == Spec => []TabInv
<1>1. TabInv /\ [Next]_vars => TabInv'
  BY TabStep
<1>. QED  BY TabInit, <1>1, PTL DEF Spec

(* A tab shows only sessions the server has let the client join, whatever  *)
(* reply is read for which request.                                        *)
THEOREM TabsGrantedCorrect == Spec => []TabsGranted
<1>. TabInv => TabsGranted
  BY DEF TabInv
<1>. QED  BY TabInvariant, PTL

(* The state of the command loop is that of the tab in front.              *)
THEOREM StateOfTabCorrect == Spec => []StateOfTab
<1>. TabInv => StateOfTab
  BY DEF TabInv
<1>. QED  BY TabInvariant, PTL

-----------------------------------------------------------------------------
(* Who holds socketLock.                                                   *)

(* OneReader, and labels for every listener.                               *)
LockInv ==
  /\ lpc \in [Listener -> {"off", "top", "lock", "recv"}]
  /\ OneReader

(* No listener runs.                                                       *)
LEMMA LockInit == Init => LockInv
BY ClientAssumption DEF Init, LockInv, OneReader

(* Commands leave the lock alone and do not start in the middle of a recv. *)
LEMMA LockCommand ==
  ASSUME LockInv, Command
  PROVE  LockInv'
<1>. USE DEF LockInv, OneReader, netVars
<1>1. CASE Login \/ Logout \/ Leave \/ List \/ Say
  BY <1>1 DEF Login, Logout, Leave, List, Say, Begin
<1>2. CASE Quit
  BY <1>2 DEF Quit, sessVars
<1>3. CASE \E n \in Name : Join(n) \/ Create(n)
  BY <1>3 DEF Join, Create, Begin
<1>4. CASE \E t \in Tab : SwitchTab(t)
  BY <1>4 DEF SwitchTab
<1>. QED  BY <1>1, <1>2, <1>3, <1>4 DEF Command

(* The server reopens nothing.                                             *)
LEMMA LockServer ==
  ASSUME LockInv, Server
  PROVE  LockInv'
BY DEF Server, Accept, Serve, Reply, Forward, ServerStops, ServerLosesClient,
       LockInv, OneReader, mainVars, sessVars

(* A thread takes the lock when it is free, and gives it back after recv   *)
(* but for the two cases OneReader names; a LOGIN that starts a listener   *)
(* runs with the lock held, so no listener has lost it.                    *)
LEMMA LockThreads ==
  ASSUME LockInv, TabInv,
         \/ MainLock \/ Crash \/ MainLogout \/ MainRecv
         \/ \E l \in Listener : ListenTop(l) \/ ListenLock(l) \/ ListenRecv(l)
  PROVE  LockInv'
<1>. USE ClientAssumption DEF LockInv, OneReader
<1>1. CASE MainLock
  <2>1. peer' # "open" \/ peer = "open"
    BY <1>1 DEF MainLock, SendIt
  <2>. QED  BY <1>1, <2>1 DEF MainLock, sessVars
<1>2. CASE Crash
  BY <1>2 DEF Crash, sessVars, netVars
<1>3. CASE MainLogout
  <2>1. peer' # "open" \/ peer = "open"
    BY <1>3 DEF MainLogout, SendIt
  <2>. QED  BY <1>3, <2>1 DEF MainLogout
<1>4. CASE MainRecv
  <2>1. /\ mpc = "recv" /\ lock = "main" /\ mpc' = "prompt" /\ peer' = peer
        /\ \A l \in Listener : lock # l /\ lpc[l] # "recv"
    BY <1>4 DEF MainRecv
  <2>2. PICK p \in Received :
           IF cmd.type = "LOGIN" THEN LoginRefused \/ LoginAnswered(p) ELSE Answered(p)
    BY <1>4 DEF MainRecv
  <2>3. CASE cmd.type = "LOGIN" /\ LoginRefused
    BY <2>1, <2>3 DEF LoginRefused
  <2>4. CASE cmd.type = "LOGIN" /\ LoginAnswered(p)
    BY <2>1, <2>4 DEF LoginAnswered
  <2>5. CASE cmd.type # "LOGIN"
    BY <2>1, <2>2, <2>5 DEF Answered, Unlocks
  <2>. QED  BY <2>2, <2>3, <2>4, <2>5
<1>5. ASSUME NEW l \in Listener, ListenTop(l)
      PROVE  LockInv'
  BY <1>5 DEF ListenTop, mainVars, sessVars, netVars
<1>6. ASSUME NEW l \in Listener, ListenLock(l)
      PROVE  LockInv'
  BY <1>6 DEF ListenLock, mainVars, sessVars, netVars
<1>7. ASSUME NEW l \in Listener, ListenRecv(l)
      PROVE  LockInv'
  <2>1. /\ lock = l /\ UNCHANGED <<mpc, refused, peer>>
        /\ lpc' = [lpc EXCEPT ![l] = "top"]
        /\ mpc # "recv"
    BY <1>7 DEF ListenRecv, mainVars
  <2>2. \/ threadRun' = FALSE /\ lock' = lock /\ peer # "open"
        \/ lock' = "free" /\ threadRun' = threadRun
    <3>1. inbox # <<>> => Head(inbox) # Closed
      <4>1. inbox # <<>> => Head(inbox) \in GrantedPacket(granted)
        BY HeadTailProperties DEF TabInv
      <4>2. Closed \notin Packet
        BY DEF Packet, Ack, Closed
      <4>. QED  BY <4>1, <4>2 DEF GrantedPacket
    <3>2. PICK p \in Received :
             IF p = Closed THEN threadRun' = FALSE /\ UNCHANGED lock
             ELSE lock' = "free" /\ UNCHANGED threadRun
      BY <1>7 DEF ListenRecv
    <3>3. p = Closed => peer # "open"
      BY <3>1 DEF Received, Readable, Closed, Failed
    <3>. QED  BY <3>2, <3>3
  <2>. QED  BY <2>1, <2>2
<1>. QED  BY <1>1, <1>2, <1>3, <1>4, <1>5, <1>6, <1>7

(* LockInv is inductive, given TabInv.                                     *)
LEMMA LockStep ==
  ASSUME LockInv, TabInv, [Next]_vars
  PROVE  LockInv'
<1>1. LockInv /\ UNCHANGED vars => LockInv'
  BY DEF vars, mainVars, sessVars, netVars, LockInv, OneReader
<1>. QED  BY <1>1, LockCommand, LockServer, LockThreads DEF Next

(* Whoever reads the socket holds socketLock, and it is lost only after a  *)
(* refused setsockopt or at the end of the stream, for any number of       *)
(* listeners and any interleaving.                                         *)
THEOREM OneReaderCorrect == Spec => []OneReader
<1>1. LockInv /\ TabInv /\ [Next]_vars => LockInv'
  BY LockStep
<1>2. LockInv => OneReader
  BY DEF LockInv
<1>. QED  BY LockInit, TabInvariant, <1>1, <1>2, PTL DEF Spec

-----------------------------------------------------------------------------
(* Which request a packet answers.                                         *)

(* Nothing is unread on a socket that is not open, and a server that has   *)
(* stopped has no reply left.                                              *)
EndsInv ==
  /\ conn \in {"none", "open", "closed"}
  /\ conn # "open" => inbox = <<>>
  /\ conn = "none" => outbox = <<>> /\ pending = <<>>
  /\ peer # "open" => pending = <<>>
  /\ mpc = "lock" /\ cmd.type = "EXIT" => conn # "none"

(* Undisturbed, the request main waits for is in one place: on its way,    *)
(* with the server, or answered; and after a logout EXIT is on its way.    *)
OneInFlight ==
  /\ inbox # <<>> => mpc = "recv" /\ Len(inbox) = 1 /\ Head(inbox).of = cmd.no
  /\ pending # <<>> =>
       mpc = "recv" /\ Len(pending) = 1 /\ Head(pending).of = cmd.no /\ inbox = <<>>
  /\ peer = "open" /\ conn = "open" /\ outbox # <<>> =>
       /\ mpc = "recv" /\ Len(outbox) = 1
       /\ Head(outbox).no = cmd.no /\ Head(outbox).type # "EXIT"
       /\ inbox = <<>> /\ pending = <<>>
  /\ peer = "open" /\ conn = "closed" =>
       Len(outbox) = 1 /\ Head(outbox).type = "EXIT" /\ pending = <<>>

(* What makes OwnReply and ExitArrives inductive.                          *)
ReplyInv == EndsInv /\ ExitArrives /\ (~disturbed => OneInFlight)

(* A command starts at the prompt, with nothing in flight.                 *)
LEMMA ReplyCommand ==
  ASSUME ReplyInv, Command
  PROVE  ReplyInv' /\ inbox' = inbox
<1>. USE DEF ReplyInv, EndsInv, ExitArrives, OneInFlight
<1>1. ASSUME NEW type, NEW name, Begin(type, name),
             UNCHANGED conn \/ (type = "LOGIN" /\ conn = "none" /\ Connect),
             type = "EXIT" => conn # "none"
      PROVE  ReplyInv' /\ inbox' = inbox
  <2>1. /\ mpc = "prompt" /\ mpc' = "lock" /\ cmd'.type = type
        /\ UNCHANGED <<peer, inbox, outbox, pending, disturbed>>
    BY <1>1 DEF Begin, netVars
  <2>2. CASE UNCHANGED conn
    BY <1>1, <2>1, <2>2
  <2>3. CASE type = "LOGIN" /\ conn = "none" /\ Connect
    BY <1>1, <2>1, <2>3 DEF Connect
  <2>. QED  BY <1>1, <2>2, <2>3
<1>2. CASE Login
  <2>1. Begin("LOGIN", NoName) /\ (UNCHANGED conn \/ (conn = "none" /\ Connect))
    BY <1>2 DEF Login
  <2>. QED  BY <1>1, <2>1
<1>3. CASE Logout
  BY <1>1, <1>3 DEF Logout, Ready
<1>4. CASE Leave \/ List \/ Say
  BY <1>1, <1>4 DEF Leave, List, Say
<1>5. CASE \E n \in Name : Join(n) \/ Create(n)
  BY <1>1, <1>5 DEF Join, Create
<1>6. CASE Quit
  BY <1>6 DEF Quit, sessVars, netVars
<1>7. CASE \E t \in Tab : SwitchTab(t)
  BY <1>7 DEF SwitchTab, netVars
<1>. QED  BY <1>2, <1>3, <1>4, <1>5, <1>6, <1>7 DEF Command

(* The streams and what is on them.                                        *)
StreamsTyped ==
  inbox \in Seq(Packet) /\ outbox \in Seq(Request) /\ pending \in Seq(Packet) /\ cmd \in Request

(* Taking the only packet of a stream leaves none.                         *)
LEMMA OneLeft ==
  ASSUME NEW S, NEW s \in Seq(S), Len(s) = 1, NEW k \in 1 .. Len(s)
  PROVE  SubSeq(s, k + 1, Len(s)) = <<>>
<1>1. k = 1
  OBVIOUS
<1>. QED  BY <1>1, SubSeqProperties, EmptySeq

(* The server takes the one request there is, and answers it.              *)
LEMMA ReplyServer ==
  ASSUME ReplyInv, StreamsTyped, Server
  PROVE  ReplyInv' /\ (~disturbed => inbox' = inbox \/ Len(inbox') > Len(inbox))
<1>. USE DEF ReplyInv, EndsInv, ExitArrives, OneInFlight, StreamsTyped, mainVars, sessVars
<1>1. CASE Serve
  <2>1. /\ peer = "open" /\ pending = <<>> /\ outbox # <<>>
        /\ UNCHANGED <<mpc, cmd, conn, inbox, disturbed>>
    BY <1>1 DEF Serve
  <2>2. EndsInv' /\ (ExitArrives /\ (peer' = peer \/ peer' = "exited") => ExitArrives')
    BY <1>1, <2>1 DEF Serve
  <2>3. peer' = peer \/ peer' = "exited"
    BY <1>1 DEF Serve
  <2>4. ASSUME ~disturbed
        PROVE  OneInFlight'
    <3>1. Len(outbox) = 1
      BY <2>1, <2>4
    <3>2. outbox' = <<>>
      <4>1. \A k \in 1 .. Len(outbox) : SubSeq(outbox, k + 1, Len(outbox)) = <<>>
        BY <3>1, OneLeft
      <4>. QED  BY <1>1, <4>1 DEF Serve
    <3>3. CASE Head(outbox).type = "EXIT"
      BY <1>1, <2>1, <2>4, <3>2, <3>3 DEF Serve
    <3>4. CASE Head(outbox).type # "EXIT"
      <4>1. /\ conn = "open" /\ mpc = "recv" /\ Head(outbox).no = cmd.no /\ inbox = <<>>
        BY <2>1, <2>4, <3>4
      <4>2. PICK type : pending' = <<[type |-> type, name |-> Head(outbox).name,
                                      of |-> Head(outbox).no]>>
        BY <1>1, <3>4 DEF Serve
      <4>3. Len(pending') = 1 /\ Head(pending').of = cmd.no
        BY <4>1, <4>2
      <4>. QED  BY <2>1, <3>2, <4>1, <4>3
    <3>. QED  BY <3>3, <3>4
  <2>. QED  BY <2>1, <2>2, <2>3, <2>4
<1>2. CASE Reply
  <2>1. /\ peer = "open" /\ pending # <<>> /\ pending' = <<>>
        /\ inbox' = IF conn = "open" THEN inbox \o pending ELSE inbox
        /\ UNCHANGED <<mpc, cmd, conn, peer, outbox, disturbed>>
    BY <1>2 DEF Reply
  <2>2. ASSUME ~disturbed, conn = "open"
        PROVE  inbox = <<>> /\ inbox' = pending /\ outbox = <<>>
    BY <2>1, <2>2, ConcatProperties
  <2>3. ~disturbed => Len(inbox') > Len(inbox) \/ inbox' = inbox
    BY <2>1, <2>2
  <2>4. ~disturbed => OneInFlight'
    BY <2>1, <2>2
  <2>. QED  BY <2>1, <2>3, <2>4
<1>3. ASSUME NEW n \in Name, Forward(n)
      PROVE  ReplyInv' /\ Len(inbox') > Len(inbox)
  BY <1>3 DEF Forward
<1>4. CASE ServerStops \/ ServerLosesClient
  BY <1>4 DEF ServerStops, ServerLosesClient
<1>5. CASE Accept
  BY <1>5 DEF Accept
<1>. QED  BY <1>1, <1>2, <1>3, <1>4, <1>5 DEF Server

(* Only the main thread reads a reply, the one to its request.             *)
LEMMA ReplyThreads ==
  ASSUME ReplyInv, StreamsTyped, LockInv,
         \/ MainLock \/ Crash \/ MainLogout \/ MainRecv
         \/ \E l \in Listener : ListenTop(l) \/ ListenLock(l) \/ ListenRecv(l)
  PROVE  /\ ReplyInv'
         /\ ~disturbed =>
              \/ inbox' = inbox
              \/ mpc = "recv" /\ mpc' = "prompt" /\ Head(inbox).of = cmd.no
<1>. USE DEF ReplyInv, EndsInv, ExitArrives, OneInFlight, StreamsTyped
<1>1. CASE MainLock
  <2>1. /\ mpc = "lock" /\ mpc' = "recv" /\ cmd.type # "EXIT"
        /\ UNCHANGED <<cmd, conn, inbox, pending, disturbed>>
        /\ SendIt
    BY <1>1 DEF MainLock, sessVars
  <2>2. Len(Append(outbox, cmd)) = Len(outbox) + 1
        /\ (outbox = <<>> => Head(Append(outbox, cmd)) = cmd /\ Len(outbox) = 0)
    BY AppendProperties
  <2>. QED  BY <2>1, <2>2 DEF SendIt
<1>2. CASE Crash
  BY <1>2 DEF Crash, sessVars, netVars
<1>3. CASE MainLogout
  <2>1. /\ mpc = "lock" /\ mpc' = "prompt" /\ cmd.type = "EXIT" /\ conn' = "closed"
        /\ inbox' = <<>> /\ UNCHANGED <<cmd, pending, disturbed>> /\ SendIt
    BY <1>3 DEF MainLogout
  <2>2. Len(Append(outbox, cmd)) = Len(outbox) + 1
        /\ (outbox = <<>> => Head(Append(outbox, cmd)) = cmd /\ Len(outbox) = 0)
    BY AppendProperties
  <2>3. ~disturbed => inbox' = inbox
    BY <2>1
  <2>4. EndsInv' /\ ExitArrives'
    BY <2>1 DEF SendIt
  <2>5. ~disturbed => OneInFlight'
    BY <2>1, <2>2 DEF SendIt
  <2>. QED  BY <2>1, <2>3, <2>4, <2>5
<1>4. CASE MainRecv
  <2>1. /\ mpc = "recv" /\ mpc' = "prompt" /\ Consume
        /\ UNCHANGED <<cmd, conn, peer, outbox, pending>>
    BY <1>4 DEF MainRecv
  <2>2. PICK p \in Received : disturbed' = (disturbed \/ (p = Failed /\ conn = "open"))
    BY <1>4 DEF MainRecv
  <2>3. inbox = <<>> => inbox' = inbox
    BY <2>1 DEF Consume, Readable
  <2>4. EndsInv' /\ ExitArrives'
    BY <2>1, <2>2, <2>3
  <2>5. ASSUME ~disturbed'
        PROVE  OneInFlight'
    <3>1. ~disturbed /\ (conn = "open" => p # Failed)
      BY <2>2, <2>5
    <3>2. inbox' = <<>>
      <4>1. CASE inbox = <<>>
        BY <2>3, <4>1
      <4>2. CASE inbox # <<>>
        <5>1. \A k \in 1 .. Len(inbox) : SubSeq(inbox, k + 1, Len(inbox)) = <<>>
          BY <3>1, <4>2, OneLeft
        <5>. QED  BY <2>1, <4>2, <5>1 DEF Consume, Readable
      <4>. QED  BY <4>1, <4>2
    <3>3. CASE Readable
      BY <2>1, <3>1, <3>2, <3>3 DEF Readable
    <3>4. CASE ~Readable
      <4>1. peer # "open" \/ conn # "open"
        BY <3>1, <3>4 DEF Received, Closed, Failed
      <4>. QED  BY <2>1, <3>1, <3>2, <4>1
    <3>. QED  BY <3>3, <3>4
  <2>6. ~disturbed => inbox' = inbox \/ Head(inbox).of = cmd.no
    BY <2>3
  <2>. QED  BY <2>1, <2>4, <2>5, <2>6
<1>5. ASSUME NEW l \in Listener, ListenTop(l) \/ ListenLock(l)
      PROVE  ReplyInv' /\ inbox' = inbox
  BY <1>5 DEF ListenTop, ListenLock, mainVars, sessVars, netVars
<1>6. ASSUME NEW l \in Listener, ListenRecv(l)
      PROVE  ReplyInv' /\ (~disturbed => inbox' = inbox)
  <2>1. /\ Consume /\ UNCHANGED <<mpc, cmd, conn, peer, outbox, pending, disturbed>>
        /\ lpc[l] = "recv"
    BY <1>6 DEF ListenRecv, mainVars
  <2>2. mpc # "recv"
    BY <2>1, ClientAssumption DEF LockInv, OneReader
  <2>3. inbox = <<>> => inbox' = inbox
    BY <2>1 DEF Consume, Readable
  <2>4. ~disturbed => inbox' = inbox
    BY <2>2, <2>3
  <2>5. EndsInv' /\ ExitArrives'
    BY <2>1, <2>3
  <2>. QED  BY <2>1, <2>4, <2>5
<1>. QED  BY <1>1, <1>2, <1>3, <1>4, <1>5, <1>6

(* TabInv gives the streams their types.                                   *)
LEMMA StreamsAreTyped == TabInv => StreamsTyped
<1>1. NamedRequest \subseteq Request /\ GrantedPacket(granted) \subseteq Packet
  BY DEF NamedRequest, GrantedPacket
<1>. QED  BY <1>1, SeqDef DEF TabInv, StreamsTyped

(* Nothing is in flight.                                                   *)
LEMMA ReplyInit == Init => ReplyInv
BY DEF Init, ReplyInv, EndsInv, ExitArrives, OneInFlight

(* All of it.                                                              *)
ClientInv == TabInv /\ LockInv /\ ReplyInv

(* The three invariants hold together: the reply needs the one reader.     *)
LEMMA ClientInvariant == Spec => []ClientInv
<1>1. ClientInv /\ [Next]_vars => ReplyInv'
  <2>1. ReplyInv /\ UNCHANGED vars => ReplyInv'
    BY DEF vars, mainVars, sessVars, netVars, ReplyInv, EndsInv, ExitArrives, OneInFlight
  <2>. QED  BY <2>1, StreamsAreTyped, ReplyCommand, ReplyServer, ReplyThreads DEF ClientInv, Next
<1>2. ClientInv /\ [Next]_vars => LockInv'
  BY LockStep DEF ClientInv
<1>. QED  BY <1>1, <1>2, LockInit, ReplyInit, TabInvariant, PTL DEF Spec, ClientInv

(* Undisturbed, each reply is read by the main thread for its own request. *)
THEOREM OwnReplyCorrect == Spec => OwnReply
<1>1. ClientInv /\ [Next]_vars =>
        [~disturbed /\ Len(inbox') < Len(inbox) =>
           mpc = "recv" /\ mpc' = "prompt" /\ Head(inbox).of = cmd.no]_vars
  <2>. SUFFICES ASSUME ClientInv, Next, ~disturbed, Len(inbox') < Len(inbox)
                PROVE  mpc = "recv" /\ mpc' = "prompt" /\ Head(inbox).of = cmd.no
    OBVIOUS
  <2>1. Len(inbox) \in Nat /\ Len(inbox') \in Nat
    <3>1. StreamsTyped
      BY StreamsAreTyped DEF ClientInv
    <3>2. TabInv'
      BY TabStep DEF ClientInv
    <3>. QED  BY <3>1, <3>2, LenProperties DEF StreamsTyped, TabInv
  <2>2. inbox' # inbox /\ ~(Len(inbox') > Len(inbox))
    BY <2>1
  <2>. QED  BY <2>2, StreamsAreTyped, ReplyCommand, ReplyServer, ReplyThreads DEF ClientInv, Next
<1>. QED  BY <1>1, ClientInvariant, PTL DEF Spec, OwnReply

(* And a logout reaches the server as EXIT.                                *)
THEOREM ExitArrivesCorrect == Spec => []ExitArrives
<1>. ClientInv => ExitArrives
  BY DEF ClientInv, ReplyInv
<1>. QED  BY ClientInvariant, PTL

-----------------------------------------------------------------------------
(* What TypeOK says of the variables beside those of the invariants above. *)
FlagsTyped ==
  /\ timed \in BOOLEAN /\ named \in BOOLEAN /\ threadRun \in BOOLEAN
  /\ served \in BOOLEAN /\ refused \in BOOLEAN /\ disturbed \in BOOLEAN

(* And of the counters and the server.                                     *)
RestTyped ==
  /\ FlagsTyped
  /\ mpc \in {"prompt", "lock", "recv", "ended"}
  /\ state \in {"disconnected", "loggedin", "insession"}
  /\ lock \in Listener \cup {"free", "main"}
  /\ peer \in {"open", "shut", "reset", "exited", "lost"}
  /\ forwards \in 0 .. MaxForwards

(* Every step keeps the types of the rest.                                 *)
LEMMA RestStep ==
  ASSUME RestTyped, [Next]_vars
  PROVE  RestTyped'
<1>. USE ClientAssumption DEF RestTyped, FlagsTyped, mainVars, sessVars, netVars
<1>1. CASE Command
  <2>1. ASSUME NEW type, NEW name, Begin(type, name), UNCHANGED conn \/ Connect
        PROVE  RestTyped'
    BY <2>1 DEF Begin, Connect
  <2>2. CASE Login \/ Logout \/ Leave \/ List \/ Say
    BY <2>1, <2>2 DEF Login, Logout, Leave, List, Say
  <2>3. CASE \E n \in Name : Join(n) \/ Create(n)
    BY <2>1, <2>3 DEF Join, Create
  <2>4. CASE Quit \/ \E t \in Tab : SwitchTab(t)
    BY <2>4 DEF Quit, SwitchTab
  <2>. QED  BY <1>1, <2>2, <2>3, <2>4 DEF Command
<1>2. CASE MainLock \/ Crash \/ MainLogout
  <2>1. threadRun' \in {threadRun, FALSE} /\ UNCHANGED <<timed, named, served, refused, disturbed>>
    BY <1>2 DEF MainLock, Crash, MainLogout
  <2>2. FlagsTyped'
    BY <2>1
  <2>. HIDE DEF FlagsTyped
  <2>. QED  BY <1>2, <2>2 DEF MainLock, Crash, MainLogout, SendIt
<1>3. CASE MainRecv
  <2>1. PICK p \in Received :
          /\ IF cmd.type = "LOGIN" THEN LoginRefused \/ LoginAnswered(p) ELSE Answered(p)
          /\ disturbed' = (disturbed \/ (p = Failed /\ conn = "open"))
    BY <1>3 DEF MainRecv
  <2>2. /\ state' \in {state, "loggedin", "insession"} /\ lock' \in {lock, "free"}
        /\ timed' \in {timed, TRUE} /\ named' \in {named, TRUE} /\ threadRun' \in {threadRun, TRUE}
        /\ refused' \in {refused, TRUE}
    BY <2>1 DEF LoginRefused, LoginAnswered, Answered, Entered, Left, Unlocks
  <2>3. disturbed' \in BOOLEAN /\ served' = served
    BY <1>3, <2>1 DEF MainRecv
  <2>4. FlagsTyped'
    BY <2>2, <2>3
  <2>. HIDE DEF FlagsTyped
  <2>. QED  BY <1>3, <2>2, <2>4 DEF MainRecv
<1>4. CASE \E l \in Listener : ListenTop(l) \/ ListenLock(l) \/ ListenRecv(l)
  <2>1. threadRun' \in {threadRun, FALSE} /\ UNCHANGED <<timed, named, served, refused, disturbed>>
    BY <1>4 DEF ListenTop, ListenLock, ListenRecv
  <2>2. FlagsTyped'
    BY <2>1
  <2>. HIDE DEF FlagsTyped
  <2>. QED  BY <1>4, <2>2 DEF ListenTop, ListenLock, ListenRecv
<1>5. CASE Server
  <2>1. CASE Serve
    <3>1. UNCHANGED <<mpc, state, lock, conn, timed, named, threadRun, served, refused, disturbed,
                      forwards>>
      BY <2>1 DEF Serve
    <3>2. peer' \in {peer, "exited"}
      BY <2>1 DEF Serve
    <3>. QED  BY <3>1, <3>2
  <2>2. CASE Reply \/ ServerStops \/ ServerLosesClient \/ \E n \in Name : Forward(n)
    <3>1. disturbed' \in {disturbed, TRUE} /\ UNCHANGED <<timed, named, threadRun, served, refused>>
      BY <2>2 DEF Reply, ServerStops, ServerLosesClient, Forward
    <3>2. FlagsTyped'
      BY <3>1
    <3>3. /\ UNCHANGED <<mpc, state, lock>> /\ peer' \in {peer, "shut", "reset", "lost"}
          /\ forwards' = forwards \/ (forwards' = forwards + 1 /\ forwards < MaxForwards)
      BY <2>2 DEF Reply, ServerStops, ServerLosesClient, Forward
    <3>. HIDE DEF FlagsTyped
    <3>. QED  BY <3>2, <3>3
  <2>3. CASE Accept
    <3>1. served' = TRUE /\ UNCHANGED <<timed, named, threadRun, refused, disturbed>>
      BY <2>3 DEF Accept
    <3>2. FlagsTyped'
      BY <3>1
    <3>3. UNCHANGED <<mpc, state, lock, peer, forwards>>
      BY <2>3 DEF Accept
    <3>. HIDE DEF FlagsTyped
    <3>. QED  BY <3>2, <3>3
  <2>. QED  BY <1>5, <2>1, <2>2, <2>3 DEF Server
<1>6. CASE UNCHANGED vars
  BY <1>6 DEF vars
<1>. QED  BY <1>1, <1>2, <1>3, <1>4, <1>5, <1>6 DEF Next

(* Every variable keeps its type, and main waits for no reply to EXIT.     *)
THEOREM ClientTyped == Spec => []TypeOK
<1>1. Init => RestTyped
  <2>1. Init => FlagsTyped
    BY Zenon DEF Init, FlagsTyped
  <2>. QED  BY <2>1, ClientAssumption DEF Init, RestTyped
<1>2. RestTyped /\ [Next]_vars => RestTyped'
  BY RestStep
<1>3. ClientInv /\ RestTyped => TypeOK
  BY StreamsAreTyped
  DEF ClientInv, TabInv, LockInv, ReplyInv, EndsInv, StreamsTyped, RestTyped, FlagsTyped, TypeOK
<1>. QED  BY <1>1, <1>2, <1>3, ClientInvariant, PTL DEF Spec
=============================================================================
