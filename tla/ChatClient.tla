----------------------------- MODULE ChatClient -----------------------------
(***************************************************************************)
(* The client: the command loop of client.c and the library chatClient.c.  *)
(* The main thread sends a request and reads the reply; a listener thread  *)
(* reads what other clients say.  Both read one socket, each with          *)
(* socketLock held from before its recv until it is done with the data.    *)
(* The other side is one thread of the server, which answers a request with*)
(* an ACK or a NAK, passes messages on, and may close or crash.  It exists *)
(* once the server has accepted the connection, for which it first waits   *)
(* for room in its list; connect() does not wait for that.                 *)
(*                                                                         *)
(* The socket is a stream: a recv may return several packets at once, and  *)
(* bytesToPacket looks at the first one only.  (That a recv may return a   *)
(* part of a packet is left out.)                                          *)
(***************************************************************************)
EXTENDS Naturals, Integers, SequencesExt

CONSTANTS
  Name,         \* session names
  NoName,       \* NULL in currSessionID, no name in a packet
  Tab,          \* indices of currSessionID, 0 among them (MAX_SIMUL_SESSIONS)
  Listener,     \* listener threads
  Second,       \* units of time in a second
  MaxRtt,       \* bound: the longest round trip of LOGIN in these units
  MaxRequests,  \* bound: requests the user makes
  MaxForwards   \* bound: messages of others that are passed on

ASSUME ClientAssumption ==
  /\ NoName \notin Name
  /\ 0 \in Tab
  /\ Listener \cap {"free", "main"} = {}
  /\ Second \in Nat \ {0} /\ MaxRtt \in Nat
  /\ MaxRequests \in Nat /\ MaxForwards \in Nat

VARIABLES
  mpc,        \* main thread: "prompt", "lock", "recv" or "ended" (the process)
  cmd,        \* the request main works on
  state,      \* currentState of client.c
  lpc,        \* lpc[l]: "off", "top" (of the loop), "lock" or "recv"
  lock,       \* the owner of socketLock, or "free"
  conn,       \* sess->socket: "none", "open" or "closed"
  timed,      \* the socket has a receive timeout
  named,      \* clientID is not empty
  threadRun,
  tab,        \* currSessionID
  curr,       \* currSession
  refused,    \* setsockopt has failed
  peer,       \* the server's end
  served,     \* the server has accepted the connection and started a thread for it
  inbox,      \* packets on their way to the client
  outbox,     \* requests on their way to the server
  pending,    \* the reply the server is about to send, if any
  granted,    \* sessions the server has let the client join
  forwards,   \* messages passed on so far
  disturbed   \* a message was passed on, or a reply was not waited for

mainVars == <<mpc, cmd, state>>
sessVars == <<conn, timed, named, threadRun, tab, curr>>
netVars == <<peer, served, inbox, outbox, pending, granted, forwards>>
vars == <<mainVars, sessVars, netVars, lpc, lock, refused, disturbed>>

Ack == [LOGIN |-> "LO_ACK", JOIN |-> "JN_ACK", NEW_SESS |-> "NS_ACK",
        LEAVE_SESS |-> "LS_ACK", QUERY |-> "QU_ACK", MESSAGE |-> "MESSAGE_ACK"]

Request == [type : DOMAIN Ack \cup {"EXIT"}, name : Name \cup {NoName}, no : 0 .. MaxRequests]

(* `of' is the number of the request that a packet answers, 0 for none.    *)
Packet == [type : {Ack[t] : t \in DOMAIN Ack} \cup {"NAK", "MESSAGE"},
           name : Name \cup {NoName}, of : 0 .. MaxRequests]

Init ==
  /\ mpc = "prompt" /\ state = "disconnected"
  /\ cmd = [type |-> "LOGIN", name |-> NoName, no |-> 0]
  /\ lpc = [l \in Listener |-> "off"]
  /\ lock = "free" /\ refused = FALSE
  /\ conn = "none" /\ timed = FALSE /\ named = FALSE /\ threadRun = FALSE
  /\ tab = [t \in Tab |-> NoName] /\ curr = 0
  /\ peer = "open" /\ served = FALSE /\ inbox = <<>> /\ outbox = <<>> /\ pending = <<>>
  /\ granted = {} /\ forwards = 0 /\ disturbed = FALSE

-----------------------------------------------------------------------------
(* What recv does with the socket.                                         *)

Closed == [type |-> "0", name |-> NoName, of |-> 0]
Failed == [type |-> "-1", name |-> NoName, of |-> 0]

Readable == conn = "open" /\ inbox # <<>>

(* What recv may return: data, 0 at the end of the stream, or -1.          *)
Received ==
  IF Readable THEN {Head(inbox)}
  ELSE {p \in {Closed, Failed} :
          \/ p = Closed /\ conn = "open" /\ peer # "open"
          \/ p = Failed /\ (conn # "open" \/ peer = "reset" \/ (timed /\ peer = "open"))}

(* The bytes recv takes hold one packet or more.                           *)
Consume ==
  inbox' \in IF Readable THEN {SubSeq(inbox, k + 1, Len(inbox)) : k \in 1 .. Len(inbox)}
             ELSE {inbox}

-----------------------------------------------------------------------------
(* The command loop, up to the lock.  A command whose guards fail changes  *)
(* nothing.                                                                *)

Begin(type, name) ==
  /\ mpc = "prompt" /\ cmd.no < MaxRequests
  /\ mpc' = "lock"
  /\ cmd' = [type |-> type, name |-> name, no |-> cmd.no + 1]
  /\ UNCHANGED <<state, timed, named, threadRun, tab, curr, netVars, lpc, lock, refused, disturbed>>

Connect == conn' \in {"none", "open"}

(* A socket number is kept, be the socket open or closed.                  *)
Login ==
  /\ Begin("LOGIN", NoName)
  /\ \E l \in Listener : lpc[l] = "off"
  /\ IF conn = "none" THEN Connect ELSE UNCHANGED conn

(* The library asks for a socket number and a client name.                 *)
Ready == conn # "none" /\ named

Logout == Ready /\ Begin("EXIT", NoName) /\ UNCHANGED conn
Join(n) == Ready /\ Begin("JOIN", n) /\ UNCHANGED conn
Leave == Ready /\ Begin("LEAVE_SESS", tab[curr]) /\ UNCHANGED conn
Create(n) == Ready /\ tab[curr] = NoName /\ Begin("NEW_SESS", n) /\ UNCHANGED conn
List == Ready /\ Begin("QUERY", NoName) /\ UNCHANGED conn
Say == Ready /\ state = "insession" /\ Begin("MESSAGE", tab[curr]) /\ UNCHANGED conn

(* Mutant: the state of the old tab stays.                                 *)
SwitchTabOnly(t) ==
  /\ mpc = "prompt"
  /\ curr' = t
  /\ UNCHANGED <<mainVars, conn, timed, named, threadRun, tab, netVars, lpc, lock, refused, disturbed>>

SwitchTab(t) ==
  /\ mpc = "prompt"
  /\ curr' = t
  /\ state' = IF tab[t] = NoName THEN "loggedin" ELSE "insession"
  /\ UNCHANGED <<mpc, cmd, conn, timed, named, threadRun, tab, netVars, lpc, lock, refused, disturbed>>

Quit ==
  /\ mpc = "prompt"
  /\ mpc' = "ended"
  /\ UNCHANGED <<cmd, state, sessVars, netVars, lpc, lock, refused, disturbed>>

-----------------------------------------------------------------------------
(* The main thread with socketLock.                                        *)

(* send on a stream: the first one after the server has closed succeeds and*)
(* is answered with a reset.                                               *)
SendIt ==
  /\ outbox' = IF conn = "open" /\ peer = "open" THEN Append(outbox, cmd) ELSE outbox
  /\ peer' = IF conn = "open" /\ peer = "shut" THEN "reset" ELSE peer

(* A packet that names the session of the tab needs one.                   *)
NameMissing == cmd.type \in {"LEAVE_SESS", "MESSAGE"} /\ cmd.name = NoName

(* Mutant: EXIT waits for a reply like the others.                         *)
LockForAny ==
  /\ mpc = "lock" /\ lock = "free" /\ ~NameMissing
  /\ lock' = "main" /\ mpc' = "recv"
  /\ SendIt
  /\ UNCHANGED <<cmd, state, sessVars, served, inbox, pending, granted, forwards, lpc, refused, disturbed>>

(* Mutant: QUERY does not wait for its reply.                              *)
LockNoWait ==
  /\ mpc = "lock" /\ lock = "free" /\ cmd.type # "EXIT" /\ ~NameMissing
  /\ IF cmd.type = "QUERY" THEN mpc' = "prompt" /\ UNCHANGED lock
     ELSE lock' = "main" /\ mpc' = "recv"
  /\ SendIt
  /\ UNCHANGED <<cmd, state, sessVars, served, inbox, pending, granted, forwards, lpc, refused, disturbed>>

MainLock ==
  /\ mpc = "lock" /\ lock = "free" /\ cmd.type # "EXIT" /\ ~NameMissing
  /\ lock' = "main" /\ mpc' = "recv"
  /\ SendIt
  /\ UNCHANGED <<cmd, state, sessVars, served, inbox, pending, granted, forwards, lpc, refused, disturbed>>

(* strlen(NULL) in getLeaveSessionPacket or getMessagePacket, or SIGPIPE.  *)
Crash ==
  /\ mpc = "lock" /\ lock = "free"
  /\ \/ NameMissing
     \/ conn = "open" /\ peer = "reset"
  /\ mpc' = "ended"
  /\ UNCHANGED <<cmd, state, sessVars, netVars, lpc, lock, refused, disturbed>>

(* Mutant: the listener is not told.                                       *)
LogoutUntold ==
  /\ mpc = "lock" /\ lock = "free" /\ cmd.type = "EXIT"
  /\ mpc' = "prompt" /\ state' = "disconnected"
  /\ conn' = "closed" /\ inbox' = <<>>
  /\ SendIt
  /\ UNCHANGED <<cmd, timed, named, threadRun, tab, curr, served, pending, granted, forwards>>
  /\ UNCHANGED <<lpc, lock, refused, disturbed>>

(* chatclient_logout sends, stops the listener and closes with the lock    *)
(* held; the socket number and the name stay.                              *)
MainLogout ==
  /\ mpc = "lock" /\ lock = "free" /\ cmd.type = "EXIT"
  /\ mpc' = "prompt" /\ state' = "disconnected"
  /\ threadRun' = FALSE
  /\ conn' = "closed" /\ inbox' = <<>>
  /\ SendIt
  /\ UNCHANGED <<cmd, timed, named, tab, curr, served, pending, granted, forwards>>
  /\ UNCHANGED <<lpc, lock, refused, disturbed>>

(* waitPeriod from the clock around send and recv of LOGIN: a multiple of  *)
(* the difference of the sub-second parts, and something if that is 0.     *)
WaitPeriod(start, end) ==
  LET usec == 3 * ((end % Second) - (start % Second))
  IN  [sec |-> (end \div Second) - (start \div Second), usec |-> IF usec = 0 THEN 1 ELSE usec]

(* setsockopt takes neither a bad descriptor nor a fraction that is none.  *)
Accepted(period) == conn = "open" /\ period.usec \in 0 .. Second - 1

(* chatclient_login returns without unlocking.                             *)
LoginRefused ==
  /\ \E start \in 0 .. Second - 1, rtt \in 0 .. MaxRtt : ~Accepted(WaitPeriod(start, start + rtt))
  /\ refused' = TRUE
  /\ UNCHANGED <<state, timed, named, threadRun, tab, lpc, lock>>

(* The session of the tab is forgotten, and another listener is started.   *)
LoginAnswered(p) ==
  /\ \E start \in 0 .. Second - 1, rtt \in 0 .. MaxRtt : Accepted(WaitPeriod(start, start + rtt))
  /\ timed' = TRUE
  /\ lock' = "free"
  /\ IF p.type = "LO_ACK"
     THEN /\ named' = TRUE /\ threadRun' = TRUE
          /\ tab' = [tab EXCEPT ![curr] = NoName]
          /\ state' = "loggedin"
          /\ \E l \in Listener : lpc[l] = "off" /\ lpc' = [lpc EXCEPT ![l] = "top"]
     ELSE UNCHANGED <<named, threadRun, tab, state, lpc>>
  /\ UNCHANGED refused

(* Mutant: a failed recv returns with the lock.                            *)
KeepsLock(p) == IF p = Failed THEN UNCHANGED lock ELSE lock' = "free"

Unlocks(p) == lock' = "free"

(* Mutant: the name is the one asked for.                                  *)
TabOfRequest(p) == cmd.name

TabOf(p) == p.name

(* JOIN and NEW_SESS take the name from the reply, whatever it answers.    *)
Entered(p) ==
  IF p.type = Ack[cmd.type]
  THEN tab' = [tab EXCEPT ![curr] = TabOf(p)] /\ state' = "insession"
  ELSE UNCHANGED <<tab, state>>

Left(p) ==
  IF p.type = "LS_ACK"
  THEN tab' = [tab EXCEPT ![curr] = NoName] /\ state' = "loggedin"
  ELSE UNCHANGED <<tab, state>>

(* The reply to a request other than LOGIN; nothing depends on that to     *)
(* QUERY or MESSAGE.                                                       *)
Answered(p) ==
  /\ CASE cmd.type \in {"JOIN", "NEW_SESS"} -> Entered(p)
       [] cmd.type = "LEAVE_SESS" -> Left(p)
       [] OTHER -> UNCHANGED <<tab, state>>
  /\ Unlocks(p)
  /\ UNCHANGED <<timed, named, threadRun, lpc, refused>>

MainRecv ==
  /\ mpc = "recv"
  /\ mpc' = "prompt"
  /\ \E p \in Received :
       /\ IF cmd.type = "LOGIN" THEN LoginRefused \/ LoginAnswered(p) ELSE Answered(p)
       /\ disturbed' = (disturbed \/ (p = Failed /\ conn = "open"))
  /\ Consume
  /\ UNCHANGED <<cmd, conn, curr, peer, served, outbox, pending, granted, forwards>>

-----------------------------------------------------------------------------
(* A listener.                                                             *)

ListenTop(l) ==
  /\ mpc # "ended" /\ lpc[l] = "top"
  /\ lpc' = [lpc EXCEPT ![l] = IF threadRun THEN "lock" ELSE "off"]
  /\ UNCHANGED <<mainVars, sessVars, netVars, lock, refused, disturbed>>

(* Mutant: recv without the lock.                                          *)
ListenNoLock(l) ==
  /\ mpc # "ended" /\ lpc[l] = "lock"
  /\ lpc' = [lpc EXCEPT ![l] = "recv"]
  /\ UNCHANGED <<mainVars, sessVars, netVars, lock, refused, disturbed>>

ListenLock(l) ==
  /\ mpc # "ended" /\ lpc[l] = "lock" /\ lock = "free"
  /\ lock' = l
  /\ lpc' = [lpc EXCEPT ![l] = "recv"]
  /\ UNCHANGED <<mainVars, sessVars, netVars, refused, disturbed>>

(* Whatever packet arrives is printed; at the end of the stream the loop is*)
(* left with the lock held.                                                *)
ListenRecv(l) ==
  /\ mpc # "ended" /\ lpc[l] = "recv"
  /\ \E p \in Received :
       IF p = Closed THEN threadRun' = FALSE /\ UNCHANGED lock
       ELSE lock' = "free" /\ UNCHANGED threadRun
  /\ Consume
  /\ lpc' = [lpc EXCEPT ![l] = "top"]
  /\ UNCHANGED <<mainVars, conn, timed, named, tab, curr, refused, disturbed>>
  /\ UNCHANGED <<peer, served, outbox, pending, granted, forwards>>

-----------------------------------------------------------------------------
(* The server's thread for this client.                                    *)

(* There is room in the list, accept returns, and the thread is created;   *)
(* none of it need ever happen.                                            *)
Accept ==
  /\ peer = "open" /\ conn = "open" /\ ~served
  /\ served' = TRUE
  /\ UNCHANGED <<mainVars, sessVars, peer, inbox, outbox, pending, granted, forwards>>
  /\ UNCHANGED <<lpc, lock, refused, disturbed>>

(* Its recv, too, may take several requests and handle the first.  A client*)
(* that is let into a session is in its list before the reply is sent.     *)
Serve ==
  /\ peer = "open" /\ served /\ pending = <<>> /\ outbox # <<>>
  /\ \E k \in 1 .. Len(outbox) : outbox' = SubSeq(outbox, k + 1, Len(outbox))
  /\ LET r == Head(outbox)
     IN  IF r.type = "EXIT"
         THEN peer' = "exited" /\ UNCHANGED <<pending, granted>>
         ELSE /\ \E type \in {Ack[r.type], "NAK"} :
                   /\ pending' = <<[type |-> type, name |-> r.name, of |-> r.no]>>
                   /\ granted' = IF type \in {"JN_ACK", "NS_ACK"} THEN granted \cup {r.name}
                                 ELSE granted
              /\ UNCHANGED peer
  /\ UNCHANGED <<mainVars, sessVars, served, inbox, forwards, lpc, lock, refused, disturbed>>

Reply ==
  /\ peer = "open" /\ pending # <<>>
  /\ inbox' = IF conn = "open" THEN inbox \o pending ELSE inbox
  /\ pending' = <<>>
  /\ UNCHANGED <<mainVars, sessVars, peer, served, outbox, granted, forwards>>
  /\ UNCHANGED <<lpc, lock, refused, disturbed>>

(* Another member of a session says something.                             *)
Forward(n) ==
  /\ peer = "open" /\ conn = "open" /\ n \in granted /\ forwards < MaxForwards
  /\ inbox' = Append(inbox, [type |-> "MESSAGE", name |-> n, of |-> 0])
  /\ forwards' = forwards + 1
  /\ disturbed' = TRUE
  /\ UNCHANGED <<mainVars, sessVars, peer, served, outbox, pending, granted, lpc, lock, refused>>

(* The server is stopped or crashes; that is a reset if requests are unread*)
(* or the connection was not accepted.                                     *)
ServerStops ==
  /\ peer = "open" /\ conn = "open"
  /\ peer' = IF outbox = <<>> /\ served THEN "shut" ELSE "reset"
  /\ pending' = <<>>
  /\ UNCHANGED <<mainVars, sessVars, served, inbox, outbox, granted, forwards>>
  /\ UNCHANGED <<lpc, lock, refused, disturbed>>

(* The server's recv sees the end of the stream without an EXIT.           *)
ServerLosesClient ==
  /\ peer = "open" /\ served /\ conn = "closed" /\ outbox = <<>> /\ pending = <<>>
  /\ peer' = "lost"
  /\ UNCHANGED <<mainVars, sessVars, served, inbox, outbox, pending, granted, forwards>>
  /\ UNCHANGED <<lpc, lock, refused, disturbed>>

-----------------------------------------------------------------------------
Command ==
  \/ Login \/ Logout \/ Leave \/ List \/ Say \/ Quit
  \/ \E n \in Name : Join(n) \/ Create(n)
  \/ \E t \in Tab : SwitchTab(t)

Server == Accept \/ Serve \/ Reply \/ ServerStops \/ ServerLosesClient \/ \E n \in Name : Forward(n)

Next ==
  \/ Command \/ MainLock \/ Crash \/ MainLogout \/ MainRecv
  \/ \E l \in Listener : ListenTop(l) \/ ListenLock(l) \/ ListenRecv(l)
  \/ Server

(* Threads run, and a thread that waits for the lock gets it if it is free *)
(* again and again: the listener sleeps after every time-out for the others*)
(* to come in.  A thread of the server answers a LOGIN, for which it waits *)
(* for nothing; for other requests it may wait for the mutex of the        *)
(* sessions.  Nothing makes the server accept a connection, nor the user   *)
(* type.                                                                   *)
Fairness ==
  /\ SF_vars(MainLock \/ Crash \/ MainLogout)
  /\ WF_vars(MainRecv) /\ WF_vars(cmd.type = "LOGIN" /\ (Serve \/ Reply))
  /\ \A l \in Listener : WF_vars(ListenTop(l) \/ ListenRecv(l)) /\ SF_vars(ListenLock(l))

Spec == Init /\ [][Next]_vars /\ Fairness

-----------------------------------------------------------------------------
(* Every variable has its type; a listener is needed for a LOGIN.          *)
TypeOK ==
  /\ mpc \in {"prompt", "lock", "recv", "ended"}
  /\ cmd \in Request /\ (mpc = "recv" => cmd.type # "EXIT")
  /\ state \in {"disconnected", "loggedin", "insession"}
  /\ lpc \in [Listener -> {"off", "top", "lock", "recv"}]
  /\ lock \in Listener \cup {"free", "main"}
  /\ conn \in {"none", "open", "closed"}
  /\ {timed, named, threadRun, served, refused, disturbed} \subseteq BOOLEAN
  /\ tab \in [Tab -> Name \cup {NoName}] /\ curr \in Tab
  /\ peer \in {"open", "shut", "reset", "exited", "lost"}
  /\ inbox \in Seq(Packet) /\ outbox \in Seq(Request) /\ pending \in Seq(Packet)
  /\ granted \subseteq Name /\ forwards \in 0 .. MaxForwards

(* Whoever reads the socket holds socketLock, so two never read at once,   *)
(* and the holder is reading, except after the two ways to lose the lock:  *)
(* a LOGIN whose setsockopt failed, and a listener at the end of the stream*)
(* (chatClient.c:57, 144, 149).                                            *)
OneReader ==
  /\ mpc = "recv" => lock = "main"
  /\ lock = "main" => mpc = "recv" \/ refused
  /\ \A l \in Listener : /\ lpc[l] = "recv" => lock = l
                         /\ lock = l => lpc[l] = "recv" \/ (~threadRun /\ peer # "open")

(* The loop's state is that of the tab in front, whose name a plain line   *)
(* sends without looking (getMessagePacket takes strlen of it), until a    *)
(* logout: then it says "disconnected", and /switchtab sets it again.      *)
StateOfTab ==
  /\ state = "insession" => tab[curr] # NoName
  /\ state = "loggedin" => tab[curr] = NoName

(* A tab shows only sessions the server has let the client join, whatever  *)
(* replies come late or are lost or are taken for others.                  *)
TabsGranted == \A t \in Tab : tab[t] \in granted \cup {NoName}

(* As long as nothing was passed on and no reply outlived its time-out, the*)
(* only packets anybody reads are replies, each read by the main thread for*)
(* the request it answers.                                                 *)
OwnReply ==
  [][~disturbed /\ Len(inbox') < Len(inbox) =>
       mpc = "recv" /\ mpc' = "prompt" /\ Head(inbox).of = cmd.no]_vars

(* Just as long, a logout reaches the server as EXIT; after that EXIT may  *)
(* share a recv with the request before it, and the login string stays.    *)
ExitArrives == peer = "lost" => disturbed

(* The recv of a LOGIN has no time-out yet, and no thread of the server to *)
(* answer (chatClient.c:130, server.c:211).                                *)
NotServed == conn = "open" /\ peer = "open" /\ ~served

(* Every command returns to the prompt, unless the lock was lost, or it is *)
(* a LOGIN and the server never accepts the connection.                    *)
CommandsReturn ==
  mpc \in {"lock", "recv"} ~>
    mpc \in {"prompt", "ended"} \/ refused \/ peer \in {"shut", "reset"}
      \/ (cmd.type = "LOGIN" /\ NotServed)

(* After a logout every listener ends, unless the lock was lost.           *)
ListenersEnd ==
  conn = "closed" ~> mpc = "ended" \/ refused \/ \A l \in Listener : lpc[l] = "off"

(* JOIN and NEW_SESS return 0 if they were successful ("@returns 0 if      *)
(* successful, -1 otherwise"): not -1 with their ACK at hand.              *)
SuccessReported ==
  [][mpc = "recv" /\ mpc' = "prompt" /\ cmd.type \in {"JOIN", "NEW_SESS"} =>
       \A i \in DOMAIN inbox : inbox[i].type = Ack[cmd.type] /\ inbox[i].of = cmd.no =>
                               tab'[curr] = inbox[i].name /\ state' = "insession"]_vars
=============================================================================
