----------------------------- MODULE Conference -----------------------------
(***************************************************************************)
(* How messages travel through the server: a client sends requests, the    *)
(* thread of its connection (threadCall, server.c) receives them, passes a *)
(* MESSAGE on to the members of the session one by one, each under the     *)
(* socketLock of the member (chatServer_message, chatServer.c), and replies*)
(* without that lock.  A send may put part of its bytes into a stream and  *)
(* let another thread's in before the rest.  Clients read what comes, so a *)
(* stream has room, until one has lost its own lock (ChatClient) and reads *)
(* no more: then its stream fills up.  Every client is logged in.          *)
(*                                                                         *)
(* There is one session, and JOIN, MESSAGE and EXIT; a thread that follows *)
(* a node or a block another one has freed sets `fault'.                   *)
(***************************************************************************)
EXTENDS Integers, FiniteSets, SequencesExt

CONSTANTS
  Client,
  AtFirst,      \* the clients in the session at first, a sequence
  Script,       \* Script[c]: the requests c sends, by type
  Room,         \* bound: parts of packets a stream takes after its client has stopped
  MaxStalled,   \* bound: clients that stop reading
  None

(* A node of the list: whom it is for, and the JOIN that inserted it.      *)
Node == [client : Client, join : Int]

ASSUME ConferenceAssumption ==
  /\ AtFirst \in Seq(Client)
  /\ Script \in [Client -> Seq({"JOIN", "MESSAGE", "EXIT"})]
  /\ {Room, MaxStalled} \subseteq Nat
  /\ None \notin Client /\ None \notin Node

VARIABLES
  asked,     \* asked[c]: requests c has sent
  up,        \* up[c]: those the server has not received
  down,      \* down[c]: what was put into the stream to c for others, part by part
  space,     \* space[c]: room left there once c reads no more
  stalled,   \* clients that read no more
  members,   \* the list of the session, node by node
  pc,        \* pc[c]: "recv", "walk", "send", "reply" or "gone"
  cur,       \* cur[c]: the node the walk is at, or None
  passing,   \* passing[c]: the packets of the recv
  rest,      \* rest[c]: what send has not put into the stream yet
  lock,      \* lock[d]: who has the socketLock of d, or None
  stay,      \* stay[c]: members since the message of c was received
  fault      \* a freed node or block was used

clientVars == <<asked, up, stalled>>
threadVars == <<pc, cur, passing, rest, stay>>
vars == <<clientVars, down, space, members, threadVars, lock, fault>>

Packet(kind, c, n) == [kind |-> kind, from |-> c, n |-> n]

(* The packets of q as the bytes of one recv, each in two parts.           *)
Bytes(q) ==
  [i \in 1 .. 2 * Len(q) |-> [packet |-> q[(i + 1) \div 2], part |-> 2 - (i % 2)]]

NewNode(c, n) == [client |-> c, join |-> n]

Init ==
  /\ asked = [c \in Client |-> 0]
  /\ up = [c \in Client |-> <<>>]
  /\ down = [c \in Client |-> <<>>]
  /\ space = [c \in Client |-> Room]
  /\ stalled = {}
  /\ members = [i \in DOMAIN AtFirst |-> NewNode(AtFirst[i], -i)]
  /\ pc = [c \in Client |-> "recv"]
  /\ cur = [c \in Client |-> None]
  /\ passing = [c \in Client |-> <<>>]
  /\ rest = [c \in Client |-> <<>>]
  /\ lock = [c \in Client |-> None]
  /\ stay = [c \in Client |-> {}]
  /\ fault = FALSE

-----------------------------------------------------------------------------
(* The clients.                                                            *)

(* A request, whether or not the last one has been answered: the client may*)
(* have given it up after its time-out.                                    *)
Ask(c) ==
  /\ ~fault
  /\ asked[c] < Len(Script[c])
  /\ asked' = [asked EXCEPT ![c] = @ + 1]
  /\ up' = [up EXCEPT ![c] = Append(@, Packet(Script[c][asked'[c]], c, asked'[c]))]
  /\ UNCHANGED <<down, space, stalled, members, threadVars, lock, fault>>

Stall(c) ==
  /\ ~fault
  /\ c \notin stalled /\ Cardinality(stalled) < MaxStalled
  /\ stalled' = stalled \cup {c}
  /\ \E room \in 0 .. Room : space' = [space EXCEPT ![c] = room]
  /\ UNCHANGED <<asked, up, down, members, threadVars, lock, fault>>

-----------------------------------------------------------------------------
(* The thread of c.                                                        *)

(* The node after m.                                                       *)
NextMember(m) ==
  LET after == {i \in DOMAIN members : i > 1 /\ members[i-1] = m}
  IN  IF after = {} THEN None ELSE members[CHOOSE i \in after : TRUE]

(* recv returns the requests that have come, or the first of them;         *)
(* bytesToPacket sees one.                                                 *)
Recv(c, kind) ==
  /\ ~fault /\ pc[c] = "recv" /\ up[c] # <<>> /\ up[c][1].kind = kind
  /\ \E k \in 1 .. Len(up[c]) :
       /\ passing' = [passing EXCEPT ![c] = SubSeq(up[c], 1, k)]
       /\ up' = [up EXCEPT ![c] = SubSeq(@, k + 1, Len(@))]
  /\ UNCHANGED <<asked, stalled, down, space, rest, lock, fault>>

(* A session without members is not in the table.  Nobody asks whether c is*)
(* in it already.                                                          *)
Join(c) ==
  /\ Recv(c, "JOIN")
  /\ members' = IF members = <<>> THEN members
                ELSE Append(members, NewNode(c, up[c][1].n))
  /\ pc' = [pc EXCEPT ![c] = "reply"]
  /\ UNCHANGED <<cur, stay>>

Message(c) ==
  /\ Recv(c, "MESSAGE")
  /\ \/ /\ members = <<>>
        /\ pc' = [pc EXCEPT ![c] = "reply"]
        /\ UNCHANGED <<cur, stay>>
     \/ /\ members # <<>>
        /\ pc' = [pc EXCEPT ![c] = "walk"]
        /\ cur' = [cur EXCEPT ![c] = Head(members)]
        /\ stay' = [stay EXCEPT ![c] = {m.client : m \in ToSet(members)}]
  /\ UNCHANGED members

(* The first node of c is freed, and when the thread ends its block.       *)
Exit(c) ==
  /\ Recv(c, "EXIT")
  /\ pc' = [pc EXCEPT ![c] = "gone"]
  /\ members' = RemoveFirstMatch(members, LAMBDA m : m.client = c)
  /\ stay' = [d \in Client |-> stay[d] \ {c}]
  /\ UNCHANGED cur

Receive(c) == Join(c) \/ Message(c) \/ Exit(c)

(* The member the walk is at, or the one that has just been sent to, has   *)
(* been freed.                                                             *)
UseFreed(c) ==
  /\ ~fault
  /\ pc[c] \in {"walk", "send"} /\ cur[c] # None /\ pc[cur[c].client] = "gone"
  /\ fault' = TRUE
  /\ UNCHANGED <<clientVars, down, space, members, threadVars, lock>>

At(c, label) == ~fault /\ pc[c] = label /\ (cur[c] # None => pc[cur[c].client] # "gone")

(* No message goes back to its sender.                                     *)
Skip(c) ==
  /\ At(c, "walk") /\ cur[c] # None /\ cur[c].client = c
  /\ cur' = [cur EXCEPT ![c] = NextMember(cur[c])]
  /\ UNCHANGED <<clientVars, down, space, members, pc, passing, rest, stay, lock, fault>>

(* Mutant: the lock is not taken.                                          *)
SendUnlocked(c) ==
  /\ At(c, "walk") /\ cur[c] # None /\ cur[c].client # c
  /\ pc' = [pc EXCEPT ![c] = "send"]
  /\ rest' = [rest EXCEPT ![c] = Bytes(passing[c])]
  /\ UNCHANGED <<clientVars, down, space, members, cur, passing, stay, lock, fault>>

(* The bytes of the recv are passed on as they are.                        *)
LockSocket(c) ==
  /\ At(c, "walk") /\ cur[c] # None /\ cur[c].client # c
  /\ lock[cur[c].client] = None
  /\ lock' = [lock EXCEPT ![cur[c].client] = c]
  /\ pc' = [pc EXCEPT ![c] = "send"]
  /\ rest' = [rest EXCEPT ![c] = Bytes(passing[c])]
  /\ UNCHANGED <<clientVars, down, space, members, cur, passing, stay, fault>>

(* send waits for room in the stream to d.                                 *)
TakeRoom(d) ==
  \/ d \notin stalled /\ UNCHANGED space
  \/ d \in stalled /\ space[d] > 0 /\ space' = [space EXCEPT ![d] = @ - 1]

Send(c) ==
  /\ At(c, "send") /\ rest[c] # <<>>
  /\ TakeRoom(cur[c].client)
  /\ down' = [down EXCEPT ![cur[c].client] = Append(@, Head(rest[c]))]
  /\ rest' = [rest EXCEPT ![c] = Tail(@)]
  /\ UNCHANGED <<clientVars, members, pc, cur, passing, stay, lock, fault>>

(* Mutant: the walk ends after one member.                                 *)
UnlockStops(c) ==
  /\ At(c, "send") /\ rest[c] = <<>>
  /\ lock' = [lock EXCEPT ![cur[c].client] = None]
  /\ cur' = [cur EXCEPT ![c] = None]
  /\ pc' = [pc EXCEPT ![c] = "walk"]
  /\ UNCHANGED <<clientVars, down, space, members, passing, rest, stay, fault>>

(* Mutant: the walk stays where it is.                                     *)
UnlockAgain(c) ==
  /\ At(c, "send") /\ rest[c] = <<>>
  /\ lock' = [lock EXCEPT ![cur[c].client] = None]
  /\ cur' \in {[cur EXCEPT ![c] = NextMember(cur[c])], cur}
  /\ pc' = [pc EXCEPT ![c] = "walk"]
  /\ UNCHANGED <<clientVars, down, space, members, passing, rest, stay, fault>>

(* Mutant: the lock is kept.                                               *)
UnlockForgotten(c) ==
  /\ At(c, "send") /\ rest[c] = <<>>
  /\ cur' = [cur EXCEPT ![c] = NextMember(cur[c])]
  /\ pc' = [pc EXCEPT ![c] = "walk"]
  /\ UNCHANGED <<clientVars, down, space, members, passing, rest, stay, lock, fault>>

UnlockSocket(c) ==
  /\ At(c, "send") /\ rest[c] = <<>>
  /\ lock' = [lock EXCEPT ![cur[c].client] = None]
  /\ cur' = [cur EXCEPT ![c] = NextMember(cur[c])]
  /\ pc' = [pc EXCEPT ![c] = "walk"]
  /\ UNCHANGED <<clientVars, down, space, members, passing, rest, stay, fault>>

WalkEnd(c) ==
  /\ At(c, "walk") /\ cur[c] = None
  /\ pc' = [pc EXCEPT ![c] = "reply"]
  /\ UNCHANGED <<clientVars, down, space, members, cur, passing, rest, stay, lock, fault>>

(* The reply needs room too, but not the lock; whatever is on its way to c *)
(* from others may be in the stream by half.                               *)
SendReply(c) ==
  /\ ~fault /\ pc[c] = "reply"
  /\ TakeRoom(c)
  /\ pc' = [pc EXCEPT ![c] = "recv"]
  /\ passing' = [passing EXCEPT ![c] = <<>>]
  /\ stay' = [stay EXCEPT ![c] = {}]
  /\ UNCHANGED <<clientVars, down, members, cur, rest, lock, fault>>

-----------------------------------------------------------------------------
Handle(c) ==
  \/ UseFreed(c) \/ Skip(c) \/ LockSocket(c) \/ Send(c) \/ UnlockSocket(c)
  \/ WalkEnd(c) \/ SendReply(c)

Next ==
  \E c \in Client :
    \/ Ask(c) \/ Stall(c) \/ Receive(c) \/ Handle(c)

(* The scheduler runs the threads of the server.  Weak fairness is enough  *)
(* for socketLock because the requests are finitely many.                  *)
Fairness == \A c \in Client : WF_vars(Receive(c)) /\ WF_vars(Handle(c))

Spec == Init /\ [][Next]_vars /\ Fairness

-----------------------------------------------------------------------------
(* Two messages that are passed on to one client never mix in its stream,  *)
(* although each may be sent in parts: socketLock keeps the second back.   *)
MessagesWhole ==
  \A d \in Client :
    LET p == down[d]
    IN  \A i \in DOMAIN p : p[i].part = 2 =>
          i > 1 /\ p[i-1].packet = p[i].packet /\ p[i-1].part = 1

(* A message whose sender gets MESSAGE_ACK is in the stream of every client*)
(* that was a member from the time the message was received.               *)
AckMeansDelivered ==
  \A c \in Client :
    pc[c] = "reply" /\ passing[c][1].kind = "MESSAGE" =>
      \A d \in stay[c] \ {c} : ToSet(Bytes(passing[c])) \subseteq ToSet(down[d])

(* Joins(d): the nodes of the list there can ever be for d.                *)
Joins(d) == {-i : i \in {k \in DOMAIN AtFirst : AtFirst[k] = d}}
            \cup {n \in DOMAIN Script[d] : Script[d][n] = "JOIN"}

(* A member gets what another sends in the order in which it was sent, and *)
(* none of it twice, if it has joined once: chatServer_sessionJoin inserts *)
(* a client that is in the session already a second time.                  *)
InOrderOnce ==
  \A c, d \in Client :
    (\A m, n \in Joins(d) : m = n) =>
      LET Starts == {i \in DOMAIN down[d] : down[d][i].packet.from = c /\ down[d][i].part = 1}
      IN  \A i, j \in Starts : i < j => down[d][i].packet.n < down[d][j].packet.n

(* A thread does not stay in a handler for ever, unless a client has       *)
(* stopped reading: two threads that send to each other's clients do not   *)
(* wait for one another.                                                   *)
Answered ==
  \A c \in Client :
    pc[c] \notin {"recv", "gone"} ~> pc[c] = "recv" \/ stalled # {} \/ fault
=============================================================================
