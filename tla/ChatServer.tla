----------------------------- MODULE ChatServer -----------------------------
(***************************************************************************)
(* The request handlers of the conferencing server (chatServer.c), run by  *)
(* one thread per connection (server.c, threadCall), over the three shared *)
(* structures of the process: the list `connections', the hash table       *)
(* `sessions' and the read-only table `users'.  None of the handlers takes *)
(* a lock, so each is split where another thread can come in between: a    *)
(* look-up and the update that relies on it are two steps.  A call that    *)
(* changes a collection is one step here, and the search of a session's    *)
(* list and the removal of the node it finds are one: what calls do to each*)
(* other that overlap on one list is SharedList's.                         *)
(*                                                                         *)
(* threadInfoComparer compares socket numbers, and so do the searches here:*)
(* a number is given out again between close and releaseThread.            *)
(*                                                                         *)
(* Memory is part of the model.  A ThreadInfo, a session list or a key     *)
(* string is freed where the code frees it while pointers to it stay, and  *)
(* an address in Conn is handed out again by the next calloc.  Following a *)
(* pointer into freed memory, or NULL, sets `fault': anything may happen   *)
(* afterwards, so no step leaves a faulty state.  Comparing with a freed   *)
(* key string only reads stale bytes, which match or do not match.         *)
(***************************************************************************)
EXTENDS Naturals, FiniteSets, SequencesExt, Lists

CONSTANTS
  Conn,            \* addresses of ThreadInfo blocks
  User,            \* user names in passwords.txt
  Name,            \* session names
  Socket,          \* descriptors accept may return
  BucketOf,        \* BucketOf[n]: hash(n) % limit
  MaxConnections,  \* MAX_CONNECTIONS
  MaxSessions,     \* bound: sessions in the table at one time
  MaxMembers,      \* bound: nodes in one session's list
  Acts,            \* what the clients of this run do: packet types they send,
                   \*   "QUIT": go without EXIT, "REJOIN": join a session twice
  Serial,          \* TRUE: no two requests are being handled at one time
  NoUser,          \* a zeroed clientID
  NoName,          \* NULL for a name
  NoSocket,        \* the 0 of a block from calloc
  Nothing          \* no argument

ASSUME ServerAssumption ==
  /\ MaxConnections \in Nat \ {0}
  /\ MaxSessions \in Nat
  /\ MaxMembers \in Nat
  /\ Serial \in BOOLEAN
  /\ NoUser \notin User \cup Conn /\ NoName \notin Name /\ NoSocket \notin Socket
  /\ Conn \cap User = {}
  /\ DOMAIN BucketOf = Name
  /\ Acts \subseteq {"LOGIN", "EXIT", "JOIN", "LEAVE_SESS", "NEW_SESS", "QUERY",
                     "MESSAGE", "QUIT", "REJOIN"}

Replies == {"LO_ACK", "LO_NAK", "JN_ACK", "JN_NAK", "LS_ACK", "LS_NACK", "NS_ACK",
            "NS_NAK", "MESSAGE", "MESSAGE_ACK", "MESSAGE_NCK", "QU_ACK", "QU_NACK"}

SessId == 1 .. MaxSessions
NoSess == 0
Bucket == {BucketOf[n] : n \in Name}

VARIABLES
  pc,          \* pc[c]: where the thread of ThreadInfo c is; "free": no such block
  socket,      \* socket[c]: the descriptor of c
  want,        \* want[c]: the user or session name the handler of c works on
  cur,         \* cur[c]: the session or table entry the handler of c points at
  clientID,    \* clientID[c]: the user logged in on c
  sessionID,   \* sessionID[c]: the name string c points at, and the table entry
               \*   (or NoSess) whose key is that same string
  connections, \* list of ThreadInfo blocks and of login strings
  order,       \* `sessions' as a list, from head to tail
  chain,       \* chain[b]: the entries reached from table[b] by bucket_next
  sessName,    \* sessName[s]: the name entry s was inserted under
  keyLive,     \* keyLive[s]: the key string of s is not freed
  members,     \* members[s]: the list of session s
  listLive,    \* listLive[s]: the list of s is not freed
  fault,       \* the first invalid access: "none", "null" or "freed"
  out          \* the packets sent by the last step

connVars  == <<clientID, sessionID, connections, socket>>
tableVars == <<order, chain, sessName, keyLive, members, listLive>>
vars == <<pc, want, cur, connVars, tableVars, fault, out>>

NoString == [name |-> NoName, key |-> NoSess]

-----------------------------------------------------------------------------
(* Threads.                                                                *)

Label == {"free", "accept", "recv", "close", "release", "login", "join",
          "create", "createJoin", "leave", "leaveFree", "exit", "query"}

Live(c) == pc[c] # "free"
Open(c) == pc[c] \notin {"free", "accept", "release"}
InHandler(c) == Open(c) /\ pc[c] \notin {"recv", "close"}

Goto(c, label) == pc' = [pc EXCEPT ![c] = label]

(* The thread of c has received a request of type p and starts its handler.*)
(* chatclient_logout sends EXIT only with the clientID of an LO_ACK.       *)
Receives(c, p) ==
  /\ fault = "none"
  /\ p \in Acts
  /\ p = "EXIT" => clientID[c] # NoUser
  /\ pc[c] = "recv"
  /\ Serial => \A d \in Conn : ~InHandler(d)

(* The thread of c takes the next step of the handler it is in.            *)
At(c, label) == fault = "none" /\ pc[c] = label

Packet(c, t) == [to |-> socket[c], type |-> t]
Reply(c, t) == out' = {Packet(c, t)}
Silent == out' = {}

(* The handler ends with a reply of type t and no effect.                  *)
Refuse(c, t) ==
  /\ Reply(c, t)
  /\ UNCHANGED <<pc, want, cur, connVars, tableVars, fault>>

(* The handler follows a pointer that is NULL or whose block is freed.     *)
Fault(kind) ==
  /\ fault' = kind
  /\ Silent
  /\ UNCHANGED <<pc, want, cur, connVars, tableVars>>

-----------------------------------------------------------------------------
(* The session table.                                                      *)

(* ht_find: the entries the search for n may return.  An entry whose key   *)
(* is live matches exactly when it has that name; one whose key is freed   *)
(* may or may not.                                                         *)
HtFind(n) ==
  LET q == chain[BucketOf[n]]
      Matches(i) == keyLive[q[i]] /\ sessName[q[i]] = n
      Reached(i) == \A j \in 1 .. i-1 : ~Matches(j)
  IN  {q[i] : i \in {j \in DOMAIN q : Reached(j) /\ (Matches(j) \/ ~keyLive[q[j]])}}
        \cup {s \in {NoSess} : \A i \in DOMAIN q : ~Matches(i)}

(* The nodes of session s that have the socket number of c.                *)
Hits(s, c) == {i \in DOMAIN members[s] : socket[members[s][i]] = socket[c]}

(* ll_find(list of s, c, threadInfoComparer) reads the block of each       *)
(* member up to the first with the number of c.                            *)
SearchFaults(s, c) ==
  \/ ~listLive[s]
  \/ \E i \in DOMAIN members[s] : ~Live(members[s][i]) /\ \A j \in Hits(s, c) : i < j

(* The list of s without the node that search finds.                       *)
Without(s, c) ==
  IF Hits(s, c) = {} THEN members[s] ELSE RemoveAt(members[s], Min(Hits(s, c)))

(* Mutant: ht_remove forgets the bucket.                                   *)
HtUnlinkListOnly(v) ==
  /\ sessName' = [sessName EXCEPT ![v] = NoName]
  /\ order' = RemoveFirst(order, v)
  /\ UNCHANGED <<keyLive, chain>>

(* Mutant: ht_remove forgets the list.                                     *)
HtUnlinkBucketOnly(v) ==
  /\ chain' = [b \in Bucket |-> IF v \in ToSet(chain[b]) THEN <<>> ELSE chain[b]]
  /\ UNCHANGED <<order, sessName, keyLive>>

(* Mutant: ht_remove always takes the head of the list.                    *)
HtUnlinkHead(v) ==
  /\ chain' = [b \in Bucket |-> IF v \in ToSet(chain[b]) THEN <<>> ELSE chain[b]]
  /\ order' = Tail(order)
  /\ UNCHANGED <<sessName, keyLive>>

(* ht_remove once the entry v is found: v leaves the list and is freed, and*)
(* because no entry in a bucket has a bucket_prev the bucket is cleared.   *)
HtUnlink(v) ==
  /\ sessName' = [sessName EXCEPT ![v] = NoName]
  /\ keyLive' = [keyLive EXCEPT ![v] = TRUE]
  /\ order' = RemoveFirst(order, v)
  /\ chain' = [b \in Bucket |-> IF v \in ToSet(chain[b]) THEN <<>> ELSE chain[b]]

(* The entry after s in the list, NoSess at the tail.                      *)
NextIn(q, s) ==
  LET After == {i \in DOMAIN q : i > 1 /\ q[i-1] = s}
  IN  IF After = {} THEN NoSess ELSE q[CHOOSE i \in After : TRUE]

(* A block for a new entry: not listed, and nothing points at it.          *)
FreeEntries ==
  {s \in SessId : /\ s \notin ToSet(order)
                  /\ \A c \in Conn : sessionID[c].key # s /\ cur[c] # s}

-----------------------------------------------------------------------------
Init ==
  /\ pc = [c \in Conn |-> "free"]
  /\ want = [c \in Conn |-> Nothing]
  /\ cur = [c \in Conn |-> NoSess]
  /\ socket = [c \in Conn |-> NoSocket]
  /\ clientID = [c \in Conn |-> NoUser]
  /\ sessionID = [c \in Conn |-> NoString]
  /\ connections = <<>>
  /\ order = <<>>
  /\ chain = [b \in Bucket |-> <<>>]
  /\ sessName = [s \in SessId |-> NoName]
  /\ keyLive = [s \in SessId |-> TRUE]
  /\ members = [s \in SessId |-> <<>>]
  /\ listLive = [s \in SessId |-> TRUE]
  /\ fault = "none"
  /\ out = {}

-----------------------------------------------------------------------------
(* The life of a connection.                                               *)

(* main takes a ThreadInfo, waiting while the list is full.                *)
GetThreadInfo(c) ==
  /\ At(c, "free")
  /\ \A d \in Conn : pc[d] # "accept"
  /\ Len(connections) < MaxConnections
  /\ Goto(c, "accept")
  /\ clientID' = [clientID EXCEPT ![c] = NoUser]
  /\ sessionID' = [sessionID EXCEPT ![c] = NoString]
  /\ connections' = Append(connections, c)
  /\ Silent
  /\ UNCHANGED <<want, cur, socket, tableVars, fault>>

(* accept returns a descriptor that is not open, and the connection's      *)
(* thread starts.                                                          *)
Accept(c) ==
  /\ At(c, "accept")
  /\ \E f \in Socket :
       /\ \A d \in Conn : Open(d) => socket[d] # f
       /\ socket' = [socket EXCEPT ![c] = f]
  /\ Goto(c, "recv")
  /\ Silent
  /\ UNCHANGED <<want, cur, clientID, sessionID, connections, tableVars, fault>>

(* recv returns 0 or fails: the client is gone without an EXIT.            *)
Disconnect(c) ==
  /\ At(c, "recv")
  /\ "QUIT" \in Acts
  /\ Goto(c, "close")
  /\ Silent
  /\ UNCHANGED <<want, cur, connVars, tableVars, fault>>

(* close: from here on accept may return the number again.                 *)
Close(c) ==
  /\ At(c, "close")
  /\ Goto(c, "release")
  /\ Silent
  /\ UNCHANGED <<want, cur, connVars, tableVars, fault>>

(* Mutant: the block is freed and its node stays.                          *)
ReleaseKeepsNode(c) ==
  /\ At(c, "release")
  /\ Goto(c, "free")
  /\ clientID' = [clientID EXCEPT ![c] = NoUser]
  /\ sessionID' = [sessionID EXCEPT ![c] = NoString]
  /\ socket' = [socket EXCEPT ![c] = NoSocket]
  /\ Silent
  /\ UNCHANGED <<want, cur, connections, tableVars, fault>>

(* releaseThread, which is taken to find its own block here (its search by *)
(* socket number is in ConnectionPool).  What the block held is gone with  *)
(* it.                                                                     *)
Release(c) ==
  /\ At(c, "release")
  /\ Goto(c, "free")
  /\ clientID' = [clientID EXCEPT ![c] = NoUser]
  /\ sessionID' = [sessionID EXCEPT ![c] = NoString]
  /\ socket' = [socket EXCEPT ![c] = NoSocket]
  /\ connections' = RemoveFirst(connections, c)
  /\ Silent
  /\ UNCHANGED <<want, cur, tableVars, fault>>

-----------------------------------------------------------------------------
(* LOGIN of user u; good says whether the password is right.               *)

(* Mutant: nobody looks whether u is logged in already.                    *)
LoginUnchecked(c, u, good) ==
  /\ Receives(c, "LOGIN")
  /\ good
  /\ Goto(c, "login")
  /\ want' = [want EXCEPT ![c] = u]
  /\ Silent
  /\ UNCHANGED <<cur, connVars, tableVars, fault>>

LoginCheck(c, u, good) ==
  /\ Receives(c, "LOGIN")
  /\ \/ /\ ~good \/ u \in ToSet(connections)
        /\ Refuse(c, "LO_NAK")
     \/ /\ good /\ u \notin ToSet(connections)
        /\ Goto(c, "login")
        /\ want' = [want EXCEPT ![c] = u]
        /\ Silent
        /\ UNCHANGED <<cur, connVars, tableVars, fault>>

(* Mutant: the login string is not inserted.                               *)
LoginNoInsert(c) ==
  /\ At(c, "login")
  /\ clientID' = [clientID EXCEPT ![c] = want[c]]
  /\ want' = [want EXCEPT ![c] = Nothing]
  /\ Goto(c, "recv")
  /\ Reply(c, "LO_ACK")
  /\ UNCHANGED <<cur, sessionID, connections, socket, tableVars, fault>>

LoginInsert(c) ==
  /\ At(c, "login")
  /\ clientID' = [clientID EXCEPT ![c] = want[c]]
  /\ connections' = Append(connections, want[c])
  /\ want' = [want EXCEPT ![c] = Nothing]
  /\ Goto(c, "recv")
  /\ Reply(c, "LO_ACK")
  /\ UNCHANGED <<cur, sessionID, socket, tableVars, fault>>

-----------------------------------------------------------------------------
(* JOIN of session n by a packet with source u.                            *)

(* Mutant: the result of the look-up is not kept.                          *)
JoinFindForgets(c, u, n) ==
  /\ Receives(c, "JOIN")
  /\ clientID[c] = u
  /\ HtFind(n) # {NoSess}
  /\ Goto(c, "join")
  /\ want' = [want EXCEPT ![c] = n]
  /\ Silent
  /\ UNCHANGED <<cur, connVars, tableVars, fault>>

JoinFind(c, u, n) ==
  /\ Receives(c, "JOIN")
  /\ \/ clientID[c] # u /\ Refuse(c, "NS_NAK")
     \/ /\ clientID[c] = u
        /\ \E s \in HtFind(n) :
             \/ s = NoSess /\ Refuse(c, "JN_NAK")
             \/ /\ s # NoSess /\ Len(members[s]) < MaxMembers
                /\ c \in ToSet(members[s]) => "REJOIN" \in Acts
                /\ Goto(c, "join")
                /\ want' = [want EXCEPT ![c] = n]
                /\ cur' = [cur EXCEPT ![c] = s]
                /\ Silent
                /\ UNCHANGED <<connVars, tableVars, fault>>

(* Mutant: the client is not inserted in the list.                         *)
EnterNoInsert(c, key, ack) ==
  /\ sessionID' = [sessionID EXCEPT ![c] = [name |-> want[c], key |-> key]]
  /\ want' = [want EXCEPT ![c] = Nothing]
  /\ cur' = [cur EXCEPT ![c] = NoSess]
  /\ Goto(c, "recv")
  /\ Reply(c, ack)
  /\ UNCHANGED <<clientID, connections, socket, tableVars, fault>>

(* sessionID and ll_insert, the end of JOIN and of NEW_SESS.               *)
Enter(c, key, ack) ==
  /\ sessionID' = [sessionID EXCEPT ![c] = [name |-> want[c], key |-> key]]
  /\ members' = [members EXCEPT ![cur[c]] = Append(@, c)]
  /\ want' = [want EXCEPT ![c] = Nothing]
  /\ cur' = [cur EXCEPT ![c] = NoSess]
  /\ Goto(c, "recv")
  /\ Reply(c, ack)
  /\ UNCHANGED <<clientID, connections, socket, order, chain, sessName, keyLive, listLive,
                 fault>>

JoinInsert(c) ==
  /\ At(c, "join")
  /\ \/ ~listLive[cur[c]] /\ Fault("freed")
     \/ listLive[cur[c]] /\ Enter(c, NoSess, "JN_ACK")

-----------------------------------------------------------------------------
(* NEW_SESS of name n.                                                     *)

(* Mutant: NEW_SESS does not look whether the name is taken.               *)
CreateUnchecked(c, u, n) ==
  /\ Receives(c, "NEW_SESS")
  /\ clientID[c] = u
  /\ FreeEntries # {}
  /\ Goto(c, "create")
  /\ want' = [want EXCEPT ![c] = n]
  /\ Silent
  /\ UNCHANGED <<cur, connVars, tableVars, fault>>

CreateFind(c, u, n) ==
  /\ Receives(c, "NEW_SESS")
  /\ \/ clientID[c] # u /\ Refuse(c, "NS_NAK")
     \/ /\ clientID[c] = u
        /\ \E s \in HtFind(n) :
             \/ s # NoSess /\ Refuse(c, "NS_NAK")
             \/ /\ s = NoSess /\ FreeEntries # {}
                /\ Goto(c, "create")
                /\ want' = [want EXCEPT ![c] = n]
                /\ Silent
                /\ UNCHANGED <<cur, connVars, tableVars, fault>>

(* ht_insert of a new, still empty, session list.                          *)
CreateInsert(c) ==
  /\ At(c, "create")
  /\ FreeEntries # {}
  /\ LET s == CHOOSE t \in FreeEntries : TRUE
         b == BucketOf[want[c]]
     IN  /\ order' = Append(order, s)
         /\ chain' = [chain EXCEPT ![b] = Append(@, s)]
         /\ sessName' = [sessName EXCEPT ![s] = want[c]]
         /\ keyLive' = [keyLive EXCEPT ![s] = TRUE]
         /\ members' = [members EXCEPT ![s] = <<>>]
         /\ listLive' = [listLive EXCEPT ![s] = TRUE]
         /\ cur' = [cur EXCEPT ![c] = s]
  /\ Goto(c, "createJoin")
  /\ Silent
  /\ UNCHANGED <<want, connVars, fault>>

CreateJoin(c) ==
  /\ At(c, "createJoin")
  /\ \/ ~listLive[cur[c]] /\ Fault("freed")
     \/ listLive[cur[c]] /\ Enter(c, cur[c], "NS_ACK")

-----------------------------------------------------------------------------
(* LEAVE_SESS of session n.  The name is only used for the first look-up:  *)
(* the session that is left is the one sessionID names.                    *)

LeaveFind(c, u, n) ==
  /\ Receives(c, "LEAVE_SESS")
  /\ \/ clientID[c] # u /\ Refuse(c, "NS_NAK")
     \/ /\ clientID[c] = u
        /\ \E s \in HtFind(n) :
             \/ s = NoSess /\ Refuse(c, "LS_NACK")
             \/ /\ s # NoSess
                /\ Goto(c, "leave")
                /\ want' = [want EXCEPT ![c] = n]
                /\ Silent
                /\ UNCHANGED <<cur, connVars, tableVars, fault>>

(* ht_find(sessions, sessionID), NULL for a NULL name.                     *)
OwnSession(c) ==
  IF sessionID[c] = NoString THEN {NoSess} ELSE HtFind(sessionID[c].name)

(* ll_find and ll_remove of the client's node, free of the sessionID       *)
(* string, which may be the key of the entry it created.                   *)
LeaveUnlink(c) ==
  /\ At(c, "leave")
  /\ \E s \in OwnSession(c) :
       \/ s = NoSess /\ Fault("null")
       \/ s # NoSess /\ SearchFaults(s, c) /\ Fault("freed")
       \/ s # NoSess /\ ~SearchFaults(s, c) /\ Hits(s, c) = {} /\ Fault("null")
       \/ /\ s # NoSess /\ ~SearchFaults(s, c) /\ Hits(s, c) # {}
          /\ members' = [members EXCEPT ![s] = Without(s, c)]
          /\ keyLive' = [t \in SessId |-> keyLive[t] /\ sessionID[c].key # t]
          /\ sessionID' = [sessionID EXCEPT ![c] = NoString]
          /\ cur' = [cur EXCEPT ![c] = s]
          /\ Goto(c, "leaveFree")
          /\ Silent
          /\ UNCHANGED <<want, clientID, connections, socket, order, chain, sessName, listLive,
                         fault>>

(* Mutant: the list is freed without a look at what is in it.              *)
LeaveFreesAlways(c) ==
  /\ At(c, "leaveFree")
  /\ \/ ~listLive[cur[c]] /\ Fault("freed")
     \/ /\ listLive[cur[c]]
        /\ listLive' = [listLive EXCEPT ![cur[c]] = FALSE]
        /\ want' = [want EXCEPT ![c] = Nothing]
        /\ cur' = [cur EXCEPT ![c] = NoSess]
        /\ Goto(c, "recv")
        /\ Reply(c, "LS_ACK")
        /\ UNCHANGED <<connVars, order, chain, sessName, keyLive, members, fault>>

(* "Delete if empty": ht_remove is passed the NULL sessionID and does      *)
(* nothing, the list is freed.                                             *)
LeaveFree(c) ==
  /\ At(c, "leaveFree")
  /\ \/ ~listLive[cur[c]] /\ Fault("freed")
     \/ /\ listLive[cur[c]]
        /\ listLive' = [listLive EXCEPT ![cur[c]] = members[cur[c]] # <<>>]
        /\ want' = [want EXCEPT ![c] = Nothing]
        /\ cur' = [cur EXCEPT ![c] = NoSess]
        /\ Goto(c, "recv")
        /\ Reply(c, "LS_ACK")
        /\ UNCHANGED <<connVars, order, chain, sessName, keyLive, members, fault>>

-----------------------------------------------------------------------------
(* EXIT: a walk over the list of the table.                                *)

ExitStart(c) ==
  /\ Receives(c, "EXIT")
  /\ Goto(c, "exit")
  /\ cur' = [cur EXCEPT ![c] = IF order = <<>> THEN NoSess ELSE Head(order)]
  /\ Silent
  /\ UNCHANGED <<want, connVars, tableVars, fault>>

(* entry->next, with v just taken out of the table and freed.  When that is*)
(* the entry itself, the field is read in freed memory: it may still have  *)
(* its value, or not.                                                      *)
ExitNext(c, v) ==
  \/ /\ cur' = [cur EXCEPT ![c] =
                 NextIn(IF v = cur[c] THEN order ELSE RemoveFirst(order, v), cur[c])]
     /\ UNCHANGED fault
  \/ v = cur[c] /\ fault' = "freed" /\ UNCHANGED cur

(* One entry s.  The node found for c leaves the list of s; if that empties*)
(* the list, ht_remove looks the key of s up again.                        *)
ExitVisit(c) ==
  /\ At(c, "exit") /\ cur[c] # NoSess
  /\ LET s == cur[c]
         Empties == members[s] # <<>> /\ Without(s, c) = <<>>
     IN  \/ /\ \/ s \notin ToSet(order)
               \/ SearchFaults(s, c)
               \/ Empties /\ ~keyLive[s]
            /\ Fault("freed")
         \/ /\ s \in ToSet(order) /\ ~SearchFaults(s, c) /\ (Empties => keyLive[s])
            /\ members' = [members EXCEPT ![s] = Without(s, c)]
            /\ \E v \in IF Empties THEN HtFind(sessName[s]) ELSE {NoSess} :
                 /\ IF v = NoSess THEN UNCHANGED <<order, chain, sessName, keyLive>>
                    ELSE HtUnlink(v)
                 /\ ExitNext(c, v)
            /\ Silent
            /\ UNCHANGED <<pc, want, connVars, listLive>>

(* The walk is over: the login string leaves `connections'.  Its node is   *)
(* used without asking whether it was found.                               *)
ExitLogin(c) ==
  /\ At(c, "exit") /\ cur[c] = NoSess
  /\ IF clientID[c] \notin ToSet(connections) THEN Fault("null")
     ELSE /\ connections' = RemoveFirst(connections, clientID[c])
          /\ Goto(c, "close")
          /\ Silent
          /\ UNCHANGED <<want, cur, clientID, sessionID, socket, tableVars, fault>>

-----------------------------------------------------------------------------
(* QUERY: a walk that reads every entry's list and key.                    *)

QueryStart(c, u) ==
  /\ Receives(c, "QUERY")
  /\ \/ clientID[c] # u /\ Refuse(c, "QU_NACK")
     \/ /\ clientID[c] = u
        /\ Goto(c, "query")
        /\ cur' = [cur EXCEPT ![c] = IF order = <<>> THEN NoSess ELSE Head(order)]
        /\ Silent
        /\ UNCHANGED <<want, connVars, tableVars, fault>>

QueryVisit(c) ==
  /\ At(c, "query") /\ cur[c] # NoSess
  /\ LET s == cur[c]
     IN  \/ (s \notin ToSet(order) \/ ~listLive[s]) /\ Fault("freed")
         \/ /\ s \in ToSet(order) /\ listLive[s]
            /\ cur' = [cur EXCEPT ![c] = NextIn(order, s)]
            /\ Silent
            /\ UNCHANGED <<pc, want, connVars, tableVars, fault>>

QueryReply(c) ==
  /\ At(c, "query") /\ cur[c] = NoSess
  /\ Goto(c, "recv")
  /\ Reply(c, "QU_ACK")
  /\ UNCHANGED <<want, cur, connVars, tableVars, fault>>

-----------------------------------------------------------------------------
(* MESSAGE to session n.  The membership test compares the first byte of   *)
(* two ThreadInfo blocks, which is 0 in all of them, so it only asks       *)
(* whether the list is empty.                                              *)

Message(c, u, n) ==
  /\ Receives(c, "MESSAGE")
  /\ \/ clientID[c] # u /\ Refuse(c, "MESSAGE_NCK")
     \/ /\ clientID[c] = u
        /\ \E s \in HtFind(n) :
             \/ s = NoSess /\ Refuse(c, "MESSAGE_NCK")
             \/ /\ s # NoSess
                /\ ~listLive[s] \/ \E d \in ToSet(members[s]) : ~Live(d)
                /\ Fault("freed")
             \/ /\ s # NoSess /\ listLive[s] /\ members[s] = <<>>
                /\ Refuse(c, "MESSAGE_NCK")
             \/ /\ s # NoSess /\ listLive[s] /\ members[s] # <<>>
                /\ \A d \in ToSet(members[s]) : Live(d)
                /\ LET others == {d \in ToSet(members[s]) : socket[d] # socket[c]}
                   IN  out' = {Packet(d, "MESSAGE") : d \in others} \cup {Packet(c, "MESSAGE_ACK")}
                /\ UNCHANGED <<pc, want, cur, connVars, tableVars, fault>>

-----------------------------------------------------------------------------
Next ==
  \E c \in Conn :
    \/ GetThreadInfo(c) \/ Accept(c) \/ Disconnect(c) \/ Close(c) \/ Release(c)
    \/ \E u \in User, good \in BOOLEAN : LoginCheck(c, u, good)
    \/ LoginInsert(c)
    \/ \E u \in User, n \in Name : JoinFind(c, u, n)
    \/ JoinInsert(c)
    \/ \E u \in User, n \in Name : CreateFind(c, u, n)
    \/ CreateInsert(c) \/ CreateJoin(c)
    \/ \E u \in User, n \in Name : LeaveFind(c, u, n)
    \/ LeaveUnlink(c) \/ LeaveFree(c)
    \/ ExitStart(c) \/ ExitVisit(c) \/ ExitLogin(c)
    \/ \E u \in User : QueryStart(c, u)
    \/ QueryVisit(c) \/ QueryReply(c)
    \/ \E u \in User, n \in Name : Message(c, u, n)

Spec == Init /\ [][Next]_vars

-----------------------------------------------------------------------------
(* A handler that is past its look-up holds the name and the session that *)
(* the rest of it needs.                                                   *)
ThreadsTyped ==
  /\ pc \in [Conn -> Label]
  /\ want \in [Conn -> User \cup Name \cup {Nothing}]
  /\ cur \in [Conn -> SessId \cup {NoSess}]
  /\ \A c \in Conn :
       /\ pc[c] = "login" => want[c] \in User
       /\ pc[c] \in {"join", "create", "createJoin"} => want[c] \in Name
       /\ pc[c] \in {"join", "createJoin", "leaveFree"} => cur[c] \in SessId

ConnsTyped ==
  /\ clientID \in [Conn -> User \cup {NoUser}]
  /\ sessionID \in [Conn -> [name : Name \cup {NoName}, key : SessId \cup {NoSess}]]
  /\ \A c \in Conn : sessionID[c] # NoString => sessionID[c].name \in Name
  /\ connections \in Seq(Conn \cup User)
  /\ socket \in [Conn -> Socket \cup {NoSocket}]

TableTyped ==
  /\ order \in Seq(SessId)
  /\ chain \in [Bucket -> Seq(SessId)]
  /\ sessName \in [SessId -> Name \cup {NoName}]
  /\ \A s \in ToSet(order) : sessName[s] \in Name
  /\ keyLive \in [SessId -> BOOLEAN]
  /\ members \in [SessId -> Seq(Conn)]
  /\ listLive \in [SessId -> BOOLEAN]

(* Every variable has its type.                                            *)
TypeOK ==
  /\ ThreadsTyped /\ ConnsTyped /\ TableTyped
  /\ fault \in {"none", "null", "freed"}
  /\ out \subseteq [to : Socket \cup {NoSocket}, type : Replies]

-----------------------------------------------------------------------------
(* What holds of the list `connections'.                                   *)

LoggedIn(c) == Open(c) /\ pc[c] # "close" /\ clientID[c] # NoUser

(* The ThreadInfo blocks in `connections' are the allocated ones, each once*)
(* (so releaseThread has a node of its own to find), as long as no two     *)
(* calls on that list overlap: login strings that come and go between the  *)
(* blocks do not disturb them.                                             *)
BlocksListed ==
  /\ \A c \in Conn : Live(c) <=> c \in ToSet(connections)
  /\ Once(connections, Conn)

(* The name of the user of every connection that is logged in is in        *)
(* `connections', and no name is there twice: EXIT finds the string it     *)
(* takes out, and a logged-in user's string is taken out by no one else.   *)
LoginsHeld ==
  /\ \A c \in Conn : LoggedIn(c) => clientID[c] \in ToSet(connections)
  /\ Once(connections, User)

(* Two connections are never logged in with the same credentials           *)
(* (README, chatServer_login).                                             *)
UniqueLogin ==
  \A c, d \in Conn :
    LoggedIn(c) /\ LoggedIn(d) /\ clientID[c] = clientID[d] => c = d

-----------------------------------------------------------------------------
(* What holds of the session table.                                        *)

(* ht_find and ht_remove never reach a freed entry: an entry in a bucket is*)
(* in the list of the table, in the bucket of its name, and in no bucket or*)
(* list twice.                                                             *)
ChainsInOrder ==
  /\ Once(order, SessId)
  /\ \A b \in Bucket :
       /\ Once(chain[b], SessId)
       /\ \A s \in ToSet(chain[b]) : s \in ToSet(order) /\ BucketOf[sessName[s]] = b

(* Every session is found under its name, and under no other's.            *)
Findable == \A s \in ToSet(order) : HtFind(sessName[s]) = {s}

(* A session in the table has a member, or its creator is about to enter.  *)
NoEmptySession ==
  \A s \in ToSet(order) :
    members[s] # <<>> \/ \E c \in Conn : pc[c] = "createJoin" /\ cur[c] = s

(* The session that sessionID names is in the table and the client is in   *)
(* it, so LEAVE_SESS, which looks both up without a check, would find them *)
(* ("Necessary to check curr == NULL?").                                   *)
SessionIDBacked ==
  \A c \in Conn :
    LoggedIn(c) /\ pc[c] # "exit" /\ sessionID[c] # NoString =>
      \E s \in ToSet(order) : sessName[s] = sessionID[c].name /\ c \in ToSet(members[s])

(* A session leaves the table only in an EXIT, and only when its one node  *)
(* is that of the client that leaves, or of a client whose connection is   *)
(* closed and whose socket number the leaving one has: no EXIT drops a     *)
(* session that a connected client is in.                                  *)
DropsOnlyLast ==
  [][\A s \in ToSet(order) :
       s \notin ToSet(order') =>
         \E c, d \in Conn : /\ pc[c] = "exit" /\ members[s] = <<d>>
                            /\ d = c \/ (pc[d] = "release" /\ socket[d] = socket[c])]_vars

(* A session lists a client that is gone: it left without an EXIT, or had  *)
(* joined twice and was taken out once, or another node with its socket    *)
(* number was taken out in place of its own.                               *)
GoneMember == \E s \in ToSet(order) : \E c \in ToSet(members[s]) : ~Live(c)

(* An EXIT stands on an entry that is no longer in the table.              *)
ExitOnFreed == \E c \in Conn : pc[c] = "exit" /\ cur[c] \in SessId \ ToSet(order)

(* Without LEAVE_SESS, a handler that runs alone follows a pointer that is *)
(* NULL or into freed memory in two ways only: a session still lists a     *)
(* client that is gone, or EXIT reads the next field of the entry it has   *)
(* just had freed, which it does whenever it empties a session.            *)
FaultsFromGone == fault # "none" => GoneMember \/ ExitOnFreed

(* With LEAVE_SESS there are three more ways, and no other: a client that  *)
(* sends it is in no session it could leave, it has freed its sessionID    *)
(* while that is the key of the entry, or it was the last member and the   *)
(* list is freed while the entry stays.  A list with members is not freed. *)
FaultsFromLeave ==
  fault # "none" =>
    \/ GoneMember \/ ExitOnFreed
    \/ \E c \in Conn : pc[c] = "leave"
    \/ \E s \in ToSet(order) : ~keyLive[s] \/ (~listLive[s] /\ members[s] = <<>>)

=============================================================================
