# A TLA+ model of the text conferencing application

A chat server and its client in C. The server keeps one thread per connection; users log in,
create, join and leave sessions, and a message goes to the members of a session. The client
has a main thread for commands and a listener thread on the same socket. The modules here
model the server's shared state and the way its threads use it, and the client, the list and
table they are built on, the packets between them, and the way of a message through all of
it; TLC checks small instances of them and TLAPS proves the central invariants for every
size.

## Inventory

| Component | State | Operations | Interacts with |
|---|---|---|---|
| Request handlers, `chatServer.c` | the ThreadInfo of the connection (`clientID`, `sessionID`, socket); shared: `connections`, `sessions`, `users` | login, exit, sessionJoin, sessionLeave, sessionCreate, sessionQuery, message | called by `threadCall`; call the collections; forward messages to other sockets under `socketLock` |
| Server threads and acceptor, `server.c` | `connections` with `connectionsMutex` and `connectionsCond`, open descriptors | `getThreadInfo`, accept loop, `threadCall`, `releaseThread`; reads `passwords.txt` once | kernel (accept, recv, send, close), the handlers |
| Linked list, `collections/linkedList.c` | head, tail, count, nodes | insert, find, remove, free | holds ThreadInfo blocks, login strings, session members |
| Hash table, `collections/hashTable.c` | bucket array, a list of all entries, chains through the buckets | insert, find, remove, free, hash | holds sessions (name to member list) and users (name to password) |
| Client library, `chatClient.c` | socket, `socketLock`, the listener thread, the client's name and sessions | login, logout, join, leave, create, query, message; the listener prints messages | main thread and listener share one socket and one lock; timeouts on replies |
| Client command loop, `client.c` | tabs (sessions joined) | `/login`, `/logout`, `/joinsession`, `/leavesession`, `/createsession`, `/list`, `/quit`, text | calls the client library |
| Packet format, `utils/transport.c` | none | packet to bytes and back | both sides of every connection |
| Token parser, `utils/printHelpers.c` | none | split a string | login, client commands, packets |
| Socket set-up, `utils/nethelper.c` | none | listen, connect | both mains |

### What is hard here

- **No handler takes a lock.** `connectionsMutex` covers `getThreadInfo` and
  `releaseThread` only; LOGIN and EXIT change the same list without it, and
  nothing protects the sessions. A look-up and the update that relies on it are
  separate moments (LOGIN, JOIN, NEW_SESS), and the walks of EXIT and QUERY run
  while other threads remove entries.
- **Memory is freed while pointers to it stay**: a ThreadInfo whose client went
  without EXIT is still in session lists; the key string of a session is freed by
  the LEAVE_SESS of its creator; the list of a session that its last member leaves
  is freed and its entry stays; the EXIT of a session's last member reads the entry it
  has just freed (`chatServer.c:119`).
- **Names stand for objects**: `releaseThread` finds its block by socket number,
  which the kernel reuses; LEAVE_SESS finds the session by `sessionID`, the last
  one joined; EXIT and LEAVE_SESS find the member to take out by socket number,
  too; a table look-up finds whatever the buckets still reach.
- **One list, two kinds of element**: `connections` holds ThreadInfo blocks and
  login strings, and its length is what limits connections.
- **The client** has two readers of one socket, replies that come after their
  timeout, and paths that return with `socketLock` held; its first request waits without
  a timeout for a server that may have no room to accept it.
- **A forwarded message** is sent under the recipient's lock, the reply to a request
  without it, both perhaps in parts; a recipient that does not read keeps a thread,
  and the lock, for ever.
- **Nothing is escaped**: names, passwords and text travel between delimiters and
  through arrays that a long name fills without a terminator, or overruns, as a long
  `recv` does.
- Sequences of legal requests that damage the table (LEAVE_SESS, a second JOIN,
  a bucket with two names), each only visible some requests later.

### What makes each component correct

- Handlers: a user is logged in once; login strings are those of users logged in;
  a session in the table has members, is found by name, and goes with its last
  member; requests act on the session they name; no dangling pointer is followed.
- Slots: the limit holds, a connected client keeps its block, the acceptor is
  woken when there is room.
- Collections: list and table behave as a sequence and a map, whatever their
  pointers do; walks end.
- Client: a reply is matched with its request; no thread waits for ever.
- Packets and tokens: what is encoded is decoded again, within the buffers.

## Modules

| Module | Models |
|---|---|
| `ChatServer` | every handler of `chatServer.c` run by threads as in `server.c` |
| `MCChatServer` | its instances: bucket placements, what clients do, symmetries |
| `ChatServerProofs` | theorems about it: types, chains and logins; sessions and faults |
| `ConnectionPool` | `main`, `getThreadInfo`, `threadCall`'s end and `releaseThread` of `server.c`: mutex, condition, descriptors, slots |
| `MCConnectionPool`, `ConnectionPoolProofs` | its instance and theorems |
| `SessionTable` | abstract: a hash table as a list of entries and the chains that look-ups go through |
| `HashTable`, `MCHashTable` | `hashTable.c` by its pointers, shown to implement `SessionTable` |
| `HashTableProofs` | theorems about it, the refinement among them |
| `Hash` | its hash, in 32-bit arithmetic |
| `DataList` | abstract: a list as a sequence, for as long as changes do not overlap |
| `SharedList`, `MCSharedList` | `linkedList.c` statement by statement, as the server's threads run it on `connections`; shown to implement `DataList` |
| `SharedListProofs` | theorems about it, the refinement among them |
| `Transport` | `transport.c` and `parseTokens` as functions on sequences of characters |
| `Wire`, `MCWire` | a line from the prompt of one client to the server and the screen of another, by way of `Transport` |
| `WireProofs` | theorems about it: tokens, requests, logins, texts |
| `Conference`, `MCConference` | messages between members: the server's threads, `socketLock`, streams that take a packet in parts |
| `ConferenceProofs` | theorems about it |
| `ChatClient` | `client.c` and `chatClient.c`: the command loop, the listeners and their lock, over a stream to one server thread |
| `MCChatClient`, `ChatClientProofs` | its instance and theorems |
| `Lists`, `ListFacts` | what it is for pointers to link the elements of a sequence, and lemmas on removing from and appending to one |

### ChatServer

*State.* `pc[c]` is where the thread of the ThreadInfo block `c` is: `"free"` is a block not
allocated, `"accept"` one that main has listed and waits to fill, `"recv"` a thread waiting
for a request, `"close"` one past its loop; `"release"` one whose socket is closed, so that
`accept` may return its number to another; the other labels lie between two steps of a
handler. `socket[c]` is that number. `want` and `cur` are the handler's locals: the name it
works on, and the session or table entry it points at. `connections` is a sequence of blocks
and users. The table `sessions` is `order` (its linked list), `chain` (what each bucket
reaches) and, by entry, `sessName`, `keyLive`, `members`, `listLive`. `sessionID[c]` is a
name together with the entry whose key is the same string, because LEAVE_SESS frees that
string. `out` is the set of packets the last step sent. `fault` records the first access
through NULL or into freed memory; the C program may then do anything, so the model stops.

*Actions* follow the handlers, cut where another thread can come between a
look-up and the update that relies on it:

| Request | Actions |
|---|---|
| (connection) | `GetThreadInfo`, `Accept`, `Disconnect`, `Close`, `Release` |
| LOGIN | `LoginCheck`, `LoginInsert` |
| JOIN | `JoinFind`, `JoinInsert` |
| NEW_SESS | `CreateFind`, `CreateInsert`, `CreateJoin` |
| LEAVE_SESS | `LeaveFind`, `LeaveUnlink`, `LeaveFree` |
| EXIT | `ExitStart`, `ExitVisit` (per entry), `ExitLogin` |
| QUERY | `QueryStart`, `QueryVisit` (per entry), `QueryReply` |
| MESSAGE | `Message` |

*Searches.* EXIT and LEAVE_SESS look for their member by socket number
(`threadInfoComparer`): `Hits` are the nodes that have it, `SearchFaults` says whether the
search reads a freed block before it meets one, `Without` is the list after the removal. A
client whose number was that of a block not yet released takes out the node of
that one. `ExitNext` is `entry = entry->next`: when `ht_remove` has just freed the entry,
the read is a fault or gives what the field held, and TLC follows both.

*Abstractions.* A call that changes a collection (`ll_insert`, `ht_remove`, ...) is one
step, and so are the search of a session's list and the removal of the node it finds. No
lock makes them so: what the properties of this module say of handlers that interleave, they
say of handlers whose calls do not overlap, and `SharedList` shows what overlapping calls do
to `connections`. A comparison with a freed key may succeed or fail. The password check is a
Boolean input. The source field of a packet is any user, except that EXIT is sent only by a
client that is logged in. That is what the client does, not what the server checks: before a
login `chatServer_exit` would search `connections` for an empty string, which the first
ThreadInfo block matches, since it begins with a zero byte, and take that block out of the
list. A request of unknown type, which only gets a reply, is left out, and so are the texts
of replies and the buffers of QUERY. `releaseThread` finds its own block here; the search by
socket number is in `ConnectionPool`.

*`Serial`.* With `Serial = TRUE` a thread begins a request only when no other
handler is running. Several properties hold only then, and the runs say so: this
is the behaviour the code has when clients take turns, and what a lock around each
handler would give.

### ConnectionPool

*State.* `main` and `current` are the acceptor's position and the block it is filling;
`mutex` the owner of `connectionsMutex`; `signalled` whether `connectionsCond` was signalled
since main began to wait; `pc`, `socket`, `clientID` and `elem` belong to the thread of a
block; `live` is the set of blocks not freed, `list` the list `connections`, `open` the
descriptors in use. `Accept` takes the lowest free descriptor. `AcceptFails` is an error
other than EINTR: the code starts the thread with socket -1. `ThreadFails` is a failing
`pthread_create`, whose result the code does not look at: block and socket stay, or
`pthread_detach` of a thread that is not there crashes. `UseFreed` is a thread that reads
its block after another has freed it. Login strings in the list are taken never to match the
search by socket, which in C reads past the end of them. The length of `list` stands for
`connections->count`, which it is as long as no two of the unlocked `count++` and `count--`
overlap (`SharedList`); once two have, the limit moves by one for good.

### HashTable and SessionTable

One variable per pointer field. `Walk(first, link)` is the sequence that a loop
along a field visits. `ht_insert` and `ht_remove` are one step each, put together
from the writes to the list (`Link`, `Unlink`) and to the buckets (`EnterBucket`,
`LeaveBucket`). `SessionTable` is the table as ChatServer has it: insertion appends
to the list and to a chain, removal takes the first match out of the list and
empties its chain. The refinement maps `order` to the walk from `head` and each
chain to the walk from its bucket. `ht_free` is called nowhere and is left out.
`hash` is the constant `BucketOf`; `MCHashTable` takes its values from `Hash`, and TLC
evaluates there that the hash is not the FNV-1a its comment names: the loop starts
again from the seed for every character, so that only the last one counts and names
such as `ab` and `cb` always share a bucket. This is why `ChatServer` is checked with
names in one bucket.

### SharedList and DataList

`head`, `tail`, `count` and the fields of the nodes are the list `connections`;
`pc[t]` is the statement thread `t` is at, `call[t]` what it is doing and `node[t]`,
`reg[t]` its locals (`reg` is the value `count++` has read). A thread runs
`getThreadInfo` or `releaseThread`, with `connectionsMutex` held, or LOGIN or EXIT,
without it (`Call`, `Lock`); the statements are `Find...`, `Insert...`, `CountUp`,
`Remove...`, `CountDown`, `FreeNode`. `releaseThread` frees its node, EXIT does not. A
pointer to a freed node is `Dangling`, also when `calloc` hands the node out again;
following it or NULL sets `fault`. Users who try to log in do so at any time, but a
block is released by one thread, and a string taken out by one EXIT, at a time.

`owned`, `stays` and `overlap` are history: the elements a caller may count on, whether
the element searched for was there all the while (`releaseThread` counts on its block
until the search has found it, so its search is one of those), and whether two calls that change
the list have overlapped. After an overlap the calls that are running are followed to
their end and no new one begins: what the list is then is the question, and it is
no sequence any more. `DataList` promises nothing from then on, and the
refinement maps its sequence to the elements met from `head`.

### Transport and Wire

A character is a string, a command word or a decimal number is one character.
`NewPacket` has source and data in one memory, since a source of `MAX_NAME`
characters is read on into the data. `Capacity` is the size of the buffer that
`packetToByteArray` allocates. `HeaderRoom` is what the 128 bytes of `sprintfBuf` leave for a
source, about 118. `HeaderOverrun` and `Overrun` say when `sprintf`, or the copies in
`bytesToPacket` to `content[MAX_DATA]` and `clientId[MAX_NAME]`, write beyond their arrays;
what an array holds after that is anybody's guess, so `packetToByteArray` and `bytesToPacket`
are used only where they do not. `KeepToken` is one turn of the loop of `parseTokens`.

`Wire` follows one line: `Enter` takes it apart and builds the packet (or sends it
as a message); any line that begins with `/` is taken for a command, and most are none.
`Receive` is what `recv` returns to the server, with what may come
behind it or cut short after the header. Either may end in stage `overrun`, which nothing
leaves. `Login` and `Message` take the data apart,
`Listen` is the listener of a member, which finds the tab and prints. `users` is the
table that the server reads from `passwords.txt`. The tabs of both clients may hold
a name with or without a terminator, because `chatclient_joinSession` copies it
without one. Which request may be sent in which state of the client is in
`ChatClient`; sessions and logins of others are in `ChatServer`.

### Conference

One session, its members a list of nodes (a client and the JOIN that inserted it, so
that a client that joins twice has two), and clients that send JOIN, MESSAGE and EXIT
(`Ask`) without waiting for each reply, as they do after a time-out. `Join`,
`Message` and `Exit` take what `recv` returns: the first request or several, of which
the server sees the first. The walk of MESSAGE is `Skip` (the sender), `LockSocket`,
`Send` (one part of a packet), `UnlockSocket` and `WalkEnd`; `SendReply` sends the
reply without the lock. What is passed on are the bytes of the whole `recv`, so the
members also get a second request that the server itself drops
(`chatServer.c:373`). `Stall` is a client whose listener has lost its own lock
(`chatClient.c:57`): its stream has room for a few parts more, and then `send` waits
for ever with the lock held. `UseFreed` is a walk that meets the node or block of a
member whose EXIT came meanwhile. Replies take room but are not kept in `down`: they
may land inside a message that is being passed on, and no property says otherwise.
Clients are logged in; the membership test of MESSAGE, which asks only whether the
session has members, is as in `ChatServer`.

### ChatClient

*State.* `mpc` and `lpc[l]` are where the main thread and the listeners are, `cmd`
the request main works on, `lock` the owner of `socketLock`. `conn` is
`sess->socket`: no number yet (or -1), open, or closed with its number kept.
`tab`, `curr` are `currSessionID` and `currSession`, `state` is `currentState` of
`client.c`. `inbox` and `outbox` are the two directions of the stream, `pending`
the reply the server is about to send, `peer` its end. `granted` and `disturbed`
are history: sessions the server has let the client join, and whether a message was
passed on or a reply outlived its time-out.

*Actions.* A command runs from the prompt to the lock (`Login`, `Join`, ...), from there
through its send (`MainLock`, `MainLogout`, or `Crash` at `strlen(NULL)` and SIGPIPE), and
with the lock held to its return (`MainRecv`). A listener loops through `ListenTop`,
`ListenLock`, `ListenRecv`. A `recv` takes one packet or several that have come together;
`bytesToPacket` sees the first. It returns 0 or -1 where the socket does; before the first
LOGIN has set the time-out it waits. `WaitPeriod` computes the time-out as the code does,
with `Second` units to a second, so that a round trip over a second boundary or of a third
of a second is refused. The server's thread is the environment: `Serve` and `Reply` answer
ACK or NAK (a superset of what the handlers answer) once the connection is served, a message
may be passed on between the two, and the server may stop at any time.

`connect` succeeds without the server: `served` becomes true when main, which may be waiting
for room (`server.c:211`), accepts the connection and starts a thread (`Accept`). Until
then nobody answers.

*What is left out*: a `recv` that returns a part of a packet; under which tab a message is
printed and wrong command lines (both in `Wire`), and which of two users is logged in after
a second LOGIN.

*What goes wrong in the code* is part of the model: the lock is lost for good after
a refused `setsockopt` and at the end of the stream, `/login` after `/logout` runs
into the first of these, `/leavesession` in an empty tab ends the process. The
properties say that nothing else does.

## Runs

| Run | Instance | Shows |
|---|---|---|
| `table` | 2 connections, 2 users, 2 names in one bucket, all requests that change the table, serial | `LoginsHeld`, `UniqueLogin`, `ChainsInOrder`, `FaultsFromLeave` |
| `sessions` | a bucket per name, every request but LEAVE_SESS, serial, clients that quit or join twice | `Findable`, `NoEmptySession`, `SessionIDBacked`, `FaultsFromGone`, `DropsOnlyLast` |
| `threads` | handlers interleave, one bucket | `TypeOK`, `BlocksListed` |
| `hash_table` | 3 keys, 2 of them in one bucket, 4 entries, 6 insertions | `ListWhole`, `FoundUntilRemoved`, `ImplementsTable` |
| `shared_list` | 2 threads, 1 block, 2 login strings, 3 nodes | `ListWhole`, `FindsStayers`, `SettledStay`, `ImplementsList` |
| `pool` | 3 blocks, 2 slots, 1 user, 3 descriptors, 2 failures of accept or `pthread_create` | `TypeOK`, `ConnectedKept`, `ConnectionsBounded`, `SlotsAccounted`, `NoLostWakeup`, `RoomServed` |
| `wire` | names of 1 to 5 characters (`MaxName` 4), all delimiters in names, passwords and text, a line with more tokens than room, a `recv` with more than `MaxData` | `TokensWhole`, `RequestArrives`, `LoginAgrees`, `ShownAsTyped` |
| `client` | 2 tabs, 2 names, 2 listeners, 3 requests, 1 forwarded message | `TypeOK`, `OneReader`, `StateOfTab`, `TabsGranted`, `ExitArrives`, `OwnReply`, `CommandsReturn`, `ListenersEnd` |
| `conference` | 2 members, one of them in the list twice, and a client that joins and leaves, 3 messages, 1 client that may stop reading | `MessagesWhole`, `AckMeansDelivered`, `InOrderOnce`, `Answered` |
| `login_race` | violation of `UniqueLogin` without `Serial` | two LOGIN of one user both succeed |
| `pool_release` | violation of `ReleasesOwn` | a thread frees the block of one that had its descriptor before |
| `client_reply` | violation of `SuccessReported` | a message read in place of a JN_ACK makes a JOIN fail that was granted |

Some properties say how far the damage goes rather than that there is none. `FaultsFromGone`
and `FaultsFromLeave` name the states in which a serial server, as `ChatServer` has it,
follows a bad pointer: a session that still lists a client that is gone, the EXIT that has
just freed the entry it stands on, and after LEAVE_SESS a client in no session, a freed key
or a freed empty list. The second is the most ordinary: it takes one user who creates a
session and logs out. `DropsOnlyLast` says whom a session may lose its place in the table
to: its last member, or a client that has the socket number of a last member who is closed
and not yet released. `SettledStay` and `FindsStayers` say what the unlocked list keeps.
`SlotsAccounted` says that a slot is lost only to a thread that did not start. The
conditions in `RequestArrives`, `LoginAgrees` and `ShownAsTyped` (no delimiter in a name,
fewer characters than `MAX_NAME`, a terminated tab, a line with its newline, a request that
`recv` did not cut) are what the format needs. TLC finds `RequestArrives` violated without
the one on delimiters, `LoginAgrees` without the one on commas, `ShownAsTyped` without the
one on the tab, and each without the one on `recv`. `RequestArrives` also says that such
requests overrun an array in one way only, a `recv` with more than `MAX_DATA` bytes behind
the first header. A name of exactly `MAX_NAME` characters has no terminator in the packet:
`sprintf` reads on into the data, and if the two still fit its buffer, the server's `sscanf`
overruns `clientId`. The password file of the run also has a last line without a newline, of
which `LoginAgrees` says nothing: its password loses a character. So does a text without a
newline, when `fgets` has cut the line or the input has ended, on the screen of the member
(`chatClient.c:81`).

Other things the handlers do are in the modules without a run of their own:

- MESSAGE is passed on for a client that is in no session (`ll_find` without a
  comparer, `chatServer.c:352`).
- The login string of a client that goes without EXIT stays, so its user is refused
  from then on (`server.c:141`).
- LEAVE_SESS leaves the session that was joined last, whatever the packet names
  (`chatServer.c:201`, while `chatServer.h:82` says "the specified session").
- `ht_remove` clears the whole bucket (`hashTable.c:150`): the other sessions of it
  stay in the list of QUERY and EXIT, but no look-up finds them and their names can be
  created again. `FoundUntilRemoved` makes this exception.
- A packet without data (`/logout`) is encoded into a block of no bytes
  (`transport.c:25`), and the terminator of a password goes past its block
  (`server.c:88`).

*Bounds.* Two connections suffice for every conflict the handlers have: each of the hazards
listed is between two parties. Two names are needed for a bucket to hold two and for a
client to be in two sessions. `MaxSessions` bounds the entries in use and `MaxMembers` the
nodes of one list (2 lets one client join twice); `MaxConnections` (3 for two blocks and two
users) lets the limit be reached with login strings. In `hash_table` four entries let a
removal have neighbours on both sides in list and chain, and blocks be reused; `MaxInserts`
bounds the history. In `shared_list` two threads give every overlap of two calls, and three
nodes a middle and two ends. A removal that goes through a freed `prev` at the tail takes
three threads and is not reached; `RemoveFaults` states it with the other dereferences of
`ll_remove`. In `conference` `Room` (parts a stream takes after its client has stopped) lets
a packet stop halfway, and three clients let two messages meet at the third while that one
leaves; one of them is in the session twice and gets every message twice, which is why
`InOrderOnce` speaks of clients that join once; `Script` gives each its requests,
`MaxStalled` is the number of clients that stop. In `wire` the names are short and
`MaxName`, `HeaderRoom` and `TokenRoom` small, so that each is passed: names of 3, 4 and 5
characters just fit, fill their array and are cut. `MaxData` is, as in the code, more than a
line can fill and less than a request with four more behind it. In `pool` a third block lets
a slot be taken again while the thread of a freed block runs, and `MaxFailures = 2` lets two
blocks have socket -1. In `client` three requests are enough for a reply to come after its
time-out, to be read for the next request, and for an EXIT to share a `recv` with a request;
a second LOGIN starts the second listener. `Second = 6` and `MaxRtt = 2` give an accepted
time-out, one below zero and one too large.

*Symmetry* is used on connections, users and sockets, and on names when they share a
bucket; on entries and the two keys that share one in `hash_table`. No run with a
temporal property other than a safety property uses it.

*Deadlock* is not checked: a fault ends the model, the acceptor waits for ever once
login strings have filled the list, and bounded histories end.

*Fairness* is stated in three modules. In `ConnectionPool` the scheduler runs main and every
thread that is past its loop (weak fairness; nothing asks a client to come, to send a
request or to go). Weak fairness is enough for the mutex because only finitely many threads
can take it while main does not. In `ChatClient` the threads run, and so does the server's
thread when it has a LOGIN to answer (weak fairness of `Serve` and `Reply`, both of which
need the connection to be `served`). Nothing makes the server accept a connection, or answer
anything but a LOGIN: other replies have a time-out. `socketLock` goes to a thread that
waits for it if it is free again and again (strong fairness): a listener sleeps a
millisecond after every time-out, unlocked, for the main thread to come in
(`chatClient.c:52`). `CommandsReturn` and `ListenersEnd` make an exception of a lost lock,
and `CommandsReturn` of a LOGIN on a connection that is never accepted (`NotServed`): while
login strings of lost clients fill the list, `connect` succeeds through the backlog and the
`recv` of the LOGIN, which has no time-out yet (`chatClient.c:130`), blocks for ever. In
`Conference` the scheduler runs the threads (weak fairness); since requests are finitely
many, a thread that waits for a `socketLock` is not passed for ever. Nothing asks a client
to send or to stop.

## Proofs

`ChatServerProofs`, for any connections, users, names, buckets and bounds, from
`ServerAssumption`:

- `TypeCorrect`, `ChainsCorrect`: `TypeOK` and `ChainsInOrder` for every interleaving of the
  handlers between the calls they make; here and below a call that changes a list or the
  table is a step, so nothing is said of two that overlap. `TypeOK` is not inductive: EXIT
  may remove the entry that a look-up returns, and that this leaves the walk with listed,
  named entries rests on the buckets reaching only listed entries. `TableInv`, their
  conjunction, is inductive; `HtUnlinkKeepsTable` and the case of `CreateInsert` carry the
  argument.
- `BlocksCorrect`: `BlocksListed` is inductive relative to `TypeOK`; login strings
  come and go in the same list but are no blocks. LOGIN and EXIT run without the mutex,
  and once their calls overlap others, `SharedListProofs` (`SettledStays`,
  `StayersFound`) says what is left.
- `ExitFindsCorrect`: EXIT uses the node of its login string without asking whether
  `ll_find` found one, and as long as no two calls on the list overlap, it has, for every
  interleaving of the handlers of clients that log in before they send EXIT (`ExitFinds`,
  which no run states on its own; `LoginsHeld` implies it with `Serial`). `UniqueLogin` does
  not hold then, so two clients may have the same user; `OwnStrings` says that each has a
  string to itself all the same, and when one takes out the other's, the two have changed
  places.
- `LoginsCorrect`, `UniqueLoginCorrect` assume `Serial`. `LoginInv` adds to the two
  properties that one handler runs at a time, that between check and insert of a
  LOGIN its user is not listed, and that a block being filled has no user: without
  these, `LoginInsert` could list a user twice.

Its second part, on the sessions, with `Serial`:

- `FaultsFromLeaveCorrect`, for any placement of names and every request: `FaultInv` adds
  where the handlers point. A handler that is past its look-up points at a listed entry
  (`PointsListed`), since nobody else removes one meanwhile and EXIT goes on to an entry
  that it leaves listed (the read of the one it has had freed either is the fault, which
  `ExitOnFreed` names, or gives an entry that is listed); and of the listed entries only
  those with an empty list may have had it freed (`FreedEmpty`). So a freed list, when it is
  met, is one `FaultsFromLeave` names.
- `FindableCorrect`, `NoEmptySessionCorrect`, `SessionIDBackedCorrect`,
  `FaultsFromGoneCorrect` and `DropsOnlyLastCorrect` assume besides that no client sends
  LEAVE_SESS and that no two names share a bucket (`Injective`); both are needed, since
  LEAVE_SESS frees a list that stays in the table and `ht_remove` clears the bucket
  of all its sessions. `SessInv` is inductive: every session is alone in its bucket (`OneEach`), a
  creator has seen an empty one and whoever joins points at the session of the
  name (`Names`). With these a look-up gives exactly the session of that name (`FindExact`), so
  the second look-up of EXIT, by the key, removes the entry it has just emptied and no
  other (`DropsLast`). `SocketInv` says that no two open connections have one
  number, so the search by number finds the client itself or one that is closed.

`ConnectionPoolProofs`, for any limit, blocks, users and descriptors, from
`PoolAssumption` (a block is not the address of a login string, and neither is NULL):

- `NoWakeupLost`: main never waits while there is room unless a thread is about to
  signal; the steps that make room are `Exit`, which leaves its thread on the way to
  `ReleaseFree`, and `ReleaseFree`, which signals.
- `PoolTyped` and `BlocksKept`: `PoolInv` is the inductive invariant of both. A thread finds
  the block it frees by a socket number that another connection may have had before,
  and `ConnectedKept` alone does not say why that is not the block of a client. The
  reason is an order: `Listed` (every block is in the list once), `Filled` (the block main
  is filling is the youngest), and `Held` (a thread whose connection is open has a block, and
  no block behind it in the list has its number), so a search that starts at the head
  meets the older block first.
- `ConnectionsLimited`: every open descriptor belongs to a listed block; the list is never
  longer than the limit when a block is added.
- `SlotsKept`: a thread that frees another's block leaves one block without a thread and
  one thread without a block, so the two sets of `SlotsAccounted` grow together
  (`FreeAccounted`).

`ConferenceProofs`, for any clients, scripts and bounds, from `ConferenceAssumption`. All
three rest on `ThreadInv`: requests go from `Script` through `up` to `passing` in order,
and `rest` is the end of the bytes of `passing`.

- `WholeCorrect`: `WholeInv` adds that a thread which sends has the `socketLock` of the member
  (`LockInv`) and that half a packet it has sent is the last thing in the stream
  (`HalfInv`). Without the second, nothing says that the second half follows the first.
- `AckCorrect`: `StayInv` says of each client that has stayed that it has the message already,
  or is the member being sent to and has the first part of it, or has a node at
  the walk or after it. `MembersInv` (no node is twice in the list, a walk is at a node of the
  list unless that one was freed) keeps a node after the walk from being passed by
  when another is removed.
- `OrderCorrect`: `OrderInv` bounds what a client has from each sender by the place of the
  request that is being passed on, as long as the walk has not passed its node; one node per
  JOIN makes that node the only one.

`HashTableProofs`, for any keys, any placement in buckets and any finite set of addresses,
from `HashAssumption`:

- `WalkLinked`: a walk along a field is the sequence its pointers link. `Walk` is a
  recursive function; the lemma needs no induction rule, because the sequence gives a
  function that satisfies the same equation, and the two do not differ at a least place.
- `ListCorrect`, `TableImplemented`, `LookUpsKept`: `TableInv` is the inductive invariant.
  Beside the links both ways (`ListInv`) it says of every chain (`ChainsInv`) that its
  entries are allocated, have a key of the bucket, and a NULL `bucket_prev`: this is why
  `ht_remove`, which mixes up the two kinds of link, always empties the bucket and never
  writes into another. `InsertStep` and `RemoveStep` say what a call does to the list and
  the chains as sequences, and the refinement and `FoundUntilRemoved` follow from them
  alone.

`SharedListProofs`, for any threads, blocks, strings and any finite set of nodes, from
`SharedAssumption`:

- `SharedListCorrect`, `SharedListImplemented`: `ListWhole` and `ImplementsList`. The
  inductive invariant, `SharedInv`, says nothing once two calls have overlapped; before
  that there are two sequences, `q` along `next` from the head and `s` along `prev`
  to the tail, and `Between` says how they and `count` differ at every statement of
  `ll_insert` and `ll_remove`. `WholeIs` (with `WalkLinked`, as for the hash table) makes
  `q` what a walk meets. There is one lemma for a statement or a few alike
  (`LinkKeeps`, `UnlinkKeeps`, ...), each with the sequences before and after it,
  and `Follows` says that `q` stays, gets one node at its end or loses one.
- Why what is lost is the *first* node with the element, which `DataList` promises,
  depends on the searches: `ll_find` may run without the mutex while others
  insert, remove and free. `Searches` says of each that it goes on over a set `S` of
  nodes whose pointers lead nowhere but to `S`, NULL or a freed node, and stops in
  the list at none but the first node with its element; the set changes with every
  link that is written (`SearchLinked`, `SearchUnlinked`, `SearchFreed`).
- The rest, `CallsInv`, is what the callers see to: which call is at which statement,
  and that an element is taken out by one thread at a time (`Owners`, from the
  guards of `Call`); it keeps a node from being freed under a removal.
- `StayersFound`, `SettledStays`: `FindsStayers` and `SettledStay`, for every way in
  which any number of calls overlap. Then there is no sequence to speak of, and the
  invariant, `OrderInv`, speaks of an order instead. Some nodes are `live` (a link
  that somebody may still read leads to them), and of these some are `kept` (no thread is
  working on them). Each live node has a `rank`, which it gets when its insertion sets its
  `prev`, the statement at which insertions that overlap are told apart; until then it is
  `Pending` and comes after all others (`Reranked`). `next` leads up in rank, `prev` leads
  down, and neither passes over a kept node, unless it is `Dangling` (`Forward`,
  `Backward`, `EndsOut`). This survives two removals that write each other's
  neighbours and two insertions behind one tail, because each writes what it has read
  from a node it works on, and what that node links is never beyond the nearest kept one.
- Of each search that cannot miss its element, `Aims` says that it has a `goal`, a kept node
  with the element, and goes on over nodes up to its goal; or over nodes of its
  `past`, removed while it stood on them, whose links still lead there. A search
  can therefore end at its goal or at a freed node, never at NULL. `kept` shrinks when
  a removal finds its node; when a call ends and none has overlapped, `live` and `kept` are
  drawn up afresh from the sequence of `SharedInv` (`PruneOrdered`), which is how
  an element gets settled in the first place.
- `SettledStay` follows from `OrderInv` by the walk alone: its places have rising ranks,
  so it meets no node twice and ends within the number of nodes (`WalkEnds`), and the last
  place before a kept node leads to it or to a freed node.

`ChatClientProofs`: `TabInv` follows a session name from the request through
`outbox`, `pending` and `inbox` to the tab; `TabsGrantedCorrect` and
`StateOfTabCorrect` are two of its conjuncts. `OneReaderCorrect` needs it for one
thing: that no packet looks like the end of the stream. `OwnReplyCorrect` and
`ExitArrivesCorrect` rest on `ReplyInv`: until something is forwarded or comes late there
is one request in flight and it is in one place, on its way, with the server or
answered (`OneInFlight`), and a socket that is not open has nothing unread (`EndsInv`). That
no listener takes the answer is `OneReader`: main holds the lock while it waits.
`ClientTyped` is the types of all variables.

`WireProofs`, for any lines, names, sessions and password file and any room the buffer begins
with, from `TransportAssumption`, `DecimalAssumption` (sizes that differ are written in different
ways, and none as `:`; TLC evaluates it for the sizes of its instance, and of `sprintf` nothing else
is needed) and `WireAssumption`: lines and names are C strings; a clientID, which came back
from the server in `MAX_NAME` characters, has no more; and a line of at most `MAX_INPUT` (255)
characters leaves room in `MAX_DATA` (2048) for two of its tokens, or for it and a session:

- `TokensCorrect`: `LineInv`, that the tokens are those `parseTokens` returned for the line,
  is inductive, and the rest is about the operators. `FoldLeft`, `FlattenSeq` and the
  count of the places where tokens begin are each drawn up as the sequence of their partial
  results (`KeepsAt`, `FlattenAt`, `CountOrder`), and the induction goes along that
  sequence: `Kept`, the buffer holds the first tokens and has room for them, gives
  `ParseIs`, that the buffer returns just what `strtok_r` finds; and `JoinedTo`, the
  characters so far are the tokens so far and the beginning of the open one, gives
  `TokensJoined`, that only delimiters are lost.
- `RequestsArrive`: `RequestInv` says how the request came about (a LOGIN from the second
  and third token, a MESSAGE from the line) and that what is received begins with all of it
  or is cut; `OverrunInv` that a plain source leads to stage `overrun` only by too much
  behind the header. `OverrunBehind`: what a plain source overruns is `content`, for
  `clientId` gets the source and its NUL (`PlainColon`, `CutColon`). `IsPacket`, which each
  builder gives because its strings fit (`RequestIs`, `TextPacketIs`), is what the two
  lemmas about packets need. `CapacitySuffices`: the buffer, whose size multiplies what it
  should add, is large enough for any packet with data. `Decodes`: the third colon is the
  one behind the source (`SentColon`), and what is copied from there is the data, whatever
  comes behind (`SentIs`).
- `LoginsAgree`: `PartsIs`, two strings with one delimiter between them are the two tokens,
  is used both for the data of the packet and for the line of the file; the source that
  is read on into the data by `sprintf` still has no `:` in it (`LoginIs`).
- `ShownCorrect`: what is up to the first `;` is the tab and what is behind it, less its last
  character, the line less its last (`FirstPart`, `LastPart`), which the property takes to
  be the newline; that the member has the
  session in one of its tabs makes the greatest match the right one.

`ListFacts` proves what `RemoveFirst` and `Append` do to the elements of a sequence, and that
the pointers written for them link the new one.
`MinOfNats`, that a set of naturals has a least element, comes from the library's
well-foundedness of strict inclusion among finite sets.

`AllPlaces` is induction along an interval, over a set.

Only model-checked: `RoomServed`, `CommandsReturn`, `ListenersEnd` and `Answered`, since
the prover has no rule for liveness under fairness and ENABLED.

## Not modelled, and the plan

Not modelled: socket set-up and error output, which keep no state; what happens after an
array is overrun; the NUL that the `sprintf` of `getMessagePacket` writes behind a block of
just the right size; a part of a packet in the client's `recv`, and in the server's one that
ends within the header; requests of an EXIT before the first login; the texts of replies and
the buffers QUERY writes them to; `ll_free` and `ht_free`, which are called nowhere; the
pointers of the hash table and of the sessions' lists under several threads at once, access
by access, which no lock protects either (`SharedList` does this for `connections`, and
`ChatServer` cuts the handlers between their calls); a stream that loses or reorders bytes,
which TCP does not.

1. `ChatServer` (the core), its proofs: done.
2. `HashTable` refining `SessionTable`, `ConnectionPool`: done.
3. `SharedList` refining `DataList`: done.
4. `ChatClient` and its proofs: done.
5. `Transport`, `Wire`, `Hash`: done.
6. `Conference`: done.
7. Theorems of `ConnectionPool`, `Conference`, `HashTable` and `SharedList`: done.
8. Theorems of the sessions of `ChatServer`, and the replies of `ChatClient`: done.
9. Theorems of `SharedList` about calls that overlap: done.
10. Tokens, requests, logins and texts in `Wire`: done.
11. Socket numbers in the searches of `ChatServer`, arrays in `Transport`, a server that does
    not accept in `ChatClient`: done.
