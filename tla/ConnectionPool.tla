--------------------------- MODULE ConnectionPool ---------------------------
(***************************************************************************)
(* How server.c shares its connection slots: main waits in getThreadInfo   *)
(* for room in the list `connections', accepts a client and starts its     *)
(* thread; the thread closes the socket and frees its slot in              *)
(* releaseThread.  The two meet in connectionsMutex and connectionsCond.   *)
(* releaseThread looks for its block by socket number, and the kernel gives*)
(* the lowest free number out again as soon as close returns.  LOGIN and   *)
(* EXIT add and remove strings of the same list without the mutex; the rest*)
(* of the handlers is in ChatServer.                                       *)
(***************************************************************************)
EXTENDS Naturals, Integers, FiniteSets, SequencesExt

CONSTANTS
  Block,           \* addresses of ThreadInfo blocks
  User,            \* users that log in
  Fd,              \* descriptors the kernel has to give, positive numbers
  MaxConnections,  \* MAX_CONNECTIONS
  MaxFailures,     \* bound: calls of accept and pthread_create that fail
  None             \* no block, no user, no owner of the mutex

ASSUME PoolAssumption ==
  /\ Fd \subseteq Nat \ {0}
  /\ MaxConnections \in Nat \ {0}
  /\ MaxFailures \in Nat
  /\ {None, "main"} \cap (Block \cup User) = {} /\ Block \cap User = {} /\ None # "main"

VARIABLES
  main,       \* where main is: "lock", "check", "wait" or "accept"
  current,    \* the block main accepts a client for
  mutex,      \* the owner of connectionsMutex: None, "main" or a block
  signalled,  \* connectionsCond was signalled since main began to wait
  pc,         \* pc[b]: where the thread of b is; "none": there is no thread
  socket,     \* socket[b]: 0 from calloc, -1 when accept failed
  clientID,   \* clientID[b]: who is logged in
  elem,       \* elem[b]: the block in the node releaseThread found
  live,       \* blocks not freed
  list,       \* connections: blocks and login strings
  open,       \* open descriptors
  failures,   \* failed calls of accept and pthread_create
  fault       \* a freed block was used, or a node that was not found

mainVars == <<main, current>>
lockVars == <<mutex, signalled>>
blockVars == <<pc, socket, clientID, elem, live>>
vars == <<mainVars, lockVars, blockVars, list, open, failures, fault>>

Init ==
  /\ main = "lock" /\ current = None
  /\ mutex = None /\ signalled = FALSE
  /\ pc = [b \in Block |-> "none"]
  /\ socket = [b \in Block |-> 0]
  /\ clientID = [b \in Block |-> None]
  /\ elem = [b \in Block |-> None]
  /\ live = {} /\ list = <<>> /\ open = {} /\ failures = 0
  /\ fault = FALSE

-----------------------------------------------------------------------------
(* The mutex, the condition and the limit.                                 *)

(* Mutant: the mutex stays locked.                                         *)
StaysLocked == UNCHANGED mutex

Unlock == mutex' = None

(* Mutant: nobody is woken.                                                *)
NoSignal == UNCHANGED signalled

Signal == signalled' = (signalled \/ main = "wait")

(* Mutant: one connection too many.                                        *)
FullPast == Len(list) > MaxConnections

(* connections->count is taken to be the length of the list, as it is while*)
(* no two of the unlocked count++ and count-- overlap (SharedList).        *)
Full == Len(list) >= MaxConnections

-----------------------------------------------------------------------------
(* main: getThreadInfo, then accept.                                       *)

Lock ==
  /\ ~fault /\ main = "lock" /\ mutex = None
  /\ main' = "check" /\ mutex' = "main"
  /\ UNCHANGED <<current, signalled, blockVars, list, open, failures, fault>>

TakeBlock ==
  /\ ~fault /\ main = "check" /\ ~Full
  /\ \E b \in Block \ live :
       /\ pc[b] = "none"
       /\ live' = live \cup {b}
       /\ socket' = [socket EXCEPT ![b] = 0]
       /\ clientID' = [clientID EXCEPT ![b] = None]
       /\ list' = Append(list, b)
       /\ current' = b
  /\ main' = "accept"
  /\ Unlock
  /\ UNCHANGED <<signalled, pc, elem, open, failures, fault>>

(* pthread_cond_wait unlocks the mutex.                                    *)
Wait ==
  /\ ~fault /\ main = "check" /\ Full
  /\ main' = "wait" /\ signalled' = FALSE
  /\ Unlock
  /\ UNCHANGED <<current, blockVars, list, open, failures, fault>>

Wake ==
  /\ ~fault /\ main = "wait" /\ signalled
  /\ main' = "lock"
  /\ UNCHANGED <<current, lockVars, blockVars, list, open, failures, fault>>

(* pthread_cond_wait may return for no reason.                             *)
SpuriousWake ==
  /\ ~fault /\ main = "wait" /\ ~signalled
  /\ main' = "lock"
  /\ UNCHANGED <<current, lockVars, blockVars, list, open, failures, fault>>

(* accept returns socket s, and main goes on to the next connection.       *)
FillBlock(s) ==
  /\ ~fault /\ main = "accept"
  /\ socket' = [socket EXCEPT ![current] = s]
  /\ main' = "lock" /\ current' = None
  /\ UNCHANGED <<lockVars, clientID, elem, live, list>>

(* The thread of the block starts.                                         *)
StartThread(s) ==
  /\ FillBlock(s)
  /\ pc' = [pc EXCEPT ![current] = "recv"]
  /\ UNCHANGED fault

(* The kernel gives out the lowest free descriptor.                        *)
Opens(s) ==
  /\ s \in Fd \ open /\ \A f \in Fd \ open : s <= f
  /\ open' = open \cup {s}

Accept ==
  \E s \in Fd :
    /\ Opens(s)
    /\ StartThread(s)
    /\ UNCHANGED failures

(* The result of pthread_create is not looked at.  pthread_detach of the   *)
(* thread that is not there may crash; if not, block and socket stay.      *)
ThreadFails ==
  \E s \in Fd :
    /\ failures < MaxFailures
    /\ Opens(s)
    /\ FillBlock(s)
    /\ failures' = failures + 1
    /\ fault' \in BOOLEAN
    /\ UNCHANGED pc

(* An error other than EINTR does not keep the thread from starting.       *)
AcceptFails ==
  /\ failures < MaxFailures
  /\ StartThread(-1)
  /\ failures' = failures + 1
  /\ UNCHANGED open

-----------------------------------------------------------------------------
(* The thread of block b.  Its steps read the block.                       *)

At(b, label) == ~fault /\ pc[b] = label /\ b \in live

Login(b, u) ==
  /\ At(b, "recv") /\ socket[b] # -1
  /\ u \notin ToSet(list)
  /\ clientID' = [clientID EXCEPT ![b] = u]
  /\ list' = Append(list, u)
  /\ UNCHANGED <<mainVars, lockVars, pc, socket, elem, live, open, failures, fault>>

(* EXIT of a client that is logged in.                                     *)
Exit(b) ==
  /\ At(b, "recv") /\ clientID[b] # None
  /\ list' = RemoveFirst(list, clientID[b])
  /\ pc' = [pc EXCEPT ![b] = "close"]
  /\ UNCHANGED <<mainVars, lockVars, socket, clientID, elem, live, open, failures, fault>>

(* Mutant: the thread of a lost client returns without releaseThread.      *)
LoseReturns(b) ==
  /\ At(b, "recv")
  /\ pc' = [pc EXCEPT ![b] = "none"]
  /\ UNCHANGED <<mainVars, lockVars, socket, clientID, elem, live, list, open, failures, fault>>

(* recv returns 0 or fails.  A login string stays.                         *)
Lose(b) ==
  /\ At(b, "recv")
  /\ pc' = [pc EXCEPT ![b] = "close"]
  /\ UNCHANGED <<mainVars, lockVars, socket, clientID, elem, live, list, open, failures, fault>>

Close(b) ==
  /\ At(b, "close")
  /\ open' = open \ {socket[b]}
  /\ pc' = [pc EXCEPT ![b] = "release"]
  /\ UNCHANGED <<mainVars, lockVars, socket, clientID, elem, live, list, failures, fault>>

(* Mutant: the search keeps the last match.                                *)
FoundLast(b) ==
  LET Matches == {i \in DOMAIN list : list[i] \in Block /\ socket[list[i]] = socket[b]}
  IN  IF Matches = {} THEN None ELSE list[Max(Matches)]

(* ll_find with threadInfoComparer: the first block with the socket of b.  *)
Found(b) ==
  LET Matches == {i \in DOMAIN list : list[i] \in Block /\ socket[list[i]] = socket[b]}
  IN  IF Matches = {} THEN None ELSE list[Min(Matches)]

(* Mutant: the search does not take the mutex.                             *)
ReleaseFindUnlocked(b) ==
  /\ At(b, "release")
  /\ elem' = [elem EXCEPT ![b] = Found(b)]
  /\ pc' = [pc EXCEPT ![b] = "free"]
  /\ UNCHANGED <<mainVars, lockVars, socket, clientID, live, list, open, failures, fault>>

ReleaseFind(b) ==
  /\ At(b, "release") /\ mutex = None
  /\ mutex' = b
  /\ elem' = [elem EXCEPT ![b] = Found(b)]
  /\ pc' = [pc EXCEPT ![b] = "free"]
  /\ UNCHANGED <<mainVars, signalled, socket, clientID, live, list, open, failures, fault>>

(* ll_remove, free, pthread_cond_signal and unlock.                        *)
ReleaseFree(b) ==
  /\ ~fault /\ pc[b] = "free" /\ elem[b] # None
  /\ list' = RemoveFirst(list, elem[b])
  /\ live' = live \ {elem[b]}
  /\ elem' = [elem EXCEPT ![b] = None]
  /\ Signal
  /\ Unlock
  /\ pc' = [pc EXCEPT ![b] = "none"]
  /\ UNCHANGED <<mainVars, socket, clientID, open, failures, fault>>

(* The thread reads its block after another thread has freed it.           *)
UseFreed(b) ==
  /\ ~fault /\ pc[b] \in {"recv", "close", "release"} /\ b \notin live
  /\ fault' = TRUE
  /\ UNCHANGED <<mainVars, lockVars, blockVars, list, open, failures>>

-----------------------------------------------------------------------------
Main == Lock \/ TakeBlock \/ Wait \/ Wake
Leave(b) == Close(b) \/ ReleaseFind(b) \/ ReleaseFree(b)

Next ==
  \/ Main \/ SpuriousWake \/ Accept \/ AcceptFails \/ ThreadFails
  \/ \E b \in Block : \/ \E u \in User : Login(b, u)
                      \/ Exit(b) \/ Lose(b) \/ Leave(b) \/ UseFreed(b)

(* The scheduler runs main and every thread that is on its way out.  A     *)
(* client may stay, and none may come, for ever.                           *)
Fairness == WF_vars(Main) /\ \A b \in Block : WF_vars(Leave(b))

Spec == Init /\ [][Next]_vars /\ Fairness

-----------------------------------------------------------------------------
(* Every variable has its type; a thread that is about to free a node has  *)
(* found one and has the mutex.                                            *)
TypeOK ==
  /\ main \in {"lock", "check", "wait", "accept"}
  /\ current \in Block \cup {None} /\ (main = "accept" <=> current # None)
  /\ mutex \in Block \cup {None, "main"} /\ (main = "check" <=> mutex = "main")
  /\ signalled \in BOOLEAN
  /\ pc \in [Block -> {"none", "recv", "close", "release", "free"}]
  /\ socket \in [Block -> Fd \cup {0, -1}]
  /\ clientID \in [Block -> User \cup {None}]
  /\ elem \in [Block -> Block \cup {None}]
  /\ \A b \in Block : pc[b] = "free" <=> elem[b] # None /\ mutex = b
  /\ live \subseteq Block /\ list \in Seq(Block \cup User) /\ open \subseteq Fd
  /\ failures \in 0 .. MaxFailures /\ fault \in BOOLEAN

(* A block whose client is connected is not freed: when its descriptor was *)
(* another thread's before, the block of that one is ahead of it in the    *)
(* list, and is found first.                                               *)
ConnectedKept ==
  \A b \in Block : pc[b] \in {"recv", "close"} /\ socket[b] # -1 => b \in live

(* "prevent the server from exceeding the Maximum number of connections",  *)
(* also when threads release each other's blocks; the length of the list   *)
(* stands for count, see Full.                                             *)
ConnectionsBounded == Cardinality(open) <= MaxConnections

(* No wakeup is lost: while there is room, main either waits no longer, is *)
(* signalled, or a thread is on its way to signal it.                      *)
NoLostWakeup ==
  main = "wait" /\ ~signalled /\ Len(list) < MaxConnections =>
    \E b \in Block : pc[b] \in {"close", "release", "free"}

(* A slot without a thread that will free it is the price of a failed      *)
(* pthread_create, or else another thread has lost its block to it: threads*)
(* that release each other's blocks lose no slot.                          *)
SlotsAccounted ==
  LET abandoned == {b \in live : pc[b] = "none" /\ b # current}
      blockless == {b \in Block \ live : pc[b] # "none"}
  IN  Cardinality(abandoned) <= Cardinality(blockless) + failures

(* If the list has room for good, main gets to accept again and again.     *)
RoomServed ==
  <>[](~fault /\ Len(list) < MaxConnections) => []<>(main = "accept")

(* A thread frees its own block ("Find the current connection in the linked*)
(* list, remove it"), unless its accept failed.                            *)
ReleasesOwn ==
  \A b \in Block : pc[b] = "free" /\ socket[b] # -1 => elem[b] = b
=============================================================================
