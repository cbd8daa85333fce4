----------------------------- MODULE SharedList -----------------------------
(***************************************************************************)
(* The list `connections' as the threads of the server use it: ll_insert,  *)
(* ll_find and ll_remove of collections/linkedList.c, one statement a step *)
(* (two for `count++' and `count--').  getThreadInfo inserts a ThreadInfo  *)
(* block and releaseThread finds, removes and frees one with               *)
(* connectionsMutex held; LOGIN finds and inserts a login string and EXIT  *)
(* finds and removes one without it.  EXIT frees neither string nor node.  *)
(*                                                                         *)
(* Following NULL or reading a freed node sets `fault', after which        *)
(* anything may happen.                                                    *)
(***************************************************************************)
EXTENDS Integers, FiniteSets, SequencesExt

CONSTANTS
  Thread,   \* main and the threads of connections
  Block,    \* ThreadInfo blocks
  String,   \* login strings, each used by one user at a time
  Node,     \* addresses of nodes
  NULL,
  Dangling  \* a pointer to a node that has been freed since

ASSUME SharedAssumption ==
  /\ IsFiniteSet(Node)
  /\ Block \cap String = {}
  /\ NULL \notin Node \cup Thread \cup Block \cup String
  /\ Dangling \notin Node \cup {NULL}

Data == Block \cup String

VARIABLES
  head, tail, count,   \* the LinkedList
  next, prev, data,    \* the nodes
  free,                \* nodes calloc may hand out
  mutex,               \* the owner of connectionsMutex, or NULL
  pc,                  \* pc[t]: the statement thread t is at
  call,                \* call[t]: what the thread is doing
  elem,                \* elem[t]: the element it does that with
  node,                \* node[t]: `node' or `curr' of the call
  reg,                 \* reg[t]: the value of count read by `count++'
  owned,               \* elements inserted, and not passed to ll_remove
  stays,               \* stays[t]: elem[t] was owned since the search began
  overlap,             \* two calls that change the list have overlapped
  fault                \* NULL or a freed node was dereferenced

listVars == <<head, tail, count, next, prev, data, free>>
localVars == <<call, elem, node, reg>>
histVars == <<owned, stays, overlap>>
vars == <<listVars, mutex, pc, localVars, histVars, fault>>

Calls == {"none", "getThreadInfo", "releaseThread", "LOGIN", "EXIT"}
Label == {"idle", "lock", "find", "walk", "insert", "first", "firstTail", "firstLinks",
          "append", "appendPrev", "appendTail", "inc", "incStore",
          "remove", "cutTail", "cutLast", "joinPrev", "unlink", "newHead", "headPrev", "joinNext",
          "dec", "decStore", "free"}

(* The statements of ll_insert and of ll_remove.                           *)
Changing == Label \ {"idle", "lock", "find", "walk", "free"}

-----------------------------------------------------------------------------
(* The nodes met from `first' on along `link'; a walk that comes back to a *)
(* node is cut after more nodes than there are.                            *)
Walk(first, link) ==
  LET at[i \in 0 .. Cardinality(Node)] == IF i = 0 THEN first
                       ELSE LET n == at[i-1] IN IF n \in Node THEN link[n] ELSE n
      length == Cardinality({i \in 0 .. Cardinality(Node) : at[i] \in Node})
  IN  [i \in 1 .. length |-> at[i-1]]

List == Walk(head, next)

(* The elements the list holds for a caller.                               *)
Elements == LET q == List IN [i \in DOMAIN q |-> data[q[i]]]

ll_init ==
  /\ head = NULL /\ tail = NULL /\ count = 0
  /\ next = [n \in Node |-> NULL]
  /\ prev = [n \in Node |-> NULL]
  /\ data = [n \in Node |-> NULL]
  /\ free = Node

Init ==
  /\ ll_init
  /\ mutex = NULL
  /\ pc = [t \in Thread |-> "idle"]
  /\ call = [t \in Thread |-> "none"]
  /\ elem = [t \in Thread |-> NULL]
  /\ node = [t \in Thread |-> NULL]
  /\ reg = [t \in Thread |-> 0]
  /\ owned = {}
  /\ stays = [t \in Thread |-> FALSE]
  /\ overlap = FALSE /\ fault = FALSE

-----------------------------------------------------------------------------
(* A step of thread t from one statement to another.                       *)
Step(t, from, to) ==
  /\ ~fault
  /\ pc[t] = from
  /\ pc' = [pc EXCEPT ![t] = to]
  /\ overlap' = (overlap \/ (to \in Changing /\ \E u \in Thread \ {t} : pc[u] \in Changing))

(* A node that can be dereferenced.                                        *)
Valid(n) == n \in Node

(* Thread t dereferences n, NULL or a freed node.                          *)
Faults(t, from, n) ==
  /\ ~fault
  /\ pc[t] = from
  /\ ~Valid(n)
  /\ fault' = TRUE
  /\ UNCHANGED <<listVars, mutex, pc, localVars, histVars>>

Locks(t) == call[t] \in {"getThreadInfo", "releaseThread"}

(* A block is worked on by one thread at a time and a string by one EXIT;  *)
(* anybody may try to log in as its user.                                  *)
Available(d) ==
  \A t \in Thread : pc[t] # "idle" /\ elem[t] = d => d \in String /\ call[t] = "LOGIN"

(* Thread t begins to do c with element d.                                 *)
Call(t, c, d) ==
  /\ \/ c = "getThreadInfo" /\ d \in Block \ owned /\ Available(d)
     \/ c = "releaseThread" /\ d \in Block \cap owned /\ Available(d)
     \/ c = "LOGIN" /\ d \in String
     \/ c = "EXIT" /\ d \in String \cap owned /\ Available(d)
  /\ ~overlap
  /\ Step(t, "idle", IF d \in Block THEN "lock" ELSE "find")
  /\ call' = [call EXCEPT ![t] = c]
  /\ elem' = [elem EXCEPT ![t] = d]
  /\ UNCHANGED <<listVars, mutex, node, reg, owned, stays, fault>>

Lock(t) ==
  /\ mutex = NULL
  /\ mutex' = t
  /\ Step(t, "lock", IF call[t] = "getThreadInfo" THEN "insert" ELSE "find")
  /\ UNCHANGED <<listVars, localVars, owned, stays, fault>>

(* What was begun is over: the locals are gone, and the mutex is unlocked. *)
Returns(t) ==
  /\ mutex' = IF Locks(t) THEN NULL ELSE mutex
  /\ call' = [call EXCEPT ![t] = "none"]
  /\ elem' = [elem EXCEPT ![t] = NULL]
  /\ reg' = [reg EXCEPT ![t] = 0]

Return(t) ==
  /\ Returns(t)
  /\ node' = [node EXCEPT ![t] = NULL]

-----------------------------------------------------------------------------
(* ll_find.                                                                *)

(* Mutant: the search begins at the tail.                                  *)
FindTail(t) ==
  /\ Step(t, "find", "walk")
  /\ node' = [node EXCEPT ![t] = tail]
  /\ stays' = [stays EXCEPT ![t] = elem[t] \in owned]
  /\ UNCHANGED <<listVars, mutex, call, elem, reg, owned, fault>>

FindHead(t) ==
  /\ Step(t, "find", "walk")
  /\ node' = [node EXCEPT ![t] = head]
  /\ stays' = [stays EXCEPT ![t] = elem[t] \in owned]
  /\ UNCHANGED <<listVars, mutex, call, elem, reg, owned, fault>>

(* One iteration of the loop.                                              *)
FindNext(t) ==
  LET n == node[t]
  IN  /\ Step(t, "walk", "walk")
      /\ Valid(n) /\ data[n] # elem[t]
      /\ node' = [node EXCEPT ![t] = next[n]]
      /\ UNCHANGED <<listVars, mutex, call, elem, reg, owned, stays, fault>>

(* Its end: LOGIN is refused if the string was found and goes on to        *)
(* ll_insert if not; the others pass what was found to ll_remove.          *)
FindEnd(t) ==
  LET n == node[t]
  IN  \/ Faults(t, "walk", n) /\ (n = NULL => call[t] # "LOGIN")
      \/ /\ n = NULL \/ (Valid(n) /\ data[n] = elem[t])
         /\ \/ /\ n = NULL /\ call[t] = "LOGIN"
               /\ Step(t, "walk", "insert")
               /\ stays' = [stays EXCEPT ![t] = FALSE]
               /\ UNCHANGED <<mutex, localVars, owned>>
            \/ /\ n # NULL /\ call[t] = "LOGIN"
               /\ Step(t, "walk", "idle")
               /\ Return(t)
               /\ stays' = [stays EXCEPT ![t] = FALSE]
               /\ UNCHANGED owned
            \/ /\ n # NULL /\ call[t] # "LOGIN"
               /\ Step(t, "walk", "remove")
               /\ owned' = owned \ {elem[t]}
               /\ stays' = [u \in Thread |-> stays[u] /\ elem[u] # elem[t]]
               /\ UNCHANGED <<mutex, localVars>>
         /\ UNCHANGED <<listVars, fault>>

-----------------------------------------------------------------------------
(* ll_insert.                                                              *)

(* Mutant: calloc, and every node is taken for the first.                  *)
InsertAsFirst(t) ==
  /\ Step(t, "insert", "first")
  /\ free # {}
  /\ LET n == CHOOSE m \in free : TRUE
     IN  /\ free' = free \ {n}
         /\ node' = [node EXCEPT ![t] = n]
         /\ data' = [data EXCEPT ![n] = elem[t]]
         /\ next' = [next EXCEPT ![n] = NULL]
         /\ prev' = [prev EXCEPT ![n] = NULL]
  /\ UNCHANGED <<head, tail, count, mutex, call, elem, reg, owned, stays, fault>>

(* calloc, and `if(list->head == NULL)'.                                   *)
Insert(t) ==
  /\ Step(t, "insert", IF head = NULL THEN "first" ELSE "append")
  /\ free # {}
  /\ LET n == CHOOSE m \in free : TRUE
     IN  /\ free' = free \ {n}
         /\ node' = [node EXCEPT ![t] = n]
         /\ data' = [data EXCEPT ![n] = elem[t]]
         /\ next' = [next EXCEPT ![n] = NULL]
         /\ prev' = [prev EXCEPT ![n] = NULL]
  /\ UNCHANGED <<head, tail, count, mutex, call, elem, reg, owned, stays, fault>>

InsertFirst(t) ==
  /\ \/ /\ Step(t, "first", "firstTail")
        /\ head' = node[t]
        /\ UNCHANGED <<tail, next, prev>>
     \/ /\ Step(t, "firstTail", "firstLinks")
        /\ tail' = node[t]
        /\ UNCHANGED <<head, next, prev>>
     \/ /\ Step(t, "firstLinks", "inc")
        /\ next' = [next EXCEPT ![node[t]] = NULL]
        /\ prev' = [prev EXCEPT ![node[t]] = NULL]
        /\ UNCHANGED <<head, tail>>
  /\ UNCHANGED <<count, data, free, mutex, localVars, owned, stays, fault>>

(* Mutant: node->prev is not set.                                          *)
InsertLastUnbacked(t) ==
  \/ Faults(t, "append", tail)
  \/ /\ \/ /\ Step(t, "append", "appendPrev")
           /\ Valid(tail)
           /\ next' = [next EXCEPT ![tail] = node[t]]
           /\ UNCHANGED <<tail, prev>>
        \/ /\ Step(t, "appendPrev", "appendTail")
           /\ UNCHANGED <<tail, next, prev>>
        \/ /\ Step(t, "appendTail", "inc")
           /\ tail' = node[t]
           /\ UNCHANGED <<next, prev>>
     /\ UNCHANGED <<head, count, data, free, mutex, localVars, owned, stays, fault>>

(* Mutant: node->next is set where node->prev should be.                   *)
InsertLastSwapped(t) ==
  \/ Faults(t, "append", tail)
  \/ /\ \/ /\ Step(t, "append", "appendPrev")
           /\ Valid(tail)
           /\ next' = [next EXCEPT ![tail] = node[t]]
           /\ UNCHANGED <<tail, prev>>
        \/ /\ Step(t, "appendPrev", "appendTail")
           /\ next' = [next EXCEPT ![node[t]] = tail]
           /\ UNCHANGED <<tail, prev>>
        \/ /\ Step(t, "appendTail", "inc")
           /\ tail' = node[t]
           /\ UNCHANGED <<next, prev>>
     /\ UNCHANGED <<head, count, data, free, mutex, localVars, owned, stays, fault>>

InsertLast(t) ==
  \/ Faults(t, "append", tail)
  \/ /\ \/ /\ Step(t, "append", "appendPrev")
           /\ Valid(tail)
           /\ next' = [next EXCEPT ![tail] = node[t]]
           /\ UNCHANGED <<tail, prev>>
        \/ /\ Step(t, "appendPrev", "appendTail")
           /\ prev' = [prev EXCEPT ![node[t]] = tail]
           /\ UNCHANGED <<tail, next>>
        \/ /\ Step(t, "appendTail", "inc")
           /\ tail' = node[t]
           /\ UNCHANGED <<next, prev>>
     /\ UNCHANGED <<head, count, data, free, mutex, localVars, owned, stays, fault>>

(* count++, and the return.                                                *)
CountUp(t) ==
  /\ \/ /\ Step(t, "inc", "incStore")
        /\ reg' = [reg EXCEPT ![t] = count]
        /\ UNCHANGED <<count, owned, mutex, call, elem, node>>
     \/ /\ Step(t, "incStore", "idle")
        /\ count' = reg[t] + 1
        /\ owned' = IF overlap THEN owned ELSE owned \cup {elem[t]}
        /\ Return(t)
  /\ UNCHANGED <<head, tail, next, prev, data, free, stays, fault>>

-----------------------------------------------------------------------------
(* ll_remove of node[t].                                                   *)

(* A neighbour that is gone: another removal has freed it, or has cut it   *)
(* off since `if(node->next == NULL)' or `if(node->prev == NULL)'.         *)
RemoveFaults(t) ==
  /\ pc[t] \in {"joinPrev", "cutLast", "headPrev", "joinNext"}
  /\ LET used == IF pc[t] \in {"joinPrev", "headPrev"} THEN next[node[t]] ELSE prev[node[t]]
     IN  /\ used = NULL => pc[t] \in {"joinPrev", "joinNext"}
         /\ Faults(t, pc[t], used)

(* The node behind it, or the end of the list.                             *)
RemoveBehind(t) ==
  LET n == node[t]
  IN  /\ \/ /\ Step(t, "remove", IF next[n] = NULL THEN "cutTail" ELSE "joinPrev")
            /\ UNCHANGED <<tail, next, prev>>
         \/ /\ Step(t, "cutTail", "cutLast")
            /\ tail' = prev[n]
            /\ UNCHANGED <<next, prev>>
         \/ /\ Step(t, "cutLast", "unlink")
            /\ prev[n] = NULL \/ Valid(prev[n])
            /\ next' = IF prev[n] = NULL THEN next ELSE [next EXCEPT ![prev[n]] = NULL]
            /\ UNCHANGED <<tail, prev>>
         \/ /\ Step(t, "joinPrev", "unlink")
            /\ Valid(next[n])
            /\ prev' = [prev EXCEPT ![next[n]] = prev[n]]
            /\ UNCHANGED <<tail, next>>
      /\ UNCHANGED <<head, count, data, free, mutex, localVars, owned, stays, fault>>

(* Mutant: the node before it becomes the last.                            *)
RemoveBeforeCuts(t) ==
  LET n == node[t]
  IN  /\ \/ /\ Step(t, "unlink", IF prev[n] = NULL THEN "newHead" ELSE "joinNext")
            /\ UNCHANGED <<head, next, prev>>
         \/ /\ Step(t, "newHead", "headPrev")
            /\ head' = next[n]
            /\ UNCHANGED <<next, prev>>
         \/ /\ Step(t, "headPrev", "dec")
            /\ next[n] = NULL \/ Valid(next[n])
            /\ prev' = IF next[n] = NULL THEN prev ELSE [prev EXCEPT ![next[n]] = NULL]
            /\ UNCHANGED <<head, next>>
         \/ /\ Step(t, "joinNext", "dec")
            /\ Valid(prev[n])
            /\ next' = [next EXCEPT ![prev[n]] = NULL]
            /\ UNCHANGED <<head, prev>>
      /\ UNCHANGED <<tail, count, data, free, mutex, localVars, owned, stays, fault>>

(* The node before it, or the start of the list.                           *)
RemoveBefore(t) ==
  LET n == node[t]
  IN  /\ \/ /\ Step(t, "unlink", IF prev[n] = NULL THEN "newHead" ELSE "joinNext")
            /\ UNCHANGED <<head, next, prev>>
         \/ /\ Step(t, "newHead", "headPrev")
            /\ head' = next[n]
            /\ UNCHANGED <<next, prev>>
         \/ /\ Step(t, "headPrev", "dec")
            /\ next[n] = NULL \/ Valid(next[n])
            /\ prev' = IF next[n] = NULL THEN prev ELSE [prev EXCEPT ![next[n]] = NULL]
            /\ UNCHANGED <<head, next>>
         \/ /\ Step(t, "joinNext", "dec")
            /\ Valid(prev[n])
            /\ next' = [next EXCEPT ![prev[n]] = next[n]]
            /\ UNCHANGED <<head, prev>>
      /\ UNCHANGED <<tail, count, data, free, mutex, localVars, owned, stays, fault>>

(* count--, and the return from EXIT; releaseThread goes on to free.       *)
CountDown(t) ==
  /\ \/ /\ Step(t, "dec", "decStore")
        /\ reg' = [reg EXCEPT ![t] = count]
        /\ UNCHANGED <<count, mutex, call, elem, node>>
     \/ /\ count' = reg[t] - 1
        /\ IF call[t] = "EXIT"
           THEN Step(t, "decStore", "idle") /\ Return(t)
           ELSE Step(t, "decStore", "free") /\ UNCHANGED <<mutex, localVars>>
  /\ UNCHANGED <<head, tail, next, prev, data, free, owned, stays, fault>>

(* Pointers to the node dangle, even when calloc hands it out again; what  *)
(* was in it nobody reads any more, short of a fault.                      *)
FreeNode(t) ==
  LET Freed(p) == IF p = node[t] THEN Dangling ELSE p
      FreedIn(f) == [m \in Node |-> IF m = node[t] THEN NULL ELSE Freed(f[m])]
  IN  /\ Step(t, "free", "idle")
      /\ free' = free \cup {node[t]}
      /\ head' = Freed(head) /\ tail' = Freed(tail)
      /\ next' = FreedIn(next) /\ prev' = FreedIn(prev)
      /\ data' = [data EXCEPT ![node[t]] = NULL]
      /\ node' = [u \in Thread |-> IF u = t THEN NULL ELSE Freed(node[u])]
      /\ Returns(t)
      /\ UNCHANGED <<count, owned, stays, fault>>

-----------------------------------------------------------------------------
Next ==
  \E t \in Thread :
    \/ \E c \in Calls, d \in Data : Call(t, c, d)
    \/ Lock(t)
    \/ FindHead(t) \/ FindNext(t) \/ FindEnd(t)
    \/ Insert(t) \/ InsertFirst(t) \/ InsertLast(t) \/ CountUp(t)
    \/ RemoveFaults(t) \/ RemoveBehind(t) \/ RemoveBefore(t)
    \/ CountDown(t) \/ FreeNode(t)

Spec == Init /\ [][Next]_vars

-----------------------------------------------------------------------------
Implements == INSTANCE DataList WITH q <- Elements, damaged <- overlap

(* As long as no two calls that change the list overlap, what a walk from  *)
(* the head meets changes as a sequence does: one statement of ll_insert   *)
(* appends an element, one of ll_remove takes the first such out, and no   *)
(* other statement of any call is noticed, whatever searches run meanwhile.*)
ImplementsList == Implements!Spec

(* Between calls that change the list and never overlapped, `count' (which *)
(* getThreadInfo compares with MAX_CONNECTIONS) is the number of nodes,    *)
(* and the way back from the tail is the way from the head reversed.       *)
ListWhole ==
  ~overlap /\ (\A t \in Thread : pc[t] \notin Changing) =>
    /\ count = Len(List)
    /\ Walk(tail, prev) = Reverse(List)

(* ll_find never ends without an element that was in the list when the     *)
(* search began and that nobody has taken out since, even when it walks    *)
(* through a removal or an insertion of another thread, or through two that*)
(* overlap: the search that releaseThread and EXIT hand on to ll_remove    *)
(* does not return NULL, and LOGIN never misses the string of a user logged*)
(* in all the while.                                                       *)
FindsStayers ==
  \A t \in Thread : pc[t] = "walk" /\ node[t] = NULL => ~stays[t]

(* Calls that overlap may lose the elements they insert or keep those they *)
(* remove, but they never tie the list into a ring that a walk from the    *)
(* head goes round for ever, and do not cut off an element that settled in *)
(* it before: or a freed node is left at the end, and the next walk faults.*)
SettledStay ==
  LET q == List
      end == IF q = <<>> THEN head ELSE next[Last(q)]
  IN  /\ end \notin Node
      /\ end = Dangling \/ owned \subseteq {data[q[i]] : i \in DOMAIN q}
=============================================================================
