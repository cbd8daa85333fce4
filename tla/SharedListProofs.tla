-------------------------- MODULE SharedListProofs --------------------------
(***************************************************************************)
(* Theorems about SharedList, for any threads, blocks, strings and nodes:  *)
(* what the list is as long as no two calls that change it overlap, and    *)
(* what it still is when they do.                                          *)
(***************************************************************************)
EXTENDS SharedList, ListFacts

Inserting == {"insert", "first", "firstTail", "firstLinks", "append", "appendPrev", "appendTail",
              "inc", "incStore"}
Removing == {"remove", "cutTail", "cutLast", "joinPrev", "unlink", "newHead", "headPrev",
             "joinNext", "dec", "decStore", "free"}

(* Nodes no pointer of the list leads to: those calloc may hand out, and   *)
(* one that an insertion has just got.                                     *)
Unlinked == free \cup {node[t] : t \in {u \in Thread : pc[u] \in {"first", "append"}}}

-----------------------------------------------------------------------------
Typed ==
  /\ pc \in [Thread -> Label] /\ call \in [Thread -> Calls]
  /\ elem \in [Thread -> Data \cup {NULL}]
  /\ node \in [Thread -> Node \cup {NULL, Dangling}]
  /\ reg \in [Thread -> Int] /\ count \in Int
  /\ next \in [Node -> Node \cup {NULL, Dangling}]
  /\ prev \in [Node -> Node \cup {NULL, Dangling}]
  /\ data \in [Node -> Data \cup {NULL}]
  /\ free \subseteq Node

(* What the thread t does fits the statement it is at.                     *)
CallFits(t) ==
  /\ pc[t] # "idle" => elem[t] \in Data /\ (Locks(t) <=> elem[t] \in Block)
  /\ pc[t] = "lock" => Locks(t)
  /\ pc[t] \in {"find", "walk"} => call[t] \in {"releaseThread", "LOGIN", "EXIT"}
  /\ pc[t] \in Inserting => call[t] \in {"getThreadInfo", "LOGIN"}
  /\ pc[t] \in Removing => call[t] \in {"releaseThread", "EXIT"}
  /\ pc[t] = "free" => call[t] = "releaseThread"

CallsFit == \A t \in Thread : CallFits(t)

(* Two threads work on one element only when it is a string and one of them*)
(* is a LOGIN: an element is taken out by one thread at a time.            *)
Owners ==
  \A t, u \in Thread :
    t # u /\ pc[t] # "idle" /\ pc[u] # "idle" /\ elem[t] = elem[u] =>
      elem[t] \in String /\ (call[t] = "LOGIN" \/ call[u] = "LOGIN")

Alone == \A t, u \in Thread : pc[t] \in Changing /\ pc[u] \in Changing => t = u

(* The statements between which a thread has a node of its own.            *)
Working == (Changing \ {"insert"}) \cup {"free"}

(* A thread that has got or found a node works on one with its element.    *)
Hands ==
  \A t \in Thread :
    pc[t] \in (Changing \ {"insert"}) \cup {"free"} =>
      node[t] \in Node \ free /\ data[node[t]] = elem[t]

CallsInv == Typed /\ CallsFit /\ Owners /\ Alone /\ Hands

-----------------------------------------------------------------------------
(* The node n is the first with d in the list q, and out of s.             *)
First(q, n, d, k) == q[k] = n /\ \A j \in 1 .. k-1 : data[q[j]] # d
InBoth(q, s, n, d) ==
  s = q /\ count = Len(q) /\ \E k \in 1 .. Len(q) : First(q, n, d, k)
InForth(q, s, n, d) ==
  /\ count = Len(q)
  /\ \E k \in 1 .. Len(q) :
       First(q, n, d, k) /\ s = RemoveAt(q, k) /\ prev[n] = IF k = 1 THEN NULL ELSE q[k-1]
Out(q, s, n) == s = q /\ count = Len(q) + 1 /\ n \notin ToSet(q)

(* What is between the statements of ll_insert and ll_remove.              *)
Inserts(t, q, s) ==
  LET n == node[t]
  IN  /\ pc[t] = "insert" => s = q /\ count = Len(q)
      /\ pc[t] \in {"first", "append"} =>
           s = q /\ count = Len(q) /\ next[n] = NULL /\ prev[n] = NULL
      /\ pc[t] = "first" => q = <<>>
      /\ pc[t] = "append" => q # <<>>
      /\ pc[t] = "firstTail" => q = <<n>> /\ s = <<>> /\ count = 0 /\ prev[n] = NULL
      /\ pc[t] = "firstLinks" => q = <<n>> /\ s = q /\ count = 0
      /\ pc[t] \in {"appendPrev", "appendTail"} =>
           q = Append(s, n) /\ n \notin ToSet(s) /\ count = Len(s)
      /\ pc[t] = "appendTail" => prev[n] = tail
      /\ pc[t] \in {"inc", "incStore"} => s = q /\ count + 1 = Len(q) /\ n \in ToSet(q)
      /\ pc[t] = "incStore" => reg[t] = count

Removes(t, q, s) ==
  LET n == node[t]
      d == elem[t]
      InTail == /\ Out(q, s, n) /\ q # <<>>
                /\ next[n] = NULL /\ prev[n] = q[Len(q)]
  IN  /\ pc[t] \in {"remove", "cutTail", "joinPrev"} => InBoth(q, s, n, d)
      /\ pc[t] \in {"cutTail", "cutLast"} => next[n] = NULL
      /\ pc[t] \in {"cutLast", "newHead"} => InForth(q, s, n, d)
      /\ pc[t] \in {"unlink", "joinNext"} => InForth(q, s, n, d) \/ InTail
      /\ pc[t] = "newHead" => prev[n] = NULL
      /\ pc[t] = "joinNext" => prev[n] # NULL
      /\ pc[t] = "headPrev" => Out(q, s, n) /\ next[n] = head
      /\ pc[t] \in {"dec", "decStore"} => Out(q, s, n)
      /\ pc[t] = "decStore" => reg[t] = count

Links(q, s) ==
  /\ q \in Seq(Node) /\ Once(q, Node) /\ Linked(q, head, next, NULL)
  /\ s \in Seq(Node) /\ Once(s, Node) /\ Backed(s, tail, prev, NULL)
  /\ ToSet(s) \subseteq ToSet(q)
  /\ \A n \in ToSet(q) : n \notin Unlinked /\ data[n] \in Data
  /\ \A t \in Thread : pc[t] = "free" => node[t] \notin ToSet(q)

Between(q, s) ==
  /\ (\A t \in Thread : pc[t] \notin Changing) => s = q /\ count = Len(q)
  /\ \A t \in Thread : pc[t] \in Changing => Inserts(t, q, s) /\ Removes(t, q, s)

(* A search for d that has come to n goes on over nodes of S, and stops at *)
(* none but the first node with d in the list q.                           *)
Search(S, n, d, q) ==
  /\ S \subseteq Node \ Unlinked /\ n \in S \cup {NULL, Dangling}
  /\ \A x \in S : data[x] # d => next[x] \in S \cup {NULL, Dangling}
  /\ \A x \in S : data[x] = d => x \in ToSet(q)
  /\ \A i \in 1 .. Len(q) : q[i] \in S => \A j \in 1 .. i-1 : data[q[j]] # d

Walking(t) == pc[t] = "walk" /\ call[t] # "LOGIN"
Led(t, q) == \E S \in SUBSET Node : Search(S, node[t], elem[t], q)
Searches(q) == \A t \in Thread : Walking(t) => Led(t, q)

Whole(q, s) == Links(q, s) /\ Between(q, s) /\ Searches(q)

(* As long as no two calls overlapped there are such a q, which is what a  *)
(* walk from the head meets, and s, what one from the tail does, turned    *)
(* round: see WholeIs.                                                     *)
SharedInv == ~overlap => CallsInv /\ \E q, s : Whole(q, s)

-----------------------------------------------------------------------------
(* A walk over linked nodes meets them in order.  `at' is the recursive    *)
(* function of Walk: `met' satisfies its equation, so it does too, and it  *)
(* is `met': they do not differ at a least place.                          *)
LEMMA WalkLinked ==
  ASSUME NEW q \in Seq(Node), Once(q, Node), NEW first, NEW link, Linked(q, first, link, NULL)
  PROVE  Walk(first, link) = q
<1>. DEFINE N == Cardinality(Node)
            Follow(n) == IF n \in Node THEN link[n] ELSE n
            at == CHOOSE g : g = [i \in 0 .. N |-> IF i = 0 THEN first
                                 ELSE LET n == g[i-1] IN IF n \in Node THEN link[n] ELSE n]
            length == Cardinality({i \in 0 .. N : at[i] \in Node})
            met == [i \in 0 .. N |-> IF i < Len(q) THEN q[i+1] ELSE NULL]
<1>1. Walk(first, link) = [i \in 1 .. length |-> at[i-1]]
  BY DEF Walk
<1>2. Len(q) \in Nat /\ DOMAIN q = 1 .. Len(q) /\ \A i \in 1 .. Len(q) : q[i] \in Node
  BY LenProperties, ElementOfSeq
<1>3. \A i \in 0 .. N : met[i] = IF i < Len(q) THEN q[i+1] ELSE NULL
  OBVIOUS
<1>4. N \in Nat /\ Len(q) \in Nat /\ Len(q) <= N
  BY OnceLength, FS_CardinalityType, SharedAssumption, <1>2
<1>. HIDE DEF met, at, length, N
<1>5. met[0] = first
  <2>1. 0 < Len(q) <=> Len(q) # 0
    BY <1>4
  <2>. QED  BY <1>3, <1>4, <2>1 DEF Linked
<1>6. ASSUME NEW i \in 0 .. N, i # 0  PROVE met[i] = Follow(met[i-1])
  <2>0. i # 0 /\ i \in Nat /\ i - 1 \in 0 .. N
    BY <1>4, <1>6
  <2>1. CASE i < Len(q)
    <3>1. i \in 1 .. Len(q) /\ i # Len(q) /\ i - 1 < Len(q) /\ (i-1) + 1 = i
      BY <1>4, <2>0, <2>1
    <3>2. met[i-1] = q[i] /\ met[i] = q[i+1]
      BY <1>3, <2>0, <2>1, <3>1
    <3>3. link[q[i]] = q[i+1]
      BY <3>1 DEF Linked
    <3>. QED  BY <1>2, <3>1, <3>2, <3>3
  <2>2. CASE i = Len(q)
    <3>1. i \in 1 .. Len(q) /\ i - 1 < Len(q) /\ (i-1) + 1 = i /\ ~(i < Len(q))
      BY <1>4, <2>0, <2>2
    <3>2. met[i-1] = q[i] /\ met[i] = NULL
      BY <1>3, <2>0, <3>1
    <3>3. link[q[i]] = NULL
      BY <2>2, <3>1 DEF Linked
    <3>. QED  BY <1>2, <3>1, <3>2, <3>3
  <2>3. CASE i > Len(q)
    <3>1. ~(i - 1 < Len(q)) /\ ~(i < Len(q))
      BY <1>4, <2>0, <2>3
    <3>. QED  BY <1>3, <2>0, <3>1, SharedAssumption
  <2>. QED  BY <1>4, <2>0, <2>1, <2>2, <2>3
<1>7. met = [i \in 0 .. N |-> IF i = 0 THEN first
             ELSE LET n == met[i-1] IN IF n \in Node THEN link[n] ELSE n]
  <2>. DEFINE rhs == [i \in 0 .. N |-> IF i = 0 THEN first ELSE Follow(met[i-1])]
  <2>1. \A i \in 0 .. N : met[i] = rhs[i]
    <3>. HIDE DEF Follow
    <3>. QED  BY <1>5, <1>6
  <2>2. met = [i \in 0 .. N |-> met[i]]
    BY DEF met
  <2>3. rhs = [i \in 0 .. N |-> rhs[i]]
    OBVIOUS
  <2>. HIDE DEF rhs
  <2>4. met = rhs
    BY <2>1, <2>2, <2>3
  <2>. QED  BY <2>4 DEF rhs
<1>8. at = [i \in 0 .. N |-> IF i = 0 THEN first
            ELSE LET n == at[i-1] IN IF n \in Node THEN link[n] ELSE n]
  BY <1>7 DEF at
<1>9. at[0] = first /\ \A i \in 0 .. N : i # 0 => at[i] = Follow(at[i-1])
  BY <1>4, <1>8
<1>10. \A i \in 0 .. N : at[i] = met[i]
  <2>. DEFINE Differ == {i \in 0 .. N : at[i] # met[i]}
  <2>. SUFFICES ASSUME Differ # {}  PROVE FALSE
    OBVIOUS
  <2>. HIDE DEF Follow
  <2>. DEFINE i == Min(Differ)
  <2>1. i \in Differ /\ \A j \in Differ : i <= j
    <3>1. Differ \in SUBSET Nat
      BY <1>4
    <3>. HIDE DEF Differ
    <3>. QED  BY <3>1, MinOfNats
  <2>. HIDE DEF i
  <2>2. i \in 0 .. N /\ i # 0
    BY <1>5, <1>9, <2>1
  <2>3. i - 1 \in 0 .. N /\ i - 1 \notin Differ
    BY <1>4, <2>1, <2>2
  <2>. QED  BY <1>6, <1>9, <2>1, <2>2, <2>3
<1>11. length = Len(q)
  <2>1. {i \in 0 .. N : at[i] \in Node} = 0 .. Len(q) - 1
    <3>1. \A i \in 0 .. N : at[i] \in Node <=> i < Len(q)
      BY <1>2, <1>3, <1>10, SharedAssumption
    <3>. QED  BY <1>4, <3>1
  <2>2. Cardinality(0 .. Len(q) - 1) = Len(q)
    <3>1. ASSUME NEW n \in Nat  PROVE Cardinality(0 .. n - 1) = n
      <4>1. Cardinality(0 .. n - 1) = IF 0 > n - 1 THEN 0 ELSE (n - 1) - 0 + 1
        BY FS_Interval
      <4>. QED  BY <4>1
    <3>. QED  BY <1>4, <3>1
  <2>. QED  BY <2>1, <2>2 DEF length
<1>12. \A i \in 1 .. Len(q) : at[i-1] = q[i]
  <2>1. \A i \in 1 .. Len(q) : i - 1 \in 0 .. N /\ i - 1 < Len(q) /\ (i-1) + 1 = i
    BY <1>4
  <2>. QED  BY <1>3, <1>10, <2>1
<1>13. q = [i \in 1 .. Len(q) |-> q[i]]
  BY <1>2
<1>. QED  BY <1>1, <1>11, <1>12, <1>13

(* What a walk meets in each direction is the only such q and s.           *)
LEMMA WholeIs ==
  ASSUME NEW q, NEW s, Links(q, s)
  PROVE  List = q /\ Walk(tail, prev) = Reverse(s)
<1>1. Walk(head, next) = q
  BY WalkLinked DEF Links
<1>2. Reverse(s) \in Seq(Node) /\ Once(Reverse(s), Node) /\ Linked(Reverse(s), tail, prev, NULL)
  BY ReverseLinked DEF Links
<1>. QED  BY <1>1, <1>2, WalkLinked DEF List

-----------------------------------------------------------------------------
(* The ends of the list are nodes of it.                                   *)
LEMMA Ends ==
  ASSUME NEW q, NEW s, Links(q, s)
  PROVE  /\ head \in Node \cup {NULL} /\ tail \in Node \cup {NULL}
         /\ head # NULL => head \in ToSet(q)
         /\ tail # NULL => tail \in ToSet(s)
<1>1. /\ Len(q) \in Nat /\ DOMAIN q = 1 .. Len(q) /\ \A i \in 1 .. Len(q) : q[i] \in Node
      /\ Len(s) \in Nat /\ DOMAIN s = 1 .. Len(s) /\ \A i \in 1 .. Len(s) : s[i] \in Node
  BY LenProperties, ElementOfSeq DEF Links
<1>2. CASE Len(q) = 0
  <2>1. head = NULL
    BY <1>2 DEF Links, Linked
  <2>2. ToSet(q) = {} /\ (Len(s) # 0 => s[1] \in ToSet(s))
    BY <1>1, <1>2 DEF ToSet
  <2>3. Len(s) = 0
    BY <2>2 DEF Links
  <2>. QED  BY <2>1, <2>3 DEF Links, Backed
<1>3. CASE Len(q) # 0
  <2>1. 1 \in 1 .. Len(q) /\ (Len(s) # 0 => Len(s) \in 1 .. Len(s))
    BY <1>1, <1>3
  <2>. QED  BY <1>1, <1>3, <2>1 DEF Links, Linked, Backed, ToSet
<1>. QED  BY <1>2, <1>3

(* No statement stores a value of another kind.                            *)
LEMMA TypedNext ==
  ASSUME Typed, {head, tail} \subseteq Node \cup {NULL, Dangling},
         \A u \in Thread : pc[u] \in Working => node[u] \in Node, [Next]_vars
  PROVE  Typed'
<1>. USE DEF Typed
<1>. DEFINE Ptr == Node \cup {NULL, Dangling}
<1>1. head \in Ptr /\ tail \in Ptr
  OBVIOUS
<1>2. CASE UNCHANGED vars
  BY <1>2 DEF vars, listVars, localVars
<1>3. ASSUME NEW t \in Thread, NEW c \in Calls, NEW d \in Data, Call(t, c, d)  PROVE Typed'
  BY <1>3 DEF Call, Step, listVars, Label
<1>4. ASSUME NEW t \in Thread, Lock(t) \/ FindHead(t) \/ FindNext(t)  PROVE Typed'
  BY <1>1, <1>4 DEF Lock, FindHead, FindNext, Step, Valid, listVars, localVars, Label
<1>5. ASSUME NEW t \in Thread, FindEnd(t)  PROVE Typed'
  BY <1>5 DEF FindEnd, Faults, Step, Return, Returns, listVars, localVars, Label, Calls
<1>6. ASSUME NEW t \in Thread, Insert(t)  PROVE Typed'
  <2>1. PICK n \in free :
          /\ free' = free \ {n}
          /\ node' = [node EXCEPT ![t] = n]
          /\ data' = [data EXCEPT ![n] = elem[t]]
          /\ next' = [next EXCEPT ![n] = NULL]
          /\ prev' = [prev EXCEPT ![n] = NULL]
    BY <1>6 DEF Insert
  <2>. QED  BY <1>6, <2>1 DEF Insert, Step, Label
<1>7. ASSUME NEW t \in Thread, InsertFirst(t) \/ InsertLast(t)  PROVE Typed'
  BY <1>1, <1>7 DEF InsertFirst, InsertLast, Faults, Step, Valid, listVars, localVars, Label
<1>8. ASSUME NEW t \in Thread, CountUp(t) \/ CountDown(t)  PROVE Typed'
  BY <1>8 DEF CountUp, CountDown, Step, Return, Returns, localVars, Label, Calls
<1>9. ASSUME NEW t \in Thread, RemoveFaults(t)  PROVE Typed'
  BY <1>9 DEF RemoveFaults, Faults, listVars, localVars
<1>10. ASSUME NEW t \in Thread, RemoveBehind(t) \/ RemoveBefore(t)  PROVE Typed'
  <2>1. node[t] \in Node
    BY <1>10 DEF RemoveBehind, RemoveBefore, Step, Working, Changing, Label
  <2>. QED  BY <1>10, <2>1 DEF RemoveBehind, RemoveBefore, Step, Valid, localVars, Label
<1>11. ASSUME NEW t \in Thread, FreeNode(t)  PROVE Typed'
  <2>1. node[t] \in Node
    BY <1>11 DEF FreeNode, Step, Working
  <2>2. next' \in [Node -> Ptr] /\ prev' \in [Node -> Ptr]
    BY <1>11, <2>1 DEF FreeNode
  <2>3. node' \in [Thread -> Ptr]
    BY <1>11, <2>1 DEF FreeNode
  <2>. QED  BY <1>11, <2>1, <2>2, <2>3 DEF FreeNode, Step, Returns, Label, Calls
<1>. QED
  BY <1>2, <1>3, <1>4, <1>5, <1>6, <1>7, <1>8, <1>9, <1>10, <1>11 DEF Next

(* The calls of other threads do not change, and t goes on with its own.   *)
LEMMA CallsFitNext ==
  ASSUME Typed, CallsFit, [Next]_vars
  PROVE  CallsFit'
<1>. USE DEF Typed, CallsFit, CallFits, Locks
<1>1. CASE UNCHANGED vars
  BY <1>1 DEF vars, listVars, localVars
<1>2. ASSUME NEW t \in Thread, NEW c \in Calls, NEW d \in Data, Call(t, c, d)  PROVE CallsFit'
  BY <1>2, SharedAssumption DEF Call, Step, Inserting, Removing, Data
<1>3. ASSUME NEW t \in Thread, Lock(t) \/ FindHead(t) \/ FindNext(t)  PROVE CallsFit'
  BY <1>3 DEF Lock, FindHead, FindNext, Step, localVars, Inserting, Removing
<1>4. ASSUME NEW t \in Thread, FindEnd(t)  PROVE CallsFit'
  BY <1>4 DEF FindEnd, Faults, Step, Return, Returns, localVars, Inserting, Removing
<1>5. ASSUME NEW t \in Thread, Insert(t) \/ InsertFirst(t) \/ InsertLast(t)  PROVE CallsFit'
  BY <1>5 DEF Insert, InsertFirst, InsertLast, Faults, Step, localVars, Inserting, Removing
<1>6. ASSUME NEW t \in Thread, CountUp(t) \/ CountDown(t)  PROVE CallsFit'
  BY <1>6 DEF CountUp, CountDown, Step, Return, Returns, localVars, Inserting, Removing
<1>7. ASSUME NEW t \in Thread, RemoveFaults(t)  PROVE CallsFit'
  BY <1>7 DEF RemoveFaults, Faults, localVars
<1>8. ASSUME NEW t \in Thread, RemoveBehind(t) \/ RemoveBefore(t)  PROVE CallsFit'
  BY <1>8 DEF RemoveBehind, RemoveBefore, Step, localVars, Inserting, Removing
<1>9. ASSUME NEW t \in Thread, FreeNode(t)  PROVE CallsFit'
  BY <1>9 DEF FreeNode, Step, Returns, Inserting, Removing
<1>. QED
  BY <1>1, <1>2, <1>3, <1>4, <1>5, <1>6, <1>7, <1>8, <1>9 DEF Next

(* A call begins with an element that is available.                        *)
LEMMA OwnersNext ==
  ASSUME Typed, CallsFit, Owners, [Next]_vars
  PROVE  Owners'
<1>. USE DEF Typed, Owners
<1>1. CASE UNCHANGED vars
  BY <1>1 DEF vars, localVars
<1>2. ASSUME NEW t \in Thread, NEW c \in Calls, NEW d \in Data, Call(t, c, d)  PROVE Owners'
  BY <1>2, SharedAssumption DEF Call, Available, Step, Data
<1>3. ASSUME NEW t \in Thread, Lock(t) \/ FindHead(t) \/ FindNext(t)  PROVE Owners'
  BY <1>3 DEF Lock, FindHead, FindNext, Step, localVars
<1>4. ASSUME NEW t \in Thread, FindEnd(t)  PROVE Owners'
  BY <1>4 DEF FindEnd, Faults, Step, Return, Returns, localVars
<1>5. ASSUME NEW t \in Thread, Insert(t) \/ InsertFirst(t) \/ InsertLast(t)  PROVE Owners'
  BY <1>5 DEF Insert, InsertFirst, InsertLast, Faults, Step, localVars
<1>6. ASSUME NEW t \in Thread, CountUp(t) \/ CountDown(t)  PROVE Owners'
  BY <1>6 DEF CountUp, CountDown, Step, Return, Returns, localVars
<1>7. ASSUME NEW t \in Thread, RemoveFaults(t)  PROVE Owners'
  BY <1>7 DEF RemoveFaults, Faults, localVars
<1>8. ASSUME NEW t \in Thread, RemoveBehind(t) \/ RemoveBefore(t)  PROVE Owners'
  BY <1>8 DEF RemoveBehind, RemoveBefore, Step, localVars
<1>9. ASSUME NEW t \in Thread, FreeNode(t)  PROVE Owners'
  BY <1>9 DEF FreeNode, Step, Returns
<1>. QED
  BY <1>1, <1>2, <1>3, <1>4, <1>5, <1>6, <1>7, <1>8, <1>9 DEF Next

(* A step that brings a second thread into ll_insert or ll_remove sets     *)
(* `overlap'.                                                              *)
LEMMA AloneNext ==
  ASSUME CallsInv, [Next]_vars, ~overlap'
  PROVE  Alone'
<1>. USE DEF Typed, CallsInv
<1>1. ASSUME UNCHANGED pc  PROVE Alone'
  BY <1>1 DEF Alone
<1>2. ASSUME NEW t \in Thread, NEW from, NEW to, Step(t, from, to)  PROVE Alone'
  <2>1. pc' = [pc EXCEPT ![t] = to]
    BY <1>2 DEF Step
  <2>2. to \in Changing => \A u \in Thread \ {t} : pc[u] \notin Changing
    BY <1>2 DEF Step
  <2>. QED  BY <2>1, <2>2 DEF Alone
<1>3. CASE UNCHANGED vars
  BY <1>1, <1>3 DEF vars
<1>4. ASSUME NEW t \in Thread, NEW c \in Calls, NEW d \in Data, Call(t, c, d)  PROVE Alone'
  BY <1>2, <1>4 DEF Call
<1>5. ASSUME NEW t \in Thread, Lock(t) \/ FindHead(t) \/ FindNext(t)  PROVE Alone'
  BY <1>2, <1>5 DEF Lock, FindHead, FindNext
<1>6. ASSUME NEW t \in Thread, FindEnd(t) \/ RemoveFaults(t)  PROVE Alone'
  BY <1>1, <1>2, <1>6 DEF FindEnd, RemoveFaults, Faults
<1>7. ASSUME NEW t \in Thread, Insert(t) \/ InsertFirst(t) \/ InsertLast(t)  PROVE Alone'
  BY <1>1, <1>2, <1>7 DEF Insert, InsertFirst, InsertLast, Faults
<1>8. ASSUME NEW t \in Thread, CountUp(t) \/ CountDown(t) \/ FreeNode(t)  PROVE Alone'
  BY <1>2, <1>8 DEF CountUp, CountDown, FreeNode
<1>9. ASSUME NEW t \in Thread, RemoveBehind(t) \/ RemoveBefore(t)  PROVE Alone'
  BY <1>2, <1>9 DEF RemoveBehind, RemoveBefore
<1>. QED
  BY <1>3, <1>4, <1>5, <1>6, <1>7, <1>8, <1>9 DEF Next

(* A removal takes a node that is in use, and none is freed under it.      *)
LEMMA HandsNext ==
  ASSUME CallsInv, NEW q, NEW s, Whole(q, s), [Next]_vars
  PROVE  Hands'
<1>. USE DEF Typed, CallsInv, Hands
<1>. DEFINE Busy(u) == pc[u] \in (Changing \ {"insert"}) \cup {"free"}
<1>1. CASE UNCHANGED vars
  BY <1>1 DEF vars, listVars, localVars
<1>2. ASSUME NEW t \in Thread, NEW c \in Calls, NEW d \in Data, Call(t, c, d)  PROVE Hands'
  BY <1>2 DEF Call, Step, listVars, Changing, Label
<1>3. ASSUME NEW t \in Thread, Lock(t) \/ FindHead(t) \/ FindNext(t)  PROVE Hands'
  BY <1>3 DEF Lock, FindHead, FindNext, Step, listVars, localVars, Changing, Label
<1>4. ASSUME NEW t \in Thread, FindEnd(t)  PROVE Hands'
  <2>1. CASE UNCHANGED <<pc, node>>
    BY <1>4, <2>1 DEF FindEnd, Faults, Step, Return, Returns, listVars, localVars
  <2>2. CASE Step(t, "walk", "insert") \/ Step(t, "walk", "idle")
    BY <1>4, <2>2 DEF FindEnd, Faults, Step, Return, Returns, listVars, localVars, Changing, Label
  <2>3. CASE Step(t, "walk", "remove")
    <3>1. /\ node[t] \in Node /\ data[node[t]] = elem[t] /\ call[t] # "LOGIN" /\ pc[t] = "walk"
          /\ UNCHANGED <<listVars, localVars>> /\ pc' = [pc EXCEPT ![t] = "remove"]
      BY <1>4, <2>3, SharedAssumption DEF FindEnd, Faults, Step, Valid
    <3>2. PICK S \in SUBSET Node : Search(S, node[t], elem[t], q)
      BY <3>1 DEF Whole, Searches, Walking, Led
    <3>3. node[t] \in Node \ free
      BY <3>1, <3>2, SharedAssumption DEF Search, Unlinked
    <3>. QED  BY <3>1, <3>3 DEF listVars, localVars, Changing, Label
  <2>. QED  BY <1>4, <2>1, <2>2, <2>3 DEF FindEnd, Faults, localVars
<1>5. ASSUME NEW t \in Thread, Insert(t)  PROVE Hands'
  <2>1. PICK n \in free :
          /\ free' = free \ {n}
          /\ node' = [node EXCEPT ![t] = n]
          /\ data' = [data EXCEPT ![n] = elem[t]]
    BY <1>5 DEF Insert
  <2>. QED  BY <1>5, <2>1 DEF Insert, Step, Changing, Label
<1>6. ASSUME NEW t \in Thread, InsertFirst(t) \/ InsertLast(t)  PROVE Hands'
  BY <1>6 DEF InsertFirst, InsertLast, Faults, Step, Valid, listVars, localVars, Changing, Label
<1>7. ASSUME NEW t \in Thread, CountUp(t) \/ CountDown(t)  PROVE Hands'
  BY <1>7 DEF CountUp, CountDown, Step, Return, Returns, localVars, Changing, Label
<1>8. ASSUME NEW t \in Thread, RemoveFaults(t)  PROVE Hands'
  BY <1>8 DEF RemoveFaults, Faults, listVars, localVars
<1>9. ASSUME NEW t \in Thread, RemoveBehind(t) \/ RemoveBefore(t)  PROVE Hands'
  BY <1>9 DEF RemoveBehind, RemoveBefore, Step, Valid, localVars, Changing, Label
<1>10. ASSUME NEW t \in Thread, FreeNode(t)  PROVE Hands'
  <2>1. /\ pc[t] = "free" /\ pc' = [pc EXCEPT ![t] = "idle"]
        /\ node[t] \in Node \ free /\ data[node[t]] = elem[t]
        /\ free' = free \cup {node[t]} /\ data' = [data EXCEPT ![node[t]] = NULL]
        /\ elem' = [elem EXCEPT ![t] = NULL]
    BY <1>10 DEF FreeNode, Step, Returns
  <2>2. elem[t] \notin String
    BY <2>1, SharedAssumption DEF CallsFit, CallFits, Locks
  <2>3. ASSUME NEW u \in Thread, u # t, Busy(u)
        PROVE  node[u] # node[t]
    BY <2>1, <2>2, <2>3 DEF Owners, Changing, Label
  <2>4. \A u \in Thread : u # t => node'[u] = IF node[u] = node[t] THEN Dangling ELSE node[u]
    BY <1>10 DEF FreeNode
  <2>. QED  BY <2>1, <2>3, <2>4 DEF Changing, Label
<1>. QED
  BY <1>1, <1>2, <1>3, <1>4, <1>5, <1>6, <1>7, <1>8, <1>9, <1>10 DEF Next

(* The calls stay as they are described, short of an overlap.              *)
LEMMA CallsNext ==
  ASSUME CallsInv, NEW q, NEW s, Whole(q, s), [Next]_vars, ~overlap'
  PROVE  CallsInv'
<1>1. /\ {head, tail} \subseteq Node \cup {NULL, Dangling}
      /\ \A u \in Thread : pc[u] \in Working => node[u] \in Node
  BY Ends DEF Whole, CallsInv, Hands, Working
<1>. QED
  BY <1>1, TypedNext, CallsFitNext, OwnersNext, AloneNext, HandsNext DEF CallsInv, Whole

-----------------------------------------------------------------------------
(* The parts of Whole after a step.                                        *)

(* The places of a sequence of nodes.                                      *)
LEMMA NodeSeq ==
  \A q \in Seq(Node) :
    /\ Len(q) \in Nat /\ DOMAIN q = 1 .. Len(q) /\ \A i \in 1 .. Len(q) : q[i] \in Node
    /\ \A n : n \in ToSet(q) <=> \E i \in 1 .. Len(q) : q[i] = n
    /\ Once(q, Node) => \A i, j \in 1 .. Len(q) : q[i] = q[j] => i = j
<1>. SUFFICES ASSUME NEW q \in Seq(Node)
     PROVE  /\ Len(q) \in Nat /\ DOMAIN q = 1 .. Len(q) /\ \A i \in 1 .. Len(q) : q[i] \in Node
            /\ \A n : n \in ToSet(q) <=> \E i \in 1 .. Len(q) : q[i] = n
            /\ Once(q, Node) => \A i, j \in 1 .. Len(q) : q[i] = q[j] => i = j
  OBVIOUS
<1>1. Len(q) \in Nat /\ DOMAIN q = 1 .. Len(q) /\ \A i \in 1 .. Len(q) : q[i] \in Node
  BY LenProperties, ElementOfSeq
<1>2. \A n : n \in ToSet(q) <=> \E i \in 1 .. Len(q) : q[i] = n
  BY <1>1 DEF ToSet
<1>3. Once(q, Node) => \A i, j \in 1 .. Len(q) : q[i] = q[j] => i = j
  BY <1>1 DEF Once
<1>. QED  BY <1>1, <1>2, <1>3

(* No pointer that leads through the list is changed.                      *)
LEMMA LinksSame ==
  ASSUME NEW q, NEW s, Links(q, s), head' = head, tail' = tail,
         \A n \in ToSet(q) : n \notin Unlinked' /\ next'[n] = next[n] /\ data'[n] = data[n],
         \A n \in ToSet(s) : prev'[n] = prev[n],
         \A u \in Thread : pc'[u] = "free" => node'[u] \notin ToSet(q)
  PROVE  Links(q, s)'
<1>1. \A i \in 1 .. Len(q) : q[i] \in ToSet(q)
  BY NodeSeq DEF Links
<1>2. \A i \in 1 .. Len(s) : s[i] \in ToSet(s)
  BY NodeSeq DEF Links
<1>3. Linked(q, head', next', NULL)
  BY <1>1 DEF Links, Linked
<1>4. Backed(s, tail', prev', NULL)
  BY <1>2 DEF Links, Backed
<1>5. \A n \in ToSet(q) : n \notin Unlinked' /\ data'[n] \in Data
  BY <1>1 DEF Links
<1>. QED  BY <1>3, <1>4, <1>5 DEF Links

(* The new node is linked to the end; the way back does not know it yet.   *)
LEMMA LinkForth ==
  ASSUME NEW q, Links(q, q), NEW n \in Unlinked, n \in Node, Unlinked' \subseteq Unlinked \ {n},
         next \in [Node -> Node \cup {NULL, Dangling}],
         next[n] = NULL, data[n] \in Data,
         head' = (IF Len(q) = 0 THEN n ELSE head),
         next' = (IF Len(q) = 0 THEN next ELSE [next EXCEPT ![q[Len(q)]] = n]),
         UNCHANGED <<tail, prev, data>>,
         \A u \in Thread : pc'[u] = "free" => pc[u] = "free" /\ node'[u] = node[u] /\ node[u] # n
  PROVE  Links(Append(q, n), q)' /\ n \notin ToSet(q)
<1>. DEFINE r == Append(q, n)
<1>1. /\ q \in Seq(Node) /\ Once(q, Node) /\ Linked(q, head, next, NULL) /\ n \notin ToSet(q)
      /\ Len(q) \in Nat /\ \A i \in 1 .. Len(q) : q[i] \in Node /\ q[i] # n
      /\ \A i, j \in 1 .. Len(q) : q[i] = q[j] => i = j
  BY NodeSeq DEF Links
<1>2. r \in Seq(Node) /\ Once(r, Node) /\ ToSet(r) = ToSet(q) \cup {n}
  BY <1>1, AppendElements, AppendOnce
<1>3. /\ \A i \in 1 .. Len(q) : next'[q[i]] = IF i = Len(q) THEN n ELSE next[q[i]]
      /\ next'[n] = NULL
  <2>1. CASE Len(q) = 0
    BY <1>1, <2>1
  <2>2. CASE Len(q) # 0
    <3>1. Len(q) \in 1 .. Len(q)
      BY <1>1, <2>2
    <3>2. next' = [next EXCEPT ![q[Len(q)]] = n]
      BY <2>2
    <3>. QED  BY <1>1, <3>1, <3>2
  <2>. QED  BY <2>1, <2>2
<1>4. Linked(r, head', next', NULL)
  <2>. HIDE DEF r
  <2>1. Linked(Append(q, n), IF Len(q) = 0 THEN n ELSE head, next', NULL)
    BY <1>1, <1>3, AppendLinked
  <2>. QED  BY <2>1 DEF r
<1>5. /\ \A m \in ToSet(r) : m \notin Unlinked' /\ data'[m] \in Data
      /\ \A u \in Thread : pc'[u] = "free" => node'[u] \notin ToSet(r)
  BY <1>2 DEF Links
<1>6. Backed(q, tail', prev', NULL) /\ ToSet(q) \subseteq ToSet(r)
  BY <1>2 DEF Links
<1>. HIDE DEF r
<1>7. Links(r, q)'
  BY <1>1, <1>2, <1>4, <1>5, <1>6 DEF Links
<1>. QED  BY <1>1, <1>7 DEF r

(* The way back gets the new node.                                         *)
LEMMA LinkBack ==
  ASSUME NEW s, NEW n \in Node, Links(Append(s, n), s), n \notin ToSet(s), prev[n] = tail, tail' = n,
         UNCHANGED <<head, next, prev, data>>, Unlinked' \subseteq Unlinked,
         \A u \in Thread : pc'[u] = "free" => pc[u] = "free" /\ node'[u] = node[u]
  PROVE  Links(Append(s, n), Append(s, n))'
<1>. DEFINE q == Append(s, n)
<1>1. s \in Seq(Node) /\ Backed(s, tail, prev, NULL)
  BY DEF Links
<1>2. Backed(q, tail', prev', NULL)
  BY <1>1, AppendBacked
<1>. HIDE DEF q
<1>3. Links(q, s)
  BY DEF q
<1>4. Links(q, q)'
  BY <1>2, <1>3 DEF Links
<1>. QED  BY <1>4 DEF q

(* The pointers that are written when the k-th node is taken out of the way*)
(* back, and out of the list.                                              *)
CutsBack(q, k) ==
  /\ tail' = IF k = Len(q) THEN prev[q[k]] ELSE tail
  /\ prev' = IF k = Len(q) THEN prev ELSE [prev EXCEPT ![q[k+1]] = prev[q[k]]]
  /\ UNCHANGED <<head, next, data>>
CutsForth(q, k) ==
  /\ head' = IF k = 1 THEN next[q[k]] ELSE head
  /\ next' = IF k = 1 THEN next ELSE [next EXCEPT ![q[k-1]] = next[q[k]]]
  /\ UNCHANGED <<tail, prev, data>>

(* No thread comes to free a node.                                         *)
KeepsFree == \A u \in Thread : pc'[u] = "free" => pc[u] = "free" /\ node'[u] = node[u]

(* A node is out of the way back.                                          *)
LEMMA UnlinkBack ==
  ASSUME NEW q, Links(q, q), NEW k \in 1 .. Len(q), prev \in [Node -> Node \cup {NULL, Dangling}],
         CutsBack(q, k), Unlinked' \subseteq Unlinked, KeepsFree
  PROVE  /\ Links(q, RemoveAt(q, k))'
         /\ prev[q[k]] = (IF k = 1 THEN NULL ELSE q[k-1]) /\ prev'[q[k]] = prev[q[k]]
<1>. USE DEF CutsBack, KeepsFree
<1>. DEFINE s == RemoveAt(q, k)
<1>1. /\ q \in Seq(Node) /\ Once(q, Node) /\ Backed(q, tail, prev, NULL)
      /\ Len(q) \in Nat /\ \A i \in 1 .. Len(q) : q[i] \in Node
      /\ \A i, j \in 1 .. Len(q) : q[i] = q[j] => i = j
  BY NodeSeq DEF Links
<1>2. \A i \in 1 .. Len(q) : prev'[q[i]] = IF i = k+1 THEN prev[q[k]] ELSE prev[q[i]]
  <2>1. CASE k = Len(q)
    <3>1. \A i \in 1 .. Len(q) : i # k + 1
      BY <1>1, <2>1
    <3>. QED  BY <2>1, <3>1
  <2>2. CASE k # Len(q)
    <3>1. k + 1 \in 1 .. Len(q) /\ prev' = [prev EXCEPT ![q[k+1]] = prev[q[k]]]
      BY <1>1, <2>2
    <3>. QED  BY <1>1, <3>1
  <2>. QED  BY <2>1, <2>2
<1>3. Backed(s, tail', prev', NULL)
  BY <1>1, <1>2, RemoveBacked
<1>4. s \in Seq(Node) /\ Once(s, Node) /\ ToSet(s) \subseteq ToSet(q)
  <2>1. RemoveFirst(q, q[k]) = s /\ q[k] \in Node
    BY <1>1, RemoveFirstAt
  <2>. QED  BY <1>1, <2>1, RemoveFirstElements, RemoveFirstOnce
<1>. HIDE DEF s
<1>5. Links(q, s)'
  BY <1>3, <1>4 DEF Links
<1>6. k # k + 1
  BY <1>1
<1>. QED  BY <1>1, <1>2, <1>5, <1>6 DEF s, Backed

(* Then it is out of the list.                                             *)
LEMMA UnlinkForth ==
  ASSUME NEW q, NEW k \in 1 .. Len(q), Links(q, RemoveAt(q, k)),
         next \in [Node -> Node \cup {NULL, Dangling}],
         CutsForth(q, k), Unlinked' \subseteq Unlinked, KeepsFree
  PROVE  /\ Links(RemoveAt(q, k), RemoveAt(q, k))'
         /\ q[k] \notin ToSet(RemoveAt(q, k)) /\ Len(RemoveAt(q, k)) + 1 = Len(q)
         /\ next'[q[k]] = next[q[k]]
<1>. USE DEF CutsForth, KeepsFree
<1>. DEFINE r == RemoveAt(q, k)
<1>1. /\ q \in Seq(Node) /\ Once(q, Node) /\ Linked(q, head, next, NULL)
      /\ Len(q) \in Nat /\ \A i \in 1 .. Len(q) : q[i] \in Node
      /\ \A i, j \in 1 .. Len(q) : q[i] = q[j] => i = j
  BY NodeSeq DEF Links
<1>2. \A i \in 1 .. Len(q) : next'[q[i]] = IF i = k-1 THEN next[q[k]] ELSE next[q[i]]
  <2>1. CASE k = 1
    <3>1. \A i \in 1 .. Len(q) : i # k - 1
      BY <1>1, <2>1
    <3>. QED  BY <2>1, <3>1
  <2>2. CASE k # 1
    <3>1. k - 1 \in 1 .. Len(q) /\ next' = [next EXCEPT ![q[k-1]] = next[q[k]]]
      BY <1>1, <2>2
    <3>. QED  BY <1>1, <3>1
  <2>. QED  BY <2>1, <2>2
<1>3. Linked(r, head', next', NULL)
  BY <1>1, <1>2, RemoveLinked
<1>4. r \in Seq(Node) /\ Once(r, Node) /\ ToSet(r) \subseteq ToSet(q) /\ q[k] \notin ToSet(r)
  <2>1. RemoveFirst(q, q[k]) = r /\ q[k] \in Node
    BY <1>1, RemoveFirstAt
  <2>. QED  BY <1>1, <2>1, RemoveFirstElements, RemoveFirstOnce
<1>5. Len(r) + 1 = Len(q)
  BY <1>1, RemoveAtShape
<1>. HIDE DEF r
<1>6. Links(q, r)
  BY DEF r
<1>7. Links(r, r)'
  BY <1>3, <1>4, <1>6 DEF Links
<1>8. k # k - 1
  BY <1>1
<1>. QED  BY <1>2, <1>4, <1>5, <1>7, <1>8 DEF r

(* What is unlinked after a statement that does not calloc.                *)
LEMMA UnlinkedStep ==
  ASSUME CallsInv, NEW t \in Thread, NEW to, pc' = [pc EXCEPT ![t] = to], free' = free,
         \A u \in Thread \ {t} : node'[u] = node[u],
         to \notin {"first", "append"}
  PROVE  /\ Unlinked' \subseteq Unlinked
         /\ pc[t] \in {"first", "append"} => Unlinked' \subseteq Unlinked \ {node[t]}
<1>1. \A u \in Thread : pc'[u] = IF u = t THEN to ELSE pc[u]
  BY DEF CallsInv, Typed
<1>2. ASSUME NEW n \in Unlinked', n \notin free
      PROVE  \E u \in Thread \ {t} : pc[u] \in {"first", "append"} /\ node[u] = n
  <2>1. PICK u \in Thread : pc'[u] \in {"first", "append"} /\ node'[u] = n
    BY <1>2 DEF Unlinked
  <2>. QED  BY <1>1, <2>1
<1>3. Unlinked' \subseteq Unlinked
  BY <1>2 DEF Unlinked
<1>4. ASSUME pc[t] \in {"first", "append"}  PROVE node[t] \notin Unlinked'
  <2>1. \A u \in Thread \ {t} : pc[u] \notin {"first", "append"}
    BY <1>4 DEF CallsInv, Alone, Changing, Label
  <2>2. node[t] \notin free
    BY <1>4 DEF CallsInv, Hands, Changing, Label
  <2>. QED  BY <1>2, <2>1, <2>2
<1>. QED  BY <1>3, <1>4

(* Only one thread is between statements of ll_insert or ll_remove.        *)
LEMMA BetweenStep ==
  ASSUME CallsInv, NEW t \in Thread, NEW from, NEW to, Step(t, from, to), ~overlap',
         from \in Changing \/ to \in Changing, NEW q, NEW s,
         to \notin Changing => s = q /\ count' = Len(q),
         to \in Changing => Inserts(t, q, s)' /\ Removes(t, q, s)'
  PROVE  Between(q, s)'
<1>1. \A u \in Thread : pc'[u] = IF u = t THEN to ELSE pc[u]
  BY DEF Step, CallsInv, Typed
<1>2. \A u \in Thread \ {t} : pc[u] \notin Changing
  BY DEF Step, CallsInv, Alone
<1>. QED  BY <1>1, <1>2 DEF Between

(* A search is not led astray by statements that write no `next' on its way*)
(* nor by the next node being linked to the last.                          *)
LEMMA SearchSame ==
  ASSUME NEW S, NEW n, NEW d, NEW q \in Seq(Node), Search(S, n, d, q),
         \A i \in 1 .. Len(q) : q[i] \notin Unlinked, Unlinked' \subseteq Unlinked,
         \A x \in Node \ Unlinked : next'[x] = next[x] /\ data'[x] = data[x]
  PROVE  Search(S, n, d, q)'
<1>1. Len(q) \in Nat /\ \A i \in 1 .. Len(q) : q[i] \in Node \ Unlinked
  BY NodeSeq
<1>2. \A x \in S : next'[x] = next[x] /\ data'[x] = data[x]
  BY DEF Search
<1>3. \A i \in 1 .. Len(q) : \A j \in 1 .. i-1 : j \in 1 .. Len(q)
  BY <1>1
<1>4. \A i \in 1 .. Len(q) : q[i] \in S => \A j \in 1 .. i-1 : data'[q[j]] # d
  BY <1>1, <1>3 DEF Search
<1>. QED  BY <1>2, <1>4 DEF Search

(* Nor by a new node being linked behind the last, and so met after all.   *)
LEMMA SearchLinked ==
  ASSUME NEW S, NEW n, NEW d, NEW q, Links(q, q), Search(S, n, d, q), S \subseteq Node,
         NEW new \in Unlinked, new \in Node, Unlinked' \subseteq Unlinked \ {new},
         next \in [Node -> Node \cup {NULL, Dangling}], next[new] = NULL,
         next' = (IF Len(q) = 0 THEN next ELSE [next EXCEPT ![q[Len(q)]] = new]), data' = data
  PROVE  \E T \in SUBSET Node : Search(T, n, d, Append(q, new))'
<1>. DEFINE r == Append(q, new)
<1>0. PICK T : T = IF Len(q) # 0 /\ q[Len(q)] \in S /\ data[q[Len(q)]] # d THEN S \cup {new} ELSE S
  OBVIOUS
<1>1. /\ q \in Seq(Node) /\ Len(q) \in Nat
      /\ \A i \in 1 .. Len(q) : q[i] \in Node /\ q[i] # new /\ q[i] \in ToSet(q)
      /\ \A i, j \in 1 .. Len(q) : q[i] = q[j] => i = j
  BY NodeSeq DEF Links
<1>2. /\ r \in Seq(Node) /\ ToSet(r) = ToSet(q) \cup {new} /\ Len(r) = Len(q) + 1
      /\ r[Len(q) + 1] = new /\ \A i \in 1 .. Len(q) : r[i] = q[i]
  BY <1>1, AppendElements, AppendProperties
<1>3. /\ \A x \in Node : next'[x] = IF Len(q) # 0 /\ x = q[Len(q)] THEN new ELSE next[x]
      /\ next'[new] = NULL
  <2>1. CASE Len(q) = 0
    BY <2>1
  <2>2. CASE Len(q) # 0
    <3>1. Len(q) \in 1 .. Len(q)
      BY <1>1, <2>2
    <3>. QED  BY <1>1, <2>2, <3>1
  <2>. QED  BY <2>1, <2>2
<1>. HIDE DEF r
<1>4. new \notin S
  BY DEF Search
<1>5. T \in SUBSET Node /\ T \cap Unlinked' = {} /\ S \subseteq T /\ T \subseteq S \cup {new}
  BY <1>0 DEF Search
<1>6. ASSUME NEW x \in T, data'[x] # d  PROVE next'[x] \in T \cup {NULL, Dangling}
  <2>1. CASE x = new
    BY <1>3, <2>1
  <2>2. CASE x \in S /\ ~(Len(q) # 0 /\ x = q[Len(q)])
    <3>1. next'[x] = next[x]
      BY <1>3, <2>2
    <3>. QED  BY <1>5, <1>6, <2>2, <3>1 DEF Search
  <2>3. CASE x \in S /\ Len(q) # 0 /\ x = q[Len(q)]
    <3>1. next'[x] = new
      BY <1>3, <2>3
    <3>. QED  BY <1>0, <1>6, <2>3, <3>1
  <2>. QED  BY <1>5, <2>1, <2>2, <2>3
<1>7. \A x \in T : data'[x] = d => x \in ToSet(r)
  BY <1>2, <1>5 DEF Search
<1>8. ASSUME NEW i \in 1 .. Len(r), r[i] \in T, NEW j \in 1 .. i-1  PROVE data'[r[j]] # d
  <2>1. CASE i \in 1 .. Len(q)
    <3>1. r[i] = q[i] /\ j \in 1 .. Len(q) /\ r[j] = q[j]
      BY <1>1, <1>2, <2>1
    <3>2. q[i] \in S
      BY <1>1, <1>5, <1>8, <2>1, <3>1
    <3>. QED  BY <2>1, <3>1, <3>2 DEF Search
  <2>2. CASE i = Len(q) + 1
    <3>1. j \in 1 .. Len(q) /\ r[j] = q[j] /\ r[i] = new /\ Len(q) \in 1 .. Len(q)
      BY <1>1, <1>2, <2>2
    <3>2. q[Len(q)] \in S /\ data[q[Len(q)]] # d
      BY <1>0, <1>4, <1>8, <3>1
    <3>3. CASE j = Len(q)
      BY <3>1, <3>2, <3>3
    <3>4. CASE j # Len(q)
      <4>1. j \in 1 .. Len(q) - 1
        BY <1>1, <3>1, <3>4
      <4>. QED  BY <3>1, <3>2, <4>1 DEF Search
    <3>. QED  BY <3>3, <3>4
  <2>. QED  BY <1>1, <1>2, <2>1, <2>2
<1>9. n \in T \cup {NULL, Dangling}
  BY <1>5 DEF Search
<1>10. Search(T, n, d, r)'
  BY <1>5, <1>6, <1>7, <1>8, <1>9 DEF Search
<1>. QED  BY <1>5, <1>10 DEF r

(* Nor by a node with another element being cut out, or freed after that.  *)
LEMMA SearchUnlinked ==
  ASSUME NEW S, NEW n, NEW d, NEW q \in Seq(Node), Once(q, Node), NEW k \in 1 .. Len(q),
         Search(S, n, d, q), data[q[k]] # d, Unlinked' \subseteq Unlinked, data' = data,
         next \in [Node -> Node \cup {NULL, Dangling}],
         next' = (IF k = 1 THEN next ELSE [next EXCEPT ![q[k-1]] = next[q[k]]]),
         \A i \in 1 .. Len(q) - 1 : next[q[i]] = q[i+1]
  PROVE  Search(S, n, d, RemoveAt(q, k))'
<1>. DEFINE r == RemoveAt(q, k)
<1>1. /\ Len(q) \in Nat /\ \A i \in 1 .. Len(q) : q[i] \in Node
      /\ \A i, j \in 1 .. Len(q) : q[i] = q[j] => i = j
  BY NodeSeq
<1>2. /\ r \in Seq(Node) /\ Len(r) = Len(q) - 1
      /\ \A i \in 1 .. Len(q) - 1 : r[i] = IF i < k THEN q[i] ELSE q[i+1]
  BY RemoveAtShape
<1>3. \A x \in ToSet(q) : x # q[k] => x \in ToSet(r)
  <2>1. RemoveFirst(q, q[k]) = r /\ q[k] \in Node
    BY <1>1, RemoveFirstAt
  <2>. QED  BY <1>1, <2>1, RemoveFirstElements
<1>. HIDE DEF r
<1>4. ASSUME NEW x \in S, data'[x] # d  PROVE next'[x] \in S \cup {NULL, Dangling}
  <2>1. x \in Node /\ next[x] \in S \cup {NULL, Dangling}
    BY <1>4 DEF Search
  <2>2. CASE k = 1 \/ x # q[k-1]
    BY <2>1, <2>2
  <2>3. CASE k # 1 /\ x = q[k-1]
    <3>1. k - 1 \in 1 .. Len(q) - 1 /\ (k-1) + 1 = k /\ k - 1 \in 1 .. Len(q)
      BY <1>1, <2>3
    <3>2. next[x] = q[k] /\ next'[x] = next[q[k]]
      BY <2>1, <2>3, <3>1
    <3>3. q[k] \in Node /\ q[k] \in S
      BY <1>1, <2>1, <3>2, SharedAssumption
    <3>. QED  BY <3>2, <3>3 DEF Search
  <2>. QED  BY <2>2, <2>3
<1>5. \A x \in S : data'[x] = d => x \in ToSet(r)
  BY <1>3 DEF Search
<1>6. ASSUME NEW i \in 1 .. Len(r), r[i] \in S, NEW j \in 1 .. i-1  PROVE data'[r[j]] # d
  <2>. DEFINE Old(m) == IF m < k THEN m ELSE m + 1
  <2>1. /\ Old(i) \in 1 .. Len(q) /\ Old(j) \in 1 .. Old(i) - 1
        /\ i \in 1 .. Len(q) - 1 /\ j \in 1 .. Len(q) - 1
    BY <1>1, <1>2
  <2>2. r[i] = q[Old(i)] /\ r[j] = q[Old(j)]
    BY <1>2, <2>1
  <2>. HIDE DEF Old
  <2>. QED  BY <1>6, <2>1, <2>2 DEF Search
<1>7. Search(S, n, d, r)'
  BY <1>4, <1>5, <1>6 DEF Search
<1>. QED  BY <1>7 DEF r

(* Nor by freeing a node that the search will not meet.                    *)
LEMMA SearchFreed ==
  ASSUME NEW S \in SUBSET Node, NEW n, NEW d, NEW q \in Seq(Node), Search(S, n, d, q),
         NEW gone \in Node, gone \notin ToSet(q), Unlinked' \subseteq Unlinked \cup {gone},
         \A x \in Node \ {gone} :
           next'[x] = (IF next[x] = gone THEN Dangling ELSE next[x]) /\ data'[x] = data[x]
  PROVE  Search(S \ {gone}, IF n = gone THEN Dangling ELSE n, d, q)'
<1>1. Len(q) \in Nat /\ \A i \in 1 .. Len(q) : q[i] \in Node \ {gone}
  BY NodeSeq
<1>2. \A i \in 1 .. Len(q) : \A j \in 1 .. i-1 : j \in 1 .. Len(q)
  BY <1>1
<1>3. \A i \in 1 .. Len(q) : q[i] \in S => \A j \in 1 .. i-1 : data'[q[j]] # d
  BY <1>1, <1>2 DEF Search
<1>. QED  BY <1>3 DEF Search

(* It starts from the head, and so meets the nodes up to the first with d. *)
LEMMA SearchBegins ==
  ASSUME NEW q, NEW s, Links(q, s), NEW d
  PROVE  \E S \in SUBSET Node : Search(S, head, d, q)
<1>1. /\ q \in Seq(Node) /\ Len(q) \in Nat
      /\ \A i \in 1 .. Len(q) : q[i] \in Node \ Unlinked /\ q[i] \in ToSet(q)
      /\ \A i, j \in 1 .. Len(q) : q[i] = q[j] => i = j
  BY NodeSeq DEF Links
<1>. DEFINE S == {x \in Node : \E i \in 1 .. Len(q) : q[i] = x /\ \A j \in 1 .. i-1 : data[q[j]] # d}
<1>2. S \subseteq Node \ Unlinked /\ \A x \in S : x \in ToSet(q)
  BY <1>1
<1>3. head \in S \cup {NULL, Dangling}
  <2>1. CASE Len(q) = 0
    BY <2>1 DEF Links, Linked
  <2>2. CASE Len(q) # 0
    <3>1. 1 \in 1 .. Len(q) /\ \A j \in 1 .. 1-1 : FALSE
      BY <1>1, <2>2
    <3>2. q[1] \in S
      BY <1>1, <3>1
    <3>. QED  BY <2>2, <3>2 DEF Links, Linked
  <2>. QED  BY <2>1, <2>2
<1>4. ASSUME NEW x \in S, data[x] # d  PROVE next[x] \in S \cup {NULL, Dangling}
  <2>1. PICK i \in 1 .. Len(q) : q[i] = x /\ \A j \in 1 .. i-1 : data[q[j]] # d
    OBVIOUS
  <2>2. CASE i = Len(q)
    BY <2>1, <2>2 DEF Links, Linked
  <2>3. CASE i # Len(q)
    <3>1. i + 1 \in 1 .. Len(q) /\ \A j \in 1 .. (i+1)-1 : j \in 1 .. i-1 \/ j = i
      BY <1>1, <2>3
    <3>2. \A j \in 1 .. (i+1)-1 : data[q[j]] # d
      BY <1>4, <2>1, <3>1
    <3>3. q[i+1] \in S
      BY <1>1, <3>1, <3>2
    <3>4. next[x] = q[i+1]
      BY <2>1, <2>3 DEF Links, Linked
    <3>. QED  BY <3>3, <3>4
  <2>. QED  BY <2>2, <2>3
<1>5. ASSUME NEW i \in 1 .. Len(q), q[i] \in S, NEW j \in 1 .. i-1  PROVE data[q[j]] # d
  <2>1. PICK m \in 1 .. Len(q) : q[m] = q[i] /\ \A l \in 1 .. m-1 : data[q[l]] # d
    BY <1>5
  <2>2. m = i
    BY <1>1, <2>1
  <2>. QED  BY <2>1, <2>2
<1>. HIDE DEF S
<1>6. Search(S, head, d, q)
  BY <1>2, <1>3, <1>4, <1>5 DEF Search
<1>7. S \in SUBSET Node
  BY <1>2
<1>. QED  BY <1>6, <1>7

-----------------------------------------------------------------------------
(* Whole is kept by each statement, and what the walk from the head meets  *)
(* is followed by the same, one node more, or all but the first with an    *)
(* element.                                                                *)
Follows(q, r) ==
  \/ r = q /\ \A n \in ToSet(q) : data'[n] = data[n]
  \/ data' = data /\ \E n \in Node : r = Append(q, n)
  \/ /\ data' = data
     /\ \E k \in 1 .. Len(q) :
          r = RemoveAt(q, k) /\ \A j \in 1 .. k-1 : data[q[j]] # data[q[k]]

WholeNext(q) == \E r, s : Whole(r, s)' /\ Follows(q, r)

KeepsWalkers ==
  \A u \in Thread : Walking(u)' => Walking(u) /\ node'[u] = node[u] /\ elem'[u] = elem[u]

(* A statement that changes no pointer leaves every search its way.        *)
LEMMA SearchesSame ==
  ASSUME NEW q, NEW s, Links(q, s), Searches(q), KeepsWalkers, Unlinked' \subseteq Unlinked,
         \A x \in Node \ Unlinked : next'[x] = next[x] /\ data'[x] = data[x]
  PROVE  Searches(q)'
<1>. SUFFICES ASSUME NEW u \in Thread, Walking(u)'  PROVE Led(u, q)'
  BY DEF Searches
<1>1. Walking(u) /\ node'[u] = node[u] /\ elem'[u] = elem[u]
  BY DEF KeepsWalkers
<1>2. PICK S \in SUBSET Node : Search(S, node[u], elem[u], q)
  BY <1>1 DEF Searches, Led
<1>3. q \in Seq(Node) /\ \A i \in 1 .. Len(q) : q[i] \notin Unlinked
  BY NodeSeq DEF Links
<1>4. PICK n, d : n = node[u] /\ d = elem[u]
  OBVIOUS
<1>5. Search(S, n, d, q)
  BY <1>2, <1>4
<1>6. Search(S, n, d, q)'
  BY <1>3, <1>5, SearchSame
<1>7. Search(S, node[u], elem[u], q)'
  BY <1>1, <1>4, <1>6 DEF Search
<1>. QED  BY <1>7 DEF Led

(* The statements outside of ll_insert and ll_remove.                      *)
LEMMA Quiet ==
  ASSUME NEW q, NEW s, Links(q, s), Between(q, s), UNCHANGED listVars,
         \A u \in Thread : {pc[u], pc'[u]} \cap (Changing \cup {"free"}) # {} =>
           pc'[u] = pc[u] /\ node'[u] = node[u] /\ elem'[u] = elem[u] /\ reg'[u] = reg[u]
  PROVE  Links(q, s)' /\ Between(q, s)' /\ Unlinked' = Unlinked /\ Follows(q, q)
<1>. USE DEF listVars
<1>1. {"first", "append"} \subseteq Changing
  BY DEF Changing, Label
<1>2. Unlinked' = Unlinked
  BY <1>1 DEF Unlinked
<1>3. Links(q, s)'
  BY <1>2 DEF Links
<1>4. ASSUME NEW u \in Thread, pc'[u] \in Changing
      PROVE  Inserts(u, q, s)' /\ Removes(u, q, s)'
  <2>1. /\ pc'[u] = pc[u] /\ node'[u] = node[u] /\ elem'[u] = elem[u] /\ reg'[u] = reg[u]
        /\ pc[u] \in Changing
    BY <1>4
  <2>2. Inserts(u, q, s) /\ Removes(u, q, s)
    BY <2>1 DEF Between
  <2>. QED  BY <2>1, <2>2 DEF Inserts, Removes, InBoth, InForth, Out, First
<1>5. (\A u \in Thread : pc'[u] \notin Changing) => s = q /\ count' = Len(q)
  BY DEF Between
<1>. QED  BY <1>2, <1>3, <1>4, <1>5 DEF Between, Follows

(* A statement that changes neither the list nor a local variable.         *)
LEMMA StutterKeeps ==
  ASSUME CallsInv, NEW q, NEW s, Whole(q, s), UNCHANGED <<listVars, pc, localVars>>
  PROVE  WholeNext(q)
<1>. USE DEF localVars
<1>1. /\ UNCHANGED listVars /\ KeepsWalkers
      /\ \A u \in Thread : {pc[u], pc'[u]} \cap (Changing \cup {"free"}) # {} =>
           pc'[u] = pc[u] /\ node'[u] = node[u] /\ elem'[u] = elem[u] /\ reg'[u] = reg[u]
  BY DEF KeepsWalkers, Walking
<1>2. Links(q, s)' /\ Between(q, s)' /\ Unlinked' = Unlinked /\ Follows(q, q)
  BY <1>1, Quiet DEF Whole
<1>3. Searches(q)'
  BY <1>1, <1>2, SearchesSame DEF Whole, listVars
<1>. QED  BY <1>2, <1>3 DEF WholeNext, Whole

(* A call that begins, gets the mutex or is refused changes no node.       *)
LEMMA CallKeeps ==
  ASSUME CallsInv, NEW q, NEW s, Whole(q, s), NEW t \in Thread,
         \/ \E c \in Calls, d \in Data : Call(t, c, d)
         \/ Lock(t) /\ call[t] # "getThreadInfo"
         \/ FindEnd(t) /\ Step(t, "walk", "idle")
  PROVE  WholeNext(q)
<1>. USE DEF Typed, CallsInv
<1>1. /\ UNCHANGED listVars /\ KeepsWalkers
      /\ \A u \in Thread : {pc[u], pc'[u]} \cap (Changing \cup {"free"}) # {} =>
           pc'[u] = pc[u] /\ node'[u] = node[u] /\ elem'[u] = elem[u] /\ reg'[u] = reg[u]
  <2>1. ASSUME NEW c \in Calls, NEW d \in Data, Call(t, c, d)
        PROVE  /\ UNCHANGED <<listVars, node, reg>> /\ pc[t] = "idle"
               /\ \E to \in {"lock", "find"} : pc' = [pc EXCEPT ![t] = to]
               /\ call' = [call EXCEPT ![t] = c] /\ elem' = [elem EXCEPT ![t] = d]
    BY <2>1 DEF Call, Step
  <2>2. CASE \E c \in Calls, d \in Data : Call(t, c, d)
    BY <2>1, <2>2 DEF Changing, Label, KeepsWalkers, Walking
  <2>3. CASE Lock(t) /\ call[t] # "getThreadInfo"
    BY <2>3 DEF Lock, Step, localVars, Changing, Label, KeepsWalkers, Walking
  <2>4. CASE FindEnd(t) /\ Step(t, "walk", "idle")
    <3>1. pc[t] = "walk" /\ pc' = [pc EXCEPT ![t] = "idle"] /\ pc'[t] = "idle"
      BY <2>4 DEF Step
    <3>2. /\ ~Faults(t, "walk", node[t])
          /\ ~Step(t, "walk", "insert") /\ ~Step(t, "walk", "remove")
      BY <3>1 DEF Faults, Step
    <3>3. Return(t) /\ UNCHANGED listVars
      BY <2>4, <3>2 DEF FindEnd
    <3>. QED  BY <3>1, <3>3 DEF Return, Returns, Changing, Label, KeepsWalkers, Walking
  <2>. QED  BY <2>2, <2>3, <2>4
<1>2. Links(q, s)' /\ Between(q, s)' /\ Unlinked' = Unlinked /\ Follows(q, q)
  BY <1>1, Quiet DEF Whole
<1>3. Searches(q)'
  BY <1>1, <1>2, SearchesSame DEF Whole, listVars
<1>. QED  BY <1>2, <1>3 DEF WholeNext, Whole

(* A fault changes nothing but `fault'.                                    *)
LEMMA FaultKeeps ==
  ASSUME CallsInv, NEW q, NEW s, Whole(q, s), NEW t, NEW from, NEW n, Faults(t, from, n)
  PROVE  WholeNext(q)
BY StutterKeeps DEF Faults

(* A search begins at the head and goes on along `next'.                   *)
LEMMA FindKeeps ==
  ASSUME CallsInv, NEW q, NEW s, Whole(q, s), NEW t \in Thread, FindHead(t) \/ FindNext(t)
  PROVE  WholeNext(q)
<1>. USE DEF Typed, CallsInv
<1>1. /\ UNCHANGED <<listVars, call, elem, reg>> /\ pc' = [pc EXCEPT ![t] = "walk"]
      /\ pc[t] \in {"find", "walk"} /\ \A u \in Thread \ {t} : node'[u] = node[u]
      /\ \/ node'[t] = head
         \/ node'[t] = next[node[t]] /\ pc[t] = "walk" /\ node[t] \in Node /\ data[node[t]] # elem[t]
  BY DEF FindHead, FindNext, Step, Valid
<1>2. Links(q, s)' /\ Between(q, s)' /\ Unlinked' = Unlinked /\ Follows(q, q)
  <2>1. \A u \in Thread : {pc[u], pc'[u]} \cap (Changing \cup {"free"}) # {} =>
          pc'[u] = pc[u] /\ node'[u] = node[u] /\ elem'[u] = elem[u] /\ reg'[u] = reg[u]
    BY <1>1 DEF Changing, Label
  <2>. QED  BY <1>1, <2>1, Quiet DEF Whole
<1>3. ASSUME NEW u \in Thread, Walking(u)', NEW n, n = node'[u]
      PROVE  \E S \in SUBSET Node : Search(S, n, elem[u], q)
  <2>1. CASE u # t
    BY <1>1, <1>3, <2>1 DEF Whole, Searches, Walking, Led
  <2>2. CASE u = t /\ node'[t] = head
    BY <1>3, <2>2, SearchBegins DEF Whole
  <2>3. CASE u = t /\ node'[t] # head
    <3>1. /\ Walking(t) /\ node[t] \in Node /\ data[node[t]] # elem[t]
          /\ node'[t] = next[node[t]]
      BY <1>1, <1>3, <2>3 DEF Walking
    <3>2. PICK S \in SUBSET Node : Search(S, node[t], elem[t], q)
      BY <3>1 DEF Whole, Searches, Led
    <3>3. Search(S, n, elem[t], q)
      BY <1>3, <2>3, <3>1, <3>2, SharedAssumption DEF Search
    <3>. QED  BY <2>3, <3>3
  <2>. QED  BY <2>1, <2>2, <2>3
<1>4. Searches(q)'
  <2>. SUFFICES ASSUME NEW u \in Thread, Walking(u)'  PROVE Led(u, q)'
    BY DEF Searches
  <2>1. PICK n : n = node'[u]
    OBVIOUS
  <2>2. PICK S \in SUBSET Node : Search(S, n, elem[u], q)
    BY <1>3, <2>1
  <2>3. Search(S, node[u], elem[u], q)'
    BY <1>1, <1>2, <2>1, <2>2 DEF Search, listVars
  <2>. QED  BY <2>3 DEF Led
<1>. QED  BY <1>2, <1>4 DEF WholeNext, Whole

(* A search that found the element found the first node that has it.       *)
LEMMA EnterKeeps ==
  ASSUME CallsInv, NEW q, NEW s, Whole(q, s), NEW t \in Thread, ~overlap',
         \/ Lock(t) /\ call[t] = "getThreadInfo"
         \/ FindEnd(t) /\ (Step(t, "walk", "insert") \/ Step(t, "walk", "remove"))
  PROVE  WholeNext(q)
<1>. USE DEF Typed, CallsInv
<1>1. PICK from \in {"lock", "walk"}, to \in {"insert", "remove"} :
        /\ Step(t, from, to) /\ UNCHANGED <<listVars, localVars>>
        /\ to = "remove" => /\ from = "walk" /\ call[t] # "LOGIN"
                            /\ node[t] \in Node /\ data[node[t]] = elem[t]
  BY SharedAssumption DEF Lock, FindEnd, Faults, Step, Valid, Return
<1>2. /\ pc' = [pc EXCEPT ![t] = to] /\ pc[t] = from
      /\ from \notin Changing \cup {"first", "append"} /\ to \in Changing
  BY <1>1 DEF Step, Changing, Label
<1>3. s = q /\ count = Len(q)
  BY <1>1, <1>2 DEF Step, Whole, Between
<1>4. Unlinked' \subseteq Unlinked
  BY <1>1, <1>2, UnlinkedStep DEF listVars, localVars
<1>5. Links(q, q)'
  <2>1. \A u \in Thread : pc'[u] = "free" => node'[u] \notin ToSet(q)
    BY <1>1, <1>2 DEF Whole, Links, localVars
  <2>. QED  BY <1>1, <1>3, <1>4, <2>1 DEF Whole, Links, listVars
<1>6. to = "remove" => InBoth(q, q, node[t], elem[t])
  <2>. SUFFICES ASSUME to = "remove"  PROVE \E k \in 1 .. Len(q) : First(q, node[t], elem[t], k)
    BY <1>3 DEF InBoth
  <2>1. PICK S \in SUBSET Node : Search(S, node[t], elem[t], q)
    BY <1>1, <1>2 DEF Whole, Searches, Walking, Led
  <2>2. node[t] \in S /\ node[t] \in ToSet(q)
    BY <1>1, <2>1, SharedAssumption DEF Search
  <2>3. PICK k \in 1 .. Len(q) : q[k] = node[t]
    BY <2>2, NodeSeq DEF Whole, Links
  <2>. QED  BY <2>1, <2>2, <2>3 DEF Search, First
<1>7. Between(q, q)'
  <2>1. Inserts(t, q, q)' /\ Removes(t, q, q)'
    BY <1>1, <1>2, <1>3, <1>6 DEF Inserts, Removes, InBoth, First, listVars, localVars
  <2>. QED  BY <1>1, <1>2, <2>1, BetweenStep
<1>8. KeepsWalkers
  BY <1>1, <1>2 DEF KeepsWalkers, Walking, localVars
<1>9. Searches(q)'
  BY <1>1, <1>4, <1>8, SearchesSame DEF Whole, listVars
<1>10. Follows(q, q)
  BY <1>1 DEF Follows, listVars
<1>. QED  BY <1>5, <1>7, <1>9, <1>10 DEF WholeNext, Whole

(* The other threads search for what they searched for.                    *)
LEMMA WalkersStep ==
  ASSUME CallsInv, NEW t \in Thread, NEW to, pc' = [pc EXCEPT ![t] = to], to # "walk",
         \A u \in Thread \ {t} : node'[u] = node[u] /\ elem'[u] = elem[u] /\ call'[u] = call[u]
  PROVE  KeepsWalkers
BY DEF KeepsWalkers, Walking, CallsInv, Typed

(* A statement that changes no pointer on the way of a walk.               *)
LEMMA Unwritten ==
  ASSUME CallsInv, NEW q, NEW s, Links(q, s), Searches(q), NEW t \in Thread, NEW to,
         pc' = [pc EXCEPT ![t] = to], to \notin {"walk", "first", "append"},
         UNCHANGED <<head, tail, next, data, free>>, \A n \in ToSet(s) : prev'[n] = prev[n],
         \A u \in Thread \ {t} : node'[u] = node[u] /\ elem'[u] = elem[u] /\ call'[u] = call[u],
         to = "free" => node'[t] \notin ToSet(q)
  PROVE  Links(q, s)' /\ Searches(q)' /\ Follows(q, q)
<1>1. Unlinked' \subseteq Unlinked
  BY UnlinkedStep
<1>2. \A u \in Thread : pc'[u] = "free" => node'[u] \notin ToSet(q)
  BY DEF CallsInv, Typed, Links
<1>3. Links(q, s)'
  <2>1. \A n \in ToSet(q) : n \notin Unlinked' /\ next'[n] = next[n] /\ data'[n] = data[n]
    BY <1>1 DEF Links
  <2>. QED  BY <1>2, <2>1, LinksSame
<1>4. Searches(q)'
  <2>1. KeepsWalkers
    BY WalkersStep
  <2>. QED  BY <1>1, <2>1, SearchesSame
<1>. QED  BY <1>3, <1>4 DEF Follows

(* A node is freed by the one thread that works on it.                     *)
LEMMA OtherNode ==
  ASSUME CallsInv, NEW t \in Thread, NEW u \in Thread, t # u, pc[u] = "free",
         pc[t] \in Changing \ {"insert"}
  PROVE  node[u] # node[t]
<1>1. pc[t] # "idle" /\ pc[u] # "idle"
  BY DEF Changing
<1>2. elem[u] \in Block /\ elem[u] \notin String
  BY <1>1, SharedAssumption DEF CallsInv, CallsFit, CallFits, Locks
<1>3. data[node[u]] = elem[u] /\ data[node[t]] = elem[t]
  BY DEF CallsInv, Hands
<1>. QED  BY <1>1, <1>2, <1>3 DEF CallsInv, Owners

(* The head is NULL exactly when nothing is in the list.                   *)
LEMMA EmptyList ==
  ASSUME NEW q, NEW s, Links(q, s)
  PROVE  /\ head = NULL <=> q = <<>>
         /\ Len(q) = 0 <=> q = <<>>
<1>1. Len(q) \in Nat /\ (Len(q) = 0 <=> q = <<>>) /\ \A i \in 1 .. Len(q) : q[i] \in Node
  BY NodeSeq, EmptySeq DEF Links
<1>2. Len(q) # 0 => 1 \in 1 .. Len(q)
  BY <1>1
<1>. QED  BY <1>1, <1>2, SharedAssumption DEF Links, Linked

(* A node that calloc returns is on nobody's way.                          *)
LEMMA InsertKeeps ==
  ASSUME CallsInv, NEW q, NEW s, Whole(q, s), NEW t \in Thread, Insert(t), ~overlap'
  PROVE  WholeNext(q)
<1>. USE DEF Typed, CallsInv
<1>1. PICK n \in free :
        /\ free' = free \ {n}
        /\ node' = [node EXCEPT ![t] = n]
        /\ data' = [data EXCEPT ![n] = elem[t]]
        /\ next' = [next EXCEPT ![n] = NULL]
        /\ prev' = [prev EXCEPT ![n] = NULL]
  BY DEF Insert
<1>2. PICK to \in {"first", "append"} :
        Step(t, "insert", to) /\ (to = "first" <=> head = NULL)
  BY DEF Insert
<1>3. /\ pc[t] = "insert" /\ pc' = [pc EXCEPT ![t] = to] /\ "insert" \in Changing
      /\ {"first", "append"} \subseteq Changing
      /\ UNCHANGED <<head, tail, count, call, elem>>
  BY <1>2 DEF Insert, Step, Changing, Label
<1>4. s = q /\ count = Len(q)
  BY <1>3 DEF Whole, Between, Inserts
<1>5. Unlinked' \subseteq Unlinked
  <2>. SUFFICES ASSUME NEW x \in Unlinked', x \notin free  PROVE x \in Unlinked
    BY DEF Unlinked
  <2>1. PICK u \in Thread : pc'[u] \in {"first", "append"} /\ node'[u] = x
    BY <1>1 DEF Unlinked
  <2>2. u # t
    BY <1>1, <2>1
  <2>. QED  BY <1>1, <1>3, <2>1, <2>2 DEF Unlinked
<1>6. \A x \in Node \ Unlinked : next'[x] = next[x] /\ prev'[x] = prev[x] /\ data'[x] = data[x]
  BY <1>1 DEF Unlinked
<1>7. Links(q, q)'
  <2>1. \A x \in ToSet(q) : x \in Node \ Unlinked
    BY NodeSeq DEF Whole, Links
  <2>2. \A u \in Thread : pc'[u] = "free" => node'[u] \notin ToSet(q)
    BY <1>1, <1>3 DEF Whole, Links
  <2>. QED  BY <1>3, <1>4, <1>5, <1>6, <2>1, <2>2, LinksSame DEF Whole
<1>8. Between(q, q)'
  <2>1. to = "first" <=> q = <<>>
    BY <1>2, EmptyList DEF Whole
  <2>2. Inserts(t, q, q)' /\ Removes(t, q, q)'
    BY <1>1, <1>3, <1>4, <2>1 DEF Inserts, Removes
  <2>. QED  BY <1>2, <1>3, <2>2, BetweenStep
<1>9. Searches(q)'
  <2>1. KeepsWalkers
    BY <1>1, <1>3, WalkersStep
  <2>. QED  BY <1>5, <1>6, <2>1, SearchesSame DEF Whole
<1>10. Follows(q, q)
  <2>1. \A x \in ToSet(q) : x \in Node \ Unlinked
    BY NodeSeq DEF Whole, Links
  <2>. QED  BY <1>6, <2>1 DEF Follows
<1>. QED  BY <1>7, <1>8, <1>9, <1>10 DEF WholeNext, Whole

(* The new node becomes the last that a walk meets.                        *)
LEMMA LinkKeeps ==
  ASSUME CallsInv, NEW q, NEW s, Whole(q, s), NEW t \in Thread, ~overlap',
         pc[t] \in {"first", "append"}, InsertFirst(t) \/ InsertLast(t),
         ~Faults(t, "append", tail)
  PROVE  WholeNext(q)
<1>. USE DEF Typed, CallsInv
<1>1. PICK n : n = node[t]
  OBVIOUS
<1>2. PICK to \in {"firstTail", "appendPrev"} :
        /\ Step(t, pc[t], to) /\ (to = "firstTail" <=> pc[t] = "first")
        /\ UNCHANGED <<tail, prev, count, data, free, localVars>>
        /\ to = "firstTail" => head' = node[t] /\ next' = next
        /\ to = "appendPrev" => head' = head /\ next' = [next EXCEPT ![tail] = node[t]]
  BY DEF InsertFirst, InsertLast, Step
<1>3. /\ pc' = [pc EXCEPT ![t] = to] /\ pc[t] \in Changing \ {"insert"} /\ to \in Changing
      /\ UNCHANGED <<elem, node, call>>
  BY <1>2 DEF Step, Changing, Label, localVars
<1>4. /\ n \in Node /\ data[n] \in Data /\ n \in Unlinked
  <2>1. elem[t] \in Data
    BY DEF CallsFit, CallFits
  <2>. QED  BY <1>1, <1>3, <2>1 DEF Hands, Unlinked
<1>5. /\ s = q /\ count = Len(q) /\ next[n] = NULL /\ prev[n] = NULL
      /\ (pc[t] = "first" => q = <<>>) /\ (pc[t] = "append" => q # <<>>)
  BY <1>1, <1>3 DEF Whole, Between, Inserts
<1>6. Links(q, q) /\ Len(q) \in Nat /\ (Len(q) = 0 <=> q = <<>>)
  BY <1>5, EmptyList, NodeSeq DEF Whole, Links
<1>7. /\ head' = (IF Len(q) = 0 THEN n ELSE head)
      /\ next' = (IF Len(q) = 0 THEN next ELSE [next EXCEPT ![q[Len(q)]] = n])
  <2>1. Len(q) # 0 => tail = q[Len(q)]
    BY <1>6 DEF Links, Backed
  <2>. QED  BY <1>1, <1>2, <1>5, <1>6, <2>1
<1>8. Unlinked' \subseteq Unlinked \ {n}
  BY <1>1, <1>2, <1>3, UnlinkedStep
<1>9. Links(Append(q, n), q)' /\ n \notin ToSet(q)
  <2>1. ASSUME NEW u \in Thread, pc'[u] = "free"
        PROVE  pc[u] = "free" /\ node'[u] = node[u] /\ node[u] # n
    <3>1. u # t /\ pc[u] = "free"
      BY <1>3, <2>1
    <3>. QED  BY <1>1, <1>3, <3>1, OtherNode
  <2>. QED  BY <1>2, <1>4, <1>5, <1>6, <1>7, <1>8, <2>1, LinkForth
<1>10. Between(Append(q, n), q)'
  <2>1. pc[t] = "first" => Append(q, n) = <<n>>
    BY <1>5
  <2>2. pc[t] = "first" => count = 0
    BY <1>5, <1>6
  <2>3. PICK r : r = Append(q, n)
    OBVIOUS
  <2>4. to = "firstTail" => r = <<n>> /\ q = <<>> /\ count = 0
    BY <1>2, <1>5, <2>1, <2>2, <2>3
  <2>5. Inserts(t, r, q)' /\ Removes(t, r, q)'
    BY <1>1, <1>2, <1>3, <1>5, <1>9, <2>3, <2>4 DEF Inserts, Removes
  <2>6. Between(r, q)'
    BY <1>2, <1>3, <2>5, BetweenStep
  <2>. QED  BY <2>3, <2>6
<1>11. Searches(Append(q, n))'
  <2>. SUFFICES ASSUME NEW u \in Thread, Walking(u)'  PROVE Led(u, Append(q, n))'
    BY DEF Searches
  <2>1. Walking(u) /\ node'[u] = node[u] /\ elem'[u] = elem[u]
    BY <1>3 DEF Walking
  <2>2. PICK m, d : m = node[u] /\ d = elem[u]
    OBVIOUS
  <2>3. PICK S \in SUBSET Node : Search(S, m, d, q)
    BY <2>1, <2>2 DEF Whole, Searches, Led
  <2>4. data' = data
    BY <1>2
  <2>5. PICK T \in SUBSET Node : Search(T, m, d, Append(q, n))'
    BY <1>4, <1>5, <1>6, <1>7, <1>8, <2>3, <2>4, SearchLinked
  <2>6. Search(T, node[u], elem[u], Append(q, n))'
    BY <2>1, <2>2, <2>5 DEF Search
  <2>. QED  BY <2>6 DEF Led
<1>12. Follows(q, Append(q, n))
  BY <1>2, <1>4 DEF Follows
<1>13. Whole(Append(q, n), q)'
  BY <1>9, <1>10, <1>11 DEF Whole
<1>. QED  BY <1>12, <1>13 DEF WholeNext

(* Then it becomes the first of the way back.                              *)
LEMMA LinkBackKeeps ==
  ASSUME CallsInv, NEW q, NEW s, Whole(q, s), NEW t \in Thread, ~overlap',
         pc[t] \in {"firstTail", "appendTail"}, InsertFirst(t) \/ InsertLast(t)
  PROVE  WholeNext(q)
<1>. USE DEF Typed, CallsInv
<1>1. PICK n : n = node[t]
  OBVIOUS
<1>2. PICK to \in {"firstLinks", "inc"} :
        /\ Step(t, pc[t], to) /\ (to = "firstLinks" <=> pc[t] = "firstTail")
        /\ UNCHANGED <<head, next, prev, count, data, free, localVars>>
        /\ tail' = node[t]
  BY DEF InsertFirst, InsertLast, Step, Faults
<1>3. /\ pc' = [pc EXCEPT ![t] = to] /\ pc[t] \in Changing \ {"insert"} /\ to \in Changing
      /\ UNCHANGED <<elem, node, call>>
  BY <1>2 DEF Step, Changing, Label, localVars
<1>4. n \in Node
  BY <1>1, <1>3 DEF Hands
<1>5. /\ q = Append(s, n) /\ n \notin ToSet(s) /\ count = Len(s) /\ prev[n] = tail
      /\ Len(s) \in Nat /\ Len(q) = Len(s) + 1 /\ (pc[t] = "firstTail" => q = <<n>> /\ count = 0)
      /\ n \in ToSet(q)
  <2>0. n \in ToSet(Append(s, n))
    BY <1>4, AppendElements DEF Whole, Links
  <2>1. s \in Seq(Node)
    BY DEF Whole, Links
  <2>2. CASE pc[t] = "firstTail"
    <3>1. q = <<n>> /\ s = <<>> /\ count = 0 /\ prev[n] = NULL
      BY <1>1, <1>3, <2>2 DEF Whole, Between, Inserts
    <3>2. Len(s) = 0 /\ q = Append(s, n) /\ n \notin ToSet(s) /\ Len(q) = 1
      BY <3>1 DEF ToSet
    <3>3. tail = NULL
      BY <3>2 DEF Whole, Links, Backed
    <3>. QED  BY <2>0, <3>1, <3>2, <3>3
  <2>3. CASE pc[t] = "appendTail"
    <3>1. q = Append(s, n) /\ n \notin ToSet(s) /\ count = Len(s) /\ prev[n] = tail
      BY <1>1, <1>3, <2>3 DEF Whole, Between, Inserts
    <3>2. Len(q) = Len(s) + 1 /\ Len(s) \in Nat
      BY <1>4, <2>1, <3>1, AppendProperties, LenProperties
    <3>. QED  BY <2>0, <2>3, <3>1, <3>2
  <2>. QED  BY <2>2, <2>3
<1>6. Unlinked' \subseteq Unlinked
  BY <1>2, <1>3, UnlinkedStep
<1>7. Links(q, q)'
  <2>1. \A u \in Thread : pc'[u] = "free" => pc[u] = "free" /\ node'[u] = node[u]
    BY <1>2, <1>3
  <2>2. Links(Append(s, n), s) /\ tail' = n
    BY <1>1, <1>2, <1>5 DEF Whole
  <2>3. Links(Append(s, n), Append(s, n))'
    BY <1>2, <1>4, <1>5, <1>6, <2>1, <2>2, LinkBack
  <2>. QED  BY <1>5, <2>3
<1>8. Between(q, q)'
  <2>1. Inserts(t, q, q)' /\ Removes(t, q, q)'
    BY <1>1, <1>2, <1>3, <1>5 DEF Inserts, Removes
  <2>. QED  BY <1>2, <1>3, <2>1, BetweenStep
<1>9. Searches(q)'
  <2>1. KeepsWalkers
    BY <1>2, <1>3, WalkersStep
  <2>. QED  BY <1>2, <1>6, <2>1, SearchesSame DEF Whole
<1>10. Follows(q, q)
  BY <1>2 DEF Follows
<1>. QED  BY <1>7, <1>8, <1>9, <1>10 DEF WholeNext, Whole

(* Storing what is stored already changes nothing.                         *)
LEMMA Rewritten ==
  ASSUME NEW R, NEW f \in [Node -> R], NEW n, NEW v, f[n] = v
  PROVE  [f EXCEPT ![n] = v] = f
OBVIOUS

(* What is written to the new node is there already, or is not on the way. *)
LEMMA NewNodeKeeps ==
  ASSUME CallsInv, NEW q, NEW s, Whole(q, s), NEW t \in Thread, ~overlap',
         \/ pc[t] = "firstLinks" /\ InsertFirst(t)
         \/ pc[t] = "appendPrev" /\ InsertLast(t)
  PROVE  WholeNext(q)
<1>. USE DEF Typed, CallsInv
<1>1. PICK n : n = node[t]
  OBVIOUS
<1>2. PICK to \in {"inc", "appendTail"} :
        /\ Step(t, pc[t], to) /\ (to = "inc" <=> pc[t] = "firstLinks")
        /\ UNCHANGED <<head, tail, count, data, free, localVars>>
        /\ to = "inc" => next' = [next EXCEPT ![n] = NULL] /\ prev' = [prev EXCEPT ![n] = NULL]
        /\ to = "appendTail" => next' = next /\ prev' = [prev EXCEPT ![n] = tail]
  BY <1>1 DEF InsertFirst, InsertLast, Step, Faults
<1>3. /\ pc' = [pc EXCEPT ![t] = to] /\ pc[t] \in Changing \ {"insert"} /\ to \in Changing
      /\ UNCHANGED <<elem, node, call>>
  BY <1>2 DEF Step, Changing, Label, localVars
<1>4. n \in Node
  BY <1>1, <1>3 DEF Hands
<1>5. CASE pc[t] = "firstLinks"
  <2>1. q = <<n>> /\ s = q /\ count = 0
    BY <1>1, <1>3, <1>5 DEF Whole, Between, Inserts
  <2>2. Len(q) = 1 /\ q[1] = n /\ 1 \in 1 .. Len(q) /\ n \in ToSet(q)
    BY <2>1 DEF ToSet
  <2>3. next[n] = NULL
    BY <2>2 DEF Whole, Links, Linked
  <2>4. prev[n] = NULL
    BY <2>1, <2>2 DEF Whole, Links, Backed
  <2>5. next' = next /\ prev' = prev
    BY <1>2, <1>5, <2>3, <2>4, Rewritten
  <2>6. Links(q, s)' /\ Searches(q)' /\ Follows(q, q)
    BY <1>2, <1>3, <2>5, Unwritten DEF Whole
  <2>7. Between(q, s)'
    <3>1. Inserts(t, q, s)' /\ Removes(t, q, s)'
      BY <1>1, <1>2, <1>3, <1>5, <2>1, <2>2 DEF Inserts, Removes
    <3>. QED  BY <1>2, <1>3, <3>1, BetweenStep
  <2>. QED  BY <2>6, <2>7 DEF WholeNext, Whole
<1>6. CASE pc[t] = "appendPrev"
  <2>1. q = Append(s, n) /\ n \notin ToSet(s) /\ count = Len(s)
    BY <1>1, <1>3, <1>6 DEF Whole, Between, Inserts
  <2>2. /\ next' = next /\ prev'[n] = tail
        /\ \A m \in ToSet(s) : prev'[m] = prev[m]
    <3>1. ToSet(s) \subseteq Node
      BY NodeSeq DEF Whole, Links
    <3>. QED  BY <1>2, <1>4, <1>6, <2>1, <3>1
  <2>3. Links(q, s)' /\ Searches(q)' /\ Follows(q, q)
    BY <1>2, <1>3, <2>2, Unwritten DEF Whole
  <2>4. Between(q, s)'
    <3>1. Inserts(t, q, s)' /\ Removes(t, q, s)'
      BY <1>1, <1>2, <1>3, <1>6, <2>1, <2>2 DEF Inserts, Removes
    <3>. QED  BY <1>2, <1>3, <3>1, BetweenStep
  <2>. QED  BY <2>3, <2>4 DEF WholeNext, Whole
<1>. QED  BY <1>5, <1>6

(* With the count stored the insertion is over.                            *)
LEMMA CountUpKeeps ==
  ASSUME CallsInv, NEW q, NEW s, Whole(q, s), NEW t \in Thread, ~overlap', CountUp(t)
  PROVE  WholeNext(q)
<1>. USE DEF Typed, CallsInv
<1>1. PICK to \in {"incStore", "idle"} :
        /\ Step(t, pc[t], to) /\ pc[t] \in {"inc", "incStore"} /\ (to = "incStore" <=> pc[t] = "inc")
        /\ UNCHANGED <<head, tail, next, prev, data, free>>
        /\ to = "incStore" => count' = count /\ UNCHANGED <<call, elem, node>>
                              /\ reg' = [reg EXCEPT ![t] = count]
        /\ to = "idle" => count' = reg[t] + 1
        /\ \A u \in Thread \ {t} : node'[u] = node[u] /\ elem'[u] = elem[u] /\ call'[u] = call[u]
  BY DEF CountUp, Step, Return, Returns
<1>2. pc' = [pc EXCEPT ![t] = to] /\ pc[t] \in Changing /\ (to = "incStore" <=> to \in Changing)
  BY <1>1 DEF Step, Changing, Label
<1>3. /\ s = q /\ count + 1 = Len(q) /\ node[t] \in ToSet(q)
      /\ pc[t] = "incStore" => reg[t] = count
  BY <1>1, <1>2 DEF Whole, Between, Inserts
<1>4. Links(q, s)' /\ Searches(q)' /\ Follows(q, q)
  BY <1>1, <1>2, Unwritten DEF Whole
<1>5. Between(q, s)'
  <2>1. to \in Changing => Inserts(t, q, s)' /\ Removes(t, q, s)'
    BY <1>1, <1>2, <1>3 DEF Inserts, Removes
  <2>2. to \notin Changing => s = q /\ count' = Len(q)
    BY <1>1, <1>2, <1>3
  <2>. QED  BY <1>1, <1>2, <2>1, <2>2, BetweenStep
<1>. QED  BY <1>4, <1>5 DEF WholeNext, Whole

-----------------------------------------------------------------------------
(* What next and prev of the k-th node of the list say.                    *)
LEMMA NextOf ==
  ASSUME NEW q, NEW s, Links(q, s), NEW k \in 1 .. Len(q)
  PROVE  /\ Len(q) \in Nat /\ q[k] \in Node /\ (k > 1 => q[k-1] \in Node)
         /\ next[q[k]] = NULL => k = Len(q)
         /\ k # Len(q) => next[q[k]] = q[k+1] /\ q[k+1] \in Node
         /\ k = Len(q) => next[q[k]] = NULL
<1>1. Len(q) \in Nat /\ \A i \in 1 .. Len(q) : q[i] \in Node
  BY NodeSeq DEF Links
<1>2. (k > 1 => k - 1 \in 1 .. Len(q)) /\ (k # Len(q) => k + 1 \in 1 .. Len(q))
  BY <1>1
<1>. QED  BY <1>1, <1>2, SharedAssumption DEF Links, Linked

(* Nobody but a LOGIN searches for the element that is being removed.      *)
LEMMA OtherElement ==
  ASSUME CallsInv, NEW t \in Thread, NEW u \in Thread, Walking(u), pc[t] \in Changing,
         call[t] \in {"releaseThread", "EXIT"}
  PROVE  u # t /\ elem[u] # elem[t]
<1>1. pc[u] = "walk" /\ pc[t] # "idle" /\ u # t
  BY DEF Walking, Changing, Label
<1>. QED  BY <1>1 DEF Walking, CallsInv, Owners

(* A removal takes its node out of what a walk meets.                      *)
LEMMA UnlinkKeeps ==
  ASSUME CallsInv, NEW q, NEW s, Whole(q, s), NEW t \in Thread,
         pc[t] \in {"cutLast", "newHead", "joinNext"},
         NEW k \in 1 .. Len(q), First(q, node[t], elem[t], k), s = RemoveAt(q, k),
         NEW to, pc' = [pc EXCEPT ![t] = to], to \in {"unlink", "headPrev", "dec"},
         CutsForth(q, k), UNCHANGED <<free, localVars>>
  PROVE  /\ Links(s, s)' /\ Searches(s)' /\ Follows(q, s)
         /\ node[t] \notin ToSet(s) /\ Len(s) + 1 = Len(q) /\ next'[node[t]] = next[node[t]]
<1>. USE DEF Typed, CallsInv
<1>0. /\ Links(q, s) /\ q \in Seq(Node) /\ Once(q, Node) /\ Len(q) \in Nat
      /\ UNCHANGED <<call, elem, node>> /\ pc[t] \in Changing \ {"insert"}
      /\ to \notin {"walk", "first", "append"}
  BY NodeSeq DEF Whole, Links, localVars, Changing, Label
<1>1. Unlinked' \subseteq Unlinked
  BY <1>0, UnlinkedStep
<1>2. KeepsFree
  BY <1>0 DEF KeepsFree
<1>3. /\ Links(s, s)' /\ q[k] \notin ToSet(s) /\ Len(s) + 1 = Len(q) /\ next'[q[k]] = next[q[k]]
  <2>1. Links(q, RemoveAt(q, k))
    BY <1>0
  <2>2. next \in [Node -> Node \cup {NULL, Dangling}]
    OBVIOUS
  <2>. HIDE DEF Typed, CallsInv
  <2>3. /\ Links(RemoveAt(q, k), RemoveAt(q, k))'
        /\ q[k] \notin ToSet(RemoveAt(q, k)) /\ Len(RemoveAt(q, k)) + 1 = Len(q)
        /\ next'[q[k]] = next[q[k]]
    BY <1>1, <1>2, <2>1, <2>2, UnlinkForth
  <2>. QED  BY <2>3
<1>4. q[k] = node[t] /\ data[q[k]] = elem[t] /\ \A j \in 1 .. k-1 : data[q[j]] # elem[t]
  BY <1>0 DEF First, Hands
<1>5. Follows(q, s)
  BY <1>4 DEF Follows, CutsForth
<1>6. Searches(s)'
  <2>. SUFFICES ASSUME NEW u \in Thread, Walking(u)'  PROVE Led(u, s)'
    BY DEF Searches
  <2>1. Walking(u)
    BY <1>0 DEF Walking
  <2>2. PICK n, d : n = node[u] /\ d = elem[u]
    OBVIOUS
  <2>3. PICK S \in SUBSET Node : Search(S, n, d, q)
    BY <2>1, <2>2 DEF Whole, Searches, Led
  <2>4. data[q[k]] # d
    <3>1. call[t] \in {"releaseThread", "EXIT"}
      BY DEF CallsFit, CallFits, Removing
    <3>. QED  BY <1>0, <1>4, <2>1, <2>2, <3>1, OtherElement
  <2>5. \A i \in 1 .. Len(q) - 1 : next[q[i]] = q[i+1]
    <3>1. \A i \in 1 .. Len(q) - 1 : i \in 1 .. Len(q) /\ i # Len(q)
      BY <1>0
    <3>. QED  BY <1>0, <3>1, NextOf
  <2>6. Search(S, n, d, s)'
    BY <1>0, <1>1, <2>3, <2>4, <2>5, SearchUnlinked DEF CutsForth
  <2>7. Search(S, node[u], elem[u], s)'
    BY <1>0, <2>2, <2>6 DEF Search
  <2>. QED  BY <2>7 DEF Led
<1>. QED  BY <1>3, <1>4, <1>5, <1>6

(* The statements of ll_remove that look at the node behind.               *)
LEMMA RemoveBehindKeeps ==
  ASSUME CallsInv, NEW q, NEW s, Whole(q, s), NEW t \in Thread, ~overlap', RemoveBehind(t)
  PROVE  WholeNext(q)
<1>. USE DEF Typed, CallsInv
<1>1. PICK n, d : n = node[t] /\ d = elem[t]
  OBVIOUS
<1>2. PICK to \in {"cutTail", "joinPrev", "cutLast", "unlink"} :
        /\ Step(t, pc[t], to) /\ pc[t] \in {"remove", "cutTail", "joinPrev", "cutLast"}
        /\ pc[t] = "remove" <=> to \in {"cutTail", "joinPrev"}
        /\ pc[t] = "cutTail" <=> to = "cutLast"
        /\ UNCHANGED <<head, count, data, free, localVars>>
        /\ pc[t] = "remove" => UNCHANGED <<tail, next, prev>> /\ (to = "cutTail" => next[n] = NULL)
        /\ pc[t] = "cutTail" => UNCHANGED <<next, prev>> /\ tail' = prev[n]
        /\ pc[t] = "cutLast" => UNCHANGED <<tail, prev>> /\ 
             next' = IF prev[n] = NULL THEN next ELSE [next EXCEPT ![prev[n]] = NULL]
        /\ pc[t] = "joinPrev" => UNCHANGED <<tail, next>> /\ next[n] # NULL /\
             prev' = [prev EXCEPT ![next[n]] = prev[n]]
  BY <1>1, SharedAssumption DEF RemoveBehind, Step, Valid
<1>3. /\ pc' = [pc EXCEPT ![t] = to] /\ pc[t] \in Changing \ {"insert"} /\ to \in Changing
      /\ UNCHANGED <<elem, node, call>> /\ to \notin {"walk", "first", "append", "free"}
  BY <1>2 DEF Step, Changing, Label, localVars
<1>4. Links(q, s) /\ Removes(t, q, s)
  BY <1>3 DEF Whole, Between
<1>5. CASE pc[t] = "remove"
  <2>1. InBoth(q, s, n, d)
    BY <1>1, <1>4, <1>5 DEF Removes
  <2>2. Links(q, s)' /\ Searches(q)' /\ Follows(q, q)
    BY <1>2, <1>3, <1>5, Unwritten DEF Whole
  <2>3. Between(q, s)'
    <3>1. Inserts(t, q, s)' /\ Removes(t, q, s)'
      BY <1>1, <1>2, <1>3, <1>5, <2>1 DEF Inserts, Removes, InBoth, First
    <3>. QED  BY <1>2, <1>3, <3>1, BetweenStep
  <2>. QED  BY <2>2, <2>3 DEF WholeNext, Whole
<1>6. CASE pc[t] \in {"cutTail", "joinPrev"}
  <2>1. s = q /\ count = Len(q) /\ (pc[t] = "cutTail" => next[n] = NULL)
    BY <1>1, <1>4, <1>6 DEF Removes, InBoth
  <2>2. PICK k \in 1 .. Len(q) : First(q, n, d, k)
    BY <1>1, <1>4, <1>6 DEF Removes, InBoth
  <2>3. q[k] = n
    BY <2>2 DEF First
  <2>4. CutsBack(q, k) /\ UNCHANGED <<head, next, data>>
    BY <1>2, <1>4, <1>6, <2>1, <2>3, NextOf DEF CutsBack
  <2>5. Unlinked' \subseteq Unlinked
    BY <1>2, <1>3, UnlinkedStep
  <2>6. KeepsFree
    BY <1>3 DEF KeepsFree
  <2>7. PICK r : r = RemoveAt(q, k)
    OBVIOUS
  <2>8. Links(q, r)' /\ prev'[n] = (IF k = 1 THEN NULL ELSE q[k-1])
    <3>1. Links(q, q) /\ prev \in [Node -> Node \cup {NULL, Dangling}]
      BY <1>4, <2>1
    <3>. HIDE DEF Typed, CallsInv
    <3>2. /\ Links(q, RemoveAt(q, k))'
          /\ prev[q[k]] = (IF k = 1 THEN NULL ELSE q[k-1]) /\ prev'[q[k]] = prev[q[k]]
      BY <2>4, <2>5, <2>6, <3>1, UnlinkBack
    <3>. QED  BY <2>3, <2>7, <3>2
  <2>9. InForth(q, r, n, d)'
    BY <1>2, <2>1, <2>2, <2>7, <2>8 DEF InForth, First
  <2>10. Between(q, r)'
    <3>1. /\ pc'[t] = to /\ node'[t] = n /\ elem'[t] = d /\ to \in {"cutLast", "unlink"}
          /\ to = "cutLast" => next'[n] = NULL
      BY <1>1, <1>2, <1>3, <1>6, <2>1
    <3>2. Inserts(t, q, r)' /\ Removes(t, q, r)'
      BY <2>9, <3>1 DEF Inserts, Removes, InForth, First
    <3>. QED  BY <1>2, <1>3, <3>2, BetweenStep
  <2>11. Searches(q)'
    <3>1. KeepsWalkers
      BY <1>3, WalkersStep
    <3>. QED  BY <1>4, <2>4, <2>5, <3>1, SearchesSame DEF Whole
  <2>12. Follows(q, q)
    BY <2>4 DEF Follows
  <2>. QED  BY <2>8, <2>10, <2>11, <2>12 DEF WholeNext, Whole
<1>7. CASE pc[t] = "cutLast"
  <2>1. InForth(q, s, n, d) /\ next[n] = NULL
    BY <1>1, <1>4, <1>7 DEF Removes
  <2>2. to = "unlink"
    BY <1>2, <1>7
  <2>3. CASE prev[n] = NULL
    <3>1. Links(q, s)' /\ Searches(q)' /\ Follows(q, q)
      BY <1>2, <1>3, <1>7, <2>3, Unwritten DEF Whole
    <3>2. Between(q, s)'
      <4>1. InForth(q, s, n, d)'
        BY <1>2, <1>7, <2>1 DEF InForth, First
      <4>2. pc'[t] = "unlink" /\ node'[t] = n /\ elem'[t] = d
        BY <1>1, <1>3, <2>2
      <4>3. Inserts(t, q, s)' /\ Removes(t, q, s)'
        BY <4>1, <4>2 DEF Inserts, Removes, InForth, First
      <4>. QED  BY <1>2, <1>3, <4>3, BetweenStep
    <3>. QED  BY <3>1, <3>2 DEF WholeNext, Whole
  <2>4. CASE prev[n] # NULL
    <3>1. PICK k \in 1 .. Len(q) :
            First(q, n, d, k) /\ s = RemoveAt(q, k) /\ prev[n] = IF k = 1 THEN NULL ELSE q[k-1]
      BY <2>1 DEF InForth
    <3>2. /\ k # 1 /\ prev[n] = q[k-1] /\ q[k] = n /\ k = Len(q) /\ Len(q) \in Nat
          /\ count = Len(q)
      BY <1>4, <2>1, <2>4, <3>1, NextOf DEF First, InForth
    <3>3. CutsForth(q, k) /\ UNCHANGED <<prev, free, localVars>>
      BY <1>2, <1>7, <2>1, <2>4, <3>2 DEF CutsForth
    <3>4. /\ Links(s, s)' /\ Searches(s)' /\ Follows(q, s)
          /\ n \notin ToSet(s) /\ Len(s) + 1 = Len(q) /\ next'[n] = next[n]
      <4>. HIDE DEF Typed, CallsInv
      <4>1. pc' = [pc EXCEPT ![t] = "unlink"] /\ First(q, node[t], elem[t], k)
        BY <1>1, <1>3, <2>2, <3>1
      <4>2. s = RemoveAt(q, k) /\ pc[t] \in {"cutLast", "newHead", "joinNext"}
        BY <1>7, <3>1
      <4>3. /\ Links(s, s)' /\ Searches(s)' /\ Follows(q, s)
            /\ node[t] \notin ToSet(s) /\ Len(s) + 1 = Len(q) /\ next'[node[t]] = next[node[t]]
        BY <3>3, <4>1, <4>2, UnlinkKeeps
      <4>. QED  BY <1>1, <4>3
    <3>5. s # <<>> /\ s[Len(s)] = q[k-1]
      <4>1. q \in Seq(Node)
        BY <1>4 DEF Links
      <4>2. \A i \in 1 .. Len(q) - 1 : s[i] = IF i < k THEN q[i] ELSE q[i+1]
        BY <3>1, <4>1, RemoveAtShape
      <4>3. Len(s) = k - 1 /\ k - 1 \in 1 .. Len(q) - 1
        BY <3>2, <3>4
      <4>. QED  BY <4>2, <4>3
    <3>6. Between(s, s)'
      <4>1. Out(s, s, n)'
        BY <1>2, <3>2, <3>4 DEF Out
      <4>2. /\ pc'[t] = "unlink" /\ node'[t] = n
            /\ next'[n] = NULL /\ prev'[n] = s[Len(s)]
        BY <1>1, <1>3, <2>1, <2>2, <3>2, <3>3, <3>4, <3>5
      <4>3. Inserts(t, s, s)' /\ Removes(t, s, s)'
        BY <3>5, <4>1, <4>2 DEF Inserts, Removes, Out
      <4>. QED  BY <1>2, <1>3, <4>3, BetweenStep
    <3>. QED  BY <3>4, <3>6 DEF WholeNext, Whole
  <2>. QED  BY <2>3, <2>4
<1>. QED  BY <1>2, <1>5, <1>6, <1>7

(* The statements of ll_remove that look at the node before.               *)
LEMMA RemoveBeforeKeeps ==
  ASSUME CallsInv, NEW q, NEW s, Whole(q, s), NEW t \in Thread, ~overlap', RemoveBefore(t)
  PROVE  WholeNext(q)
<1>. USE DEF Typed, CallsInv
<1>1. PICK n, d : n = node[t] /\ d = elem[t]
  OBVIOUS
<1>2. PICK to \in {"newHead", "joinNext", "headPrev", "dec"} :
        /\ Step(t, pc[t], to) /\ pc[t] \in {"unlink", "newHead", "headPrev", "joinNext"}
        /\ pc[t] = "unlink" <=> to \in {"newHead", "joinNext"}
        /\ pc[t] = "newHead" <=> to = "headPrev"
        /\ UNCHANGED <<tail, count, data, free, localVars>>
        /\ pc[t] = "unlink" => UNCHANGED <<head, next, prev>> /\ (to = "newHead" <=> prev[n] = NULL)
        /\ pc[t] = "newHead" => UNCHANGED <<next, prev>> /\ head' = next[n]
        /\ pc[t] = "headPrev" => UNCHANGED <<head, next>> /\
             prev' = IF next[n] = NULL THEN prev ELSE [prev EXCEPT ![next[n]] = NULL]
        /\ pc[t] = "joinNext" =>
             UNCHANGED <<head, prev>> /\ next' = [next EXCEPT ![prev[n]] = next[n]]
  BY <1>1 DEF RemoveBefore, Step
<1>3. /\ pc' = [pc EXCEPT ![t] = to] /\ pc[t] \in Changing \ {"insert"} /\ to \in Changing
      /\ UNCHANGED <<elem, node, call>> /\ to \notin {"walk", "first", "append", "free"}
  BY <1>2 DEF Step, Changing, Label, localVars
<1>4. Links(q, s) /\ Removes(t, q, s) /\ Len(q) \in Nat /\ q \in Seq(Node)
  BY <1>3, NodeSeq DEF Whole, Between, Links
<1>. DEFINE InTail == Out(q, s, n) /\ q # <<>> /\ next[n] = NULL /\ prev[n] = q[Len(q)]
<1>5. ASSUME InTail  PROVE prev[n] \in Node /\ next[prev[n]] = NULL
  <2>1. Len(q) \in 1 .. Len(q)
    BY <1>4, <1>5, EmptyList
  <2>. QED  BY <1>4, <1>5, <2>1, NextOf
<1>6. CASE pc[t] = "unlink"
  <2>1. InForth(q, s, n, d) \/ InTail
    BY <1>1, <1>4, <1>6 DEF Removes
  <2>2. to = "newHead" => InForth(q, s, n, d)
    BY <1>2, <1>5, <1>6, <2>1, SharedAssumption
  <2>3. Links(q, s)' /\ Searches(q)' /\ Follows(q, q)
    BY <1>2, <1>3, <1>6, Unwritten DEF Whole
  <2>4. Between(q, s)'
    <3>1. Inserts(t, q, s)' /\ Removes(t, q, s)'
      BY <1>1, <1>2, <1>3, <1>6, <2>1, <2>2 DEF Inserts, Removes, InForth, First, Out
    <3>. QED  BY <1>2, <1>3, <3>1, BetweenStep
  <2>. QED  BY <2>3, <2>4 DEF WholeNext, Whole
<1>7. CASE pc[t] \in {"newHead", "joinNext"} /\ InForth(q, s, n, d)
  <2>1. PICK k \in 1 .. Len(q) :
          First(q, n, d, k) /\ s = RemoveAt(q, k) /\ prev[n] = IF k = 1 THEN NULL ELSE q[k-1]
    BY <1>7 DEF InForth
  <2>2. q[k] = n /\ count = Len(q) /\ (k > 1 => q[k-1] \in Node)
    BY <1>4, <1>7, <2>1, NextOf DEF First, InForth
  <2>3. pc[t] = "newHead" <=> k = 1
    <3>1. pc[t] = "newHead" => prev[n] = NULL
      BY <1>1, <1>4 DEF Removes
    <3>2. pc[t] = "joinNext" => prev[n] # NULL
      BY <1>1, <1>4 DEF Removes
    <3>3. k = 1 \/ k > 1
      BY <1>4
    <3>. QED  BY <1>7, <2>1, <2>2, <3>1, <3>2, <3>3, SharedAssumption
  <2>4. CutsForth(q, k) /\ UNCHANGED <<prev, free, localVars>>
    BY <1>2, <1>7, <2>1, <2>2, <2>3 DEF CutsForth
  <2>5. /\ Links(s, s)' /\ Searches(s)' /\ Follows(q, s)
        /\ n \notin ToSet(s) /\ Len(s) + 1 = Len(q) /\ next'[n] = next[n]
    <3>. HIDE DEF Typed, CallsInv
    <3>1. pc' = [pc EXCEPT ![t] = to] /\ First(q, node[t], elem[t], k)
      BY <1>1, <1>3, <2>1
    <3>2. to \in {"unlink", "headPrev", "dec"}
      BY <1>2, <1>7
    <3>3. s = RemoveAt(q, k) /\ pc[t] \in {"cutLast", "newHead", "joinNext"}
      BY <1>7, <2>1
    <3>4. /\ Links(s, s)' /\ Searches(s)' /\ Follows(q, s)
          /\ node[t] \notin ToSet(s) /\ Len(s) + 1 = Len(q) /\ next'[node[t]] = next[node[t]]
      BY <2>4, <3>1, <3>2, <3>3, UnlinkKeeps
    <3>. QED  BY <1>1, <3>4
  <2>6. Between(s, s)'
    <3>1. Out(s, s, n)'
      BY <1>2, <2>2, <2>5 DEF Out
    <3>2. /\ pc'[t] = to /\ to \in {"headPrev", "dec"} /\ node'[t] = n
          /\ to = "headPrev" => next'[n] = head'
      BY <1>1, <1>2, <1>3, <1>7, <2>5
    <3>3. Inserts(t, s, s)' /\ Removes(t, s, s)'
      BY <3>1, <3>2 DEF Inserts, Removes, Out
    <3>. QED  BY <1>2, <1>3, <3>3, BetweenStep
  <2>. QED  BY <2>5, <2>6 DEF WholeNext, Whole
<1>8. CASE pc[t] = "joinNext" /\ InTail
  <2>1. next' = next
    BY <1>2, <1>5, <1>8, Rewritten
  <2>2. Links(q, s)' /\ Searches(q)' /\ Follows(q, q)
    BY <1>2, <1>3, <1>8, <2>1, Unwritten DEF Whole
  <2>3. Between(q, s)'
    <3>1. Out(q, s, n)'
      BY <1>2, <1>8 DEF Out
    <3>2. pc'[t] = "dec" /\ node'[t] = n
      BY <1>1, <1>2, <1>3, <1>8
    <3>3. Inserts(t, q, s)' /\ Removes(t, q, s)'
      BY <3>1, <3>2 DEF Inserts, Removes, Out
    <3>. QED  BY <1>2, <1>3, <3>3, BetweenStep
  <2>. QED  BY <2>2, <2>3 DEF WholeNext, Whole
<1>9. CASE pc[t] = "headPrev"
  <2>1. Out(q, s, n) /\ next[n] = head /\ s = q
    BY <1>1, <1>4, <1>9 DEF Removes, Out
  <2>2. prev' = prev
    <3>1. CASE q = <<>>
      BY <1>2, <1>4, <1>9, <2>1, <3>1, EmptyList
    <3>2. CASE q # <<>>
      <4>1. 1 \in 1 .. Len(q) /\ Len(q) # 0
        BY <1>4, <3>2, EmptyList
      <4>2. head = q[1] /\ prev[q[1]] = NULL
        BY <1>4, <2>1, <4>1 DEF Links, Linked, Backed
      <4>. QED  BY <1>2, <1>9, <2>1, <4>2, Rewritten
    <3>. QED  BY <3>1, <3>2
  <2>3. Links(q, s)' /\ Searches(q)' /\ Follows(q, q)
    BY <1>2, <1>3, <1>9, <2>2, Unwritten DEF Whole
  <2>4. Between(q, s)'
    <3>1. Out(q, s, n)'
      BY <1>2, <2>1 DEF Out
    <3>2. pc'[t] = "dec" /\ node'[t] = n
      BY <1>1, <1>2, <1>3, <1>9
    <3>3. Inserts(t, q, s)' /\ Removes(t, q, s)'
      BY <3>1, <3>2 DEF Inserts, Removes, Out
    <3>. QED  BY <1>2, <1>3, <3>3, BetweenStep
  <2>. QED  BY <2>3, <2>4 DEF WholeNext, Whole
<1>10. pc[t] \in {"newHead", "joinNext"} => InForth(q, s, n, d) \/ (pc[t] = "joinNext" /\ InTail)
  BY <1>1, <1>4 DEF Removes
<1>. QED  BY <1>2, <1>6, <1>7, <1>8, <1>9, <1>10

(* With the count stored the removal is over.                              *)
LEMMA CountDownKeeps ==
  ASSUME CallsInv, NEW q, NEW s, Whole(q, s), NEW t \in Thread, ~overlap', CountDown(t)
  PROVE  WholeNext(q)
<1>. USE DEF Typed, CallsInv
<1>1. PICK to \in {"decStore", "idle", "free"} :
        /\ Step(t, pc[t], to) /\ pc[t] \in {"dec", "decStore"} /\ (to = "decStore" <=> pc[t] = "dec")
        /\ UNCHANGED <<head, tail, next, prev, data, free>>
        /\ to = "decStore" => count' = count /\ UNCHANGED <<call, elem, node>>
                              /\ reg' = [reg EXCEPT ![t] = count]
        /\ to # "decStore" => count' = reg[t] - 1
        /\ to = "free" => node'[t] = node[t]
        /\ \A u \in Thread \ {t} : node'[u] = node[u] /\ elem'[u] = elem[u] /\ call'[u] = call[u]
  <2>1. CASE pc[t] = "dec"
    BY <2>1 DEF CountDown, Step
  <2>2. CASE pc[t] # "dec" /\ call[t] = "EXIT"
    BY <2>2 DEF CountDown, Step, Return, Returns
  <2>3. CASE pc[t] # "dec" /\ call[t] # "EXIT"
    BY <2>3 DEF CountDown, Step, localVars
  <2>. QED  BY <2>1, <2>2, <2>3
<1>2. pc' = [pc EXCEPT ![t] = to] /\ pc[t] \in Changing /\ (to = "decStore" <=> to \in Changing)
  BY <1>1 DEF Step, Changing, Label
<1>3. Out(q, s, node[t]) /\ (pc[t] = "decStore" => reg[t] = count) /\ Len(q) \in Nat
  BY <1>1, <1>2, NodeSeq DEF Whole, Between, Removes, Links
<1>4. Links(q, s)' /\ Searches(q)' /\ Follows(q, q)
  <2>1. to = "free" => node'[t] \notin ToSet(q)
    BY <1>1, <1>3 DEF Out
  <2>. QED  BY <1>1, <1>2, <2>1, Unwritten DEF Whole
<1>5. Between(q, s)'
  <2>1. to \in Changing => Inserts(t, q, s)' /\ Removes(t, q, s)'
    BY <1>1, <1>2, <1>3 DEF Inserts, Removes, Out
  <2>2. to \notin Changing => s = q /\ count' = Len(q)
    BY <1>1, <1>2, <1>3 DEF Out
  <2>. QED  BY <1>1, <1>2, <2>1, <2>2, BetweenStep
<1>. QED  BY <1>4, <1>5 DEF WholeNext, Whole

(* No pointer that anybody will follow leads to the node that is freed.    *)
LEMMA FreeKeeps ==
  ASSUME CallsInv, NEW q, NEW s, Whole(q, s), NEW t \in Thread, FreeNode(t)
  PROVE  WholeNext(q)
<1>. USE DEF Typed, CallsInv
<1>1. PICK n : n = node[t]
  OBVIOUS
<1>. DEFINE Freed(p) == IF p = n THEN Dangling ELSE p
<1>2. /\ pc[t] = "free" /\ pc' = [pc EXCEPT ![t] = "idle"] /\ n \in Node
      /\ free' = free \cup {n} /\ head' = Freed(head) /\ tail' = Freed(tail)
      /\ \A x \in Node \ {n} :
           next'[x] = Freed(next[x]) /\ prev'[x] = Freed(prev[x]) /\ data'[x] = data[x]
      /\ \A u \in Thread \ {t} : node'[u] = Freed(node[u])
      /\ call' = [call EXCEPT ![t] = "none"] /\ elem' = [elem EXCEPT ![t] = NULL]
      /\ reg' = [reg EXCEPT ![t] = 0] /\ count' = count
  BY <1>1 DEF FreeNode, Step, Returns, Hands
<1>3. /\ Links(q, s) /\ n \notin ToSet(q) /\ n \notin ToSet(s)
      /\ Len(q) \in Nat /\ \A i \in 1 .. Len(q) : q[i] \in ToSet(q) /\ q[i] \in Node \ {n}
      /\ q \in Seq(Node) /\ ToSet(q) \subseteq Node /\ ToSet(s) \subseteq Node
  <2>1. n \notin ToSet(q) /\ Links(q, s)
    BY <1>1, <1>2 DEF Whole, Links
  <2>2. q \in Seq(Node) /\ s \in Seq(Node) /\ ToSet(s) \subseteq ToSet(q)
    BY <2>1 DEF Links
  <2>3. Len(q) \in Nat /\ \A i \in 1 .. Len(q) : q[i] \in ToSet(q)
    BY <2>2, NodeSeq
  <2>4. \A r \in Seq(Node) : ToSet(r) \subseteq Node
    BY NodeSeq
  <2>. QED  BY <2>1, <2>2, <2>3, <2>4
<1>4. ASSUME NEW u \in Thread, pc[u] \in Changing \ {"insert"}
      PROVE  u # t /\ node[u] \in Node \ {n} /\ node'[u] = node[u]
  <2>1. u # t
    BY <1>2, <1>4 DEF Changing
  <2>. QED  BY <1>1, <1>2, <1>4, <2>1, OtherNode DEF Hands
<1>5. head' = head /\ tail' = tail
  BY <1>2, <1>3, Ends, SharedAssumption
<1>6. Unlinked' \subseteq Unlinked \cup {n}
  <2>. SUFFICES ASSUME NEW x \in Unlinked', x \notin free'  PROVE x \in Unlinked
    BY <1>2 DEF Unlinked
  <2>1. PICK u \in Thread : pc'[u] \in {"first", "append"} /\ node'[u] = x
    BY DEF Unlinked
  <2>2. u # t /\ pc[u] \in {"first", "append"}
    BY <1>2, <2>1
  <2>3. node'[u] = node[u]
    BY <1>4, <2>2 DEF Changing, Label
  <2>. QED  BY <2>1, <2>2, <2>3 DEF Unlinked
<1>7. \A i \in 1 .. Len(q) : next'[q[i]] = next[q[i]] /\ data'[q[i]] = data[q[i]]
  <2>. SUFFICES ASSUME NEW i \in 1 .. Len(q)
                PROVE  next'[q[i]] = next[q[i]] /\ data'[q[i]] = data[q[i]]
    OBVIOUS
  <2>1. next[q[i]] # n
    <3>1. CASE i = Len(q)
      BY <1>2, <1>3, <3>1, NextOf, SharedAssumption
    <3>2. CASE i # Len(q)
      <4>1. i + 1 \in 1 .. Len(q)
        BY <1>3, <3>2
      <4>. QED  BY <1>3, <3>2, <4>1, NextOf
    <3>. QED  BY <3>1, <3>2
  <2>. QED  BY <1>2, <1>3, <2>1
<1>8. \A x \in ToSet(s) : prev'[x] = prev[x]
  <2>. SUFFICES ASSUME NEW x \in ToSet(s)  PROVE prev'[x] = prev[x]
    OBVIOUS
  <2>1. Len(s) \in Nat /\ \A i \in 1 .. Len(s) : s[i] \in ToSet(s)
    BY NodeSeq DEF Whole, Links
  <2>2. PICK i \in 1 .. Len(s) : s[i] = x
    BY NodeSeq DEF Whole, Links
  <2>3. prev[x] # n
    <3>1. CASE i = 1
      BY <1>2, <1>3, <2>2, <3>1, SharedAssumption DEF Links, Backed
    <3>2. CASE i # 1
      <4>1. i - 1 \in 1 .. Len(s)
        BY <2>1, <3>2
      <4>. QED  BY <1>3, <2>1, <2>2, <3>2, <4>1 DEF Links, Backed
    <3>. QED  BY <3>1, <3>2
  <2>. QED  BY <1>2, <1>3, <2>3
<1>9. \A x \in ToSet(q) : next'[x] = next[x] /\ data'[x] = data[x]
  <2>. SUFFICES ASSUME NEW x \in ToSet(q)  PROVE next'[x] = next[x] /\ data'[x] = data[x]
    OBVIOUS
  <2>1. PICK i \in 1 .. Len(q) : q[i] = x
    BY <1>3, NodeSeq
  <2>. QED  BY <1>7, <2>1
<1>10. Links(q, s)'
  <2>1. \A x \in ToSet(q) : x \notin Unlinked'
    BY <1>3, <1>6 DEF Links
  <2>2. \A u \in Thread : pc'[u] = "free" => node'[u] \notin ToSet(q)
    <3>. SUFFICES ASSUME NEW u \in Thread, pc'[u] = "free"  PROVE node'[u] \notin ToSet(q)
      OBVIOUS
    <3>1. u # t /\ pc[u] = "free"
      BY <1>2
    <3>2. node[u] \notin ToSet(q)
      BY <1>3, <3>1 DEF Links
    <3>. QED  BY <1>2, <1>3, <3>1, <3>2, SharedAssumption
  <2>. QED  BY <1>3, <1>5, <1>8, <1>9, <2>1, <2>2, LinksSame
<1>11. Between(q, s)'
  <2>1. \A u \in Thread :
          (pc'[u] \in Changing <=> pc[u] \in Changing) /\ (pc'[u] \in Changing => u # t)
    BY <1>2 DEF Changing
  <2>2. ASSUME NEW u \in Thread, pc'[u] \in Changing
        PROVE  Inserts(u, q, s)' /\ Removes(u, q, s)'
    <3>1. /\ u # t /\ pc[u] \in Changing /\ pc'[u] = pc[u] /\ reg'[u] = reg[u] /\ elem'[u] = elem[u]
          /\ Inserts(u, q, s) /\ Removes(u, q, s)
      BY <1>2, <2>1, <2>2 DEF Whole, Between
    <3>2. CASE pc[u] = "insert"
      BY <1>2, <3>1, <3>2 DEF Inserts, Removes
    <3>3. CASE pc[u] # "insert"
      <4>1. PICK m : m = node[u]
        OBVIOUS
      <4>2. /\ m \in Node \ {n} /\ node'[u] = m
            /\ next'[m] = Freed(next[m]) /\ prev'[m] = Freed(prev[m])
        BY <1>2, <1>4, <3>1, <3>3, <4>1
      <4>3. (next[m] = NULL => next'[m] = NULL) /\ (prev[m] = NULL => prev'[m] = NULL)
        BY <1>2, <4>2, SharedAssumption
      <4>4. (prev[m] = tail => prev'[m] = tail') /\ (next[m] = head => next'[m] = head')
        BY <1>2, <4>2
      <4>5. \A x \in ToSet(q) : prev[m] = x => prev'[m] = x
        BY <1>3, <4>2
      <4>6. Inserts(u, q, s)'
        BY <1>2, <3>1, <4>1, <4>2, <4>3, <4>4 DEF Inserts
      <4>7. InBoth(q, s, m, elem[u]) => InBoth(q, s, m, elem[u])'
        BY <1>2, <1>3, <1>7, <3>1 DEF InBoth, First
      <4>8. InForth(q, s, m, elem[u]) => InForth(q, s, m, elem[u])'
        <5>. SUFFICES ASSUME InForth(q, s, m, elem[u])  PROVE InForth(q, s, m, elem[u])'
          OBVIOUS
        <5>1. PICK k \in 1 .. Len(q) : 
                /\ First(q, m, elem[u], k) /\ s = RemoveAt(q, k)
                /\ prev[m] = IF k = 1 THEN NULL ELSE q[k-1]
          BY DEF InForth
        <5>2. \A j \in 1 .. k-1 : j \in 1 .. Len(q)
          BY <1>3
        <5>3. First(q, m, elem[u], k)'
          BY <1>7, <3>1, <5>1, <5>2 DEF First
        <5>4. prev'[m] = IF k = 1 THEN NULL ELSE q[k-1]
          <6>1. k # 1 => k-1 \in 1 .. Len(q)
            BY <1>3
          <6>. QED  BY <1>3, <4>3, <4>5, <5>1, <6>1
        <5>. QED  BY <1>2, <5>1, <5>3, <5>4 DEF InForth
      <4>9. q # <<>> /\ prev[m] = q[Len(q)] => prev'[m] = q[Len(q)]
        <5>1. q # <<>> => Len(q) \in 1 .. Len(q)
          BY <1>3, EmptyList
        <5>. QED  BY <1>3, <4>5, <5>1
      <4>10. Removes(u, q, s)'
        <5>1. Out(q, s, m) => Out(q, s, m)'
          BY <1>2 DEF Out
        <5>2. Removes(u, q, s)
          BY <3>1
        <5>3. prev[m] # NULL => prev'[m] # NULL
          BY <4>2, SharedAssumption
        <5>. QED
          BY <1>2, <3>1, <4>1, <4>2, <4>3, <4>4, <4>7, <4>8, <4>9, <5>1, <5>2, <5>3 DEF Removes
      <4>. QED  BY <4>6, <4>10
    <3>. QED  BY <3>2, <3>3
  <2>3. (\A u \in Thread : pc'[u] \notin Changing) => s = q /\ count' = Len(q)
    BY <1>2, <2>1 DEF Whole, Between
  <2>. QED  BY <2>2, <2>3 DEF Between
<1>12. Searches(q)'
  <2>. SUFFICES ASSUME NEW u \in Thread, Walking(u)'  PROVE Led(u, q)'
    BY DEF Searches
  <2>1. u # t /\ Walking(u) /\ node'[u] = Freed(node[u]) /\ elem'[u] = elem[u]
    BY <1>2 DEF Walking
  <2>2. PICK m, d : m = node[u] /\ d = elem[u]
    OBVIOUS
  <2>3. PICK S \in SUBSET Node : Search(S, m, d, q)
    BY <2>1, <2>2 DEF Whole, Searches, Led
  <2>4. Search(S \ {n}, IF m = n THEN Dangling ELSE m, d, q)'
    BY <1>2, <1>3, <1>6, <2>3, SearchFreed
  <2>5. Search(S \ {n}, node[u], elem[u], q)'
    BY <2>1, <2>2, <2>4 DEF Search
  <2>6. S \ {n} \in SUBSET Node
    OBVIOUS
  <2>. QED  BY <2>5, <2>6 DEF Led
<1>13. Follows(q, q)
  BY <1>9 DEF Follows
<1>. QED  BY <1>10, <1>11, <1>12, <1>13 DEF WholeNext, Whole

-----------------------------------------------------------------------------
(* Every step keeps the list whole and changes it as DataList does.        *)
LEMMA WholeStep ==
  ASSUME CallsInv, NEW q, NEW s, Whole(q, s), [Next]_vars, ~overlap'
  PROVE  WholeNext(q)
<1>1. CASE UNCHANGED vars
  BY <1>1, StutterKeeps DEF vars
<1>2. ASSUME NEW t \in Thread, \E c \in Calls, d \in Data : Call(t, c, d)  PROVE WholeNext(q)
  BY <1>2, CallKeeps
<1>3. ASSUME NEW t \in Thread, Lock(t)  PROVE WholeNext(q)
  BY <1>3, CallKeeps, EnterKeeps
<1>4. ASSUME NEW t \in Thread, FindHead(t) \/ FindNext(t)  PROVE WholeNext(q)
  BY <1>4, FindKeeps
<1>5. ASSUME NEW t \in Thread, FindEnd(t)  PROVE WholeNext(q)
  <2>1. \/ Faults(t, "walk", node[t])
        \/ Step(t, "walk", "idle") \/ Step(t, "walk", "insert") \/ Step(t, "walk", "remove")
    BY <1>5 DEF FindEnd
  <2>. QED  BY <1>5, <2>1, CallKeeps, EnterKeeps, FaultKeeps
<1>6. ASSUME NEW t \in Thread, Insert(t)  PROVE WholeNext(q)
  BY <1>6, InsertKeeps
<1>7. ASSUME NEW t \in Thread, InsertFirst(t)  PROVE WholeNext(q)
  <2>1. pc[t] \in {"first", "firstTail", "firstLinks"}
    BY <1>7 DEF InsertFirst, Step
  <2>2. pc[t] = "first" => ~Faults(t, "append", tail)
    BY DEF Faults
  <2>. QED  BY <1>7, <2>1, <2>2, LinkKeeps, LinkBackKeeps, NewNodeKeeps
<1>8. ASSUME NEW t \in Thread, InsertLast(t)  PROVE WholeNext(q)
  <2>1. pc[t] \in {"append", "appendPrev", "appendTail"}
    BY <1>8 DEF InsertLast, Step, Faults
  <2>. QED  BY <1>8, <2>1, FaultKeeps, LinkKeeps, LinkBackKeeps, NewNodeKeeps
<1>9. ASSUME NEW t \in Thread, CountUp(t) \/ CountDown(t)  PROVE WholeNext(q)
  BY <1>9, CountUpKeeps, CountDownKeeps
<1>10. ASSUME NEW t \in Thread, RemoveFaults(t)  PROVE WholeNext(q)
  BY <1>10, FaultKeeps DEF RemoveFaults
<1>11. ASSUME NEW t \in Thread, RemoveBehind(t) \/ RemoveBefore(t)  PROVE WholeNext(q)
  BY <1>11, RemoveBehindKeeps, RemoveBeforeKeeps
<1>12. ASSUME NEW t \in Thread, FreeNode(t)  PROVE WholeNext(q)
  BY <1>12, FreeKeeps
<1>. QED
  BY <1>1, <1>2, <1>3, <1>4, <1>5, <1>6, <1>7, <1>8, <1>9, <1>10, <1>11, <1>12 DEF Next

(* Calls that overlapped once have overlapped for good.                    *)
LEMMA OverlapStays ==
  ASSUME overlap, [Next]_vars
  PROVE  overlap'
<1>1. ASSUME NEW t, NEW from, NEW to, Step(t, from, to)  PROVE overlap'
  BY <1>1 DEF Step
<1>2. ASSUME NEW t, NEW from, NEW n, Faults(t, from, n)  PROVE overlap'
  BY <1>2 DEF Faults, histVars
<1>3. CASE UNCHANGED vars
  BY <1>3 DEF vars, histVars
<1>4. ASSUME NEW t \in Thread,
             \/ \E c \in Calls, d \in Data : Call(t, c, d)
             \/ Lock(t) \/ FindHead(t) \/ FindNext(t) \/ FindEnd(t)
      PROVE  overlap'
  BY <1>1, <1>2, <1>4 DEF Call, Lock, FindHead, FindNext, FindEnd
<1>5. ASSUME NEW t \in Thread, Insert(t) \/ InsertFirst(t) \/ InsertLast(t) \/ CountUp(t)
      PROVE  overlap'
  BY <1>1, <1>2, <1>5 DEF Insert, InsertFirst, InsertLast, CountUp
<1>6. ASSUME NEW t \in Thread,
             RemoveFaults(t) \/ RemoveBehind(t) \/ RemoveBefore(t) \/ CountDown(t) \/ FreeNode(t)
      PROVE  overlap'
  BY <1>1, <1>2, <1>6 DEF RemoveFaults, RemoveBehind, RemoveBefore, CountDown, FreeNode
<1>. QED  BY <1>3, <1>4, <1>5, <1>6 DEF Next

(* The empty list is whole.                                                *)
LEMMA InitWhole ==
  ASSUME Init
  PROVE  CallsInv /\ Whole(<<>>, <<>>)
<1>. USE DEF Init, ll_init
<1>1. CallsInv
  BY DEF CallsInv, Typed, Label, Calls, CallsFit, CallFits, Locks, Inserting, Removing, Owners,
         Alone, Hands, Changing
<1>2. <<>> \in Seq(Node) /\ Len(<<>>) = 0 /\ ToSet(<<>>) = {}
  BY DEF ToSet
<1>3. Links(<<>>, <<>>)
  BY <1>2 DEF Links, Once, Linked, Backed
<1>4. Between(<<>>, <<>>) /\ Searches(<<>>)
  BY <1>2 DEF Between, Searches, Walking, Changing
<1>. QED  BY <1>1, <1>3, <1>4 DEF Whole

(* As long as no two calls overlapped the list is whole.                   *)
LEMMA SharedInvariant == Spec => []SharedInv
<1>1. Init => SharedInv
  BY InitWhole DEF SharedInv
<1>2. SharedInv /\ [Next]_vars => SharedInv'
  <2>. SUFFICES ASSUME SharedInv, [Next]_vars, ~overlap'
                PROVE  CallsInv' /\ \E r, s : Whole(r, s)'
    BY DEF SharedInv
  <2>1. ~overlap
    BY OverlapStays
  <2>2. PICK q, s : CallsInv /\ Whole(q, s)
    BY <2>1 DEF SharedInv
  <2>. QED  BY <2>2, CallsNext, WholeStep DEF WholeNext
<1>. QED  BY <1>1, <1>2, PTL DEF Spec

(* Between calls that change the list, as long as none overlapped, `count' *)
(* is the number of nodes, and the way back from the tail is the way from  *)
(* the head reversed, whatever searches and frees came between.            *)
THEOREM SharedListCorrect == Spec => []ListWhole
<1>1. SharedInv => ListWhole
  <2>. SUFFICES ASSUME SharedInv, ~overlap, \A t \in Thread : pc[t] \notin Changing
                PROVE  count = Len(List) /\ Walk(tail, prev) = Reverse(List)
    BY DEF ListWhole
  <2>1. PICK q, s : Whole(q, s)
    BY DEF SharedInv
  <2>2. List = q /\ Walk(tail, prev) = Reverse(s)
    BY <2>1, WholeIs DEF Whole
  <2>. QED  BY <2>1, <2>2 DEF Whole, Between
<1>. QED  BY <1>1, SharedInvariant, PTL

(* What the callers see of the list is followed by the same, one element   *)
(* more at the end, or one less.                                           *)
LEMMA ListRefines ==
  ASSUME SharedInv, [Next]_vars, ~overlap'
  PROVE  [Implements!Next]_Elements
<1>1. ~overlap
  BY OverlapStays
<1>2. PICK q, s : CallsInv /\ Whole(q, s)
  BY <1>1 DEF SharedInv
<1>3. PICK r, b : Whole(r, b)' /\ Follows(q, r)
  BY <1>2, WholeStep DEF WholeNext
<1>4. List = q /\ List' = r
  <2>1. List = q
    BY <1>2, WholeIs DEF Whole
  <2>2. Walk(head', next') = r
    BY <1>3, WalkLinked DEF Whole, Links
  <2>. QED  BY <2>1, <2>2 DEF List
<1>5. /\ q \in Seq(Node) /\ Len(q) \in Nat /\ DOMAIN q = 1 .. Len(q)
      /\ \A i \in 1 .. Len(q) : q[i] \in Node /\ data[q[i]] \in Data
      /\ r \in Seq(Node) /\ Len(r) \in Nat /\ DOMAIN r = 1 .. Len(r)
      /\ \A i \in 1 .. Len(r) : r[i] \in Node /\ data'[r[i]] \in Data
  <2>1. q \in Seq(Node) /\ \A n \in ToSet(q) : data[n] \in Data
    BY <1>2 DEF Whole, Links
  <2>2. r \in Seq(Node) /\ \A n \in ToSet(r) : data'[n] \in Data
    BY <1>3 DEF Whole, Links
  <2>3. \A x \in Seq(Node) :
          /\ Len(x) \in Nat /\ DOMAIN x = 1 .. Len(x)
          /\ \A i \in 1 .. Len(x) : x[i] \in Node /\ x[i] \in ToSet(x)
    BY NodeSeq
  <2>. QED  BY <2>1, <2>2, <2>3
<1>. DEFINE e == [i \in 1 .. Len(q) |-> data[q[i]]]
            f == [i \in 1 .. Len(r) |-> data'[r[i]]]
<1>6. Elements = e /\ Elements' = f
  BY <1>4, <1>5 DEF Elements
<1>7. e \in Seq(Data) /\ Len(e) = Len(q) /\ f \in Seq(Data) /\ Len(f) = Len(r)
  BY <1>5
<1>8. CASE r = q /\ \A n \in ToSet(q) : data'[n] = data[n]
  <2>1. \A i \in 1 .. Len(q) : q[i] \in ToSet(q)
    BY <1>5, NodeSeq
  <2>2. f = e
    BY <1>8, <2>1
  <2>. QED  BY <1>6, <2>2
<1>9. ASSUME data' = data, NEW n \in Node, r = Append(q, n)
      PROVE  Implements!Next
  <2>1. Len(r) = Len(q) + 1 /\ r[Len(q) + 1] = n /\ \A i \in 1 .. Len(q) : r[i] = q[i]
    BY <1>5, <1>9, AppendProperties
  <2>2. data[n] \in Data
    <3>1. Len(q) + 1 \in 1 .. Len(r)
      BY <1>5, <2>1
    <3>. QED  BY <1>5, <1>9, <2>1, <3>1
  <2>3. f = Append(e, data[n])
    <3>1. /\ Append(e, data[n]) \in Seq(Data) /\ Len(Append(e, data[n])) = Len(q) + 1
          /\ Append(e, data[n])[Len(q) + 1] = data[n]
          /\ \A i \in 1 .. Len(q) : Append(e, data[n])[i] = e[i]
      <4>. HIDE DEF e
      <4>. QED  BY <1>7, <2>2, AppendProperties
    <3>2. \A i \in 1 .. Len(r) : Append(e, data[n])[i] = f[i]
      <4>1. \A i \in 1 .. Len(r) : i \in 1 .. Len(q) \/ i = Len(q) + 1
        BY <1>5, <2>1
      <4>. QED  BY <1>9, <2>1, <3>1, <4>1
    <3>3. DOMAIN Append(e, data[n]) = 1 .. Len(r)
      BY <2>1, <3>1, LenProperties
    <3>4. Append(e, data[n]) = [i \in 1 .. Len(r) |-> Append(e, data[n])[i]]
      BY <3>1, <3>3
    <3>. QED  BY <3>2, <3>4
  <2>4. Implements!Enters(data[n])
    BY <1>6, <2>3 DEF Implements!Enters
  <2>. QED  BY <2>2, <2>4 DEF Implements!Next
<1>10. ASSUME data' = data, NEW k \in 1 .. Len(q), r = RemoveAt(q, k),
              \A j \in 1 .. k-1 : data[q[j]] # data[q[k]]
       PROVE  Implements!Next
  <2>1. Len(r) = Len(q) - 1 /\ \A i \in 1 .. Len(q) - 1 : r[i] = IF i < k THEN q[i] ELSE q[i+1]
    BY <1>5, <1>10, RemoveAtShape
  <2>2. PICK g : g = RemoveAt(e, k)
    OBVIOUS
  <2>3. f = RemoveAt(e, k)
    <3>1. /\ g \in Seq(Data) /\ Len(g) = Len(q) - 1
          /\ \A i \in 1 .. Len(q) - 1 : g[i] = IF i < k THEN e[i] ELSE e[i+1]
      <4>. HIDE DEF e
      <4>. QED  BY <1>7, <2>2, RemoveAtShape
    <3>2. \A i \in 1 .. Len(r) : g[i] = f[i]
      <4>1. \A i \in 1 .. Len(r) :
              i \in 1 .. Len(q) - 1 /\ i \in 1 .. Len(q) /\ i + 1 \in 1 .. Len(q)
        BY <1>5, <2>1
      <4>. QED  BY <1>10, <2>1, <3>1, <4>1
    <3>3. DOMAIN g = 1 .. Len(r)
      BY <2>1, <3>1, LenProperties
    <3>4. g = [i \in 1 .. Len(r) |-> g[i]]
      BY <3>1, <3>3
    <3>. QED  BY <2>2, <3>2, <3>4
  <2>4. RemoveFirst(e, e[k]) = RemoveAt(e, k)
    <3>1. k \in 1 .. Len(e) /\ \A j \in 1 .. k-1 : e[j] # e[k]
      <4>1. \A j \in 1 .. k-1 : j \in 1 .. Len(q)
        BY <1>5
      <4>. QED  BY <1>7, <1>10, <4>1
    <3>. HIDE DEF e
    <3>. QED  BY <1>7, <3>1, FirstRemoved
  <2>5. e[k] \in Data /\ e[k] \in Implements!ToSet(e)
    BY <1>5 DEF Implements!ToSet
  <2>. HIDE DEF e, f
  <2>6. Elements' = RemoveFirst(Elements, e[k])
    BY <1>6, <2>3, <2>4
  <2>7. Elements' = Implements!RemoveFirst(Elements, e[k])
    BY <2>6
    DEF RemoveFirst, RemoveAt, SelectInSeq, Min,
        Implements!RemoveFirst, Implements!RemoveAt, Implements!SelectInSeq, Implements!Min
  <2>8. Implements!Leaves(e[k])
    BY <1>6, <2>5, <2>7 DEF Implements!Leaves
  <2>. QED  BY <2>5, <2>8 DEF Implements!Next
<1>. QED  BY <1>3, <1>8, <1>9, <1>10 DEF Follows

(* The list, pointer by pointer, implements DataList: as long as no two    *)
(* calls that change it overlap, what a walk from the head meets changes as*)
(* a sequence does, whatever searches run meanwhile.                       *)
THEOREM SharedListImplemented == Spec => ImplementsList
<1>1. Init => Implements!Init
  <2>. SUFFICES ASSUME Init  PROVE Implements!Init
    OBVIOUS
  <2>1. List = <<>>
    BY InitWhole, WholeIs DEF Whole
  <2>. QED  BY <2>1 DEF Init, Implements!Init, Elements
<1>2. SharedInv /\ [Next]_vars => [Implements!Next]_Elements
  <2>1. overlap' => Implements!Next
    BY DEF Implements!Next
  <2>. QED  BY <2>1, ListRefines
<1>. QED  BY <1>1, <1>2, SharedInvariant, PTL DEF Spec, ImplementsList, Implements!Spec

-----------------------------------------------------------------------------
(* Calls that overlap.  The nodes `live' are those that links still read   *)
(* by somebody lead to, and of these `kept' are those that no thread works *)
(* on.  Their `rank' is the order in which insertions set their `prev'; a  *)
(* node that waits for that is Pending, and comes after all others.        *)
Pending == {node[t] : t \in {u \in Thread : pc[u] \in {"append", "appendPrev"}}}

(* The nodes up to the node k.                                             *)
UpTo(live, rank, k) == {x \in live : rank[x] <= rank[k]}

(* The ranks, which no kept node shares with another.                      *)
Ranked(live, kept, rank, top) ==
  /\ live \subseteq Node \ free /\ kept \subseteq live /\ Pending \subseteq live \ kept
  /\ rank \in [Node -> Nat] /\ top \in Nat
  /\ \A x \in live : IF x \in Pending THEN rank[x] = top ELSE rank[x] < top
  /\ \A x \in live, k \in kept : rank[x] = rank[k] => x = k

(* Links lead on in that order, and pass over no node that is kept.        *)
Forward(x, live, kept, rank) ==
  /\ next[x] \in live \cup {NULL, Dangling}
  /\ next[x] \in live => rank[x] < rank[next[x]]
  /\ x \in Pending => next[x] = NULL
  /\ \A k \in kept : rank[x] < rank[k] => next[x] \in UpTo(live, rank, k) \cup {Dangling}

(* Neither do those that lead back.                                        *)
NotBefore(p, live, rank, k) == p = Dangling \/ (p \in live /\ rank[k] <= rank[p])
Backward(x, live, kept, rank) ==
  /\ prev[x] \in (live \ Pending) \cup {NULL, Dangling}
  /\ prev[x] \in live => rank[prev[x]] < rank[x]
  /\ x \notin Pending => \A k \in kept : rank[k] < rank[x] => NotBefore(prev[x], live, rank, k)

(* Nor do the ends of the list.                                            *)
EndsOut(live, kept, rank) ==
  /\ head \in live \cup {NULL, Dangling}
  /\ tail \in (live \ Pending) \cup {NULL, Dangling}
  /\ \A k \in kept :
       head \in UpTo(live, rank, k) \cup {Dangling} /\ NotBefore(tail, live, rank, k)

Shape(live, kept, rank, top) ==
  /\ Ranked(live, kept, rank, top)
  /\ \A x \in live : Forward(x, live, kept, rank) /\ Backward(x, live, kept, rank)
  /\ EndsOut(live, kept, rank)

(* What a thread knows of the node it works on.                            *)
WorkFits(t, live, kept, rank) ==
  pc[t] \in Working =>
    /\ node[t] \in Node \ (free \cup kept)
    /\ pc[t] \notin {"dec", "decStore", "free"} => node[t] \in live
    /\ pc[t] \in {"first", "firstTail", "firstLinks"} => kept = {}
    /\ pc[t] \in {"appendTail", "inc", "incStore", "cutTail", "cutLast"} =>
         \A k \in kept : rank[k] < rank[node[t]]
    /\ pc[t] \in {"newHead", "headPrev"} => \A k \in kept : rank[node[t]] < rank[k]

(* No two threads work on one node.                                        *)
Apart ==
  \A t, u \in Thread : t # u /\ pc[t] \in Working /\ pc[u] \in Working => node[t] # node[u]

Works(live, kept, rank) == Apart /\ \A t \in Thread : WorkFits(t, live, kept, rank)

(* A removal that is still searching, and a search that cannot miss the    *)
(* element it is for.                                                      *)
Takes(t) == pc[t] \in {"lock", "find", "walk"} /\ call[t] \in {"releaseThread", "EXIT"}
Sure(t) == pc[t] = "walk" /\ (call[t] # "LOGIN" \/ stays[t])

(* Such a search goes on over nodes of `past', removed before there was    *)
(* any overlap, and then over nodes up to its goal.                        *)
AimFits(t, live, kept, rank, goal, past) ==
  LET ahead == past[t] \cup UpTo(live, rank, goal[t]) \cup {Dangling}
  IN  /\ Takes(t) \/ Sure(t) => goal[t] \in kept /\ data[goal[t]] = elem[t]
      /\ Takes(t) => \A x \in live : data[x] = elem[t] => rank[goal[t]] <= rank[x]
      /\ Sure(t) => /\ past[t] \subseteq Node \ (free \cup live)
                    /\ node[t] \in ahead
                    /\ \A x \in past[t] : next[x] \in ahead
                    /\ call[t] # "LOGIN" => \A x \in past[t] : data[x] # elem[t]

Aims(live, kept, rank, goal, past) ==
  /\ goal \in [Thread -> Node \cup {NULL}] /\ past \in [Thread -> SUBSET Node]
  /\ \A t \in Thread : AimFits(t, live, kept, rank, goal, past)

(* What is owned is in a node that is kept.                                *)
OwnedKept(kept) == \A e \in owned : \E k \in kept : data[k] = e

Ordered(live, kept, rank, top, goal, past) ==
  /\ Shape(live, kept, rank, top) /\ Works(live, kept, rank)
  /\ Aims(live, kept, rank, goal, past) /\ OwnedKept(kept)

(* As long as no two calls overlapped, a live node that is not kept is one *)
(* that the call that changes the list works on.                           *)
Pruned(live, kept) ==
  \A x \in live \ kept : \E t \in Thread : pc[t] \in Changing \ {"insert"} /\ node[t] = x

(* The inductive invariant.                                                *)
OrderInv ==
  /\ Typed /\ CallsFit /\ Owners /\ DOMAIN stays = Thread
  /\ \E live, kept, rank, top, goal, past :
       Ordered(live, kept, rank, top, goal, past) /\ (~overlap => Pruned(live, kept))

-----------------------------------------------------------------------------
(* A pointer of a node that is changed.                                    *)
LEMMA ForwardSet ==
  ASSUME NEW live, NEW kept, NEW rank, NEW top, Shape(live, kept, rank, top), Typed,
         NEW p \in live \ Pending, NEW m \in live \cup {NULL, Dangling},
         next' = [next EXCEPT ![p] = m], UNCHANGED <<head, tail, prev, free>>, Pending' = Pending,
         m \in live => rank[p] < rank[m],
         \A k \in kept : rank[p] < rank[k] => m \in UpTo(live, rank, k) \cup {Dangling}
  PROVE  Shape(live, kept, rank, top)'
<1>. USE DEF Shape
<1>1. Ranked(live, kept, rank, top)'
  BY DEF Ranked
<1>2. live \subseteq Node
  BY DEF Ranked
<1>3. EndsOut(live, kept, rank)' /\ \A x \in live : Backward(x, live, kept, rank)'
  BY DEF EndsOut, Backward, NotBefore, UpTo
<1>4. ASSUME NEW x \in live  PROVE Forward(x, live, kept, rank)'
  <2>1. next'[x] = IF x = p THEN m ELSE next[x]
    BY <1>2 DEF Typed
  <2>. QED  BY <2>1 DEF Forward, UpTo
<1>. QED  BY <1>1, <1>3, <1>4

(* The other pointer of a node.                                            *)
LEMMA BackwardSet ==
  ASSUME NEW live, NEW kept, NEW rank, NEW top, Shape(live, kept, rank, top), Typed,
         NEW p \in live, NEW m \in (live \ Pending) \cup {NULL, Dangling},
         prev' = [prev EXCEPT ![p] = m], UNCHANGED <<head, tail, next, free>>, Pending' = Pending,
         m \in live => rank[m] < rank[p],
         p \notin Pending => \A k \in kept : rank[k] < rank[p] => NotBefore(m, live, rank, k)
  PROVE  Shape(live, kept, rank, top)'
<1>. USE DEF Shape
<1>1. Ranked(live, kept, rank, top)'
  BY DEF Ranked
<1>2. live \subseteq Node
  BY DEF Ranked
<1>3. EndsOut(live, kept, rank)' /\ \A x \in live : Forward(x, live, kept, rank)'
  BY DEF EndsOut, Forward, NotBefore, UpTo
<1>4. ASSUME NEW x \in live  PROVE Backward(x, live, kept, rank)'
  <2>1. prev'[x] = IF x = p THEN m ELSE prev[x]
    BY <1>2 DEF Typed
  <2>. QED  BY <2>1 DEF Backward, NotBefore
<1>. QED  BY <1>1, <1>3, <1>4

(* The ends of the list that are changed, or nodes no longer kept.         *)
LEMMA EndsSet ==
  ASSUME NEW live, NEW kept, NEW rank, NEW top, Shape(live, kept, rank, top),
         NEW fewer \in SUBSET kept,
         UNCHANGED <<next, prev, free>>, Pending' = Pending, EndsOut(live, fewer, rank)'
  PROVE  Shape(live, fewer, rank, top)'
<1>1. Ranked(live, fewer, rank, top)'
  BY DEF Shape, Ranked
<1>2. \A x \in live : Forward(x, live, fewer, rank)' /\ Backward(x, live, fewer, rank)'
  BY DEF Shape, Forward, Backward, NotBefore, UpTo
<1>. QED  BY <1>1, <1>2 DEF Shape

(* Statements that change no pointer.                                      *)
LEMMA ShapeSame ==
  ASSUME NEW live, NEW kept, NEW rank, NEW top, Shape(live, kept, rank, top),
         NEW fewer \in SUBSET kept,
         UNCHANGED <<head, tail, next, prev, free>>, Pending' = Pending
  PROVE  Shape(live, fewer, rank, top)'
<1>1. EndsOut(live, fewer, rank)'
  BY DEF Shape, EndsOut, NotBefore, UpTo
<1>. QED  BY <1>1, EndsSet

(* The threads that do not move, and one that goes on with its node.       *)
LEMMA WorksStep ==
  ASSUME NEW live, NEW kept, NEW rank, Works(live, kept, rank), NEW t \in Thread,
         NEW fewer \in SUBSET kept, UNCHANGED free,
         \A u \in Thread \ {t} : pc'[u] = pc[u] /\ node'[u] = node[u],
         pc'[t] \in Working => pc[t] \in Working /\ node'[t] = node[t],
         WorkFits(t, live, fewer, rank)'
  PROVE  Works(live, fewer, rank)'
<1>1. ASSUME NEW u \in Thread  PROVE WorkFits(u, live, fewer, rank)'
  <2>1. CASE u = t
    BY <2>1
  <2>2. CASE u # t
    <3>1. WorkFits(u, live, kept, rank) /\ pc'[u] = pc[u] /\ node'[u] = node[u]
      BY <2>2 DEF Works
    <3>. QED  BY <3>1 DEF WorkFits
  <2>. QED  BY <2>1, <2>2
<1>2. Apart'
  BY DEF Works, Apart
<1>. QED  BY <1>1, <1>2 DEF Works

(* Nodes after all that are kept come in or change their ranks.            *)
Later(live, kept, rank, more, new) ==
  /\ \A k \in kept : k \in live /\ UpTo(more, new, k) = UpTo(live, rank, k)
  /\ \A k \in kept, x \in more : (x \in live => rank[k] <= rank[x]) => new[k] <= new[x]

(* Searches that go on, or come to their end, meanwhile.                   *)
LEMMA AimsStep ==
  ASSUME NEW live, NEW kept, NEW rank, NEW goal, NEW past, Aims(live, kept, rank, goal, past),
         NEW more, NEW new, Later(live, kept, rank, more, new),
         \A x \in live : data'[x] = data[x],
         \A x \in Node \ (live \cup free) :
           x \notin more \cup free' /\ next'[x] = next[x] /\ data'[x] = data[x],
         \A u \in Thread :
           /\ Takes(u)' => Takes(u)
           /\ Sure(u)' => Sure(u) /\ node'[u] = node[u]
           /\ Takes(u)' \/ Sure(u)' => elem'[u] = elem[u] /\ call'[u] = call[u]
  PROVE  Aims(more, kept, new, goal, past)'
<1>. USE DEF Later
<1>1. ASSUME NEW u \in Thread  PROVE AimFits(u, more, kept, new, goal, past)'
  <2>1. /\ AimFits(u, live, kept, rank, goal, past)
        /\ Takes(u)' => Takes(u)
        /\ Sure(u)' => Sure(u) /\ node'[u] = node[u]
        /\ Takes(u)' \/ Sure(u)' => elem'[u] = elem[u] /\ call'[u] = call[u]
    BY DEF Aims
  <2>2. Sure(u) => \A x \in past[u] : /\ next'[x] = next[x] /\ data'[x] = data[x]
                                      /\ x \in Node \ (more \cup free')
    BY <2>1 DEF AimFits
  <2>3. Takes(u)' \/ Sure(u)' => goal[u] \in kept /\ data'[goal[u]] = elem'[u]
    BY <2>1 DEF AimFits
  <2>4. Takes(u)' => \A x \in more : data'[x] = elem'[u] => new[goal[u]] <= new[x]
    <3>. SUFFICES ASSUME Takes(u)', NEW x \in more, data'[x] = elem'[u]
                  PROVE  new[goal[u]] <= new[x]
      OBVIOUS
    <3>1. goal[u] \in kept /\ (x \in live => rank[goal[u]] <= rank[x])
      BY <2>1 DEF AimFits
    <3>. QED  BY <3>1
  <2>5. ASSUME Sure(u)'
        PROVE  LET ahead == past[u] \cup UpTo(more, new, goal[u]) \cup {Dangling}
               IN  /\ past[u] \subseteq Node \ (free' \cup more)
                   /\ node'[u] \in ahead
                   /\ \A x \in past[u] : next'[x] \in ahead
                   /\ call'[u] # "LOGIN" => \A x \in past[u] : data'[x] # elem'[u]
    <3>1. UpTo(more, new, goal[u]) = UpTo(live, rank, goal[u])
      BY <2>1, <2>5 DEF AimFits
    <3>. QED  BY <2>1, <2>2, <2>5, <3>1 DEF AimFits
  <2>. QED  BY <2>3, <2>4, <2>5 DEF AimFits, UpTo
<1>. QED  BY <1>1 DEF Aims

(* Nothing changes but what threads do, and links of nodes that are not    *)
(* live.                                                                   *)
LEMMA AimsSame ==
  ASSUME NEW live, NEW kept, NEW rank, NEW goal, NEW past, Aims(live, kept, rank, goal, past),
         NEW top, Ranked(live, kept, rank, top),
         UNCHANGED <<data, free>>, \A x \in Node \ live : next'[x] = next[x],
         \A u \in Thread :
           /\ Takes(u)' => Takes(u)
           /\ Sure(u)' => Sure(u) /\ node'[u] = node[u]
           /\ Takes(u)' \/ Sure(u)' => elem'[u] = elem[u] /\ call'[u] = call[u]
  PROVE  Aims(live, kept, rank, goal, past)'
<1>1. Later(live, kept, rank, live, rank)
  BY DEF Ranked, Later
<1>. QED  BY <1>1, AimsStep

(* What is owned stays so.                                                 *)
LEMMA OwnedSame ==
  ASSUME NEW kept, OwnedKept(kept), UNCHANGED <<owned, data>>
  PROVE  OwnedKept(kept)'
BY DEF OwnedKept

(* A statement of ll_insert or ll_remove of a thread that has its node.    *)
LEMMA LinkOrdered ==
  ASSUME Typed, NEW live, NEW kept, NEW rank, NEW top, NEW goal, NEW past,
         Ordered(live, kept, rank, top, goal, past), NEW t \in Thread,
         NEW to \in Changing \ {"insert"}, pc[t] \in Changing \ {"insert"},
         pc' = [pc EXCEPT ![t] = to],
         UNCHANGED <<node, elem, call, stays, owned, data, free>>,
         \A x \in Node \ live : next'[x] = next[x],
         Shape(live, kept, rank, top)', WorkFits(t, live, kept, rank)'
  PROVE  /\ Ordered(live, kept, rank, top, goal, past)'
         /\ Pruned(live, kept) => Pruned(live, kept)'
<1>. USE DEF Typed
<1>1. Works(live, kept, rank)'
  BY WorksStep DEF Ordered, Working
<1>2. \A u \in Thread : (Takes(u)' => Takes(u)) /\ (Sure(u)' => Sure(u))
  BY DEF Takes, Sure, Changing
<1>3. Aims(live, kept, rank, goal, past)' /\ OwnedKept(kept)'
  BY <1>2, AimsSame, OwnedSame DEF Ordered, Shape
<1>4. Pruned(live, kept) => Pruned(live, kept)'
  BY DEF Pruned
<1>. QED  BY <1>1, <1>3, <1>4 DEF Ordered

(* A node that is being worked on comes before or after one that is kept.  *)
LEMMA Sides ==
  ASSUME NEW live, NEW kept, NEW rank, NEW top, Ranked(live, kept, rank, top),
         NEW n \in live \ kept, NEW k \in kept
  PROVE  rank[k] < rank[n] \/ rank[n] < rank[k]
<1>1. rank[k] \in Nat /\ rank[n] \in Nat /\ rank[n] # rank[k]
  BY DEF Ranked
<1>. QED  BY <1>1

(* The nodes of other threads are not pending for t.                       *)
LEMMA PendingSame ==
  ASSUME Typed, NEW t \in Thread, NEW to, pc' = [pc EXCEPT ![t] = to], UNCHANGED node,
         pc[t] \in {"append", "appendPrev"} <=> to \in {"append", "appendPrev"}
  PROVE  Pending' = Pending
BY DEF Typed, Pending

(* A node being worked on by a thread that sets no prev waits for none.    *)
LEMMA NotPending ==
  ASSUME Apart, NEW t \in Thread, pc[t] \in Working, pc[t] \notin {"append", "appendPrev"}
  PROVE  node[t] \notin Pending
BY DEF Apart, Pending, Working, Changing, Label

-----------------------------------------------------------------------------
(* Each step is followed by such an order.                                 *)
OrderNext(live, kept) ==
  \E more, less, rank, top, goal, past :
    Ordered(more, less, rank, top, goal, past)' /\ (Pruned(live, kept) => Pruned(more, less)')

(* Nothing but `fault' and the mutex changes.                              *)
LEMMA FaultOrdered ==
  ASSUME NEW live, NEW kept, NEW rank, NEW top, NEW goal, NEW past,
         Ordered(live, kept, rank, top, goal, past),
         UNCHANGED <<listVars, pc, localVars, owned, stays>>
  PROVE  OrderNext(live, kept)
<1>. USE DEF listVars, localVars
<1>1. Pending' = Pending
  BY DEF Pending
<1>2. kept \subseteq live
  BY DEF Ordered, Shape, Ranked
<1>3. Shape(live, kept, rank, top)'
  BY <1>1, ShapeSame DEF Ordered
<1>4. Works(live, kept, rank)'
  BY DEF Ordered, Works, Apart, WorkFits
<1>5. \A u \in Thread : (Takes(u)' => Takes(u)) /\ (Sure(u)' => Sure(u))
  BY DEF Takes, Sure
<1>6. Aims(live, kept, rank, goal, past)' /\ OwnedKept(kept)'
  BY <1>5, AimsSame, OwnedSame DEF Ordered, Shape
<1>7. Pruned(live, kept) => Pruned(live, kept)'
  BY DEF Pruned
<1>. QED  BY <1>3, <1>4, <1>6, <1>7 DEF Ordered, OrderNext

(* The first node: none that is kept is in the list.                       *)
LEMMA InsertFirstOrdered ==
  ASSUME Typed, NEW live, NEW kept, NEW rank, NEW top, NEW goal, NEW past,
         Ordered(live, kept, rank, top, goal, past), NEW t \in Thread, InsertFirst(t)
  PROVE  OrderNext(live, kept)
<1>. USE DEF localVars
<1>1. PICK n : n = node[t]
  OBVIOUS
<1>2. /\ pc[t] \in {"first", "firstTail", "firstLinks"}
      /\ \E to \in {"firstTail", "firstLinks", "inc"} : pc' = [pc EXCEPT ![t] = to]
      /\ UNCHANGED <<node, elem, call, stays, owned, data, free>>
  BY DEF InsertFirst, Step
<1>3. pc[t] \in Changing \ {"insert"} /\ pc[t] \in Working
  BY <1>2 DEF Changing, Label, Working
<1>4. n \in live \ Pending /\ kept = {} /\ live \subseteq Node
  <2>1. WorkFits(t, live, kept, rank) /\ Apart
    BY DEF Ordered, Works
  <2>. QED  BY <1>1, <1>2, <1>3, <2>1, NotPending DEF WorkFits, Ordered, Shape, Ranked
<1>5. Pending' = Pending
  BY <1>2, PendingSame
<1>6. Shape(live, kept, rank, top)'
  <2>1. CASE UNCHANGED <<next, prev>> /\ head' \in {head, n} /\ tail' \in {tail, n}
    <3>1. EndsOut(live, kept, rank)'
      BY <1>4, <1>5, <2>1 DEF Ordered, Shape, EndsOut
    <3>. QED  BY <1>2, <1>5, <2>1, <3>1, EndsSet DEF Ordered
  <2>2. CASE /\ next' = [next EXCEPT ![n] = NULL] /\ prev' = [prev EXCEPT ![n] = NULL]
             /\ UNCHANGED <<head, tail>>
    <3>1. \A x \in live : /\ next'[x] = IF x = n THEN NULL ELSE next[x]
                          /\ prev'[x] = IF x = n THEN NULL ELSE prev[x]
      BY <1>4, <2>2 DEF Typed
    <3>2. NULL \notin live
      BY <1>4, SharedAssumption
    <3>3. \A x \in live : Forward(x, live, kept, rank)' /\ Backward(x, live, kept, rank)'
      BY <1>4, <1>5, <3>1, <3>2 DEF Ordered, Shape, Forward, Backward
    <3>4. Ranked(live, kept, rank, top)' /\ EndsOut(live, kept, rank)'
      BY <1>2, <1>5, <2>2, <1>4 DEF Ordered, Shape, Ranked, EndsOut
    <3>. QED  BY <3>3, <3>4 DEF Shape
  <2>. QED  BY <1>1, <2>1, <2>2 DEF InsertFirst
<1>7. \A x \in Node \ live : next'[x] = next[x]
  BY <1>1, <1>4 DEF InsertFirst, Typed
<1>8. PICK to \in {"firstTail", "firstLinks", "inc"} : pc' = [pc EXCEPT ![t] = to]
  BY <1>2
<1>9. to \in Changing \ {"insert"}
  BY DEF Changing, Label
<1>10. WorkFits(t, live, kept, rank)'
  BY <1>1, <1>2, <1>3, <1>4, <1>8 DEF WorkFits, Ordered, Works, Typed
<1>. QED  BY <1>2, <1>3, <1>6, <1>7, <1>8, <1>9, <1>10, LinkOrdered DEF OrderNext

(* What is linked behind the tail passes over no node that is kept.        *)
LEMMA AppendOrdered ==
  ASSUME Typed, NEW live, NEW kept, NEW rank, NEW top, NEW goal, NEW past,
         Ordered(live, kept, rank, top, goal, past), NEW t \in Thread,
         pc[t] \in {"append", "appendTail"}, InsertLast(t)
  PROVE  OrderNext(live, kept)
<1>. USE DEF localVars
<1>1. PICK n : n = node[t]
  OBVIOUS
<1>2. CASE Faults(t, "append", tail)
  BY <1>2, FaultOrdered DEF Faults, histVars
<1>3. ASSUME ~Faults(t, "append", tail)
      PROVE  /\ UNCHANGED <<node, elem, call, stays, owned, data, free, head, prev>>
             /\ \/ /\ pc[t] = "append" /\ pc' = [pc EXCEPT ![t] = "appendPrev"]
                   /\ Valid(tail) /\ next' = [next EXCEPT ![tail] = n] /\ tail' = tail
                \/ /\ pc[t] = "appendTail" /\ pc' = [pc EXCEPT ![t] = "inc"]
                   /\ tail' = n /\ next' = next
  BY <1>1, <1>3 DEF InsertLast, Step
<1>4. pc[t] \in Changing \ {"insert"} /\ pc[t] \in Working
  BY DEF Changing, Label, Working
<1>5. WorkFits(t, live, kept, rank) /\ Apart /\ Ranked(live, kept, rank, top)
  BY DEF Ordered, Works, Shape
<1>6. n \in live /\ live \subseteq Node
  BY <1>1, <1>4, <1>5 DEF WorkFits, Ranked
<1>7. CASE ~Faults(t, "append", tail) /\ pc[t] = "append"
  <2>1. /\ pc' = [pc EXCEPT ![t] = "appendPrev"] /\ Valid(tail)
        /\ next' = [next EXCEPT ![tail] = n]
        /\ UNCHANGED <<node, elem, call, stays, owned, data, free, head, prev, tail>>
    BY <1>3, <1>7
  <2>2. Pending' = Pending
    BY <1>7, <2>1, PendingSame
  <2>3. tail \in live \ Pending /\ \A k \in kept : rank[k] <= rank[tail]
    BY <2>1, SharedAssumption DEF Ordered, Shape, EndsOut, NotBefore, Valid
  <2>4. n \in Pending /\ rank[n] = top /\ rank[tail] < top
    BY <1>1, <1>5, <1>6, <1>7, <2>3 DEF Pending, Ranked
  <2>5. \A k \in kept : ~(rank[tail] < rank[k])
    BY <1>5, <2>3 DEF Ranked
  <2>6. Shape(live, kept, rank, top)'
    BY <1>6, <2>1, <2>2, <2>3, <2>4, <2>5, ForwardSet DEF Ordered
  <2>7. \A x \in Node \ live : next'[x] = next[x]
    BY <2>1, <2>3 DEF Typed
  <2>8. "appendPrev" \in Changing \ {"insert"}
    BY DEF Changing, Label
  <2>9. WorkFits(t, live, kept, rank)'
    BY <1>4, <1>5, <1>6, <1>1, <2>1 DEF WorkFits, Typed
  <2>. QED  BY <1>4, <2>1, <2>6, <2>7, <2>8, <2>9, LinkOrdered DEF OrderNext
<1>8. CASE ~Faults(t, "append", tail) /\ pc[t] = "appendTail"
  <2>1. /\ pc' = [pc EXCEPT ![t] = "inc"] /\ tail' = n
        /\ UNCHANGED <<node, elem, call, stays, owned, data, free, head, prev, next>>
    BY <1>3, <1>8
  <2>2. Pending' = Pending /\ n \notin Pending
    BY <1>1, <1>4, <1>5, <1>8, <2>1, PendingSame, NotPending
  <2>3. \A k \in kept : rank[k] < rank[n]
    BY <1>1, <1>4, <1>5, <1>8 DEF WorkFits
  <2>4. \A k \in kept : rank[k] <= rank[n]
    BY <1>5, <1>6, <2>3 DEF Ranked
  <2>5. EndsOut(live, kept, rank)'
    BY <1>6, <2>1, <2>2, <2>4 DEF Ordered, Shape, EndsOut, NotBefore, UpTo
  <2>6. Shape(live, kept, rank, top)'
    BY <2>1, <2>2, <2>5, EndsSet DEF Ordered
  <2>7. "inc" \in Changing \ {"insert"}
    BY DEF Changing, Label
  <2>8. WorkFits(t, live, kept, rank)'
    BY <1>1, <1>4, <1>5, <1>6, <2>1, <2>3 DEF WorkFits, Typed
  <2>. QED  BY <1>4, <2>1, <2>6, <2>7, <2>8, LinkOrdered DEF OrderNext
<1>. QED  BY <1>2, <1>7, <1>8

(* A node that is no longer pending gets a rank of its own: those that     *)
(* still are come after it.                                                *)
Rerank(rank, top, n) ==
  [x \in Node |-> IF x = n THEN top ELSE IF x \in Pending THEN top + 1 ELSE rank[x]]

(* This changes no order between nodes, and puts n behind all that are     *)
(* kept.                                                                   *)
Reranks(live, kept, rank, top, n, new) ==
  /\ new \in [Node -> Nat] /\ top + 1 \in Nat /\ new[n] = top
  /\ \A x \in live \cup {n} :
       IF x \in Pending \ {n} THEN new[x] = top + 1 ELSE new[x] < top + 1
  /\ \A x \in live, k \in kept : new[x] = new[k] => x = k
  /\ \A x, y \in live : rank[x] < rank[y] => new[x] < new[y]
  /\ \A k \in kept : /\ UpTo(live, new, k) = UpTo(live, rank, k)
                     /\ UpTo(live \cup {n}, new, k) = UpTo(live, rank, k)
                     /\ \A x \in live : rank[k] <= rank[x] <=> new[k] <= new[x]
                     /\ \A x \in live : rank[k] < rank[x] <=> new[k] < new[x]
                     /\ \A x \in live : rank[x] < rank[k] <=> new[x] < new[k]
                     /\ new[k] < new[n]

LEMMA Reranked ==
  ASSUME NEW live, NEW kept, NEW rank, NEW top, Ranked(live, kept, rank, top),
         NEW n \in Node, n \in live => n \in Pending, NEW new, new = Rerank(rank, top, n)
  PROVE  Reranks(live, kept, rank, top, n, new)
<1>1. /\ live \subseteq Node /\ kept \subseteq live \ Pending /\ Pending \subseteq live
      /\ \A x \in live : rank[x] \in Nat /\ (IF x \in Pending THEN rank[x] = top ELSE rank[x] < top)
      /\ top \in Nat /\ \A x \in live, k \in kept : rank[x] = rank[k] => x = k
      /\ rank \in [Node -> Nat]
  BY DEF Ranked
<1>2. \A x \in Node : new[x] = IF x = n THEN top ELSE IF x \in Pending THEN top + 1 ELSE rank[x]
  BY DEF Rerank
<1>3. new[n] = top /\ new \in [Node -> Nat] /\ top + 1 \in Nat
  BY <1>1, <1>2 DEF Rerank
<1>4. \A k \in kept : new[k] = rank[k] /\ rank[k] < top /\ rank[k] \in Nat /\ k \in live
  BY <1>1, <1>2
<1>5. \A x \in live : \/ new[x] = rank[x] /\ rank[x] <= top /\ x \notin Pending \ {n}
                      \/ new[x] = top + 1 /\ rank[x] = top /\ x \in Pending \ {n}
  BY <1>1, <1>2
<1>6. \A x \in live \cup {n} :
        IF x \in Pending \ {n} THEN new[x] = top + 1 ELSE new[x] < top + 1
  BY <1>1, <1>3, <1>5
<1>7. \A x, y \in live : rank[x] < rank[y] => new[x] < new[y]
  BY <1>1, <1>5
<1>8. ASSUME NEW k \in kept
      PROVE  /\ \A x \in live : rank[k] <= rank[x] <=> new[k] <= new[x]
             /\ \A x \in live : rank[k] < rank[x] <=> new[k] < new[x]
             /\ \A x \in live : rank[x] < rank[k] <=> new[x] < new[k]
             /\ \A x \in live : rank[x] <= rank[k] <=> new[x] <= new[k]
             /\ new[k] < new[n] /\ ~(new[n] <= new[k])
             /\ \A x \in live : new[x] = new[k] => x = k
  BY <1>1, <1>3, <1>4, <1>5
<1>. QED  BY <1>3, <1>6, <1>7, <1>8 DEF UpTo, Reranks

(* An insertion at the tail sets the prev of its node: the node is pending *)
(* no longer.                                                              *)
LEMMA AppendPrevOrdered ==
  ASSUME Typed, NEW live, NEW kept, NEW rank, NEW top, NEW goal, NEW past,
         Ordered(live, kept, rank, top, goal, past), NEW t \in Thread,
         pc[t] = "appendPrev", InsertLast(t)
  PROVE  OrderNext(live, kept)
<1>. USE DEF localVars
<1>1. PICK n : n = node[t]
  OBVIOUS
<1>2. /\ pc' = [pc EXCEPT ![t] = "appendTail"] /\ prev' = [prev EXCEPT ![n] = tail]
      /\ UNCHANGED <<node, elem, call, stays, owned, data, free, head, tail, next>>
  BY <1>1 DEF InsertLast, Step, Faults
<1>3. pc[t] \in Working /\ "appendTail" \in Working
  BY DEF Changing, Label, Working
<1>4. WorkFits(t, live, kept, rank) /\ Apart /\ Ranked(live, kept, rank, top)
  BY DEF Ordered, Works, Shape
<1>5. n \in live /\ n \in Pending /\ live \subseteq Node /\ n \in Node
  BY <1>1, <1>3, <1>4 DEF WorkFits, Ranked, Pending
<1>6. Pending' = Pending \ {n}
  <2>1. \A u \in Thread : u # t /\ pc[u] \in {"append", "appendPrev"} => node[u] # n
    BY <1>1, <1>3, <1>4 DEF Apart, Working, Changing, Label
  <2>2. \A u \in Thread : pc'[u] = IF u = t THEN "appendTail" ELSE pc[u]
    BY <1>2 DEF Typed
  <2>. QED  BY <1>1, <1>2, <2>1, <2>2 DEF Pending
<1>. PICK new : new = Rerank(rank, top, n)
  OBVIOUS
<1>. PICK m : m = top + 1
  OBVIOUS
<1>7. /\ new \in [Node -> Nat] /\ m \in Nat /\ new[n] = top
      /\ \A x \in live : IF x \in Pending \ {n} THEN new[x] = m ELSE new[x] < m
      /\ \A x \in live, k \in kept : new[x] = new[k] => x = k
      /\ \A x, y \in live : rank[x] < rank[y] => new[x] < new[y]
      /\ \A k \in kept : /\ UpTo(live, new, k) = UpTo(live, rank, k)
                         /\ \A x \in live : rank[k] <= rank[x] <=> new[k] <= new[x]
                         /\ \A x \in live : rank[k] < rank[x] <=> new[k] < new[x]
                         /\ \A x \in live : rank[x] < rank[k] <=> new[x] < new[k]
                         /\ new[k] < new[n]
  <2>1. Reranks(live, kept, rank, top, n, new)
    BY <1>4, <1>5, Reranked
  <2>. QED  BY <1>5, <2>1 DEF Reranks
<1>8. Ranked(live, kept, new, m)'
  <2>1. live \subseteq Node \ free' /\ kept \subseteq live /\ Pending' \subseteq live \ kept
    BY <1>2, <1>4, <1>6 DEF Ranked
  <2>2. \A x \in live : IF x \in Pending' THEN new[x] = m ELSE new[x] < m
    BY <1>6, <1>7
  <2>. QED  BY <1>7, <2>1, <2>2 DEF Ranked
<1>9. kept \subseteq live
  BY <1>4 DEF Ranked
<1>10. EndsOut(live, kept, new)'
  BY <1>2, <1>6, <1>7, <1>9 DEF Ordered, Shape, EndsOut, NotBefore
<1>11. ASSUME NEW x \in live  PROVE Forward(x, live, kept, new)'
  <2>1. Forward(x, live, kept, rank) /\ next'[x] = next[x]
    BY <1>2 DEF Ordered, Shape
  <2>. QED  BY <1>6, <1>7, <2>1 DEF Forward
<1>12. ASSUME NEW x \in live  PROVE Backward(x, live, kept, new)'
  <2>1. Backward(x, live, kept, rank) /\ prev'[x] = IF x = n THEN tail ELSE prev[x]
    BY <1>2, <1>5 DEF Ordered, Shape, Typed
  <2>2. CASE x # n
    BY <1>6, <1>7, <1>9, <2>1, <2>2 DEF Backward, NotBefore
  <2>3. CASE x = n
    <3>1. /\ tail \in (live \ Pending) \cup {NULL, Dangling}
          /\ \A k \in kept : NotBefore(tail, live, rank, k)
      BY DEF Ordered, Shape, EndsOut
    <3>2. tail \in live => rank[tail] < rank[n]
      BY <1>4, <1>5, <3>1, SharedAssumption DEF Ranked
    <3>. QED  BY <1>5, <1>6, <1>7, <1>9, <2>1, <2>3, <3>1, <3>2 DEF Backward, NotBefore
  <2>. QED  BY <2>2, <2>3
<1>13. Shape(live, kept, new, m)'
  BY <1>8, <1>10, <1>11, <1>12 DEF Shape
<1>14. Works(live, kept, new)'
  <2>1. \A u \in Thread : pc'[u] = IF u = t THEN "appendTail" ELSE pc[u]
    BY <1>2 DEF Typed
  <2>2. ASSUME NEW u \in Thread, u # t  PROVE WorkFits(u, live, kept, new)'
    <3>1. WorkFits(u, live, kept, rank) /\ pc'[u] = pc[u] /\ node'[u] = node[u] /\ free' = free
      BY <1>2, <2>1, <2>2 DEF Ordered, Works
    <3>2. pc[u] \in {"appendTail", "inc", "incStore", "cutTail", "cutLast", "newHead", "headPrev"}
            => pc[u] \in Working /\ pc[u] \notin {"dec", "decStore", "free"}
      BY DEF Working, Changing, Label
    <3>. QED  BY <1>7, <3>1, <3>2 DEF WorkFits
  <2>3. WorkFits(t, live, kept, new)'
    BY <1>1, <1>2, <1>3, <1>4, <1>5, <1>7, <2>1 DEF WorkFits
  <2>4. Apart'
    BY <1>2, <1>3, <1>4, <2>1 DEF Apart
  <2>. QED  BY <2>2, <2>3, <2>4 DEF Works
<1>15. \A u \in Thread : (Takes(u)' => Takes(u)) /\ (Sure(u)' => Sure(u))
  BY <1>2 DEF Takes, Sure, Typed
<1>16. Aims(live, kept, new, goal, past)' /\ OwnedKept(kept)'
  <2>1. Later(live, kept, rank, live, new)
    BY <1>7, <1>9 DEF Later
  <2>2. Aims(live, kept, new, goal, past)'
    BY <1>2, <1>15, <2>1, AimsStep DEF Ordered
  <2>. QED  BY <1>2, <1>15, <2>2, OwnedSame DEF Ordered
<1>17. Pruned(live, kept) => Pruned(live, kept)'
  <2>1. \A u \in Thread : pc'[u] = IF u = t THEN "appendTail" ELSE pc[u]
    BY <1>2 DEF Typed
  <2>2. "appendTail" \in Changing \ {"insert"}
    BY DEF Changing, Label
  <2>. QED  BY <1>2, <2>1, <2>2 DEF Pruned
<1>. QED  BY <1>13, <1>14, <1>16, <1>17 DEF Ordered, OrderNext

(* The node of a removal has links to nodes before and after it.           *)
LEMMA Neighbours ==
  ASSUME NEW live, NEW kept, NEW rank, NEW top, NEW goal, NEW past,
         Ordered(live, kept, rank, top, goal, past), NEW t \in Thread, NEW n, n = node[t],
         pc[t] \in {"remove", "cutTail", "cutLast", "joinPrev", "unlink", "newHead", "headPrev",
                    "joinNext"}
  PROVE  /\ pc[t] \in Changing \ {"insert"} /\ pc[t] \in Working
         /\ n \in live \ (kept \cup Pending) /\ live \subseteq Node /\ kept \subseteq live
         /\ rank \in [Node -> Nat]
         /\ next[n] \in live \cup {NULL, Dangling}
         /\ prev[n] \in (live \ Pending) \cup {NULL, Dangling}
         /\ next[n] \in live => rank[n] < rank[next[n]]
         /\ prev[n] \in live => rank[prev[n]] < rank[n]
         /\ \A k \in kept : rank[k] < rank[n] \/ rank[n] < rank[k]
         /\ \A k \in kept : rank[n] < rank[k] => next[n] \in UpTo(live, rank, k) \cup {Dangling}
         /\ \A k \in kept : rank[k] < rank[n] => NotBefore(prev[n], live, rank, k)
         /\ NULL \notin live /\ Dangling \notin live \cup {NULL}
<1>1. pc[t] \in Changing \ {"insert"} /\ pc[t] \in Working
  BY DEF Changing, Label, Working
<1>2. WorkFits(t, live, kept, rank) /\ Apart /\ Ranked(live, kept, rank, top)
  BY DEF Ordered, Works, Shape
<1>3. n \in live \ (kept \cup Pending) /\ live \subseteq Node /\ rank \in [Node -> Nat]
  BY <1>1, <1>2, NotPending DEF WorkFits, Ranked
<1>4. Forward(n, live, kept, rank) /\ Backward(n, live, kept, rank)
  BY <1>3 DEF Ordered, Shape
<1>5. \A k \in kept : rank[k] < rank[n] \/ rank[n] < rank[k]
  BY <1>2, <1>3, Sides
<1>6. NULL \notin live /\ Dangling \notin live \cup {NULL} /\ kept \subseteq live
  BY <1>2, <1>3, SharedAssumption DEF Ranked
<1>. QED  BY <1>1, <1>3, <1>4, <1>5, <1>6 DEF Forward, Backward

(* A removal cuts its node off from the one behind it.                     *)
LEMMA RemoveBehindOrdered ==
  ASSUME Typed, NEW live, NEW kept, NEW rank, NEW top, NEW goal, NEW past,
         Ordered(live, kept, rank, top, goal, past), NEW t \in Thread, RemoveBehind(t)
  PROVE  OrderNext(live, kept)
<1>. USE DEF localVars
<1>1. PICK n : n = node[t]
  OBVIOUS
<1>2. PICK to \in {"cutTail", "joinPrev", "cutLast", "unlink"} :
        /\ pc[t] \in {"remove", "cutTail", "cutLast", "joinPrev"}
        /\ pc' = [pc EXCEPT ![t] = to]
        /\ UNCHANGED <<node, elem, call, stays, owned, data, free, head>>
        /\ \/ /\ pc[t] = "remove" /\ to = IF next[n] = NULL THEN "cutTail" ELSE "joinPrev"
              /\ UNCHANGED <<tail, next, prev>>
           \/ /\ pc[t] = "cutTail" /\ to = "cutLast" /\ tail' = prev[n]
              /\ UNCHANGED <<next, prev>>
           \/ /\ pc[t] = "cutLast" /\ to = "unlink" /\ (prev[n] = NULL \/ Valid(prev[n]))
              /\ next' = IF prev[n] = NULL THEN next ELSE [next EXCEPT ![prev[n]] = NULL]
              /\ UNCHANGED <<tail, prev>>
           \/ /\ pc[t] = "joinPrev" /\ to = "unlink" /\ Valid(next[n])
              /\ prev' = [prev EXCEPT ![next[n]] = prev[n]]
              /\ UNCHANGED <<tail, next>>
  BY <1>1 DEF RemoveBehind, Step
<1>3. /\ pc[t] \in Changing \ {"insert"} /\ pc[t] \in Working
      /\ n \in live \ (kept \cup Pending) /\ live \subseteq Node /\ kept \subseteq live
      /\ rank \in [Node -> Nat]
      /\ next[n] \in live \cup {NULL, Dangling}
      /\ prev[n] \in (live \ Pending) \cup {NULL, Dangling}
      /\ next[n] \in live => rank[n] < rank[next[n]]
      /\ prev[n] \in live => rank[prev[n]] < rank[n]
      /\ \A k \in kept : rank[k] < rank[n] \/ rank[n] < rank[k]
      /\ \A k \in kept : rank[n] < rank[k] => next[n] \in UpTo(live, rank, k) \cup {Dangling}
      /\ \A k \in kept : rank[k] < rank[n] => NotBefore(prev[n], live, rank, k)
      /\ NULL \notin live /\ Dangling \notin live \cup {NULL}
  BY <1>1, <1>2, Neighbours
<1>4. Pending' = Pending
  BY <1>2, PendingSame
<1>5. WorkFits(t, live, kept, rank) /\ Shape(live, kept, rank, top)
  BY DEF Ordered, Works
<1>6. pc[t] \in {"cutTail", "cutLast"} => \A k \in kept : rank[k] < rank[n]
  BY <1>1, <1>3, <1>5 DEF WorkFits
<1>7. \A x \in Node \ live : next'[x] = next[x]
  <2>1. prev[n] \in Node => prev[n] \in live
    BY <1>3, SharedAssumption
  <2>. QED  BY <1>2, <2>1 DEF Typed, Valid
<1>8. Shape(live, kept, rank, top)'
  <2>1. CASE pc[t] = "remove"
    BY <1>2, <1>4, <1>5, <2>1, ShapeSame
  <2>2. CASE pc[t] = "cutTail"
    <3>1. tail' = prev[n] /\ \A k \in kept : NotBefore(prev[n], live, rank, k)
      BY <1>2, <1>3, <1>6, <2>2
    <3>2. EndsOut(live, kept, rank)'
      BY <1>2, <1>3, <1>4, <1>5, <3>1 DEF Shape, EndsOut, NotBefore, UpTo
    <3>. QED  BY <1>2, <1>4, <1>5, <2>2, <3>2, EndsSet
  <2>3. CASE pc[t] = "cutLast" /\ prev[n] = NULL
    BY <1>2, <1>4, <1>5, <2>3, ShapeSame
  <2>4. CASE pc[t] = "cutLast" /\ prev[n] # NULL
    <3>1. PICK p : p = prev[n]
      OBVIOUS
    <3>2. p \in live \ Pending /\ next' = [next EXCEPT ![p] = NULL] /\ UNCHANGED <<tail, prev>>
      BY <1>2, <1>3, <2>4, <3>1, SharedAssumption DEF Valid
    <3>3. \A k \in kept : ~(rank[p] < rank[k])
      <4>1. \A k \in kept : rank[k] <= rank[p]
        BY <1>3, <1>6, <2>4, <3>1, <3>2 DEF NotBefore
      <4>. QED  BY <1>3, <3>2, <4>1
    <3>. QED  BY <1>2, <1>3, <1>4, <1>5, <3>2, <3>3, ForwardSet
  <2>5. CASE pc[t] = "joinPrev"
    <3>1. PICK m, p : m = next[n] /\ p = prev[n]
      OBVIOUS
    <3>2. m \in live /\ prev' = [prev EXCEPT ![m] = p] /\ UNCHANGED <<tail, next>>
      BY <1>2, <1>3, <2>5, <3>1, SharedAssumption DEF Valid
    <3>3. p \in live => rank[p] < rank[m]
      BY <1>3, <3>1, <3>2
    <3>4. ASSUME NEW k \in kept, rank[k] < rank[m]  PROVE NotBefore(p, live, rank, k)
      <4>1. rank[n] < rank[k] => rank[m] <= rank[k]
        BY <1>3, <3>1, <3>2 DEF UpTo
      <4>. QED  BY <1>3, <3>1, <3>2, <3>4, <4>1
    <3>. QED  BY <1>2, <1>3, <1>4, <1>5, <3>1, <3>2, <3>3, <3>4, BackwardSet
  <2>. QED  BY <1>2, <2>1, <2>2, <2>3, <2>4, <2>5
<1>9. to \in Changing \ {"insert"} /\ to \in Working
  BY DEF Changing, Label, Working
<1>10. WorkFits(t, live, kept, rank)'
  <2>1. to \in {"cutTail", "cutLast"} => \A k \in kept : rank[k] < rank[n]
    BY <1>2, <1>3, <1>6 DEF UpTo
  <2>. QED  BY <1>1, <1>2, <1>3, <1>5, <2>1 DEF WorkFits, Typed
<1>. QED  BY <1>2, <1>3, <1>7, <1>8, <1>9, <1>10, LinkOrdered DEF OrderNext

(* And from the one before it.                                             *)
LEMMA RemoveBeforeOrdered ==
  ASSUME Typed, NEW live, NEW kept, NEW rank, NEW top, NEW goal, NEW past,
         Ordered(live, kept, rank, top, goal, past), NEW t \in Thread, RemoveBefore(t)
  PROVE  OrderNext(live, kept)
<1>. USE DEF localVars
<1>1. PICK n : n = node[t]
  OBVIOUS
<1>2. PICK to \in {"newHead", "joinNext", "headPrev", "dec"} :
        /\ pc[t] \in {"unlink", "newHead", "headPrev", "joinNext"}
        /\ pc' = [pc EXCEPT ![t] = to]
        /\ UNCHANGED <<node, elem, call, stays, owned, data, free, tail>>
        /\ \/ /\ pc[t] = "unlink" /\ to = IF prev[n] = NULL THEN "newHead" ELSE "joinNext"
              /\ UNCHANGED <<head, next, prev>>
           \/ /\ pc[t] = "newHead" /\ to = "headPrev" /\ head' = next[n]
              /\ UNCHANGED <<next, prev>>
           \/ /\ pc[t] = "headPrev" /\ to = "dec" /\ (next[n] = NULL \/ Valid(next[n]))
              /\ prev' = IF next[n] = NULL THEN prev ELSE [prev EXCEPT ![next[n]] = NULL]
              /\ UNCHANGED <<head, next>>
           \/ /\ pc[t] = "joinNext" /\ to = "dec" /\ Valid(prev[n])
              /\ next' = [next EXCEPT ![prev[n]] = next[n]]
              /\ UNCHANGED <<head, prev>>
  BY <1>1 DEF RemoveBefore, Step
<1>3. /\ pc[t] \in Changing \ {"insert"} /\ pc[t] \in Working
      /\ n \in live \ (kept \cup Pending) /\ live \subseteq Node /\ kept \subseteq live
      /\ rank \in [Node -> Nat]
      /\ next[n] \in live \cup {NULL, Dangling}
      /\ prev[n] \in (live \ Pending) \cup {NULL, Dangling}
      /\ next[n] \in live => rank[n] < rank[next[n]]
      /\ prev[n] \in live => rank[prev[n]] < rank[n]
      /\ \A k \in kept : rank[k] < rank[n] \/ rank[n] < rank[k]
      /\ \A k \in kept : rank[n] < rank[k] => next[n] \in UpTo(live, rank, k) \cup {Dangling}
      /\ \A k \in kept : rank[k] < rank[n] => NotBefore(prev[n], live, rank, k)
      /\ NULL \notin live /\ Dangling \notin live \cup {NULL}
  BY <1>1, <1>2, Neighbours
<1>4. Pending' = Pending
  BY <1>2, PendingSame
<1>5. WorkFits(t, live, kept, rank) /\ Shape(live, kept, rank, top)
  BY DEF Ordered, Works
<1>6. pc[t] \in {"newHead", "headPrev"} => \A k \in kept : rank[n] < rank[k]
  BY <1>1, <1>3, <1>5 DEF WorkFits
<1>7. \A x \in Node \ live : next'[x] = next[x]
  <2>1. prev[n] \in Node => prev[n] \in live
    BY <1>3, SharedAssumption
  <2>. QED  BY <1>2, <2>1 DEF Typed, Valid
<1>8. Shape(live, kept, rank, top)'
  <2>1. CASE pc[t] = "unlink"
    BY <1>2, <1>4, <1>5, <2>1, ShapeSame
  <2>2. CASE pc[t] = "newHead"
    <3>1. head' = next[n] /\ \A k \in kept : next[n] \in UpTo(live, rank, k) \cup {Dangling}
      BY <1>2, <1>3, <1>6, <2>2
    <3>2. EndsOut(live, kept, rank)'
      BY <1>2, <1>3, <1>4, <1>5, <3>1 DEF Shape, EndsOut, NotBefore, UpTo
    <3>. QED  BY <1>2, <1>4, <1>5, <2>2, <3>2, EndsSet
  <2>3. CASE pc[t] = "headPrev" /\ next[n] = NULL
    BY <1>2, <1>4, <1>5, <2>3, ShapeSame
  <2>4. CASE pc[t] = "headPrev" /\ next[n] # NULL
    <3>1. PICK m : m = next[n]
      OBVIOUS
    <3>2. m \in live /\ prev' = [prev EXCEPT ![m] = NULL] /\ UNCHANGED <<head, next>>
      BY <1>2, <1>3, <2>4, <3>1, SharedAssumption DEF Valid
    <3>3. \A k \in kept : ~(rank[k] < rank[m])
      <4>1. \A k \in kept : rank[m] <= rank[k]
        BY <1>3, <1>6, <2>4, <3>1, <3>2 DEF UpTo
      <4>. QED  BY <1>3, <3>2, <4>1
    <3>. QED  BY <1>2, <1>3, <1>4, <1>5, <3>2, <3>3, BackwardSet
  <2>5. CASE pc[t] = "joinNext"
    <3>1. PICK m, p : m = next[n] /\ p = prev[n]
      OBVIOUS
    <3>2. p \in live \ Pending /\ next' = [next EXCEPT ![p] = m] /\ UNCHANGED <<head, prev>>
      BY <1>2, <1>3, <2>5, <3>1, SharedAssumption DEF Valid
    <3>3. m \in live => rank[p] < rank[m]
      BY <1>3, <3>1, <3>2
    <3>4. ASSUME NEW k \in kept, rank[p] < rank[k]
          PROVE  m \in UpTo(live, rank, k) \cup {Dangling}
      <4>1. rank[k] < rank[n] => rank[k] <= rank[p]
        BY <1>3, <3>1, <3>2 DEF NotBefore
      <4>. QED  BY <1>3, <3>1, <3>2, <3>4, <4>1
    <3>. QED  BY <1>2, <1>3, <1>4, <1>5, <3>1, <3>2, <3>3, <3>4, ForwardSet
  <2>. QED  BY <1>2, <2>1, <2>2, <2>3, <2>4, <2>5
<1>9. to \in Changing \ {"insert"} /\ to \in Working
  BY DEF Changing, Label, Working
<1>10. WorkFits(t, live, kept, rank)'
  <2>1. to \in {"newHead", "headPrev"} => \A k \in kept : rank[n] < rank[k]
    BY <1>2, <1>3, <1>6 DEF NotBefore
  <2>. QED  BY <1>1, <1>2, <1>3, <1>5, <2>1 DEF WorkFits, Typed
<1>. QED  BY <1>2, <1>3, <1>7, <1>8, <1>9, <1>10, LinkOrdered DEF OrderNext

(* A thread that has no node, before and after.                            *)
LEMMA OutsideOrdered ==
  ASSUME Typed, NEW live, NEW kept, NEW rank, NEW top, NEW goal, NEW past,
         Ordered(live, kept, rank, top, goal, past), NEW t \in Thread, NEW to,
         pc' = [pc EXCEPT ![t] = to], pc[t] \notin Working, to \notin Working,
         UNCHANGED <<head, tail, next, prev, free>>, \A u \in Thread \ {t} : node'[u] = node[u],
         NEW aim, NEW gone, Aims(live, kept, rank, aim, gone)', OwnedKept(kept)'
  PROVE  OrderNext(live, kept)
<1>1. \A u \in Thread : pc'[u] = IF u = t THEN to ELSE pc[u]
  BY DEF Typed
<1>2. {"append", "appendPrev"} \subseteq Working /\ Changing \ {"insert"} \subseteq Working
  BY DEF Working, Changing, Label
<1>3. Pending' = Pending
  BY <1>1, <1>2 DEF Pending
<1>4. kept \subseteq live
  BY DEF Ordered, Shape, Ranked
<1>5. Shape(live, kept, rank, top)'
  BY <1>3, ShapeSame DEF Ordered
<1>6. Works(live, kept, rank)'
  BY <1>1, WorksStep DEF Ordered, WorkFits
<1>7. Pruned(live, kept) => Pruned(live, kept)'
  BY <1>1, <1>2 DEF Pruned
<1>. QED  BY <1>5, <1>6, <1>7 DEF Ordered, OrderNext

(* The searches of the other threads do not notice a step of t that        *)
(* changes no link, as long as it works on none of their goals.            *)
LEMMA AimsOthers ==
  ASSUME NEW live, NEW kept, NEW rank, NEW goal, NEW past, Aims(live, kept, rank, goal, past),
         NEW t \in Thread, UNCHANGED <<next, data, free>>,
         \A u \in Thread \ {t} :
           /\ pc'[u] = pc[u] /\ call'[u] = call[u] /\ elem'[u] = elem[u] /\ node'[u] = node[u]
           /\ stays'[u] => stays[u],
         NEW aim \in [Thread -> Node \cup {NULL}], NEW gone \in [Thread -> SUBSET Node],
         NEW fewer \in SUBSET kept,
         \A u \in Thread \ {t} : aim[u] = goal[u] /\ gone[u] = past[u],
         \A u \in Thread \ {t} : Takes(u) \/ Sure(u)' => goal[u] \in fewer,
         AimFits(t, live, fewer, rank, aim, gone)'
  PROVE  Aims(live, fewer, rank, aim, gone)'
<1>1. ASSUME NEW u \in Thread \ {t}  PROVE AimFits(u, live, fewer, rank, aim, gone)'
  <2>1. /\ pc'[u] = pc[u] /\ call'[u] = call[u] /\ elem'[u] = elem[u] /\ node'[u] = node[u]
        /\ aim[u] = goal[u] /\ gone[u] = past[u]
        /\ (Takes(u)' <=> Takes(u)) /\ (Sure(u)' => Sure(u))
    BY DEF Takes, Sure
  <2>2. AimFits(u, live, kept, rank, goal, past)
    BY DEF Aims
  <2>3. goal[u] \in fewer \/ ~(Takes(u)' \/ Sure(u)')
    BY <2>1
  <2>. QED  BY <2>1, <2>2, <2>3 DEF AimFits, UpTo
<1>. QED  BY <1>1 DEF Aims

(* Who gets the mutex.                                                     *)
LEMMA LockOrdered ==
  ASSUME Typed, NEW live, NEW kept, NEW rank, NEW top, NEW goal, NEW past,
         Ordered(live, kept, rank, top, goal, past), NEW t \in Thread, Lock(t)
  PROVE  OrderNext(live, kept)
<1>. USE DEF localVars, listVars
<1>1. PICK to \in {"insert", "find"} :
        pc[t] = "lock" /\ pc' = [pc EXCEPT ![t] = to]
  BY DEF Lock, Step
<1>2. UNCHANGED <<listVars, localVars, owned, stays>>
  BY DEF Lock
<1>3. pc[t] \notin Working /\ to \notin Working
  BY <1>1 DEF Working, Changing, Label
<1>4. \A u \in Thread : (Takes(u)' => Takes(u)) /\ (Sure(u)' => Sure(u))
  BY <1>1, <1>2 DEF Takes, Sure, Typed
<1>5. Aims(live, kept, rank, goal, past)' /\ OwnedKept(kept)'
  BY <1>2, <1>4, AimsSame, OwnedSame DEF Ordered, Shape
<1>. QED  BY <1>1, <1>2, <1>3, <1>5, OutsideOrdered

(* A search begins before its goal: that of the removal, or any node that  *)
(* is kept and has the element.                                            *)
LEMMA FindHeadOrdered ==
  ASSUME Typed, CallsFit, DOMAIN stays = Thread,
         NEW live, NEW kept, NEW rank, NEW top, NEW goal, NEW past,
         Ordered(live, kept, rank, top, goal, past), NEW t \in Thread, FindHead(t)
  PROVE  OrderNext(live, kept)
<1>. USE DEF localVars, listVars
<1>1. /\ pc[t] = "find" /\ pc' = [pc EXCEPT ![t] = "walk"]
      /\ node' = [node EXCEPT ![t] = head] /\ stays' = [stays EXCEPT ![t] = elem[t] \in owned]
      /\ UNCHANGED <<listVars, call, elem, owned>>
  BY DEF FindHead, Step
<1>2. pc[t] \notin Working /\ "walk" \notin Working
  BY <1>1 DEF Working, Changing, Label
<1>3. /\ pc'[t] = "walk" /\ node'[t] = head
      /\ \A u \in Thread \ {t} : pc'[u] = pc[u] /\ node'[u] = node[u] /\ stays'[u] = stays[u]
  BY <1>1 DEF Typed
<1>4. /\ \A u \in Thread : (Takes(u)' <=> Takes(u))
      /\ Sure(t)' /\ call[t] = "LOGIN" => elem[t] \in owned
      /\ call[t] # "LOGIN" => Takes(t)
  <2>1. call[t] \in {"releaseThread", "LOGIN", "EXIT"}
    BY <1>1 DEF CallsFit, CallFits
  <2>2. Sure(t)' /\ call[t] = "LOGIN" => elem[t] \in owned
    BY <1>1 DEF Sure, Typed
  <2>. QED  BY <1>1, <1>3, <2>1, <2>2 DEF Takes
<1>5. /\ kept \subseteq live /\ live \subseteq Node
      /\ goal \in [Thread -> Node \cup {NULL}] /\ past \in [Thread -> SUBSET Node]
      /\ \A k \in kept : head \in UpTo(live, rank, k) \cup {Dangling}
  BY DEF Ordered, Shape, Ranked, EndsOut, Aims
<1>6. PICK aim \in [Thread -> Node \cup {NULL}] :
        /\ \A u \in Thread \ {t} : aim[u] = goal[u]
        /\ call[t] # "LOGIN" => aim[t] = goal[t]
        /\ Sure(t)' /\ call[t] = "LOGIN" =>
             aim[t] \in kept /\ data[aim[t]] = elem[t]
  <2>1. CASE Sure(t)' /\ call[t] = "LOGIN"
    <3>1. PICK k \in kept : data[k] = elem[t]
      BY <1>4, <2>1 DEF Ordered, OwnedKept
    <3>2. [goal EXCEPT ![t] = k] \in [Thread -> Node \cup {NULL}]
      BY <1>5, <3>1
    <3>. QED  BY <1>5, <2>1, <3>1, <3>2
  <2>2. CASE ~(Sure(t)' /\ call[t] = "LOGIN")
    BY <1>5, <2>2
  <2>. QED  BY <2>1, <2>2
<1>7. PICK gone \in [Thread -> SUBSET Node] :
        gone[t] = {} /\ \A u \in Thread \ {t} : gone[u] = past[u]
  <2>1. [past EXCEPT ![t] = {}] \in [Thread -> SUBSET Node]
    BY <1>5
  <2>. QED  BY <1>5, <2>1
<1>8. AimFits(t, live, kept, rank, aim, gone)'
  <2>1. AimFits(t, live, kept, rank, goal, past)
    BY DEF Ordered, Aims
  <2>2. Takes(t)' \/ Sure(t)' => aim[t] \in kept /\ data'[aim[t]] = elem'[t]
    BY <1>1, <1>4, <1>6, <2>1 DEF AimFits, Takes
  <2>3. Takes(t)' => \A x \in live : data'[x] = elem'[t] => rank[aim[t]] <= rank[x]
    BY <1>1, <1>4, <1>6, <2>1 DEF AimFits, Takes
  <2>4. Sure(t)' => node'[t] \in UpTo(live, rank, aim[t]) \cup {Dangling}
    BY <1>3, <1>5, <2>2
  <2>. QED  BY <1>7, <2>2, <2>3, <2>4 DEF AimFits, UpTo
<1>9. Aims(live, kept, rank, aim, gone)'
  <2>1. \A u \in Thread \ {t} : Takes(u) \/ Sure(u)' => goal[u] \in kept
    <3>1. \A u \in Thread \ {t} : Sure(u)' => Sure(u)
      BY <1>1, <1>3 DEF Sure
    <3>. QED  BY <3>1 DEF Ordered, Aims, AimFits
  <2>2. Aims(live, kept, rank, goal, past)
    BY DEF Ordered
  <2>. QED  BY <1>1, <1>3, <1>6, <1>7, <1>8, <2>1, <2>2, AimsOthers
<1>10. OwnedKept(kept)'
  BY <1>1 DEF Ordered, OwnedKept
<1>. QED  BY <1>1, <1>2, <1>3, <1>9, <1>10, OutsideOrdered

(* A search goes on: over nodes that were taken out, or nearer its goal.   *)
LEMMA FindNextOrdered ==
  ASSUME Typed, CallsFit, NEW live, NEW kept, NEW rank, NEW top, NEW goal, NEW past,
         Ordered(live, kept, rank, top, goal, past), NEW t \in Thread, FindNext(t)
  PROVE  OrderNext(live, kept)
<1>. USE DEF localVars, listVars
<1>1. PICK n : n = node[t]
  OBVIOUS
<1>2. /\ pc[t] = "walk" /\ pc' = [pc EXCEPT ![t] = "walk"] /\ n \in Node /\ data[n] # elem[t]
      /\ node' = [node EXCEPT ![t] = next[n]]
      /\ UNCHANGED <<listVars, call, elem, owned, stays>>
  BY <1>1 DEF FindNext, Step, Valid
<1>3. pc[t] \notin Working /\ "walk" \notin Working
  BY <1>2 DEF Working, Changing, Label
<1>4. /\ \A u \in Thread : pc'[u] = pc[u] /\ (u # t => node'[u] = node[u])
      /\ node'[t] = next[n]
  BY <1>2 DEF Typed
<1>5. \A u \in Thread : (Takes(u)' <=> Takes(u)) /\ (Sure(u)' <=> Sure(u))
  BY <1>2, <1>4 DEF Takes, Sure
<1>6. /\ kept \subseteq live /\ live \subseteq Node /\ rank \in [Node -> Nat]
      /\ \A x \in live, k \in kept : rank[x] = rank[k] => x = k
      /\ goal \in [Thread -> Node \cup {NULL}] /\ past \in [Thread -> SUBSET Node]
      /\ \A u \in Thread : AimFits(u, live, kept, rank, goal, past)
      /\ \A x \in live : Forward(x, live, kept, rank)
      /\ Aims(live, kept, rank, goal, past)
  BY DEF Ordered, Shape, Ranked, Aims
<1>7. AimFits(t, live, kept, rank, goal, past)'
  <2>1. ASSUME Sure(t)
        PROVE  next[n] \in past[t] \cup UpTo(live, rank, goal[t]) \cup {Dangling}
    <3>1. /\ goal[t] \in kept /\ data[goal[t]] = elem[t]
          /\ n \in past[t] \cup UpTo(live, rank, goal[t]) \cup {Dangling}
          /\ \A x \in past[t] : next[x] \in past[t] \cup UpTo(live, rank, goal[t]) \cup {Dangling}
      BY <1>1, <1>6, <2>1 DEF AimFits
    <3>2. CASE n \in past[t]
      BY <3>1, <3>2
    <3>3. CASE n \notin past[t]
      <4>1. n \in live /\ rank[n] <= rank[goal[t]] /\ n # goal[t]
        BY <1>2, <3>1, <3>3, SharedAssumption DEF UpTo
      <4>2. rank[n] < rank[goal[t]]
        BY <1>6, <3>1, <4>1
      <4>. QED  BY <1>6, <3>1, <4>1, <4>2 DEF Forward
    <3>. QED  BY <3>2, <3>3
  <2>. QED  BY <1>2, <1>4, <1>5, <1>6, <2>1 DEF AimFits, UpTo
<1>8. \A u \in Thread \ {t} : Takes(u) \/ Sure(u)' => goal[u] \in kept
  BY <1>5, <1>6 DEF AimFits
<1>9. Aims(live, kept, rank, goal, past)'
  BY <1>2, <1>4, <1>6, <1>7, <1>8, AimsOthers
<1>10. OwnedKept(kept)'
  BY <1>2 DEF Ordered, OwnedKept
<1>. QED  BY <1>2, <1>3, <1>4, <1>9, <1>10, OutsideOrdered

(* The removals of other threads, and searches that cannot miss what they  *)
(* are for when it is not the same, have other goals.                      *)
LEMMA GoalsApart ==
  ASSUME Owners, NEW live, NEW kept, NEW rank, NEW goal, NEW past,
         Aims(live, kept, rank, goal, past), NEW t \in Thread, Takes(t), NEW u \in Thread \ {t},
         Takes(u) \/ (Sure(u) /\ (call[u] = "LOGIN" => elem[u] # elem[t]))
  PROVE  goal[u] # goal[t]
<1>. SUFFICES ASSUME goal[u] = goal[t]  PROVE FALSE
  OBVIOUS
<1>1. AimFits(t, live, kept, rank, goal, past) /\ AimFits(u, live, kept, rank, goal, past)
  BY DEF Aims
<1>2. elem[t] = elem[u]
  BY <1>1 DEF AimFits
<1>3. call[t] # "LOGIN" /\ pc[t] # "idle" /\ pc[u] # "idle"
  BY DEF Takes, Sure
<1>4. call[u] = "LOGIN"
  BY <1>2, <1>3 DEF Owners
<1>. QED  BY <1>2, <1>4 DEF Takes

(* The end of a search.  What is found to be removed is the goal: it is no *)
(* longer kept.                                                            *)
LEMMA FindEndOrdered ==
  ASSUME Typed, CallsFit, Owners, DOMAIN stays = Thread,
         NEW live, NEW kept, NEW rank, NEW top, NEW goal, NEW past,
         Ordered(live, kept, rank, top, goal, past), NEW t \in Thread, FindEnd(t)
  PROVE  OrderNext(live, kept)
<1>. USE DEF localVars, listVars
<1>1. PICK n : n = node[t]
  OBVIOUS
<1>2. CASE Faults(t, "walk", n)
  BY <1>2, FaultOrdered DEF Faults, histVars
<1>3. /\ kept \subseteq live /\ live \subseteq Node \ free /\ rank \in [Node -> Nat]
      /\ \A x \in live, k \in kept : rank[x] = rank[k] => x = k
      /\ goal \in [Thread -> Node \cup {NULL}] /\ past \in [Thread -> SUBSET Node]
      /\ \A u \in Thread : AimFits(u, live, kept, rank, goal, past)
      /\ Aims(live, kept, rank, goal, past) /\ Works(live, kept, rank)
      /\ Shape(live, kept, rank, top)
  BY DEF Ordered, Shape, Ranked, Aims
<1>4. ASSUME NEW to \in {"idle", "insert"}, pc[t] = "walk", pc' = [pc EXCEPT ![t] = to],
             \A u \in Thread \ {t} :
               /\ node'[u] = node[u] /\ call'[u] = call[u]
               /\ elem'[u] = elem[u] /\ stays'[u] = stays[u],
             UNCHANGED <<listVars, owned>>
      PROVE  OrderNext(live, kept)
  <2>1. pc[t] \notin Working /\ to \notin Working
    BY <1>4 DEF Working, Changing, Label
  <2>2. \A u \in Thread : pc'[u] = IF u = t THEN to ELSE pc[u]
    BY <1>4 DEF Typed
  <2>3. \A u \in Thread : /\ Takes(u)' => Takes(u) /\ u # t
                          /\ Sure(u)' => Sure(u) /\ u # t
    BY <1>4, <2>2 DEF Takes, Sure
  <2>4. Aims(live, kept, rank, goal, past)' /\ OwnedKept(kept)'
    BY <1>3, <1>4, <2>3, AimsSame, OwnedSame DEF Ordered, Shape
  <2>. QED  BY <1>4, <2>1, <2>4, OutsideOrdered
<1>5. ASSUME n # NULL, call[t] # "LOGIN", pc[t] = "walk", pc' = [pc EXCEPT ![t] = "remove"],
             n \in Node, data[n] = elem[t], UNCHANGED <<localVars, listVars>>,
             owned' = owned \ {elem[t]},
             stays' = [u \in Thread |-> stays[u] /\ elem[u] # elem[t]]
      PROVE  OrderNext(live, kept)
  <2>1. \A u \in Thread : pc'[u] = IF u = t THEN "remove" ELSE pc[u]
    BY <1>5 DEF Typed
  <2>2. Takes(t) /\ Sure(t)
    <3>1. call[t] \in {"releaseThread", "EXIT"}
      BY <1>5 DEF CallsFit, CallFits
    <3>. QED  BY <1>5, <3>1 DEF Takes, Sure
  <2>3. n = goal[t] /\ n \in kept
    <3>1. /\ goal[t] \in kept /\ n \in past[t] \cup UpTo(live, rank, goal[t]) \cup {Dangling}
          /\ n \notin past[t] /\ \A x \in live : data[x] = elem[t] => rank[goal[t]] <= rank[x]
      BY <1>1, <1>3, <1>5, <2>2 DEF AimFits
    <3>2. n \in live /\ rank[n] <= rank[goal[t]]
      BY <1>5, <3>1, SharedAssumption DEF UpTo
    <3>3. rank[n] = rank[goal[t]]
      BY <1>3, <1>5, <3>1, <3>2
    <3>. QED  BY <1>3, <3>1, <3>2, <3>3
  <2>. PICK fewer : fewer = kept \ {n}
    OBVIOUS
  <2>4. "remove" \in Changing \ {"insert"} /\ "remove" \in Working /\ pc[t] \notin Working
    BY <1>5 DEF Working, Changing, Label
  <2>5. Pending' = Pending
    BY <1>5, PendingSame
  <2>6. Shape(live, fewer, rank, top)'
    BY <1>3, <1>5, <2>5, ShapeSame
  <2>7. Works(live, fewer, rank)'
    <3>1. ASSUME NEW u \in Thread, u # t  PROVE WorkFits(u, live, fewer, rank)'
      <4>1. WorkFits(u, live, kept, rank)
        BY <1>3 DEF Works
      <4>. QED  BY <1>5, <2>1, <3>1, <4>1 DEF WorkFits
    <3>2. WorkFits(t, live, fewer, rank)'
      BY <1>1, <1>3, <1>5, <2>1, <2>3 DEF WorkFits
    <3>3. \A u \in Thread : pc[u] \in Working => node[u] # n
      BY <1>3, <2>3 DEF Works, WorkFits
    <3>4. Apart'
      BY <1>1, <1>3, <1>5, <2>1, <3>3 DEF Works, Apart
    <3>. QED  BY <3>1, <3>2, <3>4 DEF Works
  <2>8. \A u \in Thread :
          /\ Takes(u)' <=> Takes(u) /\ u # t
          /\ Sure(u)' => Sure(u) /\ u # t /\ (call[u] = "LOGIN" => elem[u] # elem[t])
          /\ stays'[u] => stays[u]
    <3>. TAKE u \in Thread
    <3>1. stays'[u] => stays[u] /\ elem[u] # elem[t]
      BY <1>5, Zenon
    <3>2. call'[u] = call[u] /\ (pc'[u] = IF u = t THEN "remove" ELSE pc[u])
      BY <1>5, <2>1
    <3>3. Takes(u)' <=> Takes(u) /\ u # t
      BY <1>5, <3>2 DEF Takes
    <3>4. Sure(u)' => Sure(u) /\ u # t /\ (call[u] = "LOGIN" => elem[u] # elem[t])
      BY <3>1, <3>2 DEF Sure
    <3>. QED  BY <3>1, <3>3, <3>4
  <2>9. Aims(live, fewer, rank, goal, past)'
    <3>1. \A u \in Thread \ {t} : Takes(u) \/ Sure(u)' => goal[u] \in fewer
      <4>1. \A u \in Thread \ {t} : Takes(u) \/ Sure(u)' => goal[u] # n
        BY <1>3, <2>2, <2>3, <2>8, GoalsApart
      <4>. QED  BY <1>3, <2>8, <4>1 DEF AimFits
    <3>2. AimFits(t, live, fewer, rank, goal, past)' /\ ~Takes(t)'
      BY <2>8 DEF AimFits
    <3>3. \A u \in Thread \ {t} :
            /\ pc'[u] = pc[u] /\ call'[u] = call[u] /\ elem'[u] = elem[u] /\ node'[u] = node[u]
            /\ stays'[u] => stays[u]
      <4>1. \A u \in Thread \ {t} : pc'[u] = pc[u]
        BY <2>1
      <4>. QED  BY <1>5, <2>8, <4>1
    <3>4. fewer \in SUBSET kept /\ UNCHANGED <<next, data, free>>
      BY <1>5
    <3>. QED  BY <1>3, <3>1, <3>2, <3>3, <3>4, AimsOthers
  <2>10. OwnedKept(fewer)'
    <3>1. ASSUME NEW e \in owned, e # elem[t]  PROVE \E k \in fewer : data[k] = e
      <4>1. PICK k \in kept : data[k] = e
        BY DEF Ordered, OwnedKept
      <4>. QED  BY <1>5, <3>1, <4>1
    <3>. QED  BY <1>5, <3>1 DEF OwnedKept
  <2>11. Pruned(live, kept) => Pruned(live, fewer)'
    BY <1>1, <1>5, <2>1, <2>4 DEF Pruned
  <2>. QED  BY <2>6, <2>7, <2>9, <2>10, <2>11 DEF Ordered, OrderNext
<1>6. CASE ~Faults(t, "walk", n)
  <2>1. \/ /\ pc[t] = "walk" /\ pc' = [pc EXCEPT ![t] = "insert"]
           /\ UNCHANGED <<localVars, listVars, owned>> /\ stays' = [stays EXCEPT ![t] = FALSE]
        \/ /\ pc[t] = "walk" /\ pc' = [pc EXCEPT ![t] = "idle"]
           /\ UNCHANGED <<listVars, owned>> /\ stays' = [stays EXCEPT ![t] = FALSE]
           /\ call' = [call EXCEPT ![t] = "none"] /\ elem' = [elem EXCEPT ![t] = NULL]
           /\ node' = [node EXCEPT ![t] = NULL]
        \/ /\ n # NULL /\ call[t] # "LOGIN" /\ pc[t] = "walk" /\ pc' = [pc EXCEPT ![t] = "remove"]
           /\ n \in Node /\ data[n] = elem[t]
           /\ owned' = owned \ {elem[t]} /\ UNCHANGED <<localVars, listVars>>
           /\ stays' = [u \in Thread |-> stays[u] /\ elem[u] # elem[t]]
    BY <1>1, <1>6 DEF FindEnd, Step, Return, Returns, Valid
  <2>2. CASE pc' = [pc EXCEPT ![t] = "remove"]
    <3>1. pc'[t] = "remove"
      BY <2>2 DEF Typed
    <3>2. pc' # [pc EXCEPT ![t] = "insert"] /\ pc' # [pc EXCEPT ![t] = "idle"]
      BY <3>1 DEF Typed
    <3>. QED  BY <1>5, <2>1, <3>2
  <2>3. CASE \E to \in {"idle", "insert"} : pc' = [pc EXCEPT ![t] = to]
    <3>1. pc'[t] # "remove"
      BY <2>3 DEF Typed
    <3>2. pc' # [pc EXCEPT ![t] = "remove"]
      BY <3>1 DEF Typed
    <3>3. /\ pc[t] = "walk" /\ UNCHANGED <<listVars, owned>>
          /\ \A u \in Thread \ {t} : /\ node'[u] = node[u] /\ call'[u] = call[u]
                                     /\ elem'[u] = elem[u] /\ stays'[u] = stays[u]
      BY <2>1, <3>2 DEF Typed
    <3>. QED  BY <1>4, <2>3, <3>3
  <2>. QED  BY <2>1, <2>2, <2>3
<1>. QED  BY <1>2, <1>6

(* A node that is handed out comes after all others, pending if it is to   *)
(* be appended; if it is taken for the first, none that is kept is there.  *)
LEMMA InsertOrdered ==
  ASSUME Typed, NEW live, NEW kept, NEW rank, NEW top, NEW goal, NEW past,
         Ordered(live, kept, rank, top, goal, past), NEW t \in Thread, Insert(t)
  PROVE  OrderNext(live, kept)
<1>1. PICK n, to : /\ n \in free /\ to = IF head = NULL THEN "first" ELSE "append"
                   /\ pc[t] = "insert" /\ pc' = [pc EXCEPT ![t] = to] /\ free' = free \ {n}
                   /\ node' = [node EXCEPT ![t] = n] /\ data' = [data EXCEPT ![n] = elem[t]]
                   /\ next' = [next EXCEPT ![n] = NULL] /\ prev' = [prev EXCEPT ![n] = NULL]
                   /\ UNCHANGED <<head, tail, call, elem, owned, stays>>
  BY DEF Insert, Step
<1>2. /\ kept \subseteq live \ Pending /\ live \subseteq Node \ free /\ Pending \subseteq live
      /\ rank \in [Node -> Nat] /\ top \in Nat
      /\ \A x \in live : IF x \in Pending THEN rank[x] = top ELSE rank[x] < top
      /\ \A x \in live, k \in kept : rank[x] = rank[k] => x = k
      /\ Ranked(live, kept, rank, top) /\ EndsOut(live, kept, rank) /\ Works(live, kept, rank)
      /\ \A x \in live : Forward(x, live, kept, rank) /\ Backward(x, live, kept, rank)
      /\ Aims(live, kept, rank, goal, past) /\ OwnedKept(kept)
  BY DEF Ordered, Shape, Ranked
<1>3. /\ \A u \in Thread : /\ pc'[u] = IF u = t THEN to ELSE pc[u]
                           /\ node'[u] = IF u = t THEN n ELSE node[u]
      /\ \A x \in Node : /\ next'[x] = IF x = n THEN NULL ELSE next[x]
                         /\ prev'[x] = IF x = n THEN NULL ELSE prev[x]
                         /\ x # n => data'[x] = data[x]
      /\ n \in Node \ live /\ to \in {"first", "append"}
  BY <1>1, <1>2 DEF Typed
<1>4. NULL \notin Node /\ Dangling \notin Node
  BY SharedAssumption
<1>5. to = "first" => kept = {}
  BY <1>1, <1>2, <1>4, SharedAssumption DEF EndsOut, UpTo
<1>6. /\ to = "first" => Pending' = Pending
      /\ to = "append" => Pending' = Pending \cup {n}
  BY <1>1, <1>3 DEF Pending
<1>. PICK more : more = live \cup {n}
  OBVIOUS
<1>7. PICK new, m :
        /\ new \in [Node -> Nat] /\ m \in Nat
        /\ \A x \in more : IF x \in Pending' THEN new[x] = m ELSE new[x] < m
        /\ \A x \in live, k \in kept : new[x] = new[k] => x = k
        /\ \A x, y \in live : rank[x] < rank[y] => new[x] < new[y]
        /\ \A k \in kept : /\ UpTo(more, new, k) = UpTo(live, rank, k)
                           /\ \A x \in live : rank[k] <= rank[x] <=> new[k] <= new[x]
                           /\ \A x \in live : rank[k] < rank[x] <=> new[k] < new[x]
                           /\ \A x \in live : rank[x] < rank[k] <=> new[x] < new[k]
                           /\ new[k] < new[n]
  <2>1. CASE to = "first"
    <3>. PICK new : new = Rerank(rank, top, n)
      OBVIOUS
    <3>. PICK m : m = top + 1
      OBVIOUS
    <3>1. Reranks(live, kept, rank, top, n, new)
      BY <1>2, <1>3, Reranked
    <3>2. /\ new \in [Node -> Nat] /\ m \in Nat
          /\ \A x \in more : IF x \in Pending' THEN new[x] = m ELSE new[x] < m
          /\ \A x, y \in live : rank[x] < rank[y] => new[x] < new[y]
      BY <1>2, <1>3, <1>6, <2>1, <3>1 DEF Reranks
    <3>. QED  BY <1>5, <2>1, <3>2
  <2>2. CASE to = "append"
    <3>. PICK new : new = [rank EXCEPT ![n] = top]
      OBVIOUS
    <3>1. \A x \in live : new[x] = rank[x] /\ rank[x] \in Nat /\ rank[x] <= top
      BY <1>2, <1>3
    <3>2. new \in [Node -> Nat] /\ new[n] = top
      BY <1>2, <1>3
    <3>3. \A k \in kept : new[k] = rank[k] /\ rank[k] \in Nat /\ rank[k] < top /\ k \in live
      BY <1>2, <3>1
    <3>4. \A x \in more : IF x \in Pending' THEN new[x] = top ELSE new[x] < top
      BY <1>2, <1>3, <1>6, <2>2, <3>1, <3>2
    <3>5. \A k \in kept : UpTo(more, new, k) = UpTo(live, rank, k)
      BY <3>1, <3>2, <3>3, <1>2 DEF UpTo
    <3>6. \A x, y \in live : rank[x] < rank[y] => new[x] < new[y]
      BY <3>1
    <3>7. \A k \in kept : /\ \A x \in live : rank[k] <= rank[x] <=> new[k] <= new[x]
                          /\ \A x \in live : rank[k] < rank[x] <=> new[k] < new[x]
                          /\ \A x \in live : rank[x] < rank[k] <=> new[x] < new[k]
                          /\ new[k] < new[n]
      BY <3>1, <3>2, <3>3
    <3>8. \A x \in live, k \in kept : new[x] = new[k] => x = k
      BY <1>2, <3>1, <3>3
    <3>. QED  BY <1>2, <3>2, <3>4, <3>5, <3>6, <3>7, <3>8
  <2>. QED  BY <1>3, <2>1, <2>2
<1>8. /\ more \subseteq Node \ free' /\ kept \subseteq more \ Pending' /\ Pending' \subseteq more
      /\ \A x \in live : x \in Pending' <=> x \in Pending
      /\ \A k \in kept : new[k] \in Nat /\ k \in live
  BY <1>1, <1>2, <1>3, <1>6, <1>7
<1>9. Ranked(more, kept, new, m)'
  <2>1. \A x \in more, k \in kept : new[x] = new[k] => x = k
    BY <1>2, <1>3, <1>7
  <2>. QED  BY <1>7, <1>8, <2>1 DEF Ranked
<1>10. \A k \in kept : ~(new[n] < new[k])
  BY <1>3, <1>7, <1>8
<1>11. ASSUME NEW x \in more  PROVE Forward(x, more, kept, new)'
  <2>1. CASE x = n
    BY <1>3, <1>4, <1>8, <1>10, <2>1 DEF Forward
  <2>2. CASE x # n
    <3>1. x \in live /\ Forward(x, live, kept, rank) /\ next'[x] = next[x]
      BY <1>2, <1>3, <2>2
    <3>2. next[x] # n
      BY <1>3, <1>4, <3>1 DEF Forward
    <3>. QED  BY <1>7, <1>8, <3>1, <3>2 DEF Forward
  <2>. QED  BY <2>1, <2>2
<1>12. ASSUME NEW x \in more  PROVE Backward(x, more, kept, new)'
  <2>1. CASE x = n
    BY <1>3, <1>4, <1>5, <1>6, <1>8, <2>1 DEF Backward
  <2>2. CASE x # n
    <3>1. x \in live /\ Backward(x, live, kept, rank) /\ prev'[x] = prev[x]
      BY <1>2, <1>3, <2>2
    <3>2. prev[x] # n
      BY <1>3, <1>4, <3>1 DEF Backward
    <3>. QED  BY <1>7, <1>8, <3>1, <3>2 DEF Backward, NotBefore
  <2>. QED  BY <2>1, <2>2
<1>13. EndsOut(more, kept, new)'
  BY <1>1, <1>2, <1>7, <1>8 DEF EndsOut, NotBefore
<1>14. Shape(more, kept, new, m)'
  BY <1>9, <1>11, <1>12, <1>13 DEF Shape
<1>15. to \in Working /\ to \in Changing \ {"insert"} /\ "insert" \notin Working
  BY <1>3 DEF Working, Changing, Label
<1>16. Works(more, kept, new)'
  <2>1. ASSUME NEW u \in Thread, u # t  PROVE WorkFits(u, more, kept, new)'
    <3>1. WorkFits(u, live, kept, rank) /\ pc'[u] = pc[u] /\ node'[u] = node[u]
      BY <1>2, <1>3, <2>1 DEF Works
    <3>2. pc[u] \in {"appendTail", "inc", "incStore", "cutTail", "cutLast", "newHead", "headPrev"}
            => pc[u] \in Working /\ pc[u] \notin {"dec", "decStore", "free"}
      BY DEF Working, Changing, Label
    <3>. QED  BY <1>1, <1>7, <3>1, <3>2 DEF WorkFits
  <2>2. WorkFits(t, more, kept, new)'
    BY <1>1, <1>2, <1>3, <1>5 DEF WorkFits
  <2>3. \A u \in Thread : u # t /\ pc[u] \in Working => node[u] # n
    BY <1>1, <1>2 DEF Works, WorkFits
  <2>4. Apart'
    BY <1>2, <1>3, <2>3 DEF Works, Apart
  <2>. QED  BY <2>1, <2>2, <2>4 DEF Works
<1>17. \A u \in Thread : /\ Takes(u)' => Takes(u)
                         /\ Sure(u)' => Sure(u) /\ node'[u] = node[u]
  BY <1>1, <1>3 DEF Takes, Sure
<1>18. Aims(more, kept, new, goal, past)'
  <2>1. \A x \in live : data'[x] = data[x]
    BY <1>2, <1>3
  <2>2. \A x \in Node \ (live \cup free) :
          x \notin more \cup free' /\ next'[x] = next[x] /\ data'[x] = data[x]
    BY <1>1, <1>3
  <2>3. Later(live, kept, rank, more, new)
    <3>1. \A k \in kept : new[k] <= new[n]
      BY <1>3, <1>7, <1>8
    <3>. QED  BY <1>7, <1>8, <3>1 DEF Later
  <2>4. \A u \in Thread : /\ Takes(u)' => Takes(u)
                          /\ Sure(u)' => Sure(u) /\ node'[u] = node[u]
                          /\ Takes(u)' \/ Sure(u)' => elem'[u] = elem[u] /\ call'[u] = call[u]
    BY <1>1, <1>17
  <2>. QED  BY <1>2, <2>1, <2>2, <2>3, <2>4, AimsStep
<1>19. OwnedKept(kept)'
  <2>1. \A k \in kept : data'[k] = data[k]
    BY <1>2, <1>3
  <2>. QED  BY <1>1, <1>2, <2>1 DEF OwnedKept
<1>20. Pruned(live, kept) => Pruned(more, kept)'
  BY <1>1, <1>3, <1>15 DEF Pruned
<1>. QED  BY <1>14, <1>16, <1>18, <1>19, <1>20 DEF Ordered, OrderNext

-----------------------------------------------------------------------------
(* The list that is whole leads through live nodes, in their order, and to *)
(* all that are kept.                                                      *)
LEMMA ListRanked ==
  ASSUME NEW live, NEW kept, NEW rank, NEW top, Shape(live, kept, rank, top),
         NEW q, NEW s, Links(q, s)
  PROVE  /\ ToSet(q) \subseteq live /\ kept \subseteq ToSet(q)
         /\ \A i, j \in 1 .. Len(q) : i < j => rank[q[i]] < rank[q[j]]
<1>1. /\ Len(q) \in Nat /\ \A i \in 1 .. Len(q) : q[i] \in Node
      /\ \A n : n \in ToSet(q) <=> \E i \in 1 .. Len(q) : q[i] = n
  BY NodeSeq DEF Links
<1>2. /\ kept \subseteq live /\ live \subseteq Node /\ rank \in [Node -> Nat]
      /\ \A x \in live, k \in kept : rank[x] = rank[k] => x = k
      /\ \A x \in live : Forward(x, live, kept, rank)
      /\ head \in live \cup {NULL, Dangling}
      /\ \A k \in kept : head \in UpTo(live, rank, k) \cup {Dangling}
  BY DEF Shape, Ranked, EndsOut
<1>3. /\ head = IF Len(q) = 0 THEN NULL ELSE q[1]
      /\ \A i \in 1 .. Len(q) : next[q[i]] = IF i = Len(q) THEN NULL ELSE q[i+1]
  BY DEF Links, Linked
<1>4. NULL \notin Node /\ Dangling \notin Node \cup {NULL}
  BY SharedAssumption
<1>5. Len(q) # 0 => 1 \in 1 .. Len(q)
  BY <1>1
<1>6. \A i \in 1 .. Len(q) : i # Len(q) => i + 1 \in 1 .. Len(q)
  BY <1>1
<1>7. \A i \in 1 .. Len(q) : q[i] \in live
  <2>. DEFINE Good == {i \in 1 .. Len(q) : q[i] \in live}
  <2>1. 1 <= Len(q) => 1 \in Good
    BY <1>1, <1>2, <1>3, <1>4, <1>5
  <2>2. \A i \in 1 .. Len(q) : i # Len(q) /\ i \in Good => i + 1 \in Good
    <3>. SUFFICES ASSUME NEW i \in 1 .. Len(q), i # Len(q), q[i] \in live  PROVE q[i+1] \in live
      BY <1>6
    <3>1. next[q[i]] = q[i+1] /\ q[i+1] \in Node /\ next[q[i]] \in live \cup {NULL, Dangling}
      BY <1>1, <1>2, <1>3, <1>6 DEF Forward
    <3>. QED  BY <1>4, <3>1
  <2>3. \A i \in 1 .. Len(q) : i \in Good
    <3>. HIDE DEF Good
    <3>. QED  BY <1>1, <2>1, <2>2, AllPlaces
  <2>. QED  BY <2>3
<1>8. \A i \in 1 .. Len(q) : i # Len(q) => rank[q[i]] < rank[q[i+1]] /\ next[q[i]] = q[i+1]
  BY <1>2, <1>3, <1>6, <1>7 DEF Forward
<1>9. \A i, j \in 1 .. Len(q) : i < j => rank[q[i]] < rank[q[j]]
  <2>. SUFFICES ASSUME NEW i \in 1 .. Len(q)
                PROVE  \A j \in 1 .. Len(q) : i < j => rank[q[i]] < rank[q[j]]
    OBVIOUS
  <2>. DEFINE Good == {j \in 1 .. Len(q) : i < j => rank[q[i]] < rank[q[j]]}
  <2>1. 1 <= Len(q) => 1 \in Good
    BY <1>1, <1>5
  <2>2. \A j \in 1 .. Len(q) : j # Len(q) /\ j \in Good => j + 1 \in Good
    <3>. SUFFICES ASSUME NEW j \in 1 .. Len(q), j # Len(q), i < j + 1,
                         i < j => rank[q[i]] < rank[q[j]]
                  PROVE  rank[q[i]] < rank[q[j+1]]
      BY <1>6
    <3>1. rank[q[j]] < rank[q[j+1]] /\ (i = j \/ i < j)
      BY <1>1, <1>8
    <3>2. /\ rank[q[i]] \in Nat /\ rank[q[j]] \in Nat /\ rank[q[j+1]] \in Nat
      BY <1>1, <1>2, <1>6
    <3>. QED  BY <3>1, <3>2
  <2>3. \A j \in 1 .. Len(q) : j \in Good
    <3>. HIDE DEF Good
    <3>. QED  BY <1>1, <2>1, <2>2, AllPlaces
  <2>. QED  BY <2>3
<1>10. ASSUME NEW k \in kept, k \notin ToSet(q)  PROVE FALSE
  <2>1. Len(q) # 0 /\ head = q[1]
    BY <1>2, <1>3, <1>4, <1>10 DEF UpTo
  <2>2. rank[k] \in Nat /\ \A i \in 1 .. Len(q) : rank[q[i]] \in Nat /\ rank[q[i]] # rank[k]
    BY <1>1, <1>2, <1>7, <1>10
  <2>3. \A i \in 1 .. Len(q) : q[i] \in UpTo(live, rank, k) \cup {Dangling} => rank[q[i]] < rank[k]
    BY <1>1, <1>4, <2>2 DEF UpTo
  <2>. DEFINE Good == {i \in 1 .. Len(q) : rank[q[i]] < rank[k]}
  <2>4. 1 \in Good
    BY <1>2, <1>5, <2>1, <2>3
  <2>5. \A i \in 1 .. Len(q) : i # Len(q) /\ i \in Good => i + 1 \in Good
    BY <1>2, <1>6, <1>7, <1>8, <2>3 DEF Forward
  <2>6. Len(q) \in 1 .. Len(q) /\ Len(q) \in Good
    <3>. HIDE DEF Good
    <3>1. \A i \in 1 .. Len(q) : i \in Good
      BY <1>1, <2>4, <2>5, AllPlaces
    <3>. QED  BY <1>1, <2>1, <3>1
  <2>7. next[q[Len(q)]] = NULL /\ rank[q[Len(q)]] < rank[k]
    BY <1>3, <2>6
  <2>8. NULL \in UpTo(live, rank, k) \cup {Dangling}
    BY <1>2, <1>7, <2>6, <2>7 DEF Forward
  <2>. QED  BY <1>2, <1>4, <2>8 DEF UpTo
<1>. QED  BY <1>1, <1>7, <1>9, <1>10

(* When a call that changes the list ends and none overlapped, the order   *)
(* begins anew: what is live and kept is what the list holds.  Searches    *)
(* may still be on the nodes that are not live any more.                   *)
LEMMA PruneOrdered ==
  ASSUME CallsInv, NEW live, NEW kept, NEW rank, NEW top, NEW goal, NEW past,
         Ordered(live, kept, rank, top, goal, past), NEW q, Links(q, q),
         NEW t \in Thread, pc[t] \in {"incStore", "decStore"},
         NEW to \in {"idle", "free"}, pc' = [pc EXCEPT ![t] = to],
         UNCHANGED <<head, tail, next, prev, data, free, stays>>,
         \A u \in Thread \ {t} : node'[u] = node[u] /\ elem'[u] = elem[u] /\ call'[u] = call[u],
         to = "free" => node'[t] = node[t] /\ node[t] \notin ToSet(q),
         owned' = owned \/ (owned' = owned \cup {elem[t]} /\ node[t] \in ToSet(q))
  PROVE  OrderNext(live, kept)
<1>. PICK Q : Q = ToSet(q)
  OBVIOUS
<1>. PICK gone : gone = [u \in Thread |-> (past[u] \cup UpTo(live, rank, goal[u])) \ Q]
  OBVIOUS
<1>1. /\ kept \subseteq live \ Pending /\ live \subseteq Node \ free
      /\ rank \in [Node -> Nat] /\ top \in Nat
      /\ \A x \in live : IF x \in Pending THEN rank[x] = top ELSE rank[x] < top
      /\ \A x \in live, k \in kept : rank[x] = rank[k] => x = k
      /\ \A x \in live : Forward(x, live, kept, rank)
      /\ Works(live, kept, rank) /\ OwnedKept(kept) /\ Shape(live, kept, rank, top)
      /\ goal \in [Thread -> Node \cup {NULL}] /\ past \in [Thread -> SUBSET Node]
      /\ \A u \in Thread : AimFits(u, live, kept, rank, goal, past)
  BY DEF Ordered, Shape, Ranked, Aims
<1>2. /\ Len(q) \in Nat /\ \A i \in 1 .. Len(q) : q[i] \in Q /\ q[i] \in Node
      /\ \A n : n \in Q <=> \E i \in 1 .. Len(q) : q[i] = n
  BY NodeSeq DEF Links
<1>3. /\ Q \subseteq live /\ kept \subseteq Q
      /\ \A i, j \in 1 .. Len(q) : i < j => rank[q[i]] < rank[q[j]]
  BY <1>1, ListRanked
<1>4. /\ head = IF Len(q) = 0 THEN NULL ELSE q[1]
      /\ tail = IF Len(q) = 0 THEN NULL ELSE q[Len(q)]
      /\ \A i \in 1 .. Len(q) : /\ next[q[i]] = IF i = Len(q) THEN NULL ELSE q[i+1]
                                /\ prev[q[i]] = IF i = 1 THEN NULL ELSE q[i-1]
  BY DEF Links, Linked, Backed
<1>5. NULL \notin Node /\ Dangling \notin Node \cup {NULL}
  BY SharedAssumption
<1>6. /\ \A u \in Thread : pc'[u] = IF u = t THEN to ELSE pc[u]
      /\ \A u \in Thread \ {t} : pc[u] \notin Changing
  BY DEF CallsInv, Typed, Alone, Changing, Label
<1>7. Pending = {} /\ Pending' = {}
  BY <1>6 DEF Pending, Changing, Label
<1>8. \A i \in 1 .. Len(q) : /\ i # Len(q) => i + 1 \in 1 .. Len(q)
                             /\ i # 1 => i - 1 \in 1 .. Len(q)
  BY <1>2
<1>9. \A i, j \in 1 .. Len(q) : /\ rank[q[i]] < rank[q[j]] <=> i < j
                                /\ rank[q[i]] <= rank[q[j]] <=> i <= j
  <2>1. \A i \in 1 .. Len(q) : rank[q[i]] \in Nat /\ i \in Nat
    BY <1>1, <1>2
  <2>. SUFFICES ASSUME NEW i \in 1 .. Len(q), NEW j \in 1 .. Len(q)
                PROVE  /\ rank[q[i]] < rank[q[j]] <=> i < j
                       /\ rank[q[i]] <= rank[q[j]] <=> i <= j
    OBVIOUS
  <2>2. i < j => rank[q[i]] < rank[q[j]]
    BY <1>3
  <2>3. j < i => rank[q[j]] < rank[q[i]]
    BY <1>3
  <2>4. i = j \/ i < j \/ j < i
    BY <2>1
  <2>5. rank[q[i]] \in Nat /\ rank[q[j]] \in Nat /\ i \in Nat /\ j \in Nat
    BY <2>1
  <2>. QED  BY <2>2, <2>3, <2>4, <2>5
<1>10. Shape(Q, Q, rank, top)'
  <2>1. Ranked(Q, Q, rank, top)'
    <3>1. \A x, k \in Q : rank[x] = rank[k] => x = k
      <4>. SUFFICES ASSUME NEW i \in 1 .. Len(q), NEW j \in 1 .. Len(q), rank[q[i]] = rank[q[j]]
                    PROVE  q[i] = q[j]
        BY <1>2
      <4>1. rank[q[i]] <= rank[q[j]] /\ rank[q[j]] <= rank[q[i]]
        BY <1>1, <1>2
      <4>2. i <= j /\ j <= i
        BY <1>9, <4>1
      <4>. QED  BY <4>2
    <3>2. Q \subseteq Node \ free' /\ \A x \in Q : rank[x] < top
      BY <1>1, <1>3, <1>7
    <3>. QED  BY <1>1, <1>7, <3>1, <3>2 DEF Ranked
  <2>2. ASSUME NEW x \in Q  PROVE Forward(x, Q, Q, rank)' /\ Backward(x, Q, Q, rank)'
    <3>1. PICK i \in 1 .. Len(q) : q[i] = x
      BY <1>2
    <3>2. next'[x] = IF i = Len(q) THEN NULL ELSE q[i+1]
      BY <1>4, <3>1
    <3>3. prev'[x] = IF i = 1 THEN NULL ELSE q[i-1]
      BY <1>4, <3>1
    <3>4. i # Len(q) => i + 1 \in 1 .. Len(q) /\ q[i+1] \in Q /\ rank[q[i]] < rank[q[i+1]]
      BY <1>2, <1>8, <1>9
    <3>5. i # 1 => i - 1 \in 1 .. Len(q) /\ q[i-1] \in Q /\ rank[q[i-1]] < rank[q[i]]
      BY <1>2, <1>8, <1>9
    <3>6. NULL \notin Q
      BY <1>1, <1>3, <1>5
    <3>7. ASSUME NEW k \in Q
          PROVE  /\ rank[x] < rank[k] => next'[x] \in UpTo(Q, rank, k)
                 /\ rank[k] < rank[x] => NotBefore(prev'[x], Q, rank, k)
      <4>1. PICK j \in 1 .. Len(q) : q[j] = k
        BY <1>2
      <4>2. rank[x] < rank[k] => i < j
        BY <1>9, <3>1, <4>1
      <4>3. rank[k] < rank[x] => j < i
        BY <1>9, <3>1, <4>1
      <4>4. i < j => i # Len(q) /\ rank[q[i+1]] <= rank[q[j]]
        <5>1. i < j => i # Len(q) /\ i + 1 <= j
          BY <1>2
        <5>. QED  BY <1>9, <3>4, <5>1
      <4>5. j < i => i # 1 /\ rank[q[j]] <= rank[q[i-1]]
        <5>1. j < i => i # 1 /\ j <= i - 1
          BY <1>2
        <5>. QED  BY <1>9, <3>5, <5>1
      <4>. QED  BY <3>2, <3>3, <3>4, <3>5, <4>1, <4>2, <4>3, <4>4, <4>5 DEF UpTo, NotBefore
    <3>8. Forward(x, Q, Q, rank)'
      BY <1>7, <3>1, <3>2, <3>4, <3>6, <3>7 DEF Forward
    <3>9. Backward(x, Q, Q, rank)'
      <4>1. prev'[x] \in Q \cup {NULL} /\ (prev'[x] \in Q => rank[prev'[x]] < rank[x])
        BY <3>1, <3>3, <3>5, <3>6
      <4>2. \A k \in Q : rank[k] < rank[x] => NotBefore(prev'[x], Q, rank, k)
        BY <3>7
      <4>. QED  BY <1>7, <4>1, <4>2 DEF Backward, NotBefore
    <3>. QED  BY <3>8, <3>9
  <2>3. EndsOut(Q, Q, rank)'
    <3>1. CASE Len(q) = 0
      <4>1. Q = {} /\ head' = NULL /\ tail' = NULL
        BY <1>2, <1>4, <3>1
      <4>. QED  BY <1>7, <4>1 DEF EndsOut
    <3>2. CASE Len(q) # 0
      <4>1. 1 \in 1 .. Len(q) /\ Len(q) \in 1 .. Len(q) /\ head' = q[1] /\ tail' = q[Len(q)]
        BY <1>2, <1>4, <3>2
      <4>2. \A k \in Q : rank[head'] <= rank[k] /\ rank[k] <= rank[tail']
        <5>. SUFFICES ASSUME NEW j \in 1 .. Len(q)
                      PROVE  rank[q[1]] <= rank[q[j]] /\ rank[q[j]] <= rank[q[Len(q)]]
          BY <1>2, <4>1
        <5>1. 1 <= j /\ j <= Len(q)
          BY <1>2
        <5>. QED  BY <1>9, <4>1, <5>1
      <4>3. head' \in Q /\ tail' \in Q
        BY <1>2, <4>1
      <4>. QED  BY <1>7, <4>2, <4>3 DEF EndsOut, UpTo, NotBefore
    <3>. QED  BY <3>1, <3>2
  <2>. QED  BY <2>1, <2>2, <2>3 DEF Shape
<1>11. Works(Q, Q, rank)'
  <2>1. ASSUME NEW u \in Thread, pc'[u] \in Working
        PROVE  /\ pc'[u] = "free" /\ pc[u] \in Working /\ node'[u] = node[u]
               /\ node[u] \in Node \ (free \cup Q)
    <3>1. WorkFits(u, live, kept, rank)
      BY <1>1 DEF Works
    <3>2. CASE u = t
      <4>1. pc'[u] = "free" /\ pc[u] \in Working /\ node'[u] = node[u] /\ node[u] \notin Q
        BY <1>6, <2>1, <3>2 DEF Working, Changing, Label
      <4>. QED  BY <3>1, <4>1 DEF WorkFits
    <3>3. CASE u # t
      <4>1. pc'[u] = "free" /\ pc[u] = "free" /\ node'[u] = node[u]
        BY <1>6, <2>1, <3>3 DEF Working
      <4>2. pc[u] \in Working /\ node[u] \notin Q
        BY <4>1 DEF Working, Links
      <4>. QED  BY <3>1, <4>1, <4>2 DEF WorkFits
    <3>. QED  BY <3>2, <3>3
  <2>2. \A u \in Thread : WorkFits(u, Q, Q, rank)'
    BY <2>1 DEF WorkFits
  <2>3. Apart'
    BY <1>1, <2>1 DEF Works, Apart
  <2>. QED  BY <2>2, <2>3 DEF Works
<1>12. \A u \in Thread : /\ Takes(u)' <=> Takes(u) /\ u # t
                         /\ Sure(u)' <=> Sure(u) /\ u # t
  <2>1. ~Takes(t) /\ ~Sure(t) /\ ~Takes(t)' /\ ~Sure(t)'
    BY <1>6 DEF Takes, Sure
  <2>. QED  BY <1>6, <2>1 DEF Takes, Sure
<1>13. ASSUME NEW u \in Thread  PROVE AimFits(u, Q, Q, rank, goal, gone)'
  <2>1. /\ AimFits(u, live, kept, rank, goal, past)
        /\ gone[u] = (past[u] \cup UpTo(live, rank, goal[u])) \ Q
    BY <1>1
  <2>2. Takes(u)' \/ Sure(u)' => /\ elem'[u] = elem[u] /\ call'[u] = call[u]
                                 /\ node'[u] = node[u] /\ goal[u] \in kept
    BY <1>12, <2>1 DEF AimFits
  <2>3. Takes(u)' \/ Sure(u)' => goal[u] \in Q /\ data'[goal[u]] = elem'[u]
    BY <1>3, <1>12, <2>1, <2>2 DEF AimFits
  <2>4. Takes(u)' => \A x \in Q : data'[x] = elem'[u] => rank[goal[u]] <= rank[x]
    BY <1>3, <1>12, <2>1, <2>2 DEF AimFits
  <2>5. ASSUME Sure(u)'
        PROVE  /\ gone[u] \subseteq Node \ (free' \cup Q)
               /\ node'[u] \in gone[u] \cup UpTo(Q, rank, goal[u]) \cup {Dangling}
               /\ \A x \in gone[u] :
                    next'[x] \in gone[u] \cup UpTo(Q, rank, goal[u]) \cup {Dangling}
               /\ call'[u] # "LOGIN" => \A x \in gone[u] : data'[x] # elem'[u]
    <3>1. /\ Sure(u) /\ goal[u] \in kept /\ past[u] \subseteq Node \ (free \cup live)
          /\ node[u] \in past[u] \cup UpTo(live, rank, goal[u]) \cup {Dangling}
          /\ \A x \in past[u] : next[x] \in past[u] \cup UpTo(live, rank, goal[u]) \cup {Dangling}
          /\ call[u] # "LOGIN" => \A x \in past[u] : data[x] # elem[u]
      BY <1>12, <2>1, <2>5 DEF AimFits
    <3>2. \A x \in past[u] \cup UpTo(live, rank, goal[u]) \cup {Dangling} :
            x \in gone[u] \cup UpTo(Q, rank, goal[u]) \cup {Dangling}
      BY <1>3, <2>1, <3>1 DEF UpTo
    <3>3. gone[u] \subseteq Node \ (free' \cup Q)
      BY <1>1, <2>1, <3>1 DEF UpTo
    <3>4. ASSUME NEW x \in UpTo(live, rank, goal[u]), x \notin Q
          PROVE  rank[x] < rank[goal[u]] /\ x \in live
      <4>1. x \in live /\ rank[x] <= rank[goal[u]] /\ x # goal[u]
        BY <1>3, <3>1, <3>4 DEF UpTo
      <4>2. rank[x] \in Nat /\ rank[goal[u]] \in Nat /\ rank[x] # rank[goal[u]]
        BY <1>1, <3>1, <4>1
      <4>. QED  BY <4>1, <4>2
    <3>5. \A x \in gone[u] : next[x] \in past[u] \cup UpTo(live, rank, goal[u]) \cup {Dangling}
      BY <1>1, <2>1, <3>1, <3>4 DEF Forward
    <3>6. call[u] # "LOGIN" => \A x \in gone[u] : data[x] # elem[u]
      <4>. SUFFICES ASSUME call[u] # "LOGIN", NEW x \in gone[u], data[x] = elem[u]  PROVE FALSE
        OBVIOUS
      <4>1. Takes(u)
        BY <3>1 DEF Takes, Sure, CallsInv, CallsFit, CallFits
      <4>2. x \in UpTo(live, rank, goal[u]) /\ x \notin Q
        BY <2>1, <3>1
      <4>3. rank[x] < rank[goal[u]] /\ x \in live
        BY <3>4, <4>2
      <4>4. rank[goal[u]] <= rank[x]
        BY <2>1, <4>1, <4>3 DEF AimFits
      <4>. QED  BY <1>1, <3>1, <4>3, <4>4
    <3>. QED  BY <2>2, <2>5, <3>1, <3>2, <3>3, <3>5, <3>6
  <2>. QED  BY <2>3, <2>4, <2>5 DEF AimFits, UpTo
<1>14. Aims(Q, Q, rank, goal, gone)'
  <2>1. gone \in [Thread -> SUBSET Node]
    BY <1>1 DEF UpTo
  <2>. QED  BY <1>1, <1>13, <2>1 DEF Aims
<1>15. OwnedKept(Q)'
  <2>1. pc[t] \in Working
    BY DEF Working, Changing, Label
  <2>2. node[t] \notin kept /\ data[node[t]] = elem[t]
    BY <1>1, <2>1 DEF Works, WorkFits, CallsInv, Hands, Working
  <2>. QED  BY <1>1, <1>3, <2>2 DEF OwnedKept
<1>16. Pruned(Q, Q)'
  BY DEF Pruned
<1>. QED  BY <1>10, <1>11, <1>14, <1>15, <1>16 DEF Ordered, OrderNext

(* The order after a step, which may have been the first to overlap.       *)
OrderKept ==
  \E more, less, rank, top, goal, past :
    Ordered(more, less, rank, top, goal, past)' /\ (~overlap' => Pruned(more, less)')

(* count++ and count--: the second half of each is the end of a call.      *)
LEMMA CountOrdered ==
  ASSUME SharedInv, Typed, NEW live, NEW kept, NEW rank, NEW top, NEW goal, NEW past,
         Ordered(live, kept, rank, top, goal, past), ~overlap => Pruned(live, kept),
         NEW t \in Thread, CountUp(t) \/ CountDown(t)
  PROVE  OrderKept
<1>. USE DEF localVars
<1>1. UNCHANGED <<head, tail, next, prev, data, free, stays>> /\ (overlap => overlap')
  BY DEF CountUp, CountDown, Step
<1>2. CASE pc[t] \in {"inc", "dec"}
  <2>1. PICK to \in {"incStore", "decStore"} :
          /\ pc' = [pc EXCEPT ![t] = to] /\ (to = "incStore" => pc[t] = "inc")
          /\ UNCHANGED <<node, elem, call, owned>>
    BY <1>2 DEF CountUp, CountDown, Step
  <2>2. /\ to \in Changing \ {"insert"} /\ pc[t] \in Changing \ {"insert"}
        /\ pc[t] \in Working
    BY <1>2 DEF Changing, Label, Working
  <2>3. Pending' = Pending
    BY <1>2, <2>1, PendingSame
  <2>4. Shape(live, kept, rank, top)'
    BY <1>1, <2>3, ShapeSame DEF Ordered
  <2>5. WorkFits(t, live, kept, rank)'
    <3>1. WorkFits(t, live, kept, rank)
      BY DEF Ordered, Works
    <3>. QED  BY <1>1, <1>2, <2>1, <2>2, <3>1 DEF WorkFits, Typed
  <2>6. /\ Ordered(live, kept, rank, top, goal, past)'
        /\ Pruned(live, kept) => Pruned(live, kept)'
    BY <1>1, <2>1, <2>2, <2>4, <2>5, LinkOrdered
  <2>. QED  BY <1>1, <2>6 DEF OrderKept
<1>3. ASSUME pc[t] \notin {"inc", "dec"}
      PROVE  \E to \in {"idle", "free"} :
               /\ pc' = [pc EXCEPT ![t] = to] /\ pc[t] \in {"incStore", "decStore"}
               /\ to = "free" => node'[t] = node[t] /\ pc[t] = "decStore"
               /\ \A u \in Thread \ {t} :
                    node'[u] = node[u] /\ elem'[u] = elem[u] /\ call'[u] = call[u]
               /\ \/ owned' = owned
                  \/ owned' = owned \cup {elem[t]} /\ pc[t] = "incStore" /\ ~overlap
  <2>1. CASE CountUp(t)
    BY <1>3, <2>1 DEF CountUp, Step, Return, Returns, Typed
  <2>2. CASE CountDown(t) /\ call[t] = "EXIT"
    BY <1>3, <2>2 DEF CountDown, Step, Return, Returns, Typed
  <2>3. CASE CountDown(t) /\ call[t] # "EXIT"
    BY <1>3, <2>3 DEF CountDown, Step
  <2>. QED  BY <2>1, <2>2, <2>3
<1>4. ASSUME pc[t] \notin {"inc", "dec"}, overlap  PROVE OrderKept
  <2>1. PICK to \in {"idle", "free"} :
          /\ pc' = [pc EXCEPT ![t] = to] /\ pc[t] \in {"incStore", "decStore"}
          /\ to = "free" => node'[t] = node[t] /\ pc[t] = "decStore"
          /\ \A u \in Thread \ {t} :
               node'[u] = node[u] /\ elem'[u] = elem[u] /\ call'[u] = call[u]
          /\ owned' = owned
    BY <1>3, <1>4
  <2>2. /\ \A u \in Thread : pc'[u] = IF u = t THEN to ELSE pc[u]
        /\ pc[t] \in Working /\ "idle" \notin Working /\ overlap'
    BY <1>1, <1>4, <2>1 DEF Typed, Working, Changing, Label
  <2>3. Pending' = Pending
    BY <2>1, <2>2 DEF Pending
  <2>4. Shape(live, kept, rank, top)'
    <3>1. kept \in SUBSET kept
      OBVIOUS
    <3>. QED  BY <1>1, <2>3, <3>1, ShapeSame DEF Ordered
  <2>5. Works(live, kept, rank)'
    <3>1. WorkFits(t, live, kept, rank) /\ Works(live, kept, rank)
      BY DEF Ordered, Works
    <3>2. WorkFits(t, live, kept, rank)'
      BY <1>1, <2>1, <2>2, <3>1 DEF WorkFits
    <3>. QED  BY <1>1, <2>1, <2>2, <3>1, <3>2, WorksStep
  <2>6. \A u \in Thread : /\ Takes(u)' => Takes(u) /\ u # t
                          /\ Sure(u)' => Sure(u) /\ u # t
    BY <1>1, <2>1, <2>2 DEF Takes, Sure
  <2>7. Aims(live, kept, rank, goal, past)' /\ OwnedKept(kept)'
    BY <1>1, <2>1, <2>6, AimsSame, OwnedSame DEF Ordered, Shape
  <2>. QED  BY <1>4, <2>2, <2>4, <2>5, <2>7 DEF Ordered, OrderKept
<1>5. ASSUME pc[t] \notin {"inc", "dec"}, ~overlap  PROVE OrderKept
  <2>1. PICK to \in {"idle", "free"} :
          /\ pc' = [pc EXCEPT ![t] = to] /\ pc[t] \in {"incStore", "decStore"}
          /\ to = "free" => node'[t] = node[t] /\ pc[t] = "decStore"
          /\ \A u \in Thread \ {t} :
               node'[u] = node[u] /\ elem'[u] = elem[u] /\ call'[u] = call[u]
          /\ \/ owned' = owned
             \/ owned' = owned \cup {elem[t]} /\ pc[t] = "incStore"
    BY <1>3, <1>5
  <2>2. PICK q, s : CallsInv /\ Whole(q, s)
    BY <1>5 DEF SharedInv
  <2>3. pc[t] \in Changing
    BY <2>1 DEF Changing, Label
  <2>4. Inserts(t, q, s) /\ Removes(t, q, s) /\ Links(q, s)
    BY <2>2, <2>3 DEF Whole, Between
  <2>5. /\ s = q /\ pc[t] = "incStore" => node[t] \in ToSet(q)
        /\ pc[t] = "decStore" => node[t] \notin ToSet(q)
    BY <2>1, <2>4 DEF Inserts, Removes, Out
  <2>6. s = q
    BY <2>1, <2>4 DEF Inserts, Removes, Out
  <2>7. OrderNext(live, kept)
    BY <1>1, <2>1, <2>2, <2>4, <2>5, <2>6, PruneOrdered
  <2>. QED  BY <1>5, <2>7 DEF OrderNext, OrderKept
<1>. QED  BY <1>2, <1>4, <1>5

(* A node that is freed is not live any more: what led to it dangles.      *)
LEMMA FreeOrdered ==
  ASSUME Typed, NEW live, NEW kept, NEW rank, NEW top, NEW goal, NEW past,
         Ordered(live, kept, rank, top, goal, past), NEW t \in Thread, FreeNode(t)
  PROVE  OrderNext(live, kept)
<1>1. PICK n : n = node[t]
  OBVIOUS
<1>. DEFINE Freed(p) == IF p = n THEN Dangling ELSE p
<1>2. /\ kept \subseteq live \ Pending /\ live \subseteq Node \ free /\ Pending \subseteq live
      /\ rank \in [Node -> Nat] /\ top \in Nat
      /\ \A x \in live : IF x \in Pending THEN rank[x] = top ELSE rank[x] < top
      /\ \A x \in live, k \in kept : rank[x] = rank[k] => x = k
      /\ \A x \in live : Forward(x, live, kept, rank) /\ Backward(x, live, kept, rank)
      /\ EndsOut(live, kept, rank) /\ Apart /\ \A u \in Thread : WorkFits(u, live, kept, rank)
      /\ goal \in [Thread -> Node \cup {NULL}] /\ past \in [Thread -> SUBSET Node]
      /\ \A u \in Thread : AimFits(u, live, kept, rank, goal, past)
      /\ OwnedKept(kept)
  BY DEF Ordered, Shape, Ranked, Works, Aims
<1>3. pc[t] = "free" /\ pc[t] \in Working /\ pc' = [pc EXCEPT ![t] = "idle"]
  BY DEF FreeNode, Step, Working
<1>4. n \in Node \ (free \cup kept)
  BY <1>1, <1>2, <1>3 DEF WorkFits
<1>5. /\ free' = free \cup {n} /\ head' = Freed(head) /\ tail' = Freed(tail)
      /\ \A x \in Node \ {n} :
           next'[x] = Freed(next[x]) /\ prev'[x] = Freed(prev[x]) /\ data'[x] = data[x]
      /\ \A u \in Thread \ {t} : /\ pc'[u] = pc[u] /\ node'[u] = Freed(node[u])
                                 /\ call'[u] = call[u] /\ elem'[u] = elem[u]
      /\ pc'[t] = "idle" /\ UNCHANGED <<owned, stays>>
  BY <1>1, <1>3, <1>4 DEF FreeNode, Returns, Typed
<1>6. /\ n # NULL /\ n # Dangling /\ Dangling \notin Node \cup {NULL} /\ NULL \notin Node
  BY <1>4, SharedAssumption
<1>7. \A u \in Thread \ {t} : pc[u] \in Working => node[u] # n /\ node'[u] = node[u]
  BY <1>1, <1>2, <1>3, <1>5 DEF Apart
<1>8. Pending' = Pending /\ n \notin Pending
  <2>1. \A u \in Thread : pc[u] \in {"append", "appendPrev"} => pc[u] \in Working /\ u # t
    BY <1>3 DEF Working, Changing, Label
  <2>2. \A u \in Thread : pc'[u] \in {"append", "appendPrev"} <=> pc[u] \in {"append", "appendPrev"}
    BY <1>3, <1>5
  <2>. QED  BY <1>7, <2>1, <2>2 DEF Pending
<1>. PICK more : more = live \ {n}
  OBVIOUS
<1>9. \A k \in kept : UpTo(more, rank, k) = UpTo(live, rank, k) \ {n}
  BY DEF UpTo
<1>10. Ranked(more, kept, rank, top)'
  BY <1>2, <1>4, <1>5, <1>8 DEF Ranked
<1>11. ASSUME NEW x \in more  PROVE Forward(x, more, kept, rank)' /\ Backward(x, more, kept, rank)'
  <2>1. /\ x \in Node \ {n} /\ more \subseteq Node
        /\ next'[x] = Freed(next[x]) /\ prev'[x] = Freed(prev[x])
        /\ Forward(x, live, kept, rank) /\ Backward(x, live, kept, rank)
    BY <1>2, <1>5
  <2>2. Forward(x, more, kept, rank)'
    BY <1>6, <1>8, <1>9, <2>1 DEF Forward
  <2>3. Backward(x, more, kept, rank)'
    BY <1>6, <1>8, <2>1 DEF Backward, NotBefore
  <2>. QED  BY <2>2, <2>3
<1>12. EndsOut(more, kept, rank)'
  <2>1. /\ head' \in more \cup {NULL, Dangling}
        /\ tail' \in (more \ Pending') \cup {NULL, Dangling}
    BY <1>2, <1>5, <1>6, <1>8 DEF EndsOut
  <2>2. ASSUME NEW k \in kept
        PROVE  head' \in UpTo(more, rank, k) \cup {Dangling} /\ NotBefore(tail', more, rank, k)
    BY <1>2, <1>5, <1>9 DEF EndsOut, NotBefore
  <2>. QED  BY <2>1, <2>2 DEF EndsOut, NotBefore, UpTo
<1>13. Shape(more, kept, rank, top)'
  BY <1>10, <1>11, <1>12 DEF Shape
<1>14. Works(more, kept, rank)'
  <2>1. \A u \in Thread : pc'[u] \in Working =>
          /\ u # t /\ pc[u] \in Working /\ pc'[u] = pc[u]
          /\ node'[u] = node[u] /\ node[u] # n
    BY <1>5, <1>7 DEF Working, Changing, Label
  <2>2. ASSUME NEW u \in Thread  PROVE WorkFits(u, more, kept, rank)'
    <3>1. WorkFits(u, live, kept, rank)
      BY <1>2
    <3>. QED  BY <1>5, <2>1, <3>1 DEF WorkFits
  <2>3. Apart'
    BY <1>2, <2>1 DEF Apart
  <2>. QED  BY <2>2, <2>3 DEF Works
<1>15. \A u \in Thread : /\ Takes(u)' => Takes(u) /\ u # t
                         /\ Sure(u)' => Sure(u) /\ u # t
  BY <1>5 DEF Takes, Sure
<1>. PICK gone : gone = [u \in Thread |-> past[u] \ {n}]
  OBVIOUS
<1>16. ASSUME NEW u \in Thread  PROVE AimFits(u, more, kept, rank, goal, gone)'
  <2>1. AimFits(u, live, kept, rank, goal, past) /\ gone[u] = past[u] \ {n}
    BY <1>2
  <2>2. Takes(u)' \/ Sure(u)' =>
          /\ elem'[u] = elem[u] /\ call'[u] = call[u] /\ node'[u] = Freed(node[u])
          /\ goal[u] \in kept /\ data[goal[u]] = elem[u]
    BY <1>5, <1>15, <2>1 DEF AimFits
  <2>3. Takes(u)' \/ Sure(u)' => data'[goal[u]] = elem'[u]
    BY <1>2, <1>4, <1>5, <2>2
  <2>4. Takes(u)' => \A x \in more : data'[x] = elem'[u] => rank[goal[u]] <= rank[x]
    BY <1>2, <1>5, <1>15, <2>1, <2>2 DEF AimFits
  <2>5. ASSUME Sure(u)'
        PROVE  /\ gone[u] \subseteq Node \ (free' \cup more)
               /\ node'[u] \in gone[u] \cup UpTo(more, rank, goal[u]) \cup {Dangling}
               /\ \A x \in gone[u] :
                    next'[x] \in gone[u] \cup UpTo(more, rank, goal[u]) \cup {Dangling}
               /\ call'[u] # "LOGIN" => \A x \in gone[u] : data'[x] # elem'[u]
    <3>1. /\ past[u] \subseteq Node \ (free \cup live)
          /\ node[u] \in past[u] \cup UpTo(live, rank, goal[u]) \cup {Dangling}
          /\ \A x \in past[u] : next[x] \in past[u] \cup UpTo(live, rank, goal[u]) \cup {Dangling}
          /\ call[u] # "LOGIN" => \A x \in past[u] : data[x] # elem[u]
      BY <1>15, <2>1, <2>5 DEF AimFits
    <3>2. UpTo(more, rank, goal[u]) = UpTo(live, rank, goal[u]) \ {n}
      BY <1>9, <2>2, <2>5
    <3>3. gone[u] \subseteq Node \ (free' \cup more)
      BY <1>5, <2>1, <3>1
    <3>4. node'[u] \in gone[u] \cup UpTo(more, rank, goal[u]) \cup {Dangling}
      BY <2>1, <2>2, <2>5, <3>1, <3>2
    <3>5. \A x \in gone[u] : next'[x] \in gone[u] \cup UpTo(more, rank, goal[u]) \cup {Dangling}
      BY <1>5, <2>1, <3>1, <3>2
    <3>6. call'[u] # "LOGIN" => \A x \in gone[u] : data'[x] # elem'[u]
      BY <1>5, <2>1, <2>2, <2>5, <3>1
    <3>. QED  BY <3>3, <3>4, <3>5, <3>6
  <2>. QED  BY <2>2, <2>3, <2>4, <2>5 DEF AimFits, UpTo
<1>17. Aims(more, kept, rank, goal, gone)'
  <2>1. gone \in [Thread -> SUBSET Node]
    BY <1>2
  <2>. QED  BY <1>2, <1>16, <2>1 DEF Aims
<1>18. OwnedKept(kept)'
  BY <1>2, <1>4, <1>5 DEF OwnedKept
<1>19. Pruned(live, kept) => Pruned(more, kept)'
  <2>. SUFFICES ASSUME Pruned(live, kept), NEW x \in more \ kept
                PROVE  \E u \in Thread : pc'[u] \in Changing \ {"insert"} /\ node'[u] = x
    BY DEF Pruned
  <2>1. PICK u \in Thread : pc[u] \in Changing \ {"insert"} /\ node[u] = x
    BY DEF Pruned
  <2>2. u # t /\ pc[u] \in Working
    BY <1>3, <2>1 DEF Working, Changing
  <2>. QED  BY <1>5, <1>7, <2>1, <2>2
<1>. QED  BY <1>13, <1>14, <1>17, <1>18, <1>19 DEF Ordered, OrderNext

(* The node that a removal will find: the first with its element.          *)
LEMMA FirstKept ==
  ASSUME CallsInv, NEW live, NEW kept, NEW rank, NEW top,
         Shape(live, kept, rank, top), Works(live, kept, rank), OwnedKept(kept),
         Pruned(live, kept), NEW d \in owned, Available(d)
  PROVE  \E g \in kept : data[g] = d /\ \A x \in live : data[x] = d => rank[g] <= rank[x]
<1>1. /\ kept \subseteq live \ Pending /\ live \subseteq Node /\ rank \in [Node -> Nat]
      /\ \A x \in live : IF x \in Pending THEN rank[x] = top ELSE rank[x] < top
      /\ top \in Nat
  BY DEF Shape, Ranked
<1>2. PICK k \in kept : data[k] = d
  BY DEF OwnedKept
<1>. PICK I : I = {rank[x] : x \in {y \in live : data[y] = d}}
  OBVIOUS
<1>3. I \in SUBSET Nat /\ rank[k] \in I
  BY <1>1, <1>2
<1>4. PICK m : m \in I /\ \A i \in I : m <= i
  BY <1>3, MinOfNats
<1>5. PICK g \in live : data[g] = d /\ rank[g] = m
  BY <1>4
<1>6. \A x \in live : data[x] = d => rank[g] <= rank[x]
  BY <1>4, <1>5
<1>7. ASSUME g \notin kept  PROVE FALSE
  <2>1. PICK u \in Thread : pc[u] \in Changing \ {"insert"} /\ node[u] = g
    BY <1>7 DEF Pruned
  <2>2. elem[u] = d /\ pc[u] # "idle"
    BY <1>5, <2>1 DEF CallsInv, Hands, Changing
  <2>3. call[u] = "LOGIN"
    BY <2>2 DEF Available
  <2>4. pc[u] \notin Removing
    BY <2>3 DEF CallsInv, CallsFit, CallFits
  <2>5. pc[u] \in {"first", "firstTail", "firstLinks", "append", "appendPrev", "appendTail",
                   "inc", "incStore"} /\ pc[u] \in Working
    BY <2>1, <2>4 DEF Changing, Label, Removing, Working
  <2>6. WorkFits(u, live, kept, rank) /\ rank[g] <= rank[k]
    BY <1>1, <1>2, <1>6 DEF Works
  <2>7. ~(rank[k] < rank[g])
    BY <1>1, <1>2, <2>6
  <2>8. pc[u] \in {"append", "appendPrev"}
    BY <1>2, <2>1, <2>5, <2>6, <2>7 DEF WorkFits
  <2>9. g \in Pending
    BY <2>1, <2>8 DEF Pending
  <2>. QED  BY <1>1, <1>2, <2>7, <2>9
<1>. QED  BY <1>5, <1>6, <1>7

(* What a thread begins with changes nothing; a removal has its goal.      *)
LEMMA CallOrdered ==
  ASSUME CallsInv, NEW live, NEW kept, NEW rank, NEW top, NEW goal, NEW past,
         Ordered(live, kept, rank, top, goal, past), Pruned(live, kept),
         NEW t \in Thread, NEW c \in Calls, NEW d \in Data, Call(t, c, d)
  PROVE  OrderNext(live, kept)
<1>. USE DEF Typed
<1>1. PICK to \in {"lock", "find"} :
        /\ pc[t] = "idle" /\ pc' = [pc EXCEPT ![t] = to]
        /\ call' = [call EXCEPT ![t] = c] /\ elem' = [elem EXCEPT ![t] = d]
        /\ UNCHANGED <<listVars, node, owned, stays>>
  BY DEF Call, Step
<1>2. pc[t] \notin Working /\ to \notin Working
  BY <1>1 DEF Working, Changing, Label
<1>3. /\ \A u \in Thread \ {t} : pc'[u] = pc[u] /\ call'[u] = call[u] /\ elem'[u] = elem[u]
      /\ pc'[t] = to /\ call'[t] = c /\ elem'[t] = d
  BY <1>1 DEF CallsInv
<1>4. /\ kept \subseteq live /\ live \subseteq Node
      /\ goal \in [Thread -> Node \cup {NULL}] /\ past \in [Thread -> SUBSET Node]
      /\ \A u \in Thread : AimFits(u, live, kept, rank, goal, past)
      /\ Aims(live, kept, rank, goal, past) /\ OwnedKept(kept)
  BY DEF Ordered, Shape, Ranked, Aims
<1>5. CASE c \in {"getThreadInfo", "LOGIN"}
  <2>1. \A u \in Thread : /\ Takes(u)' => Takes(u) /\ u # t
                          /\ Sure(u)' => Sure(u) /\ u # t
    BY <1>1, <1>3, <1>5 DEF Takes, Sure
  <2>2. Aims(live, kept, rank, goal, past)' /\ OwnedKept(kept)'
    BY <1>1, <1>3, <1>4, <2>1, AimsSame, OwnedSame DEF Ordered, Shape, listVars
  <2>. QED  BY <1>1, <1>2, <2>2, OutsideOrdered DEF listVars, CallsInv
<1>6. CASE c \in {"releaseThread", "EXIT"}
  <2>1. d \in owned /\ Available(d)
    BY <1>6 DEF Call
  <2>2. PICK g \in kept : data[g] = d /\ \A x \in live : data[x] = d => rank[g] <= rank[x]
    BY <2>1, FirstKept DEF Ordered
  <2>3. PICK aim : aim = [goal EXCEPT ![t] = g]
    OBVIOUS
  <2>4. /\ aim \in [Thread -> Node \cup {NULL}] /\ aim[t] = g
        /\ \A u \in Thread \ {t} : aim[u] = goal[u]
    BY <1>4, <2>2, <2>3
  <2>5. Takes(t)' /\ ~Sure(t)'
    BY <1>1, <1>3, <1>6 DEF Takes, Sure
  <2>6. AimFits(t, live, kept, rank, aim, past)'
    BY <1>1, <1>3, <2>2, <2>4, <2>5 DEF AimFits, UpTo, listVars
  <2>7. \A u \in Thread \ {t} : Takes(u) \/ Sure(u)' => goal[u] \in kept
    BY <1>1, <1>3, <1>4 DEF AimFits, Sure
  <2>8. Aims(live, kept, rank, aim, past)'
    BY <1>1, <1>3, <1>4, <2>4, <2>6, <2>7, AimsOthers DEF listVars
  <2>9. OwnedKept(kept)'
    BY <1>1, <1>4, OwnedSame DEF listVars
  <2>. QED  BY <1>1, <1>2, <2>8, <2>9, OutsideOrdered DEF listVars, CallsInv
<1>. QED  BY <1>5, <1>6 DEF Call

(* At first no node is live.                                               *)
LEMMA InitOrdered ==
  ASSUME Init
  PROVE  OrderInv
<1>. PICK rank : rank = [x \in Node |-> 0]
  OBVIOUS
<1>. PICK goal : goal = [t \in Thread |-> NULL]
  OBVIOUS
<1>. PICK past : past = [t \in Thread |-> {}]
  OBVIOUS
<1>1. /\ head = NULL /\ tail = NULL /\ \A t \in Thread : pc[t] = "idle"
      /\ owned = {} /\ DOMAIN stays = Thread
  BY DEF Init, ll_init
<1>2. Typed /\ CallsFit /\ Owners
  <2>1. Typed
    BY DEF Init, ll_init, Typed, Label, Calls
  <2>2. CallsFit
    BY <1>1 DEF CallsFit, CallFits, Inserting, Removing
  <2>. QED  BY <1>1, <2>1, <2>2 DEF Owners
<1>3. Pending = {}
  BY <1>1 DEF Pending
<1>4. Shape({}, {}, rank, 0)
  BY <1>1, <1>3 DEF Shape, Ranked, EndsOut
<1>5. Works({}, {}, rank)
  BY <1>1 DEF Works, Apart, WorkFits, Working, Changing
<1>6. \A t \in Thread : ~Takes(t) /\ ~Sure(t)
  BY <1>1 DEF Takes, Sure
<1>7. Aims({}, {}, rank, goal, past)
  BY <1>6 DEF Aims, AimFits
<1>8. OwnedKept({}) /\ Pruned({}, {})
  BY <1>1 DEF OwnedKept, Pruned
<1>. QED  BY <1>1, <1>2, <1>4, <1>5, <1>7, <1>8 DEF OrderInv, Ordered

(* There is always a mark for each thread.                                 *)
LEMMA StaysNext ==
  ASSUME DOMAIN stays = Thread, [Next]_vars
  PROVE  DOMAIN stays' = Thread
<1>1. ASSUME UNCHANGED stays  PROVE DOMAIN stays' = Thread
  BY <1>1
<1>2. ASSUME NEW t \in Thread, NEW c \in Calls, NEW d \in Data, Call(t, c, d)
      PROVE  DOMAIN stays' = Thread
  BY <1>2 DEF Call
<1>3. ASSUME NEW t \in Thread, Lock(t) \/ FindHead(t) \/ FindNext(t) \/ FindEnd(t)
      PROVE  DOMAIN stays' = Thread
  BY <1>3 DEF Lock, FindHead, FindNext, FindEnd, Faults, histVars
<1>4. ASSUME NEW t \in Thread,
             \/ Insert(t) \/ InsertFirst(t) \/ InsertLast(t) \/ CountUp(t) \/ RemoveFaults(t)
             \/ RemoveBehind(t) \/ RemoveBefore(t) \/ CountDown(t) \/ FreeNode(t)
      PROVE  UNCHANGED stays
  BY <1>4 DEF Insert, InsertFirst, InsertLast, CountUp, RemoveFaults, RemoveBehind, RemoveBefore,
              CountDown, FreeNode, Faults, histVars
<1>5. UNCHANGED vars => UNCHANGED stays
  BY DEF vars, histVars
<1>. QED  BY <1>1, <1>2, <1>3, <1>4, <1>5 DEF Next

(* Whatever overlaps, each step is followed by an order.                   *)
LEMMA OrderStep ==
  ASSUME SharedInv, OrderInv, [Next]_vars
  PROVE  OrderInv'
<1>1. PICK live, kept, rank, top, goal, past :
        Ordered(live, kept, rank, top, goal, past) /\ (~overlap => Pruned(live, kept))
  BY DEF OrderInv
<1>2. Typed /\ CallsFit /\ Owners /\ DOMAIN stays = Thread
  BY DEF OrderInv
<1>3. /\ live \subseteq Node /\ head \in live \cup {NULL, Dangling}
      /\ tail \in live \cup {NULL, Dangling}
  BY <1>1 DEF Ordered, Shape, Ranked, EndsOut
<1>4. \A u \in Thread : pc[u] \in Working => node[u] \in Node
  BY <1>1 DEF Ordered, Works, WorkFits
<1>5. {head, tail} \subseteq Node \cup {NULL, Dangling}
  BY <1>3
<1>6. Typed' /\ CallsFit' /\ Owners' /\ DOMAIN stays' = Thread
  BY <1>2, <1>4, <1>5, TypedNext, CallsFitNext, OwnersNext, StaysNext
<1>7. OrderNext(live, kept) => OrderKept
  <2>1. ~overlap' => ~overlap
    BY OverlapStays
  <2>. QED  BY <1>1, <2>1 DEF OrderNext, OrderKept
<1>8. OrderKept
  <2>1. CASE UNCHANGED vars
    BY <1>1, <1>7, <2>1, FaultOrdered DEF vars, histVars
  <2>2. ASSUME NEW t \in Thread, NEW c \in Calls, NEW d \in Data, Call(t, c, d)
        PROVE  OrderKept
    <3>1. ~overlap /\ CallsInv
      BY <2>2 DEF Call, SharedInv
    <3>. QED  BY <1>1, <1>7, <2>2, <3>1, CallOrdered
  <2>3. ASSUME NEW t \in Thread, Lock(t) \/ FindHead(t) \/ FindNext(t) \/ FindEnd(t)
        PROVE  OrderKept
    BY <1>1, <1>2, <1>7, <2>3, LockOrdered, FindHeadOrdered, FindNextOrdered, FindEndOrdered
  <2>4. ASSUME NEW t \in Thread, Insert(t) \/ InsertFirst(t) \/ InsertLast(t)  PROVE OrderKept
    <3>1. InsertLast(t) => pc[t] \in {"append", "appendPrev", "appendTail"}
      BY DEF InsertLast, Faults, Step
    <3>. QED
      BY <1>1, <1>2, <1>7, <2>4, <3>1, InsertOrdered, InsertFirstOrdered, AppendOrdered,
         AppendPrevOrdered
  <2>5. ASSUME NEW t \in Thread, CountUp(t) \/ CountDown(t)  PROVE OrderKept
    BY <1>1, <1>2, <2>5, CountOrdered
  <2>6. ASSUME NEW t \in Thread, RemoveFaults(t)  PROVE OrderKept
    BY <1>1, <1>7, <2>6, FaultOrdered DEF RemoveFaults, Faults, histVars
  <2>7. ASSUME NEW t \in Thread, RemoveBehind(t) \/ RemoveBefore(t) \/ FreeNode(t)
        PROVE  OrderKept
    BY <1>1, <1>2, <1>7, <2>7, RemoveBehindOrdered, RemoveBeforeOrdered, FreeOrdered
  <2>. QED  BY <2>1, <2>2, <2>3, <2>4, <2>5, <2>6, <2>7 DEF Next
<1>. QED  BY <1>6, <1>8 DEF OrderInv, OrderKept

(* So there is always such an order.                                       *)
LEMMA OrderInvariant == Spec => []OrderInv
<1>1. Init => OrderInv
  BY InitOrdered
<1>2. SharedInv /\ OrderInv /\ [Next]_vars => OrderInv'
  BY OrderStep
<1>. QED  BY <1>1, <1>2, SharedInvariant, PTL DEF Spec

(* No search that cannot miss its element ever ends without it: it is on a *)
(* node that was taken out, on one up to its goal, or on a freed one.      *)
THEOREM StayersFound == Spec => []FindsStayers
<1>1. OrderInv => FindsStayers
  <2>. SUFFICES ASSUME OrderInv, NEW t \in Thread, pc[t] = "walk", node[t] = NULL, stays[t]
                PROVE  FALSE
    BY DEF FindsStayers
  <2>1. PICK live, kept, rank, top, goal, past :
          /\ AimFits(t, live, kept, rank, goal, past) /\ live \subseteq Node
    BY DEF OrderInv, Ordered, Shape, Ranked, Aims
  <2>2. Sure(t)
    BY DEF Sure
  <2>3. NULL \in past[t] \cup UpTo(live, rank, goal[t]) \cup {Dangling} /\ past[t] \subseteq Node
    BY <2>1, <2>2 DEF AimFits
  <2>. QED  BY <2>1, <2>3, SharedAssumption DEF UpTo
<1>. QED  BY <1>1, OrderInvariant, PTL

-----------------------------------------------------------------------------
(* The places a walk comes to, and how many of them are nodes.             *)
Places(first, link, at) ==
  /\ at[0] = first
  /\ \A i \in 1 .. Cardinality(Node) :
       at[i] = IF at[i-1] \in Node THEN link[at[i-1]] ELSE at[i-1]
  /\ Walk(first, link) =
       [i \in 1 .. Cardinality({j \in 0 .. Cardinality(Node) : at[j] \in Node}) |-> at[i-1]]

(* They are there for every walk: each of its beginnings can be continued, *)
(* and so the recursive function of Walk exists.                           *)
LEMMA WalkAt ==
  ASSUME NEW first, NEW link
  PROVE  \E at : Places(first, link, at)
<1>. DEFINE Follow(n) == IF n \in Node THEN link[n] ELSE n
            Begins(g, m) == g = [i \in 0 .. m |-> IF i = 0 THEN first
                                 ELSE LET n == g[i-1] IN IF n \in Node THEN link[n] ELSE n]
            N == Cardinality(Node)
            Good == {m \in 0 .. N : \E g : Begins(g, m)}
            at == CHOOSE g : Begins(g, N)
<1>1. Walk(first, link) = [i \in 1 .. Cardinality({i \in 0 .. N : at[i] \in Node}) |-> at[i-1]]
  BY DEF Walk
<1>2. N \in Nat
  BY FS_CardinalityType, SharedAssumption
<1>. HIDE DEF N
<1>3. 0 \in Good
  <2>. DEFINE g == [i \in 0 .. 0 |-> first]
  <2>1. Begins(g, 0)
    OBVIOUS
  <2>. HIDE DEF Begins
  <2>2. \E h : Begins(h, 0)
    BY <2>1
  <2>. QED  BY <1>2, <2>2
<1>4. \A m \in 0 .. N : m # N /\ m \in Good => m + 1 \in Good
  <2>. SUFFICES ASSUME NEW m \in 0 .. N, m # N, NEW g, Begins(g, m)
                PROVE  m + 1 \in 0 .. N /\ \E h : Begins(h, m + 1)
    OBVIOUS
  <2>. DEFINE h == [i \in 0 .. m + 1 |-> IF i <= m THEN g[i] ELSE Follow(g[m])]
              rhs == [i \in 0 .. m + 1 |-> IF i = 0 THEN first ELSE Follow(h[i-1])]
  <2>1. m \in Nat /\ m + 1 \in 0 .. N
    BY <1>2
  <2>2. \A i \in 0 .. m : g[i] = IF i = 0 THEN first ELSE Follow(g[i-1])
    <3>. HIDE DEF Follow
    <3>. QED  BY DEF Follow
  <2>3. \A i \in 0 .. m + 1 : h[i] = IF i <= m THEN g[i] ELSE Follow(g[m])
    OBVIOUS
  <2>4. \A i \in 0 .. m + 1 : rhs[i] = IF i = 0 THEN first ELSE Follow(h[i-1])
    OBVIOUS
  <2>5. h = [i \in 0 .. m + 1 |-> h[i]] /\ rhs = [i \in 0 .. m + 1 |-> rhs[i]]
    OBVIOUS
  <2>. HIDE DEF h, rhs, Follow
  <2>6. \A i \in 0 .. m + 1 : h[i] = rhs[i]
    <3>. SUFFICES ASSUME NEW i \in 0 .. m + 1  PROVE h[i] = rhs[i]
      OBVIOUS
    <3>1. CASE i = 0
      BY <2>1, <2>2, <2>3, <2>4, <3>1
    <3>2. CASE i # 0
      <4>1. /\ i - 1 \in 0 .. m /\ i - 1 \in 0 .. m + 1 /\ i - 1 <= m
            /\ (i \in 0 .. m /\ i <= m) \/ (~(i <= m) /\ i - 1 = m)
        BY <2>1, <3>2
      <4>2. rhs[i] = Follow(g[i-1])
        BY <2>3, <2>4, <3>2, <4>1
      <4>3. i <= m /\ i \in 0 .. m => h[i] = Follow(g[i-1])
        BY <2>2, <2>3, <3>2
      <4>4. ~(i <= m) => h[i] = Follow(g[m])
        BY <2>3
      <4>. QED  BY <4>1, <4>2, <4>3, <4>4
    <3>. QED  BY <3>1, <3>2
  <2>7. h = rhs
    BY <2>5, <2>6
  <2>8. Begins(h, m + 1)
    BY <2>7 DEF rhs, Follow
  <2>. QED  BY <2>1, <2>8
<1>5. \E g : Begins(g, N)
  <2>1. \A m \in 0 .. N : m \in Good
    <3>. HIDE DEF Good
    <3>. QED  BY <1>2, <1>3, <1>4, AllPlaces
  <2>. QED  BY <1>2, <2>1
<1>6. Begins(at, N)
  <2>. HIDE DEF Begins
  <2>. QED  BY <1>5
<1>7. at[0] = first /\ \A i \in 1 .. N : at[i] = Follow(at[i-1])
  <2>. HIDE DEF at
  <2>. QED  BY <1>2, <1>6
<1>. QED
  <2>. HIDE DEF at
  <2>. QED  BY <1>1, <1>7 DEF N, Places

(* A walk that ends at the m-th place, and meets nodes of `live' before it.*)
Meets(first, link, live, at, m) ==
  /\ Walk(first, link) = [i \in 1 .. m |-> at[i-1]]
  /\ at[0] = first /\ at[m] \in {NULL, Dangling}
  /\ \A i \in 1 .. m : at[i-1] \in live /\ at[i] = link[at[i-1]]

(* One that goes up in rank meets no node twice, and so comes to an end.   *)
LEMMA WalkEnds ==
  ASSUME NEW live, live \subseteq Node, NEW rank \in [Node -> Nat], NEW first, NEW link,
         first \in live \cup {NULL, Dangling},
         \A x \in live : /\ link[x] \in live \cup {NULL, Dangling}
                         /\ link[x] \in live => rank[x] < rank[link[x]]
  PROVE  \E at : \E m \in Nat : Meets(first, link, live, at, m)
<1>. PICK N : N = Cardinality(Node)
  OBVIOUS
<1>1. PICK at : /\ at[0] = first
                /\ \A i \in 1 .. N : at[i] = IF at[i-1] \in Node THEN link[at[i-1]] ELSE at[i-1]
                /\ Walk(first, link) =
                     [i \in 1 .. Cardinality({j \in 0 .. N : at[j] \in Node}) |-> at[i-1]]
  <2>1. PICK at : Places(first, link, at)
    BY WalkAt
  <2>. QED  BY <2>1 DEF Places
<1>2. N \in Nat /\ IsFiniteSet(Node)
  BY FS_CardinalityType, SharedAssumption
<1>3. NULL \notin Node /\ Dangling \notin Node
  BY SharedAssumption
<1>4. \A i \in 0 .. N : i # N => /\ i + 1 \in 1 .. N /\ i + 1 \in 0 .. N /\ (i + 1) - 1 = i
  BY <1>2
<1>5. \A i \in 0 .. N : at[i] \in live \cup {NULL, Dangling}
  <2>. DEFINE Good == {i \in 0 .. N : at[i] \in live \cup {NULL, Dangling}}
  <2>1. 0 \in Good
    BY <1>1, <1>2
  <2>2. \A i \in 0 .. N : i # N /\ i \in Good => i + 1 \in Good
    BY <1>1, <1>3, <1>4
  <2>3. \A i \in 0 .. N : i \in Good
    <3>. HIDE DEF Good
    <3>. QED  BY <1>2, <2>1, <2>2, AllPlaces
  <2>. QED  BY <2>3
<1>6. \A i \in 0 .. N : at[i] \in Node <=> at[i] \in live
  BY <1>3, <1>5
<1>7. \A i \in 0 .. N : i # N /\ at[i] \notin live => at[i+1] = at[i]
  BY <1>1, <1>4, <1>6
<1>8. \A i \in 0 .. N : i # N /\ at[i] \in live => at[i+1] = link[at[i]]
  BY <1>1, <1>4, <1>6
<1>9. \E i \in 0 .. N : at[i] \notin live
  <2>. SUFFICES ASSUME \A i \in 0 .. N : at[i] \in live  PROVE FALSE
    OBVIOUS
  <2>1. \A i \in 0 .. N : i # N => rank[at[i]] < rank[at[i+1]]
    BY <1>4, <1>8
  <2>2. ASSUME NEW i \in 0 .. N  PROVE \A j \in 0 .. N : i < j => rank[at[i]] < rank[at[j]]
    <3>. DEFINE Good == {j \in 0 .. N : i < j => rank[at[i]] < rank[at[j]]}
    <3>1. 0 \in Good
      BY <1>2
    <3>2. \A j \in 0 .. N : j # N /\ j \in Good => j + 1 \in Good
      <4>. SUFFICES ASSUME NEW j \in 0 .. N, j # N, i < j + 1, i < j => rank[at[i]] < rank[at[j]]
                    PROVE  rank[at[i]] < rank[at[j+1]]
        BY <1>4
      <4>1. rank[at[j]] < rank[at[j+1]] /\ (i = j \/ i < j)
        BY <1>2, <2>1
      <4>2. rank[at[i]] \in Nat /\ rank[at[j]] \in Nat /\ rank[at[j+1]] \in Nat
        BY <1>4
      <4>3. CASE i = j
        BY <4>1, <4>3
      <4>4. CASE i < j
        BY <4>1, <4>2, <4>4
      <4>. QED  BY <4>1, <4>3, <4>4
    <3>3. \A j \in 0 .. N : j \in Good
      <4>. HIDE DEF Good
      <4>. QED  BY <1>2, <3>1, <3>2, AllPlaces
    <3>. QED  BY <3>3
  <2>3. \A i, j \in 0 .. N : at[i] = at[j] => i = j
    <3>. SUFFICES ASSUME NEW i \in 0 .. N, NEW j \in 0 .. N, at[i] = at[j], i # j  PROVE FALSE
      OBVIOUS
    <3>1. i < j \/ j < i
      BY <1>2
    <3>2. rank[at[i]] < rank[at[i]]
      BY <2>2, <3>1
    <3>3. rank[at[i]] \in Nat
      OBVIOUS
    <3>. QED  BY <3>2, <3>3
  <2>. DEFINE place == [x \in Node |-> CHOOSE i \in 0 .. N : at[i] = x]
  <2>4. ASSUME NEW i \in 0 .. N  PROVE \E x \in Node : place[x] = i
    <3>1. at[i] \in Node
      OBVIOUS
    <3>2. place[at[i]] = CHOOSE j \in 0 .. N : at[j] = at[i]
      BY <3>1
    <3>. HIDE DEF place
    <3>3. place[at[i]] \in 0 .. N /\ at[place[at[i]]] = at[i]
      BY <3>2
    <3>4. place[at[i]] = i
      BY <2>3, <3>3
    <3>. QED  BY <3>1, <3>4
  <2>5. Cardinality(0 .. N) <= Cardinality(Node)
    <3>. HIDE DEF place
    <3>. QED  BY <1>2, <2>4, ImageBound
  <2>6. Cardinality(0 .. N) = N + 1
    <3>1. Cardinality(0 .. N) = IF 0 > N THEN 0 ELSE N - 0 + 1
      BY <1>2, FS_Interval
    <3>. QED  BY <1>2, <3>1
  <2>. QED  BY <1>2, <2>5, <2>6
<1>. PICK E : E = {i \in 0 .. N : at[i] \notin live}
  OBVIOUS
<1>10. PICK m : m \in E /\ \A i \in E : m <= i
  <2>1. E \in SUBSET Nat /\ E # {}
    BY <1>2, <1>9
  <2>. QED  BY <2>1, MinOfNats
<1>11. /\ m \in 0 .. N /\ m \in Nat /\ at[m] \notin live
       /\ \A i \in 0 .. m - 1 : i \in 0 .. N /\ at[i] \in live
  BY <1>2, <1>10
<1>12. \A i \in m .. N : at[i] \notin live
  <2>. DEFINE Good == {i \in m .. N : at[i] \notin live}
  <2>1. m \in Good
    BY <1>2, <1>11
  <2>2. \A i \in m .. N : i # N /\ i \in Good => i + 1 \in Good
    <3>. SUFFICES ASSUME NEW i \in m .. N, i # N, at[i] \notin live
                  PROVE  i + 1 \in m .. N /\ at[i+1] \notin live
      OBVIOUS
    <3>1. i \in 0 .. N /\ i + 1 \in m .. N
      BY <1>2, <1>11
    <3>. QED  BY <1>7, <3>1
  <2>3. \A i \in m .. N : i \in Good
    <3>. HIDE DEF Good
    <3>. QED  BY <1>2, <1>11, <2>1, <2>2, AllPlaces
  <2>. QED  BY <2>3
<1>13. {j \in 0 .. N : at[j] \in Node} = 0 .. m - 1
  <2>1. \A j \in 0 .. N : j \in m .. N \/ j \in 0 .. m - 1
    BY <1>2, <1>11
  <2>2. \A j \in 0 .. N : at[j] \in Node <=> j \in 0 .. m - 1
    BY <1>6, <1>11, <1>12, <2>1
  <2>. QED  BY <1>11, <2>2
<1>14. Cardinality(0 .. m - 1) = m
  <2>1. Cardinality(0 .. m - 1) = IF 0 > m - 1 THEN 0 ELSE (m - 1) - 0 + 1
    BY <1>11, FS_Interval
  <2>. QED  BY <1>11, <2>1
<1>15. \A i \in 1 .. m : at[i-1] \in live /\ at[i] = link[at[i-1]]
  <2>. SUFFICES ASSUME NEW i \in 1 .. m  PROVE at[i-1] \in live /\ at[i] = link[at[i-1]]
    OBVIOUS
  <2>1. i - 1 \in 0 .. m - 1 /\ i - 1 \in 0 .. N /\ i - 1 # N /\ (i - 1) + 1 = i
    BY <1>2, <1>11
  <2>. QED  BY <1>8, <1>11, <2>1
<1>16. at[m] \in {NULL, Dangling}
  BY <1>5, <1>11
<1>17. Walk(first, link) = [i \in 1 .. m |-> at[i-1]]
  <2>1. Cardinality({j \in 0 .. N : at[j] \in Node}) = m
    BY <1>13, <1>14
  <2>. QED  BY <1>1, <2>1
<1>18. Meets(first, link, live, at, m)
  BY <1>1, <1>15, <1>16, <1>17 DEF Meets
<1>. QED  BY <1>11, <1>18

(* No overlap ties the list into a ring, nor cuts off an element that is   *)
(* not being removed: a walk from the head goes up in rank, so it ends,    *)
(* and passes no node that is kept before it comes to a freed one.         *)
THEOREM SettledStays == Spec => []SettledStay
<1>1. ASSUME OrderInv  PROVE SettledStay
  <2>1. PICK live, kept, rank, top, goal, past : Ordered(live, kept, rank, top, goal, past)
    BY <1>1 DEF OrderInv
  <2>2. /\ live \subseteq Node /\ kept \subseteq live /\ rank \in [Node -> Nat]
        /\ \A x \in live, k \in kept : rank[x] = rank[k] => x = k
        /\ \A x \in live : Forward(x, live, kept, rank)
        /\ head \in live \cup {NULL, Dangling}
        /\ \A k \in kept : head \in UpTo(live, rank, k) \cup {Dangling}
    BY <2>1 DEF Ordered, Shape, Ranked, EndsOut
  <2>3. NULL \notin Node /\ Dangling \notin Node \cup {NULL}
    BY SharedAssumption
  <2>4. \A x \in live : /\ next[x] \in live \cup {NULL, Dangling}
                        /\ next[x] \in live => rank[x] < rank[next[x]]
    BY <2>2 DEF Forward
  <2>5. PICK at : \E m \in Nat : Meets(head, next, live, at, m)
    BY <2>2, <2>4, WalkEnds
  <2>6. PICK m \in Nat : /\ List = [i \in 1 .. m |-> at[i-1]]
                         /\ at[0] = head /\ at[m] \in {NULL, Dangling}
                         /\ \A i \in 1 .. m : at[i-1] \in live /\ at[i] = next[at[i-1]]
    BY <2>5 DEF Meets, List
  <2>. PICK q : q = List
    OBVIOUS
  <2>7. DOMAIN q = 1 .. m /\ \A i \in 1 .. m : q[i] = at[i-1]
    BY <2>6
  <2>8. (IF q = <<>> THEN head ELSE next[Last(q)]) = at[m]
    <3>1. CASE m = 0
      <4>1. q = <<>>
        BY <2>6, <3>1
      <4>. QED  BY <2>6, <3>1, <4>1
    <3>2. CASE m # 0
      <4>1. q \in Seq(Node) /\ Len(q) = m
        <5>1. \A i \in 1 .. m : at[i-1] \in Node
          BY <2>2, <2>6
        <5>2. [i \in 1 .. m |-> at[i-1]] \in Seq(Node) /\ Len([i \in 1 .. m |-> at[i-1]]) = m
          BY <5>1
        <5>. QED  BY <2>6, <5>2
      <4>2. m \in 1 .. m /\ q # <<>>
        BY <3>2, <4>1
      <4>. QED  BY <2>6, <2>7, <4>1, <4>2 DEF Last
    <3>. QED  BY <3>1, <3>2
  <2>9. ASSUME at[m] # Dangling, NEW k \in kept  PROVE \E i \in 1 .. m : q[i] = k
    <3>. SUFFICES ASSUME \A i \in 1 .. m : at[i-1] # k  PROVE FALSE
      BY <2>7
    <3>. DEFINE Good == {i \in 0 .. m : at[i] \in UpTo(live, rank, k) \cup {Dangling}}
    <3>1. 0 \in Good
      BY <2>2, <2>6
    <3>2. \A i \in 0 .. m : i # m /\ i \in Good => i + 1 \in Good
      <4>. SUFFICES ASSUME NEW i \in 0 .. m, i # m, i \in Good
                    PROVE  i + 1 \in Good
        OBVIOUS
      <4>1. i + 1 \in 1 .. m /\ i + 1 \in 0 .. m /\ (i + 1) - 1 = i
        OBVIOUS
      <4>2. at[i] \in live /\ at[i+1] = next[at[i]] /\ at[i] # k
        BY <2>6, <4>1
      <4>3. rank[at[i]] <= rank[k] /\ rank[at[i]] \in Nat /\ rank[k] \in Nat
        BY <2>2, <2>3, <4>2 DEF UpTo
      <4>4. rank[at[i]] < rank[k]
        BY <2>2, <4>2, <4>3
      <4>. QED  BY <2>2, <4>1, <4>2, <4>4 DEF Forward
    <3>3. \A i \in 0 .. m : i \in Good
      <4>. HIDE DEF Good
      <4>. QED  BY <3>1, <3>2, AllPlaces
    <3>4. at[m] \in UpTo(live, rank, k)
      BY <2>9, <3>3
    <3>. QED  BY <2>2, <2>3, <2>6, <3>4 DEF UpTo
  <2>10. at[m] = Dangling \/ owned \subseteq {data[q[i]] : i \in DOMAIN q}
    <3>. SUFFICES ASSUME at[m] # Dangling, NEW e \in owned
                  PROVE  \E i \in DOMAIN q : data[q[i]] = e
      OBVIOUS
    <3>1. PICK k \in kept : data[k] = e
      BY <2>1 DEF Ordered, OwnedKept
    <3>. QED  BY <2>7, <2>9, <3>1
  <2>11. at[m] \notin Node
    BY <2>3, <2>6
  <2>. QED  BY <2>8, <2>10, <2>11 DEF SettledStay
<1>. QED  BY <1>1, OrderInvariant, PTL
=============================================================================
