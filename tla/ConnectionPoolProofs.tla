------------------------ MODULE ConnectionPoolProofs ------------------------
(***************************************************************************)
(* Theorems about ConnectionPool, for any number of slots, blocks, users   *)
(* and descriptors.                                                        *)
(***************************************************************************)
EXTENDS ConnectionPool, ListFacts

(* What NoLostWakeup rests on: there is a label for every thread, and the  *)
(* list is one.                                                            *)
SlotsTyped ==
  /\ pc \in [Block -> {"none", "recv", "close", "release", "free"}]
  /\ list \in Seq(Block \cup User)
  /\ current \in Block \cup {None} /\ (main = "accept" => current \in Block)

(* Nothing is listed and no thread runs.                                   *)
LEMMA SlotsInit == Init => SlotsTyped /\ NoLostWakeup
BY EmptySeq DEF Init, SlotsTyped, NoLostWakeup

(* Both are kept by main, which begins to wait only when it finds no room, *)
(* and by the threads: one that makes room has still to signal.            *)
LEMMA SlotsStep ==
  ASSUME SlotsTyped, NoLostWakeup, [Next]_vars
  PROVE  SlotsTyped' /\ NoLostWakeup'
<1>. USE DEF SlotsTyped
<1>1. CASE UNCHANGED vars
  BY <1>1 DEF vars, mainVars, lockVars, blockVars, NoLostWakeup
<1>2. CASE Lock \/ Wake \/ SpuriousWake
  BY <1>2 DEF Lock, Wake, SpuriousWake, blockVars, NoLostWakeup
<1>3. CASE TakeBlock
  BY <1>3, AppendElements DEF TakeBlock, NoLostWakeup
<1>4. CASE Wait
  BY <1>4, LenProperties, PoolAssumption DEF Wait, Full, blockVars, NoLostWakeup
<1>5. CASE Accept \/ AcceptFails \/ ThreadFails
  <2>1. \E s : FillBlock(s)
    BY <1>5 DEF Accept, AcceptFails, ThreadFails, StartThread
  <2>2. pc' \in [Block -> {"none", "recv", "close", "release", "free"}]
    BY <1>5 DEF Accept, AcceptFails, ThreadFails, StartThread
  <2>. QED  BY <2>1, <2>2 DEF FillBlock, lockVars, NoLostWakeup
<1>6. ASSUME NEW b \in Block, NEW u \in User, Login(b, u)
      PROVE  SlotsTyped' /\ NoLostWakeup'
  <2>1. /\ list' = Append(list, u)
        /\ UNCHANGED <<main, current, signalled, pc>>
    BY <1>6 DEF Login, mainVars, lockVars
  <2>2. list' \in Seq(Block \cup User) /\ Len(list') = Len(list) + 1
    BY <2>1, AppendProperties
  <2>3. Len(list) \in Nat /\ MaxConnections \in Nat
    BY LenProperties, PoolAssumption
  <2>. QED  BY <2>1, <2>2, <2>3 DEF NoLostWakeup
<1>7. ASSUME NEW b \in Block, Exit(b)
      PROVE  SlotsTyped' /\ NoLostWakeup'
  BY <1>7, RemoveFirstElements DEF Exit, mainVars, NoLostWakeup
<1>8. ASSUME NEW b \in Block, Lose(b) \/ Close(b) \/ ReleaseFind(b)
      PROVE  SlotsTyped' /\ NoLostWakeup'
  BY <1>8 DEF Lose, Close, ReleaseFind, mainVars, NoLostWakeup
<1>9. ASSUME NEW b \in Block, ReleaseFree(b)
      PROVE  SlotsTyped' /\ NoLostWakeup'
  BY <1>9, RemoveFirstElements DEF ReleaseFree, Signal, mainVars, NoLostWakeup
<1>10. ASSUME NEW b \in Block, UseFreed(b)
       PROVE  SlotsTyped' /\ NoLostWakeup'
  BY <1>10 DEF UseFreed, mainVars, lockVars, blockVars, NoLostWakeup
<1>. QED
  BY <1>1, <1>2, <1>3, <1>4, <1>5, <1>6, <1>7, <1>8, <1>9, <1>10 DEF Next, Main, Leave

(* No wakeup is lost: LOGIN and EXIT change the list that getThreadInfo    *)
(* measures without its mutex, and still main never waits with room in it  *)
(* unless a thread is on its way to signal.                                *)
THEOREM NoWakeupLost == Spec => []NoLostWakeup
<1>. QED  BY SlotsInit, SlotsStep, PTL DEF Spec

-----------------------------------------------------------------------------
(* Which block releaseThread may find.                                     *)

(* The list has every block that is not freed, once.                       *)
Listed == live = {b \in Block : b \in ToSet(list)} /\ Once(list, Block)

(* d is the last of the blocks in q, or the last of those with the         *)
(* descriptor that f says it has.                                          *)
Youngest(q, d) ==
  \E i \in DOMAIN q : q[i] = d /\ \A j \in DOMAIN q : q[j] \in Block => j <= i
Behind(q, f, d) ==
  \E i \in DOMAIN q :
    q[i] = d /\ \A j \in DOMAIN q : q[j] \in Block /\ f[q[j]] = f[d] => j <= i

(* A block has a descriptor, or -1, when its thread runs and when another  *)
(* thread has found it, and one whose client main still waits for has none:*)
(* it is the youngest of the list.                                         *)
Filled ==
  /\ \A b \in Block : pc[b] # "none" => socket[b] # 0
  /\ \A b \in Block : pc[b] = "free" => elem[b] \in live /\ socket[elem[b]] # 0
  /\ main = "accept" =>
       pc[current] = "none" /\ socket[current] = 0 /\ Youngest(list, current)

(* The block is not being released, and no search of another thread finds  *)
(* it: it is behind all blocks that have, or had, its descriptor.          *)
Holds(d) ==
  /\ d \in Block /\ pc[d] \in {"none", "recv", "close"}
  /\ \A b \in Block : pc[b] = "free" => elem[b] # d
  /\ Behind(list, socket, d)

(* So is the block of every client that is connected, and one for every    *)
(* open descriptor.                                                        *)
Held ==
  /\ \A b \in Block : pc[b] \in {"recv", "close"} /\ socket[b] # -1 =>
       socket[b] \in open /\ Holds(b)
  /\ \A s \in open : \E d \in Block : Holds(d) /\ socket[d] = s

PoolInv == TypeOK /\ Listed /\ Filled /\ Held

(* The conjuncts of TypeOK.                                                *)
ControlOK ==
  /\ main \in {"lock", "check", "wait", "accept"}
  /\ current \in Block \cup {None} /\ (main = "accept" <=> current # None)
  /\ mutex \in Block \cup {None, "main"} /\ (main = "check" <=> mutex = "main")
  /\ signalled \in BOOLEAN
BlocksOK ==
  /\ pc \in [Block -> {"none", "recv", "close", "release", "free"}]
  /\ socket \in [Block -> Fd \cup {0, -1}]
  /\ clientID \in [Block -> User \cup {None}]
  /\ elem \in [Block -> Block \cup {None}]
OwnerOK == \A b \in Block : pc[b] = "free" <=> elem[b] # None /\ mutex = b
ListOK ==
  /\ live \subseteq Block /\ list \in Seq(Block \cup User) /\ open \subseteq Fd
  /\ failures \in 0 .. MaxFailures /\ fault \in BOOLEAN

LEMMA PoolInit == Init => PoolInv
<1>. SUFFICES ASSUME Init  PROVE PoolInv
  OBVIOUS
<1>1. ControlOK /\ OwnerOK
  BY PoolAssumption DEF Init, ControlOK, OwnerOK
<1>2. BlocksOK
  BY DEF Init, BlocksOK
<1>3. ListOK
  <2>1. <<>> \in Seq(Block \cup User) /\ 0 \in 0 .. MaxFailures
    BY PoolAssumption, EmptySeq
  <2>. QED  BY <2>1 DEF Init, ListOK
<1>4. Listed /\ Filled /\ Held
  BY EmptySeq, LenProperties DEF Init, Listed, Filled, Held, Once, ToSet
<1>. QED  BY <1>1, <1>2, <1>3, <1>4 DEF PoolInv, TypeOK, ControlOK, BlocksOK, OwnerOK, ListOK

(* The search finds the first block with the socket of b, which is itself  *)
(* in the list.                                                            *)
LEMMA FoundFirst ==
  ASSUME TypeOK, Listed, NEW b \in live
  PROVE  \E i \in DOMAIN list :
           /\ Found(b) = list[i] /\ list[i] \in live /\ socket[list[i]] = socket[b]
           /\ \A j \in DOMAIN list : list[j] \in Block /\ socket[list[j]] = socket[b] => i <= j
<1>. DEFINE Matches == {i \in DOMAIN list : list[i] \in Block /\ socket[list[i]] = socket[b]}
<1>1. PICK k \in DOMAIN list : list[k] = b
  BY DEF Listed, ToSet
<1>2. k \in Matches
  BY <1>1 DEF TypeOK
<1>3. Matches \in SUBSET Nat
  BY LenProperties DEF TypeOK
<1>4. Found(b) = list[Min(Matches)]
  BY <1>2 DEF Found
<1>. HIDE DEF Matches
<1>5. Min(Matches) \in Matches /\ \A j \in Matches : Min(Matches) <= j
  BY <1>2, <1>3, MinOfNats
<1>. QED  BY <1>4, <1>5 DEF Matches, Listed, ToSet

(* A step keeps what the variables are.                                    *)
Typed == ControlOK /\ BlocksOK /\ OwnerOK /\ ListOK

LEMMA TypeParts == TypeOK <=> Typed
BY DEF TypeOK, Typed, ControlOK, BlocksOK, OwnerOK, ListOK

LEMMA ControlNext == Typed /\ [Next]_vars => ControlOK'
<1>. SUFFICES ASSUME Typed, [Next]_vars  PROVE ControlOK'
  OBVIOUS
<1>. USE DEF mainVars, lockVars, Typed, ControlOK
<1>0. None \notin Block \cup {"main"} /\ "main" \notin Block
  BY PoolAssumption
<1>1. CASE Lock \/ TakeBlock \/ Wait \/ Wake \/ SpuriousWake \/ UNCHANGED vars
  BY <1>0, <1>1 DEF Lock, TakeBlock, Wait, Wake, SpuriousWake, Unlock, vars
<1>2. CASE Accept \/ AcceptFails \/ ThreadFails
  BY <1>0, <1>2 DEF Accept, AcceptFails, ThreadFails, StartThread, FillBlock
<1>3. ASSUME NEW b \in Block, NEW u \in User, Login(b, u)  PROVE ControlOK'
  BY <1>3 DEF Login
<1>4. ASSUME NEW b \in Block, Exit(b) \/ Lose(b) \/ Close(b) \/ UseFreed(b)  PROVE ControlOK'
  BY <1>4 DEF Exit, Lose, Close, UseFreed
<1>5. ASSUME NEW b \in Block, ReleaseFind(b)  PROVE ControlOK'
  BY <1>0, <1>5 DEF ReleaseFind
<1>6. ASSUME NEW b \in Block, ReleaseFree(b)  PROVE ControlOK'
  BY <1>0, <1>6 DEF ReleaseFree, Signal, Unlock, OwnerOK
<1>. QED  BY <1>1, <1>2, <1>3, <1>4, <1>5, <1>6 DEF Next, Main, Leave

LEMMA BlocksNext == Typed /\ Listed /\ [Next]_vars => BlocksOK'
<1>. SUFFICES ASSUME Typed, Listed, [Next]_vars  PROVE BlocksOK'
  OBVIOUS
<1>. USE DEF blockVars, Typed, BlocksOK
<1>1. CASE Lock \/ TakeBlock \/ Wait \/ Wake \/ SpuriousWake \/ UNCHANGED vars
  BY <1>1 DEF Lock, TakeBlock, Wait, Wake, SpuriousWake, vars
<1>2. CASE Accept \/ AcceptFails \/ ThreadFails
  BY <1>2 DEF Accept, AcceptFails, ThreadFails, StartThread, FillBlock
<1>3. ASSUME NEW b \in Block, NEW u \in User, Login(b, u)  PROVE BlocksOK'
  BY <1>3 DEF Login
<1>4. ASSUME NEW b \in Block, Exit(b) \/ Lose(b) \/ Close(b) \/ UseFreed(b)  PROVE BlocksOK'
  BY <1>4 DEF Exit, Lose, Close, UseFreed
<1>5. ASSUME NEW b \in Block, ReleaseFind(b)  PROVE BlocksOK'
  <2>1. b \in live
    BY <1>5 DEF ReleaseFind, At
  <2>2. Found(b) \in Block
    BY <2>1, FoundFirst, TypeParts DEF ListOK
  <2>. QED  BY <1>5, <2>2 DEF ReleaseFind
<1>6. ASSUME NEW b \in Block, ReleaseFree(b)  PROVE BlocksOK'
  BY <1>6 DEF ReleaseFree
<1>. QED  BY <1>1, <1>2, <1>3, <1>4, <1>5, <1>6 DEF Next, Main, Leave

LEMMA OwnerNext == Typed /\ Listed /\ Filled /\ [Next]_vars => OwnerOK'
<1>. SUFFICES ASSUME Typed, Listed, Filled, [Next]_vars  PROVE OwnerOK'
  OBVIOUS
<1>. USE DEF mainVars, lockVars, blockVars, OwnerOK, Typed, BlocksOK
<1>0. None \notin Block \cup {"main"} /\ "main" \notin Block
  BY PoolAssumption
<1>1. CASE Lock \/ TakeBlock \/ Wait \/ Wake \/ SpuriousWake \/ UNCHANGED vars
  <2>1. pc' = pc /\ elem' = elem
    BY <1>1 DEF Lock, TakeBlock, Wait, Wake, SpuriousWake, vars
  <2>2. mutex' = mutex \/ {mutex, mutex'} \subseteq {None, "main"}
    <3>1. CASE Lock
      BY <3>1 DEF Lock
    <3>2. CASE TakeBlock \/ Wait
      <4>1. main = "check" /\ mutex' = None
        BY <3>2 DEF TakeBlock, Wait, Unlock
      <4>2. mutex = "main"
        BY <4>1 DEF ControlOK
      <4>. QED  BY <4>1, <4>2
    <3>3. CASE Wake \/ SpuriousWake \/ UNCHANGED vars
      BY <3>3 DEF Wake, SpuriousWake, vars
    <3>. QED  BY <1>1, <3>1, <3>2, <3>3
  <2>. QED  BY <1>0, <2>1, <2>2
<1>2. CASE Accept \/ AcceptFails \/ ThreadFails
  <2>1. PICK s : FillBlock(s)
    BY <1>2 DEF Accept, AcceptFails, ThreadFails, StartThread
  <2>2. pc' = pc \/ pc' = [pc EXCEPT ![current] = "recv"]
    BY <1>2 DEF Accept, AcceptFails, ThreadFails, StartThread
  <2>3. pc[current] = "none"
    BY <2>1 DEF FillBlock, Filled
  <2>. QED  BY <2>1, <2>2, <2>3 DEF FillBlock
<1>3. ASSUME NEW b \in Block, NEW u \in User, Login(b, u)  PROVE OwnerOK'
  BY <1>3 DEF Login
<1>4. ASSUME NEW b \in Block, Exit(b) \/ Lose(b) \/ Close(b) \/ UseFreed(b)  PROVE OwnerOK'
  BY <1>4 DEF Exit, Lose, Close, UseFreed, At
<1>5. ASSUME NEW b \in Block, ReleaseFind(b)  PROVE OwnerOK'
  <2>1. b \in live
    BY <1>5 DEF ReleaseFind, At
  <2>2. Found(b) \in Block
    BY <2>1, FoundFirst, TypeParts DEF ListOK
  <2>. QED  BY <1>0, <1>5, <2>2 DEF ReleaseFind
<1>6. ASSUME NEW b \in Block, ReleaseFree(b)  PROVE OwnerOK'
  BY <1>0, <1>6 DEF ReleaseFree, Unlock
<1>. QED  BY <1>1, <1>2, <1>3, <1>4, <1>5, <1>6 DEF Next, Main, Leave

LEMMA ListNext == Typed /\ Listed /\ [Next]_vars => ListOK' /\ Listed'
<1>. SUFFICES ASSUME Typed, Listed, [Next]_vars  PROVE ListOK' /\ Listed'
  OBVIOUS
<1>. USE DEF Typed, ListOK, blockVars
<1>0. User \cap Block = {}
  BY PoolAssumption
<1>1. ASSUME list' = list, live' = live  PROVE Listed'
  BY <1>1 DEF Listed
<1>2. CASE Lock \/ Wait \/ Wake \/ SpuriousWake \/ UNCHANGED vars
  BY <1>1, <1>2 DEF Lock, Wait, Wake, SpuriousWake, vars
<1>3. CASE TakeBlock
  <2>1. PICK b \in Block \ live : live' = live \cup {b} /\ list' = Append(list, b)
    BY <1>3 DEF TakeBlock
  <2>2. b \notin ToSet(list)
    BY <2>1 DEF Listed
  <2>3. list' \in Seq(Block \cup User) /\ ToSet(list') = ToSet(list) \cup {b} /\ Once(list', Block)
    BY <2>1, <2>2, AppendElements, AppendOnce DEF Listed
  <2>4. UNCHANGED <<open, failures, fault>>
    BY <1>3 DEF TakeBlock
  <2>. QED  BY <2>1, <2>3, <2>4 DEF Listed
<1>4. CASE Accept \/ AcceptFails \/ ThreadFails
  <2>1. list' = list /\ live' = live
    BY <1>4 DEF Accept, AcceptFails, ThreadFails, StartThread, FillBlock
  <2>2. open' \subseteq Fd /\ fault' \in BOOLEAN
    BY <1>4 DEF Accept, AcceptFails, ThreadFails, StartThread, Opens
  <2>3. failures' \in 0 .. MaxFailures
    BY <1>4, PoolAssumption DEF Accept, AcceptFails, ThreadFails
  <2>. QED  BY <1>1, <2>1, <2>2, <2>3
<1>5. ASSUME NEW b \in Block, NEW u \in User, Login(b, u)  PROVE ListOK' /\ Listed'
  <2>1. list' = Append(list, u) /\ UNCHANGED <<live, open, failures, fault>>
    BY <1>5 DEF Login
  <2>2. list' \in Seq(Block \cup User) /\ ToSet(list') = ToSet(list) \cup {u} /\ Once(list', Block)
    BY <1>0, <2>1, AppendElements, AppendOnce DEF Listed
  <2>. QED  BY <1>0, <2>1, <2>2 DEF Listed
<1>6. ASSUME NEW b \in Block, Exit(b)  PROVE ListOK' /\ Listed'
  <2>1. list' = RemoveFirst(list, clientID[b]) /\ UNCHANGED <<live, open, failures, fault>>
    BY <1>6 DEF Exit
  <2>2. clientID[b] \in User
    BY <1>6 DEF Exit, BlocksOK
  <2>3. /\ list' \in Seq(Block \cup User) /\ Once(list', Block)
        /\ \A d \in Block : d \in ToSet(list') <=> d \in ToSet(list)
    BY <1>0, <2>1, <2>2, RemoveFirstElements, RemoveFirstOnce DEF Listed
  <2>. QED  BY <2>1, <2>3 DEF Listed
<1>7. ASSUME NEW b \in Block, Lose(b) \/ Close(b) \/ UseFreed(b) \/ ReleaseFind(b)
      PROVE  ListOK' /\ Listed'
  BY <1>1, <1>7 DEF Lose, Close, UseFreed, ReleaseFind
<1>8. ASSUME NEW b \in Block, ReleaseFree(b)  PROVE ListOK' /\ Listed'
  <2>1. /\ list' = RemoveFirst(list, elem[b]) /\ live' = live \ {elem[b]}
        /\ UNCHANGED <<open, failures, fault>>
    BY <1>8 DEF ReleaseFree
  <2>2. elem[b] \in Block
    BY <1>8 DEF ReleaseFree, BlocksOK
  <2>3. /\ list' \in Seq(Block \cup User) /\ Once(list', Block) /\ elem[b] \notin ToSet(list')
        /\ \A d \in Block : d # elem[b] => (d \in ToSet(list') <=> d \in ToSet(list))
    BY <2>1, <2>2, RemoveFirstElements, RemoveFirstOnce DEF Listed
  <2>. QED  BY <2>1, <2>3 DEF Listed
<1>. QED
  BY <1>2, <1>3, <1>4, <1>5, <1>6, <1>7, <1>8 DEF Next, Main, Leave

LEMMA TypeNext == TypeOK /\ Listed /\ Filled /\ [Next]_vars => TypeOK' /\ Listed'
<1>1. Typed' => TypeOK'
  BY DEF TypeOK, Typed, ControlOK, BlocksOK, OwnerOK, ListOK
<1>. QED  BY <1>1, TypeParts, ControlNext, BlocksNext, OwnerNext, ListNext DEF Typed

(* What a step does to the order of the blocks.                            *)
LEMMA AppendOrder ==
  ASSUME NEW S, NEW q \in Seq(S), NEW x \in S, NEW f, NEW g, NEW d
  PROVE  /\ x \in Block => Youngest(Append(q, x), x)
         /\ x \notin Block /\ Youngest(q, d) => Youngest(Append(q, x), d)
         /\ /\ Behind(q, f, d) /\ g[d] = f[d]
            /\ x \in Block => g[x] # f[d]
            /\ \A c \in Block : g[c] = g[d] => f[c] = f[d] \/ c = x
            => Behind(Append(q, x), g, d)
<1>1. /\ Append(q, x) \in Seq(S)
      /\ Len(Append(q, x)) = Len(q) + 1
      /\ \A i \in 1 .. Len(q) : Append(q, x)[i] = q[i]
      /\ Append(q, x)[Len(q) + 1] = x
  BY AppendProperties
<1>. DEFINE r == Append(q, x)
<1>2. /\ Len(q) \in Nat /\ DOMAIN q = 1 .. Len(q) /\ DOMAIN r = 1 .. Len(q) + 1
      /\ \A i \in 1 .. Len(q) : r[i] = q[i]
      /\ r[Len(q) + 1] = x
  BY <1>1, LenProperties
<1>. HIDE DEF r
<1>3. \A i \in DOMAIN r : (i \in DOMAIN q /\ r[i] = q[i]) \/ i = Len(q) + 1
  BY <1>2
<1>4. \A i \in DOMAIN q : i \in DOMAIN r /\ r[i] = q[i]
  BY <1>2
<1>5. x \in Block => Youngest(r, x)
  BY <1>2 DEF Youngest
<1>6. x \notin Block /\ Youngest(q, d) => Youngest(r, d)
  BY <1>2, <1>3, <1>4 DEF Youngest
<1>7. ASSUME Behind(q, f, d), g[d] = f[d], x \in Block => g[x] # f[d],
             \A c \in Block : g[c] = g[d] => f[c] = f[d] \/ c = x
      PROVE  Behind(r, g, d)
  BY <1>2, <1>3, <1>4, <1>7 DEF Behind
<1>. QED  BY <1>5, <1>6, <1>7 DEF r

LEMMA RemoveOrder ==
  ASSUME NEW S, NEW q \in Seq(S), NEW e, NEW f, NEW d, d # e
  PROVE  /\ Youngest(q, d) => Youngest(RemoveFirst(q, e), d)
         /\ Behind(q, f, d) => Behind(RemoveFirst(q, e), f, d)
<1>. DEFINE r == RemoveFirst(q, e)
<1>1. PICK old :
        /\ \A i \in DOMAIN r : old[i] \in DOMAIN q /\ r[i] = q[old[i]]
        /\ \A i, j \in DOMAIN r : old[i] <= old[j] => i <= j
        /\ \A k \in DOMAIN q : q[k] # e => \E i \in DOMAIN r : old[i] = k
  BY RemoveFirstOrder
<1>. HIDE DEF r
<1>2. Youngest(q, d) => Youngest(r, d)
  BY <1>1 DEF Youngest
<1>3. Behind(q, f, d) => Behind(r, f, d)
  BY <1>1 DEF Behind
<1>. QED  BY <1>2, <1>3 DEF r

LEMMA FilledNext == PoolInv /\ [Next]_vars => Filled'
<1>. SUFFICES ASSUME PoolInv, [Next]_vars  PROVE Filled'
  OBVIOUS
<1>. USE DEF mainVars, lockVars, blockVars
<1>0. Typed /\ Listed /\ Filled
  BY TypeParts DEF PoolInv
<1>1. BlocksOK /\ list \in Seq(Block \cup User) /\ User \cap Block = {}
  BY <1>0, PoolAssumption DEF Typed, ListOK
<1>2. CASE Lock \/ Wait \/ Wake \/ SpuriousWake \/ UNCHANGED vars
  BY <1>0, <1>2 DEF Lock, Wait, Wake, SpuriousWake, vars, Filled
<1>3. CASE TakeBlock
  <2>1. PICK b \in Block \ live :
          /\ pc[b] = "none" /\ live' = live \cup {b} /\ socket' = [socket EXCEPT ![b] = 0]
          /\ list' = Append(list, b) /\ current' = b /\ pc' = pc /\ elem' = elem
    BY <1>3 DEF TakeBlock
  <2>2. Youngest(list', b)
    BY <1>1, <2>1, AppendOrder
  <2>3. \A c \in Block : pc[c] = "free" => elem[c] \in live /\ elem[c] # b
    BY <1>0, <2>1 DEF Filled
  <2>. QED  BY <1>0, <1>1, <2>1, <2>2, <2>3 DEF Filled, BlocksOK, Listed
<1>4. CASE Accept \/ AcceptFails \/ ThreadFails
  <2>1. PICK s \in Fd \cup {-1} : FillBlock(s)
    BY <1>4 DEF Accept, AcceptFails, ThreadFails, StartThread
  <2>2. s # 0
    BY PoolAssumption
  <2>3. pc' = pc \/ pc' = [pc EXCEPT ![current] = "recv"]
    BY <1>4 DEF Accept, AcceptFails, ThreadFails, StartThread
  <2>4. live \subseteq Block /\ current \in Block
    BY <1>0, <2>1 DEF Typed, ControlOK, ListOK, FillBlock
  <2>. QED  BY <1>0, <1>1, <2>1, <2>2, <2>3, <2>4 DEF Filled, BlocksOK, FillBlock
<1>5. ASSUME NEW b \in Block, NEW u \in User, Login(b, u)  PROVE Filled'
  <2>1. list' = Append(list, u) /\ UNCHANGED <<main, current, pc, socket, elem, live>>
    BY <1>5 DEF Login
  <2>2. Youngest(list, current) => Youngest(list', current)
    BY <1>1, <2>1, AppendOrder
  <2>. QED  BY <1>0, <2>1, <2>2 DEF Filled
<1>6. ASSUME NEW b \in Block, Exit(b)  PROVE Filled'
  <2>1. /\ list' = RemoveFirst(list, clientID[b]) /\ pc' = [pc EXCEPT ![b] = "close"]
        /\ UNCHANGED <<main, current, socket, elem, live>>
        /\ pc[b] = "recv" /\ clientID[b] \in User
    BY <1>1, <1>6 DEF Exit, At, BlocksOK
  <2>2. ASSUME main = "accept"  PROVE current # b /\ current # clientID[b]
    BY <1>0, <1>1, <2>1, <2>2 DEF Filled, Typed, ControlOK
  <2>3. main = "accept" /\ Youngest(list, current) => Youngest(list', current)
    BY <1>1, <2>1, <2>2, RemoveOrder
  <2>. QED  BY <1>0, <1>1, <2>1, <2>2, <2>3 DEF Filled, BlocksOK
<1>7. ASSUME NEW b \in Block, Lose(b) \/ Close(b) \/ UseFreed(b)  PROVE Filled'
  <2>1. /\ UNCHANGED <<main, current, socket, elem, live, list>>
        /\ pc[b] \in {"recv", "close", "release"}
        /\ pc' = pc \/ \E l \in {"close", "release"} : pc' = [pc EXCEPT ![b] = l]
    BY <1>7 DEF Lose, Close, UseFreed, At
  <2>2. main = "accept" => current # b
    BY <1>0, <2>1 DEF Filled
  <2>3. \A c \in Block : /\ c # b => pc'[c] = pc[c]
                         /\ pc'[c] # "none" => pc[c] # "none"
                         /\ pc'[c] = "free" => pc[c] = "free"
    BY <1>1, <2>1 DEF BlocksOK
  <2>4. main = "accept" => pc'[current] = pc[current]
    BY <1>0, <2>2, <2>3 DEF Typed, ControlOK
  <2>. QED  BY <1>0, <2>1, <2>3, <2>4 DEF Filled
<1>8. ASSUME NEW b \in Block, ReleaseFind(b)  PROVE Filled'
  <2>1. /\ UNCHANGED <<main, current, socket, live, list>>
        /\ pc[b] = "release" /\ b \in live
        /\ pc' = [pc EXCEPT ![b] = "free"] /\ elem' = [elem EXCEPT ![b] = Found(b)]
    BY <1>8 DEF ReleaseFind, At
  <2>2. main = "accept" => current # b
    BY <1>0, <2>1 DEF Filled
  <2>3. Found(b) \in live /\ socket[Found(b)] # 0
    BY <1>0, <2>1, FoundFirst, TypeParts DEF Filled
  <2>. QED  BY <1>0, <1>1, <2>1, <2>2, <2>3 DEF Filled, BlocksOK
<1>9. ASSUME NEW b \in Block, ReleaseFree(b)  PROVE Filled'
  <2>1. /\ UNCHANGED <<main, current, socket>>
        /\ pc[b] = "free" /\ pc' = [pc EXCEPT ![b] = "none"]
        /\ elem' = [elem EXCEPT ![b] = None] /\ list' = RemoveFirst(list, elem[b])
    BY <1>9 DEF ReleaseFree
  <2>2. main = "accept" => current # b /\ current # elem[b]
    BY <1>0, <2>1 DEF Filled
  <2>3. main = "accept" /\ Youngest(list, current) => Youngest(list', current)
    BY <1>1, <2>1, <2>2, RemoveOrder
  <2>4. \A c \in Block : pc'[c] # "free"
    BY <1>0, <1>1, <2>1 DEF Typed, OwnerOK, BlocksOK
  <2>. QED  BY <1>0, <1>1, <2>1, <2>2, <2>3, <2>4 DEF Filled, BlocksOK
<1>. QED
  BY <1>2, <1>3, <1>4, <1>5, <1>6, <1>7, <1>8, <1>9 DEF Next, Main, Leave

(* Two blocks with one descriptor are not both held.                       *)
LEMMA HoldsAlone ==
  ASSUME list \in Seq(Block \cup User), NEW c, NEW d, Holds(c), Holds(d), socket[c] = socket[d]
  PROVE  c = d
<1>1. PICK i \in DOMAIN list : list[i] = c /\ \A j \in DOMAIN list :
        list[j] \in Block /\ socket[list[j]] = socket[c] => j <= i
  BY DEF Holds, Behind
<1>2. PICK j \in DOMAIN list : list[j] = d /\ \A h \in DOMAIN list :
        list[h] \in Block /\ socket[list[h]] = socket[d] => h <= j
  BY DEF Holds, Behind
<1>3. i <= j /\ j <= i
  BY <1>1, <1>2 DEF Holds
<1>4. i \in Nat /\ j \in Nat
  BY LenProperties
<1>. QED  BY <1>1, <1>2, <1>3, <1>4

LEMMA HeldNext == PoolInv /\ [Next]_vars => Held'
<1>. SUFFICES ASSUME PoolInv, [Next]_vars  PROVE Held'
  OBVIOUS
<1>. USE DEF mainVars, lockVars, blockVars
<1>0. Typed /\ Listed /\ Filled /\ Held
  BY TypeParts DEF PoolInv
<1>1. BlocksOK /\ list \in Seq(Block \cup User) /\ User \cap Block = {}
  BY <1>0, PoolAssumption DEF Typed, ListOK
<1>2. open \subseteq Fd /\ \A s \in Fd : s # 0 /\ s # -1
  BY <1>0, PoolAssumption DEF Typed, ListOK
<1>3. \A d : Holds(d) => d \in live
  BY <1>0 DEF Holds, Behind, Listed, ToSet
<1>4. CASE Lock \/ Wait \/ Wake \/ SpuriousWake \/ UNCHANGED vars
  BY <1>0, <1>4 DEF Lock, Wait, Wake, SpuriousWake, vars, Held, Holds
<1>5. CASE TakeBlock
  <2>1. PICK b \in Block \ live :
          /\ pc[b] = "none" /\ socket' = [socket EXCEPT ![b] = 0]
          /\ list' = Append(list, b) /\ pc' = pc /\ elem' = elem /\ open' = open
    BY <1>5 DEF TakeBlock
  <2>2. ASSUME NEW d, Holds(d), socket[d] # 0  PROVE Holds(d)' /\ socket'[d] = socket[d]
    <3>1. d # b /\ d \in Block
      BY <1>3, <2>1, <2>2 DEF Holds
    <3>2. \A c \in Block : c # b => socket'[c] = socket[c]
      BY <1>1, <2>1 DEF BlocksOK
    <3>3. socket'[b] = 0
      BY <1>1, <2>1 DEF BlocksOK
    <3>4. Behind(list', socket', d)
      <4>1. \A c \in Block : socket'[c] = socket'[d] => socket[c] = socket[d] \/ c = b
        BY <3>1, <3>2
      <4>2. Behind(list, socket, d) /\ socket'[d] = socket[d] /\ socket'[b] # socket[d]
        BY <2>2, <3>1, <3>2, <3>3 DEF Holds
      <4>3. b \in Block \cup User
        OBVIOUS
      <4>4. Behind(Append(list, b), socket', d)
        BY <1>1, <4>1, <4>2, <4>3, AppendOrder
      <4>. QED  BY <2>1, <4>4
    <3>. QED  BY <2>1, <2>2, <3>1, <3>2, <3>4 DEF Holds
  <2>3. \A c \in Block : pc[c] \in {"recv", "close"} => socket[c] # 0 /\ c # b
    BY <1>0, <2>1 DEF Filled
  <2>4. \A s \in open : s # 0
    BY <1>2
  <2>5. \A c \in Block : c # b => socket'[c] = socket[c]
    BY <1>1, <2>1 DEF BlocksOK
  <2>. QED  BY <1>0, <2>1, <2>2, <2>3, <2>4, <2>5 DEF Held
<1>6. CASE Accept \/ AcceptFails \/ ThreadFails
  <2>1. PICK s \in Fd \cup {-1} : FillBlock(s) /\ s \notin open /\ open' = IF s = -1 THEN open ELSE open \cup {s}
    <3>1. ASSUME AcceptFails  PROVE FillBlock(-1) /\ -1 \notin open /\ open' = open
      BY <1>2, <3>1 DEF AcceptFails, StartThread
    <3>2. ASSUME Accept \/ ThreadFails
          PROVE  \E s \in Fd : FillBlock(s) /\ s \notin open /\ open' = open \cup {s}
      BY <3>2 DEF Accept, ThreadFails, StartThread, Opens
    <3>. QED  BY <1>2, <1>6, <3>1, <3>2
  <2>2. s # 0
    BY <1>2
  <2>3. pc' = pc \/ pc' = [pc EXCEPT ![current] = "recv"]
    BY <1>6 DEF Accept, AcceptFails, ThreadFails, StartThread
  <2>4. PICK e \in Block :
          /\ current = e /\ pc[e] = "none" /\ socket[e] = 0 /\ Youngest(list, e)
          /\ socket' = [socket EXCEPT ![e] = s] /\ list' = list /\ elem' = elem
    BY <1>0, <2>1 DEF FillBlock, Filled, Typed, ControlOK
  <2>5. /\ \A c \in Block : c # e => socket'[c] = socket[c] /\ pc'[c] = pc[c]
        /\ socket'[e] = s /\ pc'[e] \in {"none", "recv"}
        /\ \A c \in Block : pc'[c] = "free" <=> pc[c] = "free"
    BY <1>1, <2>3, <2>4 DEF BlocksOK
  <2>6. ASSUME NEW d \in Block, Holds(d), d # e, socket[d] # s  PROVE Holds(d)'
    <3>1. Behind(list', socket', d)
      BY <2>4, <2>5, <2>6 DEF Holds, Behind
    <3>. QED  BY <2>4, <2>5, <2>6, <3>1 DEF Holds
  <2>7. Holds(e)'
    <3>1. \A c \in Block : pc[c] = "free" => elem[c] # e
      BY <1>0, <2>4 DEF Filled
    <3>2. Behind(list', socket', e)
      BY <2>4 DEF Youngest, Behind
    <3>. QED  BY <2>4, <2>5, <3>1, <3>2 DEF Holds
  <2>8. ASSUME NEW c \in Block, pc'[c] \in {"recv", "close"}, socket'[c] # -1
        PROVE  socket'[c] \in open' /\ Holds(c)'
    <3>1. CASE c = e
      BY <2>1, <2>5, <2>7, <2>8, <3>1
    <3>2. CASE c # e
      <4>1. socket[c] \in open /\ Holds(c) /\ socket'[c] = socket[c]
        BY <1>0, <2>5, <2>8, <3>2 DEF Held
      <4>. QED  BY <2>1, <2>6, <3>2, <4>1
    <3>. QED  BY <3>1, <3>2
  <2>9. ASSUME NEW t \in open'  PROVE \E d \in Block : Holds(d)' /\ socket'[d] = t
    <3>1. CASE t \in open
      <4>1. PICK d \in Block : Holds(d) /\ socket[d] = t
        BY <1>0, <3>1 DEF Held
      <4>2. d # e /\ socket[d] # s
        BY <1>2, <2>1, <2>4, <3>1, <4>1
      <4>. QED  BY <2>5, <2>6, <4>1, <4>2
    <3>2. CASE t \notin open
      BY <2>1, <2>5, <2>7, <2>9, <3>2
    <3>. QED  BY <3>1, <3>2
  <2>. QED  BY <2>8, <2>9 DEF Held
<1>7. ASSUME NEW b \in Block, NEW u \in User, Login(b, u)  PROVE Held'
  <2>1. list' = Append(list, u) /\ UNCHANGED <<pc, socket, elem, open>>
    BY <1>7 DEF Login
  <2>2. \A d : Behind(list, socket, d) => Behind(list', socket, d)
    BY <1>1, <2>1, AppendOrder
  <2>3. \A d : Holds(d) => Holds(d)'
    BY <2>1, <2>2 DEF Holds
  <2>. QED  BY <1>0, <2>1, <2>3 DEF Held
<1>8. ASSUME NEW b \in Block, Exit(b) \/ Lose(b)  PROVE Held'
  <2>1. /\ pc[b] = "recv" /\ pc' = [pc EXCEPT ![b] = "close"] /\ UNCHANGED <<socket, elem, open>>
        /\ list' = list \/ \E u \in User : list' = RemoveFirst(list, u)
    BY <1>1, <1>8 DEF Exit, Lose, At, BlocksOK
  <2>2. \A d \in Block : Behind(list, socket, d) => Behind(list', socket, d)
    BY <1>1, <2>1, RemoveOrder
  <2>3. /\ \A c \in Block : c # b => pc'[c] = pc[c]
        /\ pc'[b] = "close"
    BY <1>1, <2>1 DEF BlocksOK
  <2>4. \A d : Holds(d) => Holds(d)'
    BY <2>1, <2>2, <2>3 DEF Holds
  <2>. QED  BY <1>0, <2>1, <2>3, <2>4 DEF Held
<1>9. ASSUME NEW b \in Block, Close(b)  PROVE Held'
  <2>1. /\ pc[b] = "close" /\ pc' = [pc EXCEPT ![b] = "release"] /\ open' = open \ {socket[b]}
        /\ UNCHANGED <<list, socket, elem>>
    BY <1>9 DEF Close, At
  <2>2. /\ \A c \in Block : c # b => pc'[c] = pc[c]
        /\ pc'[b] = "release"
    BY <1>1, <2>1 DEF BlocksOK
  <2>3. \A d \in Block : Holds(d) /\ d # b => Holds(d)'
    BY <2>1, <2>2 DEF Holds
  <2>4. ASSUME NEW c \in Block, c # b, pc[c] \in {"recv", "close"}, socket[c] # -1
        PROVE  socket[c] \in open' /\ Holds(c)'
    <3>1. socket[c] \in open /\ Holds(c)
      BY <1>0, <2>4 DEF Held
    <3>2. socket[b] # -1 => Holds(b)
      BY <1>0, <2>1 DEF Held
    <3>3. socket[c] # socket[b]
      BY <1>1, <2>4, <3>1, <3>2, HoldsAlone
    <3>. QED  BY <2>1, <2>3, <2>4, <3>1, <3>3
  <2>5. \A s \in open' : \E d \in Block : d # b /\ Holds(d) /\ socket[d] = s
    BY <1>0, <2>1 DEF Held
  <2>. QED  BY <2>1, <2>2, <2>3, <2>4, <2>5 DEF Held
<1>10. ASSUME NEW b \in Block, UseFreed(b)  PROVE Held'
  BY <1>0, <1>10 DEF UseFreed, Held, Holds
<1>11. ASSUME NEW b \in Block, ReleaseFind(b)  PROVE Held'
  <2>1. /\ pc[b] = "release" /\ b \in live /\ pc' = [pc EXCEPT ![b] = "free"]
        /\ elem' = [elem EXCEPT ![b] = Found(b)] /\ UNCHANGED <<list, socket, open>>
    BY <1>11 DEF ReleaseFind, At
  <2>2. /\ \A c \in Block : c # b => pc'[c] = pc[c] /\ elem'[c] = elem[c]
        /\ pc'[b] = "free" /\ elem'[b] = Found(b)
    BY <1>1, <2>1 DEF BlocksOK
  <2>3. PICK i \in DOMAIN list :
          /\ Found(b) = list[i] /\ list[i] \in live /\ socket[list[i]] = socket[b]
          /\ \A j \in DOMAIN list : list[j] \in Block /\ socket[list[j]] = socket[b] => i <= j
    BY <1>0, <2>1, FoundFirst, TypeParts
  <2>4. ASSUME NEW d \in Block, Holds(d)  PROVE d # Found(b) /\ d # b
    <3>1. d # b
      BY <2>1, <2>4 DEF Holds
    <3>2. PICK k \in DOMAIN list : list[k] = b
      BY <1>0, <2>1 DEF Listed, ToSet
    <3>3. ASSUME d = list[i]  PROVE FALSE
      <4>1. PICK j \in DOMAIN list : list[j] = d /\ \A h \in DOMAIN list :
              list[h] \in Block /\ socket[list[h]] = socket[d] => h <= j
        BY <2>4 DEF Holds, Behind
      <4>2. j = i
        BY <1>0, <2>4, <3>3, <4>1 DEF Listed, Once
      <4>3. k <= j /\ i <= k
        BY <2>3, <3>2, <3>3, <4>1
      <4>4. k = i
        BY <1>1, <4>2, <4>3, LenProperties
      <4>. QED  BY <3>1, <3>2, <3>3, <4>4
    <3>. QED  BY <2>3, <3>1, <3>3
  <2>5. \A d \in Block : Holds(d) => Holds(d)'
    BY <2>1, <2>2, <2>4 DEF Holds
  <2>. QED  BY <1>0, <2>1, <2>2, <2>5 DEF Held
<1>12. ASSUME NEW b \in Block, ReleaseFree(b)  PROVE Held'
  <2>1. /\ pc[b] = "free" /\ pc' = [pc EXCEPT ![b] = "none"]
        /\ list' = RemoveFirst(list, elem[b]) /\ elem' = [elem EXCEPT ![b] = None]
        /\ UNCHANGED <<socket, open>>
    BY <1>12 DEF ReleaseFree
  <2>2. /\ \A c \in Block : c # b => pc'[c] = pc[c] /\ elem'[c] = elem[c]
        /\ pc'[b] = "none"
    BY <1>1, <2>1 DEF BlocksOK
  <2>3. \A d \in Block : Holds(d) => d # elem[b] /\ Behind(list', socket, d)
    BY <1>1, <2>1, RemoveOrder DEF Holds
  <2>4. \A d \in Block : Holds(d) => Holds(d)'
    BY <2>1, <2>2, <2>3 DEF Holds
  <2>. QED  BY <1>0, <2>1, <2>2, <2>4 DEF Held
<1>. QED
  BY <1>4, <1>5, <1>6, <1>7, <1>8, <1>9, <1>10, <1>11, <1>12 DEF Next, Main, Leave

LEMMA PoolCorrect == Spec => []PoolInv
<1>1. PoolInv /\ [Next]_vars => PoolInv'
  BY TypeNext, FilledNext, HeldNext DEF PoolInv
<1>. QED  BY PoolInit, <1>1, PTL DEF Spec

(* Every variable of the pool has its type, and the thread that frees a    *)
(* node has found one and has the mutex.                                   *)
THEOREM PoolTyped == Spec => []TypeOK
<1>1. PoolInv => TypeOK
  BY DEF PoolInv
<1>. QED  BY <1>1, PoolCorrect, PTL

(* releaseThread never frees the block of a client that is connected, for  *)
(* all that it looks for the block by socket number: the blocks that had   *)
(* the number before are ahead of it in the list.                          *)
THEOREM BlocksKept == Spec => []ConnectedKept
<1>1. PoolInv => ConnectedKept
  BY DEF PoolInv, Held, Holds, Behind, Listed, ToSet, ConnectedKept
<1>. QED  BY <1>1, PoolCorrect, PTL

-----------------------------------------------------------------------------
(* The limit counts what is listed, and every open descriptor is that of a *)
(* block that is listed.                                                   *)
Bounded == IsFiniteSet(live) /\ Cardinality(live) <= MaxConnections

LEMMA BoundedNext == PoolInv /\ Bounded /\ [Next]_vars => Bounded'
<1>. SUFFICES ASSUME PoolInv, Bounded, [Next]_vars  PROVE Bounded'
  OBVIOUS
<1>1. CASE TakeBlock
  <2>1. PICK b \in Block \ live : live' = live \cup {b}
    BY <1>1 DEF TakeBlock
  <2>2. list \in Seq(Block \cup User) /\ \A c \in live : \E i \in DOMAIN list : list[i] = c
    BY DEF PoolInv, TypeOK, Listed, ToSet
  <2>3. Len(list) \in Nat /\ DOMAIN list = 1 .. Len(list)
    BY <2>2, LenProperties
  <2>4. IsFiniteSet(1 .. Len(list)) /\ Cardinality(1 .. Len(list)) = Len(list)
    <3>1. ASSUME NEW n \in Nat  PROVE IsFiniteSet(1 .. n) /\ Cardinality(1 .. n) = n
      <4>1. IsFiniteSet(1 .. n) /\ Cardinality(1 .. n) = IF 1 > n THEN 0 ELSE n - 1 + 1
        BY FS_Interval
      <4>. QED  BY <4>1
    <3>. QED  BY <2>3, <3>1
  <2>5. Cardinality(live) \in Nat /\ Cardinality(live) <= Len(list)
    BY <2>2, <2>3, <2>4, ImageBound
  <2>6. Len(list) < MaxConnections /\ MaxConnections \in Nat
    <3>1. ~(Len(list) >= MaxConnections)
      BY <1>1 DEF TakeBlock, Full
    <3>. QED  BY <2>3, <3>1, PoolAssumption
  <2>7. IsFiniteSet(live') /\ Cardinality(live') = Cardinality(live) + 1
    BY <2>1, FS_AddElement DEF Bounded
  <2>. QED  BY <2>3, <2>5, <2>6, <2>7 DEF Bounded
<1>2. CASE \E b \in Block : ReleaseFree(b)
  <2>1. live' \subseteq live
    BY <1>2 DEF ReleaseFree
  <2>2. IsFiniteSet(live') /\ Cardinality(live') <= Cardinality(live)
    BY <2>1, FS_Subset DEF Bounded
  <2>3. Cardinality(live) \in Nat /\ Cardinality(live') \in Nat /\ MaxConnections \in Nat
    BY <2>2, FS_CardinalityType, PoolAssumption DEF Bounded
  <2>. QED  BY <2>2, <2>3 DEF Bounded
<1>3. CASE UNCHANGED live
  BY <1>3 DEF Bounded
<1>4. ASSUME NEW b \in Block, NEW u \in User, Login(b, u)  PROVE UNCHANGED live
  BY <1>4 DEF Login
<1>5. ASSUME NEW b \in Block, Exit(b) \/ Lose(b) \/ Close(b) \/ ReleaseFind(b) \/ UseFreed(b)
      PROVE  UNCHANGED live
  BY <1>5 DEF Exit, Lose, Close, ReleaseFind, UseFreed, blockVars
<1>6. ASSUME \/ Lock \/ Wait \/ Wake \/ SpuriousWake \/ UNCHANGED vars
             \/ Accept \/ AcceptFails \/ ThreadFails
      PROVE  UNCHANGED live
  BY <1>6 DEF Lock, Wait, Wake, SpuriousWake, vars, blockVars,
              Accept, AcceptFails, ThreadFails, StartThread, FillBlock
<1>. QED
  BY <1>1, <1>2, <1>3, <1>4, <1>5, <1>6 DEF Next, Main, Leave

(* There are never more connections than MAX_CONNECTIONS, also after a     *)
(* thread has released the block of another.                               *)
THEOREM ConnectionsLimited == Spec => []ConnectionsBounded
<1>1. Init => Bounded
  BY FS_EmptySet, PoolAssumption DEF Init, Bounded
<1>2. PoolInv /\ Bounded => ConnectionsBounded
  <2>. SUFFICES ASSUME PoolInv, Bounded  PROVE ConnectionsBounded
    OBVIOUS
  <2>1. \A s \in open : \E d \in live : socket[d] = s
    BY DEF PoolInv, Held, Holds, Behind, Listed, ToSet
  <2>2. Cardinality(open) \in Nat /\ Cardinality(open) <= Cardinality(live)
    BY <2>1, ImageBound DEF Bounded
  <2>3. Cardinality(live) \in Nat /\ MaxConnections \in Nat
    BY FS_CardinalityType, PoolAssumption DEF Bounded
  <2>. QED  BY <2>2, <2>3 DEF Bounded, ConnectionsBounded
<1>. QED  BY <1>1, <1>2, BoundedNext, PoolCorrect, PTL DEF Spec

-----------------------------------------------------------------------------
(* The sets that SlotsAccounted compares; both are finite.                 *)
Abandoned == {b \in live : pc[b] = "none" /\ b # current}
Blockless == {b \in Block \ live : pc[b] # "none"}

Accounted ==
  /\ IsFiniteSet(Abandoned) /\ IsFiniteSet(Blockless)
  /\ Cardinality(Abandoned) <= Cardinality(Blockless) + failures

(* Frees: the thread of b frees the block of e.  What changes is the same  *)
(* on both sides.                                                          *)
LEMMA FreeAccounted ==
  ASSUME NEW A, NEW B, NEW A1, NEW B1, NEW e, NEW b, NEW n \in Nat,
         IsFiniteSet(A), IsFiniteSet(B), Cardinality(A) <= Cardinality(B) + n, b # e,
         \/ /\ e \in A /\ b \notin A /\ e \notin B /\ b \notin B
            /\ A1 = (A \ {e}) \cup {b} /\ B1 = B
         \/ /\ e \in A /\ b \notin A /\ e \notin B /\ b \in B
            /\ A1 = A \ {e} /\ B1 = B \ {b}
         \/ /\ e \notin A /\ b \notin A /\ e \notin B /\ b \notin B
            /\ A1 = A \cup {b} /\ B1 = B \cup {e}
         \/ /\ e \notin A /\ b \notin A /\ e \notin B /\ b \in B
            /\ A1 = A /\ B1 = (B \ {b}) \cup {e}
  PROVE  IsFiniteSet(A1) /\ IsFiniteSet(B1) /\ Cardinality(A1) <= Cardinality(B1) + n
<1>1. Cardinality(A) \in Nat /\ Cardinality(B) \in Nat
  BY FS_CardinalityType
<1>2. CASE e \in A /\ b \notin A /\ b \notin B /\ A1 = (A \ {e}) \cup {b} /\ B1 = B
  <2>1. IsFiniteSet(A \ {e}) /\ Cardinality(A \ {e}) = Cardinality(A) - 1
    BY <1>2, FS_RemoveElement
  <2>2. IsFiniteSet(A1) /\ Cardinality(A1) = Cardinality(A \ {e}) + 1
    BY <1>2, <2>1, FS_AddElement
  <2>. QED  BY <1>1, <1>2, <2>1, <2>2
<1>3. CASE e \in A /\ b \in B /\ A1 = A \ {e} /\ B1 = B \ {b}
  <2>1. IsFiniteSet(A1) /\ Cardinality(A1) = Cardinality(A) - 1
    BY <1>3, FS_RemoveElement
  <2>2. IsFiniteSet(B1) /\ Cardinality(B1) = Cardinality(B) - 1
    BY <1>3, FS_RemoveElement
  <2>. QED  BY <1>1, <2>1, <2>2
<1>4. CASE b \notin A /\ e \notin B /\ A1 = A \cup {b} /\ B1 = B \cup {e}
  <2>1. IsFiniteSet(A1) /\ Cardinality(A1) = Cardinality(A) + 1
    BY <1>4, FS_AddElement
  <2>2. IsFiniteSet(B1) /\ Cardinality(B1) = Cardinality(B) + 1
    BY <1>4, FS_AddElement
  <2>. QED  BY <1>1, <2>1, <2>2
<1>5. CASE e \notin B /\ b \in B /\ A1 = A /\ B1 = (B \ {b}) \cup {e}
  <2>1. IsFiniteSet(B \ {b}) /\ Cardinality(B \ {b}) = Cardinality(B) - 1
    BY <1>5, FS_RemoveElement
  <2>2. IsFiniteSet(B1) /\ Cardinality(B1) = Cardinality(B \ {b}) + 1
    BY <1>5, <2>1, FS_AddElement
  <2>. QED  BY <1>1, <1>5, <2>1, <2>2
<1>. QED  BY <1>2, <1>3, <1>4, <1>5

LEMMA AccountedNext == PoolInv /\ Accounted /\ [Next]_vars => Accounted'
<1>. SUFFICES ASSUME PoolInv, Accounted, [Next]_vars  PROVE Accounted'
  OBVIOUS
<1>. USE DEF mainVars, lockVars, blockVars
<1>0. Typed /\ Listed /\ Filled /\ BlocksOK /\ failures \in Nat
  BY TypeParts DEF PoolInv, Typed, ListOK
<1>1. ASSUME Abandoned' = Abandoned, Blockless' = Blockless, failures' = failures  PROVE Accounted'
  BY <1>1 DEF Accounted
<1>2. CASE Lock \/ Wait \/ Wake \/ SpuriousWake \/ UNCHANGED vars
  BY <1>1, <1>2 DEF Lock, Wait, Wake, SpuriousWake, vars, Abandoned, Blockless
<1>3. CASE TakeBlock
  <2>1. PICK b \in Block \ live :
          /\ pc[b] = "none" /\ live' = live \cup {b} /\ current' = b
          /\ pc' = pc /\ failures' = failures
    BY <1>3 DEF TakeBlock
  <2>2. current = None /\ None \notin Block /\ live \subseteq Block
    BY <1>0, <1>3, PoolAssumption DEF TakeBlock, Typed, ControlOK, ListOK
  <2>. QED  BY <1>1, <2>1, <2>2 DEF Abandoned, Blockless
<1>4. CASE Accept \/ AcceptFails \/ ThreadFails
  <2>1. PICK s : FillBlock(s)
    BY <1>4 DEF Accept, AcceptFails, ThreadFails, StartThread
  <2>2. PICK e \in live : e = current /\ pc[e] = "none"
    BY <1>0, <2>1 DEF FillBlock, Filled, Youngest, Listed, ToSet, Typed, ControlOK
  <2>3. current' = None /\ None \notin Block /\ live \subseteq Block /\ live' = live
    BY <1>0, <2>1, PoolAssumption DEF FillBlock, Typed, ListOK
  <2>4. CASE Accept \/ AcceptFails
    <3>1. pc' = [pc EXCEPT ![e] = "recv"]
      BY <2>2, <2>4 DEF Accept, AcceptFails, StartThread
    <3>2. pc'[e] = "recv" /\ \A c \in Block : c # e => pc'[c] = pc[c]
      BY <1>0, <2>2, <2>3, <3>1 DEF BlocksOK
    <3>3. Abandoned' = Abandoned /\ Blockless' = Blockless
      BY <2>2, <2>3, <3>2 DEF Abandoned, Blockless
    <3>4. failures' = failures \/ failures' = failures + 1
      BY <2>4 DEF Accept, AcceptFails
    <3>5. Cardinality(Abandoned) \in Nat /\ Cardinality(Blockless) \in Nat
      BY FS_CardinalityType DEF Accounted
    <3>. QED  BY <1>0, <3>3, <3>4, <3>5 DEF Accounted
  <2>5. CASE ThreadFails
    <3>1. pc' = pc /\ failures' = failures + 1
      BY <2>5 DEF ThreadFails
    <3>2. Abandoned' = Abandoned \cup {e} /\ e \notin Abandoned /\ Blockless' = Blockless
      BY <2>2, <2>3, <3>1 DEF Abandoned, Blockless
    <3>3. IsFiniteSet(Abandoned') /\ Cardinality(Abandoned') = Cardinality(Abandoned) + 1
      BY <3>2, FS_AddElement DEF Accounted
    <3>4. Cardinality(Abandoned) \in Nat /\ Cardinality(Blockless) \in Nat
      BY FS_CardinalityType DEF Accounted
    <3>. QED  BY <1>0, <3>1, <3>2, <3>3, <3>4 DEF Accounted
  <2>. QED  BY <1>4, <2>4, <2>5
<1>5. ASSUME NEW b \in Block, NEW u \in User, Login(b, u)  PROVE Accounted'
  BY <1>1, <1>5 DEF Login, Abandoned, Blockless
<1>6. ASSUME NEW b \in Block, Exit(b) \/ Lose(b) \/ Close(b) \/ ReleaseFind(b) \/ UseFreed(b)
      PROVE  Accounted'
  <2>1. UNCHANGED <<current, live, failures>>
    BY <1>6 DEF Exit, Lose, Close, ReleaseFind, UseFreed
  <2>2. /\ pc[b] # "none"
        /\ pc' = pc \/ \E l \in {"close", "release", "free"} : pc' = [pc EXCEPT ![b] = l]
    BY <1>6 DEF Exit, Lose, Close, ReleaseFind, UseFreed, At
  <2>3. \A c \in Block : pc'[c] = "none" <=> pc[c] = "none"
    BY <1>0, <2>2 DEF BlocksOK
  <2>4. live \subseteq Block
    BY <1>0 DEF Typed, ListOK
  <2>. QED  BY <1>1, <2>1, <2>3, <2>4 DEF Abandoned, Blockless
<1>7. ASSUME NEW b \in Block, ReleaseFree(b)  PROVE Accounted'
  <2>1. PICK e \in live : e = elem[b] /\ socket[e] # 0
    BY <1>0, <1>7 DEF ReleaseFree, Filled
  <2>2. /\ live' = live \ {e} /\ pc[b] = "free" /\ pc' = [pc EXCEPT ![b] = "none"]
        /\ current' = current /\ failures' = failures
    BY <1>7, <2>1 DEF ReleaseFree
  <2>3. pc'[b] = "none" /\ \A c \in Block : c # b => pc'[c] = pc[c]
    BY <1>0, <2>2 DEF BlocksOK
  <2>4. b # current /\ e # current /\ live \subseteq Block
    <3>1. main = "accept" => b # current /\ e # current
      BY <1>0, <2>1, <2>2 DEF Filled
    <3>2. main # "accept" => current = None
      BY <1>0 DEF Typed, ControlOK
    <3>3. live \subseteq Block /\ None \notin Block
      BY <1>0, PoolAssumption DEF Typed, ListOK
    <3>. QED  BY <2>1, <3>1, <3>2, <3>3
  <2>5. CASE e = b
    BY <1>1, <2>2, <2>3, <2>4, <2>5 DEF Abandoned, Blockless
  <2>6. CASE e # b
    <3>1. b \notin Abandoned /\ e \notin Blockless
      BY <2>1, <2>2 DEF Abandoned, Blockless
    <3>2. Abandoned' = (Abandoned \ {e}) \cup (IF b \in live THEN {b} ELSE {})
      BY <2>2, <2>3, <2>4, <2>6 DEF Abandoned
    <3>3. Blockless' = (Blockless \ {b}) \cup (IF pc[e] # "none" THEN {e} ELSE {})
      BY <2>1, <2>2, <2>3, <2>4, <2>6 DEF Blockless
    <3>4. (e \in Abandoned <=> pc[e] = "none") /\ (b \in Blockless <=> b \notin live)
      BY <2>1, <2>2, <2>4 DEF Abandoned, Blockless
    <3>5. \/ /\ e \in Abandoned /\ b \notin Blockless
             /\ Abandoned' = (Abandoned \ {e}) \cup {b} /\ Blockless' = Blockless
          \/ /\ e \in Abandoned /\ b \in Blockless
             /\ Abandoned' = Abandoned \ {e} /\ Blockless' = Blockless \ {b}
          \/ /\ e \notin Abandoned /\ b \notin Blockless
             /\ Abandoned' = Abandoned \cup {b} /\ Blockless' = Blockless \cup {e}
          \/ /\ e \notin Abandoned /\ b \in Blockless
             /\ Abandoned' = Abandoned /\ Blockless' = (Blockless \ {b}) \cup {e}
      BY <3>2, <3>3, <3>4
    <3>. HIDE <3>2, <3>3
    <3>6. IsFiniteSet(Abandoned) /\ IsFiniteSet(Blockless)
          /\ Cardinality(Abandoned) <= Cardinality(Blockless) + failures
      BY DEF Accounted
    <3>7. /\ IsFiniteSet(Abandoned') /\ IsFiniteSet(Blockless')
          /\ Cardinality(Abandoned') <= Cardinality(Blockless') + failures
      BY <1>0, <2>6, <3>1, <3>5, <3>6, FreeAccounted
    <3>. QED  BY <2>2, <3>7 DEF Accounted
  <2>. QED  BY <2>5, <2>6
<1>. QED
  BY <1>2, <1>3, <1>4, <1>5, <1>6, <1>7 DEF Next, Main, Leave

(* No slot is lost when threads release each other's blocks: every block   *)
(* without a thread is matched by a thread without a block, or by a call   *)
(* that failed.                                                            *)
THEOREM SlotsKept == Spec => []SlotsAccounted
<1>1. Init => Accounted
  <2>. SUFFICES ASSUME Init  PROVE Accounted
    OBVIOUS
  <2>1. Abandoned = {} /\ Blockless = {} /\ failures = 0
    BY DEF Init, Abandoned, Blockless
  <2>. QED  BY <2>1, FS_EmptySet DEF Accounted
<1>2. Accounted => SlotsAccounted
  BY DEF Accounted, Abandoned, Blockless, SlotsAccounted
<1>. QED  BY <1>1, <1>2, AccountedNext, PoolCorrect, PTL DEF Spec
=============================================================================
