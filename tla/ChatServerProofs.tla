-------------------------- MODULE ChatServerProofs --------------------------
(***************************************************************************)
(* Theorems about ChatServer, for every set of connections, users and      *)
(* names, every limit and every placement of names in buckets.             *)
(***************************************************************************)
EXTENDS ChatServer, ListFacts

-----------------------------------------------------------------------------
(* What the helpers of the table return.                                   *)

LEMMA HtFindType ==
  ASSUME TableTyped, NEW n \in Name
  PROVE  /\ HtFind(n) \subseteq SessId \cup {NoSess}
         /\ \A s \in HtFind(n) : s # NoSess => s \in ToSet(chain[BucketOf[n]])
<1>1. BucketOf[n] \in Bucket
  BY DEF Bucket
<1>2. chain[BucketOf[n]] \in Seq(SessId)
  BY <1>1 DEF TableTyped
<1>. QED
  BY <1>2, ElementOfSeq, LenProperties DEF HtFind, ToSet

LEMMA NextInType ==
  ASSUME NEW q \in Seq(SessId), NEW s
  PROVE  NextIn(q, s) \in SessId \cup {NoSess}
<1>. DEFINE After == {i \in DOMAIN q : i > 1 /\ q[i-1] = s}
<1>1. CASE After = {}
  BY <1>1 DEF NextIn
<1>2. CASE After # {}
  <2>1. (CHOOSE i \in After : TRUE) \in DOMAIN q
    BY <1>2
  <2>2. q[CHOOSE i \in After : TRUE] \in SessId
    BY <2>1, ElementOfSeq, LenProperties
  <2>. QED  BY <1>2, <2>2 DEF NextIn
<1>. QED  BY <1>1, <1>2

LEMMA HeadType ==
  ASSUME NEW q \in Seq(SessId)
  PROVE  (IF q = <<>> THEN NoSess ELSE Head(q)) \in SessId \cup {NoSess}
BY HeadTailProperties

LEMMA OwnSessionType ==
  ASSUME ConnsTyped, TableTyped, NEW c \in Conn
  PROVE  OwnSession(c) \subseteq SessId \cup {NoSess}
<1>1. CASE sessionID[c] = NoString
  BY <1>1 DEF OwnSession
<1>2. CASE sessionID[c] # NoString
  <2>1. sessionID[c].name \in Name
    BY <1>2 DEF ConnsTyped
  <2>. QED  BY <1>2, <2>1, HtFindType DEF OwnSession
<1>. QED  BY <1>1, <1>2

(* The search of a list for the number of c takes out one node, if any, and*)
(* empties a list only of one node with that number.                       *)
LEMMA WithoutShape ==
  ASSUME TableTyped, NEW s \in SessId, NEW c \in Conn
  PROVE  /\ Without(s, c) \in Seq(Conn)
         /\ \A d \in ToSet(members[s]) : socket[d] # socket[c] => d \in ToSet(Without(s, c))
         /\ members[s] # <<>> /\ Without(s, c) = <<>> =>
              \E d \in Conn : members[s] = <<d>> /\ socket[d] = socket[c]
<1>. DEFINE m == members[s]
            k == Min(Hits(s, c))
            r == RemoveAt(m, k)
            n == Len(m)
<1>1. m \in Seq(Conn) /\ n \in Nat /\ DOMAIN m = 1 .. n
  BY LenProperties DEF TableTyped
<1>2. CASE Hits(s, c) = {}
  BY <1>1, <1>2 DEF Without
<1>3. CASE Hits(s, c) # {}
  <2>1. Hits(s, c) \in SUBSET (1 .. n) /\ Hits(s, c) \in SUBSET Nat
    BY <1>1 DEF Hits
  <2>2. k \in 1 .. n /\ socket[m[k]] = socket[c]
    <3>1. k \in Hits(s, c)
      BY <1>3, <2>1, MinOfNats
    <3>. QED  BY <2>1, <3>1 DEF Hits
  <2>3. Without(s, c) = r
    BY <1>3 DEF Without
  <2>4. /\ r \in Seq(Conn) /\ Len(r) = n - 1
        /\ \A i \in 1 .. n - 1 : r[i] = IF i < k THEN m[i] ELSE m[i+1]
    BY <1>1, <2>2, RemoveAtShape
  <2>5. DOMAIN r = 1 .. n - 1
    BY <2>4, LenProperties
  <2>. HIDE DEF k, r, m
  <2>6. ASSUME NEW i \in 1 .. n, i # k  PROVE m[i] \in ToSet(r)
    <3>1. CASE i < k
      <4>1. i \in 1 .. n - 1 /\ r[i] = m[i]
        BY <1>1, <2>2, <2>4, <2>6, <3>1
      <4>. QED  BY <2>5, <4>1 DEF ToSet
    <3>2. CASE i > k
      <4>1. i - 1 \in 1 .. n - 1 /\ ~(i - 1 < k) /\ (i - 1) + 1 = i
        BY <1>1, <2>2, <2>6, <3>2
      <4>2. r[i-1] = m[i]
        BY <2>4, <4>1
      <4>. QED  BY <2>5, <4>1, <4>2 DEF ToSet
    <3>. QED  BY <1>1, <2>2, <2>6, <3>1, <3>2
  <2>7. \A d \in ToSet(m) : socket[d] # socket[c] => d \in ToSet(r)
    BY <1>1, <2>2, <2>6 DEF ToSet
  <2>8. ASSUME r = <<>>  PROVE \E d \in Conn : m = <<d>> /\ socket[d] = socket[c]
    <3>1. n = 1 /\ k = 1
      <4>1. Len(r) = 0
        BY <2>8
      <4>2. n - 1 = 0
        BY <2>4, <4>1
      <4>. HIDE DEF n
      <4>. QED  BY <1>1, <2>2, <4>2
    <3>2. m[1] \in Conn
      BY <1>1, <3>1, ElementOfSeq
    <3>3. <<m[1]>> \in Seq(Conn) /\ Len(<<m[1]>>) = 1 /\ <<m[1]>>[1] = m[1]
      BY <3>2
    <3>4. m = <<m[1]>>
      BY <1>1, <3>1, <3>3, SeqEqual
    <3>. QED  BY <2>2, <3>1, <3>2, <3>4
  <2>. QED  BY <2>3, <2>4, <2>7, <2>8 DEF m
<1>. QED  BY <1>2, <1>3

LEMMA WithoutType ==
  ASSUME TableTyped, NEW s \in SessId, NEW c \in Conn
  PROVE  Without(s, c) \in Seq(Conn)
BY WithoutShape

LEMMA NoSessNotSessId == NoSess \notin SessId
BY ServerAssumption DEF NoSess, SessId

-----------------------------------------------------------------------------
(* The table: its types and the relation of chains and list.               *)

TableInv == TypeOK /\ ChainsInOrder

(* ht_remove of a listed entry.                                            *)
LEMMA HtUnlinkKeepsTable ==
  ASSUME TableTyped, ChainsInOrder, NEW v \in SessId, HtUnlink(v)
  PROVE  /\ order' \in Seq(SessId)
         /\ chain' \in [Bucket -> Seq(SessId)]
         /\ sessName' \in [SessId -> Name \cup {NoName}]
         /\ \A s \in ToSet(order') : sessName'[s] \in Name
         /\ keyLive' \in [SessId -> BOOLEAN]
         /\ ChainsInOrder'
<1>1. /\ order' \in Seq(SessId)
      /\ ToSet(order') \subseteq ToSet(order)
      /\ \A x \in ToSet(order) : x # v => x \in ToSet(order')
  BY RemoveFirstElements DEF TableTyped, HtUnlink
<1>2. Once(order', SessId) /\ v \notin ToSet(order')
  BY RemoveFirstOnce DEF TableTyped, ChainsInOrder, HtUnlink
<1>3. \A s \in ToSet(order') : s \in SessId /\ s # v
  BY <1>1, <1>2, ElementOfSeq, LenProperties DEF ToSet
<1>4. /\ sessName' \in [SessId -> Name \cup {NoName}]
      /\ \A s \in SessId : s # v => sessName'[s] = sessName[s]
      /\ keyLive' \in [SessId -> BOOLEAN]
  BY DEF TableTyped, HtUnlink
<1>5. \A s \in ToSet(order') : sessName'[s] \in Name
  BY <1>1, <1>3, <1>4 DEF TableTyped
<1>6. chain' \in [Bucket -> Seq(SessId)]
  BY EmptySeq DEF TableTyped, HtUnlink
<1>7. ASSUME NEW b \in Bucket
      PROVE  /\ Once(chain'[b], SessId)
             /\ \A s \in ToSet(chain'[b]) : s \in ToSet(order') /\ BucketOf[sessName'[s]] = b
  <2>1. CASE v \in ToSet(chain[b])
    <3>1. chain'[b] = <<>>
      BY <2>1 DEF HtUnlink
    <3>. QED  BY <3>1 DEF Once, ToSet
  <2>2. CASE v \notin ToSet(chain[b])
    <3>1. chain'[b] = chain[b]
      BY <2>2 DEF HtUnlink
    <3>2. \A s \in ToSet(chain[b]) : s \in ToSet(order) /\ s # v
      BY <2>2 DEF ChainsInOrder
    <3>. QED
      BY <1>1, <1>3, <1>4, <3>1, <3>2 DEF ChainsInOrder
  <2>. QED  BY <2>1, <2>2
<1>. QED
  BY <1>1, <1>2, <1>4, <1>5, <1>6, <1>7 DEF ChainsInOrder

-----------------------------------------------------------------------------
(* The end of JOIN and of NEW_SESS.                                        *)

LEMMA EnterTyped ==
  ASSUME ConnsTyped, TableTyped, ChainsInOrder, NEW c \in Conn,
         want[c] \in Name, cur[c] \in SessId,
         NEW key \in SessId \cup {NoSess}, NEW ack, Enter(c, key, ack)
  PROVE  ConnsTyped' /\ TableTyped' /\ ChainsInOrder'
<1>1. [name |-> want[c], key |-> key] \in [name : Name \cup {NoName}, key : SessId \cup {NoSess}]
  OBVIOUS
<1>2. sessionID' = [sessionID EXCEPT ![c] = [name |-> want[c], key |-> key]]
  BY DEF Enter
<1>3. sessionID' \in [Conn -> [name : Name \cup {NoName}, key : SessId \cup {NoSess}]]
  BY <1>1, <1>2 DEF ConnsTyped
<1>4. \A d \in Conn : sessionID'[d] # NoString => sessionID'[d].name \in Name
  BY <1>2 DEF ConnsTyped
<1>5. ConnsTyped'
  BY <1>3, <1>4 DEF ConnsTyped, Enter
<1>6. Append(members[cur[c]], c) \in Seq(Conn)
  BY AppendElements DEF TableTyped
<1>7. members' \in [SessId -> Seq(Conn)]
  BY <1>6 DEF TableTyped, Enter
<1>8. TableTyped' /\ ChainsInOrder'
  BY <1>7 DEF TableTyped, ChainsInOrder, Enter
<1>. QED  BY <1>5, <1>8

-----------------------------------------------------------------------------
(* Every step keeps the types.                                             *)

(* Whatever a thread does next, a handler past its look-up still holds the *)
(* name and the session that the rest of it uses.                          *)
LEMMA ThreadsStep ==
  ASSUME ThreadsTyped, ConnsTyped, TableTyped, ChainsInOrder, [Next]_vars
  PROVE  ThreadsTyped'
<1>1. CASE UNCHANGED vars
  BY <1>1 DEF vars, ThreadsTyped
<1>2. ASSUME NEW c \in Conn, GetThreadInfo(c)  PROVE ThreadsTyped'
  BY <1>2 DEF GetThreadInfo, ThreadsTyped, Label, Goto, At
<1>3. ASSUME NEW c \in Conn, Accept(c)  PROVE ThreadsTyped'
  BY <1>3 DEF Accept, ThreadsTyped, Label, connVars, Goto, At
<1>4. ASSUME NEW c \in Conn, Disconnect(c) \/ Close(c)  PROVE ThreadsTyped'
  BY <1>4 DEF Disconnect, Close, ThreadsTyped, Label, connVars, Goto, At
<1>5. ASSUME NEW c \in Conn, Release(c)  PROVE ThreadsTyped'
  BY <1>5 DEF Release, ThreadsTyped, Label, Goto, At
<1>6. ASSUME NEW c \in Conn, NEW u \in User, NEW good \in BOOLEAN, LoginCheck(c, u, good)  PROVE ThreadsTyped'
  BY <1>6 DEF LoginCheck, ThreadsTyped, Label, connVars, Refuse, Goto, Receives
<1>7. ASSUME NEW c \in Conn, LoginInsert(c)  PROVE ThreadsTyped'
  BY <1>7 DEF LoginInsert, ThreadsTyped, Label, Goto, At
<1>8. ASSUME NEW c \in Conn, NEW u \in User, NEW n \in Name, JoinFind(c, u, n)  PROVE ThreadsTyped'
  BY <1>8, HtFindType DEF JoinFind, ThreadsTyped, Label, connVars, Refuse, Goto, Receives
<1>9. ASSUME NEW c \in Conn, JoinInsert(c)  PROVE ThreadsTyped'
  BY <1>9 DEF JoinInsert, Enter, ThreadsTyped, Label, connVars, Fault, Goto, At
<1>10. ASSUME NEW c \in Conn, NEW u \in User, NEW n \in Name, CreateFind(c, u, n)  PROVE ThreadsTyped'
  BY <1>10 DEF CreateFind, ThreadsTyped, Label, connVars, Refuse, Goto, Receives
<1>11. ASSUME NEW c \in Conn, CreateInsert(c)  PROVE ThreadsTyped'
  <2>. DEFINE s == CHOOSE t \in FreeEntries : TRUE
  <2>1. s \in SessId
    BY <1>11 DEF CreateInsert, FreeEntries
  <2>2. /\ pc[c] = "create"
        /\ pc' = [pc EXCEPT ![c] = "createJoin"]
        /\ cur' = [cur EXCEPT ![c] = s]
        /\ want' = want
    BY <1>11 DEF CreateInsert, At, Goto
  <2>. HIDE DEF s
  <2>. QED  BY <2>1, <2>2 DEF ThreadsTyped, Label
<1>12. ASSUME NEW c \in Conn, CreateJoin(c)  PROVE ThreadsTyped'
  BY <1>12 DEF CreateJoin, Enter, ThreadsTyped, Label, connVars, Fault, Goto, At
<1>13. ASSUME NEW c \in Conn, NEW u \in User, NEW n \in Name, LeaveFind(c, u, n)  PROVE ThreadsTyped'
  BY <1>13 DEF LeaveFind, ThreadsTyped, Label, connVars, Refuse, Goto, Receives
<1>14. ASSUME NEW c \in Conn, LeaveUnlink(c)  PROVE ThreadsTyped'
  <2>1. PICK s \in OwnSession(c) :
          \/ UNCHANGED <<pc, want, cur>>
          \/ /\ s # NoSess
             /\ cur' = [cur EXCEPT ![c] = s]
             /\ pc' = [pc EXCEPT ![c] = "leaveFree"]
             /\ want' = want
    BY <1>14 DEF LeaveUnlink, Goto, Fault
  <2>2. s \in SessId \cup {NoSess}
    BY OwnSessionType
  <2>. QED  BY <2>1, <2>2 DEF ThreadsTyped, Label
<1>15. ASSUME NEW c \in Conn, LeaveFree(c)  PROVE ThreadsTyped'
  BY <1>15 DEF LeaveFree, ThreadsTyped, Label, connVars, Fault, Goto, At
<1>16. ASSUME NEW c \in Conn, ExitStart(c)  PROVE ThreadsTyped'
  BY <1>16, HeadType DEF ExitStart, TableTyped, ThreadsTyped, Label, connVars, Goto, Receives
<1>17. ASSUME NEW c \in Conn, ExitVisit(c)  PROVE ThreadsTyped'
  <2>1. CASE UNCHANGED <<pc, want, cur>>
    BY <2>1 DEF ThreadsTyped
  <2>2. CASE \E v : /\ cur' = [cur EXCEPT ![c] =
                           NextIn(IF v = cur[c] THEN order ELSE RemoveFirst(order, v), cur[c])]
                   /\ UNCHANGED <<pc, want>>
    <3>1. PICK v : /\ cur' = [cur EXCEPT ![c] =
                           NextIn(IF v = cur[c] THEN order ELSE RemoveFirst(order, v), cur[c])]
                   /\ UNCHANGED <<pc, want>>
      BY <2>2
    <3>2. (IF v = cur[c] THEN order ELSE RemoveFirst(order, v)) \in Seq(SessId)
      BY RemoveFirstElements DEF TableTyped
    <3>3. cur'[c] \in SessId \cup {NoSess}
      BY <3>1, <3>2, NextInType DEF ThreadsTyped
    <3>4. pc[c] = "exit"
      BY <1>17 DEF ExitVisit, At
    <3>. QED  BY <3>1, <3>3, <3>4 DEF ThreadsTyped
  <2>. QED  BY <1>17, <2>1, <2>2 DEF ExitVisit, ExitNext, Fault
<1>18. ASSUME NEW c \in Conn, ExitLogin(c)  PROVE ThreadsTyped'
  BY <1>18 DEF ExitLogin, ThreadsTyped, Label, connVars, Fault, Goto, At
<1>19. ASSUME NEW c \in Conn, NEW u \in User, QueryStart(c, u)  PROVE ThreadsTyped'
  <2>. DEFINE first == IF order = <<>> THEN NoSess ELSE Head(order)
  <2>1. first \in SessId \cup {NoSess}
    BY HeadType DEF TableTyped
  <2>2. \/ UNCHANGED <<pc, want, cur>>
        \/ /\ pc' = [pc EXCEPT ![c] = "query"]
           /\ cur' = [cur EXCEPT ![c] = first]
           /\ want' = want
    BY <1>19 DEF QueryStart, Goto, Refuse
  <2>. HIDE DEF first
  <2>. QED  BY <2>1, <2>2 DEF ThreadsTyped, Label
<1>20. ASSUME NEW c \in Conn, QueryVisit(c)  PROVE ThreadsTyped'
  <2>1. pc[c] = "query" /\ UNCHANGED <<pc, want>>
    BY <1>20 DEF QueryVisit, At, Fault
  <2>2. cur' = cur \/ cur' = [cur EXCEPT ![c] = NextIn(order, cur[c])]
    BY <1>20 DEF QueryVisit, Fault
  <2>3. NextIn(order, cur[c]) \in SessId \cup {NoSess}
    BY NextInType DEF TableTyped
  <2>. QED  BY <2>1, <2>2, <2>3 DEF ThreadsTyped
<1>21. ASSUME NEW c \in Conn, QueryReply(c)  PROVE ThreadsTyped'
  BY <1>21 DEF QueryReply, ThreadsTyped, Label, connVars, Goto, At
<1>22. ASSUME NEW c \in Conn, NEW u \in User, NEW n \in Name, Message(c, u, n)  PROVE ThreadsTyped'
  BY <1>22 DEF Message, ThreadsTyped, Label, connVars, Refuse, Fault, Receives
<1>. QED
  BY <1>1, <1>2, <1>3, <1>4, <1>5, <1>6, <1>7, <1>8, <1>9, <1>10, <1>11, <1>12, <1>13, <1>14, <1>15, <1>16, <1>17, <1>18, <1>19, <1>20, <1>21, <1>22 DEF Next

(* The fields of the ThreadInfo blocks, and the list they are in, keep     *)
(* their types.                                                            *)
LEMMA ConnsStep ==
  ASSUME ThreadsTyped, ConnsTyped, TableTyped, ChainsInOrder, [Next]_vars
  PROVE  ConnsTyped'
<1>1. CASE UNCHANGED vars
  BY <1>1 DEF vars, connVars, tableVars, ConnsTyped
<1>2. ASSUME NEW c \in Conn, GetThreadInfo(c)  PROVE ConnsTyped'
  BY <1>2, AppendElements DEF GetThreadInfo, NoString, ConnsTyped
<1>3. ASSUME NEW c \in Conn, Accept(c)  PROVE ConnsTyped'
  BY <1>3 DEF Accept, ConnsTyped
<1>4. ASSUME NEW c \in Conn, Disconnect(c) \/ Close(c)  PROVE ConnsTyped'
  BY <1>4 DEF Close, Disconnect, ConnsTyped, connVars
<1>5. ASSUME NEW c \in Conn, Release(c)  PROVE ConnsTyped'
  BY <1>5, RemoveFirstElements DEF Release, NoString, ConnsTyped
<1>6. ASSUME NEW c \in Conn, NEW u \in User, NEW good \in BOOLEAN, LoginCheck(c, u, good)  PROVE ConnsTyped'
  BY <1>6 DEF LoginCheck, ConnsTyped, Refuse, connVars
<1>7. ASSUME NEW c \in Conn, LoginInsert(c)  PROVE ConnsTyped'
  BY <1>7, AppendElements DEF LoginInsert, At, ThreadsTyped, ConnsTyped
<1>8. ASSUME NEW c \in Conn, NEW u \in User, NEW n \in Name, JoinFind(c, u, n)  PROVE ConnsTyped'
  BY <1>8 DEF JoinFind, ConnsTyped, Refuse, connVars
<1>9. ASSUME NEW c \in Conn, JoinInsert(c)  PROVE ConnsTyped'
  <2>1. CASE Enter(c, NoSess, "JN_ACK")
    BY <1>9, <2>1, EnterTyped DEF JoinInsert, At, ThreadsTyped
  <2>2. CASE Fault("freed")
    BY <2>2 DEF Fault, connVars, tableVars, ConnsTyped, TableTyped, ChainsInOrder
  <2>. QED  BY <1>9, <2>1, <2>2 DEF JoinInsert
<1>10. ASSUME NEW c \in Conn, NEW u \in User, NEW n \in Name, CreateFind(c, u, n)  PROVE ConnsTyped'
  BY <1>10 DEF CreateFind, ConnsTyped, Refuse, connVars
<1>11. ASSUME NEW c \in Conn, CreateInsert(c)  PROVE ConnsTyped'
  BY <1>11 DEF CreateInsert, ConnsTyped, connVars
<1>12. ASSUME NEW c \in Conn, CreateJoin(c)  PROVE ConnsTyped'
  <2>1. CASE Enter(c, cur[c], "NS_ACK")
    BY <1>12, <2>1, EnterTyped DEF CreateJoin, At, ThreadsTyped
  <2>2. CASE Fault("freed")
    BY <2>2 DEF Fault, connVars, tableVars, ConnsTyped, TableTyped, ChainsInOrder
  <2>. QED  BY <1>12, <2>1, <2>2 DEF CreateJoin
<1>13. ASSUME NEW c \in Conn, NEW u \in User, NEW n \in Name, LeaveFind(c, u, n)  PROVE ConnsTyped'
  BY <1>13 DEF LeaveFind, ConnsTyped, Refuse, connVars
<1>14. ASSUME NEW c \in Conn, LeaveUnlink(c)  PROVE ConnsTyped'
  <2>1. CASE UNCHANGED connVars
    BY <2>1 DEF connVars, ConnsTyped
  <2>2. CASE /\ sessionID' = [sessionID EXCEPT ![c] = NoString]
             /\ UNCHANGED <<clientID, connections, socket>>
    <3>1. NoString \in [name : Name \cup {NoName}, key : SessId \cup {NoSess}]
      BY DEF NoString
    <3>2. sessionID' \in [Conn -> [name : Name \cup {NoName}, key : SessId \cup {NoSess}]]
      BY <2>2, <3>1 DEF ConnsTyped
    <3>3. \A d \in Conn : sessionID'[d] # NoString => sessionID'[d].name \in Name
      BY <2>2 DEF ConnsTyped
    <3>. QED  BY <2>2, <3>2, <3>3 DEF ConnsTyped
  <2>. QED  BY <1>14, <2>1, <2>2 DEF LeaveUnlink, Fault
<1>15. ASSUME NEW c \in Conn, LeaveFree(c)  PROVE ConnsTyped'
  BY <1>15 DEF LeaveFree, ConnsTyped, Fault, connVars
<1>16. ASSUME NEW c \in Conn, ExitStart(c)  PROVE ConnsTyped'
  BY <1>16 DEF ExitStart, ConnsTyped, connVars
<1>17. ASSUME NEW c \in Conn, ExitVisit(c)  PROVE ConnsTyped'
  BY <1>17 DEF ExitVisit, ConnsTyped, Fault, connVars
<1>18. ASSUME NEW c \in Conn, ExitLogin(c)  PROVE ConnsTyped'
  BY <1>18, RemoveFirstElements DEF ExitLogin, ConnsTyped, Fault, connVars
<1>19. ASSUME NEW c \in Conn, NEW u \in User, QueryStart(c, u)  PROVE ConnsTyped'
  BY <1>19 DEF QueryStart, ConnsTyped, Refuse, connVars
<1>20. ASSUME NEW c \in Conn, QueryVisit(c)  PROVE ConnsTyped'
  BY <1>20 DEF QueryVisit, ConnsTyped, Fault, connVars
<1>21. ASSUME NEW c \in Conn, QueryReply(c)  PROVE ConnsTyped'
  BY <1>21 DEF QueryReply, ConnsTyped, connVars
<1>22. ASSUME NEW c \in Conn, NEW u \in User, NEW n \in Name, Message(c, u, n)  PROVE ConnsTyped'
  BY <1>22 DEF Message, ConnsTyped, Refuse, Fault, connVars
<1>. QED
  BY <1>1, <1>2, <1>3, <1>4, <1>5, <1>6, <1>7, <1>8, <1>9, <1>10, <1>11, <1>12, <1>13, <1>14, <1>15, <1>16, <1>17, <1>18, <1>19, <1>20, <1>21, <1>22 DEF Next

(* The table keeps its types, and its buckets stay inside its list: an     *)
(* entry enters both in one ht_insert, and ht_remove clears the bucket of  *)
(* what it frees.                                                          *)
LEMMA TableStep ==
  ASSUME ThreadsTyped, ConnsTyped, TableTyped, ChainsInOrder, [Next]_vars
  PROVE  TableTyped' /\ ChainsInOrder'
<1>1. CASE UNCHANGED vars
  BY <1>1 DEF vars, connVars, tableVars, TableTyped, ChainsInOrder
<1>2. ASSUME NEW c \in Conn, GetThreadInfo(c)  PROVE TableTyped' /\ ChainsInOrder'
  BY <1>2 DEF GetThreadInfo, TableTyped, ChainsInOrder, tableVars
<1>3. ASSUME NEW c \in Conn, Accept(c)  PROVE TableTyped' /\ ChainsInOrder'
  BY <1>3 DEF Accept, TableTyped, ChainsInOrder, tableVars
<1>4. ASSUME NEW c \in Conn, Disconnect(c) \/ Close(c)  PROVE TableTyped' /\ ChainsInOrder'
  BY <1>4 DEF Close, Disconnect, TableTyped, ChainsInOrder, tableVars
<1>5. ASSUME NEW c \in Conn, Release(c)  PROVE TableTyped' /\ ChainsInOrder'
  BY <1>5 DEF Release, TableTyped, ChainsInOrder, tableVars
<1>6. ASSUME NEW c \in Conn, NEW u \in User, NEW good \in BOOLEAN, LoginCheck(c, u, good)  PROVE TableTyped' /\ ChainsInOrder'
  BY <1>6 DEF LoginCheck, TableTyped, ChainsInOrder, Refuse, tableVars
<1>7. ASSUME NEW c \in Conn, LoginInsert(c)  PROVE TableTyped' /\ ChainsInOrder'
  BY <1>7 DEF LoginInsert, TableTyped, ChainsInOrder, tableVars
<1>8. ASSUME NEW c \in Conn, NEW u \in User, NEW n \in Name, JoinFind(c, u, n)  PROVE TableTyped' /\ ChainsInOrder'
  BY <1>8 DEF JoinFind, TableTyped, ChainsInOrder, Refuse, tableVars
<1>9. ASSUME NEW c \in Conn, JoinInsert(c)  PROVE TableTyped' /\ ChainsInOrder'
  <2>1. CASE Enter(c, NoSess, "JN_ACK")
    BY <1>9, <2>1, EnterTyped DEF JoinInsert, At, ThreadsTyped
  <2>2. CASE Fault("freed")
    BY <2>2 DEF Fault, connVars, tableVars, ConnsTyped, TableTyped, ChainsInOrder
  <2>. QED  BY <1>9, <2>1, <2>2 DEF JoinInsert
<1>10. ASSUME NEW c \in Conn, NEW u \in User, NEW n \in Name, CreateFind(c, u, n)  PROVE TableTyped' /\ ChainsInOrder'
  BY <1>10 DEF CreateFind, TableTyped, ChainsInOrder, Refuse, tableVars
<1>11. ASSUME NEW c \in Conn, CreateInsert(c)  PROVE TableTyped' /\ ChainsInOrder'
  <2>. DEFINE s == CHOOSE t \in FreeEntries : TRUE
              b == BucketOf[want[c]]
  <2>1. s \in SessId /\ s \notin ToSet(order)
    BY <1>11 DEF CreateInsert, FreeEntries
  <2>2. want[c] \in Name /\ b \in Bucket
    BY <1>11 DEF CreateInsert, At, ThreadsTyped, Bucket
  <2>3. /\ order' = Append(order, s)
        /\ chain' = [chain EXCEPT ![b] = Append(@, s)]
        /\ sessName' = [sessName EXCEPT ![s] = want[c]]
        /\ keyLive' = [keyLive EXCEPT ![s] = TRUE]
        /\ members' = [members EXCEPT ![s] = <<>>]
        /\ listLive' = [listLive EXCEPT ![s] = TRUE]
    BY <1>11 DEF CreateInsert
  <2>. HIDE DEF s, b
  <2>4. /\ order' \in Seq(SessId)
        /\ ToSet(order') = ToSet(order) \cup {s}
        /\ Once(order', SessId)
    BY <2>1, <2>3, AppendElements, AppendOnce DEF TableTyped, ChainsInOrder
  <2>5. ASSUME NEW d \in Bucket
        PROVE  /\ chain'[d] \in Seq(SessId)
               /\ Once(chain'[d], SessId)
               /\ \A t \in ToSet(chain'[d]) : t \in ToSet(order') /\ BucketOf[sessName'[t]] = d
    <3>0. /\ chain[d] \in Seq(SessId)
          /\ Once(chain[d], SessId)
          /\ \A t \in ToSet(chain[d]) : t \in ToSet(order) /\ BucketOf[sessName[t]] = d
      BY DEF TableTyped, ChainsInOrder
    <3>1. \A t \in ToSet(chain[d]) : t # s /\ sessName'[t] = sessName[t]
      BY <2>1, <2>3, <3>0 DEF TableTyped
    <3>2. CASE d = b
      <4>1. chain'[d] = Append(chain[d], s)
        BY <2>2, <2>3, <3>2 DEF TableTyped
      <4>2. sessName'[s] = want[c]
        BY <2>1, <2>3 DEF TableTyped
      <4>3. /\ Append(chain[d], s) \in Seq(SessId)
            /\ ToSet(Append(chain[d], s)) = ToSet(chain[d]) \cup {s}
            /\ Once(Append(chain[d], s), SessId)
        BY <2>1, <3>0, <3>1, AppendElements, AppendOnce
      <4>4. BucketOf[sessName'[s]] = d
        BY <3>2, <4>2 DEF b
      <4>. QED  BY <2>4, <3>0, <3>1, <4>1, <4>3, <4>4
    <3>3. CASE d # b
      <4>1. chain'[d] = chain[d]
        BY <2>2, <2>3, <3>3 DEF TableTyped
      <4>. QED  BY <2>4, <3>0, <3>1, <4>1
    <3>. QED  BY <3>2, <3>3
  <2>6. chain' \in [Bucket -> Seq(SessId)]
    BY <2>3, <2>5 DEF TableTyped
  <2>7. \A t \in ToSet(order') : sessName'[t] \in Name
    BY <2>1, <2>2, <2>3, <2>4, ElementOfSeq, LenProperties DEF TableTyped, ToSet
  <2>8. members' \in [SessId -> Seq(Conn)]
    BY <2>3, EmptySeq DEF TableTyped
  <2>. QED  BY <2>1, <2>2, <2>3, <2>4, <2>5, <2>6, <2>7, <2>8 DEF TableTyped, ChainsInOrder
<1>12. ASSUME NEW c \in Conn, CreateJoin(c)  PROVE TableTyped' /\ ChainsInOrder'
  <2>1. CASE Enter(c, cur[c], "NS_ACK")
    BY <1>12, <2>1, EnterTyped DEF CreateJoin, At, ThreadsTyped
  <2>2. CASE Fault("freed")
    BY <2>2 DEF Fault, connVars, tableVars, ConnsTyped, TableTyped, ChainsInOrder
  <2>. QED  BY <1>12, <2>1, <2>2 DEF CreateJoin
<1>13. ASSUME NEW c \in Conn, NEW u \in User, NEW n \in Name, LeaveFind(c, u, n)  PROVE TableTyped' /\ ChainsInOrder'
  BY <1>13 DEF LeaveFind, TableTyped, ChainsInOrder, Refuse, tableVars
<1>14. ASSUME NEW c \in Conn, LeaveUnlink(c)  PROVE TableTyped' /\ ChainsInOrder'
  <2>1. CASE UNCHANGED tableVars
    BY <2>1 DEF tableVars, TableTyped, ChainsInOrder
  <2>2. ASSUME NEW s \in OwnSession(c), s # NoSess,
               members' = [members EXCEPT ![s] = Without(s, c)],
               keyLive' = [t \in SessId |-> keyLive[t] /\ sessionID[c].key # t],
               UNCHANGED <<order, chain, sessName, listLive>>
        PROVE  TableTyped' /\ ChainsInOrder'
    <3>1. s \in SessId
      BY <2>2, OwnSessionType
    <3>2. members' \in [SessId -> Seq(Conn)]
      BY <2>2, <3>1, WithoutType DEF TableTyped
    <3>3. keyLive' \in [SessId -> BOOLEAN]
      BY <2>2 DEF TableTyped
    <3>. QED  BY <2>2, <3>2, <3>3 DEF TableTyped, ChainsInOrder
  <2>. QED  BY <1>14, <2>1, <2>2 DEF LeaveUnlink, Fault, tableVars
<1>15. ASSUME NEW c \in Conn, LeaveFree(c)  PROVE TableTyped' /\ ChainsInOrder'
  BY <1>15 DEF LeaveFree, At, ThreadsTyped, TableTyped, ChainsInOrder, Fault, tableVars
<1>16. ASSUME NEW c \in Conn, ExitStart(c)  PROVE TableTyped' /\ ChainsInOrder'
  BY <1>16 DEF ExitStart, TableTyped, ChainsInOrder, tableVars
<1>17. ASSUME NEW c \in Conn, ExitVisit(c)  PROVE TableTyped' /\ ChainsInOrder'
  <2>1. CASE UNCHANGED tableVars
    BY <2>1 DEF tableVars, TableTyped, ChainsInOrder
  <2>. DEFINE s == cur[c]
  <2>2. ASSUME s \in ToSet(order),
               NEW v \in HtFind(sessName[s]) \cup {NoSess},
               IF v = NoSess THEN UNCHANGED <<order, chain, sessName, keyLive>>
                             ELSE HtUnlink(v),
               members' = [members EXCEPT ![s] = Without(s, c)],
               listLive' = listLive
        PROVE  TableTyped' /\ ChainsInOrder'
    <3>1. s \in SessId /\ sessName[s] \in Name
      BY <2>2, ElementOfSeq, LenProperties DEF TableTyped, ToSet
    <3>2. members' \in [SessId -> Seq(Conn)]
      BY <2>2, <3>1, WithoutType DEF TableTyped
    <3>3. CASE v = NoSess
      BY <2>2, <3>2, <3>3 DEF TableTyped, ChainsInOrder
    <3>4. CASE v # NoSess
      <4>1. v \in SessId
        BY <2>2, <3>1, <3>4, HtFindType
      <4>2. HtUnlink(v)
        BY <2>2, <3>4
      <4>. QED
        BY <2>2, <3>2, <4>1, <4>2, HtUnlinkKeepsTable DEF TableTyped
    <3>. QED  BY <3>3, <3>4
  <2>. QED  BY <1>17, <2>1, <2>2 DEF ExitVisit, Fault, tableVars
<1>18. ASSUME NEW c \in Conn, ExitLogin(c)  PROVE TableTyped' /\ ChainsInOrder'
  BY <1>18 DEF ExitLogin, TableTyped, ChainsInOrder, Fault, tableVars
<1>19. ASSUME NEW c \in Conn, NEW u \in User, QueryStart(c, u)  PROVE TableTyped' /\ ChainsInOrder'
  BY <1>19 DEF QueryStart, TableTyped, ChainsInOrder, Refuse, tableVars
<1>20. ASSUME NEW c \in Conn, QueryVisit(c)  PROVE TableTyped' /\ ChainsInOrder'
  BY <1>20 DEF QueryVisit, TableTyped, ChainsInOrder, Fault, tableVars
<1>21. ASSUME NEW c \in Conn, QueryReply(c)  PROVE TableTyped' /\ ChainsInOrder'
  BY <1>21 DEF QueryReply, TableTyped, ChainsInOrder, tableVars
<1>22. ASSUME NEW c \in Conn, NEW u \in User, NEW n \in Name, Message(c, u, n)  PROVE TableTyped' /\ ChainsInOrder'
  BY <1>22 DEF Message, TableTyped, ChainsInOrder, Refuse, Fault, tableVars
<1>. QED
  BY <1>1, <1>2, <1>3, <1>4, <1>5, <1>6, <1>7, <1>8, <1>9, <1>10, <1>11, <1>12, <1>13, <1>14, <1>15, <1>16, <1>17, <1>18, <1>19, <1>20, <1>21, <1>22 DEF Next

(* The kind of fault and the packets sent.                                 *)
LEMMA OutTyped ==
  ASSUME TypeOK, ChainsInOrder, [Next]_vars
  PROVE  fault' \in {"none", "null", "freed"} /\ out' \subseteq [to : Socket \cup {NoSocket}, type : Replies]
<1>. USE DEF TypeOK
<1>1. CASE UNCHANGED <<fault, out>>
  BY <1>1
<1>2. ASSUME NEW c \in Conn, NEW kind \in {"null", "freed"}, Fault(kind)
      PROVE  fault' \in {"none", "null", "freed"} /\ out' \subseteq [to : Socket \cup {NoSocket}, type : Replies]
  BY <1>2 DEF Fault, Silent
<1>3. CASE UNCHANGED fault /\ Silent
  BY <1>3 DEF Silent
<1>4. ASSUME NEW c \in Conn, NEW t \in Replies, UNCHANGED fault, Reply(c, t)
      PROVE  fault' \in {"none", "null", "freed"} /\ out' \subseteq [to : Socket \cup {NoSocket}, type : Replies]
  BY <1>4 DEF Reply, Packet, ConnsTyped
<1>5. ASSUME NEW c \in Conn, GetThreadInfo(c)
       PROVE  fault' \in {"none", "null", "freed"} /\ out' \subseteq [to : Socket \cup {NoSocket}, type : Replies]
  BY <1>5, <1>2, <1>3, <1>4 DEF GetThreadInfo, Refuse, Enter, Replies
<1>6. ASSUME NEW c \in Conn, Accept(c)
       PROVE  fault' \in {"none", "null", "freed"} /\ out' \subseteq [to : Socket \cup {NoSocket}, type : Replies]
  BY <1>6, <1>2, <1>3, <1>4 DEF Accept, Refuse, Enter, Replies
<1>7. ASSUME NEW c \in Conn, Disconnect(c) \/ Close(c)
       PROVE  fault' \in {"none", "null", "freed"} /\ out' \subseteq [to : Socket \cup {NoSocket}, type : Replies]
  BY <1>7, <1>2, <1>3, <1>4 DEF Disconnect, Close, Refuse, Enter, Replies
<1>8. ASSUME NEW c \in Conn, Release(c)
       PROVE  fault' \in {"none", "null", "freed"} /\ out' \subseteq [to : Socket \cup {NoSocket}, type : Replies]
  BY <1>8, <1>2, <1>3, <1>4 DEF Release, Refuse, Enter, Replies
<1>9. ASSUME NEW c \in Conn, NEW u \in User, NEW good \in BOOLEAN, LoginCheck(c, u, good)
       PROVE  fault' \in {"none", "null", "freed"} /\ out' \subseteq [to : Socket \cup {NoSocket}, type : Replies]
  BY <1>9, <1>2, <1>3, <1>4 DEF LoginCheck, Refuse, Enter, Replies
<1>10. ASSUME NEW c \in Conn, LoginInsert(c)
       PROVE  fault' \in {"none", "null", "freed"} /\ out' \subseteq [to : Socket \cup {NoSocket}, type : Replies]
  BY <1>10, <1>2, <1>3, <1>4 DEF LoginInsert, Refuse, Enter, Replies
<1>11. ASSUME NEW c \in Conn, NEW u \in User, NEW n \in Name, JoinFind(c, u, n)
       PROVE  fault' \in {"none", "null", "freed"} /\ out' \subseteq [to : Socket \cup {NoSocket}, type : Replies]
  BY <1>11, <1>2, <1>3, <1>4 DEF JoinFind, Refuse, Enter, Replies
<1>12. ASSUME NEW c \in Conn, JoinInsert(c)
       PROVE  fault' \in {"none", "null", "freed"} /\ out' \subseteq [to : Socket \cup {NoSocket}, type : Replies]
  BY <1>12, <1>2, <1>3, <1>4 DEF JoinInsert, Refuse, Enter, Replies
<1>13. ASSUME NEW c \in Conn, NEW u \in User, NEW n \in Name, CreateFind(c, u, n)
       PROVE  fault' \in {"none", "null", "freed"} /\ out' \subseteq [to : Socket \cup {NoSocket}, type : Replies]
  BY <1>13, <1>2, <1>3, <1>4 DEF CreateFind, Refuse, Enter, Replies
<1>14. ASSUME NEW c \in Conn, CreateInsert(c)
       PROVE  fault' \in {"none", "null", "freed"} /\ out' \subseteq [to : Socket \cup {NoSocket}, type : Replies]
  BY <1>14, <1>2, <1>3, <1>4 DEF CreateInsert, Refuse, Enter, Replies
<1>15. ASSUME NEW c \in Conn, CreateJoin(c)
       PROVE  fault' \in {"none", "null", "freed"} /\ out' \subseteq [to : Socket \cup {NoSocket}, type : Replies]
  BY <1>15, <1>2, <1>3, <1>4 DEF CreateJoin, Refuse, Enter, Replies
<1>16. ASSUME NEW c \in Conn, NEW u \in User, NEW n \in Name, LeaveFind(c, u, n)
       PROVE  fault' \in {"none", "null", "freed"} /\ out' \subseteq [to : Socket \cup {NoSocket}, type : Replies]
  BY <1>16, <1>2, <1>3, <1>4 DEF LeaveFind, Refuse, Enter, Replies
<1>17. ASSUME NEW c \in Conn, LeaveUnlink(c)
       PROVE  fault' \in {"none", "null", "freed"} /\ out' \subseteq [to : Socket \cup {NoSocket}, type : Replies]
  BY <1>17, <1>2, <1>3, <1>4 DEF LeaveUnlink, Refuse, Enter, Replies
<1>18. ASSUME NEW c \in Conn, LeaveFree(c)
       PROVE  fault' \in {"none", "null", "freed"} /\ out' \subseteq [to : Socket \cup {NoSocket}, type : Replies]
  BY <1>18, <1>2, <1>3, <1>4 DEF LeaveFree, Refuse, Enter, Replies
<1>19. ASSUME NEW c \in Conn, ExitStart(c)
       PROVE  fault' \in {"none", "null", "freed"} /\ out' \subseteq [to : Socket \cup {NoSocket}, type : Replies]
  BY <1>19, <1>2, <1>3, <1>4 DEF ExitStart, Refuse, Enter, Replies
<1>20. ASSUME NEW c \in Conn, ExitVisit(c)
       PROVE  fault' \in {"none", "null", "freed"} /\ out' \subseteq [to : Socket \cup {NoSocket}, type : Replies]
  BY <1>20, <1>2, <1>3 DEF ExitVisit, ExitNext, Silent
<1>21. ASSUME NEW c \in Conn, ExitLogin(c)
       PROVE  fault' \in {"none", "null", "freed"} /\ out' \subseteq [to : Socket \cup {NoSocket}, type : Replies]
  BY <1>21, <1>2, <1>3, <1>4 DEF ExitLogin, Refuse, Enter, Replies
<1>22. ASSUME NEW c \in Conn, NEW u \in User, QueryStart(c, u)
       PROVE  fault' \in {"none", "null", "freed"} /\ out' \subseteq [to : Socket \cup {NoSocket}, type : Replies]
  BY <1>22, <1>2, <1>3, <1>4 DEF QueryStart, Refuse, Enter, Replies
<1>23. ASSUME NEW c \in Conn, QueryVisit(c)
       PROVE  fault' \in {"none", "null", "freed"} /\ out' \subseteq [to : Socket \cup {NoSocket}, type : Replies]
  BY <1>23, <1>2, <1>3, <1>4 DEF QueryVisit, Refuse, Enter, Replies
<1>24. ASSUME NEW c \in Conn, QueryReply(c)
       PROVE  fault' \in {"none", "null", "freed"} /\ out' \subseteq [to : Socket \cup {NoSocket}, type : Replies]
  BY <1>24, <1>2, <1>3, <1>4 DEF QueryReply, Refuse, Enter, Replies
<1>25. ASSUME NEW c \in Conn, NEW u \in User, NEW n \in Name, Message(c, u, n)
       PROVE  fault' \in {"none", "null", "freed"} /\ out' \subseteq [to : Socket \cup {NoSocket}, type : Replies]
  <2>1. ASSUME NEW s \in SessId,
               NEW others \in SUBSET ToSet(members[s]),
               out' = {Packet(d, "MESSAGE") : d \in others} \cup {Packet(c, "MESSAGE_ACK")}
        PROVE  out' \subseteq [to : Socket \cup {NoSocket}, type : Replies]
    <3>1. ToSet(members[s]) \subseteq Conn
      BY ElementOfSeq, LenProperties DEF TableTyped, ToSet
    <3>2. \A d \in others \cup {c} : socket[d] \in Socket \cup {NoSocket}
      BY <3>1 DEF ConnsTyped
    <3>. QED  BY <2>1, <3>2 DEF Packet, Replies
  <2>2. \A s \in HtFind(n) : s # NoSess => s \in SessId
    BY HtFindType
  <2>3. \A s : {d \in ToSet(members[s]) : socket[d] # socket[c]} \in SUBSET ToSet(members[s])
    OBVIOUS
  <2>4. \/ \E t \in Replies : UNCHANGED fault /\ Reply(c, t)
        \/ Fault("freed")
        \/ /\ UNCHANGED fault
           /\ \E s \in HtFind(n) :
                /\ s # NoSess
                /\ out' = {Packet(d, "MESSAGE") : d \in {e \in ToSet(members[s]) : socket[e] # socket[c]}}
                            \cup {Packet(c, "MESSAGE_ACK")}
    BY <1>25 DEF Message, Refuse, Replies
  <2>. QED  BY <1>2, <1>4, <2>1, <2>2, <2>3, <2>4
<1>. QED
  BY <1>1, <1>5, <1>6, <1>7, <1>8, <1>9, <1>10, <1>11, <1>12, <1>13, <1>14, <1>15, <1>16, <1>17, <1>18, <1>19, <1>20, <1>21, <1>22, <1>23, <1>24, <1>25 DEF Next, vars

(* The initial state has every type and an empty table.                    *)
LEMMA TableInit == Init => TableInv
<1>. SUFFICES ASSUME Init  PROVE TableInv
  OBVIOUS
<1>. USE DEF Init
<1>1. ThreadsTyped
  BY DEF ThreadsTyped, Label
<1>2. ConnsTyped
  <2>1. NoString \in [name : Name \cup {NoName}, key : SessId \cup {NoSess}]
    BY DEF NoString
  <2>. QED  BY <2>1, EmptySeq DEF ConnsTyped
<1>3. TableTyped /\ ChainsInOrder
  BY EmptySeq DEF TableTyped, ChainsInOrder, ToSet, Once
<1>. QED
  BY <1>1, <1>2, <1>3 DEF TypeOK, TableInv

(* TypeOK is not inductive alone: that a walk over the table ends up in an *)
(* entry with a name rests on what the buckets reach being listed.         *)
LEMMA TableInvStep == TableInv /\ [Next]_vars => TableInv'
BY ThreadsStep, ConnsStep, TableStep, OutTyped DEF TableInv, TypeOK

(* TypeOK and ChainsInOrder hold together.                                 *)
LEMMA TableInvariant == Spec => []TableInv
<1>. QED  BY TableInit, TableInvStep, PTL DEF Spec

(* Every variable keeps its type, however the handlers interleave, freed   *)
(* memory included.                                                        *)
THEOREM TypeCorrect == Spec => []TypeOK
<1>1. TableInv => TypeOK
  BY DEF TableInv
<1>. QED  BY <1>1, TableInvariant, PTL

(* No look-up of ht_find or ht_remove reaches a freed entry: whatever is in*)
(* a bucket is listed, once, in the bucket of its name, for any placement  *)
(* of the names and whatever handlers run between two calls on the table   *)
(* (a call is one step: two that overlap are not covered).                 *)
THEOREM ChainsCorrect == Spec => []ChainsInOrder
<1>1. TableInv => ChainsInOrder
  BY DEF TableInv
<1>. QED  BY <1>1, TableInvariant, PTL

-----------------------------------------------------------------------------
(* The list `connections'.                                                 *)

(* The list is empty and no block is allocated.                            *)
LEMMA BlocksInit == Init => BlocksListed
BY DEF Init, BlocksListed, Live, Once, ToSet

(* Logins come and go in the same list, and no step of theirs touches a    *)
(* block.                                                                  *)
LEMMA BlocksStep ==
  ASSUME TypeOK, BlocksListed, [Next]_vars
  PROVE  BlocksListed'
<1>1. CASE UNCHANGED vars
  BY <1>1 DEF vars, connVars, BlocksListed, Live
<1>2. ASSUME NEW c \in Conn, GetThreadInfo(c)  PROVE BlocksListed'
  <2>1. pc[c] = "free" /\ pc' = [pc EXCEPT ![c] = "accept"] /\ connections' = Append(connections, c)
    BY <1>2 DEF GetThreadInfo, At, Goto
  <2>2. c \notin ToSet(connections)
    BY <2>1 DEF BlocksListed, Live
  <2>3. ToSet(connections') = ToSet(connections) \cup {c} /\ Once(connections', Conn)
    BY <2>1, <2>2, AppendElements, AppendOnce DEF BlocksListed, TypeOK, ConnsTyped
  <2>4. \A d \in Conn : Live(d)' <=> d = c \/ Live(d)
    BY <2>1 DEF Live, TypeOK, ThreadsTyped
  <2>. QED  BY <2>3, <2>4 DEF BlocksListed
<1>3. ASSUME NEW c \in Conn, Accept(c)  PROVE BlocksListed'
  BY <1>3 DEF Accept, TypeOK, BlocksListed, Live, ThreadsTyped, Goto, At, connVars
<1>4. ASSUME NEW c \in Conn, Disconnect(c) \/ Close(c)  PROVE BlocksListed'
  BY <1>4 DEF Close, Disconnect, TypeOK, BlocksListed, Live, ThreadsTyped, Goto, At, connVars
<1>5. ASSUME NEW c \in Conn, Release(c)  PROVE BlocksListed'
  <2>1. pc' = [pc EXCEPT ![c] = "free"] /\ connections' = RemoveFirst(connections, c)
    BY <1>5 DEF Release, Goto
  <2>2. /\ ToSet(connections') \subseteq ToSet(connections)
        /\ \A x \in ToSet(connections) : x # c => x \in ToSet(connections')
    BY <2>1, RemoveFirstElements DEF TypeOK, ConnsTyped
  <2>3. Once(connections', Conn) /\ c \notin ToSet(connections')
    BY <2>1, RemoveFirstOnce DEF BlocksListed, TypeOK, ConnsTyped
  <2>4. \A d \in Conn : Live(d)' <=> d # c /\ Live(d)
    BY <2>1 DEF Live, TypeOK, ThreadsTyped
  <2>. QED  BY <2>2, <2>3, <2>4 DEF BlocksListed
<1>6. ASSUME NEW c \in Conn, NEW u \in User, NEW good \in BOOLEAN, LoginCheck(c, u, good)  PROVE BlocksListed'
  BY <1>6 DEF LoginCheck, TypeOK, BlocksListed, Live, ThreadsTyped, Goto, Receives, Refuse, connVars
<1>7. ASSUME NEW c \in Conn, LoginInsert(c)  PROVE BlocksListed'
  <2>1. /\ pc[c] = "login" /\ pc' = [pc EXCEPT ![c] = "recv"]
        /\ connections' = Append(connections, want[c])
        /\ want[c] \in User
    BY <1>7 DEF LoginInsert, At, Goto, TypeOK, ThreadsTyped
  <2>2. want[c] \notin Conn
    BY <2>1, ServerAssumption
  <2>5. want[c] \in Conn \cup User /\ connections \in Seq(Conn \cup User)
    BY <2>1 DEF TypeOK, ConnsTyped
  <2>6. ToSet(connections') = ToSet(connections) \cup {want[c]}
    BY <2>1, <2>5, AppendElements
  <2>7. Once(connections', Conn)
    BY <2>1, <2>2, <2>5, AppendOnce DEF BlocksListed
  <2>4. \A d \in Conn : Live(d)' <=> Live(d)
    BY <2>1 DEF Live, TypeOK, ThreadsTyped
  <2>. QED  BY <2>2, <2>4, <2>6, <2>7 DEF BlocksListed
<1>8. ASSUME NEW c \in Conn, NEW u \in User, NEW n \in Name, JoinFind(c, u, n)  PROVE BlocksListed'
  BY <1>8 DEF JoinFind, TypeOK, BlocksListed, Live, ThreadsTyped, Goto, Receives, Refuse, connVars
<1>9. ASSUME NEW c \in Conn, JoinInsert(c)  PROVE BlocksListed'
  BY <1>9 DEF JoinInsert, Enter, TypeOK, BlocksListed, Live, ThreadsTyped, Goto, At, Fault, connVars
<1>10. ASSUME NEW c \in Conn, NEW u \in User, NEW n \in Name, CreateFind(c, u, n)  PROVE BlocksListed'
  BY <1>10 DEF CreateFind, TypeOK, BlocksListed, Live, ThreadsTyped, Goto, Receives, Refuse, connVars
<1>11. ASSUME NEW c \in Conn, CreateInsert(c)  PROVE BlocksListed'
  BY <1>11 DEF CreateInsert, TypeOK, BlocksListed, Live, ThreadsTyped, Goto, At, connVars
<1>12. ASSUME NEW c \in Conn, CreateJoin(c)  PROVE BlocksListed'
  BY <1>12 DEF CreateJoin, Enter, TypeOK, BlocksListed, Live, ThreadsTyped, Goto, At, Fault, connVars
<1>13. ASSUME NEW c \in Conn, NEW u \in User, NEW n \in Name, LeaveFind(c, u, n)  PROVE BlocksListed'
  BY <1>13 DEF LeaveFind, TypeOK, BlocksListed, Live, ThreadsTyped, Goto, Receives, Refuse, connVars
<1>14. ASSUME NEW c \in Conn, LeaveUnlink(c)  PROVE BlocksListed'
  BY <1>14 DEF LeaveUnlink, TypeOK, BlocksListed, Live, ThreadsTyped, Goto, At, Fault, connVars
<1>15. ASSUME NEW c \in Conn, LeaveFree(c)  PROVE BlocksListed'
  BY <1>15 DEF LeaveFree, TypeOK, BlocksListed, Live, ThreadsTyped, Goto, At, Fault, connVars
<1>16. ASSUME NEW c \in Conn, ExitStart(c)  PROVE BlocksListed'
  BY <1>16 DEF ExitStart, TypeOK, BlocksListed, Live, ThreadsTyped, Goto, Receives, connVars
<1>17. ASSUME NEW c \in Conn, ExitVisit(c)  PROVE BlocksListed'
  BY <1>17 DEF ExitVisit, TypeOK, BlocksListed, Live, ThreadsTyped, At, Fault, connVars
<1>18. ASSUME NEW c \in Conn, ExitLogin(c)  PROVE BlocksListed'
  <2>1. CASE UNCHANGED <<pc, connections>>
    BY <2>1 DEF BlocksListed, Live
  <2>2. CASE pc[c] = "exit" /\ pc' = [pc EXCEPT ![c] = "close"]
             /\ connections' = RemoveFirst(connections, clientID[c])
    <3>1. clientID[c] \notin Conn
      BY ServerAssumption DEF TypeOK, ConnsTyped
    <3>2. /\ ToSet(connections') \subseteq ToSet(connections)
          /\ \A x \in ToSet(connections) : x # clientID[c] => x \in ToSet(connections')
          /\ Once(connections', Conn)
      BY <2>2, RemoveFirstElements, RemoveFirstOnce DEF BlocksListed, TypeOK, ConnsTyped
    <3>3. \A d \in Conn : Live(d)' <=> Live(d)
      BY <2>2 DEF Live, TypeOK, ThreadsTyped
    <3>. QED  BY <3>1, <3>2, <3>3 DEF BlocksListed
  <2>. QED  BY <1>18, <2>1, <2>2 DEF ExitLogin, Fault, At, Goto, connVars
<1>19. ASSUME NEW c \in Conn, NEW u \in User, QueryStart(c, u)  PROVE BlocksListed'
  BY <1>19 DEF QueryStart, TypeOK, BlocksListed, Live, ThreadsTyped, Goto, Receives, Refuse, connVars
<1>20. ASSUME NEW c \in Conn, QueryVisit(c)  PROVE BlocksListed'
  BY <1>20 DEF QueryVisit, TypeOK, BlocksListed, Live, ThreadsTyped, At, Fault, connVars
<1>21. ASSUME NEW c \in Conn, QueryReply(c)  PROVE BlocksListed'
  BY <1>21 DEF QueryReply, TypeOK, BlocksListed, Live, ThreadsTyped, Goto, At, connVars
<1>22. ASSUME NEW c \in Conn, NEW u \in User, NEW n \in Name, Message(c, u, n)  PROVE BlocksListed'
  BY <1>22 DEF Message, TypeOK, BlocksListed, Live, ThreadsTyped, Receives, Refuse, Fault, connVars
<1>. QED
  BY <1>1, <1>2, <1>3, <1>4, <1>5, <1>6, <1>7, <1>8, <1>9, <1>10, <1>11, <1>12, <1>13, <1>14, <1>15, <1>16, <1>17, <1>18, <1>19, <1>20, <1>21, <1>22 DEF Next

(* The blocks in the list are the allocated ones, each once, however the   *)
(* login strings of LOGIN and EXIT come and go between them, as long as no *)
(* two calls on the list overlap.                                          *)
THEOREM BlocksCorrect == Spec => []BlocksListed
<1>1. Spec => []TypeOK
  BY TypeCorrect
<1>. QED  BY <1>1, BlocksInit, BlocksStep, PTL DEF Spec

-----------------------------------------------------------------------------
(* Logins, for any interleaving of the handlers.                           *)

(* Every client that is logged in has a login string of its own, which it  *)
(* shares with no other, not even with one that has the same user.         *)
OwnStrings ==
  \E f \in [Conn -> Nat] :
    /\ \A c \in Conn :
         LoggedIn(c) => f[c] \in 1 .. Len(connections) /\ connections[f[c]] = clientID[c]
    /\ \A c, d \in Conn : LoggedIn(c) /\ LoggedIn(d) /\ f[c] = f[d] => c = d

(* With who has no user yet, and who has one.                              *)
StringsInv ==
  /\ OwnStrings
  /\ \A c \in Conn : pc[c] = "accept" => clientID[c] = NoUser
  /\ \A c \in Conn : pc[c] = "exit" => clientID[c] # NoUser

(* The search of EXIT for the login string of its client finds one.        *)
ExitFinds == \A c \in Conn : pc[c] = "exit" => clientID[c] \in ToSet(connections)

(* Nobody is logged in.                                                    *)
LEMMA StringsInit == Init => StringsInv
<1>. SUFFICES ASSUME Init  PROVE StringsInv
  OBVIOUS
<1>1. \A c \in Conn : ~LoggedIn(c) /\ pc[c] = "free"
  BY DEF Init, LoggedIn, Open
<1>2. [c \in Conn |-> 0] \in [Conn -> Nat]
  OBVIOUS
<1>. QED  BY <1>1, <1>2 DEF StringsInv, OwnStrings

(* A step that leaves the list and the users alone and logs nobody in.     *)
LEMMA StringsQuiet ==
  ASSUME TypeOK, StringsInv, NEW c \in Conn, NEW l, pc' = [pc EXCEPT ![c] = l],
         UNCHANGED <<clientID, connections>>,
         l = "accept" => clientID[c] = NoUser, l = "exit" => clientID[c] # NoUser,
         pc[c] \notin {"free", "close", "release"} \/ l \in {"close", "release"}
  PROVE  StringsInv'
<1>1. \A d \in Conn : pc'[d] = IF d = c THEN l ELSE pc[d]
  BY DEF TypeOK, ThreadsTyped
<1>2. \A d \in Conn : LoggedIn(d)' => LoggedIn(d)
  BY <1>1 DEF LoggedIn, Open, StringsInv
<1>3. OwnStrings'
  BY <1>2 DEF StringsInv, OwnStrings
<1>. QED  BY <1>1, <1>3 DEF StringsInv

(* A block or a string is added; a client that logs in gets that string.   *)
LEMMA StringsAppend ==
  ASSUME TypeOK, StringsInv, NEW c \in Conn, NEW x \in Conn \cup User,
         connections' = Append(connections, x),
         \A d \in Conn \ {c} : pc'[d] = pc[d] /\ clientID'[d] = clientID[d],
         LoggedIn(c)' => clientID'[c] = x,
         pc'[c] = "accept" => clientID'[c] = NoUser, pc'[c] # "exit"
  PROVE  StringsInv'
<1>1. PICK f \in [Conn -> Nat] :
        /\ \A d \in Conn :
             LoggedIn(d) => f[d] \in 1 .. Len(connections) /\ connections[f[d]] = clientID[d]
        /\ \A d, e \in Conn : LoggedIn(d) /\ LoggedIn(e) /\ f[d] = f[e] => d = e
  BY DEF StringsInv, OwnStrings
<1>2. Len(connections) \in Nat /\ connections \in Seq(Conn \cup User)
  BY LenProperties DEF TypeOK, ConnsTyped
<1>3. /\ Len(connections') = Len(connections) + 1
      /\ \A i \in 1 .. Len(connections) : connections'[i] = connections[i]
      /\ connections'[Len(connections) + 1] = x
  BY <1>2, AppendProperties
<1>. DEFINE g == [d \in Conn |-> IF d = c THEN Len(connections) + 1 ELSE f[d]]
<1>4. g \in [Conn -> Nat] /\ g[c] = Len(connections) + 1 /\ \A d \in Conn \ {c} : g[d] = f[d]
  BY <1>2
<1>. HIDE DEF g
<1>5. \A d \in Conn \ {c} : LoggedIn(d)' => LoggedIn(d)
  BY DEF LoggedIn, Open
<1>6. \A d \in Conn \ {c} :
        LoggedIn(d)' => g[d] \in 1 .. Len(connections) /\ connections'[g[d]] = clientID'[d]
  BY <1>1, <1>3, <1>4, <1>5
<1>7. LoggedIn(c)' => connections'[g[c]] = clientID'[c]
  BY <1>3, <1>4
<1>8. /\ \A d \in Conn :
           LoggedIn(d)' => g[d] \in 1 .. Len(connections') /\ connections'[g[d]] = clientID'[d]
      /\ \A d, e \in Conn : LoggedIn(d)' /\ LoggedIn(e)' /\ g[d] = g[e] => d = e
  <2>1. \A d \in Conn \ {c} : LoggedIn(d)' => g[d] # Len(connections) + 1
    BY <1>2, <1>6
  <2>2. 1 .. Len(connections) \subseteq 1 .. Len(connections')
        /\ Len(connections) + 1 \in 1 .. Len(connections')
    BY <1>2, <1>3
  <2>. QED  BY <1>1, <1>4, <1>5, <1>6, <1>7, <2>1, <2>2
<1>9. OwnStrings'
  BY <1>4, <1>8 DEF OwnStrings
<1>. QED  BY <1>9 DEF StringsInv

(* An element leaves the list: if it is another client's string, that one  *)
(* has the string of c from then on.                                       *)
LEMMA StringsRemove ==
  ASSUME TypeOK, StringsInv, NEW c \in Conn, NEW x, x \in Conn \/ (LoggedIn(c) /\ x = clientID[c]),
         connections' = RemoveFirst(connections, x),
         \A d \in Conn \ {c} : pc'[d] = pc[d] /\ clientID'[d] = clientID[d],
         pc'[c] \in {"free", "close"}
  PROVE  StringsInv'
<1>1. PICK f \in [Conn -> Nat] :
        /\ \A d \in Conn :
             LoggedIn(d) => f[d] \in 1 .. Len(connections) /\ connections[f[d]] = clientID[d]
        /\ \A d, e \in Conn : LoggedIn(d) /\ LoggedIn(e) /\ f[d] = f[e] => d = e
  BY DEF StringsInv, OwnStrings
<1>2. Len(connections) \in Nat /\ connections \in Seq(Conn \cup User)
  BY LenProperties DEF TypeOK, ConnsTyped
<1>3. /\ ~LoggedIn(c)'
      /\ \A d \in Conn : LoggedIn(d)' => LoggedIn(d) /\ d # c /\ clientID'[d] = clientID[d]
  BY DEF LoggedIn, Open
<1>4. SUFFICES OwnStrings'
  BY DEF StringsInv
<1>5. CASE connections' = connections
  BY <1>1, <1>3, <1>5 DEF OwnStrings
<1>6. ASSUME NEW k \in 1 .. Len(connections), connections[k] = x,
             Len(connections') = Len(connections) - 1,
             \A i \in 1 .. Len(connections) - 1 :
               connections'[i] = IF i < k THEN connections[i] ELSE connections[i+1]
      PROVE  OwnStrings'
  <2>. DEFINE h == [d \in Conn |-> IF f[d] = k THEN f[c] ELSE f[d]]
              g == [d \in Conn |-> IF h[d] > k THEN h[d] - 1 ELSE h[d]]
  <2>1. ASSUME NEW d \in Conn, LoggedIn(d)'
        PROVE  /\ h[d] \in 1 .. Len(connections) /\ h[d] # k
               /\ connections[h[d]] = clientID[d]
    <3>1. LoggedIn(d) /\ d # c /\ f[d] \in 1 .. Len(connections) /\ connections[f[d]] = clientID[d]
      BY <1>1, <1>3, <2>1
    <3>2. CASE f[d] = k
      <4>1. clientID[d] \notin Conn
        BY ServerAssumption DEF TypeOK, ConnsTyped
      <4>2. LoggedIn(c) /\ x = clientID[c] /\ clientID[c] = clientID[d]
        BY <1>6, <3>1, <3>2, <4>1
      <4>. QED  BY <1>1, <3>1, <3>2, <4>2
    <3>. QED  BY <3>1, <3>2
  <2>2. ASSUME NEW d \in Conn, NEW e \in Conn, LoggedIn(d)', LoggedIn(e)', h[d] = h[e]
        PROVE  d = e
    <3>1. LoggedIn(d) /\ LoggedIn(e) /\ d # c /\ e # c
      BY <1>3, <2>2
    <3>2. f[d] = k \/ f[e] = k => x \notin Conn
      <4>1. clientID[d] \notin Conn /\ clientID[e] \notin Conn
        BY ServerAssumption DEF TypeOK, ConnsTyped
      <4>. QED  BY <1>1, <1>6, <3>1, <4>1
    <3>3. f[d] = k \/ f[e] = k => LoggedIn(c)
      BY <3>2
    <3>. QED  BY <1>1, <2>2, <3>1, <3>3
  <2>3. h \in [Conn -> Nat]
    OBVIOUS
  <2>. HIDE DEF h
  <2>4. ASSUME NEW d \in Conn, LoggedIn(d)'
        PROVE  /\ g[d] \in 1 .. Len(connections) - 1
               /\ connections'[g[d]] = connections[h[d]]
    <3>. DEFINE n == Len(connections)
                a == h[d]
    <3>1. a \in 1 .. n /\ a # k /\ k \in 1 .. n /\ n \in Nat
      BY <1>2, <2>1, <2>4
    <3>2. g[d] = IF a > k THEN a - 1 ELSE a
      OBVIOUS
    <3>. HIDE DEF g, a, n
    <3>3. g[d] \in 1 .. n - 1 /\ (g[d] < k => g[d] = a) /\ (~(g[d] < k) => g[d] + 1 = a)
      BY <3>1, <3>2
    <3>. QED  BY <1>6, <3>3 DEF a, n
  <2>5. \A d, e \in Conn : LoggedIn(d)' /\ LoggedIn(e)' /\ g[d] = g[e] => d = e
    <3>1. ASSUME NEW a \in Nat, NEW b \in Nat, a # k, b # k,
                 (IF a > k THEN a - 1 ELSE a) = (IF b > k THEN b - 1 ELSE b)
          PROVE  a = b
      BY <1>2, <3>1
    <3>2. ASSUME NEW d \in Conn, NEW e \in Conn, LoggedIn(d)', LoggedIn(e)', g[d] = g[e]
          PROVE  d = e
      <4>1. h[d] \in Nat /\ h[e] \in Nat /\ h[d] # k /\ h[e] # k
        BY <2>1, <2>3, <3>2
      <4>2. (IF h[d] > k THEN h[d] - 1 ELSE h[d]) = (IF h[e] > k THEN h[e] - 1 ELSE h[e])
        BY <3>2
      <4>. QED  BY <2>2, <3>1, <3>2, <4>1, <4>2
    <3>. QED  BY <3>2
  <2>6. g \in [Conn -> Nat]
    BY <1>2, <2>3
  <2>. HIDE DEF g
  <2>7. \A d \in Conn : LoggedIn(d)' =>
          g[d] \in 1 .. Len(connections') /\ connections'[g[d]] = clientID'[d]
    BY <1>3, <1>6, <2>1, <2>4
  <2>. QED  BY <2>5, <2>6, <2>7 DEF OwnStrings
<1>7. \/ RemoveFirst(connections, x) = connections
      \/ \E k \in 1 .. Len(connections) :
           /\ connections[k] = x
           /\ Len(RemoveFirst(connections, x)) = Len(connections) - 1
           /\ \A i \in 1 .. Len(connections) - 1 :
                RemoveFirst(connections, x)[i] = IF i < k THEN connections[i] ELSE connections[i+1]
  BY <1>2, RemoveFirstShape
<1>. QED  BY <1>5, <1>6, <1>7

(* Every other step leaves the list of connections and the users alone.    *)
LEMMA StringsStep ==
  ASSUME TypeOK, StringsInv, [Next]_vars
  PROVE  StringsInv'
<1>1. CASE UNCHANGED <<pc, clientID, connections>>
  BY <1>1 DEF StringsInv, OwnStrings, LoggedIn, Open
<1>2. ASSUME NEW c \in Conn, GetThreadInfo(c)  PROVE StringsInv'
  <2>1. /\ pc' = [pc EXCEPT ![c] = "accept"] /\ clientID' = [clientID EXCEPT ![c] = NoUser]
        /\ connections' = Append(connections, c)
    BY <1>2 DEF GetThreadInfo, Goto
  <2>2. /\ pc'[c] = "accept" /\ clientID'[c] = NoUser
        /\ \A d \in Conn \ {c} : pc'[d] = pc[d] /\ clientID'[d] = clientID[d]
    BY <2>1 DEF TypeOK, ThreadsTyped, ConnsTyped
  <2>. QED  BY <2>1, <2>2, StringsAppend DEF LoggedIn, Open
<1>3. ASSUME NEW c \in Conn, LoginInsert(c)  PROVE StringsInv'
  <2>1. /\ pc' = [pc EXCEPT ![c] = "recv"] /\ clientID' = [clientID EXCEPT ![c] = want[c]]
        /\ connections' = Append(connections, want[c]) /\ want[c] \in User
    BY <1>3 DEF LoginInsert, At, Goto, TypeOK, ThreadsTyped
  <2>2. /\ pc'[c] = "recv" /\ clientID'[c] = want[c]
        /\ \A d \in Conn \ {c} : pc'[d] = pc[d] /\ clientID'[d] = clientID[d]
    BY <2>1 DEF TypeOK, ThreadsTyped, ConnsTyped
  <2>. QED  BY <2>1, <2>2, StringsAppend
<1>4. ASSUME NEW c \in Conn, Release(c)  PROVE StringsInv'
  <2>1. /\ pc' = [pc EXCEPT ![c] = "free"] /\ clientID' = [clientID EXCEPT ![c] = NoUser]
        /\ connections' = RemoveFirst(connections, c)
    BY <1>4 DEF Release, Goto
  <2>2. /\ pc'[c] = "free"
        /\ \A d \in Conn \ {c} : pc'[d] = pc[d] /\ clientID'[d] = clientID[d]
    BY <2>1 DEF TypeOK, ThreadsTyped, ConnsTyped
  <2>. QED  BY <2>1, <2>2, StringsRemove
<1>5. ASSUME NEW c \in Conn, ExitLogin(c)  PROVE StringsInv'
  <2>1. CASE Fault("null")
    BY <1>1, <2>1 DEF Fault, connVars
  <2>2. CASE ~Fault("null")
    <3>1. /\ pc[c] = "exit" /\ pc' = [pc EXCEPT ![c] = "close"] /\ UNCHANGED clientID
          /\ connections' = RemoveFirst(connections, clientID[c])
      BY <1>5, <2>2 DEF ExitLogin, At, Goto
    <3>2. /\ pc'[c] = "close" /\ LoggedIn(c)
          /\ \A d \in Conn \ {c} : pc'[d] = pc[d] /\ clientID'[d] = clientID[d]
      BY <3>1 DEF TypeOK, ThreadsTyped, StringsInv, LoggedIn, Open
    <3>. QED  BY <3>1, <3>2, StringsRemove
  <2>. QED  BY <2>1, <2>2
<1>6. ASSUME NEW c \in Conn, NEW l \in Label \ {"accept", "exit"}, pc' = [pc EXCEPT ![c] = l],
             pc[c] \notin {"free", "close", "release"} \/ l = "release",
             UNCHANGED <<clientID, connections>>
      PROVE  StringsInv'
  BY <1>6, StringsQuiet
<1>7. ASSUME NEW c \in Conn, Accept(c) \/ Disconnect(c) \/ Close(c)  PROVE StringsInv'
  BY <1>6, <1>7 DEF Accept, Disconnect, Close, At, Goto, Label, connVars
<1>8. ASSUME NEW c \in Conn, NEW u \in User, NEW good \in BOOLEAN, LoginCheck(c, u, good)
      PROVE  StringsInv'
  BY <1>1, <1>6, <1>8 DEF LoginCheck, Receives, Refuse, Goto, Label, connVars
<1>9. ASSUME NEW c \in Conn, NEW u \in User, NEW n \in Name,
             JoinFind(c, u, n) \/ CreateFind(c, u, n) \/ LeaveFind(c, u, n)
      PROVE  StringsInv'
  <2>1. \/ UNCHANGED <<pc, connVars>>
        \/ /\ pc[c] = "recv" /\ UNCHANGED connVars
           /\ \E l \in {"join", "create", "leave"} : pc' = [pc EXCEPT ![c] = l]
    BY <1>9 DEF JoinFind, CreateFind, LeaveFind, Receives, Refuse, Goto
  <2>. QED  BY <1>1, <1>6, <2>1 DEF Label, connVars
<1>10. ASSUME NEW c \in Conn, JoinInsert(c) \/ CreateJoin(c) \/ LeaveUnlink(c)  PROVE StringsInv'
  <2>1. \/ UNCHANGED <<pc, clientID, connections>>
        \/ /\ pc[c] \in {"join", "createJoin", "leave"} /\ UNCHANGED <<clientID, connections>>
           /\ \E l \in {"recv", "leaveFree"} : pc' = [pc EXCEPT ![c] = l]
    BY <1>10 DEF JoinInsert, CreateJoin, LeaveUnlink, Enter, Fault, At, Goto, connVars
  <2>. QED  BY <1>1, <2>1, StringsQuiet
<1>11. ASSUME NEW c \in Conn, CreateInsert(c) \/ LeaveFree(c) \/ QueryReply(c)
       PROVE  StringsInv'
  <2>1. \/ UNCHANGED <<pc, connVars>>
        \/ /\ pc[c] \in {"create", "leaveFree", "query"} /\ UNCHANGED connVars
           /\ \E l \in {"recv", "createJoin"} : pc' = [pc EXCEPT ![c] = l]
    BY <1>11 DEF CreateInsert, LeaveFree, QueryReply, Fault, At, Goto
  <2>. QED  BY <1>1, <1>6, <2>1 DEF Label, connVars
<1>12. ASSUME NEW c \in Conn, ExitStart(c)  PROVE StringsInv'
  <2>1. /\ pc[c] = "recv" /\ pc' = [pc EXCEPT ![c] = "exit"] /\ clientID[c] # NoUser
        /\ UNCHANGED <<clientID, connections>>
    BY <1>12 DEF ExitStart, Receives, Goto, connVars
  <2>. QED  BY <2>1, StringsQuiet
<1>13. ASSUME NEW c \in Conn, NEW u \in User, QueryStart(c, u)  PROVE StringsInv'
  BY <1>1, <1>6, <1>13 DEF QueryStart, Receives, Refuse, Goto, Label, connVars
<1>14. ASSUME NEW c \in Conn, ExitVisit(c) \/ QueryVisit(c)  PROVE StringsInv'
  BY <1>1, <1>14 DEF ExitVisit, QueryVisit, Fault, connVars
<1>15. ASSUME NEW c \in Conn, NEW u \in User, NEW n \in Name, Message(c, u, n)
       PROVE  StringsInv'
  BY <1>1, <1>15 DEF Message, Refuse, Fault, connVars
<1>16. CASE UNCHANGED vars
  BY <1>1, <1>16 DEF vars, connVars
<1>. QED  BY <1>2, <1>3, <1>4, <1>5, <1>7, <1>8, <1>9, <1>10, <1>11, <1>12, <1>13, <1>14, <1>15,
              <1>16 DEF Next

(* EXIT, which does not look whether the search for the login string found *)
(* one, has one to take out, whatever handlers run between the calls on    *)
(* the list: each of two clients with the same user has inserted a string. *)
(* Calls on the list do not overlap, and only a client that is logged in   *)
(* sends EXIT.                                                             *)
THEOREM ExitFindsCorrect == Spec => []ExitFinds
<1>1. Spec => []TypeOK
  BY TypeCorrect
<1>2. TypeOK /\ StringsInv => ExitFinds
  <2>1. ASSUME TypeOK, StringsInv, NEW c \in Conn, pc[c] = "exit"
        PROVE  clientID[c] \in ToSet(connections)
    <3>1. LoggedIn(c)
      BY <2>1 DEF LoggedIn, Open, StringsInv
    <3>2. \E i \in 1 .. Len(connections) : connections[i] = clientID[c]
      BY <2>1, <3>1 DEF StringsInv, OwnStrings
    <3>3. DOMAIN connections = 1 .. Len(connections)
      BY <2>1, LenProperties DEF TypeOK, ConnsTyped
    <3>. QED  BY <3>2, <3>3 DEF ToSet
  <2>. QED  BY <2>1 DEF ExitFinds
<1>3. TypeOK /\ StringsInv /\ [Next]_vars => StringsInv'
  BY StringsStep
<1>. QED  BY <1>1, <1>2, <1>3, StringsInit, PTL DEF Spec

-----------------------------------------------------------------------------
(* Logins, when requests are handled one at a time.                        *)

(* What makes LoginsHeld and UniqueLogin inductive: one handler at a time, *)
(* between the check and the insert of a LOGIN the user stays unlisted,    *)
(* and a connection without a client has no user.                          *)
LoginInv ==
  /\ LoginsHeld
  /\ UniqueLogin
  /\ \A c, d \in Conn : InHandler(c) /\ InHandler(d) => c = d
  /\ \A c \in Conn : pc[c] = "login" => want[c] \notin ToSet(connections)
  /\ \A c \in Conn : pc[c] = "accept" => clientID[c] = NoUser
  /\ \A c \in Conn : pc[c] = "exit" => clientID[c] \in User

(* Nobody is logged in.                                                    *)
LEMMA LoginInit == Init => LoginInv
BY DEF Init, LoginInv, LoginsHeld, UniqueLogin, LoggedIn, Open, InHandler, Once, ToSet

(* A step that leaves both the list and the users alone, starts no handler *)
(* but a lone one, and brings nobody past the checks.                      *)
LEMMA QuietStep ==
  ASSUME ThreadsTyped, LoginInv, NEW c \in Conn, NEW l \in Label,
         pc' = [pc EXCEPT ![c] = l],
         UNCHANGED <<clientID, connections>>,
         l \notin {"free", "accept", "close", "release", "recv"} => \A d \in Conn : InHandler(d) => d = c,
         l \notin {"free", "accept", "close", "release"} /\ clientID[c] # NoUser => LoggedIn(c),
         \A d \in Conn : d # c => want'[d] = want[d],
         l = "login" => want'[c] \notin ToSet(connections),
         l = "accept" => clientID[c] = NoUser,
         l = "exit" => clientID[c] \in User
  PROVE  LoginInv'
<1>1. \A d \in Conn : pc'[d] = IF d = c THEN l ELSE pc[d]
  BY DEF ThreadsTyped
<1>2. \A d \in Conn : LoggedIn(d)' => LoggedIn(d)
  BY <1>1 DEF LoggedIn, Open
<1>3. LoginsHeld' /\ UniqueLogin'
  BY <1>2 DEF LoginInv, LoginsHeld, UniqueLogin
<1>4. \A d, e \in Conn : InHandler(d)' /\ InHandler(e)' => d = e
  BY <1>1 DEF LoginInv, InHandler, Open
<1>. QED
  BY <1>1, <1>3, <1>4 DEF LoginInv

(* With one handler at a time, no step of another thread comes between the *)
(* check and the insert of a LOGIN.                                        *)
LEMMA LoginStep ==
  ASSUME Serial, TypeOK, LoginInv, [Next]_vars
  PROVE  LoginInv'
<1>1. CASE UNCHANGED vars
  BY <1>1 DEF vars, connVars, LoginInv, LoginsHeld, UniqueLogin, LoggedIn, InHandler, Open
<1>2. ASSUME NEW c \in Conn, GetThreadInfo(c)  PROVE LoginInv'
  <2>1. /\ pc[c] = "free" /\ pc' = [pc EXCEPT ![c] = "accept"]
        /\ connections' = Append(connections, c)
        /\ clientID' = [clientID EXCEPT ![c] = NoUser]
        /\ want' = want
    BY <1>2 DEF GetThreadInfo, At, Goto
  <2>2. c \notin User /\ c \in Conn \cup User /\ connections \in Seq(Conn \cup User)
    BY ServerAssumption DEF TypeOK, ConnsTyped
  <2>3. ToSet(connections') = ToSet(connections) \cup {c}
    BY <2>1, <2>2, AppendElements
  <2>4. Once(connections', User)
    BY <2>1, <2>2, AppendOnce DEF LoginInv, LoginsHeld
  <2>5. \A d \in Conn : /\ d # c => pc'[d] = pc[d] /\ clientID'[d] = clientID[d]
                        /\ pc'[c] = "accept" /\ clientID'[c] = NoUser
    BY <2>1 DEF TypeOK, ThreadsTyped, ConnsTyped
  <2>6. \A d \in Conn : LoggedIn(d)' => d # c /\ LoggedIn(d)
    BY <2>5 DEF LoggedIn, Open
  <2>7. LoginsHeld' /\ UniqueLogin'
    BY <2>3, <2>4, <2>5, <2>6 DEF LoginInv, LoginsHeld, UniqueLogin
  <2>8. \A d \in Conn : pc'[d] = "login" => want'[d] \notin ToSet(connections')
    BY <2>1, <2>2, <2>3, <2>5 DEF LoginInv, TypeOK, ThreadsTyped
  <2>9. \A d \in Conn : InHandler(d)' => InHandler(d)
    BY <2>5 DEF InHandler, Open
  <2>. QED  BY <2>5, <2>7, <2>8, <2>9 DEF LoginInv
<1>3. ASSUME NEW c \in Conn, Accept(c)  PROVE LoginInv'
  <2>1. CASE UNCHANGED <<pc, want, clientID, connections>>
    BY <2>1 DEF LoginInv, LoginsHeld, UniqueLogin, LoggedIn, InHandler, Open
  <2>2. CASE pc' = [pc EXCEPT ![c] = "recv"]
    <3>1. pc[c] = "accept" /\ UNCHANGED <<clientID, connections>>
      BY <1>3, <2>2 DEF Accept, At, Refuse, Fault, connVars
    <3>2. \A d \in Conn : d # c => want'[d] = want[d]
      BY <1>3 DEF Accept, Refuse, Fault, TypeOK, ThreadsTyped
    <3>3. clientID[c] = NoUser
      BY <3>1 DEF LoginInv
    <3>5. "recv" \in Label /\ ThreadsTyped
      BY DEF Label, TypeOK
    <3>6. clientID[c] # NoUser => LoggedIn(c)
      BY <3>1, <3>3 DEF LoggedIn, Open
    <3>. QED  BY <2>2, <3>1, <3>2, <3>3, <3>5, <3>6, QuietStep
  <2>. QED  BY <1>3, <2>1, <2>2 DEF Accept, Refuse, Fault, Goto, connVars
<1>4. ASSUME NEW c \in Conn, Disconnect(c)  PROVE LoginInv'
  <2>1. CASE UNCHANGED <<pc, want, clientID, connections>>
    BY <2>1 DEF LoginInv, LoginsHeld, UniqueLogin, LoggedIn, InHandler, Open
  <2>2. CASE pc' = [pc EXCEPT ![c] = "close"]
    <3>1. pc[c] = "recv" /\ UNCHANGED <<clientID, connections>>
      BY <1>4, <2>2 DEF Disconnect, At, Refuse, Fault, connVars
    <3>2. \A d \in Conn : d # c => want'[d] = want[d]
      BY <1>4 DEF Disconnect, Refuse, Fault, TypeOK, ThreadsTyped
    <3>5. "close" \in Label /\ ThreadsTyped
      BY DEF Label, TypeOK
    <3>6. clientID[c] # NoUser => LoggedIn(c)
      BY <3>1 DEF LoggedIn, Open
    <3>. QED  BY <2>2, <3>1, <3>2, <3>5, <3>6, QuietStep
  <2>. QED  BY <1>4, <2>1, <2>2 DEF Disconnect, Refuse, Fault, Goto, connVars
<1>5. ASSUME NEW c \in Conn, Release(c)  PROVE LoginInv'
  <2>1. /\ pc' = [pc EXCEPT ![c] = "free"]
        /\ connections' = RemoveFirst(connections, c)
        /\ clientID' = [clientID EXCEPT ![c] = NoUser]
        /\ want' = want
    BY <1>5 DEF Release, Goto
  <2>2. c \notin User /\ connections \in Seq(Conn \cup User)
    BY ServerAssumption DEF TypeOK, ConnsTyped
  <2>3. /\ ToSet(connections') \subseteq ToSet(connections)
        /\ \A x \in ToSet(connections) : x # c => x \in ToSet(connections')
    BY <2>1, <2>2, RemoveFirstElements
  <2>4. Once(connections', User)
    BY <2>1, <2>2, RemoveFirstOnce DEF LoginInv, LoginsHeld
  <2>5. \A d \in Conn : /\ d # c => pc'[d] = pc[d] /\ clientID'[d] = clientID[d]
                        /\ pc'[c] = "free"
    BY <2>1 DEF TypeOK, ThreadsTyped, ConnsTyped
  <2>6. \A d \in Conn : LoggedIn(d)' => d # c /\ LoggedIn(d) /\ clientID[d] \in User
    BY <2>5 DEF LoggedIn, Open, TypeOK, ConnsTyped
  <2>7. LoginsHeld' /\ UniqueLogin'
    BY <2>2, <2>3, <2>4, <2>5, <2>6 DEF LoginInv, LoginsHeld, UniqueLogin
  <2>8. \A d \in Conn : InHandler(d)' => InHandler(d)
    BY <2>5 DEF InHandler, Open
  <2>. QED  BY <2>1, <2>3, <2>5, <2>7, <2>8 DEF LoginInv
<1>6. ASSUME NEW c \in Conn, NEW u \in User, NEW good \in BOOLEAN, LoginCheck(c, u, good)  PROVE LoginInv'
  <2>1. CASE UNCHANGED <<pc, want, clientID, connections>>
    BY <2>1 DEF LoginInv, LoginsHeld, UniqueLogin, LoggedIn, InHandler, Open
  <2>2. CASE pc' = [pc EXCEPT ![c] = "login"]
    <3>1. pc[c] = "recv" /\ UNCHANGED <<clientID, connections>>
      BY <1>6, <2>2 DEF LoginCheck, Receives, Refuse, Fault, connVars
    <3>2. \A d \in Conn : d # c => want'[d] = want[d]
      BY <1>6 DEF LoginCheck, Refuse, Fault, TypeOK, ThreadsTyped
    <3>3. \A d \in Conn : ~InHandler(d)
      BY <1>6 DEF LoginCheck, Receives
    <3>4. want'[c] \notin ToSet(connections)
      BY <1>6, <2>2, <3>1 DEF LoginCheck, Refuse, TypeOK, ThreadsTyped
    <3>5. "login" \in Label /\ ThreadsTyped
      BY DEF Label, TypeOK
    <3>6. clientID[c] # NoUser => LoggedIn(c)
      BY <3>1 DEF LoggedIn, Open
    <3>. QED  BY <2>2, <3>1, <3>2, <3>3, <3>4, <3>5, <3>6, QuietStep
  <2>. QED  BY <1>6, <2>1, <2>2 DEF LoginCheck, Refuse, Fault, Goto, connVars
<1>7. ASSUME NEW c \in Conn, LoginInsert(c)  PROVE LoginInv'
  <2>1. /\ pc[c] = "login" /\ pc' = [pc EXCEPT ![c] = "recv"]
        /\ connections' = Append(connections, want[c])
        /\ clientID' = [clientID EXCEPT ![c] = want[c]]
        /\ \A d \in Conn : d # c => want'[d] = want[d]
    BY <1>7 DEF LoginInsert, At, Goto, TypeOK, ThreadsTyped
  <2>2. /\ want[c] \in User /\ want[c] \in Conn \cup User
        /\ connections \in Seq(Conn \cup User)
        /\ want[c] \notin ToSet(connections)
    BY <2>1 DEF TypeOK, ThreadsTyped, ConnsTyped, LoginInv
  <2>3. ToSet(connections') = ToSet(connections) \cup {want[c]}
    BY <2>1, <2>2, AppendElements
  <2>4. Once(connections', User)
    BY <2>1, <2>2, AppendOnce DEF LoginInv, LoginsHeld
  <2>5. \A d \in Conn : /\ d # c => pc'[d] = pc[d] /\ clientID'[d] = clientID[d]
                        /\ pc'[c] = "recv" /\ clientID'[c] = want[c]
    BY <2>1 DEF TypeOK, ThreadsTyped, ConnsTyped
  <2>6. \A d \in Conn : d # c => (LoggedIn(d)' <=> LoggedIn(d))
    BY <2>5 DEF LoggedIn, Open
  <2>7. LoginsHeld' /\ UniqueLogin'
    BY <2>2, <2>3, <2>4, <2>5, <2>6 DEF LoginInv, LoginsHeld, UniqueLogin
  <2>8. \A d \in Conn : InHandler(d)' => d # c /\ InHandler(d)
    BY <2>5 DEF InHandler, Open
  <2>9. InHandler(c)
    BY <2>1 DEF InHandler, Open
  <2>10. \A d \in Conn : ~InHandler(d)'
    BY <2>8, <2>9 DEF LoginInv
  <2>11. \A d \in Conn : pc'[d] \notin {"login", "exit"}
    BY <2>10 DEF InHandler, Open
  <2>. QED  BY <2>5, <2>7, <2>10, <2>11 DEF LoginInv
<1>8. ASSUME NEW c \in Conn, NEW u \in User, NEW n \in Name, JoinFind(c, u, n)  PROVE LoginInv'
  <2>1. CASE UNCHANGED <<pc, want, clientID, connections>>
    BY <2>1 DEF LoginInv, LoginsHeld, UniqueLogin, LoggedIn, InHandler, Open
  <2>2. CASE pc' = [pc EXCEPT ![c] = "join"]
    <3>1. pc[c] = "recv" /\ UNCHANGED <<clientID, connections>>
      BY <1>8, <2>2 DEF JoinFind, Receives, Refuse, Fault, connVars
    <3>2. \A d \in Conn : d # c => want'[d] = want[d]
      BY <1>8 DEF JoinFind, Refuse, Fault, TypeOK, ThreadsTyped
    <3>3. \A d \in Conn : ~InHandler(d)
      BY <1>8 DEF JoinFind, Receives
    <3>5. "join" \in Label /\ ThreadsTyped
      BY DEF Label, TypeOK
    <3>6. clientID[c] # NoUser => LoggedIn(c)
      BY <3>1 DEF LoggedIn, Open
    <3>. QED  BY <2>2, <3>1, <3>2, <3>3, <3>5, <3>6, QuietStep
  <2>. QED  BY <1>8, <2>1, <2>2 DEF JoinFind, Refuse, Fault, Goto, connVars
<1>9. ASSUME NEW c \in Conn, JoinInsert(c)  PROVE LoginInv'
  <2>1. CASE UNCHANGED <<pc, want, clientID, connections>>
    BY <2>1 DEF LoginInv, LoginsHeld, UniqueLogin, LoggedIn, InHandler, Open
  <2>2. CASE pc' = [pc EXCEPT ![c] = "recv"]
    <3>1. pc[c] = "join" /\ UNCHANGED <<clientID, connections>>
      BY <1>9, <2>2 DEF JoinInsert, Enter, At, Refuse, Fault, connVars
    <3>2. \A d \in Conn : d # c => want'[d] = want[d]
      BY <1>9 DEF JoinInsert, Enter, Refuse, Fault, TypeOK, ThreadsTyped
    <3>3. \A d \in Conn : InHandler(d) => d = c
      BY <3>1 DEF LoginInv, InHandler, Open
    <3>5. "recv" \in Label /\ ThreadsTyped
      BY DEF Label, TypeOK
    <3>6. clientID[c] # NoUser => LoggedIn(c)
      BY <3>1 DEF LoggedIn, Open
    <3>. QED  BY <2>2, <3>1, <3>2, <3>3, <3>5, <3>6, QuietStep
  <2>. QED  BY <1>9, <2>1, <2>2 DEF JoinInsert, Enter, Refuse, Fault, Goto, connVars
<1>10. ASSUME NEW c \in Conn, NEW u \in User, NEW n \in Name, CreateFind(c, u, n)  PROVE LoginInv'
  <2>1. CASE UNCHANGED <<pc, want, clientID, connections>>
    BY <2>1 DEF LoginInv, LoginsHeld, UniqueLogin, LoggedIn, InHandler, Open
  <2>2. CASE pc' = [pc EXCEPT ![c] = "create"]
    <3>1. pc[c] = "recv" /\ UNCHANGED <<clientID, connections>>
      BY <1>10, <2>2 DEF CreateFind, Receives, Refuse, Fault, connVars
    <3>2. \A d \in Conn : d # c => want'[d] = want[d]
      BY <1>10 DEF CreateFind, Refuse, Fault, TypeOK, ThreadsTyped
    <3>3. \A d \in Conn : ~InHandler(d)
      BY <1>10 DEF CreateFind, Receives
    <3>5. "create" \in Label /\ ThreadsTyped
      BY DEF Label, TypeOK
    <3>6. clientID[c] # NoUser => LoggedIn(c)
      BY <3>1 DEF LoggedIn, Open
    <3>. QED  BY <2>2, <3>1, <3>2, <3>3, <3>5, <3>6, QuietStep
  <2>. QED  BY <1>10, <2>1, <2>2 DEF CreateFind, Refuse, Fault, Goto, connVars
<1>11. ASSUME NEW c \in Conn, CreateInsert(c)  PROVE LoginInv'
  <2>1. CASE UNCHANGED <<pc, want, clientID, connections>>
    BY <2>1 DEF LoginInv, LoginsHeld, UniqueLogin, LoggedIn, InHandler, Open
  <2>2. CASE pc' = [pc EXCEPT ![c] = "createJoin"]
    <3>1. pc[c] = "create" /\ UNCHANGED <<clientID, connections>>
      BY <1>11, <2>2 DEF CreateInsert, At, Refuse, Fault, connVars
    <3>2. \A d \in Conn : d # c => want'[d] = want[d]
      BY <1>11 DEF CreateInsert, Refuse, Fault, TypeOK, ThreadsTyped
    <3>3. \A d \in Conn : InHandler(d) => d = c
      BY <3>1 DEF LoginInv, InHandler, Open
    <3>5. "createJoin" \in Label /\ ThreadsTyped
      BY DEF Label, TypeOK
    <3>6. clientID[c] # NoUser => LoggedIn(c)
      BY <3>1 DEF LoggedIn, Open
    <3>. QED  BY <2>2, <3>1, <3>2, <3>3, <3>5, <3>6, QuietStep
  <2>. QED  BY <1>11, <2>1, <2>2 DEF CreateInsert, Refuse, Fault, Goto, connVars
<1>12. ASSUME NEW c \in Conn, CreateJoin(c)  PROVE LoginInv'
  <2>1. CASE UNCHANGED <<pc, want, clientID, connections>>
    BY <2>1 DEF LoginInv, LoginsHeld, UniqueLogin, LoggedIn, InHandler, Open
  <2>2. CASE pc' = [pc EXCEPT ![c] = "recv"]
    <3>1. pc[c] = "createJoin" /\ UNCHANGED <<clientID, connections>>
      BY <1>12, <2>2 DEF CreateJoin, Enter, At, Refuse, Fault, connVars
    <3>2. \A d \in Conn : d # c => want'[d] = want[d]
      BY <1>12 DEF CreateJoin, Enter, Refuse, Fault, TypeOK, ThreadsTyped
    <3>3. \A d \in Conn : InHandler(d) => d = c
      BY <3>1 DEF LoginInv, InHandler, Open
    <3>5. "recv" \in Label /\ ThreadsTyped
      BY DEF Label, TypeOK
    <3>6. clientID[c] # NoUser => LoggedIn(c)
      BY <3>1 DEF LoggedIn, Open
    <3>. QED  BY <2>2, <3>1, <3>2, <3>3, <3>5, <3>6, QuietStep
  <2>. QED  BY <1>12, <2>1, <2>2 DEF CreateJoin, Enter, Refuse, Fault, Goto, connVars
<1>13. ASSUME NEW c \in Conn, NEW u \in User, NEW n \in Name, LeaveFind(c, u, n)  PROVE LoginInv'
  <2>1. CASE UNCHANGED <<pc, want, clientID, connections>>
    BY <2>1 DEF LoginInv, LoginsHeld, UniqueLogin, LoggedIn, InHandler, Open
  <2>2. CASE pc' = [pc EXCEPT ![c] = "leave"]
    <3>1. pc[c] = "recv" /\ UNCHANGED <<clientID, connections>>
      BY <1>13, <2>2 DEF LeaveFind, Receives, Refuse, Fault, connVars
    <3>2. \A d \in Conn : d # c => want'[d] = want[d]
      BY <1>13 DEF LeaveFind, Refuse, Fault, TypeOK, ThreadsTyped
    <3>3. \A d \in Conn : ~InHandler(d)
      BY <1>13 DEF LeaveFind, Receives
    <3>5. "leave" \in Label /\ ThreadsTyped
      BY DEF Label, TypeOK
    <3>6. clientID[c] # NoUser => LoggedIn(c)
      BY <3>1 DEF LoggedIn, Open
    <3>. QED  BY <2>2, <3>1, <3>2, <3>3, <3>5, <3>6, QuietStep
  <2>. QED  BY <1>13, <2>1, <2>2 DEF LeaveFind, Refuse, Fault, Goto, connVars
<1>14. ASSUME NEW c \in Conn, LeaveUnlink(c)  PROVE LoginInv'
  <2>1. CASE UNCHANGED <<pc, want, clientID, connections>>
    BY <2>1 DEF LoginInv, LoginsHeld, UniqueLogin, LoggedIn, InHandler, Open
  <2>2. CASE pc' = [pc EXCEPT ![c] = "leaveFree"]
    <3>1. pc[c] = "leave" /\ UNCHANGED <<clientID, connections>>
      BY <1>14, <2>2 DEF LeaveUnlink, At, Refuse, Fault, connVars
    <3>2. \A d \in Conn : d # c => want'[d] = want[d]
      BY <1>14 DEF LeaveUnlink, Refuse, Fault, TypeOK, ThreadsTyped
    <3>3. \A d \in Conn : InHandler(d) => d = c
      BY <3>1 DEF LoginInv, InHandler, Open
    <3>5. "leaveFree" \in Label /\ ThreadsTyped
      BY DEF Label, TypeOK
    <3>6. clientID[c] # NoUser => LoggedIn(c)
      BY <3>1 DEF LoggedIn, Open
    <3>. QED  BY <2>2, <3>1, <3>2, <3>3, <3>5, <3>6, QuietStep
  <2>. QED  BY <1>14, <2>1, <2>2 DEF LeaveUnlink, Refuse, Fault, Goto, connVars
<1>15. ASSUME NEW c \in Conn, LeaveFree(c)  PROVE LoginInv'
  <2>1. CASE UNCHANGED <<pc, want, clientID, connections>>
    BY <2>1 DEF LoginInv, LoginsHeld, UniqueLogin, LoggedIn, InHandler, Open
  <2>2. CASE pc' = [pc EXCEPT ![c] = "recv"]
    <3>1. pc[c] = "leaveFree" /\ UNCHANGED <<clientID, connections>>
      BY <1>15, <2>2 DEF LeaveFree, At, Refuse, Fault, connVars
    <3>2. \A d \in Conn : d # c => want'[d] = want[d]
      BY <1>15 DEF LeaveFree, Refuse, Fault, TypeOK, ThreadsTyped
    <3>3. \A d \in Conn : InHandler(d) => d = c
      BY <3>1 DEF LoginInv, InHandler, Open
    <3>5. "recv" \in Label /\ ThreadsTyped
      BY DEF Label, TypeOK
    <3>6. clientID[c] # NoUser => LoggedIn(c)
      BY <3>1 DEF LoggedIn, Open
    <3>. QED  BY <2>2, <3>1, <3>2, <3>3, <3>5, <3>6, QuietStep
  <2>. QED  BY <1>15, <2>1, <2>2 DEF LeaveFree, Refuse, Fault, Goto, connVars
<1>16. ASSUME NEW c \in Conn, ExitStart(c)  PROVE LoginInv'
  <2>1. CASE UNCHANGED <<pc, want, clientID, connections>>
    BY <2>1 DEF LoginInv, LoginsHeld, UniqueLogin, LoggedIn, InHandler, Open
  <2>2. CASE pc' = [pc EXCEPT ![c] = "exit"]
    <3>1. pc[c] = "recv" /\ UNCHANGED <<clientID, connections>>
      BY <1>16, <2>2 DEF ExitStart, Receives, Refuse, Fault, connVars
    <3>2. \A d \in Conn : d # c => want'[d] = want[d]
      BY <1>16 DEF ExitStart, Refuse, Fault, TypeOK, ThreadsTyped
    <3>3. \A d \in Conn : ~InHandler(d)
      BY <1>16 DEF ExitStart, Receives
    <3>4. clientID[c] \in User
      BY <1>16 DEF ExitStart, Receives, TypeOK, ConnsTyped
    <3>5. "exit" \in Label /\ ThreadsTyped
      BY DEF Label, TypeOK
    <3>6. clientID[c] # NoUser => LoggedIn(c)
      BY <3>1 DEF LoggedIn, Open
    <3>. QED  BY <2>2, <3>1, <3>2, <3>3, <3>4, <3>5, <3>6, QuietStep
  <2>. QED  BY <1>16, <2>1, <2>2 DEF ExitStart, Refuse, Fault, Goto, connVars
<1>17. ASSUME NEW c \in Conn, ExitVisit(c)  PROVE LoginInv'
  <2>1. CASE UNCHANGED <<pc, want, clientID, connections>>
    BY <2>1 DEF LoginInv, LoginsHeld, UniqueLogin, LoggedIn, InHandler, Open
  <2>. QED  BY <1>17, <2>1 DEF ExitVisit, Refuse, Fault, connVars
<1>18. ASSUME NEW c \in Conn, ExitLogin(c)  PROVE LoginInv'
  <2>0. pc[c] = "exit" /\ clientID[c] \in User /\ clientID[c] \in ToSet(connections)
    BY <1>18, ServerAssumption DEF ExitLogin, At, LoginInv, LoginsHeld, LoggedIn, Open
  <2>1. /\ pc' = [pc EXCEPT ![c] = "close"]
        /\ connections' = RemoveFirst(connections, clientID[c])
        /\ UNCHANGED <<clientID, want>>
    BY <1>18, <2>0 DEF ExitLogin, Goto
  <2>2. clientID[c] \in User /\ connections \in Seq(Conn \cup User)
    BY <2>0 DEF TypeOK, ConnsTyped
  <2>3. /\ ToSet(connections') \subseteq ToSet(connections)
        /\ \A x \in ToSet(connections) : x # clientID[c] => x \in ToSet(connections')
    BY <2>2, <2>1, RemoveFirstElements
  <2>4. Once(connections', User)
    BY <2>1, <2>2, RemoveFirstOnce DEF LoginInv, LoginsHeld
  <2>5. \A d \in Conn : (d # c => pc'[d] = pc[d]) /\ pc'[c] = "close"
    BY <2>1 DEF TypeOK, ThreadsTyped
  <2>6. LoggedIn(c)
    BY <2>0, ServerAssumption DEF LoggedIn, Open
  <2>7. \A d \in Conn : LoggedIn(d)' => d # c /\ LoggedIn(d)
    BY <2>1, <2>5 DEF LoggedIn, Open
  <2>8. \A d \in Conn : LoggedIn(d)' => clientID[d] # clientID[c]
    BY <2>6, <2>7 DEF LoginInv, UniqueLogin
  <2>9. LoginsHeld' /\ UniqueLogin'
    BY <2>1, <2>3, <2>4, <2>7, <2>8 DEF LoginInv, LoginsHeld, UniqueLogin
  <2>10. \A d \in Conn : InHandler(d)' => InHandler(d)
    BY <2>5 DEF InHandler, Open
  <2>. QED  BY <2>1, <2>3, <2>5, <2>9, <2>10 DEF LoginInv
<1>19. ASSUME NEW c \in Conn, NEW u \in User, QueryStart(c, u)  PROVE LoginInv'
  <2>1. CASE UNCHANGED <<pc, want, clientID, connections>>
    BY <2>1 DEF LoginInv, LoginsHeld, UniqueLogin, LoggedIn, InHandler, Open
  <2>2. CASE pc' = [pc EXCEPT ![c] = "query"]
    <3>1. pc[c] = "recv" /\ UNCHANGED <<clientID, connections>>
      BY <1>19, <2>2 DEF QueryStart, Receives, Refuse, Fault, connVars
    <3>2. \A d \in Conn : d # c => want'[d] = want[d]
      BY <1>19 DEF QueryStart, Refuse, Fault, TypeOK, ThreadsTyped
    <3>3. \A d \in Conn : ~InHandler(d)
      BY <1>19 DEF QueryStart, Receives
    <3>5. "query" \in Label /\ ThreadsTyped
      BY DEF Label, TypeOK
    <3>6. clientID[c] # NoUser => LoggedIn(c)
      BY <3>1 DEF LoggedIn, Open
    <3>. QED  BY <2>2, <3>1, <3>2, <3>3, <3>5, <3>6, QuietStep
  <2>. QED  BY <1>19, <2>1, <2>2 DEF QueryStart, Refuse, Fault, Goto, connVars
<1>20. ASSUME NEW c \in Conn, QueryVisit(c)  PROVE LoginInv'
  <2>1. CASE UNCHANGED <<pc, want, clientID, connections>>
    BY <2>1 DEF LoginInv, LoginsHeld, UniqueLogin, LoggedIn, InHandler, Open
  <2>. QED  BY <1>20, <2>1 DEF QueryVisit, Refuse, Fault, connVars
<1>21. ASSUME NEW c \in Conn, QueryReply(c)  PROVE LoginInv'
  <2>1. CASE UNCHANGED <<pc, want, clientID, connections>>
    BY <2>1 DEF LoginInv, LoginsHeld, UniqueLogin, LoggedIn, InHandler, Open
  <2>2. CASE pc' = [pc EXCEPT ![c] = "recv"]
    <3>1. pc[c] = "query" /\ UNCHANGED <<clientID, connections>>
      BY <1>21, <2>2 DEF QueryReply, At, Refuse, Fault, connVars
    <3>2. \A d \in Conn : d # c => want'[d] = want[d]
      BY <1>21 DEF QueryReply, Refuse, Fault, TypeOK, ThreadsTyped
    <3>3. \A d \in Conn : InHandler(d) => d = c
      BY <3>1 DEF LoginInv, InHandler, Open
    <3>5. "recv" \in Label /\ ThreadsTyped
      BY DEF Label, TypeOK
    <3>6. clientID[c] # NoUser => LoggedIn(c)
      BY <3>1 DEF LoggedIn, Open
    <3>. QED  BY <2>2, <3>1, <3>2, <3>3, <3>5, <3>6, QuietStep
  <2>. QED  BY <1>21, <2>1, <2>2 DEF QueryReply, Refuse, Fault, Goto, connVars
<1>22. ASSUME NEW c \in Conn, NEW u \in User, NEW n \in Name, Message(c, u, n)  PROVE LoginInv'
  <2>1. CASE UNCHANGED <<pc, want, clientID, connections>>
    BY <2>1 DEF LoginInv, LoginsHeld, UniqueLogin, LoggedIn, InHandler, Open
  <2>. QED  BY <1>22, <2>1 DEF Message, Refuse, Fault, connVars
<1>23. ASSUME NEW c \in Conn, Close(c)  PROVE LoginInv'
  <2>1. CASE UNCHANGED <<pc, want, clientID, connections>>
    BY <2>1 DEF LoginInv, LoginsHeld, UniqueLogin, LoggedIn, InHandler, Open
  <2>2. CASE pc' = [pc EXCEPT ![c] = "release"]
    <3>1. pc[c] = "close" /\ UNCHANGED <<clientID, connections>>
      BY <1>23, <2>2 DEF Close, At, Refuse, Fault, connVars
    <3>2. \A d \in Conn : d # c => want'[d] = want[d]
      BY <1>23 DEF Close, Refuse, Fault, TypeOK, ThreadsTyped
    <3>5. "release" \in Label /\ ThreadsTyped
      BY DEF Label, TypeOK
    <3>. QED  BY <2>2, <3>1, <3>2, <3>5, QuietStep
  <2>. QED  BY <1>23, <2>1, <2>2 DEF Close, Refuse, Fault, Goto, connVars
<1>. QED
  BY <1>1, <1>2, <1>3, <1>4, <1>5, <1>6, <1>7, <1>8, <1>9, <1>10, <1>11, <1>12, <1>13, <1>14, <1>15, <1>16, <1>17, <1>18, <1>19, <1>20, <1>21, <1>22, <1>23 DEF Next

(* One request at a time, the login strings in `connections' are those of  *)
(* the users logged in and of clients that went without EXIT, each once.   *)
THEOREM LoginsCorrect == ASSUME Serial PROVE Spec => []LoginsHeld
<1>1. Spec => []TypeOK
  BY TypeCorrect
<1>2. TypeOK /\ LoginInv /\ [Next]_vars => LoginInv'
  BY LoginStep
<1>3. LoginInv => LoginsHeld
  BY DEF LoginInv
<1>. QED  BY <1>1, <1>2, <1>3, LoginInit, PTL DEF Spec

(* One request at a time, no two connections are logged in as one user.    *)
THEOREM UniqueLoginCorrect == ASSUME Serial PROVE Spec => []UniqueLogin
<1>1. Spec => []TypeOK
  BY TypeCorrect
<1>2. TypeOK /\ LoginInv /\ [Next]_vars => LoginInv'
  BY LoginStep
<1>3. LoginInv => UniqueLogin
  BY DEF LoginInv
<1>. QED  BY <1>1, <1>2, <1>3, LoginInit, PTL DEF Spec

-----------------------------------------------------------------------------
(* Socket numbers, for any interleaving of the handlers.                   *)

(* Clients that are connected have different numbers; a number is given    *)
(* out again once its client's is closed.                                  *)
SocketInv ==
  /\ \A c \in Conn : Open(c) => socket[c] \in Socket
  /\ \A c, d \in Conn : Open(c) /\ Open(d) /\ socket[c] = socket[d] => c = d
  /\ \A c \in Conn : pc[c] \in {"free", "accept"} => socket[c] = NoSocket

(* No block has a number.                                                  *)
LEMMA SocketInit == Init => SocketInv
BY DEF Init, SocketInv, Open

(* A step that neither gives out a number nor frees a block.               *)
LEMMA SocketQuiet ==
  ASSUME TypeOK, SocketInv, UNCHANGED socket, NEW c \in Conn, NEW l, pc' = [pc EXCEPT ![c] = l],
         Open(c) \/ l = "release" \/ (pc[c] = "free" /\ l = "accept"), l # "free",
         l = "accept" => pc[c] = "free"
  PROVE  SocketInv'
<1>1. \A d \in Conn : pc'[d] = IF d = c THEN l ELSE pc[d]
  BY DEF TypeOK, ThreadsTyped
<1>2. \A d \in Conn : Open(d)' => Open(d)
  BY <1>1 DEF Open
<1>. QED  BY <1>1, <1>2 DEF SocketInv

(* accept gives out a number that is not in use.                           *)
LEMMA SocketStep ==
  ASSUME TypeOK, SocketInv, [Next]_vars
  PROVE  SocketInv'
<1>1. CASE UNCHANGED <<pc, socket>>
  BY <1>1 DEF SocketInv, Open
<1>2. ASSUME NEW c \in Conn, Accept(c)  PROVE SocketInv'
  <2>1. PICK f \in Socket : /\ \A d \in Conn : Open(d) => socket[d] # f
                            /\ socket' = [socket EXCEPT ![c] = f]
    BY <1>2 DEF Accept
  <2>2. \A d \in Conn : /\ pc'[d] = IF d = c THEN "recv" ELSE pc[d]
                        /\ socket'[d] = IF d = c THEN f ELSE socket[d]
    BY <1>2, <2>1 DEF Accept, Goto, TypeOK, ThreadsTyped, ConnsTyped
  <2>3. \A d \in Conn \ {c} : Open(d)' => Open(d)
    BY <2>2 DEF Open
  <2>. QED  BY <2>1, <2>2, <2>3 DEF SocketInv
<1>3. ASSUME NEW c \in Conn, Release(c)  PROVE SocketInv'
  <2>1. \A d \in Conn : /\ pc'[d] = IF d = c THEN "free" ELSE pc[d]
                        /\ socket'[d] = IF d = c THEN NoSocket ELSE socket[d]
    BY <1>3 DEF Release, Goto, TypeOK, ThreadsTyped, ConnsTyped
  <2>2. ~Open(c)' /\ \A d \in Conn \ {c} : Open(d)' => Open(d)
    BY <2>1 DEF Open
  <2>. QED  BY <2>1, <2>2 DEF SocketInv
<1>4. ASSUME NEW c \in Conn, GetThreadInfo(c) \/ Disconnect(c) \/ Close(c)  PROVE SocketInv'
  <2>1. /\ UNCHANGED socket
        /\ \/ pc[c] = "free" /\ pc' = [pc EXCEPT ![c] = "accept"]
           \/ pc[c] = "recv" /\ pc' = [pc EXCEPT ![c] = "close"]
           \/ pc[c] = "close" /\ pc' = [pc EXCEPT ![c] = "release"]
    BY <1>4 DEF GetThreadInfo, Disconnect, Close, At, Goto, connVars
  <2>. QED  BY <2>1, SocketQuiet DEF Open
<1>5. ASSUME NEW c \in Conn, Open(c), NEW l \in Label \ {"free", "accept"}, UNCHANGED socket,
             pc' = [pc EXCEPT ![c] = l]
      PROVE  SocketInv'
  BY <1>5, SocketQuiet
<1>. DEFINE Handles(c) ==
       Open(c) /\ UNCHANGED socket
       /\ (pc' = pc \/ \E l \in Label \ {"free", "accept"} : pc' = [pc EXCEPT ![c] = l])
<1>10. ASSUME NEW c \in Conn, NEW u \in User, NEW good \in BOOLEAN, LoginCheck(c, u, good)  PROVE Handles(c)
  BY <1>10 DEF LoginCheck, At, Receives, Refuse, Fault, Goto, Open, Label, connVars
<1>11. ASSUME NEW c \in Conn, NEW u \in User, NEW n \in Name, JoinFind(c, u, n)  PROVE Handles(c)
  BY <1>11 DEF JoinFind, At, Receives, Refuse, Fault, Goto, Open, Label, connVars
<1>12. ASSUME NEW c \in Conn, NEW u \in User, NEW n \in Name, CreateFind(c, u, n)  PROVE Handles(c)
  BY <1>12 DEF CreateFind, At, Receives, Refuse, Fault, Goto, Open, Label, connVars
<1>13. ASSUME NEW c \in Conn, NEW u \in User, NEW n \in Name, LeaveFind(c, u, n)  PROVE Handles(c)
  BY <1>13 DEF LeaveFind, At, Receives, Refuse, Fault, Goto, Open, Label, connVars
<1>14. ASSUME NEW c \in Conn, ExitStart(c)  PROVE Handles(c)
  BY <1>14 DEF ExitStart, At, Receives, Refuse, Fault, Goto, Open, Label, connVars
<1>15. ASSUME NEW c \in Conn, NEW u \in User, QueryStart(c, u)  PROVE Handles(c)
  BY <1>15 DEF QueryStart, At, Receives, Refuse, Fault, Goto, Open, Label, connVars
<1>16. ASSUME NEW c \in Conn, NEW u \in User, NEW n \in Name, Message(c, u, n)  PROVE Handles(c)
  BY <1>16 DEF Message, At, Receives, Refuse, Fault, Goto, Open, Label, connVars
<1>17. ASSUME NEW c \in Conn, LoginInsert(c)  PROVE Handles(c)
  BY <1>17 DEF LoginInsert, At, Receives, Refuse, Fault, Goto, Open, Label, connVars
<1>18. ASSUME NEW c \in Conn, JoinInsert(c)  PROVE Handles(c)
  BY <1>18 DEF JoinInsert, Enter, At, Receives, Refuse, Fault, Goto, Open, Label, connVars
<1>19. ASSUME NEW c \in Conn, CreateInsert(c)  PROVE Handles(c)
  BY <1>19 DEF CreateInsert, At, Receives, Refuse, Fault, Goto, Open, Label, connVars
<1>20. ASSUME NEW c \in Conn, CreateJoin(c)  PROVE Handles(c)
  BY <1>20 DEF CreateJoin, Enter, At, Receives, Refuse, Fault, Goto, Open, Label, connVars
<1>21. ASSUME NEW c \in Conn, LeaveUnlink(c)  PROVE Handles(c)
  BY <1>21 DEF LeaveUnlink, At, Receives, Refuse, Fault, Goto, Open, Label, connVars
<1>22. ASSUME NEW c \in Conn, LeaveFree(c)  PROVE Handles(c)
  BY <1>22 DEF LeaveFree, At, Receives, Refuse, Fault, Goto, Open, Label, connVars
<1>23. ASSUME NEW c \in Conn, ExitVisit(c)  PROVE Handles(c)
  BY <1>23 DEF ExitVisit, At, Receives, Refuse, Fault, Goto, Open, Label, connVars
<1>24. ASSUME NEW c \in Conn, ExitLogin(c)  PROVE Handles(c)
  BY <1>24 DEF ExitLogin, At, Receives, Refuse, Fault, Goto, Open, Label, connVars
<1>25. ASSUME NEW c \in Conn, QueryVisit(c)  PROVE Handles(c)
  BY <1>25 DEF QueryVisit, At, Receives, Refuse, Fault, Goto, Open, Label, connVars
<1>26. ASSUME NEW c \in Conn, QueryReply(c)  PROVE Handles(c)
  BY <1>26 DEF QueryReply, At, Receives, Refuse, Fault, Goto, Open, Label, connVars
<1>8. \A c \in Conn : Handles(c) => SocketInv'
  BY <1>1, <1>5
<1>. HIDE DEF Handles
<1>9. CASE UNCHANGED vars
  BY <1>1, <1>9 DEF vars, connVars
<1>. QED
  BY <1>2, <1>3, <1>4, <1>8, <1>9, <1>10, <1>11, <1>12, <1>13, <1>14, <1>15, <1>16, <1>17, <1>18, <1>19, <1>20, <1>21, <1>22, <1>23, <1>24, <1>25, <1>26 DEF Next

-----------------------------------------------------------------------------
(* The sessions, with one request at a time: when a handler follows an     *)
(* invalid pointer, and what the table holds as long as no client sends    *)
(* LEAVE_SESS and no two names share a bucket.                             *)

(* No two names share a bucket.                                            *)
Injective == \A m, n \in Name : BucketOf[m] = BucketOf[n] => m = n

(* The invariants of the first part, for one request at a time.            *)
ServerInv == TypeOK /\ ChainsInOrder /\ LoginInv /\ SocketInv

(* They hold.                                                              *)
LEMMA ServerInvariant == ASSUME Serial PROVE Spec => []ServerInv
<1>1. TypeOK /\ LoginInv /\ [Next]_vars => LoginInv'
  BY LoginStep
<1>2. TypeOK /\ SocketInv /\ [Next]_vars => SocketInv'
  BY SocketStep
<1>. QED  BY <1>1, <1>2, TypeCorrect, ChainsCorrect, LoginInit, SocketInit, PTL DEF Spec, ServerInv

-----------------------------------------------------------------------------
(* Sequences of entries and of members.                                    *)

(* The entry after s is another one of the list.                           *)
LEMMA NextInList ==
  ASSUME NEW q \in Seq(SessId), Once(q, SessId), NEW s \in SessId
  PROVE  /\ NextIn(q, s) \in ToSet(q) \cup {NoSess}
         /\ NextIn(q, s) # s
<1>. DEFINE After == {i \in DOMAIN q : i > 1 /\ q[i-1] = s}
<1>0. DOMAIN q = 1 .. Len(q) /\ Len(q) \in Nat
  BY LenProperties
<1>1. CASE After = {}
  BY <1>1, NoSessNotSessId DEF NextIn
<1>2. CASE After # {}
  <2>1. PICK i \in After : NextIn(q, s) = q[i]
    BY <1>2 DEF NextIn
  <2>2. i \in DOMAIN q /\ i - 1 \in DOMAIN q /\ i - 1 # i /\ q[i-1] = s
    BY <1>0, <2>1
  <2>3. q[i] \in ToSet(q) /\ q[i] # s
    BY <2>2 DEF Once, ToSet
  <2>. QED  BY <2>1, <2>3
<1>. QED  BY <1>1, <1>2

(* ht_remove of an entry that is not listed leaves the list.               *)
LEMMA NotThere ==
  ASSUME NEW S, NEW q \in Seq(S), NEW e, e \notin S
  PROVE  RemoveFirst(q, e) = q
BY RemoveFirstShape, ElementOfSeq, LenProperties DEF ToSet

(* A listed entry has a name.                                              *)
LEMMA ListedEntry ==
  ASSUME TypeOK, NEW s \in ToSet(order)
  PROVE  s \in SessId /\ s # NoSess /\ sessName[s] \in Name
BY ElementOfSeq, LenProperties, NoSessNotSessId DEF TypeOK, TableTyped, ToSet

(* What a look-up returns is listed.                                       *)
LEMMA FoundListed ==
  ASSUME TypeOK, ChainsInOrder, NEW n \in Name, NEW s \in HtFind(n), s # NoSess
  PROVE  s \in ToSet(order)
<1>1. BucketOf[n] \in Bucket
  BY DEF Bucket
<1>. QED  BY <1>1, HtFindType DEF TypeOK, ChainsInOrder

(* While a thread is in a handler no other is.                             *)
LEMMA OthersOut ==
  ASSUME LoginInv, NEW c \in Conn, InHandler(c), NEW d \in Conn, d # c
  PROVE  pc[d] \in {"free", "accept", "recv", "close", "release"}
BY DEF LoginInv, InHandler, Open

-----------------------------------------------------------------------------
(* Where the handlers point.                                               *)

(* An entry of the table, of which only an empty list may be freed.        *)
PointsListed ==
  fault = "none" => \A c \in Conn :
    /\ pc[c] \in {"join", "createJoin", "leaveFree"} => cur[c] \in ToSet(order)
    /\ pc[c] \in {"exit", "query"} => cur[c] \in ToSet(order) \cup {NoSess}

FreedEmpty == \A s \in ToSet(order) : listLive[s] \/ members[s] = <<>>

FaultInv == PointsListed /\ FreedEmpty /\ FaultsFromLeave

(* What FaultsFromLeave says of a fault.                                   *)
Explained ==
  \/ GoneMember \/ ExitOnFreed
  \/ \E c \in Conn : pc[c] = "leave"
  \/ \E s \in ToSet(order) : ~keyLive[s] \/ (~listLive[s] /\ members[s] = <<>>)

(* Nobody is in a handler and the table is empty.                          *)
LEMMA FaultInit == Init => FaultInv
BY DEF Init, FaultInv, PointsListed, FreedEmpty, FaultsFromLeave, ToSet

(* A step that leaves the table alone.                                     *)
LEMMA FaultQuiet ==
  ASSUME TypeOK, FaultInv, NEW c \in Conn, NEW l, pc' = [pc EXCEPT ![c] = l],
         UNCHANGED <<order, members, listLive>>, fault = "none", fault' = "none",
         \A d \in Conn \ {c} : cur'[d] = cur[d],
         l \in {"join", "createJoin", "leaveFree"} => cur'[c] \in ToSet(order),
         l \in {"exit", "query"} => cur'[c] \in ToSet(order) \cup {NoSess}
  PROVE  FaultInv'
<1>1. \A d \in Conn : pc'[d] = IF d = c THEN l ELSE pc[d]
  BY DEF TypeOK, ThreadsTyped
<1>. QED  BY <1>1 DEF FaultInv, PointsListed, FreedEmpty, FaultsFromLeave

(* A step that changes nothing but what is sent.                           *)
LEMMA FaultSame ==
  ASSUME FaultInv, UNCHANGED <<pc, cur, tableVars>>,
         fault' = fault \/ (fault' \in {"freed", "null"} /\ Explained)
  PROVE  FaultInv'
<1>. USE DEF tableVars
<1>1. Explained => Explained'
  BY DEF Explained, GoneMember, ExitOnFreed, Live
<1>2. FaultsFromLeave <=> (fault # "none" => Explained)
  BY DEF FaultsFromLeave, Explained
<1>3. (fault' # "none" => Explained') => FaultsFromLeave'
  BY DEF FaultsFromLeave, Explained
<1>. QED  BY <1>1, <1>2, <1>3 DEF FaultInv, PointsListed, FreedEmpty

(* A JOIN or NEW_SESS enters a list that is not freed.                     *)
LEMMA FaultEnters ==
  ASSUME ServerInv, FaultInv, NEW c \in Conn,
         JoinInsert(c) \/ CreateJoin(c)
  PROVE  FaultInv'
<1>. USE DEF ServerInv
<1>1. /\ pc[c] \in {"join", "createJoin"} /\ fault = "none"
      /\ cur[c] \in SessId /\ cur[c] \in ToSet(order)
  BY DEF JoinInsert, CreateJoin, At, FaultInv, PointsListed, TypeOK, ThreadsTyped
<1>2. CASE ~listLive[cur[c]]
  <2>1. Fault("freed")
    BY <1>2 DEF JoinInsert, CreateJoin
  <2>2. Explained
    BY <1>1, <1>2 DEF FaultInv, FreedEmpty, Explained
  <2>. QED  BY <2>1, <2>2, FaultSame DEF Fault
<1>3. CASE listLive[cur[c]]
  <2>1. /\ pc' = [pc EXCEPT ![c] = "recv"] /\ cur' = [cur EXCEPT ![c] = NoSess]
        /\ members' = [members EXCEPT ![cur[c]] = Append(@, c)]
        /\ UNCHANGED <<order, listLive, fault>>
    BY <1>3 DEF JoinInsert, CreateJoin, Enter, Goto
  <2>2. PointsListed'
    BY <2>1 DEF FaultInv, PointsListed, TypeOK, ThreadsTyped
  <2>3. FreedEmpty'
    BY <1>3, <2>1, ListedEntry DEF FaultInv, FreedEmpty, TypeOK, TableTyped
  <2>. QED  BY <1>1, <2>1, <2>2, <2>3 DEF FaultInv, FaultsFromLeave
<1>. QED  BY <1>2, <1>3

(* What NEW_SESS inserts: an entry that was not listed.                    *)
LEMMA NewEntry ==
  ASSUME ServerInv, NEW c \in Conn, CreateInsert(c)
  PROVE  \E s \in SessId :
           /\ s \notin ToSet(order) /\ order' = Append(order, s)
           /\ order' \in Seq(SessId) /\ ToSet(order') = ToSet(order) \cup {s}
           /\ chain' = [chain EXCEPT ![BucketOf[want[c]]] = Append(@, s)]
           /\ sessName' = [sessName EXCEPT ![s] = want[c]]
           /\ keyLive' = [keyLive EXCEPT ![s] = TRUE]
           /\ members' = [members EXCEPT ![s] = <<>>]
           /\ listLive' = [listLive EXCEPT ![s] = TRUE]
           /\ cur' = [cur EXCEPT ![c] = s]
           /\ pc[c] = "create" /\ pc' = [pc EXCEPT ![c] = "createJoin"]
           /\ want[c] \in Name
           /\ fault = "none" /\ UNCHANGED <<want, connVars, fault>>
<1>. DEFINE s == CHOOSE t \in FreeEntries : TRUE
<1>1. s \in FreeEntries
  BY DEF CreateInsert
<1>2. s \in SessId /\ s \notin ToSet(order)
  BY <1>1 DEF FreeEntries
<1>3. /\ order' = Append(order, s)
      /\ chain' = [chain EXCEPT ![BucketOf[want[c]]] = Append(@, s)]
      /\ sessName' = [sessName EXCEPT ![s] = want[c]]
      /\ keyLive' = [keyLive EXCEPT ![s] = TRUE]
      /\ members' = [members EXCEPT ![s] = <<>>]
      /\ listLive' = [listLive EXCEPT ![s] = TRUE]
      /\ cur' = [cur EXCEPT ![c] = s]
      /\ pc[c] = "create" /\ pc' = [pc EXCEPT ![c] = "createJoin"]
      /\ fault = "none" /\ UNCHANGED <<want, connVars, fault>>
  BY DEF CreateInsert, At, Goto
<1>. HIDE DEF s
<1>4. order' \in Seq(SessId) /\ ToSet(order') = ToSet(order) \cup {s}
  BY <1>2, <1>3, AppendElements DEF ServerInv, TypeOK, TableTyped
<1>5. want[c] \in Name
  BY <1>3 DEF ServerInv, TypeOK, ThreadsTyped
<1>. QED  BY <1>2, <1>3, <1>4, <1>5

(* NEW_SESS points at the entry it has just listed.                        *)
LEMMA FaultCreates ==
  ASSUME ServerInv, FaultInv, NEW c \in Conn, CreateInsert(c)
  PROVE  FaultInv'
<1>1. PICK s \in SessId :
        /\ ToSet(order') = ToSet(order) \cup {s}
        /\ members' = [members EXCEPT ![s] = <<>>]
        /\ listLive' = [listLive EXCEPT ![s] = TRUE]
        /\ cur' = [cur EXCEPT ![c] = s]
        /\ pc[c] = "create" /\ pc' = [pc EXCEPT ![c] = "createJoin"]
        /\ fault = "none" /\ fault' = "none"
  BY NewEntry
<1>2. PointsListed'
  BY <1>1 DEF ServerInv, FaultInv, PointsListed, TypeOK, ThreadsTyped
<1>3. FreedEmpty'
  BY <1>1, ListedEntry DEF ServerInv, FaultInv, FreedEmpty, TypeOK, TableTyped
<1>. QED  BY <1>1, <1>2, <1>3 DEF FaultInv, FaultsFromLeave

(* A client leaves a listed session whose list is not freed.               *)
LEMMA FaultLeaves ==
  ASSUME ServerInv, FaultInv, NEW c \in Conn,
         LeaveUnlink(c) \/ LeaveFree(c)
  PROVE  FaultInv'
<1>. USE DEF ServerInv
<1>1. CASE LeaveUnlink(c)
  <2>1. pc[c] = "leave" /\ fault = "none"
    BY <1>1 DEF LeaveUnlink, At
  <2>2. PICK s \in OwnSession(c) :
          \/ Fault("null") \/ Fault("freed")
          \/ /\ s # NoSess /\ ~SearchFaults(s, c)
             /\ members' = [members EXCEPT ![s] = Without(s, c)]
             /\ cur' = [cur EXCEPT ![c] = s]
             /\ pc' = [pc EXCEPT ![c] = "leaveFree"]
             /\ UNCHANGED <<order, listLive, fault>>
    BY <1>1 DEF LeaveUnlink, Goto
  <2>3. CASE Fault("null") \/ Fault("freed")
    <3>1. Explained
      BY <2>1 DEF Explained
    <3>. QED  BY <2>3, <3>1, FaultSame DEF Fault
  <2>4. CASE ~(Fault("null") \/ Fault("freed"))
    <3>1. s \in ToSet(order)
      <4>1. sessionID[c] # NoString => sessionID[c].name \in Name
        BY DEF TypeOK, ConnsTyped
      <4>. QED  BY <2>2, <2>4, <4>1, FoundListed DEF OwnSession
    <3>2. s \in SessId /\ listLive[s]
      BY <2>2, <2>4, <3>1, ListedEntry DEF SearchFaults
    <3>3. PointsListed'
      BY <2>2, <2>4, <3>1 DEF FaultInv, PointsListed, TypeOK, ThreadsTyped
    <3>4. FreedEmpty'
      BY <2>2, <2>4, <3>2, ListedEntry DEF FaultInv, FreedEmpty, TypeOK, TableTyped
    <3>. QED  BY <2>1, <2>2, <2>4, <3>3, <3>4 DEF FaultInv, FaultsFromLeave
  <2>. QED  BY <2>3, <2>4
<1>2. CASE LeaveFree(c)
  <2>1. /\ pc[c] = "leaveFree" /\ fault = "none"
        /\ cur[c] \in SessId /\ cur[c] \in ToSet(order)
    BY <1>2 DEF LeaveFree, At, FaultInv, PointsListed, TypeOK, ThreadsTyped
  <2>2. CASE ~listLive[cur[c]]
    <3>1. Fault("freed")
      BY <1>2, <2>2 DEF LeaveFree
    <3>2. Explained
      BY <2>1, <2>2 DEF FaultInv, FreedEmpty, Explained
    <3>. QED  BY <3>1, <3>2, FaultSame DEF Fault
  <2>3. CASE listLive[cur[c]]
    <3>1. /\ listLive' = [listLive EXCEPT ![cur[c]] = members[cur[c]] # <<>>]
          /\ cur' = [cur EXCEPT ![c] = NoSess] /\ pc' = [pc EXCEPT ![c] = "recv"]
          /\ UNCHANGED <<order, members, fault>>
      BY <1>2, <2>3 DEF LeaveFree, Goto
    <3>2. PointsListed'
      BY <3>1 DEF FaultInv, PointsListed, TypeOK, ThreadsTyped
    <3>3. FreedEmpty'
      BY <3>1, ListedEntry DEF FaultInv, FreedEmpty, TypeOK, TableTyped
    <3>. QED  BY <2>1, <3>1, <3>2, <3>3 DEF FaultInv, FaultsFromLeave
  <2>. QED  BY <2>2, <2>3
<1>. QED  BY <1>1, <1>2

(* What a step of the walk of EXIT over the table does.                    *)
LEMMA Visit ==
  ASSUME ServerInv, FaultInv, NEW c \in Conn, ExitVisit(c), NEW s, s = cur[c]
  PROVE  /\ pc[c] = "exit" /\ fault = "none" /\ s \in ToSet(order) /\ s \in SessId
         /\ \/ /\ SearchFaults(s, c) \/ ~keyLive[s]
               /\ Fault("freed")
            \/ \E v \in IF members[s] # <<>> /\ Without(s, c) = <<>> THEN HtFind(sessName[s])
                       ELSE {NoSess} :
                 /\ IF v = NoSess THEN UNCHANGED <<order, chain, sessName, keyLive>>
                    ELSE v \in ToSet(order) /\ HtUnlink(v)
                 /\ ~SearchFaults(s, c) /\ listLive[s]
                 /\ \/ cur'[c] \in ToSet(order') \cup {NoSess} /\ fault' = "none"
                    \/ v = s /\ fault' = "freed" /\ cur'[c] = s
                 /\ \A d \in Conn \ {c} : cur'[d] = cur[d]
                 /\ members' = [members EXCEPT ![s] = Without(s, c)]
                 /\ UNCHANGED <<pc, want, connVars, listLive>>
<1>. USE DEF ServerInv
<1>1. pc[c] = "exit" /\ fault = "none" /\ s # NoSess
  BY DEF ExitVisit, At
<1>2. s \in ToSet(order) /\ s \in SessId /\ sessName[s] \in Name
  BY <1>1, ListedEntry DEF FaultInv, PointsListed
<1>3. CASE Fault("freed") /\ (SearchFaults(s, c) \/ ~keyLive[s])
  BY <1>1, <1>2, <1>3
<1>4. CASE ~(Fault("freed") /\ (SearchFaults(s, c) \/ ~keyLive[s]))
  <2>1. PICK v \in IF members[s] # <<>> /\ Without(s, c) = <<>> THEN HtFind(sessName[s])
                   ELSE {NoSess} :
          /\ IF v = NoSess THEN UNCHANGED <<order, chain, sessName, keyLive>> ELSE HtUnlink(v)
          /\ ExitNext(c, v)
          /\ members' = [members EXCEPT ![s] = Without(s, c)]
          /\ UNCHANGED <<pc, want, connVars, listLive>>
    BY <1>2, <1>4 DEF ExitVisit
  <2>2. ~SearchFaults(s, c) /\ listLive[s]
    BY <1>2, <1>4 DEF ExitVisit, SearchFaults
  <2>3. v # NoSess => v \in ToSet(order)
    BY <1>2, <2>1, FoundListed
  <2>4. order \in Seq(SessId) /\ Once(order, SessId)
    BY DEF TypeOK, TableTyped, ChainsInOrder
  <2>5. \/ /\ cur'[c] = NextIn(IF v = s THEN order ELSE RemoveFirst(order, v), s)
           /\ fault' = "none"
        \/ v = s /\ fault' = "freed" /\ cur'[c] = s
    BY <1>1, <2>1 DEF ExitNext, TypeOK, ThreadsTyped
  <2>6. \A d \in Conn \ {c} : cur'[d] = cur[d]
    BY <2>1 DEF ExitNext, TypeOK, ThreadsTyped
  <2>7. NextIn(IF v = s THEN order ELSE RemoveFirst(order, v), s) \in ToSet(order') \cup {NoSess}
    <3>1. CASE v = s
      <4>1. order' = RemoveFirst(order, s)
        BY <1>1, <2>1, <3>1 DEF HtUnlink
      <4>2. \A x \in ToSet(order) : x # s => x \in ToSet(order')
        BY <2>4, <4>1, RemoveFirstElements
      <4>. QED  BY <1>2, <2>4, <3>1, <4>2, NextInList
    <3>2. CASE v # s
      <4>1. order' = RemoveFirst(order, v)
        BY <2>1, <2>4, NotThere, NoSessNotSessId DEF HtUnlink
      <4>2. order' \in Seq(SessId) /\ Once(order', SessId)
        BY <2>4, <4>1, RemoveFirstElements, RemoveFirstOnce
      <4>. QED  BY <1>2, <3>2, <4>1, <4>2, NextInList
    <3>. QED  BY <3>1, <3>2
  <2>. QED  BY <1>1, <1>2, <2>1, <2>2, <2>3, <2>5, <2>6, <2>7
<1>. QED  BY <1>3, <1>4

(* EXIT takes out of the table no entry that another handler points at, but*)
(* it may be left on the entry it took out itself.                         *)
LEMMA FaultVisits ==
  ASSUME ServerInv, FaultInv, NEW c \in Conn, ExitVisit(c)
  PROVE  FaultInv'
<1>. USE DEF ServerInv
<1>0. PICK s : s = cur[c]
  OBVIOUS
<1>1. pc[c] = "exit" /\ fault = "none" /\ s \in ToSet(order) /\ s \in SessId
  BY <1>0, Visit
<1>2. CASE Fault("freed") /\ (SearchFaults(s, c) \/ ~keyLive[s])
  <2>1. CASE ~keyLive[s] \/ ~listLive[s]
    BY <1>1, <1>2, <2>1, FaultSame DEF FaultInv, FreedEmpty, Explained, Fault
  <2>2. CASE \E i \in DOMAIN members[s] : ~Live(members[s][i])
    BY <1>1, <1>2, <2>2, FaultSame DEF GoneMember, ToSet, Explained, Fault
  <2>. QED  BY <1>2, <2>1, <2>2 DEF SearchFaults
<1>3. ASSUME NEW v,
             IF v = NoSess THEN UNCHANGED order ELSE v \in ToSet(order) /\ HtUnlink(v),
             listLive[s],
             \/ cur'[c] \in ToSet(order') \cup {NoSess} /\ fault' = "none"
             \/ v = s /\ fault' = "freed" /\ cur'[c] = s,
             \A d \in Conn \ {c} : cur'[d] = cur[d],
             members' = [members EXCEPT ![s] = Without(s, c)],
             UNCHANGED <<pc, listLive>>
      PROVE  FaultInv'
  <2>0. order \in Seq(SessId) /\ Once(order, SessId)
    BY DEF TypeOK, TableTyped, ChainsInOrder
  <2>1. ToSet(order') \subseteq ToSet(order)
    BY <1>3, <2>0, RemoveFirstElements DEF HtUnlink
  <2>2. \A d \in Conn \ {c} : pc[d] \in {"free", "accept", "recv", "close", "release"}
    BY <1>1, OthersOut DEF InHandler, Open
  <2>3. fault' = "none" => PointsListed'
    BY <1>1, <1>3, <2>2 DEF PointsListed
  <2>4. FreedEmpty'
    BY <1>1, <1>3, <2>1, ListedEntry DEF FaultInv, FreedEmpty, TypeOK, TableTyped
  <2>5. fault' = "freed" => ExitOnFreed'
    <3>1. ASSUME v = s, cur'[c] = s  PROVE ExitOnFreed'
      <4>1. order' = RemoveFirst(order, s)
        BY <1>1, <1>3, <3>1, NoSessNotSessId DEF HtUnlink
      <4>2. s \notin ToSet(order')
        BY <1>1, <2>0, <4>1, RemoveFirstOnce
      <4>. QED  BY <1>1, <1>3, <3>1, <4>2 DEF ExitOnFreed
    <3>. QED  BY <1>3, <3>1
  <2>. QED  BY <1>1, <1>3, <2>3, <2>4, <2>5 DEF FaultInv, PointsListed, FaultsFromLeave
<1>. QED  BY <1>0, <1>1, <1>2, <1>3, Visit

(* Where the walks of EXIT and QUERY start.                                *)
LEMMA HeadListed ==
  ASSUME NEW q \in Seq(SessId)
  PROVE  (IF q = <<>> THEN NoSess ELSE Head(q)) \in ToSet(q) \cup {NoSess}
<1>1. CASE q # <<>>
  <2>1. Head(q) = q[1] /\ 1 \in DOMAIN q
    BY <1>1, HeadTailProperties, LenProperties, EmptySeq
  <2>. QED  BY <1>1, <2>1 DEF ToSet
<1>. QED  BY <1>1

(* Every step keeps the pointers on listed entries.                        *)
LEMMA FaultStep ==
  ASSUME Serial, ServerInv, FaultInv, [Next]_vars
  PROVE  FaultInv'
<1>. USE DEF ServerInv
<1>1. CASE UNCHANGED vars
  BY <1>1, FaultSame DEF vars
<1>2. ASSUME NEW c \in Conn, NEW t, Refuse(c, t)  PROVE FaultInv'
  BY <1>2, FaultSame DEF Refuse
<1>3. ASSUME NEW c \in Conn,
             \/ GetThreadInfo(c) \/ Accept(c) \/ Disconnect(c) \/ Close(c) \/ Release(c)
             \/ LoginInsert(c)
      PROVE  FaultInv'
  <2>1. /\ \E l \in {"accept", "recv", "close", "release", "free"} : pc' = [pc EXCEPT ![c] = l]
        /\ fault = "none" /\ fault' = "none" /\ UNCHANGED <<cur, tableVars>>
    BY <1>3 DEF GetThreadInfo, Accept, Disconnect, Close, Release, LoginInsert, At, Goto
  <2>. QED  BY <2>1, FaultQuiet DEF tableVars
<1>4. ASSUME NEW c \in Conn, NEW u \in User, NEW good \in BOOLEAN, LoginCheck(c, u, good)
      PROVE  FaultInv'
  <2>1. \/ Refuse(c, "LO_NAK")
        \/ pc' = [pc EXCEPT ![c] = "login"] /\ fault = "none" /\ fault' = "none" /\ UNCHANGED <<cur, tableVars>>
    BY <1>4 DEF LoginCheck, Receives, Goto
  <2>. QED  BY <2>1, <1>2, FaultQuiet DEF tableVars
<1>5. ASSUME NEW c \in Conn, NEW u \in User, NEW n \in Name, JoinFind(c, u, n)
      PROVE  FaultInv'
  <2>1. \/ \E t \in Replies : Refuse(c, t)
        \/ \E s \in HtFind(n) :
             /\ s # NoSess /\ pc' = [pc EXCEPT ![c] = "join"] /\ fault = "none" /\ fault' = "none"
             /\ cur' = [cur EXCEPT ![c] = s] /\ UNCHANGED tableVars
    BY <1>5 DEF JoinFind, Receives, Goto, Replies
  <2>2. ASSUME NEW s \in HtFind(n), s # NoSess, pc' = [pc EXCEPT ![c] = "join"],
               fault = "none", fault' = "none", cur' = [cur EXCEPT ![c] = s], UNCHANGED tableVars
        PROVE  FaultInv'
    <3>1. s \in ToSet(order)
      BY <2>2, FoundListed
    <3>2. cur'[c] = s /\ \A d \in Conn \ {c} : cur'[d] = cur[d]
      BY <2>2 DEF TypeOK, ThreadsTyped
    <3>3. order' = order
      BY <2>2 DEF tableVars
    <3>. QED  BY <2>2, <3>1, <3>2, <3>3, FaultQuiet DEF tableVars
  <2>. QED  BY <2>1, <2>2, <1>2
<1>6. ASSUME NEW c \in Conn, NEW u \in User, NEW n \in Name,
             CreateFind(c, u, n) \/ LeaveFind(c, u, n)
      PROVE  FaultInv'
  <2>1. \/ \E t \in Replies : Refuse(c, t)
        \/ \E l \in {"create", "leave"} :
             /\ pc' = [pc EXCEPT ![c] = l] /\ fault = "none" /\ fault' = "none"
             /\ UNCHANGED <<cur, tableVars>>
    BY <1>6 DEF CreateFind, LeaveFind, Receives, Goto, Replies
  <2>. QED  BY <2>1, <1>2, FaultQuiet DEF tableVars
<1>7. ASSUME NEW c \in Conn, ExitStart(c) \/ \E u \in User : QueryStart(c, u)
      PROVE  FaultInv'
  <2>1. \/ \E t \in Replies : Refuse(c, t)
        \/ \E l \in {"exit", "query"} :
             /\ pc' = [pc EXCEPT ![c] = l] /\ fault = "none" /\ fault' = "none" /\ UNCHANGED tableVars
             /\ cur' = [cur EXCEPT ![c] = IF order = <<>> THEN NoSess ELSE Head(order)]
    BY <1>7 DEF ExitStart, QueryStart, Receives, Goto, Replies
  <2>2. ASSUME NEW l \in {"exit", "query"}, pc' = [pc EXCEPT ![c] = l], fault = "none", fault' = "none",
               UNCHANGED tableVars,
               cur' = [cur EXCEPT ![c] = IF order = <<>> THEN NoSess ELSE Head(order)]
        PROVE  FaultInv'
    <3>1. /\ cur'[c] = (IF order = <<>> THEN NoSess ELSE Head(order))
          /\ \A d \in Conn \ {c} : cur'[d] = cur[d]
      BY <2>2 DEF TypeOK, ThreadsTyped
    <3>2. order' = order /\ order \in Seq(SessId)
      BY <2>2 DEF tableVars, TypeOK, TableTyped
    <3>3. cur'[c] \in ToSet(order) \cup {NoSess}
      BY <3>1, <3>2, HeadListed
    <3>. QED  BY <2>2, <3>1, <3>2, <3>3, FaultQuiet DEF tableVars
  <2>. QED  BY <2>1, <2>2, <1>2
<1>8. ASSUME NEW c \in Conn, ExitLogin(c)  PROVE FaultInv'
  <2>1. pc[c] = "exit" /\ fault = "none" /\ clientID[c] \in ToSet(connections)
    <3>1. pc[c] = "exit" /\ fault = "none"
      BY <1>8 DEF ExitLogin, At
    <3>2. clientID[c] # NoUser
      BY <3>1, ServerAssumption DEF LoginInv
    <3>. QED  BY <3>1, <3>2 DEF LoginInv, LoginsHeld, LoggedIn, Open
  <2>2. pc' = [pc EXCEPT ![c] = "close"] /\ fault' = "none" /\ UNCHANGED <<cur, tableVars>>
    BY <1>8, <2>1 DEF ExitLogin, Goto
  <2>. QED  BY <2>1, <2>2, FaultQuiet DEF tableVars
<1>9. ASSUME NEW c \in Conn, QueryVisit(c)  PROVE FaultInv'
  <2>1. pc[c] = "query" /\ fault = "none" /\ cur[c] # NoSess /\ cur[c] \in ToSet(order)
    BY <1>9 DEF QueryVisit, At, FaultInv, PointsListed
  <2>2. CASE ~listLive[cur[c]]
    <3>1. Fault("freed") /\ Explained
      BY <1>9, <2>1, <2>2 DEF QueryVisit, FaultInv, FreedEmpty, Explained
    <3>. QED  BY <3>1, FaultSame DEF Fault
  <2>3. CASE listLive[cur[c]]
    <3>1. /\ cur' = [cur EXCEPT ![c] = NextIn(order, cur[c])]
          /\ fault' = "none" /\ UNCHANGED <<pc, tableVars>>
      BY <1>9, <2>1, <2>3 DEF QueryVisit
    <3>2. NextIn(order, cur[c]) \in ToSet(order) \cup {NoSess}
      BY <2>1, ListedEntry, NextInList DEF TypeOK, TableTyped, ChainsInOrder
    <3>3. pc' = [pc EXCEPT ![c] = "query"]
      BY <2>1, <3>1 DEF TypeOK, ThreadsTyped
    <3>4. /\ cur'[c] = NextIn(order, cur[c]) /\ \A d \in Conn \ {c} : cur'[d] = cur[d]
          /\ order' = order
      BY <3>1 DEF TypeOK, ThreadsTyped, tableVars
    <3>. QED  BY <2>1, <3>1, <3>2, <3>3, <3>4, FaultQuiet DEF tableVars
  <2>. QED  BY <2>2, <2>3
<1>10. ASSUME NEW c \in Conn, QueryReply(c)  PROVE FaultInv'
  BY <1>10, FaultQuiet DEF QueryReply, At, Goto, tableVars
<1>11. ASSUME NEW c \in Conn, NEW u \in User, NEW n \in Name, Message(c, u, n)
       PROVE  FaultInv'
  <2>1. \/ \E t \in Replies : Refuse(c, t)
        \/ UNCHANGED <<pc, cur, tableVars, fault>>
        \/ \E s \in HtFind(n) :
             /\ s # NoSess /\ Fault("freed")
             /\ ~listLive[s] \/ \E d \in ToSet(members[s]) : ~Live(d)
    BY <1>11 DEF Message, Replies
  <2>2. ASSUME NEW s \in HtFind(n), s # NoSess, Fault("freed"),
               ~listLive[s] \/ \E d \in ToSet(members[s]) : ~Live(d)
        PROVE  FaultInv'
    <3>1. s \in ToSet(order)
      BY <2>2, FoundListed
    <3>2. Explained
      BY <2>2, <3>1 DEF FaultInv, FreedEmpty, Explained, GoneMember
    <3>. QED  BY <2>2, <3>2, FaultSame DEF Fault
  <2>. QED  BY <2>1, <2>2, <1>2, FaultSame
<1>. QED  BY <1>1, <1>3, <1>4, <1>5, <1>6, <1>7, <1>8, <1>9, <1>10, <1>11,
              FaultEnters, FaultCreates, FaultLeaves, FaultVisits DEF Next

(* A handler that runs alone follows a pointer that is NULL or into freed  *)
(* memory only in the ways that FaultsFromLeave lists, the next field of   *)
(* the entry EXIT has just had freed among them.                           *)
THEOREM FaultsFromLeaveCorrect == ASSUME Serial PROVE Spec => []FaultsFromLeave
<1>1. Spec => []ServerInv
  BY ServerInvariant
<1>2. ServerInv /\ FaultInv /\ [Next]_vars => FaultInv'
  BY FaultStep
<1>3. FaultInv => FaultsFromLeave
  BY DEF FaultInv
<1>. QED  BY <1>1, <1>2, <1>3, FaultInit, PTL DEF Spec

-----------------------------------------------------------------------------
(* What the table holds when no client sends LEAVE_SESS and no two names   *)
(* share a bucket.                                                         *)

(* Nothing that a handler may reach is freed.                              *)
Alive == \A s \in SessId : keyLive[s] /\ listLive[s]

NoLeaving == \A c \in Conn : pc[c] \notin {"leave", "leaveFree"}

(* A session is alone in its bucket.                                       *)
OneEach == \A s \in ToSet(order) : chain[BucketOf[sessName[s]]] = <<s>>

(* What a handler has found out by the time it enters or creates a session,*)
(* and who has a session at all.                                           *)
Names ==
  \A c \in Conn :
    /\ pc[c] = "create" => chain[BucketOf[want[c]]] = <<>>
    /\ pc[c] \in {"join", "createJoin"} => sessName[cur[c]] = want[c]
    /\ pc[c] \in {"join", "create", "createJoin"} => clientID[c] # NoUser
    /\ clientID[c] = NoUser => sessionID[c] = NoString

SessInv ==
  Alive /\ NoLeaving /\ OneEach /\ Names /\ NoEmptySession /\ SessionIDBacked /\ FaultsFromGone

(* What TypeOK, LoginInv and PointsListed add to it.                       *)
AllInv == ServerInv /\ FaultInv /\ SessInv

(* The table is empty.                                                     *)
LEMMA SessInit == Init => SessInv
BY DEF Init, SessInv, Alive, NoLeaving, OneEach, Names, NoEmptySession, SessionIDBacked,
       FaultsFromGone, LoggedIn, Open, ToSet

(* A bucket with an entry is not empty.                                    *)
LEMMA OneIsSome == ASSUME NEW x PROVE <<x>> # <<>>
<1>1. Len(<<x>>) = 1 /\ Len(<<>>) = 0
  OBVIOUS
<1>. QED  BY <1>1

(* A look-up finds the session of that name, or an empty bucket.           *)
LEMMA FindExact ==
  ASSUME Injective, ServerInv, Alive, OneEach, NEW n \in Name, NEW s \in HtFind(n)
  PROVE  /\ s = NoSess => chain[BucketOf[n]] = <<>>
         /\ s # NoSess => s \in ToSet(order) /\ sessName[s] = n
<1>. DEFINE q == chain[BucketOf[n]]
<1>1. BucketOf[n] \in Bucket /\ q \in Seq(SessId)
  BY DEF Bucket, ServerInv, TypeOK, TableTyped
<1>2. CASE q = <<>>
  BY <1>1, <1>2, HtFindType DEF ServerInv, TypeOK, ToSet
<1>3. CASE q # <<>>
  <2>1. Len(q) \in Nat /\ DOMAIN q = 1 .. Len(q) /\ Len(q) # 0
    BY <1>1, <1>3, LenProperties, EmptySeq
  <2>2. 1 \in DOMAIN q
    BY <2>1
  <2>. DEFINE e == q[1]
  <2>3. e \in ToSet(order) /\ BucketOf[sessName[e]] = BucketOf[n]
    BY <1>1, <2>2 DEF ServerInv, ChainsInOrder, ToSet
  <2>4. e \in SessId /\ e # NoSess /\ sessName[e] \in Name
    BY <2>3, ListedEntry DEF ServerInv
  <2>5. sessName[e] = n /\ keyLive[e]
    BY <2>3, <2>4 DEF Injective, Alive
  <2>6. q = <<e>>
    BY <2>3 DEF OneEach
  <2>7. s \in ToSet(q) \/ \A i \in DOMAIN q : ~(keyLive[q[i]] /\ sessName[q[i]] = n)
    BY DEF HtFind, ToSet
  <2>8. s \in ToSet(q)
    BY <2>2, <2>5, <2>7
  <2>9. s = e
    BY <2>6, <2>8 DEF ToSet
  <2>. QED  BY <2>3, <2>4, <2>5, <2>9
<1>. QED  BY <1>2, <1>3

(* Every listed session is found.                                          *)
LEMMA FindsEach ==
  ASSUME Injective, ServerInv, Alive, OneEach
  PROVE  Findable
<1>1. SUFFICES ASSUME NEW s \in ToSet(order)  PROVE HtFind(sessName[s]) = {s}
  BY DEF Findable
<1>. DEFINE n == sessName[s]
            q == chain[BucketOf[n]]
<1>2. s \in SessId /\ s # NoSess /\ n \in Name /\ keyLive[s]
  BY ListedEntry DEF ServerInv, Alive
<1>3. q = <<s>>
  BY DEF OneEach
<1>4. DOMAIN q = {1} /\ q[1] = s
  BY <1>3
<1>5. s \in HtFind(n)
  BY <1>2, <1>4 DEF HtFind
<1>6. ASSUME NEW t \in HtFind(n)  PROVE t = s
  <2>1. t # NoSess
    BY <1>2, <1>3, <1>6, FindExact, OneIsSome
  <2>2. t \in ToSet(q)
    BY <1>2, <1>6, <2>1, HtFindType DEF ServerInv, TypeOK
  <2>. QED  BY <1>4, <2>2 DEF ToSet
<1>. QED  BY <1>5, <1>6

(* A step that leaves the table alone.                                     *)
LEMMA SessQuiet ==
  ASSUME ServerInv, SessInv, NEW c \in Conn, NEW l, pc' = [pc EXCEPT ![c] = l],
         UNCHANGED tableVars, fault' = "none", pc[c] # "createJoin",
         l \notin {"leave", "leaveFree", "createJoin"},
         \A d \in Conn \ {c} : /\ want'[d] = want[d] /\ cur'[d] = cur[d]
                               /\ clientID'[d] = clientID[d] /\ sessionID'[d] = sessionID[d],
         l = "create" => chain[BucketOf[want'[c]]] = <<>>,
         l = "join" => sessName[cur'[c]] = want'[c],
         l \in {"join", "create"} => clientID'[c] # NoUser,
         clientID'[c] = NoUser => sessionID'[c] = NoString,
         \/ sessionID'[c] = NoString \/ l \in {"free", "accept", "close", "release", "exit"}
         \/ LoggedIn(c) /\ pc[c] # "exit" /\ sessionID'[c] = sessionID[c]
  PROVE  SessInv'
<1>. USE DEF tableVars
<1>1. \A d \in Conn : pc'[d] = IF d = c THEN l ELSE pc[d]
  BY DEF ServerInv, TypeOK, ThreadsTyped
<1>2. Alive' /\ NoLeaving' /\ OneEach'
  BY <1>1 DEF SessInv, Alive, NoLeaving, OneEach
<1>3. Names'
  BY <1>1 DEF SessInv, Names
<1>4. NoEmptySession'
  <2>1. ASSUME NEW s \in ToSet(order), NEW d \in Conn, pc[d] = "createJoin" /\ cur[d] = s
        PROVE  pc'[d] = "createJoin" /\ cur'[d] = s
    BY <1>1, <2>1
  <2>. QED  BY <2>1 DEF SessInv, NoEmptySession
<1>5. SessionIDBacked'
  BY <1>1 DEF SessInv, SessionIDBacked, LoggedIn, Open
<1>. QED  BY <1>2, <1>3, <1>4, <1>5 DEF SessInv, FaultsFromGone

(* A step that changes nothing but what is sent.                           *)
LEMMA SessSame ==
  ASSUME SessInv, UNCHANGED <<pc, want, cur, connVars, tableVars>>, fault' = fault \/ GoneMember
  PROVE  SessInv'
<1>. USE DEF connVars, tableVars
<1>1. (GoneMember => GoneMember') /\ (ExitOnFreed => ExitOnFreed')
  BY DEF GoneMember, ExitOnFreed, Live
<1>2. FaultsFromGone'
  BY <1>1 DEF SessInv, FaultsFromGone
<1>. QED  BY <1>2 DEF SessInv, Alive, NoLeaving, OneEach, Names, NoEmptySession, SessionIDBacked,
                      LoggedIn, Open

(* A client enters the session it found or created.                        *)
LEMMA SessEnters ==
  ASSUME ServerInv, FaultInv, SessInv, NEW c \in Conn, JoinInsert(c) \/ CreateJoin(c)
  PROVE  SessInv'
<1>. DEFINE s == cur[c]
<1>1. /\ pc[c] \in {"join", "createJoin"} /\ fault = "none"
      /\ s \in SessId /\ s \in ToSet(order) /\ listLive[s]
  BY DEF JoinInsert, CreateJoin, At, FaultInv, PointsListed, ServerInv, TypeOK, ThreadsTyped,
         SessInv, Alive
<1>2. PICK key : /\ sessionID' = [sessionID EXCEPT ![c] = [name |-> want[c], key |-> key]]
                 /\ members' = [members EXCEPT ![s] = Append(@, c)]
                 /\ pc' = [pc EXCEPT ![c] = "recv"]
                 /\ want' = [want EXCEPT ![c] = Nothing]
                 /\ cur' = [cur EXCEPT ![c] = NoSess]
                 /\ UNCHANGED <<clientID, order, chain, sessName, keyLive, listLive, fault>>
  BY <1>1 DEF JoinInsert, CreateJoin, Enter, Goto
<1>3. /\ \A d \in Conn : pc'[d] = IF d = c THEN "recv" ELSE pc[d]
      /\ \A d \in Conn \ {c} : want'[d] = want[d] /\ cur'[d] = cur[d]
      /\ \A d \in Conn \ {c} : sessionID'[d] = sessionID[d]
      /\ sessionID'[c].name = want[c]
  BY <1>2 DEF ServerInv, TypeOK, ThreadsTyped, ConnsTyped
<1>4. /\ \A t \in SessId : t # s => members'[t] = members[t]
      /\ ToSet(members'[s]) = ToSet(members[s]) \cup {c}
  BY <1>1, <1>2, AppendElements DEF ServerInv, TypeOK, TableTyped
<1>5. members'[s] # <<>>
  BY <1>4 DEF ToSet
<1>6. Alive' /\ NoLeaving' /\ OneEach'
  BY <1>2, <1>3 DEF SessInv, Alive, NoLeaving, OneEach
<1>7. Names'
  <2>1. clientID[c] # NoUser
    BY <1>1 DEF SessInv, Names
  <2>. QED  BY <1>2, <1>3, <2>1 DEF SessInv, Names
<1>8. NoEmptySession'
  <2>1. ASSUME NEW t \in ToSet(order), t # s
        PROVE  members'[t] # <<>> \/ \E d \in Conn : pc'[d] = "createJoin" /\ cur'[d] = t
    <3>1. t \in SessId
      BY <2>1, ListedEntry DEF ServerInv
    <3>2. members[t] # <<>> \/ \E d \in Conn \ {c} : pc[d] = "createJoin" /\ cur[d] = t
      BY <2>1 DEF SessInv, NoEmptySession
    <3>. QED  BY <1>3, <1>4, <2>1, <3>1, <3>2
  <2>. QED  BY <1>2, <1>5, <2>1 DEF NoEmptySession
<1>9. SessionIDBacked'
  <2>1. sessName[s] = want[c]
    BY <1>1 DEF SessInv, Names
  <2>2. \A t \in ToSet(order) : ToSet(members[t]) \subseteq ToSet(members'[t])
    BY <1>4, ListedEntry DEF ServerInv
  <2>3. \E t \in ToSet(order) : sessName[t] = sessionID'[c].name /\ c \in ToSet(members'[t])
    BY <1>1, <1>3, <1>4, <2>1
  <2>4. ASSUME NEW d \in Conn, d # c, LoggedIn(d)', pc'[d] # "exit", sessionID'[d] # NoString
        PROVE  \E t \in ToSet(order) : sessName[t] = sessionID'[d].name /\ d \in ToSet(members'[t])
    <3>1. LoggedIn(d) /\ pc[d] # "exit" /\ sessionID[d] # NoString /\ sessionID'[d] = sessionID[d]
      BY <1>2, <1>3, <2>4 DEF LoggedIn, Open
    <3>. QED  BY <2>2, <3>1 DEF SessInv, SessionIDBacked
  <2>. QED  BY <1>2, <2>3, <2>4 DEF SessionIDBacked
<1>. QED  BY <1>1, <1>2, <1>6, <1>7, <1>8, <1>9 DEF SessInv, FaultsFromGone

(* A new session is put in an empty bucket.                                *)
LEMMA SessCreates ==
  ASSUME ServerInv, FaultInv, SessInv, NEW c \in Conn, CreateInsert(c)
  PROVE  SessInv'
<1>1. PICK s \in SessId :
        /\ s \notin ToSet(order) /\ ToSet(order') = ToSet(order) \cup {s}
        /\ chain' = [chain EXCEPT ![BucketOf[want[c]]] = Append(@, s)]
        /\ sessName' = [sessName EXCEPT ![s] = want[c]]
        /\ keyLive' = [keyLive EXCEPT ![s] = TRUE]
        /\ members' = [members EXCEPT ![s] = <<>>]
        /\ listLive' = [listLive EXCEPT ![s] = TRUE]
        /\ cur' = [cur EXCEPT ![c] = s]
        /\ pc[c] = "create" /\ pc' = [pc EXCEPT ![c] = "createJoin"]
        /\ want[c] \in Name
        /\ fault = "none" /\ UNCHANGED <<want, connVars, fault>>
  BY NewEntry
<1>. DEFINE b == BucketOf[want[c]]
<1>2. /\ \A d \in Conn : pc'[d] = IF d = c THEN "createJoin" ELSE pc[d]
      /\ \A d \in Conn \ {c} : cur'[d] = cur[d] /\ pc[d] \in {"free", "accept", "recv", "close", "release"}
      /\ cur'[c] = s
  BY <1>1, OthersOut DEF InHandler, Open, ServerInv, TypeOK, ThreadsTyped
<1>3. \A t \in ToSet(order) : /\ t \in SessId /\ t # s /\ sessName[t] \in Name
                              /\ sessName'[t] = sessName[t] /\ members'[t] = members[t]
  BY <1>1, ListedEntry DEF ServerInv, TypeOK, TableTyped
<1>4. sessName'[s] = want[c]
  BY <1>1 DEF ServerInv, TypeOK, TableTyped
<1>5. b \in Bucket /\ chain[b] = <<>>
  BY <1>1 DEF SessInv, Names, Bucket
<1>6. chain'[b] = <<s>>
  BY <1>1, <1>5 DEF ServerInv, TypeOK, TableTyped
<1>7. Alive'
  BY <1>1 DEF SessInv, Alive, ServerInv, TypeOK, TableTyped
<1>8. NoLeaving'
  BY <1>2 DEF SessInv, NoLeaving
<1>9. OneEach'
  <2>1. ASSUME NEW t \in ToSet(order)  PROVE chain'[BucketOf[sessName'[t]]] = <<t>>
    <3>1. chain[BucketOf[sessName[t]]] = <<t>> /\ BucketOf[sessName[t]] \in Bucket
      BY <1>3 DEF SessInv, OneEach, Bucket
    <3>2. BucketOf[sessName[t]] # b
      BY <1>5, <3>1, OneIsSome
    <3>. QED  BY <1>1, <1>3, <3>1, <3>2 DEF ServerInv, TypeOK, TableTyped
  <2>. QED  BY <1>1, <1>4, <1>6, <2>1 DEF OneEach
<1>10. Names'
  <2>1. clientID[c] # NoUser
    BY <1>1 DEF SessInv, Names
  <2>. QED  BY <1>1, <1>2, <1>4, <2>1 DEF SessInv, Names, connVars
<1>11. NoEmptySession'
  <2>1. \A t \in ToSet(order) : members[t] # <<>>
    BY <1>1, <1>2 DEF SessInv, NoEmptySession
  <2>. QED  BY <1>1, <1>2, <1>3, <2>1 DEF NoEmptySession
<1>12. SessionIDBacked'
  <2>1. ASSUME NEW d \in Conn, LoggedIn(d)', pc'[d] # "exit", sessionID'[d] # NoString
        PROVE  \E t \in ToSet(order) : sessName[t] = sessionID'[d].name /\ d \in ToSet(members[t])
    <3>1. LoggedIn(d) /\ pc[d] # "exit" /\ sessionID[d] # NoString /\ sessionID'[d] = sessionID[d]
      BY <1>1, <1>2, <2>1 DEF LoggedIn, Open, connVars
    <3>. QED  BY <3>1 DEF SessInv, SessionIDBacked
  <2>. QED  BY <1>1, <1>3, <2>1 DEF SessionIDBacked
<1>. QED  BY <1>1, <1>7, <1>8, <1>9, <1>10, <1>11, <1>12 DEF SessInv, FaultsFromGone

(* EXIT takes its client out of a session, and the session it empties out  *)
(* of the table.                                                           *)
LEMMA DropsLast ==
  ASSUME Injective, ServerInv, FaultInv, SessInv, NEW c \in Conn, ExitVisit(c),
         NEW s, s = cur[c]
  PROVE  /\ pc[c] = "exit" /\ fault = "none" /\ s \in ToSet(order) /\ s \in SessId
         /\ \/ Fault("freed") /\ GoneMember
            \/ /\ IF members[s] # <<>> /\ Without(s, c) = <<>> THEN HtUnlink(s)
                  ELSE UNCHANGED <<order, chain, sessName, keyLive>>
               /\ \/ fault' = "none"
                  \/ members[s] # <<>> /\ Without(s, c) = <<>> /\ fault' = "freed" /\ cur'[c] = s
               /\ \A d \in Conn \ {c} : cur'[d] = cur[d]
               /\ members' = [members EXCEPT ![s] = Without(s, c)]
               /\ UNCHANGED <<pc, want, connVars, listLive>>
<1>. DEFINE Drops == members[s] # <<>> /\ Without(s, c) = <<>>
<1>1. pc[c] = "exit" /\ fault = "none" /\ s \in ToSet(order) /\ s \in SessId
  BY Visit
<1>2. CASE Fault("freed") /\ (SearchFaults(s, c) \/ ~keyLive[s])
  <2>1. keyLive[s] /\ listLive[s]
    BY <1>1 DEF SessInv, Alive
  <2>. QED  BY <1>1, <1>2, <2>1 DEF SearchFaults, GoneMember, ToSet
<1>3. ASSUME NEW v \in IF Drops THEN HtFind(sessName[s]) ELSE {NoSess},
             IF v = NoSess THEN UNCHANGED <<order, chain, sessName, keyLive>>
             ELSE v \in ToSet(order) /\ HtUnlink(v)
      PROVE  /\ IF Drops THEN HtUnlink(s) ELSE UNCHANGED <<order, chain, sessName, keyLive>>
             /\ v = s => Drops
  <2>1. HtFind(sessName[s]) = {s}
    BY <1>1, FindsEach DEF SessInv, Findable
  <2>2. s # NoSess
    BY <1>1, NoSessNotSessId
  <2>. QED  BY <1>3, <2>1, <2>2
<1>. QED  BY <1>1, <1>2, <1>3, Visit

(* The clients that stay keep their places and their sessions.             *)
LEMMA SessVisits ==
  ASSUME Injective, ServerInv, FaultInv, SessInv, NEW c \in Conn, ExitVisit(c)
  PROVE  SessInv'
<1>. DEFINE s == cur[c]
            Drops == members[s] # <<>> /\ Without(s, c) = <<>>
<1>1. pc[c] = "exit" /\ fault = "none" /\ s \in ToSet(order) /\ s \in SessId
  BY DropsLast
<1>2. CASE Fault("freed") /\ GoneMember
  BY <1>2, SessSame DEF Fault
<1>3. CASE /\ IF Drops THEN HtUnlink(s) ELSE UNCHANGED <<order, chain, sessName, keyLive>>
           /\ fault' = "none" \/ (Drops /\ fault' = "freed" /\ cur'[c] = s)
           /\ \A d \in Conn \ {c} : cur'[d] = cur[d]
           /\ members' = [members EXCEPT ![s] = Without(s, c)]
           /\ UNCHANGED <<pc, want, connVars, listLive>>
  <2>0. order \in Seq(SessId) /\ Once(order, SessId)
    BY DEF ServerInv, TypeOK, TableTyped, ChainsInOrder
  <2>1. \A d \in Conn \ {c} : pc[d] \in {"free", "accept", "recv", "close", "release"}
    BY <1>1, OthersOut DEF ServerInv, InHandler, Open
  <2>2. \A t \in ToSet(order') : t \in ToSet(order) /\ t \in SessId /\ (Drops => t # s)
    BY <1>1, <1>3, <2>0, RemoveFirstElements, RemoveFirstOnce, ListedEntry DEF HtUnlink, ServerInv
  <2>3. \A t \in ToSet(order) : (Drops => t # s) => t \in ToSet(order')
    BY <1>3, <2>0, RemoveFirstElements DEF HtUnlink
  <2>4. \A t \in ToSet(order') : sessName'[t] = sessName[t]
    BY <1>3, <2>2 DEF HtUnlink, ServerInv, TypeOK, TableTyped
  <2>5. /\ \A t \in SessId : t # s => members'[t] = members[t]
        /\ members'[s] = Without(s, c)
        /\ \A d \in ToSet(members[s]) : socket[d] # socket[c] => d \in ToSet(members'[s])
        /\ Drops => \E d \in Conn : members[s] = <<d>> /\ socket[d] = socket[c]
    BY <1>1, <1>3, WithoutShape DEF ServerInv, TypeOK, TableTyped
  <2>6. Alive'
    BY <1>3 DEF SessInv, Alive, HtUnlink, ServerInv, TypeOK, TableTyped
  <2>7. NoLeaving'
    BY <1>3 DEF SessInv, NoLeaving
  <2>8. OneEach'
    <3>1. ASSUME NEW t \in ToSet(order')  PROVE chain'[BucketOf[sessName'[t]]] = <<t>>
      <4>1. t \in ToSet(order) /\ sessName[t] \in Name /\ (Drops => t # s)
        BY <2>2, ListedEntry DEF ServerInv
      <4>2. chain[BucketOf[sessName[t]]] = <<t>> /\ BucketOf[sessName[t]] \in Bucket
        BY <4>1 DEF SessInv, OneEach, Bucket
      <4>3. Drops => s \notin ToSet(<<t>>)
        BY <4>1 DEF ToSet
      <4>4. chain'[BucketOf[sessName[t]]] = <<t>>
        BY <1>3, <4>2, <4>3 DEF HtUnlink
      <4>. QED  BY <2>4, <4>4
    <3>. QED  BY <3>1 DEF OneEach
  <2>9. Names'
    BY <1>1, <1>3, <2>1 DEF SessInv, Names, connVars
  <2>10. NoEmptySession'
    <3>1. ASSUME NEW t \in ToSet(order')  PROVE members'[t] # <<>>
      <4>1. members[t] # <<>>
        BY <1>1, <2>1, <2>2 DEF SessInv, NoEmptySession
      <4>2. CASE t = s
        BY <2>2, <2>5, <4>1, <4>2
      <4>. QED  BY <2>2, <2>5, <4>1, <4>2
    <3>. QED  BY <3>1 DEF NoEmptySession
  <2>11. SessionIDBacked'
    <3>1. SUFFICES ASSUME NEW d \in Conn, LoggedIn(d)', pc'[d] # "exit", sessionID'[d] # NoString
                   PROVE  \E t \in ToSet(order') :
                            sessName'[t] = sessionID'[d].name /\ d \in ToSet(members'[t])
      BY DEF SessionIDBacked
    <3>2. /\ LoggedIn(d) /\ pc[d] # "exit" /\ sessionID[d] # NoString /\ d # c
          /\ sessionID'[d] = sessionID[d]
      BY <1>1, <1>3, <3>1 DEF LoggedIn, Open, connVars
    <3>7. socket[d] # socket[c]
      BY <1>1, <3>2 DEF LoggedIn, Open, ServerInv, SocketInv
    <3>3. PICK t \in ToSet(order) : sessName[t] = sessionID[d].name /\ d \in ToSet(members[t])
      BY <3>2 DEF SessInv, SessionIDBacked
    <3>4. Drops => t # s
      BY <2>5, <3>3, <3>7 DEF ToSet
    <3>5. t \in ToSet(order') /\ t \in SessId
      BY <2>2, <2>3, <3>3, <3>4
    <3>6. d \in ToSet(members'[t])
      BY <2>5, <3>3, <3>5, <3>7
    <3>. QED  BY <2>4, <3>2, <3>3, <3>5, <3>6
  <2>12. fault' = "none" \/ ExitOnFreed'
    <3>1. ASSUME Drops, cur'[c] = s  PROVE ExitOnFreed'
      <4>1. s \notin ToSet(order')
        BY <2>2, <3>1
      <4>. QED  BY <1>1, <1>3, <3>1, <4>1 DEF ExitOnFreed
    <3>. QED  BY <1>3, <3>1
  <2>. QED  BY <2>12, <2>6, <2>7, <2>8, <2>9, <2>10, <2>11 DEF SessInv, FaultsFromGone
<1>. QED  BY <1>2, <1>3, DropsLast

(* Every other step leaves the table alone.                                *)
LEMMA SessStep ==
  ASSUME Serial, "LEAVE_SESS" \notin Acts, Injective, ServerInv, FaultInv, SessInv, [Next]_vars
  PROVE  SessInv'
<1>0. /\ pc \in [Conn -> Label] /\ clientID \in [Conn -> User \cup {NoUser}]
      /\ \A d \in Conn : clientID[d] = NoUser => sessionID[d] = NoString
      /\ NoUser \notin User
  BY ServerAssumption DEF ServerInv, TypeOK, ThreadsTyped, ConnsTyped, SessInv, Names
<1>1. CASE UNCHANGED vars
  BY <1>1, SessSame DEF vars
<1>2. ASSUME NEW c \in Conn, NEW t, Refuse(c, t)  PROVE SessInv'
  BY <1>2, SessSame DEF Refuse
<1>3. ASSUME NEW c \in Conn, GetThreadInfo(c) \/ Release(c)  PROVE SessInv'
  <2>1. /\ \E l \in {"accept", "free"} : pc' = [pc EXCEPT ![c] = l]
        /\ fault' = "none" /\ pc[c] # "createJoin" /\ UNCHANGED <<want, cur, tableVars>>
        /\ clientID' = [clientID EXCEPT ![c] = NoUser]
        /\ sessionID' = [sessionID EXCEPT ![c] = NoString]
    BY <1>3 DEF GetThreadInfo, Release, At, Goto
  <2>2. /\ sessionID'[c] = NoString
        /\ \A d \in Conn \ {c} : clientID'[d] = clientID[d] /\ sessionID'[d] = sessionID[d]
    BY <2>1 DEF ServerInv, TypeOK, ConnsTyped
  <2>. QED  BY <2>1, <2>2, SessQuiet
<1>4. ASSUME NEW c \in Conn, Accept(c) \/ Disconnect(c) \/ Close(c)  PROVE SessInv'
  <2>1. /\ fault' = "none" /\ pc[c] # "createJoin"
        /\ UNCHANGED <<want, cur, clientID, sessionID, tableVars>>
        /\ \/ pc[c] = "accept" /\ pc' = [pc EXCEPT ![c] = "recv"]
           \/ \E l \in {"close", "release"} : pc' = [pc EXCEPT ![c] = l]
    BY <1>4 DEF Accept, Disconnect, Close, At, Goto, connVars
  <2>2. pc[c] = "accept" => sessionID[c] = NoString
    BY <1>0 DEF ServerInv, LoginInv
  <2>. QED  BY <1>0, <2>1, <2>2, SessQuiet
<1>5. ASSUME NEW c \in Conn, LoginInsert(c)  PROVE SessInv'
  <2>1. /\ fault' = "none" /\ pc[c] = "login" /\ pc' = [pc EXCEPT ![c] = "recv"]
        /\ clientID' = [clientID EXCEPT ![c] = want[c]] /\ want' = [want EXCEPT ![c] = Nothing]
        /\ UNCHANGED <<cur, sessionID, tableVars>>
    BY <1>5 DEF LoginInsert, At, Goto
  <2>2. want[c] \in User
    BY <2>1 DEF ServerInv, TypeOK, ThreadsTyped
  <2>3. /\ clientID'[c] # NoUser
        /\ \A d \in Conn \ {c} : clientID'[d] = clientID[d] /\ want'[d] = want[d]
    BY <1>0, <2>1, <2>2 DEF ServerInv, TypeOK, ThreadsTyped
  <2>4. sessionID[c] = NoString \/ LoggedIn(c)
    BY <1>0, <2>1 DEF LoggedIn, Open
  <2>. QED  BY <2>1, <2>3, <2>4, SessQuiet
<1>6. ASSUME NEW c \in Conn, NEW l \in {"login", "join", "create", "exit", "query"},
             pc[c] = "recv", pc' = [pc EXCEPT ![c] = l], fault' = "none",
             UNCHANGED <<connVars, tableVars>>,
             \A d \in Conn \ {c} : want'[d] = want[d] /\ cur'[d] = cur[d],
             l = "create" => chain[BucketOf[want'[c]]] = <<>>,
             l = "join" => sessName[cur'[c]] = want'[c],
             l \in {"join", "create"} => clientID[c] # NoUser
      PROVE  SessInv'
  <2>1. sessionID[c] = NoString \/ LoggedIn(c)
    BY <1>0, <1>6 DEF LoggedIn, Open
  <2>. QED  BY <1>0, <1>6, <2>1, SessQuiet DEF connVars
<1>7. ASSUME NEW c \in Conn, NEW u \in User, NEW good \in BOOLEAN, LoginCheck(c, u, good)
      PROVE  SessInv'
  <2>1. \/ Refuse(c, "LO_NAK")
        \/ /\ pc[c] = "recv" /\ pc' = [pc EXCEPT ![c] = "login"] /\ fault' = "none"
           /\ want' = [want EXCEPT ![c] = u] /\ UNCHANGED <<cur, connVars, tableVars>>
    BY <1>7 DEF LoginCheck, Receives, Goto
  <2>2. want' = [want EXCEPT ![c] = u] => \A d \in Conn \ {c} : want'[d] = want[d]
    BY DEF ServerInv, TypeOK, ThreadsTyped
  <2>. QED  BY <1>2, <1>6, <2>1, <2>2
<1>8. ASSUME NEW c \in Conn, NEW u \in User, NEW n \in Name, JoinFind(c, u, n)
      PROVE  SessInv'
  <2>1. \/ \E t \in Replies : Refuse(c, t)
        \/ \E s \in HtFind(n) :
             /\ s # NoSess /\ clientID[c] = u /\ fault' = "none"
             /\ pc[c] = "recv" /\ pc' = [pc EXCEPT ![c] = "join"]
             /\ want' = [want EXCEPT ![c] = n] /\ cur' = [cur EXCEPT ![c] = s]
             /\ UNCHANGED <<connVars, tableVars>>
    BY <1>8 DEF JoinFind, Receives, Goto, Replies
  <2>2. ASSUME NEW s \in HtFind(n), s # NoSess, clientID[c] = u, fault' = "none",
               pc[c] = "recv", pc' = [pc EXCEPT ![c] = "join"],
               want' = [want EXCEPT ![c] = n], cur' = [cur EXCEPT ![c] = s],
               UNCHANGED <<connVars, tableVars>>
        PROVE  SessInv'
    <3>1. sessName[s] = n
      BY <2>2, FindExact DEF SessInv
    <3>2. /\ want'[c] = n /\ cur'[c] = s
          /\ \A d \in Conn \ {c} : want'[d] = want[d] /\ cur'[d] = cur[d]
      BY <2>2 DEF ServerInv, TypeOK, ThreadsTyped
    <3>3. clientID[c] # NoUser
      BY <1>0, <2>2
    <3>. QED  BY <1>6, <2>2, <3>1, <3>2, <3>3
  <2>. QED  BY <1>2, <2>1, <2>2
<1>9. ASSUME NEW c \in Conn, NEW u \in User, NEW n \in Name, CreateFind(c, u, n)
      PROVE  SessInv'
  <2>1. \/ \E t \in Replies : Refuse(c, t)
        \/ /\ NoSess \in HtFind(n) /\ clientID[c] = u /\ fault' = "none"
           /\ pc[c] = "recv" /\ pc' = [pc EXCEPT ![c] = "create"]
           /\ want' = [want EXCEPT ![c] = n] /\ UNCHANGED <<cur, connVars, tableVars>>
    BY <1>9 DEF CreateFind, Receives, Goto, Replies
  <2>2. ASSUME NoSess \in HtFind(n), clientID[c] = u, fault' = "none",
               pc[c] = "recv", pc' = [pc EXCEPT ![c] = "create"],
               want' = [want EXCEPT ![c] = n], UNCHANGED <<cur, connVars, tableVars>>
        PROVE  SessInv'
    <3>1. chain[BucketOf[n]] = <<>>
      BY <2>2, FindExact DEF SessInv
    <3>2. want'[c] = n /\ \A d \in Conn \ {c} : want'[d] = want[d]
      BY <2>2 DEF ServerInv, TypeOK, ThreadsTyped
    <3>3. clientID[c] # NoUser
      BY <1>0, <2>2
    <3>. QED  BY <1>6, <2>2, <3>1, <3>2, <3>3
  <2>. QED  BY <1>2, <2>1, <2>2
<1>10. ASSUME NEW c \in Conn, ExitStart(c) \/ \E u \in User : QueryStart(c, u)
       PROVE  SessInv'
  <2>1. \/ \E t \in Replies : Refuse(c, t)
        \/ \E l \in {"exit", "query"}, s \in SessId \cup {NoSess} :
             /\ pc[c] = "recv" /\ pc' = [pc EXCEPT ![c] = l] /\ fault' = "none"
             /\ cur' = [cur EXCEPT ![c] = s] /\ UNCHANGED <<want, connVars, tableVars>>
    BY <1>10, HeadType DEF ExitStart, QueryStart, Receives, Goto, Replies, ServerInv, TypeOK,
       TableTyped
  <2>2. \A s : cur' = [cur EXCEPT ![c] = s] => \A d \in Conn \ {c} : cur'[d] = cur[d]
    BY DEF ServerInv, TypeOK, ThreadsTyped
  <2>. QED  BY <1>2, <1>6, <2>1, <2>2
<1>11. ASSUME NEW c \in Conn, ExitLogin(c)  PROVE SessInv'
  <2>1. pc[c] = "exit" /\ fault = "none" /\ clientID[c] \in ToSet(connections)
    <3>1. pc[c] = "exit" /\ fault = "none"
      BY <1>11 DEF ExitLogin, At
    <3>2. clientID[c] # NoUser
      BY <1>0, <3>1 DEF ServerInv, LoginInv
    <3>. QED  BY <3>1, <3>2 DEF ServerInv, LoginInv, LoginsHeld, LoggedIn, Open
  <2>2. /\ pc' = [pc EXCEPT ![c] = "close"] /\ fault' = "none"
        /\ UNCHANGED <<want, cur, clientID, sessionID, tableVars>>
    BY <1>11, <2>1 DEF ExitLogin, Goto
  <2>. QED  BY <1>0, <2>1, <2>2, SessQuiet
<1>12. ASSUME NEW c \in Conn, QueryVisit(c) \/ QueryReply(c)  PROVE SessInv'
  <2>1. pc[c] = "query" /\ fault = "none"
    BY <1>12 DEF QueryVisit, QueryReply, At
  <2>2. /\ \E l \in {"query", "recv"} : pc' = [pc EXCEPT ![c] = l]
        /\ fault' = "none" /\ UNCHANGED <<want, connVars, tableVars>>
        /\ \A d \in Conn \ {c} : cur'[d] = cur[d]
    <3>1. CASE QueryVisit(c)
      <4>1. cur[c] \in ToSet(order) /\ cur[c] \in SessId /\ listLive[cur[c]]
        BY <2>1, <3>1, ListedEntry DEF QueryVisit, FaultInv, PointsListed, ServerInv, SessInv, Alive
      <4>2. cur' = [cur EXCEPT ![c] = NextIn(order, cur[c])]
            /\ fault' = "none" /\ UNCHANGED <<pc, want, connVars, tableVars>>
        BY <2>1, <3>1, <4>1 DEF QueryVisit
      <4>3. pc' = [pc EXCEPT ![c] = "query"]
        BY <1>0, <2>1, <4>2
      <4>. QED  BY <4>2, <4>3 DEF ServerInv, TypeOK, ThreadsTyped
    <3>2. CASE QueryReply(c)
      BY <2>1, <3>2 DEF QueryReply, Goto
    <3>. QED  BY <1>12, <3>1, <3>2
  <2>3. sessionID[c] = NoString \/ LoggedIn(c)
    BY <1>0, <2>1 DEF LoggedIn, Open
  <2>. QED  BY <1>0, <2>1, <2>2, <2>3, SessQuiet DEF connVars
<1>13. ASSUME NEW c \in Conn, NEW u \in User, NEW n \in Name, Message(c, u, n)
       PROVE  SessInv'
  <2>1. \/ \E t \in Replies : Refuse(c, t)
        \/ UNCHANGED <<pc, want, cur, connVars, tableVars, fault>>
        \/ \E s \in HtFind(n) :
             /\ s # NoSess /\ Fault("freed")
             /\ ~listLive[s] \/ \E d \in ToSet(members[s]) : ~Live(d)
    BY <1>13 DEF Message, Replies
  <2>2. ASSUME NEW s \in HtFind(n), s # NoSess, Fault("freed"),
               ~listLive[s] \/ \E d \in ToSet(members[s]) : ~Live(d)
        PROVE  SessInv'
    <3>1. s \in ToSet(order) /\ s \in SessId /\ listLive[s]
      BY <2>2, FoundListed, ListedEntry DEF ServerInv, SessInv, Alive
    <3>2. GoneMember
      BY <2>2, <3>1 DEF GoneMember
    <3>. QED  BY <2>2, <3>2, SessSame DEF Fault
  <2>. QED  BY <1>2, <2>1, <2>2, SessSame
<1>14. ASSUME NEW c \in Conn, NEW u \in User, NEW n \in Name, LeaveFind(c, u, n)  PROVE SessInv'
  BY <1>14 DEF LeaveFind, Receives
<1>15. ASSUME NEW c \in Conn, LeaveUnlink(c) \/ LeaveFree(c)  PROVE SessInv'
  BY <1>15 DEF LeaveUnlink, LeaveFree, At, SessInv, NoLeaving
<1>. QED  BY <1>1, <1>3, <1>4, <1>5, <1>7, <1>8, <1>9, <1>10, <1>11, <1>12, <1>13, <1>14, <1>15,
              SessEnters, SessCreates, SessVisits DEF Next

-----------------------------------------------------------------------------
(* The sessions, for any connections, users, names and bounds.             *)

(* The invariants hold together.                                           *)
LEMMA AllInvariant ==
  ASSUME Serial, "LEAVE_SESS" \notin Acts, Injective
  PROVE  Spec => []AllInv
<1>1. Init => FaultInv /\ SessInv
  BY FaultInit, SessInit
<1>2. ServerInv /\ FaultInv /\ SessInv /\ [Next]_vars => FaultInv' /\ SessInv'
  BY FaultStep, SessStep
<1>. QED  BY <1>1, <1>2, ServerInvariant, PTL DEF Spec, AllInv

(* JOIN, MESSAGE and a second NEW_SESS find every session of the table, and*)
(* no other one, as long as each name has a bucket of its own.             *)
THEOREM FindableCorrect ==
  ASSUME Serial, "LEAVE_SESS" \notin Acts, Injective
  PROVE  Spec => []Findable
<1>1. AllInv => Findable
  BY FindsEach DEF AllInv, SessInv
<1>. QED  BY <1>1, AllInvariant, PTL

(* The EXIT that empties a session takes it out of the table.              *)
THEOREM NoEmptySessionCorrect ==
  ASSUME Serial, "LEAVE_SESS" \notin Acts, Injective
  PROVE  Spec => []NoEmptySession
<1>1. AllInv => NoEmptySession
  BY DEF AllInv, SessInv
<1>. QED  BY <1>1, AllInvariant, PTL

(* The session that a logged-in client's sessionID names stays in the      *)
(* table, with the client in it, whatever the other clients do.            *)
THEOREM SessionIDBackedCorrect ==
  ASSUME Serial, "LEAVE_SESS" \notin Acts, Injective
  PROVE  Spec => []SessionIDBacked
<1>1. AllInv => SessionIDBacked
  BY DEF AllInv, SessInv
<1>. QED  BY <1>1, AllInvariant, PTL

(* Only a session that lists a client that is gone, or the next field of   *)
(* the entry EXIT has just had freed, makes a handler follow an invalid    *)
(* pointer.                                                                *)
THEOREM FaultsFromGoneCorrect ==
  ASSUME Serial, "LEAVE_SESS" \notin Acts, Injective
  PROVE  Spec => []FaultsFromGone
<1>1. AllInv => FaultsFromGone
  BY DEF AllInv, SessInv
<1>. QED  BY <1>1, AllInvariant, PTL

(* A session leaves the table only in an EXIT, of its last member or of a  *)
(* client that has the socket number of a last member whose connection is  *)
(* closed and whose block is not released.                                 *)
THEOREM DropsOnlyLastCorrect ==
  ASSUME Serial, "LEAVE_SESS" \notin Acts, Injective
  PROVE  Spec => DropsOnlyLast
<1>. DEFINE Emptied(s) ==
       \E c, d \in Conn : /\ pc[c] = "exit" /\ members[s] = <<d>>
                          /\ d = c \/ (pc[d] = "release" /\ socket[d] = socket[c])
<1>1. ASSUME AllInv, [Next]_vars
      PROVE  [\A s \in ToSet(order) : s \notin ToSet(order') => Emptied(s)]_vars
  <2>1. SUFFICES ASSUME NEW s \in ToSet(order), s \notin ToSet(order')
                 PROVE  Emptied(s)
    OBVIOUS
  <2>2. order' # order
    BY <2>1
  <2>3. PICK c \in Conn : CreateInsert(c) \/ ExitVisit(c)
    BY <1>1, <2>2 DEF Next, vars, tableVars, GetThreadInfo, Accept, Disconnect, Close, Release,
       LoginCheck, LoginInsert, JoinFind, JoinInsert, CreateFind, CreateJoin, LeaveFind,
       LeaveUnlink, LeaveFree, ExitStart, ExitLogin, QueryStart, QueryVisit, QueryReply, Message,
       Refuse, Fault, Enter
  <2>4. CASE CreateInsert(c)
    BY <1>1, <2>1, <2>4, NewEntry DEF AllInv
  <2>5. CASE ExitVisit(c)
    <3>0. PICK t : t = cur[c]
      OBVIOUS
    <3>1. /\ pc[c] = "exit" /\ t \in SessId
          /\ members[t] # <<>> /\ Without(t, c) = <<>> /\ HtUnlink(t)
      BY <1>1, <2>2, <2>5, <3>0, DropsLast DEF AllInv, Fault, tableVars
    <3>2. s = t
      BY <1>1, <2>1, <3>1, RemoveFirstElements DEF HtUnlink, AllInv, ServerInv, TypeOK, TableTyped
    <3>3. PICK d \in Conn : members[t] = <<d>> /\ socket[d] = socket[c]
      BY <1>1, <3>1, WithoutShape DEF AllInv, ServerInv, TypeOK
    <3>4. socket[c] # NoSocket /\ Open(c) /\ SocketInv
      BY <1>1, <3>1, ServerAssumption DEF AllInv, ServerInv, SocketInv, Open
    <3>5. d = c \/ pc[d] = "release"
      BY <3>3, <3>4 DEF SocketInv, Open
    <3>. QED  BY <3>1, <3>2, <3>3, <3>5
  <2>. QED  BY <2>3, <2>4, <2>5
<1>. QED  BY <1>1, AllInvariant, PTL DEF Spec, DropsOnlyLast
=============================================================================
