-------------------------- MODULE ConferenceProofs --------------------------
(***************************************************************************)
(* Theorems about Conference, for any clients, any requests of theirs and  *)
(* any number of them that stop reading.                                   *)
(***************************************************************************)
EXTENDS Conference, ListFacts

Request == [kind : {"JOIN", "MESSAGE", "EXIT"}, from : Client, n : Nat]
Part == [packet : Request, part : {1, 2}]

(* Received(c): the requests of c the server has taken, and First(c): those*)
(* it had taken before the recv its thread works on.                       *)
Received(c) == asked[c] - Len(up[c])
First(c) == Received(c) - Len(passing[c])

(* Sent(c): the parts of that recv that are in the stream of the member the*)
(* walk of c is at.                                                        *)
Sent(c) == 2 * Len(passing[c]) - Len(rest[c])

-----------------------------------------------------------------------------
(* Types, and what a thread has in hand: requests go from Script to up and *)
(* on to passing in order, and rest is the end of the bytes of passing.    *)

TypeInv ==
  /\ asked \in [Client -> Nat]
  /\ up \in [Client -> Seq(Request)]
  /\ down \in [Client -> Seq(Part)]
  /\ members \in Seq(Node)
  /\ pc \in [Client -> {"recv", "walk", "send", "reply", "gone"}]
  /\ cur \in [Client -> Node \cup {None}]
  /\ passing \in [Client -> Seq(Request)]
  /\ rest \in [Client -> Seq(Part)]
  /\ lock \in [Client -> Client \cup {None}]
  /\ stay \in [Client -> SUBSET Client]

(* The packets of q are the requests c sends after the n-th.               *)
Follow(c, q, n) ==
  \A i \in 1 .. Len(q) :
    n + i \in DOMAIN Script[c] /\ q[i] = Packet(Script[c][n + i], c, n + i)

RequestsInv ==
  \A c \in Client :
    /\ Received(c) \in Nat /\ First(c) \in Nat
    /\ Follow(c, up[c], Received(c)) /\ Follow(c, passing[c], First(c))

Hand(c) ==
  /\ Len(rest[c]) <= 2 * Len(passing[c])
  /\ \A i \in 1 .. Len(rest[c]) : rest[c][i] = Bytes(passing[c])[Sent(c) + i]
  /\ pc[c] # "send" => rest[c] = <<>>
  /\ pc[c] \notin {"walk", "send"} => cur[c] = None
  /\ pc[c] = "recv" => passing[c] = <<>> /\ stay[c] = {}
  /\ pc[c] \in {"walk", "send", "reply"} => passing[c] # <<>>

HandInv == \A c \in Client : Hand(c)

-----------------------------------------------------------------------------
(* A thread that sends to a member has its socketLock.                     *)
LockInv ==
  \A c \in Client :
    pc[c] = "send" => cur[c] # None /\ cur[c].client # c /\ lock[cur[c].client] = c

(* When half of a packet has been sent, it is the last thing in the stream.*)
HalfInv ==
  \A c \in Client :
    pc[c] = "send" /\ Sent(c) % 2 = 1 =>
      LET p == down[cur[c].client]
      IN  p # <<>> /\ p[Len(p)] = Bytes(passing[c])[Sent(c)]

WholeInv == LockInv /\ HalfInv /\ MessagesWhole

-----------------------------------------------------------------------------
(* No node is twice in the list, each comes from a JOIN that was received, *)
(* and a walk is at a node of the list unless that one has been freed.     *)
NodesInv ==
  /\ \A i, j \in DOMAIN members : members[i] = members[j] => i = j
  /\ \A i \in DOMAIN members :
       /\ members[i].join \in Joins(members[i].client)
       /\ members[i].join <= Received(members[i].client)

InList(c) == \E i \in DOMAIN members : members[i] = cur[c]

MembersInv ==
  /\ NodesInv
  /\ \A c \in Client : cur[c] # None /\ pc[cur[c].client] # "gone" => InList(c)

(* The walk of c has a node of d at it or before it.                       *)
Ahead(c, d) ==
  \E i, j \in DOMAIN members : members[i] = cur[c] /\ i <= j /\ members[j].client = d

(* The stream to d has all of the recv that the thread of c works on.      *)
Delivered(c, d) ==
  \A k \in DOMAIN Bytes(passing[c]) : \E i \in DOMAIN down[d] : down[d][i] = Bytes(passing[c])[k]

(* Who has stayed in the session has the message or is still to get it.    *)
Stay(c) ==
  /\ pc[c] = "send" =>
       \A k \in 1 .. Sent(c) : \E i \in DOMAIN down[cur[c].client] :
          down[cur[c].client][i] = Bytes(passing[c])[k]
  /\ cur[c] = None \/ pc[cur[c].client] # "gone" =>
       \A d \in stay[c] \ {c} : Delivered(c, d) \/ (cur[c] # None /\ Ahead(c, d))

StayInv == \A c \in Client : Stay(c)

-----------------------------------------------------------------------------
JoinsOnce(d) == \A m, n \in Joins(d) : m = n

(* Nothing is sent to a client that has never joined.                      *)
JoinedBefore(d) == down[d] # <<>> => \E n \in Joins(d) : n <= Received(d)

(* The place of a part among all that its sender sends.                    *)
Place(p) == 2 * (p.packet.n - 1) + p.part

(* What d has from c is from requests received; as long as the walk of c   *)
(* has not come to d, from earlier ones than it passes on, and while it    *)
(* sends to d, from those before the part it is at.                        *)
Bounded(c, d) ==
  \A i \in DOMAIN down[d] :
    LET part == down[d][i]
        n == part.packet.n
    IN  part.packet.from = c =>
          /\ n <= Received(c)
          /\ pc[c] \in {"walk", "send"} /\ Ahead(c, d) =>
               (pc[c] = "send" /\ cur[c].client = d) \/ n <= First(c)
          /\ pc[c] = "send" /\ cur[c].client = d =>
               Place(part) <= 2 * First(c) + Sent(c)

OrderInv ==
  \A d \in Client : JoinedBefore(d) /\ (JoinsOnce(d) => \A c \in Client : Bounded(c, d))

-----------------------------------------------------------------------------
(* Facts about the sequences of the model.                                 *)

LEMMA BytesFacts ==
  ASSUME NEW q \in Seq(Request)
  PROVE  /\ Bytes(q) \in Seq(Part) /\ Len(Bytes(q)) = 2 * Len(q)
         /\ DOMAIN Bytes(q) = 1 .. 2 * Len(q)
         /\ \A i \in 1 .. 2 * Len(q) :
              /\ (i + 1) \div 2 \in 1 .. Len(q)
              /\ Bytes(q)[i].packet = q[(i + 1) \div 2]
              /\ Bytes(q)[i].part = 2 - (i % 2)
         /\ \A i \in 1 .. 2 * Len(q) :
              Bytes(q)[i].part = 2 => /\ i > 1 /\ Bytes(q)[i-1].part = 1
                                      /\ Bytes(q)[i-1].packet = Bytes(q)[i].packet
<1>1. Len(q) \in Nat /\ DOMAIN q = 1 .. Len(q) /\ \A i \in 1 .. Len(q) : q[i] \in Request
  BY LenProperties, ElementOfSeq
<1>. DEFINE half(i) == (i + 1) \div 2  part(i) == 2 - (i % 2)
<1>2. \A i \in 1 .. 2 * Len(q) :
        /\ half(i) \in 1 .. Len(q) /\ part(i) \in {1, 2}
        /\ part(i) = 2 => i > 1 /\ half(i - 1) = half(i) /\ part(i - 1) = 1
  BY <1>1
<1>3. Bytes(q) = [i \in 1 .. 2 * Len(q) |-> [packet |-> q[half(i)], part |-> part(i)]]
  BY DEF Bytes
<1>4. 2 * Len(q) \in Nat /\ \A i \in 1 .. 2 * Len(q) : i > 1 => i - 1 \in 1 .. 2 * Len(q)
  BY <1>1
<1>. HIDE DEF half, part
<1>5. \A i \in 1 .. 2 * Len(q) : Bytes(q)[i].packet = q[half(i)] /\ Bytes(q)[i].part = part(i)
  BY <1>3
<1>6. Bytes(q) \in Seq(Part) /\ Len(Bytes(q)) = 2 * Len(q) /\ DOMAIN Bytes(q) = 1 .. 2 * Len(q)
  <2>1. \A i \in 1 .. 2 * Len(q) : [packet |-> q[half(i)], part |-> part(i)] \in Part
    BY <1>1, <1>2 DEF Part
  <2>2. Bytes(q) \in Seq(Part)
    BY <1>3, <1>4, <2>1, IsASeq
  <2>. QED  BY <1>3, <1>4, <2>2, LenProperties
<1>7. \A i \in 1 .. 2 * Len(q) :
        Bytes(q)[i].part = 2 => /\ i > 1 /\ Bytes(q)[i-1].part = 1
                                /\ Bytes(q)[i-1].packet = Bytes(q)[i].packet
  BY <1>2, <1>4, <1>5
<1>. QED  BY <1>2, <1>5, <1>6, <1>7 DEF half, part

(* A recv takes requests off the front.                                    *)
LEMMA TakenOff ==
  ASSUME NEW S, NEW s \in Seq(S), NEW k \in 1 .. Len(s)
  PROVE  /\ SubSeq(s, 1, k) \in Seq(S) /\ Len(SubSeq(s, 1, k)) = k
         /\ \A i \in 1 .. k : SubSeq(s, 1, k)[i] = s[i]
         /\ SubSeq(s, k + 1, Len(s)) \in Seq(S) /\ Len(SubSeq(s, k + 1, Len(s))) = Len(s) - k
         /\ \A i \in 1 .. Len(s) - k : SubSeq(s, k + 1, Len(s))[i] = s[k + i]
<1>1. Len(s) \in Nat /\ k \in Nat /\ k <= Len(s) /\ 1 <= k /\ \A i \in 1 .. Len(s) : s[i] \in S
  BY LenProperties, ElementOfSeq
<1>2. /\ SubSeq(s, 1, k) \in Seq(S)
      /\ Len(SubSeq(s, 1, k)) = IF 1 <= k THEN k - 1 + 1 ELSE 0
      /\ \A i \in 1 .. k - 1 + 1 : SubSeq(s, 1, k)[i] = s[1 + i - 1]
  BY <1>1, SubSeqProperties
<1>3. /\ SubSeq(s, k + 1, Len(s)) \in Seq(S)
      /\ Len(SubSeq(s, k + 1, Len(s))) = IF k + 1 <= Len(s) THEN Len(s) - (k + 1) + 1 ELSE 0
      /\ \A i \in 1 .. Len(s) - (k + 1) + 1 : SubSeq(s, k + 1, Len(s))[i] = s[k + 1 + i - 1]
  BY <1>1, SubSeqProperties
<1>4. /\ (IF 1 <= k THEN k - 1 + 1 ELSE 0) = k /\ k - 1 + 1 = k
      /\ (IF k + 1 <= Len(s) THEN Len(s) - (k + 1) + 1 ELSE 0) = Len(s) - k
      /\ Len(s) - (k + 1) + 1 = Len(s) - k
      /\ \A i \in 1 .. k : 1 + i - 1 = i
      /\ \A i \in 1 .. Len(s) - k : k + 1 + i - 1 = k + i
  BY <1>1
<1>5. \A i \in 1 .. k : SubSeq(s, 1, k)[i] = s[i]
  BY <1>2, <1>4
<1>6. \A i \in 1 .. Len(s) - k : SubSeq(s, k + 1, Len(s))[i] = s[k + i]
  BY <1>3, <1>4
<1>. QED  BY <1>2, <1>3, <1>4, <1>5, <1>6

-----------------------------------------------------------------------------
(* Types, requests and what is in hand.                                    *)

ThreadInv == TypeInv /\ RequestsInv /\ HandInv

LEMMA ThreadInit == Init => ThreadInv
<1>. SUFFICES ASSUME Init  PROVE ThreadInv
  OBVIOUS
<1>1. members \in Seq(Node)
  <2>1. Len(AtFirst) \in Nat /\ DOMAIN AtFirst = 1 .. Len(AtFirst)
        /\ \A i \in 1 .. Len(AtFirst) : AtFirst[i] \in Client
    BY ConferenceAssumption, LenProperties, ElementOfSeq
  <2>2. \A i \in 1 .. Len(AtFirst) : NewNode(AtFirst[i], -i) \in Node
    BY <2>1 DEF NewNode, Node
  <2>. QED  BY <2>1, <2>2, IsASeq DEF Init
<1>2. TypeInv
  BY <1>1, EmptySeq DEF Init, TypeInv
<1>3. \A c \in Client : up[c] = <<>> /\ passing[c] = <<>> /\ rest[c] = <<>> /\ asked[c] = 0
                         /\ cur[c] = None /\ stay[c] = {} /\ pc[c] = "recv"
  BY DEF Init
<1>4. RequestsInv
  BY <1>3, EmptySeq DEF RequestsInv, Received, First, Follow
<1>5. HandInv
  BY <1>3, EmptySeq DEF HandInv, Hand
<1>. QED  BY <1>2, <1>4, <1>5 DEF ThreadInv

(* What recv takes.                                                        *)
LEMMA FollowTaken ==
  ASSUME NEW c \in Client, NEW q \in Seq(Request), NEW n \in Nat, Follow(c, q, n),
         NEW k \in 1 .. Len(q)
  PROVE  Follow(c, SubSeq(q, 1, k), n) /\ Follow(c, SubSeq(q, k + 1, Len(q)), n + k)
<1>1. /\ Len(SubSeq(q, 1, k)) = k /\ \A i \in 1 .. k : SubSeq(q, 1, k)[i] = q[i]
      /\ Len(SubSeq(q, k + 1, Len(q))) = Len(q) - k
      /\ \A i \in 1 .. Len(q) - k : SubSeq(q, k + 1, Len(q))[i] = q[k + i]
  BY TakenOff
<1>2. Len(q) \in Nat
  BY LenProperties
<1>3. Follow(c, SubSeq(q, 1, k), n)
  BY <1>1, <1>2 DEF Follow
<1>4. \A i \in 1 .. Len(q) - k : k + i \in 1 .. Len(q) /\ (n + k) + i = n + (k + i)
  BY <1>2
<1>. DEFINE r == SubSeq(q, k + 1, Len(q))
<1>5. ASSUME NEW i \in 1 .. Len(r)
      PROVE  /\ (n + k) + i \in DOMAIN Script[c]
             /\ r[i] = Packet(Script[c][(n + k) + i], c, (n + k) + i)
  <2>1. r[i] = q[k + i] /\ k + i \in 1 .. Len(q) /\ (n + k) + i = n + (k + i)
    BY <1>1, <1>4
  <2>2. n + (k + i) \in DOMAIN Script[c] /\ q[k + i] = Packet(Script[c][n + (k + i)], c, n + (k + i))
    BY <2>1 DEF Follow
  <2>. HIDE DEF r
  <2>. QED  BY <2>1, <2>2
<1>. QED  BY <1>3, <1>5 DEF Follow

LEMMA RecvFacts ==
  ASSUME ThreadInv, NEW c \in Client, NEW kind, Recv(c, kind)
  PROVE  /\ up' \in [Client -> Seq(Request)] /\ passing' \in [Client -> Seq(Request)]
         /\ RequestsInv'
         /\ \A d \in Client : d # c => up'[d] = up[d] /\ passing'[d] = passing[d]
         /\ \A d \in Client : d # c => Received(d)' = Received(d) /\ First(d)' = First(d)
         /\ passing'[c] # <<>> /\ First(c)' = Received(c) /\ Received(c)' > Received(c)
         /\ passing'[c][1] = up[c][1]
         /\ up[c][1] = Packet(kind, c, Received(c) + 1)
         /\ pc[c] = "recv" /\ rest[c] = <<>> /\ cur[c] = None
         /\ Received(c) + 1 \in DOMAIN Script[c] /\ Script[c][Received(c) + 1] = kind
<1>. USE DEF ThreadInv, TypeInv
<1>1. PICK k \in 1 .. Len(up[c]) :
        /\ passing' = [passing EXCEPT ![c] = SubSeq(up[c], 1, k)]
        /\ up' = [up EXCEPT ![c] = SubSeq(up[c], k + 1, Len(up[c]))]
  BY DEF Recv
<1>2. /\ pc[c] = "recv" /\ up[c] # <<>> /\ up[c][1].kind = kind /\ asked' = asked
  BY DEF Recv
<1>3. /\ SubSeq(up[c], 1, k) \in Seq(Request) /\ Len(SubSeq(up[c], 1, k)) = k
      /\ \A i \in 1 .. k : SubSeq(up[c], 1, k)[i] = up[c][i]
      /\ SubSeq(up[c], k + 1, Len(up[c])) \in Seq(Request)
      /\ Len(SubSeq(up[c], k + 1, Len(up[c]))) = Len(up[c]) - k
  BY TakenOff
<1>4. up' \in [Client -> Seq(Request)] /\ passing' \in [Client -> Seq(Request)]
  BY <1>1, <1>3
<1>5. /\ passing'[c] = SubSeq(up[c], 1, k) /\ up'[c] = SubSeq(up[c], k + 1, Len(up[c]))
  BY <1>1
<1>6. \A d \in Client : d # c => up'[d] = up[d] /\ passing'[d] = passing[d]
  BY <1>1
<1>7. \A d \in Client : d # c => Received(d)' = Received(d) /\ First(d)' = First(d)
  BY <1>2, <1>6 DEF Received, First
<1>8. /\ k \in Nat /\ Len(up[c]) \in Nat /\ 1 <= k /\ k <= Len(up[c]) /\ asked[c] \in Nat
  BY LenProperties
<1>9. First(c)' = Received(c) /\ Received(c)' = Received(c) + k
  <2>1. Received(c)' = asked[c] - (Len(up[c]) - k)
    BY <1>2, <1>3, <1>5 DEF Received
  <2>2. First(c)' = Received(c)' - k
    BY <1>3, <1>5 DEF First
  <2>3. Received(c) = asked[c] - Len(up[c])
    BY DEF Received
  <2>. QED  BY <1>8, <2>1, <2>2, <2>3
<1>10. Received(c) \in Nat /\ Follow(c, up[c], Received(c))
  BY DEF RequestsInv
<1>11. RequestsInv'
  <2>1. ASSUME NEW d \in Client, d # c
        PROVE  /\ Received(d)' \in Nat /\ First(d)' \in Nat
               /\ Follow(d, up'[d], Received(d)') /\ Follow(d, passing'[d], First(d)')
    BY <1>6, <1>7, <2>1 DEF RequestsInv
  <2>2. Follow(c, up'[c], Received(c)') /\ Follow(c, passing'[c], First(c)')
    BY <1>5, <1>9, <1>10, FollowTaken
  <2>3. Received(c)' \in Nat /\ First(c)' \in Nat
    BY <1>8, <1>9, <1>10
  <2>. QED  BY <2>1, <2>2, <2>3 DEF RequestsInv
<1>12. 1 \in 1 .. Len(up[c])
  BY <1>8
<1>13. /\ Received(c) + 1 \in DOMAIN Script[c]
       /\ up[c][1] = Packet(Script[c][Received(c) + 1], c, Received(c) + 1)
  BY <1>10, <1>12 DEF Follow
<1>14. Script[c][Received(c) + 1] = kind
  BY <1>2, <1>13 DEF Packet
<1>15. passing'[c] # <<>> /\ passing'[c][1] = up[c][1]
  <2>1. Len(passing'[c]) = k /\ 1 \in 1 .. k /\ k # 0
    BY <1>3, <1>5, <1>8
  <2>2. passing'[c] # <<>>
    BY <2>1, EmptySeq
  <2>. HIDE DEF ThreadInv, TypeInv
  <2>. QED  BY <1>3, <1>5, <2>1, <2>2
<1>16. rest[c] = <<>> /\ cur[c] = None
  BY <1>2 DEF HandInv, Hand
<1>17. Received(c)' > Received(c)
  BY <1>8, <1>9, <1>10
<1>. QED
  BY <1>2, <1>4, <1>6, <1>7, <1>9, <1>11, <1>13, <1>14, <1>15, <1>16, <1>17

(* A thread that does nothing has what it had.                             *)
LEMMA HandSame ==
  ASSUME NEW c \in Client, Hand(c), rest'[c] = rest[c], passing'[c] = passing[c],
         pc'[c] = pc[c], cur'[c] = cur[c], stay'[c] \subseteq stay[c]
  PROVE  Hand(c)' /\ Sent(c)' = Sent(c)
<1>1. Sent(c)' = Sent(c)
  BY DEF Sent
<1>. QED  BY <1>1 DEF Hand

LEMMA NextMemberType ==
  ASSUME members \in Seq(Node), NEW m
  PROVE  /\ NextMember(m) \in Node \cup {None}
         /\ NextMember(m) # None =>
              \E i \in DOMAIN members : i > 1 /\ members[i-1] = m /\ NextMember(m) = members[i]
<1>. DEFINE after == {i \in DOMAIN members : i > 1 /\ members[i-1] = m}
            k == CHOOSE i \in after : TRUE
<1>1. NextMember(m) = IF after = {} THEN None ELSE members[k]
  BY DEF NextMember
<1>2. after # {} => k \in after
  OBVIOUS
<1>3. \A i \in DOMAIN members : members[i] \in Node
  BY LenProperties, ElementOfSeq
<1>. HIDE DEF k
<1>. QED  BY <1>1, <1>2, <1>3

LEMMA AskThread ==
  ASSUME ThreadInv, NEW c \in Client, Ask(c)
  PROVE  ThreadInv' /\ Received(c)' = Received(c)
<1>. DEFINE p == Packet(Script[c][asked[c] + 1], c, asked[c] + 1)
<1>1. /\ asked[c] < Len(Script[c]) /\ asked' = [asked EXCEPT ![c] = asked[c] + 1]
      /\ asked'[c] = asked[c] + 1 /\ up' = [up EXCEPT ![c] = Append(up[c], p)]
      /\ UNCHANGED <<down, members, threadVars, lock>>
  BY DEF Ask, ThreadInv, TypeInv
<1>2. asked[c] \in Nat /\ up[c] \in Seq(Request) /\ Len(up[c]) \in Nat
  BY LenProperties DEF ThreadInv, TypeInv
<1>3. asked[c] + 1 \in DOMAIN Script[c] /\ Script[c][asked[c] + 1] \in {"JOIN", "MESSAGE", "EXIT"}
  <2>1. Script[c] \in Seq({"JOIN", "MESSAGE", "EXIT"})
    BY ConferenceAssumption
  <2>2. Len(Script[c]) \in Nat /\ DOMAIN Script[c] = 1 .. Len(Script[c])
    BY <2>1, LenProperties
  <2>3. asked[c] + 1 \in 1 .. Len(Script[c])
    BY <1>1, <1>2, <2>2
  <2>. QED  BY <2>1, <2>2, <2>3, ElementOfSeq
<1>4. p \in Request
  BY <1>2, <1>3 DEF Packet, Request
<1>. HIDE DEF p
<1>5. /\ Append(up[c], p) \in Seq(Request) /\ Len(Append(up[c], p)) = Len(up[c]) + 1
      /\ \A i \in 1 .. Len(up[c]) : Append(up[c], p)[i] = up[c][i]
      /\ Append(up[c], p)[Len(up[c]) + 1] = p
  BY <1>2, <1>4, AppendProperties
<1>6. asked' \in [Client -> Nat] /\ up' \in [Client -> Seq(Request)]
  BY <1>1, <1>2, <1>5 DEF ThreadInv, TypeInv
<1>7. TypeInv'
  BY <1>1, <1>6 DEF ThreadInv, TypeInv, threadVars
<1>8. HandInv'
  BY <1>1, HandSame DEF ThreadInv, HandInv, threadVars
<1>9. /\ \A d \in Client : d # c => asked'[d] = asked[d] /\ up'[d] = up[d]
      /\ up'[c] = Append(up[c], p) /\ passing' = passing
  BY <1>1 DEF ThreadInv, TypeInv, threadVars
<1>10. \A d \in Client : d # c => Received(d)' = Received(d) /\ First(d)' = First(d)
  BY <1>9 DEF Received, First
<1>11. Received(c)' = Received(c) /\ First(c)' = First(c)
  <2>1. Received(c)' = (asked[c] + 1) - (Len(up[c]) + 1)
    BY <1>1, <1>5, <1>9 DEF Received
  <2>2. Received(c)' = Received(c)
    BY <1>2, <2>1 DEF Received
  <2>. QED  BY <1>9, <2>2 DEF First
<1>12. Follow(c, up'[c], Received(c))
  <2>1. Follow(c, up[c], Received(c)) /\ Received(c) \in Nat
    BY DEF ThreadInv, RequestsInv
  <2>2. Received(c) + (Len(up[c]) + 1) = asked[c] + 1
    BY <1>2 DEF Received
  <2>3. p = Packet(Script[c][asked[c] + 1], c, asked[c] + 1)
    BY DEF p
  <2>4. \A i \in 1 .. Len(up[c]) + 1 : i \in 1 .. Len(up[c]) \/ i = Len(up[c]) + 1
    BY <1>2
  <2>5. ASSUME NEW i \in 1 .. Len(up[c]) + 1
        PROVE  /\ Received(c) + i \in DOMAIN Script[c]
               /\ up'[c][i] = Packet(Script[c][Received(c) + i], c, Received(c) + i)
    <3>1. CASE i \in 1 .. Len(up[c])
      BY <1>5, <1>9, <2>1, <3>1 DEF Follow
    <3>2. CASE i = Len(up[c]) + 1
      BY <1>3, <1>5, <1>9, <2>2, <2>3, <3>2
    <3>. QED  BY <2>4, <3>1, <3>2
  <2>. QED  BY <1>5, <1>9, <2>5 DEF Follow
<1>13. RequestsInv'
  <2>1. ASSUME NEW d \in Client, d # c
        PROVE  /\ Received(d)' \in Nat /\ First(d)' \in Nat
               /\ Follow(d, up'[d], Received(d)') /\ Follow(d, passing'[d], First(d)')
    BY <1>9, <1>10, <2>1 DEF ThreadInv, RequestsInv
  <2>2. /\ Received(c)' \in Nat /\ First(c)' \in Nat
        /\ Follow(c, up'[c], Received(c)') /\ Follow(c, passing'[c], First(c)')
    BY <1>9, <1>11, <1>12 DEF ThreadInv, RequestsInv
  <2>. QED  BY <2>1, <2>2 DEF RequestsInv
<1>. QED  BY <1>7, <1>8, <1>11, <1>13 DEF ThreadInv

(* EXIT takes the first node of c out of the list.                         *)
LEMMA ExitShape ==
  ASSUME members \in Seq(Node), NEW c, Exit(c)
  PROVE  \/ /\ \A i \in DOMAIN members : members[i].client # c
            /\ members' = members
         \/ \E k \in 1 .. Len(members) :
              /\ members[k].client = c
              /\ members' \in Seq(Node) /\ DOMAIN members' = 1 .. Len(members) - 1
              /\ \A i \in 1 .. Len(members) - 1 :
                   members'[i] = IF i < k THEN members[i] ELSE members[i+1]
<1>. DEFINE I == {i \in 1 .. Len(members) : members[i].client = c}
            k == Min(I)
<1>0. Len(members) \in Nat /\ DOMAIN members = 1 .. Len(members)
  BY LenProperties
<1>1. CASE I = {}
  BY <1>0, <1>1 DEF Exit, RemoveFirstMatch
<1>2. CASE I # {}
  <2>1. k \in I
    <3>1. I \in SUBSET Nat
      BY <1>0
    <3>. HIDE DEF I
    <3>. QED  BY <3>1, <1>2, MinOfNats
  <2>2. k \in 1 .. Len(members) /\ members[k].client = c
    BY <2>1
  <2>3. SelectInSeq(members, LAMBDA m : m.client = c) = k
    BY <1>2 DEF SelectInSeq
  <2>. HIDE DEF k
  <2>4. members' = RemoveAt(members, k)
    BY <2>2, <2>3 DEF Exit, RemoveFirstMatch
  <2>. HIDE DEF I
  <2>5. members' \in Seq(Node) /\ DOMAIN members' = 1 .. Len(members) - 1
    BY <2>2, <2>4, RemoveAtShape, LenProperties
  <2>. QED  BY <2>2, <2>4, <2>5, RemoveAtShape
<1>. QED  BY <1>1, <1>2

(* What keeps the type and the hand of a thread when it has received.      *)
LEMMA ReceiveThread ==
  ASSUME ThreadInv, NEW c \in Client, NEW kind, Recv(c, kind), members' \in Seq(Node),
         NEW l \in {"walk", "reply", "gone"}, pc' = [pc EXCEPT ![c] = l],
         NEW x \in Node \cup {None}, cur' = [cur EXCEPT ![c] = x], l = "walk" \/ x = None,
         stay' \in [Client -> SUBSET Client],
         \A d \in Client : d # c => stay'[d] \subseteq stay[d]
  PROVE  ThreadInv'
<1>1. UNCHANGED <<asked, stalled, down, space, rest, lock>>
  BY DEF Recv
<1>2. TypeInv'
  BY <1>1, RecvFacts DEF ThreadInv, TypeInv
<1>3. ASSUME NEW d \in Client, d # c  PROVE Hand(d)'
  <2>1. /\ rest'[d] = rest[d] /\ passing'[d] = passing[d] /\ pc'[d] = pc[d]
        /\ cur'[d] = cur[d] /\ stay'[d] \subseteq stay[d]
    BY <1>1, <1>3, RecvFacts DEF ThreadInv, TypeInv
  <2>. QED  BY <2>1, HandSame DEF ThreadInv, HandInv
<1>4. Hand(c)'
  <2>1. rest'[c] = <<>> /\ passing'[c] # <<>> /\ passing'[c] \in Seq(Request)
    BY <1>1, RecvFacts
  <2>2. Len(rest'[c]) = 0 /\ Len(passing'[c]) \in Nat
    BY <2>1, EmptySeq, LenProperties
  <2>3. pc'[c] = l /\ cur'[c] = x
    BY DEF ThreadInv, TypeInv
  <2>. QED  BY <2>1, <2>2, <2>3 DEF Hand
<1>. QED  BY <1>2, <1>3, <1>4, RecvFacts DEF ThreadInv, HandInv

LEMMA JoinThread ==
  ASSUME ThreadInv, NEW c \in Client, Join(c)
  PROVE  ThreadInv'
<1>1. Recv(c, "JOIN") /\ pc' = [pc EXCEPT ![c] = "reply"] /\ cur' = cur /\ stay' = stay
  BY DEF Join
<1>2. members' \in Seq(Node)
  <2>1. NewNode(c, up[c][1].n) \in Node
    <3>1. up[c][1] = Packet("JOIN", c, Received(c) + 1) /\ Received(c) \in Nat
      BY <1>1, RecvFacts DEF ThreadInv, RequestsInv
    <3>. QED  BY <3>1 DEF Packet, NewNode, Node
  <2>. QED  BY <2>1, AppendProperties DEF Join, ThreadInv, TypeInv
<1>3. cur' = [cur EXCEPT ![c] = None]
  BY <1>1, RecvFacts DEF ThreadInv, TypeInv
<1>. QED  BY <1>1, <1>2, <1>3, ReceiveThread DEF ThreadInv, TypeInv

LEMMA MessageThread ==
  ASSUME ThreadInv, NEW c \in Client, Message(c)
  PROVE  ThreadInv'
<1>1. Recv(c, "MESSAGE") /\ members' = members
  BY DEF Message
<1>2. CASE members = <<>>
  <2>1. pc' = [pc EXCEPT ![c] = "reply"] /\ cur' = cur /\ stay' = stay
    BY <1>2 DEF Message
  <2>2. cur' = [cur EXCEPT ![c] = None]
    BY <1>1, <2>1, RecvFacts DEF ThreadInv, TypeInv
  <2>. QED  BY <1>1, <2>1, <2>2, ReceiveThread DEF ThreadInv, TypeInv
<1>3. CASE members # <<>>
  <2>1. /\ pc' = [pc EXCEPT ![c] = "walk"] /\ cur' = [cur EXCEPT ![c] = Head(members)]
        /\ stay' = [stay EXCEPT ![c] = {m.client : m \in ToSet(members)}]
    BY <1>3 DEF Message
  <2>2. Head(members) \in Node
    BY <1>3, HeadTailProperties DEF ThreadInv, TypeInv
  <2>3. {m.client : m \in ToSet(members)} \subseteq Client
    <3>1. \A i \in DOMAIN members : members[i] \in Node
      BY LenProperties, ElementOfSeq DEF ThreadInv, TypeInv
    <3>. QED  BY <3>1 DEF ToSet, Node
  <2>4. stay' \in [Client -> SUBSET Client] /\ \A d \in Client : d # c => stay'[d] = stay[d]
    BY <2>1, <2>3 DEF ThreadInv, TypeInv
  <2>. QED  BY <1>1, <2>1, <2>2, <2>4, ReceiveThread DEF ThreadInv, TypeInv
<1>. QED  BY <1>2, <1>3

LEMMA ExitThread ==
  ASSUME ThreadInv, NEW c \in Client, Exit(c)
  PROVE  ThreadInv'
<1>1. /\ Recv(c, "EXIT") /\ pc' = [pc EXCEPT ![c] = "gone"] /\ cur' = cur
      /\ stay' = [d \in Client |-> stay[d] \ {c}]
  BY DEF Exit
<1>2. members' \in Seq(Node)
  BY ExitShape DEF ThreadInv, TypeInv
<1>3. cur' = [cur EXCEPT ![c] = None]
  BY <1>1, RecvFacts DEF ThreadInv, TypeInv
<1>4. stay' \in [Client -> SUBSET Client] /\ \A d \in Client : stay'[d] \subseteq stay[d]
  BY <1>1 DEF ThreadInv, TypeInv
<1>. QED  BY <1>1, <1>2, <1>3, <1>4, ReceiveThread DEF ThreadInv, TypeInv

(* A step that takes no request leaves the requests where they are.        *)
LEMMA RequestsSame ==
  ASSUME ThreadInv, asked' = asked, up' = up, passing' = passing
  PROVE  /\ RequestsInv'
         /\ \A c \in Client : Received(c)' = Received(c) /\ First(c)' = First(c)
<1>1. \A c \in Client : Received(c)' = Received(c) /\ First(c)' = First(c)
  BY DEF Received, First
<1>. QED  BY <1>1 DEF ThreadInv, RequestsInv

(* Nor does it disturb another thread, if it leaves its variables alone.   *)
LEMMA HandOne ==
  ASSUME ThreadInv, NEW c \in Client, stay' = stay, Hand(c)',
         \A d \in Client : d # c => /\ rest'[d] = rest[d] /\ passing'[d] = passing[d]
                                   /\ pc'[d] = pc[d] /\ cur'[d] = cur[d]
  PROVE  HandInv'
BY HandSame DEF ThreadInv, HandInv

LEMMA WalkThread ==
  ASSUME ThreadInv, NEW c \in Client, Skip(c) \/ LockSocket(c) \/ UnlockSocket(c) \/ WalkEnd(c)
  PROVE  ThreadInv'
<1>0. /\ UNCHANGED <<asked, up, passing, down, members, stay>>
      /\ \A d \in Client : d # c => rest'[d] = rest[d] /\ pc'[d] = pc[d] /\ cur'[d] = cur[d]
  BY DEF Skip, LockSocket, UnlockSocket, WalkEnd, clientVars, ThreadInv, TypeInv
<1>1. RequestsInv'
  BY <1>0, RequestsSame
<1>2. passing[c] \in Seq(Request) /\ Len(passing[c]) \in Nat
  BY LenProperties DEF ThreadInv, TypeInv
<1>3. NextMember(cur[c]) \in Node \cup {None}
  BY NextMemberType DEF ThreadInv, TypeInv
<1>4. Hand(c)
  BY DEF ThreadInv, HandInv
<1>5. CASE Skip(c)
  <2>1. /\ rest' = rest /\ pc' = pc /\ lock' = lock /\ pc[c] = "walk"
        /\ cur' = [cur EXCEPT ![c] = NextMember(cur[c])]
    BY <1>5 DEF Skip, At
  <2>2. TypeInv'
    BY <1>0, <1>3, <2>1 DEF ThreadInv, TypeInv
  <2>3. Hand(c)'
    BY <1>0, <1>4, <2>1 DEF Hand, Sent
  <2>. QED  BY <1>0, <1>1, <2>2, <2>3, HandOne DEF ThreadInv
<1>6. CASE LockSocket(c)
  <2>1. /\ cur[c] # None /\ pc[c] = "walk" /\ cur' = cur
        /\ lock' = [lock EXCEPT ![cur[c].client] = c]
        /\ rest' = [rest EXCEPT ![c] = Bytes(passing[c])] /\ pc' = [pc EXCEPT ![c] = "send"]
    BY <1>6 DEF LockSocket, At
  <2>2. /\ Bytes(passing[c]) \in Seq(Part) /\ Len(Bytes(passing[c])) = 2 * Len(passing[c])
    BY <1>2, BytesFacts
  <2>3. cur[c].client \in Client
    BY <2>1 DEF ThreadInv, TypeInv, Node
  <2>4. TypeInv'
    BY <1>0, <2>1, <2>2, <2>3 DEF ThreadInv, TypeInv
  <2>5. Hand(c)'
    <3>1. rest'[c] = Bytes(passing[c]) /\ passing' = passing /\ pc'[c] = "send"
      BY <1>0, <2>1 DEF ThreadInv, TypeInv
    <3>2. Sent(c)' = 0
      BY <1>2, <2>2, <3>1 DEF Sent
    <3>3. passing[c] # <<>>
      BY <1>4, <2>1 DEF Hand
    <3>. QED  BY <1>2, <2>2, <3>1, <3>2, <3>3 DEF Hand
  <2>. QED  BY <1>0, <1>1, <2>4, <2>5, HandOne DEF ThreadInv
<1>7. CASE UnlockSocket(c)
  <2>1. /\ pc[c] = "send" /\ rest[c] = <<>> /\ rest' = rest /\ pc' = [pc EXCEPT ![c] = "walk"]
        /\ lock' = [lock EXCEPT ![cur[c].client] = None]
        /\ cur' = [cur EXCEPT ![c] = NextMember(cur[c])]
    BY <1>7 DEF UnlockSocket, At
  <2>2. TypeInv'
    BY <1>0, <1>3, <2>1 DEF ThreadInv, TypeInv
  <2>3. Hand(c)'
    <3>1. rest'[c] = <<>> /\ passing' = passing /\ pc'[c] = "walk" /\ passing[c] # <<>>
      BY <1>0, <1>4, <2>1 DEF Hand, ThreadInv, TypeInv
    <3>. QED  BY <1>2, <3>1, EmptySeq DEF Hand
  <2>. QED  BY <1>0, <1>1, <2>2, <2>3, HandOne DEF ThreadInv
<1>8. CASE WalkEnd(c)
  <2>1. /\ rest' = rest /\ cur' = cur /\ lock' = lock /\ pc' = [pc EXCEPT ![c] = "reply"]
        /\ pc[c] = "walk" /\ cur[c] = None
    BY <1>8 DEF WalkEnd, At
  <2>2. TypeInv'
    BY <1>0, <2>1 DEF ThreadInv, TypeInv
  <2>3. Hand(c)'
    <3>1. /\ rest'[c] = <<>> /\ passing' = passing /\ pc'[c] = "reply" /\ passing[c] # <<>>
          /\ cur'[c] = None
      BY <1>0, <1>4, <2>1 DEF Hand, ThreadInv, TypeInv
    <3>. QED  BY <1>2, <3>1, EmptySeq DEF Hand
  <2>. QED  BY <1>0, <1>1, <2>2, <2>3, HandOne DEF ThreadInv
<1>. QED  BY <1>5, <1>6, <1>7, <1>8

LEMMA SendThread ==
  ASSUME ThreadInv, NEW c \in Client, Send(c), cur[c] # None
  PROVE  /\ ThreadInv'
         /\ Sent(c)' = Sent(c) + 1 /\ Sent(c) \in Nat /\ Sent(c) + 1 \in 1 .. 2 * Len(passing[c])
         /\ cur[c].client \in Client /\ pc[c] = "send"
         /\ Bytes(passing[c])[Sent(c) + 1] \in Part
         /\ down' = [down EXCEPT ![cur[c].client] = Append(@, Bytes(passing[c])[Sent(c) + 1])]
<1>1. /\ pc[c] = "send" /\ rest[c] # <<>> /\ UNCHANGED <<asked, up, passing, members, pc, cur, stay, lock>>
      /\ rest' = [rest EXCEPT ![c] = Tail(rest[c])]
      /\ down' = [down EXCEPT ![cur[c].client] = Append(@, Head(rest[c]))]
  BY DEF Send, At, clientVars
<1>2. /\ rest[c] \in Seq(Part) /\ passing[c] \in Seq(Request)
      /\ Len(rest[c]) \in Nat /\ Len(passing[c]) \in Nat /\ cur[c].client \in Client
  BY LenProperties DEF ThreadInv, TypeInv, Node
<1>3. Hand(c)
  BY DEF ThreadInv, HandInv
<1>4. /\ Head(rest[c]) = rest[c][1] /\ Head(rest[c]) \in Part /\ Tail(rest[c]) \in Seq(Part)
      /\ Len(Tail(rest[c])) = Len(rest[c]) - 1 /\ Len(rest[c]) # 0
      /\ \A i \in 1 .. Len(rest[c]) - 1 : Tail(rest[c])[i] = rest[c][i+1]
  BY <1>1, <1>2, HeadTailProperties, EmptySeq
<1>5. Sent(c)' = Sent(c) + 1 /\ Sent(c) \in Nat /\ Sent(c) + 1 \in 1 .. 2 * Len(passing[c])
  <2>1. Len(rest'[c]) = Len(rest[c]) - 1 /\ passing' = passing
    BY <1>1, <1>4 DEF ThreadInv, TypeInv
  <2>2. Sent(c) = 2 * Len(passing[c]) - Len(rest[c])
    BY DEF Sent
  <2>3. Sent(c)' = 2 * Len(passing[c]) - (Len(rest[c]) - 1)
    BY <2>1 DEF Sent
  <2>4. Len(rest[c]) <= 2 * Len(passing[c])
    BY <1>3 DEF Hand
  <2>5. Len(rest[c]) \in Nat /\ Len(rest[c]) # 0 /\ Len(passing[c]) \in Nat
    BY <1>2, <1>4
  <2>6. \A l, r \in Nat : r # 0 /\ r <= 2 * l =>
          /\ 2 * l - (r - 1) = 2 * l - r + 1 /\ 2 * l - r \in Nat
          /\ 2 * l - r + 1 \in 1 .. 2 * l
    OBVIOUS
  <2>. QED  BY <2>2, <2>3, <2>4, <2>5, <2>6
<1>6. Head(rest[c]) = Bytes(passing[c])[Sent(c) + 1]
  BY <1>2, <1>3, <1>4 DEF Hand
<1>7. Hand(c)'
  <2>1. rest'[c] = Tail(rest[c]) /\ pc'[c] = "send" /\ passing' = passing /\ passing[c] # <<>>
    BY <1>1, <1>3 DEF Hand, ThreadInv, TypeInv
  <2>2. \A i \in 1 .. Len(rest[c]) - 1 : rest'[c][i] = Bytes(passing[c])[(Sent(c) + 1) + i]
    <3>1. \A i \in 1 .. Len(rest[c]) - 1 :
            i + 1 \in 1 .. Len(rest[c]) /\ (Sent(c) + 1) + i = Sent(c) + (i + 1)
      BY <1>2, <1>5
    <3>2. \A i \in 1 .. Len(rest[c]) : rest[c][i] = Bytes(passing[c])[Sent(c) + i]
      BY <1>3 DEF Hand
    <3>. QED  BY <1>4, <2>1, <3>1, <3>2
  <2>3. Len(rest[c]) - 1 <= 2 * Len(passing[c])
    BY <1>2, <1>3 DEF Hand
  <2>. QED  BY <1>4, <1>5, <2>1, <2>2, <2>3 DEF Hand
<1>8. HandInv'
  BY <1>1, <1>7, HandOne DEF ThreadInv, TypeInv
<1>9. TypeInv'
  <2>1. down' \in [Client -> Seq(Part)]
    BY <1>1, <1>2, <1>4, AppendProperties DEF ThreadInv, TypeInv
  <2>. QED  BY <1>1, <1>4, <2>1 DEF ThreadInv, TypeInv
<1>. QED  BY <1>1, <1>2, <1>4, <1>5, <1>6, <1>8, <1>9, RequestsSame DEF ThreadInv

LEMMA SendReplyThread ==
  ASSUME ThreadInv, NEW c \in Client, SendReply(c)
  PROVE  /\ ThreadInv'
         /\ \A d \in Client : Received(d)' = Received(d)
         /\ \A d \in Client : d # c => First(d)' = First(d)
<1>1. /\ pc[c] = "reply" /\ pc' = [pc EXCEPT ![c] = "recv"]
      /\ passing' = [passing EXCEPT ![c] = <<>>] /\ stay' = [stay EXCEPT ![c] = {}]
      /\ UNCHANGED <<asked, up, stalled, down, members, cur, rest, lock>>
  BY DEF SendReply, clientVars
<1>2. /\ \A d \in Client : d # c => /\ passing'[d] = passing[d] /\ pc'[d] = pc[d]
                                    /\ stay'[d] = stay[d]
      /\ passing'[c] = <<>> /\ pc'[c] = "recv" /\ stay'[c] = {}
  BY <1>1 DEF ThreadInv, TypeInv
<1>3. /\ \A d \in Client : Received(d)' = Received(d)
      /\ \A d \in Client : d # c => First(d)' = First(d)
  BY <1>1, <1>2 DEF Received, First
<1>4. RequestsInv'
  <2>1. Received(c) \in Nat
    BY DEF ThreadInv, RequestsInv
  <2>2. First(c)' = Received(c)
    BY <1>2, <1>3, <2>1, EmptySeq DEF First
  <2>3. Follow(c, passing'[c], First(c)')
    BY <1>2, EmptySeq DEF Follow
  <2>. QED  BY <1>1, <1>2, <1>3, <2>1, <2>2, <2>3 DEF ThreadInv, RequestsInv
<1>5. TypeInv'
  BY <1>1, EmptySeq DEF ThreadInv, TypeInv
<1>6. ASSUME NEW d \in Client, d # c  PROVE Hand(d)'
  BY <1>1, <1>2, <1>6, HandSame DEF ThreadInv, HandInv
<1>7. Hand(c)'
  <2>1. rest'[c] = <<>> /\ cur'[c] = None
    BY <1>1 DEF ThreadInv, HandInv, Hand
  <2>. QED  BY <1>2, <2>1, EmptySeq DEF Hand
<1>. QED  BY <1>3, <1>4, <1>5, <1>6, <1>7 DEF ThreadInv, HandInv

LEMMA OtherThread ==
  ASSUME ThreadInv, UNCHANGED <<asked, up, down, members, threadVars, lock>>
  PROVE  ThreadInv'
<1>1. TypeInv'
  BY DEF ThreadInv, TypeInv, threadVars
<1>2. RequestsInv'
  BY RequestsSame DEF threadVars
<1>3. HandInv'
  BY HandSame DEF ThreadInv, HandInv, threadVars
<1>. QED  BY <1>1, <1>2, <1>3 DEF ThreadInv

-----------------------------------------------------------------------------
(* Messages are whole.                                                     *)

LEMMA WholeInit == Init => WholeInv
<1>. SUFFICES ASSUME Init  PROVE WholeInv
  OBVIOUS
<1>1. \A c \in Client : pc[c] = "recv" /\ down[c] = <<>>
  BY DEF Init
<1>. QED  BY <1>1, EmptySeq, LenProperties DEF WholeInv, LockInv, HalfInv, MessagesWhole

(* A step by which no stream grows and no thread comes to send.            *)
LEMMA WholeQuiet ==
  ASSUME WholeInv, UNCHANGED <<down, lock>>,
         \A c \in Client :
           pc'[c] = "send" => /\ pc[c] = "send" /\ cur'[c] = cur[c] /\ passing'[c] = passing[c]
                             /\ Sent(c)' = Sent(c)
  PROVE  WholeInv'
<1>1. LockInv' /\ MessagesWhole'
  BY DEF WholeInv, LockInv, MessagesWhole
<1>2. HalfInv'
  BY DEF WholeInv, HalfInv
<1>. QED  BY <1>1, <1>2 DEF WholeInv

LEMMA WholeSend ==
  ASSUME ThreadInv, WholeInv, NEW c \in Client, Send(c)
  PROVE  WholeInv'
<1>. DEFINE d == cur[c].client
            k == Sent(c) + 1
            b == Bytes(passing[c])[k]
<1>1. pc[c] = "send" /\ UNCHANGED <<passing, pc, cur, lock>> /\ rest' = [rest EXCEPT ![c] = Tail(@)]
  BY DEF Send, At
<1>2. cur[c] # None /\ lock[d] = c
  BY <1>1 DEF WholeInv, LockInv
<1>3. /\ ThreadInv' /\ Sent(c)' = k /\ Sent(c) \in Nat /\ k \in 1 .. 2 * Len(passing[c])
      /\ d \in Client /\ b \in Part /\ down' = [down EXCEPT ![d] = Append(down[d], b)]
  BY <1>2, SendThread
<1>4. /\ down[d] \in Seq(Part) /\ passing[c] \in Seq(Request) /\ Len(down[d]) \in Nat
      /\ DOMAIN down[d] = 1 .. Len(down[d])
  BY <1>3, LenProperties DEF ThreadInv, TypeInv
<1>5. k = Sent(c) + 1
  OBVIOUS
<1>. HIDE DEF d, b, k
<1>6. /\ down'[d] = Append(down[d], b) /\ \A e \in Client : e # d => down'[e] = down[e]
      /\ down'[d] \in Seq(Part) /\ Len(down'[d]) = Len(down[d]) + 1
      /\ \A i \in 1 .. Len(down[d]) : down'[d][i] = down[d][i]
      /\ down'[d][Len(down[d]) + 1] = b
      /\ DOMAIN down'[d] = 1 .. Len(down[d]) + 1
  BY <1>3, <1>4, AppendProperties, LenProperties DEF ThreadInv, TypeInv
<1>7. /\ b.part = 2 - (k % 2)
      /\ b.part = 2 => /\ k > 1 /\ Bytes(passing[c])[k-1].part = 1
                       /\ Bytes(passing[c])[k-1].packet = b.packet
  BY <1>3, <1>4, BytesFacts DEF b
<1>8. LockInv'
  BY <1>1 DEF WholeInv, LockInv
<1>9. HalfInv'
  <2>1. ASSUME NEW e \in Client, e # c, pc'[e] = "send"
        PROVE  cur[e].client \in Client /\ cur[e].client # d
    BY <1>1, <1>2, <2>1 DEF WholeInv, LockInv, ThreadInv, TypeInv, Node, d
  <2>2. ASSUME NEW e \in Client, e # c, pc'[e] = "send", Sent(e)' % 2 = 1
        PROVE  LET p == down'[cur'[e].client]
               IN  p # <<>> /\ p[Len(p)] = Bytes(passing'[e])[Sent(e)']
    <3>1. Sent(e)' = Sent(e)
      BY <1>1, <2>2 DEF Sent, ThreadInv, TypeInv
    <3>. QED  BY <1>1, <1>6, <2>1, <2>2, <3>1 DEF WholeInv, HalfInv
  <2>3. LET p == down'[cur'[c].client]
        IN  p # <<>> /\ p[Len(p)] = Bytes(passing'[c])[Sent(c)']
    <3>1. down'[cur'[c].client] = down'[d] /\ passing' = passing
      BY <1>1 DEF d
    <3>2. down'[d] # <<>>
      BY <1>4, <1>6, EmptySeq
    <3>. QED  BY <1>3, <1>6, <3>1, <3>2 DEF b
  <2>. QED  BY <2>2, <2>3 DEF HalfInv
<1>10. b.part = 2 =>
         /\ Len(down[d]) >= 1 /\ down[d][Len(down[d])].part = 1
         /\ down[d][Len(down[d])].packet = b.packet
  <2>. SUFFICES ASSUME b.part = 2
                PROVE  /\ Len(down[d]) >= 1 /\ down[d][Len(down[d])].part = 1
                       /\ down[d][Len(down[d])].packet = b.packet
    OBVIOUS
  <2>1. Sent(c) % 2 = 1 /\ k - 1 = Sent(c)
    <3>1. \A m \in Nat : 2 - ((m + 1) % 2) = 2 => m % 2 = 1 /\ (m + 1) - 1 = m
      OBVIOUS
    <3>. QED  BY <1>3, <1>5, <1>7, <3>1
  <2>2. down[d] # <<>> /\ down[d][Len(down[d])] = Bytes(passing[c])[k-1]
    BY <1>1, <2>1 DEF WholeInv, HalfInv, d
  <2>3. Len(down[d]) >= 1
    BY <1>4, <2>2, EmptySeq
  <2>. QED  BY <1>7, <2>2, <2>3
<1>11. MessagesWhole'
  <2>1. ASSUME NEW i \in 1 .. Len(down[d]) + 1, down'[d][i].part = 2
        PROVE  i > 1 /\ down'[d][i-1].packet = down'[d][i].packet /\ down'[d][i-1].part = 1
    <3>1. CASE i \in 1 .. Len(down[d])
      <4>1. down[d][i].part = 2 /\ i \in DOMAIN down[d]
        BY <1>4, <1>6, <2>1, <3>1
      <4>2. i > 1 /\ down[d][i-1].packet = down[d][i].packet /\ down[d][i-1].part = 1
        BY <1>3, <4>1 DEF WholeInv, MessagesWhole
      <4>3. i - 1 \in 1 .. Len(down[d])
        BY <1>4, <3>1, <4>2
      <4>. QED  BY <1>6, <3>1, <4>2, <4>3
    <3>2. CASE i = Len(down[d]) + 1
      <4>1. b.part = 2 /\ i - 1 = Len(down[d]) /\ down'[d][i] = b
        BY <1>4, <1>6, <2>1, <3>2
      <4>2. i > 1 /\ i - 1 \in 1 .. Len(down[d])
        BY <1>4, <1>10, <4>1
      <4>. QED  BY <1>6, <1>10, <4>1, <4>2
    <3>. QED  BY <1>4, <3>1, <3>2
  <2>2. ASSUME NEW e \in Client, e # d
        PROVE  \A i \in DOMAIN down'[e] : down'[e][i].part = 2 =>
                 i > 1 /\ down'[e][i-1].packet = down'[e][i].packet /\ down'[e][i-1].part = 1
    BY <1>6, <2>2 DEF WholeInv, MessagesWhole
  <2>. QED  BY <1>6, <2>1, <2>2 DEF MessagesWhole
<1>. QED  BY <1>8, <1>9, <1>11 DEF WholeInv

LEMMA WholeLock ==
  ASSUME ThreadInv, WholeInv, NEW c \in Client, LockSocket(c) \/ UnlockSocket(c)
  PROVE  WholeInv'
<1>. DEFINE d == cur[c].client
<1>0. /\ UNCHANGED <<down, passing>> /\ ThreadInv'
      /\ \A e \in Client : e # c => pc'[e] = pc[e] /\ cur'[e] = cur[e] /\ rest'[e] = rest[e]
  BY WalkThread DEF LockSocket, UnlockSocket, ThreadInv, TypeInv
<1>1. MessagesWhole'
  BY <1>0 DEF WholeInv, MessagesWhole
<1>2. \A e \in Client : e # c => Sent(e)' = Sent(e)
  BY <1>0 DEF Sent
<1>3. CASE LockSocket(c)
  <2>1. /\ cur[c] # None /\ d # c /\ lock[d] = None /\ lock' = [lock EXCEPT ![d] = c] /\ cur' = cur
        /\ rest' = [rest EXCEPT ![c] = Bytes(passing[c])] /\ pc' = [pc EXCEPT ![c] = "send"]
    BY <1>3 DEF LockSocket
  <2>2. d \in Client
    BY <2>1 DEF ThreadInv, TypeInv, Node
  <2>3. Sent(c)' = 0
    <3>1. Len(rest'[c]) = 2 * Len(passing[c]) /\ Len(passing[c]) \in Nat
      BY <2>1, BytesFacts, LenProperties DEF ThreadInv, TypeInv
    <3>. QED  BY <1>0, <3>1 DEF Sent
  <2>4. LockInv'
    <3>1. ASSUME NEW e \in Client, pc'[e] = "send", e # c
          PROVE  cur'[e] # None /\ cur'[e].client # e /\ lock'[cur'[e].client] = e
      <4>1. cur[e] # None /\ cur[e].client # e /\ lock[cur[e].client] = e /\ cur'[e] = cur[e]
        BY <1>0, <3>1 DEF WholeInv, LockInv
      <4>2. cur[e].client \in Client /\ cur[e].client # d
        BY <2>1, <4>1, ConferenceAssumption DEF ThreadInv, TypeInv, Node
      <4>. QED  BY <2>1, <4>1, <4>2 DEF ThreadInv, TypeInv
    <3>2. cur'[c] # None /\ cur'[c].client # c /\ lock'[cur'[c].client] = c
      BY <2>1, <2>2 DEF ThreadInv, TypeInv
    <3>. QED  BY <3>1, <3>2 DEF LockInv
  <2>5. HalfInv'
    <3>1. Sent(c)' % 2 # 1
      BY <2>3
    <3>2. ASSUME NEW e \in Client, pc'[e] = "send", Sent(e)' % 2 = 1
          PROVE  LET p == down'[cur'[e].client]
                 IN  p # <<>> /\ p[Len(p)] = Bytes(passing'[e])[Sent(e)']
      BY <1>0, <1>2, <3>1, <3>2 DEF WholeInv, HalfInv
    <3>. QED  BY <3>2 DEF HalfInv
  <2>. QED  BY <1>1, <2>4, <2>5 DEF WholeInv
<1>4. CASE UnlockSocket(c)
  <2>1. /\ pc[c] = "send" /\ pc' = [pc EXCEPT ![c] = "walk"] /\ pc'[c] = "walk"
        /\ lock' = [lock EXCEPT ![d] = None]
    BY <1>4 DEF UnlockSocket, At, ThreadInv, TypeInv
  <2>2. lock[d] = c
    BY <2>1 DEF WholeInv, LockInv
  <2>3. LockInv'
    <3>1. ASSUME NEW e \in Client, pc'[e] = "send"
          PROVE  cur'[e] # None /\ cur'[e].client # e /\ lock'[cur'[e].client] = e
      <4>1. e # c /\ pc[e] = "send" /\ cur'[e] = cur[e]
        BY <1>0, <2>1, <3>1
      <4>2. cur[e] # None /\ cur[e].client # e /\ lock[cur[e].client] = e
        BY <4>1 DEF WholeInv, LockInv
      <4>3. cur[e].client \in Client /\ cur[e].client # d
        BY <2>2, <4>1, <4>2 DEF ThreadInv, TypeInv, Node
      <4>. QED  BY <2>1, <4>1, <4>2, <4>3 DEF ThreadInv, TypeInv
    <3>. QED  BY <3>1 DEF LockInv
  <2>4. HalfInv'
    <3>1. ASSUME NEW e \in Client, pc'[e] = "send", Sent(e)' % 2 = 1
          PROVE  LET p == down'[cur'[e].client]
                 IN  p # <<>> /\ p[Len(p)] = Bytes(passing'[e])[Sent(e)']
      BY <1>0, <1>2, <2>1, <3>1 DEF WholeInv, HalfInv
    <3>. QED  BY <3>1 DEF HalfInv
  <2>. QED  BY <1>1, <2>3, <2>4 DEF WholeInv
<1>. QED  BY <1>3, <1>4

LEMMA WholeNext == ThreadInv /\ WholeInv /\ [Next]_vars => ThreadInv' /\ WholeInv'
<1>. SUFFICES ASSUME ThreadInv, WholeInv, [Next]_vars  PROVE ThreadInv' /\ WholeInv'
  OBVIOUS
<1>. USE DEF threadVars, clientVars
<1>1. ASSUME NEW c \in Client, Ask(c)  PROVE ThreadInv' /\ WholeInv'
  BY <1>1, AskThread, WholeQuiet DEF Ask, Sent
<1>2. ASSUME NEW c \in Client, Stall(c)  PROVE ThreadInv' /\ WholeInv'
  BY <1>2, OtherThread, WholeQuiet DEF Stall, Sent
<1>3. ASSUME NEW c \in Client, Join(c)  PROVE ThreadInv' /\ WholeInv'
  <2>1. /\ UNCHANGED <<down, lock, rest, cur>> /\ pc'[c] = "reply"
        /\ \A d \in Client : d # c => pc'[d] = pc[d] /\ passing'[d] = passing[d]
    BY <1>3, RecvFacts DEF Join, Recv, ThreadInv, TypeInv
  <2>. QED  BY <1>3, <2>1, JoinThread, WholeQuiet DEF Sent
<1>4. ASSUME NEW c \in Client, Message(c)  PROVE ThreadInv' /\ WholeInv'
  <2>1. /\ UNCHANGED <<down, lock, rest>> /\ pc'[c] # "send"
        /\ \A d \in Client : d # c => /\ pc'[d] = pc[d] /\ passing'[d] = passing[d]
                                      /\ cur'[d] = cur[d]
    BY <1>4, RecvFacts DEF Message, Recv, ThreadInv, TypeInv
  <2>. QED  BY <1>4, <2>1, MessageThread, WholeQuiet DEF Sent
<1>5. ASSUME NEW c \in Client, Exit(c)  PROVE ThreadInv' /\ WholeInv'
  <2>1. /\ UNCHANGED <<down, lock, rest, cur>> /\ pc'[c] = "gone"
        /\ \A d \in Client : d # c => pc'[d] = pc[d] /\ passing'[d] = passing[d]
    BY <1>5, RecvFacts DEF Exit, Recv, ThreadInv, TypeInv
  <2>. QED  BY <1>5, <2>1, ExitThread, WholeQuiet DEF Sent
<1>6. ASSUME NEW c \in Client, UseFreed(c)  PROVE ThreadInv' /\ WholeInv'
  BY <1>6, OtherThread, WholeQuiet DEF UseFreed, Sent
<1>7. ASSUME NEW c \in Client, Skip(c)  PROVE ThreadInv' /\ WholeInv'
  <2>1. /\ UNCHANGED <<down, lock, rest, passing, pc>> /\ pc[c] = "walk"
        /\ \A d \in Client : d # c => cur'[d] = cur[d]
    BY <1>7 DEF Skip, At, ThreadInv, TypeInv
  <2>. QED  BY <1>7, <2>1, WalkThread, WholeQuiet DEF Sent
<1>8. ASSUME NEW c \in Client, LockSocket(c)  PROVE ThreadInv' /\ WholeInv'
  BY <1>8, WalkThread, WholeLock
<1>9. ASSUME NEW c \in Client, Send(c)  PROVE ThreadInv' /\ WholeInv'
  <2>1. cur[c] # None
    BY <1>9 DEF Send, At, WholeInv, LockInv
  <2>. QED  BY <1>9, <2>1, SendThread, WholeSend
<1>10. ASSUME NEW c \in Client, UnlockSocket(c)  PROVE ThreadInv' /\ WholeInv'
  BY <1>10, WalkThread, WholeLock
<1>11. ASSUME NEW c \in Client, WalkEnd(c)  PROVE ThreadInv' /\ WholeInv'
  <2>1. /\ UNCHANGED <<down, lock, rest, passing, cur>> /\ pc'[c] = "reply"
        /\ \A d \in Client : d # c => pc'[d] = pc[d]
    BY <1>11 DEF WalkEnd, ThreadInv, TypeInv
  <2>. QED  BY <1>11, <2>1, WalkThread, WholeQuiet DEF Sent
<1>12. ASSUME NEW c \in Client, SendReply(c)  PROVE ThreadInv' /\ WholeInv'
  <2>1. /\ UNCHANGED <<down, lock, rest, cur>> /\ pc'[c] = "recv"
        /\ \A d \in Client : d # c => pc'[d] = pc[d] /\ passing'[d] = passing[d]
    BY <1>12 DEF SendReply, ThreadInv, TypeInv
  <2>. QED  BY <1>12, <2>1, SendReplyThread, WholeQuiet DEF Sent
<1>13. CASE UNCHANGED vars
  BY <1>13, OtherThread, WholeQuiet DEF vars, Sent
<1>. QED
  BY <1>1, <1>2, <1>3, <1>4, <1>5, <1>6, <1>7, <1>8, <1>9, <1>10, <1>11, <1>12, <1>13
  DEF Next, Receive, Handle

(* Two messages that are passed on to one client never mix in its stream:  *)
(* chatServer_message holds socketLock of the member from the first byte   *)
(* of the recv to the last.                                                *)
THEOREM WholeCorrect == Spec => []MessagesWhole
<1>1. Init => ThreadInv /\ WholeInv
  BY ThreadInit, WholeInit
<1>2. ThreadInv /\ WholeInv => MessagesWhole
  BY DEF WholeInv
<1>. QED  BY <1>1, <1>2, WholeNext, PTL DEF Spec

-----------------------------------------------------------------------------
(* The list and the walks.                                                 *)

LEMMA MembersInit == Init => MembersInv
<1>. SUFFICES ASSUME Init  PROVE MembersInv
  OBVIOUS
<1>1. /\ DOMAIN members = DOMAIN AtFirst /\ \A i \in DOMAIN AtFirst : AtFirst[i] \in Client
      /\ \A i \in DOMAIN AtFirst : i \in Nat
      /\ \A i \in DOMAIN AtFirst : members[i] = [client |-> AtFirst[i], join |-> -i]
  BY ConferenceAssumption, LenProperties, ElementOfSeq DEF Init, NewNode
<1>2. \A i, j \in DOMAIN members : members[i] = members[j] => i = j
  BY <1>1
<1>3. \A c \in Client : Received(c) = 0 /\ cur[c] = None
  BY EmptySeq DEF Init, Received
<1>4. \A i \in DOMAIN members :
        /\ members[i].join \in Joins(members[i].client)
        /\ members[i].join <= Received(members[i].client)
  <2>. SUFFICES ASSUME NEW i \in DOMAIN members
                PROVE  /\ members[i].join \in Joins(members[i].client)
                       /\ members[i].join <= Received(members[i].client)
    OBVIOUS
  <2>1. members[i].client = AtFirst[i] /\ members[i].join = -i /\ i \in DOMAIN AtFirst
    BY <1>1
  <2>2. -i \in Joins(AtFirst[i])
    BY <2>1 DEF Joins
  <2>. QED  BY <1>1, <1>3, <2>1, <2>2
<1>. QED  BY <1>2, <1>3, <1>4 DEF MembersInv, NodesInv

(* Where a step leaves the list alone.                                     *)
LEMMA NodesSame ==
  ASSUME ThreadInv, MembersInv, members' = members,
         \A c \in Client : Received(c)' \in Nat /\ Received(c)' >= Received(c)
  PROVE  NodesInv'
<1>1. \A i \in DOMAIN members : members[i].client \in Client /\ members[i].join \in Int
  <2>1. \A i \in DOMAIN members : members[i] \in Node
    BY LenProperties, ElementOfSeq DEF ThreadInv, TypeInv
  <2>. QED  BY <2>1 DEF Node
<1>2. \A c \in Client : Received(c) \in Nat
  BY DEF ThreadInv, RequestsInv
<1>3. \A i \in DOMAIN members : members[i].join <= Received(members[i].client)'
  BY <1>1, <1>2 DEF MembersInv, NodesInv
<1>. QED  BY <1>3 DEF MembersInv, NodesInv, Joins

(* The walk goes on to the node at the next place.                         *)
LEMMA NextPlace ==
  ASSUME ThreadInv, NodesInv, NEW i \in DOMAIN members
  PROVE  /\ i = Len(members) => NextMember(members[i]) = None
         /\ i # Len(members) => /\ i + 1 \in DOMAIN members
                                /\ NextMember(members[i]) = members[i+1]
<1>1. /\ members \in Seq(Node) /\ Len(members) \in Nat /\ DOMAIN members = 1 .. Len(members)
      /\ \A j \in DOMAIN members : members[j] \in Node /\ members[j] # None
  BY LenProperties, ElementOfSeq, ConferenceAssumption DEF ThreadInv, TypeInv
<1>. DEFINE after == {j \in DOMAIN members : j > 1 /\ members[j-1] = members[i]}
<1>2. \A j \in after : j = i + 1
  <2>1. \A j \in after : j - 1 \in DOMAIN members
    BY <1>1
  <2>. QED  BY <1>1, <2>1 DEF NodesInv
<1>3. NextMember(members[i]) = IF after = {} THEN None ELSE members[CHOOSE j \in after : TRUE]
  BY DEF NextMember
<1>4. i # Len(members) => i + 1 \in after
  BY <1>1
<1>5. i = Len(members) => after = {}
  BY <1>1, <1>2
<1>. QED  BY <1>1, <1>2, <1>3, <1>4, <1>5

(* JOIN adds a node that was not there.                                    *)
LEMMA JoinNodes ==
  ASSUME ThreadInv, MembersInv, NEW c \in Client, Join(c)
  PROVE  /\ NodesInv'
         /\ \/ members' = members
            \/ /\ DOMAIN members' = 1 .. Len(members) + 1 /\ Len(members) \in Nat
               /\ DOMAIN members = 1 .. Len(members)
               /\ \A i \in DOMAIN members : members'[i] = members[i]
               /\ members'[Len(members) + 1] = NewNode(c, Received(c) + 1)
<1>1. Recv(c, "JOIN")
  BY DEF Join
<1>2. /\ RequestsInv' /\ \A d \in Client : d # c => Received(d)' = Received(d)
      /\ Received(c)' > Received(c)
      /\ up[c][1] = Packet("JOIN", c, Received(c) + 1)
      /\ Received(c) + 1 \in DOMAIN Script[c] /\ Script[c][Received(c) + 1] = "JOIN"
  BY <1>1, RecvFacts
<1>3. \A d \in Client : Received(d) \in Nat /\ Received(d)' \in Nat
  BY <1>2 DEF ThreadInv, RequestsInv
<1>4. \A d \in Client : Received(d)' >= Received(d)
  BY <1>2, <1>3
<1>5. CASE members = <<>>
  <2>1. members' = members
    BY <1>5 DEF Join
  <2>. QED  BY <1>3, <1>4, <2>1, NodesSame
<1>6. CASE members # <<>>
  <2>. DEFINE new == NewNode(c, Received(c) + 1)  L == Len(members)
  <2>1. members' = Append(members, new)
    BY <1>2, <1>6 DEF Join, Packet
  <2>2. new.client = c /\ new.join = Received(c) + 1 /\ new \in Node
    BY <1>3 DEF NewNode, Node
  <2>. HIDE DEF new
  <2>3. members \in Seq(Node)
    BY DEF ThreadInv, TypeInv
  <2>4. /\ members' \in Seq(Node) /\ Len(members') = L + 1 /\ members'[L + 1] = new
        /\ \A i \in 1 .. L : members'[i] = members[i]
    BY <2>1, <2>2, <2>3, AppendProperties
  <2>5. /\ L \in Nat /\ DOMAIN members = 1 .. L /\ DOMAIN members' = 1 .. L + 1
        /\ \A i \in 1 .. L : members[i] \in Node
    BY <2>3, <2>4, LenProperties, ElementOfSeq
  <2>. HIDE DEF L
  <2>6. \A i \in 1 .. L : members[i] # new
    BY <1>3, <2>2, <2>5 DEF MembersInv, NodesInv, Node
  <2>7. \A i \in 1 .. L + 1 : i \in 1 .. L \/ i = L + 1
    BY <2>5
  <2>8. \A i, j \in DOMAIN members' : members'[i] = members'[j] => i = j
    BY <2>4, <2>5, <2>6, <2>7 DEF MembersInv, NodesInv
  <2>9. ASSUME NEW i \in 1 .. L + 1
        PROVE  \E d \in Client :
                 /\ members'[i].client = d /\ members'[i].join \in Joins(d)
                 /\ members'[i].join <= Received(d)'
    <3>1. CASE i \in 1 .. L
      <4>1. /\ members[i].client \in Client /\ members[i].join \in Int /\ members'[i] = members[i]
            /\ members[i].join \in Joins(members[i].client)
            /\ members[i].join <= Received(members[i].client)
        BY <2>4, <2>5, <3>1 DEF Node, MembersInv, NodesInv
      <4>. QED  BY <1>3, <1>4, <4>1
    <3>2. CASE i = L + 1
      <4>1. Received(c) + 1 \in Joins(c)
        BY <1>2 DEF Joins
      <4>2. Received(c) + 1 <= Received(c)'
        BY <1>2, <1>3
      <4>. QED  BY <2>2, <2>4, <3>2, <4>1, <4>2
    <3>. QED  BY <2>7, <3>1, <3>2
  <2>10. NodesInv'
    BY <2>5, <2>8, <2>9 DEF NodesInv, Joins, Received
  <2>. QED  BY <2>4, <2>5, <2>10 DEF new, L
<1>. QED  BY <1>5, <1>6

(* JOIN puts no node before another.                                       *)
LEMMA JoinAhead ==
  ASSUME ThreadInv, MembersInv, NEW c \in Client, Join(c), NEW e, NEW d
  PROVE  /\ cur'[e] = cur[e] /\ (InList(e) => InList(e)') /\ (Ahead(e, d) => Ahead(e, d)')
         /\ Ahead(e, d)' /\ d # c => Ahead(e, d)
<1>1. cur' = cur
  BY DEF Join
<1>2. CASE members' = members
  BY <1>1, <1>2 DEF InList, Ahead
<1>3. CASE /\ DOMAIN members' = 1 .. Len(members) + 1 /\ Len(members) \in Nat
           /\ DOMAIN members = 1 .. Len(members)
           /\ \A i \in DOMAIN members : members'[i] = members[i]
           /\ members'[Len(members) + 1] = NewNode(c, Received(c) + 1)
  <2>. DEFINE L == Len(members)
  <2>1. \A i \in 1 .. L : i \in 1 .. L + 1
    BY <1>3
  <2>2. InList(e) => InList(e)'
    BY <1>1, <1>3, <2>1 DEF InList
  <2>3. Ahead(e, d) => Ahead(e, d)'
    BY <1>1, <1>3, <2>1 DEF Ahead
  <2>4. ASSUME NEW i \in DOMAIN members', NEW j \in DOMAIN members',
               members'[i] = cur[e], i <= j, members'[j].client = d, d # c
        PROVE  Ahead(e, d)
    <3>1. j # L + 1
      BY <1>3, <2>4 DEF NewNode
    <3>2. i \in 1 .. L /\ j \in 1 .. L
      BY <1>3, <2>4, <3>1
    <3>. QED  BY <1>3, <2>4, <3>2 DEF Ahead
  <2>5. Ahead(e, d)' /\ d # c => Ahead(e, d)
    BY <1>1, <2>4 DEF Ahead
  <2>. QED  BY <1>1, <2>2, <2>3, <2>5
<1>. QED  BY <1>2, <1>3, JoinNodes

(* EXIT leaves the other nodes in their order.                             *)
LEMMA ExitNodes ==
  ASSUME ThreadInv, MembersInv, NEW c \in Client, Exit(c)
  PROVE  /\ NodesInv'
         /\ \A e, d :
              /\ InList(e) /\ cur[e].client # c => InList(e)'
              /\ Ahead(e, d) /\ cur[e].client # c /\ d # c => Ahead(e, d)'
              /\ Ahead(e, d)' => Ahead(e, d)
<1>1. /\ cur' = cur /\ members \in Seq(Node) /\ Len(members) \in Nat
      /\ DOMAIN members = 1 .. Len(members)
  BY LenProperties DEF Exit, ThreadInv, TypeInv
<1>2. \A d \in Client : Received(d) \in Nat /\ Received(d)' \in Nat /\ Received(d)' >= Received(d)
  <2>1. Recv(c, "EXIT")
    BY DEF Exit
  <2>2. /\ RequestsInv' /\ \A d \in Client : d # c => Received(d)' = Received(d)
        /\ Received(c)' > Received(c)
    BY <2>1, RecvFacts
  <2>. QED  BY <2>2 DEF RequestsInv, ThreadInv
<1>3. CASE members' = members
  BY <1>1, <1>2, <1>3, NodesSame DEF InList, Ahead
<1>4. ASSUME NEW k \in 1 .. Len(members), members[k].client = c,
             DOMAIN members' = 1 .. Len(members) - 1,
             \A i \in 1 .. Len(members) - 1 :
               members'[i] = IF i < k THEN members[i] ELSE members[i+1]
      PROVE  /\ NodesInv'
             /\ \A e, d :
                  /\ InList(e) /\ cur[e].client # c => InList(e)'
                  /\ Ahead(e, d) /\ cur[e].client # c /\ d # c => Ahead(e, d)'
                  /\ Ahead(e, d)' => Ahead(e, d)
  <2>. DEFINE L == Len(members)
              old(i) == IF i < k THEN i ELSE i + 1
              new(i) == IF i < k THEN i ELSE i - 1
  <2>1. \A i \in 1 .. L - 1 : members'[i] = members[old(i)] /\ old(i) \in 1 .. L
    BY <1>1, <1>4
  <2>2. \A i, j \in 1 .. L - 1 : (old(i) = old(j) => i = j) /\ (i <= j => old(i) <= old(j))
    BY <1>1
  <2>3. \A i \in 1 .. L : i # k => new(i) \in 1 .. L - 1 /\ old(new(i)) = i
    BY <1>1
  <2>4. \A i, j \in 1 .. L : i # k /\ j # k /\ i <= j => new(i) <= new(j)
    BY <1>1
  <2>. HIDE DEF old, new
  <2>5. \A i \in 1 .. L : members[i].client # c => i # k
    BY <1>4
  <2>6. \A i \in 1 .. L : members[i].client # c => members'[new(i)] = members[i]
    BY <2>1, <2>3, <2>5
  <2>7. NodesInv'
    <3>1. \A i, j \in DOMAIN members' : members'[i] = members'[j] => i = j
      BY <1>1, <1>4, <2>1, <2>2 DEF MembersInv, NodesInv
    <3>2. ASSUME NEW i \in 1 .. L
          PROVE  \E d \in Client :
                   /\ members[i].client = d /\ members[i].join \in Joins(d)
                   /\ members[i].join <= Received(d)'
      <4>1. members[i] \in Node
        BY <1>1, ElementOfSeq
      <4>2. /\ members[i].client \in Client /\ members[i].join \in Int
            /\ members[i].join \in Joins(members[i].client)
            /\ members[i].join <= Received(members[i].client)
        BY <1>1, <4>1 DEF Node, MembersInv, NodesInv
      <4>. QED  BY <1>2, <4>2
    <3>3. \A i \in 1 .. L - 1 : \E d \in Client :
            /\ members'[i].client = d /\ members'[i].join \in Joins(d)
            /\ members'[i].join <= Received(d)'
      BY <2>1, <3>2
    <3>. QED  BY <1>4, <3>1, <3>3 DEF NodesInv, Joins, Received
  <2>8. ASSUME NEW e, NEW d  PROVE Ahead(e, d)' => Ahead(e, d)
    BY <1>1, <1>4, <2>1, <2>2 DEF Ahead
  <2>9. ASSUME NEW e, InList(e), cur[e].client # c  PROVE InList(e)'
    BY <1>1, <1>4, <2>3, <2>5, <2>6, <2>9 DEF InList
  <2>10. ASSUME NEW e, NEW d, Ahead(e, d), cur[e].client # c, d # c  PROVE Ahead(e, d)'
    <3>1. PICK i, j \in 1 .. L : members[i] = cur[e] /\ i <= j /\ members[j].client = d
      BY <1>1, <2>10 DEF Ahead
    <3>2. i # k /\ j # k /\ members[i].client # c /\ members[j].client # c
      BY <2>5, <2>10, <3>1
    <3>3. /\ new(i) \in 1 .. L - 1 /\ new(j) \in 1 .. L - 1 /\ new(i) <= new(j)
          /\ members'[new(i)] = members[i] /\ members'[new(j)] = members[j]
      BY <2>3, <2>4, <2>6, <3>1, <3>2
    <3>. QED  BY <1>1, <1>4, <3>1, <3>3 DEF Ahead
  <2>. QED  BY <2>7, <2>8, <2>9, <2>10
<1>. QED  BY <1>1, <1>3, <1>4, ExitShape

(* What the walk has ahead of it when it goes on.                          *)
LEMMA WalkOn ==
  ASSUME ThreadInv, NodesInv, NEW c \in Client, InList(c), members' = members,
         cur' = [cur EXCEPT ![c] = NextMember(cur[c])]
  PROVE  /\ cur'[c] # None => InList(c)'
         /\ \A d : d # cur[c].client /\ Ahead(c, d) => cur'[c] # None /\ Ahead(c, d)'
         /\ \A d : Ahead(c, d)' /\ cur'[c] # None =>
              \E i, j \in DOMAIN members :
                members[i] = cur[c] /\ i < j /\ members[j].client = d
<1>1. PICK i \in DOMAIN members : members[i] = cur[c]
  BY DEF InList
<1>2. /\ members \in Seq(Node) /\ Len(members) \in Nat /\ DOMAIN members = 1 .. Len(members)
      /\ cur'[c] = NextMember(members[i])
      /\ \A j \in DOMAIN members : members[j] \in Node /\ members[j] # None
  BY <1>1, LenProperties, ElementOfSeq, ConferenceAssumption DEF ThreadInv, TypeInv
<1>3. \A k \in DOMAIN members : members[k] = cur[c] => k = i
  BY <1>1 DEF NodesInv
<1>4. CASE i = Len(members)
  <2>1. cur'[c] = None
    BY <1>2, <1>4, NextPlace
  <2>2. ASSUME NEW d, d # cur[c].client, Ahead(c, d)  PROVE FALSE
    <3>1. PICK j \in DOMAIN members : i <= j /\ members[j].client = d
      BY <1>3, <2>2 DEF Ahead
    <3>2. j = i
      BY <1>2, <1>4, <3>1
    <3>. QED  BY <1>1, <2>2, <3>1, <3>2
  <2>. QED  BY <2>1, <2>2
<1>5. CASE i # Len(members)
  <2>1. i + 1 \in DOMAIN members /\ cur'[c] = members[i+1] /\ cur'[c] # None
    BY <1>2, <1>5, NextPlace
  <2>2. InList(c)'
    BY <2>1 DEF InList
  <2>3. ASSUME NEW d, d # cur[c].client, Ahead(c, d)  PROVE Ahead(c, d)'
    <3>1. PICK j \in DOMAIN members : i <= j /\ members[j].client = d
      BY <1>3, <2>3 DEF Ahead
    <3>2. i + 1 <= j
      BY <1>1, <1>2, <2>3, <3>1
    <3>. QED  BY <2>1, <3>1, <3>2 DEF Ahead
  <2>4. ASSUME NEW d, Ahead(c, d)'
        PROVE  \E j \in DOMAIN members : i < j /\ members[j].client = d
    <3>1. PICK h, j \in DOMAIN members : members[h] = members[i+1] /\ h <= j /\ members[j].client = d
      BY <2>1, <2>4 DEF Ahead
    <3>2. h = i + 1
      BY <2>1, <3>1 DEF NodesInv
    <3>. QED  BY <1>2, <3>1, <3>2
  <2>. QED  BY <1>1, <2>1, <2>2, <2>3, <2>4
<1>. QED  BY <1>4, <1>5

(* Nothing brings a thread back.                                           *)
LEMMA GoneStays ==
  ASSUME ThreadInv, [Next]_vars, NEW c \in Client, pc[c] = "gone"
  PROVE  pc'[c] = "gone"
<1>. USE DEF threadVars, clientVars, ThreadInv, TypeInv
<1>1. ASSUME NEW e \in Client, Ask(e) \/ Stall(e) \/ Receive(e)  PROVE pc'[c] = "gone"
  BY <1>1 DEF Ask, Stall, Receive, Join, Message, Exit, Recv
<1>2. ASSUME NEW e \in Client, Handle(e)  PROVE pc'[c] = "gone"
  BY <1>2 DEF Handle, UseFreed, Skip, LockSocket, Send, UnlockSocket, WalkEnd, SendReply, At
<1>3. CASE UNCHANGED vars
  BY <1>3 DEF vars
<1>. QED  BY <1>1, <1>2, <1>3 DEF Next

LEMMA MembersQuiet ==
  ASSUME ThreadInv, MembersInv, [Next]_vars, UNCHANGED <<members, cur>>,
         \A c \in Client : Received(c)' \in Nat /\ Received(c)' >= Received(c)
  PROVE  MembersInv'
<1>1. NodesInv'
  BY NodesSame
<1>2. ASSUME NEW c \in Client, cur'[c] # None, pc'[cur'[c].client] # "gone"  PROVE InList(c)'
  <2>1. cur[c].client \in Client
    BY <1>2 DEF ThreadInv, TypeInv, Node
  <2>2. pc[cur[c].client] # "gone"
    BY <1>2, <2>1, GoneStays
  <2>. QED  BY <1>2, <2>2 DEF MembersInv, InList
<1>. QED  BY <1>1, <1>2 DEF MembersInv

LEMMA MembersReceive ==
  ASSUME ThreadInv, MembersInv, [Next]_vars, NEW c \in Client, Receive(c)
  PROVE  MembersInv'
<1>1. PICK kind : Recv(c, kind)
  BY DEF Receive, Join, Message, Exit
<1>2. /\ RequestsInv' /\ cur[c] = None /\ \A d \in Client : d # c => Received(d)' = Received(d)
      /\ Received(c)' > Received(c)
  BY <1>1, RecvFacts
<1>3. \A d \in Client : Received(d)' \in Nat /\ Received(d)' >= Received(d)
  BY <1>2 DEF ThreadInv, RequestsInv
<1>4. \A e \in Client : cur[e] # None => cur[e].client \in Client
  BY DEF ThreadInv, TypeInv, Node
<1>5. CASE Join(c)
  <2>1. cur' = cur
    BY <1>5 DEF Join
  <2>2. ASSUME NEW e \in Client, cur'[e] # None, pc'[cur'[e].client] # "gone"  PROVE InList(e)'
    <3>1. cur[e] # None /\ pc[cur[e].client] # "gone"
      BY <1>4, <2>1, <2>2, GoneStays
    <3>. QED  BY <1>5, <3>1, JoinAhead DEF MembersInv
  <2>. QED  BY <1>5, <2>2, JoinNodes DEF MembersInv
<1>6. CASE Message(c)
  <2>1. members' = members /\ \A e \in Client : e # c => cur'[e] = cur[e]
    BY <1>6 DEF Message, ThreadInv, TypeInv
  <2>2. cur'[c] # None => InList(c)'
    <3>1. CASE members = <<>>
      BY <1>2, <1>6, <3>1 DEF Message
    <3>2. CASE members # <<>>
      <4>1. cur'[c] = members[1] /\ 1 \in DOMAIN members
        BY <1>6, <3>2, HeadTailProperties, EmptySeq, LenProperties DEF Message, ThreadInv, TypeInv
      <4>. QED  BY <2>1, <4>1 DEF InList
    <3>. QED  BY <3>1, <3>2
  <2>3. ASSUME NEW e \in Client, e # c, cur'[e] # None, pc'[cur'[e].client] # "gone"
        PROVE  InList(e)'
    <3>1. cur'[e] = cur[e] /\ cur[e] # None /\ pc[cur[e].client] # "gone"
      BY <1>4, <2>1, <2>3, GoneStays
    <3>. QED  BY <2>1, <3>1 DEF MembersInv, InList
  <2>4. NodesInv'
    BY <1>3, <2>1, NodesSame
  <2>. QED  BY <2>2, <2>3, <2>4 DEF MembersInv
<1>7. CASE Exit(c)
  <2>1. cur' = cur /\ pc'[c] = "gone"
    BY <1>7 DEF Exit, ThreadInv, TypeInv
  <2>2. ASSUME NEW e \in Client, cur'[e] # None, pc'[cur'[e].client] # "gone"  PROVE InList(e)'
    <3>1. cur[e] # None /\ pc[cur[e].client] # "gone" /\ cur[e].client # c
      BY <1>4, <2>1, <2>2, GoneStays
    <3>. QED  BY <1>7, <3>1, ExitNodes DEF MembersInv
  <2>. QED  BY <1>7, <2>2, ExitNodes DEF MembersInv
<1>. QED  BY <1>5, <1>6, <1>7 DEF Receive

LEMMA MembersWalk ==
  ASSUME ThreadInv, MembersInv, [Next]_vars, NEW c \in Client, NodesInv', InList(c),
         members' = members, cur' = [cur EXCEPT ![c] = NextMember(cur[c])]
  PROVE  MembersInv'
<1>1. \A e \in Client : e # c => cur'[e] = cur[e]
  BY DEF ThreadInv, TypeInv
<1>2. cur'[c] # None => InList(c)'
  BY WalkOn DEF MembersInv
<1>3. ASSUME NEW e \in Client, e # c, cur'[e] # None, pc'[cur'[e].client] # "gone"
      PROVE  InList(e)'
  <2>1. cur'[e] = cur[e] /\ cur[e] # None /\ pc'[cur[e].client] # "gone"
    BY <1>1, <1>3
  <2>2. cur[e].client \in Client
    BY <2>1 DEF ThreadInv, TypeInv, Node
  <2>3. pc[cur[e].client] # "gone"
    BY <2>1, <2>2, GoneStays
  <2>. QED  BY <2>1, <2>3 DEF MembersInv, InList
<1>. QED  BY <1>2, <1>3 DEF MembersInv

LEMMA MembersNext == ThreadInv /\ WholeInv /\ MembersInv /\ [Next]_vars => MembersInv'
<1>. SUFFICES ASSUME ThreadInv, WholeInv, MembersInv, [Next]_vars  PROVE MembersInv'
  OBVIOUS
<1>. USE DEF threadVars, clientVars
<1>1. \A d \in Client : Received(d) \in Nat
  BY DEF ThreadInv, RequestsInv
<1>2. ASSUME NEW c \in Client, Ask(c)  PROVE MembersInv'
  <2>1. \A d \in Client : Received(d)' = Received(d)
    <3>1. \A d \in Client : d # c => asked'[d] = asked[d] /\ up'[d] = up[d]
      BY <1>2 DEF Ask, ThreadInv, TypeInv
    <3>. QED  BY <1>2, <3>1, AskThread DEF Received
  <2>. QED  BY <1>1, <1>2, <2>1, MembersQuiet DEF Ask
<1>3. ASSUME NEW c \in Client, Receive(c)  PROVE MembersInv'
  BY <1>3, MembersReceive
<1>4. ASSUME UNCHANGED <<asked, up, members, cur>>  PROVE MembersInv'
  <2>1. \A d \in Client : Received(d)' = Received(d)
    BY <1>4 DEF Received
  <2>. QED  BY <1>1, <1>4, <2>1, MembersQuiet
<1>5. ASSUME NEW c \in Client, Skip(c) \/ UnlockSocket(c)  PROVE MembersInv'
  <2>1. /\ UNCHANGED <<asked, up, members>> /\ cur' = [cur EXCEPT ![c] = NextMember(cur[c])]
        /\ cur[c] # None /\ pc[cur[c].client] # "gone"
    BY <1>5 DEF Skip, UnlockSocket, At, WholeInv, LockInv
  <2>2. InList(c)
    BY <2>1 DEF MembersInv
  <2>3. \A d \in Client : Received(d)' = Received(d)
    BY <2>1 DEF Received
  <2>4. NodesInv'
    BY <1>1, <2>1, <2>3, NodesSame
  <2>. QED  BY <2>1, <2>2, <2>4, MembersWalk
<1>. QED
  BY <1>2, <1>3, <1>4, <1>5
  DEF Next, Handle, Stall, UseFreed, LockSocket, Send, WalkEnd, SendReply, vars

-----------------------------------------------------------------------------
(* What an acknowledgement means.                                          *)

(* Streams only grow, by what is sent.                                     *)
Grown == \A d \in Client : \A i \in DOMAIN down[d] : i \in DOMAIN down'[d] /\ down'[d][i] = down[d][i]

LEMMA SendGrown ==
  ASSUME ThreadInv, WholeInv, NEW c \in Client, Send(c)
  PROVE  /\ Grown /\ UNCHANGED <<asked, up, passing, pc, cur, members, stay, lock>>
         /\ cur[c] # None /\ cur[c].client \in Client /\ pc[c] = "send"
         /\ pc[cur[c].client] # "gone"
         /\ Sent(c)' = Sent(c) + 1 /\ Sent(c) \in Nat /\ Sent(c) + 1 \in 1 .. 2 * Len(passing[c])
         /\ \A d \in Client : d # c => Sent(d)' = Sent(d)
         /\ \A d \in Client : d # cur[c].client => down'[d] = down[d]
         /\ DOMAIN down[cur[c].client] = 1 .. Len(down[cur[c].client])
         /\ DOMAIN down'[cur[c].client] = 1 .. Len(down[cur[c].client]) + 1
         /\ Len(down[cur[c].client]) \in Nat
         /\ down'[cur[c].client][Len(down[cur[c].client]) + 1] = Bytes(passing[c])[Sent(c) + 1]
<1>. DEFINE d == cur[c].client
            b == Bytes(passing[c])[Sent(c) + 1]
            L == Len(down[d])
<1>1. /\ UNCHANGED <<asked, up, passing, pc, cur, members, stay, lock>> /\ pc[c] = "send"
      /\ rest' = [rest EXCEPT ![c] = Tail(@)] /\ (cur[c] # None => pc[d] # "gone")
  BY DEF Send, At, clientVars
<1>2. cur[c] # None
  BY <1>1 DEF WholeInv, LockInv
<1>3. /\ Sent(c)' = Sent(c) + 1 /\ Sent(c) \in Nat /\ Sent(c) + 1 \in 1 .. 2 * Len(passing[c])
      /\ d \in Client /\ b \in Part /\ down' = [down EXCEPT ![d] = Append(down[d], b)]
  BY <1>2, SendThread
<1>4. down[d] \in Seq(Part) /\ L \in Nat /\ DOMAIN down[d] = 1 .. L
  BY <1>3, LenProperties DEF ThreadInv, TypeInv
<1>. HIDE DEF b
<1>5. /\ down'[d] = Append(down[d], b) /\ \A e \in Client : e # d => down'[e] = down[e]
  BY <1>3 DEF ThreadInv, TypeInv
<1>6. /\ down'[d] \in Seq(Part) /\ Len(down'[d]) = L + 1 /\ down'[d][L + 1] = b
      /\ \A i \in 1 .. L : down'[d][i] = down[d][i]
  BY <1>3, <1>4, <1>5, AppendProperties
<1>7. DOMAIN down'[d] = 1 .. L + 1 /\ \A i \in 1 .. L : i \in 1 .. L + 1
  BY <1>4, <1>6, LenProperties
<1>. HIDE DEF d, L
<1>8. Grown
  <2>1. ASSUME NEW e \in Client, NEW i \in DOMAIN down[e]
        PROVE  i \in DOMAIN down'[e] /\ down'[e][i] = down[e][i]
    BY <1>4, <1>5, <1>6, <1>7
  <2>. QED  BY <2>1 DEF Grown
<1>9. \A e \in Client : e # c => Sent(e)' = Sent(e)
  BY <1>1 DEF Sent, ThreadInv, TypeInv
<1>. QED  BY <1>1, <1>2, <1>3, <1>4, <1>5, <1>6, <1>7, <1>8, <1>9 DEF d, b, L

(* What a step does not take from a thread that is not at it.              *)
LEMMA StaySame ==
  ASSUME ThreadInv, WholeInv, [Next]_vars, Grown, NEW c \in Client, Stay(c),
         cur'[c] = cur[c], passing'[c] = passing[c], stay'[c] \subseteq stay[c],
         pc'[c] = "send" => pc[c] = "send" /\ Sent(c)' = Sent(c),
         \A d \in stay'[c] :
           Ahead(c, d) /\ cur[c] # None /\ pc'[cur[c].client] # "gone" => Ahead(c, d)'
  PROVE  Stay(c)'
<1>1. stay'[c] \subseteq Client /\ (cur[c] # None => cur[c].client \in Client)
  BY DEF ThreadInv, TypeInv, Node
<1>2. ASSUME pc'[c] = "send", NEW k \in 1 .. Sent(c)', cur[c] # None
      PROVE  \E i \in DOMAIN down'[cur'[c].client] : down'[cur'[c].client][i] = Bytes(passing'[c])[k]
  <2>1. PICK i \in DOMAIN down[cur[c].client] : down[cur[c].client][i] = Bytes(passing[c])[k]
    BY <1>2 DEF Stay
  <2>. QED  BY <1>1, <1>2, <2>1 DEF Grown
<1>3. ASSUME cur'[c] = None \/ pc'[cur'[c].client] # "gone", NEW d \in stay'[c] \ {c}
      PROVE  Delivered(c, d)' \/ (cur'[c] # None /\ Ahead(c, d)')
  <2>1. cur[c] = None \/ pc[cur[c].client] # "gone"
    BY <1>1, <1>3, GoneStays
  <2>2. CASE Delivered(c, d)
    <3>1. d \in Client
      BY <1>1
    <3>. QED  BY <2>2, <3>1 DEF Delivered, Grown
  <2>3. CASE cur[c] # None /\ Ahead(c, d)
    BY <1>3, <2>3
  <2>. QED  BY <1>3, <2>1, <2>2, <2>3 DEF Stay
<1>4. pc'[c] = "send" => cur[c] # None
  BY DEF WholeInv, LockInv
<1>. QED  BY <1>2, <1>3, <1>4 DEF Stay

LEMMA StayReceive ==
  ASSUME ThreadInv, WholeInv, MembersInv, StayInv, [Next]_vars, NEW c \in Client, Receive(c)
  PROVE  StayInv'
<1>1. PICK kind : Recv(c, kind)
  BY DEF Receive, Join, Message, Exit
<1>2. /\ pc[c] = "recv" /\ cur[c] = None /\ \A d \in Client : d # c => passing'[d] = passing[d]
      /\ UNCHANGED <<down, rest>> /\ stay[c] = {}
  BY <1>1, RecvFacts DEF Recv, ThreadInv, HandInv, Hand
<1>3. Grown /\ \A d \in Client : d # c => Sent(d)' = Sent(d)
  BY <1>2 DEF Grown, Sent
<1>4. CASE Join(c)
  <2>1. /\ cur' = cur /\ stay' = stay /\ pc'[c] = "reply"
        /\ \A d \in Client : d # c => pc'[d] = pc[d]
    BY <1>4 DEF Join, ThreadInv, TypeInv
  <2>2. ASSUME NEW e \in Client, e # c  PROVE Stay(e)'
    BY <1>2, <1>3, <1>4, <2>1, <2>2, StaySame, JoinAhead DEF StayInv
  <2>3. Stay(c)'
    BY <1>2, <2>1 DEF Stay
  <2>. QED  BY <2>2, <2>3 DEF StayInv
<1>5. CASE Message(c)
  <2>1. /\ members' = members /\ pc'[c] # "send"
        /\ \A e \in Client : e # c => cur'[e] = cur[e] /\ stay'[e] = stay[e] /\ pc'[e] = pc[e]
    BY <1>5 DEF Message, ThreadInv, TypeInv
  <2>2. ASSUME NEW e \in Client, e # c  PROVE Stay(e)'
    <3>1. \A d : Ahead(e, d) => Ahead(e, d)'
      BY <2>1, <2>2 DEF Ahead
    <3>. QED  BY <1>2, <1>3, <2>1, <2>2, <3>1, StaySame DEF StayInv
  <2>3. Stay(c)'
    <3>1. CASE members = <<>>
      <4>1. stay'[c] = {}
        BY <1>2, <1>5, <3>1 DEF Message
      <4>. QED  BY <2>1, <4>1 DEF Stay
    <3>2. CASE members # <<>>
      <4>1. /\ cur'[c] = members[1] /\ DOMAIN members = 1 .. Len(members) /\ Len(members) \in Nat
            /\ 1 \in DOMAIN members
            /\ stay'[c] = {m.client : m \in ToSet(members)}
        BY <1>5, <3>2, HeadTailProperties, EmptySeq, LenProperties DEF Message, ThreadInv, TypeInv
      <4>2. members[1] # None
        BY <4>1, ElementOfSeq, ConferenceAssumption DEF ThreadInv, TypeInv
      <4>3. ASSUME NEW d \in stay'[c]  PROVE cur'[c] # None /\ Ahead(c, d)'
        <5>1. PICK j \in DOMAIN members : members[j].client = d
          BY <4>1, <4>3 DEF ToSet
        <5>2. 1 <= j
          BY <4>1
        <5>. QED  BY <2>1, <4>1, <4>2, <5>1, <5>2 DEF Ahead
      <4>. QED  BY <2>1, <4>3 DEF Stay
    <3>. QED  BY <3>1, <3>2
  <2>. QED  BY <2>2, <2>3 DEF StayInv
<1>6. CASE Exit(c)
  <2>1. /\ cur' = cur /\ pc'[c] = "gone" /\ \A d \in Client : d # c => pc'[d] = pc[d]
        /\ \A d \in Client : stay'[d] = stay[d] \ {c}
    BY <1>6 DEF Exit, ThreadInv, TypeInv
  <2>2. ASSUME NEW e \in Client, e # c  PROVE Stay(e)'
    <3>1. \A d \in stay'[e] :
            Ahead(e, d) /\ cur[e] # None /\ pc'[cur[e].client] # "gone" => Ahead(e, d)'
      BY <1>6, <2>1, ExitNodes
    <3>. QED  BY <1>2, <1>3, <2>1, <2>2, <3>1, StaySame DEF StayInv
  <2>3. Stay(c)'
    BY <1>2, <2>1 DEF Stay
  <2>. QED  BY <2>2, <2>3 DEF StayInv
<1>. QED  BY <1>4, <1>5, <1>6 DEF Receive

(* A walk that goes on has delivered to the member it leaves, if that is   *)
(* not its own client.                                                     *)
LEMMA StayWalk ==
  ASSUME ThreadInv, WholeInv, MembersInv, StayInv, NEW c \in Client,
         Skip(c) \/ UnlockSocket(c)
  PROVE  Stay(c)'
<1>1. /\ UNCHANGED <<asked, up, down, members, passing, stay>> /\ pc'[c] = "walk"
      /\ cur' = [cur EXCEPT ![c] = NextMember(cur[c])]
      /\ cur[c] # None /\ pc[cur[c].client] # "gone"
  BY DEF Skip, UnlockSocket, At, WholeInv, LockInv, ThreadInv, TypeInv, clientVars
<1>2. InList(c) /\ NodesInv
  BY <1>1 DEF MembersInv
<1>3. ASSUME NEW d \in stay[c] \ {c}
      PROVE  Delivered(c, d)' \/ (cur'[c] # None /\ Ahead(c, d)')
  <2>1. CASE Delivered(c, d)
    BY <1>1, <2>1 DEF Delivered
  <2>2. CASE Ahead(c, d) /\ d # cur[c].client
    BY <1>1, <1>2, <2>2, WalkOn
  <2>3. CASE d = cur[c].client
    <3>1. UnlockSocket(c) /\ pc[c] = "send" /\ rest[c] = <<>>
      BY <1>3, <2>3 DEF Skip, UnlockSocket, At
    <3>2. passing[c] \in Seq(Request) /\ Len(passing[c]) \in Nat
      BY LenProperties DEF ThreadInv, TypeInv
    <3>3. Sent(c) = 2 * Len(passing[c])
      BY <3>1, <3>2, EmptySeq DEF Sent
    <3>4. DOMAIN Bytes(passing[c]) = 1 .. 2 * Len(passing[c])
      BY <3>2, BytesFacts
    <3>5. Delivered(c, d)
      BY <2>3, <3>1, <3>3, <3>4 DEF StayInv, Stay, Delivered
    <3>. QED  BY <1>1, <3>5 DEF Delivered
  <2>. QED  BY <1>1, <2>1, <2>2, <2>3 DEF StayInv, Stay
<1>. QED  BY <1>1, <1>3 DEF Stay

LEMMA StayNext ==
  ThreadInv /\ WholeInv /\ MembersInv /\ StayInv /\ [Next]_vars => StayInv'
<1>. SUFFICES ASSUME ThreadInv, WholeInv, MembersInv, StayInv, [Next]_vars  PROVE StayInv'
  OBVIOUS
<1>. USE DEF threadVars, clientVars
<1>1. ASSUME NEW c \in Client, Receive(c)  PROVE StayInv'
  BY <1>1, StayReceive
<1>2. ASSUME UNCHANGED <<down, members, passing, pc, cur, rest, stay>>  PROVE StayInv'
  <2>1. Grown
    BY <1>2 DEF Grown
  <2>2. \A e, d : Ahead(e, d) => Ahead(e, d)'
    BY <1>2 DEF Ahead
  <2>3. \A e \in Client : Sent(e)' = Sent(e)
    BY <1>2 DEF Sent
  <2>. QED  BY <1>2, <2>1, <2>2, <2>3, StaySame DEF StayInv
<1>3. ASSUME NEW c \in Client, UNCHANGED <<down, members>>, Stay(c)',
             \A e \in Client : e # c => /\ passing'[e] = passing[e] /\ pc'[e] = pc[e]
                                       /\ cur'[e] = cur[e] /\ rest'[e] = rest[e] /\ stay'[e] = stay[e]
      PROVE  StayInv'
  <2>1. Grown
    BY <1>3 DEF Grown
  <2>2. ASSUME NEW e \in Client, e # c  PROVE Stay(e)'
    <3>1. Sent(e)' = Sent(e)
      BY <1>3, <2>2 DEF Sent
    <3>2. \A d : Ahead(e, d) => Ahead(e, d)'
      BY <1>3, <2>2 DEF Ahead
    <3>. QED  BY <1>3, <2>1, <2>2, <3>1, <3>2, StaySame DEF StayInv
  <2>. QED  BY <1>3, <2>2 DEF StayInv
<1>4. ASSUME NEW c \in Client, Skip(c) \/ UnlockSocket(c)  PROVE StayInv'
  <2>1. /\ UNCHANGED <<down, members>>
        /\ \A e \in Client : e # c => /\ passing'[e] = passing[e] /\ pc'[e] = pc[e]
                                      /\ cur'[e] = cur[e] /\ rest'[e] = rest[e] /\ stay'[e] = stay[e]
    BY <1>4 DEF Skip, UnlockSocket, ThreadInv, TypeInv
  <2>. QED  BY <1>3, <1>4, <2>1, StayWalk
<1>5. ASSUME NEW c \in Client, LockSocket(c)  PROVE StayInv'
  <2>1. /\ UNCHANGED <<down, members, passing, cur, stay>>
        /\ cur[c] # None /\ pc[cur[c].client] # "gone"
        /\ rest' = [rest EXCEPT ![c] = Bytes(passing[c])]
        /\ \A e \in Client : e # c => pc'[e] = pc[e] /\ rest'[e] = rest[e]
    BY <1>5 DEF LockSocket, At, ThreadInv, TypeInv
  <2>2. Sent(c)' = 0
    <3>1. Len(rest'[c]) = 2 * Len(passing[c]) /\ Len(passing[c]) \in Nat
      BY <2>1, BytesFacts, LenProperties DEF ThreadInv, TypeInv
    <3>. QED  BY <2>1, <3>1 DEF Sent
  <2>3. Stay(c)'
    <3>1. \A d : Delivered(c, d)' = Delivered(c, d) /\ Ahead(c, d)' = Ahead(c, d)
      BY <2>1 DEF Delivered, Ahead
    <3>2. \A d \in stay'[c] \ {c} : Delivered(c, d)' \/ (cur'[c] # None /\ Ahead(c, d)')
      BY <2>1, <3>1 DEF StayInv, Stay
    <3>3. \A k \in 1 .. Sent(c)' : FALSE
      BY <2>2
    <3>. QED  BY <3>2, <3>3 DEF Stay
  <2>. QED  BY <1>3, <2>1, <2>3
<1>6. ASSUME NEW c \in Client, Send(c)  PROVE StayInv'
  <2>. DEFINE d == cur[c].client  L == Len(down[d])
  <2>1. /\ Grown /\ UNCHANGED <<passing, pc, cur, members, stay>> /\ cur[c] # None /\ d \in Client
        /\ pc[c] = "send" /\ pc[d] # "gone" /\ Sent(c)' = Sent(c) + 1 /\ Sent(c) \in Nat
        /\ \A e \in Client : e # c => Sent(e)' = Sent(e)
        /\ DOMAIN down'[d] = 1 .. L + 1 /\ L \in Nat
        /\ down'[d][L + 1] = Bytes(passing[c])[Sent(c) + 1]
    BY <1>6, SendGrown
  <2>2. ASSUME NEW e \in Client, e # c  PROVE Stay(e)'
    BY <2>1, <2>2, StaySame DEF StayInv, Ahead
  <2>3. ASSUME NEW k \in 1 .. Sent(c) + 1
        PROVE  \E i \in DOMAIN down'[d] : down'[d][i] = Bytes(passing[c])[k]
    <3>1. CASE k \in 1 .. Sent(c)
      <4>1. PICK i \in DOMAIN down[d] : down[d][i] = Bytes(passing[c])[k]
        BY <2>1, <3>1 DEF StayInv, Stay
      <4>. QED  BY <2>1, <4>1 DEF Grown
    <3>2. CASE k = Sent(c) + 1
      <4>1. L + 1 \in DOMAIN down'[d]
        BY <2>1
      <4>. QED  BY <2>1, <3>2, <4>1
    <3>. QED  BY <2>1, <3>1, <3>2
  <2>4. ASSUME NEW f \in stay[c] \ {c}
        PROVE  Delivered(c, f)' \/ (cur'[c] # None /\ Ahead(c, f)')
    <3>1. CASE Delivered(c, f)
      <4>1. f \in Client
        BY DEF ThreadInv, TypeInv
      <4>. QED  BY <2>1, <3>1, <4>1 DEF Delivered, Grown
    <3>2. CASE Ahead(c, f)
      BY <2>1, <3>2 DEF Ahead
    <3>. QED  BY <2>1, <3>1, <3>2 DEF StayInv, Stay
  <2>5. Stay(c)'
    <3>. HIDE DEF L
    <3>. QED  BY <2>1, <2>3, <2>4 DEF Stay
  <2>. QED  BY <2>2, <2>5 DEF StayInv
<1>7. ASSUME NEW c \in Client, WalkEnd(c)  PROVE StayInv'
  <2>1. /\ UNCHANGED <<down, members, passing, cur, stay, rest>> /\ cur[c] = None /\ pc'[c] = "reply"
        /\ \A e \in Client : e # c => pc'[e] = pc[e]
    BY <1>7 DEF WalkEnd, ThreadInv, TypeInv
  <2>2. Stay(c)'
    BY <2>1 DEF StayInv, Stay, Delivered, Ahead
  <2>. QED  BY <1>3, <2>1, <2>2
<1>8. ASSUME NEW c \in Client, SendReply(c)  PROVE StayInv'
  <2>1. /\ UNCHANGED <<down, members, cur, rest>> /\ pc'[c] = "recv" /\ stay'[c] = {}
        /\ \A e \in Client : e # c => /\ pc'[e] = pc[e] /\ stay'[e] = stay[e]
                                      /\ passing'[e] = passing[e]
    BY <1>8 DEF SendReply, ThreadInv, TypeInv
  <2>2. Stay(c)'
    BY <2>1 DEF Stay
  <2>. QED  BY <1>3, <2>1, <2>2
<1>. QED
  BY <1>1, <1>2, <1>4, <1>5, <1>6, <1>7, <1>8 DEF Next, Handle, Ask, Stall, UseFreed, vars

(* A message whose sender is told MESSAGE_ACK has been put into the stream *)
(* of every client that was in the session all the time: the loop of       *)
(* chatServer_message passes no member by, whoever joins and leaves.       *)
THEOREM AckCorrect == Spec => []AckMeansDelivered
<1>. DEFINE AckInv == ThreadInv /\ WholeInv /\ MembersInv /\ StayInv
<1>1. Init => AckInv
  <2>1. Init => StayInv
    BY DEF Init, StayInv, Stay
  <2>. QED  BY <2>1, ThreadInit, WholeInit, MembersInit
<1>2. AckInv /\ [Next]_vars => AckInv'
  BY WholeNext, MembersNext, StayNext
<1>3. AckInv => AckMeansDelivered
  <2>. SUFFICES ASSUME AckInv, NEW c \in Client, pc[c] = "reply", NEW d \in stay[c] \ {c}
                PROVE  ToSet(Bytes(passing[c])) \subseteq ToSet(down[d])
    BY DEF AckMeansDelivered
  <2>1. cur[c] = None
    BY DEF ThreadInv, HandInv, Hand
  <2>2. Delivered(c, d)
    BY <2>1 DEF StayInv, Stay
  <2>. QED  BY <2>2 DEF Delivered, ToSet
<1>. QED  BY <1>1, <1>2, <1>3, PTL DEF Spec

-----------------------------------------------------------------------------
(* The order of messages.                                                  *)

LEMMA PartFields ==
  ASSUME ThreadInv, NEW d \in Client, NEW i \in DOMAIN down[d]
  PROVE  /\ down[d][i].packet.n \in Nat /\ down[d][i].part \in {1, 2}
<1>1. down[d][i] \in Part
  BY LenProperties, ElementOfSeq DEF ThreadInv, TypeInv
<1>. QED  BY <1>1 DEF Part, Request

LEMMA BoundedSame ==
  ASSUME ThreadInv, NEW c \in Client, NEW d \in Client, Bounded(c, d), down'[d] = down[d],
         First(c)' = First(c), Received(c)' = Received(c), Sent(c)' = Sent(c),
         pc'[c] = pc[c], cur'[c] = cur[c], Ahead(c, d)' => Ahead(c, d)
  PROVE  Bounded(c, d)'
BY DEF Bounded

LEMMA JoinedSame ==
  ASSUME ThreadInv, NEW d \in Client, JoinedBefore(d), down'[d] = down[d],
         Received(d)' \in Nat, Received(d)' >= Received(d)
  PROVE  JoinedBefore(d)'
<1>1. Received(d) \in Nat
  BY DEF ThreadInv, RequestsInv
<1>2. Joins(d) \subseteq Int
  <2>1. DOMAIN AtFirst \subseteq Nat
    BY ConferenceAssumption, LenProperties
  <2>2. DOMAIN Script[d] \subseteq Nat
    <3>1. Script[d] \in Seq({"JOIN", "MESSAGE", "EXIT"})
      BY ConferenceAssumption
    <3>. QED  BY <3>1, LenProperties
  <2>. QED  BY <2>1, <2>2 DEF Joins
<1>3. \A n \in Joins(d) : n <= Received(d) => n <= Received(d)'
  BY <1>1, <1>2
<1>. QED  BY <1>3 DEF JoinedBefore, Joins

LEMMA OrderReceive ==
  ASSUME ThreadInv, MembersInv, OrderInv, NEW c \in Client, Receive(c)
  PROVE  OrderInv'
<1>1. PICK kind : Recv(c, kind)
  BY DEF Receive, Join, Message, Exit
<1>2. /\ RequestsInv' /\ UNCHANGED <<down, rest>> /\ pc[c] = "recv" /\ cur[c] = None
      /\ \A d \in Client : d # c => /\ Received(d)' = Received(d) /\ First(d)' = First(d)
                                    /\ passing'[d] = passing[d]
      /\ Received(c)' > Received(c) /\ First(c)' = Received(c)
  BY <1>1, RecvFacts DEF Recv
<1>3. \A d \in Client : Received(d) \in Nat /\ Received(d)' \in Nat /\ Received(d)' >= Received(d)
  BY <1>2 DEF ThreadInv, RequestsInv
<1>4. \A d \in Client : d # c => /\ Sent(d)' = Sent(d) /\ pc'[d] = pc[d] /\ cur'[d] = cur[d]
  BY <1>2 DEF Sent, Receive, Join, Message, Exit, ThreadInv, TypeInv
<1>5. pc'[c] # "send"
  BY DEF Receive, Join, Message, Exit, ThreadInv, TypeInv
<1>6. \A d \in Client : JoinedBefore(d)'
  BY <1>2, <1>3, JoinedSame DEF OrderInv
<1>7. ASSUME NEW d \in Client, JoinsOnce(d)  PROVE Bounded(c, d)'
  <2>1. ASSUME NEW i \in DOMAIN down[d], down[d][i].packet.from = c
        PROVE  down[d][i].packet.n <= First(c)' /\ down[d][i].packet.n <= Received(c)'
    <3>1. down[d][i].packet.n <= Received(c) /\ down[d][i].packet.n \in Nat
      BY <1>7, <2>1, PartFields DEF OrderInv, Bounded
    <3>. QED  BY <1>2, <1>3, <3>1
  <2>. QED  BY <1>2, <1>5, <2>1 DEF Bounded
<1>8. ASSUME NEW d \in Client, JoinsOnce(d), NEW e \in Client, e # c,
             Ahead(e, d)' => Ahead(e, d)
      PROVE  Bounded(e, d)'
  BY <1>2, <1>4, <1>8, BoundedSame DEF OrderInv
<1>9. ASSUME NEW d \in Client, JoinsOnce(d), NEW e \in Client, e # c
      PROVE  Bounded(e, d)'
  <2>1. CASE Join(c)
    <3>1. CASE members' = members \/ d # c
      <4>1. Ahead(e, d)' => Ahead(e, d)
        BY <1>4, <1>9, <2>1, <3>1, JoinAhead DEF Ahead
      <4>. QED  BY <1>8, <1>9, <4>1
    <3>2. CASE members' # members /\ d = c
      <4>1. Received(c) + 1 \in Joins(c)
        <5>1. Recv(c, "JOIN")
          BY <2>1 DEF Join
        <5>. QED  BY <5>1, RecvFacts DEF Joins
      <4>2. down[c] = <<>>
        <5>1. \A n \in Joins(c) : ~(n <= Received(c))
          BY <1>3, <1>9, <3>2, <4>1 DEF JoinsOnce
        <5>. QED  BY <5>1 DEF OrderInv, JoinedBefore
      <4>. QED  BY <1>2, <3>2, <4>2, EmptySeq, LenProperties DEF Bounded
    <3>. QED  BY <3>1, <3>2
  <2>2. CASE Message(c)
    <3>1. Ahead(e, d)' => Ahead(e, d)
      BY <1>4, <1>9, <2>2 DEF Message, Ahead
    <3>. QED  BY <1>8, <1>9, <3>1
  <2>3. CASE Exit(c)
    BY <1>8, <1>9, <2>3, ExitNodes
  <2>. QED  BY <2>1, <2>2, <2>3 DEF Receive
<1>10. ASSUME NEW d \in Client, JoinsOnce(d)'  PROVE JoinsOnce(d)
  BY <1>10 DEF JoinsOnce, Joins
<1>. QED  BY <1>6, <1>7, <1>9, <1>10 DEF OrderInv

(* A walk that goes on has no second node of the member it leaves ahead.   *)
LEMMA OrderWalk ==
  ASSUME ThreadInv, WholeInv, MembersInv, OrderInv, NEW c \in Client, Skip(c) \/ UnlockSocket(c)
  PROVE  OrderInv'
<1>1. /\ UNCHANGED <<asked, up, down, members, passing, rest>> /\ pc'[c] = "walk"
      /\ cur' = [cur EXCEPT ![c] = NextMember(cur[c])] /\ pc[c] \in {"walk", "send"}
      /\ cur[c] # None /\ pc[cur[c].client] # "gone"
      /\ \A e \in Client : e # c => pc'[e] = pc[e] /\ cur'[e] = cur[e]
  BY DEF Skip, UnlockSocket, At, WholeInv, LockInv, ThreadInv, TypeInv, clientVars
<1>2. InList(c) /\ NodesInv
  BY <1>1 DEF MembersInv
<1>3. \A e \in Client : Received(e)' = Received(e) /\ First(e)' = First(e) /\ Sent(e)' = Sent(e)
  BY <1>1 DEF Received, First, Sent
<1>4. \A d \in Client : JoinedBefore(d)'
  BY <1>1, <1>3, JoinedSame DEF OrderInv, ThreadInv, RequestsInv
<1>5. ASSUME NEW d \in Client, JoinsOnce(d), NEW e \in Client, e # c  PROVE Bounded(e, d)'
  <2>1. Ahead(e, d)' => Ahead(e, d)
    BY <1>1, <1>5 DEF Ahead
  <2>. QED  BY <1>1, <1>3, <1>5, <2>1, BoundedSame DEF OrderInv
<1>6. ASSUME NEW d \in Client, JoinsOnce(d)  PROVE Bounded(c, d)'
  <2>1. CASE Ahead(c, d)' /\ cur'[c] # None
    <3>1. PICK i, j \in DOMAIN members : members[i] = cur[c] /\ i < j /\ members[j].client = d
      BY <1>1, <1>2, <2>1, WalkOn
    <3>2. cur[c].client # d
      <4>1. ASSUME cur[c].client = d  PROVE members[i] = members[j]
        <5>1. members[i] \in Node /\ members[j] \in Node
          BY LenProperties, ElementOfSeq DEF ThreadInv, TypeInv
        <5>2. members[i].client = d /\ members[j].client = d
          BY <3>1, <4>1
        <5>3. members[i].join = members[j].join
          BY <1>2, <1>6, <5>2 DEF NodesInv, JoinsOnce
        <5>. QED  BY <5>1, <5>2, <5>3 DEF Node
      <4>2. members[i] # members[j]
        <5>1. i \in Int /\ j \in Int
          BY LenProperties DEF ThreadInv, TypeInv
        <5>. QED  BY <1>2, <3>1, <5>1 DEF NodesInv
      <4>. QED  BY <4>1, <4>2
    <3>3. Ahead(c, d)
      <4>1. i <= j
        <5>1. i \in Int /\ j \in Int
          BY LenProperties DEF ThreadInv, TypeInv
        <5>. QED  BY <3>1, <5>1
      <4>. QED  BY <3>1, <4>1 DEF Ahead
    <3>4. \A k \in DOMAIN down[d] : down[d][k].packet.from = c =>
            down[d][k].packet.n <= Received(c) /\ down[d][k].packet.n <= First(c)
      BY <1>1, <1>6, <3>2, <3>3 DEF OrderInv, Bounded
    <3>. QED  BY <1>1, <1>3, <3>4 DEF Bounded
  <2>2. CASE ~(Ahead(c, d)' /\ cur'[c] # None)
    <3>1. ~Ahead(c, d)'
      <4>1. \A i \in DOMAIN members : members[i] # None
        BY LenProperties, ElementOfSeq, ConferenceAssumption DEF ThreadInv, TypeInv
      <4>. QED  BY <1>1, <2>2, <4>1 DEF Ahead
    <3>2. \A k \in DOMAIN down[d] : down[d][k].packet.from = c => down[d][k].packet.n <= Received(c)
      BY <1>6 DEF OrderInv, Bounded
    <3>. QED  BY <1>1, <1>3, <3>1, <3>2 DEF Bounded
  <2>. QED  BY <2>1, <2>2
<1>7. ASSUME NEW d \in Client, JoinsOnce(d)'  PROVE JoinsOnce(d)
  BY <1>7 DEF JoinsOnce, Joins
<1>. QED  BY <1>4, <1>5, <1>6, <1>7 DEF OrderInv

(* A step that changes no stream and no list, and only the labels of c.    *)
LEMMA OrderLabel ==
  ASSUME ThreadInv, OrderInv, UNCHANGED <<down, members, cur>>, NEW c \in Client,
         \A e \in Client :
           /\ Received(e)' = Received(e)
           /\ e # c => pc'[e] = pc[e] /\ passing'[e] = passing[e] /\ rest'[e] = rest[e],
         pc'[c] \in {"recv", "reply"}
  PROVE  OrderInv'
<1>1. \A e \in Client : e # c => First(e)' = First(e) /\ Sent(e)' = Sent(e)
  BY DEF First, Sent
<1>2. \A d \in Client : JoinedBefore(d)'
  BY JoinedSame DEF OrderInv, ThreadInv, RequestsInv
<1>3. ASSUME NEW d \in Client, JoinsOnce(d), NEW e \in Client, e # c  PROVE Bounded(e, d)'
  <2>1. Ahead(e, d)' => Ahead(e, d)
    BY DEF Ahead
  <2>. QED  BY <1>1, <1>3, <2>1, BoundedSame DEF OrderInv
<1>4. ASSUME NEW d \in Client, JoinsOnce(d)  PROVE Bounded(c, d)'
  BY <1>4 DEF OrderInv, Bounded
<1>5. ASSUME NEW d \in Client, JoinsOnce(d)'  PROVE JoinsOnce(d)
  BY <1>5 DEF JoinsOnce, Joins
<1>. QED  BY <1>2, <1>3, <1>4, <1>5 DEF OrderInv

LEMMA OrderLock ==
  ASSUME ThreadInv, MembersInv, OrderInv, NEW c \in Client, LockSocket(c)
  PROVE  OrderInv'
<1>1. /\ UNCHANGED <<asked, up, down, members, passing, cur>> /\ pc[c] = "walk" /\ cur[c] # None
      /\ pc' = [pc EXCEPT ![c] = "send"] /\ pc[cur[c].client] # "gone"
      /\ rest' = [rest EXCEPT ![c] = Bytes(passing[c])]
      /\ \A e \in Client : e # c => pc'[e] = pc[e] /\ rest'[e] = rest[e]
  BY DEF LockSocket, At, ThreadInv, TypeInv, clientVars
<1>2. \A e \in Client : /\ Received(e)' = Received(e) /\ First(e)' = First(e)
                        /\ e # c => Sent(e)' = Sent(e)
  BY <1>1 DEF Received, First, Sent
<1>3. Sent(c)' = 0
  <2>1. Len(rest'[c]) = 2 * Len(passing[c]) /\ Len(passing[c]) \in Nat
    BY <1>1, BytesFacts, LenProperties DEF ThreadInv, TypeInv
  <2>. QED  BY <1>1, <2>1 DEF Sent
<1>4. \A d \in Client : JoinedBefore(d)'
  BY <1>1, <1>2, JoinedSame DEF OrderInv, ThreadInv, RequestsInv
<1>5. ASSUME NEW d \in Client, JoinsOnce(d), NEW e \in Client, e # c  PROVE Bounded(e, d)'
  <2>1. Ahead(e, d)' => Ahead(e, d)
    BY <1>1 DEF Ahead
  <2>. QED  BY <1>1, <1>2, <1>5, <2>1, BoundedSame DEF OrderInv
<1>6. ASSUME NEW d \in Client, JoinsOnce(d)  PROVE Bounded(c, d)'
  <2>1. cur[c].client = d => Ahead(c, d)
    <3>1. ASSUME NEW i \in DOMAIN members, members[i] = cur[c], cur[c].client = d  PROVE Ahead(c, d)
      <4>1. i <= i
        BY LenProperties DEF ThreadInv, TypeInv
      <4>. QED  BY <3>1, <4>1 DEF Ahead
    <3>. QED  BY <1>1, <3>1 DEF MembersInv, InList
  <2>2. Ahead(c, d)' = Ahead(c, d)
    BY <1>1 DEF Ahead
  <2>3. ASSUME NEW i \in DOMAIN down[d], down[d][i].packet.from = c
        PROVE  /\ down[d][i].packet.n <= Received(c)
               /\ Ahead(c, d) => down[d][i].packet.n <= First(c)
               /\ cur[c].client = d => Place(down[d][i]) <= 2 * First(c)
    <3>1. /\ down[d][i].packet.n <= Received(c)
          /\ Ahead(c, d) => down[d][i].packet.n <= First(c)
      BY <1>1, <1>6, <2>3 DEF OrderInv, Bounded
    <3>2. down[d][i].packet.n \in Nat /\ down[d][i].part \in {1, 2} /\ First(c) \in Nat
      BY PartFields DEF ThreadInv, RequestsInv
    <3>3. \A n, k \in Nat, p \in {1, 2} : n <= k => 2 * (n - 1) + p <= 2 * k
      OBVIOUS
    <3>. QED  BY <2>1, <3>1, <3>2, <3>3 DEF Place
  <2>4. pc'[c] = "send" /\ 2 * First(c) + 0 = 2 * First(c)
    BY <1>1 DEF ThreadInv, TypeInv, RequestsInv
  <2>. QED  BY <1>1, <1>2, <1>3, <2>2, <2>3, <2>4 DEF Bounded
<1>7. ASSUME NEW d \in Client, JoinsOnce(d)'  PROVE JoinsOnce(d)
  BY <1>7 DEF JoinsOnce, Joins
<1>. QED  BY <1>4, <1>5, <1>6, <1>7 DEF OrderInv

(* The part that is sent comes next among all that its sender sends.       *)
LEMMA SentPart ==
  ASSUME ThreadInv, NEW c \in Client, Sent(c) \in Nat, Sent(c) + 1 \in 1 .. 2 * Len(passing[c]),
         NEW b, b = Bytes(passing[c])[Sent(c) + 1]
  PROVE  /\ b.packet.from = c /\ b.packet.n \in Nat /\ b.packet.n <= Received(c)
         /\ b.part \in {1, 2} /\ Place(b) = 2 * First(c) + (Sent(c) + 1)
<1>. DEFINE k == Sent(c) + 1
            h == (k + 1) \div 2
<1>1. passing[c] \in Seq(Request) /\ Len(passing[c]) \in Nat
  BY LenProperties DEF ThreadInv, TypeInv
<1>2. h \in 1 .. Len(passing[c]) /\ b.packet = passing[c][h] /\ b.part = 2 - (k % 2)
  BY <1>1, BytesFacts
<1>3. First(c) \in Nat /\ Received(c) \in Nat /\ First(c) = Received(c) - Len(passing[c])
  BY DEF ThreadInv, RequestsInv, First
<1>4. \A f, m \in Nat : /\ 2 * ((f + ((m + 1 + 1) \div 2)) - 1) + (2 - ((m + 1) % 2)) = 2 * f + (m + 1)
                        /\ 2 - ((m + 1) % 2) \in {1, 2}
  OBVIOUS
<1>5. 2 * ((First(c) + h) - 1) + b.part = 2 * First(c) + k /\ b.part \in {1, 2}
  BY <1>2, <1>3, <1>4
<1>. HIDE DEF h
<1>6. b.packet.from = c /\ b.packet.n = First(c) + h
  <2>1. Follow(c, passing[c], First(c))
    BY DEF ThreadInv, RequestsInv
  <2>2. passing[c][h] = Packet(Script[c][First(c) + h], c, First(c) + h)
    BY <1>2, <2>1 DEF Follow
  <2>3. passing[c][h].from = c /\ passing[c][h].n = First(c) + h
    BY <2>2 DEF Packet
  <2>. QED  BY <1>2, <2>3
<1>7. First(c) + h \in Nat /\ First(c) + h <= Received(c)
  BY <1>1, <1>2, <1>3
<1>. QED  BY <1>5, <1>6, <1>7 DEF Place

LEMMA OrderSend ==
  ASSUME ThreadInv, WholeInv, MembersInv, OrderInv, NEW c \in Client, Send(c)
  PROVE  OrderInv' /\ (InOrderOnce => InOrderOnce')
<1>0. PICK d \in Client, L \in Nat, b \in {Bytes(passing[c])[Sent(c) + 1]} :
         d = cur[c].client /\ L = Len(down[d])
  BY SendGrown
<1>1. /\ Grown /\ UNCHANGED <<asked, up, passing, pc, cur, members>> /\ cur[c] # None
      /\ pc[c] = "send" /\ pc[d] # "gone" /\ Sent(c)' = Sent(c) + 1
      /\ Sent(c) \in Nat /\ Sent(c) + 1 \in 1 .. 2 * Len(passing[c])
      /\ \A e \in Client : e # c => Sent(e)' = Sent(e)
      /\ \A e \in Client : e # d => down'[e] = down[e]
      /\ DOMAIN down[d] = 1 .. L /\ DOMAIN down'[d] = 1 .. L + 1
      /\ down'[d][L + 1] = b
  BY <1>0, SendGrown
<1>2. /\ b.packet.from = c /\ b.packet.n \in Nat /\ b.packet.n <= Received(c)
      /\ b.part \in {1, 2} /\ Place(b) = 2 * First(c) + (Sent(c) + 1)
  BY <1>0, <1>1, SentPart
<1>3. \A e \in Client : Received(e)' = Received(e) /\ First(e)' = First(e)
  BY <1>1 DEF Received, First
<1>4. \A e, f : Ahead(e, f)' = Ahead(e, f)
  BY <1>1 DEF Ahead
<1>5. /\ \A i \in 1 .. L : i \in DOMAIN down[d] /\ down'[d][i] = down[d][i]
      /\ \A i \in DOMAIN down'[d] : i \in 1 .. L \/ i = L + 1
  BY <1>1 DEF Grown
<1>6. ASSUME NEW f \in Client  PROVE JoinedBefore(f)'
  <2>1. CASE f = d
    <3>1. PICK i \in DOMAIN members : members[i] = cur[c]
      BY <1>0, <1>1 DEF MembersInv, InList
    <3>2. members[i].join \in Joins(d) /\ members[i].join <= Received(d)
      BY <1>0, <3>1 DEF MembersInv, NodesInv
    <3>. QED  BY <1>3, <2>1, <3>2 DEF JoinedBefore, Joins
  <2>2. CASE f # d
    BY <1>1, <1>3, <2>2, JoinedSame DEF OrderInv, ThreadInv, RequestsInv
  <2>. QED  BY <2>1, <2>2
<1>7. ASSUME NEW f \in Client, JoinsOnce(f), NEW e \in Client, e # c \/ f # d
      PROVE  Bounded(e, f)'
  <2>1. ASSUME NEW i \in DOMAIN down'[f], down'[f][i].packet.from = e
        PROVE  i \in DOMAIN down[f] /\ down'[f][i] = down[f][i]
    BY <1>1, <1>2, <1>5, <1>7, <2>1
  <2>2. pc[e] = "send" /\ cur[e].client = f => Sent(e)' = Sent(e)
    BY <1>0, <1>1, <1>7
  <2>. QED  BY <1>1, <1>3, <1>4, <1>7, <2>1, <2>2 DEF OrderInv, Bounded
<1>8. ASSUME JoinsOnce(d), NEW i \in 1 .. L, down[d][i].packet.from = c
      PROVE  down[d][i].packet.n <= Received(c) /\ Place(down[d][i]) <= 2 * First(c) + Sent(c)
  BY <1>0, <1>1, <1>5, <1>8 DEF OrderInv, Bounded
<1>9. \A i \in 1 .. L : down[d][i].packet.n \in Nat /\ Place(down[d][i]) \in Int
  <2>. SUFFICES ASSUME NEW i \in 1 .. L
                PROVE  down[d][i].packet.n \in Nat /\ Place(down[d][i]) \in Int
    OBVIOUS
  <2>1. down[d][i].packet.n \in Nat /\ down[d][i].part \in Int
    BY <1>1, PartFields
  <2>2. \A n \in Nat, p \in Int : 2 * (n - 1) + p \in Int
    OBVIOUS
  <2>. QED  BY <2>1, <2>2 DEF Place
<1>10. First(c) \in Nat
  BY DEF ThreadInv, RequestsInv
<1>11. ASSUME JoinsOnce(d)  PROVE Bounded(c, d)'
  <2>1. ASSUME NEW i \in DOMAIN down'[d], down'[d][i].packet.from = c
        PROVE  /\ down'[d][i].packet.n <= Received(c)
               /\ Place(down'[d][i]) <= 2 * First(c) + (Sent(c) + 1)
    <3>1. CASE i \in 1 .. L
      <4>1. /\ down'[d][i] = down[d][i] /\ down[d][i].packet.n <= Received(c)
            /\ Place(down[d][i]) <= 2 * First(c) + Sent(c) /\ Place(down[d][i]) \in Int
        BY <1>5, <1>8, <1>9, <1>11, <2>1, <3>1
      <4>2. \A x \in Int, y, z \in Nat : x <= 2 * y + z => x <= 2 * y + (z + 1)
        OBVIOUS
      <4>. QED  BY <1>1, <1>10, <4>1, <4>2
    <3>2. CASE i = L + 1
      <4>1. \A y, z \in Nat : 2 * y + (z + 1) <= 2 * y + (z + 1)
        OBVIOUS
      <4>. QED  BY <1>1, <1>2, <1>10, <3>2, <4>1
    <3>. QED  BY <1>5, <3>1, <3>2
  <2>2. pc'[c] = "send" /\ cur'[c].client = d
    BY <1>0, <1>1
  <2>3. /\ Received(c)' = Received(c) /\ First(c)' = First(c) /\ Sent(c)' = Sent(c) + 1
    BY <1>1, <1>3
  <2>. QED  BY <2>1, <2>2, <2>3 DEF Bounded, Place
<1>12. ASSUME NEW f \in Client, JoinsOnce(f)'  PROVE JoinsOnce(f)
  BY <1>12 DEF JoinsOnce, Joins
<1>13. OrderInv'
  <2>1. ASSUME NEW f \in Client, JoinsOnce(f), NEW e \in Client  PROVE Bounded(e, f)'
    <3>1. CASE e = c /\ f = d
      BY <1>11, <2>1, <3>1
    <3>. QED  BY <1>7, <2>1, <3>1
  <2>. QED  BY <1>6, <1>12, <2>1 DEF OrderInv
<1>14. ASSUME InOrderOnce, NEW a \in Client, NEW f \in Client, JoinsOnce(f),
              NEW i \in DOMAIN down'[f], NEW j \in DOMAIN down'[f], i < j,
              down'[f][i].packet.from = a, down'[f][i].part = 1,
              down'[f][j].packet.from = a, down'[f][j].part = 1
       PROVE  down'[f][i].packet.n < down'[f][j].packet.n
  <2>1. CASE f # d \/ (i \in 1 .. L /\ j \in 1 .. L)
    <3>1. /\ i \in DOMAIN down[f] /\ down'[f][i] = down[f][i]
          /\ j \in DOMAIN down[f] /\ down'[f][j] = down[f][j]
      BY <1>1, <1>5, <2>1
    <3>. QED  BY <1>14, <3>1 DEF InOrderOnce, JoinsOnce
  <2>2. CASE f = d /\ i \in 1 .. L /\ j = L + 1
    <3>1. a = c /\ b.part = 1 /\ down'[f][j] = b /\ down'[f][i] = down[d][i]
      BY <1>1, <1>2, <1>5, <1>14, <2>2
    <3>2. down[d][i].part = 1 /\ down[d][i].packet.from = c
      BY <1>14, <3>1
    <3>3. Place(down[d][i]) <= 2 * First(c) + Sent(c)
      BY <1>8, <1>14, <2>2, <3>2
    <3>4. 2 * (down[d][i].packet.n - 1) + 1 <= 2 * First(c) + Sent(c)
      BY <3>2, <3>3 DEF Place
    <3>5. 2 * (b.packet.n - 1) + 1 = 2 * First(c) + (Sent(c) + 1)
      BY <1>2, <3>1 DEF Place
    <3>6. \A m, n, x, y \in Nat :
            2 * (m - 1) + 1 <= 2 * x + y /\ 2 * (n - 1) + 1 = 2 * x + (y + 1) => m < n
      OBVIOUS
    <3>7. /\ down[d][i].packet.n \in Nat /\ b.packet.n \in Nat
          /\ First(c) \in Nat /\ Sent(c) \in Nat
      BY <1>1, <1>2, <1>9, <1>10, <2>2
    <3>8. down[d][i].packet.n < b.packet.n
      BY <3>4, <3>5, <3>6, <3>7
    <3>. QED  BY <3>1, <3>8
  <2>3. f # d \/ (i \in 1 .. L /\ (j \in 1 .. L \/ j = L + 1))
    BY <1>1, <1>5, <1>14
  <2>. QED  BY <2>1, <2>2, <2>3
<1>15. InOrderOnce => InOrderOnce'
  BY <1>14 DEF InOrderOnce, JoinsOnce, Joins
<1>. QED  BY <1>13, <1>15

LEMMA OrderNext ==
  ThreadInv /\ WholeInv /\ MembersInv /\ OrderInv /\ InOrderOnce /\ [Next]_vars
    => OrderInv' /\ InOrderOnce'
<1>. SUFFICES ASSUME ThreadInv, WholeInv, MembersInv, OrderInv, InOrderOnce, [Next]_vars
              PROVE  OrderInv' /\ InOrderOnce'
  OBVIOUS
<1>. USE DEF threadVars, clientVars
<1>1. down' = down => InOrderOnce'
  BY DEF InOrderOnce, Joins
<1>2. ASSUME UNCHANGED <<down, members, pc, cur, passing, rest>>,
             \A d \in Client : Received(d)' = Received(d)
      PROVE  OrderInv'
  <2>1. \A d \in Client : First(d)' = First(d) /\ Sent(d)' = Sent(d)
    BY <1>2 DEF First, Sent
  <2>2. \A d \in Client : JoinedBefore(d)'
    BY <1>2, JoinedSame DEF OrderInv, ThreadInv, RequestsInv
  <2>3. \A e, d : Ahead(e, d)' => Ahead(e, d)
    BY <1>2 DEF Ahead
  <2>4. \A d \in Client : JoinsOnce(d)' => JoinsOnce(d)
    BY DEF JoinsOnce, Joins
  <2>. QED  BY <1>2, <2>1, <2>2, <2>3, <2>4, BoundedSame DEF OrderInv
<1>3. ASSUME NEW c \in Client, Ask(c)  PROVE OrderInv' /\ InOrderOnce'
  <2>1. \A d \in Client : Received(d)' = Received(d)
    <3>1. \A d \in Client : d # c => asked'[d] = asked[d] /\ up'[d] = up[d]
      BY <1>3 DEF Ask, ThreadInv, TypeInv
    <3>. QED  BY <1>3, <3>1, AskThread DEF Received
  <2>. QED  BY <1>1, <1>2, <1>3, <2>1 DEF Ask
<1>4. ASSUME NEW c \in Client, Receive(c)  PROVE OrderInv' /\ InOrderOnce'
  <2>1. down' = down
    BY <1>4 DEF Receive, Join, Message, Exit, Recv
  <2>. QED  BY <1>1, <1>4, <2>1, OrderReceive
<1>5. ASSUME NEW c \in Client, Skip(c) \/ UnlockSocket(c)  PROVE OrderInv' /\ InOrderOnce'
  <2>1. down' = down
    BY <1>5 DEF Skip, UnlockSocket
  <2>. QED  BY <1>1, <1>5, <2>1, OrderWalk
<1>6. ASSUME NEW c \in Client, LockSocket(c)  PROVE OrderInv' /\ InOrderOnce'
  <2>1. down' = down
    BY <1>6 DEF LockSocket
  <2>. QED  BY <1>1, <1>6, <2>1, OrderLock
<1>7. ASSUME NEW c \in Client, Send(c)  PROVE OrderInv' /\ InOrderOnce'
  BY <1>7, OrderSend
<1>8. ASSUME NEW c \in Client, WalkEnd(c) \/ SendReply(c)  PROVE OrderInv' /\ InOrderOnce'
  <2>1. /\ UNCHANGED <<asked, up, down, members, cur, rest>> /\ pc'[c] \in {"recv", "reply"}
        /\ \A e \in Client : e # c => pc'[e] = pc[e] /\ passing'[e] = passing[e]
    BY <1>8 DEF WalkEnd, SendReply, ThreadInv, TypeInv
  <2>2. \A d \in Client : Received(d)' = Received(d)
    BY <2>1 DEF Received
  <2>. QED  BY <1>1, <2>1, <2>2, OrderLabel
<1>9. ASSUME UNCHANGED <<asked, up, down, members, threadVars>>  PROVE OrderInv' /\ InOrderOnce'
  <2>1. \A d \in Client : Received(d)' = Received(d)
    BY <1>9 DEF Received
  <2>. QED  BY <1>1, <1>2, <1>9, <2>1
<1>. QED
  BY <1>3, <1>4, <1>5, <1>6, <1>7, <1>8, <1>9 DEF Next, Handle, Stall, UseFreed, vars

(* A member that has joined once gets what another sends in order and once:*)
(* a thread passes on what one recv brought before it receives again, and  *)
(* the list has one node for each such member.                             *)
THEOREM OrderCorrect == Spec => []InOrderOnce
<1>. DEFINE Inv == ThreadInv /\ WholeInv /\ MembersInv /\ OrderInv /\ InOrderOnce
<1>1. Init => Inv
  <2>1. Init => OrderInv /\ InOrderOnce
    <3>. SUFFICES ASSUME Init  PROVE OrderInv /\ InOrderOnce
      OBVIOUS
    <3>1. \A d \in Client : down[d] = <<>> /\ DOMAIN down[d] = {}
      BY EmptySeq, LenProperties DEF Init
    <3>. QED  BY <3>1 DEF OrderInv, JoinedBefore, Bounded, InOrderOnce
  <2>. QED  BY <2>1, ThreadInit, WholeInit, MembersInit
<1>2. Inv /\ [Next]_vars => Inv'
  BY WholeNext, MembersNext, OrderNext
<1>. QED  BY <1>1, <1>2, PTL DEF Spec
=============================================================================
