------------------------ MODULE SelectServer_proofs ------------------------
(***************************************************************************)
(* Proofs about SelectServer for any number of peers, slots, descriptors   *)
(* and bytes.  The safety properties are not inductive one by one: a type  *)
(* may be broken by an entry of client[] without a socket, and the answer  *)
(* of select() stays true only because no two descriptors share a peer.    *)
(* Inv is their inductive strengthening.                                   *)
(***************************************************************************)
EXTENDS SelectServer, SequenceFacts, FiniteSetTheorems, TLAPS

\* A connection is either in the backlog or behind one descriptor, once.
OneConnection ==
  /\ \A fd, g \in ConnFds : sock[fd] = sock[g] /\ sock[fd] # None => fd = g
  /\ \A k, l \in 1 .. Len(backlog) : backlog[k] = backlog[l] => k = l
  /\ \A fd \in ConnFds, k \in 1 .. Len(backlog) : sock[fd] # backlog[k]
  /\ \A p \in Peers : conn[p] = "idle" =>
       /\ \A fd \in ConnFds : sock[fd] # p
       /\ \A k \in 1 .. Len(backlog) : backlog[k] # p

\* Where the loop is in its round.
RoundShape ==
  /\ pc \in {"accept", "scanf"} => i = 0
  /\ pc = "accept" => serv_sock \in rset
  /\ pc \in {"accept", "scanf", "broadcast"} => rset \subseteq allset
  /\ pc = "echo" => /\ i \in Slots /\ i <= maxi
                    /\ client[i] \in ConnFds /\ client[i] \in rset
                    /\ buffer # <<>>

Pending(p) == rcvd[p] < sent[p] \/ conn[p] # "open"

\* What select() reported of a connection holds until the connection is served.
AnswerHolds ==
  InRound =>
    \A fd \in ConnFds : fd \in Unserved =>
      /\ sock[fd] # None
      /\ Pending(sock[fd]) \/ (pc = "echo" /\ client[i] = fd)

Inv == TypeOK /\ TableConsistent /\ OneConnection /\ RoundShape /\ AnswerHolds

\* The failures that end the process at once.
Ends == SelectFails \/ BadFdSet \/ Killed
-----------------------------------------------------------------------------
(* The backlog.                                                            *)

\* Sets of descriptors the loop watches are finite.
LEMMA FiniteWatched ==
  ASSUME NEW S, S \subseteq {STDIN, serv_sock} \union ConnFds
  PROVE  IsFiniteSet(S) /\ Cardinality(S) \in Nat
<1>1. S \subseteq 0 .. OPEN_MAX
  BY ConstantsAssumption DEF STDIN, serv_sock, ConnFds
<1>2. IsFiniteSet(0 .. OPEN_MAX)
  BY FS_Interval, ConstantsAssumption
<1> QED BY <1>1, <1>2, FS_Subset, FS_CardinalityType
-----------------------------------------------------------------------------
(* Types.                                                                  *)

LEMMA InitTypes == Init => TypeOK
<1> USE ConstantsAssumption DEF serv_sock, STDIN
<1> SUFFICES ASSUME Init PROVE TypeOK
  OBVIOUS
<1>1. /\ pc \in {"select", "accept", "scanf", "broadcast", "scan", "echo"} \union Down
      /\ i \in 0 .. FD_SETSIZE /\ nready \in Int
      /\ client \in [Slots -> ConnFds \union {-1}]
      /\ maxi \in Slots \union {-1}
      /\ maxfd \in {serv_sock} \union ConnFds
  BY DEF Init
<1>2. /\ allset \subseteq {STDIN, serv_sock} \union ConnFds
      /\ rset \subseteq {STDIN, serv_sock} \union ConnFds
      /\ clnt_addr \in Peers \union {None}
      /\ lbuf \in Words \union {Junk}
      /\ sock \in [ConnFds -> Peers \union {None}]
      /\ conn \in [Peers -> ConnStates]
      /\ eof \in BOOLEAN
  BY DEF Init, ConnStates
<1>3. /\ buffer \in Seq(Nat)
      /\ backlog \in Seq(Peers)
      /\ outq \in [Peers -> Seq(Items)]
      /\ tty \in Seq(Lines) /\ stdio \in Seq(Words)
  BY DEF Init
<1>4. /\ sent \in [Peers -> Nat] /\ rcvd \in [Peers -> Nat] /\ got \in [Peers -> Nat]
      /\ typed \in 0 .. MaxLines
  BY DEF Init
<1> QED BY <1>1, <1>2, <1>3, <1>4 DEF TypeOK

\* What holds between two rounds or phases whatever the action: the descriptor
\* in a slot is that of a peer.
LEMMA SlotPeer ==
  ASSUME TypeOK, TableConsistent, Up, NEW j \in Slots, client[j] \in ConnFds
  PROVE  sock[client[j]] \in Peers
BY DEF TypeOK, TableConsistent
LEMMA WriteTypes ==
  ASSUME TypeOK, NEW p \in Peers, NEW m \in Items, Write(p, m)
  PROVE  outq' \in [Peers -> Seq(Items)] /\ conn' \in [Peers -> ConnStates]
<1>1. CASE Delivered(p, m)
  <2>1. Append(outq[p], m) \in Seq(Items)
    BY DEF TypeOK
  <2> QED BY <1>1, <2>1 DEF TypeOK, Delivered
<1>2. CASE Lost(p)
  BY <1>2 DEF TypeOK, Lost, ConnStates
<1> QED BY <1>1, <1>2 DEF Write

LEMMA GreetingTypes == Hello \in Items
BY DEF Hello, Items

LEMMA WordTypes == ASSUME NEW w \in Words \union {Junk} PROVE Word(w) \in Items
BY DEF Word, Items

LEMMA EchoTypes == ASSUME NEW p \in Peers, NEW k \in Nat PROVE Echo(p, k) \in Items
BY DEF Echo, Items

LEMMA RegisterTypes ==
  ASSUME TypeOK, NEW fd \in ConnFds, NEW s \in Slots, Register(fd, s)
  PROVE  /\ client' \in [Slots -> ConnFds \union {-1}]
         /\ maxi' \in Slots \union {-1}
         /\ maxfd' \in {serv_sock} \union ConnFds
         /\ allset' \subseteq {STDIN, serv_sock} \union ConnFds
         /\ nready' \in Int
         /\ pc' \in {"select", "scanf", "scan"}
<1> USE ConstantsAssumption DEF TypeOK, Register, CountDown, AfterAccept, Larger
<1>1. /\ client' \in [Slots -> ConnFds \union {-1}]
      /\ maxi' \in Slots \union {-1}
      /\ maxfd' \in {serv_sock} \union ConnFds
  OBVIOUS
<1>2. allset' \subseteq {STDIN, serv_sock} \union ConnFds
  OBVIOUS
<1>3. nready' \in Int /\ pc' \in {"select", "scanf", "scan"}
  OBVIOUS
<1> QED BY <1>1, <1>2, <1>3

LEMMA TakeTypes ==
  ASSUME TypeOK, NEW fd \in ConnFds, TakeConnection(fd)
  PROVE  /\ Head(backlog) \in Peers
         /\ backlog' \in Seq(Peers)
         /\ sock' \in [ConnFds -> Peers \union {None}]
         /\ clnt_addr' \in Peers \union {None}
         /\ outq' \in [Peers -> Seq(Items)] /\ conn' \in [Peers -> ConnStates]
<1>1. Head(backlog) \in Peers /\ Tail(backlog) \in Seq(Peers)
  BY DEF TypeOK, TakeConnection
<1>2. outq' \in [Peers -> Seq(Items)] /\ conn' \in [Peers -> ConnStates]
  BY <1>1, WriteTypes, GreetingTypes DEF TakeConnection
<1> QED BY <1>1, <1>2 DEF TypeOK, TakeConnection

LEMMA TypesStep ==
  ASSUME Inv, [Next]_vars
  PROVE  TypeOK'
<1> USE ConstantsAssumption
<1> USE DEF vars, loopVars, roundVars, dataVars, peerVars, ttyVars, serverVars
<1>0. TypeOK /\ TableConsistent
  BY DEF Inv
<1>1. CASE Select
  <2> DEFINE ready == {fd \in allset : fd <= maxfd /\ Readable(fd)}
  <2>1. ready \subseteq {STDIN, serv_sock} \union ConnFds
    BY <1>0 DEF TypeOK
  <2>3. Cardinality(ready) \in Int
    BY <2>1, FiniteWatched
  <2>4. /\ rset' = ready /\ nready' = Cardinality(ready) /\ i' = 0
        /\ pc' \in {"accept", "scanf", "scan"}
        /\ UNCHANGED <<loopVars, dataVars, peerVars, sock, rcvd, outq, ttyVars>>
    BY <1>1 DEF Select, AfterAccept
  <2> HIDE DEF ready
  <2> QED BY <1>0, <2>1, <2>3, <2>4 DEF TypeOK
<1>2. CASE SelectFails
  BY <1>0, <1>2 DEF SelectFails, TypeOK, Down
<1>3. CASE NewConnection
  BY <1>0, <1>3, TakeTypes, RegisterTypes DEF NewConnection, TakeConnection, Register, TypeOK
<1>4. CASE TooManyClients
  BY <1>0, <1>4, TakeTypes DEF TooManyClients, TakeConnection, TypeOK, Down
<1>5. CASE AcceptedNothing
  <2>1. /\ maxi' \in Slots \union {-1} /\ nready' \in Int
        /\ pc' \in {"select", "scanf", "scan", "exited"}
    <3>1. CASE \E s \in Slots : /\ maxi' = Larger(maxi, s)
                                /\ CountDown(AfterAccept(rset))
      BY <1>0, <3>1 DEF TypeOK, CountDown, AfterAccept, Larger
    <3>2. CASE pc' = "exited" /\ UNCHANGED <<maxi, nready>>
      BY <1>0, <3>2 DEF TypeOK
    <3> QED BY <1>5, <3>1, <3>2 DEF AcceptedNothing
  <2>2. UNCHANGED <<i, client, maxfd, allset, rset, dataVars, peerVars, sock, rcvd,
                    outq, ttyVars>>
    BY <1>5 DEF AcceptedNothing
  <2> QED BY <1>0, <2>1, <2>2 DEF TypeOK, Down
<1>6. CASE BadFdSet
  BY <1>0, <1>6 DEF BadFdSet, TypeOK, Down
<1>7. CASE ScanfWord
  BY <1>0, <1>7 DEF ScanfWord, TypeOK
<1>8. CASE ScanfRefill
  <2>1. Head(tty) \in Seq(Words) /\ Tail(tty) \in Seq(Lines)
    BY <1>0, <1>8 DEF ScanfRefill, TypeOK
  <2> QED BY <1>0, <1>8, <2>1 DEF ScanfRefill, TypeOK
<1>9. CASE ScanfEof
  BY <1>0, <1>9 DEF ScanfEof, TypeOK
<1>10. CASE Broadcast
  <2>1. PICK j \in Slots : /\ NextSlot(j, ConnFds)
                           /\ Write(sock[client[j]], Word(lbuf))
                           /\ i' = j + 1
    BY <1>10 DEF Broadcast
  <2>2. sock[client[j]] \in Peers
    BY <1>0, <1>10, <2>1, SlotPeer DEF NextSlot, Broadcast, Up, Down
  <2>3. outq' \in [Peers -> Seq(Items)] /\ conn' \in [Peers -> ConnStates]
    BY <1>0, <2>1, <2>2, WriteTypes, WordTypes DEF TypeOK
  <2>4. i' \in 0 .. FD_SETSIZE
    BY <2>1 DEF Slots
  <2> QED BY <1>0, <1>10, <2>3, <2>4 DEF Broadcast, TypeOK
<1>11. CASE EndBroadcast
  BY <1>0, <1>11 DEF EndBroadcast, TypeOK
<1>12. CASE ReadClient
  <2>1. PICK j \in Slots, n \in 1 .. BUFSIZE :
          LET p == sock[client[j]]
          IN  /\ NextSlot(j, rset)
              /\ rcvd[p] + n <= sent[p]
              /\ buffer' = [k \in 1 .. n |-> rcvd[p] + k]
              /\ rcvd' = [rcvd EXCEPT ![p] = @ + n]
              /\ i' = j
    BY <1>12 DEF ReadClient
  <2>2. client[j] \in ConnFds
    BY <1>0, <2>1 DEF NextSlot, TypeOK, serv_sock, STDIN
  <2>3. sock[client[j]] \in Peers
    BY <1>0, <1>12, <2>2, SlotPeer DEF ReadClient, Up, Down
  <2>4. buffer' \in Seq(Nat) /\ rcvd' \in [Peers -> Nat]
    <3> DEFINE p == sock[client[j]]
    <3>1. n \in Nat /\ rcvd[p] \in Nat
      BY <1>0, <2>3, ConstantsAssumption DEF TypeOK
    <3>2. buffer' = [k \in 1 .. n |-> rcvd[p] + k]
      BY <2>1
    <3>3. rcvd' = [rcvd EXCEPT ![p] = rcvd[p] + n]
      BY <2>1
    <3> HIDE DEF p
    <3>4. rcvd' \in [Peers -> Nat]
      <4>1. rcvd \in [Peers -> Nat] /\ rcvd[p] + n \in Nat
        BY <1>0, <3>1 DEF TypeOK
      <4> QED BY <3>3, <4>1
    <3>5. buffer' \in [1 .. n -> Nat]
      BY <3>1, <3>2
    <3> QED BY <3>1, <3>4, <3>5
  <2>5. i' \in 0 .. FD_SETSIZE
    BY <2>1 DEF Slots
  <2> QED BY <1>0, <1>12, <2>4, <2>5 DEF ReadClient, TypeOK
<1>13. CASE EchoClient
  <2> DEFINE p == sock[client[i]]
  <2>1. pc = "echo" /\ i \in Slots /\ p \in Peers
    BY <1>0, <1>13, SlotPeer DEF EchoClient, Inv, RoundShape, Up, Down
  <2>2. /\ outq' \in [Peers -> Seq(Items)] /\ conn' \in [Peers -> ConnStates]
        /\ buffer' \in Seq(Nat)
    <3>1. CASE Lost(p) /\ buffer' = <<>>
      BY <1>0, <2>1, <3>1, WriteTypes, GreetingTypes DEF Write
    <3>2. CASE Delivered(p, Echo(p, Head(buffer))) /\ buffer' = Tail(buffer)
      <4>1. Head(buffer) \in Nat /\ Tail(buffer) \in Seq(Nat)
        <5>1. buffer # <<>> /\ buffer \in Seq(Nat)
          BY <1>0, <2>1 DEF TypeOK, Inv, RoundShape
        <5> QED BY <5>1
      <4> QED BY <1>0, <2>1, <3>2, <4>1, WriteTypes, EchoTypes DEF Write
    <3> QED BY <1>13, <3>1, <3>2 DEF EchoClient
  <2>3. /\ pc' \in {"select", "scan", "echo"} /\ nready' \in Int
        /\ i' \in 0 .. FD_SETSIZE
    <3>1. i \in Int /\ i + 1 \in 0 .. FD_SETSIZE /\ i \in 0 .. FD_SETSIZE
      BY <2>1, ConstantsAssumption DEF Slots
    <3>2. nready \in Int
      BY <1>0 DEF TypeOK
    <3>3. \/ CountDown("scan") /\ i' = i + 1
          \/ UNCHANGED <<pc, nready, i>>
      BY <1>13 DEF EchoClient
    <3> QED BY <2>1, <3>1, <3>2, <3>3 DEF CountDown
  <2> QED BY <1>0, <1>13, <2>2, <2>3 DEF EchoClient, TypeOK
<1>14. CASE HangUp
  <2>1. PICK j \in Slots : NextSlot(j, rset) /\ CloseSlot(j) /\ i' = j + 1
    BY <1>14 DEF HangUp
  <2>2. /\ client' \in [Slots -> ConnFds \union {-1}]
        /\ allset' \subseteq {STDIN, serv_sock} \union ConnFds
        /\ sock' \in [ConnFds -> Peers \union {None}]
        /\ conn' \in [Peers -> ConnStates]
    BY <1>0, <2>1 DEF CloseSlot, CloseSocket, TypeOK, ConnStates
  <2>3. /\ pc' \in {"select", "scan"} /\ nready' \in Int
        /\ i' \in 0 .. FD_SETSIZE
    BY <1>0, <1>14, <2>1 DEF HangUp, CountDown, TypeOK, Slots
  <2> QED BY <1>0, <1>14, <2>2, <2>3 DEF HangUp, TypeOK
<1>15. CASE EndScan
  BY <1>0, <1>15 DEF EndScan, TypeOK
<1>16. CASE Killed
  BY <1>0, <1>16 DEF Killed, TypeOK, Down
<1>17. ASSUME NEW p \in Peers, Connect(p) PROVE TypeOK'
  <2>1. conn' \in [Peers -> ConnStates] /\ backlog' \in Seq(Peers)
    BY <1>0, <1>17 DEF Connect, TypeOK, ConnStates
  <2> QED BY <1>0, <1>17, <2>1 DEF Connect, TypeOK
<1>18. ASSUME NEW p \in Peers, Send(p) PROVE TypeOK'
  BY <1>0, <1>18 DEF Send, TypeOK
<1>19. ASSUME NEW p \in Peers, Receive(p) PROVE TypeOK'
  <2>1. Tail(outq[p]) \in Seq(Items)
    BY <1>0, <1>19 DEF Receive, TypeOK
  <2>2. outq' \in [Peers -> Seq(Items)] /\ got' \in [Peers -> Nat]
    BY <1>0, <1>19, <2>1 DEF Receive, TypeOK
  <2> QED BY <1>0, <1>19, <2>2 DEF Receive, TypeOK
<1>20. ASSUME NEW p \in Peers, CloseEnd(p) PROVE TypeOK'
  BY <1>0, <1>20 DEF CloseEnd, TypeOK, ConnStates
<1>21. ASSUME NEW p \in Peers, Reset(p) PROVE TypeOK'
  <2>1. conn' \in [Peers -> ConnStates]
    BY <1>0, <1>21 DEF Reset, TypeOK, ConnStates
  <2>2. backlog' \in Seq(Peers)
    <3>1. DOMAIN backlog = 1 .. Len(backlog) /\ backlog \in Seq(Peers)
      BY <1>0 DEF TypeOK
    <3> QED BY <1>21, <3>1, Removal DEF Reset
  <2> QED BY <1>0, <1>21, <2>1, <2>2 DEF Reset, TypeOK
<1>22. ASSUME NEW line \in Lines, Type(line) PROVE TypeOK'
  BY <1>0, <1>22 DEF Type, TypeOK
<1>23. CASE CloseTerminal
  BY <1>0, <1>23 DEF CloseTerminal, TypeOK
<1>24. CASE UNCHANGED vars
  BY <1>0, <1>24 DEF TypeOK
<1> QED
  BY <1>1, <1>2, <1>3, <1>4, <1>5, <1>6, <1>7, <1>8, <1>9, <1>10, <1>11, <1>12,
     <1>13, <1>14, <1>15, <1>16, <1>17, <1>18, <1>19, <1>20, <1>21, <1>22, <1>23,
     <1>24 DEF Next, Server, Failure, AcceptFails, AcceptAborted, Environment
-----------------------------------------------------------------------------
(* The table of connections.                                               *)

\* A new connection is entered in a free slot, under a descriptor no slot has.
LEMMA RegisterTable ==
  ASSUME TypeOK, TableConsistent, Up, NEW fd \in ConnFds, NEW s \in Slots,
         TakeConnection(fd), Register(fd, s)
  PROVE  TableConsistent'
<1> USE ConstantsAssumption DEF STDIN, serv_sock
<1>1. /\ sock[fd] = None /\ Head(backlog) \in Peers /\ Head(backlog) # None
      /\ sock' = [sock EXCEPT ![fd] = Head(backlog)]
  BY DEF TakeConnection, LowestFree, TypeOK
<1>2. /\ client[s] = -1
      /\ client' = [client EXCEPT ![s] = fd]
      /\ allset' = IF fd < FD_SETSIZE THEN allset \union {fd} ELSE allset
      /\ maxfd' = Larger(maxfd, fd) /\ maxi' = Larger(maxi, s)
  BY DEF Register, FirstFree, TypeOK, ConnFds
<1>3. \A t \in Slots : client[t] # fd
  BY <1>1 DEF TableConsistent
<1>4. \A t, u \in Slots : client'[t] = client'[u] /\ client'[t] # -1 => t = u
  BY <1>2, <1>3 DEF TypeOK, TableConsistent
<1>5. \A g \in ConnFds : sock'[g] # None <=> \E t \in Slots : client'[t] = g
  <2> SUFFICES ASSUME NEW g \in ConnFds
               PROVE  sock'[g] # None <=> \E t \in Slots : client'[t] = g
    OBVIOUS
  <2>1. CASE g = fd
    BY <1>1, <1>2, <2>1 DEF TypeOK
  <2>2. CASE g # fd
    <3>1. \A t \in Slots : client'[t] = g <=> client[t] = g
      BY <1>2, <2>2 DEF TypeOK, ConnFds
    <3> QED BY <1>1, <2>2, <3>1 DEF TypeOK, TableConsistent
  <2> QED BY <2>1, <2>2
<1>6. \A t \in Slots : client'[t] # -1 => t <= maxi' /\ client'[t] <= maxfd'
  <2> SUFFICES ASSUME NEW t \in Slots, client'[t] # -1
               PROVE  t <= maxi' /\ client'[t] <= maxfd'
    OBVIOUS
  <2>1. /\ maxi \in Int /\ maxfd \in Int /\ t \in Int /\ s \in Int /\ fd \in Int
    BY DEF TypeOK, Slots, ConnFds
  <2>2. maxi <= maxi' /\ s <= maxi' /\ maxfd <= maxfd' /\ fd <= maxfd'
    BY <1>2, <2>1 DEF Larger
  <2>3. maxi' \in Int /\ maxfd' \in Int
    BY <1>2, <2>1 DEF Larger
  <2>4. CASE t = s
    BY <1>2, <2>2, <2>4 DEF TypeOK
  <2>5. CASE t # s
    <3>1. client'[t] = client[t] /\ client[t] \in Int
      BY <1>2, <2>5 DEF TypeOK, ConnFds
    <3>2. t <= maxi /\ client[t] <= maxfd
      BY <3>1 DEF TableConsistent
    <3> QED BY <2>1, <2>2, <2>3, <3>1, <3>2
  <2> QED BY <2>4, <2>5
<1>7. \A g \in ConnFds : sock'[g] # None /\ g < FD_SETSIZE <=> g \in allset'
  BY <1>1, <1>2 DEF TypeOK, TableConsistent
<1>8. {STDIN, serv_sock} \subseteq allset'
  BY <1>2 DEF TypeOK, TableConsistent
<1> QED BY <1>4, <1>5, <1>6, <1>7, <1>8 DEF TableConsistent

\* A slot is freed together with its socket and its bit.
LEMMA CloseTable ==
  ASSUME TypeOK, TableConsistent, Up, NEW j \in Slots, client[j] \in ConnFds,
         CloseSlot(j), UNCHANGED <<maxi, maxfd>>
  PROVE  TableConsistent'
<1> USE ConstantsAssumption DEF STDIN, serv_sock
<1> DEFINE fd == client[j]
<1>1. /\ sock' = [sock EXCEPT ![fd] = None]
      /\ allset' = allset \ {fd}
      /\ client' = [client EXCEPT ![j] = -1]
  BY DEF CloseSlot, CloseSocket
<1>2. \A t \in Slots : client[t] = fd => t = j
  BY DEF TableConsistent, ConnFds
<1>3. \A t, u \in Slots : client'[t] = client'[u] /\ client'[t] # -1 => t = u
  BY <1>1 DEF TypeOK, TableConsistent
<1>4. \A g \in ConnFds : sock'[g] # None <=> \E t \in Slots : client'[t] = g
  <2> SUFFICES ASSUME NEW g \in ConnFds
               PROVE  sock'[g] # None <=> \E t \in Slots : client'[t] = g
    OBVIOUS
  <2>1. CASE g = fd
    BY <1>1, <1>2, <2>1 DEF TypeOK, ConnFds
  <2>2. CASE g # fd
    <3>1. \A t \in Slots : client'[t] = g <=> client[t] = g
      BY <1>1, <2>2 DEF TypeOK, ConnFds
    <3> QED BY <1>1, <2>2, <3>1 DEF TypeOK, TableConsistent
  <2> QED BY <2>1, <2>2
<1>5. \A t \in Slots : client'[t] # -1 => t <= maxi' /\ client'[t] <= maxfd'
  BY <1>1 DEF TypeOK, TableConsistent
<1>6. \A g \in ConnFds : sock'[g] # None /\ g < FD_SETSIZE <=> g \in allset'
  BY <1>1 DEF TypeOK, TableConsistent
<1>7. {STDIN, serv_sock} \subseteq allset'
  BY <1>1 DEF TypeOK, TableConsistent, ConnFds
<1> QED BY <1>3, <1>4, <1>5, <1>6, <1>7 DEF TableConsistent

LEMMA TableStep ==
  ASSUME Inv, [Next]_vars
  PROVE  TableConsistent'
<1> USE DEF vars, loopVars, roundVars, dataVars, peerVars, ttyVars, serverVars
<1>0. TypeOK /\ TableConsistent
  BY DEF Inv
<1>1. CASE NewConnection
  BY <1>0, <1>1, RegisterTable DEF NewConnection, TakeConnection, Up, Down
<1>2. CASE AcceptedNothing
  <2>1. /\ UNCHANGED <<client, sock, maxfd, allset>>
        /\ maxi' = maxi \/ \E s \in Slots : maxi' = Larger(maxi, s)
    BY <1>2 DEF AcceptedNothing
  <2>2. maxi <= maxi'
    BY <1>0, <2>1, ConstantsAssumption DEF TypeOK, Larger, Slots
  <2>3. Up
    BY <1>2 DEF AcceptedNothing, Up, Down
  <2>4. \A s \in Slots : client[s] # -1 => s <= maxi'
    <3>1. maxi \in Int /\ maxi' \in Int /\ \A s \in Slots : s \in Int
      BY <1>0, <2>1 DEF TypeOK, Larger, Slots
    <3> QED BY <1>0, <2>2, <2>3, <3>1 DEF TableConsistent
  <2> QED BY <1>0, <2>1, <2>3, <2>4 DEF TableConsistent
<1>3. CASE HangUp
  <2>1. PICK j \in Slots : NextSlot(j, rset) /\ CloseSlot(j)
    BY <1>3 DEF HangUp
  <2>2. client[j] \in ConnFds
    BY <1>0, <2>1 DEF NextSlot, TypeOK, serv_sock, STDIN
  <2> QED BY <1>0, <1>3, <2>1, <2>2, CloseTable DEF HangUp, Up, Down
<1>4. ASSUME UNCHANGED <<client, sock, maxi, maxfd, allset>>, Up \/ ~Up'
      PROVE  TableConsistent'
  BY <1>0, <1>4 DEF TableConsistent
<1>5. CASE TooManyClients
  BY <1>5 DEF TooManyClients, TableConsistent, Up, Down
<1>6. CASE \/ Select \/ ScanfWord \/ ScanfRefill \/ ScanfEof \/ Broadcast
           \/ EndBroadcast \/ ReadClient \/ EchoClient \/ EndScan
  BY <1>4, <1>6 DEF Select, ScanfWord, ScanfRefill, ScanfEof, Broadcast, EndBroadcast,
     ReadClient, EchoClient, EndScan, Up, Down
<1>7. CASE Ends
  BY <1>4, <1>7 DEF Ends, SelectFails, BadFdSet, Killed, Up, Down
<1>8. CASE Environment
  BY <1>4, <1>8 DEF Environment, Connect, Send, Receive, CloseEnd, Reset, Type,
     CloseTerminal
<1>9. CASE UNCHANGED vars
  BY <1>4, <1>9 DEF Up
<1> QED BY <1>1, <1>2, <1>3, <1>5, <1>6, <1>7, <1>8, <1>9
  DEF Next, Server, Failure, Ends, AcceptFails, AcceptAborted
-----------------------------------------------------------------------------
(* One descriptor per peer.                                                *)

\* accept() moves the head of the backlog behind a free descriptor.
LEMMA TakeOne ==
  ASSUME TypeOK, OneConnection, NEW fd \in ConnFds, TakeConnection(fd)
  PROVE  OneConnection'
<1> DEFINE p == Head(backlog)
<1>1. /\ p \in Peers /\ p # None /\ p = backlog[1] /\ Len(backlog) \in Nat \ {0}
      /\ sock[fd] = None /\ sock' = [sock EXCEPT ![fd] = p]
      /\ Len(backlog') = Len(backlog) - 1
      /\ \A k \in 1 .. Len(backlog') : backlog'[k] = backlog[k + 1]
  <2>1. backlog \in Seq(Peers) /\ backlog # <<>> /\ backlog' = Tail(backlog)
    BY DEF TakeConnection, TypeOK
  <2>2. sock[fd] = None /\ sock' = [sock EXCEPT ![fd] = p]
    BY DEF TakeConnection, LowestFree
  <2> QED BY <2>1, <2>2, ConstantsAssumption
<1>2. \A q \in Peers : conn'[q] = "idle" => conn[q] = "idle"
  BY <1>1 DEF TakeConnection, Write, Delivered, Lost, TypeOK, ConnStates
<1>3. \A k \in 1 .. Len(backlog') : k + 1 \in 1 .. Len(backlog) /\ backlog'[k] # p
  BY <1>1 DEF OneConnection
<1>4. \A f, g \in ConnFds : sock'[f] = sock'[g] /\ sock'[f] # None => f = g
  <2>1. \A g \in ConnFds : sock[g] # p
    BY <1>1 DEF OneConnection
  <2> QED BY <1>1, <2>1 DEF TypeOK, OneConnection
<1>5. \A k, l \in 1 .. Len(backlog') : backlog'[k] = backlog'[l] => k = l
  BY <1>1, <1>3 DEF OneConnection
<1>6. \A f \in ConnFds, k \in 1 .. Len(backlog') : sock'[f] # backlog'[k]
  BY <1>1, <1>3 DEF TypeOK, OneConnection
<1>7. \A q \in Peers : conn'[q] = "idle" =>
        /\ \A f \in ConnFds : sock'[f] # q
        /\ \A k \in 1 .. Len(backlog') : backlog'[k] # q
  <2> SUFFICES ASSUME NEW q \in Peers, conn[q] = "idle"
               PROVE  /\ \A f \in ConnFds : sock'[f] # q
                      /\ \A k \in 1 .. Len(backlog') : backlog'[k] # q
    BY <1>2
  <2>1. p # q
    BY <1>1 DEF OneConnection
  <2>2. \A f \in ConnFds : sock'[f] # q
    BY <1>1, <2>1 DEF TypeOK, OneConnection
  <2>3. \A k \in 1 .. Len(backlog') : backlog'[k] # q
    BY <1>1, <1>3 DEF OneConnection
  <2> QED BY <2>2, <2>3
<1> QED BY <1>4, <1>5, <1>6, <1>7 DEF OneConnection

\* A step that takes nothing into the backlog and opens no socket.
LEMMA FewerConnections ==
  ASSUME OneConnection, TypeOK,
         \A fd \in ConnFds : sock'[fd] \in {sock[fd], None},
         UNCHANGED backlog,
         \A p \in Peers : conn'[p] = "idle" => conn[p] = "idle"
  PROVE  OneConnection'
<1>1. \A k \in 1 .. Len(backlog) : backlog[k] \in Peers /\ backlog[k] # None
  <2>1. backlog \in Seq(Peers)
    BY DEF TypeOK
  <2> QED BY <2>1, ConstantsAssumption
<1> QED BY <1>1, ConstantsAssumption DEF OneConnection

LEMMA OneStep ==
  ASSUME Inv, [Next]_vars
  PROVE  OneConnection'
<1> USE DEF vars, loopVars, roundVars, dataVars, peerVars, ttyVars, serverVars
<1>0. TypeOK /\ OneConnection /\ TableConsistent
  BY DEF Inv
<1>1. CASE NewConnection \/ TooManyClients
  BY <1>0, <1>1, TakeOne DEF NewConnection, TooManyClients
<1>2. CASE HangUp
  <2>1. PICK j \in Slots : CloseSlot(j)
    BY <1>2 DEF HangUp
  <2>2. \A fd \in ConnFds : sock'[fd] \in {sock[fd], None}
    BY <1>0, <2>1 DEF CloseSlot, CloseSocket, TypeOK
  <2>3. \A p \in Peers : conn'[p] = "idle" => conn[p] = "idle"
    BY <1>0, <2>1 DEF CloseSlot, CloseSocket, TypeOK
  <2> QED BY <1>0, <1>2, <2>2, <2>3, FewerConnections DEF HangUp
<1>3. ASSUME NEW p \in Peers, Connect(p) PROVE OneConnection'
  <2>1. /\ conn' = [conn EXCEPT ![p] = "open"] /\ UNCHANGED sock
        /\ Len(backlog') = Len(backlog) + 1 /\ Len(backlog) \in Nat
        /\ backlog'[Len(backlog) + 1] = p
        /\ \A k \in 1 .. Len(backlog) : backlog'[k] = backlog[k]
    BY <1>0, <1>3 DEF Connect, TypeOK
  <2>2. /\ \A fd \in ConnFds : sock[fd] # p
        /\ \A k \in 1 .. Len(backlog) : backlog[k] # p
    BY <1>0, <1>3 DEF Connect, OneConnection
  <2>3. \A k, l \in 1 .. Len(backlog') : backlog'[k] = backlog'[l] => k = l
    BY <1>0, <2>1, <2>2 DEF OneConnection
  <2>4. \A fd \in ConnFds, k \in 1 .. Len(backlog') : sock'[fd] # backlog'[k]
    BY <1>0, <2>1, <2>2 DEF OneConnection
  <2>5. \A q \in Peers : conn'[q] = "idle" => q # p /\ conn[q] = "idle"
    BY <1>0, <2>1 DEF TypeOK
  <2>6. \A q \in Peers : conn'[q] = "idle" =>
          /\ \A fd \in ConnFds : sock'[fd] # q
          /\ \A k \in 1 .. Len(backlog') : backlog'[k] # q
    BY <1>0, <2>1, <2>5 DEF OneConnection
  <2>7. \A f, g \in ConnFds : sock'[f] = sock'[g] /\ sock'[f] # None => f = g
    BY <1>0, <2>1 DEF OneConnection
  <2> QED BY <2>3, <2>4, <2>6, <2>7 DEF OneConnection
<1>4. ASSUME NEW p \in Peers, Reset(p) PROVE OneConnection'
  <2>1. \A q \in Peers : conn'[q] = "idle" => conn[q] = "idle"
    BY <1>0, <1>4 DEF Reset, TypeOK
  <2>2. UNCHANGED sock
    BY <1>4 DEF Reset
  <2>3. CASE UNCHANGED backlog
    BY <1>0, <2>1, <2>2, <2>3, FewerConnections
  <2>4. CASE \E k \in DOMAIN backlog : backlog' = RemoveAt(backlog, k)
    <3>1. PICK k \in 1 .. Len(backlog) : backlog' = RemoveAt(backlog, k)
      BY <1>0, <2>4 DEF TypeOK
    <3>2. /\ Len(backlog') = Len(backlog) - 1 /\ Len(backlog) \in Nat
          /\ \A j \in 1 .. Len(backlog') : backlog'[j] = backlog[IF j < k THEN j ELSE j + 1]
      <4>1. backlog \in Seq(Peers)
        BY <1>0 DEF TypeOK
      <4> QED BY <3>1, <4>1, Removal
    <3>3. \A j \in 1 .. Len(backlog') : (IF j < k THEN j ELSE j + 1) \in 1 .. Len(backlog)
      BY <3>2
    <3>4. \A j, l \in 1 .. Len(backlog') :
            (IF j < k THEN j ELSE j + 1) = (IF l < k THEN l ELSE l + 1) => j = l
      BY <3>2
    <3>5. \A j, l \in 1 .. Len(backlog') : backlog'[j] = backlog'[l] => j = l
      BY <1>0, <3>2, <3>3, <3>4 DEF OneConnection
    <3> QED BY <1>0, <2>1, <2>2, <3>2, <3>3, <3>5 DEF OneConnection
  <2> QED BY <1>4, <2>3, <2>4 DEF Reset
<1>5. ASSUME UNCHANGED <<sock, backlog>>,
             \A p \in Peers : conn'[p] = "idle" => conn[p] = "idle"
      PROVE  OneConnection'
  BY <1>0, <1>5, FewerConnections
<1>6. CASE Broadcast
  BY <1>0, <1>5, <1>6 DEF Broadcast, Write, Delivered, Lost, TypeOK
<1>7. CASE EchoClient
  BY <1>0, <1>5, <1>7 DEF EchoClient, Delivered, Lost, TypeOK
<1>8. ASSUME NEW p \in Peers, CloseEnd(p) PROVE OneConnection'
  BY <1>0, <1>5, <1>8 DEF CloseEnd, TypeOK
<1>9. ASSUME UNCHANGED <<sock, backlog, conn>> PROVE OneConnection'
  BY <1>5, <1>9
<1>10. CASE \/ Select \/ AcceptedNothing \/ ScanfWord \/ ScanfRefill \/ ScanfEof
            \/ EndBroadcast \/ ReadClient \/ EndScan \/ Ends
  BY <1>9, <1>10 DEF Select, AcceptedNothing, ScanfWord, ScanfRefill, ScanfEof, EndBroadcast,
     ReadClient, EndScan, Ends, SelectFails, BadFdSet, Killed
<1>11. ASSUME NEW p \in Peers, Send(p) \/ Receive(p) PROVE OneConnection'
  BY <1>9, <1>11 DEF Send, Receive
<1>12. CASE (\E line \in Lines : Type(line)) \/ CloseTerminal \/ UNCHANGED vars
  BY <1>9, <1>12 DEF Type, CloseTerminal
<1> QED
  BY <1>1, <1>2, <1>3, <1>4, <1>6, <1>7, <1>8, <1>10, <1>11, <1>12
  DEF Next, Server, Failure, Ends, AcceptFails, AcceptAborted, Environment
-----------------------------------------------------------------------------
(* The round.                                                              *)

LEMMA ShapeStep ==
  ASSUME Inv, [Next]_vars
  PROVE  RoundShape'
<1> USE DEF vars, loopVars, roundVars, dataVars, peerVars, ttyVars, serverVars
<1>0. TypeOK /\ RoundShape /\ TableConsistent
  BY DEF Inv
<1>1. CASE Select
  BY <1>1 DEF Select, AfterAccept, RoundShape
<1>2. CASE NewConnection
  BY <1>0, <1>2 DEF NewConnection, TakeConnection, Register, CountDown, AfterAccept,
     RoundShape
<1>3. CASE AcceptedNothing
  BY <1>0, <1>3 DEF AcceptedNothing, CountDown, AfterAccept, RoundShape
<1>4. CASE ReadClient
  <2>1. PICK j \in Slots, n \in 1 .. BUFSIZE :
          /\ NextSlot(j, rset) /\ i' = j
          /\ buffer' = [k \in 1 .. n |-> rcvd[sock[client[j]]] + k]
    BY <1>4 DEF ReadClient
  <2>2. client[j] \in ConnFds
    BY <1>0, <2>1 DEF NextSlot, TypeOK, serv_sock, STDIN
  <2>3. buffer' # <<>>
    <3>1. DOMAIN buffer' = 1 .. n /\ 1 \in 1 .. n
      BY <2>1, ConstantsAssumption
    <3> QED BY <3>1
  <2> QED BY <1>4, <2>1, <2>2, <2>3 DEF ReadClient, NextSlot, RoundShape
<1>5. CASE EchoClient
  <2>1. CASE buffer' = <<>>
    BY <1>5, <2>1 DEF EchoClient, CountDown, RoundShape
  <2>2. CASE buffer' # <<>>
    BY <1>0, <1>5, <2>2 DEF EchoClient, RoundShape
  <2> QED BY <2>1, <2>2
<1>6. CASE HangUp
  BY <1>6 DEF HangUp, CountDown, RoundShape
<1>7. CASE ScanfWord \/ ScanfRefill \/ ScanfEof \/ Broadcast
  BY <1>0, <1>7 DEF ScanfWord, ScanfRefill, ScanfEof, Broadcast, RoundShape
<1>8. CASE EndBroadcast \/ EndScan \/ TooManyClients
  BY <1>8 DEF EndBroadcast, EndScan, TooManyClients, RoundShape
<1>9. CASE Ends
  BY <1>9 DEF Ends, SelectFails, BadFdSet, Killed, RoundShape
<1>10. ASSUME UNCHANGED serverVars PROVE RoundShape'
  BY <1>0, <1>10 DEF RoundShape
<1>11. CASE Environment \/ UNCHANGED vars
  BY <1>10, <1>11 DEF Environment, Connect, Send, Receive, CloseEnd, Reset, Type,
     CloseTerminal
<1> QED BY <1>1, <1>2, <1>3, <1>4, <1>5, <1>6, <1>7, <1>8, <1>9, <1>11
  DEF Next, Server, Failure, Ends, AcceptFails, AcceptAborted

\* What can be read from a connection is not taken back by a step that neither
\* reads from it nor closes it.
LEMMA StillPending ==
  ASSUME TypeOK, NEW p \in Peers, Pending(p),
         rcvd'[p] = rcvd[p], sent'[p] \in {sent[p], sent[p] + 1},
         conn'[p] = conn[p] \/ conn'[p] # "open"
  PROVE  Pending(p)'
BY DEF Pending, TypeOK

\* Every reported connection is in the table, so that the scan, which starts at
\* slot 0, will come to it.
LEMMA ReportedInTable ==
  ASSUME TypeOK, TableConsistent, Up, rset \subseteq allset
  PROVE  \A fd \in rset :
           \/ fd \in {STDIN, serv_sock}
           \/ fd \in ConnFds /\ \E s \in Slots : s <= maxi /\ client[s] = fd
<1> SUFFICES ASSUME NEW fd \in rset, fd \notin {STDIN, serv_sock}
             PROVE  fd \in ConnFds /\ \E s \in Slots : s <= maxi /\ client[s] = fd
  OBVIOUS
<1>1. fd \in ConnFds /\ fd \in allset
  BY DEF TypeOK
<1>2. sock[fd] # None
  BY <1>1 DEF TableConsistent
<1>3. PICK s \in Slots : client[s] = fd
  BY <1>1, <1>2 DEF TableConsistent
<1>4. fd # -1
  BY <1>1 DEF ConnFds, serv_sock
<1> QED BY <1>1, <1>3, <1>4 DEF TableConsistent

\* The next slot of the scan: what is reported and not served is unchanged by
\* going there, and is in later slots but for the descriptor in it.
LEMMA ScanSlot ==
  ASSUME TypeOK, TableConsistent, pc \in {"scan", "echo"}, NEW j \in Slots, NextSlot(j, rset)
  PROVE  /\ client[j] \in ConnFds /\ client[j] \in Unserved
         /\ \A s \in Slots : j <= s /\ s <= maxi /\ client[s] \in rset =>
              client[s] \in Unserved /\ (client[s] = client[j] => s = j)
         /\ \A fd \in Unserved : fd = STDIN \/
              \E s \in Slots : j <= s /\ s <= maxi /\ client[s] = fd
<1> USE DEF STDIN, serv_sock
<1>1. j \in Int /\ i \in Int /\ maxi \in Int /\ i <= j /\ j <= maxi /\ \A s \in Slots : s \in Int
  BY ConstantsAssumption DEF NextSlot, TypeOK, Slots
<1>2. client[j] \in ConnFds /\ client[j] \in rset
  BY DEF NextSlot, TypeOK
<1>3. Unserved = {fd \in rset : fd = STDIN \/
                    \E s \in Slots : i <= s /\ s <= maxi /\ client[s] = fd}
  BY DEF Unserved
<1>4. client[j] \in Unserved
  BY <1>1, <1>2, <1>3
<1>5. ASSUME NEW s \in Slots, j <= s, s <= maxi, client[s] \in rset
      PROVE  client[s] \in Unserved /\ (client[s] = client[j] => s = j)
  <2>1. client[s] \in Unserved
    BY <1>1, <1>3, <1>5
  <2>2. client[s] = client[j] => s = j
    BY <1>2 DEF TableConsistent, Up, Down, ConnFds
  <2> QED BY <2>1, <2>2
<1>6. ASSUME NEW fd \in Unserved, fd # STDIN
      PROVE  \E s \in Slots : j <= s /\ s <= maxi /\ client[s] = fd
  <2>1. PICK s \in Slots : i <= s /\ s <= maxi /\ client[s] = fd /\ fd \in rset
    BY <1>3, <1>6
  <2>2. ~(s < j)
    BY <2>1 DEF NextSlot
  <2> QED BY <1>1, <2>1, <2>2
<1> QED BY <1>2, <1>4, <1>5, <1>6

LEMMA AnswerStep ==
  ASSUME Inv, [Next]_vars
  PROVE  AnswerHolds'
<1> USE DEF vars, loopVars, roundVars, dataVars, peerVars, ttyVars, serverVars,
         STDIN, serv_sock
<1>0. /\ TypeOK /\ TableConsistent /\ OneConnection /\ RoundShape /\ AnswerHolds
      /\ TypeOK'
  BY TypesStep DEF Inv
<1>1. CASE Select
  <2>1. /\ \A fd \in rset' : Readable(fd)
        /\ UNCHANGED <<sock, rcvd, sent, conn>>
        /\ pc' # "echo"
    BY <1>1 DEF Select, AfterAccept
  <2>2. Unserved' \subseteq rset'
    BY DEF Unserved
  <2>3. \A fd \in ConnFds : fd \in rset' => sock[fd] # None /\ Pending(sock[fd])
    BY <2>1 DEF Readable, Pending, ConnFds
  <2> QED BY <2>1, <2>2, <2>3 DEF AnswerHolds, Pending
<1>2. CASE NewConnection
  <2>1. PICK fd \in ConnFds, s \in Slots : TakeConnection(fd) /\ Register(fd, s)
    BY <1>2 DEF NewConnection
  <2>2. /\ pc = "accept" /\ pc' \in {"select", "scanf", "scan"}
        /\ sock[fd] = None /\ sock' = [sock EXCEPT ![fd] = Head(backlog)]
        /\ UNCHANGED <<rset, rcvd, sent>>
        /\ Head(backlog) \in Peers
    BY <1>0, <2>1, TakeTypes, RegisterTypes DEF TakeConnection, LowestFree
  <2>3. \A p \in Peers : conn'[p] = conn[p] \/ conn'[p] # "open"
    BY <1>0, <2>1, <2>2 DEF TakeConnection, Write, Delivered, Lost, TypeOK
  <2>4. Unserved' \subseteq rset /\ Unserved = rset
    BY <2>2 DEF Unserved
  <2>5. ASSUME NEW g \in ConnFds, g \in Unserved'
        PROVE  sock'[g] # None /\ Pending(sock[g])' /\ sock'[g] = sock[g]
    <3>1. sock[g] # None /\ Pending(sock[g])
      BY <1>0, <2>2, <2>4, <2>5 DEF AnswerHolds, InRound
    <3>2. sock'[g] = sock[g] /\ sock[g] \in Peers
      BY <1>0, <2>2, <3>1 DEF TypeOK
    <3>3. Pending(sock[g])'
      BY <2>2, <2>3, <3>1, <3>2 DEF Pending
    <3> QED BY <3>1, <3>2, <3>3
  <2> QED BY <2>5 DEF AnswerHolds, Pending
<1>3. ASSUME Unserved' \subseteq Unserved, InRound' => InRound,
             UNCHANGED <<client, i, sock, rcvd>>, pc = "echo" => pc' \in {"echo"} \union Down,
             \A p \in Peers : /\ sent'[p] \in {sent[p], sent[p] + 1}
                              /\ conn'[p] = conn[p] \/ conn'[p] # "open"
      PROVE  AnswerHolds'
  <2> SUFFICES ASSUME InRound', NEW g \in ConnFds, g \in Unserved'
               PROVE  /\ sock'[g] # None
                      /\ Pending(sock[g])' \/ (pc' = "echo" /\ client'[i'] = g)
    BY <1>3 DEF AnswerHolds, Pending
  <2>1. /\ sock[g] # None
        /\ Pending(sock[g]) \/ (pc = "echo" /\ client[i] = g)
    BY <1>0, <1>3 DEF AnswerHolds
  <2>2. sock[g] \in Peers
    BY <1>0, <2>1 DEF TypeOK
  <2>3. Pending(sock[g]) => Pending(sock[g])'
    BY <1>0, <1>3, <2>2, StillPending DEF Pending
  <2>4. pc' \notin Down
    BY DEF InRound, Down
  <2> QED BY <1>3, <2>1, <2>3, <2>4
<1>4. CASE AcceptedNothing
  <2>1. /\ Unserved = rset /\ rset' = rset /\ InRound
        /\ UNCHANGED <<client, i, sock, rcvd, sent, conn>> /\ pc = "accept"
    BY <1>4 DEF AcceptedNothing, Unserved, InRound
  <2>2. Unserved' \subseteq Unserved
    BY <2>1 DEF Unserved
  <2> QED BY <1>3, <2>1, <2>2
<1>5. CASE ScanfWord \/ ScanfRefill \/ ScanfEof \/ Broadcast
  <2>1. /\ pc \in {"scanf", "broadcast"} /\ pc' \in {"scanf", "broadcast"} /\ rset' = rset
        /\ UNCHANGED <<client, sock, rcvd, sent>>
    BY <1>5 DEF ScanfWord, ScanfRefill, ScanfEof, Broadcast
  <2>2. \A p \in Peers : conn'[p] = conn[p] \/ conn'[p] # "open"
    BY <1>0, <1>5 DEF ScanfWord, ScanfRefill, ScanfEof, Broadcast, Write, Delivered,
       Lost, TypeOK
  <2>3. Unserved' = Unserved /\ InRound
    BY <2>1 DEF Unserved, InRound
  <2> SUFFICES ASSUME NEW g \in ConnFds, g \in Unserved'
               PROVE  sock'[g] # None /\ Pending(sock[g])'
    BY <2>1 DEF AnswerHolds, Pending
  <2>4. sock[g] # None /\ Pending(sock[g])
    BY <1>0, <2>1, <2>3 DEF AnswerHolds
  <2>5. sock[g] \in Peers
    BY <1>0, <2>4 DEF TypeOK
  <2> QED BY <2>1, <2>2, <2>4, <2>5 DEF Pending
<1>6. CASE EndBroadcast
  <2>1. /\ pc = "broadcast" /\ pc' = "scan" /\ i' = 0 /\ InRound
        /\ UNCHANGED <<rset, client, sock, rcvd, sent, conn, maxi>>
    BY <1>6 DEF EndBroadcast, InRound
  <2>2. \A g \in ConnFds : g \in Unserved' => g \in Unserved
    BY <2>1 DEF Unserved, ConnFds
  <2> QED BY <1>0, <2>1, <2>2 DEF AnswerHolds, Pending
<1>7. CASE ReadClient
  <2>1. PICK j \in Slots, n \in 1 .. BUFSIZE :
          /\ NextSlot(j, rset) /\ i' = j
          /\ rcvd' = [rcvd EXCEPT ![sock[client[j]]] = @ + n]
    BY <1>7 DEF ReadClient
  <2>2. /\ pc = "scan" /\ pc' = "echo" /\ InRound
        /\ UNCHANGED <<rset, client, sock, sent, conn, maxi>>
    BY <1>7 DEF ReadClient, InRound
  <2>3. client[j] \in ConnFds
    BY <1>0, <2>1, <2>2, ScanSlot
  <2> SUFFICES ASSUME NEW g \in ConnFds, g \in Unserved'
               PROVE  sock[g] # None /\ (g = client[j] \/ Pending(sock[g])')
    BY <2>1, <2>2 DEF AnswerHolds, Pending
  <2>4. \E s \in Slots : j <= s /\ s <= maxi /\ client[s] = g /\ g \in rset
    BY <2>1, <2>2 DEF Unserved, ConnFds
  <2>5. g \in Unserved
    BY <1>0, <2>1, <2>2, <2>4, ScanSlot
  <2>6. sock[g] # None /\ Pending(sock[g])
    BY <1>0, <2>2, <2>5 DEF AnswerHolds
  <2>7. CASE g # client[j]
    <3>1. sock[g] # sock[client[j]] /\ sock[g] \in Peers
      BY <1>0, <2>3, <2>6, <2>7 DEF OneConnection, TypeOK
    <3>2. rcvd'[sock[g]] = rcvd[sock[g]]
      BY <1>0, <2>1, <3>1 DEF TypeOK
    <3> QED BY <2>2, <2>6, <3>2 DEF Pending
  <2> QED BY <2>6, <2>7
<1>8. CASE EchoClient
  <2>1. /\ pc = "echo" /\ i \in Slots /\ i <= maxi /\ client[i] \in ConnFds
        /\ client[i] \in rset /\ UNCHANGED <<rset, client, sock, rcvd, sent, maxi>>
    BY <1>0, <1>8 DEF EchoClient, RoundShape
  <2>2. NextSlot(i, rset) /\ InRound /\ i \in Int
    BY <2>1, ConstantsAssumption DEF NextSlot, Slots, InRound
  <2>3. \A p \in Peers : conn'[p] = conn[p] \/ conn'[p] # "open"
    BY <1>0, <1>8 DEF EchoClient, Delivered, Lost, TypeOK
  <2>4. CASE UNCHANGED <<pc, nready, i>>
    <3>1. Unserved' = Unserved /\ InRound
      BY <2>1, <2>4 DEF Unserved, InRound
    <3> QED BY <1>3, <2>1, <2>3, <2>4, <3>1
  <2>5. CASE CountDown("scan") /\ i' = i + 1
    <3>1. pc' \in {"select", "scan"}
      BY <2>5 DEF CountDown
    <3> SUFFICES ASSUME NEW g \in ConnFds, g \in Unserved', pc' = "scan"
                 PROVE  sock[g] # None /\ Pending(sock[g])'
      BY <2>1, <3>1 DEF AnswerHolds, Pending, InRound
    <3>2. PICK s \in Slots : i + 1 <= s /\ s <= maxi /\ client[s] = g /\ g \in rset
      BY <2>1, <2>5 DEF Unserved, ConnFds
    <3>3. g \in Unserved /\ g # client[i]
      BY <1>0, <2>1, <2>2, <3>2, ScanSlot DEF Slots
    <3>4. sock[g] # None /\ Pending(sock[g])
      BY <1>0, <2>2, <3>3 DEF AnswerHolds
    <3>5. sock[g] \in Peers
      BY <1>0, <3>4 DEF TypeOK
    <3> QED BY <2>1, <2>3, <3>4, <3>5 DEF Pending
  <2> QED BY <1>8, <2>4, <2>5 DEF EchoClient
<1>9. CASE HangUp
  <2>1. PICK j \in Slots : NextSlot(j, rset) /\ CloseSlot(j) /\ i' = j + 1
    BY <1>9 DEF HangUp
  <2>2. /\ pc = "scan" /\ pc' \in {"select", "scan"} /\ InRound
        /\ UNCHANGED <<rset, rcvd, sent, maxi>>
        /\ client' = [client EXCEPT ![j] = -1]
        /\ sock' = [sock EXCEPT ![client[j]] = None]
    BY <1>9, <2>1 DEF HangUp, CountDown, InRound, CloseSlot, CloseSocket
  <2>3. \A p \in Peers : conn'[p] = conn[p] \/ conn'[p] # "open"
    BY <1>0, <2>1 DEF CloseSlot, CloseSocket, TypeOK
  <2> SUFFICES ASSUME NEW g \in ConnFds, g \in Unserved', pc' = "scan"
               PROVE  sock'[g] # None /\ Pending(sock[g])'
    BY <2>2 DEF AnswerHolds, InRound, Pending
  <2>4. PICK s \in Slots : j + 1 <= s /\ s <= maxi /\ client'[s] = g /\ g \in rset
    BY <2>1, <2>2 DEF Unserved, ConnFds
  <2>5. client[s] = g /\ j <= s /\ s # j
    BY <1>0, <2>2, <2>4, ConstantsAssumption DEF TypeOK, Slots, ConnFds
  <2>6. g \in Unserved /\ g # client[j]
    BY <1>0, <2>1, <2>2, <2>4, <2>5, ScanSlot
  <2>7. sock[g] # None /\ Pending(sock[g])
    BY <1>0, <2>2, <2>6 DEF AnswerHolds
  <2>8. sock'[g] = sock[g] /\ sock[g] \in Peers
    BY <1>0, <2>2, <2>6, <2>7 DEF TypeOK
  <2> QED BY <2>2, <2>3, <2>7, <2>8 DEF Pending
<1>10. CASE EndScan \/ TooManyClients \/ Ends
  BY <1>10 DEF EndScan, TooManyClients, Ends, SelectFails, BadFdSet, Killed,
     AnswerHolds, InRound
<1>11. ASSUME UNCHANGED serverVars, UNCHANGED rcvd,
              \A p \in Peers : /\ sent'[p] \in {sent[p], sent[p] + 1}
                               /\ conn'[p] = conn[p] \/ conn'[p] # "open"
       PROVE  AnswerHolds'
  BY <1>3, <1>11 DEF Unserved, InRound
<1>12. ASSUME NEW p \in Peers, Connect(p) PROVE AnswerHolds'
  <2>1. /\ \A fd \in ConnFds : sock[fd] # p
        /\ \A q \in Peers : q # p => conn'[q] = conn[q]
        /\ UNCHANGED <<serverVars, rcvd, sent>>
    BY <1>0, <1>12 DEF Connect, OneConnection, TypeOK
  <2>2. Unserved' = Unserved /\ InRound' = InRound
    BY <2>1 DEF Unserved, InRound
  <2> SUFFICES ASSUME InRound, NEW g \in ConnFds, g \in Unserved
               PROVE  /\ sock[g] # None
                      /\ Pending(sock[g])' \/ (pc = "echo" /\ client[i] = g)
    BY <2>1, <2>2 DEF AnswerHolds, Pending
  <2>3. /\ sock[g] # None
        /\ Pending(sock[g]) \/ (pc = "echo" /\ client[i] = g)
    BY <1>0 DEF AnswerHolds
  <2>4. sock[g] \in Peers /\ sock[g] # p
    BY <1>0, <2>1, <2>3 DEF TypeOK
  <2> QED BY <2>1, <2>3, <2>4 DEF Pending
<1>13. ASSUME NEW p \in Peers, Send(p) PROVE AnswerHolds'
  BY <1>0, <1>11, <1>13 DEF Send, TypeOK
<1>14. ASSUME NEW p \in Peers, CloseEnd(p) \/ Reset(p) PROVE AnswerHolds'
  BY <1>0, <1>11, <1>14 DEF CloseEnd, Reset, TypeOK
<1>15. CASE \/ \E p \in Peers : Receive(p)
            \/ \E line \in Lines : Type(line)
            \/ CloseTerminal
            \/ UNCHANGED vars
  BY <1>11, <1>15 DEF Receive, Type, CloseTerminal
<1> QED
  BY <1>1, <1>2, <1>4, <1>5, <1>6, <1>7, <1>8, <1>9, <1>10, <1>12, <1>13, <1>14, <1>15
  DEF Next, Server, Failure, Ends, AcceptFails, AcceptAborted, Environment
-----------------------------------------------------------------------------
(* Theorems.                                                               *)

LEMMA InitInv == Init => Inv
<1> USE ConstantsAssumption DEF serv_sock, STDIN
<1> SUFFICES ASSUME Init PROVE Inv
  OBVIOUS
<1>1. TypeOK
  BY InitTypes
<1>2. TableConsistent
  BY DEF Init, TableConsistent, ConnFds
<1>3. OneConnection
  <2>1. backlog = <<>> /\ \A fd \in ConnFds : sock[fd] = None
    BY DEF Init
  <2>2. Len(backlog) = 0
    BY <2>1
  <2> QED BY <2>1, <2>2 DEF OneConnection
<1>4. RoundShape /\ AnswerHolds
  BY DEF Init, RoundShape, AnswerHolds, InRound
<1> QED BY <1>1, <1>2, <1>3, <1>4 DEF Inv

\* Inv holds in every reachable state.
THEOREM Invariance == Spec => []Inv
<1>1. Init => Inv
  BY InitInv
<1>2. Inv /\ [Next]_vars => Inv'
  BY TypesStep, TableStep, OneStep, ShapeStep, AnswerStep DEF Inv
<1> QED BY <1>1, <1>2, PTL DEF Spec

\* The variables of server_run_select stay in their ranges for every number of
\* peers, descriptors and slots.
THEOREM Types == Spec => []TypeOK
<1>1. Inv => TypeOK
  BY DEF Inv
<1> QED BY <1>1, Invariance, PTL

\* client[], maxi, maxfd and allset agree with the open sockets at every step.
THEOREM Table == Spec => []TableConsistent
<1>1. Inv => TableConsistent
  BY DEF Inv
<1> QED BY <1>1, Invariance, PTL

\* The scan reads only from descriptors that have something to read: no client
\* can block the server in read().
THEOREM NonBlocking == Spec => []NoBlockingRead
<1>1. Inv => NoBlockingRead
  <2> SUFFICES ASSUME Inv, pc = "scan", NEW s \in Slots, i <= s, s <= maxi, client[s] \in rset
               PROVE  Readable(client[s])
    BY DEF NoBlockingRead
  <2>1. client[s] \in ConnFds
    BY DEF Inv, TypeOK, STDIN, serv_sock
  <2>2. client[s] \in Unserved
    BY DEF Unserved
  <2>3. sock[client[s]] # None /\ Pending(sock[client[s]])
    BY <2>1, <2>2 DEF Inv, AnswerHolds, InRound
  <2> QED BY <2>1, <2>3 DEF Readable, Pending
<1> QED BY <1>1, Invariance, PTL
-----------------------------------------------------------------------------
(* nready.                                                                 *)

\* Serving one reported descriptor and counting it down keeps the count.
LEMMA CountOne ==
  ASSUME TypeOK, nready = Cardinality(Unserved), NEW fd \in Unserved, NEW next,
         CountDown(next), pc' # "select" => Unserved' = Unserved \ {fd}
  PROVE  pc' # "select" => nready' = Cardinality(Unserved')
<1>1. Unserved \subseteq {STDIN, serv_sock} \union ConnFds
  BY DEF TypeOK, Unserved
<1>2. IsFiniteSet(Unserved)
  BY <1>1, FiniteWatched
<1>3. Cardinality(Unserved \ {fd}) = Cardinality(Unserved) - 1
  BY <1>2, FS_RemoveElement
<1> QED BY <1>3 DEF CountDown

\* When the scan begins, all but the listening socket is still to be served.
LEMMA ScanBegins ==
  ASSUME TypeOK', TableConsistent', rset' \subseteq allset', i' = 0, pc' = "scan"
  PROVE  Unserved' = rset' \ {serv_sock}
<1> USE DEF STDIN, serv_sock
<1>1. \A fd \in rset' : \/ fd \in {STDIN, serv_sock}
                        \/ \E s \in Slots : s <= maxi' /\ client'[s] = fd
  <2> SUFFICES ASSUME NEW fd \in rset', fd \notin {STDIN, serv_sock}
               PROVE  \E s \in Slots : s <= maxi' /\ client'[s] = fd
    OBVIOUS
  <2>1. fd \in ConnFds /\ fd \in allset'
    BY DEF TypeOK
  <2>2. sock'[fd] # None
    BY <2>1 DEF TableConsistent, Up, Down
  <2>3. PICK s \in Slots : client'[s] = fd
    BY <2>1, <2>2 DEF TableConsistent, Up, Down
  <2>4. fd # -1
    BY <2>1 DEF ConnFds
  <2> QED BY <2>3, <2>4 DEF TableConsistent, Up, Down
<1>2. \A s \in Slots : 0 <= s /\ client'[s] # serv_sock
  <2>1. \A s \in Slots : 0 <= s
    BY ConstantsAssumption DEF Slots
  <2>2. serv_sock \notin ConnFds \union {-1}
    BY ConstantsAssumption DEF ConnFds
  <2> QED BY <2>1, <2>2 DEF TypeOK
<1>3. Unserved' = {fd \in rset' : fd = STDIN \/
                     \E s \in Slots : 0 <= s /\ s <= maxi' /\ client'[s] = fd}
  BY DEF Unserved
<1> QED BY <1>1, <1>2, <1>3

LEMMA CountStep ==
  ASSUME Inv, ReadyCount, [Next]_vars
  PROVE  ReadyCount'
<1> USE DEF vars, loopVars, roundVars, dataVars, peerVars, ttyVars, serverVars,
         STDIN, serv_sock
<1>0. /\ TypeOK /\ TableConsistent /\ RoundShape /\ AnswerHolds
      /\ TypeOK' /\ TableConsistent'
  BY TypesStep, TableStep DEF Inv
<1>1. CASE Select
  <2>1. /\ pc' \in {"accept", "scanf", "scan"} /\ rset' \subseteq allset' /\ i' = 0
        /\ nready' = Cardinality(rset')
        /\ pc' # "accept" => serv_sock \notin rset'
    BY <1>1 DEF Select, AfterAccept
  <2>2. Unserved' = rset'
    <3>1. CASE pc' = "scan"
      BY <1>0, <2>1, <3>1, ScanBegins
    <3>2. CASE pc' # "scan"
      BY <2>1, <3>2 DEF Unserved
    <3> QED BY <3>1, <3>2
  <2> QED BY <2>1, <2>2 DEF ReadyCount
<1>2. ASSUME pc = "accept", CountDown(AfterAccept(rset)), UNCHANGED <<i, rset>>,
             allset \subseteq allset'
      PROVE  ReadyCount'
  <2>1. /\ Unserved = rset /\ serv_sock \in Unserved /\ nready = Cardinality(Unserved)
        /\ i' = 0 /\ rset' \subseteq allset'
    BY <1>0, <1>2 DEF Unserved, RoundShape, ReadyCount, InRound
  <2>2. pc' \in {"select", "scanf", "scan"}
    BY <1>2 DEF CountDown, AfterAccept
  <2>3. pc' # "select" => Unserved' = Unserved \ {serv_sock}
    <3>1. CASE pc' = "scanf"
      BY <1>2, <2>1, <3>1 DEF Unserved
    <3>2. CASE pc' = "scan"
      BY <1>0, <1>2, <2>1, <3>2, ScanBegins
    <3> QED BY <2>2, <3>1, <3>2
  <2> QED BY <1>0, <1>2, <2>1, <2>3, CountOne DEF ReadyCount, InRound
<1>3. CASE NewConnection
  BY <1>2, <1>3 DEF NewConnection, TakeConnection, Register
<1>4. CASE AcceptedNothing
  <2>1. CASE pc' = "exited"
    BY <2>1 DEF ReadyCount, InRound
  <2>2. CASE CountDown(AfterAccept(rset))
    BY <1>2, <1>4, <2>2 DEF AcceptedNothing
  <2> QED BY <1>4, <2>1, <2>2 DEF AcceptedNothing
<1>5. CASE ScanfWord \/ ScanfRefill \/ ScanfEof \/ Broadcast
  <2>1. /\ pc \in {"scanf", "broadcast"} /\ pc' \in {"scanf", "broadcast"}
        /\ UNCHANGED <<rset, nready>>
    BY <1>5 DEF ScanfWord, ScanfRefill, ScanfEof, Broadcast
  <2> QED BY <2>1 DEF ReadyCount, Unserved, InRound
<1>6. CASE EndBroadcast
  <2>1. /\ pc = "broadcast" /\ pc' = "scan" /\ i' = 0
        /\ UNCHANGED <<rset, nready, allset>>
    BY <1>6 DEF EndBroadcast
  <2>2. Unserved = rset \ {serv_sock} /\ rset \subseteq allset
    BY <1>0, <2>1 DEF Unserved, RoundShape
  <2>3. Unserved' = rset \ {serv_sock}
    BY <1>0, <2>1, <2>2, ScanBegins
  <2> QED BY <2>1, <2>2, <2>3 DEF ReadyCount, InRound
<1>7. CASE ReadClient
  <2>1. PICK j \in Slots : NextSlot(j, rset) /\ i' = j
    BY <1>7 DEF ReadClient
  <2>2. /\ pc = "scan" /\ pc' = "echo" /\ UNCHANGED <<rset, nready, client, maxi>>
    BY <1>7 DEF ReadClient
  <2>3. Unserved' = {fd \in rset : fd = STDIN \/
                       \E s \in Slots : j <= s /\ s <= maxi /\ client[s] = fd}
    BY <2>1, <2>2 DEF Unserved
  <2>4. \A fd \in Unserved : fd = STDIN \/
          \E s \in Slots : j <= s /\ s <= maxi /\ client[s] = fd
    BY <1>0, <2>1, <2>2, ScanSlot
  <2>5. \A s \in Slots : j <= s /\ s <= maxi /\ client[s] \in rset => client[s] \in Unserved
    BY <1>0, <2>1, <2>2, ScanSlot
  <2>6. Unserved \subseteq rset /\ (STDIN \in rset => STDIN \in Unserved)
    BY <2>2 DEF Unserved
  <2>7. Unserved' = Unserved
    BY <2>3, <2>4, <2>5, <2>6
  <2> QED BY <2>2, <2>7 DEF ReadyCount, InRound
<1>8. ASSUME pc \in {"scan", "echo"}, NEW j \in Slots, NextSlot(j, rset),
             client' \in {client, [client EXCEPT ![j] = -1]},
             CountDown("scan"), i' = j + 1, UNCHANGED <<rset, maxi>>
      PROVE  ReadyCount'
  <2>1. /\ client[j] \in Unserved /\ client[j] \in ConnFds
        /\ \A s \in Slots : j <= s /\ s <= maxi /\ client[s] \in rset =>
             client[s] \in Unserved /\ (client[s] = client[j] => s = j)
        /\ \A fd \in Unserved : fd = STDIN \/
             \E s \in Slots : j <= s /\ s <= maxi /\ client[s] = fd
    BY <1>0, <1>8, ScanSlot
  <2>2. ASSUME pc' = "scan" PROVE Unserved' = Unserved \ {client[j]}
    <3>1. Unserved' = {fd \in rset : fd = STDIN \/
                         \E s \in Slots : j + 1 <= s /\ s <= maxi /\ client'[s] = fd}
      BY <1>8, <2>2 DEF Unserved
    <3>2. \A s \in Slots : /\ j + 1 <= s <=> j <= s /\ s # j
                           /\ s # j => client'[s] = client[s]
      <4>1. \A s \in Slots : j + 1 <= s <=> (j <= s /\ s # j)
        BY ConstantsAssumption DEF Slots
      <4>2. \A s \in Slots : s # j => client'[s] = client[s]
        BY <1>0, <1>8 DEF TypeOK
      <4> QED BY <4>1, <4>2
    <3>3. Unserved \subseteq rset /\ (STDIN \in rset => STDIN \in Unserved)
      BY <1>8 DEF Unserved
    <3>4. STDIN # client[j]
      BY <2>1 DEF ConnFds
    <3>5. ASSUME NEW fd \in Unserved' PROVE fd \in Unserved \ {client[j]}
      BY <2>1, <3>1, <3>2, <3>3, <3>4, <3>5
    <3>6. ASSUME NEW fd \in Unserved, fd # client[j] PROVE fd \in Unserved'
      BY <2>1, <3>1, <3>2, <3>3, <3>6
    <3> QED BY <3>5, <3>6
  <2>3. pc' \in {"select", "scan"}
    BY <1>8 DEF CountDown
  <2>4. nready = Cardinality(Unserved)
    BY <1>8 DEF ReadyCount, InRound
  <2> QED BY <1>0, <1>8, <2>1, <2>2, <2>3, <2>4, CountOne DEF ReadyCount, InRound
<1>9. CASE EchoClient
  <2>1. CASE UNCHANGED <<pc, nready, i>>
    BY <1>9, <2>1 DEF EchoClient, ReadyCount, Unserved, InRound
  <2>2. CASE CountDown("scan") /\ i' = i + 1
    <3>1. /\ pc = "echo" /\ i \in Slots /\ i <= maxi /\ client[i] \in rset
          /\ UNCHANGED <<rset, client, maxi>>
      BY <1>0, <1>9 DEF EchoClient, RoundShape
    <3>2. NextSlot(i, rset)
      BY <3>1, ConstantsAssumption DEF NextSlot, Slots
    <3> QED BY <1>8, <2>2, <3>1, <3>2
  <2> QED BY <1>9, <2>1, <2>2 DEF EchoClient
<1>10. CASE HangUp
  BY <1>8, <1>10 DEF HangUp, CloseSlot
<1>11. CASE EndScan \/ TooManyClients \/ Ends
  BY <1>11 DEF EndScan, TooManyClients, Ends, SelectFails, BadFdSet, Killed,
     ReadyCount, InRound
<1>12. ASSUME UNCHANGED serverVars PROVE ReadyCount'
  BY <1>12 DEF ReadyCount, Unserved, InRound
<1>13. CASE Environment \/ UNCHANGED vars
  BY <1>12, <1>13 DEF Environment, Connect, Send, Receive, CloseEnd, Reset, Type,
     CloseTerminal
<1> QED
  BY <1>1, <1>3, <1>4, <1>5, <1>6, <1>7, <1>9, <1>10, <1>11, <1>13
  DEF Next, Server, Failure, Ends, AcceptFails, AcceptAborted

\* nready is the number of reported descriptors not yet served, at every step of
\* every round.
THEOREM Counting == Spec => []ReadyCount
<1>1. Init => ReadyCount
  BY DEF Init, ReadyCount, InRound
<1>2. Inv /\ ReadyCount /\ [Next]_vars => ReadyCount'
  BY CountStep
<1> QED BY <1>1, <1>2, Invariance, PTL DEF Spec

\* When the last descriptor counted is served, no later slot is reported.
LEMMA NothingLeftAfter ==
  ASSUME Inv, TypeOK', pc \in {"scan", "echo"}, NEW j \in Slots, NextSlot(j, rset),
         nready = 1, ReadyCount,
         client' \in {client, [client EXCEPT ![j] = -1]}, i' = j + 1
  PROVE  \A s \in Slots : i' <= s => client'[s] \notin rset
<1> USE DEF STDIN, serv_sock
<1>0. TypeOK /\ TableConsistent /\ Up
  BY DEF Inv, Up, Down
<1> SUFFICES ASSUME NEW s \in Slots, j + 1 <= s, client'[s] \in rset
             PROVE  FALSE
  OBVIOUS
<1>1. j <= s /\ s # j
  BY ConstantsAssumption DEF Slots
<1>2. client[s] \in rset /\ client[s] \in ConnFds
  <2>1. client'[s] = client[s] /\ client[s] \in ConnFds \union {-1}
    BY <1>0, <1>1 DEF TypeOK
  <2>2. -1 \notin rset /\ 0 \notin ConnFds /\ 3 \notin ConnFds
    BY <1>0 DEF TypeOK, ConnFds
  <2> QED BY <2>1, <2>2
<1>3. s <= maxi
  BY <1>0, <1>2 DEF TableConsistent, ConnFds
<1>4. /\ client[j] \in Unserved
      /\ client[s] \in Unserved /\ client[s] # client[j]
  BY <1>0, <1>1, <1>2, <1>3, ScanSlot
<1>5. Unserved \subseteq {STDIN, serv_sock} \union ConnFds /\ Cardinality(Unserved) = 1
  BY <1>0 DEF TypeOK, Unserved, ReadyCount, InRound
<1>6. PICK x : Unserved = {x}
  BY <1>5, FiniteWatched, FS_Singleton
<1> QED BY <1>4, <1>6

\* No round ends with a reported descriptor unserved.
THEOREM Rounds == Spec => RoundComplete
<1> USE DEF vars, loopVars, roundVars, dataVars, peerVars, ttyVars, serverVars,
         STDIN, serv_sock
<1>1. ASSUME Inv, ReadyCount, [Next]_vars, TypeOK', RoundEnds
      PROVE  NothingLeft
  <2>0. TypeOK /\ TableConsistent /\ RoundShape /\ pc' = "select"
        /\ pc \in {"accept", "scan", "echo"}
    BY <1>1 DEF Inv, RoundEnds
  <2>1. ASSUME pc = "accept", CountDown(AfterAccept(rset)) PROVE NothingLeft
    <3>1. serv_sock \in rset /\ Cardinality(rset) = 1
      BY <1>1, <2>0, <2>1 DEF RoundShape, ReadyCount, InRound, Unserved, CountDown, AfterAccept
    <3>2. rset = {serv_sock}
      <4>1. PICK x : rset = {x}
        BY <2>0, <3>1, FiniteWatched, FS_Singleton DEF TypeOK
      <4> QED BY <3>1, <4>1
    <3>3. serv_sock \notin ConnFds \union {-1}
      BY ConstantsAssumption DEF ConnFds
    <3> QED BY <1>1, <3>2, <3>3 DEF NothingLeft, TypeOK
  <2>2. CASE NewConnection
    BY <2>1, <2>2 DEF NewConnection, TakeConnection, Register
  <2>3. CASE AcceptedNothing
    BY <2>0, <2>1, <2>3 DEF AcceptedNothing
  <2>4. CASE EchoClient
    <3>1. /\ pc = "echo" /\ i \in Slots /\ i <= maxi /\ client[i] \in rset
          /\ UNCHANGED client /\ nready = 1 /\ i' = i + 1
      BY <2>0, <2>4 DEF EchoClient, RoundShape, CountDown
    <3>2. NextSlot(i, rset)
      BY <3>1, ConstantsAssumption DEF NextSlot, Slots
    <3> QED BY <1>1, <2>0, <3>1, <3>2, NothingLeftAfter DEF NothingLeft
  <2>5. CASE HangUp
    <3>1. pc = "scan" /\ nready = 1
      BY <2>0, <2>5 DEF HangUp, CountDown
    <3>2. PICK j \in Slots : NextSlot(j, rset) /\ CloseSlot(j) /\ i' = j + 1
      BY <2>5 DEF HangUp
    <3> QED BY <1>1, <2>0, <3>1, <3>2, NothingLeftAfter DEF NothingLeft, CloseSlot
  <2>6. CASE EndScan
    <3>1. pc = "scan" /\ NoSlot(rset) /\ i' = i /\ UNCHANGED client
      BY <2>6 DEF EndScan
    <3>2. \A s \in Slots : client[s] \in rset => s <= maxi
      <4>1. -1 \notin rset
        BY <2>0 DEF TypeOK, ConnFds
      <4> QED BY <2>0, <3>1, <4>1 DEF TableConsistent, Up, Down
    <3> QED BY <3>1, <3>2 DEF NoSlot, NothingLeft
  <2>7. CASE Select \/ TooManyClients \/ ScanfWord \/ ScanfRefill \/ ScanfEof
             \/ Broadcast \/ EndBroadcast \/ ReadClient
    BY <2>0, <2>7 DEF Select, TooManyClients, ScanfWord, ScanfRefill, ScanfEof, Broadcast,
       EndBroadcast, ReadClient
  <2>8. CASE Ends
    BY <2>0, <2>8 DEF Ends, SelectFails, BadFdSet, Killed
  <2>9. CASE Environment \/ UNCHANGED vars
    BY <2>0, <2>9 DEF Environment, Connect, Send, Receive, CloseEnd, Reset, Type,
       CloseTerminal
  <2> QED BY <1>1, <2>2, <2>3, <2>4, <2>5, <2>6, <2>7, <2>8, <2>9
    DEF Next, Server, Failure, Ends, AcceptFails, AcceptAborted
<1>2. Inv /\ Inv' /\ ReadyCount /\ [Next]_vars => [RoundEnds => NothingLeft]_vars
  BY <1>1 DEF Inv
<1> QED BY <1>2, Invariance, Counting, PTL DEF Spec, RoundComplete
-----------------------------------------------------------------------------
(* The exit for too many clients.                                          *)

\* client[] cannot be full when there are fewer descriptors than slots.
LEMMA TableNotFull ==
  ASSUME TypeOK, TableConsistent, Up, OPEN_MAX <= FD_SETSIZE
  PROVE  ~AllTaken
<1> USE ConstantsAssumption DEF serv_sock
<1> SUFFICES ASSUME AllTaken PROVE FALSE
  OBVIOUS
<1>1. client \in [Slots -> ConnFds]
  BY DEF TypeOK, AllTaken
<1>2. \A s, t \in Slots : client[s] = client[t] => s = t
  BY <1>1 DEF TableConsistent, ConnFds
<1>3. IsFiniteSet(Slots) /\ Cardinality(Slots) = FD_SETSIZE
  BY FS_Interval DEF Slots
<1>4. IsFiniteSet(ConnFds) /\ Cardinality(ConnFds) = OPEN_MAX - 4
  BY FS_Interval DEF ConnFds
<1>5. \E s, t \in Slots : s # t /\ client[s] = client[t]
  BY <1>1, <1>3, <1>4, FS_PigeonHole
<1> QED BY <1>2, <1>5

\* The only steps to exit(1) find the table full.
LEMMA ExitStep ==
  ASSUME [Next]_vars, pc' = "exited", pc # "exited"
  PROVE  AllTaken /\ Up
  BY DEF vars, Next, Server, Failure, Environment, Select, NewConnection,
     TooManyClients, AcceptFails, AcceptAborted, AcceptedNothing, ScanfWord, ScanfRefill,
     ScanfEof, Broadcast, EndBroadcast, ReadClient, EchoClient, HangUp, EndScan,
     SelectFails, BadFdSet, Killed, Connect, Send, Receive, CloseEnd, Reset, Type,
     CloseTerminal, serverVars, CountDown, AfterAccept, TakeConnection, Register, Up, Down

\* With no more descriptors than an fd_set has bits the server never exits for too many
\* clients: descriptors run out before the slots of client[] do.
THEOREM NoExit == Spec => []NeverTooMany
<1> USE DEF vars
<1>1. Init => NeverTooMany
  BY DEF Init, NeverTooMany
<1>2. ASSUME Inv, NeverTooMany, [Next]_vars, OPEN_MAX <= FD_SETSIZE, pc' = "exited"
      PROVE  FALSE
  <2>1. Up => ~AllTaken
    BY <1>2, TableNotFull DEF Inv
  <2>2. pc # "exited"
    BY <1>2 DEF NeverTooMany
  <2>3. AllTaken /\ Up
    BY <1>2, <2>2, ExitStep
  <2> QED BY <2>1, <2>3
<1>3. Inv /\ NeverTooMany /\ [Next]_vars => NeverTooMany'
  BY <1>2 DEF NeverTooMany
<1> QED BY <1>1, <1>3, Invariance, PTL DEF Spec

\* When no slot is free, client[] lists every open connection once.
LEMMA FullTable ==
  ASSUME TypeOK, TableConsistent, Up, AllTaken
  PROVE  Cardinality(ConnectedFds) = FD_SETSIZE
<1> USE ConstantsAssumption DEF serv_sock
<1>1. client \in [Slots -> ConnectedFds]
  BY DEF TypeOK, AllTaken, TableConsistent, ConnectedFds, ConnFds
<1>2. \A s, t \in Slots : client[s] = client[t] => s = t
  BY <1>1 DEF TableConsistent, ConnectedFds, ConnFds
<1>3. \A fd \in ConnectedFds : \E s \in Slots : client[s] = fd
  BY DEF TableConsistent, ConnectedFds
<1>4. client \in Bijection(Slots, ConnectedFds)
  BY <1>1, <1>2, <1>3 DEF Bijection, Injection, Surjection, IsInjective
<1>5. IsFiniteSet(Slots) /\ Cardinality(Slots) = FD_SETSIZE
  BY FS_Interval DEF Slots
<1>6. ExistsBijection(Slots, ConnectedFds)
  BY <1>4 DEF ExistsBijection
<1>7. IsFiniteSet(ConnectedFds) /\ Cardinality(ConnectedFds) = FD_SETSIZE
  BY <1>5, <1>6, FS_Bijection
<1> QED BY <1>7

\* The server gives up only on a connection that finds FD_SETSIZE clients connected, for
\* every number of slots and descriptors and whatever left before (server.h:182-191).
THEOREM Exits == Spec => ExitsWhenFull
<1>1. ASSUME Inv, [Next]_vars, pc' = "exited"
      PROVE  pc = "exited" \/ Cardinality(ConnectedFds) = FD_SETSIZE
  BY <1>1, ExitStep, FullTable DEF Inv
<1>2. Inv /\ [Next]_vars
        => [pc' = "exited" => pc = "exited" \/ Cardinality(ConnectedFds) = FD_SETSIZE]_vars
  BY <1>1
<1> QED BY <1>2, Invariance, PTL DEF Spec, ExitsWhenFull
-----------------------------------------------------------------------------
(* Echoes.                                                                 *)

\* Counting the echoes of a queue.
LEMMA EchoesCounted ==
  ASSUME NEW q \in Seq(Items), NEW n \in 0 .. Len(q)
  PROVE  /\ IsFiniteSet({k \in 1 .. n : IsEcho(q[k])})
         /\ Echoes(q, n) \in Nat
<1>1. IsFiniteSet(1 .. n)
  BY FS_Interval
<1>2. IsFiniteSet({k \in 1 .. n : IsEcho(q[k])})
  BY <1>1, FS_Subset
<1> QED BY <1>2, FS_CardinalityType DEF Echoes

LEMMA EchoesNone == ASSUME NEW q PROVE Echoes(q, 0) = 0
<1>1. {k \in 1 .. 0 : IsEcho(q[k])} = {}
  OBVIOUS
<1> QED BY <1>1, FS_EmptySet DEF Echoes

LEMMA EchoesNext ==
  ASSUME NEW q \in Seq(Items), NEW n \in Nat, n < Len(q)
  PROVE  Echoes(q, n + 1) = IF IsEcho(q[n + 1]) THEN Echoes(q, n) + 1 ELSE Echoes(q, n)
<1> DEFINE E(m) == {k \in 1 .. m : IsEcho(q[k])}
<1>1. IsFiniteSet(E(n)) /\ n + 1 \notin E(n)
  BY EchoesCounted
<1>2. CASE IsEcho(q[n + 1])
  <2>1. E(n + 1) = E(n) \union {n + 1}
    BY <1>2
  <2> HIDE DEF E
  <2>2. Cardinality(E(n + 1)) = Cardinality(E(n)) + 1
    BY <1>1, <2>1, FS_AddElement
  <2> QED BY <1>2, <2>2 DEF Echoes, E
<1>3. CASE ~IsEcho(q[n + 1])
  <2>1. E(n + 1) = E(n)
    BY <1>3
  <2> QED BY <1>3, <2>1 DEF Echoes
<1> QED BY <1>2, <1>3

LEMMA EchoesSame ==
  ASSUME NEW q, NEW r, NEW n \in Nat, \A k \in 1 .. n : q[k] = r[k]
  PROVE  Echoes(q, n) = Echoes(r, n)
<1>1. {k \in 1 .. n : IsEcho(q[k])} = {k \in 1 .. n : IsEcho(r[k])}
  BY Zenon
<1> QED BY <1>1 DEF Echoes

\* Without its first item a queue has one echo less at each place, or as many.
LEMMA EchoesTail ==
  ASSUME NEW q \in Seq(Items), q # <<>>, NEW n \in Nat, n < Len(q)
  PROVE  Echoes(q, n + 1) =
           IF IsEcho(Head(q)) THEN Echoes(Tail(q), n) + 1 ELSE Echoes(Tail(q), n)
<1> DEFINE S == {k \in 1 .. n : IsEcho(Tail(q)[k])}
           T == {k \in 2 .. (n + 1) : IsEcho(q[k])}
           f == [k \in S |-> k + 1]
<1>1. /\ Len(q) \in Nat /\ Tail(q) \in Seq(Items) /\ Len(Tail(q)) = Len(q) - 1
      /\ \A k \in 1 .. n : Tail(q)[k] = q[k + 1]
      /\ Head(q) = q[1]
  OBVIOUS
<1>2. IsFiniteSet(S) /\ Cardinality(S) = Echoes(Tail(q), n)
  <2>1. n \in 0 .. Len(Tail(q))
    BY <1>1
  <2> QED BY <1>1, <2>1, EchoesCounted DEF Echoes
<1>3. f \in Bijection(S, T)
  <2>1. \A k \in S : k \in Nat /\ k + 1 \in T
    BY <1>1
  <2>2. \A t \in T : t - 1 \in S /\ t = (t - 1) + 1
    BY <1>1
  <2> HIDE DEF S, T
  <2>3. f \in [S -> T] /\ \A a, b \in S : f[a] = f[b] => a = b
    BY <2>1
  <2>4. \A t \in T : \E k \in S : f[k] = t
    BY <2>2
  <2> HIDE DEF f
  <2>5. DOMAIN f = S
    BY <2>3
  <2> QED BY <2>3, <2>4, <2>5 DEF Bijection, Injection, Surjection, IsInjective
<1>4. IsFiniteSet(T) /\ Cardinality(T) = Echoes(Tail(q), n)
  BY <1>2, <1>3, FS_Bijection DEF ExistsBijection
<1>5. CASE IsEcho(Head(q))
  <2>1. {k \in 1 .. (n + 1) : IsEcho(q[k])} = T \union {1} /\ 1 \notin T
    BY <1>1, <1>5
  <2> HIDE DEF T
  <2>2. Cardinality(T \union {1}) = Cardinality(T) + 1
    BY <1>4, <2>1, FS_AddElement
  <2> QED BY <1>4, <1>5, <2>1, <2>2 DEF Echoes
<1>6. CASE ~IsEcho(Head(q))
  <2>1. {k \in 1 .. (n + 1) : IsEcho(q[k])} = T
    BY <1>1, <1>6
  <2> QED BY <1>4, <1>6, <2>1 DEF Echoes
<1> QED BY <1>5, <1>6

\* What the four kinds of step do to a queue q of echoes to p, to the number g of bytes
\* p has read, the number r the server has read, and the bytes h it holds.
Agree(p, q, g, r, h) ==
  /\ r = g + Echoes(q, Len(q)) + Len(h)
  /\ \A n \in DOMAIN q : IsEcho(q[n]) => q[n] = Echo(p, g + Echoes(q, n))
  /\ \A n \in DOMAIN h : h[n] = g + Echoes(q, Len(q)) + n

LEMMA AgreeInit == ASSUME NEW p PROVE Agree(p, <<>>, 0, 0, <<>>)
BY EchoesNone DEF Agree

LEMMA AgreeOther ==
  ASSUME NEW p \in Peers, NEW q \in Seq(Items), NEW g \in Nat, NEW r \in Nat, NEW h \in Seq(Nat),
         NEW m \in Items, ~IsEcho(m), Agree(p, q, g, r, h)
  PROVE  Agree(p, Append(q, m), g, r, h)
<1> DEFINE a == Append(q, m)
<1>1. /\ a \in Seq(Items) /\ Len(q) \in Nat /\ Len(a) = Len(q) + 1 /\ a[Len(q) + 1] = m
      /\ DOMAIN a = 1 .. Len(q) + 1 /\ DOMAIN q = 1 .. Len(q)
      /\ \A k \in 1 .. Len(q) : a[k] = q[k]
  OBVIOUS
<1> HIDE DEF a
<1>2. \A n \in 0 .. Len(q) : Echoes(a, n) = Echoes(q, n)
  <2> SUFFICES ASSUME NEW n \in 0 .. Len(q) PROVE Echoes(a, n) = Echoes(q, n)
    OBVIOUS
  <2>1. n \in Nat /\ \A k \in 1 .. n : a[k] = q[k]
    BY <1>1
  <2> QED BY <2>1, EchoesSame
<1>3. Echoes(a, Len(a)) = Echoes(q, Len(q))
  BY <1>1, <1>2, EchoesNext
<1>4. ASSUME NEW n \in DOMAIN a, IsEcho(a[n]) PROVE a[n] = Echo(p, g + Echoes(a, n))
  <2>1. n \in 1 .. Len(q)
    BY <1>1, <1>4
  <2> QED BY <1>1, <1>2, <1>4, <2>1 DEF Agree
<1> QED BY <1>3, <1>4 DEF Agree, a

LEMMA AgreeEcho ==
  ASSUME NEW p \in Peers, NEW q \in Seq(Items), NEW g \in Nat, NEW r \in Nat, NEW h \in Seq(Nat),
         h # <<>>, Agree(p, q, g, r, h)
  PROVE  Agree(p, Append(q, Echo(p, Head(h))), g, r, Tail(h))
<1> DEFINE m == Echo(p, Head(h))
           a == Append(q, m)
           t == Tail(h)
<1>1. /\ Len(h) \in Nat /\ Len(h) >= 1 /\ Head(h) = h[1] /\ 1 \in DOMAIN h /\ h[1] \in Nat
      /\ t \in Seq(Nat) /\ Len(t) = Len(h) - 1
      /\ \A n \in 1 .. Len(t) : t[n] = h[n + 1] /\ n + 1 \in DOMAIN h
      /\ DOMAIN t = 1 .. Len(t)
  OBVIOUS
<1>2. m \in Items /\ IsEcho(m)
  BY <1>1, EchoTypes DEF IsEcho, Echo
<1> HIDE DEF m
<1>3. /\ a \in Seq(Items) /\ Len(q) \in Nat /\ Len(a) = Len(q) + 1 /\ a[Len(q) + 1] = m
      /\ DOMAIN a = 1 .. Len(q) + 1 /\ DOMAIN q = 1 .. Len(q)
      /\ \A k \in 1 .. Len(q) : a[k] = q[k]
  BY <1>2
<1> HIDE DEF a, t
<1>4. \A n \in 0 .. Len(q) : Echoes(a, n) = Echoes(q, n)
  <2> SUFFICES ASSUME NEW n \in 0 .. Len(q) PROVE Echoes(a, n) = Echoes(q, n)
    OBVIOUS
  <2>1. n \in Nat /\ \A k \in 1 .. n : a[k] = q[k]
    BY <1>3
  <2> QED BY <2>1, EchoesSame
<1>5. Echoes(a, Len(a)) = Echoes(q, Len(q)) + 1
  BY <1>2, <1>3, <1>4, EchoesNext
<1>6. Echoes(q, Len(q)) \in Nat
  <2>1. Len(q) \in 0 .. Len(q)
    BY <1>3
  <2> QED BY <2>1, EchoesCounted
<1>7. h[1] = g + Echoes(q, Len(q)) + 1
  BY <1>1 DEF Agree
<1>8. ASSUME NEW n \in DOMAIN a, IsEcho(a[n]) PROVE a[n] = Echo(p, g + Echoes(a, n))
  <2>1. CASE n \in 1 .. Len(q)
    BY <1>3, <1>4, <1>8, <2>1 DEF Agree
  <2>2. CASE ~(n \in 1 .. Len(q))
    <3>1. n = Len(q) + 1
      BY <1>3, <2>2
    <3>2. g + Echoes(a, n) = h[1]
      BY <1>3, <1>5, <1>6, <1>7, <3>1
    <3> QED BY <1>1, <1>3, <3>1, <3>2 DEF m
  <2> QED BY <2>1, <2>2
<1>9. r = g + Echoes(a, Len(a)) + Len(t)
  <2>1. r = g + Echoes(q, Len(q)) + Len(h)
    BY DEF Agree
  <2> QED BY <1>1, <1>5, <1>6, <2>1
<1>10. ASSUME NEW n \in DOMAIN t PROVE t[n] = g + Echoes(a, Len(a)) + n
  <2>3. n \in 1 .. Len(t) /\ Len(t) \in Nat
    BY <1>1
  <2>1. n \in Nat /\ t[n] = h[n + 1] /\ n + 1 \in DOMAIN h
    BY <1>1, <2>3
  <2>2. h[n + 1] = g + Echoes(q, Len(q)) + (n + 1)
    BY <2>1 DEF Agree
  <2> QED BY <1>5, <1>6, <2>1, <2>2
<1> QED BY <1>8, <1>9, <1>10 DEF Agree, a, t, m

LEMMA AgreeReceive ==
  ASSUME NEW p \in Peers, NEW q \in Seq(Items), NEW g \in Nat, NEW r \in Nat, NEW h \in Seq(Nat),
         q # <<>>, Agree(p, q, g, r, h)
  PROVE  Agree(p, Tail(q), IF IsEcho(Head(q)) THEN g + 1 ELSE g, r, h)
<1> DEFINE t == Tail(q)
           e == IF IsEcho(Head(q)) THEN 1 ELSE 0
           d == IF IsEcho(Head(q)) THEN g + 1 ELSE g
<1>1. /\ Len(q) \in Nat /\ Len(q) >= 1 /\ t \in Seq(Items) /\ Len(t) = Len(q) - 1
      /\ \A n \in 1 .. Len(t) : t[n] = q[n + 1] /\ n + 1 \in DOMAIN q
      /\ DOMAIN t = 1 .. Len(t)
  OBVIOUS
<1>2. e \in {0, 1} /\ d = g + e
  OBVIOUS
<1>3. \A n \in 0 .. Len(t) : Echoes(q, n + 1) = Echoes(t, n) + e /\ Echoes(t, n) \in Nat
  <2> SUFFICES ASSUME NEW n \in 0 .. Len(t)
               PROVE  Echoes(q, n + 1) = Echoes(t, n) + e /\ Echoes(t, n) \in Nat
    OBVIOUS
  <2>1. n \in Nat /\ n < Len(q) /\ Echoes(t, n) \in Nat
    <3>1. n \in 0 .. Len(t) /\ t \in Seq(Items)
      BY <1>1
    <3>2. n \in Nat /\ n < Len(q)
      BY <1>1
    <3> HIDE DEF t
    <3>3. Echoes(t, n) \in Nat
      BY <3>1, EchoesCounted
    <3> QED BY <3>2, <3>3
  <2> QED BY <2>1, EchoesTail
<1> HIDE DEF t, e, d
<1>4. Echoes(q, Len(q)) = Echoes(t, Len(t)) + e /\ Echoes(t, Len(t)) \in Nat
  <2>1. Len(t) \in 0 .. Len(t) /\ Len(t) + 1 = Len(q)
    BY <1>1
  <2> QED BY <1>3, <2>1
<1>5. g + Echoes(q, Len(q)) = d + Echoes(t, Len(t))
  BY <1>2, <1>4
<1>6. ASSUME NEW n \in DOMAIN t, IsEcho(t[n]) PROVE t[n] = Echo(p, d + Echoes(t, n))
  <2>1. n \in 0 .. Len(t) /\ t[n] = q[n + 1] /\ n + 1 \in DOMAIN q
    BY <1>1
  <2>2. q[n + 1] = Echo(p, g + Echoes(q, n + 1))
    BY <1>6, <2>1 DEF Agree
  <2>3. g + Echoes(q, n + 1) = d + Echoes(t, n)
    BY <1>2, <1>3, <2>1
  <2> QED BY <2>1, <2>2, <2>3
<1>7. r = d + Echoes(t, Len(t)) + Len(h)
  BY <1>5 DEF Agree
<1>8. \A n \in DOMAIN h : h[n] = d + Echoes(t, Len(t)) + n
  BY <1>5 DEF Agree
<1> QED BY <1>6, <1>7, <1>8 DEF Agree, t, d

LEMMA AgreeRead ==
  ASSUME NEW p \in Peers, NEW q \in Seq(Items), NEW g \in Nat, NEW r \in Nat, NEW n \in Nat,
         Agree(p, q, g, r, <<>>)
  PROVE  Agree(p, q, g, r + n, [k \in 1 .. n |-> r + k])
<1> DEFINE h == [k \in 1 .. n |-> r + k]
<1>1. Len(h) = n /\ DOMAIN h = 1 .. n /\ \A k \in 1 .. n : h[k] = r + k
  OBVIOUS
<1>2. Echoes(q, Len(q)) \in Nat
  <2>1. Len(q) \in 0 .. Len(q)
    OBVIOUS
  <2> QED BY <2>1, EchoesCounted
<1>3. r = g + Echoes(q, Len(q))
  BY <1>2 DEF Agree
<1> HIDE DEF h
<1> QED BY <1>1, <1>2, <1>3 DEF Agree, h

\* Nothing has been exchanged with a peer that has not connected.
Untouched ==
  \A p \in Peers : conn[p] = "idle" =>
    rcvd[p] = 0 /\ got[p] = 0 /\ outq[p] = <<>>

EchoInv == Untouched /\ EchoExact

\* A step that changes what concerns no peer, or one that it breaks off with, or p.
LEMMA InStepIsAgree ==
  ASSUME NEW p \in Peers
  PROVE  /\ InStep(p) <=> Agree(p, outq[p], got[p], rcvd[p], Held(p))
         /\ InStep(p)' <=> Agree(p, outq'[p], got'[p], rcvd'[p], Held(p)')
BY DEF InStep, Agree

\* What the server writes besides echoes changes no count, whoever gets it.
LEMMA WriteOther ==
  ASSUME TypeOK, EchoInv, Up, NEW p \in Peers, NEW m \in Items, ~IsEcho(m), Write(p, m),
         conn[p] # "idle", UNCHANGED <<rcvd, got>>,
         \A q \in Peers : Held(q) = <<>> /\ Held(q)' = <<>>
  PROVE  EchoInv'
<1>1. \A q \in Peers : outq[q] \in Seq(Items) /\ got[q] \in Nat /\ rcvd[q] \in Nat
  BY DEF TypeOK
<1>2. <<>> \in Seq(Nat)
  OBVIOUS
<1>3. ASSUME NEW q \in Peers, conn'[q] = "open" PROVE InStep(q)'
  <2>1. conn[q] = "open" /\ InStep(q)
    BY <1>3 DEF TypeOK, Write, Delivered, Lost, EchoInv, EchoExact
  <2>2. Agree(q, outq[q], got[q], rcvd[q], <<>>)
    BY <2>1, InStepIsAgree
  <2>3. outq'[q] = outq[q] \/ outq'[q] = Append(outq[q], m)
    BY DEF TypeOK, Write, Delivered, Lost
  <2>4. Agree(q, outq'[q], got'[q], rcvd'[q], <<>>)
    BY <1>1, <1>2, <2>2, <2>3, AgreeOther
  <2> QED BY <2>4, InStepIsAgree
<1>4. Untouched'
  <2> SUFFICES ASSUME NEW q \in Peers, conn'[q] = "idle"
               PROVE  rcvd'[q] = 0 /\ got'[q] = 0 /\ outq'[q] = <<>>
    BY DEF Untouched
  <2>1. conn[q] = "idle" /\ q # p /\ outq'[q] = outq[q]
    BY DEF TypeOK, Write, Delivered, Lost
  <2> QED BY <2>1 DEF EchoInv, Untouched
<1> QED BY <1>3, <1>4 DEF EchoInv, EchoExact

\* A step that reads, writes and hands over nothing.
LEMMA EchoesKept ==
  ASSUME TypeOK, EchoInv, UNCHANGED <<rcvd, got, outq>>, Up' => Up,
         \A p \in Peers : conn'[p] \in {"idle", "open"} => conn[p] = conn'[p] \/ conn[p] = "idle",
         Up' => \A p \in Peers : Held(p)' = Held(p),
         \A p \in Peers : conn[p] = "idle" => Held(p) = <<>>
  PROVE  EchoInv'
<1>1. Untouched'
  BY DEF EchoInv, Untouched
<1>2. ASSUME Up', NEW p \in Peers, conn'[p] = "open" PROVE InStep(p)'
  <2>1. CASE conn[p] = "open"
    BY <1>2, <2>1, InStepIsAgree DEF EchoInv, EchoExact
  <2>2. CASE conn[p] = "idle"
    <3>1. rcvd[p] = 0 /\ got[p] = 0 /\ outq[p] = <<>> /\ Held(p) = <<>>
      BY <2>2 DEF EchoInv, Untouched
    <3>2. Agree(p, outq[p], got[p], rcvd[p], Held(p))
      BY <3>1, AgreeInit
    <3> QED BY <1>2, <3>2, InStepIsAgree
  <2> QED BY <1>2, <2>1, <2>2
<1> QED BY <1>1, <1>2 DEF EchoInv, EchoExact

\* Nothing is held for a peer that has not connected.
LEMMA HeldOf ==
  ASSUME Inv
  PROVE  /\ \A p \in Peers : Held(p) \in Seq(Nat)
         /\ \A p \in Peers : conn[p] = "idle" => Held(p) = <<>>
         /\ pc # "echo" => \A p \in Peers : Held(p) = <<>>
         /\ pc' # "echo" => \A p \in Peers : Held(p)' = <<>>
<1>1. buffer \in Seq(Nat) /\ <<>> \in Seq(Nat)
  BY DEF Inv, TypeOK
<1>2. pc = "echo" => client[i] \in ConnFds
  BY DEF Inv, RoundShape
<1> QED BY <1>1, <1>2 DEF Held, Inv, OneConnection

LEMMA ReadEchoes ==
  ASSUME Inv, EchoInv, ReadClient
  PROVE  EchoInv'
<1>1. PICK j \in Slots, n \in 1 .. BUFSIZE :
        /\ NextSlot(j, rset)
        /\ buffer' = [k \in 1 .. n |-> rcvd[sock[client[j]]] + k]
        /\ rcvd' = [rcvd EXCEPT ![sock[client[j]]] = @ + n]
        /\ i' = j
  BY DEF ReadClient
<1> DEFINE p == sock[client[j]]
<1>2. pc = "scan" /\ pc' = "echo" /\ UNCHANGED <<client, sock, conn, outq, got>> /\ Up
  BY DEF ReadClient, loopVars, peerVars, Up, Down
<1>3. client[j] \in ConnFds /\ p \in Peers
  <2>1. client[j] \in ConnFds
    BY <1>1, ConstantsAssumption DEF NextSlot, Inv, TypeOK, STDIN, serv_sock
  <2> QED BY <1>2, <2>1, SlotPeer DEF Inv
<1>4. conn[p] # "idle"
  BY <1>3 DEF Inv, OneConnection
<1>5. Held(p)' = buffer' /\ \A q \in Peers : q # p => Held(q)' = <<>>
  BY <1>1, <1>2 DEF Held
<1>6. \A q \in Peers : Held(q) = <<>>
  BY <1>2, HeldOf
<1>7. n \in Nat
  OBVIOUS
<1>8. \A q \in Peers : /\ outq[q] \in Seq(Items) /\ got[q] \in Nat /\ rcvd[q] \in Nat
                       /\ q # p => rcvd'[q] = rcvd[q]
  BY <1>1 DEF Inv, TypeOK
<1>9. rcvd'[p] = rcvd[p] + n /\ buffer' = [k \in 1 .. n |-> rcvd[p] + k]
  BY <1>1, <1>3 DEF Inv, TypeOK
<1>10. ASSUME NEW q \in Peers, conn'[q] = "open" PROVE InStep(q)'
  <2>1. Agree(q, outq[q], got[q], rcvd[q], <<>>)
    BY <1>2, <1>6, <1>10, InStepIsAgree DEF EchoInv, EchoExact
  <2>2. CASE q = p
    <3>1. Agree(q, outq[q], got[q], rcvd[q] + n, [k \in 1 .. n |-> rcvd[q] + k])
      BY <1>7, <1>8, <2>1, AgreeRead
    <3> QED BY <1>2, <1>5, <1>9, <2>2, <3>1, InStepIsAgree
  <2>3. CASE q # p
    BY <1>2, <1>5, <1>8, <2>1, <2>3, InStepIsAgree
  <2> QED BY <2>2, <2>3
<1>11. Untouched'
  BY <1>2, <1>4, <1>8 DEF EchoInv, Untouched
<1> QED BY <1>10, <1>11 DEF EchoInv, EchoExact

LEMMA WriteEcho ==
  ASSUME Inv, EchoInv, EchoClient
  PROVE  EchoInv'
<1>11. pc = "echo" /\ Up /\ i \in Slots /\ client[i] \in ConnFds /\ buffer # <<>>
  BY DEF EchoClient, Inv, RoundShape, Up, Down
<1>12. sock[client[i]] \in Peers
  BY <1>11, SlotPeer DEF Inv
<1> PICK p \in Peers : p = sock[client[i]]
  BY <1>12
<1>1. /\ pc = "echo" /\ Up /\ UNCHANGED <<client, sock, got, rcvd>>
      /\ \/ Delivered(p, Echo(p, Head(buffer))) /\ buffer' = Tail(buffer)
         \/ Lost(p) /\ buffer' = <<>>
      /\ IF buffer' = <<>> THEN pc' # "echo" ELSE pc' = pc /\ i' = i
  BY DEF EchoClient, CountDown, loopVars, Up, Down
<1>4. conn[p] # "idle"
  BY <1>11 DEF Inv, OneConnection
<1>5. Held(p) = buffer /\ \A q \in Peers : q # p => Held(q) = <<>>
  BY <1>1 DEF Held
<1>6. Held(p)' = buffer' /\ \A q \in Peers : q # p => Held(q)' = <<>>
  BY <1>1 DEF Held
<1>7. /\ \A q \in Peers : outq[q] \in Seq(Items) /\ got[q] \in Nat /\ rcvd[q] \in Nat
      /\ buffer \in Seq(Nat) /\ conn \in [Peers -> ConnStates] /\ outq \in [Peers -> Seq(Items)]
  BY DEF Inv, TypeOK
<1>8. /\ \A q \in Peers : q # p => outq'[q] = outq[q] /\ conn'[q] = conn[q]
      /\ conn'[p] # "idle"
  BY <1>1, <1>4, <1>7 DEF Delivered, Lost
<1>9. ASSUME NEW q \in Peers, conn'[q] = "open" PROVE InStep(q)'
  <2>1. CASE q # p
    <3>1. InStep(q)
      BY <1>1, <1>8, <1>9, <2>1 DEF EchoInv, EchoExact
    <3> QED BY <1>1, <1>5, <1>6, <1>8, <2>1, <3>1, InStepIsAgree
  <2>2. CASE q = p
    <3>1. conn[p] = "open" /\ Delivered(p, Echo(p, Head(buffer))) /\ buffer' = Tail(buffer)
      <4>1. Lost(p) => conn'[p] # "open"
        BY <1>7 DEF Lost
      <4> QED BY <1>1, <1>9, <2>2, <4>1 DEF Delivered
    <3>2. outq'[p] = Append(outq[p], Echo(p, Head(buffer)))
      BY <1>7, <3>1 DEF Delivered
    <3>3. Agree(p, outq[p], got[p], rcvd[p], buffer)
      BY <1>1, <1>5, <3>1, InStepIsAgree DEF EchoInv, EchoExact
    <3>4. Agree(p, Append(outq[p], Echo(p, Head(buffer))), got[p], rcvd[p], Tail(buffer))
      BY <1>7, <1>11, <3>3, AgreeEcho
    <3>5. Agree(p, outq'[p], got'[p], rcvd'[p], Held(p)')
      BY <1>1, <1>6, <3>1, <3>2, <3>4
    <3> QED BY <2>2, <3>5, InStepIsAgree
  <2> QED BY <2>1, <2>2
<1>10. Untouched'
  BY <1>1, <1>8 DEF EchoInv, Untouched
<1> QED BY <1>9, <1>10 DEF EchoInv, EchoExact

LEMMA ReceiveEchoes ==
  ASSUME Inv, EchoInv, NEW p \in Peers, Receive(p)
  PROVE  EchoInv'
<1>1. /\ Up /\ conn[p] = "open" /\ outq[p] # <<>>
      /\ outq' = [outq EXCEPT ![p] = Tail(@)]
      /\ got' = IF IsEcho(Head(outq[p])) THEN [got EXCEPT ![p] = @ + 1] ELSE got
      /\ UNCHANGED <<pc, i, client, sock, buffer, conn, rcvd>>
  BY DEF Receive, serverVars, loopVars, roundVars, dataVars
<1>2. /\ \A q \in Peers : outq[q] \in Seq(Items) /\ got[q] \in Nat /\ rcvd[q] \in Nat
      /\ outq \in [Peers -> Seq(Items)] /\ got \in [Peers -> Nat]
  BY DEF Inv, TypeOK
<1>3. \A q \in Peers : Held(q)' = Held(q) /\ Held(q) \in Seq(Nat)
  BY <1>1, HeldOf DEF Held
<1>4. \A q \in Peers : q # p => outq'[q] = outq[q] /\ got'[q] = got[q]
  BY <1>1, <1>2
<1>5. /\ outq'[p] = Tail(outq[p])
      /\ got'[p] = IF IsEcho(Head(outq[p])) THEN got[p] + 1 ELSE got[p]
  BY <1>1, <1>2
<1>6. ASSUME NEW q \in Peers, conn'[q] = "open" PROVE InStep(q)'
  <2>1. InStep(q)
    BY <1>1, <1>6 DEF EchoInv, EchoExact
  <2>2. CASE q # p
    BY <1>1, <1>3, <1>4, <2>1, <2>2, InStepIsAgree
  <2>3. CASE q = p
    <3>1. Agree(p, outq[p], got[p], rcvd[p], Held(p))
      BY <2>1, <2>3, InStepIsAgree
    <3>2. Agree(p, Tail(outq[p]), IF IsEcho(Head(outq[p])) THEN got[p] + 1 ELSE got[p],
                rcvd[p], Held(p))
      BY <1>1, <1>2, <1>3, <3>1, AgreeReceive
    <3>3. Agree(p, outq'[p], got'[p], rcvd'[p], Held(p)')
      BY <1>1, <1>3, <1>5, <3>2
    <3> QED BY <2>3, <3>3, InStepIsAgree
  <2> QED BY <2>2, <2>3
<1>7. Untouched'
  BY <1>1, <1>4 DEF EchoInv, Untouched
<1> QED BY <1>6, <1>7 DEF EchoInv, EchoExact

LEMMA EchoStep ==
  ASSUME Inv, Inv', EchoInv, [Next]_vars
  PROVE  EchoInv'
<1> USE DEF vars, loopVars, roundVars, dataVars, peerVars, ttyVars, serverVars
<1>0. TypeOK /\ TableConsistent /\ conn \in [Peers -> ConnStates]
  BY DEF Inv, TypeOK
<1>1. /\ \A p \in Peers : conn[p] = "idle" => Held(p) = <<>>
      /\ pc # "echo" => \A p \in Peers : Held(p) = <<>>
      /\ pc' # "echo" => \A p \in Peers : Held(p)' = <<>>
  BY HeldOf
<1>2. ~IsEcho(Hello) /\ \A w : ~IsEcho(Word(w))
  BY DEF IsEcho, Hello, Word
<1>3. CASE NewConnection \/ TooManyClients
  <2>1. PICK fd \in ConnFds : TakeConnection(fd)
    BY <1>3 DEF NewConnection, TooManyClients
  <2>2. Up /\ pc # "echo" /\ pc' # "echo" /\ UNCHANGED <<rcvd, got>>
    BY <1>3, <2>1 DEF NewConnection, TooManyClients, TakeConnection, Register, CountDown,
                      AfterAccept, Up, Down
  <2>3. Head(backlog) \in Peers /\ conn[Head(backlog)] # "idle"
    <3>1. backlog \in Seq(Peers) /\ backlog # <<>>
      BY <1>0, <2>1 DEF TypeOK, TakeConnection
    <3>2. Head(backlog) = backlog[1] /\ 1 \in 1 .. Len(backlog) /\ Head(backlog) \in Peers
      BY <3>1
    <3> QED BY <3>2 DEF Inv, OneConnection
  <2>4. Write(Head(backlog), Hello)
    BY <2>1 DEF TakeConnection
  <2> QED BY <1>0, <1>1, <1>2, <2>2, <2>3, <2>4, WriteOther, GreetingTypes
<1>4. CASE Broadcast
  <2>1. PICK j \in Slots : NextSlot(j, ConnFds) /\ Write(sock[client[j]], Word(lbuf))
    BY <1>4 DEF Broadcast
  <2>2. Up /\ pc # "echo" /\ pc' # "echo" /\ UNCHANGED <<rcvd, got>>
    BY <1>4 DEF Broadcast, Up, Down
  <2>3. client[j] \in ConnFds /\ sock[client[j]] \in Peers
    BY <1>0, <2>1, <2>2, SlotPeer DEF NextSlot
  <2>4. conn[sock[client[j]]] # "idle"
    BY <2>3 DEF Inv, OneConnection
  <2>5. Word(lbuf) \in Items
    BY <1>0, WordTypes DEF TypeOK
  <2> QED BY <1>0, <1>1, <1>2, <2>1, <2>2, <2>3, <2>4, <2>5, WriteOther
<1>5. CASE ReadClient \/ EchoClient
  BY <1>5, ReadEchoes, WriteEcho
<1>6. ASSUME NEW p \in Peers, Receive(p) PROVE EchoInv'
  BY <1>6, ReceiveEchoes
<1>7. CASE \/ Select \/ AcceptedNothing \/ ScanfWord \/ ScanfRefill \/ ScanfEof
           \/ EndBroadcast \/ EndScan
  <2>1. Up /\ pc # "echo" /\ pc' # "echo" /\ UNCHANGED <<rcvd, got, outq, conn>>
    BY <1>7 DEF Select, AcceptedNothing, ScanfWord, ScanfRefill, ScanfEof, EndBroadcast, EndScan,
                CountDown, AfterAccept, Up, Down
  <2> QED BY <1>0, <1>1, <2>1, EchoesKept
<1>8. CASE HangUp
  <2>1. Up /\ pc # "echo" /\ pc' # "echo" /\ UNCHANGED <<rcvd, got, outq>>
    BY <1>8 DEF HangUp, CountDown, Up, Down
  <2>2. \A p \in Peers : conn'[p] = conn[p] \/ conn'[p] = "gone"
    BY <1>0, <1>8 DEF HangUp, CloseSlot, CloseSocket
  <2> QED BY <1>0, <1>1, <2>1, <2>2, EchoesKept
<1>9. CASE Ends
  <2>1. ~Up' /\ Up /\ UNCHANGED <<rcvd, got, outq, conn>>
    BY <1>9 DEF Ends, SelectFails, BadFdSet, Killed, Up, Down
  <2> QED BY <2>1 DEF EchoInv, EchoExact, Untouched
<1>10. ASSUME UNCHANGED <<pc, client, i, sock, buffer, rcvd, got, outq>>,
              \A p \in Peers : conn'[p] \in {"idle", "open"} => conn[p] = conn'[p] \/ conn[p] = "idle"
       PROVE  EchoInv'
  <2>1. \A p \in Peers : Held(p)' = Held(p)
    BY <1>10 DEF Held
  <2> QED BY <1>0, <1>1, <1>10, <2>1, EchoesKept DEF Up
<1>11. ASSUME NEW p \in Peers, Connect(p) \/ Send(p) \/ CloseEnd(p) \/ Reset(p) PROVE EchoInv'
  <2>1. UNCHANGED <<pc, client, i, sock, buffer, rcvd, got, outq>>
    BY <1>11 DEF Connect, Send, CloseEnd, Reset
  <2>2. \A q \in Peers : conn'[q] \in {"idle", "open"} => conn[q] = conn'[q] \/ conn[q] = "idle"
    BY <1>0, <1>11 DEF Connect, Send, CloseEnd, Reset
  <2> QED BY <1>10, <2>1, <2>2
<1>12. CASE (\E line \in Lines : Type(line)) \/ CloseTerminal \/ UNCHANGED vars
  BY <1>10, <1>12 DEF Type, CloseTerminal
<1> QED
  BY <1>3, <1>4, <1>5, <1>6, <1>7, <1>8, <1>9, <1>11, <1>12
  DEF Next, Server, Failure, Ends, AcceptFails, AcceptAborted, Environment

\* What server_run_select() reads from a connection goes back to it, byte for byte, in
\* order and to nobody else: for any number of peers, slots and descriptors, any sizes
\* of buffers, and any order of accepts, hang-ups and broadcasts (server.h:156-248).
THEOREM Echoing == Spec => []EchoExact
<1>1. Init => EchoInv
  <2> SUFFICES ASSUME Init PROVE EchoInv
    OBVIOUS
  <2>1. Untouched /\ \A p \in Peers : conn[p] = "idle"
    BY DEF Init, Untouched
  <2> QED BY <2>1 DEF EchoInv, EchoExact
<1>2. Inv /\ Inv' /\ EchoInv /\ [Next]_vars => EchoInv'
  BY EchoStep
<1>3. EchoInv => EchoExact
  BY DEF EchoInv
<1> QED BY <1>1, <1>2, <1>3, Invariance, PTL DEF Spec
-----------------------------------------------------------------------------
(* The service.                                                            *)

\* The queue of connections not yet accepted.
Among(p, q) == \E k \in DOMAIN q : q[k] = p
Behind(p, s) == \E fd \in ConnFds : s[fd] = p

LEMMA AmongTail ==
  ASSUME NEW q \in Seq(Peers), q # <<>>, \A k, l \in 1 .. Len(q) : q[k] = q[l] => k = l
  PROVE  /\ Among(Head(q), q) /\ ~Among(Head(q), Tail(q))
         /\ \A p \in Peers : p # Head(q) => (Among(p, Tail(q)) <=> Among(p, q))
<1>1. /\ Len(q) \in Nat /\ Len(q) >= 1 /\ Head(q) = q[1] /\ DOMAIN q = 1 .. Len(q)
      /\ Tail(q) \in Seq(Peers) /\ DOMAIN Tail(q) = 1 .. (Len(q) - 1)
      /\ \A k \in 1 .. (Len(q) - 1) : Tail(q)[k] = q[k + 1]
  OBVIOUS
<1>2. Among(Head(q), q)
  BY <1>1 DEF Among
<1>3. ~Among(Head(q), Tail(q))
  <2> SUFFICES ASSUME NEW k \in 1 .. (Len(q) - 1), q[k + 1] = q[1] PROVE FALSE
    BY <1>1 DEF Among
  <2>1. k + 1 \in 1 .. Len(q) /\ 1 \in 1 .. Len(q)
    BY <1>1
  <2>2. k + 1 = 1
    BY <2>1
  <2> QED BY <2>2
<1>4. ASSUME NEW p \in Peers, p # Head(q) PROVE Among(p, Tail(q)) <=> Among(p, q)
  <2>1. ASSUME NEW k \in 1 .. (Len(q) - 1), Tail(q)[k] = p PROVE Among(p, q)
    <3>1. k + 1 \in DOMAIN q
      BY <1>1
    <3> QED BY <1>1, <2>1, <3>1 DEF Among
  <2>2. ASSUME NEW k \in 1 .. Len(q), q[k] = p PROVE Among(p, Tail(q))
    <3>1. k # 1
      BY <1>1, <1>4, <2>2
    <3>2. k - 1 \in 1 .. (Len(q) - 1) /\ (k - 1) + 1 = k
      BY <1>1, <3>1
    <3>3. Tail(q)[k - 1] = p
      BY <1>1, <2>2, <3>2
    <3> QED BY <1>1, <3>2, <3>3 DEF Among
  <2> QED BY <1>1, <2>1, <2>2 DEF Among
<1> QED BY <1>2, <1>3, <1>4

LEMMA AmongAppend ==
  ASSUME NEW q \in Seq(Peers), NEW e \in Peers
  PROVE  \A p \in Peers : Among(p, Append(q, e)) <=> p = e \/ Among(p, q)
<1> DEFINE a == Append(q, e)
<1>1. /\ Len(q) \in Nat /\ DOMAIN q = 1 .. Len(q) /\ DOMAIN a = 1 .. (Len(q) + 1)
      /\ a[Len(q) + 1] = e /\ \A k \in 1 .. Len(q) : a[k] = q[k]
  OBVIOUS
<1> HIDE DEF a
<1>2. \A k \in 1 .. (Len(q) + 1) : k \in 1 .. Len(q) \/ k = Len(q) + 1
  BY <1>1
<1>3. Len(q) + 1 \in 1 .. (Len(q) + 1) /\ \A k \in 1 .. Len(q) : k \in 1 .. (Len(q) + 1)
  BY <1>1
<1> QED BY <1>1, <1>2, <1>3 DEF Among, a

LEMMA AmongRemoved ==
  ASSUME NEW q \in Seq(Peers), NEW k \in DOMAIN q, \A j, l \in 1 .. Len(q) : q[j] = q[l] => j = l
  PROVE  \A p \in Peers : Among(p, RemoveAt(q, k)) <=> p # q[k] /\ Among(p, q)
<1> DEFINE r == RemoveAt(q, k)
<1>1. DOMAIN q = 1 .. Len(q) /\ Len(q) \in Nat /\ k \in 1 .. Len(q)
  OBVIOUS
<1>2. /\ r \in Seq(Peers) /\ Len(r) = Len(q) - 1
      /\ \A j \in 1 .. Len(r) : r[j] = q[IF j < k THEN j ELSE j + 1]
  BY <1>1, Removal
<1> HIDE DEF r
<1>3. DOMAIN r = 1 .. (Len(q) - 1)
  BY <1>2
<1>4. ASSUME NEW j \in 1 .. (Len(q) - 1)
      PROVE  \E l \in 1 .. Len(q) : r[j] = q[l] /\ l # k
  <2>1. j \in 1 .. Len(r)
    BY <1>2
  <2>2. CASE j < k
    BY <1>1, <1>2, <2>1, <2>2
  <2>3. CASE ~(j < k)
    <3>1. j + 1 \in 1 .. Len(q) /\ j + 1 # k
      BY <1>1, <2>3
    <3> QED BY <1>2, <2>1, <2>3, <3>1
  <2> QED BY <2>2, <2>3
<1>5. ASSUME NEW l \in 1 .. Len(q), l # k
      PROVE  \E j \in 1 .. (Len(q) - 1) : r[j] = q[l]
  <2>1. CASE l < k
    <3>1. l \in 1 .. Len(r) /\ l \in 1 .. (Len(q) - 1)
      BY <1>1, <1>2, <2>1
    <3> QED BY <1>2, <2>1, <3>1
  <2>2. CASE ~(l < k)
    <3>1. l - 1 \in 1 .. Len(r) /\ l - 1 \in 1 .. (Len(q) - 1) /\ ~(l - 1 < k) /\ (l - 1) + 1 = l
      BY <1>1, <1>2, <1>5, <2>2
    <3>2. r[l - 1] = q[l]
      BY <1>2, <3>1
    <3> QED BY <3>1, <3>2
  <2> QED BY <2>1, <2>2
<1>6. ASSUME NEW p \in Peers PROVE Among(p, r) <=> p # q[k] /\ Among(p, q)
  <2>1. ASSUME Among(p, r) PROVE p # q[k] /\ Among(p, q)
    <3>1. PICK j \in 1 .. (Len(q) - 1) : r[j] = p
      BY <1>3, <2>1 DEF Among
    <3>2. PICK l \in 1 .. Len(q) : p = q[l] /\ l # k
      BY <1>4, <3>1
    <3> QED BY <1>1, <3>2 DEF Among
  <2>2. ASSUME p # q[k], Among(p, q) PROVE Among(p, r)
    <3>1. PICK l \in 1 .. Len(q) : q[l] = p
      BY <1>1, <2>2 DEF Among
    <3>2. PICK j \in 1 .. (Len(q) - 1) : r[j] = q[l]
      BY <1>5, <2>2, <3>1
    <3> QED BY <1>3, <3>1, <3>2 DEF Among
  <2> QED BY <2>1, <2>2
<1> QED BY <1>6 DEF r

\* Nothing is read that was not sent, and a connection that is up, or whose peer has
\* left, is in the backlog or behind a descriptor.
Known(p) == Among(p, backlog) \/ Behind(p, sock)

ServiceInv ==
  /\ EchoInv
  /\ \A p \in Peers : rcvd[p] <= sent[p]
  /\ \A p \in Peers : conn[p] \notin {"idle", "gone"} => Known(p)

\* How the two levels' variables correspond, peer by peer.
Kept(p) ==
  /\ SessionOf(p)' = SessionOf(p) /\ LeftOf(p)' = LeftOf(p)
  /\ AnsweredOf(p)' = AnsweredOf(p)

LEMMA Stuttering ==
  ASSUME UNCHANGED sent, Up' = Up, \A p \in Peers : Kept(p)
  PROVE  UNCHANGED Abstract!vars
BY DEF Abstract!vars, Kept

LEMMA Stopping ==
  ASSUME UNCHANGED sent, Up, ~Up',
         \A p \in Peers : LeftOf(p)' = LeftOf(p) /\ AnsweredOf(p)' = AnsweredOf(p),
         \/ \A p \in Peers : SessionOf(p)' = SessionOf(p)
         \/ \E p \in Peers : /\ SessionOf(p) = "waiting" /\ SessionOf(p)' = "served"
                             /\ \A q \in Peers \ {p} : SessionOf(q)' = SessionOf(q)
  PROVE  Abstract!Next
<1>1. Abstract!Stop
  BY DEF Abstract!Stop
<1> QED BY <1>1 DEF Abstract!Next

LEMMA Stepping ==
  ASSUME Up, Up', NEW p \in Peers, Abstract!Step(p)
  PROVE  Abstract!Next
BY DEF Abstract!Next

\* What the session of a peer depends on.
LEMMA SessionIs ==
  ASSUME NEW p \in Peers
  PROVE  /\ SessionOf(p) = IF conn[p] = "idle" THEN "idle"
                           ELSE IF Among(p, backlog) THEN "waiting"
                           ELSE IF Behind(p, sock) THEN "served" ELSE "gone"
         /\ SessionOf(p)' = IF conn'[p] = "idle" THEN "idle"
                            ELSE IF Among(p, backlog') THEN "waiting"
                            ELSE IF Behind(p, sock') THEN "served" ELSE "gone"
BY DEF SessionOf, Among, Behind

\* The backlog and the sockets as the invariant has them.
LEMMA Places ==
  ASSUME Inv
  PROVE  /\ backlog \in Seq(Peers) /\ \A k, l \in 1 .. Len(backlog) : backlog[k] = backlog[l] => k = l
         /\ \A p \in Peers : ~(Among(p, backlog) /\ Behind(p, sock))
         /\ \A p \in Peers : conn[p] = "idle" => ~Among(p, backlog) /\ ~Behind(p, sock)
         /\ conn \in [Peers -> ConnStates] /\ sock \in [ConnFds -> Peers \union {None}]
         /\ \A p \in Peers : sent[p] \in Nat /\ rcvd[p] \in Nat
         /\ None \notin Peers
<1>1. backlog \in Seq(Peers) /\ DOMAIN backlog = 1 .. Len(backlog)
  BY DEF Inv, TypeOK
<1> QED BY <1>1, ConstantsAssumption DEF Inv, TypeOK, OneConnection, Among, Behind


\* accept(), the greeting included.
LEMMA Taken ==
  ASSUME Inv, NEW fd \in ConnFds, TakeConnection(fd)
  PROVE  \E p \in Peers :
           /\ Among(p, backlog) /\ ~Among(p, backlog') /\ Behind(p, sock')
           /\ conn[p] # "idle" /\ conn'[p] # "idle"
           /\ \A q \in Peers : conn'[q] = "open" <=> conn[q] = "open"
           /\ \A q \in Peers \ {p} : /\ conn'[q] = conn[q]
                                     /\ Among(q, backlog') <=> Among(q, backlog)
                                     /\ Behind(q, sock') <=> Behind(q, sock)
<1> DEFINE p == Head(backlog)
<1>1. /\ backlog # <<>> /\ backlog' = Tail(backlog) /\ sock[fd] = None
      /\ sock' = [sock EXCEPT ![fd] = p] /\ Write(p, Hello)
  BY DEF TakeConnection, LowestFree
<1>2. /\ p \in Peers /\ Among(p, backlog) /\ ~Among(p, backlog')
      /\ \A q \in Peers : q # p => (Among(q, backlog') <=> Among(q, backlog))
  <2>1. p \in Peers
    BY <1>1, Places
  <2> QED BY <1>1, <2>1, Places, AmongTail
<1>3. conn[p] # "idle"
  BY <1>2, Places
<1>4. /\ \A q \in Peers : q # p => conn'[q] = conn[q]
      /\ conn'[p] # "idle" /\ (conn'[p] = "open" <=> conn[p] = "open")
  BY <1>1, <1>2, <1>3, Places DEF Write, Delivered, Lost
<1>5. Behind(p, sock') /\ \A q \in Peers : q # p => (Behind(q, sock') <=> Behind(q, sock))
  <2>1. sock'[fd] = p
    BY <1>1, Places
  <2>2. \A g \in ConnFds : g # fd => sock'[g] = sock[g]
    BY <1>1, Places
  <2>3. \A q \in Peers : q # None
    BY Places
  <2> QED BY <1>1, <2>1, <2>2, <2>3 DEF Behind
<1> HIDE DEF p
<1> QED BY <1>2, <1>3, <1>4, <1>5

\* What a peer's mapped state depends on does not change.
Same(p) ==
  /\ conn'[p] = "idle" <=> conn[p] = "idle"
  /\ conn'[p] = "open" <=> conn[p] = "open"
  /\ Among(p, backlog') <=> Among(p, backlog)
  /\ Behind(p, sock') <=> Behind(p, sock)

LEMMA SameSession ==
  ASSUME NEW p \in Peers, Same(p)
  PROVE  SessionOf(p)' = SessionOf(p) /\ LeftOf(p)' = LeftOf(p)
BY SessionIs DEF Same, LeftOf

\* A step the service does not see.
LEMMA Quiet ==
  ASSUME UNCHANGED <<sent, backlog, sock>>, Up' = Up,
         \A p \in Peers : /\ conn'[p] = "idle" <=> conn[p] = "idle"
                          /\ conn'[p] = "open" <=> conn[p] = "open",
         \A p \in Peers : conn[p] = "open" =>
           rcvd'[p] - Len(Held(p)') = rcvd[p] - Len(Held(p))
  PROVE  UNCHANGED Abstract!vars
<1>1. \A p \in Peers : Same(p)
  BY DEF Same
<1>2. \A p \in Peers : AnsweredOf(p)' = AnsweredOf(p)
  BY DEF AnsweredOf
<1> QED BY <1>1, <1>2, SameSession, Stuttering DEF Kept

\* The loop ends; nothing else has changed but, perhaps, one connection accepted.
LEMMA Ending ==
  ASSUME UNCHANGED <<sent, conn, rcvd, backlog, sock>>, Up, ~Up',
         \A p \in Peers : conn[p] = "open" => Len(Held(p)') = Len(Held(p))
  PROVE  Abstract!Next
<1>1. \A p \in Peers : Same(p)
  BY DEF Same
<1>2. \A p \in Peers : AnsweredOf(p)' = AnsweredOf(p)
  BY DEF AnsweredOf
<1> QED BY <1>1, <1>2, SameSession, Stopping

LEMMA Accepting ==
  ASSUME Inv, NEW fd \in ConnFds, TakeConnection(fd), pc' # "echo"
  PROVE  \E p \in Peers :
           /\ SessionOf(p) = "waiting" /\ SessionOf(p)' = "served"
           /\ \A q \in Peers \ {p} : SessionOf(q)' = SessionOf(q)
           /\ \A q \in Peers : LeftOf(q)' = LeftOf(q) /\ AnsweredOf(q)' = AnsweredOf(q)
           /\ UNCHANGED sent
<1>1. PICK p \in Peers :
        /\ Among(p, backlog) /\ ~Among(p, backlog') /\ Behind(p, sock')
        /\ conn[p] # "idle" /\ conn'[p] # "idle"
        /\ \A q \in Peers : conn'[q] = "open" <=> conn[q] = "open"
        /\ \A q \in Peers \ {p} : /\ conn'[q] = conn[q]
                                  /\ Among(q, backlog') <=> Among(q, backlog)
                                  /\ Behind(q, sock') <=> Behind(q, sock)
  BY Taken
<1>2. SessionOf(p) = "waiting" /\ SessionOf(p)' = "served" /\ LeftOf(p)' = LeftOf(p)
  BY <1>1, SessionIs DEF LeftOf
<1>3. ASSUME NEW q \in Peers \ {p}
      PROVE  SessionOf(q)' = SessionOf(q) /\ LeftOf(q)' = LeftOf(q)
  BY <1>1, SameSession DEF Same
<1>4. pc # "echo" /\ UNCHANGED <<rcvd, sent>>
  BY DEF TakeConnection
<1>5. \A q \in Peers : Held(q) = <<>> /\ Held(q)' = <<>>
  BY <1>4, HeldOf
<1>6. \A q \in Peers : AnsweredOf(q)' = AnsweredOf(q)
  BY <1>1, <1>4, <1>5 DEF AnsweredOf
<1> QED BY <1>2, <1>3, <1>4, <1>6

\* The service's step, from what it does to the mapped variables of each peer.
LEMMA ServiceAccepts ==
  ASSUME NEW p \in Peers, SessionOf(p) = "waiting", SessionOf(p)' = "served",
         \A q \in Peers \ {p} : SessionOf(q)' = SessionOf(q),
         \A q \in Peers : LeftOf(q)' = LeftOf(q) /\ AnsweredOf(q)' = AnsweredOf(q),
         UNCHANGED sent
  PROVE  Abstract!Accept(p)
BY DEF Abstract!Accept

LEMMA ServiceArrives ==
  ASSUME NEW p \in Peers, SessionOf(p) = "idle", SessionOf(p)' = "waiting",
         \A q \in Peers \ {p} : SessionOf(q)' = SessionOf(q),
         \A q \in Peers : LeftOf(q)' = LeftOf(q) /\ AnsweredOf(q)' = AnsweredOf(q),
         UNCHANGED sent
  PROVE  Abstract!Arrive(p)
BY DEF Abstract!Arrive

LEMMA ServiceAsks ==
  ASSUME NEW p \in Peers, SessionOf(p) \in {"waiting", "served"}, ~LeftOf(p),
         \A q \in Peers : Kept(q),
         sent' = [sent EXCEPT ![p] = @ + 1]
  PROVE  Abstract!Ask(p)
BY DEF Abstract!Ask, Abstract!Present, Kept

LEMMA ServiceLeft ==
  ASSUME NEW p \in Peers, SessionOf(p) \in {"waiting", "served"}, ~LeftOf(p),
         \A q \in Peers : SessionOf(q)' = SessionOf(q),
         \A q \in Peers \ {p} : LeftOf(q)' = LeftOf(q) /\ AnsweredOf(q)' = AnsweredOf(q),
         LeftOf(p)', AnsweredOf(p)' = 0,
         UNCHANGED sent
  PROVE  Abstract!Leave(p)
BY DEF Abstract!Leave, Abstract!Present, LeftOf

LEMMA ServiceWithdrawn ==
  ASSUME NEW p \in Peers, SessionOf(p) = "waiting", SessionOf(p)' = "gone",
         \A q \in Peers \ {p} : Kept(q),
         LeftOf(p)', AnsweredOf(p)' = 0,
         UNCHANGED sent
  PROVE  Abstract!Withdraw(p)
BY DEF Abstract!Withdraw, LeftOf, Kept

LEMMA ServiceAnswers ==
  ASSUME NEW p \in Peers, SessionOf(p) = "served", ~LeftOf(p), AnsweredOf(p) < sent[p],
         \A q \in Peers : SessionOf(q)' = SessionOf(q) /\ LeftOf(q)' = LeftOf(q),
         \A q \in Peers \ {p} : AnsweredOf(q)' = AnsweredOf(q),
         AnsweredOf(p)' = AnsweredOf(p) + 1,
         UNCHANGED sent
  PROVE  Abstract!Answer(p)
BY DEF Abstract!Answer

LEMMA ServiceDrops ==
  ASSUME NEW p \in Peers, SessionOf(p) = "served", SessionOf(p)' = "gone", LeftOf(p),
         \A q \in Peers \ {p} : SessionOf(q)' = SessionOf(q),
         \A q \in Peers : LeftOf(q)' = LeftOf(q) /\ AnsweredOf(q)' = AnsweredOf(q),
         UNCHANGED sent
  PROVE  Abstract!Drop(p)
BY DEF Abstract!Drop

LEMMA EchoIsAnswer ==
  ASSUME Inv, Inv', ServiceInv, EchoClient
  PROVE  UNCHANGED Abstract!vars \/ Abstract!Next
<1>1. pc = "echo" /\ Up /\ i \in Slots /\ client[i] \in ConnFds /\ buffer # <<>>
  BY DEF EchoClient, Inv, RoundShape, Up, Down
<1>2. sock[client[i]] \in Peers
  BY <1>1, SlotPeer DEF Inv
<1> PICK p \in Peers : p = sock[client[i]]
  BY <1>2
<1>3. /\ UNCHANGED <<client, sock, backlog, sent, rcvd>> /\ Up'
      /\ IF buffer' = <<>> THEN pc' # "echo" ELSE pc' = pc /\ i' = i
  BY DEF EchoClient, CountDown, loopVars, Up, Down
<1>4. /\ Held(p) = buffer /\ Held(p)' = buffer'
      /\ \A q \in Peers : q # p => Held(q) = <<>> /\ Held(q)' = <<>>
  BY <1>1, <1>3 DEF Held
<1>5. Behind(p, sock) /\ ~Among(p, backlog) /\ conn[p] # "idle"
  BY <1>1, Places DEF Behind
<1>6. CASE Lost(p)
  <2>1. /\ conn[p] # "open" /\ \A q \in Peers : /\ conn'[q] = "idle" <=> conn[q] = "idle"
                                                /\ conn'[q] = "open" <=> conn[q] = "open"
    BY <1>5, <1>6, Places DEF Lost
  <2> QED BY <1>1, <1>3, <1>4, <2>1, Quiet
<1>7. CASE Delivered(p, Echo(p, Head(buffer))) /\ buffer' = Tail(buffer)
  <2>1. conn[p] = "open" /\ UNCHANGED conn
    BY <1>7 DEF Delivered
  <2>2. /\ Len(buffer) \in Nat /\ Len(buffer) >= 1 /\ Len(buffer') = Len(buffer) - 1
        /\ rcvd[p] \in Nat /\ sent[p] \in Nat
    <3>1. buffer \in Seq(Nat)
      BY DEF Inv, TypeOK
    <3> QED BY <1>1, <1>7, <3>1, Places
  <2>3. AnsweredOf(p) < sent[p] /\ AnsweredOf(p)' = AnsweredOf(p) + 1
    <3>1. rcvd[p] <= sent[p]
      BY DEF ServiceInv
    <3> QED BY <1>3, <1>4, <2>1, <2>2, <3>1 DEF AnsweredOf
  <2>4. \A q \in Peers \ {p} : AnsweredOf(q)' = AnsweredOf(q)
    BY <1>3, <1>4, <2>1 DEF AnsweredOf
  <2>5. SessionOf(p) = "served" /\ ~LeftOf(p)
    BY <1>5, <2>1, SessionIs DEF LeftOf
  <2>6. \A q \in Peers : SessionOf(q)' = SessionOf(q) /\ LeftOf(q)' = LeftOf(q)
    BY <1>3, <2>1, SameSession DEF Same
  <2>7. Abstract!Answer(p)
    BY <1>3, <2>3, <2>4, <2>5, <2>6, ServiceAnswers
  <2> QED BY <1>1, <1>3, <2>7, Stepping DEF Abstract!Step
<1> QED BY <1>6, <1>7 DEF EchoClient

LEMMA HangUpIsDrop ==
  ASSUME Inv, Inv', ServiceInv, HangUp
  PROVE  /\ Abstract!Next
         /\ \A q \in Peers : conn'[q] \notin {"idle", "gone"} => Known(q)'
<1>1. PICK j \in Slots : NextSlot(j, rset) /\ AtEnd(sock[client[j]]) /\ CloseSlot(j)
  BY DEF HangUp
<1>2. pc = "scan" /\ pc' # "echo" /\ Up /\ Up' /\ UNCHANGED <<backlog, sent, rcvd>>
  BY DEF HangUp, CountDown, Up, Down
<1>3. client[j] \in ConnFds /\ sock[client[j]] \in Peers
  <2>1. client[j] \in ConnFds
    BY <1>1, ConstantsAssumption DEF NextSlot, Inv, TypeOK, STDIN, serv_sock
  <2> QED BY <1>2, <2>1, SlotPeer DEF Inv
<1> PICK p \in Peers : p = sock[client[j]]
  BY <1>3
<1>4. /\ sock' = [sock EXCEPT ![client[j]] = None] /\ conn' = [conn EXCEPT ![p] = "gone"]
  BY <1>1 DEF CloseSlot, CloseSocket
<1>5. Behind(p, sock) /\ ~Among(p, backlog) /\ conn[p] # "idle"
  BY <1>3, Places DEF Behind
<1>6. \A g \in ConnFds : g # client[j] => sock[g] # p
  BY <1>3, Places DEF Inv, OneConnection
<1>7. sock'[client[j]] = None /\ \A g \in ConnFds : g # client[j] => sock'[g] = sock[g]
  BY <1>3, <1>4, Places
<1>8. ~Behind(p, sock') /\ \A q \in Peers \ {p} : Behind(q, sock') <=> Behind(q, sock)
  <2>1. \A q \in Peers : q # None
    BY Places
  <2> QED BY <1>3, <1>6, <1>7, <2>1 DEF Behind
<1>9. conn'[p] = "gone" /\ \A q \in Peers \ {p} : conn'[q] = conn[q]
  BY <1>4, Places
<1>10. conn[p] # "open"
  BY <1>1 DEF AtEnd
<1>11. SessionOf(p) = "served" /\ SessionOf(p)' = "gone" /\ LeftOf(p) /\ LeftOf(p)' = LeftOf(p)
  BY <1>2, <1>5, <1>8, <1>9, <1>10, SessionIs DEF LeftOf
<1>12. \A q \in Peers \ {p} : SessionOf(q)' = SessionOf(q) /\ LeftOf(q)' = LeftOf(q)
  BY <1>2, <1>8, <1>9, SameSession DEF Same
<1>13. \A q \in Peers : AnsweredOf(q)' = AnsweredOf(q)
  <2>1. \A q \in Peers : Held(q) = <<>> /\ Held(q)' = <<>>
    BY <1>2, HeldOf
  <2>2. \A q \in Peers : conn'[q] = "open" <=> conn[q] = "open"
    BY <1>9, <1>10
  <2> QED BY <1>2, <2>1, <2>2 DEF AnsweredOf
<1>14. Abstract!Drop(p)
  BY <1>2, <1>11, <1>12, <1>13, ServiceDrops
<1>15. \A q \in Peers : conn'[q] \notin {"idle", "gone"} => Known(q)'
  BY <1>2, <1>8, <1>9 DEF ServiceInv, Known
<1> QED BY <1>2, <1>14, <1>15, Stepping DEF Abstract!Step

LEMMA ConnectIsArrive ==
  ASSUME Inv, Inv', ServiceInv, NEW p \in Peers, Connect(p)
  PROVE  /\ Abstract!Next
         /\ \A q \in Peers : conn'[q] \notin {"idle", "gone"} => Known(q)'
<1>1. /\ Up /\ Up' /\ conn[p] = "idle" /\ conn' = [conn EXCEPT ![p] = "open"]
      /\ backlog' = Append(backlog, p)
      /\ UNCHANGED <<pc, i, client, buffer, sock, sent, rcvd>>
  BY DEF Connect, serverVars, loopVars, roundVars, dataVars, Up
<1>2. ~Among(p, backlog) /\ ~Behind(p, sock)
  BY <1>1, Places
<1>3. \A q \in Peers : Among(q, backlog') <=> q = p \/ Among(q, backlog)
  BY <1>1, Places, AmongAppend
<1>4. conn'[p] = "open" /\ \A q \in Peers \ {p} : conn'[q] = conn[q]
  BY <1>1, Places
<1>5. SessionOf(p) = "idle" /\ SessionOf(p)' = "waiting" /\ LeftOf(p)' = LeftOf(p)
  BY <1>1, <1>3, <1>4, SessionIs DEF LeftOf
<1>6. \A q \in Peers \ {p} : SessionOf(q)' = SessionOf(q) /\ LeftOf(q)' = LeftOf(q)
  BY <1>1, <1>3, <1>4, SameSession DEF Same
<1>7. \A q \in Peers : Held(q)' = Held(q)
  BY <1>1 DEF Held
<1>8. AnsweredOf(p) = 0 /\ AnsweredOf(p)' = 0
  <2>1. rcvd[p] = 0 /\ Held(p) = <<>>
    BY <1>1, HeldOf DEF ServiceInv, EchoInv, Untouched
  <2> QED BY <1>1, <1>7, <2>1 DEF AnsweredOf
<1>9. \A q \in Peers \ {p} : AnsweredOf(q)' = AnsweredOf(q)
  BY <1>1, <1>4, <1>7 DEF AnsweredOf
<1>10. Abstract!Arrive(p)
  BY <1>1, <1>5, <1>6, <1>8, <1>9, ServiceArrives
<1>11. \A q \in Peers : conn'[q] \notin {"idle", "gone"} => Known(q)'
  BY <1>1, <1>3, <1>4 DEF ServiceInv, Known
<1> QED BY <1>1, <1>10, <1>11, Stepping DEF Abstract!Step

LEMMA SendIsAsk ==
  ASSUME Inv, Inv', ServiceInv, NEW p \in Peers, Send(p)
  PROVE  Abstract!Next
<1>1. /\ Up /\ Up' /\ conn[p] = "open" /\ sent' = [sent EXCEPT ![p] = @ + 1]
      /\ UNCHANGED <<pc, i, client, buffer, sock, conn, backlog, rcvd>>
  BY DEF Send, serverVars, loopVars, roundVars, dataVars, Up
<1>2. \A q \in Peers : SessionOf(q)' = SessionOf(q) /\ LeftOf(q)' = LeftOf(q)
  BY <1>1, SameSession DEF Same
<1>3. \A q \in Peers : AnsweredOf(q)' = AnsweredOf(q)
  BY <1>1 DEF AnsweredOf, Held
<1>4. SessionOf(p) \in {"waiting", "served"} /\ ~LeftOf(p)
  BY <1>1, SessionIs DEF ServiceInv, Known, LeftOf
<1>5. Abstract!Ask(p)
  BY <1>1, <1>2, <1>3, <1>4, ServiceAsks DEF Kept
<1> QED BY <1>1, <1>5, Stepping DEF Abstract!Step

LEMMA CloseIsLeave ==
  ASSUME Inv, Inv', ServiceInv, NEW p \in Peers, conn[p] = "open", Up,
         NEW c \in {"fin", "rst"}, conn' = [conn EXCEPT ![p] = c],
         UNCHANGED <<pc, i, client, buffer, sock, backlog, rcvd, sent>>
  PROVE  Abstract!Next
<1>1. conn'[p] = c /\ \A q \in Peers \ {p} : conn'[q] = conn[q]
  BY Places
<1>2. SessionOf(p) \in {"waiting", "served"} /\ ~LeftOf(p)
  BY SessionIs DEF ServiceInv, Known, LeftOf
<1>3. \A q \in Peers \ {p} :
        SessionOf(q)' = SessionOf(q) /\ LeftOf(q)' = LeftOf(q) /\ AnsweredOf(q)' = AnsweredOf(q)
  BY <1>1, SameSession DEF Same, AnsweredOf, Held
<1>4. SessionOf(p)' = SessionOf(p) /\ LeftOf(p)' /\ AnsweredOf(p)' = 0
  BY <1>1, SessionIs DEF LeftOf, AnsweredOf
<1>5. Abstract!Leave(p)
  BY <1>2, <1>3, <1>4, ServiceLeft
<1> QED BY <1>5, Stepping DEF Abstract!Step, Up

LEMMA ResetIsLeave ==
  ASSUME Inv, Inv', ServiceInv, NEW p \in Peers, Reset(p)
  PROVE  /\ UNCHANGED Abstract!vars \/ Abstract!Next
         /\ \A q \in Peers : conn'[q] \notin {"idle", "gone"} => Known(q)'
<1>1. /\ Up /\ Up' /\ conn[p] \in {"open", "answered"}
      /\ UNCHANGED <<pc, i, client, buffer, sock, sent, rcvd>>
  BY DEF Reset, serverVars, loopVars, roundVars, dataVars, Up
<1>2. CASE conn' = [conn EXCEPT ![p] = "rst"] /\ UNCHANGED backlog
  <2>1. \A q \in Peers : conn'[q] \notin {"idle", "gone"} => Known(q)'
    BY <1>1, <1>2, Places DEF ServiceInv, Known
  <2>2. CASE conn[p] = "open"
    BY <1>1, <1>2, <2>1, <2>2, CloseIsLeave
  <2>3. CASE conn[p] = "answered"
    <3>1. \A q \in Peers : /\ conn'[q] = "idle" <=> conn[q] = "idle"
                           /\ conn'[q] = "open" <=> conn[q] = "open"
      BY <1>2, <2>3, Places
    <3>2. \A q \in Peers : Held(q)' = Held(q)
      BY <1>1 DEF Held
    <3> QED BY <1>1, <1>2, <2>1, <3>1, <3>2, Quiet
  <2> QED BY <1>1, <2>2, <2>3
<1>3. ASSUME NEW k \in DOMAIN backlog, backlog[k] = p, backlog' = RemoveAt(backlog, k),
             conn' = [conn EXCEPT ![p] = "gone"]
      PROVE  /\ Abstract!Next
             /\ \A q \in Peers : conn'[q] \notin {"idle", "gone"} => Known(q)'
  <2>1. Among(p, backlog) /\ ~Behind(p, sock)
    BY <1>3, Places DEF Among
  <2>2. \A q \in Peers : Among(q, backlog') <=> q # p /\ Among(q, backlog)
    BY <1>3, Places, AmongRemoved
  <2>3. conn'[p] = "gone" /\ \A q \in Peers \ {p} : conn'[q] = conn[q]
    BY <1>3, Places
  <2>4. SessionOf(p) = "waiting" /\ SessionOf(p)' = "gone" /\ LeftOf(p)' /\ AnsweredOf(p)' = 0
    BY <1>1, <2>1, <2>2, <2>3, SessionIs DEF LeftOf, AnsweredOf
  <2>5. \A q \in Peers \ {p} : Kept(q)
    BY <1>1, <2>2, <2>3, SameSession DEF Same, AnsweredOf, Held, Kept
  <2>6. Abstract!Withdraw(p)
    BY <1>1, <2>4, <2>5, ServiceWithdrawn
  <2>7. \A q \in Peers : conn'[q] \notin {"idle", "gone"} => Known(q)'
    BY <1>1, <2>2, <2>3 DEF ServiceInv, Known
  <2> QED BY <1>1, <2>6, <2>7, Stepping DEF Abstract!Step
<1> QED BY <1>2, <1>3 DEF Reset

\* What accept() does to who is known.
LEMMA TakenKnown ==
  ASSUME Inv, ServiceInv, NEW fd \in ConnFds, TakeConnection(fd)
  PROVE  \A q \in Peers : conn'[q] \notin {"idle", "gone"} => Known(q)'
<1>1. PICK p \in Peers :
        /\ Behind(p, sock')
        /\ \A q \in Peers \ {p} : /\ conn'[q] = conn[q]
                                  /\ Among(q, backlog') <=> Among(q, backlog)
                                  /\ Behind(q, sock') <=> Behind(q, sock)
  BY Taken
<1> QED BY <1>1 DEF ServiceInv, Known

LEMMA EchoKnown ==
  ASSUME Inv, ServiceInv, EchoClient
  PROVE  \A q \in Peers : conn'[q] \notin {"idle", "gone"} => Known(q)'
<1>1. pc = "echo" /\ Up /\ i \in Slots /\ client[i] \in ConnFds
  BY DEF EchoClient, Inv, RoundShape, Up, Down
<1>2. sock[client[i]] \in Peers
  BY <1>1, SlotPeer DEF Inv
<1> PICK p \in Peers : p = sock[client[i]]
  BY <1>2
<1>3. UNCHANGED <<sock, backlog>> /\ \A q \in Peers \ {p} : conn'[q] = conn[q]
  BY Places DEF EchoClient, Delivered, Lost
<1>4. Behind(p, sock)
  BY <1>1 DEF Behind
<1> QED BY <1>3, <1>4 DEF ServiceInv, Known

LEMMA NothingSeen ==
  ASSUME ServiceInv, UNCHANGED <<pc, i, client, buffer, conn, sock, backlog, sent, rcvd>>
  PROVE  /\ UNCHANGED Abstract!vars
         /\ \A q \in Peers : conn'[q] \notin {"idle", "gone"} => Known(q)'
<1>1. \A q \in Peers : Held(q)' = Held(q)
  BY DEF Held
<1>2. UNCHANGED Abstract!vars
  BY <1>1, Quiet DEF Up
<1> QED BY <1>2 DEF ServiceInv, Known

\* A step of the server that neither accepts, answers nor lets go of a connection.
LEMMA ServerIsQuiet ==
  ASSUME Inv, Inv', ServiceInv,
         \/ Select \/ ScanfWord \/ ScanfRefill \/ ScanfEof
         \/ Broadcast \/ EndBroadcast \/ ReadClient \/ EndScan \/ (AcceptedNothing /\ Up')
  PROVE  /\ UNCHANGED Abstract!vars
         /\ \A q \in Peers : conn'[q] \notin {"idle", "gone"} => Known(q)'
<1> USE DEF loopVars, roundVars, dataVars, peerVars, ttyVars
<1>1. UNCHANGED <<sent, backlog, sock>> /\ Up /\ Up' /\ pc # "echo"
  BY DEF Select, ScanfWord, ScanfRefill, ScanfEof, Broadcast, EndBroadcast, ReadClient, EndScan,
         AcceptedNothing, CountDown, AfterAccept, Up, Down
<1>2. \A q \in Peers : Held(q) = <<>>
  BY <1>1, HeldOf
<1>3. CASE Broadcast
  <2>1. PICK j \in Slots : NextSlot(j, ConnFds) /\ Write(sock[client[j]], Word(lbuf))
    BY <1>3 DEF Broadcast
  <2>2. client[j] \in ConnFds /\ sock[client[j]] \in Peers
    BY <1>1, <2>1, SlotPeer DEF NextSlot, Inv
  <2> PICK p \in Peers : p = sock[client[j]]
    BY <2>2
  <2>3. Behind(p, sock) /\ conn[p] # "idle"
    BY <2>2, Places DEF Behind
  <2>4. \A q \in Peers : /\ conn'[q] = "idle" <=> conn[q] = "idle"
                         /\ conn'[q] = "open" <=> conn[q] = "open"
                         /\ conn'[q] = conn[q] \/ q = p
    BY <2>1, <2>3, Places DEF Write, Delivered, Lost
  <2>5. UNCHANGED rcvd /\ \A q \in Peers : Held(q)' = <<>>
    <3>1. pc' # "echo" /\ UNCHANGED rcvd
      BY <1>3 DEF Broadcast
    <3> QED BY <3>1, HeldOf
  <2>6. UNCHANGED Abstract!vars
    BY <1>1, <1>2, <2>4, <2>5, Quiet
  <2>7. \A q \in Peers : conn'[q] \notin {"idle", "gone"} => Known(q)'
    BY <1>1, <2>3, <2>4 DEF ServiceInv, Known
  <2> QED BY <2>6, <2>7
<1>4. CASE ReadClient
  <2>1. PICK j \in Slots, n \in 1 .. BUFSIZE :
          /\ NextSlot(j, rset)
          /\ buffer' = [k \in 1 .. n |-> rcvd[sock[client[j]]] + k]
          /\ rcvd' = [rcvd EXCEPT ![sock[client[j]]] = @ + n]
          /\ i' = j
    BY <1>4 DEF ReadClient
  <2>2. pc' = "echo" /\ UNCHANGED <<client, conn>>
    BY <1>4 DEF ReadClient
  <2>3. client[j] \in ConnFds /\ sock[client[j]] \in Peers
    <3>1. client[j] \in ConnFds
      BY <2>1, ConstantsAssumption DEF NextSlot, Inv, TypeOK, STDIN, serv_sock
    <3> QED BY <1>1, <3>1, SlotPeer DEF Inv
  <2> PICK p \in Peers : p = sock[client[j]]
    BY <2>3
  <2>4. Len(buffer') = n /\ n \in Nat
    BY <2>1
  <2>5. Held(p)' = buffer' /\ \A q \in Peers : q # p => Held(q)' = <<>>
    BY <1>1, <2>1, <2>2 DEF Held
  <2>6. rcvd'[p] = rcvd[p] + n /\ \A q \in Peers : q # p => rcvd'[q] = rcvd[q]
    BY <2>1 DEF Inv, TypeOK
  <2>7. \A q \in Peers : rcvd'[q] - Len(Held(q)') = rcvd[q] - Len(Held(q))
    <3>1. \A q \in Peers : rcvd[q] \in Nat
      BY Places
    <3>2. ASSUME NEW q \in Peers PROVE rcvd'[q] - Len(Held(q)') = rcvd[q] - Len(Held(q))
      <4>1. CASE q = p
        BY <1>2, <2>4, <2>5, <2>6, <3>1, <4>1
      <4>2. CASE q # p
        BY <1>2, <2>5, <2>6, <4>2
      <4> QED BY <4>1, <4>2
    <3> QED BY <3>2
  <2> QED BY <1>1, <2>2, <2>7, Quiet DEF ServiceInv, Known
<1>5. CASE \/ Select \/ ScanfWord \/ ScanfRefill \/ ScanfEof \/ EndBroadcast \/ EndScan
           \/ AcceptedNothing
  <2>1. UNCHANGED <<conn, rcvd>> /\ pc' # "echo"
    BY <1>5 DEF Select, ScanfWord, ScanfRefill, ScanfEof, EndBroadcast, EndScan, AcceptedNothing,
                CountDown, AfterAccept
  <2>2. \A q \in Peers : Held(q)' = <<>>
    BY <2>1, HeldOf
  <2> QED BY <1>1, <1>2, <2>1, <2>2, Quiet DEF ServiceInv, Known
<1> QED BY <1>3, <1>4, <1>5

\* The loop comes to its end.
LEMMA EndIsStop ==
  ASSUME Inv, Inv', ServiceInv, \/ TooManyClients \/ (AcceptedNothing /\ ~Up') \/ Ends
  PROVE  /\ Abstract!Next
         /\ \A q \in Peers : conn'[q] \notin {"idle", "gone"} => Known(q)'
<1> USE DEF loopVars, roundVars, dataVars, peerVars, ttyVars
<1>1. CASE TooManyClients
  <2>1. PICK fd \in ConnFds : TakeConnection(fd)
    BY <1>1 DEF TooManyClients
  <2>2. pc' # "echo" /\ Up /\ ~Up'
    BY <1>1, <2>1 DEF TooManyClients, TakeConnection, Up, Down
  <2>3. Abstract!Next
    BY <2>1, <2>2, Accepting, Stopping
  <2> QED BY <2>1, <2>3, TakenKnown
<1>2. CASE (AcceptedNothing /\ ~Up') \/ SelectFails \/ BadFdSet
  <2>1. /\ Up /\ ~Up' /\ pc # "echo" /\ pc' # "echo"
        /\ UNCHANGED <<sent, conn, rcvd, backlog, sock>>
    BY <1>2 DEF AcceptedNothing, SelectFails, BadFdSet, Up, Down
  <2>2. \A q \in Peers : Held(q) = <<>> /\ Held(q)' = <<>>
    BY <2>1, HeldOf
  <2> QED BY <2>1, <2>2, Ending DEF ServiceInv, Known
<1>3. CASE Killed
  <2>1. /\ Up /\ ~Up' /\ pc' = "killed" /\ UNCHANGED <<sent, conn, rcvd, backlog, sock>>
        /\ pc = "echo" => conn[sock[client[i]]] = "rst"
    BY <1>3 DEF Killed, Up, Down
  <2>2. \A q \in Peers : conn[q] = "open" => Held(q) = <<>>
    BY <2>1 DEF Held
  <2>3. \A q \in Peers : Held(q)' = <<>>
    BY <2>1, HeldOf
  <2> QED BY <2>1, <2>2, <2>3, Ending DEF ServiceInv, Known
<1> QED BY <1>1, <1>2, <1>3 DEF Ends

LEMMA NewIsAccept ==
  ASSUME Inv, Inv', ServiceInv, NewConnection
  PROVE  /\ Abstract!Next
         /\ \A q \in Peers : conn'[q] \notin {"idle", "gone"} => Known(q)'
<1>1. PICK fd \in ConnFds : TakeConnection(fd) /\ \E s \in Slots : Register(fd, s)
  BY DEF NewConnection
<1>2. pc' # "echo" /\ Up /\ Up'
  BY <1>1 DEF TakeConnection, Register, CountDown, AfterAccept, Up, Down
<1>3. PICK p \in Peers :
        /\ SessionOf(p) = "waiting" /\ SessionOf(p)' = "served"
        /\ \A q \in Peers \ {p} : SessionOf(q)' = SessionOf(q)
        /\ \A q \in Peers : LeftOf(q)' = LeftOf(q) /\ AnsweredOf(q)' = AnsweredOf(q)
        /\ UNCHANGED sent
  BY <1>1, <1>2, Accepting
<1>4. Abstract!Accept(p)
  BY <1>3, ServiceAccepts
<1> QED BY <1>1, <1>2, <1>4, Stepping, TakenKnown DEF Abstract!Step

\* Every step of the loop and its surroundings is one of the service, or none.
LEMMA ServiceStep ==
  ASSUME Inv, Inv', ServiceInv, [Next]_vars
  PROVE  /\ UNCHANGED Abstract!vars \/ Abstract!Next
         /\ \A q \in Peers : conn'[q] \notin {"idle", "gone"} => Known(q)'
<1> DEFINE Goal == /\ UNCHANGED Abstract!vars \/ Abstract!Next
                   /\ \A q \in Peers : conn'[q] \notin {"idle", "gone"} => Known(q)'
<1>1. CASE Failure \/ Server
  <2>1. CASE \/ Select \/ ScanfWord \/ ScanfRefill \/ ScanfEof
             \/ Broadcast \/ EndBroadcast \/ ReadClient \/ EndScan \/ (AcceptedNothing /\ Up')
    BY <2>1, ServerIsQuiet
  <2>2. CASE TooManyClients \/ (AcceptedNothing /\ ~Up') \/ Ends
    BY <2>2, EndIsStop
  <2>3. CASE NewConnection
    BY <2>3, NewIsAccept
  <2>4. CASE HangUp
    BY <2>4, HangUpIsDrop
  <2>5. CASE EchoClient
    <3>1. \A q \in Peers : conn'[q] \notin {"idle", "gone"} => Known(q)'
      BY <2>5, EchoKnown
    <3> QED BY <2>5, <3>1, EchoIsAnswer
  <2> QED BY <1>1, <2>1, <2>2, <2>3, <2>4, <2>5
    DEF Server, Failure, Ends, AcceptFails, AcceptAborted
<1>2. ASSUME NEW p \in Peers, Connect(p) \/ Send(p) \/ Receive(p) \/ CloseEnd(p) \/ Reset(p)
      PROVE  Goal
  <2>1. CASE Connect(p)
    BY <2>1, ConnectIsArrive
  <2>2. CASE Send(p)
    <3>1. UNCHANGED <<conn, sock, backlog>>
      BY <2>2 DEF Send, serverVars
    <3> QED BY <2>2, <3>1, SendIsAsk DEF ServiceInv, Known
  <2>3. CASE Receive(p)
    <3>1. UNCHANGED <<pc, i, client, buffer, conn, sock, backlog, sent, rcvd>>
      BY <2>3 DEF Receive, serverVars, loopVars, roundVars, dataVars
    <3> QED BY <3>1, NothingSeen
  <2>4. CASE CloseEnd(p)
    <3>1. /\ Up /\ conn[p] = "open" /\ conn' = [conn EXCEPT ![p] = "fin"]
          /\ UNCHANGED <<pc, i, client, buffer, sock, backlog, rcvd, sent>>
      BY <2>4 DEF CloseEnd, serverVars, loopVars, roundVars, dataVars
    <3>2. Abstract!Next
      BY <3>1, CloseIsLeave
    <3>3. \A q \in Peers : conn'[q] \notin {"idle", "gone"} => Known(q)'
      BY <3>1, Places DEF ServiceInv, Known
    <3> QED BY <3>2, <3>3
  <2>5. CASE Reset(p)
    BY <2>5, ResetIsLeave
  <2> QED BY <1>2, <2>1, <2>2, <2>3, <2>4, <2>5
<1>3. CASE (\E line \in Lines : Type(line)) \/ CloseTerminal \/ UNCHANGED vars
  <2>1. UNCHANGED <<pc, i, client, buffer, conn, sock, backlog, sent, rcvd>>
    BY <1>3 DEF Type, CloseTerminal, vars, serverVars, loopVars, roundVars, dataVars, peerVars
  <2> QED BY <2>1, NothingSeen
<1> QED BY <1>1, <1>2, <1>3 DEF Next, Environment

LEMMA ServiceKept ==
  ASSUME Inv, Inv', ServiceInv, [Next]_vars
  PROVE  ServiceInv'
<1>1. EchoInv'
  BY EchoStep DEF ServiceInv
<1>2. \A q \in Peers : conn'[q] \notin {"idle", "gone"} => Known(q)'
  BY ServiceStep
<1>3. \A q \in Peers : rcvd'[q] <= sent'[q]
  <2>1. \A q \in Peers : rcvd[q] <= sent[q] /\ rcvd[q] \in Nat /\ sent[q] \in Nat
    BY Places DEF ServiceInv
  <2>2. CASE ReadClient
    <3>1. PICK j \in Slots, n \in 1 .. BUFSIZE :
            /\ rcvd[sock[client[j]]] + n <= sent[sock[client[j]]]
            /\ rcvd' = [rcvd EXCEPT ![sock[client[j]]] = @ + n]
      BY <2>2 DEF ReadClient
    <3>2. UNCHANGED sent
      BY <2>2 DEF ReadClient, peerVars
    <3> QED BY <2>1, <3>1, <3>2 DEF Inv, TypeOK
  <2>3. ASSUME NEW p \in Peers, Send(p), NEW q \in Peers PROVE rcvd'[q] <= sent'[q]
    <3>1. sent' = [sent EXCEPT ![p] = @ + 1] /\ UNCHANGED rcvd
      BY <2>3 DEF Send
    <3>2. sent'[q] = sent[q] \/ sent'[q] = sent[q] + 1
      BY <3>1 DEF Inv, TypeOK
    <3> QED BY <2>1, <3>1, <3>2
  <2>4. CASE UNCHANGED <<rcvd, sent>>
    BY <2>1, <2>4
  <2>5. CASE Server /\ ~ReadClient
    <3>1. UNCHANGED <<rcvd, sent>>
      BY <2>5 DEF Server, Select, NewConnection, TooManyClients, AcceptFails, AcceptedNothing, TakeConnection,
                  ScanfWord, ScanfRefill, ScanfEof, Broadcast, EndBroadcast, EchoClient, HangUp,
                  EndScan, peerVars
    <3> QED BY <2>4, <3>1
  <2>6. CASE Failure \/ UNCHANGED vars
    <3>1. UNCHANGED <<rcvd, sent>>
      BY <2>6 DEF Failure, SelectFails, AcceptAborted, AcceptedNothing, BadFdSet, Killed,
                  peerVars, vars
    <3> QED BY <2>4, <3>1
  <2>7. CASE Environment /\ ~\E p \in Peers : Send(p)
    <3>1. UNCHANGED <<rcvd, sent>>
      BY <2>7 DEF Environment, Connect, Receive, CloseEnd, Reset, Type, CloseTerminal, peerVars
    <3> QED BY <2>4, <3>1
  <2> QED BY <2>2, <2>3, <2>5, <2>6, <2>7 DEF Next
<1> QED BY <1>1, <1>2, <1>3 DEF ServiceInv

LEMMA ServiceBegins == Init => ServiceInv /\ Abstract!Init
<1> SUFFICES ASSUME Init PROVE ServiceInv /\ Abstract!Init
  OBVIOUS
<1>1. \A p \in Peers : conn[p] = "idle" /\ rcvd[p] = 0 /\ got[p] = 0 /\ sent[p] = 0
                       /\ outq[p] = <<>>
  BY DEF Init
<1>2. ServiceInv
  BY <1>1 DEF ServiceInv, EchoInv, EchoExact, Untouched
<1>3. \A p \in Peers : SessionOf(p) = "idle" /\ LeftOf(p) = FALSE /\ AnsweredOf(p) = 0
  BY <1>1 DEF SessionOf, LeftOf, AnsweredOf
<1>4. Up /\ sent = [p \in Peers |-> 0]
  BY DEF Init, Up, Down
<1> QED BY <1>2, <1>3, <1>4 DEF Abstract!Init

\* The loop is an implementation of the echo service of EchoService.tla, for any number of
\* peers, slots and descriptors, also when accept() or select() fails, the table is full,
\* peers reset their connections or SIGPIPE ends the process (server.h:97-248).
THEOREM Implementation == Spec => EchoService
<1>1. Init => ServiceInv /\ Abstract!Init
  BY ServiceBegins
<1>2. Inv /\ Inv' /\ ServiceInv /\ [Next]_vars => ServiceInv'
  BY ServiceKept
<1>3. Inv /\ Inv' /\ ServiceInv /\ [Next]_vars => [Abstract!Next]_(Abstract!vars)
  BY ServiceStep
<1> QED BY <1>1, <1>2, <1>3, Invariance, PTL DEF Spec, EchoService, Abstract!Spec
=============================================================================
