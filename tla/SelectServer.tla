---------------------------- MODULE SelectServer ----------------------------
(***************************************************************************)
(* The TCP server of cpp_src/server.h, server_run_select(): one process,   *)
(* one select() loop over its terminal, its listening socket and every     *)
(* connected client.  Each round accepts at most one connection, hands one *)
(* word typed on the terminal to every client, and echoes (in upper case)  *)
(* what the readable clients sent.                                         *)
(*                                                                         *)
(* The variables of the first group are the locals of the function, under  *)
(* their names.  The second group is the kernel's side of the sockets and  *)
(* of the terminal, modelled from how the function uses it.  A connection  *)
(* is named by its peer (the address accept() reports); bytes are numbered *)
(* per peer, so upper-casing a byte is wrapping its number in an Echo.     *)
(***************************************************************************)
EXTENDS Integers, Sequences, FiniteSets, SequencesExt

CONSTANTS
  Peers,        \* the clients that may connect, each of them once
  None,         \* no peer
  Junk,         \* what an uninitialised char array holds
  FD_SETSIZE,   \* number of slots in client[] and of bits in an fd_set
  OPEN_MAX,     \* descriptors the process may have open
  BACKLOG,      \* second argument of listen(), 20 in the code
  BUFSIZE,      \* sizeof(buffer), 40 in the code
  SNDBUF,       \* items a connection holds before write() blocks
  Words,        \* words the operator may type
  Lines,        \* the lines he may type: sequences of words
  MaxMsgs,      \* bound: bytes a peer sends
  MaxLines,     \* bound: lines the operator types
  MayHangUp     \* bound: whether the operator may close the terminal

STDIN     == 0
serv_sock == 3          \* the first descriptor socket() can return
ConnFds   == (serv_sock + 1) .. (OPEN_MAX - 1)
Slots     == 0 .. (FD_SETSIZE - 1)

ASSUME ConstantsAssumption ==
  /\ FD_SETSIZE \in Nat /\ FD_SETSIZE > serv_sock
  /\ OPEN_MAX \in Nat /\ OPEN_MAX > serv_sock
  /\ BACKLOG \in Nat \ {0} /\ BUFSIZE \in Nat \ {0} /\ SNDBUF \in Nat \ {0}
  /\ MaxMsgs \in Nat /\ MaxLines \in Nat /\ Lines \subseteq Seq(Words)
  /\ MayHangUp \in BOOLEAN
  /\ None \notin Peers

VARIABLES
  pc,         \* where the loop is: "select", "accept", "scanf", "broadcast",
              \* "scan", "echo", or how it ended (Down)
  i,          \* index of the loops over client[]
  client,     \* slot -> descriptor, -1 if free
  maxi,       \* largest slot ever used
  maxfd,      \* first argument of select(), minus one
  allset,     \* descriptors to watch
  rset,       \* descriptors select() found readable
  nready,     \* readable descriptors not yet dealt with
  clnt_addr,  \* address filled in by the last accept()
  lbuf,       \* word scanf() read last
  buffer      \* bytes read from client[i] and not yet echoed

VARIABLES
  backlog,    \* established connections accept() has not taken
  sock,       \* connection descriptor -> its peer, None if not open
  conn,       \* state of each peer's connection, see ConnStates
  sent,       \* bytes the peer has sent
  rcvd,       \* bytes the server has read of them
  outq,       \* what the server wrote and the peer has not read
  got,        \* echoes the peer has read
  typed,      \* lines typed so far
  tty,        \* lines the terminal holds for read()
  stdio,      \* words in the buffer of FILE *stdin
  eof         \* the terminal is at end of file

loopVars  == <<client, maxi, maxfd, allset>>
roundVars == <<rset, nready, i>>
dataVars  == <<clnt_addr, lbuf, buffer>>
peerVars  == <<backlog, conn, sent, got>>
ttyVars   == <<typed, tty, stdio, eof>>
vars == <<pc, loopVars, roundVars, dataVars, peerVars, sock, rcvd, outq, ttyVars>>

Down == {"exited",    \* exit(1): too many clients
         "returned",  \* select() failed
         "killed"}    \* SIGPIPE, or FD_SET outside the fd_set

Up == pc \notin Down

\* "fin": the peer closed its end.  "answered": the server has written to it
\* since, so that a reset is on its way.  "rst": the reset has arrived.
ConnStates == {"idle", "open", "fin", "answered", "rst", "gone"}

Hello     == [kind |-> "hello"]
Word(w)   == [kind |-> "word", word |-> w]
Echo(p, k) == [kind |-> "echo", from |-> p, tok |-> k]
IsEcho(m) == m.kind = "echo"
Items     == [kind : {"hello"}]
             \union [kind : {"word"}, word : Words \union {Junk}]
             \union [kind : {"echo"}, from : Peers, tok : Nat]

\* Mutants: the table's bounds are never raised, or one too far.
LargerNever(a, b) == a
LargerByOne(a, b) == IF a > b THEN a ELSE b + 1

Larger(a, b) == IF a > b THEN a ELSE b

Init ==
  /\ pc = "select" /\ i = 0
  /\ client = [s \in Slots |-> -1]
  /\ maxi = -1 /\ maxfd = serv_sock
  /\ allset = {STDIN, serv_sock} /\ rset = {} /\ nready = 0
  /\ clnt_addr = None /\ lbuf = Junk /\ buffer = <<>>
  /\ backlog = <<>>
  /\ sock = [fd \in ConnFds |-> None]
  /\ conn = [p \in Peers |-> "idle"]
  /\ sent = [p \in Peers |-> 0] /\ rcvd = [p \in Peers |-> 0]
  /\ outq = [p \in Peers |-> <<>>] /\ got = [p \in Peers |-> 0]
  /\ typed = 0 /\ tty = <<>> /\ stdio = <<>> /\ eof = FALSE
-----------------------------------------------------------------------------
(* The kernel as the loop sees it.                                         *)

Readable(fd) ==
  \/ fd = STDIN /\ (tty # <<>> \/ eof)
  \/ fd = serv_sock /\ backlog # <<>>
  \/ /\ fd \in ConnFds /\ sock[fd] # None
     /\ rcvd[sock[fd]] < sent[sock[fd]] \/ conn[sock[fd]] # "open"

LowestFree(fd) ==
  /\ sock[fd] = None
  /\ \A g \in ConnFds : g < fd => sock[g] # None

NoFreeFd == \A fd \in ConnFds : sock[fd] # None

\* Mutant: write() does not block, what a full connection does not take is lost.
DeliveredLossy(p, item) ==
  /\ conn[p] = "open"
  /\ outq' = IF Len(outq[p]) < SNDBUF THEN [outq EXCEPT ![p] = Append(@, item)] ELSE outq
  /\ UNCHANGED conn

\* write() to a live connection blocks while the connection is full.
Delivered(p, item) ==
  /\ conn[p] = "open"
  /\ Len(outq[p]) < SNDBUF
  /\ outq' = [outq EXCEPT ![p] = Append(@, item)]
  /\ UNCHANGED conn

\* write() to a peer that is gone reaches nobody.  After a reset it returns -1,
\* which the code ignores everywhere, or raises SIGPIPE (see Killed).
Lost(p) ==
  /\ conn[p] # "open"
  /\ conn' = IF conn[p] = "rst" THEN conn ELSE [conn EXCEPT ![p] = "answered"]
  /\ UNCHANGED outq

Write(p, item) == Delivered(p, item) \/ Lost(p)
-----------------------------------------------------------------------------
(* One round of the loop.                                                  *)

\* Which phase follows the listening socket's.
AfterAccept(ready) == IF STDIN \in ready THEN "scanf" ELSE "scan"

\* Mutant: nready is counted down twice per descriptor.
CountDownTwice(next) ==
  /\ nready' = nready - 2
  /\ pc' = IF nready <= 2 THEN "select" ELSE next

\* if (--nready == 0) the round ends, otherwise it goes on with next.
CountDown(next) ==
  /\ nready' = nready - 1
  /\ pc' = IF nready = 1 THEN "select" ELSE next

\* The slot the scans of client[] from i to maxi visit next, for descriptors
\* in S; NoSlot when the scan is over.
NextSlot(j, S) ==
  /\ i <= j /\ j <= maxi /\ client[j] \in S
  /\ \A k \in Slots : i <= k /\ k < j => client[k] \notin S

NoSlot(S) == \A k \in Slots : i <= k /\ k <= maxi => client[k] \notin S

Select ==
  /\ pc = "select"
  /\ LET ready == {fd \in allset : fd <= maxfd /\ Readable(fd)}
     IN  /\ ready # {}
         /\ rset' = ready
         /\ nready' = Cardinality(ready)
         /\ pc' = IF serv_sock \in ready THEN "accept" ELSE AfterAccept(ready)
  /\ i' = 0
  /\ UNCHANGED <<loopVars, dataVars, peerVars, sock, rcvd, outq, ttyVars>>

\* select() returns -1, for instance EINTR after the process was stopped.
SelectFails ==
  /\ pc = "select"
  /\ pc' = "returned"
  /\ UNCHANGED <<loopVars, roundVars, dataVars, peerVars, sock, rcvd, outq, ttyVars>>

FirstFree(s) ==
  /\ client[s] < 0
  /\ \A t \in Slots : t < s => client[t] >= 0

\* Mutant: the search for a free slot starts behind the last one used.
AllTakenBehind == maxi = FD_SETSIZE - 1

AllTaken == \A s \in Slots : client[s] >= 0

\* Mutant: the new descriptor is set in rset, the answer of this round's select().
TakeConnectionReady(fd) ==
  /\ pc = "accept" /\ backlog # <<>> /\ LowestFree(fd)
  /\ backlog' = Tail(backlog)
  /\ sock' = [sock EXCEPT ![fd] = Head(backlog)]
  /\ clnt_addr' = Head(backlog)
  /\ Write(Head(backlog), Hello)
  /\ rset' = rset \union {fd}
  /\ UNCHANGED <<i, lbuf, buffer, sent, rcvd, got, ttyVars>>

\* accept() and the greeting.
TakeConnection(fd) ==
  /\ pc = "accept" /\ backlog # <<>> /\ LowestFree(fd)
  /\ backlog' = Tail(backlog)
  /\ sock' = [sock EXCEPT ![fd] = Head(backlog)]
  /\ clnt_addr' = Head(backlog)
  /\ Write(Head(backlog), Hello)
  /\ UNCHANGED <<i, rset, lbuf, buffer, sent, rcvd, got, ttyVars>>

\* The connection is entered in the table.  FD_SET of a descriptor beyond the
\* fd_set is undefined: the bit lands elsewhere, or (BadFdSet) the process dies.
Register(fd, s) ==
  /\ FirstFree(s)
  /\ client' = [client EXCEPT ![s] = fd]
  /\ allset' = IF fd < FD_SETSIZE THEN allset \union {fd} ELSE allset
  /\ maxfd' = Larger(maxfd, fd)
  /\ maxi' = Larger(maxi, s)
  /\ CountDown(AfterAccept(rset))

NewConnection ==
  \E fd \in ConnFds, s \in Slots : TakeConnection(fd) /\ Register(fd, s)

TooManyClients ==
  /\ AllTaken
  /\ \E fd \in ConnFds : TakeConnection(fd)
  /\ pc' = "exited"
  /\ UNCHANGED <<loopVars, nready>>

\* The round goes on with connfd == -1: the slot is "filled" with -1, FD_SET(-1) is
\* undefined.
AcceptedNothing ==
  /\ pc = "accept"
  /\ \/ \E s \in Slots :
          /\ FirstFree(s)
          /\ maxi' = Larger(maxi, s)
          /\ CountDown(AfterAccept(rset))
     \/ AllTaken /\ pc' = "exited" /\ UNCHANGED <<maxi, nready>>
  /\ UNCHANGED <<i, client, maxfd, allset, rset, dataVars, peerVars, sock, rcvd,
                 outq, ttyVars>>

\* accept() returns -1: the process or the whole system has no descriptor left
\* (EMFILE, ENFILE).  The connection stays in the backlog.
AcceptFails == backlog # <<>> /\ AcceptedNothing

\* A reset emptied the backlog: accept() may return -1 (ECONNABORTED), or block
\* until somebody else connects.
AcceptAborted == backlog = <<>> /\ AcceptedNothing

\* FD_SET of -1 or of a descriptor beyond the fd_set kills the process.
BadFdSet ==
  /\ pc = "accept" /\ ~AllTaken
  /\ pc' = "killed"
  /\ UNCHANGED <<loopVars, roundVars, dataVars, peerVars, sock, rcvd, outq, ttyVars>>

\* scanf("%s") takes a word from the stdio buffer, or refills the buffer with the
\* next line; on an empty terminal it blocks, and the server with it.
ScanfWord ==
  /\ pc = "scanf" /\ stdio # <<>>
  /\ lbuf' = Head(stdio)
  /\ stdio' = Tail(stdio)
  /\ pc' = "broadcast" /\ i' = 0
  /\ UNCHANGED <<loopVars, rset, nready, clnt_addr, buffer, peerVars, sock, rcvd,
                 outq, typed, tty, eof>>

ScanfRefill ==
  /\ pc = "scanf" /\ stdio = <<>> /\ tty # <<>>
  /\ stdio' = Head(tty)
  /\ tty' = Tail(tty)
  /\ UNCHANGED <<pc, loopVars, roundVars, dataVars, peerVars, sock, rcvd, outq,
                 typed, eof>>

\* At end of file scanf() stores nothing and the code does not look at its
\* result: lbuf is the stack slot of the last round, or has been overwritten.
ScanfEof ==
  /\ pc = "scanf" /\ stdio = <<>> /\ tty = <<>> /\ eof
  /\ lbuf' \in {lbuf, Junk}
  /\ pc' = "broadcast" /\ i' = 0
  /\ UNCHANGED <<loopVars, rset, nready, clnt_addr, buffer, peerVars, sock, rcvd,
                 outq, ttyVars>>

Broadcast ==
  /\ pc = "broadcast"
  /\ \E j \in Slots :
       /\ NextSlot(j, ConnFds)
       /\ Write(sock[client[j]], Word(lbuf))
       /\ i' = j + 1
  /\ UNCHANGED <<pc, loopVars, rset, nready, dataVars, backlog, sent, got, sock,
                 rcvd, ttyVars>>

EndBroadcast ==
  /\ pc = "broadcast" /\ NoSlot(ConnFds)
  /\ pc' = "scan" /\ i' = 0
  /\ UNCHANGED <<loopVars, rset, nready, dataVars, peerVars, sock, rcvd, outq, ttyVars>>

\* read() of n bytes from the next readable client.
ReadClient ==
  /\ pc = "scan"
  /\ \E j \in Slots, n \in 1 .. BUFSIZE :
       LET p == sock[client[j]]
       IN  /\ NextSlot(j, rset)
           /\ rcvd[p] + n <= sent[p]
           /\ buffer' = [k \in 1 .. n |-> rcvd[p] + k]
           /\ rcvd' = [rcvd EXCEPT ![p] = @ + n]
           /\ i' = j
  /\ pc' = "echo"
  /\ UNCHANGED <<loopVars, rset, nready, clnt_addr, lbuf, peerVars, sock, outq, ttyVars>>

\* write(sockfd, buffer, n), a byte at a time: it blocks on a full connection
\* with part of the buffer written.
EchoClient ==
  /\ pc = "echo"
  /\ LET p == sock[client[i]]
     IN  \/ Delivered(p, Echo(p, Head(buffer))) /\ buffer' = Tail(buffer)
         \/ Lost(p) /\ buffer' = <<>>
  /\ IF buffer' = <<>> THEN CountDown("scan") /\ i' = i + 1
                       ELSE UNCHANGED <<pc, nready, i>>
  /\ UNCHANGED <<loopVars, rset, clnt_addr, lbuf, backlog, sent, got, sock, rcvd, ttyVars>>

\* Mutant: a short read is taken for the end.
AtEndShort(p) == conn[p] = "rst" \/ sent[p] - rcvd[p] < BUFSIZE

\* read() returns 0, or -1 after a reset.
AtEnd(p) == conn[p] = "rst" \/ (conn[p] # "open" /\ rcvd[p] = sent[p])

CloseSocket(fd) ==
  /\ sock' = [sock EXCEPT ![fd] = None]
  /\ conn' = [conn EXCEPT ![sock[fd]] = "gone"]

\* Mutant: the bit in allset outlives the socket.
CloseSlotKeepsBit(j) ==
  /\ CloseSocket(client[j])
  /\ client' = [client EXCEPT ![j] = -1]
  /\ UNCHANGED allset

CloseSlot(j) ==
  /\ CloseSocket(client[j])
  /\ allset' = allset \ {client[j]}
  /\ client' = [client EXCEPT ![j] = -1]

HangUp ==
  /\ pc = "scan"
  /\ \E j \in Slots :
       /\ NextSlot(j, rset)
       /\ AtEnd(sock[client[j]])
       /\ CloseSlot(j)
       /\ i' = j + 1
  /\ CountDown("scan")
  /\ UNCHANGED <<maxi, maxfd, rset, dataVars, backlog, sent, got, rcvd, outq, ttyVars>>

EndScan ==
  /\ pc = "scan" /\ NoSlot(rset)
  /\ pc' = "select"
  /\ UNCHANGED <<loopVars, roundVars, dataVars, peerVars, sock, rcvd, outq, ttyVars>>

\* The process does not handle SIGPIPE: a write after a reset may end it.
Killed ==
  /\ \/ /\ pc = "accept" /\ backlog # <<>> /\ ~NoFreeFd
        /\ conn[Head(backlog)] = "rst"
     \/ /\ pc = "broadcast"
        /\ \E j \in Slots : NextSlot(j, ConnFds) /\ conn[sock[client[j]]] = "rst"
     \/ pc = "echo" /\ conn[sock[client[i]]] = "rst"
  /\ pc' = "killed"
  /\ UNCHANGED <<loopVars, roundVars, dataVars, peerVars, sock, rcvd, outq, ttyVars>>

Server ==
  \/ Select \/ NewConnection \/ TooManyClients \/ AcceptFails
  \/ ScanfWord \/ ScanfRefill \/ ScanfEof \/ Broadcast \/ EndBroadcast
  \/ ReadClient \/ EchoClient \/ HangUp \/ EndScan

Failure == SelectFails \/ AcceptAborted \/ BadFdSet \/ Killed
-----------------------------------------------------------------------------
(* The peers and the operator.                                             *)

serverVars == <<pc, loopVars, roundVars, dataVars, sock>>

Connect(p) ==
  /\ Up /\ conn[p] = "idle" /\ Len(backlog) < BACKLOG
  /\ conn' = [conn EXCEPT ![p] = "open"]
  /\ backlog' = Append(backlog, p)
  /\ UNCHANGED <<serverVars, sent, got, rcvd, outq, ttyVars>>

Send(p) ==
  /\ Up /\ conn[p] = "open" /\ sent[p] < MaxMsgs
  /\ sent' = [sent EXCEPT ![p] = @ + 1]
  /\ UNCHANGED <<serverVars, backlog, conn, got, rcvd, outq, ttyVars>>

Receive(p) ==
  /\ Up /\ conn[p] = "open" /\ outq[p] # <<>>
  /\ outq' = [outq EXCEPT ![p] = Tail(@)]
  /\ got' = IF IsEcho(Head(outq[p])) THEN [got EXCEPT ![p] = @ + 1] ELSE got
  /\ UNCHANGED <<serverVars, backlog, conn, sent, rcvd, ttyVars>>

CloseEnd(p) ==
  /\ Up /\ conn[p] = "open"
  /\ conn' = [conn EXCEPT ![p] = "fin"]
  /\ UNCHANGED <<serverVars, backlog, sent, got, rcvd, outq, ttyVars>>

\* A connection reset before accept() stays in the backlog on Linux and leaves
\* it on BSD and macOS.
Reset(p) ==
  /\ Up /\ conn[p] \in {"open", "answered"}
  /\ \/ /\ conn' = [conn EXCEPT ![p] = "rst"]
        /\ UNCHANGED backlog
     \/ /\ \E k \in DOMAIN backlog : backlog[k] = p /\ backlog' = RemoveAt(backlog, k)
        /\ conn' = [conn EXCEPT ![p] = "gone"]
  /\ UNCHANGED <<serverVars, sent, got, rcvd, outq, ttyVars>>

Type(line) ==
  /\ Up /\ ~eof /\ typed < MaxLines
  /\ typed' = typed + 1
  /\ tty' = Append(tty, line)
  /\ UNCHANGED <<serverVars, peerVars, rcvd, outq, stdio, eof>>

CloseTerminal ==
  /\ Up /\ ~eof /\ MayHangUp
  /\ eof' = TRUE
  /\ UNCHANGED <<serverVars, peerVars, rcvd, outq, typed, tty, stdio>>

Environment ==
  \/ \E p \in Peers : Connect(p) \/ Send(p) \/ Receive(p) \/ CloseEnd(p) \/ Reset(p)
  \/ \E line \in Lines : Type(line)
  \/ CloseTerminal

Next == Server \/ Failure \/ Environment

\* The scheduler runs the process while it has something to do; nothing is
\* assumed of peers and operator.
Spec == Init /\ [][Next]_vars /\ WF_vars(Server)
-----------------------------------------------------------------------------
(* Properties.                                                             *)

\* Every variable stays in its range.
TypeOK ==
  /\ pc \in {"select", "accept", "scanf", "broadcast", "scan", "echo"} \union Down
  /\ i \in 0 .. FD_SETSIZE
  /\ client \in [Slots -> ConnFds \union {-1}]
  /\ maxi \in Slots \union {-1}
  /\ maxfd \in {serv_sock} \union ConnFds
  /\ allset \subseteq {STDIN, serv_sock} \union ConnFds
  /\ rset \subseteq {STDIN, serv_sock} \union ConnFds
  /\ nready \in Int
  /\ clnt_addr \in Peers \union {None}
  /\ lbuf \in Words \union {Junk}
  /\ buffer \in Seq(Nat)
  /\ backlog \in Seq(Peers)
  /\ sock \in [ConnFds -> Peers \union {None}]
  /\ conn \in [Peers -> ConnStates]
  /\ sent \in [Peers -> Nat] /\ rcvd \in [Peers -> Nat] /\ got \in [Peers -> Nat]
  /\ outq \in [Peers -> Seq(Items)]
  /\ typed \in 0 .. MaxLines
  /\ tty \in Seq(Lines) /\ stdio \in Seq(Words)
  /\ eof \in BOOLEAN

\* The bookkeeping of server_run_select agrees with the open sockets between any
\* two steps: every open connection is in exactly one slot, within the range the
\* scans visit, watched by select() if an fd_set can hold it, and nothing else
\* is watched.
TableConsistent ==
  Up =>
    /\ \A s, t \in Slots : client[s] = client[t] /\ client[s] # -1 => s = t
    /\ \A fd \in ConnFds : sock[fd] # None <=> \E s \in Slots : client[s] = fd
    /\ \A s \in Slots : client[s] # -1 => s <= maxi /\ client[s] <= maxfd
    /\ \A fd \in ConnFds : sock[fd] # None /\ fd < FD_SETSIZE <=> fd \in allset
    /\ {STDIN, serv_sock} \subseteq allset

\* The answer of select() is still true when it is used: the scan reads only
\* from descriptors that have something to read, so that no client can block
\* the server in read(), even when its descriptor was closed and given to
\* another connection between the answer and its use.
NoBlockingRead ==
  pc = "scan" =>
    \A s \in Slots : i <= s /\ s <= maxi /\ client[s] \in rset => Readable(client[s])

\* The descriptors select() reported and the round has not dealt with.  STDIN
\* stays among them: the code does not count it down.
InRound == pc \in {"accept", "scanf", "broadcast", "scan", "echo"}

Unserved ==
  IF pc = "accept" THEN rset
  ELSE IF pc \in {"scanf", "broadcast"} THEN rset \ {serv_sock}
  ELSE {fd \in rset : fd = STDIN \/ \E s \in Slots : i <= s /\ s <= maxi /\ client[s] = fd}

\* nready is exactly the number of reported descriptors the round has still to
\* serve, although connections are accepted, closed and re-registered meanwhile.
ReadyCount == InRound => nready = Cardinality(Unserved)

\* A round ends, by --nready or by the end of the scan, only when every
\* descriptor select() reported has been served.
RoundEnds == pc \in {"accept", "scan", "echo"} /\ pc' = "select"

NothingLeft ==
  /\ \A s \in Slots : i' <= s => client'[s] \notin rset
  /\ pc = "accept" => STDIN \notin rset

RoundComplete == [][RoundEnds => NothingLeft]_vars

\* The bytes of p the server has read and not echoed.
Held(p) == IF pc = "echo" /\ sock[client[i]] = p THEN buffer ELSE <<>>

\* How many of the first n items of a connection's queue are echoes.
Echoes(q, n) == Cardinality({k \in 1 .. n : IsEcho(q[k])})

\* What p has read, what is on its way to p, and what the server holds are the bytes
\* read from p, in this order: each has the number of those before it, plus one.
InStep(p) ==
  /\ rcvd[p] = got[p] + Echoes(outq[p], Len(outq[p])) + Len(Held(p))
  /\ \A n \in DOMAIN outq[p] :
       IsEcho(outq[p][n]) => outq[p][n] = Echo(p, got[p] + Echoes(outq[p], n))
  /\ \A n \in DOMAIN Held(p) :
       Held(p)[n] = got[p] + Echoes(outq[p], Len(outq[p])) + n

\* Every byte the server has read from a live connection is echoed to it, and to
\* it alone, exactly once and in order, however accepts, hang-ups, broadcasts
\* and the reuse of descriptors interleave.
EchoExact == Up => \A p \in Peers : conn[p] = "open" => InStep(p)

\* A peer's session: in the backlog it waits, behind a descriptor it is served.
SessionOf(p) ==
  IF conn[p] = "idle" THEN "idle"
  ELSE IF \E k \in DOMAIN backlog : backlog[k] = p THEN "waiting"
  ELSE IF \E fd \in ConnFds : sock[fd] = p THEN "served"
  ELSE "gone"

LeftOf(p) == conn[p] \notin {"idle", "open"}

AnsweredOf(p) == IF conn[p] = "open" THEN rcvd[p] - Len(Held(p)) ELSE 0

\* The loop implements the service of EchoService.tla: it accepts a session once,
\* answers no byte it was not sent, drops no session whose peer is still there,
\* and no step answers or ends two of them.
Abstract == INSTANCE EchoService WITH
  session  <- [p \in Peers |-> SessionOf(p)],
  left     <- [p \in Peers |-> LeftOf(p)],
  asked    <- sent,
  answered <- [p \in Peers |-> AnsweredOf(p)],
  stopped  <- ~Up

EchoService == Abstract!Spec

\* With no more descriptors than slots, the "too many clients" exit is never
\* taken: descriptors run out before client[] does.
NeverTooMany == OPEN_MAX <= FD_SETSIZE => pc # "exited"

\* The server gives up (server.h:187) only on a connection that comes when as many
\* clients as there are slots are connected: whatever leaves, and in which order,
\* a slot becomes free for each descriptor that is closed.
ConnectedFds == {fd \in ConnFds : sock[fd] # None}

ExitsWhenFull ==
  [][pc' = "exited" => pc = "exited" \/ Cardinality(ConnectedFds) = FD_SETSIZE]_vars

\* The places in which the single thread can be held up by somebody else.
HeldUp ==
  \/ pc = "accept" /\ backlog = <<>>
  \/ pc = "scanf" /\ stdio = <<>> /\ tty = <<>> /\ ~eof
  \/ /\ pc = "broadcast"
     /\ \E s \in Slots : NextSlot(s, ConnFds) /\ Len(outq[sock[client[s]]]) = SNDBUF
  \/ pc = "echo" /\ Len(outq[sock[client[i]]]) = SNDBUF

\* Unless the server is held up in accept(), scanf() or write() for ever, bytes
\* from a registered client are read in the end, or its connection goes down, or
\* the process ends: no order of events makes the scan miss a client for ever.
Served(p) ==
  (\E fd \in ConnFds : sock[fd] = p) /\ conn[p] = "open" /\ rcvd[p] < sent[p]
    ~> rcvd[p] = sent[p] \/ conn[p] # "open" \/ ~Up

EveryClientServed == []<>~HeldUp => \A p \in Peers : Served(p)

\* server.h:229 and 222 print "received from <address>" and "closed from
\* <address>"; the address printed, clnt_addr, is the peer concerned.
PrintedAddress == pc = "echo" => clnt_addr = sock[client[i]]
=============================================================================
