----------------------------- MODULE ThreadServer -----------------------------
(***************************************************************************)
(* tcp-ip-review/multithread_server.cpp and its client.  The main thread   *)
(* accepts a connection, fills in the struct From of this turn of its loop *)
(* and starts a thread with the address of that struct; the next turn's    *)
(* struct is at the same place.  The thread copies the two fields, answers *)
(* one message, and spins for ever.                                        *)
(***************************************************************************)
EXTENDS Integers, FiniteSets

CONSTANTS
  Peers,       \* clients
  Threads,     \* threads the process may have besides main()
  Sockets,     \* descriptors the process may have besides the standard ones and s
  None,        \* no peer
  Failures     \* accept() and pthread_create() may fail for want of memory, EINTR, ...

ASSUME ThreadAssumption ==
  None \notin Peers /\ Sockets \subseteq Nat /\ Failures \in BOOLEAN

\* What accept() returns when it fails.  It is not 0: the loop goes on with it.
FAIL == -1

VARIABLES  \* the process
  up,          \* it has not been killed
  main,        \* the main thread: "accept", "addr", "socket", "create"
  c, from_addr,\* the result of accept()
  arg,         \* the struct From: addr and socket
  conn,        \* the peer behind each descriptor, None if it is free
  at,          \* threads: "unborn", "addr", "socket", "read", "write", "close", "spin",
               \* "ended"
  addr, sock   \* their copies of the fields

VARIABLES  \* the peers
  peer,        \* "idle", "open", "sent", "fin", "rst"
  unread,      \* its message has not been read
  backlog,     \* the peers that wait to be accepted
  answered,    \* the peers that were sent the answer
  \* history
  overtaken,   \* main() has written to From before a thread had copied it
  refused      \* the peers for which accept() or pthread_create() has failed

mainVars == <<main, c, from_addr, arg>>
threadVars == <<at, addr, sock>>
peerVars == <<peer, unread, answered>>
tvars == <<up, mainVars, conn, threadVars, peerVars, backlog, overtaken, refused>>

ServerInit ==
  /\ up = TRUE /\ main = "accept" /\ c = FAIL /\ from_addr = None
  /\ arg = [addr |-> None, socket |-> FAIL]
  /\ conn = [fd \in Sockets |-> None]
  /\ at = [t \in Threads |-> "unborn"]
  /\ addr = [t \in Threads |-> None] /\ sock = [t \in Threads |-> FAIL]
  /\ peer = [p \in Peers |-> "idle"] /\ unread = [p \in Peers |-> FALSE]
  /\ backlog = {} /\ answered = {}
  /\ overtaken = FALSE /\ refused = {}
-----------------------------------------------------------------------------
(* The main thread.                                                        *)

Free == {fd \in Sockets : conn[fd] = None}

\* The lowest free descriptor.
Accept ==
  /\ up /\ main = "accept"
  /\ \E p \in backlog, fd \in Free :
       /\ \A other \in Free : fd <= other
       /\ backlog' = backlog \ {p}
       /\ conn' = [conn EXCEPT ![fd] = p]
       /\ c' = fd /\ from_addr' = p
  /\ main' = "addr"
  /\ UNCHANGED <<up, arg, threadVars, peerVars, overtaken, refused>>

AcceptFails ==
  /\ up /\ main = "accept"
  /\ Failures \/ Free = {}
  /\ c' = FAIL /\ main' = "addr" /\ refused' = refused \union backlog
  /\ UNCHANGED <<up, from_addr, arg, conn, threadVars, peerVars, backlog, overtaken>>

\* A thread that has been started and has not yet copied both fields.
Copying == \E t \in Threads : at[t] \in {"addr", "socket"}

\* Mutant: the address is copied before the loop, once.
AddressFirst == IF arg.addr = None THEN from_addr ELSE arg.addr

Address == from_addr

FillAddr ==
  /\ up /\ main = "addr"
  /\ arg' = [arg EXCEPT !.addr = Address]
  /\ overtaken' = (overtaken \/ Copying)
  /\ main' = "socket"
  /\ UNCHANGED <<up, c, from_addr, conn, threadVars, peerVars, backlog, refused>>

FillSocket ==
  /\ up /\ main = "socket"
  /\ arg' = [arg EXCEPT !.socket = c]
  /\ overtaken' = (overtaken \/ Copying)
  /\ main' = "create"
  /\ UNCHANGED <<up, c, from_addr, conn, threadVars, peerVars, backlog, refused>>

Create ==
  /\ up /\ main = "create"
  /\ \E t \in Threads : at[t] = "unborn" /\ at' = [at EXCEPT ![t] = "addr"]
  /\ main' = "accept"
  /\ UNCHANGED <<up, c, from_addr, arg, conn, addr, sock, peerVars, backlog, overtaken, refused>>

\* Nobody looks at the result; the connection stays open.
CreateFails ==
  /\ up /\ main = "create"
  /\ Failures \/ \A t \in Threads : at[t] # "unborn"
  /\ main' = "accept"
  /\ refused' = IF c = FAIL THEN refused ELSE refused \union {conn[c]}
  /\ UNCHANGED <<up, c, from_addr, arg, conn, threadVars, peerVars, backlog, overtaken>>

Main == Accept \/ AcceptFails \/ FillAddr \/ FillSocket \/ Create \/ CreateFails
-----------------------------------------------------------------------------
(* A thread.                                                               *)

Goto(t, next) == at' = [at EXCEPT ![t] = next]

CopyAddr(t) ==
  /\ up /\ at[t] = "addr" /\ Goto(t, "socket")
  /\ addr' = [addr EXCEPT ![t] = arg.addr]
  /\ UNCHANGED <<up, mainVars, conn, sock, peerVars, backlog, overtaken, refused>>

CopySocket(t) ==
  /\ up /\ at[t] = "socket" /\ Goto(t, "read")
  /\ sock' = [sock EXCEPT ![t] = arg.socket]
  /\ UNCHANGED <<up, mainVars, conn, addr, peerVars, backlog, overtaken, refused>>

\* Whom the thread's descriptor leads to, None if it is -1 or closed.
Behind(t) == IF sock[t] \in Sockets THEN conn[sock[t]] ELSE None

\* Mutant: while (1) stands before the answer.
AfterReadSpin == "spin"

AfterRead == "write"

\* read() returns the message; or -1, at which the code does not look.
Read(t) ==
  /\ up /\ at[t] = "read"
  /\ \/ Behind(t) = None /\ UNCHANGED unread
     \/ /\ Behind(t) # None
        /\ \/ peer[Behind(t)] = "rst" /\ UNCHANGED unread
           \/ /\ peer[Behind(t)] # "rst" /\ unread[Behind(t)]
              /\ unread' = [unread EXCEPT ![Behind(t)] = FALSE]
  /\ Goto(t, AfterRead)
  /\ UNCHANGED <<up, mainVars, conn, addr, sock, peer, answered, backlog, overtaken, refused>>

\* read() returns 0: the peer has left without a word.
ReadEnd(t) ==
  /\ up /\ at[t] = "read"
  /\ Behind(t) # None /\ peer[Behind(t)] = "fin" /\ ~unread[Behind(t)]
  /\ Goto(t, "close")
  /\ UNCHANGED <<up, mainVars, conn, addr, sock, peerVars, backlog, overtaken, refused>>

\* The descriptor may be somebody else's by now, or nobody's.
Close(t) ==
  /\ up /\ at[t] = "close" /\ Goto(t, "ended")
  /\ conn' = IF sock[t] \in Sockets THEN [conn EXCEPT ![sock[t]] = None] ELSE conn
  /\ UNCHANGED <<up, mainVars, addr, sock, peerVars, backlog, overtaken, refused>>

\* A write to a peer that has reset the connection, by leaving the answer unread or
\* by leaving before it came, raises SIGPIPE.
Gone(p) == peer[p] = "rst" \/ (peer[p] = "fin" /\ p \in answered)

\* After the write the thread never leaves while (1), and its connection stays open.
Write(t) ==
  /\ up /\ at[t] = "write" /\ Goto(t, "spin")
  /\ Behind(t) # None => ~Gone(Behind(t))
  /\ answered' = answered \union ({Behind(t)} \ {None})
  /\ UNCHANGED <<up, mainVars, conn, addr, sock, peer, unread, backlog, overtaken, refused>>

\* SIGPIPE ends the whole process.
Killed(t) ==
  /\ up /\ at[t] = "write" /\ Behind(t) # None /\ Gone(Behind(t))
  /\ up' = FALSE
  /\ UNCHANGED <<mainVars, conn, threadVars, peerVars, backlog, overtaken, refused>>

Thread(t) == CopyAddr(t) \/ CopySocket(t) \/ Read(t) \/ ReadEnd(t) \/ Close(t) \/ Write(t) \/ Killed(t)
-----------------------------------------------------------------------------
(* The peers, multithread_client.cpp.                                      *)

Connect(p) ==
  /\ up /\ peer[p] = "idle"
  /\ peer' = [peer EXCEPT ![p] = "open"]
  /\ backlog' = backlog \union {p}
  /\ UNCHANGED <<up, mainVars, conn, threadVars, unread, answered, overtaken, refused>>

Hello(p) ==
  /\ peer[p] = "open"
  /\ peer' = [peer EXCEPT ![p] = "sent"]
  /\ unread' = [unread EXCEPT ![p] = TRUE]
  /\ UNCHANGED <<up, mainVars, conn, threadVars, answered, backlog, overtaken, refused>>

\* The answer is read and the connection closed, or the client is interrupted; with
\* something unread, that resets the connection.
Leave(p) ==
  /\ peer[p] \in {"open", "sent"}
  /\ \/ peer' = [peer EXCEPT ![p] = "fin"]
     \/ p \in answered /\ peer' = [peer EXCEPT ![p] = "rst"]
  /\ UNCHANGED <<up, mainVars, conn, threadVars, unread, answered, backlog, overtaken, refused>>

ServerNext ==
  \/ Main
  \/ \E t \in Threads : Thread(t)
  \/ \E p \in Peers : Connect(p) \/ Hello(p) \/ Leave(p)

\* The kernel runs every thread.
ServerFairness == WF_tvars(Main) /\ \A t \in Threads : WF_tvars(Thread(t))

ServerSpec == ServerInit /\ [][ServerNext]_tvars /\ ServerFairness
-----------------------------------------------------------------------------
(* Properties.                                                             *)

ServerTypeOK ==
  /\ up \in BOOLEAN /\ main \in {"accept", "addr", "socket", "create"}
  /\ c \in Sockets \union {FAIL} /\ from_addr \in Peers \union {None}
  /\ arg \in [addr : Peers \union {None}, socket : Sockets \union {FAIL}]
  /\ conn \in [Sockets -> Peers \union {None}]
  /\ at \in [Threads ->
               {"unborn", "addr", "socket", "read", "write", "close", "spin", "ended"}]
  /\ addr \in [Threads -> Peers \union {None}]
  /\ sock \in [Threads -> Sockets \union {FAIL}]
  /\ peer \in [Peers -> {"idle", "open", "sent", "fin", "rst"}]
  /\ unread \in [Peers -> BOOLEAN]
  /\ backlog \subseteq Peers /\ answered \subseteq Peers
  /\ overtaken \in BOOLEAN /\ refused \subseteq Peers \union {None}

Working(t) == at[t] \in {"read", "write", "close", "spin"}

\* As long as main() has not written to From while a thread was copying it, each
\* thread has a connection for itself, that of the client whose address it prints
\* (or none, if accept() failed), and nobody closes it for it.
OwnConnection ==
  ~overtaken => \A t \in Threads : Working(t) /\ sock[t] # FAIL =>
    /\ conn[sock[t]] = addr[t]
    /\ \A u \in Threads : Working(u) /\ sock[u] = sock[t] => u = t

\* A client that has sent its message is answered, unless it leaves, accept() or
\* pthread_create() failed for it, or some thread's arguments were overtaken: however
\* many clients leave, stay silent or keep their threads spinning.
Answered ==
  \A p \in Peers :
    peer[p] = "sent" ~> p \in answered \/ peer[p] # "sent" \/ p \in refused \/ overtaken
=============================================================================
