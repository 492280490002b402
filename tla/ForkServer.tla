----------------------------- MODULE ForkServer -----------------------------
(***************************************************************************)
(* The forking servers of cpp_src/server.h: server_run(), and              *)
(* server_run_cmd(), which adds commands and uploads.  A process accepts a *)
(* connection and forks; the child receives from it until the client       *)
(* leaves, and then falls out of the receiving loop into the accept loop   *)
(* it was copied with: it becomes one more acceptor, with whatever its     *)
(* variables hold.  Nobody but the receiver closes the connection.  All    *)
(* processes write to and read from one directory, data/: clients that     *)
(* upload under the same name meet in the same file.                       *)
(*                                                                         *)
(* One recv() returns one message.  How a stream is cut into chunks is the *)
(* subject of FileTransfer; here a message is a whole command, or a chunk  *)
(* of an upload: its head, a full buffer, the end, or a part of any of the *)
(* two that neither fills the buffer nor ends it.                          *)
(***************************************************************************)
EXTENDS Integers, Sequences, FiniteSets, SequencesExt

CONSTANTS
  Procs, Root,  \* processes; Root is started from the shell
  Conns,        \* connections, each from a client of its own
  Names,        \* names of files
  None,         \* no process, no connection
  Commands,     \* server_run_cmd() if TRUE, server_run() if FALSE
  MAXCONN,      \* connections one process may have open
  SNDBUF,       \* replies a connection holds before write() blocks
  Msgs,         \* what clients may send
  MaxMsgs,      \* bound: messages per client
  Polite,       \* clients complete an upload once they have begun it, and no
                \* connection is reset before what it carries was received
  Failures      \* fork() and accept() may fail for want of memory, EINTR, ...

\* What follows the head of an upload.
Chunks == {"full", "part", "tail"}

ASSUME ForkAssumption ==
  /\ Root \in Procs /\ None \notin Procs \union Conns \union Names
  /\ MAXCONN \in Nat \ {0} /\ SNDBUF \in Nat \ {0} /\ MaxMsgs \in Nat
  /\ {Commands, Polite, Failures} \subseteq BOOLEAN
  /\ Msgs \subseteq {"text", "ls", "get", "quit", "head"} \union Chunks

VARIABLES  \* of each process
  pc,          \* "unborn", "accept", "fork", "recv", "handle", "wait", "ended", "reaped"
  clnt_sock,   \* the connection it accepted or inherited last
  fds,         \* the connections it has open
  parent,      \* the process that forked it
  buffer,      \* the message it handles
  receiveing,  \* an upload is in progress
  pfile        \* the process that opened the stream it writes to: itself, or one it
               \* was forked by

VARIABLES  \* of each connection
  backlog,     \* connections not yet accepted, for all the connections together
  state,       \* of the client's end: "idle", "open", "fin", "rst"
  inq,         \* messages sent and not received
  mid,         \* the client has begun an upload and not completed it
  nsent,       \* number of messages sent
  handled,     \* messages received
  alone,       \* history: the session a server of this client only would have had
               \* before the last message received
  replies,     \* what the server wrote to the live client
  nread,       \* how many of them the client has read
  name         \* the name the client uploads and downloads a file under

VARIABLES  \* of the directory data/
  dir,         \* names of the files there are
  file,        \* chunks in each file
  stream,      \* the stream each process opened last: its file, its offset in it
  owner        \* history: the client whose upload of a file was the last to begin;
               \* None if another upload of the file was under way

procVars == <<pc, clnt_sock, fds, parent, buffer, receiveing, pfile>>
peerVars == <<state, inq, mid, nsent, nread>>
history  == <<handled, alone>>
fileVars == <<name, dir, file, stream, owner>>
vars == <<procVars, peerVars, backlog, history, replies, fileVars>>

\* Mutant: the arguments begin one further, $get finds none.
ReplyWhat == [ls |-> "list", get |-> "get what?"]

\* cmd_action(): what a command is answered, the file it asks for being there or not.
Reply == [ls |-> "list", get |-> "contents"]

Answer(m, there) == IF m = "get" /\ ~there THEN "failed" ELSE Reply[m]

Replies == {"hello", "list", "contents", "failed"}

\* A chunk in a file, of the client it came from; what a hole in the file reads as.
Hole  == <<None, "text">>
Items == (Conns \union {None}) \X (Msgs \union {"text"})

\* What a server does that has only one client: the session it begins with (replies,
\* file, whether there is one, upload in progress), and after each message.
Sessions == [replies : Seq(Replies), file : Seq(Items), made : BOOLEAN, receiveing : BOOLEAN]

Start == [replies |-> <<"hello">>, file |-> <<>>, made |-> FALSE, receiveing |-> FALSE]

After(c, s, m) ==
  IF s.receiveing
  THEN [s EXCEPT !.file = IF m \in {"full", "tail"} THEN Append(@, <<c, m>>) ELSE @,
                 !.receiveing = (m = "full")]
  ELSE IF Commands /\ m = "head"
  THEN [s EXCEPT !.file = <<>>, !.made = TRUE, !.receiveing = TRUE]
  ELSE IF Commands /\ m \in DOMAIN Reply
  THEN [s EXCEPT !.replies = Append(@, Answer(m, s.made))]
  ELSE s

\* A process is at work on the last message received from c.
AtWork(c) == \E p \in Procs : pc[p] = "handle" /\ clnt_sock[p] = c

\* The session with c, had it been alone, as far as the work on its messages is done.
Private(c) ==
  IF handled[c] = <<>> \/ AtWork(c) THEN alone[c] ELSE After(c, alone[c], Last(handled[c]))

Init ==
  /\ pc = [p \in Procs |-> IF p = Root THEN "accept" ELSE "unborn"]
  /\ clnt_sock = [p \in Procs |-> None]
  /\ fds = [p \in Procs |-> {}]
  /\ parent = [p \in Procs |-> None]
  /\ buffer = [p \in Procs |-> "text"]
  /\ receiveing = [p \in Procs |-> FALSE] /\ pfile = [p \in Procs |-> None]
  /\ backlog = <<>>
  /\ state = [c \in Conns |-> "idle"]
  /\ inq = [c \in Conns |-> <<>>] /\ mid = [c \in Conns |-> FALSE]
  /\ nsent = [c \in Conns |-> 0] /\ handled = [c \in Conns |-> <<>>]
  /\ alone = [c \in Conns |-> Start]
  /\ replies = [c \in Conns |-> <<>>] /\ nread = [c \in Conns |-> 0]
  /\ name \in [Conns -> Names]
  /\ dir = {} /\ file = [n \in Names |-> <<>>]
  /\ stream = [p \in Procs |-> [name |-> None, at |-> 0]]
  /\ owner = [n \in Names |-> None]
-----------------------------------------------------------------------------
(* The processes.                                                          *)

\* A process that ends closes what it has open.
Goto(p, next) ==
  /\ pc' = [pc EXCEPT ![p] = next]
  /\ fds' = IF next = "ended" THEN [fds EXCEPT ![p] = {}] ELSE fds

\* write() blocks while a live client's connection is full, and reaches nobody
\* once the client has left.
Write(c, reply) ==
  \/ /\ state[c] = "open" /\ Len(replies[c]) - nread[c] < SNDBUF
     /\ replies' = [replies EXCEPT ![c] = Append(@, reply)]
  \/ state[c] # "open" /\ UNCHANGED replies

\* accept() and the greeting.
MayAccept(p) == pc[p] = "accept" /\ backlog # <<>> /\ Cardinality(fds[p]) < MAXCONN

Accept(p) ==
  LET c == Head(backlog)
  IN  /\ MayAccept(p)
      /\ backlog' = Tail(backlog)
      /\ clnt_sock' = [clnt_sock EXCEPT ![p] = c]
      /\ fds' = [fds EXCEPT ![p] = @ \union {c}]
      /\ Write(c, "hello")
      /\ pc' = [pc EXCEPT ![p] = "fork"]
      /\ UNCHANGED <<parent, buffer, receiveing, pfile, peerVars, history, fileVars>>

\* accept() returns -1: the loop ends.  server_run_cmd() then waits for a child.
AcceptFails(p) ==
  /\ pc[p] = "accept"
  /\ Failures \/ Cardinality(fds[p]) >= MAXCONN
  /\ Goto(p, IF Commands THEN "wait" ELSE "ended")
  /\ UNCHANGED <<clnt_sock, parent, buffer, receiveing, pfile, peerVars, backlog,
                 history, replies, fileVars>>

\* Mutant: without the test of pid, the parent receives as well.
AfterForkRecv == "recv"

\* The parent goes back to accept().
AfterFork == "accept"

\* The child is a copy of the process; it goes to the receiving loop.
Fork(p) ==
  /\ pc[p] = "fork"
  /\ \E q \in Procs :
       /\ pc[q] = "unborn"
       /\ pc' = [pc EXCEPT ![p] = AfterFork, ![q] = "recv"]
       /\ clnt_sock' = [clnt_sock EXCEPT ![q] = clnt_sock[p]]
       /\ fds' = [fds EXCEPT ![q] = fds[p]]
       /\ receiveing' = [receiveing EXCEPT ![q] = receiveing[p]]
       /\ pfile' = [pfile EXCEPT ![q] = pfile[p]]
       /\ parent' = [parent EXCEPT ![q] = p]
  /\ UNCHANGED <<buffer, peerVars, backlog, history, replies, fileVars>>

\* fork() returns -1, which is not 0: nobody will receive from the connection.
ForkFails(p) ==
  /\ pc[p] = "fork" /\ Failures
  /\ Goto(p, "accept")
  /\ UNCHANGED <<clnt_sock, parent, buffer, receiveing, pfile, peerVars, backlog,
                 history, replies, fileVars>>

Recv(p) ==
  LET c == clnt_sock[p]
  IN  /\ pc[p] = "recv" /\ inq[c] # <<>> /\ state[c] # "rst"
      /\ buffer' = [buffer EXCEPT ![p] = Head(inq[c])]
      /\ inq' = [inq EXCEPT ![c] = Tail(@)]
      /\ handled' = [handled EXCEPT ![c] = Append(@, Head(inq[c]))]
      /\ alone' = [alone EXCEPT ![c] = Private(c)]
      /\ Goto(p, "handle")
      /\ UNCHANGED <<clnt_sock, parent, receiveing, pfile, backlog, state, mid, nsent,
                     nread, replies, fileVars>>

\* Mutant: a process that has received the FIN goes on receiving.
AfterFinStay == "recv"

\* break leaves the receiving loop only: the next thing is accept().
AfterFin == "accept"

\* recv() returns 0, or -1 after a reset.
RecvEnd(p) ==
  LET c == clnt_sock[p]
  IN  /\ pc[p] = "recv"
      /\ state[c] = "rst" \/ (state[c] = "fin" /\ inq[c] = <<>>)
      /\ pc' = [pc EXCEPT ![p] = AfterFin]
      /\ fds' = [fds EXCEPT ![p] = @ \ {c}]
      /\ UNCHANGED <<clnt_sock, parent, buffer, receiveing, pfile, peerVars, backlog,
                     history, replies, fileVars>>

Handle(p) == pc[p] = "handle" /\ UNCHANGED <<clnt_sock, parent, buffer, peerVars, backlog, history>>

\* p has accepted clnt_sock[p] or inherited it, and has not let go of it.
Attends(p) == pc[p] \in {"fork", "recv", "handle"}

\* p receives a file that it writes to data/<n>.
Uploads(p, n) == Attends(p) /\ receiveing[p] /\ stream[pfile[p]].name = n

\* Mutant: without the "w" the file is written over.
OpenedOver(f) == f

\* fopen(rfilename, "wb+") truncates the file, whoever is writing to it.
Opened(f) == <<>>

\* fwrite() at an offset of the stream's own.
Written(f, at, item) ==
  [k \in 1 .. (IF Len(f) > at THEN Len(f) ELSE at + 1) |->
     IF k = at + 1 THEN item ELSE IF k <= Len(f) THEN f[k] ELSE Hole]

\* _receFile(), by the chunk received.
BeginUpload(p) ==
  LET c == clnt_sock[p]
      n == name[c]
  IN  /\ Handle(p) /\ Commands /\ ~receiveing[p] /\ buffer[p] = "head"
      /\ receiveing' = [receiveing EXCEPT ![p] = TRUE]
      /\ pfile' = [pfile EXCEPT ![p] = p]
      /\ stream' = [stream EXCEPT ![p] = [name |-> n, at |-> 0]]
      /\ dir' = dir \union {n}
      /\ file' = [file EXCEPT ![n] = Opened(@)]
      /\ owner' = [owner EXCEPT ![n] = IF \E q \in Procs : Uploads(q, n) THEN None ELSE c]
      /\ Goto(p, "recv")
      /\ UNCHANGED <<replies, name>>

\* The upload is over with the chunk that ends with the trailer.
GoesOn(m) == m # "tail"

Chunk(p) ==
  LET s == stream[pfile[p]]
  IN  /\ Handle(p) /\ Commands /\ receiveing[p] /\ buffer[p] \in {"full", "tail"}
      /\ file' = [file EXCEPT ![s.name] = Written(@, s.at, <<clnt_sock[p], buffer[p]>>)]
      /\ stream' = [stream EXCEPT ![pfile[p]] = [name |-> s.name, at |-> s.at + 1]]
      /\ receiveing' = [receiveing EXCEPT ![p] = GoesOn(buffer[p])]
      /\ Goto(p, "recv")
      /\ UNCHANGED <<pfile, replies, name, dir, owner>>

\* Anything shorter than the buffer: the file is closed and then written to.
ShortChunk(p) ==
  /\ Handle(p) /\ Commands /\ receiveing[p] /\ buffer[p] \notin {"full", "tail"}
  /\ receiveing' = [receiveing EXCEPT ![p] = FALSE]
  /\ Goto(p, "recv") \/ Goto(p, "ended")
  /\ UNCHANGED <<pfile, replies, fileVars>>

\* The message is printed; it may be a command of cmd_action().
IsMessage(p) == ~(Commands /\ (receiveing[p] \/ buffer[p] = "head"))

Message(p) ==
  /\ Handle(p) /\ IsMessage(p)
  /\ ~Commands \/ buffer[p] \notin DOMAIN Reply \union {"quit"}
  /\ Goto(p, "recv")
  /\ UNCHANGED <<receiveing, pfile, replies, fileVars>>

IsCommand(p) ==
  pc[p] = "handle" /\ IsMessage(p) /\ Commands /\ buffer[p] \in DOMAIN Reply

Command(p) ==
  /\ Handle(p) /\ IsCommand(p)
  /\ Write(clnt_sock[p], Answer(buffer[p], name[clnt_sock[p]] \in dir))
  /\ Goto(p, "recv")
  /\ UNCHANGED <<receiveing, pfile, fileVars>>

Quit(p) ==
  /\ Handle(p) /\ IsMessage(p) /\ Commands /\ buffer[p] = "quit"
  /\ Goto(p, "ended")
  /\ UNCHANGED <<receiveing, pfile, replies, fileVars>>

\* A write after a reset may raise SIGPIPE, which ends the process.
Killed(p) ==
  /\ \/ /\ MayAccept(p) /\ state[Head(backlog)] = "rst"
        /\ backlog' = Tail(backlog)
     \/ /\ IsCommand(p) /\ state[clnt_sock[p]] = "rst"
        /\ UNCHANGED backlog
  /\ Goto(p, "ended")
  /\ UNCHANGED <<clnt_sock, parent, buffer, receiveing, pfile, peerVars, history,
                 replies, fileVars>>

\* wait(NULL): one child has ended, or there is none.
Wait(p) ==
  LET children == {q \in Procs : parent[q] = p /\ pc[q] # "reaped"}
  IN  /\ pc[p] = "wait"
      /\ \/ \E q \in children : /\ pc[q] = "ended"
                                /\ pc' = [pc EXCEPT ![p] = "ended", ![q] = "reaped"]
         \/ children = {} /\ pc' = [pc EXCEPT ![p] = "ended"]
      /\ fds' = [fds EXCEPT ![p] = {}]
      /\ UNCHANGED <<clnt_sock, parent, buffer, receiveing, pfile, peerVars, backlog,
                     history, replies, fileVars>>

Process(p) ==
  \/ Accept(p) \/ AcceptFails(p) \/ Fork(p) \/ ForkFails(p) \/ Recv(p) \/ RecvEnd(p)
  \/ BeginUpload(p) \/ Chunk(p) \/ ShortChunk(p) \/ Message(p) \/ Command(p) \/ Quit(p)
  \/ Killed(p) \/ Wait(p)
-----------------------------------------------------------------------------
(* The clients.                                                            *)

Connect(c) ==
  /\ state[c] = "idle"
  /\ state' = [state EXCEPT ![c] = "open"]
  /\ backlog' = Append(backlog, c)
  /\ UNCHANGED <<procVars, inq, mid, nsent, nread, history, replies, fileVars>>

Send(c) ==
  /\ state[c] = "open" /\ nsent[c] < MaxMsgs
  /\ \E m \in Msgs :
       /\ Polite => (mid[c] <=> m \in Chunks)
       /\ inq' = [inq EXCEPT ![c] = Append(@, m)]
       /\ mid' = [mid EXCEPT ![c] = IF m = "head" THEN TRUE ELSE @ /\ m # "tail"]
  /\ nsent' = [nsent EXCEPT ![c] = @ + 1]
  /\ UNCHANGED <<procVars, state, nread, backlog, history, replies, fileVars>>

Read(c) ==
  /\ state[c] = "open" /\ nread[c] < Len(replies[c])
  /\ nread' = [nread EXCEPT ![c] = @ + 1]
  /\ UNCHANGED <<procVars, state, inq, mid, nsent, backlog, history, replies, fileVars>>

\* The client ends, crashes, or its connection is reset.
Leave(c) ==
  /\ state[c] = "open" /\ (Polite => ~mid[c])
  /\ state' = [state EXCEPT ![c] = "fin"]
  /\ UNCHANGED <<procVars, inq, mid, nsent, nread, backlog, history, replies, fileVars>>

\* A connection reset before it was accepted stays in the backlog on Linux and
\* leaves it on BSD and macOS.
Reset(c) ==
  /\ state[c] \in {"open", "fin"} /\ (Polite => ~mid[c] /\ inq[c] = <<>>)
  /\ state' = [state EXCEPT ![c] = "rst"]
  /\ \/ UNCHANGED backlog
     \/ \E k \in DOMAIN backlog : backlog[k] = c /\ backlog' = RemoveAt(backlog, k)
  /\ UNCHANGED <<procVars, inq, mid, nsent, nread, history, replies, fileVars>>

Client(c) == Connect(c) \/ Send(c) \/ Read(c) \/ Leave(c) \/ Reset(c)

Next == (\E p \in Procs : Process(p)) \/ (\E c \in Conns : Client(c))

\* The processes are scheduled independently of each other; nothing is assumed
\* of the clients.
Spec == Init /\ [][Next]_vars /\ \A p \in Procs : WF_vars(Process(p))
-----------------------------------------------------------------------------
(* Properties.                                                             *)

TypeOK ==
  /\ pc \in [Procs -> {"unborn", "accept", "fork", "recv", "handle", "wait", "ended", "reaped"}]
  /\ clnt_sock \in [Procs -> Conns \union {None}]
  /\ fds \in [Procs -> SUBSET Conns]
  /\ parent \in [Procs -> Procs \union {None}]
  /\ buffer \in [Procs -> Msgs \union {"text"}]
  /\ receiveing \in [Procs -> BOOLEAN]
  /\ pfile \in [Procs -> Procs \union {None}]
  /\ \A p \in Procs : receiveing[p] => pfile[p] # None
  /\ backlog \in Seq(Conns)
  /\ state \in [Conns -> {"idle", "open", "fin", "rst"}]
  /\ inq \in [Conns -> Seq(Msgs)]
  /\ mid \in [Conns -> BOOLEAN]
  /\ nsent \in [Conns -> 0 .. MaxMsgs]
  /\ handled \in [Conns -> Seq(Msgs)]
  /\ alone \in [Conns -> Sessions]
  /\ replies \in [Conns -> Seq(Replies)]
  /\ nread \in [Conns -> Nat]
  /\ name \in [Conns -> Names]
  /\ dir \subseteq Names
  /\ file \in [Names -> Seq(Items)]
  /\ stream \in [Procs -> [name : Names \union {None}, at : Nat]]
  /\ owner \in [Names -> Conns \union {None}]

InBacklog(c) == \E k \in DOMAIN backlog : backlog[k] = c

\* Although every process accepts, and every child inherits all open connections
\* of its parent, no two processes attend the same connection, the connection is
\* not in the backlog any more, and the process has it open.
OneReader ==
  /\ \A p, q \in Procs : Attends(p) /\ Attends(q) /\ clnt_sock[p] = clnt_sock[q] => p = q
  /\ \A p \in Procs : Attends(p) => clnt_sock[p] \in fds[p] /\ ~InBacklog(clnt_sock[p])

Finished(c) == IF AtWork(c) THEN Front(handled[c]) ELSE handled[c]

\* Somebody else has uploaded a file under the name of c's.
Shared(c) == \E d \in Conns \ {c} : name[d] = name[c] /\ Private(d).made

\* The replies to c are those of a private session, but for a file of that name that c
\* finds there although it has not uploaded any.
RepliedAlone(c) ==
  LET mine == Private(c).replies
  IN  /\ Len(replies[c]) = Len(mine)
      /\ \A k \in DOMAIN mine :
           \/ replies[c][k] = mine[k]
           \/ replies[c][k] = "contents" /\ mine[k] = "failed" /\ Shared(c)

\* Isolation: if no client is lost in the middle of an upload, each is served as
\* if it were alone, although processes inherit the connections and variables of
\* others and share data/.  The file a client has uploaded is what it sent, unless
\* another upload of that name was under way when it began, or has begun since.
Isolated ==
  Polite => \A c \in Conns :
    /\ owner[name[c]] = c /\ ~Private(c).receiveing => file[name[c]] = Private(c).file
    /\ replies[c] # <<>> /\ state[c] = "open" => RepliedAlone(c)

\* No client waits for another one: what a client sends is received in the end,
\* whatever the other clients do or fail to read, unless it does not read its own
\* replies, leaves, its process is gone, or fork() failed for it.  (Root accepts
\* until accept() fails.)
Pending(c) ==
  /\ state[c] = "open" /\ inq[c] # <<>>
  /\ InBacklog(c) \/ \E p \in Procs : Attends(p) /\ clnt_sock[p] = c

Attended(c) ==
  Pending(c) ~> \/ inq[c] = <<>> \/ state[c] # "open" \/ pc[Root] \in {"wait", "ended"}
                \/ \E k \in DOMAIN handled[c] : handled[c][k] = "quit"
                \/ Failures /\ ~Pending(c)

NobodyWaits == \A c \in Conns : []<>(Len(replies[c]) - nread[c] < SNDBUF) => Attended(c)

\* server.h:348: "$ls : list files from server."
ListAnswered ==
  \A c \in Conns : state[c] = "open" /\ "ls" \in ToSet(Finished(c)) => "list" \in ToSet(replies[c])
=============================================================================
