------------------------- MODULE ForkServer_proofs -------------------------
(***************************************************************************)
(* For any number of processes and connections, and any limits: no two     *)
(* processes attend the same connection (OneReader).  OneReader alone is   *)
(* not inductive: that accept() does not take a connection somebody        *)
(* attends needs to know that what is in the backlog is there once         *)
(* (BacklogOnce) and open in no process (BacklogUnopened), and that a      *)
(* connection that enters the backlog is new (IdleUnknown).                *)
(*                                                                         *)
(* And each client is served as if it were alone (Isolated), if clients    *)
(* complete their uploads: then a process that loses its client is not     *)
(* receiving any more (Orderly), so that accept() begins with what a       *)
(* private server begins with, and a process that receives a file writes   *)
(* to a stream it has opened itself, under the name of its client          *)
(* (OwnVariables).  The replies differ from those of a private server by   *)
(* the files that others have made (Uploaded).  A file belongs to the      *)
(* client whose upload began last, unless another one was under way; then  *)
(* nobody else writes to it, and its stream stands at the end of it        *)
(* (Writers), so that what is written is appended.                         *)
(***************************************************************************)
EXTENDS ForkServer, SequenceFacts, TLAPS

BacklogOnce == \A j, k \in DOMAIN backlog : backlog[j] = backlog[k] => j = k

BacklogUnopened == \A k \in DOMAIN backlog : \A p \in Procs : backlog[k] \notin fds[p]

IdleUnknown ==
  \A c \in Conns : state[c] = "idle" =>
    /\ \A k \in DOMAIN backlog : backlog[k] # c
    /\ \A p \in Procs : c \notin fds[p]

HoldsIt == \A p \in Procs : Attends(p) => clnt_sock[p] \in fds[p]

Alone ==
  \A p, q \in Procs : Attends(p) /\ Attends(q) /\ clnt_sock[p] = clnt_sock[q] => p = q

Inv == TypeOK /\ BacklogOnce /\ BacklogUnopened /\ IdleUnknown /\ HoldsIt /\ Alone
-----------------------------------------------------------------------------
(* Types.                                                                  *)

\* What a session begins with has the right types.
LEMMA HelloOnly == <<"hello">> \in Seq(Replies) /\ <<>> \in Seq(Items)
BY DEF Replies

\* A command has an answer.
LEMMA AnswerType ==
  ASSUME NEW m \in DOMAIN Reply, NEW there \in BOOLEAN
  PROVE  Answer(m, there) \in Replies
<1>1. m \in {"ls", "get"}
  BY DEF Reply
<1>2. Reply[m] = IF m = "ls" THEN "list" ELSE "contents"
  BY <1>1 DEF Reply
<1> QED BY <1>1, <1>2 DEF Answer, Replies

\* A chunk written to a file makes it a file.
LEMMA WrittenType ==
  ASSUME NEW f \in Seq(Items), NEW at \in Nat, NEW item \in Items
  PROVE  Written(f, at, item) \in Seq(Items)
<1> DEFINE n == IF Len(f) > at THEN Len(f) ELSE at + 1
<1>1. Hole \in Items
  BY DEF Hole, Items
<1>2. n \in Nat
  OBVIOUS
<1>3. \A k \in 1 .. n : k <= Len(f) => f[k] \in Items
  OBVIOUS
<1>4. Written(f, at, item) = [k \in 1 .. n |-> IF k = at + 1 THEN item ELSE IF k <= Len(f) THEN f[k] ELSE Hole]
  BY DEF Written
<1> HIDE DEF n
<1>5. Written(f, at, item) \in [1 .. n -> Items]
  BY <1>1, <1>3, <1>4
<1> QED BY <1>2, <1>5

\* What a server with one client makes of a message is a session again.
LEMMA AfterType ==
  ASSUME NEW c \in Conns, NEW s \in Sessions, NEW m \in Msgs
  PROVE  After(c, s, m) \in Sessions
<1>1. s.file \in Seq(Items) /\ s.replies \in Seq(Replies) /\ s.made \in BOOLEAN
  BY DEF Sessions
<1>2. Append(s.file, <<c, m>>) \in Seq(Items)
  <2>1. <<c, m>> \in Items
    BY DEF Items
  <2> QED BY <1>1, <2>1, Appended
<1>3. CASE s.receiveing
  BY <1>1, <1>2, <1>3 DEF After, Sessions
<1>4. CASE ~s.receiveing /\ Commands /\ m = "head"
  BY <1>1, <1>4, HelloOnly DEF After, Sessions
<1>5. CASE ~s.receiveing /\ m # "head" /\ Commands /\ m \in DOMAIN Reply
  <2>1. Answer(m, s.made) \in Replies
    BY <1>1, <1>5, AnswerType
  <2>2. Append(s.replies, Answer(m, s.made)) \in Seq(Replies)
    BY <1>1, <2>1, Appended
  <2> QED BY <1>1, <1>5, <2>2 DEF After, Sessions
<1>6. CASE ~s.receiveing /\ ~(Commands /\ m = "head") /\ ~(Commands /\ m \in DOMAIN Reply)
  BY <1>6 DEF After
<1> QED BY <1>3, <1>4, <1>5, <1>6

\* The private session is one.
LEMMA PrivateType ==
  ASSUME TypeOK, NEW c \in Conns
  PROVE  Private(c) \in Sessions
<1>1. alone[c] \in Sessions /\ handled[c] \in Seq(Msgs)
  BY DEF TypeOK
<1>2. handled[c] # <<>> => Last(handled[c]) \in Msgs
  BY <1>1 DEF Last
<1> QED BY <1>1, <1>2, AfterType DEF Private

LEMMA InitInv == Init => Inv
<1> SUFFICES ASSUME Init PROVE Inv
  OBVIOUS
<1>1. TypeOK
  <2>1. Start \in Sessions
    BY HelloOnly DEF Start, Sessions
  <2> QED BY <2>1, ForkAssumption DEF Init, TypeOK
<1>2. BacklogOnce /\ BacklogUnopened /\ IdleUnknown
  BY DEF Init, BacklogOnce, BacklogUnopened, IdleUnknown
<1>3. HoldsIt /\ Alone
  BY DEF Init, HoldsIt, Alone, Attends
<1> QED BY <1>1, <1>2, <1>3 DEF Inv

LEMMA GotoType ==
  ASSUME TypeOK, NEW p \in Procs,
         NEW next \in {"accept", "recv", "handle", "wait", "ended"}, Goto(p, next)
  PROVE  /\ pc' \in [Procs -> {"unborn", "accept", "fork", "recv", "handle", "wait", "ended", "reaped"}]
         /\ fds' \in [Procs -> SUBSET Conns]
BY DEF TypeOK, Goto

\* The actions of one process keep the types.
LEMMA ProcessType ==
  ASSUME TypeOK, HoldsIt, NEW p \in Procs, Process(p)
  PROVE  TypeOK'
<1> DEFINE PcType == pc' \in [Procs -> {"unborn", "accept", "fork", "recv", "handle", "wait", "ended", "reaped"}]
           FdsType == fds' \in [Procs -> SUBSET Conns]
<1>1. CASE Accept(p)
  <2>1. backlog # <<>> /\ backlog' = Tail(backlog) /\ backlog \in Seq(Conns)
    BY <1>1 DEF Accept, MayAccept, TypeOK
  <2>2. Head(backlog) \in Conns /\ backlog' \in Seq(Conns)
    BY <2>1, HeadTail
  <2>3. replies' \in [Conns -> Seq(Replies)]
    <3>1. Append(replies[Head(backlog)], "hello") \in Seq(Replies)
      <4>1. replies[Head(backlog)] \in Seq(Replies) /\ "hello" \in Replies
        <5>1. replies[Head(backlog)] \in Seq(Replies)
          BY <2>2 DEF TypeOK
        <5>2. "hello" \in Replies
          BY DEF Replies
        <5> QED BY <5>1, <5>2
      <4> QED BY <4>1, Appended
    <3> QED BY <1>1, <2>2, <3>1 DEF Accept, Write, TypeOK
  <2>4. clnt_sock' \in [Procs -> Conns \union {None}] /\ fds' \in [Procs -> SUBSET Conns]
    BY <1>1, <2>2 DEF Accept, TypeOK
  <2>5. PcType
    BY <1>1 DEF Accept, TypeOK
  <2> QED BY <1>1, <2>2, <2>3, <2>4, <2>5 DEF Accept, peerVars, history, fileVars, TypeOK
<1>2. CASE AcceptFails(p)
  <2>1. PcType /\ FdsType
    BY <1>2, GotoType DEF AcceptFails
  <2> QED BY <1>2, <2>1 DEF AcceptFails, peerVars, history, fileVars, TypeOK
<1>3. CASE Fork(p)
  <2>1. PICK q \in Procs : /\ pc' = [pc EXCEPT ![p] = AfterFork, ![q] = "recv"]
                           /\ clnt_sock' = [clnt_sock EXCEPT ![q] = clnt_sock[p]]
                           /\ fds' = [fds EXCEPT ![q] = fds[p]]
                           /\ receiveing' = [receiveing EXCEPT ![q] = receiveing[p]]
                           /\ pfile' = [pfile EXCEPT ![q] = pfile[p]]
                           /\ parent' = [parent EXCEPT ![q] = p]
    BY <1>3 DEF Fork
  <2>2. PcType /\ FdsType
    BY <2>1 DEF TypeOK, AfterFork
  <2>3. /\ clnt_sock' \in [Procs -> Conns \union {None}] /\ receiveing' \in [Procs -> BOOLEAN]
        /\ pfile' \in [Procs -> Procs \union {None}] /\ parent' \in [Procs -> Procs \union {None}]
        /\ \A r \in Procs : receiveing'[r] => pfile'[r] # None
    BY <2>1 DEF TypeOK
  <2>4. UNCHANGED <<buffer, peerVars, backlog, history, replies, fileVars>>
    BY <1>3 DEF Fork
  <2> QED BY <2>2, <2>3, <2>4 DEF peerVars, history, fileVars, TypeOK
<1>4. CASE ForkFails(p)
  <2>1. PcType /\ FdsType
    BY <1>4, GotoType DEF ForkFails
  <2> QED BY <1>4, <2>1 DEF ForkFails, peerVars, history, fileVars, TypeOK
<1>5. CASE Recv(p)
  <2> DEFINE c == clnt_sock[p]
  <2>1. PcType /\ FdsType
    BY <1>5, GotoType DEF Recv
  <2>2. c \in Conns
    BY <1>5 DEF Recv, HoldsIt, Attends, TypeOK
  <2>3. inq[c] \in Seq(Msgs) /\ inq[c] # <<>> /\ handled[c] \in Seq(Msgs)
    BY <1>5, <2>2 DEF Recv, TypeOK
  <2>4. Head(inq[c]) \in Msgs /\ Tail(inq[c]) \in Seq(Msgs)
    BY <2>3, HeadTail
  <2>5. Append(handled[c], Head(inq[c])) \in Seq(Msgs)
    BY <2>3, <2>4, Appended
  <2>6. /\ inq' = [inq EXCEPT ![c] = Tail(inq[c])]
        /\ handled' = [handled EXCEPT ![c] = Append(handled[c], Head(inq[c]))]
        /\ buffer' = [buffer EXCEPT ![p] = Head(inq[c])]
    BY <1>5 DEF Recv
  <2>7. /\ inq' \in [Conns -> Seq(Msgs)] /\ handled' \in [Conns -> Seq(Msgs)]
        /\ buffer' \in [Procs -> Msgs \union {"text"}]
    BY <2>4, <2>5, <2>6 DEF TypeOK
  <2>8. alone' \in [Conns -> Sessions]
    <3>1. Private(c) \in Sessions /\ alone' = [alone EXCEPT ![c] = Private(c)]
      BY <1>5, <2>2, PrivateType DEF Recv
    <3> QED BY <3>1 DEF TypeOK
  <2> QED BY <1>5, <2>1, <2>7, <2>8 DEF Recv, fileVars, TypeOK
<1>6. CASE RecvEnd(p)
  <2>1. PcType /\ FdsType
    BY <1>6 DEF RecvEnd, AfterFin, TypeOK
  <2> QED BY <1>6, <2>1 DEF RecvEnd, peerVars, history, fileVars, TypeOK
<1>7. CASE BeginUpload(p)
  <2>1. PcType /\ FdsType
    BY <1>7, GotoType DEF BeginUpload
  <2>2. /\ receiveing' \in [Procs -> BOOLEAN] /\ pfile' \in [Procs -> Procs \union {None}]
        /\ \A r \in Procs : receiveing'[r] => pfile'[r] # None
    BY <1>7, ForkAssumption DEF BeginUpload, TypeOK
  <2>3. clnt_sock[p] \in Conns /\ name[clnt_sock[p]] \in Names
    BY <1>7 DEF BeginUpload, Handle, HoldsIt, Attends, TypeOK
  <2>4. dir' \subseteq Names /\ owner' \in [Names -> Conns \union {None}]
    BY <1>7, <2>3 DEF BeginUpload, TypeOK
  <2>5. stream' \in [Procs -> [name : Names \union {None}, at : Nat]]
    BY <1>7, <2>3 DEF BeginUpload, TypeOK
  <2>6. file' \in [Names -> Seq(Items)]
    BY <1>7, HelloOnly DEF BeginUpload, Opened, TypeOK
  <2> QED BY <1>7, <2>1, <2>2, <2>4, <2>5, <2>6
          DEF BeginUpload, Handle, peerVars, history, fileVars, TypeOK
<1>8. CASE Chunk(p)
  <2> DEFINE s == stream[pfile[p]]
             item == <<clnt_sock[p], buffer[p]>>
  <2>1. PcType /\ FdsType
    BY <1>8, GotoType DEF Chunk
  <2>2. /\ receiveing' \in [Procs -> BOOLEAN]
        /\ \A r \in Procs : receiveing'[r] => pfile'[r] # None
    BY <1>8 DEF Chunk, GoesOn, TypeOK
  <2>3. pfile[p] \in Procs /\ s.name \in Names \union {None} /\ s.at \in Nat
    BY <1>8 DEF Chunk, TypeOK
  <2>4. item \in Items
    <3>1. clnt_sock[p] \in Conns /\ buffer[p] \in Msgs
      BY <1>8 DEF Chunk, Handle, HoldsIt, Attends, TypeOK
    <3> QED BY <3>1 DEF Items
  <2>5. /\ file' = [file EXCEPT ![s.name] = Written(file[s.name], s.at, item)]
        /\ stream' = [stream EXCEPT ![pfile[p]] = [name |-> s.name, at |-> s.at + 1]]
    BY <1>8 DEF Chunk
  <2>6. file' \in [Names -> Seq(Items)]
    <3>1. \A n \in Names : Written(file[n], s.at, item) \in Seq(Items)
      BY <2>3, <2>4, WrittenType DEF TypeOK
    <3> HIDE DEF s, item
    <3> QED BY <2>5, <3>1 DEF TypeOK
  <2>7. stream' \in [Procs -> [name : Names \union {None}, at : Nat]]
    <3> HIDE DEF s, item
    <3> QED BY <2>3, <2>5 DEF TypeOK
  <2> QED BY <1>8, <2>1, <2>2, <2>6, <2>7 DEF Chunk, Handle, peerVars, history, fileVars, TypeOK
<1>9. CASE ShortChunk(p)
  <2>1. PcType /\ FdsType
    BY <1>9, GotoType DEF ShortChunk
  <2> QED BY <1>9, <2>1 DEF ShortChunk, Handle, peerVars, history, fileVars, TypeOK
<1>10. CASE Message(p)
  <2>1. PcType /\ FdsType
    BY <1>10, GotoType DEF Message
  <2> QED BY <1>10, <2>1 DEF Message, Handle, peerVars, history, fileVars, TypeOK
<1>11. CASE Command(p)
  <2>1. PcType /\ FdsType
    BY <1>11, GotoType DEF Command
  <2>2. replies' \in [Conns -> Seq(Replies)]
    <3>1. buffer[p] \in {"ls", "get"}
      BY <1>11 DEF Command, IsCommand, Reply
    <3> DEFINE there == name[clnt_sock[p]] \in dir
    <3>2. Write(clnt_sock[p], Answer(buffer[p], there)) /\ there \in BOOLEAN
      BY <1>11 DEF Command
    <3> HIDE DEF there
    <3>3. ASSUME NEW c \in Conns
          PROVE  Append(replies[c], Answer(buffer[p], there)) \in Seq(Replies)
      <4>1. replies[c] \in Seq(Replies) /\ Answer(buffer[p], there) \in Replies
        <5>1. buffer[p] \in DOMAIN Reply
          BY <3>1 DEF Reply
        <5> QED BY <3>2, <5>1, AnswerType DEF TypeOK
      <4> QED BY <4>1, Appended
    <3>4. \/ replies' = [replies EXCEPT ![clnt_sock[p]] = Append(@, Answer(buffer[p], there))]
          \/ UNCHANGED replies
      BY <3>2 DEF Write
    <3>5. replies \in [Conns -> Seq(Replies)]
      BY DEF TypeOK
    <3> QED BY <3>3, <3>4, <3>5
  <2> QED BY <1>11, <2>1, <2>2 DEF Command, Handle, peerVars, history, fileVars, TypeOK
<1>12. CASE Quit(p)
  <2>1. PcType /\ FdsType
    BY <1>12, GotoType DEF Quit
  <2> QED BY <1>12, <2>1 DEF Quit, Handle, peerVars, history, fileVars, TypeOK
<1>13. CASE Killed(p)
  <2>1. PcType /\ FdsType
    BY <1>13, GotoType DEF Killed
  <2>2. backlog' \in Seq(Conns)
    <3>1. backlog \in Seq(Conns)
      BY DEF TypeOK
    <3>2. (backlog # <<>> /\ backlog' = Tail(backlog)) \/ UNCHANGED backlog
      BY <1>13 DEF Killed, MayAccept
    <3> QED BY <3>1, <3>2, HeadTail
  <2> QED BY <1>13, <2>1, <2>2 DEF Killed, peerVars, history, fileVars, TypeOK
<1>14. CASE Wait(p)
  <2>1. PcType /\ FdsType
    BY <1>14 DEF Wait, TypeOK
  <2> QED BY <1>14, <2>1 DEF Wait, peerVars, history, fileVars, TypeOK
<1> QED
  BY <1>1, <1>2, <1>3, <1>4, <1>5, <1>6, <1>7, <1>8, <1>9, <1>10, <1>11, <1>12, <1>13, <1>14
  DEF Process

\* Whatever a reset does to the backlog, a sequence of fewer of the same connections
\* is left, in different places as they were.
LEMMA ResetBacklog ==
  ASSUME TypeOK, BacklogOnce, NEW c \in Conns, Reset(c)
  PROVE  /\ backlog' \in Seq(Conns)
         /\ BacklogOnce'
         /\ \A j \in DOMAIN backlog' : \E k \in DOMAIN backlog : backlog'[j] = backlog[k]
<1>1. backlog \in Seq(Conns)
  BY DEF TypeOK
<1>2. CASE UNCHANGED backlog
  BY <1>1, <1>2 DEF BacklogOnce
<1>3. ASSUME NEW k \in DOMAIN backlog, backlog' = RemoveAt(backlog, k)
      PROVE  /\ backlog' \in Seq(Conns)
             /\ BacklogOnce'
             /\ \A j \in DOMAIN backlog' : \E i \in DOMAIN backlog : backlog'[j] = backlog[i]
  <2> DEFINE Was(j) == IF j < k THEN j ELSE j + 1
  <2>1. k \in 1 .. Len(backlog) /\ DOMAIN backlog = 1 .. Len(backlog) /\ Len(backlog) \in Nat
    BY <1>1
  <2>2. /\ backlog' \in Seq(Conns) /\ Len(backlog') = Len(backlog) - 1
        /\ \A j \in 1 .. Len(backlog') : backlog'[j] = backlog[Was(j)]
    BY <1>1, <1>3, <2>1, Removal
  <2>3. DOMAIN backlog' = 1 .. Len(backlog')
    BY <2>2
  <2>4. \A j \in DOMAIN backlog' : Was(j) \in DOMAIN backlog
    BY <2>1, <2>2, <2>3
  <2>5. \A i, j \in DOMAIN backlog' : Was(i) = Was(j) => i = j
    BY <2>1, <2>2, <2>3
  <2> HIDE DEF Was
  <2> QED BY <2>2, <2>3, <2>4, <2>5 DEF BacklogOnce
<1> QED BY <1>2, <1>3 DEF Reset

\* The actions of a client keep the types.
LEMMA ClientType ==
  ASSUME TypeOK, BacklogOnce, NEW c \in Conns, Client(c)
  PROVE  TypeOK'
<1>1. CASE Connect(c)
  <2>1. backlog \in Seq(Conns) /\ backlog' = Append(backlog, c)
    BY <1>1 DEF Connect, TypeOK
  <2>2. backlog' \in Seq(Conns)
    BY <2>1, Appended
  <2> QED BY <1>1, <2>2 DEF Connect, procVars, history, fileVars, TypeOK
<1>2. CASE Send(c)
  <2>1. PICK m \in Msgs : /\ inq' = [inq EXCEPT ![c] = Append(inq[c], m)]
                          /\ mid' = [mid EXCEPT ![c] = IF m = "head" THEN TRUE ELSE mid[c] /\ m # "tail"]
    BY <1>2 DEF Send
  <2>2. inq' \in [Conns -> Seq(Msgs)]
    <3>1. Append(inq[c], m) \in Seq(Msgs)
      BY Appended DEF TypeOK
    <3> QED BY <2>1, <3>1 DEF TypeOK
  <2>3. mid' \in [Conns -> BOOLEAN]
    BY <2>1 DEF TypeOK
  <2>4. nsent' \in [Conns -> 0 .. MaxMsgs]
    BY <1>2, ForkAssumption DEF Send, TypeOK
  <2> QED BY <1>2, <2>2, <2>3, <2>4 DEF Send, procVars, history, fileVars, TypeOK
<1>3. CASE Read(c)
  BY <1>3 DEF Read, procVars, history, fileVars, TypeOK
<1>4. CASE Leave(c)
  BY <1>4 DEF Leave, procVars, history, fileVars, TypeOK
<1>5. CASE Reset(c)
  <2>1. backlog' \in Seq(Conns)
    BY <1>5, ResetBacklog
  <2> QED BY <1>5, <2>1 DEF Reset, procVars, history, fileVars, TypeOK
<1> QED BY <1>1, <1>2, <1>3, <1>4, <1>5 DEF Client
-----------------------------------------------------------------------------
(* Who has a connection.                                                   *)

Owners == BacklogOnce /\ BacklogUnopened /\ IdleUnknown /\ HoldsIt /\ Alone

\* Steps after which nobody has or attends a connection who did not before, and
\* nothing is new in the backlog.
LEMMA Keeps ==
  ASSUME TypeOK, TypeOK', Owners, UNCHANGED clnt_sock, BacklogOnce',
         \A j \in DOMAIN backlog' : \E k \in DOMAIN backlog : backlog'[j] = backlog[k],
         \A c \in Conns : state'[c] = "idle" => state[c] = "idle",
         \A q \in Procs : /\ fds'[q] \subseteq fds[q]
                          /\ Attends(q)' => Attends(q) /\ fds'[q] = fds[q]
  PROVE  Owners'
<1>1. BacklogUnopened'
  BY DEF Owners, BacklogUnopened
<1>2. IdleUnknown'
  BY DEF Owners, IdleUnknown
<1>3. HoldsIt'
  BY DEF Owners, HoldsIt, Attends
<1>4. Alone'
  BY DEF Owners, Alone, Attends
<1> QED BY <1>1, <1>2, <1>3, <1>4 DEF Owners

\* Steps of a process within its own program.
LEMMA GotoKeeps ==
  ASSUME TypeOK, TypeOK', Owners, NEW p \in Procs,
         UNCHANGED <<clnt_sock, backlog, state>>,
         NEW next \in {"accept", "recv", "handle", "wait", "ended"}, Goto(p, next),
         Attends(p) \/ next \in {"accept", "wait", "ended"}
  PROVE  Owners'
<1>1. \A q \in Procs : /\ fds'[q] \subseteq fds[q]
                       /\ Attends(q)' => Attends(q) /\ fds'[q] = fds[q]
  BY DEF Goto, Attends, TypeOK
<1>2. BacklogOnce'
  BY DEF Owners, BacklogOnce
<1> QED BY <1>1, <1>2, Keeps

LEMMA AcceptOwners ==
  ASSUME TypeOK, TypeOK', Owners, NEW p \in Procs, Accept(p)
  PROVE  Owners'
<1> DEFINE c == Head(backlog)
<1>1. backlog \in Seq(Conns) /\ backlog # <<>> /\ backlog' = Tail(backlog)
  BY DEF Accept, MayAccept, TypeOK
<1>2. /\ c \in Conns /\ 1 \in DOMAIN backlog /\ c = backlog[1]
      /\ \A j \in DOMAIN backlog' : /\ j + 1 \in DOMAIN backlog /\ j \in Nat /\ j # 0
                                    /\ backlog'[j] = backlog[j + 1]
  <2>1. \A j \in DOMAIN backlog' : j # 0
    BY <1>1
  <2> QED BY <1>1, <2>1, HeadTail
<1>3. /\ clnt_sock' = [clnt_sock EXCEPT ![p] = c]
      /\ fds' = [fds EXCEPT ![p] = fds[p] \union {c}]
      /\ pc[p] = "accept" /\ pc' = [pc EXCEPT ![p] = "fork"] /\ UNCHANGED state
  BY DEF Accept, MayAccept, peerVars
<1> HIDE DEF c
<1>4. /\ clnt_sock'[p] = c /\ fds'[p] = fds[p] \union {c} /\ state' = state
       /\ \A q \in Procs \ {p} : /\ clnt_sock'[q] = clnt_sock[q] /\ fds'[q] = fds[q]
                                 /\ pc'[q] = pc[q]
  BY <1>3 DEF TypeOK
<1>5. \A q \in Procs : c \notin fds[q]
  BY <1>2 DEF Owners, BacklogUnopened
<1>6. \A j \in DOMAIN backlog' : backlog'[j] # c
  BY <1>2 DEF Owners, BacklogOnce
<1>7. state[c] # "idle"
  BY <1>2 DEF Owners, IdleUnknown
<1>8. BacklogOnce'
  BY <1>2 DEF Owners, BacklogOnce
<1>9. BacklogUnopened'
  BY <1>2, <1>4, <1>6 DEF Owners, BacklogUnopened
<1>10. IdleUnknown'
  BY <1>2, <1>4, <1>7 DEF Owners, IdleUnknown
<1>11. HoldsIt'
  BY <1>4 DEF Owners, HoldsIt, Attends
<1>12. Alone'
  \* The others attend connections they have, and nobody has c.
  BY <1>4, <1>5 DEF Owners, Alone, HoldsIt, Attends
<1> QED BY <1>8, <1>9, <1>10, <1>11, <1>12 DEF Owners

\* The child takes over what the parent attended.
LEMMA ForkOwners ==
  ASSUME TypeOK, TypeOK', Owners, NEW p \in Procs, Fork(p)
  PROVE  Owners'
<1>1. PICK q \in Procs : /\ pc[q] = "unborn"
                         /\ pc' = [pc EXCEPT ![p] = AfterFork, ![q] = "recv"]
                         /\ clnt_sock' = [clnt_sock EXCEPT ![q] = clnt_sock[p]]
                         /\ fds' = [fds EXCEPT ![q] = fds[p]]
  BY DEF Fork
<1>2. pc[p] = "fork" /\ p # q /\ UNCHANGED <<backlog, state>>
  BY <1>1 DEF Fork, peerVars
<1>3. /\ pc'[p] = "accept" /\ pc'[q] = "recv"
      /\ clnt_sock'[q] = clnt_sock[p] /\ fds'[q] = fds[p]
      /\ \A r \in Procs : r # q => clnt_sock'[r] = clnt_sock[r] /\ fds'[r] = fds[r]
      /\ \A r \in Procs \ {p, q} : pc'[r] = pc[r]
  BY <1>1, <1>2 DEF AfterFork, TypeOK
<1>4. BacklogOnce' /\ BacklogUnopened' /\ IdleUnknown'
  BY <1>2, <1>3 DEF Owners, BacklogOnce, BacklogUnopened, IdleUnknown
<1>5. HoldsIt'
  BY <1>2, <1>3 DEF Owners, HoldsIt, Attends
<1>6. Alone'
  BY <1>2, <1>3 DEF Owners, Alone, Attends
<1> QED BY <1>4, <1>5, <1>6 DEF Owners

LEMMA ConnectOwners ==
  ASSUME TypeOK, TypeOK', Owners, NEW c \in Conns, Connect(c)
  PROVE  Owners'
<1>1. /\ state[c] = "idle" /\ backlog' = Append(backlog, c) /\ backlog \in Seq(Conns)
      /\ state' = [state EXCEPT ![c] = "open"] /\ UNCHANGED <<pc, clnt_sock, fds>>
  BY DEF Connect, procVars, history, fileVars, TypeOK
<1>2. /\ DOMAIN backlog = 1 .. Len(backlog) /\ Len(backlog) \in Nat
      /\ DOMAIN backlog' = 1 .. Len(backlog) + 1
      /\ \A j \in DOMAIN backlog' : IF j \in DOMAIN backlog THEN backlog'[j] = backlog[j]
                                    ELSE j = Len(backlog) + 1 /\ backlog'[j] = c
  BY <1>1
<1>3. (\A k \in DOMAIN backlog : backlog[k] # c) /\ (\A p \in Procs : c \notin fds[p])
  BY <1>1 DEF Owners, IdleUnknown
<1>4. BacklogOnce'
  BY <1>2, <1>3 DEF Owners, BacklogOnce
<1>5. BacklogUnopened'
  BY <1>1, <1>2, <1>3 DEF Owners, BacklogUnopened
<1>6. IdleUnknown'
  <2>1. \A d \in Conns : state'[d] = "idle" => d # c /\ state[d] = "idle"
    BY <1>1 DEF TypeOK
  <2>2. \A j \in DOMAIN backlog' : backlog'[j] # c => \E k \in DOMAIN backlog : backlog'[j] = backlog[k]
    BY <1>2
  <2> QED BY <1>1, <2>1, <2>2 DEF Owners, IdleUnknown
<1>7. HoldsIt' /\ Alone'
  BY <1>1 DEF Owners, HoldsIt, Alone, Attends
<1> QED BY <1>4, <1>5, <1>6, <1>7 DEF Owners

LEMMA ProcessOwners ==
  ASSUME TypeOK, TypeOK', Owners, NEW p \in Procs, Process(p)
  PROVE  Owners'
<1>1. CASE Accept(p)
  BY <1>1, AcceptOwners
<1>2. CASE AcceptFails(p)
  BY <1>2, GotoKeeps DEF AcceptFails, peerVars
<1>3. CASE Fork(p)
  BY <1>3, ForkOwners
<1>4. CASE ForkFails(p)
  BY <1>4, GotoKeeps DEF ForkFails, peerVars
<1>5. CASE Recv(p)
  BY <1>5, GotoKeeps DEF Recv, Attends
<1>6. CASE RecvEnd(p)
  <2>1. \A q \in Procs : /\ fds'[q] \subseteq fds[q]
                         /\ Attends(q)' => Attends(q) /\ fds'[q] = fds[q]
    BY <1>6 DEF RecvEnd, AfterFin, Attends, TypeOK
  <2>2. UNCHANGED <<clnt_sock, backlog, state>>
    BY <1>6 DEF RecvEnd, peerVars
  <2>3. BacklogOnce'
    BY <2>2 DEF Owners, BacklogOnce
  <2> QED BY <2>1, <2>2, <2>3, Keeps
<1>7. CASE Handle(p) /\ (Goto(p, "recv") \/ Goto(p, "ended"))
  BY <1>7, GotoKeeps DEF Handle, peerVars, Attends
<1>8. CASE Killed(p)
  <2>1. backlog \in Seq(Conns) /\ (UNCHANGED backlog \/ (backlog # <<>> /\ backlog' = Tail(backlog)))
    BY <1>8 DEF Killed, MayAccept, TypeOK
  <2>2. \/ UNCHANGED backlog
        \/ \A j \in DOMAIN backlog' : /\ j + 1 \in DOMAIN backlog /\ j \in Nat
                                      /\ backlog'[j] = backlog[j + 1]
    BY <2>1, HeadTail
  <2>3. BacklogOnce'
    BY <2>2 DEF Owners, BacklogOnce
  <2>4. \A q \in Procs : /\ fds'[q] \subseteq fds[q]
                         /\ Attends(q)' => Attends(q) /\ fds'[q] = fds[q]
    BY <1>8 DEF Killed, Goto, Attends, TypeOK
  <2>5. UNCHANGED <<clnt_sock, state>>
    BY <1>8 DEF Killed, peerVars
  <2> QED BY <2>2, <2>3, <2>4, <2>5, Keeps
<1>9. CASE Wait(p)
  <2>1. \A q \in Procs : /\ fds'[q] \subseteq fds[q]
                         /\ Attends(q)' => Attends(q) /\ fds'[q] = fds[q]
    BY <1>9 DEF Wait, Attends, TypeOK
  <2>2. UNCHANGED <<clnt_sock, backlog, state>>
    BY <1>9 DEF Wait, peerVars
  <2>3. BacklogOnce'
    BY <2>2 DEF Owners, BacklogOnce
  <2> QED BY <2>1, <2>2, <2>3, Keeps
<1> QED
  BY <1>1, <1>2, <1>3, <1>4, <1>5, <1>6, <1>7, <1>8, <1>9
  DEF Process, BeginUpload, Chunk, ShortChunk, Message, Command, Quit

LEMMA ClientOwners ==
  ASSUME TypeOK, TypeOK', Owners, NEW c \in Conns, Client(c)
  PROVE  Owners'
<1>1. CASE Connect(c)
  BY <1>1, ConnectOwners
<1>2. CASE Send(c) \/ Read(c) \/ Leave(c)
  <2>1. /\ UNCHANGED <<pc, clnt_sock, fds, backlog>>
        /\ \A d \in Conns : state'[d] = "idle" => state[d] = "idle"
    BY <1>2 DEF Send, Read, Leave, procVars, history, fileVars, TypeOK
  <2>2. BacklogOnce'
    BY <2>1 DEF Owners, BacklogOnce
  <2> QED BY <2>1, <2>2, Keeps DEF Attends
<1>3. CASE Reset(c)
  <2>1. /\ BacklogOnce'
        /\ \A j \in DOMAIN backlog' : \E k \in DOMAIN backlog : backlog'[j] = backlog[k]
    BY <1>3, ResetBacklog DEF Owners
  <2>2. /\ UNCHANGED <<pc, clnt_sock, fds>>
        /\ \A d \in Conns : state'[d] = "idle" => state[d] = "idle"
    BY <1>3 DEF Reset, procVars, history, fileVars, TypeOK
  <2> QED BY <2>1, <2>2, Keeps DEF Attends
<1> QED BY <1>1, <1>2, <1>3 DEF Client
-----------------------------------------------------------------------------
LEMMA NextInv == Inv /\ [Next]_vars => Inv'
<1> SUFFICES ASSUME Inv, [Next]_vars PROVE Inv'
  OBVIOUS
<1>1. TypeOK /\ Owners /\ HoldsIt /\ BacklogOnce
  BY DEF Inv, Owners
<1>2. ASSUME NEW p \in Procs, Process(p) PROVE Inv'
  <2>1. TypeOK'
    BY <1>1, <1>2, ProcessType
  <2>2. Owners'
    BY <1>1, <1>2, <2>1, ProcessOwners
  <2> QED BY <2>1, <2>2 DEF Inv, Owners
<1>3. ASSUME NEW c \in Conns, Client(c) PROVE Inv'
  <2>1. TypeOK'
    BY <1>1, <1>3, ClientType
  <2>2. Owners'
    BY <1>1, <1>3, <2>1, ClientOwners
  <2> QED BY <2>1, <2>2 DEF Inv, Owners
<1>4. CASE UNCHANGED vars
  <2>1. TypeOK'
    BY <1>1, <1>4 DEF vars, procVars, peerVars, history, fileVars, TypeOK
  <2>2. Owners'
    BY <1>1, <1>4 DEF vars, procVars, peerVars, Owners, BacklogOnce, BacklogUnopened,
                      IdleUnknown, HoldsIt, Alone, Attends
  <2> QED BY <2>1, <2>2 DEF Inv, Owners
<1> QED BY <1>2, <1>3, <1>4 DEF Next

\* The inductive invariant holds in every reachable state.
THEOREM Invariance == Spec => []Inv
<1>1. Init => Inv
  BY InitInv
<1>2. Inv /\ [Next]_vars => Inv'
  BY NextInv
<1> QED BY <1>1, <1>2, PTL DEF Spec

\* Every variable has its type, for any number of processes, connections and
\* messages: nothing but connections is ever opened, queued or written to.
THEOREM Types == Spec => []TypeOK
<1>1. Inv => TypeOK
  BY DEF Inv
<1> QED BY <1>1, Invariance, PTL

\* No two processes of server_run() or server_run_cmd() attend the same connection,
\* and what a process attends it has open and nobody can accept again, whatever
\* fails and whatever the clients do.
THEOREM Readers == Spec => []OneReader
<1>1. Inv => OneReader
  BY DEF Inv, OneReader, Alone, HoldsIt, BacklogUnopened, InBacklog
<1> QED BY <1>1, Invariance, PTL
-----------------------------------------------------------------------------
(* Each client is served as if it were alone.                              *)

\* The session as it will be once the work on all messages received is done.
Due(c) ==
  IF handled[c] = <<>> THEN alone[c] ELSE After(c, alone[c], Last(handled[c]))

\* Nothing has happened to a connection that nobody has accepted.
Untouched ==
  \A c \in Conns : state[c] = "idle" \/ InBacklog(c) =>
    handled[c] = <<>> /\ alone[c] = Start /\ replies[c] = <<>>

ServedAlone(c) == replies[c] # <<>> /\ state[c] = "open" => RepliedAlone(c)

\* data/ has the files that were uploaded, and no others.
Uploaded ==
  /\ \A c \in Conns : Private(c).made => name[c] \in dir
  /\ \A n \in dir : \E c \in Conns : name[c] = n /\ Private(c).made

\* The variables of a process that attends c are those of a private session.
OwnVariables(p, c) ==
  /\ receiveing[p] = Private(c).receiveing
  /\ receiveing[p] => pfile[p] = p /\ stream[p].name = name[c]
  /\ state[c] = "open" => replies[c] # <<>>
  /\ pc[p] = "fork" => handled[c] = <<>> /\ alone[c] = Start
  /\ pc[p] = "handle" => handled[c] # <<>> /\ buffer[p] = Last(handled[c])

\* Messages after which a polite client is in the middle of an upload.
Opens == {"head", "full", "part"}

\* What is sent and not received goes on where the received part stops.
Orderly(c) ==
  /\ alone[c].receiveing \/ Due(c).receiveing => Commands
  /\ Due(c).receiveing => IF inq[c] = <<>> THEN mid[c] ELSE inq[c][1] \in Chunks
  /\ inq[c] # <<>> =>
       /\ mid[c] <=> inq[c][Len(inq[c])] \in Opens
       /\ \A k \in 1 .. Len(inq[c]) - 1 : inq[c][k] \in Opens <=> inq[c][k + 1] \in Chunks
  /\ state[c] \in {"fin", "rst"} => ~mid[c]
  /\ state[c] = "rst" => inq[c] = <<>>

IsoInv ==
  /\ Untouched /\ Uploaded
  /\ \A c \in Conns : ServedAlone(c) /\ Orderly(c)
  /\ \A p \in Procs : Attends(p) => OwnVariables(p, clnt_sock[p])
  /\ \A p \in Procs : pc[p] = "accept" => ~receiveing[p]

\* What was appended last is the last element.
LEMMA LastAppended ==
  ASSUME NEW S, NEW q \in Seq(S), NEW e
  PROVE  LET a == Append(q, e) IN a # <<>> /\ a[Len(a)] = e
<1> DEFINE a == Append(q, e)
<1>1. Len(q) \in Nat /\ Len(a) = Len(q) + 1 /\ a[Len(q) + 1] = e
  OBVIOUS
<1>2. Len(<<>>) = 0
  OBVIOUS
<1> HIDE DEF a
<1>3. a # <<>> /\ a[Len(a)] = e
  BY <1>1, <1>2
<1> QED BY <1>3 DEF a

\* What a server with one client goes on to after a message, part by part.
LEMMA AfterIs ==
  ASSUME NEW c, NEW s \in Sessions, NEW m
  PROVE  LET t == After(c, s, m) IN
         /\ t.receiveing = IF s.receiveing THEN m = "full" ELSE Commands /\ m = "head"
         /\ t.made = (s.made \/ (~s.receiveing /\ Commands /\ m = "head"))
         /\ t.file = IF s.receiveing
                     THEN IF m \in {"full", "tail"} THEN Append(s.file, <<c, m>>) ELSE s.file
                     ELSE IF Commands /\ m = "head" THEN <<>> ELSE s.file
         /\ t.replies = IF ~s.receiveing /\ Commands /\ m # "head" /\ m \in DOMAIN Reply
                        THEN Append(s.replies, Answer(m, s.made)) ELSE s.replies
<1>1. /\ s = [replies |-> s.replies, file |-> s.file, made |-> s.made, receiveing |-> s.receiveing]
      /\ s.receiveing \in BOOLEAN /\ s.made \in BOOLEAN
  BY DEF Sessions
<1>2. CASE s.receiveing
  BY <1>1, <1>2 DEF After
<1>3. CASE ~s.receiveing /\ Commands /\ m = "head"
  BY <1>1, <1>3 DEF After
<1>4. CASE ~s.receiveing /\ m # "head" /\ Commands /\ m \in DOMAIN Reply
  <2>1. After(c, s, m) = [s EXCEPT !.replies = Append(s.replies, Answer(m, s.made))]
    BY <1>4 DEF After
  <2> QED BY <1>1, <1>4, <2>1
<1>5. CASE ~s.receiveing /\ ~(Commands /\ m = "head") /\ ~(Commands /\ m \in DOMAIN Reply)
  <2>1. After(c, s, m) = s
    BY <1>5 DEF After
  <2> QED BY <1>1, <1>5, <2>1
<1> QED BY <1>2, <1>3, <1>4, <1>5

\* The file alone.
LEMMA AfterFile ==
  ASSUME NEW c, NEW s \in Sessions, NEW m
  PROVE  After(c, s, m).file =
           IF s.receiveing THEN IF m \in {"full", "tail"} THEN Append(s.file, <<c, m>>) ELSE s.file
           ELSE IF Commands /\ m = "head" THEN <<>> ELSE s.file
BY AfterIs

\* Replies like those of a private session, but for the files of others.
Like(actual, mine, shared) ==
  /\ Len(actual) = Len(mine)
  /\ \A k \in DOMAIN mine :
       actual[k] = mine[k] \/ (actual[k] = "contents" /\ mine[k] = "failed" /\ shared)

\* One more reply to both.
LEMMA LikeAppended ==
  ASSUME NEW actual \in Seq(Replies), NEW mine \in Seq(Replies), NEW shared,
         Like(actual, mine, shared), NEW x \in Replies, NEW y \in Replies,
         x = y \/ (x = "contents" /\ y = "failed" /\ shared)
  PROVE  Like(Append(actual, x), Append(mine, y), shared)
<1> DEFINE a == Append(actual, x)
           b == Append(mine, y)
           n == Len(mine)
<1>1. /\ n \in Nat /\ Len(actual) = n /\ Len(a) = n + 1 /\ Len(b) = n + 1
      /\ DOMAIN mine = 1 .. n /\ DOMAIN b = 1 .. n + 1
      /\ a[n + 1] = x /\ b[n + 1] = y
      /\ \A k \in 1 .. n : a[k] = actual[k] /\ b[k] = mine[k]
  BY DEF Like
<1>2. \A k \in 1 .. n : \/ actual[k] = mine[k]
                        \/ actual[k] = "contents" /\ mine[k] = "failed" /\ shared
  <2>1. \A k \in DOMAIN mine : \/ actual[k] = mine[k]
                               \/ actual[k] = "contents" /\ mine[k] = "failed" /\ shared
    BY DEF Like
  <2> QED BY <1>1, <2>1, Zenon
<1> HIDE DEF a, b, n
<1>3. Like(a, b, shared)
  BY <1>1, <1>2 DEF Like
<1> QED BY <1>3 DEF a, b

LEMMA AloneIsLike ==
  ASSUME NEW c
  PROVE  RepliedAlone(c) <=> Like(replies[c], Private(c).replies, Shared(c))
BY DEF RepliedAlone, Like

\* A file that has been made does not disappear.
LEMMA SharedStays ==
  ASSUME UNCHANGED name, NEW c \in Conns,
         \A d \in Conns \ {c} : Private(d).made => Private(d)'.made
  PROVE  Shared(c) => Shared(c)'
<1> SUFFICES ASSUME Shared(c) PROVE Shared(c)'
  OBVIOUS
<1>1. PICK d \in Conns \ {c} : name[d] = name[c] /\ Private(d).made
  BY DEF Shared
<1>2. name' = name /\ Private(d)'.made
  BY <1>1
<1> QED BY <1>1, <1>2 DEF Shared

\* Who has been served alone still is, if neither its replies nor its private session
\* have changed.
LEMMA ServedStays ==
  ASSUME UNCHANGED name, NEW c \in Conns, ServedAlone(c),
         \A d \in Conns \ {c} : Private(d).made => Private(d)'.made,
         replies'[c] = replies[c], Private(c)' = Private(c),
         state'[c] = "open" => state[c] = "open" \/ replies[c] = <<>>
  PROVE  ServedAlone(c)'
<1>1. Shared(c) => Shared(c)'
  BY SharedStays
<1>2. ASSUME replies'[c] # <<>>, state'[c] = "open" PROVE RepliedAlone(c)'
  <2>1. RepliedAlone(c)
    BY <1>2 DEF ServedAlone
  <2> QED BY <1>1, <2>1 DEF RepliedAlone
<1> QED BY <1>2 DEF ServedAlone

\* No file has been made, and none has disappeared.
LEMMA UploadedStays ==
  ASSUME UNCHANGED <<name, dir>>, Uploaded, \A c \in Conns : Private(c)' = Private(c)
  PROVE  Uploaded'
BY DEF Uploaded

\* Nobody works on the messages of a connection while a process does something else
\* with it.
LEMMA NotAtWork ==
  ASSUME Inv, NEW p \in Procs, Attends(p), pc[p] # "handle"
  PROVE  /\ clnt_sock[p] \in Conns /\ ~AtWork(clnt_sock[p])
         /\ Private(clnt_sock[p]) = Due(clnt_sock[p])
<1>1. clnt_sock[p] \in Conns
  BY DEF Inv, HoldsIt, TypeOK
<1>2. ~AtWork(clnt_sock[p])
  BY DEF Inv, Alone, AtWork, Attends
<1> QED BY <1>1, <1>2 DEF Private, Due

\* A process at work on a message is the only one that attends its connection.
LEMMA WorkedOn ==
  ASSUME Inv, NEW p \in Procs, pc[p] = "handle"
  PROVE  /\ clnt_sock[p] \in Conns /\ AtWork(clnt_sock[p]) /\ Attends(p)
         /\ Private(clnt_sock[p]) = alone[clnt_sock[p]]
         /\ \A q \in Procs : Attends(q) /\ clnt_sock[q] = clnt_sock[p] => q = p
<1>1. Attends(p)
  BY DEF Attends
<1>2. clnt_sock[p] \in Conns
  BY <1>1 DEF Inv, HoldsIt, TypeOK
<1>3. AtWork(clnt_sock[p])
  BY DEF AtWork
<1>4. \A q \in Procs : Attends(q) /\ clnt_sock[q] = clnt_sock[p] => q = p
  BY <1>1 DEF Inv, Alone
<1> QED BY <1>1, <1>2, <1>3, <1>4 DEF Private

\* Steps that leave the messages received as they are, and who works on them.
LEMMA SamePrivate ==
  ASSUME UNCHANGED history, NEW c \in Conns, AtWork(c)' <=> AtWork(c)
  PROVE  Private(c)' = Private(c) /\ Due(c)' = Due(c)
BY DEF history, Private, Due

\* Nothing has happened yet.
LEMMA InitIso == Init => IsoInv
<1> SUFFICES ASSUME Init PROVE IsoInv
  OBVIOUS
<1>1. \A c \in Conns : Private(c) = Start /\ Due(c) = Start /\ ~Start.receiveing
  BY DEF Init, Private, Due, Start
<1>2. \A c \in Conns : ServedAlone(c) /\ Orderly(c)
  BY <1>1 DEF Init, ServedAlone, Orderly, Start
<1>3. Untouched /\ Uploaded
  BY <1>1 DEF Init, Untouched, Uploaded, Start
<1>4. \A p \in Procs : ~Attends(p) /\ ~receiveing[p]
  BY DEF Init, Attends
<1> QED BY <1>2, <1>3, <1>4 DEF IsoInv

\* What is known of a process at work on a message.
LEMMA Working ==
  ASSUME Inv, IsoInv, NEW p \in Procs, pc[p] = "handle"
  PROVE  LET c == clnt_sock[p] IN
         /\ c \in Conns /\ Private(c) \in Sessions /\ Private(c) = alone[c]
         /\ state[c] = "open" => RepliedAlone(c) /\ replies[c] # <<>>
         /\ receiveing[p] = Private(c).receiveing
         /\ receiveing[p] => pfile[p] = p /\ stream[p].name = name[c]
         /\ handled[c] # <<>> /\ buffer[p] = Last(handled[c]) /\ buffer[p] \in Msgs
         /\ receiveing[p] => Commands
<1> DEFINE c == clnt_sock[p]
<1>1. c \in Conns /\ Private(c) = alone[c] /\ Attends(p)
  BY WorkedOn
<1>2. Private(c) \in Sessions /\ handled[c] \in Seq(Msgs)
  BY <1>1, PrivateType DEF Inv, TypeOK
<1>3. ServedAlone(c) /\ OwnVariables(p, c) /\ Orderly(c)
  BY <1>1 DEF IsoInv
<1>4. Last(handled[c]) \in Msgs
  BY <1>2, <1>3 DEF OwnVariables, Last
<1>5. alone[c].receiveing => Commands
  BY <1>3 DEF Orderly
<1> QED BY <1>1, <1>2, <1>3, <1>4, <1>5 DEF ServedAlone, OwnVariables

\* The end of the work on a message is a step of the private session, and of no other.
LEMMA WorkedOff ==
  ASSUME Inv, IsoInv, NEW p \in Procs, pc[p] = "handle",
         NEW next \in {"recv", "ended"}, pc' = [pc EXCEPT ![p] = next],
         UNCHANGED <<clnt_sock, history>>,
         NEW c, c = clnt_sock[p]
  PROVE  /\ Private(c)' = After(c, Private(c), buffer[p])
         /\ \A d \in Conns \ {c} : Private(d)' = Private(d)
<1>1. /\ c \in Conns /\ handled[c] # <<>> /\ buffer[p] = Last(handled[c])
      /\ Private(c) = alone[c] /\ Attends(p)
      /\ \A q \in Procs : Attends(q) /\ clnt_sock[q] = c => q = p
  BY Working, WorkedOn
<1>2. /\ UNCHANGED <<handled, alone, clnt_sock>>
      /\ pc'[p] = next /\ \A q \in Procs \ {p} : pc'[q] = pc[q]
  BY DEF history, Inv, TypeOK
<1>3. ~AtWork(c)'
  BY <1>1, <1>2 DEF AtWork, Attends
<1>4. Private(c)' = After(c, Private(c), buffer[p])
  BY <1>1, <1>2, <1>3 DEF Private
<1>5. ASSUME NEW d \in Conns \ {c} PROVE Private(d)' = Private(d)
  <2>1. AtWork(d)' <=> AtWork(d)
    BY <1>2 DEF AtWork
  <2> QED BY <2>1, SamePrivate
<1> QED BY <1>4, <1>5

\* The directory after the work on a message of c's, if its session is s then.
DirDone(c, s) ==
  /\ s.made => name[c] \in dir'
  /\ dir \subseteq dir'
  /\ \A n \in dir' : n \in dir \/ (n = name[c] /\ s.made)

\* The replies, the variables of the other processes, and those of p.
RepliesDone(c, s) ==
  /\ \A d \in Conns \ {c} : replies'[d] = replies[d]
  /\ state[c] = "open" => Like(replies'[c], s.replies, Shared(c)) /\ replies'[c] # <<>>

OthersSame(p) ==
  \A q \in Procs \ {p} :
    receiveing'[q] = receiveing[q] /\ pfile'[q] = pfile[q] /\ stream'[q] = stream[q]

OwnDone(p, c, s) ==
  /\ receiveing'[p] = s.receiveing
  /\ receiveing'[p] => pfile'[p] = p /\ stream'[p].name = name[c]

\* It is well done if the replies, the directory and the variables of the process are
\* then those of the private session.
LEMMA WorkDone ==
  ASSUME Inv, IsoInv, NEW p \in Procs, pc[p] = "handle",
         NEW next \in {"recv", "ended"}, pc' = [pc EXCEPT ![p] = next],
         UNCHANGED <<clnt_sock, buffer, peerVars, backlog, history, name>>,
         NEW c, c = clnt_sock[p],
         NEW s, s = After(c, Private(c), buffer[p]),
         DirDone(c, s), RepliesDone(c, s), OthersSame(p), next = "recv" => OwnDone(p, c, s)
  PROVE  IsoInv'
<1>1. /\ c \in Conns /\ Private(c) \in Sessions /\ Attends(p)
      /\ \A q \in Procs : Attends(q) /\ clnt_sock[q] = c => q = p
  BY Working, WorkedOn
<1>2. /\ UNCHANGED <<state, inq, mid, handled, alone, backlog, clnt_sock, buffer, name>>
      /\ pc'[p] = next /\ \A q \in Procs \ {p} : pc'[q] = pc[q]
  BY <1>1 DEF peerVars, history, Inv, TypeOK
<1>3. Private(c)' = s /\ \A d \in Conns \ {c} : Private(d)' = Private(d)
  BY WorkedOff
<1>4. Private(c).made => s.made
  BY <1>1, AfterIs
<1>5. \A d \in Conns : Private(d).made => Private(d)'.made
  BY <1>3, <1>4
<1>6. \A d \in Conns : Due(d)' = Due(d)
  BY <1>2 DEF Due
<1>7. Untouched'
  <2>1. ~(state[c] = "idle" \/ InBacklog(c))
    BY <1>1 DEF Inv, HoldsIt, IdleUnknown, BacklogUnopened, InBacklog
  <2>2. \A d \in Conns : InBacklog(d)' <=> InBacklog(d)
    BY <1>2 DEF InBacklog
  <2> QED BY <1>2, <2>1, <2>2 DEF IsoInv, Untouched, RepliesDone
<1>8. Uploaded'
  <2>1. ASSUME NEW d \in Conns, Private(d)'.made PROVE name[d] \in dir'
    BY <1>3, <2>1 DEF IsoInv, Uploaded, DirDone
  <2>2. ASSUME NEW n \in dir' PROVE \E d \in Conns : name[d] = n /\ Private(d)'.made
    <3>1. CASE n \in dir
      BY <1>5, <3>1 DEF IsoInv, Uploaded
    <3>2. CASE n = name[c] /\ s.made
      BY <1>1, <1>3, <3>2
    <3> QED BY <2>2, <3>1, <3>2 DEF DirDone
  <2>3. name' = name
    BY <1>2
  <2> QED BY <2>1, <2>2, <2>3 DEF Uploaded
<1>9. ASSUME NEW d \in Conns PROVE ServedAlone(d)'
  <2>1. CASE d = c
    <3>1. Shared(c) => Shared(c)'
      BY <1>1, <1>2, <1>5, SharedStays
    <3>2. ASSUME state'[c] = "open" PROVE Like(replies'[c], s.replies, Shared(c)')
      BY <1>2, <3>1, <3>2 DEF Like, RepliesDone
    <3> QED BY <1>3, <2>1, <3>2 DEF ServedAlone, RepliedAlone, Like
  <2>2. CASE d # c
    <3>1. ServedAlone(d) /\ replies'[d] = replies[d] /\ Private(d)' = Private(d)
      BY <1>3, <2>2 DEF IsoInv, RepliesDone
    <3> QED BY <1>2, <1>5, <3>1, ServedStays
  <2> QED BY <2>1, <2>2
<1>10. ASSUME NEW d \in Conns PROVE Orderly(d)'
  <2>1. Orderly(d)
    BY DEF IsoInv
  <2> QED BY <1>2, <1>6, <2>1 DEF Orderly
<1>11. ASSUME NEW q \in Procs, Attends(q)' PROVE OwnVariables(q, clnt_sock[q])'
  <2>1. CASE q = p
    <3>1. next = "recv" /\ pc'[p] = "recv"
      BY <1>2, <1>11, <2>1 DEF Attends
    <3>2. OwnVariables(p, c)'
      BY <1>1, <1>2, <1>3, <3>1 DEF OwnVariables, OwnDone, RepliesDone
    <3>3. clnt_sock[q]' = c'
      BY <1>2, <2>1
    <3> QED BY <2>1, <3>2, <3>3
  <2>2. CASE q # p
    <3>1. Attends(q) /\ pc'[q] = pc[q]
      BY <1>2, <1>11, <2>2 DEF Attends
    <3>2. clnt_sock[q] \in Conns \ {c}
      BY <1>1, <2>2, <3>1 DEF Inv, HoldsIt, TypeOK
    <3>3. OwnVariables(q, clnt_sock[q])
      BY <3>1 DEF IsoInv
    <3>4. Private(clnt_sock[q])' = Private(clnt_sock[q]) /\ replies'[clnt_sock[q]] = replies[clnt_sock[q]]
      <4> DEFINE d == clnt_sock[q]
      <4>1. d' = d /\ Private(d)' = Private(d)
        BY <1>2, <1>3, <3>2
      <4> QED BY <3>2, <4>1 DEF RepliesDone
    <3> QED BY <1>2, <2>2, <3>1, <3>3, <3>4 DEF OwnVariables, OthersSame
  <2> QED BY <2>1, <2>2
<1>12. \A q \in Procs : pc'[q] = "accept" => ~receiveing'[q]
  BY <1>2 DEF IsoInv, OthersSame
<1> QED BY <1>7, <1>8, <1>9, <1>10, <1>11, <1>12 DEF IsoInv

\* The six things a process does with a message are what a private server does.
LEMMA HandleIso ==
  ASSUME Inv, IsoInv, NEW p \in Procs,
         \/ BeginUpload(p) \/ Chunk(p) \/ ShortChunk(p)
         \/ Message(p) \/ Command(p) \/ Quit(p)
  PROVE  IsoInv'
<1> DEFINE c == clnt_sock[p]
           m == buffer[p]
           s == After(c, Private(c), m)
<1>1. /\ pc[p] = "handle"
      /\ UNCHANGED <<clnt_sock, buffer, peerVars, backlog, history, name>>
  BY DEF BeginUpload, Chunk, ShortChunk, Message, Command, Quit, Handle, fileVars
<1>2. /\ c \in Conns /\ Private(c) \in Sessions
      /\ state[c] = "open" => Like(replies[c], Private(c).replies, Shared(c)) /\ replies[c] # <<>>
      /\ receiveing[p] = Private(c).receiveing
      /\ receiveing[p] => pfile[p] = p /\ stream[p].name = name[c] /\ Commands
      /\ m \in Msgs
  BY <1>1, Working, AloneIsLike
<1>3. /\ s.receiveing = IF receiveing[p] THEN m = "full" ELSE Commands /\ m = "head"
      /\ s.made = (Private(c).made \/ (~receiveing[p] /\ Commands /\ m = "head"))
      /\ s.replies = IF ~receiveing[p] /\ Commands /\ m # "head" /\ m \in DOMAIN Reply
                     THEN Append(Private(c).replies, Answer(m, Private(c).made))
                     ELSE Private(c).replies
  <2> DEFINE old == Private(c)
  <2>1. old \in Sessions /\ receiveing[p] = old.receiveing /\ s = After(c, old, m)
    BY <1>2
  <2> HIDE DEF c, m, s, old
  <2>2. s.receiveing = IF old.receiveing THEN m = "full" ELSE Commands /\ m = "head"
    BY <2>1, AfterIs
  <2>3. s.made = (old.made \/ (~old.receiveing /\ Commands /\ m = "head"))
    BY <2>1, AfterIs
  <2>4. s.replies = IF ~old.receiveing /\ Commands /\ m # "head" /\ m \in DOMAIN Reply
                    THEN Append(old.replies, Answer(m, old.made)) ELSE old.replies
    BY <2>1, AfterIs
  <2> QED BY <2>1, <2>2, <2>3, <2>4 DEF old
<1>4. /\ receiveing \in [Procs -> BOOLEAN] /\ pfile \in [Procs -> Procs \union {None}]
      /\ stream \in [Procs -> [name : Names \union {None}, at : Nat]]
      /\ replies \in [Conns -> Seq(Replies)]
  BY DEF Inv, TypeOK
<1>5. s = After(clnt_sock[p], Private(clnt_sock[p]), buffer[p])
  OBVIOUS
<1>6. /\ Private(c).made => name[c] \in dir
      /\ name[c] \in dir => Private(c).made \/ Shared(c)
  BY <1>2 DEF IsoInv, Uploaded, Shared
<1> HIDE DEF s
<1>7. ASSUME NEW next \in {"recv", "ended"}, Goto(p, next), DirDone(c, s), RepliesDone(c, s), OthersSame(p),
             next = "recv" => OwnDone(p, c, s)
      PROVE  IsoInv'
  <2>1. pc' = [pc EXCEPT ![p] = next]
    BY <1>7 DEF Goto
  <2>2. c = clnt_sock[p] /\ s = After(c, Private(c), buffer[p])
    BY <1>5
  <2> HIDE DEF c
  <2> QED BY <1>1, <1>7, <2>1, <2>2, WorkDone
<1>8. CASE BeginUpload(p)
  <2>1. ~receiveing[p] /\ Commands /\ m = "head" /\ dir' = dir \union {name[c]}
    BY <1>8 DEF BeginUpload
  <2>2. DirDone(c, s)
    BY <1>3, <2>1 DEF DirDone
  <2>3. RepliesDone(c, s)
    BY <1>2, <1>3, <1>8, <2>1 DEF BeginUpload, RepliesDone
  <2>4. OthersSame(p) /\ OwnDone(p, c, s)
    BY <1>3, <1>4, <1>8, <2>1 DEF BeginUpload, OthersSame, OwnDone
  <2>5. Goto(p, "recv")
    BY <1>8 DEF BeginUpload
  <2> QED BY <1>7, <2>2, <2>3, <2>4, <2>5
<1>9. CASE Chunk(p)
  <2>1. receiveing[p] /\ m \in {"full", "tail"} /\ pfile[p] = p /\ stream[p].name = name[c]
    BY <1>2, <1>9 DEF Chunk
  <2>2. DirDone(c, s)
    BY <1>3, <1>6, <1>9, <2>1 DEF Chunk, DirDone
  <2>3. RepliesDone(c, s)
    BY <1>2, <1>3, <1>9, <2>1 DEF Chunk, RepliesDone
  <2>4. OthersSame(p) /\ OwnDone(p, c, s)
    BY <1>3, <1>4, <1>9, <2>1 DEF Chunk, GoesOn, OthersSame, OwnDone
  <2>5. Goto(p, "recv")
    BY <1>9 DEF Chunk
  <2> QED BY <1>7, <2>2, <2>3, <2>4, <2>5
<1>10. CASE ShortChunk(p)
  <2>1. receiveing[p] /\ m \notin {"full", "tail"}
    BY <1>10 DEF ShortChunk
  <2>2. DirDone(c, s) /\ RepliesDone(c, s)
    BY <1>2, <1>3, <1>6, <1>10, <2>1 DEF ShortChunk, fileVars, DirDone, RepliesDone
  <2>3. OthersSame(p) /\ OwnDone(p, c, s)
    BY <1>3, <1>4, <1>10, <2>1 DEF ShortChunk, fileVars, OthersSame, OwnDone
  <2>4. Goto(p, "recv") \/ Goto(p, "ended")
    BY <1>10 DEF ShortChunk
  <2> QED BY <1>7, <2>2, <2>3, <2>4
<1>11. CASE Message(p)
  <2>1. ~receiveing[p] /\ ~(Commands /\ m = "head") /\ ~(Commands /\ m \in DOMAIN Reply)
    BY <1>2, <1>11 DEF Message, IsMessage
  <2>2. DirDone(c, s) /\ RepliesDone(c, s)
    BY <1>2, <1>3, <1>6, <1>11, <2>1 DEF Message, fileVars, DirDone, RepliesDone
  <2>3. OthersSame(p) /\ OwnDone(p, c, s)
    BY <1>3, <1>4, <1>11, <2>1 DEF Message, fileVars, OthersSame, OwnDone
  <2>4. Goto(p, "recv")
    BY <1>11 DEF Message
  <2> QED BY <1>7, <2>2, <2>3, <2>4
<1>12. CASE Command(p)
  <2>1. ~receiveing[p] /\ Commands /\ m # "head" /\ m \in DOMAIN Reply
    BY <1>12 DEF Command, IsCommand, IsMessage
  <2>2. DirDone(c, s)
    BY <1>3, <1>6, <1>12, <2>1 DEF Command, fileVars, DirDone
  <2>3. RepliesDone(c, s)
    <3> DEFINE there == name[c] \in dir
               made  == Private(c).made
    <3>1. Write(c, Answer(m, there)) /\ there \in BOOLEAN /\ made \in BOOLEAN
      BY <1>2, <1>12 DEF Command, Sessions
    <3>2. Answer(m, there) \in Replies /\ Answer(m, made) \in Replies
      BY <2>1, <3>1, AnswerType
    <3>3. \/ Answer(m, there) = Answer(m, made)
          \/ /\ Answer(m, there) = "contents" /\ Answer(m, made) = "failed" /\ Shared(c)
      <4>1. made => there
        BY <1>6
      <4>2. there => made \/ Shared(c)
        BY <1>6
      <4>3. Reply["get"] = "contents"
        BY DEF Reply
      <4> HIDE DEF there, made
      <4> QED BY <4>1, <4>2, <4>3 DEF Answer
    <3> HIDE DEF there, made
    <3>4. \A d \in Conns \ {c} : replies'[d] = replies[d]
      BY <1>4, <3>1 DEF Write
    <3>5. ASSUME state[c] = "open"
          PROVE  Like(replies'[c], s.replies, Shared(c)) /\ replies'[c] # <<>>
      <4>1. replies'[c] = Append(replies[c], Answer(m, there))
        BY <1>2, <1>4, <3>1, <3>5 DEF Write
      <4>2. s.replies = Append(Private(c).replies, Answer(m, made))
        BY <1>3, <2>1 DEF made
      <4>3. replies[c] \in Seq(Replies) /\ Private(c).replies \in Seq(Replies)
        BY <1>2, <1>4 DEF Sessions
      <4>4. Append(replies[c], Answer(m, there)) # <<>>
        BY <4>3, LastAppended
      <4>5. Like(replies[c], Private(c).replies, Shared(c))
        BY <1>2, <3>5
      <4>6. Like(Append(replies[c], Answer(m, there)), Append(Private(c).replies, Answer(m, made)), Shared(c))
        BY <3>2, <3>3, <4>3, <4>5, LikeAppended
      <4> QED BY <4>1, <4>2, <4>4, <4>6
    <3> QED BY <3>4, <3>5 DEF RepliesDone
  <2>4. OthersSame(p) /\ OwnDone(p, c, s)
    BY <1>3, <1>4, <1>12, <2>1 DEF Command, fileVars, OthersSame, OwnDone
  <2>5. Goto(p, "recv")
    BY <1>12 DEF Command
  <2> QED BY <1>7, <2>2, <2>3, <2>4, <2>5
<1>13. CASE Quit(p)
  <2>1. ~receiveing[p] /\ m = "quit" /\ m \notin DOMAIN Reply
    BY <1>2, <1>13 DEF Quit, IsMessage, Reply
  <2>2. DirDone(c, s) /\ RepliesDone(c, s)
    BY <1>2, <1>3, <1>6, <1>13, <2>1 DEF Quit, fileVars, DirDone, RepliesDone
  <2>3. OthersSame(p) /\ Goto(p, "ended")
    BY <1>13 DEF Quit, fileVars, OthersSame
  <2> QED BY <1>7, <2>2, <2>3
<1> QED BY <1>8, <1>9, <1>10, <1>11, <1>12, <1>13

\* Steps that neither receive a message nor finish the work on one.
LEMMA Elsewhere ==
  ASSUME Inv, IsoInv, UNCHANGED <<history, fileVars, replies, receiveing, pfile, buffer, clnt_sock>>,
         \A q \in Procs : Attends(q)' => Attends(q) /\ pc'[q] = pc[q],
         \A q \in Procs : pc'[q] = "accept" => ~receiveing[q],
         \A c \in Conns : AtWork(c)' <=> AtWork(c),
         \A c \in Conns : state'[c] = "idle" \/ InBacklog(c)' => state[c] = "idle" \/ InBacklog(c),
         \A c \in Conns : state'[c] = "open" => state[c] \in {"open", "idle"},
         \A c \in Conns : Orderly(c)'
  PROVE  IsoInv'
<1>1. /\ \A c \in Conns : Private(c)' = Private(c)
      /\ UNCHANGED <<handled, alone, replies, receiveing, pfile, buffer, clnt_sock>>
      /\ UNCHANGED <<name, dir, stream>>
  BY SamePrivate DEF history, fileVars
<1>2. Untouched' /\ Uploaded'
  BY <1>1, UploadedStays DEF IsoInv, Untouched
<1>3. ASSUME NEW c \in Conns PROVE ServedAlone(c)'
  <2>1. ServedAlone(c) /\ (state[c] = "idle" => replies[c] = <<>>)
    BY DEF IsoInv, Untouched
  <2> QED BY <1>1, <2>1, ServedStays
<1>4. ASSUME NEW q \in Procs, Attends(q)' PROVE OwnVariables(q, clnt_sock[q])'
  <2> DEFINE c == clnt_sock[q]
  <2>1. Attends(q) /\ pc'[q] = pc[q]
    BY <1>4
  <2>2. c \in Conns /\ state[c] # "idle" /\ OwnVariables(q, c)
    BY <2>1 DEF Inv, HoldsIt, IdleUnknown, TypeOK, IsoInv
  <2>3. state'[c] = "open" => state[c] = "open"
    BY <2>2
  <2>4. c' = c /\ Private(c)' = Private(c)
    BY <1>1, <2>2
  <2> HIDE DEF c
  <2>5. OwnVariables(q, c)'
    BY <1>1, <2>1, <2>2, <2>3, <2>4 DEF OwnVariables
  <2> QED BY <2>5 DEF c
<1>5. \A q \in Procs : pc'[q] = "accept" => ~receiveing'[q]
  BY <1>1
<1> QED BY <1>2, <1>3, <1>4, <1>5 DEF IsoInv

\* A process with no connection to attend, or that ends, or that has been told that
\* its client has left.
LEMMA ElsewhereProcess ==
  ASSUME Inv, IsoInv, NEW p \in Procs,
         AcceptFails(p) \/ ForkFails(p) \/ RecvEnd(p) \/ Wait(p) \/ (Killed(p) /\ pc[p] = "accept")
  PROVE  IsoInv'
<1>1. /\ UNCHANGED <<history, fileVars, replies, receiveing, pfile, buffer, clnt_sock, state, inq, mid>>
      /\ \A j \in DOMAIN backlog' : \E k \in DOMAIN backlog : backlog'[j] = backlog[k]
  <2>1. UNCHANGED <<history, fileVars, replies, receiveing, pfile, buffer, clnt_sock, state, inq, mid>>
    BY DEF AcceptFails, ForkFails, RecvEnd, Wait, Killed, peerVars
  <2>2. \/ UNCHANGED backlog
        \/ backlog # <<>> /\ backlog' = Tail(backlog)
    BY DEF AcceptFails, ForkFails, RecvEnd, Wait, Killed, MayAccept, peerVars
  <2>3. backlog \in Seq(Conns)
    BY DEF Inv, TypeOK
  <2>4. \A j \in DOMAIN backlog' : \E k \in DOMAIN backlog : backlog'[j] = backlog[k]
    <3>1. CASE UNCHANGED backlog
      BY <3>1
    <3>2. CASE backlog # <<>> /\ backlog' = Tail(backlog)
      BY <2>3, <3>2, HeadTail
    <3> QED BY <2>2, <3>1, <3>2
  <2> QED BY <2>1, <2>4
<1>2. \A q \in Procs : /\ Attends(q)' => Attends(q) /\ pc'[q] = pc[q]
                       /\ pc'[q] = "handle" <=> pc[q] = "handle"
  <2>1. CASE AcceptFails(p) \/ ForkFails(p) \/ (Killed(p) /\ pc[p] = "accept")
    BY <2>1 DEF AcceptFails, ForkFails, Killed, Goto, Attends, Inv, TypeOK
  <2>2. CASE RecvEnd(p) \/ Wait(p)
    BY <2>2 DEF RecvEnd, AfterFin, Wait, Attends, Inv, TypeOK
  <2> QED BY <2>1, <2>2
<1>3. ~receiveing[p] \/ pc'[p] # "accept"
  <2>1. CASE ForkFails(p)
    <3>1. pc[p] = "fork" /\ Attends(p)
      BY <2>1 DEF ForkFails, Attends
    <3>2. receiveing[p] = Due(clnt_sock[p]).receiveing /\ Due(clnt_sock[p]) = Start
      BY <3>1, NotAtWork DEF IsoInv, OwnVariables, Due
    <3> QED BY <3>2 DEF Start
  <2>2. CASE RecvEnd(p)
    <3> DEFINE c == clnt_sock[p]
    <3>1. pc[p] = "recv" /\ Attends(p) /\ (state[c] = "rst" \/ (state[c] = "fin" /\ inq[c] = <<>>))
      BY <2>2 DEF RecvEnd, Attends
    <3>2. c \in Conns /\ receiveing[p] = Due(c).receiveing
      BY <3>1, NotAtWork DEF IsoInv, OwnVariables
    <3>3. inq[c] = <<>> /\ ~mid[c]
      BY <3>1, <3>2 DEF IsoInv, Orderly
    <3> QED BY <3>2, <3>3 DEF IsoInv, Orderly
  <2>3. CASE AcceptFails(p) \/ Wait(p) \/ (Killed(p) /\ pc[p] = "accept")
    BY <2>3 DEF AcceptFails, Wait, Killed, Goto, Inv, TypeOK
  <2> QED BY <2>1, <2>2, <2>3
<1>4. \A q \in Procs : pc'[q] = "accept" => ~receiveing[q]
  <2>1. \A q \in Procs \ {p} : pc'[q] = "accept" => pc[q] = "accept"
    BY DEF AcceptFails, ForkFails, RecvEnd, Wait, Killed, Goto, Inv, TypeOK
  <2> QED BY <1>3, <2>1 DEF IsoInv
<1>5. \A c \in Conns : AtWork(c)' <=> AtWork(c)
  BY <1>1, <1>2 DEF AtWork
<1>6. \A c \in Conns : InBacklog(c)' => InBacklog(c)
  BY <1>1 DEF InBacklog
<1>7. ASSUME NEW c \in Conns PROVE Orderly(c)'
  <2>1. Orderly(c) /\ Due(c)' = Due(c)
    BY <1>1, <1>5, SamePrivate DEF IsoInv
  <2> QED BY <1>1, <2>1 DEF Orderly, history
<1> QED BY <1>1, <1>2, <1>4, <1>5, <1>6, <1>7, Elsewhere

\* SIGPIPE while it answers a command: the client is not there any more.
LEMMA KilledIso ==
  ASSUME Inv, IsoInv, NEW p \in Procs, Killed(p), pc[p] # "accept"
  PROVE  IsoInv'
<1> DEFINE c == clnt_sock[p]
           s == After(c, Private(c), buffer[p])
<1>1. /\ IsCommand(p) /\ state[c] = "rst" /\ Goto(p, "ended")
      /\ UNCHANGED <<clnt_sock, buffer, peerVars, backlog, history, name, dir, stream, replies,
                     receiveing, pfile>>
  BY DEF Killed, MayAccept, fileVars
<1>2. /\ pc[p] = "handle" /\ ~receiveing[p] /\ buffer[p] # "head"
      /\ pc' = [pc EXCEPT ![p] = "ended"]
  BY <1>1 DEF IsCommand, IsMessage, Goto
<1>3. c \in Conns /\ Private(c) \in Sessions
  BY <1>2, Working
<1>4. s.made => name[c] \in dir
  <2> DEFINE old == Private(c)
  <2>1. s = After(c, old, buffer[p]) /\ old \in Sessions
    BY <1>3
  <2> HIDE DEF s, c, old
  <2>2. s.made = (old.made \/ (~old.receiveing /\ Commands /\ buffer[p] = "head"))
    BY <2>1, AfterIs
  <2>3. s.made => Private(c).made
    BY <1>2, <2>1, <2>2 DEF old, Sessions
  <2> QED BY <1>3, <2>3 DEF IsoInv, Uploaded
<1>5. c = clnt_sock[p] /\ s = After(c, Private(c), buffer[p])
  OBVIOUS
<1> HIDE DEF s, c
<1>6. DirDone(c, s) /\ RepliesDone(c, s) /\ OthersSame(p)
  BY <1>1, <1>4 DEF DirDone, RepliesDone, OthersSame
<1> QED BY <1>1, <1>2, <1>5, <1>6, WorkDone

\* accept() takes a connection to which nothing has happened, and greets it.
LEMMA AcceptIso ==
  ASSUME Inv, IsoInv, NEW p \in Procs, Accept(p)
  PROVE  IsoInv'
<1> DEFINE c == Head(backlog)
<1>1. backlog \in Seq(Conns) /\ backlog # <<>> /\ backlog' = Tail(backlog)
  BY DEF Accept, MayAccept, Inv, TypeOK
<1>2. /\ c \in Conns /\ 1 \in DOMAIN backlog /\ c = backlog[1]
      /\ \A j \in DOMAIN backlog' : /\ j + 1 \in DOMAIN backlog /\ j \in Nat /\ j # 0
                                    /\ backlog'[j] = backlog[j + 1]
  <2>1. \A j \in DOMAIN backlog' : j # 0
    BY <1>1
  <2> QED BY <1>1, <2>1, HeadTail
<1>3. /\ clnt_sock' = [clnt_sock EXCEPT ![p] = c]
      /\ pc[p] = "accept" /\ pc' = [pc EXCEPT ![p] = "fork"]
      /\ Write(c, "hello")
      /\ UNCHANGED <<state, inq, mid, history, name, dir, stream, receiveing, pfile, buffer>>
  BY DEF Accept, MayAccept, peerVars, fileVars
<1> HIDE DEF c
<1>4. /\ clnt_sock'[p] = c /\ pc'[p] = "fork"
      /\ \A q \in Procs \ {p} : clnt_sock'[q] = clnt_sock[q] /\ pc'[q] = pc[q]
  BY <1>3 DEF Inv, TypeOK
<1>5. /\ InBacklog(c) /\ state[c] # "idle"
      /\ handled[c] = <<>> /\ alone[c] = Start /\ replies[c] = <<>>
  <2>1. InBacklog(c)
    BY <1>2 DEF InBacklog
  <2>2. state[c] # "idle"
    BY <1>2 DEF Inv, IdleUnknown
  <2> QED BY <1>2, <2>1, <2>2 DEF IsoInv, Untouched
<1>6. \A d \in Conns : InBacklog(d)' => InBacklog(d) /\ d # c
  BY <1>2 DEF InBacklog, Inv, BacklogOnce
<1>7. /\ \A d \in Conns \ {c} : replies'[d] = replies[d]
      /\ state[c] = "open" => replies'[c] = <<"hello">>
  <2>1. replies \in [Conns -> Seq(Replies)]
    BY DEF Inv, TypeOK
  <2>2. Append(<<>>, "hello") = <<"hello">>
    OBVIOUS
  <2> QED BY <1>2, <1>3, <1>5, <2>1, <2>2 DEF Write
<1>8. \A d \in Conns : AtWork(d)' <=> AtWork(d)
  BY <1>3, <1>4 DEF AtWork
<1>9. \A d \in Conns : Private(d)' = Private(d) /\ Due(d)' = Due(d)
  BY <1>3, <1>8, SamePrivate
<1>10. Private(c) = Start
  BY <1>5 DEF Private
<1>11. UNCHANGED <<handled, alone>>
  BY <1>3 DEF history
<1>12. Untouched'
  <2> SUFFICES ASSUME NEW d \in Conns, state'[d] = "idle" \/ InBacklog(d)'
               PROVE  /\ handled'[d] = <<>> /\ alone'[d] = Start
                      /\ replies'[d] = <<>>
    BY DEF Untouched
  <2>1. d # c /\ (state[d] = "idle" \/ InBacklog(d))
    BY <1>3, <1>5, <1>6
  <2> QED BY <1>3, <1>7, <1>11, <2>1 DEF IsoInv, Untouched
<1>u. Uploaded'
  BY <1>3, <1>9, UploadedStays DEF IsoInv
<1>13. ASSUME NEW d \in Conns PROVE ServedAlone(d)'
  <2>1. CASE d = c
    <3>1. Private(d)' = Start /\ (state'[d] = "open" => replies'[d] = <<"hello">>)
      BY <1>3, <1>5, <1>7, <1>9, <1>10, <2>1
    <3> QED BY <3>1 DEF ServedAlone, RepliedAlone, Start
  <2>2. CASE d # c
    <3>1. ServedAlone(d) /\ replies'[d] = replies[d]
      BY <1>7, <2>2 DEF IsoInv
    <3> QED BY <1>3, <1>9, <3>1, ServedStays
  <2> QED BY <2>1, <2>2
<1>14. ASSUME NEW d \in Conns PROVE Orderly(d)'
  <2>1. Orderly(d)
    BY DEF IsoInv
  <2> QED BY <1>3, <1>9, <1>11, <2>1 DEF Orderly
<1>15. ASSUME NEW q \in Procs, Attends(q)' PROVE OwnVariables(q, clnt_sock[q])'
  <2>1. CASE q = p
    <3> DEFINE d == clnt_sock'[q]
    <3>1. d = c /\ pc'[q] = "fork" /\ ~receiveing'[q]
      BY <1>3, <1>4, <2>1 DEF IsoInv
    <3>3. receiveing' \in [Procs -> BOOLEAN]
      BY <1>3 DEF Inv, TypeOK
    <3>4. ASSUME NEW e \in Conns, e = c PROVE OwnVariables(q, e)'
      <4>1. Private(e)' = Start
        BY <1>9, <1>10, <3>4
      <4>2. receiveing'[q] = FALSE /\ Start.receiveing = FALSE
        BY <3>1, <3>3 DEF Start
      <4>3. state'[e] = "open" => replies'[e] # <<>>
        <5>1. <<"hello">> # <<>>
          OBVIOUS
        <5> QED BY <1>3, <1>7, <3>4, <5>1
      <4>4. handled'[e] = <<>> /\ alone'[e] = Start
        BY <1>5, <1>11, <3>4
      <4> QED BY <3>1, <4>1, <4>2, <4>3, <4>4 DEF OwnVariables
    <3> QED BY <1>2, <3>1, <3>4
  <2>2. CASE q # p
    <3>1. Attends(q) /\ pc'[q] = pc[q] /\ clnt_sock'[q] = clnt_sock[q]
      BY <1>4, <1>15, <2>2 DEF Attends
    <3>2. clnt_sock[q] \in Conns \ {c} /\ OwnVariables(q, clnt_sock[q])
      <4>1. clnt_sock[q] \in Conns /\ clnt_sock[q] \in fds[q]
        BY <3>1 DEF Inv, HoldsIt, TypeOK
      <4>2. clnt_sock[q] # c
        BY <1>2, <4>1 DEF Inv, BacklogUnopened
      <4> QED BY <3>1, <4>1, <4>2 DEF IsoInv
    <3>3. ASSUME NEW e \in Conns, e = clnt_sock[q] PROVE OwnVariables(q, e)'
      <4>1. OwnVariables(q, e) /\ Private(e)' = Private(e) /\ replies'[e] = replies[e]
        BY <1>7, <1>9, <3>2, <3>3
      <4> QED BY <1>3, <1>11, <3>1, <4>1 DEF OwnVariables
    <3> QED BY <3>1, <3>2, <3>3
  <2> QED BY <2>1, <2>2
<1>16. \A q \in Procs : pc'[q] = "accept" => ~receiveing'[q]
  BY <1>3, <1>4 DEF IsoInv
<1> QED BY <1>12, <1>u, <1>13, <1>14, <1>15, <1>16 DEF IsoInv

\* The child takes over connection and variables; the parent accepts with its own.
LEMMA ForkIso ==
  ASSUME Inv, IsoInv, NEW p \in Procs, Fork(p)
  PROVE  IsoInv'
<1>1. PICK q \in Procs : /\ pc[q] = "unborn"
                         /\ pc' = [pc EXCEPT ![p] = AfterFork, ![q] = "recv"]
                         /\ clnt_sock' = [clnt_sock EXCEPT ![q] = clnt_sock[p]]
                         /\ receiveing' = [receiveing EXCEPT ![q] = receiveing[p]]
                         /\ pfile' = [pfile EXCEPT ![q] = pfile[p]]
  BY DEF Fork
<1>2. /\ pc[p] = "fork" /\ p # q /\ Attends(p)
      /\ UNCHANGED <<buffer, backlog, history, replies, name, dir, stream, state, inq, mid>>
  BY <1>1 DEF Fork, peerVars, fileVars, Attends
<1>3. /\ pc'[p] = "accept" /\ pc'[q] = "recv"
      /\ clnt_sock'[q] = clnt_sock[p] /\ receiveing'[q] = receiveing[p] /\ pfile'[q] = pfile[p]
      /\ \A r \in Procs \ {q} : /\ clnt_sock'[r] = clnt_sock[r]
                                /\ receiveing'[r] = receiveing[r] /\ pfile'[r] = pfile[r]
      /\ \A r \in Procs \ {p, q} : pc'[r] = pc[r]
  BY <1>1, <1>2 DEF AfterFork, Inv, TypeOK
<1>4. \A c \in Conns : AtWork(c)' <=> AtWork(c)
  BY <1>1, <1>2, <1>3 DEF AtWork
<1>5. \A c \in Conns : Private(c)' = Private(c) /\ Due(c)' = Due(c)
  BY <1>2, <1>4, SamePrivate
<1>6. UNCHANGED <<handled, alone>>
  BY <1>2 DEF history
<1>7. Untouched' /\ Uploaded'
  BY <1>2, <1>5, <1>6, UploadedStays DEF IsoInv, Untouched, InBacklog
<1>8. ASSUME NEW c \in Conns PROVE ServedAlone(c)' /\ Orderly(c)'
  <2>1. ServedAlone(c) /\ Orderly(c)
    BY DEF IsoInv
  <2>2. ServedAlone(c)'
    BY <1>2, <1>5, <2>1, ServedStays
  <2>3. Orderly(c)'
    BY <1>2, <1>5, <1>6, <2>1 DEF Orderly
  <2> QED BY <2>2, <2>3
<1>f. ~receiveing[p]
  <2>1. receiveing[p] = Due(clnt_sock[p]).receiveing /\ Due(clnt_sock[p]) = Start
    BY <1>2, NotAtWork DEF IsoInv, OwnVariables, Due
  <2> QED BY <2>1 DEF Start
<1>9. ASSUME NEW r \in Procs, Attends(r)' PROVE OwnVariables(r, clnt_sock[r])'
  <2>1. PICK s \in Procs : /\ Attends(s) /\ clnt_sock[s] = clnt_sock'[r]
                           /\ receiveing[s] = receiveing'[r]
                           /\ receiveing[s] => s = r /\ pfile'[r] = pfile[r]
                           /\ pc'[r] \in {"fork", "handle"} => s = r /\ pc'[r] = pc[r]
    <3>1. CASE r = q
      BY <1>2, <1>3, <1>f, <3>1
    <3>2. CASE r # q
      <4>1. r # p
        BY <1>3, <1>9 DEF Attends
      <4>2. pc'[r] = pc[r] /\ Attends(r)
        BY <1>3, <1>9, <3>2, <4>1 DEF Attends
      <4> QED BY <1>3, <3>2, <4>2
    <3> QED BY <3>1, <3>2
  <2>2. clnt_sock[s] \in Conns /\ OwnVariables(s, clnt_sock[s])
    BY <2>1 DEF Inv, HoldsIt, TypeOK, IsoInv
  <2>3. ASSUME NEW e \in Conns, e = clnt_sock[s] PROVE OwnVariables(r, e)'
    <3>1. OwnVariables(s, e) /\ Private(e)' = Private(e)
      BY <1>5, <2>2, <2>3
    <3> QED BY <1>2, <1>6, <2>1, <3>1 DEF OwnVariables
  <2> QED BY <2>1, <2>2, <2>3
<1>10. ASSUME NEW r \in Procs, pc'[r] = "accept" PROVE ~receiveing'[r]
  <2>1. CASE r = p
    <3>1. receiveing'[p] = receiveing[p]
      BY <1>2, <1>3
    <3> QED BY <1>f, <2>1, <3>1
  <2>2. CASE r # p
    <3>1. r # q /\ pc[r] = "accept"
      BY <1>3, <1>10, <2>2
    <3> QED BY <1>3, <3>1 DEF IsoInv
  <2> QED BY <2>1, <2>2
<1> QED BY <1>7, <1>8, <1>9, <1>10 DEF IsoInv

\* A process receives the next message of its client.
LEMMA RecvIso ==
  ASSUME Inv, IsoInv, NEW p \in Procs, Recv(p)
  PROVE  IsoInv'
<1> DEFINE c == clnt_sock[p]
           q0 == inq[c]
           m == Head(q0)
<1>1. /\ pc[p] = "recv" /\ Attends(p) /\ q0 # <<>> /\ state[c] # "rst"
      /\ buffer' = [buffer EXCEPT ![p] = m]
      /\ inq' = [inq EXCEPT ![c] = Tail(q0)]
      /\ handled' = [handled EXCEPT ![c] = Append(handled[c], m)]
      /\ alone' = [alone EXCEPT ![c] = Private(c)]
      /\ pc' = [pc EXCEPT ![p] = "handle"]
      /\ UNCHANGED <<clnt_sock, receiveing, pfile, backlog, state, mid, replies, name, dir, stream>>
  BY DEF Recv, Goto, Attends, fileVars
<1>2. /\ c \in Conns /\ ~AtWork(c) /\ Private(c) = Due(c) /\ Private(c) \in Sessions
      /\ q0 \in Seq(Msgs) /\ handled[c] \in Seq(Msgs)
      /\ m \in Msgs /\ m = q0[1] /\ Len(q0) \in Nat \ {0}
      /\ Tail(q0) \in Seq(Msgs) /\ Len(Tail(q0)) = Len(q0) - 1
      /\ \A j \in 1 .. Len(q0) - 1 : Tail(q0)[j] = q0[j + 1]
  <2>1. c \in Conns /\ ~AtWork(c) /\ Private(c) = Due(c)
    BY <1>1, NotAtWork
  <2>2. q0 \in Seq(Msgs) /\ handled[c] \in Seq(Msgs) /\ Private(c) \in Sessions
    BY <2>1, PrivateType DEF Inv, TypeOK
  <2>3. /\ m \in Msgs /\ m = q0[1] /\ Len(q0) \in Nat \ {0}
        /\ Tail(q0) \in Seq(Msgs) /\ Len(Tail(q0)) = Len(q0) - 1
        /\ \A j \in 1 .. Len(q0) - 1 : Tail(q0)[j] = q0[j + 1]
    BY <1>1, <2>2
  <2> QED BY <2>1, <2>2, <2>3
<1>3. /\ buffer'[p] = m /\ inq'[c] = Tail(q0) /\ alone'[c] = Private(c)
      /\ handled'[c] # <<>> /\ Last(handled'[c]) = m /\ pc'[p] = "handle"
      /\ \A d \in Conns \ {c} : /\ inq'[d] = inq[d] /\ alone'[d] = alone[d]
                                /\ handled'[d] = handled[d]
      /\ \A q \in Procs \ {p} : buffer'[q] = buffer[q] /\ pc'[q] = pc[q]
  <2> DEFINE h == Append(handled[c], m)
  <2>1. h # <<>> /\ h[Len(h)] = m
    BY <1>2, LastAppended
  <2>2. handled'[c] = h
    BY <1>1, <1>2 DEF Inv, TypeOK
  <2> HIDE DEF h
  <2> QED BY <1>1, <1>2, <2>1, <2>2 DEF Inv, TypeOK, Last
<1>4. \A q \in Procs \ {p} : Attends(q) => clnt_sock[q] \in Conns \ {c}
  BY <1>1 DEF Inv, HoldsIt, Alone, TypeOK
<1> HIDE DEF c, q0, m
<1>5. ASSUME NEW d \in Conns \ {c} PROVE Private(d)' = Private(d) /\ Due(d)' = Due(d)
  <2>1. AtWork(d)' <=> AtWork(d)
    BY <1>1, <1>3 DEF AtWork, c
  <2> QED BY <1>3, <2>1 DEF Private, Due
<1>6. ASSUME NEW d \in Conns, d = c PROVE Private(d)' = Private(d) /\ Due(d)' = After(d, Private(d), m)
  <2>1. AtWork(d)'
    BY <1>1, <1>3, <1>6 DEF AtWork, c
  <2> QED BY <1>3, <1>6, <2>1 DEF Private, Due
<1>7. Untouched'
  <2>1. state[c] # "idle" /\ ~InBacklog(c)
    BY <1>1, <1>2 DEF Inv, HoldsIt, IdleUnknown, BacklogUnopened, InBacklog, c
  <2> QED BY <1>1, <1>3, <2>1 DEF IsoInv, Untouched, InBacklog
<1>p. \A d \in Conns : Private(d)' = Private(d)
  BY <1>5, <1>6
<1>u. Uploaded'
  BY <1>1, <1>p, UploadedStays DEF IsoInv
<1>8. ASSUME NEW d \in Conns PROVE ServedAlone(d)'
  <2>1. ServedAlone(d)
    BY DEF IsoInv
  <2> QED BY <1>1, <1>p, <2>1, ServedStays
<1>9. ASSUME NEW d \in Conns PROVE Orderly(d)'
  <2>1. Orderly(d)
    BY DEF IsoInv
  <2>2. CASE d # c
    BY <1>1, <1>3, <1>5, <2>1, <2>2 DEF Orderly
  <2>3. CASE d = c
    <3>1. Due(d)' = After(d, Private(d), m) /\ alone'[d] = Private(d) /\ Private(d) = Due(d)
      BY <1>2, <1>3, <1>6, <2>3
    <3>2. inq[d] = q0 /\ inq'[d] = Tail(q0) /\ mid'[d] = mid[d] /\ state'[d] = state[d]
      BY <1>1, <1>3, <2>3 DEF c, q0
    <3>3. After(d, Private(d), m).receiveing =
            IF Private(d).receiveing THEN m = "full" ELSE Commands /\ m = "head"
      <4> DEFINE old == Private(d)
      <4>1. old \in Sessions
        BY <1>2, <2>3
      <4> HIDE DEF old
      <4>2. After(d, old, m).receiveing = IF old.receiveing THEN m = "full" ELSE Commands /\ m = "head"
        BY <4>1, AfterIs
      <4> QED BY <4>2 DEF old
    <3>4. Due(d).receiveing => Commands
      BY <2>1 DEF Orderly
    <3>5. /\ mid[d] <=> q0[Len(q0)] \in Opens
          /\ \A k \in 1 .. Len(q0) - 1 : q0[k] \in Opens <=> q0[k + 1] \in Chunks
      BY <1>1, <2>1, <3>2 DEF Orderly
    <3>6. Due(d)'.receiveing => m \in Opens /\ Commands
      BY <3>1, <3>3, <3>4 DEF Opens
    <3>7. alone'[d].receiveing \/ Due(d)'.receiveing => Commands
      BY <3>1, <3>4, <3>6
    <3> DEFINE t == Tail(q0)
    <3>a. t = <<>> <=> Len(q0) = 1
      <4>1. t \in Seq(Msgs) /\ Len(t) = Len(q0) - 1
        BY <1>2
      <4> HIDE DEF t
      <4>2. t = <<>> <=> Len(t) = 0
        BY <4>1
      <4> QED BY <1>2, <4>1, <4>2
    <3>8. Due(d)'.receiveing => IF inq'[d] = <<>> THEN mid'[d] ELSE inq'[d][1] \in Chunks
      <4>1. CASE Len(q0) = 1
        <5>1. Tail(q0) = <<>>
          BY <3>a, <4>1
        <5> QED BY <1>2, <3>2, <3>5, <3>6, <4>1, <5>1
      <4>2. CASE Len(q0) # 1
        <5>1. 1 \in 1 .. Len(q0) - 1 /\ Tail(q0) # <<>>
          BY <1>2, <3>a, <4>2
        <5> QED BY <1>2, <3>2, <3>5, <3>6, <5>1
      <4> QED BY <4>1, <4>2
    <3>9. inq'[d] # <<>> =>
            /\ mid'[d] <=> inq'[d][Len(inq'[d])] \in Opens
            /\ \A k \in 1 .. Len(inq'[d]) - 1 : inq'[d][k] \in Opens <=> inq'[d][k + 1] \in Chunks
      <4> SUFFICES ASSUME Tail(q0) # <<>>
                   PROVE  /\ mid[d] <=> Tail(q0)[Len(Tail(q0))] \in Opens
                          /\ \A k \in 1 .. Len(Tail(q0)) - 1 :
                               Tail(q0)[k] \in Opens <=> Tail(q0)[k + 1] \in Chunks
        BY <3>2
      <4>1. Len(q0) - 1 \in 1 .. Len(q0) - 1
        BY <1>2
      <4>2. Tail(q0)[Len(Tail(q0))] = q0[Len(q0)]
        BY <1>2, <4>1
      <4>3. ASSUME NEW k \in 1 .. Len(Tail(q0)) - 1
            PROVE  Tail(q0)[k] \in Opens <=> Tail(q0)[k + 1] \in Chunks
        <5>1. k \in 1 .. Len(q0) - 1 /\ k + 1 \in 1 .. Len(q0) - 1
          BY <1>2
        <5> QED BY <1>2, <3>5, <5>1
      <4> QED BY <3>5, <4>2, <4>3
    <3>10. /\ state'[d] \in {"fin", "rst"} => ~mid'[d]
           /\ state'[d] # "rst"
      BY <1>1, <2>1, <2>3, <3>2 DEF Orderly
    <3> QED BY <3>7, <3>8, <3>9, <3>10 DEF Orderly
  <2> QED BY <2>2, <2>3
<1>10. ASSUME NEW q \in Procs, Attends(q)' PROVE OwnVariables(q, clnt_sock[q])'
  <2>1. clnt_sock'[q] = clnt_sock[q] /\ Attends(q)
    BY <1>1, <1>3, <1>10 DEF Attends
  <2>2. clnt_sock[q] \in Conns /\ OwnVariables(q, clnt_sock[q])
    BY <2>1 DEF Inv, HoldsIt, TypeOK, IsoInv
  <2>3. ASSUME NEW e \in Conns, e = clnt_sock[q] PROVE OwnVariables(q, e)'
    <3>1. OwnVariables(q, e) /\ Private(e)' = Private(e)
      BY <1>5, <1>6, <2>2, <2>3
    <3>2. CASE q = p
      <4>1. e = c /\ pc'[q] = "handle"
        BY <1>3, <2>3, <3>2 DEF c
      <4> QED BY <1>1, <1>3, <3>1, <3>2, <4>1 DEF OwnVariables
    <3>3. CASE q # p
      <4>1. e # c /\ pc'[q] = pc[q] /\ buffer'[q] = buffer[q]
        BY <1>3, <1>4, <2>1, <2>3, <3>3
      <4> QED BY <1>1, <1>3, <3>1, <4>1 DEF OwnVariables
    <3> QED BY <3>2, <3>3
  <2> QED BY <2>1, <2>2, <2>3
<1>11. \A q \in Procs : pc'[q] = "accept" => ~receiveing'[q]
  BY <1>1, <1>3 DEF IsoInv
<1> QED BY <1>7, <1>u, <1>8, <1>9, <1>10, <1>11 DEF IsoInv

\* Every step of a process leaves every client as if alone.
LEMMA ProcessIso ==
  ASSUME Inv, IsoInv, NEW p \in Procs, Process(p)
  PROVE  IsoInv'
<1>1. CASE Accept(p)
  BY <1>1, AcceptIso
<1>2. CASE Fork(p)
  BY <1>2, ForkIso
<1>3. CASE Recv(p)
  BY <1>3, RecvIso
<1>4. CASE BeginUpload(p) \/ Chunk(p) \/ ShortChunk(p) \/ Message(p) \/ Command(p) \/ Quit(p)
  BY <1>4, HandleIso
<1>5. CASE Killed(p) /\ pc[p] # "accept"
  BY <1>5, KilledIso
<1>6. CASE AcceptFails(p) \/ ForkFails(p) \/ RecvEnd(p) \/ Wait(p) \/ (Killed(p) /\ pc[p] = "accept")
  BY <1>6, ElsewhereProcess
<1> QED BY <1>1, <1>2, <1>3, <1>4, <1>5, <1>6 DEF Process

\* What polite clients send keeps the order of an upload.
LEMMA SendOrderly ==
  ASSUME Inv, IsoInv, Polite, NEW c \in Conns, Send(c)
  PROVE  Orderly(c)'
<1> DEFINE q0 == inq[c]
<1>1. PICK m \in Msgs : /\ mid[c] <=> m \in Chunks
                        /\ inq' = [inq EXCEPT ![c] = Append(q0, m)]
                        /\ mid' = [mid EXCEPT ![c] = IF m = "head" THEN TRUE ELSE mid[c] /\ m # "tail"]
  BY DEF Send
<1>2. state[c] = "open" /\ UNCHANGED <<procVars, history, state>>
  BY DEF Send
<1>3. inq'[c] = Append(q0, m) /\ q0 \in Seq(Msgs) /\ (mid'[c] <=> m \in Opens)
  <2>1. mid'[c] <=> (m = "head" \/ (mid[c] /\ m # "tail"))
    BY <1>1 DEF Inv, TypeOK
  <2> QED BY <1>1, <2>1 DEF Inv, TypeOK, Chunks, Opens
<1>4. Due(c)' = Due(c) /\ alone'[c] = alone[c]
  BY <1>2 DEF Due, history
<1>5. Orderly(c)
  BY DEF IsoInv
<1> HIDE DEF q0
<1> DEFINE n == Len(q0)
           q1 == Append(q0, m)
<1>6. /\ n \in Nat /\ Len(q1) = n + 1 /\ q1[n + 1] = m /\ q1 # <<>>
      /\ \A k \in 1 .. n : q1[k] = q0[k]
  BY <1>3, LastAppended
<1>7. q0 = <<>> <=> n = 0
  BY <1>3
<1> HIDE DEF n, q1
<1>8. /\ q0 # <<>> => /\ mid[c] <=> q0[n] \in Opens
                      /\ \A k \in 1 .. n - 1 : q0[k] \in Opens <=> q0[k + 1] \in Chunks
      /\ Due(c).receiveing => IF q0 = <<>> THEN mid[c] ELSE q0[1] \in Chunks
  BY <1>5 DEF Orderly, q0, n
<1>9. Due(c).receiveing => q1[1] \in Chunks
  <2>1. CASE n = 0
    <3>1. q1[1] = m
      BY <1>6, <2>1
    <3> QED BY <1>1, <1>7, <1>8, <2>1, <3>1
  <2>2. CASE n # 0
    <3>1. q1[1] = q0[1]
      BY <1>6, <2>2
    <3> QED BY <1>7, <1>8, <2>2, <3>1
  <2> QED BY <2>1, <2>2
<1>10. ASSUME NEW k \in 1 .. n PROVE q1[k] \in Opens <=> q1[k + 1] \in Chunks
  <2>1. q1[k] = q0[k] /\ q0 # <<>>
    BY <1>6, <1>7
  <2>2. CASE k = n
    BY <1>1, <1>6, <1>8, <2>1, <2>2
  <2>3. CASE k # n
    <3>1. k \in 1 .. n - 1 /\ k + 1 \in 1 .. n
      BY <1>6, <2>3
    <3> QED BY <1>6, <1>8, <2>1, <3>1
  <2> QED BY <2>2, <2>3
<1>11. /\ inq'[c] = q1 /\ Len(q1) - 1 = n /\ q1[Len(q1)] = m
  BY <1>3, <1>6 DEF q1
<1>12. alone'[c].receiveing \/ Due(c)'.receiveing => Commands
  BY <1>4, <1>5 DEF Orderly
<1>13. state'[c] = "open"
  BY <1>2
<1> QED BY <1>3, <1>4, <1>6, <1>9, <1>10, <1>11, <1>12, <1>13 DEF Orderly

\* And so does every step of a polite client.
LEMMA ClientIso ==
  ASSUME Inv, IsoInv, Polite, NEW c \in Conns, Client(c)
  PROVE  IsoInv'
<1>1. /\ UNCHANGED <<history, fileVars, replies, receiveing, pfile, buffer, clnt_sock, pc>>
      /\ \A d \in Conns \ {c} : inq'[d] = inq[d] /\ mid'[d] = mid[d] /\ state'[d] = state[d]
  BY DEF Client, Connect, Send, Read, Leave, Reset, procVars, Inv, TypeOK
<1>2. \A d \in Conns : AtWork(d)' <=> AtWork(d)
  BY <1>1 DEF AtWork
<1>3. \A d \in Conns : Due(d)' = Due(d) /\ alone'[d] = alone[d]
  BY <1>1 DEF Due, history
<1>4. Orderly(c)'
  <2>1. Orderly(c)
    BY DEF IsoInv
  <2>2. CASE Send(c)
    BY <2>2, SendOrderly
  <2>3. CASE Connect(c) \/ Read(c) \/ Leave(c)
    <3>1. /\ inq'[c] = inq[c] /\ mid'[c] = mid[c]
          /\ state'[c] = state[c] \/ state'[c] = "open" \/ (state'[c] = "fin" /\ ~mid[c])
      BY <2>3 DEF Connect, Read, Leave, Inv, TypeOK
    <3> QED BY <1>3, <2>1, <3>1 DEF Orderly
  <2>4. CASE Reset(c)
    <3>1. inq'[c] = inq[c] /\ mid'[c] = mid[c] /\ state'[c] = "rst" /\ ~mid[c] /\ inq[c] = <<>>
      BY <2>4 DEF Reset, Inv, TypeOK
    <3> QED BY <1>3, <2>1, <3>1 DEF Orderly
  <2> QED BY <2>2, <2>3, <2>4 DEF Client
<1>5. ASSUME NEW d \in Conns PROVE Orderly(d)'
  <2>1. CASE d = c
    BY <1>4, <2>1
  <2>2. CASE d # c
    <3>1. Orderly(d)
      BY DEF IsoInv
    <3> QED BY <1>1, <1>3, <2>2, <3>1 DEF Orderly
  <2> QED BY <2>1, <2>2
<1>6. \A d \in Conns : state'[d] = "open" => state[d] \in {"open", "idle"}
  BY DEF Client, Connect, Send, Read, Leave, Reset, Inv, TypeOK
<1>7. ASSUME NEW d \in Conns, state'[d] = "idle" \/ InBacklog(d)'
      PROVE  state[d] = "idle" \/ InBacklog(d)
  <2>1. state'[d] = "idle" => state[d] = "idle"
    BY DEF Client, Connect, Send, Read, Leave, Reset, Inv, TypeOK
  <2>2. CASE Connect(c)
    <3>1. state[c] = "idle" /\ backlog' = Append(backlog, c) /\ backlog \in Seq(Conns)
      BY <2>2 DEF Connect, Inv, TypeOK
    <3>2. \A j \in DOMAIN backlog' : backlog'[j] = c \/ \E k \in DOMAIN backlog : backlog'[j] = backlog[k]
      BY <3>1
    <3> QED BY <1>7, <2>1, <3>1, <3>2 DEF InBacklog
  <2>3. CASE Send(c) \/ Read(c) \/ Leave(c)
    BY <1>7, <2>1, <2>3 DEF Send, Read, Leave, InBacklog
  <2>4. CASE Reset(c)
    <3>1. \A j \in DOMAIN backlog' : \E k \in DOMAIN backlog : backlog'[j] = backlog[k]
      BY <2>4, ResetBacklog DEF Inv
    <3> QED BY <1>7, <2>1, <3>1 DEF InBacklog
  <2> QED BY <2>2, <2>3, <2>4 DEF Client
<1>8. \A q \in Procs : /\ Attends(q)' => Attends(q) /\ pc'[q] = pc[q]
                       /\ pc'[q] = "accept" => ~receiveing[q]
  BY <1>1 DEF Attends, IsoInv
<1> QED BY <1>1, <1>2, <1>5, <1>6, <1>7, <1>8, Elsewhere

-----------------------------------------------------------------------------
(* The shared files.                                                       *)

\* A file with an owner is the owner's.
Owned == \A n \in Names : owner[n] # None => owner[n] \in Conns /\ name[owner[n]] = n

\* It contains what the owner has sent.
Contents == \A c \in Conns : owner[name[c]] = c => file[name[c]] = Private(c).file

\* Who writes to a file with an owner is the owner's process, and writes at its end.
\* (Both clients of two overlapping uploads write at offsets of their own: then the
\* file has no owner.)
Writers ==
  \A p \in Procs : Attends(p) /\ receiveing[p] =>
    LET n == name[clnt_sock[p]]
    IN  owner[n] # None => owner[n] = clnt_sock[p] /\ stream[p].at = Len(file[n])

FilesInv == Owned /\ Contents /\ Writers

\* Written at its end, a file is longer by what was written.
LEMMA WrittenAtEnd ==
  ASSUME NEW f \in Seq(Items), NEW item \in Items
  PROVE  Written(f, Len(f), item) = Append(f, item)
<1> DEFINE n == Len(f)
           w == Written(f, n, item)
           a == Append(f, item)
<1>1. /\ n \in Nat /\ a \in Seq(Items) /\ Len(a) = n + 1 /\ a[n + 1] = item
      /\ \A k \in 1 .. n : a[k] = f[k]
  OBVIOUS
<1>2. w = [k \in 1 .. n + 1 |-> IF k = n + 1 THEN item ELSE IF k <= n THEN f[k] ELSE Hole]
  BY <1>1 DEF Written
<1> HIDE DEF n, w, a
<1>3. a = [k \in 1 .. n + 1 |-> a[k]]
  <2>1. a = [k \in 1 .. Len(a) |-> a[k]]
    BY <1>1
  <2> QED BY <1>1, <2>1
<1>4. \A k \in 1 .. n + 1 : w[k] = a[k]
  BY <1>1, <1>2
<1>5. w = a
  BY <1>2, <1>3, <1>4
<1> QED BY <1>5 DEF w, a, n

LEMMA InitFiles == Init => FilesInv
BY ForkAssumption DEF Init, FilesInv, Owned, Contents, Writers, Attends

\* Steps that touch no file, and begin no upload.
LEMMA FilesKept ==
  ASSUME Inv, FilesInv, UNCHANGED fileVars,
         \A c \in Conns : Private(c)'.file = Private(c).file,
         \A p \in Procs : Attends(p)' /\ receiveing'[p] =>
           Attends(p) /\ receiveing[p] /\ clnt_sock'[p] = clnt_sock[p]
  PROVE  FilesInv'
<1>1. UNCHANGED <<name, file, stream, owner>>
  BY DEF fileVars
<1>2. Owned'
  BY <1>1 DEF FilesInv, Owned
<1>3. Contents'
  BY <1>1 DEF FilesInv, Contents
<1>4. Writers'
  BY <1>1 DEF FilesInv, Writers
<1> QED BY <1>2, <1>3, <1>4 DEF FilesInv

\* What is known of a process at work on a message of an upload, and of the others.
LEMMA Uploading ==
  ASSUME Inv, IsoInv, NEW p \in Procs, pc[p] = "handle"
  PROVE  LET c == clnt_sock[p] IN
         /\ c \in Conns /\ name[c] \in Names /\ file \in [Names -> Seq(Items)]
         /\ owner \in [Names -> Conns \union {None}] /\ None \notin Conns
         /\ stream \in [Procs -> [name : Names \union {None}, at : Nat]]
         /\ \A q \in Procs \ {p} : Attends(q) => clnt_sock[q] \in Conns \ {c}
         /\ \A q \in Procs : Attends(q) /\ receiveing[q] => Uploads(q, name[clnt_sock[q]])
<1>1. /\ clnt_sock[p] \in Conns /\ Attends(p)
      /\ \A q \in Procs : Attends(q) /\ clnt_sock[q] = clnt_sock[p] => q = p
  BY WorkedOn
<1>2. \A q \in Procs : Attends(q) => clnt_sock[q] \in Conns
  BY DEF Inv, HoldsIt, TypeOK
<1>3. \A q \in Procs : Attends(q) /\ receiveing[q] => Uploads(q, name[clnt_sock[q]])
  BY DEF IsoInv, OwnVariables, Uploads
<1> QED BY <1>1, <1>2, <1>3, ForkAssumption DEF Inv, TypeOK

\* fopen() leaves an empty file to the client, unless somebody writes to it.
LEMMA BeginFiles ==
  ASSUME Inv, IsoInv, FilesInv, NEW p \in Procs, BeginUpload(p),
         NEW c, c = clnt_sock[p]
  PROVE  FilesInv'
<1> DEFINE n == name[c]
           busy == \E q \in Procs : Uploads(q, n)
<1>1. /\ pc[p] = "handle" /\ ~receiveing[p] /\ Commands /\ buffer[p] = "head"
      /\ pc' = [pc EXCEPT ![p] = "recv"]
      /\ UNCHANGED <<clnt_sock, name, history>>
      /\ receiveing' = [receiveing EXCEPT ![p] = TRUE]
      /\ stream' = [stream EXCEPT ![p] = [name |-> n, at |-> 0]]
      /\ file' = [file EXCEPT ![n] = <<>>]
      /\ owner' = [owner EXCEPT ![n] = IF busy THEN None ELSE c]
  BY DEF BeginUpload, Handle, Goto, Opened
<1>2. /\ c \in Conns /\ n \in Names /\ file \in [Names -> Seq(Items)]
      /\ owner \in [Names -> Conns \union {None}] /\ None \notin Conns
      /\ stream \in [Procs -> [name : Names \union {None}, at : Nat]]
      /\ \A q \in Procs \ {p} : Attends(q) => clnt_sock[q] \in Conns \ {c}
      /\ \A q \in Procs : Attends(q) /\ receiveing[q] => Uploads(q, name[clnt_sock[q]])
  BY <1>1, Uploading
<1>3. Private(c)'.file = <<>> /\ \A d \in Conns \ {c} : Private(d)' = Private(d)
  <2> DEFINE old == Private(c)
  <2>1. /\ Private(c)' = After(c, old, buffer[p])
        /\ \A d \in Conns \ {c} : Private(d)' = Private(d)
    BY <1>1, WorkedOff
  <2>2. old \in Sessions /\ old.receiveing = receiveing[p]
    BY <1>1, Working
  <2> HIDE DEF old
  <2>3. After(c, old, buffer[p]).file = <<>>
    <3> DEFINE m == buffer[p]
    <3>1. ~old.receiveing /\ Commands /\ m = "head"
      BY <1>1, <2>2
    <3> HIDE DEF m
    <3>2. After(c, old, m).file = <<>>
      BY <2>2, <3>1, AfterFile
    <3> QED BY <3>2 DEF m
  <2> QED BY <2>1, <2>3
<1>4. /\ file'[n] = <<>> /\ owner'[n] = IF busy THEN None ELSE c
      /\ \A m \in Names \ {n} : file'[m] = file[m] /\ owner'[m] = owner[m]
      /\ stream'[p].at = 0 /\ \A q \in Procs \ {p} : stream'[q] = stream[q]
  BY <1>1, <1>2
<1>5. \A q \in Procs : Attends(q)' => Attends(q)
  BY <1>1 DEF Attends, Inv, TypeOK
<1>6. \A q \in Procs \ {p} : receiveing'[q] = receiveing[q]
  BY <1>1 DEF Inv, TypeOK
<1>7. \A d \in Conns : name[d] \in Names
  BY DEF Inv, TypeOK
<1> HIDE DEF busy
<1>8. Owned'
  BY <1>1, <1>2, <1>4 DEF FilesInv, Owned
<1>9. ASSUME NEW d \in Conns, owner'[name[d]] = d PROVE file'[name[d]] = Private(d)'.file
  <2>1. CASE d = c
    <3>1. name[d] = n
      BY <2>1
    <3> QED BY <1>3, <1>4, <2>1, <3>1
  <2>2. CASE d # c
    <3>1. name[d] # n
      BY <1>2, <1>4, <1>9, <2>2
    <3> QED BY <1>3, <1>4, <1>7, <1>9, <2>2, <3>1 DEF FilesInv, Contents
  <2> QED BY <2>1, <2>2
<1>10. ASSUME NEW q \in Procs, Attends(q)', receiveing'[q], owner'[name[clnt_sock[q]]] # None
       PROVE  /\ owner'[name[clnt_sock[q]]] = clnt_sock[q]
              /\ stream'[q].at = Len(file'[name[clnt_sock[q]]])
  <2>1. CASE q = p
    <3>1. name[clnt_sock[q]] = n /\ clnt_sock[q] = c
      BY <2>1
    <3>2. Len(<<>>) = 0
      OBVIOUS
    <3> QED BY <1>4, <1>10, <2>1, <3>1, <3>2
  <2>2. CASE q # p
    <3>1. Attends(q) /\ receiveing[q] /\ clnt_sock[q] \in Conns
      BY <1>2, <1>5, <1>6, <1>10, <2>2
    <3>2. name[clnt_sock[q]] # n
      <4>1. name[clnt_sock[q]] = n => busy
        BY <1>2, <3>1 DEF busy
      <4> QED BY <1>4, <1>10, <4>1
    <3> QED BY <1>4, <1>7, <1>10, <2>2, <3>1, <3>2 DEF FilesInv, Writers
  <2> QED BY <2>1, <2>2
<1>11. Contents'
  BY <1>1, <1>9 DEF Contents
<1>12. Writers'
  BY <1>1, <1>10 DEF Writers
<1> QED BY <1>8, <1>11, <1>12 DEF FilesInv

\* fwrite() extends a file of the client's own, or mixes it with another one, of nobody.
LEMMA ChunkFiles ==
  ASSUME Inv, IsoInv, FilesInv, NEW p \in Procs, Chunk(p),
         NEW c, c = clnt_sock[p]
  PROVE  FilesInv'
<1> DEFINE n == name[c]
           at == stream[p].at
           item == <<c, buffer[p]>>
<1>1. /\ pc[p] = "handle" /\ receiveing[p] /\ buffer[p] \in {"full", "tail"}
      /\ pc' = [pc EXCEPT ![p] = "recv"]
      /\ UNCHANGED <<clnt_sock, name, owner, history>>
      /\ \A q \in Procs \ {p} : receiveing'[q] = receiveing[q]
  BY DEF Chunk, Handle, Goto, Inv, TypeOK
<1>2. pfile[p] = p /\ stream[p].name = n
  BY <1>1, Working
<1>3. /\ file' = [file EXCEPT ![n] = Written(file[n], at, item)]
      /\ stream' = [stream EXCEPT ![p] = [name |-> n, at |-> at + 1]]
  BY <1>2 DEF Chunk
<1>4. /\ c \in Conns /\ n \in Names /\ file \in [Names -> Seq(Items)]
      /\ owner \in [Names -> Conns \union {None}] /\ None \notin Conns
      /\ stream \in [Procs -> [name : Names \union {None}, at : Nat]]
      /\ \A q \in Procs \ {p} : Attends(q) => clnt_sock[q] \in Conns \ {c}
  BY <1>1, Uploading
<1>5. /\ Private(c)'.file = Append(Private(c).file, item)
      /\ \A d \in Conns \ {c} : Private(d)' = Private(d)
  <2> DEFINE old == Private(c)
  <2>1. /\ Private(c)' = After(c, old, buffer[p])
        /\ \A d \in Conns \ {c} : Private(d)' = Private(d)
    BY <1>1, WorkedOff
  <2>2. old \in Sessions /\ old.receiveing = receiveing[p]
    BY <1>1, Working
  <2> HIDE DEF old
  <2>3. After(c, old, buffer[p]).file = Append(old.file, <<c, buffer[p]>>)
    <3> DEFINE m == buffer[p]
    <3>1. old.receiveing /\ m \in {"full", "tail"}
      BY <1>1, <2>2
    <3> HIDE DEF m
    <3>2. After(c, old, m).file = Append(old.file, <<c, m>>)
      BY <2>2, <3>1, AfterFile
    <3> QED BY <3>2 DEF m
  <2> QED BY <2>1, <2>3 DEF old
<1>6. Attends(p) /\ item \in Items
  <2>1. buffer[p] \in Msgs
    BY <1>1, Working
  <2> QED BY <1>1, <1>4, <2>1 DEF Attends, Items
<1>7. /\ file'[n] = Written(file[n], at, item)
      /\ \A m \in Names \ {n} : file'[m] = file[m]
      /\ stream'[p].at = at + 1 /\ \A q \in Procs \ {p} : stream'[q] = stream[q]
  BY <1>3, <1>4
<1>8. owner[n] # None => /\ owner[n] = c
                         /\ file'[n] = Append(file[n], item) /\ Len(file'[n]) = at + 1
  <2> SUFFICES ASSUME owner[n] # None
               PROVE  /\ owner[n] = c
                      /\ file'[n] = Append(file[n], item) /\ Len(file'[n]) = at + 1
    OBVIOUS
  <2>1. owner[n] = c /\ at = Len(file[n])
    BY <1>1, <1>6 DEF FilesInv, Writers
  <2>2. file[n] \in Seq(Items)
    BY <1>4
  <2> HIDE DEF n, at, item
  <2>3. file'[n] = Append(file[n], item)
    BY <1>6, <1>7, <2>1, <2>2, WrittenAtEnd
  <2>4. Len(Append(file[n], item)) = Len(file[n]) + 1
    BY <2>2
  <2> QED BY <2>1, <2>3, <2>4
<1>9. \A q \in Procs : Attends(q)' => Attends(q)
  BY <1>1 DEF Attends, Inv, TypeOK
<1>10. \A d \in Conns : name[d] \in Names
  BY DEF Inv, TypeOK
<1> HIDE DEF at, item
<1>11. Owned'
  BY <1>1 DEF FilesInv, Owned
<1>12. ASSUME NEW d \in Conns, owner[name[d]] = d PROVE file'[name[d]] = Private(d)'.file
  <2>1. file[name[d]] = Private(d).file
    BY <1>12 DEF FilesInv, Contents
  <2>2. CASE d = c
    <3>1. name[d] = n /\ owner[n] # None
      BY <1>4, <1>12, <2>2
    <3> QED BY <1>5, <1>8, <2>1, <2>2, <3>1
  <2>3. CASE d # c
    <3>1. name[d] # n
      BY <1>4, <1>8, <1>12, <2>3
    <3> QED BY <1>5, <1>7, <1>10, <2>1, <2>3, <3>1
  <2> QED BY <2>2, <2>3
<1>13. ASSUME NEW q \in Procs, Attends(q)', receiveing'[q], owner[name[clnt_sock[q]]] # None
       PROVE  /\ owner[name[clnt_sock[q]]] = clnt_sock[q]
              /\ stream'[q].at = Len(file'[name[clnt_sock[q]]])
  <2>1. CASE q = p
    <3>1. name[clnt_sock[q]] = n /\ clnt_sock[q] = c
      BY <2>1
    <3> QED BY <1>7, <1>8, <1>13, <2>1, <3>1
  <2>2. CASE q # p
    <3>1. Attends(q) /\ receiveing[q] /\ clnt_sock[q] \in Conns \ {c}
      BY <1>1, <1>4, <1>9, <1>13, <2>2
    <3>2. owner[name[clnt_sock[q]]] = clnt_sock[q] /\ stream[q].at = Len(file[name[clnt_sock[q]]])
      BY <1>13, <3>1 DEF FilesInv, Writers
    <3>3. name[clnt_sock[q]] # n
      BY <1>4, <1>8, <3>1, <3>2
    <3> QED BY <1>7, <1>10, <2>2, <3>1, <3>2, <3>3
  <2> QED BY <2>1, <2>2
<1>14. Contents'
  BY <1>1, <1>12 DEF Contents
<1>15. Writers'
  BY <1>1, <1>13 DEF Writers
<1> QED BY <1>11, <1>14, <1>15 DEF FilesInv

\* The other things a process does with a message do not change the private file.
LEMMA HandledFiles ==
  ASSUME Inv, IsoInv, FilesInv, NEW p \in Procs,
         \/ ShortChunk(p) \/ Message(p) \/ Command(p) \/ Quit(p)
         \/ (Killed(p) /\ pc[p] # "accept"),
         NEW c, c = clnt_sock[p]
  PROVE  FilesInv'
<1> DEFINE old == Private(c)
<1>1. /\ pc[p] = "handle" /\ UNCHANGED <<clnt_sock, history, fileVars>>
      /\ \E next \in {"recv", "ended"} : pc' = [pc EXCEPT ![p] = next]
      /\ receiveing[p] => buffer[p] \notin {"full", "tail"}
      /\ ~receiveing[p] => ~(Commands /\ buffer[p] = "head")
      /\ \A q \in Procs : receiveing'[q] => receiveing[q]
  <2>1. CASE ShortChunk(p)
    BY <2>1 DEF ShortChunk, Handle, Goto, Inv, TypeOK
  <2>2. CASE Message(p)
    <3>1. receiveing[p] => Commands
      BY <2>2, Working DEF Message, Handle
    <3> QED BY <2>2, <3>1 DEF Message, IsMessage, Handle, Goto, Inv, TypeOK
  <2>5. CASE Quit(p)
    BY <2>5 DEF Quit, IsMessage, Handle, Goto, Inv, TypeOK
  <2>3. CASE Command(p)
    BY <2>3 DEF Command, IsCommand, IsMessage, Handle, Goto, Inv, TypeOK
  <2>4. CASE Killed(p) /\ pc[p] # "accept"
    BY <2>4 DEF Killed, MayAccept, IsCommand, IsMessage, Goto, Inv, TypeOK
  <2> QED BY <2>1, <2>2, <2>3, <2>4, <2>5
<1>2. old \in Sessions /\ old.receiveing = receiveing[p]
  BY <1>1, Working
<1>3. /\ Private(c)' = After(c, old, buffer[p])
      /\ \A d \in Conns \ {c} : Private(d)' = Private(d)
  BY <1>1, WorkedOff
<1>4. \A q \in Procs : Attends(q)' => Attends(q)
  BY <1>1 DEF Attends, Inv, TypeOK
<1> HIDE DEF old
<1>5. After(c, old, buffer[p]).file = old.file
  <2> DEFINE m == buffer[p]
  <2>1. /\ old.receiveing => m \notin {"full", "tail"}
        /\ ~old.receiveing => ~(Commands /\ m = "head")
    BY <1>1, <1>2
  <2> HIDE DEF m
  <2>2. After(c, old, m).file = old.file
    <3>1. CASE old.receiveing
      BY <1>2, <2>1, <3>1, AfterFile
    <3>2. CASE ~old.receiveing
      BY <1>2, <2>1, <3>2, AfterFile
    <3> QED BY <3>1, <3>2
  <2> QED BY <2>2 DEF m
<1>6. \A d \in Conns : Private(d)'.file = Private(d).file
  BY <1>3, <1>5 DEF old
<1> QED BY <1>1, <1>4, <1>6, FilesKept

\* Steps of a process that neither finish the work on a message nor begin it.
LEMMA OtherFiles ==
  ASSUME Inv, IsoInv, FilesInv, NEW p \in Procs,
         \/ Accept(p) \/ AcceptFails(p) \/ Fork(p) \/ ForkFails(p) \/ RecvEnd(p) \/ Wait(p)
         \/ (Killed(p) /\ pc[p] = "accept")
  PROVE  FilesInv'
<1>1. UNCHANGED <<history, fileVars>>
  BY DEF Accept, AcceptFails, Fork, ForkFails, RecvEnd, Wait, Killed
<1>2. /\ \A q \in Procs : pc'[q] = "handle" <=> pc[q] = "handle"
      /\ \A q \in Procs : pc[q] = "handle" => clnt_sock'[q] = clnt_sock[q]
  <2>1. CASE Accept(p)
    BY <2>1 DEF Accept, MayAccept, Inv, TypeOK
  <2>2. CASE Fork(p)
    BY <2>2 DEF Fork, AfterFork, Inv, TypeOK
  <2>3. CASE AcceptFails(p) \/ ForkFails(p) \/ (Killed(p) /\ pc[p] = "accept")
    BY <2>3 DEF AcceptFails, ForkFails, Killed, Goto, Inv, TypeOK
  <2>4. CASE RecvEnd(p)
    BY <2>4 DEF RecvEnd, AfterFin, Inv, TypeOK
  <2>5. CASE Wait(p)
    BY <2>5 DEF Wait, Inv, TypeOK
  <2> QED BY <2>1, <2>2, <2>3, <2>4, <2>5
<1>3. ASSUME NEW d \in Conns PROVE Private(d)' = Private(d)
  <2>1. AtWork(d)' <=> AtWork(d)
    BY <1>2 DEF AtWork
  <2> QED BY <1>1, <2>1, SamePrivate
<1>4. ASSUME NEW q \in Procs, Attends(q)', receiveing'[q]
      PROVE  Attends(q) /\ receiveing[q] /\ clnt_sock'[q] = clnt_sock[q]
  <2>1. CASE Accept(p)
    <3>1. ~receiveing[p] /\ UNCHANGED receiveing
      BY <2>1 DEF Accept, MayAccept, IsoInv
    <3>2. q # p
      BY <1>4, <3>1
    <3> QED BY <1>4, <2>1, <3>1, <3>2 DEF Accept, Attends, Inv, TypeOK
  <2>2. CASE Fork(p)
    <3>1. PICK r \in Procs : /\ pc[r] = "unborn"
                             /\ pc' = [pc EXCEPT ![p] = AfterFork, ![r] = "recv"]
                             /\ clnt_sock' = [clnt_sock EXCEPT ![r] = clnt_sock[p]]
                             /\ receiveing' = [receiveing EXCEPT ![r] = receiveing[p]]
      BY <2>2 DEF Fork
    <3>2. pc[p] = "fork" /\ Attends(p)
      BY <2>2 DEF Fork, Attends
    <3>3. ~receiveing[p]
      <4>1. receiveing[p] = Due(clnt_sock[p]).receiveing /\ Due(clnt_sock[p]) = Start
        BY <3>2, NotAtWork DEF IsoInv, OwnVariables, Due
      <4> QED BY <4>1 DEF Start
    <3>4. q # r
      BY <1>4, <3>1, <3>3 DEF Inv, TypeOK
    <3>5. q # p
      BY <1>4, <3>1, <3>2, <3>3, <3>4 DEF Inv, TypeOK
    <3> QED BY <1>4, <3>1, <3>4, <3>5 DEF Attends, Inv, TypeOK
  <2>3. CASE AcceptFails(p) \/ ForkFails(p) \/ (Killed(p) /\ pc[p] = "accept")
    BY <1>4, <2>3 DEF AcceptFails, ForkFails, Killed, Goto, Attends, Inv, TypeOK
  <2>4. CASE RecvEnd(p)
    BY <1>4, <2>4 DEF RecvEnd, AfterFin, Attends, Inv, TypeOK
  <2>5. CASE Wait(p)
    BY <1>4, <2>5 DEF Wait, Attends, Inv, TypeOK
  <2> QED BY <2>1, <2>2, <2>3, <2>4, <2>5
<1> QED BY <1>1, <1>3, <1>4, FilesKept

LEMMA RecvFiles ==
  ASSUME Inv, IsoInv, FilesInv, NEW p \in Procs, Recv(p)
  PROVE  FilesInv'
<1> DEFINE c == clnt_sock[p]
<1>1. /\ pc[p] = "recv" /\ Attends(p) /\ pc' = [pc EXCEPT ![p] = "handle"]
      /\ handled' = [handled EXCEPT ![c] = Append(handled[c], Head(inq[c]))]
      /\ alone' = [alone EXCEPT ![c] = Private(c)]
      /\ UNCHANGED <<clnt_sock, receiveing, fileVars>>
  BY DEF Recv, Goto, Attends
<1>2. c \in Conns
  BY <1>1, NotAtWork
<1>3. ASSUME NEW d \in Conns PROVE Private(d)' = Private(d)
  <2>1. CASE d = c
    <3>1. AtWork(d)' /\ alone'[d] = Private(d)
      BY <1>1, <1>2, <2>1 DEF AtWork, Inv, TypeOK
    <3> QED BY <3>1 DEF Private
  <2>2. CASE d # c
    <3>1. handled'[d] = handled[d] /\ alone'[d] = alone[d]
      BY <1>1, <2>2 DEF Inv, TypeOK
    <3>2. AtWork(d)' <=> AtWork(d)
      BY <1>1, <2>2 DEF AtWork, Inv, TypeOK
    <3> QED BY <3>1, <3>2 DEF Private
  <2> QED BY <2>1, <2>2
<1>4. \A q \in Procs : Attends(q)' => Attends(q)
  BY <1>1 DEF Attends, Inv, TypeOK
<1> QED BY <1>1, <1>3, <1>4, FilesKept

LEMMA NextFiles ==
  ASSUME Inv, IsoInv, FilesInv, [Next]_vars
  PROVE  FilesInv'
<1>1. ASSUME NEW p \in Procs, Process(p) PROVE FilesInv'
  <2>1. CASE BeginUpload(p)
    BY <2>1, BeginFiles
  <2>2. CASE Chunk(p)
    BY <2>2, ChunkFiles
  <2>3. CASE ShortChunk(p) \/ Message(p) \/ Command(p) \/ Quit(p) \/ (Killed(p) /\ pc[p] # "accept")
    BY <2>3, HandledFiles
  <2>4. CASE \/ Accept(p) \/ AcceptFails(p) \/ Fork(p) \/ ForkFails(p) \/ RecvEnd(p) \/ Wait(p)
             \/ (Killed(p) /\ pc[p] = "accept")
    BY <2>4, OtherFiles
  <2>5. CASE Recv(p)
    BY <2>5, RecvFiles
  <2> QED BY <1>1, <2>1, <2>2, <2>3, <2>4, <2>5 DEF Process
<1>2. CASE (\E c \in Conns : Client(c)) \/ UNCHANGED vars
  <2>1. UNCHANGED <<procVars, history, fileVars>>
    BY <1>2 DEF Client, Connect, Send, Read, Leave, Reset, vars
  <2>2. ASSUME NEW d \in Conns PROVE Private(d)' = Private(d)
    <3>1. AtWork(d)' <=> AtWork(d)
      BY <2>1 DEF AtWork, procVars
    <3> QED BY <2>1, <3>1, SamePrivate
  <2> QED BY <2>1, <2>2, FilesKept DEF procVars, Attends
<1> QED BY <1>1, <1>2 DEF Next

\* Polite clients of server_run() and server_run_cmd() are answered as by a private
\* server, but for files that others have uploaded under the name a client asks for, and
\* the file of a client is what it sent, unless uploads of that name overlap, for any
\* number of processes, clients and names: although processes inherit connections, go
\* on with the variables of former clients, and all write to one directory.
THEOREM Isolation == Spec => []Isolated
<1> DEFINE Iso == Polite => IsoInv /\ FilesInv
<1>1. Init => Iso
  BY InitIso, InitFiles
<1>2. Inv /\ Iso /\ [Next]_vars => Iso'
  <2> SUFFICES ASSUME Inv, Polite, IsoInv, FilesInv, [Next]_vars PROVE IsoInv' /\ FilesInv'
    OBVIOUS
  <2>1. CASE \E p \in Procs : Process(p)
    BY <2>1, ProcessIso, NextFiles
  <2>2. CASE \E c \in Conns : Client(c)
    BY <2>2, ClientIso, NextFiles
  <2>3. CASE UNCHANGED vars
    <3>1. IsoInv'
      BY <2>3 DEF vars, procVars, peerVars, history, fileVars, IsoInv, Untouched, Uploaded,
                  InBacklog, ServedAlone, RepliedAlone, Shared, OwnVariables, Orderly, Private,
                  Due, AtWork, Attends
    <3> QED BY <3>1, NextFiles
  <2> QED BY <2>1, <2>2, <2>3 DEF Next
<1>3. Iso => Isolated
  BY DEF IsoInv, FilesInv, Contents, ServedAlone, Isolated
<1> QED BY <1>1, <1>2, <1>3, Invariance, PTL DEF Spec
=============================================================================
