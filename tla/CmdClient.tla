------------------------------ MODULE CmdClient ------------------------------
(***************************************************************************)
(* The terminal clients of cpp_src/client.h, client_run() and              *)
(* client_run_cmd().  Each round of the loop asks select() three times: is *)
(* there a message from the server, a line from the terminal, room for     *)
(* what wBuffer holds.  client_run_cmd() also takes the lines for commands *)
(* as it sends them: $put sends a file with blocking calls, $quit ends the *)
(* program; files the server sends are received (see FileTransfer.tla).    *)
(*                                                                         *)
(* A token stands for a word without blanks; lines typed one after the     *)
(* other are not separated in wBuffer, because the newline is cut off.     *)
(***************************************************************************)
EXTENDS Integers, Sequences, FiniteSets

CONSTANTS
  Lines,     \* lines the user may type: sequences of tokens
  Replies,   \* what the server may answer: sequences of messages
  BUFSIZE,   \* tokens buffer holds, the newline included: 40 or 1024 bytes
  WBUF,      \* tokens wBuffer holds, the 0 at the end included: 1024 bytes
  SNDBUF,    \* items a direction of the connection holds
  Garbage,   \* what an uninitialised array may hold up to its first 0
  MaxLines,  \* bound: lines typed
  MaxReplies \* bound: answers of the server

FileParts == {"head", "body", "tail"}
Commands  == {"$put", "$quit"}
\* "sp" is the blank between words; "junk" and "msg" stand for what an
\* uninitialised array and the server's last message contain.
Tokens    == Commands \union {"sp", "txt", "junk", "msg"}
Messages  == FileParts \union {"text"}
Down      == {"returned", "exited", "killed", "overrun"}

ASSUME ClientAssumption ==
  /\ Lines \subseteq Seq(Tokens) /\ Replies \subseteq Seq(Messages) /\ <<>> \in Replies
  /\ BUFSIZE \in Nat \ {0} /\ WBUF \in Nat \ {0} /\ SNDBUF \in Nat \ {0}
  /\ Garbage \subseteq Seq({"junk"}) /\ \A g \in Garbage : Len(g) < WBUF
  /\ MaxLines \in Nat /\ MaxReplies \in Nat

VARIABLES
  run,        \* which of the two functions it is
  pc,         \* "recv", "input", "output", "upload", "check", or Down
  wBuffer,    \* what is to be sent, up to its first 0
  buffer,     \* what the last read() stored, up to its first 0
  receiveing, \* a file is being received
  upload,     \* what _sendFile() has still to write
  failed,     \* one of rRes, r1Res, wRes is negative
  \* the terminal and the connection
  tty, eof,   \* lines typed and not read, each with its newline; end of file
  typed,      \* number of lines typed
  toServer,   \* number of writes the server has not read
  toClient,   \* messages the client has not read
  link,       \* "open", or how the server ended it: "closed", "reset"
  out,        \* what the server is about to write
  replies,    \* number of answers so far
  \* history
  taken,      \* tokens read from the terminal
  wire,       \* what of wBuffer was given to write(), up to end of file
  files,      \* the length wire had when the head of each file was written
  odd         \* what happened so far: "long": a line longer than buffer,
              \* "cut": part of a command sent, "eof": read() returned 0

ttyVars  == <<tty, eof, typed>>
netVars  == <<toClient, link, out, replies>>
Up == pc \notin Down

histVars == <<taken, wire, files, odd>>
vars == <<run, pc, wBuffer, buffer, receiveing, upload, failed, ttyVars, toServer,
          netVars, histVars>>

Init ==
  /\ run \in {"client_run", "client_run_cmd"} /\ pc = "recv"
  /\ wBuffer \in Garbage /\ buffer \in Garbage
  /\ receiveing = FALSE /\ upload = <<>> /\ failed = FALSE
  /\ tty = <<>> /\ eof = FALSE /\ typed = 0
  /\ toServer = 0 /\ toClient = <<>> /\ link = "open" /\ out = <<>> /\ replies = 0
  /\ taken = <<>> /\ wire = <<>> /\ files = <<>> /\ odd = {}
-----------------------------------------------------------------------------
(* command(): the words of a line.                                         *)

IsCommand(b) == b # <<>> /\ Head(b) \in Commands

WordStarts(b) == {k \in DOMAIN b : b[k] # "sp" /\ (k = 1 \/ b[k - 1] = "sp")}

\* The first word is the command and nothing else.
Is(name, b) == Head(b) = name /\ (Len(b) = 1 \/ b[2] = "sp")

\* Mutant: the second name is not checked.
IsPutOneName(b) == Is("$put", b) /\ Cardinality(WordStarts(b)) >= 2

IsPut(b) == Is("$put", b) /\ Cardinality(WordStarts(b)) >= 3

\* What strlen() sees after strtok_r() has replaced the blanks by 0.
FirstWord(b) ==
  LET n == CHOOSE n \in 0 .. Len(b) :
             /\ n = Len(b) \/ b[n + 1] = "sp"
             /\ \A k \in 1 .. n : b[k] # "sp"
  IN  SubSeq(b, 1, n)

\* wBuffer after write() took n of its tokens and command() ran over it or not.
Left(b, n, ran) ==
  LET rest == SubSeq(b, n + 1, Len(b)) IN IF ran THEN FirstWord(rest) ELSE rest
-----------------------------------------------------------------------------
(* The loop.                                                               *)

\* select() returns -1; the phase is left out and the round ends the client.
SelectFails ==
  /\ \E step \in {<<"recv", "input">>, <<"input", "output">>, <<"output", "check">>} :
       pc = step[1] /\ pc' = step[2]
  /\ failed' = TRUE
  /\ UNCHANGED <<run, wBuffer, buffer, receiveing, upload, ttyVars, toServer, netVars,
                 histVars>>

\* read() and, in client_run_cmd, _receFile().
Recv ==
  /\ pc = "recv" /\ toClient # <<>> /\ link # "reset"
  /\ toClient' = Tail(toClient)
  /\ buffer' = <<"msg">>
  /\ receiveing' = CASE run = "client_run"                 -> FALSE
                     [] Head(toClient) = "head"            -> TRUE
                     [] Head(toClient) = "tail"            -> FALSE
                     [] Head(toClient) \in {"body", "text"} -> receiveing
  /\ pc' = "input"
  /\ UNCHANGED <<run, wBuffer, upload, failed, ttyVars, toServer, link, out, replies,
                 histVars>>

\* A chunk that does not fill buffer and does not end in the trailer is taken for the
\* end of the file, which is closed before the chunk is written to it: the program goes
\* on or ends.
RecvShort ==
  /\ pc = "recv" /\ toClient # <<>> /\ link # "reset"
  /\ run = "client_run_cmd" /\ receiveing /\ Head(toClient) # "tail"
  /\ toClient' = Tail(toClient)
  /\ buffer' = <<"msg">>
  /\ receiveing' = FALSE
  /\ pc' \in {"input", "killed"}
  /\ UNCHANGED <<run, wBuffer, upload, failed, ttyVars, toServer, link, out, replies,
                 histVars>>

\* read() returns 0 or -1.
RecvEnd ==
  /\ pc = "recv"
  /\ link = "reset" \/ (link = "closed" /\ toClient = <<>>)
  /\ pc' = "returned"
  /\ UNCHANGED <<run, wBuffer, buffer, receiveing, upload, failed, ttyVars, toServer,
                 netVars, histVars>>

\* Mutant: without a select() before it, read() waits for a message.
RecvWaits == FALSE

RecvNothing ==
  /\ pc = "recv" /\ toClient = <<>> /\ link = "open"
  /\ pc' = "input"
  /\ UNCHANGED <<run, wBuffer, buffer, receiveing, upload, failed, ttyVars, toServer,
                 netVars, histVars>>

\* strcat(wBuffer, s) without a look at the size of wBuffer.
Strcat(s) ==
  IF Len(wBuffer) + Len(s) < WBUF THEN wBuffer' = wBuffer \o s /\ pc' = "output"
                                  ELSE pc' = "overrun" /\ UNCHANGED wBuffer

\* Mutant: the last character is kept.
KeptWithLast(line) == IF Len(line) > BUFSIZE THEN BUFSIZE ELSE Len(line)

\* buffer[n-1] = '\0': whatever came last is lost, newline or not.
Kept(line) == (IF Len(line) > BUFSIZE THEN BUFSIZE ELSE Len(line)) - 1

Input ==
  /\ pc = "input" /\ ~receiveing /\ tty # <<>>
  /\ LET line == Head(tty)
         s    == SubSeq(line, 1, Kept(line))
         rest == SubSeq(line, BUFSIZE + 1, Len(line))
     IN  /\ buffer' = s
         /\ Strcat(s)
         /\ tty' = IF rest = <<>> THEN Tail(tty) ELSE <<rest>> \o Tail(tty)
         /\ odd' = IF rest = <<>> THEN odd ELSE odd \union {"long"}
         /\ taken' = IF rest = <<>> THEN taken \o SubSeq(line, 1, Len(line) - 1)
                                    ELSE taken \o SubSeq(line, 1, BUFSIZE)
  /\ UNCHANGED <<run, receiveing, upload, failed, eof, typed, toServer, netVars, wire,
                 files>>

\* At end of file read() returns 0 and what buffer held is sent again.
InputEof ==
  /\ pc = "input" /\ ~receiveing /\ tty = <<>> /\ eof
  /\ Strcat(buffer)
  /\ odd' = odd \union {"eof"}
  /\ UNCHANGED <<run, buffer, receiveing, upload, failed, ttyVars, toServer, netVars,
                 taken, wire, files>>

InputFails ==
  /\ pc = "input" /\ ~receiveing /\ (tty # <<>> \/ eof)
  /\ pc' = "returned"
  /\ UNCHANGED <<run, wBuffer, buffer, receiveing, upload, failed, ttyVars, toServer,
                 netVars, histVars>>

InputNothing ==
  /\ pc = "input" /\ (receiveing \/ (tty = <<>> /\ ~eof))
  /\ pc' = "output"
  /\ UNCHANGED <<run, wBuffer, buffer, receiveing, upload, failed, ttyVars, toServer,
                 netVars, histVars>>

\* Mutant: select() is not asked whether there is room.
RoomAlways == TRUE

Room == link # "open" \/ toServer < SNDBUF

\* One more item for the server; nobody gets it once the server is gone.
Post ==
  /\ Room
  /\ toServer' = IF link = "open" THEN toServer + 1 ELSE toServer

\* write() takes n tokens of wBuffer, fewer than there are only if the connection
\* ends before it has room for the rest (the socket blocks); then the line is looked
\* at as a command.
\* $put: the file cannot be opened, is sent, or sendfile() fails.
Output(n) ==
  LET ran == run = "client_run_cmd" /\ IsCommand(wBuffer)
  IN  /\ pc = "output" /\ (n = 0 <=> wBuffer = <<>>)
      /\ IF n = 0 THEN Room /\ UNCHANGED toServer ELSE Post
      /\ wire' = IF "eof" \in odd THEN wire ELSE wire \o SubSeq(wBuffer, 1, n)
      /\ wBuffer' = Left(wBuffer, n, ran)
      /\ n < Len(wBuffer) => link # "open"
      /\ odd' = IF ran /\ n < Len(wBuffer) THEN odd \union {"cut"} ELSE odd
      /\ IF ran /\ IsPut(wBuffer)
         THEN upload' \in {<<>>, <<"head", "body", "tail">>, <<"head", "tail">>}
         ELSE UNCHANGED upload
      /\ pc' = IF ran /\ Is("$quit", wBuffer) THEN "exited"
               ELSE IF upload' # <<>> THEN "upload" ELSE "check"
      /\ UNCHANGED <<run, buffer, receiveing, failed, ttyVars, netVars, taken, files>>

OutputSome == \E n \in 0 .. Len(wBuffer) : Output(n)

OutputNothing ==
  /\ pc = "output" /\ ~Room
  /\ pc' = "check"
  /\ UNCHANGED <<run, wBuffer, buffer, receiveing, upload, failed, ttyVars, toServer,
                 netVars, histVars>>

\* After a reset write() returns -1, or SIGPIPE ends the process.
OutputFails ==
  /\ pc \in {"output", "upload"} /\ link # "open"
  /\ \/ pc' = "killed"
     \/ pc = "output" /\ pc' = "returned"
  /\ UNCHANGED <<run, wBuffer, buffer, receiveing, upload, failed, ttyVars, toServer,
                 netVars, histVars>>

\* _sendFile() blocks until there is room; its result ends up in a message.
Upload ==
  /\ pc = "upload"
  /\ Post
  /\ files' = IF Head(upload) = "head" /\ "eof" \notin odd THEN Append(files, Len(wire)) ELSE files
  /\ upload' = Tail(upload)
  /\ pc' = IF upload' = <<>> THEN "check" ELSE pc
  /\ UNCHANGED <<run, wBuffer, buffer, receiveing, failed, ttyVars, netVars, taken, wire,
                 odd>>

Check ==
  /\ pc = "check"
  /\ pc' = IF failed THEN "returned" ELSE "recv"
  /\ UNCHANGED <<run, wBuffer, buffer, receiveing, upload, failed, ttyVars, toServer,
                 netVars, histVars>>
-----------------------------------------------------------------------------
(* The user, and the server: it reads, then writes its answer with blocking *)
(* calls before it reads on (server.h:388-403).                             *)

Type ==
  /\ Up /\ typed < MaxLines /\ ~eof
  /\ \E line \in Lines : tty' = Append(tty, Append(line, "nl"))
  /\ typed' = typed + 1
  /\ UNCHANGED <<run, pc, wBuffer, buffer, receiveing, upload, failed, eof, toServer,
                 netVars, histVars>>

CloseTerminal ==
  /\ Up /\ ~eof
  /\ eof' = TRUE
  /\ UNCHANGED <<run, pc, wBuffer, buffer, receiveing, upload, failed, tty, typed,
                 toServer, netVars, histVars>>

ServerRead ==
  /\ Up /\ link = "open" /\ out = <<>> /\ toServer > 0
  /\ toServer' = toServer - 1
  /\ \E r \in Replies :
       /\ r # <<>> => replies < MaxReplies
       /\ out' = r
       /\ replies' = IF r = <<>> THEN replies ELSE replies + 1
  /\ UNCHANGED <<run, pc, wBuffer, buffer, receiveing, upload, failed, ttyVars, toClient,
                 link, histVars>>

ServerWrite ==
  /\ Up /\ link = "open" /\ out # <<>> /\ Len(toClient) < SNDBUF
  /\ toClient' = Append(toClient, Head(out))
  /\ out' = Tail(out)
  /\ UNCHANGED <<run, pc, wBuffer, buffer, receiveing, upload, failed, ttyVars, toServer,
                 link, replies, histVars>>

ServerLeaves ==
  /\ Up /\ link = "open"
  /\ link' \in {"closed", "reset"}
  /\ UNCHANGED <<run, pc, wBuffer, buffer, receiveing, upload, failed, ttyVars, toServer,
                 toClient, out, replies, histVars>>

Client ==
  \/ Recv \/ RecvShort \/ RecvEnd \/ RecvNothing \/ Input \/ InputEof \/ InputNothing
  \/ OutputSome \/ OutputNothing \/ Upload \/ Check

Failure == SelectFails \/ InputFails \/ OutputFails

Next ==
  Client \/ Failure \/ Type \/ CloseTerminal \/ ServerRead \/ ServerWrite \/ ServerLeaves

\* The system runs the client, no call has to fail; the server reads and writes when it can.
Fairness == WF_vars(Client) /\ WF_vars(ServerRead) /\ WF_vars(ServerWrite)

Spec == Init /\ [][Next]_vars /\ Fairness
-----------------------------------------------------------------------------
(* Properties.                                                             *)

\* Every variable stays in its range; the connection holds no more than it can.
TypeOK ==
  /\ run \in {"client_run", "client_run_cmd"}
  /\ pc \in {"recv", "input", "output", "upload", "check"} \union Down
  /\ wBuffer \in Seq(Tokens) /\ Len(wBuffer) < WBUF
  /\ buffer \in Seq(Tokens)
  /\ receiveing \in BOOLEAN /\ failed \in BOOLEAN /\ eof \in BOOLEAN
  /\ upload \in Seq(FileParts) /\ (pc = "upload" => upload # <<>>)
  /\ tty \in Seq(Seq(Tokens \union {"nl"})) /\ (\A k \in DOMAIN tty : tty[k] # <<>>)
  /\ typed \in 0 .. MaxLines
  /\ toServer \in 0 .. SNDBUF
  /\ toClient \in Seq(Messages) /\ Len(toClient) <= SNDBUF
  /\ link \in {"open", "closed", "reset"}
  /\ out \in Seq(Messages) /\ replies \in 0 .. MaxReplies
  /\ taken \in Seq(Tokens) /\ wire \in Seq(Tokens) /\ files \in Seq(Nat)
  /\ odd \subseteq {"long", "cut", "eof"}

\* What the client sends is what the user typed, every line once, whole and in
\* order, after what wBuffer held before it was ever written; unless a line is
\* longer than buffer, a command is sent in parts, or the terminal ends.
LinesExact ==
  odd = {} /\ pc # "overrun" => \E g \in Garbage : wire \o wBuffer = g \o taken

\* A file goes out directly after the complete $put line that asked for it, both
\* names included, and no other file since; unless write() took that line in parts.
FileFollowsCommand ==
  "cut" \notin odd =>
    \A k \in DOMAIN files : \E j \in 1 .. files[k] :
      LET line == SubSeq(wire, j, files[k])
      IN  /\ line[1] = "$put" /\ Cardinality(WordStarts(line)) >= 3
          /\ \A i \in 1 .. k - 1 : files[i] < j

\* Client and server both wait in write() for the other one to read.
Embraced ==
  pc = "upload" /\ ~Room /\ out # <<>> /\ Len(toClient) = SNDBUF

\* Nothing else can hold the client up: unless the two embrace, or a file that
\* the server sends never ends, every line typed is read, and what is in wBuffer
\* is sent, or the client ends.
OnlyEmbraceStops ==
  <>[](~Embraced /\ ~receiveing) =>
    /\ tty # <<>> ~> tty = <<>> \/ pc \in Down
    /\ wBuffer # <<>> ~> wBuffer = <<>> \/ "eof" \in odd \/ pc \in Down
=============================================================================
