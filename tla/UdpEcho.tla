------------------------------- MODULE UdpEcho -------------------------------
(***************************************************************************)
(* cpp_src/ucp-client.cpp and ucp-server.cpp, which exchange lines, and    *)
(* tcp-ip-review/udp-struct-client.cpp and udp-struct-server.cpp, which    *)
(* exchange a struct with a line in it.  All use port 8000: any of the     *)
(* clients may meet either server.                                         *)
(*                                                                         *)
(* Sizes are counted in parts.  A line has 1 to MAXLINE parts.  A struct   *)
(* has STRUCT of them: its numbers a, b and c, in bytes 0 to 13, are the   *)
(* first, its text d, from byte 14 on, is part TEXT, and e comes last.     *)
(* The network may lose, duplicate, delay and reorder.                     *)
(***************************************************************************)
EXTENDS Integers, Sequences

CONSTANTS
  Clients,     \* processes, each with a terminal
  MAXLINE,     \* buffers of the line programs
  STRUCT,      \* sizeof(struct A)
  MaxLines,    \* bound, for each client: lines its user types
  MaxCopies    \* bound, for each client: datagrams the network duplicates

\* Where a struct has its text.
TEXT == 2

\* The 80 bytes of the line programs reach into the text of a struct, not to its end.
ASSUME UdpAssumption ==
  /\ MAXLINE \in Nat /\ STRUCT \in Nat /\ TEXT <= MAXLINE /\ MAXLINE < STRUCT
  /\ MaxLines \in [Clients -> Nat] /\ MaxCopies \in [Clients -> Nat]

Kinds == {"line", "struct"}

\* The contents of memory: a part of what a client sent, or 0, or anything.
Part(c, k, i) == [of |-> c, no |-> k, part |-> i, upper |-> FALSE]
Zero == [part |-> 0]
Junk == [part |-> -1]

VARIABLES
  server, kind,        \* which of the servers runs, and which client each is
  sv,                  \* the server: "recvfrom", "sendto", "ended"
  buf, n, cliaddr,     \* its variables; cliaddr is a datagram's sender and label
  cl,                  \* each client: "fgets", "recvfrom", "ended"
  lines,                \* lines it has sent
  shown,               \* the answer it has printed last
  net,                 \* datagrams under way
  copies, lost         \* history: how many of a client's the network has
                       \* duplicated, and whether it has lost one

serverVars == <<sv, buf, n, cliaddr>>
clientVars == <<cl, lines, shown>>
historyVars == <<copies, lost>>
uvars == <<server, kind, serverVars, clientVars, net, historyVars>>

ServerSize == IF server = "line" THEN MAXLINE ELSE STRUCT
ClientSize(c) == IF kind[c] = "line" THEN MAXLINE ELSE STRUCT

Least(i, j) == IF i <= j THEN i ELSE j

\* A request, or its answer; copy tells the duplicates of a datagram apart.
Datagram(c, k, copy, dir, parts) ==
  [from |-> c, no |-> k, copy |-> copy, dir |-> dir, parts |-> parts]

EchoInit ==
  /\ server \in Kinds /\ kind \in [Clients -> Kinds]
  /\ sv = "recvfrom" /\ buf = [i \in 1 .. ServerSize |-> Junk]
  /\ n = 0 /\ cliaddr = [of |-> "0.0.0.0", no |-> 0, copy |-> 0]
  /\ cl = [c \in Clients |-> "fgets"]
  /\ lines = [c \in Clients |-> 0] /\ shown = [c \in Clients |-> <<>>]
  /\ net = {} /\ copies = [c \in Clients |-> 0] /\ lost = [c \in Clients |-> FALSE]
-----------------------------------------------------------------------------
(* The clients.                                                            *)

\* fgets() and sendto().  A struct is sent whole, whatever the line.
Length(c) == IF kind[c] = "line" THEN 1 .. MAXLINE ELSE {STRUCT}

Sendto(c) ==
  /\ cl[c] = "fgets" /\ lines[c] < MaxLines[c]
  /\ lines' = [lines EXCEPT ![c] = @ + 1]
  /\ cl' = [cl EXCEPT ![c] = "recvfrom"]
  /\ \E len \in Length(c) :
       net' = net \union
         {Datagram(c, lines'[c], 0, "request", [i \in 1 .. len |-> Part(c, lines'[c], i)])}
  /\ UNCHANGED <<server, kind, serverVars, shown, historyVars>>

\* The line client's buf has 13 bytes and takes 80 (line 32): what a long line
\* overwrites may be the address it is sent to.
SendtoNowhere(c) ==
  /\ cl[c] = "fgets" /\ lines[c] < MaxLines[c] /\ kind[c] = "line"
  /\ lines' = [lines EXCEPT ![c] = @ + 1]
  /\ cl' = [cl EXCEPT ![c] = "recvfrom"]
  /\ lost' = [lost EXCEPT ![c] = TRUE]
  /\ UNCHANGED <<server, kind, serverVars, shown, net, copies>>

\* End of input; sendto() fails; or the line client is killed by that line, or by the
\* strlen() of a recvbuf that has no end (line 39).
End(c) ==
  /\ cl[c] = "fgets"
  /\ cl' = [cl EXCEPT ![c] = "ended"]
  /\ UNCHANGED <<server, kind, serverVars, lines, shown, net, historyVars>>

\* Mutant: the failure is reported and the loop goes on.
NextLine == "fgets"

AfterFailure == "ended"

\* Interrupted, or told that nobody listens on the port.
RecvfromFails(c) ==
  /\ cl[c] = "recvfrom"
  /\ cl' = [cl EXCEPT ![c] = AfterFailure]
  /\ UNCHANGED <<server, kind, serverVars, lines, shown, net, historyVars>>

\* The line client prints the bytes received, the struct client its whole buffer,
\* cleared before.
Printed(c, parts) ==
  IF kind[c] = "line" THEN parts
  ELSE [i \in 1 .. STRUCT |-> IF i <= Len(parts) THEN parts[i] ELSE Zero]

\* Any datagram that arrives is taken for the answer.  What does not fit is cut off.
Recvfrom(c) ==
  /\ cl[c] = "recvfrom"
  /\ \E d \in net :
       /\ d.from = c /\ d.dir = "answer"
       /\ net' = net \ {d}
       /\ shown' = [shown EXCEPT ![c] =
            Printed(c, SubSeq(d.parts, 1, Least(Len(d.parts), ClientSize(c))))]
  /\ cl' = [cl EXCEPT ![c] = "fgets"]
  /\ UNCHANGED <<server, kind, serverVars, lines, historyVars>>

Client(c) == Sendto(c) \/ SendtoNowhere(c) \/ Recvfrom(c) \/ RecvfromFails(c) \/ End(c)
-----------------------------------------------------------------------------
(* The server.                                                             *)

\* Mutant: the address of the first client is kept.
SenderFirst(d) ==
  [of |-> IF cliaddr.no = 0 THEN d.from ELSE cliaddr.of, no |-> d.no, copy |-> d.copy]

\* cliaddr, and the label of the datagram that the answer is to.
Sender(d) == [of |-> d.from, no |-> d.no, copy |-> d.copy]

\* The beginning of buf is overwritten, the rest is what it was.
ServerRecvfrom ==
  /\ sv = "recvfrom"
  /\ \E d \in net :
       /\ d.dir = "request"
       /\ net' = net \ {d}
       /\ n' = Least(Len(d.parts), ServerSize)
       /\ buf' = [i \in 1 .. ServerSize |-> IF i <= n' THEN d.parts[i] ELSE buf[i]]
       /\ cliaddr' = Sender(d)
  /\ sv' = "sendto"
  /\ UNCHANGED <<server, kind, clientVars, historyVars>>

\* Mutant: the whole array is sent back.
WholeBuffer == ServerSize

\* The line server answers as many bytes as came, the struct server a struct.
AnswerSize == IF server = "line" THEN n ELSE STRUCT

\* toupper(): of the bytes that came, or of the text in the struct and no other part.
\* A struct ends its text itself; after a line, which sends no zero byte, what is in buf
\* since earlier decides where strlen() stops.
TextEnds == IF n = STRUCT THEN {TEXT} ELSE TEXT .. STRUCT

Uppered(end) == IF server = "line" THEN 1 .. n ELSE TEXT .. end

Upper(p) == IF p \in {Zero, Junk} THEN p ELSE [p EXCEPT !.upper = TRUE]

Answer(end) ==
  [i \in 1 .. ServerSize |-> IF i \in Uppered(end) THEN Upper(buf[i]) ELSE buf[i]]

\* The line server changes buf itself, the struct server a copy of it.
ServerSendto ==
  /\ sv = "sendto"
  /\ \E end \in TextEnds :
       /\ buf' = IF server = "line" THEN Answer(end) ELSE buf
       /\ net' = net \union
            {Datagram(cliaddr.of, cliaddr.no, cliaddr.copy, "answer",
                      SubSeq(Answer(end), 1, AnswerSize))}
  /\ n' = AnswerSize
  /\ sv' = "recvfrom"
  /\ UNCHANGED <<server, kind, cliaddr, clientVars, historyVars>>

\* A call fails, or the struct server copies the datagram to where its pointer,
\* never set, leads (udp-struct-server.cpp:57).
ServerEnds ==
  /\ sv # "ended"
  /\ sv' = "ended"
  /\ UNCHANGED <<server, kind, buf, n, cliaddr, clientVars, net, historyVars>>
-----------------------------------------------------------------------------
(* The network.                                                            *)

Lose ==
  \E d \in net :
    /\ net' = net \ {d}
    /\ lost' = [lost EXCEPT ![d.from] = TRUE]
    /\ UNCHANGED <<server, kind, serverVars, clientVars, copies>>

Duplicate ==
  \E d \in net :
    /\ copies[d.from] < MaxCopies[d.from]
    /\ copies' = [copies EXCEPT ![d.from] = @ + 1]
    /\ net' = net \union {[d EXCEPT !.copy = copies'[d.from]]}
    /\ UNCHANGED <<server, kind, serverVars, clientVars, lost>>

EchoNext ==
  \/ \E c \in Clients : Client(c)
  \/ ServerRecvfrom \/ ServerSendto \/ ServerEnds
  \/ Lose \/ Duplicate

\* The server and the clients read what has arrived; nothing else is assumed.
Fairness ==
  /\ WF_uvars(ServerRecvfrom \/ ServerSendto)
  /\ \A c \in Clients : WF_uvars(Recvfrom(c))

EchoSpec == EchoInit /\ [][EchoNext]_uvars /\ Fairness
-----------------------------------------------------------------------------
(* Properties.                                                             *)

Parts == [of : Clients, no : Nat, part : Nat, upper : BOOLEAN] \union {Zero, Junk}

Datagrams ==
  [from : Clients, no : Nat, copy : Nat, dir : {"request", "answer"}, parts : Seq(Parts)]

EchoTypeOK ==
  /\ server \in Kinds /\ kind \in [Clients -> Kinds]
  /\ sv \in {"recvfrom", "sendto", "ended"}
  /\ buf \in [1 .. ServerSize -> Parts] /\ n \in 0 .. ServerSize
  /\ sv = "sendto" => cliaddr \in [of : Clients, no : Nat, copy : Nat]
  /\ cl \in [Clients -> {"fgets", "recvfrom", "ended"}]
  /\ lines \in [Clients -> Nat]
  /\ shown \in [Clients -> Seq(Parts)]
  /\ net \subseteq Datagrams
  /\ copies \in [Clients -> Nat] /\ lost \in [Clients -> BOOLEAN]

\* The server answers out of one buffer that it never clears: still, no client is
\* shown anything that another one sent, nor what was in the server's memory, for
\* all lengths of lines and all orders of the datagrams; except for a line client
\* that meets the struct server, which sends back a struct whatever came.
OwnParts ==
  \A c \in Clients : server = "line" \/ kind[c] = "struct" =>
    \A i \in DOMAIN shown[c] :
      shown[c][i] = Zero \/ (shown[c][i].part = i /\ shown[c][i].of = c)

\* What the answer to line k of c has where c looks for it: a line client at the
\* beginning, a struct client in the text.  It is in capitals, except for a line client
\* of the struct server: its line begins where the struct has numbers.
TextOf(c) == IF kind[c] = "struct" THEN TEXT ELSE 1

Expected(c, k) ==
  LET sent == Part(c, k, TextOf(c))
  IN  IF server = "struct" /\ kind[c] = "line" THEN sent ELSE [sent EXCEPT !.upper = TRUE]

\* Answers carry no number.  What a client shows before its next line is nevertheless
\* the answer to its last one, whatever was lost or failed before, as long as no
\* datagram of its own was duplicated.
AnswerMatches ==
  \A c \in Clients :
    copies[c] = 0 /\ cl[c] = "fgets" /\ shown[c] # <<>> =>
      shown[c][TextOf(c)] = Expected(c, lines[c])

\* Nothing is sent again: a client whose datagrams are not lost has its answer, if
\* the server lives, and also if the other clients lose theirs or send more.
LinesAnswered ==
  \A c \in Clients : cl[c] = "recvfrom" ~> cl[c] # "recvfrom" \/ lost[c] \/ sv = "ended"
=============================================================================
