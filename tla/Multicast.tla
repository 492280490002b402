------------------------------ MODULE Multicast ------------------------------
(***************************************************************************)
(* Three pairs of programs in which a server sends to whoever listens on   *)
(* port 8888, in turns with sleep():                                       *)
(*   "text": cpp_src/broadcast_server.cpp and broadcast_client.cpp, a text *)
(*           to a multicast group;                                         *)
(*   "time": tcp-ip-review/broadcast_server.cpp and broadcast_client.cpp,  *)
(*           the time, broadcast in network order;                         *)
(*   "ask":  tcp-ip-review/multicast_server.cpp and multicast_client.cpp,  *)
(*           the time to a group, whose members send to it as well.        *)
(* A datagram reaches some of the listeners, none twice, in the order sent.*)
(* While a program sleeps, the others do any number of steps.              *)
(***************************************************************************)
EXTENDS Integers, Sequences

CONSTANTS
  Clients, Servers, \* programs, each on a host of its own
  Nobody,           \* the address 0.0.0.0
  ROUNDS,           \* receiving rounds of a client, 5 or 10
  SOCKET,           \* datagrams a socket holds
  BYTE,             \* number of values of half an unsigned int
  FirstSecond,      \* on the clock, at the start
  LastSecond,       \* bound: the last second on the clock
  MaxFailures       \* bound: failures of recvfrom()

ASSUME MulticastAssumption ==
  /\ Clients \intersect Servers = {} /\ Nobody \notin Clients \union Servers
  /\ ROUNDS \in Nat \ {0} /\ SOCKET \in Nat \ {0} /\ BYTE \in Nat \ {0}
  /\ FirstSecond \in Nat /\ LastSecond \in Nat /\ MaxFailures \in Nat

UINT == BYTE * BYTE

\* The text; and what rtime holds before anything was received.
Text == -2
Junk == -3

VARIABLES
  kind,            \* which pair runs: "text", "time" or "ask"
  clock,           \* the clock
  srv,             \* servers: "up", "ended"
  cl,              \* clients: "bind", "join", "sendto", "recvfrom", "again", "ended"
  times,           \* rounds completed
  from, rtime,     \* the sender's address and the data that it prints
  socket,          \* datagrams in the client's socket
  failures,
  sentBy           \* history: what each program has sent

mvars == <<kind, clock, srv, cl, times, from, rtime, socket, failures, sentBy>>

CastInit ==
  /\ kind \in {"text", "time", "ask"} /\ clock = FirstSecond
  /\ srv = [s \in Servers |-> "up"]
  /\ cl = [c \in Clients |-> "bind"] /\ times = [c \in Clients |-> 0]
  /\ from = [c \in Clients |-> Nobody] /\ rtime = [c \in Clients |-> Junk]
  /\ socket = [c \in Clients |-> <<>>] /\ failures = 0
  /\ sentBy = [a \in Clients \union Servers |-> {}]
-----------------------------------------------------------------------------
(* Sending.                                                                *)

\* htonl() and ntohl(): the lower four bytes of eight, swapped.
Swap(t) == LET low == t % UINT IN (low % BYTE) * BYTE + low \div BYTE

\* Only the "time" programs convert.
Convert(t) == IF kind = "time" /\ t # Junk THEN Swap(t) ELSE t

Listening == {c \in Clients : cl[c] \notin {"bind", "join", "ended"}}

\* Whoever listens and has room gets the datagram, or does not.  What is sent is
\* converted before.
Deliver(a, value) ==
  /\ \E got \in SUBSET {c \in Listening : Len(socket[c]) < SOCKET} :
       socket' = [c \in Clients |->
         IF c \in got THEN Append(socket[c], [from |-> a, value |-> Convert(value)]) ELSE socket[c]]
  /\ sentBy' = [sentBy EXCEPT ![a] = @ \union {value}]

\* One round of a server.
ServerSendto(s) ==
  /\ srv[s] = "up"
  /\ Deliver(s, IF kind = "text" THEN Text ELSE clock)
  /\ UNCHANGED <<kind, clock, srv, cl, times, from, rtime, failures>>

ServerEnds(s) ==
  /\ srv[s] = "up"
  /\ srv' = [srv EXCEPT ![s] = "ended"]
  /\ UNCHANGED <<kind, clock, cl, times, from, rtime, socket, failures, sentBy>>

ClockTicks ==
  /\ clock < LastSecond
  /\ clock' = clock + 1
  /\ UNCHANGED <<kind, srv, cl, times, from, rtime, socket, failures, sentBy>>
-----------------------------------------------------------------------------
(* Receiving.                                                              *)

\* Where a round begins: the "ask" client sends first.
RoundStart == IF kind = "ask" THEN "sendto" ELSE "recvfrom"

\* bind(), and joining the group where there is one.
Bind(c) ==
  /\ cl[c] = "bind"
  /\ cl' = [cl EXCEPT ![c] = IF kind = "time" THEN RoundStart ELSE "join"]
  /\ UNCHANGED <<kind, clock, srv, times, from, rtime, socket, failures, sentBy>>

Join(c) ==
  /\ cl[c] = "join"
  /\ cl' = [cl EXCEPT ![c] = RoundStart]
  /\ UNCHANGED <<kind, clock, srv, times, from, rtime, socket, failures, sentBy>>

\* socket(), bind() or setsockopt() fails, the port being taken for example.
SetupFails(c) ==
  /\ cl[c] \in {"bind", "join"}
  /\ cl' = [cl EXCEPT ![c] = "ended"]
  /\ UNCHANGED <<kind, clock, srv, times, from, rtime, socket, failures, sentBy>>

\* -1 to the group, and so to itself; nobody looks whether it went out.
SendToGroup(c) ==
  /\ cl[c] = "sendto"
  /\ Deliver(c, -1)
  /\ cl' = [cl EXCEPT ![c] = "recvfrom"]
  /\ UNCHANGED <<kind, clock, srv, times, from, rtime, failures>>

\* The "ask" client receives twice in a round.
EndRound(c) ==
  IF kind = "ask" /\ cl[c] = "recvfrom"
  THEN cl' = [cl EXCEPT ![c] = "again"] /\ UNCHANGED times
  ELSE /\ times' = [times EXCEPT ![c] = @ + 1]
       /\ cl' = [cl EXCEPT ![c] = IF times'[c] = ROUNDS THEN "ended" ELSE RoundStart]

Receiving(c) == cl[c] \in {"recvfrom", "again"}

\* The address and the data are received, converted and printed.
Receive(c) ==
  /\ Receiving(c) /\ socket[c] # <<>>
  /\ socket' = [socket EXCEPT ![c] = Tail(@)]
  /\ from' = [from EXCEPT ![c] = Head(socket[c]).from]
  /\ rtime' = [rtime EXCEPT ![c] = Convert(Head(socket[c]).value)]
  /\ EndRound(c)
  /\ UNCHANGED <<kind, clock, srv, failures, sentBy>>

\* Mutant: from_addr is not cleared.
FromKept(c) == from[c]

\* The "time" client clears from_addr before it receives.
FromBefore(c) == IF kind = "time" THEN Nobody ELSE from[c]

\* The failure is reported, and the old values are printed (the "text" client prints
\* the address only); what the "time" client has converted the last time is converted
\* again.  Variables declared inside the loop are at the same place in each turn.
ReceiveFails(c) ==
  /\ Receiving(c) /\ failures < MaxFailures
  /\ failures' = failures + 1
  /\ from' = [from EXCEPT ![c] = FromBefore(c)]
  /\ rtime' = [rtime EXCEPT ![c] = Convert(@)]
  /\ EndRound(c)
  /\ UNCHANGED <<kind, clock, srv, socket, sentBy>>

Client(c) ==
  Bind(c) \/ Join(c) \/ SetupFails(c) \/ SendToGroup(c) \/ Receive(c) \/ ReceiveFails(c)

CastNext ==
  \/ \E s \in Servers : ServerSendto(s) \/ ServerEnds(s)
  \/ \E c \in Clients : Client(c)
  \/ ClockTicks

CastSpec == CastInit /\ [][CastNext]_mvars
-----------------------------------------------------------------------------
(* Properties.                                                             *)

CastTypeOK ==
  /\ kind \in {"text", "time", "ask"} /\ clock \in Nat
  /\ srv \in [Servers -> {"up", "ended"}]
  /\ cl \in [Clients -> {"bind", "join", "sendto", "recvfrom", "again", "ended"}]
  /\ times \in [Clients -> 0 .. ROUNDS]
  /\ from \in [Clients -> Clients \union Servers \union {Nobody}]
  /\ rtime \in [Clients -> Int]
  /\ socket \in [Clients -> Seq([from : Clients \union Servers, value : Int])]
  /\ failures \in Nat
  /\ sentBy \in [Clients \union Servers -> SUBSET Int]

\* A line "received from A => T" is true: A has sent T, the time modulo 2^32 where it
\* was converted; although failed receives print it too, with old values, and the
\* "time" client then converts twice.  (The address 0.0.0.0 promises nothing.)
SenderSent ==
  \A c \in Clients : from[c] # Nobody =>
    \E v \in sentBy[from[c]] : rtime[c] = IF kind = "time" THEN v % UINT ELSE v
=============================================================================
