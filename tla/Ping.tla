-------------------------------- MODULE Ping --------------------------------
(***************************************************************************)
(* tcp-ip-review/ping.cpp: MAX_NO_PACKETS echo requests, one per second,   *)
(* then replies are read until as many have come or nothing has come for   *)
(* MAX_WAIT_TIME seconds.                                                  *)
(*                                                                         *)
(* Time passes in ticks, SEC to a second.  A packet is six words below     *)
(* WORD, 2^16 in the code.  The network may lose, duplicate, delay and     *)
(* reorder, and delivers what is meant for other processes.                *)
(***************************************************************************)
EXTENDS Integers, Sequences

CONSTANTS
  MAX_NO_PACKETS, \* requests
  MAX_WAIT_TIME,  \* seconds the alarm waits
  SEC,            \* ticks in a second
  WORD,           \* number of values of a word
  Pids,           \* process ids the program may have
  OtherIds,       \* ids in the packets of other processes
  Starts,         \* seconds on the clock when it starts
  QUEUE,          \* packets the socket holds, 50K
  MaxTime,        \* bound: ticks told apart; from then on every timer may expire
  MaxStray,       \* bound: duplicates and packets of others
  MaxErrors       \* bound: failures of recvfrom()

\* Type and code of an echo request, as one word.
ICMP_ECHO == 8
Seqs      == 1 .. MAX_NO_PACKETS
Times     == 0 .. MaxTime
Words     == 0 .. WORD - 1

ASSUME PingAssumption ==
  /\ MAX_NO_PACKETS \in Nat \ {0} /\ MAX_WAIT_TIME \in Nat \ {0} /\ SEC \in Nat \ {0}
  /\ WORD \in Nat /\ WORD > ICMP_ECHO /\ WORD > MAX_NO_PACKETS
  /\ Pids \subseteq Nat /\ OtherIds \subseteq Words /\ Starts \subseteq Nat
  /\ QUEUE \in Nat \ {0} /\ MaxTime \in Nat /\ MaxStray \in Nat /\ MaxErrors \in Nat

VARIABLES
  pc,         \* where the program is, or how it ended
  target,     \* "host": the one asked for; "unknown"
  pid, nsend, nreceived,
  sendpacket, \* the six words of the last request
  rest,       \* what recvpacket holds behind the end of a reply to us
  alarmAt,    \* when SIGALRM comes, 0 if no alarm() is running
  wake,       \* when sleep() returns
  \* the clock and the network
  start, now, \* seconds at the start, ticks since then
  flight,     \* requests under way, or their replies
  inbox,      \* packets the socket holds; came, which is history, is when a reply came
  strays, errors,
  \* history
  sentAt,     \* when a request was packed
  answered,   \* requests whose replies were accepted
  shown,      \* for the last time printed: by how much it exceeds the round trip, and
              \* how long the reply waited in the socket
  odd         \* what came: "dup"; "alias": another's reply with our id;
              \* "long": a longer packet than ours

netVars  == <<flight, inbox, strays, odd>>
progVars == <<target, pid, nsend, nreceived, sendpacket, rest, alarmAt, wake>>
histVars == <<sentAt, answered, shown>>
vars == <<pc, progVars, start, now, netVars, errors, histVars>>

Down == {"exited", "killed"}

Init ==
  /\ pc = "main" /\ target = "host" /\ pid \in Pids /\ nsend = 0 /\ nreceived = 0
  /\ sendpacket = [k \in 1 .. 6 |-> 0] /\ rest = 0 /\ alarmAt = 0 /\ wake = 0
  /\ start \in Starts /\ now = 0
  /\ flight = {} /\ inbox = <<>> /\ strays = 0 /\ errors = 0
  /\ sentAt = [q \in Seqs |-> 0] /\ answered = {} /\ shown = [excess |-> 0, waited |-> 0]
  /\ odd = {}
-----------------------------------------------------------------------------
(* Sending.                                                                *)

\* main() with a name, which may not be found; or with an address, which is copied
\* from the wrong variable with the length an uninitialised pointer leads to.
Start ==
  /\ pc = "main"
  /\ \/ pc' = "send" /\ target' = "host"
     \/ pc' = "send" /\ target' = "unknown"
     \/ pc' \in Down /\ UNCHANGED target
  /\ UNCHANGED <<pid, nsend, nreceived, sendpacket, rest, alarmAt, wake, start, now,
                 netVars, errors, histVars>>

\* cal_chksum(): the sum, twice its high word added to its low word, inverted.
cal_chksum(w) ==
  LET sum    == w[1] + w[2] + w[3] + w[4] + w[5] + w[6]
      folded == sum \div WORD + (sum % WORD)
  IN  WORD - 1 - ((folded + folded \div WORD) % WORD)

\* Mutant: the checksum of the last packet is left in.
WithChecksumKept(words) ==
  [words EXCEPT ![2] = cal_chksum([words EXCEPT ![2] = sendpacket[2]])]

WithChecksum(words) == [words EXCEPT ![2] = cal_chksum([words EXCEPT ![2] = 0])]

\* pack(): the id is the low half of pid; of the time only the four bytes sent.
Pack ==
  /\ pc = "send" /\ nsend < MAX_NO_PACKETS
  /\ nsend' = nsend + 1
  /\ LET sec == start + now \div SEC
     IN  sendpacket' = WithChecksum(<<ICMP_ECHO, 0, pid % WORD, nsend',
                                      sec % WORD, (sec \div WORD) % WORD>>)
  /\ sentAt' = [sentAt EXCEPT ![nsend'] = now]
  /\ pc' = "sendto"
  /\ UNCHANGED <<target, pid, nreceived, rest, alarmAt, wake, start, now, netVars, errors,
                 answered, shown>>

Sendto ==
  /\ pc = "sendto"
  /\ flight' = flight \union {nsend}
  /\ wake' = now + SEC
  /\ pc' = "sleep"
  /\ UNCHANGED <<target, pid, nsend, nreceived, sendpacket, rest, alarmAt, start, now,
                 inbox, strays, errors, odd, histVars>>

\* Nothing is sent and nobody sleeps; the packet counts as sent.
SendtoFails ==
  /\ pc = "sendto"
  /\ pc' = "send"
  /\ UNCHANGED <<progVars, start, now, netVars, errors, histVars>>

Reached(t) == now >= t \/ now = MaxTime

SleepEnds ==
  /\ pc = "sleep" /\ Reached(wake)
  /\ pc' = "send"
  /\ UNCHANGED <<progVars, start, now, netVars, errors, histVars>>

EndSend ==
  /\ pc = "send" /\ nsend = MAX_NO_PACKETS
  /\ pc' = "loop"
  /\ UNCHANGED <<progVars, start, now, netVars, errors, histVars>>
-----------------------------------------------------------------------------
(* Receiving.                                                              *)

\* Mutant: alarm(0), which stops the alarm.
RearmNever == 0

\* alarm() forgets what was left of the one before.
Rearm == now + MAX_WAIT_TIME * SEC

\* Mutant: the loop does not end by itself.
MissingAlways == TRUE

Missing == nreceived < nsend

\* The loop of recv_packet(): another packet, or the statistics.
Loop ==
  /\ pc = "loop"
  /\ IF Missing THEN alarmAt' = Rearm /\ pc' = "recv"
                ELSE pc' = "stats" /\ UNCHANGED alarmAt
  /\ UNCHANGED <<target, pid, nsend, nreceived, sendpacket, rest, wake, start, now,
                 netVars, errors, histVars>>

\* recvfrom() returns -1, interrupted or not: both continue.
RecvfromFails ==
  /\ pc = "recv" /\ errors < MaxErrors
  /\ errors' = errors + 1
  /\ pc' = "loop"
  /\ UNCHANGED <<progVars, start, now, netVars, histVars>>

\* tv_sub() and the round trip time, in ticks; what was not sent of the time of
\* sending is taken from the rest of recvpacket.
Rtt(time, sec, usec) ==
  LET u == (time % SEC) - usec
      s == start + time \div SEC - sec
  IN  IF u < 0 THEN (s - 1) * SEC + (u + SEC) ELSE s * SEC + u

\* Mutant: the time is taken before recvfrom().
RecvTimeBefore == alarmAt - MAX_WAIT_TIME * SEC

RecvTime == now

\* Mutant: requests that come back are taken for replies.
IsOursAny(p) == p.what # "short" /\ p.id = pid

\* The id in the packet has one word, pid may have more.
IsOurs(p) == p.what \in {"reply", "long"} /\ p.id = pid

\* unpack() of the first packet.  It has no return for a reply of ours: the result
\* is what printf() returned, or the compiler has put a trap there.
Recvfrom ==
  /\ pc = "recv" /\ inbox # <<>>
  /\ inbox' = Tail(inbox)
  /\ LET p == Head(inbox)
     IN  /\ rest' \in IF p.what = "long" THEN 0 .. SEC - 1 ELSE {rest}
         /\ IF IsOurs(p)
            THEN /\ shown' = [excess |-> Rtt(RecvTime, p.sec, rest') - (p.came - sentAt[p.seq]),
                              waited |-> now - p.came]
                 /\ answered' = answered \union {p.seq}
                 /\ \/ pc' = "loop" /\ nreceived' \in {nreceived, nreceived + 1}
                    \/ pc' = "killed" /\ UNCHANGED nreceived
            ELSE pc' = "loop" /\ UNCHANGED <<shown, answered, nreceived>>
  /\ UNCHANGED <<target, pid, nsend, sendpacket, alarmAt, wake, start, now, flight,
                 strays, errors, odd, sentAt>>

\* statistics(), called by main().
Statistics ==
  /\ pc = "stats"
  /\ pc' = "exited"
  /\ UNCHANGED <<progVars, start, now, netVars, errors, histVars>>

\* The time is up: the handler runs before anything else does, statistics() again
\* if it is main() that it interrupts there.
Due == alarmAt # 0 /\ Reached(alarmAt)

Alarm ==
  /\ Due
  /\ pc' = "exited"
  /\ UNCHANGED <<progVars, start, now, netVars, errors, histVars>>

Program ==
  /\ pc \notin Down
  /\ \/ Alarm
     \/ /\ ~Due
        /\ \/ Start \/ Pack \/ Sendto \/ SendtoFails \/ SleepEnds \/ EndSend
           \/ Loop \/ RecvfromFails \/ Recvfrom \/ Statistics
-----------------------------------------------------------------------------
(* The clock and the network.                                              *)

Tick ==
  /\ pc \notin Down \union {"main"} /\ now < MaxTime
  /\ now' = now + 1
  /\ UNCHANGED <<pc, progVars, start, netVars, errors, histVars>>

\* A packet for which there is no room is lost.
Arrive(p) == inbox' = IF Len(inbox) < QUEUE THEN Append(inbox, p) ELSE inbox

Reply(q) == [what |-> "reply", id |-> pid % WORD, seq |-> q,
             sec |-> start + sentAt[q] \div SEC, came |-> now]

Answer(q) ==
  /\ Arrive(Reply(q))
  /\ flight' = flight \ {q}
  /\ UNCHANGED <<strays, odd>>

Lose(q) ==
  /\ flight' = flight \ {q}
  /\ UNCHANGED <<inbox, strays, odd>>

Duplicate(q) ==
  /\ strays < MaxStray
  /\ strays' = strays + 1
  /\ Arrive(Reply(q))
  /\ odd' = odd \union {"dup"}
  /\ UNCHANGED flight

\* Our own request, if the network brings it back.
ComesBack(q) ==
  /\ strays < MaxStray
  /\ strays' = strays + 1
  /\ Arrive([Reply(q) EXCEPT !.what = "request", !.came = 0])
  /\ UNCHANGED <<flight, odd>>

Stray ==
  /\ strays < MaxStray
  /\ strays' = strays + 1
  /\ \E what \in {"reply", "long", "short"}, id \in OtherIds :
       /\ Arrive([what |-> what, id |-> id, seq |-> 1, sec |-> start, came |-> 0])
       /\ odd' = odd \union (IF what = "long" THEN {"long"} ELSE {})
                     \union (IF id = pid THEN {"alias"} ELSE {})
  /\ UNCHANGED flight

Network ==
  /\ pc \notin Down \union {"main"}
  /\ \/ \E q \in flight : Answer(q) \/ Lose(q) \/ Duplicate(q) \/ ComesBack(q)
     \/ Stray
  /\ UNCHANGED <<pc, progVars, start, now, errors, histVars>>

Next == Program \/ Tick \/ Network

\* The program is run and time passes; the network need not deliver anything.
Spec == Init /\ [][Next]_vars /\ WF_vars(Program) /\ WF_vars(Tick)
-----------------------------------------------------------------------------
(* Properties.                                                             *)

Packet ==
  [what : {"reply", "request", "long", "short"}, id : Words, seq : Seqs, sec : Nat, came : Times]

\* Every variable stays in its range; in particular no more replies are counted than
\* requests were packed, whatever the network brings.
TypeOK ==
  /\ pc \in {"main", "send", "sendto", "sleep", "loop", "recv", "stats"} \union Down
  /\ target \in {"host", "unknown"} /\ pid \in Pids
  /\ nsend \in 0 .. MAX_NO_PACKETS /\ nreceived \in 0 .. nsend
  /\ sendpacket \in [1 .. 6 -> Words] /\ rest \in 0 .. SEC - 1
  /\ alarmAt \in Nat /\ wake \in Nat /\ start \in Starts /\ now \in Times
  /\ flight \subseteq 1 .. nsend /\ inbox \in Seq(Packet) /\ Len(inbox) <= QUEUE
  /\ strays \in 0 .. MaxStray /\ errors \in 0 .. MaxErrors
  /\ sentAt \in [Seqs -> Times] /\ answered \subseteq Seqs
  /\ shown.excess \in Int /\ shown.waited \in Int
  /\ odd \subseteq {"dup", "alias", "long"}

\* The sum of the receiver: a carry goes back in at the low end at once.
OnesSum(a, b) == IF a + b < WORD THEN a + b ELSE a + b - WORD + 1

SumOfReceiver(w) ==
  OnesSum(OnesSum(OnesSum(OnesSum(OnesSum(w[1], w[2]), w[3]), w[4]), w[5]), w[6])

\* Every packet given to sendto() passes the check of its receiver: its words,
\* the checksum included, add up to all ones (pack(), cal_chksum()).
PacketVerifies ==
  pc = "sendto" => SumOfReceiver(sendpacket) = WORD - 1

\* Replies are counted, not matched with requests; still, if the count is full and
\* nothing came twice or under our id from others, every request has been answered.
FullMeansAll ==
  nreceived = MAX_NO_PACKETS /\ odd \intersect {"dup", "alias"} = {} => answered = Seqs

\* The time printed with a reply is not the round trip: all requests are sent, with a
\* sleep after each, before the first reply is read (send_packet(), recv_packet()), and
\* the fraction of the second of sending is not sent.  Unless a longer packet has come
\* before, it exceeds the round trip by what the reply waited in the socket, or by up to
\* a second more, and is never less.
RttRoughly ==
  odd \intersect {"long", "alias"} = {} =>
    0 <= shown.waited /\ shown.waited <= shown.excess /\ shown.excess < shown.waited + SEC

\* Whatever is lost, the program ends: at the latest when the last packet was
\* MAX_WAIT_TIME ago.
Ends == <>(pc \in Down)
=============================================================================
