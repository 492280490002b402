-------------------------- MODULE Datagrams_proofs --------------------------
(***************************************************************************)
(* Ping: for any number of requests and of packets of others, any losses,  *)
(* delays and limits, the requests sent are valid, the replies counted are *)
(* those that came, and the times printed are right.  Multicast: an        *)
(* address is printed with what was sent from there.                       *)
(***************************************************************************)
EXTENDS Ping, Multicast, SequenceFacts, FiniteSetTheorems, TLAPS

\* The last request that may have been sent.
Limit == IF pc = "sendto" THEN nsend - 1 ELSE nsend

Clean == odd \intersect {"dup", "alias"} = {}

\* A reply to process id.
To(id, p) == p.what \in {"reply", "long"} /\ p.id = id

\* A request is under way, or its reply is in the socket, or it is answered: one of
\* them, and there is one reply.  Replies are counted when they are accepted.
Once ==
  /\ flight \subseteq 1 .. Limit /\ answered \subseteq 1 .. Limit
  /\ flight \intersect answered = {}
  /\ \A k \in DOMAIN inbox :
       To(pid, inbox[k]) => inbox[k].seq \in (1 .. Limit) \ (flight \union answered)
  /\ \A j, k \in DOMAIN inbox :
       To(pid, inbox[j]) /\ To(pid, inbox[k]) /\ inbox[j].seq = inbox[k].seq => j = k
  /\ nreceived <= Cardinality(answered)

Types ==
  /\ nsend \in 0 .. MAX_NO_PACKETS /\ (pc = "sendto" => nsend >= 1)
  /\ nreceived \in Nat /\ pid \in Nat /\ start \in Nat
  /\ flight \subseteq Seqs /\ inbox \in Seq(Packet)
  /\ now \in Times /\ now \in Nat /\ sentAt \in [Seqs -> Nat]

Inv == Types /\ (Clean => Once)

\* A request that comes back.
Back(q) == [Reply(q) EXCEPT !.what = "request", !.came = 0]

\* A reply is a packet, and about the request it replies to.
LEMMA ReplyIs ==
  ASSUME Types, NEW q \in Seqs
  PROVE  /\ Reply(q) \in Packet /\ Reply(q).seq = q
         /\ Back(q) \in Packet /\ ~To(pid, Back(q))
<1>1. pid % WORD \in Words
  BY PingAssumption DEF Types, PingAssumption, Words
<1>2. start + sentAt[q] \div SEC \in Nat
  <2>1. sentAt[q] \in Nat /\ SEC \in Nat \ {0} /\ start \in Nat
    BY PingAssumption DEF Types, PingAssumption
  <2>2. sentAt[q] \div SEC \in Nat
    BY <2>1
  <2> QED BY <2>1, <2>2
<1>3. 0 \in Times /\ now \in Times
  BY PingAssumption DEF Types, Times
<1> QED BY <1>1, <1>2, <1>3 DEF Reply, Back, Packet, To

\* What is in the socket after a packet has arrived.
LEMMA Arrived ==
  ASSUME Types, NEW p \in Packet, Arrive(p)
  PROVE  /\ inbox' \in Seq(Packet)
         /\ \A k \in DOMAIN inbox' :
              \/ k \in DOMAIN inbox /\ inbox'[k] = inbox[k]
              \/ k = Len(inbox) + 1 /\ inbox'[k] = p
         /\ Len(inbox) \in Nat
BY DEF Arrive, Types

\* A packet that is no reply of ours, or not heard of for the first time, changes nothing.
LEMMA ArrivedKeeps ==
  ASSUME Inv, NEW p \in Packet, Arrive(p),
         UNCHANGED <<pc, nsend, nreceived, pid, answered>>, Clean' => Clean,
         flight' \subseteq flight,
         Clean' => (To(pid, p) => p.seq \in flight \ flight')
  PROVE  Clean' => Once'
<1> SUFFICES ASSUME Clean' PROVE Once'
  OBVIOUS
<1>1. Once
  BY DEF Inv
<1>2. Limit' = Limit /\ pid' = pid
  BY DEF Limit
<1>3. /\ flight' \subseteq 1 .. Limit' /\ answered' \subseteq 1 .. Limit'
      /\ flight' \intersect answered' = {}
      /\ nreceived' <= Cardinality(answered')
  BY <1>1, <1>2 DEF Once
<1>4. ASSUME NEW k \in DOMAIN inbox', To(pid, inbox'[k])
      PROVE  inbox'[k].seq \in (1 .. Limit') \ (flight' \union answered')
  <2>1. CASE k \in DOMAIN inbox /\ inbox'[k] = inbox[k]
    BY <1>1, <1>2, <1>4, <2>1 DEF Once
  <2>2. CASE inbox'[k] = p
    BY <1>1, <1>2, <1>4, <2>2 DEF Once
  <2> QED BY <2>1, <2>2, Arrived DEF Inv
<1>5. ASSUME NEW j \in DOMAIN inbox', NEW k \in DOMAIN inbox',
             To(pid, inbox'[j]), To(pid, inbox'[k]), inbox'[j].seq = inbox'[k].seq
      PROVE  j = k
  <2>1. ASSUME NEW i \in DOMAIN inbox, To(pid, inbox[i]), To(pid, p)
        PROVE  inbox[i].seq # p.seq
    BY <1>1, <2>1 DEF Once
  <2>2. /\ \/ j \in DOMAIN inbox /\ inbox'[j] = inbox[j]
           \/ j = Len(inbox) + 1 /\ inbox'[j] = p
        /\ \/ k \in DOMAIN inbox /\ inbox'[k] = inbox[k]
           \/ k = Len(inbox) + 1 /\ inbox'[k] = p
    BY Arrived DEF Inv
  <2> QED BY <1>1, <1>5, <2>1, <2>2 DEF Once
<1> QED BY <1>2, <1>3, <1>4, <1>5 DEF Once

\* The network.
LEMMA NetworkKeeps ==
  ASSUME Inv, Network
  PROVE  Inv'
<1>1. UNCHANGED <<pc, progVars, start, now, errors, histVars>>
  BY DEF Network
<1>2. ASSUME NEW q \in flight, Answer(q) \/ Lose(q) \/ Duplicate(q) \/ ComesBack(q) PROVE Inv'
  <2>1. q \in Seqs
    BY DEF Inv, Types
  <2>2. CASE Answer(q)
    <3>1. Types'
      BY <1>1, <2>1, <2>2, ReplyIs, Arrived DEF Answer, Types, Inv, progVars, histVars
    <3>2. Clean' => Once'
      BY <1>1, <2>1, <2>2, ReplyIs, ArrivedKeeps DEF Answer, Inv, progVars, histVars, Clean
    <3> QED BY <3>1, <3>2 DEF Inv
  <2>3. CASE Lose(q)
    BY <1>1, <2>3 DEF Lose, Inv, Types, progVars, histVars, Clean, Once, Limit
  <2>4. CASE Duplicate(q)
    <3>1. Types'
      BY <1>1, <2>1, <2>4, ReplyIs, Arrived DEF Duplicate, Types, Inv, progVars, histVars
    <3>2. ~Clean'
      BY <2>4 DEF Duplicate, Clean
    <3> QED BY <3>1, <3>2 DEF Inv
  <2>5. CASE ComesBack(q)
    <3>1. Types'
      BY <1>1, <2>1, <2>5, ReplyIs, Arrived DEF ComesBack, Back, Types, Inv, progVars, histVars
    <3>2. Clean' => Once'
      BY <1>1, <2>1, <2>5, ReplyIs, ArrivedKeeps DEF ComesBack, Back, Inv, progVars, histVars, Clean
    <3> QED BY <3>1, <3>2 DEF Inv
  <2> QED BY <1>2, <2>2, <2>3, <2>4, <2>5
<1>3. CASE Stray
  <2>1. PICK what \in {"reply", "long", "short"}, id \in OtherIds :
          /\ Arrive([what |-> what, id |-> id, seq |-> 1, sec |-> start, came |-> 0])
          /\ odd' = odd \union (IF what = "long" THEN {"long"} ELSE {})
                        \union (IF id = pid THEN {"alias"} ELSE {})
    BY <1>3 DEF Stray
  <2> DEFINE p == [what |-> what, id |-> id, seq |-> 1, sec |-> start, came |-> 0]
  <2>2. p \in Packet
    BY PingAssumption DEF PingAssumption, Packet, Seqs, Words, Inv, Types, Times
  <2>3. Clean' => Clean /\ ~To(pid, p)
    BY <2>1 DEF Clean, To
  <2>4. Types'
    BY <1>1, <1>3, <2>1, <2>2, Arrived DEF Stray, Types, Inv, progVars, histVars
  <2>5. Clean' => Once'
    <3> HIDE DEF p
    <3>1. Arrive(p) /\ flight' = flight
      BY <1>3, <2>1 DEF Stray, p
    <3> QED BY <1>1, <2>2, <2>3, <3>1, ArrivedKeeps DEF progVars, histVars
  <2> QED BY <2>4, <2>5 DEF Inv
<1> QED BY <1>2, <1>3 DEF Network

\* The program reads a packet.
LEMMA RecvfromKeeps ==
  ASSUME Inv, Recvfrom
  PROVE  Inv'
<1> DEFINE p == Head(inbox)
<1>1. /\ inbox' = Tail(inbox) /\ inbox' \in Seq(Packet) /\ p \in Packet /\ p = inbox[1]
      /\ 1 \in DOMAIN inbox
      /\ \A j \in DOMAIN inbox' : j + 1 \in DOMAIN inbox /\ inbox'[j] = inbox[j + 1] /\ j \in Nat
  BY HeadTail DEF Recvfrom, Inv, Types
<1>2. /\ UNCHANGED <<pid, nsend, start, now, flight, odd, sentAt>>
      /\ pc = "recv" /\ pc' \in {"loop", "killed"}
  BY DEF Recvfrom
<1>3. \/ /\ To(pid, p) /\ answered' = answered \union {p.seq}
         /\ nreceived' \in {nreceived, nreceived + 1}
      \/ ~To(pid, p) /\ UNCHANGED <<answered, nreceived>>
  BY DEF Recvfrom, IsOurs, To
<1> HIDE DEF p
<1>4. Types'
  BY <1>1, <1>2, <1>3 DEF Inv, Types
<1>5. ASSUME Clean' PROVE Once'
  <2>1. Once /\ Limit' = Limit
    BY <1>2, <1>5 DEF Inv, Clean, Limit
  <2>2. To(pid, p) => p.seq \in (1 .. Limit) \ (flight \union answered)
    BY <1>1, <2>1 DEF Once
  <2>3. ASSUME NEW j \in DOMAIN inbox', To(pid, inbox'[j])
        PROVE  /\ inbox'[j].seq \in (1 .. Limit) \ (flight \union answered)
               /\ To(pid, p) => inbox'[j].seq # p.seq
    <3>1. To(pid, inbox[j + 1]) /\ j + 1 \in DOMAIN inbox /\ j + 1 # 1
      BY <1>1, <2>3
    <3> QED BY <1>1, <2>1, <3>1 DEF Once
  <2>5. ASSUME NEW j \in DOMAIN inbox', NEW k \in DOMAIN inbox',
               To(pid, inbox'[j]), To(pid, inbox'[k]), inbox'[j].seq = inbox'[k].seq
        PROVE  j = k
    <3>1. /\ To(pid, inbox[j + 1]) /\ inbox'[j] = inbox[j + 1] /\ j + 1 \in DOMAIN inbox
          /\ To(pid, inbox[k + 1]) /\ inbox'[k] = inbox[k + 1] /\ k + 1 \in DOMAIN inbox
          /\ j \in Nat /\ k \in Nat
      BY <1>1, <2>5
    <3>2. j + 1 = k + 1
      BY <2>1, <2>5, <3>1 DEF Once
    <3> QED BY <3>1, <3>2
  <2>4. nreceived' <= Cardinality(answered')
    <3>1. IsFiniteSet(answered) /\ Cardinality(answered) \in Nat
      <4>1. Limit \in Int /\ answered \subseteq 1 .. Limit
        BY <2>1 DEF Once, Limit, Inv, Types
      <4>2. IsFiniteSet(1 .. Limit)
        BY <4>1, FS_Interval
      <4> QED BY <4>1, <4>2, FS_Subset, FS_CardinalityType
    <3>2. CASE To(pid, p)
      <4>1. Cardinality(answered \union {p.seq}) = Cardinality(answered) + 1
        BY <2>2, <3>1, <3>2, FS_AddElement
      <4>2. answered' = answered \union {p.seq} /\ nreceived' \in {nreceived, nreceived + 1}
        BY <1>3, <3>2
      <4>3. nreceived \in Nat /\ nreceived <= Cardinality(answered)
        BY <2>1 DEF Once, Inv, Types
      <4> QED BY <3>1, <4>1, <4>2, <4>3
    <3>3. CASE ~To(pid, p)
      BY <1>3, <2>1, <3>3 DEF Once
    <3> QED BY <3>2, <3>3
  <2> QED BY <1>2, <1>3, <2>1, <2>2, <2>3, <2>4, <2>5 DEF Once
<1> QED BY <1>4, <1>5 DEF Inv

\* The other steps of the program do not touch the socket.
LEMMA QuietKeeps ==
  ASSUME Inv, UNCHANGED <<inbox, odd, answered, nreceived, pid, start, now>>,
         nsend' \in 0 .. MAX_NO_PACKETS, pc' = "sendto" => nsend' >= 1,
         sentAt' \in [Seqs -> Nat], Limit' >= Limit, Limit' \in Nat,
         \/ flight' = flight
         \/ flight' = flight \union {Limit'} /\ Limit' \in Seqs /\ Limit' > Limit
  PROVE  Inv'
<1>1. Limit \in Nat
  BY DEF Limit, Inv, Types
<1>2. Types'
  BY DEF Inv, Types
<1>3. ASSUME Clean' PROVE Once'
  <2>1. Once
    BY <1>3 DEF Inv, Clean
  <2>2. \A x \in 1 .. Limit : x \in 1 .. Limit' /\ (Limit' > Limit => x # Limit')
    BY <1>1
  <2>3. flight' \subseteq 1 .. Limit' /\ answered' \subseteq 1 .. Limit'
    <3>1. flight \subseteq 1 .. Limit' /\ answered' \subseteq 1 .. Limit'
      BY <2>1, <2>2 DEF Once
    <3>2. Limit' > Limit => Limit' \in 1 .. Limit'
      BY <1>1
    <3> QED BY <3>1, <3>2
  <2>4. flight' \intersect answered' = {}
    BY <2>1, <2>2 DEF Once
  <2>5. \A k \in DOMAIN inbox :
          To(pid, inbox[k]) => inbox[k].seq \in (1 .. Limit') \ (flight' \union answered')
    BY <2>1, <2>2 DEF Once
  <2>6. nreceived' <= Cardinality(answered')
    BY <2>1 DEF Once
  <2> QED BY <2>1, <2>3, <2>4, <2>5, <2>6 DEF Once
<1> QED BY <1>2, <1>3 DEF Inv

\* Steps after which only the place in the program, or an alarm, is another one.
LEMMA PlaceKeeps ==
  ASSUME Inv, pc' # "sendto",
         UNCHANGED <<inbox, odd, answered, nreceived, pid, start, now, nsend, sentAt, flight>>
  PROVE  Inv'
<1>1. nsend \in 0 .. MAX_NO_PACKETS /\ (pc = "sendto" => nsend >= 1) /\ MAX_NO_PACKETS \in Nat
  BY PingAssumption DEF PingAssumption, Inv, Types
<1>2. Limit' >= Limit /\ Limit' \in Nat
  BY <1>1 DEF Limit
<1>3. sentAt' \in [Seqs -> Nat] /\ nsend' \in 0 .. MAX_NO_PACKETS
  BY <1>1 DEF Inv, Types
<1> QED BY <1>2, <1>3, QuietKeeps

LEMMA ProgramKeeps ==
  ASSUME Inv, Program
  PROVE  Inv'
<1>1. CASE Start
  BY <1>1, PlaceKeeps DEF Start, Down, netVars, histVars
<1>2. CASE Pack
  <2>1. nsend \in Nat /\ now \in Nat /\ sentAt \in [Seqs -> Nat] /\ MAX_NO_PACKETS \in Nat
    BY PingAssumption DEF PingAssumption, Inv, Types
  <2>2. sentAt' \in [Seqs -> Nat] /\ nsend' \in 1 .. MAX_NO_PACKETS
    <3>1. pc = "send" /\ nsend < MAX_NO_PACKETS /\ nsend' = nsend + 1
          /\ sentAt' = [sentAt EXCEPT ![nsend'] = now]
      BY <1>2 DEF Pack
    <3>2. nsend' \in 1 .. MAX_NO_PACKETS
      BY <2>1, <3>1
    <3>3. sentAt' \in [Seqs -> Nat]
      BY <2>1, <3>1
    <3> QED BY <3>2, <3>3
  <2>3. Limit' = Limit /\ Limit' \in Nat
    BY <1>2, <2>1 DEF Pack, Limit
  <2> QED BY <1>2, <2>1, <2>2, <2>3, QuietKeeps DEF Pack, netVars
<1>3. CASE Sendto
  <2>1. nsend \in 1 .. MAX_NO_PACKETS /\ MAX_NO_PACKETS \in Nat /\ sentAt \in [Seqs -> Nat]
    BY <1>3, PingAssumption DEF PingAssumption, Sendto, Inv, Types
  <2>2. Limit' = nsend /\ Limit' > Limit /\ Limit' \in Seqs /\ Limit' \in Nat
    BY <1>3, <2>1 DEF Sendto, Seqs, Limit
  <2>3. flight' = flight \union {Limit'}
    BY <1>3, <2>2 DEF Sendto
  <2>4. /\ UNCHANGED <<inbox, odd, answered, nreceived, pid, start, now, nsend, sentAt>>
        /\ pc' # "sendto"
    BY <1>3 DEF Sendto, histVars
  <2>5. nsend' \in 0 .. MAX_NO_PACKETS /\ sentAt' \in [Seqs -> Nat] /\ Limit' >= Limit
    <3>1. Limit \in Int
      BY <2>1 DEF Limit
    <3> QED BY <2>1, <2>2, <2>4, <3>1
  <2> QED BY <2>2, <2>3, <2>4, <2>5, QuietKeeps
<1>4. CASE SendtoFails \/ SleepEnds \/ EndSend \/ RecvfromFails \/ Statistics \/ Alarm
  BY <1>4, PlaceKeeps DEF SendtoFails, SleepEnds, EndSend, RecvfromFails, Statistics, Alarm,
     netVars, progVars, histVars
<1>5. CASE Loop
  BY <1>5, PlaceKeeps DEF Loop, netVars, histVars
<1>6. CASE Recvfrom
  BY <1>6, RecvfromKeeps
<1> QED BY <1>1, <1>2, <1>3, <1>4, <1>5, <1>6 DEF Program

\* Every state has every reply once.
THEOREM Invariance == Spec => []Inv
<1>1. Init => Inv
  <2> SUFFICES ASSUME Init PROVE Inv
    OBVIOUS
  <2>1. Types
    BY PingAssumption DEF Init, Types, PingAssumption, Seqs, Times
  <2>2. Once
    BY FS_EmptySet DEF Init, Once, Limit
  <2> QED BY <2>1, <2>2 DEF Inv
<1>2. Inv /\ [Next]_vars => Inv'
  <2> SUFFICES ASSUME Inv, [Next]_vars PROVE Inv'
    OBVIOUS
  <2>1. CASE Tick
    <3>1. MaxTime \in Nat /\ now \in Nat /\ now < MaxTime /\ now' = now + 1
      BY <2>1, PingAssumption DEF Tick, Inv, Types
    <3>2. now' \in Times /\ now' \in Nat
      BY <3>1 DEF Times
    <3> QED BY <2>1, <3>2 DEF Tick, Inv, Types, Clean, Once, Limit, netVars, progVars, histVars
  <2>2. CASE UNCHANGED vars
    BY <2>2 DEF vars, Inv, Types, Clean, Once, Limit, netVars, progVars, histVars
  <2> QED BY <2>1, <2>2, NetworkKeeps, ProgramKeeps DEF Next
<1> QED BY <1>1, <1>2, PTL DEF Spec

\* FullMeansAll of Ping.tla: when the statistics say that all packets were received,
\* and nothing came twice or under our id from others, all were (ping.cpp:107-119).
THEOREM Full == Spec => []FullMeansAll
<1>1. Inv => FullMeansAll
  <2> SUFFICES ASSUME Inv, Clean, nreceived = MAX_NO_PACKETS PROVE answered = Seqs
    BY DEF FullMeansAll, Clean
  <2>1. MAX_NO_PACKETS \in Nat /\ answered \subseteq Seqs /\ MAX_NO_PACKETS <= Cardinality(answered)
    BY PingAssumption DEF PingAssumption, Inv, Types, Once, Limit, Seqs
  <2>2. IsFiniteSet(Seqs) /\ Cardinality(Seqs) = MAX_NO_PACKETS
    BY <2>1, FS_Interval DEF Seqs
  <2>3. IsFiniteSet(answered) /\ Cardinality(answered) <= Cardinality(Seqs)
        /\ Cardinality(answered) \in Nat
    BY <2>1, <2>2, FS_Subset, FS_CardinalityType
  <2>4. Cardinality(answered) = Cardinality(Seqs)
    BY <2>1, <2>2, <2>3
  <2> QED BY <2>1, <2>2, <2>4, FS_Subset
<1> QED BY <1>1, Invariance, PTL
-----------------------------------------------------------------------------
(* Checksums.                                                              *)

\* The steps of the sum that a receiver makes: each takes away a multiple of WORD - 1.
LEMMA OnesSumIs ==
  ASSUME NEW a \in Words, NEW b \in Words
  PROVE  /\ OnesSum(a, b) \in Words
         /\ \E m \in 0 .. 1 : OnesSum(a, b) = a + b - m * (WORD - 1)
         /\ a > 0 => OnesSum(a, b) > 0
<1>1. WORD \in Nat /\ WORD > 8
  BY PingAssumption DEF ICMP_ECHO
<1>2. CASE a + b < WORD
  BY <1>1, <1>2 DEF OnesSum, Words
<1>3. CASE ~(a + b < WORD)
  <2>1. OnesSum(a, b) = a + b - 1 * (WORD - 1) /\ 1 \in 0 .. 1
    BY <1>1, <1>3 DEF OnesSum, Words
  <2>2. OnesSum(a, b) \in Words /\ OnesSum(a, b) > 0
    BY <1>1, <1>3 DEF OnesSum, Words
  <2> QED BY <2>1, <2>2
<1> QED BY <1>2, <1>3

\* Only 0 and WORD - 1 are multiples of WORD - 1 that fit into a word.
LEMMA MultipleInWord ==
  ASSUME NEW x \in Words, NEW j \in Int, x = j * (WORD - 1)
  PROVE  x = 0 \/ x = WORD - 1
<1>1. WORD - 1 \in Nat /\ WORD - 1 > 0 /\ x \in 0 .. WORD - 1
  BY PingAssumption DEF ICMP_ECHO, Words
<1>2. CASE j <= 0
  <2>1. j * (WORD - 1) <= 0
    BY <1>1, <1>2
  <2> QED BY <1>1, <2>1
<1>3. CASE j >= 2
  <2>1. j * (WORD - 1) >= 2 * (WORD - 1)
    BY <1>1, <1>3
  <2> QED BY <1>1, <2>1
<1>4. CASE j = 1
  BY <1>1, <1>4
<1> QED BY <1>2, <1>3, <1>4

\* cal_chksum() is, but for multiples of WORD - 1, what is missing from the sum.
LEMMA ChecksumIs ==
  ASSUME NEW w, \A k \in 1 .. 6 : w[k] \in Words
  PROVE  /\ cal_chksum(w) \in Words
         /\ \E k \in Int :
              cal_chksum(w) = k * (WORD - 1) - (w[1] + w[2] + w[3] + w[4] + w[5] + w[6])
<1> DEFINE sum    == w[1] + w[2] + w[3] + w[4] + w[5] + w[6]
           high   == sum \div WORD
           part   == sum % WORD
           folded == high + part
           again  == folded \div WORD
           low    == (folded + again) % WORD
<1>1. WORD \in Nat /\ WORD > 8
  BY PingAssumption DEF ICMP_ECHO
<1>2. /\ w[1] \in 0 .. WORD - 1 /\ w[2] \in 0 .. WORD - 1 /\ w[3] \in 0 .. WORD - 1
      /\ w[4] \in 0 .. WORD - 1 /\ w[5] \in 0 .. WORD - 1 /\ w[6] \in 0 .. WORD - 1
  BY DEF Words
<1>3. sum \in Nat /\ sum <= 6 * WORD - 6
  BY <1>1, <1>2
<1>4. cal_chksum(w) = WORD - 1 - low
  BY DEF cal_chksum
<1> HIDE DEF sum
<1>5. high \in Int /\ part \in 0 .. WORD - 1 /\ sum = high * WORD + part
  BY <1>1, <1>3
<1> HIDE DEF high, part
<1>6. folded = sum - high * (WORD - 1) /\ folded \in Int
  BY <1>1, <1>3, <1>5
<1>7. high \in 0 .. 5
  <2>1. CASE high >= 6
    <3>1. high * WORD >= 6 * WORD
      BY <1>1, <2>1, <1>5
    <3> QED BY <1>1, <1>3, <1>5, <3>1
  <2>2. CASE high <= -1
    <3>1. high * WORD <= -WORD
      BY <1>1, <1>5, <2>2
    <3> QED BY <1>1, <1>3, <1>5, <3>1
  <2> QED BY <1>5, <2>1, <2>2
<1>8. folded \in Nat /\ folded <= WORD + 4
  BY <1>1, <1>5, <1>7
<1> HIDE DEF folded
<1>9. \E m \in 0 .. 1 : low = folded - m * (WORD - 1) /\ low \in 0 .. WORD - 1
  <2>1. CASE folded < WORD
    <3>1. again = 0
      BY <1>1, <1>8, <2>1
    <3>2. low = folded
      BY <1>1, <1>8, <2>1, <3>1
    <3>3. low = folded - 0 * (WORD - 1) /\ 0 \in 0 .. 1
      BY <1>1, <1>8, <3>2
    <3> QED BY <1>1, <1>8, <2>1, <3>2, <3>3
  <2>2. CASE ~(folded < WORD)
    <3>1. again = 1
      BY <1>1, <1>8, <2>2
    <3>2. folded + 1 = 1 * WORD + (folded + 1 - WORD) /\ folded + 1 - WORD \in 0 .. WORD - 1
      BY <1>1, <1>8, <2>2
    <3>3. low = folded + 1 - WORD
      BY <1>1, <1>8, <2>2, <3>1, <3>2
    <3>4. low = folded - 1 * (WORD - 1) /\ 1 \in 0 .. 1
      BY <1>1, <1>8, <3>3
    <3> QED BY <3>2, <3>3, <3>4
  <2> QED BY <2>1, <2>2
<1> HIDE DEF low
<1>10. PICK m \in 0 .. 1 : low = folded - m * (WORD - 1) /\ low \in 0 .. WORD - 1
  BY <1>9
<1>11. cal_chksum(w) = (1 + high + m) * (WORD - 1) - sum /\ 1 + high + m \in Int
  <2>1. m * (WORD - 1) \in Int /\ high * (WORD - 1) \in Int
    BY <1>1, <1>7
  <2>2. (1 + high + m) * (WORD - 1) = (WORD - 1) + high * (WORD - 1) + m * (WORD - 1)
    BY <1>1, <1>7
  <2> QED BY <1>1, <1>3, <1>4, <1>6, <1>7, <1>10, <2>1, <2>2
<1>12. cal_chksum(w) \in Words
  BY <1>1, <1>4, <1>10 DEF Words
<1> QED BY <1>11, <1>12 DEF sum

\* A packet with its checksum passes the check of the receiver, if it is not all zero.
LEMMA Verifies ==
  ASSUME NEW w \in [1 .. 6 -> Words], w[1] > 0
  PROVE  /\ WithChecksum(w) \in [1 .. 6 -> Words]
         /\ SumOfReceiver(WithChecksum(w)) = WORD - 1
<1> DEFINE z == [w EXCEPT ![2] = 0]
           c == cal_chksum(z)
           p == WithChecksum(w)
           V == WORD - 1
<1>1. WORD \in Nat /\ WORD > 8 /\ V \in Nat /\ V > 0
  BY PingAssumption DEF ICMP_ECHO
<1>2. /\ z[1] = w[1] /\ z[2] = 0 /\ z[3] = w[3] /\ z[4] = w[4] /\ z[5] = w[5] /\ z[6] = w[6]
      /\ \A k \in 1 .. 6 : z[k] \in Words
  <2>1. 0 \in Words
    BY <1>1 DEF Words
  <2> QED BY <2>1
<1>3. /\ p = [w EXCEPT ![2] = c]
      /\ p[1] = w[1] /\ p[2] = c /\ p[3] = w[3] /\ p[4] = w[4] /\ p[5] = w[5] /\ p[6] = w[6]
  BY DEF WithChecksum
<1> HIDE DEF z, p
<1>4. PICK k \in Int : c = k * V - (z[1] + z[2] + z[3] + z[4] + z[5] + z[6])
  BY <1>2, ChecksumIs
<1>5. c \in Words
  BY <1>2, ChecksumIs
<1> HIDE DEF c, V
<1>6. /\ p[1] \in Words /\ p[2] \in Words /\ p[3] \in Words /\ p[4] \in Words
      /\ p[5] \in Words /\ p[6] \in Words
  BY <1>3, <1>5
<1>7. \A x \in Words : x \in Int
  BY <1>1 DEF Words
<1> DEFINE a == OnesSum(p[1], p[2])
           b == OnesSum(a, p[3])
           d == OnesSum(b, p[4])
           e == OnesSum(d, p[5])
           f == OnesSum(e, p[6])
<1>8. SumOfReceiver(p) = f
  BY DEF SumOfReceiver
<1>9. PICK m1 \in 0 .. 1 : a \in Words /\ a = p[1] + p[2] - m1 * V /\ a > 0
  BY <1>3, <1>6, OnesSumIs DEF V
<1> HIDE DEF a
<1>10. PICK m2 \in 0 .. 1 : b \in Words /\ b = a + p[3] - m2 * V /\ b > 0
  BY <1>6, <1>9, OnesSumIs DEF V
<1> HIDE DEF b
<1>11. PICK m3 \in 0 .. 1 : d \in Words /\ d = b + p[4] - m3 * V /\ d > 0
  BY <1>6, <1>10, OnesSumIs DEF V
<1> HIDE DEF d
<1>12. PICK m4 \in 0 .. 1 : e \in Words /\ e = d + p[5] - m4 * V /\ e > 0
  BY <1>6, <1>11, OnesSumIs DEF V
<1> HIDE DEF e
<1>13. PICK m5 \in 0 .. 1 : f \in Words /\ f = e + p[6] - m5 * V /\ f > 0
  BY <1>6, <1>12, OnesSumIs DEF V
<1> HIDE DEF f
<1>14. f = (k - m1 - m2 - m3 - m4 - m5) * V
  <2>1. f = p[1] + p[2] + p[3] + p[4] + p[5] + p[6]
              - m1 * V - m2 * V - m3 * V - m4 * V - m5 * V
    <3>1. /\ m1 * V \in Int /\ m2 * V \in Int /\ m3 * V \in Int /\ m4 * V \in Int
          /\ m5 * V \in Int
      BY <1>1
    <3>2. /\ p[1] \in Int /\ p[2] \in Int /\ p[3] \in Int /\ p[4] \in Int
          /\ p[5] \in Int /\ p[6] \in Int
      BY <1>6, <1>7
    <3>3. b = p[1] + p[2] + p[3] - m1 * V - m2 * V
      BY <1>9, <1>10, <3>1, <3>2
    <3>4. d = p[1] + p[2] + p[3] + p[4] - m1 * V - m2 * V - m3 * V
      BY <1>11, <3>1, <3>2, <3>3
    <3>5. e = p[1] + p[2] + p[3] + p[4] + p[5] - m1 * V - m2 * V - m3 * V - m4 * V
      BY <1>12, <3>1, <3>2, <3>4
    <3> QED BY <1>13, <3>1, <3>2, <3>5
  <2>2. f = k * V - m1 * V - m2 * V - m3 * V - m4 * V - m5 * V
    BY <1>1, <1>2, <1>3, <1>4, <1>6, <1>7, <2>1
  <2>3. (k - m1 - m2 - m3 - m4 - m5) * V
          = k * V - m1 * V - m2 * V - m3 * V - m4 * V - m5 * V
    BY <1>1, <1>4
  <2> QED BY <2>2, <2>3
<1>15. f = V
  <2>1. k - m1 - m2 - m3 - m4 - m5 \in Int
    BY <1>4
  <2>2. f = 0 \/ f = WORD - 1
    BY <1>13, <1>14, <2>1, MultipleInWord DEF V
  <2> QED BY <1>7, <1>13, <2>2 DEF V
<1>16. p \in [1 .. 6 -> Words]
  BY <1>3, <1>5
<1> QED BY <1>8, <1>15, <1>16 DEF p, V
-----------------------------------------------------------------------------
(* Types, valid packets and times.                                         *)

\* What is known of the counters where they are used.
Counted == (pc = "sendto" => nsend >= 1) /\ (pc = "recv" => nreceived < nsend)

Shape == TypeOK /\ Counted /\ PacketVerifies

\* Replies of ours tell the second in which their request was packed, which is not
\* packed again, and came since; recvpacket holds nothing behind them.
Tells(p) ==
  /\ p.seq \in 1 .. nsend
  /\ p.sec = start + sentAt[p.seq] \div SEC
  /\ p.came <= now

Told ==
  odd \intersect {"long", "alias"} = {} =>
    /\ rest = 0
    /\ \A k \in DOMAIN inbox :
         /\ inbox[k].what # "long"
         /\ To(pid, inbox[k]) => Tells(inbox[k])

PingInv == Shape /\ Told /\ RttRoughly

\* The constants, and the variables as numbers.
LEMMA Numbers ==
  ASSUME TypeOK
  PROVE  /\ MAX_NO_PACKETS \in Nat \ {0} /\ MAX_WAIT_TIME \in Nat \ {0} /\ SEC \in Nat \ {0}
         /\ WORD \in Nat /\ WORD > 8 /\ WORD > MAX_NO_PACKETS /\ MaxTime \in Nat
         /\ nsend \in 0 .. MAX_NO_PACKETS /\ nreceived \in 0 .. nsend /\ pid \in Nat
         /\ now \in 0 .. MaxTime /\ start \in Nat /\ rest \in 0 .. SEC - 1
         /\ \A q \in Seqs : sentAt[q] \in 0 .. MaxTime /\ sentAt[q] \div SEC \in Nat
<1>1. /\ MAX_NO_PACKETS \in Nat \ {0} /\ MAX_WAIT_TIME \in Nat \ {0} /\ SEC \in Nat \ {0}
      /\ WORD \in Nat /\ WORD > 8 /\ WORD > MAX_NO_PACKETS /\ MaxTime \in Nat
      /\ pid \in Nat /\ start \in Nat
  BY PingAssumption DEF TypeOK, ICMP_ECHO
<1>2. /\ nsend \in 0 .. MAX_NO_PACKETS /\ nreceived \in 0 .. nsend
      /\ now \in 0 .. MaxTime /\ rest \in 0 .. SEC - 1
  BY DEF TypeOK, Times
<1>3. ASSUME NEW q \in Seqs PROVE sentAt[q] \in 0 .. MaxTime /\ sentAt[q] \div SEC \in Nat
  <2>1. sentAt[q] \in 0 .. MaxTime
    BY DEF TypeOK, Times
  <2>2. sentAt[q] \in Nat
    BY <1>1, <2>1
  <2> QED BY <1>1, <2>1, <2>2
<1> QED BY <1>1, <1>2, <1>3

\* Steps of the program that neither pack, nor send, nor receive.
LEMMA ShapeQuiet ==
  ASSUME Shape,
         Start \/ SendtoFails \/ SleepEnds \/ EndSend \/ Loop \/ RecvfromFails
           \/ Statistics \/ Alarm \/ Tick \/ UNCHANGED vars
  PROVE  Shape'
<1>0. pc' = "sendto" => pc = "sendto"
  BY DEF Start, SendtoFails, SleepEnds, EndSend, Loop, RecvfromFails, Statistics, Alarm, Tick,
         vars, Down
<1>1. CASE Start
  BY <1>0, <1>1 DEF Start, Shape, TypeOK, Counted, PacketVerifies, netVars, histVars, Down
<1>2. CASE SendtoFails \/ SleepEnds \/ EndSend \/ Statistics \/ Alarm
  BY <1>0, <1>2 DEF SendtoFails, SleepEnds, EndSend, Statistics, Alarm, Shape, TypeOK, Counted,
                   PacketVerifies, progVars, netVars, histVars, Down
<1>3. CASE Loop
  <2>1. alarmAt' \in Nat
    <3>1. now \in Nat /\ MAX_WAIT_TIME \in Nat /\ SEC \in Nat /\ alarmAt \in Nat
      BY Numbers DEF Shape, TypeOK
    <3>2. now + MAX_WAIT_TIME * SEC \in Nat
      BY <3>1
    <3> QED BY <1>3, <3>1, <3>2 DEF Loop, Rearm
  <2>2. pc' \in {"recv", "stats"} /\ (pc' = "recv" => nreceived' < nsend')
    BY <1>3 DEF Loop, Missing
  <2>3. UNCHANGED <<target, pid, nsend, nreceived, sendpacket, rest, wake, start, now,
                    netVars, errors, histVars>>
    BY <1>3 DEF Loop
  <2> QED BY <2>1, <2>2, <2>3 DEF Shape, TypeOK, Counted, PacketVerifies, netVars, histVars
<1>4. CASE RecvfromFails
  <2>1. errors' \in 0 .. MaxErrors
    BY <1>4, PingAssumption DEF RecvfromFails, Shape, TypeOK
  <2> QED BY <1>4, <2>1 DEF RecvfromFails, Shape, TypeOK, Counted, PacketVerifies,
                           progVars, netVars, histVars
<1>5. CASE Tick
  <2>1. now' \in Times
    BY <1>5, Numbers DEF Tick, Shape, Times
  <2> QED BY <1>5, <2>1 DEF Tick, Shape, TypeOK, Counted, PacketVerifies,
                           progVars, netVars, histVars
<1>6. CASE UNCHANGED vars
  BY <1>6 DEF vars, Shape, TypeOK, Counted, PacketVerifies, progVars, netVars, histVars
<1> QED BY <1>1, <1>2, <1>3, <1>4, <1>5, <1>6

\* pack() makes a packet that its receiver accepts.
LEMMA ShapePack ==
  ASSUME Shape, Pack
  PROVE  Shape'
<1> DEFINE sec == start + now \div SEC
           w   == <<ICMP_ECHO, 0, pid % WORD, nsend', sec % WORD, (sec \div WORD) % WORD>>
<1>1. /\ nsend' = nsend + 1 /\ nsend < MAX_NO_PACKETS /\ pc = "send" /\ pc' = "sendto"
      /\ sendpacket' = WithChecksum(w) /\ sentAt' = [sentAt EXCEPT ![nsend'] = now]
      /\ UNCHANGED <<target, pid, nreceived, rest, alarmAt, wake, start, now, netVars, errors,
                     answered, shown>>
  BY DEF Pack
<1>2. /\ MAX_NO_PACKETS \in Nat /\ SEC \in Nat \ {0} /\ WORD \in Nat /\ WORD > 8
      /\ WORD > MAX_NO_PACKETS /\ nsend \in 0 .. MAX_NO_PACKETS /\ nreceived \in 0 .. nsend
      /\ pid \in Nat /\ now \in Nat /\ start \in Nat
  BY Numbers DEF Shape
<1>3. nsend' \in 1 .. MAX_NO_PACKETS /\ nsend' >= 1 /\ nreceived \in 0 .. nsend'
  BY <1>1, <1>2
<1>4. w \in [1 .. 6 -> Words] /\ w[1] > 0
  <2>1. sec \in Nat
    <3>1. now \div SEC \in Nat
      BY <1>2
    <3> QED BY <1>2, <3>1
  <2> HIDE DEF sec
  <2>2. sec \div WORD \in Int
    BY <1>2, <2>1
  <2>3. /\ ICMP_ECHO \in Words /\ 0 \in Words /\ pid % WORD \in Words
        /\ nsend' \in Words /\ sec % WORD \in Words /\ (sec \div WORD) % WORD \in Words
    BY <1>2, <1>3, <2>1, <2>2 DEF Words, ICMP_ECHO
  <2> QED BY <2>3 DEF ICMP_ECHO
<1> HIDE DEF w
<1>5. /\ sendpacket' \in [1 .. 6 -> Words] /\ SumOfReceiver(sendpacket') = WORD - 1
  BY <1>1, <1>4, Verifies
<1>6. sentAt' \in [Seqs -> Times]
  BY <1>1 DEF Shape, TypeOK
<1>7. flight' \subseteq 1 .. nsend'
  <2>1. flight \subseteq 1 .. nsend /\ flight' = flight
    BY <1>1 DEF Shape, TypeOK, netVars
  <2> QED BY <1>1, <1>2, <2>1
<1>8. /\ target \in {"host", "unknown"} /\ pid \in Pids /\ rest \in 0 .. SEC - 1
      /\ alarmAt \in Nat /\ wake \in Nat /\ start \in Starts /\ now \in Times
      /\ inbox \in Seq(Packet) /\ Len(inbox) <= QUEUE
      /\ strays \in 0 .. MaxStray /\ errors \in 0 .. MaxErrors
      /\ answered \subseteq Seqs /\ shown.excess \in Int /\ shown.waited \in Int
      /\ odd \subseteq {"dup", "alias", "long"}
  BY DEF Shape, TypeOK
<1>9. TypeOK'
  <2>1. nsend' \in 0 .. MAX_NO_PACKETS
    BY <1>2, <1>3
  <2> QED BY <1>1, <1>3, <1>5, <1>6, <1>7, <1>8, <2>1 DEF TypeOK, netVars
<1> QED BY <1>1, <1>3, <1>5, <1>9 DEF Shape, Counted, PacketVerifies

LEMMA ShapeSendto ==
  ASSUME Shape, Sendto
  PROVE  Shape'
<1>1. /\ flight' = flight \union {nsend} /\ wake' = now + SEC /\ pc = "sendto" /\ pc' = "sleep"
      /\ UNCHANGED <<target, pid, nsend, nreceived, sendpacket, rest, alarmAt, start, now,
                     inbox, strays, errors, odd, histVars>>
  BY DEF Sendto
<1>2. wake' \in Nat
  <2>1. now \in Nat /\ SEC \in Nat
    BY Numbers DEF Shape
  <2> QED BY <1>1, <2>1
<1>3. flight' \subseteq 1 .. nsend
  <2>1. nsend \in 1 .. nsend /\ flight \subseteq 1 .. nsend
    BY <1>1, Numbers DEF Shape, Counted, TypeOK
  <2> QED BY <1>1, <2>1
<1> QED BY <1>1, <1>2, <1>3 DEF Shape, TypeOK, Counted, PacketVerifies, histVars

\* What a reply of ours is shown with.
LEMMA ShapeRecvfrom ==
  ASSUME Shape, Recvfrom
  PROVE  Shape'
<1> DEFINE p == Head(inbox)
<1>1. /\ inbox' = Tail(inbox) /\ inbox' \in Seq(Packet) /\ p \in Packet
      /\ Len(inbox') <= QUEUE
  <2>1. inbox \in Seq(Packet) /\ inbox # <<>> /\ Len(inbox) <= QUEUE /\ QUEUE \in Nat
    BY PingAssumption DEF Recvfrom, Shape, TypeOK
  <2>2. Len(Tail(inbox)) = Len(inbox) - 1 /\ Len(inbox) \in Nat
    BY <2>1
  <2> QED BY <2>1, <2>2, HeadTail DEF Recvfrom
<1>2. /\ UNCHANGED <<target, pid, nsend, sendpacket, alarmAt, wake, start, now, flight,
                     strays, errors, odd, sentAt>>
      /\ pc = "recv"
      /\ rest' \in IF p.what = "long" THEN 0 .. SEC - 1 ELSE {rest}
  BY DEF Recvfrom
<1>3. \/ /\ shown' = [excess |-> Rtt(RecvTime, p.sec, rest') - (p.came - sentAt[p.seq]),
                      waited |-> now - p.came]
         /\ answered' = answered \union {p.seq}
         /\ \/ pc' = "loop" /\ nreceived' \in {nreceived, nreceived + 1}
            \/ pc' = "killed" /\ UNCHANGED nreceived
      \/ pc' = "loop" /\ UNCHANGED <<shown, answered, nreceived>>
  BY DEF Recvfrom
<1> HIDE DEF p
<1>4. nsend \in Nat /\ nreceived \in 0 .. nsend /\ nreceived < nsend /\ SEC \in Nat \ {0}
  BY <1>2, Numbers DEF Shape, Counted
<1>5. rest' \in 0 .. SEC - 1
  BY <1>2, Numbers DEF Shape
<1>6. nreceived' \in 0 .. nsend /\ pc' \in {"loop", "killed"}
  BY <1>3, <1>4
<1>7. p.seq \in Seqs /\ p.sec \in Nat /\ p.came \in Int
  BY <1>1, PingAssumption DEF Packet, Times
<1>8. answered' \subseteq Seqs
  BY <1>3, <1>7 DEF Shape, TypeOK
<1>9. shown'.excess \in Int /\ shown'.waited \in Int
  <2>1. now \in Nat /\ start \in Nat /\ sentAt[p.seq] \in Int /\ now \div SEC \in Int
        /\ now % SEC \in Int
    BY <1>7, Numbers DEF Shape
  <2>2. rest' \in Int
    BY <1>4, <1>5
  <2>3. Rtt(RecvTime, p.sec, rest') \in Int
    <3>1. PICK h \in Int, l \in Int : h = now \div SEC /\ l = now % SEC
      BY <2>1
    <3> DEFINE u == l - rest'
               t == start + h - p.sec
    <3>2. Rtt(RecvTime, p.sec, rest')
            = IF u < 0 THEN (t - 1) * SEC + (u + SEC) ELSE t * SEC + u
      BY <3>1 DEF Rtt, RecvTime
    <3>3. u \in Int /\ t \in Int
      BY <1>7, <2>1, <2>2
    <3> HIDE DEF u, t
    <3>4. (t - 1) * SEC + (u + SEC) \in Int /\ t * SEC + u \in Int
      BY <1>4, <3>3
    <3> QED BY <3>2, <3>4
  <2>4. p.came - sentAt[p.seq] \in Int /\ now - p.came \in Int
    BY <1>7, <2>1
  <2>5. ASSUME NEW x \in Int, NEW y \in Int PROVE x - y \in Int
    BY <2>5
  <2> QED BY <1>3, <2>3, <2>4, <2>5 DEF Shape, TypeOK
<1> QED BY <1>1, <1>2, <1>5, <1>6, <1>8, <1>9 DEF Shape, TypeOK, Counted, PacketVerifies, Down

\* What the network does to the socket keeps it within its limits.
LEMMA ArrivedTypes ==
  ASSUME TypeOK, NEW p \in Packet, Arrive(p)
  PROVE  /\ inbox' \in Seq(Packet) /\ Len(inbox') <= QUEUE
         /\ \A k \in DOMAIN inbox' : (k \in DOMAIN inbox /\ inbox'[k] = inbox[k]) \/ inbox'[k] = p
<1>1. inbox \in Seq(Packet) /\ Len(inbox) <= QUEUE /\ QUEUE \in Nat
  BY PingAssumption DEF TypeOK
<1>2. /\ Append(inbox, p) \in Seq(Packet) /\ Len(Append(inbox, p)) = Len(inbox) + 1
      /\ Len(inbox) \in Nat
      /\ \A k \in DOMAIN Append(inbox, p) :
           (k \in DOMAIN inbox /\ Append(inbox, p)[k] = inbox[k]) \/ Append(inbox, p)[k] = p
  BY <1>1
<1>3. CASE Len(inbox) < QUEUE
  <2>1. inbox' = Append(inbox, p)
    BY <1>3 DEF Arrive
  <2> QED BY <1>1, <1>2, <1>3, <2>1
<1>4. CASE ~(Len(inbox) < QUEUE)
  BY <1>1, <1>4 DEF Arrive
<1> QED BY <1>3, <1>4

LEMMA TypesOfTypeOK == TypeOK /\ Counted => Types
<1> SUFFICES ASSUME TypeOK, Counted PROVE Types
  OBVIOUS
<1>1. /\ nsend \in 0 .. MAX_NO_PACKETS /\ nreceived \in Nat /\ pid \in Nat /\ start \in Nat
      /\ now \in Nat /\ now \in Times
  BY Numbers DEF TypeOK
<1>2. flight \subseteq Seqs
  BY <1>1, PingAssumption DEF TypeOK, Seqs
<1>3. sentAt \in [Seqs -> Nat]
  BY PingAssumption DEF TypeOK, Times
<1> QED BY <1>1, <1>2, <1>3 DEF Types, TypeOK, Counted

\* A packet arrives, or none does.
LEMMA ShapeArrive ==
  ASSUME Shape, UNCHANGED <<pc, progVars, start, now, errors, histVars>>,
         \/ UNCHANGED inbox
         \/ \E p \in Packet : Arrive(p),
         flight' \subseteq flight, strays' \in 0 .. MaxStray,
         odd' \subseteq odd \union {"dup", "alias", "long"}
  PROVE  Shape'
<1>1. inbox' \in Seq(Packet) /\ Len(inbox') <= QUEUE
  BY ArrivedTypes DEF Shape, TypeOK
<1>2. flight' \subseteq 1 .. nsend /\ odd' \subseteq {"dup", "alias", "long"}
  BY DEF Shape, TypeOK
<1> QED BY <1>1, <1>2 DEF Shape, TypeOK, Counted, PacketVerifies, progVars, histVars

\* The packet that arrives is no reply of ours, or tells the second of its request.
LEMMA ToldArrive ==
  ASSUME TypeOK, Told, RttRoughly, NEW p \in Packet,
         UNCHANGED <<pc, progVars, start, now, errors, histVars>>, odd \subseteq odd',
         UNCHANGED inbox \/ Arrive(p),
         odd' \intersect {"long", "alias"} = {} =>
           /\ p.what # "long"
           /\ To(pid, p) => Tells(p)
  PROVE  Told' /\ RttRoughly'
<1>1. CASE odd' \intersect {"long", "alias"} # {}
  BY <1>1 DEF Told, RttRoughly
<1>2. CASE odd' \intersect {"long", "alias"} = {}
  <2>1. odd \intersect {"long", "alias"} = {}
    BY <1>2
  <2>2. UNCHANGED <<pid, nsend, rest, start, sentAt, shown>>
    BY DEF progVars, histVars
  <2>3. ASSUME NEW k \in DOMAIN inbox'
        PROVE  inbox'[k].what # "long" /\ (To(pid, inbox'[k]) => Tells(inbox'[k]))
    <3>1. (k \in DOMAIN inbox /\ inbox'[k] = inbox[k]) \/ inbox'[k] = p
      BY ArrivedTypes
    <3>2. CASE inbox'[k] = p
      BY <1>2, <3>2
    <3>3. CASE k \in DOMAIN inbox /\ inbox'[k] = inbox[k]
      BY <2>1, <3>3 DEF Told
    <3> QED BY <3>1, <3>2, <3>3
  <2> QED BY <2>1, <2>2, <2>3 DEF Told, Tells, RttRoughly
<1> QED BY <1>1, <1>2

LEMMA PingNetwork ==
  ASSUME PingInv, Network
  PROVE  PingInv'
<1>0. /\ Shape /\ TypeOK /\ Types /\ Told /\ RttRoughly
      /\ UNCHANGED <<pc, progVars, start, now, errors, histVars>>
      /\ strays \in 0 .. MaxStray /\ MaxStray \in Nat
  BY TypesOfTypeOK, PingAssumption DEF PingInv, Shape, Network, TypeOK
<1>1. ASSUME NEW q \in flight, Answer(q) \/ Lose(q) \/ Duplicate(q) \/ ComesBack(q)
      PROVE  PingInv'
  <2> DEFINE back == Back(q)
  <2>1. q \in 1 .. nsend /\ q \in Seqs
    BY <1>0 DEF TypeOK, Types
  <2>2. /\ Reply(q) \in Packet /\ Reply(q).seq = q /\ back \in Packet /\ ~To(pid, back)
    BY <1>0, <2>1, ReplyIs
  <2>3. /\ Reply(q).what # "long" /\ Reply(q).sec = start + sentAt[q] \div SEC
        /\ back.what # "long" /\ Reply(q).came = now
    BY DEF Reply, Back
  <2> HIDE DEF back
  <2>4. CASE Answer(q) \/ Duplicate(q)
    <3>1. /\ Arrive(Reply(q)) /\ flight' \subseteq flight /\ strays' \in 0 .. MaxStray
          /\ odd \subseteq odd' /\ odd' \subseteq odd \union {"dup", "alias", "long"}
      BY <1>0, <2>4 DEF Answer, Duplicate
    <3>2. Shape'
      BY <1>0, <2>2, <3>1, ShapeArrive
    <3>3. Tells(Reply(q))
      BY <1>0, <2>1, <2>2, <2>3 DEF Tells, Types
    <3>4. Told' /\ RttRoughly'
      BY <1>0, <2>2, <2>3, <3>1, <3>3, ToldArrive
    <3> QED BY <3>2, <3>4 DEF PingInv
  <2>5. CASE ComesBack(q)
    <3>1. /\ Arrive(back) /\ flight' \subseteq flight /\ strays' \in 0 .. MaxStray
          /\ odd \subseteq odd' /\ odd' \subseteq odd \union {"dup", "alias", "long"}
      BY <1>0, <2>5 DEF ComesBack, back, Back
    <3>2. Shape'
      BY <1>0, <2>2, <3>1, ShapeArrive
    <3>3. Told' /\ RttRoughly'
      BY <1>0, <2>2, <2>3, <3>1, ToldArrive
    <3> QED BY <3>2, <3>3 DEF PingInv
  <2>6. CASE Lose(q)
    <3>1. /\ UNCHANGED inbox /\ flight' \subseteq flight /\ strays' \in 0 .. MaxStray
          /\ odd \subseteq odd' /\ odd' \subseteq odd \union {"dup", "alias", "long"}
      BY <1>0, <2>6 DEF Lose
    <3>2. Shape'
      BY <1>0, <3>1, ShapeArrive
    <3>3. Told' /\ RttRoughly'
      BY <1>0, <2>2, <2>3, <3>1, ToldArrive
    <3> QED BY <3>2, <3>3 DEF PingInv
  <2> QED BY <1>1, <2>4, <2>5, <2>6
<1>2. CASE Stray
  <2>1. PICK what \in {"reply", "long", "short"}, id \in OtherIds :
          /\ Arrive([what |-> what, id |-> id, seq |-> 1, sec |-> start, came |-> 0])
          /\ odd' = odd \union (IF what = "long" THEN {"long"} ELSE {})
                        \union (IF id = pid THEN {"alias"} ELSE {})
    BY <1>2 DEF Stray
  <2> DEFINE p == [what |-> what, id |-> id, seq |-> 1, sec |-> start, came |-> 0]
  <2>2. p \in Packet
    BY <1>0, PingAssumption DEF PingAssumption, Packet, Seqs, Words, Types, Times
  <2>3. odd' \intersect {"long", "alias"} = {} => p.what # "long" /\ ~To(pid, p)
    BY <2>1 DEF To
  <2> HIDE DEF p
  <2>4. /\ Arrive(p) /\ flight' \subseteq flight /\ strays' \in 0 .. MaxStray
        /\ odd \subseteq odd' /\ odd' \subseteq odd \union {"dup", "alias", "long"}
    BY <1>0, <1>2, <2>1 DEF Stray, p
  <2>5. Shape'
    BY <1>0, <2>2, <2>4, ShapeArrive
  <2>6. Told' /\ RttRoughly'
    BY <1>0, <2>2, <2>3, <2>4, ToldArrive
  <2> QED BY <2>5, <2>6 DEF PingInv
<1> QED BY <1>1, <1>2 DEF Network

\* The round trip time of a reply that tells the second of its request.
LEMMA RttOf ==
  ASSUME TypeOK, NEW q \in Seqs
  PROVE  LET rtt == Rtt(now, start + sentAt[q] \div SEC, 0)
         IN  rtt \in Int /\ now - sentAt[q] <= rtt /\ rtt < now - sentAt[q] + SEC
<1>1. /\ SEC \in Nat \ {0} /\ now \in Nat /\ sentAt[q] \in Nat /\ start \in Nat
      /\ MaxTime \in Nat
  BY Numbers
<1>2. PICK h \in Int, l \in 0 .. SEC - 1 : h = now \div SEC /\ l = now % SEC /\ now = h * SEC + l
  BY <1>1
<1>3. PICK a \in Int, b \in 0 .. SEC - 1 : a = sentAt[q] \div SEC /\ sentAt[q] = a * SEC + b
  <2>1. /\ sentAt[q] \div SEC \in Int /\ sentAt[q] % SEC \in 0 .. SEC - 1
        /\ sentAt[q] = (sentAt[q] \div SEC) * SEC + (sentAt[q] % SEC)
    BY <1>1
  <2> QED BY <2>1
<1>4. Rtt(now, start + sentAt[q] \div SEC, 0) = (h - a) * SEC + l
  <2>1. /\ l - 0 = l /\ ~(l < 0) /\ start + h - (start + a) = h - a
    BY <1>1, <1>2, <1>3
  <2> QED BY <1>2, <1>3, <2>1 DEF Rtt
<1>5. now - sentAt[q] = (h - a) * SEC + l - b /\ (h - a) * SEC + l \in Int
  <2>1. (h - a) * SEC = h * SEC - a * SEC /\ h * SEC \in Int /\ a * SEC \in Int
    <3>1. h \in Int /\ a \in Int /\ SEC \in Int
      BY <1>1, <1>2, <1>3
    <3> QED BY <3>1
  <2>2. now = h * SEC + l /\ sentAt[q] = a * SEC + b
    BY <1>2, <1>3
  <2> QED BY <1>2, <1>3, <2>1, <2>2
<1> QED BY <1>1, <1>3, <1>4, <1>5

\* Steps that leave the socket and the last reply alone, and pack nothing new into what
\* was packed before.
LEMMA ToldSame ==
  ASSUME TypeOK, Told, RttRoughly, UNCHANGED <<inbox, rest, odd, pid, start, shown>>,
         nsend' \in Nat, nsend <= nsend', now' \in Nat, now <= now',
         \A q \in 1 .. nsend : sentAt'[q] = sentAt[q]
  PROVE  Told' /\ RttRoughly'
<1>1. CASE odd' \intersect {"long", "alias"} # {}
  BY <1>1 DEF Told, RttRoughly
<1>2. CASE odd' \intersect {"long", "alias"} = {}
  <2>1. odd \intersect {"long", "alias"} = {}
    BY <1>2
  <2>2. ASSUME NEW k \in DOMAIN inbox, To(pid, inbox[k]) PROVE Tells(inbox[k])'
    <3>1. Tells(inbox[k]) /\ inbox[k] \in Packet
      BY <2>1, <2>2 DEF Told, TypeOK
    <3>2. inbox[k].came \in Nat /\ now \in Nat /\ nsend \in Nat
      BY <3>1, Numbers DEF Packet, Times
    <3>3. inbox[k].seq \in 1 .. nsend' /\ inbox[k].came <= now'
      BY <3>1, <3>2 DEF Tells
    <3> QED BY <3>1, <3>3 DEF Tells
  <2> QED BY <2>1, <2>2 DEF Told, RttRoughly
<1> QED BY <1>1, <1>2

LEMMA ToldRecvfrom ==
  ASSUME TypeOK, Counted, Told, RttRoughly, Recvfrom
  PROVE  Told' /\ RttRoughly'
<1> DEFINE p == Head(inbox)
<1>1. /\ p = inbox[1] /\ 1 \in DOMAIN inbox
      /\ \A j \in DOMAIN inbox' : j + 1 \in DOMAIN inbox /\ inbox'[j] = inbox[j + 1]
  BY HeadTail DEF Recvfrom, TypeOK
<1>2. /\ UNCHANGED <<nsend, pid, start, now, odd, sentAt>>
      /\ rest' \in IF p.what = "long" THEN 0 .. SEC - 1 ELSE {rest}
      /\ \/ /\ IsOurs(p)
            /\ shown' = [excess |-> Rtt(RecvTime, p.sec, rest') - (p.came - sentAt[p.seq]),
                               waited |-> now - p.came]
         \/ UNCHANGED shown
  BY DEF Recvfrom
<1> HIDE DEF p
<1>3. SUFFICES ASSUME odd \intersect {"long", "alias"} = {} PROVE Told' /\ RttRoughly'
  BY <1>2 DEF Told, RttRoughly
<1>4. rest' = 0 /\ p.what # "long"
  BY <1>1, <1>2, <1>3 DEF Told
<1>5. Told'
  <2>1. ASSUME NEW j \in DOMAIN inbox'
        PROVE  inbox'[j].what # "long" /\ (To(pid, inbox'[j]) => Tells(inbox'[j]))
    <3>1. inbox'[j] = inbox[j + 1] /\ j + 1 \in DOMAIN inbox
      BY <1>1
    <3> QED BY <1>3, <3>1 DEF Told
  <2> QED BY <1>2, <1>4, <2>1 DEF Told, Tells
<1>6. RttRoughly'
  <2>1. CASE UNCHANGED shown
    BY <1>2, <2>1 DEF RttRoughly
  <2>2. CASE /\ IsOurs(p)
             /\ shown' = [excess |-> Rtt(RecvTime, p.sec, rest') - (p.came - sentAt[p.seq]),
                              waited |-> now - p.came]
    <3>1. To(pid, p)
      BY <2>2 DEF IsOurs, To
    <3>2. Tells(p) /\ p \in Packet
      BY <1>1, <1>3, <3>1 DEF Told, TypeOK
    <3>3. p.seq \in Seqs /\ p.came \in Nat /\ p.came <= now
      BY <3>2, Numbers DEF Tells, Packet, Times
    <3> DEFINE rtt == Rtt(now, start + sentAt[p.seq] \div SEC, 0)
               at  == sentAt[p.seq]
    <3>4. /\ shown'.excess = rtt - (p.came - at)
          /\ shown'.waited = now - p.came
      BY <1>4, <2>2, <3>2 DEF RecvTime, Tells
    <3>5. now - at <= rtt /\ rtt < now - at + SEC
      BY <3>3, RttOf
    <3>6. now \in Nat /\ at \in Nat /\ SEC \in Nat /\ rtt \in Int
      BY <3>3, Numbers, RttOf
    <3> HIDE DEF TypeOK, rtt, at
    <3>7. /\ 0 <= shown'.waited /\ shown'.waited <= shown'.excess
          /\ shown'.excess < shown'.waited + SEC
      BY <3>3, <3>4, <3>5, <3>6
    <3> QED BY <3>7 DEF RttRoughly
  <2> QED BY <1>2, <2>1, <2>2
<1> QED BY <1>5, <1>6

LEMMA PingProgram ==
  ASSUME PingInv, Program \/ Tick \/ UNCHANGED vars
  PROVE  PingInv'
<1>0. TypeOK /\ Counted /\ Shape /\ Told /\ RttRoughly /\ nsend \in Nat /\ now \in Nat
  BY Numbers DEF PingInv, Shape
<1>1. CASE Start \/ SendtoFails \/ SleepEnds \/ EndSend \/ Loop \/ RecvfromFails
             \/ Statistics \/ Alarm \/ Tick \/ UNCHANGED vars
  <2>1. UNCHANGED <<inbox, rest, odd, pid, start, shown, nsend, sentAt>>
    BY <1>1 DEF Start, SendtoFails, SleepEnds, EndSend, Loop, RecvfromFails, Statistics, Alarm,
               Tick, vars, progVars, netVars, histVars
  <2>2. nsend' \in Nat /\ nsend <= nsend'
    BY <1>0, <2>1
  <2>3. now' \in {now, now + 1}
    BY <1>1 DEF Start, SendtoFails, SleepEnds, EndSend, Loop, RecvfromFails, Statistics, Alarm,
               Tick, vars
  <2>4. now' \in Nat /\ now <= now'
    BY <1>0, <2>3
  <2> QED BY <1>0, <1>1, <2>1, <2>2, <2>4, ShapeQuiet, ToldSame DEF PingInv
<1>2. CASE Pack
  <2>1. /\ UNCHANGED <<inbox, rest, odd, pid, start, shown, now>> /\ nsend' = nsend + 1
        /\ sentAt' = [sentAt EXCEPT ![nsend'] = now]
    BY <1>2 DEF Pack, netVars
  <2>2. nsend' \in Nat /\ nsend <= nsend' /\ \A q \in 1 .. nsend : q # nsend'
    BY <1>0, <2>1
  <2>3. \A q \in 1 .. nsend : sentAt'[q] = sentAt[q]
    <3>1. \A q \in 1 .. nsend : q \in Seqs
      BY <1>0, Numbers DEF Seqs
    <3> QED BY <1>0, <2>1, <2>2, <3>1 DEF TypeOK
  <2> QED BY <1>0, <1>2, <2>1, <2>2, <2>3, ShapePack, ToldSame DEF PingInv
<1>3. CASE Sendto
  <2>1. UNCHANGED <<inbox, rest, odd, pid, start, shown, nsend, sentAt, now>>
    BY <1>3 DEF Sendto, histVars
  <2>2. nsend' \in Nat /\ nsend <= nsend'
    BY <1>0, <2>1
  <2> QED BY <1>0, <1>3, <2>1, <2>2, ShapeSendto, ToldSame DEF PingInv
<1>4. CASE Recvfrom
  BY <1>0, <1>4, ShapeRecvfrom, ToldRecvfrom DEF PingInv
<1> QED BY <1>1, <1>2, <1>3, <1>4 DEF Program

THEOREM PingInvariance == Spec => []PingInv
<1>1. Init => PingInv
  <2> SUFFICES ASSUME Init PROVE PingInv
    OBVIOUS
  <2>1. /\ SEC \in Nat \ {0} /\ WORD \in Nat /\ WORD > 8 /\ QUEUE \in Nat /\ MaxTime \in Nat
        /\ MaxStray \in Nat /\ MaxErrors \in Nat /\ MAX_NO_PACKETS \in Nat
    BY PingAssumption DEF ICMP_ECHO
  <2>2. TypeOK
    <3>1. 0 \in Words /\ 0 \in Times
      BY <2>1 DEF Words, Times
    <3>2. <<>> \in Seq(Packet) /\ Len(<<>>) = 0
      OBVIOUS
    <3> QED BY <2>1, <3>1, <3>2 DEF Init, TypeOK, Down
  <2>3. Counted /\ PacketVerifies
    BY DEF Init, Counted, PacketVerifies
  <2>4. Told /\ RttRoughly
    BY <2>1 DEF Init, Told, RttRoughly
  <2> QED BY <2>2, <2>3, <2>4 DEF PingInv, Shape
<1>2. PingInv /\ [Next]_vars => PingInv'
  BY PingNetwork, PingProgram DEF Next
<1> QED BY <1>1, <1>2, PTL DEF Spec

\* Every variable of ping stays in its range; in particular no more replies are counted
\* than requests were packed, although unpack() counts whatever carries our id.
THEOREM PingTypes == Spec => []TypeOK
<1>1. PingInv => TypeOK
  BY DEF PingInv, Shape
<1> QED BY <1>1, PingInvariance, PTL

\* Every request that pack() makes passes the check of its receiver, for words of any
\* size: the two carries that cal_chksum() adds are always enough (ping.cpp:44-64).
THEOREM Valid == Spec => []PacketVerifies
<1>1. PingInv => PacketVerifies
  BY DEF PingInv, Shape
<1> QED BY <1>1, PingInvariance, PTL

\* Unless a longer packet or one under our id from others has come, the time printed is
\* the round trip, what the reply waited in the socket while the program sent and slept,
\* and less than a second more.
THEOREM Roughly == Spec => []RttRoughly
<1>1. PingInv => RttRoughly
  BY DEF PingInv
<1> QED BY <1>1, PingInvariance, PTL
-----------------------------------------------------------------------------
(* Multicast: an address is printed with what was sent from there.         *)

Hosts == Clients \union Servers

\* A client that is still there has rounds left.
RoundsLeft == \A c \in Clients : cl[c] # "ended" => times[c] < ROUNDS

\* What waits in a socket was converted once and sent by the one it names; nobody sends
\* what a variable holds that was never written.
Carried ==
  /\ \A a \in Hosts : Junk \notin sentBy[a]
  /\ \A c \in Clients : \A k \in DOMAIN socket[c] :
       \E v \in sentBy[socket[c][k].from] : socket[c][k].value = Convert(v)

CastInv == CastTypeOK /\ RoundsLeft /\ Carried /\ SenderSent

Datagram == [from : Hosts, value : Int]

\* Dividing q times b and a rest.
LEMMA Divided ==
  ASSUME NEW b \in Nat \ {0}, NEW q \in Int, NEW r \in 0 .. b - 1, NEW x, x = q * b + r
  PROVE  x \div b = q /\ x % b = r
OBVIOUS

\* Swapping the bytes twice leaves the lower half.
LEMMA SwapTwice ==
  ASSUME NEW t \in Int
  PROVE  Swap(t) \in Nat /\ Swap(Swap(t)) = t % UINT
<1>1. BYTE \in Nat \ {0} /\ UINT = BYTE * BYTE /\ UINT \in Nat \ {0}
  <2>1. BYTE \in Nat \ {0}
    BY MulticastAssumption
  <2>2. BYTE * BYTE \in Nat /\ BYTE * BYTE > 0
    BY <2>1
  <2> QED BY <2>1, <2>2 DEF UINT
<1>2. PICK low \in 0 .. UINT - 1 : low = t % UINT
  BY <1>1
<1>3. low \in Nat /\ low < BYTE * BYTE
  BY <1>1
<1>4. /\ low \div BYTE \in Int /\ low % BYTE \in 0 .. BYTE - 1
      /\ low = (low \div BYTE) * BYTE + (low % BYTE)
  BY <1>1, <1>3
<1>5. PICK h \in Int, l \in 0 .. BYTE - 1 :
        h = low \div BYTE /\ l = low % BYTE /\ low = h * BYTE + l
  BY <1>4
<1>6. h \in 0 .. BYTE - 1
  <2>1. CASE h >= BYTE
    <3>1. h * BYTE >= BYTE * BYTE
      BY <1>1, <2>1
    <3>2. h * BYTE \in Int /\ low >= h * BYTE
      BY <1>1, <1>5
    <3> QED BY <1>1, <1>3, <3>1, <3>2
  <2>2. CASE h <= -1
    <3>1. h * BYTE <= -BYTE /\ h * BYTE \in Int
      BY <1>1, <2>2
    <3> QED BY <1>1, <1>3, <1>5, <3>1
  <2> QED BY <1>1, <2>1, <2>2
<1> DEFINE x == l * BYTE + h
<1>7. Swap(t) = x
  BY <1>2, <1>5 DEF Swap
<1>8. x \in 0 .. UINT - 1
  <2>1. l * BYTE <= (BYTE - 1) * BYTE /\ l * BYTE >= 0 /\ l * BYTE \in Int
    BY <1>1
  <2>2. (BYTE - 1) * BYTE = BYTE * BYTE - BYTE
    BY <1>1
  <2> QED BY <1>1, <1>6, <2>1, <2>2
<1>9. x \div BYTE = l /\ x % BYTE = h
  <2>1. x = l * BYTE + h /\ l \in Int
    BY <1>1
  <2> HIDE DEF x
  <2> QED BY <1>1, <1>6, <2>1, Divided
<1> HIDE DEF x
<1>10. x % UINT = x
  BY <1>1, <1>8
<1>11. Swap(x) = h * BYTE + l
  BY <1>9, <1>10 DEF Swap
<1> QED BY <1>1, <1>2, <1>5, <1>7, <1>8, <1>11

\* What is printed of a value that was sent.
LEMMA ConvertTwice ==
  ASSUME NEW v \in Int, v # Junk
  PROVE  /\ Convert(v) \in Int
         /\ Convert(Convert(v)) = IF kind = "time" THEN v % UINT ELSE v
<1>1. Swap(v) \in Nat /\ Swap(Swap(v)) = v % UINT
  BY SwapTwice
<1>2. Swap(v) # Junk
  BY <1>1 DEF Junk
<1> QED BY <1>1, <1>2 DEF Convert

LEMMA ConvertType ==
  ASSUME NEW t \in Int
  PROVE  Convert(t) \in Int
<1>1. Swap(t) \in Int
  BY SwapTwice
<1> QED BY <1>1 DEF Convert

\* A datagram goes out to some sockets.
LEMMA Delivered ==
  ASSUME CastTypeOK, Carried, NEW a \in Hosts, NEW value \in Int, value # Junk,
         Deliver(a, value), UNCHANGED <<kind, from, rtime>>
  PROVE  /\ socket' \in [Clients -> Seq(Datagram)]
         /\ sentBy' \in [Hosts -> SUBSET Int]
         /\ Carried'
         /\ SenderSent => SenderSent'
<1> DEFINE d == [from |-> a, value |-> Convert(value)]
<1>1. PICK got \in SUBSET {c \in Listening : Len(socket[c]) < SOCKET} :
        socket' = [c \in Clients |-> IF c \in got THEN Append(socket[c], d) ELSE socket[c]]
  BY DEF Deliver
<1>2. /\ socket \in [Clients -> Seq(Datagram)] /\ sentBy \in [Hosts -> SUBSET Int]
      /\ from \in [Clients -> Hosts \union {Nobody}]
  BY DEF CastTypeOK, Hosts, Datagram
<1>3. sentBy' = [sentBy EXCEPT ![a] = @ \union {value}]
  BY DEF Deliver
<1>4. d \in Datagram
  BY ConvertType DEF Datagram
<1> HIDE DEF d
<1>5. \A c \in Clients : Append(socket[c], d) \in Seq(Datagram)
  BY <1>2, <1>4, Appended
<1>6. socket' \in [Clients -> Seq(Datagram)]
  BY <1>1, <1>2, <1>5
<1>7. sentBy' \in [Hosts -> SUBSET Int]
  BY <1>2, <1>3
<1>8. \A b \in Hosts : sentBy[b] \subseteq sentBy'[b] /\ Junk \notin sentBy'[b]
  BY <1>2, <1>3 DEF Carried
<1>9. ASSUME NEW c \in Clients, NEW k \in DOMAIN socket'[c]
      PROVE  \E v \in sentBy'[socket'[c][k].from] : socket'[c][k].value = Convert(v)
  <2>1. (k \in DOMAIN socket[c] /\ socket'[c][k] = socket[c][k]) \/ socket'[c][k] = d
    <3>1. socket'[c] = IF c \in got THEN Append(socket[c], d) ELSE socket[c]
      BY <1>1
    <3>2. socket[c] \in Seq(Datagram)
      BY <1>2
    <3> QED BY <3>1, <3>2
  <2>2. CASE k \in DOMAIN socket[c] /\ socket'[c][k] = socket[c][k]
    <3>1. PICK v \in sentBy[socket[c][k].from] : socket[c][k].value = Convert(v)
      BY <2>2 DEF Carried
    <3>2. socket[c][k].from \in Hosts
      <4>1. socket[c] \in Seq(Datagram)
        BY <1>2
      <4>2. socket[c][k] \in Datagram
        BY <2>2, <4>1
      <4> QED BY <4>2 DEF Datagram
    <3> QED BY <1>8, <2>2, <3>1, <3>2
  <2>3. CASE socket'[c][k] = d
    <3>1. d.from = a /\ d.value = Convert(value) /\ value \in sentBy'[a]
      BY <1>2, <1>3 DEF d
    <3> QED BY <2>3, <3>1
  <2> QED BY <2>1, <2>2, <2>3
<1>10. Carried'
  <2>1. \A v : Convert(v)' = Convert(v)
    BY DEF Convert
  <2> QED BY <1>8, <1>9, <2>1 DEF Carried, Convert
<1>11. SenderSent => SenderSent'
  <2> SUFFICES ASSUME SenderSent, NEW c \in Clients, from[c] # Nobody
               PROVE  \E v \in sentBy'[from[c]] :
                        rtime[c] = IF kind = "time" THEN v % UINT ELSE v
    BY DEF SenderSent
  <2>1. PICK v \in sentBy[from[c]] : rtime[c] = IF kind = "time" THEN v % UINT ELSE v
    BY DEF SenderSent
  <2>2. from[c] \in Hosts
    BY <1>2
  <2> QED BY <1>8, <2>1, <2>2
<1> QED BY <1>6, <1>7, <1>10, <1>11

\* Nothing is sent, received or printed.
LEMMA CarriedSame ==
  ASSUME Carried, SenderSent, UNCHANGED <<kind, from, rtime, socket, sentBy>>
  PROVE  Carried' /\ SenderSent'
BY DEF Carried, SenderSent, Convert

\* The servers.
LEMMA ServersKeep ==
  ASSUME CastInv, NEW s \in Servers, ServerSendto(s) \/ ServerEnds(s)
  PROVE  CastInv'
<1>1. CastTypeOK /\ RoundsLeft /\ Carried /\ SenderSent
  BY DEF CastInv
<1>2. CASE ServerSendto(s)
  <2>1. PICK value \in Int : value # Junk /\ Deliver(s, value)
    <3>1. clock \in Nat
      BY <1>1 DEF CastTypeOK
    <3>2. IF kind = "text" THEN Text \in Int /\ Text # Junk ELSE clock \in Int /\ clock # Junk
      BY <3>1 DEF Text, Junk
    <3> QED BY <1>2, <3>2 DEF ServerSendto
  <2>2. UNCHANGED <<kind, clock, srv, cl, times, from, rtime, failures>> /\ s \in Hosts
    BY <1>2 DEF ServerSendto, Hosts
  <2>3. /\ socket' \in [Clients -> Seq(Datagram)] /\ sentBy' \in [Hosts -> SUBSET Int]
        /\ Carried' /\ SenderSent'
    BY <1>1, <2>1, <2>2, Delivered
  <2>4. CastTypeOK' /\ RoundsLeft'
    BY <1>1, <2>2, <2>3 DEF CastTypeOK, RoundsLeft, Hosts, Datagram
  <2> QED BY <2>3, <2>4 DEF CastInv
<1>3. CASE ServerEnds(s)
  <2>1. Carried' /\ SenderSent'
    BY <1>1, <1>3, CarriedSame DEF ServerEnds
  <2>2. CastTypeOK' /\ RoundsLeft'
    BY <1>1, <1>3 DEF ServerEnds, CastTypeOK, RoundsLeft
  <2> QED BY <2>1, <2>2 DEF CastInv
<1> QED BY <1>2, <1>3

\* bind(), joining, and what fails before the first round.
LEMMA SetupKeeps ==
  ASSUME CastInv, NEW c \in Clients, Bind(c) \/ Join(c) \/ SetupFails(c)
  PROVE  CastInv'
<1>1. /\ cl[c] \in {"bind", "join"}
      /\ \E p \in {"sendto", "recvfrom", "join", "ended"} : cl' = [cl EXCEPT ![c] = p]
      /\ UNCHANGED <<kind, clock, srv, times, from, rtime, socket, failures, sentBy>>
  BY DEF Bind, Join, SetupFails, RoundStart
<1>2. CastTypeOK' /\ RoundsLeft'
  BY <1>1 DEF CastInv, CastTypeOK, RoundsLeft
<1>3. Carried' /\ SenderSent'
  BY <1>1 DEF CastInv, Carried, SenderSent, Convert
<1> QED BY <1>2, <1>3 DEF CastInv

LEMMA SendToGroupKeeps ==
  ASSUME CastInv, NEW c \in Clients, SendToGroup(c)
  PROVE  CastInv'
<1>1. CastTypeOK /\ RoundsLeft /\ Carried /\ SenderSent
  BY DEF CastInv
<1>2. /\ cl[c] = "sendto" /\ Deliver(c, -1) /\ cl' = [cl EXCEPT ![c] = "recvfrom"]
      /\ UNCHANGED <<kind, clock, srv, times, from, rtime, failures>> /\ c \in Hosts
  BY DEF SendToGroup, Hosts
<1>3. -1 \in Int /\ -1 # Junk
  BY DEF Junk
<1>4. /\ socket' \in [Clients -> Seq(Datagram)] /\ sentBy' \in [Hosts -> SUBSET Int]
      /\ Carried' /\ SenderSent'
  BY <1>1, <1>2, <1>3, Delivered
<1>5. CastTypeOK' /\ RoundsLeft'
  BY <1>1, <1>2, <1>4 DEF CastTypeOK, RoundsLeft, Hosts, Datagram
<1> QED BY <1>4, <1>5 DEF CastInv

\* A round ends, or the second datagram of a round is waited for.
LEMMA RoundsKeep ==
  ASSUME CastTypeOK, RoundsLeft, NEW c \in Clients, Receiving(c), EndRound(c)
  PROVE  /\ times' \in [Clients -> 0 .. ROUNDS]
         /\ cl' \in [Clients -> {"bind", "join", "sendto", "recvfrom", "again", "ended"}]
         /\ RoundsLeft'
<1>1. /\ times \in [Clients -> 0 .. ROUNDS] /\ ROUNDS \in Nat
      /\ cl \in [Clients -> {"bind", "join", "sendto", "recvfrom", "again", "ended"}]
      /\ cl[c] # "ended" /\ times[c] < ROUNDS
  BY MulticastAssumption DEF CastTypeOK, Receiving, RoundsLeft
<1>2. CASE kind = "ask" /\ cl[c] = "recvfrom"
  BY <1>1, <1>2 DEF EndRound, RoundsLeft
<1>3. CASE ~(kind = "ask" /\ cl[c] = "recvfrom")
  <2>1. /\ times' = [times EXCEPT ![c] = @ + 1]
        /\ cl' = [cl EXCEPT ![c] = IF times'[c] = ROUNDS THEN "ended" ELSE RoundStart]
    BY <1>3 DEF EndRound
  <2>2. times'[c] = times[c] + 1 /\ times'[c] \in 0 .. ROUNDS
    BY <1>1, <2>1
  <2>3. RoundStart \in {"sendto", "recvfrom"}
    BY DEF RoundStart
  <2>4. times' \in [Clients -> 0 .. ROUNDS]
    BY <1>1, <2>1, <2>2
  <2>5. cl' \in [Clients -> {"bind", "join", "sendto", "recvfrom", "again", "ended"}]
    BY <1>1, <2>1, <2>3
  <2>6. RoundsLeft'
    BY <1>1, <2>1, <2>2, <2>4 DEF RoundsLeft
  <2> QED BY <2>4, <2>5, <2>6
<1> QED BY <1>2, <1>3

LEMMA ReceiveKeeps ==
  ASSUME CastInv, NEW c \in Clients, Receive(c)
  PROVE  CastInv'
<1> DEFINE d == Head(socket[c])
<1>1. CastTypeOK /\ RoundsLeft /\ Carried /\ SenderSent
  BY DEF CastInv
<1>2. /\ Receiving(c) /\ socket[c] # <<>> /\ EndRound(c)
      /\ socket' = [socket EXCEPT ![c] = Tail(@)]
      /\ from' = [from EXCEPT ![c] = d.from]
      /\ rtime' = [rtime EXCEPT ![c] = Convert(d.value)]
      /\ UNCHANGED <<kind, clock, srv, failures, sentBy>>
  BY DEF Receive
<1>3. /\ socket \in [Clients -> Seq(Datagram)] /\ sentBy \in [Hosts -> SUBSET Int]
      /\ from \in [Clients -> Hosts \union {Nobody}] /\ rtime \in [Clients -> Int]
  BY <1>1 DEF CastTypeOK, Hosts, Datagram
<1>4. /\ d \in Datagram /\ d = socket[c][1] /\ 1 \in DOMAIN socket[c]
      /\ Tail(socket[c]) \in Seq(Datagram)
      /\ \A j \in DOMAIN Tail(socket[c]) :
           j + 1 \in DOMAIN socket[c] /\ Tail(socket[c])[j] = socket[c][j + 1]
  BY <1>2, <1>3, HeadTail
<1> HIDE DEF d
<1>5. d.from \in Hosts /\ d.value \in Int
  BY <1>4 DEF Datagram
<1>6. PICK v \in sentBy[d.from] : d.value = Convert(v)
  BY <1>1, <1>4 DEF Carried
<1>7. v \in Int /\ v # Junk
  BY <1>1, <1>3, <1>5 DEF Carried
<1>8. Convert(d.value) \in Int /\ Convert(d.value) = IF kind = "time" THEN v % UINT ELSE v
  BY <1>5, <1>6, <1>7, ConvertType, ConvertTwice
<1>9. /\ socket' \in [Clients -> Seq(Datagram)] /\ rtime' \in [Clients -> Int]
      /\ from' \in [Clients -> Hosts \union {Nobody}]
  BY <1>2, <1>3, <1>4, <1>5, <1>8
<1>10. SenderSent'
  <2> SUFFICES ASSUME NEW b \in Clients, from'[b] # Nobody
               PROVE  \E w \in sentBy[from'[b]] :
                        rtime'[b] = IF kind = "time" THEN w % UINT ELSE w
    BY <1>2 DEF SenderSent
  <2>1. CASE b = c
    BY <1>2, <1>3, <1>6, <1>8, <2>1
  <2>2. CASE b # c
    BY <1>1, <1>2, <1>3, <2>2 DEF SenderSent
  <2> QED BY <2>1, <2>2
<1>11. Carried'
  <2>1. ASSUME NEW b \in Clients, NEW k \in DOMAIN socket'[b]
        PROVE  \E w \in sentBy[socket'[b][k].from] : socket'[b][k].value = Convert(w)
    <3>1. CASE b = c
      <4>1. socket'[b] = Tail(socket[c])
        BY <1>2, <1>3, <3>1
      <4>2. k + 1 \in DOMAIN socket[c] /\ socket'[b][k] = socket[c][k + 1]
        BY <1>4, <4>1
      <4> QED BY <1>1, <4>2 DEF Carried
    <3>2. CASE b # c
      BY <1>1, <1>2, <1>3, <3>2 DEF Carried
    <3> QED BY <3>1, <3>2
  <2>2. \A a \in Hosts : Junk \notin sentBy'[a]
    BY <1>1, <1>2 DEF Carried
  <2>3. ASSUME NEW b \in Clients, NEW k \in DOMAIN socket'[b]
        PROVE  \E w \in sentBy'[socket'[b][k].from] : socket'[b][k].value = Convert(w)'
    BY <1>2, <2>1 DEF Convert
  <2> QED BY <2>2, <2>3 DEF Carried
<1>12. CastTypeOK' /\ RoundsLeft'
  BY <1>1, <1>2, <1>9, RoundsKeep DEF CastTypeOK, Hosts, Datagram
<1> QED BY <1>10, <1>11, <1>12 DEF CastInv

LEMMA ReceiveFailsKeeps ==
  ASSUME CastInv, NEW c \in Clients, ReceiveFails(c)
  PROVE  CastInv'
<1>1. CastTypeOK /\ RoundsLeft /\ Carried /\ SenderSent
  BY DEF CastInv
<1>2. /\ Receiving(c) /\ EndRound(c) /\ failures' = failures + 1
      /\ from' = [from EXCEPT ![c] = FromBefore(c)]
      /\ rtime' = [rtime EXCEPT ![c] = Convert(@)]
      /\ UNCHANGED <<kind, clock, srv, socket, sentBy>>
  BY DEF ReceiveFails
<1>3. /\ from \in [Clients -> Hosts \union {Nobody}] /\ rtime \in [Clients -> Int]
      /\ failures \in Nat
  BY <1>1 DEF CastTypeOK, Hosts
<1>4. /\ rtime' \in [Clients -> Int] /\ from' \in [Clients -> Hosts \union {Nobody}]
      /\ failures' \in Nat
  <2>1. Convert(rtime[c]) \in Int
    BY <1>3, ConvertType
  <2>2. FromBefore(c) \in Hosts \union {Nobody}
    BY <1>3 DEF FromBefore
  <2> QED BY <1>2, <1>3, <2>1, <2>2
<1>5. SenderSent'
  <2> SUFFICES ASSUME NEW b \in Clients, from'[b] # Nobody
               PROVE  \E w \in sentBy[from'[b]] :
                        rtime'[b] = IF kind = "time" THEN w % UINT ELSE w
    BY <1>2 DEF SenderSent
  <2>1. CASE b = c
    <3>1. kind # "time"
      BY <1>2, <1>3, <2>1 DEF FromBefore
    <3>2. from'[b] = from[b] /\ rtime'[b] = rtime[b]
      BY <1>2, <1>3, <2>1, <3>1 DEF FromBefore, Convert
    <3> QED BY <1>1, <3>2 DEF SenderSent
  <2>2. CASE b # c
    BY <1>1, <1>2, <1>3, <2>2 DEF SenderSent
  <2> QED BY <2>1, <2>2
<1>6. Carried'
  BY <1>1, <1>2 DEF Carried, Convert
<1>7. CastTypeOK' /\ RoundsLeft'
  BY <1>1, <1>2, <1>4, RoundsKeep DEF CastTypeOK, Hosts
<1> QED BY <1>5, <1>6, <1>7 DEF CastInv

THEOREM CastInvariance == CastSpec => []CastInv
<1>1. CastInit => CastInv
  <2> SUFFICES ASSUME CastInit PROVE CastInv
    OBVIOUS
  <2>1. /\ ROUNDS \in Nat \ {0} /\ FirstSecond \in Nat /\ Junk \in Int
    BY MulticastAssumption DEF Junk
  <2>2. <<>> \in Seq(Datagram) /\ DOMAIN <<>> = {}
    OBVIOUS
  <2>3. CastTypeOK
    BY <2>1, <2>2 DEF CastInit, CastTypeOK, Hosts, Datagram
  <2>4. RoundsLeft /\ Carried /\ SenderSent
    BY <2>1, <2>2 DEF CastInit, RoundsLeft, Carried, SenderSent, Hosts
  <2> QED BY <2>3, <2>4 DEF CastInv
<1>2. CastInv /\ [CastNext]_mvars => CastInv'
  <2> SUFFICES ASSUME CastInv, [CastNext]_mvars PROVE CastInv'
    OBVIOUS
  <2>1. CASE ClockTicks
    <3>1. clock' \in Nat
      BY <2>1 DEF ClockTicks, CastInv, CastTypeOK
    <3>2. Carried' /\ SenderSent'
      BY <2>1, CarriedSame DEF ClockTicks, CastInv
    <3>3. CastTypeOK' /\ RoundsLeft'
      BY <2>1, <3>1 DEF ClockTicks, CastInv, CastTypeOK, RoundsLeft
    <3> QED BY <3>2, <3>3 DEF CastInv
  <2>2. CASE UNCHANGED mvars
    <3>1. Carried' /\ SenderSent'
      BY <2>2, CarriedSame DEF mvars, CastInv
    <3>2. CastTypeOK' /\ RoundsLeft'
      BY <2>2 DEF mvars, CastInv, CastTypeOK, RoundsLeft
    <3> QED BY <3>1, <3>2 DEF CastInv
  <2> QED BY <2>1, <2>2, ServersKeep, SetupKeeps, SendToGroupKeeps, ReceiveKeeps,
             ReceiveFailsKeeps DEF CastNext, Client
<1> QED BY <1>1, <1>2, PTL DEF CastSpec

\* Every variable of the programs that send to a group stays in its range.
THEOREM CastTypes == CastSpec => []CastTypeOK
<1>1. CastInv => CastTypeOK
  BY DEF CastInv
<1> QED BY <1>1, CastInvariance, PTL

\* An address is printed with what was sent from there, for any number of members and
\* any size of a word: failed receives repeat the line, and the time that is converted
\* twice is then shown without an address.
THEOREM Senders == CastSpec => []SenderSent
<1>1. CastInv => SenderSent
  BY DEF CastInv
<1> QED BY <1>1, CastInvariance, PTL
=============================================================================
