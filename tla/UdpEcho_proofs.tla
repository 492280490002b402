---------------------------- MODULE UdpEcho_proofs ----------------------------
(***************************************************************************)
(* For any number of clients, any lengths of lines and everything the      *)
(* network may do: nobody is shown a part of another's line although the   *)
(* server has one buffer that it never clears, and answers that carry no   *)
(* number are shown for the right line as long as none is duplicated.      *)
(***************************************************************************)
EXTENDS UdpEcho, TLAPS

\* Whoever gets back what was sent, and no more.
Matched(c) == server = "line" \/ kind[c] = "struct"

RequestWhole(d) ==
  /\ Len(d.parts) >= 1
  /\ kind[d.from] = "struct" => Len(d.parts) = STRUCT
  /\ \A i \in 1 .. Len(d.parts) : d.parts[i] = Part(d.from, d.no, i)

AnswerWhole(d) ==
  /\ Len(d.parts) >= TextOf(d.from)
  /\ d.parts[TextOf(d.from)] = Expected(d.from, d.no)
  /\ Matched(d.from) =>
       \A i \in 1 .. Len(d.parts) : d.parts[i].part = i /\ d.parts[i].of = d.from

\* What has come is at the beginning of buf; of a struct, all of it.
BufferWhole ==
  /\ n >= TextOf(cliaddr.of)
  /\ server = "struct" /\ kind[cliaddr.of] = "struct" => n = STRUCT
  /\ \A i \in 1 .. n : buf[i] = Part(cliaddr.of, cliaddr.no, i)

Contents ==
  /\ \A d \in net : d.dir = "request" => RequestWhole(d)
  /\ \A d \in net : d.dir = "answer" => AnswerWhole(d)
  /\ sv = "sendto" => BufferWhole

\* A client without duplicates has one datagram under way at most, that of its last
\* line, and none while it reads the next.
Serving(c) == sv = "sendto" /\ cliaddr.of = c

OneUnderWay(c) ==
  /\ \A d \in net : d.from = c => cl[c] # "fgets" /\ d.no = lines[c] /\ ~Serving(c)
  /\ \A d, e \in net : d.from = c /\ e.from = c => d = e
  /\ Serving(c) => cl[c] # "fgets" /\ cliaddr.no = lines[c]

Flow == \A c \in Clients : copies[c] = 0 => OneUnderWay(c)

IInv == EchoTypeOK /\ Contents /\ OwnParts /\ Flow /\ AnswerMatches
-----------------------------------------------------------------------------
LEMMA Sizes ==
  ASSUME EchoTypeOK
  PROVE  /\ ServerSize \in Nat \ {0} /\ MAXLINE \in Nat \ {0} /\ STRUCT \in Nat \ {0}
         /\ ServerSize >= TEXT /\ STRUCT >= TEXT
         /\ \A c \in Clients : ClientSize(c) \in Nat \ {0} /\ ClientSize(c) >= TextOf(c)
         /\ \A c \in Clients : TextOf(c) \in {1, TEXT}
BY UdpAssumption DEF EchoTypeOK, ServerSize, ClientSize, Kinds, TextOf, TEXT

LEMMA LeastIs ==
  ASSUME NEW i \in Nat, NEW j \in Nat
  PROVE  Least(i, j) \in Nat /\ Least(i, j) <= i /\ Least(i, j) <= j
         /\ (\A m \in Nat : i >= m /\ j >= m => Least(i, j) >= m) /\ (i = j => Least(i, j) = i)
BY DEF Least

\* The smaller of two lengths that both hold t parts holds them too.
LEMMA LeastHolds ==
  ASSUME NEW i \in Nat, NEW j \in Nat \ {0}, NEW t \in Nat \ {0}, i >= t, j >= t
  PROVE  /\ Least(i, j) \in 1 .. j /\ Least(i, j) <= i
         /\ i = j => Least(i, j) = j
         /\ Least(i, j) >= t
BY DEF Least

\* The beginning of a sequence.
LEMMA Prefix ==
  ASSUME NEW S, NEW s \in Seq(S), NEW k \in 0 .. Len(s)
  PROVE  /\ SubSeq(s, 1, k) \in Seq(S) /\ Len(SubSeq(s, 1, k)) = k
         /\ \A i \in 1 .. k : SubSeq(s, 1, k)[i] = s[i]
OBVIOUS

LEMMA FunctionIsSequence ==
  ASSUME NEW S, NEW m \in Nat, NEW f \in [1 .. m -> S]
  PROVE  f \in Seq(S) /\ Len(f) = m
OBVIOUS

\* A part that a client sent is not one of the others, and stays its own in capitals.
LEMMA UpperPart ==
  ASSUME NEW c \in Clients, NEW k \in Nat, NEW i \in Nat \ {0}
  PROVE  /\ Part(c, k, i) \in Parts
         /\ Upper(Part(c, k, i)) = [Part(c, k, i) EXCEPT !.upper = TRUE]
         /\ Upper(Part(c, k, i)).part = i /\ Upper(Part(c, k, i)).of = c
         /\ Part(c, k, i).part = i /\ Part(c, k, i).of = c
<1>1. Part(c, k, i).part = i /\ Zero.part = 0 /\ Junk.part = -1
  BY DEF Part, Zero, Junk
<1>2. Part(c, k, i) \notin {Zero, Junk}
  BY <1>1
<1>3. Upper(Part(c, k, i)) = [Part(c, k, i) EXCEPT !.upper = TRUE]
  BY <1>2 DEF Upper
<1>. QED  BY <1>3 DEF Part, Parts

LEMMA UpperType == ASSUME NEW p \in Parts PROVE Upper(p) \in Parts
<1>1. CASE p \in {Zero, Junk}
  BY <1>1 DEF Upper
<1>2. CASE p \notin {Zero, Junk}
  BY <1>2 DEF Upper, Parts
<1>. QED  BY <1>1, <1>2
-----------------------------------------------------------------------------
(* Types.                                                                  *)

LEMMA DatagramType ==
  ASSUME NEW c \in Clients, NEW k \in Nat, NEW copy \in Nat,
         NEW dir \in {"request", "answer"}, NEW parts \in Seq(Parts)
  PROVE  /\ Datagram(c, k, copy, dir, parts) \in Datagrams
         /\ Datagram(c, k, copy, dir, parts).from = c /\ Datagram(c, k, copy, dir, parts).no = k
         /\ Datagram(c, k, copy, dir, parts).copy = copy
         /\ Datagram(c, k, copy, dir, parts).dir = dir
         /\ Datagram(c, k, copy, dir, parts).parts = parts
BY DEF Datagram, Datagrams

\* A request as the client sends it.
Request(c, k, len) == Datagram(c, k, 0, "request", [i \in 1 .. len |-> Part(c, k, i)])

LEMMA RequestIs ==
  ASSUME EchoTypeOK, NEW c \in Clients, NEW k \in Nat, NEW len \in Length(c)
  PROVE  /\ Request(c, k, len) \in Datagrams
         /\ Request(c, k, len).from = c /\ Request(c, k, len).no = k
         /\ Request(c, k, len).dir = "request" /\ RequestWhole(Request(c, k, len))
<1> DEFINE parts == [i \in 1 .. len |-> Part(c, k, i)]
<1>1. len \in Nat \ {0} /\ (kind[c] = "struct" => len = STRUCT)
  BY Sizes DEF Length
<1>2. parts \in [1 .. len -> Parts]
  BY UpperPart, <1>1
<1>3. parts \in Seq(Parts) /\ Len(parts) = len
  BY <1>1, <1>2, FunctionIsSequence
<1>4. \A i \in 1 .. Len(parts) : parts[i] = Part(c, k, i)
  BY <1>3
<1> HIDE DEF parts
<1>5. Request(c, k, len) = Datagram(c, k, 0, "request", parts)
  BY DEF Request, parts
<1>. QED  BY <1>1, <1>3, <1>4, <1>5, DatagramType DEF RequestWhole

LEMMA AnswerIs ==
  ASSUME EchoTypeOK, sv = "sendto", cliaddr.of \in Clients, BufferWhole, NEW end
  PROVE  /\ Answer(end) \in [1 .. ServerSize -> Parts]
         /\ SubSeq(Answer(end), 1, AnswerSize) \in Seq(Parts)
         /\ AnswerSize \in 1 .. ServerSize
         /\ Len(SubSeq(Answer(end), 1, AnswerSize)) = AnswerSize
         /\ \A i \in 1 .. AnswerSize : SubSeq(Answer(end), 1, AnswerSize)[i] = Answer(end)[i]
<1> DEFINE answer == Answer(end)
<1>1. ServerSize \in Nat \ {0} /\ n \in 1 .. ServerSize /\ (server # "line" => ServerSize = STRUCT)
  <2>1. ServerSize \in Nat \ {0} /\ (server # "line" => ServerSize = STRUCT) /\ TextOf(cliaddr.of) \in {1, TEXT}
    BY Sizes DEF ServerSize
  <2>2. n \in 0 .. ServerSize /\ n >= TextOf(cliaddr.of)
    BY DEF EchoTypeOK, BufferWhole
  <2>. QED  BY <2>1, <2>2 DEF TEXT
<1>2. answer \in [1 .. ServerSize -> Parts]
  BY UpperType DEF Answer, EchoTypeOK
<1>3. AnswerSize \in 1 .. ServerSize
  BY <1>1 DEF AnswerSize
<1> HIDE DEF answer
<1>4. answer \in Seq(Parts) /\ Len(answer) = ServerSize
  BY <1>1, <1>2, FunctionIsSequence
<1>5. AnswerSize \in 0 .. Len(answer)
  BY <1>3, <1>4, <1>1
<1>6. /\ SubSeq(answer, 1, AnswerSize) \in Seq(Parts)
      /\ Len(SubSeq(answer, 1, AnswerSize)) = AnswerSize
      /\ \A i \in 1 .. AnswerSize : SubSeq(answer, 1, AnswerSize)[i] = answer[i]
  BY <1>4, <1>5, Prefix
<1>. QED  BY <1>2, <1>3, <1>6 DEF answer

\* What a client prints.
LEMMA PrintedIs ==
  ASSUME EchoTypeOK, NEW c \in Clients, NEW parts \in Seq(Parts), Len(parts) >= TextOf(c)
  PROVE  LET shownNow == Printed(c, SubSeq(parts, 1, Least(Len(parts), ClientSize(c)))) IN
         /\ shownNow \in Seq(Parts) /\ shownNow[TextOf(c)] = parts[TextOf(c)]
         /\ \A i \in DOMAIN shownNow : shownNow[i] = Zero \/ (i \in 1 .. Len(parts) /\ shownNow[i] = parts[i])
<1> DEFINE k == Least(Len(parts), ClientSize(c))
           cut == SubSeq(parts, 1, k)
           full == [i \in 1 .. STRUCT |-> IF i <= Len(cut) THEN cut[i] ELSE Zero]
           t == TextOf(c)
<1>0. /\ t \in Nat \ {0} /\ Len(parts) \in Nat /\ ClientSize(c) \in Nat \ {0} /\ STRUCT \in Nat \ {0}
      /\ Len(parts) >= t /\ ClientSize(c) >= t /\ STRUCT >= t
  BY Sizes DEF TEXT
<1> HIDE DEF t
<1>1. k \in Nat /\ k >= t /\ k <= Len(parts) /\ k <= ClientSize(c) /\ STRUCT \in Nat \ {0}
  BY <1>0, LeastIs
<1>2. cut \in Seq(Parts) /\ Len(cut) = k /\ \A i \in 1 .. k : cut[i] = parts[i]
  BY <1>1, Prefix
<1> HIDE DEF k, cut
<1>3. Zero \in Parts
  BY DEF Parts
<1>4. full \in [1 .. STRUCT -> Parts]
  BY <1>1, <1>2, <1>3
<1>5. full \in Seq(Parts) /\ Len(full) = STRUCT
  BY <1>1, <1>4, FunctionIsSequence
<1>6. Printed(c, cut) = IF kind[c] = "line" THEN cut ELSE full
  BY DEF Printed
<1>7. full[t] = parts[t] /\ cut[t] = parts[t] /\ DOMAIN full = 1 .. STRUCT /\ DOMAIN cut = 1 .. k
      /\ \A i \in 1 .. STRUCT : full[i] = Zero \/ (i \in 1 .. Len(parts) /\ full[i] = parts[i])
  BY <1>0, <1>1, <1>2
<1>8. Printed(c, cut) \in Seq(Parts) /\ Printed(c, cut)[t] = parts[t]
      /\ \A i \in DOMAIN Printed(c, cut) : Printed(c, cut)[i] = Zero \/ (i \in 1 .. Len(parts) /\ Printed(c, cut)[i] = parts[i])
  BY <1>1, <1>2, <1>5, <1>6, <1>7
<1>. QED  BY <1>8 DEF cut, k, t
-----------------------------------------------------------------------------
(* The clients' steps.                                                     *)

LEMMA SendtoKeeps ==
  ASSUME IInv, NEW c \in Clients, Sendto(c) PROVE IInv'
<1> DEFINE k == lines[c] + 1
<1>1. /\ cl[c] = "fgets" /\ cl' = [cl EXCEPT ![c] = "recvfrom"]
      /\ k \in Nat /\ lines' = [lines EXCEPT ![c] = k] /\ lines'[c] = k
      /\ UNCHANGED <<server, kind, sv, buf, n, cliaddr, shown, copies, lost>>
  BY DEF Sendto, serverVars, historyVars, IInv, EchoTypeOK
<1>2. PICK len \in Length(c) : net' = net \union {Request(c, k, len)}
  BY <1>1 DEF Sendto, Request
<1> DEFINE r == Request(c, k, len)
<1>3. /\ r \in Datagrams /\ r.from = c /\ r.no = k /\ r.dir = "request" /\ RequestWhole(r)
  BY <1>1, RequestIs DEF IInv
<1> HIDE DEF r
<1>4. net' = net \union {r}
  BY <1>2 DEF r
<1>5. EchoTypeOK'
  BY <1>1, <1>3, <1>4 DEF IInv, EchoTypeOK, ServerSize
<1>6. Contents'
  BY <1>1, <1>3, <1>4 DEF IInv, Contents, RequestWhole, AnswerWhole, BufferWhole, Matched, TextOf, Expected
<1>7. OwnParts' /\ AnswerMatches'
  <2>1. OwnParts'
    BY <1>1 DEF IInv, OwnParts
  <2>2. ASSUME NEW a \in Clients, copies'[a] = 0, cl'[a] = "fgets", shown'[a] # <<>>
        PROVE  (shown[a][TextOf(a)] = Expected(a, lines[a]))'
    <3>1. a # c /\ cl[a] = "fgets" /\ lines'[a] = lines[a]
      BY <1>1, <2>2 DEF IInv, EchoTypeOK
    <3>2. shown[a][TextOf(a)] = Expected(a, lines[a])
      BY <1>1, <2>2, <3>1 DEF IInv, AnswerMatches
    <3>. QED  BY <1>1, <3>1, <3>2 DEF TextOf, Expected
  <2>. QED  BY <2>1, <2>2 DEF AnswerMatches
<1>8. ASSUME NEW a \in Clients, copies'[a] = 0 PROVE OneUnderWay(a)'
  <2>1. OneUnderWay(a)
    BY <1>1, <1>8 DEF IInv, Flow
  <2>2. CASE a = c
    BY <1>1, <1>3, <1>4, <2>1, <2>2 DEF OneUnderWay, Serving, IInv, EchoTypeOK
  <2>3. CASE a # c
    BY <1>1, <1>3, <1>4, <2>1, <2>3 DEF OneUnderWay, Serving, IInv, EchoTypeOK
  <2>. QED  BY <2>2, <2>3
<1>. QED  BY <1>5, <1>6, <1>7, <1>8 DEF IInv, Flow

LEMMA SendtoNowhereKeeps ==
  ASSUME IInv, NEW c \in Clients, SendtoNowhere(c) PROVE IInv'
<1>1. /\ cl[c] = "fgets" /\ cl' = [cl EXCEPT ![c] = "recvfrom"]
      /\ lines' = [lines EXCEPT ![c] = @ + 1] /\ lost' = [lost EXCEPT ![c] = TRUE]
      /\ UNCHANGED <<server, kind, sv, buf, n, cliaddr, shown, net, copies>>
  BY DEF SendtoNowhere, serverVars
<1>2. EchoTypeOK'
  BY <1>1 DEF IInv, EchoTypeOK, ServerSize
<1>3. Contents'
  BY <1>1 DEF IInv, Contents, RequestWhole, AnswerWhole, BufferWhole, Matched, TextOf, Expected
<1>4. OwnParts' /\ AnswerMatches'
  <2>1. OwnParts'
    BY <1>1 DEF IInv, OwnParts
  <2>2. ASSUME NEW a \in Clients, copies'[a] = 0, cl'[a] = "fgets", shown'[a] # <<>>
        PROVE  (shown[a][TextOf(a)] = Expected(a, lines[a]))'
    <3>1. a # c /\ cl[a] = "fgets" /\ lines'[a] = lines[a]
      BY <1>1, <2>2 DEF IInv, EchoTypeOK
    <3>2. shown[a][TextOf(a)] = Expected(a, lines[a])
      BY <1>1, <2>2, <3>1 DEF IInv, AnswerMatches
    <3>. QED  BY <1>1, <3>1, <3>2 DEF TextOf, Expected
  <2>. QED  BY <2>1, <2>2 DEF AnswerMatches
<1>5. Flow'
  BY <1>1 DEF IInv, Flow, OneUnderWay, Serving, EchoTypeOK
<1>. QED  BY <1>2, <1>3, <1>4, <1>5 DEF IInv

\* A client that ends.
LEMMA EndKeeps ==
  ASSUME IInv, NEW c \in Clients, End(c) \/ RecvfromFails(c) PROVE IInv'
<1>1. /\ cl' = [cl EXCEPT ![c] = "ended"]
      /\ UNCHANGED <<server, kind, sv, buf, n, cliaddr, lines, shown, net, copies, lost>>
  BY DEF End, RecvfromFails, AfterFailure, serverVars, historyVars
<1>2. EchoTypeOK'
  BY <1>1 DEF IInv, EchoTypeOK, ServerSize
<1>3. Contents'
  BY <1>1 DEF IInv, Contents, RequestWhole, AnswerWhole, BufferWhole, Matched, TextOf, Expected
<1>4. OwnParts' /\ AnswerMatches'
  BY <1>1 DEF IInv, EchoTypeOK, OwnParts, AnswerMatches, TextOf, Expected
<1>5. Flow'
  BY <1>1 DEF IInv, Flow, OneUnderWay, Serving, EchoTypeOK
<1>. QED  BY <1>2, <1>3, <1>4, <1>5 DEF IInv

LEMMA RecvfromKeeps ==
  ASSUME IInv, NEW c \in Clients, Recvfrom(c) PROVE IInv'
<1>1. /\ cl[c] = "recvfrom" /\ cl' = [cl EXCEPT ![c] = "fgets"]
      /\ UNCHANGED <<server, kind, sv, buf, n, cliaddr, lines, copies, lost>>
  BY DEF Recvfrom, serverVars, historyVars
<1>2. PICK d \in net :
        /\ d.from = c /\ d.dir = "answer" /\ net' = net \ {d}
        /\ shown' = [shown EXCEPT ![c] =
             Printed(c, SubSeq(d.parts, 1, Least(Len(d.parts), ClientSize(c))))]
  BY DEF Recvfrom
<1> DEFINE now == Printed(c, SubSeq(d.parts, 1, Least(Len(d.parts), ClientSize(c))))
<1>3. d.parts \in Seq(Parts) /\ AnswerWhole(d) /\ d.no \in Nat
  BY <1>2 DEF IInv, EchoTypeOK, Contents, Datagrams
<1>4. /\ now \in Seq(Parts) /\ now[TextOf(c)] = d.parts[TextOf(c)]
      /\ \A i \in DOMAIN now : now[i] = Zero \/ (i \in 1 .. Len(d.parts) /\ now[i] = d.parts[i])
  <2>1. EchoTypeOK /\ Len(d.parts) >= TextOf(c)
    BY <1>2, <1>3 DEF IInv, AnswerWhole
  <2>. QED  BY <1>3, <2>1, PrintedIs
<1> HIDE DEF now
<1>5. shown' = [shown EXCEPT ![c] = now]
  BY <1>2 DEF now
<1>6. shown \in [Clients -> Seq(Parts)]
  BY DEF IInv, EchoTypeOK
<1>7. shown'[c] = now /\ \A a \in Clients : a # c => shown'[a] = shown[a]
  BY <1>5, <1>6
<1>8. shown' \in [Clients -> Seq(Parts)]
  BY <1>4, <1>5, <1>6
<1>9. EchoTypeOK'
  BY <1>1, <1>2, <1>8 DEF IInv, EchoTypeOK, ServerSize
<1>10. Contents'
  BY <1>1, <1>2 DEF IInv, Contents, RequestWhole, AnswerWhole, BufferWhole, Matched, TextOf, Expected
<1>11. OwnParts'
  <2> SUFFICES ASSUME NEW a \in Clients, Matched(a), NEW i \in DOMAIN shown'[a]
               PROVE  shown'[a][i] = Zero \/ (shown'[a][i].part = i /\ shown'[a][i].of = a)
    BY <1>1 DEF OwnParts, Matched
  <2>1. CASE a = c
    BY <1>2, <1>3, <1>4, <1>7, <2>1 DEF AnswerWhole
  <2>2. CASE a # c
    BY <1>7, <2>2 DEF IInv, OwnParts, Matched
  <2>. QED  BY <2>1, <2>2
<1>12. AnswerMatches'
  <2> SUFFICES ASSUME NEW a \in Clients, copies[a] = 0, cl'[a] = "fgets", shown'[a] # <<>>
               PROVE  shown'[a][TextOf(a)] = Expected(a, lines[a])
    BY <1>1 DEF AnswerMatches, TextOf, Expected
  <2>1. CASE a = c
    <3>1. d.no = lines[c]
      BY <1>2, <2>1 DEF IInv, Flow, OneUnderWay
    <3>. QED  BY <1>2, <1>3, <1>4, <1>7, <2>1, <3>1 DEF AnswerWhole
  <2>2. CASE a # c
    BY <1>1, <1>7, <2>2 DEF IInv, AnswerMatches, EchoTypeOK
  <2>. QED  BY <2>1, <2>2
<1>13. Flow'
  <2> SUFFICES ASSUME NEW a \in Clients, copies[a] = 0 PROVE OneUnderWay(a)'
    BY <1>1 DEF Flow
  <2>1. OneUnderWay(a)
    BY DEF IInv, Flow
  <2>2. CASE a = c
    <3>1. \A e \in net' : e.from # c
      BY <1>2, <2>1, <2>2 DEF OneUnderWay
    <3>2. ~Serving(c)
      BY <1>2, <2>1, <2>2 DEF OneUnderWay
    <3>. QED  BY <1>1, <2>2, <3>1, <3>2 DEF OneUnderWay, Serving
  <2>3. CASE a # c
    BY <1>1, <1>2, <2>1, <2>3 DEF OneUnderWay, Serving, IInv, EchoTypeOK
  <2>. QED  BY <2>2, <2>3
<1>. QED  BY <1>9, <1>10, <1>11, <1>12, <1>13 DEF IInv
-----------------------------------------------------------------------------
(* The server's steps.                                                     *)

LEMMA ServerRecvfromKeeps ==
  ASSUME IInv, ServerRecvfrom PROVE IInv'
<1>1. /\ sv = "recvfrom" /\ sv' = "sendto"
      /\ UNCHANGED <<server, kind, cl, lines, shown, copies, lost>>
  BY DEF ServerRecvfrom, clientVars, historyVars
<1>2. PICK d \in net :
        /\ d.dir = "request" /\ net' = net \ {d}
        /\ n' = Least(Len(d.parts), ServerSize)
        /\ buf' = [i \in 1 .. ServerSize |-> IF i <= n' THEN d.parts[i] ELSE buf[i]]
        /\ cliaddr' = [of |-> d.from, no |-> d.no, copy |-> d.copy]
  BY DEF ServerRecvfrom, Sender
<1>3. /\ d.parts \in Seq(Parts) /\ RequestWhole(d)
      /\ d.from \in Clients /\ d.no \in Nat /\ d.copy \in Nat
  BY <1>2 DEF IInv, EchoTypeOK, Contents, Datagrams
<1>4. ServerSize \in Nat \ {0} /\ (server = "struct" => ServerSize = STRUCT) /\ ServerSize' = ServerSize
  BY <1>1, Sizes DEF IInv, ServerSize
<1>5. /\ n' \in 1 .. ServerSize /\ n' <= Len(d.parts)
      /\ Len(d.parts) = ServerSize => n' = ServerSize
      /\ n' >= TextOf(d.from)
  <2>1. Len(d.parts) \in Nat /\ Len(d.parts) >= 1 /\ Len(d.parts) >= TextOf(d.from)
        /\ TextOf(d.from) \in Nat \ {0} /\ ServerSize >= TextOf(d.from)
    BY <1>3, Sizes DEF RequestWhole, TextOf, TEXT, IInv
  <2>2. LET m == Least(Len(d.parts), ServerSize) IN
        /\ m \in 1 .. ServerSize /\ m <= Len(d.parts)
        /\ Len(d.parts) = ServerSize => m = ServerSize
        /\ m >= TextOf(d.from)
    BY ONLY <1>4, <2>1, LeastHolds
  <2>. QED  BY ONLY <1>2, <2>2
<1>6. buf' \in [1 .. ServerSize -> Parts] /\ \A i \in 1 .. n' : buf'[i] = d.parts[i]
  BY <1>2, <1>3, <1>4, <1>5 DEF IInv, EchoTypeOK
<1>7. EchoTypeOK'
  BY <1>1, <1>2, <1>3, <1>4, <1>5, <1>6 DEF IInv, EchoTypeOK
<1>8. BufferWhole'
  <2>1. n' >= TextOf(cliaddr.of)'
    BY <1>1, <1>2, <1>5 DEF TextOf
  <2>. QED  BY <1>1, <1>2, <1>3, <1>4, <1>5, <1>6, <2>1 DEF BufferWhole, RequestWhole
<1>9. Contents'
  BY <1>1, <1>2, <1>8 DEF IInv, Contents, RequestWhole, AnswerWhole, Matched, TextOf, Expected
<1>10. OwnParts' /\ AnswerMatches'
  BY <1>1 DEF IInv, OwnParts, AnswerMatches, TextOf, Expected
<1>11. ASSUME NEW a \in Clients, copies'[a] = 0 PROVE OneUnderWay(a)'
  BY <1>1, <1>2, <1>11 DEF IInv, Flow, OneUnderWay, Serving
<1>. QED  BY <1>7, <1>9, <1>10, <1>11 DEF IInv, Flow

LEMMA ServerSendtoKeeps ==
  ASSUME IInv, ServerSendto PROVE IInv'
<1>0. PICK end \in TextEnds :
        /\ buf' = IF server = "line" THEN Answer(end) ELSE buf
        /\ net' = net \union
             {Datagram(cliaddr.of, cliaddr.no, cliaddr.copy, "answer",
                       SubSeq(Answer(end), 1, AnswerSize))}
  BY DEF ServerSendto
<1> DEFINE answer == Answer(end)
           parts  == SubSeq(answer, 1, AnswerSize)
           d      == Datagram(cliaddr.of, cliaddr.no, cliaddr.copy, "answer", parts)
           t      == TextOf(cliaddr.of)
<1>1. /\ sv = "sendto" /\ sv' = "recvfrom" /\ n' = AnswerSize
      /\ buf' = IF server = "line" THEN answer ELSE buf
      /\ net' = net \union {d}
      /\ UNCHANGED <<server, kind, cliaddr, cl, lines, shown, copies, lost>>
  BY <1>0 DEF ServerSendto, clientVars, historyVars
<1>2. BufferWhole /\ cliaddr \in [of : Clients, no : Nat, copy : Nat]
  BY <1>1 DEF IInv, Contents, EchoTypeOK
<1>3. /\ answer \in [1 .. ServerSize -> Parts] /\ parts \in Seq(Parts)
      /\ AnswerSize \in 1 .. ServerSize /\ Len(parts) = AnswerSize
      /\ \A i \in 1 .. AnswerSize : parts[i] = answer[i]
  BY <1>1, <1>2, AnswerIs DEF IInv
<1>4. /\ ServerSize \in Nat \ {0} /\ (server = "struct" => ServerSize = STRUCT) /\ ServerSize' = ServerSize
      /\ n \in 1 .. ServerSize /\ n >= t /\ t \in Nat \ {0}
      /\ server \in {"line", "struct"} /\ kind[cliaddr.of] \in {"line", "struct"}
  <2>1. ServerSize \in Nat \ {0} /\ (server = "struct" => ServerSize = STRUCT) /\ ServerSize' = ServerSize
    BY <1>1, Sizes DEF IInv, ServerSize
  <2>2. n \in 0 .. ServerSize /\ n >= t /\ t \in {1, TEXT}
    BY <1>2, Sizes DEF IInv, EchoTypeOK, BufferWhole
  <2>3. server \in {"line", "struct"} /\ kind[cliaddr.of] \in {"line", "struct"}
    BY <1>2 DEF IInv, EchoTypeOK, Kinds
  <2>. QED  BY <2>1, <2>2, <2>3 DEF TEXT
<1>6. \A i \in 1 .. n :
        answer[i] = IF i \in Uppered(end) THEN Upper(Part(cliaddr.of, cliaddr.no, i))
                    ELSE Part(cliaddr.of, cliaddr.no, i)
  BY <1>2, <1>4 DEF Answer, BufferWhole
<1>7. answer[t] = Expected(cliaddr.of, cliaddr.no) /\ t \in 1 .. n
  <2> DEFINE p == Part(cliaddr.of, cliaddr.no, t)
  <2>1. t \in 1 .. n /\ t \in Nat \ {0}
    BY <1>4
  <2> HIDE DEF t
  <2>2. Upper(p) = [p EXCEPT !.upper = TRUE]
    <3>1. cliaddr.of \in Clients /\ cliaddr.no \in Nat
      BY <1>2
    <3> HIDE DEF p, answer, parts, d
    <3>2. \A c \in Clients, k \in Nat, i \in Nat \ {0} :
            Upper(Part(c, k, i)) = [Part(c, k, i) EXCEPT !.upper = TRUE]
      BY UpperPart
    <3>3. Upper(Part(cliaddr.of, cliaddr.no, t)) = [Part(cliaddr.of, cliaddr.no, t) EXCEPT !.upper = TRUE]
      BY <2>1, <3>1, <3>2, Zenon
    <3>. QED  BY <3>3 DEF p
  <2>3. t \in Uppered(end) <=> ~(server = "struct" /\ kind[cliaddr.of] = "line")
    <3>1. CASE server = "line"
      BY <2>1, <3>1 DEF Uppered
    <3>2. CASE server = "struct" /\ kind[cliaddr.of] = "line"
      BY <3>2, <1>0 DEF Uppered, TextOf, TextEnds, TEXT, t
    <3>3. CASE server = "struct" /\ kind[cliaddr.of] = "struct"
      <4>1. n = STRUCT
        BY <1>2, <3>3 DEF BufferWhole
      <4>2. end = TEXT
        BY <1>0, <4>1 DEF TextEnds
      <4>. QED  BY <3>3, <4>2 DEF Uppered, TextOf, TEXT, t
    <3>. QED  BY <1>4, <3>1, <3>2, <3>3
  <2>4. answer[t] = IF t \in Uppered(end) THEN Upper(p) ELSE p
    BY <1>6, <2>1
  <2> HIDE DEF answer
  <2>5. answer[t] = IF server = "struct" /\ kind[cliaddr.of] = "line" THEN p
                    ELSE [p EXCEPT !.upper = TRUE]
    BY <2>2, <2>3, <2>4
  <2>. QED  BY <2>1, <2>5 DEF Expected, t
<1> HIDE DEF parts, answer
<1>5. /\ d \in Datagrams /\ d.from = cliaddr.of /\ d.no = cliaddr.no /\ d.dir = "answer"
      /\ d.parts = parts
  BY <1>2, <1>3, DatagramType
<1> HIDE DEF d
<1>8. Matched(cliaddr.of) => AnswerSize = n
  BY <1>2 DEF AnswerSize, Matched, BufferWhole, IInv, EchoTypeOK, Kinds
<1>14. AnswerSize >= n
  BY <1>3, <1>4 DEF AnswerSize
<1>9. AnswerWhole(d)
  <2>1. Len(d.parts) >= t /\ d.parts[t] = Expected(d.from, d.no) /\ t = TextOf(d.from)
    <3>1. Len(d.parts) >= t /\ d.parts[t] = answer[t]
      <4> HIDE DEF t
      <4>. QED  BY <1>3, <1>4, <1>5, <1>7, <1>14
    <3>. QED  BY <1>5, <1>7, <3>1
  <2>2. ASSUME Matched(d.from), NEW i \in 1 .. Len(d.parts)
        PROVE  d.parts[i].part = i /\ d.parts[i].of = d.from
    <3>1. i \in 1 .. n /\ i \in Nat \ {0} /\ d.parts[i] = answer[i]
      BY <1>3, <1>4, <1>5, <1>8, <2>2
    <3>. QED  BY <1>2, <1>5, <1>6, <3>1, UpperPart
  <2>. QED  BY <2>1, <2>2 DEF AnswerWhole
<1>10. EchoTypeOK'
  BY <1>1, <1>3, <1>4, <1>5 DEF IInv, EchoTypeOK
<1>11. Contents'
  <2>1. ASSUME NEW e \in net', e.dir = "request" PROVE RequestWhole(e)'
    BY <1>1, <1>5, <2>1 DEF IInv, Contents, RequestWhole
  <2>2. \A e : AnswerWhole(e)' <=> AnswerWhole(e)
    BY <1>1 DEF AnswerWhole, Matched, TextOf, Expected
  <2>3. ASSUME NEW e \in net', e.dir = "answer" PROVE AnswerWhole(e)
    BY <1>1, <1>9, <2>3 DEF IInv, Contents
  <2>. QED  BY <1>1, <2>1, <2>2, <2>3 DEF Contents
<1>12. OwnParts' /\ AnswerMatches'
  BY <1>1 DEF IInv, OwnParts, AnswerMatches, TextOf, Expected
<1>13. ASSUME NEW a \in Clients, copies'[a] = 0 PROVE OneUnderWay(a)'
  <2>1. OneUnderWay(a)
    BY <1>1, <1>13 DEF IInv, Flow
  <2>. QED  BY <1>1, <1>5, <2>1 DEF OneUnderWay, Serving
<1>. QED  BY <1>10, <1>11, <1>12, <1>13 DEF IInv, Flow

LEMMA ServerEndsKeeps ==
  ASSUME IInv, ServerEnds PROVE IInv'
<1>1. /\ sv' = "ended"
      /\ UNCHANGED <<server, kind, buf, n, cliaddr, cl, lines, shown, net, copies, lost>>
  BY DEF ServerEnds, clientVars, historyVars
<1>. QED  BY <1>1 DEF IInv, EchoTypeOK, ServerSize, Contents, RequestWhole, AnswerWhole, Matched,
                     OwnParts, AnswerMatches, Flow, OneUnderWay, Serving, TextOf, Expected
-----------------------------------------------------------------------------
(* The network's steps.                                                    *)

LEMMA LoseKeeps ==
  ASSUME IInv, Lose PROVE IInv'
<1>1. PICK d \in net : net' = net \ {d} /\ lost' = [lost EXCEPT ![d.from] = TRUE]
  BY DEF Lose
<1>2. UNCHANGED <<server, kind, sv, buf, n, cliaddr, cl, lines, shown, copies>>
  BY DEF Lose, serverVars, clientVars
<1>3. EchoTypeOK'
  BY <1>1, <1>2 DEF IInv, EchoTypeOK, ServerSize
<1>4. Contents'
  BY <1>1, <1>2 DEF IInv, Contents, RequestWhole, AnswerWhole, BufferWhole, Matched, TextOf, Expected
<1>5. OwnParts' /\ AnswerMatches'
  BY <1>2 DEF IInv, OwnParts, AnswerMatches, TextOf, Expected
<1>6. Flow'
  BY <1>1, <1>2 DEF IInv, Flow, OneUnderWay, Serving
<1>. QED  BY <1>3, <1>4, <1>5, <1>6 DEF IInv

LEMMA DuplicateKeeps ==
  ASSUME IInv, Duplicate PROVE IInv'
<1>1. PICK d \in net : /\ copies' = [copies EXCEPT ![d.from] = @ + 1]
                       /\ net' = net \union {[d EXCEPT !.copy = copies'[d.from]]}
  BY DEF Duplicate
<1>2. UNCHANGED <<server, kind, sv, buf, n, cliaddr, cl, lines, shown, lost>>
  BY DEF Duplicate, serverVars, clientVars
<1> DEFINE e == [d EXCEPT !.copy = copies'[d.from]]
<1>3. d \in Datagrams /\ d.from \in Clients
  BY DEF IInv, EchoTypeOK, Datagrams
<1>4. copies' \in [Clients -> Nat] /\ copies'[d.from] # 0 /\ copies'[d.from] \in Nat
      /\ \A a \in Clients : a # d.from => copies'[a] = copies[a]
  BY <1>1, <1>3 DEF IInv, EchoTypeOK
<1>5. e \in Datagrams /\ e.from = d.from /\ e.no = d.no /\ e.dir = d.dir /\ e.parts = d.parts
  BY <1>3, <1>4 DEF Datagrams
<1> HIDE DEF e
<1>6. net' = net \union {e}
  BY <1>1 DEF e
<1>7. EchoTypeOK'
  BY <1>2, <1>4, <1>5, <1>6 DEF IInv, EchoTypeOK, ServerSize
<1>8. Contents'
  BY <1>2, <1>5, <1>6 DEF IInv, Contents, RequestWhole, AnswerWhole, BufferWhole, Matched, TextOf, Expected
<1>9. OwnParts'
  BY <1>2 DEF IInv, OwnParts
<1>10. ASSUME NEW a \in Clients, copies'[a] = 0 PROVE a # d.from /\ copies[a] = 0
  BY <1>3, <1>4, <1>10
<1>11. AnswerMatches'
  BY <1>2, <1>10 DEF IInv, AnswerMatches, TextOf, Expected
<1>12. ASSUME NEW a \in Clients, copies'[a] = 0 PROVE OneUnderWay(a)'
  <2>1. OneUnderWay(a) /\ a # e.from
    BY <1>5, <1>10, <1>12 DEF IInv, Flow
  <2>. QED  BY <1>2, <1>6, <2>1 DEF OneUnderWay, Serving
<1>. QED  BY <1>7, <1>8, <1>9, <1>11, <1>12 DEF IInv, Flow
-----------------------------------------------------------------------------
LEMMA Initially == ASSUME EchoInit PROVE IInv
<1>1. ServerSize \in Nat \ {0}
  BY UdpAssumption DEF EchoInit, ServerSize, Kinds, TEXT
<1>2. Junk \in Parts
  BY DEF Parts
<1>3. \A c \in Clients : shown[c] = <<>> /\ shown[c] \in Seq(Parts) /\ DOMAIN shown[c] = {}
  <2>1. \A c \in Clients : shown[c] = <<>>
    BY DEF EchoInit
  <2>2. <<>> \in Seq(Parts) /\ DOMAIN <<>> = {}
    OBVIOUS
  <2>. QED  BY <2>1, <2>2
<1>4. shown \in [Clients -> Seq(Parts)]
  BY <1>3 DEF EchoInit
<1>5. EchoTypeOK
  BY <1>1, <1>2, <1>4 DEF EchoInit, EchoTypeOK
<1>6. OwnParts /\ AnswerMatches
  BY <1>3 DEF OwnParts, AnswerMatches, TextOf, Expected
<1>7. Contents /\ Flow
  BY DEF EchoInit, Contents, Flow, OneUnderWay, Serving
<1>. QED  BY <1>5, <1>6, <1>7 DEF IInv

LEMMA Kept == ASSUME IInv, [EchoNext]_uvars PROVE IInv'
<1>1. ASSUME NEW c \in Clients, Client(c) PROVE IInv'
  BY <1>1, SendtoKeeps, SendtoNowhereKeeps, RecvfromKeeps, EndKeeps DEF Client
<1>2. CASE UNCHANGED uvars
  BY <1>2 DEF uvars, serverVars, clientVars, historyVars, IInv, EchoTypeOK, ServerSize, Contents,
     RequestWhole, AnswerWhole, BufferWhole, Matched, OwnParts, AnswerMatches, Flow, OneUnderWay,
     Serving, TextOf, Expected
<1>. QED
  BY <1>1, <1>2, ServerRecvfromKeeps, ServerSendtoKeeps, ServerEndsKeeps, LoseKeeps,
     DuplicateKeeps DEF EchoNext

\* What is under way, in the buffer and shown is what it should be.
THEOREM Invariance == EchoSpec => []IInv
<1>1. EchoInit => IInv  BY Initially
<1>2. IInv /\ [EchoNext]_uvars => IInv'  BY Kept
<1>. QED  BY <1>1, <1>2, PTL DEF EchoSpec

\* The variables of the datagram programs have their types.
THEOREM Types == EchoSpec => []EchoTypeOK
BY Invariance, PTL DEF IInv

\* For any number of clients and any network: nobody is shown parts of another's line,
\* nor of the server's memory.
THEOREM Own == EchoSpec => []OwnParts
BY Invariance, PTL DEF IInv

\* For any number of clients and any network: what is shown before the next line is
\* the answer to the last one, unless a datagram of the client was duplicated.
THEOREM Matches == EchoSpec => []AnswerMatches
BY Invariance, PTL DEF IInv
=============================================================================
