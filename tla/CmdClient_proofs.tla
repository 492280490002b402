-------------------------- MODULE CmdClient_proofs --------------------------
(***************************************************************************)
(* The terminal clients, for any lines and answers, any sizes of buffers   *)
(* and connection: what is sent is what was typed, and a file goes out     *)
(* directly after the command that asked for it.                           *)
(***************************************************************************)
EXTENDS CmdClient, SequenceFacts, TLAPS

\* A line in the terminal has its newline at the end and nowhere else.
LinesEnd == \A k \in DOMAIN tty : \A i \in 1 .. Len(tty[k]) - 1 : tty[k][i] \in Tokens

\* What is left to upload is the end of a file, and nothing outside of _sendFile().
UploadEnds ==
  /\ upload \in {<<"head", "body", "tail">>, <<"head", "tail">>, <<"body", "tail">>, <<"tail">>, <<>>}
  /\ pc \in {"recv", "input", "output", "check"} => upload = <<>>

\* The tokens of w from j to p are a $put line with both names, begun after the first n of
\* the files that went out at f.
PutLine(w, f, j, p, n) ==
  /\ j \in 1 .. p /\ p <= Len(w)
  /\ SubSeq(w, j, p)[1] = "$put" /\ Cardinality(WordStarts(SubSeq(w, j, p))) >= 3
  /\ \A i \in 1 .. n : f[i] < j

\* So it is for each file that went out, and at the end of wire for the one that is next.
Followed ==
  /\ \A k \in DOMAIN files : files[k] <= Len(wire)
  /\ "cut" \notin odd =>
       /\ \A k \in DOMAIN files : \E j \in 1 .. files[k] : PutLine(wire, files, j, files[k], k - 1)
       /\ upload # <<>> /\ Head(upload) = "head" /\ "eof" \notin odd =>
            \E j \in 1 .. Len(wire) : PutLine(wire, files, j, Len(wire), Len(files))

CmdInv == TypeOK /\ LinesEnd /\ UploadEnds /\ LinesExact /\ Followed
-----------------------------------------------------------------------------
(* What reading and sending take from a line.                              *)

TypedTokens == Tokens \union {"nl"}

\* Part of a line typed, without its end, has no newline in it.
LEMMA LinePart ==
  ASSUME NEW line \in Seq(TypedTokens), NEW n \in 0 .. Len(line) - 1,
         \A i \in 1 .. Len(line) - 1 : line[i] \in Tokens
  PROVE  SubSeq(line, 1, n) \in Seq(Tokens)
<1>1. /\ n \in 0 .. Len(line) /\ 1 \in Nat \ {0}
      /\ \A i \in 1 .. n : line[i] \in Tokens
  OBVIOUS
<1> QED BY <1>1, PieceOf

\* The rest of a line that does not fit is again the end of a line, or empty.
LEMMA LineRest ==
  ASSUME NEW line \in Seq(TypedTokens), \A i \in 1 .. Len(line) - 1 : line[i] \in Tokens
  PROVE  LET rest == SubSeq(line, BUFSIZE + 1, Len(line))
         IN  /\ rest \in Seq(TypedTokens) /\ (rest = <<>> <=> Len(line) <= BUFSIZE)
             /\ \A i \in 1 .. Len(rest) - 1 : rest[i] \in Tokens
<1> DEFINE rest == SubSeq(line, BUFSIZE + 1, Len(line))
<1>1. /\ BUFSIZE \in Nat \ {0} /\ BUFSIZE + 1 \in Nat \ {0} /\ Len(line) \in 0 .. Len(line)
      /\ Len(line) \in Nat
  BY ClientAssumption
<1>2. /\ rest \in Seq(TypedTokens)
      /\ Len(rest) = IF BUFSIZE + 1 <= Len(line) THEN Len(line) - (BUFSIZE + 1) + 1 ELSE 0
      /\ \A k \in 1 .. Len(rest) : rest[k] = line[BUFSIZE + 1 + k - 1]
  BY <1>1, Piece
<1> HIDE DEF rest
<1>3. rest = <<>> <=> Len(rest) = 0
  BY <1>2
<1>4. ASSUME NEW i \in 1 .. Len(rest) - 1 PROVE rest[i] \in Tokens
  <2>1. i \in 1 .. Len(rest) /\ BUFSIZE + 1 + i - 1 \in 1 .. Len(line) - 1
    BY <1>1, <1>2
  <2> QED BY <1>2, <2>1
<1> QED BY <1>1, <1>2, <1>3, <1>4 DEF rest

\* strlen() after strtok_r() sees a beginning of the text.
LEMMA FirstWordIs ==
  ASSUME NEW b \in Seq(Tokens)
  PROVE  FirstWord(b) \in Seq(Tokens) /\ Len(FirstWord(b)) <= Len(b)
<1> DEFINE Fits(n) == /\ n = Len(b) \/ b[n + 1] = "sp"
                      /\ \A k \in 1 .. n : b[k] # "sp"
           blanks  == {k \in 1 .. Len(b) : b[k] = "sp"}
<1>0. Len(b) \in Nat
  OBVIOUS
<1>1. \E n \in 0 .. Len(b) : Fits(n)
  <2>1. CASE blanks = {}
    <3>1. Fits(Len(b)) /\ Len(b) \in 0 .. Len(b)
      BY <1>0, <2>1
    <3> QED BY <3>1
  <2>2. CASE blanks # {}
    <3>0. blanks \subseteq Nat
      BY <1>0
    <3>1. PICK k \in blanks : \A j \in blanks : k <= j
      BY <2>2, <3>0, LeastOf
    <3>2. k \in 1 .. Len(b) /\ b[k] = "sp" /\ k \in Int
      OBVIOUS
    <3>3. (k - 1) + 1 = k /\ k - 1 \in 0 .. Len(b)
      BY <1>0, <3>2
    <3>4. \A j \in 1 .. k - 1 : b[j] # "sp"
      <4>1. \A j \in 1 .. k - 1 : j \in 1 .. Len(b) /\ ~(k <= j)
        BY <1>0, <3>2
      <4> QED BY <3>1, <4>1
    <3>5. Fits(k - 1)
      BY <3>2, <3>3, <3>4
    <3> QED BY <3>3, <3>5
  <2> QED BY <2>1, <2>2
<1> DEFINE n == CHOOSE n \in 0 .. Len(b) : Fits(n)
<1>2. n \in 0 .. Len(b)
  BY <1>1
<1>3. FirstWord(b) = SubSeq(b, 1, n)
  BY DEF FirstWord
<1> HIDE DEF n
<1>4. 1 \in Nat \ {0}
  OBVIOUS
<1>5. SubSeq(b, 1, n) \in Seq(Tokens) /\ Len(SubSeq(b, 1, n)) = IF 1 <= n THEN n - 1 + 1 ELSE 0
  BY <1>2, <1>4, Piece
<1> QED BY <1>0, <1>2, <1>3, <1>5

\* What is left of wBuffer is not longer than it was; after all of it was taken, nothing.
LEMMA LeftIs ==
  ASSUME NEW b \in Seq(Tokens), NEW n \in 0 .. Len(b), NEW ran
  PROVE  /\ Left(b, n, ran) \in Seq(Tokens) /\ Len(Left(b, n, ran)) <= Len(b)
         /\ n = Len(b) => Left(b, n, ran) = <<>>
         /\ ~ran => Left(b, n, ran) = SubSeq(b, n + 1, Len(b))
<1> DEFINE rest == SubSeq(b, n + 1, Len(b))
<1>1. /\ n + 1 \in Nat \ {0} /\ Len(b) \in 0 .. Len(b) /\ n \in Nat /\ Len(b) \in Nat
  OBVIOUS
<1>2. /\ rest \in Seq(Tokens)
      /\ Len(rest) = IF n + 1 <= Len(b) THEN Len(b) - (n + 1) + 1 ELSE 0
  BY <1>1, Piece
<1>3. Left(b, n, ran) = IF ran THEN FirstWord(rest) ELSE rest
  BY DEF Left
<1> HIDE DEF rest
<1>4. FirstWord(rest) \in Seq(Tokens) /\ Len(FirstWord(rest)) <= Len(rest)
  BY <1>2, FirstWordIs
<1>5. /\ Len(rest) <= Len(b) /\ Len(rest) \in Nat /\ Len(FirstWord(rest)) \in Nat
      /\ n = Len(b) => Len(rest) = 0
  BY <1>1, <1>2, <1>4
<1>6. n = Len(b) => rest = <<>> /\ FirstWord(rest) = <<>>
  BY <1>2, <1>4, <1>5
<1> QED BY <1>2, <1>3, <1>4, <1>5, <1>6 DEF rest
-----------------------------------------------------------------------------
(* Every action keeps the types.                                           *)

Shape == TypeOK /\ LinesEnd /\ UploadEnds

\* Actions that touch neither texts nor files.
LEMMA ShapeControl ==
  ASSUME Shape,
         SelectFails \/ RecvEnd \/ RecvNothing \/ InputFails \/ InputNothing
           \/ OutputNothing \/ OutputFails \/ Check
  PROVE  Shape'
<1> USE DEF Shape, TypeOK, LinesEnd, UploadEnds, histVars, ttyVars, netVars, Down
<1>1. CASE SelectFails
  BY <1>1 DEF SelectFails
<1>2. CASE RecvEnd
  BY <1>2 DEF RecvEnd
<1>3. CASE RecvNothing
  BY <1>3 DEF RecvNothing
<1>4. CASE InputFails
  BY <1>4 DEF InputFails
<1>5. CASE InputNothing
  BY <1>5 DEF InputNothing
<1>6. CASE OutputNothing
  BY <1>6 DEF OutputNothing
<1>7. CASE OutputFails
  BY <1>7 DEF OutputFails
<1>8. CASE Check
  BY <1>8 DEF Check
<1> QED BY <1>1, <1>2, <1>3, <1>4, <1>5, <1>6, <1>7, <1>8

\* Taking from a queue, and adding to one.
LEMMA QueueSteps ==
  ASSUME NEW S, NEW q \in Seq(S)
  PROVE  /\ q # <<>> => Head(q) \in S /\ Tail(q) \in Seq(S) /\ Len(Tail(q)) = Len(q) - 1
         /\ \A e \in S : Append(q, e) \in Seq(S) /\ Len(Append(q, e)) = Len(q) + 1
         /\ Len(q) \in Nat
OBVIOUS

\* The server's actions, and what the client receives.
LEMMA ShapeServer ==
  ASSUME Shape, Recv \/ RecvShort \/ ServerRead \/ ServerWrite \/ ServerLeaves \/ CloseTerminal
  PROVE  Shape'
<1>0. /\ SNDBUF \in Nat \ {0} /\ toClient \in Seq(Messages) /\ out \in Seq(Messages)
      /\ Len(toClient) <= SNDBUF
  BY ClientAssumption DEF Shape, TypeOK
<1>1. CASE Recv
  <2>1. /\ Head(toClient) \in Messages /\ Tail(toClient) \in Seq(Messages)
        /\ Len(Tail(toClient)) <= SNDBUF
    <3>1. toClient # <<>>
      BY <1>1 DEF Recv
    <3> QED BY <1>0, <3>1, QueueSteps
  <2>2. <<"msg">> \in Seq(Tokens)
    BY DEF Tokens
  <2>3. receiveing' \in BOOLEAN
    BY <1>1, <2>1 DEF Recv, Messages, FileParts, Shape, TypeOK
  <2> QED BY <1>1, <2>1, <2>2, <2>3
          DEF Recv, Shape, TypeOK, LinesEnd, UploadEnds, histVars, ttyVars
<1>2. CASE ServerRead
  <2>1. toServer' \in 0 .. SNDBUF
    BY <1>0, <1>2 DEF ServerRead, Shape, TypeOK
  <2>2. out' \in Seq(Messages) /\ replies' \in 0 .. MaxReplies
    BY <1>2, ClientAssumption DEF ServerRead, Shape, TypeOK
  <2> QED BY <1>2, <2>1, <2>2
          DEF ServerRead, Shape, TypeOK, LinesEnd, UploadEnds, histVars, ttyVars
<1>3. CASE ServerWrite
  <2>1. out # <<>> /\ Len(toClient) < SNDBUF
    BY <1>3 DEF ServerWrite
  <2>2. /\ Append(toClient, Head(out)) \in Seq(Messages)
        /\ Len(Append(toClient, Head(out))) <= SNDBUF
        /\ Tail(out) \in Seq(Messages)
    BY <1>0, <2>1, QueueSteps
  <2> QED BY <1>3, <2>2
          DEF ServerWrite, Shape, TypeOK, LinesEnd, UploadEnds, histVars, ttyVars
<1>4. CASE ServerLeaves
  BY <1>4 DEF ServerLeaves, Shape, TypeOK, LinesEnd, UploadEnds, histVars, ttyVars
<1>5. CASE CloseTerminal
  BY <1>5 DEF CloseTerminal, Shape, TypeOK, LinesEnd, UploadEnds, histVars, netVars
<1>6. CASE RecvShort
  <2>1. Tail(toClient) \in Seq(Messages) /\ Len(Tail(toClient)) <= SNDBUF
    <3>1. toClient # <<>>
      BY <1>6 DEF RecvShort
    <3> QED BY <1>0, <3>1, QueueSteps
  <2>2. <<"msg">> \in Seq(Tokens) /\ {"input", "killed"} \subseteq {"input"} \union Down
    BY DEF Tokens, Down
  <2> QED BY <1>6, <2>1, <2>2
          DEF RecvShort, Shape, TypeOK, LinesEnd, UploadEnds, histVars, ttyVars
<1> QED BY <1>1, <1>2, <1>3, <1>4, <1>5, <1>6

\* A line typed has its newline at the end.
LEMMA ShapeType ==
  ASSUME Shape, Type
  PROVE  Shape'
<1>1. PICK line \in Lines : tty' = Append(tty, Append(line, "nl"))
  BY DEF Type
<1> DEFINE new == Append(line, "nl")
<1>2. line \in Seq(Tokens) /\ Len(line) \in Nat
  BY ClientAssumption
<1>3. /\ new \in Seq(TypedTokens) /\ new # <<>>
      /\ \A i \in 1 .. Len(new) - 1 : new[i] \in Tokens
  BY <1>2 DEF TypedTokens
<1> HIDE DEF new
<1>4. /\ tty \in Seq(Seq(TypedTokens)) /\ \A k \in DOMAIN tty : tty[k] # <<>>
      /\ \A k \in DOMAIN tty : \A i \in 1 .. Len(tty[k]) - 1 : tty[k][i] \in Tokens
  BY DEF Shape, TypeOK, LinesEnd, TypedTokens
<1>5. /\ tty' \in Seq(Seq(TypedTokens))
      /\ \A k \in DOMAIN tty' : (k \in DOMAIN tty /\ tty'[k] = tty[k]) \/ tty'[k] = new
  BY <1>1, <1>3, <1>4 DEF new
<1>6. /\ \A k \in DOMAIN tty' : tty'[k] # <<>>
      /\ \A k \in DOMAIN tty' : \A i \in 1 .. Len(tty'[k]) - 1 : tty'[k][i] \in Tokens
  BY <1>3, <1>4, <1>5
<1>7. typed' \in 0 .. MaxLines
  BY ClientAssumption DEF Type, Shape, TypeOK
<1>8. /\ tty' \in Seq(Seq(Tokens \union {"nl"}))
      /\ UNCHANGED <<run, pc, wBuffer, buffer, receiveing, upload, failed, eof, toServer,
                     netVars, histVars>>
  BY <1>5 DEF Type, TypedTokens
<1> QED BY <1>6, <1>7, <1>8 DEF Shape, TypeOK, LinesEnd, UploadEnds, histVars, netVars

\* strcat() within wBuffer, or past its end.
LEMMA StrcatTypes ==
  ASSUME Shape, NEW s \in Seq(Tokens), Strcat(s)
  PROVE  wBuffer' \in Seq(Tokens) /\ Len(wBuffer') < WBUF /\ pc' \in {"output", "overrun"}
<1>1. wBuffer \in Seq(Tokens) /\ Len(wBuffer) < WBUF
  BY DEF Shape, TypeOK
<1>2. wBuffer \o s \in Seq(Tokens) /\ Len(wBuffer \o s) = Len(wBuffer) + Len(s)
  BY <1>1, Joined
<1> QED BY <1>1, <1>2 DEF Strcat

LEMMA ShapeInput ==
  ASSUME Shape, Input
  PROVE  Shape'
<1> DEFINE line == Head(tty)
           s    == SubSeq(line, 1, Kept(line))
           rest == SubSeq(line, BUFSIZE + 1, Len(line))
<1>1. /\ tty \in Seq(Seq(TypedTokens)) /\ tty # <<>>
      /\ \A k \in DOMAIN tty : tty[k] # <<>>
      /\ \A k \in DOMAIN tty : \A i \in 1 .. Len(tty[k]) - 1 : tty[k][i] \in Tokens
  BY DEF Input, Shape, TypeOK, LinesEnd, TypedTokens
<1>2. /\ line \in Seq(TypedTokens) /\ line = tty[1] /\ 1 \in DOMAIN tty
      /\ Tail(tty) \in Seq(Seq(TypedTokens))
      /\ \A j \in DOMAIN Tail(tty) : j + 1 \in DOMAIN tty /\ Tail(tty)[j] = tty[j + 1]
  BY <1>1, HeadTail
<1>3. /\ line # <<>> /\ \A i \in 1 .. Len(line) - 1 : line[i] \in Tokens
  BY <1>1, <1>2
<1>4. /\ Tail(tty) \in Seq(Seq(TypedTokens))
      /\ \A k \in DOMAIN Tail(tty) : Tail(tty)[k] # <<>>
      /\ \A k \in DOMAIN Tail(tty) :
           \A i \in 1 .. Len(Tail(tty)[k]) - 1 : Tail(tty)[k][i] \in Tokens
  BY <1>1, <1>2
<1>5. /\ s = SubSeq(line, 1, Kept(line)) /\ rest = SubSeq(line, BUFSIZE + 1, Len(line))
      /\ tty' = IF rest = <<>> THEN Tail(tty) ELSE <<rest>> \o Tail(tty)
      /\ taken' = IF rest = <<>> THEN taken \o SubSeq(line, 1, Len(line) - 1)
                                  ELSE taken \o SubSeq(line, 1, BUFSIZE)
      /\ buffer' = s /\ Strcat(s)
      /\ odd' = IF rest = <<>> THEN odd ELSE odd \union {"long"}
      /\ pc = "input"
      /\ UNCHANGED <<run, receiveing, upload, failed, eof, typed, toServer, netVars, wire,
                     files>>
  BY DEF Input
<1> HIDE DEF line, s, rest
<1>6. /\ rest \in Seq(TypedTokens) /\ (rest = <<>> <=> Len(line) <= BUFSIZE)
      /\ \A i \in 1 .. Len(rest) - 1 : rest[i] \in Tokens
  BY <1>2, <1>3, <1>5, LineRest
<1>7. BUFSIZE \in Nat \ {0} /\ Len(line) \in Nat \ {0}
  BY <1>2, <1>3, ClientAssumption
<1>8. s \in Seq(Tokens)
  <2>1. Kept(line) \in 0 .. Len(line) - 1
    BY <1>7 DEF Kept
  <2> QED BY <1>2, <1>3, <1>5, <2>1, LinePart
<1>9. taken' \in Seq(Tokens)
  <2>1. taken \in Seq(Tokens)
    BY DEF Shape, TypeOK
  <2>2. CASE rest = <<>>
    <3>1. Len(line) - 1 \in 0 .. Len(line) - 1
      BY <1>7
    <3>2. SubSeq(line, 1, Len(line) - 1) \in Seq(Tokens)
      BY <1>2, <1>3, <3>1, LinePart
    <3> QED BY <1>5, <2>1, <2>2, <3>2, Joined
  <2>3. CASE rest # <<>>
    <3>1. BUFSIZE \in 0 .. Len(line) - 1
      BY <1>6, <1>7, <2>3
    <3>2. SubSeq(line, 1, BUFSIZE) \in Seq(Tokens)
      BY <1>2, <1>3, <3>1, LinePart
    <3> QED BY <1>5, <2>1, <2>3, <3>2, Joined
  <2> QED BY <2>2, <2>3
<1>10. /\ tty' \in Seq(Seq(TypedTokens)) /\ \A k \in DOMAIN tty' : tty'[k] # <<>>
       /\ \A k \in DOMAIN tty' : \A i \in 1 .. Len(tty'[k]) - 1 : tty'[k][i] \in Tokens
  <2>1. CASE rest = <<>>
    BY <1>4, <1>5, <2>1
  <2>2. CASE rest # <<>>
    <3>1. /\ <<rest>> \in Seq(Seq(TypedTokens)) /\ Len(<<rest>>) = 1 /\ <<rest>>[1] = rest
      BY <1>6
    <3>2. /\ <<rest>> \o Tail(tty) \in Seq(Seq(TypedTokens))
          /\ Len(<<rest>> \o Tail(tty)) = 1 + Len(Tail(tty)) /\ Len(Tail(tty)) \in Nat
          /\ \A k \in 1 .. 1 : (<<rest>> \o Tail(tty))[k] = <<rest>>[k]
          /\ \A k \in 1 .. Len(Tail(tty)) : (<<rest>> \o Tail(tty))[1 + k] = Tail(tty)[k]
      BY <1>4, <3>1, Joined
    <3>3. tty' = <<rest>> \o Tail(tty)
      BY <1>5, <2>2
    <3>4. /\ DOMAIN tty' = 1 .. 1 + Len(Tail(tty)) /\ tty'[1] = rest
          /\ DOMAIN Tail(tty) = 1 .. Len(Tail(tty))
      BY <1>4, <3>1, <3>2, <3>3
    <3>5. ASSUME NEW k \in DOMAIN tty'
          PROVE  tty'[k] = rest \/ \E j \in DOMAIN Tail(tty) : tty'[k] = Tail(tty)[j]
      <4>1. CASE k = 1
        BY <3>4, <4>1
      <4>2. CASE k # 1
        <5>1. k - 1 \in 1 .. Len(Tail(tty)) /\ 1 + (k - 1) = k
          BY <3>2, <3>4, <4>2
        <5> QED BY <3>2, <3>3, <3>4, <5>1
      <4> QED BY <4>1, <4>2
    <3> QED BY <1>4, <1>6, <2>2, <3>2, <3>3, <3>5
  <2> QED BY <2>1, <2>2
<1>11. /\ wBuffer' \in Seq(Tokens) /\ Len(wBuffer') < WBUF /\ pc' \in {"output", "overrun"}
  BY <1>5, <1>8, StrcatTypes
<1>12. odd' \subseteq {"long", "cut", "eof"} /\ upload = <<>>
  BY <1>5 DEF Shape, TypeOK, UploadEnds
<1>13. /\ TypeOK /\ UploadEnds
  BY DEF Shape
<1>14. TypeOK'
  BY <1>5, <1>8, <1>9, <1>10, <1>11, <1>12, <1>13
     DEF TypeOK, netVars, TypedTokens, Down
<1>15. LinesEnd' /\ UploadEnds'
  BY <1>5, <1>10, <1>11, <1>12, <1>13 DEF LinesEnd, UploadEnds
<1> QED BY <1>14, <1>15 DEF Shape

LEMMA ShapeInputEof ==
  ASSUME Shape, InputEof
  PROVE  Shape'
<1>1. buffer \in Seq(Tokens) /\ Strcat(buffer)
  BY DEF InputEof, Shape, TypeOK
<1>2. /\ wBuffer' \in Seq(Tokens) /\ Len(wBuffer') < WBUF /\ pc' \in {"output", "overrun"}
  BY <1>1, StrcatTypes
<1> QED BY <1>2 DEF InputEof, Shape, TypeOK, LinesEnd, UploadEnds, ttyVars, netVars, Down

\* Only while there is room, or nobody reads, is something given to write().
LEMMA RoomTypes ==
  ASSUME Shape, Post \/ UNCHANGED toServer
  PROVE  toServer' \in 0 .. SNDBUF
BY ClientAssumption DEF Shape, TypeOK, Post, Room

\* What one write() of wBuffer leaves behind.
LEMMA Written ==
  ASSUME Shape, NEW n \in 0 .. Len(wBuffer), Output(n)
  PROVE  /\ wBuffer \in Seq(Tokens) /\ Len(wBuffer) \in Nat /\ n \in Nat
         /\ SubSeq(wBuffer, 1, n) \in Seq(Tokens)
         /\ wire' \in Seq(Tokens) /\ Len(wire) <= Len(wire')
         /\ wire' = wire \/ wire' = wire \o SubSeq(wBuffer, 1, n)
         /\ wBuffer' \in Seq(Tokens) /\ Len(wBuffer') < WBUF
         /\ upload' \in {<<>>, <<"head", "body", "tail">>, <<"head", "tail">>}
         /\ odd \subseteq odd' /\ odd' \subseteq odd \union {"cut"}
         /\ pc = "output" /\ upload = <<>>
<1>1. /\ wBuffer \in Seq(Tokens) /\ Len(wBuffer) < WBUF /\ wire \in Seq(Tokens)
      /\ WBUF \in Nat /\ pc = "output" /\ upload = <<>>
  BY ClientAssumption DEF Shape, TypeOK, UploadEnds, Output
<1>2. Len(wBuffer) \in Nat /\ n \in Nat /\ 1 \in Nat \ {0} /\ Len(wire) \in Nat
  BY <1>1
<1>3. SubSeq(wBuffer, 1, n) \in Seq(Tokens)
  BY <1>1, <1>2, Piece
<1>4. /\ wire \o SubSeq(wBuffer, 1, n) \in Seq(Tokens)
      /\ Len(wire) <= Len(wire \o SubSeq(wBuffer, 1, n))
  BY <1>1, <1>3, Joined
<1>5. wire' = wire \/ wire' = wire \o SubSeq(wBuffer, 1, n)
  BY DEF Output
<1>6. wBuffer' \in Seq(Tokens) /\ Len(wBuffer') < WBUF
  <2>1. PICK ran \in BOOLEAN : wBuffer' = Left(wBuffer, n, ran)
    BY DEF Output
  <2>2. Left(wBuffer, n, ran) \in Seq(Tokens) /\ Len(Left(wBuffer, n, ran)) <= Len(wBuffer)
    BY <1>1, LeftIs
  <2>3. Len(Left(wBuffer, n, ran)) \in Nat
    BY <2>2
  <2> QED BY <1>1, <1>2, <2>1, <2>2, <2>3
<1>7. upload' \in {<<>>, <<"head", "body", "tail">>, <<"head", "tail">>}
  BY <1>1 DEF Output
<1>8. odd \subseteq odd' /\ odd' \subseteq odd \union {"cut"}
  BY DEF Output
<1>9. wire' \in Seq(Tokens) /\ Len(wire) <= Len(wire')
  <2>1. CASE wire' = wire
    BY <1>1, <1>2, <2>1
  <2>2. CASE wire' = wire \o SubSeq(wBuffer, 1, n)
    BY <1>4, <2>2, Zenon
  <2> QED BY <1>5, <2>1, <2>2
<1> QED BY <1>1, <1>2, <1>3, <1>5, <1>6, <1>7, <1>8, <1>9

\* The texts _sendFile() writes.
LEMMA FileTexts ==
  /\ <<"head", "body", "tail">> \in Seq(FileParts) /\ <<"head", "tail">> \in Seq(FileParts)
  /\ <<>> \in Seq(FileParts)
<1>1. "head" \in FileParts /\ "body" \in FileParts /\ "tail" \in FileParts
  BY DEF FileParts
<1>2. <<"head", "body", "tail">> \in Seq(FileParts)
  BY <1>1
<1>3. <<"head", "tail">> \in Seq(FileParts)
  BY <1>1
<1> QED BY <1>2, <1>3

LEMMA ShapeOutput ==
  ASSUME Shape, NEW n \in 0 .. Len(wBuffer), Output(n)
  PROVE  Shape'
<1>1. /\ wire' \in Seq(Tokens) /\ wBuffer' \in Seq(Tokens) /\ Len(wBuffer') < WBUF
      /\ upload' \in {<<>>, <<"head", "body", "tail">>, <<"head", "tail">>}
      /\ odd' \subseteq odd \union {"cut"}
  BY Written
<1>2. toServer' \in 0 .. SNDBUF
  <2>1. Post \/ UNCHANGED toServer
    BY DEF Output
  <2> QED BY <2>1, RoomTypes
<1>3. upload' \in Seq(FileParts)
  BY <1>1, FileTexts
<1>4. /\ pc' \in {"exited", "upload", "check"}
      /\ pc' = "upload" => upload' # <<>>
      /\ pc' = "check" => upload' = <<>>
  BY DEF Output
<1>5. UNCHANGED <<run, buffer, receiveing, failed, ttyVars, netVars, taken, files>>
  BY DEF Output
<1>6. TypeOK'
  BY <1>1, <1>2, <1>3, <1>4, <1>5 DEF Shape, TypeOK, ttyVars, netVars, Down
<1>7. LinesEnd' /\ UploadEnds'
  BY <1>1, <1>4, <1>5 DEF Shape, LinesEnd, UploadEnds, ttyVars
<1> QED BY <1>6, <1>7 DEF Shape

\* What is left to upload after one write().
LEMMA UploadRest ==
  ASSUME Shape, Upload
  PROVE  /\ upload # <<>> /\ upload' \in Seq(FileParts)
         /\ upload' \in {<<"body", "tail">>, <<"tail">>, <<>>}
<1>1. /\ upload \in {<<"head", "body", "tail">>, <<"head", "tail">>, <<"body", "tail">>,
                    <<"tail">>, <<>>}
      /\ upload # <<>> /\ upload \in Seq(FileParts) /\ upload' = Tail(upload)
  BY DEF Shape, TypeOK, UploadEnds, Upload
<1>2. upload' \in {<<"body", "tail">>, <<"tail">>, <<>>}
  <2>1. CASE upload = <<"head", "body", "tail">>
    <3>1. Tail(upload) = <<"body", "tail">>
      BY <2>1
    <3> QED BY <1>1, <3>1
  <2>2. CASE upload = <<"head", "tail">>
    <3>1. Tail(upload) = <<"tail">>
      BY <2>2
    <3> QED BY <1>1, <3>1
  <2>3. CASE upload = <<"body", "tail">>
    <3>1. Tail(upload) = <<"tail">>
      BY <2>3
    <3> QED BY <1>1, <3>1
  <2>4. CASE upload = <<"tail">>
    <3>1. Tail(upload) = <<>>
      BY <2>4
    <3> QED BY <1>1, <3>1
  <2> QED BY <1>1, <2>1, <2>2, <2>3, <2>4
<1> QED BY <1>1, <1>2, HeadTail

LEMMA ShapeUpload ==
  ASSUME Shape, Upload
  PROVE  Shape'
<1>1. /\ upload' \in Seq(FileParts) /\ upload' \in {<<"body", "tail">>, <<"tail">>, <<>>}
  BY UploadRest
<1>2. toServer' \in 0 .. SNDBUF
  BY RoomTypes DEF Upload
<1>3. files' \in Seq(Nat)
  <2>1. files \in Seq(Nat) /\ Len(wire) \in Nat
    BY DEF Shape, TypeOK
  <2>2. Append(files, Len(wire)) \in Seq(Nat)
    BY <2>1, Appended
  <2> QED BY <2>1, <2>2 DEF Upload
<1>4. /\ pc' = IF upload' = <<>> THEN "check" ELSE "upload"
      /\ UNCHANGED <<run, wBuffer, buffer, receiveing, failed, ttyVars, netVars, taken, wire,
                     odd>>
  BY DEF Upload
<1>5. TypeOK'
  BY <1>1, <1>2, <1>3, <1>4 DEF Shape, TypeOK, ttyVars, netVars
<1>6. LinesEnd' /\ UploadEnds'
  BY <1>1, <1>4 DEF Shape, LinesEnd, UploadEnds, ttyVars
<1> QED BY <1>5, <1>6 DEF Shape
-----------------------------------------------------------------------------
(* Lines go out as they were typed.                                        *)

LEMMA LinesInput ==
  ASSUME Shape, LinesExact, Input
  PROVE  LinesExact'
<1> DEFINE line == Head(tty)
           s    == SubSeq(line, 1, Kept(line))
           rest == SubSeq(line, BUFSIZE + 1, Len(line))
<1>1. SUFFICES ASSUME odd' = {}, pc' # "overrun"
               PROVE  \E g \in Garbage : wire' \o wBuffer' = g \o taken'
  BY DEF LinesExact
<1>2. /\ odd' = IF rest = <<>> THEN odd ELSE odd \union {"long"}
      /\ taken' = IF rest = <<>> THEN taken \o SubSeq(line, 1, Len(line) - 1)
                                 ELSE taken \o SubSeq(line, 1, BUFSIZE)
      /\ Strcat(s) /\ wire' = wire /\ pc = "input"
  BY DEF Input
<1>3. /\ line \in Seq(TypedTokens) /\ line # <<>>
      /\ \A i \in 1 .. Len(line) - 1 : line[i] \in Tokens
  <2>1. /\ tty \in Seq(Seq(TypedTokens)) /\ tty # <<>>
        /\ \A k \in DOMAIN tty : tty[k] # <<>>
        /\ \A k \in DOMAIN tty : \A i \in 1 .. Len(tty[k]) - 1 : tty[k][i] \in Tokens
    BY DEF Input, Shape, TypeOK, LinesEnd, TypedTokens
  <2>2. line \in Seq(TypedTokens) /\ line = tty[1] /\ 1 \in DOMAIN tty
    BY <2>1, HeadTail
  <2> QED BY <2>1, <2>2
<1>4. rest = <<>> /\ odd = {}
  BY <1>1, <1>2
<1>5. s = SubSeq(line, 1, Len(line) - 1) /\ s \in Seq(Tokens)
  <2>1. Len(line) <= BUFSIZE
    BY <1>3, <1>4, LineRest
  <2>2. /\ BUFSIZE \in Nat /\ Len(line) \in Nat \ {0}
        /\ Kept(line) = Len(line) - 1 /\ Len(line) - 1 \in 0 .. Len(line) - 1
    BY <1>3, <2>1, ClientAssumption DEF Kept
  <2> QED BY <1>3, <2>2, LinePart
<1> HIDE DEF line, s, rest
<1>6. wBuffer' = wBuffer \o s /\ taken' = taken \o s
  BY <1>1, <1>2, <1>4, <1>5 DEF Strcat
<1>7. PICK g \in Garbage : wire \o wBuffer = g \o taken
  BY <1>2, <1>4 DEF LinesExact
<1>8. /\ wire \in Seq(Tokens) /\ wBuffer \in Seq(Tokens) /\ taken \in Seq(Tokens)
      /\ g \in Seq(Tokens)
  <2>1. g \in Seq({"junk"})
    BY ClientAssumption
  <2>2. g \in Seq(Tokens)
    BY <2>1 DEF Tokens
  <2> QED BY <2>2 DEF Shape, TypeOK
<1>9. wire \o (wBuffer \o s) = g \o (taken \o s)
  <2>0. \A a, b, c \in Seq(Tokens) : (a \o b) \o c = a \o (b \o c)
    BY Together
  <2>1. (wire \o wBuffer) \o s = wire \o (wBuffer \o s)
    BY <1>5, <1>8, <2>0, Zenon
  <2>2. (g \o taken) \o s = g \o (taken \o s)
    BY <1>5, <1>8, <2>0, Zenon
  <2> QED BY <1>7, <2>1, <2>2
<1> QED BY <1>2, <1>6, <1>9

LEMMA LinesOutput ==
  ASSUME Shape, LinesExact, NEW n \in 0 .. Len(wBuffer), Output(n)
  PROVE  LinesExact'
<1> DEFINE ran == run = "client_run_cmd" /\ IsCommand(wBuffer)
           part == SubSeq(wBuffer, 1, n)
           rest == SubSeq(wBuffer, n + 1, Len(wBuffer))
<1>1. SUFFICES ASSUME odd' = {}
               PROVE  \E g \in Garbage : wire' \o wBuffer' = g \o taken'
  BY DEF LinesExact
<1>2. /\ wire' = IF "eof" \in odd THEN wire ELSE wire \o part
      /\ wBuffer' = Left(wBuffer, n, ran) /\ ran \in BOOLEAN
      /\ odd' = IF ran /\ n < Len(wBuffer) THEN odd \union {"cut"} ELSE odd
      /\ pc = "output" /\ taken' = taken
  BY DEF Output
<1>3. /\ wBuffer \in Seq(Tokens) /\ wire \in Seq(Tokens) /\ Len(wBuffer) \in Nat
      /\ part \in Seq(Tokens) /\ n \in Nat
  BY Written DEF Shape, TypeOK
<1>4. odd = {} /\ (ran => n = Len(wBuffer))
  <2>1. ran => ~(n < Len(wBuffer))
    BY <1>1, <1>2
  <2>2. odd = {}
    BY <1>1, <1>2
  <2> HIDE DEF ran
  <2> QED BY <1>3, <2>1, <2>2
<1>5. wire' = wire \o part
  BY <1>2, <1>4
<1>6. part \o rest = wBuffer /\ rest \in Seq(Tokens)
  <2>1. /\ 1 \in Nat \ {0} /\ Len(wBuffer) \in 0 .. Len(wBuffer) /\ 1 <= n + 1
        /\ n <= Len(wBuffer) /\ n + 1 \in Nat \ {0}
    BY <1>3
  <2>2. part \o rest = SubSeq(wBuffer, 1, Len(wBuffer))
    BY <1>3, <2>1, Adjacent
  <2> QED BY <1>3, <2>1, <2>2, AllOfIt, Piece
<1>7. wBuffer' = rest
  <2>1. CASE ran
    <3>1. n = Len(wBuffer) /\ wBuffer' = <<>>
      BY <1>2, <1>3, <1>4, <2>1, LeftIs
    <3>2. Len(rest) = 0
      BY <1>3, <3>1
    <3> QED BY <1>6, <3>1, <3>2
  <2>2. CASE ~ran
    BY <1>2, <1>3, <2>2, LeftIs
  <2> QED BY <2>1, <2>2
<1> HIDE DEF part, rest
<1>8. (wire \o part) \o rest = wire \o (part \o rest)
  <2>1. \A a, b, c \in Seq(Tokens) : (a \o b) \o c = a \o (b \o c)
    BY Together
  <2> QED BY <1>3, <1>6, <2>1, Zenon
<1>9. PICK g \in Garbage : wire \o wBuffer = g \o taken
  BY <1>2, <1>4 DEF LinesExact
<1> QED BY <1>2, <1>5, <1>6, <1>7, <1>8, <1>9

\* The other actions leave the texts alone, and none starts from an overrun wBuffer.
LEMMA LinesSame ==
  ASSUME LinesExact, pc # "overrun",
         UNCHANGED <<wBuffer, wire, taken, odd>>
  PROVE  LinesExact'
BY DEF LinesExact
-----------------------------------------------------------------------------
(* A file follows its command.                                             *)

\* A line found in wire stays where it is when more is written.
LEMMA PutLineStays ==
  ASSUME Shape, NEW j, NEW p \in Nat, NEW n \in Nat, PutLine(wire, files, j, p, n),
         NEW more \in Seq(Tokens), wire' = wire \/ wire' = wire \o more,
         \A i \in 1 .. n : files'[i] = files[i]
  PROVE  PutLine(wire', files', j, p, n)
<1>1. wire \in Seq(Tokens) /\ j \in 1 .. p /\ p <= Len(wire) /\ Len(wire) \in Nat
  BY DEF Shape, TypeOK, PutLine
<1>2. /\ wire' \in Seq(Tokens) /\ Len(wire) <= Len(wire') /\ Len(wire') \in Nat
      /\ \A k \in 1 .. Len(wire) : wire'[k] = wire[k]
  <2>1. CASE wire' = wire
    BY <1>1, <2>1
  <2>2. CASE wire' = wire \o more
    <3>1. /\ wire \o more \in Seq(Tokens) /\ Len(more) \in Nat
          /\ Len(wire \o more) = Len(wire) + Len(more)
          /\ \A k \in 1 .. Len(wire) : (wire \o more)[k] = wire[k]
      BY <1>1, Joined
    <3> HIDE DEF PutLine
    <3>2. Len(wire) <= Len(wire) + Len(more) /\ Len(wire) + Len(more) \in Nat
      BY <1>1, <3>1
    <3> QED BY <2>2, <3>1, <3>2
  <2> QED BY <2>1, <2>2
<1>3. SubSeq(wire', j, p) = SubSeq(wire, j, p)
  <2> DEFINE x == SubSeq(wire, j, p)
             y == SubSeq(wire', j, p)
  <2>1. j \in Nat \ {0} /\ p \in 0 .. Len(wire) /\ p \in 0 .. Len(wire')
    BY <1>1, <1>2
  <2>2. /\ x \in Seq(Tokens) /\ Len(x) = IF j <= p THEN p - j + 1 ELSE 0
        /\ \A k \in 1 .. Len(x) : x[k] = wire[j + k - 1]
    BY <1>1, <2>1, Piece
  <2>3. /\ y \in Seq(Tokens) /\ Len(y) = IF j <= p THEN p - j + 1 ELSE 0
        /\ \A k \in 1 .. Len(y) : y[k] = wire'[j + k - 1]
    BY <1>2, <2>1, Piece
  <2> HIDE DEF x, y
  <2>4. ASSUME NEW k \in 1 .. Len(x) PROVE x[k] = y[k]
    <3>1. j + k - 1 \in 1 .. Len(wire) /\ k \in 1 .. Len(y)
      BY <1>1, <2>1, <2>2, <2>3
    <3> QED BY <1>2, <2>2, <2>3, <3>1
  <2>5. x = y
    BY <2>2, <2>3, <2>4, SeqEqual
  <2> QED BY <2>5 DEF x, y
<1>4. \A i \in 1 .. n : files'[i] < j
  BY DEF PutLine
<1>5. p <= Len(wire')
  BY <1>1, <1>2
<1> QED BY <1>1, <1>3, <1>4, <1>5 DEF PutLine

\* Nothing is sent and no file begun.
LEMMA FollowedSame ==
  ASSUME Followed, UNCHANGED <<wire, files, upload>>,
         odd' \in {odd, odd \union {"long"}, odd \union {"eof"}}
  PROVE  Followed'
<1>1. /\ "cut" \in odd => "cut" \in odd'
      /\ "eof" \notin odd' => "eof" \notin odd
      /\ "cut" \notin odd' => "cut" \notin odd
  OBVIOUS
<1> QED BY <1>1 DEF Followed

LEMMA FollowedOutput ==
  ASSUME Shape, Followed, NEW n \in 0 .. Len(wBuffer), Output(n)
  PROVE  Followed'
<1> DEFINE ran == run = "client_run_cmd" /\ IsCommand(wBuffer)
           part == SubSeq(wBuffer, 1, n)
<1>1. /\ wBuffer \in Seq(Tokens) /\ Len(wBuffer) \in Nat /\ n \in Nat
      /\ part \in Seq(Tokens) /\ wire' \in Seq(Tokens) /\ Len(wire) <= Len(wire')
      /\ wire' = wire \/ wire' = wire \o part
      /\ odd \subseteq odd' /\ odd' \subseteq odd \union {"cut"} /\ upload = <<>>
  BY Written
<1>2. /\ files' = files /\ wire \in Seq(Tokens) /\ files \in Seq(Nat)
      /\ Len(wire) \in Nat /\ Len(wire') \in Nat /\ Len(files) \in Nat
  BY <1>1 DEF Output, Shape, TypeOK
<1> HIDE DEF part
<1>3. \A k \in DOMAIN files' : files'[k] <= Len(wire')
  <2>1. ASSUME NEW k \in DOMAIN files PROVE files[k] <= Len(wire')
    <3>1. files[k] \in Nat /\ files[k] <= Len(wire)
      BY <1>2 DEF Followed
    <3> QED BY <1>1, <1>2, <3>1
  <2> QED BY <1>2, <2>1
<1>4. ASSUME "cut" \notin odd', NEW k \in DOMAIN files'
      PROVE  \E j \in 1 .. files'[k] : PutLine(wire', files', j, files'[k], k - 1)
  <2>1. /\ k \in DOMAIN files /\ "cut" \notin odd /\ k \in 1 .. Len(files)
        /\ files[k] \in Nat /\ k - 1 \in Nat
    BY <1>1, <1>2, <1>4
  <2>2. PICK j \in 1 .. files[k] : PutLine(wire, files, j, files[k], k - 1)
    BY <2>1 DEF Followed
  <2>3. PICK p \in Nat, m \in Nat : p = files[k] /\ m = k - 1
    BY <2>1
  <2>4. PutLine(wire, files, j, p, m) /\ \A i \in 1 .. m : files'[i] = files[i]
    BY <1>2, <2>2, <2>3
  <2>5. PutLine(wire', files', j, p, m)
    BY <1>1, <2>4, PutLineStays
  <2>6. j \in 1 .. p /\ p = files'[k]
    BY <1>2, <2>2, <2>3
  <2> QED BY <2>3, <2>5, <2>6
<1>5. ASSUME "cut" \notin odd', upload' # <<>>, Head(upload') = "head", "eof" \notin odd'
      PROVE  \E j \in 1 .. Len(wire') : PutLine(wire', files', j, Len(wire'), Len(files'))
  <2>1. ran /\ IsPut(wBuffer) /\ "eof" \notin odd
    BY <1>1, <1>5 DEF Output
  <2>2. n = Len(wBuffer)
    <3>1. ~(n < Len(wBuffer))
      BY <1>5, <2>1 DEF Output
    <3> QED BY <1>1, <3>1
  <2>3. wire' = wire \o wBuffer
    <3>1. wire' = wire \o part
      BY <2>1 DEF Output, part
    <3> QED BY <1>1, <2>2, <3>1, AllOfIt DEF part
  <2>4. wBuffer # <<>> /\ wBuffer[1] = "$put" /\ Cardinality(WordStarts(wBuffer)) >= 3
    <3>1. wBuffer # <<>> /\ Head(wBuffer) = "$put" /\ Cardinality(WordStarts(wBuffer)) >= 3
      BY <2>1 DEF IsCommand, IsPut, Is
    <3> QED BY <1>1, <3>1
  <2>5. PICK j \in Nat : j = Len(wire) + 1
    BY <1>2
  <2>6. /\ Len(wire') = Len(wire) + Len(wBuffer) /\ Len(wBuffer) \in Nat \ {0}
        /\ \A k \in 1 .. Len(wBuffer) : wire'[Len(wire) + k] = wBuffer[k]
    BY <1>1, <1>2, <2>3, <2>4, Joined
  <2>7. SubSeq(wire', j, Len(wire')) = wBuffer
    <3> DEFINE y == SubSeq(wire', j, Len(wire'))
    <3>1. j \in Nat \ {0} /\ Len(wire') \in 0 .. Len(wire')
      BY <1>2, <2>5
    <3>2. /\ y \in Seq(Tokens)
          /\ Len(y) = IF j <= Len(wire') THEN Len(wire') - j + 1 ELSE 0
          /\ \A k \in 1 .. Len(y) : y[k] = wire'[j + k - 1]
      BY <1>1, <3>1, Piece
    <3> HIDE DEF y
    <3>3. Len(y) = Len(wBuffer)
      BY <1>2, <2>5, <2>6, <3>2
    <3>4. ASSUME NEW k \in 1 .. Len(y) PROVE y[k] = wBuffer[k]
      <4>1. j + k - 1 = Len(wire) + k /\ k \in 1 .. Len(wBuffer)
        BY <1>2, <2>5, <3>3
      <4> QED BY <2>6, <3>2, <4>1
    <3>5. y = wBuffer
      BY <1>1, <3>2, <3>3, <3>4, SeqEqual
    <3> QED BY <3>5 DEF y
  <2>8. j \in 1 .. Len(wire')
    BY <1>2, <2>5, <2>6
  <2>9. \A i \in 1 .. Len(files') : files'[i] < j
    <3>1. ASSUME NEW i \in 1 .. Len(files) PROVE files[i] < j
      <4>1. i \in DOMAIN files /\ files[i] \in Nat
        BY <1>2
      <4>2. files[i] <= Len(wire)
        BY <4>1 DEF Followed
      <4> QED BY <1>2, <2>5, <4>1, <4>2
    <3> QED BY <1>2, <3>1
  <2>10. PutLine(wire', files', j, Len(wire'), Len(files'))
    <3>1. Len(wire') <= Len(wire')
      BY <1>2
    <3> QED BY <2>4, <2>7, <2>8, <2>9, <3>1 DEF PutLine
  <2> QED BY <2>8, <2>10
<1> QED BY <1>3, <1>4, <1>5 DEF Followed

\* A file begins after the line that wire ends with.
LEMMA FollowedUpload ==
  ASSUME Shape, Followed, Upload
  PROVE  Followed'
<1>0. upload # <<>> /\ upload' \in {<<"body", "tail">>, <<"tail">>, <<>>}
  BY UploadRest
<1>1. /\ wire' = wire /\ odd' = odd /\ wire \in Seq(Tokens) /\ files \in Seq(Nat)
      /\ Len(wire) \in Nat /\ Len(files) \in Nat
  <2>1. wire \in Seq(Tokens) /\ files \in Seq(Nat)
    BY DEF Shape, TypeOK
  <2>2. wire' = wire /\ odd' = odd
    BY DEF Upload
  <2> QED BY <2>1, <2>2
<1>2. ~(upload' # <<>> /\ Head(upload') = "head")
  BY <1>0
<1>3. CASE ~(Head(upload) = "head" /\ "eof" \notin odd)
  <2>1. files' = files
    BY <1>3 DEF Upload
  <2> QED BY <1>1, <1>2, <2>1 DEF Followed
<1>4. CASE Head(upload) = "head" /\ "eof" \notin odd
  <2>1. files' = Append(files, Len(wire))
    BY <1>4 DEF Upload
  <2>2. /\ files' \in Seq(Nat) /\ Len(files') = Len(files) + 1
        /\ files'[Len(files) + 1] = Len(wire)
        /\ \A i \in 1 .. Len(files) : files'[i] = files[i]
    BY <1>1, <2>1
  <2>3. DOMAIN files = 1 .. Len(files) /\ DOMAIN files' = 1 .. Len(files')
    BY <1>1, <2>2
  <2>4. \A k \in DOMAIN files' : k \in DOMAIN files \/ k = Len(files) + 1
    BY <1>1, <2>2, <2>3
  <2>5. \A k \in DOMAIN files' : files'[k] <= Len(wire')
    <3>1. \A k \in DOMAIN files : files'[k] <= Len(wire)
      BY <2>2, <2>3 DEF Followed
    <3> QED BY <1>1, <2>2, <2>4, <3>1
  <2>6. <<>> \in Seq(Tokens)
    OBVIOUS
  <2>7. ASSUME "cut" \notin odd', NEW k \in DOMAIN files'
        PROVE  \E j \in 1 .. files'[k] : PutLine(wire', files', j, files'[k], k - 1)
    <3>1. PICK p \in Nat, m \in Nat : p = files'[k] /\ m = k - 1
      BY <2>2, <2>3
    <3>2. \E j \in 1 .. p : PutLine(wire, files, j, p, m)
      <4>1. CASE k \in DOMAIN files
        <5>1. files[k] = p
          BY <2>2, <2>3, <3>1, <4>1
        <5> QED BY <1>1, <2>7, <3>1, <4>1, <5>1 DEF Followed
      <4>2. CASE k = Len(files) + 1
        <5>1. p = Len(wire) /\ m = Len(files)
          BY <1>1, <2>2, <3>1, <4>2
        <5> QED BY <1>0, <1>1, <1>4, <2>7, <5>1 DEF Followed
      <4> QED BY <2>4, <4>1, <4>2
    <3>3. PICK j \in 1 .. p : PutLine(wire, files, j, p, m)
      BY <3>2
    <3>4. \A i \in 1 .. m : files'[i] = files[i]
      <4>1. m <= Len(files)
        BY <1>1, <2>2, <2>3, <3>1
      <4> QED BY <1>1, <2>2, <4>1
    <3>5. PutLine(wire', files', j, p, m)
      BY <1>1, <2>6, <3>3, <3>4, PutLineStays
    <3> QED BY <3>1, <3>5
  <2> QED BY <1>2, <2>5, <2>7 DEF Followed
<1> QED BY <1>3, <1>4
-----------------------------------------------------------------------------
(* The theorems.                                                           *)

LEMMA CmdInvInit == Init => CmdInv
<1> SUFFICES ASSUME Init PROVE CmdInv
  OBVIOUS
<1>1. wBuffer \in Seq(Tokens) /\ Len(wBuffer) < WBUF /\ buffer \in Seq(Tokens)
  <2>1. Seq({"junk"}) \subseteq Seq(Tokens)
    BY DEF Tokens
  <2> QED BY <2>1, ClientAssumption DEF Init
<1>2. /\ <<>> \in Seq(FileParts) /\ <<>> \in Seq(Seq(Tokens \union {"nl"}))
      /\ <<>> \in Seq(Messages) /\ <<>> \in Seq(Tokens) /\ <<>> \in Seq(Nat)
      /\ Len(<<>>) = 0 /\ DOMAIN <<>> = {}
  OBVIOUS
<1>3. TypeOK
  <2>1. SNDBUF \in Nat /\ MaxLines \in Nat /\ MaxReplies \in Nat
    BY ClientAssumption
  <2>2. /\ run \in {"client_run", "client_run_cmd"} /\ pc \in {"recv"}
        /\ receiveing \in BOOLEAN /\ failed \in BOOLEAN /\ eof \in BOOLEAN
        /\ upload \in Seq(FileParts) /\ pc # "upload" /\ link = "open"
        /\ tty \in Seq(Seq(Tokens \union {"nl"})) /\ \A k \in DOMAIN tty : tty[k] # <<>>
    BY <1>2 DEF Init
  <2>3. /\ typed \in 0 .. MaxLines /\ toServer \in 0 .. SNDBUF /\ replies \in 0 .. MaxReplies
        /\ toClient \in Seq(Messages) /\ Len(toClient) <= SNDBUF /\ out \in Seq(Messages)
        /\ taken \in Seq(Tokens) /\ wire \in Seq(Tokens) /\ files \in Seq(Nat)
        /\ odd \subseteq {"long", "cut", "eof"}
    BY <1>2, <2>1 DEF Init
  <2> QED BY <1>1, <2>2, <2>3 DEF TypeOK
<1>4. LinesEnd /\ UploadEnds
  BY <1>2 DEF Init, LinesEnd, UploadEnds
<1>5. LinesExact
  <2>1. <<>> \o wBuffer = wBuffer /\ wBuffer \o <<>> = wBuffer
    BY <1>1, ConcatEmptySeq
  <2> QED BY <2>1 DEF Init, LinesExact
<1>6. Followed
  BY <1>2 DEF Init, Followed
<1> QED BY <1>3, <1>4, <1>5, <1>6 DEF CmdInv

LEMMA CmdInvNext == CmdInv /\ [Next]_vars => CmdInv'
<1> SUFFICES ASSUME Shape, LinesExact, Followed, [Next]_vars
             PROVE  Shape' /\ LinesExact' /\ Followed'
  BY DEF CmdInv, Shape
<1>1. CASE Input
  <2>1. UNCHANGED <<wire, files, upload>> /\ odd' \in {odd, odd \union {"long"}}
    BY <1>1 DEF Input
  <2> QED BY <1>1, <2>1, ShapeInput, LinesInput, FollowedSame
<1>2. CASE InputEof
  <2>1. UNCHANGED <<wire, files, upload>> /\ odd' = odd \union {"eof"}
    BY <1>2 DEF InputEof
  <2>2. LinesExact'
    BY <2>1 DEF LinesExact
  <2> QED BY <1>2, <2>1, <2>2, ShapeInputEof, FollowedSame
<1>3. CASE OutputSome
  <2>1. PICK n \in 0 .. Len(wBuffer) : Output(n)
    BY <1>3 DEF OutputSome
  <2> QED BY <2>1, ShapeOutput, LinesOutput, FollowedOutput
<1>4. CASE Upload
  <2>1. pc # "overrun" /\ UNCHANGED <<wBuffer, wire, taken, odd>>
    BY <1>4 DEF Upload
  <2> QED BY <1>4, <2>1, ShapeUpload, LinesSame, FollowedUpload
<1>5. CASE SelectFails \/ RecvEnd \/ RecvNothing \/ InputFails \/ InputNothing
             \/ OutputNothing \/ OutputFails \/ Check
  <2>1. pc # "overrun"
    BY <1>5 DEF SelectFails, RecvEnd, RecvNothing, InputFails, InputNothing,
               OutputNothing, OutputFails, Check
  <2>2. UNCHANGED <<wBuffer, wire, taken, odd, files, upload>>
    BY <1>5 DEF SelectFails, RecvEnd, RecvNothing, InputFails, InputNothing,
               OutputNothing, OutputFails, Check, histVars
  <2> QED BY <1>5, <2>1, <2>2, ShapeControl, LinesSame, FollowedSame
<1>6. CASE Recv \/ RecvShort \/ ServerRead \/ ServerWrite \/ ServerLeaves \/ CloseTerminal
  <2>1. pc # "overrun" /\ UNCHANGED <<wBuffer, wire, taken, odd, files, upload>>
    BY <1>6 DEF Recv, RecvShort, ServerRead, ServerWrite, ServerLeaves, CloseTerminal, Up, Down, histVars
  <2> QED BY <1>6, <2>1, ShapeServer, LinesSame, FollowedSame
<1>7. CASE Type
  <2>1. pc # "overrun" /\ UNCHANGED <<wBuffer, wire, taken, odd, files, upload>>
    BY <1>7 DEF Type, Up, Down, histVars
  <2> QED BY <1>7, <2>1, ShapeType, LinesSame, FollowedSame
<1>8. CASE UNCHANGED vars
  <2>1. UNCHANGED <<wire, files, upload, odd>>
    BY <1>8 DEF vars, histVars
  <2>2. Shape'
    BY <1>8 DEF vars, histVars, ttyVars, netVars, Shape, TypeOK, LinesEnd, UploadEnds
  <2>3. LinesExact'
    BY <1>8 DEF vars, histVars, LinesExact
  <2> QED BY <2>1, <2>2, <2>3, FollowedSame
<1> QED BY <1>1, <1>2, <1>3, <1>4, <1>5, <1>6, <1>7, <1>8 DEF Next, Client, Failure

THEOREM CmdInvariance == Spec => []CmdInv
<1> QED BY CmdInvInit, CmdInvNext, PTL DEF Spec

\* Every variable of a client stays in its range: wBuffer never holds more than it has
\* room for, the connection no more items than it takes, and _sendFile() is only where
\* there is still something of a file to write.
THEOREM ClientTypes == Spec => []TypeOK
<1>1. CmdInv => TypeOK
  BY DEF CmdInv
<1> QED BY <1>1, CmdInvariance, PTL

\* What went out and what waits in wBuffer is what was typed, after what wBuffer held at
\* the start: client_run() and client_run_cmd() lose, repeat and reorder nothing, however
\* select() answers and however much write() takes.
THEOREM LinesGoOut == Spec => []LinesExact
<1>1. CmdInv => LinesExact
  BY DEF CmdInv
<1> QED BY <1>1, CmdInvariance, PTL

\* command() sends a file only after a complete $put line, and directly after it.
THEOREM FilesFollow == Spec => []FileFollowsCommand
<1>1. CmdInv => FileFollowsCommand
  <2> SUFFICES ASSUME CmdInv, "cut" \notin odd, NEW k \in DOMAIN files
               PROVE  \E j \in 1 .. files[k] :
                        LET line == SubSeq(wire, j, files[k])
                        IN  /\ line[1] = "$put" /\ Cardinality(WordStarts(line)) >= 3
                            /\ \A i \in 1 .. k - 1 : files[i] < j
    BY DEF FileFollowsCommand
  <2>1. PICK j \in 1 .. files[k] : PutLine(wire, files, j, files[k], k - 1)
    BY DEF CmdInv, Followed
  <2> QED BY <2>1 DEF PutLine
<1> QED BY <1>1, CmdInvariance, PTL
=============================================================================
