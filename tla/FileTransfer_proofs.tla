------------------------ MODULE FileTransfer_proofs ------------------------
(***************************************************************************)
(* For every file, every buffer that holds the trailer and every way TCP   *)
(* may cut the stream: a transfer whose chunks all end at harmless places  *)
(* saves the file intact (IntactIfClean).  The inductive invariant says    *)
(* what has been saved after any number of such chunks: the part of the    *)
(* stream between the head and the position of the receiver.               *)
(***************************************************************************)
EXTENDS FileTransfer, SequenceFacts, FiniteSetTheorems, SequenceTheorems, TLAPS

\* Before the head, inside the file, after the trailer.
Waiting == pos <= HeadAt /\ ~receiveing /\ file = "none"
Inside  == /\ BodyAt <= pos /\ pos < EndAt
           /\ receiveing /\ rfilename = FileName /\ file = "open"
           /\ saved = SubSeq(Stream, BodyAt + 1, pos)
Finished == /\ pos = EndAt /\ ~receiveing
            /\ rfilename = FileName /\ file = "closed" /\ reported
            /\ saved = body

CleanSoFar ==
  clean /\ outcome = "ok" => ~asText /\ (Waiting \/ Inside \/ Finished)

LoadOK == outcome = "ok" => load = FileHead \o body

Inv == TypeOK /\ LoadOK /\ CleanSoFar
-----------------------------------------------------------------------------
(* The texts and the stream.                                               *)

LEMMA Literals ==
  /\ Mark \in Seq(Tokens) /\ Len(Mark) = 2
  /\ FileHead \in Seq(Tokens) /\ Len(FileHead) = 5
  /\ FileHead[1] = Mark[1] /\ FileHead[2] = Mark[2]
  /\ FileHead[3] = FileName[1] /\ FileHead[4] = FileName[2] /\ FileHead[5] = Crlf[1]
  /\ Trailer \in Seq(Tokens) /\ Len(Trailer) = 2
  /\ DownFail \in Seq(Tokens) /\ Len(DownFail) = 1
  /\ FileName \in Seq(Tokens) /\ Len(FileName) = 2 /\ Len(Crlf) = 1
  /\ Mark[1] = <<"mark", 1>> /\ Mark[2] = <<"mark", 2>>
  /\ FileName[1] = <<"name", 1>> /\ FileName[2] = <<"name", 2>>
  /\ Crlf[1] = <<"crlf", 1>>
<1>1. /\ <<"mark", 1>> \in Tokens /\ <<"mark", 2>> \in Tokens
      /\ <<"name", 1>> \in Tokens /\ <<"name", 2>> \in Tokens
      /\ <<"crlf", 1>> \in Tokens
      /\ <<"tail", 1>> \in Tokens /\ <<"tail", 2>> \in Tokens
      /\ <<"fail", 1>> \in Tokens
  BY DEF Tokens
<1> QED BY <1>1 DEF Mark, FileName, Crlf, FileHead, Trailer, DownFail

LEMMA TextsAreTokens == Seq(Texts) \subseteq Seq(Tokens)
BY DEF Texts, Tokens

LEMMA StreamType ==
  ASSUME TypeOK
  PROVE  /\ Stream \in Seq(Tokens) /\ pre \in Seq(Tokens) /\ body \in Seq(Tokens)
         /\ pos \in Nat /\ sent \in Nat /\ size \in Nat /\ size >= 2
<1>1. pre \in Seq(Tokens) /\ body \in Seq(Tokens) /\ load \in Seq(Tokens)
  BY TextsAreTokens, TransferAssumption DEF TypeOK
<1>2. Stream \in Seq(Tokens)
  BY <1>1, Literals DEF Stream
<1>3. size \in Nat /\ size >= 2
  BY TransferAssumption, Literals DEF TypeOK
<1>4. Len(Stream) \in Nat
  BY <1>2
<1>5. sent \in 0 .. Len(Stream) /\ pos \in 0 .. sent
  BY DEF TypeOK
<1>6. sent \in Nat /\ pos \in Nat
  BY <1>4, <1>5
<1> QED BY <1>1, <1>2, <1>3, <1>6

\* What is where in the stream of a transfer that succeeds.
LEMMA StreamAt ==
  ASSUME TypeOK, LoadOK, outcome = "ok"
  PROVE  /\ HeadAt \in Nat /\ BodyAt = HeadAt + 5
         /\ Len(body) \in Nat /\ TailAt = BodyAt + Len(body)
         /\ EndAt = TailAt + 2 /\ Len(Stream) = EndAt
         /\ \A k \in 1 .. HeadAt : Stream[k] = pre[k]
         /\ \A k \in 1 .. 5 : Stream[HeadAt + k] = FileHead[k]
         /\ \A k \in 1 .. Len(body) : Stream[BodyAt + k] = body[k]
         /\ \A k \in 1 .. 2 : Stream[TailAt + k] = Trailer[k]
<1> DEFINE mid == pre \o load
<1>1. pre \in Seq(Tokens) /\ body \in Seq(Tokens)
  BY StreamType
<1>2. Len(FileHead) = 5 /\ Len(Trailer) = 2
  BY Literals
<1>12. FileHead \in Seq(Tokens) /\ Trailer \in Seq(Tokens)
  BY Literals
<1>3. load = FileHead \o body /\ Stream = mid \o Trailer
  BY DEF LoadOK, Stream
<1>4. /\ load \in Seq(Tokens) /\ Len(body) \in Nat /\ Len(load) = 5 + Len(body)
      /\ \A k \in 1 .. 5 : load[k] = FileHead[k]
      /\ \A k \in 1 .. Len(body) : load[5 + k] = body[k]
  <2> DEFINE l == FileHead \o body
  <2>1. /\ l \in Seq(Tokens) /\ Len(FileHead) \in Nat /\ Len(body) \in Nat
        /\ Len(l) = Len(FileHead) + Len(body)
        /\ \A k \in 1 .. Len(FileHead) : l[k] = FileHead[k]
        /\ \A k \in 1 .. Len(body) : l[Len(FileHead) + k] = body[k]
    BY <1>1, <1>12, Joined
  <2> HIDE DEF l
  <2>2. load = l
    BY <1>3 DEF l
  <2> QED BY <1>2, <2>1, <2>2
<1>5. /\ mid \in Seq(Tokens) /\ Len(pre) \in Nat /\ Len(mid) = Len(pre) + Len(load)
      /\ \A k \in 1 .. Len(pre) : mid[k] = pre[k]
      /\ \A k \in 1 .. Len(load) : mid[Len(pre) + k] = load[k]
  BY <1>1, <1>4, Joined
<1> HIDE DEF mid
<1>13. mid \in Seq(Tokens)
  BY <1>5
<1>6. /\ Len(Stream) = Len(mid) + 2
      /\ \A k \in 1 .. Len(mid) : Stream[k] = mid[k]
      /\ \A k \in 1 .. 2 : Stream[Len(mid) + k] = Trailer[k]
  <2> DEFINE m == mid \o Trailer
  <2>1. /\ m \in Seq(Tokens) /\ Len(mid) \in Nat /\ Len(m) = Len(mid) + Len(Trailer)
        /\ \A k \in 1 .. Len(mid) : m[k] = mid[k]
        /\ \A k \in 1 .. Len(Trailer) : m[Len(mid) + k] = Trailer[k]
    BY <1>12, <1>13, Joined
  <2> HIDE DEF m
  <2>2. Stream = m
    BY <1>3 DEF m
  <2> QED BY <1>2, <2>1, <2>2
<1>7. /\ HeadAt = Len(pre) /\ BodyAt = HeadAt + 5
      /\ TailAt = BodyAt + Len(body) /\ EndAt = TailAt + 2 /\ Len(mid) = TailAt
  BY <1>2, <1>4, <1>5 DEF HeadAt, BodyAt, TailAt, EndAt
<1>8. ASSUME NEW k \in 1 .. HeadAt PROVE Stream[k] = pre[k]
  BY <1>4, <1>5, <1>6, <1>7
<1>9. ASSUME NEW k \in 1 .. 5 PROVE Stream[HeadAt + k] = FileHead[k]
  <2>1. HeadAt + k \in 1 .. Len(mid) /\ k \in 1 .. Len(load)
    BY <1>4, <1>5, <1>7
  <2> QED BY <1>4, <1>5, <1>6, <1>7, <2>1
<1>14. /\ Len(pre) \in Nat /\ Len(body) \in Nat /\ BodyAt = Len(pre) + 5
       /\ Len(load) = 5 + Len(body) /\ Len(mid) = Len(pre) + 5 + Len(body)
  BY <1>4, <1>5, <1>7
<1>10. ASSUME NEW k \in 1 .. Len(body) PROVE Stream[BodyAt + k] = body[k]
  <2>1. BodyAt + k \in 1 .. Len(mid) /\ 5 + k \in 1 .. Len(load) /\ BodyAt + k = Len(pre) + (5 + k)
    BY <1>14
  <2>2. Stream[BodyAt + k] = mid[Len(pre) + (5 + k)] /\ mid[Len(pre) + (5 + k)] = load[5 + k]
    BY <1>5, <1>6, <2>1
  <2> QED BY <1>4, <2>2
<1>11. \A k \in 1 .. 2 : Stream[TailAt + k] = Trailer[k]
  BY <1>6, <1>7
<1> QED BY <1>4, <1>5, <1>6, <1>7, <1>8, <1>9, <1>10, <1>11

\* What one recv() returns: a piece of the stream that begins at pos.
LEMMA ChunkIs ==
  ASSUME TypeOK, Chunk # <<>>
  PROVE  /\ Chunk \in Seq(Tokens) /\ Len(Chunk) \in 1 .. size /\ Len(Chunk) = ChunkLen
         /\ pos + Len(Chunk) <= sent /\ sent <= Len(Stream)
         /\ Chunk = SubSeq(Stream, pos + 1, pos + Len(Chunk))
         /\ \A k \in 1 .. Len(Chunk) : Chunk[k] = Stream[pos + k]
<1>1. /\ Stream \in Seq(Tokens) /\ Len(Stream) \in Nat
      /\ pos \in Nat /\ sent \in Nat /\ size \in Nat
      /\ pos <= sent /\ sent <= Len(Stream)
  BY StreamType DEF TypeOK
<1>2. ChunkLen \in Nat /\ ChunkLen <= size /\ pos + ChunkLen <= sent
  BY <1>1 DEF ChunkLen, Available
<1>3. /\ Chunk \in Seq(Tokens) /\ Len(Chunk) = ChunkLen
      /\ \A k \in 1 .. Len(Chunk) : Chunk[k] = Stream[pos + 1 + k - 1]
  <2>1. pos + 1 \in Nat \ {0} /\ pos + ChunkLen \in 0 .. Len(Stream)
    BY <1>1, <1>2
  <2> DEFINE a0 == pos + 1
             b0 == pos + ChunkLen
             c == SubSeq(Stream, a0, b0)
  <2>5. \A a \in Nat \ {0}, b \in 0 .. Len(Stream) :
          /\ SubSeq(Stream, a, b) \in Seq(Tokens)
          /\ Len(SubSeq(Stream, a, b)) = IF a <= b THEN b - a + 1 ELSE 0
          /\ \A k \in 1 .. Len(SubSeq(Stream, a, b)) : SubSeq(Stream, a, b)[k] = Stream[a + k - 1]
    BY <1>1, Piece
  <2>6. a0 \in Nat \ {0} /\ b0 \in 0 .. Len(Stream)
    BY <2>1
  <2> HIDE DEF a0, b0
  <2>2. /\ c \in Seq(Tokens)
        /\ Len(c) = IF a0 <= b0 THEN b0 - a0 + 1 ELSE 0
        /\ \A k \in 1 .. Len(c) : c[k] = Stream[a0 + k - 1]
    BY <2>6, <2>5
  <2>3. Chunk = c
    BY DEF Chunk, a0, b0
  <2> HIDE DEF c
  <2>4. Len(c) = ChunkLen
    BY <1>1, <1>2, <2>2 DEF a0, b0
  <2> QED BY <2>2, <2>3, <2>4 DEF a0
<1>4. Len(Chunk) # 0
  BY <1>3
<1>5. \A k \in 1 .. Len(Chunk) : pos + 1 + k - 1 = pos + k
  BY <1>1
<1>6. Chunk = SubSeq(Stream, pos + 1, pos + Len(Chunk))
  BY <1>3 DEF Chunk
<1> QED BY <1>1, <1>2, <1>3, <1>4, <1>5, <1>6

\* The length of the name in a chunk that begins with a head.
LEMMA NameLenType ==
  ASSUME NEW c \in Seq(Tokens), IsFileHead(c)
  PROVE  NameLen(c) \in Nat /\ 2 + NameLen(c) <= Len(c)
<1> DEFINE N == {k \in 3 .. Len(c) : \A j \in 3 .. k : c[j][1] = "name"}
<1>1. Len(c) \in Nat
  OBVIOUS
<1>2. Len(c) >= 2
  BY Literals DEF IsFileHead, StartsWith
<1>3. IsFiniteSet(3 .. Len(c)) /\ Cardinality(3 .. Len(c)) = Len(c) - 2
  <2>1. 3 \in Int /\ Len(c) \in Int
    BY <1>1
  <2>2. /\ IsFiniteSet(3 .. Len(c))
        /\ Cardinality(3 .. Len(c)) = IF 3 > Len(c) THEN 0 ELSE Len(c) - 3 + 1
    BY <2>1, FS_Interval
  <2> QED BY <1>1, <1>2, <2>2
<1>4. N \subseteq 3 .. Len(c)
  OBVIOUS
<1> HIDE DEF N
<1>5. IsFiniteSet(N) /\ Cardinality(N) <= Cardinality(3 .. Len(c))
  BY <1>3, <1>4, FS_Subset
<1>6. Cardinality(N) \in Nat
  BY <1>5, FS_CardinalityType
<1>7. NameLen(c) = Cardinality(N)
  BY DEF NameLen, N
<1> QED BY <1>1, <1>3, <1>5, <1>6, <1>7

\* What the receiver writes are pieces of the chunk.
LEMMA WrittenType ==
  ASSUME NEW c \in Seq(Tokens), IsFileHead(c)
  PROVE  Addon(c) \in Seq(Tokens) /\ SubSeq(c, 3, 2 + NameLen(c)) \in Seq(Tokens)
<1>1. NameLen(c) \in Nat /\ 2 + NameLen(c) <= Len(c)
  BY NameLenType
<1> DEFINE a == Len(Mark) + NameLen(c) + Len(Crlf) + 1
           b == 2 + NameLen(c)
<1>2. a \in Nat \ {0} /\ b \in 0 .. Len(c) /\ Len(c) \in 0 .. Len(c)
  BY <1>1, Literals
<1>3. Addon(c) = SubSeq(c, a, Len(c))
  BY DEF Addon
<1> HIDE DEF a, b
<1>4. SubSeq(c, a, Len(c)) \in Seq(Tokens) /\ SubSeq(c, 3, b) \in Seq(Tokens)
  BY <1>2, Piece
<1> QED BY <1>3, <1>4 DEF b

LEMMA UntailType ==
  ASSUME NEW c \in Seq(Tokens), FileTail(c)
  PROVE  Untail(c) \in Seq(Tokens)
<1>1. Len(c) \in Nat /\ Len(c) >= 2 /\ Len(Trailer) = 2
  BY Literals DEF FileTail, EndsWith
<1> DEFINE b == Len(c) - Len(Trailer)
<1>2. b \in 0 .. Len(c)
  BY <1>1
<1> HIDE DEF b
<1>3. SubSeq(c, 1, b) \in Seq(Tokens)
  BY <1>2, Piece
<1> QED BY <1>3 DEF Untail, b

LEMMA JoinedType ==
  ASSUME NEW p \in Seq(Tokens), NEW q \in Seq(Tokens)
  PROVE  p \o q \in Seq(Tokens)
OBVIOUS
-----------------------------------------------------------------------------
(* The invariant.                                                          *)

LEMMA InitInv == Init => Inv
<1> SUFFICES ASSUME Init PROVE Inv
  OBVIOUS
<1>1. pre \in Seq(Tokens) /\ body \in Seq(Tokens)
  BY TextsAreTokens, TransferAssumption DEF Init
<1>2. FileHead \in Seq(Tokens) /\ Trailer \in Seq(Tokens)
  BY Literals
<1>3. load \in Seq(Tokens)
  BY <1>1, <1>2, JoinedType DEF Init
<1>4. Stream \in Seq(Tokens)
  BY <1>1, <1>2, <1>3 DEF Stream, Init
<1>5. Len(Stream) \in Nat /\ Len(pre) \in Nat
  BY <1>1, <1>4
<1>6. sent \in 0 .. Len(Stream) /\ pos \in 0 .. sent
  BY <1>5 DEF Init
<1>7. TypeOK
  <2>1. rfilename \in Seq(Tokens) /\ saved \in Seq(Tokens)
    BY DEF Init
  <2>2. outcome \in {"ok", "failed", "unopened"} /\ file \in {"none", "open", "closed", "crashed"}
    BY DEF Init
  <2>3. pre \in Pres /\ body \in Bodies /\ size \in Sizes
    BY DEF Init
  <2>4. receiveing \in BOOLEAN /\ reported \in BOOLEAN /\ asText \in BOOLEAN
        /\ clean \in BOOLEAN /\ filled \in BOOLEAN
    BY DEF Init
  <2> QED BY <1>3, <1>6, <2>1, <2>2, <2>3, <2>4 DEF TypeOK
<1>8. LoadOK
  BY DEF Init, LoadOK
<1>9. CleanSoFar
  BY <1>5 DEF Init, CleanSoFar, Waiting, HeadAt
<1> QED BY <1>7, <1>8, <1>9 DEF Inv

LEMMA SendInv == Inv /\ Send => Inv'
<1> SUFFICES ASSUME Inv, Send PROVE Inv'
  OBVIOUS
<1> USE DEF Inv
<1>1. UNCHANGED <<pre, body, load, outcome, size, pos, receiveing, rfilename, file, saved,
                  reported, asText, clean, filled>>
  BY DEF Send
<1>2. Stream' = Stream
  BY <1>1 DEF Stream
<1>3. sent' \in (sent + 1) .. Len(Stream)
  BY DEF Send
<1>4. /\ sent \in 0 .. Len(Stream) /\ pos \in 0 .. sent /\ Len(Stream) \in Nat
  BY StreamType DEF TypeOK
<1>5. sent' \in 0 .. Len(Stream) /\ pos \in 0 .. sent'
  BY <1>3, <1>4
<1>6. TypeOK'
  BY <1>1, <1>2, <1>5 DEF TypeOK
<1>7. LoadOK'
  BY <1>1 DEF LoadOK
<1>8. CleanSoFar'
  BY <1>1, <1>2 DEF CleanSoFar, Waiting, Inside, Finished, HeadAt, BodyAt, TailAt, EndAt
<1> QED BY <1>6, <1>7, <1>8

\* A failure cuts the stream, but never before what has been written.
LEMMA FailInv == Inv /\ (SendfileFails \/ OpenFails) => Inv'
<1> SUFFICES ASSUME Inv, SendfileFails \/ OpenFails PROVE Inv'
  OBVIOUS
<1> USE DEF Inv
<1>1. UNCHANGED <<pre, body, sent, size, pos, receiveing, rfilename, file, saved, reported,
                  asText, clean, filled>>
  BY DEF SendfileFails, OpenFails
<1>2. outcome' \in {"failed", "unopened"}
  BY DEF SendfileFails, OpenFails
<1>3. /\ pre \in Seq(Tokens) /\ load \in Seq(Tokens) /\ sent \in Nat
      /\ Trailer \in Seq(Tokens) /\ DownFail \in Seq(Tokens)
  BY StreamType, Literals DEF TypeOK
<1>4. Len(pre) \in Nat /\ Len(load) \in Nat
  BY <1>3
<1>5. load' \in Seq(Tokens) /\ (SendfileFails => Len(pre) + Len(load') = sent)
  <2>1. CASE SendfileFails
    <3> DEFINE b == sent - Len(pre)
    <3>1. b \in 0 .. Len(load)
      BY <1>3, <1>4, <2>1 DEF SendfileFails
    <3>2. load' = SubSeq(load, 1, b)
      BY <2>1 DEF SendfileFails
    <3> HIDE DEF b
    <3>3. SubSeq(load, 1, b) \in Seq(Tokens) /\ Len(SubSeq(load, 1, b)) = b
      <4>1. Len(SubSeq(load, 1, b)) = IF 1 <= b THEN b - 1 + 1 ELSE 0
        BY <1>3, <3>1, Piece
      <4>2. SubSeq(load, 1, b) \in Seq(Tokens)
        BY <1>3, <3>1, Piece
      <4> QED BY <1>4, <3>1, <4>1, <4>2
    <3> QED BY <1>3, <1>4, <3>2, <3>3 DEF b
  <2>2. CASE OpenFails
    <3>1. load' = load
      BY <2>2 DEF OpenFails
    <3>2. ~SendfileFails
      BY <2>2, <1>2 DEF OpenFails, SendfileFails
    <3> QED BY <1>3, <3>1, <3>2
  <2> QED BY <2>1, <2>2
<1>6. Stream' \in Seq(Tokens) /\ sent <= Len(Stream')
  <2>1. CASE SendfileFails
    <3> DEFINE m == pre \o load'
               t == m \o Trailer
               d == t \o DownFail
    <3>1. m \in Seq(Tokens) /\ Len(m) = Len(pre) + Len(load')
      BY <1>3, <1>5, Joined
    <3> HIDE DEF m
    <3>2. t \in Seq(Tokens) /\ Len(t) = Len(m) + Len(Trailer)
      BY <1>3, <3>1, Joined
    <3> HIDE DEF t
    <3>3. d \in Seq(Tokens) /\ Len(d) = Len(t) + Len(DownFail)
      BY <1>3, <3>2, Joined
    <3> HIDE DEF d
    <3>4. outcome' = "failed"
      BY <2>1 DEF SendfileFails
    <3>5. Stream' = t \/ Stream' = d
      BY <1>1, <3>4 DEF Stream, m, t, d
    <3>6. Len(m) = sent /\ Len(t) = sent + 2 /\ Len(d) = sent + 3
      BY <1>3, <1>5, <2>1, <3>1, <3>2, <3>3, Literals
    <3> QED BY <1>3, <3>2, <3>3, <3>5, <3>6
  <2>2. CASE OpenFails
    <3> DEFINE d == pre \o DownFail
    <3>1. d \in Seq(Tokens) /\ Len(d) = Len(pre) + Len(DownFail)
      BY <1>3, Joined
    <3> HIDE DEF d
    <3>2. outcome' = "unopened" /\ sent <= Len(pre)
      BY <2>2 DEF OpenFails
    <3>3. Stream' = pre \/ Stream' = d
      BY <1>1, <3>2 DEF Stream, d
    <3>4. Len(pre) <= Len(d)
      BY <1>4, <3>1, Literals
    <3> QED BY <1>3, <1>4, <3>1, <3>2, <3>3, <3>4
  <2> QED BY <2>1, <2>2
<1>7. sent \in 0 .. Len(Stream') /\ pos \in 0 .. sent
  <2>1. Len(Stream') \in Nat /\ pos \in 0 .. sent
    BY <1>6 DEF TypeOK
  <2> QED BY <1>3, <1>6, <2>1
<1>8. TypeOK'
  BY <1>1, <1>2, <1>5, <1>7 DEF TypeOK
<1>9. LoadOK' /\ CleanSoFar'
  BY <1>2 DEF LoadOK, CleanSoFar
<1> QED BY <1>8, <1>9

\* What every action of the receiver does to the position and leaves alone.
LEMMA Taken ==
  ASSUME TypeOK, Receive
  PROVE  /\ Take(Chunk) /\ Chunk # <<>>
         /\ UNCHANGED <<pre, body, load, outcome, sent, size>>
         /\ pos' = pos + Len(Chunk) /\ Stream' = Stream
         /\ pos' \in 0 .. sent'
<1>1. Take(Chunk)
  BY DEF Receive, BeginFile, WholeFile, EndFile, FullChunk, ShortChunk, TextChunk
<1>2. Chunk # <<>> /\ pos' = pos + Len(Chunk)
  BY <1>1 DEF Take
<1>3. UNCHANGED <<pre, body, load, outcome, sent, size>>
  BY <1>1 DEF Take, senderVars
<1>4. Stream' = Stream
  BY <1>3 DEF Stream
<1>5. pos' \in 0 .. sent'
  <2>1. Len(Chunk) \in 1 .. size /\ pos + Len(Chunk) <= sent
    BY <1>2, ChunkIs
  <2>2. pos \in Nat /\ sent \in Nat /\ size \in Nat
    BY StreamType
  <2> QED BY <1>2, <1>3, <2>1, <2>2
<1> QED BY <1>1, <1>2, <1>3, <1>4, <1>5

LEMMA ReceiveType == TypeOK /\ Receive => TypeOK'
<1> SUFFICES ASSUME TypeOK, Receive PROVE TypeOK'
  OBVIOUS
<1>1. /\ UNCHANGED <<pre, body, load, outcome, sent, size>> /\ Stream' = Stream
      /\ pos' \in 0 .. sent' /\ Take(Chunk) /\ Chunk # <<>>
  BY Taken
<1>2. Chunk \in Seq(Tokens) /\ saved \in Seq(Tokens) /\ rfilename \in Seq(Tokens)
  BY <1>1, ChunkIs DEF TypeOK
<1>3. clean' \in BOOLEAN /\ filled' \in BOOLEAN
  BY <1>1 DEF Take
<1>4. /\ receiveing' \in BOOLEAN /\ reported' \in BOOLEAN /\ asText' \in BOOLEAN
      /\ file' \in {"none", "open", "closed", "crashed"}
  BY DEF Receive, BeginFile, WholeFile, EndFile, FullChunk, ShortChunk, TextChunk, TypeOK
<1>5. rfilename' \in Seq(Tokens)
  <2>1. CASE IsFileHead(Chunk)
    <3>1. SubSeq(Chunk, 3, 2 + NameLen(Chunk)) \in Seq(Tokens)
      BY <1>2, <2>1, WrittenType
    <3> QED
      BY <1>2, <3>1 DEF Receive, BeginFile, WholeFile, EndFile, FullChunk, ShortChunk, TextChunk
  <2>2. CASE ~IsFileHead(Chunk)
    BY <1>2, <2>2 DEF Receive, BeginFile, WholeFile, EndFile, FullChunk, ShortChunk, TextChunk
  <2> QED BY <2>1, <2>2
<1>6. saved' \in Seq(Tokens)
  <2>1. CASE BeginFile
    BY <1>2, <2>1, WrittenType DEF BeginFile
  <2>2. CASE WholeFile
    <3>1. Addon(Chunk) \in Seq(Tokens) /\ Untail(Chunk) \in Seq(Tokens)
      BY <1>2, <2>2, WrittenType, UntailType DEF WholeFile
    <3>2. saved' = Addon(Chunk) \o Untail(Chunk)
      BY <2>2 DEF WholeFile
    <3> QED BY <3>1, <3>2, JoinedType
  <2>3. CASE EndFile
    <3>1. Untail(Chunk) \in Seq(Tokens)
      BY <1>2, <2>3, UntailType DEF EndFile
    <3>2. saved' = saved \o Untail(Chunk)
      BY <2>3 DEF EndFile
    <3> QED BY <1>2, <3>1, <3>2, JoinedType
  <2>4. CASE FullChunk
    <3>1. saved' = saved \o Chunk
      BY <2>4 DEF FullChunk
    <3> QED BY <1>2, <3>1, JoinedType
  <2>5. CASE ShortChunk
    BY <1>2, <2>5 DEF ShortChunk
  <2>6. CASE TextChunk
    BY <1>2, <2>6 DEF TextChunk
  <2> QED BY <2>1, <2>2, <2>3, <2>4, <2>5, <2>6 DEF Receive
<1>7. pre' \in Pres /\ body' \in Bodies /\ size' \in Sizes /\ load' \in Seq(Tokens)
  BY <1>1 DEF TypeOK
<1>8. outcome' \in {"ok", "failed", "unopened"} /\ sent' \in 0 .. Len(Stream')
  BY <1>1 DEF TypeOK
<1> QED BY <1>1, <1>3, <1>4, <1>5, <1>6, <1>7, <1>8 DEF TypeOK

\* A chunk that ends where the stream does ends with the trailer.
LEMMA EndsAtTrailer ==
  ASSUME TypeOK, LoadOK, outcome = "ok", Chunk # <<>>, Len(Chunk) >= 2
  PROVE  /\ FileTail(Chunk) \/ pos + Len(Chunk) # EndAt
         /\ pos + Len(Chunk) <= EndAt
<1>1. /\ Chunk \in Seq(Tokens) /\ Len(Chunk) \in Nat
      /\ \A k \in 1 .. Len(Chunk) : Chunk[k] = Stream[pos + k]
      /\ pos + Len(Chunk) <= sent /\ sent <= Len(Stream)
  BY ChunkIs
<1>2. /\ Len(Stream) = EndAt /\ EndAt = TailAt + 2 /\ TailAt \in Nat
      /\ \A k \in 1 .. 2 : Stream[TailAt + k] = Trailer[k]
  BY StreamAt
<1>3. pos \in Nat /\ sent \in Nat
  BY StreamType
<1>4. ASSUME pos + Len(Chunk) = EndAt PROVE FileTail(Chunk)
  <2> DEFINE a == Len(Chunk) - 1
             q == SubSeq(Chunk, a, Len(Chunk))
  <2>1. a \in Nat \ {0} /\ Len(Chunk) \in 0 .. Len(Chunk) /\ a <= Len(Chunk)
    BY <1>1
  <2>2. Trailer \in Seq(Tokens) /\ Len(Trailer) = 2
    BY Literals
  <2>3. pos + a = TailAt + 1 /\ pos + (a + 1) = TailAt + 2 /\ Len(Chunk) = a + 1
    BY <1>1, <1>2, <1>3, <1>4
  <2>8. Len(Chunk) - Len(Trailer) + 1 = a
    BY <1>1, <2>2
  <2> HIDE DEF a
  <2>4. q \in Seq(Tokens) /\ Len(q) = Len(Chunk) - a + 1
        /\ \A k \in 1 .. Len(q) : q[k] = Chunk[a + k - 1]
    BY <1>1, <2>1, Piece
  <2> HIDE DEF q
  <2>5. Len(q) = 2
    BY <1>1, <2>1, <2>3, <2>4
  <2>6. q[1] = Trailer[1] /\ q[2] = Trailer[2]
    <3>1. q[1] = Chunk[a] /\ q[2] = Chunk[a + 1]
      <4>1. a + 1 - 1 = a /\ a + 2 - 1 = a + 1
        BY <2>1
      <4>2. 1 \in 1 .. Len(q) /\ 2 \in 1 .. Len(q)
        BY <2>5
      <4>3. \A k \in 1 .. Len(q) : q[k] = Chunk[a + k - 1]
        BY <2>4
      <4>4. q[1] = Chunk[a + 1 - 1] /\ q[2] = Chunk[a + 2 - 1]
        BY <4>2, <4>3
      <4> QED BY <4>1, <4>4
    <3>2. Chunk[a] = Stream[TailAt + 1] /\ Chunk[a + 1] = Stream[TailAt + 2]
      BY <1>1, <2>1, <2>3
    <3> QED BY <1>2, <3>1, <3>2
  <2>7. q = Trailer
    <3>1. \A k \in 1 .. Len(q) : q[k] = Trailer[k]
      BY <2>5, <2>6
    <3>2. q \in Seq(Tokens) /\ Trailer \in Seq(Tokens)
      BY <2>2, <2>4
    <3>3. Len(q) = Len(Trailer)
      BY <2>2, <2>5
    <3> QED BY <3>1, <3>2, <3>3, SeqEqual
  <2> QED BY <1>1, <2>2, <2>7, <2>8 DEF FileTail, EndsWith, q
<1> QED BY <1>1, <1>2, <1>3, <1>4

\* A chunk that ends before the head contains text only.
LEMMA TextOnly ==
  ASSUME TypeOK, LoadOK, outcome = "ok", Chunk # <<>>, pos + Len(Chunk) <= HeadAt
  PROVE  /\ ~IsFileHead(Chunk)
         /\ ~\E k \in DOMAIN Chunk : Chunk[k][1] = "body"
<1>1. /\ Chunk \in Seq(Tokens) /\ Len(Chunk) \in Nat /\ Len(Chunk) >= 1
      /\ \A k \in 1 .. Len(Chunk) : Chunk[k] = Stream[pos + k]
  BY ChunkIs
<1>2. HeadAt \in Nat /\ HeadAt = Len(pre) /\ \A k \in 1 .. HeadAt : Stream[k] = pre[k]
  BY StreamAt DEF HeadAt
<1>3. pos \in Nat
  BY StreamType
<1>4. \A k \in 1 .. Len(pre) : pre[k] \in Texts
  BY TransferAssumption DEF TypeOK
<1>5. ASSUME NEW k \in 1 .. Len(Chunk) PROVE Chunk[k] \in Texts
  <2>1. pos + k \in 1 .. HeadAt
    BY <1>1, <1>2, <1>3
  <2> QED BY <1>1, <1>2, <1>4, <2>1
<1>6. \A t \in Texts : t[1] = "text"
  BY DEF Texts
<1>7. ~IsFileHead(Chunk)
  <2> SUFFICES ASSUME IsFileHead(Chunk) PROVE FALSE
    OBVIOUS
  <2>1. Len(Chunk) >= 2 /\ SubSeq(Chunk, 1, 2) = Mark
    BY Literals DEF IsFileHead, StartsWith
  <2>2. SubSeq(Chunk, 1, 2)[1] = Chunk[1]
    BY <1>1, <2>1
  <2>3. Mark[1][1] = "mark"
    BY Literals
  <2>4. Chunk[1][1] = "text"
    BY <1>1, <1>5, <1>6
  <2> QED BY <2>1, <2>2, <2>3, <2>4
<1>8. \A k \in 1 .. Len(Chunk) : Chunk[k][1] # "body"
  BY <1>5, <1>6
<1>9. DOMAIN Chunk = 1 .. Len(Chunk)
  BY <1>1
<1> QED BY <1>7, <1>8, <1>9

\* A chunk that begins with the head and holds all of it: the code finds the
\* name and the beginning of the contents.
LEMMA HeadFound ==
  ASSUME TypeOK, LoadOK, outcome = "ok", Chunk # <<>>,
         pos = HeadAt, BodyAt <= pos + Len(Chunk)
  PROVE  /\ IsFileHead(Chunk) /\ NameLen(Chunk) = 2 /\ Len(Chunk) >= 5
         /\ SubSeq(Chunk, 3, 2 + NameLen(Chunk)) = FileName
         /\ Addon(Chunk) = SubSeq(Stream, BodyAt + 1, pos + Len(Chunk))
<1>1. /\ Chunk \in Seq(Tokens) /\ Len(Chunk) \in Nat
      /\ \A k \in 1 .. Len(Chunk) : Chunk[k] = Stream[pos + k]
      /\ pos + Len(Chunk) <= sent /\ sent <= Len(Stream)
  BY ChunkIs
<1>2. /\ HeadAt \in Nat /\ BodyAt = HeadAt + 5
      /\ \A k \in 1 .. 5 : Stream[HeadAt + k] = FileHead[k]
  BY StreamAt
<1>3. Len(Chunk) >= 5
  BY <1>1, <1>2
<1>10. Len(Chunk) \in Nat /\ (6 <= Len(Chunk) \/ Len(Chunk) = 5)
  <2> DEFINE n == Len(Chunk)
  <2>1. n \in Nat /\ n >= 5
    BY <1>1, <1>3
  <2> HIDE DEF n
  <2>2. 6 <= n \/ n = 5
    BY <2>1
  <2> QED BY <2>1, <2>2 DEF n
<1>4. \A k \in 1 .. 5 : Chunk[k] = FileHead[k]
  <2> SUFFICES ASSUME NEW k \in 1 .. 5 PROVE Chunk[k] = FileHead[k]
    OBVIOUS
  <2>1. k \in 1 .. Len(Chunk)
    BY <1>1, <1>3
  <2> QED BY <1>1, <1>2, <2>1
<1>5. /\ Chunk[1] = Mark[1] /\ Chunk[2] = Mark[2]
      /\ Chunk[3] = FileName[1] /\ Chunk[4] = FileName[2] /\ Chunk[5] = Crlf[1]
  BY <1>4, Literals
<1>6. IsFileHead(Chunk)
  <2> DEFINE q == SubSeq(Chunk, 1, 2)
  <2>1. 1 \in Nat \ {0} /\ 2 \in 0 .. Len(Chunk)
    BY <1>1, <1>3
  <2>2. q \in Seq(Tokens) /\ Len(q) = 2 /\ q[1] = Chunk[1] /\ q[2] = Chunk[2]
    BY <1>1, <1>3, <2>1
  <2> HIDE DEF q
  <2>3. Mark \in Seq(Tokens) /\ Len(Mark) = Len(q)
    BY <2>2, Literals
  <2>4. \A k \in 1 .. Len(q) : q[k] = Mark[k]
    BY <1>5, <2>2
  <2>5. q = Mark
    BY <2>2, <2>3, <2>4, SeqEqual
  <2> QED BY <1>3, <2>2, <2>3, <2>5 DEF IsFileHead, StartsWith, q
<1>7. NameLen(Chunk) = 2
  <2> DEFINE N == {k \in 3 .. Len(Chunk) : \A j \in 3 .. k : Chunk[j][1] = "name"}
  <2>1. Chunk[3][1] = "name" /\ Chunk[4][1] = "name" /\ Chunk[5][1] = "crlf"
    BY <1>5, Literals
  <2>2. 3 \in N
    <3>1. 3 \in 3 .. Len(Chunk) /\ \A j \in 3 .. 3 : j = 3
      BY <1>1, <1>3
    <3> QED BY <2>1, <3>1
  <2>3. 4 \in N
    <3>1. 4 \in 3 .. Len(Chunk) /\ \A j \in 3 .. 4 : j = 3 \/ j = 4
      BY <1>1, <1>3
    <3> QED BY <2>1, <3>1
  <2>4. ASSUME NEW k \in N PROVE k = 3 \/ k = 4
    <3>1. k \in 3 .. Len(Chunk) /\ \A j \in 3 .. k : Chunk[j][1] = "name"
      OBVIOUS
    <3>2. ~(5 \in 3 .. k)
      BY <2>1, <3>1
    <3> QED BY <1>1, <3>1, <3>2
  <2> HIDE DEF N
  <2>5. N = {3, 4}
    BY <2>2, <2>3, <2>4
  <2>6. Cardinality({3, 4}) = 2
    <3>1. Cardinality(3 .. 4) = 2
      <4>1. Cardinality(3 .. 4) = IF 3 > 4 THEN 0 ELSE 4 - 3 + 1
        BY FS_Interval, 3 \in Int, 4 \in Int
      <4> QED BY <4>1
    <3>2. 3 .. 4 = {3, 4}
      OBVIOUS
    <3> QED BY <3>1, <3>2
  <2> QED BY <2>5, <2>6 DEF NameLen, N
<1>8. SubSeq(Chunk, 3, 2 + NameLen(Chunk)) = FileName
  <2> DEFINE q == SubSeq(Chunk, 3, 4)
  <2>1. 3 \in Nat \ {0} /\ 4 \in 0 .. Len(Chunk)
    BY <1>1, <1>3
  <2>2. q \in Seq(Tokens) /\ Len(q) = 2 /\ q[1] = Chunk[3] /\ q[2] = Chunk[4]
    BY <1>1, <1>3, <2>1
  <2> HIDE DEF q
  <2>3. FileName \in Seq(Tokens) /\ Len(FileName) = Len(q)
    BY <2>2, Literals
  <2>4. \A k \in 1 .. Len(q) : q[k] = FileName[k]
    BY <1>5, <2>2
  <2>5. q = FileName
    BY <2>2, <2>3, <2>4, SeqEqual
  <2> QED BY <1>7, <2>5 DEF q
<1>9. Addon(Chunk) = SubSeq(Stream, BodyAt + 1, pos + Len(Chunk))
  <2> DEFINE q == SubSeq(Chunk, 6, Len(Chunk))
             t == SubSeq(Stream, BodyAt + 1, pos + Len(Chunk))
  <2>1. Addon(Chunk) = q
    BY <1>7, Literals DEF Addon
  <2>2. pos \in Nat /\ sent \in Nat /\ Stream \in Seq(Tokens)
    BY StreamType
  <2>3. /\ 6 \in Nat \ {0} /\ Len(Chunk) \in 0 .. Len(Chunk)
        /\ BodyAt + 1 \in Nat \ {0} /\ pos + Len(Chunk) \in 0 .. Len(Stream)
    BY <1>1, <1>2, <2>2
  <2>4. q \in Seq(Tokens) /\ Len(q) = Len(Chunk) - 5
        /\ \A k \in 1 .. Len(q) : q[k] = Chunk[6 + k - 1]
    <3>1. /\ q \in Seq(Tokens)
          /\ Len(q) = IF 6 <= Len(Chunk) THEN Len(Chunk) - 6 + 1 ELSE 0
          /\ \A k \in 1 .. Len(q) : q[k] = Chunk[6 + k - 1]
      BY <1>1, <2>3, Piece
    <3> HIDE DEF q
    <3>2. Len(q) = Len(Chunk) - 5
      <4>2. Len(q) = IF 6 <= Len(Chunk) THEN Len(Chunk) - 6 + 1 ELSE 0
        BY <3>1
      <4> QED BY <1>10, <4>2
    <3> QED BY <3>1, <3>2
  <2> DEFINE a == BodyAt + 1
             b == pos + Len(Chunk)
  <2>5. t \in Seq(Tokens) /\ Len(t) = Len(Chunk) - 5
        /\ \A k \in 1 .. Len(t) : t[k] = Stream[a + k - 1]
    <3>1. a \in Nat \ {0} /\ b \in 0 .. Len(Stream)
      BY <2>3
    <3> HIDE DEF a, b
    <3>2. t = SubSeq(Stream, a, b)
      BY DEF a, b
    <3> HIDE DEF t
    <3>3. /\ t \in Seq(Tokens)
          /\ Len(t) = IF a <= b THEN b - a + 1 ELSE 0
          /\ \A k \in 1 .. Len(t) : t[k] = Stream[a + k - 1]
      BY <2>2, <3>1, <3>2, Piece
    <3>4. Len(t) = Len(Chunk) - 5
      <4>1. Len(t) = IF a <= b THEN b - a + 1 ELSE 0
        BY <3>3
      <4>2. a = pos + 6 /\ b = pos + Len(Chunk)
        BY <1>2, <2>2 DEF a, b
      <4>3. pos \in Nat
        BY <2>2
      <4> QED BY <1>10, <4>1, <4>2, <4>3
    <3> QED BY <3>3, <3>4
  <2> HIDE DEF q, t, a, b
  <2>6. ASSUME NEW k \in 1 .. Len(q) PROVE q[k] = t[k]
    <3>1. k \in Int /\ 6 + k - 1 \in 1 .. Len(Chunk)
      BY <1>1, <1>3, <2>4
    <3>2. q[k] = Stream[pos + (6 + k - 1)]
      BY <1>1, <2>4, <3>1
    <3>3. pos + (6 + k - 1) = a + k - 1
      BY <1>2, <2>2, <3>1 DEF a
    <3>4. k \in 1 .. Len(t)
      BY <2>4, <2>5
    <3> QED BY <2>5, <3>2, <3>3, <3>4
  <2>7. q = t
    BY <2>4, <2>5, <2>6, SeqEqual
  <2> QED BY <2>1, <2>7 DEF t
<1> QED BY <1>3, <1>6, <1>7, <1>8, <1>9

\* The last chunk, without the trailer, completes the contents.
LEMMA LastPiece ==
  ASSUME TypeOK, LoadOK, outcome = "ok", Chunk # <<>>,
         BodyAt <= pos, pos <= TailAt, pos + Len(Chunk) = EndAt
  PROVE  /\ FileTail(Chunk)
         /\ SubSeq(Stream, BodyAt + 1, pos) \o Untail(Chunk) = body
<1>1. /\ Chunk \in Seq(Tokens) /\ Len(Chunk) \in Nat
      /\ \A k \in 1 .. Len(Chunk) : Chunk[k] = Stream[pos + k]
  BY ChunkIs
<1>2. /\ HeadAt \in Nat /\ BodyAt = HeadAt + 5 /\ Len(body) \in Nat
      /\ TailAt = BodyAt + Len(body) /\ EndAt = TailAt + 2 /\ Len(Stream) = EndAt
      /\ \A k \in 1 .. Len(body) : Stream[BodyAt + k] = body[k]
  BY StreamAt
<1>3. pos \in Nat /\ Stream \in Seq(Tokens) /\ body \in Seq(Tokens)
  BY StreamType
<1> DEFINE n == Len(Chunk)
           u == pos - BodyAt
           v == n - 2
           x == SubSeq(Stream, BodyAt + 1, pos)
           y == SubSeq(Chunk, 1, v)
<1>4. /\ n \in Nat /\ n >= 2 /\ v \in Nat /\ u \in Nat /\ pos = BodyAt + u
      /\ u + v = Len(body)
  BY <1>1, <1>2, <1>3
<1>5. FileTail(Chunk)
  BY <1>4, EndsAtTrailer
<1>6. Untail(Chunk) = y
  BY Literals DEF Untail
<1> HIDE DEF n, u, v
<1>7. y \in Seq(Tokens) /\ Len(y) = v /\ \A k \in 1 .. v : y[k] = Stream[pos + k]
  <2>1. 1 \in Nat \ {0} /\ v \in 0 .. Len(Chunk)
    BY <1>4 DEF n, v
  <2>2. y \in Seq(Tokens) /\ Len(y) = v /\ \A k \in 1 .. v : y[k] = Chunk[k]
    BY <1>1, <1>4, <2>1
  <2> HIDE DEF y
  <2>3. \A k \in 1 .. v : k \in 1 .. Len(Chunk)
    BY <2>1
  <2> QED BY <1>1, <2>2, <2>3
<1>8. x \in Seq(Tokens) /\ Len(x) = u /\ \A k \in 1 .. u : x[k] = Stream[BodyAt + k]
  <2> DEFINE a == BodyAt + 1
  <2>1. a \in Nat \ {0} /\ pos \in 0 .. Len(Stream) /\ u = pos - a + 1 /\ (a <= pos \/ u = 0)
    BY <1>2, <1>3, <1>4
  <2> HIDE DEF a
  <2>2. x = SubSeq(Stream, a, pos)
    BY DEF a
  <2> HIDE DEF x
  <2>3. /\ x \in Seq(Tokens)
        /\ Len(x) = IF a <= pos THEN pos - a + 1 ELSE 0
        /\ \A k \in 1 .. Len(x) : x[k] = Stream[a + k - 1]
    BY <1>3, <2>1, <2>2, Piece
  <2>4. Len(x) = u
    <3>1. Len(x) = IF a <= pos THEN pos - a + 1 ELSE 0
      BY <2>3
    <3> QED BY <1>3, <1>4, <2>1, <3>1
  <2>5. \A k \in 1 .. u : a + k - 1 = BodyAt + k
    BY <1>2, <1>4 DEF a
  <2> QED BY <2>3, <2>4, <2>5
<1> HIDE DEF x, y
<1>9. /\ x \o y \in Seq(Tokens) /\ Len(x \o y) = u + v
      /\ \A k \in 1 .. u : (x \o y)[k] = x[k]
      /\ \A k \in 1 .. v : (x \o y)[u + k] = y[k]
  <2>1. x \in Seq(Tokens) /\ y \in Seq(Tokens)
    BY <1>7, <1>8
  <2> DEFINE z == x \o y
  <2>2. /\ z \in Seq(Tokens) /\ Len(z) = Len(x) + Len(y)
        /\ \A k \in 1 .. Len(x) : z[k] = x[k]
        /\ \A k \in 1 .. Len(y) : z[Len(x) + k] = y[k]
    BY <2>1, Joined
  <2>3. Len(x) = u /\ Len(y) = v
    BY <1>7, <1>8
  <2> HIDE DEF z
  <2>4. /\ z \in Seq(Tokens) /\ Len(z) = u + v
        /\ \A k \in 1 .. u : z[k] = x[k]
        /\ \A k \in 1 .. v : z[u + k] = y[k]
    BY <2>2, <2>3
  <2> QED BY <2>4 DEF z
<1> DEFINE z == x \o y
<1>10. ASSUME NEW k \in 1 .. Len(body) PROVE z[k] = body[k]
  <2>1. CASE k \in 1 .. u
    BY <1>2, <1>8, <1>9, <2>1
  <2>2. CASE ~(k \in 1 .. u)
    <3> DEFINE j == k - u
    <3>1. j \in 1 .. v /\ k = u + j
      BY <1>2, <1>4, <2>2
    <3>2. pos + j = BodyAt + k
      BY <1>2, <1>4, <3>1
    <3> HIDE DEF j
    <3>3. z[k] = y[j] /\ y[j] = Stream[pos + j]
      BY <1>7, <1>9, <3>1
    <3> QED BY <1>2, <3>2, <3>3
  <2> QED BY <2>1, <2>2
<1>11. z \in Seq(Tokens) /\ Len(z) = Len(body)
  BY <1>4, <1>9
<1> HIDE DEF z
<1>12. z = body
  <2>1. z \in Seq(Tokens) /\ body \in Seq(Tokens)
    BY <1>3, <1>11
  <2>2. Len(z) = Len(body)
    BY <1>11
  <2>3. \A k \in 1 .. Len(z) : z[k] = body[k]
    BY <1>10, <2>2
  <2> QED BY <2>1, <2>2, <2>3, SeqEqual
<1> QED BY <1>5, <1>6, <1>12 DEF z, x

LEMMA ReceiveClean == Inv /\ Receive => CleanSoFar'
<1> SUFFICES ASSUME Inv, Receive, clean', outcome' = "ok"
             PROVE  ~asText' /\ (Waiting' \/ Inside' \/ Finished')
  BY DEF CleanSoFar
<1>1. /\ Take(Chunk) /\ Chunk # <<>>
      /\ UNCHANGED <<pre, body, load, outcome, sent, size>>
      /\ pos' = pos + Len(Chunk) /\ Stream' = Stream
  BY Taken DEF Inv
<1>2. clean /\ Harmless(Chunk) /\ outcome = "ok" /\ TypeOK /\ LoadOK
  BY <1>1 DEF Take, Inv
<1>3. ~asText /\ (Waiting \/ Inside \/ Finished)
  BY <1>2 DEF Inv, CleanSoFar
<1>4. HeadAt' = HeadAt /\ BodyAt' = BodyAt /\ TailAt' = TailAt /\ EndAt' = EndAt
  BY <1>1 DEF HeadAt, BodyAt, TailAt, EndAt
<1>5. /\ HeadAt \in Nat /\ BodyAt = HeadAt + 5 /\ Len(body) \in Nat
      /\ TailAt = BodyAt + Len(body) /\ EndAt = TailAt + 2 /\ Len(Stream) = EndAt
  BY <1>2, StreamAt
<1>6. /\ Chunk \in Seq(Tokens) /\ Len(Chunk) \in Nat /\ Len(Chunk) >= 1
      /\ pos + Len(Chunk) <= sent /\ sent <= Len(Stream) /\ pos \in Nat /\ sent \in Nat
  BY <1>1, <1>2, ChunkIs, StreamType
<1>7. CASE Waiting
  <2>1. pos <= HeadAt /\ ~receiveing /\ file = "none"
    BY <1>7 DEF Waiting
  <2>2. \/ pos + Len(Chunk) <= HeadAt
        \/ pos = HeadAt /\ BodyAt <= pos + Len(Chunk) /\ ~FileTail(Chunk)
    <3>1. ~(BodyAt <= pos)
      BY <1>5, <1>6, <2>1
    <3> QED BY <1>2, <3>1 DEF Harmless
  <2>3. CASE pos + Len(Chunk) <= HeadAt
    <3>1. ~IsFileHead(Chunk) /\ ~\E k \in DOMAIN Chunk : Chunk[k][1] = "body"
      BY <1>1, <1>2, <2>3, TextOnly
    <3>2. TextChunk
      BY <2>1, <3>1 DEF Receive, BeginFile, WholeFile, EndFile, FullChunk, ShortChunk
    <3>3. ~asText' /\ receiveing' = receiveing /\ file' = file
      BY <1>3, <3>1, <3>2 DEF TextChunk
    <3> QED BY <1>1, <1>4, <2>1, <2>3, <3>3 DEF Waiting
  <2>4. CASE pos = HeadAt /\ BodyAt <= pos + Len(Chunk) /\ ~FileTail(Chunk)
    <3>1. /\ IsFileHead(Chunk) /\ Len(Chunk) >= 5
          /\ SubSeq(Chunk, 3, 2 + NameLen(Chunk)) = FileName
          /\ Addon(Chunk) = SubSeq(Stream, BodyAt + 1, pos + Len(Chunk))
      BY <1>1, <1>2, <2>4, HeadFound
    <3>2. BeginFile
      BY <2>1, <2>4, <3>1 DEF Receive, WholeFile, EndFile, FullChunk, ShortChunk, TextChunk
    <3>3. pos + Len(Chunk) < EndAt
      <4>1. Len(Chunk) >= 2
        BY <1>6, <3>1
      <4>2. pos + Len(Chunk) # EndAt /\ pos + Len(Chunk) <= EndAt
        BY <1>1, <1>2, <2>4, <4>1, EndsAtTrailer
      <4>3. pos + Len(Chunk) \in Nat /\ EndAt \in Nat
        BY <1>5, <1>6
      <4> QED BY <4>2, <4>3
    <3>4. /\ receiveing' /\ rfilename' = FileName /\ file' = "open" /\ asText' = asText
          /\ saved' = SubSeq(Stream, BodyAt + 1, pos + Len(Chunk))
      BY <3>1, <3>2 DEF BeginFile
    <3>5. Inside'
      BY <1>1, <1>4, <2>4, <3>3, <3>4 DEF Inside
    <3> QED BY <1>3, <3>4, <3>5
  <2> QED BY <2>2, <2>3, <2>4
<1>8. CASE Inside
  <2>1. /\ BodyAt <= pos /\ pos < EndAt
        /\ receiveing /\ rfilename = FileName /\ file = "open"
        /\ saved = SubSeq(Stream, BodyAt + 1, pos)
    BY <1>8 DEF Inside
  <2>2. \/ Len(Chunk) = size /\ ~FileTail(Chunk)
        \/ pos <= TailAt /\ pos + Len(Chunk) = EndAt
    BY <1>2, <1>5, <1>6, <2>1 DEF Harmless
  <2>3. CASE Len(Chunk) = size /\ ~FileTail(Chunk)
    <3>1. size \in Nat /\ size >= 2 /\ Stream \in Seq(Tokens)
      BY <1>2, StreamType
    <3>2. ~IsShort(Chunk)
      BY <2>3, <3>1 DEF IsShort
    <3>3. FullChunk
      BY <2>1, <2>3, <3>2 DEF Receive, BeginFile, WholeFile, EndFile, ShortChunk, TextChunk
    <3>4. /\ receiveing' = receiveing /\ rfilename' = rfilename /\ file' = file
          /\ asText' = asText /\ saved' = saved \o Chunk
      BY <3>3 DEF FullChunk
    <3>5. saved' = SubSeq(Stream, BodyAt + 1, pos + Len(Chunk))
      <4> DEFINE a == BodyAt + 1
                 c == pos + Len(Chunk)
      <4>1. a \in Nat \ {0} /\ pos \in Nat /\ c \in 0 .. Len(Stream) /\ a <= pos + 1 /\ pos <= c
        BY <1>5, <1>6, <2>1
      <4>2. Chunk = SubSeq(Stream, pos + 1, c)
        BY <1>1, <1>2, ChunkIs
      <4> HIDE DEF c
      <4>3. saved = SubSeq(Stream, a, pos)
        BY <2>1
      <4> HIDE DEF a
      <4>4. SubSeq(Stream, a, pos) \o SubSeq(Stream, pos + 1, c) = SubSeq(Stream, a, c)
        BY <3>1, <4>1, Adjacent
      <4> QED BY <3>4, <4>2, <4>3, <4>4 DEF a, c
    <3>6. pos + Len(Chunk) < EndAt
      <4>1. Len(Chunk) >= 2
        BY <2>3, <3>1
      <4>2. pos + Len(Chunk) # EndAt /\ pos + Len(Chunk) <= EndAt
        BY <1>1, <1>2, <2>3, <4>1, EndsAtTrailer
      <4>3. pos + Len(Chunk) \in Nat /\ EndAt \in Nat
        BY <1>5, <1>6
      <4> QED BY <4>2, <4>3
    <3>7. BodyAt <= pos + Len(Chunk)
      BY <1>5, <1>6, <2>1
    <3>8. Inside'
      BY <1>1, <1>4, <2>1, <3>4, <3>5, <3>6, <3>7 DEF Inside
    <3> QED BY <1>3, <3>4, <3>8
  <2>4. CASE pos <= TailAt /\ pos + Len(Chunk) = EndAt
    <3>1. FileTail(Chunk) /\ saved \o Untail(Chunk) = body
      BY <1>1, <1>2, <2>1, <2>4, LastPiece
    <3>2. EndFile
      BY <2>1, <3>1 DEF Receive, BeginFile, WholeFile, FullChunk, ShortChunk, TextChunk
    <3>3. /\ ~receiveing' /\ file' = "closed" /\ saved' = body /\ reported'
          /\ rfilename' = FileName /\ asText' = asText
      BY <2>1, <3>1, <3>2 DEF EndFile
    <3>4. Finished'
      BY <1>1, <1>4, <2>4, <3>3 DEF Finished
    <3> QED BY <1>3, <3>3, <3>4
  <2> QED BY <2>2, <2>3, <2>4
<1>9. CASE Finished
  <2>1. pos = EndAt
    BY <1>9 DEF Finished
  <2> QED BY <1>5, <1>6, <2>1
<1> QED BY <1>3, <1>7, <1>8, <1>9

\* Inv is an invariant of the exchange.
THEOREM Invariance == Spec => []Inv
<1>1. Init => Inv
  BY InitInv
<1>2. Inv /\ [Next]_vars => Inv'
  <2> SUFFICES ASSUME Inv, [Next]_vars PROVE Inv'
    OBVIOUS
  <2>1. CASE Send
    BY <2>1, SendInv
  <2>2. CASE SendfileFails \/ OpenFails
    BY <2>2, FailInv
  <2>3. CASE Receive
    <3>1. TypeOK' /\ CleanSoFar'
      BY <2>3, ReceiveType, ReceiveClean DEF Inv
    <3>2. LoadOK'
      BY <2>3, Taken DEF Inv, LoadOK
    <3> QED BY <3>1, <3>2 DEF Inv
  <2>4. CASE UNCHANGED vars
    BY <2>4 DEF Inv, vars, senderVars, TypeOK, LoadOK, CleanSoFar, Waiting, Inside, Finished,
                HeadAt, BodyAt, TailAt, EndAt, Stream
  <2> QED BY <2>1, <2>2, <2>3, <2>4 DEF Next
<1> QED BY <1>1, <1>2, PTL DEF Spec

\* The variables of sender and receiver have their types in every state.
THEOREM Types == Spec => []TypeOK
<1>1. Inv => TypeOK
  BY DEF Inv
<1> QED BY <1>1, Invariance, PTL

\* _receFile() saves what _sendFile() was given, byte for byte, whenever no
\* recv() returned at a harmful place: for every file, every text before the
\* head and every buffer that holds the trailer (command.h:31-118).
THEOREM Intact == Spec => []IntactIfClean
<1>1. Inv => IntactIfClean
  <2> SUFFICES ASSUME Inv, clean, outcome = "ok", Drained
               PROVE  /\ saved = body /\ rfilename = FileName
                      /\ file = "closed" /\ reported /\ ~receiveing /\ ~asText
    BY DEF IntactIfClean
  <2>1. TypeOK /\ LoadOK /\ ~asText /\ (Waiting \/ Inside \/ Finished)
    BY DEF Inv, CleanSoFar
  <2>2. /\ HeadAt \in Nat /\ BodyAt = HeadAt + 5 /\ Len(body) \in Nat
        /\ TailAt = BodyAt + Len(body) /\ EndAt = TailAt + 2 /\ Len(Stream) = EndAt
    BY <2>1, StreamAt
  <2>3. pos = EndAt
    BY <2>2 DEF Drained, AllSent
  <2>4. ~Waiting /\ ~Inside
    BY <2>2, <2>3 DEF Waiting, Inside
  <2> QED BY <2>1, <2>4 DEF Finished
<1> QED BY <1>1, Invariance, PTL
-----------------------------------------------------------------------------
(* The receiver leaves its receiving state.                                *)

\* It is in that state only after a head, and not when everything was read.
StopInv == /\ pos <= Len(pre) \/ outcome = "unopened" => ~receiveing
           /\ StopsAtEnd

\* A head is recognised by the first tokens of the chunk.
LEMMA HeadAtStart ==
  ASSUME NEW c \in Seq(Tokens), IsFileHead(c)
  PROVE  Len(c) >= 2 /\ c[1] = Mark[1] /\ c[2] = Mark[2]
<1> DEFINE q == SubSeq(c, 1, 2)
<1>1. Len(c) >= 2 /\ q = Mark /\ Len(c) \in Nat
  BY Literals DEF IsFileHead, StartsWith
<1>2. q[1] = c[1] /\ q[2] = c[2]
  BY <1>1
<1> HIDE DEF q
<1> QED BY <1>1, <1>2

\* What the sender writes before the head and instead of a file is no head.
LEMMA NoHead ==
  ASSUME TypeOK, Chunk # <<>>, pos + Len(Chunk) <= Len(pre) \/ outcome = "unopened"
  PROVE  ~IsFileHead(Chunk)
<1>1. /\ Chunk \in Seq(Tokens) /\ Len(Chunk) \in Nat /\ Len(Chunk) >= 1
      /\ Chunk[1] = Stream[pos + 1] /\ pos + 1 <= Len(Stream) /\ pos \in Nat
  BY ChunkIs, StreamType
<1>2. /\ pre \in Seq(Tokens) /\ load \in Seq(Tokens) /\ Len(pre) \in Nat
      /\ Trailer \in Seq(Tokens) /\ DownFail \in Seq(Tokens) /\ Len(DownFail) = 1
  BY StreamType, Literals DEF TypeOK
<1>3. \A k \in 1 .. Len(pre) : pre[k] \in Texts
  BY TransferAssumption DEF TypeOK
<1>4. \A t \in Texts : t # Mark[1]
  BY Literals DEF Texts
<1>5. DownFail[1] # Mark[1]
  BY Literals DEF DownFail
<1>6. CASE pos + 1 <= Len(pre)
  <2>1. \A rest \in Seq(Tokens) : (pre \o rest)[pos + 1] = pre[pos + 1]
    <3>1. pos + 1 \in 1 .. Len(pre)
      BY <1>1, <1>2, <1>6
    <3> QED BY <1>2, <3>1, Joined
  <2>2. \E rest \in Seq(Tokens) : Stream = pre \o rest
    <3>1. (pre \o load) \o Trailer = pre \o (load \o Trailer)
      BY <1>2, Together
    <3>2. ((pre \o load) \o Trailer) \o DownFail = pre \o ((load \o Trailer) \o DownFail)
      <4>1. \A a, b, c \in Seq(Tokens) : (a \o b) \o c = a \o (b \o c)
        BY Together
      <4>2. load \o Trailer \in Seq(Tokens)
        BY <1>2
      <4>3. (pre \o (load \o Trailer)) \o DownFail = pre \o ((load \o Trailer) \o DownFail)
        BY <1>2, <4>1, <4>2, Zenon
      <4> QED BY <3>1, <4>3
    <3>3. <<>> \in Seq(Tokens) /\ pre \o <<>> = pre
      BY <1>2
    <3>4. load \o Trailer \in Seq(Tokens) /\ (load \o Trailer) \o DownFail \in Seq(Tokens)
      BY <1>2
    <3> QED BY <1>2, <3>1, <3>2, <3>3, <3>4 DEF Stream
  <2>3. Chunk[1] = pre[pos + 1]
    BY <1>1, <2>1, <2>2
  <2>4. pos + 1 \in 1 .. Len(pre)
    BY <1>1, <1>2, <1>6
  <2>5. Chunk[1] # Mark[1]
    BY <1>3, <1>4, <2>3, <2>4
  <2> QED BY <1>1, <2>5, HeadAtStart
<1>7. CASE ~(pos + 1 <= Len(pre))
  <2>1. outcome = "unopened"
    BY <1>1, <1>2, <1>7
  <2>2. Stream = pre \o DownFail
    BY <1>1, <1>7, <2>1 DEF Stream
  <2>3. Len(Stream) = Len(pre) + 1 /\ Stream[Len(pre) + 1] = DownFail[1]
    <3> DEFINE z == pre \o DownFail
    <3>3. pre \in Seq(Tokens) /\ DownFail \in Seq(Tokens)
      BY <1>2
    <3>1. /\ z \in Seq(Tokens) /\ Len(z) = Len(pre) + Len(DownFail)
          /\ \A k \in 1 .. Len(pre) : z[k] = pre[k]
          /\ \A k \in 1 .. Len(DownFail) : z[Len(pre) + k] = DownFail[k]
      BY <3>3, Joined
    <3> HIDE DEF z
    <3>2. Stream = z
      BY <2>2 DEF z
    <3> QED BY <1>2, <3>1, <3>2
  <2>4. pos + 1 = Len(pre) + 1
    BY <1>1, <1>2, <1>7, <2>3
  <2>5. Chunk[1] # Mark[1]
    BY <1>1, <1>5, <2>3, <2>4
  <2> QED BY <1>1, <2>5, HeadAtStart
<1> QED BY <1>6, <1>7

\* A chunk that ends where a stream ends that has a trailer is the last one.
LEMMA LastChunk ==
  ASSUME TypeOK, Chunk # <<>>, pos + Len(Chunk) = Len(Stream),
         Stream = (pre \o load) \o Trailer
  PROVE  FileTail(Chunk) \/ (IsShort(Chunk) /\ Len(Chunk) = 1)
<1> DEFINE mid == pre \o load
<1>1. /\ Chunk \in Seq(Tokens) /\ Len(Chunk) \in Nat /\ Len(Chunk) >= 1
      /\ \A k \in 1 .. Len(Chunk) : Chunk[k] = Stream[pos + k]
  <2>1. /\ Chunk \in Seq(Tokens) /\ Len(Chunk) \in 1 .. size
        /\ \A k \in 1 .. Len(Chunk) : Chunk[k] = Stream[pos + k]
    BY ChunkIs, Zenon
  <2>2. Len(Chunk) \in Nat /\ Len(Chunk) >= 1
    <3>1. size \in Nat
      BY StreamType
    <3> QED BY <2>1, <3>1
  <2> QED BY <2>1, <2>2
<1>2. pos \in Nat /\ size \in Nat /\ size >= 2
  BY StreamType
<1>3. Trailer \in Seq(Tokens) /\ Len(Trailer) = 2
  BY Literals
<1>4. mid \in Seq(Tokens) /\ Len(mid) \in Nat
  BY StreamType DEF TypeOK
<1> HIDE DEF mid
<1>5. Len(Stream) = Len(mid) + 2 /\ \A k \in 1 .. 2 : Stream[Len(mid) + k] = Trailer[k]
  <2> DEFINE z == mid \o Trailer
  <2>3. mid \in Seq(Tokens) /\ Trailer \in Seq(Tokens)
    BY <1>3, <1>4
  <2>1. /\ z \in Seq(Tokens) /\ Len(z) = Len(mid) + Len(Trailer)
        /\ \A k \in 1 .. Len(mid) : z[k] = mid[k]
        /\ \A k \in 1 .. Len(Trailer) : z[Len(mid) + k] = Trailer[k]
    BY <2>3, Joined
  <2> HIDE DEF z
  <2>2. Stream = z
    BY DEF z, mid
  <2> QED BY <1>3, <2>1, <2>2
<1>6. CASE Len(Chunk) = 1
  BY <1>2, <1>6 DEF IsShort
<1>7. CASE Len(Chunk) # 1
  <2> DEFINE a == Len(Chunk) - 1
             q == SubSeq(Chunk, a, Len(Chunk))
  <2>1. a \in Nat \ {0} /\ Len(Chunk) \in 0 .. Len(Chunk) /\ a <= Len(Chunk) /\ Len(Chunk) = a + 1
    BY <1>1, <1>7
  <2>2. pos + a = Len(mid) + 1 /\ pos + (a + 1) = Len(mid) + 2
    BY <1>1, <1>2, <1>4, <1>5
  <2>3. Len(Chunk) - Len(Trailer) + 1 = a
    BY <1>1, <1>3
  <2> HIDE DEF a
  <2>4. q \in Seq(Tokens) /\ Len(q) = Len(Chunk) - a + 1
        /\ \A k \in 1 .. Len(q) : q[k] = Chunk[a + k - 1]
    BY <1>1, <2>1, Piece
  <2> HIDE DEF q
  <2>5. Len(q) = 2
    BY <1>1, <2>1, <2>4
  <2>6. q[1] = Chunk[a] /\ q[2] = Chunk[a + 1]
    <3>1. a + 1 - 1 = a /\ a + 2 - 1 = a + 1 /\ 1 \in 1 .. Len(q) /\ 2 \in 1 .. Len(q)
      BY <2>1, <2>5
    <3>2. q[1] = Chunk[a + 1 - 1] /\ q[2] = Chunk[a + 2 - 1]
      BY <2>4, <3>1
    <3> QED BY <3>1, <3>2
  <2>7. q[1] = Trailer[1] /\ q[2] = Trailer[2]
    <3>1. Chunk[a] = Stream[Len(mid) + 1] /\ Chunk[a + 1] = Stream[Len(mid) + 2]
      <4>1. a \in 1 .. Len(Chunk) /\ a + 1 \in 1 .. Len(Chunk)
        BY <1>1, <2>1
      <4>2. Chunk[a] = Stream[pos + a] /\ Chunk[a + 1] = Stream[pos + (a + 1)]
        BY <1>1, <4>1
      <4> QED BY <2>2, <4>2
    <3> QED BY <1>5, <2>6, <3>1
  <2>8. q = Trailer
    BY <1>3, <2>4, <2>5, <2>7, SeqEqual
  <2>9. Len(Chunk) >= Len(Trailer)
    BY <1>3, <2>1
  <2> QED BY <2>3, <2>8, <2>9 DEF FileTail, EndsWith, q
<1> QED BY <1>6, <1>7

LEMMA StopReceive == Inv /\ StopInv /\ Receive => StopInv'
<1> SUFFICES ASSUME Inv, StopInv, Receive PROVE StopInv'
  OBVIOUS
<1>1. /\ Chunk # <<>> /\ UNCHANGED <<pre, body, load, outcome, sent, size>>
      /\ pos' = pos + Len(Chunk) /\ Stream' = Stream /\ TypeOK
  BY Taken DEF Inv
<1>2. /\ Len(Chunk) \in Nat /\ Len(Chunk) >= 1 /\ pos \in Nat /\ size \in Nat /\ size >= 2
      /\ pos + Len(Chunk) <= sent /\ sent <= Len(Stream) /\ Chunk \in Seq(Tokens)
      /\ Len(pre) \in Nat /\ sent \in Nat
  BY <1>1, ChunkIs, StreamType
<1>3. ASSUME pos' <= Len(pre') \/ outcome' = "unopened" PROVE ~receiveing'
  <2>1. ~IsFileHead(Chunk)
    BY <1>1, <1>3, NoHead
  <2>2. ~receiveing
    BY <1>1, <1>2, <1>3 DEF StopInv
  <2> QED BY <2>1, <2>2 DEF Receive, BeginFile, WholeFile, EndFile, FullChunk, ShortChunk, TextChunk
<1>4. ASSUME Drained', outcome' = "ok" \/ ~ToClient PROVE ~receiveing'
  <2>1. pos + Len(Chunk) = Len(Stream)
    BY <1>1, <1>4 DEF Drained, AllSent
  <2>2. CASE outcome = "unopened"
    BY <1>1, <1>3, <2>2
  <2>3. CASE outcome # "unopened"
    <3>1. Stream = (pre \o load) \o Trailer
      BY <1>1, <1>4, <2>3 DEF Stream
    <3>2. FileTail(Chunk) \/ (IsShort(Chunk) /\ Len(Chunk) = 1)
      BY <1>1, <2>1, <3>1, LastChunk
    <3>3. Len(Chunk) = 1 => ~IsFileHead(Chunk)
      BY <1>2, HeadAtStart
    <3> QED
      BY <3>2, <3>3 DEF Receive, BeginFile, WholeFile, EndFile, FullChunk, ShortChunk, TextChunk
  <2> QED BY <2>2, <2>3
<1> QED BY <1>3, <1>4 DEF StopInv, StopsAtEnd

\* However TCP cuts the stream, whatever the file holds and whether or not sendfile()
\* fails on the way to the server, the receiver is not left receiving when the
\* sender's last byte has been read (command.h:57-71).
THEOREM Stops == Spec => []StopsAtEnd
<1>1. Init => StopInv
  BY DEF Init, StopInv, StopsAtEnd
<1>2. Inv /\ StopInv /\ [Next]_vars => StopInv'
  <2> SUFFICES ASSUME Inv, StopInv, [Next]_vars PROVE StopInv'
    OBVIOUS
  <2>1. /\ pos \in Nat /\ sent \in Nat /\ Len(Stream) \in Nat /\ Len(pre) \in Nat
        /\ pos <= sent /\ sent <= Len(Stream) /\ TypeOK
    BY StreamType DEF Inv, TypeOK
  <2>2. CASE Send
    <3>1. /\ sent' \in (sent + 1) .. Len(Stream)
          /\ UNCHANGED <<pre, load, outcome, pos, receiveing>> /\ Stream' = Stream
      BY <2>2 DEF Send, Stream
    <3>2. ~Drained'
      BY <2>1, <3>1 DEF Drained
    <3> QED BY <3>1, <3>2 DEF StopInv, StopsAtEnd
  <2>3. CASE SendfileFails
    <3>1. /\ outcome = "ok" /\ outcome' = "failed" /\ Len(pre) <= sent
          /\ sent < Len(pre) + Len(load) /\ load' = SubSeq(load, 1, sent - Len(pre))
          /\ UNCHANGED <<pre, sent, pos, receiveing>>
      BY <2>3 DEF SendfileFails
    <3>2. Len(Stream') > sent
      <4> DEFINE n == sent - Len(pre)
                 l == SubSeq(load, 1, n)
      <4>1. load \in Seq(Tokens) /\ pre \in Seq(Tokens) /\ Len(load) \in Nat
        BY <2>1, StreamType DEF TypeOK
      <4>2. n \in 0 .. Len(load) /\ n + Len(pre) = sent
        BY <2>1, <3>1, <4>1
      <4> HIDE DEF n
      <4>3. l \in Seq(Tokens) /\ Len(l) = n
        BY <4>1, <4>2
      <4>4. load' = l
        BY <3>1 DEF n
      <4> HIDE DEF l
      <4>5. /\ Trailer \in Seq(Tokens) /\ Len(Trailer) = 2
            /\ DownFail \in Seq(Tokens) /\ Len(DownFail) = 1
        BY Literals
      <4>6. pre \o l \in Seq(Tokens) /\ Len(pre \o l) = sent
        BY <2>1, <4>1, <4>2, <4>3
      <4> DEFINE m == pre \o l
      <4>7. m \in Seq(Tokens) /\ Len(m) = sent
        BY <4>6
      <4>8. Stream' = m \o Trailer \/ Stream' = (m \o Trailer) \o DownFail
        BY <3>1, <4>4 DEF Stream
      <4> HIDE DEF m
      <4>9. m \o Trailer \in Seq(Tokens) /\ Len(m \o Trailer) = sent + 2
        <5>1. \A a, b \in Seq(Tokens) : a \o b \in Seq(Tokens) /\ Len(a \o b) = Len(a) + Len(b)
          OBVIOUS
        <5> QED BY <4>5, <4>7, <5>1
      <4>10. Len((m \o Trailer) \o DownFail) = sent + 2 + 1
        <5>1. \A a, b \in Seq(Tokens) : a \o b \in Seq(Tokens) /\ Len(a \o b) = Len(a) + Len(b)
          OBVIOUS
        <5>2. Len((m \o Trailer) \o DownFail) = Len(m \o Trailer) + Len(DownFail)
          BY <4>5, <4>9, <5>1
        <5> QED BY <4>5, <4>9, <5>2
      <4> QED BY <2>1, <4>8, <4>9, <4>10
    <3>3. ~Drained'
      BY <2>1, <3>1, <3>2 DEF Drained, AllSent
    <3> QED BY <3>1, <3>3 DEF StopInv, StopsAtEnd
  <2>4. CASE OpenFails
    <3>1. /\ outcome' = "unopened" /\ sent <= Len(pre) /\ UNCHANGED <<pre, pos, receiveing>>
      BY <2>4 DEF OpenFails
    <3>2. ~receiveing
      BY <2>1, <3>1 DEF StopInv
    <3> QED BY <3>1, <3>2 DEF StopInv, StopsAtEnd
  <2>5. CASE Receive
    BY <2>5, StopReceive
  <2>6. CASE UNCHANGED vars
    BY <2>6 DEF vars, senderVars, StopInv, StopsAtEnd, Drained, AllSent, Stream
  <2> QED BY <2>2, <2>3, <2>4, <2>5, <2>6 DEF Next
<1>3. StopInv => StopsAtEnd
  BY DEF StopInv
<1> QED BY <1>1, <1>2, <1>3, Invariance, PTL DEF Spec
-----------------------------------------------------------------------------
(* Which transfers work when every chunk fills the buffer.                 *)

\* The receiver has passed the head, which began a chunk.
Begun == HeadAt % size = 0 /\ pos > HeadAt

\* The buffer does not hold the whole head: the name is cut, or the end of the head's
\* line is taken for contents.
Broken ==
  /\ size < 5
  /\ \/ rfilename # FileName
     \/ /\ size = 4 /\ receiveing /\ ~reported /\ Len(saved) = pos - HeadAt - 4
     \/ /\ pos = EndAt /\ ~receiveing /\ (Len(saved) = Len(body) + 1 \/ ~reported)

\* Head and trailer share a chunk, which is saved on top of the contents.
Doubled ==
  /\ EndAt - HeadAt <= size
  /\ pos = EndAt /\ ~receiveing /\ Len(saved) > Len(body)

\* The contents arrive in several chunks; the last may hold half of the trailer only.
Going ==
  /\ 5 <= size /\ size < EndAt - HeadAt
  /\ \/ Inside /\ ~reported
     \/ /\ pos = EndAt /\ ~receiveing
        /\ IF EndAt % size = 1 THEN ~reported ELSE Received

LayoutInv ==
  filled /\ Plain /\ outcome = "ok" =>
    /\ pos % size = 0 \/ pos = EndAt
    /\ ~Begun => ~receiveing /\ ~reported
    /\ Begun => Broken \/ Doubled \/ Going

\* The last two tokens of what ends with the trailer.
LEMMA TailAtEnd ==
  ASSUME NEW c \in Seq(Tokens), FileTail(c)
  PROVE  Len(c) >= 2 /\ c[Len(c) - 1] = Trailer[1] /\ c[Len(c)] = Trailer[2]
<1> DEFINE a == Len(c) - 1
           q == SubSeq(c, a, Len(c))
<1>1. Len(c) \in Nat /\ Len(c) >= 2 /\ Len(c) - Len(Trailer) + 1 = a
  BY Literals DEF FileTail, EndsWith
<1>2. a \in Nat \ {0} /\ Len(c) \in 0 .. Len(c) /\ a <= Len(c) /\ Len(c) = a + 1
  <2>1. \A n \in Nat : n >= 2 => /\ n - 1 \in Nat \ {0} /\ n \in 0 .. n
                                 /\ n - 1 <= n /\ n = (n - 1) + 1
    OBVIOUS
  <2> QED BY <1>1, <2>1
<1>3. q = Trailer
  BY <1>1 DEF FileTail, EndsWith
<1> HIDE DEF a
<1>4. Len(q) = 2 /\ \A k \in 1 .. Len(q) : q[k] = c[a + k - 1]
  <2>1. /\ Len(q) = IF a <= Len(c) THEN Len(c) - a + 1 ELSE 0
        /\ \A k \in 1 .. Len(q) : q[k] = c[a + k - 1]
    BY <1>2, Piece
  <2> HIDE DEF q
  <2> QED BY <1>2, <2>1
<1> HIDE DEF q
<1>5. q[1] = c[a] /\ q[2] = c[a + 1]
  <2>1. a + 1 - 1 = a /\ a + 2 - 1 = a + 1 /\ 1 \in 1 .. Len(q) /\ 2 \in 1 .. Len(q)
    BY <1>2, <1>4
  <2>2. q[1] = c[a + 1 - 1] /\ q[2] = c[a + 2 - 1]
    BY <1>4, <2>1
  <2> QED BY <2>1, <2>2
<1> QED BY <1>1, <1>2, <1>3, <1>5 DEF a

\* A text of two tokens that the file does not contain.
LEMMA NotInBody ==
  ASSUME NEW t \in Seq(Tokens), Len(t) = 2, body \in Seq(Tokens), Without(t),
         NEW k \in 1 .. Len(body), k + 1 <= Len(body)
  PROVE  ~(body[k] = t[1] /\ body[k + 1] = t[2])
<1> SUFFICES ASSUME body[k] = t[1], body[k + 1] = t[2] PROVE FALSE
  OBVIOUS
<1> DEFINE q == SubSeq(body, k, k + 1)
<1>1. Len(body) \in Nat /\ k \in Nat \ {0} /\ k + 1 \in 0 .. Len(body)
  OBVIOUS
<1>2. /\ q \in Seq(Tokens) /\ Len(q) = 2 /\ q[1] = body[k] /\ q[2] = body[k + 1]
  <2> PICK b \in 0 .. Len(body) : b = k + 1
    BY <1>1
  <2> DEFINE r == SubSeq(body, k, b)
  <2>1. /\ r \in Seq(Tokens) /\ Len(r) = IF k <= b THEN b - k + 1 ELSE 0
        /\ \A j \in 1 .. Len(r) : r[j] = body[k + j - 1]
    BY <1>1, Piece
  <2>2. q = r
    OBVIOUS
  <2> HIDE DEF q, r
  <2>3. Len(r) = 2 /\ k + 1 - 1 = k /\ k + 2 - 1 = k + 1
    BY <1>1, <2>1
  <2>4. r[1] = body[k + 1 - 1] /\ r[2] = body[k + 2 - 1]
    BY <2>1, <2>3
  <2> QED BY <2>1, <2>2, <2>3, <2>4
<1>3. q = t
  <2> HIDE DEF q
  <2>1. \A j \in 1 .. Len(q) : q[j] = t[j]
    BY <1>2
  <2> QED BY <1>2, <2>1, SeqEqual
<1>4. k - 1 \in 0 .. Len(body) - 2 /\ (k - 1) + 1 = k /\ (k - 1) + 2 = k + 1
  BY <1>1
<1> QED BY <1>3, <1>4 DEF Without

\* The trailer's text and that of a head occur in the stream once.
LEMMA OnceInStream ==
  ASSUME TypeOK, LoadOK, outcome = "ok", Plain,
         NEW k \in 1 .. EndAt, k + 1 <= EndAt
  PROVE  /\ Stream[k] = Trailer[1] /\ Stream[k + 1] = Trailer[2] => k + 1 = EndAt
         /\ Stream[k] = Mark[1] /\ Stream[k + 1] = Mark[2] => k = HeadAt + 1
<1>1. /\ HeadAt \in Nat /\ BodyAt = HeadAt + 5
      /\ Len(body) \in Nat /\ TailAt = BodyAt + Len(body)
      /\ EndAt = TailAt + 2 /\ HeadAt = Len(pre)
  BY StreamAt DEF HeadAt
<1>2. /\ \A j \in 1 .. HeadAt : Stream[j] = pre[j]
      /\ \A j \in 1 .. 5 : Stream[HeadAt + j] = FileHead[j]
      /\ \A j \in 1 .. Len(body) : Stream[BodyAt + j] = body[j]
      /\ \A j \in 1 .. 2 : Stream[TailAt + j] = Trailer[j]
  BY StreamAt
<1>3. /\ Trailer[1] = <<"tail", 1>> /\ Trailer[2] = <<"tail", 2>>
      /\ Mark[1] = <<"mark", 1>> /\ Mark[2] = <<"mark", 2>>
  BY DEF Trailer, Mark
<1>4. CASE k <= HeadAt
  <2>1. Stream[k] \in Texts
    <3>1. \A j \in 1 .. Len(pre) : pre[j] \in Texts
      BY TransferAssumption DEF TypeOK
    <3> QED BY <1>1, <1>2, <1>4, <3>1
  <2> QED BY <1>3, <2>1 DEF Texts
<1>5. CASE HeadAt < k /\ k <= BodyAt
  <2>1. k - HeadAt \in 1 .. 5 /\ HeadAt + (k - HeadAt) = k
    BY <1>1, <1>5
  <2>2. Stream[k] = FileHead[k - HeadAt]
    BY <1>2, <2>1
  <2>3. \A j \in 1 .. 5 : FileHead[j] # Trailer[1] /\ (FileHead[j] = Mark[1] => j = 1)
    BY <1>3, Literals
  <2> QED BY <1>1, <2>1, <2>2, <2>3
<1>6. CASE BodyAt < k /\ k < TailAt
  <2> DEFINE j == k - BodyAt
  <2>1. j \in 1 .. Len(body) /\ j + 1 \in 1 .. Len(body) /\ BodyAt + j = k
        /\ BodyAt + (j + 1) = k + 1
    BY <1>1, <1>6
  <2> HIDE DEF j
  <2>2. Stream[k] = body[j] /\ Stream[k + 1] = body[j + 1]
    BY <1>2, <2>1
  <2>3. body \in Seq(Tokens)
    BY StreamType
  <2>4. /\ ~(body[j] = Trailer[1] /\ body[j + 1] = Trailer[2])
        /\ ~(body[j] = Mark[1] /\ body[j + 1] = Mark[2])
    <3>1. j \in 1 .. Len(body) /\ j + 1 <= Len(body)
      BY <1>1, <2>1
    <3> QED BY <2>3, <3>1, NotInBody, Literals DEF Plain
  <2> QED BY <2>2, <2>4
<1>7. CASE k = TailAt
  <2>1. Stream[k + 1] = Trailer[1]
    BY <1>2, <1>7
  <2> QED BY <1>3, <2>1
<1>8. CASE k = TailAt + 1
  <2>1. 1 \in 1 .. 2
    OBVIOUS
  <2>2. Stream[k] = Trailer[1] /\ k + 1 = EndAt
    <3>1. Stream[TailAt + 1] = Trailer[1]
      BY <1>2, <2>1
    <3>2. TailAt \in Nat /\ EndAt = TailAt + 2
      BY <1>1
    <3> QED BY <1>8, <3>1, <3>2
  <2> QED BY <1>3, <2>2
<1> QED BY <1>1, <1>4, <1>5, <1>6, <1>7, <1>8

LEMMA OnlyTrailer ==
  ASSUME TypeOK, LoadOK, outcome = "ok", Plain, Chunk # <<>>, FileTail(Chunk)
  PROVE  pos + Len(Chunk) = EndAt
<1>1. /\ Chunk \in Seq(Tokens) /\ Len(Chunk) \in Nat
      /\ \A k \in 1 .. Len(Chunk) : Chunk[k] = Stream[pos + k]
      /\ pos + Len(Chunk) <= EndAt /\ pos \in Nat /\ EndAt \in Nat
  <2>1. Len(Stream) = EndAt /\ Stream \in Seq(Tokens)
    BY StreamAt, StreamType
  <2> QED BY <2>1, ChunkIs, StreamType
<1>2. Len(Chunk) >= 2 /\ Chunk[Len(Chunk) - 1] = Trailer[1] /\ Chunk[Len(Chunk)] = Trailer[2]
  BY <1>1, TailAtEnd
<1> DEFINE n == Len(Chunk)
<1>3. /\ n - 1 \in 1 .. n /\ n \in 1 .. n /\ pos + (n - 1) \in 1 .. EndAt
      /\ (pos + (n - 1)) + 1 = pos + n /\ (pos + (n - 1)) + 1 <= EndAt
  BY <1>1, <1>2
<1>4. Stream[pos + (n - 1)] = Trailer[1] /\ Stream[(pos + (n - 1)) + 1] = Trailer[2]
  BY <1>1, <1>2, <1>3
<1> HIDE DEF n
<1>5. (pos + (n - 1)) + 1 = EndAt
  BY <1>3, <1>4, OnceInStream
<1> QED BY <1>3, <1>5 DEF n

LEMMA OnlyHead ==
  ASSUME TypeOK, LoadOK, outcome = "ok", Plain, Chunk # <<>>, IsFileHead(Chunk)
  PROVE  pos = HeadAt
<1>1. /\ Chunk \in Seq(Tokens) /\ Len(Chunk) \in Nat
      /\ \A k \in 1 .. Len(Chunk) : Chunk[k] = Stream[pos + k]
      /\ pos + Len(Chunk) <= EndAt /\ pos \in Nat /\ EndAt \in Nat
  <2>1. Len(Stream) = EndAt /\ Stream \in Seq(Tokens)
    BY StreamAt, StreamType
  <2> QED BY <2>1, ChunkIs, StreamType
<1>2. Len(Chunk) >= 2 /\ Chunk[1] = Mark[1] /\ Chunk[2] = Mark[2]
  BY <1>1, HeadAtStart
<1>3. /\ 1 \in 1 .. Len(Chunk) /\ 2 \in 1 .. Len(Chunk) /\ pos + 1 \in 1 .. EndAt
      /\ (pos + 1) + 1 = pos + 2 /\ (pos + 1) + 1 <= EndAt
  BY <1>1, <1>2
<1>4. Stream[pos + 1] = Mark[1] /\ Stream[(pos + 1) + 1] = Mark[2]
  BY <1>1, <1>2, <1>3
<1>5. pos + 1 = HeadAt + 1
  BY <1>3, <1>4, OnceInStream
<1> QED BY <1>1, <1>5, StreamAt

\* A chunk at the head is recognised although it does not hold all of it.
LEMMA HeadBegins ==
  ASSUME TypeOK, LoadOK, outcome = "ok", Chunk # <<>>, pos = HeadAt, Len(Chunk) >= 2
  PROVE  IsFileHead(Chunk)
<1>1. /\ Chunk \in Seq(Tokens) /\ Len(Chunk) \in Nat
      /\ \A k \in 1 .. Len(Chunk) : Chunk[k] = Stream[pos + k]
  BY ChunkIs
<1>2. \A k \in 1 .. 5 : Stream[HeadAt + k] = FileHead[k]
  BY StreamAt
<1>3. Chunk[1] = Mark[1] /\ Chunk[2] = Mark[2]
  <2>1. 1 \in 1 .. Len(Chunk) /\ 2 \in 1 .. Len(Chunk)
    BY <1>1
  <2> QED BY <1>1, <1>2, <2>1, Literals
<1> DEFINE q == SubSeq(Chunk, 1, 2)
<1>4. q \in Seq(Tokens) /\ Len(q) = 2 /\ q[1] = Chunk[1] /\ q[2] = Chunk[2]
  <2>1. 1 \in Nat \ {0} /\ 2 \in 0 .. Len(Chunk)
    BY <1>1
  <2> QED BY <1>1, <2>1
<1> HIDE DEF q
<1>5. q = Mark
  <2>1. Mark \in Seq(Tokens) /\ Len(Mark) = Len(q)
    BY <1>4, Literals
  <2>2. \A k \in 1 .. Len(q) : q[k] = Mark[k]
    BY <1>3, <1>4
  <2> QED BY <1>4, <2>1, <2>2, SeqEqual
<1> QED BY <1>1, <1>4, <1>5, Literals DEF IsFileHead, StartsWith, q

\* The chunks are of the buffer's size, the last one excepted.
LEMMA FilledChunk ==
  ASSUME TypeOK, LoadOK, outcome = "ok", Receive, filled',
         pos % size = 0 \/ pos = EndAt
  PROVE  /\ filled /\ pos % size = 0 /\ pos + Len(Chunk) <= EndAt
         /\ Len(Chunk) \in Nat /\ Len(Chunk) >= 1 /\ Len(Chunk) <= size
         /\ Len(Chunk) = size \/ pos + Len(Chunk) = EndAt
         /\ (pos + Len(Chunk)) % size = 0 \/ pos + Len(Chunk) = EndAt
         /\ pos + Len(Chunk) = EndAt =>
              EndAt % size = IF Len(Chunk) = size THEN 0 ELSE Len(Chunk)
<1>1. Take(Chunk) /\ Chunk # <<>>
  BY Taken
<1>2. /\ Len(Chunk) \in 1 .. size /\ Len(Chunk) = ChunkLen
      /\ pos + Len(Chunk) <= sent /\ sent <= Len(Stream)
  BY <1>1, ChunkIs
<1>3. /\ pos \in Nat /\ sent \in Nat /\ size \in Nat /\ size >= 2
      /\ Len(Stream) = EndAt /\ EndAt \in Nat
  BY StreamType, StreamAt
<1> DEFINE n == Len(Chunk)
<1>4. n \in Nat /\ n >= 1 /\ n <= size /\ pos + n <= EndAt /\ pos + n <= sent
  BY <1>2, <1>3
<1>5. filled /\ (sent - pos >= size \/ sent = EndAt)
  BY <1>1, <1>3 DEF Take, AllSent, Available
<1>6. n = IF sent - pos < size THEN sent - pos ELSE size
  BY <1>2 DEF ChunkLen, Available
<1> HIDE DEF n
<1>7. pos % size = 0
  BY <1>3, <1>4
<1>8. n = size \/ pos + n = EndAt
  BY <1>3, <1>4, <1>5, <1>6
<1>9. (pos + size) % size = 0 /\ \A r \in 0 .. size - 1 : (pos + r) % size = r
  <2>1. size \in Nat \ {0} /\ pos \in Nat
    BY <1>3
  <2> QED BY <1>7, <2>1, FromMultiple
<1>10. n # size => n \in 0 .. size - 1
  BY <1>3, <1>4
<1>11. (pos + n) % size = IF n = size THEN 0 ELSE n
  BY <1>9, <1>10
<1>12. pos + n = EndAt => EndAt % size = IF n = size THEN 0 ELSE n
  BY <1>11
<1>13. (pos + n) % size = 0 \/ pos + n = EndAt
  BY <1>8, <1>11
<1> QED BY <1>4, <1>5, <1>7, <1>8, <1>12, <1>13 DEF n

\* A chunk that is neither a head nor taken while receiving leaves what was found.
LEMMA PassedBy ==
  ASSUME Receive, ~IsFileHead(Chunk), ~receiveing
  PROVE  UNCHANGED <<receiveing, rfilename, reported, saved>>
BY DEF Receive, BeginFile, WholeFile, EndFile, FullChunk, ShortChunk, TextChunk

\* A buffer that does not hold the head.
LEMMA HeadBroken ==
  ASSUME TypeOK, LoadOK, outcome = "ok", Plain, Receive, ~receiveing, ~reported,
         pos = HeadAt, Len(Chunk) = size, size < 5
  PROVE  /\ receiveing' /\ ~reported'
         /\ \/ rfilename' # FileName
            \/ size = 4 /\ Len(saved') = 0
<1>1. Chunk # <<>> /\ Chunk \in Seq(Tokens) /\ size \in Nat /\ size >= 2
  BY Taken, ChunkIs, StreamType
<1>2. IsFileHead(Chunk)
  BY <1>1, HeadBegins
<1>3. ~FileTail(Chunk)
  <2>1. pos + size < EndAt
    BY <1>1, StreamAt
  <2>2. pos + Len(Chunk) # EndAt
    BY <1>1, <2>1, StreamAt
  <2> QED BY <1>1, <2>2, OnlyTrailer
<1>4. BeginFile
  BY <1>2, <1>3 DEF Receive, WholeFile, EndFile, FullChunk, ShortChunk, TextChunk
<1>5. NameLen(Chunk) \in Nat /\ 2 + NameLen(Chunk) <= size
  BY <1>1, <1>2, NameLenType
<1>6. Len(SubSeq(Chunk, 3, 2 + NameLen(Chunk))) = NameLen(Chunk)
  <2> DEFINE m == 2 + NameLen(Chunk)
  <2>1. m \in 0 .. Len(Chunk) /\ m >= 2 /\ m \in Nat
    BY <1>1, <1>5
  <2> HIDE DEF m
  <2>2. Len(SubSeq(Chunk, 3, m)) = IF 3 <= m THEN m - 3 + 1 ELSE 0
    <3>1. 3 \in Nat \ {0}
      OBVIOUS
    <3> QED BY <1>1, <2>1, <3>1, Piece
  <2>3. Len(SubSeq(Chunk, 3, m)) = m - 2
    BY <2>1, <2>2
  <2>4. m - 2 = NameLen(Chunk)
    BY <1>5 DEF m
  <2> QED BY <2>3, <2>4 DEF m
<1>7. CASE NameLen(Chunk) # 2
  <2>1. rfilename' = SubSeq(Chunk, 3, 2 + NameLen(Chunk)) /\ receiveing' /\ ~reported'
    BY <1>4 DEF BeginFile
  <2>2. rfilename' # FileName
    BY <1>6, <1>7, <2>1, Literals
  <2> QED BY <2>1, <2>2
<1>8. CASE NameLen(Chunk) = 2
  <2>1. size = 4
    BY <1>1, <1>5, <1>8
  <2>2. Addon(Chunk) = SubSeq(Chunk, 6, 4)
    BY <1>8, <2>1, Literals DEF Addon
  <2>3. Len(SubSeq(Chunk, 6, 4)) = 0
    <3>1. 6 \in Nat \ {0} /\ 4 \in 0 .. Len(Chunk)
      BY <2>1
    <3>2. Len(SubSeq(Chunk, 6, 4)) = IF 6 <= 4 THEN 4 - 6 + 1 ELSE 0
      BY <1>1, <3>1, Piece
    <3> QED BY <3>2
  <2>4. saved' = Addon(Chunk) /\ receiveing' /\ ~reported'
    BY <1>4 DEF BeginFile
  <2> QED BY <2>1, <2>2, <2>3, <2>4
<1> QED BY <1>7, <1>8

\* A buffer that holds everything.
LEMMA HeadDoubled ==
  ASSUME TypeOK, LoadOK, outcome = "ok", Receive, ~receiveing,
         pos = HeadAt, pos + Len(Chunk) = EndAt
  PROVE  ~receiveing' /\ Len(saved') > Len(body)
<1>1. /\ Chunk # <<>> /\ Chunk \in Seq(Tokens) /\ Len(Chunk) \in Nat
      /\ pos \in Nat /\ size \in Nat
  BY Taken, ChunkIs, StreamType
<1>2. /\ HeadAt \in Nat /\ BodyAt = HeadAt + 5
      /\ Len(body) \in Nat /\ TailAt = BodyAt + Len(body) /\ EndAt = TailAt + 2
      /\ Len(Stream) = EndAt
  BY StreamAt
<1>3. Len(Chunk) = 7 + Len(body)
  BY <1>1, <1>2
<1>4. FileTail(Chunk) /\ IsFileHead(Chunk)
  <2>1. Len(Chunk) >= 2 /\ BodyAt <= pos + Len(Chunk)
    BY <1>2, <1>3
  <2> QED BY <1>1, <2>1, EndsAtTrailer, HeadFound
<1>5. WholeFile
  BY <1>4 DEF Receive, BeginFile, EndFile, FullChunk, ShortChunk, TextChunk
<1>6. Addon(Chunk) \in Seq(Tokens) /\ Untail(Chunk) \in Seq(Tokens)
  BY <1>1, <1>4, WrittenType, UntailType
<1>7. Len(Untail(Chunk)) = 5 + Len(body)
  <2>1. Len(Chunk) - Len(Trailer) = 5 + Len(body)
    BY <1>2, <1>3, Literals
  <2>2. Untail(Chunk) = SubSeq(Chunk, 1, 5 + Len(body))
    BY <2>1 DEF Untail
  <2> DEFINE m == 5 + Len(body)
  <2>3. m \in 0 .. Len(Chunk) /\ 1 <= m /\ m \in Nat
    BY <1>2, <1>3
  <2> HIDE DEF m
  <2>4. Len(SubSeq(Chunk, 1, m)) = IF 1 <= m THEN m - 1 + 1 ELSE 0
    <3>1. 1 \in Nat \ {0}
      OBVIOUS
    <3> QED BY <1>1, <2>3, <3>1, Piece
  <2>5. Len(SubSeq(Chunk, 1, m)) = m
    BY <2>3, <2>4
  <2> QED BY <2>2, <2>5 DEF m
<1>8. Len(saved') = Len(Addon(Chunk)) + Len(Untail(Chunk)) /\ Len(Addon(Chunk)) \in Nat
  <2>1. saved' = Addon(Chunk) \o Untail(Chunk)
    BY <1>5 DEF WholeFile
  <2>2. \A a, b \in Seq(Tokens) : Len(a \o b) = Len(a) + Len(b) /\ Len(a) \in Nat
    OBVIOUS
  <2> QED BY <1>6, <2>1, <2>2
<1>9. ~receiveing'
  BY <1>5 DEF WholeFile
<1> QED BY <1>2, <1>7, <1>8, <1>9

\* A buffer that holds the head, and part of the contents.
LEMMA HeadGoing ==
  ASSUME TypeOK, LoadOK, outcome = "ok", Plain, Receive, ~receiveing, ~reported,
         pos = HeadAt, Len(Chunk) = size, 5 <= size, size < EndAt - HeadAt
  PROVE  Inside' /\ ~reported'
<1>1. /\ Chunk # <<>> /\ Chunk \in Seq(Tokens) /\ size \in Nat /\ pos \in Nat
      /\ UNCHANGED <<pre, body, load, outcome>> /\ Stream' = Stream /\ pos' = pos + size
  BY Taken, ChunkIs, StreamType
<1>2. /\ HeadAt \in Nat /\ BodyAt = HeadAt + 5
      /\ Len(body) \in Nat /\ TailAt = BodyAt + Len(body) /\ EndAt = TailAt + 2
  BY StreamAt
<1>3. BodyAt <= pos + Len(Chunk) /\ pos + Len(Chunk) < EndAt /\ pos + Len(Chunk) # EndAt
  BY <1>1, <1>2
<1>4. ~FileTail(Chunk)
  BY <1>1, <1>3, OnlyTrailer
<1>5. /\ IsFileHead(Chunk) /\ SubSeq(Chunk, 3, 2 + NameLen(Chunk)) = FileName
      /\ Addon(Chunk) = SubSeq(Stream, BodyAt + 1, pos + Len(Chunk))
  BY <1>1, <1>3, HeadFound
<1>6. BeginFile
  BY <1>4, <1>5 DEF Receive, WholeFile, EndFile, FullChunk, ShortChunk, TextChunk
<1>7. /\ receiveing' /\ rfilename' = FileName /\ file' = "open" /\ ~reported'
      /\ saved' = SubSeq(Stream, BodyAt + 1, pos')
  BY <1>1, <1>5, <1>6 DEF BeginFile
<1>8. HeadAt' = HeadAt /\ BodyAt' = BodyAt /\ TailAt' = TailAt /\ EndAt' = EndAt
  BY <1>1 DEF HeadAt, BodyAt, TailAt, EndAt
<1>9. BodyAt' <= pos' /\ pos' < EndAt'
  BY <1>1, <1>3, <1>8
<1>10. saved' = SubSeq(Stream', BodyAt' + 1, pos')
  BY <1>1, <1>7, <1>8
<1> QED BY <1>7, <1>9, <1>10 DEF Inside

\* The contents go on, or end.
LEMMA GoingOn ==
  ASSUME TypeOK, LoadOK, outcome = "ok", Plain, Receive, Inside, ~reported,
         5 <= size, size < EndAt - HeadAt,
         Len(Chunk) = size \/ pos + Len(Chunk) = EndAt, Len(Chunk) <= size,
         pos + Len(Chunk) <= EndAt,
         pos + Len(Chunk) = EndAt =>
           EndAt % size = IF Len(Chunk) = size THEN 0 ELSE Len(Chunk)
  PROVE  Going'
<1>1. /\ Chunk # <<>> /\ Chunk \in Seq(Tokens) /\ size \in Nat /\ pos \in Nat
      /\ UNCHANGED <<pre, body, load, outcome, size>> /\ Stream' = Stream
      /\ pos' = pos + Len(Chunk)
  BY Taken, ChunkIs, StreamType
<1>2. /\ HeadAt \in Nat /\ BodyAt = HeadAt + 5 /\ BodyAt \in Nat
      /\ Len(body) \in Nat /\ TailAt = BodyAt + Len(body) /\ EndAt = TailAt + 2
      /\ Len(Stream) = EndAt /\ EndAt \in Nat /\ Stream \in Seq(Tokens)
  <2>1. /\ HeadAt \in Nat /\ BodyAt = HeadAt + 5
        /\ Len(body) \in Nat /\ TailAt = BodyAt + Len(body) /\ EndAt = TailAt + 2
        /\ Len(Stream) = EndAt
    BY StreamAt
  <2>2. BodyAt \in Nat /\ EndAt \in Nat
    BY <2>1
  <2>3. Stream \in Seq(Tokens)
    BY StreamType
  <2> QED BY <2>1, <2>2, <2>3
<1>3. Len(Chunk) \in Nat /\ Len(Chunk) >= 1
  <2>1. Len(Chunk) \in 1 .. size
    BY <1>1, ChunkIs
  <2> QED BY <1>1, <2>1
<1>4. HeadAt' = HeadAt /\ BodyAt' = BodyAt /\ TailAt' = TailAt /\ EndAt' = EndAt
  BY <1>1 DEF HeadAt, BodyAt, TailAt, EndAt
<1>5. /\ receiveing /\ rfilename = FileName /\ file = "open" /\ BodyAt <= pos
      /\ saved = SubSeq(Stream, BodyAt + 1, pos)
  BY DEF Inside
<1>6. CASE pos + Len(Chunk) # EndAt
  <2>1. ~FileTail(Chunk) /\ ~IsShort(Chunk)
    BY <1>1, <1>6, OnlyTrailer DEF IsShort
  <2>2. FullChunk
    BY <1>5, <2>1 DEF Receive, BeginFile, WholeFile, EndFile, ShortChunk, TextChunk
  <2>3. /\ saved' = saved \o Chunk /\ UNCHANGED <<receiveing, rfilename, file, reported>>
    BY <2>2 DEF FullChunk
  <2>4. saved' = SubSeq(Stream, BodyAt + 1, pos + Len(Chunk))
    <3> DEFINE a == BodyAt + 1
               c == pos + Len(Chunk)
    <3>1. a \in Nat \ {0} /\ c \in 0 .. Len(Stream) /\ a <= pos + 1 /\ pos <= c
      BY <1>1, <1>2, <1>3, <1>5
    <3>2. Chunk = SubSeq(Stream, pos + 1, c)
      BY <1>1, ChunkIs
    <3> HIDE DEF c
    <3>3. saved = SubSeq(Stream, a, pos)
      BY <1>5
    <3> HIDE DEF a
    <3>4. SubSeq(Stream, a, pos) \o SubSeq(Stream, pos + 1, c) = SubSeq(Stream, a, c)
      BY <1>1, <1>2, <3>1, Adjacent
    <3> QED BY <2>3, <3>2, <3>3, <3>4 DEF a, c
  <2>5. saved' = SubSeq(Stream', BodyAt' + 1, pos')
    BY <1>1, <1>4, <2>4
  <2>6. BodyAt' <= pos' /\ pos' < EndAt'
    BY <1>1, <1>2, <1>3, <1>4, <1>5, <1>6
  <2>7. Inside' /\ ~reported'
    BY <1>5, <2>3, <2>5, <2>6 DEF Inside
  <2> QED BY <1>1, <1>4, <2>7 DEF Going
<1>7. CASE pos + Len(Chunk) = EndAt /\ Len(Chunk) = 1
  <2>1. ~FileTail(Chunk)
    BY <1>1, <1>7, TailAtEnd
  <2>2. IsShort(Chunk) /\ EndAt % size = 1
    BY <1>1, <1>7 DEF IsShort
  <2>3. ShortChunk
    BY <1>5, <2>1, <2>2 DEF Receive, BeginFile, WholeFile, EndFile, FullChunk, TextChunk
  <2>4. ~receiveing' /\ ~reported'
    BY <2>3 DEF ShortChunk
  <2> QED BY <1>1, <1>4, <1>7, <2>2, <2>4 DEF Going
<1>8. CASE pos + Len(Chunk) = EndAt /\ Len(Chunk) # 1
  <2> DEFINE n == Len(Chunk)
  <2>0. n \in Nat /\ n >= 1 /\ n # 1 /\ pos + n = EndAt /\ n <= size
    BY <1>3, <1>8
  <2> HIDE DEF n
  <2>a. n >= 2 /\ pos <= TailAt
    BY <1>1, <1>2, <2>0
  <2>1. Len(Chunk) >= 2 /\ pos <= TailAt
    BY <2>a DEF n
  <2>2. FileTail(Chunk) /\ saved \o Untail(Chunk) = body
    BY <1>1, <1>5, <1>8, <2>1, LastPiece
  <2>3. EndFile
    BY <1>5, <2>2 DEF Receive, BeginFile, WholeFile, FullChunk, ShortChunk, TextChunk
  <2>4. ~receiveing' /\ reported' /\ saved' = body /\ rfilename' = FileName
    BY <1>5, <2>2, <2>3 DEF EndFile
  <2>5. EndAt % size # 1
    <3>1. EndAt % size = IF Len(Chunk) = size THEN 0 ELSE Len(Chunk)
      BY <1>8
    <3>2. CASE Len(Chunk) = size
      <4>1. EndAt % size = 0
        BY <3>1, <3>2
      <4> QED BY <4>1
    <3>3. CASE Len(Chunk) # size
      <4>1. EndAt % size = Len(Chunk)
        BY <3>1, <3>3
      <4> QED BY <1>8, <4>1
    <3> QED BY <3>2, <3>3
  <2>6. Received'
    BY <1>1, <2>4 DEF Received
  <2> QED BY <1>1, <1>4, <1>8, <2>4, <2>5, <2>6 DEF Going
<1> QED BY <1>6, <1>7, <1>8

\* A file whose first token is the end of the head's line keeps it.
LEMMA StaysBroken ==
  ASSUME TypeOK, LoadOK, outcome = "ok", Plain, Receive, Broken, pos > HeadAt, pos # EndAt,
         Len(Chunk) = size \/ pos + Len(Chunk) = EndAt, pos + Len(Chunk) <= EndAt
  PROVE  Broken'
<1>1. /\ Chunk # <<>> /\ Chunk \in Seq(Tokens) /\ size \in Nat /\ pos \in Nat
      /\ UNCHANGED <<pre, body, load, outcome, size>>
      /\ pos' = pos + Len(Chunk) /\ saved \in Seq(Tokens)
  BY Taken, ChunkIs, StreamType DEF TypeOK
<1>2. /\ HeadAt \in Nat /\ BodyAt = HeadAt + 5
      /\ Len(body) \in Nat /\ TailAt = BodyAt + Len(body) /\ EndAt = TailAt + 2
  BY StreamAt
<1>3. Len(Chunk) \in Nat /\ Len(Chunk) >= 1
  <2>1. Len(Chunk) \in 1 .. size
    BY <1>1, ChunkIs
  <2> QED BY <1>1, <2>1
<1>4. HeadAt' = HeadAt /\ EndAt' = EndAt /\ size' = size /\ body' = body
  BY <1>1 DEF HeadAt, TailAt, EndAt
<1>5. ~IsFileHead(Chunk)
  BY <1>1, <1>2, OnlyHead
<1>6. rfilename' = rfilename
  BY <1>5 DEF Receive, BeginFile, WholeFile, EndFile, FullChunk, ShortChunk, TextChunk
<1>7. CASE rfilename # FileName
  BY <1>4, <1>6, <1>7 DEF Broken
<1>8. CASE size = 4 /\ receiveing /\ ~reported /\ Len(saved) = pos - HeadAt - 4
  <2>1. CASE FileTail(Chunk)
    <3>1. EndFile
      BY <1>8, <2>1 DEF Receive, BeginFile, WholeFile, FullChunk, ShortChunk, TextChunk
    <3>2. pos + Len(Chunk) = EndAt /\ Len(Chunk) >= 2
      BY <1>1, <2>1, OnlyTrailer, TailAtEnd
    <3>3. Len(Untail(Chunk)) = Len(Chunk) - 2 /\ Untail(Chunk) \in Seq(Tokens)
      <4> DEFINE m == Len(Chunk) - 2
      <4>1. m \in 0 .. Len(Chunk) /\ m \in Nat
        BY <1>3, <3>2
      <4>2. Untail(Chunk) = SubSeq(Chunk, 1, m)
        BY Literals DEF Untail
      <4> HIDE DEF m
      <4>3. /\ SubSeq(Chunk, 1, m) \in Seq(Tokens)
            /\ Len(SubSeq(Chunk, 1, m)) = IF 1 <= m THEN m - 1 + 1 ELSE 0
        <5>1. 1 \in Nat \ {0}
          OBVIOUS
        <5> QED BY <1>1, <4>1, <5>1, Piece
      <4>4. Len(SubSeq(Chunk, 1, m)) = m
        BY <4>1, <4>3
      <4> QED BY <4>2, <4>3, <4>4 DEF m
    <3>4. Len(saved') = Len(saved) + Len(Untail(Chunk))
      <4>1. saved' = saved \o Untail(Chunk)
        BY <3>1 DEF EndFile
      <4>2. \A a, b \in Seq(Tokens) : Len(a \o b) = Len(a) + Len(b)
        OBVIOUS
      <4> QED BY <1>1, <3>3, <4>1, <4>2
    <3>5. Len(saved') = Len(body) + 1
      BY <1>1, <1>2, <1>3, <1>8, <3>2, <3>3, <3>4
    <3>6. ~receiveing'
      BY <3>1 DEF EndFile
    <3> QED BY <1>1, <1>4, <1>8, <3>2, <3>5, <3>6 DEF Broken
  <2>2. CASE ~FileTail(Chunk) /\ IsShort(Chunk)
    <3>1. ShortChunk
      BY <1>8, <2>2 DEF Receive, BeginFile, WholeFile, EndFile, FullChunk, TextChunk
    <3>2. ~receiveing' /\ ~reported'
      BY <1>8, <3>1 DEF ShortChunk
    <3>3. Len(Chunk) # size
      BY <1>1, <1>3, <2>2 DEF IsShort
    <3> QED BY <1>1, <1>4, <1>8, <3>2, <3>3 DEF Broken
  <2>3. CASE ~FileTail(Chunk) /\ ~IsShort(Chunk)
    <3>1. FullChunk
      BY <1>8, <2>3 DEF Receive, BeginFile, WholeFile, EndFile, ShortChunk, TextChunk
    <3>2. saved' = saved \o Chunk /\ receiveing' /\ ~reported'
      BY <1>8, <3>1 DEF FullChunk
    <3>3. Len(saved') = Len(saved) + Len(Chunk)
      <4>1. \A a, b \in Seq(Tokens) : Len(a \o b) = Len(a) + Len(b)
        OBVIOUS
      <4> QED BY <1>1, <3>2, <4>1
    <3>4. Len(saved') = pos' - HeadAt' - 4
      BY <1>1, <1>2, <1>3, <1>4, <1>8, <3>3
    <3> QED BY <1>4, <1>8, <3>2, <3>4 DEF Broken
  <2> QED BY <2>1, <2>2, <2>3
<1> QED BY <1>7, <1>8 DEF Broken

LEMMA LayoutReceive == Inv /\ LayoutInv /\ Receive => LayoutInv'
<1> SUFFICES ASSUME Inv, LayoutInv, Receive, filled', Plain', outcome' = "ok"
             PROVE  /\ pos' % size' = 0 \/ pos' = EndAt'
                    /\ ~Begun' => ~receiveing' /\ ~reported'
                    /\ Begun' => Broken' \/ Doubled' \/ Going'
  BY DEF LayoutInv
<1> DEFINE n == Len(Chunk)
<1>1. /\ Chunk # <<>> /\ UNCHANGED <<pre, body, load, outcome, size>>
      /\ pos' = pos + n /\ TypeOK /\ LoadOK /\ outcome = "ok"
  BY Taken DEF Inv
<1>2. /\ HeadAt \in Nat /\ BodyAt = HeadAt + 5
      /\ Len(body) \in Nat /\ TailAt = BodyAt + Len(body) /\ EndAt = TailAt + 2
      /\ EndAt \in Nat /\ pos \in Nat /\ size \in Nat \ {0} /\ size >= 2
  BY <1>1, StreamAt, StreamType
<1>3. HeadAt' = HeadAt /\ EndAt' = EndAt /\ Plain
  BY <1>1 DEF HeadAt, TailAt, EndAt, Plain, Without
<1>4. filled
  BY Taken, <1>1 DEF Take
<1>5. /\ pos % size = 0 \/ pos = EndAt
      /\ ~Begun => ~receiveing /\ ~reported
      /\ Begun => Broken \/ Doubled \/ Going
  BY <1>1, <1>3, <1>4 DEF LayoutInv
<1>6. /\ pos % size = 0 /\ pos + n <= EndAt
      /\ n \in Nat /\ n >= 1 /\ n <= size
      /\ n = size \/ pos + n = EndAt
      /\ (pos + n) % size = 0 \/ pos + n = EndAt
      /\ pos + n = EndAt => EndAt % size = IF n = size THEN 0 ELSE n
  BY <1>1, <1>5, FilledChunk
<1>7. pos' % size' = 0 \/ pos' = EndAt'
  BY <1>1, <1>3, <1>6
<1>8. pos # EndAt
  BY <1>2, <1>6
<1> HIDE DEF n
<1>9. CASE ~Begun'
  <2>1. HeadAt % size # 0 \/ pos + n <= HeadAt
    BY <1>1, <1>2, <1>3, <1>6, <1>9 DEF Begun
  <2>2. pos # HeadAt /\ ~Begun
    BY <1>2, <1>6, <2>1 DEF Begun
  <2>3. ~IsFileHead(Chunk)
    BY <1>1, <1>3, <2>2, OnlyHead
  <2>4. ~receiveing' /\ ~reported'
    BY <1>5, <2>2, <2>3, PassedBy
  <2> QED BY <1>7, <1>9, <2>4
<1>10. CASE Begun' /\ ~Begun
  <2>1. HeadAt % size = 0 /\ pos <= HeadAt /\ HeadAt < pos + n /\ ~receiveing /\ ~reported
    BY <1>1, <1>2, <1>3, <1>5, <1>6, <1>10 DEF Begun
  <2>2. pos = HeadAt
    <3>1. HeadAt - pos \in 0 .. size - 1 /\ pos + (HeadAt - pos) = HeadAt
      BY <1>2, <1>6, <2>1
    <3>2. \A r \in 0 .. size - 1 : (pos + r) % size = r
      BY <1>2, <1>6, FromMultiple
    <3>3. HeadAt % size = HeadAt - pos
      BY <3>1, <3>2
    <3> QED BY <1>2, <2>1, <3>3
  <2>3. CASE size < 5
    <3>1. n = size
      BY <1>2, <1>6, <2>2, <2>3
    <3>2. /\ receiveing' /\ ~reported'
          /\ \/ rfilename' # FileName
             \/ size = 4 /\ Len(saved') = 0
      BY <1>1, <1>3, <2>1, <2>2, <2>3, <3>1, HeadBroken DEF n
    <3>3. Broken'
      BY <1>1, <1>2, <1>3, <2>2, <2>3, <3>1, <3>2 DEF Broken
    <3> QED BY <1>7, <1>10, <3>3
  <2>4. CASE 5 <= size /\ EndAt - HeadAt <= size
    <3>1. pos + n = EndAt
      BY <1>2, <1>6, <2>2, <2>4
    <3>2. ~receiveing' /\ Len(saved') > Len(body)
      BY <1>1, <2>1, <2>2, <3>1, HeadDoubled DEF n
    <3>3. Doubled'
      BY <1>1, <1>3, <2>4, <3>1, <3>2 DEF Doubled
    <3> QED BY <1>7, <1>10, <3>3
  <2>5. CASE 5 <= size /\ size < EndAt - HeadAt
    <3>1. n = size
      BY <1>2, <1>6, <2>2, <2>5
    <3>2. Inside' /\ ~reported'
      BY <1>1, <1>3, <2>1, <2>2, <2>5, <3>1, HeadGoing DEF n
    <3>3. Going'
      BY <1>1, <1>3, <2>5, <3>2 DEF Going
    <3> QED BY <1>7, <1>10, <3>3
  <2>6. size < 5 \/ (5 <= size /\ (EndAt - HeadAt <= size \/ size < EndAt - HeadAt))
    BY <1>2
  <2> QED BY <2>3, <2>4, <2>5, <2>6
<1>11. CASE Begun' /\ Begun
  <2>1. pos > HeadAt
    BY <1>11 DEF Begun
  <2>2. CASE Broken
    <3>1. Broken'
      BY <1>1, <1>3, <1>6, <1>8, <2>1, <2>2, StaysBroken DEF n
    <3> QED BY <1>7, <1>11, <3>1
  <2>3. CASE Going
    <3>1. Inside /\ ~reported /\ 5 <= size /\ size < EndAt - HeadAt
      BY <1>8, <2>3 DEF Going
    <3>2. Going'
      BY <1>1, <1>3, <1>6, <3>1, GoingOn DEF n
    <3> QED BY <1>7, <1>11, <3>2
  <2>4. ~Doubled
    BY <1>8 DEF Doubled
  <2> QED BY <1>5, <1>11, <2>2, <2>3, <2>4
<1> QED BY <1>9, <1>10, <1>11

\* When the receiver always finds its buffer full, which transfers work depends on the
\* sizes alone: the head must begin a chunk and fit into it, the file must not end in
\* that chunk, and the trailer must not be cut.  For every file without the protocol's
\* texts and every buffer (command.h:31-118).
THEOREM Layouts == Spec => []ExactlyGoodLayouts
<1>1. Init => LayoutInv
  <2> SUFFICES ASSUME Init, outcome = "ok" PROVE LayoutInv
    BY DEF LayoutInv
  <2>1. pos = 0 /\ ~receiveing /\ ~reported /\ TypeOK /\ LoadOK
    BY InitInv DEF Init, Inv
  <2>2. HeadAt \in Nat /\ size \in Nat \ {0}
    <3>1. size \in Nat /\ size >= 2
      BY <2>1, StreamType
    <3> QED BY <2>1, <3>1, StreamAt
  <2>3. 0 % size = 0
    BY <2>2
  <2> QED BY <2>1, <2>2, <2>3 DEF LayoutInv, Begun
<1>2. Inv /\ LayoutInv /\ [Next]_vars => LayoutInv'
  <2> SUFFICES ASSUME Inv, LayoutInv, [Next]_vars PROVE LayoutInv'
    OBVIOUS
  <2>1. CASE Send \/ UNCHANGED vars
    <3>1. UNCHANGED <<pre, body, load, outcome, size, pos, receiveing, rfilename, file, saved,
                      reported, filled>>
      BY <2>1 DEF Send, vars, senderVars
    <3>2. Stream' = Stream
      BY <3>1 DEF Stream
    <3> QED BY <3>1, <3>2 DEF LayoutInv, Plain, Without, Begun, Broken, Doubled, Going, Inside,
                              Received, HeadAt, BodyAt, TailAt, EndAt
  <2>2. CASE SendfileFails \/ OpenFails
    BY <2>2 DEF SendfileFails, OpenFails, LayoutInv
  <2>3. CASE Receive
    BY <2>3, LayoutReceive
  <2> QED BY <2>1, <2>2, <2>3 DEF Next
<1>3. Inv /\ LayoutInv => ExactlyGoodLayouts
  <2> SUFFICES ASSUME Inv, LayoutInv, filled, Plain, outcome = "ok", Drained
               PROVE  Received <=> GoodLayout
    BY DEF ExactlyGoodLayouts
  <2>1. /\ HeadAt \in Nat /\ BodyAt = HeadAt + 5
        /\ Len(body) \in Nat /\ TailAt = BodyAt + Len(body) /\ EndAt = TailAt + 2
        /\ EndAt \in Nat /\ size \in Nat \ {0} /\ size >= 2
        /\ Len(Stream) = EndAt /\ Len(FileHead) = 5 /\ Len(Trailer) = 2
    BY StreamAt, StreamType, Literals DEF Inv
  <2>2. pos = EndAt
    BY <2>1 DEF Drained, AllSent
  <2>3. CASE ~Begun
    <3>1. HeadAt % size # 0 /\ ~reported
      BY <2>1, <2>2, <2>3 DEF Begun, LayoutInv
    <3> QED BY <3>1 DEF Received, GoodLayout
  <2>4. CASE Begun /\ Broken
    <3>1. Len(saved) # Len(body) \/ ~reported \/ rfilename # FileName
      BY <2>1, <2>2, <2>4 DEF Broken
    <3>2. ~Received
      BY <3>1 DEF Received
    <3>3. ~GoodLayout
      BY <2>1, <2>4 DEF Broken, GoodLayout
    <3> QED BY <3>2, <3>3
  <2>5. CASE Begun /\ Doubled
    <3>1. ~Received
      BY <2>1, <2>5 DEF Doubled, Received
    <3>2. ~GoodLayout
      BY <2>1, <2>5 DEF Doubled, GoodLayout
    <3> QED BY <3>1, <3>2
  <2>6. CASE Begun /\ Going
    <3>1. /\ 5 <= size /\ size < EndAt - HeadAt
          /\ IF EndAt % size = 1 THEN ~reported ELSE Received
      BY <2>1, <2>2, <2>6 DEF Going, Inside
    <3>2. EndAt % size \in 0 .. size - 1
      BY <2>1
    <3>3. HeadAt % size = 0
      BY <2>6 DEF Begun
    <3>4. GoodLayout <=> EndAt % size # 1
      BY <2>1, <3>1, <3>2, <3>3 DEF GoodLayout
    <3> QED BY <3>1, <3>4 DEF Received
  <2> QED BY <2>3, <2>4, <2>5, <2>6 DEF LayoutInv
<1> QED BY <1>1, <1>2, <1>3, Invariance, PTL DEF Spec
=============================================================================
