---------------------------- MODULE FileTransfer ----------------------------
(***************************************************************************)
(* How client and server exchange files, cpp_src/command.h: _sendFile()    *)
(* writes a head line, the bytes of the file and a trailer into the TCP    *)
(* stream; _receFile() is called with whatever one recv() returned and has *)
(* to find head and trailer in it.  TCP keeps no message boundaries: where *)
(* a chunk ends depends on when the receiver looks.                        *)
(*                                                                         *)
(* A token stands for a few bytes of the stream; the texts the code looks  *)
(* for are two tokens long so that a chunk can end inside them.            *)
(***************************************************************************)
EXTENDS Integers, Sequences, FiniteSets, SequencesExt

CONSTANTS
  Sizes,    \* sizes of the receiver's buffer: 40 in the server, 1024 in the client
  Bodies,   \* contents a file may have
  Pres,     \* what the sender may have written just before the head
  ToClient  \* the server sends ($get), otherwise the client does ($put)

Mark     == << <<"mark", 1>>, <<"mark", 2>> >>                \* "---file: "
FileName == << <<"name", 1>>, <<"name", 2>> >>
Crlf     == << <<"crlf", 1>> >>
Trailer  == << <<"tail", 1>>, <<"tail", 2>> >>                \* "file---\r\n"
DownFail == << <<"fail", 1>> >>                               \* "down fail"
FileHead == Mark \o FileName \o Crlf

VARIABLES
  \* the sender
  pre,         \* what it wrote before
  body,        \* contents of the file it sends
  load,        \* what sendfile() gets through of head and body
  outcome,     \* how _sendFile() ends: "ok", "failed", "unopened"
  sent,        \* tokens of Stream written so far
  \* the receiver
  size,        \* parameter size of _receFile()
  pos,         \* tokens of Stream received so far
  receiveing,  \* the reference parameter of that name
  rfilename,   \* name of the file being written, <<>> if none was found
  file,        \* pfile: "none", "open", "closed", or "crashed" with the process
  saved,       \* contents of the file
  reported,    \* "Downloaded ... and saved" was printed
  asText,      \* file contents were taken for a message (or a command)
  clean,       \* history: so far no chunk ended at a harmful place
  filled       \* history: so far every chunk filled the buffer, or held all that
               \* was left of the stream

senderVars == <<pre, body, load, outcome, sent>>
vars == <<senderVars, size, pos, receiveing, rfilename, file, saved, reported, asText, clean, filled>>

Tokens == {"mark", "name", "crlf", "tail", "fail", "body", "text"} \X Nat
Texts  == {"text"} \X Nat

\* The trailer fits into the buffer.
ASSUME TransferAssumption ==
  /\ Sizes \subseteq Nat /\ \A s \in Sizes : s >= Len(Trailer)
  /\ Bodies \subseteq Seq(Tokens) /\ Pres \subseteq Seq(Texts)
  /\ ToClient \in BOOLEAN

\* Everything the sender writes in the end.
Stream ==
  IF outcome = "unopened" THEN IF ToClient THEN pre \o DownFail ELSE pre
  ELSE IF outcome = "failed" /\ ToClient THEN pre \o load \o Trailer \o DownFail
  ELSE pre \o load \o Trailer

AllSent == sent = Len(Stream)

Init ==
  /\ pre \in Pres /\ body \in Bodies /\ size \in Sizes
  /\ load = FileHead \o body
  /\ outcome = "ok" /\ sent = 0 /\ pos = 0
  /\ receiveing = FALSE /\ rfilename = <<>> /\ file = "none" /\ saved = <<>>
  /\ reported = FALSE /\ asText = FALSE /\ clean = TRUE /\ filled = TRUE
-----------------------------------------------------------------------------
(* The sender.                                                             *)

\* write() and sendfile() pass the stream on in whatever pieces fit.
Send ==
  /\ file # "crashed"
  /\ \E n \in (sent + 1) .. Len(Stream) : sent' = n
  /\ UNCHANGED <<pre, body, load, outcome, size, pos, receiveing, rfilename, file, saved,
                 reported, asText, clean, filled>>

\* sendfile() fails after part of head and body; the trailer is written all the
\* same.
SendfileFails ==
  /\ outcome = "ok" /\ Len(pre) <= sent /\ sent < Len(pre) + Len(load)
  /\ outcome' = "failed"
  /\ load' = SubSeq(load, 1, sent - Len(pre))
  /\ UNCHANGED <<pre, body, sent, size, pos, receiveing, rfilename, file, saved, reported,
                 asText, clean, filled>>

OpenFails ==
  /\ outcome = "ok" /\ sent <= Len(pre)
  /\ outcome' = "unopened"
  /\ UNCHANGED <<pre, body, load, sent, size, pos, receiveing, rfilename, file, saved,
                 reported, asText, clean, filled>>
-----------------------------------------------------------------------------
(* The receiver: recv() and _receFile().                                   *)

\* recv() returns what has arrived, as far as the buffer holds it.
Available == sent - pos
\* Mutant: what is beyond the data received is taken for data.
ChunkFull == size
ChunkLen  == IF Available < size THEN Available ELSE size
Chunk     == SubSeq(Stream, pos + 1, pos + ChunkLen)

StartsWith(c, chunk) == Len(c) >= Len(chunk) /\ SubSeq(c, 1, Len(chunk)) = chunk
EndsWith(c, chunk) ==
  /\ Len(c) >= Len(chunk)
  /\ SubSeq(c, Len(c) - Len(chunk) + 1, Len(c)) = chunk

IsFileHead(c) == StartsWith(c, Mark)
FileTail(c)   == EndsWith(c, Trailer)
Untail(c)     == SubSeq(c, 1, Len(c) - Len(Trailer))

\* Mutants: every chunk is taken for the last one, or none is.
IsShortOrFull(c) == Len(c) <= size
IsShortNever(c)  == FALSE

IsShort(c) == Len(c) < size

\* sscanf("%s"): the name as far as it is in the chunk.
NameLen(c) == Cardinality({k \in 3 .. Len(c) : \A j \in 3 .. k : c[j][1] = "name"})

\* Mutant: the line end is not counted.
AddonWithCrlf(c) == SubSeq(c, Len(Mark) + NameLen(c) + 1, Len(c))

\* What follows the head in its chunk; othlen counts the head's line end too.
Addon(c) == SubSeq(c, Len(Mark) + NameLen(c) + Len(Crlf) + 1, Len(c))

\* Where the chunk may end without harm: before the head, after a complete head
\* but before the end, after a full buffer inside the file, or with the trailer.
HeadAt == Len(pre)
BodyAt == HeadAt + Len(FileHead)
TailAt == HeadAt + Len(load)
EndAt  == TailAt + Len(Trailer)

Harmless(c) ==
  LET e == pos + Len(c)
  IN  /\ outcome = "ok"
      /\ \/ e <= HeadAt
         \/ pos = HeadAt /\ BodyAt <= e /\ ~FileTail(c)
         \/ BodyAt <= pos /\ Len(c) = size /\ ~FileTail(c)
         \/ BodyAt <= pos /\ pos <= TailAt /\ e = EndAt

Take(c) ==
  /\ file # "crashed" /\ c # <<>>
  /\ pos' = pos + Len(c)
  /\ clean' = (clean /\ Harmless(c))
  /\ filled' = (filled /\ (Available >= size \/ AllSent))
  /\ UNCHANGED <<senderVars, size>>

\* A head at the start of the chunk opens the file.
BeginFile ==
  LET c == Chunk
  IN  /\ Take(c) /\ ~receiveing /\ IsFileHead(c) /\ ~FileTail(c)
      /\ receiveing' = TRUE
      /\ rfilename' = SubSeq(c, 3, 2 + NameLen(c))
      /\ file' = "open" /\ saved' = Addon(c)
      /\ UNCHANGED <<reported, asText>>

\* Head and trailer in one chunk: what follows the head is written, and then the
\* whole chunk, head included, up to the trailer.
WholeFile ==
  LET c == Chunk
  IN  /\ Take(c) /\ ~receiveing /\ IsFileHead(c) /\ FileTail(c)
      /\ rfilename' = SubSeq(c, 3, 2 + NameLen(c))
      /\ file' = "closed" /\ saved' = Addon(c) \o Untail(c) /\ reported' = TRUE
      /\ UNCHANGED <<receiveing, asText>>

EndFile ==
  LET c == Chunk
  IN  /\ Take(c) /\ receiveing /\ FileTail(c)
      /\ receiveing' = FALSE
      /\ file' = "closed" /\ saved' = saved \o Untail(c) /\ reported' = TRUE
      /\ UNCHANGED <<rfilename, asText>>

FullChunk ==
  LET c == Chunk
  IN  /\ Take(c) /\ receiveing /\ ~FileTail(c) /\ ~IsShort(c)
      /\ saved' = saved \o c
      /\ UNCHANGED <<receiveing, rfilename, file, reported, asText>>

\* A chunk that does not fill the buffer is taken for the last one; the file is
\* closed before the chunk is written to it, which loses it or crashes.
ShortChunk ==
  LET c == Chunk
  IN  /\ Take(c) /\ receiveing /\ ~FileTail(c) /\ IsShort(c)
      /\ receiveing' = FALSE
      /\ file' \in {"closed", "crashed"}
      /\ UNCHANGED <<rfilename, saved, reported, asText>>

\* _receFile() returns false: the caller prints the chunk or looks for a command.
TextChunk ==
  LET c == Chunk
  IN  /\ Take(c) /\ ~receiveing /\ ~IsFileHead(c)
      /\ asText' = (asText \/ \E k \in DOMAIN c : c[k][1] = "body")
      /\ UNCHANGED <<receiveing, rfilename, file, saved, reported>>

Receive == BeginFile \/ WholeFile \/ EndFile \/ FullChunk \/ ShortChunk \/ TextChunk

Next == Send \/ SendfileFails \/ OpenFails \/ Receive

Spec == Init /\ [][Next]_vars /\ WF_vars(Send) /\ WF_vars(Receive)
-----------------------------------------------------------------------------
(* Properties.                                                             *)

Drained == AllSent /\ pos = sent

TypeOK ==
  /\ pre \in Pres /\ body \in Bodies /\ size \in Sizes
  /\ load \in Seq(Tokens) /\ outcome \in {"ok", "failed", "unopened"}
  /\ sent \in 0 .. Len(Stream) /\ pos \in 0 .. sent
  /\ receiveing \in BOOLEAN /\ rfilename \in Seq(Tokens)
  /\ file \in {"none", "open", "closed", "crashed"}
  /\ saved \in Seq(Tokens)
  /\ reported \in BOOLEAN /\ asText \in BOOLEAN
  /\ clean \in BOOLEAN /\ filled \in BOOLEAN

\* If every chunk ended at a harmless place, the file is saved under its name,
\* complete and unchanged, and the receiver says so.
IntactIfClean ==
  clean /\ outcome = "ok" /\ Drained =>
    /\ saved = body /\ rfilename = FileName
    /\ file = "closed" /\ reported /\ ~receiveing /\ ~asText

\* However the stream is cut into chunks, the receiver has left its receiving
\* state when the last thing the sender writes, the trailer, has been read: the
\* client reads its terminal again (client.h:204).
StopsAtEnd == Drained /\ (outcome = "ok" \/ ~ToClient) => ~receiveing

\* If the receiver always finds its buffer filled, and neither the trailer's text nor
\* the one a head begins with is in the file, exactly these transfers work: the head
\* begins a chunk and fits into it, there is a second chunk, and the last one holds the
\* whole trailer.
Without(text) ==
  \A k \in 0 .. Len(body) - Len(text) : SubSeq(body, k + 1, k + Len(text)) # text

Plain == Without(Trailer) /\ Without(Mark)

GoodLayout ==
  /\ HeadAt % size = 0 /\ Len(FileHead) <= size
  /\ EndAt - HeadAt > size
  /\ EndAt % size = 0 \/ EndAt % size >= Len(Trailer)

Received == reported /\ rfilename = FileName /\ saved = body

ExactlyGoodLayouts ==
  filled /\ Plain /\ outcome = "ok" /\ Drained => (Received <=> GoodLayout)

\* client.h:131 and 133: $put uploads a file, $get downloads a file.
Transferred == filled /\ outcome = "ok" /\ Drained => Received
=============================================================================
