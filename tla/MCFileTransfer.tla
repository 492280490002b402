--------------------------- MODULE MCFileTransfer ---------------------------
(* Instances of FileTransfer for TLC. *)
EXTENDS FileTransfer

CONSTANTS MaxBody, MinSize, MaxSize   \* bounds on file and buffer

BodyOf(n) == [k \in 1 .. n |-> <<"body", k>>]

\* Files of every length up to MaxBody.
PlainBodies == {BodyOf(n) : n \in 0 .. MaxBody}

\* And files in which the text of the trailer occurs, or another head.
TrickyBodies ==
  PlainBodies \union {BodyOf(n) \o Trailer \o BodyOf(1) : n \in 0 .. MaxBody - 3}
              \union { <<Trailer[2]>> \o Mark \o FileName }

SizesInRange == MinSize .. MaxSize

NothingBefore == {<<>>}
MaybeCommand  == {<<>>, << <<"text", 1>> >>}
=============================================================================
