\* Two lines, one answer, connections that fill up after one item.
SPECIFICATION Spec
CONSTANTS
  Lines <- UserLines
  Replies <- ServerReplies
  BUFSIZE = 6
  WBUF = 7
  SNDBUF = 1
  Garbage <- SomeGarbage
  MaxLines = 2
  MaxReplies = 1
INVARIANTS TypeOK LinesExact FileFollowsCommand
PROPERTY OnlyEmbraceStops
\* The client may end, or wait for ever in _sendFile().
CHECK_DEADLOCK FALSE
