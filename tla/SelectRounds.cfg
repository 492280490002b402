\* Two clients, two bytes each, connections that fill up after one item; a line of
\* two words (the second stays in stdio), or an empty one.
SPECIFICATION Spec
CONSTANTS
  Peers = {p1, p2}
  None = None
  Junk = Junk
  FD_SETSIZE = 6
  OPEN_MAX = 6
  BACKLOG = 2
  BUFSIZE = 2
  SNDBUF = 1
  word = word
  Words = {word}
  Lines <- LinesTwoWords
  MaxMsgs = 2
  MaxLines = 1
  MayHangUp = FALSE
SYMMETRY PeerSymmetry
INVARIANTS TypeOK TableConsistent NoBlockingRead ReadyCount EchoExact
PROPERTIES RoundComplete EchoService
\* The process may end (SIGPIPE), or wait for ever for its peers.
CHECK_DEADLOCK FALSE
