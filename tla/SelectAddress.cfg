\* The address printed with the bytes of a client.
SPECIFICATION Spec
CONSTANTS
  Peers = {p1, p2}
  None = None
  Junk = Junk
  FD_SETSIZE = 6
  OPEN_MAX = 6
  BACKLOG = 2
  BUFSIZE = 1
  SNDBUF = 1
  word = word
  Words = {word}
  Lines <- NoLines
  MaxMsgs = 1
  MaxLines = 0
  MayHangUp = FALSE
SYMMETRY PeerSymmetry
INVARIANT PrintedAddress
\* The process may end (exit, SIGPIPE), or wait for ever for its peers.
CHECK_DEADLOCK FALSE
