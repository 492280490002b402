\* Seven clients of which two may leave, six slots, seven descriptors of which two
\* fit into the fd_set: the first two slots become free and are taken again, in
\* any order, before and after the table has been full.
SPECIFICATION Spec
CONSTANTS
  Peers <- SevenPeers
  None = None
  Junk = Junk
  FD_SETSIZE = 6
  OPEN_MAX = 11
  BACKLOG = 1
  BUFSIZE = 1
  SNDBUF = 1
  word = word
  Words = {word}
  Lines <- NoLines
  MaxMsgs = 0
  MaxLines = 0
  MayHangUp = FALSE
CONSTRAINTS TwoLeave ByArrival
INVARIANT TableConsistent
PROPERTY ExitsWhenFull
\* The process may end (exit, SIGPIPE), or wait for ever for its peers.
CHECK_DEADLOCK FALSE
