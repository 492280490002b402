\* Liveness: two clients; a line of one word or none; the terminal may be closed.
SPECIFICATION Spec
CONSTANTS
  Peers = {p1, p2}
  None = None
  Junk = Junk
  FD_SETSIZE = 6
  OPEN_MAX = 6
  BACKLOG = 2
  BUFSIZE = 1
  SNDBUF = 1
  word = word
  Words = {word}
  Lines <- LinesOneWord
  MaxMsgs = 1
  MaxLines = 1
  MayHangUp = TRUE
PROPERTY EveryClientServed
\* The process may end (exit, SIGPIPE), or wait for ever for its peers.
CHECK_DEADLOCK FALSE
