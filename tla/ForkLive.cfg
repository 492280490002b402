\* Liveness: two clients that may not read, quit or reset; fork() and accept() may fail.
SPECIFICATION Spec
CONSTANTS
  Procs = {root, q1, q2}
  Root = root
  Conns = {c1, c2}
  Names = {n1}
  None = None
  Commands = TRUE
  MAXCONN = 3
  SNDBUF = 1
  Msgs = {"get", "quit"}
  MaxMsgs = 1
  Polite = FALSE
  Failures = TRUE
PROPERTY NobodyWaits
\* Clients may leave, and nobody else come.
CHECK_DEADLOCK FALSE
