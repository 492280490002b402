\* server_run_cmd: two clients with commands and uploads, three messages each.
SPECIFICATION Spec
CONSTANTS
  Procs = {root, q1, q2, q3}
  Root = root
  Conns = {c1, c2}
  Names = {n1, n2}
  None = None
  Commands = TRUE
  MAXCONN = 3
  SNDBUF = 1
  Msgs = {"get", "head", "full", "part", "tail"}
  MaxMsgs = 3
  Polite = TRUE
  Failures = FALSE
SYMMETRY Symmetry
INVARIANTS TypeOK OneReader Isolated
\* Clients may leave, and nobody else come.
CHECK_DEADLOCK FALSE
