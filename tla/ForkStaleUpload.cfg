\* A client leaves in the middle of an upload.
SPECIFICATION Spec
CONSTANTS
  Procs = {root, q1, q2, q3}
  Root = root
  Conns = {c1, c2}
  Names = {n1}
  None = None
  Commands = TRUE
  MAXCONN = 3
  SNDBUF = 1
  Msgs = {"head", "ls"}
  MaxMsgs = 1
  Polite = FALSE
  Failures = FALSE
SYMMETRY Symmetry
INVARIANT ListAnswered
\* Clients may leave, and nobody else come.
CHECK_DEADLOCK FALSE
