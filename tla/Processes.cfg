\* All lines of up to four characters, a pipe that is full after one item.
SPECIFICATION MCSpec
CONSTANTS
  TypedLines <- AllLines
  NARGS = 5
  PIPESIZE = 1
  MaxOut = 2
  Peers <- TwoPeers
  Threads = {t1, t2}
  Sockets <- TwoSockets
  None = nobody
  Failures = FALSE
  thread_num = 3
  LOOP = 2
INVARIANTS TypeOK SplitExact TargetThere AllReaped OwnConnection CountsInOrder
PROPERTIES PipelineEnds Answered WaitForEachOther
\* The shell ends, or waits for ever for a command whose pipe it holds itself.
CHECK_DEADLOCK FALSE
