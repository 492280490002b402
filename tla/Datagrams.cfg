\* Ping: two requests, half seconds, one stray packet, one failure.
SPECIFICATION MCSpec
CONSTANTS
  MAX_NO_PACKETS = 2
  MAX_WAIT_TIME = 1
  SEC = 2
  WORD = 16
  Pids <- SomePids
  OtherIds <- SomeIds
  Starts <- SomeStarts
  QUEUE = 2
  MaxTime = 6
  MaxStray = 1
  MaxErrors = 1
  \* Two members; four values in an unsigned int, so that the seconds 5 and 6 do not fit,
  \* and swapped are different numbers.
  Clients = {a, b}
  Servers = {s}
  Nobody = nobody
  ROUNDS = 2
  SOCKET = 2
  BYTE = 2
  FirstSecond = 5
  LastSecond = 6
  MaxFailures = 1
INVARIANTS TypeOK PacketVerifies FullMeansAll RttRoughly SenderSent
PROPERTY PingEnds
\* The program ends.
CHECK_DEADLOCK FALSE
