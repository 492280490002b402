----------------------------- MODULE MCExchanges -----------------------------
(***************************************************************************)
(* Two ways to exchange data, for TLC: a file over a connection, which cuts*)
(* the stream anywhere, and lines in datagrams, which are lost, duplicated *)
(* and reordered.  One of them is run; the variables of the other stay as  *)
(* they are.                                                               *)
(***************************************************************************)
EXTENDS MCFileTransfer, UdpEcho

\* Two clients; the first sends two lines and has a datagram duplicated.
TwoClients == {"a", "b"}
LinesOf    == [c \in TwoClients |-> IF c = "a" THEN 2 ELSE 1]
CopiesOf   == [c \in TwoClients |-> IF c = "a" THEN 1 ELSE 0]

VARIABLE program   \* what is run

mcvars == <<program, vars, uvars>>

MCInit ==
  /\ program \in {"file", "echo"}
  /\ Init /\ EchoInit
  \* of what is not run, one initial state
  /\ program # "file" => body = <<>> /\ pre = <<>> /\ size = MinSize
  /\ program # "echo" => server = "line" /\ kind["a"] = "line" /\ kind["b"] = "line"

RunFile == program = "file" /\ Next /\ UNCHANGED <<program, uvars>>
RunEcho == program = "echo" /\ EchoNext /\ UNCHANGED <<program, vars>>

MCNext == RunFile \/ RunEcho

\* The fairness of the datagram programs; no property of the file needs any.
MCFairness ==
  /\ WF_uvars(program = "echo" /\ (ServerRecvfrom \/ ServerSendto))
  /\ \A c \in Clients : WF_uvars(program = "echo" /\ Recvfrom(c))

MCSpec == MCInit /\ [][MCNext]_mcvars /\ MCFairness
=============================================================================
