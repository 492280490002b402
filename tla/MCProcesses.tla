----------------------------- MODULE MCProcesses -----------------------------
(***************************************************************************)
(* The programs that fork, start threads or wait for each other, for TLC:  *)
(* the shell, and three small programs.  One of them is run; the variables *)
(* of the others stay as they are.                                         *)
(***************************************************************************)
EXTENDS Shell, ThreadServer, CountThreads

VARIABLES
  program,                                         \* the program that is run
  wrapper, cat, reads, writes, pipe, put, copied   \* CatPipe

\* Every line of up to four characters of a word, the blank, "|" and ">"; a pipe into a
\* file, a file before a pipe, ">>"; and the commands the shell itself runs.
AllLines ==
  UNION {[1 .. n -> {"a"} \union Separators] : n \in 0 .. 4}
  \union {<<"a", "|", "a", ">", "a">>, <<"a", ">", "a", "|", "a">>, <<"a", ">", ">", " ", "a">>,
          <<"c", " ", "a">>, <<"e">>}

\* Two clients and two descriptors.
TwoPeers   == {"p1", "p2"}
TwoSockets == {4, 5}

\* A pipe that is full after one string.
Wrap == INSTANCE CatPipe WITH parent <- wrapper, child <- cat, written <- put

ASSUME WrapAssumption == Wrap!PipeAssumption

wrapVars == <<wrapper, cat, reads, writes, pipe, put, copied>>
mcvars   == <<program, vars, tvars, cvars, wrapVars>>

MCInit ==
  /\ program \in {"shell", "server", "counter", "wrap"}
  /\ Init /\ ServerInit /\ CountInit /\ Wrap!Init

RunShell   == program = "shell" /\ Next /\ UNCHANGED <<program, tvars, cvars, wrapVars>>
RunServer  == program = "server" /\ ServerNext /\ UNCHANGED <<program, vars, cvars, wrapVars>>
RunCounter == program = "counter" /\ CountNext /\ UNCHANGED <<program, vars, tvars, wrapVars>>
RunWrap    == program = "wrap" /\ Wrap!Next /\ UNCHANGED <<program, vars, tvars, cvars>>

MCNext == RunShell \/ RunServer \/ RunCounter \/ RunWrap

\* The fairness of the program that is run.
MCFairness ==
  /\ WF_vars(program = "shell" /\ Steps)
  /\ WF_vars(program = "shell" /\ Left) /\ WF_vars(program = "shell" /\ Right)
  /\ WF_tvars(program = "server" /\ Main)
  /\ \A t \in Threads : WF_tvars(program = "server" /\ Thread(t))
  /\ WF_wrapVars(program = "wrap" /\ Wrap!Parent)
  /\ WF_wrapVars(program = "wrap" /\ Wrap!Child)

MCSpec == MCInit /\ [][MCNext]_mcvars /\ MCFairness
-----------------------------------------------------------------------------
\* CatPipe: cat and its parent wait for each other for ever.
WaitForEachOther == Wrap!WaitForEachOther
=============================================================================
