----------------------------- MODULE MCDatagrams -----------------------------
(***************************************************************************)
(* Ping and the programs that send to a group, for TLC.  One of them is    *)
(* run; the variables of the other stay as they are.                       *)
(***************************************************************************)
EXTENDS Ping, Multicast

VARIABLE program  \* what is run

\* One process id fits into a word, one does not.
SomePids == {15, 17}

\* Ids of others: the low half of 17, and one that a larger process id shares with 15.
SomeIds == {1, 15}

\* At second 6 the sum of the second packet needs two carries; 30 needs two words, and
\* is tried with the process id that does not fit, whose replies are not recognised.
SomeStarts == {5, 30}

mcvars == <<program, vars, mvars>>

MCInit ==
  /\ program \in {"ping", "group"}
  /\ Init /\ CastInit
  \* of what is not run, one initial state
  /\ start = 30 <=> pid = 17
  /\ program # "ping" => pid = 15
  /\ program # "group" => kind = "text"

RunPing  == program = "ping" /\ Next /\ UNCHANGED <<program, mvars>>
RunGroup == program = "group" /\ CastNext /\ UNCHANGED <<program, vars>>

MCNext == RunPing \/ RunGroup

\* The fairness of ping; no property of the group needs any.
MCFairness == WF_vars(program = "ping" /\ Program) /\ WF_vars(program = "ping" /\ Tick)

MCSpec == MCInit /\ [][MCNext]_mcvars /\ MCFairness
-----------------------------------------------------------------------------
\* Ping: whatever is lost, the program ends.
PingEnds == program = "ping" => Ends
=============================================================================
