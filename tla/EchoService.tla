---------------------------- MODULE EchoService ----------------------------
(***************************************************************************)
(* What an echo server promises the peers that connect to it, whatever way *)
(* it is built (select loop, threads, processes): each session is accepted *)
(* once, every byte of it is answered at most once and in order, and the   *)
(* server lets go of a session only after the peer has left it.  No step   *)
(* answers or ends two sessions.                                           *)
(***************************************************************************)
EXTENDS Naturals

CONSTANT Peers

VARIABLES
  session,   \* "idle", "waiting" to be accepted, "served", "gone"
  left,      \* the peer has closed or reset its end
  asked,     \* bytes the peer has sent
  answered,  \* bytes the server has answered, 0 once nobody reads them
  stopped    \* the server has ended

vars == <<session, left, asked, answered, stopped>>

Init ==
  /\ session = [p \in Peers |-> "idle"]
  /\ left = [p \in Peers |-> FALSE]
  /\ asked = [p \in Peers |-> 0]
  /\ answered = [p \in Peers |-> 0]
  /\ stopped = FALSE

Present(p) == session[p] \in {"waiting", "served"} /\ ~left[p]

Arrive(p) ==
  /\ session[p] = "idle"
  /\ session' = [session EXCEPT ![p] = "waiting"]
  /\ UNCHANGED <<left, asked, answered>>

Ask(p) ==
  /\ Present(p)
  /\ asked' = [asked EXCEPT ![p] = @ + 1]
  /\ UNCHANGED <<session, left, answered>>

Leave(p) ==
  /\ Present(p)
  /\ left' = [left EXCEPT ![p] = TRUE]
  /\ answered' = [answered EXCEPT ![p] = 0]
  /\ UNCHANGED <<session, asked>>

\* The peer leaves before it was accepted, and its connection with it.
Withdraw(p) ==
  /\ session[p] = "waiting"
  /\ session' = [session EXCEPT ![p] = "gone"]
  /\ left' = [left EXCEPT ![p] = TRUE]
  /\ answered' = [answered EXCEPT ![p] = 0]
  /\ UNCHANGED asked

Accept(p) ==
  /\ session[p] = "waiting"
  /\ session' = [session EXCEPT ![p] = "served"]
  /\ UNCHANGED <<left, asked, answered>>

Answer(p) ==
  /\ session[p] = "served" /\ ~left[p] /\ answered[p] < asked[p]
  /\ answered' = [answered EXCEPT ![p] = @ + 1]
  /\ UNCHANGED <<session, left, asked>>

Drop(p) ==
  /\ session[p] = "served" /\ left[p]
  /\ session' = [session EXCEPT ![p] = "gone"]
  /\ UNCHANGED <<left, asked, answered>>

Step(p) ==
  \/ Arrive(p) \/ Ask(p) \/ Leave(p) \/ Withdraw(p)
  \/ Accept(p) \/ Answer(p) \/ Drop(p)

\* The server ends, perhaps after it has accepted one more session.
Stop ==
  /\ stopped' = TRUE
  /\ \/ UNCHANGED session
     \/ \E p \in Peers : /\ session[p] = "waiting"
                         /\ session' = [session EXCEPT ![p] = "served"]
  /\ UNCHANGED <<left, asked, answered>>

Next == ~stopped /\ (Stop \/ ((\E p \in Peers : Step(p)) /\ UNCHANGED stopped))

Spec == Init /\ [][Next]_vars
=============================================================================
