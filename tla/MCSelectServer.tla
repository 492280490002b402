--------------------------- MODULE MCSelectServer ---------------------------
(* Instances of SelectServer for TLC. *)
EXTENDS SelectServer, TLC

CONSTANTS word

\* One line with two words (the second waits in stdio), and an empty line.
LinesTwoWords == {<<word, word>>, <<>>}
LinesOneWord  == {<<word>>, <<>>}
NoLines       == {}

\* The instance with many clients names them by the order in which they connect,
\* which is cheaper than the symmetry of their names and as sound.
SevenPeers == 1 .. 7
ByArrival  == \A p, q \in Peers : p < q /\ conn[q] # "idle" => conn[p] # "idle"

\* Its bound: how many of them leave.
TwoLeave == Cardinality({p \in Peers : conn[p] \notin {"idle", "open"}}) <= 2

PeerSymmetry == Permutations(Peers)
=============================================================================
