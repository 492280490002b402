---------------------------- MODULE MCForkServer ----------------------------
(* Instances of ForkServer for TLC. *)
EXTENDS ForkServer, TLC

\* Clients are interchangeable, names of files, and processes but for Root.
Symmetry ==
  Permutations(Conns) \union Permutations(Names) \union Permutations(Procs \ {Root})
=============================================================================
