---------------------------- MODULE MCRoundRobin ----------------------------
(***************************************************************************)
(* Small instances of RoundRobin for TLC.                                  *)
(***************************************************************************)
EXTENDS RoundRobin, TLC

\* The handlers are interchangeable.
Symmetry == Permutations(Handlers)
=============================================================================
