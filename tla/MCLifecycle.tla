---------------------------- MODULE MCLifecycle ----------------------------
(***************************************************************************)
(* Small instances of Lifecycle for TLC.                                   *)
(***************************************************************************)
EXTENDS Lifecycle, TLC

\* Connections, shutdown callers and reloaders are interchangeable.
Symmetry == Permutations(Clients) \cup Permutations(Callers) \cup Permutations(Reloaders)
=============================================================================
