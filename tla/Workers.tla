------------------------------- MODULE Workers -------------------------------
(***************************************************************************)
(* What a runtime may assume of its background workers: they are started   *)
(* before its context is cancelled and leave only after that, and Stop     *)
(* returns when the last of a runtime has left.  The server is modelled    *)
(* against this interface and the health probers implement it.             *)
(***************************************************************************)
EXTENDS Naturals

CONSTANT Runtimes       \* the generations of the runtime

VARIABLES workers,      \* how many workers of each runtime are still there
          cancelled,    \* runtimes whose context is cancelled
          retired       \* runtimes whose Stop has returned

workerVars == <<workers, cancelled, retired>>

WorkersInit ==
    /\ workers \in [Runtimes -> Nat]
    /\ cancelled = {} /\ retired = {}

\* BuildRuntime starts workers, and may cancel them at once.
Launch(g) ==
    /\ g \notin cancelled
    /\ workers'[g] \in Nat /\ workers'[g] >= workers[g]
    /\ workers' = [workers EXCEPT ![g] = workers'[g]]
    /\ cancelled' \in {cancelled, cancelled \cup {g}}
    /\ UNCHANGED retired

Cancel(g) == cancelled' = cancelled \cup {g} /\ UNCHANGED <<workers, retired>>

Leave(g) ==
    /\ g \in cancelled /\ workers[g] > 0
    /\ workers' = [workers EXCEPT ![g] = @ - 1]
    /\ UNCHANGED <<cancelled, retired>>

Retire(g) ==
    /\ g \in cancelled /\ workers[g] = 0
    /\ retired' = retired \cup {g}
    /\ UNCHANGED <<workers, cancelled>>

WorkersNext == \E g \in Runtimes : Launch(g) \/ Cancel(g) \/ Leave(g) \/ Retire(g)

WorkersSpec == WorkersInit /\ [][WorkersNext]_workerVars
=============================================================================
