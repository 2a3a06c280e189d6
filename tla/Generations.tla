----------------------------- MODULE Generations -----------------------------
(***************************************************************************)
(* What the runtime lifecycle promises, with no server, lock, WaitGroup or *)
(* goroutine: configuration creates generations of the runtime, at most    *)
(* one is active, a request belongs to the generation that was active when *)
(* it was acquired, and a generation is retired once, after it has been    *)
(* taken out of service and the last of its requests is released.          *)
(***************************************************************************)
EXTENDS Naturals

CONSTANTS Clients,   \* clients, each with at most one request at a time
          MaxGen     \* bound on the generations that are built

VARIABLES phase,     \* the phase of every generation
          holder     \* the generation a client's request holds, or None

genVars == <<phase, holder>>

Gens   == 1 .. MaxGen
None   == 0
Phases == {"unbuilt", "built", "active", "draining", "retired"}

GenTypeOK ==
    /\ phase \in [Gens -> Phases]
    /\ holder \in [Clients -> Gens \cup {None}]

GenInit ==
    /\ phase = [g \in Gens |-> IF g = 1 THEN "active" ELSE "unbuilt"]
    /\ holder = [c \in Clients |-> None]

Move(g, from, to) == phase[g] = from /\ phase' = [phase EXCEPT ![g] = to]

\* A configuration is built completely, or fails part of the way.
Build(g)   == Move(g, "unbuilt", "built")    /\ UNCHANGED holder
Abandon(g) == Move(g, "unbuilt", "draining") /\ UNCHANGED holder

\* The server refuses a runtime that was built.
Discard(g) == Move(g, "built", "draining")   /\ UNCHANGED holder

\* The new generation replaces the active one in a single step.
Install(g, old) ==
    /\ phase[g] = "built" /\ phase[old] = "active"
    /\ phase' = [phase EXCEPT ![g] = "active", ![old] = "draining"]
    /\ UNCHANGED holder

\* The server stops: nothing is active from now on.
Close(g) == Move(g, "active", "draining") /\ UNCHANGED holder

Acquire(c, g) ==
    /\ holder[c] = None /\ phase[g] = "active"
    /\ holder' = [holder EXCEPT ![c] = g]
    /\ UNCHANGED phase

Drop(c) ==
    /\ holder[c] # None
    /\ holder' = [holder EXCEPT ![c] = None]
    /\ UNCHANGED phase

Retire(g) ==
    /\ \A c \in Clients : holder[c] # g
    /\ Move(g, "draining", "retired") /\ UNCHANGED holder

GenNext ==
    \/ \E g \in Gens : \/ Build(g) \/ Abandon(g) \/ Discard(g)
                       \/ Close(g) \/ Retire(g)
                       \/ \E old \in Gens : Install(g, old)
                       \/ \E c \in Clients : Acquire(c, g)
    \/ \E c \in Clients : Drop(c)

GenSpec == GenInit /\ [][GenNext]_genVars

\* A request's generation is in service or draining: never retired, and never
\* one that was not installed.
HeldIsServing ==
    \A c \in Clients : holder[c] # None => phase[holder[c]] \in {"active", "draining"}

\* At most one generation is active.
OneActive ==
    \A g, h \in Gens : phase[g] = "active" /\ phase[h] = "active" => g = h
=============================================================================
