--------------------------- MODULE EvolveContract ---------------------------
(***************************************************************************)
(* What an algorithm that is not population based promises its caller: a    *)
(* call either fails or finds nothing and leaves the caller's population as  *)
(* it was, or returns it with one individual exchanged, for one that beats   *)
(* an individual it had.  DeferredIpopt is shown to implement it.            *)
(***************************************************************************)
EXTENDS Integers

CONSTANTS Callers,      \* the threads that call evolve()
          Populations,  \* what they can pass
          Ranks         \* fitness values, ranked

VARIABLES pop,          \* each caller's population
          running       \* the callers inside evolve()

contractVars == <<pop, running>>

Init == /\ pop \in [Callers -> Populations]
        /\ running = {}

Start(c) == /\ c \notin running
            /\ running' = running \cup {c}
            /\ \E p \in Populations : pop' = [pop EXCEPT ![c] = p]

Keep(c) == /\ c \in running
           /\ running' = running \ {c}
           /\ UNCHANGED pop

Improve(c) ==
    /\ c \in running
    /\ running' = running \ {c}
    /\ \E i, slot \in DOMAIN pop[c], rank \in Ranks :
          /\ rank < pop[c][i]
          /\ pop' = [pop EXCEPT ![c][slot] = rank]

Next == \E c \in Callers : Start(c) \/ Keep(c) \/ Improve(c)

Spec == Init /\ [][Next]_contractVars
=============================================================================
