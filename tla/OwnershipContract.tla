-------------------------- MODULE OwnershipContract --------------------------
(***************************************************************************)
(* Who may call what in an archipelago of managed problems.  A clone is fresh *)
(* until one island acquires it, is called by its owner alone, passes to no    *)
(* other island, and is released only after the archipelago has ended, when    *)
(* nobody is inside anything.  Problems that may be shared are called by all;  *)
(* the private ones of the caller, by nobody.  ManagedArchipelago is shown to  *)
(* implement this for its own islands.                                        *)
(***************************************************************************)
CONSTANTS Users,      \* the islands
          Clones,     \* all clones there can be
          Shared,     \* problems that are safe to share
          Private,    \* the other problems of the caller
          None        \* no instance

VARIABLES alive,      \* the archipelago has not ended
          fresh,      \* the clones not made yet
          owns,       \* the clones each island was given
          using,      \* the instance an island is inside
          released    \* instances that have been disposed

oVars == <<alive, fresh, owns, using, released>>

Init == /\ alive = TRUE
        /\ fresh = Clones
        /\ owns = [u \in Users |-> {}]
        /\ using = [u \in Users |-> None]
        /\ released = {}

Acquire(u, c) == /\ alive /\ c \in fresh
                 /\ fresh' = fresh \ {c}
                 /\ owns' = [owns EXCEPT ![u] = @ \cup {c}]
                 /\ UNCHANGED <<alive, using, released>>

(* An insertion failed: its clone is nobody's from now on.                    *)
Abandon(u, c) == /\ c \in owns[u] /\ using[u] # c
                 /\ owns' = [owns EXCEPT ![u] = @ \ {c}]
                 /\ UNCHANGED <<alive, fresh, using, released>>

Enter(u, x) == /\ alive /\ using[u] = None
               /\ x \in owns[u] \cup Shared
               /\ x \notin released
               /\ using' = [using EXCEPT ![u] = x]
               /\ UNCHANGED <<alive, fresh, owns, released>>

Leave(u) == /\ using[u] # None
            /\ using' = [using EXCEPT ![u] = None]
            /\ UNCHANGED <<alive, fresh, owns, released>>

End == /\ alive /\ \A u \in Users : using[u] = None
       /\ alive' = FALSE
       /\ UNCHANGED <<fresh, owns, using, released>>

Release(x) == /\ x \in Private \/ (x \in Clones \ fresh /\ ~alive)
              /\ x \notin released
              /\ released' = released \cup {x}
              /\ UNCHANGED <<alive, fresh, owns, using>>

Next == \/ \E u \in Users : \/ \E c \in Clones : Acquire(u, c) \/ Abandon(u, c)
                            \/ \E x \in Clones \cup Shared : Enter(u, x)
                            \/ Leave(u)
        \/ End
        \/ \E x \in Clones \cup Private : Release(x)

Spec == Init /\ [][Next]_oVars
=============================================================================
