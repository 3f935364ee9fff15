------------------------ MODULE MCManagedArchipelago -------------------------
EXTENDS ManagedArchipelago, TLC

CONSTANTS unsafe, shared, c1, c2   \* two of the caller's problems, two clones

(* One problem whose Clone() may also break its contract, and one safe problem. *)
MCSafety == (unsafe :> "None") @@ (shared :> "Basic")
MCCloneResults == (unsafe :> {"fresh", "same", "null"}) @@ (shared :> {})
=============================================================================
