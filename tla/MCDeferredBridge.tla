--------------------------- MODULE MCDeferredBridge ---------------------------
(***************************************************************************)
(* Two sides of the callback boundary that do not share state: one call and  *)
(* its deferred exceptions, and the lives of the callbacks of many calls.    *)
(* A behaviour is one of one part; the other stays in an initial state.      *)
(***************************************************************************)
EXTENDS DeferredBridge, CallbackRoots

CONSTANT caller   \* the calling thread, as a model value

VARIABLE part
mcVars == <<vars, rootVars, part>>

MCInit ==
    /\ part \in {"call", "lives"}
    /\ Init
    /\ part # "call" => /\ call = [binding |-> "csharp", op |-> "problem", empty |-> FALSE]
                        /\ lastError = "none"
    /\ RootsInit
    /\ part # "lives" => lang = "csharp"

MCNext ==
    /\ UNCHANGED part
    /\ \/ part = "call" /\ Next /\ UNCHANGED rootVars
       \/ part = "lives" /\ RootsNext /\ UNCHANGED vars

MCSpec == MCInit /\ [][MCNext]_mcVars
=============================================================================
