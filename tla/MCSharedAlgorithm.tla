-------------------------- MODULE MCSharedAlgorithm --------------------------
(***************************************************************************)
(* Two parts of the algorithms written in managed code that do not share     *)
(* state: the adapter through which copies of one algorithm evolve, and the   *)
(* evolve of grid_search.  A behaviour is one of one part; the other stays in *)
(* an initial state.                                                         *)
(***************************************************************************)
EXTENDS SharedAlgorithm, GridSearch

VARIABLE part
mcVars == <<vars, gridVars, part>>

GridCall(s, n, o, k) == [steps |-> s, nx |-> n, nobj |-> o, size |-> k]
Refused == GridCall(<<1>>, 1, 1, 0)

(* One number of steps for all dimensions, one for each, too few of them; two    *)
(* objectives; an empty population.                                            *)
MCGridCalls ==
    {GridCall(<<1>>, 3, 1, 1), GridCall(<<1, 2>>, 2, 1, 2), GridCall(<<2, 1>>, 2, 1, 1),
     GridCall(<<3>>, 1, 1, 1), GridCall(<<1, 2>>, 3, 1, 1), GridCall(<<1>>, 2, 2, 1), Refused}

MCInit ==
    /\ part \in {"adapter", "grid"}
    /\ Init
    /\ part # "adapter" => binding = "csharp"
    /\ GridInit
    /\ part # "grid" => call = Refused

MCNext ==
    /\ UNCHANGED part
    /\ \/ part = "adapter" /\ Next /\ UNCHANGED gridVars
       \/ part = "grid" /\ GridNext /\ UNCHANGED vars
       \/ part = "grid" /\ gridPc \in {"returned", "failed"} /\ UNCHANGED <<vars, gridVars>>

MCSpec == MCInit /\ [][MCNext]_mcVars
=============================================================================
