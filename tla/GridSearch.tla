------------------------------ MODULE GridSearch ------------------------------
(***************************************************************************)
(* grid_search.evolve, in C# and in Java: an odometer over the indices of a  *)
(* uniform grid, both ends of every dimension included, the last dimension   *)
(* fastest; every point is evaluated and the best feasible one overwrites     *)
(* the whole population.  The problem is the environment: what it answers at  *)
(* a point is chosen when it is asked.                                       *)
(***************************************************************************)
EXTENDS Integers, Sequences

CONSTANTS GridCalls,    \* the calls of evolve() considered
          Objectives,   \* finite objective values
          Infinite,     \* +infinity or NaN: never less than anything
          Infeasible

Answers == Objectives \cup {Infinite, Infeasible}
NoPoint == <<>>         \* none yet; of an individual: the one it had

GridCallType ==
    [steps : Seq(Nat \ {0}),    \* what the constructor was given
     nx    : Nat,               \* get_nx()
     nobj  : Nat \ {0},
     size  : Nat]               \* pop.size()

ASSUME GridAssumption ==
    /\ Objectives \subseteq Int
    /\ Infinite \notin Objectives /\ Infeasible \notin Objectives
    /\ Infinite # Infeasible
    /\ GridCalls \subseteq GridCallType

VARIABLES gridPc,
          call,         \* what evolve() was called with
          steps,        \* the steps of each dimension
          gridIndex,    \* the odometer
          answer,       \* history: what the problem said of each point evaluated
          bestX,        \* the best feasible point so far
          bestObjective,
          gridPop       \* the points of the population's individuals

gridVars == <<gridPc, call, steps, gridIndex, answer, bestX, bestObjective, gridPop>>

Dims == 1..call.nx
Grid == {p \in [Dims -> UNION {0..steps[d] : d \in Dims}] : \A d \in Dims : p[d] <= steps[d]}
Visited == DOMAIN answer

GridInit ==
    /\ gridPc = "start"
    /\ call \in GridCalls
    /\ steps = [d \in Dims |-> 0] /\ gridIndex = [d \in Dims |-> 0]
    /\ answer = [p \in {} |-> Infeasible]
    /\ bestX = NoPoint /\ bestObjective = Infinite
    /\ gridPop = [i \in 1..call.size |-> NoPoint]

(* ResolveStepsPerDimension                                                   *)
Resolvable == Len(call.steps) = 1 \/ Len(call.steps) = call.nx

GridStart ==
    /\ gridPc = "start"
    /\ IF call.size # 0 /\ call.nobj = 1 /\ call.nx > 0 /\ Resolvable
         THEN /\ steps' = [d \in Dims |-> IF Len(call.steps) = 1 THEN call.steps[1]
                                          ELSE call.steps[d]]
              /\ gridIndex' = [d \in Dims |-> 0]
              /\ gridPc' = "sample"
         ELSE /\ gridPc' = "failed"
              /\ UNCHANGED <<steps, gridIndex>>
    /\ UNCHANGED <<call, answer, bestX, bestObjective, gridPop>>

Better(a) == a \in Objectives /\ (bestObjective = Infinite \/ a < bestObjective)

(* fitness() and feasibility_f() of the point; fitness() may also throw.       *)
Sample ==
    /\ gridPc = "sample"
    /\ \E a \in Answers :
          /\ answer' = [p \in Visited \cup {gridIndex} |-> IF p = gridIndex THEN a ELSE answer[p]]
          /\ IF Better(a)
               THEN bestX' = gridIndex /\ bestObjective' = a
               ELSE UNCHANGED <<bestX, bestObjective>>
    /\ gridPc' = "advance"
    /\ UNCHANGED <<call, steps, gridIndex, gridPop>>

ProblemThrows ==
    /\ gridPc = "sample"
    /\ gridPc' = "failed"
    /\ UNCHANGED <<call, steps, gridIndex, answer, bestX, bestObjective, gridPop>>

(* The last dimension that has not reached its end.                           *)
CanAdvance(d) == gridIndex[d] < steps[d] /\ \A e \in Dims : e > d => gridIndex[e] >= steps[e]

MutAdvance ==           \* mutant: the dimensions after it are not reset
    /\ gridPc = "advance"
    /\ \E d \in Dims : CanAdvance(d) /\ gridIndex' = [gridIndex EXCEPT ![d] = @ + 1]
    /\ gridPc' = "sample"
    /\ UNCHANGED <<call, steps, answer, bestX, bestObjective, gridPop>>

Advance ==
    /\ gridPc = "advance"
    /\ \E d \in Dims :
          /\ CanAdvance(d)
          /\ gridIndex' = [e \in Dims |-> IF e < d THEN gridIndex[e]
                                          ELSE IF e = d THEN gridIndex[e] + 1 ELSE 0]
    /\ gridPc' = "sample"
    /\ UNCHANGED <<call, steps, answer, bestX, bestObjective, gridPop>>

MutFinish ==            \* mutant: the point last evaluated
    /\ gridPc = "advance"
    /\ ~\E d \in Dims : CanAdvance(d)
    /\ IF bestX = NoPoint
         THEN gridPc' = "failed" /\ UNCHANGED gridPop
         ELSE /\ gridPc' = "returned"
              /\ gridPop' = [i \in DOMAIN gridPop |-> gridIndex]
    /\ UNCHANGED <<call, steps, gridIndex, answer, bestX, bestObjective>>

Finish ==
    /\ gridPc = "advance"
    /\ ~\E d \in Dims : CanAdvance(d)
    /\ IF bestX = NoPoint
         THEN gridPc' = "failed" /\ UNCHANGED gridPop
         ELSE /\ gridPc' = "returned"
              /\ gridPop' = [i \in DOMAIN gridPop |-> bestX]
    /\ UNCHANGED <<call, steps, gridIndex, answer, bestX, bestObjective>>

GridNext == GridStart \/ Sample \/ ProblemThrows \/ Advance \/ Finish

GridSpec == GridInit /\ [][GridNext]_gridVars
-----------------------------------------------------------------------------
(* Properties *)

(* The odometer neither skips nor repeats a point of the grid, whatever the      *)
(* steps of each dimension: a point is evaluated at most once, and when the       *)
(* search returns all of them have been.                                         *)
EachPointOnce ==
    /\ Visited \subseteq Grid
    /\ gridPc = "sample" => gridIndex \in Grid \ Visited
    /\ gridPc = "returned" => Visited = Grid

(* Every individual becomes a feasible point of the grid with the least           *)
(* objective; an evolve that fails leaves the population as it was, and one that   *)
(* has seen a feasible point with a finite objective does not fail at the end.     *)
BestOfGrid ==
    /\ gridPc = "returned" =>
          \A i \in DOMAIN gridPop :
             /\ gridPop[i] \in Grid
             /\ answer[gridPop[i]] \in Objectives
             /\ \A p \in Grid : answer[p] \in Objectives => answer[gridPop[i]] <= answer[p]
    /\ gridPc # "returned" => \A i \in DOMAIN gridPop : gridPop[i] = NoPoint
    /\ gridPc = "failed" /\ Visited # {} /\ Visited = Grid =>
          \A p \in Grid : answer[p] \notin Objectives
=============================================================================
