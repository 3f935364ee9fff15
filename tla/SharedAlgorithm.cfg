SPECIFICATION MCSpec
CONSTANTS
    Bindings = {"csharp", "java"}
    Evolutions = {t1, t2, t3}
    Failures = {e1, e2}
    NoFailure = NoFailure
    GridCalls <- MCGridCalls
    Objectives = {0, 1}
    Infinite = Infinite
    Infeasible = Infeasible
INVARIANTS
    NothingStale
    JavaReportsOnce
    JavaFailureReported
    EachPointOnce
    BestOfGrid
