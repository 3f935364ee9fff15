SPECIFICATION Spec
CONSTANTS
    Binding = "java"
    Workers = {w1, w2, w3}
    Caller = w1
    Points = {x1, x2, x3}
    Problems <- AllProblems
    Source = Source
    NoClone = NoClone
INVARIANTS
    ExclusiveInstance
    SuccessIsClean
PROPERTY
    Terminates
CHECK_DEADLOCK FALSE
