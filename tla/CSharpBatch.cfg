SPECIFICATION Spec
CONSTANTS
    Binding = "csharp"
    Workers = {w1, w2}
    Caller = w1
    Points = {x1, x2, x3}
    Problems <- ContractProblems
    Source = Source
    NoClone = NoClone
INVARIANTS
    TypeOK
    ExclusiveInstance
    NoUseAfterClose
    ClonesClosed
PROPERTIES
    ImplementsContract
    Terminates
CHECK_DEADLOCK FALSE
