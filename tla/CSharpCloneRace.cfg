SPECIFICATION Spec
CONSTANTS
    Binding = "csharp"
    Workers = {w1, w2}
    Caller = w1
    Points = {x1, x2, x3}
    Problems <- UnsafeCloners
    Source = Source
    NoClone = NoClone
INVARIANT
    SourceNotConcurrent
CHECK_DEADLOCK FALSE
