SPECIFICATION Spec
CONSTANTS
    Binding = "java"
    Workers = {w1, w2, w3}
    Caller = w1
    Points = {x1, x2, x3}
    Problems <- UnsafeCloners
    Source = Source
    NoClone = NoClone
SYMMETRY Symmetry
INVARIANT
    ClonesClosed
CHECK_DEADLOCK FALSE
