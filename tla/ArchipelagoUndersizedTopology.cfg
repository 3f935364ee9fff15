SPECIFICATION Spec
CONSTANTS
    Binding = "csharp"
    MaxIslands = 2
    MaxPending = 1
    MaxVertices = 2
    c1 = c1
    c2 = c2
    Clones = {c1, c2}
    Copies = {k1}
    unsafe = unsafe
    shared = shared
    Problems = {unsafe, shared}
    Safety <- MCSafety
    CloneResults <- MCCloneResults
    Caller = Caller
    Helper = Helper
    None = None
INVARIANT
    AcceptedTopologySafe
CHECK_DEADLOCK FALSE
