SPECIFICATION MCSpec
CONSTANTS
    Bindings = {"csharp", "java"}
    Threads = {caller, worker1, worker2}
    Caller = caller
    caller = caller
    Failures = {e1, e2, e3}
    NoFailure = NoFailure
    RootBindings = {"csharp", "java"}
    RootThreads = {t1, t2}
    Owners = {o1}
    Policies = {p1}
    Adapters = {a1, a2, a3}
    Addresses = {x1, x2}
    Null = Null
    MaxCopies = 2
INVARIANTS
    TypeOK
    FailureSurfaces
    UsableProblem
    NothingLeaks
    OwnErrorText
    CallableAdapters
    DirectorsFreedOnce
CHECK_DEADLOCK FALSE
