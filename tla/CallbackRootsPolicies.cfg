SPECIFICATION RootsSpec
CONSTANTS
    RootBindings = {"csharp"}
    RootThreads = {t1}
    Owners = {}
    Policies = {p1}
    Adapters = {}
    Addresses = {x1}
    Null = Null
    MaxCopies = 2
INVARIANT CallablePolicies
CHECK_DEADLOCK FALSE
