SPECIFICATION MCSpec
CONSTANTS
    s = s
    q = q
    Threads = {s, q}
    Solvers = {s}
    NoThread = NoThread
    NumNames = 1
    Ranks = {0, 1, 2}
    Populations <- MCPopulations
    Requests <- MCRequests
    MaxEvals = 2
    MaxSolves = 2
    NlpProblems <- MCNlpProblems
    a = a
    b = b
    c = c
    JarThreads = {j1, j2}
    NoJarThread = NoJarThread
    Wrapper = Wrapper
    Siblings = {a, b, c}
    NotBundled = NotBundled
    JarSetups <- MCJarSetups
    JarMaxCalls = 3
INVARIANTS
    TypeOK
    ResourcesHeld
    LogOfThisSolve
    HessianPlaced
    GradientPlaced
    LoadedOnceFromFirst
    AllThatLinkIsLinked
PROPERTIES
    GoodLibraryIsFound
    ExceptionSurfaces
    BestSurvives
    ImplementsEvolve
    CallEnds
CHECK_DEADLOCK FALSE
