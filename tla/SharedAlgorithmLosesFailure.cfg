SPECIFICATION Spec
CONSTANTS
    Bindings = {"csharp"}
    Evolutions = {t1, t2}
    Failures = {e1}
    NoFailure = NoFailure
INVARIANT FailureReported
