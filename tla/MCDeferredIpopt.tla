--------------------------- MODULE MCDeferredIpopt ---------------------------
(***************************************************************************)
(* Three parts that load or drive native code and do not share state: an     *)
(* evolve with the library it loads, the marshaller it hands to the solver,  *)
(* and Java's loader of the wrapper itself.  A behaviour is one of one part;  *)
(* the others stay in an initial state.                                     *)
(***************************************************************************)
EXTENDS DeferredIpopt, NlpMarshaller, NativeLoader

CONSTANTS s, q,        \* a solver and a thread that probes for the library
          a, b, c      \* libraries bundled with the wrapper

VARIABLE part
mcVars == <<vars, nlpVars, jarVars, part>>
-----------------------------------------------------------------------------
MCPopulations == {<<>>, <<0, 2>>}

Plain == [solvable |-> TRUE, hessians |-> TRUE, hessian |-> "unset",
          select |-> "best", replace |-> "best", verbosity |-> 0]

(* A problem ipopt refuses; one without hessians, by default and with the exact *)
(* Hessian asked for; policies; every evaluation logged, or every second.       *)
MCRequests ==
    {[Plain EXCEPT !.solvable = FALSE],
     [Plain EXCEPT !.hessians = FALSE, !.verbosity = 2],
     [Plain EXCEPT !.hessians = FALSE, !.hessian = "exact"],
     [Plain EXCEPT !.select = "worst", !.replace = "worst", !.verbosity = 1],
     [Plain EXCEPT !.select = "worst", !.replace = "best"],
     [Plain EXCEPT !.replace = "other"],
     [Plain EXCEPT !.select = "other", !.replace = "worst"]}
-----------------------------------------------------------------------------
TwoConstraints ==
    [nx |-> 2, nc |-> 2, hess |-> "none", userGradient |-> FALSE,
     gsp |-> DenseGradient(2, 2), hsp |-> [j \in 0..2 |-> <<>>]]

Patterns == {<<>>, <<1>>, <<2>>, <<3>>, <<1, 2>>, <<1, 3>>, <<2, 3>>, <<1, 2, 3>>}

(* Sparse and dense gradients and Hessians; every triple of Hessian patterns.   *)
MCNlpProblems ==
    {TwoConstraints,
     [TwoConstraints EXCEPT !.nc = 0, !.userGradient = TRUE, !.gsp = <<<<0, 1>>>>,
                            !.hsp = [j \in {0} |-> <<>>]],
     [TwoConstraints EXCEPT !.hess = "dense", !.hsp = [j \in 0..2 |-> DenseHessian(2)]]}
    \cup {[TwoConstraints EXCEPT !.userGradient = TRUE, !.gsp = g] :
             g \in {<<<<0, 1>>, <<1, 0>>, <<2, 0>>, <<2, 1>>>>, <<<<1, 1>>>>,
                    <<<<0, 0>>, <<0, 1>>>>}}
    \cup {[TwoConstraints EXCEPT !.hess = "sparse", !.hsp = h] : h \in [0..2 -> Patterns]}
-----------------------------------------------------------------------------
Bundled == [directory |-> "unset", onPath |-> FALSE, roots |-> <<{Wrapper}, Siblings>>,
            resource |-> TRUE, windows |-> TRUE, imports |-> [f \in Files |-> {}]]

(* Each of the three places; nothing to enumerate; files that find each other;  *)
(* and every way a and b can import b, c or a library that is not there.        *)
MCJarSetups ==
    {[Bundled EXCEPT !.directory = "good"],
     [Bundled EXCEPT !.directory = "bad", !.onPath = TRUE],
     [Bundled EXCEPT !.onPath = TRUE],
     [Bundled EXCEPT !.roots = <<{}>>],
     [Bundled EXCEPT !.roots = <<>>, !.resource = FALSE],
     [Bundled EXCEPT !.windows = FALSE, !.imports[Wrapper] = {a}]}
    \cup {[Bundled EXCEPT !.imports = i @@ (c :> {}) @@ (Wrapper :> {a})] :
             i \in [{a, b} -> {{}, {b}, {c}, {NotBundled}}]}
-----------------------------------------------------------------------------
MCInit ==
    /\ part \in {"evolve", "marshaller", "wrapper"}
    /\ Init
    /\ part # "evolve" => /\ disk = [p \in Places |-> "absent"]
                          /\ pop = [t \in Solvers |-> <<>>]
    /\ NlpInit
    /\ part # "marshaller" => nlpProblem = TwoConstraints
    /\ JarInit
    /\ part # "wrapper" => setup = [Bundled EXCEPT !.onPath = TRUE]

MCNext ==
    /\ UNCHANGED part
    /\ \/ part = "evolve" /\ Next /\ UNCHANGED <<nlpVars, jarVars>>
       \/ part = "marshaller" /\ NlpNext /\ UNCHANGED <<vars, jarVars>>
       \/ part = "wrapper" /\ JarNext /\ UNCHANGED <<vars, nlpVars>>

MCSpec == MCInit /\ [][MCNext]_mcVars /\ Fairness
=============================================================================
