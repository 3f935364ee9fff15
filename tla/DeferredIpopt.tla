---------------------------- MODULE DeferredIpopt ----------------------------
(***************************************************************************)
(* deferred_ipopt::evolve: the IPOPT solver is found and opened at run time *)
(* by dynamic_library, inside the initialiser of a function-local static    *)
(* that every thread shares, then driven through its C interface, whose     *)
(* callbacks reach the problem through an nlp_marshaller that traps         *)
(* exceptions.  Each solver thread owns its algorithm object.  The files    *)
(* of the library, the solver and the user's problem are the environment.   *)
(***************************************************************************)
EXTENDS Integers, Sequences

CONSTANTS Threads,      \* the threads that reach get_ipopt_api()
          Solvers,      \* those that call evolve(); the others ipopt_available()
          NoThread,
          NumNames,     \* how many file names the library may have
          Populations,  \* what evolve() can be given: sequences of ranked fitness
          Ranks,        \* fitness values, ranked: smaller is better
          Requests,     \* problems, options and policies an evolve can meet
          MaxEvals,     \* bound: objective evaluations of a solve
          MaxSolves     \* bound: solves of one algorithm object

Policies == {"best", "worst", "other"}   \* "other": random, or a fixed index

RequestType ==
    [solvable  : BOOLEAN,        \* the problem has one objective and a gradient
     hessians  : BOOLEAN,        \* has_hessians()
     hessian   : {"unset", "exact", "limited-memory"},  \* what the user asks for
     select    : Policies, replace : Policies,
     verbosity : Nat]

ASSUME IpoptAssumption ==
    /\ Solvers \subseteq Threads
    /\ NoThread \notin Threads
    /\ NumNames \in Nat
    /\ Ranks \subseteq Int
    /\ Populations \subseteq Seq(Ranks)
    /\ Requests \subseteq RequestType
    /\ MaxEvals \in Nat /\ MaxSolves \in Nat

VARIABLES disk,       \* what each place holds
          api,        \* the function-local static
          loader,     \* the thread running its initialiser
          trying,     \* the place dynamic_library tries next
          open,       \* the places whose library handle is open
          loaded,     \* the place of m_handle
          promised,   \* threads for which a good library has come first since they asked
          pc,         \* each thread's step
          outcome,    \* how its last call ended
          pop,        \* the caller's population
          request,    \* what the call in progress was given
          chosen,     \* the individual it optimises
          nlp,        \* its marshaller
          threw,      \* history: a callback of this call has thrown
          problem,    \* its IpoptProblem handle
          hessianFrom, \* the hessian_approximation the handle was given
          solves,     \* the solves of the algorithm object so far
          lastRes,    \* the solve m_last_opt_res is about
          log         \* the solve m_log is about, and its lines

libraryVars == <<disk, api, loader, trying, open, loaded, promised>>
solveVars == <<chosen, nlp, threw, problem, hessianFrom, solves, lastRes, log>>
vars == <<libraryVars, pc, outcome, pop, request, solveVars>>
-----------------------------------------------------------------------------
(* 1 is the PAGMONET_IPOPT_LIBRARY override; then come the names next to the *)
(* wrapper, then the names left to the system's search.  A variable that is  *)
(* not set, or a directory that is not known, is an absent place.            *)
Places == 1..(2 * NumNames + 1)
NoPlace == 0
FileKind == {"absent", "incompatible", "good"}

NoRequest == [solvable |-> FALSE, hessians |-> FALSE, hessian |-> "unset",
              select |-> "best", replace |-> "best", verbosity |-> 0]
NoMarshaller == [evals |-> 0, lines |-> {}, trapped |-> FALSE]
IpoptDefault == "exact"
NoLog == [solve |-> 0, lines |-> {}]

GoodComesFirst(d) ==
    \E p \in Places : d[p] = "good" /\ \A q \in Places : q < p => d[q] = "absent"

(* Whom the selection and the replacement policies may pick.                 *)
Picks(p, how) ==
    CASE how = "best"  -> {i \in DOMAIN p : \A j \in DOMAIN p : p[i] <= p[j]}
      [] how = "worst" -> {i \in DOMAIN p : \A j \in DOMAIN p : p[i] >= p[j]}
      [] OTHER         -> DOMAIN p

Init ==
    /\ disk \in [Places -> FileKind]
    /\ api = "none" /\ loader = NoThread /\ trying = 1
    /\ open = {} /\ loaded = NoPlace
    /\ promised = {}
    /\ pc = [t \in Threads |-> "idle"]
    /\ outcome = [t \in Threads |-> "none"]
    /\ pop \in [Solvers -> Populations]
    /\ request = [t \in Solvers |-> NoRequest]
    /\ chosen = [t \in Solvers |-> 0]
    /\ nlp = [t \in Solvers |-> NoMarshaller]
    /\ threw = [t \in Solvers |-> FALSE]
    /\ problem = [t \in Solvers |-> "none"]
    /\ hessianFrom = [t \in Solvers |-> IpoptDefault]
    /\ solves = [t \in Solvers |-> 0]
    /\ lastRes = [t \in Solvers |-> 0]
    /\ log = [t \in Solvers |-> NoLog]
-----------------------------------------------------------------------------
Goto(t, step) == pc' = [pc EXCEPT ![t] = step] /\ UNCHANGED outcome

Call(t, step) == /\ pc' = [pc EXCEPT ![t] = step]
                 /\ outcome' = [outcome EXCEPT ![t] = "none"]

(* Mutant: the guard is built after the options have been applied.           *)
MutLeave(t, how) == /\ pc' = [pc EXCEPT ![t] = "idle"]
                    /\ outcome' = [outcome EXCEPT ![t] = how]
                    /\ problem' = [problem EXCEPT ![t] = IF pc[t] = "options" THEN @ ELSE "none"]
                    /\ request' = [request EXCEPT ![t] = NoRequest]
                    /\ chosen' = [chosen EXCEPT ![t] = 0]
                    /\ nlp' = [nlp EXCEPT ![t] = NoMarshaller]
                    /\ threw' = [threw EXCEPT ![t] = FALSE]
                    /\ hessianFrom' = [hessianFrom EXCEPT ![t] = IpoptDefault]

(* The call ends; leaving the scope of evolve destroys its locals, so the    *)
(* guard frees the IpoptProblem if there is one.                             *)
Leave(t, how) == /\ pc' = [pc EXCEPT ![t] = "idle"]
                 /\ outcome' = [outcome EXCEPT ![t] = how]
                 /\ problem' = [problem EXCEPT ![t] = "none"]
                 /\ request' = [request EXCEPT ![t] = NoRequest]
                 /\ chosen' = [chosen EXCEPT ![t] = 0]
                 /\ nlp' = [nlp EXCEPT ![t] = NoMarshaller]
                 /\ threw' = [threw EXCEPT ![t] = FALSE]
                 /\ hessianFrom' = [hessianFrom EXCEPT ![t] = IpoptDefault]

Throw(t) == Leave(t, "error") /\ UNCHANGED <<pop, solves, lastRes, log>>

(* evolve() selects the individual to optimise.                              *)
Evolve(t) ==
    /\ pc[t] = "idle" /\ t \in Solvers
    /\ solves[t] < MaxSolves
    /\ Call(t, "guess")
    /\ \E p \in Populations, r \in Requests :
          /\ pop' = [pop EXCEPT ![t] = p]
          /\ request' = [request EXCEPT ![t] = r]
          /\ \/ /\ p = <<>>
                /\ UNCHANGED chosen
             \/ \E i \in Picks(p, r.select) : chosen' = [chosen EXCEPT ![t] = i]
    /\ UNCHANGED <<libraryVars, nlp, threw, problem, hessianFrom, solves, lastRes, log>>

(* An empty population comes back as it is; a guess that is NaN or outside   *)
(* the bounds is refused before the library is looked for.                   *)
CheckGuess(t) ==
    /\ pc[t] = "guess"
    /\ \/ /\ pop[t] = <<>>
          /\ Leave(t, "returned")
          /\ UNCHANGED <<libraryVars, pop, solves, lastRes, log>>
       \/ /\ pop[t] # <<>>
          /\ Throw(t)
          /\ UNCHANGED libraryVars
       \/ /\ pop[t] # <<>>
          /\ Goto(t, "library")
          /\ promised' = IF GoodComesFirst(disk) THEN promised \cup {t} ELSE promised
          /\ UNCHANGED <<disk, api, loader, trying, open, loaded, pop, request, solveVars>>

(* ipopt_available()                                                         *)
Probe(t) ==
    /\ pc[t] = "idle" /\ t \notin Solvers
    /\ Call(t, "library")
    /\ promised' = IF GoodComesFirst(disk) THEN promised \cup {t} ELSE promised
    /\ UNCHANGED <<disk, api, loader, trying, open, loaded, pop, request, solveVars>>
-----------------------------------------------------------------------------
(* get_ipopt_api(): the first thread runs the static's initialiser, others   *)
(* wait until it is done; an initialiser that threw is run again by the next. *)
HaveApi(t) ==
    /\ promised' = promised \ {t}
    /\ IF t \in Solvers
         THEN Goto(t, "prepare")
         ELSE /\ pc' = [pc EXCEPT ![t] = "idle"]
              /\ outcome' = [outcome EXCEPT ![t] = "available"]
    /\ UNCHANGED <<pop, request, solveVars>>

(* Mutant: an initialiser that threw is never aborted, so others wait for it. *)
MutNoApi(t) ==
    /\ promised' = promised \ {t}
    /\ UNCHANGED <<api, loader>>
    /\ IF t \in Solvers
         THEN Throw(t)
         ELSE /\ pc' = [pc EXCEPT ![t] = "idle"]
              /\ outcome' = [outcome EXCEPT ![t] = "unavailable"]
              /\ UNCHANGED <<pop, request, solveVars>>

NoApi(t) ==
    /\ promised' = promised \ {t}
    /\ api' = "none" /\ loader' = NoThread
    /\ IF t \in Solvers
         THEN Throw(t)
         ELSE /\ pc' = [pc EXCEPT ![t] = "idle"]
              /\ outcome' = [outcome EXCEPT ![t] = "unavailable"]
              /\ UNCHANGED <<pop, request, solveVars>>

ApiReady(t) ==
    /\ pc[t] = "library" /\ api = "ready"
    /\ HaveApi(t)
    /\ UNCHANGED <<disk, api, loader, trying, open, loaded>>

(* Mutant: a search resumes where the one that failed had stopped.            *)
MutStartLoading(t) ==
    /\ pc[t] = "library" /\ api = "none"
    /\ api' = "loading" /\ loader' = t
    /\ Goto(t, "loading")
    /\ UNCHANGED <<disk, trying, open, loaded, promised, pop, request, solveVars>>

StartLoading(t) ==
    /\ pc[t] = "library" /\ api = "none"
    /\ api' = "loading" /\ loader' = t /\ trying' = 1
    /\ Goto(t, "loading")
    /\ UNCHANGED <<disk, open, loaded, promised, pop, request, solveVars>>

(* os_load of one place, in order.                                           *)
TryPlace(t) ==
    /\ pc[t] = "loading" /\ loaded = NoPlace
    /\ trying \in Places
    /\ IF disk[trying] = "absent"
         THEN trying' = trying + 1 /\ UNCHANGED <<open, loaded>>
         ELSE /\ open' = open \cup {trying}
              /\ loaded' = trying
              /\ UNCHANGED trying
    /\ UNCHANGED <<disk, api, loader, promised, pc, outcome, pop, request, solveVars>>

NothingLoads(t) ==
    /\ pc[t] = "loading" /\ loaded = NoPlace
    /\ trying \notin Places
    /\ NoApi(t)
    /\ UNCHANGED <<disk, trying, open, loaded>>

(* A library without one of the six entry points is closed again by the      *)
(* destructor of the lib member; the places after it are not tried.          *)
ResolveSymbols(t) ==
    /\ pc[t] = "loading" /\ loaded # NoPlace
    /\ IF disk[loaded] = "good"
         THEN /\ api' = "ready" /\ loader' = NoThread
              /\ HaveApi(t)
              /\ UNCHANGED <<open, loaded>>
         ELSE /\ open' = open \ {loaded}
              /\ loaded' = NoPlace
              /\ NoApi(t)
    /\ UNCHANGED <<disk, trying>>

(* The user installs, replaces or removes a library that is not in use; once   *)
(* one is loaded the files are not looked at any more.                        *)
DiskChanges ==
    /\ api # "ready"
    /\ \E p \in Places \ open, k \in FileKind : disk' = [disk EXCEPT ![p] = k]
    /\ disk' # disk
    /\ promised' = {}
    /\ UNCHANGED <<api, loader, trying, open, loaded, pc, outcome, pop, request, solveVars>>
-----------------------------------------------------------------------------
(* nlp_marshaller's constructor refuses the problem, or CreateIpoptProblem    *)
(* returns null; otherwise the guard owns the handle.                        *)
Prepare(t) ==
    /\ pc[t] = "prepare"
    /\ \/ Throw(t)
       \/ /\ request[t].solvable
          /\ problem' = [problem EXCEPT ![t] = "live"]
          /\ Goto(t, "options")
          /\ UNCHANGED <<pop, request, chosen, nlp, threw, hessianFrom, solves, lastRes, log>>
    /\ UNCHANGED libraryVars

(* Without hessians the quasi-Newton approximation is the default.           *)
HessianFor(r) == IF r.hessian # "unset" THEN r.hessian
                 ELSE IF r.hessians THEN IpoptDefault ELSE "limited-memory"

(* Tolerance, output level and the user's options: IPOPT may refuse any.      *)
ApplyOptions(t) ==
    /\ pc[t] = "options"
    /\ \/ Throw(t)
       \/ /\ hessianFrom' = [hessianFrom EXCEPT ![t] = HessianFor(request[t])]
          /\ Goto(t, "solve")
          /\ UNCHANGED <<pop, request, chosen, nlp, threw, problem, solves, lastRes, log>>
    /\ UNCHANGED libraryVars
-----------------------------------------------------------------------------
(* IpoptSolve: the solver calls back as it likes.  A callback that throws    *)
(* returns FALSE to the solver, which may stop or try another point.         *)

Trapped(t) == /\ nlp' = [nlp EXCEPT ![t].trapped = TRUE]
              /\ threw' = [threw EXCEPT ![t] = TRUE]

(* eval_f logs every verbosity-th evaluation that succeeds.                  *)
Logged(m, v) ==
    [m EXCEPT !.evals = @ + 1,
              !.lines = IF v # 0 /\ m.evals % v = 0 THEN @ \cup {m.evals + 1} ELSE @]

EvalF(t) ==
    /\ pc[t] = "solve"
    /\ \/ /\ nlp[t].evals < MaxEvals
          /\ nlp' = [nlp EXCEPT ![t] = Logged(@, request[t].verbosity)]
          /\ UNCHANGED threw
       \/ Trapped(t)
    /\ UNCHANGED <<libraryVars, pc, outcome, pop, request, chosen, problem, hessianFrom,
                   solves, lastRes, log>>

(* eval_grad_f, eval_g, eval_jac_g: one that succeeds changes nothing here.  *)
EvalOther(t) ==
    /\ pc[t] = "solve"
    /\ Trapped(t)
    /\ UNCHANGED <<libraryVars, pc, outcome, pop, request, chosen, problem, hessianFrom,
                   solves, lastRes, log>>

(* eval_h is called unless IPOPT approximates the Hessian; it also throws if   *)
(* the problem has none.                                                     *)
EvalH(t) ==
    /\ pc[t] = "solve"
    /\ hessianFrom[t] = "exact"
    /\ Trapped(t)
    /\ UNCHANGED <<libraryVars, pc, outcome, pop, request, chosen, problem, hessianFrom,
                   solves, lastRes, log>>

MutSolverReturns(t) ==  \* mutant: the return code of the solve before
    /\ pc[t] = "solve"
    /\ solves' = [solves EXCEPT ![t] = @ + 1]
    /\ lastRes' = [lastRes EXCEPT ![t] = solves[t] - 1]
    /\ Goto(t, "solved")
    /\ UNCHANGED <<libraryVars, pop, request, chosen, nlp, threw, problem, hessianFrom, log>>

SolverReturns(t) ==
    /\ pc[t] = "solve"
    /\ solves' = [solves EXCEPT ![t] = @ + 1]
    /\ lastRes' = [lastRes EXCEPT ![t] = solves[t] + 1]
    /\ Goto(t, "solved")
    /\ UNCHANGED <<libraryVars, pop, request, chosen, nlp, threw, problem, hessianFrom, log>>

(* An exception trapped by a callback is rethrown, whatever the solver said. *)
Rethrow(t) ==
    /\ pc[t] = "solved" /\ nlp[t].trapped
    /\ Throw(t)
    /\ UNCHANGED libraryVars

(* Mutants: a solve that returned needs no rethrow; a silent one leaves m_log. *)
MutCopyLog(t) ==
    /\ pc[t] = "solved"
    /\ log' = [log EXCEPT ![t] = [solve |-> solves[t], lines |-> nlp[t].lines]]
    /\ Goto(t, "replace")
    /\ UNCHANGED <<libraryVars, pop, request, chosen, nlp, threw, problem, hessianFrom,
                   solves, lastRes>>

MutCopyLogIfVerbose(t) ==
    /\ pc[t] = "solved" /\ ~nlp[t].trapped
    /\ log' = IF request[t].verbosity = 0 THEN log
              ELSE [log EXCEPT ![t] = [solve |-> solves[t], lines |-> nlp[t].lines]]
    /\ Goto(t, "replace")
    /\ UNCHANGED <<libraryVars, pop, request, chosen, nlp, threw, problem, hessianFrom,
                   solves, lastRes>>

CopyLog(t) ==
    /\ pc[t] = "solved" /\ ~nlp[t].trapped
    /\ log' = [log EXCEPT ![t] = [solve |-> solves[t], lines |-> nlp[t].lines]]
    /\ Goto(t, "replace")
    /\ UNCHANGED <<libraryVars, pop, request, chosen, nlp, threw, problem, hessianFrom,
                   solves, lastRes>>

(* fitness() of the solution; it takes the place the replacement policy      *)
(* picks only if it beats the individual that was selected.                  *)
(* Mutants: the comparison accepts a tie; there is no comparison.             *)
MutReplaceTie(t) ==
    /\ pc[t] = "replace"
    /\ \E rank \in Ranks, slot \in Picks(pop[t], request[t].replace) :
          pop' = IF rank <= pop[t][chosen[t]] THEN [pop EXCEPT ![t][slot] = rank] ELSE pop
    /\ Leave(t, "returned")
    /\ UNCHANGED <<libraryVars, solves, lastRes, log>>

MutReplace(t) ==
    /\ pc[t] = "replace"
    /\ \E rank \in Ranks, slot \in Picks(pop[t], request[t].replace) :
          pop' = [pop EXCEPT ![t][slot] = rank]
    /\ Leave(t, "returned")
    /\ UNCHANGED <<libraryVars, solves, lastRes, log>>

Replace(t) ==
    /\ pc[t] = "replace"
    /\ \/ Throw(t)
       \/ /\ \E rank \in Ranks :
                IF rank < pop[t][chosen[t]]
                  THEN \E slot \in Picks(pop[t], request[t].replace) :
                          pop' = [pop EXCEPT ![t][slot] = rank]
                  ELSE UNCHANGED pop
          /\ Leave(t, "returned")
          /\ UNCHANGED <<solves, lastRes, log>>
    /\ UNCHANGED libraryVars
-----------------------------------------------------------------------------
Loading(t) == StartLoading(t) \/ TryPlace(t) \/ NothingLoads(t) \/ ResolveSymbols(t)

Solving(t) == \/ Prepare(t) \/ ApplyOptions(t)
              \/ SolverReturns(t) \/ Rethrow(t) \/ CopyLog(t) \/ Replace(t)

Next == \/ DiskChanges
        \/ \E t \in Threads : \/ Probe(t)
                              \/ ApiReady(t) \/ Loading(t)
        \/ \E t \in Solvers : \/ Evolve(t) \/ CheckGuess(t)
                              \/ Solving(t) \/ EvalF(t) \/ EvalOther(t) \/ EvalH(t)

(* A thread inside a call keeps running; the solver returns, and the operating *)
(* system's loader too.  Nobody has to start a call or to install a library.   *)
Fairness == /\ \A t \in Threads : WF_vars(ApiReady(t) \/ Loading(t))
            /\ \A t \in Solvers : WF_vars(CheckGuess(t)) /\ WF_vars(Solving(t))

Spec == Init /\ [][Next]_vars /\ Fairness
-----------------------------------------------------------------------------
(* Properties *)

Steps == {"idle", "guess", "library", "loading", "prepare", "options", "solve",
          "solved", "replace"}

TypeOK ==
    /\ disk \in [Places -> FileKind]
    /\ api \in {"none", "loading", "ready"}
    /\ loader \in Threads \cup {NoThread}
    /\ trying \in Nat
    /\ open \in SUBSET Places
    /\ loaded \in Places \cup {NoPlace}
    /\ promised \in SUBSET Threads
    /\ pc \in [Threads -> Steps]
    /\ outcome \in [Threads -> {"none", "returned", "error", "available", "unavailable"}]
    /\ pop \in [Solvers -> Seq(Ranks)]
    /\ request \in [Solvers -> Requests \cup {NoRequest}]
    /\ chosen \in [Solvers -> Nat]
    /\ nlp \in [Solvers -> [evals : Nat, lines : SUBSET Nat,
                            trapped : BOOLEAN]]
    /\ threw \in [Solvers -> BOOLEAN]
    /\ problem \in [Solvers -> {"none", "live"}]
    /\ hessianFrom \in [Solvers -> {"exact", "limited-memory"}]
    /\ solves \in [Solvers -> Nat] /\ lastRes \in [Solvers -> Nat]
    /\ log \in [Solvers -> [solve : Nat, lines : SUBSET Nat]]

UsesLibrary(t) == pc[t] \in {"prepare", "options", "solve", "solved", "replace"}

LibraryStaysOpen ==
    /\ \A t \in Solvers : UsesLibrary(t) => api = "ready"
    /\ api = "ready" => loaded # NoPlace /\ disk[loaded] = "good"
    /\ open = IF loaded = NoPlace THEN {} ELSE {loaded}
    /\ api = "none" => open = {}

HandleOwned ==
    \A t \in Solvers : (problem[t] = "live")
                       <=> (pc[t] \in {"options", "solve", "solved", "replace"})

(* What evolve uses is valid while it uses it and is given back afterwards.     *)
(* The entry points: while a thread is past get_ipopt_api() the library they    *)
(* belong to is open, and it is the only one open; one that turned out          *)
(* incompatible, or that two threads opened at once, does not stay behind.      *)
(* The IpoptProblem: no solve on a freed one and none left, whichever way out   *)
(* evolve takes, by a refused option or by a solution whose fitness throws.     *)
ResourcesHeld == LibraryStaysOpen /\ HandleOwned

(* A failure to load is not remembered: a thread that asks while a compatible  *)
(* library is the first the search meets is not told there is none, whatever   *)
(* an earlier attempt found and whoever else is loading at the time.           *)
GoodLibraryIsFound ==
    [][\A t \in promised : pc'[t] = "idle" => outcome'[t] = "available"]_vars

(* An exception a callback threw always reaches the caller of evolve, even if  *)
(* the solver recovered from the failed evaluation and reports success; the    *)
(* population and the log stay those of before.                                *)
ExceptionSurfaces ==
    [][\A t \in Solvers :
          threw[t] /\ pc[t] = "solved" => /\ outcome'[t] = "error" \/ pc'[t] = "solved"
                                          /\ pop'[t] = pop[t] /\ log'[t] = log[t]]_vars

(* What can be read of m_log and m_last_opt_res between two calls of evolve,    *)
(* which writes them on either side of the rethrow.  m_last_opt_res is about    *)
(* the last solve there was, whichever way its evolve ended, and m_log is never  *)
(* ahead of it; after an evolve that optimised and returned the two are about   *)
(* the same solve again, whatever the evolves before it left behind.  The log   *)
(* is whole when it is written: no line of an earlier solve, the first          *)
(* evaluation and every verbosity-th after it.                                 *)
LogOfThisSolve ==
    \A t \in Solvers :
        /\ pc[t] = "replace" =>
              log[t].lines = {k \in 1..nlp[t].evals :
                                /\ request[t].verbosity # 0
                                /\ (k - 1) % request[t].verbosity = 0}
        /\ pc[t] = "idle" =>
              /\ lastRes[t] = solves[t]
              /\ log[t].solve <= lastRes[t]
              /\ outcome[t] = "returned" /\ pop[t] # <<>> => log[t].solve = lastRes[t]

AsGood(p, q) == \A i \in DOMAIN p : \E j \in DOMAIN q : q[j] <= p[i]

(* If the best is selected or the worst replaced, evolve never loses the best   *)
(* fitness of the population: comparing with the selected individual is enough  *)
(* although another may be replaced.  Any other pair of policies can lose it.    *)
BestSurvives ==
    [][\A t \in Solvers :
          /\ pc[t] = "replace"
          /\ request[t].select = "best" \/ request[t].replace = "worst"
          => AsGood(pop[t], pop'[t])]_vars

(* A thread that loads the library, or has it, ends its call, and one that      *)
(* waits for another to load it does not wait for a thread that has given up:   *)
(* the search is finite, and a failed initialiser lets the next thread try.     *)
CallEnds ==
    \A t \in Threads :
       /\ (pc[t] \notin {"idle", "guess", "library"}) ~> (pc[t] = "idle")
       /\ (pc[t] = "library") ~> (pc[t] # "library" \/ \E u \in Threads : pc[u] = "loading")

Contract == INSTANCE EvolveContract
                WITH Callers <- Solvers,
                     running <- {t \in Solvers : pc[t] # "idle"}
(* evolve is an implementation of what a not-population-based algorithm         *)
(* promises: all or nothing, and one individual at most.                       *)
ImplementsEvolve == Contract!Spec
=============================================================================
